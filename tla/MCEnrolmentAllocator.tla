------------------------ MODULE MCEnrolmentAllocator ------------------------
(* Small instances of the allocator for TLC. *)
EXTENDS EnrolmentHistory, TLC

CONSTANTS p1, p2, p3, r1, r2, r3

TwoSlots == {<<"s1", "l1">>, <<"s2", "l1">>}

(* All sessions have the same dates. *)
AllOverlap == Sessions \X Sessions

(* Requests are interchangeable, and so are people not registered before. *)
Interchangeable == Permutations({r1, r2, r3}) \cup Permutations({p2, p3})
=============================================================================
