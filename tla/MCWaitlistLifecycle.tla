------------------------ MODULE MCWaitlistLifecycle ------------------------
(* Small instances of the waitlist lifecycle for TLC. *)
EXTENDS WaitlistLifecycle, TLC

CONSTANTS p1, p2, p3, w1, w2, r1, r2

OneSlot == {<<"s1", "l1">>}
OwnDates == {<<s, s>> : s \in Sessions}

Slot1 == <<"s1", "l1">>

OneWaits == {[id |-> w1, participant |-> p1, slot |-> Slot1, position |-> 1]}
TwoWait == OneWaits \cup {[id |-> w2, participant |-> p2, slot |-> Slot1, position |-> 2]}

Callers == Permutations({r1, r2})
=============================================================================
