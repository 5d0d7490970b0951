-------------------------- MODULE EnrolmentHistory --------------------------
(***************************************************************************)
(* The allocator's requests with a record of whether two of them have ever *)
(* been under way at once.  The checks that enrol and reEnrol make before  *)
(* their transaction are worth as much as the requests that follow one     *)
(* another; the advisory lock, which they do not hold, covers the rest.    *)
(***************************************************************************)
EXTENDS EnrolmentAllocator

VARIABLE overlapped   \* history: two requests have been under way at once

RecordInit == Init /\ overlapped = FALSE

RecordNext == Next /\ overlapped' = (overlapped \/ Cardinality(UnderWay') > 1)

RecordSpec == RecordInit /\ [][RecordNext]_<<vars, overlapped>>

-----------------------------------------------------------------------------
(* Nobody holds two seats of a slot, or a seat and a place on its waitlist. *)
NoDuplicateClaims ==
    \A c, d \in enrolments \cup {w \in waitlist : w.id \notin deletedRows} :
        c.participant = d.participant /\ c.slot = d.slot => c.id = d.id

(* Nobody has seats in two sessions whose dates overlap, unless staff have *)
(* allowed it or one was carried over to the other.                        *)
NoOverlappingSeats ==
    \A c, d \in enrolments :
        (c # d /\ c.participant = d.participant /\ <<c.slot[1], d.slot[1]>> \in Overlapping) =>
            \/ job[c.id].allowOverlap \/ job[d.id].allowOverlap
            \/ job[c.id].previous = d.id \/ job[d.id].previous = c.id

(* "Rejecting duplicate registrations" is left to the allocator's callers  *)
(* (enrolment-allocator.service.ts 37), and so is refusing sessions that   *)
(* overlap (enrolments.service.ts 17-19).  As long as no two requests are  *)
(* under way at once, failed ones included, they keep to both.             *)
SerialClaimsAgree == ~overlapped => NoDuplicateClaims /\ NoOverlappingSeats
=============================================================================
