--------------------------- MODULE WaitlistLedger ---------------------------
(***************************************************************************)
(* What seats and waitlists promise together, with no token, deadline,     *)
(* cron, lock or transaction in sight.  A claim on a slot is answered once:*)
(* it gets a seat when one is free, or it waits behind everybody who waits.*)
(* A row of the waitlist may be offered a seat.  It leaves the waitlist    *)
(* when the offer is accepted or the row is withdrawn; nobody changes      *)
(* places and no row comes back.                                           *)
(*                                                                         *)
(* A row may be withdrawn, or its offer accepted, while an acceptance of   *)
(* it is under way.  The promise is then the weaker one: whoever gets a    *)
(* seat through an offer holds one that was sent to a row of that slot.    *)
(***************************************************************************)
EXTENDS Integers, FiniteSets

CONSTANTS
    Claims,       \* identities of claims; a row is known by its claim
    Slots,        \* the pools of seats
    Locations,    \* every slot belongs to one location,
    LocationOf(_) \* this one

VARIABLES
    seats,    \* seats[s]: the claims that hold a seat of s
    waiting,  \* waiting[s]: the rows that wait for one
    ahead,    \* ahead[s]: the pairs <<c, d>> with c waiting ahead of d
    left,     \* left[s]: the rows that have left the waitlist of s
    offered,  \* the rows that have been sent an offer
    high      \* high[l]: the highest capacity location l has had

vars == <<seats, waiting, ahead, left, offered, high>>

(* Each of the rows is ahead of each other one or behind it. *)
IsQueue(rows, order) ==
    /\ order \subseteq rows \X rows
    /\ \A c, d \in rows : <<c, d>> \in order => <<d, c>> \notin order
    /\ \A c, d \in rows : c = d \/ <<c, d>> \in order \/ <<d, c>> \in order
    /\ \A c, d, e \in rows : <<c, d>> \in order /\ <<d, e>> \in order => <<c, e>> \in order

Rows(s) == waiting[s] \cup left[s]

(* A claim is new as long as no slot has answered it. *)
Unanswered == {c \in Claims : \A s \in Slots : c \notin seats[s] \cup Rows(s)}

HasFreeSeat(s) == Cardinality(seats[s]) < high[LocationOf(s)]

(* Some rows wait from before. *)
Init ==
    /\ seats = [s \in Slots |-> {}]
    /\ waiting \in [Slots -> SUBSET Claims]
    /\ \A s, t \in Slots : s = t \/ waiting[s] \cap waiting[t] = {}
    /\ ahead = [s \in Slots |-> ahead[s]]
    /\ \A s \in Slots : IsQueue(waiting[s], ahead[s])
    /\ left = [s \in Slots |-> {}]
    /\ offered = {}
    /\ high \in [Locations -> Nat]

(* The desk gives out a seat. *)
Grant(s, c) ==
    /\ HasFreeSeat(s)
    /\ seats' = [seats EXCEPT ![s] = @ \cup {c}]
    /\ UNCHANGED <<waiting, ahead, left, offered, high>>

Join(s, c) ==
    /\ waiting' = [waiting EXCEPT ![s] = @ \cup {c}]
    /\ ahead' = [ahead EXCEPT ![s] = @ \cup (waiting[s] \X {c})]
    /\ UNCHANGED <<seats, left, offered, high>>

Offer(w) ==
    /\ offered' = offered \cup {w}
    /\ UNCHANGED <<seats, waiting, ahead, left, high>>

(* A row that leaves closes the gap it leaves in the queue. *)
Leave(s, w) ==
    /\ waiting' = [waiting EXCEPT ![s] = @ \ {w}]
    /\ ahead' = [ahead EXCEPT ![s] = {pair \in @ : w \notin {pair[1], pair[2]}}]
    /\ left' = [left EXCEPT ![s] = @ \cup {w}]

(* Claim c accepts the offer that was sent to row w. *)
Accept(s, c, w) ==
    /\ HasFreeSeat(s)
    /\ seats' = [seats EXCEPT ![s] = @ \cup {c}]
    /\ Leave(s, w)
    /\ UNCHANGED <<offered, high>>

Withdraw(s, w) ==
    /\ Leave(s, w)
    /\ UNCHANGED <<seats, offered, high>>

(* Staff edit the capacity of a location. *)
Resize(l) ==
    /\ high' \in [Locations -> Nat]
    /\ high'[l] >= high[l]
    /\ \A k \in Locations \ {l} : high'[k] = high[k]
    /\ UNCHANGED <<seats, waiting, ahead, left, offered>>

Next ==
    \/ \E l \in Locations : Resize(l)
    \/ \E s \in Slots :
          \/ \E c \in Unanswered : Grant(s, c) \/ Join(s, c)
          \/ \E w \in Rows(s) \ offered : Offer(w)
          \/ \E w \in waiting[s] : Withdraw(s, w)
          \/ \E c \in Unanswered, w \in Rows(s) \cap offered : Accept(s, c, w)

Spec == Init /\ [][Next]_vars
=============================================================================
