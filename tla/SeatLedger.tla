----------------------------- MODULE SeatLedger -----------------------------
(***************************************************************************)
(* What seat allocation promises, with no transaction, lock or database in *)
(* sight.  A slot is a session held at a location.  Every claim on a slot  *)
(* is answered once, in one atomic step: it gets a seat when one is free,  *)
(* or it waits behind everybody who is already waiting.                    *)
(*                                                                         *)
(* The capacity of a location may be edited while a claim is being         *)
(* answered, so the promise is relative to the capacities that have been   *)
(* in force: never more seats than the highest of them, and nobody is made *)
(* to wait below the lowest of them.                                       *)
(***************************************************************************)
EXTENDS Integers, FiniteSets

CONSTANTS
    Claims,       \* identities of claims
    Slots,        \* the pools of seats
    Locations,    \* every slot belongs to one location,
    LocationOf(_) \* this one

VARIABLES
    seats,    \* seats[s]: the claims that hold a seat of s
    waiting,  \* waiting[s]: the claims that wait for one
    ahead,    \* ahead[s]: the pairs <<c, d>> with c waiting ahead of d
    high,     \* high[l], low[l]: the highest and the lowest capacity
    low       \*   location l has had

vars == <<seats, waiting, ahead, high, low>>

(* A claim is new as long as no slot has answered it. *)
Unanswered(c) == \A s \in Slots : c \notin seats[s] /\ c \notin waiting[s]

HasFreeSeat(s) == Cardinality(seats[s]) < high[LocationOf(s)]
MayBeFull(s) == Cardinality(seats[s]) >= low[LocationOf(s)]

Init ==
    /\ seats = [s \in Slots |-> {}]
    /\ waiting = [s \in Slots |-> {}]
    /\ ahead = [s \in Slots |-> {}]
    /\ high \in [Locations -> Nat]
    /\ low = high

Grant(s, c) ==
    /\ Unanswered(c)
    /\ HasFreeSeat(s)
    /\ seats' = [seats EXCEPT ![s] = @ \cup {c}]
    /\ UNCHANGED <<waiting, ahead, high, low>>

Join(s, c) ==
    /\ Unanswered(c)
    /\ MayBeFull(s)
    /\ waiting' = [waiting EXCEPT ![s] = @ \cup {c}]
    /\ ahead' = [ahead EXCEPT ![s] = @ \cup (waiting[s] \X {c})]
    /\ UNCHANGED <<seats, high, low>>

(* Staff edit the capacity of a location: the range of capacities that     *)
(* have been in force can only widen.                                      *)
Resize(l) ==
    /\ high' \in [Locations -> Nat]
    /\ low' \in [Locations -> Nat]
    /\ high'[l] >= high[l]
    /\ low'[l] <= low[l]
    /\ \A k \in Locations \ {l} : high'[k] = high[k] /\ low'[k] = low[k]
    /\ UNCHANGED <<seats, waiting, ahead>>

Next ==
    \/ \E s \in Slots, c \in Claims : Grant(s, c) \/ Join(s, c)
    \/ \E l \in Locations : Resize(l)

Spec == Init /\ [][Next]_vars
=============================================================================
