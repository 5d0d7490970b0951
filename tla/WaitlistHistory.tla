--------------------------- MODULE WaitlistHistory ---------------------------
(***************************************************************************)
(* The waitlist lifecycle with a record of whether two runners - calls,    *)
(* promotions they started, crons - have ever been under way at once.      *)
(* What the code says of a row, an offer and a link rests on queries that  *)
(* nothing locks, and is kept by runners that follow one another.          *)
(***************************************************************************)
EXTENDS WaitlistLifecycle

VARIABLE raced   \* history: two runners have been under way at once

Running ==
    UnderWay \cup {a \in Runners : at[a] \notin {"rest", "done", "refused"}}

HistoryInit == LifecycleInit /\ raced = FALSE

HistoryNext == LifecycleNext /\ raced' = (raced \/ Cardinality(Running') > 1)

HistorySpec == HistoryInit /\ [][HistoryNext]_<<allVars, raced>>
HistoryFairSpec == HistorySpec /\ Fairness

-----------------------------------------------------------------------------
(* A promotion about to make an offer has no other outstanding in its slot *)
(* (waitlist.service.ts 335-343).                                          *)
OfferIsAlone ==
    \A a \in Runners : at[a] = "issue" => \A w \in Active(goal[a]) : ~Outstanding(w.id)

(* The rows about to be marked EXPIRED are pending and have lapsed (273).  *)
BatchHasLapsed == \A id \in batch : IsPending(id) /\ HasLapsed(id)

(* A link that has been sent, has not run out and has not been used can be *)
(* accepted: "status stays PENDING" (426).                                 *)
SentLinksWork ==
    \A id \in RowIds \ deletedRows :
        offer[id].token # 0 /\ offer[id].expiresAt >= now => IsPending(id)

(* Whoever has a seat neither waits for the slot nor has another (the      *)
(* checks of enrol, enrolments.service.ts 112-136).                        *)
NobodyClaimsTwice ==
    \A e \in enrolments :
        /\ \A w \in Active(e.slot) : w.participant # e.participant
        /\ \A d \in Occupants(e.slot) : d.participant = e.participant => d = e

(* As long as no two runners are under way at once - a call, and then the  *)
(* promotion it started, lost or not - a row yields one seat, a promotion  *)
(* adds no second offer, only lapsed offers are marked EXPIRED, links that *)
(* were sent work, and nobody has two claims on a slot.                    *)
SerialRunsAgree ==
    ~raced => /\ OneSeatPerRow /\ OfferIsAlone /\ BatchHasLapsed
              /\ SentLinksWork /\ NobodyClaimsTwice
=============================================================================
