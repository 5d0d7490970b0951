------------------------- MODULE WaitlistLifecycle -------------------------
(***************************************************************************)
(* What happens to a waitlist row after the allocator has appended it: an  *)
(* offer with a deadline and a one-time token is sent for it, and accepted,*)
(* declined, withdrawn or left to expire.                                  *)
(*                                                                         *)
(* Guardians and staff call endpoints; two crons expire offers and promote *)
(* vacancies; a decline or withdrawal also starts a promotion that nobody  *)
(* waits for.  Outside acceptOffer there is no transaction: every query    *)
(* and every update of a call, a cron or a promotion is a step of its own. *)
(* acceptOffer runs the allocator of EnrolmentAllocator in a transaction   *)
(* that competes with the enrolments staff make at the same time.          *)
(***************************************************************************)
EXTENDS EnrolmentAllocator

CONSTANTS
    Waiting,    \* the rows on the waitlist at the start
    Calls,      \* the waitlist endpoints called: a subset of AllCalls
    TTL,        \* OFFER_TTL_HOURS: how long an offer stands
    MaxNow      \* bound on the clock

(* "guardianWithdraw" differs from "declineOffer" in its answer only. *)
AllCalls == {"acceptOffer", "declineOffer", "staffWithdraw", "sendOffer"}
Crons == {"expireOffers", "promoteVacancies"}
Runners == Requests \cup Crons

ASSUME CallsAssumption == Calls \subseteq AllCalls
ASSUME TTLAssumption == TTL \in Nat \ {0} /\ MaxNow \in Nat
ASSUME CronsAssumption == Crons \cap (Requests \cup {Nobody}) = {}
ASSUME WaitingAssumption ==
    /\ Waiting \subseteq WaitlistRows
    /\ IsFiniteSet(Waiting)
    /\ \A w \in Waiting : w.participant \in Known
    /\ \A v, w \in Waiting :
          \/ v = w
          \/ v.id # w.id /\ <<v.slot, v.participant>> # <<w.slot, w.participant>>
                         /\ <<v.slot, v.position>> # <<w.slot, w.position>>

VARIABLES
    now,          \* the clock, in hours or any other unit
    offer,        \* the offer columns of each waitlist row
    at,           \* where each call and cron is
    row,          \* the waitlist row it works on
    goal,         \* the slot a promotion wants to fill
    seenCapacity, \* the capacity a promotion has read
    batch,        \* the expired rows expireOutstandingOffers has found
    todo          \* the slots a cron has still to promote

lifecycle == <<now, offer, at, row, goal, seenCapacity, batch, todo>>
allVars == <<vars, lifecycle>>

Statuses == {"PENDING", "ACCEPTED", "DECLINED", "EXPIRED"}

(* offerSentAt is null when attempts = 0, offerToken is null when token =  *)
(* 0; the token of the n-th offer of a row is n, since tokens never repeat.*)
Offers == [status : Statuses, expiresAt : Nat, token : Nat, attempts : Nat]
NoOffer == [status |-> "PENDING", expiresAt |-> 0, token |-> 0, attempts |-> 0]

Promoting == {"capacity", "count", "outstanding", "pick", "issue"}
Places == Promoting \cup {"rest", "recheck", "transaction", "withdraw", "send",
                          "done", "refused", "expire", "next"}

LifecycleTypeOK ==
    /\ TypeOK
    /\ now \in Nat
    /\ offer \in [Requests -> Offers]
    /\ at \in [Runners -> Places]
    /\ row \in [Runners -> Requests \cup {Nobody}]
    /\ goal \in [Runners -> Slots \cup {NoSlot}]
    /\ seenCapacity \in [Runners -> Nat]
    /\ batch \subseteq Requests
    /\ todo \in [Crons -> SUBSET Slots]

-----------------------------------------------------------------------------
(* Queries *)

RowIds == {w.id : w \in waitlist}
SlotOfRow(id) == (CHOOSE w \in waitlist : w.id = id).slot

IsPending(id) == offer[id].status = "PENDING"
Sent(id) == offer[id].attempts > 0
HasLapsed(id) == Sent(id) /\ offer[id].expiresAt < now
Outstanding(id) == IsPending(id) /\ Sent(id) /\ offer[id].expiresAt > now

(* The rows tryPromoteNext chooses from, and its order on them.  Precedes  *)
(* breaks ties of the offers sent by position.                             *)
Candidates(slot) == {w \in Active(slot) : IsPending(w.id)}
Precedes_attemptsDescending(v, w) ==   \* mutant of Precedes
    \/ offer[v.id].attempts > offer[w.id].attempts
    \/ offer[v.id].attempts = offer[w.id].attempts /\ v.position < w.position
Precedes(v, w) ==
    \/ offer[v.id].attempts < offer[w.id].attempts
    \/ offer[v.id].attempts = offer[w.id].attempts /\ v.position < w.position

(* The rows of a slot that bring promoteVacancies to it. *)
Unoffered(slot) == {w \in Candidates(slot) : ~Sent(w.id) \/ HasLapsed(w.id)}

-----------------------------------------------------------------------------
(* At the start some people wait, from a time when their location had no   *)
(* seats; staff may have raised its capacity since.                        *)
LifecycleInit ==
    /\ capacity \in [Locations -> 0 .. MaxCapacity]
    /\ high = capacity
    /\ low = [l \in Locations |-> 0]
    /\ counter = Cardinality(Known)
    /\ counterLock = Nobody
    /\ number \in [Participants -> 0 .. counter]
    /\ Registered = Known
    /\ {number[p] : p \in Known} = 1 .. counter
    /\ enrolments = {}
    /\ waitlist = Waiting
    /\ deletedRows = {}
    /\ slotLock = [s \in Slots |-> Nobody]
    /\ pc = [r \in Requests |-> IF r \in {w.id : w \in Waiting} THEN "waitlisted" ELSE "idle"]
    /\ job = [r \in Requests |->
                 IF r \in {w.id : w \in Waiting}
                 THEN LET w == CHOOSE w \in Waiting : w.id = r
                      IN  [endpoint |-> "enrol", participant |-> w.participant,
                           slot |-> w.slot, previous |-> Nobody, allowOverlap |-> FALSE]
                 ELSE NoJob]
    /\ myNumber = [r \in Requests |-> 0]
    /\ myCapacity = [r \in Requests |-> 0]
    /\ myOccupied = [r \in Requests |-> 0]
    /\ myLast = [r \in Requests |-> 0]
    /\ now = 0
    /\ offer = [r \in Requests |-> NoOffer]
    /\ at = [a \in Runners |-> "rest"]
    /\ row = [a \in Runners |-> Nobody]
    /\ goal = [a \in Runners |-> NoSlot]
    /\ seenCapacity = [a \in Runners |-> 0]
    /\ batch = {}
    /\ todo = [a \in Crons |-> {}]

Move(a, place) == at' = [at EXCEPT ![a] = place]

(* A promotion is over: a cron turns to its next slot, a call has ended. *)
After(a) == IF a \in Crons THEN "next" ELSE "done"

-----------------------------------------------------------------------------
(* Calls, up to and including their first query *)

Call(r, call, id, place) ==
    /\ call \in Calls
    /\ pc[r] = "idle" /\ at[r] = "rest"
    /\ Move(r, place)
    /\ row' = [row EXCEPT ![r] = id]
    /\ UNCHANGED <<vars, now, offer, goal, seenCapacity, batch, todo>>

(* resolveActiveOffer: a token works until it is rotated or cleared, or    *)
(* runs out.  Its status is not looked at.                                 *)
Resolves(id, token) ==
    /\ offer[id].token = token
    /\ id \notin deletedRows
    /\ offer[id].expiresAt >= now

(* Mutant of FollowLink: a link without a token matches a row without one. *)
FollowLink_emptyToken(r, call, place) ==
    \E id \in RowIds : \E token \in 0 .. offer[id].attempts :
        Call(r, call, id, IF Resolves(id, token) THEN place ELSE "refused")

(* A guardian follows one of the links that have been sent. *)
FollowLink(r, call, place) ==
    \E id \in RowIds : \E token \in 1 .. offer[id].attempts :
        Call(r, call, id, IF Resolves(id, token) THEN place ELSE "refused")

AcceptOffer(r) == FollowLink(r, "acceptOffer", "recheck")
DeclineOffer(r) == FollowLink(r, "declineOffer", "withdraw")

StaffWithdraw(r) ==
    \E id \in RowIds :
        Call(r, "staffWithdraw", id, IF id \in deletedRows THEN "refused" ELSE "withdraw")

SendOffer(r) ==
    \E id \in RowIds :
        Call(r, "sendOffer", id,
             IF id \notin deletedRows /\ IsPending(id) THEN "send" ELSE "refused")

-----------------------------------------------------------------------------
(* acceptOffer's transaction *)

(* It reads the row again, before the allocator takes the slot's lock. *)
Recheck(r) ==
    LET id == row[r] IN
    /\ at[r] = "recheck"
    /\ IF id \notin deletedRows /\ IsPending(id) /\ offer[id].expiresAt >= now
       THEN /\ Move(r, "transaction")
            /\ Goto(r, "lock")
            /\ job' = [job EXCEPT ![r] = [endpoint |-> "acceptOffer",
                                          participant |-> job[id].participant,
                                          slot |-> SlotOfRow(id),
                                          previous |-> Nobody,
                                          allowOverlap |-> FALSE]]
       ELSE /\ Move(r, "refused")
            /\ UNCHANGED <<pc, job>>
    /\ UNCHANGED <<limits, tables, locks, reads,
                   now, offer, row, goal, seenCapacity, batch, todo>>

(* The allocator's steps inside it, up to the insertion. *)
Allocate(r) ==
    /\ at[r] = "transaction"
    /\ LockSlot(r) \/ ReadCapacity(r) \/ CountOccupied(r) \/ ReadLastPosition(r)
    /\ UNCHANGED lifecycle

Answered(id, status) ==
    offer' = [offer EXCEPT ![id] = [status |-> status, token |-> 0,
                                    expiresAt |-> @.expiresAt, attempts |-> @.attempts]]

(* A seat: the enrolment and the row's end are committed together. *)
Accept(r) ==
    /\ at[r] = "transaction" /\ pc[r] = "seat"
    /\ InsertEnrolment(r)
    /\ deletedRows' = deletedRows \cup {row[r]}
    /\ Answered(row[r], "ACCEPTED")
    /\ Goto(r, "enrolled")
    /\ ReleaseLocks(r)
    /\ Move(r, "done")
    /\ UNCHANGED <<limits, counter, number, waitlist, job, reads,
                   now, row, goal, seenCapacity, batch, todo>>

(* No seat: the waitlist row the allocator appends is rolled back. *)
NoSeat(r) ==
    /\ at[r] = "transaction" /\ pc[r] = "append"
    /\ Goto(r, "refused")
    /\ ReleaseLocks(r)
    /\ Move(r, "refused")
    /\ UNCHANGED <<limits, tables, job, reads,
                   now, offer, row, goal, seenCapacity, batch, todo>>

(* The transaction of an enrolment or an acceptance is rolled back. *)
AbortTransaction(r) ==
    /\ Abort(r)
    /\ Move(r, IF at[r] = "transaction" THEN "refused" ELSE at[r])
    /\ UNCHANGED <<now, offer, row, goal, seenCapacity, batch, todo>>

-----------------------------------------------------------------------------
(* tryPromoteNext *)

Promote(a, slot) == Move(a, "capacity") /\ goal' = [goal EXCEPT ![a] = slot]

PromotionStep(a, place) ==
    /\ at[a] = place
    /\ UNCHANGED <<vars, now, goal, batch, todo>>

ReadVacancy(a) ==
    /\ PromotionStep(a, "capacity")
    /\ seenCapacity' = [seenCapacity EXCEPT ![a] = capacity[LocationOf(goal[a])]]
    /\ Move(a, "count")
    /\ UNCHANGED <<offer, row>>

(* Mutant of CountEnrolled: the last seat is not offered. *)
CountEnrolled_spare(a) ==
    /\ PromotionStep(a, "count")
    /\ Move(a, IF Cardinality(Occupants(goal[a])) + 1 < seenCapacity[a]
               THEN "outstanding" ELSE After(a))
    /\ seenCapacity' = [seenCapacity EXCEPT ![a] = 0]
    /\ UNCHANGED <<offer, row>>

CountEnrolled(a) ==
    /\ PromotionStep(a, "count")
    /\ Move(a, IF Cardinality(Occupants(goal[a])) < seenCapacity[a]
               THEN "outstanding" ELSE After(a))
    /\ seenCapacity' = [seenCapacity EXCEPT ![a] = 0]
    /\ UNCHANGED <<offer, row>>

(* Mutant of CheckOutstanding: every vacancy is offered, whatever is out. *)
CheckOutstanding_skip(a) ==
    /\ PromotionStep(a, "outstanding")
    /\ Move(a, "pick")
    /\ UNCHANGED <<offer, row, seenCapacity>>

CheckOutstanding(a) ==
    /\ PromotionStep(a, "outstanding")
    /\ Move(a, IF \E w \in Active(goal[a]) : Outstanding(w.id) THEN After(a) ELSE "pick")
    /\ UNCHANGED <<offer, row, seenCapacity>>

PickCandidate(a) ==
    /\ PromotionStep(a, "pick")
    /\ \/ /\ Candidates(goal[a]) = {}
          /\ Move(a, After(a))
          /\ UNCHANGED row
       \/ \E w \in Candidates(goal[a]) :
             /\ \A v \in Candidates(goal[a]) \ {w} : Precedes(w, v)
             /\ row' = [row EXCEPT ![a] = w.id]
             /\ Move(a, "issue")
    /\ UNCHANGED <<offer, seenCapacity>>

(* issueOfferInternal updates the row by its id, whatever it has become. *)
WriteOffer(id) ==
    offer' = [offer EXCEPT ![id] = [status |-> @.status,
                                    expiresAt |-> now + TTL,
                                    attempts |-> @.attempts + 1,
                                    token |-> @.attempts + 1]]

IssueOffer(a) ==
    /\ PromotionStep(a, "issue")
    /\ WriteOffer(row[a])
    /\ Move(a, After(a))
    /\ UNCHANGED <<row, seenCapacity>>

(* Staff's sendOffer issues without looking for a vacancy. *)
IssueSentOffer(r) ==
    /\ PromotionStep(r, "send")
    /\ WriteOffer(row[r])
    /\ Move(r, "done")
    /\ UNCHANGED <<row, seenCapacity>>

(* declineOffer, guardianWithdraw and staffWithdraw write the row by its   *)
(* id and start a promotion.                                               *)
Withdraw(r) ==
    /\ at[r] = "withdraw"
    /\ Answered(row[r], "DECLINED")
    /\ deletedRows' = deletedRows \cup {row[r]}
    /\ Promote(r, SlotOfRow(row[r]))
    /\ UNCHANGED <<limits, counter, number, enrolments, waitlist, locks, pc, job, reads,
                   now, row, seenCapacity, batch, todo>>

(* The promotion a call started is lost with its server process. *)
LosePromotion(r) ==
    /\ at[r] \in Promoting
    /\ Move(r, "done")
    /\ seenCapacity' = [seenCapacity EXCEPT ![r] = 0]
    /\ UNCHANGED <<vars, now, offer, row, goal, batch, todo>>

-----------------------------------------------------------------------------
(* The crons.  Neither starts again before its last run has ended. *)

FindExpired ==
    LET lapsed == {id \in RowIds \ deletedRows : IsPending(id) /\ HasLapsed(id)} IN
    /\ at["expireOffers"] = "rest"
    /\ lapsed # {}
    /\ batch' = lapsed
    /\ Move("expireOffers", "expire")
    /\ UNCHANGED <<vars, now, offer, row, goal, seenCapacity, todo>>

(* updateMany selects the rows by the ids found. *)
ExpireBatch ==
    /\ at["expireOffers"] = "expire"
    /\ offer' = [id \in Requests |->
                    IF id \in batch
                    THEN [status |-> "EXPIRED", token |-> 0,
                          expiresAt |-> offer[id].expiresAt,
                          attempts |-> offer[id].attempts]
                    ELSE offer[id]]
    /\ todo' = [todo EXCEPT !["expireOffers"] = {SlotOfRow(id) : id \in batch}]
    /\ batch' = {}
    /\ Move("expireOffers", "next")
    /\ UNCHANGED <<vars, now, row, goal, seenCapacity>>

FindVacancies ==
    LET slots == {s \in Slots : Unoffered(s) # {}} IN
    /\ at["promoteVacancies"] = "rest"
    /\ slots # {}
    /\ todo' = [todo EXCEPT !["promoteVacancies"] = slots]
    /\ Move("promoteVacancies", "next")
    /\ UNCHANGED <<vars, now, offer, row, goal, seenCapacity, batch>>

NextSlot(a) ==
    /\ at[a] = "next"
    /\ \E s \in todo[a] :
          /\ todo' = [todo EXCEPT ![a] = @ \ {s}]
          /\ Promote(a, s)
    /\ UNCHANGED <<vars, now, offer, row, seenCapacity, batch>>

EndRun(a) ==
    /\ at[a] = "next" /\ todo[a] = {}
    /\ Move(a, "rest")
    /\ row' = [row EXCEPT ![a] = Nobody]
    /\ goal' = [goal EXCEPT ![a] = NoSlot]
    /\ UNCHANGED <<vars, now, offer, seenCapacity, batch, todo>>

-----------------------------------------------------------------------------
Tick ==
    /\ now < MaxNow
    /\ now' = now + 1
    /\ UNCHANGED <<vars, offer, at, row, goal, seenCapacity, batch, todo>>

(* Enrolments and registrations that compete for the seats. *)
EnrolArrives(r) ==
    /\ at[r] = "rest"
    /\ Arrive(r)
    /\ UNCHANGED lifecycle

EnrolProceeds(r) ==
    /\ at[r] = "rest"
    /\ Proceed(r)
    /\ UNCHANGED lifecycle

EditCapacity(l, c) ==
    /\ UpdateCapacity(l, c)
    /\ UNCHANGED lifecycle

TryPromoteNext(a) ==
    \/ ReadVacancy(a) \/ CountEnrolled(a) \/ CheckOutstanding(a)
    \/ PickCandidate(a) \/ IssueOffer(a)

CallArrives(r) == AcceptOffer(r) \/ DeclineOffer(r) \/ StaffWithdraw(r) \/ SendOffer(r)

CallProceeds(r) ==
    \/ Recheck(r) \/ Allocate(r) \/ Accept(r) \/ NoSeat(r)
    \/ Withdraw(r) \/ IssueSentOffer(r) \/ TryPromoteNext(r)

CronStep(a) ==
    \/ a = "expireOffers" /\ (FindExpired \/ ExpireBatch)
    \/ a = "promoteVacancies" /\ FindVacancies
    \/ NextSlot(a) \/ EndRun(a) \/ TryPromoteNext(a)

LifecycleNext ==
    \/ \E r \in Requests : \/ CallArrives(r) \/ CallProceeds(r)
                           \/ EnrolArrives(r) \/ EnrolProceeds(r)
                           \/ AbortTransaction(r) \/ LosePromotion(r)
    \/ \E a \in Crons : CronStep(a)
    \/ \E l \in Locations, c \in 0 .. MaxCapacity : EditCapacity(l, c)
    \/ Tick

LifecycleSpec == LifecycleInit /\ [][LifecycleNext]_allVars

(* Calls that have arrived are executed and the crons keep running; nobody *)
(* need call, and time need not pass.                                      *)
Fairness ==
    /\ \A r \in Requests : WF_allVars(CallProceeds(r)) /\ WF_allVars(EnrolProceeds(r))
    /\ \A a \in Crons : WF_allVars(CronStep(a))

LifecycleFairSpec == LifecycleSpec /\ Fairness

-----------------------------------------------------------------------------
(* Properties *)

(* Seats taken through offers and seats staff give out never exceed the    *)
(* highest capacity in force: NeverOverbooked of EnrolmentAllocator.       *)

(* enrolment-allocator.service.ts 133-138: MAX(position) + 1 under the lock*)
(* gives no two active rows of a slot the same position, though rows are   *)
(* withdrawn without the lock and free their positions.                    *)
PositionsDistinct ==
    \A s \in Slots : \A v, w \in Active(s) : v.position = w.position => v = w

(* waitlist.service.ts 383-385: promotion passes over nobody who has not   *)
(* been offered a seat yet.  When it is about to offer one to a row, every *)
(* row before it that still waits has had an offer.                        *)
NobodyIsPassedOver ==
    \A a \in Runners : at[a] = "issue" =>
        \A v, w \in Candidates(goal[a]) :
            w.id = row[a] /\ v.position < w.position => Sent(v.id)

(* waitlist.processor.ts 88-92: while there is a vacancy and somebody has  *)
(* no offer, the crons see to it that an offer is made, even when the      *)
(* promotion after a withdrawal is lost.                                   *)
Vacant(s) == Cardinality(Occupants(s)) < capacity[LocationOf(s)]
VacanciesAreOffered ==
    \A s \in Slots :
        []<>(~Vacant(s) \/ Unoffered(s) = {} \/ \E w \in Active(s) : Outstanding(w.id))

(* waitlist.service.ts 170, "fresh state under the lock": the row is still *)
(* valid when the seat is taken, so that a row yields one seat at most.    *)
OneSeatPerRow ==
    \A d, e \in enrolments :
        /\ job[d.id].endpoint = "acceptOffer" /\ job[e.id].endpoint = "acceptOffer"
        /\ row[d.id] = row[e.id]
        => d = e

(* waitlist.service.ts 195-197, "the cron will pick them up again later":  *)
(* whoever still waits while there is a vacancy is offered it in the end.  *)
WhoeverWaitsIsOffered ==
    \A s \in Slots :
        []<>(~Vacant(s) \/ Active(s) = {} \/ \E w \in Active(s) : Outstanding(w.id))

(* The rows of a slot that have left its waitlist. *)
Left(slot) == {w \in waitlist : w.slot = slot /\ w.id \in deletedRows}

(* Calls, crons, promotions and the desk implement the ledger of seats and *)
(* offers: every seat is the desk's or that of a row an offer was sent to, *)
(* a row leaves its waitlist once, by an acceptance or a withdrawal, and   *)
(* those that stay keep their order, however all of them interleave.       *)
OfferLedger == INSTANCE WaitlistLedger WITH
    Claims <- Requests,
    seats <- [s \in Slots |-> {e.id : e \in Occupants(s)}],
    waiting <- [s \in Slots |-> {w.id : w \in Active(s)}],
    ahead <- [s \in Slots |->
                 {<<pair[1].id, pair[2].id>> :
                     pair \in {p \in Active(s) \X Active(s) : p[1].position < p[2].position}}],
    left <- [s \in Slots |-> {w.id : w \in Left(s)}],
    offered <- {id \in Requests : Sent(id)}

ImplementsWaitlistLedger == OfferLedger!Spec
=============================================================================
