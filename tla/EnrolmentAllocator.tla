------------------------- MODULE EnrolmentAllocator -------------------------
(***************************************************************************)
(* Enrolling participants in sessions: the seat allocator, the endpoints   *)
(* that call it inside a database transaction, and the tenant-wide counter *)
(* that numbers new participants.                                          *)
(*                                                                         *)
(* A request is one HTTP call.  Each of its steps is one SQL statement (or *)
(* the last write of a transaction together with its COMMIT), and the      *)
(* steps of different requests interleave.  Transactions run at READ       *)
(* COMMITTED: every statement sees what has been committed when it starts, *)
(* and row and advisory locks are held until the transaction ends.         *)
(*                                                                         *)
(* A request inserts at most one enrolment or waitlist row, so the request *)
(* serves as the id of the row.                                            *)
(***************************************************************************)
EXTENDS Integers, FiniteSets

CONSTANTS
    Participants,   \* people
    Known,          \* those registered before the first request
    Sessions,
    Locations,
    Offered,        \* session_locations: a set of <<session, location>>
    Overlapping,    \* pairs of sessions whose date ranges overlap
    Requests,       \* HTTP calls, each made once
    Endpoints,      \* the endpoints called: a subset of AllEndpoints
    AllowOverlap,   \* values of the allowOverlap flag in those calls
    MaxCapacity,    \* bound on the capacities staff enter
    Nobody          \* no request, no participant

(* "acceptOffer" is called in module WaitlistLifecycle only. *)
AllEndpoints == {"register", "enrol", "reEnrol", "acceptOffer"}
Slots == Offered
NoSlot == <<>>
LocationOf(slot) == slot[2]

ASSUME SlotsAssumption == Offered \subseteq Sessions \X Locations
ASSUME KnownAssumption == Known \subseteq Participants /\ IsFiniteSet(Known)
ASSUME RequestsAssumption == IsFiniteSet(Requests) /\ Nobody \notin Requests
ASSUME EndpointsAssumption == Endpoints \subseteq AllEndpoints
ASSUME FlagAssumption == AllowOverlap \subseteq BOOLEAN
ASSUME CapacityAssumption == MaxCapacity \in Nat
ASSUME OverlapAssumption == \A pair \in Overlapping : <<pair[2], pair[1]>> \in Overlapping

VARIABLES
    capacity,       \* locations.capacity
    high, low,      \* history: highest and lowest capacity so far
    counter,        \* cm_tenant_counters: last participant number given out
    counterLock,    \* the transaction that holds that row's lock
    number,         \* participants: number of each, 0 when not registered
    enrolments,     \* enrolments: none is ever deleted or withdrawn
    waitlist,       \* waitlist: rows, deleted ones included
    deletedRows,    \* ids of the waitlist rows with a deleted_at
    slotLock,       \* advisory locks: the transaction that holds each slot
    pc,             \* where each request is
    job,            \* what it was asked to do
    (* What its reads returned: *)
    myNumber,       \* the number nextTenantSequence reserved
    myCapacity,     \* the location's capacity
    myOccupied,     \* the count of occupied seats
    myLast          \* the last position on the waitlist

tables == <<counter, number, enrolments, waitlist, deletedRows>>
locks == <<counterLock, slotLock>>
limits == <<capacity, high, low>>
reads == <<myNumber, myCapacity, myOccupied, myLast>>
vars == <<limits, tables, locks, pc, job, reads>>

-----------------------------------------------------------------------------
(* Types *)

Prechecks == {"checkEnrolment", "checkWaitlist", "checkOverlap"}
InTransaction ==
    {"number", "person", "lock", "capacity", "count", "seat", "position", "append"}
UnderSlotLock == {"capacity", "count", "seat", "position", "append"}
Settled == {"enrolled", "waitlisted", "registered", "refused", "aborted"}
PCs == {"idle"} \cup Prechecks \cup InTransaction \cup Settled

Jobs == [endpoint : AllEndpoints \cup {"none"},
         participant : Participants \cup {Nobody},
         slot : Slots \cup {NoSlot},
         previous : Requests \cup {Nobody},
         allowOverlap : BOOLEAN]
NoJob == [endpoint |-> "none", participant |-> Nobody, slot |-> NoSlot,
          previous |-> Nobody, allowOverlap |-> FALSE]


Enrolments == [id : Requests, participant : Participants, slot : Slots]
WaitlistRows == [id : Requests, participant : Participants, slot : Slots,
                 position : Nat]

TypeOK ==
    /\ capacity \in [Locations -> Nat]
    /\ high \in [Locations -> Nat]
    /\ low \in [Locations -> Nat]
    /\ counter \in Nat
    /\ counterLock \in Requests \cup {Nobody}
    /\ number \in [Participants -> Nat]
    /\ enrolments \subseteq Enrolments
    /\ waitlist \subseteq WaitlistRows
    /\ deletedRows \subseteq Requests
    /\ slotLock \in [Slots -> Requests \cup {Nobody}]
    /\ pc \in [Requests -> PCs]
    /\ job \in [Requests -> Jobs]
    /\ myNumber \in [Requests -> Nat]
    /\ myCapacity \in [Requests -> Nat]
    /\ myOccupied \in [Requests -> Nat]
    /\ myLast \in [Requests -> Nat]

-----------------------------------------------------------------------------
(* Queries *)

(* Every enrolment takes a seat: FEE_PENDING, DOCUMENTS_PENDING or ACTIVE. *)
Occupants(slot) == {e \in enrolments : e.slot = slot}

Active(slot) == {w \in waitlist : w.slot = slot /\ w.id \notin deletedRows}

(* Mutant of LastPosition: positions are counted. *)
LastPosition_count(slot) == Cardinality(Active(slot))

(* MAX(position) over the active rows, 0 when there is none. *)
LastPosition(slot) ==
    LET places == {w.position : w \in Active(slot)}
    IN  IF places = {} THEN 0
        ELSE CHOOSE p \in places : \A q \in places : q <= p

Registered == {p \in Participants : number[p] # 0}

(* People who are being registered by a request that has not failed. *)
Registering ==
    {job[r].participant : r \in {q \in Requests : /\ job[q].endpoint = "register"
                                                  /\ pc[q] # "aborted"}}

-----------------------------------------------------------------------------
Init ==
    /\ capacity \in [Locations -> 1 .. MaxCapacity]
    /\ high = capacity
    /\ low = capacity
    /\ counter = Cardinality(Known)
    /\ counterLock = Nobody
    /\ number \in [Participants -> 0 .. counter]
    /\ Registered = Known
    /\ {number[p] : p \in Known} = 1 .. counter
    /\ enrolments = {}
    /\ waitlist = {}
    /\ deletedRows = {}
    /\ slotLock = [s \in Slots |-> Nobody]
    /\ pc = [r \in Requests |-> "idle"]
    /\ job = [r \in Requests |-> NoJob]
    /\ myNumber = [r \in Requests |-> 0]
    /\ myCapacity = [r \in Requests |-> 0]
    /\ myOccupied = [r \in Requests |-> 0]
    /\ myLast = [r \in Requests |-> 0]

Goto(r, label) == pc' = [pc EXCEPT ![r] = label]

-----------------------------------------------------------------------------
(* Requests arrive *)

Start(r, endpoint, participant, slot, previous, allow, label) ==
    /\ pc[r] = "idle"
    /\ endpoint \in Endpoints
    /\ job' = [job EXCEPT ![r] = [endpoint |-> endpoint,
                                  participant |-> participant,
                                  slot |-> slot,
                                  previous |-> previous,
                                  allowOverlap |-> allow]]
    /\ Goto(r, label)
    /\ UNCHANGED <<limits, tables, locks, reads>>

(* A new person registers, with or without choosing a session. *)
Register(r) ==
    \E p \in Participants \ (Registered \cup Registering), slot \in Slots \cup {NoSlot} :
        Start(r, "register", p, slot, Nobody, FALSE, "number")

(* Staff enrol somebody who is registered. *)
Enrol(r) ==
    \E p \in Registered, slot \in Slots, allow \in AllowOverlap :
        Start(r, "enrol", p, slot, Nobody, allow, "checkEnrolment")

(* Staff carry an enrolment over to another session at its location. *)
ReEnrol(r) ==
    \E e \in enrolments, slot \in Slots, allow \in AllowOverlap :
        /\ LocationOf(slot) = LocationOf(e.slot)
        /\ Start(r, "reEnrol", e.participant, slot, e.id, allow, "checkEnrolment")

-----------------------------------------------------------------------------
(* Checks made before the transaction begins, and not repeated inside it *)

Check(r, label, refuse, next) ==
    /\ pc[r] = label
    /\ Goto(r, IF refuse THEN "refused" ELSE next)
    /\ UNCHANGED <<limits, tables, locks, job, reads>>

(* Mutant of CheckEnrolment: somebody who has a seat may enrol again. *)
CheckEnrolment_waitlistOnly(r) == Check(r, "checkEnrolment", FALSE, "checkWaitlist")

CheckEnrolment(r) ==
    Check(r, "checkEnrolment",
          \E e \in Occupants(job[r].slot) : e.participant = job[r].participant,
          "checkWaitlist")

CheckWaitlist(r) ==
    Check(r, "checkWaitlist",
          \E w \in Active(job[r].slot) : w.participant = job[r].participant,
          "checkOverlap")

(* An enrolment whose session overlaps, other than the one carried over. *)
Clashes(r) ==
    \E e \in enrolments :
        /\ e.participant = job[r].participant
        /\ e.id # job[r].previous
        /\ <<e.slot[1], job[r].slot[1]>> \in Overlapping

CheckOverlap(r) ==
    Check(r, "checkOverlap", ~job[r].allowOverlap /\ Clashes(r), "lock")

-----------------------------------------------------------------------------
(* The transaction.  It holds the counter row's lock from nextTenantSequence *)
(* on, and the slot's advisory lock from the allocator's first statement on. *)

(* Mutant of ReleaseLocks: advisory locks belong to the session and        *)
(* outlive the transaction.                                                *)
ReleaseLocks_session(r) ==
    /\ counterLock' = IF counterLock = r THEN Nobody ELSE counterLock
    /\ UNCHANGED slotLock

ReleaseLocks(r) ==
    /\ counterLock' = IF counterLock = r THEN Nobody ELSE counterLock
    /\ slotLock' = [s \in Slots |-> IF slotLock[s] = r THEN Nobody ELSE slotLock[s]]

(* Registering writes the participant, its number and the counter. *)
CommitRegistration(r) ==
    IF job[r].endpoint = "register"
    THEN /\ number' = [number EXCEPT ![job[r].participant] = myNumber[r]]
         /\ counter' = myNumber[r]
    ELSE UNCHANGED <<number, counter>>

Commit(r, label) ==
    /\ CommitRegistration(r)
    /\ ReleaseLocks(r)
    /\ Goto(r, label)
    /\ UNCHANGED <<limits, deletedRows, job, reads>>

(* Mutant of TakeNumber: the counter row is read without locking it. *)
TakeNumber_unlocked(r) ==
    /\ pc[r] = "number"
    /\ myNumber' = [myNumber EXCEPT ![r] = counter + 1]
    /\ Goto(r, IF job[r].slot = NoSlot THEN "person" ELSE "lock")
    /\ UNCHANGED <<limits, tables, locks, job, myCapacity, myOccupied, myLast>>

TakeNumber(r) ==
    /\ pc[r] = "number"
    /\ counterLock = Nobody
    /\ counterLock' = r
    /\ myNumber' = [myNumber EXCEPT ![r] = counter + 1]
    /\ Goto(r, IF job[r].slot = NoSlot THEN "person" ELSE "lock")
    /\ UNCHANGED <<limits, tables, slotLock, job, myCapacity, myOccupied, myLast>>

(* No session chosen: the registration is complete. *)
CommitPerson(r) ==
    /\ pc[r] = "person"
    /\ Commit(r, "registered")
    /\ UNCHANGED <<enrolments, waitlist>>

(* Mutant of LockSlot: pg_try_advisory_xact_lock, its answer ignored. *)
LockSlot_try(r) ==
    /\ pc[r] = "lock"
    /\ slotLock' = [slotLock EXCEPT ![job[r].slot] = IF @ = Nobody THEN r ELSE @]
    /\ Goto(r, "capacity")
    /\ UNCHANGED <<limits, tables, counterLock, job, reads>>

LockSlot(r) ==
    /\ pc[r] = "lock"
    /\ slotLock[job[r].slot] = Nobody
    /\ slotLock' = [slotLock EXCEPT ![job[r].slot] = r]
    /\ Goto(r, "capacity")
    /\ UNCHANGED <<limits, tables, counterLock, job, reads>>

Read(r, label, next) ==
    /\ pc[r] = label
    /\ Goto(r, next)
    /\ UNCHANGED <<limits, tables, locks, job>>

ReadCapacity(r) ==
    /\ Read(r, "capacity", "count")
    /\ myCapacity' = [myCapacity EXCEPT ![r] = capacity[LocationOf(job[r].slot)]]
    /\ UNCHANGED <<myNumber, myOccupied, myLast>>

(* Mutant of CountOccupied: the last seat is kept free. *)
CountOccupied_spare(r) ==
    LET occupied == Cardinality(Occupants(job[r].slot))
    IN  /\ Read(r, "count", IF occupied + 1 < myCapacity[r] THEN "seat" ELSE "position")
        /\ myOccupied' = [myOccupied EXCEPT ![r] = occupied]
        /\ UNCHANGED <<myNumber, myCapacity, myLast>>

CountOccupied(r) ==
    LET occupied == Cardinality(Occupants(job[r].slot))
    IN  /\ Read(r, "count", IF occupied < myCapacity[r] THEN "seat" ELSE "position")
        /\ myOccupied' = [myOccupied EXCEPT ![r] = occupied]
        /\ UNCHANGED <<myNumber, myCapacity, myLast>>

InsertEnrolment(r) ==
    enrolments' = enrolments \cup {[id |-> r,
                                    participant |-> job[r].participant,
                                    slot |-> job[r].slot]}

Seat(r) ==
    /\ pc[r] = "seat"
    /\ InsertEnrolment(r)
    /\ Commit(r, "enrolled")
    /\ UNCHANGED waitlist

(* Mutant of ReadLastPosition: everybody is put first. *)
ReadLastPosition_first(r) ==
    /\ Read(r, "position", "append")
    /\ myLast' = [myLast EXCEPT ![r] = 0]
    /\ UNCHANGED <<myNumber, myCapacity, myOccupied>>

ReadLastPosition(r) ==
    /\ Read(r, "position", "append")
    /\ myLast' = [myLast EXCEPT ![r] = LastPosition(job[r].slot)]
    /\ UNCHANGED <<myNumber, myCapacity, myOccupied>>

AppendToWaitlist(r) ==
    /\ pc[r] = "append"
    /\ waitlist' = waitlist \cup {[id |-> r,
                                   participant |-> job[r].participant,
                                   slot |-> job[r].slot,
                                   position |-> myLast[r] + 1]}
    /\ Commit(r, "waitlisted")
    /\ UNCHANGED enrolments

(* The transaction times out (60 s) or its server dies: nothing it wrote   *)
(* remains and its locks are free.                                         *)
Abort(r) ==
    /\ pc[r] \in InTransaction
    /\ ReleaseLocks(r)
    /\ Goto(r, "aborted")
    /\ UNCHANGED <<limits, tables, job, reads>>

-----------------------------------------------------------------------------
(* LocationsService.update: staff edit the capacity, under no lock. *)
UpdateCapacity(l, c) ==
    /\ capacity' = [capacity EXCEPT ![l] = c]
    /\ high' = [high EXCEPT ![l] = IF c > @ THEN c ELSE @]
    /\ low' = [low EXCEPT ![l] = IF c < @ THEN c ELSE @]
    /\ UNCHANGED <<tables, locks, pc, job, reads>>

-----------------------------------------------------------------------------
Arrive(r) == Register(r) \/ Enrol(r) \/ ReEnrol(r)

Proceed(r) ==
    \/ CheckEnrolment(r) \/ CheckWaitlist(r) \/ CheckOverlap(r)
    \/ TakeNumber(r) \/ CommitPerson(r)
    \/ LockSlot(r) \/ ReadCapacity(r) \/ CountOccupied(r)
    \/ Seat(r) \/ ReadLastPosition(r) \/ AppendToWaitlist(r)

Next ==
    \/ \E r \in Requests : Arrive(r) \/ Proceed(r) \/ Abort(r)
    \/ \E l \in Locations, c \in 0 .. MaxCapacity : UpdateCapacity(l, c)

Spec == Init /\ [][Next]_vars

-----------------------------------------------------------------------------
(* Properties *)

(* enrolments.service.ts 144-146, "parallel calls cannot overbook the      *)
(* session": a slot never has more enrolments than the highest capacity    *)
(* its location has had, however capacity edits interleave with requests.  *)
NeverOverbooked ==
    \A s \in Slots : Cardinality(Occupants(s)) <= high[LocationOf(s)]

(* The other direction: nobody is put on a waitlist while the slot has     *)
(* always had room.  A slot with a waitlist has at least as many           *)
(* enrolments as the lowest capacity its location has had.                 *)
NobodyWaitsForNothing ==
    \A s \in Slots : Active(s) # {} => Cardinality(Occupants(s)) >= low[LocationOf(s)]

(* smoke-test-allocator.ts 7: the positions on a waitlist are 1..K with no *)
(* duplicate and no gap, so the backstop index of the allocator's comment  *)
(* (136-138) has nothing to stop.                                          *)
PositionsContiguous ==
    \A s \in Slots :
        /\ {w.position : w \in Active(s)} = 1 .. Cardinality(Active(s))

(* tenant-sequence.util.ts 11-13: the number of a registration that fails  *)
(* is rolled back, so the numbers in use are 1..counter, each used once.   *)
NumbersGapless ==
    /\ {number[p] : p \in Registered} = 1 .. counter
    /\ Cardinality(Registered) = counter

(* Why the allocator cannot overbook: the inductive strengthening.         *)

(* The advisory lock is held by the transaction that reads and writes.     *)
LockDiscipline ==
    \A r \in Requests :
        /\ pc[r] # "idle" => job[r].participant \in Participants
        /\ pc[r] \in UnderSlotLock \cup Prechecks \cup {"lock"} => job[r].slot \in Slots
        /\ pc[r] \in UnderSlotLock => slotLock[job[r].slot] = r

(* A request leaves a row only when it settles, and leaves one. *)
RowsOfSettled ==
    /\ \A d, e \in enrolments : d.id = e.id => d = e
    /\ \A e \in enrolments : pc[e.id] \in Settled
    /\ \A w \in waitlist : pc[w.id] \in Settled
    /\ \A id \in deletedRows : pc[id] \in Settled

CapacityInRange ==
    \A l \in Locations : low[l] <= capacity[l] /\ capacity[l] <= high[l]

(* What was read under the lock still decides: nobody else adds rows.      *)
ReadsStand ==
    \A r \in Requests :
        LET slot == job[r].slot IN
        /\ pc[r] \in {"count", "seat", "position", "append"} =>
              /\ myCapacity[r] <= high[LocationOf(slot)]
              /\ myCapacity[r] >= low[LocationOf(slot)]
        /\ pc[r] \in {"seat", "position", "append"} =>
              myOccupied[r] = Cardinality(Occupants(slot))
        /\ pc[r] = "seat" => myOccupied[r] < myCapacity[r]
        /\ pc[r] \in {"position", "append"} => myOccupied[r] >= myCapacity[r]
        /\ pc[r] = "append" => myLast[r] = Cardinality(Active(slot))

FiniteTables == IsFiniteSet(enrolments) /\ IsFiniteSet(waitlist)

(* The number a registration will use is the next one, and is its own. *)
NumbersReserved ==
    /\ IsFiniteSet(Registered)
    /\ \A r \in Requests :
          /\ pc[r] = "idle" => job[r].endpoint = "none"
          /\ pc[r] = "number" => job[r].endpoint = "register"
          /\ pc[r] \in Prechecks => job[r].endpoint # "register"
          /\ pc[r] \in InTransaction /\ job[r].endpoint = "register" =>
                job[r].participant \in Participants \ Registered
          /\ pc[r] \in InTransaction \ {"number"} /\ job[r].endpoint = "register" =>
                counterLock = r /\ myNumber[r] = counter + 1
    /\ \A q, r \in Requests :
          /\ {job[q].endpoint, job[r].endpoint} = {"register"}
          /\ "aborted" \notin {pc[q], pc[r]}
          /\ job[q].participant = job[r].participant
          => q = r

(* The inductive invariant. *)
SeatInv ==
    /\ TypeOK
    /\ FiniteTables
    /\ CapacityInRange
    /\ LockDiscipline
    /\ RowsOfSettled
    /\ ReadsStand
    /\ NeverOverbooked
    /\ NobodyWaitsForNothing
    /\ PositionsContiguous

UnderWay == {r \in Requests : pc[r] \in Prechecks \cup InTransaction}

(* The next statement of r asks for a row or a lock that another holds. *)
Waits(r) ==
    \/ pc[r] = "number" /\ counterLock # Nobody
    \/ pc[r] = "lock" /\ slotLock[job[r].slot] # Nobody

(* A registration holds the counter row while it waits for an advisory     *)
(* lock, an enrolment holds an advisory lock only: no order of them leaves *)
(* requests waiting for one another, or for a request that has ended.  Of  *)
(* those under way one does not wait, and each has few steps to go.        *)
NoCircularWait == UnderWay # {} => \E r \in UnderWay : ~Waits(r)

(* Locks are all that a request under way can wait for: each step of the   *)
(* code has an outcome for whatever it has read.                           *)
OnlyLocksBlock == \A r \in UnderWay : Waits(r) \/ ENABLED Proceed(r)

(* Why: a lock is held by a request that is past asking for it and has not *)
(* ended, and whoever holds a slot asks for nothing more.                  *)
HoldersAreUnderWay ==
    /\ counterLock # Nobody => pc[counterLock] \in InTransaction \ {"number"}
    /\ \A s \in Slots : slotLock[s] # Nobody =>
          pc[slotLock[s]] \in UnderSlotLock /\ job[slotLock[s]].slot = s

(* The allocator implements the atomic seat ledger. *)
Ledger == INSTANCE SeatLedger WITH
    Claims <- Requests,
    seats <- [s \in Slots |-> {e.id : e \in Occupants(s)}],
    waiting <- [s \in Slots |-> {w.id : w \in Active(s)}],
    ahead <- [s \in Slots |->
                 {pair \in Requests \X Requests : \E v, w \in Active(s) :
                     pair = <<v.id, w.id>> /\ v.position < w.position}]

ImplementsLedger == Ledger!Spec
=============================================================================
