---------------------- MODULE EnrolmentAllocator_proofs ----------------------
(***************************************************************************)
(* Proofs about the enrolment allocator, its histories of overlapping      *)
(* requests, the waitlist lifecycle around it and the histories of racing  *)
(* runners, for any number of requests, sessions, locations and            *)
(* participants and any capacities.                                        *)
(***************************************************************************)
EXTENDS EnrolmentHistory, WaitlistHistory, FiniteSetTheorems,
        WellFoundedInduction, TLAPS

(* The tables and who may write them, without what has been read.          *)
TablesInv ==
    /\ TypeOK
    /\ FiniteTables
    /\ CapacityInRange
    /\ LockDiscipline
    /\ RowsOfSettled

(* The invariant of the allocator alone has what the waitlist shares. *)
LEMMA SeatTables == SeatInv => TablesInv
BY DEF SeatInv, TablesInv

(* A slot belongs to one of the locations. *)
LEMMA SlotLocation ==
    ASSUME NEW slot \in Slots
    PROVE  LocationOf(slot) \in Locations
BY SlotsAssumption DEF Slots, LocationOf

(* The subsets of the tables the queries look at are finite. *)
LEMMA FiniteQueries ==
    ASSUME FiniteTables, NEW slot
    PROVE  /\ IsFiniteSet(Occupants(slot))
           /\ IsFiniteSet(Active(slot))
           /\ Cardinality(Occupants(slot)) \in Nat
           /\ Cardinality(Active(slot)) \in Nat
<1>1. Occupants(slot) \subseteq enrolments /\ Active(slot) \subseteq waitlist
  BY DEF Occupants, Active
<1>2. QED
  BY <1>1, FS_Subset, FS_CardinalityType DEF FiniteTables

(* On a waitlist without gaps MAX(position) is the number of rows. *)
LEMMA LastIsLength ==
    ASSUME FiniteTables, NEW slot,
           {w.position : w \in Active(slot)} = 1 .. Cardinality(Active(slot))
    PROVE  LastPosition(slot) = Cardinality(Active(slot))
<1> DEFINE n == Cardinality(Active(slot))
           places == {w.position : w \in Active(slot)}
<1>1. n \in Nat
  BY FiniteQueries
<1>2. CASE places = {}
  <2>1. n = 0
    BY <1>1, <1>2
  <2>2. QED
    BY <1>2, <2>1 DEF LastPosition
<1>3. CASE places # {}
  <2>1. n \in places /\ \A q \in places : q <= n
    BY <1>1, <1>3
  <2>2. \A p \in places : (\A q \in places : q <= p) => p = n
    BY <1>1, <2>1
  <2> HIDE DEF n
  <2>3. (CHOOSE p \in places : \A q \in places : q <= p) = n
    BY <2>1, <2>2
  <2>4. QED
    BY <1>3, <2>3 DEF LastPosition, n
<1>4. QED
  BY <1>2, <1>3

(* A finite set of integers has a greatest element. *)
LEMMA SomeGreatest ==
    ASSUME NEW S, IsFiniteSet(S), \A x \in S : x \in Int, S # {}
    PROVE  \E m \in S : \A x \in S : x <= m
<1> DEFINE above(x) == {y \in S : x <= y}
           tops == {above(x) : x \in S}
<1>1. IsWellFoundedOn(StrictSubsetOrdering(S), SUBSET S)
  BY FS_StrictSubsetOrderingWellFounded, FS_FiniteSubsetsOfFinite
<1>2. tops \in SUBSET (SUBSET S) /\ tops # {}
  OBVIOUS
<1>3. PICK top \in tops : \A other \in tops : ~(<<other, top>> \in StrictSubsetOrdering(S))
  <2> HIDE DEF tops
  <2>1. QED
    BY <1>1, <1>2, WFMin
<1>4. PICK m \in S : top = above(m)
  BY <1>3
<1>5. ASSUME NEW x \in S, ~(x <= m)
      PROVE  FALSE
  <2>1. above(x) \subseteq above(m) /\ above(x) # above(m)
    BY <1>5
  <2>2. above(x) \in tops /\ above(x) \in SUBSET S /\ top \in SUBSET S
    BY <1>4
  <2> HIDE DEF above, tops
  <2>3. <<above(x), top>> \in StrictSubsetOrdering(S)
    BY <1>4, <2>1, <2>2 DEF StrictSubsetOrdering
  <2>4. QED
    BY <1>3, <2>2, <2>3
<1>6. QED
  BY <1>5

(* MAX(position) is a number that no active row's position exceeds. *)
LEMMA LastIsGreatest ==
    ASSUME FiniteTables, waitlist \subseteq WaitlistRows, NEW slot
    PROVE  /\ LastPosition(slot) \in Nat
           /\ \A w \in Active(slot) : w.position <= LastPosition(slot)
<1> DEFINE places == {w.position : w \in Active(slot)}
<1>1. \A p \in places : p \in Nat
  BY DEF Active, WaitlistRows
<1>2. CASE places = {}
  BY <1>2 DEF LastPosition
<1>3. CASE places # {}
  <2>1. IsFiniteSet(places)
    <3>1. IsFiniteSet(Active(slot))
      BY FiniteQueries
    <3>2. [w \in Active(slot) |-> w.position] \in Surjection(Active(slot), places)
      BY DEF Surjection
    <3>3. QED
      BY <3>1, <3>2, FS_Surjection
  <2>2. \E m \in places : \A q \in places : q <= m
    <3> HIDE DEF places
    <3>1. QED
      BY <1>1, <1>3, <2>1, SomeGreatest
  <2>3. LastPosition(slot) = CHOOSE m \in places : \A q \in places : q <= m
    BY <1>3 DEF LastPosition
  <2>4. LastPosition(slot) \in places /\ \A q \in places : q <= LastPosition(slot)
    <3> HIDE DEF places
    <3>1. QED
      BY <2>2, <2>3
  <2>5. QED
    BY <1>1, <2>4
<1>4. QED
  BY <1>2, <1>3

-----------------------------------------------------------------------------
(* Type correctness *)

(* TypeOK, part by part. *)
LEMMA InitType == Init => TypeOK
<1> SUFFICES ASSUME Init PROVE TypeOK
  OBVIOUS
<1>1. Cardinality(Known) \in Nat
  BY KnownAssumption, FS_CardinalityType
<1>2. NoJob \in Jobs
  BY DEF NoJob, Jobs
<1>4. 1 .. MaxCapacity \subseteq Nat /\ 0 .. counter \subseteq Nat
  BY <1>1, CapacityAssumption DEF Init
<1>5. QED
  BY <1>1, <1>2, <1>4 DEF Init, TypeOK, PCs

(* A request that starts keeps the types. *)
LEMMA StartType ==
    ASSUME TablesInv, NEW r \in Requests, Arrive(r)
    PROVE  TypeOK'
<1>1. \E endpoint \in AllEndpoints, p \in Participants, slot \in Slots \cup {NoSlot},
         previous \in Requests \cup {Nobody}, allow \in BOOLEAN, label \in PCs :
            Start(r, endpoint, p, slot, previous, allow, label)
  <2>1. CASE Register(r)
    BY <2>1 DEF Register, Registered, AllEndpoints, PCs, InTransaction
  <2>2. CASE Enrol(r)
    BY <2>2, FlagAssumption DEF Enrol, Registered, AllEndpoints, PCs, Prechecks
  <2>3. CASE ReEnrol(r)
    BY <2>3, FlagAssumption
    DEF ReEnrol, AllEndpoints, PCs, Prechecks, TablesInv, TypeOK, Enrolments
  <2>4. QED
    BY <2>1, <2>2, <2>3 DEF Arrive
<1>2. PICK endpoint \in AllEndpoints, p \in Participants, slot \in Slots \cup {NoSlot},
           previous \in Requests \cup {Nobody}, allow \in BOOLEAN, label \in PCs :
            Start(r, endpoint, p, slot, previous, allow, label)
  BY <1>1
<1>3. job' \in [Requests -> Jobs] /\ pc' \in [Requests -> PCs]
  BY <1>2 DEF Start, Goto, TablesInv, TypeOK, Jobs
<1>4. QED
  BY <1>2, <1>3 DEF Start, TablesInv, TypeOK, limits, tables, locks, reads

(* So does one that proceeds. *)
LEMMA ProceedType ==
    ASSUME TablesInv, NEW r \in Requests, Proceed(r)
    PROVE  TypeOK'
<1> USE DEF TablesInv
<1>0. /\ pc[r] \in PCs /\ job[r] \in Jobs
      /\ pc[r] \in UnderSlotLock => job[r].slot \in Slots
  BY DEF TypeOK, LockDiscipline
<1>1. CASE CheckEnrolment(r) \/ CheckWaitlist(r) \/ CheckOverlap(r)
  BY <1>1 DEF CheckEnrolment, CheckWaitlist, CheckOverlap, Check, Goto, TypeOK,
              PCs, Settled, Prechecks, InTransaction, limits, tables, locks, reads
<1>2. CASE TakeNumber(r)
  <2>1. myNumber' \in [Requests -> Nat]
    BY <1>2 DEF TakeNumber, TypeOK
  <2>2. QED
    BY <1>2, <2>1 DEF TakeNumber, Goto, TypeOK, PCs, InTransaction, limits, tables, reads
<1>3. ASSUME NEW label \in PCs, Commit(r, label), pc[r] \in InTransaction
      PROVE  /\ pc' \in [Requests -> PCs]
             /\ number' \in [Participants -> Nat] /\ counter' \in Nat
             /\ counterLock' \in Requests \cup {Nobody}
             /\ slotLock' \in [Slots -> Requests \cup {Nobody}]
  BY <1>0, <1>3 DEF Commit, CommitRegistration, ReleaseLocks, Goto, TypeOK,
                    LockDiscipline
<1>4. CASE CommitPerson(r)
  BY <1>3, <1>4 DEF CommitPerson, Commit, TypeOK, PCs, Settled, InTransaction, limits, reads
<1>5. CASE LockSlot(r)
  BY <1>5 DEF LockSlot, Goto, TypeOK, PCs, InTransaction, limits, tables, reads
<1>6. CASE ReadCapacity(r)
  <2>1. capacity[LocationOf(job[r].slot)] \in Nat
    BY <1>0, <1>6, SlotLocation DEF ReadCapacity, Read, UnderSlotLock, TypeOK
  <2>2. myCapacity' \in [Requests -> Nat]
    BY <1>6, <2>1 DEF ReadCapacity, TypeOK
  <2>3. QED
    BY <1>6, <2>2 DEF ReadCapacity, Read, Goto, TypeOK, PCs, InTransaction,
                      limits, tables, locks, reads
<1>7. CASE CountOccupied(r)
  <2>1. Cardinality(Occupants(job[r].slot)) \in Nat
    BY FiniteQueries
  <2>2. myOccupied' \in [Requests -> Nat]
    BY <1>7, <2>1 DEF CountOccupied, TypeOK
  <2>3. QED
    BY <1>7, <2>2 DEF CountOccupied, Read, Goto, TypeOK, PCs, InTransaction,
                      limits, tables, locks, reads
<1>8. CASE Seat(r)
  <2>1. job[r].participant \in Participants /\ job[r].slot \in Slots
    BY <1>0, <1>8 DEF Seat, UnderSlotLock, LockDiscipline
  <2>2. enrolments' \subseteq Enrolments
    BY <1>8, <2>1 DEF Seat, InsertEnrolment, Enrolments, TypeOK
  <2>3. QED
    BY <1>3, <1>8, <2>2 DEF Seat, Commit, TypeOK, PCs, Settled, InTransaction, limits, reads
<1>9. CASE ReadLastPosition(r)
  <2>1. LastPosition(job[r].slot) \in Nat
    BY LastIsGreatest DEF TypeOK
  <2>2. myLast' \in [Requests -> Nat]
    BY <1>9, <2>1 DEF ReadLastPosition, TypeOK
  <2>3. QED
    BY <1>9, <2>2 DEF ReadLastPosition, Read, Goto, TypeOK, PCs, InTransaction,
                      limits, tables, locks, reads
<1>10. CASE AppendToWaitlist(r)
  <2>1. job[r].participant \in Participants /\ job[r].slot \in Slots
    BY <1>0, <1>10 DEF AppendToWaitlist, UnderSlotLock, LockDiscipline
  <2>2. waitlist' \subseteq WaitlistRows
    BY <1>0, <1>10, <2>1 DEF AppendToWaitlist, WaitlistRows, TypeOK
  <2>3. QED
    BY <1>3, <1>10, <2>2 DEF AppendToWaitlist, Commit, TypeOK, PCs, Settled,
                             InTransaction, limits, reads
<1>11. QED
  BY <1>1, <1>2, <1>4, <1>5, <1>6, <1>7, <1>8, <1>9, <1>10 DEF Proceed

(* And every step. *)
LEMMA NextType == TablesInv /\ [Next]_vars => TypeOK'
<1> SUFFICES ASSUME TablesInv, [Next]_vars PROVE TypeOK'
  OBVIOUS
<1>1. ASSUME NEW r \in Requests, Abort(r) PROVE TypeOK'
  BY <1>1 DEF Abort, ReleaseLocks, Goto, TablesInv, TypeOK, PCs, Settled,
              limits, tables, reads
<1>2. ASSUME NEW l \in Locations, NEW c \in 0 .. MaxCapacity, UpdateCapacity(l, c)
      PROVE  TypeOK'
  <2>1. c \in Nat
    BY CapacityAssumption
  <2>2. QED
    BY <1>2, <2>1 DEF UpdateCapacity, TablesInv, TypeOK, tables, locks, reads
<1>3. CASE UNCHANGED vars
  BY <1>3 DEF vars, TablesInv, TypeOK, limits, tables, locks, reads
<1>4. QED
  BY <1>1, <1>2, <1>3, StartType, ProceedType DEF Next

-----------------------------------------------------------------------------
(* What a step leaves alone *)

(* A step of request r changes no other request, and takes no lock from it. *)
LEMMA OtherRequests ==
    ASSUME TablesInv, NEW r \in Requests, Arrive(r) \/ Proceed(r) \/ Abort(r),
           NEW q \in Requests, q # r
    PROVE  /\ pc'[q] = pc[q] /\ job'[q] = job[q]
           /\ myNumber'[q] = myNumber[q] /\ myCapacity'[q] = myCapacity[q]
           /\ myOccupied'[q] = myOccupied[q] /\ myLast'[q] = myLast[q]
           /\ \A s \in Slots : slotLock[s] = q => slotLock'[s] = q
           /\ counterLock = q => counterLock' = q
<1> USE RequestsAssumption DEF TablesInv, TypeOK, limits, tables, locks, reads, Goto
<1>1. CASE Arrive(r)
  BY <1>1 DEF Arrive, Register, Enrol, ReEnrol, Start
<1>2. CASE Abort(r)
  BY <1>2 DEF Abort, ReleaseLocks
<1>3. CASE CheckEnrolment(r) \/ CheckWaitlist(r) \/ CheckOverlap(r)
  BY <1>3 DEF CheckEnrolment, CheckWaitlist, CheckOverlap, Check
<1>4. CASE TakeNumber(r) \/ LockSlot(r)
  BY <1>4 DEF TakeNumber, LockSlot
<1>5. CASE ReadCapacity(r) \/ CountOccupied(r) \/ ReadLastPosition(r)
  BY <1>5 DEF ReadCapacity, CountOccupied, ReadLastPosition, Read
<1>6. CASE CommitPerson(r) \/ Seat(r) \/ AppendToWaitlist(r)
  BY <1>6 DEF CommitPerson, Seat, AppendToWaitlist, Commit, ReleaseLocks
<1>7. QED
  BY <1>1, <1>2, <1>3, <1>4, <1>5, <1>6 DEF Proceed

(* Only Seat adds enrolments and only AppendToWaitlist adds waitlist rows. *)
LEMMA TableWriters ==
    ASSUME NEW r \in Requests, Arrive(r) \/ Proceed(r) \/ Abort(r)
    PROVE  /\ UNCHANGED <<limits, deletedRows>>
           /\ Seat(r) \/ UNCHANGED enrolments
           /\ AppendToWaitlist(r) \/ UNCHANGED waitlist
<1> USE DEF limits, tables
<1>1. CASE Arrive(r)
  BY <1>1 DEF Arrive, Register, Enrol, ReEnrol, Start
<1>2. CASE Abort(r)
  BY <1>2 DEF Abort
<1>3. CASE CheckEnrolment(r) \/ CheckWaitlist(r) \/ CheckOverlap(r)
  BY <1>3 DEF CheckEnrolment, CheckWaitlist, CheckOverlap, Check
<1>4. CASE TakeNumber(r) \/ LockSlot(r)
  BY <1>4 DEF TakeNumber, LockSlot
<1>5. CASE ReadCapacity(r) \/ CountOccupied(r) \/ ReadLastPosition(r)
  BY <1>5 DEF ReadCapacity, CountOccupied, ReadLastPosition, Read
<1>6. CASE CommitPerson(r) \/ Seat(r) \/ AppendToWaitlist(r)
  BY <1>6 DEF CommitPerson, Seat, AppendToWaitlist, Commit
<1>7. QED
  BY <1>1, <1>2, <1>3, <1>4, <1>5, <1>6 DEF Proceed

-----------------------------------------------------------------------------
(* Who holds which lock, and whose the rows are *)

(* A request past LockSlot holds its slot's lock, and nobody else does     *)
(* (enrolment-allocator.service.ts 63-69).                                 *)
LEMMA NextLockDiscipline == TablesInv /\ [Next]_vars => LockDiscipline'
<1> SUFFICES ASSUME TablesInv, [Next]_vars, NEW q \in Requests
             PROVE  /\ pc'[q] # "idle" => job'[q].participant \in Participants
                    /\ pc'[q] \in UnderSlotLock \cup Prechecks \cup {"lock"} =>
                          job'[q].slot \in Slots
                    /\ pc'[q] \in UnderSlotLock => slotLock'[job'[q].slot] = q
  BY DEF LockDiscipline
<1> USE DEF UnderSlotLock, Prechecks
<1>0. /\ pc[q] # "idle" => job[q].participant \in Participants
      /\ pc[q] \in UnderSlotLock \cup Prechecks \cup {"lock"} => job[q].slot \in Slots
      /\ pc[q] \in UnderSlotLock => slotLock[job[q].slot] = q
  BY DEF TablesInv, LockDiscipline
<1>1. ASSUME NEW r \in Requests, Arrive(r) \/ Proceed(r) \/ Abort(r), r # q
      PROVE  /\ pc'[q] = pc[q] /\ job'[q] = job[q]
             /\ \A s \in Slots : slotLock[s] = q => slotLock'[s] = q
  BY <1>1, OtherRequests
<1>2. CASE Arrive(q)
  BY <1>2 DEF Arrive, Register, Enrol, ReEnrol, Start, Goto, Registered,
              TablesInv, TypeOK, Enrolments
<1>3. CASE Abort(q)
  BY <1>0, <1>3 DEF Abort, Goto, InTransaction, TablesInv, TypeOK
<1>4. CASE Proceed(q)
  <2> USE <1>0 DEF Goto, TablesInv, TypeOK
  <2>1. CASE CheckEnrolment(q) \/ CheckWaitlist(q) \/ CheckOverlap(q)
    BY <2>1 DEF CheckEnrolment, CheckWaitlist, CheckOverlap, Check
  <2>2. CASE TakeNumber(q)
    BY <2>2 DEF TakeNumber, Jobs
  <2>3. CASE LockSlot(q)
    BY <2>3 DEF LockSlot
  <2>4. CASE ReadCapacity(q) \/ CountOccupied(q) \/ ReadLastPosition(q)
    BY <2>4 DEF ReadCapacity, CountOccupied, ReadLastPosition, Read, locks
  <2>5. CASE CommitPerson(q) \/ Seat(q) \/ AppendToWaitlist(q)
    BY <2>5 DEF CommitPerson, Seat, AppendToWaitlist, Commit
  <2>6. QED
    BY <1>4, <2>1, <2>2, <2>3, <2>4, <2>5 DEF Proceed
<1>5. ASSUME NEW l \in Locations, NEW c \in 0 .. MaxCapacity, UpdateCapacity(l, c)
      PROVE  UNCHANGED <<pc, job, slotLock>>
  BY <1>5 DEF UpdateCapacity, locks
<1>6. CASE UNCHANGED vars
  BY <1>0, <1>6 DEF vars, locks
<1>7. QED
  BY <1>0, <1>1, <1>2, <1>3, <1>4, <1>5, <1>6 DEF Next

(* A settled request takes no further step. *)
LEMMA SettledIsFinal ==
    ASSUME TablesInv, [Next]_vars, NEW q \in Requests, pc[q] \in Settled
    PROVE  pc'[q] = pc[q]
<1> USE DEF Settled
<1>1. ASSUME NEW r \in Requests, Arrive(r) \/ Proceed(r) \/ Abort(r)
      PROVE  r # q
  BY <1>1 DEF Arrive, Register, Enrol, ReEnrol, Start, Abort, InTransaction, Proceed,
              CheckEnrolment, CheckWaitlist, CheckOverlap, Check, TakeNumber, LockSlot,
              ReadCapacity, CountOccupied, ReadLastPosition, Read, CommitPerson, Seat,
              AppendToWaitlist
<1>2. QED
  BY <1>1, OtherRequests DEF Next, UpdateCapacity, vars

(* Rows belong to requests that have committed. *)
LEMMA NextRowsOfSettled == TablesInv /\ [Next]_vars => RowsOfSettled'
<1> SUFFICES ASSUME TablesInv, [Next]_vars PROVE RowsOfSettled'
  OBVIOUS
<1>1. \A q \in Requests : pc[q] \in Settled => pc'[q] \in Settled
  BY SettledIsFinal
<1>2. /\ \A d, e \in enrolments : d.id = e.id => d = e
      /\ \A e \in enrolments : pc'[e.id] \in Settled
      /\ \A w \in waitlist : pc'[w.id] \in Settled
      /\ \A id \in deletedRows : pc'[id] \in Settled
  BY <1>1 DEF TablesInv, RowsOfSettled, TypeOK, Enrolments, WaitlistRows
<1>3. ASSUME NEW r \in Requests, Arrive(r) \/ Proceed(r) \/ Abort(r)
      PROVE  RowsOfSettled'
  <2>1. Seat(r) => /\ \A e \in enrolments' : e \in enrolments \/ e.id = r
                   /\ \A d, e \in enrolments' : d.id = e.id => d = e
                   /\ pc'[r] \in Settled
    BY DEF RowsOfSettled, Seat, InsertEnrolment, Commit, Goto, Settled, TablesInv, TypeOK
  <2>2. AppendToWaitlist(r) => (\A w \in waitlist' : w \in waitlist \/ w.id = r)
                               /\ pc'[r] \in Settled
    BY DEF AppendToWaitlist, Commit, Goto, Settled, TablesInv, TypeOK
  <2>3. QED
    BY <1>2, <1>3, <2>1, <2>2, TableWriters DEF RowsOfSettled
<1>4. QED
  BY <1>2, <1>3 DEF Next, UpdateCapacity, vars, tables, RowsOfSettled

-----------------------------------------------------------------------------
(* How the queries change *)

(* Seating a request takes one seat of its slot and none of another. *)
LEMMA SeatCounts ==
    ASSUME TablesInv, NEW r \in Requests, pc[r] = "seat", InsertEnrolment(r), NEW s \in Slots
    PROVE  /\ IsFiniteSet(enrolments')
           /\ s # job[r].slot => Occupants(s)' = Occupants(s)
           /\ s = job[r].slot =>
                 Cardinality(Occupants(s)') = Cardinality(Occupants(s)) + 1
<1> DEFINE new == [id |-> r, participant |-> job[r].participant, slot |-> job[r].slot]
<1>1. enrolments' = enrolments \cup {new}
  BY DEF InsertEnrolment
<1>2. new \notin enrolments
  BY DEF TablesInv, RowsOfSettled, Settled
<1>3. IsFiniteSet(enrolments')
  BY <1>1, FS_AddElement DEF TablesInv, FiniteTables
<1>4. CASE s # job[r].slot
  BY <1>1, <1>3, <1>4 DEF Occupants
<1>5. CASE s = job[r].slot
  <2>1. Occupants(s)' = Occupants(s) \cup {new} /\ new \notin Occupants(s)
    BY <1>1, <1>2, <1>5 DEF Occupants
  <2>2. IsFiniteSet(Occupants(s))
    BY FiniteQueries DEF TablesInv
  <2>3. QED
    BY <1>3, <1>5, <2>1, <2>2, FS_AddElement
<1>6. QED
  BY <1>4, <1>5

(* Appending a request adds one row behind the others, and only to its slot. *)
LEMMA AppendCounts ==
    ASSUME TablesInv, NEW r \in Requests, AppendToWaitlist(r), NEW s \in Slots
    PROVE  /\ IsFiniteSet(waitlist')
           /\ s # job[r].slot => Active(s)' = Active(s)
           /\ s = job[r].slot =>
                 /\ Cardinality(Active(s)') = Cardinality(Active(s)) + 1
                 /\ Active(s)' = Active(s) \cup
                      {[id |-> r, participant |-> job[r].participant, slot |-> s,
                        position |-> myLast[r] + 1]}
<1> DEFINE new == [id |-> r, participant |-> job[r].participant, slot |-> job[r].slot,
                   position |-> myLast[r] + 1]
<1>1. waitlist' = waitlist \cup {new} /\ deletedRows' = deletedRows
  BY DEF AppendToWaitlist, Commit
<1>2. new \notin waitlist /\ r \notin deletedRows
  BY DEF AppendToWaitlist, TablesInv, RowsOfSettled, Settled
<1>3. IsFiniteSet(waitlist')
  BY <1>1, FS_AddElement DEF TablesInv, FiniteTables
<1>4. CASE s # job[r].slot
  BY <1>1, <1>3, <1>4 DEF Active
<1>5. CASE s = job[r].slot
  <2>1. Active(s)' = Active(s) \cup {new} /\ new \notin Active(s)
    BY <1>1, <1>2, <1>5 DEF Active
  <2>2. IsFiniteSet(Active(s))
    BY FiniteQueries DEF TablesInv
  <2>3. Cardinality(Active(s)') = Cardinality(Active(s)) + 1
    BY <2>1, <2>2, FS_AddElement
  <2>4. QED
    BY <1>3, <1>5, <2>1, <2>3
<1>6. QED
  BY <1>4, <1>5

-----------------------------------------------------------------------------
(* The promises *)

(* A step adds one row at most. *)
LEMMA NextFiniteTables == TablesInv /\ [Next]_vars => FiniteTables'
<1> SUFFICES ASSUME TablesInv, [Next]_vars PROVE FiniteTables'
  OBVIOUS
<1>1. FiniteTables
  BY DEF TablesInv
<1>2. ASSUME NEW r \in Requests, Arrive(r) \/ Proceed(r) \/ Abort(r)
      PROVE  FiniteTables'
  <2>1. /\ Seat(r) => IsFiniteSet(enrolments')
        /\ AppendToWaitlist(r) => IsFiniteSet(waitlist')
    <3>1. \A x : IsFiniteSet(enrolments \cup {x}) /\ IsFiniteSet(waitlist \cup {x})
      BY <1>1, FS_AddElement DEF FiniteTables
    <3>2. QED
      BY <3>1 DEF Seat, InsertEnrolment, AppendToWaitlist
  <2>2. QED
    BY <1>1, <1>2, <2>1, TableWriters DEF FiniteTables
<1>3. QED
  BY <1>1, <1>2 DEF Next, UpdateCapacity, vars, tables, FiniteTables

(* While a request holds the lock of a slot, no other adds a row to it. *)
LEMMA LockProtects ==
    ASSUME TablesInv, NEW r \in Requests, Arrive(r) \/ Proceed(r) \/ Abort(r),
           NEW s \in Slots, slotLock[s] # r
    PROVE  /\ Occupants(s)' = Occupants(s)
           /\ Active(s)' = Active(s)
<1>1. CASE Seat(r)
  <2>1. job[r].slot # s
    BY <1>1 DEF Seat, UnderSlotLock, TablesInv, LockDiscipline
  <2>2. Occupants(s)' = Occupants(s)
    BY <1>1, <2>1, SeatCounts DEF Seat
  <2>3. QED
    BY <1>1, <2>2 DEF Seat, Commit, Active
<1>2. CASE AppendToWaitlist(r)
  <2>1. job[r].slot # s
    BY <1>2 DEF AppendToWaitlist, UnderSlotLock, TablesInv, LockDiscipline
  <2>2. Active(s)' = Active(s)
    BY <1>2, <2>1, AppendCounts
  <2>3. QED
    BY <1>2, <2>2 DEF AppendToWaitlist, Occupants
<1>3. CASE ~Seat(r) /\ ~AppendToWaitlist(r)
  BY <1>3, TableWriters DEF Occupants, Active
<1>4. QED
  BY <1>1, <1>2, <1>3

(* What a request has read under the lock is still so when it writes. *)
LEMMA NextReadsStand == SeatInv /\ [Next]_vars => ReadsStand'
<1> DEFINE Stands(q) ==
      LET slot == job[q].slot IN
      /\ pc[q] \in {"count", "seat", "position", "append"} =>
            /\ myCapacity[q] <= high[LocationOf(slot)]
            /\ myCapacity[q] >= low[LocationOf(slot)]
      /\ pc[q] \in {"seat", "position", "append"} =>
            myOccupied[q] = Cardinality(Occupants(slot))
      /\ pc[q] = "seat" => myOccupied[q] < myCapacity[q]
      /\ pc[q] \in {"position", "append"} => myOccupied[q] >= myCapacity[q]
      /\ pc[q] = "append" => myLast[q] = Cardinality(Active(slot))
<1> SUFFICES ASSUME SeatInv, [Next]_vars, NEW q \in Requests
             PROVE  Stands(q)'
  BY DEF ReadsStand
<1>0. /\ TypeOK /\ Stands(q)
      /\ pc[q] \in UnderSlotLock => job[q].slot \in Slots
  BY DEF SeatInv, ReadsStand, LockDiscipline
<1>1. ASSUME NEW r \in Requests, Arrive(r) \/ Proceed(r) \/ Abort(r), r # q
      PROVE  Stands(q)'
  <2>1. /\ pc'[q] = pc[q] /\ job'[q] = job[q] /\ UNCHANGED limits
        /\ myCapacity'[q] = myCapacity[q] /\ myOccupied'[q] = myOccupied[q]
        /\ myLast'[q] = myLast[q]
    BY SeatTables, <1>1, OtherRequests, TableWriters
  <2>2. CASE pc[q] \in UnderSlotLock
    <3>1. PICK s \in Slots : s = job[q].slot /\ slotLock[s] = q
      BY <1>0, <2>2 DEF SeatInv, LockDiscipline
    <3>2. Occupants(s)' = Occupants(s) /\ Active(s)' = Active(s)
      BY SeatTables, <1>1, <3>1, LockProtects
    <3>3. /\ Cardinality(Occupants(job[q].slot))' = Cardinality(Occupants(job[q].slot))
          /\ Cardinality(Active(job[q].slot))' = Cardinality(Active(job[q].slot))
      BY <2>1, <3>1, <3>2
    <3>4. QED
      BY <1>0, <2>1, <3>3 DEF limits
  <2>3. CASE pc[q] \notin UnderSlotLock
    BY <2>1, <2>3 DEF UnderSlotLock
  <2>4. QED
    BY <2>2, <2>3
<1>2. CASE Arrive(q)
  BY <1>0, <1>2 DEF Arrive, Register, Enrol, ReEnrol, Start, Goto, TypeOK
<1>3. CASE Abort(q)
  BY <1>0, <1>3 DEF Abort, Goto, TypeOK
<1>4. CASE Proceed(q)
  <2> USE <1>0 DEF Goto, TypeOK, UnderSlotLock
  <2>1. CASE CheckEnrolment(q) \/ CheckWaitlist(q) \/ CheckOverlap(q)
    BY <2>1 DEF CheckEnrolment, CheckWaitlist, CheckOverlap, Check
  <2>2. CASE TakeNumber(q) \/ LockSlot(q) \/ CommitPerson(q)
    BY <2>2 DEF TakeNumber, LockSlot, CommitPerson, Commit
  <2>3. CASE ReadCapacity(q)
    <3>1. job[q].slot \in Slots
      BY <2>3 DEF ReadCapacity, Read
    <3>2. LocationOf(job[q].slot) \in Locations
      BY <3>1, SlotLocation
    <3>3. /\ capacity[LocationOf(job[q].slot)] <= high[LocationOf(job[q].slot)]
          /\ capacity[LocationOf(job[q].slot)] >= low[LocationOf(job[q].slot)]
      BY <3>2 DEF SeatInv, CapacityInRange
    <3>4. QED
      BY <2>3, <3>3 DEF ReadCapacity, Read, limits
  <2>4. CASE CountOccupied(q)
    <3>1. Cardinality(Occupants(job[q].slot)) \in Nat
      BY FiniteQueries DEF SeatInv
    <3>2. /\ pc'[q] \in {"seat", "position"}
          /\ myOccupied'[q] = Cardinality(Occupants(job[q].slot))
          /\ pc'[q] = "seat" <=> myOccupied'[q] < myCapacity[q]
          /\ UNCHANGED <<job, myCapacity, high, low, enrolments>>
      BY <2>4 DEF CountOccupied, Read, limits, tables
    <3>3. Cardinality(Occupants(job[q].slot))' = Cardinality(Occupants(job[q].slot))
      BY <3>2 DEF Occupants
    <3>4. pc[q] = "count"
      BY <2>4 DEF CountOccupied, Read
    <3>5. QED
      BY <3>1, <3>2, <3>3, <3>4
  <2>5. CASE ReadLastPosition(q)
    <3>1. /\ pc[q] = "position" /\ pc'[q] = "append"
          /\ myLast'[q] = LastPosition(job[q].slot)
          /\ UNCHANGED <<job, myCapacity, myOccupied, high, low, enrolments, waitlist,
                          deletedRows>>
      BY <2>5 DEF ReadLastPosition, Read, limits, tables
    <3>2. LastPosition(job[q].slot) = Cardinality(Active(job[q].slot))
      BY <3>1, LastIsLength DEF SeatInv, PositionsContiguous
    <3>3. /\ Cardinality(Occupants(job[q].slot))' = Cardinality(Occupants(job[q].slot))
          /\ Cardinality(Active(job[q].slot))' = Cardinality(Active(job[q].slot))
      BY <3>1 DEF Occupants, Active
    <3>4. QED
      BY <3>1, <3>2, <3>3
  <2>6. CASE Seat(q) \/ AppendToWaitlist(q)
    BY <2>6 DEF Seat, AppendToWaitlist, Commit
  <2>7. QED
    BY <1>4, <2>1, <2>2, <2>3, <2>4, <2>5, <2>6 DEF Proceed
<1>5. ASSUME NEW l \in Locations, NEW c \in 0 .. MaxCapacity, UpdateCapacity(l, c)
      PROVE  Stands(q)'
  <2>1. /\ UNCHANGED <<pc, job, myCapacity, myOccupied, myLast, enrolments, waitlist,
                        deletedRows>>
        /\ \A k \in Locations : high'[k] >= high[k] /\ low'[k] <= low[k]
        /\ high' \in [Locations -> Nat] /\ low' \in [Locations -> Nat]
    BY <1>0, <1>5, CapacityAssumption DEF UpdateCapacity, TypeOK, tables, reads
  <2>2. pc[q] \in UnderSlotLock => LocationOf(job[q].slot) \in Locations
    BY <1>0, SlotLocation
  <2>3. /\ Cardinality(Occupants(job[q].slot))' = Cardinality(Occupants(job[q].slot))
        /\ Cardinality(Active(job[q].slot))' = Cardinality(Active(job[q].slot))
    BY <2>1 DEF Occupants, Active
  <2>4. QED
    BY <1>0, <2>1, <2>2, <2>3 DEF UnderSlotLock, TypeOK
<1>6. CASE UNCHANGED vars
  BY <1>0, <1>6 DEF vars, limits, tables, reads, Occupants, Active
<1>7. QED
  BY <1>1, <1>2, <1>3, <1>4, <1>5, <1>6 DEF Next

(* Capacity stays between the bounds it has had (locations.service.ts      *)
(* 95-116).                                                                *)
LEMMA NextCapacityInRange == TablesInv /\ [Next]_vars => CapacityInRange'
<1> SUFFICES ASSUME TablesInv, [Next]_vars PROVE CapacityInRange'
  OBVIOUS
<1>1. CapacityInRange /\ TypeOK
  BY DEF TablesInv
<1>2. ASSUME NEW r \in Requests, Arrive(r) \/ Proceed(r) \/ Abort(r)
      PROVE  CapacityInRange'
  BY <1>1, <1>2, TableWriters DEF limits, CapacityInRange
<1>3. ASSUME NEW l \in Locations, NEW c \in 0 .. MaxCapacity, UpdateCapacity(l, c)
      PROVE  CapacityInRange'
  BY <1>1, <1>3, CapacityAssumption DEF UpdateCapacity, CapacityInRange, TypeOK
<1>4. CASE UNCHANGED vars
  BY <1>1, <1>4 DEF vars, limits, CapacityInRange
<1>5. QED
  BY <1>2, <1>3, <1>4 DEF Next

(* A seat is taken only where the count left room. *)
LEMMA NextNeverOverbooked == SeatInv /\ [Next]_vars => NeverOverbooked'
<1> SUFFICES ASSUME SeatInv, [Next]_vars, NEW s \in Slots
             PROVE  Cardinality(Occupants(s)') <= high'[LocationOf(s)]
  BY DEF NeverOverbooked
<1>1. /\ Cardinality(Occupants(s)) <= high[LocationOf(s)]
      /\ LocationOf(s) \in Locations /\ TypeOK
      /\ Cardinality(Occupants(s)) \in Nat
  BY SlotLocation, FiniteQueries DEF SeatInv, NeverOverbooked
<1>2. ASSUME NEW r \in Requests, Arrive(r) \/ Proceed(r) \/ Abort(r)
      PROVE  Cardinality(Occupants(s)') <= high'[LocationOf(s)]
  <2>1. high' = high
    BY <1>2, TableWriters DEF limits
  <2>2. CASE Seat(r) /\ s = job[r].slot
    <3>1. /\ Cardinality(Occupants(s)) < myCapacity[r]
          /\ myCapacity[r] <= high[LocationOf(s)]
      BY <2>2 DEF Seat, SeatInv, ReadsStand
    <3>2. Cardinality(Occupants(s)') = Cardinality(Occupants(s)) + 1
      BY SeatTables, <2>2, SeatCounts DEF Seat
    <3>3. QED
      BY <1>1, <2>1, <3>1, <3>2 DEF TypeOK
  <2>3. CASE Seat(r) /\ s # job[r].slot
    BY SeatTables, <1>1, <2>1, <2>3, SeatCounts DEF Seat
  <2>4. CASE ~Seat(r)
    BY <1>1, <1>2, <2>1, <2>4, TableWriters DEF Occupants
  <2>5. QED
    BY <2>2, <2>3, <2>4
<1>3. ASSUME NEW l \in Locations, NEW c \in 0 .. MaxCapacity, UpdateCapacity(l, c)
      PROVE  Cardinality(Occupants(s)') <= high'[LocationOf(s)]
  <2>1. Occupants(s)' = Occupants(s)
    BY <1>3 DEF UpdateCapacity, tables, Occupants
  <2>2. high'[LocationOf(s)] >= high[LocationOf(s)] /\ high'[LocationOf(s)] \in Nat
    BY <1>1, <1>3, CapacityAssumption DEF UpdateCapacity, TypeOK
  <2>3. QED
    BY <1>1, <2>1, <2>2 DEF TypeOK
<1>4. CASE UNCHANGED vars
  BY <1>1, <1>4 DEF vars, limits, tables, Occupants
<1>5. QED
  BY <1>2, <1>3, <1>4 DEF Next

(* A row is appended only to a slot that was full. *)
LEMMA NextNobodyWaitsForNothing == SeatInv /\ [Next]_vars => NobodyWaitsForNothing'
<1> SUFFICES ASSUME SeatInv, [Next]_vars, NEW s \in Slots, Active(s)' # {}
             PROVE  Cardinality(Occupants(s)') >= low'[LocationOf(s)]
  BY DEF NobodyWaitsForNothing
<1>1. /\ Active(s) # {} => Cardinality(Occupants(s)) >= low[LocationOf(s)]
      /\ LocationOf(s) \in Locations /\ TypeOK
      /\ Cardinality(Occupants(s)) \in Nat
  BY SlotLocation, FiniteQueries DEF SeatInv, NobodyWaitsForNothing
<1>2. ASSUME NEW r \in Requests, Arrive(r) \/ Proceed(r) \/ Abort(r)
      PROVE  Cardinality(Occupants(s)') >= low'[LocationOf(s)]
  <2>1. low' = low
    BY <1>2, TableWriters DEF limits
  <2>2. Cardinality(Occupants(s)') >= Cardinality(Occupants(s))
        /\ Cardinality(Occupants(s)') \in Nat
    <3>1. CASE Seat(r)
      BY SeatTables, <1>1, <3>1, SeatCounts DEF Seat
    <3>2. CASE ~Seat(r)
      <4>1. Occupants(s)' = Occupants(s)
        BY <1>2, <3>2, TableWriters DEF Occupants
      <4>2. QED
        BY <1>1, <4>1
    <3>3. QED
      BY <3>1, <3>2
  <2>3. Cardinality(Occupants(s)) >= low[LocationOf(s)]
    <3>1. CASE AppendToWaitlist(r) /\ s = job[r].slot
      <4>1. /\ myOccupied[r] = Cardinality(Occupants(s))
            /\ myOccupied[r] >= myCapacity[r]
            /\ myCapacity[r] >= low[LocationOf(s)]
        BY <3>1 DEF AppendToWaitlist, SeatInv, ReadsStand
      <4>2. QED
        BY <1>1, <4>1 DEF TypeOK
    <3>2. CASE AppendToWaitlist(r) /\ s # job[r].slot
      BY SeatTables, <1>1, <3>2, AppendCounts
    <3>3. CASE ~AppendToWaitlist(r)
      BY <1>1, <1>2, <3>3, TableWriters DEF Active
    <3>4. QED
      BY <3>1, <3>2, <3>3
  <2>4. QED
    BY <1>1, <2>1, <2>2, <2>3 DEF TypeOK
<1>3. ASSUME NEW l \in Locations, NEW c \in 0 .. MaxCapacity, UpdateCapacity(l, c)
      PROVE  Cardinality(Occupants(s)') >= low'[LocationOf(s)]
  <2>1. Occupants(s)' = Occupants(s) /\ Active(s)' = Active(s)
    BY <1>3 DEF UpdateCapacity, tables, Occupants, Active
  <2>2. low'[LocationOf(s)] <= low[LocationOf(s)] /\ low'[LocationOf(s)] \in Nat
    BY <1>1, <1>3, CapacityAssumption DEF UpdateCapacity, TypeOK
  <2>3. QED
    BY <1>1, <2>1, <2>2 DEF TypeOK
<1>4. CASE UNCHANGED vars
  BY <1>1, <1>4 DEF vars, limits, tables, Occupants, Active
<1>5. QED
  BY <1>2, <1>3, <1>4 DEF Next

(* And at the position after the last. *)
LEMMA NextPositionsContiguous == SeatInv /\ [Next]_vars => PositionsContiguous'
<1> SUFFICES ASSUME SeatInv, [Next]_vars, NEW s \in Slots
             PROVE  {w.position : w \in Active(s)'} = 1 .. Cardinality(Active(s)')
  BY DEF PositionsContiguous
<1>1. /\ {w.position : w \in Active(s)} = 1 .. Cardinality(Active(s))
      /\ Cardinality(Active(s)) \in Nat
  BY FiniteQueries DEF SeatInv, PositionsContiguous
<1>2. ASSUME NEW r \in Requests, AppendToWaitlist(r), s = job[r].slot
      PROVE  {w.position : w \in Active(s)'} = 1 .. Cardinality(Active(s)')
  <2> DEFINE n == Cardinality(Active(s))
             new == [id |-> r, participant |-> job[r].participant, slot |-> s,
                     position |-> myLast[r] + 1]
  <2>1. Active(s)' = Active(s) \cup {new} /\ Cardinality(Active(s)') = n + 1
    BY SeatTables, <1>2, AppendCounts
  <2>2. new.position = n + 1
    BY <1>2 DEF AppendToWaitlist, SeatInv, ReadsStand
  <2>3. {w.position : w \in Active(s)'} = {w.position : w \in Active(s)} \cup {n + 1}
    BY <2>1, <2>2
  <2>4. (1 .. n) \cup {n + 1} = 1 .. (n + 1)
    BY <1>1
  <2>5. QED
    BY <1>1, <2>1, <2>3, <2>4
<1>3. ASSUME NEW r \in Requests, Arrive(r) \/ Proceed(r) \/ Abort(r),
             ~(AppendToWaitlist(r) /\ s = job[r].slot)
      PROVE  Active(s)' = Active(s)
  BY SeatTables, <1>3, AppendCounts, TableWriters DEF Active
<1>4. ASSUME UNCHANGED vars \/ \E l \in Locations, c \in 0 .. MaxCapacity : UpdateCapacity(l, c)
      PROVE  Active(s)' = Active(s)
  BY <1>4 DEF UpdateCapacity, vars, tables, Active
<1>5. QED
  BY <1>1, <1>2, <1>3, <1>4 DEF Next

(* The invariant holds of empty tables. *)
LEMMA InitSeatInv == Init => SeatInv
<1> SUFFICES ASSUME Init PROVE SeatInv
  OBVIOUS
<1>1. TypeOK
  BY InitType
<1>2. \A s \in Slots : Occupants(s) = {} /\ Active(s) = {}
  BY DEF Init, Occupants, Active
<1>3. FiniteTables
  BY FS_EmptySet DEF Init, FiniteTables
<1>4. CapacityInRange
  BY <1>1 DEF Init, TypeOK, CapacityInRange
<1>5. LockDiscipline /\ RowsOfSettled /\ ReadsStand
  BY DEF Init, LockDiscipline, RowsOfSettled, ReadsStand, UnderSlotLock, Prechecks
<1>6. NeverOverbooked /\ NobodyWaitsForNothing
  <2>1. \A s \in Slots : Cardinality(Occupants(s)) = 0 /\ high[LocationOf(s)] \in Nat
    BY <1>1, <1>2, SlotLocation, FS_EmptySet DEF TypeOK
  <2>2. QED
    BY <1>2, <2>1 DEF NeverOverbooked, NobodyWaitsForNothing
<1>7. PositionsContiguous
  BY <1>2, FS_EmptySet DEF PositionsContiguous
<1>8. QED
  BY <1>1, <1>3, <1>4, <1>5, <1>6, <1>7 DEF SeatInv

-----------------------------------------------------------------------------
(* The inductive invariant holds of every behaviour of the allocator. *)
THEOREM SeatInvariant == Spec => []SeatInv
<1>1. SeatInv /\ [Next]_vars => SeatInv'
  BY SeatTables, NextType, NextFiniteTables, NextCapacityInRange, NextLockDiscipline,
     NextRowsOfSettled, NextReadsStand, NextNeverOverbooked,
     NextNobodyWaitsForNothing, NextPositionsContiguous
  DEF SeatInv
<1>2. QED
  BY InitSeatInv, <1>1, PTL DEF Spec

(* Every variable of the allocator keeps its type. *)
THEOREM TypeCorrect == Spec => []TypeOK
<1>1. SeatInv => TypeOK
  BY DEF SeatInv
<1>2. QED
  BY <1>1, SeatInvariant, PTL

(* enrolments.service.ts 144-146: whatever the interleaving of parallel    *)
(* calls and capacity edits, no slot is overbooked.                        *)
THEOREM NoOverbooking == Spec => []NeverOverbooked
<1>1. SeatInv => NeverOverbooked
  BY DEF SeatInv
<1>2. QED
  BY <1>1, SeatInvariant, PTL

(* enrolment-allocator.service.ts 133: a request goes to the waitlist only *)
(* when the slot was full at a capacity that was in force.                 *)
THEOREM WaitingIsJustified == Spec => []NobodyWaitsForNothing
<1>1. SeatInv => NobodyWaitsForNothing
  BY DEF SeatInv
<1>2. QED
  BY <1>1, SeatInvariant, PTL

(* smoke-test-allocator.ts 7: positions stay 1..K without gap or duplicate *)
(* for any number of parallel requests.                                    *)
THEOREM FifoPositions == Spec => []PositionsContiguous
<1>1. SeatInv => PositionsContiguous
  BY DEF SeatInv
<1>2. QED
  BY <1>1, SeatInvariant, PTL

-----------------------------------------------------------------------------
(* Participant numbers *)

(* No number has been taken at the start. *)
LEMMA NumbersInit == Init => NumbersReserved /\ NumbersGapless
<1> SUFFICES ASSUME Init PROVE NumbersReserved /\ NumbersGapless
  OBVIOUS
<1>1. NumbersReserved
  BY KnownAssumption DEF Init, NumbersReserved, NoJob, InTransaction
<1>2. NumbersGapless
  BY DEF Init, NumbersGapless
<1>3. QED
  BY <1>1, <1>2

(* Only the commit of a registration writes the counter or a number. *)
LEMMA NumberWriters ==
    ASSUME SeatInv, NumbersReserved, [Next]_vars
    PROVE  \/ UNCHANGED <<number, counter>>
           \/ \E r \in Requests :
                /\ pc[r] \in InTransaction \ {"number"} /\ pc'[r] \in Settled \ {"aborted"}
                /\ job[r].endpoint = "register" /\ job'[r] = job[r]
                /\ number' = [number EXCEPT ![job[r].participant] = counter + 1]
                /\ counter' = counter + 1
<1> USE DEF limits, tables
<1>1. ASSUME NEW r \in Requests, CommitPerson(r) \/ Seat(r) \/ AppendToWaitlist(r),
             job[r].endpoint = "register"
      PROVE  /\ pc[r] \in InTransaction \ {"number"} /\ pc'[r] \in Settled \ {"aborted"}
             /\ job'[r] = job[r]
             /\ number' = [number EXCEPT ![job[r].participant] = counter + 1]
             /\ counter' = counter + 1
  <2>1. pc[r] \in InTransaction \ {"number"} /\ pc'[r] \in Settled \ {"aborted"}
    BY <1>1 DEF CommitPerson, Seat, AppendToWaitlist, Commit, Goto, InTransaction,
                Settled, SeatInv, TypeOK
  <2>2. myNumber[r] = counter + 1
    BY <1>1, <2>1 DEF NumbersReserved
  <2>3. QED
    BY <1>1, <2>1, <2>2 DEF CommitPerson, Seat, AppendToWaitlist, Commit, CommitRegistration
<1>2. ASSUME NEW r \in Requests, CommitPerson(r) \/ Seat(r) \/ AppendToWaitlist(r),
             job[r].endpoint # "register"
      PROVE  UNCHANGED <<number, counter>>
  BY <1>2 DEF CommitPerson, Seat, AppendToWaitlist, Commit, CommitRegistration
<1>3. ASSUME NEW r \in Requests, Arrive(r) \/ Abort(r)
      PROVE  UNCHANGED <<number, counter>>
  BY <1>3 DEF Arrive, Register, Enrol, ReEnrol, Start, Abort
<1>4. ASSUME NEW r \in Requests,
             \/ CheckEnrolment(r) \/ CheckWaitlist(r) \/ CheckOverlap(r)
             \/ TakeNumber(r) \/ LockSlot(r) \/ ReadCapacity(r) \/ CountOccupied(r)
             \/ ReadLastPosition(r)
      PROVE  UNCHANGED <<number, counter>>
  BY <1>4 DEF CheckEnrolment, CheckWaitlist, CheckOverlap, Check, TakeNumber, LockSlot,
              ReadCapacity, CountOccupied, ReadLastPosition, Read
<1>5. QED
  BY <1>1, <1>2, <1>3, <1>4 DEF Next, Proceed, UpdateCapacity, vars

(* A step gives one person the next number at most (tenant-sequence.util.ts*)
(* 20-49).                                                                 *)
LEMMA NumbersStep ==
    SeatInv /\ NumbersReserved /\ NumbersGapless /\ [Next]_vars
        => NumbersGapless' /\ IsFiniteSet(Registered)'
<1> SUFFICES ASSUME SeatInv, NumbersReserved, NumbersGapless, [Next]_vars
             PROVE  NumbersGapless' /\ IsFiniteSet(Registered)'
  OBVIOUS
<1>1. CASE UNCHANGED <<number, counter>>
  BY <1>1 DEF NumbersGapless, NumbersReserved, Registered
<1>2. ASSUME NEW r \in Requests,
             pc[r] \in InTransaction, job[r].endpoint = "register",
             number' = [number EXCEPT ![job[r].participant] = counter + 1],
             counter' = counter + 1
      PROVE  NumbersGapless' /\ IsFiniteSet(Registered)'
  <2>1. PICK p \in Participants \ Registered : p = job[r].participant
    BY <1>2 DEF NumbersReserved
  <2>2. counter \in Nat /\ number \in [Participants -> Nat]
    BY DEF SeatInv, TypeOK
  <2>3. \A q \in Participants : number'[q] = IF q = p THEN counter + 1 ELSE number[q]
    BY <1>2, <2>1, <2>2
  <2>4. Registered' = Registered \cup {p}
    BY <2>2, <2>3 DEF Registered
  <2>5. IsFiniteSet(Registered') /\ Cardinality(Registered') = Cardinality(Registered) + 1
    BY <2>1, <2>4, FS_AddElement DEF NumbersReserved
  <2>6. {number'[q] : q \in Registered'} = {number[q] : q \in Registered} \cup {counter + 1}
    BY <2>1, <2>3, <2>4 DEF Registered
  <2>7. (1 .. counter) \cup {counter + 1} = 1 .. (counter + 1)
    BY <2>2
  <2>8. QED
    BY <1>2, <2>5, <2>6, <2>7 DEF NumbersGapless
<1>3. QED
  BY <1>1, <1>2, NumberWriters

(* The step of a request keeps what is reserved for it. *)
LEMMA OwnReservation ==
    ASSUME SeatInv, NumbersReserved, NEW r \in Requests,
           Arrive(r) \/ Proceed(r) \/ Abort(r)
    PROVE  /\ pc'[r] # "idle"
           /\ pc'[r] = "number" => job'[r].endpoint = "register"
           /\ pc'[r] \in Prechecks => job'[r].endpoint # "register"
           /\ pc'[r] \in InTransaction \ {"number"} /\ job'[r].endpoint = "register" =>
                 counterLock' = r /\ myNumber'[r] = counter' + 1
           /\ \/ /\ job'[r] = job[r] /\ pc[r] # "idle" /\ pc[r] # "aborted"
                 /\ pc'[r] \in InTransaction /\ job[r].endpoint = "register" =>
                       pc[r] \in InTransaction
              \/ Register(r) /\ job'[r].participant \in Participants \ (Registered \cup Registering)
              \/ job'[r].endpoint # "register" /\ pc'[r] \in Prechecks
           /\ pc'[r] \in InTransaction => UNCHANGED <<number, counter>>
<1> USE DEF SeatInv, TypeOK, Goto, InTransaction, Prechecks, tables, locks, reads
<1>0. /\ pc[r] = "number" => job[r].endpoint = "register"
      /\ pc[r] \in Prechecks => job[r].endpoint # "register"
      /\ pc[r] \in InTransaction \ {"number"} /\ job[r].endpoint = "register" =>
            counterLock = r /\ myNumber[r] = counter + 1
  BY DEF NumbersReserved
<1>1. CASE Register(r)
  <2>1. PICK p \in Participants \ (Registered \cup Registering), slot \in Slots \cup {NoSlot} :
          Start(r, "register", p, slot, Nobody, FALSE, "number")
    BY <1>1 DEF Register
  <2>2. pc'[r] = "number" /\ job'[r].endpoint = "register" /\ job'[r].participant = p
    BY <2>1 DEF Start
  <2>3. UNCHANGED <<number, counter>>
    BY <2>1 DEF Start
  <2>4. QED
    BY <1>1, <2>2, <2>3
<1>2. CASE Enrol(r) \/ ReEnrol(r)
  BY <1>2 DEF Enrol, ReEnrol, Start, Jobs
<1>3. CASE Abort(r)
  BY <1>0, <1>3 DEF Abort
<1>4. CASE CheckEnrolment(r) \/ CheckWaitlist(r) \/ CheckOverlap(r)
  BY <1>0, <1>4 DEF CheckEnrolment, CheckWaitlist, CheckOverlap, Check
<1>5. CASE TakeNumber(r)
  BY <1>0, <1>5 DEF TakeNumber
<1>6. CASE LockSlot(r)
  <2>1. pc'[r] = "capacity" /\ UNCHANGED <<job, counter, number, counterLock, myNumber>>
    BY <1>6 DEF LockSlot
  <2>2. pc[r] = "lock"
    BY <1>6 DEF LockSlot
  <2>3. QED
    BY <1>0, <2>1, <2>2
<1>7. CASE ReadCapacity(r) \/ CountOccupied(r) \/ ReadLastPosition(r)
  BY <1>0, <1>7 DEF ReadCapacity, CountOccupied, ReadLastPosition, Read
<1>8. CASE CommitPerson(r) \/ Seat(r) \/ AppendToWaitlist(r)
  BY <1>0, <1>8 DEF CommitPerson, Seat, AppendToWaitlist, Commit
<1>9. QED
  BY <1>1, <1>2, <1>3, <1>4, <1>5, <1>6, <1>7, <1>8 DEF Arrive, Proceed

(* A number is held by a person or by the transaction that has taken it. *)
LEMMA NumbersReservedStep ==
    SeatInv /\ NumbersReserved /\ NumbersGapless /\ [Next]_vars => NumbersReserved'
<1> SUFFICES ASSUME SeatInv, NumbersReserved, NumbersGapless, [Next]_vars
             PROVE  NumbersReserved'
  OBVIOUS
<1>1. IsFiniteSet(Registered)'
  BY NumbersStep
<1>2. ASSUME NEW r \in Requests, Arrive(r) \/ Proceed(r) \/ Abort(r)
      PROVE  NumbersReserved'
  <2> DEFINE registering(q) == job[q].endpoint = "register" /\ pc[q] # "aborted"
  <2>1. ASSUME NEW q \in Requests, NEW p \in Requests, registering(q)', registering(p)',
               job'[q].participant = job'[p].participant
        PROVE  q = p
    <3>1. ASSUME NEW o \in Requests, o # r, registering(o)'
          PROVE  registering(o) /\ job'[o] = job[o] /\ job[o].participant \in Registering
      BY SeatTables, <1>2, <3>1, OtherRequests DEF Registering
    <3>2. ASSUME NEW o \in Requests, o # r, registering(o)', registering(r)',
                 job'[o].participant = job'[r].participant
          PROVE  FALSE
      <4>1. CASE job'[r] = job[r] /\ pc[r] # "aborted"
        BY <3>1, <3>2, <4>1 DEF NumbersReserved
      <4>2. CASE job'[r].participant \notin Registering
        BY <3>1, <3>2, <4>2
      <4>3. QED
        BY <1>2, <3>2, <4>1, <4>2, OwnReservation
    <3>3. CASE q # r /\ p # r
      BY <2>1, <3>1, <3>3 DEF NumbersReserved
    <3>4. QED
      BY <2>1, <3>2, <3>3
  <2>2. ASSUME NEW q \in Requests, pc'[q] \in InTransaction, job'[q].endpoint = "register"
        PROVE  job'[q].participant \in Participants \ Registered'
    <3>1. CASE q = r
      <4>1. job'[r].participant \in Participants \ Registered
        <5>1. pc'[r] \notin Prechecks
          BY <2>2, <3>1 DEF Prechecks, InTransaction
        <5>2. CASE job'[r] = job[r] /\ pc[r] \in InTransaction
          BY <2>2, <3>1, <5>2 DEF NumbersReserved
        <5>3. QED
          BY <1>2, <2>2, <3>1, <5>1, <5>2, OwnReservation
      <4>2. UNCHANGED number
        BY <1>2, <2>2, <3>1, OwnReservation
      <4>3. QED
        BY <3>1, <4>1, <4>2 DEF Registered
    <3>2. CASE q # r
      <4>1. pc[q] \in InTransaction /\ job'[q] = job[q] /\ pc'[q] = pc[q]
            /\ job[q].endpoint = "register"
        BY SeatTables, <1>2, <2>2, <3>2, OtherRequests
      <4>2. job[q].participant \in Participants \ Registered
        BY <4>1 DEF NumbersReserved
      <4>3. CASE UNCHANGED number
        BY <4>1, <4>2, <4>3 DEF Registered
      <4>4. ASSUME NEW w \in Requests, pc[w] \in InTransaction, pc'[w] \in Settled,
                   job[w].endpoint = "register",
                   number' = [number EXCEPT ![job[w].participant] = counter + 1]
            PROVE  job'[q].participant \in Participants \ Registered'
        <5>1. w # q /\ pc[w] # "aborted" /\ pc[q] # "aborted"
          BY <4>1, <4>4 DEF InTransaction, Settled
        <5>2. job[w].participant # job[q].participant
          BY <4>1, <4>4, <5>1 DEF NumbersReserved
        <5>3. number'[job[q].participant] = number[job[q].participant]
          BY <4>2, <4>4, <5>2 DEF SeatInv, TypeOK
        <5>4. QED
          BY <4>1, <4>2, <5>3 DEF Registered
      <4>5. QED
        BY <4>3, <4>4, NumberWriters
    <3>3. QED
      BY <3>1, <3>2
  <2>3. ASSUME NEW q \in Requests, pc'[q] \in InTransaction \ {"number"},
               job'[q].endpoint = "register"
        PROVE  counterLock' = q /\ myNumber'[q] = counter' + 1
    <3>1. CASE q = r
      BY <1>2, <2>3, <3>1, OwnReservation
    <3>2. CASE q # r
      <4>1. /\ pc[q] \in InTransaction \ {"number"} /\ job[q].endpoint = "register"
            /\ pc'[q] = pc[q] /\ myNumber'[q] = myNumber[q]
            /\ counterLock = q => counterLock' = q
        BY SeatTables, <1>2, <2>3, <3>2, OtherRequests
      <4>2. counterLock = q /\ myNumber[q] = counter + 1
        BY <4>1 DEF NumbersReserved
      <4>3. ASSUME NEW w \in Requests, pc[w] \in InTransaction \ {"number"},
                   pc'[w] \in Settled, job[w].endpoint = "register"
            PROVE  FALSE
        <5>1. w # q
          BY <4>1, <4>3 DEF InTransaction, Settled
        <5>2. QED
          BY <4>2, <4>3, <5>1 DEF NumbersReserved
      <4>4. counter' = counter
        BY <4>3, NumberWriters
      <4>5. QED
        BY <4>1, <4>2, <4>4
    <3>3. QED
      BY <3>1, <3>2
  <2>4. ASSUME NEW q \in Requests
        PROVE  /\ pc'[q] = "idle" => job'[q].endpoint = "none"
               /\ pc'[q] = "number" => job'[q].endpoint = "register"
               /\ pc'[q] \in Prechecks => job'[q].endpoint # "register"
    <3>1. CASE q = r
      BY <1>2, <3>1, OwnReservation
    <3>2. CASE q # r
      <4>1. pc'[q] = pc[q] /\ job'[q] = job[q]
        BY SeatTables, <1>2, <3>2, OtherRequests
      <4>2. QED
        BY <4>1 DEF NumbersReserved
    <3>3. QED
      BY <3>1, <3>2
  <2>5. QED
    BY <1>1, <2>1, <2>2, <2>3, <2>4 DEF NumbersReserved
<1>3. CASE UNCHANGED <<pc, job, counterLock, myNumber, counter, number>>
  BY <1>3 DEF NumbersReserved, Registered
<1>4. QED
  BY <1>2, <1>3 DEF Next, UpdateCapacity, vars, tables, locks, reads

(* tenant-sequence.util.ts 11-13: however registrations interleave and     *)
(* abort, the participant numbers are 1..counter, each given to one person.*)
THEOREM GaplessNumbers == Spec => []NumbersGapless
<1>1. SeatInv /\ NumbersReserved /\ NumbersGapless /\ [Next]_vars
        => (NumbersReserved /\ NumbersGapless)'
  BY NumbersStep, NumbersReservedStep
<1>2. QED
  BY <1>1, NumbersInit, SeatInvariant, PTL DEF Spec

-----------------------------------------------------------------------------
(* No circular wait *)

(* A step of a request takes a lock for itself, frees its own, or neither, *)
(* and leaves its locks with a label at which they are held.               *)
LEMMA LocksOfStep ==
    ASSUME TablesInv, HoldersAreUnderWay, NEW r \in Requests,
           Arrive(r) \/ Proceed(r) \/ Abort(r)
    PROVE  /\ counterLock' \in {counterLock, r, Nobody}
           /\ counterLock' = r => pc'[r] \in InTransaction \ {"number"}
           /\ \A s \in Slots :
                 /\ slotLock'[s] \in {slotLock[s], r, Nobody}
                 /\ slotLock'[s] = r => pc'[r] \in UnderSlotLock /\ job'[r].slot = s
<1> USE RequestsAssumption
    DEF TablesInv, TypeOK, HoldersAreUnderWay, UnderSlotLock, InTransaction, Goto
<1>1. CASE Arrive(r)
  BY <1>1 DEF Arrive, Register, Enrol, ReEnrol, Start, locks
<1>2. CASE Abort(r)
  BY <1>2 DEF Abort, ReleaseLocks
<1>3. CASE CheckEnrolment(r) \/ CheckWaitlist(r) \/ CheckOverlap(r)
  BY <1>3 DEF CheckEnrolment, CheckWaitlist, CheckOverlap, Check, locks
<1>4. CASE TakeNumber(r)
  BY <1>4 DEF TakeNumber
<1>5. CASE LockSlot(r)
  BY <1>5 DEF LockSlot
<1>6. CASE ReadCapacity(r) \/ CountOccupied(r) \/ ReadLastPosition(r)
  BY <1>6 DEF ReadCapacity, CountOccupied, ReadLastPosition, Read, locks
<1>7. CASE CommitPerson(r) \/ Seat(r) \/ AppendToWaitlist(r)
  BY <1>7 DEF CommitPerson, Seat, AppendToWaitlist, Commit, ReleaseLocks
<1>8. QED
  BY <1>1, <1>2, <1>3, <1>4, <1>5, <1>6, <1>7 DEF Proceed

(* So a held lock stays with a request that will free it. *)
LEMMA HoldersOfStep ==
    ASSUME TablesInv, HoldersAreUnderWay, NEW r \in Requests,
           Arrive(r) \/ Proceed(r) \/ Abort(r)
    PROVE  HoldersAreUnderWay'
<1>1. \A q \in Requests \ {r} : pc'[q] = pc[q] /\ job'[q] = job[q]
  BY OtherRequests
<1>2. counterLock' # Nobody => pc'[counterLock'] \in InTransaction \ {"number"}
  BY <1>1, LocksOfStep DEF TablesInv, TypeOK, HoldersAreUnderWay
<1>3. ASSUME NEW s \in Slots, slotLock'[s] # Nobody
      PROVE  pc'[slotLock'[s]] \in UnderSlotLock /\ job'[slotLock'[s]].slot = s
  BY <1>1, <1>3, LocksOfStep DEF TablesInv, TypeOK, HoldersAreUnderWay
<1>4. QED
  BY <1>2, <1>3 DEF HoldersAreUnderWay

(* Of the requests under way one waits for nobody: if the first is blocked *)
(* by the holder of the counter row, and that one by the holder of a slot, *)
(* the last asks for nothing.                                              *)
LEMMA HoldersGoOn == TablesInv /\ HoldersAreUnderWay => NoCircularWait
<1> SUFFICES ASSUME TablesInv, HoldersAreUnderWay, NEW r \in UnderWay
             PROVE  \E q \in UnderWay : ~Waits(q)
  BY DEF NoCircularWait
<1>1. ASSUME NEW q \in UnderWay, pc[q] = "lock", Waits(q)
      PROVE  \E h \in UnderWay : ~Waits(h)
  <2>1. job[q].slot \in Slots /\ slotLock[job[q].slot] # Nobody
    BY <1>1 DEF Waits, UnderWay, TablesInv, LockDiscipline
  <2>2. PICK h \in Requests : h = slotLock[job[q].slot]
    BY <2>1 DEF TablesInv, TypeOK
  <2>3. pc[h] \in UnderSlotLock
    BY <2>1, <2>2 DEF HoldersAreUnderWay
  <2>4. QED
    BY <2>2, <2>3 DEF UnderWay, Waits, UnderSlotLock, InTransaction
<1>2. CASE Waits(r) /\ pc[r] = "number"
  <2>1. PICK h \in Requests : h = counterLock /\ pc[h] \in InTransaction \ {"number"}
    BY <1>2 DEF Waits, HoldersAreUnderWay, TablesInv, TypeOK
  <2>2. h \in UnderWay /\ (Waits(h) => pc[h] = "lock")
    BY <2>1 DEF UnderWay, Waits
  <2>3. QED
    BY <1>1, <2>2
<1>3. QED
  BY <1>1, <1>2 DEF Waits

(* enrolment-allocator.service.ts 53: a registration that holds the counter*)
(* row while it waits for an advisory lock, and enrolments that hold one,  *)
(* never wait for one another in a circle, however many there are.         *)
THEOREM NobodyWaitsInACircle == Spec => []NoCircularWait
<1>1. Init => HoldersAreUnderWay
  BY DEF Init, HoldersAreUnderWay
<1>2. SeatInv /\ HoldersAreUnderWay /\ [Next]_vars => HoldersAreUnderWay'
  <2> SUFFICES ASSUME SeatInv, HoldersAreUnderWay, [Next]_vars PROVE HoldersAreUnderWay'
    OBVIOUS
  <2>1. ASSUME UNCHANGED vars \/ \E l \in Locations, c \in 0 .. MaxCapacity : UpdateCapacity(l, c)
        PROVE  HoldersAreUnderWay'
    BY <2>1 DEF UpdateCapacity, vars, locks, HoldersAreUnderWay
  <2>2. QED
    BY <2>1, SeatTables, HoldersOfStep DEF Next
<1>3. SeatInv /\ HoldersAreUnderWay => NoCircularWait
  BY SeatTables, HoldersGoOn
<1>4. QED
  BY <1>1, <1>2, <1>3, SeatInvariant, PTL DEF Spec

-----------------------------------------------------------------------------
(* The allocator implements the seat ledger *)

(* Seats may be counted by the ids of the requests that took them. *)
LEMMA SeatIds ==
    ASSUME TablesInv, NEW s
    PROVE  Cardinality({e.id : e \in Occupants(s)}) = Cardinality(Occupants(s))
<1> DEFINE ids == {e.id : e \in Occupants(s)}
           f == [e \in Occupants(s) |-> e.id]
<1>1. \A d, e \in Occupants(s) : d.id = e.id => d = e
  BY DEF TablesInv, RowsOfSettled, Occupants
<1>2. f \in Surjection(Occupants(s), ids) /\ f \in Injection(Occupants(s), ids)
  BY <1>1 DEF Surjection, Injection, IsInjective
<1>3. IsFiniteSet(Occupants(s))
  BY FiniteQueries DEF TablesInv
<1>4. QED
  BY <1>2, <1>3, FS_Surjection

(* A request under the slot lock has not been answered before. *)
LEMMA NewClaim ==
    ASSUME TablesInv, NEW r \in Requests, pc[r] \notin Settled
    PROVE  \A s \in Slots : /\ r \notin {e.id : e \in Occupants(s)}
                           /\ r \notin {w.id : w \in Active(s)}
BY DEF TablesInv, RowsOfSettled, Occupants, Active

(* The empty tables map to the empty ledger. *)
LEMMA LedgerInit == Init => Ledger!Init
<1> SUFFICES ASSUME Init PROVE Ledger!Init
  OBVIOUS
<1>1. high \in [Locations -> Nat] /\ low = high
  BY InitType DEF TypeOK, Init
<1>2. \A s \in Slots : Occupants(s) = {} /\ Active(s) = {}
  BY DEF Init, Occupants, Active
<1>3. QED
  BY <1>1, <1>2 DEF Ledger!Init

(* Both modules mean the same by Cardinality. *)
LEMMA SameCardinality == \A S : Ledger!Cardinality(S) = Cardinality(S)
BY DEF Ledger!Cardinality, Cardinality

(* A step maps to a step of the ledger or to none. *)
LEMMA LedgerNext == SeatInv /\ [Next]_vars => [Ledger!Next]_(Ledger!vars)
<1> SUFFICES ASSUME SeatInv, [Next]_vars PROVE [Ledger!Next]_(Ledger!vars)
  OBVIOUS
<1> DEFINE seats == [s \in Slots |-> {e.id : e \in Occupants(s)}]
           waiting == [s \in Slots |-> {w.id : w \in Active(s)}]
           before(s) == {pair \in Requests \X Requests : \E v, w \in Active(s) :
                            pair = <<v.id, w.id>> /\ v.position < w.position}
           ahead == [s \in Slots |-> before(s)]
<1>1. ASSUME NEW r \in Requests, Seat(r)
      PROVE  \E t \in Slots : Ledger!Grant(t, r)
  <2>0. PICK t \in Slots : t = job[r].slot
    BY <1>1 DEF Seat, UnderSlotLock, SeatInv, LockDiscipline
  <2>1. t = job[r].slot /\ LocationOf(t) \in Locations
    BY <2>0, SlotLocation
  <2>2. Ledger!Unanswered(r)
    BY SeatTables, <1>1, NewClaim DEF Ledger!Unanswered, Seat, Settled
  <2>3. Ledger!HasFreeSeat(t)
    <3>1. Cardinality(Occupants(t)) < high[LocationOf(t)]
      BY <1>1, <2>1, FiniteQueries DEF Seat, SeatInv, ReadsStand, TypeOK
    <3>2. QED
      BY SeatTables, <2>1, <3>1, SeatIds, SameCardinality DEF Ledger!HasFreeSeat
  <2>4. /\ enrolments' = enrolments \cup
              {[id |-> r, participant |-> job[r].participant, slot |-> t]}
        /\ UNCHANGED <<waitlist, deletedRows, high, low>>
    BY <1>1, <2>1 DEF Seat, InsertEnrolment, Commit, limits
  <2>5. seats' = [seats EXCEPT ![t] = @ \cup {r}]
    <3>1. PICK new : new = [id |-> r, participant |-> job[r].participant, slot |-> t]
      OBVIOUS
    <3>2. new.id = r /\ new.slot = t
      BY <3>1
    <3>3. \A s \in Slots : Occupants(s)' =
                IF s = t THEN Occupants(s) \cup {new} ELSE Occupants(s)
      BY <2>4, <3>1, <3>2 DEF Occupants
    <3>4. {e.id : e \in Occupants(t)'} = {e.id : e \in Occupants(t)} \cup {r}
      BY <3>2, <3>3
    <3>5. \A s \in Slots \ {t} : {e.id : e \in Occupants(s)'} = {e.id : e \in Occupants(s)}
      BY <3>3
    <3>6. QED
      BY <3>4, <3>5
  <2>6. UNCHANGED <<waiting, ahead>>
    BY <2>4 DEF Active
  <2>7. QED
    BY <2>1, <2>2, <2>3, <2>4, <2>5, <2>6 DEF Ledger!Grant
<1>2. ASSUME NEW r \in Requests, AppendToWaitlist(r)
      PROVE  \E t \in Slots : Ledger!Join(t, r)
  <2>0. PICK t \in Slots : t = job[r].slot
    BY <1>2 DEF AppendToWaitlist, UnderSlotLock, SeatInv, LockDiscipline
  <2>1. t = job[r].slot /\ LocationOf(t) \in Locations
    BY <2>0, SlotLocation
  <2>r. PICK new : new = [id |-> r, participant |-> job[r].participant, slot |-> t,
                          position |-> myLast[r] + 1]
    OBVIOUS
  <2>2. Ledger!Unanswered(r)
    BY SeatTables, <1>2, NewClaim DEF Ledger!Unanswered, AppendToWaitlist, Settled
  <2>3. Ledger!MayBeFull(t)
    <3>1. Cardinality(Occupants(t)) >= low[LocationOf(t)]
      BY <1>2, <2>1, FiniteQueries DEF AppendToWaitlist, SeatInv, ReadsStand, TypeOK
    <3>2. QED
      BY SeatTables, <2>1, <3>1, SeatIds, SameCardinality DEF Ledger!MayBeFull
  <2>4. /\ \A s \in Slots : Active(s)' = IF s = t THEN Active(s) \cup {new} ELSE Active(s)
        /\ UNCHANGED <<enrolments, high, low>>
    BY SeatTables, <1>2, <2>1, <2>r, AppendCounts DEF AppendToWaitlist, Commit, limits
  <2>5. \A w \in Active(t) : w.position < new.position /\ w.position \in Nat
    <3>1. \A w \in Active(t) : w.position \in 1 .. Cardinality(Active(t))
      BY <2>1 DEF SeatInv, PositionsContiguous
    <3>2. new.position = Cardinality(Active(t)) + 1
      BY <1>2, <2>1, <2>r DEF AppendToWaitlist, SeatInv, ReadsStand
    <3>3. QED
      BY <3>1, <3>2, FiniteQueries DEF SeatInv
  <2>6. waiting' = [waiting EXCEPT ![t] = @ \cup {r}]
    <3>1. {w.id : w \in Active(t)'} = {w.id : w \in Active(t)} \cup {r}
      BY <2>4, <2>r
    <3>2. \A s \in Slots \ {t} : {w.id : w \in Active(s)'} = {w.id : w \in Active(s)}
      BY <2>4
    <3>3. QED
      BY <3>1, <3>2
  <2>7. before(t)' = before(t) \cup (waiting[t] \X {r})
    <3>1. Active(t)' = Active(t) \cup {new} /\ new.id = r
      BY <2>4, <2>r
    <3>2. \A w \in Active(t) : w.id \in Requests /\ w.position \in Nat
      BY DEF Active, SeatInv, TypeOK, WaitlistRows
    <3>3. new.position \in Nat
      BY <2>r DEF SeatInv, TypeOK
    <3>4. \A v, w \in Active(t)' : v.position < w.position =>
              v \in Active(t) /\ (w \in Active(t) \/ w = new)
      BY <2>5, <3>1, <3>2, <3>3
    <3>5. waiting[t] = {w.id : w \in Active(t)}
      OBVIOUS
    <3> HIDE DEF waiting
    <3>6. ASSUME NEW pair
          PROVE  pair \in before(t)' <=> pair \in before(t) \cup (waiting[t] \X {r})
      BY <2>5, <3>1, <3>2, <3>4, <3>5
    <3>7. QED
      BY <3>6
  <2>8. ahead' = [ahead EXCEPT ![t] = @ \cup (waiting[t] \X {r})]
    <3>1. \A s \in Slots \ {t} : before(s)' = before(s)
      BY <2>4
    <3> HIDE DEF before, waiting
    <3>2. ahead' = [s \in Slots |-> before(s)']
      OBVIOUS
    <3>3. ASSUME NEW s \in Slots
          PROVE  before(s)' = IF s = t THEN before(s) \cup (waiting[t] \X {r}) ELSE before(s)
      BY <2>7, <3>1
    <3>4. QED
      BY <3>2, <3>3
  <2>9. UNCHANGED seats
    BY <2>4 DEF Occupants
  <2>10. QED
    BY <2>1, <2>2, <2>3, <2>4, <2>6, <2>8, <2>9 DEF Ledger!Join
<1>3. ASSUME NEW l \in Locations, NEW c \in 0 .. MaxCapacity, UpdateCapacity(l, c)
      PROVE  Ledger!Resize(l)
  <2>1. UNCHANGED <<seats, waiting, ahead>>
    BY <1>3 DEF UpdateCapacity, tables, Occupants, Active
  <2>2. /\ high' \in [Locations -> Nat] /\ low' \in [Locations -> Nat]
        /\ high'[l] >= high[l] /\ low'[l] <= low[l]
        /\ \A k \in Locations \ {l} : high'[k] = high[k] /\ low'[k] = low[k]
    BY <1>3, CapacityAssumption DEF UpdateCapacity, SeatInv, TypeOK
  <2>3. QED
    BY <2>1, <2>2 DEF Ledger!Resize
<1>4. ASSUME UNCHANGED <<enrolments, waitlist, deletedRows, high, low>>
      PROVE  UNCHANGED Ledger!vars
  BY <1>4 DEF Ledger!vars, Occupants, Active
<1>5. ASSUME NEW r \in Requests, Arrive(r) \/ Proceed(r) \/ Abort(r),
             ~Seat(r), ~AppendToWaitlist(r)
      PROVE  UNCHANGED Ledger!vars
  BY <1>4, <1>5, TableWriters DEF limits
<1>6. QED
  BY <1>1, <1>2, <1>3, <1>4, <1>5 DEF Next, vars, limits, tables, Ledger!Next

(* Every behaviour of the allocator, seen through its committed rows, is a *)
(* behaviour of the atomic seat ledger.                                    *)
THEOREM AllocatorImplementsLedger == Spec => ImplementsLedger
BY LedgerInit, LedgerNext, SeatInvariant, PTL DEF Spec, ImplementsLedger, Ledger!Spec

-----------------------------------------------------------------------------
(* The waitlist lifecycle *)

(* Rows are withdrawn without the lock, so neither positions nor the count *)
(* of occupants at an append are what the allocator alone would have them; *)
(* what a call has read under the lock still bounds them.                  *)
RowIdsDistinct == \A v, w \in waitlist : v.id = w.id => v = w

(* What a transaction has read under its slot's lock still bounds the slot:*)
(* the capacity it read is one the location has had, there is room when it *)
(* is about to seat, and no active row is beyond the last position it read *)
(* (enrolment-allocator.service.ts 71-144).                                *)
CountsStand(q) ==
    LET slot == job[q].slot IN
    /\ pc[q] \in {"count", "seat"} => myCapacity[q] <= high[LocationOf(slot)]
    /\ pc[q] = "seat" => Cardinality(Occupants(slot)) < myCapacity[q]
    /\ pc[q] = "append" => \A w \in Active(slot) : w.position <= myLast[q]

(* A runner that is past its first look has a row, and a promotion has a   *)
(* slot.                                                                   *)
Knowing == {"recheck", "transaction", "withdraw", "send", "issue"}
RunnerOK(a) ==
    /\ at[a] \in Knowing => row[a] \in RowIds
    /\ at[a] \in Promoting => goal[a] \in Slots

(* An acceptance re-reads its row before its transaction begins            *)
(* (waitlist.service.ts 168-186).                                          *)
CallOK(r) == at[r] = "recheck" => pc[r] = "idle"

(* The inductive invariant of the waitlist lifecycle. *)
WaitInv ==
    /\ TablesInv
    /\ LifecycleTypeOK
    /\ RowIdsDistinct
    /\ batch \subseteq RowIds
    /\ \A a \in Runners : RunnerOK(a)
    /\ \A r \in Requests : CallOK(r)
    /\ \A r \in Requests : CountsStand(r)
    /\ NeverOverbooked
    /\ PositionsDistinct
    /\ NobodyIsPassedOver

(* The allocator's tables change by a step of the allocator, or by one of  *)
(* four of a call on the waitlist.                                         *)
LEMMA LifecycleSteps ==
    ASSUME [LifecycleNext]_allVars
    PROVE  \/ [Next]_vars
           \/ \E r \in Requests : Accept(r) \/ NoSeat(r) \/ Recheck(r) \/ Withdraw(r)
<1>1. ASSUME NEW r \in Requests, EnrolArrives(r) \/ EnrolProceeds(r) \/ AbortTransaction(r)
      PROVE  Next
  BY <1>1 DEF EnrolArrives, EnrolProceeds, AbortTransaction, Next
<1>2. ASSUME NEW r \in Requests, Allocate(r)
      PROVE  Next
  BY <1>2 DEF Allocate, Next, Proceed
<1>3. ASSUME NEW r \in Requests, CallArrives(r) \/ LosePromotion(r) \/ IssueSentOffer(r)
      PROVE  UNCHANGED vars
  BY <1>3 DEF CallArrives, AcceptOffer, DeclineOffer, FollowLink, StaffWithdraw, SendOffer,
              Call, LosePromotion, IssueSentOffer, PromotionStep
<1>4. ASSUME NEW a, TryPromoteNext(a)
      PROVE  UNCHANGED vars
  BY <1>4 DEF TryPromoteNext, ReadVacancy, CountEnrolled, CheckOutstanding, PickCandidate,
              IssueOffer, PromotionStep
<1>5. ASSUME NEW a \in Crons, CronStep(a)
      PROVE  UNCHANGED vars
  BY <1>4, <1>5 DEF CronStep, FindExpired, ExpireBatch, FindVacancies, NextSlot, EndRun
<1>6. ASSUME NEW l \in Locations, NEW c \in 0 .. MaxCapacity, EditCapacity(l, c)
      PROVE  Next
  BY <1>6 DEF EditCapacity, Next
<1>7. Tick \/ UNCHANGED allVars => UNCHANGED vars
  BY DEF Tick, allVars
<1>8. QED
  BY <1>1, <1>2, <1>3, <1>4, <1>5, <1>6, <1>7 DEF LifecycleNext, CallProceeds

(* Rows are added and marked deleted, never removed. *)
LEMMA RowsStay ==
    ASSUME [Next]_vars \/ \E r \in Requests : Accept(r) \/ NoSeat(r) \/ Recheck(r) \/ Withdraw(r)
    PROVE  /\ enrolments \subseteq enrolments' /\ waitlist \subseteq waitlist'
           /\ deletedRows \subseteq deletedRows'
<1>1. ASSUME NEW r \in Requests, Arrive(r) \/ Proceed(r) \/ Abort(r)
      PROVE  /\ enrolments \subseteq enrolments' /\ waitlist \subseteq waitlist'
             /\ deletedRows \subseteq deletedRows'
  BY <1>1, TableWriters DEF Seat, InsertEnrolment, AppendToWaitlist
<1>2. ASSUME NEW r \in Requests, Accept(r) \/ NoSeat(r) \/ Recheck(r) \/ Withdraw(r)
      PROVE  /\ enrolments \subseteq enrolments' /\ waitlist \subseteq waitlist'
             /\ deletedRows \subseteq deletedRows'
  BY <1>2 DEF Accept, InsertEnrolment, NoSeat, Recheck, Withdraw, tables
<1>3. QED
  BY <1>1, <1>2 DEF Next, UpdateCapacity, vars, tables

(* The row a call works on, by its id. *)
LEMMA SlotOfRowIs ==
    ASSUME RowIdsDistinct, NEW w \in waitlist
    PROVE  SlotOfRow(w.id) = w.slot
BY DEF SlotOfRow, RowIdsDistinct

(* What is known of the row a runner works on. *)
LEMMA RowFacts ==
    ASSUME WaitInv, NEW id \in RowIds
    PROVE  /\ id \in Requests /\ pc[id] \in Settled
           /\ SlotOfRow(id) \in Slots /\ job[id].participant \in Participants
<1>1. PICK w \in waitlist : w.id = id
  BY DEF RowIds
<1>2. SlotOfRow(id) = w.slot
  BY <1>1, SlotOfRowIs DEF WaitInv
<1>3. w.id \in Requests /\ w.slot \in Slots
  BY DEF WaitInv, TablesInv, TypeOK, WaitlistRows
<1>4. pc[id] \in Settled
  BY <1>1 DEF WaitInv, TablesInv, RowsOfSettled
<1>5. QED
  BY <1>1, <1>2, <1>3, <1>4 DEF WaitInv, TablesInv, LockDiscipline, Settled

(* What the calls on the waitlist do to requests and locks. *)
LEMMA WaitlistCalls ==
    ASSUME WaitInv, NEW r \in Requests, Accept(r) \/ NoSeat(r) \/ Recheck(r) \/ Withdraw(r),
           NEW q \in Requests, q # r
    PROVE  /\ pc'[q] = pc[q] /\ job'[q] = job[q]
           /\ \A s \in Slots : slotLock[s] = q => slotLock'[s] = q
BY RequestsAssumption
DEF WaitInv, TablesInv, TypeOK, Accept, NoSeat, Recheck, Withdraw, ReleaseLocks, Goto, locks

(* A call on the waitlist writes one request's place and no one else's. *)
LEMMA WaitlistCallsKeep ==
    ASSUME NEW r, Accept(r) \/ NoSeat(r) \/ Recheck(r) \/ Withdraw(r)
    PROVE  /\ UNCHANGED <<limits, waitlist, reads, counter, number>>
           /\ Accept(r) \/ UNCHANGED enrolments
           /\ Accept(r) \/ Withdraw(r) \/ UNCHANGED deletedRows
BY DEF Accept, NoSeat, Recheck, Withdraw, tables, limits, reads

(* Accepting a row, finding no seat for it, re-reading it and withdrawing  *)
(* it keep the tables well formed (waitlist.service.ts 168-268).           *)
LEMMA WaitlistTables ==
    ASSUME WaitInv, NEW r \in Requests, Accept(r) \/ NoSeat(r) \/ Recheck(r) \/ Withdraw(r)
    PROVE  TablesInv'
<1> USE DEF TablesInv
<1>0. TablesInv /\ r \in Runners
  BY DEF WaitInv, Runners
<1>1. CASE Accept(r)
  <2>1. /\ pc[r] = "seat" /\ job[r].participant \in Participants /\ job[r].slot \in Slots
        /\ row[r] \in RowIds
    BY <1>0, <1>1 DEF Accept, LockDiscipline, UnderSlotLock, WaitInv, RunnerOK, Knowing
  <2>2. row[r] \in Requests /\ pc[row[r]] \in Settled
    BY <2>1, RowFacts
  <2>3. pc' = [pc EXCEPT ![r] = "enrolled"] /\ job' = job
    BY <1>1 DEF Accept, Goto
  <2>4. TypeOK'
    BY <1>0, <1>1, <2>1, <2>2
    DEF Accept, InsertEnrolment, ReleaseLocks, Goto, TypeOK, PCs, Settled, Enrolments,
        limits, reads
  <2>5. FiniteTables'
    BY <1>0, <1>1, FS_AddElement DEF Accept, InsertEnrolment, FiniteTables
  <2>6. CapacityInRange'
    BY <1>0, <1>1 DEF Accept, limits, CapacityInRange
  <2>7. LockDiscipline'
    <3>1. \A q \in Requests : pc'[q] = IF q = r THEN "enrolled" ELSE pc[q]
      BY <1>0, <2>3 DEF TypeOK
    <3>2. \A q \in Requests : q # r => \A s \in Slots : slotLock[s] = q => slotLock'[s] = q
      BY <1>1, WaitlistCalls
    <3>3. QED
      BY <1>0, <2>1, <2>3, <3>1, <3>2
      DEF LockDiscipline, UnderSlotLock, Prechecks
  <2>8. RowsOfSettled'
    <3>1. \A q \in Requests : pc[q] \in Settled => pc'[q] \in Settled
      BY <1>0, <2>3 DEF TypeOK, Settled
    <3>2. pc'[r] \in Settled /\ pc[r] \notin Settled
      BY <1>0, <2>1, <2>3 DEF TypeOK, Settled
    <3>3. /\ \A e \in enrolments : e.id \in Requests /\ e.id # r
          /\ \A w \in waitlist : w.id \in Requests
      BY <1>0, <3>2 DEF TypeOK, Enrolments, WaitlistRows, RowsOfSettled
    <3>4. /\ enrolments' = enrolments \cup {[id |-> r, participant |-> job[r].participant,
                                             slot |-> job[r].slot]}
          /\ waitlist' = waitlist /\ deletedRows' = deletedRows \cup {row[r]}
      BY <1>1 DEF Accept, InsertEnrolment
    <3>5. deletedRows \subseteq Requests
      BY <1>0 DEF TypeOK
    <3>6. QED
      BY <1>0, <2>2, <3>1, <3>2, <3>3, <3>4, <3>5 DEF RowsOfSettled
  <2>9. QED
    BY <2>4, <2>5, <2>6, <2>7, <2>8
<1>2. ASSUME NEW label \in PCs, pc' = [pc EXCEPT ![r] = label],
             pc[r] \notin Settled,
             label # "idle" => job'[r].participant \in Participants,
             label \in UnderSlotLock \cup Prechecks => FALSE,
             label = "lock" => job'[r].slot \in Slots,
             UNCHANGED <<limits, tables, reads>>,
             TypeOK',
             NoSeat(r) \/ Recheck(r)
      PROVE  TablesInv'
  <2>1. \A q \in Requests : pc'[q] = IF q = r THEN label ELSE pc[q]
    BY <1>0, <1>2 DEF TypeOK
  <2>2. \A q \in Requests : q # r => job'[q] = job[q]
                                     /\ \A s \in Slots : slotLock[s] = q => slotLock'[s] = q
    BY <1>2, WaitlistCalls
  <2>3. LockDiscipline'
    <3> SUFFICES ASSUME NEW q \in Requests
                 PROVE  /\ pc'[q] # "idle" => job'[q].participant \in Participants
                        /\ pc'[q] \in UnderSlotLock \cup Prechecks \cup {"lock"} =>
                              job'[q].slot \in Slots
                        /\ pc'[q] \in UnderSlotLock => slotLock'[job'[q].slot] = q
      BY DEF LockDiscipline
    <3>1. CASE q = r
      BY <1>2, <2>1, <3>1
    <3>2. CASE q # r
      BY <1>0, <2>1, <2>2, <3>2 DEF LockDiscipline
    <3>3. QED
      BY <3>1, <3>2
  <2>4. FiniteTables' /\ CapacityInRange'
    BY <1>0, <1>2 DEF FiniteTables, CapacityInRange, tables, limits
  <2>5. RowsOfSettled'
    <3>1. \A q \in Requests : pc[q] \in Settled => pc'[q] \in Settled
      BY <1>2, <2>1
    <3>2. /\ \A e \in enrolments : e.id \in Requests /\ \A w \in waitlist : w.id \in Requests
          /\ deletedRows \subseteq Requests
      BY <1>0 DEF TypeOK, Enrolments, WaitlistRows
    <3>3. QED
      BY <1>0, <1>2, <3>1, <3>2 DEF RowsOfSettled, tables, TypeOK, Enrolments, WaitlistRows
  <2>6. QED
    BY <1>2, <2>3, <2>4, <2>5
<1>3. CASE NoSeat(r)
  <2>1. TypeOK'
    BY <1>0, <1>3 DEF NoSeat, ReleaseLocks, Goto, TypeOK, PCs, Settled, limits, tables, reads
  <2>2. /\ pc' = [pc EXCEPT ![r] = "refused"] /\ pc[r] = "append" /\ job' = job
        /\ UNCHANGED <<limits, tables, reads>>
    BY <1>3 DEF NoSeat, Goto
  <2>3. job[r].participant \in Participants
    BY <1>0, <2>2 DEF LockDiscipline
  <2>4. QED
    BY <1>2, <1>3, <2>1, <2>2, <2>3 DEF PCs, Settled, UnderSlotLock, Prechecks
<1>4. CASE Recheck(r)
  <2>0. /\ row[r] \in RowIds /\ pc[r] = "idle"
    BY <1>0, <1>4 DEF Recheck, WaitInv, RunnerOK, CallOK, Knowing
  <2>1. SlotOfRow(row[r]) \in Slots /\ job[row[r]].participant \in Participants
    BY <2>0, RowFacts
  <2>2. UNCHANGED <<limits, tables, locks, reads>>
    BY <1>4 DEF Recheck
  <2>3. CASE UNCHANGED <<pc, job>>
    BY <1>0, <2>2, <2>3
    DEF limits, tables, locks, reads, TypeOK, FiniteTables, CapacityInRange, LockDiscipline,
        RowsOfSettled
  <2>4. CASE /\ pc' = [pc EXCEPT ![r] = "lock"]
             /\ job' = [job EXCEPT ![r] = [endpoint |-> "acceptOffer",
                                           participant |-> job[row[r]].participant,
                                           slot |-> SlotOfRow(row[r]),
                                           previous |-> Nobody,
                                           allowOverlap |-> FALSE]]
    <3>1. TypeOK'
      BY <1>0, <2>1, <2>2, <2>4
      DEF TypeOK, PCs, InTransaction, Jobs, AllEndpoints, limits, tables, locks, reads
    <3>2. job'[r].participant \in Participants /\ job'[r].slot \in Slots
      BY <1>0, <2>1, <2>4 DEF TypeOK
    <3>3. QED
      BY <1>2, <1>4, <2>0, <2>2, <2>4, <3>1, <3>2
      DEF PCs, InTransaction, Settled, UnderSlotLock, Prechecks
  <2>5. QED
    BY <1>4, <2>3, <2>4 DEF Recheck, Goto
<1>5. CASE Withdraw(r)
  <2>1. row[r] \in RowIds
    BY <1>0, <1>5 DEF Withdraw, WaitInv, RunnerOK, Knowing
  <2>2. row[r] \in Requests /\ pc[row[r]] \in Settled
    BY <2>1, RowFacts
  <2>3. QED
    BY <1>0, <1>5, <2>2
    DEF Withdraw, limits, locks, reads, TypeOK, FiniteTables, CapacityInRange,
        LockDiscipline, RowsOfSettled
<1>6. QED
  BY <1>1, <1>3, <1>4, <1>5

(* So does every step of the lifecycle. *)
LEMMA WaitTables ==
    ASSUME WaitInv, [LifecycleNext]_allVars
    PROVE  TablesInv'
<1>1. [Next]_vars => TablesInv'
  BY NextType, NextFiniteTables, NextCapacityInRange, NextLockDiscipline, NextRowsOfSettled
  DEF WaitInv, TablesInv
<1>2. QED
  BY <1>1, LifecycleSteps, WaitlistTables

(* A row is appended for a request that has none. *)
LEMMA WaitRowIds ==
    ASSUME WaitInv, [LifecycleNext]_allVars
    PROVE  RowIdsDistinct'
<1>1. ASSUME NEW r \in Requests, AppendToWaitlist(r)
      PROVE  RowIdsDistinct'
  <2>1. \A w \in waitlist : w.id # r
    BY <1>1 DEF AppendToWaitlist, WaitInv, TablesInv, RowsOfSettled, Settled
  <2>2. \A w \in waitlist' : w \in waitlist \/ w = [id |-> r, participant |-> job[r].participant,
                                                    slot |-> job[r].slot, position |-> myLast[r] + 1]
    BY <1>1 DEF AppendToWaitlist
  <2>3. QED
    BY <2>1, <2>2 DEF WaitInv, RowIdsDistinct
<1>2. CASE UNCHANGED waitlist
  BY <1>2 DEF WaitInv, RowIdsDistinct
<1>3. [Next]_vars => UNCHANGED waitlist \/ \E r \in Requests : AppendToWaitlist(r)
  BY TableWriters DEF Next, UpdateCapacity, vars, tables
<1>4. QED
  BY <1>1, <1>2, <1>3, LifecycleSteps, WaitlistCallsKeep

(* While a request holds the lock of a slot, others may mark rows of it    *)
(* deleted, but add none.                                                  *)
LEMMA WaitLockProtects ==
    ASSUME WaitInv, NEW r \in Requests,
           \/ Arrive(r) \/ Proceed(r) \/ Abort(r)
           \/ Accept(r) \/ NoSeat(r) \/ Recheck(r) \/ Withdraw(r),
           NEW s \in Slots, slotLock[s] # r
    PROVE  Occupants(s)' = Occupants(s) /\ Active(s)' \subseteq Active(s)
<1>0. TablesInv
  BY DEF WaitInv
<1>1. CASE Arrive(r) \/ Proceed(r) \/ Abort(r)
  BY <1>0, <1>1, LockProtects
<1>2. CASE Accept(r) \/ NoSeat(r) \/ Recheck(r) \/ Withdraw(r)
  <2>1. Active(s)' \subseteq Active(s)
    <3>1. waitlist' = waitlist /\ deletedRows \subseteq deletedRows'
      BY <1>2, WaitlistCallsKeep, RowsStay
    <3>2. QED
      BY <3>1 DEF Active
  <2>2. CASE Accept(r)
    <3>1. pc[r] = "seat" /\ InsertEnrolment(r)
      BY <2>2 DEF Accept
    <3>2. job[r].slot # s
      BY <1>0, <3>1 DEF TablesInv, LockDiscipline, UnderSlotLock
    <3>3. QED
      BY <1>0, <2>1, <3>1, <3>2, SeatCounts
  <2>3. CASE ~Accept(r)
    BY <1>2, <2>1, <2>3, WaitlistCallsKeep DEF Occupants
  <2>4. QED
    BY <2>2, <2>3
<1>3. QED
  BY <1>1, <1>2

(* What was read under the lock still bounds the slot after any step: seats*)
(* are added under the lock only, and a withdrawal, which takes no lock,   *)
(* only lowers counts (waitlist.service.ts 234-245).                       *)
LEMMA WaitCountsStand ==
    ASSUME WaitInv, [LifecycleNext]_allVars, NEW q \in Requests
    PROVE  CountsStand(q)'
<1>0. /\ TablesInv /\ TypeOK /\ CountsStand(q)
      /\ pc[q] \in UnderSlotLock => job[q].slot \in Slots /\ slotLock[job[q].slot] = q
  BY DEF WaitInv, TablesInv, LockDiscipline
<1>1. ASSUME NEW r \in Requests, r # q,
             \/ Arrive(r) \/ Proceed(r) \/ Abort(r)
             \/ Accept(r) \/ NoSeat(r) \/ Recheck(r) \/ Withdraw(r)
      PROVE  CountsStand(q)'
  <2>1. /\ pc'[q] = pc[q] /\ job'[q] = job[q] /\ UNCHANGED limits
        /\ myCapacity'[q] = myCapacity[q] /\ myLast'[q] = myLast[q]
    <3>1. CASE Arrive(r) \/ Proceed(r) \/ Abort(r)
      BY <1>0, <1>1, <3>1, OtherRequests, TableWriters
    <3>2. CASE Accept(r) \/ NoSeat(r) \/ Recheck(r) \/ Withdraw(r)
      BY <1>1, <3>2, WaitlistCalls, WaitlistCallsKeep DEF reads
    <3>3. QED
      BY <1>1, <3>1, <3>2
  <2>2. CASE pc[q] \in UnderSlotLock
    <3>1. PICK s \in Slots : s = job[q].slot /\ slotLock[s] # r
      BY <1>0, <1>1, <2>2
    <3>2. Occupants(s)' = Occupants(s) /\ Active(s)' \subseteq Active(s)
      BY <1>1, <3>1, WaitLockProtects
    <3>3. /\ Cardinality(Occupants(job[q].slot))' = Cardinality(Occupants(job[q].slot))
          /\ Active(job[q].slot)' \subseteq Active(job[q].slot)
      BY <2>1, <3>1, <3>2
    <3>4. QED
      BY <1>0, <2>1, <3>3 DEF limits, CountsStand
  <2>3. CASE pc[q] \notin UnderSlotLock
    BY <2>1, <2>3 DEF UnderSlotLock, CountsStand
  <2>4. QED
    BY <2>2, <2>3
<1>2. CASE Arrive(q)
  BY <1>0, <1>2 DEF Arrive, Register, Enrol, ReEnrol, Start, Goto, TypeOK, CountsStand
<1>3. CASE Abort(q)
  BY <1>0, <1>3 DEF Abort, Goto, TypeOK, CountsStand
<1>4. CASE Proceed(q)
  <2> USE <1>0 DEF Goto, TypeOK, UnderSlotLock, CountsStand
  <2>1. CASE CheckEnrolment(q) \/ CheckWaitlist(q) \/ CheckOverlap(q)
    BY <2>1 DEF CheckEnrolment, CheckWaitlist, CheckOverlap, Check
  <2>2. CASE TakeNumber(q) \/ LockSlot(q) \/ CommitPerson(q)
    BY <2>2 DEF TakeNumber, LockSlot, CommitPerson, Commit
  <2>3. CASE ReadCapacity(q)
    <3>1. job[q].slot \in Slots
      BY <2>3 DEF ReadCapacity, Read
    <3>2. LocationOf(job[q].slot) \in Locations
      BY <3>1, SlotLocation
    <3>3. capacity[LocationOf(job[q].slot)] <= high[LocationOf(job[q].slot)]
      BY <3>2 DEF TablesInv, CapacityInRange
    <3>4. QED
      BY <2>3, <3>3 DEF ReadCapacity, Read, limits
  <2>4. CASE CountOccupied(q)
    <3>1. /\ pc[q] = "count" /\ pc'[q] \in {"seat", "position"}
          /\ pc'[q] = "seat" => Cardinality(Occupants(job[q].slot)) < myCapacity[q]
          /\ UNCHANGED <<job, myCapacity, high, enrolments>>
      BY <2>4 DEF CountOccupied, Read, limits, tables
    <3>2. Cardinality(Occupants(job[q].slot))' = Cardinality(Occupants(job[q].slot))
      BY <3>1 DEF Occupants
    <3>3. QED
      BY <3>1, <3>2
  <2>5. CASE ReadLastPosition(q)
    <3>1. /\ pc'[q] = "append"
          /\ myLast'[q] = LastPosition(job[q].slot)
          /\ UNCHANGED <<job, waitlist, deletedRows>>
      BY <2>5 DEF ReadLastPosition, Read, tables
    <3>2. \A w \in Active(job[q].slot) : w.position <= LastPosition(job[q].slot)
      BY LastIsGreatest DEF TablesInv
    <3>3. Active(job[q].slot)' = Active(job[q].slot)
      BY <3>1 DEF Active
    <3>4. QED
      BY <3>1, <3>2, <3>3
  <2>6. CASE Seat(q) \/ AppendToWaitlist(q)
    BY <2>6 DEF Seat, AppendToWaitlist, Commit
  <2>7. QED
    BY <1>4, <2>1, <2>2, <2>3, <2>4, <2>5, <2>6 DEF Proceed
<1>5. CASE Accept(q) \/ NoSeat(q) \/ Recheck(q) \/ Withdraw(q)
  <2>1. CASE Withdraw(q)
    <3>1. /\ UNCHANGED <<pc, job, myCapacity, myLast, enrolments, waitlist, high>>
          /\ deletedRows \subseteq deletedRows'
      BY <2>1 DEF Withdraw, reads, limits
    <3>2. /\ Cardinality(Occupants(job[q].slot))' = Cardinality(Occupants(job[q].slot))
          /\ Active(job[q].slot)' \subseteq Active(job[q].slot)
      BY <3>1 DEF Occupants, Active
    <3>3. QED
      BY <1>0, <3>1, <3>2 DEF CountsStand
  <2>2. CASE Recheck(q) /\ UNCHANGED <<pc, job>>
    <3>1. UNCHANGED <<pc, job, myCapacity, myLast, enrolments, waitlist, deletedRows, high>>
      BY <2>2 DEF Recheck, reads, limits, tables
    <3>2. QED
      BY <1>0, <3>1 DEF CountsStand, Occupants, Active
  <2>3. Accept(q) \/ NoSeat(q) => pc'[q] \in {"enrolled", "refused"}
    BY <1>0 DEF Accept, NoSeat, Goto, TypeOK
  <2>4. Recheck(q) => pc'[q] = "lock" \/ UNCHANGED <<pc, job>>
    BY <1>0 DEF Recheck, Goto, TypeOK
  <2>5. QED
    BY <1>5, <2>1, <2>2, <2>3, <2>4 DEF CountsStand
<1>6. ASSUME NEW l \in Locations, NEW c \in 0 .. MaxCapacity, UpdateCapacity(l, c)
      PROVE  CountsStand(q)'
  <2>1. /\ UNCHANGED <<pc, job, myCapacity, myLast, enrolments, waitlist, deletedRows>>
        /\ \A k \in Locations : high'[k] >= high[k]
        /\ high' \in [Locations -> Nat]
    BY <1>0, <1>6, CapacityAssumption DEF UpdateCapacity, TypeOK, tables, reads
  <2>2. pc[q] \in UnderSlotLock => LocationOf(job[q].slot) \in Locations
    BY <1>0, SlotLocation
  <2>3. /\ Cardinality(Occupants(job[q].slot))' = Cardinality(Occupants(job[q].slot))
        /\ Active(job[q].slot)' = Active(job[q].slot)
    BY <2>1 DEF Occupants, Active
  <2>4. QED
    BY <1>0, <2>1, <2>2, <2>3 DEF UnderSlotLock, TypeOK, CountsStand
<1>7. CASE UNCHANGED vars
  BY <1>0, <1>7 DEF vars, limits, tables, reads, Occupants, Active, CountsStand
<1>8. QED
  BY <1>1, <1>2, <1>3, <1>4, <1>5, <1>6, <1>7, LifecycleSteps DEF Next

(* Seats taken through offers and at the desk together.                    *)
LEMMA WaitNeverOverbooked ==
    ASSUME WaitInv, [LifecycleNext]_allVars
    PROVE  NeverOverbooked'
<1> SUFFICES ASSUME NEW s \in Slots
             PROVE  Cardinality(Occupants(s)') <= high'[LocationOf(s)]
  BY DEF NeverOverbooked
<1>1. /\ Cardinality(Occupants(s)) <= high[LocationOf(s)]
      /\ LocationOf(s) \in Locations /\ TypeOK /\ TablesInv
      /\ Cardinality(Occupants(s)) \in Nat
  BY SlotLocation, FiniteQueries DEF WaitInv, TablesInv, NeverOverbooked
<1>2. ASSUME NEW r \in Requests, pc[r] = "seat", InsertEnrolment(r), high' = high
      PROVE  Cardinality(Occupants(s)') <= high'[LocationOf(s)]
  <2>1. CASE s = job[r].slot
    <3>1. /\ Cardinality(Occupants(s)) < myCapacity[r]
          /\ myCapacity[r] <= high[LocationOf(s)]
      BY <1>2, <2>1 DEF WaitInv, CountsStand
    <3>2. Cardinality(Occupants(s)') = Cardinality(Occupants(s)) + 1
      BY <1>1, <1>2, <2>1, SeatCounts
    <3>3. QED
      BY <1>1, <1>2, <3>1, <3>2 DEF TypeOK
  <2>2. CASE s # job[r].slot
    BY <1>1, <1>2, <2>2, SeatCounts
  <2>3. QED
    BY <2>1, <2>2
<1>3. ASSUME NEW l \in Locations, NEW c \in 0 .. MaxCapacity, UpdateCapacity(l, c)
      PROVE  Cardinality(Occupants(s)') <= high'[LocationOf(s)]
  <2>1. Occupants(s)' = Occupants(s)
    BY <1>3 DEF UpdateCapacity, tables, Occupants
  <2>2. high'[LocationOf(s)] >= high[LocationOf(s)] /\ high'[LocationOf(s)] \in Nat
    BY <1>1, <1>3, CapacityAssumption DEF UpdateCapacity, TypeOK
  <2>3. QED
    BY <1>1, <2>1, <2>2 DEF TypeOK
<1>4. CASE UNCHANGED <<enrolments, high>>
  BY <1>1, <1>4 DEF Occupants
<1>5. ASSUME NEW r \in Requests, Arrive(r) \/ Proceed(r) \/ Abort(r)
      PROVE  \/ pc[r] = "seat" /\ InsertEnrolment(r) /\ high' = high
             \/ UNCHANGED <<enrolments, high>>
  BY <1>5, TableWriters DEF Seat, limits
<1>6. ASSUME NEW r \in Requests, Accept(r) \/ NoSeat(r) \/ Recheck(r) \/ Withdraw(r)
      PROVE  \/ pc[r] = "seat" /\ InsertEnrolment(r) /\ high' = high
             \/ UNCHANGED <<enrolments, high>>
  BY <1>6, WaitlistCallsKeep DEF Accept, limits
<1>7. UNCHANGED vars => UNCHANGED <<enrolments, high>>
  BY DEF vars, tables, limits
<1>8. QED
  BY <1>2, <1>3, <1>4, <1>5, <1>6, <1>7, LifecycleSteps DEF Next

(* Where a row is appended, and what happens to the others. *)
LEMMA WaitAppend ==
    ASSUME WaitInv, [LifecycleNext]_allVars, NEW s \in Slots
    PROVE  \/ Active(s)' \subseteq Active(s)
           \/ \E r \in Requests :
                 /\ AppendToWaitlist(r)
                 /\ Active(s)' = Active(s) \cup
                       {[id |-> r, participant |-> job[r].participant, slot |-> s,
                         position |-> myLast[r] + 1]}
                 /\ \A w \in Active(s) : w.position <= myLast[r]
<1>0. TablesInv
  BY DEF WaitInv
<1>1. ASSUME NEW r \in Requests, AppendToWaitlist(r), job[r].slot = s
      PROVE  /\ Active(s)' = Active(s) \cup
                   {[id |-> r, participant |-> job[r].participant, slot |-> s,
                     position |-> myLast[r] + 1]}
             /\ \A w \in Active(s) : w.position <= myLast[r]
  <2>1. Active(s)' = Active(s) \cup
              {[id |-> r, participant |-> job[r].participant, slot |-> s,
                position |-> myLast[r] + 1]}
    BY <1>0, <1>1, AppendCounts
  <2>2. \A w \in Active(s) : w.position <= myLast[r]
    BY <1>1 DEF WaitInv, CountsStand, AppendToWaitlist
  <2>3. QED
    BY <2>1, <2>2
<1>2. ASSUME NEW r \in Requests, AppendToWaitlist(r), job[r].slot # s
      PROVE  Active(s)' = Active(s)
  BY <1>0, <1>2, AppendCounts
<1>3. CASE waitlist' = waitlist /\ deletedRows \subseteq deletedRows'
  BY <1>3 DEF Active
<1>4. \/ waitlist' = waitlist /\ deletedRows \subseteq deletedRows'
      \/ \E r \in Requests : AppendToWaitlist(r)
  <2>1. [Next]_vars => \/ waitlist' = waitlist /\ deletedRows \subseteq deletedRows'
                       \/ \E r \in Requests : AppendToWaitlist(r)
    BY TableWriters DEF Next, UpdateCapacity, vars, tables
  <2>2. QED
    BY <2>1, LifecycleSteps, RowsStay, WaitlistCallsKeep
<1>5. QED
  BY <1>1, <1>2, <1>3, <1>4

(* A row is appended after every active row of its slot, and withdrawals   *)
(* only take rows away (enrolment-allocator.service.ts 133-155).           *)
LEMMA WaitPositions ==
    ASSUME WaitInv, [LifecycleNext]_allVars
    PROVE  PositionsDistinct'
<1> SUFFICES ASSUME NEW s \in Slots
             PROVE  \A v, w \in Active(s)' : v.position = w.position => v = w
  BY DEF PositionsDistinct
<1>1. \A v, w \in Active(s) : v.position = w.position => v = w
  BY DEF WaitInv, PositionsDistinct
<1>2. ASSUME NEW r \in Requests, AppendToWaitlist(r),
             Active(s)' = Active(s) \cup
                {[id |-> r, participant |-> job[r].participant, slot |-> s,
                  position |-> myLast[r] + 1]},
             \A w \in Active(s) : w.position <= myLast[r]
      PROVE  \A v, w \in Active(s)' : v.position = w.position => v = w
  <2>1. /\ myLast[r] \in Nat
        /\ \A w \in Active(s) : w.position \in Nat
    BY DEF WaitInv, TablesInv, TypeOK, Active, WaitlistRows
  <2>2. \A w \in Active(s) : w.position # myLast[r] + 1
    BY <1>2, <2>1
  <2>3. QED
    BY <1>1, <1>2, <2>2
<1>3. QED
  BY <1>1, <1>2, WaitAppend

(* One call, cron or promotion moves, and knows what it needs to where it  *)
(* goes.                                                                   *)
Moves(a) ==
    /\ at' = [at EXCEPT ![a] = at'[a]] /\ at'[a] \in Places
    /\ row' = [row EXCEPT ![a] = row'[a]] /\ row'[a] \in Requests \cup {Nobody}
    /\ goal' = [goal EXCEPT ![a] = goal'[a]] /\ goal'[a] \in Slots \cup {NoSlot}
    /\ at'[a] \in Knowing => row'[a] \in RowIds
    /\ at'[a] \in Promoting => goal'[a] \in Slots

(* The types of what the lifecycle adds to the allocator. *)
LifecycleTables ==
    /\ now \in Nat
    /\ offer \in [Requests -> Offers]
    /\ seenCapacity \in [Runners -> Nat]
    /\ batch \subseteq RowIds
    /\ todo \in [Crons -> SUBSET Slots]

(* What is known of the variables that are written. *)
LEMMA WaitFacts ==
    ASSUME WaitInv
    PROVE  /\ LifecycleTables
           /\ at \in [Runners -> Places] /\ row \in [Runners -> Requests \cup {Nobody}]
           /\ goal \in [Runners -> Slots \cup {NoSlot}]
           /\ RowIds \subseteq Requests
           /\ Requests \subseteq Runners /\ Crons \subseteq Runners
           /\ \A a \in Runners : /\ at[a] \in Places
                                 /\ row[a] \in Requests \cup {Nobody}
                                 /\ goal[a] \in Slots \cup {NoSlot}
                                 /\ at[a] \in Knowing => row[a] \in RowIds
                                 /\ at[a] \in Promoting => goal[a] \in Slots
BY RowFacts DEF WaitInv, LifecycleTypeOK, LifecycleTables, Runners, RunnerOK

(* A call that arrives moves its own request and writes nothing else       *)
(* (waitlist.service.ts 94-137, 162-167, 225-232).                         *)
LEMMA CallMoves ==
    ASSUME WaitInv, NEW r \in Requests, CallArrives(r)
    PROVE  /\ Moves(r) /\ pc[r] = "idle" /\ at[r] = "rest"
           /\ UNCHANGED <<vars, now, offer, goal, seenCapacity, batch, todo>>
           /\ at'[r] \in {"recheck", "withdraw", "refused", "send"}
<1>1. \E call \in AllCalls, id \in RowIds, place \in {"recheck", "withdraw", "refused", "send"} :
          Call(r, call, id, place)
  BY DEF CallArrives, AcceptOffer, DeclineOffer, FollowLink, StaffWithdraw, SendOffer, AllCalls
<1>2. PICK call \in AllCalls, id \in RowIds, place \in {"recheck", "withdraw", "refused", "send"} :
          Call(r, call, id, place)
  BY <1>1
<1>3. /\ at' = [at EXCEPT ![r] = place] /\ row' = [row EXCEPT ![r] = id]
      /\ goal' = goal /\ pc[r] = "idle" /\ at[r] = "rest"
      /\ UNCHANGED <<vars, now, offer, goal, seenCapacity, batch, todo>>
  BY <1>2 DEF Call, Move
<1>4. at'[r] = place /\ row'[r] = id /\ place \in Places \ Promoting
  BY <1>3, WaitFacts DEF Places, Promoting
<1>5. QED
  BY <1>3, <1>4, WaitFacts DEF Moves

(* An offer is written to a row. *)
LEMMA OfferWritten ==
    ASSUME WaitInv, NEW id \in Requests,
           WriteOffer(id) \/ \E status \in Statuses : Answered(id, status)
    PROVE  offer' \in [Requests -> Offers]
<1>1. /\ offer \in [Requests -> Offers] /\ offer[id] \in Offers /\ now \in Nat /\ TTL \in Nat
  BY WaitFacts, TTLAssumption DEF LifecycleTables
<1>2. ASSUME NEW o \in Offers, offer' = [offer EXCEPT ![id] = o]
      PROVE  offer' \in [Requests -> Offers]
  BY <1>1, <1>2
<1>3. CASE WriteOffer(id)
  <2>1. PICK o : o = [status |-> offer[id].status, expiresAt |-> now + TTL,
                      attempts |-> offer[id].attempts + 1, token |-> offer[id].attempts + 1]
    OBVIOUS
  <2>2. offer' = [offer EXCEPT ![id] = o]
    BY <1>3, <2>1 DEF WriteOffer
  <2>3. o \in Offers
    BY <1>1, <2>1 DEF Offers
  <2>4. QED
    BY <1>2, <2>2, <2>3
<1>4. ASSUME NEW status \in Statuses, Answered(id, status)
      PROVE  offer' \in [Requests -> Offers]
  <2>1. PICK o : o = [status |-> status, token |-> 0, expiresAt |-> offer[id].expiresAt,
                      attempts |-> offer[id].attempts]
    OBVIOUS
  <2>2. offer' = [offer EXCEPT ![id] = o]
    BY <1>4, <2>1 DEF Answered
  <2>3. o \in Offers
    BY <1>1, <2>1 DEF Offers
  <2>4. QED
    BY <1>2, <2>2, <2>3
<1>5. QED
  BY <1>3, <1>4

(* A step of promoteNext moves its own runner and writes an offer at most  *)
(* (waitlist.service.ts 344-514).                                          *)
LEMMA PromotionMoves ==
    ASSUME WaitInv, NEW a \in Runners, TryPromoteNext(a)
    PROVE  /\ Moves(a) /\ UNCHANGED <<vars, now, batch, todo, goal>>
           /\ offer' \in [Requests -> Offers] /\ seenCapacity' \in [Runners -> Nat]
           /\ at[a] \in Promoting /\ at'[a] \in Promoting \cup {"done", "next"}
<1> USE WaitFacts DEF PromotionStep, Move, After, LifecycleTables
<1>0. {"count", "outstanding", "pick", "issue", "done", "next"} \subseteq Places
  BY DEF Places, Promoting
<1>1. CASE ReadVacancy(a)
  <2>1. at[a] = "capacity" /\ at' = [at EXCEPT ![a] = "count"]
        /\ UNCHANGED <<vars, now, batch, todo, goal, row, offer>>
    BY <1>1 DEF ReadVacancy
  <2>2. capacity[LocationOf(goal[a])] \in Nat
    BY <2>1, SlotLocation DEF Promoting, WaitInv, TablesInv, TypeOK
  <2>3. seenCapacity' \in [Runners -> Nat]
    BY <1>1, <2>2 DEF ReadVacancy
  <2>4. QED
    BY <1>0, <2>1, <2>3 DEF Moves, Promoting, Knowing
<1>2. CASE CountEnrolled(a)
  <2>1. at[a] = "count" /\ at' = [at EXCEPT ![a] = at'[a]]
        /\ at'[a] \in {"outstanding", "done", "next"}
        /\ UNCHANGED <<vars, now, batch, todo, goal, row, offer>>
    BY <1>2 DEF CountEnrolled
  <2>2. seenCapacity' \in [Runners -> Nat]
    BY <1>2 DEF CountEnrolled
  <2>3. QED
    BY <1>0, <2>1, <2>2 DEF Moves, Promoting, Knowing
<1>3. CASE CheckOutstanding(a)
  <2>1. at[a] = "outstanding" /\ at' = [at EXCEPT ![a] = at'[a]]
        /\ at'[a] \in {"pick", "done", "next"}
        /\ UNCHANGED <<vars, now, batch, todo, goal, row, offer, seenCapacity>>
    BY <1>3 DEF CheckOutstanding
  <2>2. QED
    BY <1>0, <2>1 DEF Moves, Promoting, Knowing
<1>4. CASE PickCandidate(a)
  <2>1. at[a] = "pick" /\ UNCHANGED <<vars, now, batch, todo, goal, offer, seenCapacity>>
    BY <1>4 DEF PickCandidate
  <2>2. CASE at' = [at EXCEPT ![a] = After(a)] /\ UNCHANGED row
    BY <1>0, <2>1, <2>2 DEF Moves, Promoting, Knowing
  <2>3. ASSUME NEW w \in Candidates(goal[a]), row' = [row EXCEPT ![a] = w.id],
               at' = [at EXCEPT ![a] = "issue"]
        PROVE  Moves(a) /\ at'[a] = "issue"
    <3>1. w.id \in RowIds
      BY DEF Candidates, Active, RowIds
    <3>2. row'[a] = w.id /\ at'[a] = "issue" /\ goal[a] \in Slots
      BY <2>1, <2>3 DEF Promoting
    <3>3. QED
      BY <1>0, <2>1, <2>3, <3>1, <3>2 DEF Moves
  <2>4. QED
    BY <1>4, <2>1, <2>2, <2>3 DEF PickCandidate, Promoting
<1>5. CASE IssueOffer(a)
  <2>1. at[a] = "issue" /\ at' = [at EXCEPT ![a] = After(a)]
        /\ UNCHANGED <<vars, now, batch, todo, goal, row, seenCapacity>> /\ WriteOffer(row[a])
    BY <1>5 DEF IssueOffer
  <2>2. row[a] \in Requests
    BY <2>1 DEF Knowing
  <2>3. QED
    BY <1>0, <2>1, <2>2, OfferWritten DEF Moves, Promoting, Knowing
<1>6. QED
  BY <1>1, <1>2, <1>3, <1>4, <1>5 DEF TryPromoteNext

(* A further step of a call moves its own request. *)
LEMMA CallStepMoves ==
    ASSUME WaitInv, NEW r \in Requests,
           \/ Recheck(r) \/ Accept(r) \/ NoSeat(r) \/ Withdraw(r) \/ IssueSentOffer(r)
           \/ AbortTransaction(r) \/ LosePromotion(r)
    PROVE  /\ Moves(r) /\ UNCHANGED <<now, batch, todo>>
           /\ offer' \in [Requests -> Offers] /\ seenCapacity' \in [Runners -> Nat]
           /\ at'[r] # "recheck" \/ UNCHANGED at
<1> USE WaitFacts DEF Move, LifecycleTables
<1>0. {"transaction", "refused", "done", "capacity"} \subseteq Places
  BY DEF Places, Promoting
<1>1. CASE Recheck(r)
  <2>1. at[r] = "recheck" /\ at' = [at EXCEPT ![r] = at'[r]]
        /\ at'[r] \in {"transaction", "refused"}
        /\ UNCHANGED <<now, batch, todo, goal, row, offer, seenCapacity>>
    BY <1>1 DEF Recheck
  <2>2. QED
    BY <1>0, <2>1 DEF Moves, Promoting, Knowing
<1>2. CASE Accept(r) \/ NoSeat(r)
  <2>1. at[r] = "transaction" /\ at' = [at EXCEPT ![r] = at'[r]]
        /\ at'[r] \in {"done", "refused"}
        /\ UNCHANGED <<now, batch, todo, goal, row, seenCapacity>>
    BY <1>2 DEF Accept, NoSeat
  <2>2. offer' \in [Requests -> Offers]
    <3>1. Accept(r) => Answered(row[r], "ACCEPTED") /\ "ACCEPTED" \in Statuses
      BY DEF Accept, Statuses
    <3>2. row[r] \in Requests
      BY <2>1 DEF Knowing
    <3>3. NoSeat(r) => offer' = offer
      BY DEF NoSeat
    <3>4. QED
      BY <1>2, <3>1, <3>2, <3>3, OfferWritten
  <2>3. QED
    BY <1>0, <2>1, <2>2 DEF Moves, Promoting, Knowing
<1>3. CASE Withdraw(r)
  <2>1. at[r] = "withdraw" /\ at' = [at EXCEPT ![r] = "capacity"]
        /\ goal' = [goal EXCEPT ![r] = SlotOfRow(row[r])]
        /\ UNCHANGED <<now, batch, todo, row, seenCapacity>>
        /\ Answered(row[r], "DECLINED") /\ "DECLINED" \in Statuses
    BY <1>3 DEF Withdraw, Promote, Statuses
  <2>2. row[r] \in RowIds
    BY <2>1 DEF Knowing
  <2>3. row[r] \in Requests /\ SlotOfRow(row[r]) \in Slots
    BY <2>2, RowFacts
  <2>4. offer' \in [Requests -> Offers]
    BY <2>1, <2>3, OfferWritten
  <2>5. QED
    BY <1>0, <2>1, <2>3, <2>4 DEF Moves, Knowing
<1>4. CASE IssueSentOffer(r)
  <2>1. at[r] = "send" /\ at' = [at EXCEPT ![r] = "done"]
        /\ UNCHANGED <<vars, now, batch, todo, goal, row, seenCapacity>> /\ WriteOffer(row[r])
    BY <1>4 DEF IssueSentOffer, PromotionStep
  <2>2. row[r] \in Requests
    BY <2>1 DEF Knowing
  <2>3. QED
    BY <1>0, <2>1, <2>2, OfferWritten DEF Moves, Promoting, Knowing
<1>5. CASE AbortTransaction(r)
  <2>1. at' = [at EXCEPT ![r] = at'[r]]
        /\ at'[r] \in {"refused", at[r]}
        /\ UNCHANGED <<now, batch, todo, goal, row, offer, seenCapacity>>
    BY <1>5 DEF AbortTransaction
  <2>2. QED
    BY <1>0, <2>1 DEF Moves, Promoting, Knowing
<1>6. CASE LosePromotion(r)
  <2>1. at[r] \in Promoting /\ at' = [at EXCEPT ![r] = "done"]
        /\ UNCHANGED <<vars, now, batch, todo, goal, row, offer>>
    BY <1>6 DEF LosePromotion
  <2>2. seenCapacity' \in [Runners -> Nat]
    BY <1>6 DEF LosePromotion
  <2>3. QED
    BY <1>0, <2>1, <2>2 DEF Moves, Promoting, Knowing
<1>7. QED
  BY <1>1, <1>2, <1>3, <1>4, <1>5, <1>6

(* A step of a cron outside its promotions moves the cron                  *)
(* (waitlist.processor.ts 46-154).                                         *)
LEMMA CronMovesOn ==
    ASSUME WaitInv, NEW a \in Crons, CronStep(a)
    PROVE  /\ Moves(a) /\ UNCHANGED <<vars, now>>
           /\ offer' \in [Requests -> Offers] /\ seenCapacity' \in [Runners -> Nat]
           /\ batch' \subseteq RowIds /\ todo' \in [Crons -> SUBSET Slots]
           /\ at'[a] # "recheck"
<1> USE WaitFacts DEF Move, LifecycleTables
<1>0. /\ {"expire", "next", "rest", "capacity"} \subseteq Places
      /\ "expireOffers" \in Runners /\ "promoteVacancies" \in Runners
  BY DEF Places, Promoting, Crons
<1>1. CASE a = "expireOffers" /\ FindExpired
  <2>1. at' = [at EXCEPT ![a] = "expire"] /\ UNCHANGED <<vars, now, row, goal, offer, seenCapacity, todo>>
        /\ batch' \subseteq RowIds
    BY <1>1 DEF FindExpired
  <2>2. QED
    BY <1>0, <2>1 DEF Moves, Promoting, Knowing
<1>2. CASE a = "expireOffers" /\ ExpireBatch
  <2>1. at' = [at EXCEPT ![a] = "next"] /\ UNCHANGED <<vars, now, row, goal, seenCapacity>>
        /\ batch' = {} /\ todo' = [todo EXCEPT !["expireOffers"] = {SlotOfRow(id) : id \in batch}]
    BY <1>2 DEF ExpireBatch
  <2>2. {SlotOfRow(id) : id \in batch} \subseteq Slots
    BY RowFacts
  <2>3. offer' \in [Requests -> Offers]
    <3>1. \A id \in Requests : [status |-> "EXPIRED", token |-> 0,
                                expiresAt |-> offer[id].expiresAt,
                                attempts |-> offer[id].attempts] \in Offers
      BY DEF Offers, Statuses
    <3>2. QED
      BY <1>2, <3>1 DEF ExpireBatch
  <2>4. todo' \in [Crons -> SUBSET Slots]
    BY <2>1, <2>2
  <2>5. QED
    BY <1>0, <2>1, <2>3, <2>4 DEF Moves, Promoting, Knowing
<1>3. CASE a = "promoteVacancies" /\ FindVacancies
  <2>1. at' = [at EXCEPT ![a] = "next"]
        /\ UNCHANGED <<vars, now, row, goal, offer, seenCapacity, batch>>
        /\ todo' \in [Crons -> SUBSET Slots]
    BY <1>3 DEF FindVacancies
  <2>2. QED
    BY <1>0, <2>1 DEF Moves, Promoting, Knowing
<1>4. CASE NextSlot(a)
  <2>1. PICK s \in todo[a] : todo' = [todo EXCEPT ![a] = @ \ {s}] /\ Promote(a, s)
    BY <1>4 DEF NextSlot
  <2>2. s \in Slots /\ todo' \in [Crons -> SUBSET Slots]
    BY <2>1
  <2>3. at' = [at EXCEPT ![a] = "capacity"] /\ goal' = [goal EXCEPT ![a] = s]
        /\ UNCHANGED <<vars, now, row, offer, seenCapacity, batch>>
    BY <1>4, <2>1 DEF NextSlot, Promote
  <2>4. QED
    BY <1>0, <2>2, <2>3 DEF Moves, Knowing
<1>5. CASE EndRun(a)
  <2>1. at' = [at EXCEPT ![a] = "rest"] /\ row' = [row EXCEPT ![a] = Nobody]
        /\ goal' = [goal EXCEPT ![a] = NoSlot]
        /\ UNCHANGED <<vars, now, offer, seenCapacity, batch, todo>>
    BY <1>5 DEF EndRun
  <2>2. QED
    BY <1>0, <2>1 DEF Moves, Promoting, Knowing
<1>6. CASE TryPromoteNext(a)
  BY <1>6, PromotionMoves DEF Promoting
<1>7. QED
  BY <1>1, <1>2, <1>3, <1>4, <1>5, <1>6 DEF CronStep

(* What one runner's move means for all. *)
LEMMA AfterMove ==
    ASSUME WaitInv, NEW a \in Runners, Moves(a), waitlist \subseteq waitlist'
    PROVE  /\ at' \in [Runners -> Places] /\ row' \in [Runners -> Requests \cup {Nobody}]
           /\ goal' \in [Runners -> Slots \cup {NoSlot}]
           /\ \A b \in Runners : RunnerOK(b)'
           /\ \A b \in Runners \ {a} : at'[b] = at[b] /\ row'[b] = row[b] /\ goal'[b] = goal[b]
<1>1. RowIds \subseteq RowIds'
  BY DEF RowIds
<1>2. /\ at' \in [Runners -> Places] /\ row' \in [Runners -> Requests \cup {Nobody}]
      /\ goal' \in [Runners -> Slots \cup {NoSlot}]
      /\ \A b \in Runners \ {a} : at'[b] = at[b] /\ row'[b] = row[b] /\ goal'[b] = goal[b]
  <2>1. PICK p, i, g : /\ p = at'[a] /\ i = row'[a] /\ g = goal'[a]
    OBVIOUS
  <2>2. /\ at' = [at EXCEPT ![a] = p] /\ row' = [row EXCEPT ![a] = i]
        /\ goal' = [goal EXCEPT ![a] = g]
        /\ p \in Places /\ i \in Requests \cup {Nobody} /\ g \in Slots \cup {NoSlot}
    BY <2>1 DEF Moves
  <2>3. QED
    BY <2>2, WaitFacts
<1>3. ASSUME NEW b \in Runners
      PROVE  RunnerOK(b)'
  <2>1. CASE b = a
    BY <1>1, <2>1 DEF Moves, RunnerOK
  <2>2. CASE b # a
    BY <1>1, <1>2, <2>2, WaitFacts DEF RunnerOK
  <2>3. QED
    BY <2>1, <2>2
<1>4. QED
  BY <1>2, <1>3

(* Runners keep the row and the slot they work on. *)
LEMMA WaitRunners ==
    ASSUME WaitInv, [LifecycleNext]_allVars
    PROVE  /\ LifecycleTypeOK' /\ (batch \subseteq RowIds)'
           /\ \A a \in Runners : RunnerOK(a)'
<1>1. TypeOK'
  BY WaitTables DEF TablesInv
<1>2. waitlist \subseteq waitlist' /\ RowIds \subseteq RowIds' /\ RowIds' \subseteq Requests
  <2>1. waitlist \subseteq waitlist'
    BY LifecycleSteps, RowsStay
  <2>2. QED
    BY <1>1, <2>1 DEF RowIds, TypeOK, WaitlistRows
<1>3. ASSUME NEW a \in Runners, Moves(a), offer' \in [Requests -> Offers],
             seenCapacity' \in [Runners -> Nat], batch' \subseteq RowIds,
             todo' \in [Crons -> SUBSET Slots], now' = now
      PROVE  /\ LifecycleTypeOK' /\ (batch \subseteq RowIds)'
             /\ \A b \in Runners : RunnerOK(b)'
  BY <1>1, <1>2, <1>3, AfterMove, WaitFacts DEF LifecycleTypeOK, LifecycleTables
<1>4. ASSUME NEW r \in Requests, CallArrives(r) \/ CallProceeds(r) \/ AbortTransaction(r)
                                 \/ LosePromotion(r), ~Allocate(r)
      PROVE  /\ LifecycleTypeOK' /\ (batch \subseteq RowIds)'
             /\ \A b \in Runners : RunnerOK(b)'
  <2>1. r \in Runners
    BY WaitFacts
  <2>2. CASE CallArrives(r)
    BY <1>3, <2>1, <2>2, CallMoves, WaitFacts DEF LifecycleTables
  <2>3. CASE TryPromoteNext(r)
    BY <1>3, <2>1, <2>3, PromotionMoves, WaitFacts DEF LifecycleTables
  <2>4. CASE \/ Recheck(r) \/ Accept(r) \/ NoSeat(r) \/ Withdraw(r) \/ IssueSentOffer(r)
             \/ AbortTransaction(r) \/ LosePromotion(r)
    BY <1>3, <2>1, <2>4, CallStepMoves, WaitFacts DEF LifecycleTables
  <2>5. QED
    BY <1>4, <2>2, <2>3, <2>4 DEF CallProceeds
<1>5. ASSUME NEW a \in Crons, CronStep(a)
      PROVE  /\ LifecycleTypeOK' /\ (batch \subseteq RowIds)'
             /\ \A b \in Runners : RunnerOK(b)'
  <2>1. a \in Runners
    BY WaitFacts
  <2>2. QED
    BY <1>3, <1>5, <2>1, CronMovesOn
<1>6. ASSUME UNCHANGED <<offer, at, row, goal, seenCapacity, batch, todo>>, now' \in Nat
      PROVE  /\ LifecycleTypeOK' /\ (batch \subseteq RowIds)'
             /\ \A b \in Runners : RunnerOK(b)'
  BY <1>1, <1>2, <1>6, WaitFacts DEF LifecycleTypeOK, LifecycleTables, RunnerOK
<1>7. ASSUME \/ \E r \in Requests : EnrolArrives(r) \/ EnrolProceeds(r) \/ Allocate(r)
             \/ \E l \in Locations, c \in 0 .. MaxCapacity : EditCapacity(l, c)
             \/ Tick \/ UNCHANGED allVars
      PROVE  UNCHANGED <<offer, at, row, goal, seenCapacity, batch, todo>> /\ now' \in Nat
  BY <1>7, WaitFacts DEF EnrolArrives, EnrolProceeds, Allocate, EditCapacity, Tick, allVars,
                         lifecycle, LifecycleTables
<1>8. QED
  BY <1>4, <1>5, <1>6, <1>7 DEF LifecycleNext, CallProceeds

(* A call that is about to re-read a row has not begun a transaction. *)
LEMMA WaitCalls ==
    ASSUME WaitInv, [LifecycleNext]_allVars, NEW q \in Requests
    PROVE  CallOK(q)'
<1>0. /\ CallOK(q) /\ TypeOK /\ TablesInv /\ q \in Runners
      /\ waitlist \subseteq waitlist'
  BY LifecycleSteps, RowsStay, WaitFacts DEF WaitInv, TablesInv
<1>1. CASE UNCHANGED <<vars, at>>
  BY <1>0, <1>1 DEF CallOK, vars
<1>2. ASSUME NEW r \in Requests, r # q, Moves(r) \/ UNCHANGED at,
             \/ Arrive(r) \/ Proceed(r) \/ Abort(r)
             \/ Accept(r) \/ NoSeat(r) \/ Recheck(r) \/ Withdraw(r) \/ UNCHANGED vars
      PROVE  CallOK(q)'
  <2>1. pc'[q] = pc[q]
    BY <1>0, <1>2, OtherRequests, WaitlistCalls DEF vars
  <2>2. at'[q] = at[q]
    BY <1>0, <1>2, AfterMove, WaitFacts
  <2>3. QED
    BY <1>0, <2>1, <2>2 DEF CallOK
<1>3. ASSUME NEW r \in Requests, EnrolArrives(r) \/ EnrolProceeds(r) \/ Allocate(r)
      PROVE  CallOK(q)'
  <2>1. (Arrive(r) \/ Proceed(r)) /\ UNCHANGED at /\ at[r] # "recheck"
    BY <1>3 DEF EnrolArrives, EnrolProceeds, Allocate, Proceed, lifecycle
  <2>2. CASE r = q
    BY <2>1, <2>2 DEF CallOK
  <2>3. CASE r # q
    BY <1>2, <2>1, <2>3
  <2>4. QED
    BY <2>2, <2>3
<1>4. ASSUME NEW r \in Requests,
             \/ Recheck(r) \/ Accept(r) \/ NoSeat(r) \/ Withdraw(r) \/ IssueSentOffer(r)
             \/ AbortTransaction(r) \/ LosePromotion(r)
      PROVE  CallOK(q)'
  <2>1. Moves(r) /\ (at'[r] # "recheck" \/ UNCHANGED at)
    BY <1>4, CallStepMoves
  <2>2. CASE r # q
    BY <1>2, <1>4, <2>1, <2>2 DEF IssueSentOffer, PromotionStep, AbortTransaction, LosePromotion
  <2>3. CASE r = q /\ at'[r] # "recheck"
    BY <2>3 DEF CallOK
  <2>4. CASE r = q /\ at'[r] = "recheck"
    <3>1. at[r] = "recheck" /\ at' = at
      BY <2>1, <2>4
    <3>2. pc[r] = "idle"
      BY <1>0, <2>4, <3>1 DEF CallOK
    <3>3. ~Accept(r) /\ ~NoSeat(r) /\ ~Withdraw(r) /\ ~IssueSentOffer(r) /\ ~LosePromotion(r)
      BY <3>1 DEF Accept, NoSeat, Withdraw, IssueSentOffer, LosePromotion, PromotionStep, Promoting
    <3>4. ~AbortTransaction(r)
      BY <3>2 DEF AbortTransaction, Abort, InTransaction
    <3>5. ~Recheck(r)
      BY <3>1, <1>0, WaitFacts, <2>4 DEF Recheck, Move
    <3>6. QED
      BY <1>4, <3>3, <3>4, <3>5
  <2>5. QED
    BY <2>2, <2>3, <2>4
<1>5. ASSUME NEW r \in Requests, CallArrives(r)
      PROVE  CallOK(q)'
  <2>1. Moves(r) /\ pc[r] = "idle" /\ UNCHANGED vars
    BY <1>5, CallMoves
  <2>2. CASE r = q
    BY <2>1, <2>2 DEF CallOK, vars
  <2>3. CASE r # q
    BY <1>2, <2>1, <2>3
  <2>4. QED
    BY <2>2, <2>3
<1>6. ASSUME NEW r \in Runners, Moves(r), UNCHANGED vars, at'[r] # "recheck"
      PROVE  CallOK(q)'
  <2>1. r = q \/ at'[q] = at[q]
    BY <1>0, <1>6, AfterMove
  <2>2. QED
    BY <1>0, <1>6, <2>1 DEF CallOK, vars
<1>7. ASSUME NEW a \in Runners, TryPromoteNext(a)
      PROVE  CallOK(q)'
  BY <1>6, <1>7, PromotionMoves DEF Promoting
<1>8. ASSUME NEW a \in Crons, CronStep(a)
      PROVE  CallOK(q)'
  BY <1>6, <1>8, CronMovesOn, WaitFacts
<1>9. \/ Tick \/ UNCHANGED allVars => UNCHANGED <<vars, at>>
  BY DEF Tick, allVars, lifecycle
<1>10. ASSUME NEW l \in Locations, NEW c \in 0 .. MaxCapacity, EditCapacity(l, c)
       PROVE  CallOK(q)'
  BY <1>0, <1>10 DEF EditCapacity, UpdateCapacity, lifecycle, CallOK
<1>11. QED
  BY <1>1, <1>3, <1>4, <1>5, <1>7, <1>8, <1>9, <1>10, WaitFacts DEF LifecycleNext, CallProceeds

(* Offers only go on: attempts are never taken back, and a row that has    *)
(* been answered or has expired is never open again.                       *)
LEMMA OffersGoOn ==
    ASSUME WaitInv, [LifecycleNext]_allVars, NEW id \in Requests
    PROVE  /\ offer'[id].attempts \in Nat
           /\ offer'[id].attempts >= offer[id].attempts
           /\ IsPending(id)' => IsPending(id)
<1>0. /\ offer \in [Requests -> Offers] /\ offer[id] \in Offers
      /\ offer[id].attempts \in Nat
  BY WaitFacts DEF LifecycleTables, Offers
<1>1. CASE UNCHANGED offer
  BY <1>0, <1>1 DEF IsPending
<1>2. ASSUME NEW i \in Requests, WriteOffer(i)
      PROVE  /\ offer'[id].attempts \in Nat
             /\ offer'[id].attempts >= offer[id].attempts
             /\ IsPending(id)' => IsPending(id)
  <2>1. offer'[id].status = offer[id].status
        /\ offer'[id].attempts \in {offer[id].attempts, offer[id].attempts + 1}
    BY <1>0, <1>2 DEF WriteOffer
  <2>2. QED
    BY <1>0, <2>1 DEF IsPending
<1>3. ASSUME NEW i \in Requests, NEW status \in {"ACCEPTED", "DECLINED"}, Answered(i, status)
      PROVE  /\ offer'[id].attempts \in Nat
             /\ offer'[id].attempts >= offer[id].attempts
             /\ IsPending(id)' => IsPending(id)
  <2>1. offer'[id].attempts = offer[id].attempts
        /\ offer'[id].status \in {offer[id].status, status}
    BY <1>0, <1>3 DEF Answered
  <2>2. i = id => offer'[id].status = status
    BY <1>0, <1>3 DEF Answered
  <2>3. i # id => offer'[id].status = offer[id].status
    BY <1>0, <1>3 DEF Answered
  <2>4. QED
    BY <1>0, <2>1, <2>2, <2>3 DEF IsPending
<1>4. ASSUME ExpireBatch
      PROVE  /\ offer'[id].attempts \in Nat
             /\ offer'[id].attempts >= offer[id].attempts
             /\ IsPending(id)' => IsPending(id)
  <2>1. offer'[id].attempts = offer[id].attempts
        /\ offer'[id].status \in {offer[id].status, "EXPIRED"}
    BY <1>4 DEF ExpireBatch
  <2>2. QED
    BY <1>0, <2>1 DEF IsPending
<1>5. ASSUME NEW a \in Runners, TryPromoteNext(a)
      PROVE  UNCHANGED offer \/ \E i \in Requests : WriteOffer(i)
  <2>1. IssueOffer(a) => WriteOffer(row[a]) /\ row[a] \in Requests
    BY WaitFacts DEF IssueOffer, PromotionStep, Knowing
  <2>2. QED
    BY <1>5, <2>1 DEF TryPromoteNext, ReadVacancy, CountEnrolled, CheckOutstanding, PickCandidate
<1>6. ASSUME NEW r \in Requests, CallArrives(r) \/ CallProceeds(r) \/ EnrolArrives(r)
                                 \/ EnrolProceeds(r) \/ AbortTransaction(r) \/ LosePromotion(r)
      PROVE  \/ UNCHANGED offer \/ \E i \in Requests : WriteOffer(i)
             \/ \E i \in Requests, status \in {"ACCEPTED", "DECLINED"} : Answered(i, status)
  <2>1. Accept(r) => Answered(row[r], "ACCEPTED") /\ row[r] \in Requests
    BY WaitFacts DEF Accept, Knowing
  <2>2. Withdraw(r) => Answered(row[r], "DECLINED") /\ row[r] \in Requests
    BY WaitFacts DEF Withdraw, Knowing
  <2>3. IssueSentOffer(r) => WriteOffer(row[r]) /\ row[r] \in Requests
    BY WaitFacts DEF IssueSentOffer, PromotionStep, Knowing
  <2>4. CallArrives(r) => UNCHANGED offer
    BY CallMoves
  <2>5. ASSUME \/ Recheck(r) \/ Allocate(r) \/ NoSeat(r) \/ EnrolArrives(r)
               \/ EnrolProceeds(r) \/ AbortTransaction(r) \/ LosePromotion(r)
        PROVE  UNCHANGED offer
    BY <2>5 DEF Recheck, Allocate, NoSeat, EnrolArrives, EnrolProceeds, AbortTransaction,
           LosePromotion, lifecycle
  <2>6. TryPromoteNext(r) => UNCHANGED offer \/ \E i \in Requests : WriteOffer(i)
    BY <1>5, WaitFacts
  <2>7. QED
    BY <1>6, <2>1, <2>2, <2>3, <2>4, <2>5, <2>6 DEF CallProceeds
<1>7. ASSUME NEW a \in Crons, CronStep(a)
      PROVE  UNCHANGED offer \/ ExpireBatch \/ \E i \in Requests : WriteOffer(i)
  BY <1>5, <1>7, WaitFacts DEF CronStep, FindExpired, FindVacancies, NextSlot, EndRun
<1>8. ASSUME \/ \E l \in Locations, c \in 0 .. MaxCapacity : EditCapacity(l, c)
             \/ Tick \/ UNCHANGED allVars
      PROVE  UNCHANGED offer
  BY <1>8 DEF EditCapacity, Tick, allVars, lifecycle
<1>9. QED
  BY <1>1, <1>2, <1>3, <1>4, <1>6, <1>7, <1>8 DEF LifecycleNext

(* A promotion gets to the point of offering by choosing a row, and stays  *)
(* there with its slot and its row while others move.                      *)
LEMMA AboutToOffer ==
    ASSUME WaitInv, [LifecycleNext]_allVars, NEW a \in Runners, at'[a] = "issue"
    PROVE  \/ at[a] = "issue" /\ row'[a] = row[a] /\ goal'[a] = goal[a]
           \/ PickCandidate(a)
<1>0. waitlist \subseteq waitlist' /\ at \in [Runners -> Places]
  BY LifecycleSteps, RowsStay, WaitFacts
<1>1. CASE UNCHANGED <<at, row, goal>>
  BY <1>1
<1>2. ASSUME NEW b \in Runners, b # a, Moves(b)
      PROVE  at[a] = "issue" /\ row'[a] = row[a] /\ goal'[a] = goal[a]
  BY <1>0, <1>2, AfterMove
<1>3. ASSUME NEW b \in Runners, TryPromoteNext(b)
      PROVE  b # a \/ PickCandidate(a)
  <2>1. ASSUME ReadVacancy(a) \/ CountEnrolled(a) \/ CheckOutstanding(a) \/ IssueOffer(a)
        PROVE  at'[a] # "issue"
    <3>1. at'[a] \in {"count", "outstanding", "pick", "done", "next"}
      BY <1>0, <2>1 DEF ReadVacancy, CountEnrolled, CheckOutstanding, IssueOffer, Move, After
    <3>2. QED
      BY <3>1
  <2>2. QED
    BY <1>3, <2>1 DEF TryPromoteNext
<1>4. ASSUME NEW b \in Runners,
             \/ \E r \in Requests : r = b /\ \/ CallArrives(r) \/ Recheck(r) \/ Accept(r)
                                             \/ NoSeat(r) \/ Withdraw(r) \/ IssueSentOffer(r)
                                             \/ LosePromotion(r)
             \/ b \in Crons /\ CronStep(b) /\ ~TryPromoteNext(b)
      PROVE  b # a
  <2>1. ASSUME NEW p, at' = [at EXCEPT ![b] = p], p # "issue"
        PROVE  b # a
    BY <1>0, <2>1
  <2>2. \A r \in Requests : CallArrives(r) => at'[r] # "issue"
    BY CallMoves
  <2>3. QED
    BY <1>4, <2>1, <2>2 DEF Recheck, Accept, NoSeat, Withdraw, IssueSentOffer, LosePromotion,
       CronStep, FindExpired, ExpireBatch, FindVacancies, NextSlot, EndRun, Promote, Move
<1>5. ASSUME NEW r \in Requests, AbortTransaction(r), r = a
      PROVE  UNCHANGED <<at, row, goal>>
  <2>1. at' = [at EXCEPT ![a] = IF at[a] = "transaction" THEN "refused" ELSE at[a]]
        /\ UNCHANGED <<row, goal>>
    BY <1>5 DEF AbortTransaction, Move
  <2>2. at'[a] = IF at[a] = "transaction" THEN "refused" ELSE at[a]
    BY <1>0, <2>1
  <2>3. at[a] # "transaction"
    BY <2>2
  <2>4. QED
    BY <1>0, <2>1, <2>3
<1>6. ASSUME NEW r \in Requests, EnrolArrives(r) \/ EnrolProceeds(r) \/ Allocate(r)
      PROVE  UNCHANGED <<at, row, goal>>
  BY <1>6 DEF EnrolArrives, EnrolProceeds, Allocate, lifecycle
<1>7. ASSUME \/ \E l \in Locations, c \in 0 .. MaxCapacity : EditCapacity(l, c)
             \/ Tick \/ UNCHANGED allVars
      PROVE  UNCHANGED <<at, row, goal>>
  BY <1>7 DEF EditCapacity, Tick, allVars, lifecycle
<1>8. ASSUME NEW r \in Requests, CallArrives(r) \/ CallProceeds(r) \/ AbortTransaction(r)
                                 \/ LosePromotion(r)
      PROVE  \/ at[a] = "issue" /\ row'[a] = row[a] /\ goal'[a] = goal[a]
             \/ PickCandidate(a)
  <2>1. r \in Runners
    BY WaitFacts
  <2>2. CASE TryPromoteNext(r)
    BY <1>2, <1>3, <2>1, <2>2, PromotionMoves
  <2>3. CASE \/ CallArrives(r) \/ Recheck(r) \/ Accept(r) \/ NoSeat(r) \/ Withdraw(r)
             \/ IssueSentOffer(r) \/ LosePromotion(r)
    BY <1>2, <1>4, <2>1, <2>3, CallMoves, CallStepMoves
  <2>4. CASE AbortTransaction(r)
    BY <1>1, <1>2, <1>5, <2>1, <2>4, CallStepMoves
  <2>5. CASE Allocate(r)
    BY <1>1, <1>6, <2>5
  <2>6. QED
    BY <1>8, <2>2, <2>3, <2>4, <2>5 DEF CallProceeds
<1>9. ASSUME NEW b \in Crons, CronStep(b)
      PROVE  \/ at[a] = "issue" /\ row'[a] = row[a] /\ goal'[a] = goal[a]
             \/ PickCandidate(a)
  BY <1>2, <1>3, <1>4, <1>9, CronMovesOn, WaitFacts
<1>10. QED
  BY <1>1, <1>6, <1>7, <1>8, <1>9 DEF LifecycleNext

(* The choice is the row with the fewest offers, and nobody gets before it.*)
LEMMA WaitPassedOver ==
    ASSUME WaitInv, [LifecycleNext]_allVars
    PROVE  NobodyIsPassedOver'
<1> SUFFICES ASSUME NEW a \in Runners, at'[a] = "issue",
                    NEW s, s = goal'[a],
                    NEW v \in Candidates(s)', NEW w \in Candidates(s)',
                    w.id = row'[a], v.position < w.position
             PROVE  offer'[v.id].attempts > 0
  BY DEF NobodyIsPassedOver, Sent, Candidates, IsPending
<1>0. /\ TypeOK /\ RowIdsDistinct /\ NobodyIsPassedOver /\ RowsOfSettled
      /\ LifecycleTypeOK'
  BY WaitRunners DEF WaitInv, TablesInv
<1>1. s \in Slots
  BY WaitRunners DEF RunnerOK, Promoting
<1>2. /\ v \in Active(s)' /\ w \in Active(s)'
      /\ IsPending(v.id)' /\ IsPending(w.id)'
  BY DEF Candidates, IsPending
<1>3. /\ v \in waitlist' /\ w \in waitlist'
      /\ v.id \in Requests /\ w.id \in Requests
      /\ v.position \in Nat /\ w.position \in Nat
  BY <1>0, <1>2 DEF Active, LifecycleTypeOK, TypeOK, WaitlistRows
<1>4. CASE at[a] = "issue" /\ row'[a] = row[a] /\ goal'[a] = goal[a]
  <2>1. row[a] \in RowIds
    BY <1>4, WaitFacts DEF Knowing
  <2>2. v \in Active(s) /\ w \in Active(s)
    <3>1. ASSUME NEW r \in Requests, AppendToWaitlist(r),
                 Active(s)' = Active(s) \cup
                    {[id |-> r, participant |-> job[r].participant, slot |-> s,
                      position |-> myLast[r] + 1]},
                 \A u \in Active(s) : u.position <= myLast[r]
          PROVE  v \in Active(s) /\ w \in Active(s)
      <4>1. \A u \in waitlist : u.id # r
        BY <1>0, <3>1 DEF AppendToWaitlist, RowsOfSettled, Settled
      <4>2. w.id # r
        BY <2>1, <1>4, <4>1 DEF RowIds
      <4>3. w \in Active(s)
        BY <1>2, <3>1, <4>2
      <4>4. w.position <= myLast[r] /\ myLast[r] \in Nat
        BY <1>0, <3>1, <4>3 DEF TypeOK
      <4>5. v.position # myLast[r] + 1
        BY <1>3, <4>4
      <4>6. QED
        BY <1>2, <3>1, <4>3, <4>5
    <3>2. QED
      BY <1>1, <1>2, <3>1, WaitAppend
  <2>3. v \in Candidates(s) /\ w \in Candidates(s)
    BY <1>2, <1>3, <2>2, OffersGoOn DEF Candidates
  <2>4. Sent(v.id)
    BY <1>0, <1>4, <2>3 DEF NobodyIsPassedOver
  <2>5. offer[v.id].attempts > 0 /\ offer[v.id].attempts \in Nat
    BY <1>3, <2>4, WaitFacts DEF Sent, LifecycleTables, Offers
  <2>6. QED
    BY <1>3, <2>5, OffersGoOn
<1>5. CASE PickCandidate(a)
  <2>1. /\ UNCHANGED <<vars, offer, goal>> /\ at \in [Runners -> Places]
        /\ row \in [Runners -> Requests \cup {Nobody}]
        /\ row' = [row EXCEPT ![a] = row'[a]]
    BY <1>5, WaitFacts DEF PickCandidate, PromotionStep
  <2>2. Candidates(s)' = Candidates(s)
    BY <2>1 DEF Candidates, Active, IsPending, vars, tables
  <2>3. s = goal[a]
    BY <2>1
  <2>4. at' # [at EXCEPT ![a] = After(a)]
    BY <2>1 DEF After
  <2>5. PICK u \in Candidates(s) : /\ \A x \in Candidates(s) \ {u} : Precedes(u, x)
                                   /\ row' = [row EXCEPT ![a] = u.id]
    BY <1>5, <2>3, <2>4 DEF PickCandidate, Move
  <2>6. w.id = u.id
    BY <2>1, <2>5
  <2>7. w = u
    BY <1>0, <2>2, <2>5, <2>6 DEF RowIdsDistinct, Candidates, Active
  <2>8. v # w
    BY <1>3
  <2>9. Precedes(w, v)
    BY <2>2, <2>5, <2>7, <2>8
  <2>10. offer[w.id].attempts \in Nat /\ offer[v.id].attempts \in Nat
    BY <1>3, WaitFacts DEF LifecycleTables, Offers
  <2>11. QED
    BY <1>3, <2>1, <2>9, <2>10 DEF Precedes
<1>6. QED
  BY <1>4, <1>5, AboutToOffer

(* The people who wait at the start are registered, and no offer is out.   *)
LEMMA WaitInit ==
    ASSUME LifecycleInit
    PROVE  WaitInv
<1>1. /\ waitlist = Waiting /\ Waiting \subseteq WaitlistRows /\ IsFiniteSet(Waiting)
      /\ enrolments = {} /\ deletedRows = {}
      /\ \A v, w \in waitlist : v.id = w.id => v = w
      /\ \A v, w \in waitlist : v.slot = w.slot /\ v.position = w.position => v = w
  BY WaitingAssumption DEF LifecycleInit
<1>2. \A w \in waitlist : /\ w.id \in Requests /\ w.participant \in Participants /\ w.slot \in Slots
                          /\ w.position \in Nat
  BY <1>1 DEF WaitlistRows
<1>3. job \in [Requests -> Jobs]
  <2>1. NoJob \in Jobs
    BY DEF NoJob, Jobs
  <2>2. ASSUME NEW w \in waitlist
        PROVE  [endpoint |-> "enrol", participant |-> w.participant,
                slot |-> w.slot, previous |-> Nobody, allowOverlap |-> FALSE] \in Jobs
    BY <1>2 DEF Jobs, AllEndpoints
  <2>3. ASSUME NEW r \in Requests, r \in {w.id : w \in Waiting}
        PROVE  (CHOOSE w \in Waiting : w.id = r) \in waitlist
    BY <1>1, <2>3
  <2>4. QED
    BY <2>1, <2>2, <2>3 DEF LifecycleInit
<1>4. /\ pc \in [Requests -> {"idle", "waitlisted"}]
      /\ \A w \in waitlist : pc[w.id] = "waitlisted"
      /\ \A r \in Requests : pc[r] = "waitlisted" =>
            job[r].participant \in Participants
  <2>1. pc \in [Requests -> {"idle", "waitlisted"}]
        /\ \A w \in waitlist : pc[w.id] = "waitlisted"
    BY <1>1, <1>2 DEF LifecycleInit
  <2>2. ASSUME NEW r \in Requests, pc[r] = "waitlisted"
        PROVE  job[r].participant \in Participants
    <3>1. r \in {w.id : w \in Waiting}
      BY <2>2 DEF LifecycleInit
    <3>2. PICK u : u = CHOOSE w \in Waiting : w.id = r
      OBVIOUS
    <3>3. u \in waitlist
      BY <1>1, <3>1, <3>2
    <3>4. job[r].participant = u.participant
      BY <3>1, <3>2 DEF LifecycleInit
    <3>5. QED
      BY <1>2, <3>3, <3>4
  <2>3. QED
    BY <2>1, <2>2
<1>5. counter \in Nat /\ IsFiniteSet(enrolments)
  BY <1>1, KnownAssumption, FS_CardinalityType, FS_EmptySet DEF LifecycleInit
<1>6. TypeOK
  <2>1. capacity \in [Locations -> Nat] /\ high = capacity /\ low \in [Locations -> Nat]
    BY CapacityAssumption DEF LifecycleInit
  <2>2. number \in [Participants -> Nat]
    BY <1>5 DEF LifecycleInit
  <2>3. pc \in [Requests -> PCs]
    BY <1>4 DEF PCs, Settled
  <2>4. counterLock = Nobody /\ slotLock \in [Slots -> Requests \cup {Nobody}]
        /\ myNumber \in [Requests -> Nat] /\ myCapacity \in [Requests -> Nat]
        /\ myOccupied \in [Requests -> Nat] /\ myLast \in [Requests -> Nat]
    BY DEF LifecycleInit
  <2>5. QED
    BY <1>1, <1>3, <1>5, <2>1, <2>2, <2>3, <2>4 DEF TypeOK
<1>7. TablesInv
  <2>1. CapacityInRange
    BY CapacityAssumption DEF LifecycleInit, CapacityInRange
  <2>2. LockDiscipline
    BY <1>4 DEF LockDiscipline, Prechecks, UnderSlotLock
  <2>3. RowsOfSettled
    BY <1>1, <1>4 DEF RowsOfSettled, Settled
  <2>4. QED
    BY <1>1, <1>5, <1>6, <2>1, <2>2, <2>3 DEF TablesInv, FiniteTables
<1>8. LifecycleTypeOK
  <2>1. NoOffer \in Offers
    BY DEF NoOffer, Offers, Statuses
  <2>2. QED
    BY <1>6, <2>1 DEF LifecycleInit, LifecycleTypeOK, Places
<1>9. /\ at = [a \in Runners |-> "rest"] /\ batch = {}
      /\ capacity \in [Locations -> 0 .. MaxCapacity] /\ high = capacity
  BY DEF LifecycleInit
<1>10. /\ \A a \in Runners : RunnerOK(a)
       /\ \A r \in Requests : CallOK(r)
       /\ NobodyIsPassedOver
  BY <1>9 DEF RunnerOK, CallOK, NobodyIsPassedOver, Knowing, Promoting, Runners
<1>11. \A r \in Requests : CountsStand(r)
  BY <1>4 DEF CountsStand
<1>12. NeverOverbooked
  <2> SUFFICES ASSUME NEW s \in Slots
               PROVE  Cardinality(Occupants(s)) <= high[LocationOf(s)]
    BY DEF NeverOverbooked
  <2>1. Occupants(s) = {}
    BY <1>1 DEF Occupants
  <2>2. high[LocationOf(s)] \in Nat
    BY <1>6, SlotLocation DEF TypeOK
  <2>3. QED
    BY <2>1, <2>2, FS_EmptySet
<1>13. PositionsDistinct
  BY <1>1 DEF PositionsDistinct, Active
<1>14. QED
  BY <1>1, <1>7, <1>8, <1>9, <1>10, <1>11, <1>12, <1>13 DEF WaitInv, RowIdsDistinct

(* The invariant of the waitlist lifecycle holds however calls, crons and  *)
(* promotions interleave with the desk's requests and capacity edits.      *)
THEOREM WaitInvariant == LifecycleSpec => []WaitInv
<1>1. WaitInv /\ [LifecycleNext]_allVars => WaitInv'
  BY WaitTables, WaitRunners, WaitRowIds, WaitCalls, WaitCountsStand, WaitNeverOverbooked,
     WaitPositions, WaitPassedOver DEF WaitInv
<1>2. QED
  BY <1>1, WaitInit, PTL DEF LifecycleSpec

(* Offers and the desk together never overbook a slot. *)
THEOREM OffersNeverOverbook == LifecycleSpec => []NeverOverbooked
<1>1. WaitInv => NeverOverbooked
  BY DEF WaitInv
<1>2. QED
  BY <1>1, WaitInvariant, PTL

(* MAX(position) + 1 under the slot's lock (enrolment-allocator.service.ts *)
(* 133-138) gives no two active rows of a slot the same position, though   *)
(* rows are withdrawn without that lock.                                   *)
THEOREM PositionsStayDistinct == LifecycleSpec => []PositionsDistinct
<1>1. WaitInv => PositionsDistinct
  BY DEF WaitInv
<1>2. QED
  BY <1>1, WaitInvariant, PTL

(* A promotion about to offer a seat passes over nobody who waits and has  *)
(* had no offer yet (waitlist.service.ts 383-385), though rows are         *)
(* appended, withdrawn and offered between its choice and its offer.       *)
THEOREM EverybodyGetsATurn == LifecycleSpec => []NobodyIsPassedOver
<1>1. WaitInv => NobodyIsPassedOver
  BY DEF WaitInv
<1>2. QED
  BY <1>1, WaitInvariant, PTL

-----------------------------------------------------------------------------
(* Claims of requests that follow one another *)

(* A finite set that does not have more than one member. *)
LEMMA AtMostOne ==
    ASSUME NEW S, IsFiniteSet(S), ~(Cardinality(S) > 1), NEW a \in S, NEW b \in S
    PROVE  a = b
<1> SUFFICES ASSUME a # b PROVE FALSE
  OBVIOUS
<1>1. Cardinality(S) \in Nat
  BY FS_CardinalityType
<1>2. {a} \subseteq S /\ {a} # S /\ Cardinality({a}) = 1
  BY FS_Singleton
<1>3. PICK T : T = {a}
  OBVIOUS
<1>4. Cardinality(T) < Cardinality(S) /\ Cardinality(T) = 1
  BY <1>1, <1>2, <1>3, FS_Subset
<1>5. QED
  BY <1>1, <1>4

(* Everybody a row or a job names is registered, but for the person a      *)
(* request is registering.                                                 *)
PersonKnown(r) ==
    /\ pc[r] # "idle" /\ job[r].endpoint # "register" => number[job[r].participant] # 0
    /\ pc[r] \in Prechecks => job[r].endpoint # "register"
    /\ pc[r] = "number" => job[r].endpoint = "register"
    /\ pc[r] \in InTransaction \ {"number"} /\ job[r].endpoint = "register" => myNumber[r] # 0

(* People in the tables are registered, and an id is a row of one table. *)
PeopleInv ==
    /\ \A c \in enrolments \cup waitlist : number[c.participant] # 0
    /\ \A e \in enrolments, w \in waitlist : e.id # w.id
    /\ \A r \in Requests : PersonKnown(r)

(* A registration is the one writer of a number, and it writes one. *)
LEMMA NumbersStay ==
    ASSUME TablesInv, PeopleInv, NEW r \in Requests, Arrive(r) \/ Proceed(r) \/ Abort(r)
    PROVE  /\ \A p \in Participants : number[p] # 0 => number'[p] # 0
           /\ \/ UNCHANGED number
              \/ /\ CommitPerson(r) \/ Seat(r) \/ AppendToWaitlist(r)
                 /\ job[r].endpoint = "register" /\ number'[job[r].participant] # 0
<1>0. PersonKnown(r) /\ number \in [Participants -> Nat] /\ LockDiscipline
  BY DEF PeopleInv, TablesInv, TypeOK
<1>1. ASSUME CommitPerson(r) \/ Seat(r) \/ AppendToWaitlist(r), job[r].endpoint = "register"
      PROVE  /\ number' = [number EXCEPT ![job[r].participant] = myNumber[r]]
             /\ myNumber[r] # 0 /\ job[r].participant \in Participants
  <2>1. pc[r] \in {"person", "seat", "append"}
    BY <1>1 DEF CommitPerson, Seat, AppendToWaitlist
  <2>2. number' = [number EXCEPT ![job[r].participant] = myNumber[r]]
    BY <1>1 DEF CommitPerson, Seat, AppendToWaitlist, Commit, CommitRegistration
  <2>3. QED
    BY <1>0, <1>1, <2>1, <2>2 DEF PersonKnown, InTransaction, LockDiscipline
<1>2. ASSUME CommitPerson(r) \/ Seat(r) \/ AppendToWaitlist(r), job[r].endpoint # "register"
      PROVE  UNCHANGED number
  BY <1>2 DEF CommitPerson, Seat, AppendToWaitlist, Commit, CommitRegistration
<1>3. Arrive(r) \/ Abort(r) => UNCHANGED number
  BY DEF Arrive, Register, Enrol, ReEnrol, Start, Abort, tables
<1>4. ASSUME \/ CheckEnrolment(r) \/ CheckWaitlist(r) \/ CheckOverlap(r)
             \/ TakeNumber(r) \/ LockSlot(r) \/ ReadCapacity(r) \/ CountOccupied(r)
             \/ ReadLastPosition(r)
      PROVE  UNCHANGED number
  BY <1>4 DEF CheckEnrolment, CheckWaitlist, CheckOverlap, Check, TakeNumber, LockSlot,
              ReadCapacity, CountOccupied, ReadLastPosition, Read, tables
<1>5. QED
  BY <1>0, <1>1, <1>2, <1>3, <1>4 DEF Proceed

(* The step of a request keeps what is known of the person it is about. *)
LEMMA OwnPerson ==
    ASSUME TablesInv, PeopleInv, NEW r \in Requests, Arrive(r) \/ Proceed(r) \/ Abort(r)
    PROVE  PersonKnown(r)'
<1> USE DEF TypeOK, Goto
<1>0. /\ PersonKnown(r) /\ TypeOK /\ LockDiscipline
      /\ \A p \in Participants : number[p] # 0 => number'[p] # 0
      /\ UNCHANGED number \/ number'[job[r].participant] # 0
  BY NumbersStay DEF PeopleInv, TablesInv
<1>1. CASE Register(r)
  <2>1. PICK p \in Participants \ (Registered \cup Registering), slot \in Slots \cup {NoSlot} :
          Start(r, "register", p, slot, Nobody, FALSE, "number")
    BY <1>1 DEF Register
  <2>2. pc'[r] = "number" /\ job'[r].endpoint = "register"
    BY <1>0, <2>1 DEF Start
  <2>3. QED
    BY <2>2 DEF PersonKnown, Prechecks
<1>2. CASE Enrol(r)
  <2>1. PICK p \in Registered, slot \in Slots, allow \in AllowOverlap :
          Start(r, "enrol", p, slot, Nobody, allow, "checkEnrolment")
    BY <1>2 DEF Enrol
  <2>2. /\ pc'[r] = "checkEnrolment" /\ job'[r].endpoint = "enrol"
        /\ job'[r].participant = p /\ number[p] # 0 /\ p \in Participants
    BY <1>0, <2>1 DEF Start, Registered
  <2>3. QED
    BY <1>0, <2>2 DEF PersonKnown, InTransaction
<1>3. CASE ReEnrol(r)
  <2>1. PICK e \in enrolments, slot \in Slots, allow \in AllowOverlap :
          Start(r, "reEnrol", e.participant, slot, e.id, allow, "checkEnrolment")
    BY <1>3 DEF ReEnrol
  <2>2. /\ pc'[r] = "checkEnrolment" /\ job'[r].endpoint = "reEnrol"
        /\ job'[r].participant = e.participant
    BY <1>0, <2>1 DEF Start
  <2>3. number[e.participant] # 0 /\ e.participant \in Participants
    BY <1>0 DEF PeopleInv, Enrolments
  <2>4. QED
    BY <1>0, <2>2, <2>3 DEF PersonKnown, InTransaction
<1>4. ASSUME job' = job, pc[r] # "idle", pc'[r] # "number", pc'[r] \in Prechecks => pc[r] \in Prechecks,
             pc'[r] \in InTransaction /\ job[r].endpoint = "register" =>
                pc[r] \in InTransaction \cup Prechecks /\ (pc[r] = "number" => myNumber'[r] # 0),
             pc[r] = "number" \/ myNumber'[r] = myNumber[r]
      PROVE  PersonKnown(r)'
  BY <1>0, <1>4 DEF PersonKnown, LockDiscipline
<1>5. CASE Abort(r)
  BY <1>0, <1>4, <1>5 DEF Abort, InTransaction, Prechecks, reads
<1>6. CASE CheckEnrolment(r) \/ CheckWaitlist(r) \/ CheckOverlap(r)
  BY <1>0, <1>4, <1>6 DEF CheckEnrolment, CheckWaitlist, CheckOverlap, Check, InTransaction, Prechecks, reads
<1>7. CASE TakeNumber(r)
  <2>1. /\ myNumber'[r] = counter + 1 /\ counter + 1 # 0 /\ job' = job /\ pc[r] = "number"
        /\ pc'[r] \in {"person", "lock"}
    BY <1>0, <1>7 DEF TakeNumber
  <2>2. QED
    BY <1>4, <2>1 DEF InTransaction, Prechecks
<1>8. CASE LockSlot(r)
  BY <1>0, <1>4, <1>8 DEF LockSlot, InTransaction, Prechecks, reads
<1>9. CASE ReadCapacity(r) \/ CountOccupied(r) \/ ReadLastPosition(r)
  BY <1>0, <1>4, <1>9 DEF ReadCapacity, CountOccupied, ReadLastPosition, Read, InTransaction, Prechecks
<1>10. CASE CommitPerson(r) \/ Seat(r) \/ AppendToWaitlist(r)
  BY <1>0, <1>4, <1>10 DEF CommitPerson, Seat, AppendToWaitlist, Commit, InTransaction, Prechecks, reads
<1>11. QED
  BY <1>1, <1>2, <1>3, <1>5, <1>6, <1>7, <1>8, <1>9, <1>10 DEF Arrive, Proceed

(* A request's step keeps people registered: the number is written before  *)
(* the rows of the same transaction (participants.service.ts 53-117).      *)
LEMMA PeopleStep ==
    ASSUME TablesInv, PeopleInv, NEW r \in Requests, Arrive(r) \/ Proceed(r) \/ Abort(r)
    PROVE  PeopleInv'
<1>0. /\ TypeOK /\ LockDiscipline /\ RowsOfSettled /\ PersonKnown(r)
      /\ \A p \in Participants : number[p] # 0 => number'[p] # 0
      /\ UNCHANGED number \/ number'[job[r].participant] # 0
  BY NumbersStay DEF PeopleInv, TablesInv
<1>2. /\ Seat(r) => /\ waitlist' = waitlist /\ pc[r] = "seat"
                    /\ enrolments' = enrolments \cup {[id |-> r, participant |-> job[r].participant,
                                                       slot |-> job[r].slot]}
      /\ AppendToWaitlist(r) =>
            /\ enrolments' = enrolments /\ pc[r] = "append"
            /\ waitlist' = waitlist \cup {[id |-> r, participant |-> job[r].participant,
                                           slot |-> job[r].slot, position |-> myLast[r] + 1]}
      /\ ~Seat(r) => enrolments' = enrolments
      /\ ~AppendToWaitlist(r) => waitlist' = waitlist
  BY TableWriters DEF Seat, InsertEnrolment, AppendToWaitlist
<1>3. Seat(r) \/ AppendToWaitlist(r) => number'[job[r].participant] # 0
  <2>1. ASSUME Seat(r) \/ AppendToWaitlist(r), job[r].endpoint # "register"
        PROVE  number'[job[r].participant] # 0
    <3>1. pc[r] # "idle"
      BY <1>2, <2>1
    <3>2. QED
      BY <1>0, <2>1, <3>1 DEF PersonKnown, LockDiscipline
  <2>2. ASSUME Seat(r) \/ AppendToWaitlist(r), job[r].endpoint = "register"
        PROVE  number'[job[r].participant] # 0
    <3>1. pc[r] \in InTransaction \ {"number"} /\ job[r].participant \in Participants
      BY <1>0, <1>2, <2>2 DEF InTransaction, LockDiscipline
    <3>2. number' = [number EXCEPT ![job[r].participant] = myNumber[r]] /\ myNumber[r] # 0
      BY <1>0, <2>2, <3>1 DEF Seat, AppendToWaitlist, Commit, CommitRegistration, PersonKnown
    <3>3. QED
      BY <1>0, <3>1, <3>2 DEF TypeOK
  <2>3. QED
    BY <2>1, <2>2
<1>4. \A c \in enrolments' \cup waitlist' : number'[c.participant] # 0
  <2>1. \A c \in enrolments \cup waitlist : number'[c.participant] # 0
    BY <1>0 DEF PeopleInv, TypeOK, Enrolments, WaitlistRows
  <2>2. QED
    BY <1>2, <1>3, <2>1
<1>5. \A e \in enrolments', w \in waitlist' : e.id # w.id
  <2>1. \A e \in enrolments, w \in waitlist : e.id # w.id
    BY DEF PeopleInv
  <2>2. Seat(r) \/ AppendToWaitlist(r) => /\ \A e \in enrolments : e.id # r
                                          /\ \A w \in waitlist : w.id # r
    BY <1>0, <1>2 DEF RowsOfSettled, Settled
  <2>3. QED
    BY <1>2, <2>1, <2>2
<1>6. ASSUME NEW q \in Requests
      PROVE  PersonKnown(q)'
  <2>1. CASE q = r
    BY <2>1, OwnPerson
  <2>2. CASE q # r
    <3>1. pc'[q] = pc[q] /\ job'[q] = job[q] /\ myNumber'[q] = myNumber[q]
      BY <2>2, OtherRequests
    <3>2. PersonKnown(q) /\ (pc[q] # "idle" => job[q].participant \in Participants)
      BY <1>0 DEF PeopleInv, LockDiscipline
    <3>3. QED
      BY <1>0, <3>1, <3>2 DEF PersonKnown
  <2>3. QED
    BY <2>1, <2>2
<1>7. QED
  BY <1>4, <1>5, <1>6 DEF PeopleInv

-----------------------------------------------------------------------------
(* What the checks before the transaction have found still holds, as long  *)
(* as nobody else has acted since.                                         *)
Checked(r) ==
    job[r].endpoint # "acceptOffer" =>
        /\ pc[r] \in InTransaction /\ job[r].endpoint = "register" =>
              number[job[r].participant] = 0
        /\ pc[r] \in {"checkWaitlist", "checkOverlap"} \cup InTransaction =>
              \A e \in Occupants(job[r].slot) : e.participant # job[r].participant
        /\ pc[r] \in {"checkOverlap"} \cup InTransaction =>
              \A w \in Active(job[r].slot) : w.participant # job[r].participant

(* The check for overlapping sessions (enrolments.service.ts 28-68). *)
OverlapChecked(r) == pc[r] \in InTransaction => job[r].allowOverlap \/ ~Clashes(r)

(* A request's own step keeps what its checks have found, and adds what the*)
(* step finds (enrolments.service.ts 112-141).                             *)
LEMMA OwnChecks ==
    ASSUME TablesInv, PeopleInv, NEW r \in Requests, Checked(r),
           Arrive(r) \/ Proceed(r) \/ Abort(r)
    PROVE  Checked(r)'
<1> USE DEF TypeOK, Goto
<1>0. TypeOK
  BY DEF TablesInv
<1>1. CASE Register(r)
  <2>1. PICK p \in Participants \ (Registered \cup Registering), slot \in Slots \cup {NoSlot} :
          Start(r, "register", p, slot, Nobody, FALSE, "number")
    BY <1>1 DEF Register
  <2>2. /\ number[p] = 0 /\ job'[r].participant = p
        /\ UNCHANGED <<number, enrolments, waitlist, deletedRows>>
    BY <1>0, <2>1 DEF Start, Registered, tables
  <2>3. \A c \in enrolments \cup waitlist : c.participant # p
    BY <2>2 DEF PeopleInv
  <2>4. QED
    BY <2>2, <2>3 DEF Checked, Occupants, Active
<1>2. CASE Enrol(r) \/ ReEnrol(r)
  <2>1. pc'[r] = "checkEnrolment"
    BY <1>0, <1>2 DEF Enrol, ReEnrol, Start
  <2>2. QED
    BY <2>1 DEF Checked, InTransaction
<1>3. CASE Abort(r) \/ CommitPerson(r) \/ Seat(r) \/ AppendToWaitlist(r)
  <2>1. pc'[r] \in Settled
    BY <1>0, <1>3 DEF Abort, CommitPerson, Seat, AppendToWaitlist, Commit, Settled
  <2>2. QED
    BY <2>1 DEF Checked, InTransaction, Settled
<1>4. CASE CheckEnrolment(r) \/ CheckWaitlist(r) \/ CheckOverlap(r)
  <2>1. PersonKnown(r)
    BY DEF PeopleInv
  <2>2. /\ UNCHANGED <<number, enrolments, waitlist, deletedRows, job>>
        /\ \A s : Occupants(s)' = Occupants(s) /\ Active(s)' = Active(s)
    BY <1>4 DEF CheckEnrolment, CheckWaitlist, CheckOverlap, Check, tables, Occupants, Active
  <2>3. /\ pc[r] \in Prechecks
        /\ \/ pc'[r] = "refused"
           \/ /\ pc'[r] = "checkWaitlist"
              /\ \A e \in Occupants(job[r].slot) : e.participant # job[r].participant
           \/ /\ pc'[r] = "checkOverlap" /\ pc[r] = "checkWaitlist"
              /\ \A w \in Active(job[r].slot) : w.participant # job[r].participant
           \/ /\ pc'[r] = "lock" /\ pc[r] = "checkOverlap"
    BY <1>0, <1>4 DEF CheckEnrolment, CheckWaitlist, CheckOverlap, Check, Prechecks
  <2>4. QED
    BY <2>1, <2>2, <2>3 DEF Checked, PersonKnown, InTransaction
<1>5. CASE TakeNumber(r) \/ LockSlot(r) \/ ReadCapacity(r) \/ CountOccupied(r)
           \/ ReadLastPosition(r)
  <2>1. /\ UNCHANGED <<number, enrolments, waitlist, deletedRows, job>>
        /\ pc[r] \in InTransaction
    BY <1>5 DEF TakeNumber, LockSlot, ReadCapacity, CountOccupied, ReadLastPosition, Read,
                tables, InTransaction
  <2>2. \A s : Occupants(s)' = Occupants(s) /\ Active(s)' = Active(s)
    BY <2>1 DEF Occupants, Active
  <2>3. QED
    BY <2>1, <2>2 DEF Checked
<1>6. QED
  BY <1>1, <1>2, <1>3, <1>4, <1>5 DEF Arrive, Proceed

(* A new claim is the only one of its person on its slot. *)
LEMMA ClaimIsNew ==
    ASSUME TablesInv, PeopleInv, NoDuplicateClaims, NEW r \in Requests, Checked(r),
           job[r].endpoint # "acceptOffer" \/ ~(Seat(r) \/ AppendToWaitlist(r)),
           Arrive(r) \/ Proceed(r) \/ Abort(r)
    PROVE  NoDuplicateClaims'
<1> DEFINE claims == enrolments \cup {w \in waitlist : w.id \notin deletedRows}
<1>1. \A c, d \in claims : c.participant = d.participant /\ c.slot = d.slot => c.id = d.id
  BY DEF NoDuplicateClaims
<1>2. deletedRows' = deletedRows
  BY TableWriters
<1>3. CASE Seat(r) \/ AppendToWaitlist(r)
  <2>1. PICK c : /\ c.id = r /\ c.participant = job[r].participant /\ c.slot = job[r].slot
                 /\ claims' \subseteq claims \cup {c}
    <3>1. CASE Seat(r)
      <4>1. PICK c : c = [id |-> r, participant |-> job[r].participant, slot |-> job[r].slot]
        OBVIOUS
      <4>2. enrolments' = enrolments \cup {c} /\ waitlist' = waitlist
        BY <3>1, <4>1 DEF Seat, InsertEnrolment
      <4>3. QED
        BY <1>2, <4>1, <4>2
    <3>2. CASE AppendToWaitlist(r)
      <4>1. PICK c : c = [id |-> r, participant |-> job[r].participant, slot |-> job[r].slot,
                          position |-> myLast[r] + 1]
        OBVIOUS
      <4>2. waitlist' = waitlist \cup {c} /\ enrolments' = enrolments
        BY <3>2, <4>1 DEF AppendToWaitlist
      <4>3. QED
        BY <1>2, <4>1, <4>2
    <3>3. QED
      BY <1>3, <3>1, <3>2
  <2>2. pc[r] \in InTransaction
    BY <1>3 DEF Seat, AppendToWaitlist, InTransaction
  <2>3. \A d \in claims : d.participant = job[r].participant => d.slot # job[r].slot
    BY <1>3, <2>2 DEF Checked, Occupants, Active
  <2>4. \A d, e \in claims' : d.participant = e.participant /\ d.slot = e.slot => d.id = e.id
    BY <1>1, <2>1, <2>3
  <2>5. QED
    BY <2>4 DEF NoDuplicateClaims
<1>4. CASE ~Seat(r) /\ ~AppendToWaitlist(r)
  BY <1>2, <1>4, TableWriters DEF NoDuplicateClaims
<1>5. QED
  BY <1>3, <1>4

(* The check for overlapping sessions. *)
LEMMA OwnOverlap ==
    ASSUME TablesInv, PeopleInv, NEW r \in Requests, OverlapChecked(r),
           Arrive(r) \/ Proceed(r) \/ Abort(r)
    PROVE  OverlapChecked(r)'
<1> USE DEF TypeOK, Goto
<1>0. TypeOK
  BY DEF TablesInv
<1>1. CASE Register(r)
  <2>1. PICK p \in Participants \ (Registered \cup Registering), slot \in Slots \cup {NoSlot} :
          Start(r, "register", p, slot, Nobody, FALSE, "number")
    BY <1>1 DEF Register
  <2>2. number[p] = 0 /\ job'[r].participant = p /\ enrolments' = enrolments
    BY <1>0, <2>1 DEF Start, Registered, tables
  <2>3. \A c \in enrolments : c.participant # p
    BY <2>2 DEF PeopleInv
  <2>4. QED
    BY <2>2, <2>3 DEF OverlapChecked, Clashes
<1>2. CASE Enrol(r) \/ ReEnrol(r)
  <2>1. pc'[r] = "checkEnrolment"
    BY <1>0, <1>2 DEF Enrol, ReEnrol, Start
  <2>2. QED
    BY <2>1 DEF OverlapChecked, InTransaction
<1>3. CASE Abort(r) \/ CommitPerson(r) \/ Seat(r) \/ AppendToWaitlist(r)
  <2>1. pc'[r] \in Settled
    BY <1>0, <1>3 DEF Abort, CommitPerson, Seat, AppendToWaitlist, Commit, Settled
  <2>2. QED
    BY <2>1 DEF OverlapChecked, InTransaction, Settled
<1>4. CASE CheckEnrolment(r) \/ CheckWaitlist(r) \/ CheckOverlap(r)
  <2>1. UNCHANGED <<enrolments, job>>
        /\ \/ pc'[r] \in {"refused", "checkWaitlist", "checkOverlap"}
           \/ job[r].allowOverlap \/ ~Clashes(r)
    BY <1>0, <1>4 DEF CheckEnrolment, CheckWaitlist, CheckOverlap, Check, tables
  <2>2. QED
    BY <2>1 DEF OverlapChecked, InTransaction, Clashes
<1>5. CASE TakeNumber(r) \/ LockSlot(r) \/ ReadCapacity(r) \/ CountOccupied(r)
           \/ ReadLastPosition(r)
  <2>1. UNCHANGED <<enrolments, job>> /\ pc[r] \in InTransaction
    BY <1>5 DEF TakeNumber, LockSlot, ReadCapacity, CountOccupied, ReadLastPosition, Read,
                tables, InTransaction
  <2>2. QED
    BY <2>1 DEF OverlapChecked, Clashes
<1>6. QED
  BY <1>1, <1>2, <1>3, <1>4, <1>5 DEF Arrive, Proceed

(* A claim that has passed the check for overlaps clashes with no claim. *)
LEMMA SeatsDoNotOverlap ==
    ASSUME TablesInv, NoOverlappingSeats, NEW r \in Requests, OverlapChecked(r),
           Arrive(r) \/ Proceed(r) \/ Abort(r)
    PROVE  NoOverlappingSeats'
<1>1. \A e \in enrolments : e.id \in Requests /\ job'[e.id] = job[e.id]
  <2>1. \A e \in enrolments : e.id \in Requests /\ pc[e.id] \in Settled
    BY DEF TablesInv, TypeOK, Enrolments, RowsOfSettled
  <2>2. ASSUME pc[r] \in Settled
        PROVE  job' = job
    BY <2>2 DEF Arrive, Register, Enrol, ReEnrol, Start, Settled, Abort, InTransaction, Proceed,
         CheckEnrolment, CheckWaitlist, CheckOverlap, Check, TakeNumber, LockSlot,
         ReadCapacity, CountOccupied, ReadLastPosition, Read, CommitPerson, Seat,
         AppendToWaitlist
  <2>3. QED
    BY <2>1, <2>2, OtherRequests
<1>2. CASE ~Seat(r)
  <2>1. enrolments' = enrolments
    BY <1>2, TableWriters
  <2>2. QED
    BY <1>1, <2>1 DEF NoOverlappingSeats
<1>3. CASE Seat(r)
  <2>1. PICK new : new = [id |-> r, participant |-> job[r].participant, slot |-> job[r].slot]
    OBVIOUS
  <2>2. enrolments' = enrolments \cup {new} /\ job' = job /\ pc[r] \in InTransaction
    BY <1>3, <2>1 DEF Seat, InsertEnrolment, Commit, InTransaction
  <2>3. ASSUME NEW c \in enrolments, c.participant = new.participant,
               \/ <<c.slot[1], new.slot[1]>> \in Overlapping
               \/ <<new.slot[1], c.slot[1]>> \in Overlapping
        PROVE  job[r].allowOverlap \/ job[r].previous = c.id
    <3>1. <<c.slot[1], new.slot[1]>> \in Overlapping
      BY <2>3, OverlapAssumption
    <3>2. QED
      BY <2>1, <2>2, <2>3, <3>1 DEF OverlapChecked, Clashes
  <2>4. ASSUME NEW c \in enrolments', NEW d \in enrolments', c # d,
               c.participant = d.participant, <<c.slot[1], d.slot[1]>> \in Overlapping
        PROVE  \/ job[c.id].allowOverlap \/ job[d.id].allowOverlap
               \/ job[c.id].previous = d.id \/ job[d.id].previous = c.id
    <3>1. CASE c \in enrolments /\ d \in enrolments
      BY <2>4, <3>1 DEF NoOverlappingSeats
    <3>2. CASE c = new /\ d \in enrolments
      BY <2>1, <2>3, <2>4, <3>2
    <3>3. CASE c \in enrolments /\ d = new
      BY <2>1, <2>3, <2>4, <3>3
    <3>4. QED
      BY <2>2, <2>4, <3>1, <3>2, <3>3
  <2>5. QED
    BY <2>2, <2>4 DEF NoOverlappingSeats
<1>4. QED
  BY <1>2, <1>3

(* While at most one request is under way. *)
SerialInv ==
    ~overlapped =>
        /\ \A q, r \in UnderWay : q = r
        /\ NoDuplicateClaims /\ NoOverlappingSeats
        /\ \A r \in Requests : Checked(r) /\ OverlapChecked(r)

(* Outside the waitlist nobody accepts offers. *)
NobodyAccepts == \A r \in Requests : job[r].endpoint # "acceptOffer"

(* The inductive invariant of the allocator's history of overlaps. *)
RecordInv == TablesInv /\ PeopleInv /\ NobodyAccepts /\ SerialInv

(* The desk starts no acceptance. *)
LEMMA AcceptsStep ==
    ASSUME TablesInv, NobodyAccepts, [Next]_vars
    PROVE  NobodyAccepts'
<1> USE DEF NobodyAccepts, TablesInv, TypeOK
<1>1. ASSUME NEW r \in Requests, Arrive(r)
      PROVE  NobodyAccepts'
  BY <1>1 DEF Arrive, Register, Enrol, ReEnrol, Start
<1>2. ASSUME NEW r \in Requests, Proceed(r) \/ Abort(r)
      PROVE  job' = job
  BY <1>2 DEF Abort, Proceed, CheckEnrolment, CheckWaitlist, CheckOverlap, Check, TakeNumber,
         LockSlot, ReadCapacity, CountOccupied, ReadLastPosition, Read, CommitPerson, Seat,
         AppendToWaitlist, Commit
<1>3. QED
  BY <1>1, <1>2 DEF Next, UpdateCapacity, vars

(* A request that moves is under way before the step or after it. *)
LEMMA MoverIsUnderWay ==
    ASSUME TablesInv, NEW r \in Requests, Arrive(r) \/ Proceed(r) \/ Abort(r)
    PROVE  r \in UnderWay \/ r \in UnderWay'
<1>1. Proceed(r) => pc[r] \in Prechecks \cup InTransaction
  BY DEF Proceed, CheckEnrolment, CheckWaitlist, CheckOverlap, Check, TakeNumber,
         LockSlot, ReadCapacity, CountOccupied, ReadLastPosition, Read, CommitPerson, Seat,
         AppendToWaitlist, Prechecks, InTransaction
<1>2. Abort(r) => pc[r] \in InTransaction
  BY DEF Abort
<1>3. Arrive(r) => pc'[r] \in Prechecks \cup InTransaction
  BY DEF Arrive, Register, Enrol, ReEnrol, Start, Goto, TablesInv, TypeOK, Prechecks,
         InTransaction
<1>4. QED
  BY <1>1, <1>2, <1>3 DEF UnderWay

(* PeopleInv, PersonKnown and the checks look at these variables only. *)
LEMMA PeopleUnchanged ==
    ASSUME PeopleInv, UNCHANGED <<enrolments, waitlist, number, pc, job, myNumber>>
    PROVE  PeopleInv'
BY DEF PeopleInv, PersonKnown

(* What has been checked still holds in tables nobody has written. *)
LEMMA ChecksUnchanged ==
    ASSUME NEW r \in Requests, UNCHANGED <<enrolments, waitlist, deletedRows, number, pc, job>>
    PROVE  /\ Checked(r)' <=> Checked(r)
           /\ OverlapChecked(r)' <=> OverlapChecked(r)
<1>1. \A s : Occupants(s)' = Occupants(s) /\ Active(s)' = Active(s)
  BY DEF Occupants, Active
<1>2. Clashes(r)' <=> Clashes(r)
  BY DEF Clashes
<1>3. QED
  BY <1>1, <1>2 DEF Checked, OverlapChecked

(* And so does what holds of requests that follow one another. *)
LEMMA SerialUnchanged ==
    ASSUME SerialInv, UNCHANGED <<enrolments, waitlist, deletedRows, number, pc, job>>,
           ~overlapped' => ~overlapped
    PROVE  SerialInv'
<1>1. UnderWay' = UnderWay
  BY DEF UnderWay
<1>2. NoDuplicateClaims => NoDuplicateClaims'
  BY DEF NoDuplicateClaims
<1>3. NoOverlappingSeats => NoOverlappingSeats'
  BY DEF NoOverlappingSeats
<1>4. QED
  BY <1>1, <1>2, <1>3, ChecksUnchanged DEF SerialInv

(* Every step keeps the invariant: a request that moves while no other is  *)
(* under way finds its checks as it left them.                             *)
LEMMA RecordStep ==
    ASSUME RecordInv, [RecordNext]_<<vars, overlapped>>
    PROVE  RecordInv'
<1>0. TablesInv /\ PeopleInv /\ NobodyAccepts /\ [Next]_vars
  BY DEF RecordInv, RecordNext
<1>1. TablesInv'
  BY <1>0, NextType, NextFiniteTables, NextCapacityInRange, NextLockDiscipline,
     NextRowsOfSettled DEF TablesInv
<1>2. NobodyAccepts'
  BY <1>0, AcceptsStep
<1>3. CASE UNCHANGED <<vars, overlapped>>
  <2>1. UNCHANGED <<enrolments, waitlist, deletedRows, number, pc, job, myNumber, overlapped>>
    BY <1>3 DEF vars, tables, reads
  <2>2. PeopleInv' /\ SerialInv'
    BY <2>1, PeopleUnchanged, SerialUnchanged DEF RecordInv
  <2>3. QED
    BY <1>1, <1>2, <2>2 DEF RecordInv
<1>4. CASE RecordNext
  <2>1. overlapped' = (overlapped \/ Cardinality(UnderWay') > 1)
    BY <1>4 DEF RecordNext
  <2>2. ASSUME ~overlapped'
        PROVE  ~overlapped /\ \A q, r \in UnderWay' : q = r
    <3>1. UnderWay' \subseteq Requests
      BY DEF UnderWay
    <3>2. IsFiniteSet(UnderWay')
      BY <3>1, RequestsAssumption, FS_Subset
    <3>3. QED
      BY <2>1, <2>2, <3>2, AtMostOne
  <2>3. ASSUME NEW l \in Locations, NEW c \in 0 .. MaxCapacity, UpdateCapacity(l, c)
        PROVE  PeopleInv' /\ SerialInv'
    <3>1. UNCHANGED <<enrolments, waitlist, deletedRows, number, pc, job, myNumber>>
      BY <2>3 DEF UpdateCapacity, tables, reads
    <3>2. PeopleInv'
      BY <1>0, <3>1, PeopleUnchanged
    <3>3. ~overlapped' => ~overlapped
      BY <2>2
    <3>4. SerialInv'
      BY <3>1, <3>3, SerialUnchanged DEF RecordInv
    <3>5. QED
      BY <3>2, <3>4
  <2>4. ASSUME NEW r \in Requests, Arrive(r) \/ Proceed(r) \/ Abort(r)
        PROVE  PeopleInv' /\ SerialInv'
    <3>1. PeopleInv'
      BY <1>0, <2>4, PeopleStep
    <3>2. ASSUME ~overlapped'
          PROVE  /\ \A q, p \in UnderWay' : q = p
                 /\ NoDuplicateClaims' /\ NoOverlappingSeats'
                 /\ \A q \in Requests : Checked(q)' /\ OverlapChecked(q)'
      <4>0. ~overlapped /\ \A q, p \in UnderWay' : q = p
        BY <2>2, <3>2
      <4>1. /\ \A q, p \in UnderWay : q = p
            /\ \A q, p \in UnderWay' : q = p
            /\ NoDuplicateClaims /\ NoOverlappingSeats
            /\ Checked(r) /\ OverlapChecked(r) /\ job[r].endpoint # "acceptOffer"
        BY <4>0 DEF RecordInv, SerialInv, NobodyAccepts
      <4>2. NoDuplicateClaims' /\ NoOverlappingSeats'
        BY <1>0, <2>4, <4>1, ClaimIsNew, SeatsDoNotOverlap
      <4>3. ASSUME NEW q \in Requests, q # r
            PROVE  pc'[q] \notin Prechecks \cup InTransaction
        <5>1. pc'[q] = pc[q]
          BY <1>0, <2>4, <4>3, OtherRequests
        <5>2. q \in UnderWay' => q \in UnderWay
          BY <5>1 DEF UnderWay
        <5>3. q \notin UnderWay'
          BY <1>0, <2>4, <4>1, <4>3, <5>2, MoverIsUnderWay
        <5>4. QED
          BY <5>3 DEF UnderWay
      <4>4. ASSUME NEW q \in Requests
            PROVE  Checked(q)' /\ OverlapChecked(q)'
        <5>1. CASE q = r
          BY <1>0, <2>4, <4>1, <5>1, OwnChecks, OwnOverlap
        <5>2. CASE q # r
          BY <4>3, <5>2 DEF Checked, OverlapChecked, Prechecks
        <5>3. QED
          BY <5>1, <5>2
      <4>5. QED
        BY <4>1, <4>2, <4>4
    <3>3. QED
      BY <3>1, <3>2 DEF SerialInv
  <2>5. QED
    BY <1>1, <1>2, <1>4, <2>3, <2>4 DEF RecordNext, Next, RecordInv
<1>5. QED
  BY <1>3, <1>4

(* The invariant holds before the first request. *)
LEMMA RecordStart ==
    ASSUME RecordInit
    PROVE  RecordInv
<1>1. Init
  BY DEF RecordInit
<1>2. TablesInv
  BY <1>1, InitSeatInv, SeatTables
<1>3. /\ enrolments = {} /\ waitlist = {}
      /\ pc = [r \in Requests |-> "idle"] /\ job = [r \in Requests |-> NoJob]
  BY <1>1 DEF Init
<1>4. PeopleInv /\ NobodyAccepts
  BY <1>3 DEF PeopleInv, PersonKnown, Prechecks, InTransaction, NobodyAccepts, NoJob
<1>5. SerialInv
  BY <1>3 DEF SerialInv, UnderWay, NoDuplicateClaims, NoOverlappingSeats, Checked,
     OverlapChecked, Prechecks, InTransaction
<1>6. QED
  BY <1>2, <1>4, <1>5 DEF RecordInv

(* The invariant holds in every history of requests at the desk. *)
THEOREM RecordInvariant == RecordSpec => []RecordInv
BY RecordStart, RecordStep, PTL DEF RecordSpec

(* Requests that follow one another keep to the rules their checks are for.*)
THEOREM SerialClaims == RecordSpec => []SerialClaimsAgree
<1>1. RecordInv => SerialClaimsAgree
  BY DEF RecordInv, SerialInv, SerialClaimsAgree
<1>2. QED
  BY <1>1, RecordInvariant, PTL

-----------------------------------------------------------------------------
(* Runners that follow one another *)

(* The row an acceptance is about, and the person and slot it is for. *)
Accepting(r) ==
    /\ at[r] = "rest" => job[r].endpoint # "acceptOffer"
    /\ at[r] = "transaction" =>
          /\ job[r].endpoint = "acceptOffer"
          /\ \E w \in waitlist : /\ w.id = row[r] /\ w.slot = job[r].slot
                                 /\ w.participant = job[r].participant

(* The row a seat was accepted from is deleted, and its call is over. *)
AcceptedRows ==
    \A e \in enrolments :
        job[e.id].endpoint = "acceptOffer" => row[e.id] \in deletedRows /\ at[e.id] = "done"

(* A row is about the person its request was for. *)
RowsAgree == \A w \in waitlist : job[w.id].participant = w.participant

(* Only the cron that is about to expire a batch holds one. *)
BatchIsHeld == batch # {} => at["expireOffers"] = "expire"

(* What rows, jobs and acceptances say of one another, at any concurrency. *)
RowsInv ==
    /\ WaitInv /\ PeopleInv /\ AcceptedRows /\ RowsAgree /\ BatchIsHeld
    /\ \A r \in Requests : Accepting(r)

(* What a step can be. *)
LEMMA KindsOfStep ==
    ASSUME [LifecycleNext]_allVars
    PROVE  \/ \E r \in Requests : EnrolArrives(r) \/ EnrolProceeds(r) \/ AbortTransaction(r)
                                  \/ Allocate(r)
           \/ \E r \in Requests : Recheck(r) \/ Accept(r) \/ NoSeat(r) \/ Withdraw(r)
           \/ \E r \in Requests : CallArrives(r) \/ LosePromotion(r) \/ IssueSentOffer(r)
           \/ \E a \in Runners : TryPromoteNext(a)
           \/ FindExpired \/ ExpireBatch \/ FindVacancies
           \/ \E a \in Crons : NextSlot(a) \/ EndRun(a)
           \/ \E l \in Locations, c \in 0 .. MaxCapacity : EditCapacity(l, c)
           \/ Tick \/ UNCHANGED allVars
BY DEF LifecycleNext, CallProceeds, CronStep, Runners

(* The allocator's steps under the lifecycle. *)
LEMMA AllocatorSteps ==
    ASSUME NEW r \in Requests,
           EnrolArrives(r) \/ EnrolProceeds(r) \/ AbortTransaction(r) \/ Allocate(r)
    PROVE  /\ Arrive(r) \/ Proceed(r) \/ Abort(r)
           /\ UNCHANGED <<now, offer, row, goal, seenCapacity, batch, todo>>
           /\ \/ EnrolArrives(r) \/ EnrolProceeds(r) \/ UNCHANGED <<enrolments, waitlist>>
           /\ UNCHANGED at \/ AbortTransaction(r)
           /\ AbortTransaction(r) => at' = [at EXCEPT ![r] = IF at[r] = "transaction"
                                                             THEN "refused" ELSE at[r]]
<1>1. CASE EnrolArrives(r) \/ EnrolProceeds(r)
  BY <1>1 DEF EnrolArrives, EnrolProceeds, AbortTransaction, Move, lifecycle
<1>2. CASE AbortTransaction(r)
  BY <1>2 DEF AbortTransaction, Abort, tables, Move
<1>3. CASE Allocate(r)
  <2>1. Proceed(r) /\ UNCHANGED <<enrolments, waitlist>> /\ UNCHANGED lifecycle
    BY <1>3 DEF Allocate, Proceed, LockSlot, ReadCapacity, CountOccupied, ReadLastPosition,
                Read, tables
  <2>2. QED
    BY <2>1 DEF lifecycle, AbortTransaction, Move
<1>4. QED
  BY <1>1, <1>2, <1>3

(* What a settled request was asked to do stays known. *)
LEMMA SettledJobs ==
    ASSUME WaitInv, [LifecycleNext]_allVars, NEW q \in Requests, pc[q] \in Settled
    PROVE  job'[q] = job[q]
<1>0. TablesInv /\ TypeOK
  BY DEF WaitInv, TablesInv
<1>1. ASSUME NEW r \in Requests, Arrive(r) \/ Proceed(r) \/ Abort(r)
      PROVE  job'[q] = job[q]
  <2>1. CASE r = q
    BY <1>1, <2>1 DEF Arrive, Register, Enrol, ReEnrol, Start, Settled, Abort, InTransaction,
         Proceed, CheckEnrolment, CheckWaitlist, CheckOverlap, Check, TakeNumber, LockSlot,
         ReadCapacity, CountOccupied, ReadLastPosition, Read, CommitPerson, Seat,
         AppendToWaitlist
  <2>2. CASE r # q
    BY <1>0, <1>1, <2>2, OtherRequests
  <2>3. QED
    BY <2>1, <2>2
<1>2. ASSUME NEW r \in Requests, Accept(r) \/ NoSeat(r) \/ Recheck(r) \/ Withdraw(r)
      PROVE  job'[q] = job[q]
  <2>1. CASE r = q
    <3>1. ~Recheck(q)
      BY WaitFacts DEF WaitInv, CallOK, Recheck, Settled
    <3>2. QED
      BY <1>2, <2>1, <3>1 DEF Accept, NoSeat, Withdraw
  <2>2. CASE r # q
    BY <1>2, <2>2, WaitlistCalls
  <2>3. QED
    BY <2>1, <2>2
<1>3. QED
  BY <1>1, <1>2, LifecycleSteps DEF Next, UpdateCapacity, vars

(* Who was at rest, who is in a transaction, and who has done.             *)
LEMMA Transitions ==
    ASSUME WaitInv, [LifecycleNext]_allVars, NEW q \in Requests
    PROVE  /\ at[q] = "done" => at'[q] = "done" /\ row'[q] = row[q]
           /\ at'[q] = "rest" => at[q] = "rest" /\ (job'[q] = job[q]
                                                    \/ job'[q].endpoint # "acceptOffer")
           /\ at'[q] = "transaction" =>
                 \/ at[q] = "transaction" /\ row'[q] = row[q] /\ job'[q] = job[q]
                 \/ Recheck(q)
<1> DEFINE Goal == /\ at[q] = "done" => at'[q] = "done" /\ row'[q] = row[q]
                   /\ at'[q] = "rest" => at[q] = "rest" /\ (job'[q] = job[q]
                                                            \/ job'[q].endpoint # "acceptOffer")
                   /\ at'[q] = "transaction" =>
                         \/ at[q] = "transaction" /\ row'[q] = row[q] /\ job'[q] = job[q]
                         \/ Recheck(q)
<1>0. /\ TablesInv /\ at \in [Runners -> Places] /\ q \in Runners
      /\ row \in [Runners -> Requests \cup {Nobody}] /\ waitlist \subseteq waitlist'
      /\ job \in [Requests -> Jobs] /\ Crons \cap Requests = {}
  BY WaitFacts, LifecycleSteps, RowsStay, CronsAssumption DEF WaitInv, TablesInv, TypeOK
<1>1. ASSUME NEW b \in Runners, b # q, Moves(b), job'[q] = job[q]
      PROVE  Goal
  BY <1>0, <1>1, AfterMove
<1>2. ASSUME UNCHANGED <<at, row, job>>
      PROVE  Goal
  BY <1>2
<1>3. ASSUME NEW r \in Requests, EnrolArrives(r) \/ EnrolProceeds(r) \/ Allocate(r)
      PROVE  Goal
  <2>1. UNCHANGED <<at, row>> /\ (Arrive(r) \/ Proceed(r)) /\ (at[r] # "rest" => ~Arrive(r) \/ Proceed(r))
        /\ (EnrolArrives(r) => at[r] = "rest" /\ Arrive(r))
        /\ (~EnrolArrives(r) => Proceed(r))
    BY <1>3 DEF EnrolArrives, EnrolProceeds, Allocate, lifecycle, Proceed
  <2>2. Proceed(r) => job' = job
    BY DEF Proceed, CheckEnrolment, CheckWaitlist, CheckOverlap, Check, TakeNumber, LockSlot,
           ReadCapacity, CountOccupied, ReadLastPosition, Read, CommitPerson, Seat,
           AppendToWaitlist, Commit
  <2>3. Arrive(r) => job'[r].endpoint # "acceptOffer"
    BY <1>0 DEF Arrive, Register, Enrol, ReEnrol, Start
  <2>4. r # q => job'[q] = job[q]
    BY <1>0, <2>1, OtherRequests
  <2>5. QED
    BY <2>1, <2>2, <2>3, <2>4
<1>4. ASSUME NEW r \in Requests,
             \/ Recheck(r) \/ Accept(r) \/ NoSeat(r) \/ Withdraw(r) \/ IssueSentOffer(r)
             \/ AbortTransaction(r) \/ LosePromotion(r)
      PROVE  Goal
  <2>1. Moves(r) /\ r \in Runners
    BY <1>4, CallStepMoves, WaitFacts
  <2>2. r # q => job'[q] = job[q]
    BY <1>0, <1>4, OtherRequests, WaitlistCalls
    DEF IssueSentOffer, PromotionStep, AbortTransaction, LosePromotion, vars
  <2>3. CASE r # q
    BY <1>1, <2>1, <2>2, <2>3
  <2>4. CASE r = q /\ (Accept(q) \/ NoSeat(q) \/ Withdraw(q) \/ IssueSentOffer(q)
                       \/ LosePromotion(q))
    <3>1. at[q] \notin {"done", "rest"} /\ at'[q] \in {"done", "refused", "capacity"}
      BY <1>0, <2>4 DEF Accept, NoSeat, Withdraw, IssueSentOffer, PromotionStep, LosePromotion,
         Promote, Move, Promoting
    <3>2. QED
      BY <3>1
  <2>5. CASE r = q /\ Recheck(q)
    <3>1. at[q] = "recheck" /\ at'[q] \in {"transaction", "refused"}
      BY <1>0, <2>5 DEF Recheck, Move
    <3>2. QED
      BY <2>5, <3>1
  <2>6. CASE r = q /\ AbortTransaction(q)
    <3>1. UNCHANGED <<row, job>> /\ at'[q] \in {"refused", at[q]}
          /\ (at[q] = "transaction" => at'[q] = "refused")
          /\ (at[q] # "transaction" => at'[q] = at[q])
      BY <1>0, <2>6 DEF AbortTransaction, Abort, Move
    <3>2. QED
      BY <3>1
  <2>7. QED
    BY <1>4, <2>3, <2>4, <2>5, <2>6
<1>5. ASSUME NEW r \in Requests, CallArrives(r)
      PROVE  Goal
  <2>1. Moves(r) /\ at[r] = "rest" /\ at'[r] \notin {"rest", "transaction"} /\ job' = job
    BY <1>5, CallMoves DEF vars
  <2>2. QED
    BY <1>1, <2>1, WaitFacts
<1>6. ASSUME NEW a \in Runners, TryPromoteNext(a)
      PROVE  Goal
  <2>1. Moves(a) /\ at[a] \in Promoting /\ at'[a] \notin {"rest", "transaction"} /\ job' = job
    BY <1>6, PromotionMoves DEF vars, Promoting
  <2>2. QED
    BY <1>1, <2>1 DEF Promoting
<1>7. ASSUME NEW a \in Crons, CronStep(a)
      PROVE  Goal
  BY <1>0, <1>1, <1>7, CronMovesOn, WaitFacts DEF vars
<1>8. ASSUME NEW l \in Locations, NEW c \in 0 .. MaxCapacity, EditCapacity(l, c)
      PROVE  Goal
  BY <1>2, <1>8 DEF EditCapacity, UpdateCapacity, lifecycle
<1>9. Tick \/ UNCHANGED allVars => UNCHANGED <<at, row, job>>
  BY DEF Tick, allVars, lifecycle, vars
<1> HIDE DEF Goal
<1>10. Goal
  BY <1>3, <1>4, <1>5, <1>6, <1>7, <1>8, <1>9, <1>2, WaitFacts DEF LifecycleNext, CallProceeds
<1>11. QED
  BY <1>10 DEF Goal

(* The people rows and jobs name stay registered. *)
LEMMA WaitPeople ==
    ASSUME RowsInv, [LifecycleNext]_allVars
    PROVE  PeopleInv'
<1>0. WaitInv /\ PeopleInv /\ TablesInv /\ TypeOK /\ LockDiscipline /\ RowsOfSettled
      /\ CapacityInRange
  BY DEF RowsInv, WaitInv, TablesInv
<1>1. ASSUME NEW r \in Requests, Arrive(r) \/ Proceed(r) \/ Abort(r)
      PROVE  PeopleInv'
  BY <1>0, <1>1, PeopleStep
<1>2. ASSUME UNCHANGED <<enrolments, waitlist, number, pc, job, myNumber>>
      PROVE  PeopleInv'
  BY <1>0, <1>2, PeopleUnchanged
<1>3. ASSUME NEW r \in Requests, Accept(r) \/ NoSeat(r) \/ Recheck(r) \/ Withdraw(r)
      PROVE  PeopleInv'
  <2>1. UNCHANGED <<number, waitlist, myNumber>>
    BY <1>3, WaitlistCallsKeep DEF reads
  <2>2. r \in Runners /\ PersonKnown(r) /\ Accepting(r)
    BY <1>0, WaitFacts DEF PeopleInv, RowsInv
  <2>3. ASSUME NEW q \in Requests, q # r
        PROVE  PersonKnown(q)'
    <3>1. pc'[q] = pc[q] /\ job'[q] = job[q]
      BY <1>0, <1>3, <2>3, WaitlistCalls
    <3>2. PersonKnown(q)
      BY <1>0 DEF PeopleInv
    <3>3. QED
      BY <2>1, <3>1, <3>2 DEF PersonKnown
  <2>4. PersonKnown(r)'
    <3>1. CASE UNCHANGED <<pc, job>>
      BY <2>1, <2>2, <3>1 DEF PersonKnown
    <3>2. CASE Accept(r) \/ NoSeat(r)
      <4>1. pc[r] # "idle" /\ pc'[r] \in {"enrolled", "refused"} /\ job' = job
        BY <1>0, <3>2 DEF Accept, NoSeat, Goto, TypeOK
      <4>2. QED
        BY <2>1, <2>2, <4>1 DEF PersonKnown, Prechecks, InTransaction
    <3>3. CASE Recheck(r) /\ ~UNCHANGED <<pc, job>>
      <4>1. at[r] = "recheck" /\ pc' = [pc EXCEPT ![r] = "lock"]
            /\ job'[r].endpoint = "acceptOffer"
            /\ job'[r].participant = job[row[r]].participant
        BY <1>0, <3>3 DEF Recheck, Goto, TypeOK
      <4>2. PICK w \in waitlist : w.id = row[r]
        BY <2>2, <4>1, <1>0, WaitFacts DEF RowIds, Knowing
      <4>3. job[row[r]].participant = w.participant
        BY <4>2 DEF RowsInv, RowsAgree
      <4>4. number[w.participant] # 0
        BY <1>0 DEF PeopleInv
      <4>5. QED
        BY <1>0, <2>1, <4>1, <4>3, <4>4 DEF PersonKnown, Prechecks, TypeOK
    <3>4. Withdraw(r) => UNCHANGED <<pc, job>>
      BY DEF Withdraw
    <3>5. QED
      BY <1>3, <3>1, <3>2, <3>3, <3>4
  <2>5. \A c \in enrolments' \cup waitlist' : number'[c.participant] # 0
    <3>1. \A c \in enrolments \cup waitlist : number[c.participant] # 0
      BY <1>0 DEF PeopleInv
    <3>2. CASE UNCHANGED enrolments
      BY <2>1, <3>1, <3>2
    <3>3. CASE Accept(r)
      <4>1. /\ enrolments' = enrolments \cup {[id |-> r, participant |-> job[r].participant,
                                               slot |-> job[r].slot]}
            /\ at[r] = "transaction" /\ pc[r] = "seat"
        BY <3>3 DEF Accept, InsertEnrolment
      <4>2. number[job[r].participant] # 0
        BY <2>2, <4>1 DEF Accepting, PersonKnown
      <4>3. QED
        BY <2>1, <3>1, <4>1, <4>2
    <3>4. QED
      BY <1>3, <3>2, <3>3, WaitlistCallsKeep
  <2>6. \A e \in enrolments', w \in waitlist' : e.id # w.id
    <3>1. \A e \in enrolments, w \in waitlist : e.id # w.id
      BY <1>0 DEF PeopleInv
    <3>2. CASE UNCHANGED enrolments
      BY <2>1, <3>1, <3>2
    <3>3. CASE Accept(r)
      <4>1. /\ enrolments' = enrolments \cup {[id |-> r, participant |-> job[r].participant,
                                               slot |-> job[r].slot]}
            /\ pc[r] = "seat"
        BY <3>3 DEF Accept, InsertEnrolment
      <4>2. \A w \in waitlist : w.id # r
        BY <1>0, <4>1 DEF RowsOfSettled, Settled
      <4>3. QED
        BY <2>1, <3>1, <4>1, <4>2
    <3>4. QED
      BY <1>3, <3>2, <3>3, WaitlistCallsKeep
  <2>7. QED
    BY <2>3, <2>4, <2>5, <2>6 DEF PeopleInv
<1>4. QED
  BY <1>1, <1>2, <1>3, LifecycleSteps DEF Next, UpdateCapacity, vars, tables, reads

(* Who adds an enrolment: somebody at the desk, or somebody who accepts.   *)
LEMMA NewSeats ==
    ASSUME RowsInv, [LifecycleNext]_allVars
    PROVE  \/ UNCHANGED enrolments
           \/ \E r \in Requests :
                 /\ enrolments' = enrolments \cup {[id |-> r, participant |-> job[r].participant,
                                                   slot |-> job[r].slot]}
                 /\ job'[r] = job[r]
                 /\ Accept(r) \/ job[r].endpoint # "acceptOffer"
<1>0. WaitInv
  BY DEF RowsInv
<1>1. ASSUME NEW r \in Requests, EnrolArrives(r) \/ EnrolProceeds(r), ~UNCHANGED enrolments
      PROVE  /\ enrolments' = enrolments \cup {[id |-> r, participant |-> job[r].participant,
                                                slot |-> job[r].slot]}
             /\ job'[r] = job[r] /\ job[r].endpoint # "acceptOffer"
  <2>1. Seat(r) /\ at[r] = "rest"
    BY <1>1, AllocatorSteps, TableWriters DEF EnrolArrives, EnrolProceeds
  <2>2. job[r].endpoint # "acceptOffer"
    BY <2>1 DEF RowsInv, Accepting
  <2>3. QED
    BY <2>1, <2>2 DEF Seat, InsertEnrolment, Commit
<1>2. ASSUME NEW r \in Requests, Accept(r)
      PROVE  /\ enrolments' = enrolments \cup {[id |-> r, participant |-> job[r].participant,
                                                slot |-> job[r].slot]}
             /\ job'[r] = job[r]
  BY <1>2 DEF Accept, InsertEnrolment
<1>3. ASSUME NEW r \in Requests, NoSeat(r) \/ Recheck(r) \/ Withdraw(r)
      PROVE  UNCHANGED enrolments
  BY <1>3 DEF NoSeat, Recheck, Withdraw, tables
<1>4. ASSUME NEW r \in Requests, CallArrives(r) \/ LosePromotion(r) \/ IssueSentOffer(r)
      PROVE  UNCHANGED enrolments
  BY <1>0, <1>4, CallMoves DEF LosePromotion, IssueSentOffer, PromotionStep, vars, tables
<1>5. ASSUME NEW a \in Runners, TryPromoteNext(a)
      PROVE  UNCHANGED enrolments
  BY <1>0, <1>5, PromotionMoves DEF vars, tables
<1>6. ASSUME \/ FindExpired \/ ExpireBatch \/ FindVacancies
             \/ \E a \in Crons : NextSlot(a) \/ EndRun(a)
             \/ \E l \in Locations, c \in 0 .. MaxCapacity : EditCapacity(l, c)
             \/ Tick \/ UNCHANGED allVars
      PROVE  UNCHANGED enrolments
  BY <1>6 DEF FindExpired, ExpireBatch, FindVacancies, NextSlot, EndRun, EditCapacity,
       UpdateCapacity, Tick, allVars, vars, tables
<1>7. QED
  BY <1>1, <1>2, <1>3, <1>4, <1>5, <1>6, KindsOfStep, AllocatorSteps

(* What rows, jobs and acceptances say of one another.                     *)
LEMMA WaitRows ==
    ASSUME RowsInv, [LifecycleNext]_allVars
    PROVE  /\ AcceptedRows' /\ RowsAgree'
           /\ \A r \in Requests : Accepting(r)'
<1>0. WaitInv /\ TablesInv /\ TypeOK /\ RowsOfSettled
  BY DEF RowsInv, WaitInv, TablesInv
<1>1. waitlist \subseteq waitlist' /\ deletedRows \subseteq deletedRows'
  BY LifecycleSteps, RowsStay
<1>2. ASSUME NEW r \in Requests, AppendToWaitlist(r)
      PROVE  RowsAgree'
  <2>1. waitlist' = waitlist \cup {[id |-> r, participant |-> job[r].participant,
                                    slot |-> job[r].slot, position |-> myLast[r] + 1]}
        /\ job' = job
    BY <1>2 DEF AppendToWaitlist, Commit
  <2>2. QED
    BY <2>1 DEF RowsInv, RowsAgree
<1>3. ASSUME UNCHANGED waitlist
      PROVE  RowsAgree'
  <2>1. \A w \in waitlist : w.id \in Requests /\ pc[w.id] \in Settled
    BY <1>0 DEF TypeOK, WaitlistRows, RowsOfSettled
  <2>2. \A w \in waitlist : job'[w.id] = job[w.id]
    BY <1>0, <2>1, SettledJobs
  <2>3. QED
    BY <1>3, <2>2 DEF RowsInv, RowsAgree
<1>4. RowsAgree'
  <2>1. \/ UNCHANGED waitlist \/ \E r \in Requests : AppendToWaitlist(r)
    BY LifecycleSteps, TableWriters, WaitlistCallsKeep DEF Next, UpdateCapacity, vars, tables
  <2>2. QED
    BY <1>2, <1>3, <2>1
<1>5. AcceptedRows'
  <2>1. ASSUME NEW e \in enrolments, job'[e.id].endpoint = "acceptOffer"
        PROVE  row'[e.id] \in deletedRows' /\ at'[e.id] = "done"
    <3>1. e.id \in Requests /\ pc[e.id] \in Settled
      BY <1>0 DEF TypeOK, Enrolments, RowsOfSettled
    <3>2. job'[e.id] = job[e.id]
      BY <1>0, <3>1, SettledJobs
    <3>3. row[e.id] \in deletedRows /\ at[e.id] = "done"
      BY <2>1, <3>2 DEF RowsInv, AcceptedRows
    <3>4. QED
      BY <1>0, <1>1, <3>1, <3>3, Transitions
  <2>2. ASSUME NEW r \in Requests, Accept(r)
        PROVE  row'[r] \in deletedRows' /\ at'[r] = "done"
    BY <1>0, <2>2, WaitFacts DEF Accept, Move
  <2>3. QED
    BY <2>1, <2>2, NewSeats DEF AcceptedRows
<1>6. ASSUME NEW q \in Requests
      PROVE  Accepting(q)'
  <2>0. Accepting(q) /\ q \in Runners
    BY <1>0, WaitFacts DEF RowsInv
  <2>1. at'[q] = "rest" => job'[q].endpoint # "acceptOffer"
    BY <1>0, <2>0, Transitions DEF Accepting
  <2>2. CASE at'[q] = "transaction" /\ at[q] = "transaction" /\ row'[q] = row[q]
             /\ job'[q] = job[q]
    BY <1>1, <2>0, <2>2 DEF Accepting
  <2>3. CASE at'[q] = "transaction" /\ Recheck(q)
    <3>1. at[q] = "recheck" /\ row'[q] = row[q] /\ waitlist' = waitlist
      BY <2>3 DEF Recheck, tables
    <3>3. at' # [at EXCEPT ![q] = "refused"]
      BY <1>0, <2>0, <2>3, WaitFacts
    <3>4. job' = [job EXCEPT ![q] = [endpoint |-> "acceptOffer",
                                     participant |-> job[row[q]].participant,
                                     slot |-> SlotOfRow(row[q]),
                                     previous |-> Nobody, allowOverlap |-> FALSE]]
      BY <2>3, <3>3 DEF Recheck, Move
    <3>5. /\ job'[q].endpoint = "acceptOffer" /\ job'[q].participant = job[row[q]].participant
          /\ job'[q].slot = SlotOfRow(row[q])
      BY <1>0, <3>4 DEF TypeOK
    <3>6. PICK w \in waitlist : w.id = row[q]
      BY <1>0, <2>0, <3>1, WaitFacts DEF RowIds, Knowing
    <3>7. SlotOfRow(row[q]) = w.slot /\ job[row[q]].participant = w.participant
      BY <1>0, <3>6, SlotOfRowIs DEF WaitInv, RowsInv, RowsAgree
    <3>8. QED
      BY <2>3, <3>1, <3>5, <3>6, <3>7 DEF Accepting
  <2>4. QED
    BY <1>0, <2>1, <2>2, <2>3, Transitions DEF Accepting
<1>7. QED
  BY <1>4, <1>5, <1>6

(* What a runner may rely on that nobody has raced with. *)
RunnerSerial(a) ==
    /\ at[a] \in {"pick", "issue"} => \A w \in Active(goal[a]) : ~Outstanding(w.id)
    /\ at[a] \in {"issue", "send"} => IsPending(row[a])
    /\ a \in Requests => Checked(a) /\ (at[a] = "transaction" => row[a] \notin deletedRows)

(* A row with a token is open (waitlist.service.ts 410-426). *)
TokensWork == \A id \in Requests : offer[id].token # 0 => IsPending(id)

(* What the tables keep to while no two runners have raced. *)
SerialTables == NoDuplicateClaims /\ TokensWork /\ BatchHasLapsed

(* While no two runners have raced, one at most is running. *)
SerialRunInv ==
    ~raced =>
        /\ \A a, b \in Running : a = b
        /\ SerialTables /\ OneSeatPerRow
        /\ \A a \in Runners : RunnerSerial(a)

(* The inductive invariant of the waitlist's history of races. *)
RunInv == RowsInv /\ SerialRunInv

(* A runner that is not running relies on nothing. *)
LEMMA IdleRunner ==
    ASSUME NEW b \in Runners, b \notin Running'
    PROVE  RunnerSerial(b)'
<1>1. /\ at'[b] \in {"rest", "done", "refused"}
      /\ b \in Requests => pc'[b] \notin Prechecks \cup InTransaction
  BY DEF Running, UnderWay
<1>2. b \in Requests => Checked(b)'
  BY <1>1 DEF Checked, Prechecks
<1>3. QED
  BY <1>1, <1>2 DEF RunnerSerial

(* Rows that are marked deleted are no claims any more. *)
LEMMA FewerClaims ==
    ASSUME NoDuplicateClaims, UNCHANGED <<enrolments, waitlist>>, deletedRows \subseteq deletedRows'
    PROVE  NoDuplicateClaims'
BY DEF NoDuplicateClaims

(* Time only makes offers lapse. *)
LEMMA OffersUnchanged ==
    ASSUME WaitInv, TokensWork, BatchHasLapsed, UNCHANGED <<offer, batch>>,
           now' = now \/ now' = now + 1
    PROVE  TokensWork' /\ BatchHasLapsed'
<1>1. TokensWork'
  BY DEF TokensWork, IsPending
<1>2. ASSUME NEW id \in batch'
      PROVE  IsPending(id)' /\ HasLapsed(id)'
  <2>1. id \in Requests /\ IsPending(id) /\ HasLapsed(id)
    BY <1>2, WaitFacts DEF BatchHasLapsed, LifecycleTables
  <2>2. offer[id].expiresAt \in Nat /\ now \in Nat
    BY <2>1, WaitFacts DEF LifecycleTables, Offers
  <2>3. QED
    BY <2>1, <2>2 DEF IsPending, HasLapsed, Sent
<1>3. QED
  BY <1>1, <1>2 DEF BatchHasLapsed

(* A batch is held by the cron that has found it. *)
LEMMA NoBatch ==
    ASSUME WaitInv, BatchIsHeld, \A a, b \in Running : a = b,
           NEW a \in Runners, at[a] \notin {"rest", "done", "refused", "expire"}
    PROVE  batch = {}
<1>1. "expireOffers" \in Runners
  BY DEF Runners, Crons
<1>2. a \in Running
  BY DEF Running
<1>3. at["expireOffers"] = "expire" => "expireOffers" \in Running
  BY <1>1 DEF Running
<1>4. QED
  BY <1>2, <1>3 DEF BatchIsHeld

(* An offer written to a row that waits keeps its tokens working. *)
LEMMA TokensStay ==
    ASSUME WaitInv, TokensWork, NEW id \in Requests,
           \/ WriteOffer(id) /\ IsPending(id)
           \/ Answered(id, "ACCEPTED") \/ Answered(id, "DECLINED")
    PROVE  TokensWork'
<1>0. offer \in [Requests -> Offers]
  BY WaitFacts DEF LifecycleTables
<1>1. ASSUME NEW i \in Requests, i # id
      PROVE  offer'[i] = offer[i]
  BY <1>0, <1>1 DEF WriteOffer, Answered
<1>2. CASE WriteOffer(id) /\ IsPending(id)
  <2>1. offer'[id].status = offer[id].status
    BY <1>0, <1>2 DEF WriteOffer
  <2>2. QED
    BY <1>1, <1>2, <2>1 DEF TokensWork, IsPending
<1>3. CASE Answered(id, "ACCEPTED") \/ Answered(id, "DECLINED")
  <2>1. offer'[id].token = 0
    BY <1>0, <1>3 DEF Answered
  <2>2. QED
    BY <1>1, <2>1 DEF TokensWork, IsPending
<1>4. QED
  BY <1>2, <1>3

(* Steps of the allocator. *)
LEMMA SerialAllocator ==
    ASSUME RowsInv, SerialTables, NEW r \in Requests, RunnerSerial(r),
           EnrolArrives(r) \/ EnrolProceeds(r) \/ AbortTransaction(r) \/ Allocate(r)
    PROVE  SerialTables' /\ RunnerSerial(r)' /\ (r \in Running \/ r \in Running')
<1>0. /\ WaitInv /\ TablesInv /\ TypeOK /\ PeopleInv /\ Accepting(r) /\ Checked(r)
      /\ at \in [Runners -> Places] /\ r \in Runners
  BY WaitFacts DEF RowsInv, WaitInv, TablesInv, RunnerSerial
<1>1. /\ Arrive(r) \/ Proceed(r) \/ Abort(r)
      /\ UNCHANGED <<now, offer, row, goal, seenCapacity, batch, todo, deletedRows>>
  BY AllocatorSteps, TableWriters
<1>2. TokensWork' /\ BatchHasLapsed'
  BY <1>0, <1>1, OffersUnchanged DEF SerialTables
<1>3. NoDuplicateClaims'
  <2>1. CASE UNCHANGED <<enrolments, waitlist>>
    BY <1>1, <2>1, FewerClaims DEF SerialTables
  <2>2. CASE EnrolArrives(r) \/ EnrolProceeds(r)
    <3>1. job[r].endpoint # "acceptOffer"
      BY <1>0, <2>2 DEF EnrolArrives, EnrolProceeds, Accepting
    <3>2. QED
      BY <1>0, <1>1, <3>1, ClaimIsNew DEF SerialTables
  <2>3. QED
    BY <2>1, <2>2, AllocatorSteps
<1>4. Checked(r)'
  BY <1>0, <1>1, OwnChecks
<1>5. r \in UnderWay \/ r \in UnderWay'
  BY <1>0, <1>1, MoverIsUnderWay
<1>6. CASE UNCHANGED at /\ at[r] \in {"rest", "transaction"}
  BY <1>0, <1>1, <1>2, <1>3, <1>4, <1>5, <1>6 DEF SerialTables, RunnerSerial, Running
<1>7. CASE AbortTransaction(r)
  <2>1. at'[r] \in {"refused", at[r]} /\ at'[r] # "transaction"
        /\ UNCHANGED <<waitlist, deletedRows, offer, now, row, goal>>
    BY <1>0, <1>7, AllocatorSteps DEF AbortTransaction, Abort, tables
  <2>2. Active(goal[r])' = Active(goal[r])
    BY <2>1 DEF Active
  <2>3. QED
    BY <1>0, <1>2, <1>3, <1>4, <1>5, <2>1, <2>2
    DEF SerialTables, RunnerSerial, Running, Outstanding, IsPending, Sent
<1>8. \/ UNCHANGED at /\ at[r] \in {"rest", "transaction"}
      \/ AbortTransaction(r)
  BY <1>0, AllocatorSteps DEF EnrolArrives, EnrolProceeds, Allocate, lifecycle
<1>9. QED
  BY <1>6, <1>7, <1>8

(* Steps of an acceptance and of a withdrawal. *)
LEMMA SerialAnswers ==
    ASSUME RowsInv, \A a, b \in Running : a = b,
           SerialTables, NEW r \in Requests, RunnerSerial(r),
           Recheck(r) \/ Accept(r) \/ NoSeat(r) \/ Withdraw(r)
    PROVE  SerialTables' /\ RunnerSerial(r)' /\ r \in Running
<1>0. /\ WaitInv /\ TablesInv /\ TypeOK /\ PeopleInv /\ Accepting(r) /\ Checked(r) /\ CallOK(r)
      /\ BatchIsHeld /\ RowIdsDistinct /\ TokensWork /\ BatchHasLapsed /\ NoDuplicateClaims
      /\ at \in [Runners -> Places] /\ r \in Runners
  BY WaitFacts DEF RowsInv, WaitInv, TablesInv, RunnerSerial, SerialTables
<1>1. at[r] \in {"recheck", "transaction", "withdraw"}
  BY DEF Recheck, Accept, NoSeat, Withdraw
<1>2. row[r] \in Requests /\ row[r] \in RowIds
  BY <1>0, <1>1, WaitFacts DEF Knowing
<1>3. r \in Running
  BY <1>0, <1>1 DEF Running
<1>4. batch = {}
  BY <1>0, <1>1, NoBatch
<1>5. CASE Recheck(r)
  <2>1. UNCHANGED <<enrolments, waitlist, deletedRows, number, offer, now, batch, row, goal>>
        /\ at'[r] \in {"transaction", "refused"}
        /\ (at'[r] = "transaction" => row[r] \notin deletedRows)
    BY <1>0, <1>5 DEF Recheck, Move, tables
  <2>2. SerialTables'
    BY <1>0, <2>1, FewerClaims, OffersUnchanged DEF SerialTables
  <2>3. Checked(r)'
    <3>1. job'[r].endpoint = "acceptOffer" \/ pc' = pc
      BY <1>0, <1>5 DEF Recheck, TypeOK
    <3>2. pc[r] = "idle"
      BY <1>0, <1>5 DEF Recheck, CallOK
    <3>3. QED
      BY <3>1, <3>2 DEF Checked, InTransaction
  <2>4. QED
    BY <1>3, <2>1, <2>2, <2>3 DEF RunnerSerial
<1>6. CASE NoSeat(r)
  <2>1. UNCHANGED <<enrolments, waitlist, deletedRows, offer, now, batch, row, goal>>
        /\ at'[r] = "refused" /\ pc'[r] = "refused"
    BY <1>0, <1>6 DEF NoSeat, Move, Goto, tables, TypeOK
  <2>2. SerialTables'
    BY <1>0, <2>1, FewerClaims, OffersUnchanged DEF SerialTables
  <2>3. QED
    BY <1>3, <2>1, <2>2 DEF RunnerSerial, Checked, InTransaction
<1>7. CASE Withdraw(r)
  <2>1. /\ UNCHANGED <<enrolments, waitlist, number, pc, job, batch>> /\ Answered(row[r], "DECLINED")
        /\ deletedRows \subseteq deletedRows' /\ at'[r] = "capacity"
    BY <1>0, <1>7 DEF Withdraw, Promote, Move
  <2>2. SerialTables'
    BY <1>0, <1>2, <1>4, <2>1, FewerClaims, TokensStay DEF SerialTables, BatchHasLapsed
  <2>3. Checked(r)'
    <3>1. \A s : Occupants(s)' = Occupants(s) /\ Active(s)' \subseteq Active(s)
      BY <2>1 DEF Occupants, Active
    <3>2. QED
      BY <1>0, <2>1, <3>1 DEF Checked
  <2>4. QED
    BY <1>3, <2>1, <2>2, <2>3 DEF RunnerSerial
<1>8. CASE Accept(r)
  <2>1. /\ enrolments' = enrolments \cup {[id |-> r, participant |-> job[r].participant,
                                           slot |-> job[r].slot]}
        /\ deletedRows' = deletedRows \cup {row[r]} /\ Answered(row[r], "ACCEPTED")
        /\ at[r] = "transaction" /\ at'[r] = "done" /\ pc'[r] = "enrolled"
        /\ UNCHANGED <<waitlist, batch>>
    BY <1>0, <1>8 DEF Accept, InsertEnrolment, Goto, Move, TypeOK
  <2>2. PICK w \in waitlist : /\ w.id = row[r] /\ w.slot = job[r].slot
                              /\ w.participant = job[r].participant
    BY <1>0, <2>1 DEF Accepting
  <2>3. w.id \notin deletedRows
    BY <2>1, <2>2 DEF RunnerSerial
  <2>4. PICK new : new = [id |-> r, participant |-> job[r].participant, slot |-> job[r].slot]
    OBVIOUS
  <2>5. ASSUME NEW c \in enrolments' \cup {v \in waitlist' : v.id \notin deletedRows'}, c # new
        PROVE  /\ c \in enrolments \cup {v \in waitlist : v.id \notin deletedRows}
               /\ c.id # w.id
    <3>1. CASE c \in enrolments
      BY <1>0, <3>1 DEF PeopleInv
    <3>2. CASE c \in waitlist /\ c.id \notin deletedRows'
      BY <2>1, <2>2, <3>2
    <3>3. QED
      BY <2>1, <2>4, <2>5, <3>1, <3>2
  <2>6. ASSUME NEW c \in enrolments' \cup {v \in waitlist' : v.id \notin deletedRows'}, c # new
        PROVE  ~(c.participant = new.participant /\ c.slot = new.slot)
    <3>1. c.participant = w.participant /\ c.slot = w.slot => c.id = w.id
      BY <1>0, <2>3, <2>5, <2>6 DEF NoDuplicateClaims
    <3>2. QED
      BY <2>2, <2>4, <2>5, <2>6, <3>1
  <2>7. NoDuplicateClaims'
    <3>1. ASSUME NEW c \in enrolments' \cup {v \in waitlist' : v.id \notin deletedRows'},
                 NEW d \in enrolments' \cup {v \in waitlist' : v.id \notin deletedRows'},
                 c.participant = d.participant, c.slot = d.slot
          PROVE  c.id = d.id
      <4>1. CASE c = new \/ d = new
        BY <2>6, <3>1, <4>1
      <4>2. CASE c # new /\ d # new
        BY <1>0, <2>5, <3>1, <4>2 DEF NoDuplicateClaims
      <4>3. QED
        BY <4>1, <4>2
    <3>2. QED
      BY <3>1 DEF NoDuplicateClaims
  <2>8. TokensWork' /\ BatchHasLapsed'
    BY <1>0, <1>2, <1>4, <2>1, TokensStay DEF BatchHasLapsed
  <2>9. QED
    BY <1>3, <2>1, <2>7, <2>8 DEF SerialTables, RunnerSerial, Checked, InTransaction
<1>9. QED
  BY <1>5, <1>6, <1>7, <1>8

(* A runner that stays where it is, in tables nobody changes.              *)
LEMMA Unmoved ==
    ASSUME WaitInv, NEW b \in Runners, RunnerSerial(b),
           at'[b] = at[b], row'[b] = row[b], goal'[b] = goal[b],
           UNCHANGED <<enrolments, waitlist, deletedRows, number, pc, job, offer>>,
           now' = now \/ now' = now + 1
    PROVE  RunnerSerial(b)'
<1>1. PICK s : s = goal[b]
  OBVIOUS
<1>2. Active(s)' = Active(s) /\ goal'[b] = s
  BY <1>1 DEF Active
<1>3. ASSUME NEW w \in Active(s), Outstanding(w.id)'
      PROVE  Outstanding(w.id)
  <2>1. w.id \in Requests
    BY DEF WaitInv, TablesInv, TypeOK, Active, WaitlistRows
  <2>2. offer[w.id].expiresAt \in Nat /\ now \in Nat
    BY <2>1, WaitFacts DEF LifecycleTables, Offers
  <2>3. QED
    BY <1>3, <2>2 DEF Outstanding, IsPending, Sent
<1>4. (at[b] \in {"pick", "issue"} => \A w \in Active(goal[b]) : ~Outstanding(w.id))'
  BY <1>1, <1>2, <1>3 DEF RunnerSerial
<1>5. b \in Requests => Checked(b)'
  BY ChecksUnchanged DEF RunnerSerial
<1>6. QED
  BY <1>4, <1>5 DEF RunnerSerial, IsPending

(* Steps of a promotion. *)
LEMMA SerialPromotions ==
    ASSUME RowsInv, \A a, b \in Running : a = b,
           SerialTables, NEW a \in Runners, RunnerSerial(a), TryPromoteNext(a)
    PROVE  SerialTables' /\ RunnerSerial(a)' /\ a \in Running
<1>0. /\ WaitInv /\ BatchIsHeld /\ TokensWork /\ BatchHasLapsed /\ NoDuplicateClaims
      /\ at \in [Runners -> Places] /\ row \in [Runners -> Requests \cup {Nobody}]
  BY WaitFacts DEF RowsInv, SerialTables
<1>1. /\ UNCHANGED <<vars, now, batch, todo, goal>> /\ at[a] \in Promoting
      /\ at'[a] \in Promoting \cup {"done", "next"}
  BY <1>0, PromotionMoves
<1>2. a \in Running /\ batch = {}
  BY <1>0, <1>1, NoBatch DEF Running, Promoting
<1>3. UNCHANGED <<enrolments, waitlist, deletedRows, number, pc, job>>
  BY <1>1 DEF vars, tables
<1>4. NoDuplicateClaims' /\ BatchHasLapsed'
  BY <1>0, <1>1, <1>2, <1>3, FewerClaims DEF BatchHasLapsed
<1>5. a \in Requests => Checked(a)' /\ at'[a] # "transaction"
  BY <1>1, <1>3, ChecksUnchanged DEF RunnerSerial, Promoting
<1>6. CASE offer' = offer /\ at'[a] \notin {"pick", "issue"}
  <2>1. TokensWork'
    BY <1>0, <1>6 DEF TokensWork, IsPending
  <2>2. QED
    BY <1>1, <1>2, <1>4, <1>5, <1>6, <2>1 DEF SerialTables, RunnerSerial, Promoting
<1>7. CASE offer' = offer /\ at'[a] \in {"pick", "issue"}
  <2>1. TokensWork'
    BY <1>0, <1>7 DEF TokensWork, IsPending
  <2>2. (\A w \in Active(goal[a]) : ~Outstanding(w.id))' <=>
           \A w \in Active(goal[a]) : ~Outstanding(w.id)
    BY <1>1, <1>3, <1>7 DEF Active, Outstanding, IsPending, Sent
  <2>3. \/ /\ CheckOutstanding(a) /\ at'[a] = "pick"
           /\ \A w \in Active(goal[a]) : ~Outstanding(w.id)
        \/ /\ at[a] = "pick" /\ at'[a] = "issue"
           /\ \E w \in Candidates(goal[a]) : row' = [row EXCEPT ![a] = w.id]
    BY <1>0, <1>7 DEF TryPromoteNext, ReadVacancy, CountEnrolled, CheckOutstanding,
       PickCandidate, IssueOffer, PromotionStep, Move, After
  <2>4. CASE CheckOutstanding(a) /\ at'[a] = "pick"
             /\ \A w \in Active(goal[a]) : ~Outstanding(w.id)
    <3>1. (\A w \in Active(goal[a]) : ~Outstanding(w.id))'
      BY <1>1, <2>2, <2>4
    <3>2. QED
      BY <1>1, <1>2, <1>4, <1>5, <2>1, <2>4, <3>1 DEF SerialTables, RunnerSerial, Promoting
  <2>5. ASSUME at[a] = "pick", at'[a] = "issue",
               NEW w \in Candidates(goal[a]), row' = [row EXCEPT ![a] = w.id]
        PROVE  RunnerSerial(a)'
    <3>1. (\A v \in Active(goal[a]) : ~Outstanding(v.id))'
      BY <1>1, <2>2, <2>5 DEF RunnerSerial
    <3>2. row'[a] = w.id /\ IsPending(w.id)
      BY <1>0, <2>5 DEF Candidates
    <3>3. IsPending(row[a])'
      BY <1>7, <3>2 DEF IsPending
    <3>4. QED
      BY <1>5, <2>5, <3>1, <3>3 DEF RunnerSerial
  <2>6. QED
    BY <1>2, <1>4, <2>1, <2>3, <2>4, <2>5 DEF SerialTables
<1>8. CASE IssueOffer(a)
  <2>1. at[a] = "issue" /\ WriteOffer(row[a]) /\ at'[a] \in {"done", "next"}
    BY <1>0, <1>8 DEF IssueOffer, PromotionStep, Move, After
  <2>2. row[a] \in Requests /\ IsPending(row[a])
    BY <1>0, <2>1, WaitFacts DEF RunnerSerial, Knowing
  <2>3. TokensWork'
    BY <1>0, <2>1, <2>2, TokensStay
  <2>4. QED
    BY <1>2, <1>4, <1>5, <2>1, <2>3 DEF SerialTables, RunnerSerial
<1>9. ~IssueOffer(a) => offer' = offer
  BY DEF TryPromoteNext, ReadVacancy, CountEnrolled, CheckOutstanding, PickCandidate
<1>10. QED
  BY <1>6, <1>7, <1>8, <1>9

(* Calls that arrive, staff's offers, and promotions that are lost. *)
LEMMA SerialCalls ==
    ASSUME RowsInv, \A a, b \in Running : a = b,
           SerialTables, NEW r \in Requests, RunnerSerial(r),
           CallArrives(r) \/ LosePromotion(r) \/ IssueSentOffer(r)
    PROVE  SerialTables' /\ RunnerSerial(r)' /\ (r \in Running \/ CallArrives(r))
<1>0. /\ WaitInv /\ BatchIsHeld /\ TokensWork /\ BatchHasLapsed /\ NoDuplicateClaims
      /\ at \in [Runners -> Places] /\ r \in Runners /\ row \in [Runners -> Requests \cup {Nobody}]
  BY WaitFacts DEF RowsInv, SerialTables
<1>1. UNCHANGED <<vars, now, batch>>
  BY <1>0, CallMoves DEF LosePromotion, IssueSentOffer, PromotionStep
<1>2. UNCHANGED <<enrolments, waitlist, deletedRows, number, pc, job>>
  BY <1>1 DEF vars, tables
<1>3. NoDuplicateClaims' /\ Checked(r)'
  BY <1>0, <1>2, FewerClaims, ChecksUnchanged DEF RunnerSerial
<1>4. CASE CallArrives(r)
  <2>1. offer' = offer /\ at'[r] \in {"recheck", "withdraw", "refused", "send"}
    BY <1>0, <1>4, CallMoves
  <2>2. at'[r] = "send" => IsPending(row[r])'
    <3>1. AcceptOffer(r) => at'[r] \in {"recheck", "refused"}
      BY <1>0 DEF AcceptOffer, FollowLink, Call, Move
    <3>2. DeclineOffer(r) => at'[r] \in {"withdraw", "refused"}
      BY <1>0 DEF DeclineOffer, FollowLink, Call, Move
    <3>3. StaffWithdraw(r) => at'[r] \in {"withdraw", "refused"}
      BY <1>0 DEF StaffWithdraw, Call, Move
    <3>4. ASSUME SendOffer(r), at'[r] = "send"
          PROVE  IsPending(row[r])'
      <4>1. PICK id \in RowIds : Call(r, "sendOffer", id,
                                      IF id \notin deletedRows /\ IsPending(id)
                                      THEN "send" ELSE "refused")
        BY <3>4 DEF SendOffer
      <4>2. row'[r] = id /\ IsPending(id)
        BY <1>0, <3>4, <4>1 DEF Call, Move
      <4>3. QED
        BY <2>1, <4>2 DEF IsPending
    <3>5. QED
      BY <1>4, <3>1, <3>2, <3>3, <3>4 DEF CallArrives
  <2>3. QED
    BY <1>0, <1>1, <1>3, <1>4, <2>1, <2>2, OffersUnchanged DEF SerialTables, RunnerSerial
<1>5. CASE LosePromotion(r)
  <2>1. offer' = offer /\ at'[r] = "done" /\ at[r] \in Promoting
    BY <1>0, <1>5 DEF LosePromotion, Move
  <2>2. QED
    BY <1>0, <1>1, <1>3, <2>1, OffersUnchanged DEF SerialTables, RunnerSerial, Running, Promoting
<1>6. CASE IssueSentOffer(r)
  <2>1. at[r] = "send" /\ WriteOffer(row[r]) /\ at'[r] = "done"
    BY <1>0, <1>6 DEF IssueSentOffer, PromotionStep, Move
  <2>2. row[r] \in Requests /\ IsPending(row[r])
    BY <1>0, <2>1, WaitFacts DEF RunnerSerial, Knowing
  <2>3. TokensWork'
    BY <1>0, <2>1, <2>2, TokensStay
  <2>4. batch = {}
    BY <1>0, <2>1, NoBatch
  <2>5. QED
    BY <1>0, <1>1, <1>3, <2>1, <2>3, <2>4
    DEF SerialTables, RunnerSerial, Running, BatchHasLapsed
<1>7. QED
  BY <1>4, <1>5, <1>6

(* Steps of the crons other than their promotions. *)
LEMMA SerialCrons ==
    ASSUME RowsInv, SerialTables,
           \/ FindExpired \/ ExpireBatch \/ FindVacancies
           \/ \E a \in Crons : NextSlot(a) \/ EndRun(a)
    PROVE  /\ SerialTables'
           /\ \E a \in Crons : /\ RunnerSerial(a)' /\ (a \in Running \/ a \in Running')
                               /\ CronStep(a)
<1>0. /\ WaitInv /\ TokensWork /\ BatchHasLapsed /\ NoDuplicateClaims
      /\ at \in [Runners -> Places] /\ Crons \subseteq Runners /\ Crons \cap Requests = {}
      /\ "expireOffers" \in Crons /\ "promoteVacancies" \in Crons
  BY WaitFacts, CronsAssumption DEF RowsInv, SerialTables, Crons
<1>1. UNCHANGED vars
  BY DEF FindExpired, ExpireBatch, FindVacancies, NextSlot, EndRun
<1>2. NoDuplicateClaims'
  BY <1>0, <1>1, FewerClaims DEF vars, tables
<1>3. ASSUME NEW a \in Crons, at'[a] \in {"expire", "next", "capacity", "rest"},
             at[a] \in {"expire", "next"} \/ at'[a] \in {"expire", "next"}
      PROVE  RunnerSerial(a)' /\ (a \in Running \/ a \in Running')
  BY <1>0, <1>3 DEF RunnerSerial, Running
<1>4. CASE FindExpired
  <2>1. /\ at'["expireOffers"] = "expire" /\ UNCHANGED <<offer, now>>
        /\ \A id \in batch' : IsPending(id) /\ HasLapsed(id)
    BY <1>0, <1>4 DEF FindExpired, Move
  <2>2. BatchHasLapsed' /\ TokensWork'
    BY <1>0, <2>1 DEF BatchHasLapsed, TokensWork, IsPending, HasLapsed, Sent
  <2>3. CronStep("expireOffers")
    BY <1>4 DEF CronStep
  <2>4. QED
    BY <1>0, <1>2, <1>3, <2>1, <2>2, <2>3 DEF SerialTables
<1>5. CASE ExpireBatch
  <2>1. /\ at["expireOffers"] = "expire" /\ at'["expireOffers"] = "next" /\ batch' = {}
        /\ \A id \in Requests : offer'[id].token = 0 \/ offer'[id] = offer[id]
    BY <1>0, <1>5 DEF ExpireBatch, Move
  <2>2. BatchHasLapsed' /\ TokensWork'
    BY <1>0, <2>1 DEF BatchHasLapsed, TokensWork, IsPending
  <2>3. CronStep("expireOffers")
    BY <1>5 DEF CronStep
  <2>4. QED
    BY <1>0, <1>2, <1>3, <2>1, <2>2, <2>3 DEF SerialTables
<1>6. CASE FindVacancies
  <2>1. /\ at'["promoteVacancies"] = "next" /\ UNCHANGED <<offer, now, batch>>
        /\ CronStep("promoteVacancies")
    BY <1>0, <1>6 DEF FindVacancies, Move, CronStep
  <2>2. QED
    BY <1>0, <1>2, <1>3, <2>1, OffersUnchanged DEF SerialTables
<1>7. ASSUME NEW a \in Crons, NextSlot(a) \/ EndRun(a)
      PROVE  /\ SerialTables'
             /\ RunnerSerial(a)' /\ (a \in Running \/ a \in Running') /\ CronStep(a)
  <2>1. /\ at[a] = "next" /\ at'[a] \in {"capacity", "rest"}
        /\ UNCHANGED <<offer, now, batch>> /\ CronStep(a)
    BY <1>0, <1>7 DEF NextSlot, EndRun, Promote, Move, CronStep
  <2>2. QED
    BY <1>0, <1>2, <1>3, <2>1, OffersUnchanged DEF SerialTables
<1>8. QED
  BY <1>4, <1>5, <1>6, <1>7

(* A batch is held from the step that finds it to the step that expires it.*)
LEMMA WaitBatch ==
    ASSUME RowsInv, [LifecycleNext]_allVars
    PROVE  BatchIsHeld'
<1>0. /\ WaitInv /\ BatchIsHeld /\ at \in [Runners -> Places] /\ Requests \subseteq Runners
      /\ waitlist \subseteq waitlist' /\ Crons \cap Requests = {} /\ Crons \subseteq Runners
      /\ "expireOffers" \in Crons
  BY WaitFacts, LifecycleSteps, RowsStay, CronsAssumption DEF RowsInv, Crons
<1>1. CASE UNCHANGED <<at, batch>>
  BY <1>0, <1>1 DEF BatchIsHeld
<1>2. ASSUME NEW b \in Runners, b # "expireOffers" \/ at[b] # "expire", Moves(b), batch' = batch
      PROVE  BatchIsHeld'
  BY <1>0, <1>2, AfterMove DEF BatchIsHeld
<1>3. ASSUME NEW r \in Requests, EnrolArrives(r) \/ EnrolProceeds(r) \/ Allocate(r)
      PROVE  UNCHANGED <<at, batch>>
  BY <1>3 DEF EnrolArrives, EnrolProceeds, Allocate, lifecycle
<1>4. ASSUME NEW r \in Requests,
             \/ Recheck(r) \/ Accept(r) \/ NoSeat(r) \/ Withdraw(r) \/ IssueSentOffer(r)
             \/ AbortTransaction(r) \/ LosePromotion(r) \/ CallArrives(r)
      PROVE  BatchIsHeld'
  <2>1. r \in Runners /\ r # "expireOffers"
    BY <1>0
  <2>2. Moves(r) /\ batch' = batch
    BY <1>0, <1>4, CallStepMoves, CallMoves
  <2>3. QED
    BY <1>2, <2>1, <2>2
<1>5. ASSUME NEW a \in Runners, TryPromoteNext(a)
      PROVE  BatchIsHeld'
  BY <1>0, <1>2, <1>5, PromotionMoves DEF Promoting
<1>6. FindExpired => at'["expireOffers"] = "expire"
  BY <1>0 DEF FindExpired, Move
<1>7. ExpireBatch => batch' = {}
  BY DEF ExpireBatch
<1>8. FindVacancies => batch' = batch /\ at'["expireOffers"] = at["expireOffers"]
  BY <1>0 DEF FindVacancies, Move
<1>9. ASSUME NEW a \in Crons, NextSlot(a) \/ EndRun(a)
      PROVE  BatchIsHeld'
  <2>1. Moves(a) /\ a \in Runners
    BY <1>0, <1>9, CronMovesOn DEF CronStep
  <2>2. at[a] = "next" /\ batch' = batch
    BY <1>9 DEF NextSlot, EndRun
  <2>3. QED
    BY <1>2, <2>1, <2>2
<1>10. ASSUME \/ \E l \in Locations, c \in 0 .. MaxCapacity : EditCapacity(l, c)
              \/ Tick \/ UNCHANGED allVars
       PROVE  UNCHANGED <<at, batch>>
  BY <1>10 DEF EditCapacity, Tick, allVars, lifecycle
<1>11. QED
  BY <1>0, <1>1, <1>3, <1>4, <1>5, <1>6, <1>7, <1>8, <1>9, <1>10, KindsOfStep DEF BatchIsHeld

(* Every step keeps what rows, jobs and acceptances say of one another. *)
LEMMA RowsStep ==
    ASSUME RowsInv, [LifecycleNext]_allVars
    PROVE  RowsInv'
<1>1. WaitInv'
  BY WaitTables, WaitRunners, WaitRowIds, WaitCalls, WaitCountsStand, WaitNeverOverbooked,
     WaitPositions, WaitPassedOver DEF WaitInv, RowsInv
<1>2. QED
  BY <1>1, WaitPeople, WaitRows, WaitBatch DEF RowsInv

(* A row that has yielded a seat is deleted, and yields no other. *)
LEMMA SeatPerRow ==
    ASSUME RowsInv, [LifecycleNext]_allVars, OneSeatPerRow,
           \A r \in Requests : Accept(r) => row[r] \notin deletedRows
    PROVE  OneSeatPerRow'
<1>0. WaitInv
  BY DEF RowsInv
<1>1. ASSUME NEW e \in enrolments, job'[e.id].endpoint = "acceptOffer"
      PROVE  /\ job[e.id].endpoint = "acceptOffer" /\ row'[e.id] = row[e.id]
             /\ row[e.id] \in deletedRows
  <2>1. e.id \in Requests /\ pc[e.id] \in Settled
    BY <1>0 DEF WaitInv, TablesInv, TypeOK, Enrolments, RowsOfSettled
  <2>2. job'[e.id] = job[e.id]
    BY <1>0, <2>1, SettledJobs
  <2>3. row[e.id] \in deletedRows /\ at[e.id] = "done"
    BY <1>1, <2>2 DEF RowsInv, AcceptedRows
  <2>4. QED
    BY <1>0, <1>1, <2>1, <2>2, <2>3, Transitions
<1>2. CASE UNCHANGED enrolments
  BY <1>1, <1>2 DEF OneSeatPerRow
<1>3. ASSUME NEW r \in Requests, NEW new, new.id = r,
             enrolments' = enrolments \cup {new}, job'[r] = job[r],
             Accept(r) \/ job[r].endpoint # "acceptOffer"
      PROVE  OneSeatPerRow'
  <2>1. Accept(r) => row'[r] = row[r] /\ row[r] \notin deletedRows
    BY DEF Accept
  <2>2. ASSUME NEW e \in enrolments, job'[e.id].endpoint = "acceptOffer",
               job'[r].endpoint = "acceptOffer"
        PROVE  row'[e.id] # row'[r]
    BY <1>1, <1>3, <2>1, <2>2
  <2>3. ASSUME NEW d \in enrolments', NEW e \in enrolments', d # e,
               job'[d.id].endpoint = "acceptOffer", job'[e.id].endpoint = "acceptOffer"
        PROVE  row'[d.id] # row'[e.id]
    <3>1. CASE d \in enrolments /\ e \in enrolments
      BY <1>1, <2>3, <3>1 DEF OneSeatPerRow
    <3>2. CASE d = new \/ e = new
      BY <1>3, <2>2, <2>3, <3>2
    <3>3. QED
      BY <1>3, <2>3, <3>1, <3>2
  <2>4. QED
    BY <2>3 DEF OneSeatPerRow
<1>4. ASSUME NEW r \in Requests,
             enrolments' = enrolments \cup {[id |-> r, participant |-> job[r].participant,
                                             slot |-> job[r].slot]},
             job'[r] = job[r], Accept(r) \/ job[r].endpoint # "acceptOffer"
      PROVE  OneSeatPerRow'
  <2>1. PICK new : new = [id |-> r, participant |-> job[r].participant, slot |-> job[r].slot]
    OBVIOUS
  <2>2. new.id = r /\ enrolments' = enrolments \cup {new}
    BY <1>4, <2>1
  <2>3. QED
    BY <1>3, <1>4, <2>2
<1>5. QED
  BY <1>2, <1>4, NewSeats

(* Nobody but the one that moves is running. *)
LEMMA Bystanders ==
    ASSUME WaitInv, \A b, c \in Running : b = c, \A b, c \in Running' : b = c,
           NEW a \in Runners, a \in Running \/ a \in Running',
           NEW b \in Runners, b # a, at'[b] = at[b], b \in Requests => pc'[b] = pc[b]
    PROVE  b \notin Running'
<1>1. b \in Running' => b \in Running
  BY DEF Running, UnderWay
<1>2. QED
  BY <1>1

(* A step of the only runner under way keeps what it relies on. *)
LEMMA SerialStep ==
    ASSUME RowsInv, [LifecycleNext]_allVars,
           \A b, c \in Running : b = c, \A b, c \in Running' : b = c,
           SerialTables, \A b \in Runners : RunnerSerial(b)
    PROVE  SerialTables' /\ \A b \in Runners : RunnerSerial(b)'
<1>0. /\ WaitInv /\ TablesInv /\ Requests \subseteq Runners /\ Crons \subseteq Runners
      /\ waitlist \subseteq waitlist' /\ Crons \cap Requests = {}
      /\ TokensWork /\ BatchHasLapsed /\ NoDuplicateClaims
  BY WaitFacts, LifecycleSteps, RowsStay, CronsAssumption DEF RowsInv, WaitInv, SerialTables
<1>1. ASSUME NEW a \in Runners, a \in Running \/ a \in Running', RunnerSerial(a)',
             \A b \in Runners \ {a} : at'[b] = at[b] /\ (b \in Requests => pc'[b] = pc[b])
      PROVE  \A b \in Runners : RunnerSerial(b)'
  <2> SUFFICES ASSUME NEW b \in Runners PROVE RunnerSerial(b)'
    OBVIOUS
  <2>1. CASE b = a
    BY <1>1, <2>1
  <2>2. CASE b # a
    BY <1>0, <1>1, <2>2, Bystanders, IdleRunner
  <2>3. QED
    BY <2>1, <2>2
<1>2. ASSUME NEW r \in Requests,
             EnrolArrives(r) \/ EnrolProceeds(r) \/ AbortTransaction(r) \/ Allocate(r)
      PROVE  SerialTables' /\ \A b \in Runners : RunnerSerial(b)'
  <2>1. SerialTables' /\ RunnerSerial(r)' /\ (r \in Running \/ r \in Running')
    BY <1>0, <1>2, SerialAllocator
  <2>2. \A b \in Runners \ {r} : at'[b] = at[b] /\ (b \in Requests => pc'[b] = pc[b])
    BY <1>0, <1>2, AllocatorSteps, OtherRequests, WaitFacts
  <2>3. QED
    BY <1>0, <1>1, <2>1, <2>2
<1>3. ASSUME NEW r \in Requests, Recheck(r) \/ Accept(r) \/ NoSeat(r) \/ Withdraw(r)
      PROVE  SerialTables' /\ \A b \in Runners : RunnerSerial(b)'
  <2>1. SerialTables' /\ RunnerSerial(r)' /\ r \in Running
    BY <1>0, <1>3, SerialAnswers
  <2>2. Moves(r)
    BY <1>0, <1>3, CallStepMoves
  <2>3. \A b \in Runners \ {r} : at'[b] = at[b] /\ (b \in Requests => pc'[b] = pc[b])
    BY <1>0, <1>3, <2>2, AfterMove, WaitlistCalls
  <2>4. QED
    BY <1>0, <1>1, <2>1, <2>3
<1>4. ASSUME UNCHANGED <<enrolments, waitlist, deletedRows, number, pc, job, offer, batch>>,
             now' = now \/ now' = now + 1, UNCHANGED <<at, row, goal>>
      PROVE  SerialTables' /\ \A b \in Runners : RunnerSerial(b)'
  BY <1>0, <1>4, FewerClaims, OffersUnchanged, Unmoved DEF SerialTables
<1>5. ASSUME NEW r \in Requests, CallArrives(r) \/ LosePromotion(r) \/ IssueSentOffer(r)
      PROVE  SerialTables' /\ \A b \in Runners : RunnerSerial(b)'
  <2>1. SerialTables' /\ RunnerSerial(r)' /\ (r \in Running \/ CallArrives(r))
    BY <1>0, <1>5, SerialCalls
  <2>2. Moves(r) /\ UNCHANGED vars
    BY <1>0, <1>5, CallMoves, CallStepMoves DEF LosePromotion, IssueSentOffer, PromotionStep
  <2>3. \A b \in Runners \ {r} : at'[b] = at[b] /\ row'[b] = row[b] /\ goal'[b] = goal[b]
    BY <1>0, <2>2, AfterMove
  <2>4. UNCHANGED <<enrolments, waitlist, deletedRows, number, pc, job>>
    BY <2>2 DEF vars, tables
  <2>5. CASE r \in Running
    BY <1>0, <1>1, <2>1, <2>3, <2>4, <2>5
  <2>6. CASE CallArrives(r)
    <3>1. UNCHANGED <<offer, now>>
      BY <1>0, <2>6, CallMoves
    <3>2. ASSUME NEW b \in Runners \ {r}
          PROVE  RunnerSerial(b)'
      BY <1>0, <2>3, <2>4, <3>1, Unmoved
    <3>3. QED
      BY <2>1, <3>2
  <2>7. QED
    BY <2>1, <2>5, <2>6
<1>6. ASSUME NEW a \in Runners, TryPromoteNext(a)
      PROVE  SerialTables' /\ \A b \in Runners : RunnerSerial(b)'
  <2>1. SerialTables' /\ RunnerSerial(a)' /\ a \in Running
    BY <1>6, SerialPromotions
  <2>2. Moves(a) /\ UNCHANGED vars
    BY <1>0, <1>6, PromotionMoves
  <2>3. \A b \in Runners \ {a} : at'[b] = at[b] /\ (b \in Requests => pc'[b] = pc[b])
    BY <1>0, <2>2, AfterMove DEF vars
  <2>4. QED
    BY <1>1, <2>1, <2>3
<1>7. ASSUME \/ FindExpired \/ ExpireBatch \/ FindVacancies
             \/ \E a \in Crons : NextSlot(a) \/ EndRun(a)
      PROVE  SerialTables' /\ \A b \in Runners : RunnerSerial(b)'
  <2>1. SerialTables'
    BY <1>7, SerialCrons
  <2>2. PICK a \in Crons : RunnerSerial(a)' /\ (a \in Running \/ a \in Running') /\ CronStep(a)
    BY <1>7, SerialCrons
  <2>3. Moves(a) /\ UNCHANGED vars
    BY <1>0, <2>2, CronMovesOn
  <2>4. \A b \in Runners \ {a} : at'[b] = at[b] /\ (b \in Requests => pc'[b] = pc[b])
    BY <1>0, <2>3, AfterMove DEF vars
  <2>5. QED
    BY <1>0, <1>1, <2>1, <2>2, <2>4
<1>8. ASSUME \/ \E l \in Locations, c \in 0 .. MaxCapacity : EditCapacity(l, c)
             \/ Tick \/ UNCHANGED allVars
      PROVE  SerialTables' /\ \A b \in Runners : RunnerSerial(b)'
  BY <1>4, <1>8 DEF EditCapacity, UpdateCapacity, Tick, allVars, lifecycle, vars, tables
<1>9. QED
  BY <1>2, <1>3, <1>5, <1>6, <1>7, <1>8, KindsOfStep

(* Every step of a history keeps the invariant; one that starts a second   *)
(* runner ends what is claimed of histories without races.                 *)
LEMMA RunStep ==
    ASSUME RunInv, [HistoryNext]_<<allVars, raced>>
    PROVE  RunInv'
<1>1. RowsInv /\ [LifecycleNext]_allVars
  BY DEF RunInv, HistoryNext
<1>2. RowsInv'
  BY <1>1, RowsStep
<1>3. CASE UNCHANGED <<allVars, raced>>
  <2>1. /\ UNCHANGED <<enrolments, waitlist, deletedRows, number, pc, job, offer, batch, now,
                       at, row, goal, raced>>
    BY <1>3 DEF allVars, lifecycle, vars, tables
  <2>2. Running' = Running
    BY <2>1 DEF Running, UnderWay
  <2>3. OneSeatPerRow => OneSeatPerRow'
    BY <2>1 DEF OneSeatPerRow
  <2>4. SerialTables => SerialTables'
    BY <1>1, <2>1, FewerClaims, OffersUnchanged DEF SerialTables, RowsInv
  <2>5. \A b \in Runners : RunnerSerial(b) => RunnerSerial(b)'
    BY <1>1, <2>1, Unmoved DEF RowsInv
  <2>6. QED
    BY <1>2, <2>1, <2>2, <2>3, <2>4, <2>5 DEF RunInv, SerialRunInv
<1>4. CASE HistoryNext
  <2> SUFFICES ASSUME ~raced'
               PROVE  /\ \A a, b \in Running' : a = b
                      /\ SerialTables' /\ OneSeatPerRow'
                      /\ \A a \in Runners : RunnerSerial(a)'
    BY <1>2 DEF RunInv, SerialRunInv
  <2>1. raced' = (raced \/ Cardinality(Running') > 1)
    BY <1>4 DEF HistoryNext
  <2>2. IsFiniteSet(Running')
    <3>1. IsFiniteSet(Requests \cup {"expireOffers"} \cup {"promoteVacancies"})
      BY RequestsAssumption, FS_AddElement
    <3>2. Running' \subseteq Requests \cup {"expireOffers"} \cup {"promoteVacancies"}
      BY DEF Running, UnderWay, Runners, Crons
    <3>3. QED
      BY <3>1, <3>2, FS_Subset
  <2>3. ~raced /\ \A a, b \in Running' : a = b
    BY <2>1, <2>2, AtMostOne
  <2>4. /\ \A a, b \in Running : a = b
        /\ SerialTables /\ OneSeatPerRow
        /\ \A a \in Runners : RunnerSerial(a)
    BY <2>3 DEF RunInv, SerialRunInv
  <2>5. SerialTables' /\ \A a \in Runners : RunnerSerial(a)'
    BY <1>1, <2>3, <2>4, SerialStep
  <2>6. ASSUME NEW r \in Requests, Accept(r)
        PROVE  row[r] \notin deletedRows
    BY <2>4, <2>6 DEF Runners, RunnerSerial, Accept
  <2>7. OneSeatPerRow'
    BY <1>1, <2>4, <2>6, SeatPerRow
  <2>8. QED
    BY <2>3, <2>5, <2>7
<1>5. QED
  BY <1>3, <1>4

(* The invariant holds before the first call. *)
LEMMA RowsStart ==
    ASSUME LifecycleInit
    PROVE  RowsInv
<1>1. LifecycleInit
  OBVIOUS
<1>2. WaitInv
  BY <1>1, WaitInit
<1>3. /\ waitlist = Waiting /\ enrolments = {} /\ deletedRows = {}
      /\ at = [a \in Runners |-> "rest"] /\ batch = {}
      /\ offer = [r \in Requests |-> NoOffer]
      /\ pc = [r \in Requests |-> IF r \in {w.id : w \in Waiting} THEN "waitlisted" ELSE "idle"]
  BY <1>1 DEF LifecycleInit
<1>4. ASSUME NEW r \in Requests
      PROVE  /\ job[r] = NoJob \/ \E w \in Waiting :
                    /\ w.id = r /\ job[r].participant = w.participant
             /\ job[r].endpoint \in {"none", "enrol"}
             /\ pc[r] # "idle" => \E w \in Waiting : w.id = r /\ job[r].participant = w.participant
  <2>1. CASE r \in {w.id : w \in Waiting}
    <3>1. PICK u : u = CHOOSE w \in Waiting : w.id = r
      OBVIOUS
    <3>2. u \in Waiting /\ u.id = r
      BY <2>1, <3>1
    <3>3. job[r].participant = u.participant /\ job[r].endpoint = "enrol"
      BY <1>1, <2>1, <3>1 DEF LifecycleInit
    <3>4. QED
      BY <3>2, <3>3
  <2>2. CASE r \notin {w.id : w \in Waiting}
    BY <1>1, <1>3, <2>2 DEF LifecycleInit, NoJob
  <2>3. QED
    BY <2>1, <2>2
<1>5. \A w \in Waiting : w.id \in Requests /\ number[w.participant] # 0
  BY <1>1, WaitingAssumption, KnownAssumption DEF LifecycleInit, Registered, WaitlistRows
<1>6. PeopleInv
  <2>1. ASSUME NEW r \in Requests
        PROVE  PersonKnown(r)
    BY <1>3, <1>4, <1>5 DEF PersonKnown, Prechecks, InTransaction
  <2>2. QED
    BY <1>3, <1>5, <2>1 DEF PeopleInv
<1>7. RowsAgree
  <2>1. ASSUME NEW w \in Waiting
        PROVE  job[w.id].participant = w.participant
    <3>1. pc[w.id] # "idle"
      BY <1>3, <1>5
    <3>2. PICK u \in Waiting : u.id = w.id /\ job[w.id].participant = u.participant
      BY <1>4, <1>5, <3>1
    <3>3. u = w
      BY <3>2, WaitingAssumption
    <3>4. QED
      BY <3>2, <3>3
  <2>2. QED
    BY <1>3, <2>1 DEF RowsAgree
<1>8. /\ AcceptedRows /\ BatchIsHeld
      /\ \A r \in Requests : Accepting(r)
  BY <1>3, <1>4 DEF AcceptedRows, BatchIsHeld, Accepting, Runners
<1>9. QED
  BY <1>2, <1>6, <1>7, <1>8 DEF RowsInv

LEMMA RunStart ==
    ASSUME HistoryInit
    PROVE  RunInv
<1>1. LifecycleInit /\ RowsInv
  BY RowsStart DEF HistoryInit
<1>3. /\ waitlist = Waiting /\ enrolments = {} /\ deletedRows = {}
      /\ at = [a \in Runners |-> "rest"] /\ batch = {}
      /\ offer = [r \in Requests |-> NoOffer]
      /\ pc = [r \in Requests |-> IF r \in {w.id : w \in Waiting} THEN "waitlisted" ELSE "idle"]
  BY <1>1 DEF LifecycleInit
<1>9. SerialRunInv
  <2>1. \A a \in Runners : a \notin Running
    BY <1>3 DEF Running, UnderWay, Prechecks, InTransaction
  <2>2. Running = {}
    BY <2>1 DEF Running, UnderWay, Runners
  <2>3. NoDuplicateClaims
    BY <1>3, WaitingAssumption DEF NoDuplicateClaims
  <2>4. TokensWork /\ BatchHasLapsed /\ OneSeatPerRow
    BY <1>3 DEF TokensWork, NoOffer, BatchHasLapsed, OneSeatPerRow
  <2>5. \A a \in Runners : RunnerSerial(a)
    BY <1>3 DEF RunnerSerial, Checked, Runners, InTransaction
  <2>6. QED
    BY <2>2, <2>3, <2>4, <2>5 DEF SerialRunInv, SerialTables
<1>10. QED
  BY <1>1, <1>9 DEF RunInv

(* The invariant holds in every history of calls, crons and promotions. *)
THEOREM RunInvariant == HistorySpec => []RunInv
BY RunStart, RunStep, PTL DEF HistorySpec

(* Calls and crons that do not overlap keep to the rules of the waitlist: a*)
(* row yields one seat, a promotion adds no second offer                   *)
(* (waitlist.service.ts 369-381), only lapsed offers are marked EXPIRED    *)
(* (280-333), links that were sent work (426), and nobody has two claims on*)
(* a slot.                                                                 *)
THEOREM SerialRuns == HistorySpec => []SerialRunsAgree
<1>1. ASSUME RunInv, ~raced
      PROVE  OneSeatPerRow /\ OfferIsAlone /\ BatchHasLapsed /\ SentLinksWork /\ NobodyClaimsTwice
  <2>1. /\ RowsInv /\ WaitInv /\ PeopleInv /\ SerialTables /\ OneSeatPerRow
        /\ \A a \in Runners : RunnerSerial(a)
    BY <1>1 DEF RunInv, RowsInv, SerialRunInv
  <2>2. OfferIsAlone
    BY <2>1 DEF RunnerSerial, OfferIsAlone
  <2>3. SentLinksWork
    BY <2>1, WaitFacts DEF SerialTables, TokensWork, SentLinksWork
  <2>4. ASSUME NEW e \in enrolments
        PROVE  /\ \A w \in Active(e.slot) : w.participant # e.participant
               /\ \A d \in Occupants(e.slot) : d.participant = e.participant => d = e
    <3>1. ASSUME NEW w \in Active(e.slot), w.participant = e.participant
          PROVE  FALSE
      BY <2>1, <3>1 DEF SerialTables, NoDuplicateClaims, PeopleInv, Active
    <3>2. ASSUME NEW d \in Occupants(e.slot), d.participant = e.participant
          PROVE  d = e
      BY <2>1, <3>2 DEF SerialTables, NoDuplicateClaims, Occupants, WaitInv, TablesInv,
         RowsOfSettled
    <3>3. QED
      BY <3>1, <3>2
  <2>5. QED
    BY <2>1, <2>2, <2>3, <2>4 DEF SerialTables, NobodyClaimsTwice
<1>2. RunInv => SerialRunsAgree
  BY <1>1 DEF SerialRunsAgree
<1>3. QED
  BY <1>2, RunInvariant, PTL

-----------------------------------------------------------------------------
(* The waitlist lifecycle implements the waitlist ledger *)

Ids(rows) == {w.id : w \in rows}
Order(rows) ==
    {<<pair[1].id, pair[2].id>> : pair \in {p \in rows \X rows : p[1].position < p[2].position}}

(* What the ledger sees of the tables. *)
SeatsOf == [s \in Slots |-> Ids(Occupants(s))]
WaitingOf == [s \in Slots |-> Ids(Active(s))]
AheadOf == [s \in Slots |-> Order(Active(s))]
LeftOf == [s \in Slots |-> Ids(Left(s))]
OfferedRows == {id \in Requests : Sent(id)}

(* An acceptance is under way for a row that has been sent an offer only. *)
SentInv == \A r \in Requests : at[r] \in {"recheck", "transaction"} => Sent(row[r])

LEMMA InOrder ==
    ASSUME NEW rows, NEW x
    PROVE  x \in Order(rows) <=>
              \E v, w \in rows : x = <<v.id, w.id>> /\ v.position < w.position
<1>1. ASSUME NEW v \in rows, NEW w \in rows, x = <<v.id, w.id>>, v.position < w.position
      PROVE  x \in Order(rows)
  <2>1. PICK pair \in rows \X rows : pair = <<v, w>>
    OBVIOUS
  <2>2. pair[1] = v /\ pair[2] = w
    BY <2>1
  <2>3. QED
    BY <1>1, <2>2 DEF Order
<1>2. ASSUME x \in Order(rows)
      PROVE  \E v, w \in rows : x = <<v.id, w.id>> /\ v.position < w.position
  <2>1. PICK pair \in rows \X rows : /\ x = <<pair[1].id, pair[2].id>>
                                     /\ pair[1].position < pair[2].position
    BY <1>2 DEF Order
  <2>2. pair[1] \in rows /\ pair[2] \in rows
    OBVIOUS
  <2>3. QED
    BY <2>1, <2>2
<1>3. QED
  BY <1>1, <1>2

(* Without some rows, the others keep their order. *)
LEMMA OrderWithout ==
    ASSUME NEW rows, NEW c
    PROVE  LET others == {w \in rows : w.id # c} IN
           /\ Ids(others) = Ids(rows) \ {c}
           /\ Order(others) = {pair \in Order(rows) : c \notin {pair[1], pair[2]}}
<1> DEFINE others == {w \in rows : w.id # c}
<1>1. Ids(others) = Ids(rows) \ {c}
  BY DEF Ids
<1>2. ASSUME NEW pair
      PROVE  pair \in Order(others) <=> pair \in Order(rows) /\ c \notin {pair[1], pair[2]}
  <2>1. pair \in Order(others) <=>
           \E v, w \in others : pair = <<v.id, w.id>> /\ v.position < w.position
    BY InOrder
  <2>2. pair \in Order(rows) <=>
           \E v, w \in rows : pair = <<v.id, w.id>> /\ v.position < w.position
    BY InOrder
  <2>3. ASSUME NEW v \in rows, NEW w \in rows, pair = <<v.id, w.id>>
        PROVE  v \in others /\ w \in others <=> c \notin {pair[1], pair[2]}
    BY <2>3
  <2>4. QED
    BY <2>1, <2>2, <2>3
<1>3. QED
  BY <1>1, <1>2

(* A row after all others is behind each of them. *)
LEMMA OrderAfter ==
    ASSUME NEW rows, NEW new, new.position \in Nat,
           \A w \in rows : w.position \in Nat /\ w.position < new.position
    PROVE  /\ Ids(rows \cup {new}) = Ids(rows) \cup {new.id}
           /\ Order(rows \cup {new}) = Order(rows) \cup (Ids(rows) \X {new.id})
<1>1. Ids(rows \cup {new}) = Ids(rows) \cup {new.id}
  BY DEF Ids
<1>2. ASSUME NEW x
      PROVE  x \in Order(rows \cup {new}) <=> x \in Order(rows) \/ x \in Ids(rows) \X {new.id}
  <2>1. x \in Order(rows \cup {new}) <=>
           \E v, w \in rows \cup {new} : x = <<v.id, w.id>> /\ v.position < w.position
    BY InOrder
  <2>2. x \in Order(rows) <=> \E v, w \in rows : x = <<v.id, w.id>> /\ v.position < w.position
    BY InOrder
  <2>3. x \in Ids(rows) \X {new.id} <=> \E v \in rows : x = <<v.id, new.id>>
    BY DEF Ids
  <2>4. \A v, w \in rows \cup {new} : v.position < w.position =>
            v \in rows /\ (w \in rows \/ w = new)
    OBVIOUS
  <2>5. QED
    BY <2>1, <2>2, <2>3, <2>4
<1>3. QED
  BY <1>1, <1>2

(* Rows of different ids and positions stand in a queue. *)
LEMMA OrderIsQueue ==
    ASSUME NEW rows, \A w \in rows : w.position \in Nat,
           \A v, w \in rows : v = w \/ (v.id # w.id /\ v.position # w.position)
    PROVE  OfferLedger!IsQueue(Ids(rows), Order(rows))
<1>1. \A v, w \in rows : <<v.id, w.id>> \in Order(rows) <=> v.position < w.position
  <2>1. ASSUME NEW v \in rows, NEW w \in rows, <<v.id, w.id>> \in Order(rows)
        PROVE  v.position < w.position
    <3>1. PICK x, y \in rows : <<v.id, w.id>> = <<x.id, y.id>> /\ x.position < y.position
      BY <2>1, InOrder
    <3>2. x = v /\ y = w
      BY <3>1
    <3>3. QED
      BY <3>1, <3>2
  <2>2. ASSUME NEW v \in rows, NEW w \in rows, v.position < w.position
        PROVE  <<v.id, w.id>> \in Order(rows)
    BY <2>2, InOrder
  <2>3. QED
    BY <2>1, <2>2
<1>2. Order(rows) \subseteq Ids(rows) \X Ids(rows)
  <2>1. ASSUME NEW x \in Order(rows)
        PROVE  x \in Ids(rows) \X Ids(rows)
    <3>1. PICK v, w \in rows : x = <<v.id, w.id>>
      BY InOrder
    <3>2. QED
      BY <3>1 DEF Ids
  <2>2. QED
    BY <2>1
<1>3. ASSUME NEW c \in Ids(rows), NEW d \in Ids(rows)
      PROVE  /\ <<c, d>> \in Order(rows) => <<d, c>> \notin Order(rows)
             /\ c = d \/ <<c, d>> \in Order(rows) \/ <<d, c>> \in Order(rows)
  <2>1. PICK v, w \in rows : c = v.id /\ d = w.id
    BY DEF Ids
  <2>2. QED
    BY <1>1, <2>1
<1>4. ASSUME NEW c \in Ids(rows), NEW d \in Ids(rows), NEW e \in Ids(rows),
             <<c, d>> \in Order(rows), <<d, e>> \in Order(rows)
      PROVE  <<c, e>> \in Order(rows)
  <2>1. PICK v, w, x \in rows : c = v.id /\ d = w.id /\ e = x.id
    BY DEF Ids
  <2>2. v.position < w.position /\ w.position < x.position
    BY <1>1, <1>4, <2>1
  <2>3. QED
    BY <1>1, <2>1, <2>2
<1>5. QED
  BY <1>2, <1>3, <1>4 DEF OfferLedger!IsQueue

(* A slot's queue at the start. *)
LEMMA OfferLedgerInit == LifecycleInit => OfferLedger!Init
<1> SUFFICES ASSUME LifecycleInit PROVE OfferLedger!Init
  OBVIOUS
<1>1. /\ waitlist = Waiting /\ enrolments = {} /\ deletedRows = {}
      /\ offer = [r \in Requests |-> NoOffer] /\ high = capacity
      /\ capacity \in [Locations -> 0 .. MaxCapacity]
  BY DEF LifecycleInit
<1>2. \A s \in Slots : /\ Ids(Occupants(s)) = {} /\ Ids(Left(s)) = {}
                       /\ Active(s) = {w \in Waiting : w.slot = s}
  BY <1>1 DEF Ids, Occupants, Left, Active
<1>3. ASSUME NEW s \in Slots
      PROVE  /\ Ids(Active(s)) \subseteq Requests
             /\ OfferLedger!IsQueue(Ids(Active(s)), Order(Active(s)))
  <2>1. /\ \A w \in Active(s) : w.id \in Requests /\ w.position \in Nat
        /\ \A v, w \in Active(s) : v = w \/ (v.id # w.id /\ v.position # w.position)
    BY <1>2, WaitingAssumption DEF WaitlistRows
  <2>2. QED
    BY <2>1, OrderIsQueue DEF Ids
<1>4. \A s, t \in Slots : s = t \/ Ids(Active(s)) \cap Ids(Active(t)) = {}
  BY <1>2, WaitingAssumption DEF Ids
<1>5. {id \in Requests : Sent(id)} = {}
  BY <1>1 DEF Sent, NoOffer
<1>6. high \in [Locations -> Nat]
  BY <1>1, CapacityAssumption
<1>7. /\ SeatsOf = [s \in Slots |-> {}] /\ LeftOf = [s \in Slots |-> {}]
      /\ WaitingOf \in [Slots -> SUBSET Requests]
      /\ \A s, t \in Slots : s = t \/ WaitingOf[s] \cap WaitingOf[t] = {}
      /\ AheadOf = [s \in Slots |-> AheadOf[s]]
      /\ \A s \in Slots : OfferLedger!IsQueue(WaitingOf[s], AheadOf[s])
      /\ OfferedRows = {}
  BY <1>2, <1>3, <1>4, <1>5 DEF SeatsOf, LeftOf, WaitingOf, AheadOf, OfferedRows
<1>8. QED
  BY <1>6, <1>7 DEF OfferLedger!Init, SeatsOf, LeftOf, WaitingOf, AheadOf, OfferedRows, Ids, Order

(* Both modules mean the same by Cardinality. *)
LEMMA SameCount == \A S : OfferLedger!Cardinality(S) = Cardinality(S)
BY DEF OfferLedger!Cardinality, Cardinality

(* An answer or an expiry sends nothing. *)
LEMMA SentStays ==
    ASSUME WaitInv, \/ UNCHANGED offer \/ ExpireBatch
                    \/ \E id \in Requests, status \in Statuses : Answered(id, status)
    PROVE  OfferedRows' = OfferedRows
<1>1. offer \in [Requests -> Offers]
  BY WaitFacts DEF LifecycleTables
<1>2. ASSUME NEW id \in Requests
      PROVE  offer'[id].attempts = offer[id].attempts
  <2>1. CASE UNCHANGED offer
    BY <2>1
  <2>2. CASE ExpireBatch
    BY <2>2 DEF ExpireBatch
  <2>3. ASSUME NEW i \in Requests, NEW status, Answered(i, status)
        PROVE  offer'[id].attempts = offer[id].attempts
    BY <1>1, <2>3 DEF Answered
  <2>4. QED
    BY <2>1, <2>2, <2>3
<1>3. QED
  BY <1>2 DEF OfferedRows, Sent

(* A slot gets one more seat. *)
LEMMA SeatTaken ==
    ASSUME NEW r, InsertEnrolment(r), NEW s \in Slots, s = job[r].slot
    PROVE  SeatsOf' = [SeatsOf EXCEPT ![s] = @ \cup {r}]
<1>1. PICK new : new = [id |-> r, participant |-> job[r].participant, slot |-> s]
  OBVIOUS
<1>2. new.id = r /\ new.slot = s /\ enrolments' = enrolments \cup {new}
  BY <1>1 DEF InsertEnrolment
<1>3. \A t \in Slots : Occupants(t)' = IF t = s THEN Occupants(t) \cup {new} ELSE Occupants(t)
  BY <1>2 DEF Occupants
<1>4. ASSUME NEW t \in Slots
      PROVE  Ids(Occupants(t))' = IF t = s THEN Ids(Occupants(t)) \cup {r} ELSE Ids(Occupants(t))
  BY <1>2, <1>3 DEF Ids
<1>5. QED
  BY <1>4 DEF SeatsOf

(* A request that has not been settled has no row and no seat. *)
LEMMA ClaimUnanswered ==
    ASSUME TablesInv, NEW r \in Requests, pc[r] \notin Settled
    PROVE  r \in OfferLedger!Unanswered
<1>1. /\ \A e \in enrolments : e.id # r
      /\ \A w \in waitlist : w.id # r
  BY DEF TablesInv, RowsOfSettled
<1>2. ASSUME NEW s \in Slots
      PROVE  r \notin SeatsOf[s] \cup (WaitingOf[s] \cup LeftOf[s])
  BY <1>1 DEF SeatsOf, WaitingOf, LeftOf, Ids, Occupants, Active, Left
<1>3. QED
  BY <1>2 DEF OfferLedger!Unanswered, OfferLedger!Rows, SeatsOf, WaitingOf, LeftOf, Ids

(* A request that is about to take a seat finds one free, and has not been *)
(* answered before.                                                        *)
LEMMA AboutToSeat ==
    ASSUME WaitInv, NEW r \in Requests, pc[r] = "seat", NEW s \in Slots, s = job[r].slot
    PROVE  OfferLedger!HasFreeSeat(s) /\ r \in OfferLedger!Unanswered
<1>1. TablesInv /\ TypeOK /\ LocationOf(s) \in Locations
  BY SlotLocation DEF WaitInv, TablesInv
<1>2. Cardinality(Occupants(s)) < high[LocationOf(s)]
  BY <1>1, FiniteQueries DEF WaitInv, CountsStand, TablesInv, TypeOK
<1>3. Cardinality({e.id : e \in Occupants(s)}) < high[LocationOf(s)]
  BY <1>1, <1>2, SeatIds
<1>4. OfferLedger!HasFreeSeat(s)
  BY <1>3, SameCount DEF OfferLedger!HasFreeSeat
<1>5. QED
  BY <1>1, <1>4, ClaimUnanswered DEF Settled

(* A row leaves its waitlist. *)
LEMMA RowLeaves ==
    ASSUME RowIdsDistinct, NEW w \in waitlist, w.slot \in Slots,
           waitlist' = waitlist, deletedRows' = deletedRows \cup {w.id}
    PROVE  OfferLedger!Leave(w.slot, w.id)
<1>1. ASSUME NEW s \in Slots
      PROVE  /\ s = w.slot => /\ Active(s)' = {v \in Active(s) : v.id # w.id}
                              /\ Left(s)' = Left(s) \cup {w}
             /\ s # w.slot => Active(s)' = Active(s) /\ Left(s)' = Left(s)
  BY DEF Active, Left, RowIdsDistinct
<1>2. ASSUME NEW s \in Slots
      PROVE  /\ s = w.slot =>
                   /\ Ids(Active(s))' = Ids(Active(s)) \ {w.id}
                   /\ Order(Active(s))' =
                         {pair \in Order(Active(s)) : w.id \notin {pair[1], pair[2]}}
                   /\ Ids(Left(s))' = Ids(Left(s)) \cup {w.id}
             /\ s # w.slot => /\ Ids(Active(s))' = Ids(Active(s))
                              /\ Order(Active(s))' = Order(Active(s))
                              /\ Ids(Left(s))' = Ids(Left(s))
  <2>1. CASE s = w.slot
    <3>1. PICK rows, others : rows = Active(s) /\ others = Active(s)'
      OBVIOUS
    <3>2. others = {v \in rows : v.id # w.id}
      BY <1>1, <2>1, <3>1
    <3>3. /\ Ids(others) = Ids(rows) \ {w.id}
          /\ Order(others) = {pair \in Order(rows) : w.id \notin {pair[1], pair[2]}}
      BY <3>2, OrderWithout
    <3>4. Ids(Left(s) \cup {w}) = Ids(Left(s)) \cup {w.id}
      BY DEF Ids
    <3>5. /\ Ids(Active(s))' = Ids(others) /\ Order(Active(s))' = Order(others)
          /\ Ids(Left(s))' = Ids(Left(s) \cup {w})
      BY <1>1, <2>1, <3>1 DEF Ids, Order
    <3>6. QED
      BY <2>1, <3>1, <3>3, <3>4, <3>5
  <2>2. CASE s # w.slot
    BY <1>1, <2>2 DEF Ids, Order
  <2>3. QED
    BY <2>1, <2>2
<1>3. /\ WaitingOf' = [WaitingOf EXCEPT ![w.slot] = @ \ {w.id}]
      /\ AheadOf' = [AheadOf EXCEPT ![w.slot] =
                        {pair \in @ : w.id \notin {pair[1], pair[2]}}]
      /\ LeftOf' = [LeftOf EXCEPT ![w.slot] = @ \cup {w.id}]
  BY <1>2 DEF WaitingOf, AheadOf, LeftOf
<1>4. QED
  BY <1>3 DEF OfferLedger!Leave, WaitingOf, AheadOf, LeftOf, Ids, Order

(* A row that has been deleted before stays where it is. *)
LEMMA RowIsOfItsSlot ==
    ASSUME NEW w \in waitlist, w.slot \in Slots
    PROVE  /\ w.id \in OfferLedger!Rows(w.slot)
           /\ w.id \notin deletedRows => w.id \in WaitingOf[w.slot]
<1>1. w \in Active(w.slot) \/ w \in Left(w.slot)
  BY DEF Active, Left
<1>2. /\ w.id \notin deletedRows => w.id \in WaitingOf[w.slot]
      /\ w.id \in WaitingOf[w.slot] \cup LeftOf[w.slot]
  BY <1>1 DEF Active, WaitingOf, LeftOf, Ids
<1>3. QED
  BY <1>2 DEF OfferLedger!Rows, WaitingOf, LeftOf, Ids

(* The tables a step leaves alone. *)
LEMMA LedgerStays ==
    /\ UNCHANGED enrolments => UNCHANGED SeatsOf
    /\ UNCHANGED <<waitlist, deletedRows>> => UNCHANGED <<WaitingOf, AheadOf, LeftOf>>
<1>1. UNCHANGED enrolments => UNCHANGED SeatsOf
  BY DEF SeatsOf, Ids, Occupants
<1>2. UNCHANGED <<waitlist, deletedRows>> => UNCHANGED <<WaitingOf, AheadOf, LeftOf>>
  BY DEF WaitingOf, AheadOf, LeftOf, Ids, Order, Active, Left
<1>3. QED
  BY <1>1, <1>2

(* A step that writes no table and sends no offer is none of the ledger's. *)
LEMMA LedgerStutters ==
    ASSUME UNCHANGED <<enrolments, waitlist, deletedRows, high>>, UNCHANGED OfferedRows
    PROVE  UNCHANGED OfferLedger!vars
BY LedgerStays
DEF OfferLedger!vars, SeatsOf, WaitingOf, AheadOf, LeftOf, OfferedRows, Ids, Order

(* The desk's enrolments and registrations. *)
LEMMA DeskSteps ==
    ASSUME WaitInv, NEW r \in Requests, Arrive(r) \/ Proceed(r) \/ Abort(r), UNCHANGED offer
    PROVE  [OfferLedger!Next]_(OfferLedger!vars)
<1>0. TablesInv /\ TypeOK
  BY DEF WaitInv, TablesInv
<1>1. UNCHANGED <<high, deletedRows>> /\ UNCHANGED OfferedRows
  BY TableWriters, SentStays DEF limits
<1>2. CASE Seat(r)
  <2>1. PICK s \in Slots : s = job[r].slot
    BY <1>0, <1>2 DEF Seat, TablesInv, LockDiscipline, UnderSlotLock
  <2>2. UNCHANGED <<WaitingOf, AheadOf, LeftOf>>
    BY <1>1, <1>2, LedgerStays DEF Seat
  <2>3. SeatsOf' = [SeatsOf EXCEPT ![s] = @ \cup {r}]
    BY <1>2, <2>1, SeatTaken DEF Seat
  <2>4. OfferLedger!HasFreeSeat(s) /\ r \in OfferLedger!Unanswered
    BY <1>2, <2>1, AboutToSeat DEF Seat
  <2>5. OfferLedger!Grant(s, r)
    BY <1>1, <2>2, <2>3, <2>4
    DEF OfferLedger!Grant, SeatsOf, WaitingOf, AheadOf, LeftOf, OfferedRows, Ids, Order
  <2>6. QED
    BY <2>4, <2>5 DEF OfferLedger!Next
<1>3. CASE AppendToWaitlist(r)
  <2>1. PICK s \in Slots : s = job[r].slot
    BY <1>0, <1>3 DEF AppendToWaitlist, TablesInv, LockDiscipline, UnderSlotLock
  <2>2. PICK new : new = [id |-> r, participant |-> job[r].participant, slot |-> s,
                          position |-> myLast[r] + 1]
    OBVIOUS
  <2>3. new.id = r /\ new.slot = s /\ new.position = myLast[r] + 1
    BY <2>2
  <2>4. new.position \in Nat
        /\ \A w \in Active(s) : w.position \in Nat /\ w.position < new.position
    <3>1. /\ myLast[r] \in Nat
          /\ \A w \in Active(s) : w.position \in Nat /\ w.position <= myLast[r]
      BY <1>0, <1>3, <2>1 DEF WaitInv, CountsStand, AppendToWaitlist, TypeOK, WaitlistRows, Active
    <3>2. QED
      BY <2>3, <3>1
  <2>5. \A t \in Slots : Active(t)' = IF t = s THEN Active(t) \cup {new} ELSE Active(t)
    BY <1>0, <1>3, <2>1, <2>2, AppendCounts
  <2>6. ASSUME NEW t \in Slots
        PROVE  Left(t)' = Left(t)
    <3>1. r \notin deletedRows
      BY <1>0, <1>3 DEF TablesInv, RowsOfSettled, AppendToWaitlist, Settled
    <3>2. waitlist' = waitlist \cup {new}
      BY <1>3, <2>1, <2>2 DEF AppendToWaitlist
    <3>3. QED
      BY <1>1, <2>3, <3>1, <3>2 DEF Left
  <2>7. /\ Ids(Active(s))' = Ids(Active(s)) \cup {r}
        /\ Order(Active(s))' = Order(Active(s)) \cup (Ids(Active(s)) \X {r})
    <3>1. PICK rows, more : rows = Active(s) /\ more = Active(s)'
      OBVIOUS
    <3>2. /\ Ids(more) = Ids(rows) \cup {new.id}
          /\ Order(more) = Order(rows) \cup (Ids(rows) \X {new.id})
      BY <2>4, <2>5, <3>1, OrderAfter
    <3>3. Ids(Active(s))' = Ids(more) /\ Order(Active(s))' = Order(more)
      BY <3>1 DEF Ids, Order
    <3>4. QED
      BY <2>3, <3>1, <3>2, <3>3
  <2>8. \A t \in Slots \ {s} : /\ Ids(Active(t))' = Ids(Active(t))
                               /\ Order(Active(t))' = Order(Active(t))
    BY <2>5 DEF Ids, Order
  <2>9. /\ WaitingOf' = [WaitingOf EXCEPT ![s] = @ \cup {r}]
        /\ AheadOf' = [AheadOf EXCEPT ![s] = @ \cup (WaitingOf[s] \X {r})]
    BY <2>7, <2>8 DEF WaitingOf, AheadOf
  <2>10. UNCHANGED <<SeatsOf, LeftOf>>
    <3>1. UNCHANGED SeatsOf
      BY <1>3, LedgerStays DEF AppendToWaitlist
    <3>2. UNCHANGED LeftOf
      BY <2>6 DEF LeftOf, Ids
    <3>3. QED
      BY <3>1, <3>2
  <2>11. r \in OfferLedger!Unanswered
    BY <1>0, <1>3, ClaimUnanswered DEF AppendToWaitlist, Settled
  <2>12. OfferLedger!Join(s, r)
    BY <1>1, <2>9, <2>10
    DEF OfferLedger!Join, SeatsOf, WaitingOf, AheadOf, LeftOf, OfferedRows, Ids, Order
  <2>13. QED
    BY <2>11, <2>12 DEF OfferLedger!Next
<1>4. CASE ~Seat(r) /\ ~AppendToWaitlist(r)
  BY <1>1, <1>4, TableWriters, LedgerStutters
<1>5. QED
  BY <1>2, <1>3, <1>4

(* An offer is sent to a row that waits or has left. *)
LEMMA OfferSteps ==
    ASSUME WaitInv, NEW id \in RowIds, WriteOffer(id), UNCHANGED vars
    PROVE  [OfferLedger!Next]_(OfferLedger!vars)
<1>0. /\ offer \in [Requests -> Offers] /\ offer[id].attempts \in Nat
      /\ id \in Requests
  BY WaitFacts DEF LifecycleTables, Offers
<1>1. PICK w \in waitlist : w.id = id
  BY DEF RowIds
<1>2. w.slot \in Slots
  BY DEF WaitInv, TablesInv, TypeOK, WaitlistRows
<1>3. /\ \A r \in Requests \ {id} : offer'[r] = offer[r]
      /\ offer'[id].attempts = offer[id].attempts + 1
  BY <1>0 DEF WriteOffer
<1>4. OfferedRows' = OfferedRows \cup {id}
  <2>1. \A r \in Requests : Sent(r)' <=> Sent(r) \/ r = id
    BY <1>0, <1>3 DEF Sent
  <2>2. QED
    BY <1>0, <2>1 DEF OfferedRows
<1>5. UNCHANGED <<enrolments, waitlist, deletedRows, high>>
  BY DEF vars, tables, limits
<1>6. CASE id \in OfferedRows
  BY <1>4, <1>5, <1>6, LedgerStutters
<1>7. CASE id \notin OfferedRows
  <2>1. UNCHANGED <<SeatsOf, WaitingOf, AheadOf, LeftOf>>
    BY <1>5, LedgerStays
  <2>2. OfferLedger!Offer(id)
    BY <1>4, <1>5, <2>1
    DEF OfferLedger!Offer, SeatsOf, WaitingOf, AheadOf, LeftOf, OfferedRows, Ids, Order
  <2>3. id \in OfferLedger!Rows(w.slot)
    BY <1>1, <1>2, RowIsOfItsSlot
  <2>4. QED
    BY <1>2, <1>7, <2>2, <2>3 DEF OfferLedger!Next, OfferedRows
<1>8. QED
  BY <1>6, <1>7

(* Acceptances and withdrawals. *)
LEMMA AnswerSteps ==
    ASSUME RowsInv, SentInv, NEW r \in Requests,
           Recheck(r) \/ Accept(r) \/ NoSeat(r) \/ Withdraw(r)
    PROVE  [OfferLedger!Next]_(OfferLedger!vars)
<1>0. WaitInv /\ TablesInv /\ TypeOK /\ RowIdsDistinct
  BY DEF RowsInv, WaitInv, TablesInv
<1>1. UNCHANGED high /\ UNCHANGED waitlist
  BY WaitlistCallsKeep DEF limits
<1>2. CASE Recheck(r) \/ NoSeat(r)
  <2>1. UNCHANGED <<enrolments, deletedRows, offer>>
    BY <1>2 DEF Recheck, NoSeat, tables
  <2>2. QED
    BY <1>0, <1>1, <2>1, SentStays, LedgerStutters
<1>3. CASE Withdraw(r)
  <2>1. /\ at[r] = "withdraw" /\ Answered(row[r], "DECLINED")
        /\ deletedRows' = deletedRows \cup {row[r]} /\ UNCHANGED enrolments
    BY <1>3 DEF Withdraw
  <2>2. row[r] \in RowIds /\ row[r] \in Requests
    BY <1>0, <2>1, WaitFacts DEF Knowing
  <2>3. UNCHANGED OfferedRows
    BY <1>0, <2>1, <2>2, SentStays DEF Statuses
  <2>4. PICK w \in waitlist : w.id = row[r]
    BY <2>2 DEF RowIds
  <2>5. w.slot \in Slots
    BY <1>0 DEF TypeOK, WaitlistRows
  <2>6. CASE w.id \in deletedRows
    <3>1. UNCHANGED deletedRows
      BY <2>1, <2>4, <2>6
    <3>2. QED
      BY <1>1, <2>1, <2>3, <3>1, LedgerStutters
  <2>7. CASE w.id \notin deletedRows
    <3>1. w.id \in WaitingOf[w.slot]
      BY <2>5, <2>7, RowIsOfItsSlot
    <3>2. OfferLedger!Leave(w.slot, w.id)
      BY <1>0, <1>1, <2>1, <2>4, <2>5, RowLeaves
    <3>3. UNCHANGED SeatsOf
      BY <2>1, LedgerStays
    <3>4. OfferLedger!Withdraw(w.slot, w.id)
      BY <1>1, <2>3, <3>2, <3>3 DEF OfferLedger!Withdraw, SeatsOf, OfferedRows, Ids
    <3>5. QED
      BY <2>5, <3>1, <3>4 DEF OfferLedger!Next, WaitingOf, Ids
  <2>8. QED
    BY <2>6, <2>7
<1>4. CASE Accept(r)
  <2>1. /\ at[r] = "transaction" /\ pc[r] = "seat" /\ InsertEnrolment(r)
        /\ Answered(row[r], "ACCEPTED") /\ deletedRows' = deletedRows \cup {row[r]}
    BY <1>4 DEF Accept
  <2>2. PICK w \in waitlist : w.id = row[r] /\ w.slot = job[r].slot
    BY <2>1 DEF RowsInv, Accepting
  <2>3. w.slot \in Slots /\ w.id \in Requests
    BY <1>0 DEF TypeOK, WaitlistRows
  <2>4. UNCHANGED OfferedRows
    BY <1>0, <2>1, <2>2, <2>3, SentStays DEF Statuses
  <2>5. SeatsOf' = [SeatsOf EXCEPT ![w.slot] = @ \cup {r}]
    BY <2>1, <2>2, <2>3, SeatTaken
  <2>6. OfferLedger!HasFreeSeat(w.slot) /\ r \in OfferLedger!Unanswered
    BY <1>0, <2>1, <2>2, <2>3, AboutToSeat
  <2>7. OfferLedger!Leave(w.slot, w.id)
    BY <1>0, <1>1, <2>1, <2>2, <2>3, RowLeaves
  <2>8. OfferLedger!Accept(w.slot, r, w.id)
    BY <1>1, <2>4, <2>5, <2>6, <2>7 DEF OfferLedger!Accept, SeatsOf, OfferedRows, Ids
  <2>9. w.id \in OfferLedger!Rows(w.slot) \cap OfferedRows
    BY <2>1, <2>2, <2>3, RowIsOfItsSlot DEF SentInv, OfferedRows
  <2>10. QED
    BY <2>3, <2>6, <2>8, <2>9 DEF OfferLedger!Next, OfferedRows
<1>5. QED
  BY <1>2, <1>3, <1>4

(* Staff edit the capacity of a location. *)
LEMMA CapacitySteps ==
    ASSUME WaitInv, NEW l \in Locations, NEW c \in 0 .. MaxCapacity, EditCapacity(l, c)
    PROVE  [OfferLedger!Next]_(OfferLedger!vars)
<1>1. UNCHANGED <<enrolments, waitlist, deletedRows, offer>>
  BY DEF EditCapacity, UpdateCapacity, tables, lifecycle
<1>2. UNCHANGED <<SeatsOf, WaitingOf, AheadOf, LeftOf, OfferedRows>>
  BY <1>1, LedgerStays, SentStays
<1>3. /\ high' \in [Locations -> Nat] /\ high'[l] >= high[l]
      /\ \A k \in Locations \ {l} : high'[k] = high[k]
  BY CapacityAssumption DEF EditCapacity, UpdateCapacity, WaitInv, TablesInv, TypeOK
<1>4. OfferLedger!Resize(l)
  BY <1>2, <1>3
  DEF OfferLedger!Resize, SeatsOf, WaitingOf, AheadOf, LeftOf, OfferedRows, Ids, Order
<1>5. QED
  BY <1>4 DEF OfferLedger!Next

(* A step of the lifecycle maps to a step of the ledger or to none. *)
LEMMA OfferLedgerNext ==
    ASSUME RowsInv, SentInv, [LifecycleNext]_allVars
    PROVE  [OfferLedger!Next]_(OfferLedger!vars)
<1>0. WaitInv
  BY DEF RowsInv
<1>1. ASSUME NEW r \in Requests,
             EnrolArrives(r) \/ EnrolProceeds(r) \/ AbortTransaction(r) \/ Allocate(r)
      PROVE  [OfferLedger!Next]_(OfferLedger!vars)
  BY <1>0, <1>1, AllocatorSteps, DeskSteps
<1>2. ASSUME UNCHANGED <<vars, offer>>
      PROVE  [OfferLedger!Next]_(OfferLedger!vars)
  BY <1>0, <1>2, SentStays, LedgerStutters DEF vars, tables, limits
<1>3. ASSUME NEW r \in Requests, CallArrives(r) \/ LosePromotion(r) \/ IssueSentOffer(r)
      PROVE  [OfferLedger!Next]_(OfferLedger!vars)
  <2>1. CASE CallArrives(r)
    BY <1>0, <1>2, <2>1, CallMoves
  <2>2. CASE LosePromotion(r)
    BY <1>2, <2>2 DEF LosePromotion
  <2>3. CASE IssueSentOffer(r)
    <3>1. row[r] \in RowIds /\ WriteOffer(row[r]) /\ UNCHANGED vars
      BY <1>0, <2>3, WaitFacts DEF IssueSentOffer, PromotionStep, Knowing
    <3>2. QED
      BY <1>0, <3>1, OfferSteps
  <2>4. QED
    BY <1>3, <2>1, <2>2, <2>3
<1>4. ASSUME NEW a \in Runners, TryPromoteNext(a)
      PROVE  [OfferLedger!Next]_(OfferLedger!vars)
  <2>1. CASE IssueOffer(a)
    <3>1. row[a] \in RowIds /\ WriteOffer(row[a]) /\ UNCHANGED vars
      BY <1>0, <2>1, WaitFacts DEF IssueOffer, PromotionStep, Knowing
    <3>2. QED
      BY <1>0, <3>1, OfferSteps
  <2>2. CASE ReadVacancy(a) \/ CountEnrolled(a) \/ CheckOutstanding(a) \/ PickCandidate(a)
    BY <1>2, <2>2 DEF ReadVacancy, CountEnrolled, CheckOutstanding, PickCandidate, PromotionStep
  <2>3. QED
    BY <1>4, <2>1, <2>2 DEF TryPromoteNext
<1>5. CASE ExpireBatch
  <2>1. UNCHANGED <<enrolments, waitlist, deletedRows, high>>
    BY <1>5 DEF ExpireBatch, vars, tables, limits
  <2>2. QED
    BY <1>0, <1>5, <2>1, SentStays, LedgerStutters
<1>6. ASSUME \/ FindExpired \/ FindVacancies \/ \E a \in Crons : NextSlot(a) \/ EndRun(a)
             \/ Tick \/ UNCHANGED allVars
      PROVE  [OfferLedger!Next]_(OfferLedger!vars)
  BY <1>2, <1>6 DEF FindExpired, FindVacancies, NextSlot, EndRun, Tick, allVars, lifecycle
<1>7. QED
  BY <1>0, <1>1, <1>3, <1>4, <1>5, <1>6, KindsOfStep, AnswerSteps, CapacitySteps

(* An acceptance begins by following a link that has been sent, and offers *)
(* are never taken back.                                                   *)
LEMMA SentStep ==
    ASSUME WaitInv, SentInv, [LifecycleNext]_allVars
    PROVE  SentInv'
<1> SUFFICES ASSUME NEW q \in Requests, at'[q] \in {"recheck", "transaction"}
             PROVE  Sent(row[q])'
  BY DEF SentInv
<1> DEFINE Goal == \/ at[q] \in {"recheck", "transaction"} /\ row'[q] = row[q]
                   \/ AcceptOffer(q)
<1>0. q \in Runners /\ at \in [Runners -> Places] /\ waitlist \subseteq waitlist'
      /\ Crons \cap Requests = {} /\ row \in [Runners -> Requests \cup {Nobody}]
  BY WaitFacts, LifecycleSteps, RowsStay, CronsAssumption
<1>1. ASSUME NEW b \in Runners, b # q, Moves(b)
      PROVE  Goal
  BY <1>0, <1>1, AfterMove
<1>2. ASSUME UNCHANGED <<at, row>>
      PROVE  Goal
  BY <1>2
<1>3. ASSUME NEW r \in Requests, EnrolArrives(r) \/ EnrolProceeds(r) \/ Allocate(r)
      PROVE  Goal
  BY <1>2, <1>3 DEF EnrolArrives, EnrolProceeds, Allocate, lifecycle
<1>4. ASSUME NEW r \in Requests,
             \/ Recheck(r) \/ Accept(r) \/ NoSeat(r) \/ Withdraw(r) \/ IssueSentOffer(r)
             \/ AbortTransaction(r) \/ LosePromotion(r)
      PROVE  Goal
  <2>1. Moves(r) /\ UNCHANGED row
    BY <1>4, CallStepMoves DEF Recheck, Accept, NoSeat, Withdraw, IssueSentOffer,
       AbortTransaction, LosePromotion
  <2>2. CASE r # q
    BY <1>0, <1>1, <2>1, <2>2, WaitFacts
  <2>3. CASE r = q
    <3>1. Recheck(q) => at[q] = "recheck"
      BY DEF Recheck
    <3>2. ~Recheck(q) => \/ at'[q] \in {"done", "refused", "capacity"} \/ at'[q] = at[q]
      BY <1>0, <1>4, <2>3 DEF Accept, NoSeat, Withdraw, IssueSentOffer, AbortTransaction,
         LosePromotion, Promote, Move
    <3>3. QED
      BY <2>1, <3>1, <3>2
  <2>4. QED
    BY <2>2, <2>3
<1>5. ASSUME NEW r \in Requests, CallArrives(r)
      PROVE  Goal
  <2>1. Moves(r) /\ r \in Runners
    BY <1>5, CallMoves, WaitFacts
  <2>2. CASE r # q
    BY <1>1, <2>1, <2>2
  <2>3. CASE r = q
    <3>1. ASSUME NEW call, NEW id, NEW place \in {"withdraw", "send", "refused"},
                 Call(q, call, id, place)
          PROVE  FALSE
      BY <1>0, <3>1 DEF Call, Move
    <3>2. ~DeclineOffer(q) /\ ~StaffWithdraw(q) /\ ~SendOffer(q)
      BY <3>1 DEF DeclineOffer, FollowLink, StaffWithdraw, SendOffer
    <3>3. QED
      BY <1>5, <2>3, <3>2 DEF CallArrives
  <2>4. QED
    BY <2>2, <2>3
<1>6. ASSUME NEW a \in Runners, TryPromoteNext(a)
      PROVE  Goal
  <2>1. Moves(a) /\ at'[a] \notin {"recheck", "transaction"}
    BY <1>6, PromotionMoves DEF Promoting
  <2>2. QED
    BY <1>1, <2>1
<1>7. ASSUME NEW a \in Crons, CronStep(a)
      PROVE  Goal
  BY <1>0, <1>1, <1>7, CronMovesOn, WaitFacts
<1>8. ASSUME \/ \E l \in Locations, c \in 0 .. MaxCapacity : EditCapacity(l, c)
             \/ Tick \/ UNCHANGED allVars
      PROVE  Goal
  BY <1>2, <1>8 DEF EditCapacity, Tick, allVars, lifecycle
<1> HIDE DEF Goal
<1>9. Goal
  BY <1>3, <1>4, <1>5, <1>6, <1>7, <1>8, WaitFacts DEF LifecycleNext, CallProceeds
<1>10. ASSUME at[q] \in {"recheck", "transaction"}, row'[q] = row[q]
       PROVE  Sent(row[q])'
  <2>1. Sent(row[q]) /\ row[q] \in Requests
    BY <1>0, <1>10, WaitFacts DEF SentInv, Knowing
  <2>2. /\ offer[row[q]].attempts \in Nat /\ offer'[row[q]].attempts \in Nat
        /\ offer'[row[q]].attempts >= offer[row[q]].attempts
    BY <2>1, OffersGoOn, WaitFacts DEF LifecycleTables, Offers
  <2>3. QED
    BY <1>10, <2>1, <2>2 DEF Sent
<1>11. ASSUME AcceptOffer(q)
       PROVE  Sent(row[q])'
  <2>1. PICK id \in RowIds : /\ \E token \in 1 .. offer[id].attempts : TRUE
                             /\ row' = [row EXCEPT ![q] = id] /\ offer' = offer
    BY <1>11 DEF AcceptOffer, FollowLink, Call
  <2>2. row'[q] = id /\ offer[id].attempts \in Nat
    BY <1>0, <2>1, WaitFacts DEF LifecycleTables, Offers
  <2>3. QED
    BY <2>1, <2>2 DEF Sent
<1>12. QED
  BY <1>9, <1>10, <1>11 DEF Goal

(* Calls, crons, promotions and the desk implement the ledger of seats and *)
(* offers, whatever the order of their steps: a seat that is not the desk's*)
(* is that of a row of the slot that was sent an offer, the row leaves the *)
(* waitlist in the same step (waitlist.service.ts 168-222), it never comes *)
(* back, and those that stay keep their order, though rows are withdrawn   *)
(* without the lock under which they are appended.                         *)
THEOREM LifecycleImplementsWaitlistLedger == LifecycleSpec => ImplementsWaitlistLedger
<1> DEFINE Inv == RowsInv /\ SentInv
<1>1. LifecycleInit => Inv /\ OfferLedger!Init
  <2>1. LifecycleInit => SentInv
    BY DEF LifecycleInit, SentInv, Runners
  <2>2. QED
    BY <2>1, RowsStart, OfferLedgerInit
<1>2. Inv /\ [LifecycleNext]_allVars => Inv'
  <2>1. RowsInv => WaitInv
    BY DEF RowsInv
  <2>2. QED
    BY <2>1, RowsStep, SentStep
<1>3. Inv /\ [LifecycleNext]_allVars => [OfferLedger!Next]_(OfferLedger!vars)
  BY OfferLedgerNext
<1> HIDE DEF Inv
<1>4. QED
  BY <1>1, <1>2, <1>3, PTL DEF LifecycleSpec, ImplementsWaitlistLedger, OfferLedger!Spec
=============================================================================
