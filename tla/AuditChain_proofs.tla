-------------------------- MODULE AuditChain_proofs --------------------------
(***************************************************************************)
(* The chain invariant of module AuditChain is inductive, whatever the     *)
(* number of writes.                                                       *)
(***************************************************************************)
EXTENDS AuditChain, TLAPS

LEMMA InitChain == Init => ChainInv
  <1> SUFFICES ASSUME Init PROVE ChainInv
    OBVIOUS
  <1>1. Under = {} /\ hashed = {} /\ rows = {}
    BY DEF Init, Under
  <1>2. TypeOK
    BY DEF Init, TypeOK
  <1>3. RowsInOrder
    BY DEF Init, RowsInOrder
  <1>4. ReadsPointBack /\ AloneIsLast /\ IntactUnlessOverlap
    BY <1>1 DEF ReadsPointBack, AloneIsLast, IntactUnlessOverlap, VerifyOk
  <1> QED
    BY <1>2, <1>3, <1>4 DEF ChainInv

(* A step that inserts no row and hashes none keeps what is about rows.    *)
LEMMA SameRows ==
    ASSUME UNCHANGED <<previous, rows, createdAt, hashed>>
    PROVE  /\ Distinct' <=> Distinct
           /\ VerifyOk' <=> VerifyOk
           /\ Latest' = Latest
  BY DEF Distinct, VerifyOk, LinkHolds, Before, Latest

LEMMA ReadPreviousKeeps ==
    ASSUME ChainInv, NEW w \in Writes, ReadPrevious(w)
    PROVE  ChainInv'
  <1> USE DEF ChainInv
  <1>1. PICK v \in Latest : previous' = [previous EXCEPT ![w] = v]
    BY DEF ReadPrevious
  <1>2. /\ v \in Writes \cup {Genesis}
        /\ v # Genesis => v \in hashed
    BY <1>1, WritesAssumption DEF Latest, TypeOK
  <1>3. w \notin rows /\ w \notin hashed
    BY DEF ReadPrevious, RowsInOrder, TypeOK
  <1>4. Under' = Under \cup {w} /\ w \notin Under
    BY DEF ReadPrevious, Under, TypeOK
  <1>5. TypeOK'
    BY <1>1, <1>2 DEF ReadPrevious, TypeOK
  <1>6. RowsInOrder'
    BY <1>3 DEF ReadPrevious, RowsInOrder, TypeOK
  <1>7. ReadsPointBack'
    BY <1>1, <1>2, <1>3, <1>4 DEF ReadPrevious, ReadsPointBack, TypeOK
  <1>8. Latest' = Latest
    BY DEF ReadPrevious, Latest
  <1>9. AloneIsLast'
    <2> SUFFICES ASSUME ~overlapped'
                 PROVE  /\ \A x, y \in Under' : x = y
                        /\ \A x \in Under' :
                              /\ previous'[x] \in Latest'
                              /\ pc'[x] = "hash" => \A y \in hashed' : createdAt'[y] <= createdAt'[x]
      BY DEF AloneIsLast
    <2>1. Under' = {w}
      BY <1>4 DEF ReadPrevious
    <2>2. previous'[w] = v /\ pc'[w] = "insert"
      BY <1>1 DEF ReadPrevious, TypeOK
    <2> QED
      BY <1>1, <1>8, <2>1, <2>2
  <1>10. IntactUnlessOverlap'
    <2> SUFFICES ASSUME Distinct', ~overlapped'
                 PROVE  VerifyOk'
      BY DEF IntactUnlessOverlap
    <2>1. VerifyOk
      BY DEF IntactUnlessOverlap, ReadPrevious, Distinct
    <2>2. \A x \in hashed : previous'[x] = previous[x]
      BY <1>1, <1>3 DEF TypeOK
    <2> QED
      BY <2>1, <2>2 DEF VerifyOk, LinkHolds, Before, ReadPrevious
  <1> QED
    BY <1>5, <1>6, <1>7, <1>9, <1>10

LEMMA InsertRowKeeps ==
    ASSUME ChainInv, NEW w \in Writes, InsertRow(w)
    PROVE  ChainInv'
  <1> USE DEF ChainInv
  <1>1. w \notin rows /\ w \notin hashed /\ w \in Under
    BY DEF InsertRow, RowsInOrder, TypeOK, Under
  <1>2. /\ Under' = Under
        /\ \A x \in Writes \ {w} : pc'[x] = pc[x] /\ createdAt'[x] = createdAt[x]
        /\ createdAt'[w] = now /\ pc'[w] = "hash"
    BY DEF InsertRow, Under, TypeOK
  <1>3. \A x \in hashed : x \in Writes \ {w} /\ createdAt'[x] = createdAt[x] /\ createdAt[x] <= now
    BY <1>1, <1>2 DEF TypeOK, RowsInOrder
  <1>4. TypeOK'
    BY DEF InsertRow, TypeOK
  <1>5. RowsInOrder'
    BY <1>1, <1>2 DEF InsertRow, RowsInOrder, TypeOK
  <1>6. ReadsPointBack'
    BY <1>1, <1>2, <1>3 DEF InsertRow, ReadsPointBack, TypeOK
  <1>7. Latest' = Latest
    BY <1>3 DEF InsertRow, Latest
  <1>8. AloneIsLast'
    <2> SUFFICES ASSUME ~overlapped'
                 PROVE  /\ \A x, y \in Under' : x = y
                        /\ \A x \in Under' :
                              /\ previous'[x] \in Latest'
                              /\ pc'[x] = "hash" => \A y \in hashed' : createdAt'[y] <= createdAt'[x]
      BY DEF AloneIsLast
    <2>1. Under = {w} /\ previous[w] \in Latest
      BY <1>1 DEF AloneIsLast, InsertRow
    <2> QED
      BY <1>2, <1>3, <1>7, <2>1 DEF InsertRow
  <1>9. IntactUnlessOverlap'
    <2> SUFFICES ASSUME Distinct', ~overlapped'
                 PROVE  VerifyOk'
      BY DEF IntactUnlessOverlap
    <2>1. Distinct
      BY <1>1, <1>2 DEF Distinct, InsertRow, TypeOK
    <2>2. VerifyOk
      BY <2>1 DEF IntactUnlessOverlap, InsertRow
    <2>3. \A x \in hashed : Before(x)' = Before(x)
      BY <1>3 DEF Before, InsertRow
    <2> QED
      BY <1>3, <2>2, <2>3 DEF VerifyOk, LinkHolds, InsertRow, Before
  <1> QED
    BY <1>4, <1>5, <1>6, <1>8, <1>9

LEMMA WriteHashKeeps ==
    ASSUME ChainInv, NEW w \in Writes, WriteHash(w)
    PROVE  ChainInv'
  <1> USE DEF ChainInv
  <1>1. w \in rows \ hashed /\ w \in Under /\ hashed' = hashed \cup {w}
    BY DEF WriteHash, RowsInOrder, Under
  <1>2. Under' = Under \ {w}
    BY DEF WriteHash, Under, TypeOK
  <1>3. TypeOK'
    BY <1>1 DEF WriteHash, TypeOK
  <1>4. RowsInOrder'
    BY <1>1 DEF WriteHash, RowsInOrder, TypeOK
  <1>5. ReadsPointBack'
    BY <1>1, <1>2 DEF WriteHash, ReadsPointBack, TypeOK
  <1>6. AloneIsLast'
    BY <1>1, <1>2 DEF WriteHash, AloneIsLast
  <1>7. IntactUnlessOverlap'
    <2> SUFFICES ASSUME Distinct', ~overlapped', NEW x \in hashed'
                 PROVE  LinkHolds(x)'
      BY DEF IntactUnlessOverlap, VerifyOk
    <2>1. Distinct /\ ~overlapped /\ VerifyOk
      BY DEF IntactUnlessOverlap, WriteHash, Distinct
    <2>2. /\ previous[w] \in Latest
          /\ \A y \in hashed : createdAt[y] <= createdAt[w]
      BY <1>1, <2>1 DEF AloneIsLast, WriteHash
    <2>3. \A y \in hashed : createdAt[y] \in Nat /\ createdAt[w] \in Nat /\ createdAt[y] < createdAt[w]
      BY <1>1, <2>1, <2>2 DEF Distinct, TypeOK
    <2>4. UNCHANGED <<createdAt, previous>>
      BY DEF WriteHash
    <2>5. CASE x = w
      <3>1. createdAt[w] \in Nat /\ ~(createdAt[w] < createdAt[w])
        BY <1>1 DEF TypeOK
      <3>2. Before(x)' = {v \in hashed \cup {w} : createdAt[v] < createdAt[w]}
        BY <1>1, <2>4, <2>5 DEF Before
      <3>3. Before(x)' = hashed
        BY <2>3, <3>1, <3>2
      <3> QED
        BY <2>2, <2>4, <2>5, <3>3 DEF LinkHolds, Latest
    <2>6. CASE x # w
      <3>1. x \in hashed /\ LinkHolds(x)
        BY <1>1, <2>1, <2>6 DEF VerifyOk
      <3>2. Before(x)' = Before(x)
        BY <1>1, <2>3, <2>4, <3>1 DEF Before
      <3> QED
        BY <2>4, <3>1, <3>2 DEF LinkHolds
    <2> QED
      BY <2>5, <2>6
  <1> QED
    BY <1>3, <1>4, <1>5, <1>6, <1>7

LEMMA FailKeeps ==
    ASSUME ChainInv, NEW w \in Writes, Fail(w)
    PROVE  ChainInv'
  <1> USE DEF ChainInv
  <1>1. UNCHANGED <<now, previous, rows, createdAt, hashed, overlapped>>
    BY DEF Fail
  <1>2. Under' \subseteq Under /\ \A x \in Under' : pc'[x] = pc[x]
    BY DEF Fail, Under, TypeOK
  <1>3. TypeOK'
    BY DEF Fail, TypeOK
  <1>4. RowsInOrder'
    BY DEF Fail, RowsInOrder, TypeOK
  <1>5. ReadsPointBack'
    BY <1>1, <1>2 DEF ReadsPointBack
  <1>6. AloneIsLast'
    BY <1>1, <1>2, SameRows DEF AloneIsLast
  <1>7. IntactUnlessOverlap'
    BY <1>1, SameRows DEF IntactUnlessOverlap
  <1> QED
    BY <1>3, <1>4, <1>5, <1>6, <1>7

LEMMA TickKeeps ==
    ASSUME ChainInv, Tick \/ UNCHANGED vars
    PROVE  ChainInv'
  <1> USE DEF ChainInv
  <1>1. /\ UNCHANGED <<pc, previous, rows, createdAt, hashed, overlapped>>
        /\ now' \in Nat /\ now <= now'
    BY DEF Tick, vars, TypeOK
  <1>2. Under' = Under
    BY <1>1 DEF Under
  <1>3. TypeOK'
    BY <1>1 DEF TypeOK
  <1>4. RowsInOrder'
    BY <1>1 DEF RowsInOrder, TypeOK
  <1>5. ReadsPointBack'
    BY <1>1, <1>2 DEF ReadsPointBack
  <1>6. AloneIsLast' /\ IntactUnlessOverlap'
    BY <1>1, <1>2, SameRows DEF AloneIsLast, IntactUnlessOverlap
  <1> QED
    BY <1>3, <1>4, <1>5, <1>6

(* The chain invariant holds of every reachable state. *)
THEOREM ChainInvariant == Spec => []ChainInv
  <1>1. ChainInv /\ [Next]_vars => ChainInv'
    BY ReadPreviousKeeps, InsertRowKeeps, WriteHashKeeps, FailKeeps, TickKeeps DEF Next
  <1> QED
    BY InitChain, <1>1, PTL DEF Spec

(* verify accepts an untouched chain as long as writes do not overlap,     *)
(* whichever of them fail.                                                 *)
THEOREM IntactChain == Spec => []IntactUnlessOverlap
  <1>1. ChainInv => IntactUnlessOverlap
    BY DEF ChainInv
  <1> QED
    BY ChainInvariant, <1>1, PTL

(* However writes overlap, links lead back to chained rows. *)
THEOREM PointBack == Spec => []LinksPointBack
  <1>1. ChainInv => LinksPointBack
    BY DEF ChainInv, ReadsPointBack, LinksPointBack, TypeOK
  <1> QED
    BY ChainInvariant, <1>1, PTL
=============================================================================
