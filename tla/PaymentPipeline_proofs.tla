------------------------ MODULE PaymentPipeline_proofs ------------------------
(***************************************************************************)
(* The queue: what is recorded of a message was done, and a message that   *)
(* is neither retried while it is dispatched nor cut off in between is     *)
(* sent at most once.  The pipeline around it: it is a client of that      *)
(* queue, its tables are well formed, and a gateway's result counts once.  *)
(* All of it for any number of processes, messages, events and crashes.    *)
(***************************************************************************)
EXTENDS PaymentPipeline, Fees_proofs, SequenceTheorems, TLAPS

-----------------------------------------------------------------------------
(* The queue *)

(* The rows and what was delivered under them. *)
RowsAgree ==
    \A k \in Keys :
        /\ row[k] = "SENT" => delivered[k] > 0
        /\ row[k] = "none" => delivered[k] = 0 /\ \A p \in Processes : ~Dispatches(p, k)
        /\ \A p \in Processes : Dispatches(p, k) /\ place[p] = "record" => delivered[k] > 0

(* A message that is not spoiled has one dispatcher at most, which alone   *)
(* knows of its delivery; without one it has been sent, or never was.      *)
DeliveredSoFar(p) == IF place[p] = "record" THEN 1 ELSE 0

OneDispatcher ==
    \A k \in Keys \ spoiled : \A p \in Processes : Dispatches(p, k) =>
        /\ row[k] # "SENT"
        /\ delivered[k] = DeliveredSoFar(p)
        /\ \A q \in Processes : Dispatches(q, k) => q = p

RestingUnsent ==
    \A k \in Keys \ spoiled :
        row[k] \in {"QUEUED", "FAILED"} /\ (\A p \in Processes : ~Dispatches(p, k)) =>
            delivered[k] = 0

QueueInv == QueueTypeOK /\ RowsAgree /\ OneDispatcher /\ RestingUnsent /\ SentOnce

-----------------------------------------------------------------------------
(* How a step moves the job that makes it *)

JobsOK ==
    /\ place \in [Processes -> {"rest", "lookup", "insert"} \cup Dispatching]
    /\ todo \in [Processes -> Seq(Keys)]
    /\ \A p \in Processes : place[p] # "rest" => todo[p] # <<>>

OthersStay(p) == \A q \in Processes \ {p} : place'[q] = place[q] /\ todo'[q] = todo[q]

LEMMA CurrentIsKey ==
    ASSUME JobsOK, NEW p \in Processes, place[p] # "rest"
    PROVE  Current(p) \in Keys
  <1>1. todo[p] \in Seq(Keys) /\ todo[p] # <<>>
    BY DEF JobsOK
  <1> QED
    BY <1>1, HeadTailProperties DEF Current

LEMMA AdvanceMoves ==
    ASSUME JobsOK, NEW p \in Processes, place[p] # "rest",
           NEW to \in {"insert"} \cup Dispatching, Advance(p, to)
    PROVE  JobsOK' /\ OthersStay(p) /\ place'[p] = to /\ todo'[p] = todo[p]
           /\ UNCHANGED <<retries, cuts, spoiled, lost>>
  BY DEF JobsOK, Advance, OthersStay, Dispatching

LEMMA NextMessageMoves ==
    ASSUME JobsOK, NEW p \in Processes, place[p] # "rest", NextMessage(p)
    PROVE  JobsOK' /\ OthersStay(p) /\ place'[p] \in {"rest", "lookup"}
           /\ UNCHANGED <<retries, cuts, spoiled, lost>>
  <1>1. todo[p] \in Seq(Keys) /\ todo[p] # <<>>
    BY DEF JobsOK
  <1>2. Tail(todo[p]) \in Seq(Keys) /\ Len(Tail(todo[p])) = Len(todo[p]) - 1
    BY <1>1, HeadTailProperties
  <1>3. Len(todo[p]) # 1 => Tail(todo[p]) # <<>>
    <2>1. Len(todo[p]) \in Nat \ {0}
      BY <1>1, EmptySeq
    <2>2. Tail(todo[p]) = <<>> => Len(Tail(todo[p])) = 0
      BY EmptySeq
    <2> QED
      BY <1>2, <2>1, <2>2
  <1>4. place' = [place EXCEPT ![p] = IF Len(todo[p]) = 1 THEN "rest" ELSE "lookup"]
        /\ todo' = [todo EXCEPT ![p] = Tail(todo[p])]
    BY DEF NextMessage, JobsOK
  <1>5. place'[p] \in {"rest", "lookup"} /\ OthersStay(p)
    BY <1>4 DEF JobsOK, OthersStay
  <1>6. place' \in [Processes -> {"rest", "lookup", "insert"} \cup Dispatching]
        /\ todo' \in [Processes -> Seq(Keys)]
    BY <1>2, <1>4 DEF JobsOK
  <1>7. \A q \in Processes : place'[q] # "rest" => todo'[q] # <<>>
    BY <1>3, <1>4 DEF JobsOK
  <1> QED
    BY <1>5, <1>6, <1>7 DEF JobsOK, NextMessage

LEMMA JobsOfType == QueueTypeOK => JobsOK
  BY DEF QueueTypeOK, JobsOK
-----------------------------------------------------------------------------
(* The dispatchers of the other jobs go on as they were. *)
LEMMA OthersDispatchOn ==
    ASSUME NEW p \in Processes, OthersStay(p)
    PROVE  \A q \in Processes \ {p}, k \in Keys : Dispatches(q, k)' <=> Dispatches(q, k)
  BY DEF OthersStay, Dispatches, Current

(* A step that writes no row and leaves it to p to dispatch what it did.   *)
LEMMA NoRowWritten ==
    ASSUME QueueInv, NEW p \in Processes, OthersStay(p), JobsOK',
           UNCHANGED <<row, delivered, retries, cuts, spoiled, lost>>,
           \A k \in Keys : Dispatches(p, k)' <=> Dispatches(p, k),
           place'[p] = "record" <=> place[p] = "record"
    PROVE  QueueInv'
  <1>1. QueueTypeOK'
    BY DEF QueueInv, QueueTypeOK, JobsOK
  <1>2. \A q \in Processes, k \in Keys : Dispatches(q, k)' <=> Dispatches(q, k)
    BY OthersDispatchOn
  <1>3. \A q \in Processes : place'[q] = "record" <=> place[q] = "record"
    BY DEF OthersStay
  <1>4. RowsAgree'
    BY <1>2, <1>3 DEF QueueInv, RowsAgree
  <1>5. OneDispatcher'
    BY <1>2, <1>3 DEF QueueInv, OneDispatcher, DeliveredSoFar
  <1>6. RestingUnsent' /\ SentOnce'
    BY <1>2 DEF QueueInv, RestingUnsent, SentOnce
  <1> QED
    BY <1>1, <1>4, <1>5, <1>6 DEF QueueInv

-----------------------------------------------------------------------------
(* One lemma per action *)

LEMMA QuietSteps ==
    ASSUME QueueInv, NEW p \in Processes,
           LookUp(p) \/ InsertFails(p) \/ (Insert(p) /\ IsTaken(Current(p)))
    PROVE  QueueInv'
  <1>1. JobsOK /\ place[p] # "rest" /\ ~(place[p] \in Dispatching)
    BY JobsOfType DEF QueueInv, LookUp, Insert, InsertFails, Dispatching
  <1>2. UNCHANGED <<row, delivered>> /\ (Advance(p, "insert") \/ NextMessage(p))
    BY DEF LookUp, Insert, InsertFails
  <1>3. JobsOK' /\ OthersStay(p) /\ place'[p] \in {"insert", "rest", "lookup"}
        /\ UNCHANGED <<retries, cuts, spoiled, lost>>
    BY <1>1, <1>2, AdvanceMoves, NextMessageMoves
  <1>4. \A k \in Keys : ~Dispatches(p, k) /\ ~Dispatches(p, k)'
    BY <1>1, <1>3 DEF Dispatches, Dispatching
  <1> QED
    BY <1>1, <1>2, <1>3, <1>4, NoRowWritten DEF Dispatching

LEMMA LoadKeeps ==
    ASSUME QueueInv, NEW p \in Processes, Load(p)
    PROVE  QueueInv'
  <1>1. JobsOK /\ place[p] = "load"
    BY JobsOfType DEF QueueInv, Load
  <1>2. PICK to \in {"send", "fail"} : Advance(p, to)
    BY DEF Load
  <1>3. JobsOK' /\ OthersStay(p) /\ place'[p] = to /\ todo'[p] = todo[p]
        /\ UNCHANGED <<retries, cuts, spoiled, lost>>
    BY <1>1, <1>2, AdvanceMoves DEF Dispatching
  <1>4. \A k \in Keys : Dispatches(p, k)' <=> Dispatches(p, k)
    BY <1>1, <1>3 DEF Dispatches, Dispatching, Current
  <1> QED
    BY <1>1, <1>3, <1>4, NoRowWritten DEF Load

(* A key without a row has no dispatcher, and so gets its first. *)
LEMMA InsertKeeps ==
    ASSUME QueueInv, NEW p \in Processes, Insert(p), ~IsTaken(Current(p))
    PROVE  QueueInv'
  <1> DEFINE k == Current(p)
  <1>1. JobsOK /\ place[p] = "insert" /\ k \in Keys
    BY JobsOfType, CurrentIsKey DEF QueueInv, Insert
  <1>2. row[k] = "none" /\ row' = [row EXCEPT ![k] = "QUEUED"] /\ UNCHANGED delivered
        /\ Advance(p, "load")
    BY DEF Insert, IsTaken
  <1>3. JobsOK' /\ OthersStay(p) /\ place'[p] = "load" /\ todo'[p] = todo[p]
        /\ UNCHANGED <<retries, cuts, spoiled, lost>>
    BY <1>1, <1>2, AdvanceMoves DEF Dispatching
  <1>4. row \in [Keys -> {"none", "QUEUED", "SENT", "FAILED"}] /\ delivered \in [Keys -> Nat]
    BY DEF QueueInv, QueueTypeOK
  <1>5. delivered[k] = 0 /\ \A q \in Processes : ~Dispatches(q, k)
    BY <1>1, <1>2 DEF QueueInv, RowsAgree
  <1>6. \A l \in Keys : ~Dispatches(p, l) /\ (Dispatches(p, l)' <=> l = k)
    BY <1>1, <1>3 DEF Dispatches, Dispatching, Current
  <1>7. \A q \in Processes \ {p}, l \in Keys : Dispatches(q, l)' <=> Dispatches(q, l)
    BY <1>3, OthersDispatchOn
  <1>8. row'[k] = "QUEUED" /\ \A l \in Keys \ {k} : row'[l] = row[l]
    BY <1>1, <1>2, <1>4
  <1>9. \A q \in Processes \ {p} : place'[q] = place[q]
    BY <1>3 DEF OthersStay
  <1>10. QueueTypeOK'
    BY <1>1, <1>2, <1>3, <1>4 DEF QueueInv, QueueTypeOK, JobsOK
  <1>11. RowsAgree'
    BY <1>1, <1>2, <1>3, <1>5, <1>6, <1>7, <1>8, <1>9 DEF QueueInv, RowsAgree
  <1>12. OneDispatcher'
    <2> SUFFICES ASSUME NEW l \in Keys \ spoiled, NEW q \in Processes, Dispatches(q, l)'
                 PROVE  /\ row'[l] # "SENT" /\ delivered'[l] = DeliveredSoFar(q)'
                        /\ \A o \in Processes : Dispatches(o, l)' => o = q
      BY <1>3 DEF OneDispatcher
    <2>1. CASE l = k
      BY <2>1, <1>2, <1>3, <1>5, <1>6, <1>7, <1>8 DEF DeliveredSoFar
    <2>2. CASE l # k
      BY <2>2, <1>2, <1>6, <1>7, <1>8, <1>9 DEF QueueInv, OneDispatcher, DeliveredSoFar
    <2> QED
      BY <2>1, <2>2
  <1>13. RestingUnsent' /\ SentOnce'
    BY <1>2, <1>3, <1>5, <1>6, <1>7, <1>8 DEF QueueInv, RestingUnsent, SentOnce
  <1> QED
    BY <1>10, <1>11, <1>12, <1>13 DEF QueueInv
(* A key that p dispatches without having delivered it is unsent, or       *)
(* spoiled.                                                                *)
LEMMA SendKeeps ==
    ASSUME QueueInv, NEW p \in Processes, Send(p)
    PROVE  QueueInv'
  <1> DEFINE k == Current(p)
  <1>1. JobsOK /\ place[p] = "send" /\ k \in Keys
    BY JobsOfType, CurrentIsKey DEF QueueInv, Send
  <1>2. delivered \in [Keys -> Nat] /\ UNCHANGED row
    BY DEF QueueInv, QueueTypeOK, Send
  <1>3. PICK to \in {"record", "fail"} :
            /\ Advance(p, to)
            /\ IF to = "record" THEN delivered' = [delivered EXCEPT ![k] = @ + 1]
               ELSE UNCHANGED delivered
    BY DEF Send
  <1>4. JobsOK' /\ OthersStay(p) /\ place'[p] = to /\ todo'[p] = todo[p]
        /\ UNCHANGED <<retries, cuts, spoiled, lost>>
    BY <1>1, <1>3, AdvanceMoves DEF Dispatching
  <1>5. \A q \in Processes, l \in Keys : Dispatches(q, l)' <=> Dispatches(q, l)
    <2>1. \A l \in Keys : Dispatches(p, l)' <=> Dispatches(p, l)
      BY <1>1, <1>4 DEF Dispatches, Dispatching, Current
    <2> QED
      BY <1>4, <2>1, OthersDispatchOn
  <1>6. Dispatches(p, k) /\ \A l \in Keys : Dispatches(p, l) => l = k
    BY <1>1 DEF Dispatches, Dispatching, Current
  <1>7. \A q \in Processes \ {p} : place'[q] = place[q]
    BY <1>4 DEF OthersStay
  <1>8. /\ \A l \in Keys \ {k} : delivered'[l] = delivered[l]
        /\ delivered'[k] = IF to = "record" THEN delivered[k] + 1 ELSE delivered[k]
        /\ delivered' \in [Keys -> Nat]
    BY <1>1, <1>2, <1>3
  <1>9. delivered[k] \in Nat /\ row[k] # "none"
    BY <1>1, <1>2, <1>6 DEF QueueInv, RowsAgree
  <1>10. QueueTypeOK'
    BY <1>2, <1>4, <1>8 DEF QueueInv, QueueTypeOK, JobsOK
  <1>11. RowsAgree'
    <2> SUFFICES ASSUME NEW l \in Keys
                 PROVE  /\ row'[l] = "SENT" => delivered'[l] > 0
                        /\ row'[l] = "none" =>
                              delivered'[l] = 0 /\ \A q \in Processes : ~Dispatches(q, l)'
                        /\ \A q \in Processes :
                              Dispatches(q, l)' /\ place'[q] = "record" => delivered'[l] > 0
      BY DEF RowsAgree
    <2>1. CASE l = k
      BY <2>1, <1>1, <1>2, <1>4, <1>5, <1>7, <1>8, <1>9 DEF QueueInv, RowsAgree
    <2>2. CASE l # k
      BY <2>2, <1>2, <1>5, <1>6, <1>7, <1>8 DEF QueueInv, RowsAgree
    <2> QED
      BY <2>1, <2>2
  <1>12. k \notin spoiled => delivered[k] = 0 /\ row[k] # "SENT"
                             /\ \A q \in Processes : Dispatches(q, k) => q = p
    BY <1>1, <1>6 DEF QueueInv, OneDispatcher, DeliveredSoFar
  <1>13. OneDispatcher'
    <2> SUFFICES ASSUME NEW l \in Keys \ spoiled, NEW q \in Processes, Dispatches(q, l)
                 PROVE  /\ row'[l] # "SENT" /\ delivered'[l] = DeliveredSoFar(q)'
                        /\ \A o \in Processes : Dispatches(o, l)' => o = q
      BY <1>4, <1>5 DEF OneDispatcher
    <2>1. CASE l = k
      BY <2>1, <1>2, <1>4, <1>5, <1>8, <1>9, <1>12 DEF DeliveredSoFar
    <2>2. CASE l # k
      BY <2>2, <1>2, <1>5, <1>6, <1>7, <1>8 DEF QueueInv, OneDispatcher, DeliveredSoFar
    <2> QED
      BY <2>1, <2>2
  <1>14. RestingUnsent'
    BY <1>2, <1>4, <1>5, <1>6, <1>8 DEF QueueInv, RestingUnsent
  <1>15. SentOnce'
    BY <1>4, <1>8, <1>9, <1>12 DEF QueueInv, SentOnce
  <1> QED
    BY <1>10, <1>11, <1>13, <1>14, <1>15 DEF QueueInv

(* What is marked SENT was delivered; a failure was not, or is spoiled.    *)
LEMMA MarkKeeps ==
    ASSUME QueueInv, NEW p \in Processes, RecordSent(p) \/ MarkFailure(p)
    PROVE  QueueInv'
  <1> DEFINE k == Current(p)
  <1>1. PICK status \in {"SENT", "FAILED"} :
            /\ place[p] = IF status = "SENT" THEN "record" ELSE "fail"
            /\ row' = [row EXCEPT ![k] = status]
            /\ NextMessage(p) /\ UNCHANGED delivered
    BY DEF RecordSent, MarkFailure, Mark
  <1>2. JobsOK /\ k \in Keys
    BY <1>1, JobsOfType, CurrentIsKey DEF QueueInv
  <1>3. JobsOK' /\ OthersStay(p) /\ place'[p] \in {"rest", "lookup"}
        /\ UNCHANGED <<retries, cuts, spoiled, lost>>
    BY <1>1, <1>2, NextMessageMoves
  <1>4. row \in [Keys -> {"none", "QUEUED", "SENT", "FAILED"}]
    BY DEF QueueInv, QueueTypeOK
  <1>5. row'[k] = status /\ \A l \in Keys \ {k} : row'[l] = row[l]
    BY <1>1, <1>2, <1>4
  <1>6. Dispatches(p, k) /\ \A l \in Keys : ~Dispatches(p, l)' /\ (Dispatches(p, l) => l = k)
    BY <1>1, <1>2, <1>3 DEF Dispatches, Dispatching, Current
  <1>7. \A q \in Processes \ {p} : place'[q] = place[q]
                                   /\ \A l \in Keys : Dispatches(q, l)' <=> Dispatches(q, l)
    BY <1>3, OthersDispatchOn DEF OthersStay
  <1>8. row[k] # "none" /\ (status = "SENT" => delivered[k] > 0)
    BY <1>1, <1>2, <1>6 DEF QueueInv, RowsAgree
  <1>9. k \notin spoiled =>
            /\ delivered[k] = DeliveredSoFar(p)
            /\ \A q \in Processes : Dispatches(q, k) => q = p
    BY <1>2, <1>6 DEF QueueInv, OneDispatcher
  <1>10. QueueTypeOK'
    BY <1>1, <1>2, <1>3, <1>4 DEF QueueInv, QueueTypeOK, JobsOK
  <1>11. RowsAgree'
    BY <1>1, <1>5, <1>6, <1>7, <1>8 DEF QueueInv, RowsAgree
  <1>12. OneDispatcher'
    BY <1>1, <1>3, <1>5, <1>6, <1>7, <1>9 DEF QueueInv, OneDispatcher, DeliveredSoFar
  <1>13. RestingUnsent'
    BY <1>1, <1>3, <1>5, <1>6, <1>7, <1>9 DEF QueueInv, RestingUnsent, DeliveredSoFar
  <1>14. SentOnce'
    BY <1>1, <1>3 DEF QueueInv, SentOnce
  <1> QED
    BY <1>10, <1>11, <1>12, <1>13, <1>14 DEF QueueInv

(* A key retried while it is dispatched is spoiled; otherwise it is unsent.*)
LEMMA RetryKeeps ==
    ASSUME QueueInv, NEW p \in Processes, Retry(p)
    PROVE  QueueInv'
  <1>1. PICK k \in Keys :
            /\ place[p] = "rest" /\ MayRetry(k)
            /\ place' = [place EXCEPT ![p] = "load"]
            /\ todo' = [todo EXCEPT ![p] = <<k>>]
            /\ retries' = retries + 1
            /\ spoiled' = IF \E q \in Processes : Dispatches(q, k) THEN spoiled \cup {k} ELSE spoiled
            /\ UNCHANGED <<row, delivered, cuts, lost>>
    BY DEF Retry
  <1>2. JobsOK
    BY JobsOfType DEF QueueInv
  <1>3. <<k>> \in Seq(Keys) /\ <<k>> # <<>> /\ Head(<<k>>) = k
    OBVIOUS
  <1>4. place'[p] = "load" /\ todo'[p] = <<k>> /\ OthersStay(p)
    BY <1>1, <1>2 DEF JobsOK, OthersStay
  <1>5. JobsOK'
    BY <1>1, <1>2, <1>3 DEF JobsOK, Dispatching
  <1>6. \A l \in Keys : ~Dispatches(p, l) /\ (Dispatches(p, l)' <=> l = k)
    BY <1>1, <1>3, <1>4 DEF Dispatches, Dispatching, Current
  <1>7. \A q \in Processes \ {p} : place'[q] = place[q]
                                   /\ \A l \in Keys : Dispatches(q, l)' <=> Dispatches(q, l)
    BY <1>4, OthersDispatchOn DEF OthersStay
  <1>8. row[k] \in {"QUEUED", "FAILED"}
    BY <1>1 DEF MayRetry
  <1>9. spoiled \subseteq spoiled' /\ spoiled' \subseteq Keys
        /\ (k \notin spoiled' => k \notin spoiled /\ \A q \in Processes : ~Dispatches(q, k))
    BY <1>1 DEF QueueInv, QueueTypeOK
  <1>10. k \notin spoiled' => delivered[k] = 0
    BY <1>8, <1>9 DEF QueueInv, RestingUnsent
  <1>11. QueueTypeOK'
    BY <1>1, <1>5, <1>9 DEF QueueInv, QueueTypeOK, JobsOK
  <1>12. RowsAgree'
    BY <1>1, <1>4, <1>6, <1>7, <1>8 DEF QueueInv, RowsAgree
  <1>13. OneDispatcher'
    <2> SUFFICES ASSUME NEW l \in Keys \ spoiled', NEW q \in Processes, Dispatches(q, l)'
                 PROVE  /\ row'[l] # "SENT" /\ delivered'[l] = DeliveredSoFar(q)'
                        /\ \A o \in Processes : Dispatches(o, l)' => o = q
      BY DEF OneDispatcher
    <2>1. CASE l = k
      BY <2>1, <1>1, <1>4, <1>6, <1>7, <1>8, <1>9, <1>10 DEF DeliveredSoFar
    <2>2. CASE l # k
      BY <2>2, <1>1, <1>6, <1>7, <1>9 DEF QueueInv, OneDispatcher, DeliveredSoFar
    <2> QED
      BY <2>1, <2>2
  <1>14. RestingUnsent' /\ SentOnce'
    BY <1>1, <1>6, <1>7, <1>9 DEF QueueInv, RestingUnsent, SentOnce
  <1> QED
    BY <1>11, <1>12, <1>13, <1>14 DEF QueueInv

(* Only a job cut off after the channel's answer leaves a key both unsent  *)
(* by its row and delivered, and that key is spoiled.                      *)
LEMMA CutKeeps ==
    ASSUME QueueInv, NEW p \in Processes, Cut(p)
    PROVE  QueueInv'
  <1> DEFINE k == Current(p)
  <1>1. /\ place[p] # "rest"
        /\ place' = [place EXCEPT ![p] = "rest"]
        /\ todo' = [todo EXCEPT ![p] = <<>>]
        /\ cuts' = cuts + 1
        /\ spoiled' = IF place[p] = "record" THEN spoiled \cup {k} ELSE spoiled
        /\ lost' = IF place[p] \in Dispatching THEN lost \cup {k} ELSE lost
        /\ UNCHANGED <<row, delivered, retries>>
    BY DEF Cut
  <1>2. JobsOK /\ k \in Keys
    BY <1>1, JobsOfType, CurrentIsKey DEF QueueInv
  <1>3. <<>> \in Seq(Keys)
    BY EmptySeq
  <1>4. JobsOK' /\ OthersStay(p) /\ place'[p] = "rest"
    BY <1>1, <1>2, <1>3 DEF JobsOK, OthersStay
  <1>5. \A l \in Keys : ~Dispatches(p, l)' /\ (Dispatches(p, l) => l = k)
    BY <1>4 DEF Dispatches, Dispatching
  <1>6. \A q \in Processes \ {p} : place'[q] = place[q]
                                   /\ \A l \in Keys : Dispatches(q, l)' <=> Dispatches(q, l)
    BY <1>4, OthersDispatchOn DEF OthersStay
  <1>7. spoiled \subseteq spoiled' /\ spoiled' \subseteq Keys
        /\ (k \notin spoiled' => k \notin spoiled /\ place[p] # "record")
    BY <1>1, <1>2 DEF QueueInv, QueueTypeOK
  <1>8. k \notin spoiled' /\ Dispatches(p, k) =>
            delivered[k] = 0 /\ \A q \in Processes : Dispatches(q, k) => q = p
    BY <1>2, <1>7 DEF QueueInv, OneDispatcher, DeliveredSoFar
  <1>9. QueueTypeOK'
    BY <1>1, <1>2, <1>4, <1>7 DEF QueueInv, QueueTypeOK, JobsOK
  <1>10. RowsAgree'
    BY <1>1, <1>5, <1>6 DEF QueueInv, RowsAgree
  <1>11. OneDispatcher'
    BY <1>1, <1>5, <1>6, <1>7 DEF QueueInv, OneDispatcher, DeliveredSoFar
  <1>12. RestingUnsent'
    BY <1>1, <1>5, <1>6, <1>7, <1>8 DEF QueueInv, RestingUnsent
  <1>13. SentOnce'
    BY <1>1, <1>7 DEF QueueInv, SentOnce
  <1> QED
    BY <1>9, <1>10, <1>11, <1>12, <1>13 DEF QueueInv

LEMMA BeginKeeps ==
    ASSUME QueueInv, NEW p \in Processes, NEW messages \in Seq(Keys) \ {<<>>}, Begin(p, messages)
    PROVE  QueueInv'
  <1>1. JobsOK /\ place[p] = "rest"
    BY JobsOfType DEF QueueInv, Begin
  <1>2. JobsOK' /\ OthersStay(p) /\ place'[p] = "lookup"
    BY <1>1 DEF Begin, JobsOK, OthersStay
  <1>3. \A k \in Keys : ~Dispatches(p, k) /\ ~Dispatches(p, k)'
    BY <1>1, <1>2 DEF Dispatches, Dispatching
  <1> QED
    BY <1>1, <1>2, <1>3, NoRowWritten DEF Begin

-----------------------------------------------------------------------------
LEMMA ClientCutKeeps == ASSUME QueueInv, ClientCut PROVE QueueInv'
  BY DEF ClientCut, QueueInv, QueueTypeOK, RowsAgree, OneDispatcher, RestingUnsent, SentOnce,
         DeliveredSoFar, Dispatches, Current

LEMMA QueueInvHolds == QueueSpec => []QueueInv
  <1>1. QueueInit => QueueInv
    <2> SUFFICES ASSUME QueueInit PROVE QueueInv
      OBVIOUS
    <2>1. QueueTypeOK
      BY EmptySeq DEF QueueInit, QueueTypeOK
    <2>2. \A p \in Processes, k \in Keys : ~Dispatches(p, k)
      BY DEF QueueInit, Dispatches, Dispatching
    <2> QED
      BY <2>1, <2>2 DEF QueueInit, QueueInv, RowsAgree, OneDispatcher, RestingUnsent, SentOnce
  <1>2. QueueInv /\ [QueueNext]_queue => QueueInv'
    <2> SUFFICES ASSUME QueueInv, [QueueNext]_queue PROVE QueueInv'
      OBVIOUS
    <2>1. ASSUME NEW p \in Processes, Deliver(p) PROVE QueueInv'
      BY <2>1, QuietSteps, LoadKeeps, InsertKeeps, SendKeeps, MarkKeeps DEF Deliver
    <2>2. CASE QueueNext
      BY <2>1, <2>2, RetryKeeps, CutKeeps, BeginKeeps, ClientCutKeeps DEF QueueNext
    <2>3. CASE UNCHANGED queue
      BY <2>3 DEF queue, QueueInv, QueueTypeOK, RowsAgree, OneDispatcher, RestingUnsent, SentOnce,
                  DeliveredSoFar, Dispatches, Current
    <2> QED
      BY <2>2, <2>3
  <1> QED
    BY <1>1, <1>2, PTL DEF QueueSpec

(* A row marked SENT has been sent, and nothing is sent without a row.     *)
THEOREM RowsTellTheTruth == QueueSpec => []SentIsSent
  <1>1. QueueInv => SentIsSent
    BY DEF QueueInv, RowsAgree, SentIsSent
  <1> QED
    BY <1>1, QueueInvHolds, PTL

(* A message is sent once, unless retried or cut off in the middle of it.  *)
THEOREM NothingIsSentTwice == QueueSpec => []SentOnce
  <1>1. QueueInv => SentOnce
    BY DEF QueueInv
  <1> QED
    BY <1>1, QueueInvHolds, PTL

-----------------------------------------------------------------------------
(* The processes of the pipeline *)

AtRun == {"verify", "find", "write", "commit", "mark"}
AtHook == {"build", "key", "confirm"}
AtLink == {"link", "notify"}
AtWave == {"next", "count"}
Labels == {"rest", "ended"} \cup AtRun \cup AtHook \cup AtLink \cup AtWave

(* What each process has in hand, by where it is. *)
JobOK(p) ==
    /\ at[p] \in AtRun => work[p] \in Seq(1 .. Len(inbox)) \ {<<>>}
    /\ at[p] \in AtHook => \E k \in Refs : work[p] = <<k>>
    /\ at[p] = "key" => Head(work[p]) \in receipts
    /\ at[p] \in AtLink => \E i \in Invoices : work[p] = <<i>>
    /\ at[p] \in AtWave => work[p] \in Seq(({NoInvoice} \cup Invoices) \X Waves) \ {<<>>}
    /\ at[p] = "count" => Head(work[p])[1] \in Invoices

PlacesOK ==
    /\ at \in [Processes -> Labels] /\ seen \in [Processes -> Nat]
    /\ work = [p \in Processes |-> work[p]]

PipelineInv == PipelineTypeOK /\ PlacesOK /\ \A p \in Processes : JobOK(p)

(* While results are applied in order: the totals are those of what has    *)
(* completed, and whoever is about to commit has added up what it leaves.  *)
CountedInv ==
    /\ disordered \in BOOLEAN
    /\ ~disordered =>
        /\ \A v, w \in Applying : v = w
        /\ \A w \in Runs : at[w] = "commit" =>
              seen[w] = SumOf(Completed \ {EventOf(w).ref}) + EventOf(w).amount
    /\ ResultsCountOnce

-----------------------------------------------------------------------------
(* Sequences and sums *)

(* What SmallestSubset says, as an atom: of sets of numbers, too. *)
HasSmallest(T) == \E U \in T : \A V \in T : V \subseteq U => V = U

LEMMA SubsetsHaveSmallest ==
    ASSUME NEW S, IsFiniteSet(S), NEW T, T \in SUBSET (SUBSET S), T # {}
    PROVE  HasSmallest(T)
  BY SmallestSubset DEF HasSmallest

LEMMA GreatestIndex ==
    ASSUME NEW n \in Nat, NEW U \in SUBSET (1 .. n), U # {}
    PROVE  \E m \in U : \A i \in U : i <= m
  <1> DEFINE T == {1 .. k : k \in {j \in 0 .. n : \A i \in U : i <= j}}
  <1>1. T \in SUBSET (SUBSET (1 .. n)) /\ IsFiniteSet(1 .. n)
    <2>1. IsFiniteSet(1 .. n)
      BY FS_Interval
    <2>2. \A k \in 0 .. n : 1 .. k \subseteq 1 .. n
      OBVIOUS
    <2> QED
      BY <2>1, <2>2
  <1>2. 1 .. n \in T
    <2>1. n \in 0 .. n /\ \A i \in U : i <= n
      OBVIOUS
    <2> QED
      BY <2>1
  <1>3. PICK V \in T : \A W \in T : W \subseteq V => W = V
    <2>1. T # {}
      BY <1>2
    <2> HIDE DEF T
    <2>2. HasSmallest(T)
      BY <1>1, <2>1, SubsetsHaveSmallest, Zenon
    <2> QED
      BY <2>2 DEF HasSmallest
  <1>4. PICK m \in 0 .. n : V = 1 .. m /\ \A i \in U : i <= m
    OBVIOUS
  <1>5. m \in U
    <2> SUFFICES ASSUME m \notin U PROVE FALSE
      OBVIOUS
    <2>1. \A i \in U : i <= m - 1
      BY <1>4
    <2>2. m - 1 \in 0 .. n
      <3>1. PICK i \in U : i <= m - 1
        BY <2>1
      <3> QED
        BY <1>4, <3>1
    <2>3. 1 .. m - 1 \in T
      BY <2>1, <2>2
    <2>4. 1 .. m - 1 \subseteq 1 .. m /\ m \in 1 .. m /\ m \notin 1 .. m - 1
      BY <2>2
    <2> QED
      BY <1>3, <1>4, <2>3, <2>4
  <1> QED
    BY <1>4, <1>5

(* Indices can be listed in increasing order. *)
LEMMA InOrderLists ==
    ASSUME NEW n \in Nat, NEW S \in SUBSET (1 .. n)
    PROVE  /\ InOrder(S) \in [1 .. Cardinality(S) -> S]
           /\ InOrder(S) \in Seq(S)
           /\ S # {} => InOrder(S) # <<>>
  <1> DEFINE Increasing(s, k) == \A i, j \in 1 .. k : i < j => s[i] < s[j]
             Listed(R) == \E s \in [1 .. Cardinality(R) -> R] : Increasing(s, Cardinality(R))
             T == {R \in SUBSET S : ~Listed(R)}
  <1> HIDE DEF Listed
  <1>1. IsFiniteSet(S)
    <2>1. IsFiniteSet(1 .. n)
      BY FS_Interval
    <2> QED
      BY <2>1, FS_Subset
  <1>2. T = {}
    <2> SUFFICES ASSUME T # {} PROVE FALSE
      OBVIOUS
    <2>1. PICK U \in T : \A V \in T : V \subseteq U => V = U
      <3>1. T \in SUBSET (SUBSET S)
        OBVIOUS
      <3> HIDE DEF T
      <3>2. HasSmallest(T)
        BY <1>1, <3>1, SubsetsHaveSmallest, Zenon
      <3> QED
        BY <3>2 DEF HasSmallest
    <2>2. U \in SUBSET (1 .. n) /\ U \in SUBSET S /\ IsFiniteSet(U) /\ ~Listed(U)
      BY <1>1, FS_Subset
    <2>3. U # {}
      <3> SUFFICES ASSUME U = {} PROVE FALSE
        OBVIOUS
      <3>1. Cardinality(U) = 0
        BY FS_EmptySet
      <3>2. 1 .. 0 = {}
        OBVIOUS
      <3>3. \E s : s \in [1 .. 0 -> U] /\ Increasing(s, 0)
        <4>1. [i \in 1 .. 0 |-> 0] \in [1 .. 0 -> U] /\ Increasing([i \in 1 .. 0 |-> 0], 0)
          BY <3>2
        <4> QED
          BY <4>1
      <3> QED
        BY <2>2, <3>1, <3>3 DEF Listed
    <2>4. PICK m \in U : \A i \in U : i <= m
      BY <2>2, <2>3, GreatestIndex
    <2>5. Listed(U \ {m})
      BY <2>1, <2>2, <2>4
    <2>6. PICK c \in Nat : c = Cardinality(U \ {m}) /\ Cardinality(U) = c + 1
      <3>1. Cardinality(U) \in Nat /\ IsFiniteSet(U \ {m})
            /\ Cardinality(U \ {m}) = Cardinality(U) - 1
        BY <2>2, FS_RemoveElement, FS_CardinalityType
      <3>2. Cardinality(U \ {m}) \in Nat
        BY <3>1, FS_CardinalityType
      <3> QED
        BY <3>1, <3>2
    <2>7. PICK s \in [1 .. c -> U \ {m}] : Increasing(s, c)
      BY <2>5, <2>6 DEF Listed
    <2> DEFINE t == [i \in 1 .. c + 1 |-> IF i = c + 1 THEN m ELSE s[i]]
    <2>8. t \in [1 .. c + 1 -> U]
      OBVIOUS
    <2>9. Increasing(t, c + 1)
      <3> SUFFICES ASSUME NEW i \in 1 .. c + 1, NEW j \in 1 .. c + 1, i < j PROVE t[i] < t[j]
        OBVIOUS
      <3>1. i \in 1 .. c /\ t[i] = s[i] /\ s[i] \in U \ {m}
        OBVIOUS
      <3>2. CASE j = c + 1
        <4>1. s[i] \in 1 .. n /\ m \in 1 .. n /\ s[i] # m /\ s[i] <= m
          BY <2>2, <2>4, <3>1
        <4> QED
          BY <3>1, <3>2, <4>1
      <3>3. CASE j # c + 1
        BY <2>7, <3>1, <3>3
      <3> QED
        BY <3>2, <3>3
    <2> HIDE DEF t, Increasing
    <2> QED
      BY <2>2, <2>6, <2>8, <2>9 DEF Listed
  <1>3. Listed(S)
    BY <1>2
  <1>4. InOrder(S) \in [1 .. Cardinality(S) -> S]
    BY <1>3, Zenon DEF Listed, InOrder
  <1>5. Cardinality(S) \in Nat /\ (S # {} => Cardinality(S) # 0)
    BY <1>1, FS_CardinalityType, FS_EmptySet
  <1>6. InOrder(S) \in Seq(S)
    BY <1>4, <1>5, IsASeq
  <1>7. S # {} => InOrder(S) # <<>>
    <2>1. DOMAIN InOrder(S) = 1 .. Cardinality(S)
      BY <1>4
    <2>2. DOMAIN <<>> = {}
      OBVIOUS
    <2> QED
      BY <1>5, <2>1, <2>2
  <1> QED
    BY <1>4, <1>6, <1>7

LEMMA SetToSeqLists ==
    ASSUME NEW S, IsFiniteSet(S)
    PROVE  SetToSeq(S) \in Seq(S) /\ (S # {} => SetToSeq(S) # <<>>)
  <1>1. Cardinality(S) \in Nat /\ ExistsBijection(1 .. Cardinality(S), S)
        /\ (S # {} => Cardinality(S) # 0)
    BY FS_CardinalityType, FS_EmptySet
  <1>2. \E f \in [1 .. Cardinality(S) -> S] : IsInjective(f)
    BY <1>1 DEF ExistsBijection, Bijection, Injection
  <1>3. SetToSeq(S) \in [1 .. Cardinality(S) -> S]
    BY <1>2, Zenon DEF SetToSeq
  <1>4. SetToSeq(S) \in Seq(S)
    BY <1>1, <1>3, IsASeq
  <1>5. S # {} => SetToSeq(S) # <<>>
    <2>1. DOMAIN SetToSeq(S) = 1 .. Cardinality(S) /\ DOMAIN <<>> = {}
      BY <1>3
    <2> QED
      BY <1>1, <2>1
  <1> QED
    BY <1>4, <1>5

(* A sum of second components, as Fees_proofs has sums. *)
LEMMA ValueIsTotal ==
    ASSUME NEW rows, NEW S, NEW w, \A x \in S : w[x] = rows[x][2]
    PROVE  Value(rows, S) = Total(w, S)
  <1> DEFINE Sums(h) ==
          h = [s \in SUBSET S |-> IF s = {} THEN 0 ELSE rows[Pick(s)][2] + h[s \ {Pick(s)}]]
  <1>1. Value(rows, S) = (CHOOSE h : Sums(h))[S]
    BY DEF Value, MapThenSumSet, MapThenFoldSet, Pick
  <1>2. ASSUME NEW h
        PROVE  Sums(h) <=> Adds(w, S, h)
    <2>1. \A s \in SUBSET S : s # {} => w[Pick(s)] = rows[Pick(s)][2]
      BY Picked
    <2>2. [s \in SUBSET S |-> IF s = {} THEN 0 ELSE rows[Pick(s)][2] + h[s \ {Pick(s)}]]
          = [s \in SUBSET S |-> IF s = {} THEN 0 ELSE w[Pick(s)] + h[s \ {Pick(s)}]]
      BY <2>1
    <2> QED
      BY <2>2 DEF Adds
  <1> HIDE DEF Sums
  <1>3. (CHOOSE h : Sums(h)) = (CHOOSE h : Adds(w, S, h))
    BY <1>2
  <1> QED
    BY <1>1, <1>3 DEF Total

Rows == [Refs -> {Absent} \cup {"COMPLETED", "FAILED"} \X Nat]
Amounts(rows) == [k \in Refs |-> rows[k][2]]

LEMMA AmountsAreNumbers ==
    ASSUME NEW rows \in Rows
    PROVE  \A k \in Refs : Amounts(rows)[k] \in Nat
  BY DEF Rows, Amounts, Absent

LEMMA SumsOfRows ==
    ASSUME NEW rows \in Rows, NEW R \in SUBSET Refs
    PROVE  Value(rows, R) = Total(Amounts(rows), R) /\ Value(rows, R) \in Nat
  <1>1. \A k \in R : Amounts(rows)[k] = rows[k][2]
    BY DEF Amounts
  <1>2. Value(rows, R) = Total(Amounts(rows), R)
    BY <1>1, ValueIsTotal
  <1>3. IsFiniteSet(R)
    BY PipelineAssumption, FS_Subset
  <1>4. \A k \in R : Amounts(rows)[k] \in Nat
    BY AmountsAreNumbers
  <1>5. Total(Amounts(rows), R) \in Nat
    BY <1>3, <1>4, TotalGrows
  <1> QED
    BY <1>2, <1>5

(* One row is written: what the sums come to afterwards. *)
LEMMA SumsAfterWrite ==
    ASSUME NEW rows \in Rows, NEW after \in Rows, NEW r \in Refs,
           \A k \in Refs \ {r} : after[k] = rows[k],
           NEW R \in SUBSET Refs
    PROVE  /\ r \notin R => Value(after, R) = Value(rows, R)
           /\ r \in R => Value(after, R) = Value(rows, R \ {r}) + after[r][2]
  <1>1. \A k \in R \ {r} : Amounts(after)[k] = Amounts(rows)[k]
    BY DEF Amounts
  <1>2. Total(Amounts(after), R \ {r}) = Total(Amounts(rows), R \ {r})
    BY <1>1, SameTotal
  <1>3. r \notin R => R \ {r} = R
    OBVIOUS
  <1>4. ASSUME r \in R
        PROVE  Value(after, R) = Value(rows, R \ {r}) + after[r][2]
    <2>1. IsFiniteSet(R) /\ \A k \in R : Amounts(after)[k] \in Int
      BY PipelineAssumption, FS_Subset, AmountsAreNumbers
    <2>2. Total(Amounts(after), R) = Amounts(after)[r] + Total(Amounts(after), R \ {r})
      BY <1>4, <2>1, TotalSplit
    <2>3. Amounts(after)[r] = after[r][2] /\ Amounts(after)[r] \in Nat
      BY AmountsAreNumbers DEF Amounts
    <2>4. Value(rows, R \ {r}) \in Nat /\ Value(rows, R \ {r}) = Total(Amounts(rows), R \ {r})
          /\ Value(after, R) = Total(Amounts(after), R)
      BY SumsOfRows
    <2> QED
      BY <1>2, <2>2, <2>3, <2>4
  <1>5. Value(rows, R) = Total(Amounts(rows), R) /\ Value(after, R) = Total(Amounts(after), R)
    BY SumsOfRows
  <1> QED
    BY <1>2, <1>3, <1>4, <1>5

-----------------------------------------------------------------------------
(* How a step moves the process that makes it *)

OthersPause(p) ==
    \A q \in Processes \ {p} : at'[q] = at[q] /\ work'[q] = work[q] /\ seen'[q] = seen[q]

(* Events are only added, and files. *)
Grows ==
    /\ Len(inbox') \in Nat /\ Len(inbox') >= Len(inbox)
    /\ \A i \in 1 .. Len(inbox) : inbox'[i].event = inbox[i].event
    /\ receipts \subseteq receipts'

(* A step of p that is none of the result's. *)
Quiet(p) ==
    /\ PipelineInv' /\ OthersPause(p) /\ Grows
    /\ UNCHANGED <<payments, paid, invoicePaid>>
    /\ at'[p] # "commit"

LEMMA MoveTo ==
    ASSUME PlacesOK, NEW p \in Processes, NEW label \in Labels, Goto(p, label),
           NEW x, work' = [work EXCEPT ![p] = x], NEW n \in Nat, seen' = [seen EXCEPT ![p] = n]
    PROVE  /\ PlacesOK' /\ OthersPause(p)
           /\ at'[p] = label /\ work'[p] = x /\ seen'[p] = n
  BY DEF PlacesOK, OthersPause, Goto

LEMMA AsBefore ==
    ASSUME PlacesOK, NEW p \in Processes
    PROVE  /\ work = [work EXCEPT ![p] = work[p]]
           /\ seen = [seen EXCEPT ![p] = seen[p]] /\ seen[p] \in Nat
  BY DEF PlacesOK

(* A step that only goes to the next label. *)
LEMMA MoveOn ==
    ASSUME PlacesOK, NEW p \in Processes, NEW label \in Labels, Goto(p, label),
           UNCHANGED <<work, seen>>
    PROVE  /\ PlacesOK' /\ OthersPause(p)
           /\ at'[p] = label /\ work'[p] = work[p] /\ seen'[p] = seen[p]
  <1>1. work' = [work EXCEPT ![p] = work[p]] /\ seen' = [seen EXCEPT ![p] = seen[p]] /\ seen[p] \in Nat
    BY AsBefore
  <1> QED
    BY <1>1, MoveTo

(* A step that also takes up other work. *)
LEMMA MoveWith ==
    ASSUME PlacesOK, NEW p \in Processes, NEW label \in Labels, Goto(p, label),
           NEW x, work' = [work EXCEPT ![p] = x], UNCHANGED seen
    PROVE  /\ PlacesOK' /\ OthersPause(p)
           /\ at'[p] = label /\ work'[p] = x /\ seen'[p] = seen[p]
  <1>1. seen' = [seen EXCEPT ![p] = seen[p]] /\ seen[p] \in Nat
    BY AsBefore
  <1> QED
    BY <1>1, MoveTo

LEMMA OthersGoOn ==
    ASSUME PipelineInv, NEW p \in Processes, OthersPause(p), Grows, JobOK(p)'
    PROVE  \A q \in Processes : JobOK(q)'
  <1> SUFFICES ASSUME NEW q \in Processes, q # p PROVE JobOK(q)'
    OBVIOUS
  <1>1. at'[q] = at[q] /\ work'[q] = work[q] /\ JobOK(q)
    BY DEF OthersPause, PipelineInv
  <1>2. Len(inbox) \in Nat
    BY LenProperties DEF PipelineInv, PipelineTypeOK
  <1>3. 1 .. Len(inbox) \subseteq 1 .. Len(inbox')
    BY <1>2 DEF Grows
  <1>4. Seq(1 .. Len(inbox)) \subseteq Seq(1 .. Len(inbox'))
    BY <1>3, SeqMonotonic
  <1> QED
    BY <1>1, <1>4 DEF JobOK, Grows

LEMMA SameInbox == ASSUME PipelineTypeOK, UNCHANGED <<inbox, receipts>> PROVE Grows
  BY LenProperties DEF PipelineTypeOK, Grows

-----------------------------------------------------------------------------
(* The run of the webhook cron *)

LEMMA StartRunKeeps ==
    ASSUME PipelineInv, NEW w \in Processes, StartRun(w)
    PROVE  Quiet(w)
  <1>1. Goto(w, "verify") /\ work' = [work EXCEPT ![w] = Pending] /\ Pending # <<>>
        /\ UNCHANGED <<tables, hooksDue, today, seen>>
    BY DEF StartRun
  <1>2. PlacesOK' /\ OthersPause(w) /\ at'[w] = "verify" /\ work'[w] = Pending
    BY <1>1, MoveWith DEF PipelineInv, Labels, AtRun
  <1>3. Grows /\ PipelineTypeOK' /\ UNCHANGED <<payments, paid, invoicePaid>>
    BY <1>1, SameInbox DEF PipelineInv, PipelineTypeOK, tables
  <1>4. Pending \in Seq(1 .. Len(inbox))
    <2> DEFINE batch == {i \in {i \in DOMAIN inbox : ~inbox[i].processed} :
                Cardinality({j \in {i_1 \in DOMAIN inbox : ~inbox[i_1].processed} : j < i}) < Batch}
    <2>1. Len(inbox) \in Nat /\ DOMAIN inbox = 1 .. Len(inbox)
      BY LenProperties DEF PipelineInv, PipelineTypeOK
    <2>2. batch \in SUBSET (1 .. Len(inbox)) /\ Pending = InOrder(batch)
      BY <2>1 DEF Pending
    <2> HIDE DEF batch
    <2>3. InOrder(batch) \in Seq(batch)
      BY <2>1, <2>2, InOrderLists
    <2>4. Seq(batch) \subseteq Seq(1 .. Len(inbox))
      BY <2>2, SeqMonotonic
    <2> QED
      BY <2>2, <2>3, <2>4
  <1>5. JobOK(w)'
    BY <1>1, <1>2, <1>4 DEF JobOK, AtRun, AtHook, AtLink, AtWave, tables
  <1> QED
    BY <1>2, <1>3, <1>5, OthersGoOn DEF Quiet, PipelineInv

LEMMA VerifyKeeps ==
    ASSUME PipelineInv, NEW w \in Processes, Verify(w)
    PROVE  Quiet(w)
  <1>1. PICK label \in {"find", "mark"} : Goto(w, label)
    BY DEF Verify
  <1>2. at[w] = "verify" /\ UNCHANGED <<tables, hooksDue, today, work, seen>>
    BY DEF Verify, IsAt
  <1>3. PlacesOK' /\ OthersPause(w) /\ at'[w] = label /\ work'[w] = work[w]
    BY <1>1, <1>2, MoveOn DEF PipelineInv, Labels, AtRun
  <1>4. Grows /\ PipelineTypeOK' /\ UNCHANGED <<payments, paid, invoicePaid>>
    BY <1>2, SameInbox DEF PipelineInv, PipelineTypeOK, tables
  <1>5. JobOK(w)'
    BY <1>2, <1>3 DEF PipelineInv, JobOK, AtRun, AtHook, AtLink, AtWave, tables
  <1> QED
    BY <1>3, <1>4, <1>5, OthersGoOn DEF Quiet, PipelineInv

LEMMA FindKeeps ==
    ASSUME PipelineInv, NEW w \in Processes, FindPayment(w)
    PROVE  Quiet(w)
  <1>1. PICK n \in {0, 1} : seen' = [seen EXCEPT ![w] = n]
    BY DEF FindPayment
  <1>2. at[w] = "find" /\ Goto(w, "write") /\ UNCHANGED <<tables, hooksDue, today, work>>
    BY DEF FindPayment, IsAt
  <1>3. PlacesOK' /\ OthersPause(w) /\ at'[w] = "write" /\ work'[w] = work[w]
    <2>1. PlacesOK /\ "write" \in Labels /\ n \in Nat
      BY DEF PipelineInv, Labels, AtRun
    <2>2. work' = [work EXCEPT ![w] = work[w]]
      BY <1>2, <2>1, AsBefore
    <2> QED
      BY <1>1, <1>2, <2>1, <2>2, MoveTo
  <1>4. Grows /\ PipelineTypeOK' /\ UNCHANGED <<payments, paid, invoicePaid>>
    BY <1>2, SameInbox DEF PipelineInv, PipelineTypeOK, tables
  <1>5. JobOK(w)'
    BY <1>2, <1>3 DEF PipelineInv, JobOK, AtRun, AtHook, AtLink, AtWave, tables
  <1> QED
    BY <1>3, <1>4, <1>5, OthersGoOn DEF Quiet, PipelineInv

LEMMA LostKeeps ==
    ASSUME PipelineInv, NEW w \in Processes, ResultIsLost(w)
    PROVE  Quiet(w)
  <1>1. at[w] \in AtRun /\ Goto(w, "mark") /\ UNCHANGED <<tables, hooksDue, today, work, seen>>
    BY DEF ResultIsLost, AtRun
  <1>2. PlacesOK' /\ OthersPause(w) /\ at'[w] = "mark" /\ work'[w] = work[w]
    BY <1>1, MoveOn DEF PipelineInv, Labels, AtRun
  <1>3. Grows /\ PipelineTypeOK' /\ UNCHANGED <<payments, paid, invoicePaid>>
    BY <1>1, SameInbox DEF PipelineInv, PipelineTypeOK, tables
  <1>4. JobOK(w)'
    BY <1>1, <1>2 DEF PipelineInv, JobOK, AtRun, AtHook, AtLink, AtWave, tables
  <1> QED
    BY <1>2, <1>3, <1>4, OthersGoOn DEF Quiet, PipelineInv

LEMMA MarkKeepsWork ==
    ASSUME PipelineInv, NEW w \in Processes, MarkProcessed(w)
    PROVE  Quiet(w)
  <1> DEFINE first == Head(work[w])
  <1>1. /\ at[w] = "mark"
        /\ inbox' = [inbox EXCEPT ![first] = [@ EXCEPT !.processed = TRUE]]
        /\ work' = [work EXCEPT ![w] = Tail(work[w])]
        /\ seen' = [seen EXCEPT ![w] = 0]
        /\ Goto(w, IF Len(work[w]) = 1 THEN "rest" ELSE "verify")
        /\ UNCHANGED <<payments, paid, invoicePaid, links, reminded, receipts, receiptKeys, hooksDue,
                       today>>
    BY DEF MarkProcessed, IsAt, PipelineInv, PlacesOK
  <1>2. work[w] \in Seq(1 .. Len(inbox)) \ {<<>>} /\ inbox \in Seq([event : Events, processed : BOOLEAN])
    BY <1>1 DEF PipelineInv, JobOK, AtRun, PipelineTypeOK
  <1>3. first \in 1 .. Len(inbox) /\ Tail(work[w]) \in Seq(1 .. Len(inbox))
        /\ Len(Tail(work[w])) = Len(work[w]) - 1 /\ Len(work[w]) \in Nat \ {0}
    BY <1>2, HeadTailProperties, EmptySeq, LenProperties
  <1>4. Len(work[w]) # 1 => Tail(work[w]) # <<>>
    <2>1. Tail(work[w]) = <<>> => Len(Tail(work[w])) = 0
      BY EmptySeq
    <2> QED
      BY <1>3, <2>1
  <1>5. inbox' \in Seq([event : Events, processed : BOOLEAN]) /\ Len(inbox') = Len(inbox)
        /\ \A i \in 1 .. Len(inbox) : inbox'[i].event = inbox[i].event
    <2> DEFINE e == [inbox[first] EXCEPT !.processed = TRUE]
    <2>1. inbox[first] \in [event : Events, processed : BOOLEAN]
      BY <1>2, <1>3, ElementOfSeq
    <2>2. e \in [event : Events, processed : BOOLEAN] /\ e.event = inbox[first].event
      BY <2>1
    <2>3. inbox' = [inbox EXCEPT ![first] = e]
      BY <1>1
    <2> HIDE DEF e
    <2>4. inbox' \in Seq([event : Events, processed : BOOLEAN]) /\ Len(inbox') = Len(inbox)
      BY <1>2, <1>3, <2>2, <2>3, ExceptSeq
    <2>5. \A i \in 1 .. Len(inbox) : inbox'[i] = IF i = first THEN e ELSE inbox[i]
      BY <1>2, <2>3, LenProperties
    <2> QED
      BY <2>2, <2>4, <2>5
  <1>6. PICK label \in {"rest", "verify"} : /\ Goto(w, label)
                                            /\ label = "verify" => Tail(work[w]) # <<>>
    BY <1>1, <1>4
  <1>7. PlacesOK' /\ OthersPause(w) /\ at'[w] = label /\ work'[w] = Tail(work[w])
    <2>1. PlacesOK /\ label \in Labels /\ 0 \in Nat
      BY DEF PipelineInv, Labels, AtRun
    <2>2. work' = [work EXCEPT ![w] = Tail(work[w])] /\ seen' = [seen EXCEPT ![w] = 0]
      BY <1>1
    <2> QED
      BY <1>6, <2>1, <2>2, MoveTo
  <1>8. Grows
    BY <1>1, <1>2, <1>5, LenProperties DEF Grows
  <1>9. PipelineTypeOK'
    BY <1>1, <1>5 DEF PipelineInv, PipelineTypeOK
  <1>10. JobOK(w)'
    BY <1>3, <1>5, <1>6, <1>7 DEF JobOK, AtRun, AtHook, AtLink, AtWave
  <1> QED
    BY <1>1, <1>6, <1>7, <1>8, <1>9, <1>10, OthersGoOn DEF Quiet, PipelineInv

LEMMA EventInHand ==
    ASSUME PipelineInv, NEW w \in Processes, at[w] \in AtRun
    PROVE  /\ Head(work[w]) \in 1 .. Len(inbox)
           /\ EventOf(w).ref \in Refs /\ EventOf(w).amount \in Nat
           /\ EventOf(w).status \in {"COMPLETED", "FAILED"}
  <1>1. work[w] \in Seq(1 .. Len(inbox)) \ {<<>>} /\ inbox \in Seq([event : Events, processed : BOOLEAN])
    BY DEF PipelineInv, JobOK, PipelineTypeOK
  <1>2. Head(work[w]) \in 1 .. Len(inbox)
    BY <1>1, HeadTailProperties
  <1>3. inbox[Head(work[w])] \in [event : Events, processed : BOOLEAN]
    BY <1>1, <1>2, ElementOfSeq
  <1>4. EventOf(w) \in Event
    BY <1>3, PipelineAssumption DEF EventOf
  <1> QED
    BY <1>2, <1>4 DEF Event

LEMMA WriteKeeps ==
    ASSUME PipelineInv, NEW w \in Processes, WritePayment(w)
    PROVE  /\ PipelineInv' /\ OthersPause(w) /\ Grows
           /\ UNCHANGED <<payments, paid, invoicePaid, inbox, work>>
           /\ at'[w] = "commit" =>
                seen'[w] = SumOf(Completed \ {EventOf(w).ref}) + EventOf(w).amount
  <1> DEFINE e == EventOf(w)
             sum == SumOf(Completed \ {e.ref}) + e.amount
  <1>1. at[w] = "write" /\ UNCHANGED <<tables, hooksDue, today, work>>
    BY DEF WritePayment, IsAt
  <1>2. sum \in Nat
    <2>1. payments \in Rows /\ Completed \ {e.ref} \in SUBSET Refs
      BY DEF PipelineInv, PipelineTypeOK, Rows, Completed
    <2>2. SumOf(Completed \ {e.ref}) \in Nat
      BY <2>1, SumsOfRows DEF SumOf
    <2>3. e.amount \in Nat
      BY <1>1, EventInHand DEF AtRun
    <2> QED
      BY <2>2, <2>3
  <1>3. PICK label \in {"mark", "commit"}, n \in Nat :
            /\ Goto(w, label) /\ seen' = [seen EXCEPT ![w] = n]
            /\ label = "commit" => n = sum
    <2>1. CASE Goto(w, "mark") /\ UNCHANGED seen
      <3>1. seen' = [seen EXCEPT ![w] = seen[w]] /\ seen[w] \in Nat
        BY <2>1, AsBefore DEF PipelineInv
      <3> QED
        BY <2>1, <3>1
    <2>2. CASE Goto(w, "commit") /\ seen' = [seen EXCEPT ![w] = sum]
      BY <1>2, <2>2
    <2> QED
      BY <2>1, <2>2 DEF WritePayment
  <1>4. PlacesOK' /\ OthersPause(w) /\ at'[w] = label /\ work'[w] = work[w] /\ seen'[w] = n
    <2>1. PlacesOK /\ label \in Labels
      BY DEF PipelineInv, Labels, AtRun
    <2>2. work' = [work EXCEPT ![w] = work[w]]
      BY <1>1, <2>1, AsBefore
    <2> QED
      BY <1>3, <2>1, <2>2, MoveTo
  <1>5. Grows /\ PipelineTypeOK' /\ UNCHANGED <<payments, paid, invoicePaid, inbox, work>>
    BY <1>1, SameInbox DEF PipelineInv, PipelineTypeOK, tables
  <1>6. JobOK(w)'
    BY <1>1, <1>4 DEF PipelineInv, JobOK, AtRun, AtHook, AtLink, AtWave, tables
  <1> QED
    BY <1>3, <1>4, <1>5, <1>6, OthersGoOn DEF PipelineInv

LEMMA CommitKeeps ==
    ASSUME PipelineInv, NEW w \in Processes, CommitResult(w)
    PROVE  PipelineInv' /\ OthersPause(w) /\ Grows /\ at'[w] = "mark" /\ UNCHANGED inbox
  <1> DEFINE e == EventOf(w)
             done == e.status = "COMPLETED"
  <1>1. /\ at[w] = "commit"
        /\ payments' = [payments EXCEPT ![e.ref] = <<e.status, e.amount>>]
        /\ paid' = IF done THEN seen[w] ELSE paid
        /\ invoicePaid' \in {invoicePaid, invoicePaid \cup {InvoiceOf(e.ref)}}
        /\ hooksDue' = IF done THEN [hooksDue EXCEPT ![e.ref] = hooksDue[e.ref] + 1] ELSE hooksDue
        /\ Goto(w, "mark")
        /\ UNCHANGED <<inbox, links, reminded, receipts, receiptKeys, today, work, seen>>
    BY DEF CommitResult, IsAt, NewTotal, PipelineInv, PipelineTypeOK
  <1>2. e.ref \in Refs /\ e.amount \in Nat /\ e.status \in {"COMPLETED", "FAILED"}
    BY <1>1, EventInHand DEF AtRun
  <1>3. InvoiceOf(e.ref) \in Invoices
    BY <1>2, PipelineAssumption
  <1>4. PlacesOK' /\ OthersPause(w) /\ at'[w] = "mark" /\ work'[w] = work[w]
    BY <1>1, MoveOn DEF PipelineInv, Labels, AtRun
  <1>5. Grows
    BY <1>1, SameInbox DEF PipelineInv
  <1>6. seen[w] \in Nat
    BY AsBefore DEF PipelineInv
  <1> HIDE DEF e
  <1>7. PipelineTypeOK'
    BY <1>1, <1>2, <1>3, <1>6 DEF PipelineInv, PipelineTypeOK
  <1>8. JobOK(w)'
    BY <1>1, <1>4 DEF PipelineInv, JobOK, AtRun, AtHook, AtLink, AtWave
  <1> QED
    BY <1>1, <1>4, <1>5, <1>7, <1>8, OthersGoOn DEF PipelineInv

-----------------------------------------------------------------------------
(* The hook, the links and the reminders *)

LEMMA HookKeeps ==
    ASSUME PipelineInv, NEW h \in Processes, RunHook(h)
    PROVE  Quiet(h)
  <1>1. CASE StartHook(h)
    <2>1. PICK k \in Refs :
              /\ hooksDue[k] > 0 /\ hooksDue' = [hooksDue EXCEPT ![k] = hooksDue[k] - 1]
              /\ work' = [work EXCEPT ![h] = <<k>>] /\ Goto(h, "build")
              /\ UNCHANGED <<tables, today, seen>>
      BY <1>1 DEF StartHook, PipelineInv, PipelineTypeOK
    <2>2. PlacesOK' /\ OthersPause(h) /\ at'[h] = "build" /\ work'[h] = <<k>>
      BY <2>1, MoveWith DEF PipelineInv, Labels, AtHook
    <2>3. Grows /\ PipelineTypeOK' /\ UNCHANGED <<payments, paid, invoicePaid>>
      BY <2>1, SameInbox DEF PipelineInv, PipelineTypeOK, tables
    <2>4. JobOK(h)'
      BY <2>2 DEF JobOK, AtRun, AtHook, AtLink, AtWave
    <2> QED
      BY <2>2, <2>3, <2>4, OthersGoOn DEF Quiet, PipelineInv
  <1>2. CASE BuildReceipt(h)
    <2>1. /\ at[h] = "build" /\ receipts' = receipts \cup {Head(work[h])} /\ Goto(h, "key")
          /\ UNCHANGED <<inbox, payments, paid, invoicePaid, links, reminded, receiptKeys, hooksDue,
                         today, work, seen>>
      BY <1>2 DEF BuildReceipt, IsAt
    <2>2. PICK k \in Refs : work[h] = <<k>>
      BY <2>1 DEF PipelineInv, JobOK, AtHook
    <2>3. PlacesOK' /\ OthersPause(h) /\ at'[h] = "key" /\ work'[h] = <<k>>
      BY <2>1, <2>2, MoveOn DEF PipelineInv, Labels, AtHook
    <2>4. receipts' = receipts \cup {k}
      BY <2>1, <2>2
    <2>5. Grows /\ PipelineTypeOK'
      BY <2>1, <2>4, LenProperties DEF PipelineInv, PipelineTypeOK, Grows
    <2>6. JobOK(h)'
      BY <2>3, <2>4 DEF JobOK, AtRun, AtHook, AtLink, AtWave
    <2> QED
      BY <2>1, <2>3, <2>5, <2>6, OthersGoOn DEF Quiet, PipelineInv
  <1>3. CASE SaveReceiptKey(h)
    <2>1. /\ at[h] = "key" /\ receiptKeys' = receiptKeys \cup {Head(work[h])} /\ Goto(h, "confirm")
          /\ UNCHANGED <<inbox, payments, paid, invoicePaid, links, reminded, receipts, hooksDue,
                         today, work, seen>>
      BY <1>3 DEF SaveReceiptKey, IsAt
    <2>2. PICK k \in Refs : work[h] = <<k>>
      BY <2>1 DEF PipelineInv, JobOK, AtHook
    <2>3. Head(work[h]) \in receipts
      BY <2>1 DEF PipelineInv, JobOK
    <2>4. PlacesOK' /\ OthersPause(h) /\ at'[h] = "confirm" /\ work'[h] = <<k>>
      BY <2>1, <2>2, MoveOn DEF PipelineInv, Labels, AtHook
    <2>5. Grows /\ PipelineTypeOK'
      BY <2>1, <2>3, SameInbox DEF PipelineInv, PipelineTypeOK
    <2>6. JobOK(h)'
      BY <2>4 DEF JobOK, AtRun, AtHook, AtLink, AtWave
    <2> QED
      BY <2>1, <2>4, <2>5, <2>6, OthersGoOn DEF Quiet, PipelineInv
  <1>4. CASE Confirm(h)
    <2>1. /\ work' = [work EXCEPT ![h] = <<>>] /\ Goto(h, "rest")
          /\ UNCHANGED <<tables, hooksDue, today, seen>>
      BY <1>4 DEF Confirm
    <2>2. PlacesOK' /\ OthersPause(h) /\ at'[h] = "rest"
      BY <2>1, MoveWith DEF PipelineInv, Labels
    <2>3. Grows /\ PipelineTypeOK' /\ UNCHANGED <<payments, paid, invoicePaid>>
      BY <2>1, SameInbox DEF PipelineInv, PipelineTypeOK, tables
    <2>4. JobOK(h)'
      BY <2>2 DEF JobOK, AtRun, AtHook, AtLink, AtWave
    <2> QED
      BY <2>2, <2>3, <2>4, OthersGoOn DEF Quiet, PipelineInv
  <1> QED
    BY <1>1, <1>2, <1>3, <1>4 DEF RunHook

LEMMA IssueKeeps ==
    ASSUME PipelineInv, NEW s \in Processes, Issue(s)
    PROVE  Quiet(s)
  <1>1. CASE IssueLink(s)
    <2>1. PICK i \in Invoices, label \in {"ended", "link"} :
              /\ work' = [work EXCEPT ![s] = <<i>>] /\ Goto(s, label)
              /\ UNCHANGED <<tables, hooksDue, today, seen>>
      BY <1>1 DEF IssueLink
    <2>2. PlacesOK' /\ OthersPause(s) /\ at'[s] = label /\ work'[s] = <<i>>
      BY <2>1, MoveWith DEF PipelineInv, Labels, AtLink
    <2>3. Grows /\ PipelineTypeOK' /\ UNCHANGED <<payments, paid, invoicePaid>>
      BY <2>1, SameInbox DEF PipelineInv, PipelineTypeOK, tables
    <2>4. JobOK(s)'
      BY <2>2 DEF JobOK, AtRun, AtHook, AtLink, AtWave
    <2> QED
      BY <2>2, <2>3, <2>4, OthersGoOn DEF Quiet, PipelineInv
  <1>2. CASE SaveLink(s)
    <2>1. /\ at[s] = "link" /\ links' = links \cup {Head(work[s])} /\ Goto(s, "notify")
          /\ UNCHANGED <<inbox, payments, paid, invoicePaid, reminded, receipts, receiptKeys, hooksDue,
                         today, work, seen>>
      BY <1>2 DEF SaveLink, IsAt
    <2>2. PICK i \in Invoices : work[s] = <<i>>
      BY <2>1 DEF PipelineInv, JobOK, AtLink
    <2>3. PlacesOK' /\ OthersPause(s) /\ at'[s] = "notify" /\ work'[s] = <<i>>
      BY <2>1, <2>2, MoveOn DEF PipelineInv, Labels, AtLink
    <2>4. links' = links \cup {i}
      BY <2>1, <2>2
    <2>5. Grows /\ PipelineTypeOK'
      BY <2>1, <2>4, SameInbox DEF PipelineInv, PipelineTypeOK
    <2>6. JobOK(s)'
      BY <2>3 DEF JobOK, AtRun, AtHook, AtLink, AtWave
    <2> QED
      BY <2>1, <2>3, <2>5, <2>6, OthersGoOn DEF Quiet, PipelineInv
  <1>3. CASE AnnounceInvoice(s)
    <2>1. Goto(s, "ended") /\ UNCHANGED <<tables, hooksDue, today, work, seen>>
      BY <1>3 DEF AnnounceInvoice
    <2>2. PlacesOK' /\ OthersPause(s) /\ at'[s] = "ended"
      BY <2>1, MoveOn DEF PipelineInv, Labels
    <2>3. Grows /\ PipelineTypeOK' /\ UNCHANGED <<payments, paid, invoicePaid>>
      BY <2>1, SameInbox DEF PipelineInv, PipelineTypeOK, tables
    <2>4. JobOK(s)'
      BY <2>2 DEF JobOK, AtRun, AtHook, AtLink, AtWave
    <2> QED
      BY <2>2, <2>3, <2>4, OthersGoOn DEF Quiet, PipelineInv
  <1> QED
    BY <1>1, <1>2, <1>3 DEF Issue

Item == ({NoInvoice} \cup Invoices) \X Waves

LEMMA WavesAreFinite == IsFiniteSet(Waves)
  <1>1. IsFiniteSet(DefaultWaves)
    <2>1. PICK a \in Int, b \in Int : a = -7 /\ b = 7
      OBVIOUS
    <2>2. DefaultWaves \subseteq a .. b
      BY <2>1 DEF DefaultWaves
    <2>3. IsFiniteSet(a .. b)
      BY FS_Interval
    <2> QED
      BY <2>2, <2>3, FS_Subset
  <1>2. IsFiniteSet({w \in DefaultWaves : w < 0})
    BY <1>1, FS_Subset
  <1>3. IsFiniteSet(Configured \cup {w \in DefaultWaves : w < 0})
    BY <1>2, PipelineAssumption, FS_Union
  <1> QED
    BY <1>1, <1>3 DEF Waves

(* What is listed of waves, and of the invoices of one. *)
LEMMA ItemsList ==
    ASSUME NEW S \in SUBSET ({NoInvoice} \cup Invoices), IsFiniteSet(S), NEW W \in SUBSET Waves
    PROVE  /\ SetToSeq(S \X W) \in Seq(Item)
           /\ S # {} /\ W # {} => SetToSeq(S \X W) # <<>>
  <1>1. IsFiniteSet(W)
    BY WavesAreFinite, FS_Subset
  <1>2. IsFiniteSet(S \X W)
    BY <1>1, FS_Product
  <1>3. SetToSeq(S \X W) \in Seq(S \X W) /\ (S \X W # {} => SetToSeq(S \X W) # <<>>)
    BY <1>2, SetToSeqLists
  <1>4. S \X W \subseteq Item
    BY DEF Item
  <1>5. SetToSeq(S \X W) \in Seq(Item)
    BY <1>3, <1>4, SeqMonotonic
  <1>6. ASSUME S # {}, W # {} PROVE S \X W # {}
    <2>1. PICK s \in S, w \in W : TRUE
      BY <1>6
    <2>2. <<s, w>> \in S \X W
      OBVIOUS
    <2> QED
      BY <2>2
  <1> HIDE DEF Item
  <1> QED
    BY <1>3, <1>5, <1>6

(* The label goes with what is left to do. *)
LEMMA AfterThisKeeps ==
    ASSUME PlacesOK, NEW c \in Processes, NEW rest \in Seq(Item), AfterThis(c, rest), UNCHANGED seen
    PROVE  PlacesOK' /\ OthersPause(c) /\ at'[c] # "commit" /\ JobOK(c)'
  <1>1. PICK label \in {"ended", "next"} : Goto(c, label) /\ (label = "next" => rest # <<>>)
    BY DEF AfterThis
  <1>2. PlacesOK' /\ OthersPause(c) /\ at'[c] = label /\ work'[c] = rest
    BY <1>1, MoveWith DEF AfterThis, Labels, AtWave
  <1> QED
    BY <1>1, <1>2 DEF JobOK, AtRun, AtHook, AtLink, AtWave, Item

LEMMA RemindersKeep ==
    ASSUME PipelineInv, NEW c \in Processes, SendReminders(c)
    PROVE  Quiet(c)
  <1>1. at[c] \in AtWave => work[c] \in Seq(Item) /\ work[c] # <<>>
    BY DEF PipelineInv, JobOK, Item
  <1>2. at[c] \in AtWave => Head(work[c]) \in Item /\ Tail(work[c]) \in Seq(Item)
    BY <1>1, HeadTailProperties
  <1>3. CASE StartReminders(c)
    <2> DEFINE waves == {w \in Waves : \E i \in Invoices : DueDate(i) = today + w}
               list == SetToSeq({NoInvoice} \X waves)
    <2>1. /\ seen' = [seen EXCEPT ![c] = today] /\ work' = [work EXCEPT ![c] = list]
          /\ Goto(c, IF waves = {} THEN "ended" ELSE "next")
          /\ UNCHANGED <<tables, hooksDue, today>>
      BY <1>3 DEF StartReminders
    <2>2. list \in Seq(Item) /\ (waves # {} => list # <<>>)
      <3>1. {NoInvoice} \in SUBSET ({NoInvoice} \cup Invoices) /\ {NoInvoice} # {}
            /\ waves \in SUBSET Waves
        OBVIOUS
      <3>2. IsFiniteSet({NoInvoice})
        BY FS_Singleton
      <3> HIDE DEF waves
      <3> QED
        BY <3>1, <3>2, ItemsList
    <2> HIDE DEF waves, list
    <2>3. PICK label \in {"ended", "next"} : Goto(c, label) /\ (label = "next" => waves # {})
      BY <2>1
    <2>4. PlacesOK' /\ OthersPause(c) /\ at'[c] = label /\ work'[c] = list
      <3>1. PlacesOK /\ label \in Labels /\ today \in Nat
        BY PipelineAssumption DEF PipelineInv, PipelineTypeOK, Labels, AtWave
      <3> QED
        BY <2>1, <2>3, <3>1, MoveTo
    <2>5. Grows /\ PipelineTypeOK' /\ UNCHANGED <<payments, paid, invoicePaid>>
      BY <2>1, SameInbox DEF PipelineInv, PipelineTypeOK, tables
    <2>6. JobOK(c)'
      BY <2>2, <2>3, <2>4 DEF JobOK, AtRun, AtHook, AtLink, AtWave, Item
    <2> QED
      BY <2>4, <2>5, <2>6, OthersGoOn DEF Quiet, PipelineInv
  <1>4. CASE QueryWave(c)
    <2> DEFINE wave == Head(work[c])[2]
               owing == Owing(seen[c] + wave)
               list == SetToSeq(owing \X {wave}) \o Tail(work[c])
    <2>1. /\ at[c] = "next" /\ AfterThis(c, list)
          /\ UNCHANGED <<tables, hooksDue, today, seen>>
      BY <1>4 DEF QueryWave, IsAt
    <2>2. wave \in Waves /\ Tail(work[c]) \in Seq(Item)
      BY <1>2, <2>1 DEF AtWave, Item
    <2>3. SetToSeq(owing \X {wave}) \in Seq(Item)
      <3>1. owing \in SUBSET ({NoInvoice} \cup Invoices) /\ {wave} \in SUBSET Waves
            /\ owing \in SUBSET Invoices
        BY <2>2 DEF Owing
      <3>2. IsFiniteSet(owing)
        BY <3>1, PipelineAssumption, FS_Subset
      <3> HIDE DEF owing, wave
      <3> QED
        BY <3>1, <3>2, ItemsList
    <2>4. list \in Seq(Item)
      <3> HIDE DEF owing, wave
      <3> QED
        BY <2>2, <2>3, ConcatProperties
    <2> HIDE DEF list
    <2>5. PlacesOK' /\ OthersPause(c) /\ at'[c] # "commit" /\ JobOK(c)'
      BY <2>1, <2>4, AfterThisKeeps DEF PipelineInv
    <2>6. Grows /\ PipelineTypeOK' /\ UNCHANGED <<payments, paid, invoicePaid>>
      BY <2>1, SameInbox DEF PipelineInv, PipelineTypeOK, tables
    <2> QED
      BY <2>5, <2>6, OthersGoOn DEF Quiet, PipelineInv
  <1>5. CASE Remind(c)
    <2>1. /\ at[c] = "next" /\ Head(work[c])[1] # NoInvoice /\ Goto(c, "count")
          /\ UNCHANGED <<tables, hooksDue, today, work, seen>>
      BY <1>5 DEF Remind, IsAt
    <2>2. PlacesOK' /\ OthersPause(c) /\ at'[c] = "count" /\ work'[c] = work[c]
      BY <2>1, MoveOn DEF PipelineInv, Labels, AtWave
    <2>3. Grows /\ PipelineTypeOK' /\ UNCHANGED <<payments, paid, invoicePaid>>
      BY <2>1, SameInbox DEF PipelineInv, PipelineTypeOK, tables
    <2>4. Head(work[c])[1] \in Invoices
      BY <1>2, <2>1 DEF AtWave, Item
    <2>5. JobOK(c)'
      BY <1>1, <2>1, <2>2, <2>4 DEF JobOK, AtRun, AtHook, AtLink, AtWave, Item
    <2> QED
      BY <2>2, <2>3, <2>5, OthersGoOn DEF Quiet, PipelineInv
  <1>6. CASE CountReminder(c)
    <2> DEFINE i == Head(work[c])[1]
    <2>1. /\ at[c] = "count" /\ reminded' = [reminded EXCEPT ![i] = @ + 1]
          /\ AfterThis(c, Tail(work[c]))
          /\ UNCHANGED <<inbox, payments, paid, invoicePaid, links, receipts, receiptKeys, hooksDue,
                         today, seen>>
      BY <1>6 DEF CountReminder, IsAt
    <2>2. PlacesOK' /\ OthersPause(c) /\ at'[c] # "commit" /\ JobOK(c)'
      BY <1>2, <2>1, AfterThisKeeps DEF PipelineInv, AtWave
    <2>3. i \in Invoices
      BY <2>1 DEF PipelineInv, JobOK
    <2> HIDE DEF i
    <2>4. Grows /\ PipelineTypeOK'
      BY <2>1, <2>3, SameInbox DEF PipelineInv, PipelineTypeOK
    <2> QED
      BY <2>1, <2>2, <2>4, OthersGoOn DEF Quiet, PipelineInv
  <1> QED
    BY <1>3, <1>4, <1>5, <1>6 DEF SendReminders

LEMMA NotifyKeeps ==
    ASSUME PipelineInv, NEW p \in Processes, Notify(p)
    PROVE  Quiet(p)
  <1>1. Goto(p, "ended") /\ UNCHANGED <<tables, hooksDue, today, work, seen>>
    BY DEF Notify
  <1>2. PlacesOK' /\ OthersPause(p) /\ at'[p] = "ended"
    BY <1>1, MoveOn DEF PipelineInv, Labels
  <1>3. Grows /\ PipelineTypeOK' /\ UNCHANGED <<payments, paid, invoicePaid>>
    BY <1>1, SameInbox DEF PipelineInv, PipelineTypeOK, tables
  <1>4. JobOK(p)'
    BY <1>2 DEF JobOK, AtRun, AtHook, AtLink, AtWave
  <1> QED
    BY <1>2, <1>3, <1>4, OthersGoOn DEF Quiet, PipelineInv

LEMMA StopKeeps ==
    ASSUME PipelineInv, NEW p \in Processes, Stop(p)
    PROVE  Quiet(p)
  <1>1. PICK label \in {"rest", "ended"} :
            /\ Goto(p, label) /\ work' = [work EXCEPT ![p] = <<>>] /\ seen' = [seen EXCEPT ![p] = 0]
            /\ UNCHANGED <<tables, hooksDue, today>>
    BY DEF Stop
  <1>2. PlacesOK' /\ OthersPause(p) /\ at'[p] = label
    <2>1. PlacesOK /\ label \in Labels /\ 0 \in Nat
      BY DEF PipelineInv, Labels
    <2> QED
      BY <1>1, <2>1, MoveTo
  <1>3. Grows /\ PipelineTypeOK' /\ UNCHANGED <<payments, paid, invoicePaid>>
    BY <1>1, SameInbox DEF PipelineInv, PipelineTypeOK, tables
  <1>4. JobOK(p)'
    BY <1>2 DEF JobOK, AtRun, AtHook, AtLink, AtWave
  <1> QED
    BY <1>2, <1>3, <1>4, OthersGoOn DEF Quiet, PipelineInv

(* Steps that leave all processes where they are. *)
LEMMA AllGoOn ==
    ASSUME PipelineInv, UNCHANGED <<at, work, seen>>, Grows
    PROVE  PlacesOK' /\ \A q \in Processes : JobOK(q)'
  <1>1. PlacesOK'
    BY DEF PipelineInv, PlacesOK
  <1>2. ASSUME NEW q \in Processes PROVE JobOK(q)'
    <2>1. Len(inbox) \in Nat /\ JobOK(q)
      BY LenProperties DEF PipelineInv, PipelineTypeOK
    <2>2. 1 .. Len(inbox) \subseteq 1 .. Len(inbox')
      BY <2>1 DEF Grows
    <2>3. at[q] \in AtRun => work[q] \in Seq(1 .. Len(inbox'))
      BY <2>1, <2>2, SeqMonotonic DEF JobOK
    <2> QED
      BY <2>1, <2>3 DEF JobOK, Grows
  <1> QED
    BY <1>1, <1>2

LEMMA ReceiveKeeps ==
    ASSUME PipelineInv, Receive
    PROVE  PipelineInv' /\ Grows /\ UNCHANGED <<at, work, seen, payments, paid, invoicePaid>>
  <1>1. PICK e \in Events : inbox' = Append(inbox, [event |-> e, processed |-> FALSE])
    BY DEF Receive
  <1>2. UNCHANGED <<payments, paid, invoicePaid, links, reminded, receipts, receiptKeys, workload,
                    hooksDue, today, at, work, seen>>
    BY DEF Receive, control
  <1>3. inbox \in Seq([event : Events, processed : BOOLEAN])
    BY DEF PipelineInv, PipelineTypeOK
  <1>4. /\ inbox' \in Seq([event : Events, processed : BOOLEAN]) /\ Len(inbox') = Len(inbox) + 1
        /\ \A i \in 1 .. Len(inbox) : inbox'[i] = inbox[i]
    BY <1>1, <1>3, AppendProperties
  <1>5. Grows
    BY <1>2, <1>3, <1>4, LenProperties DEF Grows
  <1>6. PipelineTypeOK'
    BY <1>2, <1>4 DEF PipelineInv, PipelineTypeOK
  <1> QED
    BY <1>2, <1>5, <1>6, AllGoOn DEF PipelineInv

LEMMA ElsewhereKeeps ==
    ASSUME PipelineInv, UNCHANGED <<tables, hooksDue, at, work, seen>>, today' \in 0 .. MaxDay
    PROVE  PipelineInv' /\ Grows /\ UNCHANGED <<payments, paid, invoicePaid>>
  <1>1. Grows /\ PipelineTypeOK' /\ UNCHANGED <<payments, paid, invoicePaid>>
    BY SameInbox DEF PipelineInv, PipelineTypeOK, tables
  <1> QED
    BY <1>1, AllGoOn DEF PipelineInv

LEMMA PassDayKeeps ==
    ASSUME PipelineInv, PassDay
    PROVE  PipelineInv' /\ Grows /\ UNCHANGED <<at, work, seen, payments, paid, invoicePaid>>
  <1>1. today \in 0 .. MaxDay /\ MaxDay \in Nat
    BY PipelineAssumption DEF PipelineInv, PipelineTypeOK
  <1>2. today' \in 0 .. MaxDay
    BY <1>1 DEF PassDay
  <1> QED
    BY <1>2, ElsewhereKeeps DEF PassDay

LEMMA QueueStepKeeps ==
    ASSUME PipelineInv, NEW p \in Processes, QueueStep(p)
    PROVE  PipelineInv' /\ Grows /\ UNCHANGED <<at, work, seen, payments, paid, invoicePaid>>
  <1>1. UNCHANGED <<tables, hooksDue, at, work, seen, today>>
    BY DEF QueueStep, control
  <1> QED
    BY <1>1, ElsewhereKeeps DEF PipelineInv, PipelineTypeOK

-----------------------------------------------------------------------------
(* What results come to *)

(* What Next records. *)
Record ==
    disordered' =
        \/ disordered
        \/ Cardinality(Applying') > 1
        \/ \E k \in Refs :
              /\ payments[k][1] = "COMPLETED"
              /\ payments'[k][1] = "FAILED" \/ payments'[k][2] < payments[k][2]

LEMMA RecordSays ==
    ASSUME CountedInv, Record
    PROVE  /\ disordered' \in BOOLEAN
           /\ ~disordered' =>
                /\ ~disordered
                /\ \A v, w \in Applying' : v = w
                /\ \A k \in Refs : payments[k][1] = "COMPLETED" =>
                      payments'[k][1] # "FAILED" /\ ~(payments'[k][2] < payments[k][2])
  <1>1. disordered \in BOOLEAN
    BY DEF CountedInv
  <1>2. disordered' \in BOOLEAN
    BY <1>1 DEF Record
  <1>3. ASSUME ~(Cardinality(Applying') > 1), NEW v \in Applying', NEW w \in Applying'
        PROVE  v = w
    <2>1. IsFiniteSet(Applying')
      BY PipelineAssumption, FS_Subset DEF Applying
    <2>2. {v, w} \subseteq Applying'
      OBVIOUS
    <2>3. Cardinality({v, w}) <= Cardinality(Applying')
      BY <2>1, <2>2, FS_Subset
    <2>4. IsFiniteSet({v}) /\ Cardinality({v}) = 1
      BY FS_Singleton
    <2>5. w \notin {v} => Cardinality({v} \cup {w}) = 2
      BY <2>4, FS_AddElement
    <2>6. {v} \cup {w} = {v, w}
      OBVIOUS
    <2>7. Cardinality(Applying') \in Nat
      BY <2>1, FS_CardinalityType
    <2> QED
      BY <1>3, <2>3, <2>5, <2>6, <2>7
  <1> QED
    BY <1>1, <1>2, <1>3, Zenon DEF Record

(* Who is about to commit was so, with the same sum and event. *)
CommitsStay ==
    \A w \in Runs : at'[w] = "commit" =>
        at[w] = "commit" /\ work'[w] = work[w] /\ seen'[w] = seen[w]

LEMMA QuietCounts ==
    ASSUME PipelineInv, CountedInv, Record, Grows, CommitsStay, UNCHANGED <<payments, paid, invoicePaid>>
    PROVE  CountedInv'
  <1>1. disordered' \in BOOLEAN
        /\ (~disordered' => ~disordered /\ \A v, w \in Applying' : v = w)
    BY RecordSays
  <1>2. ResultsCountOnce'
    BY <1>1 DEF CountedInv, ResultsCountOnce, SumOf, Completed
  <1>3. ASSUME ~disordered', NEW w \in Runs, at'[w] = "commit"
        PROVE  seen'[w] = (SumOf(Completed \ {EventOf(w).ref}) + EventOf(w).amount)'
    <2>1. at[w] = "commit" /\ work'[w] = work[w] /\ seen'[w] = seen[w]
      BY <1>3 DEF CommitsStay
    <2>2. Head(work[w]) \in 1 .. Len(inbox)
      BY <2>1, PipelineAssumption, EventInHand DEF AtRun
    <2>3. EventOf(w)' = EventOf(w)
      BY <2>1, <2>2 DEF Grows, EventOf
    <2>4. seen[w] = SumOf(Completed \ {EventOf(w).ref}) + EventOf(w).amount
      BY <1>1, <1>3, <2>1 DEF CountedInv
    <2>5. SumOf(Completed \ {EventOf(w).ref})' = SumOf(Completed \ {EventOf(w).ref})
      BY <2>3 DEF SumOf, Completed
    <2> QED
      BY <2>1, <2>3, <2>4, <2>5
  <1> QED
    BY <1>1, <1>2, <1>3 DEF CountedInv

LEMMA WriteCounts ==
    ASSUME PipelineInv, CountedInv, Record, NEW w \in Runs, WritePayment(w)
    PROVE  CountedInv'
  <1>1. w \in Processes
    BY PipelineAssumption
  <1>2. /\ PipelineInv' /\ OthersPause(w) /\ Grows
        /\ UNCHANGED <<payments, paid, invoicePaid, inbox, work>>
        /\ at'[w] = "commit" =>
             seen'[w] = SumOf(Completed \ {EventOf(w).ref}) + EventOf(w).amount
    BY <1>1, WriteKeeps
  <1>3. disordered' \in BOOLEAN
        /\ (~disordered' => ~disordered /\ \A v, x \in Applying' : v = x)
    BY RecordSays
  <1>4. ResultsCountOnce'
    BY <1>2, <1>3 DEF CountedInv, ResultsCountOnce, SumOf, Completed
  <1>5. ASSUME ~disordered', NEW v \in Runs, at'[v] = "commit"
        PROVE  seen'[v] = (SumOf(Completed \ {EventOf(v).ref}) + EventOf(v).amount)'
    <2>1. EventOf(v)' = EventOf(v)
      BY <1>2 DEF EventOf
    <2>2. SumOf(Completed \ {EventOf(v).ref})' = SumOf(Completed \ {EventOf(v).ref})
      BY <1>2, <2>1 DEF SumOf, Completed
    <2>3. seen'[v] = SumOf(Completed \ {EventOf(v).ref}) + EventOf(v).amount
      <3>1. CASE v = w
        BY <1>2, <1>5, <3>1
      <3>2. CASE v # w
        <4>1. at[v] = "commit" /\ seen'[v] = seen[v]
          BY <1>2, <1>5, <3>2, PipelineAssumption DEF OthersPause
        <4> QED
          BY <1>3, <1>5, <4>1 DEF CountedInv
      <3> QED
        BY <3>1, <3>2
    <2> QED
      BY <2>1, <2>2, <2>3
  <1> QED
    BY <1>3, <1>4, <1>5 DEF CountedInv

(* The commit: what is written is what the sums come to. *)
LEMMA CommitCounts ==
    ASSUME PipelineInv, CountedInv, Record, NEW w \in Runs, CommitResult(w)
    PROVE  CountedInv'
  <1> DEFINE e == EventOf(w)
             r == e.ref
             j == InvoiceOf(r)
             Own(i) == {k \in Completed : InvoiceOf(k) = i}
             OwnAfter(i) == {k \in Completed' : InvoiceOf(k) = i}
  <1>1. w \in Processes /\ at[w] = "commit"
    BY PipelineAssumption DEF CommitResult, IsAt
  <1>2. PipelineInv' /\ OthersPause(w) /\ at'[w] = "mark"
    BY <1>1, CommitKeeps
  <1>3. r \in Refs /\ e.amount \in Nat /\ e.status \in {"COMPLETED", "FAILED"}
    BY <1>1, EventInHand DEF AtRun
  <1>4. payments \in Rows /\ payments' \in Rows
    BY <1>2 DEF PipelineInv, PipelineTypeOK, Rows
  <1>5. disordered' \in BOOLEAN
    BY RecordSays
  <1> SUFFICES ASSUME ~disordered' PROVE CountedInv'
    BY <1>5 DEF CountedInv, ResultsCountOnce
  <1>6. /\ ~disordered /\ \A v, x \in Applying' : v = x
        /\ \A k \in Refs : payments[k][1] = "COMPLETED" =>
              payments'[k][1] # "FAILED" /\ ~(payments'[k][2] < payments[k][2])
    BY RecordSays
  <1>7. \A v \in Runs : at'[v] # "commit"
    <2> SUFFICES ASSUME NEW v \in Runs, at'[v] = "commit" PROVE FALSE
      OBVIOUS
    <2>1. v # w
      BY <1>2
    <2>2. at[v] = "commit"
      BY <1>2, <2>1, PipelineAssumption DEF OthersPause
    <2>3. v = w
      BY <1>1, <1>6, <2>2 DEF CountedInv, Applying
    <2> QED
      BY <2>1, <2>3
  <1>8. payments' = [payments EXCEPT ![r] = <<e.status, e.amount>>]
    BY DEF CommitResult
  <1>9. /\ payments'[r] = <<e.status, e.amount>> /\ payments'[r][1] = e.status
        /\ payments'[r][2] = e.amount
        /\ \A k \in Refs \ {r} : payments'[k] = payments[k]
    BY <1>3, <1>4, <1>8 DEF Rows
  <1>10. paid = SumOf(Completed) /\ seen[w] = SumOf(Completed \ {r}) + e.amount
         /\ \A i \in Invoices : i \in invoicePaid <=> Own(i) # {} /\ SumOf(Own(i)) >= InvoiceAmount
    BY <1>1, <1>6 DEF CountedInv, ResultsCountOnce
  <1>11. \A R \in SUBSET Refs : Value(payments, R) \in Nat /\ Value(payments', R) \in Nat
    BY <1>4, SumsOfRows
  <1>12. \A R \in SUBSET Refs :
            /\ r \notin R => Value(payments', R) = Value(payments, R)
            /\ r \in R => Value(payments', R) = Value(payments, R \ {r}) + e.amount
    BY <1>3, <1>4, <1>9, SumsAfterWrite
  <1>13. Completed \subseteq Refs /\ Completed' \subseteq Refs
    BY DEF Completed
  <1>14. /\ paid' = Value(payments', Completed')
         /\ \A i \in Invoices : i \in invoicePaid' <=>
                OwnAfter(i) # {} /\ Value(payments', OwnAfter(i)) >= InvoiceAmount
    <2>1. CASE e.status = "COMPLETED"
      <3>1. /\ paid' = seen[w]
            /\ invoicePaid' = IF Covers(Completed, e, j) THEN invoicePaid \cup {j} ELSE invoicePaid
        BY <2>1 DEF CommitResult, NewTotal
      <3>2. Completed' = Completed \cup {r}
        BY <1>3, <1>9, <2>1 DEF Completed
      <3>3. r \in Completed' /\ Completed' \ {r} = Completed \ {r}
        BY <3>2
      <3>4. paid' = Value(payments', Completed')
        BY <1>10, <1>12, <1>13, <3>1, <3>3 DEF SumOf
      <3>5. ASSUME NEW i \in Invoices, i # j
            PROVE  i \in invoicePaid' <=> OwnAfter(i) # {} /\ Value(payments', OwnAfter(i)) >= InvoiceAmount
        <4>1. OwnAfter(i) = Own(i) /\ r \notin Own(i) /\ Own(i) \in SUBSET Refs
          BY <1>13, <3>2, <3>5
        <4>2. Value(payments', Own(i)) = Value(payments, Own(i))
          BY <1>12, <4>1
        <4>3. i \in invoicePaid' <=> i \in invoicePaid
          BY <3>1, <3>5
        <4> QED
          BY <1>10, <4>1, <4>2, <4>3 DEF SumOf
      <3>6. j \in invoicePaid' <=> OwnAfter(j) # {} /\ Value(payments', OwnAfter(j)) >= InvoiceAmount
        <4> DEFINE others == {k \in Completed \ {r} : InvoiceOf(k) = j}
        <4>1. OwnAfter(j) \in SUBSET Refs /\ r \in OwnAfter(j) /\ OwnAfter(j) \ {r} = others
          BY <1>13, <3>2, <3>3
        <4>2. Value(payments', OwnAfter(j)) = Value(payments, others) + e.amount
          BY <1>12, <4>1
        <4>3. Covers(Completed, e, j) <=> Value(payments, others) + e.amount >= InvoiceAmount
          BY DEF Covers, SumOf
        <4>4. j \in invoicePaid => Value(payments, others) + e.amount >= InvoiceAmount
          <5> SUFFICES ASSUME j \in invoicePaid
                       PROVE  Value(payments, others) + e.amount >= InvoiceAmount
            OBVIOUS
          <5>1. Value(payments, Own(j)) >= InvoiceAmount
            BY <1>3, <1>10, PipelineAssumption DEF SumOf
          <5>2. Own(j) \in SUBSET Refs /\ Own(j) \ {r} = others /\ others \in SUBSET Refs
            BY <1>13
          <5>3. Value(payments, others) \in Nat /\ Value(payments, Own(j)) \in Nat
            BY <1>11, <5>2
          <5>4. CASE r \notin Own(j)
            <6>1. others = Own(j)
              BY <5>2, <5>4
            <6>2. Value(payments, Own(j)) = Value(payments, others)
              BY <6>1
            <6> HIDE DEF others, Own, e
            <6> QED
              BY <1>3, <5>1, <5>3, <6>2, PipelineAssumption
          <5>5. CASE r \in Own(j)
            <6>1. Value(payments, Own(j)) = Value(payments, others) + payments[r][2]
              BY <1>3, <1>4, <5>2, <5>5, SumsAfterWrite
            <6>2. ~(e.amount < payments[r][2])
              BY <1>3, <1>6, <1>9, <5>5 DEF Completed
            <6>3. payments[r][2] \in Nat
              BY <1>3, <1>4 DEF Rows, Absent
            <6> QED
              BY <1>3, <5>1, <5>3, <6>1, <6>2, <6>3, PipelineAssumption
          <5> QED
            BY <5>4, <5>5
        <4> QED
          BY <3>1, <4>1, <4>2, <4>3, <4>4
      <3> QED
        BY <3>4, <3>5, <3>6
    <2>2. CASE e.status = "FAILED"
      <3>1. paid' = paid /\ invoicePaid' = invoicePaid
        BY <2>2 DEF CommitResult
      <3>2. r \notin Completed
        BY <1>3, <1>6, <1>9, <2>2 DEF Completed
      <3>3. Completed' = Completed
        BY <1>3, <1>9, <2>2, <3>2 DEF Completed
      <3>4. \A R \in SUBSET Completed : Value(payments', R) = Value(payments, R)
        BY <1>12, <1>13, <3>2
      <3>5. \A i \in Invoices : OwnAfter(i) = Own(i) /\ Own(i) \in SUBSET Completed
        BY <3>3
      <3>6. paid' = Value(payments', Completed')
        BY <1>10, <3>1, <3>3, <3>4 DEF SumOf
      <3> QED
        BY <1>10, <3>1, <3>4, <3>5, <3>6 DEF SumOf
    <2> QED
      BY <1>3, <2>1, <2>2
  <1>15. ResultsCountOnce'
    BY <1>14 DEF ResultsCountOnce, SumOf
  <1> QED
    BY <1>5, <1>6, <1>7, <1>15 DEF CountedInv

-----------------------------------------------------------------------------
LEMMA QuietStays == ASSUME PipelineInv, NEW p \in Processes, Quiet(p) PROVE CommitsStay
  BY PipelineAssumption DEF Quiet, OthersPause, CommitsStay

LEMMA WorkKeeps ==
    ASSUME PipelineInv, NEW p \in Processes, Work(p) \/ QueueStep(p) \/ Stop(p)
    PROVE  /\ PipelineInv'
           /\ CountedInv /\ Record => CountedInv'
  <1>1. CASE Quiet(p)
    BY <1>1, QuietStays, QuietCounts DEF Quiet
  <1>2. CASE p \in Runs /\ WritePayment(p)
    BY <1>2, WriteKeeps, WriteCounts
  <1>3. CASE p \in Runs /\ CommitResult(p)
    BY <1>3, CommitKeeps, CommitCounts
  <1>4. CASE QueueStep(p)
    <2>1. PipelineInv' /\ Grows /\ UNCHANGED <<at, work, seen, payments, paid, invoicePaid>>
      BY <1>4, QueueStepKeeps
    <2>2. CommitsStay
      BY <2>1 DEF CommitsStay
    <2> QED
      BY <2>1, <2>2, QuietCounts
  <1>5. CASE Stop(p)
    BY <1>1, <1>5, StopKeeps
  <1>6. CASE Work(p)
    BY <1>1, <1>2, <1>3, <1>6, StartRunKeeps, VerifyKeeps, FindKeeps, MarkKeepsWork, LostKeeps, HookKeeps,
       IssueKeeps, RemindersKeep, NotifyKeeps DEF Work, Process
  <1> QED
    BY <1>4, <1>5, <1>6

LEMMA PipelineStep ==
    ASSUME PipelineInv, [Next]_vars
    PROVE  PipelineInv' /\ (CountedInv => CountedInv')
  <1>1. CASE Next
    <2>1. Record
      BY <1>1 DEF Next, Record
    <2>2. CASE \E p \in Processes : Work(p) \/ QueueStep(p) \/ Stop(p)
      BY <2>1, <2>2, WorkKeeps
    <2>3. CASE Receive \/ PassDay
      <3>1. PipelineInv' /\ Grows /\ UNCHANGED <<at, work, seen, payments, paid, invoicePaid>>
        BY <2>3, ReceiveKeeps, PassDayKeeps
      <3>2. CommitsStay
        BY <3>1 DEF CommitsStay
      <3> QED
        BY <2>1, <3>1, <3>2, QuietCounts
    <2> QED
      BY <1>1, <2>2, <2>3 DEF Next
  <1>2. CASE UNCHANGED vars
    <2>1. UNCHANGED <<tables, hooksDue, today, at, work, seen, disordered>>
      BY <1>2 DEF vars, control
    <2>2. PipelineInv' /\ Grows /\ UNCHANGED <<payments, paid, invoicePaid>>
      BY <2>1, ElsewhereKeeps DEF PipelineInv, PipelineTypeOK
    <2>3. CountedInv => CountedInv'
      BY <2>1, <2>2 DEF tables, CountedInv, ResultsCountOnce, SumOf, Completed, Applying, EventOf
    <2> QED
      BY <2>2, <2>3
  <1> QED
    BY <1>1, <1>2

LEMMA PipelineStart == PipelineInit => PipelineInv /\ CountedInv
  <1> SUFFICES ASSUME PipelineInit PROVE PipelineInv /\ CountedInv
    OBVIOUS
  <1>1. \A p \in Processes : at[p] = "rest" /\ seen[p] = 0
    BY DEF PipelineInit
  <1>2. PipelineInv
    <2>1. PipelineTypeOK
      BY EmptySeq, PipelineAssumption DEF PipelineInit, PipelineTypeOK
    <2>2. PlacesOK
      BY DEF PipelineInit, PlacesOK, Labels
    <2>3. \A p \in Processes : JobOK(p)
      BY <1>1 DEF JobOK, AtRun, AtHook, AtLink, AtWave
    <2> QED
      BY <2>1, <2>2, <2>3 DEF PipelineInv
  <1>3. Completed = {}
    BY DEF PipelineInit, Completed, Absent
  <1>4. Value(payments, {}) = 0
    <2>1. Value(payments, {}) = Total([k \in {} |-> 0], {})
      BY ValueIsTotal
    <2> QED
      BY <2>1, TotalStep, FS_EmptySet
  <1>5. CountedInv
    BY <1>1, <1>3, <1>4, PipelineAssumption
       DEF PipelineInit, CountedInv, ResultsCountOnce, SumOf, Applying
  <1> QED
    BY <1>2, <1>5

(* Every table, label and list of the pipeline holds what it is meant to;  *)
(* the key of a receipt is recorded only when its file is there.           *)
THEOREM PipelineIsTyped == Spec => []PipelineTypeOK
  <1>1. PipelineInv /\ [Next]_vars => PipelineInv'
    BY PipelineStep
  <1>2. PipelineInv => PipelineTypeOK
    BY DEF PipelineInv
  <1> QED
    BY <1>1, <1>2, PipelineStart, PTL DEF Spec

(* A gateway's result counts once in the total and towards its invoice,    *)
(* for any number of runs, events and cuts, as long as results are applied *)
(* one at a time and none sets a payment back.                             *)
THEOREM ResultsCountExactlyOnce == Spec => []ResultsCountOnce
  <1>1. PipelineInv /\ CountedInv /\ [Next]_vars => (PipelineInv /\ CountedInv)'
    BY PipelineStep
  <1>2. CountedInv => ResultsCountOnce
    BY DEF CountedInv
  <1> QED
    BY <1>1, <1>2, PipelineStart, PTL DEF Spec

-----------------------------------------------------------------------------
(* The pipeline as a client of the queue *)

(* What a job is made of, it may send. *)
LEMMA JobsAreMessages ==
    /\ \A k \in Refs : PaymentConfirm(k) \in Seq(Keys) \ {<<>>}
    /\ \A i \in Invoices : FeeInvoice(i) \in Seq(Keys) \ {<<>>}
    /\ \A i \in Invoices, w \in Waves : PaymentReminder(i, w) \in Seq(Keys) \ {<<>>}
    /\ Errands \subseteq Seq(Keys) \ {<<>>}
  BY MessageAssumption

LEMMA WorkIsOfTheQueue ==
    ASSUME PipelineInv, NEW p \in Processes, Work(p)
    PROVE  UNCHANGED queue \/ \E messages \in Seq(Keys) \ {<<>>} : Begin(p, messages)
  <1>1. CASE Process(p)
    BY <1>1 DEF Process, StartRun, Verify, FindPayment, WritePayment, CommitResult, MarkProcessed,
                ResultIsLost
  <1>2. CASE RunHook(p)
    <2>1. CASE Confirm(p)
      <3>1. at[p] = "confirm" /\ Begin(p, PaymentConfirm(Head(work[p])))
        BY <2>1 DEF Confirm, IsAt
      <3>2. PICK k \in Refs : work[p] = <<k>>
        BY <3>1 DEF PipelineInv, JobOK, AtHook
      <3>3. Head(work[p]) \in Refs
        BY <3>2
      <3> QED
        BY <3>1, <3>3, JobsAreMessages
    <2> QED
      BY <1>2, <2>1 DEF RunHook, StartHook, BuildReceipt, SaveReceiptKey
  <1>3. CASE Issue(p)
    <2>1. CASE AnnounceInvoice(p)
      <3>1. at[p] = "notify" /\ Begin(p, FeeInvoice(Head(work[p])))
        BY <2>1 DEF AnnounceInvoice, IsAt
      <3>2. PICK i \in Invoices : work[p] = <<i>>
        BY <3>1 DEF PipelineInv, JobOK, AtLink
      <3>3. Head(work[p]) \in Invoices
        BY <3>2
      <3> QED
        BY <3>1, <3>3, JobsAreMessages
    <2> QED
      BY <1>3, <2>1 DEF Issue, IssueLink, SaveLink
  <1>4. CASE SendReminders(p)
    <2>1. CASE Remind(p)
      <3>1. /\ at[p] = "next" /\ Head(work[p])[1] # NoInvoice
            /\ Begin(p, PaymentReminder(Head(work[p])[1], Head(work[p])[2]))
        BY <2>1 DEF Remind, IsAt
      <3>2. work[p] \in Seq(Item) /\ work[p] # <<>>
        BY <3>1 DEF PipelineInv, JobOK, AtWave, Item
      <3>3. Head(work[p]) \in Item
        BY <3>2, HeadTailProperties
      <3>4. Head(work[p])[1] \in Invoices /\ Head(work[p])[2] \in Waves
        BY <3>1, <3>3 DEF Item
      <3> QED
        BY <3>1, <3>4, JobsAreMessages
    <2> QED
      BY <1>4, <2>1 DEF SendReminders, StartReminders, QueryWave, CountReminder
  <1>5. CASE Notify(p)
    BY <1>5, JobsAreMessages DEF Notify
  <1> QED
    BY <1>1, <1>2, <1>3, <1>4, <1>5 DEF Work

LEMMA StepIsOfTheQueue ==
    ASSUME PipelineInv, [Next]_vars
    PROVE  [QueueNext]_queue
  <1>1. ASSUME NEW p \in Processes, Work(p) PROVE [QueueNext]_queue
    BY <1>1, WorkIsOfTheQueue DEF QueueNext
  <1>2. ASSUME NEW p \in Processes, QueueStep(p) PROVE QueueNext
    BY <1>2 DEF QueueStep, QueueNext
  <1>3. ASSUME NEW p \in Processes, Stop(p) PROVE QueueNext
    BY <1>3 DEF Stop, QueueNext
  <1>4. CASE Receive \/ PassDay
    BY <1>4 DEF Receive, PassDay
  <1>5. CASE UNCHANGED vars
    BY <1>5 DEF vars
  <1> QED
    BY <1>1, <1>2, <1>3, <1>4, <1>5 DEF Next

(* Hooks, crons and requests use the queue as QueueSpec lets anybody: a    *)
(* step of the pipeline is a step of the queue, or leaves it alone.        *)
THEOREM PipelineUsesTheQueue == Spec => QueueSpec
  <1>1. PipelineInit => QueueInit
    BY DEF PipelineInit
  <1>2. PipelineInv /\ [Next]_vars => PipelineInv'
    BY PipelineStep
  <1>3. PipelineInv /\ [Next]_vars => [QueueNext]_queue
    BY StepIsOfTheQueue
  <1> QED
    BY <1>1, <1>2, <1>3, PipelineStart, PTL DEF Spec, QueueSpec

(* So what holds of the queue holds in the pipeline, whatever else hooks,  *)
(* crons and requests do: SENT means sent, and a message is sent once      *)
(* unless it is retried or cut off in the middle of it.                    *)
THEOREM PipelineMessagesAreSound == Spec => [](SentIsSent /\ SentOnce)
  BY PipelineUsesTheQueue, RowsTellTheTruth, NothingIsSentTwice, PTL

=============================================================================
