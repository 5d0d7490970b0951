------------------------ MODULE PaymentLedger_proofs ------------------------
(***************************************************************************)
(* What is kept of a payment that has been recorded, which instalments     *)
(* stand when calls make plans at once, whose money counts, and what calls *)
(* one after another agree on, for any number of calls, keys, plans and    *)
(* amounts.  Then the participant: that nobody is promoted whose payments  *)
(* leave more than the threshold, and what calls of staff and promotions   *)
(* one after another agree on, for any number of staff and documents.      *)
(***************************************************************************)
EXTENDS ParticipantLifecycle, Fees_proofs

(* Steps that look at or write to a payment row know which one. *)
Deciding == {"readPayment", "flip", "reject"} \cup Flipped
WithKey == {"checkInvoice", "lookup", "create"} \cup Deciding

IsRow(x) == x = [status |-> x.status, amount |-> x.amount, invoice |-> x.invoice]
IsJob(x) == x = [op |-> x.op, key |-> x.key, amount |-> x.amount,
                 invoice |-> x.invoice, type |-> x.type, count |-> x.count]

PaymentsAreRows == DOMAIN payments = Keys /\ payments = [k \in Keys |-> payments[k]]
                   /\ \A k \in Keys : IsRow(payments[k])

(* The inductive invariant: a call decides about a payment that is there,  *)
(* since nothing deletes a row.                                            *)
RowInv ==
    /\ PaymentsAreRows
    /\ job = [r \in Requests |-> job[r]]
    /\ pc \in [Requests -> {"idle"} \cup Outside \cup InTransaction \cup Settled]
    /\ \A r \in Requests : pc[r] \in WithKey => job[r].key \in Keys
    /\ \A r \in Requests : pc[r] \in Deciding => Exists(job[r].key)

(* What a step does to the payment rows. *)
KeepsRows ==
    /\ PaymentsAreRows'
    /\ \A k \in Keys : Exists(k) =>
          /\ Exists(k)'
          /\ payments'[k].amount = payments[k].amount
          /\ payments'[k].invoice = payments[k].invoice

LEMMA SameRowsKept == ASSUME RowInv, UNCHANGED payments PROVE KeepsRows
  BY DEF RowInv, KeepsRows, Exists, PaymentsAreRows

(* Rows of other keys stay, and the row of this one keeps its payload.     *)
LEMMA StatusOnly ==
    ASSUME RowInv, NEW k \in Keys, NEW s \in {"COMPLETED", "FAILED"},
           payments' = [payments EXCEPT ![k] = [@ EXCEPT !.status = s]]
    PROVE  KeepsRows
  <1>1. PICK row : row = payments[k]
    OBVIOUS
  <1>2. PICK new : new = [row EXCEPT !.status = s]
    OBVIOUS
  <1>3. row = [status |-> row.status, amount |-> row.amount, invoice |-> row.invoice]
    BY <1>1 DEF RowInv, PaymentsAreRows, IsRow
  <1>4. new = [status |-> s, amount |-> row.amount, invoice |-> row.invoice]
    BY <1>2, <1>3
  <1>5. IsRow(new) /\ new.status # "ABSENT" /\ new.amount = row.amount /\ new.invoice = row.invoice
    BY <1>4 DEF IsRow
  <1>6. payments' = [payments EXCEPT ![k] = new]
    BY <1>1, <1>2
  <1>7. DOMAIN payments' = Keys /\ payments'[k] = new
        /\ \A l \in Keys \ {k} : payments'[l] = payments[l]
    BY <1>6 DEF RowInv, PaymentsAreRows
  <1>8. payments' = [l \in Keys |-> payments'[l]]
    BY <1>6, <1>7 DEF RowInv, PaymentsAreRows
  <1>9. \A l \in Keys : IsRow(payments'[l])
    BY <1>5, <1>7 DEF RowInv, PaymentsAreRows
  <1> QED
    BY <1>1, <1>5, <1>7, <1>8, <1>9 DEF KeepsRows, PaymentsAreRows, Exists

(* A row is created only under a key that has none. *)
LEMMA CreationKeeps ==
    ASSUME RowInv, NEW r \in Requests, CreatePayment(r)
    PROVE  KeepsRows
  <1>1. CASE Exists(job[r].key)
    BY <1>1, SameRowsKept DEF CreatePayment
  <1>2. CASE ~Exists(job[r].key)
    <2>1. job[r].key \in Keys
      BY DEF RowInv, CreatePayment, WithKey
    <2>2. PICK k : k = job[r].key
      OBVIOUS
    <2>3. PICK row : row = [status |-> "PENDING_VERIFICATION", amount |-> job[r].amount,
                            invoice |-> job[r].invoice]
      OBVIOUS
    <2>4. IsRow(row) /\ row.status = "PENDING_VERIFICATION"
      BY <2>3 DEF IsRow
    <2>5. payments' = [payments EXCEPT ![k] = row]
      BY <1>2, <2>2, <2>3 DEF CreatePayment
    <2>6. DOMAIN payments' = Keys /\ payments'[k] = row
          /\ \A l \in Keys \ {k} : payments'[l] = payments[l]
      BY <2>1, <2>2, <2>5 DEF RowInv, PaymentsAreRows
    <2>7. payments' = [l \in Keys |-> payments'[l]]
      BY <2>5, <2>6 DEF RowInv, PaymentsAreRows
    <2>8. \A l \in Keys : IsRow(payments'[l])
      BY <2>4, <2>6 DEF RowInv, PaymentsAreRows
    <2>9. ~Exists(k)
      BY <1>2, <2>2
    <2> QED
      BY <2>6, <2>7, <2>8, <2>9 DEF KeepsRows, PaymentsAreRows, Exists
  <1> QED
    BY <1>1, <1>2

(* Every other statement leaves the payments alone. *)
LEMMA OthersKeep ==
    ASSUME NEW r \in Requests, Arrive(r) \/ Proceed(r) \/ Abort(r),
           ~CreatePayment(r), ~CommitVerification(r), ~RejectPayment(r)
    PROVE  UNCHANGED payments
  <1>1. Arrive(r) => UNCHANGED payments
    BY DEF Arrive, Record, Decide, SetFeeOverride, CreatePlan, Start, tables
  <1>2. CheckInvoice(r) \/ Lookup(r) \/ ReadPayment(r) \/ ReadTotal(r) \/ SumPaid(r)
        \/ ReadInvoice(r) \/ SumInvoice(r) => UNCHANGED payments
    BY DEF CheckInvoice, Lookup, ReadPayment, ReadTotal, SumPaid, ReadInvoice, SumInvoice,
           Look, tables
  <1>3. ReadEnrolment(r) \/ ReadPlan(r) \/ FindTemplate(r) => UNCHANGED payments
    BY DEF ReadEnrolment, ReadPlan, FindTemplate, Look, tables
  <1>4. FlipPayment(r) \/ UpdateTotals(r) \/ OverrideFee(r) => UNCHANGED payments
    BY DEF FlipPayment, UpdateTotals, OverrideFee, tables
  <1>5. TakeInvoiceNumber(r) \/ InsertInvoices(r) \/ RefuseInvoices(r) \/ Abort(r)
           => UNCHANGED payments
    BY DEF TakeInvoiceNumber, InsertInvoices, RefuseInvoices, Abort, tables
  <1> QED
    BY <1>1, <1>2, <1>3, <1>4, <1>5 DEF Proceed

LEMMA StepKeepsRows ==
    ASSUME RowInv, [CallStep]_vars
    PROVE  KeepsRows
  <1>1. CASE UNCHANGED vars
    BY <1>1, SameRowsKept DEF vars, tables
  <1>2. ASSUME NEW r \in Requests, Arrive(r) \/ Proceed(r) \/ Abort(r)
        PROVE  KeepsRows
    <2>1. CASE CreatePayment(r)
      BY <2>1, CreationKeeps
    <2>2. CASE CommitVerification(r)
      <3>1. job[r].key \in Keys
        BY <2>2 DEF RowInv, CommitVerification, WithKey, Deciding, Flipped
      <3>2. payments' = [payments EXCEPT ![job[r].key] = [@ EXCEPT !.status = "COMPLETED"]]
        BY <2>2 DEF CommitVerification
      <3> QED
        BY <3>1, <3>2, StatusOnly
    <2>3. CASE RejectPayment(r)
      <3>1. job[r].key \in Keys
        BY <2>3 DEF RowInv, RejectPayment, WithKey, Deciding
      <3>2. payments' = [payments EXCEPT ![job[r].key] = [@ EXCEPT !.status = "FAILED"]]
        BY <2>3 DEF RejectPayment
      <3> QED
        BY <3>1, <3>2, StatusOnly
    <2> QED
      BY <1>2, <2>1, <2>2, <2>3, OthersKeep, SameRowsKept
  <1> QED
    BY <1>1, <1>2 DEF CallStep

PCs == {"idle"} \cup Outside \cup InTransaction \cup Settled

(* A step of a call that has arrived: it stays with its job, and does not  *)
(* come to record or decide about a payment unless it was about to.        *)
GoesOn(r, label) ==
    /\ job' = job
    /\ pc' = [pc EXCEPT ![r] = label]
    /\ label \in PCs
    /\ label \in WithKey => pc[r] \in WithKey
    /\ label \in Deciding => pc[r] \in Deciding
    /\ label \in Outside => pc[r] \in Outside
    /\ label \in {"flip"} \cup Flipped => pc[r] \in {"flip"} \cup Flipped \/ job[r].op = "verify"

LEMMA ProceedGoesOn ==
    ASSUME NEW r \in Requests, Proceed(r) \/ Abort(r)
    PROVE  \E label \in PCs : GoesOn(r, label)
  <1> USE DEF GoesOn, PCs, Goto, WithKey, Deciding, Flipped, Outside, InTransaction, Settled
  <1>1. CheckInvoice(r) => \E label \in PCs : GoesOn(r, label)
    BY DEF CheckInvoice, Look
  <1>2. Lookup(r) => \E label \in PCs : GoesOn(r, label)
    BY DEF Lookup, Look
  <1>3. CreatePayment(r) => \E label \in PCs : GoesOn(r, label)
    BY DEF CreatePayment
  <1>4. ReadPayment(r) => \E label \in PCs : GoesOn(r, label)
    BY DEF ReadPayment, Look
  <1>5. FlipPayment(r) => GoesOn(r, "readTotal")
    BY DEF FlipPayment
  <1>6. RejectPayment(r) \/ CommitVerification(r) \/ OverrideFee(r) \/ InsertInvoices(r)
           => GoesOn(r, "done")
    BY DEF RejectPayment, CommitVerification, OverrideFee, InsertInvoices, Commit
  <1>7. ReadTotal(r) => \E label \in PCs : GoesOn(r, label)
    BY DEF ReadTotal, Look
  <1>8. SumPaid(r) => \E label \in PCs : GoesOn(r, label)
    BY DEF SumPaid, Look
  <1>9. UpdateTotals(r) => \E label \in PCs : GoesOn(r, label)
    BY DEF UpdateTotals
  <1>10. ReadInvoice(r) => \E label \in PCs : GoesOn(r, label)
    BY DEF ReadInvoice, Look
  <1>11. SumInvoice(r) => \E label \in PCs : GoesOn(r, label)
    BY DEF SumInvoice, Look
  <1>12. ReadEnrolment(r) => \E label \in PCs : GoesOn(r, label)
    BY DEF ReadEnrolment, Look
  <1>13. ReadPlan(r) => \E label \in PCs : GoesOn(r, label)
    BY DEF ReadPlan, Look
  <1>14. FindTemplate(r) => \E label \in PCs : GoesOn(r, label)
    BY DEF FindTemplate, Look
  <1>15. TakeInvoiceNumber(r) => GoesOn(r, "insert")
    BY DEF TakeInvoiceNumber
  <1>16. RefuseInvoices(r) => GoesOn(r, "refused")
    BY DEF RefuseInvoices
  <1>17. Abort(r) => GoesOn(r, "aborted")
    BY DEF Abort
  <1>18. {"readTotal", "done", "insert", "refused", "aborted"} \subseteq PCs
    OBVIOUS
  <1> HIDE DEF GoesOn, PCs, Goto, WithKey, Deciding, Flipped, Outside, InTransaction, Settled
  <1> QED
    BY <1>1, <1>2, <1>3, <1>4, <1>5, <1>6, <1>7, <1>8, <1>9, <1>10, <1>11, <1>12, <1>13,
       <1>14, <1>15, <1>16, <1>17, <1>18 DEF Proceed

(* A call that arrives and will decide is about a payment that is there.   *)
LEMMA StartKeeps ==
    ASSUME RowInv, NEW r \in Requests, NEW op, NEW args, NEW label \in PCs,
           Start(r, op, args, label), IsJob(args),
           label \in WithKey => args.key \in Keys,
           label \in Deciding => Exists(args.key)
    PROVE  RowInv'
  <1>1. UNCHANGED payments
    BY DEF Start, tables
  <1>2. PICK new : new = [args EXCEPT !.op = op]
    OBVIOUS
  <1>3. new.key = args.key
    BY <1>2 DEF IsJob
  <1>4. job' = [job EXCEPT ![r] = new] /\ pc' = [pc EXCEPT ![r] = label]
    BY <1>2 DEF Start, Goto
  <1>5. /\ job' = [q \in Requests |-> job'[q]] /\ job'[r] = new /\ pc'[r] = label
        /\ \A q \in Requests \ {r} : job'[q] = job[q] /\ pc'[q] = pc[q]
    BY <1>4 DEF RowInv
  <1>6. pc' \in [Requests -> PCs]
    BY <1>4 DEF RowInv, PCs
  <1>7. PaymentsAreRows'
    BY <1>1 DEF RowInv, PaymentsAreRows, IsRow
  <1>8. \A q \in Requests : pc'[q] \in WithKey => job'[q].key \in Keys
    BY <1>3, <1>5 DEF RowInv
  <1>9. \A q \in Requests : pc'[q] \in Deciding => payments[job'[q].key].status # "ABSENT"
    BY <1>3, <1>5 DEF RowInv, Exists
  <1> QED
    BY <1>1, <1>5, <1>6, <1>7, <1>8, <1>9 DEF RowInv, PCs, Exists

LEMMA ArriveKeeps ==
    ASSUME RowInv, NEW r \in Requests, Arrive(r)
    PROVE  RowInv'
  <1> USE DEF IsJob, NoJob, PCs, WithKey, Deciding, Flipped, Outside, InTransaction, Settled
  <1>1. CASE Record(r)
    <2>1. PICK k \in Keys, a \in Amounts, id \in {i.id : i \in invoices} \cup {NoInvoice} :
              Start(r, "record", [NoJob EXCEPT !.key = k, !.amount = a, !.invoice = id],
                    IF id = NoInvoice THEN "lookup" ELSE "checkInvoice")
      BY <1>1 DEF Record
    <2>2. PICK args : args = [op |-> "none", key |-> k, amount |-> a, invoice |-> id,
                              type |-> "FULL", count |-> 1]
      OBVIOUS
    <2>3. args = [NoJob EXCEPT !.key = k, !.amount = a, !.invoice = id]
      <3>1. PICK keyed : keyed = [NoJob EXCEPT !.key = k]
        OBVIOUS
      <3>2. PICK priced : priced = [keyed EXCEPT !.amount = a]
        OBVIOUS
      <3>3. keyed = [op |-> "none", key |-> k, amount |-> 0, invoice |-> NoInvoice,
                     type |-> "FULL", count |-> 1]
        BY <3>1
      <3>4. priced = [op |-> "none", key |-> k, amount |-> a, invoice |-> NoInvoice,
                      type |-> "FULL", count |-> 1]
        BY <3>2, <3>3
      <3>5. args = [priced EXCEPT !.invoice = id]
        BY <2>2, <3>4
      <3> QED
        BY <3>1, <3>2, <3>5, Zenon
    <2>4. PICK label : label = IF id = NoInvoice THEN "lookup" ELSE "checkInvoice"
      OBVIOUS
    <2>5. Start(r, "record", args, label)
      BY <2>1, <2>3, <2>4
    <2>6. IsJob(args) /\ args.key \in Keys
      BY <2>1, <2>2
    <2>7. label \in PCs /\ label \notin Deciding
      BY <2>4
    <2> QED
      BY <2>5, <2>6, <2>7, StartKeeps
  <1>2. CASE Decide(r)
    <2>1. PICK k \in Keys, op \in {"verify", "reject"} :
              Exists(k) /\ Start(r, op, [NoJob EXCEPT !.key = k], "readPayment")
      BY <1>2 DEF Decide
    <2>2. PICK args : args = [op |-> "none", key |-> k, amount |-> 0, invoice |-> NoInvoice,
                              type |-> "FULL", count |-> 1]
      OBVIOUS
    <2>3. args = [NoJob EXCEPT !.key = k]
      BY <2>2
    <2>4. IsJob(args) /\ args.key = k
      BY <2>2
    <2>5. Start(r, op, args, "readPayment")
      BY <2>1, <2>3
    <2>6. "readPayment" \in PCs
      OBVIOUS
    <2> QED
      BY <2>1, <2>4, <2>5, <2>6, StartKeeps
  <1>3. CASE SetFeeOverride(r)
    <2>1. PICK a \in Overrides : Start(r, "override", [NoJob EXCEPT !.amount = a], "readEnrolment")
      BY <1>3 DEF SetFeeOverride
    <2>2. PICK args : args = [op |-> "none", key |-> NoKey, amount |-> a, invoice |-> NoInvoice,
                              type |-> "FULL", count |-> 1]
      OBVIOUS
    <2>3. args = [NoJob EXCEPT !.amount = a]
      BY <2>2
    <2>4. IsJob(args) /\ "readEnrolment" \in PCs /\ "readEnrolment" \notin WithKey
      BY <2>2
    <2>5. Start(r, "override", args, "readEnrolment")
      BY <2>1, <2>3
    <2> QED
      BY <2>4, <2>5, StartKeeps
  <1>4. CASE CreatePlan(r)
    <2>1. PICK p \in Plans :
              Start(r, "plan", [NoJob EXCEPT !.type = p[1], !.count = p[2]], "readPlan")
      BY <1>4 DEF CreatePlan
    <2>2. PICK args : args = [op |-> "none", key |-> NoKey, amount |-> 0, invoice |-> NoInvoice,
                              type |-> p[1], count |-> p[2]]
      OBVIOUS
    <2>3. args = [NoJob EXCEPT !.type = p[1], !.count = p[2]]
      <3>1. PICK typed : typed = [NoJob EXCEPT !.type = p[1]]
        OBVIOUS
      <3>2. typed = [op |-> "none", key |-> NoKey, amount |-> 0, invoice |-> NoInvoice,
                     type |-> p[1], count |-> 1]
        BY <3>1
      <3>3. args = [typed EXCEPT !.count = p[2]]
        BY <2>2, <3>2
      <3> QED
        BY <3>1, <3>3, Zenon
    <2>4. IsJob(args)
      BY <2>2
    <2>5. "readPlan" \in PCs /\ "readPlan" \notin WithKey
      OBVIOUS
    <2>6. Start(r, "plan", args, "readPlan")
      BY <2>1, <2>3
    <2> QED
      BY <2>4, <2>5, <2>6, StartKeeps
  <1> QED
    BY <1>1, <1>2, <1>3, <1>4 DEF Arrive

LEMMA ProceedKeeps ==
    ASSUME RowInv, NEW r \in Requests, Proceed(r) \/ Abort(r)
    PROVE  RowInv'
  <1>1. KeepsRows
    BY StepKeepsRows DEF CallStep
  <1>2. PICK label \in PCs : GoesOn(r, label)
    BY ProceedGoesOn
  <1>3. /\ job' = job /\ pc' \in [Requests -> PCs]
        /\ \A q \in Requests : pc'[q] \in WithKey => pc[q] \in WithKey
        /\ \A q \in Requests : pc'[q] \in Deciding => pc[q] \in Deciding
    BY <1>2 DEF GoesOn, RowInv, PCs
  <1>4. \A q \in Requests : pc'[q] \in Deciding => payments'[job[q].key].status # "ABSENT"
    <2> SUFFICES ASSUME NEW q \in Requests, pc'[q] \in Deciding
                 PROVE  payments'[job[q].key].status # "ABSENT"
      OBVIOUS
    <2>1. Exists(job[q].key) /\ job[q].key \in Keys
      BY <1>3 DEF RowInv, WithKey
    <2> QED
      BY <1>1, <2>1 DEF KeepsRows, Exists
  <1> QED
    BY <1>1, <1>3, <1>4 DEF RowInv, KeepsRows, PCs, Exists

OverlapTyped == overlapped \in BOOLEAN

(* The calls of the ledger, whatever goes on beside them: the spec of the  *)
(* ledger by itself, and of the participant's lifecycle, imply it.         *)
CallSpec == Init /\ [][CallStep]_vars /\ []OverlapTyped

LEMMA SpecCalls == Spec => CallSpec
  <1>1. Init => OverlapTyped
    BY DEF Init, OverlapTyped
  <1>2. OverlapTyped /\ [Next]_<<vars, overlapped>> => OverlapTyped'
    BY DEF Next, OverlapTyped
  <1>3. [Next]_<<vars, overlapped>> => [CallStep]_vars
    BY DEF Next
  <1> QED
    BY <1>1, <1>2, <1>3, PTL DEF Spec, CallSpec

LEMMA RowsStay == CallSpec => []RowInv
  <1>1. Init => RowInv
    <2> SUFFICES ASSUME Init PROVE RowInv
      OBVIOUS
    <2>1. PaymentsAreRows
      <3>1. DOMAIN payments = Keys /\ payments = [k \in Keys |-> payments[k]]
        BY DEF Init
      <3>2. ASSUME NEW k \in Keys PROVE IsRow(payments[k])
        BY DEF Init, IsRow, NoPayment
      <3> QED
        BY <3>1, <3>2 DEF PaymentsAreRows
    <2>2. job = [r \in Requests |-> job[r]]
      BY DEF Init
    <2>3. \A r \in Requests : pc[r] = "idle"
      BY DEF Init
    <2>4. pc \in [Requests -> PCs]
      BY DEF Init, PCs
    <2> QED
      BY <2>1, <2>2, <2>3, <2>4 DEF RowInv, PCs, WithKey, Deciding, Flipped
  <1>2. RowInv /\ [CallStep]_vars => RowInv'
    <2>1. RowInv /\ UNCHANGED vars => RowInv'
      BY DEF RowInv, PaymentsAreRows, Exists, vars, tables
    <2> QED
      BY <2>1, ArriveKeeps, ProceedKeeps DEF CallStep
  <1> QED
    BY <1>1, <1>2, PTL DEF CallSpec

(* A payment recorded under its key stays, and keeps its amount and its    *)
(* invoice, however many calls race.                                       *)
THEOREM PayloadStays == Spec => PayloadIsKept
  <1>1. RowInv /\ [Next]_<<vars, overlapped>> =>
            [\A k \in Keys : Exists(k) =>
                /\ payments'[k].status # "ABSENT"
                /\ payments'[k].amount = payments[k].amount
                /\ payments'[k].invoice = payments[k].invoice]_vars
    BY StepKeepsRows DEF KeepsRows, Exists, Next
  <1> QED
    BY SpecCalls, RowsStay, <1>1, PTL DEF Spec, PayloadIsKept

-----------------------------------------------------------------------------
(* Instalments *)

Planning == {"readPlan", "template", "number", "insert"}

IsInvoice(i) == i = [id |-> i.id, amount |-> i.amount, status |-> i.status,
                     type |-> i.type, no |-> i.no]

Numbered == {i \in invoices : i.no # 0}

(* The instalments are those of one plan: one of each number up to n. *)
PlanOf(rows, owner, n) ==
    /\ \A i \in rows : i.no \in 1 .. n /\ i.id[1] = owner
    /\ \A k \in 1 .. n : \E i \in rows : i.no = k
    /\ \A i, j \in rows : i.no = j.no => i = j

(* The inductive invariant: a second plan is turned down since every plan  *)
(* has a first instalment.                                                 *)
InstalmentsInv ==
    /\ pc \in [Requests -> PCs]
    /\ job = [r \in Requests |-> job[r]]
    /\ \A r \in Requests : pc[r] \in Planning => job[r].count \in Nat \ {0}
    /\ \A i \in invoices : IsInvoice(i)
    /\ \E n \in Nat : \E owner : PlanOf(Numbered, owner, n)

(* Invoices of a plan with no number for the whole fee, or numbered from 1.*)
LEMMA PlannedOnes ==
    ASSUME NEW owner, NEW type, NEW count \in Nat, NEW fee
    PROVE  LET new == PlannedInvoices(owner, type, count, fee)
           IN  /\ \A i \in new : IsInvoice(i)
               /\ type = "FULL" => \A i \in new : i.no = 0
               /\ type # "FULL" => PlanOf(new, owner, count) /\ \A i \in new : i.no # 0
  <1> DEFINE parts == SplitTotalEvenly(fee, count)
             row(k) == [id |-> <<owner, k>>, amount |-> parts[k], status |-> "PENDING",
                        type |-> type, no |-> IF type = "FULL" THEN 0 ELSE k]
             new == PlannedInvoices(owner, type, count, fee)
  <1>1. \A i : i \in new <=> \E k \in 1 .. count : i = row(k)
    BY DEF PlannedInvoices
  <1>2. \A k \in 1 .. count :
            /\ IsInvoice(row(k)) /\ row(k).id[1] = owner
            /\ row(k).no = IF type = "FULL" THEN 0 ELSE k
    BY DEF IsInvoice
  <1> HIDE DEF new, row
  <1>3. \A i \in new : IsInvoice(i) /\ i.id[1] = owner
    BY <1>1, <1>2
  <1>4. type = "FULL" => \A i \in new : i.no = 0
    BY <1>1, <1>2
  <1>5. ASSUME type # "FULL"
        PROVE  PlanOf(new, owner, count) /\ \A i \in new : i.no # 0
    <2>1. \A k \in 1 .. count : row(k).no = k /\ row(k) \in new
      BY <1>1, <1>2, <1>5
    <2>2. \A i \in new : \E k \in 1 .. count : i = row(k) /\ i.no = k
      BY <1>1, <2>1
    <2>3. \A i, j \in new : i.no = j.no => i = j
      BY <2>2
    <2> QED
      BY <1>3, <2>1, <2>2, <2>3 DEF PlanOf
  <1> QED
    BY <1>3, <1>4, <1>5 DEF new

(* A verification changes no more of an invoice than its status. *)
LEMMA MarkingKeeps ==
    ASSUME InstalmentsInv, NEW r \in Requests, invoices' = MarkedPaid(r)
    PROVE  /\ \A i \in invoices' : IsInvoice(i)
           /\ \E n \in Nat : \E owner : PlanOf(Numbered', owner, n)
  <1> DEFINE marked(i) == IF i.id = payments[job[r].key].invoice /\ covered[r]
                          THEN [i EXCEPT !.status = "PAID"] ELSE i
  <1>1. \A i : i \in invoices' <=> \E j \in invoices : i = marked(j)
    BY DEF MarkedPaid
  <1>2. ASSUME NEW i \in invoices
        PROVE  IsInvoice(marked(i)) /\ marked(i).no = i.no /\ marked(i).id = i.id
    <2>1. i = [id |-> i.id, amount |-> i.amount, status |-> i.status, type |-> i.type, no |-> i.no]
      BY DEF InstalmentsInv, IsInvoice
    <2>2. PICK paidOne : paidOne = [i EXCEPT !.status = "PAID"]
      OBVIOUS
    <2>3. paidOne = [id |-> i.id, amount |-> i.amount, status |-> "PAID", type |-> i.type, no |-> i.no]
      BY <2>1, <2>2
    <2>4. IsInvoice(paidOne) /\ paidOne.no = i.no /\ paidOne.id = i.id
      BY <2>3 DEF IsInvoice
    <2>5. marked(i) = paidOne \/ marked(i) = i
      BY <2>2
    <2> HIDE DEF marked
    <2> QED
      BY <2>4, <2>5 DEF InstalmentsInv
  <1> HIDE DEF marked
  <1>3. \A i \in invoices' : IsInvoice(i)
    BY <1>1, <1>2
  <1>4. \A i : i \in Numbered' <=> \E j \in Numbered : i = marked(j)
    BY <1>1, <1>2 DEF Numbered
  <1>5. PICK n \in Nat : \E owner : PlanOf(Numbered, owner, n)
    BY DEF InstalmentsInv
  <1>6. PICK owner : PlanOf(Numbered, owner, n)
    BY <1>5
  <1>7. \A i \in Numbered : i \in invoices
    BY DEF Numbered
  <1>8. PlanOf(Numbered', owner, n)
    <2>1. \A i \in Numbered' : i.no \in 1 .. n /\ i.id[1] = owner
      BY <1>2, <1>4, <1>6, <1>7 DEF PlanOf
    <2>2. \A k \in 1 .. n : \E i \in Numbered' : i.no = k
      BY <1>2, <1>4, <1>6, <1>7 DEF PlanOf
    <2>3. \A i, j \in Numbered' : i.no = j.no => i = j
      BY <1>2, <1>4, <1>6, <1>7 DEF PlanOf
    <2> QED
      BY <2>1, <2>2, <2>3 DEF PlanOf
  <1> QED
    BY <1>3, <1>8

(* The index lets instalments in only where there are none. *)
LEMMA InsertingKeeps ==
    ASSUME InstalmentsInv, NEW r \in Requests, InsertInvoices(r)
    PROVE  /\ \A i \in invoices' : IsInvoice(i)
           /\ \E n \in Nat : \E owner : PlanOf(Numbered', owner, n)
  <1> DEFINE type == job[r].type
             count == job[r].count
             new == PlannedInvoices(r, type, count, myTotal[r])
  <1>1. count \in Nat \ {0}
    BY DEF InstalmentsInv, InsertInvoices, Planning
  <1>2. invoices' = invoices \cup new
    BY DEF InsertInvoices
  <1>3. type # "FULL" => \A i \in invoices : i.no \notin 1 .. count
    BY DEF InsertInvoices, TakenInstalment
  <1> HIDE DEF type, count
  <1>4. /\ \A i \in new : IsInvoice(i)
        /\ type = "FULL" => \A i \in new : i.no = 0
        /\ type # "FULL" => PlanOf(new, r, count) /\ \A i \in new : i.no # 0
    BY <1>1, PlannedOnes
  <1> HIDE DEF new
  <1>5. \A i \in invoices' : IsInvoice(i)
    BY <1>2, <1>4 DEF InstalmentsInv
  <1>6. PICK n \in Nat : \E owner : PlanOf(Numbered, owner, n)
    BY DEF InstalmentsInv
  <1>7. PICK owner : PlanOf(Numbered, owner, n)
    BY <1>6
  <1>8. CASE type = "FULL"
    <2>1. Numbered' = Numbered
      BY <1>2, <1>4, <1>8 DEF Numbered
    <2> QED
      BY <1>5, <1>7, <2>1
  <1>9. CASE type # "FULL"
    <2>1. n = 0
      <3> SUFFICES ASSUME n # 0 PROVE FALSE
        OBVIOUS
      <3>1. 1 \in 1 .. n /\ 1 \in 1 .. count
        BY <1>1
      <3>2. PICK i \in Numbered : i.no = 1
        BY <1>7, <3>1 DEF PlanOf
      <3> QED
        BY <1>3, <1>9, <3>1, <3>2 DEF Numbered
    <2>2. Numbered = {}
      BY <1>7, <2>1 DEF PlanOf
    <2>3. Numbered' = new
      BY <1>2, <1>4, <1>9, <2>2 DEF Numbered
    <2> QED
      BY <1>1, <1>4, <1>5, <1>9, <2>3
  <1> QED
    BY <1>8, <1>9

(* Nothing else writes an invoice. *)
LEMMA InvoicesStay ==
    ASSUME NEW r \in Requests, Arrive(r) \/ Proceed(r) \/ Abort(r),
           ~CommitVerification(r), ~InsertInvoices(r)
    PROVE  UNCHANGED invoices
  <1>1. Arrive(r) => UNCHANGED invoices
    BY DEF Arrive, Record, Decide, SetFeeOverride, CreatePlan, Start, tables
  <1>2. CheckInvoice(r) \/ Lookup(r) \/ ReadPayment(r) \/ ReadTotal(r) \/ SumPaid(r)
        \/ ReadInvoice(r) \/ SumInvoice(r) => UNCHANGED invoices
    BY DEF CheckInvoice, Lookup, ReadPayment, ReadTotal, SumPaid, ReadInvoice, SumInvoice,
           Look, tables
  <1>3. ReadEnrolment(r) \/ ReadPlan(r) \/ FindTemplate(r) => UNCHANGED invoices
    BY DEF ReadEnrolment, ReadPlan, FindTemplate, Look, tables
  <1>4. FlipPayment(r) \/ UpdateTotals(r) \/ OverrideFee(r) => UNCHANGED invoices
    BY DEF FlipPayment, UpdateTotals, OverrideFee, tables
  <1>5. TakeInvoiceNumber(r) \/ CreatePayment(r) \/ RejectPayment(r) \/ RefuseInvoices(r)
        \/ Abort(r) => UNCHANGED invoices
    BY DEF TakeInvoiceNumber, CreatePayment, RejectPayment, RefuseInvoices, Abort, tables
  <1> QED
    BY <1>1, <1>2, <1>3, <1>4, <1>5 DEF Proceed

(* Nobody comes to be planning but by asking for a plan. *)
LEMMA PlanningGoesOn ==
    ASSUME NEW r \in Requests, Proceed(r) \/ Abort(r)
    PROVE  \E label \in PCs :
               /\ job' = job
               /\ pc' = [pc EXCEPT ![r] = label]
               /\ label \in Planning => pc[r] \in Planning
  <1> DEFINE Stays == \E label \in PCs :
                          /\ job' = job
                          /\ pc' = [pc EXCEPT ![r] = label]
                          /\ label \in Planning => pc[r] \in Planning
  <1>1. ASSUME NEW label \in PCs, label \notin Planning, job' = job,
               pc' = [pc EXCEPT ![r] = label]
        PROVE  Stays
    BY <1>1
  <1>2. ASSUME pc[r] \in Planning
        PROVE  Stays
    BY <1>2, ProceedGoesOn DEF GoesOn
  <1> HIDE DEF Stays
  <1>3. {"readTotal", "sumPaid", "updateTotals", "readInvoice", "sumInvoice", "commit",
         "lookup", "create", "flip", "reject", "override", "done", "refused", "aborted"}
            \subseteq PCs \ Planning
    BY DEF PCs, Planning, Flipped, Outside, InTransaction, Settled
  <1>4. CheckInvoice(r) \/ Lookup(r) \/ ReadPayment(r) => Stays
    BY <1>1, <1>3 DEF CheckInvoice, Lookup, ReadPayment, Look, Goto
  <1>5. ReadTotal(r) \/ SumPaid(r) \/ ReadInvoice(r) \/ SumInvoice(r) => Stays
    BY <1>1, <1>3 DEF ReadTotal, SumPaid, ReadInvoice, SumInvoice, Look, Goto
  <1>6. CreatePayment(r) \/ FlipPayment(r) \/ UpdateTotals(r) => Stays
    BY <1>1, <1>3 DEF CreatePayment, FlipPayment, UpdateTotals, Goto
  <1>7. RejectPayment(r) \/ CommitVerification(r) \/ OverrideFee(r) \/ InsertInvoices(r) => Stays
    BY <1>1, <1>3 DEF RejectPayment, CommitVerification, OverrideFee, InsertInvoices, Commit, Goto
  <1>8. ReadEnrolment(r) \/ RefuseInvoices(r) \/ Abort(r) => Stays
    BY <1>1, <1>3 DEF ReadEnrolment, RefuseInvoices, Abort, Look, Goto
  <1>9. ReadPlan(r) \/ FindTemplate(r) \/ TakeInvoiceNumber(r) => Stays
    BY <1>2 DEF ReadPlan, FindTemplate, TakeInvoiceNumber, Look, Planning
  <1> QED
    BY <1>4, <1>5, <1>6, <1>7, <1>8, <1>9 DEF Proceed, Stays

(* What is asked for when a plan is: at least one instalment. *)
LEMMA ArrivalPlans ==
    ASSUME InstalmentsInv, NEW r \in Requests, Arrive(r)
    PROVE  /\ pc' \in [Requests -> PCs]
           /\ job' = [q \in Requests |-> job'[q]]
           /\ \A q \in Requests : pc'[q] \in Planning => job'[q].count \in Nat \ {0}
  <1>1. ASSUME NEW label \in PCs, NEW new, job' = [job EXCEPT ![r] = new],
               pc' = [pc EXCEPT ![r] = label],
               label \in Planning => new.count \in Nat \ {0}
        PROVE  /\ pc' \in [Requests -> PCs]
               /\ job' = [q \in Requests |-> job'[q]]
               /\ \A q \in Requests : pc'[q] \in Planning => job'[q].count \in Nat \ {0}
    <2>1. pc' \in [Requests -> PCs] /\ job' = [q \in Requests |-> job'[q]]
      BY <1>1 DEF InstalmentsInv
    <2>2. /\ job'[r] = new /\ pc'[r] = label
          /\ \A q \in Requests \ {r} : job'[q] = job[q] /\ pc'[q] = pc[q]
      BY <1>1 DEF InstalmentsInv
    <2>3. \A q \in Requests : pc'[q] \in Planning => job'[q].count \in Nat \ {0}
      BY <1>1, <2>2 DEF InstalmentsInv
    <2> QED
      BY <2>1, <2>3
  <1>2. {"checkInvoice", "lookup", "readPayment", "readEnrolment"} \subseteq PCs \ Planning
        /\ "readPlan" \in PCs
    BY DEF PCs, Planning, Outside, InTransaction
  <1>3. CASE Record(r) \/ Decide(r) \/ SetFeeOverride(r)
    <2>1. PICK label \in PCs \ Planning : \E op, args : Start(r, op, args, label)
      BY <1>2, <1>3 DEF Record, Decide, SetFeeOverride
    <2>2. PICK op, args : Start(r, op, args, label)
      BY <2>1
    <2>3. PICK new : new = [args EXCEPT !.op = op]
      OBVIOUS
    <2>4. job' = [job EXCEPT ![r] = new] /\ pc' = [pc EXCEPT ![r] = label]
      BY <2>2, <2>3 DEF Start, Goto
    <2> QED
      BY <1>1, <2>4
  <1>4. CASE CreatePlan(r)
    <2>1. PICK p \in Plans :
              Start(r, "plan", [NoJob EXCEPT !.type = p[1], !.count = p[2]], "readPlan")
      BY <1>4 DEF CreatePlan
    <2>2. p[2] \in Nat \ {0}
      BY PlansAssumption
    <2>3. PICK typed : typed = [NoJob EXCEPT !.type = p[1]]
      OBVIOUS
    <2>4. PICK args : args = [typed EXCEPT !.count = p[2]]
      OBVIOUS
    <2>5. PICK new : new = [args EXCEPT !.op = "plan"]
      OBVIOUS
    <2>6. typed = [op |-> "none", key |-> NoKey, amount |-> 0, invoice |-> NoInvoice,
                   type |-> p[1], count |-> 1]
      BY <2>3 DEF NoJob
    <2>7. args = [op |-> "none", key |-> NoKey, amount |-> 0, invoice |-> NoInvoice,
                  type |-> p[1], count |-> p[2]]
      BY <2>4, <2>6
    <2>8. new.count = p[2]
      BY <2>5, <2>7
    <2>9. Start(r, "plan", args, "readPlan")
      <3>1. args = [NoJob EXCEPT !.type = p[1], !.count = p[2]]
        BY <2>3, <2>4, Zenon
      <3> QED
        BY <2>1, <3>1
    <2>10. job' = [job EXCEPT ![r] = new] /\ pc' = [pc EXCEPT ![r] = "readPlan"]
      BY <2>5, <2>9 DEF Start, Goto
    <2> QED
      BY <1>1, <1>2, <2>2, <2>8, <2>10
  <1> QED
    BY <1>3, <1>4 DEF Arrive

LEMMA InstalmentsInvariant == CallSpec => []InstalmentsInv
  <1>1. Init => InstalmentsInv
    <2> SUFFICES ASSUME Init PROVE InstalmentsInv
      OBVIOUS
    <2>1. pc \in [Requests -> PCs] /\ job = [r \in Requests |-> job[r]]
          /\ \A r \in Requests : pc[r] \notin Planning
      BY DEF Init, PCs, Planning
    <2>2. PICK start \in StartPlans :
              invoices = IF start = 0 THEN {} ELSE PlannedInvoices(Nobody, "MONTHLY", start, total)
      BY DEF Init
    <2>3. start \in Nat
      BY PlansAssumption
    <2>4. CASE start = 0
      <3>1. invoices = {} /\ Numbered = {}
        BY <2>2, <2>4 DEF Numbered
      <3>2. PlanOf(Numbered, Nobody, 0)
        BY <3>1 DEF PlanOf
      <3> QED
        BY <2>1, <3>1, <3>2 DEF InstalmentsInv
    <2>5. CASE start # 0
      <3>1. invoices = PlannedInvoices(Nobody, "MONTHLY", start, total)
        BY <2>2, <2>5
      <3>2. /\ \A i \in invoices : IsInvoice(i) /\ i.no # 0
            /\ PlanOf(invoices, Nobody, start)
        BY <2>3, <3>1, PlannedOnes
      <3>3. Numbered = invoices
        BY <3>2 DEF Numbered
      <3> QED
        BY <2>1, <2>3, <3>2, <3>3 DEF InstalmentsInv
    <2> QED
      BY <2>4, <2>5
  <1>2. ASSUME InstalmentsInv, [CallStep]_vars
        PROVE  InstalmentsInv'
    <2>1. CASE UNCHANGED vars
      BY <1>2, <2>1 DEF InstalmentsInv, Numbered, IsInvoice, PlanOf, vars, tables
    <2>2. ASSUME NEW r \in Requests, Arrive(r) \/ Proceed(r) \/ Abort(r)
          PROVE  InstalmentsInv'
      <3>1. /\ pc' \in [Requests -> PCs]
            /\ job' = [q \in Requests |-> job'[q]]
            /\ \A q \in Requests : pc'[q] \in Planning => job'[q].count \in Nat \ {0}
        <4>1. CASE Arrive(r)
          BY <1>2, <4>1, ArrivalPlans
        <4>2. CASE Proceed(r) \/ Abort(r)
          <5>1. PICK label \in PCs :
                    /\ job' = job
                    /\ pc' = [pc EXCEPT ![r] = label]
                    /\ label \in Planning => pc[r] \in Planning
            BY <4>2, PlanningGoesOn
          <5>2. \A q \in Requests : pc'[q] = IF q = r THEN label ELSE pc[q]
            BY <1>2, <5>1 DEF InstalmentsInv
          <5>3. pc' \in [Requests -> PCs]
            BY <1>2, <5>1 DEF InstalmentsInv
          <5> QED
            BY <1>2, <5>1, <5>2, <5>3 DEF InstalmentsInv
        <4> QED
          BY <2>2, <4>1, <4>2
      <3>2. /\ \A i \in invoices' : IsInvoice(i)
            /\ \E n \in Nat : \E owner : PlanOf(Numbered', owner, n)
        <4>1. CASE CommitVerification(r)
          BY <1>2, <4>1, MarkingKeeps DEF CommitVerification
        <4>2. CASE InsertInvoices(r)
          BY <1>2, <4>2, InsertingKeeps
        <4>3. CASE ~CommitVerification(r) /\ ~InsertInvoices(r)
          <5>1. invoices' = invoices
            BY <2>2, <4>3, InvoicesStay
          <5>2. Numbered' = Numbered
            BY <5>1 DEF Numbered
          <5> QED
            BY <1>2, <5>1, <5>2 DEF InstalmentsInv
        <4> QED
          BY <4>1, <4>2, <4>3
      <3> QED
        BY <3>1, <3>2 DEF InstalmentsInv, IsInvoice, PlanOf
    <2> QED
      BY <1>2, <2>1, <2>2 DEF CallStep
  <1> QED
    BY <1>1, <1>2, PTL DEF CallSpec

(* One row of each number from 1 to n are n rows. *)
LEMMA PlanCounts ==
    ASSUME NEW rows, NEW owner, NEW n \in Nat, PlanOf(rows, owner, n)
    PROVE  Cardinality(rows) = n
  <1> DEFINE numbers == [i \in rows |-> i.no]
             at == [k \in 1 .. n |-> CHOOSE i \in rows : i.no = k]
  <1>1. \A k \in 1 .. n : at[k] \in rows /\ at[k].no = k
    BY DEF PlanOf
  <1>2. \A i \in rows : i.no \in 1 .. n /\ at[i.no] = i
    BY <1>1 DEF PlanOf
  <1> HIDE DEF at
  <1>3. at \in [1 .. n -> rows]
    BY <1>1 DEF at
  <1>4. at \in Bijection(1 .. n, rows)
    <2>1. \A k, l \in 1 .. n : at[k] = at[l] => k = l
      BY <1>1
    <2>2. \A i \in rows : \E k \in 1 .. n : at[k] = i
      BY <1>2
    <2> QED
      BY <1>3, <2>1, <2>2 DEF Bijection, Injection, Surjection, IsInjective
  <1> QED
    BY <1>4, FS_CountingElements DEF ExistsBijection

(* Of plans made at once one plan's instalments stand, numbered from 1     *)
(* without a gap.                                                          *)
THEOREM OnePlanStands == Spec => []OneInstalmentPlan
  <1>1. ASSUME InstalmentsInv
        PROVE  OneInstalmentPlan
    <2>1. PICK n \in Nat : \E owner : PlanOf(Numbered, owner, n)
      BY <1>1 DEF InstalmentsInv
    <2>2. PICK owner : PlanOf(Numbered, owner, n)
      BY <2>1
    <2>3. Cardinality(Numbered) = n
      BY <2>2, PlanCounts
    <2>4. {i.no : i \in Numbered} = 1 .. n
      BY <2>2 DEF PlanOf
    <2>5. \A i, j \in Numbered : i.id[1] = j.id[1]
      BY <2>2 DEF PlanOf
    <2> QED
      BY <2>3, <2>4, <2>5 DEF OneInstalmentPlan, Numbered
  <1> QED
    BY SpecCalls, InstalmentsInvariant, <1>1, PTL

-----------------------------------------------------------------------------
(* Types *)

(* A finite set of integers has a greatest element. *)
LEMMA SomeGreatest ==
    ASSUME NEW S, \A x \in S : x \in Int, IsFiniteSet(S), S # {}
    PROVE  \E m \in S : \A x \in S : m >= x
  <1> DEFINE HasGreatest(s) == s # {} => \E m \in s : \A x \in s : m >= x
             T == {s \in SUBSET S : ~HasGreatest(s)}
  <1> HIDE DEF HasGreatest
  <1>1. T = {}
    <2> SUFFICES ASSUME T # {} PROVE FALSE
      OBVIOUS
    <2>1. PICK U \in T : \A V \in T : V \subseteq U => V = U
      <3>1. T \in SUBSET (SUBSET S)
        OBVIOUS
      <3> HIDE DEF T
      <3> QED
        BY <3>1, SmallestSubset
    <2>2. U \in SUBSET S /\ ~HasGreatest(U)
      OBVIOUS
    <2>3. PICK u : u \in U
      BY <2>2 DEF HasGreatest
    <2>4. HasGreatest(U \ {u})
      BY <2>1, <2>3
    <2>5. \A x \in U : x \in Int
      BY <2>2
    <2> HIDE DEF T
    <2>6. CASE U \ {u} = {}
      <3>1. \A x \in U : u >= x
        BY <2>3, <2>5, <2>6
      <3> QED
        BY <2>2, <2>3, <3>1 DEF HasGreatest
    <2>7. CASE U \ {u} # {}
      <3>1. PICK m \in U \ {u} : \A x \in U \ {u} : m >= x
        BY <2>4, <2>7 DEF HasGreatest
      <3>2. m >= u => \A x \in U : m >= x
        BY <3>1
      <3>3. u >= m => \A x \in U : u >= x
        <4> SUFFICES ASSUME u >= m, NEW x \in U PROVE u >= x
          OBVIOUS
        <4>1. u \in Int /\ m \in Int /\ x \in Int
          BY <2>3, <2>5, <3>1
        <4> QED
          BY <3>1, <4>1
      <3>4. m >= u \/ u >= m
        BY <2>3, <2>5, <3>1
      <3> QED
        BY <2>2, <2>3, <3>2, <3>3, <3>4 DEF HasGreatest
    <2> QED
      BY <2>6, <2>7
  <1>2. HasGreatest(S)
    BY <1>1
  <1> QED
    BY <1>2 DEF HasGreatest

(* No plan has more instalments than the bound says. *)
LEMMA CountsAreBounded ==
    /\ MaxCount \in Nat \ {0}
    /\ \A p \in Plans : p[2] \in 1 .. MaxCount
    /\ \A n \in StartPlans : n \in 0 .. MaxCount
  <1> DEFINE counts == {1} \cup StartPlans \cup {p[2] : p \in Plans}
  <1>1. IsFiniteSet(counts)
    <2>1. IsFiniteSet({p[2] : p \in Plans})
      <3> DEFINE T == {p[2] : p \in Plans}
                 count == [p \in Plans |-> p[2]]
      <3>1. count \in Surjection(Plans, T)
        BY DEF Surjection
      <3> QED
        BY <3>1, PlansAssumption, FS_Surjection DEF ExistsSurjection
    <2>2. IsFiniteSet({1} \cup StartPlans)
      BY PlansAssumption, FS_Union, FS_Singleton
    <2> QED
      BY <2>1, <2>2, FS_Union
  <1>2. \A x \in counts : x \in Int
    BY PlansAssumption
  <1>3. MaxCount \in counts /\ \A x \in counts : MaxCount >= x
    <2>1. \E m \in counts : \A x \in counts : m >= x
      <3>1. counts # {}
        OBVIOUS
      <3> HIDE DEF counts
      <3> QED
        BY <1>1, <1>2, <3>1, SomeGreatest
    <2>2. MaxCount = CHOOSE m \in counts : \A x \in counts : m >= x
      BY DEF MaxCount, Max
    <2> HIDE DEF counts
    <2> QED
      BY <2>1, <2>2
  <1>4. 1 \in counts /\ StartPlans \subseteq counts /\ \A p \in Plans : p[2] \in counts
    OBVIOUS
  <1> HIDE DEF counts
  <1>5. MaxCount \in Int /\ MaxCount >= 1
    BY <1>2, <1>3, <1>4
  <1>6. \A p \in Plans : p[2] \in Nat \ {0} /\ MaxCount >= p[2]
    BY <1>3, <1>4, PlansAssumption
  <1>7. \A n \in StartPlans : n \in Nat /\ MaxCount >= n
    BY <1>3, <1>4, PlansAssumption
  <1> QED
    BY <1>5, <1>6, <1>7

LEMMA KeysAreFinite == ASSUME NEW S \in SUBSET Keys PROVE IsFiniteSet(S)
  BY KeysAssumption, FS_Subset

(* What the payments of some keys are worth. *)
Rows == [Keys -> Payment \cup {NoPayment}]
Worth(rows) == [k \in Keys |-> rows[k].amount]

LEMMA ValueIsTotal ==
    ASSUME NEW rows, NEW S \in SUBSET Keys
    PROVE  Value(rows, S) = Total(Worth(rows), S)
  BY MapThenSumIsTotal DEF Value, Worth

LEMMA WorthIsNatural ==
    ASSUME NEW rows \in Rows
    PROVE  \A k \in Keys : Worth(rows)[k] = rows[k].amount /\ Worth(rows)[k] \in Nat
  BY DEF Rows, Worth, Payment, NoPayment

(* Sums of payments grow with the set and with the amounts. *)
LEMMA ValueGrows ==
    ASSUME NEW rows \in Rows, NEW later \in Rows, NEW S \in SUBSET Keys, NEW R \in SUBSET S,
           \A k \in R : rows[k].amount <= later[k].amount
    PROVE  Value(rows, R) \in Nat /\ Value(later, S) \in Nat /\ Value(rows, R) <= Value(later, S)
  <1>1. \A k \in R : /\ Worth(rows)[k] \in Nat /\ Worth(later)[k] \in Nat
                     /\ Worth(rows)[k] <= Worth(later)[k]
    BY WorthIsNatural
  <1>2. IsFiniteSet(R) /\ IsFiniteSet(S)
    BY KeysAreFinite
  <1>3. Total(Worth(rows), R) \in Nat
    BY <1>1, <1>2, TotalGrows
  <1>4. Total(Worth(rows), R) <= Total(Worth(later), R)
    BY <1>1, <1>2, TotalOfLarger
  <1>5. /\ Total(Worth(later), R) \in Nat /\ Total(Worth(later), S) \in Nat
        /\ Total(Worth(later), R) <= Total(Worth(later), S)
    <2>1. \A k \in S : Worth(later)[k] \in Nat
      BY WorthIsNatural
    <2> QED
      BY <1>2, <2>1, TotalGrows
  <1>6. Value(rows, R) = Total(Worth(rows), R) /\ Value(later, S) = Total(Worth(later), S)
    BY ValueIsTotal
  <1> QED
    BY <1>3, <1>4, <1>5, <1>6

LEMMA SameValue ==
    ASSUME NEW rows, NEW later, NEW S \in SUBSET Keys,
           \A k \in S : rows[k].amount = later[k].amount
    PROVE  Value(rows, S) = Value(later, S)
  <1>1. \A k \in S : Worth(rows)[k] = Worth(later)[k]
    BY DEF Worth
  <1> QED
    BY <1>1, SameTotal, ValueIsTotal

LEMMA FeesAreNatural ==
    ASSUME NEW override \in Nat \cup {NoFee}
    PROVE  ExpectedFee(override) \in Nat
  BY FeeAssumption DEF ExpectedFee, EnrolmentFee

LEMMA PlannedTypes ==
    ASSUME NEW owner \in Requests \cup {Nobody}, NEW type \in PlanTypes,
           NEW count \in 1 .. MaxCount, NEW fee \in Nat
    PROVE  PlannedInvoices(owner, type, count, fee) \subseteq Invoice
  <1>1. count \in Nat \ {0} /\ \A i \in 1 .. count : i \in 1 .. MaxCount /\ i \in 0 .. MaxCount
    BY CountsAreBounded
  <1>2. SplitTotalEvenly(fee, count) \in [1 .. count -> Nat]
    BY <1>1, SplitIsExact
  <1>3. \A i \in 1 .. count : <<owner, i>> \in InvoiceIds
    BY <1>1 DEF InvoiceIds
  <1>4. 0 \in 0 .. MaxCount
    BY CountsAreBounded
  <1>5. ASSUME NEW i \in 1 .. count
        PROVE  [id |-> <<owner, i>>, amount |-> SplitTotalEvenly(fee, count)[i],
                status |-> "PENDING", type |-> type,
                no |-> IF type = "FULL" THEN 0 ELSE i] \in Invoice
    <2>1. SplitTotalEvenly(fee, count)[i] \in Nat
      BY <1>2
    <2>2. (IF type = "FULL" THEN 0 ELSE i) \in 0 .. MaxCount
      BY <1>1, <1>4
    <2> QED
      BY <1>3, <2>1, <2>2 DEF Invoice
  <1>6. ASSUME NEW x \in PlannedInvoices(owner, type, count, fee) PROVE x \in Invoice
    <2>1. PICK i \in 1 .. count :
              x = [id |-> <<owner, i>>, amount |-> SplitTotalEvenly(fee, count)[i],
                   status |-> "PENDING", type |-> type, no |-> IF type = "FULL" THEN 0 ELSE i]
      BY <1>6 DEF PlannedInvoices
    <2> QED
      BY <1>5, <2>1
  <1> QED
    BY <1>6

LEMMA TypesAtFirst == Init => TypeOK
  <1> SUFFICES ASSUME Init PROVE TypeOK
    OBVIOUS
  <1>1. total \in Nat /\ paid \in Nat /\ balance \in Int
    <2>1. ExpectedFee(NoFee) \in Nat
      BY FeesAreNatural
    <2>2. total = ExpectedFee(NoFee) /\ paid = 0 /\ balance = total
      BY DEF Init
    <2> QED
      BY <2>1, <2>2
  <1>2. PICK start \in StartPlans :
            /\ planType \in IF start = 0 THEN PlanTypes ELSE {"MONTHLY"}
            /\ invoices = IF start = 0 THEN {}
                          ELSE PlannedInvoices(Nobody, "MONTHLY", start, total)
            /\ templates = IF start = 0 THEN {}
                           ELSE {[owner |-> Nobody, type |-> "MONTHLY", count |-> start]}
            /\ payments = [k \in Keys |->
                   IF \E p \in Recorded : p[1] = k
                   THEN LET p == CHOOSE p \in Recorded : p[1] = k
                        IN  [status |-> "PENDING_VERIFICATION", amount |-> p[2],
                             invoice |-> IF p[3] \in 1 .. start THEN <<Nobody, p[3]>> ELSE NoInvoice]
                   ELSE NoPayment]
    BY DEF Init
  <1>3. start \in 0 .. MaxCount /\ start \in Nat
    BY CountsAreBounded, PlansAssumption
  <1>4. planType \in PlanTypes
    BY <1>2 DEF PlanTypes
  <1>5. invoices \subseteq Invoice /\ templates \subseteq Template
    <2>1. CASE start = 0
      BY <1>2, <2>1
    <2>2. CASE start # 0
      <3>1. start \in 1 .. MaxCount /\ "MONTHLY" \in PlanTypes
        BY <1>3, <2>2, CountsAreBounded DEF PlanTypes
      <3>2. PlannedInvoices(Nobody, "MONTHLY", start, total) \subseteq Invoice
        BY <1>1, <3>1, PlannedTypes
      <3> QED
        BY <1>2, <2>2, <3>1, <3>2 DEF Template
    <2> QED
      BY <2>1, <2>2
  <1>6. payments \in [Keys -> Payment \cup {NoPayment}]
    <2>1. ASSUME NEW k \in Keys PROVE payments[k] \in Payment \cup {NoPayment}
      <3>1. CASE \E p \in Recorded : p[1] = k
        <4>1. PICK p \in Recorded : p = CHOOSE q \in Recorded : q[1] = k
          BY <3>1
        <4>2. payments[k] =
                [status |-> "PENDING_VERIFICATION", amount |-> p[2],
                 invoice |-> IF p[3] \in 1 .. start THEN <<Nobody, p[3]>> ELSE NoInvoice]
          BY <1>2, <3>1, <4>1
        <4>3. p[2] \in Nat
          BY RecordedAssumption, AmountsAssumption
        <4>4. p[3] \in 1 .. start => <<Nobody, p[3]>> \in InvoiceIds
          BY <1>3, CountsAreBounded DEF InvoiceIds
        <4> QED
          BY <4>2, <4>3, <4>4 DEF Payment
      <3>2. CASE ~\E p \in Recorded : p[1] = k
        BY <1>2, <3>2
      <3> QED
        BY <3>1, <3>2
    <2>2. DOMAIN payments = Keys /\ payments = [k \in Keys |-> payments[k]]
      BY <1>2
    <2> QED
      BY <2>1, <2>2
  <1>7. NoJob \in Job
    <2>1. 1 \in 1 .. MaxCount
      BY CountsAreBounded
    <2> QED
      BY <2>1 DEF NoJob, Job, PlanTypes
  <1>8. /\ paymentLock \in [Keys -> Requests \cup {Nobody}]
        /\ enrolmentLock \in Requests \cup {Nobody} /\ counterLock \in Requests \cup {Nobody}
        /\ pc \in [Requests -> {"idle"} \cup Outside \cup InTransaction \cup Settled]
        /\ job \in [Requests -> Job]
        /\ myTotal \in [Requests -> Nat] /\ myPaid \in [Requests -> Nat]
        /\ myPlanType \in [Requests -> PlanTypes] /\ myTemplate \in [Requests -> BOOLEAN]
        /\ covered \in [Requests -> BOOLEAN] /\ overlapped \in BOOLEAN
    BY <1>7 DEF Init, PlanTypes
  <1> QED
    BY <1>1, <1>4, <1>5, <1>6, <1>8 DEF TypeOK

(* A payment row changes its status, or is written anew. *)
LEMMA RowTypes ==
    ASSUME TypeOK, NEW k \in Keys, payments[k] \in Payment, NEW s \in {"COMPLETED", "FAILED"},
           payments' = [payments EXCEPT ![k] = [@ EXCEPT !.status = s]]
    PROVE  payments' \in [Keys -> Payment \cup {NoPayment}]
  <1>1. PICK row : row = [payments[k] EXCEPT !.status = s]
    OBVIOUS
  <1>2. row \in Payment
    BY <1>1 DEF Payment
  <1>3. payments' = [payments EXCEPT ![k] = row]
    BY <1>1
  <1> QED
    BY <1>2, <1>3 DEF TypeOK

LEMMA PresentRows ==
    ASSUME TypeOK, NEW k \in Keys, Exists(k)
    PROVE  payments[k] \in Payment
  BY DEF TypeOK, Exists, NoPayment

LEMMA MarkedTypes ==
    ASSUME TypeOK, NEW r \in Requests
    PROVE  MarkedPaid(r) \subseteq Invoice
  <1>1. ASSUME NEW i \in invoices PROVE [i EXCEPT !.status = "PAID"] \in Invoice
    BY DEF TypeOK, Invoice
  <1> QED
    BY <1>1 DEF MarkedPaid, TypeOK

LEMMA ReleasedTypes ==
    ASSUME TypeOK, NEW r \in Requests, ReleaseLocks(r)
    PROVE  /\ paymentLock' \in [Keys -> Requests \cup {Nobody}]
           /\ enrolmentLock' \in Requests \cup {Nobody}
           /\ counterLock' \in Requests \cup {Nobody}
  BY DEF TypeOK, ReleaseLocks

(* Everything a step changes but the program counters. *)
RestTyped ==
    /\ payments \in [Keys -> Payment \cup {NoPayment}]
    /\ invoices \subseteq Invoice
    /\ templates \subseteq Template
    /\ total \in Nat /\ paid \in Nat /\ balance \in Int
    /\ planType \in PlanTypes
    /\ paymentLock \in [Keys -> Requests \cup {Nobody}]
    /\ enrolmentLock \in Requests \cup {Nobody}
    /\ counterLock \in Requests \cup {Nobody}
    /\ job \in [Requests -> Job]
    /\ myTotal \in [Requests -> Nat]
    /\ myPaid \in [Requests -> Nat]
    /\ myPlanType \in [Requests -> PlanTypes]
    /\ myTemplate \in [Requests -> BOOLEAN]
    /\ covered \in [Requests -> BOOLEAN]

(* What is recorded is worth something. *)
AmountsRecorded == \A r \in Requests : pc[r] \in Outside => job[r].amount \in Nat

(* A call arrives with what it is asked to do. *)
Arrived(r, new, label) ==
    /\ UNCHANGED <<tables, locks, reads>>
    /\ pc[r] = "idle"
    /\ job' = [job EXCEPT ![r] = new]
    /\ pc' = [pc EXCEPT ![r] = label]
    /\ label \in {"checkInvoice", "lookup", "readPayment", "readEnrolment", "readPlan"}
    /\ label \in Outside => new.amount \in Nat
    /\ new.op \in {"verify", "reject"} => label \in Deciding
    /\ new.invoice = NoInvoice \/ \E i \in invoices : i.id = new.invoice

LEMMA JobFields ==
    ASSUME NEW key \in Keys \cup {NoKey}, NEW amount \in Nat \cup {NoFee},
           NEW id \in InvoiceIds \cup {NoInvoice}, NEW type \in PlanTypes,
           NEW count \in 1 .. MaxCount, NEW op \in AllOps, NEW args,
           args = [op |-> "none", key |-> key, amount |-> amount, invoice |-> id,
                   type |-> type, count |-> count],
           NEW new, new = [args EXCEPT !.op = op]
    PROVE  /\ new \in Job
           /\ new.key = key /\ new.amount = amount /\ new.invoice = id
           /\ new.type = type /\ new.count = count /\ new.op = op
  <1>1. new = [op |-> op, key |-> key, amount |-> amount, invoice |-> id,
               type |-> type, count |-> count]
    OBVIOUS
  <1> QED
    BY <1>1 DEF Job

LEMMA Arrivals ==
    ASSUME TypeOK, NEW r \in Requests, Arrive(r)
    PROVE  \E new \in Job : \E label : Arrived(r, new, label)
  <1>1. 1 \in 1 .. MaxCount /\ "FULL" \in PlanTypes /\ 0 \in Nat
        /\ {"record", "verify", "reject", "override", "plan"} \subseteq AllOps
    BY CountsAreBounded DEF PlanTypes, AllOps
  <1>2. CASE Record(r)
    <2>1. PICK k \in Keys, a \in Amounts, id \in {i.id : i \in invoices} \cup {NoInvoice} :
              Start(r, "record", [NoJob EXCEPT !.key = k, !.amount = a, !.invoice = id],
                    IF id = NoInvoice THEN "lookup" ELSE "checkInvoice")
      BY <1>2 DEF Record
    <2>2. a \in Nat /\ id \in InvoiceIds \cup {NoInvoice}
          /\ (id = NoInvoice \/ \E i \in invoices : i.id = id)
      BY AmountsAssumption DEF TypeOK, Invoice
    <2>3. PICK args : args = [NoJob EXCEPT !.key = k, !.amount = a, !.invoice = id]
      OBVIOUS
    <2>4. args = [op |-> "none", key |-> k, amount |-> a, invoice |-> id,
                  type |-> "FULL", count |-> 1]
      <3>1. PICK keyed : keyed = [NoJob EXCEPT !.key = k]
        OBVIOUS
      <3>2. PICK priced : priced = [keyed EXCEPT !.amount = a]
        OBVIOUS
      <3>3. keyed = [op |-> "none", key |-> k, amount |-> 0, invoice |-> NoInvoice,
                     type |-> "FULL", count |-> 1]
        BY <3>1 DEF NoJob
      <3>4. priced = [op |-> "none", key |-> k, amount |-> a, invoice |-> NoInvoice,
                      type |-> "FULL", count |-> 1]
        BY <3>2, <3>3
      <3>5. args = [priced EXCEPT !.invoice = id]
        BY <2>3, <3>1, <3>2, Zenon
      <3> QED
        BY <3>4, <3>5
    <2>5. PICK new : new = [args EXCEPT !.op = "record"]
      OBVIOUS
    <2>6. new \in Job /\ new.amount = a /\ new.invoice = id /\ new.op = "record"
      BY <1>1, <2>2, <2>4, <2>5, JobFields
    <2>7. PICK label : label = IF id = NoInvoice THEN "lookup" ELSE "checkInvoice"
      OBVIOUS
    <2>8. Arrived(r, new, label)
      BY <2>1, <2>2, <2>3, <2>5, <2>6, <2>7 DEF Arrived, Start, Goto
    <2> QED
      BY <2>6, <2>8
  <1>3. CASE Decide(r)
    <2>1. PICK k \in Keys, op \in {"verify", "reject"} :
              Start(r, op, [NoJob EXCEPT !.key = k], "readPayment")
      BY <1>3 DEF Decide
    <2>2. PICK args : args = [NoJob EXCEPT !.key = k]
      OBVIOUS
    <2>3. args = [op |-> "none", key |-> k, amount |-> 0, invoice |-> NoInvoice,
                  type |-> "FULL", count |-> 1]
      BY <2>2 DEF NoJob
    <2>4. PICK new : new = [args EXCEPT !.op = op]
      OBVIOUS
    <2>5. new \in Job /\ new.invoice = NoInvoice
      BY <1>1, <2>3, <2>4, JobFields
    <2>6. Arrived(r, new, "readPayment")
      BY <2>1, <2>2, <2>4, <2>5 DEF Arrived, Start, Goto, Outside, Deciding
    <2> QED
      BY <2>5, <2>6
  <1>4. CASE SetFeeOverride(r)
    <2>1. PICK a \in Overrides : Start(r, "override", [NoJob EXCEPT !.amount = a], "readEnrolment")
      BY <1>4 DEF SetFeeOverride
    <2>2. PICK args : args = [NoJob EXCEPT !.amount = a]
      OBVIOUS
    <2>3. args = [op |-> "none", key |-> NoKey, amount |-> a, invoice |-> NoInvoice,
                  type |-> "FULL", count |-> 1]
      BY <2>2 DEF NoJob
    <2>4. PICK new : new = [args EXCEPT !.op = "override"]
      OBVIOUS
    <2>5. new \in Job /\ new.invoice = NoInvoice /\ new.op = "override"
      BY <1>1, <2>3, <2>4, JobFields, FeeAssumption
    <2>6. Arrived(r, new, "readEnrolment")
      BY <2>1, <2>2, <2>4, <2>5 DEF Arrived, Start, Goto, Outside
    <2> QED
      BY <2>5, <2>6
  <1>5. CASE CreatePlan(r)
    <2>1. PICK p \in Plans :
              Start(r, "plan", [NoJob EXCEPT !.type = p[1], !.count = p[2]], "readPlan")
      BY <1>5 DEF CreatePlan
    <2>2. p[1] \in PlanTypes /\ p[2] \in 1 .. MaxCount
      BY PlansAssumption, CountsAreBounded
    <2>3. PICK args : args = [NoJob EXCEPT !.type = p[1], !.count = p[2]]
      OBVIOUS
    <2>4. args = [op |-> "none", key |-> NoKey, amount |-> 0, invoice |-> NoInvoice,
                  type |-> p[1], count |-> p[2]]
      <3>1. PICK typed : typed = [NoJob EXCEPT !.type = p[1]]
        OBVIOUS
      <3>2. typed = [op |-> "none", key |-> NoKey, amount |-> 0, invoice |-> NoInvoice,
                     type |-> p[1], count |-> 1]
        BY <3>1 DEF NoJob
      <3>3. args = [typed EXCEPT !.count = p[2]]
        BY <2>3, <3>1, Zenon
      <3> QED
        BY <3>2, <3>3
    <2>5. PICK new : new = [args EXCEPT !.op = "plan"]
      OBVIOUS
    <2>6. new \in Job /\ new.invoice = NoInvoice /\ new.op = "plan"
      BY <1>1, <2>2, <2>4, <2>5, JobFields
    <2>7. Arrived(r, new, "readPlan")
      BY <2>1, <2>3, <2>5, <2>6 DEF Arrived, Start, Goto, Outside
    <2> QED
      BY <2>6, <2>7
  <1> QED
    BY <1>2, <1>3, <1>4, <1>5 DEF Arrive

LEMMA ArrivalTypes ==
    ASSUME TypeOK, NEW r \in Requests, Arrive(r)
    PROVE  RestTyped'
  <1>1. PICK new \in Job : \E label : Arrived(r, new, label)
    BY Arrivals
  <1>2. UNCHANGED <<tables, locks, reads>> /\ job' = [job EXCEPT ![r] = new]
    BY <1>1 DEF Arrived
  <1> QED
    BY <1>2 DEF TypeOK, RestTyped, tables, locks, reads

LEMMA ProceedTypes ==
    ASSUME TypeOK, RowInv, AmountsRecorded, NEW r \in Requests, Proceed(r) \/ Abort(r)
    PROVE  RestTyped'
  <1>0. /\ job[r] \in Job
        /\ pc[r] \in WithKey => job[r].key \in Keys
        /\ pc[r] \in Deciding => payments[job[r].key] \in Payment
        /\ pc[r] \in Outside => job[r].amount \in Nat
    BY PresentRows DEF TypeOK, RowInv, AmountsRecorded, WithKey
  <1> USE DEF tables, locks, reads
  <1>1. CASE CheckInvoice(r) \/ Lookup(r) \/ ReadPayment(r)
    BY <1>1 DEF CheckInvoice, Lookup, ReadPayment, Look, TypeOK, RestTyped
  <1>2. CASE CreatePayment(r)
    <2>1. CASE Exists(job[r].key)
      BY <1>2, <2>1 DEF CreatePayment, TypeOK, RestTyped
    <2>2. CASE ~Exists(job[r].key)
      <3>1. job[r].key \in Keys
        BY <1>0, <1>2 DEF CreatePayment, WithKey
      <3>2. PICK row : row = [status |-> "PENDING_VERIFICATION", amount |-> job[r].amount,
                              invoice |-> job[r].invoice]
        OBVIOUS
      <3>3. payments' = [payments EXCEPT ![job[r].key] = row]
        BY <1>2, <2>2, <3>2 DEF CreatePayment
      <3>4. row \in Payment
        <4>1. job[r].amount \in Nat /\ job[r].invoice \in InvoiceIds \cup {NoInvoice}
          BY <1>0, <1>2 DEF CreatePayment, Outside, Job
        <4> QED
          BY <3>2, <4>1 DEF Payment
      <3>5. payments' \in [Keys -> Payment \cup {NoPayment}]
        BY <3>1, <3>3, <3>4 DEF TypeOK
      <3> QED
        BY <1>2, <3>5 DEF CreatePayment, TypeOK, RestTyped
    <2> QED
      BY <2>1, <2>2
  <1>3. CASE FlipPayment(r)
    BY <1>3 DEF FlipPayment, TypeOK, RestTyped
  <1>4. CASE RejectPayment(r)
    <2>1. pc[r] \in WithKey /\ pc[r] \in Deciding
      BY <1>4 DEF RejectPayment, WithKey, Deciding
    <2>2. payments' \in [Keys -> Payment \cup {NoPayment}]
      BY <1>0, <1>4, <2>1, RowTypes DEF RejectPayment
    <2> QED
      BY <1>4, <2>2, ReleasedTypes DEF RejectPayment, Commit, TypeOK, RestTyped
  <1>5. CASE ReadTotal(r)
    BY <1>5 DEF ReadTotal, Look, TypeOK, RestTyped
  <1>6. CASE SumPaid(r)
    <2>1. CompletedSeenBy(r) \in SUBSET Keys
      BY DEF CompletedSeenBy
    <2>2. SumOf(CompletedSeenBy(r)) \in Nat
      <3>1. payments \in Rows /\ \A k \in Keys : payments[k].amount <= payments[k].amount
        BY DEF TypeOK, Rows, Payment, NoPayment
      <3>2. Value(payments, CompletedSeenBy(r)) \in Nat
        BY <2>1, <3>1, ValueGrows
      <3> QED
        BY <3>2 DEF SumOf
    <2> QED
      BY <1>6, <2>2 DEF SumPaid, Look, TypeOK, RestTyped
  <1>7. CASE UpdateTotals(r)
    BY <1>7 DEF UpdateTotals, TypeOK, RestTyped
  <1>8. CASE ReadInvoice(r)
    BY <1>8 DEF ReadInvoice, Look, TypeOK, RestTyped
  <1>9. CASE SumInvoice(r)
    BY <1>9 DEF SumInvoice, Look, TypeOK, RestTyped
  <1>10. CASE CommitVerification(r)
    <2>1. pc[r] \in WithKey /\ pc[r] \in Deciding
      BY <1>10 DEF CommitVerification, WithKey, Deciding, Flipped
    <2>2. payments' \in [Keys -> Payment \cup {NoPayment}]
      BY <1>0, <1>10, <2>1, RowTypes DEF CommitVerification
    <2>3. paid' \in Nat /\ balance' \in Int /\ invoices' \subseteq Invoice
      BY <1>10, MarkedTypes DEF CommitVerification, TypeOK
    <2> QED
      BY <1>10, <2>2, <2>3, ReleasedTypes DEF CommitVerification, Commit, TypeOK, RestTyped
  <1>11. CASE ReadEnrolment(r)
    BY <1>11 DEF ReadEnrolment, Look, TypeOK, RestTyped
  <1>12. CASE OverrideFee(r)
    <2>1. total' \in Nat
      BY <1>0, <1>12, FeesAreNatural DEF OverrideFee, Job
    <2>2. balance' \in Int
      BY <1>12, <2>1 DEF OverrideFee, TypeOK
    <2> QED
      BY <1>12, <2>1, <2>2, ReleasedTypes DEF OverrideFee, Commit, TypeOK, RestTyped
  <1>13. CASE ReadPlan(r)
    BY <1>13 DEF ReadPlan, Look, TypeOK, RestTyped
  <1>14. CASE FindTemplate(r)
    BY <1>14 DEF FindTemplate, Look, TypeOK, RestTyped
  <1>15. CASE TakeInvoiceNumber(r)
    BY <1>15 DEF TakeInvoiceNumber, TypeOK, RestTyped
  <1>16. CASE InsertInvoices(r)
    <2>1. job[r].type \in PlanTypes /\ job[r].count \in 1 .. MaxCount /\ myTotal[r] \in Nat
      BY <1>0 DEF Job, TypeOK
    <2>2. invoices' \subseteq Invoice
      BY <1>16, <2>1, PlannedTypes DEF InsertInvoices, TypeOK
    <2>3. templates' \subseteq Template /\ planType' \in PlanTypes
      BY <1>16, <2>1 DEF InsertInvoices, TypeOK, Template
    <2> QED
      BY <1>16, <2>2, <2>3, ReleasedTypes DEF InsertInvoices, Commit, TypeOK, RestTyped
  <1>17. CASE RefuseInvoices(r) \/ Abort(r)
    BY <1>17, ReleasedTypes DEF RefuseInvoices, Abort, TypeOK, RestTyped
  <1> QED
    BY <1>1, <1>2, <1>3, <1>4, <1>5, <1>6, <1>7, <1>8, <1>9, <1>10, <1>11, <1>12, <1>13,
       <1>14, <1>15, <1>16, <1>17 DEF Proceed

LEMMA RecordingKeeps ==
    ASSUME TypeOK, AmountsRecorded, CallStep
    PROVE  AmountsRecorded'
  <1>1. PICK r \in Requests : Arrive(r) \/ Proceed(r) \/ Abort(r)
    BY DEF CallStep
  <1>2. CASE Arrive(r)
    <2>1. PICK new \in Job : \E label : Arrived(r, new, label)
      BY <1>2, Arrivals
    <2>2. PICK label : Arrived(r, new, label)
      BY <2>1
    <2>3. /\ job'[r] = new /\ pc'[r] = label
          /\ \A q \in Requests \ {r} : job'[q] = job[q] /\ pc'[q] = pc[q]
      BY <2>2 DEF Arrived, TypeOK
    <2>4. label \in Outside => new.amount \in Nat
      BY <2>2 DEF Arrived
    <2> QED
      BY <2>3, <2>4 DEF AmountsRecorded
  <1>3. CASE Proceed(r) \/ Abort(r)
    <2>1. PICK label \in PCs : GoesOn(r, label)
      BY <1>3, ProceedGoesOn
    <2>2. job' = job /\ \A q \in Requests : pc'[q] \in Outside => pc[q] \in Outside
      BY <2>1 DEF GoesOn, TypeOK
    <2> QED
      BY <2>2 DEF AmountsRecorded
  <1> QED
    BY <1>1, <1>2, <1>3

LEMMA TypesInvariant == CallSpec => [](TypeOK /\ AmountsRecorded)
  <1>1. Init => AmountsRecorded
    BY DEF Init, AmountsRecorded, Outside
  <1>2. ASSUME TypeOK, AmountsRecorded, RowInv, InstalmentsInv', [CallStep]_vars,
               OverlapTyped'
        PROVE  TypeOK' /\ AmountsRecorded'
    <2>1. pc' \in [Requests -> {"idle"} \cup Outside \cup InTransaction \cup Settled]
      BY <1>2 DEF InstalmentsInv, PCs
    <2>2. RestTyped'
      <3>1. CASE UNCHANGED vars
        BY <1>2, <3>1 DEF TypeOK, RestTyped, vars, tables, locks, reads
      <3>2. CASE CallStep
        BY <1>2, <3>2, ArrivalTypes, ProceedTypes DEF CallStep
      <3> QED
        BY <1>2, <3>1, <3>2
    <2>3. overlapped' \in BOOLEAN
      BY <1>2 DEF OverlapTyped
    <2>4. AmountsRecorded'
      <3>1. CASE UNCHANGED vars
        BY <1>2, <3>1 DEF AmountsRecorded, vars
      <3> QED
        BY <1>2, <3>1, RecordingKeeps
    <2> QED
      BY <2>1, <2>2, <2>3, <2>4 DEF TypeOK, RestTyped
  <1> QED
    BY TypesAtFirst, RowsStay, InstalmentsInvariant, <1>1, <1>2, PTL DEF CallSpec

(* Money stays in whole amounts, none of them negative; a payment, an      *)
(* invoice and a plan keep the columns their tables have.                  *)
THEOREM LedgerIsTyped == Spec => []TypeOK
  BY SpecCalls, TypesInvariant, PTL

-----------------------------------------------------------------------------
(* Whose money counts *)

(* A step writes what its own call read, and the other calls keep theirs.  *)
Others(r) ==
    \A q \in Requests \ {r} :
        pc'[q] = pc[q] /\ job'[q] = job[q] /\ myTotal'[q] = myTotal[q]
        /\ myPaid'[q] = myPaid[q] /\ covered'[q] = covered[q]

LEMMA OthersStay ==
    ASSUME TypeOK, NEW r \in Requests, Arrive(r) \/ Proceed(r) \/ Abort(r)
    PROVE  Others(r)
  <1>1. CASE Arrive(r)
    <2>1. PICK new \in Job : \E label : Arrived(r, new, label)
      BY <1>1, Arrivals
    <2> QED
      BY <2>1 DEF Arrived, Others, TypeOK, reads
  <1>2. CASE Proceed(r) \/ Abort(r)
    <2>1. \A q \in Requests \ {r} : pc'[q] = pc[q] /\ job'[q] = job[q]
      BY <1>2, ProceedGoesOn DEF GoesOn, TypeOK
    <2>2. \A q \in Requests \ {r} : myTotal'[q] = myTotal[q] /\ myPaid'[q] = myPaid[q]
                                    /\ covered'[q] = covered[q]
      <3>1. CASE CheckInvoice(r) \/ Lookup(r) \/ ReadPayment(r) \/ ReadInvoice(r)
        BY <3>1 DEF CheckInvoice, Lookup, ReadPayment, ReadInvoice, reads
      <3>2. CASE CreatePayment(r) \/ FlipPayment(r) \/ UpdateTotals(r) \/ TakeInvoiceNumber(r)
                 \/ RefuseInvoices(r) \/ Abort(r)
        BY <3>2 DEF CreatePayment, FlipPayment, UpdateTotals, TakeInvoiceNumber, RefuseInvoices,
           Abort, reads
      <3>3. CASE RejectPayment(r) \/ CommitVerification(r) \/ OverrideFee(r) \/ InsertInvoices(r)
        BY <3>3 DEF RejectPayment, CommitVerification, OverrideFee, InsertInvoices, Commit, reads
      <3>4. CASE ReadTotal(r) \/ SumPaid(r) \/ SumInvoice(r)
        BY <3>4 DEF ReadTotal, SumPaid, SumInvoice, TypeOK
      <3>5. CASE ReadEnrolment(r) \/ ReadPlan(r) \/ FindTemplate(r)
        BY <3>5 DEF ReadEnrolment, ReadPlan, FindTemplate, TypeOK
      <3> QED
        BY <1>2, <3>1, <3>2, <3>3, <3>4, <3>5 DEF Proceed
    <2> QED
      BY <2>1, <2>2 DEF Others
  <1> QED
    BY <1>1, <1>2

(* A link leads to an invoice, and an invoice to one owner's plan: the one *)
(* made before, or that of a call that is done.                            *)
LinkInv ==
    /\ \A k \in Keys :
          payments[k].invoice # NoInvoice => \E i \in invoices : i.id = payments[k].invoice
    /\ \A r \in Requests :
          job[r].invoice # NoInvoice => \E i \in invoices : i.id = job[r].invoice
    /\ \A i, j \in invoices : i.id = j.id => i = j
    /\ \A i \in invoices : i.id[1] # Nobody => pc[i.id[1]] = "done"

(* What a step does to the invoices: each stays but may be marked by a     *)
(* verification that covers it, and a plan's are added by the call making  *)
(* it.                                                                     *)
Marks(r, i) ==
    CommitVerification(r) /\ i.id = payments[job[r].key].invoice /\ covered[r]

InvoicesStep(r) ==
    /\ \A i \in invoices : \E j \in invoices' :
          j.id = i.id /\ j.amount = i.amount
          /\ j.status = IF Marks(r, i) THEN "PAID" ELSE i.status
    /\ \A j \in invoices' :
          \/ \E i \in invoices :
                j.id = i.id /\ j.amount = i.amount
                /\ j.status = IF Marks(r, i) THEN "PAID" ELSE i.status
          \/ InsertInvoices(r) /\ j.id[1] = r /\ j.status = "PENDING"
    /\ LinkInv => \A i, j \in invoices' : i.id = j.id => i = j

LEMMA InvoicesStepHolds ==
    ASSUME TypeOK, LinkInv, NEW r \in Requests, Arrive(r) \/ Proceed(r) \/ Abort(r)
    PROVE  InvoicesStep(r)
  <1>1. CASE CommitVerification(r)
    <2> DEFINE marked(i) == IF i.id = payments[job[r].key].invoice /\ covered[r]
                            THEN [i EXCEPT !.status = "PAID"] ELSE i
    <2>1. \A i : i \in invoices' <=> \E j \in invoices : i = marked(j)
      BY <1>1 DEF CommitVerification, MarkedPaid
    <2>2. ASSUME NEW i \in invoices
          PROVE  /\ marked(i).id = i.id /\ marked(i).amount = i.amount
                 /\ marked(i).status = IF Marks(r, i) THEN "PAID" ELSE i.status
      <3>1. i \in Invoice
        BY DEF TypeOK
      <3>2. PICK paidOne : paidOne = [i EXCEPT !.status = "PAID"]
        OBVIOUS
      <3>3. paidOne.id = i.id /\ paidOne.amount = i.amount /\ paidOne.status = "PAID"
        BY <3>1, <3>2 DEF Invoice
      <3>4. marked(i) = IF Marks(r, i) THEN paidOne ELSE i
        BY <1>1, <3>2 DEF Marks
      <3> HIDE DEF marked
      <3> QED
        BY <3>3, <3>4
    <2> HIDE DEF marked
    <2>3. \A i, j \in invoices' : i.id = j.id => i = j
      BY <2>1, <2>2 DEF LinkInv
    <2> QED
      BY <2>1, <2>2, <2>3 DEF InvoicesStep
  <1>2. CASE InsertInvoices(r)
    <2> DEFINE new == PlannedInvoices(r, job[r].type, job[r].count, myTotal[r])
    <2>1. invoices' = invoices \cup new /\ ~CommitVerification(r) /\ pc[r] = "insert"
      BY <1>2 DEF InsertInvoices, CommitVerification
    <2>2. ASSUME NEW i \in new
          PROVE  \E n \in 1 .. job[r].count :
                    i = [id |-> <<r, n>>, amount |-> SplitTotalEvenly(myTotal[r], job[r].count)[n],
                         status |-> "PENDING", type |-> job[r].type,
                         no |-> IF job[r].type = "FULL" THEN 0 ELSE n]
      BY DEF PlannedInvoices
    <2> HIDE DEF new
    <2>3. \A i \in new : i.id[1] = r /\ i.status = "PENDING"
      BY <2>2
    <2>4. \A i, j \in new : i.id = j.id => i = j
      <3> SUFFICES ASSUME NEW i \in new, NEW j \in new, i.id = j.id PROVE i = j
        OBVIOUS
      <3>1. PICK n \in 1 .. job[r].count :
                    i = [id |-> <<r, n>>, amount |-> SplitTotalEvenly(myTotal[r], job[r].count)[n],
                         status |-> "PENDING", type |-> job[r].type,
                         no |-> IF job[r].type = "FULL" THEN 0 ELSE n]
        BY <2>2
      <3>2. PICK m \in 1 .. job[r].count :
                    j = [id |-> <<r, m>>, amount |-> SplitTotalEvenly(myTotal[r], job[r].count)[m],
                         status |-> "PENDING", type |-> job[r].type,
                         no |-> IF job[r].type = "FULL" THEN 0 ELSE m]
        BY <2>2
      <3>3. m = n
        BY <3>1, <3>2
      <3> QED
        BY <3>1, <3>2, <3>3
    <2>5. \A i \in invoices : i.id[1] # r
      BY <2>1, RequestsAssumption DEF LinkInv
    <2>6. \A i, j \in invoices' : i.id = j.id => i = j
      BY <2>1, <2>3, <2>4, <2>5 DEF LinkInv
    <2> QED
      BY <1>2, <2>1, <2>3, <2>6 DEF InvoicesStep, Marks
  <1>3. CASE ~CommitVerification(r) /\ ~InsertInvoices(r)
    <2>1. invoices' = invoices
      BY <1>3, InvoicesStay
    <2> QED
      BY <1>3, <2>1 DEF InvoicesStep, Marks, LinkInv
  <1> QED
    BY <1>1, <1>2, <1>3

LEMMA LinksAtFirst == Init => LinkInv
  <1> SUFFICES ASSUME Init PROVE LinkInv
    OBVIOUS
  <1>1. \A r \in Requests : job[r].invoice = NoInvoice
    BY DEF Init, NoJob
  <1>2. PICK start \in StartPlans :
            /\ invoices = IF start = 0 THEN {}
                          ELSE PlannedInvoices(Nobody, "MONTHLY", start, total)
            /\ payments = [k \in Keys |->
                   IF \E p \in Recorded : p[1] = k
                   THEN LET p == CHOOSE p \in Recorded : p[1] = k
                        IN  [status |-> "PENDING_VERIFICATION", amount |-> p[2],
                             invoice |-> IF p[3] \in 1 .. start THEN <<Nobody, p[3]>> ELSE NoInvoice]
                   ELSE NoPayment]
    BY DEF Init
  <1>3. start \in Nat
    BY PlansAssumption
  <1> DEFINE row(n) == [id |-> <<Nobody, n>>, amount |-> SplitTotalEvenly(total, start)[n],
                        status |-> "PENDING", type |-> "MONTHLY",
                        no |-> IF "MONTHLY" = "FULL" THEN 0 ELSE n]
  <1>4. start # 0 => \A i : i \in invoices <=> \E n \in 1 .. start : i = row(n)
    BY <1>2 DEF PlannedInvoices
  <1>5. \A n : row(n).id = <<Nobody, n>>
    OBVIOUS
  <1> HIDE DEF row
  <1>6. /\ \A i, j \in invoices : i.id = j.id => i = j
        /\ \A i \in invoices : i.id[1] = Nobody
    <2>1. CASE start = 0
      BY <1>2, <2>1
    <2>2. CASE start # 0
      <3>1. ASSUME NEW i \in invoices, NEW j \in invoices, i.id = j.id
            PROVE  i = j
        <4>1. PICK n \in 1 .. start : i = row(n)
          BY <1>4, <2>2
        <4>2. PICK m \in 1 .. start : j = row(m)
          BY <1>4, <2>2
        <4>3. n = m
          BY <1>5, <3>1, <4>1, <4>2
        <4> QED
          BY <4>1, <4>2, <4>3
      <3> QED
        BY <1>4, <1>5, <2>2, <3>1
    <2> QED
      BY <2>1, <2>2
  <1>7. ASSUME NEW k \in Keys, payments[k].invoice # NoInvoice
        PROVE  \E i \in invoices : i.id = payments[k].invoice
    <2>1. \E p \in Recorded : p[1] = k
      BY <1>2, <1>7 DEF NoPayment
    <2>2. PICK p : p = CHOOSE q \in Recorded : q[1] = k
      OBVIOUS
    <2>3. payments[k] =
              [status |-> "PENDING_VERIFICATION", amount |-> p[2],
               invoice |-> IF p[3] \in 1 .. start THEN <<Nobody, p[3]>> ELSE NoInvoice]
      BY <1>2, <2>1, <2>2
    <2>4. p[3] \in 1 .. start /\ payments[k].invoice = <<Nobody, p[3]>>
      BY <1>7, <2>3
    <2>5. start # 0
      BY <1>3, <2>4
    <2>6. row(p[3]) \in invoices
      BY <1>4, <2>4, <2>5
    <2> QED
      BY <1>5, <2>4, <2>6
  <1> QED
    BY <1>1, <1>6, <1>7 DEF LinkInv

(* Only calls under way take a step. *)
LEMMA NotDone ==
    ASSUME NEW r \in Requests, Arrive(r) \/ Proceed(r) \/ Abort(r)
    PROVE  pc[r] \notin Settled
  <1>1. Arrive(r) => pc[r] = "idle"
    BY DEF Arrive, Record, Decide, SetFeeOverride, CreatePlan, Start
  <1>2. Proceed(r) => pc[r] \notin Settled
    BY DEF Proceed, CheckInvoice, Lookup, CreatePayment, ReadPayment, FlipPayment,
       RejectPayment, ReadTotal, SumPaid, UpdateTotals, ReadInvoice, SumInvoice,
       CommitVerification, ReadEnrolment, OverrideFee, ReadPlan, FindTemplate,
       TakeInvoiceNumber, InsertInvoices, RefuseInvoices, Look, Settled
  <1>3. Abort(r) => pc[r] \notin Settled
    BY DEF Abort, Outside, InTransaction, Flipped, Settled
  <1> QED
    BY <1>1, <1>2, <1>3 DEF Settled

LEMMA LinksStay ==
    ASSUME TypeOK, RowInv, LinkInv, NEW r \in Requests, Arrive(r) \/ Proceed(r) \/ Abort(r)
    PROVE  LinkInv'
  <1>1. InvoicesStep(r) /\ Others(r) /\ KeepsRows
    BY InvoicesStepHolds, OthersStay, StepKeepsRows DEF CallStep
  <1>2. ASSUME NEW id, \E i \in invoices : i.id = id
        PROVE  \E i \in invoices' : i.id = id
    BY <1>1, <1>2 DEF InvoicesStep
  <1>3. ASSUME NEW k \in Keys, payments'[k].invoice # NoInvoice
        PROVE  \E i \in invoices' : i.id = payments'[k].invoice
    <2>1. CASE CreatePayment(r)
      <3>1. \A l \in Keys : \/ payments'[l] = payments[l]
                            \/ payments'[l].invoice = job[r].invoice
        BY <2>1 DEF CreatePayment, TypeOK
      <3>2. PICK id : id = payments'[k].invoice
        OBVIOUS
      <3>3. id = payments[k].invoice \/ id = job[r].invoice
        BY <3>1, <3>2
      <3>4. \E i \in invoices : i.id = id
        BY <1>3, <3>2, <3>3 DEF LinkInv
      <3> QED
        BY <1>2, <3>2, <3>4
    <2>2. CASE ~CreatePayment(r)
      <3>1. payments'[k].invoice = payments[k].invoice
        <4>1. CASE Exists(k)
          BY <1>1, <4>1 DEF KeepsRows
        <4>2. CASE ~Exists(k)
          <5>1. ASSUME NEW s, payments' = [payments EXCEPT ![job[r].key] = [@ EXCEPT !.status = s]],
                       pc[r] \in Deciding
                PROVE  payments'[k] = payments[k]
            <6>1. job[r].key # k
              BY <4>2, <5>1 DEF RowInv
            <6> QED
              BY <5>1, <6>1 DEF TypeOK
          <5>2. CASE CommitVerification(r)
            BY <5>1, <5>2 DEF CommitVerification, Deciding, Flipped
          <5>3. CASE RejectPayment(r)
            BY <5>1, <5>3 DEF RejectPayment, Deciding
          <5>4. CASE ~CommitVerification(r) /\ ~RejectPayment(r)
            BY <2>2, <5>4, OthersKeep
          <5> QED
            BY <5>2, <5>3, <5>4
        <4> QED
          BY <4>1, <4>2
      <3> QED
        BY <1>2, <1>3, <3>1 DEF LinkInv
    <2> QED
      BY <2>1, <2>2
  <1>4. ASSUME NEW q \in Requests, job'[q].invoice # NoInvoice
        PROVE  \E i \in invoices' : i.id = job'[q].invoice
    <2>1. CASE q # r
      <3>1. job'[q] = job[q]
        BY <1>1, <2>1 DEF Others
      <3>2. \E i \in invoices : i.id = job[q].invoice
        BY <1>4, <3>1 DEF LinkInv
      <3> QED
        BY <1>2, <3>1, <3>2
    <2>2. CASE q = r /\ Arrive(r)
      <3>1. PICK new \in Job : \E label : Arrived(r, new, label)
        BY <2>2, Arrivals
      <3>2. job'[r] = new /\ (new.invoice = NoInvoice \/ \E i \in invoices : i.id = new.invoice)
        BY <3>1 DEF Arrived, TypeOK
      <3> QED
        BY <1>2, <1>4, <2>2, <3>2
    <2>3. CASE q = r /\ (Proceed(r) \/ Abort(r))
      <3>1. job' = job
        BY <2>3, ProceedGoesOn DEF GoesOn
      <3> QED
        BY <1>2, <1>4, <3>1 DEF LinkInv
    <2> QED
      BY <2>1, <2>2, <2>3
  <1>5. ASSUME NEW q \in Requests, pc[q] = "done"
        PROVE  pc'[q] = "done"
    <2>1. pc[r] # "done"
      BY NotDone DEF Settled
    <2> QED
      BY <1>1, <1>5, <2>1 DEF Others
  <1>6. ASSUME NEW j \in invoices', j.id[1] # Nobody
        PROVE  pc'[j.id[1]] = "done"
    <2>1. CASE \E i \in invoices : j.id = i.id
      <3>1. PICK i \in invoices : j.id = i.id
        BY <2>1
      <3>2. pc[i.id[1]] = "done" /\ i.id[1] \in Requests
        BY <1>6, <3>1 DEF LinkInv, TypeOK, Invoice, InvoiceIds
      <3> QED
        BY <1>5, <3>1, <3>2
    <2>2. CASE ~\E i \in invoices : j.id = i.id
      <3>1. InsertInvoices(r) /\ j.id[1] = r
        BY <1>1, <2>2 DEF InvoicesStep
      <3>2. pc'[r] = "done"
        BY <3>1 DEF InsertInvoices, Commit, Goto, TypeOK
      <3> QED
        BY <3>1, <3>2
    <2> QED
      BY <2>1, <2>2
  <1>7. \A i, j \in invoices' : i.id = j.id => i = j
    BY <1>1 DEF InvoicesStep
  <1> QED
    BY <1>3, <1>4, <1>6, <1>7 DEF LinkInv

(* What verifications under way have read, and what they are about to      *)
(* write, is covered by payments that are verified or about to be.         *)
VerifyInv ==
    /\ \A r \in Requests : pc[r] \in {"flip"} \cup Flipped => job[r].op = "verify"
    /\ CompletedPayments \subseteq Verified
    /\ \A r \in Requests :
          pc[r] \in {"updateTotals"} \cup TotalsUpdated =>
              myPaid[r] <= SumOf(Verified \cup {job[r].key})
    /\ \A r \in Requests : covered[r] => pc[r] \in {"commit", "done", "aborted"}
    /\ \A r \in Requests : pc[r] = "commit" /\ covered[r] =>
          \A i \in invoices : i.id = payments[job[r].key].invoice =>
              SumOf((Verified \cup {job[r].key}) \cap LinkedTo(i.id)) >= i.amount
    /\ OnlyVerifiedMoneyCounts


(* What every step keeps or lets grow. *)
LEMMA Grows ==
    ASSUME TypeOK, TypeOK', RowInv, NEW r \in Requests, Arrive(r) \/ Proceed(r) \/ Abort(r)
    PROVE  /\ \A k \in Keys : payments[k].amount <= payments'[k].amount
           /\ \A id : LinkedTo(id) \subseteq LinkedTo(id)'
           /\ Verified \subseteq Verified'
  <1>1. KeepsRows /\ Others(r)
    BY StepKeepsRows, OthersStay DEF CallStep
  <1>2. ASSUME NEW k \in Keys PROVE payments[k].amount <= payments'[k].amount
    <2>1. payments[k].amount \in Nat /\ payments'[k].amount \in Nat
      BY DEF TypeOK, Payment, NoPayment
    <2>2. Exists(k) => payments'[k].amount = payments[k].amount
      BY <1>1 DEF KeepsRows
    <2>3. ~Exists(k) => payments[k].amount = 0
      BY DEF Exists, TypeOK, Payment, NoPayment
    <2> QED
      BY <2>1, <2>2, <2>3
  <1>3. ASSUME NEW id PROVE LinkedTo(id) \subseteq LinkedTo(id)'
    BY <1>1 DEF KeepsRows, LinkedTo
  <1>4. pc[r] # "done"
    BY NotDone DEF Settled
  <1>5. Verified \subseteq Verified'
    BY <1>1, <1>4 DEF Others, Verified
  <1> QED
    BY <1>2, <1>3, <1>5

(* A payment becomes completed when its verification commits. *)
LEMMA CompletedBy ==
    ASSUME TypeOK, RowInv, NEW r \in Requests, Arrive(r) \/ Proceed(r) \/ Abort(r)
    PROVE  IF CommitVerification(r)
           THEN CompletedPayments' = CompletedPayments \cup {job[r].key}
           ELSE CompletedPayments' \subseteq CompletedPayments
  <1>1. CASE CommitVerification(r)
    <2>1. job[r].key \in Keys /\ payments[job[r].key] \in Payment
      BY <1>1, PresentRows DEF RowInv, CommitVerification, WithKey, Deciding, Flipped
    <2>2. PICK row : row = [payments[job[r].key] EXCEPT !.status = "COMPLETED"]
      OBVIOUS
    <2>3. row.status = "COMPLETED"
      BY <2>1, <2>2 DEF Payment
    <2>4. payments' = [payments EXCEPT ![job[r].key] = row]
      BY <1>1, <2>2 DEF CommitVerification
    <2>5. \A k \in Keys : payments'[k] = IF k = job[r].key THEN row ELSE payments[k]
      BY <2>4 DEF TypeOK
    <2> QED
      BY <1>1, <2>1, <2>3, <2>5 DEF CompletedPayments
  <1>2. CASE RejectPayment(r)
    <2>1. job[r].key \in Keys /\ payments[job[r].key] \in Payment
      BY <1>2, PresentRows DEF RowInv, RejectPayment, WithKey, Deciding
    <2>2. PICK row : row = [payments[job[r].key] EXCEPT !.status = "FAILED"]
      OBVIOUS
    <2>3. row.status = "FAILED"
      BY <2>1, <2>2 DEF Payment
    <2>4. payments' = [payments EXCEPT ![job[r].key] = row]
      BY <1>2, <2>2 DEF RejectPayment
    <2>5. \A k \in Keys : payments'[k] = IF k = job[r].key THEN row ELSE payments[k]
      BY <2>4 DEF TypeOK
    <2>6. ~CommitVerification(r)
      BY <1>2 DEF RejectPayment, CommitVerification
    <2> QED
      BY <2>3, <2>5, <2>6 DEF CompletedPayments
  <1>3. CASE CreatePayment(r)
    <2>1. PICK row : row = [status |-> "PENDING_VERIFICATION", amount |-> job[r].amount,
                            invoice |-> job[r].invoice]
      OBVIOUS
    <2>2. payments' = payments \/ payments' = [payments EXCEPT ![job[r].key] = row]
      BY <1>3, <2>1 DEF CreatePayment
    <2>3. \A k \in Keys : payments'[k] = row \/ payments'[k] = payments[k]
      BY <2>2 DEF TypeOK
    <2>4. ~CommitVerification(r)
      BY <1>3 DEF CreatePayment, CommitVerification
    <2> QED
      BY <2>1, <2>3, <2>4 DEF CompletedPayments
  <1>4. CASE ~CommitVerification(r) /\ ~RejectPayment(r) /\ ~CreatePayment(r)
    BY <1>4, OthersKeep DEF CompletedPayments
  <1> QED
    BY <1>1, <1>2, <1>3, <1>4

(* Only a commit writes the paid amount. *)
LEMMA PaidStays ==
    ASSUME NEW r \in Requests, Arrive(r) \/ Proceed(r) \/ Abort(r), ~CommitVerification(r)
    PROVE  UNCHANGED paid
  <1>1. Arrive(r) => UNCHANGED paid
    BY DEF Arrive, Record, Decide, SetFeeOverride, CreatePlan, Start, tables
  <1>2. CheckInvoice(r) \/ Lookup(r) \/ ReadPayment(r) \/ ReadTotal(r) \/ SumPaid(r)
        \/ ReadInvoice(r) \/ SumInvoice(r) => UNCHANGED paid
    BY DEF CheckInvoice, Lookup, ReadPayment, ReadTotal, SumPaid, ReadInvoice, SumInvoice,
           Look, tables
  <1>3. ReadEnrolment(r) \/ ReadPlan(r) \/ FindTemplate(r) => UNCHANGED paid
    BY DEF ReadEnrolment, ReadPlan, FindTemplate, Look, tables
  <1>4. FlipPayment(r) \/ UpdateTotals(r) \/ OverrideFee(r) \/ CreatePayment(r) => UNCHANGED paid
    BY DEF FlipPayment, UpdateTotals, OverrideFee, CreatePayment, tables
  <1>5. TakeInvoiceNumber(r) \/ InsertInvoices(r) \/ RejectPayment(r) \/ RefuseInvoices(r)
        \/ Abort(r) => UNCHANGED paid
    BY DEF TakeInvoiceNumber, InsertInvoices, RejectPayment, RefuseInvoices, Abort, tables
  <1> QED
    BY <1>1, <1>2, <1>3, <1>4, <1>5 DEF Proceed

(* How a verification comes to write totals, and to commit. *)
LEMMA Verifying ==
    ASSUME TypeOK, NEW r \in Requests, Arrive(r) \/ Proceed(r) \/ Abort(r)
    PROVE  /\ pc'[r] \in {"updateTotals"} \cup TotalsUpdated =>
                 /\ job'[r] = job[r]
                 /\ \/ SumPaid(r)
                    \/ pc[r] \in {"updateTotals"} \cup TotalsUpdated /\ myPaid'[r] = myPaid[r]
           /\ pc'[r] \in TotalsUpdated =>
                 \/ UpdateTotals(r)
                 \/ pc[r] \in TotalsUpdated /\ enrolmentLock' = enrolmentLock
           /\ pc'[r] = "commit" =>
                 \/ UpdateTotals(r) /\ payments[job[r].key].invoice = NoInvoice
                 \/ SumInvoice(r)
                 \/ ReadInvoice(r) /\ \E i \in invoices :
                       i.id = payments[job[r].key].invoice /\ i.status = "PAID"
           /\ covered'[r] => SumInvoice(r) \/ covered[r]
  <1> USE DEF Goto, TotalsUpdated
  <1>1. CASE Arrive(r)
    <2>1. PICK new \in Job : \E label : Arrived(r, new, label)
      BY <1>1, Arrivals
    <2> QED
      BY <2>1 DEF Arrived, TypeOK, reads
  <1>2. CASE CheckInvoice(r) \/ Lookup(r) \/ ReadPayment(r)
    BY <1>2 DEF CheckInvoice, Lookup, ReadPayment, Look, reads, TypeOK
  <1>3. CASE CreatePayment(r) \/ FlipPayment(r) \/ RejectPayment(r)
    BY <1>3 DEF CreatePayment, FlipPayment, RejectPayment, Commit, reads, TypeOK
  <1>4. CASE ReadTotal(r)
    BY <1>4 DEF ReadTotal, Look, TypeOK
  <1>5. CASE SumPaid(r)
    BY <1>5 DEF SumPaid, Look, TypeOK
  <1>6. CASE UpdateTotals(r)
    BY <1>6 DEF UpdateTotals, reads, TypeOK
  <1>7. CASE ReadInvoice(r)
    BY <1>7 DEF ReadInvoice, Look, reads, locks, TypeOK
  <1>8. CASE SumInvoice(r)
    BY <1>8 DEF SumInvoice, Look, locks, TypeOK
  <1>9. CASE CommitVerification(r) \/ OverrideFee(r) \/ InsertInvoices(r)
    BY <1>9 DEF CommitVerification, OverrideFee, InsertInvoices, Commit, reads, TypeOK
  <1>10. CASE ReadEnrolment(r) \/ ReadPlan(r) \/ FindTemplate(r)
    BY <1>10 DEF ReadEnrolment, ReadPlan, FindTemplate, Look, TypeOK
  <1>11. CASE TakeInvoiceNumber(r) \/ RefuseInvoices(r) \/ Abort(r)
    BY <1>11 DEF TakeInvoiceNumber, RefuseInvoices, Abort, reads, TypeOK
  <1> QED
    BY <1>1, <1>2, <1>3, <1>4, <1>5, <1>6, <1>7, <1>8, <1>9, <1>10, <1>11 DEF Proceed

(* Nobody links a payment to an invoice before it is there. *)
LEMMA NewInvoicesAreUnlinked ==
    ASSUME TypeOK, LinkInv, NEW r \in Requests, InsertInvoices(r),
           NEW id \in InvoiceIds, id[1] = r
    PROVE  \A k \in Keys : payments[k].invoice # id
  <1> SUFFICES ASSUME NEW k \in Keys, payments[k].invoice = id PROVE FALSE
    OBVIOUS
  <1>1. PICK i \in invoices : i.id = id
    BY NoInvoiceAssumption DEF LinkInv
  <1>2. pc[r] = "done"
    BY <1>1, RequestsAssumption DEF LinkInv
  <1> QED
    BY <1>2 DEF InsertInvoices

(* A verification's commit brings its payment among the verified. *)
LEMMA CommitVerifies ==
    ASSUME TypeOK, RowInv, NEW r \in Requests, CommitVerification(r), job[r].op = "verify"
    PROVE  job[r].key \in Verified'
  <1>1. job[r].key \in Keys
    BY DEF RowInv, CommitVerification, WithKey, Deciding, Flipped
  <1>2. pc'[r] = "done" /\ job' = job
    BY DEF CommitVerification, Commit, Goto, TypeOK
  <1> QED
    BY <1>1, <1>2 DEF Verified

LEMMA VerifyInvStays ==
    ASSUME TypeOK, TypeOK', RowInv, LinkInv, VerifyInv,
           NEW r \in Requests, Arrive(r) \/ Proceed(r) \/ Abort(r)
    PROVE  VerifyInv'
  <1>1. KeepsRows /\ Others(r) /\ InvoicesStep(r)
    BY StepKeepsRows, OthersStay, InvoicesStepHolds DEF CallStep
  <1>2. /\ \A k \in Keys : payments[k].amount <= payments'[k].amount
        /\ \A id : LinkedTo(id) \subseteq LinkedTo(id)'
        /\ Verified \subseteq Verified'
    BY Grows
  <1>3. payments \in Rows /\ payments' \in Rows /\ Verified \subseteq Keys /\ Verified' \subseteq Keys
    BY DEF TypeOK, Rows, Verified
  <1>4. ASSUME NEW S \in SUBSET Keys, NEW R \in SUBSET S
        PROVE  /\ Value(payments, R) \in Nat /\ Value(payments', S) \in Nat
               /\ Value(payments, R) <= Value(payments', S)
    BY <1>2, <1>3, ValueGrows
  <1>5. ASSUME NEW q \in Requests, pc[q] \in Deciding
        PROVE  job[q].key \in Keys /\ Exists(job[q].key)
               /\ payments'[job[q].key].invoice = payments[job[q].key].invoice
    BY <1>1, <1>5 DEF RowInv, WithKey, KeepsRows
  <1>6. ASSUME NEW q \in Requests, pc'[q] \in {"flip"} \cup Flipped
        PROVE  job'[q].op = "verify"
    <2>1. CASE q # r
      BY <1>1, <1>6, <2>1 DEF Others, VerifyInv
    <2>2. CASE q = r /\ Arrive(r)
      <3>1. PICK new \in Job : \E label : Arrived(r, new, label)
        BY <2>2, Arrivals
      <3> QED
        BY <1>6, <2>2, <3>1 DEF Arrived, TypeOK, Flipped
    <2>3. CASE q = r /\ (Proceed(r) \/ Abort(r))
      <3>1. PICK label \in PCs : GoesOn(r, label)
        BY <2>3, ProceedGoesOn
      <3>2. pc'[r] = label /\ job' = job
        BY <3>1 DEF GoesOn, TypeOK
      <3> QED
        BY <1>6, <2>3, <3>1, <3>2 DEF GoesOn, VerifyInv
    <2> QED
      BY <2>1, <2>2, <2>3
  <1>7. CommitVerification(r) =>
            /\ job[r].key \in Keys /\ job[r].key \in Verified'
            /\ pc[r] = "commit"
    <2>1. CommitVerification(r) => pc[r] = "commit" /\ job[r].op = "verify"
      BY DEF CommitVerification, VerifyInv, Flipped
    <2> QED
      BY <1>5, <2>1, CommitVerifies DEF Deciding, Flipped
  <1>8. CompletedPayments' \subseteq Verified'
    BY <1>2, <1>7, CompletedBy DEF VerifyInv
  <1>9. ASSUME NEW q \in Requests, pc'[q] \in {"updateTotals"} \cup TotalsUpdated
        PROVE  myPaid'[q] <= SumOf(Verified \cup {job[q].key})'
    <2>1. /\ job'[q] = job[q]
          /\ \/ q = r /\ SumPaid(r)
             \/ pc[q] \in {"updateTotals"} \cup TotalsUpdated /\ myPaid'[q] = myPaid[q]
      BY <1>1, <1>9, Verifying DEF Others
    <2>2. pc[q] \in Deciding
      BY <2>1 DEF SumPaid, Look, Deciding, Flipped, TotalsUpdated
    <2>3. PICK S : S = Verified \cup {job[q].key}
      OBVIOUS
    <2>4. PICK S2 : S2 = (Verified \cup {job[q].key})'
      OBVIOUS
    <2>5. S2 \in SUBSET Keys /\ S \in SUBSET S2
      BY <1>2, <1>3, <1>5, <2>1, <2>2, <2>3, <2>4
    <2>6. SumOf(Verified \cup {job[q].key})' = Value(payments', S2)
      BY <2>4 DEF SumOf
    <2>7. CASE pc[q] \in {"updateTotals"} \cup TotalsUpdated /\ myPaid'[q] = myPaid[q]
      <3>1. myPaid[q] <= Value(payments, S)
        BY <2>3, <2>7 DEF VerifyInv, SumOf
      <3>2. myPaid[q] \in Nat
        BY DEF TypeOK
      <3>3. Value(payments, S) \in Nat /\ Value(payments', S2) \in Nat
            /\ Value(payments, S) <= Value(payments', S2)
        BY <1>4, <2>5
      <3> QED
        BY <2>6, <2>7, <3>1, <3>2, <3>3
    <2>8. CASE q = r /\ SumPaid(r)
      <3>1. PICK C : C = CompletedSeenBy(r)
        OBVIOUS
      <3>2. C \in SUBSET S
        BY <2>3, <2>8, <3>1 DEF CompletedSeenBy, VerifyInv, CompletedPayments
      <3>3. myPaid'[q] = Value(payments, C)
        BY <2>8, <3>1 DEF SumPaid, SumOf, TypeOK
      <3> QED
        BY <1>4, <2>5, <2>6, <3>2, <3>3
    <2> QED
      BY <2>1, <2>7, <2>8
  <1>10. paid' <= SumOf(Verified)'
    <2>1. PICK S : S = Verified
      OBVIOUS
    <2>2. PICK S2 : S2 = Verified'
      OBVIOUS
    <2>3. S \in SUBSET S2 /\ S2 \in SUBSET Keys
      BY <1>2, <1>3, <2>1, <2>2
    <2>4. SumOf(Verified)' = Value(payments', S2) /\ SumOf(Verified) = Value(payments, S)
      BY <2>1, <2>2 DEF SumOf
    <2>5. CASE CommitVerification(r)
      <3>1. paid' = myPaid[r] /\ pc[r] = "commit"
        BY <2>5 DEF CommitVerification
      <3>2. PICK T : T = Verified \cup {job[r].key}
        OBVIOUS
      <3>3. myPaid[r] <= Value(payments, T)
        BY <3>1, <3>2 DEF VerifyInv, TotalsUpdated, SumOf
      <3>4. T \in SUBSET S2
        BY <1>7, <2>1, <2>2, <2>3, <2>5, <3>2
      <3>5. myPaid[r] \in Nat
        BY DEF TypeOK
      <3>6. /\ Value(payments, T) \in Nat /\ Value(payments', S2) \in Nat
            /\ Value(payments, T) <= Value(payments', S2)
        BY <1>4, <2>3, <3>4
      <3> QED
        BY <2>4, <3>1, <3>3, <3>5, <3>6
    <2>6. CASE ~CommitVerification(r)
      <3>1. paid' = paid /\ paid <= Value(payments, S) /\ paid \in Nat
        BY <2>4, <2>6, PaidStays DEF VerifyInv, OnlyVerifiedMoneyCounts, TypeOK
      <3>2. /\ Value(payments, S) \in Nat /\ Value(payments', S2) \in Nat
            /\ Value(payments, S) <= Value(payments', S2)
        BY <1>4, <2>3
      <3> QED
        BY <2>4, <3>1, <3>2
    <2> QED
      BY <2>5, <2>6
  <1>11. ASSUME NEW q \in Requests, covered'[q]
         PROVE  pc'[q] \in {"commit", "done", "aborted"}
    <2>1. CASE q # r
      BY <1>1, <1>11, <2>1 DEF Others, VerifyInv
    <2>2. CASE q = r /\ SumInvoice(r)
      BY <2>2 DEF SumInvoice, Look, Goto, TypeOK
    <2>3. CASE q = r /\ ~SumInvoice(r)
      <3>1. covered[r]
        BY <1>11, <2>3, Verifying
      <3>2. pc[r] = "commit"
        BY <3>1, NotDone DEF VerifyInv, Settled
      <3>3. CommitVerification(r) \/ Abort(r)
        BY <3>2 DEF Proceed, Arrive, Record, Decide, SetFeeOverride, CreatePlan, Start,
           CheckInvoice, Lookup, CreatePayment, ReadPayment, FlipPayment,
           RejectPayment, ReadTotal, SumPaid, UpdateTotals, ReadInvoice, SumInvoice,
           ReadEnrolment, OverrideFee, ReadPlan, FindTemplate,
           TakeInvoiceNumber, InsertInvoices, RefuseInvoices, Look
      <3> QED
        BY <2>3, <3>3 DEF CommitVerification, Commit, Abort, Goto, TypeOK
    <2> QED
      BY <2>1, <2>2, <2>3
  <1>12. ASSUME NEW q \in Requests, pc'[q] = "commit", covered'[q],
                NEW j \in invoices', j.id = payments'[job'[q].key].invoice
         PROVE  SumOf((Verified \cup {job[q].key}) \cap LinkedTo(j.id))' >= j.amount
    <2>1. job'[q] = job[q]
      BY <1>1, <1>12, Verifying DEF Others, TotalsUpdated
    <2>2. pc[q] \in Deciding
      <3>1. CASE q # r
        BY <1>1, <1>12, <3>1 DEF Others, Deciding, Flipped
      <3>2. CASE q = r
        BY <1>12, <3>2, Verifying DEF UpdateTotals, SumInvoice, ReadInvoice, Look, Deciding, Flipped
      <3> QED
        BY <3>1, <3>2
    <2>3. j.id = payments[job[q].key].invoice /\ job[q].key \in Keys /\ j \in Invoice
      BY <1>5, <1>12, <2>1, <2>2 DEF TypeOK
    <2>4. ~(InsertInvoices(r) /\ j.id[1] = r)
      BY <2>3, NewInvoicesAreUnlinked DEF Invoice
    <2>5. PICK i \in invoices : j.id = i.id /\ j.amount = i.amount
      BY <1>1, <2>4 DEF InvoicesStep
    <2>6. PICK id : id = j.id
      OBVIOUS
    <2>7. PICK S : S = (Verified \cup {job[q].key}) \cap LinkedTo(id)
      OBVIOUS
    <2>8. PICK S2 : S2 = ((Verified \cup {job[q].key}) \cap LinkedTo(id))'
      OBVIOUS
    <2>9. S \in SUBSET S2 /\ S2 \in SUBSET Keys
      BY <1>2, <1>3, <2>1, <2>3, <2>7, <2>8
    <2>10. SumOf((Verified \cup {job[q].key}) \cap LinkedTo(j.id))' = Value(payments', S2)
      BY <2>6, <2>8 DEF SumOf
    <2>11. Value(payments, S) >= i.amount
      <3>1. CASE q = r /\ SumInvoice(r)
        <4>1. PICK C : C = CompletedSeenBy(r) \cap LinkedTo(id)
          OBVIOUS
        <4>2. \E i2 \in invoices : i2.id = id /\ Value(payments, C) >= i2.amount
          BY <1>12, <2>3, <2>6, <3>1, <4>1 DEF SumInvoice, SumOf, TypeOK
        <4>3. Value(payments, C) >= i.amount
          BY <2>5, <2>6, <4>2 DEF LinkInv
        <4>4. C \in SUBSET S
          BY <2>7, <3>1, <4>1 DEF CompletedSeenBy, VerifyInv, CompletedPayments
        <4>5. S \in SUBSET Keys
          BY <2>3, <2>7 DEF Verified
        <4>6. /\ Value(payments, C) \in Nat /\ Value(payments, S) \in Nat
              /\ Value(payments, C) <= Value(payments, S)
          <5>1. \A k \in Keys : payments[k].amount <= payments[k].amount
            BY DEF TypeOK, Payment, NoPayment
          <5> QED
            BY <1>3, <4>4, <4>5, <5>1, ValueGrows
        <4>7. i.amount \in Nat
          BY DEF TypeOK, Invoice
        <4> QED
          BY <4>3, <4>6, <4>7
      <3>2. CASE ~(q = r /\ SumInvoice(r))
        <4>1. covered[q]
          BY <1>1, <1>12, <3>2, Verifying DEF Others
        <4>2. pc[q] = "commit"
          <5>1. CASE q # r
            BY <1>1, <1>12, <5>1 DEF Others
          <5>2. CASE q = r
            BY <4>1, <5>2, NotDone DEF VerifyInv, Settled
          <5> QED
            BY <5>1, <5>2
        <4> QED
          BY <2>3, <2>5, <2>6, <2>7, <4>1, <4>2 DEF VerifyInv, SumOf
      <3> QED
        BY <3>1, <3>2
    <2>12. /\ Value(payments, S) \in Nat /\ Value(payments', S2) \in Nat
           /\ Value(payments, S) <= Value(payments', S2)
      BY <1>4, <2>9
    <2>13. i.amount \in Nat
      BY DEF TypeOK, Invoice
    <2> QED
      BY <2>5, <2>10, <2>11, <2>12, <2>13
  <1>13. ASSUME NEW j \in invoices', j.status = "PAID"
         PROVE  SumOf(Verified \cap LinkedTo(j.id))' >= j.amount
    <2>1. PICK i \in invoices : /\ j.id = i.id /\ j.amount = i.amount
                                /\ j.status = IF Marks(r, i) THEN "PAID" ELSE i.status
      BY <1>1, <1>13 DEF InvoicesStep
    <2>2. PICK id : id = j.id
      OBVIOUS
    <2>3. PICK S2 : S2 = (Verified \cap LinkedTo(id))'
      OBVIOUS
    <2>4. SumOf(Verified \cap LinkedTo(j.id))' = Value(payments', S2)
      BY <2>2, <2>3 DEF SumOf
    <2>5. \E S \in SUBSET S2 : Value(payments, S) >= i.amount
      <3>1. CASE Marks(r, i)
        <4>1. PICK S : S = (Verified \cup {job[r].key}) \cap LinkedTo(id)
          OBVIOUS
        <4>2. Value(payments, S) >= i.amount
          BY <1>7, <2>1, <2>2, <3>1, <4>1 DEF Marks, VerifyInv, SumOf
        <4>3. S \in SUBSET S2
          BY <1>2, <1>7, <2>3, <3>1, <4>1 DEF Marks
        <4> QED
          BY <4>2, <4>3
      <3>2. CASE ~Marks(r, i)
        <4>1. PICK S : S = Verified \cap LinkedTo(id)
          OBVIOUS
        <4>2. Value(payments, S) >= i.amount
          BY <1>13, <2>1, <2>2, <3>2, <4>1 DEF VerifyInv, OnlyVerifiedMoneyCounts, SumOf
        <4>3. S \in SUBSET S2
          BY <1>2, <2>3, <4>1
        <4> QED
          BY <4>2, <4>3
      <3> QED
        BY <3>1, <3>2
    <2>6. PICK S \in SUBSET S2 : Value(payments, S) >= i.amount
      BY <2>5
    <2>7. S2 \in SUBSET Keys
      BY <1>3, <2>3
    <2>8. /\ Value(payments, S) \in Nat /\ Value(payments', S2) \in Nat
          /\ Value(payments, S) <= Value(payments', S2)
      BY <1>4, <2>7
    <2>9. i.amount \in Nat
      BY DEF TypeOK, Invoice
    <2> QED
      BY <2>1, <2>4, <2>6, <2>8, <2>9
  <1> QED
    BY <1>6, <1>8, <1>9, <1>10, <1>11, <1>12, <1>13 DEF VerifyInv, OnlyVerifiedMoneyCounts

(* A verification that has updated the enrolment keeps its lock, so that   *)
(* no other commits until it does; and when it is about to commit, it has  *)
(* seen whether its invoice is covered.                                    *)
CoverInv ==
    /\ \A r \in Requests : pc[r] \in TotalsUpdated => enrolmentLock = r
    /\ \A r \in Requests : pc[r] = "commit" =>
          \A i \in invoices :
              /\ i.id = payments[job[r].key].invoice
              /\ SumOf((CompletedPayments \cup {job[r].key}) \cap LinkedTo(i.id)) >= i.amount
              => i.status = "PAID" \/ covered[r]
    /\ CoveredInvoicesArePaid

(* No call takes the enrolment's lock from another. *)
LEMMA LockKept ==
    ASSUME TypeOK, NEW r \in Requests, Arrive(r) \/ Proceed(r) \/ Abort(r),
           NEW q \in Requests \ {r}, enrolmentLock = q
    PROVE  enrolmentLock' = q /\ ~UpdateTotals(r)
  <1>0. q # Nobody
    BY RequestsAssumption
  <1>1. Arrive(r) => UNCHANGED enrolmentLock
    BY DEF Arrive, Record, Decide, SetFeeOverride, CreatePlan, Start, locks
  <1>2. CheckInvoice(r) \/ Lookup(r) \/ ReadPayment(r) \/ ReadTotal(r) \/ SumPaid(r)
        \/ ReadInvoice(r) \/ SumInvoice(r) => UNCHANGED enrolmentLock
    BY DEF CheckInvoice, Lookup, ReadPayment, ReadTotal, SumPaid, ReadInvoice, SumInvoice,
           Look, locks
  <1>3. ReadEnrolment(r) \/ ReadPlan(r) \/ FindTemplate(r) => UNCHANGED enrolmentLock
    BY DEF ReadEnrolment, ReadPlan, FindTemplate, Look, locks
  <1>4. FlipPayment(r) \/ CreatePayment(r) \/ TakeInvoiceNumber(r) => UNCHANGED enrolmentLock
    BY DEF FlipPayment, CreatePayment, TakeInvoiceNumber, locks
  <1>5. ReleaseLocks(r) => enrolmentLock' = q
    BY DEF ReleaseLocks
  <1>6. CommitVerification(r) \/ OverrideFee(r) \/ RejectPayment(r) \/ InsertInvoices(r)
        \/ RefuseInvoices(r) \/ Abort(r) => enrolmentLock' = q
    BY <1>5 DEF CommitVerification, OverrideFee, RejectPayment, InsertInvoices, RefuseInvoices,
       Abort, Commit
  <1>7. ~UpdateTotals(r)
    BY <1>0 DEF UpdateTotals
  <1> QED
    BY <1>1, <1>2, <1>3, <1>4, <1>6, <1>7 DEF Proceed

(* While one verification is about to commit, no other does, and nothing   *)
(* else completes a payment or links one that is completed.                *)
LEMMA CoverInvStays ==
    ASSUME TypeOK, TypeOK', RowInv, LinkInv, CoverInv,
           NEW r \in Requests, Arrive(r) \/ Proceed(r) \/ Abort(r)
    PROVE  CoverInv'
  <1>1. KeepsRows /\ Others(r) /\ InvoicesStep(r)
    BY StepKeepsRows, OthersStay, InvoicesStepHolds DEF CallStep
  <1>2. \A k \in Keys : Exists(k) =>
            /\ Exists(k)' /\ payments'[k].amount = payments[k].amount
            /\ payments'[k].invoice = payments[k].invoice
    BY <1>1 DEF KeepsRows
  <1>3. ASSUME NEW q \in Requests, pc[q] \in Deciding
        PROVE  job[q].key \in Keys /\ Exists(job[q].key)
               /\ payments'[job[q].key].invoice = payments[job[q].key].invoice
    BY <1>2, <1>3 DEF RowInv, WithKey
  <1>4. CompletedPayments \subseteq Keys /\ CompletedPayments' \subseteq Keys
        /\ \A k \in CompletedPayments : Exists(k)
    BY DEF CompletedPayments, Exists
  <1>5. payments \in Rows /\ payments' \in Rows /\ \A k \in Keys : payments[k].amount \in Nat
    BY DEF TypeOK, Rows, Payment, NoPayment
  (* What is worth enough among payments that were there was so before. *)
  <1>6. ASSUME NEW S \in SUBSET Keys, NEW R \in SUBSET S, \A k \in R : Exists(k),
               NEW a \in Nat, Value(payments', R) >= a
        PROVE  Value(payments, S) >= a
    <2>1. \A k \in R : payments[k].amount = payments'[k].amount
      BY <1>2, <1>6
    <2>2. Value(payments, R) = Value(payments', R)
      BY <2>1, SameValue
    <2>3. \A k \in R : payments[k].amount <= payments[k].amount
      BY <1>5
    <2>4. Value(payments, R) \in Nat /\ Value(payments, S) \in Nat
          /\ Value(payments, R) <= Value(payments, S)
      BY <1>5, <2>3, ValueGrows
    <2> QED
      BY <1>6, <2>2, <2>4
  <1>7. ASSUME NEW q \in Requests, pc'[q] \in TotalsUpdated
        PROVE  enrolmentLock' = q
    <2>1. CASE q # r
      BY <1>1, <1>7, <2>1, LockKept DEF Others, CoverInv
    <2>2. CASE q = r /\ UpdateTotals(r)
      BY <2>2 DEF UpdateTotals
    <2>3. CASE q = r /\ ~UpdateTotals(r)
      BY <1>7, <2>3, Verifying DEF CoverInv
    <2> QED
      BY <2>1, <2>2, <2>3
  <1>8. ASSUME NEW j \in invoices', CommitVerification(r) \/ ~InsertInvoices(r) \/ j.id[1] # r
        PROVE  \E i \in invoices : j.id = i.id /\ j.amount = i.amount
                   /\ j.status = IF Marks(r, i) THEN "PAID" ELSE i.status
    <2>1. CommitVerification(r) => ~InsertInvoices(r)
      BY DEF CommitVerification, InsertInvoices
    <2> QED
      BY <1>1, <1>8, <2>1 DEF InvoicesStep
  <1>9. \A j \in invoices' : j \in Invoice /\ j.id \in InvoiceIds /\ j.amount \in Nat
    BY DEF TypeOK, Invoice
  <1>10. CommitVerification(r) => pc[r] = "commit" /\ pc[r] \in Deciding
    BY DEF CommitVerification, Deciding, Flipped
  <1>11. ASSUME NEW q \in Requests, pc'[q] = "commit", NEW j \in invoices',
                j.id = payments'[job'[q].key].invoice,
                SumOf((CompletedPayments \cup {job[q].key}) \cap LinkedTo(j.id))' >= j.amount
         PROVE  j.status = "PAID" \/ covered'[q]
    <2>1. job'[q] = job[q]
      BY <1>1, <1>11, Verifying DEF Others, TotalsUpdated
    <2>2. pc[q] \in Deciding
      <3>1. CASE q # r
        BY <1>1, <1>11, <3>1 DEF Others, Deciding, Flipped
      <3>2. CASE q = r
        BY <1>11, <3>2, Verifying DEF UpdateTotals, SumInvoice, ReadInvoice, Look, Deciding, Flipped
      <3> QED
        BY <3>1, <3>2
    <2>3. j.id = payments[job[q].key].invoice /\ job[q].key \in Keys /\ Exists(job[q].key)
      BY <1>3, <1>11, <2>1, <2>2
    <2>4. ~(InsertInvoices(r) /\ j.id[1] = r)
      BY <1>9, <2>3, NewInvoicesAreUnlinked
    <2>5. PICK i \in invoices : j.id = i.id /\ j.amount = i.amount
                   /\ j.status = IF Marks(r, i) THEN "PAID" ELSE i.status
      BY <1>8, <2>4
    <2>6. ~CommitVerification(r)
      <3>1. CASE q = r
        BY <1>11, <3>1 DEF CommitVerification, Commit, Goto, TypeOK
      <3>2. CASE q # r
        <4>1. pc[q] = "commit"
          BY <1>1, <1>11, <3>2 DEF Others
        <4>2. enrolmentLock = q
          BY <4>1 DEF CoverInv, TotalsUpdated
        <4>3. pc[r] # "commit"
          BY <3>2, <4>2 DEF CoverInv, TotalsUpdated
        <4> QED
          BY <4>3 DEF CommitVerification
      <3> QED
        BY <3>1, <3>2
    <2>7. j.status = i.status
      BY <2>5, <2>6 DEF Marks
    <2>8. PICK id : id = j.id
      OBVIOUS
    <2>9. PICK S : S = (CompletedPayments \cup {job[q].key}) \cap LinkedTo(id)
      OBVIOUS
    <2>10. PICK R : R = ((CompletedPayments \cup {job[q].key}) \cap LinkedTo(id))'
      OBVIOUS
    <2>11. CompletedPayments' \subseteq CompletedPayments
      BY <2>6, CompletedBy
    <2>12. \A k \in R : k \in Keys /\ Exists(k)
      BY <1>4, <2>1, <2>3, <2>10, <2>11
    <2>13. R \in SUBSET S /\ S \in SUBSET Keys
      BY <1>2, <1>4, <2>1, <2>3, <2>9, <2>10, <2>11, <2>12 DEF LinkedTo
    <2>14. Value(payments', R) >= i.amount
      BY <1>11, <2>5, <2>8, <2>10 DEF SumOf
    <2>15. Value(payments, S) >= i.amount
      BY <1>6, <1>9, <2>5, <2>12, <2>13, <2>14
    <2>16. CASE q # r
      <3>1. pc[q] = "commit" /\ covered'[q] = covered[q]
        BY <1>1, <1>11, <2>16 DEF Others
      <3>2. i.id = payments[job[q].key].invoice
        BY <2>3, <2>5
      <3>3. SumOf((CompletedPayments \cup {job[q].key}) \cap LinkedTo(i.id)) >= i.amount
        BY <2>5, <2>8, <2>9, <2>15 DEF SumOf
      <3> QED
        BY <2>7, <3>1, <3>2, <3>3 DEF CoverInv
    <2>17. CASE q = r
      <3>1. CASE UpdateTotals(r) /\ payments[job[r].key].invoice = NoInvoice
        BY <1>9, <2>3, <2>17, <3>1, NoInvoiceAssumption
      <3>2. CASE ReadInvoice(r) /\ \E i2 \in invoices :
                     i2.id = payments[job[r].key].invoice /\ i2.status = "PAID"
        BY <2>3, <2>5, <2>7, <2>17, <3>2 DEF LinkInv
      <3>3. CASE SumInvoice(r)
        <4>1. PICK C : C = CompletedSeenBy(r) \cap LinkedTo(id)
          OBVIOUS
        <4>2. covered'[r] <=> \E i2 \in invoices : i2.id = id /\ Value(payments, C) >= i2.amount
          BY <2>3, <2>8, <2>17, <3>3, <4>1 DEF SumInvoice, SumOf, TypeOK
        <4>3. C = S
          BY <1>4, <2>3, <2>9, <2>17, <3>3, <4>1
             DEF CompletedSeenBy, CompletedPayments, SumInvoice, Look, Flipped
        <4> QED
          BY <2>5, <2>8, <2>15, <2>17, <4>2, <4>3
      <3> QED
        BY <1>11, <2>17, <3>1, <3>2, <3>3, Verifying
    <2> QED
      BY <2>16, <2>17
  <1>12. ASSUME NEW j \in invoices',
                (CompletedPayments \cap LinkedTo(j.id))' # {},
                SumOf(CompletedPayments \cap LinkedTo(j.id))' >= j.amount
         PROVE  j.status = "PAID"
    <2>1. PICK id : id = j.id
      OBVIOUS
    <2>2. PICK R : R = (CompletedPayments \cap LinkedTo(id))'
      OBVIOUS
    <2>3. R # {} /\ Value(payments', R) >= j.amount
      BY <1>12, <2>1, <2>2 DEF SumOf
    <2>4. CASE CommitVerification(r)
      <3>1. PICK i \in invoices : j.id = i.id /\ j.amount = i.amount
                   /\ j.status = IF Marks(r, i) THEN "PAID" ELSE i.status
        BY <1>8, <2>4
      <3>2. CompletedPayments' = CompletedPayments \cup {job[r].key}
        BY <2>4, CompletedBy
      <3>3. job[r].key \in Keys /\ Exists(job[r].key) /\ pc[r] = "commit"
        BY <1>3, <1>10, <2>4
      <3>4. PICK S : S = (CompletedPayments \cup {job[r].key}) \cap LinkedTo(id)
        OBVIOUS
      <3>5. \A k \in R : k \in Keys /\ Exists(k)
        BY <1>4, <2>2, <3>2, <3>3
      <3>6. R \in SUBSET S /\ S \in SUBSET Keys
        BY <1>2, <1>4, <2>2, <3>2, <3>3, <3>4, <3>5 DEF LinkedTo
      <3>7. Value(payments, S) >= i.amount
        BY <1>6, <1>9, <2>3, <3>1, <3>5, <3>6
      <3>8. CASE i.id = payments[job[r].key].invoice
        <4>1. SumOf((CompletedPayments \cup {job[r].key}) \cap LinkedTo(i.id)) >= i.amount
          BY <2>1, <3>1, <3>4, <3>7 DEF SumOf
        <4>2. i.status = "PAID" \/ covered[r]
          BY <3>3, <3>8, <4>1 DEF CoverInv
        <4> QED
          BY <2>4, <3>1, <3>8, <4>2 DEF Marks
      <3>9. CASE i.id # payments[job[r].key].invoice
        <4>1. S = CompletedPayments \cap LinkedTo(i.id)
          BY <2>1, <3>1, <3>4, <3>9 DEF LinkedTo
        <4>2. SumOf(CompletedPayments \cap LinkedTo(i.id)) >= i.amount
          BY <3>7, <4>1 DEF SumOf
        <4>3. CompletedPayments \cap LinkedTo(i.id) # {}
          BY <2>3, <3>6, <4>1
        <4>4. i.status = "PAID"
          BY <4>2, <4>3 DEF CoverInv, CoveredInvoicesArePaid
        <4> QED
          BY <3>1, <4>4
      <3> QED
        BY <3>8, <3>9
    <2>5. CASE ~CommitVerification(r)
      <3>1. CompletedPayments' \subseteq CompletedPayments
        BY <2>5, CompletedBy
      <3>2. PICK S : S = CompletedPayments \cap LinkedTo(id)
        OBVIOUS
      <3>3. \A k \in R : k \in Keys /\ Exists(k)
        BY <1>4, <2>2, <3>1
      <3>4. R \in SUBSET S /\ S \in SUBSET Keys
        BY <1>2, <1>4, <2>2, <3>1, <3>2, <3>3 DEF LinkedTo
      <3>5. ~(InsertInvoices(r) /\ j.id[1] = r)
        <4>1. PICK k \in S : k \in Keys /\ payments[k].invoice = j.id
          BY <2>1, <2>3, <3>2, <3>4 DEF LinkedTo
        <4> QED
          BY <1>9, <4>1, NewInvoicesAreUnlinked
      <3>6. PICK i \in invoices : j.id = i.id /\ j.amount = i.amount
                   /\ j.status = IF Marks(r, i) THEN "PAID" ELSE i.status
        BY <1>8, <3>5
      <3>7. Value(payments, S) >= i.amount
        BY <1>6, <1>9, <2>3, <3>3, <3>4, <3>6
      <3>8. SumOf(CompletedPayments \cap LinkedTo(i.id)) >= i.amount
            /\ CompletedPayments \cap LinkedTo(i.id) # {}
        BY <2>1, <2>3, <3>2, <3>4, <3>6, <3>7 DEF SumOf
      <3>9. i.status = "PAID"
        BY <3>8 DEF CoverInv, CoveredInvoicesArePaid
      <3> QED
        BY <2>5, <3>6, <3>9 DEF Marks
    <2> QED
      BY <2>4, <2>5
  <1> QED
    BY <1>7, <1>11, <1>12 DEF CoverInv, CoveredInvoicesArePaid

(* Nothing is verified before the calls. *)
LEMMA CompletedAtFirst ==
    ASSUME Init
    PROVE  CompletedPayments = {}
  <1> SUFFICES ASSUME NEW k \in Keys, payments[k].status = "COMPLETED" PROVE FALSE
    BY DEF CompletedPayments
  <1>1. PICK start \in StartPlans :
            payments = [l \in Keys |->
                 IF \E p \in Recorded : p[1] = l
                 THEN LET p == CHOOSE p \in Recorded : p[1] = l
                      IN  [status |-> "PENDING_VERIFICATION", amount |-> p[2],
                           invoice |-> IF p[3] \in 1 .. start THEN <<Nobody, p[3]>> ELSE NoInvoice]
                 ELSE NoPayment]
    BY DEF Init
  <1> QED
    BY <1>1 DEF NoPayment

LEMMA MoneyAtFirst == Init => VerifyInv /\ CoverInv
  <1> SUFFICES ASSUME Init PROVE VerifyInv /\ CoverInv
    OBVIOUS
  <1>1. TypeOK
    BY TypesAtFirst
  <1>2. \A r \in Requests : pc[r] = "idle" /\ ~covered[r]
    BY DEF Init
  <1>3. CompletedPayments = {}
    BY CompletedAtFirst
  <1>4. \A i \in invoices : i.status = "PENDING"
    <2>1. PICK start \in StartPlans :
              invoices = IF start = 0 THEN {} ELSE PlannedInvoices(Nobody, "MONTHLY", start, total)
      BY DEF Init
    <2>2. \A i \in PlannedInvoices(Nobody, "MONTHLY", start, total) : i.status = "PENDING"
      BY DEF PlannedInvoices
    <2> QED
      BY <2>1, <2>2
  <1>5. paid <= SumOf(Verified)
    <2>1. paid = 0
      BY DEF Init
    <2>2. payments \in Rows /\ Verified \in SUBSET Keys
          /\ \A k \in Keys : payments[k].amount <= payments[k].amount
      BY <1>1 DEF TypeOK, Rows, Verified, Payment, NoPayment
    <2>3. Value(payments, Verified) \in Nat
      BY <2>2, ValueGrows
    <2> QED
      BY <2>1, <2>3 DEF SumOf
  <1> QED
    BY <1>2, <1>3, <1>4, <1>5
       DEF VerifyInv, CoverInv, OnlyVerifiedMoneyCounts, CoveredInvoicesArePaid,
           Flipped, TotalsUpdated

LEMMA MoneyInvariant == CallSpec => [](LinkInv /\ VerifyInv /\ CoverInv)
  <1>1. ASSUME TypeOK, TypeOK', RowInv, LinkInv, VerifyInv, CoverInv, [CallStep]_vars
        PROVE  LinkInv' /\ VerifyInv' /\ CoverInv'
    <2>1. CASE UNCHANGED vars
      <3>1. LinkInv'
        BY <1>1, <2>1 DEF LinkInv, vars, tables
      <3>2. VerifyInv'
        BY <1>1, <2>1 DEF VerifyInv, OnlyVerifiedMoneyCounts, CompletedPayments, Verified, SumOf,
           LinkedTo, Exists, vars, tables, reads
      <3>3. CoverInv'
        BY <1>1, <2>1 DEF CoverInv, CoveredInvoicesArePaid, CompletedPayments, SumOf,
           LinkedTo, Exists, vars, tables, locks, reads
      <3> QED
        BY <3>1, <3>2, <3>3
    <2>2. CASE CallStep
      BY <1>1, <2>2, LinksStay, VerifyInvStays, CoverInvStays DEF CallStep
    <2> QED
      BY <1>1, <2>1, <2>2
  <1> QED
    BY LinksAtFirst, MoneyAtFirst, TypesInvariant, RowsStay, <1>1, PTL DEF CallSpec

(* Neither the paid amount nor a PAID invoice counts money that no         *)
(* verification accepted, whatever calls run at once or are aborted.       *)
THEOREM VerifiedMoneyOnly == Spec => []OnlyVerifiedMoneyCounts
  <1>1. VerifyInv => OnlyVerifiedMoneyCounts
    BY DEF VerifyInv
  <1> QED
    BY SpecCalls, MoneyInvariant, <1>1, PTL

(* An invoice whose completed payments come to its amount is PAID, though  *)
(* its halves be verified at once: the enrolment's row lock has the second *)
(* verification add up after the first has committed.                      *)
THEOREM CoveredIsPaid == Spec => []CoveredInvoicesArePaid
  <1>1. CoverInv => CoveredInvoicesArePaid
    BY DEF CoverInv
  <1> QED
    BY SpecCalls, MoneyInvariant, <1>1, PTL

-----------------------------------------------------------------------------
(* No circular wait *)

(* A step of a call takes a lock for itself, frees its own, or neither,    *)
(* and leaves its locks with a label at which they are held.               *)
LEMMA LocksOfStep ==
    ASSUME TypeOK, RowInv, HoldersAreUnderWay, NEW r \in Requests,
           Arrive(r) \/ Proceed(r) \/ Abort(r)
    PROVE  /\ \A k \in Keys : /\ paymentLock'[k] \in {paymentLock[k], r, Nobody}
                              /\ paymentLock'[k] = r => pc'[r] \in Flipped
           /\ enrolmentLock' \in {enrolmentLock, r, Nobody}
           /\ enrolmentLock' = r => pc'[r] \in TotalsUpdated
           /\ counterLock' \in {counterLock, r, Nobody}
           /\ counterLock' = r => pc'[r] = "insert"
  <1>0. /\ r # Nobody /\ pc[r] \in PCs
        /\ \A label \in PCs : (pc' = [pc EXCEPT ![r] = label]) => pc'[r] = label
        /\ \A k \in Keys : paymentLock[k] = r => pc[r] \in Flipped
        /\ enrolmentLock = r => pc[r] \in TotalsUpdated
        /\ counterLock = r => pc[r] = "insert"
    BY RequestsAssumption DEF TypeOK, HoldersAreUnderWay, PCs
  <1> USE <1>0 DEF Flipped, TotalsUpdated
  <1>1. CASE Arrive(r)
    BY <1>1 DEF Arrive, Record, Decide, SetFeeOverride, CreatePlan, Start, locks
  <1>2. CASE CheckInvoice(r) \/ Lookup(r) \/ ReadPayment(r)
    BY <1>2 DEF CheckInvoice, Lookup, ReadPayment, Look, locks
  <1>3. CASE ReadEnrolment(r) \/ ReadPlan(r) \/ FindTemplate(r)
    BY <1>3 DEF ReadEnrolment, ReadPlan, FindTemplate, Look, locks
  <1>4. CASE ReadTotal(r) \/ SumPaid(r) \/ ReadInvoice(r) \/ SumInvoice(r)
    <2>1. UNCHANGED locks /\ pc[r] \in Flipped /\ pc[r] # "updateTotals"
      BY <1>4 DEF ReadTotal, SumPaid, ReadInvoice, SumInvoice, Look
    <2>2. pc'[r] \in Flipped /\ (pc[r] \in TotalsUpdated => pc'[r] \in TotalsUpdated)
      BY <1>4 DEF ReadTotal, SumPaid, ReadInvoice, SumInvoice, Look, Goto, TypeOK
    <2> QED
      BY <2>1, <2>2 DEF locks
  <1>5. CASE CreatePayment(r)
    BY <1>5 DEF CreatePayment, locks
  <1>6. CASE FlipPayment(r) \/ TakeInvoiceNumber(r)
    BY <1>6 DEF FlipPayment, TakeInvoiceNumber, Goto, TypeOK
  <1>7. CASE UpdateTotals(r)
    BY <1>7 DEF UpdateTotals, Goto, TypeOK
  <1>8. CASE ReleaseLocks(r)
    BY <1>8 DEF ReleaseLocks, TypeOK
  <1>9. CASE \/ RejectPayment(r) \/ CommitVerification(r) \/ OverrideFee(r)
             \/ InsertInvoices(r) \/ RefuseInvoices(r) \/ Abort(r)
    BY <1>8, <1>9 DEF RejectPayment, CommitVerification, OverrideFee, InsertInvoices,
       RefuseInvoices, Abort, Commit
  <1> QED
    BY <1>1, <1>2, <1>3, <1>4, <1>5, <1>6, <1>7, <1>9 DEF Proceed

(* So a held lock stays with a call that will free it. *)
LEMMA HoldersStay ==
    ASSUME TypeOK, RowInv, HoldersAreUnderWay, [CallStep]_vars
    PROVE  HoldersAreUnderWay'
  <1>1. CASE UNCHANGED vars
    BY <1>1 DEF HoldersAreUnderWay, vars, locks
  <1>2. ASSUME NEW r \in Requests, Arrive(r) \/ Proceed(r) \/ Abort(r)
        PROVE  HoldersAreUnderWay'
    <2>1. \A q \in Requests \ {r} : pc'[q] = pc[q]
      BY <1>2, OthersStay DEF Others
    <2>2. ASSUME NEW k \in Keys, paymentLock'[k] # Nobody
          PROVE  pc'[paymentLock'[k]] \in Flipped
      <3>1. paymentLock'[k] \in {paymentLock[k], r} /\ paymentLock[k] \in Requests \cup {Nobody}
        BY <1>2, <2>2, LocksOfStep DEF TypeOK
      <3>2. paymentLock'[k] = r => pc'[r] \in Flipped
        BY <1>2, LocksOfStep
      <3> QED
        BY <2>1, <2>2, <3>1, <3>2 DEF HoldersAreUnderWay
    <2>3. ASSUME enrolmentLock' # Nobody PROVE pc'[enrolmentLock'] \in TotalsUpdated
      <3>1. enrolmentLock' \in {enrolmentLock, r} /\ enrolmentLock \in Requests \cup {Nobody}
        BY <1>2, <2>3, LocksOfStep DEF TypeOK
      <3>2. enrolmentLock' = r => pc'[r] \in TotalsUpdated
        BY <1>2, LocksOfStep
      <3> QED
        BY <2>1, <2>3, <3>1, <3>2 DEF HoldersAreUnderWay
    <2>4. ASSUME counterLock' # Nobody PROVE pc'[counterLock'] = "insert"
      <3>1. counterLock' \in {counterLock, r} /\ counterLock \in Requests \cup {Nobody}
        BY <1>2, <2>4, LocksOfStep DEF TypeOK
      <3>2. counterLock' = r => pc'[r] = "insert"
        BY <1>2, LocksOfStep
      <3> QED
        BY <2>1, <2>4, <3>1, <3>2 DEF HoldersAreUnderWay
    <2> QED
      BY <2>2, <2>3, <2>4 DEF HoldersAreUnderWay
  <1> QED
    BY <1>1, <1>2 DEF CallStep

(* Whoever waits for a payment or for the counter waits for a call that at *)
(* most waits for the enrolment, and the holder of that asks for nothing.  *)
LEMMA HoldersGoOn ==
    ASSUME TypeOK, RowInv, HoldersAreUnderWay
    PROVE  NoCircularWait
  <1> SUFFICES ASSUME NEW r \in UnderWay, Waits(r)
               PROVE  \E q \in UnderWay : ~Waits(q)
    BY DEF NoCircularWait
  <1> USE DEF UnderWay, InTransaction, Flipped, TotalsUpdated
  <1>1. ASSUME enrolmentLock # Nobody
        PROVE  \E q \in UnderWay : ~Waits(q)
    <2>1. PICK h \in Requests : h = enrolmentLock
      BY <1>1 DEF TypeOK
    <2>2. pc[h] \in TotalsUpdated
      BY <1>1, <2>1 DEF HoldersAreUnderWay
    <2> QED
      BY <2>2 DEF Waits, NeedsEnrolment
  <1>2. ASSUME NEW h \in Requests, pc[h] \in Flipped \cup {"insert"}
        PROVE  \E q \in UnderWay : ~Waits(q)
    BY <1>1, <1>2 DEF Waits
  <1>3. CASE pc[r] \in {"flip", "reject"}
    <2>1. job[r].key \in Keys /\ paymentLock[job[r].key] # Nobody
      BY <1>3 DEF Waits, NeedsEnrolment, RowInv, WithKey, Deciding
    <2>2. PICK h \in Requests : h = paymentLock[job[r].key]
      BY <2>1 DEF TypeOK
    <2> QED
      BY <1>2, <2>1, <2>2 DEF HoldersAreUnderWay
  <1>4. CASE pc[r] = "number"
    <2>1. counterLock # Nobody
      BY <1>4 DEF Waits, NeedsEnrolment
    <2>2. PICK h \in Requests : h = counterLock
      BY <2>1 DEF TypeOK
    <2> QED
      BY <1>2, <2>1, <2>2 DEF HoldersAreUnderWay
  <1> QED
    BY <1>1, <1>3, <1>4 DEF Waits

LEMMA NoCircle == CallSpec => []NoCircularWait
  <1>1. Init => HoldersAreUnderWay
    BY DEF Init, HoldersAreUnderWay
  <1> QED
    BY <1>1, HoldersStay, HoldersGoOn, TypesInvariant, RowsStay, PTL DEF CallSpec

(* fees.service.ts 370: verifications take a payment row and then the      *)
(* enrolment row, plans the invoice counter and then the enrolment row; no *)
(* number of them wait for one another in a circle.                        *)
THEOREM NoCallsWaitInACircle == Spec => []NoCircularWait
  BY SpecCalls, NoCircle, PTL

-----------------------------------------------------------------------------
(* Calls one after another *)

(* What invoices come to. *)
LEMMA AmountsAre ==
    ASSUME NEW rows
    PROVE  AmountOf(rows) = Total([i \in rows |-> i.amount], rows)
  <1> DEFINE w == [i \in rows |-> i.amount]
  <1>1. \A i \in rows : w[i] = i.amount
    OBVIOUS
  <1> HIDE DEF w
  <1>2. AmountOf(rows) = Total(w, rows)
    BY <1>1, AmountsAreTotal DEF AmountOf
  <1> QED
    BY <1>2 DEF w

(* The invoices of a plan come to the fee. *)
LEMMA PlanAmounts ==
    ASSUME NEW owner, NEW type, NEW count \in Nat \ {0}, NEW fee \in Nat
    PROVE  AmountOf(PlannedInvoices(owner, type, count, fee)) = fee
  <1> DEFINE parts == SplitTotalEvenly(fee, count)
             row == [n \in 1 .. count |->
                       [id |-> <<owner, n>>, amount |-> parts[n], status |-> "PENDING",
                        type |-> type, no |-> IF type = "FULL" THEN 0 ELSE n]]
             rows == {row[n] : n \in 1 .. count}
             w == [i \in rows |-> i.amount]
  <1>1. parts \in [1 .. count -> Nat]
    BY SplitIsExact
  <1>2. PlannedInvoices(owner, type, count, fee) = rows
    BY DEF PlannedInvoices
  <1>3. \A n \in 1 .. count : row[n].amount = parts[n] /\ row[n].id = <<owner, n>>
    OBVIOUS
  <1>4. Total(parts, 1 .. count) = fee
    BY SplitAddsUp
  <1> HIDE DEF parts, row
  <1>5. \A m, n \in 1 .. count : row[m] = row[n] => m = n
    BY <1>3
  <1>6. \A n \in 1 .. count : w[row[n]] = parts[n]
    BY <1>3
  <1>7. IsFiniteSet(1 .. count) /\ \A n \in 1 .. count : parts[n] \in Int
    BY <1>1, FS_Interval
  <1> HIDE DEF w
  <1>8. Total(parts, 1 .. count) = Total(w, rows)
    BY <1>5, <1>6, <1>7, TotalOfRenamed
  <1>9. AmountOf(rows) = Total(w, rows)
    BY AmountsAre DEF w
  <1> QED
    BY <1>2, <1>4, <1>8, <1>9

(* There are finitely many invoices. *)
LEMMA InvoicesAreFinite ==
    ASSUME TypeOK, \A i, j \in invoices : i.id = j.id => i = j
    PROVE  IsFiniteSet(invoices)
  <1>1. IsFiniteSet(InvoiceIds)
    <2>1. IsFiniteSet(Requests \cup {Nobody})
      BY RequestsAssumption, FS_AddElement
    <2>2. IsFiniteSet(1 .. MaxCount)
      BY CountsAreBounded, FS_Interval
    <2> QED
      BY <2>1, <2>2, FS_Product DEF InvoiceIds
  <1> DEFINE ids == [i \in invoices |-> i.id]
  <1>2. ids \in Injection(invoices, InvoiceIds)
    BY DEF Injection, IsInjective, TypeOK, Invoice
  <1> QED
    BY <1>1, <1>2, FS_Injection DEF ExistsInjection

(* A verification changes no amount. *)
LEMMA MarkedAmounts ==
    ASSUME TypeOK, LinkInv, NEW r \in Requests
    PROVE  AmountOf(MarkedPaid(r)) = AmountOf(invoices)
  <1> DEFINE marked == [i \in invoices |->
                          IF i.id = payments[job[r].key].invoice /\ covered[r]
                          THEN [i EXCEPT !.status = "PAID"] ELSE i]
             rows == {marked[i] : i \in invoices}
             v == [i \in rows |-> i.amount]
             w == [i \in invoices |-> i.amount]
  <1>1. MarkedPaid(r) = rows
    BY DEF MarkedPaid
  <1>2. ASSUME NEW i \in invoices
        PROVE  marked[i].id = i.id /\ marked[i].amount = i.amount /\ i.amount \in Int
    <2>1. i \in Invoice
      BY DEF TypeOK
    <2>2. PICK paidOne : paidOne = [i EXCEPT !.status = "PAID"]
      OBVIOUS
    <2>3. paidOne.id = i.id /\ paidOne.amount = i.amount
      BY <2>1, <2>2 DEF Invoice
    <2>4. marked[i] = paidOne \/ marked[i] = i
      BY <2>2
    <2> HIDE DEF marked
    <2> QED
      BY <2>1, <2>3, <2>4 DEF Invoice
  <1> HIDE DEF marked
  <1>3. \A i, j \in invoices : marked[i] = marked[j] => i = j
    BY <1>2 DEF LinkInv
  <1>4. \A i \in invoices : v[marked[i]] = w[i] /\ w[i] \in Int
    BY <1>2
  <1>5. IsFiniteSet(invoices)
    BY InvoicesAreFinite DEF LinkInv
  <1> HIDE DEF v, w
  <1>6. Total(w, invoices) = Total(v, rows)
    BY <1>3, <1>4, <1>5, TotalOfRenamed
  <1>7. AmountOf(rows) = Total(v, rows) /\ AmountOf(invoices) = Total(w, invoices)
    BY AmountsAre DEF v, w
  <1> QED
    BY <1>1, <1>6, <1>7

(* As long as calls come one after another, the only one under way finds   *)
(* what it has read unchanged.                                             *)
Active == Outside \cup InTransaction

SerialCall(r) ==
    /\ pc[r] \in {"flip", "reject"} \cup Flipped =>
          payments[job[r].key].status = "PENDING_VERIFICATION"
    /\ pc[r] \in {"sumPaid", "updateTotals"} \cup TotalsUpdated => myTotal[r] = total
    /\ pc[r] \in {"updateTotals"} \cup TotalsUpdated =>
          myPaid[r] = SumOf(CompletedPayments \cup {job[r].key})
    /\ pc[r] = "override" => invoices = {} /\ myPaid[r] = paid
    /\ pc[r] \in {"template", "number", "insert"} => invoices = {} /\ myTotal[r] = total

SerialInv ==
    /\ \A q, r \in Requests : pc[q] \in Active /\ pc[r] \in Active => q = r
    /\ paid = SumOf(CompletedPayments)
    /\ balance = total - paid
    /\ \A r \in Requests : SerialCall(r)
    /\ OnePlan
    /\ invoices # {} => AmountOf(invoices) = total
    /\ DecidedOnce

(* A decision that has been made shows in the payment's status. *)
DecidedInv ==
    \A r \in Requests : job[r].op \in {"verify", "reject"} =>
        /\ pc[r] \in Active => pc[r] \in Deciding
        /\ pc[r] = "done" => /\ job[r].key \in Keys
                             /\ payments[job[r].key].status \in {"COMPLETED", "FAILED"}

LEMMA DecidingGoesOn ==
    ASSUME TypeOK, NEW r \in Requests, Proceed(r) \/ Abort(r), pc[r] \in Deciding
    PROVE  \/ pc'[r] \in Deciding \cup {"refused", "aborted"}
           \/ CommitVerification(r) \/ RejectPayment(r)
  <1> USE DEF Goto, Deciding, Flipped
  <1>1. CASE ReadPayment(r)
    BY <1>1 DEF ReadPayment, Look, TypeOK
  <1>2. CASE FlipPayment(r)
    BY <1>2 DEF FlipPayment, TypeOK
  <1>3. CASE ReadTotal(r) \/ SumPaid(r)
    BY <1>3 DEF ReadTotal, SumPaid, Look, TypeOK
  <1>4. CASE UpdateTotals(r)
    BY <1>4 DEF UpdateTotals, TypeOK
  <1>5. CASE ReadInvoice(r) \/ SumInvoice(r)
    BY <1>5 DEF ReadInvoice, SumInvoice, Look, TypeOK
  <1>6. CASE Abort(r)
    BY <1>6 DEF Abort, TypeOK
  <1>7. ~CheckInvoice(r) /\ ~Lookup(r) /\ ~CreatePayment(r)
    BY DEF CheckInvoice, Lookup, CreatePayment, Look
  <1>8. ~ReadEnrolment(r) /\ ~OverrideFee(r) /\ ~ReadPlan(r) /\ ~FindTemplate(r)
        /\ ~TakeInvoiceNumber(r) /\ ~InsertInvoices(r) /\ ~RefuseInvoices(r)
    BY DEF ReadEnrolment, OverrideFee, ReadPlan, FindTemplate, TakeInvoiceNumber,
       InsertInvoices, RefuseInvoices, Look
  <1> QED
    BY <1>1, <1>2, <1>3, <1>4, <1>5, <1>6, <1>7, <1>8 DEF Proceed

LEMMA OnlyActiveProceed ==
    ASSUME TypeOK, NEW r \in Requests, Proceed(r) \/ Abort(r)
    PROVE  pc[r] \in Active
  <1>1. pc[r] # "idle"
    BY DEF Proceed, Abort, CheckInvoice, Lookup, CreatePayment, ReadPayment,
       FlipPayment, RejectPayment, ReadTotal, SumPaid, UpdateTotals, ReadInvoice, SumInvoice,
       CommitVerification, ReadEnrolment, OverrideFee, ReadPlan, FindTemplate,
       TakeInvoiceNumber, InsertInvoices, RefuseInvoices, Look, Outside, InTransaction, Flipped
  <1> QED
    BY <1>1, NotDone DEF TypeOK, Active

LEMMA DecidedStays ==
    ASSUME TypeOK, RowInv, DecidedInv, NEW r \in Requests, Arrive(r) \/ Proceed(r) \/ Abort(r)
    PROVE  DecidedInv'
  <1>1. Others(r)
    BY OthersStay
  <1>2. ASSUME NEW k \in Keys, payments[k].status \in {"COMPLETED", "FAILED"}
        PROVE  payments'[k].status \in {"COMPLETED", "FAILED"}
    <2>1. ASSUME NEW s \in {"COMPLETED", "FAILED"},
                 payments' = [payments EXCEPT ![job[r].key] = [@ EXCEPT !.status = s]]
          PROVE  payments'[k].status \in {"COMPLETED", "FAILED"}
      <3>1. payments[k] \in Payment
        BY <1>2 DEF TypeOK, NoPayment
      <3>2. PICK row : row = [payments[k] EXCEPT !.status = s]
        OBVIOUS
      <3>3. row.status = s
        BY <3>1, <3>2 DEF Payment
      <3>4. payments'[k] = payments[k] \/ payments'[k] = row
        BY <2>1, <3>2 DEF TypeOK
      <3> QED
        BY <1>2, <3>3, <3>4
    <2>2. CASE CommitVerification(r) \/ RejectPayment(r)
      BY <2>1, <2>2 DEF CommitVerification, RejectPayment
    <2>3. CASE CreatePayment(r)
      <3>1. Exists(k)
        BY <1>2 DEF Exists
      <3> QED
        BY <1>2, <2>3, <3>1 DEF CreatePayment, TypeOK
    <2>4. CASE ~CommitVerification(r) /\ ~RejectPayment(r) /\ ~CreatePayment(r)
      BY <1>2, <2>4, OthersKeep
    <2> QED
      BY <2>2, <2>3, <2>4
  <1>3. ASSUME NEW q \in Requests \ {r}, job'[q].op \in {"verify", "reject"}
        PROVE  /\ pc'[q] \in Active => pc'[q] \in Deciding
               /\ pc'[q] = "done" => /\ job'[q].key \in Keys
                                     /\ payments'[job'[q].key].status \in {"COMPLETED", "FAILED"}
    BY <1>1, <1>2, <1>3 DEF Others, DecidedInv
  <1>4. CASE Arrive(r)
    <2>1. PICK new \in Job : \E label : Arrived(r, new, label)
      BY <1>4, Arrivals
    <2>2. job'[r] = new /\ pc'[r] # "done"
          /\ (new.op \in {"verify", "reject"} => pc'[r] \in Deciding)
      BY <2>1 DEF Arrived, TypeOK
    <2> QED
      BY <1>3, <2>2 DEF DecidedInv
  <1>5. CASE Proceed(r) \/ Abort(r)
    <2>1. job' = job /\ pc[r] \in Active
      BY <1>5, OnlyActiveProceed, ProceedGoesOn DEF GoesOn
    <2>2. ASSUME job[r].op \in {"verify", "reject"}
          PROVE  /\ pc'[r] \in Active => pc'[r] \in Deciding
                 /\ pc'[r] = "done" => /\ job[r].key \in Keys
                                       /\ payments'[job[r].key].status \in {"COMPLETED", "FAILED"}
      <3>1. pc[r] \in Deciding /\ job[r].key \in Keys /\ Exists(job[r].key)
        BY <2>1, <2>2 DEF DecidedInv, RowInv, WithKey
      <3>2. CASE pc'[r] \in Deciding \cup {"refused", "aborted"}
        BY <3>2 DEF Active, Deciding, Outside, InTransaction, Flipped
      <3>3. ASSUME NEW s \in {"COMPLETED", "FAILED"}, Commit(r),
                   payments' = [payments EXCEPT ![job[r].key] = [@ EXCEPT !.status = s]]
            PROVE  pc'[r] = "done" /\ payments'[job[r].key].status \in {"COMPLETED", "FAILED"}
        <4>1. payments[job[r].key] \in Payment
          BY <3>1, PresentRows
        <4>2. PICK row : row = [payments[job[r].key] EXCEPT !.status = s]
          OBVIOUS
        <4>3. row.status = s
          BY <4>1, <4>2 DEF Payment
        <4>4. payments'[job[r].key] = row
          BY <3>1, <3>3, <4>2 DEF TypeOK
        <4> QED
          BY <3>3, <4>3, <4>4 DEF Commit, Goto, TypeOK
      <3>4. CASE CommitVerification(r) \/ RejectPayment(r)
        <4>1. pc'[r] = "done" /\ payments'[job[r].key].status \in {"COMPLETED", "FAILED"}
          BY <3>3, <3>4 DEF CommitVerification, RejectPayment
        <4> QED
          BY <3>1, <4>1 DEF Active, Outside, InTransaction, Flipped
      <3> QED
        BY <1>5, <3>1, <3>2, <3>4, DecidingGoesOn
    <2> QED
      BY <1>3, <2>1, <2>2 DEF DecidedInv
  <1> QED
    BY <1>4, <1>5

(* One call under way at once. *)
LEMMA OneAtOnce ==
    ASSUME NEW busy, IsFiniteSet(busy), Cardinality(busy) \in Nat, ~(Cardinality(busy) > 1)
    PROVE  \A q, r \in busy : q = r
  <1> SUFFICES ASSUME NEW q \in busy, NEW r \in busy, q # r PROVE FALSE
    OBVIOUS
  <1>1. {q} \subseteq busy /\ {q} # busy /\ Cardinality({q}) = 1
    BY FS_Singleton
  <1>2. Cardinality({q}) < Cardinality(busy)
    BY <1>1, FS_Subset
  <1> QED
    BY <1>1, <1>2

(* Who writes the fee and the balance. *)
LEMMA TotalsStay ==
    ASSUME NEW r \in Requests, Arrive(r) \/ Proceed(r) \/ Abort(r), ~OverrideFee(r)
    PROVE  total' = total /\ (~CommitVerification(r) => balance' = balance)
  <1>1. Arrive(r) => UNCHANGED <<total, balance>>
    BY DEF Arrive, Record, Decide, SetFeeOverride, CreatePlan, Start, tables
  <1>2. CheckInvoice(r) \/ Lookup(r) \/ ReadPayment(r) \/ ReadTotal(r) \/ SumPaid(r)
        \/ ReadInvoice(r) \/ SumInvoice(r) => UNCHANGED <<total, balance>>
    BY DEF CheckInvoice, Lookup, ReadPayment, ReadTotal, SumPaid, ReadInvoice, SumInvoice,
           Look, tables
  <1>3. ReadEnrolment(r) \/ ReadPlan(r) \/ FindTemplate(r) => UNCHANGED <<total, balance>>
    BY DEF ReadEnrolment, ReadPlan, FindTemplate, Look, tables
  <1>4. FlipPayment(r) \/ UpdateTotals(r) \/ CreatePayment(r) => UNCHANGED <<total, balance>>
    BY DEF FlipPayment, UpdateTotals, CreatePayment, tables
  <1>5. TakeInvoiceNumber(r) \/ InsertInvoices(r) \/ RejectPayment(r) \/ RefuseInvoices(r)
        \/ Abort(r) => UNCHANGED <<total, balance>>
    BY DEF TakeInvoiceNumber, InsertInvoices, RejectPayment, RefuseInvoices, Abort, tables
  <1>6. CommitVerification(r) => UNCHANGED total
    BY DEF CommitVerification
  <1> QED
    BY <1>1, <1>2, <1>3, <1>4, <1>5, <1>6 DEF Proceed

(* A payment that is rejected had not been completed. *)
LEMMA CompletedKept ==
    ASSUME TypeOK, RowInv, SerialInv, NEW r \in Requests, Arrive(r) \/ Proceed(r) \/ Abort(r),
           ~CommitVerification(r)
    PROVE  CompletedPayments' = CompletedPayments
  <1>1. CompletedPayments' \subseteq CompletedPayments
    BY CompletedBy
  <1>2. ASSUME NEW k \in Keys, payments[k].status = "COMPLETED"
        PROVE  payments'[k] = payments[k]
    <2>1. CASE RejectPayment(r)
      <3>1. payments[job[r].key].status = "PENDING_VERIFICATION"
        BY <2>1 DEF SerialInv, SerialCall, RejectPayment
      <3>2. k # job[r].key
        BY <1>2, <3>1
      <3>3. PICK row : row = [payments[job[r].key] EXCEPT !.status = "FAILED"]
        OBVIOUS
      <3>4. payments' = [payments EXCEPT ![job[r].key] = row]
        BY <2>1, <3>3 DEF RejectPayment
      <3> QED
        BY <3>2, <3>4 DEF TypeOK
    <2>2. CASE CreatePayment(r)
      <3>1. Exists(k)
        BY <1>2 DEF Exists
      <3> QED
        BY <2>2, <3>1 DEF CreatePayment, TypeOK
    <2>3. CASE ~RejectPayment(r) /\ ~CreatePayment(r)
      BY <2>3, OthersKeep
    <2> QED
      BY <2>1, <2>2, <2>3
  <1>3. CompletedPayments \subseteq CompletedPayments'
    BY <1>2 DEF CompletedPayments
  <1> QED
    BY <1>1, <1>3

(* The call that takes a step remembers what it needs. *)
LEMMA SerialCallGoesOn ==
    ASSUME TypeOK, RowInv, SerialInv, NEW r \in Requests, Arrive(r) \/ Proceed(r) \/ Abort(r)
    PROVE  SerialCall(r)'
  <1> USE DEF TotalsUpdated, Flipped, Goto
  <1>0. SerialCall(r)
    BY DEF SerialInv
  <1>1. ASSUME pc'[r] \notin {"flip", "reject", "override", "template", "number", "insert"}
                            \cup Flipped
        PROVE  SerialCall(r)'
    BY <1>1 DEF SerialCall
  <1>2. CASE Arrive(r)
    <2>1. PICK new \in Job : \E label : Arrived(r, new, label)
      BY <1>2, Arrivals
    <2> QED
      BY <1>1, <2>1 DEF Arrived, TypeOK
  <1>3. CASE CheckInvoice(r) \/ Lookup(r)
    BY <1>1, <1>3 DEF CheckInvoice, Lookup, Look, TypeOK
  <1>4. CASE CreatePayment(r) \/ RefuseInvoices(r) \/ Abort(r)
    BY <1>1, <1>4 DEF CreatePayment, RefuseInvoices, Abort, TypeOK
  <1>5. CASE RejectPayment(r) \/ CommitVerification(r) \/ OverrideFee(r) \/ InsertInvoices(r)
    BY <1>1, <1>5 DEF RejectPayment, CommitVerification, OverrideFee, InsertInvoices, Commit, TypeOK
  <1>6. CASE ReadPayment(r)
    BY <1>6 DEF ReadPayment, Look, TypeOK, SerialCall, tables
  <1>7. CASE FlipPayment(r)
    BY <1>0, <1>7 DEF FlipPayment, TypeOK, SerialCall, tables
  <1>8. CASE ReadTotal(r)
    BY <1>0, <1>8 DEF ReadTotal, Look, TypeOK, SerialCall, tables
  <1>9. CASE SumPaid(r)
    <2>1. CompletedSeenBy(r) = CompletedPayments \cup {job[r].key}
      BY <1>9 DEF CompletedSeenBy, CompletedPayments, SumPaid, Look, RowInv, WithKey, Deciding
    <2>2. myPaid'[r] = SumOf(CompletedPayments \cup {job[r].key})
      BY <1>9, <2>1 DEF SumPaid, TypeOK
    <2>3. UNCHANGED <<payments, job, total>> /\ pc[r] = "sumPaid" /\ pc'[r] = "updateTotals"
          /\ myTotal' = myTotal
      BY <1>9 DEF SumPaid, Look, TypeOK, tables
    <2>4. SumOf(CompletedPayments \cup {job[r].key})' = SumOf(CompletedPayments \cup {job[r].key})
      BY <2>3 DEF SumOf, CompletedPayments
    <2> QED
      BY <1>0, <2>2, <2>3, <2>4 DEF SerialCall
  <1>10. CASE UpdateTotals(r)
    <2>1. UNCHANGED <<payments, job, total, myTotal, myPaid>>
          /\ pc[r] = "updateTotals" /\ pc'[r] \in {"commit", "readInvoice"}
      BY <1>10 DEF UpdateTotals, TypeOK, tables, reads
    <2> QED
      BY <1>0, <2>1 DEF SerialCall, SumOf, CompletedPayments
  <1>11. CASE ReadInvoice(r) \/ SumInvoice(r)
    <2>1. UNCHANGED <<payments, job, total, myTotal, myPaid>>
          /\ pc[r] \in {"readInvoice", "sumInvoice"} /\ pc'[r] \in {"commit", "sumInvoice"}
      BY <1>11 DEF ReadInvoice, SumInvoice, Look, TypeOK, tables, reads
    <2> QED
      BY <1>0, <2>1 DEF SerialCall, SumOf, CompletedPayments
  <1>12. CASE ReadEnrolment(r)
    BY <1>12 DEF ReadEnrolment, Look, TypeOK, SerialCall, tables
  <1>13. CASE ReadPlan(r)
    BY <1>13 DEF ReadPlan, Look, TypeOK, SerialCall, tables
  <1>14. CASE FindTemplate(r)
    BY <1>0, <1>14 DEF FindTemplate, Look, TypeOK, SerialCall, tables
  <1>15. CASE TakeInvoiceNumber(r)
    BY <1>0, <1>15 DEF TakeInvoiceNumber, TypeOK, SerialCall, tables, reads
  <1> QED
    BY <1>2, <1>3, <1>4, <1>5, <1>6, <1>7, <1>8, <1>9, <1>10, <1>11, <1>12, <1>13, <1>14, <1>15
       DEF Proceed

LEMMA SerialStays ==
    ASSUME TypeOK, TypeOK', RowInv, LinkInv, InstalmentsInv, DecidedInv, SerialInv,
           NEW r \in Requests, Arrive(r) \/ Proceed(r) \/ Abort(r),
           \A p, q \in Requests : pc'[p] \in Active /\ pc'[q] \in Active => p = q
    PROVE  SerialInv'
  <1>1. Others(r) /\ KeepsRows /\ InvoicesStep(r)
    BY OthersStay, StepKeepsRows, InvoicesStepHolds DEF CallStep
  <1>2. ASSUME NEW q \in Requests, q # r
        PROVE  pc'[q] \notin Active
    <2>1. CASE Arrive(r)
      <3>1. PICK new \in Job : \E label : Arrived(r, new, label)
        BY <2>1, Arrivals
      <3>2. pc'[r] \in Active
        BY <3>1 DEF Arrived, TypeOK, Active, Outside, InTransaction
      <3> QED
        BY <1>2, <3>2
    <2>2. CASE Proceed(r) \/ Abort(r)
      <3>1. pc[r] \in Active
        BY <2>2, OnlyActiveProceed
      <3> QED
        BY <1>1, <1>2, <3>1 DEF SerialInv, Others
    <2> QED
      BY <2>1, <2>2
  <1>3. \A q \in Requests : SerialCall(q)'
    <2>1. ASSUME NEW q \in Requests, q # r
          PROVE  SerialCall(q)'
      <3>1. pc'[q] \notin Active
        BY <1>2, <2>1
      <3> QED
        BY <3>1 DEF SerialCall, Active, Outside, InTransaction, Flipped, TotalsUpdated
    <2> QED
      BY <2>1, SerialCallGoesOn
  <1>4. CompletedPayments \subseteq Keys /\ CompletedPayments' \subseteq Keys
        /\ \A k \in CompletedPayments : Exists(k)
    BY DEF CompletedPayments, Exists
  <1>5. paid' = SumOf(CompletedPayments)'
    <2>1. CASE CommitVerification(r)
      <3>1. CompletedPayments' = CompletedPayments \cup {job[r].key}
        BY <2>1, CompletedBy
      <3>2. pc[r] = "commit" /\ paid' = myPaid[r]
        BY <2>1 DEF CommitVerification
      <3>3. Exists(job[r].key) /\ job[r].key \in Keys
        BY <3>2 DEF RowInv, WithKey, Deciding, Flipped
      <3>4. PICK S : S = CompletedPayments \cup {job[r].key}
        OBVIOUS
      <3>5. paid' = Value(payments, S)
        BY <3>2, <3>4 DEF SerialInv, SerialCall, TotalsUpdated, SumOf
      <3>6. \A k \in S : payments[k].amount = payments'[k].amount
        BY <1>1, <1>4, <3>3, <3>4 DEF KeepsRows
      <3>7. Value(payments, S) = Value(payments', S)
        BY <1>4, <3>3, <3>4, <3>6, SameValue
      <3> QED
        BY <3>1, <3>4, <3>5, <3>7 DEF SumOf
    <2>2. CASE ~CommitVerification(r)
      <3>1. CompletedPayments' = CompletedPayments /\ paid' = paid
        BY <2>2, CompletedKept, PaidStays
      <3>2. PICK S : S = CompletedPayments
        OBVIOUS
      <3>3. \A k \in S : payments[k].amount = payments'[k].amount
        BY <1>1, <1>4, <3>2 DEF KeepsRows
      <3>4. Value(payments, S) = Value(payments', S)
        BY <1>4, <3>2, <3>3, SameValue
      <3> QED
        BY <3>1, <3>2, <3>4 DEF SumOf, SerialInv
    <2> QED
      BY <2>1, <2>2
  <1>6. balance' = total' - paid'
    <2>1. CASE CommitVerification(r)
      <3>1. ~OverrideFee(r) /\ pc[r] = "commit" /\ paid' = myPaid[r]
            /\ balance' = myTotal[r] - myPaid[r]
        BY <2>1 DEF CommitVerification, OverrideFee
      <3>2. myTotal[r] = total /\ total' = total
        BY <3>1, TotalsStay DEF SerialInv, SerialCall, TotalsUpdated
      <3> QED
        BY <3>1, <3>2
    <2>2. CASE OverrideFee(r)
      <3>1. pc[r] = "override" /\ balance' = total' - myPaid[r] /\ paid' = paid
        BY <2>2 DEF OverrideFee
      <3> QED
        BY <3>1 DEF SerialInv, SerialCall
    <2>3. CASE ~CommitVerification(r) /\ ~OverrideFee(r)
      BY <2>3, TotalsStay, PaidStays DEF SerialInv
    <2> QED
      BY <2>1, <2>2, <2>3
  <1>7. OnePlan' /\ (invoices' # {} => AmountOf(invoices)' = total')
    <2>1. CASE CommitVerification(r)
      <3>1. invoices' = MarkedPaid(r) /\ total' = total
        BY <2>1 DEF CommitVerification
      <3>2. AmountOf(invoices') = AmountOf(invoices)
        BY <3>1, MarkedAmounts
      <3>3. ~InsertInvoices(r)
        BY <2>1 DEF CommitVerification, InsertInvoices
      <3>4. \A j \in invoices' : \E i \in invoices : j.id = i.id
        BY <1>1, <3>3 DEF InvoicesStep
      <3>5. OnePlan'
        BY <3>4 DEF SerialInv, OnePlan
      <3> QED
        BY <3>1, <3>2, <3>4, <3>5 DEF SerialInv
    <2>2. CASE InsertInvoices(r)
      <3>1. invoices' = invoices \cup PlannedInvoices(r, job[r].type, job[r].count, myTotal[r])
            /\ pc[r] = "insert" /\ total' = total
        BY <2>2 DEF InsertInvoices
      <3>2. invoices = {} /\ myTotal[r] = total
        BY <3>1 DEF SerialInv, SerialCall
      <3>3. invoices' = PlannedInvoices(r, job[r].type, job[r].count, total)
        BY <3>1, <3>2
      <3>4. job[r].count \in Nat \ {0} /\ total \in Nat
        BY <3>1 DEF InstalmentsInv, Planning, TypeOK
      <3>5. AmountOf(invoices') = total
        BY <3>3, <3>4, PlanAmounts
      <3>6. \A j \in invoices' : j.id[1] = r
        BY <3>3 DEF PlannedInvoices
      <3> QED
        BY <3>1, <3>5, <3>6 DEF OnePlan
    <2>3. CASE OverrideFee(r)
      <3>1. invoices' = {}
        BY <2>3 DEF OverrideFee, SerialInv, SerialCall
      <3> QED
        BY <3>1 DEF OnePlan
    <2>4. CASE ~CommitVerification(r) /\ ~InsertInvoices(r) /\ ~OverrideFee(r)
      <3>1. invoices' = invoices /\ total' = total
        BY <2>4, InvoicesStay, TotalsStay
      <3> QED
        BY <3>1 DEF SerialInv, OnePlan
    <2> QED
      BY <2>1, <2>2, <2>3, <2>4
  <1>8. ASSUME NEW q \in Requests, q # r, pc'[r] = "done", pc'[q] = "done",
               job'[r].op \in {"verify", "reject"}, job'[q].op \in {"verify", "reject"},
               job'[q].key = job'[r].key
        PROVE  FALSE
    <2>1. Proceed(r) \/ Abort(r)
      <3> SUFFICES ASSUME Arrive(r) PROVE FALSE
        OBVIOUS
      <3>1. PICK new \in Job : \E label : Arrived(r, new, label)
        BY Arrivals
      <3> QED
        BY <1>8, <3>1 DEF Arrived, TypeOK
    <2>2. job' = job /\ pc[r] \in Active
      BY <2>1, OnlyActiveProceed, ProceedGoesOn DEF GoesOn
    <2>3. pc[r] \in Deciding
      BY <1>8, <2>2 DEF DecidedInv
    <2>4. CommitVerification(r) \/ RejectPayment(r)
      BY <1>8, <2>1, <2>3, DecidingGoesOn DEF Deciding, Flipped
    <2>5. payments[job[r].key].status = "PENDING_VERIFICATION"
      BY <2>4 DEF CommitVerification, RejectPayment, SerialInv, SerialCall, Flipped
    <2>6. payments[job[q].key].status \in {"COMPLETED", "FAILED"}
      BY <1>1, <1>8, <2>2 DEF Others, DecidedInv
    <2> QED
      BY <1>8, <2>2, <2>5, <2>6
  <1>9. DecidedOnce'
    <2> SUFFICES ASSUME NEW p \in Requests, NEW q \in Requests, p # q,
                        pc'[p] = "done", pc'[q] = "done",
                        job'[p].op \in {"verify", "reject"}, job'[q].op \in {"verify", "reject"},
                        job'[p].key = job'[q].key
                 PROVE  FALSE
      BY DEF DecidedOnce
    <2>1. p # r /\ q # r
      BY <1>8
    <2> QED
      BY <1>1, <2>1 DEF Others, SerialInv, DecidedOnce
  <1> QED
    BY <1>3, <1>5, <1>6, <1>7, <1>9 DEF SerialInv

LEMMA SerialAtFirst == Init => SerialInv /\ DecidedInv
  <1> SUFFICES ASSUME Init PROVE SerialInv /\ DecidedInv
    OBVIOUS
  <1>1. TypeOK
    BY TypesAtFirst
  <1>2. \A r \in Requests : pc[r] = "idle" /\ job[r] = NoJob
    BY DEF Init
  <1>3. paid = 0 /\ balance = total
    BY DEF Init
  <1>4. CompletedPayments = {}
    BY CompletedAtFirst
  <1>5. SumOf(CompletedPayments) = 0
    <2>1. Value(payments, {}) = Total(Worth(payments), {})
      BY ValueIsTotal
    <2>2. Total(Worth(payments), {}) = 0
      BY FS_EmptySet, TotalStep
    <2> QED
      BY <1>4, <2>1, <2>2 DEF SumOf
  <1>6. OnePlan /\ (invoices # {} => AmountOf(invoices) = total)
    <2>1. PICK start \in StartPlans :
              invoices = IF start = 0 THEN {} ELSE PlannedInvoices(Nobody, "MONTHLY", start, total)
      BY DEF Init
    <2>2. CASE start = 0
      BY <2>1, <2>2 DEF OnePlan
    <2>3. CASE start # 0
      <3>1. start \in Nat \ {0} /\ total \in Nat
        BY <1>1, <2>3, PlansAssumption DEF TypeOK
      <3>2. AmountOf(invoices) = total
        BY <2>1, <2>3, <3>1, PlanAmounts
      <3>3. \A i \in PlannedInvoices(Nobody, "MONTHLY", start, total) : i.id[1] = Nobody
        BY DEF PlannedInvoices
      <3> QED
        BY <2>1, <2>3, <3>2, <3>3 DEF OnePlan
    <2> QED
      BY <2>2, <2>3
  <1>7. \A r \in Requests : pc[r] \notin Active /\ SerialCall(r)
    BY <1>2 DEF SerialCall, Active, Outside, InTransaction, Flipped, TotalsUpdated
  <1>8. DecidedOnce /\ DecidedInv
    BY <1>2 DEF DecidedOnce, DecidedInv, NoJob
  <1>9. total \in Nat
    BY <1>1 DEF TypeOK
  <1> QED
    BY <1>3, <1>5, <1>6, <1>7, <1>8, <1>9 DEF SerialInv

LEMMA SerialInvariant == Spec => [](DecidedInv /\ (~overlapped => SerialInv))
  <1>1. ASSUME TypeOK, TypeOK', RowInv, LinkInv, InstalmentsInv, DecidedInv,
               ~overlapped => SerialInv, [Next]_<<vars, overlapped>>
        PROVE  DecidedInv' /\ (~overlapped' => SerialInv')
    <2>1. CASE UNCHANGED <<vars, overlapped>>
      <3>1. DecidedInv'
        BY <1>1, <2>1 DEF DecidedInv, vars, tables
      <3>2. overlapped' = overlapped
        BY <2>1
      <3>3. SerialInv => SerialInv'
        BY <2>1 DEF SerialInv, SerialCall, CompletedPayments, SumOf, OnePlan,
           DecidedOnce, Active, vars, tables, reads
      <3> QED
        BY <1>1, <3>1, <3>2, <3>3
    <2>2. ASSUME NEW r \in Requests, Arrive(r) \/ Proceed(r) \/ Abort(r), Next
          PROVE  DecidedInv' /\ (~overlapped' => SerialInv')
      <3>1. DecidedInv'
        BY <1>1, <2>2, DecidedStays
      <3>2. ASSUME ~overlapped'
            PROVE  SerialInv'
        <4>1. ~overlapped /\ ~(Cardinality(UnderWay') > 1)
          BY <1>1, <2>2, <3>2 DEF Next, TypeOK
        <4>2. PICK busy : busy = UnderWay'
          OBVIOUS
        <4>3. busy \subseteq Requests /\ IsFiniteSet(busy) /\ Cardinality(busy) \in Nat
          BY <4>2, RequestsAssumption, FS_Subset, FS_CardinalityType DEF UnderWay
        <4>4. \A p, q \in busy : p = q
          BY <4>1, <4>2, <4>3, OneAtOnce
        <4>5. \A p, q \in Requests : pc'[p] \in Active /\ pc'[q] \in Active => p = q
          BY <4>2, <4>4 DEF UnderWay, Active
        <4> QED
          BY <1>1, <2>2, <4>1, <4>5, SerialStays
      <3> QED
        BY <3>1, <3>2
    <2> QED
      BY <1>1, <2>1, <2>2 DEF Next, CallStep
  <1>2. Init => DecidedInv /\ (~overlapped => SerialInv)
    BY SerialAtFirst
  <1> QED
    BY <1>1, <1>2, SpecCalls, TypesInvariant, RowsStay, MoneyInvariant, InstalmentsInvariant, PTL
    DEF Spec

(* As long as calls come one after another, aborted ones included, the     *)
(* totals are those of the completed payments, a payment is decided once,  *)
(* and the one plan comes to the fee.                                      *)
THEOREM SerialCallsAreExact == Spec => []SerialCallsAgree
  <1>1. ASSUME TypeOK, ~overlapped => SerialInv
        PROVE  SerialCallsAgree
    <2> SUFFICES ASSUME SerialInv
                 PROVE  /\ PaidIsRefreshed /\ BalanceRederived /\ RejectedNeverCounted
                        /\ DecidedOnce /\ OnePlan /\ InvoicesMatchFee
      BY <1>1 DEF SerialCallsAgree
    <2>1. PaidIsRefreshed /\ BalanceRederived
      BY DEF SerialInv, PaidIsRefreshed, BalanceRederived
    <2>2. RejectedNeverCounted
      <3>1. PICK S : S = {k \in Keys : payments[k].status # "FAILED"}
        OBVIOUS
      <3>2. CompletedPayments \in SUBSET S /\ S \in SUBSET Keys
        BY <3>1 DEF CompletedPayments
      <3>3. payments \in Rows /\ \A k \in Keys : payments[k].amount <= payments[k].amount
        BY <1>1 DEF TypeOK, Rows, Payment, NoPayment
      <3>4. Value(payments, CompletedPayments) <= Value(payments, S)
        BY <3>2, <3>3, ValueGrows
      <3> QED
        BY <3>1, <3>4 DEF RejectedNeverCounted, SerialInv, SumOf
    <2>3. DecidedOnce /\ OnePlan /\ InvoicesMatchFee
      BY DEF SerialInv, InvoicesMatchFee
    <2> QED
      BY <2>1, <2>2, <2>3
  <1> QED
    BY SpecCalls, TypesInvariant, SerialInvariant, <1>1, PTL

-----------------------------------------------------------------------------
(* Participants *)

(* Every step of the lifecycle is a call's, or leaves the ledger alone.    *)
LEMMA LifecycleCalls == LifecycleSpec => CallSpec
  <1>1. LifecycleInit => Init /\ OverlapTyped
    BY DEF LifecycleInit, Init, OverlapTyped
  <1>2. OverlapTyped /\ [LifecycleNext]_<<lifecycleVars, overlapped>> => OverlapTyped'
    BY DEF LifecycleNext, OverlapTyped
  <1>3. [LifecycleNext]_<<lifecycleVars, overlapped>> => [CallStep]_vars
    <2>1. ASSUME NEW r \in Requests, PaymentArrives(r) \/ PaymentProceeds(r) \/ PaymentAborts(r)
          PROVE  CallStep
      BY <2>1 DEF PaymentArrives, PaymentProceeds, PaymentAborts, CallStep
    <2>2. ASSUME NEW r \in Requests, HookStep(r) \/ LoseHook(r)
          PROVE  UNCHANGED vars
      BY <2>2 DEF HookStep, LoseHook, ReadForPromotion, CountDocuments, Promote
    <2>3. ASSUME NEW d \in Documents, Upload(d) \/ SoftDelete(d)
          PROVE  UNCHANGED vars
      BY <2>3 DEF Upload, SoftDelete
    <2>4. ASSUME NEW s \in Staff, VerifyDocument(s) \/ UpdateStatus(s) \/ StaffStep(s) \/ AbortErrand(s)
          PROVE  UNCHANGED vars
      BY <2>4 DEF VerifyDocument, UpdateStatus, StartErrand, StaffStep, AbortErrand, ReadDocument,
         WriteDocument, ReadDocuments, Advance, ReadStatus, Gate, WriteStatus
    <2>5. UNCHANGED <<lifecycleVars, overlapped>> => UNCHANGED vars
      BY DEF lifecycleVars
    <2> QED
      BY <2>1, <2>2, <2>3, <2>4, <2>5 DEF LifecycleNext, LifecycleStep
  <1> QED
    BY <1>1, <1>2, <1>3, PTL DEF LifecycleSpec, CallSpec

(* What a call of staff has been asked to do is of the kind its step needs.*)
StaffJob(s) ==
    /\ staffPc[s] \in {"readDocument", "writeDocument"} =>
          errand[s].document \in Documents /\ errand[s].to \in {"VERIFIED", "REJECTED"}
    /\ staffPc[s] \in {"readStatus", "gate", "writeStatus"} => errand[s].to \in Statuses

PeopleTyped == LifecycleTypeOK /\ \A s \in Staff : StaffJob(s)

Begun(s, new, label) ==
    /\ errand' = [errand EXCEPT ![s] = new]
    /\ staffPc' = [staffPc EXCEPT ![s] = label]
    /\ label = "readDocument" => new.document \in Documents /\ new.to \in {"VERIFIED", "REJECTED"}
    /\ label = "readStatus" => new.to \in Statuses
    /\ new.override \in CanOverride \cup {FALSE}

(* An errand begins with what it was asked to do. *)
LEMMA ErrandBegins ==
    ASSUME PeopleTyped, NEW s \in Staff, VerifyDocument(s) \/ UpdateStatus(s)
    PROVE  /\ staffPc[s] = "idle"
           /\ UNCHANGED <<vars, people, hooks, sawDocument, seenStatus>>
           /\ \E new \in Errands : \E label \in {"readDocument", "readStatus"} : Begun(s, new, label)
  <1>1. CASE VerifyDocument(s)
    <2>1. PICK d \in Documents, to \in {"VERIFIED", "REJECTED"} :
              StartErrand(s, "verifyDocument", d, to, FALSE, "readDocument")
      BY <1>1 DEF VerifyDocument
    <2>2. PICK new : new = [op |-> "verifyDocument", document |-> d, to |-> to, override |-> FALSE]
      OBVIOUS
    <2>3. new \in Errands
      BY <2>2 DEF Errands
    <2> QED
      BY <2>1, <2>2, <2>3 DEF StartErrand, Begun
  <1>2. CASE UpdateStatus(s)
    <2>1. PICK to \in Targets, override \in CanOverride :
              StartErrand(s, "updateStatus", NoDocument, to, override, "readStatus")
      BY <1>2 DEF UpdateStatus
    <2>2. PICK new : new = [op |-> "updateStatus", document |-> NoDocument, to |-> to,
                            override |-> override]
      OBVIOUS
    <2>3. new \in Errands /\ to \in Statuses
      BY <2>2, LifecycleAssumption DEF Errands
    <2> QED
      BY <2>1, <2>2, <2>3 DEF StartErrand, Begun
  <1> QED
    BY <1>1, <1>2

(* Rows and calls of the lifecycle keep their types. *)
LEMMA PeopleStay ==
    ASSUME TypeOK, PeopleTyped, LifecycleStep
    PROVE  PeopleTyped'
  <1> USE DEF PeopleTyped, LifecycleTypeOK, people, hooks, staff, StaffJob
  <1>1. ASSUME NEW r \in Requests, PaymentArrives(r) \/ PaymentProceeds(r) \/ PaymentAborts(r)
        PROVE  PeopleTyped'
    BY <1>1 DEF PaymentArrives, PaymentProceeds, PaymentAborts, SetOff, HookPcs
  <1>2. ASSUME NEW r \in Requests, HookStep(r) \/ LoseHook(r)
        PROVE  PeopleTyped'
    <2>1. /\ status' \in Statuses /\ enrolled' \in {"FEE_PENDING", "ACTIVE"}
          /\ UNCHANGED <<document, deleted, staff>>
      BY <1>2 DEF HookStep, LoseHook, ReadForPromotion, CountDocuments, Promote, Statuses
    <2>2. hook' \in [Requests -> HookPcs]
      BY <1>2 DEF HookStep, LoseHook, ReadForPromotion, CountDocuments, Promote, HookGoto, HookPcs
    <2>3. sawBalance' \in [Requests -> Int] /\ sawStatus' \in [Requests -> Statuses]
      BY <1>2 DEF HookStep, LoseHook, ReadForPromotion, CountDocuments, Promote, TypeOK
    <2> QED
      BY <2>1, <2>2, <2>3
  <1>3. ASSUME NEW d \in Documents, Upload(d) \/ SoftDelete(d)
        PROVE  PeopleTyped'
    BY <1>3 DEF Upload, SoftDelete
  <1>4. ASSUME NEW s \in Staff, VerifyDocument(s) \/ UpdateStatus(s)
        PROVE  PeopleTyped'
    <2>1. PICK new \in Errands, label \in {"readDocument", "readStatus"} : Begun(s, new, label)
      BY <1>4, ErrandBegins
    <2>2. UNCHANGED <<people, hooks, sawDocument, seenStatus>>
      BY <1>4, ErrandBegins
    <2>3. errand' \in [Staff -> Errands] /\ staffPc' \in [Staff -> StaffPcs]
      BY <2>1 DEF Begun, StaffPcs
    <2>4. \A t \in Staff : StaffJob(t)'
      BY <2>1 DEF Begun
    <2> QED
      BY <2>2, <2>3, <2>4
  <1>5. ASSUME NEW s \in Staff, StaffStep(s) \/ AbortErrand(s)
        PROVE  PeopleTyped'
    <2>1. UNCHANGED <<enrolled, deleted, hooks, errand>>
      BY <1>5 DEF StaffStep, AbortErrand, ReadDocument, WriteDocument, ReadDocuments, Advance,
         ReadStatus, Gate, WriteStatus
    <2>2. status' \in Statuses
      BY <1>5 DEF StaffStep, AbortErrand, ReadDocument, WriteDocument, ReadDocuments, Advance,
         ReadStatus, Gate, WriteStatus, Statuses
    <2>3. document' \in [Documents -> {"ABSENT", "PENDING", "VERIFIED", "REJECTED"}]
      BY <1>5 DEF StaffStep, AbortErrand, ReadDocument, WriteDocument, ReadDocuments, Advance,
         ReadStatus, Gate, WriteStatus
    <2>4. /\ sawDocument' \in [Staff -> {"ABSENT", "PENDING", "VERIFIED", "REJECTED"}]
          /\ seenStatus' \in [Staff -> Statuses]
      BY <1>5 DEF StaffStep, AbortErrand, ReadDocument, WriteDocument, ReadDocuments, Advance,
         ReadStatus, Gate, WriteStatus
    <2>5. \E label \in StaffPcs :
              /\ staffPc' = [staffPc EXCEPT ![s] = label]
              /\ label \in {"readDocument", "writeDocument"} => staffPc[s] = "readDocument"
              /\ label \in {"readStatus", "gate", "writeStatus"} =>
                    staffPc[s] \in {"readStatus", "gate"}
      BY <1>5 DEF StaffStep, AbortErrand, ReadDocument, WriteDocument, ReadDocuments, Advance,
         ReadStatus, Gate, WriteStatus, StaffGoto, StaffPcs
    <2>6. \A t \in Staff : StaffJob(t)'
      BY <2>1, <2>5
    <2> QED
      BY <2>1, <2>2, <2>3, <2>4, <2>5, <2>6
  <1> QED
    BY <1>1, <1>2, <1>3, <1>4, <1>5 DEF LifecycleStep

(* Participants, documents and their calls have their types throughout. *)
LEMMA PeopleInvariant == LifecycleSpec => []PeopleTyped
  <1>1. LifecycleInit => PeopleTyped
    <2> SUFFICES ASSUME LifecycleInit PROVE PeopleTyped
      OBVIOUS
    <2>1. NoErrand \in Errands
      BY DEF NoErrand, Errands, Statuses
    <2> QED
      BY <2>1, LifecycleAssumption
      DEF LifecycleInit, PeopleTyped, LifecycleTypeOK, StaffJob, Statuses, HookPcs, StaffPcs
  <1>2. TypeOK /\ PeopleTyped /\ [LifecycleNext]_<<lifecycleVars, overlapped>> => PeopleTyped'
    <2>1. PeopleTyped /\ UNCHANGED lifecycleVars => PeopleTyped'
      BY DEF PeopleTyped, LifecycleTypeOK, StaffJob, lifecycleVars, people, hooks, staff
    <2> QED
      BY <2>1, PeopleStay DEF LifecycleNext
  <1> QED
    BY <1>1, <1>2, LifecycleCalls, TypesInvariant, PTL DEF LifecycleSpec

-----------------------------------------------------------------------------
(* What is left to pay *)

(* The fee less the payments that were accepted. *)
Owed == total - SumOf(Verified)

Totalling == {"sumPaid", "updateTotals"} \cup TotalsUpdated

(* While the fee stands, no balance on the enrolment's row, however old    *)
(* the sum it was taken from, is less than what is left to pay.            *)
BalanceInv ==
    /\ \A r \in Requests : pc[r] \notin {"readEnrolment", "override"}
    /\ \A r \in Requests : pc[r] \in Totalling => myTotal[r] = total
    /\ balance >= Owed

(* A verification adds up with the fee that it has read. *)
LEMMA TotalIsRead ==
    ASSUME TypeOK, NEW r \in Requests, Arrive(r) \/ Proceed(r) \/ Abort(r),
           pc'[r] \in Totalling
    PROVE  \/ myTotal'[r] = total
           \/ pc[r] \in Totalling /\ myTotal'[r] = myTotal[r]
  <1> USE DEF Goto, Totalling, TotalsUpdated
  <1>1. CASE Arrive(r)
    <2>1. PICK new \in Job : \E label : Arrived(r, new, label)
      BY <1>1, Arrivals
    <2> QED
      BY <2>1 DEF Arrived, TypeOK
  <1>2. CASE CheckInvoice(r) \/ Lookup(r) \/ ReadPayment(r)
    BY <1>2 DEF CheckInvoice, Lookup, ReadPayment, Look, TypeOK
  <1>3. CASE CreatePayment(r) \/ FlipPayment(r) \/ RejectPayment(r)
    BY <1>3 DEF CreatePayment, FlipPayment, RejectPayment, Commit, TypeOK
  <1>4. CASE ReadTotal(r)
    BY <1>4 DEF ReadTotal, Look, TypeOK
  <1>5. CASE SumPaid(r) \/ ReadInvoice(r) \/ SumInvoice(r)
    BY <1>5 DEF SumPaid, ReadInvoice, SumInvoice, Look, reads, TypeOK
  <1>6. CASE UpdateTotals(r)
    BY <1>6 DEF UpdateTotals, reads, TypeOK
  <1>7. CASE CommitVerification(r) \/ OverrideFee(r) \/ InsertInvoices(r)
    BY <1>7 DEF CommitVerification, OverrideFee, InsertInvoices, Commit, TypeOK
  <1>8. CASE ReadEnrolment(r) \/ ReadPlan(r) \/ FindTemplate(r)
    BY <1>8 DEF ReadEnrolment, ReadPlan, FindTemplate, Look, TypeOK
  <1>9. CASE TakeInvoiceNumber(r) \/ RefuseInvoices(r) \/ Abort(r)
    BY <1>9 DEF TakeInvoiceNumber, RefuseInvoices, Abort, TypeOK
  <1> QED
    BY <1>1, <1>2, <1>3, <1>4, <1>5, <1>6, <1>7, <1>8, <1>9 DEF Proceed

(* Nobody sets the fee unless staff may override it. *)
LEMMA FeeStands ==
    ASSUME "override" \notin Ops, TypeOK, BalanceInv,
           NEW r \in Requests, Arrive(r) \/ Proceed(r) \/ Abort(r)
    PROVE  ~OverrideFee(r) /\ pc'[r] \notin {"readEnrolment", "override"}
  <1> USE DEF Goto
  <1>0. ~OverrideFee(r) /\ ~ReadEnrolment(r) /\ ~SetFeeOverride(r)
    BY DEF BalanceInv, OverrideFee, ReadEnrolment, Look, SetFeeOverride, Start
  <1>1. CASE Record(r) \/ Decide(r) \/ CreatePlan(r)
    BY <1>0, <1>1 DEF Record, Decide, CreatePlan, Start, TypeOK
  <1>2. CASE CheckInvoice(r) \/ Lookup(r) \/ ReadPayment(r)
    BY <1>0, <1>2 DEF CheckInvoice, Lookup, ReadPayment, Look, TypeOK
  <1>3. CASE CreatePayment(r) \/ FlipPayment(r) \/ RejectPayment(r)
    BY <1>0, <1>3 DEF CreatePayment, FlipPayment, RejectPayment, Commit, TypeOK
  <1>4. CASE ReadTotal(r) \/ SumPaid(r) \/ ReadInvoice(r) \/ SumInvoice(r)
    BY <1>0, <1>4 DEF ReadTotal, SumPaid, ReadInvoice, SumInvoice, Look, TypeOK
  <1>5. CASE UpdateTotals(r) \/ TakeInvoiceNumber(r) \/ RefuseInvoices(r) \/ Abort(r)
    BY <1>0, <1>5 DEF UpdateTotals, TakeInvoiceNumber, RefuseInvoices, Abort, TypeOK
  <1>6. CASE CommitVerification(r) \/ InsertInvoices(r)
    BY <1>0, <1>6 DEF CommitVerification, InsertInvoices, Commit, TypeOK
  <1>7. CASE ReadPlan(r) \/ FindTemplate(r)
    BY <1>0, <1>7 DEF ReadPlan, FindTemplate, Look, TypeOK
  <1> QED
    BY <1>0, <1>1, <1>2, <1>3, <1>4, <1>5, <1>6, <1>7 DEF Proceed, Arrive

(* What is left to pay is a whole amount. *)
LEMMA OwedIsWhole == ASSUME TypeOK PROVE Owed \in Int /\ SumOf(Verified) \in Nat
  <1>1. Verified \in SUBSET Keys /\ payments \in Rows
        /\ \A k \in Keys : payments[k].amount <= payments[k].amount
    BY DEF TypeOK, Rows, Verified, Payment, NoPayment
  <1>2. Value(payments, Verified) \in Nat
    BY <1>1, ValueGrows
  <1> QED
    BY <1>2 DEF Owed, SumOf, TypeOK

(* While the fee stands, what is left to pay never grows, and no           *)
(* verification writes a balance below it.                                 *)
LEMMA BalanceStays ==
    ASSUME "override" \notin Ops, TypeOK, TypeOK', RowInv, VerifyInv, BalanceInv,
           NEW r \in Requests, Arrive(r) \/ Proceed(r) \/ Abort(r)
    PROVE  BalanceInv' /\ Owed' <= Owed
  <1>0. ~OverrideFee(r) /\ pc'[r] \notin {"readEnrolment", "override"}
    BY FeeStands
  <1>1. Others(r) /\ total' = total /\ (~CommitVerification(r) => balance' = balance)
    <2>1. Others(r)
      BY OthersStay
    <2>2. total' = total /\ (~CommitVerification(r) => balance' = balance)
      BY <1>0, TotalsStay
    <2> QED
      BY <2>1, <2>2
  <1>2. \A q \in Requests : pc'[q] \notin {"readEnrolment", "override"}
    BY <1>0, <1>1 DEF Others, BalanceInv
  <1>3. \A q \in Requests : pc'[q] \in Totalling => myTotal'[q] = total'
    BY <1>1, TotalIsRead DEF Others, BalanceInv
  <1>4. /\ Verified \in SUBSET Verified' /\ Verified' \in SUBSET Keys
        /\ payments \in Rows /\ payments' \in Rows
        /\ \A k \in Keys : payments[k].amount <= payments'[k].amount
    BY Grows DEF TypeOK, Rows, Verified
  <1>5. SumOf(Verified) \in Nat /\ SumOf(Verified)' \in Nat /\ SumOf(Verified) <= SumOf(Verified)'
    <2>1. /\ Value(payments, Verified) \in Nat /\ Value(payments', Verified') \in Nat
          /\ Value(payments, Verified) <= Value(payments', Verified')
      BY <1>4, ValueGrows
    <2> QED
      BY <2>1 DEF SumOf
  <1>6. total \in Nat /\ balance \in Int /\ \A q \in Requests : myPaid[q] \in Nat
    BY DEF TypeOK
  <1>7. Owed' <= Owed
    BY <1>1, <1>5, <1>6 DEF Owed
  <1>8. CASE ~CommitVerification(r)
    BY <1>1, <1>2, <1>3, <1>5, <1>6, <1>7, <1>8 DEF BalanceInv, Owed
  <1>9. CASE CommitVerification(r)
    <2>1. pc[r] = "commit" /\ balance' = myTotal[r] - myPaid[r]
      BY <1>9 DEF CommitVerification
    <2>2. myTotal[r] = total
      BY <2>1 DEF BalanceInv, Totalling, TotalsUpdated
    <2>3. job[r].op = "verify" /\ myPaid[r] <= SumOf(Verified \cup {job[r].key})
      BY <2>1 DEF VerifyInv, Flipped, TotalsUpdated
    <2>4. PICK S : S = Verified \cup {job[r].key}
      OBVIOUS
    <2>5. job[r].key \in Verified'
      BY <1>9, <2>3, CommitVerifies
    <2>6. S \in SUBSET Verified'
      BY <1>4, <2>4, <2>5
    <2>7. Value(payments, S) \in Nat /\ Value(payments, S) <= Value(payments', Verified')
      BY <1>4, <2>6, ValueGrows
    <2>8. myPaid[r] <= Value(payments, S)
      BY <2>3, <2>4 DEF SumOf
    <2>9. SumOf(Verified)' = Value(payments', Verified')
      BY DEF SumOf
    <2>10. myPaid[r] <= SumOf(Verified)'
      BY <1>5, <1>6, <2>7, <2>8, <2>9
    <2>11. balance' >= Owed'
      BY <1>1, <1>5, <1>6, <2>1, <2>2, <2>10 DEF Owed
    <2> QED
      BY <1>2, <1>3, <1>7, <2>11 DEF BalanceInv
  <1> QED
    BY <1>8, <1>9

(* The balance begins as the fee. *)
LEMMA BalanceAtFirst == Init => BalanceInv
  <1> SUFFICES ASSUME Init PROVE BalanceInv
    OBVIOUS
  <1>1. balance = total /\ \A r \in Requests : pc[r] = "idle"
    BY DEF Init
  <1>2. Owed <= total
    BY TypesAtFirst, OwedIsWhole DEF Owed, TypeOK
  <1> QED
    BY <1>1, <1>2 DEF BalanceInv, Totalling, TotalsUpdated

(* The balance on the row is never less than what is left to pay. *)
LEMMA BalanceInvariant ==
    ASSUME "override" \notin Ops
    PROVE  CallSpec => []BalanceInv
  <1>1. ASSUME TypeOK, TypeOK', RowInv, VerifyInv, BalanceInv, [CallStep]_vars
        PROVE  BalanceInv'
    <2>1. CASE UNCHANGED vars
      BY <1>1, <2>1 DEF BalanceInv, Owed, SumOf, Verified, vars, tables, reads
    <2>2. CASE CallStep
      BY <1>1, <2>2, BalanceStays DEF CallStep
    <2> QED
      BY <1>1, <2>1, <2>2
  <1> QED
    BY BalanceAtFirst, TypesInvariant, RowsStay, MoneyInvariant, <1>1, PTL DEF CallSpec

-----------------------------------------------------------------------------
(* Paid before ACTIVE *)

(* Whoever is about to promote has seen a balance within the threshold, or *)
(* a promotion by somebody who had; the balance on the row is never less   *)
(* than what is left to pay, and that never grows.                         *)
Crossing ==
    \/ Promoted
    \/ \E r \in Requests : hook[r] \in {"documents", "promote"}
    \/ \E s \in Staff : staffPc[s] = "writeStatus" /\ errand[s].to \in AfterActive

CrossedInv ==
    /\ \A s \in Staff : ~errand[s].override
    /\ Crossing => Owed <= Tolerated

LEMMA ToleratedIsWhole == Tolerated \in Nat
  BY LifecycleAssumption DEF Tolerated

(* A call of the ledger promotes nobody, but may set off the hook. *)
LEMMA CallsCross ==
    ASSUME TypeOK, PeopleTyped, CrossedInv, NEW r \in Requests, SetOff(r)
    PROVE  (\A s \in Staff : ~errand'[s].override) /\ (Crossing' => Crossing)
  <1>1. UNCHANGED <<status, enrolled, errand, staffPc>>
    BY DEF SetOff, people, staff
  <1>2. \A q \in Requests : hook'[q] \in {"documents", "promote"} => hook'[q] = hook[q]
    BY DEF SetOff, PeopleTyped, LifecycleTypeOK
  <1> QED
    BY <1>1, <1>2 DEF CrossedInv, Crossing, Promoted

(* The hook goes on when what is left to pay is within the threshold. *)
LEMMA HooksCross ==
    ASSUME TypeOK, PeopleTyped, CrossedInv, BalanceInv,
           NEW r \in Requests, HookStep(r) \/ LoseHook(r)
    PROVE  UNCHANGED errand /\ (Crossing' => Owed <= Tolerated)
  <1> USE DEF HookGoto, PeopleTyped, LifecycleTypeOK
  <1>0. UNCHANGED <<errand, staffPc>> /\ Owed \in Int /\ balance \in Int /\ Tolerated \in Nat
    BY OwedIsWhole, ToleratedIsWhole
       DEF HookStep, LoseHook, ReadForPromotion, CountDocuments, Promote, staff, TypeOK
  <1>1. CASE ReadForPromotion(r)
    <2>1. UNCHANGED <<status, enrolled>>
      BY <1>1 DEF ReadForPromotion, people
    <2>2. \A q \in Requests : hook'[q] = hook[q] \/ hook'[q] = "ended"
                              \/ (enrolled = "FEE_PENDING" /\ ~(balance > Tolerated))
      BY <1>1 DEF ReadForPromotion
    <2>3. ~(balance > Tolerated) => Owed <= Tolerated
      BY <1>0 DEF BalanceInv
    <2> QED
      BY <1>0, <2>1, <2>2, <2>3 DEF CrossedInv, Crossing, Promoted
  <1>2. CASE CountDocuments(r)
    <2>1. UNCHANGED <<status, enrolled>> /\ hook[r] = "documents"
      BY <1>2 DEF CountDocuments, people
    <2>2. \A q \in Requests : hook'[q] = hook[q] \/ q = r
      BY <1>2 DEF CountDocuments
    <2>3. Crossing
      BY <2>1 DEF Crossing
    <2> QED
      BY <1>0, <2>3 DEF CrossedInv
  <1>3. CASE Promote(r)
    <2>1. Crossing
      BY <1>3 DEF Promote, Crossing
    <2> QED
      BY <1>0, <2>1 DEF CrossedInv
  <1>4. CASE LoseHook(r)
    <2>1. UNCHANGED <<status, enrolled>>
      BY <1>4 DEF LoseHook, people
    <2>2. \A q \in Requests : hook'[q] = hook[q] \/ hook'[q] = "lost"
      BY <1>4 DEF LoseHook
    <2> QED
      BY <1>0, <2>1, <2>2 DEF CrossedInv, Crossing, Promoted
  <1> QED
    BY <1>1, <1>2, <1>3, <1>4 DEF HookStep

(* Staff who may not pass over the balance look at it before ACTIVE. *)
LEMMA StaffCross ==
    ASSUME TypeOK, PeopleTyped, CrossedInv, BalanceInv,
           NEW s \in Staff, StaffStep(s) \/ AbortErrand(s)
    PROVE  UNCHANGED errand /\ (Crossing' => Owed <= Tolerated)
  <1> USE DEF StaffGoto, PeopleTyped, LifecycleTypeOK
  <1>0. /\ UNCHANGED <<errand, enrolled, hook>>
        /\ Owed \in Int /\ balance \in Int /\ Tolerated \in Nat
    BY OwedIsWhole, ToleratedIsWhole
       DEF StaffStep, AbortErrand, ReadDocument, WriteDocument, ReadDocuments, Advance, ReadStatus,
           Gate, WriteStatus, people, hooks, TypeOK
  <1>1. CASE ReadDocument(s) \/ WriteDocument(s) \/ ReadDocuments(s) \/ AbortErrand(s)
    <2>1. status' = status
      BY <1>1 DEF ReadDocument, WriteDocument, ReadDocuments, AbortErrand, people
    <2>2. \A t \in Staff : staffPc'[t] = "writeStatus" => staffPc[t] = "writeStatus"
      BY <1>1 DEF ReadDocument, WriteDocument, ReadDocuments, AbortErrand
    <2> QED
      BY <1>0, <2>1, <2>2 DEF CrossedInv, Crossing, Promoted
  <1>2. CASE Advance(s)
    <2>1. status' \notin AfterActive
      BY <1>2 DEF Advance, AfterActive
    <2>2. \A t \in Staff : staffPc'[t] = "writeStatus" => staffPc[t] = "writeStatus"
      BY <1>2 DEF Advance
    <2> QED
      BY <1>0, <2>1, <2>2 DEF CrossedInv, Crossing, Promoted
  <1>3. CASE ReadStatus(s)
    <2>1. status' = status
      BY <1>3 DEF ReadStatus, people
    <2>2. /\ \A t \in Staff \ {s} : staffPc'[t] = staffPc[t]
          /\ staffPc'[s] = "writeStatus" =>
                Allowed(status, errand[s].to) /\ (errand[s].to = "ACTIVE" => errand[s].override)
      BY <1>3 DEF ReadStatus
    <2>3. Allowed(status, errand[s].to) /\ errand[s].to \in AfterActive
          /\ errand[s].to # "ACTIVE" => status = "ACTIVE"
      BY DEF Allowed, AfterActive
    <2>4. staffPc'[s] = "writeStatus" /\ errand[s].to \in AfterActive => Promoted
      BY <2>2, <2>3 DEF CrossedInv, Promoted, AfterActive
    <2> QED
      BY <1>0, <2>1, <2>2, <2>4 DEF CrossedInv, Crossing, Promoted
  <1>4. CASE Gate(s)
    <2>1. status' = status
      BY <1>4 DEF Gate, people
    <2>2. /\ \A t \in Staff \ {s} : staffPc'[t] = staffPc[t]
          /\ staffPc'[s] = "writeStatus" => ~(enrolled = "FEE_PENDING" /\ balance > Tolerated)
      BY <1>4 DEF Gate, Tolerated
    <2>3. ~(enrolled = "FEE_PENDING" /\ balance > Tolerated) => Promoted \/ Owed <= Tolerated
      BY <1>0 DEF BalanceInv, Promoted
    <2> QED
      BY <1>0, <2>1, <2>2, <2>3 DEF CrossedInv, Crossing, Promoted
  <1>5. CASE WriteStatus(s)
    <2>1. staffPc[s] = "writeStatus" /\ status' = errand[s].to
      BY <1>5 DEF WriteStatus
    <2>2. \A t \in Staff : staffPc'[t] = "writeStatus" => staffPc[t] = "writeStatus"
      BY <1>5 DEF WriteStatus
    <2> QED
      BY <1>0, <2>1, <2>2 DEF CrossedInv, Crossing, Promoted
  <1> QED
    BY <1>1, <1>2, <1>3, <1>4, <1>5 DEF StaffStep

(* New errands do not pass over the balance. *)
LEMMA ErrandsCross ==
    ASSUME CanOverride \subseteq {FALSE}, PeopleTyped, CrossedInv,
           NEW s \in Staff, VerifyDocument(s) \/ UpdateStatus(s)
    PROVE  (\A t \in Staff : ~errand'[t].override) /\ (Crossing' => Crossing)
  <1>1. PICK new \in Errands, label \in {"readDocument", "readStatus"} : Begun(s, new, label)
    BY ErrandBegins
  <1>2. UNCHANGED <<status, enrolled, hook>>
    BY ErrandBegins DEF people, hooks
  <1>3. ~new.override
    BY <1>1 DEF Begun
  <1>4. \A t \in Staff : ~errand'[t].override
    BY <1>1, <1>3 DEF Begun, CrossedInv, PeopleTyped, LifecycleTypeOK
  <1>5. \A t \in Staff : staffPc'[t] = "writeStatus" => staffPc[t] = "writeStatus" /\ errand'[t] = errand[t]
    BY <1>1 DEF Begun, PeopleTyped, LifecycleTypeOK
  <1> QED
    BY <1>2, <1>4, <1>5 DEF Crossing, Promoted

(* No step promotes, or is about to, with more than the threshold to pay. *)
LEMMA CrossedStays ==
    ASSUME "override" \notin Ops, CanOverride \subseteq {FALSE},
           TypeOK, TypeOK', RowInv, VerifyInv, PeopleTyped, BalanceInv, CrossedInv, LifecycleStep
    PROVE  CrossedInv'
  <1>0. Tolerated \in Nat /\ Owed \in Int
    BY OwedIsWhole, ToleratedIsWhole
  <1>1. ASSUME NEW r \in Requests, PaymentArrives(r) \/ PaymentProceeds(r) \/ PaymentAborts(r)
        PROVE  CrossedInv'
    <2>1. Arrive(r) \/ Proceed(r) \/ Abort(r)
      BY <1>1 DEF PaymentArrives, PaymentProceeds, PaymentAborts
    <2>2. SetOff(r)
      BY <1>1 DEF PaymentArrives, PaymentProceeds, PaymentAborts
    <2>3. Owed' <= Owed
      BY <2>1, BalanceStays
    <2>4. (\A s \in Staff : ~errand'[s].override) /\ (Crossing' => Crossing)
      BY <2>2, CallsCross
    <2>5. Owed' \in Int
      <3>1. total' \in Nat
        BY DEF TypeOK
      <3>2. Verified' \in SUBSET Keys /\ payments' \in Rows
            /\ \A k \in Keys : payments'[k].amount <= payments'[k].amount
        BY DEF TypeOK, Rows, Verified, Payment, NoPayment
      <3>3. Value(payments', Verified') \in Nat
        BY <3>2, ValueGrows
      <3> QED
        BY <3>1, <3>3 DEF Owed, SumOf
    <2>6. Crossing => Owed <= Tolerated
      BY DEF CrossedInv
    <2>7. Crossing' => Owed' <= Tolerated
      BY <1>0, <2>3, <2>4, <2>5, <2>6
    <2> QED
      BY <2>4, <2>7 DEF CrossedInv
  <1>2. ASSUME UNCHANGED vars, \A s \in Staff : ~errand'[s].override,
               Crossing' => Owed <= Tolerated
        PROVE  CrossedInv'
    <2>1. Owed' = Owed
      BY <1>2 DEF Owed, Verified, SumOf, vars, tables
    <2> QED
      BY <1>2, <2>1 DEF CrossedInv
  <1>3. ASSUME NEW r \in Requests, HookStep(r) \/ LoseHook(r)
        PROVE  CrossedInv'
    <2>1. UNCHANGED vars
      BY <1>3 DEF HookStep, LoseHook, ReadForPromotion, CountDocuments, Promote
    <2>2. UNCHANGED errand /\ (Crossing' => Owed <= Tolerated)
      BY <1>3, HooksCross
    <2> QED
      BY <1>2, <2>1, <2>2 DEF CrossedInv
  <1>4. ASSUME NEW d \in Documents, Upload(d) \/ SoftDelete(d)
        PROVE  CrossedInv'
    <2>1. UNCHANGED vars /\ UNCHANGED <<status, enrolled, hook, errand, staffPc>>
      BY <1>4 DEF Upload, SoftDelete, hooks, staff
    <2>2. Crossing' => Crossing
      BY <2>1 DEF Crossing, Promoted
    <2> QED
      BY <1>2, <2>1, <2>2 DEF CrossedInv
  <1>5. ASSUME NEW s \in Staff, VerifyDocument(s) \/ UpdateStatus(s)
        PROVE  CrossedInv'
    <2>1. UNCHANGED vars
      BY <1>5 DEF VerifyDocument, UpdateStatus, StartErrand
    <2>2. (\A t \in Staff : ~errand'[t].override) /\ (Crossing' => Crossing)
      BY <1>5, ErrandsCross
    <2> QED
      BY <1>2, <2>1, <2>2 DEF CrossedInv
  <1>6. ASSUME NEW s \in Staff, StaffStep(s) \/ AbortErrand(s)
        PROVE  CrossedInv'
    <2>1. UNCHANGED vars
      BY <1>6 DEF StaffStep, AbortErrand, ReadDocument, WriteDocument, ReadDocuments, Advance,
         ReadStatus, Gate, WriteStatus
    <2>2. UNCHANGED errand /\ (Crossing' => Owed <= Tolerated)
      BY <1>6, StaffCross
    <2> QED
      BY <1>2, <2>1, <2>2 DEF CrossedInv
  <1> QED
    BY <1>1, <1>3, <1>4, <1>5, <1>6 DEF LifecycleStep

(* While the fee stands and no staff may pass over the balance, whoever is *)
(* promoted, by the hook or by hand, has verified payments that leave no   *)
(* more than the threshold to pay, however stale the balance they read.    *)
THEOREM PaidFirst ==
    ASSUME "override" \notin Ops, CanOverride \subseteq {FALSE}
    PROVE  LifecycleSpec => []PaidBeforeActive
  <1>1. LifecycleInit => CrossedInv
    <2> SUFFICES ASSUME LifecycleInit PROVE CrossedInv
      OBVIOUS
    <2>1. \A s \in Staff : ~errand[s].override /\ staffPc[s] = "idle"
      BY DEF LifecycleInit, NoErrand
    <2>2. ~Promoted
      BY LifecycleAssumption DEF LifecycleInit, Promoted, AfterActive
    <2>3. \A r \in Requests : hook[r] = "none"
      BY DEF LifecycleInit
    <2> QED
      BY <2>1, <2>2, <2>3 DEF CrossedInv, Crossing
  <1>2. ASSUME TypeOK, TypeOK', RowInv, VerifyInv, PeopleTyped, BalanceInv, CrossedInv,
               [LifecycleNext]_<<lifecycleVars, overlapped>>
        PROVE  CrossedInv'
    <2>1. CASE UNCHANGED <<lifecycleVars, overlapped>>
      BY <1>2, <2>1 DEF CrossedInv, Crossing, Promoted, Owed, SumOf, Verified, lifecycleVars,
         vars, tables, people, hooks, staff
    <2>2. CASE LifecycleNext
      BY <1>2, <2>2, CrossedStays DEF LifecycleNext
    <2> QED
      BY <1>2, <2>1, <2>2
  <1>3. CrossedInv => PaidBeforeActive
    BY DEF CrossedInv, Crossing, PaidBeforeActive, Owed
  <1>4. CallSpec => []BalanceInv
    BY BalanceInvariant
  <1> QED
    BY <1>1, <1>2, <1>3, <1>4, LifecycleCalls, TypesInvariant, RowsStay, MoneyInvariant,
       PeopleInvariant, PTL DEF LifecycleSpec

-----------------------------------------------------------------------------
(* What staff have read *)

(* A call of staff that is about to write has read what the write needs.   *)
ReadErrand(s) ==
    /\ staffPc[s] = "writeDocument" =>
          errand[s].document \in Documents /\ sawDocument[s] # "VERIFIED"
    /\ staffPc[s] \in {"readDocuments", "advance"} => seenStatus[s] = "DOCUMENTS_PENDING"
    /\ staffPc[s] \in {"gate", "writeStatus"} => Allowed(seenStatus[s], errand[s].to)

ReadInv == \A s \in Staff : ReadErrand(s)

StatusAgrees ==
    /\ status' = "FEE_PENDING" /\ status # status' => status = "DOCUMENTS_PENDING"
    /\ status' = status \/ Allowed(status, status') \/ enrolled' # enrolled
    /\ enrolled' # enrolled /\ status # "INQUIRY" => status' \in AfterActive
VerifiedStay == \A d \in Documents : document[d] = "VERIFIED" => document'[d] = "VERIFIED"

StepAgrees ==
    /\ Acting \cap StatusOutdated = {} => StatusAgrees
    /\ Acting \cap DocumentOutdated = {} => VerifiedStay

(* A step of staff goes by what was read, and keeps ReadInv. *)
LEMMA StaffAgree ==
    ASSUME PeopleTyped, ReadInv, NEW s \in Staff, StaffStep(s) \/ AbortErrand(s)
    PROVE  StepAgrees /\ ReadInv'
  <1> USE DEF StaffGoto, PeopleTyped, LifecycleTypeOK
  <1>1. UNCHANGED <<enrolled, deleted, hook, sawStatus, errand>>
    BY DEF StaffStep, AbortErrand, ReadDocument, WriteDocument, ReadDocuments, Advance, ReadStatus,
       Gate, WriteStatus, people, hooks
  <1>2. \A t \in Staff \ {s} : staffPc'[t] = staffPc[t] /\ sawDocument'[t] = sawDocument[t]
                               /\ seenStatus'[t] = seenStatus[t]
    BY DEF StaffStep, AbortErrand, ReadDocument, WriteDocument, ReadDocuments, Advance, ReadStatus,
       Gate, WriteStatus
  <1>3. \A t \in Staff \ {s} : ReadErrand(t)'
    BY <1>1, <1>2 DEF ReadInv, ReadErrand
  <1>4. StaffJob(s) /\ ReadErrand(s)
    BY DEF ReadInv
  <1>5. CASE ReadDocument(s)
    <2>1. status' = status /\ document' = document
      BY <1>5 DEF ReadDocument, people
    <2>2. /\ staffPc[s] = "readDocument" /\ sawDocument'[s] = document[errand[s].document]
          /\ staffPc'[s] \in {"refused", "done", "writeDocument"}
          /\ staffPc'[s] = "writeDocument" => document[errand[s].document] # "VERIFIED"
      BY <1>5 DEF ReadDocument
    <2>3. ReadErrand(s)'
      BY <1>1, <1>4, <2>2 DEF ReadErrand, StaffJob
    <2> QED
      BY <1>1, <1>3, <2>1, <2>3 DEF StepAgrees, StatusAgrees, VerifiedStay, ReadInv
  <1>6. CASE WriteDocument(s)
    <2>1. /\ status' = status /\ staffPc[s] = "writeDocument"
          /\ document' = [document EXCEPT ![errand[s].document] = errand[s].to]
          /\ staffPc'[s] \in {"readDocuments", "done"}
      BY <1>6 DEF WriteDocument
    <2>2. Acting \cap DocumentOutdated = {} => VerifiedStay
      <3>1. s \in Acting
        BY <2>1 DEF Acting
      <3>2. errand[s].document \in Documents /\ sawDocument[s] # "VERIFIED"
        BY <1>4, <2>1 DEF ReadErrand
      <3>3. document[errand[s].document] = "VERIFIED" => s \in DocumentOutdated
        BY <3>2 DEF DocumentOutdated
      <3> QED
        BY <2>1, <3>1, <3>2, <3>3 DEF VerifiedStay
    <2>3. ReadErrand(s)'
      BY <1>1, <1>6 DEF WriteDocument, ReadErrand
    <2> QED
      BY <1>1, <1>3, <2>1, <2>2, <2>3 DEF StepAgrees, StatusAgrees, ReadInv
  <1>7. CASE ReadDocuments(s)
    <2>1. status' = status /\ document' = document
      BY <1>7 DEF ReadDocuments, people
    <2>2. ReadErrand(s)'
      BY <1>1, <1>4, <1>7 DEF ReadDocuments, ReadErrand
    <2> QED
      BY <1>1, <1>3, <2>1, <2>2 DEF StepAgrees, StatusAgrees, VerifiedStay, ReadInv
  <1>8. CASE Advance(s)
    <2>1. /\ staffPc[s] = "advance" /\ staffPc'[s] = "done"
          /\ status' = "FEE_PENDING" /\ document' = document
      BY <1>8 DEF Advance
    <2>2. seenStatus[s] = "DOCUMENTS_PENDING"
      BY <1>4, <2>1 DEF ReadErrand
    <2>3. Acting \cap StatusOutdated = {} => status = "DOCUMENTS_PENDING"
      BY <2>1, <2>2 DEF Acting, StatusOutdated
    <2>4. ReadErrand(s)'
      BY <2>1 DEF ReadErrand
    <2> QED
      BY <1>1, <1>3, <2>1, <2>3, <2>4
      DEF StepAgrees, StatusAgrees, VerifiedStay, Allowed, ReadInv
  <1>9. CASE ReadStatus(s)
    <2>1. status' = status /\ document' = document
      BY <1>9 DEF ReadStatus, people
    <2>2. ReadErrand(s)'
      BY <1>1, <1>9 DEF ReadStatus, ReadErrand
    <2> QED
      BY <1>1, <1>3, <2>1, <2>2 DEF StepAgrees, StatusAgrees, VerifiedStay, ReadInv
  <1>10. CASE Gate(s)
    <2>1. status' = status /\ document' = document
      BY <1>10 DEF Gate, people
    <2>2. ReadErrand(s)'
      BY <1>1, <1>4, <1>10 DEF Gate, ReadErrand
    <2> QED
      BY <1>1, <1>3, <2>1, <2>2 DEF StepAgrees, StatusAgrees, VerifiedStay, ReadInv
  <1>11. CASE WriteStatus(s)
    <2>1. /\ staffPc[s] = "writeStatus" /\ staffPc'[s] = "done"
          /\ status' = errand[s].to /\ document' = document
      BY <1>11 DEF WriteStatus
    <2>2. Allowed(seenStatus[s], status')
      BY <1>4, <2>1 DEF ReadErrand
    <2>3. Acting \cap StatusOutdated = {} => Allowed(status, status')
      BY <2>1, <2>2 DEF Acting, StatusOutdated
    <2>4. Allowed(status, status') /\ status' = "FEE_PENDING" => status = "DOCUMENTS_PENDING"
      BY DEF Allowed
    <2>5. ReadErrand(s)'
      BY <2>1 DEF ReadErrand
    <2> QED
      BY <1>1, <1>3, <2>1, <2>3, <2>4, <2>5 DEF StepAgrees, StatusAgrees, VerifiedStay, ReadInv
  <1>12. CASE AbortErrand(s)
    <2>1. status' = status /\ document' = document /\ staffPc'[s] = "aborted"
      BY <1>12 DEF AbortErrand, people
    <2>2. ReadErrand(s)'
      BY <2>1 DEF ReadErrand
    <2> QED
      BY <1>1, <1>3, <2>1, <2>2 DEF StepAgrees, StatusAgrees, VerifiedStay, ReadInv
  <1> QED
    BY <1>5, <1>6, <1>7, <1>8, <1>9, <1>10, <1>11, <1>12 DEF StaffStep

(* A promotion that goes by a status that still stands leaves nobody who   *)
(* has applied short of ACTIVE.                                            *)
LEMMA HooksAgree ==
    ASSUME PeopleTyped, ReadInv, NEW r \in Requests, HookStep(r) \/ LoseHook(r)
    PROVE  StepAgrees /\ ReadInv'
  <1> USE DEF HookGoto, PeopleTyped, LifecycleTypeOK
  <1>1. UNCHANGED <<document, staff>>
    BY DEF HookStep, LoseHook, ReadForPromotion, CountDocuments, Promote, people
  <1>2. VerifiedStay /\ ReadInv'
    BY <1>1 DEF VerifiedStay, ReadInv, ReadErrand, staff
  <1>3. CASE ~Promote(r)
    <2>1. UNCHANGED <<status, enrolled>>
      BY <1>3 DEF HookStep, LoseHook, ReadForPromotion, CountDocuments, people
    <2> QED
      BY <1>2, <2>1 DEF StepAgrees, StatusAgrees
  <1>4. CASE Promote(r)
    <2>1. /\ enrolled' = "ACTIVE" /\ hook[r] = "promote" /\ hook'[r] = "ended"
          /\ status' = IF sawStatus[r] \in {"FEE_PENDING", "DOCUMENTS_PENDING"} THEN "ACTIVE" ELSE status
      BY <1>4 DEF Promote
    <2>2. Acting \cap StatusOutdated = {} => sawStatus[r] = status /\ enrolled # "ACTIVE"
      BY <2>1 DEF Acting, StatusOutdated
    <2>3. sawStatus[r] = status /\ status # "INQUIRY" => status' \in AfterActive
      BY <2>1 DEF Statuses, AfterActive
    <2>4. status' = "FEE_PENDING" => status' = status
      BY <2>1
    <2> QED
      BY <1>2, <2>1, <2>2, <2>3, <2>4 DEF StepAgrees, StatusAgrees
  <1> QED
    BY <1>3, <1>4

(* The others change neither the status nor the enrolment. *)
LEMMA OthersAgree ==
    ASSUME PeopleTyped, ReadInv, UNCHANGED <<status, enrolled, sawDocument, seenStatus>>, VerifiedStay,
           \A s \in Staff : \/ staffPc'[s] \in {"readDocument", "readStatus"}
                            \/ staffPc'[s] = staffPc[s] /\ errand'[s] = errand[s]
    PROVE  StepAgrees /\ ReadInv'
  <1>1. StepAgrees
    BY DEF StepAgrees, StatusAgrees
  <1>2. ASSUME NEW t \in Staff PROVE ReadErrand(t)'
    BY DEF ReadInv, ReadErrand
  <1> QED
    BY <1>1, <1>2 DEF ReadInv

(* And so does every step. *)
LEMMA StepsAgree == ASSUME PeopleTyped, ReadInv, LifecycleStep PROVE StepAgrees /\ ReadInv'
  <1> USE DEF people, hooks, staff
  <1>1. ASSUME NEW r \in Requests, PaymentArrives(r) \/ PaymentProceeds(r) \/ PaymentAborts(r)
        PROVE  StepAgrees /\ ReadInv'
    <2>1. UNCHANGED <<people, staff>>
      BY <1>1 DEF PaymentArrives, PaymentProceeds, PaymentAborts, SetOff
    <2> QED
      BY <2>1, OthersAgree DEF VerifiedStay
  <1>2. ASSUME NEW d \in Documents, Upload(d) \/ SoftDelete(d)
        PROVE  StepAgrees /\ ReadInv'
    <2>1. UNCHANGED <<status, enrolled, staff>>
      BY <1>2 DEF Upload, SoftDelete
    <2>2. VerifiedStay
      BY <1>2 DEF Upload, SoftDelete, PeopleTyped, LifecycleTypeOK, VerifiedStay
    <2> QED
      BY <2>1, <2>2, OthersAgree
  <1>3. ASSUME NEW s \in Staff, VerifyDocument(s) \/ UpdateStatus(s)
        PROVE  StepAgrees /\ ReadInv'
    <2>1. PICK new \in Errands, label \in {"readDocument", "readStatus"} : Begun(s, new, label)
      BY <1>3, ErrandBegins
    <2>2. UNCHANGED <<people, sawDocument, seenStatus>>
      BY <1>3, ErrandBegins
    <2>3. \A t \in Staff : \/ staffPc'[t] \in {"readDocument", "readStatus"}
                           \/ staffPc'[t] = staffPc[t] /\ errand'[t] = errand[t]
      BY <2>1 DEF Begun, PeopleTyped, LifecycleTypeOK
    <2> QED
      BY <2>2, <2>3, OthersAgree DEF VerifiedStay
  <1> QED
    BY <1>1, <1>2, <1>3, StaffAgree, HooksAgree DEF LifecycleStep

(* However calls and promotions are interleaved, whoever acts on a status  *)
(* that still stands follows the table or promotes, and whoever acts on a  *)
(* document as it still stands leaves a VERIFIED one alone.                *)
THEOREM TablesAreFollowed == LifecycleSpec => StepsFollowTheTables
  <1>1. LifecycleInit => ReadInv
    BY DEF LifecycleInit, ReadInv, ReadErrand
  <1>2. ReadInv /\ UNCHANGED <<lifecycleVars, overlapped>> => ReadInv'
    BY DEF ReadInv, ReadErrand, lifecycleVars, staff
  <1>3. PeopleTyped /\ ReadInv /\ [LifecycleNext]_<<lifecycleVars, overlapped>> => ReadInv'
    BY <1>2, StepsAgree DEF LifecycleNext
  <1>4. PeopleTyped /\ ReadInv /\ [LifecycleNext]_<<lifecycleVars, overlapped>>
        => [/\ Acting \cap StatusOutdated = {} =>
                 /\ status' = "FEE_PENDING" /\ status # status' => status = "DOCUMENTS_PENDING"
                 /\ status' = status \/ Allowed(status, status') \/ enrolled' # enrolled
                 /\ enrolled' # enrolled /\ status # "INQUIRY" => status' \in AfterActive
            /\ Acting \cap DocumentOutdated = {} =>
                 \A d \in Documents : document[d] = "VERIFIED" => document'[d] = "VERIFIED"
           ]_<<lifecycleVars, overlapped>>
    BY StepsAgree DEF LifecycleNext, StepAgrees, StatusAgrees, VerifiedStay
  <1> QED
    BY <1>1, <1>3, <1>4, PeopleInvariant, PTL DEF LifecycleSpec, StepsFollowTheTables
=============================================================================
