--------------------------- MODULE PaymentLedger ---------------------------
(***************************************************************************)
(* The money side of one enrolment: its invoices, the payments recorded    *)
(* against it, and the totals on its row.  Staff record payments, then     *)
(* verify or reject them; they make the payment plan and set the fee.      *)
(*                                                                         *)
(* A request is one HTTP call and each of its steps one SQL statement, or  *)
(* the last write of a transaction with its COMMIT.  At READ COMMITTED a   *)
(* statement sees what was committed when it began and its own             *)
(* transaction's writes; an updated row is locked until the transaction    *)
(* ends.  What a transaction has written but not committed is kept with    *)
(* the request, and reaches the tables when it commits.                    *)
(***************************************************************************)
EXTENDS Fees, FiniteSets, FiniteSetsExt

CONSTANTS
    Requests,      \* HTTP calls, each made once
    Ops,           \* the operations called: a subset of AllOps
    Keys,          \* idempotency keys: at most one payment has each
    Amounts,       \* amounts staff record
    Plans,         \* plans staff ask for: <<type, number of instalments>>
    Overrides,     \* fee overrides staff set, NoFee to clear it
    BaseFee, LocationFee,
    StartPlans,    \* instalments of a monthly plan made before, 0 for none
    Recorded,      \* payments recorded before: <<key, amount, instalment no>>
    Nobody,        \* no request
    NoKey, NoInvoice

AllOps == {"record", "verify", "reject", "override", "plan"}
PlanTypes == {"FULL", "MONTHLY", "SEASONAL"}
MaxCount == Max({1} \cup StartPlans \cup {p[2] : p \in Plans})

ASSUME OpsAssumption == Ops \subseteq AllOps
ASSUME RequestsAssumption == IsFiniteSet(Requests) /\ Nobody \notin Requests
ASSUME KeysAssumption == IsFiniteSet(Keys) /\ NoKey \notin Keys
ASSUME AmountsAssumption == Amounts \subseteq Nat \ {0}
ASSUME PlansAssumption ==
    /\ Plans \subseteq PlanTypes \X (Nat \ {0})
    /\ \A p \in Plans : p[1] = "FULL" => p[2] = 1
    /\ IsFiniteSet(Plans) /\ IsFiniteSet(StartPlans) /\ StartPlans \subseteq Nat
ASSUME FeeAssumption ==
    /\ BaseFee \in Nat /\ LocationFee \in Nat \cup {NoFee}
    /\ Overrides \subseteq Nat \cup {NoFee}
ASSUME RecordedAssumption == Recorded \subseteq Keys \X Amounts \X (0 .. MaxCount)

(* An invoice is known by the call that made it and its place in the plan. *)
InvoiceIds == (Requests \cup {Nobody}) \X (1 .. MaxCount)
ASSUME NoInvoiceAssumption == NoInvoice \notin InvoiceIds

VARIABLES
    payments,      \* payments: the row of each key
    invoices,      \* invoices: a set of rows, none ever deleted
    templates,     \* payment_plans of the session: made by whom, for what
    total,         \* enrolments.total_fee
    paid,          \* enrolments.paid_amount
    balance,       \* enrolments.balance
    planType,      \* enrolments.payment_plan_type
    paymentLock,   \* the transaction that has updated each payment
    enrolmentLock, \* the transaction that has updated the enrolment
    counterLock,   \* the transaction that has taken an invoice number
    pc, job,       \* where each request is, and what it was asked to do
    (* What its reads returned: *)
    myTotal,       \* total_fee
    myPaid,        \* paid_amount, or the sum of the completed payments
    myPlanType,    \* payment_plan_type
    myTemplate,    \* whether a template was found
    covered,       \* whether the linked invoice is to be marked PAID
    overlapped     \* history: two calls have been under way at once

tables == <<payments, invoices, templates, total, paid, balance, planType>>
locks == <<paymentLock, enrolmentLock, counterLock>>
reads == <<myTotal, myPaid, myPlanType, myTemplate, covered>>
vars == <<tables, locks, pc, job, reads>>

-----------------------------------------------------------------------------
(* Types *)

Payment == [status : {"PENDING_VERIFICATION", "COMPLETED", "FAILED"},
            amount : Nat, invoice : InvoiceIds \cup {NoInvoice}]
NoPayment == [status |-> "ABSENT", amount |-> 0, invoice |-> NoInvoice]

(* no is instalment_no, 0 when the column is null. *)
Invoice == [id : InvoiceIds, amount : Nat, status : {"PENDING", "PAID"},
            type : PlanTypes, no : 0 .. MaxCount]

Template == [owner : Requests \cup {Nobody}, type : PlanTypes, count : 1 .. MaxCount]

Job == [op : AllOps \cup {"none"}, key : Keys \cup {NoKey}, amount : Nat \cup {NoFee},
        invoice : InvoiceIds \cup {NoInvoice}, type : PlanTypes, count : 1 .. MaxCount]
NoJob == [op |-> "none", key |-> NoKey, amount |-> 0, invoice |-> NoInvoice,
          type |-> "FULL", count |-> 1]

(* Before and after the verification's write to the payment row. *)
Flipped == {"readTotal", "sumPaid", "updateTotals", "readInvoice", "sumInvoice", "commit"}
TotalsUpdated == {"readInvoice", "sumInvoice", "commit"}
InTransaction ==
    Flipped \cup {"readPayment", "flip", "reject", "readEnrolment", "override",
                  "readPlan", "template", "number", "insert"}
Outside == {"checkInvoice", "lookup", "create"}
Settled == {"done", "refused", "aborted"}

TypeOK ==
    /\ payments \in [Keys -> Payment \cup {NoPayment}]
    /\ invoices \subseteq Invoice
    /\ templates \subseteq Template
    /\ total \in Nat /\ paid \in Nat /\ balance \in Int
    /\ planType \in PlanTypes
    /\ paymentLock \in [Keys -> Requests \cup {Nobody}]
    /\ enrolmentLock \in Requests \cup {Nobody}
    /\ counterLock \in Requests \cup {Nobody}
    /\ pc \in [Requests -> {"idle"} \cup Outside \cup InTransaction \cup Settled]
    /\ job \in [Requests -> Job]
    /\ myTotal \in [Requests -> Nat]
    /\ myPaid \in [Requests -> Nat]
    /\ myPlanType \in [Requests -> PlanTypes]
    /\ myTemplate \in [Requests -> BOOLEAN]
    /\ covered \in [Requests -> BOOLEAN]
    /\ overlapped \in BOOLEAN

-----------------------------------------------------------------------------
(* Queries *)

Exists(k) == payments[k].status # "ABSENT"

(* What the payments of some keys come to. *)
Value(rows, keys) == MapThenSumSet(LAMBDA k : rows[k].amount, keys)
SumOf(keys) == Value(payments, keys)

(* Mutant of CompletedSeenBy: the aggregate loses its filter on status. *)
CompletedSeenBy_all(r) == {k \in Keys : Exists(k)}

(* What WHERE status = 'COMPLETED' finds: what is committed, and the       *)
(* payment the transaction itself has flipped.                             *)
CompletedSeenBy(r) ==
    {k \in Keys : \/ payments[k].status = "COMPLETED"
                  \/ pc[r] \in Flipped /\ job[r].key = k}

LinkedTo(id) == {k \in Keys : Exists(k) /\ payments[k].invoice = id}

(* The invoices of a plan.  A FULL plan leaves instalment_no null. *)
PlannedInvoices(owner, type, count, fee) ==
    LET parts == SplitTotalEvenly(fee, count)
    IN  {[id |-> <<owner, i>>, amount |-> parts[i], status |-> "PENDING", type |-> type,
          no |-> IF type = "FULL" THEN 0 ELSE i] : i \in 1 .. count}

ExpectedFee(override) == EnrolmentFee(override, LocationFee, BaseFee)

-----------------------------------------------------------------------------
(* The enrolment as the allocator inserts it, its monthly plan if it has   *)
(* one, and the payments recorded so far, none of them verified.           *)
Init ==
    /\ total = ExpectedFee(NoFee)
    /\ paid = 0
    /\ balance = total
    /\ \E start \in StartPlans :
          /\ planType \in IF start = 0 THEN PlanTypes ELSE {"MONTHLY"}
          /\ invoices = IF start = 0 THEN {}
                        ELSE PlannedInvoices(Nobody, "MONTHLY", start, total)
          /\ templates = IF start = 0 THEN {}
                         ELSE {[owner |-> Nobody, type |-> "MONTHLY", count |-> start]}
          /\ payments = [k \in Keys |->
                 IF \E p \in Recorded : p[1] = k
                 THEN LET p == CHOOSE p \in Recorded : p[1] = k
                      IN  [status |-> "PENDING_VERIFICATION", amount |-> p[2],
                           invoice |-> IF p[3] \in 1 .. start THEN <<Nobody, p[3]>> ELSE NoInvoice]
                 ELSE NoPayment]
    /\ paymentLock = [k \in Keys |-> Nobody]
    /\ enrolmentLock = Nobody
    /\ counterLock = Nobody
    /\ pc = [r \in Requests |-> "idle"]
    /\ job = [r \in Requests |-> NoJob]
    /\ myTotal = [r \in Requests |-> 0]
    /\ myPaid = [r \in Requests |-> 0]
    /\ myPlanType = [r \in Requests |-> "FULL"]
    /\ myTemplate = [r \in Requests |-> FALSE]
    /\ covered = [r \in Requests |-> FALSE]
    /\ overlapped = FALSE

Goto(r, label) == pc' = [pc EXCEPT ![r] = label]

-----------------------------------------------------------------------------
(* Requests arrive *)

Start(r, op, args, label) ==
    /\ pc[r] = "idle"
    /\ op \in Ops
    /\ job' = [job EXCEPT ![r] = [args EXCEPT !.op = op]]
    /\ Goto(r, label)
    /\ UNCHANGED <<tables, locks, reads>>

Record(r) ==
    \E k \in Keys, a \in Amounts, id \in {i.id : i \in invoices} \cup {NoInvoice} :
        Start(r, "record", [NoJob EXCEPT !.key = k, !.amount = a, !.invoice = id],
              IF id = NoInvoice THEN "lookup" ELSE "checkInvoice")

(* Staff act on a payment that is listed. *)
Decide(r) ==
    \E k \in {k \in Keys : Exists(k)}, op \in {"verify", "reject"} :
        Start(r, op, [NoJob EXCEPT !.key = k], "readPayment")

SetFeeOverride(r) ==
    \E a \in Overrides : Start(r, "override", [NoJob EXCEPT !.amount = a], "readEnrolment")

CreatePlan(r) ==
    \E p \in Plans : Start(r, "plan", [NoJob EXCEPT !.type = p[1], !.count = p[2]], "readPlan")

-----------------------------------------------------------------------------
(* Transactions *)

ReleaseLocks(r) ==
    /\ paymentLock' = [k \in Keys |-> IF paymentLock[k] = r THEN Nobody ELSE paymentLock[k]]
    /\ enrolmentLock' = IF enrolmentLock = r THEN Nobody ELSE enrolmentLock
    /\ counterLock' = IF counterLock = r THEN Nobody ELSE counterLock

Commit(r) == ReleaseLocks(r) /\ Goto(r, "done") /\ UNCHANGED <<job, reads>>

Abort(r) ==
    /\ pc[r] \in Outside \cup InTransaction
    /\ ReleaseLocks(r)
    /\ Goto(r, "aborted")
    /\ UNCHANGED <<tables, job, reads>>

(* A statement that reads and goes on, or refuses the call. *)
Look(r, label, refuse, next) ==
    /\ pc[r] = label
    /\ Goto(r, IF refuse THEN "refused" ELSE next)
    /\ UNCHANGED <<tables, locks, job>>

-----------------------------------------------------------------------------
(* recordOffline: three statements, no transaction *)

CheckInvoice(r) ==
    /\ Look(r, "checkInvoice",
            \E i \in invoices : i.id = job[r].invoice /\ i.status = "PAID", "lookup")
    /\ UNCHANGED reads

(* A repeated key is answered with the payment recorded before. *)
Lookup(r) ==
    /\ Look(r, "lookup", FALSE, IF Exists(job[r].key) THEN "done" ELSE "create")
    /\ UNCHANGED reads

(* Mutant of CreatePayment: the column is not unique, the row is replaced. *)
CreatePayment_upsert(r) ==
    /\ pc[r] = "create"
    /\ payments' = [payments EXCEPT ![job[r].key] =
                      [status |-> "PENDING_VERIFICATION", amount |-> job[r].amount,
                       invoice |-> job[r].invoice]]
    /\ Goto(r, "done")
    /\ UNCHANGED <<invoices, templates, total, paid, balance, planType, locks, job, reads>>

(* The key's unique index turns down a second row. *)
CreatePayment(r) ==
    /\ pc[r] = "create"
    /\ IF Exists(job[r].key)
       THEN Goto(r, "refused") /\ UNCHANGED payments
       ELSE /\ Goto(r, "done")
            /\ payments' = [payments EXCEPT ![job[r].key] =
                              [status |-> "PENDING_VERIFICATION", amount |-> job[r].amount,
                               invoice |-> job[r].invoice]]
    /\ UNCHANGED <<invoices, templates, total, paid, balance, planType, locks, job, reads>>

-----------------------------------------------------------------------------
(* verify and reject *)

(* Mutant of ReadPayment: a payment decided before is decided again. *)
ReadPayment_anyStatus(r) ==
    /\ Look(r, "readPayment", FALSE, IF job[r].op = "verify" THEN "flip" ELSE "reject")
    /\ UNCHANGED reads

ReadPayment(r) ==
    /\ Look(r, "readPayment", payments[job[r].key].status # "PENDING_VERIFICATION",
            IF job[r].op = "verify" THEN "flip" ELSE "reject")
    /\ UNCHANGED reads

(* UPDATE ... SET status = 'COMPLETED' WHERE id: whatever the status is now. *)
FlipPayment(r) ==
    /\ pc[r] = "flip"
    /\ paymentLock[job[r].key] = Nobody
    /\ paymentLock' = [paymentLock EXCEPT ![job[r].key] = r]
    /\ Goto(r, "readTotal")
    /\ UNCHANGED <<tables, enrolmentLock, counterLock, job, reads>>

(* recomputeBalance: read the fee, add up, write both totals. *)
ReadTotal(r) ==
    /\ Look(r, "readTotal", FALSE, "sumPaid")
    /\ myTotal' = [myTotal EXCEPT ![r] = total]
    /\ UNCHANGED <<myPaid, myPlanType, myTemplate, covered>>

SumPaid(r) ==
    /\ Look(r, "sumPaid", FALSE, "updateTotals")
    /\ myPaid' = [myPaid EXCEPT ![r] = SumOf(CompletedSeenBy(r))]
    /\ UNCHANGED <<myTotal, myPlanType, myTemplate, covered>>

(* Mutant of UpdateTotals: the totals are written after the transaction,   *)
(* so that no lock is held while the invoice is looked at.                 *)
UpdateTotals_unlocked(r) ==
    /\ pc[r] = "updateTotals"
    /\ Goto(r, IF payments[job[r].key].invoice = NoInvoice THEN "commit" ELSE "readInvoice")
    /\ UNCHANGED <<tables, locks, job, reads>>

UpdateTotals(r) ==
    /\ pc[r] = "updateTotals"
    /\ enrolmentLock = Nobody
    /\ enrolmentLock' = r
    /\ Goto(r, IF payments[job[r].key].invoice = NoInvoice THEN "commit" ELSE "readInvoice")
    /\ UNCHANGED <<tables, paymentLock, counterLock, job, reads>>

ReadInvoice(r) ==
    /\ Look(r, "readInvoice", FALSE,
            IF \E i \in invoices : i.id = payments[job[r].key].invoice /\ i.status = "PAID"
            THEN "commit" ELSE "sumInvoice")
    /\ UNCHANGED reads

SumInvoice(r) ==
    LET id == payments[job[r].key].invoice IN
    /\ Look(r, "sumInvoice", FALSE, "commit")
    /\ covered' = [covered EXCEPT ![r] =
          \E i \in invoices :
              i.id = id /\ SumOf(CompletedSeenBy(r) \cap LinkedTo(id)) >= i.amount]
    /\ UNCHANGED <<myTotal, myPaid, myPlanType, myTemplate>>

MarkedPaid(r) ==
    {IF i.id = payments[job[r].key].invoice /\ covered[r] THEN [i EXCEPT !.status = "PAID"] ELSE i
       : i \in invoices}

CommitVerification(r) ==
    /\ pc[r] = "commit"
    /\ payments' = [payments EXCEPT ![job[r].key] = [@ EXCEPT !.status = "COMPLETED"]]
    /\ paid' = myPaid[r]
    /\ balance' = myTotal[r] - myPaid[r]
    /\ invoices' = MarkedPaid(r)
    /\ Commit(r)
    /\ UNCHANGED <<templates, total, planType>>

(* Mutant of RejectPayment: it refreshes the totals and then marks the     *)
(* payment, where verify marks the payment and then refreshes the totals.  *)
RejectPayment_totalsFirst(r) ==
    /\ pc[r] = "reject"
    /\ \/ /\ enrolmentLock = Nobody
          /\ enrolmentLock' = r
          /\ UNCHANGED <<payments, paymentLock, counterLock, pc, job, reads>>
       \/ /\ enrolmentLock = r
          /\ paymentLock[job[r].key] = Nobody
          /\ payments' = [payments EXCEPT ![job[r].key] = [@ EXCEPT !.status = "FAILED"]]
          /\ Commit(r)
    /\ UNCHANGED <<invoices, templates, total, paid, balance, planType>>

RejectPayment(r) ==
    /\ pc[r] = "reject"
    /\ paymentLock[job[r].key] = Nobody
    /\ payments' = [payments EXCEPT ![job[r].key] = [@ EXCEPT !.status = "FAILED"]]
    /\ Commit(r)
    /\ UNCHANGED <<invoices, templates, total, paid, balance, planType>>

-----------------------------------------------------------------------------
(* setFeeOverride *)

ReadEnrolment(r) ==
    /\ Look(r, "readEnrolment", invoices # {}, "override")
    /\ myPaid' = [myPaid EXCEPT ![r] = paid]
    /\ UNCHANGED <<myTotal, myPlanType, myTemplate, covered>>

OverrideFee(r) ==
    /\ pc[r] = "override"
    /\ enrolmentLock = Nobody
    /\ total' = ExpectedFee(job[r].amount)
    /\ balance' = total' - myPaid[r]
    /\ Commit(r)
    /\ UNCHANGED <<payments, invoices, templates, paid, planType>>

-----------------------------------------------------------------------------
(* createPlanForEnrolment *)

ReadPlan(r) ==
    /\ Look(r, "readPlan", invoices # {}, "template")
    /\ myTotal' = [myTotal EXCEPT ![r] = total]
    /\ myPlanType' = [myPlanType EXCEPT ![r] = planType]
    /\ UNCHANGED <<myPaid, myTemplate, covered>>

FindTemplate(r) ==
    /\ Look(r, "template", FALSE, "number")
    /\ myTemplate' = [myTemplate EXCEPT ![r] =
          \E t \in templates : t.type = job[r].type /\ t.count = job[r].count]
    /\ UNCHANGED <<myTotal, myPaid, myPlanType, covered>>

(* The first invoice number locks the tenant's counter. *)
TakeInvoiceNumber(r) ==
    /\ pc[r] = "number"
    /\ counterLock = Nobody
    /\ counterLock' = r
    /\ Goto(r, "insert")
    /\ UNCHANGED <<tables, paymentLock, enrolmentLock, job, reads>>

(* Mutant of TakenInstalment: the index is over the invoice number only. *)
TakenInstalment_noIndex(r) == FALSE

(* The index on (enrolment, instalment_no) turns down an instalment that   *)
(* exists.  It does not cover the null of a FULL plan.                     *)
TakenInstalment(r) ==
    job[r].type # "FULL" /\ \E i \in invoices : i.no \in 1 .. job[r].count

(* The invoices, and the enrolment's plan type when it differs. *)
InsertInvoices(r) ==
    LET new == PlannedInvoices(r, job[r].type, job[r].count, myTotal[r])
    IN  /\ pc[r] = "insert"
        /\ ~TakenInstalment(r)
        /\ myPlanType[r] # job[r].type => enrolmentLock = Nobody
        /\ invoices' = invoices \cup new
        /\ templates' = IF myTemplate[r] THEN templates
                        ELSE templates \cup {[owner |-> r, type |-> job[r].type,
                                              count |-> job[r].count]}
        /\ planType' = IF myPlanType[r] # job[r].type THEN job[r].type ELSE planType
        /\ Commit(r)
        /\ UNCHANGED <<payments, total, paid, balance>>

RefuseInvoices(r) ==
    /\ pc[r] = "insert"
    /\ TakenInstalment(r)
    /\ ReleaseLocks(r)
    /\ Goto(r, "refused")
    /\ UNCHANGED <<tables, job, reads>>

-----------------------------------------------------------------------------
Arrive(r) == Record(r) \/ Decide(r) \/ SetFeeOverride(r) \/ CreatePlan(r)

Proceed(r) ==
    \/ CheckInvoice(r) \/ Lookup(r) \/ CreatePayment(r)
    \/ ReadPayment(r) \/ FlipPayment(r) \/ RejectPayment(r)
    \/ ReadTotal(r) \/ SumPaid(r) \/ UpdateTotals(r)
    \/ ReadInvoice(r) \/ SumInvoice(r) \/ CommitVerification(r)
    \/ ReadEnrolment(r) \/ OverrideFee(r)
    \/ ReadPlan(r) \/ FindTemplate(r) \/ TakeInvoiceNumber(r)
    \/ InsertInvoices(r) \/ RefuseInvoices(r)

UnderWay == {r \in Requests : pc[r] \in Outside \cup InTransaction}

CallStep == \E r \in Requests : Arrive(r) \/ Proceed(r) \/ Abort(r)

Next ==
    /\ CallStep
    /\ overlapped' = (overlapped \/ Cardinality(UnderWay') > 1)

Spec == Init /\ [][Next]_<<vars, overlapped>>

-----------------------------------------------------------------------------
(* Properties *)

CompletedPayments == {k \in Keys : payments[k].status = "COMPLETED"}

(* Payments that some committed verification has accepted. *)
Verified ==
    {k \in Keys : \E r \in Requests : pc[r] = "done" /\ job[r].op = "verify" /\ job[r].key = k}

(* verify, "Mark linked invoice paid if this payment covers it"            *)
(* (payments.service.ts 211-213): when the completed payments of an        *)
(* invoice come to its amount it is PAID, although two transactions that   *)
(* verify its halves at once do not see each other's: the second waits for *)
(* the enrolment's row before it adds up.                                  *)
CoveredInvoicesArePaid ==
    \A i \in invoices :
        LET own == CompletedPayments \cap LinkedTo(i.id)
        IN  own # {} /\ SumOf(own) >= i.amount => i.status = "PAID"

(* recordOffline, "staff must then call /verify to apply the funds"        *)
(* (70-71): neither the enrolment's paid amount nor a PAID invoice counts  *)
(* money that no verification accepted.                                    *)
OnlyVerifiedMoneyCounts ==
    /\ paid <= SumOf(Verified)
    /\ \A i \in invoices : i.status = "PAID" => SumOf(Verified \cap LinkedTo(i.id)) >= i.amount

(* "A duplicate POST returns 409 instead of double-creating" (73-74): a    *)
(* payment, once recorded under its key, stays, with its amount and its    *)
(* invoice, however many calls race with that key.  Of the 409 only this   *)
(* much is so: the unique index gives it to a call that loses the race     *)
(* between lookup and insert; a later call is answered with the row there  *)
(* is (133-143).                                                           *)
PayloadIsKept ==
    [][\A k \in Keys : Exists(k) =>
          /\ payments'[k].status # "ABSENT"
          /\ payments'[k].amount = payments[k].amount
          /\ payments'[k].invoice = payments[k].invoice]_vars

(* Two calls that make instalment plans at once both find no invoices; the *)
(* index of the migration leaves one plan's instalments standing, numbered *)
(* from 1 without a gap.                                                   *)
OneInstalmentPlan ==
    LET numbered == {i \in invoices : i.no # 0}
    IN  /\ \A i, j \in numbered : i.id[1] = j.id[1]
        /\ {i.no : i \in numbered} = 1 .. Cardinality(numbered)

(* The next statement of r updates a row that another call has updated and *)
(* not yet committed.                                                      *)
NeedsEnrolment(r) ==
    \/ pc[r] \in {"updateTotals", "override"}
    \/ pc[r] = "insert" /\ ~TakenInstalment(r) /\ myPlanType[r] # job[r].type
Waits(r) ==
    \/ pc[r] \in {"flip", "reject"} /\ paymentLock[job[r].key] # Nobody
    \/ NeedsEnrolment(r) /\ enrolmentLock # Nobody
    \/ pc[r] = "number" /\ counterLock # Nobody

(* No order of the payment, enrolment and counter locks leaves calls       *)
(* waiting for one another, or for a call that has ended: of those under   *)
(* way one does not wait.  Every step is one of finitely many, so that all *)
(* of them settle.                                                         *)
NoCircularWait == UnderWay # {} => \E r \in UnderWay : ~Waits(r)

(* Locks are all that a call under way can wait for: each step of the code *)
(* has an outcome for whatever it has read.                                *)
OnlyLocksBlock == \A r \in UnderWay : Waits(r) \/ ENABLED Proceed(r)

(* Why: a lock is held by a call that is past asking for it and has not    *)
(* ended.  Payments and the counter come before the enrolment, and whoever *)
(* holds the enrolment's row asks for nothing more.                        *)
HoldersAreUnderWay ==
    /\ \A k \in Keys : paymentLock[k] # Nobody => pc[paymentLock[k]] \in Flipped
    /\ enrolmentLock # Nobody => pc[enrolmentLock] \in TotalsUpdated
    /\ counterLock # Nobody => pc[counterLock] = "insert"

-----------------------------------------------------------------------------
(* What the code says of itself.  Only the calls that wait for one another *)
(* keep it: SerialCallsAgree.                                              *)

(* fees.service.ts 341: once no verification is under way, the paid amount *)
(* is the sum of the completed payments.  Two verifications at once do not *)
(* keep it.                                                                *)
PaidIsRefreshed ==
    (\A r \in Requests : pc[r] \notin InTransaction) => paid = SumOf(CompletedPayments)

BalanceRederived == balance = total - paid

RejectedNeverCounted == paid <= SumOf({k \in Keys : payments[k].status # "FAILED"})

DecidedOnce ==
    \A q, r \in Requests :
        /\ pc[q] = "done" /\ pc[r] = "done"
        /\ {job[q].op, job[r].op} \subseteq {"verify", "reject"}
        /\ job[q].key = job[r].key
        => q = r

OnePlan == \A i, j \in invoices : i.id[1] = j.id[1]

AmountOf(rows) == MapThenSumSet(LAMBDA i : i.amount, rows)

InvoicesMatchFee == OnePlan /\ invoices # {} => AmountOf(invoices) = total

(* As long as no two calls are under way at once, aborted ones included,   *)
(* the paid amount is the sum of the completed payments (fees.service.ts   *)
(* 341), the balance is the fee less the paid amount (197), a rejected     *)
(* payment is not part of it (payments.service.ts 267-268), a payment is   *)
(* decided once (191-195), the enrolment gets no second plan               *)
(* (fees.service.ts 47-49), and its invoices come to its fee (204-206).    *)
SerialCallsAgree ==
    ~overlapped =>
        /\ PaidIsRefreshed /\ BalanceRederived /\ RejectedNeverCounted
        /\ DecidedOnce /\ OnePlan /\ InvoicesMatchFee
=============================================================================
