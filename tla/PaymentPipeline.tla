-------------------------- MODULE PaymentPipeline --------------------------
(***************************************************************************)
(* What surrounds a payment.  A gateway reports its result by a webhook,   *)
(* which is stored and processed by a cron; a payment that completes runs  *)
(* hooks, which make its receipt and confirm it; an invoice gets a payment *)
(* link, and then reminders from another cron.  All of them send their     *)
(* messages through NotificationQueue.                                     *)
(*                                                                         *)
(* The gateway strategies of the repository are stubs that refuse every    *)
(* webhook; Integrated names those that have been replaced as their        *)
(* interface describes.  A transaction is three steps, as in               *)
(* PaymentLedger: what it finds, its writes and sums, its COMMIT.          *)
(***************************************************************************)
EXTENDS NotificationQueue, FiniteSetsExt, SequencesExt

CONSTANTS
    Runs,           \* runs of the webhook cron that may be under way at once
    Hooks,          \* hooks that may be under way at once
    Reminders,      \* runs of the reminder cron
    Staff,          \* calls that issue a payment link
    Callers,        \* other calls that notify somebody: each does Errands
    Errands,        \*   once
    Administrators, \* calls that retry a message
    Workloads,      \* sets of processes: one of them is what takes part
    Events,         \* what gateways report: a subset of Event
    MaxEvents(_),   \* bound on the webhooks received, by workload
    Batch,          \* batchSize, 50 in the code
    Integrated,     \* gateways whose strategy is not a stub
    DefaultGateway, \* that of the tenant
    Refs,           \* payments, by the reference of their gateway
    InvoiceOf(_),   \* the invoice of each
    Invoices, InvoiceAmount, NoInvoice,
    DueDate(_),     \* the day on which each invoice is due
    Configured,     \* the reminders the tenant has set: days before the date
    MaxDay          \* bound on the clock

Gateways == {"MOYASAR", "PAYTABS", "HYPERPAY", "OFFLINE"}

(* OFFLINE stands for an unknown gateway.                                  *)
Event == [gateway : Gateways, signed : BOOLEAN, parses : BOOLEAN,
          ref : Refs, status : {"COMPLETED", "FAILED"}, amount : Nat]

ASSUME PipelineAssumption ==
    /\ Events \subseteq Event
    /\ Integrated \subseteq Gateways \ {"OFFLINE"} /\ DefaultGateway \in Gateways
    /\ (\A w \in Workloads : MaxEvents(w) \in Nat) /\ Batch \in Nat \ {0} /\ MaxDay \in Nat /\ InvoiceAmount \in Nat
    /\ Configured \subseteq Nat /\ IsFiniteSet(Configured)
    /\ IsFiniteSet(Runs) /\ IsFiniteSet(Refs) /\ IsFiniteSet(Invoices)
    /\ \A k \in Refs : InvoiceOf(k) \in Invoices
    /\ Processes = Runs \cup Hooks \cup Reminders \cup Staff \cup Callers \cup Administrators

VARIABLES
    workload,  \* the processes that take part
    inbox,     \* cm_payment_webhook_events, in the order received
    payments,  \* payments: <<status, amount>> by reference
    paid,      \* enrolments.paid_amount
    invoicePaid,  \* the invoices that are PAID
    links,     \* the invoices that have a payment_link
    reminded,  \* reminder_sent_count
    hooksDue,  \* hooks started, of each payment, that have not begun
    receipts,  \* the PDFs on the disk
    receiptKeys, \* the payments with a receipt_key
    today,     \* the day
    at,        \* where each process is
    work,      \* what it has still to work through
    seen,      \* what it has read
    disordered \* history: two transactions at once, or a payment set back,
               \*   to FAILED or to a smaller amount

tables == <<inbox, payments, paid, invoicePaid, links, reminded, receipts, receiptKeys>>
control == <<workload, hooksDue, today, at, work, seen>>
vars == <<queue, tables, control, disordered>>

Absent == <<"ABSENT", 0>>

PipelineTypeOK ==
    /\ inbox \in Seq([event : Events, processed : BOOLEAN])
    /\ payments \in [Refs -> {Absent} \cup {"COMPLETED", "FAILED"} \X Nat]
    /\ paid \in Nat
    /\ invoicePaid \subseteq Invoices /\ links \subseteq Invoices
    /\ reminded \in [Invoices -> Nat]
    /\ hooksDue \in [Refs -> Nat]
    /\ receiptKeys \subseteq receipts /\ receipts \subseteq Refs
    /\ today \in 0 .. MaxDay

-----------------------------------------------------------------------------
Value(rows, refs) == MapThenSumSet(LAMBDA k : rows[k][2], refs)
SumOf(refs) == Value(payments, refs)
Completed == {k \in Refs : payments[k][1] = "COMPLETED"}

PipelineInit ==
    /\ QueueInit
    /\ workload \in Workloads
    /\ inbox = <<>>
    /\ payments = [k \in Refs |-> Absent]
    /\ paid = 0
    /\ invoicePaid = {}
    /\ links = {}
    /\ reminded = [i \in Invoices |-> 0]
    /\ hooksDue = [k \in Refs |-> 0]
    /\ receipts = {} /\ receiptKeys = {}
    /\ today = 0
    /\ at = [p \in Processes |-> "rest"]
    /\ work = [p \in Processes |-> <<>>]
    /\ seen = [p \in Processes |-> 0]
    /\ disordered = FALSE

IsAt(p, label) == p \in workload /\ at[p] = label /\ place[p] = "rest"
Goto(p, label) == at' = [at EXCEPT ![p] = label]

-----------------------------------------------------------------------------
(* Webhooks are stored as they come: repeated, late, in any order.  One    *)
(* whose insert fails is answered all the same, and is not there.          *)

Receive ==
    /\ Runs \cap workload # {}
    /\ Len(inbox) < MaxEvents(workload)
    /\ \E e \in Events : inbox' = Append(inbox, [event |-> e, processed |-> FALSE])
    /\ UNCHANGED <<queue, payments, paid, invoicePaid, links, reminded, receipts, receiptKeys,
                   control>>

InOrder(S) ==
    CHOOSE s \in [1 .. Cardinality(S) -> S] : \A i, j \in 1 .. Cardinality(S) : i < j => s[i] < s[j]

(* The oldest of what is not processed, as many as a batch holds. *)
Pending ==
    LET open == {i \in DOMAIN inbox : ~inbox[i].processed}
    IN  InOrder({i \in open : Cardinality({j \in open : j < i}) < Batch})

StartRun(w) ==
    /\ IsAt(w, "rest")
    /\ Pending # <<>>
    /\ work' = [work EXCEPT ![w] = Pending]
    /\ Goto(w, "verify")
    /\ UNCHANGED <<queue, tables, workload, hooksDue, today, seen>>

EventOf(w) == inbox[Head(work[w])].event

(* The strategy of the gateway: a stub's answer is no. *)
VerifySignature(e) == e.gateway \in Integrated /\ e.signed

(* Mutant of Verify: an event that is turned down is not marked. *)
Verify_leaves(w) ==
    /\ IsAt(w, "verify")
    /\ Goto(w, IF VerifySignature(EventOf(w)) /\ EventOf(w).parses THEN "find" ELSE "rest")
    /\ UNCHANGED <<queue, tables, workload, hooksDue, today, work, seen>>

Verify(w) ==
    /\ IsAt(w, "verify")
    /\ Goto(w, IF VerifySignature(EventOf(w)) /\ EventOf(w).parses THEN "find" ELSE "mark")
    /\ UNCHANGED <<queue, tables, workload, hooksDue, today, work, seen>>

(* applyGatewayResult: is there a payment with this reference? *)
FindPayment(w) ==
    /\ IsAt(w, "find")
    /\ seen' = [seen EXCEPT ![w] = IF payments[EventOf(w).ref] # Absent THEN 1 ELSE 0]
    /\ Goto(w, "write")
    /\ UNCHANGED <<queue, tables, workload, hooksDue, today, work>>

(* The payment row, or its place in the unique index, is locked until the  *)
(* transaction of another run ends; a row inserted meanwhile ends this one *)
(* with an error.  seen is then the new sum.                               *)
WritePayment(w) ==
    LET e == EventOf(w) IN
    /\ IsAt(w, "write")
    /\ \A v \in Runs \ {w} : at[v] = "commit" => EventOf(v).ref # e.ref
    /\ IF seen[w] = 0 /\ payments[e.ref] # Absent
       THEN Goto(w, "mark") /\ UNCHANGED seen
       ELSE /\ Goto(w, "commit")
            /\ seen' = [seen EXCEPT ![w] = SumOf(Completed \ {e.ref}) + e.amount]
    /\ UNCHANGED <<queue, tables, workload, hooksDue, today, work>>

Covers(refs, e, i) ==
    SumOf({k \in refs \ {e.ref} : InvoiceOf(k) = i}) + e.amount >= InvoiceAmount

(* Mutant of NewTotal: a repeated result is added to the total. *)
NewTotal_adds(w) == paid + EventOf(w).amount

NewTotal(w) == seen[w]

(* The totals are derived and the hooks started only for COMPLETED. *)
CommitResult(w) ==
    LET e == EventOf(w)
        i == InvoiceOf(e.ref)
        done == e.status = "COMPLETED"
    IN  /\ IsAt(w, "commit")
        /\ payments' = [payments EXCEPT ![e.ref] = <<e.status, e.amount>>]
        /\ paid' = IF done THEN NewTotal(w) ELSE paid
        /\ invoicePaid' = IF done /\ Covers(Completed, e, i) THEN invoicePaid \cup {i} ELSE invoicePaid
        /\ hooksDue' = IF done THEN [hooksDue EXCEPT ![e.ref] = @ + 1] ELSE hooksDue
        /\ Goto(w, "mark")
        /\ UNCHANGED <<queue, inbox, links, reminded, receipts, receiptKeys, workload, today, work,
                       seen>>

(* Whatever became of the event it is not looked at again: neither a       *)
(* forged one nor one whose result could not be applied blocks the queue.  *)
MarkProcessed(w) ==
    /\ IsAt(w, "mark")
    /\ inbox' = [inbox EXCEPT ![Head(work[w])] = [@ EXCEPT !.processed = TRUE]]
    /\ work' = [work EXCEPT ![w] = Tail(@)]
    /\ seen' = [seen EXCEPT ![w] = 0]
    /\ Goto(w, IF Len(work[w]) = 1 THEN "rest" ELSE "verify")
    /\ UNCHANGED <<queue, payments, paid, invoicePaid, links, reminded, receipts, receiptKeys,
                   workload, hooksDue, today>>

(* The transaction fails: processOne catches that and marks the event.     *)
ResultIsLost(w) ==
    /\ IsAt(w, at[w]) /\ at[w] \in {"find", "write", "commit"}
    /\ Goto(w, "mark")
    /\ UNCHANGED <<queue, tables, workload, hooksDue, today, work, seen>>

Process(w) ==
    \/ StartRun(w) \/ Verify(w) \/ FindPayment(w) \/ WritePayment(w) \/ CommitResult(w)
    \/ MarkProcessed(w) \/ ResultIsLost(w)

-----------------------------------------------------------------------------
(* The receipt hook: nobody waits for it *)

StartHook(h) ==
    \E k \in Refs :
        /\ IsAt(h, "rest") /\ hooksDue[k] > 0
        /\ hooksDue' = [hooksDue EXCEPT ![k] = @ - 1]
        /\ work' = [work EXCEPT ![h] = <<k>>]
        /\ Goto(h, "build")
        /\ UNCHANGED <<queue, tables, workload, today, seen>>

(* The file of a payment is always the same one. *)
BuildReceipt(h) ==
    /\ IsAt(h, "build")
    /\ receipts' = receipts \cup {Head(work[h])}
    /\ Goto(h, "key")
    /\ UNCHANGED <<queue, inbox, payments, paid, invoicePaid, links, reminded, receiptKeys,
                   workload, hooksDue, today, work, seen>>

SaveReceiptKey(h) ==
    /\ IsAt(h, "key")
    /\ receiptKeys' = receiptKeys \cup {Head(work[h])}
    /\ Goto(h, "confirm")
    /\ UNCHANGED <<queue, inbox, payments, paid, invoicePaid, links, reminded, receipts,
                   workload, hooksDue, today, work, seen>>

Confirm(h) ==
    /\ IsAt(h, "confirm")
    /\ Begin(h, PaymentConfirm(Head(work[h])))
    /\ work' = [work EXCEPT ![h] = <<>>]
    /\ Goto(h, "rest")
    /\ UNCHANGED <<tables, workload, hooksDue, today, seen>>

RunHook(h) == StartHook(h) \/ BuildReceipt(h) \/ SaveReceiptKey(h) \/ Confirm(h)

-----------------------------------------------------------------------------
(* Payment links.  The portal token they carry is in PortalAccess.         *)

(* A tenant of a gateway that is still a stub gets an error. *)
IssueLink(s) ==
    \E i \in Invoices :
        /\ IsAt(s, "rest")
        /\ work' = [work EXCEPT ![s] = <<i>>]
        /\ Goto(s, IF i \in invoicePaid \/ DefaultGateway \notin Integrated \cup {"OFFLINE"}
                   THEN "ended" ELSE "link")
        /\ UNCHANGED <<queue, tables, workload, hooksDue, today, seen>>

SaveLink(s) ==
    /\ IsAt(s, "link")
    /\ links' = links \cup {Head(work[s])}
    /\ Goto(s, "notify")
    /\ UNCHANGED <<queue, inbox, payments, paid, invoicePaid, reminded, receipts, receiptKeys,
                   workload, hooksDue, today, work, seen>>

AnnounceInvoice(s) ==
    /\ IsAt(s, "notify")
    /\ Begin(s, FeeInvoice(Head(work[s])))
    /\ Goto(s, "ended")
    /\ UNCHANGED <<tables, workload, hooksDue, today, work, seen>>

Issue(s) == IssueLink(s) \/ SaveLink(s) \/ AnnounceInvoice(s)

-----------------------------------------------------------------------------
(* The reminder cron *)

DefaultWaves == {7, 1, 0, -3, -7}
Waves == IF Configured = {} THEN DefaultWaves ELSE Configured \cup {w \in DefaultWaves : w < 0}

ASSUME MessageAssumption ==
    Errands \cup {FeeInvoice(i) : i \in Invoices} \cup {PaymentConfirm(k) : k \in Refs}
            \cup {PaymentReminder(i, w) : i \in Invoices, w \in Waves} \subseteq Seq(Keys) \ {<<>>}

(* The run takes the day at which it starts (seen) and its waves; those    *)
(* that match no invoice are passed over.  It has waves to look up and, in *)
(* front of them, the reminders of the last one to send.                   *)
StartReminders(c) ==
    LET waves == {w \in Waves : \E i \in Invoices : DueDate(i) = today + w} IN
    /\ IsAt(c, "rest")
    /\ seen' = [seen EXCEPT ![c] = today]
    /\ work' = [work EXCEPT ![c] = SetToSeq({NoInvoice} \X waves)]
    /\ Goto(c, IF waves = {} THEN "ended" ELSE "next")
    /\ UNCHANGED <<queue, tables, workload, hooksDue, today>>

Owing(day) == {i \in Invoices \ invoicePaid : DueDate(i) = day /\ i \in links}

AfterThis(c, rest) ==
    /\ work' = [work EXCEPT ![c] = rest]
    /\ Goto(c, IF rest = <<>> THEN "ended" ELSE "next")

QueryWave(c) ==
    LET wave == Head(work[c])[2] IN
    /\ IsAt(c, "next") /\ Head(work[c])[1] = NoInvoice
    /\ AfterThis(c, SetToSeq(Owing(seen[c] + wave) \X {wave}) \o Tail(work[c]))
    /\ UNCHANGED <<queue, tables, workload, hooksDue, today, seen>>

Remind(c) ==
    LET x == Head(work[c]) IN
    /\ IsAt(c, "next") /\ x[1] # NoInvoice
    /\ Begin(c, PaymentReminder(x[1], x[2]))
    /\ Goto(c, "count")
    /\ UNCHANGED <<tables, workload, hooksDue, today, work, seen>>

(* Counted whether or not the message was new. *)
CountReminder(c) ==
    /\ IsAt(c, "count")
    /\ reminded' = [reminded EXCEPT ![Head(work[c])[1]] = @ + 1]
    /\ AfterThis(c, Tail(work[c]))
    /\ UNCHANGED <<queue, inbox, payments, paid, invoicePaid, links, receipts, receiptKeys,
                   workload, hooksDue, today, seen>>

SendReminders(c) == StartReminders(c) \/ QueryWave(c) \/ Remind(c) \/ CountReminder(c)

-----------------------------------------------------------------------------
(* The other calls that notify somebody, each by itself *)
Notify(p) ==
    /\ IsAt(p, "rest")
    /\ \E messages \in Errands : Begin(p, messages)
    /\ Goto(p, "ended")
    /\ UNCHANGED <<tables, workload, hooksDue, today, work, seen>>

QueueStep(p) ==
    /\ p \in workload
    /\ Deliver(p) \/ Cut(p) \/ (p \in Administrators /\ Retry(p))
    /\ UNCHANGED <<tables, control>>

(* A crash between two steps: the transaction under way is rolled back.    *)
Stop(p) ==
    /\ IsAt(p, at[p]) /\ at[p] \notin {"rest", "ended"}
    /\ ClientCut
    /\ Goto(p, IF p \in Runs \cup Hooks THEN "rest" ELSE "ended")
    /\ work' = [work EXCEPT ![p] = <<>>]
    /\ seen' = [seen EXCEPT ![p] = 0]
    /\ UNCHANGED <<tables, workload, hooksDue, today>>

PassDay ==
    /\ today < MaxDay
    /\ Reminders \cap workload # {}
    /\ today' = today + 1
    /\ UNCHANGED <<queue, tables, workload, hooksDue, at, work, seen>>

Work(p) ==
    \/ p \in Runs /\ Process(p)
    \/ p \in Hooks /\ RunHook(p)
    \/ p \in Staff /\ Issue(p)
    \/ p \in Reminders /\ SendReminders(p)
    \/ p \in Callers /\ Notify(p)

Applying == {w \in Runs : at[w] \in {"find", "write", "commit"}}

Next ==
    /\ \/ \E p \in Processes : Work(p) \/ QueueStep(p) \/ Stop(p)
       \/ Receive
       \/ PassDay
    /\ disordered' =
          \/ disordered
          \/ Cardinality(Applying') > 1
          \/ \E k \in Refs :
                /\ payments[k][1] = "COMPLETED"
                /\ payments'[k][1] = "FAILED" \/ payments'[k][2] < payments[k][2]

Spec == PipelineInit /\ [][Next]_vars

(* The webhook cron is started again and again, a hook that was started    *)
(* begins, and of the jobs that can go on one does; nobody has to call or  *)
(* to retry.                                                               *)
Jobs == \E p \in workload : Deliver(p) /\ UNCHANGED <<tables, control>>
Background == \E p \in workload \cap (Runs \cup Hooks) : Work(p)

FairSpec == Spec /\ WF_<<queue, tables, control>>(Jobs) /\ WF_<<queue, tables, control>>(Background)

-----------------------------------------------------------------------------
(* Properties *)

(* applyGatewayResult de-duplicates, so that "re-running this cron over    *)
(* the same event would no-op" (webhook.processor.ts 24-26): a result      *)
(* counts once in the total and towards its invoice, however often and in  *)
(* whatever order it is received, applied and cut off before it is marked  *)
(* - unless two runs apply results at once, a FAILED follows a COMPLETED,  *)
(* which adds nothing up again (payments.service.ts 387-392), or the same  *)
(* payment completes with less, which leaves its invoice PAID (461-464).   *)
ResultsCountOnce ==
    ~disordered =>
        /\ paid = SumOf(Completed)
        /\ \A i \in Invoices :
              LET own == {k \in Completed : InvoiceOf(k) = i}
              IN  i \in invoicePaid <=> own # {} /\ SumOf(own) >= InvoiceAmount

(* "A poison-pill event would block the queue forever" (141-142): every    *)
(* event that was stored is dealt with, though runs are cut off and some   *)
(* of the events are forged or cannot be applied.                          *)
EventsAreProcessed ==
    []<>(\A i \in DOMAIN inbox : inbox[i].processed)
=============================================================================
