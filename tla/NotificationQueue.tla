------------------------- MODULE NotificationQueue -------------------------
(***************************************************************************)
(* How a message reaches a parent or a member of staff: a row is inserted  *)
(* under the dedupe key of what it is about, the channel sends it, and the *)
(* row is marked, three statements with no transaction around them.  Hooks,*)
(* crons and requests do this at the same time and an administrator        *)
(* retries what has failed.  Nothing but that retry looks at a row again.  *)
(*                                                                         *)
(* A job is the list of messages one call of the service enqueues, each    *)
(* known by its dedupe key; it sends them one after the other.             *)
(***************************************************************************)
EXTENDS Integers, Sequences, FiniteSets

CONSTANTS
    Processes,   \* whatever runs a job: requests, hooks, crons
    Keys,        \* dedupe keys: the messages there can be
    Unreachable, \* those whose recipient has no address for their channel
    MaxRetries,  \* bound on the retries of administrators
    MaxCuts      \* bound on the jobs that a crash or a query that throws ends

ASSUME QueueAssumption == MaxRetries \in Nat /\ MaxCuts \in Nat /\ Unreachable \subseteq Keys

VARIABLES
    row,       \* notifications.status by dedupe key, "none" when there is no row
    delivered, \* how often the channel has sent each message
    place,     \* where each job is with its first message
    todo,      \* the messages each job has still to send
    retries, cuts,
    spoiled,   \* history: messages dispatched by two jobs at once, or by one
               \*   cut off between the channel's answer and the update
    lost       \* history: messages whose job was cut off

queue == <<row, delivered, place, todo, retries, cuts, spoiled, lost>>

Dispatching == {"load", "send", "record", "fail"}

QueueTypeOK ==
    /\ row \in [Keys -> {"none", "QUEUED", "SENT", "FAILED"}]
    /\ delivered \in [Keys -> Nat]
    /\ place \in [Processes -> {"rest", "lookup", "insert"} \cup Dispatching]
    /\ todo \in [Processes -> Seq(Keys)]
    /\ \A p \in Processes : place[p] # "rest" => todo[p] # <<>>
    /\ retries \in Nat /\ cuts \in Nat
    /\ spoiled \subseteq Keys /\ lost \subseteq Keys

-----------------------------------------------------------------------------
(* What a job is about: one dedupe key, or a list of them.  The wording,   *)
(* and the choice of WhatsApp or mail, follow from it.                     *)

About(kind, subject) == [kind |-> kind, subject |-> subject]

WaitlistOffer(entry, token) == <<About("waitlist-offer", <<entry, token>>)>>
FeeInvoice(invoice) == <<About("fee-invoice", invoice)>>
PaymentReminder(invoice, wave) == <<About("payment-reminder", <<invoice, wave>>)>>
PaymentConfirm(payment) == <<About("payment-confirm", payment)>>
GuardianMagicLink(token) == <<About("guardian-magic-link", token)>>
PasswordReset(token) == <<About("password-reset", token)>>

GuardianConfirmation(participant) == <<About("guardian-confirm", participant)>>

(* One per member of staff, in the order in which the query lists them. *)
StaffAlerts(participant, recipients) ==
    [i \in 1 .. Len(recipients) |-> About("staff-alert", <<participant, recipients[i]>>)]

RegistrationOutcome(participant, recipients) ==
    GuardianConfirmation(participant) \o StaffAlerts(participant, recipients)

-----------------------------------------------------------------------------
QueueInit ==
    /\ row = [k \in Keys |-> "none"]
    /\ delivered = [k \in Keys |-> 0]
    /\ place = [p \in Processes |-> "rest"]
    /\ todo = [p \in Processes |-> <<>>]
    /\ retries = 0 /\ cuts = 0
    /\ spoiled = {} /\ lost = {}

Current(p) == Head(todo[p])
Dispatches(p, k) == place[p] \in Dispatching /\ Current(p) = k

Advance(p, to) ==
    /\ place' = [place EXCEPT ![p] = to]
    /\ UNCHANGED <<todo, retries, cuts, spoiled, lost>>

(* The message is dealt with, for good or ill: the next one. *)
NextMessage(p) ==
    /\ place' = [place EXCEPT ![p] = IF Len(todo[p]) = 1 THEN "rest" ELSE "lookup"]
    /\ todo' = [todo EXCEPT ![p] = Tail(@)]
    /\ UNCHANGED <<retries, cuts, spoiled, lost>>

Begin(p, messages) ==
    /\ place[p] = "rest"
    /\ place' = [place EXCEPT ![p] = "lookup"]
    /\ todo' = [todo EXCEPT ![p] = messages]
    /\ UNCHANGED <<row, delivered, retries, cuts, spoiled, lost>>

(* enqueueAndDispatch: look for the key, then insert under it *)

LookUp(p) ==
    /\ place[p] = "lookup"
    /\ IF row[Current(p)] = "none" THEN Advance(p, "insert") ELSE NextMessage(p)
    /\ UNCHANGED <<row, delivered>>

(* Mutant of IsTaken: dedupe_key has no unique index. *)
IsTaken_noIndex(k) == FALSE

IsTaken(k) == row[k] # "none"

(* Mutant of Insert: the row is left for somebody else to dispatch. *)
Insert_only(p) ==
    LET k == Current(p) IN
    /\ place[p] = "insert"
    /\ row' = IF IsTaken(k) THEN row ELSE [row EXCEPT ![k] = "QUEUED"]
    /\ NextMessage(p)
    /\ UNCHANGED delivered

(* A row that another job has inserted meanwhile is a duplicate. *)
Insert(p) ==
    LET k == Current(p) IN
    /\ place[p] = "insert"
    /\ row' = IF IsTaken(k) THEN row ELSE [row EXCEPT ![k] = "QUEUED"]
    /\ IF IsTaken(k) THEN NextMessage(p) ELSE Advance(p, "load")
    /\ UNCHANGED delivered

(* Any other error of the insert is logged. *)
InsertFails(p) == place[p] = "insert" /\ NextMessage(p) /\ UNCHANGED <<row, delivered>>

(* dispatch: load the row, send it, mark it *)

Load(p) ==
    /\ place[p] = "load"
    /\ Advance(p, IF Current(p) \in Unreachable THEN "fail" ELSE "send")
    /\ UNCHANGED <<row, delivered>>

(* Mutant of Send: a refusal is not looked at, only what is thrown. *)
Send_unchecked(p) ==
    /\ place[p] = "send"
    /\ \/ Advance(p, "record") /\ delivered' = [delivered EXCEPT ![Current(p)] = @ + 1]
       \/ Advance(p, "record") /\ UNCHANGED delivered
    /\ UNCHANGED row

(* The channel takes the message, refuses it or throws. *)
Send(p) ==
    /\ place[p] = "send"
    /\ \/ Advance(p, "record") /\ delivered' = [delivered EXCEPT ![Current(p)] = @ + 1]
       \/ Advance(p, "fail") /\ UNCHANGED delivered
    /\ UNCHANGED row

Mark(p, label, status) ==
    /\ place[p] = label
    /\ row' = [row EXCEPT ![Current(p)] = status]
    /\ NextMessage(p)
    /\ UNCHANGED delivered

RecordSent(p) == Mark(p, "record", "SENT")
MarkFailure(p) == Mark(p, "fail", "FAILED")

MayRetry(k) == row[k] \in {"QUEUED", "FAILED"}

(* An administrator retries a row that is not sent yet, as far as it reads.*)
Retry(p) ==
    \E k \in Keys :
        /\ place[p] = "rest" /\ MayRetry(k)
        /\ retries < MaxRetries
        /\ place' = [place EXCEPT ![p] = "load"]
        /\ todo' = [todo EXCEPT ![p] = <<k>>]
        /\ retries' = retries + 1
        /\ spoiled' = IF \E q \in Processes : Dispatches(q, k) THEN spoiled \cup {k} ELSE spoiled
        /\ UNCHANGED <<row, delivered, cuts, lost>>

(* A crash, or a query or update that throws: the job is gone. *)
Cut(p) ==
    /\ place[p] # "rest"
    /\ cuts < MaxCuts
    /\ place' = [place EXCEPT ![p] = "rest"]
    /\ todo' = [todo EXCEPT ![p] = <<>>]
    /\ cuts' = cuts + 1
    /\ spoiled' = IF place[p] = "record" THEN spoiled \cup {Current(p)} ELSE spoiled
    /\ lost' = IF place[p] \in Dispatching THEN lost \cup {Current(p)} ELSE lost
    /\ UNCHANGED <<row, delivered, retries>>

Deliver(p) ==
    \/ LookUp(p) \/ Insert(p) \/ InsertFails(p) \/ Load(p) \/ Send(p)
    \/ RecordSent(p) \/ MarkFailure(p)

(* What sends no message at the moment is cut off. *)
ClientCut ==
    /\ cuts < MaxCuts
    /\ cuts' = cuts + 1
    /\ UNCHANGED <<row, delivered, place, todo, retries, spoiled, lost>>

(* The queue by itself: any process may send any messages at any time.     *)
QueueNext ==
    \/ \E p \in Processes :
          \/ Deliver(p) \/ Retry(p) \/ Cut(p)
          \/ \E messages \in Seq(Keys) \ {<<>>} : Begin(p, messages)
    \/ ClientCut

QueueSpec == QueueInit /\ [][QueueNext]_queue

-----------------------------------------------------------------------------
(* Properties *)

(* A row that says SENT was sent, and nothing is sent that has no row      *)
(* ("all errors are recorded on the row", notifications.service.ts 507),   *)
(* however many jobs, retries and crashes there are.                       *)
SentIsSent ==
    /\ QueueTypeOK
    /\ \A k \in Keys :
          /\ row[k] = "SENT" => delivered[k] > 0
          /\ row[k] = "none" => delivered[k] = 0 /\ \A p \in Processes : ~Dispatches(p, k)

(* A message is sent "once, no matter how many hooks fire" (327), retried  *)
(* or not, since "re-sending a successfully-sent message would             *)
(* double-message the recipient" (491-492): the unique index stops a       *)
(* second row and retry a second dispatch - unless it is retried while it  *)
(* is being dispatched, or its job was cut off before it was marked.       *)
SentOnce == \A k \in Keys \ spoiled : delivered[k] <= 1

(* Again and again everything that is queued has been sent or has failed,  *)
(* except what was cut off: no other job takes that up (509-565).          *)
MessagesSettle == []<>(\A k \in Keys : row[k] = "QUEUED" => k \in lost)
=============================================================================
