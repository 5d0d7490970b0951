------------------------ MODULE ParticipantLifecycle ------------------------
(***************************************************************************)
(* How a participant with one enrolment becomes ACTIVE.  Staff verify      *)
(* payments (module PaymentLedger) and documents and set the status by     *)
(* hand; a hook that runs after each verified payment promotes the         *)
(* enrolment and the participant.  Apart from the hook's last transaction  *)
(* none of this is transactional: a call reads rows, decides, and updates  *)
(* a row by its id, with other calls in between.                           *)
(***************************************************************************)
EXTENDS PaymentLedger

CONSTANTS
    Staff,          \* calls about documents and statuses, each made once
    StaffOps,       \* a subset of {"verifyDocument", "updateStatus"}
    Documents,      \* document rows, each uploaded at most once
    DocType,        \* the type of each
    Uploaded,       \* those uploaded before
    StartStatus,    \* what the participant may be at first
    Targets,        \* statuses staff set by hand
    CanOverride,    \* whether those staff may pass over the balance
    Threshold,      \* tenants.balance_threshold, NoThreshold when it is null
    NoDocument, NoThreshold

RequiredTypes == {"BIRTH_CERTIFICATE", "ID_PHOTO"}
Statuses == {"INQUIRY", "DOCUMENTS_PENDING", "FEE_PENDING", "ACTIVE",
             "ON_HOLD", "COMPLETED", "WITHDRAWN"}

ASSUME LifecycleAssumption ==
    /\ StaffOps \subseteq {"verifyDocument", "updateStatus"}
    /\ IsFiniteSet(Staff) /\ Staff \cap Requests = {}
    /\ Uploaded \subseteq Documents /\ NoDocument \notin Documents
    /\ StartStatus \subseteq {"INQUIRY", "DOCUMENTS_PENDING"}
    /\ Targets \subseteq Statuses /\ CanOverride \subseteq BOOLEAN
    /\ Threshold \in Nat \cup {NoThreshold} /\ NoThreshold \notin Int

VARIABLES
    status,         \* participants.status
    enrolled,       \* enrolments.status
    document,       \* documents: the status of each row
    deleted,        \* documents: rows with a deleted_at
    hook,           \* where the promotion after each verification is
    sawBalance,     \* the balance it read
    sawStatus,      \* the participant's status it read
    staffPc,        \* where each staff call is
    errand,         \* what it was asked to do
    sawDocument,    \* the document's status it read
    seenStatus      \* the participant's status it read

people == <<status, enrolled, document, deleted>>
hooks == <<hook, sawBalance, sawStatus>>
staff == <<staffPc, errand, sawDocument, seenStatus>>
lifecycleVars == <<vars, people, hooks, staff>>

HookPcs == {"none", "enrolment", "documents", "promote", "ended", "lost"}
StaffPcs == {"idle", "readDocument", "writeDocument", "readDocuments", "advance",
             "readStatus", "gate", "writeStatus", "done", "refused", "aborted"}

Errands == [op : {"none", "verifyDocument", "updateStatus"},
            document : Documents \cup {NoDocument}, to : Statuses \cup {"VERIFIED", "REJECTED"},
            override : BOOLEAN]
NoErrand == [op |-> "none", document |-> NoDocument, to |-> "INQUIRY", override |-> FALSE]

LifecycleTypeOK ==
    /\ status \in Statuses
    /\ enrolled \in {"FEE_PENDING", "ACTIVE"}
    /\ document \in [Documents -> {"ABSENT", "PENDING", "VERIFIED", "REJECTED"}]
    /\ deleted \subseteq Documents
    /\ hook \in [Requests -> HookPcs]
    /\ sawBalance \in [Requests -> Int]
    /\ sawStatus \in [Requests -> Statuses]
    /\ staffPc \in [Staff -> StaffPcs]
    /\ errand \in [Staff -> Errands]
    /\ sawDocument \in [Staff -> {"ABSENT", "PENDING", "VERIFIED", "REJECTED"}]
    /\ seenStatus \in [Staff -> Statuses]

-----------------------------------------------------------------------------
(* Queries *)

VerifiedDocuments == {d \in Documents : document[d] = "VERIFIED" /\ d \notin deleted}

(* AutoPromotionService: at least one document.  DocumentsService: every   *)
(* required type.                                                          *)
SomeDocumentVerified == VerifiedDocuments # {}
RequiredDocumentsVerified == RequiredTypes \subseteq {DocType[d] : d \in VerifiedDocuments}

(* AutoPromotionService takes a null threshold for 0. *)
Tolerated == IF Threshold = NoThreshold THEN 0 ELSE Threshold

Allowed(current, next) ==
    <<current, next>> \in
        {<<"INQUIRY", "DOCUMENTS_PENDING">>, <<"DOCUMENTS_PENDING", "FEE_PENDING">>,
         <<"FEE_PENDING", "ACTIVE">>, <<"ACTIVE", "ON_HOLD">>,
         <<"ACTIVE", "COMPLETED">>, <<"ACTIVE", "WITHDRAWN">>}

-----------------------------------------------------------------------------
LifecycleInit ==
    /\ Init
    /\ status \in StartStatus
    /\ enrolled = "FEE_PENDING"
    /\ document = [d \in Documents |-> IF d \in Uploaded THEN "PENDING" ELSE "ABSENT"]
    /\ deleted = {}
    /\ hook = [r \in Requests |-> "none"]
    /\ sawBalance = [r \in Requests |-> 0]
    /\ sawStatus = [r \in Requests |-> "INQUIRY"]
    /\ staffPc = [s \in Staff |-> "idle"]
    /\ errand = [s \in Staff |-> NoErrand]
    /\ sawDocument = [s \in Staff |-> "ABSENT"]
    /\ seenStatus = [s \in Staff |-> "INQUIRY"]

-----------------------------------------------------------------------------
(* Payments, and the promotion hook they set off *)

(* A committed verification runs its hooks. *)
SetOff(r) ==
    /\ hook' = [hook EXCEPT ![r] = IF pc[r] = "commit" /\ pc'[r] = "done" THEN "enrolment" ELSE @]
    /\ UNCHANGED <<people, sawBalance, sawStatus, staff>>

PaymentArrives(r) == Arrive(r) /\ SetOff(r)
PaymentProceeds(r) == Proceed(r) /\ SetOff(r)
PaymentAborts(r) == Abort(r) /\ SetOff(r)

HookGoto(r, label) == hook' = [hook EXCEPT ![r] = label]

(* Mutant of ReadForPromotion: the balance is not compared. *)
ReadForPromotion_anyBalance(r) ==
    /\ hook[r] = "enrolment"
    /\ sawBalance' = [sawBalance EXCEPT ![r] = balance]
    /\ sawStatus' = [sawStatus EXCEPT ![r] = status]
    /\ HookGoto(r, IF enrolled # "FEE_PENDING" THEN "ended" ELSE "documents")
    /\ UNCHANGED <<vars, people, staff>>

ReadForPromotion(r) ==
    /\ hook[r] = "enrolment"
    /\ sawBalance' = [sawBalance EXCEPT ![r] = balance]
    /\ sawStatus' = [sawStatus EXCEPT ![r] = status]
    /\ HookGoto(r, IF enrolled # "FEE_PENDING" \/ balance > Tolerated THEN "ended" ELSE "documents")
    /\ UNCHANGED <<vars, people, staff>>

(* Mutant of CountDocuments: every required type, as DocumentsService asks.*)
CountDocuments_required(r) ==
    /\ hook[r] = "documents"
    /\ HookGoto(r, IF RequiredDocumentsVerified THEN "promote" ELSE "ended")
    /\ UNCHANGED <<vars, people, sawBalance, sawStatus, staff>>

CountDocuments(r) ==
    /\ hook[r] = "documents"
    /\ HookGoto(r, IF SomeDocumentVerified THEN "promote" ELSE "ended")
    /\ UNCHANGED <<vars, people, sawBalance, sawStatus, staff>>

(* Both rows in one transaction, by what was read of the participant. *)
Promote(r) ==
    /\ hook[r] = "promote"
    /\ enrolmentLock = Nobody
    /\ enrolled' = "ACTIVE"
    /\ status' = IF sawStatus[r] \in {"FEE_PENDING", "DOCUMENTS_PENDING"} THEN "ACTIVE" ELSE status
    /\ HookGoto(r, "ended")
    /\ UNCHANGED <<vars, document, deleted, sawBalance, sawStatus, staff>>

(* The process dies after the commit; the hook is not run again. *)
LoseHook(r) ==
    /\ hook[r] \in {"enrolment", "documents", "promote"}
    /\ HookGoto(r, "lost")
    /\ UNCHANGED <<vars, people, sawBalance, sawStatus, staff>>

-----------------------------------------------------------------------------
(* Documents *)

Upload(d) ==
    /\ document[d] = "ABSENT"
    /\ document' = [document EXCEPT ![d] = "PENDING"]
    /\ UNCHANGED <<vars, status, enrolled, deleted, hooks, staff>>

(* softDelete hides the row, verified or not. *)
SoftDelete(d) ==
    /\ document[d] # "ABSENT" /\ d \notin deleted
    /\ deleted' = deleted \cup {d}
    /\ UNCHANGED <<vars, status, enrolled, document, hooks, staff>>

StartErrand(s, op, doc, to, override, label) ==
    /\ staffPc[s] = "idle"
    /\ op \in StaffOps
    /\ errand' = [errand EXCEPT ![s] =
                    [op |-> op, document |-> doc, to |-> to, override |-> override]]
    /\ staffPc' = [staffPc EXCEPT ![s] = label]
    /\ UNCHANGED <<vars, people, hooks, sawDocument, seenStatus>>

VerifyDocument(s) ==
    \E d \in {d \in Documents : document[d] # "ABSENT"}, to \in {"VERIFIED", "REJECTED"} :
        StartErrand(s, "verifyDocument", d, to, FALSE, "readDocument")

StaffGoto(s, label) == staffPc' = [staffPc EXCEPT ![s] = label]

ReadDocument_anyStatus(s) ==   \* mutant of ReadDocument: VERIFIED is not final
    LET d == errand[s].document IN
    /\ staffPc[s] = "readDocument"
    /\ sawDocument' = [sawDocument EXCEPT ![s] = document[d]]
    /\ seenStatus' = [seenStatus EXCEPT ![s] = status]
    /\ StaffGoto(s, IF d \in deleted THEN "refused" ELSE "writeDocument")
    /\ UNCHANGED <<vars, people, hooks, errand>>

(* One query returns the document and its participant's status. *)
ReadDocument(s) ==
    LET d == errand[s].document IN
    /\ staffPc[s] = "readDocument"
    /\ sawDocument' = [sawDocument EXCEPT ![s] = document[d]]
    /\ seenStatus' = [seenStatus EXCEPT ![s] = status]
    /\ StaffGoto(s, IF d \in deleted THEN "refused"
                    ELSE IF document[d] = errand[s].to THEN "done"
                    ELSE IF document[d] = "VERIFIED" THEN "refused"
                    ELSE "writeDocument")
    /\ UNCHANGED <<vars, people, hooks, errand>>

(* Mutant of WriteDocument: the participant's status is not looked at.     *)
WriteDocument_anyStatus(s) ==
    /\ staffPc[s] = "writeDocument"
    /\ document' = [document EXCEPT ![errand[s].document] = errand[s].to]
    /\ StaffGoto(s, IF errand[s].to = "VERIFIED" THEN "readDocuments" ELSE "done")
    /\ UNCHANGED <<vars, status, enrolled, deleted, hooks, errand, sawDocument, seenStatus>>

WriteDocument(s) ==
    /\ staffPc[s] = "writeDocument"
    /\ document' = [document EXCEPT ![errand[s].document] = errand[s].to]
    /\ StaffGoto(s, IF errand[s].to = "VERIFIED" /\ seenStatus[s] = "DOCUMENTS_PENDING"
                    THEN "readDocuments" ELSE "done")
    /\ UNCHANGED <<vars, status, enrolled, deleted, hooks, errand, sawDocument, seenStatus>>

(* maybeAdvanceParticipantStatus *)
ReadDocuments(s) ==
    /\ staffPc[s] = "readDocuments"
    /\ StaffGoto(s, IF RequiredDocumentsVerified THEN "advance" ELSE "done")
    /\ UNCHANGED <<vars, people, hooks, errand, sawDocument, seenStatus>>

Advance(s) ==
    /\ staffPc[s] = "advance"
    /\ status' = "FEE_PENDING"
    /\ StaffGoto(s, "done")
    /\ UNCHANGED <<vars, enrolled, document, deleted, hooks, errand, sawDocument, seenStatus>>

-----------------------------------------------------------------------------
(* updateStatus *)

UpdateStatus(s) ==
    \E to \in Targets, override \in CanOverride :
        StartErrand(s, "updateStatus", NoDocument, to, override, "readStatus")

ReadStatus(s) ==
    /\ staffPc[s] = "readStatus"
    /\ seenStatus' = [seenStatus EXCEPT ![s] = status]
    /\ StaffGoto(s, IF ~Allowed(status, errand[s].to) THEN "refused"
                    ELSE IF errand[s].to = "ACTIVE" /\ ~errand[s].override THEN "gate"
                    ELSE "writeStatus")
    /\ UNCHANGED <<vars, people, hooks, errand, sawDocument>>

(* An enrolment that is not ACTIVE and owes more than the threshold; any   *)
(* that is not ACTIVE when there is none.                                  *)
Gate(s) ==
    /\ staffPc[s] = "gate"
    /\ StaffGoto(s, IF enrolled = "FEE_PENDING" /\ (Threshold = NoThreshold \/ balance > Threshold)
                    THEN "refused" ELSE "writeStatus")
    /\ UNCHANGED <<vars, people, hooks, errand, sawDocument, seenStatus>>

WriteStatus(s) ==
    /\ staffPc[s] = "writeStatus"
    /\ status' = errand[s].to
    /\ StaffGoto(s, "done")
    /\ UNCHANGED <<vars, enrolled, document, deleted, hooks, errand, sawDocument, seenStatus>>

AbortErrand(s) ==
    /\ staffPc[s] \notin {"idle", "done", "refused", "aborted"}
    /\ StaffGoto(s, "aborted")
    /\ UNCHANGED <<vars, people, hooks, errand, sawDocument, seenStatus>>

-----------------------------------------------------------------------------
HookStep(r) == ReadForPromotion(r) \/ CountDocuments(r) \/ Promote(r)

StaffStep(s) ==
    \/ ReadDocument(s) \/ WriteDocument(s) \/ ReadDocuments(s) \/ Advance(s)
    \/ ReadStatus(s) \/ Gate(s) \/ WriteStatus(s)

LifecycleStep ==
    \/ \E r \in Requests : PaymentArrives(r) \/ PaymentProceeds(r) \/ PaymentAborts(r)
    \/ \E r \in Requests : HookStep(r) \/ LoseHook(r)
    \/ \E d \in Documents : Upload(d) \/ SoftDelete(d)
    \/ \E s \in Staff : VerifyDocument(s) \/ UpdateStatus(s) \/ StaffStep(s) \/ AbortErrand(s)

(* The history of module PaymentLedger is not kept: no property here reads *)
(* it.                                                                     *)
LifecycleNext == LifecycleStep /\ UNCHANGED overlapped

LifecycleSpec == LifecycleInit /\ [][LifecycleNext]_<<lifecycleVars, overlapped>>

(* Calls that have arrived and hooks that were set off are executed.       *)
LifecycleFairSpec ==
    /\ LifecycleSpec
    /\ \A r \in Requests : WF_lifecycleVars(PaymentProceeds(r)) /\ WF_lifecycleVars(HookStep(r))
    /\ \A s \in Staff : WF_lifecycleVars(StaffStep(s))

-----------------------------------------------------------------------------
(* Properties *)

AfterActive == {"ACTIVE", "ON_HOLD", "COMPLETED", "WITHDRAWN"}
Promoted == enrolled = "ACTIVE" \/ status \in AfterActive

(* auto-promotion.service.ts 15-16 and participants.service.ts 366-369:    *)
(* while the fee stands and no staff may pass over the balance, whoever is *)
(* promoted, by the hook or by hand, has verified payments that leave no   *)
(* more than the threshold to pay, however stale the balance they read.    *)
PaidBeforeActive == Promoted => total - SumOf(Verified) <= Tolerated

(* "Runs after every COMPLETED payment to flip the enrolment once the      *)
(* threshold is crossed" (21-23): a promotion that begins with the balance *)
(* paid and a document verified succeeds, unless the process dies or the   *)
(* document is withdrawn.                                                  *)
PromotionFollowsPayment ==
    \A r \in Requests :
        hook[r] = "enrolment" /\ balance <= Tolerated /\ SomeDocumentVerified
            ~> enrolled = "ACTIVE" \/ hook[r] = "lost" \/ ~SomeDocumentVerified

-----------------------------------------------------------------------------
(* Calls and promotions that have read something else than what is there   *)
(* now: a participant of another status, an enrolment not yet ACTIVE, a    *)
(* document of another status.                                             *)
StatusOutdated ==
    {s \in Staff : seenStatus[s] # status}
        \cup {r \in Requests : sawStatus[r] # status \/ enrolled = "ACTIVE"}
DocumentOutdated ==
    {s \in Staff : \E d \in Documents : errand[s].document = d /\ sawDocument[s] # document[d]}

(* Those whose step this is. *)
Acting ==
    {s \in Staff : staffPc'[s] # staffPc[s]} \cup {r \in Requests : hook'[r] # hook[r]}

(* However calls and promotions are interleaved, whoever acts on a status  *)
(* that still stands advances to FEE_PENDING only a participant in         *)
(* DOCUMENTS_PENDING (documents.service.ts 230-231), changes the status by *)
(* the table of participants.service.ts 351-364 or by a promotion of the   *)
(* enrolment, and leaves nobody who has applied short of ACTIVE when the   *)
(* enrolment is ACTIVE (auto-promotion.service.ts 38); and whoever acts on *)
(* a document as it still stands does not touch a VERIFIED one (194-198).  *)
StepsFollowTheTables ==
    [][/\ Acting \cap StatusOutdated = {} =>
             /\ status' = "FEE_PENDING" /\ status # status' => status = "DOCUMENTS_PENDING"
             /\ status' = status \/ Allowed(status, status') \/ enrolled' # enrolled
             /\ enrolled' # enrolled /\ status # "INQUIRY" => status' \in AfterActive
       /\ Acting \cap DocumentOutdated = {} =>
             \A d \in Documents : document[d] = "VERIFIED" => document'[d] = "VERIFIED"
      ]_<<lifecycleVars, overlapped>>
=============================================================================
