----------------------- MODULE SessionLifecycle_proofs -----------------------
(***************************************************************************)
(* Two things that a step never does, for any number of calls, sessions    *)
(* and runs of the cron: move a session by other than one stage, unless a  *)
(* call of staff has read a status that is no longer so; and give a place  *)
(* away that the form does not offer, unless something has moved since the *)
(* form was checked.                                                       *)
(***************************************************************************)
EXTENDS SessionLifecycle, TLAPS

-----------------------------------------------------------------------------
(* What a call knows of the session it is about to write *)

Writing == {"insert", "status", "write"}

IsJob(j) == j = [session |-> j.session, slug |-> j.slug, value |-> j.value, seen |-> j.seen]

KnowsOK(r) ==
    /\ pc[r] = "insert" => job[r].value \in SessionRequest
    /\ pc[r] \in {"status", "write"} =>
          /\ job[r].session \in Sessions
          /\ session[job[r].session] \in SessionRequest
          /\ job[r].value \in Statuses
    /\ pc[r] = "status" => IsJob(job[r])
    /\ pc[r] = "write" => MayMove(job[r].seen, job[r].value)

CallsOK ==
    /\ pc = [r \in Requests |-> pc[r]]
    /\ job = [r \in Requests |-> job[r]]

SessionsOK == session \in [Sessions -> SessionRequest \cup {Nothing}]

MoveInv == SessionsOK /\ CallsOK /\ \A r \in Requests : KnowsOK(r)

(* Sessions that are there stay. *)
SessionsStay ==
    \A s \in Sessions : session[s] \in SessionRequest => session'[s] \in SessionRequest

LEMMA ContinueMoves ==
    ASSUME CallsOK, NEW r \in Requests, NEW label, NEW args, Continue(r, label, args)
    PROVE  /\ CallsOK'
           /\ pc'[r] = label
           /\ job'[r] = IF label = "ended" THEN NoJob ELSE args
           /\ \A q \in Requests \ {r} : pc'[q] = pc[q] /\ job'[q] = job[q]
  BY DEF CallsOK, Continue

LEMMA ContinueKeeps ==
    ASSUME MoveInv, NEW r \in Requests, NEW label, NEW args, Continue(r, label, args),
           SessionsOK', SessionsStay, KnowsOK(r)'
    PROVE  MoveInv'
  <1>1. CallsOK' /\ \A q \in Requests \ {r} : pc'[q] = pc[q] /\ job'[q] = job[q]
    BY ContinueMoves DEF MoveInv
  <1>2. ASSUME NEW q \in Requests \ {r} PROVE KnowsOK(q)'
    BY <1>1, <1>2 DEF MoveInv, KnowsOK, SessionsStay, MayMove, IsJob
  <1> QED
    BY <1>1, <1>2 DEF MoveInv

LEMMA SameSessions ==
    ASSUME MoveInv, UNCHANGED session
    PROVE  SessionsOK' /\ SessionsStay
  BY DEF MoveInv, SessionsOK, SessionsStay, SessionRequest, Dates, Statuses

(* A call that goes on to something else. *)
LEMMA ContinueAway ==
    ASSUME MoveInv, NEW r \in Requests, NEW label, NEW args, Continue(r, label, args),
           SessionsOK', SessionsStay, label \notin Writing
    PROVE  MoveInv'
  <1>1. pc'[r] = label
    BY ContinueMoves DEF MoveInv
  <1>2. KnowsOK(r)'
    BY <1>1 DEF KnowsOK, Writing
  <1> QED
    BY <1>2, ContinueKeeps

LEMMA ArriveAway ==
    ASSUME MoveInv, NEW r \in Requests, NEW op, NEW args, NEW label,
           Arrive(r, op, args, label), label \notin Writing
    PROVE  MoveInv'
  BY SameSessions, ContinueAway DEF Arrive, rows

LEMMA GotoAway ==
    ASSUME MoveInv, NEW r \in Requests, NEW label, Goto(r, label), UNCHANGED session,
           label \notin Writing
    PROVE  MoveInv'
  BY SameSessions, ContinueAway DEF Goto

LEMMA WriteAway ==
    ASSUME MoveInv, NEW r \in Requests, NEW label, Write(r, label), SessionsOK', SessionsStay
    PROVE  MoveInv'
  BY ContinueAway DEF Write, Goto, Writing

-----------------------------------------------------------------------------
LEMMA StatusCallsKeep ==
    ASSUME MoveInv, NEW r \in Requests, UpdateStatus(r) \/ ReadStatus(r)
    PROVE  MoveInv'
  <1>1. CASE UpdateStatus(r)
    <2>1. PICK s \in Created, next \in Statuses :
              Arrive(r, "updateStatus", [NoJob EXCEPT !.session = s, !.value = next], "status")
      BY <1>1 DEF UpdateStatus
    <2>2. Continue(r, "status", [NoJob EXCEPT !.session = s, !.value = next])
          /\ UNCHANGED session
      BY <2>1 DEF Arrive, rows
    <2>3. pc'[r] = "status" /\ job'[r] = [NoJob EXCEPT !.session = s, !.value = next]
      BY <2>2, ContinueMoves DEF MoveInv
    <2>4. job'[r].session = s /\ job'[r].value = next /\ IsJob(job'[r])
      BY <2>3 DEF NoJob, IsJob
    <2>5. s \in Sessions /\ session[s] \in SessionRequest
      BY DEF Created, MoveInv, SessionsOK
    <2>6. SessionsOK' /\ SessionsStay
      BY <2>2, SameSessions
    <2>7. KnowsOK(r)'
      BY <2>3, <2>4, <2>5, <2>6 DEF KnowsOK, SessionsStay, IsJob
    <2> QED
      BY <2>2, <2>6, <2>7, ContinueKeeps
  <1>2. CASE ReadStatus(r)
    <2> DEFINE current == session[job[r].session].status
               label == IF MayMove(current, job[r].value) THEN "write" ELSE "ended"
               args == [job[r] EXCEPT !.seen = current]
    <2>1. pc[r] = "status" /\ Continue(r, label, args) /\ UNCHANGED session
      BY <1>2 DEF ReadStatus, rows
    <2>2. pc'[r] = label /\ job'[r] = IF label = "ended" THEN NoJob ELSE args
      BY <2>1, ContinueMoves DEF MoveInv
    <2>3. SessionsOK' /\ SessionsStay
      BY <2>1, SameSessions
    <2>4. CASE label = "ended"
      BY <2>1, <2>3, <2>4, ContinueAway DEF Writing
    <2>5. CASE MayMove(current, job[r].value)
      <3>1. /\ job[r].session \in Sessions /\ session[job[r].session] \in SessionRequest
            /\ job[r].value \in Statuses /\ IsJob(job[r])
        BY <2>1 DEF MoveInv, KnowsOK
      <3>2. args.session = job[r].session /\ args.value = job[r].value /\ args.seen = current
        BY <3>1 DEF IsJob
      <3>3. pc'[r] = "write" /\ job'[r] = args
        BY <2>2, <2>5
      <3>4. KnowsOK(r)'
        BY <2>3, <2>5, <3>1, <3>2, <3>3 DEF KnowsOK, SessionsStay, MayMove
      <3> QED
        BY <2>1, <2>3, <3>4, ContinueKeeps
    <2> QED
      BY <2>4, <2>5
  <1> QED
    BY <1>1, <1>2

LEMMA InsertKeeps ==
    ASSUME MoveInv, NEW r \in Requests, CreateSession(r) \/ InsertSession(r)
    PROVE  MoveInv'
  <1>1. CASE CreateSession(r)
    <2>1. PICK dto \in NewSessions :
              Arrive(r, "createSession", [NoJob EXCEPT !.value = dto],
                     IF IsAccepted(dto) THEN "insert" ELSE "ended")
      BY <1>1 DEF CreateSession
    <2>2. SessionsOK' /\ SessionsStay
      BY <2>1, SameSessions DEF Arrive, rows
    <2>3. CASE IsAccepted(dto)
      <3>1. Continue(r, "insert", [NoJob EXCEPT !.value = dto])
        BY <2>1, <2>3 DEF Arrive
      <3>2. pc'[r] = "insert" /\ job'[r].value = dto
        BY <3>1, ContinueMoves DEF MoveInv, NoJob
      <3>3. KnowsOK(r)'
        BY <3>2, SessionsAssumption DEF KnowsOK, SessionRequest, Dates, Statuses
      <3> QED
        BY <2>2, <3>1, <3>3, ContinueKeeps
    <2>4. CASE ~IsAccepted(dto)
      BY <2>1, <2>4, ArriveAway DEF Writing
    <2> QED
      BY <2>3, <2>4
  <1>2. CASE InsertSession(r)
    <2>1. PICK s \in Sessions \ Created : Write(r, "insert")
                                         /\ session' = [session EXCEPT ![s] = job[r].value]
      BY <1>2 DEF InsertSession
    <2>2. job[r].value \in SessionRequest
      BY <2>1 DEF Write, MoveInv, KnowsOK
    <2>3. SessionsOK' /\ SessionsStay
      BY <2>1, <2>2 DEF MoveInv, SessionsOK, SessionsStay, SessionRequest, Dates, Statuses
    <2> QED
      BY <2>1, <2>3, WriteAway
  <1> QED
    BY <1>1, <1>2

LEMMA WriteStatusKeeps ==
    ASSUME MoveInv, NEW r \in Requests, WriteStatus(r)
    PROVE  MoveInv'
  <1>1. /\ Write(r, "write")
        /\ session' = [session EXCEPT ![job[r].session] = [@ EXCEPT !.status = job[r].value]]
    BY DEF WriteStatus
  <1>2. session[job[r].session] \in SessionRequest /\ job[r].value \in Statuses
        /\ job[r].session \in Sessions
    BY <1>1 DEF Write, MoveInv, KnowsOK
  <1>3. [session[job[r].session] EXCEPT !.status = job[r].value] \in SessionRequest
    BY <1>2 DEF SessionRequest
  <1>4. SessionsOK' /\ SessionsStay
    BY <1>1, <1>2, <1>3 DEF MoveInv, SessionsOK, SessionsStay, SessionRequest, Dates, Statuses
  <1> QED
    BY <1>1, <1>4, WriteAway

LEMMA OtherCallsKeep ==
    ASSUME MoveInv, NEW r \in Requests,
           \/ AddPaymentPlan(r) \/ CreateLocation(r) \/ InsertLocation(r) \/ WriteQr(r)
           \/ RegenerateQr(r) \/ SwitchLocation(r) \/ Parent(r) \/ Fail(r)
    PROVE  MoveInv'
  <1> USE DEF Writing
  <1>1. ASSUME NEW label, Write(r, label), UNCHANGED session PROVE MoveInv'
    BY <1>1, SameSessions, WriteAway
  <1>2. CASE AddPaymentPlan(r)
    BY <1>1, <1>2 DEF AddPaymentPlan
  <1>3. CASE WriteQr(r) \/ SwitchLocation(r)
    BY <1>1, <1>3 DEF WriteQr, SwitchLocation
  <1>4. CASE CreateLocation(r)
    BY <1>4, ArriveAway DEF CreateLocation
  <1>5. CASE InsertLocation(r)
    BY <1>5, GotoAway DEF InsertLocation
  <1>6. CASE RegenerateQr(r)
    BY <1>6, ArriveAway DEF RegenerateQr
  <1>7. CASE SubmitForm(r)
    BY <1>7, ArriveAway DEF SubmitForm
  <1>8. CASE CheckOpen(r)
    BY <1>8, GotoAway DEF CheckOpen, rows
  <1>9. CASE Register(r)
    BY <1>1, <1>9 DEF Register
  <1>10. CASE Fail(r)
    BY <1>10, GotoAway DEF Fail, rows
  <1> QED
    BY <1>2, <1>3, <1>4, <1>5, <1>6, <1>7, <1>8, <1>9, <1>10 DEF Parent

(* Steps of the cron, and of the clock. *)
LEMMA CallsRest ==
    ASSUME MoveInv, UNCHANGED calls, SessionsOK', SessionsStay
    PROVE  MoveInv'
  <1>1. CallsOK' /\ UNCHANGED <<pc, job>>
    BY DEF calls, MoveInv, CallsOK
  <1>2. ASSUME NEW q \in Requests PROVE KnowsOK(q)'
    BY <1>1 DEF MoveInv, KnowsOK, SessionsStay, MayMove, IsJob
  <1> QED
    BY <1>1, <1>2 DEF MoveInv

LEMMA AdvanceKeeps ==
    ASSUME MoveInv, NEW due(_), NEW from, NEW to \in Statuses, Advance(from, to, due)
    PROVE  SessionsOK' /\ SessionsStay
  <1>1. \A s \in Sessions : session[s] \in SessionRequest =>
            [session[s] EXCEPT !.status = to] \in SessionRequest
    BY DEF SessionRequest
  <1> QED
    BY <1>1 DEF Advance, HasStatus, Created, MoveInv, SessionsOK, SessionsStay,
                SessionRequest, Dates, Statuses

LEMMA CronKeeps ==
    ASSUME MoveInv, NEW t \in Ticks, Run(t)
    PROVE  MoveInv'
  <1>1. UNCHANGED calls
    BY DEF Run, StartTick, OpenDue, CloseDue, FailTick
  <1>2. CASE OpenDue(t)
    BY <1>1, <1>2, AdvanceKeeps, CallsRest DEF OpenDue, Statuses
  <1>3. CASE CloseDue(t)
    BY <1>1, <1>3, AdvanceKeeps, CallsRest DEF CloseDue, Statuses
  <1>4. CASE StartTick(t) \/ FailTick(t)
    BY <1>1, <1>4, SameSessions, CallsRest DEF StartTick, FailTick, rows
  <1> QED
    BY <1>2, <1>3, <1>4 DEF Run

LEMMA MoveInvHolds == Spec => []MoveInv
  <1>1. Init => MoveInv
    <2> SUFFICES ASSUME Init PROVE MoveInv
      OBVIOUS
    <2>1. SessionsOK
      BY SessionsAssumption DEF Init, SessionsOK
    <2>2. CallsOK /\ \A r \in Requests : KnowsOK(r)
      BY DEF Init, CallsOK, KnowsOK
    <2> QED
      BY <2>1, <2>2 DEF MoveInv
  <1>2. MoveInv /\ [Next]_<<vars, quiet>> => MoveInv'
    <2> SUFFICES ASSUME MoveInv, [Next]_<<vars, quiet>> PROVE MoveInv'
      OBVIOUS
    <2>1. ASSUME NEW r \in Requests, Staff(r) \/ Parent(r) \/ Fail(r) PROVE MoveInv'
      BY <2>1, StatusCallsKeep, InsertKeeps, WriteStatusKeeps, OtherCallsKeep DEF Staff
    <2>2. ASSUME NEW t \in Ticks, Run(t) PROVE MoveInv'
      BY <2>2, CronKeeps
    <2>3. CASE PassTime \/ UNCHANGED <<vars, quiet>>
      BY <2>3, SameSessions, CallsRest DEF PassTime, vars, rows
    <2> QED
      BY <2>1, <2>2, <2>3 DEF Next, Step
  <1> QED
    BY <1>1, <1>2, PTL DEF Spec

-----------------------------------------------------------------------------
(* What a step does to the status of a session *)

MovesForward(s) == session'[s].status = Allowed[session[s].status]

WrittenBlindly(s) ==
    \E r \in Requests :
        /\ pc[r] = "write" /\ pc'[r] = "ended"
        /\ job[r].session = s /\ job[r].seen # session[s].status

StaysOrMoves ==
    \A s \in Created : session'[s].status # session[s].status =>
        MovesForward(s) \/ WrittenBlindly(s)

LEMMA UnchangedStays ==
    ASSUME UNCHANGED session
    PROVE  StaysOrMoves
  BY DEF StaysOrMoves

LEMMA CallMoves ==
    ASSUME MoveInv, NEW r \in Requests, Staff(r) \/ Parent(r) \/ Fail(r)
    PROVE  StaysOrMoves
  <1>1. CASE InsertSession(r)
    BY <1>1 DEF InsertSession, StaysOrMoves, MoveInv, SessionsOK, Created
  <1>2. CASE WriteStatus(r)
    <2>1. /\ pc[r] = "write"
          /\ Continue(r, "ended", job[r])
          /\ session' = [session EXCEPT ![job[r].session] = [@ EXCEPT !.status = job[r].value]]
      BY <1>2 DEF WriteStatus, Write, Goto
    <2>2. pc'[r] = "ended"
      BY <2>1, ContinueMoves DEF MoveInv
    <2>3. /\ job[r].session \in Sessions
          /\ session[job[r].session] \in SessionRequest
          /\ Allowed[job[r].seen] = job[r].value
      BY <2>1 DEF MoveInv, KnowsOK, MayMove
    <2>4. SUFFICES ASSUME NEW s \in Created, session'[s].status # session[s].status
                   PROVE  MovesForward(s) \/ WrittenBlindly(s)
      BY DEF StaysOrMoves
    <2>5. s = job[r].session
      BY <2>1, <2>4 DEF MoveInv, SessionsOK, Created
    <2>6. session'[s].status = job[r].value
      BY <2>1, <2>3, <2>5 DEF MoveInv, SessionsOK, SessionRequest
    <2>7. CASE job[r].seen = session[s].status
      BY <2>3, <2>6, <2>7 DEF MovesForward
    <2>8. CASE job[r].seen # session[s].status
      BY <2>1, <2>2, <2>5, <2>8 DEF WrittenBlindly
    <2> QED
      BY <2>7, <2>8
  <1>3. CASE UNCHANGED session
    BY <1>3, UnchangedStays
  <1>4. InsertSession(r) \/ WriteStatus(r) \/ UNCHANGED session
    BY DEF Staff, Parent, Fail, CreateSession, AddPaymentPlan, UpdateStatus, ReadStatus,
       CreateLocation, InsertLocation, WriteQr, RegenerateQr, SwitchLocation, SubmitForm,
       CheckOpen, Register, Arrive, rows
  <1> QED
    BY <1>1, <1>2, <1>3, <1>4

(* The WHERE clause of an update compares the status the update replaces.  *)
LEMMA CronMoves ==
    ASSUME MoveInv, NEW t \in Ticks, Run(t)
    PROVE  StaysOrMoves
  <1>1. CASE OpenDue(t)
    BY <1>1 DEF OpenDue, Advance, HasStatus, Created, StaysOrMoves, MovesForward, Allowed,
                MoveInv, SessionsOK, SessionRequest
  <1>2. CASE CloseDue(t)
    BY <1>2 DEF CloseDue, Advance, HasStatus, Created, StaysOrMoves, MovesForward, Allowed,
                MoveInv, SessionsOK, SessionRequest
  <1>3. CASE StartTick(t) \/ FailTick(t)
    BY <1>3, UnchangedStays DEF StartTick, FailTick, rows
  <1> QED
    BY <1>1, <1>2, <1>3 DEF Run

(* A session moves by one stage, whoever moves it and however many runs of *)
(* the cron are under way, unless staff write on the strength of a status  *)
(* that has changed since it was read.                                     *)
THEOREM StatusIsOneWay == Spec => StatusMovesForward
  <1>1. MoveInv /\ [Next]_<<vars, quiet>> =>
            [\A s \in Created : session'[s].status # session[s].status =>
                \/ session'[s].status = Allowed[session[s].status]
                \/ \E r \in Requests :
                      /\ pc[r] = "write" /\ pc'[r] = "ended"
                      /\ job[r].session = s /\ job[r].seen # session[s].status]_<<vars, quiet>>
    <2> SUFFICES ASSUME MoveInv, Next PROVE StaysOrMoves
      BY DEF StaysOrMoves, MovesForward, WrittenBlindly
    <2>1. CASE PassTime
      BY <2>1, UnchangedStays DEF PassTime, rows
    <2> QED
      BY <2>1, CallMoves, CronMoves DEF Next, Step
  <1> QED
    BY MoveInvHolds, <1>1, PTL DEF Spec, StatusMovesForward

-----------------------------------------------------------------------------
(* Places that the form gives away *)

IsOffering(s) == s \in Created /\ IsOpen(s)

FormOK(r) ==
    /\ pc[r] = "openCheck" => job[r].session \in Created
    /\ quiet[r] => pc[r] = "transaction" /\ IsOffering(job[r].session)

FormInv == MoveInv /\ \A r \in Requests : FormOK(r)

NoteQuiet ==
    quiet' = [r \in Requests |->
        /\ pc'[r] = "transaction"
        /\ pc[r] = "openCheck" \/ (quiet[r] /\ UNCHANGED <<now, session, location>>)]

LEMMA SessionsAreKept ==
    ASSUME MoveInv, Step
    PROVE  SessionsStay
  <1>1. ASSUME NEW r \in Requests, Staff(r) \/ Parent(r) \/ Fail(r) PROVE SessionsStay
    <2>1. CASE InsertSession(r)
      BY <2>1 DEF InsertSession, Write, MoveInv, KnowsOK, SessionsOK, SessionsStay
    <2>2. CASE WriteStatus(r)
      <3>1. /\ session' = [session EXCEPT ![job[r].session] = [@ EXCEPT !.status = job[r].value]]
            /\ session[job[r].session] \in SessionRequest /\ job[r].value \in Statuses
        BY <2>2 DEF WriteStatus, Write, MoveInv, KnowsOK
      <3>2. [session[job[r].session] EXCEPT !.status = job[r].value] \in SessionRequest
        BY <3>1 DEF SessionRequest
      <3> QED
        BY <3>1, <3>2 DEF MoveInv, SessionsOK, SessionsStay
    <2>3. CASE UNCHANGED session
      BY <2>3, SameSessions
    <2>4. InsertSession(r) \/ WriteStatus(r) \/ UNCHANGED session
      BY <1>1 DEF Staff, Parent, Fail, CreateSession, AddPaymentPlan, UpdateStatus, ReadStatus,
         CreateLocation, InsertLocation, WriteQr, RegenerateQr, SwitchLocation, SubmitForm,
         CheckOpen, Register, Arrive, rows
    <2> QED
      BY <2>1, <2>2, <2>3, <2>4
  <1>2. ASSUME NEW t \in Ticks, Run(t) PROVE SessionsStay
    <2>1. CASE OpenDue(t)
      BY <2>1, AdvanceKeeps DEF OpenDue, Statuses
    <2>2. CASE CloseDue(t)
      BY <2>2, AdvanceKeeps DEF CloseDue, Statuses
    <2>3. CASE StartTick(t) \/ FailTick(t)
      BY <2>3, SameSessions DEF StartTick, FailTick, rows
    <2> QED
      BY <1>2, <2>1, <2>2, <2>3 DEF Run
  <1>3. CASE PassTime
    BY <1>3, SameSessions DEF PassTime, rows
  <1> QED
    BY <1>1, <1>2, <1>3 DEF Step

LEMMA CreatedStays ==
    ASSUME MoveInv, MoveInv', SessionsStay, NEW s \in Created
    PROVE  s \in Created'
  BY NullsAssumption DEF MoveInv, SessionsOK, SessionsStay, Created

(* A call that waits. *)
LEMMA WaitingIsFine ==
    ASSUME FormInv, MoveInv', SessionsStay, NoteQuiet,
           NEW q \in Requests, pc'[q] = pc[q], job'[q] = job[q]
    PROVE  FormOK(q)'
  <1>1. job[q].session \in Created => job[q].session \in Created'
    BY CreatedStays DEF FormInv
  <1>2. ASSUME quiet'[q] PROVE pc[q] = "transaction" /\ quiet[q] /\ UNCHANGED <<now, session, location>>
    BY <1>2 DEF NoteQuiet
  <1>3. UNCHANGED <<now, session>> => \A s : IsOffering(s) <=> IsOffering(s)'
    BY DEF IsOffering, IsOpen, InWindow, Created
  <1> QED
    BY <1>1, <1>2, <1>3 DEF FormInv, FormOK

(* A call that goes anywhere but to the check or the transaction. *)
LEMMA AwayIsFine ==
    ASSUME NoteQuiet, NEW r \in Requests, pc'[r] \notin {"openCheck", "transaction"}
    PROVE  FormOK(r)'
  BY DEF NoteQuiet, FormOK

(* Whoever is about to check has found the session; whoever has checked    *)
(* has found it open.                                                      *)
LEMMA FormCallsAreFine ==
    ASSUME FormInv, NoteQuiet, NEW r \in Requests, Parent(r)
    PROVE  FormOK(r)'
  <1>1. ASSUME SubmitForm(r) PROVE FormOK(r)'
    <2>1. PICK s \in Created \cup {Nothing}, label \in Labels, slug \in Slugs :
              /\ pc[r] = "idle" /\ UNCHANGED session
              /\ Continue(r, label, [NoJob EXCEPT !.session = s, !.slug = slug])
              /\ label = "openCheck" => s # Nothing
      BY <1>1 DEF SubmitForm, Arrive, rows, Labels
    <2>2. ~quiet'[r]
      BY <2>1 DEF NoteQuiet, FormInv, FormOK
    <2>3. pc'[r] = label /\ (label # "ended" => job'[r] = [NoJob EXCEPT !.session = s, !.slug = slug])
      BY <2>1, ContinueMoves DEF FormInv, MoveInv
    <2>4. pc'[r] = "openCheck" => s \in Created /\ job'[r].session = s
      BY <2>1, <2>3 DEF NoJob
    <2> QED
      BY <2>1, <2>2, <2>4 DEF FormOK, Created
  <1>2. ASSUME CheckOpen(r) PROVE FormOK(r)'
    <2>1. /\ pc[r] = "openCheck" /\ UNCHANGED <<now, session>>
          /\ Continue(r, IF IsOpen(job[r].session) THEN "transaction" ELSE "ended", job[r])
      BY <1>2 DEF CheckOpen, Goto, rows
    <2>2. /\ pc'[r] = IF IsOpen(job[r].session) THEN "transaction" ELSE "ended"
          /\ pc'[r] = "transaction" => job'[r] = job[r]
      BY <2>1, ContinueMoves DEF FormInv, MoveInv
    <2>3. pc'[r] = "transaction" => IsOffering(job[r].session)
      BY <2>1, <2>2 DEF FormInv, FormOK, IsOffering
    <2>4. \A s : IsOffering(s) <=> IsOffering(s)'
      BY <2>1 DEF IsOffering, IsOpen, InWindow, Created
    <2> QED
      BY <2>2, <2>3, <2>4 DEF FormOK, NoteQuiet
  <1>3. ASSUME Register(r) PROVE FormOK(r)'
    <2>1. Continue(r, "ended", job[r])
      BY <1>3 DEF Register, Write, Goto
    <2> QED
      BY <2>1, ContinueMoves, AwayIsFine DEF FormInv, MoveInv
  <1> QED
    BY <1>1, <1>2, <1>3 DEF Parent

LEMMA StaffCallsAreFine ==
    ASSUME FormInv, NoteQuiet, NEW r \in Requests, Staff(r) \/ Fail(r)
    PROVE  FormOK(r)'
  <1>1. PICK label, args : /\ Continue(r, label, args)
                          /\ label \in {"insert", "status", "write", "insertLocation", "qr", "ended"}
    <2>1. CASE CreateSession(r) \/ InsertSession(r) \/ AddPaymentPlan(r) \/ Fail(r)
      BY <2>1 DEF CreateSession, InsertSession, AddPaymentPlan, Fail, Arrive, Write, Goto
    <2>2. CASE UpdateStatus(r) \/ ReadStatus(r) \/ WriteStatus(r)
      BY <2>2 DEF UpdateStatus, ReadStatus, WriteStatus, Arrive, Write, Goto
    <2>3. CASE CreateLocation(r) \/ InsertLocation(r) \/ WriteQr(r) \/ RegenerateQr(r) \/ SwitchLocation(r)
      BY <2>3 DEF CreateLocation, InsertLocation, WriteQr, RegenerateQr, SwitchLocation, Arrive, Write, Goto
    <2> QED
      BY <2>1, <2>2, <2>3 DEF Staff
  <1> QED
    BY <1>1, ContinueMoves, AwayIsFine DEF FormInv, MoveInv

LEMMA FormInvHolds == Spec => []FormInv
  <1>1. Init => \A r \in Requests : FormOK(r)
    BY DEF Init, FormOK
  <1>2. FormInv /\ MoveInv' /\ [Next]_<<vars, quiet>> => FormInv'
    <2> SUFFICES ASSUME FormInv, MoveInv', [Next]_<<vars, quiet>> PROVE \A r \in Requests : FormOK(r)'
      BY DEF FormInv
    <2>1. ASSUME Next, NEW q \in Requests PROVE FormOK(q)'
      <3>1. NoteQuiet /\ SessionsStay
        BY <2>1, SessionsAreKept DEF Next, NoteQuiet, FormInv
      <3>2. ASSUME NEW r \in Requests, Staff(r) \/ Parent(r) \/ Fail(r) PROVE FormOK(q)'
        <4>1. \E label, args : Continue(r, label, args)
          BY <3>2 DEF Staff, Parent, Fail, CreateSession, InsertSession, AddPaymentPlan, UpdateStatus,
             ReadStatus, WriteStatus, CreateLocation, InsertLocation, WriteQr, RegenerateQr, SwitchLocation,
             SubmitForm, CheckOpen, Register, Arrive, Write, Goto
        <4>2. q # r => pc'[q] = pc[q] /\ job'[q] = job[q]
          BY <4>1, ContinueMoves DEF FormInv, MoveInv
        <4> QED
          BY <3>1, <3>2, <4>2, WaitingIsFine, FormCallsAreFine, StaffCallsAreFine
      <3>3. ASSUME UNCHANGED calls PROVE FormOK(q)'
        BY <3>1, <3>3, WaitingIsFine DEF calls
      <3>4. (\E t \in Ticks : Run(t)) \/ PassTime => UNCHANGED calls
        BY DEF Run, StartTick, OpenDue, CloseDue, FailTick, PassTime
      <3> QED
        BY <2>1, <3>2, <3>3, <3>4 DEF Next, Step
    <2>2. CASE UNCHANGED <<vars, quiet>>
      BY <2>2 DEF vars, rows, calls, FormInv, FormOK, IsOffering, IsOpen, InWindow, Created
    <2> QED
      BY <2>1, <2>2
  <1> QED
    BY <1>1, <1>2, MoveInvHolds, PTL DEF Spec, FormInv

(* A parent gets a place only where the form of the location offers it,    *)
(* though the form is checked outside the transaction, unless a session,   *)
(* the location or the clock has moved since: for any number of calls,     *)
(* sessions, locations and runs of the cron.                               *)
THEOREM PlacesAreOffered == Spec => PlacesAreListed
  <1>1. FormInv /\ [Next]_<<vars, quiet>> =>
            [\A r \in Requests, s \in Sessions, slug \in Slugs :
                <<r, s, slug>> \in registered' \ registered /\ quiet[r] =>
                    s \in FormConfig(slug) \cap RegistrationConfig(slug) \/ ~IsActive(slug)]_<<vars, quiet>>
    <2> SUFFICES ASSUME FormInv, Next, NEW r \in Requests, NEW s \in Sessions, NEW slug \in Slugs,
                        <<r, s, slug>> \in registered', <<r, s, slug>> \notin registered,
                        quiet[r], IsActive(slug)
                 PROVE  s \in FormConfig(slug) \cap RegistrationConfig(slug)
      OBVIOUS
    <2>1. PICK q \in Requests : Register(q)
      <3>1. registered' # registered
        OBVIOUS
      <3> QED
        BY <3>1 DEF Next, Step, Staff, Parent, Fail, CreateSession, InsertSession, AddPaymentPlan,
           UpdateStatus, ReadStatus, WriteStatus, CreateLocation, InsertLocation, WriteQr, RegenerateQr,
           SwitchLocation, SubmitForm, CheckOpen, Arrive, Run, StartTick, OpenDue, CloseDue, FailTick,
           PassTime, rows
    <2>2. r = q /\ s = job[q].session /\ slug = job[q].slug /\ IsOffered(s, slug)
      BY <2>1 DEF Register
    <2>3. s \in Created /\ IsOpen(s) /\ slug \in session[s].locations
      BY <2>2, NullsAssumption DEF FormInv, FormOK, IsOffering, IsOffered
    <2> QED
      BY <2>3 DEF FormConfig, RegistrationConfig, HasStatus, IsOpen
  <1> QED
    BY FormInvHolds, <1>1, PTL DEF Spec, PlacesAreListed
=============================================================================
