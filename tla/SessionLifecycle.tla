-------------------------- MODULE SessionLifecycle --------------------------
(***************************************************************************)
(* The status of a session and the window in which the public form takes   *)
(* registrations for it.  Staff create sessions and locations and move a   *)
(* session by hand; a cron opens and closes sessions by the clock; parents *)
(* submit the form of a location.                                          *)
(*                                                                         *)
(* A request is one HTTP call, a tick one run of the cron; each query and  *)
(* each update is a step of its own, because nothing here is in a          *)
(* transaction except the registration itself, which is one step.  Whether *)
(* a registration gets a seat or waits is EnrolmentAllocator's matter.     *)
(***************************************************************************)
EXTENDS Integers, FiniteSets

CONSTANTS
    Requests,    \* HTTP calls, each made once
    Workloads,   \* sets of operations: one of them is what is called
    Ticks,       \* runs of the cron that may be under way at once
    Sessions,    \* identities of sessions
    Slugs,       \* registration slugs; a location is known by its slug
    NewSessions, \* what staff ask to create: a subset of SessionRequest
    MaxNow,      \* bound on the clock
    MaxFailures, \* bound on the updates of the cron that fail
    Never,       \* a date that is null
    Nothing      \* a row that does not exist

Statuses == {"DRAFT", "OPEN", "CLOSED", "ARCHIVED"}
Dates == 0 .. MaxNow \cup {Never}

SessionRequest == [status : Statuses, enrolOpenAt : Dates, enrolCloseAt : Dates,
                   startDate : Nat, endDate : Nat, locations : SUBSET Slugs]

ASSUME BoundsAssumption == MaxNow \in Nat /\ MaxFailures \in Nat
ASSUME NullsAssumption == Never \notin Int /\ Nothing \notin Sessions \cup Slugs \cup SessionRequest
ASSUME SessionsAssumption == NewSessions \subseteq SessionRequest

VARIABLES
    now,        \* the clock
    session,    \* sessions: the row of each identity
    location,   \* locations: the row of each slug
    plans,      \* payment_plans: <<session, due dates>>
    registered, \* participants registered by the form: <<call, session, slug>>
    workload,   \* the operations called
    pc, job,    \* where each call is; what it was asked to do and has read
    tick,       \* where each run of the cron is
    tickNow,    \* the time at which it started
    failures,   \* updates of the cron that have failed
    quiet       \* history: no session, location or clock has changed since
                \*   the call was checked

rows == <<session, location, plans, registered>>
calls == <<pc, job, workload>>
cron == <<tick, tickNow, failures>>
vars == <<now, rows, calls, cron>>

NoJob == [session |-> Nothing, slug |-> Nothing, value |-> Nothing, seen |-> Nothing]
Labels == {"idle", "insert", "status", "write", "openCheck", "transaction",
           "insertLocation", "qr", "ended"}

TypeOK ==
    /\ now \in 0 .. MaxNow
    /\ session \in [Sessions -> SessionRequest \cup {Nothing}]
    /\ location \in [Slugs -> [status : {"active", "inactive"}, qr : BOOLEAN] \cup {Nothing}]
    /\ registered \subseteq Requests \X (Sessions \cup {Nothing}) \X Slugs
    /\ pc \in [Requests -> Labels]
    /\ \A r \in Requests : job[r].seen \in Statuses \cup {Nothing}
    /\ tick \in [Ticks -> {"rest", "open", "close"}]
    /\ tickNow \in [Ticks -> 0 .. MaxNow]
    /\ failures \in 0 .. MaxFailures
    /\ quiet \in [Requests -> BOOLEAN]

-----------------------------------------------------------------------------
(* Queries *)

Created == {s \in Sessions : session[s] # Nothing}
HasStatus(s, status) == s \in Created /\ session[s].status = status

DueBy(date, t) == date # Never /\ date <= t

InWindow(s) ==
    /\ session[s].enrolOpenAt = Never \/ session[s].enrolOpenAt <= now
    /\ session[s].enrolCloseAt = Never \/ session[s].enrolCloseAt >= now

IsActive(slug) == location[slug] # Nothing /\ location[slug].status = "active"

(* What the form of a location offers: nothing unless it is active. *)
FormConfig(slug) ==
    {s \in Created : /\ IsActive(slug) /\ slug \in session[s].locations
                     /\ session[s].status = "OPEN" /\ InWindow(s)}

(* The same question, asked of the locations service. *)
RegistrationConfig(slug) ==
    IF IsActive(slug)
    THEN {s \in Created : HasStatus(s, "OPEN") /\ slug \in session[s].locations /\ InWindow(s)}
    ELSE {}

(* The dates of the request, and assertValidLocation for each location.    *)
IsAccepted(dto) ==
    /\ dto.startDate <= dto.endDate
    /\ Never \in {dto.enrolOpenAt, dto.enrolCloseAt} \/ dto.enrolOpenAt <= dto.enrolCloseAt
    /\ \A slug \in dto.locations : location[slug] # Nothing

-----------------------------------------------------------------------------
(* At most one location is missing; the sessions are fresh from creation.  *)
Init ==
    /\ now = 0
    /\ location \in [Slugs -> {Nothing, [status |-> "active", qr |-> FALSE]}]
    /\ Cardinality({l \in Slugs : location[l] = Nothing}) <= 1
    /\ session \in [Sessions -> {dto \in NewSessions : IsAccepted(dto)} \cup {Nothing}]
    /\ plans = {}
    /\ registered = {}
    /\ pc = [r \in Requests |-> "idle"]
    /\ job = [r \in Requests |-> NoJob]
    /\ workload \in Workloads
    /\ tick = [t \in Ticks |-> "rest"]
    /\ tickNow = [t \in Ticks |-> 0]
    /\ failures = 0
    /\ quiet = [r \in Requests |-> FALSE]

(* A call that has been answered, well or badly, has nothing left to do. *)
Continue(r, label, args) ==
    /\ pc' = [pc EXCEPT ![r] = label]
    /\ job' = [job EXCEPT ![r] = IF label = "ended" THEN NoJob ELSE args]
    /\ UNCHANGED workload

Goto(r, label) == Continue(r, label, job[r])

Arrive(r, op, args, label) ==
    /\ pc[r] = "idle" /\ op \in workload
    /\ Continue(r, label, args)
    /\ UNCHANGED <<now, rows, cron>>

(* A step that writes, and ends the call. *)
Write(r, label) ==
    /\ pc[r] = label
    /\ Goto(r, "ended")
    /\ UNCHANGED <<now, cron>>

(* A query or an update that throws ends its call; the form's transaction  *)
(* is rolled back.                                                         *)
Fail(r) ==
    /\ pc[r] \notin {"idle", "ended"}
    /\ Goto(r, "ended")
    /\ UNCHANGED <<now, rows, cron>>

-----------------------------------------------------------------------------
(* Staff: sessions *)

CreateSession(r) ==
    \E dto \in NewSessions :
        Arrive(r, "createSession", [NoJob EXCEPT !.value = dto],
               IF IsAccepted(dto) THEN "insert" ELSE "ended")

InsertSession(r) ==
    \E s \in Sessions \ Created :
        /\ Write(r, "insert")
        /\ session' = [session EXCEPT ![s] = job[r].value]
        /\ UNCHANGED <<location, plans, registered>>

UpdateStatus(r) ==
    \E s \in Created, next \in Statuses :
        Arrive(r, "updateStatus", [NoJob EXCEPT !.session = s, !.value = next], "status")

Allowed == [DRAFT |-> "OPEN", OPEN |-> "CLOSED", CLOSED |-> "ARCHIVED", ARCHIVED |-> "none"]

MayMove(current, next) == Allowed[current] = next

ReadStatus(r) ==
    LET current == session[job[r].session].status IN
    /\ pc[r] = "status"
    /\ Continue(r, IF MayMove(current, job[r].value) THEN "write" ELSE "ended",
                [job[r] EXCEPT !.seen = current])
    /\ UNCHANGED <<now, rows, cron>>

(* UPDATE ... WHERE id: whatever the status is now. *)
WriteStatus(r) ==
    /\ Write(r, "write")
    /\ session' = [session EXCEPT ![job[r].session] = [@ EXCEPT !.status = job[r].value]]
    /\ UNCHANGED <<location, plans, registered>>

(* A session's dates never change, so that checking them and inserting the *)
(* plan is one step.  A plan has as many dates as instalments.             *)
AddPaymentPlan(r) ==
    \E s \in Created : \E first \in {session[s].startDate, session[s].endDate, MaxNow + 1} :
        LET fits == session[s].startDate <= first /\ first <= session[s].endDate IN
        /\ "addPaymentPlan" \in workload
        /\ Write(r, "idle")
        /\ plans' = IF fits THEN plans \cup {<<s, <<first>>>>} ELSE plans
        /\ UNCHANGED <<session, location, registered>>

-----------------------------------------------------------------------------
(* Staff: locations *)

CreateLocation(r) ==
    \E slug \in Slugs :
        Arrive(r, "createLocation", [NoJob EXCEPT !.slug = slug],
               IF location[slug] # Nothing THEN "ended" ELSE "insertLocation")

(* The unique index on the slug turns down the second of two calls. *)
InsertLocation(r) ==
    LET slug == job[r].slug
        taken == location[slug] # Nothing
    IN  /\ pc[r] = "insertLocation"
        /\ location' = IF taken THEN location
                       ELSE [location EXCEPT ![slug] = [status |-> "active", qr |-> FALSE]]
        /\ Goto(r, IF taken THEN "ended" ELSE "qr")
        /\ UNCHANGED <<now, session, plans, registered, cron>>

(* The image is made after the row; a failure leaves the row without one.  *)
WriteQr(r) ==
    /\ Write(r, "qr")
    /\ location' = [location EXCEPT ![job[r].slug] = [@ EXCEPT !.qr = TRUE]]
    /\ UNCHANGED <<session, plans, registered>>

RegenerateQr(r) ==
    \E slug \in Slugs :
        Arrive(r, "regenerateQr", [NoJob EXCEPT !.slug = slug],
               IF location[slug] = Nothing THEN "ended" ELSE "qr")

SwitchLocation(r) ==
    \E slug \in Slugs, status \in {"active", "inactive"} :
        /\ location[slug] # Nothing /\ "updateLocation" \in workload
        /\ Write(r, "idle")
        /\ location' = [location EXCEPT ![slug] = [@ EXCEPT !.status = status]]
        /\ UNCHANGED <<session, plans, registered>>

-----------------------------------------------------------------------------
(* The public form *)

(* The location's slug is in the address; the session may be left open, or *)
(* be any the caller has heard of.                                         *)
SubmitForm(r) ==
    \E slug \in Slugs, s \in Created \cup {Nothing} :
        Arrive(r, "submitForm", [NoJob EXCEPT !.session = s, !.slug = slug],
               IF ~IsActive(slug) THEN "ended"
               ELSE IF s = Nothing THEN "transaction" ELSE "openCheck")

IsOpen(s) == session[s].status = "OPEN" /\ InWindow(s)

CheckOpen(r) ==
    /\ pc[r] = "openCheck"
    /\ Goto(r, IF IsOpen(job[r].session) THEN "transaction" ELSE "ended")
    /\ UNCHANGED <<now, rows, cron>>

(* Mutant of IsOffered: the allocator does not look for the pair.  *)
IsOffered_anywhere(s, slug) == TRUE

(* The allocator refuses a session that is not held at the location. *)
IsOffered(s, slug) == s = Nothing \/ slug \in session[s].locations

Register(r) ==
    LET s == job[r].session
        slug == job[r].slug
    IN  /\ Write(r, "transaction")
        /\ registered' = IF IsOffered(s, slug) THEN registered \cup {<<r, s, slug>>}
                         ELSE registered
        /\ UNCHANGED <<session, location, plans>>

-----------------------------------------------------------------------------
(* The cron: two updates, each of all the rows that match *)

Advance(from, to, due(_)) ==
    session' = [s \in Sessions |->
                   IF HasStatus(s, from) /\ due(s) THEN [session[s] EXCEPT !.status = to]
                   ELSE session[s]]

At(t, place, next) ==
    /\ tick[t] = place
    /\ tick' = [tick EXCEPT ![t] = next]

(* tickNow is not looked at between runs. *)
StartTick(t) ==
    /\ At(t, "rest", "open")
    /\ tickNow' = [tickNow EXCEPT ![t] = now]
    /\ UNCHANGED <<now, rows, calls, failures>>

OpenDue(t) ==
    /\ At(t, "open", "close")
    /\ Advance("DRAFT", "OPEN", LAMBDA s : DueBy(session[s].enrolOpenAt, tickNow[t]))
    /\ UNCHANGED <<now, location, plans, registered, calls, tickNow, failures>>

(* Mutant of CloseDue: the update does not compare the status. *)
CloseDue_anyStatus(t) ==
    /\ At(t, "close", "rest")
    /\ session' = [s \in Sessions |->
           IF s \in Created /\ DueBy(session[s].enrolCloseAt, tickNow[t])
           THEN [session[s] EXCEPT !.status = "CLOSED"] ELSE session[s]]
    /\ tickNow' = [tickNow EXCEPT ![t] = 0]
    /\ UNCHANGED <<now, location, plans, registered, calls, failures>>

(* Mutant of CloseDue: only sessions that close this very moment. *)
CloseDue_onTheDot(t) ==
    /\ At(t, "close", "rest")
    /\ Advance("OPEN", "CLOSED", LAMBDA s : session[s].enrolCloseAt = tickNow[t])
    /\ tickNow' = [tickNow EXCEPT ![t] = 0]
    /\ UNCHANGED <<now, location, plans, registered, calls, failures>>

CloseDue(t) ==
    /\ At(t, "close", "rest")
    /\ Advance("OPEN", "CLOSED", LAMBDA s : DueBy(session[s].enrolCloseAt, tickNow[t]))
    /\ tickNow' = [tickNow EXCEPT ![t] = 0]
    /\ UNCHANGED <<now, location, plans, registered, calls, failures>>

(* An update that throws is logged and ends the run. *)
FailTick(t) ==
    /\ failures < MaxFailures
    /\ tick[t] # "rest"
    /\ tick' = [tick EXCEPT ![t] = "rest"]
    /\ tickNow' = [tickNow EXCEPT ![t] = 0]
    /\ failures' = failures + 1
    /\ UNCHANGED <<now, rows, calls>>

Run(t) == StartTick(t) \/ OpenDue(t) \/ CloseDue(t) \/ FailTick(t)

PassTime ==
    /\ now < MaxNow
    /\ now' = now + 1
    /\ UNCHANGED <<rows, calls, cron>>

-----------------------------------------------------------------------------
Staff(r) ==
    \/ CreateSession(r) \/ InsertSession(r) \/ AddPaymentPlan(r)
    \/ UpdateStatus(r) \/ ReadStatus(r) \/ WriteStatus(r)
    \/ CreateLocation(r) \/ InsertLocation(r) \/ WriteQr(r)
    \/ RegenerateQr(r) \/ SwitchLocation(r)

Parent(r) == SubmitForm(r) \/ CheckOpen(r) \/ Register(r)

Step ==
    \/ \E r \in Requests : Staff(r) \/ Parent(r) \/ Fail(r)
    \/ \E t \in Ticks : Run(t)
    \/ PassTime

Next ==
    /\ Step
    /\ quiet' = [r \in Requests |->
           /\ pc'[r] = "transaction"
           /\ pc[r] = "openCheck" \/ (quiet[r] /\ UNCHANGED <<now, session, location>>)]

Spec == Init /\ [][Next]_<<vars, quiet>>

(* The scheduler starts the cron again and again, and a run that has begun *)
(* goes on.                                                                *)
FairSpec == Spec /\ \A t \in Ticks : WF_vars(Run(t))

-----------------------------------------------------------------------------
(* Properties *)

(* PROJECT_FLOW.md 1063, "DRAFT -> OPEN -> CLOSED -> ARCHIVED (strict,     *)
(* one-way)": a session moves by one stage, whoever moves it and however   *)
(* many runs of the cron are under way - the comparisons "in the WHERE     *)
(* clause" (session-auto-status.processor.ts 22-23) are enough - unless    *)
(* staff write on the strength of a status that has changed since          *)
(* updateStatus read it (sessions.service.ts 133-156).                     *)
StatusMovesForward ==
    [][\A s \in Created : session'[s].status # session[s].status =>
          \/ session'[s].status = Allowed[session[s].status]
          \/ \E r \in Requests :
                /\ pc[r] = "write" /\ pc'[r] = "ended"
                /\ job[r].session = s /\ job[r].seen # session[s].status]_<<vars, quiet>>

(* The form "only accepts sessions that are currently OPEN and within      *)
(* their enrolment window" (registration.service.ts 151-152), although it  *)
(* checks that outside the transaction and without the location: a parent  *)
(* gets a place only where the form of that location, and the locations    *)
(* service, offer it, unless a session, the location or the clock has moved*)
(* since the check.                                                        *)
PlacesAreListed ==
    [][\A r \in Requests, s \in Sessions, slug \in Slugs :
          <<r, s, slug>> \in registered' \ registered /\ quiet[r] =>
              s \in FormConfig(slug) \cap RegistrationConfig(slug) \/ ~IsActive(slug)]_<<vars, quiet>>

(* "DRAFT -> OPEN when enrolOpenAt is set AND in the past, OPEN -> CLOSED  *)
(* when enrolCloseAt is" (session-auto-status.processor.ts 13-14): a       *)
(* session that is due does move, so that again and again none is due,     *)
(* though updates fail and runs of the cron overlap with one another and   *)
(* with staff.                                                             *)
DueSessionsMove ==
    []<>(\A s \in Sessions :
            /\ HasStatus(s, "DRAFT") => ~DueBy(session[s].enrolOpenAt, now)
            /\ HasStatus(s, "OPEN") => ~DueBy(session[s].enrolCloseAt, now))
=============================================================================
