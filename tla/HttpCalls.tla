----------------------------- MODULE HttpCalls -----------------------------
(***************************************************************************)
(* What the HTTP calls of StaffAccounts, PortalAccess and RateLimits have  *)
(* in common: every call is made once and stops between any two of its     *)
(* queries and updates, each of which is a step, while others go on.       *)
(***************************************************************************)
EXTENDS Integers, FiniteSets

CONSTANTS
    Requests,  \* HTTP calls
    Workloads, \* sets of operations: one of them is what is called
    MaxNow,    \* bound on the clock
    Nothing    \* null, or a row that does not exist

ASSUME ClockAssumption == MaxNow \in Nat
ASSUME NothingAssumption == Nothing \notin Requests /\ Nothing \notin Int

VARIABLES
    now,       \* the clock
    workload,  \* the operations called
    pc,        \* where each call is
    job        \* what it was asked to do, and has read so far

calls == <<now, workload, pc, job>>

CallsInit ==
    /\ now = 0
    /\ workload \in Workloads
    /\ pc = [r \in Requests |-> "idle"]
    /\ job = [r \in Requests |-> Nothing]

Busy == {r \in Requests : pc[r] \notin {"idle", "ended"}}

(* A call that is answered, well or badly, forgets what it has read. *)
Continue(r, label, read) ==
    /\ pc' = [pc EXCEPT ![r] = label]
    /\ job' = [job EXCEPT ![r] = IF label = "ended" THEN Nothing ELSE read]
    /\ UNCHANGED <<now, workload>>

Arrive(r, op, label, read) ==
    /\ op \in workload /\ pc[r] = "idle"
    /\ Continue(r, label, read)

Step(r, from, to) ==
    /\ pc[r] = from
    /\ Continue(r, to, job[r])

(* A query or an update that throws, or the end of the process. *)
Fail(r) == r \in Busy /\ Continue(r, "ended", Nothing)

PassTime ==
    /\ now < MaxNow
    /\ now' = now + 1
    /\ UNCHANGED <<workload, pc, job>>
=============================================================================
