----------------------------- MODULE RateLimits -----------------------------
(***************************************************************************)
(* Who may call at all: API keys, which staff create and revoke, and two   *)
(* limits that count calls in a sliding window of Redis, one per API key   *)
(* and one per IP address.  A count is one MULTI and so atomic; the time   *)
(* it is made with is read before, in one of several server processes.     *)
(***************************************************************************)
EXTENDS HttpCalls

CONSTANTS
    ApiKeys,    \* identities of keys
    Window,     \* WINDOW_SECONDS, WINDOW_SIZE_IN_SECONDS
    Limit       \* api_keys.rate_limit, MAX_REQUESTS

ASSUME LimitsAssumption == Window \in Nat \ {0} /\ Limit \in Nat \ {0}
ASSUME KeysAssumption == "ip" \notin ApiKeys

VARIABLES
    apiKey,     \* api_keys: "none", "live" or "revoked"
    keyHits,    \* the sorted set of each key: <<time, call>>
    ipHits,     \* the sorted set of one address: times
    admitted,   \* history: <<time, call>> of the calls let through, by limit
    late        \* history: calls counted after one with a later time, and
                \*   calls let through without a count

limits == <<apiKey, keyHits, ipHits, admitted, late>>

Times == 0 .. MaxNow

LimitsInit ==
    /\ apiKey = [k \in ApiKeys |-> "none"]
    /\ keyHits = [k \in ApiKeys |-> {}]
    /\ ipHits = {}
    /\ admitted = [l \in ApiKeys \cup {"ip"} |-> {}]
    /\ late = {}

-----------------------------------------------------------------------------
(* API keys *)

CreateKey(r) ==
    \E k \in ApiKeys :
        /\ apiKey[k] = "none"
        /\ Arrive(r, "createKey", "ended", Nothing)
        /\ apiKey' = [apiKey EXCEPT ![k] = "live"]
        /\ UNCHANGED <<keyHits, ipHits, admitted, late>>

RevokeKey(r) ==
    \E k \in ApiKeys :
        /\ Arrive(r, "revokeKey", IF apiKey[k] = "live" THEN "revoke" ELSE "ended",
                  [limit |-> k, at |-> 0])
        /\ UNCHANGED limits

WriteRevoked(r) ==
    /\ Step(r, "revoke", "ended")
    /\ apiKey' = [apiKey EXCEPT ![job[r].limit] = "revoked"]
    /\ UNCHANGED <<keyHits, ipHits, admitted, late>>

-----------------------------------------------------------------------------
(* The limits *)

(* A call under an API key: the key, and then the time. *)
Authenticate(r) ==
    \E k \in ApiKeys :
        /\ Arrive(r, "callWithKey", IF apiKey[k] = "live" THEN "stamp" ELSE "ended",
                  [limit |-> k, at |-> 0])
        /\ UNCHANGED limits

Stamp(r) ==
    /\ pc[r] = "stamp"
    /\ Continue(r, "countKey", [job[r] EXCEPT !.at = now])
    /\ UNCHANGED limits

(* A call to a path that is limited by address. *)
ArriveByIp(r) ==
    /\ Arrive(r, "callByIp", "countIp", [limit |-> "ip", at |-> now])
    /\ UNCHANGED limits

IsRecent(time, t) == time > t - Window

Admit(r, allowed) ==
    admitted' = IF allowed THEN [admitted EXCEPT ![job[r].limit] = @ \cup {<<job[r].at, r>>}]
                ELSE admitted

NoteLate(r, isLate) == late' = IF isLate THEN late \cup {r} ELSE late

CountKey_before(r) ==   \* mutant of CountKey: the call itself is not counted
    LET k == job[r].limit
        hits == {h \in keyHits[k] : IsRecent(h[1], job[r].at)}
    IN  /\ Step(r, "countKey", "ended")
        /\ keyHits' = [keyHits EXCEPT ![k] = hits \cup {<<job[r].at, r>>}]
        /\ Admit(r, Cardinality(hits) <= Limit)
        /\ NoteLate(r, \E h \in keyHits[k] : h[1] > job[r].at)
        /\ UNCHANGED <<apiKey, ipHits>>

(* checkRateLimit: forget what is a window old, add, and count. *)
CountKey(r) ==
    LET k == job[r].limit
        hits == {h \in keyHits[k] : IsRecent(h[1], job[r].at)} \cup {<<job[r].at, r>>}
    IN  /\ Step(r, "countKey", "ended")
        /\ keyHits' = [keyHits EXCEPT ![k] = hits]
        /\ Admit(r, Cardinality(hits) <= Limit)
        /\ NoteLate(r, \E h \in keyHits[k] : h[1] > job[r].at)
        /\ UNCHANGED <<apiKey, ipHits>>

(* The members of this set are the times themselves. *)
CountIp(r) ==
    LET hits == {t \in ipHits : IsRecent(t, job[r].at)} \cup {job[r].at}
    IN  /\ Step(r, "countIp", "ended")
        /\ ipHits' = hits
        /\ Admit(r, Cardinality(hits) <= Limit)
        /\ NoteLate(r, \E t \in ipHits : t > job[r].at)
        /\ UNCHANGED <<apiKey, keyHits>>

(* Without an answer of Redis the call is let through. *)
FailOpen(r) ==
    /\ Step(r, "countKey", "ended") \/ Step(r, "countIp", "ended")
    /\ Admit(r, TRUE)
    /\ NoteLate(r, TRUE)
    /\ UNCHANGED <<apiKey, keyHits, ipHits>>

LimitedCall(r) ==
    \/ CreateKey(r) \/ RevokeKey(r) \/ WriteRevoked(r)
    \/ Authenticate(r) \/ Stamp(r) \/ CountKey(r) \/ ArriveByIp(r) \/ CountIp(r) \/ FailOpen(r)

-----------------------------------------------------------------------------
(* Properties *)

LimitsTypeOK ==
    /\ apiKey \in [ApiKeys -> {"none", "live", "revoked"}]
    /\ keyHits \in [ApiKeys -> SUBSET (Times \X Requests)]
    /\ ipHits \subseteq Times
    /\ admitted \in [ApiKeys \cup {"ip"} -> SUBSET (Times \X Requests)]
    /\ late \subseteq Requests

InWindow(times, t) == {u \in times : t - Window < u /\ u <= t}

(* "Sliding-window rate limiter" (jwt-or-api-key.guard.ts 152): in no      *)
(* window, wherever it begins, are more calls of a key let through than    *)
(* its limit, nor calls of an address at more different times, although    *)
(* calls are refused and counted at once with others; except those that    *)
(* Redis did not count, or counted after one of a later time.              *)
LimitHoldsInEveryWindow ==
    \A t \in Times :
        /\ \A k \in ApiKeys :
              Cardinality({h \in admitted[k] : h[2] \notin late /\ h[1] \in InWindow(Times, t)}) <= Limit
        /\ Cardinality(InWindow({h[1] : h \in {h \in admitted["ip"] : h[2] \notin late}}, t)) <= Limit
=============================================================================
