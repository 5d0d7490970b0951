--------------------------- MODULE Access_proofs ---------------------------
(***************************************************************************)
(* What holds of Access whatever calls overlap, for any number of users,   *)
(* calls, sessions and keys:                                               *)
(*   - no window has more counted calls than its limit;                    *)
(*   - every user has a location if and only if the role asks for one;     *)
(*   - the link made last opens the portal;                                *)
(*   - live sessions go back to the password that stands, an enabled       *)
(*     second factor has a proven secret, wrong passwords are counted;     *)
(*   - a ticket is used once.                                              *)
(* Each has an inductive invariant of its own: LimitsInv, RolesInv,        *)
(* PortalInv, SessionsInv and TicketsOK.                                   *)
(***************************************************************************)
EXTENDS Access, FiniteSetTheorems, TLAPS

-----------------------------------------------------------------------------
(* Calls: one at a time goes on, and from which places to which *)

CallsOK ==
    /\ now \in Nat
    /\ pc = [r \in Requests |-> pc[r]]
    /\ job = [r \in Requests |-> job[r]]

LEMMA ContinueMoves ==
    ASSUME CallsOK, NEW r \in Requests, NEW label, NEW read, Continue(r, label, read)
    PROVE  /\ CallsOK'
           /\ pc'[r] = label
           /\ job'[r] = IF label = "ended" THEN Nothing ELSE read
           /\ \A q \in Requests \ {r} : pc'[q] = pc[q] /\ job'[q] = job[q]
  BY DEF CallsOK, Continue

GoesOn(r, places) == \E label \in places : \E read : pc[r] # "ended" /\ Continue(r, label, read)

AccountPlaces == {"ended", "countFailure", "clearFailures", "issue", "record", "rotate", "issueNext",
                  "issueSwitched", "writeSecret", "enable", "disable", "createLink", "reset",
                  "insertUser", "writeUser", "delete", "markLeft", "revokeLeft"}
PortalPlaces == {"ended", "mint", "clear", "ensure"}
LimitPlaces == {"ended", "revoke", "stamp", "countKey", "countIp"}

LEMMA StepGoesOn ==
    ASSUME NEW r \in Requests, NEW places, NEW from, NEW to \in places, Step(r, from, to), from # "ended"
    PROVE  GoesOn(r, places)
  BY DEF GoesOn, Step
LEMMA ArriveGoesOn ==
    ASSUME NEW r \in Requests, NEW places, NEW op, NEW to \in places, NEW read, Arrive(r, op, to, read)
    PROVE  GoesOn(r, places)
  BY DEF GoesOn, Arrive
LEMMA FindUserGoesOn ==
    ASSUME NEW r \in Requests, NEW op, NEW u, NEW ticket, NEW asked, NEW label \in AccountPlaces,
           FindUser(r, op, u, ticket, asked, label)
    PROVE  GoesOn(r, AccountPlaces)
  <1>1. (IF Exists(u) THEN label ELSE "ended") \in AccountPlaces
    BY DEF AccountPlaces
  <1> QED
    BY <1>1, ArriveGoesOn DEF FindUser

LEMMA AccountCallsGoOn ==
    ASSUME NEW r \in Requests, AccountCall(r)
    PROVE  GoesOn(r, AccountPlaces)
  <1> USE DEF AccountPlaces
  <1>1. ASSUME Session(r) PROVE GoesOn(r, AccountPlaces)
    <2>1. ASSUME Login(r) \/ Refresh(r) \/ SwitchTenant(r) PROVE GoesOn(r, AccountPlaces)
      <3>1. PICK op, u, ticket, asked, label : 
             FindUser(r, op, u, ticket, asked, label) /\ label \in AccountPlaces
        BY <2>1 DEF Login, Refresh, SwitchTenant
      <3> QED
        BY <3>1, FindUserGoesOn
    <2>2. ASSUME Logout(r) PROVE GoesOn(r, AccountPlaces)
      BY <2>2, ArriveGoesOn DEF Logout
    <2>3. ASSUME \/ CountFailure(r) \/ ClearFailures(r) \/ Issue(r) \/ ReadRecord(r)
                 \/ Rotate(r) \/ IssueNext(r) \/ IssueSwitched(r)
          PROVE  GoesOn(r, AccountPlaces)
      <3>1. PICK from, to : Step(r, from, to) /\ to \in AccountPlaces /\ from # "ended"
        BY <2>3 DEF CountFailure, ClearFailures, Issue, ReadRecord, Rotate, IssueNext, IssueSwitched
      <3> QED
        BY <3>1, StepGoesOn
    <2> QED
      BY <1>1, <2>1, <2>2, <2>3 DEF Session
  <1>2. ASSUME SecondFactor(r) PROVE GoesOn(r, AccountPlaces)
    <2>1. ASSUME Setup2fa(r) \/ Enable2fa(r) \/ Disable2fa(r) PROVE GoesOn(r, AccountPlaces)
      BY <2>1, FindUserGoesOn DEF Setup2fa, Enable2fa, Disable2fa
    <2> QED
      BY <1>2, <2>1, StepGoesOn DEF SecondFactor, WriteSecret, WriteEnabled, WriteDisabled
  <1>3. ASSUME Password(r) PROVE GoesOn(r, AccountPlaces)
    BY <1>3, FindUserGoesOn, ArriveGoesOn, StepGoesOn
    DEF Password, ForgotPassword, CreateLink, ResetPassword, WritePassword
  <1>4. ASSUME Administration(r) PROVE GoesOn(r, AccountPlaces)
    <2>1. ASSUME CreateUser(r) PROVE GoesOn(r, AccountPlaces)
      BY <2>1, ArriveGoesOn DEF CreateUser
    <2>2. ASSUME UpdateUser(r) \/ SoftDelete(r) PROVE GoesOn(r, AccountPlaces)
      BY <2>2, FindUserGoesOn DEF UpdateUser, SoftDelete
    <2> QED
      BY <1>4, <2>1, <2>2, StepGoesOn DEF Administration, InsertUser, WriteUser, MarkDeleted, RevokeAll
  <1> QED
    BY <1>1, <1>2, <1>3, <1>4 DEF AccountCall

LEMMA PortalCallsGoOn ==
    ASSUME NEW r \in Requests, PortalCall(r)
    PROVE  GoesOn(r, PortalPlaces)
  BY ArriveGoesOn, StepGoesOn
  DEF PortalPlaces, PortalCall, RequestLink, MintMagic, VerifyLink, ClearToken, SendPaymentLink,
      EnsurePortalToken, FindGuardian

LEMMA LimitedCallsGoOn ==
    ASSUME NEW r \in Requests, LimitedCall(r)
    PROVE  GoesOn(r, LimitPlaces)
  <1> USE DEF LimitPlaces
  <1>1. ASSUME Authenticate(r) \/ RevokeKey(r) PROVE GoesOn(r, LimitPlaces)
    <2>1. PICK op, label, read : Arrive(r, op, label, read) /\ label \in LimitPlaces
      BY <1>1 DEF Authenticate, RevokeKey
    <2> QED
      BY <2>1, ArriveGoesOn
  <1>2. ASSUME Stamp(r) PROVE GoesOn(r, LimitPlaces)
    BY <1>2 DEF Stamp, GoesOn
  <1>3. ASSUME CreateKey(r) \/ ArriveByIp(r) PROVE GoesOn(r, LimitPlaces)
    BY <1>3, ArriveGoesOn DEF CreateKey, ArriveByIp
  <1> QED
    BY <1>1, <1>2, <1>3, StepGoesOn DEF LimitedCall, WriteRevoked, CountKey, CountIp, FailOpen

LEMMA FailGoesOn ==
    ASSUME NEW r \in Requests, Fail(r)
    PROVE  GoesOn(r, {"ended"})
  BY DEF Fail, Busy, GoesOn

-----------------------------------------------------------------------------
(* What a call knows while a limit is about to count it *)

Counting == {"stamp", "countKey", "countIp"}

CountOK(r) ==
    /\ pc[r] \in {"stamp", "countKey"} => job[r].limit \in ApiKeys
    /\ pc[r] = "countIp" => job[r].limit = "ip"
    /\ pc[r] \in {"countKey", "countIp"} => job[r].at \in Nat

CountersOK == CallsOK /\ \A r \in Requests : CountOK(r)

(* A call that goes on to something else leaves the counters' calls alone. *)
LEMMA ContinueElsewhere ==
    ASSUME CountersOK, NEW r \in Requests, NEW label, NEW read,
           Continue(r, label, read), label \notin Counting
    PROVE  CountersOK'
  <1>1. CallsOK' /\ pc'[r] = label
        /\ \A q \in Requests \ {r} : pc'[q] = pc[q] /\ job'[q] = job[q]
    BY ContinueMoves DEF CountersOK
  <1>2. CountOK(r)'
    BY <1>1 DEF CountOK, Counting
  <1>3. ASSUME NEW q \in Requests \ {r} PROVE CountOK(q)'
    BY <1>1 DEF CountersOK, CountOK
  <1> QED
    BY <1>1, <1>2, <1>3 DEF CountersOK

LEMMA CountersElsewhere ==
    ASSUME CountersOK, NEW r \in Requests, NEW places, GoesOn(r, places), places \cap Counting = {}
    PROVE  CountersOK'
  BY ContinueElsewhere DEF GoesOn

LEMMA StepElsewhere ==
    ASSUME CountersOK, NEW r \in Requests, NEW from, NEW to, Step(r, from, to), to \notin Counting
    PROVE  CountersOK'
  BY ContinueElsewhere DEF Step

LEMMA ArriveElsewhere ==
    ASSUME CountersOK, NEW r \in Requests, NEW op, NEW label, NEW read,
           Arrive(r, op, label, read), label \notin Counting
    PROVE  CountersOK'
  BY ContinueElsewhere DEF Arrive

(* The calls that are counted keep their key, or are of the address.       *)
LEMMA LimitsKeepCounters ==
    ASSUME CountersOK, NEW r \in Requests, LimitedCall(r)
    PROVE  CountersOK'
  <1>1. ASSUME CreateKey(r) PROVE CountersOK'
    BY <1>1, ArriveElsewhere DEF CreateKey, Counting
  <1>2. ASSUME RevokeKey(r) PROVE CountersOK'
    BY <1>2, ArriveElsewhere DEF RevokeKey, Counting
  <1>3. ASSUME WriteRevoked(r) PROVE CountersOK'
    BY <1>3, StepElsewhere DEF WriteRevoked, Counting
  <1>4. ASSUME Authenticate(r) PROVE CountersOK'
    <2>1. PICK k \in ApiKeys :
              Continue(r, IF apiKey[k] = "live" THEN "stamp" ELSE "ended", [limit |-> k, at |-> 0])
      BY <1>4 DEF Authenticate, Arrive
    <2>2. CallsOK'
          /\ pc'[r] = (IF apiKey[k] = "live" THEN "stamp" ELSE "ended")
          /\ job'[r] = (IF pc'[r] = "ended" THEN Nothing ELSE [limit |-> k, at |-> 0])
          /\ \A q \in Requests \ {r} : pc'[q] = pc[q] /\ job'[q] = job[q]
      BY <2>1, ContinueMoves DEF CountersOK
    <2>3. CountOK(r)'
      BY <2>2 DEF CountOK
    <2>4. ASSUME NEW q \in Requests \ {r} PROVE CountOK(q)'
      BY <2>2 DEF CountersOK, CountOK
    <2> QED
      BY <2>2, <2>3, <2>4 DEF CountersOK
  <1>5. ASSUME Stamp(r) PROVE CountersOK'
    <2>1. Continue(r, "countKey", [job[r] EXCEPT !.at = now]) /\ pc[r] = "stamp"
      BY <1>5 DEF Stamp
    <2>2. CallsOK' /\ pc'[r] = "countKey" /\ job'[r] = [job[r] EXCEPT !.at = now]
          /\ \A q \in Requests \ {r} : pc'[q] = pc[q] /\ job'[q] = job[q]
      BY <2>1, ContinueMoves DEF CountersOK
    <2>3. CountOK(r)'
      BY <2>1, <2>2 DEF CountersOK, CallsOK, CountOK
    <2>4. ASSUME NEW q \in Requests \ {r} PROVE CountOK(q)'
      BY <2>2 DEF CountersOK, CountOK
    <2> QED
      BY <2>2, <2>3, <2>4 DEF CountersOK
  <1>6. ASSUME ArriveByIp(r) PROVE CountersOK'
    <2>1. Continue(r, "countIp", [limit |-> "ip", at |-> now])
      BY <1>6 DEF ArriveByIp, Arrive
    <2>2. CallsOK' /\ pc'[r] = "countIp" /\ job'[r] = [limit |-> "ip", at |-> now]
          /\ \A q \in Requests \ {r} : pc'[q] = pc[q] /\ job'[q] = job[q]
      BY <2>1, ContinueMoves DEF CountersOK
    <2>3. CountOK(r)'
      BY <2>2 DEF CountersOK, CallsOK, CountOK
    <2>4. ASSUME NEW q \in Requests \ {r} PROVE CountOK(q)'
      BY <2>2 DEF CountersOK, CountOK
    <2> QED
      BY <2>2, <2>3, <2>4 DEF CountersOK
  <1>7. ASSUME CountKey(r) \/ CountIp(r) \/ FailOpen(r) PROVE CountersOK'
    <2>1. PICK from : Step(r, from, "ended")
      BY <1>7 DEF CountKey, CountIp, FailOpen
    <2> QED
      BY <2>1, StepElsewhere DEF Counting
  <1> QED
    BY <1>1, <1>2, <1>3, <1>4, <1>5, <1>6, <1>7 DEF LimitedCall

-----------------------------------------------------------------------------
(* The limits *)

(* The calls let through under a key, and the times of those let through   *)
(* for the address, that the property counts in the window that ends at t. *)
KeyCalls(k, t) == {h \in admitted[k] : h[2] \notin late /\ h[1] \in InWindow(Times, t)}
IpTimes(t) == InWindow({h[1] : h \in {h \in admitted["ip"] : h[2] \notin late}}, t)

(* What was let through in time is still there to be counted, or a window  *)
(* older than something that is.                                           *)
KeyHitsKept(k) ==
    \A h \in admitted[k] :
        h[2] \in late \/ h \in keyHits[k] \/ \E g \in keyHits[k] : h[1] <= g[1] - Window
IpHitsKept ==
    \A h \in admitted["ip"] :
        h[2] \in late \/ h[1] \in ipHits \/ \E g \in ipHits : h[1] <= g - Window

KeyInv(k) ==
    /\ keyHits[k] \subseteq Int \X Requests /\ IsFiniteSet(keyHits[k])
    /\ admitted[k] \subseteq Int \X Requests /\ IsFiniteSet(admitted[k])
    /\ KeyHitsKept(k)
    /\ \A t \in Times : Cardinality(KeyCalls(k, t)) <= Limit

IpInv ==
    /\ ipHits \in SUBSET Int /\ IsFiniteSet(ipHits)
    /\ admitted["ip"] \subseteq Int \X Requests
    /\ IpHitsKept
    /\ \A t \in Times : IsFiniteSet(IpTimes(t)) /\ Cardinality(IpTimes(t)) <= Limit

LimitsOK ==
    /\ keyHits = [k \in ApiKeys |-> keyHits[k]]
    /\ admitted = [l \in ApiKeys \cup {"ip"} |-> admitted[l]]
    /\ \A k \in ApiKeys : KeyInv(k)
    /\ IpInv

LimitsInv == CountersOK /\ LimitsOK

LEMMA TimesAreIntegers == Times \subseteq Int
  BY ClockAssumption DEF Times

(* Fewer calls stay within the limit. *)
LEMMA FewerCalls ==
    ASSUME NEW S, IsFiniteSet(S), Cardinality(S) <= Limit, NEW T \in SUBSET S
    PROVE  IsFiniteSet(T) /\ Cardinality(T) <= Limit
  <1>1. IsFiniteSet(T) /\ Cardinality(T) <= Cardinality(S)
    BY FS_Subset
  <1>2. Cardinality(S) \in Nat /\ Cardinality(T) \in Nat
    BY <1>1, FS_CardinalityType
  <1> QED
    BY <1>1, <1>2, LimitsAssumption

(* A call that is let through after a count that says it may: everything   *)
(* its window still holds was counted with it.                             *)
LEMMA CountedCall ==
    ASSUME NEW k \in ApiKeys, KeyInv(k), NEW r \in Requests, NEW at \in Int,
           NEW hits, hits = {h \in keyHits[k] : h[1] > at - Window} \cup {<<at, r>>},
           keyHits[k]' = hits,
           \/ admitted[k]' = admitted[k]
           \/ Cardinality(hits) <= Limit /\ admitted[k]' = admitted[k] \cup {<<at, r>>},
           late' = IF \E h \in keyHits[k] : h[1] > at THEN late \cup {r} ELSE late
    PROVE  KeyInv(k)'
  <1> DEFINE old == {h \in keyHits[k] : h[1] > at - Window}
  <1>1. hits \subseteq Int \X Requests /\ IsFiniteSet(hits)
    <2>1. IsFiniteSet(old)
      BY FS_Subset DEF KeyInv
    <2>2. IsFiniteSet(old \cup {<<at, r>>})
      BY <2>1, FS_AddElement
    <2> QED
      BY <2>2 DEF KeyInv
  <1>2. admitted[k]' \subseteq Int \X Requests /\ IsFiniteSet(admitted[k]')
    <2>1. IsFiniteSet(admitted[k] \cup {<<at, r>>})
      BY FS_AddElement DEF KeyInv
    <2>2. admitted[k] \cup {<<at, r>>} \subseteq Int \X Requests
      BY DEF KeyInv
    <2>3. admitted[k]' = admitted[k] \/ admitted[k]' = admitted[k] \cup {<<at, r>>}
      OBVIOUS
    <2>4. admitted[k] \subseteq Int \X Requests /\ IsFiniteSet(admitted[k])
      BY DEF KeyInv
    <2> QED
      BY <2>1, <2>2, <2>3, <2>4, Zenon
  <1>3. \A h \in keyHits[k] : h \in hits \/ h[1] <= at - Window
    BY LimitsAssumption DEF KeyInv
  <1>4. <<at, r>> \in hits /\ <<at, r>>[1] = at
    OBVIOUS
  <1>5. KeyHitsKept(k)'
    <2> SUFFICES ASSUME NEW h \in admitted[k]', h[2] \notin late', h \notin hits
                 PROVE  \E g \in hits : h[1] <= g[1] - Window
      BY DEF KeyHitsKept
    <2>1. h \in admitted[k] /\ h[2] \notin late
      BY <1>4
    <2>2. CASE h \in keyHits[k]
      BY <2>2, <1>3, <1>4
    <2>3. CASE \E g \in keyHits[k] : h[1] <= g[1] - Window
      <3>1. PICK g \in keyHits[k] : h[1] <= g[1] - Window
        BY <2>3
      <3>2. CASE g \in hits
        BY <3>1, <3>2
      <3>3. CASE g[1] <= at - Window
        <4>1. h[1] \in Int /\ g[1] \in Int
          BY <2>1 DEF KeyInv
        <4>2. h[1] <= at - Window
          BY <4>1, <3>1, <3>3, LimitsAssumption
        <4> QED
          BY <4>2, <1>4
      <3> QED
        BY <3>2, <3>3, <1>3
    <2> QED
      BY <2>1, <2>2, <2>3 DEF KeyInv, KeyHitsKept
  <1>6. ASSUME NEW t \in Times PROVE Cardinality(KeyCalls(k, t)') <= Limit
    <2>1. IsFiniteSet(KeyCalls(k, t)) /\ Cardinality(KeyCalls(k, t)) <= Limit
      BY FS_Subset DEF KeyInv, KeyCalls
    <2>2. CASE KeyCalls(k, t)' \subseteq KeyCalls(k, t)
      BY <2>1, <2>2, FewerCalls
    <2>3. CASE ~(KeyCalls(k, t)' \subseteq KeyCalls(k, t))
      <3>1. Cardinality(hits) <= Limit /\ <<at, r>> \in KeyCalls(k, t)'
        BY <2>3 DEF KeyCalls
      <3>2. r \notin late' /\ at \in Times /\ t - Window < at /\ at <= t
        BY <3>1 DEF KeyCalls, InWindow
      <3>3. \A g \in keyHits[k] : g[1] <= at
        BY <3>2 DEF KeyInv
      <3>4. KeyCalls(k, t)' \subseteq hits
        <4> SUFFICES ASSUME NEW h \in KeyCalls(k, t)', h \notin hits PROVE FALSE
          OBVIOUS
        <4>1. h \in admitted[k]' /\ h[2] \notin late' /\ h[1] \in Int /\ t - Window < h[1]
          BY TimesAreIntegers DEF KeyCalls, InWindow
        <4>2. PICK g \in hits : h[1] <= g[1] - Window
          BY <4>1, <1>5 DEF KeyHitsKept
        <4>3. g[1] \in Int /\ g[1] <= at
          BY <1>1, <3>3
        <4> QED
          BY <4>1, <4>2, <4>3, <3>2, TimesAreIntegers, LimitsAssumption
      <3> QED
        BY <3>1, <3>4, <1>1, FewerCalls
    <2> QED
      BY <2>2, <2>3
  <1>7. Times' = Times
    BY DEF Times
  <1> QED
    BY <1>1, <1>2, <1>5, <1>6, <1>7 DEF KeyInv, KeyHitsKept

(* The same of the address, whose set holds times and no calls.            *)
LEMMA CountedIp ==
    ASSUME IpInv, NEW r \in Requests, NEW at \in Int,
           ipHits' = {t \in ipHits : t > at - Window} \cup {at},
           \/ admitted["ip"]' = admitted["ip"]
           \/ Cardinality(ipHits') <= Limit /\ admitted["ip"]' = admitted["ip"] \cup {<<at, r>>},
           late' = IF \E t \in ipHits : t > at THEN late \cup {r} ELSE late
    PROVE  IpInv'
  <1>1. ipHits' \in SUBSET Int /\ IsFiniteSet(ipHits')
    <2>1. IsFiniteSet({t \in ipHits : t > at - Window})
      BY FS_Subset DEF IpInv
    <2>2. IsFiniteSet({t \in ipHits : t > at - Window} \cup {at})
      BY <2>1, FS_AddElement
    <2> QED
      BY <2>2 DEF IpInv
  <1>2. admitted["ip"]' \subseteq Int \X Requests
    BY DEF IpInv
  <1>3. \A t \in ipHits : t \in ipHits' \/ t <= at - Window
    BY LimitsAssumption DEF IpInv
  <1>4. at \in ipHits' /\ <<at, r>>[1] = at /\ <<at, r>>[2] = r
    OBVIOUS
  <1>5. IpHitsKept'
    <2> SUFFICES ASSUME NEW h \in admitted["ip"]', h[2] \notin late', h[1] \notin ipHits'
                 PROVE  \E g \in ipHits' : h[1] <= g - Window
      BY DEF IpHitsKept
    <2>1. h \in admitted["ip"] /\ h[2] \notin late
      BY <1>4
    <2>2. CASE h[1] \in ipHits
      BY <2>2, <1>3, <1>4
    <2>3. CASE \E g \in ipHits : h[1] <= g - Window
      <3>1. PICK g \in ipHits : h[1] <= g - Window
        BY <2>3
      <3>2. CASE g \in ipHits'
        BY <3>1, <3>2
      <3>3. CASE g <= at - Window
        <4>1. h[1] \in Int /\ g \in Int
          BY <2>1 DEF IpInv
        <4>2. h[1] <= at - Window
          BY <4>1, <3>1, <3>3, LimitsAssumption
        <4> QED
          BY <4>2, <1>4
      <3> QED
        BY <3>2, <3>3, <1>3
    <2> QED
      BY <2>1, <2>2, <2>3 DEF IpInv, IpHitsKept
  <1>6. ASSUME NEW t \in Times PROVE IsFiniteSet(IpTimes(t)') /\ Cardinality(IpTimes(t)') <= Limit
    <2>1. IsFiniteSet(IpTimes(t)) /\ Cardinality(IpTimes(t)) <= Limit
      BY DEF IpInv
    <2>2. CASE IpTimes(t)' \subseteq IpTimes(t)
      BY <2>1, <2>2, FewerCalls
    <2>3. CASE ~(IpTimes(t)' \subseteq IpTimes(t))
      <3>1. Cardinality(ipHits') <= Limit /\ r \notin late' /\ t - Window < at /\ at <= t
        BY <2>3, <1>4 DEF IpTimes, InWindow
      <3>2. \A g \in ipHits : g <= at
        BY <3>1 DEF IpInv
      <3>3. IpTimes(t)' \subseteq ipHits'
        <4> SUFFICES ASSUME NEW u \in IpTimes(t)', u \notin ipHits' PROVE FALSE
          OBVIOUS
        <4>1. PICK h \in admitted["ip"]' : h[2] \notin late' /\ u = h[1] /\ t - Window < u
          BY DEF IpTimes, InWindow
        <4>2. PICK g \in ipHits' : h[1] <= g - Window
          BY <4>1, <1>5 DEF IpHitsKept
        <4>3. g \in Int /\ g <= at /\ h[1] \in Int
          BY <1>1, <1>2, <3>2
        <4> QED
          BY <4>1, <4>2, <4>3, <3>1, TimesAreIntegers, LimitsAssumption
      <3> QED
        BY <3>1, <3>3, <1>1, FewerCalls
    <2> QED
      BY <2>2, <2>3
  <1>7. Times' = Times
    BY DEF Times
  <1> QED
    BY <1>1, <1>2, <1>5, <1>6, <1>7 DEF IpInv, IpHitsKept

LEMMA SameHits ==
    ASSUME LimitsOK, UNCHANGED <<keyHits, ipHits, admitted, late>>
    PROVE  LimitsOK'
  <1>1. Times' = Times
    BY DEF Times
  <1>2. ASSUME NEW k \in ApiKeys PROVE KeyInv(k)'
    <2>1. \A t \in Times : KeyCalls(k, t)' = KeyCalls(k, t)
      BY <1>1 DEF KeyCalls, InWindow
    <2> QED
      BY <1>1, <2>1 DEF LimitsOK, KeyInv, KeyHitsKept
  <1>3. IpInv'
    <2>1. \A t \in Times : IpTimes(t)' = IpTimes(t)
      BY DEF IpTimes, InWindow
    <2> QED
      BY <1>1, <2>1 DEF LimitsOK, IpInv, IpHitsKept
  <1> QED
    BY <1>2, <1>3 DEF LimitsOK

(* A call that is let through without a count is late. *)
LEMMA UncountedCall ==
    ASSUME LimitsOK, NEW r \in Requests, NEW l \in ApiKeys \cup {"ip"}, NEW at \in Int,
           UNCHANGED <<keyHits, ipHits>>,
           admitted' = [admitted EXCEPT ![l] = @ \cup {<<at, r>>}],
           late' = late \cup {r}
    PROVE  LimitsOK'
  <1>1. Times' = Times
    BY DEF Times
  <1>2. \A m \in ApiKeys \cup {"ip"} :
            admitted[m]' = admitted[m] \/ admitted[m]' = admitted[m] \cup {<<at, r>>}
    BY DEF LimitsOK
  <1>3. ASSUME NEW k \in ApiKeys PROVE KeyInv(k)'
    <2>1. KeyInv(k)
      BY DEF LimitsOK
    <2>2. IsFiniteSet(admitted[k] \cup {<<at, r>>})
      BY <2>1, FS_AddElement DEF KeyInv
    <2>3. IsFiniteSet(admitted[k]') /\ admitted[k]' \subseteq Int \X Requests
      <3>1. admitted[k] \subseteq Int \X Requests /\ IsFiniteSet(admitted[k])
        BY <2>1 DEF KeyInv
      <3>2. admitted[k] \cup {<<at, r>>} \subseteq Int \X Requests
        BY <3>1
      <3> QED
        BY <1>2, <2>2, <3>1, <3>2, Zenon
    <2>4. KeyHitsKept(k)'
      BY <1>2, <2>1 DEF KeyInv, KeyHitsKept
    <2>5. ASSUME NEW t \in Times PROVE Cardinality(KeyCalls(k, t)') <= Limit
      <3>1. KeyCalls(k, t)' \subseteq KeyCalls(k, t)
        BY <1>1, <1>2 DEF KeyCalls, InWindow
      <3>2. IsFiniteSet(KeyCalls(k, t)) /\ Cardinality(KeyCalls(k, t)) <= Limit
        BY <2>1, FS_Subset DEF KeyInv, KeyCalls
      <3> QED
        BY <3>1, <3>2, FewerCalls
    <2> QED
      BY <1>1, <2>1, <2>3, <2>4, <2>5 DEF KeyInv
  <1>4. IpInv'
    <2>1. IpInv
      BY DEF LimitsOK
    <2>2. IpHitsKept'
      BY <1>2, <2>1 DEF IpInv, IpHitsKept
    <2>3. ASSUME NEW t \in Times PROVE IsFiniteSet(IpTimes(t)') /\ Cardinality(IpTimes(t)') <= Limit
      <3>1. IpTimes(t)' \subseteq IpTimes(t)
        BY <1>2 DEF IpTimes, InWindow
      <3> QED
        BY <2>1, <3>1, FewerCalls DEF IpInv
    <2>4. admitted["ip"]' \subseteq Int \X Requests
      BY <1>2, <2>1 DEF IpInv
    <2> QED
      BY <1>1, <2>1, <2>2, <2>3, <2>4 DEF IpInv
  <1> QED
    BY <1>3, <1>4 DEF LimitsOK

LEMMA CountKeyKeeps ==
    ASSUME LimitsInv, NEW r \in Requests, CountKey(r)
    PROVE  LimitsOK'
  <1>1. PICK k \in ApiKeys, at \in Nat : k = job[r].limit /\ at = job[r].at
    BY DEF CountKey, Step, LimitsInv, CountersOK, CountOK
  <1> DEFINE hits == {h \in keyHits[k] : h[1] > at - Window} \cup {<<at, r>>}
  <1>2. /\ keyHits' = [keyHits EXCEPT ![k] = hits]
        /\ Admit(r, Cardinality(hits) <= Limit)
        /\ NoteLate(r, \E h \in keyHits[k] : h[1] > at)
        /\ UNCHANGED ipHits
    BY <1>1 DEF CountKey, IsRecent
  <1>3. /\ keyHits' = [j \in ApiKeys |-> keyHits'[j]]
        /\ keyHits[k]' = hits
        /\ \A j \in ApiKeys \ {k} : keyHits[j]' = keyHits[j]
    <2>1. keyHits = [j \in ApiKeys |-> keyHits[j]] /\ keyHits' = [keyHits EXCEPT ![k] = hits]
      BY <1>2 DEF LimitsOK, LimitsInv
    <2> HIDE DEF hits
    <2> QED
      BY <1>1, <2>1
  <1>4. late' = IF \E h \in keyHits[k] : h[1] > at THEN late \cup {r} ELSE late
    BY <1>2 DEF NoteLate
  <1>5. /\ admitted' = [l \in ApiKeys \cup {"ip"} |-> admitted'[l]]
        /\ \/ admitted[k]' = admitted[k]
           \/ Cardinality(hits) <= Limit /\ admitted[k]' = admitted[k] \cup {<<at, r>>}
        /\ \A l \in (ApiKeys \cup {"ip"}) \ {k} : admitted[l]' = admitted[l]
    <2>1. admitted' = IF Cardinality(hits) <= Limit
                      THEN [admitted EXCEPT ![k] = admitted[k] \cup {<<at, r>>}] ELSE admitted
      BY <1>1, <1>2 DEF Admit
    <2>2. admitted = [l \in ApiKeys \cup {"ip"} |-> admitted[l]]
      BY DEF LimitsOK, LimitsInv
    <2> HIDE DEF hits
    <2> QED
      BY <1>1, <2>1, <2>2
  <1>6. KeyInv(k)'
    <2>1. KeyInv(k)
      BY <1>1 DEF LimitsInv, LimitsOK
    <2>2. hits = {h \in keyHits[k] : h[1] > at - Window} \cup {<<at, r>>}
      OBVIOUS
    <2>3. at \in Int
      OBVIOUS
    <2> HIDE DEF hits
    <2>4. keyHits[k]' = hits
      BY <1>3
    <2>5. \/ admitted[k]' = admitted[k]
          \/ Cardinality(hits) <= Limit /\ admitted[k]' = admitted[k] \cup {<<at, r>>}
      BY <1>5
    <2> QED
      BY <1>4, <2>1, <2>2, <2>3, <2>4, <2>5, CountedCall, Zenon
  <1>7. ASSUME NEW j \in ApiKeys \ {k} PROVE KeyInv(j)'
    <2>1. KeyInv(j) /\ keyHits[j]' = keyHits[j] /\ admitted[j]' = admitted[j] /\ late \subseteq late'
      BY <1>3, <1>4, <1>5 DEF LimitsInv, LimitsOK
    <2>2. Times' = Times
      BY DEF Times
    <2>3. ASSUME NEW t \in Times PROVE Cardinality(KeyCalls(j, t)') <= Limit
      <3>1. KeyCalls(j, t)' \subseteq KeyCalls(j, t)
        BY <2>1, <2>2 DEF KeyCalls, InWindow
      <3>2. IsFiniteSet(KeyCalls(j, t)) /\ Cardinality(KeyCalls(j, t)) <= Limit
        BY <2>1, FS_Subset DEF KeyInv, KeyCalls
      <3> QED
        BY <3>1, <3>2, FewerCalls
    <2>4. KeyHitsKept(j)'
      BY <2>1 DEF KeyInv, KeyHitsKept
    <2> QED
      BY <2>1, <2>2, <2>3, <2>4 DEF KeyInv
  <1>8. IpInv'
    <2>1. IpInv /\ ipHits' = ipHits /\ admitted["ip"]' = admitted["ip"] /\ late \subseteq late'
      BY <1>1, <1>2, <1>4, <1>5, KeysAssumption DEF LimitsInv, LimitsOK
    <2>2. Times' = Times
      BY DEF Times
    <2>3. ASSUME NEW t \in Times PROVE IsFiniteSet(IpTimes(t)') /\ Cardinality(IpTimes(t)') <= Limit
      <3>1. IpTimes(t)' \subseteq IpTimes(t)
        BY <2>1 DEF IpTimes, InWindow
      <3> QED
        BY <2>1, <3>1, FewerCalls DEF IpInv
    <2>4. IpHitsKept'
      BY <2>1 DEF IpInv, IpHitsKept
    <2> QED
      BY <2>1, <2>2, <2>3, <2>4 DEF IpInv
  <1> QED
    BY <1>3, <1>5, <1>6, <1>7, <1>8 DEF LimitsOK

LEMMA CountIpKeeps ==
    ASSUME LimitsInv, NEW r \in Requests, CountIp(r)
    PROVE  LimitsOK'
  <1>1. PICK at \in Nat : at = job[r].at /\ job[r].limit = "ip"
    BY DEF CountIp, Step, LimitsInv, CountersOK, CountOK
  <1> DEFINE hits == {t \in ipHits : t > at - Window} \cup {at}
  <1>2. /\ ipHits' = hits /\ UNCHANGED keyHits
        /\ Admit(r, Cardinality(hits) <= Limit)
        /\ NoteLate(r, \E t \in ipHits : t > at)
    BY <1>1 DEF CountIp, IsRecent
  <1>3. late' = IF \E t \in ipHits : t > at THEN late \cup {r} ELSE late
    BY <1>2 DEF NoteLate
  <1>4. /\ admitted' = [l \in ApiKeys \cup {"ip"} |-> admitted'[l]]
        /\ \/ admitted["ip"]' = admitted["ip"]
           \/ Cardinality(hits) <= Limit /\ admitted["ip"]' = admitted["ip"] \cup {<<at, r>>}
        /\ \A k \in ApiKeys : admitted[k]' = admitted[k]
    <2>1. admitted' = IF Cardinality(hits) <= Limit
                      THEN [admitted EXCEPT !["ip"] = admitted["ip"] \cup {<<at, r>>}] ELSE admitted
      BY <1>1, <1>2 DEF Admit
    <2>2. admitted = [l \in ApiKeys \cup {"ip"} |-> admitted[l]]
      BY DEF LimitsOK, LimitsInv
    <2> HIDE DEF hits
    <2> QED
      BY <2>1, <2>2, KeysAssumption
  <1>5. IpInv'
    <2>1. IpInv /\ at \in Int
      BY DEF LimitsInv, LimitsOK
    <2>2. ipHits' = {t \in ipHits : t > at - Window} \cup {at}
      BY <1>2
    <2>3. \/ admitted["ip"]' = admitted["ip"]
          \/ Cardinality(ipHits') <= Limit /\ admitted["ip"]' = admitted["ip"] \cup {<<at, r>>}
      BY <1>2, <1>4
    <2> QED
      BY <1>3, <2>1, <2>2, <2>3, CountedIp, Zenon
  <1>6. ASSUME NEW k \in ApiKeys PROVE KeyInv(k)'
    <2>1. KeyInv(k) /\ keyHits[k]' = keyHits[k] /\ admitted[k]' = admitted[k] /\ late \subseteq late'
      BY <1>2, <1>3, <1>4 DEF LimitsInv, LimitsOK
    <2>2. Times' = Times
      BY DEF Times
    <2>3. ASSUME NEW t \in Times PROVE Cardinality(KeyCalls(k, t)') <= Limit
      <3>1. KeyCalls(k, t)' \subseteq KeyCalls(k, t)
        BY <2>1, <2>2 DEF KeyCalls, InWindow
      <3>2. IsFiniteSet(KeyCalls(k, t)) /\ Cardinality(KeyCalls(k, t)) <= Limit
        BY <2>1, FS_Subset DEF KeyInv, KeyCalls
      <3> QED
        BY <3>1, <3>2, FewerCalls
    <2>4. KeyHitsKept(k)'
      BY <2>1 DEF KeyInv, KeyHitsKept
    <2> QED
      BY <2>1, <2>2, <2>3, <2>4 DEF KeyInv
  <1> QED
    BY <1>2, <1>4, <1>5, <1>6 DEF LimitsOK, LimitsInv

LEMMA FailOpenKeeps ==
    ASSUME LimitsInv, NEW r \in Requests, FailOpen(r)
    PROVE  LimitsOK'
  <1>1. PICK l \in ApiKeys \cup {"ip"}, at \in Int : l = job[r].limit /\ at = job[r].at
    BY DEF FailOpen, Step, LimitsInv, CountersOK, CountOK
  <1>2. /\ UNCHANGED <<keyHits, ipHits>>
        /\ admitted' = [admitted EXCEPT ![l] = @ \cup {<<at, r>>}]
        /\ late' = late \cup {r}
    BY <1>1 DEF FailOpen, Admit, NoteLate
  <1> QED
    BY <1>1, <1>2, UncountedCall DEF LimitsInv

LEMMA LimitedCallKeeps ==
    ASSUME LimitsInv, NEW r \in Requests, LimitedCall(r)
    PROVE  LimitsInv'
  <1>1. CountersOK'
    BY LimitsKeepCounters DEF LimitsInv
  <1>2. CASE CountKey(r)
    BY <1>1, <1>2, CountKeyKeeps DEF LimitsInv
  <1>3. CASE CountIp(r)
    BY <1>1, <1>3, CountIpKeeps DEF LimitsInv
  <1>4. CASE FailOpen(r)
    BY <1>1, <1>4, FailOpenKeeps DEF LimitsInv
  <1>5. CASE \/ CreateKey(r) \/ RevokeKey(r) \/ WriteRevoked(r)
             \/ Authenticate(r) \/ Stamp(r) \/ ArriveByIp(r)
    <2>1. UNCHANGED <<keyHits, ipHits, admitted, late>>
      BY <1>5 DEF CreateKey, RevokeKey, WriteRevoked, Authenticate, Stamp, ArriveByIp, limits
    <2> QED
      BY <1>1, <2>1, SameHits DEF LimitsInv
  <1> QED
    BY <1>2, <1>3, <1>4, <1>5 DEF LimitedCall

THEOREM LimitsInvHolds == Spec => []LimitsInv
  <1>1. Init => LimitsInv
    <2> SUFFICES ASSUME Init PROVE LimitsInv
      OBVIOUS
    <2>1. CountersOK
      BY DEF Init, CallsInit, CountersOK, CallsOK, CountOK
    <2>2. ASSUME NEW k \in ApiKeys PROVE KeyInv(k)
      <3>1. keyHits[k] = {} /\ admitted[k] = {}
        BY DEF Init, LimitsInit
      <3>2. \A t \in Times : KeyCalls(k, t) = {}
        BY <3>1 DEF KeyCalls
      <3> QED
        BY <3>1, <3>2, FS_EmptySet, LimitsAssumption DEF KeyInv, KeyHitsKept
    <2>3. IpInv
      <3>1. ipHits = {} /\ admitted["ip"] = {}
        BY DEF Init, LimitsInit
      <3>2. \A t \in Times : IpTimes(t) = {}
        BY <3>1 DEF IpTimes, InWindow
      <3> QED
        BY <3>1, <3>2, FS_EmptySet, LimitsAssumption DEF IpInv, IpHitsKept
    <2>4. keyHits = [k \in ApiKeys |-> keyHits[k]]
          /\ admitted = [l \in ApiKeys \cup {"ip"} |-> admitted[l]]
      BY DEF Init, LimitsInit
    <2> QED
      BY <2>1, <2>2, <2>3, <2>4 DEF LimitsInv, LimitsOK
  <1>2. LimitsInv /\ [Next]_<<parts, shared, used>> => LimitsInv'
    <2> SUFFICES ASSUME LimitsInv, [Next]_<<parts, shared, used>> PROVE LimitsInv'
      OBVIOUS
    <2>1. ASSUME NEW r \in Requests, AccountCall(r), UNCHANGED limits PROVE LimitsInv'
      <3>1. CountersOK'
        BY <2>1, AccountCallsGoOn, CountersElsewhere DEF AccountPlaces, Counting, LimitsInv
      <3> QED
        BY <2>1, <3>1, SameHits DEF LimitsInv, limits
    <2>2. ASSUME NEW r \in Requests, PortalCall(r), UNCHANGED limits PROVE LimitsInv'
      <3>1. CountersOK'
        BY <2>2, PortalCallsGoOn, CountersElsewhere DEF PortalPlaces, Counting, LimitsInv
      <3> QED
        BY <2>2, <3>1, SameHits DEF LimitsInv, limits
    <2>3. ASSUME NEW r \in Requests, LimitedCall(r) PROVE LimitsInv'
      BY <2>3, LimitedCallKeeps
    <2>4. ASSUME NEW r \in Requests, Fail(r), UNCHANGED limits PROVE LimitsInv'
      <3>1. CountersOK'
        BY <2>4, ContinueElsewhere DEF Fail, LimitsInv, Counting
      <3> QED
        BY <2>4, <3>1, SameHits DEF LimitsInv, limits
    <2>5. ASSUME PassTime, UNCHANGED limits PROVE LimitsInv'
      <3>1. CountersOK'
        BY <2>5 DEF PassTime, LimitsInv, CountersOK, CallsOK, CountOK
      <3> QED
        BY <2>5, <3>1, SameHits DEF LimitsInv, limits
    <2>6. ASSUME UNCHANGED <<parts, shared, used>> PROVE LimitsInv'
      <3>1. CountersOK'
        BY <2>6 DEF parts, calls, LimitsInv, CountersOK, CallsOK, CountOK
      <3> QED
        BY <2>6, <3>1, SameHits DEF LimitsInv, parts, limits
    <2> QED
      BY <2>1, <2>2, <2>3, <2>4, <2>5, <2>6 DEF Next, Operation, Other
  <1> QED
    BY <1>1, <1>2, PTL DEF Spec

(* In no window are more calls of a key, or calls of the address at more   *)
(* times, let through than the limit, save those Redis did not count in    *)
(* the order of their times: for any window, limit, keys and calls.        *)
THEOREM LimitsHold == Spec => []LimitHoldsInEveryWindow
  <1>1. LimitsInv => LimitHoldsInEveryWindow
    BY DEF LimitsInv, LimitsOK, KeyInv, IpInv, KeyCalls, IpTimes, LimitHoldsInEveryWindow
  <1> QED
    BY <1>1, LimitsInvHolds, PTL

-----------------------------------------------------------------------------
(* Roles and locations *)

IsPlaced(a) == a.role \in Placed <=> a.location # Nothing
IsRow(u) == u \in Users /\ account[u] \in Account

(* The labels at which a call is about to write an account or a link. *)
Reading == {"countFailure", "clearFailures", "writeSecret", "enable", "disable", "createLink",
            "writeUser", "delete", "markLeft"}
Writing == Reading \cup {"reset", "insertUser"}

ErrandOK(r) ==
    /\ pc[r] \in Reading => IsRow(job[r].user) /\ job[r].seen \in Account /\ IsPlaced(job[r].seen)
    /\ pc[r] = "countFailure" => job[r].ticket \in Nat
    /\ pc[r] = "writeUser" => job[r].asked \in Asked /\ MayUpdate(job[r].seen, job[r].asked)
    /\ pc[r] = "reset" =>
          job[r].ticket \in Requests /\ link[job[r].ticket] \in ResetLink /\ IsRow(job[r].user)
    /\ pc[r] = "insertUser" => /\ job[r].user \in Users /\ job[r].asked \in Asked
                               /\ job[r].asked.role # Nothing
                               /\ job[r].asked.role \in Placed => job[r].asked.location # Nothing

AccountsOK ==
    /\ account = [u \in Users |-> account[u]]
    /\ \A u \in Users : account[u] # Nothing => account[u] \in Account /\ IsPlaced(account[u])

LinksOK ==
    /\ link = [r \in Requests |-> link[r]]
    /\ \A r \in Requests : link[r] # Nothing => link[r] \in ResetLink /\ IsRow(link[r].user)

RolesInv == CallsOK /\ AccountsOK /\ LinksOK /\ \A r \in Requests : ErrandOK(r)

RowsStay ==
    /\ \A u \in Users : account[u] \in Account => account'[u] \in Account
    /\ \A r \in Requests : link[r] \in ResetLink => link'[r] \in ResetLink

LEMMA OthersKeep ==
    ASSUME NEW q \in Requests, ErrandOK(q), pc'[q] = pc[q], job'[q] = job[q], RowsStay
    PROVE  ErrandOK(q)'
  <1>1. \A u : IsRow(u) => IsRow(u)'
    BY DEF RowsStay, IsRow
  <1>2. pc[q] \in Reading => IsRow(job[q].user)' /\ job[q].seen \in Account /\ IsPlaced(job[q].seen)
    BY <1>1 DEF ErrandOK, IsRow
  <1>3. pc[q] = "reset" =>
          job[q].ticket \in Requests /\ link'[job[q].ticket] \in ResetLink /\ IsRow(job[q].user)'
    BY <1>1 DEF ErrandOK, RowsStay, IsRow
  <1>4. Account' = Account /\ Asked' = Asked /\ ResetLink' = ResetLink
    BY DEF Account, Asked, ResetLink
  <1> QED
    BY <1>2, <1>3, <1>4 DEF ErrandOK, IsPlaced, MayUpdate, NextRole, NextLocation, IsRow

(* A call that goes on, and what it has read is right where it goes. *)
LEMMA ContinueKeeps ==
    ASSUME RolesInv, NEW r \in Requests, NEW label, NEW read, Continue(r, label, read),
           AccountsOK', LinksOK', RowsStay,
           ErrandOK(r)'
    PROVE  RolesInv'
  <1>1. CallsOK' /\ \A q \in Requests \ {r} : pc'[q] = pc[q] /\ job'[q] = job[q]
    BY ContinueMoves DEF RolesInv
  <1>2. ASSUME NEW q \in Requests \ {r} PROVE ErrandOK(q)'
    BY <1>1, OthersKeep DEF RolesInv
  <1> QED
    BY <1>1, <1>2 DEF RolesInv

LEMMA ContinueAway ==
    ASSUME RolesInv, NEW r \in Requests, NEW label, NEW read, Continue(r, label, read),
           AccountsOK', LinksOK', RowsStay, label \notin Writing
    PROVE  RolesInv'
  <1>1. pc'[r] = label
    BY ContinueMoves DEF RolesInv
  <1>2. ErrandOK(r)'
    BY <1>1 DEF ErrandOK, Writing, Reading
  <1> QED
    BY <1>2, ContinueKeeps

LEMMA SameRows ==
    ASSUME RolesInv, UNCHANGED <<account, link>>
    PROVE  AccountsOK' /\ LinksOK' /\ RowsStay
  <1>1. Account' = Account /\ ResetLink' = ResetLink
    BY DEF Account, ResetLink
  <1> QED
    BY <1>1 DEF RolesInv, AccountsOK, LinksOK, RowsStay, IsRow, IsPlaced

LEMMA StepAway ==
    ASSUME RolesInv, NEW r \in Requests, NEW from, NEW to, Step(r, from, to),
           UNCHANGED <<account, link>>, to \notin Writing
    PROVE  RolesInv'
  BY SameRows, ContinueAway DEF Step

LEMMA ArriveAway ==
    ASSUME RolesInv, NEW r \in Requests, NEW op, NEW label, NEW read, Arrive(r, op, label, read),
           UNCHANGED <<account, link>>, label \notin Writing
    PROVE  RolesInv'
  BY SameRows, ContinueAway DEF Arrive

(* A call that has found a user and is going to write the row. *)
LEMMA FindUserKeeps ==
    ASSUME RolesInv, NEW r \in Requests, NEW op, NEW u \in Users, NEW ticket, NEW asked, NEW label,
           FindUser(r, op, u, ticket, asked, label),
           label \notin {"reset", "insertUser"},
           label = "countFailure" => ticket \in Nat,
           label = "writeUser" => asked \in Asked /\ MayUpdate(account[u], asked)
    PROVE  RolesInv'
  <1> DEFINE read == Errand(u, account[u], ticket, asked)
             to == IF Exists(u) THEN label ELSE "ended"
  <1>1. UNCHANGED <<account, link>> /\ Continue(r, to, read)
    BY DEF FindUser, Arrive, accounts
  <1>2. AccountsOK' /\ LinksOK' /\ RowsStay
    BY <1>1, SameRows
  <1>3. pc'[r] = to /\ job'[r] = IF to = "ended" THEN Nothing ELSE read
    BY <1>1, ContinueMoves DEF RolesInv
  <1>4. CASE to \notin Writing
    BY <1>1, <1>2, <1>4, ContinueAway
  <1>5. CASE to \in Writing
    <2>1. to = label /\ Exists(u) /\ job'[r] = read
      BY <1>3, <1>5 DEF Writing, Reading
    <2>2. account[u] \in Account /\ IsPlaced(account[u]) /\ account'[u] \in Account
      BY <2>1, <1>2 DEF Exists, RolesInv, AccountsOK, RowsStay
    <2>3. /\ job'[r].user = u /\ job'[r].seen = account[u]
          /\ job'[r].ticket = ticket /\ job'[r].asked = asked
      BY <2>1 DEF Errand
    <2>4. Asked' = Asked /\ Account' = Account
      BY DEF Asked, Account
    <2>5. ErrandOK(r)'
      BY <1>3, <2>1, <2>2, <2>3, <2>4
      DEF ErrandOK, IsRow, IsPlaced, MayUpdate, NextRole, NextLocation, Reading
    <2> QED
      BY <1>1, <1>2, <2>5, ContinueKeeps
  <1> QED
    BY <1>4, <1>5

(* An update of one row by a call that ends or goes on elsewhere. *)
LEMMA UpdateKeeps ==
    ASSUME RolesInv, NEW u \in Users, NEW a \in Account, IsPlaced(a), Update(u, a), UNCHANGED link
    PROVE  AccountsOK' /\ LinksOK' /\ RowsStay
  <1>1. account' = [account EXCEPT ![u] = a]
    BY DEF Update
  <1>2. account' = [v \in Users |-> account'[v]]
        /\ \A v \in Users : account'[v] = IF v = u THEN a ELSE account[v]
    BY <1>1 DEF RolesInv, AccountsOK
  <1>3. Account' = Account /\ ResetLink' = ResetLink
    BY DEF Account, ResetLink
  <1>4. RowsStay
    BY <1>2 DEF RowsStay
  <1>5. AccountsOK'
    BY <1>2, <1>3 DEF RolesInv, AccountsOK, IsPlaced
  <1>6. LinksOK'
    BY <1>3, <1>4 DEF RolesInv, LinksOK, RowsStay, IsRow
  <1> QED
    BY <1>4, <1>5, <1>6

LEMMA StepUpdates ==
    ASSUME RolesInv, NEW r \in Requests, NEW from, NEW to, Step(r, from, to), to \notin Writing,
           NEW u \in Users, NEW a \in Account, IsPlaced(a), Update(u, a), UNCHANGED link
    PROVE  RolesInv'
  BY UpdateKeeps, ContinueAway DEF Step

(* The row that a call is about to update. *)
LEMMA RowOf ==
    ASSUME RolesInv, NEW u, IsRow(u)
    PROVE  u \in Users /\ account[u] \in Account /\ IsPlaced(account[u])
  BY AccountsAssumption DEF RolesInv, AccountsOK, IsRow

LEMMA CountFailureKeeps ==
    ASSUME RolesInv, NEW r \in Requests, CountFailure(r)
    PROVE  RolesInv'
  <1>1. PICK u \in Users : u = job[r].user /\ account[u] \in Account /\ IsPlaced(account[u])
    BY RowOf DEF CountFailure, Step, RolesInv, ErrandOK, Reading
  <1>2. job[r].seen \in Account /\ job[r].ticket \in Nat
    BY DEF CountFailure, Step, RolesInv, ErrandOK, Reading
  <1> DEFINE a == [account[u] EXCEPT
               !.failed = job[r].seen.failed + 1,
               !.lockedUntil = IF IsTooMany(job[r].seen.failed + 1) THEN job[r].ticket + LockTime ELSE 0]
  <1>3. job[r].seen.failed + 1 \in Nat
    BY <1>2 DEF Account
  <1>4. (IF IsTooMany(job[r].seen.failed + 1) THEN job[r].ticket + LockTime ELSE 0) \in Nat
    BY <1>2, AccountsAssumption
  <1>5. a \in Account /\ IsPlaced(a)
    BY <1>1, <1>3, <1>4 DEF Account, IsPlaced
  <1>6. Step(r, "countFailure", "ended") /\ Update(u, a) /\ UNCHANGED link
    BY <1>1 DEF CountFailure
  <1> QED
    BY <1>5, <1>6, StepUpdates DEF Writing, Reading

LEMMA ClearFailuresKeeps ==
    ASSUME RolesInv, NEW r \in Requests, ClearFailures(r)
    PROVE  RolesInv'
  <1>1. PICK u \in Users : u = job[r].user /\ account[u] \in Account /\ IsPlaced(account[u])
    BY RowOf DEF ClearFailures, Step, RolesInv, ErrandOK, Reading
  <1> DEFINE a == [account[u] EXCEPT !.failed = 0, !.lockedUntil = 0]
             to == IF PassesSecondFactor(job[r].seen, job[r].asked) THEN "issue" ELSE "ended"
  <1>2. a \in Account /\ IsPlaced(a)
    BY <1>1 DEF Account, IsPlaced
  <1>3. Step(r, "clearFailures", to) /\ Update(u, a) /\ UNCHANGED link
    BY <1>1 DEF ClearFailures
  <1>4. to \notin Writing
    BY DEF Writing, Reading
  <1> QED
    BY <1>2, <1>3, <1>4, StepUpdates

LEMMA SecondFactorWritesKeep ==
    ASSUME RolesInv, NEW r \in Requests, WriteSecret(r) \/ WriteEnabled(r) \/ WriteDisabled(r)
    PROVE  RolesInv'
  <1>1. PICK u \in Users : u = job[r].user /\ account[u] \in Account /\ IsPlaced(account[u])
    BY RowOf DEF WriteSecret, WriteEnabled, WriteDisabled, Step, RolesInv, ErrandOK, Reading
  <1>2. ASSUME WriteSecret(r) PROVE RolesInv'
    <2>1. [account[u] EXCEPT !.secret = r] \in Account /\ IsPlaced([account[u] EXCEPT !.secret = r])
      BY <1>1 DEF Account, IsPlaced, Tokens
    <2> QED
      BY <1>1, <1>2, <2>1, StepUpdates DEF WriteSecret, Writing, Reading
  <1>3. ASSUME WriteEnabled(r) PROVE RolesInv'
    <2>1. [account[u] EXCEPT !.totp = TRUE] \in Account /\ IsPlaced([account[u] EXCEPT !.totp = TRUE])
      BY <1>1 DEF Account, IsPlaced
    <2> QED
      BY <1>1, <1>3, <2>1, StepUpdates DEF WriteEnabled, Writing, Reading
  <1>4. ASSUME WriteDisabled(r) PROVE RolesInv'
    <2>1. /\ [account[u] EXCEPT !.totp = FALSE, !.secret = Nothing] \in Account
          /\ IsPlaced([account[u] EXCEPT !.totp = FALSE, !.secret = Nothing])
      BY <1>1 DEF Account, IsPlaced
    <2> QED
      BY <1>1, <1>4, <2>1, StepUpdates DEF WriteDisabled, Writing, Reading
  <1> QED
    BY <1>2, <1>3, <1>4

LEMMA PasswordsKeep ==
    ASSUME RolesInv, NEW r \in Requests, Password(r)
    PROVE  RolesInv'
  <1>1. ASSUME ForgotPassword(r) PROVE RolesInv'
    BY <1>1, FindUserKeeps DEF ForgotPassword
  <1>2. ASSUME CreateLink(r) PROVE RolesInv'
    <2>1. PICK u \in Users : u = job[r].user /\ account[u] \in Account
      BY <1>2, RowOf DEF CreateLink, Step, RolesInv, ErrandOK, Reading
    <2> DEFINE new == [user |-> u, expires |-> now + LinkTTL, used |-> FALSE]
    <2>2. new \in ResetLink
      BY AccountsAssumption DEF ResetLink, RolesInv, CallsOK
    <2>3. link' = [link EXCEPT ![r] = new] /\ UNCHANGED account
      BY <1>2, <2>1 DEF CreateLink
    <2> HIDE DEF new
    <2>4. link' = [q \in Requests |-> link'[q]]
          /\ \A q \in Requests : link'[q] = IF q = r THEN new ELSE link[q]
      BY <2>3 DEF RolesInv, LinksOK
    <2>5. Account' = Account /\ ResetLink' = ResetLink
      BY DEF Account, ResetLink
    <2>6. AccountsOK' /\ RowsStay
      BY <2>2, <2>3, <2>4, <2>5 DEF RolesInv, AccountsOK, RowsStay, IsPlaced
    <2>7. LinksOK'
      <3>1. new.user = u
        BY DEF new
      <3> QED
        BY <2>1, <2>2, <2>3, <2>4, <2>5, <3>1 DEF RolesInv, LinksOK, IsRow
    <2> QED
      BY <1>2, <2>6, <2>7, ContinueAway DEF CreateLink, Step, Writing, Reading
  <1>3. ASSUME ResetPassword(r) PROVE RolesInv'
    <2>1. PICK l \in Requests :
              /\ link[l] # Nothing
              /\ Arrive(r, "resetPassword",
                        IF link[l].used \/ link[l].expires <= now THEN "ended" ELSE "reset",
                        Errand(link[l].user, Nothing, l, Nothing))
              /\ UNCHANGED <<account, link>>
      BY <1>3 DEF ResetPassword, accounts
    <2> DEFINE to == IF link[l].used \/ link[l].expires <= now THEN "ended" ELSE "reset"
    <2>2. pc'[r] = to /\ job'[r] = IF to = "ended" THEN Nothing ELSE Errand(link[l].user, Nothing, l, Nothing)
      BY <2>1, ContinueMoves DEF RolesInv, Arrive
    <2>3. link[l] \in ResetLink /\ IsRow(link[l].user) /\ ResetLink' = ResetLink /\ Account' = Account
      BY <2>1 DEF RolesInv, LinksOK, ResetLink, Account
    <2>4. ErrandOK(r)'
      BY <2>1, <2>2, <2>3 DEF ErrandOK, Errand, IsRow, Reading
    <2> QED
      BY <2>1, <2>4, SameRows, ContinueKeeps DEF Arrive
  <1>4. ASSUME WritePassword(r) PROVE RolesInv'
    <2>1. PICK u \in Users, l \in Requests :
              /\ u = job[r].user /\ account[u] \in Account /\ IsPlaced(account[u])
              /\ l = job[r].ticket /\ link[l] \in ResetLink
      BY <1>4, RowOf DEF WritePassword, Step, RolesInv, ErrandOK
    <2> DEFINE a == [account[u] EXCEPT !.password = r, !.failed = 0, !.lockedUntil = 0]
               new == [link[l] EXCEPT !.used = TRUE]
    <2>2. a \in Account /\ IsPlaced(a) /\ new \in ResetLink /\ new.user = link[l].user
      BY <2>1 DEF Account, IsPlaced, ResetLink
    <2>3. account' = [account EXCEPT ![u] = a] /\ link' = [link EXCEPT ![l] = new]
      BY <1>4, <2>1 DEF WritePassword, Update
    <2> HIDE DEF a, new
    <2>4. /\ account' = [v \in Users |-> account'[v]]
          /\ \A v \in Users : account'[v] = IF v = u THEN a ELSE account[v]
      BY <2>3 DEF RolesInv, AccountsOK
    <2>5. /\ link' = [q \in Requests |-> link'[q]]
          /\ \A q \in Requests : link'[q] = IF q = l THEN new ELSE link[q]
      BY <2>3 DEF RolesInv, LinksOK
    <2>6. Account' = Account /\ ResetLink' = ResetLink
      BY DEF Account, ResetLink
    <2>7. RowsStay
      BY <2>2, <2>4, <2>5 DEF RowsStay
    <2>8. AccountsOK'
      BY <2>2, <2>4, <2>6 DEF RolesInv, AccountsOK, IsPlaced
    <2>9. LinksOK'
      <3>1. IsRow(link[l].user)
        BY <2>1, AccountsAssumption DEF RolesInv, LinksOK
      <3> QED
        BY <2>2, <2>4, <2>5, <2>6, <2>7, <3>1 DEF RolesInv, LinksOK, RowsStay, IsRow
    <2> QED
      BY <1>4, <2>7, <2>8, <2>9, ContinueAway DEF WritePassword, Step, Writing, Reading
  <1> QED
    BY <1>1, <1>2, <1>3, <1>4 DEF Password

LEMMA AdministrationKeeps ==
    ASSUME RolesInv, NEW r \in Requests, Administration(r)
    PROVE  RolesInv'
  <1>1. ASSUME CreateUser(r) PROVE RolesInv'
    <2>1. PICK u \in Users, dto \in Asked :
              /\ dto.role # Nothing
              /\ Arrive(r, "createUser",
                        IF account[u] # Nothing \/ (dto.role \in Placed /\ dto.location = Nothing)
                        THEN "ended" ELSE "insertUser",
                        Errand(u, Nothing, Nothing, dto))
              /\ UNCHANGED <<account, link>>
      BY <1>1 DEF CreateUser, accounts
    <2> DEFINE to == IF account[u] # Nothing \/ (dto.role \in Placed /\ dto.location = Nothing)
                     THEN "ended" ELSE "insertUser"
    <2>2. pc'[r] = to /\ job'[r] = IF to = "ended" THEN Nothing ELSE Errand(u, Nothing, Nothing, dto)
      BY <2>1, ContinueMoves DEF RolesInv, Arrive
    <2>3. Asked' = Asked
      BY DEF Asked
    <2>4. ErrandOK(r)'
      BY <2>1, <2>2, <2>3 DEF ErrandOK, Errand, Reading
    <2> HIDE DEF to
    <2>5. Continue(r, to, Errand(u, Nothing, Nothing, dto))
      BY <2>1 DEF Arrive, to
    <2> QED
      BY <2>1, <2>4, <2>5, SameRows, ContinueKeeps
  <1>2. ASSUME InsertUser(r) PROVE RolesInv'
    <2>1. PICK u \in Users, dto \in Asked :
              /\ u = job[r].user /\ dto = job[r].asked
              /\ dto.role # Nothing
              /\ dto.role \in Placed => dto.location # Nothing
      BY <1>2 DEF InsertUser, Step, RolesInv, ErrandOK
    <2> DEFINE a == [role |-> dto.role,
                     location |-> IF dto.role \in Placed THEN dto.location ELSE Nothing,
                     password |-> r, failed |-> 0, lockedUntil |-> 0,
                     totp |-> FALSE, secret |-> Nothing, gone |-> FALSE]
    <2>2. a \in Account /\ IsPlaced(a)
      BY <2>1 DEF Account, Asked, IsPlaced
    <2>3. Step(r, "insertUser", "ended") /\ UNCHANGED link
      BY <1>2 DEF InsertUser
    <2>4. CASE UNCHANGED account
      BY <2>3, <2>4, StepAway DEF Writing, Reading
    <2>5. CASE Update(u, a)
      BY <2>2, <2>3, <2>5, StepUpdates DEF Writing, Reading
    <2> QED
      BY <1>2, <2>1, <2>4, <2>5 DEF InsertUser
  <1>3. ASSUME UpdateUser(r) PROVE RolesInv'
    <2>1. PICK u \in Users, dto \in Asked :
              FindUser(r, "updateUser", u, Nothing, dto,
                       IF MayUpdate(account[u], dto) THEN "writeUser" ELSE "ended")
      BY <1>3 DEF UpdateUser
    <2> DEFINE to == IF MayUpdate(account[u], dto) THEN "writeUser" ELSE "ended"
    <2>2. to \notin {"reset", "insertUser", "countFailure"} /\ (to = "writeUser" => MayUpdate(account[u], dto))
      OBVIOUS
    <2> HIDE DEF to
    <2>3. FindUser(r, "updateUser", u, Nothing, dto, to)
      BY <2>1 DEF to
    <2> QED
      BY <2>2, <2>3, FindUserKeeps
  <1>4. ASSUME WriteUser(r) PROVE RolesInv'
    <2>1. PICK u \in Users, dto \in Asked, seen \in Account :
              /\ u = job[r].user /\ dto = job[r].asked /\ seen = job[r].seen
              /\ account[u] \in Account /\ MayUpdate(seen, dto) /\ IsPlaced(seen)
      BY <1>4, RowOf DEF WriteUser, Step, RolesInv, ErrandOK, Reading
    <2> DEFINE a == [account[u] EXCEPT !.role = NextRole(seen, dto),
                                       !.location = NextLocation(seen, dto)]
    <2>2. NextRole(seen, dto) \in Roles /\ NextLocation(seen, dto) \in Locations \cup {Nothing}
      BY DEF NextRole, NextLocation, Account, Asked
    <2>3. NextRole(seen, dto) \in Placed <=> NextLocation(seen, dto) # Nothing
      BY <2>1 DEF MayUpdate, NextLocation
    <2>4. a \in Account /\ a.role = NextRole(seen, dto) /\ a.location = NextLocation(seen, dto)
      BY <2>1, <2>2 DEF Account
    <2>5. IsPlaced(a)
      BY <2>3, <2>4 DEF IsPlaced
    <2>6. Step(r, "writeUser", "ended") /\ Update(u, a) /\ UNCHANGED link
      BY <1>4, <2>1 DEF WriteUser
    <2> QED
      BY <2>4, <2>5, <2>6, StepUpdates DEF Writing, Reading
  <1>5. ASSUME SoftDelete(r) PROVE RolesInv'
    BY <1>5, FindUserKeeps DEF SoftDelete
  <1>6. ASSUME MarkDeleted(r) PROVE RolesInv'
    <2>1. PICK u \in Users : u = job[r].user /\ account[u] \in Account /\ IsPlaced(account[u])
      BY <1>6, RowOf DEF MarkDeleted, Step, RolesInv, ErrandOK, Reading
    <2>2. [account[u] EXCEPT !.gone = TRUE] \in Account /\ IsPlaced([account[u] EXCEPT !.gone = TRUE])
      BY <2>1 DEF Account, IsPlaced
    <2>3. Update(u, [account[u] EXCEPT !.gone = TRUE]) /\ UNCHANGED link
      BY <1>6, <2>1 DEF MarkDeleted
    <2> QED
      BY <1>6, <2>2, <2>3, StepUpdates DEF MarkDeleted, Writing, Reading
  <1>7. ASSUME RevokeAll(r) PROVE RolesInv'
    <2>1. UNCHANGED <<account, link>>
      BY <1>7 DEF RevokeAll
    <2>2. CASE Step(r, "revokeLeft", "ended")
      BY <2>1, <2>2, StepAway DEF Writing, Reading
    <2>3. CASE Step(r, "delete", "markLeft")
      <3>1. pc[r] = "delete" /\ Continue(r, "markLeft", job[r])
        BY <2>3 DEF Step
      <3>2. pc'[r] = "markLeft" /\ job'[r] = job[r]
        BY <3>1, ContinueMoves DEF RolesInv
      <3>3. IsRow(job[r].user) /\ job[r].seen \in Account /\ IsPlaced(job[r].seen)
        BY <3>1 DEF RolesInv, ErrandOK, Reading
      <3>4. Account' = Account
        BY DEF Account
      <3>5. ErrandOK(r)'
        BY <2>1, <3>2, <3>3, <3>4 DEF ErrandOK, IsRow, IsPlaced
      <3> QED
        BY <2>1, <3>1, <3>5, SameRows, ContinueKeeps
    <2> QED
      BY <1>7, <2>2, <2>3 DEF RevokeAll
  <1> QED
    BY <1>1, <1>2, <1>3, <1>4, <1>5, <1>6, <1>7 DEF Administration

LEMMA SessionsKeep ==
    ASSUME RolesInv, NEW r \in Requests, Session(r)
    PROVE  RolesInv'
  <1>1. ASSUME Login(r) PROVE RolesInv'
    <2>1. PICK u, label, code :
              /\ u \in Users
              /\ label \in {"ended", "clearFailures", "countFailure"}
              /\ FindUser(r, "login", u, now, code, label)
      BY <1>1 DEF Login
    <2> QED
      BY <2>1, FindUserKeeps DEF RolesInv, CallsOK
  <1>2. ASSUME CountFailure(r) PROVE RolesInv'
    BY <1>2, CountFailureKeeps
  <1>3. ASSUME ClearFailures(r) PROVE RolesInv'
    BY <1>3, ClearFailuresKeeps
  <1>4. ASSUME Refresh(r) PROVE RolesInv'
    <2>1. PICK u, t, to : FindUser(r, "refresh", u, t, Nothing, to) /\ to \in {"record", "ended"}
      BY <1>4 DEF Refresh
    <2>2. PICK read, label : /\ Arrive(r, "refresh", label, read)
                            /\ label \in {"record", "ended"} /\ UNCHANGED <<account, link>>
      BY <2>1 DEF FindUser, accounts
    <2> QED
      BY <2>2, ArriveAway DEF Writing, Reading
  <1>5. ASSUME Logout(r) PROVE RolesInv'
    BY <1>5, ArriveAway DEF Logout, Writing, Reading
  <1>6. ASSUME SwitchTenant(r) PROVE RolesInv'
    <2>1. PICK u, t, tenant, to :
              FindUser(r, "switchTenant", u, t, tenant, to) /\ to \in {"issueSwitched", "ended"}
      BY <1>6 DEF SwitchTenant
    <2>2. PICK read, label : /\ Arrive(r, "switchTenant", label, read)
                            /\ label \in {"issueSwitched", "ended"} /\ UNCHANGED <<account, link>>
      BY <2>1 DEF FindUser, accounts
    <2> QED
      BY <2>2, ArriveAway DEF Writing, Reading
  <1>7. ASSUME Issue(r) \/ ReadRecord(r) \/ Rotate(r) \/ IssueNext(r) \/ IssueSwitched(r)
        PROVE  RolesInv'
    <2>1. PICK from, to : Step(r, from, to) /\ to \in {"rotate", "issueNext", "ended"}
      BY <1>7 DEF Issue, ReadRecord, Rotate, IssueNext, IssueSwitched
    <2>2. UNCHANGED <<account, link>>
      BY <1>7 DEF Issue, ReadRecord, Rotate, IssueNext, IssueSwitched, accounts
    <2> QED
      BY <2>1, <2>2, StepAway DEF Writing, Reading
  <1> QED
    BY <1>1, <1>2, <1>3, <1>4, <1>5, <1>6, <1>7 DEF Session

LEMMA SecondFactorKeeps ==
    ASSUME RolesInv, NEW r \in Requests, SecondFactor(r)
    PROVE  RolesInv'
  <1>1. ASSUME Setup2fa(r) PROVE RolesInv'
    BY <1>1, FindUserKeeps DEF Setup2fa
  <1>2. ASSUME Enable2fa(r) PROVE RolesInv'
    BY <1>2, FindUserKeeps DEF Enable2fa
  <1>3. ASSUME Disable2fa(r) PROVE RolesInv'
    BY <1>3, FindUserKeeps DEF Disable2fa
  <1> QED
    BY <1>1, <1>2, <1>3, SecondFactorWritesKeep DEF SecondFactor

LEMMA OtherCallsKeep ==
    ASSUME RolesInv, NEW r \in Requests, PortalCall(r) \/ LimitedCall(r) \/ Fail(r),
           UNCHANGED accounts
    PROVE  RolesInv'
  <1>1. PICK label, read : label \notin Writing /\ Continue(r, label, read)
    <2>1. PICK places : GoesOn(r, places) /\ places \in {PortalPlaces, LimitPlaces, {"ended"}}
      BY PortalCallsGoOn, LimitedCallsGoOn, FailGoesOn
    <2> QED
      BY <2>1 DEF GoesOn, PortalPlaces, LimitPlaces, Writing, Reading
  <1> QED
    BY <1>1, SameRows, ContinueAway DEF accounts

LEMMA RolesInit == Init => RolesInv
  <1> SUFFICES ASSUME Init PROVE RolesInv
    OBVIOUS
  <1>1. CallsOK /\ \A r \in Requests : ErrandOK(r)
    BY DEF Init, CallsInit, CallsOK, ErrandOK, Reading
  <1>2. AccountsOK
    BY AccountsAssumption DEF Init, AccountsInit, AccountsOK, IsPlaced, IsSound
  <1>3. LinksOK
    BY DEF Init, AccountsInit, LinksOK
  <1> QED
    BY <1>1, <1>2, <1>3 DEF RolesInv

THEOREM RolesInvHolds == Spec => []RolesInv
  <1>1. Init => RolesInv
    BY RolesInit
  <1>2. RolesInv /\ [Next]_<<parts, shared, used>> => RolesInv'
    <2> SUFFICES ASSUME RolesInv, [Next]_<<parts, shared, used>> PROVE RolesInv'
      OBVIOUS
    <2>1. ASSUME NEW r \in Requests, AccountCall(r) PROVE RolesInv'
      BY <2>1, SessionsKeep, SecondFactorKeeps, PasswordsKeep, AdministrationKeeps DEF AccountCall
    <2>2. ASSUME NEW r \in Requests, PortalCall(r) \/ LimitedCall(r) \/ Fail(r), UNCHANGED accounts
          PROVE  RolesInv'
      BY <2>2, OtherCallsKeep
    <2>3. ASSUME PassTime, UNCHANGED accounts PROVE RolesInv'
      <3>1. AccountsOK' /\ LinksOK' /\ RowsStay
        BY <2>3, SameRows DEF accounts
      <3>2. CallsOK' /\ UNCHANGED <<pc, job>>
        BY <2>3 DEF PassTime, RolesInv, CallsOK
      <3>3. \A q \in Requests : ErrandOK(q)'
        BY <3>1, <3>2, OthersKeep DEF RolesInv
      <3> QED
        BY <3>1, <3>2, <3>3 DEF RolesInv
    <2>4. ASSUME UNCHANGED <<parts, shared, used>> PROVE RolesInv'
      <3>1. AccountsOK' /\ LinksOK' /\ RowsStay
        BY <2>4, SameRows DEF parts, accounts
      <3>2. CallsOK' /\ UNCHANGED <<pc, job>>
        BY <2>4 DEF parts, calls, RolesInv, CallsOK
      <3>3. \A q \in Requests : ErrandOK(q)'
        BY <3>1, <3>2, OthersKeep DEF RolesInv
      <3> QED
        BY <3>1, <3>2, <3>3 DEF RolesInv
    <2> QED
      BY <2>1, <2>2, <2>3, <2>4 DEF Next, Operation, Other
  <1> QED
    BY <1>1, <1>2, PTL DEF Spec

(* A user has a location if and only if the role asks for one, though      *)
(* updates decide by a row they have read before: for any number of users, *)
(* locations and calls.                                                    *)
THEOREM RolesAgree == Spec => []PlacedByRole
  <1>1. RolesInv => PlacedByRole
    BY DEF RolesInv, AccountsOK, IsPlaced, PlacedByRole
  <1> QED
    BY <1>1, RolesInvHolds, PTL

-----------------------------------------------------------------------------
(* The portal *)

(* What a call knows of the guardian's row it has read; a token that is in *)
(* a row was put there by a call that has ended.                           *)
IsMade(t) == t = Nothing \/ (t \in Requests /\ pc[t] = "ended")

HasReadPortal(r) ==
    pc[r] \in {"mint", "clear", "ensure"} =>
        /\ job[r] \in Portals /\ IsMade(job[r].token)
        /\ pc[r] = "clear" => job[r].token # Nothing

PortalOK == PortalTypeOK /\ IsMade(portal.token) /\ \A r \in Requests : HasReadPortal(r)

PortalInv == CallsOK /\ PortalOK /\ NewestLinkOpens

(* Whoever has ended stays so. *)
LEMMA MadeStays ==
    ASSUME CallsOK, NEW r \in Requests, NEW label, NEW read, pc[r] # "ended",
           Continue(r, label, read), NEW t, IsMade(t)
    PROVE  IsMade(t)' /\ t # r
  BY ContinueMoves, NothingAssumption DEF IsMade

LEMMA PortalElsewhere ==
    ASSUME PortalInv, NEW r \in Requests, NEW places, GoesOn(r, places),
           places \cap {"mint", "clear", "ensure"} = {}, UNCHANGED guardian
    PROVE  PortalInv'
  <1>1. PICK label, read : label \in places /\ pc[r] # "ended" /\ Continue(r, label, read)
    BY DEF GoesOn
  <1>2. CallsOK' /\ pc'[r] = label /\ \A q \in Requests \ {r} : pc'[q] = pc[q] /\ job'[q] = job[q]
    BY <1>1, ContinueMoves DEF PortalInv
  <1>3. \A t : IsMade(t) => IsMade(t)'
    BY <1>1, MadeStays DEF PortalInv
  <1>4. \A q \in Requests : HasReadPortal(q)'
    BY <1>1, <1>2, <1>3 DEF PortalInv, PortalOK, HasReadPortal, Portals
  <1>5. PortalTypeOK' /\ IsMade(portal.token)'
    BY <1>3 DEF PortalInv, PortalOK, PortalTypeOK, guardian, Portals
  <1> QED
    BY <1>2, <1>4, <1>5 DEF PortalOK, PortalInv, guardian, NewestLinkOpens, ShowsPortal

LEMMA FindGuardianKeeps ==
    ASSUME PortalInv, NEW r \in Requests, NEW op, NEW label, FindGuardian(r, op, label),
           label = "clear" => portal.token # Nothing
    PROVE  PortalInv'
  <1>1. pc[r] # "ended" /\ Continue(r, label, portal) /\ UNCHANGED guardian
    BY DEF FindGuardian, Arrive
  <1>2. /\ CallsOK' /\ pc'[r] = label /\ job'[r] = IF label = "ended" THEN Nothing ELSE portal
        /\ \A q \in Requests \ {r} : pc'[q] = pc[q] /\ job'[q] = job[q]
    BY <1>1, ContinueMoves DEF PortalInv
  <1>3. \A t : IsMade(t) => IsMade(t)'
    BY <1>1, MadeStays DEF PortalInv
  <1>4. PortalOK'
    BY <1>1, <1>2, <1>3 DEF PortalInv, PortalOK, PortalTypeOK, HasReadPortal, guardian, Portals
  <1> QED
    BY <1>1, <1>2, <1>4 DEF PortalInv, guardian, NewestLinkOpens, ShowsPortal

(* The three updates of the column. *)
LEMMA PortalWritesKeep ==
    ASSUME PortalInv, NEW r \in Requests, MintMagic(r) \/ ClearToken(r) \/ EnsurePortalToken(r)
    PROVE  PortalInv'
  <1>1. pc[r] # "ended" /\ pc[r] \in {"mint", "clear", "ensure"} /\ Continue(r, "ended", job[r])
    BY DEF MintMagic, ClearToken, EnsurePortalToken, Step
  <1>2. CallsOK' /\ pc'[r] = "ended" /\ \A q \in Requests \ {r} : pc'[q] = pc[q] /\ job'[q] = job[q]
    BY <1>1, ContinueMoves DEF PortalInv
  <1>3. \A t : IsMade(t) => IsMade(t)' /\ t # r
    BY <1>1, MadeStays DEF PortalInv
  <1>4. IsMade(r)' /\ r # Nothing /\ IsMade(Nothing)' /\ Portals' = Portals
    BY <1>2, NothingAssumption DEF IsMade, Portals
  <1>5. job[r] \in Portals /\ IsMade(job[r].token) /\ (pc[r] = "clear" => job[r].token \in Requests)
    BY <1>1 DEF PortalInv, PortalOK, PortalTypeOK, HasReadPortal, IsMade
  <1>6. \A q \in Requests : HasReadPortal(q)'
    BY <1>2, <1>3, <1>4 DEF PortalInv, PortalOK, PortalTypeOK, HasReadPortal
  <1>7. \A ttl \in {MagicTTL, YearTTL} : [token |-> r, expires |-> now + ttl] \in Portals
    BY PortalAssumption DEF Portals, PortalInv, CallsOK
  <1>8. ASSUME MintMagic(r) PROVE PortalInv'
    <2>1. portal' = [token |-> r, expires |-> now + MagicTTL] /\ newest' = r /\ UNCHANGED <<spent, unaware>>
      BY <1>8 DEF MintMagic
    <2>2. PortalOK'
      BY <2>1, <1>4, <1>6, <1>7 DEF PortalInv, PortalOK, PortalTypeOK, HasReadPortal, PortalTypeOK
    <2>3. NewestLinkOpens'
      BY <2>1, <1>4 DEF NewestLinkOpens, ShowsPortal
    <2> QED
      BY <1>2, <2>2, <2>3 DEF PortalInv
  <1>9. ASSUME ClearToken(r) PROVE PortalInv'
    <2>1. /\ portal' = NoToken /\ spent' = spent \cup {job[r].token} /\ newest' = newest
          /\ unaware' = IF job[r] = portal THEN unaware ELSE unaware \cup {portal.token}
          /\ pc[r] = "clear"
      BY <1>9 DEF ClearToken, Note, Step
    <2>2. NoToken \in Portals /\ NoToken.token = Nothing
      BY DEF NoToken, Portals
    <2>3. PortalOK'
      <3>1. portal.token \in Requests \cup {Nothing}
        BY DEF PortalInv, PortalOK, PortalTypeOK, HasReadPortal, Portals
      <3> QED
        BY <2>1, <2>2, <3>1, <1>4, <1>5, <1>6 DEF PortalInv, PortalOK, PortalTypeOK, HasReadPortal, PortalTypeOK
    <2>4. NewestLinkOpens'
      BY <2>1 DEF PortalInv, NewestLinkOpens, ShowsPortal
    <2> QED
      BY <1>2, <2>3, <2>4 DEF PortalInv
  <1>10. ASSUME EnsurePortalToken(r) PROVE PortalInv'
    <2>1. CASE HasToken(job[r])
      <3>1. /\ portal' = portal /\ newest' = job[r].token /\ spent' = spent
            /\ unaware' = IF job[r] = portal THEN unaware ELSE unaware \cup ({job[r].token} \ {r})
        BY <1>10, <2>1 DEF EnsurePortalToken, Note
      <3>2. job[r].token # r /\ job[r].token # Nothing /\ job[r].token \in Requests
        BY <1>3, <1>5, <2>1 DEF HasToken, IsMade
      <3>3. PortalOK'
        BY <3>1, <3>2, <1>3, <1>4, <1>6 DEF PortalInv, PortalOK, PortalTypeOK, HasReadPortal, PortalTypeOK
      <3>4. NewestLinkOpens'
        BY <3>1, <3>2 DEF PortalInv, NewestLinkOpens, ShowsPortal
      <3> QED
        BY <1>2, <3>3, <3>4 DEF PortalInv
    <2>2. CASE ~HasToken(job[r])
      <3>1. /\ portal' = [token |-> r, expires |-> now + YearTTL] /\ newest' = r /\ spent' = spent
            /\ unaware' = unaware
        BY <1>10, <2>2 DEF EnsurePortalToken, Note
      <3>2. PortalOK'
        BY <3>1, <1>4, <1>6, <1>7 DEF PortalInv, PortalOK, PortalTypeOK, HasReadPortal, PortalTypeOK
      <3>3. NewestLinkOpens'
        BY <3>1, <1>4 DEF NewestLinkOpens, ShowsPortal
      <3> QED
        BY <1>2, <3>2, <3>3 DEF PortalInv
    <2> QED
      BY <2>1, <2>2
  <1> QED
    BY <1>8, <1>9, <1>10

LEMMA PortalCallKeeps ==
    ASSUME PortalInv, NEW r \in Requests, PortalCall(r)
    PROVE  PortalInv'
  <1>1. ASSUME RequestLink(r) \/ SendPaymentLink(r) PROVE PortalInv'
    BY <1>1, FindGuardianKeeps DEF RequestLink, SendPaymentLink
  <1>2. ASSUME VerifyLink(r) PROVE PortalInv'
    <2>1. PICK label : FindGuardian(r, "verifyLink", label) /\ (label = "clear" => portal.token \in Requests)
      BY <1>2 DEF VerifyLink
    <2> QED
      BY <2>1, FindGuardianKeeps, NothingAssumption
  <1> QED
    BY <1>1, <1>2, PortalWritesKeep DEF PortalCall

THEOREM PortalInvHolds == Spec => []PortalInv
  <1>1. Init => PortalInv
    BY DEF Init, CallsInit, PortalInit, PortalInv, CallsOK, PortalOK, PortalTypeOK,
    HasReadPortal, IsMade, NoToken, Portals, NewestLinkOpens
  <1>2. PortalInv /\ [Next]_<<parts, shared, used>> => PortalInv'
    <2> SUFFICES ASSUME PortalInv, [Next]_<<parts, shared, used>> PROVE PortalInv'
      OBVIOUS
    <2>1. ASSUME NEW r \in Requests, AccountCall(r), UNCHANGED guardian PROVE PortalInv'
      BY <2>1, AccountCallsGoOn, PortalElsewhere DEF AccountPlaces
    <2>2. ASSUME NEW r \in Requests, LimitedCall(r), UNCHANGED guardian PROVE PortalInv'
      BY <2>2, LimitedCallsGoOn, PortalElsewhere DEF LimitPlaces
    <2>3. ASSUME NEW r \in Requests, Fail(r), UNCHANGED guardian PROVE PortalInv'
      BY <2>3, FailGoesOn, PortalElsewhere
    <2>4. ASSUME UNCHANGED <<pc, job, guardian>>, now' \in Nat PROVE PortalInv'
      <3>1. \A t : IsMade(t)' <=> IsMade(t)
        BY <2>4 DEF IsMade
      <3>2. CallsOK' /\ PortalOK'
        BY <2>4, <3>1 DEF PortalInv, CallsOK, PortalOK, PortalTypeOK, HasReadPortal, guardian, Portals
      <3> QED
        BY <2>4, <3>2 DEF PortalInv, guardian, NewestLinkOpens, ShowsPortal
    <2>5. ASSUME PassTime, UNCHANGED guardian PROVE PortalInv'
      BY <2>4, <2>5 DEF PassTime, PortalInv, CallsOK
    <2>6. ASSUME UNCHANGED <<parts, shared, used>> PROVE PortalInv'
      BY <2>4, <2>6 DEF parts, calls, PortalInv, CallsOK
    <2> QED
      BY <2>1, <2>2, <2>3, <2>5, <2>6, PortalCallKeeps DEF Next, Operation, Other
  <1> QED
    BY <1>1, <1>2, PTL DEF Spec

(* The link made last opens the portal until it has signed in, whatever    *)
(* links are asked for, used and sent at once, unless a call has written   *)
(* or handed out what it had read before another wrote.                    *)
THEOREM NewestLinkWorks == Spec => []NewestLinkOpens
  <1>1. PortalInv => NewestLinkOpens
    BY DEF PortalInv
  <1> QED
    BY <1>1, PortalInvHolds, PTL

-----------------------------------------------------------------------------
(* Sessions, the second factor and wrong passwords *)

(* A call that refreshes, or opens a session in another tenant, has found  *)
(* the token that it goes by.                                              *)
IsRefreshed(r) ==
    LET t == job[r].ticket IN
    /\ t \in Tokens /\ token[t] \in RefreshToken
    /\ token[t].user = job[r].user /\ token[t].tenant = "home"

(* What a call decides by is still so. *)
IsFresh(r) ==
    LET u == job[r].user IN
    /\ pc[r] \in {"countFailure", "clearFailures", "writeSecret", "enable"} => job[r].seen = account[u]
    /\ pc[r] = "issue" => job[r].seen.password = account[u].password
    /\ pc[r] \in {"rotate", "issueNext"} =>
          LET t == token[job[r].ticket] IN t.behind \/ t.under = account[u].password

DecisionOK(r) ==
    /\ pc[r] \in Deciding => IsRow(job[r].user) /\ job[r].seen \in Account
    /\ pc[r] \in {"record", "rotate", "issueNext", "issueSwitched"} => IsRefreshed(r)
    /\ pc[r] = "issueSwitched" => job[r].asked \in Tenants
    /\ pc[r] = "writeSecret" => ~job[r].seen.totp
    /\ pc[r] = "enable" => job[r].seen.secret # Nothing
    /\ IF r \in stale THEN pc[r] \in Deciding ELSE IsFresh(r)

TokensOK ==
    /\ token = [t \in Tokens |-> token[t]]
    /\ \A t \in Tokens : token[t] # Nothing => token[t] \in RefreshToken /\ IsRow(token[t].user)
    /\ \A r \in Requests : pc[r] # "ended" => token[r] = Nothing /\ link[r] = Nothing

HistoriesOK ==
    /\ wrong \in [Users -> Nat] /\ proven \subseteq Tokens
    /\ stale \subseteq Requests /\ crossed \subseteq Users
    /\ \A u \in Users : account[u] = Nothing => wrong[u] = 0

IsCounted(u) ==
    Exists(u) => /\ account[u].failed = wrong[u]
                 /\ wrong[u] >= MaxFailed <=> account[u].lockedUntil # 0
IsProtected(u) ==
    Exists(u) /\ account[u].totp => account[u].secret # Nothing /\ account[u].secret \in proven
IsCurrent(t) ==
    IsLive(t) /\ token[t].tenant = "home" /\ ~token[t].behind =>
        token[t].under = account[token[t].user].password

UsersOK == \A u \in Users \ crossed : IsCounted(u) /\ IsProtected(u)
CurrentOK == \A t \in Tokens : IsCurrent(t)

SessionsInv ==
    /\ RolesInv
    /\ TokensOK /\ HistoriesOK /\ UsersOK /\ CurrentOK
    /\ \A r \in Requests : DecisionOK(r)

RowsKept == \A u \in Users : account[u] \in Account => account'[u] \in Account
PasswordsKept ==
    \A u \in Users : account[u] \in Account =>
        account'[u] \in Account /\ account'[u].password = account[u].password
TokensKept ==
    \A t \in Tokens : token[t] \in RefreshToken =>
        /\ token'[t] \in RefreshToken
        /\ token'[t].user = token[t].user /\ token'[t].tenant = token[t].tenant
        /\ token'[t].under = token[t].under /\ token'[t].behind = token[t].behind

LEMMA SameSets == Account' = Account /\ RefreshToken' = RefreshToken /\ Tokens' = Tokens
  BY DEF Account, RefreshToken, Tokens

LEMMA CrossedGrows == ASSUME NoteStale PROVE crossed \subseteq crossed'
  BY DEF NoteStale

(* A stale call that writes an account crosses its user. *)
LEMMA StaleCrosses ==
    ASSUME NoteStale, NEW r \in stale, pc'[r] # pc[r],
           ~UNCHANGED <<account, wrong, proven>>
    PROVE  job[r].user \in crossed'
  BY DEF NoteStale, accountHistory

(* The calls that wait while another moves. *)
LEMMA OthersDecide ==
    ASSUME NEW q \in Requests, DecisionOK(q), pc'[q] = pc[q], job'[q] = job[q],
           RowsKept, TokensKept, NoteStale
    PROVE  DecisionOK(q)'
  <1>1. CASE pc[q] \in Deciding
    <2>1. q \in Busy \cap Busy'
      BY <1>1 DEF Deciding, Busy
    <2>2. q \notin stale' => q \notin stale /\ account'[job[q].user] = account[job[q].user]
      BY <1>1, <2>1 DEF NoteStale
    <2>3. IsRow(job[q].user) /\ IsRow(job[q].user)'
      BY <1>1 DEF DecisionOK, IsRow, RowsKept, Account
    <2>4. pc[q] \in {"record", "rotate", "issueNext", "issueSwitched"} => IsRefreshed(q) /\ IsRefreshed(q)'
      BY SameSets DEF DecisionOK, IsRefreshed, TokensKept
    <2>5. q \notin stale' => IsFresh(q)'
      BY <2>2, <2>4, CrossedGrows DEF DecisionOK, IsFresh, IsRefreshed, TokensKept
    <2> QED
      BY <1>1, <2>1, <2>3, <2>4, <2>5, SameSets DEF DecisionOK
  <1>2. CASE pc[q] \notin Deciding
    <2>1. q \notin stale'
      BY <1>2 DEF NoteStale
    <2> QED
      BY <1>2, <2>1 DEF DecisionOK, Deciding, IsFresh
  <1> QED
    BY <1>1, <1>2

(* One call moves: what is left to show of it. *)
LEMMA SessionsMove ==
    ASSUME SessionsInv, RolesInv', NEW r \in Requests, NEW label, NEW read, Continue(r, label, read),
           NoteStale, RowsKept, TokensKept,
           TokensOK', HistoriesOK', UsersOK', CurrentOK', DecisionOK(r)'
    PROVE  SessionsInv'
  <1>1. \A q \in Requests \ {r} : pc'[q] = pc[q] /\ job'[q] = job[q]
    BY ContinueMoves DEF SessionsInv, RolesInv
  <1>2. ASSUME NEW q \in Requests \ {r} PROVE DecisionOK(q)'
    BY <1>1, OthersDecide DEF SessionsInv
  <1> QED
    BY <1>2 DEF SessionsInv

(* It goes where nothing is decided by what it has read. *)
LEMMA UndecidedMove ==
    ASSUME NEW r \in Requests, NoteStale, pc'[r] \notin Deciding,
           pc[r] \in Deciding => pc'[r] = "ended"
    PROVE  DecisionOK(r)'
  <1>1. r \notin stale'
    BY DEF NoteStale, Busy
  <1> QED
    BY <1>1 DEF DecisionOK, Deciding, IsFresh

LEMMA HistoriesMove ==
    ASSUME SessionsInv, NoteStale, wrong' \in [Users -> Nat], proven' \subseteq Tokens,
           \A u \in Users : account'[u] = Nothing => wrong'[u] = 0
    PROVE  HistoriesOK'
  <1>1. stale' \subseteq Requests
    BY DEF NoteStale, Busy
  <1>2. crossed' \subseteq Users
    BY DEF NoteStale, SessionsInv, HistoriesOK, DecisionOK, IsRow
  <1> QED
    BY <1>1, <1>2, SameSets DEF HistoriesOK

(* A step that leaves the accounts alone. *)
LEMMA SameAccounts ==
    ASSUME SessionsInv, NoteStale, UNCHANGED <<account, wrong, proven>>
    PROVE  RowsKept /\ PasswordsKept /\ HistoriesOK' /\ UsersOK'
  <1>1. HistoriesOK'
    BY HistoriesMove DEF SessionsInv, HistoriesOK
  <1>2. UsersOK'
    BY CrossedGrows DEF SessionsInv, UsersOK, IsCounted, IsProtected, Exists
  <1> QED
    BY <1>1, <1>2 DEF RowsKept, PasswordsKept

(* What a row has to be once a call has written it, w wrong passwords on. *)
IsFine(a, w, secrets) ==
    a.gone \/ /\ a.failed = w
              /\ w >= MaxFailed <=> a.lockedUntil # 0
              /\ a.totp => a.secret # Nothing /\ a.secret \in secrets

LEMMA FineRows ==
    ASSUME SessionsInv, NEW u \in Users \ crossed, account[u] \in Account
    PROVE  IsFine(account[u], wrong[u], proven)
  <1>1. account[u].gone \/ Exists(u)
    BY AccountsAssumption DEF Exists
  <1>2. IsCounted(u) /\ IsProtected(u)
    BY DEF SessionsInv, UsersOK
  <1> QED
    BY <1>1, <1>2 DEF IsCounted, IsProtected, IsFine

(* A call writes the row of its user. *)
LEMMA WriteKeepsUsers ==
    ASSUME SessionsInv, NoteStale, NEW r \in Requests, pc'[r] # pc[r],
           NEW u \in Users, u = job[r].user,
           NEW a \in Account, Update(u, a),
           NEW w \in Nat, wrong' = [wrong EXCEPT ![u] = w],
           proven \subseteq proven', proven' \subseteq Tokens,
           r \notin stale /\ u \notin crossed => IsFine(a, w, proven')
    PROVE  RowsKept /\ HistoriesOK' /\ UsersOK'
  <1>1. /\ account' = [v \in Users |-> account'[v]]
        /\ \A v \in Users : account'[v] = IF v = u THEN a ELSE account[v]
        /\ \A v \in Users : wrong'[v] = IF v = u THEN w ELSE wrong[v]
        /\ wrong' \in [Users -> Nat]
    BY DEF Update, SessionsInv, RolesInv, AccountsOK, HistoriesOK
  <1>2. RowsKept
    BY <1>1 DEF RowsKept
  <1>3. HistoriesOK'
    <2>1. \A v \in Users : account'[v] = Nothing => wrong'[v] = 0
      BY <1>1, AccountsAssumption DEF SessionsInv, HistoriesOK
    <2> QED
      BY <1>1, <2>1, HistoriesMove
  <1>4. CASE UNCHANGED <<account, wrong, proven>>
    BY <1>2, <1>4, SameAccounts
  <1>5. CASE ~UNCHANGED <<account, wrong, proven>>
    <2> SUFFICES ASSUME NEW v \in Users, v \notin crossed' PROVE IsCounted(v)' /\ IsProtected(v)'
      BY <1>2, <1>3 DEF UsersOK
    <2>1. v \notin crossed
      BY CrossedGrows
    <2>2. CASE v = u
      <3>1. IsFine(a, w, proven')
        BY <1>5, <2>1, <2>2, StaleCrosses
      <3>2. account'[v] = a /\ wrong'[v] = w
        BY <1>1, <2>2
      <3> QED
        BY <3>1, <3>2 DEF IsFine, IsCounted, IsProtected, Exists
    <2>3. CASE v # u
      BY <1>1, <2>1, <2>3 DEF SessionsInv, UsersOK, IsCounted, IsProtected, Exists
    <2> QED
      BY <2>2, <2>3
  <1> QED
    BY <1>2, <1>3, <1>4, <1>5

LEMMA UpdateKeepsPasswords ==
    ASSUME SessionsInv, NEW u \in Users, NEW a \in Account, Update(u, a),
           account[u] \in Account => a.password = account[u].password
    PROVE  PasswordsKept
  BY DEF Update, SessionsInv, RolesInv, AccountsOK, PasswordsKept

-----------------------------------------------------------------------------
(* The tokens *)

(* A token that is issued by r. *)
IsIssued(t, r) ==
    /\ t \in RefreshToken /\ IsRow(t.user)
    /\ t.tenant = "home" /\ ~t.behind => t.under = account[t.user].password

(* What a step makes of a token. *)
TokenMove(t, r) ==
    \/ token'[t] = token[t]
    \/ token[t] \in RefreshToken /\ token'[t] = [token[t] EXCEPT !.revoked = TRUE]
    \/ t = r /\ pc[r] # "ended" /\ pc'[r] = "ended" /\ IsIssued(token'[t], r)

LEMMA TokensMove ==
    ASSUME SessionsInv, NoteStale, NEW r \in Requests, NEW label, NEW read, Continue(r, label, read),
           pc[r] # "ended", RowsKept,
           token' = [t \in Tokens |-> token'[t]], \A t \in Tokens : TokenMove(t, r),
           \A q \in Requests : link'[q] = link[q] \/ pc'[q] = "ended"
    PROVE  TokensKept /\ TokensOK' /\ (PasswordsKept => CurrentOK')
  <1>1. pc'[r] = label /\ \A q \in Requests \ {r} : pc'[q] = pc[q]
    BY ContinueMoves DEF SessionsInv, RolesInv
  <1>2. \A t \in RefreshToken : LET s == [t EXCEPT !.revoked = TRUE] IN
            /\ s \in RefreshToken /\ s.user = t.user /\ s.tenant = t.tenant
            /\ s.under = t.under /\ s.behind = t.behind /\ s.revoked
    BY DEF RefreshToken
  <1>3. r \in Tokens /\ token[r] = Nothing
    BY DEF SessionsInv, TokensOK, Tokens
  <1>4. TokensKept
    <2> SUFFICES ASSUME NEW t \in Tokens, token[t] \in RefreshToken
                 PROVE  /\ token'[t] \in RefreshToken
                        /\ token'[t].user = token[t].user /\ token'[t].tenant = token[t].tenant
                        /\ token'[t].under = token[t].under /\ token'[t].behind = token[t].behind
      BY DEF TokensKept
    <2>1. t # r
      BY <1>3, AccountsAssumption
    <2> QED
      BY <1>2, <2>1 DEF TokenMove
  <1>5. TokensOK'
    <2>1. ASSUME NEW t \in Tokens, token'[t] # Nothing
          PROVE  token'[t] \in RefreshToken /\ IsRow(token[t].user)'
      <3>1. CASE token[t] \in RefreshToken
        <4>1. IsRow(token[t].user)
          BY <3>1, AccountsAssumption DEF SessionsInv, TokensOK
        <4> QED
          BY <3>1, <4>1, <1>4, SameSets DEF TokensKept, IsRow, RowsKept
      <3>2. CASE token[t] \notin RefreshToken
        <4>1. token[t] = Nothing /\ IsIssued(token'[t], r)
          BY <2>1, <3>2 DEF SessionsInv, TokensOK, TokenMove
        <4> QED
          BY <4>1, SameSets DEF IsIssued, IsRow, RowsKept
      <3> QED
        BY <3>1, <3>2
    <2>2. ASSUME NEW q \in Requests, pc'[q] # "ended" PROVE token'[q] = Nothing /\ link'[q] = Nothing
      <3>1. pc[q] # "ended"
        BY <1>1, <2>2
      <3>2. token[q] = Nothing /\ link[q] = Nothing /\ q \in Tokens
        BY <3>1 DEF SessionsInv, TokensOK, Tokens
      <3> QED
        BY <1>1, <2>2, <3>2, AccountsAssumption DEF TokenMove
    <2> QED
      BY <2>1, <2>2, SameSets DEF TokensOK
  <1>6. ASSUME PasswordsKept PROVE CurrentOK'
    <2> SUFFICES ASSUME NEW t \in Tokens PROVE IsCurrent(t)'
      BY SameSets DEF CurrentOK
    <2>1. CASE token'[t] = token[t]
      <3>1. token[t] # Nothing => IsRow(token[t].user)
        BY DEF SessionsInv, TokensOK
      <3>2. IsCurrent(t)
        BY DEF SessionsInv, CurrentOK
      <3> QED
        BY <2>1, <3>1, <3>2, <1>6 DEF IsCurrent, IsLive, IsRow, PasswordsKept
    <2>2. CASE token[t] \in RefreshToken /\ token'[t] = [token[t] EXCEPT !.revoked = TRUE]
      BY <1>2, <2>2 DEF IsCurrent, IsLive
    <2>3. CASE IsIssued(token'[t], r)
      BY <1>6, <2>3 DEF IsIssued, IsCurrent, IsRow, PasswordsKept
    <2> QED
      BY <2>1, <2>2, <2>3 DEF TokenMove
  <1> QED
    BY <1>4, <1>5, <1>6

-----------------------------------------------------------------------------
(* The calls *)

LEMMA OnlyMoves ==
    ASSUME SessionsInv, RolesInv', NEW r \in Requests, NEW label, NEW read, Continue(r, label, read),
           pc[r] # "ended", NoteStale, UNCHANGED <<accounts, accountHistory>>, DecisionOK(r)'
    PROVE  SessionsInv'
  <1>1. UNCHANGED <<account, token, link, wrong, proven>>
    BY DEF accounts, accountHistory
  <1>2. RowsKept /\ PasswordsKept /\ HistoriesOK' /\ UsersOK'
    BY <1>1, SameAccounts
  <1>3. /\ token' = [t \in Tokens |-> token'[t]] /\ \A t \in Tokens : TokenMove(t, r)
        /\ \A q \in Requests : link'[q] = link[q]
    BY <1>1 DEF TokenMove, SessionsInv, TokensOK
  <1>4. TokensKept /\ TokensOK' /\ CurrentOK'
    BY <1>2, <1>3, TokensMove
  <1> QED
    BY <1>2, <1>4, SessionsMove

LEMMA UndecidedOnly ==
    ASSUME SessionsInv, RolesInv', NEW r \in Requests, NEW label, NEW read, Continue(r, label, read),
           pc[r] # "ended", NoteStale, UNCHANGED <<accounts, accountHistory>>,
           label \notin Deciding, pc[r] \in Deciding => label = "ended"
    PROVE  SessionsInv'
  <1>1. pc'[r] = label
    BY ContinueMoves DEF SessionsInv, RolesInv
  <1> QED
    BY <1>1, UndecidedMove, OnlyMoves

LEMMA FindUserDecides ==
    ASSUME SessionsInv, RolesInv', NoteStale, NEW r \in Requests, NEW op, NEW u \in Users,
           NEW ticket, NEW asked, NEW label, FindUser(r, op, u, ticket, asked, label),
           label \notin {"issue", "rotate", "issueNext"},
           label \in {"record", "issueSwitched"} =>
                               /\ ticket \in Tokens /\ token[ticket] \in RefreshToken
                               /\ token[ticket].user = u /\ token[ticket].tenant = "home",
           label = "issueSwitched" => asked \in Tenants,
           label = "writeSecret" => ~account[u].totp,
           label = "enable" => account[u].secret # Nothing
    PROVE  SessionsInv'
  <1> DEFINE to == IF Exists(u) THEN label ELSE "ended"
             read == Errand(u, account[u], ticket, asked)
  <1>1. pc[r] = "idle" /\ Continue(r, to, read) /\ UNCHANGED <<accounts, accountHistory>>
    BY DEF FindUser, Arrive
  <1>2. pc'[r] = to /\ job'[r] = IF to = "ended" THEN Nothing ELSE read
    BY <1>1, ContinueMoves DEF SessionsInv, RolesInv
  <1>3. r \notin stale'
    BY <1>1 DEF NoteStale, Busy
  <1>4. CASE to = "ended"
    BY <1>1, <1>4, UndecidedOnly DEF Deciding
  <1>5. CASE to # "ended"
    <2>1. to = label /\ Exists(u) /\ account' = account /\ token' = token
      BY <1>1, <1>5 DEF accounts
    <2>2. account[u] \in Account
      BY <2>1 DEF Exists, SessionsInv, RolesInv, AccountsOK
    <2>3. /\ job'[r].user = u /\ job'[r].seen = account[u]
          /\ job'[r].ticket = ticket /\ job'[r].asked = asked
      BY <1>2, <1>5 DEF Errand
    <2>4. DecisionOK(r)'
      <3>1. IsRow(job[r].user)' /\ (label \in {"record", "issueSwitched"} => IsRefreshed(r)')
        BY <2>1, <2>2, <2>3, SameSets DEF IsRow, IsRefreshed
      <3>2. IsFresh(r)'
        BY <1>2, <2>1, <2>3 DEF IsFresh
      <3> QED
        BY <1>2, <1>3, <2>1, <2>2, <2>3, <3>1, <3>2, SameSets DEF DecisionOK
    <2> QED
      BY <1>1, <2>4, OnlyMoves
  <1> QED
    BY <1>4, <1>5

LEMMA SessionArrivals ==
    ASSUME SessionsInv, RolesInv', NoteStale, NEW r \in Requests,
           \/ Login(r) \/ Refresh(r) \/ SwitchTenant(r)
           \/ Setup2fa(r) \/ Enable2fa(r) \/ Disable2fa(r)
           \/ ForgotPassword(r) \/ UpdateUser(r) \/ SoftDelete(r)
    PROVE  SessionsInv'
  <1>1. ASSUME Login(r) PROVE SessionsInv'
    <2>1. PICK u, label, code :
              /\ u \in Users /\ label \in {"ended", "clearFailures", "countFailure"}
              /\ FindUser(r, "login", u, now, code, label)
      BY <1>1 DEF Login
    <2> QED
      BY <2>1, FindUserDecides
  <1>2. ASSUME Refresh(r) PROVE SessionsInv'
    <2>1. PICK t \in Tokens :
              /\ token[t] # Nothing
              /\ FindUser(r, "refresh", token[t].user, t, Nothing,
                          IF token[t].tenant = "home" THEN "record" ELSE "ended")
      BY <1>2 DEF Refresh, HasUser
    <2> DEFINE label == IF token[t].tenant = "home" THEN "record" ELSE "ended"
    <2>2. token[t] \in RefreshToken /\ token[t].user \in Users
      BY <2>1 DEF SessionsInv, TokensOK, IsRow
    <2>3. label \in {"record", "ended"} /\ (label = "record" => token[t].tenant = "home")
      OBVIOUS
    <2> HIDE DEF label
    <2>4. FindUser(r, "refresh", token[t].user, t, Nothing, label)
      BY <2>1 DEF label
    <2> QED
      BY <2>2, <2>3, <2>4, FindUserDecides
  <1>3. ASSUME SwitchTenant(r) PROVE SessionsInv'
    <2>1. PICK t, tenant, label :
              /\ t \in Tokens /\ tenant \in Tenants /\ label \in {"issueSwitched", "ended"}
              /\ token[t] # Nothing /\ token[t].tenant = "home"
              /\ FindUser(r, "switchTenant", token[t].user, t, tenant, label)
      BY <1>3 DEF SwitchTenant, HasAccess, HasUser
    <2>2. token[t] \in RefreshToken /\ token[t].user \in Users
      BY <2>1 DEF SessionsInv, TokensOK, IsRow
    <2> QED
      BY <2>1, <2>2, FindUserDecides
  <1>4. ASSUME Setup2fa(r) \/ Enable2fa(r) PROVE SessionsInv'
    <2>1. PICK op, u, label :
              /\ u \in Users /\ label \in {"writeSecret", "enable", "ended"}
              /\ label = "writeSecret" => ~account[u].totp
              /\ label = "enable" => account[u].secret # Nothing
              /\ FindUser(r, op, u, Nothing, Nothing, label)
      BY <1>4 DEF Setup2fa, Enable2fa
    <2> QED
      BY <2>1, FindUserDecides
  <1>5. ASSUME Disable2fa(r) \/ ForgotPassword(r) \/ UpdateUser(r) \/ SoftDelete(r) PROVE SessionsInv'
    <2>1. PICK op, u, asked, label :
              /\ u \in Users /\ label \in {"disable", "createLink", "writeUser", "delete", "ended"}
              /\ FindUser(r, op, u, Nothing, asked, label)
      BY <1>5 DEF Disable2fa, ForgotPassword, UpdateUser, SoftDelete
    <2> QED
      BY <2>1, FindUserDecides
  <1> QED
    BY <1>1, <1>2, <1>3, <1>4, <1>5

(* Tokens are looked at, exchanged, issued and revoked. *)
LEMMA TokenWritesKeep ==
    ASSUME SessionsInv, RolesInv', NoteStale, NEW r \in Requests, NEW label, NEW read,
           Continue(r, label, read), pc[r] # "ended",
           UNCHANGED <<account, link, wrong, proven>>,
           token' = [t \in Tokens |-> token'[t]], \A t \in Tokens : TokenMove(t, r),
           DecisionOK(r)'
    PROVE  SessionsInv'
  <1>1. RowsKept /\ PasswordsKept /\ HistoriesOK' /\ UsersOK'
    BY SameAccounts
  <1>2. TokensKept /\ TokensOK' /\ CurrentOK'
    BY <1>1, TokensMove
  <1> QED
    BY <1>1, <1>2, SessionsMove

LEMMA RevokedMoves ==
    ASSUME SessionsInv, NEW S, token' = Revoked(S), NEW r
    PROVE  token' = [t \in Tokens |-> token'[t]] /\ \A t \in Tokens : TokenMove(t, r)
  <1>1. token' = [t \in Tokens |-> token'[t]]
    BY DEF Revoked
  <1>2. ASSUME NEW t \in Tokens PROVE TokenMove(t, r)
    <2>1. token'[t] = IF t \in S /\ IsLive(t) THEN [token[t] EXCEPT !.revoked = TRUE] ELSE token[t]
      BY DEF Revoked
    <2> QED
      BY <2>1 DEF TokenMove, IsLive, SessionsInv, TokensOK
  <1> QED
    BY <1>1, <1>2

LEMMA ReadRecordKeeps ==
    ASSUME SessionsInv, RolesInv', NoteStale, NEW r \in Requests, ReadRecord(r)
    PROVE  SessionsInv'
  <1> DEFINE t == job[r].ticket
             to == IF IsLive(t) /\ now < token[t].expires THEN "rotate" ELSE "ended"
  <1>1. pc[r] = "record" /\ Continue(r, to, job[r]) /\ UNCHANGED <<accounts, accountHistory>>
    BY DEF ReadRecord, Step
  <1>2. pc'[r] = to /\ job'[r] = IF to = "ended" THEN Nothing ELSE job[r]
    BY <1>1, ContinueMoves DEF SessionsInv, RolesInv
  <1>3. CASE to = "ended"
    BY <1>1, <1>3, UndecidedOnly DEF Deciding
  <1>4. CASE to # "ended"
    <2>1. to = "rotate" /\ IsLive(t) /\ job'[r] = job[r] /\ account' = account /\ token' = token
      BY <1>1, <1>2, <1>4 DEF accounts
    <2>2. IsRow(job[r].user) /\ job[r].seen \in Account /\ IsRefreshed(r)
      BY <1>1 DEF SessionsInv, DecisionOK, Deciding
    <2>3. IsRow(job[r].user)' /\ IsRefreshed(r)'
      BY <2>1, <2>2, SameSets DEF IsRow, IsRefreshed
    <2>4. IsFresh(r)'
      <3>1. token[t].behind \/ token[t].under = account[job[r].user].password
        BY <2>1, <2>2 DEF SessionsInv, CurrentOK, IsCurrent, IsRefreshed
      <3> QED
        BY <1>2, <2>1, <3>1 DEF IsFresh
    <2>5. r \in stale' => pc'[r] \in Deciding
      BY <1>2, <2>1 DEF Deciding
    <2>6. DecisionOK(r)'
      BY <1>2, <2>1, <2>2, <2>3, <2>4, <2>5, SameSets DEF DecisionOK
    <2> QED
      BY <1>1, <2>6, OnlyMoves
  <1> QED
    BY <1>3, <1>4

LEMMA RotateKeeps ==
    ASSUME SessionsInv, RolesInv', NoteStale, NEW r \in Requests, Rotate(r)
    PROVE  SessionsInv'
  <1> DEFINE t == job[r].ticket
  <1>1. /\ pc[r] = "rotate" /\ Continue(r, "issueNext", job[r])
        /\ token' = [token EXCEPT ![t] = [token[t] EXCEPT !.revoked = TRUE]]
        /\ UNCHANGED <<account, link, wrong, proven>>
    BY DEF Rotate, Step, accountHistory
  <1>2. pc'[r] = "issueNext" /\ job'[r] = job[r]
    BY <1>1, ContinueMoves DEF SessionsInv, RolesInv
  <1>3. IsRow(job[r].user) /\ job[r].seen \in Account /\ IsRefreshed(r)
    BY <1>1 DEF SessionsInv, DecisionOK, Deciding
  <1>4. token' = [s \in Tokens |-> token'[s]] /\ \A s \in Tokens : TokenMove(s, r)
    BY <1>1, <1>3 DEF SessionsInv, TokensOK, IsRefreshed, TokenMove
  <1>5. /\ token'[t] \in RefreshToken
        /\ token'[t].user = token[t].user /\ token'[t].tenant = token[t].tenant
        /\ token'[t].under = token[t].under /\ token'[t].behind = token[t].behind
    BY <1>1, <1>3, <1>4 DEF IsRefreshed, RefreshToken
  <1>6. IsRow(job[r].user)' /\ IsRefreshed(r)'
    BY <1>1, <1>2, <1>3, <1>5, SameSets DEF IsRow, IsRefreshed
  <1>7. r \notin stale' => r \notin stale
    BY <1>1, <1>2 DEF NoteStale, Busy, Deciding
  <1>8. r \notin stale => IsFresh(r)'
    BY <1>1, <1>2, <1>5 DEF SessionsInv, DecisionOK, IsFresh
  <1>9. DecisionOK(r)'
    BY <1>2, <1>3, <1>6, <1>7, <1>8, SameSets DEF DecisionOK, Deciding
  <1> QED
    BY <1>1, <1>4, <1>9, TokenWritesKeep

(* A call that issues a token, and ends. *)
LEMMA IssueKeeps ==
    ASSUME SessionsInv, RolesInv', NoteStale, NEW r \in Requests, NEW from \in Deciding,
           Step(r, from, "ended"), NEW new, token' = [token EXCEPT ![r] = new],
           UNCHANGED <<account, link, accountHistory>>,
           new \in RefreshToken, new.user = job[r].user,
           new.tenant = "home" /\ ~new.behind => new.under = account[new.user].password
    PROVE  SessionsInv'
  <1>1. pc[r] = from /\ from # "ended" /\ Continue(r, "ended", job[r]) /\ UNCHANGED <<account, link, wrong, proven>>
    BY DEF Step, accountHistory, Deciding
  <1>2. pc'[r] = "ended"
    BY <1>1, ContinueMoves DEF SessionsInv, RolesInv
  <1>3. DecisionOK(r)'
    BY <1>1, <1>2, UndecidedMove DEF Deciding
  <1>4. r \in Tokens /\ token' = [t \in Tokens |-> token'[t]]
        /\ \A t \in Tokens : token'[t] = IF t = r THEN new ELSE token[t]
    BY DEF SessionsInv, TokensOK, Tokens
  <1>5. CASE token' = token
    <2>1. \A t \in Tokens : TokenMove(t, r)
      BY <1>5 DEF TokenMove
    <2> QED
      BY <1>1, <1>3, <1>4, <2>1, TokenWritesKeep
  <1>6. CASE token' # token
    <2>1. IsRow(new.user)
      BY <1>1 DEF SessionsInv, DecisionOK
    <2>2. IsIssued(new, r)
      BY <2>1 DEF IsIssued
    <2>3. \A t \in Tokens : TokenMove(t, r)
      BY <1>1, <1>2, <1>4, <2>2 DEF TokenMove
    <2> QED
      BY <1>1, <1>3, <1>4, <2>3, TokenWritesKeep
  <1> QED
    BY <1>5, <1>6

LEMMA ExpiryIsNat == ASSUME SessionsInv PROVE now + SessionTTL \in Nat
  BY AccountsAssumption DEF SessionsInv, RolesInv, CallsOK

LEMMA IssuesKeep ==
    ASSUME SessionsInv, RolesInv', NoteStale, NEW r \in Requests,
           Issue(r) \/ IssueNext(r) \/ IssueSwitched(r)
    PROVE  SessionsInv'
  <1>1. pc[r] \in Deciding
    BY DEF Issue, IssueNext, IssueSwitched, Step, Deciding
  <1>2. IsRow(job[r].user) /\ job[r].seen.password \in Requests \cup {Nothing}
    BY <1>1 DEF SessionsInv, DecisionOK, Account
  <1>3. ASSUME Issue(r) PROVE SessionsInv'
    <2> DEFINE under == job[r].seen.password
               new == NewToken(job[r].user, "home", Nothing, under, IsOvertaken(r, under))
    <2>1. /\ new \in RefreshToken /\ new.user = job[r].user
          /\ new.under = under /\ new.behind = IsOvertaken(r, under)
      BY <1>2, ExpiryIsNat DEF IsRow, Tenants, NewToken, RefreshToken, IsOvertaken
    <2>2. ~IsOvertaken(r, under) => under = account[job[r].user].password
      BY <1>3 DEF Issue, Step, SessionsInv, DecisionOK, IsFresh, IsOvertaken
    <2>3. Step(r, "issue", "ended") /\ token' = [token EXCEPT ![r] = new] /\ UNCHANGED <<account, link, accountHistory>>
      BY <1>3 DEF Issue
    <2> HIDE DEF new
    <2> QED
      BY <2>1, <2>2, <2>3, IssueKeeps DEF Deciding
  <1>4. ASSUME IssueNext(r) PROVE SessionsInv'
    <2> DEFINE t == token[job[r].ticket]
               new == NewToken(t.user, "home", job[r].ticket, t.under,
                               t.behind \/ IsOvertaken(r, t.under))
    <2>1. /\ pc[r] = "issueNext" /\ Step(r, "issueNext", "ended")
          /\ token' = [token EXCEPT ![r] = new] /\ UNCHANGED <<account, link, accountHistory>>
      BY <1>4 DEF IssueNext, Step
    <2>2. IsRefreshed(r)
      BY <2>1 DEF SessionsInv, DecisionOK
    <2>3. t \in RefreshToken /\ t.user = job[r].user /\ job[r].ticket \in Tokens
      BY <2>2 DEF IsRefreshed
    <2>4. t.under \in Requests \cup {Nothing} /\ t.behind \in BOOLEAN /\ t.user \in Users
      BY <2>3 DEF RefreshToken
    <2>5. /\ new \in RefreshToken /\ new.user = job[r].user
          /\ new.under = t.under /\ new.behind = (t.behind \/ IsOvertaken(r, t.under))
      BY <2>3, <2>4, ExpiryIsNat DEF Tenants, NewToken, RefreshToken, IsOvertaken
    <2>6. t.behind \/ IsOvertaken(r, t.under) \/ t.under = account[job[r].user].password
      BY <2>1 DEF SessionsInv, DecisionOK, IsFresh, IsOvertaken
    <2> HIDE DEF new
    <2> QED
      BY <2>1, <2>5, <2>6, IssueKeeps DEF Deciding
  <1>5. ASSUME IssueSwitched(r) PROVE SessionsInv'
    <2> DEFINE under == token[job[r].ticket].under
               isBehind == under # account[job[r].user].password
               new == NewToken(job[r].user, job[r].asked, Nothing, under, isBehind)
    <2>1. /\ pc[r] = "issueSwitched" /\ Step(r, "issueSwitched", "ended")
          /\ token' = [token EXCEPT ![r] = new] /\ UNCHANGED <<account, link, accountHistory>>
      BY <1>5 DEF IssueSwitched, Step
    <2>2. job[r].asked \in Tenants /\ under \in Requests \cup {Nothing}
      BY <2>1 DEF SessionsInv, DecisionOK, IsRefreshed, RefreshToken
    <2>3. /\ new \in RefreshToken /\ new.user = job[r].user
          /\ new.under = under /\ new.behind = isBehind
      BY <1>2, <2>2, ExpiryIsNat DEF IsRow, NewToken, RefreshToken
    <2> HIDE DEF new
    <2> QED
      BY <2>1, <2>3, IssueKeeps DEF Deciding
  <1> QED
    BY <1>3, <1>4, <1>5

LEMMA LogoutKeeps ==
    ASSUME SessionsInv, RolesInv', NoteStale, NEW r \in Requests, Logout(r)
    PROVE  SessionsInv'
  <1>1. PICK S : token' = Revoked(S)
    BY DEF Logout
  <1>2. pc[r] = "idle" /\ Continue(r, "ended", Nothing) /\ UNCHANGED <<account, link, wrong, proven>>
    BY DEF Logout, Arrive, accountHistory
  <1>3. pc'[r] = "ended"
    BY <1>2, ContinueMoves DEF SessionsInv, RolesInv
  <1>4. DecisionOK(r)'
    BY <1>2, <1>3, UndecidedMove DEF Deciding
  <1>5. token' = [t \in Tokens |-> token'[t]] /\ \A t \in Tokens : TokenMove(t, r)
    BY <1>1, RevokedMoves
  <1> QED
    BY <1>2, <1>4, <1>5, TokenWritesKeep

(* The two updates of softDelete go on to one another. *)
LEMMA DeletingMove ==
    ASSUME SessionsInv, NoteStale, NEW r \in Requests, pc[r] \in {"delete", "markLeft", "revokeLeft"},
           NEW label \in {"ended", "markLeft", "revokeLeft"}, Continue(r, label, job[r]), RowsKept
    PROVE  DecisionOK(r)'
  <1>1. pc'[r] = label /\ job'[r] = IF label = "ended" THEN Nothing ELSE job[r]
    BY ContinueMoves DEF SessionsInv, RolesInv
  <1>2. CASE label = "ended"
    BY <1>1, <1>2, UndecidedMove DEF Deciding
  <1>3. CASE label # "ended"
    <2>1. IsRow(job[r].user) /\ job[r].seen \in Account
      BY DEF SessionsInv, DecisionOK, Deciding
    <2>2. job'[r] = job[r] /\ pc'[r] \in {"markLeft", "revokeLeft"}
      BY <1>1, <1>3
    <2>3. IsRow(job[r].user)' /\ (job[r].seen \in Account)'
      BY <2>1, <2>2, SameSets DEF IsRow, RowsKept
    <2> QED
      BY <2>2, <2>3 DEF DecisionOK, IsFresh, Deciding
  <1> QED
    BY <1>2, <1>3

LEMMA RevokeAllKeeps ==
    ASSUME SessionsInv, RolesInv', NoteStale, NEW r \in Requests, RevokeAll(r)
    PROVE  SessionsInv'
  <1>1. PICK label \in {"ended", "markLeft"} :
            pc[r] \in {"delete", "revokeLeft"} /\ Continue(r, label, job[r])
    BY DEF RevokeAll, Step
  <1>2. token' = Revoked(AtHome(job[r].user)) /\ UNCHANGED <<account, link, wrong, proven>>
    BY DEF RevokeAll, accountHistory
  <1>3. token' = [t \in Tokens |-> token'[t]] /\ \A t \in Tokens : TokenMove(t, r)
    BY <1>2, RevokedMoves
  <1>4. DecisionOK(r)'
    BY <1>1, <1>2, DeletingMove DEF RowsKept
  <1> QED
    BY <1>1, <1>2, <1>3, <1>4, TokenWritesKeep

LEMMA AccountWritesKeep ==
    ASSUME SessionsInv, RolesInv', NoteStale, NEW r \in Requests, NEW label, NEW read,
           Continue(r, label, read), pc[r] # "ended", label # pc[r],
           NEW u \in Users, u = job[r].user, NEW a \in Account, Update(u, a),
           account[u] \in Account => a.password = account[u].password,
           UNCHANGED <<token, link>>,
           NEW w \in Nat, wrong' = [wrong EXCEPT ![u] = w],
           proven \subseteq proven', proven' \subseteq Tokens,
           r \notin stale /\ u \notin crossed => IsFine(a, w, proven'),
           RowsKept => DecisionOK(r)'
    PROVE  SessionsInv'
  <1>1. pc'[r] # pc[r]
    BY ContinueMoves DEF SessionsInv, RolesInv
  <1>2. RowsKept /\ HistoriesOK' /\ UsersOK'
    BY <1>1, WriteKeepsUsers
  <1>3. PasswordsKept
    BY UpdateKeepsPasswords
  <1>4. /\ token' = [t \in Tokens |-> token'[t]] /\ \A t \in Tokens : TokenMove(t, r)
        /\ \A q \in Requests : link'[q] = link[q]
    BY DEF TokenMove, SessionsInv, TokensOK
  <1>5. TokensKept /\ TokensOK' /\ CurrentOK'
    BY <1>2, <1>3, <1>4, TokensMove
  <1> QED
    BY <1>2, <1>5, SessionsMove

(* A call that writes the row it has found, and ends. *)
LEMMA LastWriteKeeps ==
    ASSUME SessionsInv, RolesInv', NoteStale, NEW r \in Requests, NEW from \in Deciding,
           Step(r, from, "ended"), NEW u \in Users, u = job[r].user, NEW a \in Account, Update(u, a),
           account[u] \in Account => a.password = account[u].password,
           UNCHANGED <<token, link>>,
           NEW w \in Nat, wrong' = [wrong EXCEPT ![u] = w],
           proven \subseteq proven', proven' \subseteq Tokens,
           r \notin stale /\ u \notin crossed => IsFine(a, w, proven')
    PROVE  SessionsInv'
  <1>1. pc[r] = from /\ from # "ended" /\ Continue(r, "ended", job[r])
    BY DEF Step, Deciding
  <1>2. pc'[r] = "ended"
    BY <1>1, ContinueMoves DEF SessionsInv, RolesInv
  <1>3. DecisionOK(r)'
    BY <1>1, <1>2, UndecidedMove DEF Deciding
  <1> QED
    BY <1>1, <1>3, AccountWritesKeep

(* The row a call works on, the number of wrong passwords, and whether     *)
(* they agree.                                                             *)
LEMMA RowOfCall ==
    ASSUME SessionsInv, NEW r \in Requests, pc[r] \in Deciding
    PROVE  LET u == job[r].user IN
           /\ u \in Users /\ account[u] \in Account /\ job[r].seen \in Account
           /\ wrong[u] \in Nat
           /\ wrong' = wrong => wrong' = [wrong EXCEPT ![u] = wrong[u]]
           /\ proven \subseteq Tokens
           /\ u \notin crossed => IsFine(account[u], wrong[u], proven)
  <1> DEFINE u == job[r].user
  <1>1. u \in Users /\ account[u] \in Account /\ job[r].seen \in Account
    BY DEF SessionsInv, DecisionOK, IsRow
  <1>2. wrong \in [Users -> Nat] /\ proven \subseteq Tokens
    BY DEF SessionsInv, HistoriesOK
  <1>3. u \notin crossed => IsFine(account[u], wrong[u], proven)
    BY <1>1, FineRows
  <1> QED
    BY <1>1, <1>2, <1>3

LEMMA CountFailureCounts ==
    ASSUME SessionsInv, RolesInv', NoteStale, NEW r \in Requests, CountFailure(r)
    PROVE  SessionsInv'
  <1> DEFINE u == job[r].user
             failed == job[r].seen.failed + 1
             until == IF IsTooMany(failed) THEN job[r].ticket + LockTime ELSE 0
             a == [account[u] EXCEPT !.failed = failed, !.lockedUntil = until]
             w == wrong[u] + 1
  <1>1. /\ pc[r] = "countFailure" /\ Step(r, "countFailure", "ended") /\ Update(u, a)
        /\ wrong' = [wrong EXCEPT ![u] = w] /\ UNCHANGED <<token, link, proven>>
    BY DEF CountFailure, Step
  <1>2. u \in Users /\ account[u] \in Account /\ job[r].seen \in Account /\ wrong[u] \in Nat
        /\ proven \subseteq Tokens /\ (u \notin crossed => IsFine(account[u], wrong[u], proven))
    BY <1>1, RowOfCall DEF Deciding
  <1>3. failed \in Nat /\ job[r].ticket \in Nat /\ until \in Nat /\ (IsTooMany(failed) <=> until # 0)
    <2>1. job[r].ticket \in Nat
      BY <1>1 DEF SessionsInv, RolesInv, ErrandOK
    <2> QED
      BY <1>2, <2>1, AccountsAssumption DEF Account
  <1>4. /\ a \in Account /\ a.password = account[u].password
        /\ a.failed = failed /\ a.lockedUntil = until
        /\ a.gone = account[u].gone /\ a.totp = account[u].totp /\ a.secret = account[u].secret
    BY <1>2, <1>3 DEF Account
  <1>5. r \notin stale => job[r].seen = account[u]
    BY <1>1 DEF SessionsInv, DecisionOK, IsFresh
  <1>6. r \notin stale /\ u \notin crossed => IsFine(a, w, proven')
    <2> SUFFICES ASSUME r \notin stale, u \notin crossed, ~account[u].gone PROVE IsFine(a, w, proven')
      BY <1>4 DEF IsFine
    <2>1. failed = w /\ (account[u].totp => account[u].secret # Nothing /\ account[u].secret \in proven)
      BY <1>2, <1>5 DEF IsFine
    <2> QED
      BY <1>1, <1>3, <1>4, <2>1 DEF IsFine, IsTooMany
  <1>7. w \in Nat
    BY <1>2
  <1> HIDE DEF a, w
  <1> QED
    BY <1>1, <1>2, <1>4, <1>6, <1>7, LastWriteKeeps DEF Deciding

LEMMA ClearFailuresClears ==
    ASSUME SessionsInv, RolesInv', NoteStale, NEW r \in Requests, ClearFailures(r)
    PROVE  SessionsInv'
  <1> DEFINE u == job[r].user
             a == [account[u] EXCEPT !.failed = 0, !.lockedUntil = 0]
  <1>1. PICK label \in {"issue", "ended"} :
            /\ pc[r] = "clearFailures" /\ Continue(r, label, job[r]) /\ Update(u, a)
            /\ wrong' = [wrong EXCEPT ![u] = 0] /\ UNCHANGED <<token, link, proven>>
    BY DEF ClearFailures, Step
  <1>2. u \in Users /\ account[u] \in Account /\ job[r].seen \in Account
        /\ proven \subseteq Tokens /\ (u \notin crossed => IsFine(account[u], wrong[u], proven))
    BY <1>1, RowOfCall DEF Deciding
  <1>3. /\ a \in Account /\ a.password = account[u].password
        /\ a.failed = 0 /\ a.lockedUntil = 0
        /\ a.gone = account[u].gone /\ a.totp = account[u].totp /\ a.secret = account[u].secret
    BY <1>2 DEF Account
  <1>4. r \notin stale /\ u \notin crossed => IsFine(a, 0, proven')
    BY <1>1, <1>2, <1>3, AccountsAssumption DEF IsFine
  <1>5. pc'[r] = label /\ job'[r] = IF label = "ended" THEN Nothing ELSE job[r]
    BY <1>1, ContinueMoves DEF SessionsInv, RolesInv
  <1>6. account'[u] = a
    BY <1>1, <1>2 DEF Update, SessionsInv, RolesInv, AccountsOK
  <1> HIDE DEF a
  <1>7. ASSUME RowsKept PROVE DecisionOK(r)'
    <2>1. CASE label = "ended"
      BY <1>1, <1>5, <2>1, UndecidedMove DEF Deciding
    <2>2. CASE label = "issue"
      <3>1. job'[r] = job[r] /\ pc'[r] = "issue" /\ "issue" \in Deciding /\ pc[r] \in Deciding
        BY <1>1, <1>5, <2>2 DEF Deciding
      <3>2. IsRow(job[r].user)' /\ (job[r].seen \in Account)'
        BY <1>2, <3>1, <1>7, SameSets DEF IsRow, RowsKept
      <3>3. r \notin stale' => r \notin stale
        BY <3>1 DEF NoteStale, Busy, Deciding
      <3>4. r \notin stale => IsFresh(r)'
        <4>1. r \notin stale => job[r].seen.password = a.password
          BY <1>1, <1>3 DEF SessionsInv, DecisionOK, IsFresh
        <4> QED
          BY <1>6, <3>1, <4>1 DEF IsFresh
      <3> QED
        BY <3>1, <3>2, <3>3, <3>4 DEF DecisionOK
    <2> QED
      BY <2>1, <2>2
  <1> QED
    BY <1>1, <1>2, <1>3, <1>4, <1>7, AccountWritesKeep

LEMMA SecondFactorWrites ==
    ASSUME SessionsInv, RolesInv', NoteStale, NEW r \in Requests,
           WriteSecret(r) \/ WriteEnabled(r) \/ WriteDisabled(r)
    PROVE  SessionsInv'
  <1> DEFINE u == job[r].user
  <1>1. pc[r] \in Deciding
    BY DEF WriteSecret, WriteEnabled, WriteDisabled, Step, Deciding
  <1>2. u \in Users /\ account[u] \in Account /\ job[r].seen \in Account
        /\ wrong[u] \in Nat /\ (wrong' = wrong => wrong' = [wrong EXCEPT ![u] = wrong[u]])
        /\ proven \subseteq Tokens /\ (u \notin crossed => IsFine(account[u], wrong[u], proven))
    BY <1>1, RowOfCall
  <1>3. ASSUME WriteSecret(r) PROVE SessionsInv'
    <2> DEFINE a == [account[u] EXCEPT !.secret = r]
    <2>1. /\ pc[r] = "writeSecret" /\ Step(r, "writeSecret", "ended") /\ Update(u, a)
          /\ UNCHANGED <<token, link, wrong, proven>>
      BY <1>3 DEF WriteSecret, Step, accountHistory
    <2>2. /\ a \in Account /\ a.password = account[u].password
          /\ a.failed = account[u].failed /\ a.lockedUntil = account[u].lockedUntil
          /\ a.gone = account[u].gone /\ a.totp = account[u].totp
      BY <1>2 DEF Account, Tokens
    <2>3. r \notin stale => ~account[u].totp
      BY <2>1 DEF SessionsInv, DecisionOK, IsFresh
    <2>4. r \notin stale /\ u \notin crossed => IsFine(a, wrong[u], proven')
      BY <1>2, <2>2, <2>3 DEF IsFine
    <2> HIDE DEF a
    <2> QED
      BY <1>2, <2>1, <2>2, <2>4, LastWriteKeeps DEF Deciding
  <1>4. ASSUME WriteEnabled(r) PROVE SessionsInv'
    <2> DEFINE a == [account[u] EXCEPT !.totp = TRUE]
    <2>1. /\ pc[r] = "enable" /\ Step(r, "enable", "ended") /\ Update(u, a)
          /\ proven' = proven \cup {job[r].seen.secret} /\ UNCHANGED <<token, link, wrong>>
      BY <1>4 DEF WriteEnabled, Step
    <2>2. /\ a \in Account /\ a.password = account[u].password
          /\ a.failed = account[u].failed /\ a.lockedUntil = account[u].lockedUntil
          /\ a.gone = account[u].gone /\ a.secret = account[u].secret
      BY <1>2 DEF Account
    <2>3. job[r].seen.secret # Nothing /\ (r \notin stale => job[r].seen = account[u])
      BY <2>1 DEF SessionsInv, DecisionOK, IsFresh
    <2>4. proven' \subseteq Tokens
      BY <1>2, <2>1, <2>3 DEF Account
    <2>5. r \notin stale /\ u \notin crossed => IsFine(a, wrong[u], proven')
      BY <1>2, <2>1, <2>2, <2>3 DEF IsFine
    <2> HIDE DEF a
    <2> QED
      BY <1>2, <2>1, <2>2, <2>4, <2>5, LastWriteKeeps DEF Deciding
  <1>5. ASSUME WriteDisabled(r) PROVE SessionsInv'
    <2> DEFINE a == [account[u] EXCEPT !.totp = FALSE, !.secret = Nothing]
    <2>1. /\ pc[r] = "disable" /\ Step(r, "disable", "ended") /\ Update(u, a)
          /\ UNCHANGED <<token, link, wrong, proven>>
      BY <1>5 DEF WriteDisabled, Step, accountHistory
    <2>2. /\ a \in Account /\ a.password = account[u].password
          /\ a.failed = account[u].failed /\ a.lockedUntil = account[u].lockedUntil
          /\ a.gone = account[u].gone /\ ~a.totp
      BY <1>2 DEF Account
    <2>3. u \notin crossed => IsFine(a, wrong[u], proven')
      BY <1>2, <2>2 DEF IsFine
    <2> HIDE DEF a
    <2> QED
      BY <1>2, <2>1, <2>2, <2>3, LastWriteKeeps DEF Deciding
  <1> QED
    BY <1>3, <1>4, <1>5

LEMMA UsersWritten ==
    ASSUME SessionsInv, RolesInv', NoteStale, NEW r \in Requests, WriteUser(r) \/ MarkDeleted(r)
    PROVE  SessionsInv'
  <1> DEFINE u == job[r].user
  <1>1. pc[r] \in Deciding
    BY DEF WriteUser, MarkDeleted, Step, Deciding
  <1>2. u \in Users /\ account[u] \in Account /\ job[r].seen \in Account
        /\ wrong[u] \in Nat /\ (wrong' = wrong => wrong' = [wrong EXCEPT ![u] = wrong[u]])
        /\ proven \subseteq Tokens /\ (u \notin crossed => IsFine(account[u], wrong[u], proven))
    BY <1>1, RowOfCall
  <1>3. ASSUME WriteUser(r) PROVE SessionsInv'
    <2> DEFINE role == NextRole(job[r].seen, job[r].asked)
               location == NextLocation(job[r].seen, job[r].asked)
               a == [account[u] EXCEPT !.role = role, !.location = location]
    <2>1. /\ pc[r] = "writeUser" /\ Step(r, "writeUser", "ended") /\ Update(u, a)
          /\ UNCHANGED <<token, link, wrong, proven>>
      BY <1>3 DEF WriteUser, Step, accountHistory
    <2>2. job[r].asked \in Asked
      BY <2>1 DEF SessionsInv, RolesInv, ErrandOK
    <2>3. role \in Roles /\ location \in Locations \cup {Nothing}
      BY <1>2, <2>2 DEF NextRole, NextLocation, Account, Asked
    <2> HIDE DEF role, location
    <2>4. /\ a \in Account /\ a.password = account[u].password
          /\ a.failed = account[u].failed /\ a.lockedUntil = account[u].lockedUntil
          /\ a.gone = account[u].gone /\ a.totp = account[u].totp /\ a.secret = account[u].secret
      BY <1>2, <2>3 DEF Account
    <2>5. u \notin crossed => IsFine(a, wrong[u], proven')
      BY <1>2, <2>1, <2>4 DEF IsFine
    <2> HIDE DEF a
    <2> QED
      BY <1>2, <2>1, <2>4, <2>5, LastWriteKeeps DEF Deciding
  <1>4. ASSUME MarkDeleted(r) PROVE SessionsInv'
    <2> DEFINE a == [account[u] EXCEPT !.gone = TRUE]
    <2>1. PICK label \in {"ended", "revokeLeft"} :
              /\ pc[r] \in {"delete", "markLeft"} /\ Continue(r, label, job[r]) /\ Update(u, a)
              /\ UNCHANGED <<token, link, wrong, proven>>
      BY <1>4 DEF MarkDeleted, Step, accountHistory
    <2>2. a \in Account /\ a.password = account[u].password /\ a.gone
      BY <1>2 DEF Account
    <2>3. IsFine(a, wrong[u], proven')
      BY <2>2 DEF IsFine
    <2>4. RowsKept => DecisionOK(r)'
      BY <2>1, DeletingMove
    <2> HIDE DEF a
    <2> QED
      BY <1>2, <2>1, <2>2, <2>3, <2>4, AccountWritesKeep
  <1> QED
    BY <1>3, <1>4

LEMMA InsertUserKeeps ==
    ASSUME SessionsInv, RolesInv', NoteStale, NEW r \in Requests, InsertUser(r)
    PROVE  SessionsInv'
  <1> DEFINE u == job[r].user
             dto == job[r].asked
             a == [role |-> dto.role,
                   location |-> IF dto.role \in Placed THEN dto.location ELSE Nothing,
                   password |-> r, failed |-> 0, lockedUntil |-> 0,
                   totp |-> FALSE, secret |-> Nothing, gone |-> FALSE]
  <1>1. /\ pc[r] = "insertUser" /\ Continue(r, "ended", job[r])
        /\ IF account[u] # Nothing THEN UNCHANGED account ELSE Update(u, a)
        /\ UNCHANGED <<token, link, wrong, proven>>
    BY DEF InsertUser, Step, accountHistory
  <1>2. u \in Users /\ dto \in Asked /\ dto.role # Nothing
    BY <1>1 DEF SessionsInv, RolesInv, ErrandOK
  <1>3. CASE UNCHANGED account
    BY <1>1, <1>3, UndecidedOnly DEF Deciding, accounts, accountHistory
  <1>4. CASE account[u] = Nothing /\ Update(u, a)
    <2>1. a \in Account /\ a.failed = 0 /\ a.lockedUntil = 0 /\ ~a.totp
      BY <1>2 DEF Account, Asked
    <2>2. account[u] \notin Account
      BY <1>4, AccountsAssumption
    <2>3. wrong' = [wrong EXCEPT ![u] = 0] /\ proven' \subseteq Tokens
      BY <1>1, <1>2, <1>4 DEF SessionsInv, HistoriesOK
    <2>4. IsFine(a, 0, proven')
      BY <2>1, AccountsAssumption DEF IsFine
    <2>5. pc'[r] = "ended"
      BY <1>1, ContinueMoves DEF SessionsInv, RolesInv
    <2>6. DecisionOK(r)'
      BY <1>1, <2>5, UndecidedMove DEF Deciding
    <2> HIDE DEF a
    <2> QED
      BY <1>1, <1>2, <1>4, <2>1, <2>2, <2>3, <2>4, <2>6, AccountWritesKeep
  <1> QED
    BY <1>1, <1>3, <1>4

LEMMA CreateLinkKeeps ==
    ASSUME SessionsInv, RolesInv', NoteStale, NEW r \in Requests, CreateLink(r)
    PROVE  SessionsInv'
  <1>1. pc[r] = "createLink" /\ Continue(r, "ended", job[r]) /\ UNCHANGED <<account, token, wrong, proven>>
    BY DEF CreateLink, Step, accountHistory
  <1>2. pc'[r] = "ended"
    BY <1>1, ContinueMoves DEF SessionsInv, RolesInv
  <1>3. DecisionOK(r)'
    BY <1>1, <1>2, UndecidedMove DEF Deciding
  <1>4. RowsKept /\ PasswordsKept /\ HistoriesOK' /\ UsersOK'
    BY <1>1, SameAccounts
  <1>5. \A q \in Requests : link'[q] = link[q] \/ pc'[q] = "ended"
    BY <1>2 DEF CreateLink, SessionsInv, RolesInv, LinksOK
  <1>6. token' = [t \in Tokens |-> token'[t]] /\ \A t \in Tokens : TokenMove(t, r)
    BY <1>1 DEF TokenMove, SessionsInv, TokensOK
  <1>7. TokensKept /\ TokensOK' /\ CurrentOK'
    BY <1>1, <1>4, <1>5, <1>6, TokensMove
  <1> QED
    BY <1>1, <1>3, <1>4, <1>7, SessionsMove

(* The transaction of resetPassword: no session of the user is left.       *)
LEMMA WritePasswordKeeps ==
    ASSUME SessionsInv, RolesInv', NoteStale, NEW r \in Requests, WritePassword(r)
    PROVE  SessionsInv'
  <1> DEFINE u == job[r].user
             l == job[r].ticket
             a == [account[u] EXCEPT !.password = r, !.failed = 0, !.lockedUntil = 0]
  <1>1. /\ pc[r] = "reset" /\ Continue(r, "ended", job[r]) /\ Update(u, a)
        /\ link' = [link EXCEPT ![l] = [link[l] EXCEPT !.used = TRUE]]
        /\ token' = Revoked(AtHome(u))
        /\ wrong' = [wrong EXCEPT ![u] = 0] /\ proven' = proven
    BY DEF WritePassword, Step
  <1>2. u \in Users /\ account[u] \in Account /\ l \in Requests /\ link[l] \in ResetLink
    BY <1>1 DEF SessionsInv, RolesInv, ErrandOK, IsRow
  <1>3. pc'[r] = "ended" /\ \A q \in Requests \ {r} : pc'[q] = pc[q]
    BY <1>1, ContinueMoves DEF SessionsInv, RolesInv
  <1>4. DecisionOK(r)'
    BY <1>1, <1>3, UndecidedMove DEF Deciding
  <1>5. /\ a \in Account /\ a.failed = 0 /\ a.lockedUntil = 0
        /\ a.gone = account[u].gone /\ a.totp = account[u].totp /\ a.secret = account[u].secret
    BY <1>2 DEF Account
  <1>6. u \notin crossed => IsFine(a, 0, proven')
    BY <1>1, <1>2, <1>5, FineRows, AccountsAssumption DEF IsFine
  <1> HIDE DEF a
  <1>7. RowsKept /\ HistoriesOK' /\ UsersOK'
    <2>1. proven' \subseteq Tokens
      BY <1>1 DEF SessionsInv, HistoriesOK
    <2> QED
      BY <1>1, <1>2, <1>3, <1>5, <1>6, <2>1, WriteKeepsUsers
  <1>8. token' = [t \in Tokens |-> token'[t]] /\ \A t \in Tokens : TokenMove(t, r)
    BY <1>1, RevokedMoves
  <1>9. \A q \in Requests : link'[q] = link[q] \/ pc'[q] = "ended"
    <2>1. pc[l] = "ended"
      BY <1>2, AccountsAssumption DEF SessionsInv, TokensOK
    <2> QED
      BY <1>1, <1>3, <2>1 DEF SessionsInv, RolesInv, LinksOK
  <1>10. TokensKept /\ TokensOK'
    BY <1>1, <1>7, <1>8, <1>9, TokensMove
  <1>11. CurrentOK'
    <2> SUFFICES ASSUME NEW t \in Tokens PROVE IsCurrent(t)'
      BY SameSets DEF CurrentOK
    <2>1. token'[t] = IF t \in AtHome(u) /\ IsLive(t) THEN [token[t] EXCEPT !.revoked = TRUE] ELSE token[t]
      BY <1>1 DEF Revoked
    <2>2. CASE t \in AtHome(u) /\ IsLive(t)
      <3>1. token[t] \in RefreshToken
        BY <2>2 DEF IsLive, SessionsInv, TokensOK
      <3>2. token'[t].revoked
        BY <2>1, <2>2, <3>1 DEF RefreshToken
      <3> QED
        BY <3>2 DEF IsCurrent, IsLive
    <2>3. CASE ~(t \in AtHome(u) /\ IsLive(t))
      <3>1. token'[t] = token[t] /\ IsCurrent(t)
        BY <2>1, <2>3 DEF SessionsInv, CurrentOK
      <3>2. ASSUME IsLive(t), token[t].tenant = "home" PROVE account'[token[t].user] = account[token[t].user]
        <4>1. token[t].user # u
          BY <2>3, <3>2 DEF AtHome, IsLive
        <4> QED
          BY <1>1, <4>1 DEF Update, SessionsInv, RolesInv, AccountsOK
      <3> QED
        BY <3>1, <3>2 DEF IsCurrent, IsLive
    <2> QED
      BY <2>2, <2>3
  <1> QED
    BY <1>1, <1>4, <1>7, <1>10, <1>11, SessionsMove

LEMMA AccountCallKeeps ==
    ASSUME SessionsInv, NoteStale, NEW r \in Requests, AccountCall(r)
    PROVE  SessionsInv'
  <1>1. RolesInv'
    BY SessionsKeep, SecondFactorKeeps, PasswordsKeep, AdministrationKeeps DEF AccountCall, SessionsInv
  <1>2. ASSUME ResetPassword(r) \/ CreateUser(r) PROVE SessionsInv'
    <2>1. PICK label, read :
              /\ label \in {"ended", "reset", "insertUser"} /\ pc[r] = "idle"
              /\ Continue(r, label, read) /\ UNCHANGED <<accounts, accountHistory>>
      BY <1>2 DEF ResetPassword, CreateUser, Arrive
    <2> QED
      BY <1>1, <2>1, UndecidedOnly DEF Deciding
  <1>3. ASSUME Session(r) PROVE SessionsInv'
    BY <1>1, <1>3, SessionArrivals, CountFailureCounts, ClearFailuresClears, IssuesKeep, ReadRecordKeeps,
       RotateKeeps, LogoutKeeps DEF Session
  <1>4. ASSUME SecondFactor(r) PROVE SessionsInv'
    BY <1>1, <1>4, SessionArrivals, SecondFactorWrites DEF SecondFactor
  <1>5. ASSUME Password(r) PROVE SessionsInv'
    BY <1>1, <1>2, <1>5, SessionArrivals, CreateLinkKeeps, WritePasswordKeeps DEF Password
  <1>6. ASSUME Administration(r) PROVE SessionsInv'
    BY <1>1, <1>2, <1>6, SessionArrivals, InsertUserKeeps, UsersWritten, RevokeAllKeeps DEF Administration
  <1> QED
    BY <1>3, <1>4, <1>5, <1>6 DEF AccountCall

(* Neither the portal nor a limit goes on with a call of staff. *)
LEMMA OthersLeaveDecisions ==
    ASSUME NEW r \in Requests, PortalCall(r) \/ LimitedCall(r) \/ Fail(r), pc[r] \in Deciding,
           CallsOK, NEW label, NEW read, Continue(r, label, read)
    PROVE  label = "ended"
  <1>1. ~PortalCall(r)
    BY DEF PortalCall, RequestLink, MintMagic, VerifyLink, ClearToken, SendPaymentLink,
           EnsurePortalToken, FindGuardian, Arrive, Step, Deciding
  <1>2. ~LimitedCall(r)
    BY DEF LimitedCall, CreateKey, RevokeKey, WriteRevoked, Authenticate, Stamp, CountKey, ArriveByIp,
           CountIp, FailOpen, Arrive, Step, Deciding
  <1>3. Continue(r, "ended", Nothing)
    BY <1>1, <1>2 DEF Fail
  <1>4. pc'[r] = "ended" /\ pc'[r] = label
    BY <1>3, ContinueMoves
  <1> QED
    BY <1>4

THEOREM SessionsInvHolds == Spec => []SessionsInv
  <1>1. Init => SessionsInv
    <2> SUFFICES ASSUME Init PROVE SessionsInv
      OBVIOUS
    <2>1. RolesInv
      BY RolesInit
    <2>2. /\ \A u \in Users : account[u] # Nothing => account[u] \in StartAccounts
          /\ \A u \in Users : Exists(u) => IsSound(account[u])
      BY AccountsAssumption DEF Init, AccountsInit, Exists
    <2>3. TokensOK
      <3>1. token = [t \in Tokens |-> token[t]] /\ \A r \in Requests : token[r] = Nothing /\ link[r] = Nothing
        BY AccountsAssumption DEF Init, AccountsInit, Tokens
      <3>2. ASSUME NEW t \in Tokens, token[t] # Nothing
            PROVE  token[t] \in RefreshToken /\ IsRow(token[t].user)
        <4> DEFINE u == CHOOSE u \in Users : Exists(u)
        <4>1. u \in Users /\ Exists(u) /\ token[t] = NewToken(u, "home", Nothing, Nothing, FALSE)
          BY <3>2 DEF Init, AccountsInit
        <4>2. now + SessionTTL \in Nat
          BY AccountsAssumption DEF Init, CallsInit
        <4> HIDE DEF u
        <4> QED
          BY <4>1, <4>2, <2>2, AccountsAssumption DEF NewToken, RefreshToken, Tenants, IsRow, Exists
      <3> QED
        BY <3>1, <3>2 DEF TokensOK
    <2>4. HistoriesOK
      <3>1. \A u \in Users : Exists(u) => account[u] \in Account
        BY <2>2, AccountsAssumption DEF Exists
      <3>2. wrong \in [Users -> Nat]
        BY <3>1 DEF Init, AccountsInit, Account
      <3>3. proven \subseteq Tokens
        BY <2>2, <3>1 DEF Init, AccountsInit, Account, IsSound
      <3> QED
        BY <3>2, <3>3 DEF Init, AccountsInit, HistoriesOK, Exists
    <2>5. UsersOK
      BY <2>2 DEF Init, AccountsInit, UsersOK, IsCounted, IsProtected, IsSound
    <2>6. CurrentOK
      <3> SUFFICES ASSUME NEW t \in Tokens, IsLive(t) PROVE token[t].under = account[token[t].user].password
        BY DEF CurrentOK, IsCurrent
      <3> DEFINE u == CHOOSE u \in Users : Exists(u)
      <3>1. u \in Users /\ Exists(u) /\ token[t] = NewToken(u, "home", Nothing, Nothing, FALSE)
        BY DEF Init, AccountsInit, IsLive
      <3> HIDE DEF u
      <3> QED
        BY <3>1, <2>2 DEF NewToken, IsSound
    <2>7. \A r \in Requests : DecisionOK(r)
      BY DEF Init, CallsInit, AccountsInit, DecisionOK, Deciding, IsFresh
    <2> QED
      BY <2>1, <2>3, <2>4, <2>5, <2>6, <2>7 DEF SessionsInv
  <1>2. SessionsInv /\ RolesInv' /\ [Next]_<<parts, shared, used>> => SessionsInv'
    <2> SUFFICES ASSUME SessionsInv, RolesInv', [Next]_<<parts, shared, used>> PROVE SessionsInv'
      OBVIOUS
    <2>1. ASSUME NEW r \in Requests, AccountCall(r), NoteStale PROVE SessionsInv'
      BY <2>1, AccountCallKeeps
    <2>2. ASSUME NEW r \in Requests, PortalCall(r) \/ LimitedCall(r) \/ Fail(r), NoteStale,
                 UNCHANGED <<accounts, accountHistory>>
          PROVE  SessionsInv'
      <3>1. PICK places : GoesOn(r, places) /\ places \in {PortalPlaces, LimitPlaces, {"ended"}}
        BY <2>2, PortalCallsGoOn, LimitedCallsGoOn, FailGoesOn
      <3>2. PICK label, read : /\ label \in PortalPlaces \cup LimitPlaces \cup {"ended"}
                              /\ pc[r] # "ended" /\ Continue(r, label, read)
        BY <3>1 DEF GoesOn
      <3>3. pc[r] \in Deciding => label = "ended"
        BY <2>2, <3>2, OthersLeaveDecisions DEF SessionsInv, RolesInv
      <3> QED
        BY <2>2, <3>2, <3>3, UndecidedOnly DEF Deciding, PortalPlaces, LimitPlaces
    <2>3. ASSUME UNCHANGED <<pc, job, accounts, accountHistory>>,
                 NoteStale \/ UNCHANGED <<stale, crossed>>
          PROVE  SessionsInv'
      <3>1. UNCHANGED <<account, token, link, wrong, proven>>
        BY <2>3 DEF accounts, accountHistory
      <3>2. CASE NoteStale
        <4>1. RowsKept /\ TokensKept /\ HistoriesOK' /\ UsersOK'
          BY <3>1, <3>2, SameAccounts DEF TokensKept
        <4>2. TokensOK' /\ CurrentOK'
          BY <2>3, <3>1, <3>2, SameSets, CrossedGrows
          DEF SessionsInv, TokensOK, CurrentOK, IsCurrent, IsLive, IsRow
        <4>3. \A q \in Requests : DecisionOK(q)'
          BY <2>3, <3>2, <4>1, OthersDecide DEF SessionsInv
        <4> QED
          BY <4>1, <4>2, <4>3 DEF SessionsInv
      <3>3. CASE UNCHANGED <<stale, crossed>>
        <4>1. TokensOK' /\ CurrentOK' /\ HistoriesOK' /\ UsersOK'
          BY <2>3, <3>1, <3>3, SameSets
          DEF SessionsInv, TokensOK, CurrentOK, IsCurrent, IsLive, IsRow, HistoriesOK, UsersOK, IsCounted,
              IsProtected, Exists
        <4>2. ASSUME NEW q \in Requests PROVE DecisionOK(q)'
          BY <2>3, <3>1, <3>3, SameSets DEF SessionsInv, DecisionOK, IsRow, IsRefreshed, IsFresh
        <4> QED
          BY <4>1, <4>2 DEF SessionsInv
      <3> QED
        BY <2>3, <3>2, <3>3
    <2>4. ASSUME PassTime, NoteStale, UNCHANGED Other PROVE SessionsInv'
      BY <2>3, <2>4 DEF PassTime, Other
    <2>5. ASSUME UNCHANGED <<parts, shared, used>> PROVE SessionsInv'
      BY <2>3, <2>5 DEF parts, calls
    <2> QED
      BY <2>1, <2>2, <2>4, <2>5 DEF Next, Operation, Other
  <1> QED
    BY <1>1, <1>2, RolesInvHolds, PTL DEF Spec

(* For any number of users, calls and sessions: every session that refresh *)
(* exchanges goes back to a login with the password that stands, but for   *)
(* those opened after it was set by a call that had read the account, or   *)
(* with an access token that was issued, before it, and what goes back to  *)
(* them.                                                                   *)
THEOREM SessionsAreCurrent == Spec => []LiveSessionsAreCurrent
  <1>1. SessionsInv => LiveSessionsAreCurrent
    BY DEF SessionsInv, CurrentOK, IsCurrent, LiveSessionsAreCurrent, HasUser
  <1> QED
    BY <1>1, SessionsInvHolds, PTL

(* An enabled second factor has a secret that a code was verified against, *)
(* unless calls that set it up or turn it off overlapped.                  *)
THEOREM SecondFactorIsProven == Spec => []SecondFactorWorks
  <1>1. SessionsInv => SecondFactorWorks
    BY DEF SessionsInv, UsersOK, IsProtected, SecondFactorWorks
  <1> QED
    BY <1>1, SessionsInvHolds, PTL

(* Wrong passwords are counted one by one and as many as MaxFailed lock    *)
(* the account, unless logins of the user overlapped: for any MaxFailed.   *)
THEOREM FailuresAreNotLost == Spec => []FailuresAreCounted
  <1>1. SessionsInv => FailuresAreCounted
    BY DEF SessionsInv, UsersOK, IsCounted, FailuresAreCounted
  <1> QED
    BY <1>1, SessionsInvHolds, PTL

-----------------------------------------------------------------------------
(* Tickets that are used once *)

IsAt(q, t) == pc[q] \in Using /\ Ticket(pc[q], job[q]) = t

(* A ticket that has been used is not found valid any more.                *)
IsUsed(t) ==
    /\ t[1] \in Using
    /\ t[1] = "rotate" => t[2] \in Tokens /\ ~IsLive(t[2]) /\ (t[2] \in Requests => pc[t[2]] = "ended")
    /\ t[1] = "reset" => t[2] \in Requests /\ link[t[2]] \in ResetLink /\ link[t[2]].used
    /\ t[1] = "clear" => t[2] \in Requests /\ portal.token # t[2] /\ pc[t[2]] = "ended"

TicketsOK ==
    /\ \A q, r \in Requests : \A t : q # r /\ IsAt(q, t) /\ IsAt(r, t) => t \in shared
    /\ \A u \in used : u[1] \notin shared => IsUsed(u[1]) /\ \A q \in Requests : ~IsAt(q, u[1])
    /\ OneTimeTickets

Uses(r) == pc[r] \in Using /\ (pc'[r] = "issueNext" \/ (pc'[r] = "ended" /\ <<account, portal>>' # <<account, portal>>))

(* What one call has to do with tickets, for the rest to follow.           *)
LEMMA TicketsMove ==
    ASSUME TicketsOK, NoteTickets, NEW r \in Requests,
           \A q \in Requests \ {r} : pc'[q] = pc[q] /\ job'[q] = job[q],
           \A t : IsUsed(t) => IsUsed(t)',
           pc'[r] \in Using => <<pc'[r], job'[r]>> = <<pc[r], job[r]>> \/ ~IsUsed(Ticket(pc'[r], job'[r])),
           \A t : Uses(r) /\ IsAt(r, t) => IsUsed(t)'
    PROVE  TicketsOK'
  <1>1. shared \subseteq shared'
    BY DEF NoteTickets
  <1>2. ASSUME NEW q \in Requests, NEW p \in Requests, NEW t, q # p, IsAt(q, t)', IsAt(p, t)'
        PROVE  t \in shared'
    <2>1. pc'[q] \in Using /\ t = Ticket(pc'[q], job'[q]) /\ t = Ticket(pc'[p], job'[p])
      BY <1>2 DEF IsAt, Ticket
    <2>2. pc'[p] = pc'[q]
      BY <2>1 DEF Ticket
    <2> QED
      BY <1>2, <2>1, <2>2 DEF NoteTickets
  <1>3. \A u \in used' \ used : Uses(r) /\ u = <<Ticket(pc[r], job[r]), r>>
    <2> SUFFICES ASSUME NEW u \in used', u \notin used PROVE Uses(r) /\ u = <<Ticket(pc[r], job[r]), r>>
      OBVIOUS
    <2>1. PICK q \in Requests : /\ u = <<Ticket(pc[q], job[q]), q>> /\ pc[q] \in Using
                                /\ \/ pc'[q] = "issueNext"
                                   \/ pc'[q] = "ended" /\ <<account, portal>>' # <<account, portal>>
      BY DEF NoteTickets
    <2>2. q = r
      BY <2>1 DEF Using
    <2> QED
      BY <2>1, <2>2 DEF Uses
  <1>4. \A q \in Requests \ {r} : \A t : IsAt(q, t)' <=> IsAt(q, t)
    BY DEF IsAt
  <1>5. \A t : IsUsed(t) /\ IsAt(r, t)' => IsAt(r, t)
    BY DEF IsAt
  <1>6. ASSUME NEW u \in used', u[1] \notin shared'
        PROVE  IsUsed(u[1])' /\ \A q \in Requests : ~IsAt(q, u[1])'
    <2>1. CASE u \in used
      BY <1>1, <1>4, <1>5, <1>6, <2>1 DEF TicketsOK
    <2>2. CASE u \notin used
      <3>1. Uses(r) /\ u[1] = Ticket(pc[r], job[r]) /\ IsAt(r, u[1]) /\ ~IsAt(r, u[1])'
        BY <1>3, <2>2 DEF Uses, IsAt, Using
      <3> QED
        BY <1>1, <1>4, <1>6, <3>1 DEF TicketsOK
    <2> QED
      BY <2>1, <2>2
  <1>7. ASSUME NEW u \in used', NEW v \in used', u[1] = v[1], u[1] \notin shared' PROVE u = v
    <2>1. \A w \in used' \ used : IsAt(r, w[1])
      BY <1>3 DEF Uses, IsAt
    <2>2. u[1] \notin shared
      BY <1>1, <1>7
    <2>3. CASE u \in used /\ v \in used
      BY <1>7, <2>2, <2>3 DEF TicketsOK, OneTimeTickets
    <2>4. CASE u \notin used /\ v \notin used
      BY <1>3, <2>4
    <2>5. CASE (u \in used) # (v \in used)
      BY <1>7, <2>1, <2>2, <2>5 DEF TicketsOK
    <2> QED
      BY <2>3, <2>4, <2>5
  <1> QED
    BY <1>2, <1>6, <1>7 DEF TicketsOK, OneTimeTickets

(* Which calls find a ticket, and which use one.                           *)
LEMMA WhoFinds ==
    ASSUME CallsOK, NEW r \in Requests, AccountCall(r), pc'[r] \in Using
    PROVE  ReadRecord(r) \/ ResetPassword(r)
  <1>1. ASSUME NEW label, NEW read, Continue(r, label, read) PROVE label \in Using
    BY <1>1, ContinueMoves
  <1>2. ASSUME NEW from, NEW to, Step(r, from, to) PROVE to \in Using
    BY <1>1, <1>2 DEF Step
  <1>3. ASSUME NEW op, NEW label, NEW read, Arrive(r, op, label, read) PROVE label \in Using
    BY <1>1, <1>3 DEF Arrive
  <1>4. ASSUME NEW op, NEW u, NEW ticket, NEW asked, NEW label, FindUser(r, op, u, ticket, asked, label)
        PROVE  label \in Using
    <2>1. (IF Exists(u) THEN label ELSE "ended") \in Using
      BY <1>3, <1>4 DEF FindUser
    <2> QED
      BY <2>1 DEF Using
  <1>5. ASSUME Session(r) PROVE ReadRecord(r)
    <2>1. ASSUME Login(r) \/ Refresh(r) \/ SwitchTenant(r) PROVE FALSE
      <3>1. PICK op, u, ticket, asked, label :
                /\ FindUser(r, op, u, ticket, asked, label)
                /\ label \in {"ended", "clearFailures", "countFailure", "record", "issueSwitched"}
        BY <2>1 DEF Login, Refresh, SwitchTenant
      <3> QED
        BY <1>4, <3>1 DEF Using
    <2>2. ~Logout(r)
      BY <1>3 DEF Logout, Using
    <2>3. ASSUME \/ CountFailure(r) \/ ClearFailures(r) \/ Issue(r)
                 \/ Rotate(r) \/ IssueNext(r) \/ IssueSwitched(r)
          PROVE  FALSE
      <3>1. PICK from, to : Step(r, from, to) /\ to \in {"ended", "issue", "issueNext"}
        BY <2>3 DEF CountFailure, ClearFailures, Issue, Rotate, IssueNext, IssueSwitched
      <3> QED
        BY <1>2, <3>1 DEF Using
    <2> QED
      BY <1>5, <2>1, <2>2, <2>3 DEF Session
  <1>6. ~SecondFactor(r)
    BY <1>2, <1>4 DEF SecondFactor, Setup2fa, WriteSecret, Enable2fa, WriteEnabled, Disable2fa, WriteDisabled, Using
  <1>7. ~(ForgotPassword(r) \/ CreateLink(r) \/ WritePassword(r))
    BY <1>2, <1>4 DEF ForgotPassword, CreateLink, WritePassword, Using
  <1>8. ~Administration(r)
    <2>1. ~CreateUser(r)
      BY <1>3 DEF CreateUser, Using
    <2>2. ~(UpdateUser(r) \/ SoftDelete(r))
      BY <1>4 DEF UpdateUser, SoftDelete, Using
    <2>3. ~(InsertUser(r) \/ WriteUser(r) \/ MarkDeleted(r) \/ RevokeAll(r))
      BY <1>2 DEF InsertUser, WriteUser, MarkDeleted, RevokeAll, Using
    <2> QED
      BY <2>1, <2>2, <2>3 DEF Administration
  <1> QED
    BY <1>5, <1>6, <1>7, <1>8 DEF AccountCall, Password

LEMMA WhoUses ==
    ASSUME NEW r \in Requests, AccountCall(r), pc[r] \in Using
    PROVE  Rotate(r) \/ WritePassword(r)
  <1>1. ASSUME NEW op, NEW label, NEW read, Arrive(r, op, label, read) PROVE FALSE
    BY <1>1 DEF Arrive, Using
  <1>2. ASSUME NEW op, NEW u, NEW ticket, NEW asked, NEW label, FindUser(r, op, u, ticket, asked, label)
        PROVE  FALSE
    BY <1>1, <1>2 DEF FindUser
  <1>3. ASSUME NEW from, NEW to, Step(r, from, to) PROVE from \in Using
    BY <1>3 DEF Step
  <1>4. ASSUME Session(r) PROVE Rotate(r)
    <2>1. ASSUME Login(r) \/ Refresh(r) \/ SwitchTenant(r) PROVE FALSE
      <3>1. PICK op, u, ticket, asked, label : FindUser(r, op, u, ticket, asked, label)
        BY <2>1 DEF Login, Refresh, SwitchTenant
      <3> QED
        BY <1>2, <3>1
    <2>2. ~Logout(r)
      BY <1>1 DEF Logout
    <2>3. ASSUME \/ CountFailure(r) \/ ClearFailures(r) \/ Issue(r)
                 \/ ReadRecord(r) \/ IssueNext(r) \/ IssueSwitched(r)
          PROVE  FALSE
      <3>1. PICK from, to : /\ Step(r, from, to)
                            /\ from \in {"countFailure", "clearFailures", "issue", "record",
                                         "issueNext", "issueSwitched"}
        BY <2>3 DEF CountFailure, ClearFailures, Issue, ReadRecord, IssueNext, IssueSwitched
      <3> QED
        BY <1>3, <3>1 DEF Using
    <2> QED
      BY <1>4, <2>1, <2>2, <2>3 DEF Session
  <1>5. ~SecondFactor(r)
    BY <1>2, <1>3 DEF SecondFactor, Setup2fa, WriteSecret, Enable2fa, WriteEnabled, Disable2fa, WriteDisabled, Using
  <1>6. ~(ForgotPassword(r) \/ CreateLink(r) \/ ResetPassword(r))
    BY <1>1, <1>2, <1>3 DEF ForgotPassword, CreateLink, ResetPassword, Using
  <1>7. ~Administration(r)
    <2>1. ~(CreateUser(r) \/ UpdateUser(r) \/ SoftDelete(r))
      BY <1>1, <1>2 DEF CreateUser, UpdateUser, SoftDelete
    <2>2. ~(InsertUser(r) \/ WriteUser(r) \/ MarkDeleted(r) \/ RevokeAll(r))
      BY <1>3 DEF InsertUser, WriteUser, MarkDeleted, RevokeAll, Using
    <2> QED
      BY <2>1, <2>2 DEF Administration
  <1> QED
    BY <1>4, <1>5, <1>6, <1>7 DEF AccountCall, Password

(* What is revoked or used stays so, but for what the call itself makes.   *)
TokensStayDead(r) == \A t \in Tokens \ {r} : ~IsLive(t) => ~IsLive(t)'
LinksStayUsed(r) ==
    \A l \in Requests \ {r} : link[l] \in ResetLink /\ link[l].used =>
        link'[l] \in ResetLink /\ link'[l].used

LEMMA UsedStays ==
    ASSUME SessionsInv, NEW r \in Requests, NEW places, GoesOn(r, places),
           TokensStayDead(r), LinksStayUsed(r), portal'.token \in {portal.token, r, Nothing},
           NEW t, IsUsed(t)
    PROVE  IsUsed(t)'
  <1>1. pc[r] # "ended" /\ \A q \in Requests \ {r} : pc'[q] = pc[q]
    BY ContinueMoves DEF GoesOn, SessionsInv, RolesInv
  <1>2. link[r] = Nothing
    BY <1>1 DEF SessionsInv, TokensOK
  <1>3. t[1] = "rotate" => t[2] \in Tokens /\ ~IsLive(t[2])' /\ (t[2] \in Requests => pc'[t[2]] = "ended")
    <2>1. t[1] = "rotate" => t[2] \in Tokens \ {r}
      BY <1>1 DEF IsUsed
    <2> QED
      BY <1>1, <2>1 DEF IsUsed, TokensStayDead
  <1>4. t[1] = "reset" => t[2] \in Requests /\ link'[t[2]] \in ResetLink /\ link'[t[2]].used
    BY <1>2, AccountsAssumption DEF IsUsed, LinksStayUsed
  <1>5. t[1] = "clear" => t[2] \in Requests /\ portal'.token # t[2] /\ pc'[t[2]] = "ended"
    BY <1>1, NothingAssumption DEF IsUsed
  <1>6. Tokens' = Tokens /\ ResetLink' = ResetLink
    BY DEF Tokens, ResetLink
  <1> QED
    BY <1>3, <1>4, <1>5, <1>6 DEF IsUsed

LEMMA SomeRevoked ==
    ASSUME SessionsInv, NEW r, NEW S, token' = Revoked(S)
    PROVE  TokensStayDead(r)
  <1> SUFFICES ASSUME NEW t \in Tokens, ~IsLive(t) PROVE ~IsLive(t)'
    BY DEF TokensStayDead
  <1>1. token'[t] = token[t]
    BY DEF Revoked
  <1> QED
    BY <1>1 DEF IsLive

LEMMA OneIssued ==
    ASSUME SessionsInv, NEW r, NEW new, token' = [token EXCEPT ![r] = new]
    PROVE  TokensStayDead(r)
  BY DEF SessionsInv, TokensOK, TokensStayDead, IsLive

LEMMA OneRevoked ==
    ASSUME SessionsInv, NEW r, NEW s \in Tokens, token[s] \in RefreshToken,
           token' = [token EXCEPT ![s] = [@ EXCEPT !.revoked = TRUE]]
    PROVE  TokensStayDead(r) /\ ~IsLive(s)'
  <1>1. [token[s] EXCEPT !.revoked = TRUE].revoked
    BY DEF RefreshToken
  <1>2. \A t \in Tokens : token'[t] = IF t = s THEN [token[s] EXCEPT !.revoked = TRUE] ELSE token[t]
    BY DEF SessionsInv, TokensOK
  <1> QED
    BY <1>1, <1>2 DEF TokensStayDead, IsLive

LEMMA SameTokensStay ==
    ASSUME NEW r, UNCHANGED <<token, link>> PROVE TokensStayDead(r) /\ LinksStayUsed(r)
  BY DEF TokensStayDead, LinksStayUsed, IsLive

LEMMA SameLinksStay ==
    ASSUME NEW r, UNCHANGED link PROVE LinksStayUsed(r)
  BY DEF LinksStayUsed

LEMMA RotateSpends ==
    ASSUME SessionsInv, NEW r \in Requests, Rotate(r)
    PROVE  /\ TokensStayDead(r) /\ LinksStayUsed(r)
           /\ \A t : IsAt(r, t) => IsUsed(t)'
  <1>1. PICK s \in Tokens : s = job[r].ticket /\ token[s] \in RefreshToken
    BY DEF Rotate, Step, SessionsInv, DecisionOK, IsRefreshed
  <1>2. /\ pc[r] = "rotate" /\ Continue(r, "issueNext", job[r]) /\ UNCHANGED link
        /\ token' = [token EXCEPT ![s] = [@ EXCEPT !.revoked = TRUE]]
    BY <1>1 DEF Rotate, Step
  <1>3. TokensStayDead(r) /\ ~IsLive(s)'
    BY <1>1, <1>2, OneRevoked
  <1>4. s \in Requests => pc'[s] = "ended"
    <2>1. s \in Requests => pc[s] = "ended"
      BY <1>1, AccountsAssumption DEF SessionsInv, TokensOK
    <2> QED
      BY <1>2, <2>1, ContinueMoves DEF SessionsInv, RolesInv
  <1>5. ASSUME NEW t, IsAt(r, t) PROVE IsUsed(t)'
    <2>1. t[1] = "rotate" /\ t[2] = s
      BY <1>1, <1>2, <1>5 DEF IsAt, Ticket
    <2> QED
      BY <1>3, <1>4, <2>1, SameSets DEF IsUsed, Using
  <1> QED
    BY <1>2, <1>3, <1>5, SameLinksStay

LEMMA WritePasswordSpends ==
    ASSUME SessionsInv, NEW r \in Requests, WritePassword(r)
    PROVE  /\ TokensStayDead(r) /\ LinksStayUsed(r)
           /\ \A t : IsAt(r, t) => IsUsed(t)'
  <1>1. PICK l \in Requests : /\ l = job[r].ticket /\ link[l] \in ResetLink
    BY DEF WritePassword, Step, SessionsInv, RolesInv, ErrandOK
  <1> DEFINE new == [link[l] EXCEPT !.used = TRUE]
  <1>2. new \in ResetLink /\ new.used
    BY <1>1 DEF ResetLink
  <1>3. pc[r] = "reset" /\ link' = [link EXCEPT ![l] = new] /\ token' = Revoked(AtHome(job[r].user))
    BY <1>1 DEF WritePassword, Step
  <1> HIDE DEF new
  <1>4. \A q \in Requests : link'[q] = IF q = l THEN new ELSE link[q]
    BY <1>3 DEF SessionsInv, RolesInv, LinksOK
  <1>5. TokensStayDead(r) /\ LinksStayUsed(r)
    BY <1>2, <1>3, <1>4, SomeRevoked DEF LinksStayUsed
  <1>6. ASSUME NEW t, IsAt(r, t) PROVE IsUsed(t)'
    <2>1. t = <<"reset", l>>
      BY <1>1, <1>3, <1>6 DEF IsAt, Ticket
    <2>2. t[1] = "reset" /\ t[2] = l /\ ResetLink' = ResetLink
      BY <2>1 DEF ResetLink
    <2> QED
      BY <1>2, <1>4, <2>2 DEF IsUsed, Using
  <1> QED
    BY <1>5, <1>6

(* A ticket that a call of staff finds has not been used.                  *)
LEMMA StaffFindValid ==
    ASSUME SessionsInv, NEW r \in Requests, AccountCall(r), pc'[r] \in Using
    PROVE  ~IsUsed(Ticket(pc'[r], job'[r]))
  <1>1. CASE ReadRecord(r)
    <2>1. /\ Continue(r, IF IsLive(job[r].ticket) /\ now < token[job[r].ticket].expires
                         THEN "rotate" ELSE "ended", job[r])
      BY <1>1 DEF ReadRecord, Step
    <2>2. pc'[r] = "rotate" /\ IsLive(job[r].ticket) /\ job'[r] = job[r]
      BY <2>1, ContinueMoves DEF Using, SessionsInv, RolesInv
    <2>3. Ticket(pc'[r], job'[r]) = <<"rotate", job[r].ticket>>
      BY <2>2 DEF Ticket
    <2> QED
      BY <2>2, <2>3 DEF IsUsed
  <1>2. CASE ResetPassword(r)
    <2>1. PICK l \in Requests :
              Continue(r, IF link[l].used \/ link[l].expires <= now THEN "ended" ELSE "reset",
                       Errand(link[l].user, Nothing, l, Nothing))
      BY <1>2 DEF ResetPassword, Arrive
    <2>2. pc'[r] = "reset" /\ ~link[l].used /\ job'[r] = Errand(link[l].user, Nothing, l, Nothing)
      BY <2>1, ContinueMoves DEF Using, SessionsInv, RolesInv
    <2>3. Ticket(pc'[r], job'[r]) = <<"reset", l>>
      BY <2>2 DEF Ticket, Errand
    <2> QED
      BY <2>2, <2>3 DEF IsUsed
  <1> QED
    BY <1>1, <1>2, WhoFinds DEF SessionsInv, RolesInv

LEMMA StaffKeepUsed ==
    ASSUME SessionsInv, NEW r \in Requests, AccountCall(r)
    PROVE  TokensStayDead(r) /\ LinksStayUsed(r)
  <1>1. CASE \/ Login(r) \/ CountFailure(r) \/ ClearFailures(r) \/ Refresh(r) \/ ReadRecord(r) \/ SwitchTenant(r)
    <2>1. UNCHANGED <<token, link>>
      BY <1>1 DEF Login, CountFailure, ClearFailures, Refresh, ReadRecord, SwitchTenant, FindUser, accounts
    <2> QED
      BY <2>1, SameTokensStay
  <1>2. CASE SecondFactor(r)
    <2>1. UNCHANGED <<token, link>>
      BY <1>2 DEF SecondFactor, Setup2fa, WriteSecret, Enable2fa, WriteEnabled, Disable2fa, WriteDisabled,
          FindUser, accounts
    <2> QED
      BY <2>1, SameTokensStay
  <1>3. CASE \/ ForgotPassword(r) \/ ResetPassword(r) \/ CreateUser(r) \/ InsertUser(r) \/ UpdateUser(r)
             \/ WriteUser(r) \/ SoftDelete(r) \/ MarkDeleted(r)
    <2>1. UNCHANGED <<token, link>>
      BY <1>3 DEF ForgotPassword, ResetPassword, CreateUser, InsertUser, UpdateUser, WriteUser, SoftDelete,
          MarkDeleted, FindUser, accounts
    <2> QED
      BY <2>1, SameTokensStay
  <1>4. CASE Issue(r) \/ IssueNext(r) \/ IssueSwitched(r)
    <2>1. PICK new : token' = [token EXCEPT ![r] = new] /\ UNCHANGED link
      BY <1>4 DEF Issue, IssueNext, IssueSwitched
    <2> QED
      BY <2>1, OneIssued, SameLinksStay
  <1>5. CASE Logout(r) \/ RevokeAll(r)
    <2>1. PICK tokens : token' = Revoked(tokens) /\ UNCHANGED link
      BY <1>5 DEF Logout, RevokeAll
    <2> QED
      BY <2>1, SomeRevoked, SameLinksStay
  <1>6. CASE CreateLink(r)
    <2>1. PICK new : link' = [link EXCEPT ![r] = new] /\ UNCHANGED token
      BY <1>6 DEF CreateLink
    <2> QED
      BY <2>1 DEF SessionsInv, RolesInv, LinksOK, LinksStayUsed, TokensStayDead, IsLive
  <1> QED
    BY <1>1, <1>2, <1>3, <1>4, <1>5, <1>6, RotateSpends, WritePasswordSpends
    DEF AccountCall, Session, Password, Administration

LEMMA StaffTickets ==
    ASSUME SessionsInv, TicketsOK, NoteTickets, NEW r \in Requests, AccountCall(r), UNCHANGED guardian
    PROVE  TicketsOK'
  <1>1. GoesOn(r, AccountPlaces) /\ \A q \in Requests \ {r} : pc'[q] = pc[q] /\ job'[q] = job[q]
    BY AccountCallsGoOn, ContinueMoves DEF GoesOn, SessionsInv, RolesInv
  <1>2. \A t : IsUsed(t) => IsUsed(t)'
    BY <1>1, StaffKeepUsed, UsedStays DEF guardian
  <1>3. ASSUME Uses(r) PROVE \A t : IsAt(r, t) => IsUsed(t)'
    BY <1>3, WhoUses, RotateSpends, WritePasswordSpends DEF Uses
  <1> QED
    BY <1>1, <1>2, <1>3, StaffFindValid, TicketsMove

LEMMA PortalTickets ==
    ASSUME SessionsInv, PortalInv, TicketsOK, NoteTickets, NEW r \in Requests, PortalCall(r),
           UNCHANGED <<accounts, accountHistory>>
    PROVE  TicketsOK'
  <1>1. /\ GoesOn(r, PortalPlaces) /\ pc[r] # "ended"
        /\ \A q \in Requests \ {r} : pc'[q] = pc[q] /\ job'[q] = job[q]
    BY PortalCallsGoOn, ContinueMoves DEF GoesOn, SessionsInv, RolesInv
  <1>2. TokensStayDead(r) /\ LinksStayUsed(r) /\ account' = account
    BY SameTokensStay DEF accounts
  <1>3. portal'.token \in {portal.token, r, Nothing}
    BY DEF PortalCall, RequestLink, MintMagic, VerifyLink, ClearToken, SendPaymentLink, EnsurePortalToken,
       FindGuardian, guardian, NoToken
  <1>4. \A t : IsUsed(t) => IsUsed(t)'
    BY <1>1, <1>2, <1>3, UsedStays
  <1>5. ASSUME pc'[r] \in Using PROVE ~IsUsed(Ticket(pc'[r], job'[r]))
    <2>1. \A label, read : Continue(r, label, read) => label = pc'[r]
      BY ContinueMoves DEF SessionsInv, RolesInv
    <2>2. VerifyLink(r)
      BY <1>5, <2>1
      DEF PortalCall, RequestLink, MintMagic, ClearToken, SendPaymentLink, EnsurePortalToken, FindGuardian,
          Arrive, Step, Using
    <2>3. PICK t \in Requests :
              Continue(r, IF portal.token = t /\ portal.expires > now THEN "clear" ELSE "ended", portal)
      BY <2>2 DEF VerifyLink, FindGuardian, Arrive
    <2>4. pc'[r] = "clear" /\ job'[r] = portal
      BY <1>5, <2>3, ContinueMoves DEF SessionsInv, RolesInv, Using
    <2>5. Ticket(pc'[r], job'[r]) = <<"clear", portal.token>>
      BY <2>4 DEF Ticket
    <2> QED
      BY <2>5 DEF IsUsed
  <1>6. ASSUME Uses(r), NEW t, IsAt(r, t) PROVE IsUsed(t)'
    <2>1. ClearToken(r) /\ pc[r] = "clear"
      BY <1>6 DEF Uses, Using, PortalCall, RequestLink, MintMagic, VerifyLink, SendPaymentLink,
         EnsurePortalToken, ClearToken, FindGuardian, Arrive, Step
    <2>2. PICK s \in Requests : s = job[r].token /\ pc[s] = "ended"
      BY <2>1 DEF PortalInv, PortalOK, HasReadPortal, IsMade
    <2>3. portal'.token = Nothing /\ pc'[s] = "ended" /\ t[1] = "clear" /\ t[2] = s
      BY <1>1, <1>6, <2>1, <2>2 DEF ClearToken, NoToken, IsAt, Ticket
    <2> QED
      BY <2>3, NothingAssumption DEF IsUsed, Using
  <1> QED
    BY <1>1, <1>4, <1>5, <1>6, TicketsMove

LEMMA OtherTickets ==
    ASSUME SessionsInv, TicketsOK, NoteTickets, NEW r \in Requests, LimitedCall(r) \/ Fail(r),
           UNCHANGED <<accounts, guardian>>
    PROVE  TicketsOK'
  <1>1. PICK places : GoesOn(r, places) /\ places \in {LimitPlaces, {"ended"}}
    BY LimitedCallsGoOn, FailGoesOn
  <1>2. pc'[r] \in places /\ \A q \in Requests \ {r} : pc'[q] = pc[q] /\ job'[q] = job[q]
    BY <1>1, ContinueMoves DEF GoesOn, SessionsInv, RolesInv
  <1>3. \A t : IsUsed(t) => IsUsed(t)'
    BY <1>1, SameTokensStay, UsedStays DEF accounts, guardian
  <1>4. pc'[r] \notin Using /\ ~Uses(r)
    BY <1>1, <1>2 DEF LimitPlaces, Using, Uses, accounts, guardian
  <1> QED
    BY <1>2, <1>3, <1>4, TicketsMove

LEMMA NobodyMoves ==
    ASSUME TicketsOK, UNCHANGED <<pc, job, accounts, guardian>>,
           NoteTickets \/ UNCHANGED <<shared, used>>
    PROVE  TicketsOK'
  <1>1. \A t : (IsUsed(t)' <=> IsUsed(t)) /\ \A q \in Requests : IsAt(q, t)' <=> IsAt(q, t)
    BY DEF IsUsed, IsAt, IsLive, accounts, guardian, Tokens, ResetLink
  <1>2. used' = used /\ shared \subseteq shared'
    BY DEF NoteTickets, Using
  <1> QED
    BY <1>1, <1>2 DEF TicketsOK, OneTimeTickets

THEOREM TicketsHold == Spec => []TicketsOK
  <1>1. Init => TicketsOK
    BY DEF Init, CallsInit, TicketsOK, OneTimeTickets, IsAt, Using
  <1>2. TicketsOK /\ SessionsInv /\ PortalInv /\ [Next]_<<parts, shared, used>> => TicketsOK'
    <2> SUFFICES ASSUME TicketsOK, SessionsInv, PortalInv, [Next]_<<parts, shared, used>> PROVE TicketsOK'
      OBVIOUS
    <2>1. CASE Next
      BY <2>1, StaffTickets, PortalTickets, OtherTickets, NobodyMoves DEF Next, Operation, Other, PassTime
    <2>2. CASE UNCHANGED <<parts, shared, used>>
      BY <2>2, NobodyMoves DEF parts, calls
    <2> QED
      BY <2>1, <2>2
  <1> QED
    BY <1>1, <1>2, SessionsInvHolds, PortalInvHolds, PTL DEF Spec

(* A refresh token, a reset link and a magic link are each used once,      *)
(* unless two calls had found it valid before either used it: for any      *)
(* number of calls and whatever else goes on.                              *)
THEOREM TicketsAreUsedOnce == Spec => []OneTimeTickets
  <1>1. TicketsOK => OneTimeTickets
    BY DEF TicketsOK
  <1> QED
    BY <1>1, TicketsHold, PTL

(* The rows of users, sessions and reset links, and of the guardian, are   *)
(* what the code takes them for, for any number of each.                   *)
THEOREM AccountsAreTyped == Spec => []AccountsTypeOK
  <1>1. SessionsInv => AccountsTypeOK
    BY DEF SessionsInv, RolesInv, AccountsOK, LinksOK, TokensOK, HistoriesOK, AccountsTypeOK
  <1> QED
    BY <1>1, SessionsInvHolds, PTL

THEOREM PortalIsTyped == Spec => []PortalTypeOK
  <1>1. PortalInv => PortalTypeOK
    BY DEF PortalInv, PortalOK
  <1> QED
    BY <1>1, PortalInvHolds, PTL
=============================================================================
