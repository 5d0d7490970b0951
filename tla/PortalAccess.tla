---------------------------- MODULE PortalAccess ----------------------------
(***************************************************************************)
(* The one column that opens the portal for a guardian, and the calls that *)
(* write it: a magic link replaces it for minutes and is cleared when it   *)
(* signs in, a payment link keeps it if it is there and otherwise replaces *)
(* it for a year.  No call holds the row from its query to its update.     *)
(*                                                                         *)
(* A token is known by the call that has made it.                          *)
(***************************************************************************)
EXTENDS HttpCalls

CONSTANTS
    MagicTTL, \* 15 minutes
    YearTTL   \* one year

ASSUME PortalAssumption == {MagicTTL, YearTTL} \subseteq Nat \ {0}

VARIABLES
    portal,   \* guardians.portal_token and portal_token_expires_at
    newest,   \* history: the token of the link that was made last
    spent,    \* history: tokens that have signed in
    unaware   \* history: tokens cleared or handed out by a call that had
              \*   read the column before another call wrote it

guardian == <<portal, newest, spent, unaware>>

Portals == [token : Requests \cup {Nothing}, expires : Nat]
NoToken == [token |-> Nothing, expires |-> 0]

PortalInit ==
    /\ portal = NoToken
    /\ newest = Nothing
    /\ spent = {}
    /\ unaware = {}

FindGuardian(r, op, label) ==
    /\ Arrive(r, op, label, portal)
    /\ UNCHANGED guardian

(* The tokens a call clears or hands out, if it has read something else.   *)
Note(r, tokens) == unaware' = IF job[r] = portal THEN unaware ELSE unaware \cup tokens

-----------------------------------------------------------------------------
(* Magic links *)

RequestLink(r) == FindGuardian(r, "requestLink", "mint")

MintMagic(r) ==
    /\ Step(r, "mint", "ended")
    /\ portal' = [token |-> r, expires |-> now + MagicTTL]
    /\ newest' = r
    /\ UNCHANGED <<spent, unaware>>

(* With whatever token a link may have had. *)
VerifyLink(r) ==
    \E t \in Requests :
        FindGuardian(r, "verifyLink", IF portal.token = t /\ portal.expires > now THEN "clear" ELSE "ended")

(* By the guardian's id: a token that was written meanwhile goes as well. *)
ClearToken(r) ==
    /\ Step(r, "clear", "ended")
    /\ portal' = NoToken
    /\ spent' = spent \cup {job[r].token}
    /\ Note(r, {portal.token})
    /\ UNCHANGED newest

-----------------------------------------------------------------------------
(* Payment links *)

SendPaymentLink(r) == FindGuardian(r, "paymentLink", "ensure")

HasToken(seen) == seen.token # Nothing /\ seen.expires >= now

EnsurePortalToken_asRead(r) ==   \* mutant of EnsurePortalToken: the link takes the row as it was read
    LET seen == job[r] IN
    /\ Step(r, "ensure", "ended")
    /\ portal' = IF HasToken(seen) THEN portal ELSE [token |-> r, expires |-> now + YearTTL]
    /\ newest' = seen.token
    /\ Note(r, {seen.token})
    /\ UNCHANGED spent

EnsurePortalToken(r) ==
    LET seen == job[r]
        token == IF HasToken(seen) THEN seen.token ELSE r
    IN  /\ Step(r, "ensure", "ended")
        /\ portal' = IF HasToken(seen) THEN portal ELSE [token |-> r, expires |-> now + YearTTL]
        /\ newest' = token
        /\ Note(r, {token} \ {r})
        /\ UNCHANGED spent

(* The portal looks for the token only, expired or not. *)
ShowsPortal(t) == t # Nothing /\ portal.token = t

-----------------------------------------------------------------------------
PortalCall(r) ==
    \/ RequestLink(r) \/ MintMagic(r) \/ VerifyLink(r) \/ ClearToken(r)
    \/ SendPaymentLink(r) \/ EnsurePortalToken(r)

-----------------------------------------------------------------------------
(* Properties *)

PortalTypeOK ==
    /\ portal \in Portals
    /\ newest \in Requests \cup {Nothing}
    /\ spent \subseteq Requests /\ unaware \subseteq Requests \cup {Nothing}

(* The link that was made last, for signing in or for paying, opens the    *)
(* portal until it has signed in (guardian-auth.service.ts 110,            *)
(* payment-link.service.ts 148-164), unless the call that made it, or the  *)
(* one that cleared it, had read the guardian before another wrote it.     *)
NewestLinkOpens ==
    newest \notin spent \cup unaware \cup {Nothing} => ShowsPortal(newest)

(* "We use a long TTL (1 year) because invoice links are referenced        *)
(* repeatedly over the payment lifecycle" (payment-link.service.ts 92-94): *)
(* does a payment link that has just been made live longer than a magic    *)
(* link?  Not the one that was given the token of a magic link.            *)
PaymentLinksLast ==
    [][\A r \in Requests : EnsurePortalToken(r) => portal'.expires > now + MagicTTL]_<<calls, guardian>>
=============================================================================
