--------------------------- MODULE StaffAccounts ---------------------------
(***************************************************************************)
(* The accounts of staff: signing in, exchanging and ending sessions, the  *)
(* second factor, resetting a password, and the users an administrator     *)
(* creates, moves and deletes.  Only resetPassword has a transaction;      *)
(* everything else reads the row, decides, and updates it by its id.       *)
(*                                                                         *)
(* A password, a secret, a session and a reset link are known by the call  *)
(* that has made them; whether what is typed is right is an input.         *)
(***************************************************************************)
EXTENDS HttpCalls

CONSTANTS
    Users,         \* identities of users: e-mail addresses of one tenant
    StartAccounts, \* what their rows may be at the start
    Locations,     \* locations that exist
    Earlier,       \* sessions that were there at the start
    MaxFailed,     \* MAX_FAILED_ATTEMPTS
    LockTime, SessionTTL, LinkTTL,
    AccessTTL      \* jwt.expiresIn: how long an access token is good for

Tokens == Requests \cup Earlier
Tenants == {"home", "away"}
Placed == {"LOCATION_MANAGER", "STAFF"}
Roles == {"SUPER_ADMIN"} \cup Placed

(* totpEnabled is totp; locked and lockedUntil are always written together:*)
(* 0 when not locked.                                                      *)
Account == [role : Roles, location : Locations \cup {Nothing},
            password : Requests \cup {Nothing}, failed : Nat, lockedUntil : Nat,
            totp : BOOLEAN, secret : Tokens \cup {Nothing}, gone : BOOLEAN]
ResetLink == [user : Users, expires : Nat, used : BOOLEAN]
RefreshToken == [user : Users, tenant : Tenants, parent : Tokens \cup {Nothing},
                 under : Requests \cup {Nothing}, behind : BOOLEAN,
                 revoked : BOOLEAN, expires : Nat]

(* A row as calls that did not overlap have left it; its password is not   *)
(* of a call.                                                              *)
IsSound(a) ==
    /\ a.role \in Placed <=> a.location # Nothing
    /\ a.password = Nothing
    /\ a.failed >= MaxFailed <=> a.lockedUntil # 0
    /\ a.totp => a.secret # Nothing

ASSUME AccountsAssumption ==
    /\ StartAccounts \subseteq Account
    /\ \A a \in StartAccounts : IsSound(a)
    /\ Nothing \notin Account \cup ResetLink \cup RefreshToken
    /\ Requests \cap Earlier = {}
    /\ MaxFailed \in Nat \ {0}
    /\ {LockTime, SessionTTL, LinkTTL, AccessTTL} \subseteq Nat \ {0}
    /\ Nothing \notin Locations

VARIABLES
    account,  \* users: the row of each, or Nothing
    token,    \* refresh_tokens by the call that issued each
    link,     \* password_reset_tokens by the call that made each
    stale,    \* history: calls since whose first query the account they
              \*   work on was written by another call
    crossed,  \* history: users whose account such a call has changed
    wrong,    \* history: wrong passwords since the last right or new one
    proven    \* history: secrets a code was verified against

accounts == <<account, token, link>>
accountHistory == <<wrong, proven>>

Exists(u) == account[u] # Nothing /\ ~account[u].gone

(* parent is the token exchanged for this one.  Two histories: the         *)
(* password that its user signed in with, and whether the session was      *)
(* opened, by a call that had read the account or with an access token     *)
(* that was issued before, when another password stood already.            *)
NewToken(u, tenant, parent, under, behind) ==
    [user |-> u, tenant |-> tenant, parent |-> parent, under |-> under,
     behind |-> behind, revoked |-> FALSE, expires |-> now + SessionTTL]

IsLive(t) == token[t] # Nothing /\ ~token[t].revoked

(* refresh and JwtStrategy.validate look for the user in the tenant that   *)
(* the token names; users are of "home".                                   *)
HasUser(t) == token[t].tenant = "home"

AccountsInit ==
    /\ account \in [Users -> StartAccounts \cup {Nothing}]
    /\ token = [t \in Tokens |->
                   IF t \in Earlier /\ \E u \in Users : Exists(u)
                   THEN NewToken(CHOOSE u \in Users : Exists(u), "home", Nothing, Nothing, FALSE)
                   ELSE Nothing]
    /\ link = [r \in Requests |-> Nothing]
    /\ stale = {}
    /\ crossed = {}
    /\ wrong = [u \in Users |-> IF Exists(u) THEN account[u].failed ELSE 0]
    /\ proven = {account[u].secret : u \in {v \in Users : Exists(v) /\ account[v].totp}}

(* What a call was asked to do, and the row it has read. *)
Errand(u, seen, ticket, asked) == [user |-> u, seen |-> seen, ticket |-> ticket, asked |-> asked]

(* UPDATE users SET ... WHERE id. *)
Update(u, row) == account' = [account EXCEPT ![u] = row]

(* A call whose first query looks for a user, and what it does if it finds *)
(* one.                                                                    *)
FindUser(r, op, u, ticket, asked, label) ==
    /\ Arrive(r, op, IF Exists(u) THEN label ELSE "ended", Errand(u, account[u], ticket, asked))
    /\ UNCHANGED <<accounts, accountHistory>>

-----------------------------------------------------------------------------
(* Signing in *)

(* asked: whether the code of the second factor is right. *)
Login(r) ==
    \E u \in Users, right, code \in BOOLEAN :
        FindUser(r, "login", u, now, code,
                 IF account[u].lockedUntil > now THEN "ended"
                 ELSE IF right THEN "clearFailures" ELSE "countFailure")

IsTooMany_more(failed) == failed > MaxFailed   \* mutant of IsTooMany
IsTooMany(failed) == failed >= MaxFailed

CountFailure(r) ==
    LET u == job[r].user
        failed == job[r].seen.failed + 1
    IN  /\ Step(r, "countFailure", "ended")
        /\ Update(u, [account[u] EXCEPT
               !.failed = failed,
               !.lockedUntil = IF IsTooMany(failed) THEN job[r].ticket + LockTime ELSE 0])
        /\ wrong' = [wrong EXCEPT ![u] = @ + 1]
        /\ UNCHANGED <<token, link, proven>>

(* The second factor is asked for as the row was when it was read. *)
PassesSecondFactor(seen, code) == seen.totp => seen.secret # Nothing /\ code

ClearFailures(r) ==
    LET u == job[r].user IN
    /\ Step(r, "clearFailures", IF PassesSecondFactor(job[r].seen, job[r].asked) THEN "issue" ELSE "ended")
    /\ Update(u, [account[u] EXCEPT !.failed = 0, !.lockedUntil = 0])
    /\ wrong' = [wrong EXCEPT ![u] = 0]
    /\ UNCHANGED <<token, link, proven>>

(* A call has read the account before the password that stands was set.    *)
IsOvertaken(r, under) == r \in stale /\ under # account[job[r].user].password

(* issueTokens, for a login. *)
Issue(r) ==
    LET under == job[r].seen.password IN
    /\ Step(r, "issue", "ended")
    /\ token' = [token EXCEPT ![r] =
           NewToken(job[r].user, "home", Nothing, under, IsOvertaken(r, under))]
    /\ UNCHANGED <<account, link, accountHistory>>

-----------------------------------------------------------------------------
(* Sessions *)

(* verifyRefreshToken has looked at the signature and the expiry. *)
Refresh(r) ==
    \E t \in Tokens :
        /\ token[t] # Nothing /\ now < token[t].expires
        /\ FindUser(r, "refresh", token[t].user, t, Nothing,
                    IF HasUser(t) THEN "record" ELSE "ended")

ReadRecord_anyLive(r) ==   \* mutant of ReadRecord: revoked is not looked at
    /\ Step(r, "record", IF now < token[job[r].ticket].expires THEN "rotate" ELSE "ended")
    /\ UNCHANGED <<accounts, accountHistory>>

ReadRecord(r) ==
    LET t == job[r].ticket IN
    /\ Step(r, "record", IF IsLive(t) /\ now < token[t].expires THEN "rotate" ELSE "ended")
    /\ UNCHANGED <<accounts, accountHistory>>

Rotate_keeps(r) ==   \* mutant of Rotate: the old token is not revoked
    /\ Step(r, "rotate", "issueNext")
    /\ UNCHANGED <<accounts, accountHistory>>

Rotate(r) ==
    /\ Step(r, "rotate", "issueNext")
    /\ token' = [token EXCEPT ![job[r].ticket] = [@ EXCEPT !.revoked = TRUE]]
    /\ UNCHANGED <<account, link, accountHistory>>

(* issueTokens, for a refresh. *)
IssueNext(r) ==
    LET t == token[job[r].ticket] IN
    /\ Step(r, "issueNext", "ended")
    /\ token' = [token EXCEPT ![r] =
           NewToken(t.user, "home", job[r].ticket, t.under, t.behind \/ IsOvertaken(r, t.under))]
    /\ UNCHANGED <<account, link, accountHistory>>

Revoked(tokens) ==
    [t \in Tokens |-> IF t \in tokens /\ IsLive(t) THEN [token[t] EXCEPT !.revoked = TRUE] ELSE token[t]]

AtHome(u) == {t \in Tokens : token[t] # Nothing /\ token[t].user = u /\ token[t].tenant = "home"}

(* JwtStrategy.validate, before any call that has to be signed in. *)
SignedIn(u) == Exists(u)

(* With no token in the body, all of the user's in this tenant. *)
Logout(r) ==
    \E u \in Users : \E tokens \in {AtHome(u)} \cup {{t} : t \in {t \in Tokens : token[t] # Nothing}} :
        /\ SignedIn(u) /\ \A t \in tokens : token[t].user = u
        /\ Arrive(r, "logout", "ended", Nothing)
        /\ token' = Revoked(tokens)
        /\ UNCHANGED <<account, link, accountHistory>>

(* The access token issued with a session; whether the session has been    *)
(* revoked since is not looked at.                                         *)
HasAccess(t) == token[t] # Nothing /\ HasUser(t) /\ now < token[t].expires - SessionTTL + AccessTTL

SwitchTenant(r) ==
    \E t \in Tokens, tenant \in Tenants :
        /\ HasAccess(t)
        /\ FindUser(r, "switchTenant", token[t].user, t, tenant,
                    IF account[token[t].user].role = "SUPER_ADMIN" THEN "issueSwitched" ELSE "ended")

(* issueTokens, for the tenant that is asked for. *)
IssueSwitched(r) ==
    LET under == token[job[r].ticket].under IN
    /\ Step(r, "issueSwitched", "ended")
    /\ token' = [token EXCEPT ![r] =
           NewToken(job[r].user, job[r].asked, Nothing, under,
                    under # account[job[r].user].password)]
    /\ UNCHANGED <<account, link, accountHistory>>

-----------------------------------------------------------------------------
(* The second factor *)

Setup2fa_again(r) ==   \* mutant of Setup2fa: an enabled second factor is set up again
    \E u \in Users : FindUser(r, "setup2fa", u, Nothing, Nothing, "writeSecret")

Setup2fa(r) ==
    \E u \in Users :
        FindUser(r, "setup2fa", u, Nothing, Nothing,
                 IF account[u].totp THEN "ended" ELSE "writeSecret")

WriteSecret(r) ==
    /\ Step(r, "writeSecret", "ended")
    /\ Update(job[r].user, [account[job[r].user] EXCEPT !.secret = r])
    /\ UNCHANGED <<token, link, accountHistory>>

(* A wrong code, or none set up, ends the call. *)
Enable2fa(r) ==
    \E u \in Users, code \in BOOLEAN :
        FindUser(r, "enable2fa", u, Nothing, Nothing,
                 IF ~account[u].totp /\ account[u].secret # Nothing /\ code THEN "enable" ELSE "ended")

WriteEnabled(r) ==
    /\ Step(r, "enable", "ended")
    /\ Update(job[r].user, [account[job[r].user] EXCEPT !.totp = TRUE])
    /\ proven' = proven \cup {job[r].seen.secret}
    /\ UNCHANGED <<token, link, wrong>>

Disable2fa(r) ==
    \E u \in Users, right \in BOOLEAN :
        FindUser(r, "disable2fa", u, Nothing, Nothing,
                 IF account[u].totp /\ account[u].secret # Nothing /\ right THEN "disable" ELSE "ended")

WriteDisabled(r) ==
    /\ Step(r, "disable", "ended")
    /\ Update(job[r].user, [account[job[r].user] EXCEPT !.totp = FALSE, !.secret = Nothing])
    /\ UNCHANGED <<token, link, accountHistory>>

-----------------------------------------------------------------------------
(* Passwords *)

ForgotPassword(r) ==
    \E u \in Users : FindUser(r, "forgotPassword", u, Nothing, Nothing, "createLink")

CreateLink(r) ==
    /\ Step(r, "createLink", "ended")
    /\ link' = [link EXCEPT ![r] = [user |-> job[r].user, expires |-> now + LinkTTL, used |-> FALSE]]
    /\ UNCHANGED <<account, token, accountHistory>>

ResetPassword(r) ==
    \E l \in {l \in Requests : link[l] # Nothing} :
        /\ Arrive(r, "resetPassword",
                  IF link[l].used \/ link[l].expires <= now THEN "ended" ELSE "reset",
                  Errand(link[l].user, Nothing, l, Nothing))
        /\ UNCHANGED <<accounts, accountHistory>>

WritePassword_only(r) ==   \* mutant of WritePassword: the sessions stay
    LET u == job[r].user IN
    /\ Step(r, "reset", "ended")
    /\ Update(u, [account[u] EXCEPT !.password = r, !.failed = 0, !.lockedUntil = 0])
    /\ link' = [link EXCEPT ![job[r].ticket] = [@ EXCEPT !.used = TRUE]]
    /\ wrong' = [wrong EXCEPT ![u] = 0]
    /\ UNCHANGED <<token, proven>>

(* The one transaction: the password, the link and the user's sessions. *)
WritePassword(r) ==
    LET u == job[r].user IN
    /\ Step(r, "reset", "ended")
    /\ Update(u, [account[u] EXCEPT !.password = r, !.failed = 0, !.lockedUntil = 0])
    /\ link' = [link EXCEPT ![job[r].ticket] = [@ EXCEPT !.used = TRUE]]
    /\ token' = Revoked(AtHome(u))
    /\ wrong' = [wrong EXCEPT ![u] = 0]
    /\ UNCHANGED proven

-----------------------------------------------------------------------------
(* Users *)

(* Of the location that is asked for, only those with a place keep it. *)
Asked == [role : Roles \cup {Nothing}, location : Locations \cup {Nothing}]

CreateUser(r) ==
    \E u \in Users, dto \in Asked :
        /\ dto.role # Nothing
        /\ Arrive(r, "createUser",
                  IF account[u] # Nothing \/ (dto.role \in Placed /\ dto.location = Nothing)
                  THEN "ended" ELSE "insertUser",
                  Errand(u, Nothing, Nothing, dto))
        /\ UNCHANGED <<accounts, accountHistory>>

(* The unique index turns down an address that is taken by now. *)
InsertUser(r) ==
    LET u == job[r].user
        dto == job[r].asked
    IN  /\ Step(r, "insertUser", "ended")
        /\ IF account[u] # Nothing THEN UNCHANGED account
           ELSE Update(u, [role |-> dto.role,
                           location |-> IF dto.role \in Placed THEN dto.location ELSE Nothing,
                           password |-> r, failed |-> 0, lockedUntil |-> 0,
                           totp |-> FALSE, secret |-> Nothing, gone |-> FALSE])
        /\ UNCHANGED <<token, link, accountHistory>>

NextRole(seen, dto) == IF dto.role = Nothing THEN seen.role ELSE dto.role
NextLocation(seen, dto) ==
    IF NextRole(seen, dto) \notin Placed THEN Nothing
    ELSE IF dto.location = Nothing THEN seen.location ELSE dto.location

MayUpdate(seen, dto) ==
    /\ dto.role # Nothing \/ seen.role \in Placed
    /\ NextRole(seen, dto) \in Placed => NextLocation(seen, dto) # Nothing

UpdateUser(r) ==
    \E u \in Users, dto \in Asked :
        /\ dto.role # Nothing \/ dto.location # Nothing
        /\ FindUser(r, "updateUser", u, Nothing, dto,
                    IF MayUpdate(account[u], dto) THEN "writeUser" ELSE "ended")

WriteUser_asAsked(r) ==   \* mutant of WriteUser: columns that are not asked for are not written
    LET u == job[r].user
        dto == job[r].asked
    IN  /\ Step(r, "writeUser", "ended")
        /\ Update(u, [account[u] EXCEPT !.role = IF dto.role = Nothing THEN @ ELSE dto.role,
                                        !.location = NextLocation(job[r].seen, dto)])
        /\ UNCHANGED <<token, link, accountHistory>>

WriteUser(r) ==
    LET u == job[r].user
        seen == job[r].seen
        dto == job[r].asked
    IN  /\ Step(r, "writeUser", "ended")
        /\ Update(u, [account[u] EXCEPT !.role = NextRole(seen, dto),
                                        !.location = NextLocation(seen, dto)])
        /\ UNCHANGED <<token, link, accountHistory>>

(* Two updates at once, either of them first. *)
SoftDelete(r) ==
    \E u \in Users : FindUser(r, "deleteUser", u, Nothing, Nothing, "delete")

MarkDeleted(r) ==
    /\ Step(r, "delete", "revokeLeft") \/ Step(r, "markLeft", "ended")
    /\ Update(job[r].user, [account[job[r].user] EXCEPT !.gone = TRUE])
    /\ UNCHANGED <<token, link, accountHistory>>

RevokeAll(r) ==
    /\ Step(r, "delete", "markLeft") \/ Step(r, "revokeLeft", "ended")
    /\ token' = Revoked(AtHome(job[r].user))
    /\ UNCHANGED <<account, link, accountHistory>>

-----------------------------------------------------------------------------
Session(r) ==
    \/ Login(r) \/ CountFailure(r) \/ ClearFailures(r) \/ Issue(r)
    \/ Refresh(r) \/ ReadRecord(r) \/ Rotate(r) \/ IssueNext(r)
    \/ Logout(r) \/ SwitchTenant(r) \/ IssueSwitched(r)

SecondFactor(r) ==
    \/ Setup2fa(r) \/ WriteSecret(r) \/ Enable2fa(r) \/ WriteEnabled(r)
    \/ Disable2fa(r) \/ WriteDisabled(r)

Password(r) == ForgotPassword(r) \/ CreateLink(r) \/ ResetPassword(r) \/ WritePassword(r)

Administration(r) ==
    \/ CreateUser(r) \/ InsertUser(r) \/ UpdateUser(r) \/ WriteUser(r)
    \/ SoftDelete(r) \/ MarkDeleted(r) \/ RevokeAll(r)

AccountCall(r) == Session(r) \/ SecondFactor(r) \/ Password(r) \/ Administration(r)

(* Where a call is that has found a user and goes by what it has read. *)
Deciding == {"countFailure", "clearFailures", "issue", "record", "rotate", "issueNext",
             "issueSwitched", "writeSecret", "enable", "disable", "createLink", "writeUser",
             "delete", "markLeft", "revokeLeft"}

(* What a call does after another has written the row it decided by. *)
NoteStale ==
    /\ stale' = {r \in Busy \cap Busy' : pc[r] \in Deciding /\ (r \in stale \/ (pc'[r] = pc[r]
                       /\ account'[job[r].user] # account[job[r].user]))}
    /\ crossed' = crossed \cup
           {job[r].user : r \in {r \in stale : pc'[r] # pc[r]
                                /\ <<account, accountHistory>>' # <<account, accountHistory>>}}

-----------------------------------------------------------------------------
(* Properties *)

AccountsTypeOK ==
    /\ account \in [Users -> Account \cup {Nothing}]
    /\ token \in [Tokens -> RefreshToken \cup {Nothing}]
    /\ link \in [Requests -> ResetLink \cup {Nothing}]
    /\ stale \subseteq Requests /\ crossed \subseteq Users
    /\ wrong \in [Users -> Nat] /\ proven \subseteq Tokens

(* "so any pre-existing sessions ... are killed" (auth.service.ts 595-596):*)
(* whatever refreshes, switches, logins and resets come between one        *)
(* another, every session that refresh exchanges goes back to a login with *)
(* the password that stands, but for those that were not there when it was *)
(* set: opened after it by a call that had read the account before it, or  *)
(* with an access token from before it (288-319), or from such a session.  *)
(* The reset leaves sessions of another tenant alone (632-639); refresh    *)
(* finds no user there (183-195).                                          *)
LiveSessionsAreCurrent ==
    \A t \in Tokens :
        IsLive(t) /\ HasUser(t) /\ ~token[t].behind =>
            token[t].under = account[token[t].user].password

(* "revoke ALL of the user's refresh tokens" (594-595), to the letter: no  *)
(* session of any tenant, however it was opened, goes back to a login with *)
(* a password that was replaced.  The code does not keep it.               *)
NoSessionOutlivesReset ==
    \A t \in Tokens :
        IsLive(t) => token[t].under = account[token[t].user].password

(* "secret is non-null when enabled" (auth.service.ts 142), and is the one *)
(* whose code was verified (455-457), so that the user can sign in: unless *)
(* setup2fa, enable2fa or disable2fa wrote after another had.              *)
SecondFactorWorks ==
    \A u \in Users \ crossed : Exists(u) /\ account[u].totp =>
        account[u].secret # Nothing /\ account[u].secret \in proven

(* Wrong passwords are counted one by one, and enough of them lock the     *)
(* account (auth.service.ts 104-113), unless logins overlap: both write    *)
(* what they have read plus one, and the second unlocks what the first     *)
(* has locked.                                                             *)
FailuresAreCounted ==
    \A u \in Users \ crossed : Exists(u) =>
        /\ account[u].failed = wrong[u]
        /\ wrong[u] >= MaxFailed <=> account[u].lockedUntil # 0

(* "locationId is required for" managers and staff (users.service.ts 49,   *)
(* 203), others have none: role and location are checked as they were read *)
(* (183-216) but written together, whatever other updates come between.    *)
PlacedByRole ==
    \A u \in Users : account[u] # Nothing =>
        (account[u].role \in Placed <=> account[u].location # Nothing)
=============================================================================
