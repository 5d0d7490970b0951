------------------------------- MODULE Access -------------------------------
(***************************************************************************)
(* Accounts of staff, the portal of guardians and the limits on calls      *)
(* together: they share the clock and the calls, and no row.               *)
(***************************************************************************)
EXTENDS StaffAccounts, PortalAccess, RateLimits

VARIABLES
    shared, \* history: tickets two calls have found valid before either used it
    used    \* history: <<place, ticket, call>> of each use of a ticket

parts == <<calls, accounts, accountHistory, stale, crossed, guardian, limits>>

Init ==
    /\ CallsInit /\ AccountsInit /\ PortalInit /\ LimitsInit
    /\ shared = {} /\ used = {}

Other == <<accounts, accountHistory, guardian, limits>>

Operation ==
    \/ \E r \in Requests : AccountCall(r) /\ UNCHANGED <<guardian, limits>>
    \/ \E r \in Requests : PortalCall(r) /\ UNCHANGED <<accounts, accountHistory, limits>>
    \/ \E r \in Requests : LimitedCall(r) /\ UNCHANGED <<accounts, accountHistory, guardian>>
    \/ \E r \in Requests : Fail(r) /\ UNCHANGED Other
    \/ PassTime /\ UNCHANGED Other

(* Tickets are exchanged at these places; at "clear" for a portal session. *)
Using == {"rotate", "reset", "clear"}
Ticket(place, read) == <<place, IF place = "clear" THEN read.token ELSE read.ticket>>
NoteTickets ==
    /\ shared' = shared \cup {Ticket(pc'[r], job'[r]) : r \in {r \in Requests :
           pc'[r] \in Using /\ \E q \in Requests \ {r} :
               pc'[q] = pc'[r] /\ Ticket(pc'[q], job'[q]) = Ticket(pc'[r], job'[r])}}
    /\ used' = used \cup {<<Ticket(pc[r], job[r]), r>> : r \in {r \in Requests :
           /\ pc[r] \in Using
           /\ pc'[r] = "issueNext" \/ (pc'[r] = "ended" /\ <<account, portal>>' # <<account, portal>>)}}

Next == Operation /\ NoteStale /\ NoteTickets

Spec == Init /\ [][Next]_<<parts, shared, used>>

-----------------------------------------------------------------------------
(* Refresh "works exactly once" (PROJECT_FLOW.md 158); a reset link that   *)
(* was used is invalid (auth.service.ts 611); a magic link is for "one-time*)
(* use" (guardian-auth.service.ts 110): each of them is used once, unless  *)
(* two calls had found it valid before either of them used it.             *)
OneTimeTickets ==
    \A u, v \in used : u[1] = v[1] /\ u[1] \notin shared => u = v
=============================================================================
