# Neomora Club Manager: formal models

TLA+ modules, TLC configurations and machine-checked proofs for the multi-tenant
club-management backend in this repository (NestJS, Prisma, PostgreSQL, Redis). They
cover the parts of the backend in which several requests, crons and background
promises touch the same rows: seat allocation, the waitlist, payments and balances,
the participant's way to ACTIVE, the audit chain, sessions and the public form, the
queue of messages, gateway results and what follows a payment, staff accounts, the
guardians' portal and the limits on calls; and one pure algorithm, the instalment schedule.

Paths below are relative to the application's `src/`: `modules/...` stands for
`src/src/modules/...` in `PROJECT.json`, which maps every definition to its lines.

Contents: 1 the system · 2 how it is modelled · 3 modules · 4 runs · 5 fairness ·
6 proofs · 7 where the code disagrees with itself · 8 what is not modelled · 9 plan.


## 1. The system

Every table is scoped to a tenant; nothing modelled here crosses tenants except by
being repeated, so each model is of one tenant. Requests come from staff (JWT or API
key), guardians (a portal token) and the public (registration form, links in e-mails).
Crons run in the server process (`@nestjs/schedule`); every process of a deployment runs
them. Shared state is in PostgreSQL, except the counts of the rate limits, which are in Redis.

| Component | State it keeps | Operations | Hard behaviour | What makes it correct |
|---|---|---|---|---|
| **Enrolment allocator** `modules/enrolments`, `ParticipantsService.register`, `common/utils/tenant-sequence.util.ts`, `LocationsService.update` | `enrolments`, `waitlist`, `participants`, `cm_tenant_counters`, `locations.capacity` | `allocate`, `enrol`, `reEnrol`, `register`, `nextTenantSequence`, capacity edit | parallel requests for the last seat; checks made before the transaction; a capacity edited meanwhile; aborts with a number reserved | no slot beyond its capacity; nobody waits for a free seat; positions 1..K; numbers without gaps; no circular wait; one claim per person and slot |
| **Waitlist lifecycle** `modules/waitlist` | offer columns of `waitlist` | `sendOffer`, `acceptOffer`, `declineOffer`, `guardianWithdraw`, `staffWithdraw`, `tryPromoteNext`, crons `expireOutstandingOffers`, `promoteVacancies` | four kinds of actors on unlocked rows; offers that lapse; promotions nobody waits for | a row yields one seat; a seat and the row's end are one; one live offer per vacancy; first come first offered; a vacancy reaches somebody |
| **Payments and balances** `modules/payments`, `modules/fees` | `payments`, `invoices`, `payment_plans`, totals of `enrolments` | `recordOffline`, `verify`, `reject`, `setFeeOverride`, `createPlanForEnrolment`, `recomputeBalance` | totals derived from rows read before they are locked; repeated POSTs; verify against reject | totals agree with the verified payments; covered invoices are PAID; one decision per payment; one plan per enrolment |
| **Instalment schedule** `modules/fees/instalment-generator.ts`, `common/utils/money.util.ts` | none | `computeInstalments` and its helpers | fees that do not divide; sessions of odd lengths | parts come to the fee; due dates in order |
| **Participant lifecycle** `modules/participants`, `modules/documents`, `auto-promotion.service.ts` | `participants.status`, `enrolments.status`, `documents` | `tryPromote`, `updateStatus`, upload, `verifyDocument`, `softDelete` | a hook after the commit that nobody waits for, among staff calls that read, decide and write | nobody ACTIVE without having paid; status table; the hook does promote |
| **Audit chain** `modules/audit` | `audit_log` with `hash_prev`, `hash_self` | `write`, `verify` | three statements per write, no transaction, not awaited | an untouched log verifies |
| **Sessions, form, locations** `modules/sessions`, `modules/registration`, `modules/locations` | `sessions`, `payment_plans`, `locations` | `create`, `updateStatus`, `addPaymentPlan`, the half-hourly cron, `submitForm`, `getFormConfig`, create/QR/switch of a location | a status written by id after it was checked; runs of the cron that overlap; a form checked outside its transaction | a "strict, one-way" lifecycle; places only where the form offers them; due sessions do move |
| **Notifications** `modules/notifications` | `notifications` by dedupe key | `enqueueAndDispatch` and its callers, `dispatch`, `retry` | three statements without a transaction; a crash or a retry in between | SENT means sent; sent once; nothing stays queued |
| **Webhooks, gateways, receipts, links, reminders** `modules/payments` | `cm_payment_webhook_events`, `payments`, totals, `payment_link`, `reminder_sent_count`, `receipt_key` | receive, the webhook cron, `applyGatewayResult`, the receipt hook, `issueLinkForInvoice`, the reminder cron | repeated and reordered reports; a crash between applying an event and marking it; two crons at once | a result counts once; no event blocks the queue |
| **Accounts of staff** `modules/auth`, `modules/users` | `users`, `refresh_tokens`, `password_reset_tokens` | `login`, `refresh`, `logout`, `switchTenant`, second factor, password reset, `create`, `update`, `softDelete` | one transaction among all of them; rows read, then written by id | a session ends with its password; a token is exchanged once; a lock locks |
| **Portal of guardians** `guardian-auth.service.ts`, `payment-link.service.ts` | `portal_token` with its expiry | `requestLink`, `verifyLink`, `ensurePortalToken` | two kinds of links share one column | the newest link works, a magic link works once |
| **API keys, rate limits** `modules/api-keys`, `common/guards`, `common/middleware` | `api_keys`, sorted sets in Redis | create, revoke, count by key, count by address | counts by several processes with clocks read earlier; Redis silent | no window has more calls than the limit |
| Storage, reporting, guards, scripts | see `PROJECT.json` | | files, queries, stateless checks | |

**How they interact.** `register`, `enrol`, `reEnrol` and `acceptOffer` all call
`EnrolmentAllocator.allocate` inside a transaction of their own, so the advisory lock of
a slot - `pg_advisory_xact_lock(hashtext(session), hashtext(location))` - orders them. A
verified payment updates the totals of its enrolment in its transaction and afterwards, not
awaited, runs hooks: the promotion to ACTIVE and the receipt. A withdrawn or declined
waitlist row starts a promotion in the background; two crons do the same for offers that
lapse and vacancies that appear. Every response starts an audit write in the background.
None of these background steps is retried. A registration, an offer, a completed payment, a
payment link, a reminder and a password reset all end in `enqueueAndDispatch`, which tells a
duplicate by its dedupe key alone. A payment link and a magic link write the same column of
a guardian. The form asks a session's status and window before the transaction in
which the allocator asks whether the session is held at the location.


## 2. How it is modelled

**Grain.** A request is a process; each of its steps is one SQL statement, or the last
write of a transaction together with its COMMIT. Steps of different requests interleave
freely. A request is made once; a repeated POST is a second request with the same key.

**Isolation.** Prisma's interactive transactions run at PostgreSQL's default, READ
COMMITTED. A statement sees what had been committed when it began, plus its own
transaction's writes. An updated row, the counter row and an advisory lock are held to the
end of the transaction, so a second updater waits: the guard `xLock = Nobody` of the step.
An update that waited for a row writes what its statement says, computed
from values read before. What a transaction wrote but has not committed is kept with the
request (`myNumber`, `myPaid`, `covered`, ...) and reaches the tables in the committing step.
`UPDATE ... WHERE id` is modelled with exactly that condition: the status that was checked
earlier is not checked again, because the code does not.

**Failure.** A transaction may be rolled back at any statement (60 s timeout, dead
process): `Abort` releases its locks and leaves no trace. A call without a transaction may
stop between two statements (`Fail`, `AbortErrand`, `PaymentLedger!Abort`). A promise
nobody awaits may be lost (`LosePromotion`, `LoseHook`).

In the message queue and the payment pipeline a process may be cut off between any two
statements (`Cut`, `Stop`); a notification that was being dispatched stays as it is, a
webhook event that was not marked is met again by the next run.

**Data.** People, keys, documents and requests are model values. A request inserts at most
one enrolment or waitlist row, so it is the row's id. Money is in cents. The clock of the
waitlist counts in units of the offer's validity. A token is the number of its offer, since
random tokens do not repeat. SHA-256 is injective.

**History variables** record what a property has to look back on and never guard a step:
`high` and `low` (the capacities a location has had), `overlapped` (two
calls have been under way at once), `raced` (the same for waitlist runners), `quiet` (nothing
has changed since the form's check), `spoiled` and `lost` (messages retried while they
are dispatched, or cut off), `disordered` (two results applied at once, or a payment set back,
to FAILED or to a smaller amount),
`stale` and `crossed` (calls whose row another call has written, and the accounts they went on
to write), the fields `under` and `behind` of a session (the password its user signed in with, and whether another stood
already when it was opened), `shared` (tickets found valid by two calls), `late` (calls counted out of order).

**Workloads.** Where a component has many operations that have no column in common, `Workloads` is a set
of sets of operations: the initial state picks one, and the calls of that
behaviour are drawn from it. One run thus asks the same properties of each group of
operations that work on the same columns, without multiplying groups that do not.

**Serial and concurrent promises.** Much of what the code's comments say is true only of
calls that do not overlap. Leaving it out would hide how much is kept, and stating it
without qualification would be false. So each component has two kinds of safety property.
The *unconditional* ones hold under every interleaving (a lock, an index or the shape of the code
keeps them). The *serial* ones - `SerialClaimsAgree`, `SerialRunsAgree`,
`SerialCallsAgree`, `IntactUnlessOverlap` - have the form "as long as
no two have been under way at once"; in the newer modules the exception is narrower, and
names the one race that breaks the promise (`NewestLinkOpens`, `OneTimeTickets`, `SentOnce`), or the one call whose
own read is outdated when it writes, all others being held to the promise at the same time (`StepsFollowTheTables`,
`LiveSessionsAreCurrent`). They find a check that is wrong or missing whatever
the schedule, including calls that abort, and leave to section 7 what
overlapping breaks.


## 3. Modules

| Module | Models | Notes |
|---|---|---|
| `SeatLedger` | nothing in the code: the promise | each claim on a slot is answered in one atomic step, a seat or a place behind all who wait; capacities may be edited |
| `EnrolmentAllocator` | allocator, `enrol`, `reEnrol`, `register`, counter, capacity edit | `CheckEnrolment`/`CheckWaitlist`/`CheckOverlap` run before the transaction; `TakeNumber`, `LockSlot`, `ReadCapacity`, `CountOccupied`, `Seat` or `ReadLastPosition` and `AppendToWaitlist` inside. `Ledger` is its refinement mapping to `SeatLedger` |
| `EnrolmentHistory` | the same with `overlapped` | |
| `WaitlistLedger` | nothing in the code: the promise of seats and waitlist together | a claim is answered once; a row may be offered a seat, and leaves its queue in the very step in which it is withdrawn or its offer is turned into a seat |
| `WaitlistLifecycle` | everything in `modules/waitlist` that writes | EXTENDS `EnrolmentAllocator` and runs the allocator's own steps inside `acceptOffer`, next to ordinary enrolments. `OfferLedger` is its refinement mapping to `WaitlistLedger` |
| `WaitlistHistory` | the same with `raced` | |
| `Fees` | fee of an enrolment, splitting of a total | used by the next two |
| `InstalmentPlan` | `computeInstalments` | a state holds the request and its schedule |
| `PaymentLedger` | payments, invoices, plans and totals of one enrolment | `FlipPayment` to `CommitVerification` are `verify` with `recomputeBalance` in it |
| `ParticipantLifecycle` | status, documents, the promotion hook | EXTENDS `PaymentLedger`: every verification that commits sets off a hook |
| `AuditChain` | `write` and `verify` | |
| `SessionLifecycle` | sessions, their cron, the public form, locations | the registration is one step here; its seat is `EnrolmentAllocator`'s |
| `NotificationQueue` | `enqueueAndDispatch`, `dispatch`, `retry`, and what each caller enqueues | a job is a list of messages, known by their dedupe keys; `QueueSpec` is the queue with arbitrary clients |
| `PaymentPipeline` | webhooks, `applyGatewayResult`, receipt hook, payment links, reminder cron | EXTENDS `NotificationQueue`: its processes are the queue's clients, and go on when their messages are dealt with |
| `HttpCalls` | calls, the clock, failures | used by the next three; a call is idle, at a label, or ended |
| `StaffAccounts` | `modules/auth` and `modules/users` | a label stands for "has read the row, is about to write it"; the row it has read is `job[r].seen` |
| `PortalAccess` | the portal token of one guardian | |
| `RateLimits` | API keys and both sliding windows | a `MULTI` of Redis is one step, the time it is made with another |
| `Access` | the three together | they share calls and clock only; `OneTimeTickets` speaks of all tickets |
| `*_proofs` | theorems, section 6 | |
| `MC*` | values of constants and symmetry sets for TLC | |

`guardianWithdraw` and `declineOffer` do the same to the state and are one action. A query
that returns a row with its relations, as in `resolveActiveOffer` and `verifyDocument`, is one
step. Operators named `X_something` next to an operator `X` are variants of it
with a plausible mistake; `PROJECT.json` lists which property notices each of them. They
are used nowhere else.


## 4. Runs

There is one run per component and question of scale, with the component's properties side by
side. Deadlock is reported except where all calls may have been made.

| Run | Instance | Shows |
|---|---|---|
| `alloc_ledger` | 3 requests to any of register, enrol, reEnrol; 3 people, 1 registered; 2 overlapping sessions at 1 location; capacity edited within 0..1; symmetry of people and requests | `NeverOverbooked`, `NobodyWaitsForNothing`, `PositionsContiguous`, `NumbersGapless` under every interleaving; refinement of `SeatLedger`; `NoCircularWait`; `SerialClaimsAgree` |
| `wait_races` | 2 people wait; 2 calls that accept, withdraw or enrol a third person; both crons; the clock stands still | refinement of `WaitlistLedger` under every interleaving: whoever joins stands behind all who wait, a row leaves once |
| `wait_offered` | 2 wait; 1 call of any kind; both crons; time 0..2, offers valid for 1; fairness | `NobodyIsPassedOver`, `SerialRunsAgree`, and the liveness property `VacanciesAreOffered` |
| `wait_double` | 1 waits, 2 acceptances, 2 seats | violation, section 7 |
| `plan_schedule` | fees to 11, up to 4 instalments, days 0..7 in months of 3 | `AmountsAddUp`, `RoundingIsSmall`, `DueInOrder` for every input |
| `pay_ledger` | any 3 calls, 2 keys, one payment recorded before, with or without a plan | `CoveredInvoicesArePaid`, `OnlyVerifiedMoneyCounts`, `OneInstalmentPlan`, `PayloadIsKept`, `NoCircularWait`, `SerialCallsAgree` |
| `life_paid` | 2 payments that only together cover the fee of a one-invoice plan, 2 staff calls, both required documents, the second uploaded meanwhile; threshold 0; symmetry of payments, calls and staff | `PaidBeforeActive` as an invariant, `StepsFollowTheTables` as an action property, under every interleaving |
| `life_hook` | 1 payment, 2 staff calls about the uploaded document, no threshold; fairness | liveness property `PromotionFollowsPayment` |
| `audit_chain` | 4 writes, clock to 4 | `IntactUnlessOverlap`, `LinksPointBack` |
| `sessions` | 4 workloads, 2 calls, 2 runs of the cron, 1 session that is there or is created with any of four windows, 2 locations, time 0..1, 1 failing update; fairness | `StatusMovesForward` and `PlacesAreListed` as action properties; liveness property `DueSessionsMove` |
| `pipeline` | 8 workloads: 1 or 2 runs of the webhook cron, 2 hooks, 2 runs of the reminders, a payment link, other callers and administrators; 2 payments for 1 invoice; 1 cut, 2 retries; fairness | `SentIsSent`, `SentOnce`, `ResultsCountOnce`; liveness properties `MessagesSettle` and `EventsAreProcessed` |
| `access` | 9 workloads, 4 calls, 1 user, 1 location, 1 guardian, 1 API key, time 0..2, lifetimes of 1 or 2; resets with logins, and with refreshes and switches of tenant | `LiveSessionsAreCurrent`, `SecondFactorWorks`, `FailuresAreCounted`, `PlacedByRole`, `OneTimeTickets`, `NewestLinkOpens`, `LimitHoldsInEveryWindow` |

Four more configurations can be run by hand; each ends in a counterexample that section 7
describes: `wait_again.cfg` (module `MCWaitlistLifecycle`, property `WhoeverWaitsIsOffered`),
`pay_lost.cfg` (`MCPaymentLedger`, `PaidIsRefreshed`), `audit_fork.cfg` (`MCAuditChain`,
`MismatchMeansTampering`), `access_reset.cfg` (`MCAccess`, `NoSessionOutlivesReset`). `OnlyLocksBlock`, of
`EnrolmentAllocator` and `PaymentLedger`, holds when it is added to the invariants of `alloc_ledger.cfg` or
`pay_ledger.cfg`. It and the type invariants that no configuration lists are for use while a model is changed.
`PositionsDistinct`, which is proved, is part of what the refinement in `wait_races` checks: a row whose position is
another's does not stand behind all who wait.

**Bounds.** *Requests*: the races found and ruled out here are between two calls; the third
request of `alloc_ledger` and `pay_ledger`, and two more of `access`, supply the state they start from (a seat
taken, an enrolment to carry over, a payment verified, a link requested). *Capacity* 0..1 makes the
last seat the only seat: the guard compares a count with a capacity, and a larger capacity adds seats that nobody competes for. *Two
slots of one location* are needed for `reEnrol` (which stays at its location), for overlap
and for one counter row competing with two advisory locks. *Time*: with offers valid for 1 a
lapsed offer needs time 2, since an offer made at 0 stands through 1; `wait_races` keeps the clock at 0 because what depends on time
is asked in `wait_offered`. In `access` lifetimes are 1 or 2 in a clock to 2, so that each ticket can be used in time,
on the last tick and too late; the window of the limits is 2 and its limit 1, so that a call
can fall out of the window while others, let through or not, remain, and an address can come at more times than are allowed. An access token is good for 1, so that it may outlive a reset, or not. *Keys*: two payments
make a sum that one of them does not. *Documents*: the two that are required, of which staff verify both, in either order, and
the hook is content with one; that the participant advances takes both staff calls, and one of them leaves the other for a status. *Instalments*: fees up to 11 by 4 has all remainders;
months of three days let a session end in any phase of a month. *Audit clock*: as many
milliseconds as writes, so that all may be distinct, or not. *Sessions*: a window that is open, one that opens
at the moment it closes, and two requests that are turned down; one tick of time makes a date
that lies ahead one that is past. *Pipeline*: `MaxEvents` is 3 webhooks for one run of
the cron (completed, repeated, and that of the other payment or a failure), fewer where other processes take
part; `MaxCuts` = 1 stops one process anywhere, which already leaves a row QUEUED or an event unmarked; `MaxRetries` = 2 lets two administrators race; `Batch` = 2
is smaller than the number of events. `MaxFailed` = 2 is the least number at which wrong passwords
are counted before they lock. `MaxCapacity`, `MaxNow`, `MaxFee`,
`MaxCount`, `MaxDay`, `MaxFailures`, `MaxEvents`, `MaxRetries`, `MaxCuts` are the only bounds on data;
there are as many calls as `Requests`, `Staff`, `Callers` or `Writes`.

**Symmetry** is used in runs that check safety only. Callers and people are interchangeable
there: no model compares them, and no initial state singles one out except the set `Known`,
whose complement is permuted. The refinements in `alloc_ledger` and `wait_races` are conditions on initial
states and steps, like a safety property.


## 5. Fairness

`wait_offered` and `wait_again`: weak fairness of each call that has arrived, of enrolments
under way, and of each cron. The crons are scheduled again and again; a run that fails is
followed by the next. Nobody has to call anything, time need not pass, and a
promotion may be lost: `LosePromotion` is not fair and needs no fairness to happen.
That is why `VacanciesAreOffered` says something: it is the cron, not the promotion after a
withdrawal, that guarantees it.

`life_hook`: weak fairness of payment calls, staff calls and hooks that have begun. A hook
that was set off is a promise in a live process; the process may die, in `LoseHook`, and
the property names that case because nothing runs the hook again.

`sessions`: weak fairness of each run of the cron, and of nothing else: no call has to go on. The
number of updates that fail is bounded, because a cron that always fails moves nothing.

`pipeline`: weak fairness of the delivery of messages as a whole (`Jobs`) and of
the webhook cron and the hooks as a whole (`Background`): of those that can go on, one does. That is
weaker than fairness to each of them, and enough, since every job and every run
is finite. Nothing retries a message by itself, no gateway has to report, and `Cut` and
`Stop` need no fairness to happen; the messages they leave behind are in `lost`, which `MessagesSettle` excepts.

Weak fairness suffices where a step waits for a lock: locks are released by steps that are
never blocked for ever, which `NoCircularWait` shows (of those under way one always asks for no
lock that somebody holds, and each has a bounded number of steps to take). As there are
finitely many calls, no lock is taken again and again ahead of a call that waits for it.
`Waits` names every lock a statement can wait for; that nothing else stops one is `OnlyLocksBlock`.


## 6. Proofs

All proofs are checked by TLAPS with Z3, Zenon and LS4, for every value of the constants that
satisfies the named assumptions (finitely many requests; slots are pairs of a session and
a location; and so on). Nothing about the size of an instance is assumed.

**`EnrolmentAllocator_proofs`.** `NeverOverbooked` is not inductive: a request that has counted the
occupants inserts a row later. `SeatInv` adds what makes that safe:

- `LockDiscipline`: a request between `LockSlot` and its commit holds the lock of its slot;
- `ReadsStand`: so what it read is still so - the count is the number of occupants, the last
  position is the number of active rows, and the capacity read lies between `low` and `high`;
- `RowsOfSettled`: rows belong to requests that have settled, so an insertion adds exactly one;
- `CapacityInRange`, `FiniteTables`, and the properties themselves.

`LockProtects` is the heart: while one request holds a slot, no step of another changes the
slot's rows. `SeatCounts` and `AppendCounts` say what an insertion does to the cardinalities,
`LastIsLength` that the last position is the number of rows when positions are 1..K. From
`SeatInvariant` follow `TypeCorrect`, `NoOverbooking`, `WaitingIsJustified`, `FifoPositions`.
`GaplessNumbers` needs `NumbersReserved`: whoever is past `TakeNumber` holds the counter row
and has the next number, and no two registrations are of one person.
`AllocatorImplementsLedger` is the refinement: under `SeatInv` the committing step `Seat` is
`Grant`, `AppendToWaitlist` is `Join` (the new row is behind all others because its position
is greater), `UpdateCapacity` is `Resize`, everything else a stutter.
`NobodyWaitsInACircle` is `NoCircularWait`: by `HoldersAreUnderWay` only requests under way hold locks;
the holder of a slot asks for nothing more, and the holder of the counter row only for a slot.

The same module has the waitlist around the allocator (`LifecycleSpec`). A withdrawal changes a slot's rows without its
lock, so `ReadsStand` and `PositionsContiguous` are false there. `WaitInv` keeps `TablesInv`, what does not speak of reads, and

- `CountsStand` in the place of `ReadsStand`: what was read under the lock is a bound still - no more occupants than were
  counted (only holders of the lock seat anybody), no active row beyond the last position read. Hence
  `OffersNeverOverbook` and `PositionsStayDistinct`;
- `RunnerOK`, `CallOK`: each runner has the row and the slot it works on;
- `NobodyIsPassedOver` itself. It speaks of a promotion that has picked and not yet written. `AboutToOffer` says that such
  a promotion keeps its row while others move, `OffersGoOn` that attempts are never taken back, and
  whoever joins later has a later position. Hence `EverybodyGetsATurn`;
- `LifecycleImplementsWaitlistLedger` is the refinement. A commit inside `acceptOffer` is `Accept`: by `SentInv` the row was
  sent an offer, by `RowsInv` it is a row of the slot the lock is held for, and by `CountsStand` a seat is
  free. An enrolment that appends is `Join`, its position being beyond all active ones; a row that ends leaves
  the order of the others as it was (`RowLeaves`). Two acceptances of one row may both be seated (section 7), so
  `Accept` asks for a row that was offered, not for one that waits still: the promise the code keeps.

For the histories, `RecordInv` says that, as long as no two requests have overlapped, the one under way finds every check it has
passed as it left it (`Checked`, `OverlapChecked`), so that its claim is new when it commits: `SerialClaims`. `PeopleInv` says who
is registered: a registration's claims are of a person nobody else names. It needs that those who wait at the start are
registered (in `WaitingAssumption`), and that the overlap of dates is symmetric (`OverlapAssumption`).
`RunInv` does the same for runners of the waitlist: `RunnerSerial` what the one under way may rely on (no other offer is out
for its slot, its row is open still), `RowsInv` which row and person an acceptance is about, at any concurrency: `SerialRuns`.

**`Fees_proofs`.** What a sum over a finite set is, grows by and loses, for `PaymentLedger` and the
schedule. `Total` is a fold, defined by recursion over the set, and no induction rule can be used here; each
lemma takes a smallest counterexample instead (finite sets are ordered by their cardinality, and those are well
founded), removes an element and finds a smaller one. `SplitAddsUp`: the parts of a total come to the total.

**`InstalmentPlan_proofs`.** For every fee, count and calendar: `InvoicesAddUp` (from `SplitAddsUp`);
`RoundingStaysSmall`, the last invoice exceeds the others by less than the count in cents, and they are equal
otherwise; `DueDatesInOrder`, since first days of months follow one another (`MonthsInOrder`) and so do the
chunks of a session (`ChunksInOrder`), the last of which ends with it.

**`PaymentLedger_proofs`.** The ledger by itself and under the participant lifecycle: both imply `CallSpec`, the calls with
anything beside them, of which all but the serial results are proved. The invariants, and what each is needed for:

- `HoldersAreUnderWay`: locks are held by calls under way, which ask for the enrolment last. Hence `NoCallsWaitInACircle`.
- `RowInv`: a call in the insertion step of `recordOffline` has a key of its own to write, every other write changes
  a status only. Hence `PayloadStays`.
- `InstalmentsInv`: the numbered invoices are those of one owner, numbered 1..n. A second plan runs into the
  unique index because the first has an instalment 1. Hence `OnePlanStands`.
- `TypeOK` needs `AmountsRecorded` and that sums of amounts are amounts: `LedgerIsTyped`.
- `LinkInv` and `VerifyInv`: a verification's sum of what it reads is covered by the verified payments together with its own,
  and so is an invoice it has found covered. Hence `VerifiedMoneyOnly`, although the totals may be old.
- `CoverInv`: whoever has updated the totals holds the row lock of the enrolment until the commit, so that the sum over
  the invoice is made after every other commit. Hence `CoveredIsPaid`: two halves verified at once are
  seen together by the second.
- `SerialInv` and `DecidedInv`, as long as no two calls have overlapped: what the call under way has read is unchanged.
  Hence `SerialCallsAreExact`.

- `BalanceInv`, while nobody sets the fee: a verification writes the fee less a sum that the verified payments and its own
  cover, so no balance on the row, however old, is less than what is left to pay (`Owed`), which never grows.
- `CrossedInv`: whoever is about to promote (a hook past its check, a member of staff about to write a status from ACTIVE on)
  has seen a balance within the threshold, or a promotion by somebody who had. Hence `PaidFirst`, for `"override" \notin Ops`
  and staff who may not pass over the balance: with either, the code promotes people who owe more.
- `ReadInv`: what a member of staff has read by each label - a document that was not VERIFIED, a participant in
  DOCUMENTS_PENDING, a status from which the table leads to the one asked for - however old it is. So a step
  keeps to the tables if what was read is what is there, which is all it needs: one lemma each for staff (`StaffAgree`),
  hooks (`HooksAgree`) and everybody else (`OthersAgree`). Hence `TablesAreFollowed`, with no condition on overlaps.

`NoInvoiceAssumption` says that null is no id of an invoice; `LifecycleAssumption` that a call of staff is no payment call.

**`AuditChain_proofs`.** `ChainInvariant`, from which `IntactChain` and `PointBack`. `AloneIsLast` is the
strengthening: while no two writes have overlapped, the one under way has read the latest
chained row, and will be the latest itself.

**`SessionLifecycle_proofs`.** `StatusIsOneWay`. `MoveInv` says what a call of staff knows between reading
and writing: the status it has read allows the one it is about to write. Then `CallMoves`: what `WriteStatus` writes
follows the current status, or another call has changed that since; and `CronMoves`: an update of the cron replaces
only the status its WHERE clause names. `PlacesAreOffered`: `FormInv` says of a form whose transaction is `quiet` - no
session, location or clock has moved since its check - that the session it asks for is there and open still.

**`PaymentPipeline_proofs`.** Three layers.

- The queue by itself. `RowsTellTheTruth` and `NothingIsSentTwice` are of `QueueSpec`: any number of processes with
  any messages. `SentOnce` is not inductive; `OneDispatcher` is the reason for it: a message that is not spoiled has at
  most one dispatcher, its row is not SENT while it has one, and it has been delivered exactly if that dispatcher is about
  to record it; `RestingUnsent`: without a dispatcher, a row that is not SENT was never delivered.
- The jobs around it. `PipelineInv` says what every process has in hand at each of its labels (the events of the inbox, the
  reference of a payment, the reminders of a wave: `JobOK`); `PipelineIsTyped` follows, and
  `PipelineUsesTheQueue`: each step is a step of the queue, or leaves it alone, so that the pipeline implements
  `QueueSpec` and `PipelineMessagesAreSound` is inherited. `MessageAssumption` says that the messages of the jobs are
  lists of keys of the queue.
- The results, `ResultsCountExactlyOnce`. What a run writes is seen when its transaction commits, but it has added up
  before. `CountedInv` says what its sum is then: while nothing is `disordered`, at most one run is inside its
  transaction, and one about to commit has the sum of the other completed payments plus its own amount. So the commit
  leaves the paid amount equal to the sum, whether the reference is new, has failed before or is reported again, and
  marks the invoice just when it is covered. `PipelineAssumption` has finitely many runs, references and invoices, each
  reference for one of the invoices.

**`Access_proofs`.** Five invariants, over `CallsOK` (one call moves at a time, and from which labels to which).

- `LimitsInv`, for `LimitsHold`: consider a window and the latest call in it that was counted in
  order. When it was counted, all of the others were in the sorted set with it, because a set only loses what is
  older than its window and nothing was counted later than them; so the count was at least their
  number, and it was let through, so the count was within the limit. `CountersOK` says that a call about to count
  knows its key and its time.
- `RolesInv`, for `RolesAgree`: the role and location an `updateUser` is about to write agree with one another,
  because both are computed from the row it has read and written together; so it does not matter whether that
  row has changed.
- `PortalInv`, for `NewestLinkWorks`: the token in the column was made by a call that has ended, so that a new one
  differs from it, and the newest differs from it only if a call has written over it what it had read before.
- `SessionsInv`, for `SessionsAreCurrent`, `SecondFactorIsProven` and `FailuresAreNotLost`: what a call decides by is
  still so, unless it is in `stale`; a stale call that writes an account brings its user among those `crossed`, of whom the
  last two claim nothing. Of sessions it says that each one at home that lives and is not `behind` has the password that
  stands (`IsCurrent`), and that a refresh past its check holds such a session, or one that was, and is stale then
  (`IsFresh`); a reset makes `IsCurrent` true by revoking. It contains `RolesInv` for the types, and that the users there are at the start are sound (`IsSound`, an
  assumption on the constant `StartAccounts`: not locked without failures, no second factor without a secret).
- `TicketsOK`, for `TicketsAreUsedOnce`: two calls at the label that uses a ticket share it; a ticket used is no longer
  valid, and nobody who does not share it is about to use it. That it stays invalid is `TokensStayDead` and
  `LinksStayUsed`.

**Model-checked only.** Liveness under fairness (`VacanciesAreOffered`, `PromotionFollowsPayment`, `DueSessionsMove`,
`MessagesSettle`, `EventsAreProcessed`), and `OnlyLocksBlock`: the prover has no rules for ENABLED, nor for the
fairness defined by it. Every other property of the passing runs is proved.


## 7. Where the code disagrees with itself

Each of the following has a counterexample: `wait_double` is a run of the project, the other four are
the configurations to be run by hand. Each states what a comment of the code says.

- `wait_double` (`waitlist.service.ts` 170): the row is re-read "under the lock", but before the
  lock is taken. Two acceptances of one link both get a seat when two are free.
- `wait_again` (`waitlist.service.ts` 195-197): "the cron will pick them up again later" - not
  once the row is EXPIRED, which keeps its place and is never offered again.
- `pay_lost` (`fees.service.ts` 341): two verifications at once leave a verified payment out
  of `paid_amount`, until another payment is verified.
- `audit_fork` (`audit-chain.service.ts` 14-15): two writes at once make verification report
  tampering in a log nobody touched.
- `access_reset` (`auth.service.ts` 594-596): a reset shall "revoke ALL of the user's refresh tokens so any
  pre-existing sessions ... are killed". It revokes those of the record's tenant (632-639); a session of
  another tenant, opened by `switchTenant`, stays, although nothing can be refreshed with it. And an access token from before the
  reset is good until it expires: within that time `switchTenant` (288-319) opens a new session with it, of any tenant, its own
  included, without overlapping anything. `LiveSessionsAreCurrent`
  is what is left of the promise, and excepts both by name.

The serial properties mark the limits of further promises. Dropping the condition from them
gives these counterexamples, which are kept as descriptions, not as runs of their own:

- enrolments: two requests of one person for one slot, or for overlapping sessions, both pass
  the checks before their transactions (`enrolments.service.ts` 112, 139);
- waitlist: two promotions make two offers for one vacancy (`waitlist.service.ts` 370); an
  offer renewed after the expiry cron found it lapsed is expired all the same (300); an offer
  is written to a row that has ended in between, and its link is dead (418);
- payments: a payment is verified and rejected, or decided twice (`payments.service.ts` 191-197,
  294); the balance is derived from a fee or paid amount that has been replaced
  (`fees.service.ts` 259); two FULL plans for one enrolment (76: the partial unique index covers
  `instalment_no` only, which is null for FULL); a plan for the fee before an override (233);
- participants: a call whose own read is outdated when it writes, which `StepsFollowTheTables` excepts, sets an ACTIVE
  participant back to FEE_PENDING or a VERIFIED document to REJECTED
  (`documents.service.ts` 265, 201), passes over the status table (`participants.service.ts` 398), or promotes the
  enrolment of somebody who has left INQUIRY meanwhile and leaves the participant behind (`auto-promotion.service.ts` 115);
- sessions: a status is written after another call or the cron has changed it (`sessions.service.ts` 133-159), so
  that a CLOSED session can become OPEN or an ARCHIVED one CLOSED; a session that closes
  between the form's check and its transaction takes the registration all the same;
- messages: a message retried while it is being dispatched goes out twice (`notifications.service.ts` 483), and one
  cut off after the channel's answer goes out again when it is retried; nothing takes up a row left QUEUED;
- results: a FAILED that follows COMPLETED sets the payment back and recomputes nothing
  (`payments.service.ts` 381-392), and a payment that completes again with less leaves its invoice PAID (461-464); two
  runs of the webhook cron add up without one another's payment;
- accounts: two exchanges of one refresh token both succeed: PROJECT_FLOW.md 155-158 has "Atomically: revoke old
  jti, insert new jti", which the code does in separate statements; a login or refresh under way during a password reset keeps the session it opens; overlapping wrong passwords are counted once, and may take a lock back;
- portal: a payment link is given a token that a magic link has replaced or cleared meanwhile.

`PaymentLinksLast` in `PortalAccess` is violated without any overlap: a payment link that finds
the token of a magic link keeps it, and with it the expiry in minutes, where the comment
(`payment-link.service.ts` 92-94) promises one year; the portal itself does not look at the expiry,
only the sign-in does. To see it, make it the only PROPERTY of `access.cfg`.

More that the models state as they are: a repeated POST of a payment "returns 409 instead of double-creating"
(`payments.service.ts` 73-74), but is answered with the existing row (133-143), and with an error of the unique index only if it
overlaps the first; a tenant without a balance threshold counts as one of 0 in the promotion by the hook
(`auto-promotion.service.ts`), while the manual one is then refused as long as an enrolment is not ACTIVE, paid
or not (`participants.service.ts` 379-387); the comment of the session cron says "every 15 minutes" and that runs are
serialised (`session-auto-status.processor.ts` 11, 25-27), the code schedules it every 30 and nothing keeps the runs of
several server processes apart; five wrong passwords lock an account "within 15 minutes"
(PROJECT_FLOW.md 144), but the counter has no window; a token issued by `switchTenant` is refused when it is refreshed, since users
are looked for in the tenant of the token, and a password reset or a deletion does not revoke it; the members of an address's sorted set
are times, so that calls of one millisecond count as one; both limits let a call
through if Redis does not answer, and a rate limit of 0 means none.

And two of the participants: a participant still in INQUIRY is left behind when the
enrolment becomes ACTIVE (`auto-promotion.service.ts` 115), and one whose last document is
verified after the last payment is promoted by nothing; the hook asks for one verified document
where the documents service asks for both types; and the first monthly instalment falls due on the
first of the month a session starts in, which may be before it starts.


## 8. What is not modelled

- *Gateways*: every gateway strategy at this commit is a stub that refuses the signature. `Integrated` names those the model takes to be
  replaced as their interface describes; with the empty set nothing reaches `applyGatewayResult`.
- *Channels* (mail, WhatsApp) and *Redis* are external: they answer, refuse or fail.
- *Storage, reporting, receipts' PDF, templates, build and seed scripts*: pure I/O, read-only or no part of the running system.
- *Guards, filters, pipes, form definitions*: stateless checks of a request; every modelled call is one that has passed them.
- *Passwords, codes, hashes and signatures*: whether what is typed is right is an input; a ticket is known by the call that made it.
- *Participant search, edits, notes, import and export*: single-row edits and queries.
- *Several enrolments of one participant* in the payment and lifecycle models: balances are per
  enrolment; the promotion of one of several is a later extension.
- *Withdrawing an enrolment*: no endpoint of this commit does it, so seats are never given back.
  No endpoint deletes a participant either.
- *Serialisation of dates, time zones, decimal rounding of input*: amounts arrive in whole cents.


## 9. Plan

Done: the allocator with its abstract specification and proofs; waitlist; payments;
schedule; participant lifecycle; audit chain; sessions with cron and form; the message queue with
its clients; webhooks, receipts, links and reminders; accounts, portal and limits.

Proved: what section 6 lists, the safety properties of all runs and both refinements among it.

1. Several enrolments of one participant in `ParticipantLifecycle`.
2. A common proof module for jobs that move from label to label, which three of the proof modules each set up for themselves.
