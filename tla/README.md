# OmniPrint in TLA+

OmniPrint rents out printers.  An agent in the customer's network finds printers,
reads their page counters and sends them; an API stores them, bills the pages under
a contract, raises alerts and tickets and commands the agent; a panel lets the
staff of the outsourcing company and its customers look, correct and command; and
the company itself pays OmniPrint by Stripe.  This directory holds TLA+ models of
those parts, TLC runs of them, and TLAPS proofs about the parts where money,
one-time grants and remote commands depend on how several actors' steps
interleave.  Paths below are relative to the repository (`src/`).

## 1. The system

| component | state it keeps | operations | talks to |
|---|---|---|---|
| **Billing cycle** `api/src/common/billing-cycle.util.ts` | none: dates only | `cyclePeriod`, `cycleContaining`, `lastClosedCycle`, `competenciaKey` | contracts, invoices |
| **Contracts** `api/src/contracts` | `Contract` rows with a status and dates | `create`, `update`, `cancel`, `periodFor`, `resolveBilling` | invoices, device pages |
| **Invoices** `api/src/invoices` | `Invoice` rows, unique by customer and period start | `generate` (by staff or by the 2 am job), `markPaid`, `cancel` | contracts, e-mail, PDF |
| **Device pages** `api/src/common/device-pages.service.ts`, `counter.util.ts` | stored `Metric` rows; the device's manual baseline | `pagesInPeriod` | contracts, devices |
| **Charts and forecasts** `api/src/devices/devices.service.ts`, `common/supply-forecast.util.ts` | none of their own | page trend and supply forecast, of one device and of the fleet | the dashboard |
| **Ingest** `api/src/ingest` | `Device`, `Metric` | matching a report by serial or address, creating, storing | agents |
| **Agent commands** `api/src/agent-command`, `customers` | one command slot in `AgentToken` | request (panel), `pendingFor`, `ack` (agent) | panel, agent |
| **Agent enrollment** `api/src/agent-enrollment`, `customers` | `AgentEnrollmentCode`, `AgentToken` | create, `exchange`, revoke | panel, installer |
| **Agent loop** `agent/internal/svc`, `config` | the polled devices, `discovered.yaml` | poll cycle, daily sweep, control loop every 2 minutes | API, printers |
| **Agent collection** `agent/internal/collector` | what it learned of a host | `pollDevice` | printers, by SNMP |
| **Agent discovery** `agent/internal/discovery` | none between sweeps | `Run`, with five sources of targets | the network |
| **Agent updater** `agent/internal/updater`, **releases** `api/src/agent-releases` | executables on disk; release rows and files | check, download, swap by a helper process, restart; publish, remove | each other, the OS |
| **Subscription** `api/src/subscription` | the tenant's Stripe ids, status and price | checkout, webhooks, nightly sync, guard | Stripe |
| **Notifications** `api/src/notifications` | alerts with a dedupe key, preferences | sync, resolve, digest e-mail, automatic tickets | tickets, e-mail |
| **Tickets** `api/src/tickets`, `common/sla.util.ts` | tickets, comments, attachments | create, update, comment, download | e-mail, the disk |
| **Agent logs** `api/src/agent-log`, `agent/internal/svc` | the log files; an entry per token and day, the request's time | rotate, upload, request, prune | panel, agent |
| **Users and log-in** `api/src/auth`, `users` | users, permissions, sessions | log-in, guards | all |
| **Web panel** `web/` | the session cookie | pages, layout, server actions | API |
| **Platform, sign-up, deployment, backups** | tenants | mostly reads, scripts | web |

Three facts decide how every module here is written:

* *A query is atomic, a handler is not.*  Only `exchange` (enrollment), the
  password reset and sign-up use a transaction; elsewhere each `await` is a point
  where any other request or job may run.  Hence an operation is one action per
  query, with what was read kept in the operation's record.
* *An `update` is by id.*  What the handler checked on the row it read is not part
  of the write's condition, except where `updateMany` says so.
* *The agent is two loops and a few goroutines in one process* that may be killed
  at any time; what it must remember is in files that are not written atomically.

### Hard behaviours, and what would make each part correct

* Billing: a day is billed once and never before its period closed; months follow
  each other without a gap even when the cycle day is changed; a paid or live
  invoice does not change; a cancelled one comes back only when asked.
* Pages: consecutive periods share out the counter's hops, each in exactly one;
  noise and resets never inflate the bill.  A poll never reports a number that no
  printer sent.  The chart and the forecast are computed twice, once over all
  readings and once over the few the database leaves, and must agree.
* Commands: the agent must not run a request again because its process ended while
  it ran it; a search that was announced reports its outcome.
* Enrollment: a code mints one token, and a revoked code none.
* Discovery: a sweep must not leave the site, and misses must heal by themselves.
* Updater: whatever fails, a whole build stays on disk, and not an older one unless
  its release was withdrawn.
* Subscription: webhooks come again; status and price must end up as Stripe's
  and the tenant's own.
* Notifications, tickets: overlapping syncs must not announce twice; overlapping
  updates must not tear a deadline from its priority.
* Ingest: two machines must never become one device, though addresses are reused.
* Panel: layout and page read at the same time, and permissions, subscription or
  session may change in between; redirects must not chase each other.

`PROJECT.json` lists each hazard at its line with the property that would catch it;
one that no property covers says why.

## 2. How the project is organised

One module per component, each with its own `Init`, actions, `Next`, specification,
type invariant and properties; a proof module beside those with theorems; and `MC`
modules with the small instances.  A run that checks several components does so
through a module that EXTENDS or instantiates them and adds a variable `subject`:
the behaviours of that module are those of the components one at a time, the other
components resting in their initial state (and, where that state is a choice, in
one fixed choice).  The components put together this way share no state, so
nothing is lost by not interleaving them, and the properties of each are checked
on exactly its own behaviours; fairness is stated for the subject only.

Where components do share state they are one specification: `Invoicing` extends
`Contracts` extends `BillingCycle`; `Notifications` includes the automatic tickets;
`Enrollment` refines `OneTimeCode`; `Updater` includes the releases;
`Panel` extends `PanelPages` extends `PanelRoutes`, which is the API's guards.

A name `X_Something` beside a definition `X`, with a comment that begins "Mutant",
is a plausible mistake in the code `X` models.  Nothing uses it; it documents which
mistake the property would notice.

| module | what it is |
|---|---|
| `BillingCycle` | The date functions over an abstract calendar: days are numbers, `FirstDay[m]` is the first day of month `m`. |
| `Contracts`, `Invoicing` | One customer's contracts, and its invoices by period start, the job and staff requests. |
| `Counters`, `DevicePages` | Filtering and hops of a counter; one printer, its stored readings and `pagesInPeriod`. |
| `PageTrend`, `SupplyForecast` | The two ways each of these is computed, compared over every history. |
| `Collector` | One poll of one host, request by request. |
| `AgentCommand` | One agent and its command slot. |
| `AgentLoop` | The poll loop, the sweep's hand-over, the file of found printers. |
| `Discovery` | What a sweep probes, finds and adds. |
| `AgentLog` | The agent's log files and their way to the panel. |
| `Enrollment`, `OneTimeCode` | Codes and tokens; the abstract promise of a code. |
| `Updater` | Self-update, restart and releases. |
| `Subscription` | One tenant, its subscription at Stripe, and what keeps both in step. |
| `Notifications` | One tenant's alerts: rows, overlapping syncs, digests and tickets. |
| `Tickets` | One ticket: status, deadline, comments, files and mails. |
| `Fleet` | Which device a report belongs to, and what staff decided about it. |
| `PanelRoutes`, `PanelPages`, `Panel` | What each client call is answered; what each page asks, reads and offers; loads, redirects and changes under way. |
| `MC*` | The small instances; `MCBilling`, `MCRequests`, `MCStaff`, `MCAgent`, `MCLifecycle`, `MCDesk` combine several components. |
| `*Proofs` | The theorems: `ContractsProofs` about `BillingCycle` and `Contracts`, `InvoicingProofs` about `Invoicing`, `PagesProofs` about `DevicePages`, `PageTrend` and `SupplyForecast`; and, each ending with what holds of a run's whole specification: `BillingProofs` about `Collector` and `MCBilling`, `StaffProofs` about `Panel` and `MCStaff`, `AgentProofs` about `AgentCommand`, `AgentLoop`, `AgentLog`, `Discovery` and `MCAgent`, `LifecycleProofs` about `Enrollment`, `Subscription`, `Updater` and `MCLifecycle`, `DeskProofs` about `Notifications`, `Tickets`, `Fleet` and `MCDesk`. |

## 3. Modules and code

### BillingCycle, Contracts, Invoicing

`PeriodStart(m, D)` and `PeriodEnd(m, D)` are `cyclePeriod` with the day as the
unit: a period's end instant is the last of its last day.  `FirstDay` and `MonthOf`
are constants with the assumption that months are at least as long as the largest
cycle day, as `MAX_BILLING_CYCLE_DAY = 28` guarantees.

| code | actions |
|---|---|
| `create` | `CreateContract` (reads the ACTIVE row), `ExpireContract`, `InsertContract` |
| `update`, `cancel` | `EditContract`/`WriteEdit`, `CancelContract`/`WriteCancel` |
| a failed write, a stopped process | `AbortRequest`, `Abort` |
| `generateDueInvoices` | `CronStart`, then the steps of `generate` |
| `generate` | `StaffGenerate`, `ReadCustomer`, `ReadPeriod` (`periodFor` and the closed check), `ReadExisting`, `ResolveBilling`, `WriteInvoice` |
| `markPaid`, `cancel` | `MarkPaid`/`WritePaid`, `CancelInvoice`/`WriteCancelled` |
| `CustomersService.update` | `SetCycleDay` |
| the clock | `NextDay` |

The job runs at most once a day, and `missed` counts the nights in a row it did not
complete.  Amounts are not modelled: an invoice holds its period, its contract and
the day it was generated.  `WriteInvoice` covers both the replacing update by id and
the insert whose unique-key conflict returns the row that won.

### Counters, DevicePages, PageTrend, SupplyForecast

`metrics` is the table of one device in the order of `collectedAt`.  Each row also
carries what the printer had really done by then (`cycles`, `pages`), which only the
properties look at.  `Stored` is what `ingest` keeps of a poll: a counter that is
not above zero is no reading.  `PagesInPeriod` is the whole function, over the positions of the rows: baseline,
readings, manual baseline, the choice between the split and the engine pipeline, the
filter and the hops.  Environment premises: two polls never have the same instant; a
dip follows a real reading and recovers within its period, which the comment of
`filterTransientDropoutsBy` takes for granted; staff enter one baseline, the
counter's true value on that day.

`PageTrend` and `SupplyForecast` have one action, a reading arrives; their
definitions are the two computations (`PageDeltas`/`FleetDeltas`, `Forecast` over
`Readings`/`PickedReadings`), which TLC compares on every history within the
bounds and `PagesProofs` on every history.

### Collector

Every action is one request of `pollDevice`, in its order (`PollRequests`); the host's
capabilities are a record, and each request is answered, lost, or ended by the time
limit (`Fate`).  `noBulkHost` and `vendorCaptured` are what the collector remembers
between polls.  Of each table's columns those are kept that differ in what a missing
row does.  Where a version 1 host refuses the GET of all the scalars and each is
asked on its own (`OneByOne`), those GETs are one answer that may lack the serial
number; that a vendor's subtree is captured also depends on colors and on the
sysObjectID, which are not modelled, and may go either way in `CaptureVendor`.

### AgentCommand, AgentLoop, Discovery, AgentLog

`token` is the row's command columns; a request is named by its number, which stands
for `commandRequestedAt`.  `acks` are HTTP calls: sent, read by `ack`'s first query,
written by its second; `AckFails` is a call lost on its way, or one the agent gives
up on while the API still serves it (`gone`).  `loop` is `checkCommand`, `sweep` the
background discovery with its report, `updating` the mutex of `checkForUpdate`.
`Restarted` ends the process with everything it held; `Reboot` does so at any time.

`AgentLoop` keeps, for each printer, how well it is known; `Probe`, `Save`,
`ReportSearch` and `HandOver` are the goroutine of `startDiscovery`, `StartUp`,
`PollTick`, `DiscoveryTick` and `TakeCount` the select loop of `run`.  `EndCycle` ends
a cycle of the start or of the ticker, with `maybeDailySweep` after it; the cycle that
a count of new printers begins has an end of its own, `EndExtraCycle`, after which no
sweep is considered.  `Kill` may tear a file that is being written.  A day has three
parts, which is what `dailySweepDue` asks.

In `Discovery` an address is a number and a network a set of addresses.
`BeginSweep` computes the targets from the host's networks, the panel's, Active
Directory's, the routes, the print servers' ports and queues and the neighbourhood
of known printers; the three `Lookups`, Active Directory's subnets, the routes and
Active Directory's queues, may each fail alone.  `ProbeAll`, `CheckNamed`,
`CheckSilent` and `EndSweep` are the stages of `Run` and `MergeDevices`.  A probe that
fails does so by a timeout or by another error, after which an address nobody named is
not looked at any more; a page may be a printer's or a label printer's, which only a
named target is added for.

In `AgentLog` two loops upload the same day's file.  The control loop asks first
(`CheckLog`), reads the file that is open then (`ReadLog`), and the day is read when the
upload is posted, as in the code; midnight, a line or a restart may come between any
two.  `newer` of an entry says that it answers the request.

### Enrollment and OneTimeCode

`exchange` is `ReadCode` (three refusals, outside the transaction), `Claim` (the
conditional `updateMany`, which takes the row's lock), `Commit`; `Rollback` may come
at any point.  Revocation is a read and a write by id which waits for the lock.
`OneTimeCode` knows only who redeemed a code and which codes are revoked;
`Enrollment` implements it with `redeemedBy` mapped to the token its codes name.

### Updater

Every file operation and service request of `Download`, `Apply`, `RunHelper`,
`RestartService` and `RunRestartHelper` is an action that may fail
(`Fault`), and `PowerCut` may come between any two.  On Windows the swap is a chain
of a helper process (`swapper`) that waits for the service's process; the RESTART
command has a helper of its own (`starter`), and both may live at once.  On Linux
the file is renamed in place.  `row` and `stored` are a release's row and file,
which are written and removed one after the other.

### Subscription

Stripe is external: `subs` are its subscriptions, `events` what it has still to
deliver.  `Deliver` reads and `WriteStatus` writes; a handler that fails puts the
event back (`Redeliver`).  `ReadForPricing`, `WriteOverride`, `PriceItem` are
`updateTenantPricing`, `StartSync`, `CountDevices`, `SyncItem` the nightly job.
`Ask` is a request for a checkout or a new card, which the API grants whatever the
status, though the page offers it to some only.  `Blocked` is the guard.

### Notifications and Tickets

| code | actions |
|---|---|
| `collectCurrentAlerts` | `Collect`: takes `detected`, which `IssueChanges` may change at any time |
| `syncNotifications` | `ReadExisting`, `CreateRow` (one per item, in any order), `AutoResolve`, `AfterRows` |
| `sendDigestEmail` | `SendDigest` (staff), `SendToClients` |
| `autoCreateTickets`, `createAutomated` | `ReadAutomation`, `OpenTicket` (a failure is logged and the next is tried), `TicketsDone` |
| an error or a stopped process | `Fail`; a lost race for the unique key ends the sync in `CreateRow` |
| `resolve`, the preferences | `Resolve`, `SetPreferences` |
| `create` | `CreateTicket`, then for its file `SaveFile` and `AttachFile` of `Own` |
| `TicketsService.update` | `ReadTicket`, then `WriteStatusOf`, `WritePriority` or `WriteAssignee` |
| `addComment` | `Comment`, `SaveFile`, `AttachFile`, `Tell` |

`sync[s]` holds what one sync read and created.  The job (`Cron`) and any number of
`Users` sync at once; only the job mails.  A `resolved` row is split by its writer,
staff or a sync, which the code does not record.  The refresh of an open row writes
only its text and is left out; so is `readAt`, which only the bell reads.

### Fleet

`PollPrinter` makes a report, `Attempt` is one HTTP call of it, which looks the
device up; `Store` or `StoreFails` ends it; an answer may be lost, and the report is
then sent again.  A report has one printer: the code sends a cycle's printers in one
request and stores them one after another, so that a fault half-way leaves the first
ones stored, and stored again by the next attempt; here a report is stored or not.
What is sent of an address at which nothing answered is left out as well: without a
serial number it finds the device seen last at the address, which it leaves the one
seen last there.  `MovePrinter` moves machines, also to another's address.
`Decide` and `Assign` are what staff answer.  `identified` and `stored` are history
for the properties.

### PanelRoutes, PanelPages, Panel

`PanelRoutes` gives each client function of `web/src/lib/api.ts` and
`platform-api.ts` its answer by the guards of its route: 401, 402, 403 or 200.
`PanelPages` says of each page which calls it makes before it knows its viewer, when
it refuses, what it reads then and in which order, and which links and forms it
draws for whom.  `Panel` runs them: `LayoutAccess`, `LayoutOnboarding`, `LayoutBell`
race `PageAsks` and `PageReads`; `Redirected` chains loads; `Follow`, `Submit`,
`SignIn`, `SignOut`, `Visit` are the viewer's; `EditKeys`, `Revoke`,
`SubscriptionTurns` and `SessionEnds` may happen in the middle of a load.
`steady` says of a load that nothing changed since it began.

## 4. Runs

All runs have `CHECK_DEADLOCK FALSE`: days, instants, requests and polls are
bounded, so every model stops.  Symmetry is used where actors are interchangeable
and no liveness is checked: staff requests and ack calls in `Requests`, staff and
users in `Desk`.

| run | subjects and what it shows | bounds, and why they are enough |
|---|---|---|
| `Billing` | *contracts*: `AtMostOneActive`, `RenegotiationKeepsCoverage`, `NewestWinsItsFirstDay` with one request at a time, any write of which may fail. *pages*: `BilledOnce`, `NeverOverbilled`. *trend*: `TrendSound`. *forecast*: `ForecastSound`. *collector*: `PollSound` | three contracts, so one renegotiated and that one again; a period of two instants and one of three after one of monitoring, seven kinds of printer, one reset: every combination of readings before, in and between the periods, with a dip inside the longer one; histories of three readings over three days with full, partial and low readings; four reports of two supplies, enough for a replacement with a run of equal reports on a side; two polls of each kind of host, with two requests lost or cut off |
| `Requests` | *invoices*: `LivePeriodsDisjoint`, `OnlyClosedPeriods`, `OnlyReplacingRevives` with the job and two staff requests at once (a cancelled row comes back by a request that chose to replace it, or as PAID by a payment that had read it before: see `Invoicing_cancelled_paid`). *contracts*: the same with one staff request and an edit or the cancellation of the contract at once. *commands*: `RepeatedOnlyAfterLostAck` with lost and late acks, reboots and expiry | three months of two days: each request can generate, cancel, replace and pay, in any order with the other; two command requests, one failed ack, one reboot, two calls at once (the loop's and the sweep's) |
| `Staff` | *requests*: with one request beside the job, nights missed: every closed cycle invoiced, once a month, paid and live rows kept. *change*: one change of the cycle day at any moment of the job bills no day twice and leaves none between the invoices of two months in a row (together `EveryDayBilledInTurn`, `InvoicesKeepTheirPast`). *panel*: `RedirectsEnd`, `NeverWronglyRefused`, `ShownIsCurrent` | months of three and four days, cycle days 1 to 3 in both directions, a customer billed up to date, months after the change (one request at a time: ten days); every page, every kind of viewer, an empty and a full tenant, the presets of permissions and two more, two changes under way, four redirects (every chain that ends does so in fewer; a browser gives up after about 20) |
| `Agent` | *command*: `SearchEnds`. *loop*: `LoopSelfHeals`, `FoundOnesKept`. *discovery*: `ProbesStayNear`, `PrintersKept`. *log*: `LogsReachPanel` | two printers, one of which always answers, one kill, one file fault; sixteen addresses in four /24s of four, one public, named by the panel, Active Directory, the routes, a print server's ports and queues (the routes and one queue always, the others in every combination), one reply lost or refused and one lookup that fails; an answering, a silent, a version 1 and a label printer; two days of log |
| `Lifecycle` | *enrollment*: `TokensMatchCodes` and the refinement of `OneTimeCode`. *subscription*: `StatusFollowsStripe`, `PaymentUnblocks`, `ItemFollowsTenant`. *updater*: `WholeBuildNotOlder`, `UpdateTakesEffect` | two codes, three redemptions, a revocation, three ticks around the lifetime; one device, two checkouts, three changes at Stripe, one price change, one failed call; three builds, the second mandatory and the third not, with automatic updates on and off, on both platforms, one fault, a RESTART, a release withdrawn |
| `Desk` | *notifications*: `AnnouncedOnce`, `TicketsFollowRows`. *tickets*: `TicketsKept`. *fleet*: `MachinesStayApart`, `ReviewStands` | the job and two users, three syncs, two changes of what is detected, one failure, one switch; two staff and one client, three updates that may cross (with a comment at most three requests), the ticket's own file and one comment's, one file or row of which may fail; three machines, one without a serial number, two addresses, one move, two attempts a report |
| `Invoicing_overlap` | divergence: for a customer with one invoice only, moving the cycle day to an earlier day makes the job bill that month again | a new customer, one change |
| `Pages_baseline_unit` | divergence: a baseline of printed pages anchors the engine's counter when the split is missing | one kind of printer |
| `Notifications_returns` | bug: an issue that went away and came back is passed over, although nobody dealt with it | the job alone, three syncs |
| `Invoicing_cancelled_paid` | bug: a payment that read an invoice before it was cancelled makes it PAID | one invoice, two requests of staff |
| `Fleet_two_customers` | divergence: two customers whose networks use one address share a device | two customers, three machines |
| `Panel_blocked` | divergence: /subscribe of a blocked tenant redirects to itself for whoever holds `notifications` | no change needed |

Each `...TypesOK` is the conjunction of the type invariants of the parts.

**Fairness** is stated per subject, and nothing else is assumed to happen:

* command: the API serves a call it received, the agent's loop takes its next step
  (a 2-minute ticker and calls with timeouts), and a sweep ends (every probe has a
  timeout).  There `MaxLost` and `MaxReboots` are 0: with either, the panel's text
  stays until the next request, and `SearchEnds` is not claimed.
* loop: cycles and sweeps end, and the select takes the ticker again and again; the
  afternoon comes every day, and lasts longer than a tick and a cycle, which is
  why those two are strongly fair *in the afternoon*; the cycle that has to end there is
  one of the ticker's, after which the day's sweep is considered.  The ticker of a
  discovery interval below a day is not assumed to fire.
* discovery: a sweep's stages end, and the next day brings another sweep.
* log: the control loop ticks and its calls end.  A call may still be lost.
* subscription: Stripe delivers until it is answered, requests end, and the job runs
  every night.
* updater: goroutines and helpers go on, the ticker fires, a stop ends, and somebody
  switches the machine on again.

Nothing is assumed of staff, viewers, printers, losses or changes.

## 5. What the models show that no run claims

Each of these was met while modelling; the property named, where there is one,
stands in its module and TLC finds it violated, or the bound that excludes the case
is named.

* Contracts and invoices: several checks are on a row that a later query writes by
  id.  With one request beside the job they protect; with two they do not: two
  creates leave two ACTIVE contracts, a cancel overwrites a payment made between its
  queries (and a payment a cancel, which `Invoicing_cancelled_paid` reports), and two
  replacing generations replace a live invoice.  The same holds of
  a revocation that overlaps a redemption, which succeeds without its error although
  the token stays valid.  A comment says that a month is billed by "whichever
  contract covered the start of that month" (`contracts.service.ts:161`); the code
  takes the contract that starts last among those meeting the period.
* Commands: `ack` finds the row by its request and writes it by its id; with a
  request made between the two, or an ack that is served late, the newer one is
  marked with the older result, which the comment of `ack` excludes
  (`agent-command.service.ts:39-42`).
* `AnnouncedOnce` promises at most one announcement: an issue a user's sync finds
  first is never mailed, what a sync created before it failed or lost a race is
  neither mailed nor ticketed later, and a sync whose list is older than another
  sync's row resolves that row while the issue is there.
* `Tickets!RepliesReachStaff`: a reply on a ticket that nobody is assigned to, by
  somebody other than the customer's user who opened it, is mailed to that user
  alone (`tickets.service.ts:385-397`).
* `SupplyForecast!FleetForecastAgrees` fails from five reports on: a level that
  creeps up little by little by as much as a replacement shows as one jump between
  the few readings that are picked, though the comment says "its result is identical" (`devices.service.ts`, `forecastInputs`).
  `ForecastSound` therefore excludes such histories.
* `Tickets!TimesFollowStatus` exempts one crossing (`crossed`), which the run reaches:
  two updates read a settled ticket, one reopens it, and the other settles it again
  without a `resolvedAt`, because the row it read had one (`tickets.service.ts:266`).
  Without the exemption TLC finds that in three updates.
* `Updater!UpdateTakesEffect` exempts a release that is passed over: with automatic
  updates off and a mandatory release, a RESTART's helper may start the old build
  before the swap's rename; if an ordinary release is then published, `getLatest`
  returns that one alone, it is skipped, and the old build keeps running, with the
  mandatory one on disk, until the next restart (`service.go:345-348`).
* `Updater!LeftRunning`: when the move and the restore both fail, or a RESTART's
  helper starts the service in the middle of a swap, the service stays stopped until
  the next boot (`apply_windows.go:86-88`).  `OnDiskNotOlder` fails with a withdrawn
  release and two RESTARTs: the old build, started again in the middle of a swap, may
  fetch what is older than the file just swapped in.  Hence the `removals = 0` of
  `WholeBuildNotOlder`.
* `AgentLoop!PolledRightAway`: the count of new printers is dropped when the previous
  one was not taken, and the poll waits for the ticker (`service.go:493`);
  `NewOnesPolled` is what holds.  A sweep that ends after midnight marks the new
  day as swept.  `discovered.yaml` is not written atomically.
* `Subscription` with `Overlap = TRUE`, events overtaking each other, violates
  `StatusFollowsStripe`: the handler writes the status the event carries
  (`schema.prisma:126-133` promises a mirror).  What survives any order is
  `PaymentRecorded`, its first half.  A tenant in PAST_DUE may check out a
  second time.
* `Discovery!NamedKeepCommunity`: when the /24 of a known printer is swept, the
  default community takes the place of the one a print server's port gave for a host
  in it (`discovery.go:164-173`, against `agent/README.md:192`).  A /24 covered by a large range from the panel is
  out of scope for tcp/9100, also next to known printers; a community that changes
  is never learned again.
* `Fleet` with `Overlap = TRUE`, two reports served at once, violates
  `MachinesStayApart`.  A counter of 0 is not "no counter", so such a device is
  billed without a review.
* `Discovery`: an address nobody named that answers a probe with an error other than
  a timeout, as a host that refuses the port, is never looked at on tcp/9100
  (`discovery.go:424-428`), in any sweep.
* `Collector`: when the walk of the levels is lost and the printer answers again, its
  supplies are sent at level 0 beside the maximum that was read (`collector.go:644`);
  a negative counter counts as 0; the vendor's subtree counts as
  captured before the capture; one lost GETBULK makes a host a GETNEXT host for the
  process's life; a comment of `walkPageCount` says "sums", the code takes the
  largest.
* `AgentLog!DayHoldsItsLog` and `AgentLog!OverlapHarmless`: a day's entry may hold
  the file of the day before (`client.go:209-213`), and a slow upload may put an
  older state of the file over a newer (`service.go:197-200`).
* Panel: of the three presets (`permissions.ts:79-95`) two are refused pages they are
  offered: technical support the ticket pages (`getUsers`) and the pages that read
  the current billing, finance the contract and invoice pages (`getCustomer`); so
  `NeverWronglyRefused` speaks of those who hold everything, and of the landing page
  for everyone.  A customer's login has no link to its own invoices.  On a
  customer's page a blocked or expired session is shown "not found", because the
  `catch` around `getCustomer` takes the redirect too; the same `catch {}` in server
  actions turns 401, 402 and 403 into "failed".  `/agent-download` of a blocked tenant
  ends in an error.

## 6. Proofs

Every theorem holds for all values of the constants under the named assumptions of
the modules (`...Assumption`), which every run that extends the module evaluates.

* `ContractsProofs`, the calendar: consecutive periods tile the calendar (`PeriodsTile`);
  `cycleContaining` and `lastClosedCycle` return what their names say; an invoice is
  never due before its period ends.
* `ContractsProofs`, contracts: type correctness; `SerialOneActive`, with a single request at a
  time never two ACTIVE rows.  The invariant adds what the request holds: before its
  insert no row is ACTIVE, before its expiry at most its target is.  `NewestWins`, for
  any number of requests at once: that a contract bills its first day depends on every
  row being a range of days (`RangesHold`).  `RenegotiationCovers`, for requests that do
  not overlap: the row a request is about to replace is already closed where the new one
  starts (`TargetClosed`).
* `InvoicingProofs`, invoices: type correctness; `OnlyClosedPeriodsBilled` for any number of
  staff and changes of the cycle day.  The invariant says of a request past the
  closed check that its period has closed, which no later step can undo since days
  only pass.  `NoDayBilledTwice` for a fixed cycle day, together with one invoice a
  month: the invariant says that every row and every request past `periodFor` is a
  whole period of that day (`FixedCycleDayInv`), so that stitching gives the month's
  own start, and the periods tile.  `RevivedByStaffOnly`, for any number of requests:
  what the job is about to write is never a replacement (`JobReplacesNothing`); of
  staff it is the request's own `replacing`, or a payment past its check.
  `OneRequestKeepsThePast`, for one request of staff at a time: what it read of the row
  still holds when it writes (`ReadsHold`), because the job writes only rows that were
  not there.  `MissedNightsAreCaughtUp`, while the cycle day and the contracts stay as
  they are and fewer nights in a row are lost than the shortest month has days: the
  month a run read is the last closed one (`JobOnTrack`), and a closed month without
  its invoice closed no more nights ago than the job has missed (`NightsCounted`).
  Without that bound it is false: the job only bills the last closed month, and an
  older one is left to staff.
* `InvoicingProofs`, a cycle day that changes: `ChangingCycleDay` for any calendar,
  any number of changes, each at any step of the job, of a customer with a `SteadyHistory`: staff only
  change the cycle day, the rows reach up to the last closed month (`BilledSteadily`),
  and the `SteadyTerms` hold: contracts cover every day and stay, fewer nights are missed
  than a month has, and `MaxMissed + 1` is before every cycle day but the first.  No day is on two
  invoices, no day between any two is on none (`NoDayBetween`, more than the
  `NoUnbilledDays` of the run, which looks at consecutive months only), and no month is
  skipped.  The invariant `SteadyInv`: each row is followed by one that starts on the next
  day (`Tiled`) and no month since the first is without a row (`Unskipped`); the month
  the job read is the one before this one, or this one with the one before billed, and
  its period follows the last row there is (`JobReads`, `Follows`); the month before is
  billed, or the job has missed every night since it ended (`NightsLost`).  The last
  hypothesis is needed: with one night missed, moving the cycle day from 1 to 2 on the
  2nd of a month makes the month before too old for the job before it was billed, and
  the period it bills next is not stitched to an invoice two months back, so that the
  first day of the skipped month is never billed (TLC finds it as a counterexample of
  `NoDayBetween` with such bounds; staff can still bill the month by hand).
* `PagesProofs`: type correctness; `EveryPageBilledOnce`, and `NeverBilledMore`
  for any printers, periods, numbers of readings, resets and baselines.  The inductive
  invariant `PagesInv` relates the stored rows to the printer: of two rows the later
  one's counters stand to the earlier one's as what was done in between, or what was
  done since a reset, allows (`Comes`); each row also to the counters as they are now
  (`RowsCome`), the manual row too (`ManualComes`); and while nothing is reset a row is
  a full reading or a dip with a full one before it and, when its period is over, one
  after it (`SteadyRow`).  The rest is what `pagesInPeriod` computes: `Chosen` takes
  rows in their order, `Filtered` keeps the first row, when no row is above the last
  one also the last, and then never falls (`FilteredSound`); hops telescope (`EngineBound`, `SplitBound`,
  `EngineExact`, `SplitExact`); a period's rows begin and end where the row before it
  and the last one in it say (`EndsOfUsed`), so that the periods telescope too
  (`BillsTelescope`).  `NeverBilledMore` has the hypothesis `BillableFleet`, which every
  printer of the runs satisfies: a printer is never reset and misses neither its printed
  counter nor a period's first instant, or else no counter reads low and it is not both
  billed from a baseline by a printed counter and polled without that counter.  The
  latter is false (run `Pages_baseline_unit`), and so is a dip before a reading at a
  period's first instant: the reading counts for the next period only, so the
  dip does not recover in its own (TLC shows it with `faults = {"dip", "atStart"}`).
* `PagesProofs`, the chart: `BothChartsAgree` for any window, length of a day, counters
  and number of readings, from the order of their instants (`TrendInv`).  A day's row
  of the fleet's query has the value of the day's last reading in the charted counter,
  whether the baseline falls on that day or not (`RowSound`); both count the printed
  counters alike (`CountedAlike`), so the rows taken by reading and by day are the same
  ones in the same order (`DailyAlike`, `ChosenAlike`).  Where no value falls the filter
  keeps all (`FilteredWhole`) and the hops telescope (`RisesAddUp`).
* `PagesProofs`, the forecast: `FleetForecasts` for any supplies, levels, thresholds
  and histories.  The readings the query picks are compared with the whole history by
  its replacements (`Replaced`): of two readings next to each other whose levels
  differ both are the end of a run of equal reports, so dropping the middle of the
  runs loses no replacement (`ReplacedKept`), and between two readings that were kept
  all that was dropped equals the first, so it makes none (`ReplacedNew`); the rows then
  start after the same replacement (`RowsAlike`).  Of the at most three rows picked no
  other replacement is made unless the level crept up (`PickedForecast`).
  `NoBlendedForecast` adds that no rate spans a replacement, with the hypothesis
  `NeverOverfull` for its bound on a rate: a supply is never reported as more than full,
  which printers keep to and nothing in the code checks.
* `AgentProofs`, commands: type correctness; `AckedBeforeRepeated`.  The invariant
  relates, for each request, the times it ran, its failed acks, its calls still on
  their way and whether the agent holds it: a request that is pending again has lost
  an ack for every time it ran.
* `AgentProofs`, the loop: type correctness; `AnnouncedAreKept` for any printers and
  any number of sweeps and ends of the process.  `AnnouncedStay` is not inductive, as a
  restart reads the list again: `FileKeeps` says that what was announced, or is about
  to be, is in the file or in config.yaml as well, and that before the file is written
  nothing is about to be announced.
* `AgentProofs`, the log: type correctness, for which an upload under way must carry
  the file of a day that has come, as it was or shorter (`UploadsCurrent`);
  `LogsAreKept`, from the day of the server being at most one ahead.
* `AgentProofs`, discovery: type correctness; `SweepsStayNear` on any site, whatever
  probes and lookups fail.  `DiscoveryAssumption` says what a site is (`IsSite`): its
  networks and named printers are at its addresses, and RFC 1918's ranges are whole
  /24s.  The invariant `PointedTo` says that a target carries a label only if a source
  named it, so that a silent named target is one, and that the scope of the check of
  tcp/9100 holds own networks, small ones, and the private /24s of printers named or
  polled (`ScopeNear`); what is polled only grows, so a sweep's scope stays justified
  after it.  `SNMPIsKept` from the same steps.
* `BillingProofs`, the collector: type correctness; `PollIsSound` for any host, any
  number of polls and of requests lost or cut off.  Its hypothesis `CountersOK` is that
  no counter of the host is negative, as `prtMarkerLifeCount` is a Counter32.  The
  invariant follows the requests of a poll (`Reached`): in a poll nothing was taken
  from, a table that lies behind it has all its rows, and what the scalars, the marker
  and the split brought is what the host has (`ReadInv`).  GETBULK is given up only for
  a host that answers GETNEXT or speaks only v1 (`SilenceInv`), and what it was tried
  for in vain was paid by a cut each time but the last (`PaidInv`).
* `LifecycleProofs`, enrollment: type correctness, `TokensAndCodesMatch`, and
  `EnrollmentImplements`: every step of `Enrollment` is a step of `OneTimeCode` or a
  stutter.  The invariant says that one transaction at a time has claimed a code (the
  lock), that a claimed code is neither used nor revoked, and that a token is named
  by the code of the request that minted it.
* `LifecycleProofs`, the subscription: type correctness; `PaymentsRecorded` for any
  numbers of checkouts, changes at Stripe and faults, in whatever order events are
  handled and however their handlers overlap.  The property speaks of moments when no
  event is left; the invariant `Recorded` says how one gets there: whatever is pending
  is of a subscription that was paid for, so is the one in the row, and once one was
  paid either the row names one or its `completed` event is pending, also when a
  handler fails and its event is given back.  The rest of `StatusFollowsStripe`, the
  status itself, is false when events overtake each other (section 5); that it holds
  while they do not is a lemma (`StatusInOrder`).
* `DeskProofs`, notifications: type correctness; `NeverAnnouncedTwice` and
  `TicketsAreOpened` for any number of users.  The unique key puts a row on one
  sync's list at most (`OneCreator`), and while that sync has not come to an
  announcement nobody has made it (`NotYetAnnounced`); without the two, nothing says
  of a sync about to mail that no other did.  As long as nothing failed, a row
  without its ticket is on the list of a sync at work (`OnItsWay`).
* `DeskProofs`, tickets: type correctness; `TicketsAreKept` for any number of staff,
  clients, comments and crossing updates.  The invariant says that an update no other
  write has overtaken still knows the row's `resolvedAt` (`EditsKnowRow`), and that an
  attachment's file is there before its row (`FilesFirst`).  The property has the
  exemption of section 5: a settled ticket may lack its `resolvedAt` after the one
  crossing named there.
* `DeskProofs`, the fleet: type correctness, no two devices with one serial number
  among it; `ReviewIsKept` for any number of sites, printers, retries and requests
  served late.  `MachinesApart` has the hypothesis `~Overlap`, that a site's next
  report is not looked up while one of its requests is still in flight: with two at
  once the property is false (section 5).  Its invariant `MachinesInv` says that the
  requests in flight of a site carry one reading (`OneReport`), that the printer last
  identified at an address is the device seen last there (`Located`), and that the
  row a request looked up has not become another machine's since (`Meets`).
* `StaffProofs`, the panel: type correctness, `RedirectsAlwaysEnd`, `ShownIsAllowed` and
  `NoOneWronglyRefused` for any audience, any sets of permissions, any bounds on
  changes and any limit of at least two redirects (`PanelAssumption`).  Each page has a
  lemma that it asks, reads and offers only what exists and only behind its own
  check (`WellFormed`, `Guarded`), and every step is one of seven kinds (`Moves`).
  `RedirectsInv`: a load sent on to a login form has no live session, so the form is
  drawn, and a load sent on twice is at a form or at /subscribe.  `Current`: as long
  as nothing changed under a load (`load.steady`), each read it has behind it was
  answered as it would be now, and the permissions it was told are the row's.
  `Unrefused` adds what leads where: a page that is shown let its viewer in, a sign-in
  leads to pages that refuse nobody, and a customer's login that follows links stays
  among the pages made for it.
* `LifecycleProofs`, the updater: type correctness; `WholeBuildAlways` for any set of builds and any
  number of faults, power cuts, RESTARTs and releases.  The invariant has two parts.
  `DiskInv`: while a helper swaps, the download it runs from is whole and no new
  download touches it; between its two renames the old file is the backup, and a
  process that still runs without a file has its own build there.  `VersionsRise`, as
  long as no release is withdrawn: an update, and the file a helper is about to swap
  in, are published and not older than anything installed, also when the old build
  was started again and found an update of its own.

**The runs as wholes.**  Six runs compose several components, one of them the subject
of a behavior while the others rest.  For all but `Requests`, theorems speak of the
specification that TLC runs as well as of the parts' own:

* `BillingProofs`: `BillingTyped`; `BillingHolds`, every invariant of the run
  but `AtMostOneActive` on the terms `HonestDevices` (those of `NeverBilledMore`,
  `NoBlendedForecast` and `PollIsSound`, all of which the run's constants satisfy); and
  `BilledContractsHold`, that invariant and both properties, for one request at a time.
* `StaffProofs`: `StaffTyped` and `StaffBilledInTurn` are not consequences of theorems
  about the parts, because the subject *change* starts from a customer with a history
  (`SteadyInit`).  `BilledInTurn` is the invariant: in *requests* the catch-up
  invariant of `MissedNightsAreCaughtUp`, which requests of staff do not disturb
  as long as the cycle day stays (`RequestsStep`); in *change* `SteadyInv`, for any number
  of changes (`ChangeStep`).  That the initial table is such a history is a proof of
  its own (`SteadyMonths`): the closed months of any cycle day, tiled and on
  their cycle.  The terms are `SteadyStaff`: the customer starts on a working day
  three months into the calendar, and `SteadyTerms`.  The run itself goes beyond them,
  with cycle day 2 and one night missed: there a month may be skipped as said above,
  which `NoUnbilledDays` does not count, and the invariant of the proof would not hold.
  `StaffHolds` adds the rest of the run: the panel's three invariants, and
  `InvoicesKeepTheirPast` for one request at a time, from any table in which no
  request is under way (`AloneStart`, `PastKept`).
* `AgentProofs`: `AgentHolds`, all the safety of the run: its types, `ProbesStayNear`, and
  the safety halves of `FoundOnesKept`, `PrintersKept` and `LogsReachPanel`.
* `LifecycleProofs`: `LifecycleHolds`, every invariant of the run and the refinement of
  `OneTimeCode`, but of `StatusFollowsStripe` the half that holds in any order,
  `PaymentRecorded`.
* `DeskProofs`: `DeskHolds`, every property of the run, `MachinesStayApart` with `~Overlap`.

The argument is the same wherever it is possible: a step of the whole is a step of a part or
leaves its variables alone, so that each part's specification follows from the
whole's (`ContractsPart`, `PagesPart`, ...; fairness is not used), and the theorems
about the part hold.

Only model-checked: liveness and whatever needs ENABLED (`SearchEnds`,
`LoopSelfHeals`, `NewOnesPolled`, `EveryPrinterPolled`, `LogRequestAnswered`,
`PaymentUnblocks`, `ItemFollowsTenant`, `UpdateTakesEffect`), and the
cycle day of a customer that is not steady in the sense above.  `Requests` composes
`Invoicing` and `AgentCommand`; its properties are proved of these, and the composition
is only model-checked.  No module with proofs uses a RECURSIVE operator.

## 7. Not modelled

* Amounts and price formulas (`resolveBilling` beyond the choice of contract and the
  pages) and the split into mono and color; revenue allocation and reports; PDF and
  e-mail contents.
* Of the agent: the worker pool of `PollAll`, the trays, alerts and display (read as
  the supplies are), the calls to Windows behind discovery, which are inputs, and a
  sweep that is cut short.
* Of the panel: what a page shows of the data, filters and pagination, and answers
  other than the guards'.
* Password reset (two resets with one link both pass the check, `auth.service.ts:97`),
  creating users, sign-up, the platform's tenant screens, `confirmPaymentMethod`, the
  external API and its keys, the cooldown of ops alerts and audit-log writes: single
  writes or reads, with no order to get wrong beyond the one named.
* A batch of several printers that ends half-way, and reports of addresses at which
  nothing answered (see Fleet).
* Deployment and backups: scripts and container files.
