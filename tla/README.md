# AYTracker: TLA+ models, model checking and proofs

AYTracker is a multi-tenant workforce and fleet tracker. Workers start and end
shifts, take breaks, move between positions and drive vehicles; while they are on
shift their device collects location points; supervisors correct records, and a
sweep closes shifts nobody ended. The API (Fastify, Prisma, PostgreSQL) serves many
devices at once, and the devices are offline part of the day and retry whatever was
not answered.

This directory holds TLA+ modules of the parts of that program where interleaving,
retries and crashes decide whether the records are right, TLC configurations that
check them on small instances, and theorems about them that TLAPS checks.

    cd tla
    tlasany ShiftCommands.tla
    tlc -workers 2 -config shift_race.cfg MCShiftCommands
    tlapm ShiftCommands_proofs.tla

Paths below are relative to `src/`. `PROJECT.json` maps every definition to the
lines it models.

## 1. Inventory

| Component | State it keeps | Operations | What makes it correct |
| --- | --- | --- | --- |
| Shift and position commands (`modules/shifts`) | `shifts`, `shift_breaks`, `position_sessions` | startShift, endShift, startBreak, endBreak, changePosition, correctPositionSession, autoCloseOverrunningShifts | one open shift, break and session per worker; status and rows agree; a completed shift has nothing open and stays completed; sessions of a shift do not overlap |
| Driving handoff (`modules/shifts`, `driving-commands.ts`) | `driver_trips`, `vehicle_assignments` | beginDriving, endDrivingForSession | one driver per vehicle and one vehicle per driver; a trip runs no longer than the position session it began with |
| Trip commands (`modules/drivers`) | the same trips and assignments, odometer readings | startTrip, claimForTrip, endTrip, recordOdometer, reportIncident | a trip is ended once; the odometer does not go back |
| Idempotency ledger (`idempotency_keys`; the `idempotent` wrapper of the portals) | one row per (organization, actor, clientActionId) | claim, complete, release | a command runs once per key; a retry gets the first answer |
| Tracking sessions and ingestion (`modules/tracking`) | `tracking_sessions`, `location_points`, `worker_live_states` | openSession, attachTrip, detachTrip, ingest, closeSession | no point outside its session; one open session per worker; totals agree with the points |
| Device collector and point queue (`packages/tracking-client`) | a durable queue ordered by sequence number; an `uploading` flag per collector | onFix, enqueue, flush, remove, start, stop, clear | an accepted point reaches the server once, or is dropped for a stated reason |
| Tracking algorithms (`packages/tracking`) | none | sampling, gaps, stops, geofence visits, speed alerts | equal to their definition on every order of arrival |
| Eligibility (`modules/workforce/src/domain/eligibility.ts`) | none; reads qualifications, overrides, capacity | evaluateEligibility | the decision; a position is overbooked at most by requests that decided at once |
| Worker and driver portal routes (`apps/api/src/routes`) | none | each route: a command, the tracking session, the vehicle, the session's permissions, in transactions of their own | a step that fails leaves the others consistent or repairable |
| Accounts, sessions, permissions | `workers`, `drivers`, `users`, `auth_attempts`, `sessions` | two PIN doors, the password door, register, createWorker, updateWorker, changeEmail, logout, setDrivingContext | who is locked out stays out; a change of a person ends his sessions; driver and permissions of a session change together |
| Administration (`apps/api/src/routes/admin.ts`) | `work_areas`, `positions`, `organizations`, `branding_assets`, `organization_settings`, `audit_logs` | create, move, archive, reactivate, resize; logos, name, settings, audit | rules across two rows though no transaction joins them; the trail tells what was done |
| Market, billing, entitlements | `markets`, `prices`, `feature_grants`, three in-process caches | resolve, quote, tax, can | no answer older than a cache's lifetime; the record decides the market |
| Seed (`packages/database/prisma`) | reference tables, the demo organization | a script of single statements | what ended is whole; sold prices keep their amount; one run writes the demo organization |
| Web application (`apps/web`) | a page's last answer, a busy flag, a poll, a recorder; forms | load, poll, tap, resend, save, reload | every tap ends, or waits for an answer of the person; no recording into a closed session; what is shown is not older than what was saved |
| Fleet, production, audit, reporting, recommendations | none of their own | calculations over rows | local to a request |
| Domain primitives and events | none | intervals, durations, pauses; money, quantities; the event bus | equal to their definition |
| Database schema and tenancy | partial unique indexes, CHECKs, row-level security | - | the last word on every concurrent write |

How they interact. A device sends an action with a `clientActionId` to a portal
route. The route runs it under the idempotency ledger: look the key up, claim it,
run the command in a transaction of its own, open or close the tracking session and
change the session's permissions in further transactions, complete the claim. The
command reads its rows, decides in a pure domain function, and writes; the indexes
judge the writes. `changePosition` and `endShift` call `endDrivingForSession` in
their own transaction; the driver portal writes the same trips from another module.
The collector uploads batches to whichever tracking session is open for its worker.

Hard behaviours:

- *Interleaving.* Transactions run at READ COMMITTED and no read locks its rows, so
  every decision may be stale when its write happens. Some writes are guarded by a
  filter (`endedAt IS NULL`), some by an index, some by nothing. The office's routes
  and the seed have no transaction at all.
- *Several transactions per request.* A portal request is four or five of them, and
  may stop between any two.
- *Retries.* A device resends until it is answered; answers get lost.
- *Order of arrival.* Points, batches and answers arrive late, repeated and out of
  order; everything derived from them is recomputed.
- *Copies.* Pages and caches act on an answer that may be out of date.
- *Time.* An offline action carries its own instant, clamped into a window around
  the server's clock, so instants do not arrive in order.
- *Several writers of one row.* Trips and assignments are written by the shift
  commands, the driver portal, the fleet manager and (not) by the sweep.

The hazards, each at its line with the properties that cover it, are listed in
`PROJECT.json` under `hazards`; nine have no property, and their notes say why: most of them
the code does fall into, and section 7 names what TLC shows.

## 2. Plan

The modules in the order they were written, and what composes what:

1. `ShiftTables`, `ShiftCommands`: all commands that write shifts, breaks, position
   sessions and the trips of the handoff, with reads and commit apart.
2. `AnswerOnce` (abstract), `IdempotencyLedger` (detailed, implements it).
3. `TrackingSessions`, then `PointQueue`, which composes the device with it and
   implements it.
4. The proofs of these four, `ShiftCommands_proofs`, `IdempotencyLedger_proofs`,
   `TrackingSessions_proofs` and `PointQueue_proofs`.
5. `Accounts`; `Portal`, which puts shift, driving, trip, tracking and session
   services together the way the routes do.
6. `RouteAnalysis` and `TrackLog` (what ingestion derives from points), `TimeMath` and
   `Timesheet`.
7. `Eligibility` and `Workplace`, `Organization`; `Catalogue` and `Commerce`.
8. The pages: `Screens` (worker and driver), `AdminDesk` (administrators).

9. The proofs of the rest: `Accounts_proofs`; `Portal_proofs` (Portal and AdminDesk);
   `Office_proofs` (Workplace, Organization, Commerce); `Recursion_proofs` (Catalogue,
   TrackLog and Timesheet, whose theorems rest on what recursive definitions
   and folds compute).

All of it is on disk and checked. Every safety invariant and every action property the
passing runs check is also a theorem, in a few cases under hypotheses section 6 names; the
four liveness properties stay with TLC. What could still be proved: the weaker promises
`ShiftCommands` makes to a worker with two requests in flight.

## 3. Modules and the code

### ShiftTables, ShiftCommands

A table is a function from row ids to rows; a row never inserted is the `No...`
record. `ShiftTables` holds the rows, the `findFirst` reads, every partial unique
index and CHECK a statement of the modelled commands is judged by, and the writes
with the filters the code gives them (a break is closed where `endedAt IS NULL` and
nobody looks at the count; a position session is closed by compare and set; a shift
and a trip are closed by id).

`ShiftCommands` owns the tables, the requests and the clock. A command is a request
that goes through phases:

| Code | Actions |
| --- | --- |
| startShift | `StartShiftRead`, `StartShiftWrite` |
| requireOpenShift, then endShift | `RequireOpenShift`, `EndShiftRead`, `EndShiftWrite` |
| startBreak, endBreak | `RequireOpenShift`, `StartBreakRead`/`EndBreakRead`, `StartBreakWrite`/`EndBreakWrite` |
| changePosition | `RequireOpenShift`, `PlanPositionChange`, `ChangePositionWrite` |
| beginDriving | `RequireOpenShift`, `PlanAssignment`, `PlanPositionChange`, `BeginDrivingWrite` |
| endDrivingForSession | its reads in `RunningTrip`, `MayEndTrip`; its writes in `EndDriving` |
| endTrip of the driver portal | `EndTripRead`, `EndTripWrite`, `ReleaseVehicle` |
| autoCloseOverrunningShifts | `ListOverrunning`, `AutoCloseRead`, `AutoCloseWrite` |
| correctPositionSession | `CorrectRead`, `CorrectWrite` |
| a rule, a constraint or the process fails | `Abort` |

Each read step sees what is committed at that moment (READ COMMITTED, no row lock);
reads whose separation adds no outcome share a step. The writes of a transaction
become visible together, so they are one step, judged against the rows of that
moment. `Reconcile` is `resolveOccurredAt`: a client's instant clamped into a window
around the server's clock. The portal's `endTrip` takes its instant unreconciled, as
the code does. What lies between two phases of one request is where every other
request runs.

### AnswerOnce, IdempotencyLedger

`IdempotencyLedger` is the `idempotent` wrapper of `apps/api/src/routes/worker.ts`
around `PrismaIdempotencyStore`: look a key up (`Replay` or `Lookup`), insert the
claim (`Claim`), the command (`Commit`, `Refuse`), anything else that throws
(`Fail`), `Complete`, `Release`, `Crash`. The command stands for one the domain refuses
when its effect is already there, which is what makes a second execution visible.
`AnswerOnce` says what a device may rely on: the first success settles the key and
every later success is the same answer. `AnswersOnce` is `AnswerOnce!Spec` under the
refinement mapping `settled[k]` = the stored response of a COMPLETED row.

### TrackingSessions

One worker's WORK sessions and the requests on them. `OpenSession` is the open of a
shift's session with the index on open sessions; `CloseRead` and `CloseWrite` are
`closeSession`, whose write filters on `endedAt IS NULL`. A batch goes through
`Receive` (the route), `Admit` (schema, resolveSession, the session's window, the
clamp, the sampling floor) or `Reject`, `Append` (`createMany` with `skipDuplicates`
and `listForSession`), `Commit` (`updateLiveState`, which does not look whether the
session is still open) and `Answered`. An insert of a key that an uncommitted
transaction has inserted waits for it: the guard of `Append`. `measured` is the set
of points the session's distance and live state were computed from.

`Thin` is the sampling floor written as a recursive function over instants; `Clamp`
moves a time into the session's window and `InWindow` refuses what lies further out.

### PointQueue

The device, composed with the server: it EXTENDS `TrackingSessions`, its steps either
leave the server alone or are steps of it. `Enqueue`, `Peek`, `Remove`, `Clear` are the
operations of `IndexedDbPointQueue`; `OnFix`, `Stop` and the steps of `flush()`
(`StartFlush`, `PeekEmpty`, `Upload`, `UploadAnswered`, `Remove`) are the collector;
`Create` and `Stop` are what `useTrackingCollector` does. `flush[c]` is the
re-entry guard: at most one flush per collector, but two collectors (two tabs, or the
old one still stopping) flush one queue. Faults: `LoseConnection` (the request may or
may not have been served), `Kill` (IndexedDB stays), `RequestFails`.

### Accounts

A person of the roster is a worker row and, if he drives, a driver row with a PIN of its
own (`person`); an administrator is an address (`account`). `session` holds what was
issued: kind, owner, driver, permissions, and when and whether it ended. A login is
`PinLoginRead` or `PasswordLogin` (row and lockout read), `PinVerify` or
`PasswordVerify` (the slow hash, the failure counted), `Issue`. `CreateWorkerRead` and
`CreateWorkerWrite`, `PatchWorker`, `EndWorkerSessions` and `EndDriverSessions`,
`ChangeEmailRead` and `ChangeEmailWrite`, `RegisterRead` and `RegisterWrite` are the
office's and the registration's statements. `Authenticate`, `BeginDriving` or
`LeaveDriving`, `SetDrivingContext` are a command whose session is read first and
rewritten last. `Crash` stops any of them.

### Portal

One worker, one request: `step[w]` names the service call that is next, and each is a
committed step. `StartShift`, `OpenWork`; `EndShift`, `FindWork`, `CloseSession`,
`Strip`; `ChangePosition`, `BeginDriving`, `Elevate`, `Attach`, `OpenTrip`;
`ClaimForTrip`, `CreateTrip`; `EndTrip`, `ReadOdometer`, `WriteOdometer`, `Release`,
`Detach`. `Proceed` and `Refuse` are `requireActor` and the domain's refusals; `Fault`
stops a request between two steps, which is a crash or a call that throws. The
properties are about what agrees when no request of the worker runs and none of his was
lost (`Quiet`), or about single steps.

### RouteAnalysis, TimeMath, Timesheet, TrackLog

`RouteAnalysis` is `packages/tracking`: `Distance`, `Drawn`, `Stops`, `Gaps`,
`DetectVisits`, `DetectAlerts` as functions of a track. `TimeMath` is
`mergedIntervalSeconds` (`Absorb` is the body of its loop), `computeShiftDuration`,
`listPauses` (`Heard` is its loop's) and `computeTripTotals`, with the references
`CoveredTicks` and `PausedAt` that count instant by instant. The code measures
milliseconds and rounds to seconds, once for all merged breaks but once for every pause:
an instant is a tick, `Second` of them are a second, and `Rounded` is `Math.round`.
Sorting by start leaves the order of intervals that start together open: `ByStart` is some
enumeration in that order. `Timesheet` has the rows these are called with: `BreakOpened` and
`BreakClosed` record the breaks of a shift, with instants in any order but one open break at a
time; a row has an id, so that two rows may say the same;
`EventLogged` the pauses and resumptions of a trip, which old trips still carry.
`TrackLog` is the part of ingest that follows the insert: `Ingest` overlays the batch,
tags it with the trip, recomputes distance, visits (`SyncVisits`: match, insert, update,
delete the orphans) and appends crossings and alerts to the event log, which is only
added to: an orphaned visit goes and its events stay.

### Eligibility, Workplace, Organization

`Workplace` runs the decision of `Eligibility` where it is taken: `ReadRule`, `Decide`
(which counts), `OpenSession` for a worker; `CountPositions`, `ArchiveArea`,
`FindArea`, `CreatePosition`, `MovePosition`, `SetCapacity`, `CountSessions`,
`ArchivePosition`, `ReactivateArea`, `ReactivatePosition` for the office.
`Organization` has the logo routes (`FindByChecksum`, `CreateLogo`, `SelectLogo`,
`DeleteLogo`), `ReadName`, `Rename` and `RecordAudit`, the last statement of each. The
settings are those of a form: `OpenForm` reads them, `EditField` changes what is shown,
`SaveForm` sends every field the form shows and the route writes those the request defines,
`LeaveForm` forgets them.

### Catalogue, Commerce

`Catalogue.Script` is the seed's sequence of statements; `Upsert`, `UpsertGrant`,
`FindPrice`/`CreatePrice`, `FindRole`/`WriteRole` run the one that is next, `Die` stops a
seed anywhere. `FindDemo`, `CreateDemo` and `WriteDemo` are the demo organization, looked for
by its slug, created under it, and then written stage by stage (`Stages`). `Commerce`
EXTENDS `Catalogue`: `Call`, `ReadCountry`, `Look`, `Fetch`, `Store`, `Choose`, `Tax` are
a request to the shop; `OperatorReprices`, `Deactivate`, `MoveRecord`, `EndGrant` and the
clock go on meanwhile.

### Screens, AdminDesk

`Screens` composes the pages with the record they show. `Tap`, the awaits before the
request (`Prepares`: `LoadCode`, the browser's question answered in `AnswerPrompt`, the
position in `Locate`), `ServeCall`, `Succeed`,
`Refused`, `LoseCall`, `CsrfRefused`, `RefreshToken`, `Resend` are `run()` with its busy
flag; `Load`, `Poll`, `ServeRead`, `ReceiveRead`, `LoseRead` the state it shows;
`EndedElsewhere` and `SignedInAgain` change the record behind it.

`AdminDesk` is `useApi` under every page of `/admin`: `turn` is its effect's run, `Query`
reads the tables of an endpoint one by one, `Answered` shows the answer of the current
turn only. `Submit`, `Apply`, `SaveFails`, `Saved` (and the two forms that differ) are a
save; `Elsewhere` is anybody else's write.

### Definitions named Mut..., and others like them

Each is a plausible mistake in the definition after its prefix or beside it (a filter
dropped, a release forgotten, a failure taken for success). No action uses them; they
are there to show which property notices, and `PROJECT.json` pairs each with the run
and the property that does.

## 4. Runs

| Run | Instance | Shows |
| --- | --- | --- |
| `shift_serial` | one request at a time, one worker, two vehicles, 1 shift, 1 break, 3 sessions, clock 0..1, backlog 1 | from any sequence of commands dated in any order: status and break rows agree, a completed shift is settled and has no running trip, sessions are disjoint, a driven vehicle is held by its driver |
| `shift_race` | two requests, two drivers, one vehicle, 2 shifts, 2 sessions | no double booking and no trip beyond its session, whatever interleaves, portal included |
| `shift_supervised` | one worker request and one of the office, sweep and corrections on, 2 shifts, 2 sessions, 1 break, clock 0..1 | an ended session moves only by a correction |
| `ledger` | two requests, two keys, two bodies, 2 executions, crashes | nothing completed runs again, AnswerOnce is implemented, claims end unless a request crashed |
| `upload_retry` | one collector, two requests, two sessions, clock 0..2, one fault | a fix is stored once, near the time it claims and inside its session; totals count stored points; the first close stands |
| `upload_shared` | two collectors, two sessions, a queue of two points, batches of one, clock 0..1, one fix the server refuses, one fault | what leaves the queue; the queue drains unless nobody reports any more or the batch at its head is refused for good |
| `accounts` | one person, two administrators, two PINs, two addresses, two requests at a time, five in all, two sessions, clock 0..1, one crash | ended sessions stay ended; a change ends the sessions it must; driver and permissions of a session change together; the two rows of a person agree |
| `portal`, its portal part | two workers, one with the driver door, two vehicles, five requests, one fault | quiet workers' tracking matches their work; a vehicle on the road is held by its driver; ending a trip never ends the day; a clock-out closes the day's session; odometers go forward |
| `portal`, its desk part | one page at a time out of twelve groups of sections, two subjects, two writes, two saves, three turns, one lost call | no section shows an answer older than what it was told was saved, or about another subject |
| `tracklog` | five fixes of five instants, five kinds of reading, one fence, one trip, batches of up to two; or up to three breaks of a shift, or four events of a trip, over the instants 0..3 with two ticks a second | visits are those the stored points support; the log lacks no crossing or alert they show, and tells of nothing no fix showed, whatever the order; the route drawn is the distance counted; durations count each tick once, up to the rounding of the code |
| `office` | four parts one at a time: 3 workers, 2 positions, 2 requests, time 0..1; 2 changes, 2 files; 2 administrators with the form, 3 settings of which it shows 2, 2 saves; 2 seeds of 2 releases; 2 callers, 2 markets, lifetime 1 | bounded overbooking, entitlement at the start, an audit that invents nothing, saves that undo a colleague's at most; whole reference data, kept prices, one writer of the demo; answers no older than a copy, the record before the signals |
| `screens` | two pages, two taps, two sessions, one change elsewhere, one loss | busy ends unless the browser's question is left unanswered; recording stops |
| `shift_resurrected` | two requests of one worker, one shift, one break | the finding of section 7 |

The parts of `portal`, `tracklog` and `office` share no variable that both write, so the run
explores one part at a time and not their product: a variable `part`, chosen at the
start, says whose steps are taken.

**Why these bounds are enough to mean something.** Every hazard behind a run needs a
small number of actors: two requests that read the same row before either writes, one
worker with one shift and one session to lose, two keys so that one may be mistaken
for another, two collectors that fill a queue of two and flush it one point at a time. Three
sessions let a worker leave a vehicle and come back; two shifts let one follow another.
Between them the passing runs take every action. In `tracklog` one instant per fix
and a line with a fence at 0 already give a crossing, a band, a speeding stretch, a
silence and a vague fix, in each order and grouping. In `office` two requests are enough
for two decisions on one last place, and a lifetime of one instant for a copy that is
current, one that is just stale and one that is refetched. In `screens` two pages and one
loss give an answer that is overtaken, a tap nobody answered, and a second page that
still shows a shift the first has ended. `shift_serial` has a single request
because its properties are promises of the commands one at a time: with two, some of
them fail (section 7), and the runs that interleave check those that hold then. The
clock is 0..0 in `shift_race`: instants play no part in what it checks; the others have the
instants on both sides of an end. In `upload_shared` the fix of instant 0 is refused for
good and that of instant 1 is not, so that points queue behind one that never leaves. Two
ticks a second give a duration of half a second, which is where rounding shows.

**Deadlock.** All configurations switch the check off: rows, executions, requests, the
clock and faults are bounded, so a small instance comes to a legitimate stop. That
requests, queues and pages do not stop early is what `ClaimsEnd`, `Drains` and `BusyEnds`
say.

**Symmetry** is used for requests, workers, vehicles, PINs, addresses and seeds,
where the instance does not name them, and only where safety is checked.

**Fairness.** `ledger`: weak fairness of each request's next step, because a process
that has taken a request up executes it to its end unless it crashes; nothing is
assumed of devices, and crashes are never forced. `PointQueue`: weak fairness of the
server's steps, of the steps of a running `flush()`, and of `StartFlush` for an active
collector, because every accepted fix, regained connectivity and change of visibility
tries a flush; it is fairness about a device that stays in use. `Drains`
asks nothing once no session is open or no collector is active (`Reporting`), nor once a fix
the server refuses for good is in the batch at the head (`Blocked`): then the queue is
emptied by nothing but its cap (section 7). Failures are bounded
by `MaxFaults`, which is what "eventually a request gets through" means; fixes are
bounded by the clock, so the queue is not refilled for ever. `Screens`: weak fairness of
serving a call, of the page's reaction to its answer, of the CSRF refresh, of reads under
way, of the poll timer of a page that polls, of loading the code of the location bridge and
of the browser's search for a position, which has a timeout. Nothing is assumed of the
person: not that he taps, nor that he ever answers the browser's question, for whose time no
timeout runs. Losses are bounded, which is what a poll that some day gets through needs.

## 5. Abstractions

Each module's header names its own. The ones that run through the project:

- In `ShiftCommands` a worker is his own driver record, eligibility lets anyone take any
  position, and the trips are those of the handoff; `Workplace` and `Portal` have the rest.
- An idempotency key stands for (organization, actor type, actor, clientActionId);
  the hash of a body is the body.
- A queued point is named by its collector and its device time; queue order is by
  collector, then time, since a collector's seq starts at its creation time.
- A fix is decided on, queued and noted as the last one sent in one step: fixes come
  further apart than an insert into IndexedDB takes. Sampling is its minimum
  interval; distance and speed may only let fewer fixes through.
- Positions of a track lie on a line: what the analysis decides depends on distances,
  and the great-circle formula is floating point.
- In `Portal` a worker has one request at a time and one device, because the pages
  disable their buttons; in `Screens` he has several pages and each command is one step.
- In `AdminDesk` a table is the number of its last write, which is what tells a stale
  answer from a current one.
- What the demo organization's rows say is left out; which run writes them is not.
- In `Commerce` a validated customer is a business with a validated VAT number.

## 6. Proofs

All eight proof modules are checked by `tlapm` with no step left out. What they assume of
the constants are the named assumptions of the modules, which TLC evaluates in every run:

- the sentinels and the bounds are what they must be (`SentinelAssumption`,
  `BoundAssumption`, `PolicyAssumption`, `LedgerAssumption`, `TrackingAssumption`,
  `QueueAssumption`, `AccountsAssumption`, `NoneAssumption`, `PortalAssumption`,
  `PageAssumption`, `DeskAssumption`, `EligibilityAssumption`, `WorkplaceAssumption`,
  `OrganizationAssumption`, `CatalogueAssumption`, `TrackLogAssumption`,
  `HorizonAssumption`, `TimesheetAssumption`);
- a cached copy lives for some time (`CommerceAssumption`);
- a crossing has to last for some time, and what counts as jitter is less than a vehicle
  may cover between two instants (`RouteAssumption`; the defaults are 90 s, 10 m and
  60 m/s, `packages/tracking/src/geofence.ts` and `geo.ts`).

Nothing is assumed of how many requests, workers, vehicles, keys, collectors, people,
callers, seeds, fences, points, breaks or pauses there are.

| Theorem | Statement | Argument |
| --- | --- | --- |
| `TypeCorrect` (ShiftCommands) | `Spec => []TypeOK` | inductive by itself |
| `NeverDoubleBooked` | `Spec => []NoDoubleBooking` | `IInv` |
| `EndedSessionsFrozen` | `Spec => EndedSessionFrozen` | `IInv`: a session is written by `CloseSession` after the compare and set, inserted under a new id, or corrected |
| `TripsFollowSessions` | no sweep, no corrections: `Spec => []TripRunsWithItsSession` | `TInv` |
| `TripsEndOnce` | nor the portal: `Spec => EndedTripFrozen` | `TInv` |
| `StatusTellsTheBreak`, `CompletedShiftsSettled`, `SessionsNeverOverlap` | no corrections, one request per worker at a time: `OnBreakIffOpenBreak`, `CompletedIsSettled`, `SessionsDisjoint` | `SettledInv` |
| `NoTripOutlivesTheShift` | the same and no sweep: `NoTripAfterShift` | `SettledInv`, `TInv` |
| `DriversHoldTheirVehicle` | one request per worker at a time: `DrivenVehicleHeld` | `DriveInv` |
| `LedgerTyped`, `ClaimIsExclusive`, `CompletionIsFinal` | `TypeOK`, `OneOwner`, `CompletedNeverRunsAgain` | `LedgerInv` |
| `LedgerAnswersOnce` | `Spec => AnswersOnce`, the refinement of AnswerOnce | `LedgerInv`: `Complete` settles an unsettled key, `Replay` repeats it, all else stutters |
| `ServerTyped`, `NothingFabricated`, `TotalsAreStored`, `SessionsCloseOnce` | `ServerTypeOK`, `NeverFabricated`, `MeasuredIsStored`, `ClosedOnce` | `ServerInv` |
| `FixesStoredOnce` | `Skew = 0`: `ServerSpec => []StoredOnce` | `ServerInv`, `DatedInv` |
| `SamplingFloor` | of any batch and any last point: what `AboveFloor` keeps is an interval apart, and what it drops is within an interval after something kept | `KeptInTurn`, an invariant over the instants |
| `QueueTyped`, `NothingLostSilently` | `TypeOK`, `AcknowledgedOnly` | `QueueInv` |
| `ServerImplemented` | `Spec => ServerSpec` of the composition | `QueueInv`: every step of a device or a fault is a step of the server or leaves it alone |
| `UploadsAreGenuine`, `UploadsStoredOnce` | the server's guarantees for the composition | `ServerImplemented` with the server's theorems |
| `TypeCorrect` (Portal) | `Spec => []TypeOK` | inductive by itself |
| `OdometerNeverBack` | `Spec => OdometerForward` | a step: each write of a reading compares it first |
| `OnlyClockOutEnds`, `ClockOutStops` | `Spec => OnlyClockOutEndsTheDay`, `Spec => ClockOutStopsTracking` | `SessionsInv` |
| `HeldOnlyWhileOut` | `Spec => []HeldWhileOut` | `HeldInv` |
| `TrackingIsWork` | `Spec => []TrackingMatchesWork` | `TrackedInv` |
| `NoSlowAnswerWins` | `DeskSpec => []ShownIsCurrent` | `DeskInv` |
| `EndedStaysEnded` | `Spec => EndedSessionsFinal` | `AccountsInv` |
| `ContextsAreWhole`, `ChangesEndSessions`, `OneCredential` | `ContextIsWhole`, `ChangeEndsSessions`, `DoorsAgree` | `AccountsInv` |
| `WorkplaceTypeCorrect`, `StandingIsEntitled` | `WorkplaceTypeOK`, `EntitledAtStart` | `EntitledInv` |
| `OverbookingIsBounded` | `WorkplaceSpec => []OverbookingBounded` | `CrowdInv`, counting finite sets |
| `AuditIsTrue` | `AuditNeverInvents` | `OrganizationInv` |
| `SavesUndoAtMost` | `OrganizationSpec => SavesOnlyUndo` | `SettingsInv`: what a form shows untouched is what it was opened with |
| `CopiesAreRecent`, `RecordsDecide` | `AnswersAreRecent`, `RecordDecides` | `SellingInv` |
| `ScriptIsInOrder` | every statement of the seed comes after those it refers to | induction over the lists of the catalogue |
| `SeedsWhole`, `PricesAreFinal` | `ReferenceWhole`, `SoldPriceKept` | `SeedingInv`, `ScriptIsInOrder` |
| `OfficeReadsThePoints` | `Spec => []LogHonest` of TrackLog | `LogInv`; sweeps over the instants; a later point takes back no fix (`ShownStays`) |
| `LineAndDistanceAgree` | `Spec => []RouteHonest` | `LogInv` for the type of a track; then it holds of every track |
| `HoursArePartition` | `SheetSpec => []SecondsCountOnce` | `SheetInv` for the type of the rows; then of all rows, over the folds |
| `DemoWrittenAlone` | `CatalogueSpec => []DemoHasOneWriter` | `DemoInv`, the property with the phases of the runs: only the run that created the organization is past its creation |

The inductive invariants, and why each part is needed:

- `IInv == TypeOK /\ RowsRefer /\ RequestsRefer /\ NoDoubleBooking`. The indexes speak
  of a session's worker through its shift; that an open session has a shift, and that a
  request's ids are of rows that exist and belong to its worker, is what lets an
  index at the time of the write say something about the worker who wrote.
- `TInv == IInv /\ TripsMatch /\ PlansCurrent`. That no trip outlives its session is not
  inductive: `endShift` closes the session it read and the trip it read, and the two
  reads must still be right when it writes. `PlansCurrent` says they are as long as the
  session is open, because a trip begins on a session only in the transaction that
  inserts it; the compare and set does the rest. The sweep breaks it (it ends no
  trip), and so may a correction, which gives a session an end and looks at no trip;
  hence the hypotheses.
- `LedgerInv == TypeOK /\ RequestsSound /\ OneOwner`: a request past its claim owns a
  PENDING row with its own body, and a committed one has a response.
- `ServerInv == ServerTypeOK /\ SessionSound /\ RequestSound /\ InsertsApart`: what a
  request is about to insert is inside its session and apart from what is stored
  and from what other open transactions insert, which is the unique index seen
  before the commit; what it listed is stored or its own.
- `DatedInv`: a stored instant is determined by the fix and the session, so that the
  index on instants recognises a fix that comes again. It needs `Skew = 0`.
- `QueueInv == ServerInv /\ DeviceTyped /\ FlushSound /\ OwnRequests`: a flush that
  waits has a request of its own that carries its batch, and one that was answered
  has a batch the server has accepted. `EnqueueDropsOldest` is the lemma about the cap,
  by counting finite sets.

- `SettledInv == (every shift is settled) /\ (what each request has read is current)`, on top
  of `IInv`. With two requests of one worker in flight the properties it carries are
  false (section 7), because a request writes what it decided about rows the other has
  changed. With one, whatever all other workers' requests do, every row a request has read
  is its own worker's, and nobody else writes those; so what it read is still true when it
  writes. `[]OneAtATime` is a hypothesis about the behaviour: a page disables its buttons
  until the answer is there (`apps/web/src/app/worker/page.tsx:136`), but a second device, or a
  tap after an answer was lost while the server is still at work, breaks it. The sweep,
  when it closes a shift of his, counts as a request of his; corrections are excluded,
  because they give a session any instants.
- `DriveInv` says what a request knows of its worker's vehicle and trip; that a driven
  vehicle is held by its driver is not inductive without it, since a request that ends
  a trip releases the vehicle in a later step.
- `FleetInv`, `SessionsInv`, `HeldInv`, `TrackedInv` of `Portal` share the shape of a request
  (`Shapes`: at which step which of its fields is set). `HeldInv` gives
  each vehicle the application holds for a worker, as long as nothing failed, one of two
  reasons: a trip of his that runs in it, or a request of his that has claimed it and not
  yet made the trip, or has ended the trip and not yet released it.
  `TrackedInv` says which session a worker has open at each step of each command, which is
  the exact content of "a quiet worker's tracking matches his work".
- `DeskInv`: a load carries the turn of its section, what a section was told is a write
  that was made, and a load of the current turn has read no earlier than that.
- `AccountsInv`: sessions are whole rows, a person's two rows agree, and each request that
  is about to issue or to end something knows which of the person's sessions may be open.
- `EntitledInv`: a request that has decided to take a position was entitled to it, through
  every order of the rules. `CrowdInv`: those who stand on a position and those who have
  decided to are together at most its peak capacity plus the deciders but one, and the
  row a request read had no more room than the peak; the decision adds a decider exactly
  when occupancy was below the capacity read.
- `OrganizationInv`: an audit row, and a request about to write one, has its effect in
  the history.
- `SellingInv` gives every copy and every answer under way an instant from which what it
  tells has been so: never earlier than the request began minus the lifetime. `ByRecord`
  says what a request has taken from the record so far: one of the states it held while the
  request ran, at each step perhaps another.
- `SeedingInv`: a run has left behind everything of the script before its place, whatever
  other runs do, because no statement removes a row. That a statement finds what it
  refers to needs the order of the script, which is a recursive function of the lists.
- `LogInv`: the visits on record are those of all points received (a batch recomputes
  them), the log covers them, and each event is dated at a stored fix that shows it. That `DetectVisits` itself is right is a sweep over
  the instants: `Believed` says what the belief after instant t tells of the points up to
  t, for each fence, and survives each instant; `Watched` does the same for speeding.

- `SheetInv` is the type of the rows and that the log is in order of time; the work is in
  what the loops compute. *Breaks.* `Merging` says, of the merge after the first n
  intervals in order of start, that the stretch being measured is covered throughout and
  reaches as far as any of them, that what it counts is the number of instants they cover,
  and that no later interval begins before it; one more interval extends the one or closes it and
  begins another, and the two are disjoint. Clamping into the shift changes no instant inside
  it, and an open break counts to the end. *Pauses.* `Listening` says, of the log heard so
  far, that the pauses listed are apart from each other and over by the next event, that an
  instant is in one of them exactly when `PausedAt` says so, and whether a pause is
  open. Pauses that are apart may be summed. *Rounding.* Rounding keeps the order of lengths
  (`RoundingOrdered`), so that the parts of a shift stay within the whole; each rounding is off by half a
  second at most, and the errors of several add up (`RoundingsAdd`).
- `KeptBy` of `SamplingFloor`: the last instant kept up to t is no earlier than where the
  floor began, nor than any instant kept so far, and is one of these. Without the last part
  what is dropped could be dropped for nothing.

*Recursion.* The induction theorems of the library take an operator as a parameter, which
the provers cannot instantiate. `Recursion_proofs` derives induction over a *set* of
numbers from `NatLessThanWellFounded` and `WFMin` (`Least`, `Induction`), the existence of
a function defined step by step (`Recursion`, `Swept`), and so that the CHOOSE behind a
recursive function of `Catalogue` or `RouteAnalysis` meets its equation. The folds of the
community modules are recursive functions on sets, chosen element by element: `FoldExists`
does the same for them, `SumExists` for `MapThenSumSet`, and a fold over the positions
of a sequence (`FoldLeft`) is taken in their order. `SortedExists` gives an enumeration in
order of start. `TrackingSessions_proofs` has the few of these lemmas it needs for the
recursive function of `Thin` (`InstantByInstant`, `KeptExists`).

Only model-checked, and why:

- `ClaimsEnd`, `Drains`, `BusyEnds`, `RecordingStops`: liveness under fairness, and ENABLED,
  are out of the prover's reach.

## 7. Findings

`shift_resurrected` is the violation run: `updateStatus` writes by id. A break that starts
or ends while the shift is being ended puts a COMPLETED shift back to ON_BREAK or ACTIVE,
against "Anything not listed is rejected" with `COMPLETED: []`
(`modules/shifts/src/domain/shift.ts:32-37`).

Seen while modelling. The names in italics are definitions of the modules that TLC
refutes when they are added to the run of their module; their comments say "Not so" or
under which hypothesis they hold.

*Commands, ledger, tracking.*

- Trips are closed by id: the portal and the handoff may both end one trip, and the later
  overwrites its end and totals (*`EndedTripFrozen`* with `PortalTrips`;
  `modules/drivers/src/domain/trip.ts:28`).
- With two devices a position change that read the shift before it ended opens a session
  on the completed shift. The sweep leaves the trip of a driving worker running.
- The claim of a key is released also when the command had committed, so a retry is
  refused because of its first attempt (*`NeverToldAlreadyDone`*), where
  `apps/web/src/lib/worker.ts:13-15` promises the same answer twice; and every tap draws a
  new action id (*`SameAnswerTwice`*). `expiresAt` is never read, so a crash leaves a key in
  progress (*`KeysExpire`*; `docs/offline-sync.md:57`).
- A batch admitted before the close is stored after it (*`NoPointAfterClose`*;
  `modules/tracking/src/domain/admission.ts:13`). A batch is refused as a whole for one fix
  outside the schema's range (`packages/validation/src/drivers.ts:67-76`), stays queued, and the
  same oldest points are sent at every flush: everything behind them waits until the cap
  pushes the fix out (*`EmptiedAnyway`*; `packages/tracking-client/src/web-collector.ts:104-121`). With `Skew = 1` a fix from a fast clock, sent twice, is stored
  twice. A stopping hook's last flush is refused, and `stop()` clears what it could not send.
- Points an ended session left in the queue go into the next session, although
  `packages/tracking-client/src/types.ts:38` calls the session the partition key.
- A batch that comes after its trip has ended is not tagged with it (*`BatchSplits`*). A stretch of speeding is
  logged twice when late points move its start (*`OneEventPerStretch`*), against "One event
  per stretch" (`modules/tracking/src/application/tracking-commands.ts:595`, and
  `packages/tracking/src/tracking-state.ts:40`); the events of a visit that late points took back stay; and a silence
  between the drawing threshold and the reported one is drawn (*`GapsNeverDrawn`*).
- A trip begun after a lost step has no tracking (*`TripIsRecorded`*;
  `apps/api/src/routes/worker.ts:457`), and permissions may outlive the trip until the next
  command (*`ElevatedWhileDriving`*; `:559`). `detectInterruptions` is not scheduled.

*The office.*

- A PATCH to ACTIVE of a position in an archived area hides it
  (*`NoActivePositionHidden`*); people may stand on an archived position
  (*`NobodyOnArchived`*); a capacity may be set below the occupancy; moving a position keeps
  its siteId; `requireQualificationByDefault` changes no decision.
- The settings form sends every field it shows, so that a save takes back what a colleague
  saved since the form was opened (*`OnlyWhatChanged`*;
  `apps/web/src/app/admin/settings/page.tsx:738-753`), where `packages/validation/src/platform.ts:64` says
  "a patch carries only what changed".
- Every pause is rounded by itself, so that running and paused seconds need not add up to
  the elapsed ones (*`PausesPartition`*; `modules/drivers/src/domain/trip.ts:84-91`).
- Two renames at once may audit the wrong "before"; a crash loses an audit row, which the
  code documents as its trade.

*The pages.*

- A tap waits for the browser's question about the location, whose timeout does not run
  meanwhile: left unanswered it keeps the page busy (*`NeverBlocks`*; "Never blocks the
  action", `apps/web/src/app/worker/page.tsx:1027`).
- A command that fails, or whose reload fails, leaves a page stale until the next poll; an
  older poll may overwrite a newer state; a driver's page without a trip does not poll.
- `staff/page.tsx:74-76` says "Bumped after every write", but a worker who was added is not
  listed when the form is closed by the header's button (*`NewWorkerListed`*).
- The live map's track of a day has no guard against late answers
  (*`DayTrackIsOfThePicked`*; `live/page.tsx:291-305`), and its poll shows "loading" every time.

*Seeding and selling.*

- Not every price the seed prints is on sale (*`PrintedMeansPresent`*; `seed.ts:365-368`).
  The seed's header promises natural keys, which prices and system roles lack: two seeds at
  once double the roles, and a re-seed brings a withdrawn price back. A plan's removed
  features stay granted.
- Nothing calls `invalidate()`, so copies live out their lifetime; the organization's
  country and the billing customer's may differ (*`OneRecord`*). A deactivated market falls
  back to GLOBAL, whose tax scheme charges nothing. A sale inside the EU may therefore go out
  untaxed after a record moved during the request or a market was withdrawn; `RecordDecides`
  allows exactly these two and the two the law knows, and nothing else.

## 8. Not modelled

- Fleet documents, production, reporting, recommendations, usage limits and fuel:
  calculations over stored rows, local to a request; the pages that read them are
  in `AdminDesk` as reads of tables.
- Row-level security, which filters every statement by the organization; one organization
  is modelled. Money, quantities and currency conversion (decimal arithmetic).
- The event bus (its handlers swallow their errors and change no modelled state), the
  sweep's scheduler (there is none yet), device telemetry, retention.
- The figures in the rows of the demo organization; what `AdminDesk`'s endpoints compute from
  the tables they read.
- Layout, texts, maps, themes, the design system, the public pages, hashing, tokens, cookies,
  image sniffing, geodesy.

`PROJECT.json` gives the status of each component.
