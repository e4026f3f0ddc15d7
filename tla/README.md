# Sugarloop backend: a TLA+ model

The repository is the API of a donut shop with several branches: customers verify an address and
order on the web (cash on delivery), staff edit what is sold and move the orders across a board, and
timers make sure that no order is forgotten. This directory holds TLA+ modules of the parts whose
correctness rests on interleavings, failures and time, the TLC runs that check them, and TLAPS
proofs of what matters most. Paths below are relative to `src/src/`.

## 1. Inventory

| component | state | operations | what is hard about it |
| --- | --- | --- | --- |
| **order status machine** `services/orderStatus.js`, `config/constants.js` | none, tables | `allowedTransitions`, `assertTransition` | the tables and the diagram must say the same |
| **order placement** `services/order.service.js`, `Counter` | order document, day counter | `create` | stock, price and switches may change between quote and insert; numbers burn when the insert or the counter's reply fails |
| **staff order board** `services/staffOrder.service.js` | order document, audit rows | `changeStatus` | read, check, conditional write, four awaits after it; two staff at once |
| **expiry sweep** `services/orderExpiry.service.js`, `queues/orderExpiry.js` | `running` flag per process | `tick`, `expireStaleOrders`, `expireOrder` | races the board and the sweep of another process; dies between write and mail |
| **escalation ladder** `queues/orderEscalation.js` | delayed jobs in Redis | schedule, cancel, `processEscalation` | cancel overtakes schedule, jobs stall and retry, late workers |
| **server lifecycle** `server.js` | processes | `start`, `shutdown` | what a deploy waits for, and what not |
| **notifications, audit trail** `services/notification.service.js`, `services/audit.service.js` | rows, messages | `notify*`, `record` | never throw, may be lost |
| **checkout, pricing** `services/checkout.service.js`, `services/pricing.engine.js` | none | `quote`, `resolveBranch`, `priceCart` | branch choice, order of the gates, several reads that edits run between |
| **opening hours** `utils/time.js`, `models/Branch.js` | none | `isOpenAt`, `closingAt`, `nextOpeningAt` | windows across midnight, last orders, a clock that is put forward or back |
| **customer OTP** `services/customerAuth.service.js` | challenge documents | `requestOtp`, `verifyOtp` | lost updates of `attempts`, double consumption |
| **staff sessions** `services/staffAuth.service.js` | session documents, lockout counters | `login`, `refresh`, `logout`, `changePassword` | rotation racing revocation |
| **staff accounts** `services/staffUser.service.js` | user documents | `create`, `update`, `deactivate`, `resetPassword` | check-then-save of "the last admin" |
| **stock, branch switches** `services/stock.service.js`, `services/staffBranch.service.js` | flags | `setStock`, `update` | stale "before" in audit rows |
| **product images** `services/staffProduct.service.js`, `services/imageStorage.service.js` | bucket and list | `attachImage`, `removeImage` | two stores, changed one after the other |
| **enquiries** `services/enquiry.service.js`, `services/staffEnquiry.service.js` | documents | `create`, `update` | unconditional save |
| **geocoding, routing** `services/geocoding.service.js`, `services/routing.service.js` | two caches the database empties | `geocodeAddress`, `routeToBranches` | rows outlive rules and roads, answers of three sources in one decision |
| **reports** `services/report.service.js` | none | `daily`, `summary` | day boundaries |
| catalogue, invoices, ad conversions, HTTP layer, scripts | none of their own | reads, rendering | pure I/O |

How the parts meet: `order.create` stores the order, notifies, and puts two jobs into Redis.
From then on the order document is shared by staff requests, the sweep of **every** process
and the workers of the ladder; they never talk to each other, only through conditional writes
to that document. Before that, a checkout meets staff edits only through what it reads, one query
after the other. Sessions, codes, photos and enquiries each live in a document (or two stores) that
concurrent requests read, work on in memory and write back. `PROJECT.json` lists every hazard at its
line with the property that would catch it, or the reason why none does.

## 2. Modules

| module | models |
| --- | --- |
| `OrderStatus` | the status machine: tables and pure functions, as constant operators |
| `OrderBook` | the abstract specification: one document per order, every move one indivisible step along the diagram drawn at the head of `orderStatus.js`, with who, why, and the money |
| `OrderLifecycle` | the detailed specification: placement from `Order.create` on, `changeStatus`, the sweeps, the ladder and its workers, time, faults, deaths and redeploys |
| `MCOrderLifecycle` | constant definitions for TLC |
| `OrderBookProofs` | the book keeps its promises |
| `OrderLifecycleProofs` | `OrderLifecycle` is type correct and implements the book; its audit rows and messages are true |
| `StaffAccounts` | admins who create, update, reset and deactivate accounts at the same time |
| `MCStaffAccounts` | constant definitions for TLC |
| `StaffAccountsProofs` | the invariants of `StaffAccounts` and its action property |
| `Sums` | `sum` of `utils/money.js`, as a recursive function |
| `SumsProofs` | induction along a range, and what sums come to |
| `Pricing` | the pricing engine, as constant operators |
| `Catalogue` | stock toggles, branch switches and product edits, with their audit rows |
| `Checkout` | quote and order placement up to the insert; extends `Catalogue` and `Pricing`, so that edits run between any two reads |
| `MCCheckout` | constant definitions for TLC |
| `CheckoutProofs` | the invariants of `Catalogue` and `Checkout`, and what `PriceCart` adds up to |
| `StaffSessions` | one account's logins, refreshes, lockout and revocations |
| `StaffSessionsProofs` | its invariants |
| `OtpVerification` | the one-time codes of one address |
| `ProductImages` | the photos of one product: document and bucket |
| `EnquiryInbox` | one enquiry, its notices and the work of staff on it |
| `BackOfficeProofs` | the invariants of the last three modules, and the action property of the photos |
| `MCBackOffice` | `MCStaffAccounts`, `StaffSessions`, `ProductImages` and `EnquiryInbox` side by side for TLC |
| `BusinessHours` | `utils/time.js`, the hours methods of `Branch` and `assertBranchCanAccept`, over a clock |
| `DailyReport` | orders placed while `BusinessHours` takes them, and the takings report over them |
| `Wayfinding` | from an address to a branch: geocoder, router, their caches, the ranking |
| `ClockworkProofs` | what the hours tell, what the report adds up to, and the invariants of `Wayfinding` |
| `MCClockwork` | `DailyReport` (which extends `BusinessHours`), `Wayfinding` and `OtpVerification` side by side for TLC |

### OrderLifecycle and the code

* **The orders collection** is `status`, `history`, `payment`, `failureReason`, `placedAt`;
  `audit[o]` are the AuditLog rows of an order; `job[o][l]` is BullMQ's job of rung `l`, whose
  id is the order and the rung; `told[o][n]` counts delivered messages and exists only to
  state properties.
* **Handlers** are records with a program counter: `checkout[o]` the request that placed `o`,
  `desk[d]` a staff request, `sweep[i]` the pass of process `i` (`pc # "idle"` is the `running`
  flag). Every `await` of the source is a boundary between two actions; what a handler read
  before it is in its record and may be stale. `changeStatus` is `ReadOrder`, then
  `WriteStatus` or `LoseRace` or `WriteFails`, `AuditMove`, `NotifyMove` and one `CancelAfterMove`
  per rung, since the cancellations run concurrently. `expireOrder` is `ExpireOrder` or
  `SkipOrder`, `AuditExpiry`, `CancelAfterExpiry`, `MailApology`, `NotifyExpired`.
* **Ordering and limits of the sweep's query** are in `Batches`: any choice consistent with
  "oldest first, at most `MaxPerSweep`", then the filter by deadline.
* **BullMQ** is modelled as the code relies on it: an id already held is ignored by `add`,
  `remove` refuses an active job, a job that throws is retried up to `attempts`, a job of a
  dead worker is handed out again once and failed the second time. The same happens when nobody died but
  Redis never learns that the job is done (`FinishFails`): its lock lapses with the chase out.
* **Failure.** `Breaks` spends one of `MaxFaults`: a send that fails, a lost audit row, a
  failed queue call, a failed write, or a write whose reply (or the `populate` after it) is
  lost, in which case the order has moved and nothing follows. `Crash(i)` loses everything
  process `i` holds. `Redeploy(i)` is `shutdown`: it waits for requests and jobs, not for the sweep.
* **Left out**: message texts, amounts, addresses and phone formats; the branch is the scope of
  a staff request; the closing time of a branch is the constant `ClosesAt[o]`; reads that
  change nothing (`list`, `transitionsFor`, a sweep that finds nothing due, a refused request).

### StaffAccounts and the code

* `staff[u]` is the document of address `u`, reduced to what authorisation reads: role, branch
  and activity. `req[r]` is a request: the document it loaded (`copy`), the document in its memory
  (`after`), what its audit row will list (`listed`), and whether it ends sessions (`revokes`).
* `update` is `ReadToUpdate` (up to its first await after the read), `CountAdmins` when
  `assertNotLastAdmin` asks the database, `Save` or `SaveInvalid`, `Revoke`, `Audit`; `deactivate` and
  `resetPassword` share the tail; `create` is `PrepareCreate`, `Insert`, `Audit`.
* `Save` is Mongoose's: it validates the document in memory (`SaveInvalid`) and sets the modified
  paths, by `_id` alone. Two saves of one account therefore mix (`Saved`).
* `Break` is a call that throws or a process that dies, `Refuse` a request a check turns away.
* `standing[u]` (sessions older than the last change of rights), `interleaved`, `strayed` and `broken` are
  history variables; no action reads them.
* **Left out**: names, passwords and e-mail changes; the `from` side of a row; sessions opened after
  the change, and the lockout counters a reset clears (these are in `StaffSessions`).

### Pricing, Catalogue, Checkout and the code

* `PriceCart` is `priceCart`, its refusals in the order of the code; a menu is a function whose domain
  is what `Product.find` returned. Amounts are whole stored units. `TaxBreakdown` takes the tax as the
  difference of the other two, as the code does. `TaxRate` and `TaxIncluded` are the two fields of a
  product that no route edits. Tax that is not included is not added to `grandTotal`; the code does
  the same, against what its comment says (`TaxOnTop`). Rates are whole percents, and the code's floating-point quotient is taken to round as the
  exact one does.
* `value[d]` is a stored document, cut to what edits and checkout read. An edit is `BeginSetStock`,
  `ReadStockRow`, `Write`, `Record` (`setStock`), or `BeginUpdate`, `Write`, `Record` (`update` of a branch,
  `update` and `remove` of a product). `Written` is the difference between an upsert and a Mongoose
  `save`. `RecordFails` is a row that is lost, also by a death. `overlapped` and `lost` are history.
* `checkout[r]` is a request with its program counter. `Quote`, then `ReadBranch`, `ReadProducts`,
  `ReadStock` (the last read and, in the same turn, `priceCart`); `PlaceOrder` checks the verified address
  and goes through the same three reads again, and `ReadStock` then compares the totals. `NextOrderNumber`
  is the atomic increment of `Counter`, `CounterFails` one that throws, before or after the counter went up;
  `StoreOrder` and `StoreFails` are the insert. `OrderLifecycle` takes
  over from there. `heldSince` is history: every value a document held since the order was pressed.
* **Held constant**: where a delivery may go (`Reach`, what `Wayfinding` computes), the hours (what
  `BusinessHours` computes), box eligibility. Each query is atomic.

### StaffSessions, OtpVerification and the code

* `request[q]` (`otpRequest[q]`, `photoRequest[q]` in other modules) is what a request read and where it stands. A failed login is `LoginReads`,
  `RegisterFailedLogin`: bcrypt and the save lie between them. A refresh is `RefreshReads`,
  `RefreshChecksAccount`, `RefreshIssues`, `RefreshRetires`, or `RefreshRevokesAll` when the token was
  spent before. `CutReads`, `CutSaves`, `CutRevokes` are `changePassword`, `resetPassword` and `deactivate`;
  the first goes on to issue a session. `Die` is a query that throws or a process that ends.
  `stale`, `escaped`, `misses`, `crossed` and `excused` are history.
* A code is `RequestReads`, `CreateChallenge`, `Deliver` or `DeliverFails` and `DeleteChallenge`; a
  verification `VerifyReads`, then `CodeIsWrong` or `CodeIsRight`. A send that throws may have left all the
  same (`unsaid`): the request then deletes a challenge whose code arrived. `PurgeChallenge` is the TTL index of
  `OtpChallenge`. A document that is gone keeps only its history (`Gone`). `CodeIsRight` needs a code that
  arrived (`WasReceived`): nobody types one they were not sent.
* A lock that has lapsed is gone in `StaffSessions`; the document keeps the past date until its next save,
  and every reader compares it with the clock.
* **Left out**: the tokens themselves, expiry of sessions by date, the hashes, the rate limits of the
  routes; in `OtpVerification` other addresses, which share nothing.

### ProductImages, EnquiryInbox and the code

* `images` is the array of the product, `bucket[k]` the object at a key. `AttachReads`, `StatObject`,
  `AttachPushes` are `attachImage`: `$push` asks nothing of the version and raises it. `RemoveReads`,
  `RemoveSaves`, `DeleteObject` are `removeImage`: the whole array is written back on condition of the
  version (`fresh`). `Put` is the browser, which may upload something else than it declared, and do so again
  while its URL is good; a key is attached if it has the product's prefix, whether or not it was issued.
* `CreateEnquiry`, `SendEmail`, `StampEmailed`, `Notify` are `enquiry.create`, and an email whose send throws may
  have left; `UpdateReads`, `UpdateSaves`,
  `UpdateRecords` are the staff's `update`. A save writes the paths it changed, so the stamp and the
  staff's work never undo each other.
* **Left out**: the audit rows of photos; a product discontinued under its photos.

### BusinessHours, DailyReport, Wayfinding and the code

* An instant is an integer, a zone an offset that may change once, and `InstantOf` the two guesses of
  `instantFromZonedWallClock`. Every function of `time.js` that decides something has an operator with its
  name. `Tick` moves the clock minute by minute and `Pause` is the manager's switch, so that every
  reachable state is one minute of one branch's week.
* `Sessions` is the reference: the stretches of time in which the branch trades, built from dates and
  not from the wall clock's arithmetic. `HoursAgree` compares them at every minute.
* `DailyReport` places orders only while `AssertBranchCanAccept` says so, and settles them; `book` is the
  sequence of the stored orders. `Compute`, `Daily`, `Summary` and `ScopeBranch` are the service's
  functions; `Total` is `$sum` over the orders of a group, each counting as an entry of `Amount`.
  Takings are grouped by fulfilment and the groups added, as the code does.
* `Wayfinding`: `point` is the `GeocodeCache` row, `leg[b]` the `RouteCache` rows of one place,
  `world[d]` what maps and roads are on day `d`. `ReadPoint`, `Geocode`, `RememberPoint` are
  `geocodeAddress`, `ReadLegs`, `Route`, `RememberLegs` are `routeToBranches`, `Choose` is
  `resolveDeliveryBranch`: of the candidates in range any that none in range ranks before, which is the
  head of the code's sorted list. `CandidateSets` is the query: within `SearchRadius` in a straight line, the
  nearest `MaxCandidates`; what it leaves out is `Overlooked`, and a branch may set its caps beyond both. Either
  query may throw, and the rows are written in order up to the first that cannot be. An expired row stays until `Purge`. The first row may have been written by an
  older release (`revision`).

## 3. Properties and runs

| run | instance | checks |
| --- | --- | --- |
| `OrderRaces` | 1 order, 2 staff requests, 2 processes, no Redis, 1 crash | `HistoryIsPath`, `NoAcceptedOrderExpires`, `AuditTellsTheTruth`, `NoticesAreDeserved`, refinement `ImplementsBook` |
| `OrderLadder` | 1 order, 1 request, 1 process, 1 rung, 2 faults, 1 crash, 2 attempts | `TypeOK`, `AuditTellsTheTruth`, `NoticesAreDeserved`, `QuietOnceSettled`, and the liveness of `NoOrderWaitsForever`, `JobsDrain`, `MovesAreAudited` |
| `OrderQueue` | 2 orders closing at different times, 2 processes, a limit of one order a pass, 1 fault, 1 crash | `NoAcceptedOrderExpires`, `NoOrderWaitsForever` |
| `OrderApology` | 1 order, 1 process, 1 crash or redeploy | finds `ExpiredCustomerIsTold` violated |
| `OrderChases` | 1 collection placed just before closing, both rungs | finds `ExpiresOnlyAfterTwoChases` violated |
| `StaffLastAdmin` | 1 admin, 1 manager, 1 free address, 2 branches, 2 requests at a time, 3 in all | finds `SomeAdminRemains` violated |
| `StaffAdminBranch` | the same | finds `AdminsHaveNoBranch` violated |
| `CheckoutRaces` | 2 branches in reach of one address, 2 products, one taxed within its price and one on top of it, 2 staff edits out of 7, 2 customers with 3 carts, 2 days | `OrderFactsHeld`, `NoSilentHandOff`, `AgreedTotal`, `NumbersAccountedFor`, `TrailTellsState` |
| `TaxOnTop` | the same | finds `ExclusiveTaxIsCharged` violated |
| `BackOffice` | 2 requests at a time; the accounts of `StaffLastAdmin`; lockout at 2, 3 sessions; 2 photos, a limit of 2; 1 enquiry with 2 statuses | `AccountsTypeOK`, `ManagersHaveBranches`, `OrderlyChangesAreSafe`, `TrailKnowsEveryChange`, `OldSessionsAreEnding`, `NobodyRemovesThemselves`, `OneSuccessor`, `OnlyEscapedSurvive`, `LockCountsMisses`, `PicturesExist`, `TilesInOrder`, `NoPictureIsLost`, `FlagTellsWhoWasTold`, `WorkIsRemembered` |
| `OtpHourlyCap` | 2 requests at a time, 3 codes, a cap of 2 | finds `HourlyCapHolds` violated |
| `Clockwork` | days of 8 minutes, weeks of 3 days: 6 branch settings in 4 zones over 5 days; a seventh setting in 2 zones, with 2 orders at 2 branches over nearly two days; 2 customers, 4 shops of which 2 are looked at, 3 worlds, 3 days; the codes of `OtpHourlyCap` | `HoursAgree`, `DaysAddUp`, `DoorstepsOnly`, `QuickestInReach`, `InboxIsSpared`, `UndeliveredCostsNothing`, `OneTokenPerCode` |

**Why the bounds are enough.** The races are between a reader and a writer of one document:
two requests and two sweeps give every pair of kinds, and a third contender would only lose
as the second does. Two orders with a limit of one is the smallest queue in which an order can
stand behind another. One rung is enough for the ladder, as no action reads two rungs. Two
faults with two attempts exhaust a job, or spoil two different calls; one crash meets every
program counter. `MaxClock` bounds only when orders are placed: while a deadline or a job is
still to come due, `TimerRuns` lets time pass, so the bound never cuts a timer off.
`MaxFaults`, `MaxCrashes` and `MaxAttempts` (2 for the code's 3) are the other bounds, and
`Fuse`, `RungAt` and `ClosesAt` are the minutes scaled to the smallest numbers that keep the
order of the deadlines. `OrderRaces` uses symmetry of requests and processes: it checks no
liveness. Deadlock checking is off throughout: a shop whose orders are all finished, and whose
customers order nothing more, does stop.
For the accounts, `MaxRequests` bounds the requests ever made: two cross, and a third, before or
after them, sets the scene or meets what they left. Some consequences of an admin with a branch
take four requests (a manager demoted while a stray branch is cleared ends with no branch, and the
clearing ends no session); the properties exclude them by `strayed`, and the proofs know no bound.

In `CheckoutRaces` the edits of `MCEditRequests` make every pair on one document and a pair on two, and
the carts have a box, a delivery that two branches reach, and a customer whose address is not the
verified one; `LastDay` lets midnight pass between two orders.
`BackOffice` and `Clockwork` each hold components that share no state: the variable `part` says which
of them a behaviour is about, the others rest, and their states add instead of multiplying. Two
requests are every pair of kinds; `MaxSessions`, `MaxChallenges`, `LastTick`, `LastDay`, `LastInstant` and
`MaxOrders` bound only what is ever created and how long the clock runs. A code lives 3 ticks in an
hour of 5, as 5 minutes do in 60: long enough to be resent, short enough to be forgotten. Eight minutes
a day are enough for windows that cross midnight with a later start of the riders and a buffer before
the close; three weekdays for a day of rest between two days of trade. The report is read until
`ReportEnd`, past the second midnight, by a branch that rests on no day and that nobody pauses, in the two
zones where every day has a midnight (`ReportZones`); the zone that is put back would satisfy `DaysAddUp` by
its premise alone. Rows of both caches live two of
the three days, so that one can be fresh, stale and gone.
`ClearOfChange`, in `HoursAssumption`, keeps a change of the clock away from the minutes at which a window
opens, takes its last order or closes: an opening time that the clock skips or repeats has no single
right answer, and the code's is taken as it is. Zones lie east of Greenwich, as the shops' does; the two
guesses of `instantFromZonedWallClock` look for the offset on the side of the change where such a zone has
it. `Asia/Karachi`, whose clock never changes today, satisfies all of it with any hours.
The shops are one more than the search takes within its radius, two of them equally far, and one beyond the radius whose own
cap would reach: a branch the limit or the radius overlooks is met in the run.
Symmetry of requests is sound in both runs: the modules compare requests only for equality.

**Fairness.** Weak fairness of a handler that has begun (every await settles, with a result or
an error), of the sweep (`setInterval` fires while the process lives, and a dead process is
restarted by its host), of the worker, and of time. None of customers or staff, who owe nothing. Every module but
`OrderLifecycle` states safety only and assumes no fairness.

**Findings.** (1) `OrderApology`: the README and `server.js` say that the customer of an expired
order is told. The apology is sent once, after the write that took the order out of the sweep's
sight; a process that dies, a deploy (`stopOrderExpiry` does not wait for a pass) or a failed mail in
between is never made good. (2) `OrderChases`: `config/env.js`, `constants.js` and the README say that the auto-cancel only
fires after two ignored chases. Closing time caps the fuse, and collections are taken until
closing, so an order can expire before either chase was due. (3) `StaffLastAdmin`: the count of
`assertNotLastAdmin` and the save it protects are two round trips; two admins who remove each other
leave no admin. (4) `StaffAdminBranch`: a transfer that crosses a promotion leaves an admin with a
branch, since the validator sees the copy and the save writes modified paths. (5) `OtpHourlyCap`: the
hourly cap counts rows which the TTL index removes a minute or so after a code's five minutes, so an
address can be sent more codes within an hour than `config/constants.js` and the README say;
`InboxIsSpared` is what holds: the cap in the life of a code. (6) `TaxOnTop`: `models/Product.js:114-116` says
that a price without its tax comes to "~Rs 353 at checkout" for Rs 299; `priceCart` computes that gross,
stores it with the line, and charges the 299. `AgreedTotal` states what is charged: the lines and the
delivery fee, with the price of a line tied to its gross only where the tax is in the price.

Met while modelling, without a run:

* `deactivate` of an inactive account still writes a row that says the account was active.
* `report.service.js:156` falls back to `businessDateStamp()`, which is `YYMMDD`, where
  `businessDayRange` wants `YYYY-MM-DD`: a daily report without a date, which the validator and the
  doc allow, ends in a 500. `DailyReport` always names the date.
* `businessDayRange` looks 24 hours on. On a day of 25 hours that is the same date, and the range is
  empty; `DaysAddUp` is therefore stated for zones whose clock is not put back.
* `report.service.js:179-181` and its validator say that the small hours belong to the trading day
  before; the code cuts at midnight. `DaysAddUp` does not say where the cut is, only that there is one.
* A leg that the router cannot find stays `estimated`, as if the router were down, and is judged by
  the straight line (`routing.service.js:69-72`): `QuickestInReach` says so in its first part.
* `models/Enquiry.js:75` says that a null `emailedAt` means that no email left; the save that stamps it
  can fail after the email has left. `FlagTellsWhoWasTold` excepts that save.
* `maxDeliveryRoadKm` may be set to 100, while only the ten nearest branches within 30 km in a straight
  line are ever candidates: a branch beyond them, and within its own cap, is never offered.
  `QuickestInReach` names them (`Overlooked`) and says that these are the only ones.
* `startsLaterToday` is true of any shop that never closes; `RefusalIsTrue` excepts it.

## 4. Proofs

Every safety property of the passing runs is proved, for all values of the constants: any
sets of orders, requests, processes, rungs, branches, products, shops and worlds, any timing, limits
and fault bounds, any length of a day and a week, any tax rates. The assumptions are those that the modules name, and every run that extends the module
evaluates them:

| assumption | says |
| --- | --- |
| `ConstantsAssumption` | orders, scopes and deadlines are well formed; requests and processes have different names |
| `AccountsAssumption` | the accounts at the start fit the schema, and one is an active admin |
| `PricingAssumption`, `EditsAssumption`, `CustomersAssumption` | prices are naturals; edits keep the schema of what they change; carts name what their type asks for, tax rates are whole percents, and an address reaches no branch twice |
| `FailuresAssumption`, `CodesAssumption`, `PhotosAssumption` | the limits are positive; a code outlives the cooldown and no code outlives the hour; requests are finitely many |
| `HoursAssumption` | a branch keeps its schema; the zone is east of Greenwich, and its clock does not change at the ends of a window |
| `DaysAssumption` | the shops are distinct, amounts are naturals; a clock that is put forward skips or moves no midnight |
| `WayAssumption` | the radius, the limit and the lives of the rows are naturals, shops are finitely many, and distances and times are naturals: nothing relates a cap, or the number of shops, to what the search takes |

Each proof module has one inductive invariant per component, `X => []XInv` by one lemma per action, and a
theorem per property, in which the invariant is put to use.

* `OrderBookProofs` proves an inductive invariant of the book: types; the first event is `placed`;
  the history walks along `Edges` and ends at the status; money and reason fit the status; an
  order filed `not_acknowledged` has exactly two events. Every action is an instance of `Record`,
  so that the work is done once, for `Record` (`NextIsRecord`, `RecordKeepsPath`).
* `OrderLifecycleProofs` proves `LifecycleInv`, action by action. Type correctness is not enough for
  the refinement: `RequestsAreValid` says that a request between its read and its write holds an
  edge of the diagram with the reason that belongs to it; `PassesAreDue` that a pass of the
  sweep holds orders past their deadline (the clock only grows, so it stays true);
  `BlankUntilPlaced` and `HandoverFits` complete it. `HandoverFits` is needed because the tables alone
  would complete a *delivery* that is `ready_for_pickup`: only the step into the handover looks at
  the fulfilment, so that the later step is right follows from the history of the order.
* `LifecycleImplementsBook` maps every step to a step of the book or a stutter. The heart of it is
  `WriteImplements`: the validated `from` may be stale, but the filter of the write makes it the
  present status. `LifecycleHistoryIsPath` and `LifecycleNoAcceptedOrderExpires` then follow from the
  theorems about the book.

* `StaffAccountsProofs` proves `StaffInv`, for any users, branches and requests under
  `AccountsAssumption`. Its heart is `ChangesAreSound`, what a request between read and save may rely on:
  an existing account and a complete list of what it moves, always; a copy that fits, and a
  revocation if rights change, while no admin has a branch; an up-to-date copy and another admin
  counted, while nothing crossed it. `SavedFits` shows that mixing the modified paths of two fitting
  copies loses no manager's branch; the other half, an admin with a branch, is finding (4).

* `OrderLifecycleProofs` goes on to the rows and the messages. `TrailInv`: the *rank* of a status rises
  along the diagram (`ForwardRises`), so the moves of a history are told apart by where they end; each
  row is such a move, every handler still to write its row has a move that no row and no other handler
  claims, and without a break none is missing. `NoticeInv` says, for each kind of message, that
  it was told at most once and that whoever is still to tell it is alone and has not: the checkout, the
  request that made a move, the pass that failed an order; and of the job of a rung, which is due by its own
  clock, that it chased no oftener than it stalled. `NoticesAreDeserved` and
  `QuietOnceSettled` follow.
* `CheckoutProofs` proves `CatalogueInv` (who edits alone holds the present value as his "before", and the
  rows replay to what is stored, up to the one not yet written) and on it `CheckoutInv`. `Rests(c, h)` says what a request may rely on at
  each of its reads, in terms of `heldSince`, the values each document held since the order was pressed: it
  is what makes a price read early and a stock read late both true. `NumbersAreOne` makes the numbers of
  a day one to one with the requests that drew them, those that never heard of theirs included. That a total is the sum of its lines
  and that its tax reconciles (`TotalsAreAgreed`) needs `PriceCart` opened, line by line: `TaxSplits` says that at any rate, in
  the price or on top of it, the net is within half a unit of what the rate makes of it and never more than the gross.
* `StaffSessionsProofs`: `TokensAreWithOne` says that a token is with one refresh at most, which
  issues before it retires it, and that nobody refreshes a token that has a successor; `StaleIsOnItsWayOut` that a session on old credentials has a revocation coming or
  has escaped it; `CounterIsExact` that while nothing
  crosses, the counter a login has read is the one stored and equals the misses.
* `BackOfficeProofs`, photos: `KeyIsSettled` relates bucket, array and the one request at work on a key;
  `RoomIsShared` is the arithmetic of the limit, length plus requests attaching against limit plus requests.
  Inbox: `MarkIsTrue` follows the creating request, `NotesAreKept` says that the save, which appends in
  the database, leaves each note at exactly one place, and `TurnsAreTold` what the last row about the status
  says while the update is between its save and its row.
* `BackOfficeProofs`, codes: `VerifiersAreExact` and `CountsAreExact` for one verification at a time;
  `SendersAreAlone` ties a document to the request that made it until the code is delivered or deleted;
  `AllowanceHolds` is what a request let through may still rely on when it creates its code,
  and `CapKept` bounds every window of a code's life, not only those that begin with a code. Everything that only
  lets codes fade (deletion, purge, time) keeps them by one lemma, `FadingKeepsLimits`.
* `SumsProofs`: a sum is the last of its running totals (`SumIsTotal`), and sums add position by position
  (`SumsAdd`). `StepByStep` is induction over a range, for a set instead of a predicate.
* `ClockworkProofs`, hours: the invariant is small (`HoursInv`: a clock, a zone and a branch that the
  constants allow), the work is arithmetic. `ReadFrom` says that the wall clock is at or past a reading which
  the change leaves alone from the instant on that `InstantOf` finds for it, and not before; `SessionAt` that the session that can
  run now is that of one date, today's or yesterday's, the one whose weekday `SessionWeekday` asks for. From
  these follow that orders are taken in the sessions and nowhere else (`OrdersAreInSessions`), and that the
  countdown and the refusal are true. `DatesTried` says that the code's walk of 24 hours at a time visits the
  next dates in their order and skips none, which is what makes `NextOpeningIs` the first one.
* `ClockworkProofs`, report: `DayIs` says that the orders of a day are those whose instant has its date;
  `FigureIs` that every figure of a report is a total of the orders matched; `TotalOfParts` that the totals
  of a partition add up. `SpanIsItsDays`, `AllDaysSoFar`, `BranchesAreAll` and `TakingsReconcile` are the
  parts of `DaysAddUp`.
* `ClockworkProofs`, the way to a branch: a cached row carries no day on which it was true, only one on which it expires.
  `WayInv` keeps a witness: some day within the row's life on which the map, by the rules in force,
  gave that place, or the road that leg; and the same for whatever a request took from a row, counted
  from the day of its read. `WayInv` also keeps what the query took, so that a branch it left out is
  `Overlooked`. The choice is judged at the step that makes it (`ChoiceIsRight`).

The prover has no induction that takes a predicate as a parameter. Where a proof needs a last
position, a first candidate or a sum, it takes the least element of a set of naturals, or of
counterexamples, from the well-founded order on `Nat` (`WFMin`), which is first-order.

**Model-checked only:** the liveness properties `NoOrderWaitsForever`, `JobsDrain` and `MovesAreAudited`
(liveness and `ENABLED` are out of the prover's reach). The six violations are TLC's by nature.

## 5. Plan

1. *(done)* Order core: `OrderStatus`, `OrderBook`, `OrderLifecycle`, and its theorems.
2. *(done)* Staff: `StaffAccounts`, `StaffSessions`, and their theorems.
3. *(done)* Customers: `OtpVerification`, `Pricing`, `Catalogue`, `Checkout`, `Wayfinding`, and their theorems.
4. *(done)* `ProductImages`, `EnquiryInbox`, `BusinessHours`, `DailyReport`, and their theorems.
5. Next, as the code grows: tax split among the children of a box, once `buildBoxLine` does so; an order
   between two messages about one order, once the notifications promise one.

## 6. Not modelled

* Creating a product or a branch, and the audit rows of both and of photos: inserts that nothing races.
* Reads: the catalogue, lists, counts, an order read back. They change nothing.
* The lists of failures and of top items in a report, which group the same orders by other keys.
* Rate limits (a library's, in memory), validators, controllers, error mapping.
* Rendering: PDFs, invoices, views, message texts; ad conversions, which are sent and forgotten.
* Booting, and the scripts, which run by hand outside the service.
