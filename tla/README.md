# Verification of FinancialSim

TLA+ models of the web service under `src/backend/finacialsim_saas`, of the
arithmetic in `packages/finacialsim_core` and of the older desktop application
under `src/app`, model-checked with TLC on small instances and, for the
properties that matter most, proved with TLAPS for every value of the constants.
Paths below are relative to `src/backend/finacialsim_saas` unless they begin with
`docs/`, `packages/` or `app/`.

## 1. The system

A dealer simulates the financing of a vehicle (*simulação*), turns a confirmed
simulation into a proposal (*proposta*) whose PDF a worker renders, and approves
it.  The approval inserts one instalment (*parcela*) per line of the schedule.
The customer pays instalments by Pix in a portal; a payment service provider
(PSP) reports payments through a webhook; a cron turns instalments overdue.
Mails leave through an outbox table.  Vehicles are priced by two FIPE providers
behind a cache; economic indicators come from the central bank once a day.

Processes: the API (FastAPI, one `AsyncSession` per request), the worker (ARQ:
jobs and crons, at most 10 at a time) and operator commands.  They share
PostgreSQL (READ COMMITTED, no `FOR UPDATE` anywhere), Redis (job queue,
locks of the crons) and a blob store.  The session factory has
`expire_on_commit=False`, so rows stay as they were loaded until the end of a
request, and a commit writes only the columns whose value changed
(`data/database.py`, `auth/deps.py`).  Nearly every race below comes from that:
*load, check, await something, commit*.

The desktop application is one process with one window over SQLite.  Its
handlers run one at a time; what can come between two of their commits is a
failure or the end of the process.

| component | state | operations | hard behaviour | correct when |
|---|---|---|---|---|
| Pix billing: `pix/service.py`, `pix/efi.py` | `pix_charges`, `parcela_payments.last_pix_charge_id`, the PSP's charges | create or reuse a charge, daily regeneration, lazy expiry, webhook, cancel all | PSP calls in mid-transaction, late and repeated events, failed calls, lost sessions | paid means paid, no payment is lost, one pending charge, rates only past the grace period of the server's calendar |
| instalments: `services/parcela_service.py` | `parcela_payments.status` | overdue cron, listings | cron against webhooks | only open instalments lapse |
| proposals: `services/proposal_service.py` | `proposals` | create, approve, cancel, carnê, re-render | double requests, enqueue after commit | one schedule, nothing left to collect after a cancellation |
| render jobs: `workers/tasks.py`, `workers/worker.py` | `render_status`, keys of the PDFs | render proposal, render carnê | jobs run again, time-outs | every render ends |
| notifications: `notifications/service.py`, `workers/notifications.py`, `cli/notifications_cli.py` | `notifications_outbox`, a Redis lock | enqueue, drain, retry, reminders | lock expiry, crash before the single commit, deadlocks, failing rows | sent means mailed, given up only after the attempts, every row of the channel settles |
| simulations: `services/simulation_service.py` | `simulations` and their rows | create, update, confirm, archive, clone | retries with a key, codes from a counter, edits that overlap, reads in several statements | one simulation per key, codes without gaps, a proposal quotes a whole simulation |
| accounts: `auth/` | `users`, `refresh_tokens`, `password_reset_tokens` | login, rotate, sign out, reset, register, patch, invite | rotations and resets that overlap, whole-second token times | a used token is never used again, a sign-out ends the tokens made before it, one portal user per client |
| clients, rules, settings, profile, audit: `services/`, `api/tenant_profile.py` | their tables, `audit_log` | create, update, deactivate, upsert | look up, then insert; an entry per change | the trail tells what the rows have |
| FIPE: `services/fipe_*.py`, `packages/…/integrations` | `fipe_cache` | quote, lists, pruning | cache misses that overlap, provider failures | no quote is older than its time to live |
| vehicles: `services/vehicle_service.py` | `vehicles` | create, update, status, FIPE refresh | status checked on what was loaded, a refresh across a provider call | a sold vehicle stays sold, and is priced as its last form brought |
| indicators: `workers/tasks.py`, `services/indicators_service.py` | `indicators_history`, a day lock | daily job, fallback | lock kept after a failure | what is stale is called stale |
| arithmetic: `packages/finacialsim_core` | none | Price schedule, IOF, extras, payments ahead of time, validation | rounding to cents, a bounded fixpoint, payments out of order | the parts add up, who pays ahead does not pay more, a short grace aside |
| desktop: `app/` | SQLite, the page, the lock of the login | login, vehicles, clients, simulate, propose, booklet, amortize, settings | two commits per handler, a kill in between | what was saved by half is never built on |

Not modelled: see section 6.

## 2. Modules

| module | what it is |
|---|---|
| `PixBilling` | billing of one approved proposal: sessions of requests, webhooks and crons, the PSP, the customer |
| `ParcelaLedger` | what billing promises about instalments: paid only when money came, lapse only when open |
| `Outbox` | the notifications outbox: drains, row locks, the Redis lock, operator commands |
| `MailOutbox` | what the outbox promises about each row |
| `ProposalFlow` | life of the proposals: requests, the job queue and the render jobs |
| `SimulationDesk` | simulations: creates with codes and keys, clones, edits, confirmations, and what a proposal's creation reads of them |
| `SimulationBook` | what the simulations promise to whoever confirms and quotes them |
| `Requests` | sessions that load, write and commit; the audit trail; which of them overlapped |
| `Registry`, `Accounts`, `Office` | a tenant's tables; its users and tokens; both over one database, with the customers' accounts that decisions on proposals make and disable |
| `Quotes`, `Vehicles`, `Market` | FIPE chain and cache; vehicles priced from it; both with the daily indicators and health checks |
| `Price`, `Loans` | the arithmetic as functions; one simulation and the payments ahead of time on it |
| `Pins`, `Lot`, `Desktop` | the desktop's login; its vehicles and clients; the application |
| `MC…` | small instances for TLC |
| `PixBillingProofs`, `OutboxProofs`, `ProposalFlowProofs`, `SimulationDeskProofs`, `OfficeProofs`, `MarketProofs`, `LoansProofs`, `DesktopProofs` | the theorems |

### PixBilling

A session is a record of what it loaded (`sess[w]`): a *read* is a step, a *call
to the PSP* is a step, a *commit* is a step, and the steps of other sessions come
in between.  Writes that a request makes before its commit are applied at the
commit, since nobody sees them earlier; the only earlier effect is a row lock,
and the one that excludes something, the bulk `UPDATE` of a cancellation, is
modelled (`Unlocked`).  `_ensure_charge` is `StartCharge`, then
`ReturnExisting` or `ReplaceExisting`, `CancelStale`, `CreateAtPsp` or
`CreateFails`, `CommitCharge`; `handle_webhook` is `StartWebhook`,
`LoadParcela`, `CommitWebhook`; `mark_overdue`, `get_charge` and the
cancellation are the remaining sessions.  `psp` is the provider's own record: a
charge exists there before it does in the database, an active one is payable
until its last day, a failed cancel leaves it active.  Amounts are abstracted to
whether a charge carries rates.

There are two calendars, three hours apart.  `today` is the day of the server
(UTC, `date.today()`): the overdue cron and the rates go by it.  `day` is the day
in Brazil: the expiry of a charge, its daily regeneration and the PSP go by that.
At 21:00 in Brazil the server's day begins (`Evening`), at midnight the Brazilian
one (`NextDay`); every step may fall between the two.

Left out: an event with a bad signature, of another status or of an unknown
charge only inserts a log row; the mails are the Outbox's; ownership checks.

### Outbox

A drain is a record too: the rows still to do, the attempts it loaded, and the
result its transaction will have written to each row.  A row with a result is
locked by that drain, so a second one waits at its flush (`Mark`), and two drains
can wait for each other (the database then fails one, `Lose`).  A row of another
channel is selected, passed over and left pending (`PassOver`), so that it takes a
place in every batch to come.

`lock` is what is left of the life of the Redis key, and each drain has an `age`.
`Tick` lets seconds pass; it ends no drain, but waits for those that have run for
`DrainTime`, at which ARQ ends a job (60 seconds, where the key has 25).  Whether a
drain may outlive its key is thus a matter of `LockTtl` and `DrainTime`, and no
switch.  The drain that an operator's command starts is taken to end in that time
too.

### ProposalFlow

Requests load, check and commit; `create`, `re_render` and `create_carne` enqueue
their job after the commit.  A job that dies is handed out again (`Rerun`), one
that takes too long is cancelled without a trace (`TimeOutJob`).  Loading a
proposal and announcing its render are one step: what the job loaded matters
only for whether it writes `pronta`.

### SimulationDesk

`sims` is the table in the order of the commits, `next_val` the counter of each
tenant, `proposals` the snapshots, `req[w]` what a session holds.  A row has its
columns (`terms` stands for a payload and all that is computed from it) and
three child tables; a child row is known by the session and the payload that
wrote it.  The module goes down to statements, because the questions are about
what PostgreSQL lets pass at READ COMMITTED:

| code | actions |
|---|---|
| `create`: lookup of the key, upsert of the counter, insert | `Create`, `TakeCode`, `Insert` or `InsertRefused` (the unique key) |
| `clone`: `get` of the source, then a create without client and vehicle | `Clone`, `ReadTable` three times, `TakeCode`, `Insert` |
| `update`: load, three `DELETE`s, columns and new rows | `Update`, `DeleteBegins`, `DeleteEnds`, `UpdateCommits` |
| `confirm`, `archive`: load, commit | `Confirm`, `ConfirmCommits`, `Archive`, `ArchiveCommits` |
| `ProposalService.create`: load, `get`, insert | `Propose`, `ReadTable`, `InsertProposal` |
| any refusal or lost caller | `Abort` |

A `DELETE` is bound to the rows it sees when it begins (`seen`), waits while
another session has deleted one of them (`RowsHeld`), and then passes over those
that are gone (`PassOver`); it does not see rows that were inserted while it
waited.  The upsert of the counter locks its row to the end of the transaction
(`CounterHeld`).  An edit writes the columns that differ from what it loaded.

Nothing asks again for the status before the commit, so a draft may be edited
while it is confirmed, and an archived one confirmed again.  That this never
reaches a proposal rests on something the code does not say anywhere: a draft is
always a clone, a clone has no client, and only a simulation with a client can be
proposed (`LinkedAreFirm`).

Two history variables tell where edits overtook each other: a session is `late`
when an edit has replaced what it read, or when it read what such a session wrote,
and a simulation is `crossed` once a late session has written it.

`SimulationBook` has the simulations as their callers see them: an addition takes
the next code of its tenant, a revision replaces the whole content at once, a
quotation is of the whole content at one moment, and a status is looked at only
when something is asked.  The refinement mapping takes from a row what never
changes (`Rows`), its status (`Statuses`) and its columns with their child rows
(`Contents`), and from the sessions what they are about (`Asked`).

Left out: the tenant's rules and the validation (a request that may be refused,
`Abort`), the calculation (`Computed` is a function of the payload), the year in
the code (the counter of one year), `preview` and `list`, which write nothing.

### Requests, Registry, Accounts, Office

`Requests` is what the services have in common: `Open` loads, a later step writes
and commits, `Abort` is an error, a lost caller or a refusal.  What a session
loaded stays in `req[w]`.  `crossed` is a history variable: the things that two
sessions wrote when the second had loaded before the first committed; since
nothing in the code excludes that, properties that only such an overlap can break
name it as their exception, so that everything else must keep them.

A create looks for the row (`DocIsFree`, `ByEmail`) and inserts at its end, where
the unique index decides (`DocIsNew`, `EmailIsNew`).  An update writes the
columns that differ.  Tokens are rows; a refresh token knows its predecessor
(`from`).  A token used twice opens a session that revokes the family and that
the error ends without a commit (`Reuse`, then `Abort`): see section 5.  Time runs
in half seconds, because a JWT's `iat` has whole seconds and
the time of a sign-out has not.  `Approve` and `Invite` reach `auth/service.py`'s
invitation, `Cancel` disables the customer.  Passwords and signatures are
abstracted to which one is meant; a guessed token or password is not an input.

### Quotes, Vehicles, Market

A fetch goes along the chain: `ReadCache`, `ProviderAnswers` or `ProviderFails`,
`StoreQuote`, `AnswerCaller`; other fetches of the key come in between.  A quote is
its key and how often the provider has changed its answer; `changes` remembers when.
A moment is half a day, and no request lasts longer than to the next moment
(`Prompt`), nor does a job (`JobsPrompt`): ARQ ends a job after 60 seconds
(`workers/worker.py`).  A form brings any quote or none: nobody compares it with the
model that the form names (`schemas/vehicles.py`, `VehicleService`, the page of the
vehicles), so a vehicle may well be priced as another model.  `RefreshFipe` loads
the vehicle, asks for the model its snapshot names, whatever its columns say, and
writes what it fetched.  `brought` and `last` are history variables: the quotes that
a vehicle's forms brought, and the last of them.  The daily job holds its lock for
the day, commits one indicator at a time, and falls back to the second provider,
which dates its value today.

### Price and Loans

`Price` has amounts in cents, rates as fractions and rounding as in
`quantize_brl`.  The first instalment is due after any number of days of grace, the
others 30 days (`Mes`) apart, and what is rebuilt after a payment starts 30 days from
it.  The code takes the daily rate as a root in floating point (`_daily_rate`);
`Growth` stands for what it makes of an amount in a number of days, a constant of
which `GrowthAssumption` asks what is true of that root but for its last digits,
far below a cent: it never falls, is none at rate zero, and is the monthly rate in a
month.  Iterations are recursive
functions: the tax is iterated at most `MaxIter` times, payments ahead of time
rebuild the schedule from the row they fall on.  `Loans` is one call of a
simulation and one of the amortization; the web's `_compute` and the desktop's
`run_and_save` calculate the same.

### Pins, Lot, Desktop

`Simulate` and `Propose` stop after their first commit (`busy`), and end, fail or
are killed there.  `page` is what the page of the simulations remembers, and any
other page forgets it.  The rules on the shop are stored as JSON by the migrations
and as typed by the page of the settings; the PDF reads them as JSON (`shop`).
`Pins` keeps the failed logins with their ages in minutes and, as a history
variable, those whose PIN was compared; the code's lists of times are only
filtered and counted, so that a set of numbered failures stands for each.

## 3. Runs

| run | question | bounds | states, time |
|---|---|---|---|
| `billing_one_session` | what holds when sessions do not overlap; refinement, liveness | 2 instalments due on days 0 and 1, 2 charges, 3 days of both calendars, 1 failure, 2 processed events | 353,748, 70 s |
| `billing_concurrent` | what no interleaving breaks | 1 instalment, 2 charges, 2 sessions, 3 days of both calendars, 1 failure | 694,168, 25 s |
| `outbox_overlap` | drains that outlive their key, with the operator's commands | 2 rows, one always failing, 2 attempts, 1 command, 1 lost drain; key and drain live equally long | 7,728,361, 140 s |
| `outbox_locked` | drains that end in time: refinement and liveness | 3 rows, one always failing, one of another channel, batches of 2, 1 lost drain; the key outlives a drain | 29,220, 8 s |
| `proposal_flow` | overlapping requests and jobs; liveness of rendering | 1 proposal, 2 requests, 2 jobs, 1 re-render, 1 carnê, 1 job run again, 1 failure | 226,095, 70 s |
| `simulation_desk` | two sessions that do everything a session does with simulations; refinement | 2 tenants, 2 payloads (one with a fee), 1 key, 2 simulations; the sessions are symmetric | 1,892,485, 170 s |
| `office` | a tenant's staff, its customer and whoever has a mail | 3 requests in 2 sessions, 2 tenants, 2 documents, 2 addresses, 1 proposal, 1 rule, 1 setting, times 0 to 3 | 208,577, 25 s |
| `market` | quotes, vehicles and the daily job | 2 requests or runs in 2 sessions, 3 days (times 0 to 4), 2 prices and a list, 1 changed answer, 1 vehicle, 2 indicators | 1,340,118, 170 s |
| `loans` | does the arithmetic add up | terms of 2 to 4 months, 2 rates, grace of 0, 15, 30, 45 and 60 days, with and without tax, costs of every kind, up to 2 payments in any order | 98,281, 40 s |
| `desktop` | one failure or kill at any point | 5 rows over the tables, 2 vehicles, 1 plate, 1 document, 1 user, 2 attempts | 2,206,140, 55 s |
| `billing_two_clicks`, `simulation_edits` | violated: see section 5 | the smallest instance that shows it | |

Why the bounds are enough: two sessions are what a race needs, and every property
speaks of one instalment, row, token, vehicle or proposal at a time; two charges are
the old and the new one; two simulations are a source and its clone, or two creates
with one key; three days give a charge before the due date, one within and one past
the grace period, and its expiry, each with an evening in which the calendars
differ; two attempts distinguish a retry from giving up.  Three requests of the
office are what invites, then changes, then invites again, or signs in, signs out
and uses the token.  In `market` a request that overlaps another is the shortest way
to any of its properties' exceptions, a price may be given out for three moments
after it changed, which the instance's length goes beyond, a list for five, which it
does not reach; three days are what an indicator needs to be collected, grow stale
and be collected again.  In `loans` the amounts are small so that a cent is a large
part of them, and the last instalment takes a remainder of either sign.  In
`desktop` five rows are two vehicles, a client, a simulation and its proposal.  The
bound on charges stops new requests, never one half way.  Deadlock is not checked
where the bounded calendar, failures and requests let the instance stop.  The proofs
have no bounds on rows, sessions or drains, and `MaxSims` is a constant of any size
in them.

Exceptions stated in the properties are part of what they say.  `SoldStaysSold`,
`PricedAsBrought`, `TrailTellsRows`, `TokensAreUsedOnce` and `OneCustomerPerClient`
hold up to overlaps of two writes to one thing (`crossed`), `ReplacedWhole` up to
edits that overtook each other (`crossed` again), `CancelledHasNoInstalments` and
`SchedulesFollowRenders` until two requests were open at one time (`overlapped`),
`ExtrasAddUp` up to costs too small to spread, `PaymentsAreFair` for payments in the
order of their dates, and, where the first instalment is due in less than a month,
for payments after it (an earlier one moves it, see section 5).  `DrainsKeepApart`
holds until an operator's command has deleted the key, `EveryRowSettles` while the
rows of other channels are fewer than a batch.  What a cent a month has grown to
(`Cents`) is the measure of what rounding may cost: `SimulationsAddUp` lets an
instalment below it repay too much, and `PaymentsAreFair` lets a payment below it
raise an instalment by a cent.

Fairness.  An event loop resumes what it awaits, hence weak fairness of the steps of
an open session, drain or job.  The PSP delivers an event until it is accepted
(strong fairness of `StartWebhook`, since sessions may be busy).  The cron fires
every 30 seconds, and although the lock is now and then taken it is free again and
again (strong fairness of `Acquire`); seconds pass and `scheduled_for` is reached
(weak fairness of `Tick` and `BecomeDue`).  The worker takes queued jobs again and
again.  No fairness is assumed of customers, operators, time passing in days, or
failures.  The office, the market and the desktop state no liveness: whatever a
request there leaves undone waits for a person to ask again.

## 4. Proofs

All theorems hold for every number of instalments, charges, sessions, rows,
drains, tenants, users, vehicles, indicators and payloads and every rule; the
assumptions are the `ASSUME`s of the component modules (sorts of the constants,
that bounds are numbers, that something can be asked for); TLC evaluates them in
the runs.

*PixBilling.*  `PaidIsBacked` is not inductive: `CommitWebhook` pays the instalment
it loaded steps before.  `IInv` adds `Carried` (what each program counter guarantees
of the session's charge and instalment), `Booked` (a row names the instalment the
PSP charged for), `Known` (a brcode was handed out only for a committed row) and,
for the rates, that rates in a session or a row were computed past the grace period
by the server's calendar, whose days only advance.  The lemma `Stable` collects what
no step undoes (a row is never deleted, its owner never changes, the PSP never
forgets a payment), so that every session that a step does not touch keeps its part
of `Carried`.

`StrayChargesAreFailures` counts, so its invariant does: `FewDoomed` says that at
most `faults` charges are doomed.  Doomed are the strays and the charges the PSP
would still take that a session is about to write off at its commit: the program
has nothing left to do about them, the cancel call of the session failed or the
session lost what it held.  A step dooms one charge at most, and only with a
failure of its own (`DoomedMoves`); a commit turns doomed charges into strays and
makes none.

The last part assumes `OneSession`, that no two sessions are open at one time.
The code does not enforce it (`billing_two_clicks` shows what follows), so these
theorems say what each operation does by itself, whatever came before it and
wherever earlier ones were lost.  `Current` says that what the session loaded is
still what is stored, which makes the guards of the load steps hold at the
commit.  `LastIsPending`, that a pending charge is the one its instalment points
at, is what makes `OnePendingCharge` inductive; it has one exception, an
instalment made paid by the late payment of an older charge, which then points at
that one, and no charge is created for it any more.  `Entered` and `Voided` carry
the other two properties.  In the refinement of `ParcelaLedger`, `Pay` maps to
`Receive` and the commits of the webhook, the cron and the cancellation to
`Settle`, `Lapse` and `Void`; every other step stutters.

*Outbox.*  `IInv` adds `Cursor` (the row in hand is in the batch) and `Earned` (the
attempts a drain loaded, plus one for its failed send, never exceed the failures).
`SentWasMailed` and `DeadletterEarned` need no lock: they hold for overlapping
drains.  `DrainsStayApart` needs no assumption on how long a drain or the key lives:
`KeyInv` says that, while nobody has deleted it, the key has at least `LockTtl` less
the age of any running drain to live, so that a drain that finds it gone joins only
drains that are `LockTtl` older.  Where `DrainTime` is less than `LockTtl` and there
are no commands (`Prompt`; with the code's 60 and 25 seconds this is a hope about
the mail server) drains therefore exclude each other, and with `LockInv` and
`BatchInv` the outbox implements `MailOutbox`: sends map to `Mail` and `Fail`, the
commit to `CloseRows`, everything else stutters.

*ProposalFlow.*  Both properties speak of proposals on which no two requests
overlapped, while jobs may overlap requests and each other.  What bounds the
schedules is an account of credits (`Balanced`): a creation, a re-render and a job
that was handed out again each give a proposal one credit; it is then in the
queue, with the runner that renders it, with the request that approves it, or
spent on a schedule, and every step moves credits without making any.  `Alone`
says that at most one request is open, `Covering` that the schedules that a
cancellation has read are all there are when it commits, and still void after.
Jobs are counted over a finite set (`FewJobs`), with the library's theorems about
cardinality.

*SimulationDesk.*  All six properties of `simulation_desk` are theorems, from one
inductive invariant.  `Positions` says where a session can be in each operation;
a session has a code exactly while it is about to insert.  Codes: `Counted` (the
counter is one past the tenant's simulations) and `Held` (a drawn code is the
counter's, and one session has it), and the count of a tenant's rows grows by one
with the insert.  Proposals: `LinkedAreFirm`, and `Carried`: an edit addresses a
simulation without a client, and what a proposal has read so far equals what the
simulation still says, since no step changes one that has a client
(`LinkedKept`).  No deadlock: `LocksFollowTables` (an edit holds rows only of
tables that its statements have passed) means that who waits at one table waits
for a session further on, so a chain of waits has at most three links; who waits
for a counter waits for a session that is about to insert (`StuckBehind`).
`ReplacedWhole` is inductive with `Fresh`: what a session that is not late
carries of a simulation is what the simulation still has, so that the rows it
deletes are all there are when it commits.

In the refinement of `SimulationBook` an insert maps to `Add`, the start of an
edit, a confirmation or a proposal to `Ask`, its end without effect to `GiveUp`,
the commits to `Revise`, `Confirm`, `Archive` and `Quote`; codes drawn, statements
and reads stutter, and so does archiving what was archived when it was loaded,
which writes nothing.  That `Quote` is of one moment although it is read in four
statements is `Carried` again; that `Add` takes the count of the tenant's rows is
`Counted` and `Held`.  Another session may have asked for the same, which is why
`Done` need not take anything away from `asked` (`OthersSteady`).

*Office.*  All five properties of `office` are theorems.  The invariant has a part
for each group of rows: the registry and its trail, refresh tokens, reset tokens,
sign-outs, customers, users and theirs.  Each part is of the same two layers:
what the rows are to each other, and what a session that is going to write them
has seen of them, which is still so *unless the session is late* (`Knows`).  The
step that writes the rows then either finds them as they were seen, or puts them
into `crossed`, where the property makes its exception.  For the tokens,
`FamiliesHold` says that a family has two that work only if one of its own was
refreshed twice at one time.  `Committed` gives the
other sessions their lateness, and the lemmas `…Kept` frame a part by the
variables it reads, so that each action is argued only for the parts it writes.
The reset tokens' part needs no exception for two invitations that overlap, which
the property once had; it was dropped.

*Market.*  Three invariants side by side.  Quotes: a quote in a session's hands was
said by the provider until the session's own moment, one in the cache until one
moment after it was stored (`HeldUntil` with that slack), which adds up to the two
moments of `QuotesAreRecent`.  Vehicles: as in the office, a session that is not
late still sees the vehicle's price, status and what its forms brought;
`PricedByForms` holds whatever quotes the forms bring.  Indicators: the day lock
leaves one job a day (`OneADay`), a job holds either all points of SGS up to the
last day or today's of BrasilAPI (`CollectHolds`), so the newest row of a code, if
SGS gave it, is in every commit since it first was (`NewestHolds`), and none is
dated past its commit (`RowsHold`); `StaleIsTold` follows from the two.  The proof
attempt showed that `StaleIsTold` was false in the model for longer times than the
run had: a job could last for days.  The worker ends it after a minute, which the
model now says.

*Desktop.*  All three properties, for any number of rows and faults.  For
`HalfSavedIsInert` and `BookletsFollowPdf`, `IInv` adds what they rest on: the
page only ever has a simulation whose rows are saved and a proposal whose PDF is,
and the one that is between its two commits (`busy`) has not.  Six lemmas cover
the steps that write; every other step leaves the page with what it had or with
less (`PageForgets`).  `LockoutHolds` rests on `LockInv`: what was tried within the
window is exactly what the process still remembers of the failures, and a failure
that is recorded is one more (`LatestIsNew`), so that the check before a PIN is
compared counts them all.

*Loans.*  What the simulation shows adds up, no instalment repays more than is owed,
costs are charged to the cent, payments ahead of time are taken off to the cent and
make no plan longer or dearer, for every amount, rate, term, cost and list of
payments.  These are inductions over the months of a schedule,
the rounds of the tax and the payments of a call.  The library's induction
theorems take an operator and cannot be used, but the well-foundedness of `Nat` is
a statement about sets: from it come `NatMin`, `Induction` and `UpTo`, and from
them that a recursive function exists and has the values it is defined by
(`Iterates`, `IteratesExist`), which each recursive definition of `Price` needs
once.  A total is found by giving its partial sums (`Sums`, `TotalIs`): those of a
schedule are what is no longer owed (`Chain`, `Repays`), those of a cost that is
spread month by month are closed forms (`SpreadTotal`, `CyclesTotal`).
`LastShareIsPositive` is the bound on rounding behind the last part of
`ExtrasAddUp`.  For the payments, `Anchored` is the invariant of the loop of
`apply_extraordinary_amortizations`: what the rows repay and the payments so far
make up what was financed, and every row from the last payment's date on starts
from what it and the rows after it repay.  Rows before that date have lost this,
which is why the order of the dates matters.  `SimInv` ties the variables to these
functions.

What rounding may cost is a bound on what is owed.  The instalment is half a cent
from the exact one (`PmtRepays`) and so is each month's interest, so that after each
month what is owed lies within what a cent a month has grown to until then
(`LeastOwed`, `MostOwed`, `OwedIsBounded`, an induction over the months with the
fractions multiplied out).  Going back from the last month, where nothing is owed,
an instalment above that measure never leaves less than zero (`NothingOverpaid`).
Going on from month `j`, what is owed is worth the instalments that remain and the
cents so far (`Remaining`), so that a payment above them makes the instalment of
the rest no higher (`InstalmentFalls`), and the last instalment exceeds the others
by those cents at most (`LastInstalment`).  `Keeps` is the invariant of the loop of
payments for this: a plan is rows due before the last payment's date, none above the
first instalment, and then one schedule whose instalment is not above it either, and
that began with a month of grace at least, unless its first instalment was due
before that payment.  Days enter through `GrowthAssumption` only: a grace of a month
or more makes an instalment no smaller than a month's would be, and that is the
side on which the rebuilt schedule, which starts after a month, is safe.

Only as a theorem, without a run: `MarkNeverCommitted`, no row is ever committed as
`sending`; `TypeCorrect` of `Outbox`, `ProposalFlow`,
`SimulationDesk` and `Market`.

Model-checked only: liveness (`PaymentRecorded`, `EveryRowSettles`,
`RenderEnds`), since fairness is out of the prover's reach; and
`SimulationsSettle`, which is not so for every value of the constants: whether ten
rounds of the tax suffice depends on its rates.

## 5. Where documentation and code differ

Two runs have a property that TLC finds violated, quoted in `PROJECT.json`:
two simultaneous requests leave an instalment with two pending charges
(`billing_two_clicks`); two edits of one draft that overlap leave both schedules
in it (`simulation_edits`).

Met while modelling, and kept in the modules as the code does it:

- The overdue cron writes the rows its query returned (`services/parcela_service.py:212`)
  and so overwrites a payment committed since; its docstring (:196) says "Flip open
  parcelas past due to overdue."
- A row marked `sending` is selected by a drain that overlaps
  (`workers/notifications.py:83`): the mark is not committed before the send, though
  the comment (:80) says it prevents that.
- A render sets `pronta` whatever the status is (`workers/tasks.py:321`), so a
  re-render reopens an approved or cancelled proposal; `CONTEXT.md:12` has the
  life run forward only.
- The day lock of the indicators refuses a second run of the day even after a
  failed one (`workers/tasks.py:38`); `docs/runbook/incidents.md:63` says "Manually
  re-trigger if both providers were down:".
- The entry that approve and cancel add to the audit trail comes after their
  commit and is never stored (`services/proposal_service.py:202`, `:249`).
- From 21:00 to 24:00 in Brazil the server already has the next day.  On the last
  evening of the grace period an instalment is charged rates (`pix/service.py:63-69`
  and the cron, `services/parcela_service.py:197`, ask `date.today()`), while the
  expiry and regeneration of a charge still go by the Brazilian day
  (`pix/service.py:28-32`).  Conversely a charge made without rates that day is
  handed out for the rest of that evening.  The design
  `docs/superpowers/specs/2026-06-09-pix-fase3-inadimplencia-design.md` wants both
  clocks (:130 "UTC server time, matches mark_overdue convention", :169 "matches the
  business calendar") and says of an instalment within the grace period "charge
  generated with zero rates" (:308), which on that evening depends on the clock.
  `NoRatesWithinGrace` is about the server's.
- A refresh token used twice does not end its family: the `UPDATE` that revokes it
  (`auth/service.py:131-137`) is in a session that the error raised next ends
  without a commit (`api/auth.py:38-46`, `auth/deps.py:44-54`).
  `docs/superpowers/specs/done/saas/2026-05-28-saas-phase-1-auth-rbac.md:32` says
  "reuse triggers full-family revocation"; the test of
  that name (`tests/test_auth_service.py:89-102`) asserts the error only.
  `TokensAreUsedOnce` says what does hold.
- The iteration of the tax stops after ten rounds; in a sample of realistic
  loans about one in 120 never settles and is off by a cent
  (`packages/finacialsim_core/finacialsim_core/iof.py:93`;
  `docs/matematica_price.md:48`: "Convergencia em 2-3 iteracoes.").  Hence the cent
  in `SimulationsSettle`.
- Desktop: the page of the settings stores the shop's rules as typed and the PDF
  reads them as JSON, so proposals fail after a save (`app/services/proposal_service.py:234`;
  the carnê's design: "Usa string vazia; não lança excecao"); proposals without a
  client, which the plan of the services allows, are refused by the schema; a sold
  vehicle can be put back on the list, although the design calls `vendido` final;
  the lock after wrong PINs slides, each failure counting for five minutes, where
  the user's guide says the account is blocked for five.

Also worth knowing: Gerar Carnê after a new Simular prints the last proposal's
booklet; every call of the desktop's amortization starts from the original rows and
forgets payments recorded before; a payment listed after a later one is forgotten
while the term it shortened stays; with less than a month of grace, a small payment
up to the first instalment can raise all of them, since what is rebuilt starts after
a month (`price_table.py:46,92,96`, `amortization.py:64,112`); a vehicle can be
priced as another model than its form names; fifty due rows of another channel,
which every drain passes over, can keep the mails from being sent for ever
(`workers/notifications.py:72-78`; `test_drain_outbox.py:146-186` has such a row
stay pending); two clients with one address make an approval fail; a patched user
keeps the role of the token until it expires; the second indicator provider's value,
dated today, hides older dates collected again; the second FIPE provider never
prices.  The administrator's `mark_paid` (`api/pix_admin.py:81`) fails on every
call, only the first payment of a webhook body is looked at (`pix/efi.py:121`), and
the mail about a charge that a customer asks for is queued after the request's only
commit and lost every time (`api/portal.py:123`): plain defects that need no race
and no model.

## 6. Not modelled

- *HTTP layer, logging, settings, health endpoints*, *CEP lookup*, *commands*,
  *migrations*, *frontend*, *deployment*: wiring, presentation and one-shot
  scripts without a protocol of their own.  Constraints that migrations put on the
  tables are guards in the modules.
- *CET* (`packages/…/cet.py`): a search for a root in floating point; only its
  refusal is in `Loans`.  *Check digits* of documents: a predicate on digits.
- *Desktop*: comparisons and indicators, which nothing else reads; adding users;
  `refresh_fipe`, which no page calls; the scheduler and the backups, which nothing
  starts; handlers of the FIPE picker while they await a provider.
- *Wording*: the text of mails, PDFs, snapshots and audit entries.

## 7. Plan

1. `PixBilling`, `Outbox`, `ProposalFlow`, `SimulationDesk` with their abstract
   specifications and proofs (done).
2. Office, market, arithmetic and desktop (done).
3. Proofs of the desktop's two invariants about its gaps, of the proposals, the
   office and the market, of all safety properties of billing, of the
   desktop's lock (done).
4. Proofs of the arithmetic: what simulations, costs and payments add up to
   (done); what edits leave behind and the refinement of `SimulationBook` (done).
5. Bounds on what rounding costs, for every rate and term (done).  Open: for which
   rates of the tax its rounds settle, that is, `SimulationsSettle` as a theorem.
