# Formal model of the partner portal

The partner portal is an authenticating, metering proxy in front of an
OpenAI-compatible upstream. It records every request in a SQLite ledger, keeps an
hourly rollup beside the raw rows, closes billing days into statements and mails
them. Several processes may share one ledger file (a rolling deployment does), so
most of its hard behaviour is concurrency over that file, and what is left behind
when one of the processes fails.

This directory holds TLA+ modules translated from the code in `src/src/`, the TLC
configurations that check them on small instances, and TLAPS proofs of the
properties that matter most. `PROJECT.json` maps every definition to the lines it
models and lists runs, mutants, hazards, findings and theorems.

- [The system](#the-system)
- [Modules and how they correspond to the code](#modules)
- [Runs](#runs)
- [Fairness](#fairness)
- [Proofs](#proofs)
- [Where code and documentation disagree](#disagreements)
- [Not modelled](#not-modelled)
- [Plan](#plan)

## The system

| Component | State it keeps | Operations | Hard because |
|---|---|---|---|
| Request handler (`proxy/handler.rs`) | the record of each request, a stream's meter | accept, forward, finalize, stream, disconnect | a dropped future stops anywhere it awaits; streams are finalized by a detached task |
| Ledger writer (`ledger/writer.rs`) | bounded channel, current batch, health latch, raw rows, rollup | enqueue, batch, one transaction per batch, busy retries, drain | a full queue while detached records wait for it, failed commits, a peer that holds the lock, callers that left |
| Rollup (`ledger/rollup.rs`) | `usage_hourly` | add and retract a row's contribution | a row can be counted as interrupted first and corrected later, in another bucket |
| Recovery (`ledger/recovery.rs`) | `ledger_instances`, in-flight rows | boot pass, periodic sweep | must tell a dead owner from a live one, while both write |
| Instance ownership (`ledger/instance.rs`) | lock files with `flock` | acquire, probe, release, remove | file, lock and registration change at different times |
| Process life cycle (`main.rs`) | phase of shutdown | start, drain with deadlines, close, release | deadlines race with late writes |
| Retention (`ledger/retention.rs`) | none of its own; deletes rows and buckets | sliced passes with a budget | the lock is free between slices; rows and buckets go separately |
| Stream scanner (`proxy/sse_scan.rs`) | partial line, pending event, outcome | feed, finish | chunk boundaries are arbitrary; memory is capped |
| API keys (`apikeys/`) | `api_keys`, a snapshot per process | create, revoke, rotate, rename, refresh | load and swap are separate; expiry and suspension change without a commit |
| Partners (`billing/partner.rs`, `status.rs`, `admin/partners.rs`) | partners, models, overdue state | edit, suspension | seen only through the snapshot |
| Day closing (`billing/worker.rs`, `statements.rs`, `period.rs`) | `daily_statements` with lines | anchor, catch-up, draft, write | two workers, late usage, failed days |
| Pricing (`billing/pricing.rs`, `usage_groups`) | none | classify, group, price, total | missing columns, rounding, range |
| Statement emails (`billing/worker.rs`, `store.rs`, `email.rs`) | lease, attempts, retry time, sent time | claim, send, record | a lease and a slow relay; lost answers; crashes |
| Accounts and payments (`admin/partners.rs`, `admin/billing.rs`, `billing/api.rs`, `keygen.rs`) | partners, model lists, payments of statements | create, edit, delete, mark paid, status | handlers of several transactions beside the worker and each other; three derivations of one status |
| Configuration (`config/`, `main.rs`) | the snapshot behind a lock, the watcher's last hash | reload, report, swap; reads by requests | a request reads it at several moments; some fields are read once, at start |
| Schema (`ledger/mod.rs`, `schema.sql`) | the file's tables, columns, indexes and version | migrate, statement by statement | several starting processes on one file, a crash between any two statements |
| Dashboard events (`dashboard/sse.rs`, the browser's store) | last version seen, subscribers | poll, announce, stream, refetch | lag, lost connections, shutdown with open streams, a watcher that feeds itself |
| Dashboard queries (`dashboard/api.rs`, `auth/scope.rs`) | the cursor key | page by cursor, totals of hours | pages are separate transactions over a ledger that changes |

Interactions. The handler sends operations to its process's writer over the
channel and waits for an acknowledgement; the writer, recovery and retention of
all processes exclude each other by SQLite's write lock only. Day closing reads
the rows the writer finalizes, at a cutoff the writer knows nothing of. The key
store's snapshot decides who reaches the handler and at which prices; the
configuration's snapshot decides where the request goes. Emails read statements and
partners. Managers change partners while the worker drafts their statements. The
dashboard's poller sees that something was committed and browsers ask what. There is
no other channel between processes.

What makes each correct: the rollup is the aggregate of the raw rows and nothing
is served without a durable row (metering); what was acknowledged survives
(recovery); only dead processes are recovered at once (ownership); pruning stays
behind its window (retention); the outcome depends on the bytes alone (scanner);
one key per partner, and revocations arrive (keys); each request is stated once,
on an immutable statement, at the prices of its row (billing); one message per
statement unless an answer was lost or a lease outlived (email); a payment stands and everyone who asks
gets the same status (accounts); a request is judged by a configuration that was in
force while it ran, and the operator knows which (configuration); a file stamped with
a version has all of it, and every process gets to start (schema); a change is read
unless the read fails, and reading is not a change (events); a walk over the list misses and repeats nothing
(queries).

## Modules

`Rollup` — the two tables and the pure functions on them: `InsertAccept`,
`FinalizeRecord`, `RecoverRows` return the database after one write, as the SQL
and `Contribution` do it incrementally. `Aggregate` is the reference definition:
what `check_raw_rollup_consistency` recomputes from the rows. Bucket columns that
no write changes are one value, `Dims`; the streaming column, which can change
between writes of a row, is kept apart.

`Metering` (extends `Rollup`) — every process on one file. Handlers (`pc`,
`record`), channel (`queue`), batch and open transaction (`batch`, `work`,
`applied`, `locker`), acknowledgements, `healthy`, lock files and registrations,
boot recovery and sweeper, the five phases of shutdown, crashes. A batch's
transaction is stepped operation by operation on `work`, which replaces `db` at
commit. Recovery probes and writes inside one immediate transaction and is one
step; removing lock files afterwards is its own step, as in the code. A client
disconnect drops an awaited handler at any await; a stream's end hands its record
to a detached task.

`UsageLedger` — the promise: rows only move forward, the rollup is their
aggregate, a request is served only over a row. `Metering` implements it by a
refinement mapping (`ImplementsLedger`).

`Retention` (extends `Rollup`) — passes of several processes. `RawSlice` and
`HourlySlice` are one transaction each and share the budget; `HourGone` is the
comparison of a 13-character hour with a full timestamp as text. Accept, finalize
and recover are committed writes in between.

`SseScan` — `SseUsageScanner` over sequences of bytes. `Feed` delivers a chunk;
an event's data is kept as `from_utf8_lossy` leaves it (`Lossy`), in which a byte that is
no text has become a character of three (`Size`); `AfterCr`, `HoldTail` and `TakeLine`
are the branches of one iteration of `feed`'s loop. `Reading` is the reference: what the first n bytes say, read as a whole. It is
written by positions (`LineEnds`, `BlankLines`, the size and the payload of the event
that ends at a position) and knows neither chunks nor the scanner's state.

`ApiKeys` — `api_keys` and partners as committed, and per process the snapshot and
one task per administrator plus the refresher. A mutation commits, then loads,
then swaps; the refresher loads and swaps. A snapshot entry (`Config`) is consumer,
models and suspension as `load_active` reads them in one transaction.

`Statements` — the calendar (`DayOf`, `Cutoff`, `Closable`), each worker's walk
over partners and days, drafting a day and writing it in separate steps, and the
metering of requests meanwhile: `created_at` is stamped before the accept commits.
A tick whose future is dropped abandons its walk. `present` and `settled` are history
variables: what the ledger held at a day's cutoff.

`Pricing` — `usage_groups`' classification and sums, `line_for`, the components of
a line and the statement's total, over the rows of a day. Null is a value of its
own. Arithmetic is exact up to `MaxMicros`, which stands for the largest `i64`.

`StatementEmail` — the email half of the worker's tick. Leases and retry times are
kept as remaining time. `Deliver` is the relay accepting the message,
`SendSucceeds` and `SendFails` what the worker hears of it; `excused` counts the
successes whose record was lost and the messages sent after their lease. A tick may last
longer than its lease (`MaxTick` and `Ttl` are independent): `overdue` is a history
variable, the statements a tick has held for longer than that.

`Accounts` — what managers and the keygen command do to partners, each handler cut at
its transactions (`call` is how far it is): `create_partner` writes the account and
then the models, `delete_partner` counts statements and then deletes, `mark_paid` reads,
updates under `paid_at IS NULL` and reads back. The worker drafts from a partner it
listed earlier and writes; foreign keys are the refusals they are. Below the actions are
the three derivations of a partner's status, by the request path (`RequestStatus`, from
the one row `load_active` joins), by the billing API and by the worker (from all overdue
rows), through one `StatusFor`.

`LiveConfig` — the file, the watcher (look, report, swap), restarts, and one request that
reads the snapshot when it is authenticated, when its body is read and when it is
forwarded. Fields are of four classes: live, half live, captured at start and reported,
captured and not reported. `told` is what the log last said of a field.

`Schema` — `init_schema` by several processes, one action per statement that commits by
itself, from a new file or one left by any earlier, an equal or a newer build. `cached_tokens`,
which no ALTER adds, is kept apart (`hasCached`). Conditions read
before a statement are steps of their own. A process that has finished issues keys
(`Issue`) while another migrates.

`Dashboard` — the poller of each process on its own connection, the broadcast with its
bounded buffer and lag, the streams, the shutdown of a process, and of the browser what
an event sets off: a read that is answered (`Answer`), or fails and is not made again
(`AnswerFails`). A page has several fetches and one error shown; they are one kind of read.
`WatchJob` is the usage view's watcher, in the next-state relation of
`UsageSpec` only.

`RequestList` — a client that walks `get_requests` page by page, with the scope, window,
filter and signed cursor, and then asks for totals, while rows are inserted (late ones
too), completed and pruned and another process may store the cursor key first. `hourly` is
the rollup the totals count: the finished rows, until retention deletes a bucket whole
(`PruneBucket`), also the one of the hour its cutoff falls in.

**Composition.** `Metering` composes handler, writer, rollup, recovery, ownership and
life cycle of all processes; `Retention` and `Metering` share `Rollup`; `Statements` has
the metering it depends on; `Accounts` composes managers, command and worker. `MCParts`
puts five modules whose states are disjoint (`SseScan`, `Pricing`, `RequestList`,
`LiveConfig`, `Accounts`) in one run: a behaviour is a behaviour of one of them with the
others at rest, so it explores the sum of their states and not the product. They need no
joint behaviour: none reads what another writes.

The other `MC*` modules give the constants that a cfg cannot write and the symmetry sets;
`ApiKeys`, `StatementEmail`, `Schema` and `Dashboard` are checked as they are.
Definitions marked "Mutant" are the modelled bugs that show each property can
fail; they are not part of any specification.

## Runs

Passing runs:

| Run | Checks | Instance | Why it is enough |
|---|---|---|---|
| `pipeline` | `DetachedIsSettled`, `ShutdownCompletes` | 3 streams; a process that shuts down, with 2 or all of them, and a peer that stays up; queue 1, batch 2, 1 busy retry | the queue is full when a detached record is to be sent, and the batch ahead waits for the peer's lock or is given up, in every phase of the shutdown |
| `contention` | `RollupMatchesRaw`, `AcknowledgedIsDurable` | 2 processes that stay up, a request each, 1 row without an owner, 1 busy retry, the tokens of 1 request | two writers and two sweepers on one lock; a live row is recovered and then finalized, its token sums with it; the grace period of unknown owners |
| `life_cycle` | `NeverServedUnmetered`, `CleanExitLeavesNothing`, `InFlightExplained`, `RunningKeepsLockFile`, `ImplementsLedger`, `StrandedIsResolved` | 2 processes, 1 request, 1 failed commit, 1 crash | a peer meets the other in every phase of its life, every failure every phase of a shutdown; several requests are covered by the theorems |
| `api_keys` | `OneLiveKey`, `RevocationPropagates`, `SnapshotsConverge` | 2 processes, 2 keys, 2 edits, 1 failed load | an edit in each process races with its peer's edit and both refreshers |
| `statements` | `ChargedOnce`, `UsageAccounted`, `NoSilentHole`, `StatementsFinal`, `EveryDayStated` | 2 workers, 2 partners created apart, 1 request, 3 days, close delay of a day, catch-up of 1, 1 fault | both workers draft the same day on either side of a write and of a correction; the backlog exceeds the catch-up, and a day fails in front of another |
| `statement_email` | `OneSender`, `DuplicatesExplained`, `RecordedIsLast`, `EveryoneMailed` | 2 workers, 2 statements, batch 1, the older never accepted, lease 1, ticks of up to 2, backoff of 2 and 4, 1 fault | a tick ends within its lease or outlasts it, and both workers send one statement; starvation is possible without backoff; one fault, because nothing is mailed once both processes are gone |
| `retention` | `WindowExact`, `RecentKept`, `ExpiredPruned` | 2 requests in 2 hours, slices of 1, budget 2, 1 failed pass | a cutoff inside an hour, a pass that runs out of budget between the tables, a late finalize of a pruned row |
| `schema` | `StampedIsComplete`, `NewestKeyKept`, `EveryProcessStarts` | 2 processes, 2 consumers, 2 legacy keys and 1 issued since, 2 crashes, files of no version and of 1 to 7 | each statement meets each statement of the other; a migration dies twice and is done by a third start |
| `dashboard` | `ChangeIsRead`, `QuietWhenIdle`, `StreamsLetGo` | 2 processes, 1 browser, buffer 1, 2 commits, 1 stop, 1 fault | a subscriber lags, a poll fails, a read fails, a connection is lost; a stream is open, opened too late or moved when a process stops |
| `parts` | see below | | |

`parts`, by module:

| Module | Checks | Instance | Why it is enough |
|---|---|---|---|
| `SseScan` | `ChunkingIrrelevant`, `BufferBounded` | all bodies of up to 5 pieces, of up to 4 where some bytes are no text, cap 8 | every terminator and field can be cut; events below, at and above the cap, also such whose text is longer than their bytes |
| `Pricing` | `EveryRowStated`, `TotalFair` | all pairs of rows over counts {2, 5} and none, prices {1, 3} and none, unit 4, largest amount 6 | rounding ties, out-of-range lines and totals, groups that mix rows with and without a cached count |
| `RequestList` | `WalkExact` | 3 rows of 2 consumers, pages of 1, 2 queries, time to 3, hours of 2, window and retention of 2 | rows of one instant on either side of a page; a late row, a pruned one and a changed status during the walk; the running hour; a bucket deleted before its rows, and the window opening in its hour |
| `LiveConfig` | `RequestInForce`, `OperatorTold` | 7 files, 3 saves, 1 request, 2 sizes, 2 passwords | a swap between any two reads of a request; a change, its reverse and a restart between reports |
| `Accounts` | `PaymentsStand`, `SuspensionAgrees` | 1 partner, 2 days, 2 managers, 3 calls, time to 2 | two payments of one statement; a deletion around a draft; an incomplete overdue statement older than a firm one, and a change of mode between them |

Two more runs, `failed_day_skipped` and `dashboard_usage`, state what a comment of
the code says and find it violated (see [below](#disagreements)).

Deadlock checking is on except where the system may stop: processes that have
exited for good and clocks that have reached their bound (`Metering`,
`Statements`), every process up and every bound reached (`Schema`, `Dashboard`), a
scanned body, a full day, a walk that ended, no call left (`parts`).

The bounds are named in each module: `MaxFaults`, `MaxCrashes`, `MaxClock`,
`MaxEdits`, `MaxRows`, `MaxPieces`, `MaxExp`, `MaxTick`, `MaxTime`, `MaxRecords`,
`MaxSaves`, `MaxRequests`, `MaxNow`, `MaxCalls`, `MaxId`, `MaxCommits`, `MaxStops`,
`MaxLoads`. `MCMetering` names the constraints of the metering runs. `StayUp` keeps both
processes of `contention` up, and one of `pipeline`; the start, shutdown and crash of two
processes are the subject of `life_cycle`. `OneMeasured` has a usage reported for one request
of `contention`, which completes. `WalkUnderWay` of `parts` does not follow a walk through the
list that has ended, since it shows no more. Bodies have their two usages in one order only,
as these may be exchanged, and shorter bodies are those whose client left. `pipeline` looks at streams only (`Streams`:
their clients stay until the upstream has answered, and they complete), since only a stream
has a detached record, and how it ends does not matter to its way through the queue; at a
peer that is up before the other starts (`StayingFirst`), as in a rolling update; and at no
passage of time (`NoneAges`), which matters to rows of owners a probe knows nothing of.
None of these stops a step that is under fairness, so no liveness property holds because
the behaviours that would break it were cut off. `retention` has one process;
passes that overlap are covered by the theorems of `RetentionProofs`. No cfg with fairness
has a symmetry.

## Fairness

Only what the runtime guarantees is fair, all of it weakly.

- `Metering`: Tokio polls ready tasks and timers fire (`Scheduling`): one condition for
  the own steps of a handler and its detached finalizer, one for the writer's receive,
  flush and commit, one for the sweeper, one for what is left of a start and one for the
  phases of a shutdown, deadlines included. Each of these tasks does one thing after the
  other, so a condition on its steps together says that the task runs. `FairSpec` adds
  that rows age. Clients, upstream, crashes, faults and the start of a process are under
  no fairness.
- `ApiKeys`: the refresher's loop and the rest of a mutation that has committed.
- `Retention`: the loop of `spawn_retention`.
- `Schema`: a process that was started, or whose start failed, goes on: the
  supervisor restarts it and each statement ends. Crashes are under none.
- `Dashboard`: pollers and streams are polled by the runtime, the grace period and the
  restart come, a browser handles its events and its reads are answered or fail. Nothing makes
  a browser connect, and the drain bound is not relied on: `StreamsLetGo` is about not
  needing it. `UsageSpec` adds that Vue runs a watcher that was set off.
- `Statements`: the ticks of the scheduler loop. `StatementEmail`: the ticks, and
  time: each read of the SMTP conversation ends by its own timeout, so a tick ends, but
  not within its lease. Operators (restart, payment) are under none.

## Proofs

Every theorem holds for every value of the constants that the named assumptions of
the modules allow (requests and statements are finite sets; sizes, windows and
bounds are natural numbers), whatever the number of processes, keys and partners.

The proofs are eight modules. `SetFacts` and `RollupProofs` are lemmas the others
share.

**`SetFacts`** — minima, maxima and sums over finite sets (`Min`, `Max`,
`MapThenSumSet` of the community modules): a sum loses, gains, combines and bounds its
terms as it should, whatever order the recursion picks them in. Each is proved from a
least counterexample, which needs no induction over a predicate.

**`RollupProofs`** — what the three writes do to the tables, for every database: they
keep its type, and a bucket that agreed with the raw rows, counts and token sums alike,
agrees with them afterwards. `AddExact` and `RetractExact` move one row in or out of a
bucket; recovery moves a set.

**`MeteringProofs`** (extends both)
- `TypeCorrect` — `TypeOK` is inductive given the types of the writes.
- `RollupExact` — `ExactInv` adds to `RollupMatchesRaw` the same statement about the
  open transaction's `work`, which becomes `db` at commit, and that a finalize in any
  channel or batch carries a terminal record: without it a finalize could retract what
  it never adds.
- `LockFileOfRunningKept` — `LockInv` relates who is registered or owns rows, in `db`
  and in `work`, to which processes have been alive, so that no pass ever has a running
  process among the lock files it removes.
- `ServedIsMetered` — `MeteredInv`: an acknowledged accept has a committed row, and
  recovery and rollbacks keep it.
- `InFlightAlwaysExplained`, `CleanExitIsClean`, `AcknowledgedStays` — on three
  invariants. `FlowInv`: a channel and batch never hold two operations of one request,
  each belongs to a handler that waits for it (or was dropped while its accept waited),
  and a handler that waits has its operation somewhere. (So the accept and the finalize
  of one request never share a batch: the branch of the writer that lets a later
  operation supersede an accept is not reached from this handler.) `LifeInv`: what a
  request may be doing in each state of its process, and what a shutdown that met no
  deadline has left at each stage. `RowsInv`: what the committed row says for each state
  of its handler, and that the working copy differs from the committed database by the
  operations already applied and nothing else.
- `PipelineImplementsLedger` — with `RowsInv` and `ExactInv`: every step maps to a step
  of `UsageLedger` or to a stutter. Only a commit and a recovery change the rows;
  `CommitWrites` and `RecoverWrites` say how, row by row.

**`RetentionProofs`** — `RecentNeverPruned` and `WindowAlwaysExact`. `KeptInv` adds that
every pass's cutoff is behind the clock by the window, and stays so as time goes on.
`WindowInv` adds that no pass has a cutoff beyond the newest, so slices of either table
leave the buckets after it, and their rows, alone; the writes in between are exact by
`RollupProofs`.

**`RequestProofs`** — what a request meets, and what the list of requests shows of it.
- `ScannerBounded` (`ScanInv`): each byte held of a line or an event stands for one that
  has been paid for out of the cap, through every branch of the loop of `feed`; as text it
  takes three bytes at most.
- `ChunksDoNotMatter` (`ChunkInv`): a scanner that was not cut off stands at some
  position n of the body and holds there what the reader of the whole knows of the first
  n bytes: the line that n is in, the data of the event that is open, its size, the tally
  of the events that ended (`ScanAt`); a remembered CR is the byte at n, and a forgotten
  one is followed by no LF (`CrSeen`). A scanner that was cut off has an event that does
  not fit behind it (`CutAt`), which no later chunk changes. The lemmas before it say how
  the reader's lines, sizes, payloads and tallies go on from one position to a later one;
  what an event's data is (`DataUpTo`, a recursive function) is unfolded one byte at a
  time (`DataStep`), from the function that a least counterexample shows to exist.
- `WalksExact` (`ListInv`): `WalkInv` says of a walk under way what its pages so far owe:
  every row shown was in scope and is shown once, a row that was due at the start and is
  neither shown nor ahead of the cursor matches no longer and never will, and the cursor
  is signed with the one key the file keeps. What happens between two pages (`Meanwhile`)
  neither moves a row across the cursor nor makes a due one. That a page can be put in
  order at all is `OrderExists`, by a least set that cannot. `HourlyInv` is for the
  totals: a finished row of an hour after the cutoff's is in the rollup as it is in the
  ledger, because only buckets of earlier hours are ever deleted.
- `RequestsInForce`, `OperatorAlwaysTold` (`ConfigInv`): `WatcherInv` follows file,
  read copy, snapshot and log through the watcher's three steps; `JudgedInv` says what a
  request was checked against so far.
- `LiveKeyUnique` (`KeyInv`): the partial unique index on the table, and uniqueness of
  every picture that was loaded and not swapped yet.

**`StatementsProofs`** — `StatementsTyped`, `StatementsImmutable`,
`NobodyChargedTwice`, `CutoffUsageStated`. That a statement is final needs only the insert
that does nothing where there is one. `StmtInv` says of drafts what the theorems
say of statements: a draft was read after its day's cutoff, so it contains what was
present then, and it charges only requests of its partner and day. Days partition
time (`DayUnique`), which is where charging twice is excluded. `HolesAreReported`:
`HoleInv` adds that a walk has left behind it only days that are stated or reported;
a statement is what moves an anchor, also under another worker's walk.

**`EmailProofs`** — `ExclusiveSending`, `NoUnexplainedDuplicate`,
`RecordedSuccessIsLast`, for ticks of any length. `EmailInv` says that whatever a worker
still has to send is leased for what is left of its tick's lease, unless it is overdue
(`Leased`), that leased work has one holder (`OneHolder`), and accounts for the messages
delivered (`Messages`). What a tick does once it has outlived its lease, such as releasing
the lease another has taken since, is covered: the theorems promise nothing of an overdue
statement and all of the others (see [below](#disagreements) for what the code promises).

**`BooksProofs`** — the file and what is made of it.
- `SchemaTyped`, `StampMeansComplete`, `IndexNeverViolated`, `NewestKeySurvives`.
  `SchemaInv` says, for every process, what the statements it has passed have left in
  the file (`Progress`); since nothing but columns, tables and partners is ever added,
  another process cannot take it back. It includes that the unique index holds, which
  is what lets the collapse of keys and later issues go through. `CachedHere` follows
  `cached_tokens` apart: it is there unless the file was made without.
- `PaymentsAlwaysStand`, `SuspensionAlwaysAgrees`. `AccountsInv` keeps what each cut
  handler relies on between its transactions (`CallGood`), and that statements have
  accounts. That the three derivations of a status agree then is a fact about the
  tables: the oldest firm overdue statement decides.
- `EveryRequestStated`, `TotalsAreFair`. The invariant is the type of the rows. The
  query's sums are sums over the rows (`ColumnSummed`, nulls skipped); the rows of a
  group share a price snapshot, so pricing sums is summing prices (`GroupSums`);
  a line is rounded three times (`PriceLineFair`); groups partition the rows.
- `EventsTypeCorrect`, `NoChangeIsLost`. The latter is the safety half of `ChangeIsRead`:
  a commit that a browser with an open stream has not read is one the poller of its
  process has still to notice, or an event or a read is under way, or the last read under
  way was made with it and failed (`NoChangeLost`).
  `EventsInv` adds that no poller is ahead of the ledger, so that a new commit is news to
  all of them, and that no stream outlives its process, so that a poller that starts
  again at the newest version has nobody to tell. What is left to liveness is that those
  under way arrive.

The assumptions are those named in the modules that declare the constants: sets that are
finite where the code iterates over them, sizes, times and prices that are natural
numbers (positive where the code divides by or waits for them), and model values that
differ from what they stand apart from. The bounds (`MaxFaults`, `MaxCrashes`...) may be
any numbers (`MaxLoads` a positive one). The type invariants of `Metering`, `Statements`, `Schema` and `Dashboard`
are theorems; as invariants of runs they would only repeat them.

Only model-checked:
- everything under fairness (liveness is out of the prover's reach):
  `StrandedIsResolved`, `DetachedIsSettled`, `ShutdownCompletes`,
  `RevocationPropagates`, `SnapshotsConverge`, `EveryDayStated`, `EveryoneMailed`,
  `ExpiredPruned`, `EveryProcessStarts`, and the three of `Dashboard`.

Every invariant and every action property of a passing run is a theorem.

## Disagreements

Two runs state what the repository says and find it violated by what the code does;
`PROJECT.json` quotes the lines.

| Run | What happens |
|---|---|
| `failed_day_skipped` | a failed day followed by a successful one is behind the anchor and is not retried |
| `dashboard_usage` | the usage view watches the counter that its own refresh increments, so one change event sets off refreshes without end |

Modelling met more places where a document or comment promises more than the
code does. The models contain the behaviour, and the properties above are stated so
that they hold with it:

- A client that disconnects between accept and finalize of an unstreamed request
  leaves its row `in_flight` for as long as the process lives
  (`Disconnect`; `InFlightExplained` names this case). ADR 0003 line 59 says
  `in_flight` is never a permanent resting state.
- A dead peer's lock file whose removal failed is not tried again, because its
  registration and rows went with the commit (`RemoveLockFiles`, `Candidates`);
  `ledger/recovery.rs:144` says the next pass retries.
- Retention deletes the bucket of the hour its cutoff falls in and keeps that hour's
  later rows (`HourGone`, `RowGone`; `WindowExact` is about the hours that begin after
  the cutoff). ADR 0005 line 30 says rows and rollup are pruned together.
- At equal input and cached prices a reported cached count can still move a line by
  a micro-dollar, since the two parts of the prompt are rounded apart (`Components`);
  `billing/statements.rs:318` says it cannot affect the amount.
- A tick that outlasts the 15 minute lease it took at its start, as 50 slow sends can
  (`email.rs:62` bounds one read, not a conversation), is joined by another process on the
  statements it has not reached, and both send them: a duplicate, and possibly one after a
  recorded success, since nothing looks at the lease or at `email_sent_at` before a send
  (`billing/worker.rs:416`). `billing/store.rs:1137` says this must never happen. `OneSender`,
  `DuplicatesExplained` and `RecordedIsLast` say that it happens in no other way.
- An event's data is held as text, in which a byte that is not UTF-8 takes three bytes, so
  what is held of an event can be three times `MAX_EVENT_BYTES`, which is a cap on bytes
  received (`DataOf`; `BufferBounded`). `proxy/sse_scan.rs:28` says "Maximum bytes held".
- `ledger/mod.rs:40` lists `cached_tokens` as what version 2 added, and `init_schema` has no
  ALTER for it: a file of version 1 is stamped with version 6 and has no such column
  (`AddColumn`, `hasCached`; `StampedIsComplete` excepts it).
- The bucket of the hour retention's cutoff falls in is deleted whole while that hour's later
  rows stay, and a window may open in that hour (`dashboard/api.rs:162`), so totals can leave
  out requests the list shows (`PruneBucket`; `WalkExact` excepts that hour).
- A fetch that fails sets an error and is not made again (`dashboard.ts:363`): with the ledger
  quiet the page stays as it was (`AnswerFails`; `ChangeIsRead` excepts it). Another fetch's
  success takes the error away, and `fetchModels` shows none.
- The statement nobody accepts makes room for another only if its delay outgrows a tick and
  the interval after it (`MaxDelay` against `MaxTick` and `Interval`): with ticks as long as
  `EMAIL_RETRY_MAX_MINUTES` `EveryoneMailed` would not hold.

Others are met while the rest is as modelled, and no property is about them:

- A refresh that loaded before a revocation and swaps after it brings the key back
  until the next tick (`Load`, `Swap`; `RevocationPropagates` says that it ends).
  `admin/keys.rs:260` says that the key is rejected from the answer on.
- Fields of the billing block are captured at start and not reported
  (`Unreported`); `config/hot_reload.rs:154` says captured fields are warned about. A
  captured field that is put back to its value of the start is still reported as
  not in force.
- The loser of two concurrent `mark_paid` logs `payment_marked_paid` as well, though
  its answer shows the other's payment.
- A statement written between `delete_partner`'s count and its delete makes the
  foreign key refuse, which is answered as a database error; `billing/store.rs:535`
  says it is an invalid request. `replace_models` with an empty list for an account
  that does not exist is answered with success.
- `create_partner` may overwrite a model list that was put between its two
  transactions, or leave an account without models when the second one fails; so may
  keygen, which leaves the account when the key cannot be made.
- A browser that reconnects reads what it missed only when the next change is
  announced, as ADR 0007 line 57 says; on a quiet ledger that is never. `ChangeIsRead`
  is therefore about streams that stay open.
- An invalid CORS origin is ignored; the comment on `cors_layer` calls it a startup
  failure.

## Not modelled

- The SMTP dialogue beyond accepted, refused or unanswered, and the wording of messages.
- Hashing, constant-time comparison, key material.
- Parsing and printing of prices, timestamps and JSON; form validation.
- The front end, except for what a change event sets off in it; log and telemetry output.
- The HTTP exchange with the upstream: its outcomes are choices of the handler model.
- Returning free pages after a pass, which no reader of the ledger sees.
- A process that starts without its `flock` (`instance.rs:167`): a peer's probe can then
  lock the file and take it for dead.
- A close delay of two days or more (`statements.rs:98`), for which `closable_through`
  finds no closed day, and a retention of one day, which can prune rows of a day that has
  not been stated (`retention.rs:88`): both are settings the configuration accepts and
  its documentation does not suggest.
- During a migration: a sibling of the build of version 5 that still issues keys, and a
  file stamped by a newer build between the check and the stamp.
- That `statuses_in_scope` lists partners and reads their overdue statements in
  separate transactions: `ApiStatus` is of one moment.

## Plan

Order: metering first, because everything else reads its rows; then who is served
(keys), what is charged (statements, pricing), what is sent (email), what is kept
(retention), and the scanner that feeds the meter; then what surrounds them: schema,
configuration, accounts, dashboard. These are built. Next:

1. Model: the lost `flock` at start as a further start action of `Metering`; price text
   (`PricePerMillion::parse`, `format_micros`) with its round trip.
2. Compose: `Retention` and `Statements` over one table, for usage that is pruned before
   its day is stated.
