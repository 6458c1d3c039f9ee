# MaroonLedger: TLA+ models, checks and proofs

MaroonLedger is a personal-finance service: a Go API over PostgreSQL, a React
front end, a model provider that categorizes transactions and looks for
anomalies, and a pipeline that copies every transaction to a data lake. This
directory holds TLA+ models of it, translated from the source, the TLC
configurations that check them, and proofs for TLAPS.

    tlc -workers 2 -config MCEmitter.cfg MCEmitter     # one run; PROJECT.json lists all
    tlapm EmitterProofs.tla                            # one proof module

`PROJECT.json` is the index: components, runs, the mutants that show each
property can fail, the map from definitions to source lines, findings, hazards
and theorems. Paths below are relative to `src/`.

## 1. Inventory

| Component | State | Operations | What is hard |
|---|---|---|---|
| Event emitter, `app/internal/pipeline` | bounded channel `events`, `done`, the worker's batch and byte total, three counters | `Emit`, `run` (receive, tick, drain), `flush`/`deliver`, `Close` | handlers, worker and Close interleave; a call can be rejected in part, time out after it was taken; the buffer is full |
| Server process, `app/cmd/server` | start-up step, signal, listener, one shutdown context | start, signal, `Shutdown`, `Close` | a signal while starting; order of shutdown; one 30 s budget for two waits; kill |
| Rate limiter, `app/internal/ratelimit` | map subject -> bucket (lazily refilled), mutex | `Allow`, `evictLoop` | eviction races with requests; the cutoff is stale; credit must not come back |
| Handlers, `app/internal/handlers` | accounts, transactions; locals of each handler | create and read accounts, list, create transaction | six steps on a database without a transaction around them, three remote calls under one deadline, crash between commit and emit |
| Migrations, `app/internal/database` | `schema_migrations`, the schema | `Migrate` | two tasks at once, old release still writing, locks, restarts |
| Summary and insights, `handlers/summary.go`, `insights.go`, `aggregate.go` | none of its own | five (two) queries, series arithmetic | queries outside a transaction see different moments; balance series |
| AI provider, `app/internal/ai` | none | `Categorize`, `DetectAnomaly`, `GenerateInsights` | model output mapped onto closed sets; thresholds of the stub |
| Authentication, `app/internal/auth`; `cmd/devidp` | the verifier's copy of the key; the provider's key | verify a token; mint one; restart with a new key | a copy from before the restart, shared by all requests; expiry in flight |
| Front end, `app/frontend/src` | view state, tokens and PKCE state in session storage | load, submit, sign in/out | a refused token must lead back to sign-in; answers applied out of order |
| Data lake, `infrastructure/modules/{firehose,glue,datalake,athena}` | raw/ objects, job bookmark, curated/ files | deliver, nightly job | at-least-once delivery, crash between write and bookmark |
| Infrastructure, CI | declarative | - | used for facts only: two tasks, replaced when they exit, and a circuit breaker that rolls a release back |

How they interact. A request passes the verifier and, for writes, a limiter
keyed by its subject, then runs in a handler goroutine of its own. The handlers
share the database and the emitter; the emitter's worker is the one consumer of
the channel. `main` starts everything after `database.Migrate` returned and on
SIGTERM stops the HTTP server first and closes the emitter second. Firehose,
Glue and the browser are reached by messages only.

What makes each correct:

- emitter: every event is in one place; batches inside the service limits; sent
  at most once and in order; what was accepted leaves; counters agree with the stream;
- process: no event is emitted after Close; a clean shutdown accounts for every
  committed row; it ends within its deadlines;
- limiter: the rate holds over every window; eviction cannot be noticed; idle keys go;
- handlers: nothing in the lake that is not in the database, and nothing a client was told
  of that was not offered to the lake; no row reaches
  another user; the stored category, severity and event agree whatever failed;
- migrations: once, in order, all or nothing; nobody serves before they are
  complete; the closed category set is closed; every task comes up unless the release is
  taken back for a reason that is not the migrations' own;
- summary and insights: a chart undoes exactly the movements after its point; figures of
  one response that come from different queries agree as far as what was committed
  between them lets them, and no sentence contradicts the figures beside it;
- provider: an ordinary payment is not flagged; a reason is true of the rows it names;
  nothing a language model says reaches the database outside the closed sets;
- access: a token that the provider would vouch for is let in; a restart costs nobody the
  accounts; no page is stuck with a refused token;
- lake: what the bookmark passed was written by the run that passed it, every extra row
  has a cause, nothing
  expires unread while the nightly run works;
- views (not modelled): what is shown belongs to what is selected; a Cognito sign-in is
  completed by the browser session that began it.

## 2. Modules

| Module | Models | Composed with |
|---|---|---|
| `Emitter` | `FirehoseEmitter` | - |
| `EmitterProofs` | theorems about it | extends `Emitter` |
| `Server` | `main` from start to exit, handlers as far as the emitter sees them | `E == INSTANCE Emitter`: the actions of the worker and of Close are the emitter's own, so that it refines `Emitter` by construction |
| `ServerProofs` | theorems about it | extends `Server`; `P == INSTANCE EmitterProofs` gives it the emitter's |
| `TokenBucket` | what the limiter promises: one bucket per key that lives for ever | - |
| `RateLimiter` | `Limiter`: the map, lazy buckets, `evictLoop` | `Unevicted == INSTANCE TokenBucket WITH level <- ...` |
| `RateLimiterProofs` | theorems about it | extends `RateLimiter` |
| `Ledger` | the handlers over the database | - |
| `LedgerProofs` | theorems about it | extends `Ledger` |
| `Migrations` | `database.Migrate` in several tasks, under a service that replaces them | - |
| `MigrationsProofs` | theorems about it | extends `Migrations` |
| `Assessment` | the provider: the stub's rules, Bedrock's decoding, the insert that takes the result | `Ledger` has any answer the closed sets allow, which AssessmentTypeOK is about |
| `Summary` | the dashboard's and the insights' handlers, with writers beside them | - |
| `SummaryProofs` | sums over finite sets; theorems about `Summary` and about `Assessment`, both of which add rows up | extends `Summary` and `Assessment` |
| `Access` | `devidp`, `Verifier`, the page's token and its 401 interceptor | routes of the handlers, reduced to one that reads and one that stores the subject |
| `AccessProofs` | theorems about it | extends `Access` |
| `DataLake` | Firehose's deliveries, the nightly Glue job, expiry | takes from `Emitter` that an event is offered to the stream once |
| `DataLakeProofs` | theorems about it | extends `DataLake` |

### Emitter

`events` is the buffered channel, `done` the closed channel, `pending` and
`pendingBytes` the worker's locals. A Go statement that can block or be
interleaved is a step. `Receive` is one `case event := <-e.events` of either
loop with everything up to the next blocking point: encoding, the limit check,
the append, or the start of a flush. While `PutRecordBatch` runs (`worker =
"put"`) the record that forced the flush is `held` and `resume` says which loop
goes on. `PutAnswered` takes any subset of the batch as rejected, `PutFailed`
any subset as taken by the stream all the same. `Emit` never looks at `done`, as
in the code. `emitted`, `sent` and `landed` are history variables, the last two
what the delivery stream was offered and what it took.

An event that cannot be marshalled is treated like one that is too long: `encode`
returns an error for both. Lengths are small numbers with limits in proportion.

### Server

`phase` follows `main` through its start-up steps (`After` is their order, any of them
may fail or take for ever), serving, `server.Shutdown` and `emitter.Close`; `expired`
is the context the last two share. `signalled` is apart from `phase` because
`signal.NotifyContext` is the first statement: a SIGTERM is kept, and acted upon
when main comes to `<-ctx.Done()`. `Listen` is the goroutine of `ListenAndServe`, which may
come after the shutdown began. `ShutdownExpires` is the `log.Fatalf` that skips
`Close`. `http.Server.Shutdown` belongs to the standard library and is taken at its
word: the listener is closed, and nil means that no request is being handled. A
handler may hang, be refused, or commit a row and then emit; `Kill` may strike
anywhere. The worker exists from the end of start-up on.

### RateLimiter and TokenBucket

Time is in ticks, and so is credit: a request costs `Cost` ticks of refill, which
keeps the floating-point tokens of `x/time/rate` integral. A bucket stores what
it held at its last admitted request and when that was (`rate.Limiter` is
external and modelled from how `Limiter` uses it); `Tokens` is what that has
grown to. `TakeCutoff` and `Sweep` are separate because the cutoff is computed
before the mutex is taken. `time.Tick` drops ticks for a slow receiver, hence the
one-slot `due`. `spent` and `age` are history: credit spent by a key since a
moment that `OpenWindow` may set anywhere, so that a bound on them is a bound on
every window of time.

### Ledger

`ReadAccounts` is List and Get of the accounts; the rest is about transactions.
One record per handler goroutine holds its locals and its program counter; each
database statement or model call is a step. `Cancel` is the end of enrich's
context (15 seconds, or the client going away): the calls still to come fail,
but the insert is not under that context. `Insert` has three outcomes: an answer,
an error with nothing written, an error with the row committed. With the provider
switched off (`AI == nil`) enrich is the path on which every call fails.
`Crash` ends all handlers at once. Categories are reduced to listed ones, `Other`,
`None` and `Unlisted`; amounts, dates and descriptions only decide validity.

### Migrations

Every task runs `Migrate`: look for the table, then per version a check outside
any transaction, the body, the record, the commit. Of the SQL the model keeps
what makes tasks and writers interleave: 001 to 003 need an exclusive lock at
once, 004 updates rows under a shared lock and then asks for the exclusive one.
The lock manager (requests served in order, a circular wait broken by failing one
transaction) and READ COMMITTED snapshots per statement are PostgreSQL's and
external. `OldInsert` is the release before, which wrote any category. Initially
any prefix of the versions is in place. Migrate's error makes `main` exit.

The rest is the service of `infrastructure/modules/ecs/main.tf`, as its comment (101-112)
describes it: while the release is `rolling` out failed tasks are `Counted` and replaced
(`Restart`); at `Threshold` failures the circuit breaker gives up (`RollBack`) and the tasks
of the release are stopped (`Stop`), unless all tasks served before
(`ReachSteadyState`). What ECS counts, and that it never counts fewer than three, is its own
and external. `disturbed` is history: a task was killed, or replaced while another was
still migrating, or the release before inserted a row behind 004's repair.

### Assessment

One transaction at a time: its category (given, found, or left open), the baseline over
the stored rows, the verdict, the insert. `stored` counts the account's rows by
category and amount, which is all that `baselineFor` reads of them. The stub's
quotients are multiplied out, so that the thresholds stay exact integers; a mean of
zero is then an inequality like the others. Bedrock answers anything: an error, a
refusal, an empty or garbled text, or JSON with any category, severity and reason.
A reason is the widths of its runes and whether a NUL is among them, because a cut by
`truncate` within a rune and a NUL are what makes it a text PostgreSQL refuses; `storable`
says that neither happened. `fits` says the same of what the request brings by itself: an
amount within DECIMAL(12,2) (001_create_tables.sql:13), of which the handler only rejects NaN
and infinities, and a description without a NUL. `Accepted` is what PostgreSQL then
checks. That the database may not answer at all is `Ledger`'s.

### Summary

Each query is one step over what is committed then; `CreateAccount` and
`InsertTransaction` are the writers. `seen` is history: how many rows were
committed when each query ran, which is enough to rebuild what it saw because the
tables only grow. Time is in half days, so that a date (midnight) and the time of the
request (noon) differ, as they do at both ends of the window. `Anomalies` gives every
set the ORDER BY and LIMIT allow. Insights are the same two queries over a
window asked for, followed by the stub's choice of sentence, a model's text or a failure.

### Access

`idp` is the development provider, whose key is named by the number of its start;
`cache` what `keyfunc` last fetched, shared by all requests; `page` the tabs, each with
its token and at most one request. A request goes through `Arrive` (header and key id),
`Ask` when the id is unknown, `Check` (signature and expiry with leeway) and its
handler; between any two of them the provider may restart and another request may
replace the copy. `keyfunc` is external and modelled from the comments in `devidp` and
`auth`; its background refresh may happen at any time or never. A unit of time is 30 s, the
page's slack and the server's leeway; a request is verified within one unit of its
sending and the clocks agree.

### DataLake

An event is the database it is from and its id there: the compute stack, database included,
is destroyed and applied again while the lake stays (`Redeploy`), so ids come back.
`Deliver` puts any part of what Firehose holds into a new object and may keep it, to put it
again; `GiveUp` is errors/. The run of a night is the script: a bookmarked read that fixes
its objects (`StartRun`), `WriteAll` with what dropDuplicates leaves, `Commit`. `FailRun`
may strike before, in the middle of and after the write; the write is a file for each date
and category, so any part of it may be there. `passed` gives each object the bookmark has
passed the night of the run that read it; `bookmark` is its domain, which is all that Glue
keeps. That a failed run leaves the bookmark where it was, and that objects which land
during a run are not passed by its commit, is Glue's and external. Time is in days, with one
run a night that is over before the next (15-minute timeout); an object expires as early as
S3 may, when it is `Retention` days old.

## 3. Runs

| Run | Module, spec | Bounds | Shows |
|---|---|---|---|
| `emitter` | `MCEmitter`, `FairSpec` | channel 2, batch 2 records / 4 bytes, record 3, sizes 1, 3, 4; 4 calls | EmitterTypeOK, Conservation, BatchWithinLimits, SentInOrderOnce, CountersBoundTheLake, QueuedEventLeaves, DrainFinishes |
| `server` | `MCServer`, `FairSpec` | 2 handlers, channel 1, batch 1 record / 2 bytes; 3 calls | CleanCloseAccountsForAllRows, NoEmitAfterClose, ShutdownEnds |
| `rate_limiter` | `MCRateLimiter`, `Spec` | 2 keys, burst 2, cost 2, ttl 2, 7 ticks | TypeOK, RateBound, IdleBucketsGoAway, refines `TokenBucket` |
| `ledger` | `MCLedger`, `Spec` | 2 users, 2 accounts, 2 handlers, 2 categories, 2 severities | TypeOK, LakeWithinLedger, AnsweredIsOffered, Isolation, AssessedAsStored, AssessedOnWholeHistory |
| `migrations` | `MCMigrations`, `FairSpec` | 2 tasks, 2 rows, 2 deaths, circuit breaker at 3 failures | TypeOK, AppliedOnceInOrder, ServingIsMigrated, CategoriesAreClosed, EveryTaskServes |
| `data_lake` | `DataLake`, `Spec` | 2 events, 2 databases, 2 objects, 4 days, retention 3 | TypeOK, PassedIsInTable, CopiesAreExplained, NothingIsLostByWaiting |
| `assessment` | `MCAssessment`, `AssessmentSpec` | 2 categories with keywords beside income and other, 5 amounts, 3 rows, 3 texts over a limit of 3 bytes, with a NUL or without | AssessmentTypeOK, OrdinaryIsNotFlagged, ReasonIsTrue |
| `summary` | `MCSummary`, `Spec` | 2 users, 2 accounts, 3 transactions of 7 kinds, 2 days, 3 windows, 1 headline | TypeOK, SparklinesUndoWhatCameLater, ChartAgreesWithTotals, BreakdownWithinOutflow |
| `access` | `MCAccess`, `Spec` (fair) | 2 users, 2 pages, lifetime 2, slack, leeway and flight 1, 1 restart, 1 account | TypeOK, CurrentKeyIsAccepted, AccountsSurviveRestarts, LetInAgain |
| `lake_drops` | `DataLake`, `Spec` | as `data_lake` | violated: NoTransactionIsDropped |
| `enrichment_fails_write` | `MCAssessment`, `AssessmentSpec` | as `assessment` | violated: EnrichmentNeverFailsTheWrite |
| `stored_balance` | `MCSummary`, `Spec` | as `summary` | violated: StoredBalanceIsCurrent |

Why the bounds are enough for the cases meant. Emitter: the channel is full and overflows, a
batch fills by count (two records) and by bytes (1+3 fits, 3+3 does not), a record is
refused (4), a flush holds one back while the channel fills again, and Close comes before,
between and after all of these. Server: two handlers let one be between commit and emit
while the other's event is in flight, and three events overfill a one-slot channel. Limiter:
seven ticks are three ttls and more than the six in which an idle bucket must be gone, so a
bucket can be drained, left, refilled, evicted with a stale cutoff and created again.
Ledger: two handlers suffice for a baseline that is stale by the other's insert, two users
and two accounts for one to name the other's. Each handler serves one request, so that a
retry is the other handler's. Migrations: the service runs two tasks; one row can be there
from the start while another comes in the middle, two deaths let each task die once or one
die twice. Three failures are the fewest at which ECS rolls back; two deaths and a lost race
make three. Data lake: two events are two ids in one object or one id of two databases; two
objects hold the same record on one night or on two; retention three with four days leaves
an object two nights after its own before it expires, one of them not the next. Assessment:
three rows are what it takes for twice the largest and four times the mean to differ (1, 1
and 10 have the mean 4); amounts are on both sides of zero, and zero. A limit of 3 bytes
falls between two runes of the text of widths 1, 2, 1 and inside one of 2, 2. Summary: the
kinds are dated at midnight before the window's first instant, later on that first day,
inside the window, on its last day before and after the request, and on the day after; one
category moves both ways; three rows let one be committed before, one between and one after
two queries. Access: a token lives for two units, enough to be sent, kept and to expire
while its holder goes on; two pages are two generations of token at one copy of the key.
Deadlock checking is on in all runs; where a system may end, an action that changes nothing
(`Stopped`, `Dead`, `Done`, `Over`) says in which states. The limiter's window can be
reopened and a crash that finds no handler busy changes nothing, so those two never stop.

Fairness. The emitter's worker: weak on the put (it has its own 15 seconds), on
receiving and on leaving the drain loop; strong on the ticker and on `done`,
because Go's select chooses at random among ready cases, so a case that is ready
again and again is taken. None on Emit or Close: handlers may stop calling.
DrainFinishes is checked in `Emitter`, where nothing can end the process and so
hide a drain that does not end. `Server`: weak on main's steps and on the timer
alone; none for handlers or the worker, which may hang. Fairness constrains only
infinite behaviours, so the invariants of these runs are checked on every state
the safety specification reaches. Symmetry is used only where no liveness is
checked. The limiter has no fairness: IdleBucketsGoAway speaks of the states in
which the loop has dealt with its last tick, so that no bound on its delay is
assumed. Migrations: tasks take steps, and the service replaces failed tasks, sees that
all serve and rolls back (weak on each), but replaces none once it has rolled back. So a
release is not retried for ever, and EveryTaskServes says when it may be given up: only after
a death, after an insert of the release before behind 004's repair, or after a replacement
beside a task that was still migrating. Without these the tasks do fail each other, but not
three times. TLC finds a counterexample when any one of the three is left out.
Access: a provider that stopped is started again and pages go on taking steps (weak); a
request that finds the provider up again and again is answered in the end (strong on
`Ask`). Nothing is assumed of the background refresh, so LetInAgain does not rest on it, and
nothing of users choosing one route rather than another.

## 4. What is proved

Each theorem holds for every value of the constants that the ASSUMEs allow, and for any
number of handlers, tasks, pages, users and keys. What the ASSUMEs ask:

- emitter and server: positive buffer and limits; a record limit not above the batch limit;
  any set of sizes;
- limiter: positive burst, cost and ttl;
- migrations: a circuit breaker that takes at least one failure;
- ledger: `Other` is a listed category; "not listed" and "none" are not values of the
  closed sets;
- lake: retention of a day or more; positive numbers of databases and days;
- access: a token outlives the page's slack, and a request is verified in less time than slack
  and leeway together; `None` is not a token;
- summary: a window of a day or more that fits before the request; finitely many kinds of
  transaction, with whole amounts;
- assessment: the categories with keywords are listed ones; finitely many whole amounts;
  "not listed" and "none" are not values of the closed sets.

Bounds such as `MaxEmits` or `MaxRows` stay, but are any natural number.

### Emitter

- `EmitterTypeCorrect` (EmitterTypeOK): by actions, each taken apart into the sequences,
  the counters and the control state.
- `NothingIsForgotten` (Conservation): inductive only with `Hands`, which says what
  the worker holds: a record is held back only during a put and is encodable, a put
  has a batch, the books are within the limits. Without it a flush could count a
  batch that is not there. The arithmetic needs that a set of ids is no larger than
  the batch it is from (`BatchIds`).
- `BatchesStayInLimits` (BatchWithinLimits): the worker's running total is the real sum of
  the batch's sizes (`BooksAgree`), and `Hands` keeps the total within the limit; the
  held record must be encodable because it becomes the next batch, and a record limit at
  most the batch limit is what lets it. The sum is a fold; that it grows by the size of
  what is appended is shown by induction over the length of the batch.
- `SentInOrder` (SentInOrderOnce): `OrderInv` takes `sent \o unsent \o events` apart
  into three ordered sequences, each before the next, and adds that no id in them is
  beyond `emitted`, which the next event exceeds. `BeforeConcat` and `HeadAndTail`
  are the lemmas about sequences it rests on.
- `CountersAreBounds` (CountersBoundTheLake): `LakeInv` adds that of the batch in flight
  nothing has landed and everything has been sent; as it is in order it has as many ids as
  records (`DistinctIds`), so that what an answer takes away from the batch is what it
  adds to the counters.

### Server

That a step of a handler, of main or of the worker is a step of the emitter or leaves it alone
holds by the way `Server` is written, and is used as the lemmas `InitRefines` and `NextRefines`:
the emitter's invariants thereby hold in the process.

- `NoEmitIsAfterClose` (NoEmitAfterClose) and `CleanCloseAccounts`
  (CleanCloseAccountsForAllRows): `ProcessInv` says that once `done` is closed every handler
  is idle and main is closing or has ended, that the committed rows are the emitted ones and
  those of handlers which have yet to emit, and that a clean Close is the end of the process.
  `DrainInv` says what the worker has seen on its way out: past draining the channel is
  empty and nothing is held, and when it has exited there is no batch either. Conservation
  then leaves the three counters that are logged as the only places an event can be.

### Rate limiter

- `RateLimiterTypeCorrect` (TypeOK): needs that no bucket's times are in the future
  (`InPast`), or refilling could subtract.
- `RateIsKept` (RateBound): the property is stated with what the key has left, which
  makes it inductive beside `IInv`; it rests on one lemma per action of what the
  action does to `Level`, the credit of a key with or without a bucket.
- `EvictionIsInvisible` (ImplementsTokenBucket): the same lemmas give the step
  simulation; `LevelAfterSweep` is its heart: a bucket is evicted only when it is
  worth what a new one is.
- `MapForgets` (IdleBucketsGoAway): `LoopInv` follows the loop. While a sweep is under way
  its cutoff is no older than a ttl before the last tick (`LastTick`); when neither tick
  nor sweep is pending, every bucket was seen since the longer of ttl and refill
  before that tick.

### Handlers

`LocalsFitTables` is the invariant of `Ledger`: what a handler has in its locals is still
true of the tables, however many others have written since. It is in three parts, by
program counter. `Owned`: past the ownership check the account is the caller's, and so is
all that was read, shown or written. `Since`: what was there when the request came is among
what the baseline reads. `Assessed`: a severity held for the insert is of the category held
beside it. `GoodIsStable` shows once that none of it is lost by what others append, which
leaves each action only its own handler to look at. From it:

- `TypeCorrect` (TypeOK), `LakeIsWithinLedger` (LakeWithinLedger), `UsersAreIsolated`
  (Isolation), `SeverityFitsCategory` (AssessedAsStored), `SeverityFitsHistory`
  (AssessedOnWholeHistory).
- `NoAnswerBeforeEmit` (AnsweredIsOffered): `HInv` adds that a handler which is about to
  answer, or has answered 201, has the row it knows of among those offered.

### Migrations

- `MigrationsTypeCorrect` (TypeOK), `OnceInOrder` (AppliedOnceInOrder) and
  `NobodyServesEarly` (ServingIsMigrated): the invariant `MInv` adds `Seniority` (all
  versions before a task's own are recorded; the one it is about to commit is not)
  and `OnePastTheLock` (no two tasks are past the lock at one version). With both, a
  commit is always of the next version.
- `TheSetIsClosed` (CategoriesAreClosed): `CInv` adds that a task past the lock of 004
  sees no row outside the set; writers are kept out by the lock and other commits by
  `OnePastTheLock`.

### Summary

What a response says are sums over the rows as they were when a query ran, and the theorems
compare sums of one response with each other. The first part of `SummaryProofs` is therefore
about sums over finite sets: `SumOf(w, S)` exists and is unique, splits over disjoint sets
(`SumOfUnion`), over kinds of element (`SumByKind`), and is linear. Its induction is over
the subsets of a finite set, with a set in the place of a predicate (`FiniteInduction`),
which comes from well-foundedness. The sums of `Summary`, which are the library's folds, are
shown to be such sums (`TotalIsSum`, `SpendIsSum`).

- `InvariantHolds`: `IInv` is the tables and `Good`, which ties each of the handler's numbers
  to a prefix of the rows: the accounts listed (`Listing`), the movements by account and day
  (`Movements`), the categories' totals (`Spending`), inflow and outflow (`Flowing`). A
  prefix does not change when rows are appended, so `GoodStaysGood` settles both writers.
- `TypesHold` (TypeOK).
- `BreakdownHolds` (BreakdownWithinOutflow): the prefix of the breakdown is no longer than
  that of the totals, and what loses money in a longer prefix includes what does in a shorter.
- `SparklinesHold` (SparklinesUndoWhatCameLater): `SeriesIs` is a closed form of
  `balanceSeries`, a recursive function over the days: a point is the balance without the
  movements of all later days.
- `ChartHolds` (ChartAgreesWithTotals): the first and last points of all series differ by what
  is dated after the first day; with one prefix for both queries and nothing after the
  request, that is what the totals say of the window less its first day.

### Assessment

A history is any number of rows of any finite set of amounts, so that the thresholds are
inequalities between products of sums. The proof is in three layers.

- The thresholds alone: `ScoreIs` says what each verdict implies of an amount, a count, a
  total and a bound on the single rows.
- What they are given: the stub adds up lines of the baseline, and `ComparedIsNamed`
  shows that its sums are those over the rows the reason names, which are the category's
  if it has any (`BaselineIs`) and all of them if it has none (`RestIsNothing`: categories
  without rows weigh nothing). `Outweighed` is the reason why an ordinary payment passes: if
  no row is smaller than the amount, amount times count is no more than the total.
  `StubSpeaksTrue` puts these together.
- The state: `AInv` is the types, what each step may leave in the transaction (`Underway`)
  and what has been said of it (`Said`), which must survive until the row is stored. It is
  written over some rows r and a transaction q, so that a step which leaves the rows alone
  is seen to leave the verdict true. A third part, `Refused`, is that every reason of the
  stub's is storable and that a row refused did not fit its columns or has a reason that is
  not storable. TLC checked the types, `Underway` and `Refused` first.

From `AssessmentInvariant`: `AssessmentTypeCorrect` (AssessmentTypeOK), with a row for every
kind no more than all rows (`SumOverIs`); `AnOrdinaryPaymentIsNotFlagged`
(OrdinaryIsNotFlagged); `AReasonIsTrue` (ReasonIsTrue); `OnlyWhatNoColumnHoldsIsRefused`,
the extent of the finding `enrichment_fails_write`: what costs a user the row is an amount
or a description of the request's own that no column holds, or a model's reason that is cut
within a rune or has a NUL in it, and nothing else the provider does. It rests on
`Accepted`, which is a reading of what PostgreSQL refuses in such a row and not of code
here. They are in `SummaryProofs`, which has the theory of sums they need; `Assessment`
shares no name with `Summary` (hence AssessmentInit, AssessmentSpec, AssessmentTypeOK) so
that one module can extend both. The two have no state in common.

### Access

- `AccessTypeCorrect` (TypeOK), `CurrentKeyGetsIn` (CurrentKeyIsAccepted) and
  `AccountsOutliveKeys` (AccountsSurviveRestarts), from `AccessInvariant`: the copy of the
  key is of this start or an earlier one; a token is of the start its key id names and
  carries the subject of its user (`Minted`); a token in flight has lost no more than its
  flight took (`Young`), so slack and leeway outlast it; a request whose token is of the
  present key and is to be checked is checked with the present key, and is refused for no
  other reason than that the provider was not asked (`Current`). A restart makes every
  earlier token one of a past key, which is why `Current` survives it.

### Data lake

- `LakeTypeCorrect` (TypeOK), `WhatIsPassedIsInTable` (PassedIsInTable),
  `WaitingLosesNothing` (NothingIsLostByWaiting) and `EveryCopyIsExplained`
  (CopiesAreExplained), from `LakeInvariant`. Its parts are about the night: what a run
  takes, the bookmark has not passed, and rows are of earlier nights until it writes
  (`Nightly`); a row of a run that did not fail is of an object that is passed or about to
  be (`Origin`); such runs write nothing from one object twice (`Unrepeated`), which gives
  the count in EveryCopyIsExplained, where a failed night counts only if it left a row of
  the event; what is passed was written by the run of the night it was passed on, which can
  no longer fail, and between write and commit what is about to be passed has its rows
  (`Passed`); an object not passed has seen every run fail since it landed (`Waiting`).

### Only model-checked

- Liveness, which the prover does not treat: QueuedEventLeaves, DrainFinishes,
  ShutdownEnds, EveryTaskServes, LetInAgain.
- The violated properties of section 5, which are false.

## 5. Findings

Shown by a run:

- `enrichment_fails_write`: `truncate` (ai.go:210-215) slices a model's reason at a byte,
  and half a rune (or a NUL, which nothing removes) makes PostgreSQL refuse the whole
  insert, though enrichment is said never to be worth failing a write
  (transactions.go:234-235).
- `lake_drops`: "curated/ is meant to be one row per transaction" (transactions_etl.py:89), but
  dropDuplicates goes by an id that starts over with a redeployed database: of two transactions
  of one id that one run reads, one is in no row, and the bookmark has passed it. What does hold
  is PassedIsInTable: nothing else is lost.
- `stored_balance`: the series walks back from "the current balance"
  (summary.go:219), but creating a transaction never changes `accounts.balance`. The
  last point of every chart is the opening balance.

Read in the code, and left without a run of their own:

- The comment on Close (firehose.go:115) says that it stops accepting events; Emit
  does not consult `done`. In the process it does not matter, because main closes
  the emitter after the last handler: NoEmitAfterClose.
- The comment in Emit (firehose.go:108-111) says the worker reports the running total of
  drops; it never does, only Close's last line.
- 004 normalizes case and whitespace after having replaced every category that would need it
  by 'other' (004_constrain_category.sql:14-25), so "Normalize case and whitespace while we are
  here" (21) finds nothing to do, and older rows lose their category.
- Nor is curated/ one row per transaction (transactions_etl.py:89) when Firehose delivers a
  record twice into objects that two nights read, because duplicates are dropped within a run; a
  run that fails after its write adds rows as well. What does hold is CopiesAreExplained.
- The stub's reason for money coming in says "account average" also when it was compared
  with its category (stub.go:181); ReasonIsTrue is therefore about money going out.
- With income and no spending in the window the stub's insights say that no
  transactions fall within it (stub.go:218-226), and the branch for that case
  (237-245) is not reached.
- `anomalous: false` beside a severity of high is passed on by Bedrock's decoding
  (bedrock.go:262-265).
- A movement dated on the first day of the summary, before the request's time of day,
  is outside charts and totals although `period_start` names that day.
- "You spent X, more than you took in" can be wrong of the X shown when a
  transaction is committed between the two queries; its opposite cannot
  (BreakdownWithinOutflow), because the breakdown is read first.
- The dashboard shows the answer that arrives last under the range chosen last
  (Dashboard.js:24-39); with two loads in flight they need not belong together.

## 6. Plan

Done: every module of the table above, with proofs of all safety properties of the
emitter, the process, the limiter, the handlers, the migrations, the summary, the
assessment, the access and the lake. Next, in this order:

1. `Ledger` with `Assessment`: that the answers `Ledger` allows a provider include the ones
   `Assessment` gives.
2. `DashboardView`: the dashboard's loads in flight. Abstract spec: what is shown is the
   answer to the last question asked.
3. `SignIn`: the Cognito redirect, with the state and the verifier in session storage, for as
   much of the hosted page as the front end relies on.
4. The columns the nightly job normalizes, and the partitions Athena can see.

## 7. Not modelled

JSON, HTML and chart rendering, logging and metrics; rounding to cents and the savings
rate; prompts and schemas of the model calls; header parsing and the claims that
are the same in all tokens of one provider; the health check; HTTP timeouts
and header limits; infrastructure and workflows beyond the facts used above; the Bedrock
smoke check. The views of the front end and the Cognito redirect are in the plan: the views keep
the last answer without promising more, and half of the redirect is a hosted page that
is not in the repository. Components and reasons are in `PROJECT.json`.
