# Formal model of Stockwise AI

TLA+ modules that model the parts of this repository where order, concurrency and
failure decide whether the program is right; the TLC configurations that check them on
small instances; and proofs, checked by TLAPS, that hold for instances of every size.
Paths below are relative to `src/backend/app/` unless they start with `src/`.

- [1. The system](#1-the-system)
- [2. The job queue: JobQueue, JobLifecycle](#2-the-job-queue)
- [3. Simulated trading: SimTrading](#3-simulated-trading)
- [4. AI calls and their quota: AiCalls, NewsDay](#4-ai-calls-and-their-quota)
- [5. The other services: LoginSessions, AlertOutbox, PriceSync, Watchlist, ReportCache, DayRows, JobCentre, Calculations](#5-the-other-services)
- [6. What the runs show](#6-what-the-runs-show)
- [7. What is proved](#7-what-is-proved)
- [8. Disagreements](#8-disagreements)
- [9. Known limits of the program](#9-known-limits-of-the-program)
- [10. What is not modelled](#10-what-is-not-modelled)
- [11. Plan](#11-plan)

## 1. The system

Stockwise AI is a self-hosted stock dashboard: a FastAPI backend on PostgreSQL (SQLite in
tests), a Next.js frontend, and a job worker that runs inside the API process. Prices are
synchronised once a day, an AI model writes reports, and a simulated account trades on them.

| Component | State it keeps | Operations | Interacts by | What is hard, what makes it correct |
|---|---|---|---|---|
| Job queue (`services/job_service.py`) | rows of `job_runs` | enqueue, sweep, claim, execute, heartbeat, finish, retry | the table; worker task of the lifespan; HTTP and scheduler threads | leases, stale sessions, two processes; attempts bounded, ends final, success earned, every job settles |
| Retention (`services/maintenance_service.py`) | none | delete old rows of four tables | deletes under running handlers | only ended jobs disappear |
| Scheduler (`scheduler/jobs.py`) | cron triggers | enqueue under `scheduled:{name}`; the daily loops over the stocks | `enqueue_job`, dispatchers of the queue | collision with a manual run is absorbed; one stock's failure does not stop the loop |
| Simulated trading (`services/sim/`) | `sim_orders`, `sim_accounts.cash` | matching, exit sentinel, decision run | jobs in the worker; HTTP `:fill` beside it; prices of the sync | cash = replay of orders, nothing sold twice, one pending order per stock, deadlocks resolve |
| AI quota (`core/rate_limiter.py`) | reservations, usage log, in-process locks | reserve, finalize, release, cleanup | every AI call | never above RPM/TPM/RPD, no reservation leaks |
| AI provider (`providers/ai/`) | none | model chain, retries | quota, HTTP | every refusal leads to the next model, every call ends, an answer is never empty |
| Analysis, news, overview (`services/analysis_service.py`, `news_service.py`) | `ai_reports` (analyses and news), `ai_overviews` | cached generation, upsert | AI provider, prices | one report per stock, day and kind; cache hit spends nothing |
| Price sync, indicators (`services/sync_service.py`) | `daily_prices`, `indicators` | incremental upsert, recompute | market providers, jobs | overlapping syncs of one stock; stored prices converge to the source, indicators follow them |
| Alerts (`services/alert_service.py`) | `alerts`, `alert_events` | check, deliver, retry | sync, webhook | outbox: nothing lost, bounded attempts |
| Watchlist, groups (`api/v1/watchlist.py`) | items, groups | add, remove, reorder | enqueue of the first sync | unique entries under races |
| Login (`core/auth.py`, `api/v1/auth.py`) | users, sessions, attempt windows in memory | register, login, logout | every request | one owner, bounded attempts |
| Backtest (`services/backtest_service.py`) | none | signals, simulated trades, metrics | stored prices | no look-ahead; trades and equity tell one story |
| Predictions (`services/prediction_service.py`) | `predictions` | bands computed by whoever asks first | prices | all who ask about a day see the same bands |
| Premium snapshots (`services/premium_service.py`) | `etf_nav` | daily upsert | one download | one row per ETF and day |
| Market context, providers | caches | downloads for prompts and prices | HTTP | feed everything above |
| Dashboard, comparison, health | none | read-only views | tables | - |
| Frontend (`src/frontend`) | React state, sessionStorage | job centre: track, poll, retry, remove; pages | HTTP | answers out of order, timeouts; the list catches up with the queue |
| Backup, deployment, migrations | files | scripts | - | outside the program |

`PROJECT.json` lists the same components with the modules that model them, the hazards of
each with the line where it bites and the properties that watch it, and, under `map`, the
lines of source every definition stands for.

### Conventions

One action is one database statement, one commit, or one step of local computation between
them. PostgreSQL runs at READ COMMITTED: a SELECT sees what is committed when it runs, so a
handler that reads, decides and writes is at least two actions, and what it read may be
stale when it writes. Sessions are created with `expire_on_commit=False` and
`autoflush=False` (`core/db.py`): attributes keep the value they were loaded with, and only
columns whose value changed are written. Both facts are part of the models, because most of
what can go wrong follows from them. SQLAlchemy and PostgreSQL are modelled from how the
code uses them and are marked external in the map.

## 2. The job queue

`JobQueue.tla` models `services/job_service.py` and the deletion of job rows.

| State | Code |
|---|---|
| `db[j]` | row `j` of `job_runs`; `started_at`, `error`, `payload_json`, `result_json`, `job_type` decide nothing and are left out |
| `wpc`, `job`, `beat`, `raised` | the place in `run_worker_loop`/`execute_claimed_job`, its `run_id`, its heartbeat task, the caught exception |
| `seen` | the rows a session loaded: those of the sweep (96-102) or that of `_finish_job` (285) |
| `cpc`, `want`; `rpc`, `target`, `rseen` | the calls of `enqueue_job` and `retry_job` in progress |
| `done` | history: jobs some dispatcher has completed |
| `spent` | how much of each bound on crashes, faults, stalls and retries is used |

A lease is `live`, `lapsed` or absent, a backoff `waiting`, `due` or absent; the durations
are not modelled. The relation between them is: a lease somebody renews lapses only in a
`Stall` (120 s of lease against a heartbeat every 30 s), every other lease lapses by itself
(`LeaseLapse`). The sweep is skipped or taken (`SkipSweep`, `SweepRead`) since it is due only
every 30 s. `Claim` is one action: `FOR UPDATE SKIP LOCKED` holds the row from SELECT to
COMMIT. `SweepRead`/`SweepWrite`, `HeartbeatRead`/`HeartbeatWrite`, the dispatcher's end and
`FinishWrite`, `RetryRead`/`RetryWrite` and the steps of `enqueue_job` are separate.
`Flush` writes only changed columns: a worker that finishes a job it has lost overwrites
`status`, but not `attempts`.

A worker that comes back from a crash starts at the top of its loop; the row it held stays
`running` until its lease lapses and a sweep finds it.

`JobLifecycle.tla` is the abstract specification, what the queue promises to a poller of
`GET /jobs/runs/{id}`: queued, running, one of two ends, attempts used up by starting,
success only of completed work, one more attempt for a manual retry. `Lifecycle` in
`JobQueue` is the refinement mapping (`left` is `max_attempts - attempts`; an absent row is
`unborn` before its INSERT and `gone` after its deletion).

## 3. Simulated trading

`SimTrading.tla` models the account of one market: `sim/engine.py` (matching),
`sim/sentinel.py` (intraday exit), `sim/decision.py` (decision run), `sim/portfolio.py`
(`current_positions`) and the constraints of `models/simulation.py`.

| State | Code |
|---|---|
| `orders[o]` | committed row `o` of `sim_orders`; ids follow `created_at` |
| `cash` | committed `sim_accounts.cash` |
| `open[o]` | opening price of the first session the order may fill at, 0 while not synchronised |
| `local[p]` | the flow of process `p`: place, account value `loaded` and now, `held` positions, the list it works through, drafts of the decision run |
| `tx[p]`, `accountLock` | rows written and not committed (= locked), and who has updated the account row |

`Traders` are job workers, which run one of the three flows at a time; `Fillers` are HTTP
threads of `POST /simulation/{market}:fill`, which call the matching without the queue
(`api/v1/simulation.py:131`). One trader and no filler is the daily operation without manual
intervention.

Row locks: `Claim` (the conditional UPDATE of `_claim_pending_order`) and `Supersede` wait
for rows another transaction has written; after the wait the status is read again, so a row
settled meanwhile is missed. The account row is locked when the session flushes it: at the
commit, at the savepoint of `restore_or_reject` (`FillWait`), at the savepoint of the
sentinel's INSERT. `DeadlockVictim` is PostgreSQL's detector for cycles of two; cycles of
three flows are beyond the instances checked, which have two.

The unique index on pending orders is in three places: an INSERT by the sentinel that
conflicts is retried once and then given up with a rollback (`SentinelConflict`,
`SentinelTakeOverAgain`, `SentinelBlocked`), the single commit of the decision run fails as a
whole (`DecideConflict`), the restore of `FillWait` turns into a rejection.

Abstracted: prices, quotes, AI reports and sizing are arbitrary within `Prices` and
`1 .. MaxQty`; the fee is one constant; quantities are whole. `Fee <= price` stands for the
minimum order value: a position worth it sells for more than its fee. `Legacy` orders are
rows an older release left in `filling`, which `_reject_stale_filling_orders` is there for:
the present code claims and settles an order in one transaction and never commits `filling`.

## 4. AI calls and their quota

`AiCalls.tla` models one call of the router from the quota check to its answer:
`providers/ai/router.py` (chains of models), the retries and repairs of one model in
`providers/ai/gemini.py`, and `core/rate_limiter.py` below both.

| State | Code |
|---|---|
| `call[p]` | one call of a process or thread: the model it is at, the attempt, which repair, the age of its transaction (`opened`), of its reservation (`row`) and of the request under way (`out`) |
| `log`, `orphans` | rows of `ai_usage_log` that count for a limit, and reservations whose process has died, per model and age |
| `phase` | how much of the provider's day has passed (the daily limit counts from Pacific midnight) |
| `served` | history: when the provider took requests on, which is what the limit of a minute is about |

`Check` and `Reserve` are the two looks at the quota; `Reserve` is one action, since the
advisory lock is held from the count to the commit. `Respond` covers every outcome of a request:
not sent, timed out, 503, 429 with a short or a long delay, broken, an answer that is
valid, invalid or partly valid. Which of them keep their reservation (`Charged`), which are
tried again (`MayRetry`) and which lead to the repair of the whole batch or of single items
(`AfterBatch`, `AfterText`) follow the code. `created_at` of a row is the start of its
transaction, which is why a row may be older than its request (`opened`, at most `Slack`).
Time is a counter of ticks, and rows are kept by age. `DropReservations` is the part of
`cleanup_expired_records` that ends reservations older than `Cleanup`. `Cancel` and `Die` end
a call in flight, with and without the `finally` that gives its reservation back.

`NewsDay.tla` composes the daily news job of `scheduler/jobs.py` with it: `news_research_daily`
takes the stocks one by one, asks the router, waits and retries or gives up, while another
caller draws on the same quota.

## 5. The other services

These parts share no state that decides anything about the others. `MCServices.tla` checks them
side by side: a behaviour tells the story of one (`story`), so that the state space is the sum
and not the product. The fairness of each story is that of its own module, written with the
variables its actors move (`acting`).

| Module | Models | Correspondence |
|---|---|---|
| `LoginSessions` | `core/auth.py`, `api/v1/auth.py`, the deletion of sessions in `maintenance_service.py` | handlers look, hash, then write (`RegisterLook`/`RegisterStore`, `LoginLook`/`LoginFails`/`LoginSucceeds`/`LoginGrant`); the throttle is a deque of failures per client, trimmed from its old end, in memory, and goes with `LoginRestart`; rows and cookies age in `LoginTick` |
| `AlertOutbox` | `services/alert_service.py`, `api/v1/alerts.py` | runs look for an event, insert it, collect a batch, post it, mark it by the counts read before the await; events are rows under ids that are given once (`given`), so a batch read before a deletion never meets another event's row |
| `PriceSync` | `services/sync_service.py`, `sync_market_daily` | the daily job reads the list once and takes its stocks one by one, failing for some; last date, download, comparison, flush (row locks and unique conflicts), indicators, commit; the source publishes and corrects prices meanwhile. `Seen` is what a session computes from: the committed rows, except that rows it has compared keep the values they were loaded with, since a second SELECT of a session does not refresh them |
| `Watchlist` | `api/v1/watchlist.py`, `ensure_stock` | every handler from its first read to its COMMIT (`Reorder` and `Patch` end in the same `CommitPlace`); unique indexes and foreign keys decide late; only changed columns are written. The first sync of an entry is a caller of `PriceSync`, which assumes nothing of it: nobody need ever enqueue it |
| `ReportCache` | `services/analysis_service.py` | `run_batch` and `run_overview`: contexts, batches, row by row commits, the lock per process and market with its queue of waiters (given back on every way out, and by a death), lookup, call, store |
| `DayRows` | `services/prediction_service.py`, `run_news_research` of `services/news_service.py` | statements of `get_predictions` apart, one COMMIT for both horizons, the loser of the unique rows reads the winner's; research looked up, written by the model, inserted or, when forced, written over |
| `JobCentre` | `components/job-center.tsx` and the job calls of `lib/api.ts` | composed with `JobLifecycle` (`Server`): the tab relies on nothing but what the queue has been shown to implement |
| `Calculations` | `_affordable_qty`, `_size_buy` and its loop, `_replay`, `equity_curve`, the backtest, the assignment of batch answers to stocks | functions; a behaviour is one input and its output |

History variables: `failures` and `cookie` (LoginSessions) say what the throttle and the
session table should know; `triggered`, `posts` and `heard` (AlertOutbox) what runs did and what
the webhook answered; `passed` and `tangled` (PriceSync) delimit what the code guarantees about
indicators: nothing once a third sync has begun beside two that overlap, midnight has fallen into a
download, or the source has corrected a price between two overlapping downloads; `bandsShown` and `outdated` (DayRows) what readers were answered.

Abstracted: passwords, CSRF and proxy headers; whether a condition of an alert is met (arbitrary
at each look); prices (the number of times the source has published or corrected them);
indicators (the prices they were computed from); prompts (the version of the data they
were made from: equal hash means equal version); the sort order of watchlist entries. In
`Calculations` money is whole, the fee and slippage rates are coarse, so that leaving one out
shows, and of the backtest its warm-up, drawdown, Sharpe ratio and rounding of results are left
out.

## 6. What the runs show

Runs that pass (bounds are in the `.cfg` files). Deadlock is checked in all but `services`: a
worker loop always has a step, a trading flow can always begin, time always passes. In
`services` a calculation ends with its output.

| Run | Instance | Shows |
|---|---|---|
| `jobs_single` | 1 worker, 1 caller, 1 retrier, 2 rows, crash, fault, stall, fairness | the deployed configuration: the queue implements `JobLifecycle`; `AttemptsWithinMax`, `RunningIsRecoverable`, `TypeOK`, and `EveryJobSettles` |
| `jobs_multi` | 2 workers, 1 caller, 1 retrier, 2 rows, 1 key, crash, stall | what survives stale writes of two processes: `TerminalIsPurgeable`, `SucceededMeansDone`, `RetryNeverConflicts`; and `ExclusiveExecution`, `NoRepeatedWork` as long as nothing stalled, crashed or failed |
| `sim_solo` | 1 trader, 2 stocks, 4 orders, an abort | `CashMatchesOrders`, `NeverOversold`, `NeverAddedTo`, `TypeOK` |
| `sim_workers` | 2 traders, 1 stock, 4 orders | `OnePendingPerStock`, `CashNeverNegative`, `SettledIsFinal`, `ExitLeavesNothingPending` while two flows overlap (an HTTP `:fill` is a flow like the worker's) |
| `sim_morning` | 1 trader in the sentinel, 1 filler, 3 stocks, an order left in `filling`, fairness | `FlowsEnd`: lock cycles occur and are resolved; `OrdersSettle`: every order with a price, or stuck in `filling`, is filled or rejected |
| `ai_day` | 1 stock of news, 1 other caller with a chain of 2 models, limits of 1 request a minute and a day, a day of 3 ticks with a cleanup after 2, a death, fairness | `WithinDay`: the rows of a day stay within its limit and no request under way loses its reservation; `WithinMinute`: the provider takes on no more than the limit; `NewsTypeOK`: no empty answer, every stock accounted for once; `CallsEnd`, `QuotaComesBack` |
| `services` | the eight modules of section 5 | see below |

`services`:

| Story | Instance | Properties |
|---|---|---|
| login | 2 clients, 2 handlers, 2 cookies, limit of 2 failures in a window of 2 ticks | `LoginsHold`: one owner, an exact throttle, bounded overshoot of parallel logins, cookies that work exactly as long as they should |
| alerts | 2 alerts, 2 overlapping runs, batches of 1, give-up after 2, a crash | `OutboxHonest`: once a day, sent was heard, failed was tried; `EventsSettle` |
| sync | 2 stocks of which the source fails for one, the daily job and one other caller, 3 days with a window that reaches back 1, a correction, a fault | `SyncConverges`, `IndicatorsFollow` |
| watchlist | 1 stock, 2 markets, 2 groups, 1 name, 2 overlapping requests; renames and reorders of several entries are left to the proofs | `TablesAgree`, `OnlyPatchDecides` |
| reports | 3 stocks (one too short to analyse, the others in one call), 2 runs of one process, 2 versions of the data | `CachesHold` (`NeverPaysForStored`: nobody pays for the stored briefing again unless forced), `EveryRunEnds` |
| rows | 2 readers, 2 days, 3 versions of the data | `CachesHold` (`DayAnswersAgree`: one set of bands per trading day, research never of an earlier day) |
| centre | 1 run with 2 attempts, 2 overlapping polls and a retry, a lost request, reload or second start | `CentreCatchesUp` |
| calculation | all inputs within `Inputs` | `AccountAddsUp`, `BacktestHonest`, `EachItsOwnReport` |

Why the bounds are enough: two rows let one job be executed while another of the same key is
queued, requeued or retried; limits of one and two attempts make both the requeue and the
last attempt happen; the windows between a read and a write involve at most two processes and
one crash or stall; a cash change is lost with two flows, and a lock cycle needs two rows and
the account. `sim_morning` starts on the morning after a decision run (`AfterDecision` in
`MCSimTrading`), since a cycle needs a position, a pending sell and two pending buys, too deep
for a search from the empty account. With a limit of one request per minute every second
request meets a full window, and two models are enough for a call to go on to the next; the
minute and the day are longer than a request may take, so that reservations age out of both in
flight, and the day is longer than the age at which the cleanup takes reservations. With one request
a minute the window of the minute is full before tokens count, so refusals for tokens (`"tpm"`)
occur in no run; the theorems include them. A failure of one client sweeps another's with two clients and a threshold of one. Two
runs of alerts, syncs, requests or briefings are what a stale read needs; batches of one make
events wait behind older ones; three days with a window of two let an older price be put back where
no later window reaches, and one correction gives the lookback something to find and a download
something to miss. One stock leaves reorderings of several entries to the theorems. The searches of `Calculations` take purses in which the fee
decides (just enough for the gross amount but not for the fee, the floor of the fee and
above), histories of three fills and four days of trading, the shortest in which a position
is opened, closed and opened again.

Symmetry is used only in runs without temporal properties under fairness.

Fairness. Job queue: the loop is one task that always continues (WF on its steps); a sweep is
due every 30 s, so it is taken again and again (SF on `SweepRead`); a dispatcher ends, even if
heartbeats interleave (SF). That a dispatcher ends is an assumption: the code sets no timeout
around it. Leases and backoffs end because time passes. Trading: a flow in progress goes on
(PostgreSQL queues those who wait for a lock: SF), deadlocks are detected (WF), and the
matching is begun again and again (SF on `BeginFill`: the scheduler starts it every trading
day). AI: a coroutine is resumed, a request is answered or times out (its timeout is the HTTP
client's), time passes, maintenance runs daily. Services: the daily job, the runs of alerts and
the timer of the job centre come again and again, every await ends with an answer or an
exception; nothing is assumed of users, of the source of prices beyond answering for the stocks
it has, or, in `CentreCatchesUp`, of the queue.

Every property of a passing run has a mutant: the same definition with a plausible slip, kept
beside the original in the module and marked `Mutant`, under which the run must fail.

## 7. What is proved

`JobQueueProofs.tla` proves, for any numbers of rows, keys, workers, callers and retriers and
for every value of the bounds on crashes, faults and stalls, from `ConstantsAssumption` alone:

- `TypeCorrect`: `Spec => []TypeOK`.
- `SessionsCorrect`: `Spec => []SessionInv`, the inductive invariant of the other three.
- `TerminalRowsPurgeable`, `SuccessIsEarned`, `RetriesNeverConflict`.

`TerminalIsPurgeable`, `SucceededMeansDone` and `RetryNeverConflicts` are not inductive: every
one depends on what an open session will write. `SessionInv` says what the sessions know:
rows loaded by a sweep were running; a finisher that saw no exception has its job in `done`;
a retrier loaded a failed row, and what it writes has no key, so it cannot enter the index;
no two active rows share a key, so no commit of a sweep or a finisher that keeps keys and
only requeues can be turned into a success. A step is then checked row by row: lemmas
`SweptRow` and `FinishedRow` say what a commit from an old read may do to a row, and there is one
step per action.

The second half is about who is running. Under `Alone` (one worker process and no two manual
retries at once, any number of callers):

- `SoloCorrect`: `Spec => []SoloInv`, the inductive invariant of the next three.
- `AttemptsAreBounded`, `RunningRowsAreRecoverable`: `AttemptsWithinMax` and
  `RunningIsRecoverable` always.
- `QueueImplementsLifecycle`: `Spec => ImplementsLifecycle`. The initial states map to the
  abstract one, and of every action it is shown which step of `JobLifecycle` it is, or that it
  stutters.

`SoloInv` says that what the worker and a retry have loaded is still what the table holds when
they write (but for the lease, which the heartbeat moves), and that a row tells a consistent
story of itself (`RowOK`: who is queued has an attempt left, who runs has a lease, who failed has
spent all attempts). `Alone` cannot be left out: with two worker processes the run
`jobs_multi_attempts` exceeds the attempts, and of two retries that overlap the second grants an
attempt on top of a row the first has already queued.

Under `OneRetry` alone, for any number of worker processes:

- `CalmCorrect`: `Spec => []CalmInv`.
- `ExecutionIsExclusive`, `WorkIsNotRepeated`: `ExclusiveExecution`, and the action property
  `NoRepeatedWork`.

Both properties speak of the time before the first stall, crash or fault (`Undisturbed`), and so
does `CalmInv`: until then a running row has exactly one holder, its lease is live, its heartbeat
works, no sweep has found anything, and completed work is recorded or its holder about to record it.

`SimTradingProofs.tla` proves, for any numbers of orders, stocks, workers and HTTP threads and
any prices, from `TradingAssumption` alone:

- `TypesCorrect`: `Spec => []TypeOK`.
- `CashStaysPositive`, `PendingIsUnique`: `CashNeverNegative` and `OnePendingPerStock` always.
- `SettledOrdersStay`, `ExitIsAlone`: the action properties `SettledIsFinal` and
  `ExitLeavesNothingPending`.

They follow from one inductive invariant, `TradingInv` (`TradingCorrect`). Its core is
`LockInv`: what a transaction has written lies over a row that is pending in the table and
written by no other transaction. A row can therefore not be settled behind the back of a
transaction that has claimed it, and a commit settles only rows it has locked. `SessionsOK`
adds what sessions know at each place: no writes outside the matching and the exit, a positive
position behind every exit, drafts of distinct stocks that are not weighed again, and cash
that is not negative, which is what makes lost updates harmless to the sign of the cash.
`TableInv` says that ids not yet given are absent and that a pending order has a stock and a
quantity. The proof splits `Next` into the steps that leave the table alone (`SessionStep`,
`QuietStep`, `ResetStep`: three ways a session may move) and the four that commit to it
(`TableStep`), of which `RecoverStep`, `CommitStep`, `ExitStep` and `DecideStep` say which rows
change and from what.

`CashNeverNegative` needs the assumption that no fee exceeds the price of one share, which
stands for the minimum order value (section 3).

The second half of the module is about one flow at a time, `Alone`: one worker process, whose
dispatcher runs its jobs one after another, and no HTTP `:fill` beside it. Under it:

- `SoloCorrect`: `Spec => []SoloInv`, the inductive invariant of the next three.
- `BooksBalance`, `NothingOversold`: `CashMatchesOrders` and `NeverOversold` always.
- `NothingAddedTo`: the action property `NeverAddedTo`.

`SoloInv` says what the one session knows. Its cash is the stored one until it fills something, then
the ledger of the table *with its own uncommitted writes in* (`KnowsCash`); its positions are those of
the same view (`KnowsPositions`). A fill moves both by what the row pays and the shares it moves
(`OneFill`), so that the commit, which turns the view into the table, finds them equal. `BuysOnNothing`
(a stock with a pending buy is not held) is what a decision establishes and a fill of another stock
cannot disturb, because the unique index allows no second order of the stock. `Alone` cannot be left
out: the runs `sim_lost_update` and `sim_oversell` violate both properties with a `:fill` beside the worker.
Cash and positions are sums over the orders; the laws of a sum over a finite set (`SumChanges`,
`SumOfZeros`) are proved in the module, as for `AiCallsProofs` below.

`WatchlistProofs.tla` proves, for any numbers of stocks, groups, names and overlapping requests,
from `WatchAssumption` alone:

- `WatchlistCorrect`: `WatchSpec => []WatchInv`, the inductive invariant.
- `WatchTablesAgree`: `TablesAgree` always; `PatchDecides`: the action property `OnlyPatchDecides`.

`TablesAgree` is not inductive because a commit writes what a request loaded in an earlier
transaction. `WatchInv` adds what such a request knows: the group it will place an entry in
was loaded with the market of the entry, a rename keeps the market of the group it loaded, and
an id once given is never given again, so what was loaded cannot have become another row.

`WatchTypesKept` (`WatchSpec => []WatchTypeOK`) needs an invariant of its own, `WatchTypes`: a request
that goes on with a stock has found it listed, and what it will write is of the columns' types, although
the rows it read may have gone.

The same module proves, for any numbers of alerts, days, overlapping runs and crashes, from
`AlertAssumption` alone, `OutboxIsHonest`: `AlertSpec => []OutboxHonest`. `AlertInv`
(`AlertCorrect`) adds what a run knows after its await: the counts it will write are of requests
that were made, and one more than it had read.

`LoginProofs.tla` proves, for any numbers of clients, handlers and cookies and any limits, from
`LoginAssumption` alone, `LoginsAreRight`: `LoginSpec => []LoginsHold`. `LoginInv` (`LoginCorrect`)
adds that the deques of the throttle run from old to new, so that trimming stops at the right
place (`TrimStops`) and what is left is the history of the window; that every handler past its
look has a place in the count of its client (`RoomLeft`), which bounds the overshoot; and that
a cookie has left what its row has left.

`SyncProofs.tla` proves, for any numbers of stocks, callers, days, versions and faults and any
lookback, from `SyncAssumption` alone, `IndicatorsAreCurrent`: `SyncSpec => []IndicatorsFollow`.
`SyncInv` (`SyncCorrect`) says why two syncs of a stock do no harm as long as `tangled` is false:
a sync beside which nobody has committed sees the stored prices as they are (`Undisturbed`); two
that overlap were told the same prices, so that what one will write contains what the other will
write (`Pair`), and the two meet at a row lock, or the loser at a unique index, before either has
computed indicators. Therefore the rows a session has compared and does not read again are still
those of the table when it computes from them (`Current`). Without the condition on corrected
prices this is false (section 9).

`PricesGoForward` is an action property that no run checks: a stored price is replaced by an older one only
by a sync that another sync of its stock has overtaken, between its download and its commit. Its invariant,
`BringsNewer`, says that what any other sync carries is not older than what is stored. That the overtaken sync
does bring back the older price is what the code does (section 9).

`CalculationsProofs.tla` proves what the program computes, from `CalcAssumption` alone. Five theorems
are about all inputs, not only those within the bounds of the run:

- `SearchFinds`: the binary search of `_affordable_qty` ends at the largest quantity whose price and fee
  the cash pays. The fee has a floor and is rounded, so this needs that what is to be paid never falls with
  the quantity (`FeeGrows`); one step of the search keeps the largest payable quantity between its bounds
  and halves what is between them, and there are as many rounds as quantities.
- `BuysKeep`: whatever the prices and however many, the orders of a run keep to a fifth of the equity each
  and leave a tenth of it in cash, up to half a unit per order in the US market.
- `ReplayAddsUp`: for every history that is never short, what sales book as profit they take from the cost, so
  replay and equity curve tell one story.
- `SamePast`: what a backtest does on a day depends on the verdicts before it alone.
- `OwnReports`: for every batch, answer and repair, a stock gets a valid report of its own symbol or none, and
  gets one if the answer holds one. The fall-back on the order of the reports is harmless because the reports
  are in the order of the batch (`ReportsFit`): if none is missing, the i-th is that of the i-th stock.

From them follow the properties of the run, `AccountsAddUp`, `BacktestsHonest` and `ReportsMatch`, for any
fees, prices, purses and numbers of days. That the trades explain the curve (`TradesExplainEquity`) is an
induction over the days: cash, or units held times the price of the entry, is always the product of the net
results of the closed trades (`Explained`). The loops of the program are recursive functions, and what such
a definition denotes is a CHOOSE; `Recursion` proves once that a function with the equation exists, has the
type wanted and is the only one that follows the same steps, and `CountTo` carries a fact from one round to the next.

`ServicesProofs.tla` extends `MCServices` and the modules of theorems of its parts. Of the caches it
proves:

- `LockCorrect`: `CacheSpec => []LockInv`. Whoever is in the protected part of `run_overview` is
  the first of the queue of its process, the others wait, nobody is in it twice or forgotten.
- `BriefingPaidOnce`: `NeverPaysForStored` always, under `OneProcess` (all runs have one home).
  The backend is started as one process (`src/backend/Dockerfile:28`, `src/render.yaml:13`, uvicorn without
  `--workers`); with two it is false (section 9).
- `DayAnswersAlwaysAgree`: `RowsSpec => []DayAnswersAgree`, for any readers, days and versions.
- `CachesAlwaysHold`: `Spec => []CachesHold`, both for the specification the run checks.

Of the job centre, `CentreForgetsNothing`: `CentreSpec => NothingForgotten`, an action property that no run checks.
However polls overlap and however late their answers are applied, a run leaves the list only when its work
has been done or when it was shown as failed. What is answered stays true of the work (`TruthTold`), because the
queue of `JobLifecycle` reports success only of completed work.

and of all services side by side, each step of the composition being a step of every service or leaving
it alone (`EachSteps`):

- `ServicesTyped`: `Spec => []ServicesTypeOK`.
- `ServicesSafe`: all other invariants of the run `services`, and its action property, hold of the
  composition for every value of the constants (under `OneProcess`, which only the briefing needs).

`AiCallsProofs.tla` proves, for any finite set of callers, any models, chains, limits and bounds,
from `CallsAssumption` and `NewsAssumption`:

- `NewsCorrect`: `NewsSpec => []NewsInv`, the invariant of calls (`CallsInv`) and of the loop.
- `NewsTypesHold`, `DayIsKept`: `NewsTypeOK` and `WithinDay` always.
- `MinuteIsKept`: `WithinMinute` always, if `Slack <= Minute` (a transaction lives no longer than
  the window it counts in; with more slack there is no window left to speak of).

The limits are sums over a table of ages, so the invariant has to say who holds what: a request under
way holds a reservation that is at most `Slack` older (`Sent`), everybody else holds none
(`Free`), nobody waits with a transaction open (`Acting`), and what the provider has served is
known to the log or to the reservations of the dead, with `Slack` to spare (`Known`). The sums
are a recursive function, and its laws (a row more, a tick later) are proved by counting up
the set of lengths for which they hold (`CountUp`), which follows from the well-foundedness of
the naturals.

Model-checked only. Liveness, because the prover does not handle ENABLED: `EveryJobSettles`,
`OrdersSettle`, `FlowsEnd`, `CallsEnd`, `QuotaComesBack`, `EventsSettle`, `SyncConverges`,
`EveryRunEnds`, `CentreCatchesUp`. Every invariant and every action property that a
passing run checks is proved, with the hypotheses named above (`Alone`, `OneRetry`, `OneProcess`,
`Slack <= Minute`).

## 8. Disagreements

Five runs find a counterexample on purpose; each states what the repository says of itself.

| Run | Says | Does |
|---|---|---|
| `jobs_multi_attempts` | `job_service.py:340`: safe to run in multiple processes | the sweep writes from an unlocked read, so a job is started beyond `max_attempts` |
| `jobs_enqueue_race` | `scheduler/jobs.py:332`: the key absorbs collisions | the second SELECT raises when the other job has just ended |
| `sim_oversell` | `sim/sentinel.py:6`: safe under concurrency by the pending index | positions are read before an await; `:fill` may sell them meanwhile |
| `sim_lost_update` | `models/simulation.py:20`: everything derives from replaying orders | two flows write absolute cash from the same reading |
| `news_quota` | `scheduler/jobs.py:136`: a full minute is waited for, a used-up day ends the loop | the router turns quota errors into `UpstreamError` (`providers/ai/router.py:121`): a repair that finds the minute full makes the stock count as failed |

The two of the account need a manual `:fill` during a flow of the worker, or a second worker
process; the first needs a second worker process.

## 9. Known limits of the program

What the models show the code does not promise, and no text of the repository says it does:

- The lock around a briefing is one process's: runs of two processes may both pay for the same
  briefing, and the later one overwrites the earlier. `services` has one process; with two
  `Homes`, `NeverPaysForStored` does not hold.
- Indicators may stay behind the prices when three syncs of one stock overlap, when midnight
  falls into a download beside another sync, or when the source corrects a price between the
  downloads of two that overlap, until a price changes again (`tangled`). In the last case the sync that
  was told the older price finds nothing to write for that day, lets the other commit the corrected
  one, and computes from the row it had loaded before (`services/sync_service.py:79`, `:149`).
- A sync that is overtaken by another one of its stock between download and commit writes back what it had
  downloaded, because rows have no version (`PricesGoForward`). The next sync whose window covers the day corrects it; if
  the other sync had brought a newer day, the window may have moved on, and a day just behind it keeps
  the older price for good. `Fits`, what `SyncConverges` promises, excepts these days.
- The daily limit bounds the rows that are counted, not what the provider has served: the cleanup
  forgets the requests of dead processes, a request cancelled in flight gives its quota back (the
  docstring of `cancel_quota`, `core/rate_limiter.py:193`, speaks of requests never sent), and the row of a
  request whose transaction began before midnight is yesterday's.
- The throttle of logins is in memory: a restart forgets all failures, and in one window parallel
  logins may fail once more per handler than the limit.
- Two deliverers may send one event twice, and overlapping counts make attempts fewer than requests.
- Rounding US quantities to the nearest hundredth may exceed the limit per stock and the cash
  reserve by half a unit per order (`LimitsKept` states exactly that).
- Two manual retries of one job that overlap both find it failed, and each grants it an attempt.
- Ids of rows are never given twice on PostgreSQL, whose sequences do not go back. The models
  rely on it; SQLite, which tests use, may give the id of a deleted last row again.
- The limit of a minute is kept in a window shorter by the time a transaction waited for the
  advisory lock (`Slack`): `created_at` is the start of the transaction, not of the request.
- A dispatcher without a timeout holds its worker as long as it hangs.

## 10. What is not modelled

- ETF premium snapshots: one upsert per key from one download, in a job its key keeps alone.
- The regression behind the bands of `DayRows`, which is real arithmetic.
- Market context and market data providers: HTTP clients and parsing; the models take whatever
  they return.
- Dashboard, comparison, health, the pages of the frontend and the statistics of the simulation
  page: read-only views.
- Creating an account and its switches; the deletion of old usage rows, which count for no limit.
- Prompts, schemas, charts, formatting, logging; amounts of tokens (where rows of the
  minute have used tokens, the limit may refuse); floating-point effects (amounts are whole units or fractions).
- Backup and deployment scripts, migrations: no run-time state of the program.
- Durations are abstracted to their order, except in `AiCalls` and `LoginSessions`, which count
  ticks.

Within modules, left out or widened where no property tells the difference:

- `Claim` orders by id, which follows `created_at`; `SKIP LOCKED` may pass over one ready row for each
  other worker that is claiming. `EnqueueRead` always has an idempotency key: every caller in `app/` passes one.
- `Matched` takes symbols as `_norm_symbol` leaves them: `_normalize_symbol` of `gemini.py` has already done
  the same to every report that reaches it. `Replayed` leaves out the rounding of quantities to four places.
- Several briefing runs of one process meet at the lock in `ReportCache`, although its worker runs
  one job at a time.
- `DayRows`, `PriceSync` and `ReportCache` are started at any moment; the calendar and the cron
  triggers are not looked at.

## 11. Plan

The modules are complete as far as the code carries them. Every invariant and every action property a passing run
checks is proved. What would still say something new:

1. A version of `QueueImplementsLifecycle` for overlapping retries, against an abstract queue that may grant
   an attempt more than once for one failure.
2. The decision of the AI flow over prices that a sync commits while it gathers them
   (`sim/decision.py:55`), which composes `SimTrading` and `PriceSync`.
