------------------------------- MODULE JobQueue -------------------------------
(***************************************************************************)
(* The database-backed job queue of backend/app/services/job_service.py:   *)
(* the rows of table job_runs, the worker loops that sweep, claim, execute *)
(* and finish them, the HTTP and scheduler threads that enqueue and retry, *)
(* and the maintenance job that deletes old rows.                          *)
(*                                                                         *)
(* Grain.  One action is one database statement or one commit.  A handler  *)
(* that SELECTs a row, decides, and commits an UPDATE by primary key is two *)
(* actions, because PostgreSQL runs at READ COMMITTED and no such handler  *)
(* locks the row it read; only the claim does (FOR UPDATE SKIP LOCKED) and *)
(* is one action.  The ORM writes back only the columns whose value differs *)
(* from the value it loaded: operator Flush.                               *)
(*                                                                         *)
(* Time.  A lease is "live" until it lapses, a backoff "waiting" until it  *)
(* is "due".  A lease that somebody renews lapses only in a stall (a       *)
(* heartbeat later than the lease); every other lease lapses by itself.    *)
(***************************************************************************)
EXTENDS Integers, FiniteSets

CONSTANTS
  MaxJobs,        \* rows ever inserted; ids are 1 .. MaxJobs in insertion order
  Keys, NoKey,    \* idempotency keys, and NULL
  AttemptLimits,  \* the max_attempts that callers of enqueue_job pass
  Workers,        \* processes running run_worker_loop
  Callers,        \* threads that call enqueue_job
  Retriers,       \* threads that call retry_job
  MaxCrashes, MaxFaults, MaxStalls, MaxRetries   \* bounds on the environment

ASSUME ConstantsAssumption ==
  /\ MaxJobs \in Nat
  /\ NoKey \notin Keys
  /\ AttemptLimits \subseteq Nat \ {0}
  /\ {MaxCrashes, MaxFaults, MaxStalls, MaxRetries} \subseteq Nat

Jobs == 1 .. MaxJobs
NoJob == 0

VARIABLES
  db,       \* [Jobs -> Row]: the committed rows of job_runs
  nextId,   \* the id the next INSERT takes
  wpc,      \* worker: where its loop stands
  job,      \* worker: the run_id it claimed
  seen,     \* worker: the rows its open session loaded (Absent: not loaded)
  beat,     \* worker: its heartbeat task
  raised,   \* worker: whether the dispatcher it awaited raised
  done,     \* jobs some dispatcher has completed (history)
  cpc, want,            \* enqueue_job: where the call stands, its key
  rpc, target, rseen,   \* retry_job: where the call stands, its run_id, the loaded row
  spent     \* how much of each environment bound is used

workerVars == <<wpc, job, seen, beat, raised>>
callerVars == <<cpc, want>>
retryVars == <<rpc, target, rseen>>
vars == <<db, nextId, workerVars, done, callerVars, retryVars, spent>>

-----------------------------------------------------------------------------
(* Rows *)

Active == {"queued", "running"}
Terminal == {"succeeded", "failed"}

Row == [idempotency_key  : Keys \cup {NoKey},
        status           : Active \cup Terminal \cup {"absent"},
        attempts         : Nat,
        max_attempts     : Nat,
        next_attempt_at  : {"none", "waiting", "due"},
        lease_expires_at : {"none", "live", "lapsed"},
        finished         : BOOLEAN]       \* finished_at is not NULL

Absent == [idempotency_key |-> NoKey, status |-> "absent",
           attempts |-> 0, max_attempts |-> 0, next_attempt_at |-> "none",
           lease_expires_at |-> "none", finished |-> FALSE]

NewRow(key, limit) ==
  [Absent EXCEPT !.idempotency_key = key, !.status = "queued",
                 !.max_attempts = limit]

ActiveWith(d, key) ==
  {j \in Jobs : d[j].status \in Active /\ d[j].idempotency_key = key}

\* Index uq_job_runs_active_idempotency: a commit that breaks it is rolled back.
UniqueActiveKeys(d) ==
  \A i, j \in Jobs :
    (/\ i # j
     /\ d[i].status \in Active /\ d[j].status \in Active
     /\ d[i].idempotency_key # NoKey)
      => d[i].idempotency_key # d[j].idempotency_key

Changed(current, old, new) == IF new # old THEN new ELSE current

\* UPDATE by primary key of the columns the session changed since it loaded the row.
Flush(current, old, new) ==
  [idempotency_key |-> Changed(current.idempotency_key,
                               old.idempotency_key, new.idempotency_key),
   status |-> Changed(current.status, old.status, new.status),
   attempts |-> current.attempts,
   max_attempts |-> Changed(current.max_attempts,
                            old.max_attempts, new.max_attempts),
   next_attempt_at |-> Changed(current.next_attempt_at,
                               old.next_attempt_at, new.next_attempt_at),
   lease_expires_at |-> Changed(current.lease_expires_at,
                                old.lease_expires_at, new.lease_expires_at),
   finished |-> Changed(current.finished, old.finished, new.finished)]

\* finished_at is assigned from the clock, so it differs from every loaded value.
Stamped(row, new) ==
  IF new.status \in Terminal THEN [row EXCEPT !.finished = TRUE] ELSE row

Spend(what, limit) ==
  /\ spent[what] < limit
  /\ spent' = [spent EXCEPT ![what] = @ + 1]

Init ==
  /\ db = [j \in Jobs |-> Absent]
  /\ nextId = 1
  /\ wpc = [w \in Workers |-> "loop"]
  /\ job = [w \in Workers |-> NoJob]
  /\ seen = [w \in Workers |-> [j \in Jobs |-> Absent]]
  /\ beat = [w \in Workers |-> "off"]
  /\ raised = [w \in Workers |-> FALSE]
  /\ done = {}
  /\ cpc = [c \in Callers |-> "idle"]
  /\ want = [c \in Callers |-> NoKey]
  /\ rpc = [r \in Retriers |-> "idle"]
  /\ target = [r \in Retriers |-> NoJob]
  /\ rseen = [r \in Retriers |-> Absent]
  /\ spent = [crash |-> 0, fault |-> 0, stall |-> 0, retry |-> 0]

-----------------------------------------------------------------------------
(* The worker loop: sweep when due, claim, execute, finish *)

\* The iteration is over (or the process restarted): its locals are gone.
Forget(w) ==
  /\ wpc' = [wpc EXCEPT ![w] = "loop"]
  /\ job' = [job EXCEPT ![w] = NoJob]
  /\ seen' = [seen EXCEPT ![w] = [j \in Jobs |-> Absent]]
  /\ beat' = [beat EXCEPT ![w] = "off"]
  /\ raised' = [raised EXCEPT ![w] = FALSE]

Goto(w, place) ==
  /\ wpc' = [wpc EXCEPT ![w] = place]
  /\ UNCHANGED <<job, seen, beat, raised>>

othersThanWorkers == <<nextId, callerVars, retryVars>>

SkipSweep(w) ==
  /\ wpc[w] = "loop"
  /\ Goto(w, "poll")
  /\ UNCHANGED <<db, done, spent, othersThanWorkers>>

Stale(row) == row.status = "running" /\ row.lease_expires_at = "lapsed"

\* Mutant: forgets the comparison with max_attempts.
RecoveredForever(row) ==
  [row EXCEPT !.lease_expires_at = "none", !.status = "queued"]

\* Mutant: clears the lease but not the status.
RecoveredKeepingStatus(row) == [row EXCEPT !.lease_expires_at = "none"]

\* Mutant: writes a status no reader of the table knows.
RecoveredAsStale(row) ==
  [row EXCEPT !.lease_expires_at = "none", !.status = "stale"]

Recovered(row) ==
  IF row.attempts < row.max_attempts
  THEN [row EXCEPT !.lease_expires_at = "none", !.status = "queued"]
  ELSE [row EXCEPT !.lease_expires_at = "none", !.status = "failed",
                   !.finished = TRUE]

SweepRead(w) ==
  /\ wpc[w] = "loop"
  /\ IF \E j \in Jobs : Stale(db[j])
     THEN /\ wpc' = [wpc EXCEPT ![w] = "sweeping"]
          /\ seen' = [seen EXCEPT ![w] =
                        [j \in Jobs |-> IF Stale(db[j]) THEN db[j] ELSE Absent]]
          /\ UNCHANGED <<job, beat, raised>>
     ELSE Goto(w, "poll")
  /\ UNCHANGED <<db, done, spent, othersThanWorkers>>

\* The requeued (or failed) row is written whatever happened to it since it was read.
Swept(d, loaded) ==
  [j \in Jobs |->
     IF loaded[j].status = "absent" THEN d[j]
     ELSE LET new == Recovered(loaded[j])
          IN  Stamped(Flush(d[j], loaded[j], new), new)]

\* One row deleted meanwhile (StaleDataError) or one key taken (IntegrityError) rolls
\* back the whole sweep.
SweepCommits(d, loaded) ==
  /\ \A j \in Jobs : loaded[j].status # "absent" => d[j].status # "absent"
  /\ UniqueActiveKeys(Swept(d, loaded))

SweepWrite(w) ==
  /\ wpc[w] = "sweeping"
  /\ IF SweepCommits(db, seen[w])
     THEN /\ db' = Swept(db, seen[w])
          /\ wpc' = [wpc EXCEPT ![w] = "poll"]
          /\ seen' = [seen EXCEPT ![w] = [j \in Jobs |-> Absent]]
          /\ UNCHANGED <<job, beat, raised>>
     ELSE db' = db /\ Forget(w)
  /\ UNCHANGED <<done, spent, othersThanWorkers>>

Ready(row) == row.status = "queued" /\ row.next_attempt_at # "waiting"

\* Mutant: grants no lease.
ClaimedWithoutLease(row) ==
  [row EXCEPT !.status = "running", !.attempts = @ + 1,
              !.next_attempt_at = "none", !.finished = FALSE]

Claimed(row) ==
  [row EXCEPT !.status = "running", !.attempts = @ + 1, !.finished = FALSE,
              !.next_attempt_at = "none", !.lease_expires_at = "live"]

\* Mutant: a claim whose SELECT does not lock sees a row another worker has taken.
ClaimUnlocked(w) ==
  /\ wpc[w] = "poll"
  /\ \E j \in Jobs :
       /\ db[j].status \in Active /\ db[j].next_attempt_at # "waiting"
       /\ db' = [db EXCEPT ![j] = Claimed(db[j])]
       /\ job' = [job EXCEPT ![w] = j]
  /\ wpc' = [wpc EXCEPT ![w] = "claimed"]
  /\ UNCHANGED <<seen, beat, raised, done, spent, othersThanWorkers>>

\* SKIP LOCKED passes over the rows that other workers are claiming, one each.
MaySkip(w, rows) == Cardinality(rows) <= Cardinality({v \in Workers \ {w} : wpc[v] = "poll"})

\* ORDER BY created_at, id: the oldest ready row that is not skipped.
Claim(w) ==
  /\ wpc[w] = "poll"
  /\ \E j \in Jobs :
       /\ Ready(db[j])
       /\ MaySkip(w, {i \in Jobs : Ready(db[i]) /\ i < j})
       /\ db' = [db EXCEPT ![j] = Claimed(db[j])]
       /\ job' = [job EXCEPT ![w] = j]
  /\ wpc' = [wpc EXCEPT ![w] = "claimed"]
  /\ UNCHANGED <<seen, beat, raised, done, spent, othersThanWorkers>>

NothingToClaim(w) ==
  /\ wpc[w] = "poll"
  /\ MaySkip(w, {j \in Jobs : Ready(db[j])})
  /\ Goto(w, "loop")
  /\ UNCHANGED <<db, done, spent, othersThanWorkers>>

\* execute_claimed_job re-reads the row; JobStateError or NotFoundError ends the round.
ExecuteStart(w) ==
  /\ wpc[w] = "claimed"
  /\ IF db[job[w]].status = "running"
     THEN /\ wpc' = [wpc EXCEPT ![w] = "executing"]
          /\ beat' = [beat EXCEPT ![w] = "on"]
          /\ UNCHANGED <<job, seen, raised>>
     ELSE Forget(w)
  /\ UNCHANGED <<db, done, spent, othersThanWorkers>>

HeartbeatRead(w) ==
  /\ wpc[w] = "executing" /\ beat[w] = "on"
  /\ IF db[job[w]].status = "running"
     THEN Goto(w, "beating")
     ELSE /\ beat' = [beat EXCEPT ![w] = "ended"]
          /\ UNCHANGED <<wpc, job, seen, raised>>
  /\ UNCHANGED <<db, done, spent, othersThanWorkers>>

Renewed(row) == [row EXCEPT !.lease_expires_at = "live"]

\* heartbeat_at and lease_expires_at are new timestamps, so they are always written.
HeartbeatWrite(w) ==
  /\ wpc[w] = "beating"
  /\ wpc' = [wpc EXCEPT ![w] = "executing"]
  /\ IF db[job[w]].status = "absent"                       \* StaleDataError
     THEN beat' = [beat EXCEPT ![w] = "dead"] /\ db' = db
     ELSE db' = [db EXCEPT ![job[w]] = Renewed(@)] /\ beat' = beat
  /\ UNCHANGED <<job, seen, raised, done, spent, othersThanWorkers>>

\* Mutant: looks at the attempts before it looks at the outcome.
SucceededAtLastAttempt(row) ==
  IF row.attempts < row.max_attempts
  THEN [row EXCEPT !.lease_expires_at = "none", !.status = "queued"]
  ELSE [row EXCEPT !.lease_expires_at = "none", !.status = "succeeded",
                   !.finished = TRUE]

Succeeded(row) ==
  [row EXCEPT !.lease_expires_at = "none", !.status = "succeeded",
              !.finished = TRUE]

Failed(row) ==
  IF row.attempts < row.max_attempts
  THEN [row EXCEPT !.lease_expires_at = "none", !.status = "queued",
                   !.next_attempt_at = "waiting"]
  ELSE [row EXCEPT !.lease_expires_at = "none", !.status = "failed",
                   !.finished = TRUE]

\* Mutant: does not set finished_at.
FinishedUnstamped(current, loaded, isFailure) ==
  LET new == IF isFailure THEN Failed(loaded) ELSE Succeeded(loaded)
  IN  IF current.status = "absent" THEN current
      ELSE [Flush(current, loaded, new) EXCEPT !.finished = current.finished]

Finished(current, loaded, isFailure) ==
  LET new == IF isFailure THEN Failed(loaded) ELSE Succeeded(loaded)
      row == Stamped(Flush(current, loaded, new), new)
  IN  IF current.status = "absent" THEN current
      ELSE IF isFailure /\ new.status = "queued"
           THEN [row EXCEPT !.next_attempt_at = "waiting"]
           ELSE row

\* _finish_job opens its session: a deleted row ends the round, any other is loaded.
FinishRead(w, isFailure) ==
  IF db[job[w]].status = "absent"
  THEN Forget(w)
  ELSE /\ wpc' = [wpc EXCEPT ![w] = "finishing"]
       /\ seen' = [seen EXCEPT ![w][job[w]] = db[job[w]]]
       /\ raised' = [raised EXCEPT ![w] = isFailure]
       /\ beat' = [beat EXCEPT ![w] = "off"]
       /\ UNCHANGED job

\* Awaiting a heartbeat task that died re-raises its exception, so a result is dropped.
DispatcherReturns(w) ==
  /\ wpc[w] = "executing"
  /\ done' = done \cup {job[w]}
  /\ IF beat[w] = "dead" THEN Forget(w) ELSE FinishRead(w, FALSE)
  /\ UNCHANGED <<db, spent, othersThanWorkers>>

\* Mutant: a swallowed exception is reported as a result.
DispatcherRaisesUnnoticed(w) ==
  /\ wpc[w] = "executing"
  /\ FinishRead(w, FALSE)
  /\ UNCHANGED <<db, done, spent, othersThanWorkers>>

DispatcherRaises(w) ==
  /\ wpc[w] = "executing"
  /\ FinishRead(w, TRUE)
  /\ UNCHANGED <<db, done, spent, othersThanWorkers>>

FinishWrite(w) ==
  /\ wpc[w] = "finishing"
  /\ LET d == [db EXCEPT ![job[w]] = Finished(@, seen[w][job[w]], raised[w])]
     IN  db' = IF UniqueActiveKeys(d) THEN d ELSE db
  /\ Forget(w)
  /\ UNCHANGED <<done, spent, othersThanWorkers>>

-----------------------------------------------------------------------------
(* enqueue_job: SELECT, INSERT, and the second SELECT after a conflict *)

othersThanCallers == <<done, workerVars, retryVars, spent>>

\* A call that finds an active row with its key returns that id and changes nothing.
EnqueueRead(c) ==
  /\ cpc[c] = "idle"
  /\ \E key \in Keys :
       /\ ActiveWith(db, key) = {}
       /\ want' = [want EXCEPT ![c] = key]
  /\ cpc' = [cpc EXCEPT ![c] = "inserting"]
  /\ UNCHANGED <<db, nextId, othersThanCallers>>

EnqueueInsert(c) ==
  /\ cpc[c] = "inserting"
  /\ nextId \in Jobs
  /\ \E limit \in AttemptLimits :
       LET d == [db EXCEPT ![nextId] = NewRow(want[c], limit)] IN
       IF UniqueActiveKeys(d)
       THEN /\ db' = d
            /\ nextId' = nextId + 1
            /\ cpc' = [cpc EXCEPT ![c] = "idle"]
            /\ want' = [want EXCEPT ![c] = NoKey]
       ELSE /\ cpc' = [cpc EXCEPT ![c] = "reselecting"]
            /\ UNCHANGED <<db, nextId, want>>
  /\ UNCHANGED othersThanCallers

\* scalar_one() raises NoResultFound when the conflicting row has left the index.
EnqueueReselect(c) ==
  /\ cpc[c] = "reselecting"
  /\ IF ActiveWith(db, want[c]) # {}
     THEN /\ cpc' = [cpc EXCEPT ![c] = "idle"]
          /\ want' = [want EXCEPT ![c] = NoKey]
     ELSE /\ cpc' = [cpc EXCEPT ![c] = "raised"]
          /\ UNCHANGED want
  /\ UNCHANGED <<db, nextId, othersThanCallers>>

-----------------------------------------------------------------------------
(* retry_job *)

othersThanRetriers == <<nextId, done, workerVars, callerVars>>

\* Mutant: keeps the idempotency key.
RetriedWithKey(row) ==
  [row EXCEPT !.max_attempts = IF @ >= row.attempts + 1 THEN @
                               ELSE row.attempts + 1,
              !.status = "queued", !.finished = FALSE,
              !.lease_expires_at = "none", !.next_attempt_at = "none"]

\* Mutant: does not raise max_attempts.
RetriedWithoutAttempt(row) ==
  [row EXCEPT !.status = "queued", !.finished = FALSE,
              !.lease_expires_at = "none", !.next_attempt_at = "none",
              !.idempotency_key = NoKey]

Retried(row) ==
  [row EXCEPT !.max_attempts = IF @ >= row.attempts + 1 THEN @
                               ELSE row.attempts + 1,
              !.status = "queued", !.finished = FALSE,
              !.lease_expires_at = "none", !.next_attempt_at = "none",
              !.idempotency_key = NoKey]

\* A missing row (404) or one that is not failed (409) changes nothing.
RetryRead(r) ==
  /\ rpc[r] = "idle"
  /\ \E j \in Jobs :
       /\ db[j].status = "failed"
       /\ target' = [target EXCEPT ![r] = j]
       /\ rseen' = [rseen EXCEPT ![r] = db[j]]
  /\ rpc' = [rpc EXCEPT ![r] = "loaded"]
  /\ Spend("retry", MaxRetries)
  /\ UNCHANGED <<db, othersThanRetriers>>

RetryWrite(r) ==
  /\ rpc[r] = "loaded"
  /\ LET j == target[r]
         d == [db EXCEPT ![j] = Flush(@, rseen[r], Retried(rseen[r]))]
     IN  IF db[j].status # "absent" /\ UniqueActiveKeys(d)
         THEN db' = d /\ rpc' = [rpc EXCEPT ![r] = "idle"]
         ELSE /\ db' = db                      \* StaleDataError, IntegrityError
              /\ rpc' = [rpc EXCEPT ![r] = IF db[j].status = "absent"
                                           THEN "gone" ELSE "conflict"]
  /\ target' = [target EXCEPT ![r] = NoJob]
  /\ rseen' = [rseen EXCEPT ![r] = Absent]
  /\ UNCHANGED <<spent, othersThanRetriers>>

-----------------------------------------------------------------------------
(* Time, maintenance, crashes and database faults *)

environment == <<nextId, done, workerVars, callerVars, retryVars>>

Renewing(w, j) ==
  job[w] = j /\ (\/ wpc[w] \in {"claimed", "finishing"}
                 \/ wpc[w] \in {"executing", "beating"} /\ beat[w] = "on")

LapsedRow(row) == [row EXCEPT !.lease_expires_at = "lapsed"]

\* Nobody renews it: the holder crashed, dropped it, or its heartbeat task is gone.
LeaseLapse(j) ==
  /\ db[j].lease_expires_at = "live"
  /\ \A w \in Workers : ~Renewing(w, j)
  /\ db' = [db EXCEPT ![j] = LapsedRow(@)]
  /\ UNCHANGED <<spent, environment>>

\* The process stalls for longer than the lease while it holds the job.
Stall(j) ==
  /\ db[j].lease_expires_at = "live"
  /\ \E w \in Workers : Renewing(w, j)
  /\ db' = [db EXCEPT ![j] = LapsedRow(@)]
  /\ Spend("stall", MaxStalls)
  /\ UNCHANGED environment

BackoffElapses(j) ==
  /\ db[j].next_attempt_at = "waiting"
  /\ db' = [db EXCEPT ![j].next_attempt_at = "due"]
  /\ UNCHANGED <<spent, environment>>

\* cleanup_expired_records deletes a terminal row once its finished_at is old enough.
Purge(j) ==
  /\ db[j].status \in Terminal /\ db[j].finished
  /\ db' = [db EXCEPT ![j] = Absent]
  /\ UNCHANGED <<spent, environment>>

\* The process dies, or the lifespan cancels its worker task; it starts again.
Crash(w) ==
  /\ wpc[w] # "loop"
  /\ Forget(w)
  /\ Spend("crash", MaxCrashes)
  /\ UNCHANGED <<db, done, othersThanWorkers>>

\* A database exception reaches run_worker_loop, which logs it and starts a new round.
Fault(w) ==
  /\ wpc[w] \in {"sweeping", "claimed", "finishing"}
  /\ Forget(w)
  /\ Spend("fault", MaxFaults)
  /\ UNCHANGED <<db, done, othersThanWorkers>>

\* A database exception ends the heartbeat task; the dispatcher runs on without it.
HeartbeatFault(w) ==
  /\ wpc[w] \in {"executing", "beating"} /\ beat[w] = "on"
  /\ wpc' = [wpc EXCEPT ![w] = "executing"]
  /\ beat' = [beat EXCEPT ![w] = "dead"]
  /\ Spend("fault", MaxFaults)
  /\ UNCHANGED <<db, job, seen, raised, done, othersThanWorkers>>

-----------------------------------------------------------------------------
Worker(w) ==
  \/ SkipSweep(w) \/ SweepRead(w) \/ SweepWrite(w)
  \/ Claim(w) \/ NothingToClaim(w) \/ ExecuteStart(w)
  \/ HeartbeatRead(w) \/ HeartbeatWrite(w)
  \/ DispatcherReturns(w) \/ DispatcherRaises(w) \/ FinishWrite(w)
  \/ Crash(w) \/ Fault(w) \/ HeartbeatFault(w)

Caller(c) == EnqueueRead(c) \/ EnqueueInsert(c) \/ EnqueueReselect(c)

Retrier(r) == RetryRead(r) \/ RetryWrite(r)

Clock(j) == LeaseLapse(j) \/ Stall(j) \/ BackoffElapses(j) \/ Purge(j)

Next ==
  \/ \E w \in Workers : Worker(w)
  \/ \E c \in Callers : Caller(c)
  \/ \E r \in Retriers : Retrier(r)
  \/ \E j \in Jobs : Clock(j)

Spec == Init /\ [][Next]_vars

\* The loop keeps running, a sweep is due every STALE_SWEEP_SECONDS, every dispatcher
\* ends one way or the other, and time passes.
Fairness ==
  /\ \A w \in Workers :
       /\ SF_vars(SweepRead(w))
       /\ WF_vars(SkipSweep(w) \/ SweepRead(w))
       /\ WF_vars(SweepWrite(w) \/ Claim(w) \/ NothingToClaim(w) \/ ExecuteStart(w))
       /\ SF_vars(DispatcherReturns(w) \/ DispatcherRaises(w))
       /\ WF_vars(HeartbeatWrite(w) \/ FinishWrite(w))
  /\ \A j \in Jobs : WF_vars(LeaseLapse(j)) /\ WF_vars(BackoffElapses(j))

FairSpec == Spec /\ Fairness

-----------------------------------------------------------------------------
(* Properties *)

TableTypeOK ==
  /\ db \in [Jobs -> Row]
  /\ nextId \in 1 .. MaxJobs + 1
  /\ done \subseteq Jobs
  /\ spent \in [{"crash", "fault", "stall", "retry"} -> Nat]

HoldsJob == {"claimed", "executing", "beating", "finishing"}

WorkerTypeOK ==
  /\ wpc \in [Workers -> {"loop", "sweeping", "poll"} \cup HoldsJob]
  /\ job \in [Workers -> Jobs \cup {NoJob}]
  /\ \A w \in Workers : wpc[w] \in HoldsJob => job[w] \in Jobs
  /\ seen \in [Workers -> [Jobs -> Row]]
  /\ beat \in [Workers -> {"off", "on", "ended", "dead"}]
  /\ raised \in [Workers -> BOOLEAN]

CallerTypeOK ==
  /\ cpc \in [Callers -> {"idle", "inserting", "reselecting", "raised"}]
  /\ want \in [Callers -> Keys \cup {NoKey}]

RetrierTypeOK ==
  /\ rpc \in [Retriers -> {"idle", "loaded", "conflict", "gone"}]
  /\ target \in [Retriers -> Jobs \cup {NoJob}]
  /\ \A r \in Retriers : rpc[r] = "loaded" => target[r] \in Jobs
  /\ rseen \in [Retriers -> Row]

\* Every variable keeps its type; every committed row is a Row, and a process that
\* holds a job (or retries one) holds the id of a row of the table.
TypeOK == TableTypeOK /\ WorkerTypeOK /\ CallerTypeOK /\ RetrierTypeOK

\* No job is executed more often than its max_attempts allows, although the claim
\* itself never compares the two: it relies on every writer of "queued".
AttemptsWithinMax ==
  \A j \in Jobs : db[j].attempts <= db[j].max_attempts

\* A running row always has a lease, so that a sweep can find it if its worker is gone
\* (recover_stale_jobs skips rows whose lease_expires_at is NULL).
RunningIsRecoverable ==
  \A j \in Jobs : db[j].status = "running" => db[j].lease_expires_at # "none"

\* A terminal row has its finished_at, without which maintenance could never delete it.
TerminalIsPurgeable ==
  \A j \in Jobs : db[j].status \in Terminal => db[j].finished

\* A row says "succeeded" only if some dispatcher completed that very job, whatever
\* stale worker or sweep wrote the row.
SucceededMeansDone ==
  \A j \in Jobs : db[j].status = "succeeded" => j \in done

\* A manual retry never breaks the active-key index (the comment in retry_job): the key
\* may have been taken by a newer job at any moment, also while the retry is under way.
RetryNeverConflicts == \A r \in Retriers : rpc[r] # "conflict"

Executing(w) == wpc[w] \in {"executing", "beating", "finishing"}

Undisturbed == spent.stall = 0 /\ spent.crash = 0 /\ spent.fault = 0

\* As long as heartbeats come in time and nothing crashes, two workers never execute the
\* same job, nor two jobs queued under one key.
ExclusiveExecution ==
  \A v, w \in Workers :
    (Undisturbed /\ v # w /\ Executing(v) /\ Executing(w)) =>
      /\ job[v] # job[w]
      /\ \/ db[job[v]].idempotency_key = NoKey
         \/ db[job[v]].idempotency_key # db[job[w]].idempotency_key

\* Work whose dispatcher completed is not started again unless a stall or a crash kept
\* its completion from being recorded.
NoRepeatedWork ==
  [][\A w \in Workers :
       (Undisturbed /\ wpc[w] = "claimed" /\ wpc'[w] = "executing")
         => job[w] \notin done]_vars

\* enqueue_job always answers with a run id: a collision with an active job of the same
\* key is absorbed (docstring of _enqueue_scheduled).
EnqueueAlwaysAnswers == \A c \in Callers : cpc[c] # "raised"

\* The queue keeps the promise of JobLifecycle: a run's status, its remaining attempts
\* and its completed work move only as a poller of the run may expect.
Lifecycle ==
  INSTANCE JobLifecycle WITH
    status <- [j \in Jobs |-> IF db[j].status # "absent" THEN db[j].status
                              ELSE IF j < nextId THEN "gone" ELSE "unborn"],
    left   <- [j \in Jobs |-> db[j].max_attempts - db[j].attempts]

ImplementsLifecycle == Lifecycle!Spec

\* Every job that is queued or running settles, through crashes, faults and stalls.
EveryJobSettles ==
  \A j \in Jobs : (db[j].status \in Active) ~> (db[j].status \in Terminal)

=============================================================================
