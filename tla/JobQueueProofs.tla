---------------------------- MODULE JobQueueProofs ----------------------------
(***************************************************************************)
(* Theorems about JobQueue, for every number of rows, workers, callers and *)
(* retriers and every bound on the environment.  The second half is about  *)
(* hypotheses on who is running.  With one worker process, what the worker *)
(* and a manual retry have loaded is still what the table holds, so no     *)
(* attempt is lost or added, and the queue implements JobLifecycle.  With  *)
(* any number of workers, before the first stall, crash or fault, no job   *)
(* has two holders.                                                        *)
(***************************************************************************)
EXTENDS JobQueue, TLAPS

-----------------------------------------------------------------------------
(* What the operators on rows return *)

\* The row before any INSERT is a Row.
LEMMA AbsentType == Absent \in Row
  BY DEF Absent, Row

\* The row before any INSERT has no status a handler looks for.
LEMMA AbsentStatus == Absent.status = "absent"
  BY DEF Absent

\* Enqueuing makes a Row of a key and an attempt limit.
LEMMA NewRowType ==
  ASSUME NEW key \in Keys \cup {NoKey}, NEW limit \in Nat
  PROVE  NewRow(key, limit) \in Row
  BY DEF NewRow, Absent, Row, Active

\* Each assignment a handler makes to a loaded row gives a Row.
LEMMA AssignedType ==
  ASSUME NEW row \in Row
  PROVE  /\ Recovered(row) \in Row
         /\ Claimed(row) \in Row
         /\ Renewed(row) \in Row
         /\ Succeeded(row) \in Row
         /\ Failed(row) \in Row
         /\ Retried(row) \in Row
         /\ LapsedRow(row) \in Row
  <1>0. row.attempts \in Nat /\ row.attempts + 1 \in Nat
    BY DEF Row
  <1>1. Recovered(row) \in Row
    BY DEF Recovered, Row, Active, Terminal
  <1>2. Claimed(row) \in Row
    BY <1>0 DEF Claimed, Row, Active, Terminal
  <1>3. Renewed(row) \in Row /\ LapsedRow(row) \in Row
    BY DEF Renewed, LapsedRow, Row
  <1>4. Succeeded(row) \in Row
    BY DEF Succeeded, Row, Active, Terminal
  <1>5. Failed(row) \in Row
    BY DEF Failed, Row, Active, Terminal
  <1>6. Retried(row) \in Row
    BY <1>0 DEF Retried, Row, Active, Terminal
  <1>7. QED
    BY <1>1, <1>2, <1>3, <1>4, <1>5, <1>6

\* Writing back the changed columns of a row gives a Row.
LEMMA FlushType ==
  ASSUME NEW current \in Row, NEW old \in Row, NEW new \in Row
  PROVE  Flush(current, old, new) \in Row
  BY DEF Flush, Changed, Row

\* Stamping finished_at gives a Row.
LEMMA StampedType ==
  ASSUME NEW row \in Row, NEW new \in Row
  PROVE  Stamped(row, new) \in Row
  BY DEF Stamped, Row

\* What _finish_job commits is a Row.
LEMMA FinishedType ==
  ASSUME NEW current \in Row, NEW loaded \in Row, NEW isFailure \in BOOLEAN
  PROVE  Finished(current, loaded, isFailure) \in Row
  <1> DEFINE new == IF isFailure THEN Failed(loaded) ELSE Succeeded(loaded)
             row == Stamped(Flush(current, loaded, new), new)
  <1>1. new \in Row
    BY AssignedType
  <1>2. row \in Row
    BY <1>1, FlushType, StampedType
  <1>3. [row EXCEPT !.next_attempt_at = "waiting"] \in Row
    BY <1>2 DEF Row
  <1>4. QED
    BY <1>2, <1>3 DEF Finished

\* What a sweep commits is a table of Rows.
LEMMA SweptType ==
  ASSUME NEW d \in [Jobs -> Row], NEW loaded \in [Jobs -> Row]
  PROVE  Swept(d, loaded) \in [Jobs -> Row]
  <1>1. ASSUME NEW j \in Jobs
        PROVE  Stamped(Flush(d[j], loaded[j], Recovered(loaded[j])),
                       Recovered(loaded[j])) \in Row
    BY AssignedType, FlushType, StampedType
  <1>2. QED
    BY <1>1 DEF Swept

-----------------------------------------------------------------------------
(* Type correctness *)

\* The specification starts in a well-typed state.
LEMMA InitType == Init => TypeOK
  <1> SUFFICES ASSUME Init PROVE TypeOK
    OBVIOUS
  <1>1. TableTypeOK
    BY AbsentType, ConstantsAssumption DEF Init, TableTypeOK, Jobs
  <1>2. WorkerTypeOK
    BY AbsentType DEF Init, WorkerTypeOK, HoldsJob
  <1>3. CallerTypeOK /\ RetrierTypeOK
    BY AbsentType DEF Init, CallerTypeOK, RetrierTypeOK
  <1>4. QED
    BY <1>1, <1>2, <1>3 DEF TypeOK

\* A worker that ends its round is well typed.
LEMMA ForgetType ==
  ASSUME WorkerTypeOK, NEW w \in Workers, Forget(w)
  PROVE  WorkerTypeOK'
  BY AbsentType DEF WorkerTypeOK, Forget, HoldsJob

\* A worker that only moves on is well typed where it needs no job, or has one.
LEMMA GotoType ==
  ASSUME WorkerTypeOK, NEW w \in Workers,
         NEW place \in {"loop", "sweeping", "poll"} \cup HoldsJob,
         place \in HoldsJob => wpc[w] \in HoldsJob,
         Goto(w, place)
  PROVE  WorkerTypeOK'
  BY DEF WorkerTypeOK, Goto

\* Spending from a bound keeps the counters typed.
LEMMA SpendType ==
  ASSUME TableTypeOK, NEW what \in {"crash", "fault", "stall", "retry"},
         NEW limit, Spend(what, limit)
  PROVE  spent' \in [{"crash", "fault", "stall", "retry"} -> Nat]
  <1>1. spent[what] \in Nat
    BY DEF TableTypeOK
  <1>2. spent[what] + 1 \in Nat
    BY <1>1
  <1>3. QED
    BY <1>2 DEF TableTypeOK, Spend

\* Replacing one row by a Row keeps the table typed.
LEMMA UpdateType ==
  ASSUME TableTypeOK, NEW j \in Jobs, NEW row \in Row
  PROVE  [db EXCEPT ![j] = row] \in [Jobs -> Row]
  BY DEF TableTypeOK

\* Loading the row for _finish_job keeps the worker typed.
LEMMA FinishReadType ==
  ASSUME TypeOK, NEW w \in Workers, NEW isFailure \in BOOLEAN,
         wpc[w] \in HoldsJob, FinishRead(w, isFailure)
  PROVE  WorkerTypeOK'
  <1>1. job[w] \in Jobs /\ db[job[w]] \in Row
    BY DEF TypeOK, WorkerTypeOK, TableTypeOK
  <1>2. CASE db[job[w]].status = "absent"
    BY <1>2, ForgetType DEF FinishRead, TypeOK
  <1>3. CASE db[job[w]].status # "absent"
    <2>1. seen' \in [Workers -> [Jobs -> Row]]
      <3>1. [seen[w] EXCEPT ![job[w]] = db[job[w]]] \in [Jobs -> Row]
        BY <1>1 DEF TypeOK, WorkerTypeOK
      <3>2. seen' = [seen EXCEPT ![w] = [seen[w] EXCEPT ![job[w]] = db[job[w]]]]
        BY <1>3 DEF FinishRead
      <3>3. QED
        BY <3>1, <3>2 DEF TypeOK, WorkerTypeOK
    <2>2. QED
      BY <1>1, <1>3, <2>1 DEF FinishRead, TypeOK, WorkerTypeOK, HoldsJob
  <1>4. QED
    BY <1>2, <1>3

\* Every step of a worker leaves the table and the workers well typed.
LEMMA WorkerStepType ==
  ASSUME TypeOK, NEW w \in Workers, Worker(w)
  PROVE  TableTypeOK' /\ WorkerTypeOK'
  <1> USE DEF TypeOK
  <1>1. CASE SkipSweep(w)
    BY <1>1, GotoType DEF SkipSweep, TableTypeOK, othersThanWorkers, HoldsJob
  <1>2. CASE SweepRead(w)
    <2>1. CASE \E j \in Jobs : Stale(db[j])
      <3>1. [j \in Jobs |-> IF Stale(db[j]) THEN db[j] ELSE Absent]
              \in [Jobs -> Row]
        BY AbsentType DEF TableTypeOK
      <3>2. QED
        BY <1>2, <2>1, <3>1
        DEF SweepRead, TableTypeOK, WorkerTypeOK, othersThanWorkers, HoldsJob
    <2>2. CASE ~\E j \in Jobs : Stale(db[j])
      BY <1>2, <2>2, GotoType
      DEF SweepRead, TableTypeOK, othersThanWorkers, HoldsJob
    <2>3. QED
      BY <2>1, <2>2
  <1>3. CASE SweepWrite(w)
    <2>1. Swept(db, seen[w]) \in [Jobs -> Row]
      BY SweptType DEF TableTypeOK, WorkerTypeOK
    <2>2. TableTypeOK'
      BY <1>3, <2>1 DEF SweepWrite, TableTypeOK, othersThanWorkers
    <2>3. CASE SweepCommits(db, seen[w])
      BY <1>3, <2>2, <2>3, AbsentType DEF SweepWrite, WorkerTypeOK, HoldsJob
    <2>4. CASE ~SweepCommits(db, seen[w])
      BY <1>3, <2>2, <2>4, ForgetType DEF SweepWrite
    <2>5. QED
      BY <2>3, <2>4, <2>2
  <1>4. CASE Claim(w)
    <2>1. PICK j \in Jobs : /\ db' = [db EXCEPT ![j] = Claimed(db[j])]
                            /\ job' = [job EXCEPT ![w] = j]
      BY <1>4 DEF Claim
    <2>2. db' \in [Jobs -> Row]
      BY <2>1, AssignedType, UpdateType DEF TableTypeOK
    <2>3. QED
      BY <1>4, <2>1, <2>2
      DEF Claim, TableTypeOK, WorkerTypeOK, othersThanWorkers, HoldsJob
  <1>5. CASE NothingToClaim(w)
    BY <1>5, GotoType DEF NothingToClaim, TableTypeOK, othersThanWorkers, HoldsJob
  <1>6. CASE ExecuteStart(w)
    <2>1. CASE db[job[w]].status = "running"
      BY <1>6, <2>1
      DEF ExecuteStart, TableTypeOK, WorkerTypeOK, othersThanWorkers, HoldsJob
    <2>2. CASE db[job[w]].status # "running"
      BY <1>6, <2>2, ForgetType DEF ExecuteStart, TableTypeOK, othersThanWorkers
    <2>3. QED
      BY <2>1, <2>2
  <1>7. CASE HeartbeatRead(w)
    <2>1. CASE db[job[w]].status = "running"
      BY <1>7, <2>1, GotoType
      DEF HeartbeatRead, TableTypeOK, othersThanWorkers, HoldsJob
    <2>2. CASE db[job[w]].status # "running"
      BY <1>7, <2>2 DEF HeartbeatRead, TableTypeOK, WorkerTypeOK, othersThanWorkers
    <2>3. QED
      BY <2>1, <2>2
  <1>8. CASE HeartbeatWrite(w)
    <2>1. job[w] \in Jobs
      BY <1>8 DEF HeartbeatWrite, WorkerTypeOK, HoldsJob
    <2>2. [db EXCEPT ![job[w]] = Renewed(@)] \in [Jobs -> Row]
      BY <2>1, AssignedType, UpdateType DEF TableTypeOK
    <2>3. QED
      BY <1>8, <2>1, <2>2
      DEF HeartbeatWrite, TableTypeOK, WorkerTypeOK, othersThanWorkers, HoldsJob
  <1>9. CASE DispatcherReturns(w)
    <2>1. job[w] \in Jobs
      BY <1>9 DEF DispatcherReturns, WorkerTypeOK, HoldsJob
    <2>2. TableTypeOK'
      BY <1>9, <2>1 DEF DispatcherReturns, TableTypeOK, othersThanWorkers
    <2>3. CASE beat[w] = "dead"
      BY <1>9, <2>2, <2>3, ForgetType DEF DispatcherReturns
    <2>4. CASE beat[w] # "dead"
      BY <1>9, <2>2, <2>4, FinishReadType DEF DispatcherReturns, HoldsJob
    <2>5. QED
      BY <2>3, <2>4
  <1>10. CASE DispatcherRaises(w)
    BY <1>10, FinishReadType
    DEF DispatcherRaises, TableTypeOK, othersThanWorkers, HoldsJob
  <1>11. CASE FinishWrite(w)
    <2>1. job[w] \in Jobs
      BY <1>11 DEF FinishWrite, WorkerTypeOK, HoldsJob
    <2>2. Finished(db[job[w]], seen[w][job[w]], raised[w]) \in Row
      BY <2>1, FinishedType DEF TableTypeOK, WorkerTypeOK
    <2>3. [db EXCEPT ![job[w]] = Finished(@, seen[w][job[w]], raised[w])]
            \in [Jobs -> Row]
      BY <2>1, <2>2, UpdateType DEF TableTypeOK
    <2>4. TableTypeOK'
      BY <1>11, <2>3 DEF FinishWrite, TableTypeOK, othersThanWorkers
    <2>5. QED
      BY <1>11, <2>4, ForgetType DEF FinishWrite
  <1>12. CASE Crash(w)
    BY <1>12, ForgetType, SpendType DEF Crash, TableTypeOK, othersThanWorkers
  <1>13. CASE Fault(w)
    BY <1>13, ForgetType, SpendType DEF Fault, TableTypeOK, othersThanWorkers
  <1>14. CASE HeartbeatFault(w)
    BY <1>14, SpendType
    DEF HeartbeatFault, TableTypeOK, WorkerTypeOK, othersThanWorkers, HoldsJob
  <1>15. QED
    BY <1>1, <1>2, <1>3, <1>4, <1>5, <1>6, <1>7, <1>8, <1>9, <1>10, <1>11,
       <1>12, <1>13, <1>14 DEF Worker

\* Every step of a caller leaves the table and the callers well typed.
LEMMA CallerStepType ==
  ASSUME TypeOK, NEW c \in Callers, Caller(c)
  PROVE  TableTypeOK' /\ CallerTypeOK'
  <1> USE DEF TypeOK
  <1>1. CASE EnqueueRead(c)
    BY <1>1 DEF EnqueueRead, TableTypeOK, CallerTypeOK, othersThanCallers
  <1>2. CASE EnqueueInsert(c)
    <2>1. PICK limit \in AttemptLimits :
            LET d == [db EXCEPT ![nextId] = NewRow(want[c], limit)] IN
            IF UniqueActiveKeys(d)
            THEN /\ db' = d
                 /\ nextId' = nextId + 1
                 /\ cpc' = [cpc EXCEPT ![c] = "idle"]
                 /\ want' = [want EXCEPT ![c] = NoKey]
            ELSE /\ cpc' = [cpc EXCEPT ![c] = "reselecting"]
                 /\ UNCHANGED <<db, nextId, want>>
      BY <1>2 DEF EnqueueInsert
    <2>2. nextId \in Jobs /\ NewRow(want[c], limit) \in Row
      BY <1>2, NewRowType, ConstantsAssumption DEF EnqueueInsert, CallerTypeOK
    <2>3. [db EXCEPT ![nextId] = NewRow(want[c], limit)] \in [Jobs -> Row]
      BY <2>2, UpdateType
    <2>4. nextId + 1 \in 1 .. MaxJobs + 1
      BY <2>2, ConstantsAssumption DEF Jobs
    <2>5. QED
      BY <1>2, <2>1, <2>3, <2>4
      DEF EnqueueInsert, TableTypeOK, CallerTypeOK, othersThanCallers
  <1>3. CASE EnqueueReselect(c)
    BY <1>3 DEF EnqueueReselect, TableTypeOK, CallerTypeOK, othersThanCallers
  <1>4. QED
    BY <1>1, <1>2, <1>3 DEF Caller

\* Every step of a retrier leaves the table and the retriers well typed.
LEMMA RetrierStepType ==
  ASSUME TypeOK, NEW r \in Retriers, Retrier(r)
  PROVE  TableTypeOK' /\ RetrierTypeOK'
  <1> USE DEF TypeOK
  <1>1. CASE RetryRead(r)
    BY <1>1, SpendType DEF RetryRead, TableTypeOK, RetrierTypeOK, othersThanRetriers
  <1>2. CASE RetryWrite(r)
    <2>1. target[r] \in Jobs
      BY <1>2 DEF RetryWrite, RetrierTypeOK
    <2>2. Flush(db[target[r]], rseen[r], Retried(rseen[r])) \in Row
      BY <2>1, FlushType, AssignedType DEF TableTypeOK, RetrierTypeOK
    <2>3. [db EXCEPT ![target[r]] = Flush(@, rseen[r], Retried(rseen[r]))]
            \in [Jobs -> Row]
      BY <2>1, <2>2, UpdateType
    <2>4. QED
      BY <1>2, <2>3, AbsentType
      DEF RetryWrite, TableTypeOK, RetrierTypeOK, othersThanRetriers
  <1>3. QED
    BY <1>1, <1>2 DEF Retrier

\* The passing of time and the purge leave the table well typed.
LEMMA ClockStepType ==
  ASSUME TypeOK, NEW j \in Jobs, Clock(j)
  PROVE  TableTypeOK'
  <1> USE DEF TypeOK
  <1>0. db[j] \in Row
    BY DEF TableTypeOK
  <1>1. CASE LeaseLapse(j)
    BY <1>0, <1>1, AssignedType, UpdateType DEF LeaseLapse, TableTypeOK, environment
  <1>2. CASE Stall(j)
    BY <1>0, <1>2, AssignedType, UpdateType, SpendType
    DEF Stall, TableTypeOK, environment
  <1>3. CASE BackoffElapses(j)
    <2>1. [db[j] EXCEPT !.next_attempt_at = "due"] \in Row
      BY <1>0 DEF Row
    <2>2. QED
      BY <1>3, <2>1, UpdateType DEF BackoffElapses, TableTypeOK, environment
  <1>4. CASE Purge(j)
    BY <1>4, AbsentType, UpdateType DEF Purge, TableTypeOK, environment
  <1>5. QED
    BY <1>1, <1>2, <1>3, <1>4 DEF Clock

\* No step breaks the types.
LEMMA TypeStep == TypeOK /\ [Next]_vars => TypeOK'
  <1> SUFFICES ASSUME TypeOK, [Next]_vars PROVE TypeOK'
    OBVIOUS
  <1>1. CASE \E w \in Workers : Worker(w)
    <2>1. PICK w \in Workers : Worker(w)
      BY <1>1
    <2>2. UNCHANGED <<callerVars, retryVars>>
      BY <2>1 DEF Worker, SkipSweep, SweepRead, SweepWrite, Claim, NothingToClaim,
        ExecuteStart, HeartbeatRead, HeartbeatWrite, DispatcherReturns,
        DispatcherRaises, FinishWrite, Crash, Fault, HeartbeatFault,
        othersThanWorkers
    <2>3. QED
      BY <2>1, <2>2, WorkerStepType
      DEF TypeOK, CallerTypeOK, RetrierTypeOK, callerVars, retryVars
  <1>2. CASE \E c \in Callers : Caller(c)
    <2>1. PICK c \in Callers : Caller(c)
      BY <1>2
    <2>2. UNCHANGED <<workerVars, retryVars>>
      BY <2>1 DEF Caller, EnqueueRead, EnqueueInsert, EnqueueReselect,
        othersThanCallers
    <2>3. QED
      BY <2>1, <2>2, CallerStepType
      DEF TypeOK, WorkerTypeOK, RetrierTypeOK, workerVars, retryVars
  <1>3. CASE \E r \in Retriers : Retrier(r)
    <2>1. PICK r \in Retriers : Retrier(r)
      BY <1>3
    <2>2. UNCHANGED <<workerVars, callerVars>>
      BY <2>1 DEF Retrier, RetryRead, RetryWrite, othersThanRetriers
    <2>3. QED
      BY <2>1, <2>2, RetrierStepType
      DEF TypeOK, WorkerTypeOK, CallerTypeOK, workerVars, callerVars
  <1>4. CASE \E j \in Jobs : Clock(j)
    <2>1. PICK j \in Jobs : Clock(j)
      BY <1>4
    <2>2. UNCHANGED <<workerVars, callerVars, retryVars>>
      BY <2>1 DEF Clock, LeaseLapse, Stall, BackoffElapses, Purge, environment
    <2>3. QED
      BY <2>1, <2>2, ClockStepType
      DEF TypeOK, WorkerTypeOK, CallerTypeOK, RetrierTypeOK,
          workerVars, callerVars, retryVars
  <1>5. CASE UNCHANGED vars
    BY <1>5 DEF vars, TypeOK, TableTypeOK, WorkerTypeOK, CallerTypeOK,
      RetrierTypeOK, workerVars, callerVars, retryVars
  <1>6. QED
    BY <1>1, <1>2, <1>3, <1>4, <1>5 DEF Next

\* The table and every process stay well typed: whatever mix of stale sessions writes
\* a row of job_runs, the result is a row the other handlers can read.
THEOREM TypeCorrect == Spec => []TypeOK
  BY InitType, TypeStep, PTL DEF Spec
-----------------------------------------------------------------------------
(* What holds however many stale sessions write at once                     *)
(*                                                                          *)
(* TerminalIsPurgeable, SucceededMeansDone and RetryNeverConflicts are not  *)
(* inductive: a commit made from an old read keeps them only because of     *)
(* what that read can have been.  SessionInv says what each open session    *)
(* may have loaded.                                                         *)

UnbornIsAbsent == \A j \in Jobs : j >= nextId => db[j] = Absent

TableInv ==
  /\ TerminalIsPurgeable
  /\ SucceededMeansDone
  /\ UniqueActiveKeys(db)
  /\ UnbornIsAbsent

\* A sweep holds rows it read as running; a finisher without an error has a result.
WorkerInv ==
  \A w \in Workers :
    /\ wpc[w] = "sweeping" =>
         \A j \in Jobs : seen[w][j].status \in {"absent", "running"}
    /\ (wpc[w] = "finishing" /\ ~raised[w]) => job[w] \in done

\* A retry holds a row it read as failed; if that row had no key then, it has none now.
RetrierInv ==
  \A r \in Retriers :
    /\ rpc[r] # "conflict"
    /\ rpc[r] = "loaded" =>
         /\ rseen[r].status = "failed"
         /\ target[r] < nextId
         /\ rseen[r].idempotency_key = NoKey =>
              db[target[r]].idempotency_key = NoKey

SessionInv == TypeOK /\ TableInv /\ WorkerInv /\ RetrierInv

-----------------------------------------------------------------------------
(* What a commit from an old read may do to a row *)

\* One row of a sweep: it keeps its key, never turns into success, and is stamped when
\* it ends.
LEMMA SweptRow ==
  ASSUME NEW current \in Row, NEW loaded \in Row, loaded.status = "running",
         current.status \in Terminal => current.finished
  PROVE  LET new == Recovered(loaded)
             row == Stamped(Flush(current, loaded, new), new)
         IN  /\ row.idempotency_key = current.idempotency_key
             /\ row.status \in {"queued", "failed"}
             /\ row.status \in Terminal => row.finished
  <1> DEFINE new == Recovered(loaded)
             row == Stamped(Flush(current, loaded, new), new)
  <1>1. /\ new.idempotency_key = loaded.idempotency_key
        /\ new.status \in {"queued", "failed"}
    BY DEF Recovered, Row
  <1>2. /\ Flush(current, loaded, new).idempotency_key = current.idempotency_key
        /\ Flush(current, loaded, new).status = new.status
    BY <1>1 DEF Flush, Changed
  <1>3. Flush(current, loaded, new) \in Row
    BY AssignedType, FlushType
  <1>4. /\ row.idempotency_key = current.idempotency_key
        /\ row.status = new.status
        /\ row.status \in Terminal => row.finished
    BY <1>2, <1>3 DEF Stamped, Row
  <1>5. QED
    BY <1>1, <1>4

\* What _finish_job commits: the key is kept, an end is stamped, and success is written
\* only by a finisher without an error.
LEMMA FinishedRow ==
  ASSUME NEW current \in Row, NEW loaded \in Row, NEW isFailure \in BOOLEAN,
         current.status \in Terminal => current.finished
  PROVE  LET row == Finished(current, loaded, isFailure)
         IN  /\ row.idempotency_key = current.idempotency_key
             /\ row.status \in Terminal => row.finished
             /\ row.status = "succeeded" =>
                  current.status = "succeeded" \/ ~isFailure
             /\ current.status = "absent" => row = current
  <1> DEFINE new == IF isFailure THEN Failed(loaded) ELSE Succeeded(loaded)
             flushed == Flush(current, loaded, new)
             row == Stamped(flushed, new)
  <1>1. new \in Row
    BY AssignedType
  <1>2. /\ new.idempotency_key = loaded.idempotency_key
        /\ new.status \in {"queued", "failed", "succeeded"}
        /\ new.status = "succeeded" => ~isFailure
        /\ new.status = "queued" => new.finished = loaded.finished
    BY DEF Failed, Succeeded, Row
  <1>3. flushed \in Row
    BY <1>1, FlushType
  <1>4. /\ flushed.idempotency_key = current.idempotency_key
        /\ flushed.status = new.status \/ flushed.status = current.status
        /\ new.status = "queued" => flushed.finished = current.finished
    BY <1>2 DEF Flush, Changed
  <1>5. /\ row \in Row
        /\ row.idempotency_key = current.idempotency_key
        /\ row.status = flushed.status
        /\ new.status \in Terminal => row.finished
        /\ new.status \notin Terminal => row.finished = flushed.finished
    <2>1. CASE new.status \in Terminal
      <3>1. row = [flushed EXCEPT !.finished = TRUE]
        BY <2>1 DEF Stamped
      <3>2. QED
        BY <1>3, <1>4, <2>1, <3>1 DEF Row
    <2>2. CASE new.status \notin Terminal
      BY <1>3, <1>4, <2>2 DEF Stamped
    <2>3. QED
      BY <2>1, <2>2
  <1>6. row.status \in Terminal => row.finished
    BY <1>2, <1>4, <1>5 DEF Terminal
  <1>7. row.status = "succeeded" => current.status = "succeeded" \/ ~isFailure
    BY <1>2, <1>4, <1>5
  <1>8. CASE current.status = "absent"
    BY <1>8 DEF Finished, Terminal
  <1>9. CASE current.status # "absent"
    <2>1. \/ Finished(current, loaded, isFailure) = row
          \/ Finished(current, loaded, isFailure)
               = [row EXCEPT !.next_attempt_at = "waiting"]
      BY <1>9 DEF Finished
    <2>2. LET waiting == [row EXCEPT !.next_attempt_at = "waiting"]
          IN  /\ waiting.idempotency_key = row.idempotency_key
              /\ waiting.status = row.status
              /\ waiting.finished = row.finished
      BY <1>5 DEF Row
    <2>3. QED
      BY <1>5, <1>6, <1>7, <1>9, <2>1, <2>2
  <1>10. QED
    BY <1>8, <1>9

\* A retry of a row read as failed leaves it queued and, if the row had a key when read
\* or has none now, without a key.
LEMMA RetriedRow ==
  ASSUME NEW current \in Row, NEW loaded \in Row, loaded.status = "failed",
         loaded.idempotency_key = NoKey => current.idempotency_key = NoKey
  PROVE  LET row == Flush(current, loaded, Retried(loaded))
         IN  row.idempotency_key = NoKey /\ row.status = "queued"
  BY DEF Retried, Flush, Changed, Row
-----------------------------------------------------------------------------
(* Steps on the table *)

\* A step that commits nothing keeps the table's invariant.
LEMMA KeptTable ==
  ASSUME TypeOK, TableInv, db' = db, nextId' = nextId, done \subseteq done'
  PROVE  TableInv'
  BY DEF TableInv, TerminalIsPurgeable, SucceededMeansDone, UniqueActiveKeys,
    UnbornIsAbsent

\* A commit that rewrites one existing row keeps it if the row keeps or loses its key,
\* enters the index only when the index allows it, is stamped when it ends, and
\* succeeds only when its work is done.
LEMMA RewrittenTable ==
  ASSUME TypeOK, TableInv, NEW j \in Jobs, NEW row \in Row,
         db' = [db EXCEPT ![j] = row], nextId' = nextId, done' = done,
         row.idempotency_key \in {db[j].idempotency_key, NoKey},
         row.status \in Terminal => row.finished,
         row.status = "succeeded" => db[j].status = "succeeded" \/ j \in done,
         db[j] = Absent => row = Absent,
         \/ UniqueActiveKeys(db')
         \/ row.status \in Active => db[j].status \in Active
         \/ row.idempotency_key = NoKey
  PROVE  TableInv'
  <1>1. /\ \A i \in Jobs : i # j => db'[i] = db[i]
        /\ db'[j] = row
    BY DEF TypeOK, TableTypeOK
  <1>2. TerminalIsPurgeable'
    BY <1>1 DEF TableInv, TerminalIsPurgeable
  <1>3. SucceededMeansDone'
    BY <1>1 DEF TableInv, SucceededMeansDone
  <1>4. UniqueActiveKeys(db')
    <2>1. CASE (row.status \in Active => db[j].status \in Active)
               \/ row.idempotency_key = NoKey
      BY <1>1, <2>1 DEF TableInv, UniqueActiveKeys
    <2>2. QED
      BY <2>1
  <1>5. UnbornIsAbsent'
    <2>1. j >= nextId => row = Absent
      BY DEF TableInv, UnbornIsAbsent, Absent
    <2>2. QED
      BY <1>1, <2>1 DEF TableInv, UnbornIsAbsent
  <1>6. QED
    BY <1>2, <1>3, <1>4, <1>5 DEF TableInv

\* Rewriting a row that keeps or loses its key takes no key from, nor gives one to, a
\* row without one.
LEMMA KeptRetriers ==
  ASSUME TypeOK, RetrierInv, UNCHANGED retryVars, nextId' \in Nat, nextId <= nextId',
         \A i \in Jobs : (i < nextId /\ db[i].idempotency_key = NoKey)
                            => db'[i].idempotency_key = NoKey
  PROVE  RetrierInv'
  <1>1. \A r \in Retriers : rpc[r] = "loaded" => target[r] \in Jobs
    BY DEF TypeOK, RetrierTypeOK
  <1>2. nextId \in Nat /\ \A i \in Jobs : i \in Nat
    BY ConstantsAssumption DEF TypeOK, TableTypeOK, Jobs
  <1>3. QED
    BY <1>1, <1>2 DEF RetrierInv, retryVars
-----------------------------------------------------------------------------
(* Steps on the sessions *)

\* A worker that ends its round holds nothing.
LEMMA ForgetInv ==
  ASSUME TypeOK, WorkerInv, NEW w \in Workers, Forget(w), done \subseteq done'
  PROVE  WorkerInv'
  BY DEF TypeOK, WorkerTypeOK, WorkerInv, Forget

\* A worker that moves on, neither sweeping nor finishing, claims nothing of its session.
LEMMA MovedInv ==
  ASSUME TypeOK, WorkerInv, NEW w \in Workers, done \subseteq done',
         \A v \in Workers : v # w => /\ wpc'[v] = wpc[v] /\ seen'[v] = seen[v]
                                     /\ raised'[v] = raised[v] /\ job'[v] = job[v],
         wpc'[w] \notin {"sweeping", "finishing"}
  PROVE  WorkerInv'
  BY DEF WorkerInv

\* A worker that loads the row to finish knows whether its dispatcher completed.
LEMMA FinishReadInv ==
  ASSUME TypeOK, WorkerInv, NEW w \in Workers, NEW isFailure \in BOOLEAN,
         FinishRead(w, isFailure), done \subseteq done',
         ~isFailure => job[w] \in done'
  PROVE  WorkerInv'
  <1>1. CASE db[job[w]].status = "absent"
    BY <1>1, ForgetInv DEF FinishRead
  <1>2. CASE db[job[w]].status # "absent"
    BY <1>2 DEF FinishRead, TypeOK, WorkerTypeOK, WorkerInv
  <1>3. QED
    BY <1>1, <1>2

\* Every step of a worker keeps the invariant.
LEMMA WorkerStepInv ==
  ASSUME SessionInv, NEW w \in Workers, Worker(w)
  PROVE  TableInv' /\ WorkerInv' /\ RetrierInv'
  <1> USE DEF SessionInv
  <1>a. UNCHANGED othersThanWorkers /\ done \subseteq done'
    BY DEF Worker, SkipSweep, SweepRead, SweepWrite, Claim, NothingToClaim,
      ExecuteStart, HeartbeatRead, HeartbeatWrite, DispatcherReturns,
      DispatcherRaises, FinishWrite, Crash, Fault, HeartbeatFault
  <1>0. /\ nextId' = nextId /\ nextId \in Nat /\ UNCHANGED retryVars
        /\ done \subseteq done'
    BY <1>a, ConstantsAssumption DEF othersThanWorkers, TypeOK, TableTypeOK
  <1>1. ASSUME db' = db
        PROVE  TableInv' /\ RetrierInv'
    BY <1>0, <1>1, KeptTable, KeptRetriers
  <1>2. CASE SkipSweep(w)
    BY <1>0, <1>1, <1>2, MovedInv DEF SkipSweep, Goto, TypeOK, WorkerTypeOK
  <1>3. CASE SweepRead(w)
    <2>1. CASE \E j \in Jobs : Stale(db[j])
      <3>1. \A j \in Jobs : seen'[w][j].status \in {"absent", "running"}
        BY <1>3, <2>1 DEF SweepRead, Stale, Absent, TypeOK, WorkerTypeOK
      <3>2. WorkerInv'
        BY <1>3, <2>1, <3>1 DEF SweepRead, WorkerInv, TypeOK, WorkerTypeOK
      <3>3. QED
        BY <1>1, <1>3, <3>2 DEF SweepRead
    <2>2. CASE ~\E j \in Jobs : Stale(db[j])
      BY <1>0, <1>1, <1>3, <2>2, MovedInv
      DEF SweepRead, Goto, TypeOK, WorkerTypeOK
    <2>3. QED
      BY <2>1, <2>2
  <1>4. CASE SweepWrite(w)
    <2>1. CASE SweepCommits(db, seen[w])
      <3>1. db' = Swept(db, seen[w]) /\ done' = done
        BY <1>4, <2>1 DEF SweepWrite
      <3>2. ASSUME NEW j \in Jobs
            PROVE  \/ db'[j] = db[j]
                   \/ /\ db[j].status # "absent"
                      /\ db'[j].idempotency_key = db[j].idempotency_key
                      /\ db'[j].status \in {"queued", "failed"}
                      /\ db'[j].status \in Terminal => db'[j].finished
        <4>1. CASE seen[w][j].status = "absent"
          BY <3>1, <4>1 DEF Swept
        <4>2. CASE seen[w][j].status # "absent"
          <5>1. seen[w][j] \in Row /\ db[j] \in Row
            BY DEF TypeOK, WorkerTypeOK, TableTypeOK
          <5>2. seen[w][j].status = "running"
            BY <1>4, <4>2 DEF SweepWrite, WorkerInv
          <5>3. db[j].status # "absent"
            BY <2>1, <4>2 DEF SweepCommits
          <5>4. db[j].status \in Terminal => db[j].finished
            BY DEF TableInv, TerminalIsPurgeable
          <5>5. QED
            BY <3>1, <4>2, <5>1, <5>2, <5>3, <5>4, SweptRow DEF Swept
        <4>3. QED
          BY <4>1, <4>2
      <3>3. UniqueActiveKeys(db')
        BY <2>1, <3>1 DEF SweepCommits
      <3>4. TerminalIsPurgeable'
        BY <3>2 DEF TableInv, TerminalIsPurgeable
      <3>5. SucceededMeansDone'
        <4>1. SUFFICES ASSUME NEW j \in Jobs, db'[j].status = "succeeded"
                       PROVE  j \in done'
          BY DEF SucceededMeansDone
        <4>2. db'[j] = db[j]
          BY <3>2, <4>1
        <4>3. QED
          BY <3>1, <4>1, <4>2 DEF TableInv, SucceededMeansDone
      <3>6. UnbornIsAbsent'
        <4>1. SUFFICES ASSUME NEW j \in Jobs, j >= nextId
                       PROVE  db'[j] = Absent
          BY <1>0 DEF UnbornIsAbsent
        <4>2. db[j] = Absent
          BY <4>1 DEF TableInv, UnbornIsAbsent
        <4>3. db[j].status = "absent"
          BY <4>2 DEF Absent
        <4>4. QED
          BY <3>2, <4>2, <4>3
      <3>7. RetrierInv'
        BY <1>0, <3>2, KeptRetriers
      <3>8. WorkerInv'
        BY <1>0, <1>4, <2>1, MovedInv DEF SweepWrite, TypeOK, WorkerTypeOK
      <3>9. QED
        BY <3>3, <3>4, <3>5, <3>6, <3>7, <3>8 DEF TableInv
    <2>2. CASE ~SweepCommits(db, seen[w])
      BY <1>0, <1>1, <1>4, <2>2, ForgetInv DEF SweepWrite
    <2>3. QED
      BY <2>1, <2>2
  <1>5. CASE Claim(w)
    <2>1. PICK j \in Jobs : /\ Ready(db[j])
                            /\ db' = [db EXCEPT ![j] = Claimed(db[j])]
                            /\ job' = [job EXCEPT ![w] = j]
      BY <1>5 DEF Claim
    <2>2. db[j] \in Row /\ Claimed(db[j]) \in Row /\ done' = done
      BY <1>5, AssignedType DEF Claim, TypeOK, TableTypeOK
    <2>3. /\ Claimed(db[j]).status = "running"
          /\ Claimed(db[j]).idempotency_key = db[j].idempotency_key
          /\ db[j].status = "queued"
      BY <2>1, <2>2 DEF Claimed, Ready, Row
    <2>4. TableInv'
      BY <1>0, <2>1, <2>2, <2>3, RewrittenTable, AbsentStatus
      DEF Active, Terminal
    <2>5. RetrierInv'
      BY <1>0, <2>1, <2>2, <2>3, KeptRetriers DEF TypeOK, TableTypeOK
    <2>6. WorkerInv'
      BY <1>0, <1>5, <2>1, MovedInv DEF Claim, TypeOK, WorkerTypeOK
    <2>7. QED
      BY <2>4, <2>5, <2>6
  <1>6. CASE NothingToClaim(w)
    BY <1>0, <1>1, <1>6, MovedInv DEF NothingToClaim, Goto, TypeOK, WorkerTypeOK
  <1>7. CASE ExecuteStart(w)
    <2>1. CASE db[job[w]].status = "running"
      BY <1>0, <1>1, <1>7, <2>1, MovedInv DEF ExecuteStart, TypeOK, WorkerTypeOK
    <2>2. CASE db[job[w]].status # "running"
      BY <1>0, <1>1, <1>7, <2>2, ForgetInv DEF ExecuteStart
    <2>3. QED
      BY <2>1, <2>2
  <1>8. CASE HeartbeatRead(w)
    <2>1. wpc'[w] \notin {"sweeping", "finishing"}
      BY <1>8 DEF HeartbeatRead, Goto, TypeOK, WorkerTypeOK
    <2>2. QED
      BY <1>0, <1>1, <1>8, <2>1, MovedInv
      DEF HeartbeatRead, Goto, TypeOK, WorkerTypeOK
  <1>9. CASE HeartbeatWrite(w)
    <2>1. WorkerInv'
      BY <1>0, <1>9, MovedInv DEF HeartbeatWrite, TypeOK, WorkerTypeOK
    <2>2. CASE db[job[w]].status = "absent"
      BY <1>1, <1>9, <2>1, <2>2 DEF HeartbeatWrite
    <2>3. CASE db[job[w]].status # "absent"
      <3>1. /\ db' = [db EXCEPT ![job[w]] = Renewed(db[job[w]])]
            /\ done' = done
            /\ job[w] \in Jobs
        BY <1>9, <2>3 DEF HeartbeatWrite, TypeOK, WorkerTypeOK, HoldsJob
      <3>2. db[job[w]] \in Row /\ Renewed(db[job[w]]) \in Row
        BY <3>1, AssignedType DEF TypeOK, TableTypeOK
      <3>3. LET row == Renewed(db[job[w]])
            IN  /\ row.status = db[job[w]].status
                /\ row.idempotency_key = db[job[w]].idempotency_key
                /\ row.finished = db[job[w]].finished
        BY <3>2 DEF Renewed, Row
      <3>4. db[job[w]].status \in Terminal => db[job[w]].finished
        BY <3>1 DEF TableInv, TerminalIsPurgeable
      <3>5. TableInv'
        BY <1>0, <2>3, <3>1, <3>2, <3>3, <3>4, RewrittenTable, AbsentStatus
      <3>6. RetrierInv'
        BY <1>0, <3>1, <3>2, <3>3, KeptRetriers DEF TypeOK, TableTypeOK
      <3>7. QED
        BY <2>1, <3>5, <3>6
    <2>4. QED
      BY <2>2, <2>3
  <1>10. CASE DispatcherReturns(w)
    <2>1. CASE beat[w] = "dead"
      BY <1>0, <1>1, <1>10, <2>1, ForgetInv DEF DispatcherReturns
    <2>2. CASE beat[w] # "dead"
      <3>1. FinishRead(w, FALSE) /\ job[w] \in done' /\ db' = db
        BY <1>10, <2>2 DEF DispatcherReturns
      <3>2. WorkerInv'
        BY <1>0, <3>1, FinishReadInv
      <3>3. QED
        BY <1>1, <3>1, <3>2
    <2>3. QED
      BY <2>1, <2>2
  <1>11. CASE DispatcherRaises(w)
    <2>1. FinishRead(w, TRUE) /\ db' = db
      BY <1>11 DEF DispatcherRaises
    <2>2. WorkerInv'
      BY <1>0, <2>1, FinishReadInv
    <2>3. QED
      BY <1>1, <2>1, <2>2
  <1>12. CASE FinishWrite(w)
    <2> DEFINE j == job[w]
               row == Finished(db[j], seen[w][j], raised[w])
               d == [db EXCEPT ![j] = row]
    <2>1. /\ j \in Jobs /\ db[j] \in Row /\ seen[w][j] \in Row
          /\ raised[w] \in BOOLEAN
      BY <1>12 DEF FinishWrite, TypeOK, WorkerTypeOK, TableTypeOK, HoldsJob
    <2>2. row \in Row
      BY <2>1, FinishedType
    <2>3. db[j].status \in Terminal => db[j].finished
      BY <2>1 DEF TableInv, TerminalIsPurgeable
    <2>4. /\ row.idempotency_key = db[j].idempotency_key
          /\ row.status \in Terminal => row.finished
          /\ row.status = "succeeded" => db[j].status = "succeeded" \/ ~raised[w]
          /\ db[j].status = "absent" => row = db[j]
      BY <2>1, <2>3, FinishedRow
    <2>5. ~raised[w] => j \in done
      BY <1>12 DEF FinishWrite, WorkerInv
    <2>6. WorkerInv'
      BY <1>0, <1>12, ForgetInv DEF FinishWrite
    <2>7. CASE UniqueActiveKeys(d)
      <3>1. db' = d /\ done' = done
        BY <1>12, <2>7 DEF FinishWrite
      <3>2. TableInv'
        BY <1>0, <2>1, <2>2, <2>4, <2>5, <2>7, <3>1, RewrittenTable,
           AbsentStatus
      <3>3. RetrierInv'
        BY <1>0, <2>1, <2>2, <2>4, <3>1, KeptRetriers DEF TypeOK, TableTypeOK
      <3>4. QED
        BY <2>6, <3>2, <3>3
    <2>8. CASE ~UniqueActiveKeys(d)
      BY <1>1, <1>12, <2>6, <2>8 DEF FinishWrite
    <2>9. QED
      BY <2>7, <2>8
  <1>13. CASE Crash(w)
    BY <1>0, <1>1, <1>13, ForgetInv DEF Crash
  <1>14. CASE Fault(w)
    BY <1>0, <1>1, <1>14, ForgetInv DEF Fault
  <1>15. CASE HeartbeatFault(w)
    BY <1>0, <1>1, <1>15, MovedInv DEF HeartbeatFault, TypeOK, WorkerTypeOK
  <1>16. QED
    BY <1>2, <1>3, <1>4, <1>5, <1>6, <1>7, <1>8, <1>9, <1>10, <1>11, <1>12,
       <1>13, <1>14, <1>15 DEF Worker
\* Every step of a caller keeps the invariant.
LEMMA CallerStepInv ==
  ASSUME SessionInv, NEW c \in Callers, Caller(c)
  PROVE  TableInv' /\ WorkerInv' /\ RetrierInv'
  <1> USE DEF SessionInv
  <1>0. UNCHANGED othersThanCallers
    BY DEF Caller, EnqueueRead, EnqueueInsert, EnqueueReselect
  <1>1. WorkerInv'
    BY <1>0 DEF othersThanCallers, workerVars, WorkerInv
  <1>2. /\ done' = done /\ UNCHANGED retryVars
        /\ nextId \in Nat /\ \A j \in Jobs : j \in Nat
    BY <1>0, ConstantsAssumption DEF othersThanCallers, TypeOK, TableTypeOK, Jobs
  <1>3. CASE UNCHANGED <<db, nextId>>
    BY <1>1, <1>2, <1>3, KeptTable, KeptRetriers
  <1>4. CASE ~UNCHANGED <<db, nextId>>
    <2>1. PICK limit \in AttemptLimits :
            LET d == [db EXCEPT ![nextId] = NewRow(want[c], limit)]
            IN  UniqueActiveKeys(d) /\ db' = d /\ nextId' = nextId + 1
      BY <1>4 DEF Caller, EnqueueRead, EnqueueInsert, EnqueueReselect
    <2>2. nextId \in Jobs
      BY <1>4 DEF Caller, EnqueueRead, EnqueueInsert, EnqueueReselect
    <2>3. /\ \A j \in Jobs : j # nextId => db'[j] = db[j]
          /\ db'[nextId].status = "queued"
      BY <2>1, <2>2 DEF NewRow, Absent, TypeOK, TableTypeOK
    <2>4. TerminalIsPurgeable' /\ SucceededMeansDone'
      BY <1>2, <2>3
      DEF TableInv, TerminalIsPurgeable, SucceededMeansDone, Terminal
    <2>5. UniqueActiveKeys(db')
      BY <2>1
    <2>6. UnbornIsAbsent'
      BY <1>2, <2>1, <2>3 DEF TableInv, UnbornIsAbsent
    <2>7. RetrierInv'
      BY <1>2, <2>1, <2>3, KeptRetriers
    <2>8. QED
      BY <1>1, <2>4, <2>5, <2>6, <2>7 DEF TableInv
  <1>5. QED
    BY <1>3, <1>4

\* Every step of a retrier keeps the invariant; in particular its commit finds no
\* other active row with its key, because it has none.
LEMMA RetrierStepInv ==
  ASSUME SessionInv, NEW r \in Retriers, Retrier(r)
  PROVE  TableInv' /\ WorkerInv' /\ RetrierInv'
  <1> USE DEF SessionInv
  <1>0. UNCHANGED othersThanRetriers
    BY DEF Retrier, RetryRead, RetryWrite
  <1>1. WorkerInv'
    BY <1>0 DEF othersThanRetriers, workerVars, WorkerInv
  <1>2. done' = done /\ nextId' = nextId /\ \A j \in Jobs : j \in Nat
    BY <1>0, ConstantsAssumption DEF othersThanRetriers, Jobs
  <1>3. CASE RetryRead(r)
    <2>1. PICK j \in Jobs : /\ db[j].status = "failed"
                            /\ target' = [target EXCEPT ![r] = j]
                            /\ rseen' = [rseen EXCEPT ![r] = db[j]]
      BY <1>3 DEF RetryRead
    <2>2. j < nextId
      <3>1. j >= nextId => db[j].status = "absent"
        BY DEF TableInv, UnbornIsAbsent, Absent
      <3>2. QED
        BY <1>2, <2>1, <3>1, ConstantsAssumption DEF TypeOK, TableTypeOK
    <2>3. RetrierInv'
      BY <1>2, <1>3, <2>1, <2>2
      DEF RetryRead, RetrierInv, TypeOK, RetrierTypeOK
    <2>4. TableInv'
      BY <1>2, <1>3, KeptTable DEF RetryRead
    <2>5. QED
      BY <1>1, <2>3, <2>4
  <1>4. CASE RetryWrite(r)
    <2> DEFINE j == target[r]
               row == Flush(db[j], rseen[r], Retried(rseen[r]))
               d == [db EXCEPT ![j] = row]
    <2>1. /\ j \in Jobs /\ db[j] \in Row /\ rseen[r] \in Row
          /\ rpc[r] = "loaded"
      BY <1>4 DEF RetryWrite, TypeOK, TableTypeOK, RetrierTypeOK
    <2>2. /\ rseen[r].status = "failed"
          /\ rseen[r].idempotency_key = NoKey => db[j].idempotency_key = NoKey
      BY <2>1 DEF RetrierInv
    <2>3. row.idempotency_key = NoKey /\ row.status = "queued"
      BY <2>1, <2>2, RetriedRow
    <2>4. row \in Row
      BY <2>1, AssignedType, FlushType
    <2>5. UniqueActiveKeys(d)
      <3>1. /\ \A i \in Jobs : i # j => d[i] = db[i]
            /\ d[j] = row
        BY <2>1 DEF TypeOK, TableTypeOK
      <3>2. QED
        BY <2>3, <3>1 DEF TableInv, UniqueActiveKeys
    <2>6. TableInv' /\ \A i \in Jobs : db[i].idempotency_key = NoKey
                                      => db'[i].idempotency_key = NoKey
      <3>1. CASE db[j].status = "absent"
        BY <1>2, <1>4, <3>1, KeptTable DEF RetryWrite
      <3>2. CASE db[j].status # "absent"
        <4>1. db' = d
          BY <1>4, <2>5, <3>2 DEF RetryWrite
        <4>2. TableInv'
          BY <1>2, <2>1, <2>3, <2>4, <3>2, <4>1, RewrittenTable,
             AbsentStatus DEF Terminal
        <4>3. QED
          BY <2>1, <2>3, <4>1, <4>2 DEF TypeOK, TableTypeOK
      <3>3. QED
        BY <3>1, <3>2
    <2>7. rpc'[r] \in {"idle", "gone"}
      BY <1>4, <2>1, <2>5 DEF RetryWrite, TypeOK, RetrierTypeOK
    <2>8. RetrierInv'
      <3>1. ASSUME NEW q \in Retriers, q # r
            PROVE  rpc'[q] = rpc[q] /\ target'[q] = target[q] /\ rseen'[q] = rseen[q]
        BY <1>4, <3>1 DEF RetryWrite, TypeOK, RetrierTypeOK
      <3>2. ASSUME NEW q \in Retriers, rpc[q] = "loaded"
            PROVE  target[q] \in Jobs
        BY <3>2 DEF TypeOK, RetrierTypeOK
      <3>3. QED
        BY <1>2, <2>6, <2>7, <3>1, <3>2 DEF RetrierInv
    <2>9. QED
      BY <1>1, <2>6, <2>8
  <1>5. QED
    BY <1>3, <1>4 DEF Retrier

\* The passing of time and the purge keep the invariant.
LEMMA ClockStepInv ==
  ASSUME SessionInv, NEW j \in Jobs, Clock(j)
  PROVE  TableInv' /\ WorkerInv' /\ RetrierInv'
  <1> USE DEF SessionInv
  <1>0. UNCHANGED environment
    BY DEF Clock, LeaseLapse, Stall, BackoffElapses, Purge
  <1>1. WorkerInv'
    BY <1>0 DEF environment, workerVars, WorkerInv
  <1>2. /\ done' = done /\ nextId' = nextId /\ nextId \in Nat /\ UNCHANGED retryVars
    BY <1>0, ConstantsAssumption DEF environment, TypeOK, TableTypeOK
  <1>3. db[j] \in Row /\ (db[j].status \in Terminal => db[j].finished)
    BY DEF TypeOK, TableTypeOK, TableInv, TerminalIsPurgeable
  <1>4. \E row \in Row :
          /\ db' = [db EXCEPT ![j] = row]
          /\ row.idempotency_key \in {db[j].idempotency_key, NoKey}
          /\ \/ row.status = db[j].status /\ row.finished = db[j].finished
             \/ row.status = "absent"
          /\ db[j] = Absent => row = Absent
    <2>1. CASE LeaseLapse(j) \/ Stall(j)
      <3>1. /\ db' = [db EXCEPT ![j] = LapsedRow(db[j])]
            /\ db[j] # Absent
        BY <2>1 DEF LeaseLapse, Stall, Absent
      <3>2. LapsedRow(db[j]) \in Row
        BY <1>3, AssignedType
      <3>3. /\ LapsedRow(db[j]).idempotency_key = db[j].idempotency_key
            /\ LapsedRow(db[j]).status = db[j].status
            /\ LapsedRow(db[j]).finished = db[j].finished
        BY <1>3 DEF LapsedRow, Row
      <3>4. QED
        BY <3>1, <3>2, <3>3
    <2>2. CASE BackoffElapses(j)
      <3> DEFINE due == [db[j] EXCEPT !.next_attempt_at = "due"]
      <3>1. db' = [db EXCEPT ![j] = due] /\ db[j] # Absent
        BY <2>2 DEF BackoffElapses, Absent
      <3>2. /\ due \in Row
            /\ due.idempotency_key = db[j].idempotency_key
            /\ due.status = db[j].status
            /\ due.finished = db[j].finished
        BY <1>3 DEF Row
      <3>3. QED
        BY <3>1, <3>2
    <2>3. CASE Purge(j)
      <3>1. /\ db' = [db EXCEPT ![j] = Absent]
            /\ Absent.idempotency_key = NoKey
            /\ Absent.status = "absent"
        BY <2>3 DEF Purge, Absent
      <3>2. QED
        BY <3>1, AbsentType
    <2>4. QED
      BY <2>1, <2>2, <2>3 DEF Clock
  <1>5. PICK row \in Row :
          /\ db' = [db EXCEPT ![j] = row]
          /\ row.idempotency_key \in {db[j].idempotency_key, NoKey}
          /\ \/ row.status = db[j].status /\ row.finished = db[j].finished
             \/ row.status = "absent"
          /\ db[j] = Absent => row = Absent
    BY <1>4
  <1>6. TableInv'
    <2>1. row.status \in Terminal => row.finished
      BY <1>3, <1>5 DEF Terminal
    <2>2. row.status = "succeeded" => db[j].status = "succeeded"
      BY <1>5
    <2>3. row.status \in Active => db[j].status \in Active
      BY <1>5 DEF Active
    <2>4. QED
      BY <1>2, <1>5, <2>1, <2>2, <2>3, RewrittenTable
  <1>7. RetrierInv'
    BY <1>2, <1>5, KeptRetriers DEF TypeOK, TableTypeOK
  <1>8. QED
    BY <1>1, <1>6, <1>7

\* SessionInv is inductive.
LEMMA SessionStep == SessionInv /\ [Next]_vars => SessionInv'
  <1> SUFFICES ASSUME SessionInv, [Next]_vars PROVE SessionInv'
    OBVIOUS
  <1>1. TypeOK'
    BY TypeStep DEF SessionInv
  <1>2. CASE Next
    BY <1>1, <1>2, WorkerStepInv, CallerStepInv, RetrierStepInv, ClockStepInv
    DEF Next, SessionInv
  <1>3. CASE UNCHANGED vars
    BY <1>1, <1>3
    DEF vars, workerVars, retryVars, SessionInv, TableInv, WorkerInv, RetrierInv,
      TerminalIsPurgeable, SucceededMeansDone, UniqueActiveKeys, UnbornIsAbsent
  <1>4. QED
    BY <1>2, <1>3

\* The specification starts with an empty table and closed sessions.
LEMMA SessionInit == Init => SessionInv
  <1> SUFFICES ASSUME Init PROVE SessionInv
    OBVIOUS
  <1>1. TypeOK
    BY InitType
  <1>2. \A j \in Jobs : db[j] = Absent /\ db[j].status = "absent"
    BY DEF Init, Absent
  <1>3. TableInv
    BY <1>2 DEF TableInv, TerminalIsPurgeable, SucceededMeansDone,
      UniqueActiveKeys, UnbornIsAbsent, Active, Terminal
  <1>4. WorkerInv /\ RetrierInv
    BY DEF Init, WorkerInv, RetrierInv
  <1>5. QED
    BY <1>1, <1>3, <1>4 DEF SessionInv

\* SessionInv holds throughout, for any number of processes, crashes and stalls.
THEOREM SessionsCorrect == Spec => []SessionInv
  BY SessionInit, SessionStep, PTL DEF Spec

\* A row that ended carries finished_at, so cleanup_expired_records can delete it,
\* whichever stale worker or sweep ended it.
THEOREM TerminalRowsPurgeable == Spec => []TerminalIsPurgeable
  <1>1. SessionInv => TerminalIsPurgeable
    BY DEF SessionInv, TableInv
  <1>2. QED
    BY <1>1, SessionsCorrect, PTL

\* A row says "succeeded" only if a dispatcher completed the job.
THEOREM SuccessIsEarned == Spec => []SucceededMeansDone
  <1>1. SessionInv => SucceededMeansDone
    BY DEF SessionInv, TableInv
  <1>2. QED
    BY <1>1, SessionsCorrect, PTL

\* The retry endpoint never meets an IntegrityError, however many retries, enqueues and
\* workers run at once: clearing the idempotency key is enough.
THEOREM RetriesNeverConflict == Spec => []RetryNeverConflicts
  <1>1. SessionInv => RetryNeverConflicts
    BY DEF SessionInv, RetrierInv, RetryNeverConflicts
  <1>2. QED
    BY <1>1, SessionsCorrect, PTL

-----------------------------------------------------------------------------
(* Hypotheses on who is running *)

\* One worker process, and no two manual retries at once.
Alone ==
  /\ \A v, w \in Workers : v = w
  /\ \A q, r \in Retriers : q = r

\* What a row says of itself: who may start it has an attempt left, who runs has a lease,
\* and who has ended is not waiting for anything.
RowOK(row) ==
  /\ row.status = "absent" => row = Absent
  /\ row.status = "queued" =>
       row.attempts < row.max_attempts /\ row.lease_expires_at = "none"
  /\ row.status = "running" =>
       /\ row.attempts <= row.max_attempts
       /\ row.lease_expires_at # "none" /\ row.next_attempt_at = "none"
  /\ row.status \in Terminal =>
       /\ row.attempts <= row.max_attempts
       /\ row.lease_expires_at = "none" /\ row.next_attempt_at = "none"
  /\ row.status = "failed" => row.attempts = row.max_attempts

\* The row as it was loaded, but for the lease, which time and heartbeats move.
SameRun(row, loaded) == row = [loaded EXCEPT !.lease_expires_at = row.lease_expires_at]

\* What the one worker holds is running, and what it has loaded is still in the table.
HolderOK(w) ==
  /\ wpc[w] \in HoldsJob => db[job[w]].status = "running"
  /\ wpc[w] = "finishing" =>
       /\ SameRun(db[job[w]], seen[w][job[w]])
       /\ RowOK(seen[w][job[w]])
  /\ wpc[w] = "sweeping" =>
       \A j \in Jobs : seen[w][j].status # "absent" => db[j] = seen[w][j] /\ Stale(db[j])

\* The row a retry has loaded is still in the table, unless it has been purged.
RetryOK(r) ==
  rpc[r] = "loaded" => db[target[r]] \in {rseen[r], Absent}

RowsOK == \A j \in Jobs : RowOK(db[j])

SoloInv ==
  /\ SessionInv
  /\ RowsOK
  /\ \A w \in Workers : HolderOK(w)
  /\ \A r \in Retriers : RetryOK(r)

-----------------------------------------------------------------------------
(* What a commit does to a row that has not moved since it was loaded *)

\* Writing back a row over itself writes it, but for the attempts.
LEMMA FlushOverItself ==
  ASSUME NEW row \in Row, NEW new \in Row, new.attempts = row.attempts
  PROVE  Flush(row, row, new) = new
  BY DEF Flush, Changed, Row

\* A claim uses one attempt up and leaves a running row with a live lease.
LEMMA ClaimedRow ==
  ASSUME NEW row \in Row, RowOK(row), Ready(row)
  PROVE  /\ RowOK(Claimed(row))
         /\ Claimed(row).status = "running" /\ row.status = "queued"
         /\ Claimed(row).lease_expires_at = "live"
         /\ Claimed(row).attempts = row.attempts + 1
         /\ Claimed(row).max_attempts = row.max_attempts
  BY DEF RowOK, Ready, Claimed, Row, Terminal

\* What a sweep commits over the row it loaded.
LEMMA RecoveredRow ==
  ASSUME NEW row \in Row, RowOK(row), row.status = "running"
  PROVE  LET new == Recovered(row)
         IN  /\ Stamped(Flush(row, row, new), new) = new
             /\ RowOK(new)
             /\ new.attempts = row.attempts /\ new.max_attempts = row.max_attempts
             /\ new.status = IF row.attempts < row.max_attempts THEN "queued" ELSE "failed"
  <1> DEFINE new == Recovered(row)
  <1>0. new \in Row
    BY AssignedType
  <1>a. row.next_attempt_at = "none"
    BY DEF RowOK
  <1>b. /\ new.attempts = row.attempts /\ new.max_attempts = row.max_attempts
        /\ new.status = IF row.attempts < row.max_attempts THEN "queued" ELSE "failed"
        /\ new.lease_expires_at = "none" /\ new.next_attempt_at = row.next_attempt_at
        /\ row.attempts < row.max_attempts \/ new.finished = TRUE
    BY DEF Recovered, Row
  <1>1. /\ new \in Row
        /\ new.attempts = row.attempts /\ new.max_attempts = row.max_attempts
        /\ new.status = IF row.attempts < row.max_attempts THEN "queued" ELSE "failed"
        /\ new.lease_expires_at = "none" /\ new.next_attempt_at = "none"
        /\ new.status = "failed" => new.finished = TRUE
        /\ row.attempts <= row.max_attempts
    BY <1>0, <1>a, <1>b DEF RowOK
  <1>2. RowOK(new)
    BY <1>1 DEF RowOK, Terminal, Row
  <1>3. Flush(row, row, new) = new
    BY <1>1, FlushOverItself
  <1>4. new.status \in Terminal => [new EXCEPT !.finished = TRUE] = new
    BY <1>1 DEF Terminal, Row
  <1>5. Stamped(new, new) = new
    BY <1>4 DEF Stamped
  <1> QED BY <1>1, <1>2, <1>3, <1>5

\* What a finisher writes over the row it loaded, whatever became of the lease.
LEMMA EndedRow ==
  ASSUME NEW current \in Row, NEW loaded \in Row, NEW isFailure \in BOOLEAN,
         RowOK(loaded), loaded.status = "running", SameRun(current, loaded)
  PROVE  LET new == Finished(current, loaded, isFailure)
         IN  /\ RowOK(new)
             /\ new.attempts = current.attempts /\ new.max_attempts = current.max_attempts
             /\ new.status = IF ~isFailure THEN "succeeded"
                             ELSE IF current.attempts < current.max_attempts THEN "queued"
                             ELSE "failed"
  <1> DEFINE new == IF isFailure THEN Failed(loaded) ELSE Succeeded(loaded)
             flushed == Flush(current, loaded, new)
             row == Stamped(flushed, new)
  <1>1. /\ current.status = "running"
        /\ current.attempts = loaded.attempts
        /\ current.max_attempts = loaded.max_attempts
        /\ current.next_attempt_at = "none" /\ loaded.next_attempt_at = "none"
        /\ loaded.lease_expires_at # "none"
        /\ loaded.attempts <= loaded.max_attempts
    BY DEF SameRun, RowOK, Row
  <1>0. new \in Row
    BY AssignedType
  <1>2. /\ new.max_attempts = loaded.max_attempts
        /\ new.lease_expires_at = "none"
        /\ new.status = IF ~isFailure THEN "succeeded"
                        ELSE IF loaded.attempts < loaded.max_attempts THEN "queued"
                        ELSE "failed"
        /\ new.next_attempt_at = IF new.status = "queued" THEN "waiting" ELSE "none"
    BY <1>1 DEF Failed, Succeeded, Row
  <1>3. /\ flushed \in Row
        /\ flushed.attempts = current.attempts
        /\ flushed.max_attempts = current.max_attempts
        /\ flushed.lease_expires_at = "none"
        /\ flushed.status = new.status
        /\ flushed.next_attempt_at = new.next_attempt_at
    BY <1>0, <1>1, <1>2, FlushType DEF Flush, Changed
  <1>4. /\ row \in Row
        /\ row.attempts = current.attempts
        /\ row.max_attempts = current.max_attempts
        /\ row.lease_expires_at = "none"
        /\ row.status = new.status
        /\ row.next_attempt_at = new.next_attempt_at
    BY <1>3 DEF Stamped, Row
  <1>5. LET written == Finished(current, loaded, isFailure)
        IN  /\ written \in Row
            /\ written.attempts = current.attempts
            /\ written.max_attempts = current.max_attempts
            /\ written.lease_expires_at = "none"
            /\ written.status = new.status
            /\ written.next_attempt_at = new.next_attempt_at
    <2>1. CASE isFailure /\ new.status = "queued"
      <3>1. Finished(current, loaded, isFailure) = [row EXCEPT !.next_attempt_at = "waiting"]
        BY <1>1, <2>1 DEF Finished
      <3>2. row.next_attempt_at = "waiting"
        BY <1>2, <1>4, <2>1
      <3>3. [row EXCEPT !.next_attempt_at = "waiting"] = row
        BY <1>4, <3>2 DEF Row
      <3> QED BY <1>4, <3>1, <3>3
    <2>2. CASE ~(isFailure /\ new.status = "queued")
      <3>1. Finished(current, loaded, isFailure) = row
        BY <1>1, <2>2 DEF Finished
      <3> QED BY <1>4, <3>1
    <2> QED BY <2>1, <2>2
  <1>6. RowOK(Finished(current, loaded, isFailure))
    BY <1>1, <1>2, <1>5 DEF RowOK, Terminal, Row
  <1> QED BY <1>1, <1>2, <1>5, <1>6

\* A retry of a row that is still as it was loaded buys exactly one attempt.
LEMMA RetriedFresh ==
  ASSUME NEW row \in Row, RowOK(row), row.status = "failed"
  PROVE  LET new == Flush(row, row, Retried(row))
         IN  /\ RowOK(new)
             /\ new.status = "queued"
             /\ new.max_attempts = new.attempts + 1
  <1> DEFINE new == Retried(row)
  <1>0. new \in Row
    BY AssignedType
  <1>a. row.attempts \in Nat /\ row.max_attempts = row.attempts
    BY DEF RowOK, Row
  <1>1. /\ new.attempts = row.attempts /\ new.max_attempts = row.attempts + 1
        /\ new.status = "queued" /\ new.lease_expires_at = "none"
    BY <1>a DEF Retried, Row
  <1>2. RowOK(new)
    BY <1>a, <1>1 DEF RowOK, Terminal, Row
  <1>3. Flush(row, row, new) = new
    BY <1>0, <1>1, FlushOverItself
  <1> QED BY <1>1, <1>2, <1>3

\* Time and heartbeats move the lease of a running row only, and leave it running.
LEMMA LeaseMoves ==
  ASSUME NEW row \in Row, RowOK(row)
  PROVE  /\ row.lease_expires_at = "live" => row.status = "running"
         /\ row.status = "running" =>
              /\ RowOK(Renewed(row)) /\ RowOK(LapsedRow(row))
              /\ SameRun(Renewed(row), row) /\ SameRun(LapsedRow(row), row)
              /\ Renewed(row).status = "running" /\ LapsedRow(row).status = "running"
  BY DEF RowOK, Renewed, LapsedRow, SameRun, Row, Absent, Active, Terminal

\* Two moves of the lease are one.
LEMMA SameRunTwice ==
  ASSUME NEW a \in Row, NEW b \in Row, NEW c \in Row, SameRun(a, b), SameRun(b, c)
  PROVE  SameRun(a, c)
  BY DEF SameRun, Row

-----------------------------------------------------------------------------
(* One worker: what it loaded stays *)

\* A worker that holds a job holds the id of a row.
LEMMA HeldJob ==
  ASSUME SoloInv, NEW w \in Workers, wpc[w] \in HoldsJob
  PROVE  /\ job[w] \in Jobs /\ db[job[w]] \in Row /\ seen[w][job[w]] \in Row
         /\ RowOK(db[job[w]]) /\ raised[w] \in BOOLEAN
         /\ db[job[w]].status = "running"
  BY DEF SoloInv, SessionInv, TypeOK, TableTypeOK, WorkerTypeOK, RowsOK, HolderOK

\* Retries keep what they loaded while no failed or purged row is written.
LEMMA RetriesKept ==
  ASSUME SoloInv, UNCHANGED retryVars,
         \A j \in Jobs : j < nextId /\ db[j].status \in {"failed", "absent"} =>
           db'[j] \in {db[j], Absent}
  PROVE  \A r \in Retriers : RetryOK(r)'
  <1> SUFFICES ASSUME NEW r \in Retriers, rpc[r] = "loaded"
               PROVE  db'[target[r]] \in {rseen[r], Absent}
    BY DEF RetryOK, retryVars
  <1>1. /\ target[r] \in Jobs /\ target[r] < nextId
        /\ rseen[r].status = "failed"
        /\ db[target[r]] \in {rseen[r], Absent}
    BY DEF SoloInv, SessionInv, TypeOK, RetrierTypeOK, RetrierInv, RetryOK
  <1>2. db[target[r]].status \in {"failed", "absent"}
    BY <1>1, AbsentStatus
  <1> QED BY <1>1, <1>2

\* A worker keeps what it loaded while running rows move by their lease only, and
\* lapsed ones not at all.
LEMMA HolderKept ==
  ASSUME SoloInv, NEW w \in Workers, UNCHANGED <<wpc, job, seen>>,
         \A j \in Jobs : db[j].status = "running" =>
           /\ db'[j] \in Row /\ SameRun(db'[j], db[j]) /\ db'[j].status = "running"
           /\ Stale(db[j]) => db'[j] = db[j]
  PROVE  HolderOK(w)'
  <1>1. wpc[w] \in HoldsJob => db'[job[w]].status = "running"
    BY HeldJob
  <1>2. ASSUME wpc[w] = "finishing"
        PROVE  SameRun(db'[job[w]], seen[w][job[w]]) /\ RowOK(seen[w][job[w]])
    <2>1. wpc[w] \in HoldsJob
      BY <1>2 DEF HoldsJob
    <2>2. SameRun(db[job[w]], seen[w][job[w]]) /\ RowOK(seen[w][job[w]])
      BY <1>2 DEF SoloInv, HolderOK
    <2> QED BY <2>1, <2>2, HeldJob, SameRunTwice
  <1>3. ASSUME wpc[w] = "sweeping", NEW j \in Jobs, seen[w][j].status # "absent"
        PROVE  db'[j] = seen[w][j] /\ Stale(db'[j])
    <2>1. db[j] = seen[w][j] /\ Stale(db[j])
      BY <1>3 DEF SoloInv, HolderOK
    <2> QED BY <2>1 DEF Stale
  <1> QED BY <1>1, <1>2, <1>3 DEF HolderOK

\* A worker that ends its round, or moves on without a job, holds nothing.
LEMMA HolderFree ==
  ASSUME NEW w \in Workers, wpc'[w] \in {"loop", "poll"}
  PROVE  HolderOK(w)'
  BY DEF HolderOK, HoldsJob

\* The end of a round is one.
LEMMA ForgetFrees ==
  ASSUME TypeOK, NEW w \in Workers, Forget(w)
  PROVE  wpc'[w] = "loop"
  BY DEF Forget, TypeOK, WorkerTypeOK

\* A row that is written leaves the others.
LEMMA OneRow ==
  ASSUME TypeOK, NEW j \in Jobs, NEW row, db' = [db EXCEPT ![j] = row]
  PROVE  db'[j] = row /\ \A i \in Jobs : i # j => db'[i] = db[i]
  BY DEF TypeOK, TableTypeOK

\* A commit of the sweep gives back the rows it loaded, and touches no other.
LEMMA SweepEffect ==
  ASSUME SoloInv, NEW w \in Workers, wpc[w] = "sweeping", NEW j \in Jobs
  PROVE  /\ seen[w][j].status = "absent" => Swept(db, seen[w])[j] = db[j]
         /\ seen[w][j].status # "absent" =>
              /\ db[j].status = "running"
              /\ Swept(db, seen[w])[j] = Recovered(db[j])
  <1>1. db[j] \in Row /\ RowOK(db[j])
    BY DEF SoloInv, SessionInv, TypeOK, TableTypeOK, RowsOK
  <1>2. CASE seen[w][j].status = "absent"
    BY <1>2 DEF Swept
  <1>3. CASE seen[w][j].status # "absent"
    <2>1. db[j] = seen[w][j] /\ db[j].status = "running"
      BY <1>3 DEF SoloInv, HolderOK, Stale
    <2>2. LET new == Recovered(db[j]) IN Stamped(Flush(db[j], db[j], new), new) = new
      BY <1>1, <2>1, RecoveredRow
    <2> QED BY <1>3, <2>1, <2>2 DEF Swept
  <1> QED BY <1>2, <1>3

\* Every step of the worker keeps SoloInv.
LEMMA SoloWorkerStep ==
  ASSUME SoloInv, NEW w \in Workers, Worker(w)
  PROVE  RowsOK' /\ HolderOK(w)' /\ \A r \in Retriers : RetryOK(r)'
  <1>0. /\ UNCHANGED <<nextId, retryVars>> /\ TypeOK
        /\ \A j \in Jobs : db[j] \in Row /\ RowOK(db[j])
    BY DEF Worker, SkipSweep, SweepRead, SweepWrite, Claim, NothingToClaim,
      ExecuteStart, HeartbeatRead, HeartbeatWrite, DispatcherReturns,
      DispatcherRaises, FinishWrite, Crash, Fault, HeartbeatFault,
      othersThanWorkers, SoloInv, SessionInv, TypeOK, TableTypeOK, RowsOK
  <1>1. ASSUME db' = db
        PROVE  RowsOK' /\ \A r \in Retriers : RetryOK(r)'
    BY <1>0, <1>1, RetriesKept DEF RowsOK
  <1>2. ASSUME NEW j \in Jobs, NEW row, RowOK(row), db' = [db EXCEPT ![j] = row],
               db[j].status \in {"queued", "running"}
        PROVE  RowsOK' /\ \A r \in Retriers : RetryOK(r)'
    <2>1. db'[j] = row /\ \A i \in Jobs : i # j => db'[i] = db[i]
      BY <1>0, <1>2, OneRow
    <2>2. \A r \in Retriers : RetryOK(r)'
      BY <1>0, <1>2, <2>1, RetriesKept
    <2> QED BY <1>0, <1>2, <2>1, <2>2 DEF RowsOK
  <1>3. CASE SkipSweep(w) \/ NothingToClaim(w)
    <2>1. db' = db /\ wpc'[w] \in {"loop", "poll"}
      BY <1>0, <1>3 DEF SkipSweep, NothingToClaim, Goto, TypeOK, WorkerTypeOK
    <2> QED BY <1>1, <2>1, HolderFree
  <1>4. CASE SweepRead(w)
    <2>1. db' = db
      BY <1>4 DEF SweepRead
    <2>2. CASE \E j \in Jobs : Stale(db[j])
      <3>1. /\ wpc'[w] = "sweeping"
            /\ \A j \in Jobs : seen'[w][j] = IF Stale(db[j]) THEN db[j] ELSE Absent
        BY <1>0, <1>4, <2>2 DEF SweepRead, TypeOK, WorkerTypeOK
      <3>2. HolderOK(w)'
        BY <2>1, <3>1, AbsentStatus DEF HolderOK, HoldsJob
      <3> QED BY <1>1, <2>1, <3>2
    <2>3. CASE ~\E j \in Jobs : Stale(db[j])
      <3>1. wpc'[w] = "poll"
        BY <1>0, <1>4, <2>3 DEF SweepRead, Goto, TypeOK, WorkerTypeOK
      <3> QED BY <1>1, <2>1, <3>1, HolderFree
    <2> QED BY <2>2, <2>3
  <1>5. CASE SweepWrite(w)
    <2>0. wpc[w] = "sweeping"
      BY <1>5 DEF SweepWrite
    <2>1. CASE SweepCommits(db, seen[w])
      <3>1. db' = Swept(db, seen[w]) /\ wpc'[w] = "poll"
        BY <1>0, <1>5, <2>1 DEF SweepWrite, TypeOK, WorkerTypeOK
      <3>2. ASSUME NEW j \in Jobs
            PROVE  /\ RowOK(db'[j])
                   /\ db[j].status \in {"failed", "absent"} => db'[j] = db[j]
        <4>1. CASE seen[w][j].status = "absent"
          BY <1>0, <2>0, <3>1, <4>1, SweepEffect
        <4>2. CASE seen[w][j].status # "absent"
          BY <1>0, <2>0, <3>1, <4>2, SweepEffect, RecoveredRow
        <4> QED BY <4>1, <4>2
      <3>3. \A r \in Retriers : RetryOK(r)'
        BY <1>0, <3>2, RetriesKept
      <3> QED BY <3>1, <3>2, <3>3, HolderFree DEF RowsOK
    <2>2. CASE ~SweepCommits(db, seen[w])
      <3>1. db' = db /\ Forget(w)
        BY <1>5, <2>2 DEF SweepWrite
      <3> QED BY <1>0, <1>1, <3>1, ForgetFrees, HolderFree
    <2> QED BY <2>1, <2>2
  <1>6. CASE Claim(w)
    <2>1. PICK j \in Jobs : /\ Ready(db[j])
                            /\ db' = [db EXCEPT ![j] = Claimed(db[j])]
                            /\ job' = [job EXCEPT ![w] = j]
      BY <1>6 DEF Claim
    <2>2. /\ RowOK(Claimed(db[j])) /\ Claimed(db[j]).status = "running"
          /\ db[j].status = "queued"
      BY <1>0, <2>1, ClaimedRow
    <2>3. db'[j] = Claimed(db[j])
      BY <1>0, <2>1, OneRow
    <2>4. wpc'[w] = "claimed" /\ job'[w] = j
      BY <1>0, <1>6, <2>1 DEF Claim, TypeOK, WorkerTypeOK
    <2>5. HolderOK(w)'
      BY <2>2, <2>3, <2>4 DEF HolderOK
    <2> QED BY <1>2, <2>1, <2>2, <2>5
  <1>7. CASE ExecuteStart(w)
    <2>1. /\ db' = db /\ wpc[w] \in HoldsJob
          /\ \/ wpc'[w] = "executing" /\ job'[w] = job[w]
             \/ Forget(w)
      BY <1>0, <1>7 DEF ExecuteStart, HoldsJob, TypeOK, WorkerTypeOK
    <2>2. CASE Forget(w)
      BY <1>0, <1>1, <2>1, <2>2, ForgetFrees, HolderFree
    <2>3. CASE wpc'[w] = "executing" /\ job'[w] = job[w]
      <3>1. HolderOK(w)'
        BY <2>1, <2>3, HeldJob DEF HolderOK
      <3> QED BY <1>1, <2>1, <3>1
    <2> QED BY <2>1, <2>2, <2>3
  <1>8. CASE HeartbeatRead(w) \/ HeartbeatFault(w)
    <2>1. /\ db' = db /\ wpc[w] \in HoldsJob
          /\ wpc'[w] \in {"executing", "beating"} /\ job'[w] = job[w]
      BY <1>0, <1>8
      DEF HeartbeatRead, HeartbeatFault, Goto, HoldsJob, TypeOK, WorkerTypeOK
    <2>2. HolderOK(w)'
      BY <2>1, HeldJob DEF HolderOK
    <2> QED BY <1>1, <2>1, <2>2
  <1>9. CASE HeartbeatWrite(w)
    <2>1. wpc[w] \in HoldsJob /\ wpc'[w] = "executing" /\ job'[w] = job[w]
      BY <1>0, <1>9 DEF HeartbeatWrite, HoldsJob, TypeOK, WorkerTypeOK
    <2>2. /\ job[w] \in Jobs /\ db[job[w]] \in Row /\ RowOK(db[job[w]])
          /\ db[job[w]].status = "running"
      BY <2>1, HeldJob
    <2>3. db' = [db EXCEPT ![job[w]] = Renewed(db[job[w]])]
      BY <1>9, <2>2 DEF HeartbeatWrite
    <2>4. RowOK(Renewed(db[job[w]])) /\ Renewed(db[job[w]]).status = "running"
      BY <2>2, LeaseMoves
    <2>5. db'[job[w]] = Renewed(db[job[w]])
      BY <1>0, <2>2, <2>3, OneRow
    <2>6. HolderOK(w)'
      BY <2>1, <2>4, <2>5 DEF HolderOK
    <2> QED BY <1>2, <2>2, <2>3, <2>4, <2>6
  <1>10. CASE DispatcherReturns(w) \/ DispatcherRaises(w)
    <2>1. /\ db' = db /\ wpc[w] \in HoldsJob
          /\ \/ Forget(w)
             \/ FinishRead(w, TRUE) \/ FinishRead(w, FALSE)
      BY <1>10 DEF DispatcherReturns, DispatcherRaises, HoldsJob
    <2>2. CASE Forget(w)
      BY <1>0, <1>1, <2>1, <2>2, ForgetFrees, HolderFree
    <2>3. CASE ~Forget(w)
      <3>1. /\ job[w] \in Jobs /\ db[job[w]] \in Row /\ RowOK(db[job[w]])
            /\ db[job[w]].status = "running"
        BY <2>1, HeldJob
      <3>2. /\ wpc' = [wpc EXCEPT ![w] = "finishing"]
            /\ seen' = [seen EXCEPT ![w][job[w]] = db[job[w]]]
            /\ job' = job
        BY <2>1, <2>3 DEF FinishRead
      <3>3. wpc'[w] = "finishing" /\ seen'[w][job[w]] = db[job[w]] /\ job'[w] = job[w]
        BY <1>0, <3>1, <3>2 DEF TypeOK, WorkerTypeOK
      <3>4. SameRun(db[job[w]], db[job[w]])
        BY <3>1 DEF SameRun, Row
      <3>5. HolderOK(w)'
        BY <2>1, <3>1, <3>3, <3>4 DEF HolderOK
      <3> QED BY <1>1, <2>1, <3>5
    <2> QED BY <2>2, <2>3
  <1>11. CASE FinishWrite(w)
    <2> DEFINE j == job[w]
               row == Finished(db[j], seen[w][j], raised[w])
    <2>1. wpc[w] = "finishing" /\ wpc[w] \in HoldsJob /\ Forget(w)
      BY <1>11 DEF FinishWrite, HoldsJob
    <2>2. /\ j \in Jobs /\ db[j] \in Row /\ seen[w][j] \in Row /\ raised[w] \in BOOLEAN
          /\ db[j].status = "running"
      BY <2>1, HeldJob
    <2>3. SameRun(db[j], seen[w][j]) /\ RowOK(seen[w][j]) /\ seen[w][j].status = "running"
      BY <2>1, <2>2 DEF SoloInv, HolderOK, SameRun, Row
    <2>4. RowOK(row)
      BY <2>2, <2>3, EndedRow
    <2>5. db' = db \/ db' = [db EXCEPT ![j] = row]
      BY <1>11 DEF FinishWrite
    <2>6. HolderOK(w)'
      BY <1>0, <2>1, ForgetFrees, HolderFree
    <2>7. CASE db' = [db EXCEPT ![j] = row]
      BY <1>2, <2>2, <2>4, <2>6, <2>7
    <2> QED BY <1>1, <2>5, <2>6, <2>7
  <1>12. CASE Crash(w) \/ Fault(w)
    <2>1. db' = db /\ Forget(w)
      BY <1>12 DEF Crash, Fault
    <2> QED BY <1>0, <1>1, <2>1, ForgetFrees, HolderFree
  <1> QED BY <1>3, <1>4, <1>5, <1>6, <1>7, <1>8, <1>9, <1>10, <1>11, <1>12 DEF Worker

\* Enqueuing adds a queued row, of which no worker and no retry has heard.
LEMMA SoloCallerStep ==
  ASSUME SoloInv, NEW c \in Callers, Caller(c)
  PROVE  /\ RowsOK'
         /\ \A w \in Workers : HolderOK(w)'
         /\ \A r \in Retriers : RetryOK(r)'
  <1>0. /\ UNCHANGED <<wpc, job, seen, retryVars>> /\ TypeOK
        /\ \A j \in Jobs : db[j] \in Row /\ RowOK(db[j]) /\ SameRun(db[j], db[j])
    BY DEF Caller, EnqueueRead, EnqueueInsert, EnqueueReselect, othersThanCallers,
      workerVars, SoloInv, SessionInv, TypeOK, TableTypeOK, RowsOK, SameRun, Row
  <1>1. CASE db' = db
    BY <1>0, <1>1, RetriesKept, HolderKept DEF RowsOK
  <1>2. CASE db' # db
    <2>1. PICK limit \in AttemptLimits :
            nextId \in Jobs /\ db' = [db EXCEPT ![nextId] = NewRow(want[c], limit)]
      BY <1>2 DEF Caller, EnqueueRead, EnqueueInsert, EnqueueReselect
    <2>2. /\ db'[nextId] = NewRow(want[c], limit)
          /\ \A i \in Jobs : i # nextId => db'[i] = db[i]
      BY <1>0, <2>1, OneRow
    <2>3. limit \in Nat /\ 0 < limit
      BY ConstantsAssumption
    <2>4. RowOK(NewRow(want[c], limit))
      BY <2>3 DEF RowOK, NewRow, Absent, Terminal
    <2>5. db[nextId].status = "absent"
      BY <2>1, AbsentStatus, ConstantsAssumption
      DEF SoloInv, SessionInv, TableInv, UnbornIsAbsent, Jobs
    <2>6. \A r \in Retriers : RetryOK(r)'
      <3>1. \A j \in Jobs : j < nextId => j # nextId
        BY <2>1, ConstantsAssumption DEF Jobs
      <3> QED BY <1>0, <2>2, <3>1, RetriesKept
    <2>7. \A w \in Workers : HolderOK(w)'
      BY <1>0, <2>2, <2>5, HolderKept
    <2> QED BY <1>0, <2>2, <2>4, <2>6, <2>7 DEF RowsOK
  <1> QED BY <1>1, <1>2

\* What a retry may do to the table while its row stays as loaded: nothing, or queue it
\* with one attempt to spend.
LEMMA RetryEffect ==
  ASSUME SoloInv, NEW r \in Retriers, RetryWrite(r), db' # db
  PROVE  \E j \in Jobs, row \in Row :
           /\ db[j].status = "failed"
           /\ db' = [db EXCEPT ![j] = row]
           /\ RowOK(row) /\ row.status = "queued"
           /\ row.max_attempts = row.attempts + 1
  <1> DEFINE j == target[r]
             row == Flush(db[j], rseen[r], Retried(rseen[r]))
  <1>1. /\ rpc[r] = "loaded" /\ db[j].status # "absent"
        /\ db' = [db EXCEPT ![j] = row]
    BY DEF RetryWrite
  <1>2. /\ j \in Jobs /\ rseen[r] \in Row /\ rseen[r].status = "failed"
        /\ db[j] = rseen[r]
    BY <1>1, AbsentStatus
    DEF SoloInv, SessionInv, TypeOK, RetrierTypeOK, RetrierInv, RetryOK
  <1>3. RowOK(rseen[r])
    BY <1>2 DEF SoloInv, RowsOK
  <1>4. RowOK(row) /\ row.status = "queued" /\ row.max_attempts = row.attempts + 1
    BY <1>2, <1>3, RetriedFresh
  <1>5. row \in Row
    BY <1>2, AssignedType, FlushType
  <1> QED BY <1>1, <1>2, <1>4, <1>5

\* Every step of the only retrier keeps SoloInv.
LEMMA SoloRetrierStep ==
  ASSUME SoloInv, Alone, NEW r \in Retriers, Retrier(r)
  PROVE  /\ RowsOK'
         /\ \A w \in Workers : HolderOK(w)'
         /\ \A q \in Retriers : RetryOK(q)'
  <1>0. /\ UNCHANGED <<wpc, job, seen>> /\ TypeOK
        /\ \A j \in Jobs : db[j] \in Row /\ RowOK(db[j]) /\ SameRun(db[j], db[j])
    BY DEF Retrier, RetryRead, RetryWrite, othersThanRetriers,
      workerVars, SoloInv, SessionInv, TypeOK, TableTypeOK, RowsOK, SameRun, Row
  <1>1. ASSUME db' = db
        PROVE  RowsOK' /\ \A w \in Workers : HolderOK(w)'
    BY <1>0, <1>1, HolderKept DEF RowsOK
  <1>2. CASE RetryRead(r)
    <2>1. PICK j \in Jobs : /\ target' = [target EXCEPT ![r] = j]
                            /\ rseen' = [rseen EXCEPT ![r] = db[j]]
      BY <1>2 DEF RetryRead
    <2>2. db' = db /\ target'[r] = j /\ rseen'[r] = db[j]
      BY <1>0, <1>2, <2>1 DEF RetryRead, TypeOK, RetrierTypeOK
    <2>3. \A q \in Retriers : RetryOK(q)'
      BY <2>2 DEF Alone, RetryOK
    <2> QED BY <1>1, <2>2, <2>3
  <1>3. CASE RetryWrite(r)
    <2>1. rpc'[r] # "loaded"
      BY <1>0, <1>3 DEF RetryWrite, TypeOK, RetrierTypeOK
    <2>2. \A q \in Retriers : RetryOK(q)'
      BY <2>1 DEF Alone, RetryOK
    <2>3. CASE db' # db
      <3>1. PICK j \in Jobs, row \in Row :
              /\ db[j].status = "failed"
              /\ db' = [db EXCEPT ![j] = row] /\ RowOK(row)
        BY <1>3, <2>3, RetryEffect
      <3>2. db'[j] = row /\ \A i \in Jobs : i # j => db'[i] = db[i]
        BY <1>0, <3>1, OneRow
      <3>3. \A w \in Workers : HolderOK(w)'
        BY <1>0, <3>1, <3>2, HolderKept
      <3> QED BY <1>0, <2>2, <3>1, <3>2, <3>3 DEF RowsOK
    <2> QED BY <1>1, <2>2, <2>3
  <1> QED BY <1>2, <1>3 DEF Retrier

\* Time moves leases of running rows and backoffs of queued ones; a purge takes rows
\* that have ended.
LEMMA ClockEffect ==
  ASSUME SoloInv, NEW j \in Jobs, Clock(j)
  PROVE  \E row \in Row :
           /\ db' = [db EXCEPT ![j] = row] /\ RowOK(row)
           /\ \/ /\ db[j].status = "running" /\ db[j].lease_expires_at = "live"
                 /\ row = LapsedRow(db[j])
              \/ /\ db[j].status = "queued"
                 /\ row = [db[j] EXCEPT !.next_attempt_at = "due"]
              \/ db[j].status \in Terminal /\ row = Absent
  <1>0. db[j] \in Row /\ RowOK(db[j])
    BY DEF SoloInv, SessionInv, TypeOK, TableTypeOK, RowsOK
  <1>1. CASE LeaseLapse(j) \/ Stall(j)
    <2>1. /\ db' = [db EXCEPT ![j] = LapsedRow(db[j])]
          /\ db[j].lease_expires_at = "live"
      BY <1>1 DEF LeaseLapse, Stall
    <2> QED BY <1>0, <2>1, LeaseMoves, AssignedType
  <1>2. CASE BackoffElapses(j)
    <2> DEFINE row == [db[j] EXCEPT !.next_attempt_at = "due"]
    <2>1. db' = [db EXCEPT ![j] = row] /\ db[j].next_attempt_at = "waiting"
      BY <1>2 DEF BackoffElapses
    <2>2. db[j].status = "queued"
      BY <1>0, <2>1 DEF RowOK, Absent, Row, Active, Terminal
    <2>3. row \in Row /\ RowOK(row)
      BY <1>0, <2>2 DEF RowOK, Row, Terminal
    <2> QED BY <2>1, <2>2, <2>3
  <1>3. CASE Purge(j)
    <2>1. RowOK(Absent)
      BY DEF RowOK, Absent, Terminal
    <2> QED BY <1>3, <2>1, AbsentType DEF Purge
  <1> QED BY <1>1, <1>2, <1>3 DEF Clock

\* The passing of time and the purge keep SoloInv.
LEMMA SoloClockStep ==
  ASSUME SoloInv, NEW j \in Jobs, Clock(j)
  PROVE  /\ RowsOK'
         /\ \A w \in Workers : HolderOK(w)'
         /\ \A r \in Retriers : RetryOK(r)'
  <1>0. /\ UNCHANGED <<wpc, job, seen, retryVars>> /\ TypeOK
        /\ \A i \in Jobs : db[i] \in Row /\ RowOK(db[i]) /\ SameRun(db[i], db[i])
    BY DEF Clock, LeaseLapse, Stall, BackoffElapses, Purge, environment,
      workerVars, SoloInv, SessionInv, TypeOK, TableTypeOK, RowsOK, SameRun, Row
  <1>1. PICK row \in Row :
          /\ db' = [db EXCEPT ![j] = row] /\ RowOK(row)
          /\ \/ /\ db[j].status = "running" /\ db[j].lease_expires_at = "live"
                /\ row = LapsedRow(db[j])
             \/ db[j].status = "queued"
             \/ db[j].status \in Terminal /\ row = Absent
    BY ClockEffect
  <1>2. db'[j] = row /\ \A i \in Jobs : i # j => db'[i] = db[i]
    BY <1>0, <1>1, OneRow
  <1>3. \A r \in Retriers : RetryOK(r)'
    <2>1. db[j].status \in {"failed", "absent"} => row = Absent
      BY <1>1 DEF Terminal
    <2> QED BY <1>0, <1>2, <2>1, RetriesKept
  <1>4. \A w \in Workers : HolderOK(w)'
    <2>1. db[j].status = "running" =>
            SameRun(row, db[j]) /\ row.status = "running" /\ ~Stale(db[j])
      BY <1>0, <1>1, LeaseMoves DEF Stale, Terminal
    <2> QED BY <1>0, <1>2, <2>1, HolderKept
  <1> QED BY <1>0, <1>1, <1>2, <1>3, <1>4 DEF RowsOK

\* SoloInv is inductive.
LEMMA SoloStep ==
  ASSUME SoloInv, Alone, [Next]_vars
  PROVE  SoloInv'
  <1>1. SessionInv'
    BY SessionStep DEF SoloInv
  <1>2. CASE Next
    <2>1. ASSUME NEW w \in Workers, Worker(w)
          PROVE  RowsOK' /\ (\A v \in Workers : HolderOK(v)') /\ (\A r \in Retriers : RetryOK(r)')
      <3>1. RowsOK' /\ HolderOK(w)' /\ \A r \in Retriers : RetryOK(r)'
        BY <2>1, SoloWorkerStep
      <3>2. \A v \in Workers : v = w
        BY DEF Alone
      <3> QED BY <3>1, <3>2
    <2> QED BY <1>1, <1>2, <2>1, SoloCallerStep, SoloRetrierStep, SoloClockStep
            DEF Next, SoloInv
  <1>3. CASE UNCHANGED vars
    BY <1>1, <1>3
    DEF vars, workerVars, retryVars, SoloInv, RowsOK, HolderOK, RetryOK
  <1> QED BY <1>2, <1>3

\* With one worker process and one retry at a time, what a process has loaded is still
\* what the table holds when it writes, through crashes, stalls and faults.
THEOREM SoloCorrect ==
  ASSUME Alone PROVE Spec => []SoloInv
  <1>1. Init => SoloInv
    <2> SUFFICES ASSUME Init PROVE SoloInv
      OBVIOUS
    <2>1. SessionInv
      BY SessionInit
    <2>2. RowsOK
      BY DEF Init, RowsOK, RowOK, Absent, Terminal
    <2>3. (\A w \in Workers : HolderOK(w)) /\ \A r \in Retriers : RetryOK(r)
      BY DEF Init, HolderOK, HoldsJob, RetryOK
    <2> QED BY <2>1, <2>2, <2>3 DEF SoloInv
  <1>2. SoloInv /\ [Next]_vars => SoloInv'
    BY SoloStep
  <1> QED BY <1>1, <1>2, PTL DEF Spec

\* With one worker process no job is started more often than its max_attempts allows,
\* although the claim never compares the two: every writer of "queued" leaves a row that
\* has an attempt to spend.
THEOREM AttemptsAreBounded ==
  ASSUME Alone PROVE Spec => []AttemptsWithinMax
  <1>1. SoloInv => AttemptsWithinMax
    <2> SUFFICES ASSUME SoloInv, NEW j \in Jobs
                 PROVE  db[j].attempts <= db[j].max_attempts
      BY DEF AttemptsWithinMax
    <2>1. db[j] \in Row /\ RowOK(db[j])
      BY DEF SoloInv, SessionInv, TypeOK, TableTypeOK, RowsOK
    <2> QED BY <2>1 DEF RowOK, Row, Absent, Active, Terminal
  <1> QED BY <1>1, SoloCorrect, PTL

\* With one worker process a running row has a lease at every moment, so the sweep finds
\* whatever a crash leaves behind.
THEOREM RunningRowsAreRecoverable ==
  ASSUME Alone PROVE Spec => []RunningIsRecoverable
  <1>1. SoloInv => RunningIsRecoverable
    BY DEF SoloInv, RowsOK, RowOK, RunningIsRecoverable
  <1> QED BY <1>1, SoloCorrect, PTL

-----------------------------------------------------------------------------
(* One worker: the queue implements JobLifecycle *)

\* What a poller sees of a row, and the attempts it has left.
SeenStatus(row, born) ==
  IF row.status # "absent" THEN row.status ELSE IF born THEN "gone" ELSE "unborn"

Status == [j \in Jobs |-> SeenStatus(db[j], j < nextId)]
Left == [j \in Jobs |-> db[j].max_attempts - db[j].attempts]

\* The instance is about these two and done.
LEMMA LifecycleVars ==
  /\ Lifecycle!Init <=> /\ Status = [j \in Jobs |-> "unborn"]
                        /\ Left = [j \in Jobs |-> 0]
                        /\ done = {}
  BY DEF Lifecycle!Init, Status, SeenStatus, Left

\* A step that writes one row moves what the poller of that row sees, and nothing else.
LEMMA OneLifeMoves ==
  ASSUME TypeOK, NEW j \in Jobs, NEW row, db' = [db EXCEPT ![j] = row],
         nextId' = nextId
  PROVE  /\ Status' = [Status EXCEPT ![j] = SeenStatus(row, j < nextId)]
         /\ Left' = [Left EXCEPT ![j] = row.max_attempts - row.attempts]
  <1>1. db'[j] = row /\ \A i \in Jobs : i # j => db'[i] = db[i]
    BY OneRow
  <1>2. \A i \in Jobs : SeenStatus(db'[i], i < nextId')
                        = IF i = j THEN SeenStatus(row, j < nextId)
                          ELSE SeenStatus(db[i], i < nextId)
    BY <1>1
  <1>3. \A i \in Jobs : db'[i].max_attempts - db'[i].attempts
                        = IF i = j THEN row.max_attempts - row.attempts
                          ELSE db[i].max_attempts - db[i].attempts
    BY <1>1
  <1>4. Status' = [Status EXCEPT ![j] = SeenStatus(row, j < nextId)]
    BY <1>2 DEF Status
  <1>5. Left' = [Left EXCEPT ![j] = row.max_attempts - row.attempts]
    BY <1>3 DEF Left
  <1> QED BY <1>4, <1>5

\* A step that shows a poller nothing is one the lifecycle allows.
LEMMA NothingSeen ==
  ASSUME UNCHANGED <<db, nextId, done>>
  PROVE  UNCHANGED <<Status, Left, done>>
  BY DEF Status, Left

\* What a poller sees of a row that is there.
LEMMA SeenRow ==
  ASSUME SoloInv, NEW j \in Jobs
  PROVE  /\ db[j] \in Row /\ RowOK(db[j])
         /\ db[j].status # "absent" => Status[j] = db[j].status /\ j < nextId
         /\ Left[j] = db[j].max_attempts - db[j].attempts
  <1>1. db[j] \in Row /\ RowOK(db[j]) /\ nextId \in Nat /\ j \in Nat
    BY ConstantsAssumption DEF SoloInv, SessionInv, TypeOK, TableTypeOK, RowsOK, Jobs
  <1>2. db[j].status # "absent" => j < nextId
    BY <1>1, AbsentStatus DEF SoloInv, SessionInv, TableInv, UnbornIsAbsent
  <1> QED BY <1>1, <1>2 DEF Status, SeenStatus, Left

\* A claim starts an attempt.
LEMMA ClaimStarts ==
  ASSUME SoloInv, NEW w \in Workers, Claim(w)
  PROVE  Lifecycle!Next
  <1>1. PICK j \in Jobs : Ready(db[j]) /\ db' = [db EXCEPT ![j] = Claimed(db[j])]
    BY DEF Claim
  <1>2. TypeOK /\ nextId' = nextId /\ done' = done
    BY DEF Claim, othersThanWorkers, SoloInv, SessionInv
  <1>3. /\ db[j] \in Row /\ RowOK(db[j]) /\ db[j].status = "queued"
        /\ Claimed(db[j]).status = "running"
        /\ Claimed(db[j]).attempts = db[j].attempts + 1
        /\ Claimed(db[j]).max_attempts = db[j].max_attempts
    BY <1>1, SeenRow, ClaimedRow
  <1>4. Status[j] = "queued" /\ Left[j] > 0
    BY <1>3, SeenRow DEF RowOK, Row
  <1>5. Status' = [Status EXCEPT ![j] = "running"]
    BY <1>1, <1>2, <1>3, OneLifeMoves DEF SeenStatus
  <1>6. Left' = [Left EXCEPT ![j] = @ - 1]
    <2>1. Claimed(db[j]).max_attempts - Claimed(db[j]).attempts = Left[j] - 1
      BY <1>3, SeenRow DEF Row
    <2> QED BY <1>1, <1>2, <2>1, OneLifeMoves
  <1>7. Lifecycle!Start(j)
    BY <1>2, <1>4, <1>5, <1>6 DEF Lifecycle!Start, Status, SeenStatus, Left
  <1> QED BY <1>7 DEF Lifecycle!Next

\* A result completes the work, whether or not it will be recorded.
LEMMA ReturnCompletes ==
  ASSUME SoloInv, NEW w \in Workers, DispatcherReturns(w)
  PROVE  Lifecycle!Next
  <1>1. /\ UNCHANGED <<db, nextId>> /\ done' = done \cup {job[w]}
        /\ wpc[w] \in HoldsJob
    BY DEF DispatcherReturns, othersThanWorkers, HoldsJob
  <1>2. job[w] \in Jobs /\ db[job[w]].status = "running"
    BY <1>1, HeldJob
  <1>a. PICK j \in Jobs : j = job[w]
    BY <1>2
  <1>3. Status[j] = "running"
    BY <1>2, <1>a, SeenRow
  <1>4. UNCHANGED <<Status, Left>>
    BY <1>1 DEF Status, Left
  <1>5. Lifecycle!Complete(j)
    BY <1>1, <1>a, <1>3, <1>4 DEF Lifecycle!Complete, Status, SeenStatus, Left
  <1> QED BY <1>5 DEF Lifecycle!Next

\* A sweep gives back the attempts of the rows it found, all in one step.
LEMMA SweepGivesBack ==
  ASSUME SoloInv, NEW w \in Workers, SweepWrite(w), db' # db
  PROVE  Lifecycle!Next
  <1>0. PICK S \in SUBSET Jobs : S = {j \in Jobs : seen[w][j].status # "absent"}
    OBVIOUS
  <1>1. /\ wpc[w] = "sweeping" /\ db' = Swept(db, seen[w])
        /\ nextId' = nextId /\ done' = done
    BY DEF SweepWrite, othersThanWorkers
  <1>2. ASSUME NEW j \in Jobs
        PROVE  /\ SeenStatus(db'[j], j < nextId')
                    = IF j \notin S THEN Status[j]
                      ELSE IF Left[j] > 0 THEN "queued" ELSE "failed"
               /\ db'[j].max_attempts - db'[j].attempts = Left[j]
               /\ j \in S => Status[j] = "running"
    <2>1. CASE j \notin S
      <3>1. db'[j] = db[j]
        BY <1>0, <1>1, <2>1, SweepEffect
      <3> QED BY <1>1, <2>1, <3>1 DEF Status, Left
    <2>2. CASE j \in S
      <3>1. db[j].status = "running" /\ db'[j] = Recovered(db[j])
        BY <1>0, <1>1, <2>2, SweepEffect
      <3>2. /\ db[j] \in Row /\ RowOK(db[j]) /\ Status[j] = "running"
            /\ Left[j] = db[j].max_attempts - db[j].attempts
        BY <3>1, SeenRow
      <3>3. /\ db'[j].attempts = db[j].attempts
            /\ db'[j].max_attempts = db[j].max_attempts
            /\ db'[j].status = IF db[j].attempts < db[j].max_attempts
                               THEN "queued" ELSE "failed"
        BY <3>1, <3>2, RecoveredRow
      <3>4. db[j].attempts < db[j].max_attempts <=> Left[j] > 0
        BY <3>2 DEF Row
      <3> QED BY <2>2, <3>2, <3>3, <3>4 DEF SeenStatus
    <2> QED BY <2>1, <2>2
  <1>3. Status' = [j \in Jobs |-> IF j \notin S THEN Status[j]
                                  ELSE IF Left[j] > 0 THEN "queued" ELSE "failed"]
    BY <1>2 DEF Status
  <1>4. Left' = Left
    BY <1>2 DEF Left
  <1>5. Lifecycle!GiveBack(S)
    BY <1>1, <1>2, <1>3, <1>4 DEF Lifecycle!GiveBack, Status, SeenStatus, Left
  <1> QED BY <1>5 DEF Lifecycle!Next

\* The record of an attempt is a success of completed work, or gives the attempt back.
LEMMA FinishEnds ==
  ASSUME SoloInv, NEW w \in Workers, FinishWrite(w), db' # db
  PROVE  Lifecycle!Next
  <1>0. wpc[w] = "finishing" /\ wpc[w] \in HoldsJob
    BY DEF FinishWrite, HoldsJob
  <1>a. PICK j \in Jobs : j = job[w]
    BY <1>0, HeldJob
  <1> DEFINE row == Finished(db[j], seen[w][j], raised[w])
  <1>1. /\ db' = [db EXCEPT ![j] = row]
        /\ nextId' = nextId /\ done' = done
    BY <1>a DEF FinishWrite, othersThanWorkers
  <1>2. /\ j \in Jobs /\ db[j] \in Row /\ seen[w][j] \in Row /\ raised[w] \in BOOLEAN
        /\ db[j].status = "running"
    BY <1>0, <1>a, HeldJob
  <1>3. SameRun(db[j], seen[w][j]) /\ RowOK(seen[w][j]) /\ seen[w][j].status = "running"
    BY <1>0, <1>a, <1>2 DEF SoloInv, HolderOK, SameRun, Row
  <1>4. /\ row.attempts = db[j].attempts /\ row.max_attempts = db[j].max_attempts
        /\ row.status = IF ~raised[w] THEN "succeeded"
                        ELSE IF db[j].attempts < db[j].max_attempts THEN "queued"
                        ELSE "failed"
    BY <1>2, <1>3, EndedRow
  <1>5. TypeOK /\ Status[j] = "running" /\ Left[j] = db[j].max_attempts - db[j].attempts
    BY <1>2, SeenRow DEF SoloInv, SessionInv
  <1>6. Left' = Left
    BY <1>1, <1>2, <1>4, <1>5, OneLifeMoves DEF Left
  <1>7. Status' = [Status EXCEPT ![j] = row.status]
    BY <1>1, <1>2, <1>4, <1>5, OneLifeMoves DEF SeenStatus
  <1>8. CASE ~raised[w]
    <2>1. j \in done
      BY <1>0, <1>a, <1>8 DEF SoloInv, SessionInv, WorkerInv
    <2>2. Lifecycle!Succeed(j)
      BY <1>1, <1>4, <1>5, <1>6, <1>7, <1>8, <2>1 DEF Lifecycle!Succeed, Status, SeenStatus, Left
    <2> QED BY <1>2, <2>2 DEF Lifecycle!Next
  <1>9. CASE raised[w]
    <2>1. db[j].attempts < db[j].max_attempts <=> Left[j] > 0
      BY <1>2, <1>5 DEF Row
    <2>2. row.status = IF Left[j] > 0 THEN "queued" ELSE "failed"
      BY <1>4, <1>9, <2>1
    <2>3. Status' = [i \in Jobs |-> IF i \notin {j} THEN Status[i]
                                    ELSE IF Left[i] > 0 THEN "queued" ELSE "failed"]
      BY <1>7, <2>2 DEF Status
    <2>4. Lifecycle!GiveBack({j})
      BY <1>1, <1>5, <1>6, <2>3 DEF Lifecycle!GiveBack, Status, SeenStatus, Left
    <2>5. {j} \in SUBSET Jobs
      BY <1>2
    <2> QED BY <2>4, <2>5 DEF Lifecycle!Next
  <1> QED BY <1>2, <1>8, <1>9

\* Enqueuing gives a job that nobody has seen a number of attempts.
LEMMA InsertEnqueues ==
  ASSUME SoloInv, NEW c \in Callers, Caller(c), ~UNCHANGED <<db, nextId>>
  PROVE  Lifecycle!Next
  <1>1. PICK limit \in AttemptLimits :
          /\ nextId \in Jobs /\ db' = [db EXCEPT ![nextId] = NewRow(want[c], limit)]
          /\ nextId' = nextId + 1
    BY DEF Caller, EnqueueRead, EnqueueInsert, EnqueueReselect
  <1>a. PICK j \in Jobs : j = nextId
    BY <1>1
  <1>2. TypeOK /\ done' = done
    BY DEF Caller, EnqueueRead, EnqueueInsert, EnqueueReselect, othersThanCallers,
       SoloInv, SessionInv
  <1>3. db'[j] = NewRow(want[c], limit) /\ \A i \in Jobs : i # j => db'[i] = db[i]
    BY <1>1, <1>a, <1>2, OneRow
  <1>4. db[j] = Absent /\ ~(j < nextId) /\ \A i \in Jobs : i # j => (i < nextId') = (i < nextId)
    BY <1>1, <1>a, ConstantsAssumption DEF SoloInv, SessionInv, TableInv, UnbornIsAbsent, Jobs
  <1>5. Status[j] = "unborn"
    BY <1>1, <1>a, <1>4, AbsentStatus DEF Status, SeenStatus
  <1>6. Status' = [Status EXCEPT ![j] = "queued"]
    <2>1. SeenStatus(db'[j], j < nextId') = "queued"
      BY <1>3 DEF SeenStatus, NewRow, Absent
    <2>2. \A i \in Jobs : i # j =>
            SeenStatus(db'[i], i < nextId') = SeenStatus(db[i], i < nextId)
      BY <1>a, <1>3, <1>4
    <2> QED BY <1>1, <1>a, <2>1, <2>2 DEF Status
  <1>7. Left' = [Left EXCEPT ![j] = limit]
    <2>1. db'[j].max_attempts - db'[j].attempts = limit
      BY <1>3, ConstantsAssumption DEF NewRow, Absent
    <2>2. \A i \in Jobs : db'[i].max_attempts - db'[i].attempts
                          = IF i = j THEN limit ELSE db[i].max_attempts - db[i].attempts
      BY <1>a, <1>3, <2>1
    <2> QED BY <2>2 DEF Left
  <1>8. Lifecycle!Enqueue(j)
    BY <1>2, <1>5, <1>6, <1>7 DEF Lifecycle!Enqueue, Status, SeenStatus, Left
  <1> QED BY <1>8 DEF Lifecycle!Next

\* A retry buys a failed job one more attempt.
LEMMA RetryBuysOne ==
  ASSUME SoloInv, NEW r \in Retriers, RetryWrite(r), db' # db
  PROVE  Lifecycle!Next
  <1>1. PICK j \in Jobs, row \in Row :
           /\ db[j].status = "failed" /\ db' = [db EXCEPT ![j] = row]
           /\ RowOK(row) /\ row.status = "queued" /\ row.max_attempts = row.attempts + 1
    BY RetryEffect
  <1>2. TypeOK /\ nextId' = nextId /\ done' = done
    BY DEF RetryWrite, othersThanRetriers, SoloInv, SessionInv
  <1>3. Status[j] = "failed"
    BY <1>1, SeenRow
  <1>4. row \in Row
    <2>1. TypeOK'
      BY TypeStep DEF SoloInv, SessionInv, Next, Retrier
    <2> QED BY <1>1, <1>2, <2>1, OneRow DEF TypeOK, TableTypeOK
  <1>5. row.max_attempts - row.attempts = 1
    BY <1>1, <1>4 DEF Row
  <1>6. Status' = [Status EXCEPT ![j] = "queued"] /\ Left' = [Left EXCEPT ![j] = 1]
    BY <1>1, <1>2, <1>5, OneLifeMoves DEF SeenStatus
  <1>7. Lifecycle!Retry(j)
    BY <1>2, <1>3, <1>6 DEF Lifecycle!Retry, Status, SeenStatus, Left
  <1> QED BY <1>7 DEF Lifecycle!Next

\* Of time a poller sees the purge only.
LEMMA ClockPurges ==
  ASSUME SoloInv, NEW j \in Jobs, Clock(j)
  PROVE  Lifecycle!Next \/ UNCHANGED <<Status, Left, done>>
  <1>1. PICK row \in Row :
          /\ db' = [db EXCEPT ![j] = row]
          /\ \/ db[j].status = "running" /\ row = LapsedRow(db[j])
             \/ db[j].status = "queued" /\ row = [db[j] EXCEPT !.next_attempt_at = "due"]
             \/ db[j].status \in Terminal /\ row = Absent
    BY ClockEffect
  <1>2. TypeOK /\ nextId' = nextId /\ done' = done
    BY DEF Clock, LeaseLapse, Stall, BackoffElapses, Purge, environment, SoloInv, SessionInv
  <1>3. /\ Status' = [Status EXCEPT ![j] = SeenStatus(row, j < nextId)]
        /\ Left' = [Left EXCEPT ![j] = row.max_attempts - row.attempts]
    BY <1>1, <1>2, OneLifeMoves
  <1>4. /\ db[j] \in Row
        /\ db[j].status # "absent" => Status[j] = db[j].status /\ j < nextId
        /\ Left[j] = db[j].max_attempts - db[j].attempts
    BY SeenRow
  <1>5. CASE db[j].status \in {"running", "queued"} /\ row # Absent
    <2>1. /\ row.status = db[j].status /\ row.attempts = db[j].attempts
          /\ row.max_attempts = db[j].max_attempts
      BY <1>1, <1>4, <1>5 DEF LapsedRow, Row, Terminal
    <2>2. SeenStatus(row, j < nextId) = Status[j]
      BY <1>4, <1>5, <2>1 DEF SeenStatus
    <2>3. Status' = Status /\ Left' = Left
      BY <1>3, <1>4, <2>1, <2>2 DEF Status, Left
    <2> QED BY <1>2, <2>3
  <1>6. CASE db[j].status \in Terminal /\ row = Absent
    <2>1. SeenStatus(row, j < nextId) = "gone" /\ row.max_attempts - row.attempts = 0
      BY <1>4, <1>6 DEF SeenStatus, Absent, Terminal
    <2>2. Status[j] \in {"succeeded", "failed"}
      BY <1>4, <1>6 DEF Terminal
    <2>3. Lifecycle!Purge(j)
      BY <1>2, <1>3, <2>1, <2>2 DEF Lifecycle!Purge, Status, SeenStatus, Left
    <2> QED BY <2>3 DEF Lifecycle!Next
  <1>7. row = Absent => db[j].status \in Terminal
    BY <1>1, <1>4 DEF LapsedRow, Absent, Row
  <1> QED BY <1>1, <1>5, <1>6, <1>7

\* Every step of the queue is one of the lifecycle, or shows a poller nothing.
LEMMA LifecycleStep ==
  ASSUME SoloInv, [Next]_vars
  PROVE  Lifecycle!Next \/ UNCHANGED <<Status, Left, done>>
  <1>1. CASE UNCHANGED vars
    BY <1>1, NothingSeen DEF vars
  <1>2. ASSUME NEW w \in Workers, Worker(w)
        PROVE  Lifecycle!Next \/ UNCHANGED <<Status, Left, done>>
    <2>1. CASE Claim(w) \/ DispatcherReturns(w)
      BY <2>1, ClaimStarts, ReturnCompletes
    <2>2. CASE SweepWrite(w) \/ FinishWrite(w)
      <3>1. nextId' = nextId /\ done' = done
        BY <2>2 DEF SweepWrite, FinishWrite, othersThanWorkers
      <3> QED BY <2>2, <3>1, SweepGivesBack, FinishEnds, NothingSeen
    <2>3. CASE HeartbeatWrite(w)
      <3>1. wpc[w] \in HoldsJob /\ nextId' = nextId /\ done' = done /\ TypeOK
        BY <2>3 DEF HeartbeatWrite, HoldsJob, othersThanWorkers, SoloInv, SessionInv
      <3>2. job[w] \in Jobs /\ db[job[w]] \in Row /\ db[job[w]].status = "running"
        BY <3>1, HeldJob
      <3>3. db' = [db EXCEPT ![job[w]] = Renewed(db[job[w]])]
        BY <2>3, <3>2 DEF HeartbeatWrite
      <3>4. /\ Renewed(db[job[w]]).status = "running"
            /\ Renewed(db[job[w]]).attempts = db[job[w]].attempts
            /\ Renewed(db[job[w]]).max_attempts = db[job[w]].max_attempts
        BY <3>2 DEF Renewed, Row
      <3>5. Status' = Status /\ Left' = Left
        BY <3>1, <3>2, <3>3, <3>4, OneLifeMoves DEF Status, Left, SeenStatus
      <3> QED BY <3>1, <3>5
    <2>4. CASE ~(Claim(w) \/ DispatcherReturns(w) \/ SweepWrite(w) \/ FinishWrite(w)
                 \/ HeartbeatWrite(w))
      <3>1. UNCHANGED <<db, nextId, done>>
        BY <1>2, <2>4 DEF Worker, SkipSweep, SweepRead, NothingToClaim, ExecuteStart,
          HeartbeatRead, DispatcherRaises, Crash, Fault, HeartbeatFault, othersThanWorkers
      <3> QED BY <3>1, NothingSeen
    <2> QED BY <2>1, <2>2, <2>3, <2>4
  <1>3. ASSUME NEW c \in Callers, Caller(c)
        PROVE  Lifecycle!Next \/ UNCHANGED <<Status, Left, done>>
    <2>1. done' = done
      BY <1>3 DEF Caller, EnqueueRead, EnqueueInsert, EnqueueReselect, othersThanCallers
    <2> QED BY <1>3, <2>1, InsertEnqueues, NothingSeen
  <1>4. ASSUME NEW r \in Retriers, Retrier(r)
        PROVE  Lifecycle!Next \/ UNCHANGED <<Status, Left, done>>
    <2>1. nextId' = nextId /\ done' = done /\ (RetryWrite(r) \/ db' = db)
      BY <1>4 DEF Retrier, RetryRead, RetryWrite, othersThanRetriers
    <2> QED BY <2>1, RetryBuysOne, NothingSeen
  <1> QED BY <1>1, <1>2, <1>3, <1>4, ClockPurges DEF Next

\* With one worker process and one retry at a time the queue implements JobLifecycle:
\* a run's status, its remaining attempts and its completed work move only as a poller
\* of the run may expect, whatever the worker's leases, sweeps and crashes do.
THEOREM QueueImplementsLifecycle ==
  ASSUME Alone PROVE Spec => ImplementsLifecycle
  <1>1. Init => Lifecycle!Init
    <2> SUFFICES ASSUME Init PROVE Lifecycle!Init
      OBVIOUS
    <2>1. \A j \in Jobs : db[j] = Absent /\ ~(j < nextId)
      BY ConstantsAssumption DEF Init, Jobs
    <2>2. Status = [j \in Jobs |-> "unborn"]
      BY <2>1, AbsentStatus DEF Status, SeenStatus
    <2>3. Left = [j \in Jobs |-> 0]
      BY <2>1 DEF Left, Absent
    <2> QED BY <2>2, <2>3, LifecycleVars DEF Init
  <1>2. SoloInv /\ [Next]_vars => [Lifecycle!Next]_(Lifecycle!lifecycleVars)
    BY LifecycleStep DEF Lifecycle!lifecycleVars, Status, Left, SeenStatus
  <1> QED BY <1>1, <1>2, SoloCorrect, PTL DEF Spec, ImplementsLifecycle, Lifecycle!Spec

-----------------------------------------------------------------------------
(* Any number of workers, until something goes wrong *)

\* No two manual retries at once.
OneRetry == \A q, r \in Retriers : q = r

Holds(w, j) == wpc[w] \in HoldsJob /\ job[w] = j

\* A running row has a holder, and completed work is recorded or about to be.
CalmRow(j) ==
  /\ db[j].status = "running" => \E w \in Workers : Holds(w, j)
  /\ j \in done =>
       /\ j < nextId
       /\ \/ db[j].status \in {"absent", "succeeded"}
          \/ \E w \in Workers : Holds(w, j) /\ wpc[w] = "finishing" /\ ~raised[w]

\* A holder is the only one, its heartbeat works, and its row is as it left it.
CalmHolder(w) ==
  /\ wpc[w] # "sweeping"
  /\ wpc[w] \in HoldsJob =>
       /\ db[job[w]].status = "running"
       /\ db[job[w]].lease_expires_at = "live" /\ db[job[w]].next_attempt_at = "none"
       /\ \A v \in Workers : Holds(v, job[w]) => v = w
  /\ wpc[w] \in {"executing", "beating"} => beat[w] = "on"
  /\ wpc[w] = "finishing" => seen[w][job[w]] = db[job[w]]

\* A row about to be retried is still failed, unless it has been purged.
CalmRetrier(r) ==
  rpc[r] = "loaded" => db[target[r]].status \in {"failed", "absent"}

Calm ==
  /\ \A j \in Jobs : CalmRow(j)
  /\ \A w \in Workers : CalmHolder(w)
  /\ \A r \in Retriers : CalmRetrier(r)

CalmInv == SessionInv /\ (Undisturbed => Calm)

\* What a finisher writes over a row that has not moved is an end, or a wait for the
\* next attempt.
LEMMA FinishedStatus ==
  ASSUME NEW row \in Row, NEW isFailure \in BOOLEAN, row.status = "running"
  PROVE  LET new == Finished(row, row, isFailure)
         IN  /\ new \in Row /\ new.status \in {"queued", "failed", "succeeded"}
             /\ ~isFailure => new.status = "succeeded"
  <1> DEFINE new == IF isFailure THEN Failed(row) ELSE Succeeded(row)
  <1>1. new \in Row
    BY AssignedType
  <1>2. /\ new.status \in {"queued", "failed", "succeeded"}
        /\ ~isFailure => new.status = "succeeded"
        /\ new.attempts = row.attempts
    BY DEF Failed, Succeeded, Row
  <1>3. Flush(row, row, new) = new
    BY <1>1, <1>2, FlushOverItself
  <1>4. Stamped(new, new) \in Row /\ Stamped(new, new).status = new.status
    BY <1>1 DEF Stamped, Row
  <1>5. \/ Finished(row, row, isFailure) = Stamped(new, new)
        \/ Finished(row, row, isFailure) = [Stamped(new, new) EXCEPT !.next_attempt_at = "waiting"]
    BY <1>3 DEF Finished
  <1>6. Finished(row, row, isFailure).status = new.status
    BY <1>4, <1>5 DEF Row
  <1> QED BY <1>2, <1>6, FinishedType

\* A worker in a round that holds no job, or none any more.
LEMMA NotHeld ==
  ASSUME Calm, NEW j \in Jobs, db[j].status # "running"
  PROVE  \A w \in Workers : ~Holds(w, j)
  BY DEF Calm, CalmHolder, Holds

\* Nothing that is not running is done unless the row says so.
LEMMA NotDone ==
  ASSUME Calm, NEW j \in Jobs, db[j].status \notin {"running", "absent", "succeeded"}
  PROVE  j \notin done
  BY NotHeld DEF Calm, CalmRow

\* What a holder executes is not done until it writes the end of it.
LEMMA HolderNotDone ==
  ASSUME Calm, SessionInv, NEW w \in Workers, wpc[w] \in HoldsJob,
         wpc[w] # "finishing" \/ raised[w]
  PROVE  job[w] \notin done
  BY DEF Calm, CalmRow, CalmHolder, Holds, SessionInv, TypeOK, WorkerTypeOK

\* Retries stay calm while no failed or purged row is written but by a purge.
LEMMA RetriersCalm ==
  ASSUME SessionInv, Calm, UNCHANGED retryVars,
         \A j \in Jobs : j < nextId /\ db[j].status \in {"failed", "absent"} =>
           db'[j].status \in {"failed", "absent"}
  PROVE  \A r \in Retriers : CalmRetrier(r)'
  <1> SUFFICES ASSUME NEW r \in Retriers, rpc[r] = "loaded"
               PROVE  db'[target[r]].status \in {"failed", "absent"}
    BY DEF CalmRetrier, retryVars
  <1>1. target[r] \in Jobs /\ target[r] < nextId
    BY DEF SessionInv, TypeOK, RetrierTypeOK, RetrierInv
  <1>2. db[target[r]].status \in {"failed", "absent"}
    BY DEF Calm, CalmRetrier
  <1> QED BY <1>1, <1>2

\* Writing rows that nobody holds, without starting them, disturbs no worker.
LEMMA OutsideCalm ==
  ASSUME SessionInv, Calm, UNCHANGED <<workerVars, done>>,
         nextId' \in Nat, nextId <= nextId',
         \A j \in Jobs : db'[j] = db[j] \/
           /\ db[j].status # "running" /\ db'[j].status # "running"
           /\ j \in done => db'[j].status \in {"absent", "succeeded"}
  PROVE  (\A j \in Jobs : CalmRow(j)') /\ (\A w \in Workers : CalmHolder(w)')
  <1>1. UNCHANGED <<wpc, job, seen, beat, raised>>
    BY DEF workerVars
  <1>2. ASSUME NEW w \in Workers PROVE CalmHolder(w)'
    <2>1. CalmHolder(w)
      BY DEF Calm
    <2>2. wpc[w] \in HoldsJob => db'[job[w]] = db[job[w]]
      BY <2>1 DEF CalmHolder, SessionInv, TypeOK, WorkerTypeOK
    <2>3. wpc[w] = "finishing" => wpc[w] \in HoldsJob
      BY DEF HoldsJob
    <2> QED BY <1>1, <2>1, <2>2, <2>3 DEF CalmHolder, Holds
  <1>3. ASSUME NEW j \in Jobs PROVE CalmRow(j)'
    <2>1. CalmRow(j) /\ j \in Nat /\ nextId \in Nat
      BY ConstantsAssumption DEF Calm, SessionInv, TypeOK, TableTypeOK, Jobs
    <2>2. j \in done => j < nextId'
      BY <2>1 DEF CalmRow
    <2> QED BY <1>1, <2>1, <2>2 DEF CalmRow, Holds
  <1> QED BY <1>2, <1>3

\* A worker's step leaves the other holders calm if it writes no row of theirs and
\* takes none of their jobs.
LEMMA OthersCalm ==
  ASSUME SessionInv, Calm, NEW w \in Workers,
         \A v \in Workers : v # w =>
           /\ wpc'[v] = wpc[v] /\ job'[v] = job[v] /\ beat'[v] = beat[v]
           /\ seen'[v] = seen[v] /\ raised'[v] = raised[v],
         \A v \in Workers : (v # w /\ wpc[v] \in HoldsJob) =>
           db'[job[v]] = db[job[v]] /\ ~Holds(w, job[v])'
  PROVE  \A v \in Workers : v # w => CalmHolder(v)'
  <1> SUFFICES ASSUME NEW v \in Workers, v # w PROVE CalmHolder(v)'
    OBVIOUS
  <1>1. CalmHolder(v)
    BY DEF Calm
  <1>2. ASSUME wpc[v] \in HoldsJob, NEW u \in Workers, Holds(u, job[v])' PROVE u = v
    BY <1>1, <1>2 DEF CalmHolder, Holds
  <1>3. wpc[v] = "finishing" => wpc[v] \in HoldsJob
    BY DEF HoldsJob
  <1> QED BY <1>1, <1>2, <1>3 DEF CalmHolder

\* The others keep what they hold.
LEMMA OthersHold ==
  ASSUME NEW w \in Workers,
         \A v \in Workers : v # w =>
           /\ wpc'[v] = wpc[v] /\ job'[v] = job[v] /\ beat'[v] = beat[v]
           /\ seen'[v] = seen[v] /\ raised'[v] = raised[v],
         NEW j \in Jobs, nextId' = nextId, j \in done' => j \in done,
         db'[j] = db[j], CalmRow(j), ~Holds(w, j)
  PROVE  CalmRow(j)'
  BY DEF CalmRow, Holds

\* Before the first disturbance every step of a worker leaves the queue calm.
LEMMA CalmWorkerStep ==
  ASSUME SessionInv, Calm, NEW w \in Workers, Worker(w),
         ~Crash(w), ~Fault(w), ~HeartbeatFault(w)
  PROVE  Calm'
  <1>0. /\ UNCHANGED <<nextId, retryVars>> /\ TypeOK
        /\ \A j \in Jobs : db[j] \in Row /\ CalmRow(j)
        /\ \A v \in Workers : CalmHolder(v)
        /\ wpc[w] # "sweeping"
        /\ wpc[w] \in HoldsJob => /\ job[w] \in Jobs /\ db[job[w]].status = "running"
                                  /\ raised[w] \in BOOLEAN
    BY DEF Worker, SkipSweep, SweepRead, SweepWrite, Claim, NothingToClaim,
      ExecuteStart, HeartbeatRead, HeartbeatWrite, DispatcherReturns,
      DispatcherRaises, FinishWrite, Crash, Fault, HeartbeatFault,
      othersThanWorkers, SessionInv, TypeOK, TableTypeOK, WorkerTypeOK, Calm, CalmHolder
  <1>a. \A v \in Workers : v # w =>
           /\ wpc'[v] = wpc[v] /\ job'[v] = job[v] /\ beat'[v] = beat[v]
           /\ seen'[v] = seen[v] /\ raised'[v] = raised[v]
    BY <1>0 DEF Worker, SkipSweep, SweepRead, SweepWrite, Claim, NothingToClaim,
      ExecuteStart, HeartbeatRead, HeartbeatWrite, DispatcherReturns, FinishRead,
      DispatcherRaises, FinishWrite, Crash, Fault, HeartbeatFault, Forget, Goto,
      TypeOK, WorkerTypeOK
  <1>b. ASSUME db' = db PROVE \A r \in Retriers : CalmRetrier(r)'
    BY <1>0, <1>b, RetriersCalm
  <1>1. CASE SkipSweep(w) \/ NothingToClaim(w) \/ SweepRead(w)
    <2>1. ~\E j \in Jobs : Stale(db[j])
      <3>1. ASSUME NEW j \in Jobs, Stale(db[j]) PROVE FALSE
        <4>1. PICK v \in Workers : Holds(v, j)
          BY <1>0, <3>1 DEF Stale, CalmRow
        <4> QED BY <1>0, <3>1, <4>1 DEF Stale, CalmHolder, Holds
      <3> QED BY <3>1
    <2>2. db' = db /\ done' = done /\ wpc'[w] \in {"loop", "poll"} /\ wpc[w] \notin HoldsJob
      BY <1>0, <1>1, <2>1
      DEF SkipSweep, NothingToClaim, SweepRead, Goto, HoldsJob, TypeOK, WorkerTypeOK
    <2>3. CalmHolder(w)'
      BY <2>2 DEF CalmHolder, HoldsJob
    <2>4. \A v \in Workers : v # w => CalmHolder(v)'
      BY <1>a, <2>2, OthersCalm DEF Holds, HoldsJob
    <2>5. \A j \in Jobs : CalmRow(j)'
      BY <1>0, <1>a, <2>2, OthersHold DEF Holds
    <2> QED BY <1>b, <2>2, <2>3, <2>4, <2>5 DEF Calm
  <1>2. CASE SweepWrite(w)
    BY <1>0, <1>2 DEF SweepWrite
  <1>3. CASE Claim(w)
    <2>1. PICK j \in Jobs : /\ Ready(db[j])
                            /\ db' = [db EXCEPT ![j] = Claimed(db[j])]
                            /\ job' = [job EXCEPT ![w] = j]
      BY <1>3 DEF Claim
    <2>2. /\ wpc[w] = "poll" /\ wpc'[w] = "claimed" /\ job'[w] = j /\ done' = done
          /\ db[j].status = "queued"
          /\ db'[j] = Claimed(db[j]) /\ \A i \in Jobs : i # j => db'[i] = db[i]
      BY <1>0, <1>3, <2>1 DEF Claim, Ready, TypeOK, TableTypeOK, WorkerTypeOK
    <2>3. /\ db'[j].status = "running" /\ db'[j].lease_expires_at = "live"
          /\ db'[j].next_attempt_at = "none"
      BY <1>0, <2>2 DEF Claimed, Row
    <2>4. (\A v \in Workers : ~Holds(v, j)) /\ j \notin done
      BY <2>2, NotHeld, NotDone
    <2>5. \A v \in Workers : v # w => CalmHolder(v)'
      BY <1>0, <1>a, <2>2, <2>4, OthersCalm DEF Holds, CalmHolder, SessionInv, TypeOK,
        WorkerTypeOK
    <2>6. CalmHolder(w)'
      <3>1. \A v \in Workers : Holds(v, j)' => v = w
        BY <1>a, <2>4 DEF Holds
      <3> QED BY <2>2, <2>3, <3>1 DEF CalmHolder
    <2>7. \A i \in Jobs : CalmRow(i)'
      <3>1. CalmRow(j)'
        BY <2>2, <2>4 DEF CalmRow, Holds, HoldsJob
      <3>2. \A i \in Jobs : i # j => CalmRow(i)'
        BY <1>0, <1>a, <2>2, OthersHold DEF Holds, HoldsJob
      <3> QED BY <3>1, <3>2
    <2>8. \A r \in Retriers : CalmRetrier(r)'
      BY <1>0, <2>2, RetriersCalm
    <2> QED BY <2>5, <2>6, <2>7, <2>8 DEF Calm
  <1>4. ASSUME db' = db, wpc[w] \in HoldsJob, wpc'[w] \in HoldsJob, job'[w] = job[w],
               done' = done \/ (wpc'[w] = "finishing" /\ ~raised'[w]
                                /\ done' = done \cup {job[w]}),
               job[w] \notin done,
               wpc'[w] \in {"executing", "beating"} => beat'[w] = "on",
               wpc'[w] = "finishing" => seen'[w][job[w]] = db[job[w]]
        PROVE  Calm'
    <2>1. \A v \in Workers : Holds(v, job[w]) => v = w
      BY <1>0, <1>4 DEF CalmHolder
    <2>2. \A v \in Workers : \A j \in Jobs : Holds(v, j)' = Holds(v, j)
      BY <1>a, <1>4 DEF Holds
    <2>3. \A v \in Workers : v # w => CalmHolder(v)'
      BY <1>a, <1>4, <2>1, OthersCalm DEF Holds
    <2>4. CalmHolder(w)'
      BY <1>0, <1>4, <2>1, <2>2 DEF CalmHolder, HoldsJob
    <2>5. CalmRow(job[w])'
      <3>1. db[job[w]].status = "running" /\ db[job[w]] # Absent
        BY <1>0, <1>4, AbsentStatus
      <3>2. job[w] < nextId
        BY <1>0, <1>4, <3>1, ConstantsAssumption
        DEF SessionInv, TableInv, UnbornIsAbsent, TableTypeOK, TypeOK, Jobs
      <3> QED BY <1>0, <1>4, <3>1, <3>2 DEF CalmRow, Holds
    <2>6. \A j \in Jobs : j # job[w] => CalmRow(j)'
      BY <1>0, <1>a, <1>4, OthersHold DEF Holds
    <2> QED BY <1>0, <1>b, <1>4, <2>3, <2>4, <2>5, <2>6 DEF Calm
  <1>5. CASE ExecuteStart(w)
    <2>1. wpc[w] = "claimed" /\ wpc[w] \in HoldsJob
      BY <1>5 DEF ExecuteStart, HoldsJob
    <2>2. /\ db' = db /\ done' = done /\ wpc'[w] = "executing"
          /\ job'[w] = job[w] /\ beat'[w] = "on"
      BY <1>0, <1>5, <2>1 DEF ExecuteStart, TypeOK, WorkerTypeOK
    <2>3. job[w] \notin done
      BY <2>1, HolderNotDone
    <2> QED BY <1>4, <2>1, <2>2, <2>3 DEF HoldsJob
  <1>6. CASE HeartbeatRead(w)
    <2>1. wpc[w] = "executing" /\ wpc[w] \in HoldsJob
      BY <1>6 DEF HeartbeatRead, HoldsJob
    <2>2. /\ db' = db /\ done' = done /\ wpc'[w] = "beating"
          /\ job'[w] = job[w] /\ beat'[w] = "on"
      BY <1>0, <1>6, <2>1 DEF HeartbeatRead, Goto, TypeOK, WorkerTypeOK
    <2>3. job[w] \notin done
      BY <2>1, HolderNotDone
    <2> QED BY <1>4, <2>1, <2>2, <2>3 DEF HoldsJob
  <1>7. CASE HeartbeatWrite(w)
    <2>1. /\ wpc[w] = "beating" /\ wpc[w] \in HoldsJob /\ beat[w] = "on"
          /\ db[job[w]].lease_expires_at = "live"
      BY <1>0, <1>7 DEF HeartbeatWrite, HoldsJob, CalmHolder
    <2>2. Renewed(db[job[w]]) = db[job[w]]
      BY <1>0, <2>1 DEF Renewed, Row
    <2>3. /\ db' = [db EXCEPT ![job[w]] = Renewed(db[job[w]])] /\ done' = done
          /\ wpc'[w] = "executing" /\ job'[w] = job[w] /\ beat'[w] = "on"
      BY <1>0, <1>7, <2>1 DEF HeartbeatWrite, TypeOK, WorkerTypeOK
    <2>4. db' = db
      BY <1>0, <2>2, <2>3 DEF TypeOK, TableTypeOK
    <2>5. job[w] \notin done
      BY <2>1, HolderNotDone
    <2> QED BY <1>4, <2>1, <2>3, <2>4, <2>5 DEF HoldsJob
  <1>8. CASE DispatcherReturns(w) \/ DispatcherRaises(w)
    <2>1. wpc[w] = "executing" /\ wpc[w] \in HoldsJob /\ beat[w] = "on"
      BY <1>0, <1>8 DEF DispatcherReturns, DispatcherRaises, HoldsJob, CalmHolder
    <2>2. /\ db' = db /\ job' = job
          /\ wpc' = [wpc EXCEPT ![w] = "finishing"]
          /\ seen' = [seen EXCEPT ![w][job[w]] = db[job[w]]]
          /\ \/ done' = done /\ raised' = [raised EXCEPT ![w] = TRUE]
             \/ done' = done \cup {job[w]} /\ raised' = [raised EXCEPT ![w] = FALSE]
      BY <1>0, <1>8, <2>1 DEF DispatcherReturns, DispatcherRaises, FinishRead
    <2>3. /\ wpc'[w] = "finishing" /\ seen'[w][job[w]] = db[job[w]]
          /\ done' = done \/ (done' = done \cup {job[w]} /\ ~raised'[w])
      BY <1>0, <2>1, <2>2 DEF TypeOK, WorkerTypeOK
    <2>4. job[w] \notin done
      BY <2>1, HolderNotDone
    <2> QED BY <1>4, <2>1, <2>2, <2>3, <2>4 DEF HoldsJob
  <1>9. CASE FinishWrite(w)
    <2>1. PICK j \in Jobs : j = job[w]
      BY <1>0, <1>9 DEF FinishWrite, HoldsJob
    <2> DEFINE row == Finished(db[j], seen[w][j], raised[w])
               d == [db EXCEPT ![j] = row]
    <2>2. /\ wpc[w] = "finishing" /\ wpc[w] \in HoldsJob /\ seen[w][j] = db[j]
          /\ db[j].status = "running" /\ raised[w] \in BOOLEAN
          /\ \A v \in Workers : Holds(v, j) => v = w
          /\ Holds(w, j) /\ done' = done
      BY <1>0, <1>9, <2>1 DEF FinishWrite, HoldsJob, CalmHolder, Holds
    <2>3. /\ row \in Row /\ row.status \in {"queued", "failed", "succeeded"}
          /\ ~raised[w] => row.status = "succeeded"
          /\ row.idempotency_key = db[j].idempotency_key
      BY <1>0, <2>2, FinishedStatus, FinishedRow DEF Terminal
    <2>4. d[j] = row /\ \A i \in Jobs : i # j => d[i] = db[i]
      BY <1>0 DEF TypeOK, TableTypeOK
    <2>5. UniqueActiveKeys(d)
      BY <2>2, <2>3, <2>4 DEF UniqueActiveKeys, SessionInv, TableInv, Active
    <2>6. db' = d
      BY <1>9, <2>1, <2>5 DEF FinishWrite
    <2>7. wpc'[w] = "loop"
      BY <1>0, <1>9, ForgetFrees DEF FinishWrite
    <2>8. \A v \in Workers : v # w => CalmHolder(v)'
      <3>1. ASSUME NEW v \in Workers, v # w, wpc[v] \in HoldsJob
            PROVE  db'[job[v]] = db[job[v]]
        <4>1. job[v] \in Jobs /\ job[v] # j
          BY <2>2, <3>1 DEF Holds, SessionInv, TypeOK, WorkerTypeOK
        <4> QED BY <2>4, <2>6, <4>1
      <3>2. \A i \in Jobs : ~Holds(w, i)'
        BY <2>7 DEF Holds, HoldsJob
      <3>3. \A v \in Workers : wpc[v] \in HoldsJob => job[v] \in Jobs
        BY DEF SessionInv, TypeOK, WorkerTypeOK
      <3> HIDE DEF d
      <3> QED BY <1>a, <3>1, <3>2, <3>3, OthersCalm
    <2>9. CalmHolder(w)'
      BY <2>7 DEF CalmHolder, HoldsJob
    <2>10. CalmRow(j)'
      <3>1. j \in done => row.status = "succeeded"
        BY <2>1, <2>2, <2>3, HolderNotDone
      <3>2. j \in done => j < nextId
        BY <1>0 DEF CalmRow
      <3>3. db'[j] = row
        BY <2>4, <2>6
      <3> HIDE DEF row, d
      <3> QED BY <1>0, <2>2, <2>3, <3>1, <3>2, <3>3 DEF CalmRow
    <2>11. ASSUME NEW i \in Jobs, i # j PROVE CalmRow(i)'
      <3>1. db'[i] = db[i] /\ ~Holds(w, i)
        BY <2>1, <2>4, <2>6, <2>11 DEF Holds
      <3> HIDE DEF d
      <3> QED BY <1>0, <1>a, <2>2, <3>1, OthersHold
    <2>12. \A r \in Retriers : CalmRetrier(r)'
      <3>1. \A i \in Jobs : db[i].status \in {"failed", "absent"} => db'[i] = db[i]
        BY <2>2, <2>4, <2>6
      <3> HIDE DEF d
      <3> QED BY <1>0, <3>1, RetriersCalm
    <2> QED BY <2>8, <2>9, <2>10, <2>11, <2>12 DEF Calm
  <1> QED BY <1>1, <1>2, <1>3, <1>5, <1>6, <1>7, <1>8, <1>9 DEF Worker

\* A caller's step leaves the queue calm: the row it inserts is new.
LEMMA CalmCallerStep ==
  ASSUME SessionInv, Calm, NEW c \in Callers, Caller(c)
  PROVE  Calm'
  <1>0. UNCHANGED <<workerVars, done, retryVars>> /\ TypeOK /\ nextId \in Nat
    BY ConstantsAssumption DEF Caller, EnqueueRead, EnqueueInsert, EnqueueReselect,
      othersThanCallers, SessionInv, TypeOK, TableTypeOK
  <1>1. CASE UNCHANGED <<db, nextId>>
    BY <1>0, <1>1, OutsideCalm, RetriersCalm DEF Calm
  <1>2. CASE EnqueueInsert(c) /\ ~UNCHANGED <<db, nextId>>
    <2>1. PICK limit \in AttemptLimits :
            db' = [db EXCEPT ![nextId] = NewRow(want[c], limit)] /\ nextId' = nextId + 1
      BY <1>2 DEF EnqueueInsert
    <2>2. nextId \in Jobs
      BY <1>2 DEF EnqueueInsert
    <2>3. db[nextId].status = "absent"
      BY <1>0, <2>2, AbsentStatus DEF SessionInv, TableInv, UnbornIsAbsent
    <2>4. nextId \notin done
      BY <1>0, <2>2 DEF Calm, CalmRow
    <2>5. /\ db'[nextId].status = "queued"
          /\ \A j \in Jobs : j # nextId => db'[j] = db[j]
      BY <1>0, <2>1, <2>2 DEF NewRow, Absent, TypeOK, TableTypeOK
    <2>6. (\A j \in Jobs : CalmRow(j)') /\ (\A w \in Workers : CalmHolder(w)')
      BY <1>0, <2>1, <2>3, <2>4, <2>5, OutsideCalm
    <2>7. \A r \in Retriers : CalmRetrier(r)'
      BY <1>0, <2>5, RetriersCalm
    <2> QED BY <2>6, <2>7 DEF Calm
  <1> QED BY <1>1, <1>2 DEF Caller, EnqueueRead, EnqueueReselect

\* With one manual retry at a time, a retry leaves the queue calm: the failed row it
\* requeues has no holder.
LEMMA CalmRetrierStep ==
  ASSUME OneRetry, SessionInv, Calm, NEW r \in Retriers, Retrier(r)
  PROVE  Calm'
  <1>0. /\ UNCHANGED <<workerVars, done, nextId>> /\ TypeOK
        /\ nextId \in Nat /\ nextId <= nextId
    BY ConstantsAssumption DEF Retrier, RetryRead, RetryWrite, othersThanRetriers,
      SessionInv, TypeOK, TableTypeOK
  <1>1. \A q \in Retriers : q = r
    BY DEF OneRetry
  <1>2. CASE RetryRead(r)
    <2>1. PICK j \in Jobs : db[j].status = "failed" /\ target' = [target EXCEPT ![r] = j]
      BY <1>2 DEF RetryRead
    <2>2. db' = db /\ target'[r] = j
      BY <1>0, <1>2, <2>1 DEF RetryRead, TypeOK, RetrierTypeOK
    <2>3. \A q \in Retriers : CalmRetrier(q)'
      BY <1>1, <2>1, <2>2 DEF CalmRetrier
    <2> QED BY <1>0, <2>2, <2>3, OutsideCalm DEF Calm
  <1>3. CASE RetryWrite(r)
    <2>1. PICK j \in Jobs : j = target[r]
      BY <1>0, <1>3 DEF RetryWrite, TypeOK, RetrierTypeOK
    <2>2. /\ rpc[r] = "loaded" /\ rpc'[r] # "loaded"
          /\ db' = db \/
               /\ db[j].status # "absent"
               /\ db' = [db EXCEPT ![j] = Flush(@, rseen[r], Retried(rseen[r]))]
      BY <1>0, <1>3, <2>1 DEF RetryWrite, TypeOK, RetrierTypeOK
    <2>3. \A q \in Retriers : CalmRetrier(q)'
      BY <1>1, <2>2 DEF CalmRetrier
    <2>4. CASE db' = db
      BY <1>0, <2>3, <2>4, OutsideCalm DEF Calm
    <2>5. CASE db' # db
      <3>1. db[j].status = "failed"
        BY <2>1, <2>2, <2>5 DEF Calm, CalmRetrier
      <3>2. /\ db'[j] = Flush(db[j], rseen[r], Retried(rseen[r]))
            /\ \A i \in Jobs : i # j => db'[i] = db[i]
        BY <1>0, <2>2, <2>5 DEF TypeOK, TableTypeOK
      <3>3. db'[j].status = "queued"
        BY <1>0, <2>1, <2>2, <3>2, RetriedRow
        DEF SessionInv, RetrierInv, TypeOK, TableTypeOK, RetrierTypeOK
      <3>4. j \notin done
        BY <3>1, NotDone
      <3>5. (\A i \in Jobs : CalmRow(i)') /\ (\A w \in Workers : CalmHolder(w)')
        BY <1>0, <3>1, <3>2, <3>3, <3>4, OutsideCalm
      <3> QED BY <2>3, <3>5 DEF Calm
    <2> QED BY <2>4, <2>5
  <1> QED BY <1>2, <1>3 DEF Retrier

\* Time disturbs nothing: a lease that is held is renewed, and only terminal rows go.
LEMMA CalmClockStep ==
  ASSUME SessionInv, Calm, NEW j \in Jobs, Clock(j), ~Stall(j)
  PROVE  Calm'
  <1>0. /\ UNCHANGED <<workerVars, done, nextId, retryVars>> /\ TypeOK
        /\ nextId \in Nat /\ nextId <= nextId /\ db[j] \in Row
    BY ConstantsAssumption DEF Clock, LeaseLapse, Stall, BackoffElapses, Purge,
      environment, SessionInv, TypeOK, TableTypeOK
  <1>1. PICK row : db' = [db EXCEPT ![j] = row] /\
          \/ row = LapsedRow(db[j]) /\ \A w \in Workers : ~Renewing(w, j)
          \/ row = [db[j] EXCEPT !.next_attempt_at = "due"] /\ db[j].next_attempt_at = "waiting"
          \/ row = Absent /\ db[j].status \in Terminal
    BY DEF Clock, LeaseLapse, BackoffElapses, Purge
  <1>2. db'[j] = row /\ \A i \in Jobs : i # j => db'[i] = db[i]
    BY <1>0, <1>1, OneRow
  <1>3. db[j].status # "running"
    <2>1. SUFFICES ASSUME db[j].status = "running" PROVE FALSE
      OBVIOUS
    <2>2. PICK w \in Workers : Holds(w, j)
      BY <2>1 DEF Calm, CalmRow
    <2>3. CalmHolder(w)
      BY DEF Calm
    <2>4. Renewing(w, j) /\ db[j].next_attempt_at = "none"
      BY <2>2, <2>3 DEF Holds, HoldsJob, CalmHolder, Renewing
    <2> QED BY <1>1, <2>1, <2>4 DEF Terminal
  <1>4. db'[j].status = db[j].status \/ db'[j].status = "absent"
    BY <1>0, <1>1, <1>2, AbsentStatus DEF LapsedRow, Row
  <1>5. j \in done => db[j].status \in {"absent", "succeeded"}
    BY <1>3, NotDone
  <1>6. (\A i \in Jobs : CalmRow(i)') /\ (\A w \in Workers : CalmHolder(w)')
    BY <1>0, <1>2, <1>3, <1>4, <1>5, OutsideCalm
  <1>7. \A r \in Retriers : CalmRetrier(r)'
    BY <1>0, <1>2, <1>4, RetriersCalm
  <1> QED BY <1>6, <1>7 DEF Calm

\* What has been spent stays spent.
LEMMA Disturbed ==
  ASSUME TypeOK, NEW what \in {"crash", "fault", "stall"}, NEW limit, Spend(what, limit)
  PROVE  ~Undisturbed'
  <1>1. spent[what] \in Nat /\ spent'[what] = spent[what] + 1
    BY DEF TypeOK, TableTypeOK, Spend
  <1>2. spent'[what] # 0
    BY <1>1
  <1> QED BY <1>2 DEF Undisturbed

\* Nothing but a crash, a fault or a stall disturbs the queue.
LEMMA StaysUndisturbed ==
  ASSUME TypeOK, [Next]_vars, Undisturbed'
  PROVE  /\ Undisturbed
         /\ \A w \in Workers : ~Crash(w) /\ ~Fault(w) /\ ~HeartbeatFault(w)
         /\ \A j \in Jobs : ~Stall(j)
  <1>1. \A w \in Workers : ~Crash(w) /\ ~Fault(w) /\ ~HeartbeatFault(w)
    BY Disturbed DEF Crash, Fault, HeartbeatFault
  <1>2. \A j \in Jobs : ~Stall(j)
    BY Disturbed DEF Stall
  <1>3. \/ spent' = spent
        \/ spent' = [spent EXCEPT !["retry"] = @ + 1]
    BY <1>1, <1>2
    DEF Next, Worker, Caller, Retrier, Clock, vars,
      SkipSweep, SweepRead, SweepWrite, Claim, NothingToClaim, ExecuteStart,
      HeartbeatRead, HeartbeatWrite, DispatcherReturns, DispatcherRaises, FinishWrite,
      EnqueueRead, EnqueueInsert, EnqueueReselect, othersThanCallers,
      RetryRead, RetryWrite, Spend, LeaseLapse, BackoffElapses, Purge
  <1>4. /\ spent'.stall = spent.stall /\ spent'.crash = spent.crash
        /\ spent'.fault = spent.fault
    BY <1>3 DEF TypeOK, TableTypeOK
  <1> QED BY <1>1, <1>2, <1>4 DEF Undisturbed

\* No step breaks the calm.
LEMMA CalmStep ==
  ASSUME OneRetry, CalmInv, [Next]_vars
  PROVE  CalmInv'
  <1>1. SessionInv /\ SessionInv' /\ TypeOK
    BY SessionStep DEF CalmInv, SessionInv
  <1>2. SUFFICES ASSUME Undisturbed' PROVE Calm'
    BY <1>1 DEF CalmInv
  <1>3. /\ Calm
        /\ \A w \in Workers : ~Crash(w) /\ ~Fault(w) /\ ~HeartbeatFault(w)
        /\ \A j \in Jobs : ~Stall(j)
    BY <1>1, <1>2, StaysUndisturbed DEF CalmInv
  <1>4. CASE UNCHANGED vars
    BY <1>3, <1>4 DEF vars, workerVars, retryVars, Calm, CalmRow, CalmHolder,
      CalmRetrier, Holds
  <1>5. CASE Next
    BY <1>1, <1>3, <1>5, CalmWorkerStep, CalmCallerStep, CalmRetrierStep, CalmClockStep
    DEF Next
  <1> QED BY <1>4, <1>5

\* The queue starts calm.
LEMMA CalmInit == Init => CalmInv
  <1>1. SUFFICES ASSUME Init PROVE Calm
    BY SessionInit DEF CalmInv
  <1>2. \A j \in Jobs : CalmRow(j)
    BY <1>1, AbsentStatus DEF Init, CalmRow
  <1>3. \A w \in Workers : CalmHolder(w)
    BY <1>1 DEF Init, CalmHolder, HoldsJob
  <1>4. \A r \in Retriers : CalmRetrier(r)
    BY <1>1 DEF Init, CalmRetrier
  <1> QED BY <1>2, <1>3, <1>4 DEF Calm

\* Until the first stall, crash or fault, every running row has exactly one holder and
\* every completed dispatch is recorded or about to be, whatever number of workers.
THEOREM CalmCorrect ==
  ASSUME OneRetry
  PROVE  Spec => []CalmInv
  <1>1. CalmInv /\ [Next]_vars => CalmInv'
    BY CalmStep
  <1> QED BY CalmInit, <1>1, PTL DEF Spec

\* As long as heartbeats come in time and nothing crashes, two workers never execute the
\* same job, nor two jobs of one idempotency key.
THEOREM ExecutionIsExclusive ==
  ASSUME OneRetry
  PROVE  Spec => []ExclusiveExecution
  <1>1. CalmInv => ExclusiveExecution
    <2>1. SUFFICES ASSUME CalmInv, Undisturbed, NEW v \in Workers, NEW w \in Workers,
                          v # w, Executing(v), Executing(w)
                   PROVE  /\ job[v] # job[w]
                          /\ \/ db[job[v]].idempotency_key = NoKey
                             \/ db[job[v]].idempotency_key # db[job[w]].idempotency_key
      BY DEF ExclusiveExecution
    <2>2. wpc[v] \in HoldsJob /\ wpc[w] \in HoldsJob
      BY <2>1 DEF Executing, HoldsJob
    <2>3. CalmHolder(v) /\ CalmHolder(w)
      BY <2>1 DEF CalmInv, Calm
    <2>4. job[v] # job[w]
      BY <2>1, <2>2, <2>3 DEF CalmHolder, Holds
    <2>5. /\ job[v] \in Jobs /\ job[w] \in Jobs
          /\ db[job[v]].status \in Active /\ db[job[w]].status \in Active
      BY <2>1, <2>2, <2>3
      DEF CalmHolder, CalmInv, SessionInv, TypeOK, WorkerTypeOK, Active
    <2>6. UniqueActiveKeys(db)
      BY <2>1 DEF CalmInv, SessionInv, TableInv
    <2> QED BY <2>4, <2>5, <2>6 DEF UniqueActiveKeys
  <1> QED BY <1>1, CalmCorrect, PTL

\* Work whose dispatcher completed is not started again before the first disturbance.
THEOREM WorkIsNotRepeated ==
  ASSUME OneRetry
  PROVE  Spec => NoRepeatedWork
  <1> DEFINE NotAgain == \A w \in Workers :
               (Undisturbed /\ wpc[w] = "claimed" /\ wpc'[w] = "executing")
                 => job[w] \notin done
  <1>1. CalmInv => [NotAgain]_vars
    BY HolderNotDone DEF CalmInv, HoldsJob
  <1>2. Spec => []CalmInv
    BY CalmCorrect
  <1> QED BY <1>1, <1>2, PTL DEF NoRepeatedWork, Spec
=============================================================================
