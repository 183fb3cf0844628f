----------------------------- MODULE JobLifecycle -----------------------------
(***************************************************************************)
(* What the job queue promises to whoever enqueues a job and polls its run *)
(* (GET /jobs/runs/{id}): a life of queued, running and one of two ends,   *)
(* paid for with a fixed number of attempts.  It says nothing of workers,  *)
(* leases, sessions or time.                                               *)
(***************************************************************************)
EXTENDS Integers

CONSTANTS Jobs, AttemptLimits

VARIABLES
  status,   \* as a poller of the run sees it
  left,     \* attempts the job may still start
  done      \* jobs whose work has been completed at least once

lifecycleVars == <<status, left, done>>

Init ==
  /\ status = [j \in Jobs |-> "unborn"]
  /\ left = [j \in Jobs |-> 0]
  /\ done = {}

Enqueue(j) ==
  /\ status[j] = "unborn"
  /\ \E limit \in AttemptLimits : left' = [left EXCEPT ![j] = limit]
  /\ status' = [status EXCEPT ![j] = "queued"]
  /\ UNCHANGED done

\* Starting an attempt uses it up; nobody starts a job that has none left.
Start(j) ==
  /\ status[j] = "queued" /\ left[j] > 0
  /\ status' = [status EXCEPT ![j] = "running"]
  /\ left' = [left EXCEPT ![j] = @ - 1]
  /\ UNCHANGED done

Complete(j) ==
  /\ status[j] = "running"
  /\ done' = done \cup {j}
  /\ UNCHANGED <<status, left>>

\* Success is reported only of completed work, and is final until the row is purged.
Succeed(j) ==
  /\ status[j] = "running" /\ j \in done
  /\ status' = [status EXCEPT ![j] = "succeeded"]
  /\ UNCHANGED <<left, done>>

\* A failed attempt and an abandoned one go back to the queue, or end the job.
GiveBack(S) ==
  /\ \A j \in S : status[j] = "running"
  /\ status' = [j \in Jobs |-> IF j \notin S THEN status[j]
                               ELSE IF left[j] > 0 THEN "queued" ELSE "failed"]
  /\ UNCHANGED <<left, done>>

\* A manual retry buys a failed job exactly one more attempt.
Retry(j) ==
  /\ status[j] = "failed"
  /\ status' = [status EXCEPT ![j] = "queued"]
  /\ left' = [left EXCEPT ![j] = 1]
  /\ UNCHANGED done

Purge(j) ==
  /\ status[j] \in {"succeeded", "failed"}
  /\ status' = [status EXCEPT ![j] = "gone"]
  /\ left' = [left EXCEPT ![j] = 0]
  /\ UNCHANGED done

Next ==
  \/ \E j \in Jobs : \/ Enqueue(j) \/ Start(j) \/ Complete(j)
                     \/ Succeed(j) \/ Retry(j) \/ Purge(j)
  \/ \E S \in SUBSET Jobs : GiveBack(S)

Spec == Init /\ [][Next]_lifecycleVars
=============================================================================
