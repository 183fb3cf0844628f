------------------------------- MODULE JobCentre -------------------------------
(***************************************************************************)
(* The job centre of the frontend (components/job-center.tsx, the job      *)
(* functions of lib/api.ts) in front of the queue, of which it may expect  *)
(* no more than JobLifecycle promises.  One tab keeps a list of the runs   *)
(* it started in sessionStorage, asks for each of them every four seconds  *)
(* whether or not the last answer has come, and shows the latest answer.   *)
(***************************************************************************)
EXTENDS Naturals

CONSTANTS
  Started,        \* runs the tab may start
  Limits,         \* max_attempts they may have
  Polls,          \* polls of one run that may be under way at once
  MaxTrouble      \* bound: requests that fail or time out, reloads of the page, and
                  \* starts of a run that is tracked

ASSUME CentreAssumption == MaxTrouble \in Nat

VARIABLES
  runStatus, runLeft, runDone,  \* the queue, as in JobLifecycle
  tracked,        \* stockwise-active-jobs in sessionStorage
  shown,          \* states: what the list shows of a run
  asked,          \* per run and lane, the request under way
  trouble

serverVars == <<runStatus, runLeft, runDone>>
centreVars == <<serverVars, tracked, shown, asked, trouble>>

Server == INSTANCE JobLifecycle WITH
  Jobs <- Started, AttemptLimits <- Limits,
  status <- runStatus, left <- runLeft, done <- runDone

Lanes == Polls \cup {"retry"}
Nothing == "nothing"
Sent == "sent"
Freed(j, lane) == [asked EXCEPT ![j][lane] = Nothing]
Answers == {"queued", "running", "succeeded", "failed", "error"}

\* jobs-changed: the effect is torn down and aborts its polls.  An answer whose headers
\* have come is no longer listening to the signal, and is still applied.
Aborting(requests) ==
  {r \in [Started -> [Lanes -> {Nothing, Sent} \cup Answers]] :
     \A j \in Started, lane \in Lanes :
       r[j][lane] \in IF lane = "retry" THEN {requests[j][lane]}
                      ELSE IF requests[j][lane] = Sent THEN {Nothing}
                      ELSE {Nothing, requests[j][lane]}}

\* The answer to POST .../:run has come: trackActiveJob.  It may be a run that is tracked,
\* which its idempotency key has led to.
Track(j) ==
  /\ runStatus[j] # "unborn"
  /\ tracked' = tracked \cup {j}
  /\ asked' \in Aborting(asked)
  /\ \/ j \notin tracked /\ UNCHANGED trouble
     \/ j \in tracked /\ trouble < MaxTrouble /\ trouble' = trouble + 1
  /\ UNCHANGED <<serverVars, shown>>

Untrack(j, requests) == tracked' = tracked \ {j} /\ asked' \in Aborting(requests)

\* Mutant: a run that is shown as failed is not asked for any more.
StillOpen == {j \in tracked : shown[j] # "failed"}

Polled == tracked

\* refresh, for one run.
Refresh(j) ==
  /\ j \in Polled
  /\ \E lane \in Polls :
       asked[j][lane] = Nothing /\ asked' = [asked EXCEPT ![j][lane] = Sent]
  /\ UNCHANGED <<serverVars, tracked, shown, trouble>>

PressRetry(j) ==
  /\ j \in tracked /\ shown[j] = "failed" /\ asked[j]["retry"] = Nothing
  /\ asked' = [asked EXCEPT ![j]["retry"] = Sent]
  /\ UNCHANGED <<serverVars, tracked, shown, trouble>>

PressRemove(j) ==
  /\ j \in tracked /\ shown[j] = "failed"
  /\ Untrack(j, asked)
  /\ UNCHANGED <<serverVars, shown, trouble>>

Answered(j, lane, answer) == asked' = [asked EXCEPT ![j][lane] = answer]

\* get_job_run: a deleted run is a 404.
Serve(j, lane) ==
  /\ asked[j][lane] = Sent /\ lane # "retry"
  /\ Answered(j, lane, IF runStatus[j] \in Answers THEN runStatus[j] ELSE "error")
  /\ UNCHANGED <<serverVars, tracked, shown, trouble>>

\* retry_job_run refuses a run that has not failed, whatever was shown.
ServeRetry(j) ==
  /\ asked[j]["retry"] = Sent
  /\ \/ Server!Retry(j) /\ Answered(j, "retry", "queued")
     \/ runStatus[j] # "failed" /\ Answered(j, "retry", "error") /\ UNCHANGED serverVars
  /\ UNCHANGED <<tracked, shown, trouble>>

\* No answer within the timeout, or none at all; a retry may have arrived nevertheless.
Fail(j, lane) ==
  /\ asked[j][lane] \notin {Nothing, "error"} /\ trouble < MaxTrouble
  /\ trouble' = trouble + 1
  /\ Answered(j, lane, "error")
  /\ UNCHANGED <<serverVars, tracked, shown>>

Shows(j, what) == shown' = [shown EXCEPT ![j] = what]

\* What refresh makes of an answer.
Apply(j, lane) ==
  LET answer == asked[j][lane] IN
  /\ lane # "retry" /\ answer \in Answers
  /\ \/ answer = "succeeded" /\ Untrack(j, Freed(j, lane)) /\ UNCHANGED shown
     \/ /\ answer # "succeeded"
        /\ Shows(j, IF answer = "error" THEN "failed" ELSE answer)
        /\ asked' = Freed(j, lane) /\ UNCHANGED tracked
  /\ UNCHANGED <<serverVars, trouble>>

\* retry; a refusal is an exception nobody handles.
ApplyRetry(j) ==
  /\ asked[j]["retry"] \in Answers
  /\ IF asked[j]["retry"] = "error" THEN UNCHANGED shown ELSE Shows(j, "queued")
  /\ asked' = Freed(j, "retry")
  /\ UNCHANGED <<serverVars, tracked, trouble>>

\* The page that started the run and awaits it (waitForJob) takes it off the list too.
PageHasResult(j) ==
  /\ j \in tracked /\ runStatus[j] = "succeeded"
  /\ Untrack(j, asked)
  /\ UNCHANGED <<serverVars, shown, trouble>>

Idling == [j \in Started |-> [lane \in Lanes |-> Nothing]]
NothingKnown == [j \in Started |-> "queued"]

\* sessionStorage outlives the page.
Reload ==
  /\ trouble < MaxTrouble /\ trouble' = trouble + 1
  /\ shown' = NothingKnown /\ asked' = Idling
  /\ UNCHANGED <<serverVars, tracked>>

QueueMoves == Server!Next /\ UNCHANGED <<tracked, shown, asked, trouble>>

CentreInit ==
  /\ Server!Init
  /\ tracked = {} /\ shown = NothingKnown /\ asked = Idling /\ trouble = 0

\* One lane of requests.
Moves(j, lane) ==
  Serve(j, lane) \/ Apply(j, lane) \/ (lane = "retry" /\ (ServeRetry(j) \/ ApplyRetry(j)))

CentreNext ==
  \/ \E j \in Started :
       \/ Track(j) \/ Refresh(j) \/ PressRetry(j) \/ PressRemove(j) \/ PageHasResult(j)
       \/ \E lane \in Lanes : Moves(j, lane) \/ Fail(j, lane)
  \/ Reload \/ QueueMoves

\* The timer fires again and again, and every request ends; nothing is assumed of the queue.
CentreFairness ==
  \A j \in Started : WF_centreVars(Refresh(j)) /\ \A lane \in Lanes : WF_centreVars(Moves(j, lane))

CentreSpec == CentreInit /\ [][CentreNext]_centreVars /\ CentreFairness

-----------------------------------------------------------------------------
CentreTypeOK ==
  /\ tracked \subseteq Started
  /\ shown \in [Started -> Answers \ {"succeeded", "error"}]
  /\ asked \in [Started -> [Lanes -> {Nothing, Sent} \cup Answers]]
  /\ trouble \in 0 .. MaxTrouble

(* Polls of one run overlap, so that answers arrive out of order, an old one     *)
(* undoes what a retry has just shown (job-center.tsx:104), and a timeout is     *)
(* shown as a failure (:84).  Still the list never stays behind: a run that has  *)
(* succeeded leaves it, and one that has failed is shown as failed, with its     *)
(* button to retry.                                                              *)
CentreCatchesUp ==
  \A j \in Started :
    []<>(j \in tracked =>
           /\ runStatus[j] # "succeeded"
           /\ runStatus[j] = "failed" => shown[j] = "failed")
=============================================================================
