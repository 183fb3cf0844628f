------------------------------ MODULE ReportCache ------------------------------
(***************************************************************************)
(* The cached AI reports and the daily briefing of one market and day      *)
(* (services/analysis_service.py).  A run analyses the stocks whose stored *)
(* report was made from other inputs; a briefing run then hashes its       *)
(* prompt, answers with the stored briefing if the hash is the same, and   *)
(* has it written otherwise.  Briefing runs of one process queue for a     *)
(* lock, routine runs do not.  What an answer was made from stands for the *)
(* hash and for the answer.                                                *)
(***************************************************************************)
EXTENDS Integers, Sequences, FiniteSets, Functions

CONSTANTS
  Covered,        \* stocks on the watchlist
  Short,          \* those without enough price history to analyse
  PerCall,        \* AI_ANALYSIS_BATCH_SIZE
  Runs, Homes, Home,  \* runs that may overlap, processes, and the process of each run
  MaxFacts        \* bound: versions of prices, news and market data

ASSUME CacheAssumption ==
  /\ Short \subseteq Covered /\ PerCall \in Nat \ {0} /\ MaxFacts \in Nat \ {0}
  /\ Home \in [Runs -> Homes]

VARIABLES
  facts,          \* the version of the data that prompts are made from
  reports,        \* ai_reports: per stock, the version its report was made from
  briefing,       \* ai_overviews: what the day's briefing was made from
  queue,          \* _overview_locks: per process, the holder and those who wait
  run             \* per run, its locals

cacheVars == <<facts, reports, briefing, queue, run>>

NoReport == 0
NoBriefing == <<>>
Off == [step |-> "off"]
Goes(r, x) == run' = [run EXCEPT ![r] = x]

\* async with lock: whoever holds it lets the next one in, leaving with an exception too.
Released(r) ==
  [h \in Homes |-> IF queue[h] # <<>> /\ Head(queue[h]) = r THEN Tail(queue[h]) ELSE queue[h]]

\* Mutant: released after a success only.
KeptOnError(r) == queue

ReleasedOnError(r) == Released(r)

FactsChange ==
  /\ facts < MaxFacts
  /\ facts' = facts + 1
  /\ UNCHANGED <<reports, briefing, queue, run>>

\* ai_batch_daily, or the routine analysis of a request.
StartRoutine(r) ==
  /\ run[r] = Off
  /\ Goes(r, [step |-> "plan", kind |-> "routine"])
  /\ UNCHANGED <<facts, reports, briefing, queue>>

\* run_overview, forced or not: an overview job that the schedule or a request has enqueued.
\* The worker of a process runs one job at a time; that several of a process meet at the
\* lock is more than it does.
StartBriefing(r) ==
  /\ run[r] = Off
  /\ \E kind \in {"briefing", "forced"} : Goes(r, [step |-> "wait", kind |-> kind])
  /\ queue' = [queue EXCEPT ![Home[r]] = Append(@, r)]
  /\ UNCHANGED <<facts, reports, briefing>>

\* Mutant: everybody gets the lock.
AlwaysMine(r) == TRUE

HoldsLock(r) == Head(queue[Home[r]]) = r

Enter(r) ==
  /\ run[r].step = "wait" /\ HoldsLock(r)
  /\ Goes(r, [run[r] EXCEPT !.step = "plan"])
  /\ UNCHANGED <<facts, reports, briefing, queue>>

\* What follows the reports: a routine run is done.
AfterReports(r) ==
  IF run[r].kind = "routine" THEN Off ELSE [step |-> "context", kind |-> run[r].kind]

\* run_batch builds every context and keeps the stocks that have no report of it.
Plan(r) ==
  LET stale == {s \in Covered \ Short : reports[s] # facts} IN
  /\ run[r].step = "plan"
  /\ Goes(r, IF stale = {} THEN AfterReports(r)
             ELSE [step |-> "ask", kind |-> run[r].kind, from |-> facts, left |-> stale])
  /\ UNCHANGED <<facts, reports, briefing, queue>>

\* One call for the next stocks; the answer may lack some of them.
Ask(r) ==
  LET x == run[r] IN
  /\ x.step = "ask"
  /\ \E batch \in SUBSET x.left, answered \in SUBSET x.left :
       /\ answered \subseteq batch
       /\ Cardinality(batch) =
            IF Cardinality(x.left) < PerCall THEN Cardinality(x.left) ELSE PerCall
       /\ Goes(r, [step |-> "write", kind |-> x.kind, from |-> x.from,
                   left |-> x.left \ batch, rows |-> answered])
  /\ UNCHANGED <<facts, reports, briefing, queue>>

\* _insert_reports: each row is committed on its own, over whatever is there.
WriteRow(r) ==
  LET x == run[r] IN
  /\ x.step = "write"
  /\ IF x.rows = {}
     THEN /\ Goes(r, IF x.left = {} THEN AfterReports(r)
                     ELSE [step |-> "ask", kind |-> x.kind, from |-> x.from, left |-> x.left])
          /\ UNCHANGED reports
     ELSE \E s \in x.rows :
            /\ reports' = [reports EXCEPT ![s] = x.from]
            /\ Goes(r, [x EXCEPT !.rows = @ \ {s}])
  /\ UNCHANGED <<facts, briefing, queue>>

\* The prompt: the market as it is now and the stored reports.
Prompt == <<facts, reports>>

\* build_market_context has answered: the prompt is hashed and looked up.
LookUp(r) ==
  LET hit == briefing = Prompt /\ run[r].kind # "forced" IN
  /\ run[r].step = "context"
  /\ Goes(r, IF hit THEN Off
             ELSE [step |-> "generate", kind |-> run[r].kind, prompt |-> Prompt,
                   new |-> briefing = NoBriefing])
  /\ queue' = IF hit THEN Released(r) ELSE queue
  /\ UNCHANGED <<facts, reports, briefing>>

Generated(r) ==
  /\ run[r].step = "generate"
  /\ Goes(r, [run[r] EXCEPT !.step = "store"])
  /\ UNCHANGED <<facts, reports, briefing, queue>>

\* An insert that meets a briefing from another process answers with that one.
StoreBriefing(r) ==
  LET x == run[r] IN
  /\ x.step = "store"
  /\ briefing' = IF x.new /\ briefing # NoBriefing THEN briefing ELSE x.prompt
  /\ Goes(r, Off)
  /\ queue' = Released(r)
  /\ UNCHANGED <<facts, reports>>

\* The models, the market data or the database fail: the exception leaves the run.
RunFails(r) ==
  /\ run[r].step \in {"plan", "ask", "write", "context", "generate"}
  /\ Goes(r, Off)
  /\ queue' = ReleasedOnError(r)
  /\ UNCHANGED <<facts, reports, briefing>>

\* The process goes, and its lock with it.
HomeDies(h) ==
  /\ run' = [r \in Runs |-> IF Home[r] = h THEN Off ELSE run[r]]
  /\ queue' = [queue EXCEPT ![h] = <<>>]
  /\ UNCHANGED <<facts, reports, briefing>>

CacheInit ==
  /\ facts = 1 /\ reports = [s \in Covered |-> NoReport] /\ briefing = NoBriefing
  /\ queue = [h \in Homes |-> <<>>] /\ run = [r \in Runs |-> Off]

RunOn(r) ==
  \/ Enter(r) \/ Plan(r) \/ Ask(r) \/ WriteRow(r)
  \/ LookUp(r) \/ Generated(r) \/ StoreBriefing(r) \/ RunFails(r)

CacheNext ==
  \/ FactsChange
  \/ \E r \in Runs : StartRoutine(r) \/ StartBriefing(r) \/ RunOn(r)
  \/ \E h \in Homes : HomeDies(h)

\* Every await of a run ends, with an answer or an exception.
CacheFairness == \A r \in Runs : WF_cacheVars(RunOn(r))

CacheSpec == CacheInit /\ [][CacheNext]_cacheVars /\ CacheFairness

-----------------------------------------------------------------------------
Kind == {"routine", "briefing", "forced"}
Prompts == (1 .. MaxFacts) \X [Covered -> 0 .. MaxFacts]

CacheTypeOK ==
  /\ facts \in 1 .. MaxFacts /\ reports \in [Covered -> 0 .. MaxFacts]
  /\ briefing \in Prompts \cup {NoBriefing}
  /\ queue \in [Homes -> Seq(Runs)]
  /\ run \in [Runs -> {Off}
       \cup [step : {"wait", "plan", "context"}, kind : Kind]
       \cup [step : {"ask"}, kind : Kind, from : 1 .. MaxFacts, left : SUBSET Covered]
       \cup [step : {"write"}, kind : Kind, from : 1 .. MaxFacts, left : SUBSET Covered,
             rows : SUBSET Covered]
       \cup [step : {"generate", "store"}, kind : Kind, prompt : Prompts, new : BOOLEAN]]

(* "A second request waits for the first and then hits the cache"                *)
(* (analysis_service.py:232): in one process nobody has a briefing written whose  *)
(* prompt has the hash of the stored one, unless he forces it, although the       *)
(* lookup and the call are an await apart and routine runs go on changing the     *)
(* reports the prompt is made of.                                                 *)
NeverPaysForStored ==
  \A r \in Runs :
    run[r].step = "generate" /\ run[r].kind # "forced" => briefing # run[r].prompt

(* Every run ends, and with it its turn at the lock: a failed run lets the next   *)
(* one in.                                                                        *)
EveryRunEnds == \A r \in Runs : []<>(run[r] = Off)
=============================================================================
