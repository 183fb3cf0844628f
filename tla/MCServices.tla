------------------------------ MODULE MCServices ------------------------------
(***************************************************************************)
(* The services that share no state with each other, model-checked side by *)
(* side.  A behaviour tells the story of one of them, picked at the start, *)
(* and leaves the others as they begin: what one service does at any       *)
(* moment says nothing about another, so the stories together are all      *)
(* there is to see, and the state space is their sum.                      *)
(***************************************************************************)
EXTENDS LoginSessions, AlertOutbox, PriceSync, Watchlist, ReportCache,
        JobCentre, DayRows, Calculations

CONSTANTS r1, r2, home, stock

VARIABLE story

MCMarket == [s \in {stock} |-> "TW"]
MCRuns == {r1, r2}
MCHomes == {home}
MCHome == [r \in MCRuns |-> home]

Stories == {"login", "alerts", "sync", "watchlist", "reports", "centre", "rows", "calculation"}

Init ==
  /\ story \in Stories
  /\ LoginInit /\ AlertInit /\ SyncInit /\ WatchInit /\ CacheInit /\ CentreInit /\ RowsInit
  /\ IF story = "calculation" THEN CalcInit ELSE calc = [input |-> [topic |-> "none"]]

Next ==
  /\ UNCHANGED story
  /\ \/ story = "login" /\ LoginNext
        /\ UNCHANGED <<alertVars, syncVars, watchVars, cacheVars, centreVars, rowVars, calc>>
     \/ story = "alerts" /\ AlertNext
        /\ UNCHANGED <<loginVars, syncVars, watchVars, cacheVars, centreVars, rowVars, calc>>
     \/ story = "sync" /\ SyncNext
        /\ UNCHANGED <<loginVars, alertVars, watchVars, cacheVars, centreVars, rowVars, calc>>
     \/ story = "watchlist" /\ WatchNext
        /\ UNCHANGED <<loginVars, alertVars, syncVars, cacheVars, centreVars, rowVars, calc>>
     \/ story = "reports" /\ CacheNext
        /\ UNCHANGED <<loginVars, alertVars, syncVars, watchVars, centreVars, rowVars, calc>>
     \/ story = "centre" /\ CentreNext
        /\ UNCHANGED <<loginVars, alertVars, syncVars, watchVars, cacheVars, rowVars, calc>>
     \/ story = "rows" /\ RowsNext
        /\ UNCHANGED <<loginVars, alertVars, syncVars, watchVars, cacheVars, centreVars, calc>>
     \/ story = "calculation" /\ CalcNext
        /\ UNCHANGED <<loginVars, alertVars, syncVars, watchVars, cacheVars, centreVars, rowVars>>

vars ==
  <<story, loginVars, alertVars, syncVars, watchVars, cacheVars, centreVars, rowVars, calc>>

\* Each service is as fair in its story as on its own.  A step of an actor changes the
\* variable that holds the actor's locals, and those of the other services stay.
acting == <<check, sync, run, centreVars>>

AlertsOn(r) ==
  story = "alerts" /\ RunStep(r) /\ UNCHANGED <<sync, run, centreVars>>
SyncOn(c) ==
  story = "sync" /\ (c = Daily \/ sync[c].step # "quiet") /\ SyncStep(c)
    /\ UNCHANGED <<check, run, centreVars>>
ReportsOn(r) ==
  story = "reports" /\ RunOn(r) /\ UNCHANGED <<check, sync, centreVars>>
CentreOn(step) ==
  story = "centre" /\ step /\ UNCHANGED <<check, sync, run>>

\* Stories exclude each other, so the conditions of different stories share a formula.
Fairness ==
  /\ \A r \in {r1, r2} :
       WF_acting(AlertsOn(r) \/ ReportsOn(r) \/ CentreOn(\E j \in Started : Moves(j, r)))
  /\ WF_acting(SyncOn(Daily) \/ CentreOn(\E j \in Started : Refresh(j)))
  /\ \A c \in Callers :
       WF_acting(SyncOn(c) \/ CentreOn(\E j \in Started : Moves(j, "retry")))

Spec == Init /\ [][Next]_vars /\ Fairness

ServicesTypeOK ==
  CASE story = "login" -> LoginTypeOK
    [] story = "alerts" -> AlertTypeOK
    [] story = "sync" -> SyncTypeOK
    [] story = "watchlist" -> WatchTypeOK
    [] story = "reports" -> CacheTypeOK
    [] story = "centre" -> CentreTypeOK
    [] story = "rows" -> RowsTypeOK
    [] story = "calculation" -> "input" \in DOMAIN calc

(* What is stored once is neither paid for twice nor told in two ways: the briefing *)
(* (analysis_service.py:303), the bands and the research of a day.                  *)
CachesHold == NeverPaysForStored /\ DayAnswersAgree
=============================================================================
