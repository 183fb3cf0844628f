-------------------------------- MODULE DayRows --------------------------------
(***************************************************************************)
(* Results that are computed once a day and kept: the price bands of one   *)
(* stock (services/prediction_service.py), a row per trading day that      *)
(* whoever asks first computes, and its news research                      *)
(* (services/news_service.py), a row per calendar day that a forced run    *)
(* replaces.  A result stands for the version of the data it was made      *)
(* from.  Requests and jobs overlap.                                       *)
(***************************************************************************)
EXTENDS Naturals, FiniteSetsExt

CONSTANTS
  Readers,        \* requests and jobs that may run at the same time
  RowDays,        \* bound: days, which are trading days too
  Sources         \* bound: versions of prices and headlines

ASSUME RowsAssumption == RowDays \in Nat \ {0} /\ Sources \in Nat \ {0}

VARIABLES
  rowDay,         \* today, and the date of the newest price
  source,         \* the version of what is stored or published now
  bands,          \* predictions: per day, what its bands were computed from
  research,       \* ai_reports of kind news: per day, what it was written from
  reader,         \* per reader, its locals
  bandsShown,     \* ghost: per trading day, the bands anybody was answered with
  outdated        \* ghost: somebody who asked for today's research got an older day's

rowVars == <<rowDay, source, bands, research, reader, bandsShown, outdated>>

NoRow == 0
AtRest == [step |-> "rest"]
Turns(r, x) == reader' = [reader EXCEPT ![r] = x]

\* Prices are corrected, headlines come.
SourceChanges ==
  /\ source < Sources
  /\ source' = source + 1
  /\ UNCHANGED <<rowDay, bands, research, reader, bandsShown, outdated>>

\* A new day brings new data.
DayEnds ==
  /\ rowDay < RowDays /\ source < Sources
  /\ rowDay' = rowDay + 1 /\ source' = source + 1
  /\ UNCHANGED <<bands, research, reader, bandsShown, outdated>>

-----------------------------------------------------------------------------
(* get_predictions: the prices, the cached rows, the insert are statements apart. *)
ReadPrices(r) ==
  /\ reader[r] = AtRest
  /\ Turns(r, [step |-> "cache", day |-> rowDay, from |-> source])
  /\ UNCHANGED <<rowDay, source, bands, research, bandsShown, outdated>>

ShowBands(r, day, what) ==
  /\ bandsShown' = [bandsShown EXCEPT ![day] = @ \cup {what}]
  /\ Turns(r, AtRest)

LookForBands(r) ==
  LET x == reader[r] IN
  /\ x.step = "cache"
  /\ IF bands[x.day] # NoRow THEN ShowBands(r, x.day, bands[x.day])
     ELSE Turns(r, [x EXCEPT !.step = "band"]) /\ UNCHANGED bandsShown
  /\ UNCHANGED <<rowDay, source, bands, research, outdated>>

\* Both horizons in one COMMIT; the loser of the unique rows answers with the winner's.
StoreBands(r) ==
  LET x == reader[r]
      kept == IF bands[x.day] = NoRow THEN x.from ELSE bands[x.day]
  IN
  /\ x.step = "band"
  /\ bands' = [bands EXCEPT ![x.day] = kept]
  /\ ShowBands(r, x.day, kept)
  /\ UNCHANGED <<rowDay, source, research, outdated>>

-----------------------------------------------------------------------------
(* run_news_research *)
\* _get_report: the newest report that is not older than the day.
Newest(day) == Max({NoRow} \cup {d \in day .. RowDays : research[d] # NoRow})

\* The reader is answered with the report of a day, having asked on another.
GetsResearch(r, asked, day) ==
  /\ outdated' = (outdated \/ day < asked)
  /\ Turns(r, AtRest)

LookForResearch(r) ==
  LET row == Newest(rowDay) IN
  /\ reader[r] = AtRest
  /\ \/ row # NoRow /\ GetsResearch(r, rowDay, row)
     \/ \E force \in BOOLEAN :
          /\ row = NoRow \/ force
          /\ Turns(r, [step |-> "feed", day |-> rowDay, row |-> row,
                       old |-> IF row = NoRow THEN NoRow ELSE research[row]])
          /\ UNCHANGED outdated
  /\ UNCHANGED <<rowDay, source, bands, research, bandsShown>>

\* The feed and the model have answered, or the exception leaves the run.
Research(r) ==
  LET x == reader[r] IN
  /\ x.step = "feed"
  /\ Turns(r, [step |-> "report", day |-> x.day, row |-> x.row, old |-> x.old, from |-> source])
     \/ Turns(r, AtRest)
  /\ UNCHANGED <<rowDay, source, bands, research, bandsShown, outdated>>

\* uq_ai_reports_daily decides between inserts; a report there was is written over,
\* unless the text is the one that was loaded.
StoreResearch(r) ==
  LET x == reader[r]
      insert == x.row = NoRow /\ research[x.day] = NoRow
      update == x.row # NoRow /\ x.from # x.old
      row == IF x.row = NoRow THEN x.day ELSE x.row
  IN
  /\ x.step = "report"
  /\ research' = IF insert \/ update THEN [research EXCEPT ![row] = x.from] ELSE research
  /\ GetsResearch(r, x.day, IF x.row # NoRow \/ insert THEN row ELSE Newest(x.day))
  /\ UNCHANGED <<rowDay, source, bands, bandsShown>>

-----------------------------------------------------------------------------
RowsInit ==
  /\ rowDay = 1 /\ source = 1
  /\ bands = [d \in 1 .. RowDays |-> NoRow] /\ research = [d \in 1 .. RowDays |-> NoRow]
  /\ reader = [r \in Readers |-> AtRest]
  /\ bandsShown = [d \in 1 .. RowDays |-> {}] /\ outdated = FALSE

RowsNext ==
  \/ SourceChanges \/ DayEnds
  \/ \E r \in Readers :
       \/ ReadPrices(r) \/ LookForBands(r) \/ StoreBands(r)
       \/ LookForResearch(r) \/ Research(r) \/ StoreResearch(r)

RowsSpec == RowsInit /\ [][RowsNext]_rowVars

-----------------------------------------------------------------------------
RowsTypeOK ==
  /\ rowDay \in 1 .. RowDays /\ source \in 1 .. Sources
  /\ {bands, research} \subseteq [1 .. RowDays -> 0 .. Sources]
  /\ bandsShown \in [1 .. RowDays -> SUBSET (1 .. Sources)] /\ outdated \in BOOLEAN
  /\ reader \in [Readers -> {AtRest}
       \cup [step : {"cache", "band"}, day : 1 .. RowDays, from : 1 .. Sources]
       \cup [step : {"feed"}, day : 1 .. RowDays, row : 0 .. RowDays, old : 0 .. Sources]
       \cup [step : {"report"}, day : 1 .. RowDays, row : 0 .. RowDays, old : 0 .. Sources,
             from : 1 .. Sources]]

(* Whoever asks for the bands of a trading day sees the same ones, and those that   *)
(* are stored (prediction_service.py:77), although requests that overlap have        *)
(* computed theirs from prices corrected in between.                                 *)
BandsAgree == \A d \in 1 .. RowDays : bandsShown[d] \subseteq {bands[d]}

(* Whoever asks for research gets that of his day or a later one, also when he lost *)
(* the insert to another run (news_service.py:64) around midnight.                   *)
NeverOutdated == ~outdated

(* Runs that overlap keep one result a day and answer with it.                       *)
DayAnswersAgree == BandsAgree /\ NeverOutdated
=============================================================================
