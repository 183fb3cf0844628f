------------------------------- MODULE PriceSync -------------------------------
(***************************************************************************)
(* Synchronisation of daily prices and their indicators                    *)
(* (services/sync_service.py, sync_market_daily in scheduler/jobs.py).     *)
(* The daily job reads the watchlist and takes its stocks one by one; the  *)
(* job of a new entry syncs one stock at any moment, in the same process   *)
(* or another.  A sync reads the last stored date, downloads, and writes   *)
(* prices and indicators in one transaction.                               *)
(* A price is the number of times the source has published or corrected    *)
(* it; the indicators are identified with the prices they were computed    *)
(* from.                                                                   *)
(***************************************************************************)
EXTENDS Integers, FiniteSets, Functions

CONSTANTS
  Synced,         \* stocks that may be on the watchlist
  Broken,         \* those the source always fails for
  Daily, Callers, \* the daily job; whatever else syncs a stock
  LastDay,        \* bound: trading days
  Versions,       \* bound: publication and corrections of one price
  MaxCorrected,   \* bound: days of one stock whose price is corrected
  Lookback,       \* REFRESH_LOOKBACK_DAYS
  MaxFaults       \* bound: failed downloads and crashes

ASSUME SyncAssumption ==
  /\ Broken \subseteq Synced /\ Daily \notin Callers
  /\ LastDay \in Nat \ {0} /\ Versions \in Nat /\ Lookback \in Nat
  /\ MaxCorrected \in Nat /\ MaxFaults \in Nat

VARIABLES
  today,
  upstream,       \* what the source has
  stored,         \* daily_prices
  indicators,     \* the prices the indicators table was computed from
  sync,           \* per caller, the locals of its sync
  faults,
  passed,         \* ghost: the syncs during which another one of their stock has committed
  tangled         \* ghost: a third one began beside two, midnight fell into a download, or
                  \* the source corrected a price between two downloads that overlap

syncVars == <<today, upstream, stored, indicators, sync, faults, passed, tangled>>

Days == 1 .. LastDay
NoPrice == 0
NoPrices == [d \in Days |-> NoPrice]
Dates(prices) == {d \in Days : prices[d] # NoPrice}
Everyone == Callers \cup {Daily}

\* The caller goes on with the stocks it has left, or is done.
Quiet == [step |-> "quiet", todo |-> {}]
Turned(c) == [step |-> "quiet", todo |-> sync[c].todo]

\* The except clause of the loop: the stock goes into the failed ones, the rest goes on.
Failed(c) == Turned(c)

InFlight(s) == {c \in Everyone : sync[c].step # "quiet" /\ sync[c].stock = s}
Beside(c) == InFlight(sync[c].stock) \ {c}
Open(c) == sync[c].step \in {"compute", "replace"}  \* has written rows, not committed

\* The days whose prices were published and corrected since.
Corrected(s) == {d \in Days : upstream[s][d] > 1}

\* The source publishes or corrects a price; corrections reach back as far as the lookback.
Publish ==
  /\ \E s \in Synced \ Broken, d \in {e \in Days : e <= today /\ e >= today - Lookback} :
       /\ upstream[s][d] < Versions
       /\ upstream[s][d] = NoPrice \/ Cardinality(Corrected(s) \cup {d}) <= MaxCorrected
       /\ upstream' = [upstream EXCEPT ![s][d] = @ + 1]
  /\ UNCHANGED <<today, stored, indicators, sync, faults, passed, tangled>>

NextDay ==
  /\ today < LastDay
  /\ today' = today + 1
  /\ tangled' = (tangled \/ \E c \in Everyone : sync[c].step = "download")
  /\ passed' = IF tangled' THEN {} ELSE passed
  /\ UNCHANGED <<upstream, stored, indicators, sync, faults>>

\* sync_market_daily reads the watchlist, once for the whole run, as it then is.
StartDaily ==
  /\ sync[Daily] = Quiet
  /\ \E list \in SUBSET Synced : sync' = [sync EXCEPT ![Daily] = [step |-> "quiet", todo |-> list]]
  /\ UNCHANGED <<today, upstream, stored, indicators, faults, passed, tangled>>

\* The stocks a caller may take next: the daily job has some fixed order.
Candidates(c) ==
  IF c # Daily THEN Synced
  ELSE {s \in sync[c].todo : s = CHOOSE x \in sync[c].todo : TRUE}

\* The last stored date, and the start of the download window.
LastDate(prices) ==
  CHOOSE d \in 0 .. LastDay :
    d \in Dates(prices) \cup {0} /\ \A e \in Dates(prices) : e <= d
From(prices) == IF LastDate(prices) > 0 THEN LastDate(prices) - Lookback ELSE 0

\* _load_last_price_date, today's date of the market.
LoadLast(c, s) ==
  /\ sync[c].step = "quiet" /\ s \in Candidates(c)
  /\ sync' = [sync EXCEPT ![c] =
       [step |-> "download", stock |-> s, todo |-> @.todo \ {s}, until |-> today,
        from |-> From(stored[s])]]
  /\ tangled' = (tangled \/ passed \cap InFlight(s) # {}
                  \/ \E b, e \in InFlight(s) : b # e)
  /\ passed' = IF tangled' THEN {} ELSE passed \ {c}
  /\ UNCHANGED <<today, upstream, stored, indicators, faults>>

\* Mutant: only days after the last stored one.
OnlyNew(x) == {d \in Dates(upstream[x.stock]) : d > x.from + Lookback /\ d <= x.until}

Window(x) == {d \in Dates(upstream[x.stock]) : d >= x.from /\ d <= x.until}

Past(x) == x.step \in {"compare", "flush", "compute", "replace"}

\* The source has corrected a price since another sync has downloaded it.
Disagrees(c, rows) ==
  \E b \in Beside(c) :
    Past(sync[b]) /\ \E d \in DOMAIN rows \cap DOMAIN sync[b].rows : rows[d] # sync[b].rows[d]

Download(c) ==
  LET x == sync[c]
      rows == Restrict(upstream[x.stock], Window(x))
  IN
  /\ x.step = "download" /\ x.stock \notin Broken
  /\ sync' = [sync EXCEPT ![c] =
       [step |-> "compare", stock |-> x.stock, todo |-> x.todo, rows |-> rows]]
  /\ tangled' = (tangled \/ Disagrees(c, rows))
  /\ passed' = IF tangled' THEN {} ELSE passed
  /\ UNCHANGED <<today, upstream, stored, indicators, faults>>

DownloadFails(c) ==
  /\ sync[c].step = "download"
  /\ \/ sync[c].stock \in Broken /\ UNCHANGED faults
     \/ faults < MaxFaults /\ faults' = faults + 1
  /\ sync' = [sync EXCEPT ![c] = Failed(c)]
  /\ UNCHANGED <<today, upstream, stored, indicators, passed, tangled>>

\* _persist_price_rows reads the rows there are and compares; without a difference
\* it is done, indicators included.
Compare(c) ==
  LET x == sync[c]
      different == {d \in DOMAIN x.rows : stored[x.stock][d] # x.rows[d]}
  IN
  /\ x.step = "compare"
  /\ sync' = [sync EXCEPT ![c] =
       IF different = {} THEN Turned(c)
       ELSE [step |-> "flush", stock |-> x.stock, todo |-> x.todo, rows |-> x.rows,
             write |-> different, insert |-> different \ Dates(stored[x.stock])]]
  /\ UNCHANGED <<today, upstream, stored, indicators, faults, passed, tangled>>

\* Rows another transaction has written and not committed are waited for.
Locked(c) == UNION {sync[b].write : b \in {e \in Beside(c) : Open(e)}}

\* The flush: UPDATEs, and INSERTs that fail if a row has come up meanwhile.
Flush(c) ==
  LET x == sync[c] IN
  /\ x.step = "flush" /\ Locked(c) \cap x.write = {}
  /\ sync' = [sync EXCEPT ![c] =
       IF x.insert \cap Dates(stored[x.stock]) # {} THEN Failed(c)
       ELSE [step |-> "compute", stock |-> x.stock, todo |-> x.todo, rows |-> x.rows,
             write |-> x.write]]
  /\ UNCHANGED <<today, upstream, stored, indicators, faults, passed, tangled>>

With(prices, rows) == [d \in Days |-> IF d \in DOMAIN rows THEN rows[d] ELSE prices[d]]

\* Mutant: indicators computed from the prices before this sync.
SeenBefore(c) == stored[sync[c].stock]

\* What the session has: the committed rows now, but those of the days it has compared as
\* they were then, which the second SELECT does not refresh, or as it has written them.
Seen(c) == With(stored[sync[c].stock], sync[c].rows)

\* _recompute_indicators reads all prices of the stock.
Compute(c) ==
  LET x == sync[c] IN
  /\ x.step = "compute"
  /\ sync' = [sync EXCEPT ![c] =
       [step |-> "replace", stock |-> x.stock, todo |-> x.todo, rows |-> x.rows,
        write |-> x.write, new |-> Seen(c)]]
  /\ UNCHANGED <<today, upstream, stored, indicators, faults, passed, tangled>>

\* Indicators deleted and inserted, COMMIT.  Whoever was waiting to delete the same
\* indicators does not see the new ones, inserts beside them and fails.
Replace(c) ==
  LET x == sync[c] IN
  /\ x.step = "replace"
  /\ stored' = [stored EXCEPT ![x.stock] = With(@, Restrict(x.rows, x.write))]
  /\ indicators' = [indicators EXCEPT ![x.stock] = x.new]
  /\ \E waiting \in SUBSET {b \in Beside(c) : sync[b].step = "replace"} :
       sync' = [b \in Everyone |-> IF b = c THEN Turned(c)
                                   ELSE IF b \in waiting THEN Failed(b) ELSE sync[b]]
  /\ passed' = IF tangled THEN {} ELSE (passed \cup Beside(c)) \ {c}
  /\ UNCHANGED <<today, upstream, faults, tangled>>

\* The process goes, and the rest of the run with it.
SyncDies(c) ==
  /\ sync[c].step # "quiet" /\ faults < MaxFaults
  /\ sync' = [sync EXCEPT ![c] = Quiet]
  /\ faults' = faults + 1
  /\ UNCHANGED <<today, upstream, stored, indicators, passed, tangled>>

SyncInit ==
  /\ today = 1 /\ faults = 0 /\ passed = {} /\ tangled = FALSE
  /\ upstream = [s \in Synced |-> NoPrices] /\ stored = [s \in Synced |-> NoPrices]
  /\ indicators = [s \in Synced |-> NoPrices]
  /\ sync = [c \in Everyone |-> Quiet]

SyncStep(c) ==
  \/ c = Daily /\ StartDaily
  \/ \E s \in Synced : LoadLast(c, s)
  \/ Download(c) \/ DownloadFails(c) \/ Compare(c) \/ Flush(c) \/ Compute(c) \/ Replace(c)

SyncNext ==
  \/ Publish \/ NextDay
  \/ \E c \in Everyone : SyncStep(c) \/ SyncDies(c)

\* The daily job comes again and again; a sync that was started comes to its end.
SyncFairness ==
  /\ WF_syncVars(SyncStep(Daily))
  /\ \A c \in Callers : WF_syncVars(sync[c].step # "quiet" /\ SyncStep(c))

SyncSpec == SyncInit /\ [][SyncNext]_syncVars /\ SyncFairness

-----------------------------------------------------------------------------
Partial == UNION {[D -> 1 .. Versions] : D \in SUBSET Days}

SyncTypeOK ==
  /\ passed \subseteq Everyone /\ tangled \in BOOLEAN /\ today \in Days /\ faults \in 0 .. MaxFaults
  /\ {upstream, stored, indicators} \subseteq [Synced -> [Days -> 0 .. Versions]]
  /\ sync \in [Everyone ->
       [step : {"quiet"}, todo : SUBSET Synced]
       \cup [step : {"download"}, stock : Synced, todo : SUBSET Synced, until : Days,
             from : -Lookback .. LastDay]
       \cup [step : {"compare"}, stock : Synced, todo : SUBSET Synced, rows : Partial]
       \cup [step : {"flush"}, stock : Synced, todo : SUBSET Synced, rows : Partial,
             write : SUBSET Days, insert : SUBSET Days]
       \cup [step : {"compute"}, stock : Synced, todo : SUBSET Synced, rows : Partial,
             write : SUBSET Days]
       \cup [step : {"replace"}, stock : Synced, todo : SUBSET Synced, rows : Partial,
             write : SUBSET Days, new : [Days -> 0 .. Versions]]]

\* The stored prices are those of the source.  A day that the window of the next sync does
\* not reach may stay behind where an overlapping sync has put an older download back.
Fits(s) == \A d \in Days : stored[s][d] # upstream[s][d] => tangled /\ d < From(stored[s])

\* A daily run that finds the stock not to be on the watchlist.
LeavesOut(s) == StartDaily /\ s \notin sync'[Daily].todo

(* Once the source has said its last word, the prices of a stock that stays on    *)
(* the list get there and stay: whatever stock the source fails for, though       *)
(* nobody may ever enqueue the first sync of the entry (watchlist.py:165) and it  *)
(* may be made when the daily run has just read the list (jobs.py:54), and        *)
(* whatever overlapping syncs have overwritten with older downloads or failed on  *)
(* each other's rows (sync_service.py:127), a later daily run finds the           *)
(* difference within its lookback.                                                *)
SyncConverges ==
  \A s \in Synced \ Broken : []<><<LeavesOut(s)>>_syncVars \/ <>[]Fits(s)

(* Two overlapping syncs leave no indicators computed from other prices than the  *)
(* stored ones, although each compares with what it has read before the other     *)
(* commits, and computes from rows that it does not read again                    *)
(* (sync_service.py:79, :149): of two downloads that tell the same prices one     *)
(* writes every row the other does, and so the two meet at a row lock or a unique *)
(* index.  It takes a price corrected between the two downloads, a third sync or  *)
(* a window that ends a day earlier to leave the indicators behind.               *)
IndicatorsFollow == ~tangled => indicators = stored
=============================================================================
