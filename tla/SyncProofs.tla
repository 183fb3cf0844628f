------------------------------- MODULE SyncProofs -------------------------------
(***************************************************************************)
(* Theorems about the synchronisation of prices (PriceSync), for any       *)
(* number of stocks, of callers and of days: as long as no third sync of a *)
(* stock gets between two that overlap and no price is corrected between   *)
(* their downloads (tangled), the indicators are always computed from the  *)
(* stored prices.                                                          *)
(***************************************************************************)
EXTENDS PriceSync, WellFoundedInduction, TLAPS

-----------------------------------------------------------------------------
(* The invariant *)

Flying(x) == x.step # "quiet"

\* The days a sync has found to differ from what is stored, or is about to find.
Differs(x) ==
  IF x.step = "compare" THEN {d \in DOMAIN x.rows : stored[x.stock][d] # x.rows[d]}
  ELSE x.write

\* Two syncs of one stock.
SameStock(b, c) ==
  b # c /\ Flying(sync[b]) /\ Flying(sync[c]) /\ sync[b].stock = sync[c].stock

\* What was downloaded is not newer than what the source has.
RowsKnown(x) ==
  /\ Past(x) => \A d \in DOMAIN x.rows : x.rows[d] <= upstream[x.stock][d]
  /\ x.step \in {"flush", "compute", "replace"} => x.write # {} /\ x.write \subseteq DOMAIN x.rows

\* A sync that no other has committed beside: its window is that of anybody who
\* starts now, and where it differs from the stored prices these are old.
Undisturbed(x) ==
  /\ x.step = "download" => x.from = From(stored[x.stock]) /\ x.until = today
  /\ Past(x) => \A d \in Differs(x) : /\ stored[x.stock][d] < upstream[x.stock][d]
                                      /\ From(stored[x.stock]) <= d /\ d <= today

\* Two downloads tell the same prices.
Agree(x, y) == \A d \in DOMAIN x.rows \cap DOMAIN y.rows : x.rows[d] = y.rows[d]

\* Of two that overlap one writes what the other writes, and more; so one waits.
Pair(b, c) ==
  SameStock(b, c) =>
    /\ b \notin passed /\ c \notin passed
    /\ Past(sync[b]) /\ Past(sync[c]) =>
         \/ Differs(sync[b]) \subseteq Differs(sync[c])
         \/ Differs(sync[c]) \subseteq Differs(sync[b])
    /\ Past(sync[b]) /\ Past(sync[c]) => Agree(sync[b], sync[c])
    /\ ~(Open(b) /\ Open(c))
    /\ \A e \in Everyone : SameStock(b, e) => e = c

\* What a sync has compared and need not write is still stored.
Current(x) ==
  x.step \in {"flush", "compute"} =>
    \A d \in DOMAIN x.rows \ x.write : stored[x.stock][d] = x.rows[d]

\* Whoever has computed indicators has computed them from what it will commit.
Counted(x) ==
  x.step = "replace" => x.new = With(stored[x.stock], Restrict(x.rows, x.write))

NeverAhead == \A s \in Synced, d \in Days : stored[s][d] <= upstream[s][d]

Untangled ==
  /\ \A c \in Everyone : (c \notin passed => Undisturbed(sync[c])) /\ Current(sync[c]) /\ Counted(sync[c])
  /\ \A b, c \in Everyone : Pair(b, c)
  /\ indicators = stored

SyncInv ==
  /\ SyncTypeOK
  /\ NeverAhead
  /\ \A c \in Everyone : RowsKnown(sync[c])
  /\ ~tangled => Untangled

-----------------------------------------------------------------------------
(* The types *)

History == [Days -> 0 .. Versions]
QuietSync == [step : {"quiet"}, todo : SUBSET Synced]
Fetching == [step : {"download"}, stock : Synced, todo : SUBSET Synced, until : Days,
             from : -Lookback .. LastDay]
Comparing == [step : {"compare"}, stock : Synced, todo : SUBSET Synced, rows : Partial]
Flushing == [step : {"flush"}, stock : Synced, todo : SUBSET Synced, rows : Partial,
             write : SUBSET Days, insert : SUBSET Days]
Computing == [step : {"compute"}, stock : Synced, todo : SUBSET Synced, rows : Partial,
              write : SUBSET Days]
Replacing == [step : {"replace"}, stock : Synced, todo : SUBSET Synced, rows : Partial,
              write : SUBSET Days, new : History]
Syncing == QuietSync \cup Fetching \cup Comparing \cup Flushing \cup Computing \cup Replacing

\* Where a sync may stand, and what it holds there.
LEMMA SyncFields ==
  ASSUME NEW x \in Syncing
  PROVE  /\ x.step = "quiet" => x \in QuietSync
         /\ x.step = "download" => x \in Fetching
         /\ x.step = "compare" => x \in Comparing
         /\ x.step = "flush" => x \in Flushing
         /\ x.step = "compute" => x \in Computing
         /\ x.step = "replace" => x \in Replacing
         /\ x.todo \subseteq Synced
         /\ Flying(x) => x.stock \in Synced /\ (x.step = "download" \/ Past(x))
         /\ Past(x) => x.rows \in Partial /\ DOMAIN x.rows \subseteq Days
  <1>1. \A f \in Partial : DOMAIN f \subseteq Days
    BY DEF Partial
  <1> QED BY <1>1 DEF Syncing, QuietSync, Fetching, Comparing, Flushing, Computing, Replacing, Flying, Past

\* The types by those names.
LEMMA SyncTypes ==
  SyncTypeOK <=>
    /\ passed \subseteq Everyone /\ tangled \in BOOLEAN /\ today \in Days /\ faults \in 0 .. MaxFaults
    /\ upstream \in [Synced -> History] /\ stored \in [Synced -> History]
    /\ indicators \in [Synced -> History]
    /\ sync \in [Everyone -> Syncing]
  BY DEF SyncTypeOK, History, Syncing, QuietSync, Fetching, Comparing, Flushing, Computing, Replacing

\* A partial history has prices on some of the days.
LEMMA PartialPrices ==
  ASSUME NEW f \in Partial
  PROVE  DOMAIN f \subseteq Days /\ \A d \in DOMAIN f : f[d] \in 1 .. Versions
  BY DEF Partial

\* Where a sync differs is a set of days.
LEMMA DiffersInDays ==
  ASSUME NEW x \in Syncing, Past(x)
  PROVE  Differs(x) \subseteq Days
  <1>1. x.rows \in Partial /\ DOMAIN x.rows \subseteq Days
    BY SyncFields
  <1>2. x.step # "compare" => x.write \subseteq Days
    BY SyncFields DEF Past, Flushing, Computing, Replacing
  <1> QED BY <1>1, <1>2 DEF Differs

\* A partial history is one.
LEMMA PartialIntro ==
  ASSUME NEW D \in SUBSET Days, NEW f \in [D -> 1 .. Versions]
  PROVE  f \in Partial
  BY DEF Partial

\* Prices with some days written over.
LEMMA WithType ==
  ASSUME NEW p \in History, NEW f \in Partial
  PROVE  With(p, f) \in History
  <1>1. \A d \in Days : (IF d \in DOMAIN f THEN f[d] ELSE p[d]) \in 0 .. Versions
    BY PartialPrices, SyncAssumption DEF History
  <1> QED BY <1>1 DEF With, History

\* Some days of a partial history.
LEMMA PartOfPartial ==
  ASSUME NEW f \in Partial, NEW D \in SUBSET Days, D \subseteq DOMAIN f
  PROVE  Restrict(f, D) \in Partial /\ DOMAIN Restrict(f, D) = D
         /\ \A d \in D : Restrict(f, D)[d] = f[d]
  <1>1. PICK g : g = [d \in D |-> f[d]]
    OBVIOUS
  <1>2. Restrict(f, D) = g
    BY <1>1 DEF Restrict
  <1>3. \A d \in D : f[d] \in 1 .. Versions
    BY PartialPrices
  <1>4. g \in [D -> 1 .. Versions]
    BY <1>1, <1>3
  <1> QED BY <1>1, <1>2, <1>4, PartialIntro

\* The start of a window lies at most the lookback before the first day.
LEMMA FromType ==
  ASSUME NEW p \in History
  PROVE  From(p) \in -Lookback .. LastDay
  <1> DEFINE S == Dates(p) \cup {0}
             bounds == {n \in 0 .. LastDay : \A e \in Dates(p) : e <= n}
  <1>1. S \subseteq 0 .. LastDay /\ Dates(p) \subseteq 1 .. LastDay
    BY SyncAssumption DEF Dates, Days
  <1>2. LastDay \in bounds /\ bounds \subseteq Nat
    BY <1>1, SyncAssumption
  <1>3. PICK m \in bounds : \A y \in bounds : ~(<<y, m>> \in OpToRel(<, Nat))
    BY <1>2, NatLessThanWellFounded, WFMin, Zenon
  <1>4. \A y \in bounds : ~(y < m)
    <2>1. SUFFICES ASSUME NEW y \in bounds, y < m PROVE FALSE
      OBVIOUS
    <2>2. <<y, m>> \in Nat \X Nat /\ <<y, m>>[1] < <<y, m>>[2]
      BY <1>2, <2>1
    <2>3. <<y, m>> \in OpToRel(<, Nat)
      BY <2>2, Zenon DEF OpToRel
    <2> QED BY <2>3, <1>3, Zenon
  <1>5. m \in 0 .. LastDay /\ \A e \in Dates(p) : e <= m
    OBVIOUS
  <1>6. m \in S
    <2>1. SUFFICES ASSUME m \notin S PROVE FALSE
      OBVIOUS
    <2>2. m # 0 /\ \A e \in Dates(p) : e <= m - 1
      BY <1>1, <1>5, <2>1
    <2>3. m - 1 \in bounds /\ m - 1 < m
      BY <1>5, <2>2, SyncAssumption
    <2> QED BY <1>4, <2>3
  <1>7. \E d \in 0 .. LastDay : d \in Dates(p) \cup {0} /\ \A e \in Dates(p) : e <= d
    BY <1>5, <1>6
  <1>8. LastDate(p) \in 0 .. LastDay
    BY <1>7 DEF LastDate
  <1> QED BY <1>8, SyncAssumption DEF From

-----------------------------------------------------------------------------
(* One sync moves, and nothing is committed *)

Nested(A, B) == A \subseteq B \/ B \subseteq A

\* What a sync may turn into without a commit.
Allowed(c, y) ==
  /\ y \in Syncing
  /\ RowsKnown(y)
  /\ Flying(y) =>
       /\ Flying(sync[c]) /\ y.stock = sync[c].stock
       /\ ~tangled' =>
            /\ c \notin passed => Undisturbed(y)
            /\ Current(y) /\ Counted(y)
            /\ \A b \in Everyone : SameStock(b, c) =>
                 /\ Past(sync[b]) /\ Past(y) =>
                      Nested(Differs(sync[b]), Differs(y)) /\ Agree(sync[b], y)
                 /\ ~(Open(b) /\ y.step \in {"compute", "replace"})

\* A step of one caller that leaves prices and indicators alone, to where Allowed says.
LEMMA SyncMoves ==
  ASSUME SyncInv, NEW c \in Everyone, NEW y, Allowed(c, y),
         sync' = [sync EXCEPT ![c] = y],
         UNCHANGED <<today, upstream, stored, indicators>>, faults' \in 0 .. MaxFaults,
         tangled' \in BOOLEAN, tangled => tangled', passed' \subseteq Everyone, ~tangled' => passed' = passed
  PROVE  SyncInv'
  <1>1. sync \in [Everyone -> Syncing] /\ y \in Syncing
    BY SyncTypes DEF SyncInv, Allowed
  <1>2. \A b \in Everyone : sync'[b] = IF b = c THEN y ELSE sync[b]
    BY <1>1
  <1>3. SyncTypeOK'
    <2>1. sync' \in [Everyone -> Syncing]
      BY <1>1
    <2> QED BY <2>1, SyncTypes DEF SyncInv, SyncTypeOK, History, Syncing, QuietSync, Fetching,
           Comparing, Flushing, Computing, Replacing
  <1>4. \A x : /\ RowsKnown(x)' = RowsKnown(x) /\ Undisturbed(x)' = Undisturbed(x)
               /\ Counted(x)' = Counted(x) /\ Differs(x)' = Differs(x) /\ Current(x)' = Current(x)
    BY DEF RowsKnown, Undisturbed, Current, Counted, Differs, From, LastDate, Dates, With, Restrict
  <1>5. ASSUME NEW b \in Everyone PROVE RowsKnown(sync[b])'
    <2>1. RowsKnown(sync'[b])
      BY <1>2 DEF SyncInv, Allowed
    <2> QED BY <2>1 DEF RowsKnown
  <1>6. ASSUME ~tangled' PROVE Untangled'
    <2>1. Untangled /\ ~tangled /\ passed' = passed
      BY <1>6 DEF SyncInv
    <2>2. ASSUME NEW b \in Everyone
          PROVE  /\ b \notin passed => Undisturbed(sync'[b])
                 /\ Current(sync'[b]) /\ Counted(sync'[b])
      <3>1. CASE b # c
        BY <1>2, <2>1, <3>1 DEF Untangled
      <3>2. CASE b = c /\ Flying(y)
        BY <1>2, <1>6, <2>1, <3>2 DEF Allowed
      <3>3. CASE b = c /\ ~Flying(y)
        BY <1>2, <3>3 DEF Flying, Undisturbed, Current, Counted, Past
      <3> QED BY <3>1, <3>2, <3>3
    <2>3. ASSUME NEW b \in Everyone, NEW e \in Everyone, SameStock(b, e)'
          PROVE  SameStock(b, e) /\ (b = c => Flying(y)) /\ (e = c => Flying(y))
      <3>1. b # e /\ Flying(sync'[b]) /\ Flying(sync'[e]) /\ sync'[b].stock = sync'[e].stock
        BY <2>3 DEF SameStock, Flying
      <3> QED BY <1>2, <3>1 DEF SameStock, Allowed
    <2>4. ASSUME NEW b \in Everyone, NEW e \in Everyone, SameStock(b, e)'
          PROVE  /\ b \notin passed /\ e \notin passed
                 /\ Past(sync'[b]) /\ Past(sync'[e]) => Nested(Differs(sync'[b]), Differs(sync'[e]))
                                                      /\ Agree(sync'[b], sync'[e])
                 /\ ~(sync'[b].step \in {"compute", "replace"} /\ sync'[e].step \in {"compute", "replace"})
                 /\ \A k \in Everyone : SameStock(b, k) => k = e
      <3>1. SameStock(b, e) /\ SameStock(e, b) /\ (b = c => Flying(y)) /\ (e = c => Flying(y)) /\ b # e
        BY <2>3, <2>4 DEF SameStock
      <3>2. Pair(b, e)
        BY <2>1 DEF Untangled
      <3>3. CASE b # c /\ e # c
        BY <1>2, <3>1, <3>2, <3>3 DEF Pair, Nested, Open
      <3>4. CASE b = c
        <4>1. \A k \in Everyone : SameStock(b, k) => k = e
          BY <3>1, <3>2 DEF Pair
        <4>2. sync'[b] = y /\ sync'[e] = sync[e] /\ SameStock(e, c) /\ b \notin passed /\ e \notin passed
          BY <1>2, <3>1, <3>2, <3>4 DEF Pair
        <4>3. /\ Past(sync[e]) /\ Past(y) => Nested(Differs(sync[e]), Differs(y)) /\ Agree(sync[e], y)
              /\ ~(Open(e) /\ y.step \in {"compute", "replace"})
          BY <1>6, <3>1, <3>4, <4>2 DEF Allowed
        <4> QED BY <4>1, <4>2, <4>3 DEF Nested, Open, Agree
      <3>5. CASE e = c
        <4>1. \A k \in Everyone : SameStock(b, k) => k = e
          BY <3>1, <3>2 DEF Pair
        <4>2. sync'[e] = y /\ sync'[b] = sync[b] /\ SameStock(b, c) /\ b \notin passed /\ e \notin passed
          BY <1>2, <3>1, <3>2, <3>5 DEF Pair
        <4>3. /\ Past(sync[b]) /\ Past(y) => Nested(Differs(sync[b]), Differs(y)) /\ Agree(sync[b], y)
              /\ ~(Open(b) /\ y.step \in {"compute", "replace"})
          BY <1>6, <3>1, <3>5, <4>2 DEF Allowed
        <4> QED BY <4>1, <4>2, <4>3 DEF Open
      <3> QED BY <3>3, <3>4, <3>5
    <2>5. ASSUME NEW b \in Everyone, NEW e \in Everyone PROVE Pair(b, e)'
      <3>1. SUFFICES ASSUME SameStock(b, e)'
                     PROVE  /\ b \notin passed' /\ e \notin passed'
                            /\ Past(sync[b])' /\ Past(sync[e])' =>
                                 Nested(Differs(sync[b])', Differs(sync[e])') /\ Agree(sync[b], sync[e])'
                            /\ ~(Open(b)' /\ Open(e)')
                            /\ \A k \in Everyone : SameStock(b, k)' => k = e
        BY DEF Pair, Nested
      <3>2. /\ Differs(sync[b])' = Differs(sync'[b]) /\ Differs(sync[e])' = Differs(sync'[e])
            /\ Past(sync[b])' = Past(sync'[b]) /\ Past(sync[e])' = Past(sync'[e])
            /\ Open(b)' = (sync'[b].step \in {"compute", "replace"})
            /\ Open(e)' = (sync'[e].step \in {"compute", "replace"})
            /\ Agree(sync[b], sync[e])' = Agree(sync'[b], sync'[e])
        BY DEF Differs, Past, Open, Agree
      <3>3. \A k \in Everyone : SameStock(b, k)' => SameStock(b, k)
        BY <2>3
      <3>4. /\ b \notin passed /\ e \notin passed
            /\ Past(sync'[b]) /\ Past(sync'[e]) => Nested(Differs(sync'[b]), Differs(sync'[e]))
                                                 /\ Agree(sync'[b], sync'[e])
            /\ ~(sync'[b].step \in {"compute", "replace"} /\ sync'[e].step \in {"compute", "replace"})
            /\ \A k \in Everyone : SameStock(b, k) => k = e
        BY <2>4, <3>1
      <3>5. \A k \in Everyone : SameStock(b, k)' => k = e
        BY <3>3, <3>4
      <3>6. /\ ~(Open(b)' /\ Open(e)')
            /\ Past(sync[b])' /\ Past(sync[e])' =>
                 Nested(Differs(sync[b])', Differs(sync[e])') /\ Agree(sync[b], sync[e])'
        BY <3>2, <3>4
      <3> QED BY <2>1, <3>4, <3>5, <3>6
    <2>6. \A b \in Everyone :
            ((b \notin passed => Undisturbed(sync[b])) /\ Current(sync[b]) /\ Counted(sync[b]))'
      <3>1. \A b \in Everyone : /\ Undisturbed(sync[b])' = Undisturbed(sync'[b])
                                /\ Current(sync[b])' = Current(sync'[b])
                                /\ Counted(sync[b])' = Counted(sync'[b])
        BY DEF Undisturbed, Current, Counted, From, LastDate, Dates, With, Restrict, Past, Differs
      <3> QED BY <2>1, <2>2, <3>1
    <2>7. indicators' = stored'
      BY <2>1 DEF Untangled
    <2> QED BY <2>5, <2>6, <2>7 DEF Untangled
  <1>7. NeverAhead'
    BY DEF SyncInv, NeverAhead
  <1> QED BY <1>3, <1>5, <1>6, <1>7 DEF SyncInv

\* To be done, or to have failed, is always allowed.
LEMMA RestAllowed ==
  ASSUME NEW c \in Everyone, NEW y \in QuietSync
  PROVE  Allowed(c, y)
  <1>1. y.step = "quiet" /\ y \in Syncing
    BY DEF QuietSync, Syncing
  <1> QED BY <1>1 DEF Allowed, Flying, RowsKnown, Past

\* A sync that ends, in whatever way, is at rest.
LEMMA Rests ==
  ASSUME SyncInv, NEW c \in Everyone
  PROVE  Turned(c) \in QuietSync /\ Failed(c) \in QuietSync /\ Quiet \in QuietSync
  <1>1. sync[c] \in Syncing
    BY SyncTypes DEF SyncInv
  <1>2. sync[c].todo \subseteq Synced
    BY <1>1, SyncFields
  <1> QED BY <1>2 DEF Turned, Failed, Quiet, QuietSync

\* Where the ghosts are left alone, they are as SyncMoves wants them.
LEMMA Unmoved ==
  ASSUME SyncInv, UNCHANGED <<passed, tangled>>
  PROVE  /\ tangled' \in BOOLEAN /\ (tangled => tangled')
         /\ passed' \subseteq Everyone /\ (~tangled' => passed' = passed)
         /\ faults \in 0 .. MaxFaults
  BY SyncTypes DEF SyncInv

\* The job reads what to sync.
LEMMA StartStep ==
  ASSUME SyncInv, StartDaily
  PROVE  SyncInv'
  <1>1. PICK list \in SUBSET Synced : sync' = [sync EXCEPT ![Daily] = [step |-> "quiet", todo |-> list]]
    BY DEF StartDaily
  <1>2. Daily \in Everyone /\ [step |-> "quiet", todo |-> list] \in QuietSync
    BY DEF Everyone, QuietSync
  <1>3. Allowed(Daily, [step |-> "quiet", todo |-> list])
    BY <1>2, RestAllowed
  <1> QED BY <1>1, <1>2, <1>3, Unmoved, SyncMoves DEF StartDaily

\* The download fails, or the whole process.
LEMMA GiveUpStep ==
  ASSUME SyncInv, NEW c \in Everyone, DownloadFails(c) \/ SyncDies(c)
  PROVE  SyncInv'
  <1>1. faults \in 0 .. MaxFaults
    BY SyncTypes DEF SyncInv
  <1>2. faults' \in 0 .. MaxFaults
    BY <1>1, SyncAssumption DEF DownloadFails, SyncDies
  <1>3. Allowed(c, Failed(c)) /\ Allowed(c, Quiet)
    BY Rests, RestAllowed
  <1>4. CASE DownloadFails(c)
    BY <1>2, <1>3, <1>4, Unmoved, SyncMoves DEF DownloadFails
  <1>5. CASE SyncDies(c)
    BY <1>2, <1>3, <1>5, Unmoved, SyncMoves DEF SyncDies
  <1> QED BY <1>4, <1>5

\* Where a sync of the same stock differs is known to whoever downloads after it.
LEMMA DownloadStep ==
  ASSUME SyncInv, NEW c \in Everyone, Download(c)
  PROVE  SyncInv'
  <1>1. PICK x : x = sync[c]
    OBVIOUS
  <1>2. /\ x \in Syncing /\ x.step = "download" /\ upstream \in [Synced -> History]
        /\ stored \in [Synced -> History] /\ sync \in [Everyone -> Syncing]
        /\ faults \in 0 .. MaxFaults
    BY <1>1, SyncTypes DEF SyncInv, Download
  <1>3. x \in Fetching /\ x.stock \in Synced /\ x.todo \subseteq Synced /\ Flying(x)
    BY <1>2, SyncFields DEF Flying
  <1>4. /\ \A d \in Days : upstream[x.stock][d] \in 0 .. Versions /\ stored[x.stock][d] \in 0 .. Versions
        /\ \A d \in Days : stored[x.stock][d] <= upstream[x.stock][d]
    BY <1>2, <1>3 DEF History, SyncInv, NeverAhead
  <1>5. PICK rows : rows = [d \in Window(x) |-> upstream[x.stock][d]]
    OBVIOUS
  <1>6. rows = Restrict(upstream[x.stock], Window(x))
    BY <1>5 DEF Restrict
  <1>7. /\ DOMAIN rows = Window(x) /\ Window(x) \in SUBSET Days
        /\ \A d \in Window(x) : rows[d] = upstream[x.stock][d]
        /\ \A d \in Days : d \in Window(x) <=>
             upstream[x.stock][d] # 0 /\ d >= x.from /\ d <= x.until
    BY <1>5 DEF Window, Dates, NoPrice
  <1>8. rows \in Partial
    <2>1. \A d \in Window(x) : upstream[x.stock][d] \in 1 .. Versions
      BY <1>4, <1>7, SyncAssumption
    <2>2. rows \in [Window(x) -> 1 .. Versions]
      BY <1>5, <2>1
    <2> QED BY <1>7, <2>2, PartialIntro
  <1>9. PICK y : y = [step |-> "compare", stock |-> x.stock, todo |-> x.todo, rows |-> rows]
    OBVIOUS
  <1>10. y \in Comparing /\ y.step = "compare" /\ y.stock = x.stock /\ y.rows = rows
    BY <1>3, <1>8, <1>9 DEF Comparing
  <1>11. sync' = [sync EXCEPT ![c] = y]
    BY <1>1, <1>9, <1>6 DEF Download
  <1>12. /\ UNCHANGED <<today, upstream, stored, indicators, faults>>
         /\ tangled' \in BOOLEAN /\ (tangled => tangled') /\ (~tangled' => ~Disagrees(c, rows))
         /\ passed' \subseteq Everyone /\ (~tangled' => passed' = passed)
    <2>1. /\ tangled' = (tangled \/ Disagrees(c, rows)) /\ passed' = IF tangled' THEN {} ELSE passed
          /\ UNCHANGED <<today, upstream, stored, indicators, faults>>
      BY <1>1, <1>6 DEF Download
    <2>2. tangled \in BOOLEAN /\ passed \subseteq Everyone
      BY SyncTypes DEF SyncInv
    <2> QED BY <2>1, <2>2
  <1>13. ASSUME ~tangled', NEW b \in Everyone, SameStock(b, c), Past(sync[b]) PROVE Agree(sync[b], y)
    <2>1. b \in Beside(c)
      BY <1>13 DEF SameStock, Beside, InFlight, Flying
    <2> QED BY <1>10, <1>12, <1>13, <2>1 DEF Disagrees, Agree
  <1>14. Differs(y) = {d \in Window(x) : stored[x.stock][d] # upstream[x.stock][d]}
    BY <1>7, <1>10 DEF Differs
  <1>15. RowsKnown(y)
    <2>1. \A d \in Window(x) : rows[d] <= upstream[x.stock][d]
      BY <1>4, <1>7
    <2> QED BY <1>7, <1>10, <2>1 DEF RowsKnown, Past
  <1>16. ASSUME ~tangled, c \notin passed PROVE Undisturbed(y)
    <2>1. x.from = From(stored[x.stock]) /\ x.until = today
      BY <1>1, <1>2, <1>16 DEF SyncInv, Untangled, Undisturbed
    <2>2. \A d \in Differs(y) : /\ stored[x.stock][d] < upstream[x.stock][d]
                                /\ d >= x.from /\ d <= x.until
      BY <1>4, <1>7, <1>14
    <2>3. x.from \in Int /\ x.until \in Int /\ \A d \in Differs(y) : d \in Int
      BY <1>3, <1>7, <1>14, SyncAssumption DEF Fetching, Days
    <2>4. \A d \in Differs(y) : From(stored[x.stock]) <= d /\ d <= today
      BY <2>1, <2>2, <2>3
    <2> QED BY <1>10, <2>2, <2>4 DEF Undisturbed
  <1>17. ASSUME ~tangled, NEW b \in Everyone, SameStock(b, c), Past(sync[b])
         PROVE  Differs(sync[b]) \subseteq Differs(y)
    <2>1. Pair(b, c) /\ (b \notin passed => Undisturbed(sync[b])) /\ (c \notin passed => Undisturbed(sync[c]))
      BY <1>17 DEF SyncInv, Untangled
    <2>2. Undisturbed(sync[b]) /\ Undisturbed(x) /\ sync[b].stock = x.stock
      BY <1>1, <1>17, <2>1 DEF Pair, SameStock
    <2>3. Differs(sync[b]) \subseteq Days
      BY <1>2, <1>17, DiffersInDays
    <2>4. ASSUME NEW d \in Differs(sync[b]) PROVE d \in Differs(y)
      <3>1. stored[x.stock][d] < upstream[x.stock][d] /\ From(stored[x.stock]) <= d /\ d <= today
        BY <1>17, <2>2 DEF Undisturbed
      <3>2. x.from <= d /\ d <= x.until /\ d \in Days
        BY <1>2, <2>2, <2>3, <3>1 DEF Undisturbed
      <3>3. x.from \in Int /\ x.until \in Int /\ d \in Int
        BY <1>3, <3>2, SyncAssumption DEF Fetching, Days
      <3>4. upstream[x.stock][d] # 0 /\ stored[x.stock][d] # upstream[x.stock][d]
        BY <1>4, <3>1, <3>2
      <3> QED BY <1>7, <1>14, <3>2, <3>3, <3>4
    <2> QED BY <2>4
  <1>18. Allowed(c, y)
    <2>1. y \in Syncing /\ Current(y) /\ Counted(y) /\ y.step \notin {"compute", "replace"}
      BY <1>10 DEF Syncing, Current, Counted
    <2> QED BY <1>1, <1>3, <1>10, <1>15, <1>16, <1>17, <1>12, <1>13, <2>1 DEF Allowed, Nested
  <1> QED BY <1>2, <1>11, <1>18, <1>12, SyncMoves

\* A sync takes with it what it differs in.
LEMMA Carries ==
  ASSUME SyncInv, NEW c \in Everyone, NEW y \in Syncing, RowsKnown(y), UNCHANGED tangled,
         Past(sync[c]), Past(y), y.stock = sync[c].stock, y.rows = sync[c].rows,
         Differs(y) = Differs(sync[c]), ~tangled => Current(y) /\ Counted(y),
         y.step \in {"compute", "replace"} =>
           \A b \in Everyone : ~tangled /\ SameStock(b, c) => ~Open(b)
  PROVE  Allowed(c, y)
  <1>1. Flying(sync[c]) /\ Flying(y) /\ y.step # "download" /\ sync[c].step # "download"
    BY DEF Flying, Past
  <1>2. ASSUME ~tangled
        PROVE  /\ c \notin passed => Undisturbed(y)
               /\ \A b \in Everyone : SameStock(b, c) =>
                    (Past(sync[b]) => Nested(Differs(sync[b]), Differs(y)) /\ Agree(sync[b], y))
    <2>1. (c \notin passed => Undisturbed(sync[c])) /\ \A b \in Everyone : Pair(b, c)
      BY <1>2 DEF SyncInv, Untangled
    <2>2. c \notin passed => Undisturbed(y)
      BY <1>1, <2>1 DEF Undisturbed
    <2>3. \A b \in Everyone : SameStock(b, c) =>
            (Past(sync[b]) => Nested(Differs(sync[b]), Differs(y)) /\ Agree(sync[b], y))
      BY <2>1 DEF Pair, Nested, Agree
    <2> QED BY <2>2, <2>3
  <1> QED BY <1>1, <1>2 DEF Allowed

\* The comparison finds the days in which the sync differs.
LEMMA CompareStep ==
  ASSUME SyncInv, NEW c \in Everyone, Compare(c)
  PROVE  SyncInv'
  <1>1. PICK x : x = sync[c]
    OBVIOUS
  <1>2. /\ x \in Syncing /\ x.step = "compare" /\ faults' \in 0 .. MaxFaults
        /\ RowsKnown(x)
    BY <1>1, SyncTypes DEF SyncInv, Compare
  <1>3. x \in Comparing /\ x.stock \in Synced /\ x.rows \in Partial /\ x.todo \subseteq Synced
    BY <1>2, SyncFields DEF Comparing
  <1>4. PICK different : different = {d \in DOMAIN x.rows : stored[x.stock][d] # x.rows[d]}
    OBVIOUS
  <1>5. PICK insert : insert = different \ Dates(stored[x.stock])
    OBVIOUS
  <1>6. PICK y : y = [step |-> "flush", stock |-> x.stock, todo |-> x.todo, rows |-> x.rows,
                      write |-> different, insert |-> insert]
    OBVIOUS
  <1>7. sync' = [sync EXCEPT ![c] = IF different = {} THEN Turned(c) ELSE y]
    BY <1>1, <1>4, <1>5, <1>6 DEF Compare
  <1>8. CASE different = {}
    <2>1. Allowed(c, Turned(c))
      BY Rests, RestAllowed
    <2> QED BY <1>2, <1>7, <1>8, <2>1, Unmoved, SyncMoves DEF Compare
  <1>9. CASE different # {}
    <2>1. different \in SUBSET Days /\ different \subseteq DOMAIN x.rows
          /\ \A d \in DOMAIN x.rows \ different : stored[x.stock][d] = x.rows[d]
      BY <1>3, <1>4, PartialPrices
    <2>2. insert \in SUBSET Days
      BY <1>5, <2>1
    <2>3. /\ y \in Flushing /\ y.step = "flush" /\ y.stock = x.stock
          /\ y.rows = x.rows /\ y.write = different
      BY <1>3, <1>6, <2>1, <2>2 DEF Flushing
    <2>4. y \in Syncing /\ Past(y) /\ Past(x) /\ Current(y) /\ Counted(y)
      BY <1>2, <2>1, <2>3 DEF Syncing, Past, Current, Counted
    <2>5. Differs(y) = Differs(x)
      BY <1>2, <1>4, <2>3 DEF Differs
    <2>6. RowsKnown(y)
      BY <1>2, <1>9, <2>1, <2>3, <2>4 DEF RowsKnown
    <2>7. UNCHANGED <<today, upstream, stored, indicators, faults, passed, tangled>>
      BY DEF Compare
    <2>8. Allowed(c, y)
      BY <1>1, <2>3, <2>4, <2>5, <2>6, <2>7, Carries
    <2> QED BY <1>2, <1>7, <1>9, <2>7, <2>8, Unmoved, SyncMoves
  <1> QED BY <1>8, <1>9

\* Rows are written once nobody else has written any of them: then nobody has written any.
LEMMA FlushStep ==
  ASSUME SyncInv, NEW c \in Everyone, Flush(c)
  PROVE  SyncInv'
  <1>1. PICK x : x = sync[c]
    OBVIOUS
  <1>2. /\ x \in Syncing /\ x.step = "flush" /\ faults' \in 0 .. MaxFaults
        /\ RowsKnown(x) /\ Locked(c) \cap x.write = {}
    BY <1>1, SyncTypes DEF SyncInv, Flush
  <1>3. x \in Flushing /\ x.stock \in Synced /\ x.rows \in Partial /\ x.write \subseteq Days
        /\ x.todo \subseteq Synced
    BY <1>2, SyncFields DEF Flushing
  <1>4. PICK y : y = [step |-> "compute", stock |-> x.stock, todo |-> x.todo, rows |-> x.rows,
                      write |-> x.write]
    OBVIOUS
  <1>5. sync' = [sync EXCEPT ![c] = IF x.insert \cap Dates(stored[x.stock]) # {} THEN Failed(c) ELSE y]
    BY <1>1, <1>4 DEF Flush
  <1>6. Allowed(c, Failed(c))
    BY Rests, RestAllowed
  <1>7. /\ y \in Computing /\ y.step = "compute" /\ y.stock = x.stock
        /\ y.rows = x.rows /\ y.write = x.write
    BY <1>3, <1>4 DEF Computing
  <1>8. /\ y \in Syncing /\ Past(y) /\ Past(x) /\ Counted(y) /\ Differs(y) = Differs(x) /\ RowsKnown(y)
    BY <1>2, <1>7 DEF Syncing, Past, Counted, Differs, RowsKnown
  <1>9. ~tangled => Current(y)
    BY <1>1, <1>2, <1>7 DEF SyncInv, Untangled, Current
  <1>10. UNCHANGED <<today, upstream, stored, indicators, faults, passed, tangled>>
    BY DEF Flush
  <1>11. ASSUME NEW b \in Everyone, ~tangled, SameStock(b, c), Open(b) PROVE FALSE
    <2>1. Pair(b, c) /\ RowsKnown(sync[b])
      BY <1>11 DEF SyncInv, Untangled
    <2>2. /\ Past(sync[b]) /\ Differs(sync[b]) = sync[b].write /\ Differs(x) = x.write
          /\ sync[b].write # {} /\ x.write # {}
      BY <1>2, <1>11, <2>1 DEF Open, Past, Differs, RowsKnown
    <2>3. Nested(sync[b].write, x.write)
      BY <1>1, <1>8, <1>11, <2>1, <2>2 DEF Pair, Nested
    <2>4. b \in Beside(c)
      BY <1>11 DEF Beside, InFlight, SameStock, Flying
    <2>5. sync[b].write \subseteq Locked(c)
      BY <1>11, <2>4 DEF Locked
    <2> QED BY <1>2, <2>2, <2>3, <2>5 DEF Nested
  <1>12. Allowed(c, y)
    BY <1>1, <1>7, <1>8, <1>11, <1>9, <1>10, Carries
  <1> QED BY <1>2, <1>5, <1>6, <1>12, <1>10, Unmoved, SyncMoves

\* The indicators are computed from what will be stored.
LEMMA ComputeStep ==
  ASSUME SyncInv, NEW c \in Everyone, Compute(c)
  PROVE  SyncInv'
  <1>1. PICK x : x = sync[c]
    OBVIOUS
  <1>2. /\ x \in Syncing /\ x.step = "compute" /\ faults' \in 0 .. MaxFaults
        /\ RowsKnown(x) /\ stored \in [Synced -> History]
    BY <1>1, SyncTypes DEF SyncInv, Compute
  <1>3. x \in Computing /\ x.stock \in Synced /\ x.rows \in Partial /\ x.write \subseteq Days
        /\ x.todo \subseteq Synced
    BY <1>2, SyncFields DEF Computing
  <1>4. PICK new : new = With(stored[x.stock], x.rows)
    OBVIOUS
  <1>5. new \in History
    BY <1>2, <1>3, <1>4, WithType
  <1>6. PICK y : y = [step |-> "replace", stock |-> x.stock, todo |-> x.todo, rows |-> x.rows,
                      write |-> x.write, new |-> new]
    OBVIOUS
  <1>7. sync' = [sync EXCEPT ![c] = y]
    BY <1>1, <1>4, <1>6 DEF Compute, Seen
  <1>8. /\ y \in Replacing /\ y.step = "replace" /\ y.stock = x.stock /\ y.rows = x.rows
        /\ y.write = x.write /\ y.new = new
    BY <1>3, <1>5, <1>6 DEF Replacing
  <1>9. /\ y \in Syncing /\ Past(y) /\ Past(x) /\ Current(y) /\ Differs(y) = Differs(x) /\ RowsKnown(y)
    BY <1>2, <1>4, <1>8 DEF Syncing, Past, Current, Differs, RowsKnown
  <1>10. UNCHANGED <<today, upstream, stored, indicators, faults, passed, tangled>>
    BY DEF Compute
  <1>11. ASSUME ~tangled PROVE Counted(y)
    <2>1. Current(x) /\ x.write \subseteq DOMAIN x.rows
      BY <1>1, <1>2, <1>11 DEF SyncInv, Untangled, RowsKnown
    <2>2. PICK part : part = Restrict(x.rows, x.write)
      OBVIOUS
    <2>3. DOMAIN part = x.write /\ \A d \in x.write : part[d] = x.rows[d]
      BY <1>3, <2>1, <2>2, PartOfPartial
    <2>4. \A d \in Days : (IF d \in DOMAIN x.rows THEN x.rows[d] ELSE stored[x.stock][d])
                          = (IF d \in DOMAIN part THEN part[d] ELSE stored[x.stock][d])
      BY <1>2, <2>1, <2>3 DEF Current
    <2>5. With(stored[x.stock], x.rows) = With(stored[x.stock], part)
      BY <2>4 DEF With
    <2> QED BY <1>4, <1>8, <2>2, <2>5 DEF Counted
  <1>12. \A b \in Everyone : ~tangled /\ SameStock(b, c) => ~Open(b)
    BY <1>1, <1>2 DEF SyncInv, Untangled, Pair, Open
  <1>13. Allowed(c, y)
    BY <1>1, <1>8, <1>9, <1>12, <1>10, <1>11, Carries
  <1> QED BY <1>2, <1>7, <1>13, <1>10, Unmoved, SyncMoves

-----------------------------------------------------------------------------
(* The source, the calendar, a sync that begins, a commit *)

\* What was older than the source is older still.
LEMMA PublishStep ==
  ASSUME SyncInv, Publish
  PROVE  SyncInv'
  <1>1. PICK s \in Synced, d \in Days : /\ upstream[s][d] < Versions
                                        /\ upstream' = [upstream EXCEPT ![s][d] = @ + 1]
    BY DEF Publish
  <1>2. SyncTypeOK /\ upstream \in [Synced -> History] /\ stored \in [Synced -> History]
        /\ sync \in [Everyone -> Syncing] /\ today \in Days
    BY SyncTypes DEF SyncInv
  <1>3. /\ \A t \in Synced, e \in Days :
             upstream[t][e] \in 0 .. Versions /\ stored[t][e] \in 0 .. Versions
        /\ upstream[s][d] + 1 \in 0 .. Versions
    BY <1>1, <1>2, SyncAssumption DEF History
  <1>4. upstream' \in [Synced -> History]
        /\ \A t \in Synced, e \in Days :
             upstream'[t][e] = IF t = s /\ e = d THEN upstream[s][d] + 1 ELSE upstream[t][e]
    BY <1>1, <1>2, <1>3 DEF History
  <1>5. \A t \in Synced, e \in Days : upstream'[t][e] \in Int /\ upstream[t][e] <= upstream'[t][e]
    BY <1>3, <1>4, SyncAssumption
  <1>6. UNCHANGED <<today, stored, indicators, sync, faults, passed, tangled>>
    BY DEF Publish
  <1>7. SyncTypeOK'
    BY <1>2, <1>4, <1>6, SyncTypes DEF SyncTypeOK, History
  <1>8. NeverAhead'
    <2>1. ASSUME NEW t \in Synced, NEW e \in Days PROVE stored[t][e] <= upstream'[t][e]
      <3>1. stored[t][e] <= upstream[t][e] /\ upstream[t][e] <= upstream'[t][e]
        BY <1>5 DEF SyncInv, NeverAhead
      <3> QED BY <1>3, <1>5, <3>1, SyncAssumption
    <2> QED BY <1>6, <2>1 DEF NeverAhead
  <1>9. ASSUME NEW c \in Everyone
        PROVE  /\ sync[c] \in Syncing
               /\ Past(sync[c]) => /\ sync[c].stock \in Synced /\ sync[c].rows \in Partial
                                   /\ Differs(sync[c]) \subseteq Days
    BY <1>2, SyncFields, DiffersInDays DEF Flying, Past
  <1>10. ASSUME NEW c \in Everyone PROVE RowsKnown(sync[c])'
    <2>1. RowsKnown(sync[c])
      BY DEF SyncInv
    <2>2. ASSUME Past(sync[c]), NEW e \in DOMAIN sync[c].rows
          PROVE  sync[c].rows[e] <= upstream'[sync[c].stock][e]
      <3>1. e \in Days /\ sync[c].rows[e] \in 1 .. Versions /\ sync[c].stock \in Synced
        BY <1>9, <2>2, PartialPrices
      <3>2. sync[c].rows[e] <= upstream[sync[c].stock][e]
        BY <2>1, <2>2 DEF RowsKnown
      <3> QED BY <1>3, <1>5, <3>1, <3>2, SyncAssumption
    <2> QED BY <1>6, <2>1, <2>2 DEF RowsKnown, Past
  <1>11. ASSUME NEW c \in Everyone, Undisturbed(sync[c]) PROVE Undisturbed(sync[c])'
    <2>1. ASSUME Past(sync[c]), NEW e \in Differs(sync[c])
          PROVE  stored[sync[c].stock][e] < upstream'[sync[c].stock][e]
      <3>1. e \in Days /\ sync[c].stock \in Synced
        BY <1>9, <2>1
      <3>2. stored[sync[c].stock][e] < upstream[sync[c].stock][e]
        BY <1>11, <2>1 DEF Undisturbed
      <3> QED BY <1>3, <1>5, <3>1, <3>2, SyncAssumption
    <2> QED BY <1>6, <1>11, <2>1 DEF Undisturbed, Past, Differs, From, LastDate, Dates
  <1>12. ASSUME NEW b \in Everyone, NEW c \in Everyone, Pair(b, c) PROVE Pair(b, c)'
    BY <1>6, <1>12 DEF Pair, SameStock, Flying, Past, Differs, Agree, Open
  <1>13. ~tangled => Untangled'
    BY <1>6, <1>11, <1>12 DEF SyncInv, Untangled, Current, Counted, With, Restrict
  <1> QED BY <1>6, <1>7, <1>8, <1>10, <1>13 DEF SyncInv

\* Midnight, with nobody downloading.
LEMMA NextDayStep ==
  ASSUME SyncInv, NextDay
  PROVE  SyncInv'
  <1>1. SyncTypeOK /\ sync \in [Everyone -> Syncing] /\ today \in Days
    BY SyncTypes DEF SyncInv
  <1>2. /\ today' \in Days /\ today' = today + 1
        /\ tangled' \in BOOLEAN /\ passed' \subseteq Everyone
        /\ UNCHANGED <<upstream, stored, indicators, sync, faults>>
    BY <1>1, SyncAssumption DEF NextDay, Days, SyncTypeOK
  <1>3. SyncTypeOK'
    BY <1>1, <1>2, SyncTypes DEF SyncTypeOK, History
  <1>4. NeverAhead' /\ \A c \in Everyone : RowsKnown(sync[c])'
    BY <1>2 DEF SyncInv, NeverAhead, RowsKnown, Past
  <1>5. ASSUME ~tangled' PROVE Untangled'
    <2>1. ~tangled /\ Untangled /\ passed' = passed /\ \A c \in Everyone : sync[c].step # "download"
      BY <1>5 DEF SyncInv, NextDay
    <2>2. ASSUME NEW c \in Everyone, Undisturbed(sync[c]) PROVE Undisturbed(sync[c])'
      <3>1. ASSUME Past(sync[c]), NEW e \in Differs(sync[c]) PROVE e <= today'
        <4>1. e \in Days
          BY <1>1, <3>1, DiffersInDays
        <4>2. e <= today
          BY <2>2, <3>1 DEF Undisturbed
        <4> QED BY <1>1, <1>2, <4>1, <4>2, SyncAssumption DEF Days
      <3> QED BY <1>2, <2>1, <2>2, <3>1 DEF Undisturbed, Past, Differs, From, LastDate, Dates
    <2>3. ASSUME NEW b \in Everyone, NEW c \in Everyone, Pair(b, c) PROVE Pair(b, c)'
      BY <1>2, <2>1, <2>3 DEF Pair, SameStock, Flying, Past, Differs, Agree, Open
    <2> QED BY <1>2, <2>1, <2>2, <2>3 DEF Untangled, Current, Counted, With, Restrict
  <1> QED BY <1>3, <1>4, <1>5 DEF SyncInv

\* What is fresh stays so while nothing is committed, published or over.
LEMMA StaysFresh ==
  ASSUME NEW b \in Everyone, Undisturbed(sync[b]), sync'[b] = sync[b],
         stored'[sync[b].stock] = stored[sync[b].stock], upstream' = upstream, today' = today
  PROVE  Undisturbed(sync[b])' /\ Differs(sync[b])' = Differs(sync[b])
  <1>1. PICK x : x = sync[b]
    OBVIOUS
  <1>2. PICK p : p = stored[x.stock]
    OBVIOUS
  <1>3. sync'[b] = x /\ stored'[x.stock] = p
    BY <1>1, <1>2
  <1>4. Differs(sync[b]) = IF x.step = "compare" THEN {d \in DOMAIN x.rows : p[d] # x.rows[d]}
                           ELSE x.write
    BY <1>1, <1>2 DEF Differs
  <1>5. Differs(sync[b])' = IF x.step = "compare" THEN {d \in DOMAIN x.rows : p[d] # x.rows[d]}
                            ELSE x.write
    BY <1>3 DEF Differs
  <1>6. Differs(sync[b])' = Differs(sync[b])
    BY <1>4, <1>5
  <1>7. /\ x.step = "download" => x.from = From(p) /\ x.until = today
        /\ Past(x) => \A d \in Differs(sync[b]) : /\ p[d] < upstream[x.stock][d]
                                                 /\ From(p) <= d /\ d <= today
    BY <1>1, <1>2 DEF Undisturbed
  <1>8. Undisturbed(sync[b])' <=>
          /\ x.step = "download" => x.from = From(p) /\ x.until = today
          /\ Past(x) => \A d \in Differs(sync[b])' : /\ p[d] < upstream[x.stock][d]
                                                   /\ From(p) <= d /\ d <= today
    BY <1>3 DEF Undisturbed, Past, From, LastDate, Dates
  <1> QED BY <1>6, <1>7, <1>8

\* A sync begins beside at most one other, that nobody has committed beside.
LEMMA LoadStep ==
  ASSUME SyncInv, NEW c \in Everyone, NEW s \in Synced, LoadLast(c, s)
  PROVE  SyncInv'
  <1>1. SyncTypeOK /\ sync \in [Everyone -> Syncing] /\ today \in Days
        /\ stored \in [Synced -> History]
    BY SyncTypes DEF SyncInv
  <1>2. PICK x : x = sync[c]
    OBVIOUS
  <1>3. x.step = "quiet" /\ x.todo \subseteq Synced
    BY <1>1, <1>2, SyncFields DEF LoadLast
  <1>4. PICK y : y = [step |-> "download", stock |-> s, todo |-> x.todo \ {s}, until |-> today,
                      from |-> From(stored[s])]
    OBVIOUS
  <1>5. From(stored[s]) \in -Lookback .. LastDay
    BY <1>1, FromType
  <1>6. y \in Fetching /\ y.step = "download" /\ y.stock = s /\ y.until = today
        /\ y.from = From(stored[s])
    BY <1>1, <1>3, <1>4, <1>5 DEF Fetching
  <1>7. sync' = [sync EXCEPT ![c] = y]
    BY <1>1, <1>2, <1>4 DEF LoadLast
  <1>8. sync' \in [Everyone -> Syncing] /\ \A b \in Everyone : sync'[b] = IF b = c THEN y ELSE sync[b]
    BY <1>1, <1>6, <1>7 DEF Syncing
  <1>9. /\ UNCHANGED <<today, upstream, stored, indicators, faults>>
        /\ tangled' \in BOOLEAN /\ passed' \subseteq Everyone
    BY <1>1 DEF LoadLast, SyncTypeOK
  <1>10. SyncTypeOK'
    BY <1>1, <1>8, <1>9, SyncTypes DEF SyncTypeOK, History, Syncing, QuietSync, Fetching,
       Comparing, Flushing, Computing, Replacing
  <1>11. NeverAhead'
    BY <1>9 DEF SyncInv, NeverAhead
  <1>12. ASSUME NEW b \in Everyone PROVE RowsKnown(sync[b])'
    BY <1>6, <1>8, <1>9 DEF SyncInv, RowsKnown, Past
  <1>13. ASSUME ~tangled' PROVE Untangled'
    <2>1. /\ ~tangled /\ Untangled /\ passed' = passed \ {c}
          /\ \A b \in InFlight(s) : b \notin passed
          /\ \A b, e \in InFlight(s) : b = e
      BY <1>13 DEF SyncInv, LoadLast
    <2>2. ASSUME NEW b \in Everyone
          PROVE  (b \notin passed' => Undisturbed(sync[b])') /\ Current(sync[b])' /\ Counted(sync[b])'
      <3>1. CASE b # c
        <4>1. (b \notin passed => Undisturbed(sync[b])) /\ Current(sync[b]) /\ Counted(sync[b])
          BY <2>1 DEF Untangled
        <4>2. sync'[b] = sync[b] /\ (b \notin passed' => b \notin passed)
          BY <1>8, <2>1, <3>1
        <4>3. Undisturbed(sync[b]) => Undisturbed(sync[b])'
          BY <1>9, <4>2, StaysFresh
        <4>4. Current(sync[b])' /\ Counted(sync[b])'
          BY <1>9, <4>1, <4>2 DEF Current, Counted, With, Restrict
        <4> QED BY <4>1, <4>2, <4>3, <4>4
      <3>2. CASE b = c
        BY <1>6, <1>8, <1>9, <3>2 DEF Undisturbed, Current, Counted, Past, From, LastDate, Dates
      <3> QED BY <3>1, <3>2
    <2>3. ASSUME NEW b \in Everyone, NEW e \in Everyone, SameStock(b, e)'
          PROVE  /\ b # e
                 /\ b # c /\ e # c => SameStock(b, e) /\ (sync[b].stock = s => FALSE)
                 /\ b = c => e \in InFlight(s)
                 /\ e = c => b \in InFlight(s)
      <3>1. b # e /\ Flying(sync'[b]) /\ Flying(sync'[e]) /\ sync'[b].stock = sync'[e].stock
        BY <2>3 DEF SameStock, Flying
      <3>2. CASE b # c /\ e # c
        <4>1. SameStock(b, e)
          BY <1>8, <3>1, <3>2 DEF SameStock
        <4>2. sync[b].stock = s => b \in InFlight(s) /\ e \in InFlight(s)
          BY <4>1 DEF SameStock, Flying, InFlight
        <4> QED BY <2>1, <3>1, <3>2, <4>1, <4>2
      <3>3. CASE b = c
        BY <1>6, <1>8, <3>1, <3>3 DEF InFlight, Flying
      <3>4. CASE e = c
        BY <1>6, <1>8, <3>1, <3>4 DEF InFlight, Flying
      <3> QED BY <3>2, <3>3, <3>4
    <2>4. ASSUME NEW b \in Everyone, NEW e \in Everyone PROVE Pair(b, e)'
      <3>1. SUFFICES ASSUME SameStock(b, e)' PROVE Pair(b, e)'
        BY DEF Pair
      <3>2. CASE b # c /\ e # c
        <4>1. SameStock(b, e) /\ sync[b].stock # s /\ Pair(b, e) /\ sync'[b] = sync[b] /\ sync'[e] = sync[e]
          BY <1>8, <2>1, <2>3, <3>1, <3>2 DEF Untangled
        <4>2. ASSUME NEW k \in Everyone, SameStock(b, k)' PROVE k = e
          <5>1. k # c
            BY <2>3, <4>1, <4>2 DEF InFlight
          <5>2. SameStock(b, k)
            BY <2>3, <3>2, <4>2, <5>1
          <5> QED BY <4>1, <5>2 DEF Pair
        <4> QED BY <1>9, <2>1, <4>1, <4>2 DEF Pair, Past, Differs, Agree, Open
      <3>3. CASE b = c \/ e = c
        <4>1. /\ ~Past(sync'[b]) \/ ~Past(sync'[e])
              /\ sync'[b].step \notin {"compute", "replace"} \/ sync'[e].step \notin {"compute", "replace"}
          BY <1>6, <1>8, <3>3 DEF Past
        <4>2. b \notin passed' /\ e \notin passed'
          BY <2>1, <2>3, <3>1, <3>3
        <4>3. ASSUME NEW k \in Everyone, SameStock(b, k)' PROVE k = e
          <5>1. CASE b = c
            BY <2>1, <2>3, <3>1, <4>3, <5>1
          <5>2. CASE b # c
            <6>1. e = c /\ b \in InFlight(s)
              BY <2>3, <3>1, <3>3, <5>2
            <6>2. sync[b].stock = s
              BY <6>1 DEF InFlight
            <6> QED BY <2>3, <4>3, <5>2, <6>1, <6>2
          <5> QED BY <5>1, <5>2
        <4> QED BY <4>1, <4>2, <4>3 DEF Pair, Past, Open
      <3> QED BY <3>2, <3>3
    <2>5. indicators' = stored'
      BY <1>9, <2>1 DEF Untangled
    <2> QED BY <2>2, <2>4, <2>5 DEF Untangled
  <1> QED BY <1>10, <1>11, <1>12, <1>13 DEF SyncInv

\* A commit: whoever was syncing the same stock has seen it, and is alone with it now.
LEMMA ReplaceStep ==
  ASSUME SyncInv, NEW c \in Everyone, Replace(c)
  PROVE  SyncInv'
  <1>1. SyncTypeOK /\ sync \in [Everyone -> Syncing] /\ today \in Days
        /\ stored \in [Synced -> History] /\ indicators \in [Synced -> History]
    BY SyncTypes DEF SyncInv
  <1>2. PICK x : x = sync[c]
    OBVIOUS
  <1>3. x.step = "replace" /\ x \in Replacing /\ RowsKnown(x) /\ x \in Syncing
    BY <1>1, <1>2, SyncFields DEF Replace, SyncInv
  <1>4. /\ x.stock \in Synced /\ x.rows \in Partial /\ x.write \in SUBSET Days
        /\ x.new \in History /\ x.write \subseteq DOMAIN x.rows
    BY <1>3 DEF Replacing, RowsKnown
  <1>5. PICK part : part = Restrict(x.rows, x.write)
    OBVIOUS
  <1>6. part \in Partial /\ DOMAIN part = x.write /\ \A d \in x.write : part[d] = x.rows[d]
    BY <1>4, <1>5, PartOfPartial
  <1>7. PICK p : p = With(stored[x.stock], part)
    OBVIOUS
  <1>8. stored' = [stored EXCEPT ![x.stock] = p] /\ indicators' = [indicators EXCEPT ![x.stock] = x.new]
        /\ UNCHANGED <<today, upstream, faults, tangled>>
        /\ passed' = IF tangled THEN {} ELSE (passed \cup Beside(c)) \ {c}
    BY <1>2, <1>7, <1>5 DEF Replace
  <1>9. p \in History
    BY <1>1, <1>4, <1>7, <1>6, WithType
  <1>10. PICK waiting \in SUBSET Everyone :
          sync' = [b \in Everyone |-> IF b = c THEN Turned(c)
                                     ELSE IF b \in waiting THEN Failed(b) ELSE sync[b]]
    BY DEF Replace, Beside, InFlight
  <1>11. \A b \in Everyone : Turned(b) \in QuietSync /\ Failed(b) \in QuietSync
    BY Rests
  <1>12. sync' \in [Everyone -> Syncing]
    BY <1>1, <1>10, <1>11 DEF Syncing
  <1>13. \A b \in Everyone : \/ sync'[b].step = "quiet"
                             \/ sync'[b] = sync[b] /\ b # c
    BY <1>10, <1>11 DEF QuietSync
  <1>14. stored' \in [Synced -> History] /\ indicators' \in [Synced -> History]
         /\ \A t \in Synced : stored'[t] = IF t = x.stock THEN p ELSE stored[t]
    BY <1>1, <1>4, <1>8, <1>9
  <1>15. SyncTypeOK'
    <2>1. passed' \subseteq Everyone
      BY <1>1, <1>8, SyncTypes DEF SyncTypeOK, Beside, InFlight
    <2> QED BY <1>1, <1>8, <1>12, <1>14, <2>1, SyncTypes DEF SyncTypeOK, History, Syncing, QuietSync,
           Fetching, Comparing, Flushing, Computing, Replacing
  <1>16. NeverAhead'
    <2>1. \A d \in Days : p[d] <= upstream[x.stock][d]
      BY <1>3, <1>4, <1>7, <1>6 DEF With, RowsKnown, Past, SyncInv, NeverAhead
    <2>2. \A t \in Synced, d \in Days : stored'[t][d] <= upstream[t][d]
      BY <1>14, <2>1 DEF SyncInv, NeverAhead
    <2> QED BY <1>8, <2>2 DEF NeverAhead
  <1>17. ASSUME NEW b \in Everyone PROVE RowsKnown(sync[b])'
    <2>1. RowsKnown(sync[b])
      BY DEF SyncInv
    <2> QED BY <1>8, <1>13, <2>1 DEF RowsKnown, Past
  <1>18. ASSUME ~tangled' PROVE Untangled'
    <2>1. ~tangled /\ Untangled /\ passed' = (passed \cup Beside(c)) \ {c}
      BY <1>8, <1>18 DEF SyncInv
    <2>2. ASSUME NEW b \in Everyone, Flying(sync'[b])
          PROVE  /\ sync'[b] = sync[b] /\ b # c /\ sync[b].stock \in Synced
                 /\ sync[b].stock = x.stock => SameStock(b, c) /\ SameStock(c, b) /\ b \in passed'
                 /\ sync[b].stock # x.stock => /\ stored'[sync[b].stock] = stored[sync[b].stock]
                                               /\ b \in passed' <=> b \in passed
      <3>1. sync'[b] = sync[b] /\ b # c
        BY <1>13, <2>2 DEF Flying
      <3>2. sync[b].stock \in Synced /\ Flying(sync[b]) /\ Flying(sync[c])
        BY <1>1, <1>2, <1>3, <2>2, <3>1, SyncFields DEF Flying
      <3>3. sync[b].stock = x.stock => SameStock(b, c) /\ SameStock(c, b) /\ b \in Beside(c)
        BY <1>2, <3>1, <3>2 DEF SameStock, Beside, InFlight, Flying
      <3>4. sync[b].stock # x.stock => b \notin Beside(c)
        BY <1>2 DEF Beside, InFlight
      <3> QED BY <1>14, <2>1, <3>1, <3>2, <3>3, <3>4
    <2>3. indicators' = stored'
      <3>1. x.new = p
        BY <1>2, <1>3, <1>7, <1>5, <2>1 DEF Untangled, Counted
      <3> QED BY <1>8, <2>1, <3>1 DEF Untangled
    <2>4. ASSUME NEW b \in Everyone
          PROVE  (b \notin passed' => Undisturbed(sync[b])') /\ Current(sync[b])' /\ Counted(sync[b])'
      <3>1. CASE ~Flying(sync'[b])
        BY <3>1 DEF Flying, Undisturbed, Current, Counted, Past
      <3>2. CASE Flying(sync'[b]) /\ sync[b].stock = x.stock
        <4>1. Pair(b, c) /\ SameStock(b, c) /\ sync'[b] = sync[b] /\ b \in passed'
          BY <2>1, <2>2, <3>2 DEF Untangled
        <4>2. sync[b].step \notin {"compute", "replace"}
          BY <1>2, <1>3, <4>1 DEF Pair, Open
        <4>3. ASSUME sync[b].step = "flush", NEW d \in DOMAIN sync[b].rows \ sync[b].write
              PROVE  stored'[sync[b].stock][d] = sync[b].rows[d]
          <5>1. d \in Days /\ stored[x.stock][d] = sync[b].rows[d] /\ Agree(sync[b], x)
            <6>1. Past(sync[b]) /\ Past(x) /\ Current(sync[b])
              BY <1>3, <2>1, <4>3 DEF Past, Untangled
            <6>2. DOMAIN sync[b].rows \subseteq Days
              BY <1>1, <6>1, SyncFields
            <6> QED BY <1>2, <3>2, <4>1, <4>3, <6>1, <6>2 DEF Current, Pair
          <5>2. p[d] = sync[b].rows[d]
            BY <1>4, <1>7, <1>6, <5>1 DEF With, Agree
          <5> QED BY <1>4, <1>14, <3>2, <5>2
        <4>4. Current(sync[b])'
          BY <4>1, <4>2, <4>3 DEF Current
        <4>5. Counted(sync[b])'
          BY <4>1, <4>2 DEF Counted
        <4> QED BY <4>1, <4>4, <4>5
      <3>3. CASE Flying(sync'[b]) /\ sync[b].stock # x.stock
        <4>1. /\ sync'[b] = sync[b] /\ stored'[sync[b].stock] = stored[sync[b].stock]
              /\ b \in passed' <=> b \in passed
          BY <2>2, <3>3
        <4>2. (b \notin passed => Undisturbed(sync[b])) /\ Current(sync[b]) /\ Counted(sync[b])
          BY <2>1 DEF Untangled
        <4>3. Undisturbed(sync[b]) => Undisturbed(sync[b])'
          BY <1>8, <4>1, StaysFresh
        <4>4. Current(sync[b])' /\ Counted(sync[b])'
          BY <4>1, <4>2 DEF Current, Counted, With, Restrict
        <4> QED BY <4>1, <4>2, <4>3, <4>4
      <3> QED BY <3>1, <3>2, <3>3
    <2>5. ASSUME NEW b \in Everyone, NEW e \in Everyone PROVE Pair(b, e)'
      <3>1. SUFFICES ASSUME SameStock(b, e)' PROVE Pair(b, e)'
        BY DEF Pair
      <3>2. b # e /\ Flying(sync'[b]) /\ Flying(sync'[e]) /\ sync'[b].stock = sync'[e].stock
        BY <3>1 DEF SameStock, Flying
      <3>3. sync'[b] = sync[b] /\ sync'[e] = sync[e] /\ e # c /\ SameStock(b, e)
        BY <2>2, <3>2 DEF SameStock
      <3>4. sync[b].stock # x.stock /\ sync[e].stock # x.stock
        <4>1. SUFFICES ASSUME sync[b].stock = x.stock PROVE FALSE
          BY <3>3 DEF SameStock
        <4>2. SameStock(b, c) /\ Pair(b, c)
          BY <2>1, <2>2, <3>2, <4>1 DEF Untangled
        <4> QED BY <3>3, <4>2 DEF Pair
      <3>5. /\ Pair(b, e) /\ b \notin passed' /\ e \notin passed'
            /\ stored'[sync[b].stock] = stored[sync[b].stock]
            /\ stored'[sync[e].stock] = stored[sync[e].stock]
        BY <2>1, <2>2, <3>2, <3>3, <3>4 DEF Untangled, Pair
      <3>6. ASSUME NEW k \in Everyone, SameStock(b, k)' PROVE k = e
        <4>1. b # k /\ Flying(sync'[b]) /\ Flying(sync'[k]) /\ sync'[b].stock = sync'[k].stock
          BY <3>6 DEF SameStock, Flying
        <4>2. SameStock(b, k)
          BY <2>2, <4>1 DEF SameStock
        <4> QED BY <3>3, <3>5, <4>2 DEF Pair
      <3>7. Differs(sync[b])' = Differs(sync[b]) /\ Differs(sync[e])' = Differs(sync[e])
        BY <3>3, <3>5 DEF Differs
      <3> QED BY <3>3, <3>5, <3>6, <3>7 DEF Pair, Past, Agree, Open
    <2> QED BY <2>3, <2>4, <2>5 DEF Untangled
  <1> QED BY <1>15, <1>16, <1>17, <1>18 DEF SyncInv

-----------------------------------------------------------------------------
\* Nobody has synced anything at first.
LEMMA SyncStart ==
  ASSUME SyncInit
  PROVE  SyncInv
  <1>1. NoPrices \in History /\ \A d \in Days : NoPrices[d] = 0
    BY SyncAssumption DEF NoPrices, NoPrice, History
  <1>2. Quiet \in QuietSync /\ Quiet.step = "quiet"
    BY DEF Quiet, QuietSync
  <1>3. \A c \in Everyone : sync[c] = Quiet
    BY DEF SyncInit
  <1>4. SyncTypeOK
    <2>1. sync \in [Everyone -> Syncing]
      BY <1>2 DEF SyncInit, Syncing
    <2>2. today \in Days /\ faults \in 0 .. MaxFaults
      BY SyncAssumption DEF SyncInit, Days
    <2> QED BY <1>1, <2>1, <2>2, SyncTypes DEF SyncInit
  <1>5. NeverAhead
    BY <1>1 DEF SyncInit, NeverAhead
  <1>6. \A c \in Everyone : /\ RowsKnown(sync[c]) /\ Undisturbed(sync[c])
                           /\ Current(sync[c]) /\ Counted(sync[c])
    BY <1>2, <1>3 DEF RowsKnown, Undisturbed, Current, Counted, Past
  <1>7. \A b, c \in Everyone : Pair(b, c)
    BY <1>2, <1>3 DEF Pair, SameStock, Flying
  <1> QED BY <1>4, <1>5, <1>6, <1>7 DEF SyncInv, Untangled, SyncInit

\* Every step of every sync, of the market and of the calendar preserves the invariant.
LEMMA SyncKept ==
  ASSUME SyncInv, [SyncNext]_syncVars
  PROVE  SyncInv'
  <1>1. CASE UNCHANGED syncVars
    <2>1. UNCHANGED <<today, upstream, stored, indicators, sync, faults, passed, tangled>>
      BY <1>1 DEF syncVars
    <2>2. SyncTypeOK' /\ NeverAhead' /\ \A c \in Everyone : RowsKnown(sync[c])'
      BY <2>1 DEF SyncInv, SyncTypeOK, NeverAhead, RowsKnown, Past
    <2>3. ASSUME NEW c \in Everyone, Undisturbed(sync[c]) PROVE Undisturbed(sync[c])'
      BY <2>1, <2>3, StaysFresh
    <2>4. ASSUME NEW b \in Everyone, NEW c \in Everyone, Pair(b, c) PROVE Pair(b, c)'
      BY <2>1, <2>4 DEF Pair, SameStock, Flying, Past, Differs, Agree, Open
    <2>5. ~tangled => Untangled'
      BY <2>1, <2>3, <2>4 DEF SyncInv, Untangled, Current, Counted, With, Restrict
    <2> QED BY <2>1, <2>2, <2>5 DEF SyncInv
  <1>2. ASSUME NEW c \in Everyone, SyncStep(c) \/ SyncDies(c) PROVE SyncInv'
    BY <1>2, StartStep, LoadStep, DownloadStep, GiveUpStep, CompareStep, FlushStep, ComputeStep,
       ReplaceStep DEF SyncStep
  <1> QED BY <1>1, <1>2, PublishStep, NextDayStep DEF SyncNext

(* What every reachable state of the synchronisation looks like: its types; the       *)
(* stored prices are never newer than the source's; and while nothing is tangled, two *)
(* overlapping syncs were told the same prices, and one of them writes all that the   *)
(* other writes.                                                                      *)
THEOREM SyncCorrect ==
  SyncSpec => []SyncInv
  <1>1. SyncInit => SyncInv
    BY SyncStart
  <1>2. SyncInv /\ [SyncNext]_syncVars => SyncInv'
    BY SyncKept
  <1> QED BY <1>1, <1>2, PTL DEF SyncSpec

(* The indicators are those of the stored prices after every commit, whatever two      *)
(* syncs of a stock that were told the same prices do to each other                    *)
(* (sync_service.py:79, :149), in spite of the rows their sessions do not read again:  *)
(* for any number of stocks, callers and days, any lookback, any failures and crashes, *)
(* and any corrections but those between two overlapping downloads.                    *)
THEOREM IndicatorsAreCurrent ==
  SyncSpec => []IndicatorsFollow
  <1>1. SyncInv => IndicatorsFollow
    BY DEF SyncInv, Untangled, IndicatorsFollow
  <1> QED BY <1>1, SyncCorrect, PTL
-----------------------------------------------------------------------------
(* Prices that go back *)

\* A sync that is about to commit prices of a stock, beside which another has committed.
Overtaken(s) == \E c \in passed : sync[c].step = "replace" /\ sync[c].stock = s

\* What is stored is replaced by something older only by a sync that was overtaken: it had
\* downloaded before a correction that the other one has brought, and rows have no version
\* (sync_service.py:111).
OnlyOvertakenGoBack ==
  [][\A s \in Synced, d \in Days :
       stored'[s][d] < stored[s][d] => tangled \/ Overtaken(s)]_syncVars

\* What a sync carries is not older than what is stored.
Newer(x) ==
  Past(x) => \A d \in DOMAIN x.rows : stored[x.stock][d] <= x.rows[d]

BringsNewer == ~tangled => \A c \in Everyone \ passed : Newer(sync[c])

\* A sync that goes on carries nothing older, while nothing is committed.
LEMMA GoesOnNewer ==
  ASSUME SyncInv, BringsNewer, UNCHANGED stored, tangled => tangled', NEW c \in Everyone,
         passed \subseteq passed' \cup {c} \/ tangled',
         \A b \in Everyone \ {c} : sync'[b] = sync[b],
         ~tangled' /\ c \notin passed' => Newer(sync'[c])
  PROVE  BringsNewer'
  <1>1. SUFFICES ASSUME ~tangled', NEW b \in Everyone, b \notin passed' PROVE Newer(sync[b])'
    BY DEF BringsNewer
  <1>2. CASE b = c
    <2>1. PICK y : y = sync'[c]
      OBVIOUS
    <2>2. Newer(y)
      BY <1>1, <1>2, <2>1
    <2> QED BY <1>2, <2>1, <2>2 DEF Newer, Past
  <1>3. CASE b # c
    <2>1. b \notin passed /\ sync'[b] = sync[b]
      BY <1>1, <1>3
    <2>2. Newer(sync[b])
      BY <1>1, <2>1 DEF BringsNewer
    <2> QED BY <2>1, <2>2 DEF Newer, Past
  <1> QED BY <1>2, <1>3

\* Nothing is carried by a sync that is quiet or about to download.
LEMMA CarriesNothing ==
  ASSUME NEW x, x.step \in {"quiet", "download"}
  PROVE  Newer(x)
  BY DEF Newer, Past

\* A commit overtakes everybody else of its stock.
LEMMA ReplaceNewer ==
  ASSUME SyncInv, BringsNewer, NEW c \in Everyone, Replace(c)
  PROVE  BringsNewer'
  <1>1. sync \in [Everyone -> Syncing] /\ stored \in [Synced -> History]
    BY SyncTypes DEF SyncInv
  <1>2. PICK x : x = sync[c]
    OBVIOUS
  <1>3. x.step = "replace" /\ x \in Syncing /\ x.stock \in Synced
    BY <1>1, <1>2, SyncFields DEF Replace, Replacing
  <1>4. UNCHANGED tangled /\ passed' = IF tangled THEN {} ELSE (passed \cup Beside(c)) \ {c}
    BY DEF Replace
  <1>5. \A s \in Synced \ {x.stock} : stored'[s] = stored[s]
    BY <1>1, <1>2, <1>3 DEF Replace
  <1>6. PICK waiting \in SUBSET Everyone :
          sync' = [b \in Everyone |-> IF b = c THEN Turned(c)
                                     ELSE IF b \in waiting THEN Failed(b) ELSE sync[b]]
    BY DEF Replace, Beside, InFlight
  <1>7. SUFFICES ASSUME ~tangled, NEW b \in Everyone, b \notin passed' PROVE Newer(sync[b])'
    BY <1>4 DEF BringsNewer
  <1>8. CASE b = c \/ b \in waiting
    <2>1. sync'[b].step = "quiet"
      BY <1>6, <1>8 DEF Turned, Failed
    <2> QED BY <2>1 DEF Newer, Past
  <1>9. CASE b # c /\ b \notin waiting
    <2>1. sync'[b] = sync[b]
      BY <1>6, <1>9
    <2>2. b \notin passed /\ b \notin Beside(c)
      BY <1>4, <1>7, <1>9
    <2>3. CASE sync[b].step = "quiet"
      BY <2>1, <2>3 DEF Newer, Past
    <2>4. CASE sync[b].step # "quiet"
      <3>1. sync[b].stock # x.stock
        BY <1>2, <1>9, <2>2, <2>4 DEF Beside, InFlight
      <3>2. sync[b].stock \in Synced
        BY <1>1, <2>4, SyncFields DEF Flying
      <3>3. stored'[sync[b].stock] = stored[sync[b].stock]
        BY <1>5, <3>1, <3>2
      <3>4. Newer(sync[b])
        BY <1>7, <2>2 DEF BringsNewer
      <3> QED BY <2>1, <3>3, <3>4 DEF Newer, Past
    <2> QED BY <2>3, <2>4
  <1> QED BY <1>8, <1>9

\* A download is what the source has, a comparison leaves some of it, a flush and the
\* indicators leave it as it is.
LEMMA CarriedNewer ==
  ASSUME SyncInv, BringsNewer, NEW c \in Everyone,
         Download(c) \/ Compare(c) \/ Flush(c) \/ Compute(c)
  PROVE  BringsNewer'
  <1>1. sync \in [Everyone -> Syncing]
    BY SyncTypes DEF SyncInv
  <1>2. PICK x : x = sync[c]
    OBVIOUS
  <1>3. stored' = stored /\ (tangled => tangled') /\ (passed' = passed \/ tangled')
    <2>1. CASE Download(c)
      BY <2>1, SyncTypes DEF Download, SyncInv
    <2>2. CASE Compare(c) \/ Flush(c) \/ Compute(c)
      BY <2>2, SyncTypes DEF Compare, Flush, Compute, SyncInv
    <2> QED BY <2>1, <2>2
  <1>4. \A b \in Everyone \ {c} : sync'[b] = sync[b]
    BY <1>1 DEF Download, Compare, Flush, Compute
  <1>5. x.step # "quiet" => x.stock \in Synced
    BY <1>1, <1>2, SyncFields DEF Flying
  <1>6. ASSUME ~tangled, c \notin passed PROVE Newer(sync'[c])
    <2>1. Newer(x)
      BY <1>2, <1>6 DEF BringsNewer
    <2>2. CASE Download(c)
      <3>1. PICK y : y = [step |-> "compare", stock |-> x.stock, todo |-> x.todo,
                          rows |-> [d \in Window(x) |-> upstream[x.stock][d]]]
        OBVIOUS
      <3>2. sync'[c] = y
        BY <1>1, <1>2, <2>2, <3>1 DEF Download, Restrict
      <3>3. x.stock \in Synced /\ Window(x) \subseteq Days
        BY <1>2, <1>5, <2>2 DEF Download, Window, Dates
      <3>4. \A d \in DOMAIN y.rows : stored[y.stock][d] <= y.rows[d]
        BY <3>1, <3>3 DEF SyncInv, NeverAhead
      <3>5. Newer(y)
        BY <3>1, <3>4 DEF Newer, Past
      <3> QED BY <3>2, <3>5
    <2>3. CASE Compare(c) \/ Flush(c) \/ Compute(c)
      <3>1. \/ sync'[c].step = "quiet"
            \/ sync'[c].stock = x.stock /\ sync'[c].rows = x.rows
        BY <1>1, <1>2, <2>3 DEF Compare, Flush, Compute, Failed, Turned
      <3>2. Past(x)
        BY <1>2, <2>3 DEF Compare, Flush, Compute, Past
      <3>3. PICK y : y = sync'[c]
        OBVIOUS
      <3>4. Newer(y)
        BY <2>1, <3>1, <3>2, <3>3 DEF Newer, Past
      <3> QED BY <3>3, <3>4
    <2> QED BY <2>2, <2>3
  <1>7. ~tangled' /\ c \notin passed' => ~tangled /\ c \notin passed
    BY <1>3
  <1> QED BY <1>3, <1>4, <1>6, <1>7, GoesOnNewer

\* Every step leaves what a sync carries as new as what is stored, unless it is overtaken.
LEMMA NewerKept ==
  ASSUME SyncInv, BringsNewer, [SyncNext]_syncVars
  PROVE  BringsNewer'
  <1>1. sync \in [Everyone -> Syncing]
    BY SyncTypes DEF SyncInv
  <1>2. CASE UNCHANGED <<stored, sync, passed>> /\ tangled' = tangled
    BY <1>2 DEF BringsNewer, Newer, Past
  <1>3. CASE NextDay
    <2>1. CASE tangled'
      BY <2>1 DEF BringsNewer
    <2>2. CASE ~tangled'
      <3>1. ~tangled /\ UNCHANGED <<stored, sync, passed>>
        BY <1>3, <2>2 DEF NextDay
      <3> QED BY <2>2, <3>1 DEF BringsNewer, Newer, Past
    <2> QED BY <2>1, <2>2
  <1>4. ASSUME NEW c \in Everyone, SyncStep(c) \/ SyncDies(c) PROVE BringsNewer'
    <2>1. CASE StartDaily \/ DownloadFails(c) \/ SyncDies(c)
      <3>1. PICK e \in Everyone : /\ sync'[e].step = "quiet"
                                  /\ \A b \in Everyone \ {e} : sync'[b] = sync[b]
        BY <1>1, <2>1 DEF StartDaily, DownloadFails, SyncDies, Quiet, Failed, Turned, Everyone
      <3>2. UNCHANGED <<stored, passed, tangled>>
        BY <2>1 DEF StartDaily, DownloadFails, SyncDies
      <3>3. PICK y : y = sync'[e]
        OBVIOUS
      <3>4. Newer(y)
        BY <3>1, <3>3, CarriesNothing
      <3> QED BY <3>1, <3>2, <3>3, <3>4, GoesOnNewer
    <2>2. ASSUME NEW s \in Synced, LoadLast(c, s) PROVE BringsNewer'
      <3>1. /\ sync'[c].step = "download" /\ \A b \in Everyone \ {c} : sync'[b] = sync[b]
            /\ UNCHANGED stored /\ (tangled => tangled')
        BY <1>1, <2>2 DEF LoadLast
      <3>2. passed \subseteq passed' \cup {c} \/ tangled'
        BY <2>2 DEF LoadLast
      <3>3. PICK y : y = sync'[c]
        OBVIOUS
      <3>4. Newer(y)
        BY <3>1, <3>3, CarriesNothing
      <3> QED BY <3>1, <3>2, <3>3, <3>4, GoesOnNewer
    <2> QED BY <1>4, <2>1, <2>2, CarriedNewer, ReplaceNewer DEF SyncStep
  <1> QED BY <1>2, <1>3, <1>4 DEF SyncNext, Publish, syncVars

\* A commit that nobody has overtaken brings nothing older.
LEMMA CommitIsNewer ==
  ASSUME SyncInv, BringsNewer, NEW c \in Everyone, Replace(c), ~tangled,
         NEW s \in Synced, NEW d \in Days, stored'[s][d] < stored[s][d]
  PROVE  Overtaken(s)
  <1>1. sync \in [Everyone -> Syncing] /\ stored \in [Synced -> History]
    BY SyncTypes DEF SyncInv
  <1>2. PICK x : x = sync[c]
    OBVIOUS
  <1>3. x.step = "replace" /\ x \in Replacing /\ x \in Syncing
    BY <1>1, <1>2, SyncFields DEF Replace
  <1>4. x.stock \in Synced /\ x.rows \in Partial /\ x.write \in SUBSET DOMAIN x.rows /\ Past(x)
        /\ x.write \in SUBSET Days
    BY <1>2, <1>3 DEF Replacing, SyncInv, RowsKnown, Past
  <1>5. PICK part : part = Restrict(x.rows, x.write)
    OBVIOUS
  <1>6. part \in Partial /\ DOMAIN part = x.write /\ \A e \in x.write : part[e] = x.rows[e]
    BY <1>4, <1>5, PartOfPartial
  <1>7. PICK p : p = With(stored[x.stock], part)
    OBVIOUS
  <1>8. p \in History
    BY <1>1, <1>4, <1>7, <1>6, WithType
  <1>9. stored' = [stored EXCEPT ![x.stock] = p]
    BY <1>2, <1>7, <1>5 DEF Replace
  <1>10. stored[s][d] \in Int
    BY <1>1 DEF History
  <1>11. s = x.stock
    BY <1>1, <1>9, <1>10
  <1>12. p[d] < stored[s][d] /\ p[d] \in Int
    BY <1>1, <1>8, <1>9, <1>11 DEF History
  <1>13. d \in DOMAIN x.rows /\ p[d] = x.rows[d]
    BY <1>4, <1>7, <1>10, <1>11, <1>12, <1>6 DEF With
  <1>14. c \in passed
    <2>1. SUFFICES ASSUME c \notin passed PROVE FALSE
      OBVIOUS
    <2>2. Newer(x)
      BY <1>2, <2>1 DEF BringsNewer
    <2>3. stored[s][d] <= x.rows[d]
      BY <1>4, <1>11, <1>13, <2>2 DEF Newer
    <2> QED BY <1>10, <1>12, <1>13, <2>3
  <1> QED BY <1>2, <1>3, <1>11, <1>14 DEF Overtaken

(* A stored price is replaced by an older one only by a sync that another one of its stock *)
(* has overtaken between its download and its commit (sync_service.py:138): for any number *)
(* of callers, stocks and days, as long as nothing is tangled: no third sync gets between  *)
(* two, and no price is corrected between their downloads.                                 *)
THEOREM PricesGoForward ==
  SyncSpec => OnlyOvertakenGoBack
  <1>1. SyncInit => SyncInv /\ BringsNewer
    <2>1. SyncInit => BringsNewer
      BY DEF SyncInit, BringsNewer, Newer, Past, Quiet
    <2> QED BY <2>1, SyncStart
  <1>2. SyncInv /\ BringsNewer /\ [SyncNext]_syncVars => SyncInv' /\ BringsNewer'
    BY SyncKept, NewerKept
  <1>3. ASSUME SyncInv, BringsNewer, [SyncNext]_syncVars
        PROVE  [\A s \in Synced, d \in Days :
                  stored'[s][d] < stored[s][d] => tangled \/ Overtaken(s)]_syncVars
    <2>1. SUFFICES ASSUME NEW s \in Synced, NEW d \in Days, stored'[s][d] < stored[s][d], ~tangled
                   PROVE  Overtaken(s)
      OBVIOUS
    <2>2. CASE UNCHANGED stored
      <3>1. stored \in [Synced -> History]
        BY <1>3, SyncTypes DEF SyncInv
      <3>2. stored[s][d] \in Int
        BY <3>1 DEF History
      <3> QED BY <2>1, <2>2, <3>2
    <2>3. ASSUME NEW c \in Everyone, Replace(c) PROVE Overtaken(s)
      BY <1>3, <2>1, <2>3, CommitIsNewer
    <2>4. (\E c \in Everyone : Replace(c)) \/ UNCHANGED stored
      BY <1>3 DEF SyncNext, SyncStep, SyncDies, Publish, NextDay, StartDaily, LoadLast, Download,
                  DownloadFails, Compare, Flush, Compute, syncVars
    <2> QED BY <2>2, <2>3, <2>4
  <1> QED BY <1>1, <1>2, <1>3, PTL DEF SyncSpec, OnlyOvertakenGoBack
=================================================================================
