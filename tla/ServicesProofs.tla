---------------------------- MODULE ServicesProofs ----------------------------
(***************************************************************************)
(* Theorems about the services side by side (MCServices) and those parts   *)
(* of them that no other module of theorems treats: the briefing of        *)
(* ReportCache, for any number of runs of one process, the bands and the   *)
(* research of DayRows, for any number of overlapping readers, the list of *)
(* JobCentre; and at the end all of them together, for every value of the  *)
(* constants.                                                              *)
(***************************************************************************)
EXTENDS MCServices, LoginProofs, SyncProofs, WatchlistProofs, CalculationsProofs,
        SequenceTheorems, WellFoundedInduction, TLAPS

-----------------------------------------------------------------------------
(* The rows of a day *)

\* What a reader remembers of the table: a row it found was not older than its day.
ReaderOK(x) == x.step \in {"feed", "report"} => x.row = NoRow \/ x.row >= x.day

RowsInv ==
  /\ RowsTypeOK
  /\ BandsAgree
  /\ NeverOutdated
  /\ \A r \in Readers : ReaderOK(reader[r])

\* A set of numbers with a bound has a greatest one.
LEMMA GreatestNat ==
  ASSUME NEW N \in Nat, NEW S \in SUBSET (0 .. N), S # {}
  PROVE  Max(S) \in S /\ \A y \in S : y <= Max(S)
  <1> DEFINE bounds == {n \in Nat : \A y \in S : y <= n}
  <1>1. N \in bounds
    OBVIOUS
  <1>2. PICK x \in bounds : \A y \in bounds : ~(<<y, x>> \in OpToRel(<, Nat))
    BY <1>1, NatLessThanWellFounded, WFMin
  <1>3. ASSUME NEW y \in bounds, y < x PROVE FALSE
    <2>1. <<y, x>> \in Nat \X Nat /\ <<y, x>>[1] < <<y, x>>[2]
      BY <1>3
    <2>2. <<y, x>> \in OpToRel(<, Nat)
      BY <2>1, Zenon DEF OpToRel
    <2> QED BY <2>2, <1>2
  <1>4. x \in Nat /\ \A y \in S : y <= x
    OBVIOUS
  <1>5. x \in S
    <2>1. SUFFICES ASSUME x \notin S PROVE FALSE
      OBVIOUS
    <2>2. \A y \in S : y \in Nat /\ y < x
      BY <1>4, <2>1
    <2>3. PICK y \in S : TRUE
      OBVIOUS
    <2>4. x - 1 \in Nat /\ x - 1 < x
      BY <1>4, <2>2, <2>3
    <2>5. \A z \in S : z <= x - 1
      BY <1>4, <2>2
    <2> QED BY <1>3, <2>4, <2>5
  <1>6. \E m \in S : \A y \in S : m >= y
    BY <1>4, <1>5
  <1>7. Max(S) \in S /\ \A y \in S : Max(S) >= y
    BY <1>6 DEF Max
  <1> QED BY <1>7

\* The newest report that is not older than a day, if there is one.
LEMMA NewestRow ==
  ASSUME NEW day \in 1 .. RowDays
  PROVE  /\ Newest(day) \in 0 .. RowDays
         /\ Newest(day) # NoRow => Newest(day) >= day
         /\ \A d \in day .. RowDays : research[d] # NoRow => Newest(day) >= d
  <1> DEFINE S == {NoRow} \cup {d \in day .. RowDays : research[d] # NoRow}
  <1>1. RowDays \in Nat /\ S \in SUBSET (0 .. RowDays) /\ S # {}
    BY RowsAssumption DEF NoRow
  <1>2. Max(S) \in S /\ \A y \in S : y <= Max(S)
    BY <1>1, GreatestNat
  <1>3. Newest(day) = Max(S)
    BY DEF Newest
  <1> HIDE DEF S
  <1>4. Newest(day) \in S /\ \A y \in S : y <= Newest(day)
    BY <1>2, <1>3
  <1> QED BY <1>4, <1>1 DEF S, NoRow

\* Where a reader may stand.
Reading ==
  {AtRest}
    \cup [step : {"cache", "band"}, day : 1 .. RowDays, from : 1 .. Sources]
    \cup [step : {"feed"}, day : 1 .. RowDays, row : 0 .. RowDays, old : 0 .. Sources]
    \cup [step : {"report"}, day : 1 .. RowDays, row : 0 .. RowDays, old : 0 .. Sources,
          from : 1 .. Sources]

\* What it holds there.
LEMMA ReadingFields ==
  ASSUME NEW x \in Reading
  PROVE  /\ x.step \in {"cache", "band"} => x \in [step : {"cache", "band"}, day : 1 .. RowDays, from : 1 .. Sources]
         /\ x.step = "feed" => x \in [step : {"feed"}, day : 1 .. RowDays, row : 0 .. RowDays,
                                      old : 0 .. Sources]
         /\ x.step = "report" => x \in [step : {"report"}, day : 1 .. RowDays, row : 0 .. RowDays,
                                        old : 0 .. Sources, from : 1 .. Sources]
  BY DEF Reading, AtRest

\* One reader goes on.
LEMMA ReaderGoes ==
  ASSUME RowsInv, NEW r \in Readers, NEW x \in Reading, ReaderOK(x), Turns(r, x)
  PROVE  reader' \in [Readers -> Reading] /\ \A q \in Readers : ReaderOK(reader[q])'
  <1>1. reader \in [Readers -> Reading] /\ \A q \in Readers : ReaderOK(reader[q])
    BY DEF RowsInv, RowsTypeOK, Reading
  <1>2. reader' = [reader EXCEPT ![r] = x]
    BY DEF Turns
  <1>3. reader' \in [Readers -> Reading]
    BY <1>1, <1>2
  <1>4. ASSUME NEW q \in Readers PROVE ReaderOK(reader[q])'
    <2>1. reader'[q] = IF q = r THEN x ELSE reader[q]
      BY <1>1, <1>2
    <2>2. ReaderOK(reader[q])
      BY <1>1
    <2> QED BY <2>1, <2>2 DEF ReaderOK
  <1> QED BY <1>3, <1>4

\* At rest a reader remembers nothing.
LEMMA RestingReader == AtRest \in Reading /\ ReaderOK(AtRest)
  BY DEF Reading, ReaderOK, AtRest

\* Bands are shown as they are stored.
LEMMA BandsStep ==
  ASSUME RowsInv, NEW r \in Readers,
         ReadPrices(r) \/ LookForBands(r) \/ StoreBands(r)
  PROVE  RowsInv'
  <1>1. /\ rowDay \in 1 .. RowDays /\ source \in 1 .. Sources
        /\ bands \in [1 .. RowDays -> 0 .. Sources] /\ research \in [1 .. RowDays -> 0 .. Sources]
        /\ bandsShown \in [1 .. RowDays -> SUBSET (1 .. Sources)] /\ outdated = FALSE
        /\ reader[r] \in Reading
    BY DEF RowsInv, RowsTypeOK, NeverOutdated, Reading
  <1>2. UNCHANGED <<rowDay, source, research, outdated>>
    BY DEF ReadPrices, LookForBands, StoreBands
  <1>3. CASE ReadPrices(r)
    <2>1. PICK x : x = [step |-> "cache", day |-> rowDay, from |-> source]
      OBVIOUS
    <2>2. x \in Reading /\ ReaderOK(x)
      BY <1>1, <2>1 DEF Reading, ReaderOK
    <2>3. Turns(r, x) /\ UNCHANGED <<bands, bandsShown>>
      BY <1>3, <2>1 DEF ReadPrices
    <2>4. reader' \in [Readers -> Reading] /\ \A q \in Readers : ReaderOK(reader[q])'
      BY <2>2, <2>3, ReaderGoes
    <2> QED BY <1>1, <1>2, <2>3, <2>4 DEF RowsInv, RowsTypeOK, Reading, BandsAgree, NeverOutdated
  <1>4. ASSUME NEW d \in 1 .. RowDays, NEW what \in 1 .. Sources, ShowBands(r, d, what),
               bands' = [bands EXCEPT ![d] = what], bandsShown[d] \subseteq {what}
        PROVE  RowsInv'
    <2>1. reader' \in [Readers -> Reading] /\ \A q \in Readers : ReaderOK(reader[q])'
      BY <1>4, RestingReader, ReaderGoes DEF ShowBands
    <2>2. bands' \in [1 .. RowDays -> 0 .. Sources]
      BY <1>1, <1>4
    <2>3. /\ bandsShown' = [bandsShown EXCEPT ![d] = bandsShown[d] \cup {what}]
          /\ bandsShown[d] \cup {what} \in SUBSET (1 .. Sources)
      BY <1>1, <1>4 DEF ShowBands
    <2>4. bandsShown' \in [1 .. RowDays -> SUBSET (1 .. Sources)]
      BY <1>1, <2>3
    <2>5. ASSUME NEW e \in 1 .. RowDays PROVE bandsShown'[e] \subseteq {bands'[e]}
      <3>1. bandsShown[e] \subseteq {bands[e]}
        BY DEF RowsInv, BandsAgree
      <3> QED BY <1>1, <1>4, <2>3, <3>1
    <2> QED BY <1>1, <1>2, <2>1, <2>2, <2>4, <2>5
        DEF RowsInv, RowsTypeOK, Reading, BandsAgree, NeverOutdated
  <1>5. CASE LookForBands(r)
    <2>1. PICK x : x = reader[r]
      OBVIOUS
    <2>2. x \in [step : {"cache", "band"}, day : 1 .. RowDays, from : 1 .. Sources] /\ x.step = "cache"
      BY <1>1, <1>5, <2>1, ReadingFields DEF LookForBands
    <2>3. bands' = bands
      BY <1>5 DEF LookForBands
    <2>4. CASE bands[x.day] # NoRow
      <3>1. ShowBands(r, x.day, bands[x.day])
        BY <1>5, <2>1, <2>4 DEF LookForBands
      <3>2. bands[x.day] \in 1 .. Sources /\ x.day \in 1 .. RowDays
        BY <1>1, <2>2, <2>4 DEF NoRow
      <3>3. bands' = [bands EXCEPT ![x.day] = bands[x.day]] /\ bandsShown[x.day] \subseteq {bands[x.day]}
        BY <1>1, <2>3, <3>2 DEF RowsInv, BandsAgree
      <3> QED BY <1>4, <3>1, <3>2, <3>3
    <2>5. CASE bands[x.day] = NoRow
      <3>1. Turns(r, [x EXCEPT !.step = "band"]) /\ UNCHANGED bandsShown
        BY <1>5, <2>1, <2>5 DEF LookForBands
      <3>2. PICK y : y = [x EXCEPT !.step = "band"]
        OBVIOUS
      <3>3. y \in [step : {"cache", "band"}, day : 1 .. RowDays, from : 1 .. Sources] /\ y.step = "band"
        BY <2>2, <3>2
      <3>4. y \in Reading /\ ReaderOK(y)
        BY <3>3 DEF Reading, ReaderOK
      <3>5. reader' \in [Readers -> Reading] /\ \A q \in Readers : ReaderOK(reader[q])'
        BY <3>1, <3>2, <3>4, ReaderGoes
      <3> QED BY <1>1, <1>2, <2>3, <3>1, <3>5
          DEF RowsInv, RowsTypeOK, Reading, BandsAgree, NeverOutdated
    <2> QED BY <2>4, <2>5
  <1>6. CASE StoreBands(r)
    <2>1. PICK x : x = reader[r]
      OBVIOUS
    <2>2. x \in [step : {"cache", "band"}, day : 1 .. RowDays, from : 1 .. Sources]
      BY <1>1, <1>6, <2>1, ReadingFields DEF StoreBands
    <2>3. PICK kept : kept = IF bands[x.day] = NoRow THEN x.from ELSE bands[x.day]
      OBVIOUS
    <2>4. bands' = [bands EXCEPT ![x.day] = kept] /\ ShowBands(r, x.day, kept)
      BY <1>6, <2>1, <2>3 DEF StoreBands
    <2>5. x.day \in 1 .. RowDays /\ kept \in 1 .. Sources
      BY <1>1, <2>2, <2>3 DEF NoRow
    <2>6. bandsShown[x.day] \subseteq {kept}
      <3>1. bandsShown[x.day] \subseteq {bands[x.day]} /\ bandsShown[x.day] \subseteq 1 .. Sources
        BY <1>1, <2>5 DEF RowsInv, BandsAgree
      <3> QED BY <2>3, <3>1 DEF NoRow
    <2> QED BY <1>4, <2>4, <2>5, <2>6
  <1> QED BY <1>3, <1>5, <1>6

\* Research is never older than it was asked for.
LEMMA ResearchStep ==
  ASSUME RowsInv, NEW r \in Readers,
         LookForResearch(r) \/ Research(r) \/ StoreResearch(r)
  PROVE  RowsInv'
  <1>1. /\ rowDay \in 1 .. RowDays /\ source \in 1 .. Sources /\ RowDays \in Nat /\ Sources \in Nat
        /\ bands \in [1 .. RowDays -> 0 .. Sources] /\ research \in [1 .. RowDays -> 0 .. Sources]
        /\ bandsShown \in [1 .. RowDays -> SUBSET (1 .. Sources)] /\ outdated = FALSE
        /\ reader[r] \in Reading /\ ReaderOK(reader[r])
    BY RowsAssumption DEF RowsInv, RowsTypeOK, NeverOutdated, Reading
  <1>2. UNCHANGED <<rowDay, source, bands, bandsShown>>
    BY DEF LookForResearch, Research, StoreResearch
  <1>3. ASSUME NEW x \in Reading, ReaderOK(x), Turns(r, x), outdated' = FALSE,
               research' \in [1 .. RowDays -> 0 .. Sources]
        PROVE  RowsInv'
    <2>1. reader' \in [Readers -> Reading] /\ \A q \in Readers : ReaderOK(reader[q])'
      BY <1>3, ReaderGoes
    <2>2. BandsAgree'
      BY <1>2 DEF RowsInv, BandsAgree
    <2> QED BY <1>1, <1>2, <1>3, <2>1, <2>2 DEF RowsInv, RowsTypeOK, Reading, NeverOutdated
  <1>4. ASSUME NEW wanted \in 1 .. RowDays, NEW day \in 0 .. RowDays, day >= wanted,
               GetsResearch(r, wanted, day), research' \in [1 .. RowDays -> 0 .. Sources]
        PROVE  RowsInv'
    <2>1. ~(day < wanted)
      BY <1>4
    <2>2. Turns(r, AtRest) /\ outdated' = FALSE
      BY <1>1, <1>4, <2>1 DEF GetsResearch
    <2> QED BY <1>3, <1>4, <2>2, RestingReader
  <1>5. CASE LookForResearch(r)
    <2>1. PICK row : row = Newest(rowDay)
      OBVIOUS
    <2>2. row \in 0 .. RowDays /\ (row # NoRow => row >= rowDay)
      BY <1>1, <2>1, NewestRow
    <2>3. research' = research
      BY <1>5 DEF LookForResearch
    <2>4. CASE row # NoRow /\ GetsResearch(r, rowDay, row)
      BY <1>1, <1>4, <2>2, <2>3, <2>4
    <2>5. CASE Turns(r, [step |-> "feed", day |-> rowDay, row |-> row,
                         old |-> IF row = NoRow THEN NoRow ELSE research[row]])
               /\ UNCHANGED outdated
      <3>1. PICK x : x = [step |-> "feed", day |-> rowDay, row |-> row,
                          old |-> IF row = NoRow THEN NoRow ELSE research[row]]
        OBVIOUS
      <3>2. (IF row = NoRow THEN NoRow ELSE research[row]) \in 0 .. Sources
        BY <1>1, <2>2 DEF NoRow
      <3>3. x \in Reading
        BY <1>1, <2>2, <3>1, <3>2 DEF Reading
      <3>4. ReaderOK(x)
        BY <2>2, <3>1 DEF ReaderOK
      <3> QED BY <1>1, <1>3, <2>3, <2>5, <3>1, <3>3, <3>4
    <2> QED BY <1>5, <2>1, <2>4, <2>5 DEF LookForResearch
  <1>6. CASE Research(r)
    <2>1. PICK x : x = reader[r]
      OBVIOUS
    <2>2. x \in [step : {"feed"}, day : 1 .. RowDays, row : 0 .. RowDays, old : 0 .. Sources]
      BY <1>1, <1>6, <2>1, ReadingFields DEF Research
    <2>3. PICK y : y = [step |-> "report", day |-> x.day, row |-> x.row, old |-> x.old, from |-> source]
      OBVIOUS
    <2>4. y \in Reading
      BY <1>1, <2>2, <2>3 DEF Reading
    <2>5. ReaderOK(y)
      BY <1>1, <2>1, <2>2, <2>3 DEF ReaderOK
    <2>6. Turns(r, y) \/ Turns(r, AtRest)
      BY <1>6, <2>1, <2>3 DEF Research
    <2>7. research' = research /\ outdated' = FALSE
      BY <1>1, <1>6 DEF Research
    <2> QED BY <1>1, <1>3, <2>4, <2>5, <2>6, <2>7, RestingReader
  <1>7. CASE StoreResearch(r)
    <2>1. PICK x : x = reader[r]
      OBVIOUS
    <2>2. /\ x \in [step : {"report"}, day : 1 .. RowDays, row : 0 .. RowDays, old : 0 .. Sources,
                    from : 1 .. Sources]
          /\ x.row = NoRow \/ x.row >= x.day
      BY <1>1, <1>7, <2>1, ReadingFields DEF StoreResearch, ReaderOK
    <2> DEFINE insert == x.row = NoRow /\ research[x.day] = NoRow
               update == x.row # NoRow /\ x.from # x.old
               row == IF x.row = NoRow THEN x.day ELSE x.row
               told == IF x.row # NoRow \/ insert THEN row ELSE Newest(x.day)
    <2>3. /\ research' = IF insert \/ update THEN [research EXCEPT ![row] = x.from] ELSE research
          /\ GetsResearch(r, x.day, told)
      BY <1>7, <2>1 DEF StoreResearch
    <2>4. research' \in [1 .. RowDays -> 0 .. Sources]
      BY <1>1, <2>2, <2>3 DEF NoRow
    <2>5. /\ Newest(x.day) \in 0 .. RowDays
          /\ research[x.day] # NoRow => Newest(x.day) >= x.day
      BY <1>1, <2>2, NewestRow
    <2>6. told \in 0 .. RowDays /\ told >= x.day
      BY <1>1, <2>2, <2>5
    <2> HIDE DEF told
    <2> QED BY <1>4, <2>2, <2>3, <2>4, <2>6
  <1> QED BY <1>5, <1>6, <1>7

\* Every step of the rows keeps their invariant.
LEMMA RowsStep ==
  ASSUME RowsInv, [RowsNext]_rowVars
  PROVE  RowsInv'
  <1>1. ASSUME UNCHANGED <<bands, research, reader, bandsShown, outdated>>,
               rowDay' \in 1 .. RowDays, source' \in 1 .. Sources
        PROVE  RowsInv'
    <2>1. \A r \in Readers : ReaderOK(reader[r])'
      BY <1>1 DEF RowsInv, ReaderOK
    <2> QED BY <1>1, <2>1 DEF RowsInv, RowsTypeOK, BandsAgree, NeverOutdated
  <1>2. CASE UNCHANGED rowVars \/ SourceChanges \/ DayEnds
    <2>1. UNCHANGED <<bands, research, reader, bandsShown, outdated>>
      BY <1>2 DEF rowVars, SourceChanges, DayEnds
    <2>2. rowDay' \in 1 .. RowDays /\ source' \in 1 .. Sources
      BY <1>2, RowsAssumption DEF rowVars, SourceChanges, DayEnds, RowsInv, RowsTypeOK
    <2> QED BY <1>1, <2>1, <2>2
  <1>3. ASSUME NEW r \in Readers, ReadPrices(r) \/ LookForBands(r) \/ StoreBands(r)
                                    \/ LookForResearch(r) \/ Research(r) \/ StoreResearch(r)
        PROVE  RowsInv'
    BY <1>3, BandsStep, ResearchStep
  <1> QED BY <1>2, <1>3 DEF RowsNext

-----------------------------------------------------------------------------
(* The lock around the briefing *)

Waits(x) == x.step = "wait"
Inside(x) == x.step \notin {"off", "wait"} /\ x.kind # "routine"

\* Only briefing runs wait for the lock and do what it protects.
KindOK(x) == x.step \in {"wait", "context", "generate", "store"} => x.kind # "routine"

\* Who is in the queue of a process: the first may be inside, the others wait.
QueueOK(h) ==
  /\ \A i \in 1 .. Len(queue[h]) :
       LET q == queue[h][i]
       IN  Home[q] = h /\ (Waits(run[q]) \/ (i = 1 /\ Inside(run[q])))
  /\ \A i, j \in 1 .. Len(queue[h]) : queue[h][i] = queue[h][j] => i = j

\* Whoever waits or is inside is in the queue.
Queued(r) ==
  Waits(run[r]) \/ Inside(run[r]) => \E i \in 1 .. Len(queue[Home[r]]) : queue[Home[r]][i] = r

LockInv ==
  /\ CacheTypeOK
  /\ \A r \in Runs : KindOK(run[r])
  /\ \A h \in Homes : QueueOK(h)
  /\ \A r \in Runs : Queued(r)

\* Where a run may stand.
Running ==
  {Off}
    \cup [step : {"wait", "plan", "context"}, kind : Kind]
    \cup [step : {"ask"}, kind : Kind, from : 1 .. MaxFacts, left : SUBSET Covered]
    \cup [step : {"write"}, kind : Kind, from : 1 .. MaxFacts, left : SUBSET Covered,
          rows : SUBSET Covered]
    \cup [step : {"generate", "store"}, kind : Kind, prompt : Prompts, new : BOOLEAN]

\* What it holds there.
LEMMA RunningFields ==
  ASSUME NEW x \in Running
  PROVE  /\ x.step \in {"wait", "plan", "context"} => x \in [step : {"wait", "plan", "context"}, kind : Kind]
         /\ x.step = "ask" => x \in [step : {"ask"}, kind : Kind, from : 1 .. MaxFacts,
                                     left : SUBSET Covered]
         /\ x.step = "write" => x \in [step : {"write"}, kind : Kind, from : 1 .. MaxFacts,
                                       left : SUBSET Covered, rows : SUBSET Covered]
         /\ x.step \in {"generate", "store"} =>
              x \in [step : {"generate", "store"}, kind : Kind, prompt : Prompts, new : BOOLEAN]
         /\ x.step \notin {"wait", "plan", "context", "ask", "write", "generate", "store"} => x = Off
  BY DEF Running, Off

\* The queues have elements, and one run is at most once in them.
LEMMA QueueType ==
  ASSUME LockInv, NEW h \in Homes
  PROVE  /\ queue[h] \in Seq(Runs) /\ Len(queue[h]) \in Nat
         /\ \A i \in 1 .. Len(queue[h]) : queue[h][i] \in Runs
         /\ queue[h] # <<>> => Len(queue[h]) > 0 /\ Head(queue[h]) = queue[h][1]
  <1>1. queue[h] \in Seq(Runs)
    BY DEF LockInv, CacheTypeOK
  <1>2. Len(queue[h]) \in Nat /\ \A i \in 1 .. Len(queue[h]) : queue[h][i] \in Runs
    BY <1>1, LenProperties, ElementOfSeq
  <1>3. queue[h] # <<>> => Len(queue[h]) > 0 /\ Head(queue[h]) = queue[h][1]
    BY <1>1, <1>2, EmptySeq, HeadTailProperties
  <1> QED BY <1>1, <1>2, <1>3

\* Whoever is inside is at the head of the queue of its process.
LEMMA InsideIsHead ==
  ASSUME LockInv, NEW r \in Runs, Inside(run[r])
  PROVE  queue[Home[r]] # <<>> /\ Head(queue[Home[r]]) = r /\ queue[Home[r]][1] = r
  <1>1. Home[r] \in Homes
    BY CacheAssumption
  <1>2. PICK i \in 1 .. Len(queue[Home[r]]) : queue[Home[r]][i] = r
    BY DEF LockInv, Queued
  <1>3. i = 1
    <2>1. Waits(run[r]) \/ i = 1
      BY <1>1, <1>2 DEF LockInv, QueueOK
    <2> QED BY <2>1 DEF Waits, Inside
  <1>4. Len(queue[Home[r]]) > 0 /\ queue[Home[r]] \in Seq(Runs)
    BY <1>1, <1>2, QueueType
  <1>5. queue[Home[r]] # <<>>
    BY <1>4, EmptySeq
  <1> QED BY <1>1, <1>2, <1>3, <1>5, QueueType

\* A run goes on without coming to or leaving the lock.
LEMMA RunMoves ==
  ASSUME LockInv, NEW r \in Runs, NEW x \in Running, KindOK(x),
         run' = [run EXCEPT ![r] = x], queue' = queue,
         Inside(x) <=> Inside(run[r]), Waits(x) <=> Waits(run[r]),
         facts' \in 1 .. MaxFacts, reports' \in [Covered -> 0 .. MaxFacts],
         briefing' \in Prompts \cup {NoBriefing}
  PROVE  LockInv'
  <1>1. run \in [Runs -> Running] /\ queue \in [Homes -> Seq(Runs)]
    BY DEF LockInv, CacheTypeOK, Running
  <1>2. run' \in [Runs -> Running] /\ \A q \in Runs : run'[q] = IF q = r THEN x ELSE run[q]
    BY <1>1
  <1>3. \A q \in Runs : (Inside(run'[q]) <=> Inside(run[q])) /\ (Waits(run'[q]) <=> Waits(run[q]))
    BY <1>2
  <1>4. ASSUME NEW h \in Homes PROVE QueueOK(h)'
    <2>1. QueueOK(h) /\ \A i \in 1 .. Len(queue[h]) : queue[h][i] \in Runs
      BY QueueType DEF LockInv
    <2> QED BY <1>3, <2>1 DEF QueueOK, Waits, Inside
  <1>5. ASSUME NEW q \in Runs PROVE Queued(q)'
    <2>1. Queued(q)
      BY DEF LockInv
    <2> QED BY <1>3, <2>1 DEF Queued, Waits, Inside
  <1>6. \A q \in Runs : KindOK(run[q])'
    BY <1>2 DEF LockInv, KindOK
  <1> QED BY <1>1, <1>2, <1>4, <1>5, <1>6 DEF LockInv, CacheTypeOK, Running

\* A briefing run that is done lets the next one in; a routine run lets nobody.
LEMMA RunLeaves ==
  ASSUME LockInv, NEW r \in Runs, ~Waits(run[r]),
         run' = [run EXCEPT ![r] = Off], queue' = Released(r),
         facts' = facts, reports' = reports, briefing' \in Prompts \cup {NoBriefing}
  PROVE  LockInv'
  <1>1. run \in [Runs -> Running] /\ queue \in [Homes -> Seq(Runs)] /\ Off \in Running
    BY DEF LockInv, CacheTypeOK, Running
  <1>2. run' \in [Runs -> Running] /\ \A q \in Runs : run'[q] = IF q = r THEN Off ELSE run[q]
    BY <1>1
  <1>3. ~Waits(Off) /\ ~Inside(Off) /\ KindOK(Off)
    BY DEF Waits, Inside, KindOK, Off
  <1>4. \A h \in Homes :
          queue'[h] = IF queue[h] # <<>> /\ Head(queue[h]) = r THEN Tail(queue[h]) ELSE queue[h]
    BY DEF Released
  <1>5. ASSUME NEW h \in Homes
        PROVE  /\ queue'[h] \in Seq(Runs)
               /\ QueueOK(h)'
               /\ \A q \in Runs : q # r /\ (\E i \in 1 .. Len(queue[h]) : queue[h][i] = q) =>
                    \E i \in 1 .. Len(queue'[h]) : queue'[h][i] = q
    <2>1. /\ queue[h] \in Seq(Runs) /\ Len(queue[h]) \in Nat
          /\ \A i \in 1 .. Len(queue[h]) : queue[h][i] \in Runs
          /\ queue[h] # <<>> => Len(queue[h]) > 0 /\ Head(queue[h]) = queue[h][1]
      BY QueueType
    <2>2. /\ \A i \in 1 .. Len(queue[h]) : /\ Home[queue[h][i]] = h
                                           /\ Waits(run[queue[h][i]]) \/ (i = 1 /\ Inside(run[queue[h][i]]))
          /\ \A i, j \in 1 .. Len(queue[h]) : queue[h][i] = queue[h][j] => i = j
      BY DEF LockInv, QueueOK
    <2>3. CASE queue[h] # <<>> /\ Head(queue[h]) = r
      <3>1. /\ queue'[h] \in Seq(Runs) /\ Len(queue'[h]) = Len(queue[h]) - 1
            /\ \A i \in 1 .. Len(queue[h]) - 1 : queue'[h][i] = queue[h][i + 1]
        <4>1. /\ Tail(queue[h]) \in Seq(Runs) /\ Len(Tail(queue[h])) = Len(queue[h]) - 1
              /\ \A i \in 1 .. Len(Tail(queue[h])) : Tail(queue[h])[i] = queue[h][i + 1]
          BY <2>1, <2>3, HeadTailProperties
        <4>2. queue'[h] = Tail(queue[h])
          BY <1>4, <2>3
        <4> QED BY <4>1, <4>2
      <3>2. queue[h][1] = r
        BY <2>1, <2>3
      <3>3. ASSUME NEW i \in 1 .. Len(queue'[h])
            PROVE  /\ queue'[h][i] = queue[h][i + 1] /\ i + 1 \in 1 .. Len(queue[h]) /\ i + 1 # 1
                   /\ queue[h][i + 1] # r
        <4>1. queue'[h][i] = queue[h][i + 1] /\ i + 1 \in 1 .. Len(queue[h]) /\ i + 1 # 1
              /\ 1 \in 1 .. Len(queue[h])
          BY <2>1, <3>1
        <4>2. queue[h][i + 1] # queue[h][1]
          BY <2>2, <4>1
        <4> QED BY <3>2, <4>1, <4>2
      <3>4. ASSUME NEW i \in 1 .. Len(queue'[h])
            PROVE  Home[queue'[h][i]] = h /\ Waits(run'[queue'[h][i]])
        <4>1. /\ queue[h][i + 1] \in Runs /\ Home[queue[h][i + 1]] = h
              /\ Waits(run[queue[h][i + 1]])
          BY <2>1, <2>2, <3>3
        <4>2. run'[queue'[h][i]] = run[queue[h][i + 1]]
          BY <1>2, <3>3, <4>1
        <4> QED BY <3>3, <4>1, <4>2
      <3>5. ASSUME NEW i \in 1 .. Len(queue'[h]), NEW j \in 1 .. Len(queue'[h]),
                   queue'[h][i] = queue'[h][j]
            PROVE  i = j
        <4>1. i + 1 = j + 1
          BY <2>2, <3>3, <3>5
        <4> QED BY <2>1, <3>1, <4>1
      <3>6. QueueOK(h)'
        BY <3>4, <3>5 DEF QueueOK, Waits, Inside
      <3>7. ASSUME NEW q \in Runs, q # r, NEW i \in 1 .. Len(queue[h]), queue[h][i] = q
            PROVE  \E k \in 1 .. Len(queue'[h]) : queue'[h][k] = q
        <4>1. i # 1
          BY <3>2, <3>7
        <4>2. i - 1 \in 1 .. Len(queue[h]) - 1 /\ (i - 1) + 1 = i
          BY <2>1, <4>1
        <4>3. queue'[h][i - 1] = q /\ i - 1 \in 1 .. Len(queue'[h])
          BY <3>1, <3>7, <4>2
        <4> QED BY <4>3
      <3> QED BY <3>1, <3>6, <3>7
    <2>4. CASE ~(queue[h] # <<>> /\ Head(queue[h]) = r)
      <3>1. queue'[h] = queue[h]
        BY <1>4, <2>4
      <3>2. ASSUME NEW i \in 1 .. Len(queue[h]) PROVE queue[h][i] # r
        <4>1. SUFFICES ASSUME queue[h][i] = r PROVE FALSE
          OBVIOUS
        <4>2. i = 1
          BY <2>2, <4>1
        <4>3. queue[h] # <<>>
          BY <2>1, <4>2, EmptySeq
        <4> QED BY <2>1, <2>4, <4>1, <4>2, <4>3
      <3>3. \A i \in 1 .. Len(queue[h]) : run'[queue[h][i]] = run[queue[h][i]]
        BY <1>2, <2>1, <3>2
      <3>4. QueueOK(h)'
        BY <2>2, <3>1, <3>3 DEF QueueOK, Waits, Inside
      <3> QED BY <2>1, <3>1, <3>4
    <2> QED BY <2>3, <2>4
  <1>6. queue' \in [Homes -> Seq(Runs)]
    <2>1. queue' = [h \in Homes |-> queue'[h]]
      BY DEF Released
    <2> QED BY <1>5, <2>1
  <1>7. ASSUME NEW q \in Runs PROVE Queued(q)'
    <2>1. Queued(q) /\ Home[q] \in Homes
      BY CacheAssumption DEF LockInv
    <2>2. CASE q = r
      BY <1>2, <1>3, <2>2 DEF Queued, Waits, Inside
    <2>3. CASE q # r
      <3>1. run'[q] = run[q]
        BY <1>2, <2>3
      <3> QED BY <1>5, <2>1, <2>3, <3>1 DEF Queued, Waits, Inside
    <2> QED BY <2>2, <2>3
  <1>8. \A q \in Runs : KindOK(run[q])'
    BY <1>2, <1>3 DEF LockInv, KindOK
  <1>9. facts' \in 1 .. MaxFacts /\ reports' \in [Covered -> 0 .. MaxFacts]
    BY DEF LockInv, CacheTypeOK
  <1> QED BY <1>2, <1>5, <1>6, <1>7, <1>8, <1>9 DEF LockInv, CacheTypeOK, Running

\* A briefing run joins the queue behind those who are there.
LEMMA JoinStep ==
  ASSUME LockInv, NEW r \in Runs, StartBriefing(r)
  PROVE  LockInv'
  <1>1. run \in [Runs -> Running] /\ queue \in [Homes -> Seq(Runs)] /\ run[r] = Off /\ Home[r] \in Homes
    BY CacheAssumption DEF LockInv, CacheTypeOK, Running, StartBriefing
  <1>2. PICK kind \in {"briefing", "forced"} : run' = [run EXCEPT ![r] = [step |-> "wait", kind |-> kind]]
    BY DEF StartBriefing, Goes
  <1>3. PICK x : x = [step |-> "wait", kind |-> kind]
    OBVIOUS
  <1>4. x \in Running /\ Waits(x) /\ KindOK(x)
    BY <1>2, <1>3 DEF Running, Kind, Waits, KindOK
  <1>5. run' \in [Runs -> Running] /\ \A q \in Runs : run'[q] = IF q = r THEN x ELSE run[q]
    BY <1>1, <1>2, <1>3, <1>4
  <1>6. PICK g \in Homes : g = Home[r]
    BY <1>1
  <1>7. queue' = [queue EXCEPT ![g] = Append(@, r)] /\ UNCHANGED <<facts, reports, briefing>>
    BY <1>6 DEF StartBriefing
  <1>8. /\ Append(queue[g], r) \in Seq(Runs) /\ Len(Append(queue[g], r)) = Len(queue[g]) + 1
        /\ \A i \in 1 .. Len(queue[g]) : Append(queue[g], r)[i] = queue[g][i]
        /\ Append(queue[g], r)[Len(queue[g]) + 1] = r
    BY <1>1, AppendProperties
  <1>9. /\ queue' \in [Homes -> Seq(Runs)]
        /\ \A h \in Homes : queue'[h] = IF h = g THEN Append(queue[g], r) ELSE queue[h]
    BY <1>1, <1>7, <1>8
  <1>10. ASSUME NEW h \in Homes, NEW i \in 1 .. Len(queue[h])
         PROVE  /\ queue[h][i] # r /\ queue[h][i] \in Runs
                /\ run'[queue[h][i]] = run[queue[h][i]]
                /\ Home[queue[h][i]] = h
                /\ Waits(run[queue[h][i]]) \/ (i = 1 /\ Inside(run[queue[h][i]]))
    <2>1. /\ Home[queue[h][i]] = h /\ queue[h][i] \in Runs
          /\ Waits(run[queue[h][i]]) \/ (i = 1 /\ Inside(run[queue[h][i]]))
      BY QueueType DEF LockInv, QueueOK
    <2>2. ~Waits(run[r]) /\ ~Inside(run[r])
      BY <1>1 DEF Waits, Inside, Off
    <2>3. queue[h][i] # r
      BY <2>1, <2>2
    <2> QED BY <1>5, <2>1, <2>3
  <1>11. ASSUME NEW h \in Homes PROVE QueueOK(h)'
    <2>1. \A i, j \in 1 .. Len(queue[h]) : queue[h][i] = queue[h][j] => i = j
      BY DEF LockInv, QueueOK
    <2>2. CASE h # g
      <3>1. queue'[h] = queue[h]
        BY <1>9, <2>2
      <3> QED BY <1>10, <2>1, <3>1 DEF QueueOK, Waits, Inside
    <2>3. CASE h = g
      <3> DEFINE n == Len(queue[g])
                 s == Append(queue[g], r)
      <3>1. queue'[h] = s /\ n \in Nat /\ Len(s) = n + 1 /\ s[n + 1] = r
            /\ \A i \in 1 .. n : s[i] = queue[h][i]
        BY <1>8, <1>9, <2>3, QueueType
      <3> HIDE DEF n, s
      <3>2. \A i \in 1 .. n + 1 : i \in 1 .. n \/ i = n + 1
        BY <3>1
      <3>3. n = Len(queue[h])
        BY <2>3 DEF n
      <3>4. ASSUME NEW i \in 1 .. n + 1
            PROVE  Home[s[i]] = h /\ (Waits(run'[s[i]]) \/ (i = 1 /\ Inside(run'[s[i]])))
        <4>1. CASE i \in 1 .. n
          BY <1>10, <3>1, <3>3, <4>1
        <4>2. CASE i = n + 1
          <5>1. s[i] = r /\ Home[r] = h /\ run'[r] = x
            BY <1>5, <1>6, <2>3, <3>1, <4>2
          <5> QED BY <1>4, <5>1
        <4> QED BY <3>2, <4>1, <4>2
      <3>5. ASSUME NEW i \in 1 .. n + 1, NEW j \in 1 .. n + 1, s[i] = s[j] PROVE i = j
        <4>1. CASE i \in 1 .. n /\ j \in 1 .. n
          BY <2>1, <3>1, <3>3, <3>5, <4>1
        <4>2. CASE i \in 1 .. n /\ j = n + 1
          BY <1>10, <3>1, <3>3, <3>5, <4>2
        <4>3. CASE i = n + 1 /\ j \in 1 .. n
          BY <1>10, <3>1, <3>3, <3>5, <4>3
        <4>4. CASE i = n + 1 /\ j = n + 1
          BY <4>4
        <4> QED BY <3>2, <4>1, <4>2, <4>3, <4>4
      <3> QED BY <3>1, <3>4, <3>5 DEF QueueOK, Waits, Inside
    <2> QED BY <2>2, <2>3
  <1>12. ASSUME NEW q \in Runs PROVE Queued(q)'
    <2>1. Home[q] \in Homes /\ Len(queue[g]) \in Nat
      BY CacheAssumption, QueueType
    <2>2. CASE q = r
      <3>1. Len(queue[g]) + 1 \in 1 .. Len(queue'[g]) /\ queue'[g][Len(queue[g]) + 1] = r
        BY <1>8, <1>9, <2>1
      <3> QED BY <1>6, <2>2, <3>1 DEF Queued
    <2>3. CASE q # r
      <3>1. Queued(q) /\ run'[q] = run[q]
        BY <1>5, <2>3 DEF LockInv
      <3>2. \A i \in 1 .. Len(queue[Home[q]]) :
              i \in 1 .. Len(queue'[Home[q]]) /\ queue'[Home[q]][i] = queue[Home[q]][i]
        BY <1>8, <1>9, <2>1
      <3> QED BY <3>1, <3>2 DEF Queued, Waits, Inside
    <2> QED BY <2>2, <2>3
  <1>13. \A q \in Runs : KindOK(run[q])'
    BY <1>4, <1>5 DEF LockInv, KindOK
  <1> QED BY <1>5, <1>7, <1>9, <1>11, <1>12, <1>13 DEF LockInv, CacheTypeOK, Running

\* The first of those who wait comes in.
LEMMA EnterStep ==
  ASSUME LockInv, NEW r \in Runs, Enter(r)
  PROVE  LockInv'
  <1>1. /\ run \in [Runs -> Running] /\ queue \in [Homes -> Seq(Runs)] /\ Home[r] \in Homes
        /\ run[r].step = "wait" /\ Head(queue[Home[r]]) = r
        /\ run' = [run EXCEPT ![r] = [run[r] EXCEPT !.step = "plan"]]
        /\ UNCHANGED <<facts, reports, briefing, queue>>
    BY CacheAssumption DEF LockInv, CacheTypeOK, Running, Enter, HoldsLock, Goes
  <1>2. PICK x : x = [run[r] EXCEPT !.step = "plan"]
    OBVIOUS
  <1>3. x \in Running /\ Inside(x) /\ KindOK(x)
    <2>1. run[r] \in [step : {"wait", "plan", "context"}, kind : Kind]
      BY <1>1, RunningFields
    <2>2. run[r].kind # "routine"
      BY <1>1 DEF LockInv, KindOK
    <2>3. /\ x \in [step : {"wait", "plan", "context"}, kind : Kind]
          /\ x.step = "plan" /\ x.kind = run[r].kind
      BY <1>2, <2>1
    <2> QED BY <2>2, <2>3 DEF Running, Inside, KindOK
  <1>4. run' \in [Runs -> Running] /\ \A q \in Runs : run'[q] = IF q = r THEN x ELSE run[q]
    BY <1>1, <1>2, <1>3
  <1>5. queue[Home[r]] # <<>> /\ queue[Home[r]][1] = r
    <2>1. \E i \in 1 .. Len(queue[Home[r]]) : queue[Home[r]][i] = r
      BY <1>1 DEF LockInv, Queued, Waits
    <2>2. queue[Home[r]] # <<>>
      BY <1>1, <2>1, QueueType, EmptySeq
    <2> QED BY <1>1, <2>2, QueueType
  <1>6. ASSUME NEW h \in Homes PROVE QueueOK(h)'
    <2>1. /\ \A i \in 1 .. Len(queue[h]) : /\ queue[h][i] \in Runs /\ Home[queue[h][i]] = h
                                           /\ Waits(run[queue[h][i]]) \/ (i = 1 /\ Inside(run[queue[h][i]]))
          /\ \A i, j \in 1 .. Len(queue[h]) : queue[h][i] = queue[h][j] => i = j
          /\ Len(queue[h]) \in Nat
      BY QueueType DEF LockInv, QueueOK
    <2>2. ASSUME NEW i \in 1 .. Len(queue[h]), queue[h][i] = r PROVE i = 1
      <3>1. h = Home[r] /\ 1 \in 1 .. Len(queue[h])
        BY <2>1, <2>2
      <3> QED BY <1>5, <2>1, <2>2, <3>1
    <2>3. ASSUME NEW i \in 1 .. Len(queue[h])
          PROVE  Waits(run'[queue[h][i]]) \/ (i = 1 /\ Inside(run'[queue[h][i]]))
      <3>1. CASE queue[h][i] = r
        BY <1>3, <1>4, <2>2, <3>1
      <3>2. CASE queue[h][i] # r
        BY <1>4, <2>1, <3>2
      <3> QED BY <3>1, <3>2
    <2> QED BY <1>1, <2>1, <2>3 DEF QueueOK, Waits, Inside
  <1>7. ASSUME NEW q \in Runs PROVE Queued(q)'
    <2>1. Queued(q) /\ (q = r => Waits(run[q]))
      BY <1>1 DEF LockInv, Waits
    <2> QED BY <1>1, <1>4, <2>1 DEF Queued, Waits, Inside
  <1>8. \A q \in Runs : KindOK(run[q])'
    BY <1>3, <1>4 DEF LockInv, KindOK
  <1> QED BY <1>1, <1>4, <1>6, <1>7, <1>8 DEF LockInv, CacheTypeOK, Running

\* The lock of a process goes with it.
LEMMA HomeDiesStep ==
  ASSUME LockInv, NEW g \in Homes, HomeDies(g)
  PROVE  LockInv'
  <1>1. /\ run \in [Runs -> Running] /\ queue \in [Homes -> Seq(Runs)] /\ Off \in Running
        /\ <<>> \in Seq(Runs) /\ Len(<<>>) = 0
    BY EmptySeq DEF LockInv, CacheTypeOK, Running
  <1>2. /\ run' = [r \in Runs |-> IF Home[r] = g THEN Off ELSE run[r]]
        /\ queue' = [queue EXCEPT ![g] = <<>>]
        /\ UNCHANGED <<facts, reports, briefing>>
    BY DEF HomeDies
  <1>3. /\ run' \in [Runs -> Running]
        /\ \A r \in Runs : run'[r] = IF Home[r] = g THEN Off ELSE run[r]
    BY <1>1, <1>2
  <1>4. /\ queue' \in [Homes -> Seq(Runs)]
        /\ \A h \in Homes : queue'[h] = IF h = g THEN <<>> ELSE queue[h]
    BY <1>1, <1>2
  <1>5. ASSUME NEW h \in Homes PROVE QueueOK(h)'
    <2>1. CASE h = g
      <3>1. queue'[h] = <<>> /\ Len(queue'[h]) = 0
        BY <1>1, <1>4, <2>1
      <3> QED BY <3>1 DEF QueueOK
    <2>2. CASE h # g
      <3>1. /\ queue'[h] = queue[h]
            /\ \A i \in 1 .. Len(queue[h]) : queue[h][i] \in Runs /\ Home[queue[h][i]] = h
        BY <1>4, <2>2, QueueType DEF LockInv, QueueOK
      <3>2. \A i \in 1 .. Len(queue[h]) : run'[queue[h][i]] = run[queue[h][i]]
        BY <1>3, <2>2, <3>1
      <3> QED BY <3>1, <3>2 DEF LockInv, QueueOK, Waits, Inside
    <2> QED BY <2>1, <2>2
  <1>6. ~Waits(Off) /\ ~Inside(Off) /\ KindOK(Off)
    BY DEF Waits, Inside, KindOK, Off
  <1>7. ASSUME NEW q \in Runs PROVE Queued(q)'
    <2>1. Queued(q) /\ Home[q] \in Homes
      BY CacheAssumption DEF LockInv
    <2> QED BY <1>3, <1>4, <1>6, <2>1 DEF Queued, Waits, Inside
  <1>8. \A q \in Runs : KindOK(run[q])'
    BY <1>3, <1>6 DEF LockInv, KindOK
  <1> QED BY <1>2, <1>3, <1>4, <1>5, <1>7, <1>8 DEF LockInv, CacheTypeOK, Running

\* A run whose step keeps it on its side of the lock.
Kept(x, y) == (Inside(y) <=> Inside(x)) /\ (Waits(y) <=> Waits(x)) /\ KindOK(y)

\* After the reports a routine run is done and a briefing run goes on.
LEMMA AfterReportsKeeps ==
  ASSUME LockInv, NEW r \in Runs, run[r].step \in {"plan", "write"}
  PROVE  AfterReports(r) \in Running /\ Kept(run[r], AfterReports(r))
  <1>1. run[r] \in Running
    BY DEF LockInv, CacheTypeOK, Running
  <1>2. run[r].kind \in Kind
    BY <1>1, RunningFields
  <1>3. CASE run[r].kind = "routine"
    <2>1. AfterReports(r) = Off
      BY <1>3 DEF AfterReports
    <2> QED BY <1>3, <2>1 DEF Running, Kept, Inside, Waits, KindOK, Off
  <1>4. CASE run[r].kind # "routine"
    <2>1. AfterReports(r) = [step |-> "context", kind |-> run[r].kind]
      BY <1>4 DEF AfterReports
    <2>2. PICK x : x = AfterReports(r)
      OBVIOUS
    <2>3. x \in [step : {"wait", "plan", "context"}, kind : Kind] /\ x.step = "context"
          /\ x.kind = run[r].kind
      BY <1>2, <2>1, <2>2
    <2>4. x \in Running
      BY <2>3 DEF Running
    <2> QED BY <1>4, <2>2, <2>3, <2>4 DEF Kept, Inside, Waits, KindOK
  <1> QED BY <1>3, <1>4

\* The data move, and routine runs start: nobody comes to the lock.
LEMMA OutsideStep ==
  ASSUME LockInv, NEW r \in Runs, StartRoutine(r)
  PROVE  LockInv'
  <1>1. PICK x : x = [step |-> "plan", kind |-> "routine"]
    OBVIOUS
  <1>2. x \in [step : {"wait", "plan", "context"}, kind : Kind] /\ x.step = "plan"
        /\ x.kind = "routine"
    BY <1>1 DEF Kind
  <1>3. x \in Running /\ KindOK(x) /\ ~Inside(x) /\ ~Waits(x)
    BY <1>2 DEF Running, KindOK, Inside, Waits
  <1>4. run[r] = Off /\ run' = [run EXCEPT ![r] = x] /\ queue' = queue
        /\ UNCHANGED <<facts, reports, briefing>>
    BY <1>1 DEF StartRoutine, Goes
  <1>5. ~Inside(run[r]) /\ ~Waits(run[r])
    BY <1>4 DEF Off, Inside, Waits
  <1>6. facts' \in 1 .. MaxFacts /\ reports' \in [Covered -> 0 .. MaxFacts]
        /\ briefing' \in Prompts \cup {NoBriefing}
    BY <1>4 DEF LockInv, CacheTypeOK
  <1> QED BY <1>3, <1>4, <1>5, <1>6, RunMoves

\* A version comes: what was hashed stays as it was.
LEMMA FactsStep ==
  ASSUME LockInv, facts' \in 1 .. MaxFacts, UNCHANGED <<reports, briefing, queue, run>>
  PROVE  LockInv'
  BY DEF LockInv, CacheTypeOK, KindOK, QueueOK, Queued, Waits, Inside

\* The stocks without a current report are planned for.
LEMMA PlanStep ==
  ASSUME LockInv, NEW r \in Runs, Plan(r)
  PROVE  LockInv'
  <1>1. run[r] \in Running /\ run[r].step = "plan" /\ facts \in 1 .. MaxFacts
    BY DEF LockInv, CacheTypeOK, Running, Plan
  <1>2. run[r].kind \in Kind
    BY <1>1, RunningFields
  <1>3. PICK stale : stale = {s \in Covered \ Short : reports[s] # facts}
    OBVIOUS
  <1>4. PICK x : x = IF stale = {} THEN AfterReports(r)
                     ELSE [step |-> "ask", kind |-> run[r].kind, from |-> facts, left |-> stale]
    OBVIOUS
  <1>5. run' = [run EXCEPT ![r] = x] /\ UNCHANGED <<facts, reports, briefing, queue>>
    BY <1>3, <1>4 DEF Plan, Goes
  <1>6. x \in Running /\ Kept(run[r], x)
    <2>1. CASE stale = {}
      BY <1>1, <1>4, <2>1, AfterReportsKeeps
    <2>2. CASE stale # {}
      <3>1. x = [step |-> "ask", kind |-> run[r].kind, from |-> facts, left |-> stale]
        BY <1>4, <2>2
      <3>2. stale \in SUBSET Covered
        BY <1>3
      <3>3. x \in [step : {"ask"}, kind : Kind, from : 1 .. MaxFacts, left : SUBSET Covered]
            /\ x.step = "ask" /\ x.kind = run[r].kind
        BY <1>1, <1>2, <3>1, <3>2
      <3> QED BY <1>1, <3>3 DEF Running, Kept, Inside, Waits, KindOK
    <2> QED BY <2>1, <2>2
  <1> QED BY <1>5, <1>6, RunMoves DEF Kept, LockInv, CacheTypeOK

\* A call is answered for some of its stocks.
LEMMA AskStep ==
  ASSUME LockInv, NEW r \in Runs, Ask(r)
  PROVE  LockInv'
  <1>1. run[r] \in Running /\ run[r].step = "ask"
    BY DEF LockInv, CacheTypeOK, Running, Ask
  <1>2. run[r].kind \in Kind /\ run[r].from \in 1 .. MaxFacts /\ run[r].left \subseteq Covered
    BY <1>1, RunningFields
  <1>3. PICK batch \in SUBSET run[r].left, answered \in SUBSET run[r].left :
          Goes(r, [step |-> "write", kind |-> run[r].kind, from |-> run[r].from,
                   left |-> run[r].left \ batch, rows |-> answered])
    BY DEF Ask
  <1>4. PICK x : x = [step |-> "write", kind |-> run[r].kind, from |-> run[r].from,
                      left |-> run[r].left \ batch, rows |-> answered]
    OBVIOUS
  <1>5. x \in [step : {"write"}, kind : Kind, from : 1 .. MaxFacts, left : SUBSET Covered,
                rows : SUBSET Covered]
        /\ x.step = "write" /\ x.kind = run[r].kind
    BY <1>2, <1>3, <1>4
  <1>6. x \in Running /\ Kept(run[r], x)
    BY <1>1, <1>5 DEF Running, Kept, Inside, Waits, KindOK
  <1>7. run' = [run EXCEPT ![r] = x] /\ UNCHANGED <<facts, reports, briefing, queue>>
    BY <1>3, <1>4 DEF Ask, Goes
  <1> QED BY <1>6, <1>7, RunMoves DEF Kept, LockInv, CacheTypeOK

\* One report is stored, or the last of the call has been.
LEMMA WriteStep ==
  ASSUME LockInv, NEW r \in Runs, WriteRow(r)
  PROVE  LockInv'
  <1>1. run[r] \in Running /\ run[r].step = "write" /\ UNCHANGED <<facts, briefing, queue>>
    BY DEF LockInv, CacheTypeOK, Running, WriteRow
  <1>2. /\ run[r].kind \in Kind /\ run[r].from \in 1 .. MaxFacts
        /\ run[r].left \subseteq Covered /\ run[r].rows \subseteq Covered
        /\ run[r] \in [step : {"write"}, kind : Kind, from : 1 .. MaxFacts,
                       left : SUBSET Covered, rows : SUBSET Covered]
    BY <1>1, RunningFields
  <1>3. CASE run[r].rows = {}
    <2>1. PICK x : x = IF run[r].left = {} THEN AfterReports(r)
                       ELSE [step |-> "ask", kind |-> run[r].kind, from |-> run[r].from,
                             left |-> run[r].left]
      OBVIOUS
    <2>2. run' = [run EXCEPT ![r] = x] /\ UNCHANGED reports
      BY <1>3, <2>1 DEF WriteRow, Goes
    <2>3. x \in Running /\ Kept(run[r], x)
      <3>1. CASE run[r].left = {}
        BY <1>1, <2>1, <3>1, AfterReportsKeeps
      <3>2. CASE run[r].left # {}
        <4>1. x \in [step : {"ask"}, kind : Kind, from : 1 .. MaxFacts, left : SUBSET Covered]
              /\ x.step = "ask" /\ x.kind = run[r].kind
          BY <1>2, <2>1, <3>2
        <4> QED BY <1>1, <4>1 DEF Running, Kept, Inside, Waits, KindOK
      <3> QED BY <3>1, <3>2
    <2> QED BY <1>1, <2>2, <2>3, RunMoves DEF Kept, LockInv, CacheTypeOK
  <1>4. CASE run[r].rows # {}
    <2>1. PICK s \in run[r].rows : /\ reports' = [reports EXCEPT ![s] = run[r].from]
                                   /\ Goes(r, [run[r] EXCEPT !.rows = @ \ {s}])
      BY <1>4 DEF WriteRow
    <2>2. PICK x : x = [run[r] EXCEPT !.rows = @ \ {s}]
      OBVIOUS
    <2>3. x \in [step : {"write"}, kind : Kind, from : 1 .. MaxFacts, left : SUBSET Covered,
                  rows : SUBSET Covered]
          /\ x.step = "write" /\ x.kind = run[r].kind
      BY <1>1, <1>2, <2>2
    <2>4. x \in Running /\ Kept(run[r], x)
      BY <1>1, <2>3 DEF Running, Kept, Inside, Waits, KindOK
    <2>5. run' = [run EXCEPT ![r] = x]
      BY <2>1, <2>2 DEF Goes
    <2>6. reports' \in [Covered -> 0 .. MaxFacts]
      BY <1>2, <2>1 DEF LockInv, CacheTypeOK
    <2> QED BY <1>1, <2>4, <2>5, <2>6, RunMoves DEF Kept, LockInv, CacheTypeOK
  <1> QED BY <1>3, <1>4

\* The stored briefing answers the prompt, or one is to be written.
LEMMA LookUpStep ==
  ASSUME LockInv, NEW r \in Runs, LookUp(r)
  PROVE  LockInv'
  <1>1. run[r] \in Running /\ run[r].step = "context" /\ UNCHANGED <<facts, reports, briefing>>
    BY DEF LockInv, CacheTypeOK, Running, LookUp
  <1>2. run[r].kind \in Kind /\ run[r].kind # "routine"
    BY <1>1, RunningFields DEF LockInv, KindOK
  <1>3. CASE briefing = Prompt /\ run[r].kind # "forced"
    <2>1. run' = [run EXCEPT ![r] = Off] /\ queue' = Released(r)
      BY <1>3 DEF LookUp, Goes
    <2> QED BY <1>1, <2>1, RunLeaves DEF Waits, LockInv, CacheTypeOK
  <1>4. CASE ~(briefing = Prompt /\ run[r].kind # "forced")
    <2>1. PICK x : x = [step |-> "generate", kind |-> run[r].kind, prompt |-> Prompt,
                        new |-> briefing = NoBriefing]
      OBVIOUS
    <2>2. run' = [run EXCEPT ![r] = x] /\ queue' = queue
      BY <1>4, <2>1 DEF LookUp, Goes
    <2>3. Prompt \in Prompts
      BY DEF Prompt, Prompts, LockInv, CacheTypeOK
    <2>4. (briefing = NoBriefing) \in BOOLEAN
      OBVIOUS
    <2>5. x \in [step : {"generate", "store"}, kind : Kind, prompt : Prompts, new : BOOLEAN]
          /\ x.step = "generate" /\ x.kind = run[r].kind
      BY <1>2, <2>1, <2>3, <2>4, Zenon
    <2>6. x \in Running /\ Kept(run[r], x)
      BY <1>1, <1>2, <2>5 DEF Running, Kept, Inside, Waits, KindOK
    <2> QED BY <1>1, <2>2, <2>6, RunMoves DEF Kept, LockInv, CacheTypeOK
  <1> QED BY <1>3, <1>4

\* The briefing has been written.
LEMMA GeneratedStep ==
  ASSUME LockInv, NEW r \in Runs, Generated(r)
  PROVE  LockInv'
  <1>1. run[r] \in Running /\ run[r].step = "generate"
    BY DEF LockInv, CacheTypeOK, Running, Generated
  <1>2. run[r] \in [step : {"generate", "store"}, kind : Kind, prompt : Prompts, new : BOOLEAN]
        /\ run[r].kind # "routine"
    BY <1>1, RunningFields DEF LockInv, KindOK
  <1>3. PICK x : x = [run[r] EXCEPT !.step = "store"]
    OBVIOUS
  <1>4. x \in [step : {"generate", "store"}, kind : Kind, prompt : Prompts, new : BOOLEAN]
        /\ x.step = "store" /\ x.kind = run[r].kind
    BY <1>2, <1>3
  <1>5. x \in Running /\ Kept(run[r], x)
    BY <1>1, <1>2, <1>4 DEF Running, Kept, Inside, Waits, KindOK
  <1>6. run' = [run EXCEPT ![r] = x] /\ UNCHANGED <<facts, reports, briefing, queue>>
    BY <1>3 DEF Generated, Goes
  <1> QED BY <1>5, <1>6, RunMoves DEF Kept, LockInv, CacheTypeOK

\* It is stored, and the next one comes in.
LEMMA StoreStep ==
  ASSUME LockInv, NEW r \in Runs, StoreBriefing(r)
  PROVE  LockInv'
  <1>1. run[r] \in Running /\ run[r].step = "store"
    BY DEF LockInv, CacheTypeOK, Running, StoreBriefing
  <1>2. run[r].prompt \in Prompts
    BY <1>1, RunningFields
  <1>3. briefing' \in Prompts \cup {NoBriefing}
    BY <1>2 DEF StoreBriefing, LockInv, CacheTypeOK
  <1>4. /\ run' = [run EXCEPT ![r] = Off] /\ queue' = Released(r)
        /\ facts' = facts /\ reports' = reports
    BY DEF StoreBriefing, Goes
  <1> QED BY <1>1, <1>3, <1>4, RunLeaves DEF Waits

\* A run that fails lets the next one in as well.
LEMMA FailStep ==
  ASSUME LockInv, NEW r \in Runs, RunFails(r)
  PROVE  LockInv'
  <1>1. /\ ~Waits(run[r]) /\ run' = [run EXCEPT ![r] = Off] /\ queue' = Released(r)
        /\ facts' = facts /\ reports' = reports
    BY DEF RunFails, Goes, ReleasedOnError, Waits
  <1>2. briefing' \in Prompts \cup {NoBriefing}
    BY DEF RunFails, LockInv, CacheTypeOK
  <1> QED BY <1>1, <1>2, RunLeaves

\* Every step keeps the order at the locks.
LEMMA LockStep ==
  ASSUME LockInv, [CacheNext]_cacheVars
  PROVE  LockInv'
  <1>1. CASE UNCHANGED cacheVars
    BY <1>1, FactsStep DEF cacheVars, LockInv, CacheTypeOK
  <1>2. CASE FactsChange
    <2>1. facts' \in 1 .. MaxFacts
      BY <1>2, CacheAssumption DEF FactsChange, LockInv, CacheTypeOK
    <2> QED BY <1>2, <2>1, FactsStep DEF FactsChange
  <1>3. ASSUME NEW r \in Runs, StartRoutine(r) \/ StartBriefing(r) \/ RunOn(r)
        PROVE  LockInv'
    BY <1>3, OutsideStep, JoinStep, EnterStep, PlanStep, AskStep, WriteStep, LookUpStep,
       GeneratedStep, StoreStep, FailStep DEF RunOn
  <1>4. ASSUME NEW h \in Homes, HomeDies(h) PROVE LockInv'
    BY <1>4, HomeDiesStep
  <1> QED BY <1>1, <1>2, <1>3, <1>4 DEF CacheNext

\* Nobody has come yet.
LEMMA LockInit ==
  ASSUME CacheInit
  PROVE  LockInv
  <1>1. \A r \in Runs : run[r] = Off
    BY DEF CacheInit
  <1>2. <<>> \in Seq(Runs) /\ Len(<<>>) = 0
    BY EmptySeq
  <1>3. \A h \in Homes : QueueOK(h)
    BY <1>2 DEF CacheInit, QueueOK
  <1>4. \A r \in Runs : Queued(r) /\ KindOK(run[r])
    BY <1>1 DEF Queued, KindOK, Waits, Inside, Off
  <1>5. facts \in 1 .. MaxFacts
    BY CacheAssumption DEF CacheInit
  <1>6. /\ reports \in [Covered -> 0 .. MaxFacts] /\ briefing \in Prompts \cup {NoBriefing}
        /\ queue \in [Homes -> Seq(Runs)] /\ run \in [Runs -> Running]
    <2>1. 0 \in 0 .. MaxFacts
      BY CacheAssumption
    <2> QED BY <1>2, <2>1 DEF CacheInit, NoReport, Running
  <1> QED BY <1>3, <1>4, <1>5, <1>6 DEF LockInv, CacheTypeOK, Running

-----------------------------------------------------------------------------
(* One process *)

OneProcess == \A r, q \in Runs : Home[r] = Home[q]

BriefingInv == LockInv /\ NeverPaysForStored

\* In one process nobody stores a briefing while another has one written.
LEMMA BriefingStep ==
  ASSUME OneProcess, BriefingInv, [CacheNext]_cacheVars
  PROVE  BriefingInv'
  <1>1. LockInv /\ LockInv'
    BY LockStep DEF BriefingInv
  <1>2. run \in [Runs -> Running] /\ run' \in [Runs -> Running]
    BY <1>1 DEF LockInv, CacheTypeOK, Running
  <1>3. SUFFICES ASSUME NEW q \in Runs, run'[q].step = "generate", run'[q].kind # "forced"
                 PROVE  briefing' # run'[q].prompt
    BY <1>1 DEF BriefingInv, NeverPaysForStored
  <1>4. ASSUME run'[q] = run[q], briefing' = briefing PROVE briefing' # run'[q].prompt
    BY <1>3, <1>4 DEF BriefingInv, NeverPaysForStored
  <1>5. CASE UNCHANGED cacheVars \/ FactsChange
    BY <1>4, <1>5 DEF cacheVars, FactsChange
  <1>6. ASSUME NEW h \in Homes, HomeDies(h) PROVE briefing' # run'[q].prompt
    <2>1. run'[q] = run[q] /\ briefing' = briefing
      BY <1>3, <1>6 DEF HomeDies, Off
    <2> QED BY <1>4, <2>1
  <1>7. ASSUME NEW r \in Runs, StartRoutine(r) \/ StartBriefing(r) \/ RunOn(r)
        PROVE  briefing' # run'[q].prompt
    <2>1. CASE StoreBriefing(r)
      <3>1. run' = [run EXCEPT ![r] = Off] /\ run[r].step = "store"
        BY <2>1 DEF StoreBriefing, Goes
      <3>2. q # r /\ run'[q] = run[q]
        BY <1>2, <1>3, <3>1 DEF Off
      <3>3. Inside(run[r]) /\ Inside(run[q])
        BY <1>1, <1>3, <3>1, <3>2 DEF LockInv, KindOK, Inside
      <3>4. queue[Home[r]][1] = r /\ queue[Home[q]][1] = q /\ Home[r] = Home[q]
        BY <1>1, <3>3, InsideIsHead DEF OneProcess
      <3> QED BY <3>2, <3>4
    <2>2. CASE LookUp(r)
      <3>1. PICK x : x = [step |-> "generate", kind |-> run[r].kind, prompt |-> Prompt,
                          new |-> briefing = NoBriefing]
        OBVIOUS
      <3>2. /\ briefing' = briefing
            /\ run' = [run EXCEPT ![r] = IF briefing = Prompt /\ run[r].kind # "forced"
                                         THEN Off ELSE x]
        BY <2>2, <3>1 DEF LookUp, Goes
      <3>3. CASE q # r
        BY <1>2, <1>4, <3>2, <3>3
      <3>4. CASE q = r
        <4>1. run'[q] = x /\ ~(briefing = Prompt /\ run[r].kind # "forced")
          BY <1>2, <1>3, <3>2, <3>4 DEF Off
        <4>2. x.kind = run[r].kind /\ x.prompt = Prompt
          BY <3>1
        <4> QED BY <1>3, <3>2, <4>1, <4>2
      <3> QED BY <3>3, <3>4
    <2>3. CASE StartRoutine(r) \/ StartBriefing(r) \/ Enter(r) \/ Plan(r) \/ Ask(r)
               \/ WriteRow(r) \/ Generated(r) \/ RunFails(r)
      <3>1. briefing' = briefing
        BY <2>3 DEF StartRoutine, StartBriefing, Enter, Plan, Ask, WriteRow, Generated, RunFails
      <3>2. run[r] \in Running
        BY <1>2
      <3>3. run'[r].step # "generate" /\ (q # r => run'[q] = run[q])
        <4>1. CASE StartRoutine(r) \/ RunFails(r)
          BY <1>2, <4>1 DEF StartRoutine, RunFails, Goes, Off
        <4>2. CASE StartBriefing(r)
          BY <1>2, <4>2 DEF StartBriefing, Goes
        <4>3. CASE Enter(r) \/ Generated(r)
          <5>1. PICK x : x = run[r]
            OBVIOUS
          <5>2. \/ x \in [step : {"wait", "plan", "context"}, kind : Kind]
                \/ x \in [step : {"generate", "store"}, kind : Kind, prompt : Prompts, new : BOOLEAN]
            BY <3>2, <4>3, <5>1, RunningFields DEF Enter, Generated
          <5>3. [x EXCEPT !.step = "plan"].step = "plan" /\ [x EXCEPT !.step = "store"].step = "store"
            BY <5>2
          <5>4. \/ run' = [run EXCEPT ![r] = [x EXCEPT !.step = "plan"]]
                \/ run' = [run EXCEPT ![r] = [x EXCEPT !.step = "store"]]
            BY <4>3, <5>1 DEF Enter, Generated, Goes
          <5> QED BY <1>2, <5>3, <5>4
        <4>4. CASE Plan(r)
          <5>1. AfterReports(r).step # "generate"
            BY DEF AfterReports, Off
          <5> QED BY <1>2, <4>4, <5>1 DEF Plan, Goes
        <4>5. CASE Ask(r)
          BY <1>2, <4>5 DEF Ask, Goes
        <4>6. CASE WriteRow(r)
          <5>1. AfterReports(r).step # "generate"
            BY DEF AfterReports, Off
          <5>2. CASE run[r].rows = {}
            BY <1>2, <4>6, <5>1, <5>2 DEF WriteRow, Goes
          <5>3. CASE run[r].rows # {}
            <6>1. PICK x : x = run[r]
              OBVIOUS
            <6>2. x \in [step : {"write"}, kind : Kind, from : 1 .. MaxFacts, left : SUBSET Covered,
                         rows : SUBSET Covered]
              BY <3>2, <4>6, <6>1, RunningFields DEF WriteRow
            <6>3. PICK s : Goes(r, [x EXCEPT !.rows = @ \ {s}])
              BY <4>6, <5>3, <6>1 DEF WriteRow
            <6>4. [x EXCEPT !.rows = @ \ {s}].step = "write"
              BY <6>2
            <6> QED BY <1>2, <6>3, <6>4 DEF Goes
          <5> QED BY <5>2, <5>3
        <4> QED BY <2>3, <4>1, <4>2, <4>3, <4>4, <4>5, <4>6
      <3> QED BY <1>3, <1>4, <3>1, <3>3
    <2> QED BY <1>7, <2>1, <2>2, <2>3 DEF RunOn
  <1> QED BY <1>5, <1>6, <1>7 DEF CacheNext

\* The queue of the briefing is kept by every behaviour, of any number of processes.
LEMMA LockAlways ==
  CacheInit /\ [][CacheNext]_cacheVars => []LockInv
  <1>1. CacheInit => LockInv
    BY LockInit
  <1>2. LockInv /\ [CacheNext]_cacheVars => LockInv'
    BY LockStep
  <1> QED BY <1>1, <1>2, PTL

(* The order at the lock of each process: whoever is in the protected part of a      *)
(* run is the first of its queue, all others of the queue wait, nobody is in it       *)
(* twice and nobody who waits is forgotten (run_overview, analysis_service.py:239),   *)
(* for any number of runs and processes, whatever fails or dies.                      *)
THEOREM LockCorrect ==
  CacheSpec => []LockInv
  BY LockAlways, PTL DEF CacheSpec

(* In one process, as the backend is deployed, no briefing is paid for that is       *)
(* stored already (analysis_service.py:303), for any number of runs, stocks and       *)
(* versions of the data.                                                              *)
THEOREM BriefingPaidOnce ==
  ASSUME OneProcess
  PROVE  CacheSpec => []NeverPaysForStored
  <1>1. CacheInit => BriefingInv
    BY LockInit DEF BriefingInv, NeverPaysForStored, CacheInit, Off
  <1>2. BriefingInv /\ [CacheNext]_cacheVars => BriefingInv'
    BY BriefingStep
  <1>3. BriefingInv => NeverPaysForStored
    BY DEF BriefingInv
  <1> QED BY <1>1, <1>2, <1>3, PTL DEF CacheSpec

\* No result of a day is there yet.
LEMMA RowsStart ==
  ASSUME RowsInit
  PROVE  RowsInv
  <1>1. AtRest \in Reading /\ ReaderOK(AtRest)
    BY RestingReader
  <1>2. reader \in [Readers -> Reading] /\ \A r \in Readers : ReaderOK(reader[r])
    BY <1>1 DEF RowsInit
  <1>3. RowsTypeOK
    <2>1. rowDay \in 1 .. RowDays /\ source \in 1 .. Sources
      BY RowsAssumption DEF RowsInit
    <2>2. bands \in [1 .. RowDays -> 0 .. Sources] /\ research \in [1 .. RowDays -> 0 .. Sources]
      BY RowsAssumption DEF RowsInit, NoRow
    <2> QED BY <1>2, <2>1, <2>2 DEF RowsInit, RowsTypeOK, Reading
  <1> QED BY <1>2, <1>3 DEF RowsInv, RowsInit, BandsAgree, NeverOutdated

(* Everybody who asks for the bands of a day sees the stored ones, and nobody is     *)
(* answered with the research of a day before his (prediction_service.py:77,          *)
(* news_service.py:64), for any number of overlapping readers, days and versions.     *)
THEOREM DayAnswersAlwaysAgree ==
  RowsSpec => []DayAnswersAgree
  <1>1. RowsInit => RowsInv
    BY RowsStart
  <1>2. RowsInv /\ [RowsNext]_rowVars => RowsInv'
    BY RowsStep
  <1>3. RowsInv => DayAnswersAgree
    BY DEF RowsInv, DayAnswersAgree
  <1> QED BY <1>1, <1>2, <1>3, PTL DEF RowsSpec

(* Both for the specification the run checks: what is stored once is neither paid    *)
(* for twice nor told in two ways.                                                    *)
THEOREM CachesAlwaysHold ==
  ASSUME OneProcess
  PROVE  Spec => []CachesHold
  <1>1. Init => BriefingInv /\ RowsInv
    BY LockInit, RowsStart DEF Init, BriefingInv, NeverPaysForStored, CacheInit, Off
  <1>2. [Next]_vars => [CacheNext]_cacheVars /\ [RowsNext]_rowVars
    BY DEF Next, vars
  <1>3. BriefingInv /\ RowsInv /\ [Next]_vars => BriefingInv' /\ RowsInv'
    BY <1>2, BriefingStep, RowsStep
  <1>4. BriefingInv /\ RowsInv => CachesHold
    BY DEF BriefingInv, RowsInv, CachesHold, DayAnswersAgree
  <1> QED BY <1>1, <1>3, <1>4, PTL DEF Spec

-----------------------------------------------------------------------------
(* The job centre of a tab *)

Requested == [Started -> [Lanes -> {Nothing, Sent} \cup Answers]]

\* One lane changes; the others stay what they were.
LEMMA LaneType ==
  ASSUME CentreTypeOK, NEW j \in Started, NEW lane \in Lanes,
         NEW answer \in {Nothing, Sent} \cup Answers
  PROVE  [asked EXCEPT ![j][lane] = answer] \in Requested
  <1>1. asked[j] \in [Lanes -> {Nothing, Sent} \cup Answers]
    BY DEF CentreTypeOK
  <1>2. [asked[j] EXCEPT ![lane] = answer] \in [Lanes -> {Nothing, Sent} \cup Answers]
    BY <1>1
  <1> QED BY <1>2 DEF CentreTypeOK, Requested

\* Whatever answers a poll or a retry gets, and whatever the user does, the list holds
\* runs that were started and shows each in a state the page knows.
LEMMA CentreKept ==
  ASSUME CentreTypeOK, [CentreNext]_centreVars
  PROVE  CentreTypeOK'
  <1>1. /\ tracked \subseteq Started /\ asked \in Requested
        /\ shown \in [Started -> Answers \ {"succeeded", "error"}] /\ trouble \in 0 .. MaxTrouble
    BY DEF CentreTypeOK, Requested
  <1>2. ASSUME tracked' \subseteq Started, asked' \in Requested,
               shown' \in [Started -> Answers \ {"succeeded", "error"}],
               trouble' \in 0 .. MaxTrouble
        PROVE  CentreTypeOK'
    BY <1>2 DEF CentreTypeOK, Requested
  <1>3. MaxTrouble \in Nat /\ (trouble < MaxTrouble => trouble + 1 \in 0 .. MaxTrouble)
    BY <1>1, CentreAssumption
  <1>4. \A requests : Aborting(requests) \subseteq Requested
    BY DEF Aborting, Requested
  <1>5. "retry" \in Lanes /\ Polls \subseteq Lanes
    BY DEF Lanes
  <1>6. CASE UNCHANGED centreVars
    BY <1>1, <1>2, <1>6 DEF centreVars
  <1>7. ASSUME NEW j \in Started, Track(j) PROVE CentreTypeOK'
    <2>1. tracked' \subseteq Started /\ asked' \in Requested /\ UNCHANGED shown
      BY <1>1, <1>4, <1>7 DEF Track
    <2>2. trouble' \in 0 .. MaxTrouble
      BY <1>1, <1>3, <1>7 DEF Track
    <2> QED BY <1>1, <1>2, <2>1, <2>2
  <1>8. ASSUME NEW j \in Started, Refresh(j) \/ PressRetry(j) PROVE CentreTypeOK'
    <2>1. PICK lane \in Lanes : asked' = [asked EXCEPT ![j][lane] = Sent]
      BY <1>5, <1>8 DEF Refresh, PressRetry
    <2>2. UNCHANGED <<tracked, shown, trouble>>
      BY <1>8 DEF Refresh, PressRetry
    <2> QED BY <1>1, <1>2, <2>1, <2>2, LaneType
  <1>9. ASSUME NEW j \in Started, PressRemove(j) \/ PageHasResult(j) PROVE CentreTypeOK'
    BY <1>1, <1>2, <1>4, <1>9 DEF PressRemove, PageHasResult, Untrack
  <1>10. ASSUME NEW j \in Started, NEW lane \in Lanes, NEW answer \in {Nothing, Sent} \cup Answers,
                Answered(j, lane, answer), tracked' = tracked,
                shown' \in [Started -> Answers \ {"succeeded", "error"}], trouble' \in 0 .. MaxTrouble
         PROVE  CentreTypeOK'
    BY <1>1, <1>2, <1>10, LaneType DEF Answered
  <1>11. {"queued", "error"} \subseteq Answers /\ Nothing \in {Nothing, Sent}
    BY DEF Answers
  <1>12. ASSUME NEW j \in Started, NEW lane \in Lanes, Serve(j, lane) \/ Fail(j, lane)
         PROVE  CentreTypeOK'
    <2>1. CASE Serve(j, lane)
      <3>1. PICK answer \in Answers : Answered(j, lane, answer)
        BY <1>11, <2>1 DEF Serve
      <3> QED BY <1>1, <1>10, <2>1, <3>1 DEF Serve
    <2>2. CASE Fail(j, lane)
      BY <1>1, <1>3, <1>10, <1>11, <2>2 DEF Fail
    <2> QED BY <1>12, <2>1, <2>2
  <1>13. ASSUME NEW j \in Started, ServeRetry(j) PROVE CentreTypeOK'
    BY <1>1, <1>5, <1>10, <1>11, <1>13 DEF ServeRetry
  <1>14. ASSUME NEW j \in Started, NEW lane \in Lanes, Apply(j, lane) PROVE CentreTypeOK'
    <2>1. asked[j][lane] \in Answers /\ UNCHANGED trouble
      BY <1>14 DEF Apply
    <2>2. CASE Untrack(j, Freed(j, lane)) /\ UNCHANGED shown
      BY <1>1, <1>2, <1>4, <2>1, <2>2 DEF Untrack
    <2>3. CASE /\ asked[j][lane] # "succeeded"
               /\ Shows(j, IF asked[j][lane] = "error" THEN "failed" ELSE asked[j][lane])
               /\ asked' = Freed(j, lane) /\ UNCHANGED tracked
      <3>1. PICK what \in Answers \ {"succeeded", "error"} : Shows(j, what)
        BY <2>1, <2>3 DEF Answers
      <3>2. shown' \in [Started -> Answers \ {"succeeded", "error"}]
        BY <1>1, <3>1 DEF Shows
      <3>3. asked' \in Requested
        BY <2>3, LaneType DEF Freed
      <3> QED BY <1>1, <1>2, <2>1, <2>3, <3>2, <3>3
    <2> QED BY <1>14, <2>2, <2>3 DEF Apply
  <1>15. ASSUME NEW j \in Started, ApplyRetry(j) PROVE CentreTypeOK'
    <2>1. shown' \in [Started -> Answers \ {"succeeded", "error"}]
      BY <1>1, <1>15 DEF ApplyRetry, Shows, Answers
    <2>2. asked' \in Requested
      BY <1>5, <1>15, LaneType DEF ApplyRetry, Freed
    <2> QED BY <1>1, <1>2, <1>15, <2>1, <2>2 DEF ApplyRetry
  <1>16. CASE Reload
    <2>1. NothingKnown \in [Started -> Answers \ {"succeeded", "error"}] /\ Idling \in Requested
      BY DEF NothingKnown, Idling, Requested, Answers
    <2> QED BY <1>1, <1>2, <1>3, <1>16, <2>1 DEF Reload
  <1>17. CASE QueueMoves
    BY <1>1, <1>2, <1>17 DEF QueueMoves
  <1>18. ASSUME NEW j \in Started, NEW lane \in Lanes, Moves(j, lane) PROVE CentreTypeOK'
    BY <1>12, <1>13, <1>14, <1>15, <1>18 DEF Moves
  <1> QED BY <1>6, <1>7, <1>8, <1>9, <1>12, <1>16, <1>17, <1>18 DEF CentreNext

\* An empty list at first.
LEMMA CentreStart ==
  ASSUME CentreInit
  PROVE  CentreTypeOK
  <1>1. NothingKnown \in [Started -> Answers \ {"succeeded", "error"}] /\ Idling \in Requested
    BY DEF NothingKnown, Idling, Requested, Answers
  <1>2. 0 \in 0 .. MaxTrouble
    BY CentreAssumption
  <1> QED BY <1>1, <1>2 DEF CentreInit, CentreTypeOK, Requested

\* A run leaves the list only when its work has been done, or when the user has removed
\* it while it was shown as failed.
NothingForgotten ==
  [][\A j \in tracked \ tracked' : j \in runDone \/ shown[j] = "failed"]_centreVars

\* What is answered stays true of the work, however late the answer is applied.
TruthTold ==
  /\ runStatus = [j \in Started |-> runStatus[j]]
  /\ \A j \in Started : runStatus[j] = "succeeded" => j \in runDone
  /\ \A j \in Started, lane \in Lanes : asked[j][lane] = "succeeded" => j \in runDone

\* The queue calls nothing succeeded that has not been done, and undoes nothing.
LEMMA QueueIsHonest ==
  ASSUME TruthTold, Server!Next \/ UNCHANGED serverVars
  PROVE  /\ runDone \subseteq runDone'
         /\ runStatus' = [j \in Started |-> runStatus'[j]]
         /\ \A j \in Started : runStatus'[j] = "succeeded" => j \in runDone'
  <1>1. CASE UNCHANGED serverVars
    BY <1>1 DEF TruthTold, serverVars
  <1>2. ASSUME NEW j \in Started,
               \/ Server!Enqueue(j) \/ Server!Start(j) \/ Server!Complete(j)
               \/ Server!Succeed(j) \/ Server!Retry(j) \/ Server!Purge(j)
        PROVE  /\ runDone \subseteq runDone'
               /\ runStatus' = [i \in Started |-> runStatus'[i]]
               /\ \A i \in Started : runStatus'[i] = "succeeded" => i \in runDone'
    <2>1. runDone \subseteq runDone'
      BY <1>2 DEF Server!Enqueue, Server!Start, Server!Complete, Server!Succeed, Server!Retry,
                  Server!Purge
    <2>2. \/ UNCHANGED runStatus
          \/ \E what \in {"queued", "running", "succeeded", "gone"} :
               /\ what = "succeeded" => j \in runDone
               /\ runStatus' = [runStatus EXCEPT ![j] = what]
      BY <1>2 DEF Server!Enqueue, Server!Start, Server!Complete, Server!Succeed, Server!Retry,
                  Server!Purge
    <2>3. CASE UNCHANGED runStatus
      BY <2>1, <2>3 DEF TruthTold
    <2>4. ASSUME NEW what, what = "succeeded" => j \in runDone,
                 runStatus' = [runStatus EXCEPT ![j] = what]
          PROVE  /\ runStatus' = [i \in Started |-> runStatus'[i]]
                 /\ \A i \in Started : runStatus'[i] = "succeeded" => i \in runDone'
      <3>1. runStatus' = [i \in Started |-> IF i = j THEN what ELSE runStatus[i]]
        BY <2>4 DEF TruthTold
      <3> QED BY <2>1, <2>4, <3>1 DEF TruthTold
    <2> QED BY <2>1, <2>2, <2>3, <2>4
  <1>3. ASSUME NEW S \in SUBSET Started, Server!GiveBack(S)
        PROVE  /\ runDone \subseteq runDone'
               /\ runStatus' = [i \in Started |-> runStatus'[i]]
               /\ \A i \in Started : runStatus'[i] = "succeeded" => i \in runDone'
    BY <1>3 DEF TruthTold, Server!GiveBack
  <1> QED BY <1>1, <1>2, <1>3 DEF Server!Next

\* No request comes to an answer that is not true.
LEMMA TruthKept ==
  ASSUME CentreTypeOK, TruthTold, [CentreNext]_centreVars
  PROVE  TruthTold'
  <1>1. asked \in Requested /\ "retry" \in Lanes /\ Polls \subseteq Lanes
    BY DEF CentreTypeOK, Requested, Lanes
  <1>2. Server!Next \/ UNCHANGED serverVars
    BY DEF CentreNext, Track, Refresh, PressRetry, PressRemove, PageHasResult, Moves, Serve, Apply,
           ServeRetry, ApplyRetry, Fail, Reload, QueueMoves, Server!Next, centreVars
  <1>3. ASSUME \A j \in Started, lane \in Lanes :
                 asked'[j][lane] = "succeeded" =>
                   asked[j][lane] = "succeeded" \/ runStatus[j] = "succeeded"
        PROVE  TruthTold'
    <2>1. \A j \in Started, lane \in Lanes : asked'[j][lane] = "succeeded" => j \in runDone'
      BY <1>2, <1>3, QueueIsHonest DEF TruthTold
    <2> QED BY <1>2, <2>1, QueueIsHonest DEF TruthTold
  <1>4. ASSUME NEW requests \in Requested, asked' \in Aborting(requests),
               \A j \in Started, lane \in Lanes :
                 requests[j][lane] = "succeeded" => asked[j][lane] = "succeeded"
        PROVE  TruthTold'
    <2>1. \A j \in Started, lane \in Lanes : asked'[j][lane] \in {Nothing, requests[j][lane]}
      BY <1>4 DEF Aborting
    <2> QED BY <1>3, <1>4, <2>1 DEF Nothing
  <1>5. ASSUME NEW j \in Started, NEW lane \in Lanes, NEW answer,
               asked' = [asked EXCEPT ![j][lane] = answer],
               answer = "succeeded" => runStatus[j] = "succeeded"
        PROVE  TruthTold'
    <2>1. \A i \in Started, l \in Lanes :
            asked'[i][l] = IF i = j /\ l = lane THEN answer ELSE asked[i][l]
      BY <1>1, <1>5 DEF Requested
    <2> QED BY <1>3, <1>5, <2>1
  <1>6. CASE UNCHANGED asked
    BY <1>3, <1>6
  <1>7. ASSUME NEW j \in Started, Track(j) \/ PressRemove(j) \/ PageHasResult(j) PROVE TruthTold'
    BY <1>1, <1>4, <1>7 DEF Track, PressRemove, PageHasResult, Untrack
  <1>8. ASSUME NEW j \in Started, Refresh(j) \/ PressRetry(j) PROVE TruthTold'
    <2>1. PICK lane \in Lanes : asked' = [asked EXCEPT ![j][lane] = Sent]
      BY <1>1, <1>8 DEF Refresh, PressRetry
    <2>2. Sent # "succeeded"
      BY DEF Sent
    <2> QED BY <1>5, <2>1, <2>2
  <1>9. ASSUME NEW j \in Started, NEW lane \in Lanes, Serve(j, lane) \/ Fail(j, lane)
        PROVE  TruthTold'
    <2>1. PICK answer : /\ asked' = [asked EXCEPT ![j][lane] = answer]
                        /\ answer = "succeeded" => runStatus[j] = "succeeded"
      BY <1>9 DEF Serve, Fail, Answered
    <2> QED BY <1>5, <2>1
  <1>10. ASSUME NEW j \in Started, ServeRetry(j) \/ ApplyRetry(j) PROVE TruthTold'
    <2>1. PICK answer \in {"queued", "error", Nothing} : asked' = [asked EXCEPT ![j]["retry"] = answer]
      BY <1>10 DEF ServeRetry, ApplyRetry, Answered, Freed
    <2> QED BY <1>1, <1>5, <2>1 DEF Nothing
  <1>11. ASSUME NEW j \in Started, NEW lane \in Lanes, Apply(j, lane) PROVE TruthTold'
    <2>1. PICK requests : requests = Freed(j, lane)
      OBVIOUS
    <2>2. requests \in Requested
      BY <2>1, LaneType DEF Freed
    <2>3. \A i \in Started, l \in Lanes : requests[i][l] = IF i = j /\ l = lane THEN Nothing ELSE asked[i][l]
      BY <1>1, <2>1 DEF Freed, Requested
    <2>4. asked' = requests \/ asked' \in Aborting(requests)
      BY <1>11, <2>1 DEF Apply, Untrack
    <2>5. \A i \in Started, l \in Lanes : requests[i][l] = "succeeded" => asked[i][l] = "succeeded"
      BY <2>3 DEF Nothing
    <2>6. CASE asked' = requests
      BY <1>3, <2>5, <2>6
    <2> QED BY <1>4, <2>2, <2>4, <2>5, <2>6
  <1>12. CASE Reload
    <2>1. \A j \in Started, lane \in Lanes : asked'[j][lane] = Nothing
      BY <1>12 DEF Reload, Idling
    <2> QED BY <1>3, <2>1 DEF Nothing
  <1>13. CASE QueueMoves
    BY <1>6, <1>13 DEF QueueMoves
  <1>14. ASSUME NEW j \in Started, NEW lane \in Lanes, Moves(j, lane) PROVE TruthTold'
    BY <1>9, <1>10, <1>11, <1>14 DEF Moves
  <1>15. CASE UNCHANGED centreVars
    BY <1>6, <1>15 DEF centreVars
  <1> QED BY <1>7, <1>8, <1>9, <1>12, <1>13, <1>14, <1>15 DEF CentreNext

(* Polls that overlap, answers that come late, retries, reloads and starts of a run that  *)
(* is tracked already never make the list forget one whose work is not done, unless it    *)
(* was shown as failed (job-center.tsx:81): for any number of runs and polls.              *)
THEOREM CentreForgetsNothing ==
  CentreSpec => NothingForgotten
  <1>1. CentreInit => CentreTypeOK /\ TruthTold
    <2>1. SUFFICES ASSUME CentreInit PROVE TruthTold
      BY CentreStart
    <2> QED BY <2>1 DEF CentreInit, Server!Init, TruthTold, Idling, Nothing
  <1>2. CentreTypeOK /\ TruthTold /\ [CentreNext]_centreVars => CentreTypeOK' /\ TruthTold'
    BY CentreKept, TruthKept
  <1>3. ASSUME CentreTypeOK, TruthTold, [CentreNext]_centreVars
        PROVE  [\A j \in tracked \ tracked' : j \in runDone \/ shown[j] = "failed"]_centreVars
    <2>1. SUFFICES ASSUME NEW j \in tracked, j \notin tracked'
                   PROVE  j \in runDone \/ shown[j] = "failed"
      OBVIOUS
    <2>2. ~(tracked \subseteq tracked')
      BY <2>1
    <2>3. ASSUME NEW i \in Started, tracked' = tracked \ {i}, i \in runDone \/ shown[i] = "failed"
          PROVE  j \in runDone \/ shown[j] = "failed"
      BY <2>1, <2>3
    <2>4. ASSUME NEW i \in Started, PressRemove(i) \/ PageHasResult(i)
          PROVE  j \in runDone \/ shown[j] = "failed"
      BY <1>3, <2>3, <2>4 DEF PressRemove, PageHasResult, Untrack, TruthTold
    <2>5. ASSUME NEW i \in Started, NEW lane \in Lanes, Moves(i, lane)
          PROVE  j \in runDone \/ shown[j] = "failed"
      <3>1. CASE UNCHANGED tracked
        BY <2>2, <3>1
      <3>2. CASE asked[i][lane] = "succeeded" /\ tracked' = tracked \ {i}
        BY <1>3, <2>3, <3>2 DEF TruthTold
      <3>3. UNCHANGED tracked \/ (asked[i][lane] = "succeeded" /\ tracked' = tracked \ {i})
        BY <2>5 DEF Moves, Serve, Apply, ServeRetry, ApplyRetry, Untrack
      <3> QED BY <3>1, <3>2, <3>3
    <2>6. \/ tracked \subseteq tracked'
          \/ \E i \in Started : PressRemove(i) \/ PageHasResult(i)
          \/ \E i \in Started, lane \in Lanes : Moves(i, lane)
      BY <1>3 DEF CentreNext, Track, Refresh, PressRetry, Fail, Reload, QueueMoves, centreVars
    <2> QED BY <2>2, <2>4, <2>5, <2>6
  <1> QED BY <1>1, <1>2, <1>3, PTL DEF CentreSpec, NothingForgotten

-----------------------------------------------------------------------------
(* All services side by side *)

\* No calculation is made in another story, and one that is made is made right.
CalculationOK ==
  IF story = "calculation" THEN CalcInv ELSE calc = [input |-> [topic |-> "none"]]

ServicesInv ==
  /\ LoginInv /\ AlertInv /\ SyncInv /\ WatchInv /\ WatchTypes /\ LockInv /\ CentreTypeOK /\ RowsInv
  /\ story \in Stories /\ CalculationOK

\* Each service begins as it begins alone.
LEMMA ServicesStart ==
  ASSUME Init
  PROVE  ServicesInv
  <1>1. LoginInv /\ AlertInv /\ SyncInv
    BY LoginStart, AlertStart, SyncStart DEF Init
  <1>2. WatchInv /\ WatchTypes /\ LockInv /\ CentreTypeOK /\ RowsInv
    BY InitOK, TypesStart, LockInit, CentreStart, RowsStart DEF Init
  <1>3. CalculationOK
    BY DEF Init, CalculationOK, CalcInit, CalcInv
  <1> QED BY <1>1, <1>2, <1>3 DEF Init, ServicesInv

\* A step of the composition is a step of each service, or leaves it alone.
LEMMA EachSteps ==
  ASSUME [Next]_vars
  PROVE  /\ [LoginNext]_loginVars /\ [AlertNext]_alertVars /\ [SyncNext]_syncVars
         /\ [WatchNext]_watchVars /\ [CacheNext]_cacheVars /\ [CentreNext]_centreVars
         /\ [RowsNext]_rowVars
         /\ UNCHANGED story
         /\ IF story = "calculation" THEN [CalcNext]_calc ELSE UNCHANGED calc
  BY DEF Next, vars

\* What each service keeps in its own steps holds of all of them together.
LEMMA ServicesKept ==
  ASSUME ServicesInv, [Next]_vars
  PROVE  ServicesInv'
  <1>1. LoginInv' /\ AlertInv' /\ SyncInv'
    BY EachSteps, LoginStep, AlertStays, SyncKept DEF ServicesInv
  <1>2. WatchInv' /\ WatchTypes'
    BY EachSteps, WatchAssumption, WatchKept, TypesKept DEF ServicesInv
  <1>3. LockInv' /\ CentreTypeOK' /\ RowsInv'
    BY EachSteps, LockStep, CentreKept, RowsStep DEF ServicesInv
  <1>4. CalculationOK'
    <2>1. CASE story = "calculation"
      BY <2>1, EachSteps, OutputStep DEF ServicesInv, CalculationOK
    <2>2. CASE story # "calculation"
      BY <2>2, EachSteps DEF ServicesInv, CalculationOK
    <2> QED BY <2>1, <2>2
  <1>5. (story \in Stories)'
    BY EachSteps DEF ServicesInv
  <1> QED BY <1>1, <1>2, <1>3, <1>4, <1>5 DEF ServicesInv

(* In the composed system every service keeps its types, whatever requests, runs, syncs,  *)
(* crashes and answers overlap: for every value of the constants.                          *)
THEOREM ServicesTyped == Spec => []ServicesTypeOK
  <1>1. ServicesInv => ServicesTypeOK
    <2>1. SUFFICES ASSUME ServicesInv PROVE ServicesTypeOK
      OBVIOUS
    <2>2. LoginTypeOK /\ AlertTypeOK /\ SyncTypeOK
      BY <2>1 DEF ServicesInv, LoginInv, AlertInv, SyncInv
    <2>3. WatchTypeOK /\ CacheTypeOK /\ CentreTypeOK /\ RowsTypeOK
      BY <2>1 DEF ServicesInv, WatchTypes, LockInv, RowsInv
    <2>4. ASSUME story = "calculation" PROVE "input" \in DOMAIN calc
      <3>1. PICK x \in Inputs : calc = [input |-> x] \/ calc = [input |-> x, output |-> Output(x)]
        BY <2>1, <2>4 DEF ServicesInv, CalculationOK, CalcInv
      <3> QED BY <3>1
    <2>5. story \in Stories
      BY <2>1 DEF ServicesInv
    <2> QED BY <2>2, <2>3, <2>4, <2>5 DEF ServicesTypeOK, Stories
  <1> QED BY <1>1, ServicesStart, ServicesKept, PTL DEF Spec

(* The safety properties that the run of the composed system checks hold of it for every  *)
(* value of the constants, the caches under the hypothesis of one process.                 *)
THEOREM ServicesSafe ==
  ASSUME OneProcess
  PROVE  Spec => /\ []LoginsHold /\ []OutboxHonest /\ []IndicatorsFollow /\ []TablesAgree
                 /\ []CachesHold /\ []AccountAddsUp /\ []BacktestHonest /\ []EachItsOwnReport
                 /\ OnlyPatchDecides
  <1>1. ServicesInv => LoginsHold /\ OutboxHonest /\ IndicatorsFollow /\ TablesAgree
    BY LoginsRight, OutboxRight DEF ServicesInv, SyncInv, Untangled, IndicatorsFollow, WatchInv
  <1>2. ServicesInv => AccountAddsUp /\ BacktestHonest /\ EachItsOwnReport
    <2>1. SUFFICES ASSUME ServicesInv PROVE AccountAddsUp /\ BacktestHonest /\ EachItsOwnReport
      OBVIOUS
    <2>2. CASE story = "calculation"
      BY <2>1, <2>2, AccountRight, BacktestRight, ReportsRight DEF ServicesInv, CalculationOK
    <2>3. CASE story # "calculation"
      <3>1. calc = [input |-> [topic |-> "none"]]
        BY <2>1, <2>3 DEF ServicesInv, CalculationOK
      <3>2. "output" \notin DOMAIN calc
        BY <3>1
      <3>3. \A topic : ~Done(topic)
        BY <3>2 DEF Done
      <3> QED BY <3>3 DEF AccountAddsUp, AffordableIsLargest, LimitsKept, EquityAddsUp,
                          BacktestHonest, NoLookahead, TradesExplainEquity, EachItsOwnReport
    <2> QED BY <2>2, <2>3
  <1>3. Init => WatchInit
    BY DEF Init
  <1>4. [Next]_vars => [WatchNext]_watchVars
    BY EachSteps
  <1>5. Spec => OnlyPatchDecides
    BY <1>3, <1>4, PatchAlways, WatchAssumption, PTL DEF Spec
  <1> QED BY <1>1, <1>2, <1>5, ServicesStart, ServicesKept, CachesAlwaysHold, PTL DEF Spec
=============================================================================
