------------------------------ MODULE LoginProofs ------------------------------
(***************************************************************************)
(* Theorems about LoginSessions, for any numbers of clients, handlers and  *)
(* cookies and any lengths of the window and of a session.                 *)
(***************************************************************************)
EXTENDS LoginSessions, FiniteSetTheorems, WellFoundedInduction, SequenceTheorems, TLAPS

\* Oldest first: what makes trimming at the old end and judging by the newest right.
Aged(ages) == \A i, j \in 1 .. Len(ages) : i <= j => ages[j] <= ages[i]

Verifying(c) == {r \in Handlers : handler[r] = [step |-> "verify", client |-> c]}

\* A failure counted or about to be counted: the throttle saw room for it.
RoomLeft(c) ==
  Len(failures[c]) + Cardinality(Verifying(c)) <= MaxTries - 1 + Cardinality(Handlers)

\* A cookie has left what its row has left.
CookieOK(t) ==
  cookie[t] = IF t \in DOMAIN sessions /\ sessions[t] > 0 THEN sessions[t] ELSE 0

LoginInv ==
  /\ LoginTypeOK
  /\ OneOwner
  /\ \A c \in Clients : Aged(attempts[c]) /\ InWindow(attempts[c]) = failures[c]
  /\ \A c \in Clients : RoomLeft(c)
  /\ \A t \in Tokens : CookieOK(t)

-----------------------------------------------------------------------------
(* Trimming a deque *)

\* A function on the first numbers is a sequence.
LEMMA NumberedIsSeq ==
  ASSUME NEW S, NEW n \in Nat, NEW v \in [1 .. n -> S]
  PROVE  v \in Seq(S) /\ Len(v) = n
  OBVIOUS

\* A set of numbers that has one has a least one.
LEMMA LeastNat ==
  ASSUME NEW S \in SUBSET Nat, S # {}
  PROVE  Min(S) \in S /\ \A y \in S : Min(S) <= y
  <1>1. PICK x \in S : \A y \in S : ~(<<y, x>> \in OpToRel(<, Nat))
    BY NatLessThanWellFounded, WFMin
  <1>2. ASSUME NEW y \in S, y < x PROVE FALSE
    <2>1. <<y, x>> \in Nat \X Nat /\ <<y, x>>[1] < <<y, x>>[2]
      BY <1>2
    <2>2. <<y, x>> \in OpToRel(<, Nat)
      BY <2>1, Zenon DEF OpToRel
    <2> QED BY <2>2, <1>1
  <1>3. \A y \in S : x <= y
    BY <1>2
  <1> QED BY <1>3 DEF Min

\* The loop takes away expired failures only, and stops at the first that is not.
LEMMA TrimStops ==
  ASSUME NEW s \in Seq(Nat)
  PROVE  \E k \in 0 .. Len(s) :
           /\ InWindow(s) = SubSeq(s, k + 1, Len(s))
           /\ \A i \in 1 .. k : s[i] >= LoginWindow
           /\ k < Len(s) => s[k + 1] < LoginWindow
  <1> DEFINE stops == {k \in 0 .. Len(s) : k < Len(s) => s[k + 1] < LoginWindow}
             k == Min(stops)
  <1>1. Len(s) \in stops /\ stops \in SUBSET Nat
    BY LenProperties
  <1>2. k \in stops /\ \A y \in stops : k <= y
    BY <1>1, LeastNat
  <1>3. ASSUME NEW i \in 1 .. k PROVE s[i] >= LoginWindow
    <2>1. i - 1 \in 0 .. Len(s) /\ i - 1 < k /\ i - 1 < Len(s) /\ (i - 1) + 1 = i
      BY <1>2, LenProperties
    <2>2. i - 1 \notin stops
      BY <1>2, <2>1
    <2>3. s[i] \in Nat
      BY <2>1, ElementOfSeq, LenProperties
    <2> QED BY <2>1, <2>2, <2>3, LoginAssumption
  <1> HIDE DEF k
  <1> QED BY <1>2, <1>3 DEF InWindow, k

\* Wherever a prefix of expired failures ends at one that is not, trimming ends.
LEMMA TrimmedAt ==
  ASSUME NEW s \in Seq(Nat), NEW k \in 0 .. Len(s),
         \A i \in 1 .. k : s[i] >= LoginWindow,
         k < Len(s) => s[k + 1] < LoginWindow
  PROVE  InWindow(s) = SubSeq(s, k + 1, Len(s))
  <1>0. Len(s) \in Nat /\ (\A i \in 1 .. Len(s) : s[i] \in Nat) /\ LoginWindow \in Nat
    BY LenProperties, ElementOfSeq, LoginAssumption
  <1>1. PICK n \in 0 .. Len(s) : /\ InWindow(s) = SubSeq(s, n + 1, Len(s))
                                 /\ \A i \in 1 .. n : s[i] >= LoginWindow
                                 /\ n < Len(s) => s[n + 1] < LoginWindow
    BY TrimStops
  <1>2. n = k
    <2>1. CASE n < k
      BY <1>0, <1>1, <2>1
    <2>2. CASE k < n
      BY <1>0, <1>1, <2>2
    <2> QED BY <1>0, <2>1, <2>2
  <1> QED BY <1>1, <1>2

\* With the oldest first exactly the failures of the window stay.
LEMMA Trimmed ==
  ASSUME NEW s \in Seq(Nat), Aged(s)
  PROVE  \E k \in 0 .. Len(s) :
           /\ \A i \in 1 .. k : s[i] >= LoginWindow
           /\ \A i \in k + 1 .. Len(s) : s[i] < LoginWindow
           /\ InWindow(s) = SubSeq(s, k + 1, Len(s))
           /\ InWindow(s) \in Seq(Nat) /\ Len(InWindow(s)) = Len(s) - k
           /\ \A i \in 1 .. Len(s) - k : InWindow(s)[i] = s[k + i]
  <1>0. Len(s) \in Nat /\ (\A i \in 1 .. Len(s) : s[i] \in Nat) /\ LoginWindow \in Nat
    BY LenProperties, ElementOfSeq, LoginAssumption
  <1>1. PICK k \in 0 .. Len(s) : /\ InWindow(s) = SubSeq(s, k + 1, Len(s))
                                 /\ \A i \in 1 .. k : s[i] >= LoginWindow
                                 /\ k < Len(s) => s[k + 1] < LoginWindow
    BY TrimStops
  <1>2. ASSUME NEW i \in k + 1 .. Len(s) PROVE s[i] < LoginWindow
    <2>1. s[i] <= s[k + 1] /\ s[k + 1] < LoginWindow /\ s[i] \in Nat /\ s[k + 1] \in Nat
      BY <1>0, <1>1 DEF Aged
    <2> QED BY <1>0, <2>1
  <1>3. /\ SubSeq(s, k + 1, Len(s)) \in Seq(Nat)
        /\ Len(SubSeq(s, k + 1, Len(s))) = Len(s) - k
        /\ \A i \in 1 .. Len(s) - k : SubSeq(s, k + 1, Len(s))[i] = s[k + i]
    <2>1. \A i \in k + 1 .. Len(s) : s[i] \in Nat
      BY <1>0
    <2>2. k + 1 \in Int /\ Len(s) \in Int
      BY <1>0
    <2>3. /\ SubSeq(s, k + 1, Len(s)) \in Seq(Nat)
          /\ Len(SubSeq(s, k + 1, Len(s))) = IF k + 1 <= Len(s) THEN Len(s) - (k + 1) + 1 ELSE 0
          /\ \A i \in 1 .. Len(s) - (k + 1) + 1 : SubSeq(s, k + 1, Len(s))[i] = s[(k + 1) + i - 1]
      BY <2>1, <2>2, SubSeqProperties
    <2>4. ASSUME NEW i \in 1 .. Len(s) - k
          PROVE  SubSeq(s, k + 1, Len(s))[i] = s[k + i]
      <3>1. i \in 1 .. Len(s) - (k + 1) + 1 /\ (k + 1) + i - 1 = k + i
        BY <1>0
      <3> QED BY <2>3, <3>1
    <2>5. Len(SubSeq(s, k + 1, Len(s))) = Len(s) - k
      BY <1>0, <2>3
    <2> QED BY <1>0, <2>3, <2>4, <2>5
  <1> QED BY <1>1, <1>2, <1>3

\* Trimming twice is trimming once.
LEMMA TrimmedTwice ==
  ASSUME NEW s \in Seq(Nat), Aged(s)
  PROVE  InWindow(InWindow(s)) = InWindow(s) /\ Aged(InWindow(s))
  <1>0. Len(s) \in Nat
    BY LenProperties
  <1>1. PICK k \in 0 .. Len(s) :
           /\ \A i \in k + 1 .. Len(s) : s[i] < LoginWindow
           /\ InWindow(s) \in Seq(Nat) /\ Len(InWindow(s)) = Len(s) - k
           /\ \A i \in 1 .. Len(s) - k : InWindow(s)[i] = s[k + i]
    BY Trimmed
  <1> DEFINE f == InWindow(s)
  <1>2. 0 < Len(f) => f[1] < LoginWindow
    BY <1>0, <1>1
  <1> HIDE DEF f
  <1>3. f \in Seq(Nat) /\ Len(f) \in Nat
    BY <1>1, LenProperties DEF f
  <1>4. InWindow(f) = SubSeq(f, 0 + 1, Len(f))
    BY <1>2, <1>3, TrimmedAt
  <1>5. SubSeq(f, 1, Len(f)) = f
    BY <1>3, SubSeqFull
  <1>6. Aged(f)
    <2>1. ASSUME NEW i \in 1 .. Len(f), NEW j \in 1 .. Len(f), i <= j PROVE f[j] <= f[i]
      <3>1. /\ f[i] = s[k + i] /\ f[j] = s[k + j]
            /\ k + i \in 1 .. Len(s) /\ k + j \in 1 .. Len(s) /\ k + i <= k + j
        BY <1>0, <1>1, <2>1 DEF f
      <3> QED BY <3>1 DEF Aged
    <2> QED BY <2>1 DEF Aged
  <1> QED BY <1>4, <1>5, <1>6 DEF f

\* Places behind a prefix that is cut off.
LEMMA BehindPrefix ==
  ASSUME NEW a \in Nat, NEW b \in 0 .. a, NEW x \in 1 .. a - b + 1, x # a - b + 1
  PROVE  x \in 1 .. a - b /\ b + x \in 1 .. a
  OBVIOUS

\* A new failure is the newest, and is in the window.
LEMMA TrimmedAppend ==
  ASSUME NEW s \in Seq(Nat), Aged(s)
  PROVE  Aged(Append(s, 0)) /\ InWindow(Append(s, 0)) = Append(InWindow(s), 0)
  <1> DEFINE t == Append(s, 0)
             f == InWindow(s)
  <1>0. /\ Len(s) \in Nat /\ (\A i \in 1 .. Len(s) : s[i] \in Nat)
        /\ LoginWindow \in Nat /\ LoginWindow > 0
    BY LenProperties, ElementOfSeq, LoginAssumption
  <1>1. /\ t \in Seq(Nat) /\ Len(t) = Len(s) + 1
        /\ \A i \in 1 .. Len(s) : t[i] = s[i]
        /\ t[Len(s) + 1] = 0
    BY AppendProperties
  <1>2. PICK k \in 0 .. Len(s) :
           /\ \A i \in 1 .. k : s[i] >= LoginWindow
           /\ \A i \in k + 1 .. Len(s) : s[i] < LoginWindow
           /\ f \in Seq(Nat) /\ Len(f) = Len(s) - k
           /\ \A i \in 1 .. Len(s) - k : f[i] = s[k + i]
    BY Trimmed
  <1> HIDE DEF t, f
  <1>3. Aged(t)
    <2>1. ASSUME NEW i \in 1 .. Len(t), NEW j \in 1 .. Len(t), i <= j PROVE t[j] <= t[i]
      <3>1. CASE j = Len(s) + 1
        BY <1>0, <1>1, <2>1, <3>1
      <3>2. CASE j # Len(s) + 1
        <4>1. i \in 1 .. Len(s) /\ j \in 1 .. Len(s)
          BY <1>0, <1>1, <2>1, <3>2
        <4>2. s[j] <= s[i] /\ t[i] = s[i] /\ t[j] = s[j]
          BY <1>1, <2>1, <4>1 DEF Aged
        <4> QED BY <4>2
      <3> QED BY <3>1, <3>2
    <2> QED BY <2>1 DEF Aged
  <1>4. InWindow(t) = SubSeq(t, k + 1, Len(t))
    <2>1. /\ k \in 0 .. Len(t)
          /\ \A i \in 1 .. k : t[i] >= LoginWindow
          /\ k < Len(t) => t[k + 1] < LoginWindow
      <3>1. \A i \in 1 .. k : i \in 1 .. Len(s)
        BY <1>0
      <3>2. k < Len(s) => t[k + 1] = s[k + 1] /\ k + 1 \in k + 1 .. Len(s)
        BY <1>0, <1>1
      <3>3. k = Len(s) => t[k + 1] = 0
        BY <1>1
      <3>4. \A i \in 1 .. k : t[i] = s[i]
        BY <1>1, <3>1
      <3>5. k \in 0 .. Len(t)
        BY <1>0, <1>1
      <3>6. k < Len(t) => t[k + 1] < LoginWindow
        BY <1>0, <1>2, <3>2, <3>3
      <3> QED BY <1>2, <3>4, <3>5, <3>6
    <2> QED BY <1>1, <2>1, TrimmedAt
  <1>5. PICK n \in 0 .. Len(t) :
           /\ \A i \in 1 .. n : t[i] >= LoginWindow
           /\ \A i \in n + 1 .. Len(t) : t[i] < LoginWindow
           /\ InWindow(t) \in Seq(Nat) /\ Len(InWindow(t)) = Len(t) - n
           /\ \A i \in 1 .. Len(t) - n : InWindow(t)[i] = t[n + i]
    BY <1>1, <1>3, Trimmed
  <1>6. n = k
    <2>1. CASE n < k
      BY <1>0, <1>1, <1>2, <1>5, <2>1
    <2>2. CASE k < n
      <3>1. n \in 1 .. n /\ t[n] >= LoginWindow
        BY <1>5, <2>2
      <3>2. CASE n = Len(s) + 1
        BY <1>0, <1>1, <3>1, <3>2
      <3>3. CASE n # Len(s) + 1
        <4>1. n \in k + 1 .. Len(s) /\ n \in 1 .. Len(s)
          BY <1>0, <1>1, <1>5, <2>2, <3>3
        <4>2. t[n] = s[n] /\ s[n] < LoginWindow /\ s[n] \in Nat
          BY <1>0, <1>1, <1>2, <4>1
        <4> QED BY <1>0, <3>1, <4>2
      <3> QED BY <3>2, <3>3
    <2> QED BY <1>0, <2>1, <2>2
  <1>7. /\ Append(f, 0) \in Seq(Nat) /\ Len(Append(f, 0)) = Len(f) + 1
        /\ \A i \in 1 .. Len(f) : Append(f, 0)[i] = f[i]
        /\ Append(f, 0)[Len(f) + 1] = 0
    <2>1. PICK v \in Seq(Nat) : v = f
      BY <1>2
    <2>2. /\ Append(v, 0) \in Seq(Nat) /\ Len(Append(v, 0)) = Len(v) + 1
          /\ \A i \in 1 .. Len(v) : Append(v, 0)[i] = v[i]
          /\ Append(v, 0)[Len(v) + 1] = 0
      BY AppendProperties
    <2> HIDE DEF f
    <2> QED BY <2>1, <2>2, Zenon
  <1>8. Len(InWindow(t)) = Len(Append(f, 0))
    BY <1>0, <1>1, <1>2, <1>5, <1>6, <1>7
  <1>9. ASSUME NEW i \in 1 .. Len(InWindow(t)) PROVE InWindow(t)[i] = Append(f, 0)[i]
    <2>1. CASE i = Len(f) + 1
      <3>1. InWindow(t)[i] = t[k + i] /\ k + i = Len(s) + 1
        BY <1>0, <1>1, <1>2, <1>5, <1>6, <1>9, <2>1
      <3> QED BY <1>1, <1>7, <2>1, <3>1
    <2>2. CASE i # Len(f) + 1
      <3>1. /\ InWindow(t)[i] = t[k + i] /\ k + i \in 1 .. Len(s)
            /\ i \in 1 .. Len(f) /\ f[i] = s[k + i]
        <4>1. i \in 1 .. Len(f) /\ k + i \in 1 .. Len(s) /\ i \in 1 .. Len(s) - k
          <5>1. Len(InWindow(t)) = Len(f) + 1 /\ Len(f) = Len(s) - k /\ k \in Nat
            BY <1>2, <1>7, <1>8
          <5>2. i \in 1 .. Len(s) - k + 1 /\ i # Len(s) - k + 1
            BY <1>9, <2>2, <5>1
          <5> QED BY <1>0, <5>1, <5>2, BehindPrefix
        <4>2. InWindow(t)[i] = t[k + i]
          BY <1>5, <1>6, <1>9
        <4> QED BY <1>2, <4>1, <4>2
      <3> QED BY <1>1, <1>7, <3>1
    <2> QED BY <2>1, <2>2
  <1>10. InWindow(t) = Append(f, 0)
    BY <1>5, <1>7, <1>8, <1>9, SeqEqual
  <1> QED BY <1>3, <1>10 DEF t, f

\* A client whose newest failure has expired has none in the window.
LEMMA TrimmedOut ==
  ASSUME NEW s \in Seq(Nat), Aged(s), s # <<>>, Last(s) >= LoginWindow
  PROVE  InWindow(s) = <<>>
  <1>0. /\ Len(s) \in Nat \ {0} /\ (\A i \in 1 .. Len(s) : s[i] \in Nat)
        /\ LoginWindow \in Nat
    BY LenProperties, EmptySeq, ElementOfSeq, LoginAssumption
  <1>1. \A i \in 1 .. Len(s) : s[i] >= LoginWindow
    <2>1. \A i \in 1 .. Len(s) : s[Len(s)] <= s[i]
      BY <1>0 DEF Aged
    <2> QED BY <1>0, <2>1 DEF Last
  <1>2. InWindow(s) = SubSeq(s, Len(s) + 1, Len(s))
    BY <1>0, <1>1, TrimmedAt
  <1> QED BY <1>0, <1>2, SubSeqEmpty

\* Without a failure there is nothing to trim.
LEMMA TrimmedEmpty == InWindow(<<>>) = <<>> /\ Aged(<<>>)
  <1>1. <<>> \in Seq(Nat) /\ Len(<<>>) = 0
    BY EmptySeq
  <1>2. InWindow(<<>>) = SubSeq(<<>>, 0 + 1, Len(<<>>))
    <2>1. 0 \in 0 .. Len(<<>>) /\ ~(0 < Len(<<>>)) /\ \A i \in 1 .. 0 : FALSE
      BY <1>1
    <2> QED BY <1>1, <2>1, TrimmedAt
  <1> QED BY <1>1, <1>2, SubSeqEmpty DEF Aged

-----------------------------------------------------------------------------
(* A tick, and a failure *)

Older(s) == [i \in DOMAIN s |-> Min({LoginWindow, s[i] + 1})]
OlderGhost(s) == InWindow([i \in DOMAIN s |-> s[i] + 1])

\* The age a tick gives a failure of the deque.
LEMMA OlderAge ==
  ASSUME NEW a \in Nat
  PROVE  LET b == Min({LoginWindow, a + 1})
         IN  b \in Nat /\ b = IF a + 1 >= LoginWindow THEN LoginWindow ELSE a + 1
  <1> DEFINE S == {LoginWindow, a + 1}
  <1>0. S \in SUBSET Nat /\ S # {}
    BY LoginAssumption
  <1>1. Min(S) \in S /\ \A y \in S : Min(S) <= y
    BY <1>0, LeastNat
  <1>2. Min(S) \in {LoginWindow, a + 1} /\ Min(S) <= LoginWindow /\ Min(S) <= a + 1
    BY <1>1
  <1> HIDE DEF S
  <1> QED BY <1>2, LoginAssumption DEF S

\* What is left behind two prefixes.
LEMMA RestLength ==
  ASSUME NEW a \in Nat, NEW n \in 0 .. a, NEW k \in 0 .. a, k <= n
  PROVE  (IF (n - k) + 1 <= a - k THEN (a - k) - ((n - k) + 1) + 1 ELSE 0) = a - n
  OBVIOUS

\* A tick drops from the record what the next look would trim from the deque.
LEMMA TrimmedTick ==
  ASSUME NEW s \in Seq(0 .. LoginWindow), Aged(s)
  PROVE  /\ Older(s) \in Seq(0 .. LoginWindow) /\ Aged(Older(s))
         /\ InWindow(Older(s)) = OlderGhost(InWindow(s))
         /\ OlderGhost(InWindow(s)) \in Seq(0 .. LoginWindow - 1)
         /\ Len(OlderGhost(InWindow(s))) <= Len(InWindow(s))
  <1> DEFINE f == InWindow(s)
             t == Older(s)
             g == [i \in DOMAIN f |-> f[i] + 1]
  <1>0. /\ LoginWindow \in Nat /\ s \in Seq(Nat) /\ Len(s) \in Nat
        /\ DOMAIN s = 1 .. Len(s)
        /\ \A i \in 1 .. Len(s) : s[i] \in 0 .. LoginWindow
    BY LoginAssumption, LenProperties, ElementOfSeq, SeqMonotonic
  <1>1. PICK k \in 0 .. Len(s) :
           /\ \A i \in 1 .. k : s[i] >= LoginWindow
           /\ \A i \in k + 1 .. Len(s) : s[i] < LoginWindow
           /\ f \in Seq(Nat) /\ Len(f) = Len(s) - k
           /\ \A i \in 1 .. Len(s) - k : f[i] = s[k + i]
    BY <1>0, Trimmed
  <1>2. /\ t \in Seq(0 .. LoginWindow) /\ t \in Seq(Nat) /\ Len(t) = Len(s)
        /\ \A i \in 1 .. Len(s) :
             t[i] = IF s[i] + 1 >= LoginWindow THEN LoginWindow ELSE s[i] + 1
    <2>1. \A i \in 1 .. Len(s) :
            /\ Min({LoginWindow, s[i] + 1}) \in 0 .. LoginWindow
            /\ Min({LoginWindow, s[i] + 1})
                 = IF s[i] + 1 >= LoginWindow THEN LoginWindow ELSE s[i] + 1
      <3>1. ASSUME NEW i \in 1 .. Len(s)
            PROVE  /\ Min({LoginWindow, s[i] + 1}) \in 0 .. LoginWindow
                   /\ Min({LoginWindow, s[i] + 1})
                        = IF s[i] + 1 >= LoginWindow THEN LoginWindow ELSE s[i] + 1
        <4>1. s[i] \in Nat
          BY <1>0
        <4>2. LET b == Min({LoginWindow, s[i] + 1})
              IN  b \in Nat /\ b = IF s[i] + 1 >= LoginWindow THEN LoginWindow ELSE s[i] + 1
          BY <4>1, OlderAge
        <4> QED BY <1>0, <4>1, <4>2
      <3> QED BY <3>1
    <2>2. t = [i \in 1 .. Len(s) |-> Min({LoginWindow, s[i] + 1})]
      BY <1>0 DEF Older
    <2> DEFINE next(i) == Min({LoginWindow, s[i] + 1})
    <2> HIDE DEF t, next
    <2>3. t \in [1 .. Len(s) -> 0 .. LoginWindow]
      <3>1. \A i \in 1 .. Len(s) : next(i) \in 0 .. LoginWindow
        BY <2>1 DEF next
      <3>2. t = [i \in 1 .. Len(s) |-> next(i)]
        BY <2>2 DEF next
      <3> QED BY <3>1, <3>2
    <2>4. t \in Seq(0 .. LoginWindow) /\ Len(t) = Len(s)
      <3>1. PICK n \in Nat : n = Len(s)
        BY <1>0
      <3>2. PICK v \in [1 .. n -> 0 .. LoginWindow] : v = t
        BY <2>3, <3>1
      <3>3. v \in Seq(0 .. LoginWindow) /\ Len(v) = n
        BY NumberedIsSeq, Zenon
      <3> QED BY <3>1, <3>2, <3>3
    <2>5. t \in Seq(Nat)
      BY <1>0, <2>4, SeqMonotonic
    <2> QED BY <2>1, <2>2, <2>4, <2>5
  <1>3. /\ g \in Seq(Nat) /\ Len(g) = Len(s) - k
        /\ \A i \in 1 .. Len(s) - k : g[i] = s[k + i] + 1
    <2>1. DOMAIN f = 1 .. Len(s) - k
      BY <1>1, LenProperties
    <2>2. \A i \in 1 .. Len(s) - k : f[i] \in Nat
      BY <1>1, ElementOfSeq
    <2>3. g \in [1 .. Len(s) - k -> Nat]
      BY <2>1, <2>2
    <2>4. Len(s) - k \in Nat
      BY <1>0
    <2>5. g \in Seq(Nat) /\ Len(g) = Len(s) - k
      BY <2>3, <2>4, NumberedIsSeq, Zenon
    <2> QED BY <1>1, <2>1, <2>5
  <1> HIDE DEF f, t, g
  <1>4. ASSUME NEW i \in 1 .. Len(s), NEW j \in 1 .. Len(s), i <= j
        PROVE  s[j] <= s[i] /\ s[i] \in Nat /\ s[j] \in Nat
    BY <1>0, <1>4 DEF Aged
  <1>5. Aged(t)
    <2>1. ASSUME NEW i \in 1 .. Len(s), NEW j \in 1 .. Len(s), i <= j PROVE t[j] <= t[i]
      <3>1. s[j] <= s[i] /\ s[i] \in Nat /\ s[j] \in Nat
        BY <1>4, <2>1
      <3>2. /\ t[i] = IF s[i] + 1 >= LoginWindow THEN LoginWindow ELSE s[i] + 1
            /\ t[j] = IF s[j] + 1 >= LoginWindow THEN LoginWindow ELSE s[j] + 1
        BY <1>2
      <3> QED BY <1>0, <3>1, <3>2
    <2> QED BY <1>2, <2>1 DEF Aged
  <1>6. PICK n \in 0 .. Len(s) :
           /\ \A i \in 1 .. n : t[i] >= LoginWindow
           /\ \A i \in n + 1 .. Len(s) : t[i] < LoginWindow
           /\ InWindow(t) \in Seq(Nat) /\ Len(InWindow(t)) = Len(s) - n
           /\ \A i \in 1 .. Len(s) - n : InWindow(t)[i] = t[n + i]
    <2>1. PICK n \in 0 .. Len(t) :
             /\ \A i \in 1 .. n : t[i] >= LoginWindow
             /\ \A i \in n + 1 .. Len(t) : t[i] < LoginWindow
             /\ InWindow(t) \in Seq(Nat) /\ Len(InWindow(t)) = Len(t) - n
             /\ \A i \in 1 .. Len(t) - n : InWindow(t)[i] = t[n + i]
      BY <1>2, <1>5, Trimmed
    <2>2. Len(t) = Len(s)
      BY <1>2
    <2> QED BY <2>1, <2>2, Zenon
  <1>7. k <= n
    <2>1. SUFFICES ASSUME n < k PROVE FALSE
      BY <1>0
    <2>2. k \in n + 1 .. Len(s) /\ k \in 1 .. k /\ k \in 1 .. Len(s)
      BY <1>0, <2>1
    <2>3. s[k] >= LoginWindow /\ t[k] < LoginWindow /\ s[k] \in Nat
      BY <1>0, <1>1, <1>6, <2>2
    <2> QED BY <1>0, <1>2, <2>2, <2>3
  <1>8. /\ \A i \in 1 .. n - k : g[i] >= LoginWindow
        /\ n - k < Len(g) => g[(n - k) + 1] < LoginWindow
        /\ n - k \in 0 .. Len(g)
    <2>1. ASSUME NEW i \in 1 .. n - k PROVE g[i] >= LoginWindow
      <3>1. i \in 1 .. Len(s) - k /\ k + i \in 1 .. n /\ k + i \in 1 .. Len(s)
        BY <1>0, <1>7
      <3>2. g[i] = s[k + i] + 1 /\ t[k + i] >= LoginWindow /\ s[k + i] \in Nat
        BY <1>0, <1>3, <1>6, <3>1
      <3>3. t[k + i] = IF s[k + i] + 1 >= LoginWindow THEN LoginWindow ELSE s[k + i] + 1
        BY <1>2, <3>1
      <3> QED BY <1>0, <3>2, <3>3
    <2>2. ASSUME n - k < Len(g) PROVE g[(n - k) + 1] < LoginWindow
      <3>1. /\ (n - k) + 1 \in 1 .. Len(s) - k
            /\ n + 1 \in 1 .. Len(s) /\ n + 1 \in n + 1 .. Len(s)
            /\ k + ((n - k) + 1) = n + 1
        BY <1>0, <1>3, <1>7, <2>2
      <3>2. /\ g[(n - k) + 1] = s[n + 1] + 1 /\ t[n + 1] < LoginWindow
            /\ s[n + 1] \in Nat
        BY <1>0, <1>3, <1>6, <3>1
      <3>3. t[n + 1] = IF s[n + 1] + 1 >= LoginWindow THEN LoginWindow ELSE s[n + 1] + 1
        BY <1>2, <3>1
      <3> QED BY <1>0, <3>2, <3>3
    <2>3. n - k \in 0 .. Len(g)
      BY <1>0, <1>3, <1>7
    <2> QED BY <2>1, <2>2, <2>3
  <1>9. InWindow(g) = SubSeq(g, (n - k) + 1, Len(g))
    BY <1>3, <1>8, TrimmedAt
  <1> DEFINE h == SubSeq(g, (n - k) + 1, Len(g))
  <1>10. /\ h \in Seq(0 .. LoginWindow - 1) /\ Len(h) = Len(s) - n
         /\ \A i \in 1 .. Len(s) - n : h[i] = t[n + i]
    <2>1. ASSUME NEW i \in (n - k) + 1 .. Len(g)
          PROVE  g[i] \in 0 .. LoginWindow - 1 /\ g[i] = t[k + i]
      <3>1. i \in 1 .. Len(s) - k /\ k + i \in n + 1 .. Len(s) /\ k + i \in 1 .. Len(s)
        BY <1>0, <1>3, <1>7
      <3>2. g[i] = s[k + i] + 1 /\ t[k + i] < LoginWindow /\ s[k + i] \in Nat
        BY <1>0, <1>3, <1>6, <3>1
      <3>3. t[k + i] = IF s[k + i] + 1 >= LoginWindow THEN LoginWindow ELSE s[k + i] + 1
        BY <1>2, <3>1
      <3> QED BY <1>0, <3>2, <3>3
    <2>2. (n - k) + 1 \in Int /\ Len(g) \in Int /\ Len(g) = Len(s) - k
      BY <1>0, <1>3
    <2>3. /\ h \in Seq(0 .. LoginWindow - 1)
          /\ Len(h) = IF (n - k) + 1 <= Len(g) THEN Len(g) - ((n - k) + 1) + 1 ELSE 0
          /\ \A i \in 1 .. Len(g) - ((n - k) + 1) + 1 : h[i] = g[((n - k) + 1) + i - 1]
      BY <2>1, <2>2, SubSeqProperties
    <2> HIDE DEF h
    <2>4. Len(h) = Len(s) - n
      <3>1. Len(h) = IF (n - k) + 1 <= Len(s) - k
                     THEN (Len(s) - k) - ((n - k) + 1) + 1 ELSE 0
        BY <2>2, <2>3
      <3>2. (IF (n - k) + 1 <= Len(s) - k THEN (Len(s) - k) - ((n - k) + 1) + 1 ELSE 0)
              = Len(s) - n
        BY <1>0, <1>7, RestLength
      <3> QED BY <3>1, <3>2
    <2>5. ASSUME NEW i \in 1 .. Len(s) - n PROVE h[i] = t[n + i]
      <3>1. /\ i \in 1 .. Len(g) - ((n - k) + 1) + 1
            /\ ((n - k) + 1) + i - 1 = (n - k) + i
            /\ (n - k) + i \in (n - k) + 1 .. Len(g)
            /\ k + ((n - k) + i) = n + i
        BY <1>0, <1>7, <2>2
      <3> QED BY <2>1, <2>3, <3>1
    <2> QED BY <2>3, <2>4, <2>5
  <1> HIDE DEF h
  <1>11. InWindow(t) = h
    <2>1. h \in Seq(Nat)
      BY <1>0, <1>10, SeqMonotonic
    <2> QED BY <1>6, <1>10, <2>1, SeqEqual
  <1>12. OlderGhost(f) = h
    BY <1>9 DEF OlderGhost, g, h
  <1>13. Len(h) <= Len(f)
    BY <1>0, <1>1, <1>7, <1>10
  <1> QED BY <1>2, <1>5, <1>10, <1>11, <1>12, <1>13 DEF f, t

-----------------------------------------------------------------------------
(* Handlers, and what they count *)

\* The greater of two numbers.
LEMMA MaxOfTwo ==
  ASSUME NEW a \in Int, NEW b \in Int
  PROVE  Max({a, b}) = IF a >= b THEN a ELSE b
  <1>1. \E x \in {a, b} : \A y \in {a, b} : x >= y
    OBVIOUS
  <1>2. Max({a, b}) \in {a, b} /\ \A y \in {a, b} : Max({a, b}) >= y
    BY <1>1 DEF Max
  <1> QED BY <1>2

\* A handler that verifies knows its client.
LEMMA VerifierKnows ==
  ASSUME LoginTypeOK, NEW r \in Handlers, handler[r].step = "verify"
  PROVE  /\ handler[r].client \in Clients
         /\ handler[r] = [step |-> "verify", client |-> handler[r].client]
  <1>1. handler[r] \in {Free} \cup [step : {"register", "grant"}]
                         \cup [step : {"verify"}, client : Clients]
    BY DEF LoginTypeOK
  <1>2. handler[r] # Free /\ handler[r] \notin [step : {"register", "grant"}]
    BY DEF Free
  <1> QED BY <1>1, <1>2

\* One handler moves.
OnlyMoves(r) == \A q \in Handlers : q # r => handler'[q] = handler[q]

\* Who verifies for a client changes by the handler that moves.
LEMMA VerifierMoves ==
  ASSUME NEW r \in Handlers, OnlyMoves(r), NEW c \in Clients
  PROVE  /\ Cardinality(Verifying(c)) \in Nat /\ Cardinality(Verifying(c)') \in Nat
         /\ Cardinality(Verifying(c)') <= Cardinality(Handlers)
         /\ handler'[r] # [step |-> "verify", client |-> c] =>
              Cardinality(Verifying(c)')
                = IF handler[r] = [step |-> "verify", client |-> c]
                  THEN Cardinality(Verifying(c)) - 1 ELSE Cardinality(Verifying(c))
  <1>1. IsFiniteSet(Handlers)
    BY LoginAssumption
  <1>2. Verifying(c) \in SUBSET Handlers /\ Verifying(c)' \in SUBSET Handlers
    BY DEF Verifying
  <1>3. /\ IsFiniteSet(Verifying(c)) /\ IsFiniteSet(Verifying(c)')
        /\ Cardinality(Verifying(c)') <= Cardinality(Handlers)
    BY <1>1, <1>2, FS_Subset
  <1>4. Cardinality(Verifying(c)) \in Nat /\ Cardinality(Verifying(c)') \in Nat
    BY <1>3, FS_CardinalityType
  <1>5. ASSUME handler'[r] # [step |-> "verify", client |-> c]
        PROVE  Cardinality(Verifying(c)')
                 = IF handler[r] = [step |-> "verify", client |-> c]
                   THEN Cardinality(Verifying(c)) - 1 ELSE Cardinality(Verifying(c))
    <2>2. Verifying(c)' = Verifying(c) \ {r}
      BY <1>5 DEF Verifying, OnlyMoves
    <2>3. r \in Verifying(c) <=> handler[r] = [step |-> "verify", client |-> c]
      BY DEF Verifying
    <2> QED BY <1>3, <2>2, <2>3, FS_RemoveElement
  <1> QED BY <1>3, <1>4, <1>5

\* Room stays when a handler leaves and no record grows.
LEMMA RoomKept ==
  ASSUME LoginInv, NEW r \in Handlers, OnlyMoves(r),
         NEW c \in Clients, handler'[r] # [step |-> "verify", client |-> c],
         Len(failures'[c]) \in Nat, Len(failures'[c]) <= Len(failures[c])
  PROVE  RoomLeft(c)'
  <1>1. Len(failures[c]) \in Nat
    BY LenProperties DEF LoginInv, LoginTypeOK
  <1>2. /\ Cardinality(Verifying(c)) \in Nat /\ Cardinality(Verifying(c)') \in Nat
        /\ Cardinality(Verifying(c)') <= Cardinality(Verifying(c))
    BY VerifierMoves
  <1>3. /\ Len(failures[c]) + Cardinality(Verifying(c))
             <= MaxTries - 1 + Cardinality(Handlers)
        /\ MaxTries \in Nat /\ Cardinality(Handlers) \in Nat
    BY LoginAssumption, FS_CardinalityType DEF LoginInv, RoomLeft
  <1> QED BY <1>1, <1>2, <1>3 DEF RoomLeft

\* The types of the deques, as the lemmas on trimming want them.
LEMMA DequeType ==
  ASSUME LoginInv, NEW c \in Clients
  PROVE  /\ attempts[c] \in Seq(0 .. LoginWindow) /\ attempts[c] \in Seq(Nat)
         /\ failures[c] \in Seq(0 .. LoginWindow - 1) /\ failures[c] \in Seq(0 .. LoginWindow)
         /\ Aged(attempts[c]) /\ InWindow(attempts[c]) = failures[c]
  <1>1. /\ attempts[c] \in Seq(0 .. LoginWindow) /\ failures[c] \in Seq(0 .. LoginWindow - 1)
        /\ Aged(attempts[c]) /\ InWindow(attempts[c]) = failures[c]
    BY DEF LoginInv, LoginTypeOK
  <1>2. /\ 0 .. LoginWindow \subseteq Nat /\ 0 .. LoginWindow - 1 \subseteq 0 .. LoginWindow
    BY LoginAssumption
  <1> QED BY <1>1, <1>2, SeqMonotonic

\* A new session has the whole of its life before it.
LEMMA GrantOK ==
  ASSUME LoginInv, NEW t \in Fresh, Grant(t)
  PROVE  /\ DOMAIN sessions' \subseteq Tokens /\ \A u \in DOMAIN sessions' : sessions'[u] \in -1 .. Life
         /\ cookie' \in [Tokens -> 0 .. Life]
         /\ \A u \in Tokens : CookieOK(u)'
  <1>1. /\ t \in Tokens /\ t \notin DOMAIN sessions /\ Life \in 0 .. Life /\ Life > 0
        /\ DOMAIN sessions \subseteq Tokens /\ \A u \in DOMAIN sessions : sessions[u] \in -1 .. Life
        /\ cookie \in [Tokens -> 0 .. Life] /\ \A u \in Tokens : CookieOK(u)
    BY LoginAssumption DEF Fresh, LoginInv, LoginTypeOK
  <1>2. /\ DOMAIN sessions' = DOMAIN sessions \cup {t}
        /\ \A u \in DOMAIN sessions' : sessions'[u] = IF u = t THEN Life ELSE sessions[u]
        /\ cookie' = [cookie EXCEPT ![t] = Life]
    BY DEF Grant
  <1>3. \A u \in DOMAIN sessions' : sessions'[u] \in -1 .. Life
    BY <1>1, <1>2, LoginAssumption
  <1>4. cookie' \in [Tokens -> 0 .. Life]
    BY <1>1, <1>2
  <1>5. ASSUME NEW u \in Tokens PROVE CookieOK(u)'
    <2>1. CookieOK(u)
      BY <1>1
    <2> QED BY <1>1, <1>2, <2>1 DEF CookieOK
  <1> QED BY <1>1, <1>2, <1>3, <1>4, <1>5

-----------------------------------------------------------------------------
(* Every step keeps the invariant *)

Kinds == {Free} \cup [step : {"register", "grant"}] \cup [step : {"verify"}, client : Clients]

\* Sessions nobody touches.
LEMMA SessionsKept ==
  ASSUME LoginInv, UNCHANGED <<sessions, cookie>>
  PROVE  /\ DOMAIN sessions' \subseteq Tokens /\ \A u \in DOMAIN sessions' : sessions'[u] \in -1 .. Life
         /\ cookie' \in [Tokens -> 0 .. Life]
         /\ \A u \in Tokens : CookieOK(u)'
  BY DEF LoginInv, LoginTypeOK, CookieOK

\* Deques nobody touches.
LEMMA DequesKept ==
  ASSUME LoginInv, UNCHANGED <<attempts, failures>>
  PROVE  /\ attempts' \in [Clients -> Seq(0 .. LoginWindow)]
         /\ failures' \in [Clients -> Seq(0 .. LoginWindow - 1)]
         /\ \A c \in Clients : Aged(attempts'[c]) /\ InWindow(attempts'[c]) = failures'[c]
  BY DEF LoginInv, LoginTypeOK

\* A handler that goes on to anything but verifying, while no record grows.
LEMMA HandlerGoes ==
  ASSUME LoginInv, NEW r \in Handlers, NEW h \in {Free} \cup [step : {"register", "grant"}],
         handler' = [handler EXCEPT ![r] = h],
         \A c \in Clients : failures'[c] \in {failures[c], <<>>}
  PROVE  handler' \in [Handlers -> Kinds] /\ \A c \in Clients : RoomLeft(c)'
  <1>1. h \in Kinds /\ handler \in [Handlers -> Kinds]
    BY DEF LoginInv, LoginTypeOK, Kinds
  <1>2. handler' \in [Handlers -> Kinds] /\ OnlyMoves(r) /\ handler'[r] = h
    BY <1>1 DEF OnlyMoves
  <1>3. ASSUME NEW c \in Clients PROVE RoomLeft(c)'
    <2>1. h # [step |-> "verify", client |-> c]
      <3>1. h.step # "verify"
        BY DEF Free
      <3> QED BY <3>1
    <2>2. Len(failures[c]) \in Nat /\ Len(<<>>) = 0
      BY LenProperties, EmptySeq DEF LoginInv, LoginTypeOK
    <2>3. Len(failures'[c]) \in Nat /\ Len(failures'[c]) <= Len(failures[c])
      BY <2>2
    <2> QED BY <1>2, <2>1, <2>3, RoomKept
  <1> QED BY <1>2, <1>3

\* register and its conflict.
LEMMA RegisterStep ==
  ASSUME LoginInv, NEW r \in Handlers, RegisterLook(r) \/ RegisterStore(r)
  PROVE  LoginInv'
  <1>1. PICK h \in {Free} \cup [step : {"register", "grant"}] :
          handler' = [handler EXCEPT ![r] = h]
    BY DEF RegisterLook, RegisterStore
  <1>2. attempts' = attempts /\ failures' = failures
    BY DEF RegisterLook, RegisterStore
  <1>3. handler' \in [Handlers -> Kinds] /\ \A c \in Clients : RoomLeft(c)'
    BY <1>1, <1>2, HandlerGoes
  <1>4. owners' \in Nat /\ owners' <= 1
    BY DEF RegisterLook, RegisterStore, RoomForOwner, LoginInv, LoginTypeOK, OneOwner
  <1>5. UNCHANGED <<sessions, cookie>> \/ \E t \in Fresh : Grant(t)
    BY DEF RegisterLook, RegisterStore
  <1> QED BY <1>2, <1>3, <1>4, <1>5, SessionsKept, GrantOK, DequesKept
      DEF LoginInv, LoginTypeOK, OneOwner, Kinds

\* login asks the throttle: a client that is let through has room for one more.
LEMMA LoginLookStep ==
  ASSUME LoginInv, NEW r \in Handlers, LoginLook(r)
  PROVE  LoginInv'
  <1>1. PICK c \in Clients :
          /\ attempts' = [attempts EXCEPT ![c] = InWindow(@)]
          /\ handler' = [handler EXCEPT
               ![r] = IF Throttled(c) THEN Free ELSE [step |-> "verify", client |-> c]]
    BY DEF LoginLook
  <1>2. UNCHANGED <<owners, sessions, failures, cookie>>
    BY DEF LoginLook
  <1>3. /\ attempts \in [Clients -> Seq(0 .. LoginWindow)]
        /\ handler \in [Handlers -> Kinds]
        /\ failures \in [Clients -> Seq(0 .. LoginWindow - 1)]
    BY DEF LoginInv, LoginTypeOK, Kinds
  <1>4. \A d \in Clients : attempts'[d] = IF d = c THEN failures[c] ELSE attempts[d]
    BY <1>1, <1>3, DequeType
  <1>5. attempts' \in [Clients -> Seq(0 .. LoginWindow)]
    <2>1. failures[c] \in Seq(0 .. LoginWindow) /\ InWindow(attempts[c]) = failures[c]
      BY DequeType
    <2> QED BY <1>1, <1>3, <2>1
  <1>6. ASSUME NEW d \in Clients PROVE Aged(attempts'[d]) /\ InWindow(attempts'[d]) = failures'[d]
    <2>1. attempts[d] \in Seq(Nat) /\ Aged(attempts[d]) /\ InWindow(attempts[d]) = failures[d]
      BY DequeType
    <2>2. InWindow(failures[d]) = failures[d] /\ Aged(failures[d])
      BY <2>1, TrimmedTwice
    <2> QED BY <1>2, <1>4, <2>1, <2>2
  <1>7. /\ handler' \in [Handlers -> Kinds] /\ OnlyMoves(r)
        /\ handler'[r] = IF Throttled(c) THEN Free ELSE [step |-> "verify", client |-> c]
    <2>1. (IF Throttled(c) THEN Free ELSE [step |-> "verify", client |-> c]) \in Kinds
      BY DEF Kinds
    <2> QED BY <1>1, <1>3, <2>1 DEF OnlyMoves
  <1>8. ASSUME NEW d \in Clients PROVE RoomLeft(d)'
    <2>1. Len(failures[d]) \in Nat /\ Len(failures'[d]) = Len(failures[d])
      BY <1>2, DequeType, LenProperties
    <2>2. CASE ~Throttled(c) /\ d = c
      <3>1. Len(failures[c]) < MaxTries
        BY <2>1, <2>2, DequeType, LoginAssumption DEF Throttled
      <3>2. Cardinality(Verifying(d)') \in Nat /\ Cardinality(Verifying(d)') <= Cardinality(Handlers)
        BY <1>7, VerifierMoves
      <3>3. MaxTries \in Nat /\ Cardinality(Handlers) \in Nat
        BY LoginAssumption, FS_CardinalityType
      <3> QED BY <2>1, <2>2, <3>1, <3>2, <3>3 DEF RoomLeft
    <2>3. CASE Throttled(c) \/ d # c
      <3>1. handler'[r] # [step |-> "verify", client |-> d]
        <4>1. Free # [step |-> "verify", client |-> d]
          <5>1. Free.step # "verify"
            BY DEF Free
          <5> QED BY <5>1
        <4>2. d # c => [step |-> "verify", client |-> c] # [step |-> "verify", client |-> d]
          <5>1. [step |-> "verify", client |-> c].client = c
            OBVIOUS
          <5>2. [step |-> "verify", client |-> d].client = d
            OBVIOUS
          <5> QED BY <5>1, <5>2
        <4> QED BY <1>7, <2>3, <4>1, <4>2
      <3> QED BY <1>7, <2>1, <3>1, RoomKept
    <2> QED BY <2>2, <2>3
  <1> QED BY <1>2, <1>3, <1>5, <1>6, <1>7, <1>8, SessionsKept
      DEF LoginInv, LoginTypeOK, OneOwner, Kinds

\* A failure is counted for its client, and the sweep forgets none that still counts.
LEMMA RecordedOK ==
  ASSUME LoginInv, NEW c \in Clients
  PROVE  /\ Recorded(c) \in [Clients -> Seq(0 .. LoginWindow)]
         /\ \A d \in Clients :
              /\ Aged(Recorded(c)[d])
              /\ InWindow(Recorded(c)[d]) = IF d = c THEN Append(failures[c], 0) ELSE failures[d]
  <1> DEFINE table == [attempts EXCEPT ![c] = Append(@, 0)]
  <1>1. attempts \in [Clients -> Seq(0 .. LoginWindow)] /\ 0 \in 0 .. LoginWindow
    BY LoginAssumption DEF LoginInv, LoginTypeOK
  <1>2. Append(attempts[c], 0) \in Seq(0 .. LoginWindow)
    BY <1>1, AppendProperties
  <1>3. /\ table \in [Clients -> Seq(0 .. LoginWindow)]
        /\ \A d \in Clients : table[d] = IF d = c THEN Append(attempts[c], 0) ELSE attempts[d]
    BY <1>1, <1>2
  <1> HIDE DEF table
  <1>4. ASSUME NEW d \in Clients
        PROVE  /\ Aged(table[d])
               /\ InWindow(table[d]) = IF d = c THEN Append(failures[c], 0) ELSE failures[d]
    <2>1. attempts[d] \in Seq(Nat) /\ Aged(attempts[d]) /\ InWindow(attempts[d]) = failures[d]
      BY DequeType
    <2>2. /\ Aged(Append(attempts[d], 0))
          /\ InWindow(Append(attempts[d], 0)) = Append(failures[d], 0)
      BY <2>1, TrimmedAppend
    <2> QED BY <1>3, <2>1, <2>2
  <1>5. /\ Sweep(table) \in [Clients -> Seq(0 .. LoginWindow)]
        /\ \A d \in Clients : Aged(Sweep(table)[d]) /\ InWindow(Sweep(table)[d]) = InWindow(table[d])
    <2>1. \A d \in Clients : Sweep(table)[d] =
            IF table[d] # <<>> /\ Last(table[d]) >= LoginWindow THEN <<>> ELSE table[d]
      BY DEF Sweep
    <2>2. <<>> \in Seq(0 .. LoginWindow)
      BY EmptySeq
    <2>3. Sweep(table) \in [Clients -> Seq(0 .. LoginWindow)]
      BY <1>3, <2>2 DEF Sweep
    <2>4. ASSUME NEW d \in Clients
          PROVE  Aged(Sweep(table)[d]) /\ InWindow(Sweep(table)[d]) = InWindow(table[d])
      <3>1. table[d] \in Seq(Nat)
        <4>1. table[d] \in Seq(0 .. LoginWindow) /\ 0 .. LoginWindow \subseteq Nat
          BY <1>3, LoginAssumption
        <4> QED BY <4>1, SeqMonotonic
      <3>2. CASE table[d] # <<>> /\ Last(table[d]) >= LoginWindow
        BY <1>4, <2>1, <3>1, <3>2, TrimmedOut, TrimmedEmpty
      <3>3. CASE ~(table[d] # <<>> /\ Last(table[d]) >= LoginWindow)
        BY <1>4, <2>1, <3>3
      <3> QED BY <3>2, <3>3
    <2> QED BY <2>3, <2>4
  <1>6. Recorded(c) = table \/ Recorded(c) = Sweep(table)
    BY DEF Recorded, table
  <1> QED BY <1>3, <1>4, <1>5, <1>6

\* A failed login is recorded by a handler that no longer verifies.
LEMMA LoginFailsStep ==
  ASSUME LoginInv, NEW r \in Handlers, LoginFails(r)
  PROVE  LoginInv'
  <1>1. PICK c \in Clients : c = handler[r].client /\ handler[r] = [step |-> "verify", client |-> c]
    BY VerifierKnows DEF LoginFails, LoginInv
  <1>2. /\ attempts' = Recorded(c)
        /\ failures' = [failures EXCEPT ![c] = Append(@, 0)]
        /\ handler' = [handler EXCEPT ![r] = Free]
        /\ UNCHANGED <<owners, sessions, cookie>>
    BY <1>1 DEF LoginFails
  <1>3. /\ handler \in [Handlers -> Kinds] /\ Free \in Kinds
        /\ failures \in [Clients -> Seq(0 .. LoginWindow - 1)]
        /\ 0 \in 0 .. LoginWindow - 1
    BY LoginAssumption DEF LoginInv, LoginTypeOK, Kinds
  <1>4. /\ Append(failures[c], 0) \in Seq(0 .. LoginWindow - 1)
        /\ Len(Append(failures[c], 0)) = Len(failures[c]) + 1
    BY <1>3, AppendProperties
  <1>5. /\ failures' \in [Clients -> Seq(0 .. LoginWindow - 1)]
        /\ \A d \in Clients : failures'[d] = IF d = c THEN Append(failures[c], 0) ELSE failures[d]
    BY <1>2, <1>3, <1>4
  <1>6. /\ attempts' \in [Clients -> Seq(0 .. LoginWindow)]
        /\ \A d \in Clients : Aged(attempts'[d]) /\ InWindow(attempts'[d]) = failures'[d]
    BY <1>2, <1>5, RecordedOK
  <1>7. handler' \in [Handlers -> Kinds] /\ OnlyMoves(r) /\ handler'[r] = Free
    BY <1>2, <1>3 DEF OnlyMoves
  <1>8. ASSUME NEW d \in Clients PROVE RoomLeft(d)'
    <2>1. handler'[r] # [step |-> "verify", client |-> d]
      <3>1. Free.step # "verify"
        BY DEF Free
      <3> QED BY <1>7, <3>1
    <2>2. Len(failures[d]) \in Nat
      BY <1>3, LenProperties
    <2>3. CASE d # c
      BY <1>5, <1>7, <2>1, <2>2, <2>3, RoomKept
    <2>4. CASE d = c
      <3>1. /\ Cardinality(Verifying(c)) \in Nat
            /\ Cardinality(Verifying(c)') = Cardinality(Verifying(c)) - 1
        BY <1>1, <1>7, <2>1, <2>4, VerifierMoves
      <3>2. Len(failures'[c]) = Len(failures[c]) + 1
        BY <1>4, <1>5
      <3>3. /\ Len(failures[c]) + Cardinality(Verifying(c))
                 <= MaxTries - 1 + Cardinality(Handlers)
            /\ MaxTries \in Nat /\ Cardinality(Handlers) \in Nat
        BY LoginAssumption, FS_CardinalityType DEF LoginInv, RoomLeft
      <3> QED BY <2>2, <2>4, <3>1, <3>2, <3>3 DEF RoomLeft
    <2> QED BY <2>3, <2>4
  <1> QED BY <1>2, <1>5, <1>6, <1>7, <1>8, SessionsKept
      DEF LoginInv, LoginTypeOK, OneOwner, Kinds

\* A login that succeeds clears the record, and grants the session afterwards.
LEMMA SucceedStep ==
  ASSUME LoginInv, NEW r \in Handlers, LoginSucceeds(r) \/ LoginGrant(r)
  PROVE  LoginInv'
  <1>1. PICK h \in {Free} \cup [step : {"register", "grant"}] :
          handler' = [handler EXCEPT ![r] = h]
    BY DEF LoginSucceeds, LoginGrant
  <1>2. /\ owners' = owners
        /\ \/ UNCHANGED <<attempts, failures>>
           \/ /\ handler[r].step = "verify"
              /\ attempts' = [attempts EXCEPT ![handler[r].client] = <<>>]
              /\ failures' = [failures EXCEPT ![handler[r].client] = <<>>]
        /\ UNCHANGED <<sessions, cookie>> \/ \E t \in Fresh : Grant(t)
    BY DEF LoginSucceeds, LoginGrant
  <1>3. /\ attempts' \in [Clients -> Seq(0 .. LoginWindow)]
        /\ failures' \in [Clients -> Seq(0 .. LoginWindow - 1)]
        /\ \A c \in Clients : Aged(attempts'[c]) /\ InWindow(attempts'[c]) = failures'[c]
        /\ \A c \in Clients : failures'[c] \in {failures[c], <<>>}
    <2>1. CASE UNCHANGED <<attempts, failures>>
      BY <2>1, DequesKept
    <2>2. CASE ~UNCHANGED <<attempts, failures>>
      <3>1. PICK c \in Clients : /\ attempts' = [attempts EXCEPT ![c] = <<>>]
                                 /\ failures' = [failures EXCEPT ![c] = <<>>]
        BY <1>2, <2>2, VerifierKnows DEF LoginInv
      <3>2. /\ attempts \in [Clients -> Seq(0 .. LoginWindow)]
            /\ failures \in [Clients -> Seq(0 .. LoginWindow - 1)]
            /\ <<>> \in Seq(0 .. LoginWindow) /\ <<>> \in Seq(0 .. LoginWindow - 1)
        BY EmptySeq DEF LoginInv, LoginTypeOK
      <3>3. \A d \in Clients : /\ attempts'[d] = IF d = c THEN <<>> ELSE attempts[d]
                               /\ failures'[d] = IF d = c THEN <<>> ELSE failures[d]
        BY <3>1, <3>2
      <3>4. /\ attempts' \in [Clients -> Seq(0 .. LoginWindow)]
            /\ failures' \in [Clients -> Seq(0 .. LoginWindow - 1)]
        BY <3>1, <3>2
      <3> QED BY <3>3, <3>4, DequeType, TrimmedEmpty
    <2> QED BY <2>1, <2>2
  <1>4. handler' \in [Handlers -> Kinds] /\ \A c \in Clients : RoomLeft(c)'
    BY <1>1, <1>3, HandlerGoes
  <1>5. /\ DOMAIN sessions' \subseteq Tokens /\ \A u \in DOMAIN sessions' : sessions'[u] \in -1 .. Life
        /\ cookie' \in [Tokens -> 0 .. Life]
        /\ \A u \in Tokens : CookieOK(u)'
    BY <1>2, SessionsKept, GrantOK
  <1> QED BY <1>2, <1>3, <1>4, <1>5 DEF LoginInv, LoginTypeOK, OneOwner, Kinds

\* logout and the daily cleanup end no session but those they are for.
LEMMA EndStep ==
  ASSUME LoginInv, DropSessions \/ \E t \in Tokens : Logout(t)
  PROVE  LoginInv'
  <1>1. UNCHANGED <<owners, attempts, handler, failures>>
    BY DEF DropSessions, Logout
  <1>2. /\ DOMAIN sessions \subseteq Tokens /\ \A u \in DOMAIN sessions : sessions[u] \in -1 .. Life
        /\ cookie \in [Tokens -> 0 .. Life] /\ \A u \in Tokens : CookieOK(u)
        /\ 0 \in 0 .. Life
    BY LoginAssumption DEF LoginInv, LoginTypeOK
  <1>3. /\ DOMAIN sessions' \subseteq Tokens /\ \A u \in DOMAIN sessions' : sessions'[u] \in -1 .. Life
        /\ cookie' \in [Tokens -> 0 .. Life]
        /\ \A u \in Tokens : CookieOK(u)'
    <2>1. CASE DropSessions
      <3>1. /\ DOMAIN sessions' = {u \in DOMAIN sessions : ~(sessions[u] < 0)}
            /\ \A u \in DOMAIN sessions' : sessions'[u] = sessions[u]
            /\ cookie' = cookie
        BY <2>1 DEF DropSessions, Ended
      <3>2. ASSUME NEW u \in Tokens PROVE CookieOK(u)'
        <4>1. CookieOK(u)
          BY <1>2
        <4> QED BY <1>2, <3>1, <4>1 DEF CookieOK
      <3> QED BY <1>2, <3>1, <3>2
    <2>2. ASSUME NEW t \in Tokens, Logout(t)
          PROVE  /\ DOMAIN sessions' \subseteq Tokens
                 /\ \A u \in DOMAIN sessions' : sessions'[u] \in -1 .. Life
                 /\ cookie' \in [Tokens -> 0 .. Life]
                 /\ \A u \in Tokens : CookieOK(u)'
      <3>1. /\ DOMAIN sessions' = DOMAIN sessions \ {t}
            /\ \A u \in DOMAIN sessions' : sessions'[u] = sessions[u]
            /\ cookie' = [cookie EXCEPT ![t] = 0]
        BY <2>2 DEF Logout
      <3>2. ASSUME NEW u \in Tokens PROVE CookieOK(u)'
        <4>1. CookieOK(u)
          BY <1>2
        <4> QED BY <1>2, <3>1, <4>1 DEF CookieOK
      <3> QED BY <1>2, <3>1, <3>2
    <2> QED BY <2>1, <2>2
  <1>4. \A c \in Clients : RoomLeft(c)'
    BY <1>1 DEF LoginInv, RoomLeft, Verifying
  <1> QED BY <1>1, <1>3, <1>4, DequesKept DEF LoginInv, LoginTypeOK, OneOwner

\* Empty deques and free handlers are where the process begins.
LEMMA FreshProcess ==
  ASSUME attempts' = [c \in Clients |-> <<>>], failures' = [c \in Clients |-> <<>>],
         handler' = [r \in Handlers |-> Free]
  PROVE  /\ attempts' \in [Clients -> Seq(0 .. LoginWindow)]
         /\ failures' \in [Clients -> Seq(0 .. LoginWindow - 1)]
         /\ handler' \in [Handlers -> Kinds]
         /\ \A c \in Clients : Aged(attempts'[c]) /\ InWindow(attempts'[c]) = failures'[c]
         /\ \A c \in Clients : RoomLeft(c)'
  <1>1. /\ <<>> \in Seq(0 .. LoginWindow) /\ <<>> \in Seq(0 .. LoginWindow - 1) /\ Len(<<>>) = 0
        /\ Free \in Kinds
    BY EmptySeq DEF Kinds
  <1>2. ASSUME NEW c \in Clients PROVE RoomLeft(c)'
    <2>1. Free # [step |-> "verify", client |-> c]
      <3>1. Free.step # "verify"
        BY DEF Free
      <3> QED BY <3>1
    <2>2. Verifying(c)' = {}
      BY <2>1 DEF Verifying
    <2>3. Cardinality(Verifying(c)') = 0
      BY <2>2, FS_EmptySet
    <2>4. Cardinality(Handlers) \in Nat /\ MaxTries \in Nat \ {0}
      BY LoginAssumption, FS_CardinalityType
    <2>5. Len(failures'[c]) = 0
      BY <1>1
    <2> QED BY <2>3, <2>4, <2>5 DEF RoomLeft
  <1> QED BY <1>1, <1>2, TrimmedEmpty

\* A restart forgets the throttle and what the handlers were about.
LEMMA RestartStep ==
  ASSUME LoginInv, LoginRestart
  PROVE  LoginInv'
  BY FreshProcess, SessionsKept
  DEF LoginRestart, LoginInv, LoginTypeOK, OneOwner, Kinds

\* Time takes from the deques, the record, the sessions and the cookies alike.
LEMMA TickStep ==
  ASSUME LoginInv, LoginTick
  PROVE  LoginInv'
  <1>1. UNCHANGED <<owners, handler>>
    BY DEF LoginTick
  <1>2. \A c \in Clients : attempts'[c] = Older(attempts[c]) /\ failures'[c] = OlderGhost(failures[c])
    BY DEF LoginTick, Older, OlderGhost
  <1>3. ASSUME NEW c \in Clients
        PROVE  /\ attempts'[c] \in Seq(0 .. LoginWindow) /\ Aged(attempts'[c])
               /\ failures'[c] \in Seq(0 .. LoginWindow - 1)
               /\ InWindow(attempts'[c]) = failures'[c]
               /\ Len(failures'[c]) <= Len(failures[c])
    <2>1. /\ attempts[c] \in Seq(0 .. LoginWindow) /\ Aged(attempts[c])
          /\ InWindow(attempts[c]) = failures[c]
      BY DequeType
    <2>2. /\ Older(attempts[c]) \in Seq(0 .. LoginWindow) /\ Aged(Older(attempts[c]))
          /\ InWindow(Older(attempts[c])) = OlderGhost(failures[c])
          /\ OlderGhost(failures[c]) \in Seq(0 .. LoginWindow - 1)
          /\ Len(OlderGhost(failures[c])) <= Len(failures[c])
      BY <2>1, TrimmedTick, Zenon
    <2> QED BY <1>2, <2>2, Zenon
  <1>4. /\ attempts' \in [Clients -> Seq(0 .. LoginWindow)]
        /\ failures' \in [Clients -> Seq(0 .. LoginWindow - 1)]
    <2>1. attempts' = [c \in Clients |-> attempts'[c]] /\ failures' = [c \in Clients |-> failures'[c]]
      BY DEF LoginTick
    <2> QED BY <1>3, <2>1
  <1>5. ASSUME NEW c \in Clients PROVE RoomLeft(c)'
    <2>1. Cardinality(Verifying(c)') = Cardinality(Verifying(c)) /\ Cardinality(Verifying(c)) \in Nat
      <3>1. Verifying(c)' = Verifying(c) /\ Verifying(c) \in SUBSET Handlers
        BY <1>1 DEF Verifying
      <3>2. IsFiniteSet(Handlers)
        BY LoginAssumption
      <3> QED BY <3>1, <3>2, FS_Subset, FS_CardinalityType
    <2>2. Len(failures[c]) \in Nat /\ Len(failures'[c]) \in Nat /\ Len(failures'[c]) <= Len(failures[c])
      BY <1>3, DequeType, LenProperties
    <2>3. /\ Len(failures[c]) + Cardinality(Verifying(c)) <= MaxTries - 1 + Cardinality(Handlers)
          /\ MaxTries \in Nat /\ Cardinality(Handlers) \in Nat
      BY LoginAssumption, FS_CardinalityType DEF LoginInv, RoomLeft
    <2> QED BY <2>1, <2>2, <2>3 DEF RoomLeft
  <1>6. /\ DOMAIN sessions \subseteq Tokens /\ \A u \in DOMAIN sessions : sessions[u] \in -1 .. Life
        /\ cookie \in [Tokens -> 0 .. Life] /\ Life \in Nat
    BY LoginAssumption DEF LoginInv, LoginTypeOK
  <1>7. /\ DOMAIN sessions' = DOMAIN sessions
        /\ \A u \in DOMAIN sessions :
             sessions'[u] = IF -1 >= sessions[u] - 1 THEN -1 ELSE sessions[u] - 1
    <2>1. ASSUME NEW u \in DOMAIN sessions
          PROVE  Max({-1, sessions[u] - 1}) = IF -1 >= sessions[u] - 1 THEN -1 ELSE sessions[u] - 1
      <3>1. sessions[u] - 1 \in Int /\ -1 \in Int
        BY <1>6
      <3> QED BY <3>1, MaxOfTwo
    <2> QED BY <2>1 DEF LoginTick
  <1>8. /\ \A u \in Tokens : cookie'[u] = IF 0 >= cookie[u] - 1 THEN 0 ELSE cookie[u] - 1
        /\ cookie' = [u \in Tokens |-> cookie'[u]]
    <2>1. \A u \in Tokens : cookie[u] - 1 \in Int
      BY <1>6
    <2> QED BY <2>1, MaxOfTwo DEF LoginTick
  <1>9. \A u \in DOMAIN sessions' : sessions'[u] \in -1 .. Life
    BY <1>6, <1>7
  <1>10. cookie' \in [Tokens -> 0 .. Life]
    <2>1. \A u \in Tokens : cookie'[u] \in 0 .. Life
      BY <1>6, <1>8
    <2> QED BY <1>8, <2>1
  <1>11. ASSUME NEW u \in Tokens PROVE CookieOK(u)'
    <2>1. CookieOK(u)
      BY DEF LoginInv
    <2> QED BY <1>6, <1>7, <1>8, <2>1 DEF CookieOK
  <1> QED BY <1>1, <1>3, <1>4, <1>5, <1>6, <1>7, <1>9, <1>10, <1>11
      DEF LoginInv, LoginTypeOK, OneOwner

\* Every step of the specification keeps the invariant.
LEMMA LoginStep ==
  ASSUME LoginInv, [LoginNext]_loginVars
  PROVE  LoginInv'
  <1>1. CASE UNCHANGED loginVars
    BY <1>1 DEF loginVars, LoginInv, LoginTypeOK, OneOwner, RoomLeft, Verifying, CookieOK
  <1>2. CASE LoginNext
    BY <1>2, RegisterStep, LoginLookStep, LoginFailsStep, SucceedStep, EndStep, RestartStep, TickStep
    DEF LoginNext
  <1> QED BY <1>1, <1>2

\* It holds of an empty database and a fresh process.
LEMMA LoginStart ==
  ASSUME LoginInit
  PROVE  LoginInv
  <1>1. /\ <<>> \in Seq(0 .. LoginWindow) /\ <<>> \in Seq(0 .. LoginWindow - 1) /\ Len(<<>>) = 0
        /\ Free \in Kinds /\ 0 \in 0 .. Life
    BY EmptySeq, LoginAssumption DEF Kinds
  <1>2. ASSUME NEW c \in Clients PROVE RoomLeft(c)
    <2>1. Free # [step |-> "verify", client |-> c]
      <3>1. Free.step # "verify"
        BY DEF Free
      <3> QED BY <3>1
    <2>2. Verifying(c) = {} /\ Len(failures[c]) = 0
      BY <1>1, <2>1 DEF Verifying, LoginInit
    <2>3. Cardinality(Verifying(c)) = 0
      BY <2>2, FS_EmptySet
    <2>4. Cardinality(Handlers) \in Nat /\ MaxTries \in Nat \ {0}
      BY LoginAssumption, FS_CardinalityType
    <2> QED BY <2>2, <2>3, <2>4 DEF RoomLeft
  <1>3. \A c \in Clients : Aged(attempts[c]) /\ InWindow(attempts[c]) = failures[c]
    BY TrimmedEmpty DEF LoginInit
  <1>4. LoginTypeOK
    BY <1>1 DEF LoginInit, LoginTypeOK, Kinds
  <1>5. \A t \in Tokens : CookieOK(t)
    BY DEF LoginInit, CookieOK
  <1> QED BY <1>2, <1>3, <1>4, <1>5 DEF LoginInv, LoginInit, OneOwner

(* The invariant behind LoginsHold: deques run from old to new, a handler that *)
(* is past its look has a place reserved in the count of its client, and a     *)
(* cookie ends when its row does.                                              *)
THEOREM LoginCorrect == LoginSpec => []LoginInv
  <1>1. LoginInit => LoginInv
    BY LoginStart
  <1>2. LoginInv /\ [LoginNext]_loginVars => LoginInv'
    BY LoginStep
  <1> QED BY <1>1, <1>2, PTL DEF LoginSpec

\* What the invariant says of the throttle and of the sessions.
LEMMA LoginsRight ==
  ASSUME LoginInv
  PROVE  LoginsHold
  <1>1. ThrottleExact
    BY DEF LoginInv, ThrottleExact
  <1>2. ASSUME NEW c \in Clients
        PROVE  Len(failures[c]) <= MaxTries - 1 + Cardinality(Handlers)
    <2>1. Len(failures[c]) \in Nat
      BY DequeType, LenProperties
    <2>2. Cardinality(Verifying(c)) \in Nat
      <3>1. Verifying(c) \in SUBSET Handlers /\ IsFiniteSet(Handlers)
        BY LoginAssumption DEF Verifying
      <3> QED BY <3>1, FS_Subset, FS_CardinalityType
    <2>3. /\ Len(failures[c]) + Cardinality(Verifying(c)) <= MaxTries - 1 + Cardinality(Handlers)
          /\ MaxTries \in Nat /\ Cardinality(Handlers) \in Nat
      BY LoginAssumption, FS_CardinalityType DEF LoginInv, RoomLeft
    <2> QED BY <2>1, <2>2, <2>3
  <1>3. ASSUME NEW t \in Tokens PROVE Authenticates(t) <=> cookie[t] > 0
    <2>1. CookieOK(t) /\ cookie[t] \in 0 .. Life
      BY DEF LoginInv, LoginTypeOK
    <2> QED BY <2>1 DEF CookieOK, Authenticates
  <1> QED BY <1>1, <1>2, <1>3 DEF LoginInv, LoginsHold, TriesBounded, SessionExact

(* There is at most one owner, the throttle counts exactly the failures of the *)
(* window and bounds the tries by the limit and the handlers already past      *)
(* their look, and a cookie works until its end or its logout and never after: *)
(* for any number of clients, handlers and cookies.                            *)
THEOREM LoginsAreRight == LoginSpec => []LoginsHold
  <1>1. LoginInv => LoginsHold
    BY LoginsRight
  <1> QED BY <1>1, LoginCorrect, PTL
=============================================================================
