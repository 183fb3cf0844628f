----------------------------- MODULE AiCallsProofs -----------------------------
(***************************************************************************)
(* Proofs about AiCalls and NewsDay: whatever the number of callers, the   *)
(* chains and the limits, the quota is kept.                               *)
(*                                                                         *)
(* The invariant CallsInv adds to the limits what makes them inductive: a  *)
(* request under way holds a reservation at most Slack older than itself   *)
(* (Sent), everybody else holds none (Free), nobody stands at an await     *)
(* that time could pass at with a transaction open (Acting, CallOK), and   *)
(* what the provider has served of each age is known to the log or to the  *)
(* reservations of the dead with Slack to spare (Known).                   *)
(*                                                                         *)
(* Between is a recursive function.  What it computes follows from CountUp *)
(* by counting up a set of numbers for which it is known.                  *)
(***************************************************************************)
EXTENDS NewsDay, FiniteSetTheorems, WellFoundedInduction, TLAPS

-----------------------------------------------------------------------------
(* Sums of rows *)

\* A set of numbers that holds 0 and with every number the next holds all.
LEMMA CountUp ==
  ASSUME NEW S \in SUBSET Nat, 0 \in S, \A n \in S : n + 1 \in S
  PROVE  S = Nat
  <1>1. SUFFICES ASSUME NEW z \in Nat \ S PROVE FALSE
    OBVIOUS
  <1>2. PICK x \in Nat \ S : \A y \in Nat \ S : ~(<<y, x>> \in OpToRel(<, Nat))
    BY <1>1, NatLessThanWellFounded, WFMin, Zenon
  <1>7. x \in Nat \ S
    OBVIOUS
  <1>3. x - 1 \in Nat /\ x - 1 < x /\ (x - 1) + 1 = x
    BY <1>7
  <1>4. x - 1 \notin S
    BY <1>7, <1>3
  <1>5. <<x - 1, x>> \in Nat \X Nat /\ <<x - 1, x>>[1] < <<x - 1, x>>[2]
    BY <1>7, <1>3
  <1>6. <<x - 1, x>> \in OpToRel(<, Nat)
    BY <1>5, Zenon DEF OpToRel
  <1> QED BY <1>2, <1>3, <1>4, <1>6, Zenon

\* The running sum that Between chooses exists.
LEMMA RunningSum ==
  ASSUME NEW rows, NEW k \in Nat
  PROVE  \E f : f = [a \in -1 .. k - 1 |-> IF a < 0 THEN 0 ELSE f[a - 1] + rows[a]]
  <1> DEFINE Body(f, n) == [a \in -1 .. n - 1 |-> IF a < 0 THEN 0 ELSE f[a - 1] + rows[a]]
             S == {n \in Nat : \E f : f = Body(f, n)}
  <1>1. 0 \in S
    <2>1. PICK f : f = [a \in -1 .. -1 |-> 0]
      OBVIOUS
    <2>2. f = Body(f, 0)
      BY <2>1
    <2> QED BY <2>2
  <1>2. ASSUME NEW n \in S PROVE n + 1 \in S
    <2>1. PICK f : f = Body(f, n)
      OBVIOUS
    <2>2. PICK g : g = [a \in -1 .. n |-> IF a < 0 THEN 0 ELSE f[a - 1] + rows[a]]
      OBVIOUS
    <2>3. ASSUME NEW a \in -1 .. n - 1 PROVE g[a] = f[a]
      BY <2>1, <2>2
    <2>4. ASSUME NEW a \in -1 .. n
          PROVE  g[a] = IF a < 0 THEN 0 ELSE g[a - 1] + rows[a]
      <3>1. CASE a < 0
        BY <2>2, <3>1
      <3>2. CASE ~(a < 0)
        <4>1. a - 1 \in -1 .. n - 1
          BY <3>2
        <4> QED BY <2>2, <2>3, <3>2, <4>1
      <3> QED BY <3>1, <3>2
    <2>5. g = Body(g, n + 1)
      <3>1. (n + 1) - 1 = n
        OBVIOUS
      <3>2. g = [a \in -1 .. n |-> IF a < 0 THEN 0 ELSE g[a - 1] + rows[a]]
        BY <2>2, <2>4
      <3> QED BY <3>1, <3>2
    <2> QED BY <2>5
  <1>3. S = Nat
    <2> HIDE DEF S
    <2>1. S \in SUBSET Nat
      BY DEF S
    <2> QED BY <1>1, <1>2, <2>1, CountUp
  <1> QED BY <1>3

\* What it chooses.
LEMMA BetweenIs ==
  ASSUME NEW rows, NEW k \in Nat
  PROVE  \E f : /\ f = [a \in -1 .. k - 1 |-> IF a < 0 THEN 0 ELSE f[a - 1] + rows[a]]
                /\ Between(rows, 0, k - 1) = f[k - 1]
  <1> DEFINE f == CHOOSE f : f = [a \in 0 - 1 .. k - 1 |-> IF a < 0 THEN 0 ELSE f[a - 1] + rows[a]]
  <1>1. 0 - 1 = -1
    OBVIOUS
  <1>2. f = [a \in 0 - 1 .. k - 1 |-> IF a < 0 THEN 0 ELSE f[a - 1] + rows[a]]
    BY <1>1, RunningSum
  <1>3. Between(rows, 0, k - 1) = f[k - 1]
    BY DEF Between
  <1> QED BY <1>1, <1>2, <1>3

\* A sum adds one age after the other.
LEMMA BetweenStep ==
  ASSUME NEW rows
  PROVE  /\ Between(rows, 0, -1) = 0
         /\ \A k \in Nat : Between(rows, 0, k) = Between(rows, 0, k - 1) + rows[k]
  <1>1. Between(rows, 0, -1) = 0
    <2>1. PICK f : /\ f = [a \in -1 .. 0 - 1 |-> IF a < 0 THEN 0 ELSE f[a - 1] + rows[a]]
                   /\ Between(rows, 0, 0 - 1) = f[0 - 1]
      BY BetweenIs
    <2>2. 0 - 1 = -1 /\ f[-1] = 0
      BY <2>1
    <2> QED BY <2>1, <2>2
  <1>2. ASSUME NEW k \in Nat
        PROVE  Between(rows, 0, k) = Between(rows, 0, k - 1) + rows[k]
    <2>1. PICK f : /\ f = [a \in -1 .. k - 1 |-> IF a < 0 THEN 0 ELSE f[a - 1] + rows[a]]
                   /\ Between(rows, 0, k - 1) = f[k - 1]
      BY BetweenIs
    <2>3. (k + 1) - 1 = k /\ k + 1 \in Nat
      OBVIOUS
    <2>2. PICK g : /\ g = [a \in -1 .. (k + 1) - 1 |-> IF a < 0 THEN 0 ELSE g[a - 1] + rows[a]]
                   /\ Between(rows, 0, (k + 1) - 1) = g[(k + 1) - 1]
      BY <2>3, BetweenIs, Zenon
    <2> DEFINE S == {n \in Nat : n <= k => g[n - 1] = f[n - 1]}
    <2>4. 0 \in S
      <3>1. 0 - 1 \in -1 .. k - 1 /\ 0 - 1 \in -1 .. k /\ 0 - 1 < 0
        OBVIOUS
      <3> QED BY <2>1, <2>2, <2>3, <3>1
    <2>5. ASSUME NEW n \in S PROVE n + 1 \in S
      <3>1. CASE n + 1 <= k
        <4>1. n \in -1 .. k - 1 /\ n \in -1 .. k /\ ~(n < 0) /\ (n + 1) - 1 = n
          BY <3>1
        <4>2. g[n] = g[n - 1] + rows[n] /\ f[n] = f[n - 1] + rows[n] /\ g[n - 1] = f[n - 1]
          BY <2>1, <2>2, <2>3, <3>1, <4>1
        <4> QED BY <4>1, <4>2
      <3>2. CASE ~(n + 1 <= k)
        BY <3>2
      <3> QED BY <3>1, <3>2
    <2>6. k \in S
      <3> HIDE DEF S
      <3>1. S \in SUBSET Nat
        BY DEF S
      <3> QED BY <2>4, <2>5, <3>1, CountUp
    <2>7. g[k - 1] = f[k - 1]
      BY <2>6
    <2>8. k \in -1 .. k /\ ~(k < 0)
      OBVIOUS
    <2>9. g[k] = g[k - 1] + rows[k]
      BY <2>2, <2>3, <2>8
    <2> QED BY <2>1, <2>2, <2>3, <2>7, <2>9
  <1> QED BY <1>1, <1>2

\* Rows per age.
Rows == [Ages -> Nat]

\* There is an age of a day, and one beyond the cleanup.
LEMMA AgesAre ==
  /\ Oldest \in Nat /\ Oldest >= Day /\ Oldest > Cleanup /\ Oldest >= 1
  /\ Day \in Nat \ {0} /\ Minute \in Nat \ {0} /\ Cleanup \in Nat /\ Slack \in Nat /\ Flight \in Nat
  /\ Minute <= Cleanup /\ Flight + Slack <= Cleanup /\ MaxAttempts \in Nat \ {0}
  /\ Ages = 0 .. Oldest
  <1>1. /\ Day \in Nat \ {0} /\ Minute \in Nat \ {0} /\ MaxAttempts \in Nat \ {0}
        /\ Cleanup \in Nat /\ Slack \in Nat /\ Flight \in Nat
        /\ Minute <= Cleanup /\ Flight + Slack <= Cleanup
    BY CallsAssumption
  <1>2. Oldest \in Nat /\ Oldest >= Day /\ Oldest > Cleanup /\ Oldest >= 1
    BY <1>1 DEF Oldest
  <1> QED BY <1>1, <1>2 DEF Ages

\* A sum of rows is a number, and that of more ages is not smaller.
LEMMA BetweenType ==
  ASSUME NEW rows \in Rows
  PROVE  \A k \in -1 .. Oldest :
           /\ Between(rows, 0, k) \in Nat
           /\ k >= 0 => /\ Between(rows, 0, k) = Between(rows, 0, k - 1) + rows[k]
                        /\ Between(rows, 0, k - 1) <= Between(rows, 0, k)
  <1> DEFINE S == {n \in Nat : n - 1 <= Oldest => Between(rows, 0, n - 1) \in Nat}
  <1>1. 0 \in S
    <2>1. 0 - 1 = -1
      OBVIOUS
    <2> QED BY <2>1, BetweenStep
  <1>2. ASSUME NEW n \in S PROVE n + 1 \in S
    <2>1. CASE n <= Oldest
      <3>1. n \in Ages /\ n - 1 <= Oldest /\ (n + 1) - 1 = n /\ n \in Nat
        BY <2>1, AgesAre
      <3>2. rows[n] \in Nat /\ Between(rows, 0, n - 1) \in Nat
        BY <3>1 DEF Rows
      <3>3. Between(rows, 0, n) = Between(rows, 0, n - 1) + rows[n]
        BY <3>1, BetweenStep
      <3>4. Between(rows, 0, n) \in Nat
        BY <3>2, <3>3
      <3> QED BY <3>1, <3>4
    <2>2. CASE ~(n <= Oldest)
      BY <2>2, AgesAre
    <2> QED BY <2>1, <2>2
  <1>3. S = Nat
    <2> HIDE DEF S
    <2>1. S \in SUBSET Nat
      BY DEF S
    <2> QED BY <1>1, <1>2, <2>1, CountUp
  <1>4. ASSUME NEW k \in -1 .. Oldest PROVE Between(rows, 0, k) \in Nat
    <2>1. k + 1 \in Nat /\ (k + 1) - 1 = k /\ k <= Oldest
      BY AgesAre
    <2>2. k + 1 \in S
      BY <1>3, <2>1
    <2> QED BY <2>1, <2>2
  <1>5. ASSUME NEW k \in -1 .. Oldest, k >= 0
        PROVE  /\ Between(rows, 0, k) = Between(rows, 0, k - 1) + rows[k]
               /\ Between(rows, 0, k - 1) <= Between(rows, 0, k)
    <2>1. k \in Nat /\ k \in Ages /\ k - 1 \in -1 .. Oldest
      BY <1>5, AgesAre
    <2>2. rows[k] \in Nat /\ Between(rows, 0, k - 1) \in Nat
      BY <1>4, <2>1 DEF Rows
    <2>3. Between(rows, 0, k) = Between(rows, 0, k - 1) + rows[k]
      BY <2>1, BetweenStep
    <2> QED BY <2>2, <2>3
  <1> QED BY <1>4, <1>5

\* Fewer rows of each age are fewer in all.
LEMMA BetweenFewer ==
  ASSUME NEW few \in Rows, NEW rows \in Rows, NEW k \in -1 .. Oldest,
         \A a \in 0 .. k : few[a] <= rows[a]
  PROVE  Between(few, 0, k) <= Between(rows, 0, k)
  <1> DEFINE S == {n \in Nat : n - 1 <= k => Between(few, 0, n - 1) <= Between(rows, 0, n - 1)}
  <1>1. 0 \in S
    <2>1. 0 - 1 = -1
      OBVIOUS
    <2> QED BY <2>1, BetweenStep
  <1>2. ASSUME NEW n \in S PROVE n + 1 \in S
    <2>1. CASE n <= k
      <3>1. n \in Nat /\ n \in 0 .. k /\ n \in -1 .. Oldest /\ n - 1 \in -1 .. Oldest
            /\ n >= 0 /\ (n + 1) - 1 = n /\ n \in Ages
        BY <2>1, AgesAre
      <3>2. few[n] \in Nat /\ rows[n] \in Nat /\ few[n] <= rows[n]
        BY <3>1 DEF Rows
      <3>3. /\ Between(few, 0, n - 1) \in Nat /\ Between(rows, 0, n - 1) \in Nat
            /\ Between(few, 0, n) = Between(few, 0, n - 1) + few[n]
            /\ Between(rows, 0, n) = Between(rows, 0, n - 1) + rows[n]
        BY <3>1, BetweenType
      <3>4. Between(few, 0, n - 1) <= Between(rows, 0, n - 1)
        BY <3>1, <2>1
      <3>5. Between(few, 0, n) <= Between(rows, 0, n)
        BY <3>2, <3>3, <3>4
      <3> QED BY <3>1, <3>5
    <2>2. CASE ~(n <= k)
      BY <2>2
    <2> QED BY <2>1, <2>2
  <1>3. S = Nat
    <2> HIDE DEF S
    <2>1. S \in SUBSET Nat
      BY DEF S
    <2> QED BY <1>1, <1>2, <2>1, CountUp
  <1>4. k + 1 \in Nat /\ (k + 1) - 1 = k /\ k <= k
    BY AgesAre
  <1>5. k + 1 \in S
    BY <1>3, <1>4
  <1> QED BY <1>4, <1>5

\* Rows that are a tick older are summed a tick later.
LEMMA BetweenOlder ==
  ASSUME NEW old \in Rows, NEW rows \in Rows, NEW k \in 0 .. Oldest,
         old[0] = 0, \A a \in 1 .. k : old[a] = rows[a - 1]
  PROVE  Between(old, 0, k) = Between(rows, 0, k - 1)
  <1> DEFINE S == {n \in Nat : n <= k => Between(old, 0, n) = Between(rows, 0, n - 1)}
  <1>1. 0 \in S
    <2>1. Between(old, 0, 0) = Between(old, 0, 0 - 1) + old[0]
      BY BetweenStep
    <2>2. 0 - 1 = -1 /\ Between(old, 0, -1) = 0 /\ Between(rows, 0, -1) = 0
      BY BetweenStep
    <2> QED BY <2>1, <2>2
  <1>2. ASSUME NEW n \in S PROVE n + 1 \in S
    <2>1. CASE n + 1 <= k
      <3>1. /\ n \in Nat /\ n + 1 \in 1 .. k /\ n + 1 \in -1 .. Oldest /\ n \in -1 .. Oldest
            /\ n >= 0 /\ n + 1 >= 0 /\ (n + 1) - 1 = n
        BY <2>1, AgesAre
      <3>2. Between(old, 0, n + 1) = Between(old, 0, n) + old[n + 1]
        BY <3>1, BetweenType
      <3>3. Between(rows, 0, n) = Between(rows, 0, n - 1) + rows[n]
        BY <3>1, BetweenType
      <3>4. old[n + 1] = rows[n]
        BY <3>1
      <3>5. Between(old, 0, n) = Between(rows, 0, n - 1)
        BY <2>1, <3>1
      <3> QED BY <3>1, <3>2, <3>3, <3>4, <3>5
    <2>2. CASE ~(n + 1 <= k)
      BY <2>2
    <2> QED BY <2>1, <2>2
  <1>3. S = Nat
    <2> HIDE DEF S
    <2>1. S \in SUBSET Nat
      BY DEF S
    <2> QED BY <1>1, <1>2, <2>1, CountUp
  <1>4. k \in Nat /\ k <= k
    BY AgesAre
  <1>5. k \in S
    BY <1>3, <1>4
  <1> QED BY <1>4, <1>5

\* One row more is one more in every sum that reaches its age.
LEMMA BetweenCounted ==
  ASSUME NEW rows \in Rows, NEW b \in Ages, NEW k \in -1 .. Oldest
  PROVE  /\ [rows EXCEPT ![b] = @ + 1] \in Rows
         /\ Between([rows EXCEPT ![b] = @ + 1], 0, k)
              = Between(rows, 0, k) + (IF b <= k THEN 1 ELSE 0)
  <1>1. PICK more : more = [rows EXCEPT ![b] = @ + 1]
    OBVIOUS
  <1>2. more \in Rows /\ \A a \in Ages : more[a] = IF a = b THEN rows[a] + 1 ELSE rows[a]
    BY <1>1 DEF Rows
  <1> DEFINE S == {n \in Nat : n - 1 <= k => Between(more, 0, n - 1)
                                   = Between(rows, 0, n - 1) + (IF b <= n - 1 THEN 1 ELSE 0)}
  <1>3. 0 \in S
    <2>1. 0 - 1 = -1 /\ ~(b <= -1)
      BY AgesAre
    <2> QED BY <2>1, BetweenStep
  <1>4. ASSUME NEW n \in S PROVE n + 1 \in S
    <2>1. CASE n <= k
      <3>1. /\ n \in Nat /\ n \in -1 .. Oldest /\ n - 1 \in -1 .. Oldest
            /\ n >= 0 /\ (n + 1) - 1 = n /\ n \in Ages /\ b \in Nat
        BY <2>1, AgesAre
      <3>2. rows[n] \in Nat /\ more[n] = IF n = b THEN rows[n] + 1 ELSE rows[n]
        BY <1>2, <3>1 DEF Rows
      <3>3. /\ Between(more, 0, n - 1) \in Nat /\ Between(rows, 0, n - 1) \in Nat
            /\ Between(more, 0, n) = Between(more, 0, n - 1) + more[n]
            /\ Between(rows, 0, n) = Between(rows, 0, n - 1) + rows[n]
        BY <1>2, <3>1, BetweenType
      <3>4. Between(more, 0, n - 1) = Between(rows, 0, n - 1) + (IF b <= n - 1 THEN 1 ELSE 0)
        BY <2>1, <3>1
      <3>5. Between(more, 0, n) = Between(rows, 0, n) + (IF b <= n THEN 1 ELSE 0)
        BY <3>1, <3>2, <3>3, <3>4
      <3> QED BY <3>1, <3>5
    <2>2. CASE ~(n <= k)
      BY <2>2
    <2> QED BY <2>1, <2>2
  <1>5. S = Nat
    <2> HIDE DEF S
    <2>1. S \in SUBSET Nat
      BY DEF S
    <2> QED BY <1>3, <1>4, <2>1, CountUp
  <1>6. k + 1 \in Nat /\ (k + 1) - 1 = k /\ k <= k
    BY AgesAre
  <1>7. k + 1 \in S
    BY <1>5, <1>6
  <1>8. Between(more, 0, k) = Between(rows, 0, k) + (IF b <= k THEN 1 ELSE 0)
    BY <1>6, <1>7
  <1> QED BY <1>1, <1>2, <1>8

\* More ages, more rows.
LEMMA BetweenGrows ==
  ASSUME NEW rows \in Rows, NEW j \in -1 .. Oldest, NEW k \in -1 .. Oldest, j <= k
  PROVE  Between(rows, 0, j) <= Between(rows, 0, k)
  <1> DEFINE S == {n \in Nat : j + n <= Oldest => Between(rows, 0, j) <= Between(rows, 0, j + n)}
  <1>1. 0 \in S
    <2>1. j + 0 = j /\ Between(rows, 0, j) \in Nat
      BY BetweenType
    <2> QED BY <2>1
  <1>2. ASSUME NEW n \in S PROVE n + 1 \in S
    <2>1. CASE j + (n + 1) <= Oldest
      <3>1. /\ n \in Nat /\ j + n \in -1 .. Oldest /\ j + (n + 1) \in -1 .. Oldest
            /\ j + (n + 1) >= 0 /\ (j + (n + 1)) - 1 = j + n /\ j + n <= Oldest
        BY <2>1, AgesAre
      <3>2. Between(rows, 0, j + n) <= Between(rows, 0, j + (n + 1))
        BY <3>1, BetweenType
      <3>3. Between(rows, 0, j) <= Between(rows, 0, j + n)
        BY <3>1
      <3>4. /\ Between(rows, 0, j) \in Nat /\ Between(rows, 0, j + n) \in Nat
            /\ Between(rows, 0, j + (n + 1)) \in Nat
        BY <3>1, BetweenType
      <3>5. Between(rows, 0, j) <= Between(rows, 0, j + (n + 1))
        BY <3>2, <3>3, <3>4
      <3> QED BY <3>1, <3>5
    <2>2. CASE ~(j + (n + 1) <= Oldest)
      BY <2>2
    <2> QED BY <2>1, <2>2
  <1>3. S = Nat
    <2> HIDE DEF S
    <2>1. S \in SUBSET Nat
      BY DEF S
    <2> QED BY <1>1, <1>2, <2>1, CountUp
  <1>4. k - j \in Nat /\ j + (k - j) = k /\ k <= Oldest
    BY AgesAre
  <1>5. k - j \in S
    BY <1>3, <1>4
  <1> QED BY <1>4, <1>5

-----------------------------------------------------------------------------
(* One call *)

Reasons == {"rpd", "rpm", "tpm", "upstream", "upstream 429"}

\* A call with no request under way: it stands at a model of its chain, and its
\* transaction is not open for longer than the slack.
Free(c) ==
  /\ c \in Call /\ c.at \in 1 .. Len(c.chain)
  /\ c.row = None /\ c.out = None
  /\ c.opened # None => c.opened \in 0 .. Slack

\* Where it stands when it is this call's turn, and no time passes.
Acting(c) ==
  /\ Free(c) /\ c.pc \in {"check", "reserve", "answered", "failed"}
  /\ c.pc = "answered" => c.have

\* A request under way has a reservation, at most the slack older than the request.
Sent(c) ==
  /\ c \in Call /\ c.at \in 1 .. Len(c.chain) /\ c.opened = None
  /\ c.row \in Ages /\ c.out \in 0 .. Flight /\ c.out <= c.row /\ c.row <= c.out + Slack

CallOK(c) ==
  CASE c.pc = "sent" -> Sent(c)
    [] c.pc \in {"idle", "sleep"} -> Free(c) /\ c.opened = None
    [] OTHER -> Acting(c)

\* The chains name models.
LEMMA Chains ==
  ASSUME NEW ch \in {Premium, Routine}
  PROVE  /\ Len(ch) \in Nat /\ Len(ch) >= 1
         /\ \A i \in 1 .. Len(ch) : ch[i] \in Models
  <1>1. ch \in Seq(Models) /\ ch # <<>>
    BY CallsAssumption
  <1> QED BY <1>1

\* A call of ours, before anything is asked.
LEMMA IdleOK == Idle \in Call /\ Free(Idle) /\ Idle.pc = "idle" /\ Idle.opened = None /\ CallOK(Idle)
  <1>1. Idle \in Call
    BY AgesAre DEF Idle, Call, Pcs, None
  <1>2. Idle.at \in 1 .. Len(Idle.chain)
    BY Chains DEF Idle
  <1> QED BY <1>1, <1>2 DEF Free, CallOK, Idle

\* The next model is asked, or the call has failed.
LEMMA NextModelActs ==
  ASSUME NEW c, Free(c), NEW why \in Reasons
  PROVE  Acting(NextModel(c, why))
  <1>1. c \in Call /\ c.chain \in {Premium, Routine} /\ Len(c.chain) \in Nat /\ c.at \in Nat \ {0}
    BY Chains DEF Free, Call
  <1>2. CASE c.at < Len(c.chain)
    <2>1. PICK y : y = [c EXCEPT !.at = @ + 1, !.pc = "check", !.attempt = 1, !.round = "first",
                                 !.have = FALSE]
      OBVIOUS
    <2>5. 1 \in 1 .. MaxAttempts /\ c.at + 1 \in Nat \ {0}
      BY <1>1, AgesAre
    <2>2. y \in Call
      BY <1>1, <2>1, <2>5 DEF Call, Pcs
    <2>3. /\ y.at = c.at + 1 /\ y.pc = "check" /\ y.chain = c.chain /\ y.row = c.row /\ y.out = c.out
          /\ y.opened = c.opened
      BY <1>1, <2>1 DEF Call
    <2>4. Acting(y)
      BY <1>1, <1>2, <2>2, <2>3 DEF Acting, Free
    <2> QED BY <1>2, <2>1, <2>4 DEF NextModel
  <1>3. CASE ~(c.at < Len(c.chain))
    <2>1. PICK y : y = [c EXCEPT !.pc = "failed", !.why = why]
      OBVIOUS
    <2>2. y \in Call
      BY <1>1, <2>1 DEF Call, Pcs, Reasons
    <2>3. /\ y.at = c.at /\ y.pc = "failed" /\ y.chain = c.chain /\ y.row = c.row /\ y.out = c.out
          /\ y.opened = c.opened
      BY <1>1, <2>1 DEF Call
    <2>4. Acting(y)
      BY <2>2, <2>3 DEF Acting, Free
    <2> QED BY <1>3, <2>1, <2>4 DEF NextModel
  <1> QED BY <1>2, <1>3

\* Something valid is the answer.
LEMMA ResultActs ==
  ASSUME NEW c, Free(c)
  PROVE  Acting(Result(c))
  <1>1. CASE c.have
    <2>1. PICK y : y = [c EXCEPT !.pc = "answered"]
      OBVIOUS
    <2>2. y \in Call
      BY <2>1 DEF Free, Call, Pcs
    <2>3. /\ y.at = c.at /\ y.pc = "answered" /\ y.chain = c.chain /\ y.row = c.row /\ y.out = c.out
          /\ y.opened = c.opened /\ y.have = c.have
      BY <2>1 DEF Free, Call
    <2>4. Acting(y)
      BY <1>1, <2>2, <2>3 DEF Acting, Free
    <2> QED BY <1>1, <2>1, <2>4 DEF Result
  <1>2. CASE ~c.have
    BY <1>2, NextModelActs DEF Result, Reasons
  <1> QED BY <1>1, <1>2

\* A request that failed: the next model, or what a batch has already.
LEMMA FailActs ==
  ASSUME NEW c, Free(c), NEW why \in Reasons
  PROVE  Acting(CallFails(c, why))
  BY NextModelActs, ResultActs DEF CallFails

\* A repair is another request of the same model.
LEMMA RepairActs ==
  ASSUME NEW c, Free(c), NEW round \in {"whole", "targeted"}, NEW have \in BOOLEAN
  PROVE  Acting(Repair(c, round, have))
  <1>1. PICK y : y = [c EXCEPT !.round = round, !.have = have, !.pc = "reserve", !.attempt = 1]
    OBVIOUS
  <1>5. 1 \in 1 .. MaxAttempts
    BY AgesAre
  <1>2. y \in Call
    BY <1>1, <1>5 DEF Free, Call, Pcs
  <1>3. /\ y.at = c.at /\ y.pc = "reserve" /\ y.chain = c.chain /\ y.row = c.row /\ y.out = c.out
        /\ y.opened = c.opened
    BY <1>1 DEF Free, Call
  <1>4. Acting(y)
    BY <1>2, <1>3 DEF Acting, Free
  <1> QED BY <1>1, <1>4 DEF Repair

\* A call with something decoded is as free as before.
LEMMA HavingFree ==
  ASSUME NEW c, Free(c), NEW have \in BOOLEAN
  PROVE  Free([c EXCEPT !.have = have])
  <1>1. PICK y : y = [c EXCEPT !.have = have]
    OBVIOUS
  <1>2. y \in Call
    BY <1>1 DEF Free, Call
  <1>3. /\ y.at = c.at /\ y.chain = c.chain /\ y.row = c.row /\ y.out = c.out /\ y.opened = c.opened
    BY <1>1 DEF Free, Call
  <1>4. Free(y)
    BY <1>2, <1>3 DEF Free
  <1> QED BY <1>1, <1>4

\* Whatever the text of a batch is like, the call goes on or is over.
LEMMA BatchActs ==
  ASSUME NEW c, Free(c), NEW t \in Texts
  PROVE  Acting(AfterBatch(c, t))
  <1>1. t.decodes \in BOOLEAN /\ t.valid \in BOOLEAN /\ t.failures \in BOOLEAN
    BY DEF Texts
  <1>2. c.have \in BOOLEAN
    BY DEF Free, Call
  <1>3. PICK h \in BOOLEAN : h = (c.have \/ (t.decodes /\ t.valid))
    BY <1>1, <1>2, Zenon
  <1>4. Acting(Result([c EXCEPT !.have = h]))
    BY HavingFree, ResultActs
  <1>5. [c EXCEPT !.have = @ \/ (t.decodes /\ t.valid)] = [c EXCEPT !.have = h]
    BY <1>3, Zenon
  <1>6. Acting(Repair(c, "whole", FALSE)) /\ Acting(Repair(c, "targeted", t.valid))
        /\ Acting(NextModel(c, "upstream"))
    BY <1>1, RepairActs, NextModelActs DEF Reasons
  <1>7. AfterBatch(c, t) \in {Repair(c, "whole", FALSE), Repair(c, "targeted", t.valid),
                              NextModel(c, "upstream"), Result([c EXCEPT !.have = h])}
    BY <1>5, Zenon DEF AfterBatch
  <1> QED BY <1>4, <1>6, <1>7

\* So it does after a text that is no batch.
LEMMA TextActs ==
  ASSUME NEW c, Free(c), NEW valid \in BOOLEAN
  PROVE  Acting(AfterText(c, valid))
  <1>1. Acting(Result([c EXCEPT !.have = TRUE]))
    BY HavingFree, ResultActs
  <1>2. Acting(Repair(c, "whole", FALSE)) /\ Acting(NextModel(c, "upstream"))
    BY RepairActs, NextModelActs DEF Reasons
  <1> QED BY <1>1, <1>2 DEF AfterText

-----------------------------------------------------------------------------
(* The quota *)

Tables == [Models -> Rows]

Holders(m, k) == {p \in Procs : call[p].row \in 0 .. k /\ Model(call[p]) = m}

\* Rows and reservations of at most an age; served requests of at most an age.
Spent(m, k) == Between(log[m], 0, k) + Between(orphans[m], 0, k)
Known(m, k) == Between(served[m], 0, k) <= Spent(m, k + Slack)

CallsInv ==
  /\ phase \in 0 .. Day - 1
  /\ log \in Tables /\ orphans \in Tables /\ served \in Tables
  /\ call \in [Procs -> Call] /\ \A p \in Procs : CallOK(call[p])
  /\ \A m \in Models : Used(m, phase) <= Rpd[m] /\ Used(m, Minute) <= Rpm[m]
  /\ \A m \in Models, k \in 0 .. Minute - Slack : Known(m, k)

\* What a call of each kind says of its reservation.
LEMMA CallFacts ==
  ASSUME NEW c \in Call, CallOK(c)
  PROVE  /\ c.at \in 1 .. Len(c.chain) /\ Model(c) \in Models
         /\ c.pc = "sent" => Sent(c)
         /\ c.pc # "sent" => Free(c)
         /\ c.pc \in {"check", "reserve", "answered", "failed"} => Acting(c)
         /\ c.pc \in {"idle", "sleep"} => c.opened = None
  <1>1. /\ c.pc = "sent" => Sent(c)
        /\ c.pc \in {"check", "reserve", "answered", "failed"} => Acting(c)
        /\ c.pc \in {"idle", "sleep"} => Free(c) /\ c.opened = None
        /\ c.pc \in Pcs
    BY DEF CallOK, Call, Pcs
  <1>2. c.at \in 1 .. Len(c.chain) /\ c.chain \in {Premium, Routine}
    BY <1>1 DEF Sent, Acting, Free, Pcs, Call
  <1>3. Model(c) \in Models
    BY <1>2, Chains DEF Model
  <1> QED BY <1>1, <1>2, <1>3 DEF Acting, Pcs

\* There are finitely many holders, and more of more ages.
LEMMA HoldersFinite ==
  ASSUME NEW m, NEW k
  PROVE  /\ IsFiniteSet(Holders(m, k)) /\ Cardinality(Holders(m, k)) \in Nat
         /\ Live(m, 0, k) = Cardinality(Holders(m, k))
  <1>1. IsFiniteSet(Holders(m, k))
    BY CallsAssumption, FS_Subset DEF Holders
  <1>2. Cardinality(Holders(m, k)) \in Nat
    BY <1>1, FS_CardinalityType
  <1>3. Live(m, 0, k) = Cardinality(Holders(m, k))
    BY DEF Live, Holders
  <1> QED BY <1>1, <1>2, <1>3

\* Everything that Used adds up is a number.
LEMMA UsedType ==
  ASSUME CallsInv, NEW m \in Models, NEW k \in -1 .. Oldest
  PROVE  /\ Between(log[m], 0, k) \in Nat /\ Between(orphans[m], 0, k) \in Nat
         /\ Between(served[m], 0, k) \in Nat
         /\ Cardinality(Holders(m, k)) \in Nat /\ Spent(m, k) \in Nat
         /\ Used(m, k) = Spent(m, k) + Cardinality(Holders(m, k))
  <1>1. log[m] \in Rows /\ orphans[m] \in Rows /\ served[m] \in Rows
    BY DEF CallsInv, Tables
  <1>2. /\ Between(log[m], 0, k) \in Nat /\ Between(orphans[m], 0, k) \in Nat
        /\ Between(served[m], 0, k) \in Nat
    BY <1>1, BetweenType
  <1> QED BY <1>2, HoldersFinite DEF Used, Spent

\* One row more in a table.
LEMMA CountedSums ==
  ASSUME NEW rows \in Tables, NEW M \in Models, NEW b \in Ages
  PROVE  /\ Counted(rows, M, b) \in Tables
         /\ \A m \in Models, k \in -1 .. Oldest :
              Between(Counted(rows, M, b)[m], 0, k)
                = Between(rows[m], 0, k) + (IF m = M /\ b <= k THEN 1 ELSE 0)
  <1>1. PICK more : more = [rows[M] EXCEPT ![b] = @ + 1]
    OBVIOUS
  <1>2. rows[M] \in Rows
    BY DEF Tables
  <1>3. /\ more \in Rows
        /\ \A k \in -1 .. Oldest : Between(more, 0, k) = Between(rows[M], 0, k) + (IF b <= k THEN 1 ELSE 0)
    <2>1. -1 \in -1 .. Oldest
      BY AgesAre
    <2>2. more \in Rows
      BY <1>1, <1>2, <2>1, BetweenCounted
    <2>3. ASSUME NEW k \in -1 .. Oldest
          PROVE  Between(more, 0, k) = Between(rows[M], 0, k) + (IF b <= k THEN 1 ELSE 0)
      BY <1>1, <1>2, BetweenCounted
    <2> QED BY <2>2, <2>3
  <1>4. Counted(rows, M, b) = [rows EXCEPT ![M] = more]
    BY <1>1 DEF Counted
  <1>5. \A m \in Models : Counted(rows, M, b)[m] = IF m = M THEN more ELSE rows[m]
    BY <1>4 DEF Tables
  <1>6. Counted(rows, M, b) \in Tables
    BY <1>3, <1>4 DEF Tables
  <1>7. ASSUME NEW m \in Models, NEW k \in -1 .. Oldest
        PROVE  Between(Counted(rows, M, b)[m], 0, k)
                 = Between(rows[m], 0, k) + (IF m = M /\ b <= k THEN 1 ELSE 0)
    <2>1. CASE m = M
      BY <1>3, <1>5, <2>1
    <2>2. CASE m # M
      <3>1. Counted(rows, M, b)[m] = rows[m] /\ rows[m] \in Rows
        BY <1>5, <2>2 DEF Tables
      <3>2. Between(rows[m], 0, k) \in Nat
        BY <3>1, BetweenType
      <3> QED BY <2>2, <3>1, <3>2
    <2> QED BY <2>1, <2>2
  <1> QED BY <1>6, <1>7

-----------------------------------------------------------------------------
(* Three ways a step may go *)

\* Nobody's reservation comes or goes.
LEMMA QuietStep ==
  ASSUME CallsInv, NEW p \in Procs, NEW y, CallOK(y), y \in Call, y.pc # "sent", call[p].pc # "sent",
         call' = [call EXCEPT ![p] = y], UNCHANGED <<phase, log, orphans, served>>
  PROVE  CallsInv'
  <1>1. call \in [Procs -> Call] /\ \A q \in Procs : CallOK(call[q])
    BY DEF CallsInv
  <1>2. call' \in [Procs -> Call] /\ \A q \in Procs : call'[q] = IF q = p THEN y ELSE call[q]
    BY <1>1
  <1>3. y.row = None /\ call[p].row = None /\ None \notin Nat
    BY <1>1, CallFacts DEF Free, None
  <1>4. ASSUME NEW m, NEW k \in -1 .. Oldest PROVE Holders(m, k)' = Holders(m, k)
    <2>1. \A q \in Procs : call'[q].row \in 0 .. k <=> call[q].row \in 0 .. k
      BY <1>2, <1>3
    <2>2. \A q \in Procs : call[q].row \in 0 .. k => call'[q] = call[q]
      BY <1>2, <1>3
    <2> QED BY <2>1, <2>2 DEF Holders
  <1>5. /\ \A m, k : Spent(m, k)' = Spent(m, k)
        /\ \A m, k : Known(m, k)' <=> Known(m, k)
    BY DEF Spent, Known
  <1>6. ASSUME NEW m, NEW k \in -1 .. Oldest PROVE Used(m, k)' = Used(m, k)
    <2>1. Live(m, 0, k) = Cardinality(Holders(m, k))
      BY HoldersFinite
    <2>2. Live(m, 0, k)' = Cardinality(Holders(m, k)')
      BY DEF Live, Holders
    <2> QED BY <1>4, <2>1, <2>2 DEF Used
  <1>7. phase \in -1 .. Oldest /\ Minute \in -1 .. Oldest
    BY AgesAre DEF CallsInv
  <1>8. \A m \in Models : Used(m, phase)' <= Rpd[m] /\ Used(m, Minute)' <= Rpm[m]
    <2>1. \A m : Used(m, phase)' = Used(m, phase) /\ Used(m, Minute)' = Used(m, Minute)
      BY <1>6, <1>7
    <2> QED BY <2>1 DEF CallsInv
  <1>9. \A q \in Procs : CallOK(call[q])'
    <2>1. \A q \in Procs : CallOK(call'[q])
      BY <1>1, <1>2
    <2> QED BY <2>1 DEF CallOK, Sent, Free, Acting
  <1> QED BY <1>2, <1>5, <1>8, <1>9 DEF CallsInv

\* A request is sent: its reservation counts from the age of its transaction on.
LEMMA SendStep ==
  ASSUME CallsInv, NEW p \in Procs, NEW y \in Call, y.pc = "sent", CallOK(y),
         call[p].pc # "sent",
         Used(Model(y), phase) < Rpd[Model(y)], Used(Model(y), Minute) < Rpm[Model(y)],
         call' = [call EXCEPT ![p] = y], UNCHANGED <<phase, log, orphans, served>>
  PROVE  CallsInv'
  <1>1. call \in [Procs -> Call] /\ \A q \in Procs : CallOK(call[q])
    BY DEF CallsInv
  <1>2. call' \in [Procs -> Call] /\ \A q \in Procs : call'[q] = IF q = p THEN y ELSE call[q]
    BY <1>1
  <1>3. call[p].row = None /\ None \notin Nat
    BY <1>1, CallFacts DEF Free, None
  <1>4. ASSUME NEW m, NEW k \in -1 .. Oldest
        PROVE  Cardinality(Holders(m, k)') <= Cardinality(Holders(m, k)) + (IF m = Model(y) THEN 1 ELSE 0)
    <2>1. ASSUME m = Model(y)
          PROVE  Holders(m, k)' \in {Holders(m, k), Holders(m, k) \cup {p}}
      BY <1>2, <1>3, <2>1 DEF Holders
    <2>2. ASSUME m # Model(y) PROVE Holders(m, k)' = Holders(m, k)
      BY <1>2, <1>3, <2>2 DEF Holders
    <2>3. IsFiniteSet(Holders(m, k)) /\ Cardinality(Holders(m, k)) \in Nat
      BY HoldersFinite
    <2>4. p \notin Holders(m, k)
      BY <1>3 DEF Holders
    <2>5. Cardinality(Holders(m, k) \cup {p}) = Cardinality(Holders(m, k)) + 1
      BY <2>3, <2>4, FS_AddElement
    <2>6. CASE m = Model(y)
      <3>1. Cardinality(Holders(m, k)') \in {Cardinality(Holders(m, k)), Cardinality(Holders(m, k)) + 1}
        BY <2>1, <2>5, <2>6
      <3> QED BY <2>3, <2>6, <3>1
    <2>7. CASE m # Model(y)
      <3>1. Cardinality(Holders(m, k)') = Cardinality(Holders(m, k))
        BY <2>2, <2>7
      <3> QED BY <2>3, <2>7, <3>1
    <2> QED BY <2>6, <2>7
  <1>5. /\ \A m, k : Spent(m, k)' = Spent(m, k)
        /\ \A m, k : Known(m, k)' <=> Known(m, k)
    BY DEF Spent, Known
  <1>6. ASSUME NEW m \in Models, NEW k \in -1 .. Oldest
        PROVE  Used(m, k)' \in Int /\ Used(m, k)' <= Used(m, k) + (IF m = Model(y) THEN 1 ELSE 0)
    <2>1. Used(m, k) = Spent(m, k) + Cardinality(Holders(m, k)) /\ Spent(m, k) \in Nat
          /\ Cardinality(Holders(m, k)) \in Nat
      BY UsedType
    <2>2. Used(m, k)' = Spent(m, k)' + Cardinality(Holders(m, k)')
      BY DEF Live, Holders, Used, Spent
    <2>3. Cardinality(Holders(m, k)') \in Nat
      <3>1. IsFiniteSet(Holders(m, k)')
        BY CallsAssumption, FS_Subset DEF Holders
      <3> QED BY <3>1, FS_CardinalityType
    <2> QED BY <1>4, <1>5, <2>1, <2>2, <2>3
  <1>7. phase \in -1 .. Oldest /\ Minute \in -1 .. Oldest
    BY AgesAre DEF CallsInv
  <1>8. ASSUME NEW m \in Models
        PROVE  Used(m, phase)' <= Rpd[m] /\ Used(m, Minute)' <= Rpm[m]
    <2>1. /\ Used(m, phase)' <= Used(m, phase) + (IF m = Model(y) THEN 1 ELSE 0)
          /\ Used(m, Minute)' <= Used(m, Minute) + (IF m = Model(y) THEN 1 ELSE 0)
          /\ Used(m, phase)' \in Int /\ Used(m, Minute)' \in Int
      <3>1. PICK k \in -1 .. Oldest : k = phase
        BY <1>7
      <3>2. Used(m, phase)' = Used(m, k)'
        BY <3>1 DEF Used, Live
      <3>3. Used(m, Minute)' \in Int /\ Used(m, k)' \in Int
            /\ Used(m, k)' <= Used(m, k) + (IF m = Model(y) THEN 1 ELSE 0)
            /\ Used(m, Minute)' <= Used(m, Minute) + (IF m = Model(y) THEN 1 ELSE 0)
        BY <1>6, <1>7
      <3> QED BY <3>1, <3>2, <3>3
    <2>2. Used(m, phase) \in Nat /\ Used(m, Minute) \in Nat
      BY <1>7, UsedType
    <2>3. Used(m, phase) <= Rpd[m] /\ Used(m, Minute) <= Rpm[m] /\ Rpd[m] \in Nat /\ Rpm[m] \in Nat
      BY CallsAssumption DEF CallsInv
    <2> QED BY <2>1, <2>2, <2>3
  <1>9. \A q \in Procs : CallOK(call[q])'
    <2>1. \A q \in Procs : CallOK(call'[q])
      BY <1>1, <1>2
    <2> QED BY <2>1 DEF CallOK, Sent, Free, Acting
  <1> QED BY <1>2, <1>5, <1>8, <1>9 DEF CallsInv

\* A reservation is given up.  It becomes a row of the log, if the request is charged, or
\* of a process that died; the provider has served only what is counted.
LEMMA GiveUpStep ==
  ASSUME CallsInv, NEW p \in Procs, call[p].pc = "sent",
         NEW y \in Call, y.pc # "sent", CallOK(y),
         NEW charged \in BOOLEAN, NEW died \in BOOLEAN, NEW taken \in BOOLEAN,
         ~(charged /\ died), taken => charged \/ died,
         NEW M, M = Model(call[p]), NEW r, r = call[p].row, NEW o, o = call[p].out,
         call' = [call EXCEPT ![p] = y], phase' = phase,
         log' = IF charged THEN Counted(log, M, r) ELSE log,
         orphans' = IF died THEN Counted(orphans, M, r) ELSE orphans,
         served' = IF taken THEN Counted(served, M, o) ELSE served
  PROVE  CallsInv'
  <1>1. call \in [Procs -> Call] /\ \A q \in Procs : CallOK(call[q])
    BY DEF CallsInv
  <1>2. call' \in [Procs -> Call] /\ \A q \in Procs : call'[q] = IF q = p THEN y ELSE call[q]
    BY <1>1
  <1>3. /\ y.row = None /\ None \notin Nat /\ M \in Models
        /\ r \in Ages /\ o \in 0 .. Flight /\ o <= r /\ r <= o + Slack
    BY <1>1, CallFacts DEF Free, None, Sent
  <1>4. o \in Ages
    BY <1>3, AgesAre
  <1>5. log \in Tables /\ orphans \in Tables /\ served \in Tables
    BY DEF CallsInv
  <1>6. log' \in Tables /\ orphans' \in Tables /\ served' \in Tables
    BY <1>3, <1>4, <1>5, CountedSums
  <1> DEFINE One(m, b, k) == IF m = M /\ b <= k THEN 1 ELSE 0
  <1>7. ASSUME NEW m \in Models, NEW k \in -1 .. Oldest
        PROVE  /\ Between(log'[m], 0, k) = Between(log[m], 0, k) + (IF charged THEN One(m, r, k) ELSE 0)
               /\ Between(orphans'[m], 0, k) = Between(orphans[m], 0, k) + (IF died THEN One(m, r, k) ELSE 0)
               /\ Between(served'[m], 0, k) = Between(served[m], 0, k) + (IF taken THEN One(m, o, k) ELSE 0)
    <2>1. /\ Between(log[m], 0, k) \in Nat /\ Between(orphans[m], 0, k) \in Nat
          /\ Between(served[m], 0, k) \in Nat
      BY UsedType
    <2>2. /\ Between(Counted(log, M, r)[m], 0, k) = Between(log[m], 0, k) + One(m, r, k)
          /\ Between(Counted(orphans, M, r)[m], 0, k) = Between(orphans[m], 0, k) + One(m, r, k)
          /\ Between(Counted(served, M, o)[m], 0, k) = Between(served[m], 0, k) + One(m, o, k)
      BY <1>3, <1>4, <1>5, CountedSums
    <2>3. Between(log'[m], 0, k) = Between(log[m], 0, k) + (IF charged THEN One(m, r, k) ELSE 0)
      <3>1. CASE charged
        BY <2>2, <3>1, Zenon
      <3>2. CASE ~charged
        BY <2>1, <3>2
      <3> QED BY <3>1, <3>2
    <2>4. Between(orphans'[m], 0, k) = Between(orphans[m], 0, k) + (IF died THEN One(m, r, k) ELSE 0)
      <3>1. CASE died
        BY <2>2, <3>1, Zenon
      <3>2. CASE ~died
        BY <2>1, <3>2
      <3> QED BY <3>1, <3>2
    <2>5. Between(served'[m], 0, k) = Between(served[m], 0, k) + (IF taken THEN One(m, o, k) ELSE 0)
      <3>1. CASE taken
        BY <2>2, <3>1, Zenon
      <3>2. CASE ~taken
        BY <2>1, <3>2
      <3> QED BY <3>1, <3>2
    <2> QED BY <2>3, <2>4, <2>5
  <1>8. ASSUME NEW m \in Models, NEW k \in -1 .. Oldest
        PROVE  /\ Cardinality(Holders(m, k)') \in Nat
               /\ Cardinality(Holders(m, k)') = Cardinality(Holders(m, k)) - One(m, r, k)
    <2>1. Holders(m, k)' = Holders(m, k) \ {p}
      BY <1>2, <1>3 DEF Holders
    <2>2. p \in Holders(m, k) <=> m = M /\ r <= k
      BY <1>3, AgesAre DEF Holders
    <2>3. IsFiniteSet(Holders(m, k)) /\ Cardinality(Holders(m, k)) \in Nat
      BY HoldersFinite
    <2>4. IsFiniteSet(Holders(m, k) \ {p})
      BY <2>3, FS_Subset
    <2>5. Cardinality(Holders(m, k) \ {p}) \in Nat
      BY <2>4, FS_CardinalityType
    <2>6. CASE m = M /\ r <= k
      <3>1. Cardinality(Holders(m, k) \ {p}) = Cardinality(Holders(m, k)) - 1
        BY <2>2, <2>3, <2>6, FS_RemoveElement
      <3> QED BY <2>1, <2>5, <2>6, <3>1
    <2>7. CASE ~(m = M /\ r <= k)
      <3>1. Holders(m, k) \ {p} = Holders(m, k)
        BY <2>2, <2>7
      <3> QED BY <2>1, <2>3, <2>7, <3>1
    <2> QED BY <2>6, <2>7
  <1>9. ASSUME NEW m \in Models, NEW k \in -1 .. Oldest
        PROVE  /\ Used(m, k) \in Nat /\ Used(m, k)' \in Int
               /\ Used(m, k)' <= Used(m, k)
    <2>1. /\ Used(m, k) = Spent(m, k) + Cardinality(Holders(m, k))
          /\ Cardinality(Holders(m, k)) \in Nat
          /\ Between(log[m], 0, k) \in Nat /\ Between(orphans[m], 0, k) \in Nat
      BY UsedType
    <2>2. Used(m, k)' = Between(log'[m], 0, k) + Between(orphans'[m], 0, k) + Cardinality(Holders(m, k)')
      BY DEF Live, Holders, Used
    <2>3. One(m, r, k) \in {0, 1}
      OBVIOUS
    <2> HIDE DEF One
    <2> QED BY <1>7, <1>8, <2>1, <2>2, <2>3 DEF Spent
  <1>10. phase \in -1 .. Oldest /\ Minute \in -1 .. Oldest
    BY AgesAre DEF CallsInv
  <1>11. ASSUME NEW m \in Models
        PROVE  Used(m, phase)' <= Rpd[m] /\ Used(m, Minute)' <= Rpm[m]
    <2>1. PICK k \in -1 .. Oldest : k = phase
      BY <1>10
    <2>2. Used(m, phase)' = Used(m, k)'
      BY <2>1 DEF Used, Live
    <2>3. /\ Used(m, k) <= Rpd[m] /\ Used(m, Minute) <= Rpm[m] /\ Rpd[m] \in Nat /\ Rpm[m] \in Nat
      BY <2>1, CallsAssumption DEF CallsInv
    <2>4. /\ Used(m, k) \in Nat /\ Used(m, k)' \in Int /\ Used(m, k)' <= Used(m, k)
          /\ Used(m, Minute) \in Nat /\ Used(m, Minute)' \in Int /\ Used(m, Minute)' <= Used(m, Minute)
      BY <1>9, <1>10
    <2> QED BY <2>2, <2>3, <2>4
  <1>12. ASSUME NEW m \in Models, NEW k \in 0 .. Minute - Slack
         PROVE  Known(m, k)'
    <2>1. k \in -1 .. Oldest /\ k + Slack \in -1 .. Oldest
      BY AgesAre
    <2>2. /\ Between(log[m], 0, k + Slack) \in Nat /\ Between(orphans[m], 0, k + Slack) \in Nat
          /\ Between(served[m], 0, k) \in Nat
      BY <2>1, UsedType
    <2>3. Between(served[m], 0, k) <= Between(log[m], 0, k + Slack) + Between(orphans[m], 0, k + Slack)
      BY DEF CallsInv, Known, Spent
    <2>4. One(m, r, k + Slack) \in {0, 1} /\ One(m, o, k) \in {0, 1}
          /\ One(m, o, k) <= One(m, r, k + Slack)
      BY <1>3, <2>1, AgesAre
    <2>5. /\ Between(log'[m], 0, k + Slack)
               = Between(log[m], 0, k + Slack) + (IF charged THEN One(m, r, k + Slack) ELSE 0)
          /\ Between(orphans'[m], 0, k + Slack)
               = Between(orphans[m], 0, k + Slack) + (IF died THEN One(m, r, k + Slack) ELSE 0)
          /\ Between(served'[m], 0, k) = Between(served[m], 0, k) + (IF taken THEN One(m, o, k) ELSE 0)
      BY <1>7, <2>1
    <2> HIDE DEF One
    <2>6. Between(served'[m], 0, k) <= Between(log'[m], 0, k + Slack) + Between(orphans'[m], 0, k + Slack)
      BY <2>2, <2>3, <2>4, <2>5
    <2> QED BY <2>6 DEF Known, Spent
  <1>13. \A q \in Procs : CallOK(call[q])'
    <2>1. \A q \in Procs : CallOK(call'[q])
      BY <1>1, <1>2
    <2> QED BY <2>1 DEF CallOK, Sent, Free, Acting
  <1>14. phase' \in 0 .. Day - 1
    BY DEF CallsInv
  <1> QED BY <1>2, <1>6, <1>11, <1>12, <1>13, <1>14 DEF CallsInv

\* Fewer ages, fewer rows and reservations; of no age, none.
LEMMA UsedGrows ==
  ASSUME CallsInv, NEW m \in Models, NEW j \in -1 .. Oldest, NEW k \in -1 .. Oldest, j <= k
  PROVE  Used(m, j) <= Used(m, k) /\ Used(m, -1) = 0
  <1>1. log[m] \in Rows /\ orphans[m] \in Rows
    BY DEF CallsInv, Tables
  <1>2. /\ Between(log[m], 0, j) <= Between(log[m], 0, k)
        /\ Between(orphans[m], 0, j) <= Between(orphans[m], 0, k)
    BY <1>1, BetweenGrows
  <1>3. Cardinality(Holders(m, j)) <= Cardinality(Holders(m, k))
    <2>1. Holders(m, j) \subseteq Holders(m, k)
      BY DEF Holders
    <2> QED BY <2>1, HoldersFinite, FS_Subset
  <1>4. Used(m, -1) = 0
    <2>1. Holders(m, -1) = {}
      BY DEF Holders
    <2>2. Cardinality(Holders(m, -1)) = 0
      BY <2>1, FS_EmptySet
    <2>3. Between(log[m], 0, -1) = 0 /\ Between(orphans[m], 0, -1) = 0
      BY BetweenStep
    <2>4. Live(m, 0, -1) = 0
      BY <2>2, HoldersFinite
    <2> QED BY <2>3, <2>4 DEF Used
  <1>5. /\ Used(m, j) = Between(log[m], 0, j) + Between(orphans[m], 0, j) + Cardinality(Holders(m, j))
        /\ Used(m, k) = Between(log[m], 0, k) + Between(orphans[m], 0, k) + Cardinality(Holders(m, k))
        /\ Between(log[m], 0, j) \in Nat /\ Between(orphans[m], 0, j) \in Nat
        /\ Between(log[m], 0, k) \in Nat /\ Between(orphans[m], 0, k) \in Nat
        /\ Cardinality(Holders(m, j)) \in Nat /\ Cardinality(Holders(m, k)) \in Nat
    BY UsedType DEF Spent
  <1> QED BY <1>2, <1>3, <1>4, <1>5

\* A day has its ticks, and then the next begins.
LEMMA Phases ==
  ASSUME NEW n \in 0 .. Day - 1
  PROVE  (n + 1) % Day \in 0 .. Day - 1 /\ (n + 1) % Day \in {n + 1, 0}
  <1>1. Day \in Nat \ {0}
    BY AgesAre
  <1>2. CASE n + 1 < Day
    <2>1. (n + 1) % Day = n + 1
      BY <1>1, <1>2
    <2> QED BY <1>1, <1>2, <2>1
  <1>3. CASE n + 1 = Day
    <2>1. Day % Day = 0
      BY <1>1
    <2> QED BY <1>1, <1>3, <2>1
  <1> QED BY <1>1, <1>2, <1>3

\* A tick later, what was at most an age is at most the next.
LEMMA AgedSums ==
  ASSUME NEW rows \in Tables, NEW keep
  PROVE  /\ Aged(rows, keep) \in Tables
         /\ \A m \in Models, k \in 0 .. Oldest - 1 :
              0 .. k \subseteq keep =>
                Between(Aged(rows, keep)[m], 0, k) = Between(rows[m], 0, k - 1)
  <1> DEFINE at(m, a) == IF a \notin keep THEN 0
                         ELSE (IF a = 0 THEN 0 ELSE rows[m][a - 1])
                                + (IF a = Oldest THEN rows[m][a] ELSE 0)
  <1>1. ASSUME NEW m \in Models, NEW a \in Ages
        PROVE  /\ Aged(rows, keep)[m][a] = at(m, a) /\ at(m, a) \in Nat
               /\ a \in keep /\ a = 0 => at(m, a) = 0
               /\ a \in keep /\ a # 0 /\ a # Oldest => at(m, a) = rows[m][a - 1]
    <2>1. Aged(rows, keep)[m][a] = at(m, a)
      BY DEF Aged
    <2>2. /\ Oldest # 0 /\ a \in Nat /\ rows[m][a] \in Nat
          /\ a # 0 => a - 1 \in Ages
      BY AgesAre DEF Tables, Rows
    <2>3. a # 0 => rows[m][a - 1] \in Nat
      BY <2>2 DEF Tables, Rows
    <2> QED BY <2>1, <2>2, <2>3
  <1>2. Aged(rows, keep) \in Tables
    <2>1. Aged(rows, keep) = [m \in Models |-> [a \in Ages |-> at(m, a)]]
      BY DEF Aged
    <2> HIDE DEF at
    <2> QED BY <1>1, <2>1 DEF Tables, Rows
  <1>3. ASSUME NEW m \in Models, NEW k \in 0 .. Oldest - 1, 0 .. k \subseteq keep
        PROVE  Between(Aged(rows, keep)[m], 0, k) = Between(rows[m], 0, k - 1)
    <2>1. PICK old : old = Aged(rows, keep)[m]
      OBVIOUS
    <2>2. old \in Rows /\ rows[m] \in Rows
      BY <1>2, <2>1 DEF Tables
    <2>3. k \in 0 .. Oldest
      BY AgesAre
    <2>4. old[0] = 0
      <3>1. 0 \in Ages /\ 0 \in keep
        BY <1>3, AgesAre
      <3> QED BY <1>1, <2>1, <3>1
    <2>5. ASSUME NEW a \in 1 .. k PROVE old[a] = rows[m][a - 1]
      <3>1. a \in Ages /\ a \in keep /\ a # 0 /\ a # Oldest
        BY <1>3, AgesAre
      <3> QED BY <1>1, <2>1, <3>1
    <2> QED BY <2>1, <2>2, <2>3, <2>4, <2>5, BetweenOlder
  <1> QED BY <1>2, <1>3

\* Time passes: a request under way gets older, and so does its reservation.
LEMMA CallsAge ==
  ASSUME CallsInv, TimeMayPass, NEW p \in Procs,
         NEW c, c = call[p],
         NEW y, y = [c EXCEPT !.opened = Older(@), !.row = Older(@), !.out = Older(@)]
  PROVE  /\ y \in Call /\ CallOK(y) /\ Model(y) = Model(c)
         /\ c.row = None => y.row = None
         /\ c.row # None => c.row \in Ages /\ y.row = c.row + 1
  <1>1. c \in Call /\ CallOK(c)
    BY DEF CallsInv
  <1>2. /\ y.pc = c.pc /\ y.kind = c.kind /\ y.chain = c.chain /\ y.at = c.at
        /\ y.attempt = c.attempt /\ y.round = c.round /\ y.have = c.have /\ y.why = c.why
        /\ y.opened = Older(c.opened) /\ y.row = Older(c.row) /\ y.out = Older(c.out)
    BY <1>1 DEF Call
  <1>3. Model(y) = Model(c)
    BY <1>2 DEF Model
  <1>4. Older(None) = None /\ \A a \in Ages : Older(a) \in Ages
    BY AgesAre DEF Older, None
  <1>5. y \in Call
    BY <1>1, <1>4 DEF Call
  <1>6. CASE c.pc = "sent"
    <2>1. Sent(c)
      BY <1>1, <1>6, CallFacts
    <2>2. c.out < Flight
      BY <1>6 DEF TimeMayPass
    <2>3. c.row \in 0 .. Oldest - 1 /\ c.out \in 0 .. Flight - 1 /\ c.out \in 0 .. Oldest - 1
      BY <2>1, <2>2, AgesAre DEF Sent
    <2>4. Older(c.row) = c.row + 1 /\ Older(c.out) = c.out + 1
      <3>1. \A a \in 0 .. Oldest - 1 : a # -1 /\ a # Oldest
        BY AgesAre
      <3>2. c.row # -1 /\ c.row # Oldest /\ c.out # -1 /\ c.out # Oldest
        BY <2>3, <3>1
      <3> QED BY <3>2, Zenon DEF Older, None
    <2>5. Sent(y)
      <3>1. y.opened = None /\ y.at \in 1 .. Len(y.chain) /\ y.row = c.row + 1 /\ y.out = c.out + 1
        BY <1>2, <1>4, <2>1, <2>4 DEF Sent
      <3>2. c.row \in Nat /\ c.out \in Nat /\ c.out <= c.row /\ c.row <= c.out + Slack
            /\ c.row < Oldest /\ c.out < Flight /\ Oldest \in Nat /\ Slack \in Nat /\ Flight \in Nat
        <4>1. c.row \in Ages /\ c.out <= c.row /\ c.row <= c.out + Slack
          BY <2>1 DEF Sent
        <4> QED BY <2>3, <4>1, AgesAre
      <3>3. /\ c.row + 1 \in 0 .. Oldest /\ c.out + 1 \in 0 .. Flight
            /\ c.out + 1 <= c.row + 1 /\ c.row + 1 <= (c.out + 1) + Slack
        BY <3>2
      <3> QED BY <1>5, <3>1, <3>3, AgesAre DEF Sent
    <2>6. CallOK(y)
      BY <1>2, <1>6, <2>5 DEF CallOK
    <2> QED BY <1>2, <1>3, <1>5, <2>3, <2>4, <2>6, AgesAre DEF None
  <1>7. CASE c.pc # "sent"
    <2>1. c.pc \in {"idle", "sleep"}
      BY <1>1, <1>7 DEF TimeMayPass, Call, Pcs
    <2>2. Free(c) /\ c.opened = None
      BY <1>1, <2>1 DEF CallOK
    <2>3. Free(y) /\ y.opened = None
      BY <1>2, <1>4, <1>5, <2>2 DEF Free
    <2>4. CallOK(y)
      BY <1>2, <2>1, <2>3 DEF CallOK
    <2> QED BY <1>2, <1>3, <1>4, <1>5, <2>2, <2>4 DEF Free
  <1> QED BY <1>6, <1>7

\* A tick: the windows have lost what left them, a new day has used nothing.
LEMMA TickStep ==
  ASSUME CallsInv, Tick
  PROVE  CallsInv'
  <1>1. call \in [Procs -> Call] /\ phase \in 0 .. Day - 1
        /\ log \in Tables /\ orphans \in Tables /\ served \in Tables
    BY DEF CallsInv
  <1>2. ASSUME NEW p \in Procs
        PROVE  /\ call'[p] \in Call /\ CallOK(call'[p]) /\ Model(call'[p]) = Model(call[p])
               /\ call[p].row = None => call'[p].row = None
               /\ call[p].row # None => call[p].row \in Ages /\ call'[p].row = call[p].row + 1
    <2>1. PICK c : c = call[p]
      OBVIOUS
    <2>2. PICK y : y = [c EXCEPT !.opened = Older(@), !.row = Older(@), !.out = Older(@)]
      OBVIOUS
    <2>3. call'[p] = y
      BY <2>1, <2>2 DEF Tick
    <2>4. TimeMayPass
      BY DEF Tick
    <2> QED BY <2>1, <2>2, <2>3, <2>4, CallsAge
  <1>3. call' \in [Procs -> Call]
    BY <1>2 DEF Tick
  <1>4. \A q \in Procs : CallOK(call[q])'
    <2>1. \A q \in Procs : CallOK(call'[q])
      BY <1>2
    <2> QED BY <2>1 DEF CallOK, Sent, Free, Acting
  <1>5. phase' \in 0 .. Day - 1 /\ phase' \in {phase + 1, 0}
    BY <1>1, Phases DEF Tick
  <1>6. log' \in Tables /\ orphans' \in Tables /\ served' \in Tables
    BY <1>1, AgedSums DEF Tick
  <1>7. ASSUME NEW m, NEW k \in 0 .. Oldest
        PROVE  Holders(m, k)' = Holders(m, k - 1)
    <2>1. ASSUME NEW p \in Procs
          PROVE  call'[p].row \in 0 .. k <=> call[p].row \in 0 .. k - 1
      <3>1. CASE call[p].row = None
        BY <1>2, <3>1 DEF None
      <3>2. CASE call[p].row # None
        <4>1. call[p].row \in Nat /\ call'[p].row = call[p].row + 1
          BY <1>2, <3>2, AgesAre
        <4> QED BY <4>1
      <3> QED BY <3>1, <3>2
    <2>2. \A p \in Procs : Model(call[p])' = Model(call[p])
      BY <1>2 DEF Model
    <2> QED BY <2>1, <2>2 DEF Holders
  <1>8. ASSUME NEW m \in Models, NEW k \in 0 .. Oldest - 1, k <= phase' \/ k <= Minute
        PROVE  /\ Spent(m, k)' = Spent(m, k - 1)
               /\ Used(m, k)' = Used(m, k - 1)
    <2>1. 0 .. k \subseteq 0 .. phase' \cup 0 .. Minute /\ 0 .. k \subseteq Ages
      BY <1>5, <1>8, AgesAre
    <2>2. Between(log'[m], 0, k) = Between(log[m], 0, k - 1)
      BY <1>1, <2>1, AgedSums DEF Tick
    <2>3. Between(orphans'[m], 0, k) = Between(orphans[m], 0, k - 1)
      BY <1>1, <2>1, AgedSums DEF Tick
    <2>4. Holders(m, k)' = Holders(m, k - 1)
      BY <1>7, AgesAre
    <2>5. Live(m, 0, k)' = Live(m, 0, k - 1)
      BY <2>4 DEF Live, Holders
    <2> QED BY <2>2, <2>3, <2>5 DEF Spent, Used
  <1>9. ASSUME NEW m \in Models
        PROVE  Used(m, phase)' <= Rpd[m]
    <2>1. PICK k \in 0 .. Oldest - 1 : k = phase'
      BY <1>5, AgesAre
    <2>2. Used(m, phase)' = Used(m, k)'
      BY <2>1 DEF Used, Live
    <2>3. Used(m, k)' = Used(m, k - 1)
      BY <1>8, <2>1
    <2>4. k - 1 \in {phase, -1}
      <3>1. phase \in Int
        BY <1>1, AgesAre
      <3>2. k \in {phase + 1, 0}
        BY <1>5, <2>1
      <3>3. (phase + 1) - 1 = phase /\ 0 - 1 = -1
        BY <3>1
      <3> QED BY <3>2, <3>3
    <2>5. Used(m, -1) = 0 /\ Used(m, phase) <= Rpd[m] /\ Rpd[m] \in Nat
      <3>1. -1 \in -1 .. Oldest
        BY AgesAre
      <3>2. -1 <= -1
        OBVIOUS
      <3>3. Used(m, -1) = 0
        BY <3>1, <3>2, UsedGrows
      <3> QED BY <3>3, CallsAssumption DEF CallsInv
    <2> QED BY <2>2, <2>3, <2>4, <2>5
  <1>10. ASSUME NEW m \in Models
         PROVE  Used(m, Minute)' <= Rpm[m]
    <2>1. Minute \in 0 .. Oldest - 1 /\ Minute - 1 \in -1 .. Oldest /\ Minute \in -1 .. Oldest
          /\ Minute - 1 <= Minute
      BY AgesAre
    <2>2. Used(m, Minute)' = Used(m, Minute - 1)
      BY <1>8, <2>1
    <2>3. Used(m, Minute - 1) <= Used(m, Minute)
      BY <2>1, UsedGrows
    <2>4. Used(m, Minute - 1) \in Nat /\ Used(m, Minute) \in Nat
      <3>1. \A k \in -1 .. Oldest : Used(m, k) \in Nat
        BY UsedType
      <3> QED BY <2>1, <3>1
    <2>5. Used(m, Minute) <= Rpm[m] /\ Rpm[m] \in Nat
      BY CallsAssumption DEF CallsInv
    <2> QED BY <2>2, <2>3, <2>4, <2>5
  <1>11. ASSUME NEW m \in Models, NEW k \in 0 .. Minute - Slack
         PROVE  Known(m, k)'
    <2>1. /\ k \in 0 .. Oldest - 1 /\ k + Slack \in 0 .. Oldest - 1 /\ k + Slack <= Minute
          /\ 0 .. k \subseteq 0 .. Minute - Slack
      BY AgesAre
    <2>2. Between(served'[m], 0, k) = Between(served[m], 0, k - 1)
      BY <1>1, <2>1, AgedSums DEF Tick
    <2>3. Spent(m, k + Slack)' = Spent(m, (k + Slack) - 1)
      BY <1>8, <2>1
    <2>4. Between(served[m], 0, k - 1) <= Spent(m, (k + Slack) - 1)
      <3>1. CASE k = 0
        <4>1. Between(served[m], 0, -1) = 0 /\ k - 1 = -1
          BY <3>1, BetweenStep
        <4>2. (k + Slack) - 1 \in -1 .. Oldest
          BY <2>1, AgesAre
        <4>3. Spent(m, (k + Slack) - 1) \in Nat
          BY <4>2, UsedType
        <4> QED BY <4>1, <4>3
      <3>2. CASE k # 0
        <4>1. k - 1 \in 0 .. Minute - Slack /\ (k - 1) + Slack = (k + Slack) - 1
          BY <3>2, AgesAre
        <4>2. Known(m, k - 1)
          BY <4>1 DEF CallsInv
        <4> QED BY <4>1, <4>2 DEF Known
      <3> QED BY <3>1, <3>2
    <2>5. Known(m, k)' <=> Between(served'[m], 0, k) <= Spent(m, k + Slack)'
      BY DEF Known
    <2> QED BY <2>2, <2>3, <2>4, <2>5
  <1> QED BY <1>3, <1>4, <1>5, <1>6, <1>9, <1>10, <1>11 DEF CallsInv

\* Maintenance: requests under way keep their reservations, those of dead processes go.
LEMMA DropStep ==
  ASSUME CallsInv, DropReservations
  PROVE  CallsInv'
  <1>1. call \in [Procs -> Call] /\ phase \in 0 .. Day - 1
        /\ log \in Tables /\ orphans \in Tables /\ served \in Tables
    BY DEF CallsInv
  <1>2. UNCHANGED <<phase, log, served>>
    BY DEF DropReservations
  <1>3. call' = call
    <2>1. ASSUME NEW p \in Procs PROVE ~Stale(call[p].row)
      <3>1. call[p] \in Call /\ CallOK(call[p])
        BY DEF CallsInv
      <3>2. CASE call[p].pc = "sent"
        <4>1. Sent(call[p])
          BY <3>1, <3>2, CallFacts
        <4>2. call[p].row \in Nat /\ call[p].row <= Flight + Slack
          BY <4>1, AgesAre DEF Sent
        <4> QED BY <4>2, AgesAre DEF Stale
      <3>3. CASE call[p].pc # "sent"
        <4>1. call[p].row = -1
          BY <3>1, <3>3, CallFacts DEF Free, None
        <4> QED BY <4>1, AgesAre DEF Stale
      <3> QED BY <3>2, <3>3
    <2>2. call' = [p \in Procs |-> call[p]]
      BY <2>1 DEF DropReservations
    <2> QED BY <1>1, <2>2
  <1>4. orphans' \in Tables
    BY <1>1 DEF DropReservations, Tables, Rows
  <1>5. ASSUME NEW m \in Models
        PROVE  /\ \A a \in Ages : orphans'[m][a] <= orphans[m][a]
               /\ \A a \in Ages : a <= Cleanup => orphans'[m][a] = orphans[m][a]
    <2>1. ASSUME NEW a \in Ages
          PROVE  orphans'[m][a] = IF Stale(a) THEN 0 ELSE orphans[m][a]
      BY DEF DropReservations
    <2>2. \A a \in Ages : orphans[m][a] \in Nat
      BY <1>1 DEF Tables, Rows
    <2>3. \A a \in Ages : a <= Cleanup => ~Stale(a)
      BY AgesAre DEF Stale
    <2> QED BY <2>1, <2>2, <2>3
  <1>6. ASSUME NEW m \in Models, NEW k \in -1 .. Oldest
        PROVE  /\ Between(orphans'[m], 0, k) \in Nat
               /\ Between(orphans'[m], 0, k) <= Between(orphans[m], 0, k)
               /\ k <= Cleanup => Between(orphans'[m], 0, k) = Between(orphans[m], 0, k)
    <2>1. orphans'[m] \in Rows /\ orphans[m] \in Rows
      BY <1>1, <1>4 DEF Tables
    <2>2. 0 .. k \subseteq Ages
      BY AgesAre
    <2>3. Between(orphans'[m], 0, k) \in Nat /\ Between(orphans[m], 0, k) \in Nat
      BY <2>1, BetweenType
    <2>4. PICK few \in Rows, many \in Rows : few = orphans'[m] /\ many = orphans[m]
      BY <2>1
    <2>5. \A a \in 0 .. k : few[a] <= many[a]
      BY <1>5, <2>2, <2>4
    <2>6. Between(few, 0, k) <= Between(many, 0, k)
      BY <2>5, BetweenFewer
    <2>7. ASSUME k <= Cleanup PROVE Between(many, 0, k) <= Between(few, 0, k)
      <3>1. \A a \in 0 .. k : a \in Ages /\ a <= Cleanup
        BY <2>2, <2>7, AgesAre
      <3>2. \A a \in 0 .. k : many[a] = few[a] /\ many[a] \in Nat
        BY <1>5, <2>4, <3>1 DEF Rows
      <3>3. \A a \in 0 .. k : many[a] <= few[a]
        BY <3>2
      <3> QED BY <3>3, BetweenFewer
    <2> QED BY <2>3, <2>4, <2>6, <2>7
  <1>7. ASSUME NEW m \in Models, NEW k \in -1 .. Oldest
        PROVE  Used(m, k)' <= Used(m, k) /\ Used(m, k)' \in Nat /\ Used(m, k) \in Nat
    <2>1. /\ Between(log[m], 0, k) \in Nat /\ Between(orphans[m], 0, k) \in Nat
          /\ Cardinality(Holders(m, k)) \in Nat
          /\ Used(m, k) = Between(log[m], 0, k) + Between(orphans[m], 0, k) + Cardinality(Holders(m, k))
      BY UsedType DEF Spent
    <2>2. Used(m, k)' = Between(log[m], 0, k) + Between(orphans'[m], 0, k) + Cardinality(Holders(m, k))
      BY <1>2, <1>3 DEF Used, Live, Holders
    <2> QED BY <1>6, <2>1, <2>2
  <1>8. ASSUME NEW m \in Models
        PROVE  Used(m, phase)' <= Rpd[m] /\ Used(m, Minute)' <= Rpm[m]
    <2>1. PICK k \in -1 .. Oldest : k = phase
      BY <1>1, AgesAre
    <2>2. Used(m, phase)' = Used(m, k)'
      BY <1>2, <2>1 DEF Used, Live
    <2>3. Minute \in -1 .. Oldest
      BY AgesAre
    <2>4. /\ Used(m, k) <= Rpd[m] /\ Used(m, Minute) <= Rpm[m] /\ Rpd[m] \in Nat /\ Rpm[m] \in Nat
      BY <2>1, CallsAssumption DEF CallsInv
    <2>5. /\ Used(m, k)' <= Used(m, k) /\ Used(m, k)' \in Nat /\ Used(m, k) \in Nat
          /\ Used(m, Minute)' <= Used(m, Minute) /\ Used(m, Minute)' \in Nat /\ Used(m, Minute) \in Nat
      BY <1>7, <2>3
    <2> QED BY <2>2, <2>4, <2>5
  <1>9. ASSUME NEW m \in Models, NEW k \in 0 .. Minute - Slack
        PROVE  Known(m, k)'
    <2>1. k + Slack \in -1 .. Oldest /\ k + Slack <= Cleanup
      BY AgesAre
    <2>2. Spent(m, k + Slack)' = Spent(m, k + Slack)
      BY <1>2, <1>6, <2>1 DEF Spent
    <2>3. Known(m, k)
      BY DEF CallsInv
    <2> QED BY <1>2, <2>2, <2>3 DEF Known
  <1>10. \A q \in Procs : CallOK(call[q])'
    <2>1. \A q \in Procs : CallOK(call'[q])
      BY <1>3 DEF CallsInv
    <2> QED BY <2>1 DEF CallOK, Sent, Free, Acting
  <1> QED BY <1>1, <1>2, <1>3, <1>4, <1>8, <1>9, <1>10 DEF CallsInv

-----------------------------------------------------------------------------
(* The steps of a call *)

\* A call begins with its transaction open.
LEMMA StartsStep ==
  ASSUME CallsInv, NEW p \in Procs, NEW kind \in Kinds \cup {"text"}, Starts(p, kind)
  PROVE  CallsInv'
  <1>1. PICK age \in 0 .. Slack :
          call' = [call EXCEPT ![p] =
                    [Idle EXCEPT !.pc = "check", !.kind = kind, !.opened = age,
                       !.chain = IF kind \in {"briefing", "trade"} THEN Premium ELSE Routine]]
    BY DEF Starts, Update
  <1>2. PICK y : y = [Idle EXCEPT !.pc = "check", !.kind = kind, !.opened = age,
                       !.chain = IF kind \in {"briefing", "trade"} THEN Premium ELSE Routine]
    OBVIOUS
  <1>3. /\ y.pc = "check" /\ y.kind = kind /\ y.opened = age /\ y.row = None /\ y.out = None
        /\ y.at = 1 /\ y.chain \in {Premium, Routine}
    BY <1>2 DEF Idle
  <1>4. y \in Call
    <2>1. kind \in {"text", "batch", "briefing", "trade"}
      BY CallsAssumption
    <2>2. age \in Ages
      BY AgesAre
    <2>3. Idle \in Call
      BY IdleOK
    <2> QED BY <1>2, <2>1, <2>2, <2>3 DEF Call, Pcs
  <1>5. 1 \in 1 .. Len(y.chain)
    BY <1>3, Chains
  <1>6. CallOK(y)
    BY <1>3, <1>4, <1>5 DEF CallOK, Acting, Free
  <1>7. call[p].pc # "sent" /\ UNCHANGED <<phase, log, orphans, served>>
    BY DEF Starts
  <1>8. call' = [call EXCEPT ![p] = y]
    BY <1>1, <1>2
  <1> QED BY <1>3, <1>4, <1>6, <1>7, <1>8, QuietStep

\* A call whose turn it is, with its transaction open.
LEMMA OpenedActs ==
  ASSUME NEW c, Free(c), NEW y, y = [c EXCEPT !.opened = Opened(c)]
  PROVE  /\ Free(y) /\ y.opened \in 0 .. Slack /\ Model(y) = Model(c)
         /\ y.pc = c.pc /\ y.have = c.have
  <1>1. Opened(c) \in 0 .. Slack
    BY AgesAre DEF Opened, Free
  <1>2. Opened(c) \in Ages
    BY <1>1, AgesAre
  <1>3. y \in Call
    BY <1>2 DEF Free, Call
  <1>4. /\ y.pc = c.pc /\ y.have = c.have /\ y.at = c.at /\ y.chain = c.chain
        /\ y.row = c.row /\ y.out = c.out /\ y.opened = Opened(c)
    BY DEF Free, Call
  <1> QED BY <1>1, <1>3, <1>4 DEF Free, Model

\* What ensure_quota answers; it is fine only below both limits.
LEMMA VerdictsAre ==
  ASSUME CallsInv, NEW m \in Models, NEW v \in Verdicts(m)
  PROVE  /\ v # "ok" => v \in Reasons
         /\ v = "ok" => Used(m, phase) < Rpd[m] /\ Used(m, Minute) < Rpm[m]
  <1>1. phase \in -1 .. Oldest /\ Minute \in -1 .. Oldest
    BY AgesAre DEF CallsInv
  <1>2. Used(m, phase) \in Nat /\ Used(m, Minute) \in Nat
    <2>1. \A k \in -1 .. Oldest : Used(m, k) \in Nat
      BY UsedType
    <2> QED BY <1>1, <2>1
  <1>3. Rpd[m] \in Nat /\ Rpm[m] \in Nat
    BY CallsAssumption
  <1>4. /\ v \in {"ok", "tpm", "rpd", "rpm"}
        /\ v = "ok" => ~(Used(m, phase) >= Rpd[m]) /\ ~(Used(m, Minute) >= Rpm[m])
    BY Zenon DEF Verdicts
  <1>5. v # "ok" => v \in Reasons
    BY <1>4 DEF Reasons
  <1>6. \A x, y \in Nat : ~(x >= y) => x < y
    OBVIOUS
  <1> QED BY <1>2, <1>3, <1>4, <1>5, <1>6, Zenon

\* The first look at the quota.
LEMMA CheckStep ==
  ASSUME CallsInv, NEW p \in Procs, Check(p)
  PROVE  CallsInv'
  <1>1. call[p] \in Call /\ CallOK(call[p]) /\ call[p].pc = "check"
    BY DEF CallsInv, Check
  <1>2. Free(call[p]) /\ Model(call[p]) \in Models
    BY <1>1, CallFacts
  <1>3. PICK c : c = [call[p] EXCEPT !.opened = Opened(call[p])]
    OBVIOUS
  <1>4. Free(c) /\ c.pc = "check"
    BY <1>1, <1>2, <1>3, OpenedActs
  <1>5. PICK v \in Verdicts(Model(call[p])) :
          call' = [call EXCEPT ![p] = IF v = "ok" THEN [c EXCEPT !.pc = "reserve"]
                                      ELSE NextModel(c, v)]
    BY <1>3 DEF Check, Update
  <1>6. PICK y : y = IF v = "ok" THEN [c EXCEPT !.pc = "reserve"] ELSE NextModel(c, v)
    OBVIOUS
  <1>7. Acting(y)
    <2>1. CASE v = "ok"
      <3>1. y = [c EXCEPT !.pc = "reserve"]
        BY <1>6, <2>1
      <3>2. y \in Call
        BY <1>4, <3>1 DEF Free, Call, Pcs
      <3>3. /\ y.pc = "reserve" /\ y.at = c.at /\ y.chain = c.chain /\ y.row = c.row
            /\ y.out = c.out /\ y.opened = c.opened
        BY <1>4, <3>1 DEF Free, Call
      <3> QED BY <1>4, <3>2, <3>3 DEF Acting, Free
    <2>2. CASE v # "ok"
      BY <1>2, <1>4, <1>5, <1>6, <2>2, VerdictsAre, NextModelActs
    <2> QED BY <2>1, <2>2
  <1>8. y \in Call /\ CallOK(y) /\ y.pc # "sent"
    BY <1>7 DEF Acting, Free, CallOK
  <1>9. call' = [call EXCEPT ![p] = y] /\ UNCHANGED <<phase, log, orphans, served>>
    BY <1>5, <1>6 DEF Check
  <1> QED BY <1>1, <1>8, <1>9, QuietStep

\* The reservation: counted and written under the lock of the model.
LEMMA ReserveStep ==
  ASSUME CallsInv, NEW p \in Procs, Reserve(p)
  PROVE  CallsInv'
  <1>1. call[p] \in Call /\ CallOK(call[p]) /\ call[p].pc \in {"reserve", "sleep"}
    BY DEF CallsInv, Reserve
  <1>2. Free(call[p]) /\ Model(call[p]) \in Models
    BY <1>1, CallFacts
  <1>3. PICK c : c = [call[p] EXCEPT !.opened = Opened(call[p])]
    OBVIOUS
  <1>4. Free(c) /\ c.opened \in 0 .. Slack /\ Model(c) = Model(call[p])
    BY <1>2, <1>3, OpenedActs
  <1>5. PICK v \in Verdicts(Model(call[p])) :
          call' = [call EXCEPT ![p] =
                    IF v = "ok" THEN [c EXCEPT !.pc = "sent", !.row = c.opened, !.opened = None,
                                               !.out = 0]
                    ELSE CallFails(c, v)]
    BY <1>3 DEF Reserve, Update
  <1>6. UNCHANGED <<phase, log, orphans, served>>
    BY DEF Reserve
  <1>7. CASE v = "ok"
    <2>1. PICK y : y = [c EXCEPT !.pc = "sent", !.row = c.opened, !.opened = None, !.out = 0]
      OBVIOUS
    <2>2. c.opened \in Ages /\ 0 \in Ages /\ 0 \in 0 .. Flight /\ c.opened \in Nat
          /\ c.opened <= 0 + Slack
      BY <1>4, AgesAre
    <2>3. y \in Call
      BY <1>4, <2>1, <2>2 DEF Free, Call, Pcs
    <2>4. /\ y.pc = "sent" /\ y.at = c.at /\ y.chain = c.chain /\ y.row = c.opened
          /\ y.out = 0 /\ y.opened = None
      BY <1>4, <2>1 DEF Free, Call
    <2>5. Sent(y)
      BY <1>4, <2>2, <2>3, <2>4 DEF Sent, Free
    <2>6. CallOK(y) /\ Model(y) = Model(call[p])
      BY <1>4, <2>4, <2>5 DEF CallOK, Model
    <2>7. Used(Model(y), phase) < Rpd[Model(y)] /\ Used(Model(y), Minute) < Rpm[Model(y)]
      BY <1>2, <1>7, <2>6, VerdictsAre
    <2>8. call' = [call EXCEPT ![p] = y]
      BY <1>5, <1>7, <2>1
    <2> QED BY <1>1, <1>6, <2>3, <2>4, <2>6, <2>7, <2>8, SendStep
  <1>8. CASE v # "ok"
    <2>1. PICK y : y = CallFails(c, v)
      OBVIOUS
    <2>2. Acting(y)
      BY <1>2, <1>4, <1>8, <2>1, VerdictsAre, FailActs
    <2>3. y \in Call /\ CallOK(y) /\ y.pc # "sent"
      BY <2>2 DEF Acting, Free, CallOK
    <2>4. call' = [call EXCEPT ![p] = y]
      BY <1>5, <1>8, <2>1
    <2> QED BY <1>1, <1>6, <2>3, <2>4, QuietStep
  <1> QED BY <1>7, <1>8

\* A call without its request is as one that was not sent.
LEMMA UnsentFree ==
  ASSUME NEW c, Sent(c), NEW y, y = [c EXCEPT !.row = None, !.out = None]
  PROVE  /\ Free(y) /\ y.opened = None /\ Model(y) = Model(c) /\ Model(c) \in Models
         /\ y.attempt = c.attempt
  <1>1. y \in Call
    BY DEF Sent, Call
  <1>2. /\ y.at = c.at /\ y.chain = c.chain /\ y.row = None /\ y.out = None
        /\ y.opened = c.opened /\ y.attempt = c.attempt
    BY DEF Sent, Call
  <1>3. Free(y) /\ y.opened = None
    BY <1>1, <1>2 DEF Free, Sent
  <1>4. c.chain \in {Premium, Routine} /\ c.at \in 1 .. Len(c.chain)
    BY DEF Sent, Call
  <1>5. Model(y) = Model(c) /\ Model(c) \in Models
    BY <1>2, <1>4, Chains DEF Model
  <1> QED BY <1>2, <1>3, <1>5

\* A request that is repeated after a while.
LEMMA RetriedOK ==
  ASSUME NEW c, Free(c), c.opened = None, NEW o, MayRetry(c, o)
  PROVE  /\ Retried(c, o) \in Call /\ CallOK(Retried(c, o)) /\ Retried(c, o).pc # "sent"
  <1>1. PICK y : y = [c EXCEPT !.pc = "sleep", !.attempt = @ + 1]
    OBVIOUS
  <1>2. c.attempt \in 1 .. MaxAttempts /\ c.attempt < MaxAttempts
    BY DEF Free, Call, MayRetry
  <1>3. c.attempt + 1 \in 1 .. MaxAttempts
    BY <1>2, AgesAre
  <1>4. y \in Call
    BY <1>1, <1>3 DEF Free, Call, Pcs
  <1>5. /\ y.pc = "sleep" /\ y.at = c.at /\ y.chain = c.chain /\ y.row = c.row
        /\ y.out = c.out /\ y.opened = c.opened
    BY <1>1 DEF Free, Call
  <1>6. CallOK(y)
    BY <1>4, <1>5 DEF CallOK, Free
  <1> QED BY <1>1, <1>4, <1>5, <1>6 DEF Retried

\* The response, or what comes instead of one.
LEMMA RespondStep ==
  ASSUME CallsInv, NEW p \in Procs, Respond(p)
  PROVE  CallsInv'
  <1>1. call[p] \in Call /\ CallOK(call[p]) /\ call[p].pc = "sent"
    BY DEF CallsInv, Respond
  <1>2. Sent(call[p])
    BY <1>1, CallFacts
  <1> DEFINE c == [call[p] EXCEPT !.row = None, !.out = None]
  <1>4. Free(c) /\ c.opened = None /\ Model(c) = Model(call[p])
    BY <1>2, UnsentFree
  <1>5. PICK o \in Outcomes :
          /\ \E d \in CASE MayRetry(c, o) -> {Retried(c, o)}
                        [] ~MayRetry(c, o) /\ o \in {"limited", "limited long"} ->
                             {CallFails(c, "upstream 429")}
                        [] o = "text" /\ Batch(c) ->
                             {AfterBatch(c, t) : t \in Texts} \cup {CallFails(c, "upstream")}
                        [] o = "text" /\ ~Batch(c) ->
                             {AfterText(c, v) : v \in BOOLEAN} \cup {CallFails(c, "upstream")}
                        [] OTHER -> {CallFails(c, "upstream")} :
               call' = [call EXCEPT ![p] = d]
          /\ log' = IF Charged(c, o) /\ call[p].row # None THEN Settled(call[p], log) ELSE log
          /\ served' = IF o \in Served THEN Counted(served, Model(c), call[p].out) ELSE served
    BY Zenon DEF Respond, Update
  <1> HIDE DEF c
  <1>6. PICK y : /\ call' = [call EXCEPT ![p] = y]
                 /\ \/ MayRetry(c, o) /\ y = Retried(c, o)
                    \/ y \in {CallFails(c, "upstream"), CallFails(c, "upstream 429")}
                    \/ \E t \in Texts : y = AfterBatch(c, t)
                    \/ \E v \in BOOLEAN : y = AfterText(c, v)
    <2>1. CASE MayRetry(c, o)
      BY <1>5, <2>1, Zenon
    <2>2. CASE ~MayRetry(c, o) /\ o \in {"limited", "limited long"}
      BY <1>5, <2>2, Zenon
    <2>3. CASE ~MayRetry(c, o) /\ ~(o \in {"limited", "limited long"})
      <3>1. CASE o = "text" /\ Batch(c)
        BY <1>5, <2>3, <3>1, Zenon
      <3>2. CASE o = "text" /\ ~Batch(c)
        BY <1>5, <2>3, <3>2, Zenon
      <3>3. CASE ~(o = "text")
        BY <1>5, <2>3, <3>3, Zenon
      <3> QED BY <3>1, <3>2, <3>3
    <2> QED BY <2>1, <2>2, <2>3
  <1>7. y \in Call /\ CallOK(y) /\ y.pc # "sent"
    <2>1. CASE MayRetry(c, o) /\ y = Retried(c, o)
      BY <1>4, <2>1, RetriedOK
    <2>2. CASE ~(MayRetry(c, o) /\ y = Retried(c, o))
      <3>1. Acting(CallFails(c, "upstream")) /\ Acting(CallFails(c, "upstream 429"))
        BY <1>4, FailActs DEF Reasons
      <3>2. \A t \in Texts : Acting(AfterBatch(c, t))
        BY <1>4, BatchActs
      <3>3. \A v \in BOOLEAN : Acting(AfterText(c, v))
        BY <1>4, TextActs
      <3>4. Acting(y)
        BY <1>6, <2>2, <3>1, <3>2, <3>3
      <3> QED BY <3>4 DEF Acting, Free, CallOK
    <2> QED BY <2>1, <2>2
  <1>8. PICK charged \in BOOLEAN, taken \in BOOLEAN :
          (charged <=> Charged(c, o)) /\ (taken <=> o \in Served)
    <2>1. \E b \in BOOLEAN : b <=> Charged(c, o)
      BY Zenon
    <2>2. \E b \in BOOLEAN : b <=> o \in Served
      BY Zenon
    <2> QED BY <2>1, <2>2, Zenon
  <1>9. taken => charged
    BY <1>8 DEF Served, Charged
  <1>10. PICK M, r, a : M = Model(call[p]) /\ r = call[p].row /\ a = call[p].out
    OBVIOUS
  <1>11. r # None
    BY <1>2, <1>10, AgesAre DEF Sent, None
  <1>12. log' = IF charged THEN Counted(log, M, r) ELSE log
    BY <1>5, <1>8, <1>10, <1>11, Zenon DEF Settled
  <1>13. served' = IF taken THEN Counted(served, M, a) ELSE served
    BY <1>4, <1>5, <1>8, <1>10, Zenon
  <1>14. phase' = phase /\ orphans' = orphans
    BY DEF Respond
  <1>15. FALSE \in BOOLEAN /\ orphans' = IF FALSE THEN Counted(orphans, M, r) ELSE orphans
    BY <1>14
  <1> QED BY <1>1, <1>6, <1>7, <1>9, <1>10, <1>12, <1>13, <1>14, <1>15, GiveUpStep

\* The call has ended, or is cancelled while it waits.
LEMMA IdleStep ==
  ASSUME CallsInv, NEW p \in Procs, Update(p, Idle), call[p].pc # "sent",
         UNCHANGED <<phase, log, orphans, served>>
  PROVE  CallsInv'
  <1>1. PICK y : y = Idle
    OBVIOUS
  <1>2. y \in Call /\ CallOK(y) /\ y.pc # "sent"
    BY <1>1, IdleOK
  <1>3. call' = [call EXCEPT ![p] = y]
    BY <1>1 DEF Update
  <1> QED BY <1>2, <1>3, QuietStep

\* A request is cancelled (its quota comes back), or its process dies (it stays).
LEMMA EndStep ==
  ASSUME CallsInv, NEW p \in Procs, Cancel(p) \/ Die(p)
  PROVE  CallsInv'
  <1>1. CASE call[p].pc # "sent"
    <2>1. Update(p, Idle) /\ UNCHANGED <<phase, log, orphans, served>>
      BY <1>1 DEF Cancel, Die
    <2> QED BY <1>1, <2>1, IdleStep
  <1>2. CASE call[p].pc = "sent"
    <2>1. PICK y : y = Idle
      OBVIOUS
    <2>2. y \in Call /\ CallOK(y) /\ y.pc # "sent"
      BY <2>1, IdleOK
    <2>3. call' = [call EXCEPT ![p] = y] /\ phase' = phase /\ log' = log
      BY <2>1 DEF Cancel, Die, Update
    <2>4. PICK M, r, o : M = Model(call[p]) /\ r = call[p].row /\ o = call[p].out
      OBVIOUS
    <2>5. PICK died \in BOOLEAN :
            /\ orphans' = IF died THEN Counted(orphans, M, r) ELSE orphans
            /\ served' = IF died THEN Counted(served, M, o) ELSE served
      <3>1. CASE Die(p)
        <4>1. /\ orphans' = IF TRUE THEN Counted(orphans, M, r) ELSE orphans
              /\ served' = IF TRUE THEN Counted(served, M, o) ELSE served
          BY <2>4, <3>1 DEF Die
        <4> QED BY <4>1
      <3>2. CASE Cancel(p)
        <4>1. /\ orphans' = IF FALSE THEN Counted(orphans, M, r) ELSE orphans
              /\ served' = IF FALSE THEN Counted(served, M, o) ELSE served
          BY <3>2 DEF Cancel
        <4> QED BY <4>1
      <3> QED BY <3>1, <3>2
    <2>6. FALSE \in BOOLEAN /\ log' = IF FALSE THEN Counted(log, M, r) ELSE log
      BY <2>3
    <2> QED BY <1>2, <2>2, <2>3, <2>4, <2>5, <2>6, GiveUpStep
  <1> QED BY <1>1, <1>2

-----------------------------------------------------------------------------
(* The loop of the news *)

NewsInv ==
  /\ CallsInv
  /\ news \in Turn /\ EveryStockOnce
  /\ news.pc = "asking" => news.left > 0

\* Nothing of the calls changes.
LEMMA CallsRest ==
  ASSUME CallsInv, UNCHANGED callVars
  PROVE  CallsInv'
  BY DEF CallsInv, callVars, Known, Spent, Used, Live, Model, CallOK, Sent, Free, Acting

\* A turn that is over is counted once.
LEMMA OverCounts ==
  ASSUME NEW n \in Turn, n.left > 0,
         n.researched + n.failed + n.skipped + n.left = Stocks,
         NEW x, x \in {[Over(n) EXCEPT !.researched = @ + 1], [Over(n) EXCEPT !.failed = @ + 1],
                       [Over(n) EXCEPT !.skipped = @ + 1]}
  PROVE  /\ x \in Turn /\ x.pc = "next"
         /\ x.researched + x.failed + x.skipped + x.left = Stocks
  <1>1. Stocks \in Nat /\ NewsRetries \in Nat \ {0} /\ 1 \in 1 .. NewsRetries
    BY NewsAssumption
  <1>2. /\ n.left \in 1 .. Stocks /\ n.researched \in Nat /\ n.failed \in Nat /\ n.skipped \in Nat
        /\ n.left - 1 \in 0 .. Stocks
    BY <1>1 DEF Turn
  <1>3. PICK y : y = Over(n)
    OBVIOUS
  <1>4. y \in Turn
    BY <1>1, <1>2, <1>3 DEF Over, Turn
  <1>5. /\ y.pc = "next" /\ y.left = n.left - 1 /\ y.researched = n.researched
        /\ y.failed = n.failed /\ y.skipped = n.skipped
    BY <1>3 DEF Over, Turn
  <1>6. CASE x = [Over(n) EXCEPT !.researched = @ + 1]
    <2>1. x \in Turn
      BY <1>2, <1>3, <1>4, <1>6 DEF Turn
    <2>2. /\ x.pc = "next" /\ x.left = n.left - 1 /\ x.researched = n.researched + 1
          /\ x.failed = n.failed /\ x.skipped = n.skipped
      BY <1>3, <1>4, <1>5, <1>6 DEF Turn
    <2> QED BY <1>1, <1>2, <2>1, <2>2
  <1>7. CASE x = [Over(n) EXCEPT !.failed = @ + 1]
    <2>1. x \in Turn
      BY <1>2, <1>3, <1>4, <1>7 DEF Turn
    <2>2. /\ x.pc = "next" /\ x.left = n.left - 1 /\ x.researched = n.researched
          /\ x.failed = n.failed + 1 /\ x.skipped = n.skipped
      BY <1>3, <1>4, <1>5, <1>7 DEF Turn
    <2> QED BY <1>1, <1>2, <2>1, <2>2
  <1>8. CASE x = [Over(n) EXCEPT !.skipped = @ + 1]
    <2>1. x \in Turn
      BY <1>2, <1>3, <1>4, <1>8 DEF Turn
    <2>2. /\ x.pc = "next" /\ x.left = n.left - 1 /\ x.researched = n.researched
          /\ x.failed = n.failed /\ x.skipped = n.skipped + 1
      BY <1>3, <1>4, <1>5, <1>8 DEF Turn
    <2> QED BY <1>1, <1>2, <2>1, <2>2
  <1> QED BY <1>6, <1>7, <1>8

\* However the loop handles an error, every stock stays accounted for.
LEMMA HandledCounts ==
  ASSUME NEW n \in Turn, n.left > 0,
         n.researched + n.failed + n.skipped + n.left = Stocks,
         NEW error, NEW x, x = Handled(n, error)
  PROVE  /\ x \in Turn /\ x.pc = "next"
         /\ x.researched + x.failed + x.skipped + x.left = Stocks
  <1>1. Stocks \in Nat /\ NewsRetries \in Nat \ {0}
    BY NewsAssumption
  <1>2. /\ n.left \in 0 .. Stocks /\ n.tries \in 1 .. NewsRetries /\ n.researched \in Nat
        /\ n.failed \in Nat /\ n.skipped \in Nat
    BY DEF Turn
  <1>3. CASE error \in {"rpd", "upstream 429"}
    <2>1. x = [n EXCEPT !.pc = "next", !.left = 0, !.skipped = @ + n.left]
      BY <1>3 DEF Handled
    <2>2. 0 \in 0 .. Stocks /\ n.skipped + n.left \in Nat
      BY <1>1, <1>2
    <2>3. x \in Turn
      BY <2>1, <2>2 DEF Turn
    <2>4. /\ x.pc = "next" /\ x.left = 0 /\ x.researched = n.researched
          /\ x.failed = n.failed /\ x.skipped = n.skipped + n.left
      BY <2>1 DEF Turn
    <2> QED BY <1>1, <1>2, <2>3, <2>4
  <1>4. CASE error \in {"rpm", "tpm"} /\ n.tries < NewsRetries
    <2>1. x = [n EXCEPT !.pc = "next", !.tries = @ + 1]
      <3>1. error \notin {"rpd", "upstream 429"} /\ n.tries # NewsRetries
        <4>1. error \in {"rpm", "tpm"} => error \notin {"rpd", "upstream 429"}
          OBVIOUS
        <4>2. n.tries # NewsRetries
          BY <1>1, <1>2, <1>4
        <4> QED BY <1>4, <4>1, <4>2
      <3> QED BY <1>4, <3>1, Zenon DEF Handled
    <2>2. n.tries + 1 \in 1 .. NewsRetries
      BY <1>1, <1>2, <1>4
    <2>3. x \in Turn
      BY <2>1, <2>2 DEF Turn
    <2>4. /\ x.pc = "next" /\ x.left = n.left /\ x.researched = n.researched
          /\ x.failed = n.failed /\ x.skipped = n.skipped
      BY <2>1 DEF Turn
    <2> QED BY <2>3, <2>4
  <1>5. CASE ~(error \in {"rpd", "upstream 429"}) /\ ~(error \in {"rpm", "tpm"} /\ n.tries < NewsRetries)
    <2>1. x \in {[Over(n) EXCEPT !.skipped = @ + 1], [Over(n) EXCEPT !.failed = @ + 1]}
      <3>1. CASE error \in {"rpm", "tpm"} /\ n.tries = NewsRetries
        <4>1. x = [Over(n) EXCEPT !.skipped = @ + 1]
          BY <1>5, <3>1, Zenon DEF Handled
        <4> QED BY <4>1
      <3>2. CASE ~(error \in {"rpm", "tpm"} /\ n.tries = NewsRetries)
        <4>1. x = [Over(n) EXCEPT !.failed = @ + 1]
          BY <1>5, <3>2, Zenon DEF Handled
        <4> QED BY <4>1
      <3> QED BY <3>1, <3>2
    <2> QED BY <2>1, OverCounts
  <1> QED BY <1>3, <1>4, <1>5

\* Every step of the news or of any other caller preserves all of it.
LEMMA NewsMoves ==
  ASSUME NewsInv, NewsNext
  PROVE  NewsInv'
  <1>1. CallsInv /\ news \in Turn /\ EveryStockOnce
    BY DEF NewsInv
  <1>2. Newsroom \in Procs
    BY NewsAssumption
  <1>3. PICK n : n = news
    OBVIOUS
  <1>4. n.researched + n.failed + n.skipped + n.left = Stocks
    BY <1>1, <1>3 DEF EveryStockOnce
  <1>5. CASE UNCHANGED news
    <2>1. SUFFICES CallsInv'
      BY <1>5 DEF NewsInv, EveryStockOnce
    <2>2. CASE \E p \in Procs : CallSteps(p)
      BY <1>1, <2>2, CheckStep, ReserveStep, RespondStep DEF CallSteps
    <2>3. CASE \E p \in Others : Begin(p) \/ Return(p) \/ Cancel(p) \/ Die(p)
      <3>1. PICK p \in Procs : Begin(p) \/ Return(p) \/ Cancel(p) \/ Die(p)
        BY <2>3 DEF Others
      <3>2. CASE Begin(p)
        BY <1>1, <3>2, StartsStep DEF Begin
      <3>3. CASE Return(p)
        BY <1>1, <3>3, IdleStep DEF Return
      <3>4. CASE Cancel(p) \/ Die(p)
        BY <1>1, <3>4, EndStep
      <3> QED BY <3>1, <3>2, <3>3, <3>4
    <2>4. CASE Clock
      BY <1>1, <2>4, TickStep, DropStep DEF Clock
    <2>5. CASE NewsLoop
      <3>1. CASE WithoutModel \/ FeedFails
        BY <1>1, <3>1, CallsRest DEF WithoutModel, FeedFails
      <3>2. CASE Ask
        BY <1>1, <1>2, <3>2, StartsStep DEF Ask
      <3>3. CASE Told
        BY <1>1, <1>2, <3>3, IdleStep DEF Told
      <3> QED BY <2>5, <3>1, <3>2, <3>3 DEF NewsLoop
    <2> QED BY <2>2, <2>3, <2>4, <2>5 DEF NewsNext
  <1>6. CASE WithoutModel \/ FeedFails
    <2>1. CallsInv'
      BY <1>1, <1>6, CallsRest DEF WithoutModel, FeedFails
    <2>2. PICK x : x = news'
      OBVIOUS
    <2>3. x \in {[Over(n) EXCEPT !.researched = @ + 1], [Over(n) EXCEPT !.failed = @ + 1]}
          /\ n.left > 0
      BY <1>3, <1>6, <2>2 DEF WithoutModel, FeedFails
    <2>4. /\ x \in Turn /\ x.pc = "next" /\ x.researched + x.failed + x.skipped + x.left = Stocks
      BY <1>1, <1>3, <1>4, <2>3, OverCounts
    <2> QED BY <2>1, <2>2, <2>4 DEF NewsInv, EveryStockOnce
  <1>7. CASE Ask
    <2>1. CallsInv'
      BY <1>1, <1>2, <1>7, StartsStep DEF Ask
    <2>2. PICK x : x = news'
      OBVIOUS
    <2>3. x = [n EXCEPT !.pc = "asking"] /\ n.left > 0
      BY <1>3, <1>7, <2>2 DEF Ask
    <2>4. /\ x \in Turn /\ x.left = n.left /\ x.researched = n.researched
          /\ x.failed = n.failed /\ x.skipped = n.skipped
      BY <1>1, <1>3, <2>3 DEF Turn
    <2> QED BY <1>4, <2>1, <2>2, <2>3, <2>4 DEF NewsInv, EveryStockOnce
  <1>8. CASE Told
    <2>1. CallsInv'
      BY <1>1, <1>2, <1>8, IdleStep DEF Told
    <2>2. PICK x : x = news'
      OBVIOUS
    <2>3. n.left > 0
      BY <1>3, <1>8 DEF Told, NewsInv
    <2>4. \/ x = [Over(n) EXCEPT !.researched = @ + 1]
          \/ x = [Over(n) EXCEPT !.failed = @ + 1]
          \/ x = Handled(n, Raised(call[Newsroom].why))
      BY <1>3, <1>8, <2>2 DEF Told, Answered, Unstored
    <2>5. /\ x \in Turn /\ x.pc = "next" /\ x.researched + x.failed + x.skipped + x.left = Stocks
      BY <1>1, <1>3, <1>4, <2>3, <2>4, OverCounts, HandledCounts
    <2> QED BY <2>1, <2>2, <2>5 DEF NewsInv, EveryStockOnce
  <1> QED BY <1>5, <1>6, <1>7, <1>8 DEF NewsNext, NewsLoop

\* Nobody has asked for anything at first.
LEMMA NewsStart ==
  ASSUME NewsInit
  PROVE  NewsInv
  <1>1. CallsInit
    BY DEF NewsInit
  <1>2. log \in Tables /\ orphans \in Tables /\ served \in Tables
    BY <1>1 DEF CallsInit, NoRows, Tables, Rows
  <1>3. ASSUME NEW rows \in {log, orphans, served}, NEW m \in Models, NEW k \in -1 .. Oldest
        PROVE  Between(rows[m], 0, k) = 0
    <2>1. PICK none : none = rows[m]
      OBVIOUS
    <2>2. none \in Rows /\ \A a \in Ages : none[a] = 0
      BY <1>1, <2>1 DEF CallsInit, NoRows, Rows
    <2>3. k + 1 \in Nat
      BY AgesAre
    <2> DEFINE S == {n \in Nat : n - 1 <= Oldest => Between(none, 0, n - 1) = 0}
    <2>4. 0 \in S
      <3>1. 0 - 1 = -1
        OBVIOUS
      <3> QED BY <3>1, BetweenStep
    <2>5. ASSUME NEW n \in S PROVE n + 1 \in S
      <3>1. CASE n <= Oldest
        <4>1. n \in Nat /\ n \in Ages /\ (n + 1) - 1 = n /\ n - 1 <= Oldest
          BY <3>1, AgesAre
        <4>2. Between(none, 0, n) = Between(none, 0, n - 1) + none[n]
          BY <4>1, BetweenStep
        <4>3. Between(none, 0, n - 1) = 0 /\ none[n] = 0
          BY <2>2, <4>1
        <4> QED BY <4>1, <4>2, <4>3
      <3>2. CASE ~(n <= Oldest)
        BY <3>2, AgesAre
      <3> QED BY <3>1, <3>2
    <2>6. S = Nat
      <3> HIDE DEF S
      <3>1. S \in SUBSET Nat
        BY DEF S
      <3> QED BY <2>4, <2>5, <3>1, CountUp
    <2>7. (k + 1) - 1 = k /\ k <= Oldest /\ k + 1 \in S
      <3>1. k <= Oldest /\ (k + 1) - 1 = k
        BY AgesAre
      <3>2. k + 1 \in S
        BY <2>3, <2>6
      <3> QED BY <3>1, <3>2
    <2> QED BY <2>1, <2>7
  <1>4. \A p \in Procs : call[p] = Idle
    BY <1>1 DEF CallsInit
  <1>5. call \in [Procs -> Call] /\ \A p \in Procs : CallOK(call[p])
    BY <1>1, <1>4, IdleOK DEF CallsInit
  <1>6. ASSUME NEW m \in Models, NEW k \in -1 .. Oldest
        PROVE  Used(m, k) = 0
    <2>1. Holders(m, k) = {}
      BY <1>4 DEF Holders, Idle, None
    <2>2. Cardinality(Holders(m, k)) = 0
      BY <2>1, FS_EmptySet
    <2>3. Between(log[m], 0, k) = 0 /\ Between(orphans[m], 0, k) = 0
      BY <1>3
    <2> QED BY <2>2, <2>3, HoldersFinite DEF Used
  <1>7. phase = 0 /\ phase \in 0 .. Day - 1 /\ phase \in -1 .. Oldest /\ Minute \in -1 .. Oldest
    BY <1>1, AgesAre DEF CallsInit
  <1>8. \A m \in Models : Used(m, phase) <= Rpd[m] /\ Used(m, Minute) <= Rpm[m]
    BY <1>6, <1>7, CallsAssumption
  <1>9. ASSUME NEW m \in Models, NEW k \in 0 .. Minute - Slack
        PROVE  Known(m, k)
    <2>1. k \in -1 .. Oldest /\ k + Slack \in -1 .. Oldest
      BY AgesAre
    <2>2. /\ Between(served[m], 0, k) = 0
          /\ Between(log[m], 0, k + Slack) = 0 /\ Between(orphans[m], 0, k + Slack) = 0
      BY <1>3, <2>1
    <2> QED BY <2>2 DEF Known, Spent
  <1>10. CallsInv
    BY <1>2, <1>5, <1>7, <1>8, <1>9 DEF CallsInv
  <1>11. Stocks \in Nat /\ 1 \in 1 .. NewsRetries
    BY NewsAssumption
  <1>12. news \in Turn /\ EveryStockOnce /\ news.pc = "next"
    BY <1>11 DEF NewsInit, Turn, EveryStockOnce
  <1> QED BY <1>10, <1>12 DEF NewsInv

\* The invariant of the calls and of the loop: what is counted, who holds what, and who has
\* served what the limits allow (core/rate_limiter.py, providers/ai, scheduler/jobs.py).
THEOREM NewsCorrect == NewsSpec => []NewsInv
  <1>1. NewsInit => NewsInv
    BY NewsStart
  <1>2. NewsInv /\ [NewsNext]_vars => NewsInv'
    <2> SUFFICES ASSUME NewsInv, [NewsNext]_vars PROVE NewsInv'
      OBVIOUS
    <2>1. CASE NewsNext
      BY <2>1, NewsMoves
    <2>2. CASE UNCHANGED vars
      <3>1. UNCHANGED callVars /\ UNCHANGED news
        BY <2>2 DEF vars
      <3>2. CallsInv'
        BY <3>1, CallsRest DEF NewsInv
      <3> QED BY <3>1, <3>2 DEF NewsInv, EveryStockOnce
    <2> QED BY <2>1, <2>2
  <1> QED BY <1>1, <1>2, PTL DEF NewsSpec

\* Every variable keeps its type, no call answers with nothing, and every managed stock is
\* researched, failed, skipped or still to come (NewsTypeOK).
THEOREM NewsTypesHold == NewsSpec => []NewsTypeOK
  <1>1. NewsInv => NewsTypeOK
    <2> SUFFICES ASSUME NewsInv PROVE NewsTypeOK
      OBVIOUS
    <2>1. CallsInv /\ news \in Turn /\ EveryStockOnce
      BY DEF NewsInv
    <2>2. ASSUME NEW p \in Procs
          PROVE  /\ call[p].at \in 1 .. Len(call[p].chain)
                 /\ call[p].pc = "answered" => call[p].have
      <3>1. call[p] \in Call /\ CallOK(call[p])
        BY <2>1 DEF CallsInv
      <3> QED BY <3>1, CallFacts DEF Acting
    <2>3. CallsTypeOK
      BY <2>1, <2>2 DEF CallsTypeOK, CallsInv, NeverEmptyAnswer, Tables, Rows
    <2> QED BY <2>1, <2>3 DEF NewsTypeOK
  <1> QED BY <1>1, NewsCorrect, PTL

\* The rows of the provider's day: usage, reservations of the living and those of the dead that
\* the cleanup has left stay within the RPD of the model together, and the cleanup never takes
\* the reservation of a request under way (WithinDay, ensure_quota, cleanup_expired_records).
THEOREM DayIsKept == NewsSpec => []WithinDay
  <1>1. NewsInv => WithinDay
    <2> SUFFICES ASSUME NewsInv PROVE WithinDay
      OBVIOUS
    <2>1. CallsInv
      BY DEF NewsInv
    <2>2. ASSUME NEW p \in Procs, call[p].pc = "sent" PROVE call[p].row # None
      <3>1. call[p] \in Call /\ CallOK(call[p])
        BY <2>1 DEF CallsInv
      <3>2. call[p].row \in Ages
        BY <2>2, <3>1, CallFacts DEF Sent
      <3> QED BY <3>2, AgesAre DEF None
    <2> QED BY <2>1, <2>2 DEF WithinDay, FlightKeepsReservation, CallsInv, Used
  <1> QED BY <1>1, NewsCorrect, PTL

\* The rolling minute: what the provider took on and what is on its way to it stay within
\* the RPM of the model, in a window that is shorter by the slack of the transactions
\* (WithinMinute, ensure_quota).
THEOREM MinuteIsKept ==
  ASSUME Slack <= Minute
  PROVE  NewsSpec => []WithinMinute
  <1>1. NewsInv => WithinMinute
    <2> SUFFICES ASSUME NewsInv, NEW m \in Models
        PROVE  Between(served[m], 0, Minute - Slack)
                 + Cardinality({p \in Procs : /\ call[p].out \in 0 .. Minute - Slack
                                              /\ Model(call[p]) = m}) <= Rpm[m]
      BY DEF WithinMinute
    <2>1. CallsInv
      BY DEF NewsInv
    <2>2. /\ Minute - Slack \in 0 .. Minute - Slack /\ (Minute - Slack) + Slack = Minute
          /\ Minute - Slack \in -1 .. Oldest /\ Minute \in -1 .. Oldest
      BY AgesAre
    <2>3. Between(served[m], 0, Minute - Slack) <= Spent(m, Minute)
      BY <2>1, <2>2 DEF CallsInv, Known
    <2> DEFINE late == {p \in Procs : call[p].out \in 0 .. Minute - Slack /\ Model(call[p]) = m}
    <2>4. late \subseteq Holders(m, Minute)
      <3>1. ASSUME NEW p \in Procs, call[p].out \in 0 .. Minute - Slack
            PROVE  call[p].row \in 0 .. Minute
        <4>1. call[p] \in Call /\ CallOK(call[p])
          BY <2>1 DEF CallsInv
        <4>2. call[p].out # None
          BY <3>1 DEF None
        <4>3. Sent(call[p])
          BY <4>1, <4>2, CallFacts DEF Free
        <4>4. call[p].row \in Ages /\ call[p].row <= call[p].out + Slack
          BY <4>3 DEF Sent
        <4> QED BY <3>1, <4>4, AgesAre
      <3> QED BY <3>1 DEF Holders
    <2>5. Cardinality(late) <= Cardinality(Holders(m, Minute)) /\ Cardinality(late) \in Nat
      <3>1. IsFiniteSet(Holders(m, Minute))
        BY HoldersFinite
      <3>2. IsFiniteSet(late) /\ Cardinality(late) <= Cardinality(Holders(m, Minute))
        BY <2>4, <3>1, FS_Subset
      <3> QED BY <3>2, FS_CardinalityType
    <2>6. /\ Used(m, Minute) = Spent(m, Minute) + Cardinality(Holders(m, Minute))
          /\ Spent(m, Minute) \in Nat /\ Cardinality(Holders(m, Minute)) \in Nat
      BY <2>1, <2>2, UsedType
    <2>7. Between(served[m], 0, Minute - Slack) \in Nat
      BY <2>1, <2>2, UsedType
    <2>8. Used(m, Minute) <= Rpm[m] /\ Rpm[m] \in Nat
      BY <2>1, CallsAssumption DEF CallsInv
    <2>9. Between(served[m], 0, Minute - Slack) + Cardinality(late) <= Rpm[m]
      <3> HIDE DEF late
      <3> QED BY <2>3, <2>5, <2>6, <2>7, <2>8
    <2> QED BY <2>9
  <1> QED BY <1>1, NewsCorrect, PTL

================================================================================
