-------------------------- MODULE CalculationsProofs --------------------------
(***************************************************************************)
(* Theorems about Calculations, for any fees, prices, purses, histories,   *)
(* answers and numbers of days.                                            *)
(*                                                                         *)
(* The calculations are recursive functions that count up: the rounds of a *)
(* search, the fills of a history, the days of a backtest.  What a         *)
(* recursive definition denotes is a CHOOSE, of which nothing is known     *)
(* before there is a function that satisfies its equation.  Recursion      *)
(* gives that function, of the type wanted, and says that no other follows *)
(* the same steps.  What holds of its values is then shown from one number *)
(* to the next (CountTo).                                                  *)
(***************************************************************************)
EXTENDS Calculations, SequenceTheorems, WellFoundedInduction, TLAPS

-----------------------------------------------------------------------------
(* Induction and recursion *)

\* A set of numbers that holds 0 and with every number the next holds all.
LEMMA CountUp ==
  ASSUME NEW S \in SUBSET Nat, 0 \in S, \A n \in S : n + 1 \in S
  PROVE  S = Nat
  <1>1. SUFFICES ASSUME NEW z \in Nat \ S PROVE FALSE
    OBVIOUS
  <1>2. PICK x \in Nat \ S : \A y \in Nat \ S : ~(<<y, x>> \in OpToRel(<, Nat))
    BY <1>1, NatLessThanWellFounded, WFMin, Zenon
  <1>7. x \in Nat \ S
    OBVIOUS
  <1>3. x - 1 \in Nat /\ x - 1 < x /\ (x - 1) + 1 = x
    BY <1>7
  <1>4. x - 1 \notin S
    BY <1>7, <1>3
  <1>5. <<x - 1, x>> \in Nat \X Nat /\ <<x - 1, x>>[1] < <<x - 1, x>>[2]
    BY <1>7, <1>3
  <1>6. <<x - 1, x>> \in OpToRel(<, Nat)
    BY <1>5, Zenon DEF OpToRel
  <1> QED BY <1>2, <1>3, <1>4, <1>6, Zenon

\* A set that holds 0 and with every number below n the next holds all up to n.
LEMMA CountTo ==
  ASSUME NEW n \in Nat, NEW S, 0 \in S, \A k \in 1 .. n : k - 1 \in S => k \in S
  PROVE  \A k \in 0 .. n : k \in S
  <1> DEFINE T == {k \in Nat : k <= n => k \in S}
  <1>1. 0 \in T
    OBVIOUS
  <1>2. ASSUME NEW k \in T PROVE k + 1 \in T
    <2>1. CASE k + 1 <= n
      <3>1. k \in S /\ k + 1 \in 1 .. n /\ (k + 1) - 1 = k
        BY <2>1
      <3>2. k + 1 \in S
        BY <3>1
      <3> QED BY <3>2
    <2> QED BY <2>1
  <1>3. T \in SUBSET Nat
    OBVIOUS
  <1> HIDE DEF T
  <1>4. T = Nat
    BY <1>1, <1>2, <1>3, CountUp
  <1> QED BY <1>4 DEF T

\* f starts at base and follows the steps as far as its values stay in S.
Follows(f, n, S, base, step) ==
  /\ f[0] = base
  /\ \A k \in 1 .. n : f[k - 1] \in S => f[k] = step[<<k, f[k - 1]>>]

\* And nobody else does.
Computes(g, n, S, base, step) ==
  /\ Follows(g, n, S, base, step)
  /\ \A f : Follows(f, n, S, base, step) => \A k \in 0 .. n : f[k] = g[k]

\* Counting up to n, one step from each value to the next, gives one value to every
\* number; whoever follows the steps meets these values and no others.
LEMMA Recursion ==
  ASSUME NEW n \in Nat, NEW S, NEW base \in S, NEW step \in [(1 .. n) \X S -> S]
  PROVE  \E g \in [0 .. n -> S] : Computes(g, n, S, base, step)
  <1> DEFINE Counts(g, m) == /\ g[0] = base
                             /\ \A k \in 1 .. m : g[k] = step[<<k, g[k - 1]>>]
             T == {m \in 0 .. n : \E g \in [0 .. m -> S] : Counts(g, m)}
  <1>1. 0 \in T
    <2>1. PICK g : g = [k \in 0 .. 0 |-> base]
      OBVIOUS
    <2>2. g \in [0 .. 0 -> S] /\ Counts(g, 0)
      BY <2>1
    <2> QED BY <2>2
  <1>2. ASSUME NEW m \in 1 .. n, m - 1 \in T PROVE m \in T
    <2>1. PICK g \in [0 .. m - 1 -> S] : Counts(g, m - 1)
      BY <1>2
    <2>2. PICK h : h = [k \in 0 .. m |-> IF k = m THEN step[<<m, g[m - 1]>>] ELSE g[k]]
      OBVIOUS
    <2>3. h \in [0 .. m -> S]
      <3>1. <<m, g[m - 1]>> \in (1 .. n) \X S
        OBVIOUS
      <3>2. step[<<m, g[m - 1]>>] \in S
        BY <3>1
      <3> QED BY <2>2, <3>2
    <2>4. h[0] = base
      BY <2>1, <2>2
    <2>5. ASSUME NEW k \in 1 .. m PROVE h[k] = step[<<k, h[k - 1]>>]
      <3>1. h[k - 1] = g[k - 1]
        BY <2>2
      <3>2. CASE k = m
        <4>1. h[m] = step[<<m, g[m - 1]>>]
          BY <2>2
        <4> QED BY <4>1, <3>1, <3>2
      <3>3. CASE k # m
        <4>1. h[k] = g[k] /\ k \in 1 .. m - 1
          BY <2>2, <3>3
        <4> QED BY <4>1, <3>1, <2>1
      <3> QED BY <3>2, <3>3
    <2> QED BY <2>3, <2>4, <2>5
  <1> HIDE DEF T
  <1>3. n \in T
    BY <1>1, <1>2, CountTo
  <1>4. PICK g \in [0 .. n -> S] : Counts(g, n)
    BY <1>3 DEF T
  <1>5. ASSUME NEW f, Follows(f, n, S, base, step)
        PROVE  \A k \in 0 .. n : f[k] = g[k]
    <2> DEFINE U == {k \in 0 .. n : f[k] = g[k]}
    <2>1. 0 \in U
      BY <1>4, <1>5 DEF Follows
    <2>2. ASSUME NEW k \in 1 .. n, k - 1 \in U PROVE k \in U
      <3>1. f[k - 1] = g[k - 1] /\ k - 1 \in 0 .. n
        BY <2>2
      <3>2. g[k - 1] \in S
        BY <3>1
      <3>3. f[k] = step[<<k, f[k - 1]>>]
        BY <1>5, <3>1, <3>2 DEF Follows
      <3>4. g[k] = step[<<k, g[k - 1]>>]
        BY <1>4
      <3> QED BY <3>1, <3>3, <3>4
    <2> HIDE DEF U
    <2>3. \A k \in 0 .. n : k \in U
      BY <2>1, <2>2, CountTo
    <2> QED BY <2>3 DEF U
  <1>6. Follows(g, n, S, base, step)
    BY <1>4 DEF Follows
  <1> QED BY <1>5, <1>6 DEF Computes

-----------------------------------------------------------------------------
(* Total *)

\* Whoever adds up the amounts one by one ends at their total.
LEMMA TotalIs ==
  ASSUME NEW amounts \in Seq(Int), NEW f, f[0] = 0,
         \A k \in 1 .. Len(amounts) : f[k - 1] \in Int => f[k] = f[k - 1] + amounts[k]
  PROVE  /\ Total(amounts) = f[Len(amounts)]
         /\ \A k \in 0 .. Len(amounts) : f[k] \in Int
  <1> DEFINE n == Len(amounts)
             Body(u) == [k \in 0 .. n |-> IF k = 0 THEN 0 ELSE u[k - 1] + amounts[k]]
  <1>1. PICK step : step = [z \in (1 .. n) \X Int |-> z[2] + amounts[z[1]]]
    OBVIOUS
  <1>2. n \in Nat /\ \A k \in 1 .. n : amounts[k] \in Int
    OBVIOUS
  <1>3. \A k \in 1 .. n : \A x \in Int : step[<<k, x>>] = x + amounts[k]
    BY <1>1
  <1>4. step \in [(1 .. n) \X Int -> Int]
    BY <1>1, <1>2
  <1> HIDE DEF n
  <1>5. PICK g \in [0 .. n -> Int] : Computes(g, n, Int, 0, step)
    <2>1. 0 \in Int
      OBVIOUS
    <2> QED BY <1>2, <1>4, <2>1, Recursion
  <1>6. \A k \in 0 .. n : f[k] = g[k]
    <2>1. Follows(f, n, Int, 0, step)
      BY <1>3 DEF n, Follows
    <2> QED BY <1>5, <2>1 DEF Computes
  <1>7. g = Body(g)
    <2>1. ASSUME NEW k \in 0 .. n PROVE g[k] = IF k = 0 THEN 0 ELSE g[k - 1] + amounts[k]
      <3>1. CASE k # 0
        <4>1. k \in 1 .. n /\ k - 1 \in 0 .. n
          BY <3>1, <1>2
        <4>2. g[k - 1] \in Int
          BY <4>1
        <4> QED BY <1>5, <1>3, <3>1, <4>1, <4>2 DEF Follows, Computes
      <3> QED BY <1>5, <3>1 DEF Follows, Computes
    <2> QED BY <2>1
  <1> DEFINE upto == CHOOSE u : u = Body(u)
  <1>8. upto = Body(upto)
    <2>1. \E u : u = Body(u)
      BY <1>7
    <2> HIDE DEF Body
    <2> QED BY <2>1, Zenon
  <1>9. Total(amounts) = upto[n]
    BY DEF Total, n
  <1> HIDE DEF upto
  <1>10. \A k \in 0 .. n : upto[k] = g[k]
    <2>1. upto[0] = 0 /\ \A k \in 1 .. n : upto[k] = upto[k - 1] + amounts[k]
      BY <1>8, <1>2
    <2>2. Follows(upto, n, Int, 0, step)
      BY <2>1, <1>3 DEF Follows
    <2> QED BY <1>5, <2>2 DEF Computes
  <1>11. n \in 0 .. n
    BY <1>2
  <1>12. f[n] = g[n] /\ upto[n] = g[n] /\ \A k \in 0 .. n : f[k] \in Int
    BY <1>5, <1>6, <1>10, <1>11
  <1> QED BY <1>9, <1>12 DEF n

\* There are running totals.
LEMMA TotalUpto ==
  ASSUME NEW amounts \in Seq(Int)
  PROVE  /\ Total(amounts) \in Int
         /\ \E f \in [0 .. Len(amounts) -> Int] :
              /\ f[0] = 0
              /\ \A k \in 1 .. Len(amounts) : f[k] = f[k - 1] + amounts[k]
              /\ f[Len(amounts)] = Total(amounts)
  <1> DEFINE n == Len(amounts)
  <1>1. PICK step : step = [z \in (1 .. n) \X Int |-> z[2] + amounts[z[1]]]
    OBVIOUS
  <1>2. n \in Nat /\ \A k \in 1 .. n : amounts[k] \in Int
    OBVIOUS
  <1>3. \A k \in 1 .. n : \A x \in Int : step[<<k, x>>] = x + amounts[k]
    BY <1>1
  <1>4. step \in [(1 .. n) \X Int -> Int]
    BY <1>1, <1>2
  <1> HIDE DEF n
  <1>5. PICK g \in [0 .. n -> Int] : Computes(g, n, Int, 0, step)
    <2>1. 0 \in Int
      OBVIOUS
    <2> QED BY <1>2, <1>4, <2>1, Recursion
  <1>6. \A k \in 1 .. n : g[k] = g[k - 1] + amounts[k]
    <2>1. ASSUME NEW k \in 1 .. n PROVE k - 1 \in 0 .. n
      BY <1>2
    <2> QED BY <1>3, <1>5, <2>1 DEF Follows, Computes
  <1>7. Total(amounts) = g[n]
    <2>1. g[0] = 0 /\ \A k \in 1 .. Len(amounts) : g[k - 1] \in Int => g[k] = g[k - 1] + amounts[k]
      BY <1>5, <1>6 DEF n, Follows, Computes
    <2> QED BY <2>1, TotalIs DEF n
  <1>8. n \in 0 .. n
    BY <1>2
  <1>9. g[n] \in Int
    BY <1>8
  <1>10. \E f \in [0 .. n -> Int] :
          f[0] = 0 /\ (\A k \in 1 .. n : f[k] = f[k - 1] + amounts[k]) /\ f[n] = Total(amounts)
    BY <1>5, <1>6, <1>7 DEF Follows, Computes
  <1> QED BY <1>7, <1>9, <1>10 DEF n

-----------------------------------------------------------------------------
(* Fees *)

\* The smaller and the larger of two numbers.
LEMMA TwoNumbers ==
  ASSUME NEW a \in Int, NEW b \in Int
  PROVE  /\ Min({a, b}) = IF a <= b THEN a ELSE b
         /\ Max({a, b}) = IF a <= b THEN b ELSE a
  <1>1. ASSUME NEW m \in {a, b}, \A y \in {a, b} : m <= y
        PROVE  m = IF a <= b THEN a ELSE b
    BY <1>1
  <1>2. ASSUME NEW m \in {a, b}, \A y \in {a, b} : m >= y
        PROVE  m = IF a <= b THEN b ELSE a
    BY <1>2
  <1>3. \E m \in {a, b} : \A y \in {a, b} : m <= y
    OBVIOUS
  <1>4. \E m \in {a, b} : \A y \in {a, b} : m >= y
    OBVIOUS
  <1>5. Min({a, b}) = IF a <= b THEN a ELSE b
    BY <1>1, <1>3 DEF Min
  <1>6. Max({a, b}) = IF a <= b THEN b ELSE a
    BY <1>2, <1>4 DEF Max
  <1> QED BY <1>5, <1>6

\* Integer division of more gives at least as much, and the quotient fits.
LEMMA Division ==
  ASSUME NEW a \in Nat, NEW b \in Nat, NEW c \in Nat \ {0}
  PROVE  /\ a \div c \in Nat
         /\ (a \div c) * c <= a
         /\ a < (a \div c) * c + c
         /\ a <= b => a \div c <= b \div c
         /\ b * c <= a => b <= a \div c
  <1>1. \A x \in Nat : x \div c \in Nat
    OBVIOUS
  <1>2. \A x \in Nat : (x \div c) * c <= x
    OBVIOUS
  <1>3. \A x \in Nat : x < (x \div c) * c + c
    OBVIOUS
  <1>4. ASSUME NEW p \in Nat, NEW q \in Nat, q * c < p * c + c PROVE q <= p
    <2>1. SUFFICES ASSUME q >= p + 1 PROVE FALSE
      OBVIOUS
    <2>2. q * c >= (p + 1) * c
      BY <2>1
    <2>3. (p + 1) * c = p * c + c
      OBVIOUS
    <2> QED BY <1>4, <2>2, <2>3
  <1>5. ASSUME a <= b PROVE a \div c <= b \div c
    <2>1. (a \div c) * c < (b \div c) * c + c
      BY <1>1, <1>2, <1>3, <1>5
    <2> QED BY <1>1, <1>4, <2>1
  <1>6. ASSUME b * c <= a PROVE b <= a \div c
    <2>1. b * c < (a \div c) * c + c
      BY <1>1, <1>3, <1>6
    <2> QED BY <1>1, <1>4, <2>1
  <1> QED BY <1>1, <1>2, <1>3, <1>5, <1>6

\* A rounded quotient is off by at most half a divisor.
LEMMA RoundedFits ==
  ASSUME NEW n \in Nat, NEW d \in Nat \ {0}
  PROVE  /\ Rounded(n, d) \in Nat
         /\ 2 * (Rounded(n, d) * d) <= 2 * n + d
         /\ \A m \in Nat : m <= n => Rounded(m, d) <= Rounded(n, d)
  <1>1. 2 * d \in Nat \ {0} /\ 2 * n + d \in Nat
    OBVIOUS
  <1>2. Rounded(n, d) \in Nat /\ Rounded(n, d) * (2 * d) <= 2 * n + d
    BY <1>1, Division DEF Rounded
  <1>3. \A x \in Nat : x * (2 * d) = 2 * (x * d)
    OBVIOUS
  <1>4. ASSUME NEW m \in Nat, m <= n PROVE Rounded(m, d) <= Rounded(n, d)
    <2>1. 2 * m + d \in Nat /\ 2 * m + d <= 2 * n + d
      BY <1>4
    <2> QED BY <1>1, <2>1, Division DEF Rounded
  <1> QED BY <1>2, <1>3, <1>4

\* The fee of a larger purchase is at least as large.
LEMMA FeeGrows ==
  ASSUME NEW market, NEW a \in Nat, NEW b \in Nat, a <= b
  PROVE  /\ BuyFee(market, a) \in Nat
         /\ BuyFee(market, a) <= BuyFee(market, b)
  <1>1. FeeMin \in Nat /\ FeePart \in Nat \ {0}
    BY CalcAssumption
  <1>2. /\ Rounded(a, FeePart) \in Nat /\ Rounded(b, FeePart) \in Nat
        /\ Rounded(a, FeePart) <= Rounded(b, FeePart)
    BY <1>1, RoundedFits
  <1>3. \A x \in Nat : Max({FeeMin, x}) = IF FeeMin <= x THEN x ELSE FeeMin
    BY <1>1, TwoNumbers
  <1> QED BY <1>1, <1>2, <1>3 DEF BuyFee

-----------------------------------------------------------------------------
(* The binary search *)

\* Who can pay for a quantity can pay for a smaller one.
LEMMA PaysForLess ==
  ASSUME NEW market, NEW cash \in Nat, NEW price \in Nat, NEW q \in Nat, NEW r \in Nat,
         q <= r, Pays(market, cash, price, r)
  PROVE  Pays(market, cash, price, q)
  <1>1. q * price \in Nat /\ r * price \in Nat /\ q * price <= r * price
    OBVIOUS
  <1>2. /\ BuyFee(market, q * price) \in Nat /\ BuyFee(market, r * price) \in Nat
        /\ BuyFee(market, q * price) <= BuyFee(market, r * price)
    BY <1>1, FeeGrows
  <1> QED BY <1>1, <1>2 DEF Pays

\* The quantities that the cap allows and the cash pays for, or nothing.
Payable(market, cash, price, cap) ==
  {0} \cup {q \in 1 .. Min({cap, cash}) : q * price + BuyFee(market, q * price) <= cash}

\* One quantity is payable and none that is payable exceeds it: it is the largest.
LEMMA LargestPayable ==
  ASSUME NEW market, NEW cash \in Nat, NEW price \in Nat \ {0}, NEW cap \in Nat,
         NEW low \in 0 .. Min({cash \div price, cap}),
         low = 0 \/ Pays(market, cash, price, low),
         \A q \in low + 1 .. Min({cash \div price, cap}) : ~Pays(market, cash, price, q)
  PROVE  low = Max(Payable(market, cash, price, cap))
  <1> DEFINE all == Payable(market, cash, price, cap)
  <1>1. cash \div price \in Nat /\ cash \div price <= cash
    <2>1. cash \div price \in Nat /\ (cash \div price) * price <= cash
      BY Division
    <2>2. \A x \in Nat : x <= x * price
      OBVIOUS
    <2> QED BY <2>1, <2>2
  <1>2. /\ Min({cash \div price, cap}) = IF cash \div price <= cap THEN cash \div price ELSE cap
        /\ Min({cap, cash}) = IF cap <= cash THEN cap ELSE cash
    BY <1>1, TwoNumbers
  <1>3. low \in Nat /\ low <= cap /\ low <= cash
    BY <1>1, <1>2
  <1>4. low \in all
    BY <1>2, <1>3 DEF Payable, Pays
  <1>5. ASSUME NEW q \in all PROVE q <= low
    <2>1. CASE q = 0
      BY <2>1, <1>3
    <2>2. CASE q # 0
      <3>1. /\ q \in Nat /\ q >= 1 /\ q <= cap
            /\ q * price + BuyFee(market, q * price) <= cash
        BY <2>2, <1>2 DEF Payable
      <3>2. q * price \in Nat /\ BuyFee(market, q * price) \in Nat
        BY <3>1, FeeGrows
      <3>3. q * price <= cash
        BY <3>1, <3>2
      <3>4. q <= cash \div price
        BY <3>1, <3>3, Division
      <3>5. q <= Min({cash \div price, cap})
        BY <3>1, <3>4, <1>2
      <3>6. Pays(market, cash, price, q)
        BY <3>1 DEF Pays
      <3>7. Min({cash \div price, cap}) \in Nat
        BY <1>1, <1>2
      <3> QED BY <1>3, <3>1, <3>5, <3>6, <3>7
    <2> QED BY <2>1, <2>2
  <1> HIDE DEF all
  <1>6. \A m \in all : (\A y \in all : m >= y) => m = low
    <2>1. \A q \in all : q \in Int
      <3>1. \A q \in all : q \in Nat
        BY <1>1, <1>2 DEF all, Payable
      <3> QED BY <3>1
    <2> QED BY <1>3, <1>4, <1>5, <2>1
  <1>7. \E m \in all : \A y \in all : m >= y
    <2>1. \A y \in all : low >= y
      <3>1. \A q \in all : q \in Nat
        BY <1>1, <1>2 DEF all, Payable
      <3> QED BY <1>3, <1>5, <3>1
    <2> QED BY <1>4, <2>1
  <1>8. Max(all) = CHOOSE m \in all : \A y \in all : m >= y
    BY DEF Max
  <1>9. Max(all) = low
    BY <1>6, <1>7, <1>8
  <1> QED BY <1>9 DEF all

\* The search is an interval that holds the answer and shrinks in every round: when no
\* round is left, it is one quantity.
THEOREM SearchFinds ==
  ASSUME NEW market, NEW cash \in Nat, NEW price \in Nat \ {0}, NEW cap \in Nat
  PROVE  AffordableQty(market, cash, price, cap) = Max(Payable(market, cash, price, cap))
  <1> DEFINE most == Min({cash \div price, cap})
             Next(b) ==
               LET mid == (b.low + b.high + 1) \div 2 IN
               CASE b.low >= b.high -> b
                 [] b.low < b.high /\ Pays(market, cash, price, mid) -> [b EXCEPT !.low = mid]
                 [] OTHER -> [b EXCEPT !.high = mid - 1]
             Body(u) ==
               [k \in 0 .. most |->
                  IF k = 0 THEN [low |-> 0, high |-> most] ELSE Next(u[k - 1])]
             S == [low : 0 .. most, high : 0 .. most]
             bounds == CHOOSE u : u = Body(u)
  <1>1. most \in Nat
    BY Division, TwoNumbers
  <1>2. AffordableQty(market, cash, price, cap) = bounds[most].low
    BY DEF AffordableQty
  <1> HIDE DEF most
  <1>3. ASSUME NEW b \in S
        PROVE  /\ b.low >= b.high => Next(b) = b
               /\ b.low < b.high =>
                    \E mid \in b.low + 1 .. b.high :
                      /\ 2 * mid <= b.low + b.high + 1 /\ b.low + b.high <= 2 * mid
                      /\ Pays(market, cash, price, mid) => Next(b) = [low |-> mid, high |-> b.high]
                      /\ ~Pays(market, cash, price, mid)
                           => Next(b) = [low |-> b.low, high |-> mid - 1]
    <2>1. PICK low \in Nat, high \in Nat : b = [low |-> low, high |-> high]
      BY <1>1
    <2>2. b.low = low /\ b.high = high
      BY <2>1
    <2>3. CASE low >= high
      BY <2>2, <2>3
    <2>4. CASE low < high
      <3>1. PICK mid : mid = (low + high + 1) \div 2
        OBVIOUS
      <3>2. mid \in low + 1 .. high /\ 2 * mid <= low + high + 1 /\ low + high <= 2 * mid
        BY <3>1, <2>4
      <3>3. [b EXCEPT !.low = mid] = [low |-> mid, high |-> high]
        BY <2>1
      <3>4. [b EXCEPT !.high = mid - 1] = [low |-> low, high |-> mid - 1]
        BY <2>1
      <3>5. ASSUME Pays(market, cash, price, mid) PROVE Next(b) = [low |-> mid, high |-> high]
        BY <3>1, <3>3, <3>5, <2>2, <2>4
      <3>6. ASSUME ~Pays(market, cash, price, mid)
            PROVE  Next(b) = [low |-> low, high |-> mid - 1]
        BY <3>1, <3>4, <3>6, <2>2, <2>4
      <3> QED BY <3>2, <3>5, <3>6, <2>2, <2>4
    <2> QED BY <2>3, <2>4
  <1>4. \A b \in S : Next(b) \in S
    <2>1. SUFFICES ASSUME NEW b \in S PROVE Next(b) \in S
      OBVIOUS
    <2>2. b.low \in 0 .. most /\ b.high \in 0 .. most
      OBVIOUS
    <2> HIDE DEF Next
    <2>3. CASE b.low >= b.high
      BY <1>3, <2>3
    <2>4. CASE b.low < b.high
      <3>1. PICK mid \in b.low + 1 .. b.high :
              /\ Pays(market, cash, price, mid) => Next(b) = [low |-> mid, high |-> b.high]
              /\ ~Pays(market, cash, price, mid) => Next(b) = [low |-> b.low, high |-> mid - 1]
        BY <1>3, <2>4
      <3>2. mid \in 0 .. most /\ mid - 1 \in 0 .. most
        BY <1>1, <2>2
      <3> QED BY <2>2, <3>1, <3>2
    <2> QED BY <1>1, <2>2, <2>3, <2>4
  <1> HIDE DEF Next, S
  <1>5. PICK step : step = [z \in (1 .. most) \X S |-> Next(z[2])]
    OBVIOUS
  <1>6. \A k \in 1 .. most : \A b \in S : step[<<k, b>>] = Next(b)
    BY <1>5
  <1>7. step \in [(1 .. most) \X S -> S]
    BY <1>4, <1>5
  <1>8. [low |-> 0, high |-> most] \in S
    BY <1>1 DEF S
  <1>9. PICK g \in [0 .. most -> S] : Computes(g, most, S, [low |-> 0, high |-> most], step)
    BY <1>1, <1>7, <1>8, Recursion
  <1>10. g[0] = [low |-> 0, high |-> most] /\ \A k \in 1 .. most : g[k] = Next(g[k - 1])
    <2>1. ASSUME NEW k \in 1 .. most PROVE k - 1 \in 0 .. most
      BY <1>1
    <2>2. \A k \in 1 .. most : g[k - 1] \in S
      BY <2>1
    <2> QED BY <2>2, <1>6, <1>9 DEF Computes, Follows
  <1>11. bounds = Body(bounds)
    <2>1. g = Body(g)
      <3>1. ASSUME NEW k \in 0 .. most, k # 0 PROVE k \in 1 .. most
        BY <1>1, <3>1
      <3> QED BY <1>1, <1>10, <3>1
    <2> HIDE DEF Body
    <2> QED BY <2>1, Zenon
  <1> HIDE DEF bounds
  <1>12. Follows(bounds, most, S, [low |-> 0, high |-> most], step)
    <2>1. bounds[0] = [low |-> 0, high |-> most]
      BY <1>1, <1>11
    <2>2. \A k \in 1 .. most : bounds[k] = Next(bounds[k - 1])
      BY <1>1, <1>11
    <2> QED BY <2>1, <2>2, <1>6 DEF Follows
  <1>13. bounds[most] = g[most]
    <2>1. most \in 0 .. most
      BY <1>1
    <2> QED BY <2>1, <1>9, <1>12 DEF Computes
  <1> HIDE DEF Body
  <1> DEFINE Holds(k) ==
               /\ g[k].low \in 0 .. most /\ g[k].high \in 0 .. most
               /\ g[k].low <= g[k].high
               /\ g[k].high - g[k].low <= most - k
               /\ g[k].low = 0 \/ Pays(market, cash, price, g[k].low)
               /\ \A q \in g[k].high + 1 .. most : ~Pays(market, cash, price, q)
             T == {k \in 0 .. most : Holds(k)}
  <1>14. 0 \in T
    <2>1. g[0].low = 0 /\ g[0].high = most
      BY <1>10
    <2> QED BY <1>1, <2>1
  <1>15. ASSUME NEW k \in 1 .. most, k - 1 \in T PROVE k \in T
    <2>1. PICK b : b = g[k - 1]
      OBVIOUS
    <2>2. /\ b \in S /\ b.low \in Nat /\ b.high \in Nat /\ b.low <= b.high /\ b.high <= most
          /\ b.high - b.low <= most - k + 1
          /\ b.low = 0 \/ Pays(market, cash, price, b.low)
          /\ \A q \in b.high + 1 .. most : ~Pays(market, cash, price, q)
      BY <1>1, <1>15, <2>1
    <2>3. g[k] = Next(b)
      BY <1>10, <2>1
    <2>4. CASE b.low = b.high
      <3>1. g[k] = b
        BY <1>3, <2>2, <2>3, <2>4
      <3> QED BY <1>1, <2>2, <2>4, <3>1
    <2>5. CASE b.low < b.high
      <3>1. PICK mid \in b.low + 1 .. b.high :
              /\ 2 * mid <= b.low + b.high + 1 /\ b.low + b.high <= 2 * mid
              /\ Pays(market, cash, price, mid) => Next(b) = [low |-> mid, high |-> b.high]
              /\ ~Pays(market, cash, price, mid) => Next(b) = [low |-> b.low, high |-> mid - 1]
        BY <1>3, <2>2, <2>5
      <3>2. mid \in Nat /\ mid > b.low /\ mid <= b.high
        BY <2>2
      <3>3. CASE Pays(market, cash, price, mid)
        <4>1. g[k].low = mid /\ g[k].high = b.high
          BY <2>3, <3>1, <3>3
        <4>2. mid \in 0 .. most /\ b.high \in 0 .. most /\ mid <= b.high
          BY <1>1, <2>2, <3>2
        <4>3. b.high - mid <= most - k
          BY <1>1, <2>2, <3>1, <3>2
        <4> QED BY <2>2, <3>3, <4>1, <4>2, <4>3
      <3>4. CASE ~Pays(market, cash, price, mid)
        <4>1. g[k].low = b.low /\ g[k].high = mid - 1
          BY <2>3, <3>1, <3>4
        <4>2. ASSUME NEW q \in mid .. most PROVE ~Pays(market, cash, price, q)
          <5>1. q \in Nat /\ mid <= q
            BY <3>2
          <5> QED BY <3>2, <3>4, <5>1, PaysForLess
        <4>3. \A q \in (mid - 1) + 1 .. most : ~Pays(market, cash, price, q)
          BY <3>2, <4>2
        <4>4. mid - 1 \in 0 .. most /\ b.low \in 0 .. most /\ b.low <= mid - 1
          BY <1>1, <2>2, <3>2
        <4>5. (mid - 1) - b.low <= most - k
          BY <1>1, <2>2, <3>1, <3>2
        <4> QED BY <2>2, <4>1, <4>3, <4>4, <4>5
      <3> QED BY <3>3, <3>4
    <2> QED BY <2>2, <2>4, <2>5
  <1> HIDE DEF T
  <1>16. most \in T
    <2>1. \A k \in 0 .. most : k \in T
      BY <1>1, <1>14, <1>15, CountTo
    <2> QED BY <1>1, <2>1
  <1>17. PICK low : low = g[most].low
    OBVIOUS
  <1>18. /\ low \in 0 .. most
         /\ low = 0 \/ Pays(market, cash, price, low)
         /\ \A q \in low + 1 .. most : ~Pays(market, cash, price, q)
    <2>1. g[most].low = g[most].high
      BY <1>1, <1>16 DEF T
    <2> QED BY <1>16, <1>17, <2>1 DEF T
  <1>19. low = Max(Payable(market, cash, price, cap))
    BY <1>18, LargestPayable DEF most
  <1> QED BY <1>2, <1>13, <1>17, <1>19

-----------------------------------------------------------------------------
(* What a history of fills was worth *)

\* A fill: some shares, for some amount, with or without a fee.
Fill == [side : {"buy", "sell"}, qty : Nat \ {0}, price : Nat, fee : Nat]

\* The flows of a fill are numbers.
LEMMA Flows ==
  ASSUME NEW o \in Fill
  PROVE  CashFlow(o) \in Int /\ ShareFlow(o) \in Int /\ Proceeds(o) \in Int
  <1>1. o.qty \in Nat /\ o.price \in Nat /\ o.fee \in Nat
    BY DEF Fill
  <1>2. o.qty * o.price \in Nat
    BY <1>1
  <1> QED BY <1>1, <1>2 DEF CashFlow, ShareFlow, Proceeds

\* What is held after n fills, one running total for all of them.
LEMMA HeldUpto ==
  ASSUME NEW orders \in Seq(Fill)
  PROVE  \E f \in [0 .. Len(orders) -> Int] :
           /\ f[0] = 0
           /\ \A k \in 1 .. Len(orders) : f[k] = f[k - 1] + ShareFlow(orders[k])
           /\ \A k \in 1 .. Len(orders) : f[k] = Held(orders, k)
           /\ f[Len(orders)] = Total([k \in DOMAIN orders |-> ShareFlow(orders[k])])
  <1> DEFINE n == Len(orders)
  <1>1. n \in Nat /\ DOMAIN orders = 1 .. n /\ \A k \in 1 .. n : ShareFlow(orders[k]) \in Int
    BY Flows
  <1> HIDE DEF n
  <1>2. PICK amounts : amounts = [k \in 1 .. n |-> ShareFlow(orders[k])]
    OBVIOUS
  <1>3. amounts \in Seq(Int) /\ Len(amounts) = n /\ \A k \in 1 .. n : amounts[k] = ShareFlow(orders[k])
    BY <1>1, <1>2
  <1>4. PICK f \in [0 .. n -> Int] :
          f[0] = 0 /\ (\A k \in 1 .. n : f[k] = f[k - 1] + amounts[k]) /\ f[n] = Total(amounts)
    BY <1>3, TotalUpto
  <1>5. ASSUME NEW k \in 1 .. n PROVE f[k] = Held(orders, k)
    <2>1. PICK some : some = [j \in 1 .. k |-> ShareFlow(orders[j])]
      OBVIOUS
    <2>2. some \in Seq(Int) /\ Len(some) = k /\ \A j \in 1 .. k : some[j] = amounts[j]
      <3>1. k \in Nat /\ \A j \in 1 .. k : j \in 1 .. n
        BY <1>1
      <3> QED BY <1>1, <1>3, <2>1, <3>1
    <2>3. \A j \in 1 .. k : f[j] = f[j - 1] + some[j]
      <3>1. ASSUME NEW j \in 1 .. k PROVE j \in 1 .. n
        BY <1>1
      <3> QED BY <1>4, <2>2, <3>1
    <2>4. f[k] = Total(some)
      BY <1>4, <2>2, <2>3, TotalIs
    <2> QED BY <2>1, <2>4 DEF Held
  <1> QED BY <1>1, <1>2, <1>3, <1>4, <1>5 DEF n

\* After every fill, the shares of the replay are those held, and its profits less its
\* costs the cash spent: what a sale books as profit, it takes from the cost.
THEOREM ReplayAddsUp ==
  ASSUME NEW orders \in Seq(Fill), NeverShort(orders), NEW close \in Int
  PROVE  LET p == Replayed(orders) IN
         Grain * Equity(orders, close) = p.realized + (Grain * p.qty * close - p.cost)
  <1> DEFINE n == Len(orders)
             Next(k, p) ==
               LET o == orders[k]
                   basis == (p.cost * o.qty) \div p.qty
               IN IF o.side = "buy"
                  THEN [p EXCEPT !.qty = @ + o.qty,
                                 !.cost = @ + Grain * (o.qty * o.price + o.fee)]
                  ELSE IF p.qty > 0
                  THEN [qty |-> p.qty - o.qty, cost |-> p.cost - basis,
                        realized |-> p.realized + Grain * Proceeds(o) - basis]
                  ELSE [p EXCEPT !.qty = @ - o.qty]
             none == [qty |-> 0, cost |-> 0, realized |-> 0]
             Body(u) == [k \in 0 .. n |-> IF k = 0 THEN none ELSE Next(k, u[k - 1])]
             S == [qty : Int, cost : Int, realized : Int]
             after == CHOOSE u : u = Body(u)
  <1>1. n \in Nat /\ DOMAIN orders = 1 .. n /\ \A k \in 1 .. n : orders[k] \in Fill
    OBVIOUS
  <1>2. Replayed(orders) = after[n]
    BY DEF Replayed
  <1>3. PICK held \in [0 .. n -> Int] :
          /\ held[0] = 0
          /\ \A k \in 1 .. n : held[k] = held[k - 1] + ShareFlow(orders[k])
          /\ \A k \in 1 .. n : held[k] = Held(orders, k)
          /\ held[n] = Total([k \in DOMAIN orders |-> ShareFlow(orders[k])])
    BY HeldUpto
  <1>4. \A k \in 0 .. n : held[k] >= 0
    BY <1>1, <1>3 DEF NeverShort
  <1> HIDE DEF n
  <1>5. PICK amounts : amounts = [k \in DOMAIN orders |-> CashFlow(orders[k])]
    OBVIOUS
  <1>6. amounts \in Seq(Int) /\ Len(amounts) = n /\ \A k \in 1 .. n : amounts[k] = CashFlow(orders[k])
    BY <1>1, <1>5, Flows
  <1>7. PICK cash \in [0 .. n -> Int] :
          cash[0] = 0 /\ (\A k \in 1 .. n : cash[k] = cash[k - 1] + amounts[k]) /\ cash[n] = Total(amounts)
    BY <1>6, TotalUpto
  <1>8. ASSUME NEW k \in 1 .. n, NEW p \in S, p.qty = held[k - 1]
        PROVE  /\ Next(k, p) \in S
               /\ Next(k, p).qty = held[k]
               /\ Next(k, p).realized - Next(k, p).cost
                    = p.realized - p.cost + Grain * CashFlow(orders[k])
    <2>1. PICK o : o = orders[k]
      OBVIOUS
    <2>2. o \in Fill /\ o.qty \in Nat \ {0} /\ o.price \in Nat /\ o.fee \in Nat
          /\ o.side \in {"buy", "sell"}
      BY <1>1, <2>1 DEF Fill
    <2>9. PICK m \in Nat \ {0}, fee \in Nat : m = o.qty /\ fee = o.fee
      BY <2>2
    <2>3. PICK gross \in Nat : gross = m * o.price
      BY <2>2
    <2>4. PICK q \in Int, c \in Int, r \in Int : p = [qty |-> q, cost |-> c, realized |-> r]
      OBVIOUS
    <2>5. p.qty = q /\ p.cost = c /\ p.realized = r
      BY <2>4
    <2>6. PICK now \in Int : now = held[k] /\ now = q + ShareFlow(o) /\ now >= 0
      <3>1. k \in 0 .. n /\ held[k - 1] = q
        BY <1>1, <1>8, <2>5
      <3> QED BY <1>3, <1>4, <2>1, <3>1
    <2>7. CASE o.side = "buy"
      <3>1. Next(k, p) = [qty |-> q + m, cost |-> c + Grain * (gross + fee), realized |-> r]
        BY <2>1, <2>3, <2>4, <2>7, <2>9
      <3>2. CashFlow(o) = -(gross + fee) /\ ShareFlow(o) = m
        BY <2>3, <2>7, <2>9 DEF CashFlow, ShareFlow
      <3>3. /\ Next(k, p).qty = q + m /\ Next(k, p).cost = c + Grain * (gross + fee)
            /\ Next(k, p).realized = r
        BY <3>1
      <3>4. q + m \in Int /\ c + Grain * (gross + fee) \in Int
        BY DEF Grain
      <3>5. Next(k, p) \in S
        BY <3>1, <3>4
      <3>6. r - (c + Grain * (gross + fee)) = r - c + Grain * (-(gross + fee))
        BY DEF Grain
      <3> HIDE DEF Next
      <3> QED BY <2>1, <2>5, <2>6, <3>2, <3>3, <3>5, <3>6
    <2>8. CASE o.side = "sell"
      <3>1. PICK basis : basis = (c * m) \div q
        OBVIOUS
      <3>2. CashFlow(o) = gross - fee /\ ShareFlow(o) = -m /\ Proceeds(o) = gross - fee
        BY <2>3, <2>8, <2>9 DEF CashFlow, ShareFlow, Proceeds
      <3>3. q \in Nat \ {0}
        <4>1. q + (-m) >= 0
          BY <2>6, <3>2
        <4> QED BY <4>1
      <3>4. basis \in Int
        <4>1. c * m \in Int
          OBVIOUS
        <4> QED BY <3>1, <3>3, <4>1
      <3>5. Next(k, p) = [qty |-> q - m, cost |-> c - basis,
                          realized |-> r + Grain * (gross - fee) - basis]
        BY <2>1, <2>5, <2>8, <2>9, <3>1, <3>2, <3>3
      <3>6. /\ Next(k, p).qty = q - m /\ Next(k, p).cost = c - basis
            /\ Next(k, p).realized = r + Grain * (gross - fee) - basis
        BY <3>5
      <3>7. q - m \in Int /\ c - basis \in Int /\ r + Grain * (gross - fee) - basis \in Int
        BY <3>4 DEF Grain
      <3>8. Next(k, p) \in S
        BY <3>5, <3>7
      <3>9. (r + Grain * (gross - fee) - basis) - (c - basis) = r - c + Grain * (gross - fee)
        BY <3>4 DEF Grain
      <3>10. q - m = q + (-m)
        OBVIOUS
      <3> HIDE DEF Next
      <3> QED BY <2>1, <2>5, <2>6, <3>2, <3>6, <3>8, <3>9, <3>10
    <2> QED BY <2>2, <2>7, <2>8
  <1> HIDE DEF Next
  <1>9. none \in S /\ none.qty = 0 /\ none.cost = 0 /\ none.realized = 0
    OBVIOUS
  <1> HIDE DEF S, none
  <1>10. PICK step : step = [z \in (1 .. n) \X S |->
                               IF Next(z[1], z[2]) \in S THEN Next(z[1], z[2]) ELSE none]
    OBVIOUS
  <1>11. step \in [(1 .. n) \X S -> S]
    BY <1>9, <1>10
  <1>12. \A k \in 1 .. n : \A p \in S : Next(k, p) \in S => step[<<k, p>>] = Next(k, p)
    BY <1>10
  <1>13. PICK g \in [0 .. n -> S] : Computes(g, n, S, none, step)
    BY <1>1, <1>9, <1>11, Recursion
  <1>14. g[0] = none /\ \A k \in 1 .. n : g[k - 1] \in S => g[k] = step[<<k, g[k - 1]>>]
    BY <1>13 DEF Computes, Follows
  <1> DEFINE T == {k \in 0 .. n : /\ g[k].qty = held[k]
                                  /\ g[k].realized - g[k].cost = Grain * cash[k]
                                  /\ k # 0 => g[k] = Next(k, g[k - 1])}
  <1>15. 0 \in T
    BY <1>1, <1>3, <1>7, <1>9, <1>14 DEF Grain
  <1>16. ASSUME NEW k \in 1 .. n, k - 1 \in T PROVE k \in T
    <2>1. k - 1 \in 0 .. n /\ k \in 0 .. n /\ k # 0
      BY <1>1
    <2>2. PICK p \in S : p = g[k - 1]
      BY <2>1
    <2>3. p.qty = held[k - 1] /\ p.realized - p.cost = Grain * cash[k - 1]
      BY <1>16, <2>2
    <2>4. /\ Next(k, p) \in S /\ Next(k, p).qty = held[k]
          /\ Next(k, p).realized - Next(k, p).cost = p.realized - p.cost + Grain * CashFlow(orders[k])
      BY <1>8, <2>2, <2>3
    <2>5. g[k] = Next(k, p)
      BY <1>12, <1>14, <2>2, <2>4
    <2>6. CashFlow(orders[k]) \in Int /\ cash[k] = cash[k - 1] + CashFlow(orders[k])
      BY <1>1, <1>6, <1>7, Flows
    <2>7. cash[k - 1] \in Int
      BY <2>1
    <2>8. g[k].realized - g[k].cost = Grain * cash[k]
      BY <2>3, <2>4, <2>5, <2>6, <2>7 DEF Grain
    <2> QED BY <2>1, <2>2, <2>4, <2>5, <2>8
  <1> HIDE DEF T
  <1>17. \A k \in 0 .. n : k \in T
    BY <1>1, <1>15, <1>16, CountTo
  <1>18. \A k \in 1 .. n : k - 1 \in 0 .. n /\ g[k] = Next(k, g[k - 1])
    BY <1>1, <1>17 DEF T
  <1>19. after = Body(after)
    <2>1. g = Body(g)
      <3>1. ASSUME NEW k \in 0 .. n, k # 0 PROVE k \in 1 .. n
        BY <1>1, <3>1
      <3> QED BY <1>1, <1>14, <1>18, <3>1
    <2> HIDE DEF Body
    <2> QED BY <2>1, Zenon
  <1> HIDE DEF after
  <1>20. after[0] = none /\ \A k \in 1 .. n : after[k] = Next(k, after[k - 1])
    BY <1>1, <1>19
  <1> DEFINE U == {k \in 0 .. n : after[k] = g[k]}
  <1>21. 0 \in U
    BY <1>1, <1>14, <1>20
  <1>22. ASSUME NEW k \in 1 .. n, k - 1 \in U PROVE k \in U
    BY <1>1, <1>18, <1>20, <1>22
  <1> HIDE DEF U
  <1>23. \A k \in 0 .. n : k \in U
    BY <1>1, <1>21, <1>22, CountTo
  <1>24. PICK p \in S : p = g[n]
    BY <1>1
  <1>25. Replayed(orders) = p /\ p.qty = held[n] /\ p.realized - p.cost = Grain * cash[n]
    <2>1. n \in 0 .. n
      BY <1>1
    <2> QED BY <1>2, <1>17, <1>23, <1>24, <2>1 DEF T, U
  <1>26. p.qty \in Int /\ p.cost \in Int /\ p.realized \in Int /\ cash[n] \in Int
    BY <1>1 DEF S
  <1>27. Equity(orders, close) = cash[n] + p.qty * close
    BY <1>3, <1>5, <1>7, <1>25 DEF Equity
  <1>28. PICK value \in Int : value = p.qty * close
    BY <1>26
  <1>29. (Grain * p.qty) * close = Grain * value
    BY <1>26, <1>28 DEF Grain
  <1>30. Grain * (cash[n] + value) = p.realized + (Grain * value - p.cost)
    <2>1. PICK x \in Int, c \in Int, r \in Int : x = cash[n] /\ c = p.cost /\ r = p.realized
      BY <1>26
    <2>2. r - c = Grain * x
      BY <1>25, <2>1
    <2>3. Grain * (x + value) = r + (Grain * value - c)
      BY <2>2 DEF Grain
    <2> QED BY <2>1, <2>3
  <1> QED BY <1>25, <1>27, <1>28, <1>29, <1>30

-----------------------------------------------------------------------------
(* What a run of decisions buys *)

\* One amount more adds to the total.
LEMMA TotalOneMore ==
  ASSUME NEW amounts \in Seq(Int), NEW x \in Int
  PROVE  Total(Append(amounts, x)) = Total(amounts) + x
  <1> DEFINE n == Len(amounts)
  <1>1. n \in Nat
    OBVIOUS
  <1>2. PICK f \in [0 .. n -> Int] :
          f[0] = 0 /\ (\A k \in 1 .. n : f[k] = f[k - 1] + amounts[k]) /\ f[n] = Total(amounts)
    BY TotalUpto
  <1>3. PICK more : more = Append(amounts, x)
    OBVIOUS
  <1>4. /\ more \in Seq(Int) /\ Len(more) = n + 1 /\ more[n + 1] = x
        /\ \A k \in 1 .. n : more[k] = amounts[k]
    BY <1>3
  <1> HIDE DEF n
  <1>5. PICK g : g = [k \in 0 .. n + 1 |-> IF k = n + 1 THEN f[n] + x ELSE f[k]]
    OBVIOUS
  <1>6. \A k \in 0 .. n : g[k] = f[k]
    BY <1>1, <1>5
  <1>7. g[n + 1] = f[n] + x
    BY <1>1, <1>5
  <1>8. g[0] = 0
    BY <1>1, <1>2, <1>6
  <1>9. ASSUME NEW k \in 1 .. n + 1 PROVE g[k] = g[k - 1] + more[k]
    <2>1. CASE k = n + 1
      <3>1. k - 1 = n /\ n \in 0 .. n
        BY <1>1, <2>1
      <3> QED BY <1>4, <1>6, <1>7, <2>1, <3>1
    <2>2. CASE k # n + 1
      <3>1. k \in 1 .. n /\ k \in 0 .. n /\ k - 1 \in 0 .. n
        BY <1>1, <2>2
      <3> QED BY <1>2, <1>4, <1>6, <3>1
    <2> QED BY <2>1, <2>2
  <1>10. Total(more) = g[n + 1]
    BY <1>4, <1>8, <1>9, TotalIs
  <1> QED BY <1>2, <1>3, <1>7, <1>10

Order == [qty : Nat, price : Nat \ {0}]

\* What an order costs, and twice the amount by which rounding lets it exceed a limit.
Cost(market, o) == o.qty * o.price + BuyFee(market, o.qty * o.price)
Slack(market, o) == IF market = "US" THEN o.price ELSE 0

Costs(market, orders) == [k \in DOMAIN orders |-> Cost(market, orders[k])]
Slacks(market, orders) == [k \in DOMAIN orders |-> Slack(market, orders[k])]

\* Both are numbers, and one order more adds its own.
LEMMA OneOrderMore ==
  ASSUME NEW market, NEW orders \in Seq(Order), NEW o \in Order
  PROVE  /\ Cost(market, o) \in Nat /\ Slack(market, o) \in Nat
         /\ Total(Costs(market, orders)) \in Int /\ Total(Slacks(market, orders)) \in Int
         /\ Total(Costs(market, Append(orders, o)))
              = Total(Costs(market, orders)) + Cost(market, o)
         /\ Total(Slacks(market, Append(orders, o)))
              = Total(Slacks(market, orders)) + Slack(market, o)
  <1>1. ASSUME NEW x \in Order PROVE Cost(market, x) \in Nat /\ Slack(market, x) \in Nat
    <2>1. x.qty \in Nat /\ x.price \in Nat
      BY DEF Order
    <2>2. x.qty * x.price \in Nat
      BY <2>1
    <2>3. BuyFee(market, x.qty * x.price) \in Nat
      BY <2>2, FeeGrows
    <2> QED BY <2>1, <2>2, <2>3 DEF Cost, Slack
  <1>2. Costs(market, orders) \in Seq(Int) /\ Slacks(market, orders) \in Seq(Int)
    BY <1>1 DEF Costs, Slacks
  <1>3. PICK n \in Nat : n = Len(orders) /\ DOMAIN orders = 1 .. n
    OBVIOUS
  <1>4. PICK more : more = Append(orders, o)
    OBVIOUS
  <1>5. /\ more \in Seq(Order) /\ DOMAIN more = 1 .. n + 1 /\ more[n + 1] = o
        /\ \A k \in 1 .. n : more[k] = orders[k]
    BY <1>3, <1>4
  <1>6. Costs(market, more) = Append(Costs(market, orders), Cost(market, o))
    <2>1. Costs(market, more) = [k \in 1 .. n + 1 |-> Cost(market, more[k])]
      BY <1>5 DEF Costs
    <2>2. Costs(market, orders) = [k \in 1 .. n |-> Cost(market, orders[k])]
      BY <1>3 DEF Costs
    <2> QED BY <1>2, <1>3, <1>5, <2>1, <2>2
  <1>7. Slacks(market, more) = Append(Slacks(market, orders), Slack(market, o))
    <2>1. Slacks(market, more) = [k \in 1 .. n + 1 |-> Slack(market, more[k])]
      BY <1>5 DEF Slacks
    <2>2. Slacks(market, orders) = [k \in 1 .. n |-> Slack(market, orders[k])]
      BY <1>3 DEF Slacks
    <2> QED BY <1>2, <1>3, <1>5, <2>1, <2>2
  <1>8. Cost(market, o) \in Int /\ Slack(market, o) \in Int
    BY <1>1
  <1>9. Total(Append(Costs(market, orders), Cost(market, o))) = Total(Costs(market, orders)) + Cost(market, o)
    BY <1>2, <1>8, TotalOneMore
  <1>10. Total(Append(Slacks(market, orders), Slack(market, o))) = Total(Slacks(market, orders)) + Slack(market, o)
    BY <1>2, <1>8, TotalOneMore
  <1>11. Total(Costs(market, orders)) \in Int /\ Total(Slacks(market, orders)) \in Int
    BY <1>2, TotalUpto
  <1> QED BY <1>1, <1>4, <1>6, <1>7, <1>9, <1>10, <1>11

\* An order keeps to a fifth of the equity, and to the cash above a tenth of it; only
\* rounding to the nearest unit exceeds a limit, by half a price.
LEMMA SizeFits ==
  ASSUME NEW market \in {"TW", "US"}, NEW equity \in Nat, NEW price \in Nat \ {0},
         NEW available \in Int, NEW o,
         o = [qty |-> SizeBuy(market, equity, price, available), price |-> price]
  PROVE  /\ o \in Order
         /\ o.qty # 0 =>
              /\ 2 * Cost(market, o) <= 2 * (equity \div 5) + Slack(market, o)
              /\ 2 * Cost(market, o) <= 2 * (available - equity \div 10) + Slack(market, o)
  <1>1. PICK fifth \in Nat, tenth \in Nat : fifth = equity \div 5 /\ tenth = equity \div 10
    OBVIOUS
  <1>2. PICK budget \in Int : budget = Min({fifth, available - tenth})
    BY TwoNumbers
  <1>3. budget <= fifth /\ budget <= available - tenth
    BY <1>2, TwoNumbers
  <1>4. o.qty = SizeBuy(market, equity, price, available) /\ o.price = price
    OBVIOUS
  <1>5. CASE budget <= 0
    BY <1>1, <1>2, <1>4, <1>5 DEF SizeBuy, Order
  <1>6. CASE budget > 0 /\ market = "TW"
    <2>1. PICK fee \in Nat : fee = BuyFee(market, budget)
      BY <1>6, FeeGrows
    <2>2. PICK rest \in Nat : rest = Max({0, budget - fee}) /\ rest = IF budget <= fee THEN 0 ELSE budget - fee
      BY TwoNumbers
    <2>3. PICK qty \in Nat : qty = rest \div price
      BY Division
    <2>4. o.qty = qty
      BY <1>1, <1>2, <1>4, <1>6, <2>1, <2>2, <2>3 DEF SizeBuy
    <2>5. PICK gross \in Nat : gross = qty * price
      OBVIOUS
    <2>6. gross <= rest
      BY <2>3, <2>5, Division
    <2>7. ASSUME qty # 0 PROVE gross + BuyFee(market, gross) <= budget
      <3>1. gross >= 1
        BY <2>5, <2>7
      <3>2. gross <= budget - fee
        BY <2>2, <2>6, <3>1
      <3>3. BuyFee(market, gross) \in Nat /\ BuyFee(market, gross) <= fee
        BY <1>6, <2>1, <3>2, FeeGrows
      <3> QED BY <3>2, <3>3
    <2>8. Cost(market, o) = gross + BuyFee(market, gross) /\ Slack(market, o) = 0
      BY <1>4, <1>6, <2>4, <2>5 DEF Cost, Slack
    <2>9. BuyFee(market, gross) \in Nat
      BY FeeGrows
    <2> QED BY <1>1, <1>3, <1>4, <2>4, <2>7, <2>8, <2>9 DEF Order
  <1>7. CASE budget > 0 /\ market = "US"
    <2>1. PICK qty \in Nat : qty = Rounded(budget, price)
      BY <1>7, RoundedFits
    <2>2. o.qty = qty
      BY <1>1, <1>2, <1>4, <1>7, <2>1 DEF SizeBuy
    <2>3. PICK gross \in Nat : gross = qty * price
      OBVIOUS
    <2>4. 2 * gross <= 2 * budget + price
      BY <1>7, <2>1, <2>3, RoundedFits
    <2>5. Cost(market, o) = gross /\ Slack(market, o) = price
      BY <1>4, <1>7, <2>2, <2>3 DEF Cost, Slack, BuyFee
    <2> QED BY <1>1, <1>3, <1>4, <2>2, <2>4, <2>5 DEF Order
  <1> QED BY <1>5, <1>6, <1>7

\* Whatever the prices and however many, the orders keep to the limits.
THEOREM BuysKeep ==
  ASSUME NEW market \in {"TW", "US"}, NEW equity \in Nat, NEW cash \in Nat,
         NEW prices \in Seq(Nat \ {0}), NEW orders, orders = Buys(market, equity, cash, prices)
  PROVE  /\ orders \in Seq(Order)
         /\ \A k \in DOMAIN orders :
              2 * Cost(market, orders[k]) <= 2 * (equity \div 5) + Slack(market, orders[k])
         /\ orders # <<>> =>
              2 * Total(Costs(market, orders))
                <= 2 * (cash - equity \div 10) + Total(Slacks(market, orders))
  <1> DEFINE n == Len(prices)
             Next(k, x) ==
               LET qty == SizeBuy(market, equity, prices[k], x.left)
                   gross == qty * prices[k]
               IN IF qty = 0 \/ (market = "TW" /\ gross < MinOrder) THEN x
                  ELSE [left |-> Spends(x.left, gross + BuyFee(market, gross)),
                        orders |-> Append(x.orders, [qty |-> qty, price |-> prices[k]])]
             none == [left |-> cash, orders |-> <<>>]
             Body(u) == [k \in 0 .. n |-> IF k = 0 THEN none ELSE Next(k, u[k - 1])]
             S == [left : Int, orders : Seq(Order)]
             run == CHOOSE u : u = Body(u)
             Keeps(x) ==
               /\ Total(Costs(market, x.orders)) = cash - x.left
               /\ Total(Slacks(market, x.orders)) >= 0
               /\ \A k \in DOMAIN x.orders :
                    2 * Cost(market, x.orders[k]) <= 2 * (equity \div 5) + Slack(market, x.orders[k])
               /\ x.orders # <<>> =>
                    2 * x.left + Total(Slacks(market, x.orders)) >= 2 * (equity \div 10)
  <1>1. n \in Nat /\ \A k \in 1 .. n : prices[k] \in Nat \ {0}
    OBVIOUS
  <1>2. orders = run[n].orders
    BY DEF Buys
  <1> HIDE DEF n
  <1>3. PICK fifth \in Nat, tenth \in Nat : fifth = equity \div 5 /\ tenth = equity \div 10
    OBVIOUS
  <1>4. ASSUME NEW k \in 1 .. n, NEW x \in S
        PROVE  Next(k, x) \in S /\ (Keeps(x) => Keeps(Next(k, x)))
    <2>1. PICK left \in Int, list \in Seq(Order) : left = x.left /\ list = x.orders
      OBVIOUS
    <2>2. PICK price \in Nat \ {0} : price = prices[k]
      BY <1>1
    <2>3. PICK o : o = [qty |-> SizeBuy(market, equity, price, left), price |-> price]
      OBVIOUS
    <2>4. /\ o \in Order
          /\ o.qty # 0 => /\ 2 * Cost(market, o) <= 2 * fifth + Slack(market, o)
                          /\ 2 * Cost(market, o) <= 2 * (left - tenth) + Slack(market, o)
      BY <1>3, <2>3, SizeFits
    <2>5. o.qty = SizeBuy(market, equity, price, left) /\ o.price = price
      BY <2>3
    <2>6. CASE o.qty = 0 \/ (market = "TW" /\ o.qty * price < MinOrder)
      <3>1. Next(k, x) = x
        BY <2>1, <2>2, <2>5, <2>6
      <3> QED BY <3>1
    <2>7. CASE ~(o.qty = 0 \/ (market = "TW" /\ o.qty * price < MinOrder))
      <3>1. Next(k, x) = [left |-> left - Cost(market, o), orders |-> Append(list, o)]
        BY <2>1, <2>2, <2>3, <2>5, <2>7 DEF Cost, Spends
      <3> HIDE DEF Next
      <3>2. PICK cost \in Nat, slack \in Nat, paid \in Int, excess \in Int :
              /\ cost = Cost(market, o) /\ slack = Slack(market, o)
              /\ paid = Total(Costs(market, list)) /\ excess = Total(Slacks(market, list))
        BY <2>4, OneOrderMore
      <3>3. PICK more : more = Append(list, o)
        OBVIOUS
      <3>4. Total(Costs(market, more)) = paid + cost /\ Total(Slacks(market, more)) = excess + slack
        BY <2>4, <3>2, <3>3, OneOrderMore
      <3>5. /\ more \in Seq(Order)
            /\ \A j \in DOMAIN more : more[j] = o \/ (j \in DOMAIN list /\ more[j] = list[j])
        BY <2>4, <3>3
      <3>6. Next(k, x).left = left - cost /\ Next(k, x).orders = more
        BY <3>1, <3>2, <3>3
      <3>7. Next(k, x) \in S
        <4>1. left - cost \in Int
          OBVIOUS
        <4> QED BY <3>1, <3>2, <3>3, <3>5, <4>1
      <3> HIDE DEF S
      <3>8. ASSUME Keeps(x) PROVE Keeps(Next(k, x))
        <4>1. paid = cash - left /\ excess >= 0
          BY <2>1, <3>2, <3>8
        <4>2. 2 * cost <= 2 * fifth + slack /\ 2 * cost <= 2 * (left - tenth) + slack
          BY <2>4, <2>7, <3>2
        <4>3. paid + cost = cash - (left - cost) /\ excess + slack >= 0
          BY <4>1
        <4>4. 2 * (left - cost) + (excess + slack) >= 2 * tenth
          BY <4>1, <4>2
        <4>5. \A j \in DOMAIN more :
                2 * Cost(market, more[j]) <= 2 * (equity \div 5) + Slack(market, more[j])
          BY <1>3, <2>1, <3>2, <3>5, <3>8, <4>2
        <4> QED BY <1>3, <3>4, <3>6, <4>3, <4>4, <4>5
      <3> QED BY <3>7, <3>8
    <2> QED BY <2>6, <2>7
  <1>5. none \in S /\ Keeps(none)
    <2>1. none \in S /\ none.left = cash /\ none.orders = <<>>
      OBVIOUS
    <2>2. Total(Costs(market, <<>>)) = 0 /\ Total(Slacks(market, <<>>)) = 0
      <3>1. Costs(market, <<>>) = <<>> /\ Slacks(market, <<>>) = <<>>
        BY DEF Costs, Slacks
      <3>2. Total(<<>>) = 0
        <4>1. PICK f : f = [k \in {0} |-> 0]
          OBVIOUS
        <4>2. f[0] = 0 /\ <<>> \in Seq(Int) /\ Len(<<>>) = 0
          BY <4>1
        <4>3. \A k \in 1 .. Len(<<>>) : f[k - 1] \in Int => f[k] = f[k - 1] + <<>>[k]
          BY <4>2
        <4> QED BY <4>2, <4>3, TotalIs
      <3> QED BY <3>1, <3>2
    <2> QED BY <2>1, <2>2
  <1> HIDE DEF Next, S, Keeps, none
  <1>6. PICK step : step = [z \in (1 .. n) \X S |-> Next(z[1], z[2])]
    OBVIOUS
  <1>7. step \in [(1 .. n) \X S -> S] /\ \A k \in 1 .. n : \A x \in S : step[<<k, x>>] = Next(k, x)
    BY <1>4, <1>6
  <1>8. PICK g \in [0 .. n -> S] : Computes(g, n, S, none, step)
    BY <1>1, <1>5, <1>7, Recursion
  <1>9. g[0] = none /\ \A k \in 1 .. n : g[k - 1] \in S /\ g[k] = Next(k, g[k - 1])
    <2>1. ASSUME NEW k \in 1 .. n PROVE k - 1 \in 0 .. n
      BY <1>1
    <2> QED BY <2>1, <1>7, <1>8 DEF Computes, Follows
  <1>10. run = Body(run)
    <2>1. g = Body(g)
      <3>1. ASSUME NEW k \in 0 .. n, k # 0 PROVE k \in 1 .. n
        BY <1>1, <3>1
      <3> QED BY <1>1, <1>9, <3>1
    <2> HIDE DEF Body
    <2> QED BY <2>1, Zenon
  <1> HIDE DEF run
  <1>11. Follows(run, n, S, none, step)
    <2>1. run[0] = none /\ \A k \in 1 .. n : run[k] = Next(k, run[k - 1])
      BY <1>1, <1>10
    <2> QED BY <2>1, <1>7 DEF Follows
  <1>12. n \in 0 .. n /\ run[n] = g[n]
    <2>1. n \in 0 .. n
      BY <1>1
    <2> QED BY <2>1, <1>8, <1>11 DEF Computes
  <1> HIDE DEF Body
  <1> DEFINE T == {k \in 0 .. n : Keeps(g[k])}
  <1>13. 0 \in T
    BY <1>1, <1>5, <1>9
  <1>14. ASSUME NEW k \in 1 .. n, k - 1 \in T PROVE k \in T
    BY <1>1, <1>4, <1>9, <1>14
  <1> HIDE DEF T
  <1>15. Keeps(g[n])
    <2>1. n \in T
      BY <1>1, <1>12, <1>13, <1>14, CountTo
    <2> QED BY <2>1 DEF T
  <1>16. PICK x \in S : x = g[n] /\ x.orders = orders /\ Keeps(x)
    BY <1>2, <1>12, <1>15
  <1>17. PICK left \in Int : left = x.left
    BY DEF S
  <1>18. orders \in Seq(Order)
    BY <1>16 DEF S
  <1>19. PICK paid \in Int, excess \in Int :
           paid = Total(Costs(market, orders)) /\ excess = Total(Slacks(market, orders))
    <2>1. [qty |-> 0, price |-> 1] \in Order
      BY DEF Order
    <2> QED BY <1>18, <2>1, OneOrderMore
  <1>20. paid = cash - left
    BY <1>16, <1>17, <1>19 DEF Keeps
  <1>21. ASSUME orders # <<>> PROVE 2 * paid <= 2 * (cash - tenth) + excess
    <2>1. 2 * left + excess >= 2 * tenth
      BY <1>3, <1>16, <1>17, <1>19, <1>21 DEF Keeps
    <2> QED BY <1>20, <2>1
  <1> QED BY <1>3, <1>16, <1>18, <1>19, <1>21 DEF Keeps

-----------------------------------------------------------------------------
(* Inputs and outputs *)

\* The sequences of up to n members of S are sequences over whatever S is part of.
LEMMA UpToAreSequences ==
  ASSUME NEW R, NEW S \in SUBSET R, NEW n \in Nat, NEW s \in UpTo(S, n)
  PROVE  s \in Seq(R)
  <1>1. PICK k \in 0 .. n : s \in [1 .. k -> S]
    BY DEF UpTo
  <1>2. k \in Nat /\ s \in [1 .. k -> R]
    BY <1>1
  <1> QED BY <1>2

\* What every input of a topic is made of.
LEMMA InputFacts ==
  ASSUME NEW x \in Inputs
  PROVE  /\ x.topic \in {"afford", "size", "replay", "backtest", "match"}
         /\ x.topic = "afford" =>
              x.market \in {"TW", "US"} /\ x.cash \in Nat /\ x.price \in Nat \ {0} /\ x.cap \in Nat
         /\ x.topic = "size" =>
              /\ x.market \in {"TW", "US"} /\ x.equity \in Nat /\ x.cash \in Nat
              /\ x.prices \in Seq(Nat \ {0})
         /\ x.topic = "replay" =>
              x.orders \in Seq(Fill) /\ NeverShort(x.orders) /\ x.close \in Nat
         /\ x.topic = "backtest" =>
              /\ x.verdicts \in Verdicts /\ x.opens \in [1 .. Length -> {1, 2}] /\ x.close \in {1, 3}
         /\ x.topic = "match" =>
              /\ x.batch \in {<<"own", "other">>, <<"own">>}
              /\ x.items \in Seq(Items) /\ x.repaired \in Seq(Items)
  <1>1. Purses \subseteq Nat /\ Prices \subseteq Nat \ {0}
    BY CalcAssumption
  <1>2. CASE x \in [topic : {"afford"}, market : {"TW", "US"}, cash : Purses, price : Prices, cap : {2, 100}]
    <2>1. /\ x.topic = "afford" /\ x.market \in {"TW", "US"} /\ x.cash \in Purses
          /\ x.price \in Prices /\ x.cap \in {2, 100}
      BY <1>2
    <2>2. x.cash \in Nat
      BY <1>1, <2>1
    <2>3. x.price \in Nat \ {0}
      BY <1>1, <2>1, Zenon
    <2>4. x.cap \in Nat
      BY <2>1
    <2> QED BY <2>1, <2>2, <2>3, <2>4
  <1>3. CASE x \in {y \in [topic : {"size"}, market : {"TW", "US"}, equity : Purses, cash : Purses,
                           prices : UpTo(Prices, 3)] : y.cash <= y.equity /\ y.equity % 10 = 0}
    <2>1. /\ x.topic = "size" /\ x.market \in {"TW", "US"} /\ x.equity \in Purses /\ x.cash \in Purses
          /\ x.prices \in UpTo(Prices, 3)
      BY <1>3
    <2>3. x.prices \in Seq(Nat \ {0})
      BY <1>1, <2>1, UpToAreSequences
    <2> QED BY <1>1, <2>1, <2>3
  <1>4. CASE x \in {y \in [topic : {"replay"}, orders : UpTo(Fills, 3), close : Prices] : NeverShort(y.orders)}
    <2>1. x.topic = "replay" /\ x.orders \in UpTo(Fills, 3) /\ x.close \in Prices /\ NeverShort(x.orders)
      BY <1>4
    <2>3. Fills \subseteq Fill
      <3>1. SUFFICES ASSUME NEW o \in Fills PROVE o \in Fill
        OBVIOUS
      <3>2. o \in [side : {"buy", "sell"}, qty : {1, 2}, price : Prices, fee : {1}]
        BY DEF Fills
      <3>3. o = [side |-> o.side, qty |-> o.qty, price |-> o.price, fee |-> o.fee]
        BY <3>2
      <3>4. o.side \in {"buy", "sell"} /\ o.qty \in Nat \ {0} /\ o.price \in Nat /\ o.fee \in Nat
        <4>1. o.side \in {"buy", "sell"} /\ o.qty \in {1, 2} /\ o.price \in Prices /\ o.fee \in {1}
          BY <3>2
        <4>2. o.price \in Nat
          BY <1>1, <4>1
        <4> QED BY <4>1, <4>2
      <3> QED BY <3>3, <3>4 DEF Fill
    <2>4. x.orders \in Seq(Fill)
      BY <2>1, <2>3, UpToAreSequences
    <2> QED BY <1>1, <2>1, <2>4
  <1>5. CASE x \in [topic : {"backtest"}, verdicts : Verdicts, opens : [1 .. Length -> {1, 2}], close : {1, 3}]
    <2>1. x.topic = "backtest" /\ x.verdicts \in Verdicts /\ x.opens \in [1 .. Length -> {1, 2}] /\ x.close \in {1, 3}
      BY <1>5
    <2> QED BY <2>1
  <1>6. CASE x \in [topic : {"match"}, batch : {<<"own", "other">>, <<"own">>}, items : UpTo(Items, 2),
                    repaired : UpTo(Items, 1)]
    <2>1. /\ x.topic = "match" /\ x.batch \in {<<"own", "other">>, <<"own">>}
          /\ x.items \in UpTo(Items, 2) /\ x.repaired \in UpTo(Items, 1)
      BY <1>6
    <2>2. x.items \in Seq(Items) /\ x.repaired \in Seq(Items)
      BY <2>1, UpToAreSequences
    <2> QED BY <2>1, <2>2
  <1> QED BY <1>2, <1>3, <1>4, <1>5, <1>6 DEF Inputs

\* A behaviour holds an input, and its output once it is computed.
CalcInv ==
  \E x \in Inputs : calc = [input |-> x] \/ calc = [input |-> x, output |-> Output(x)]

\* A step computes the output of the input.
LEMMA OutputStep ==
  ASSUME CalcInv, [CalcNext]_calc
  PROVE  CalcInv'
  <1>1. PICK x \in Inputs : calc = [input |-> x] \/ calc = [input |-> x, output |-> Output(x)]
    BY DEF CalcInv
  <1>2. calc.input = x
    BY <1>1
  <1>3. calc' = [input |-> x] \/ calc' = [input |-> x, output |-> Output(x)]
    BY <1>1, <1>2 DEF CalcNext, Calculate
  <1> QED BY <1>3 DEF CalcInv

\* The output is the one of the input, in every reachable state.
THEOREM OutputOfInput == CalcSpec => []CalcInv
  <1>1. CalcInit => CalcInv
    BY DEF CalcInit, CalcInv
  <1>2. CalcInv /\ [CalcNext]_calc => CalcInv'
    BY OutputStep
  <1> QED BY <1>1, <1>2, PTL DEF CalcSpec

\* Of a topic that is done, the output is there.
LEMMA DoneFacts ==
  ASSUME CalcInv, NEW topic, Done(topic)
  PROVE  /\ calc.input \in Inputs /\ calc.input.topic = topic
         /\ calc.output = Output(calc.input)
  <1>1. PICK x \in Inputs : calc = [input |-> x] \/ calc = [input |-> x, output |-> Output(x)]
    BY DEF CalcInv
  <1>2. "output" \in DOMAIN calc /\ calc.input.topic = topic
    BY DEF Done
  <1>3. calc # [input |-> x]
    <2>1. "output" \notin DOMAIN [input |-> x]
      OBVIOUS
    <2> QED BY <1>2, <2>1
  <1> QED BY <1>1, <1>2, <1>3

\* A calculation about the account is done right.
LEMMA AccountRight ==
  ASSUME CalcInv
  PROVE  AccountAddsUp
  <1>1. PICK x : x = calc.input
    OBVIOUS
  <1>2. ASSUME Done("afford")
        PROVE  calc.output = Max({0} \cup {q \in 1 .. Min({x.cap, x.cash}) :
                                   q * x.price + BuyFee(x.market, q * x.price) <= x.cash})
    <2>1. x \in Inputs /\ x.topic = "afford" /\ calc.output = Output(x)
      BY <1>1, <1>2, DoneFacts
    <2>2. calc.output = AffordableQty(x.market, x.cash, x.price, x.cap)
      BY <2>1 DEF Output
    <2>3. calc.output = Max(Payable(x.market, x.cash, x.price, x.cap))
      BY <2>1, <2>2, InputFacts, SearchFinds
    <2> QED BY <2>3 DEF Payable
  <1>3. AffordableIsLargest
    BY <1>1, <1>2 DEF AffordableIsLargest
  <1>4. LimitsKept
    <2>1. SUFFICES ASSUME Done("size") PROVE LimitsKept
      BY DEF LimitsKept
    <2>2. x \in Inputs /\ x.topic = "size" /\ calc.output = Output(x)
      BY <1>1, <2>1, DoneFacts
    <2>3. calc.output = Buys(x.market, x.equity, x.cash, x.prices)
      BY <2>2 DEF Output
    <2>4. PICK orders : orders = calc.output
      OBVIOUS
    <2>5. /\ orders \in Seq(Order)
          /\ \A k \in DOMAIN orders :
               2 * Cost(x.market, orders[k]) <= 2 * (x.equity \div 5) + Slack(x.market, orders[k])
          /\ orders # <<>> =>
               2 * Total(Costs(x.market, orders))
                 <= 2 * (x.cash - x.equity \div 10) + Total(Slacks(x.market, orders))
      <3>1. /\ x.market \in {"TW", "US"} /\ x.equity \in Nat /\ x.cash \in Nat
            /\ x.prices \in Seq(Nat \ {0})
        BY <2>2, InputFacts
      <3> QED BY <2>3, <2>4, <3>1, BuysKeep
    <2>6. \A o \in ToSet(orders) :
            2 * Cost(x.market, o) <= 2 * (x.equity \div 5) + Slack(x.market, o)
      BY <2>5 DEF ToSet
    <2> QED BY <1>1, <2>4, <2>5, <2>6 DEF LimitsKept, Cost, Slack, Costs, Slacks
  <1>5. EquityAddsUp
    <2>1. SUFFICES ASSUME Done("replay") PROVE EquityAddsUp
      BY DEF EquityAddsUp
    <2>2. x \in Inputs /\ x.topic = "replay" /\ calc.output = Output(x)
      BY <1>1, <2>1, DoneFacts
    <2>3. calc.output = Replayed(x.orders)
      BY <2>2 DEF Output
    <2>4. x.orders \in Seq(Fill) /\ NeverShort(x.orders) /\ x.close \in Int
      BY <2>2, InputFacts
    <2> QED BY <1>1, <2>3, <2>4, ReplayAddsUp DEF EquityAddsUp
  <1> QED BY <1>3, <1>4, <1>5 DEF AccountAddsUp

\* Whatever the fees, the prices, the cash and the history: the search finds the largest
\* quantity that can be paid, the orders keep to the limits, and the replay explains the
\* curve (AccountAddsUp).
THEOREM AccountsAddUp == CalcSpec => []AccountAddsUp
  <1>1. CalcInv => AccountAddsUp
    BY AccountRight
  <1> QED BY <1>1, OutputOfInput, PTL

-----------------------------------------------------------------------------
(* The backtest *)

\* The target after a close: the day's verdict, or the target before.
Target(verdict, before) ==
  CASE verdict = "buy" -> Long [] verdict = "sell" -> Flat [] OTHER -> before

\* Signals follows the verdicts from day to day.
LEMMA SignalsFollow ==
  ASSUME NEW verdicts \in Verdicts
  PROVE  /\ Signals(verdicts)[0] = Flat
         /\ \A i \in 1 .. Length :
              Signals(verdicts)[i] = Target(verdicts[i], Signals(verdicts)[i - 1])
         /\ \A i \in 0 .. Length : Signals(verdicts)[i] \in {Flat, Long}
  <1> DEFINE S == {Flat, Long}
             Body(u) ==
               [i \in 0 .. Length |->
                  IF i = 0 THEN Flat
                  ELSE CASE verdicts[i] = "buy" -> Long [] verdicts[i] = "sell" -> Flat
                         [] OTHER -> u[i - 1]]
             signal == CHOOSE u : u = Body(u)
  <1>1. Length \in Nat
    BY CalcAssumption
  <1>2. Signals(verdicts) = signal
    BY DEF Signals
  <1>3. ASSUME NEW u, \A i \in 0 .. Length : u[i] = IF i = 0 THEN Flat ELSE Target(verdicts[i], u[i - 1]),
               u = [i \in 0 .. Length |-> u[i]]
        PROVE  u = Body(u)
    BY <1>3 DEF Target
  <1>4. PICK step : step = [z \in (1 .. Length) \X S |-> Target(verdicts[z[1]], z[2])]
    OBVIOUS
  <1>5. \A i \in 1 .. Length : \A x \in S : Target(verdicts[i], x) \in S
    BY DEF Target
  <1> HIDE DEF S
  <1>6. step \in [(1 .. Length) \X S -> S]
    BY <1>4, <1>5
  <1>7. \A i \in 1 .. Length : \A x \in S : step[<<i, x>>] = Target(verdicts[i], x)
    BY <1>4
  <1>8. Flat \in S
    BY DEF S
  <1>9. PICK g \in [0 .. Length -> S] : Computes(g, Length, S, Flat, step)
    BY <1>1, <1>6, <1>8, Recursion
  <1>10. g[0] = Flat /\ \A i \in 1 .. Length : g[i] = Target(verdicts[i], g[i - 1])
    <2>1. ASSUME NEW i \in 1 .. Length PROVE i - 1 \in 0 .. Length
      BY <1>1
    <2> QED BY <2>1, <1>7, <1>9 DEF Computes, Follows
  <1>11. g = Body(g)
    <2>1. ASSUME NEW i \in 0 .. Length, i # 0 PROVE i \in 1 .. Length
      BY <1>1, <2>1
    <2>2. \A i \in 0 .. Length : g[i] = IF i = 0 THEN Flat ELSE Target(verdicts[i], g[i - 1])
      BY <1>10, <2>1
    <2>3. g = [i \in 0 .. Length |-> g[i]]
      OBVIOUS
    <2> HIDE DEF Body
    <2> QED BY <1>3, <2>2, <2>3
  <1>12. signal = Body(signal)
    <2> HIDE DEF Body
    <2> QED BY <1>11, Zenon
  <1> HIDE DEF signal
  <1>13. signal[0] = Flat /\ \A i \in 1 .. Length : signal[i] = Target(verdicts[i], signal[i - 1])
    BY <1>1, <1>12 DEF Target
  <1>14. Follows(signal, Length, S, Flat, step)
    BY <1>7, <1>13 DEF Follows
  <1>15. \A i \in 0 .. Length : signal[i] = g[i]
    BY <1>9, <1>14 DEF Computes
  <1> QED BY <1>2, <1>9, <1>13, <1>15 DEF S

Fraction == Nat \X Nat
Day == [cash : Fraction, qty : Fraction, entry : Fraction,
        trades : Seq([entry : Fraction, exit : Fraction])]

\* What a day's open makes of the account, given the target of the day before.
Traded(target, open, x) ==
  LET bought == Mul(Whole(open), Up)
      sold == Mul(Whole(open), Down)
      long == x.entry # Whole(0)
  IN CASE target = Long /\ ~long ->
            [x EXCEPT !.cash = Whole(0), !.entry = bought,
                      !.qty = Over(Mul(x.cash, KeptBuying), bought)]
       [] target = Flat /\ long ->
            [cash |-> Mul(Mul(x.qty, sold), KeptSelling), qty |-> Whole(0), entry |-> Whole(0),
             trades |-> Append(x.trades, [entry |-> x.entry, exit |-> sold])]
       [] OTHER -> x

Start == [cash |-> Whole(1), qty |-> Whole(0), entry |-> Whole(0), trades |-> <<>>]

\* The operations on fractions make fractions.
LEMMA Fractions ==
  ASSUME NEW f \in Fraction, NEW g \in Fraction
  PROVE  Mul(f, g) \in Fraction /\ Over(f, g) \in Fraction
  <1>1. f[1] \in Nat /\ f[2] \in Nat /\ g[1] \in Nat /\ g[2] \in Nat
    BY DEF Fraction
  <1>2. \A a \in Nat : \A b \in Nat : a * b \in Nat
    OBVIOUS
  <1> QED BY <1>1, <1>2 DEF Mul, Over, Fraction

\* The constants are fractions.
LEMMA ConstantFractions ==
  /\ KeptBuying \in Fraction /\ KeptSelling \in Fraction /\ Up \in Fraction /\ Down \in Fraction
  /\ \A n \in Nat : Whole(n) \in Fraction
  BY DEF KeptBuying, KeptSelling, Up, Down, Whole, Fraction

\* A day's three cases: a purchase, a sale, or nothing.
LEMMA DayCases ==
  ASSUME NEW x \in Day, NEW open \in Nat, NEW target \in {Flat, Long}
  PROVE  /\ Traded(target, open, x) \in Day
         /\ \/ Traded(target, open, x) = x
            \/ /\ x.entry = Whole(0)
               /\ Traded(target, open, x) =
                    [cash |-> Whole(0), entry |-> Mul(Whole(open), Up), trades |-> x.trades,
                     qty |-> Over(Mul(x.cash, KeptBuying), Mul(Whole(open), Up))]
            \/ /\ x.entry # Whole(0)
               /\ Traded(target, open, x) =
                    [cash |-> Mul(Mul(x.qty, Mul(Whole(open), Down)), KeptSelling),
                     qty |-> Whole(0), entry |-> Whole(0),
                     trades |-> Append(x.trades, [entry |-> x.entry, exit |-> Mul(Whole(open), Down)])]
  <1>1. PICK cash \in Fraction, qty \in Fraction, entry \in Fraction,
             trades \in Seq([entry : Fraction, exit : Fraction]) :
          x = [cash |-> cash, qty |-> qty, entry |-> entry, trades |-> trades]
    BY DEF Day
  <1>2. x.cash = cash /\ x.qty = qty /\ x.entry = entry /\ x.trades = trades
    BY <1>1
  <1>3. PICK bought \in Fraction, sold \in Fraction :
          bought = Mul(Whole(open), Up) /\ sold = Mul(Whole(open), Down)
    BY Fractions, ConstantFractions
  <1>4. CASE target = Long /\ ~(x.entry # Whole(0))
    <2>1. PICK units \in Fraction : units = Over(Mul(cash, KeptBuying), bought)
      BY Fractions, ConstantFractions
    <2>2. Traded(target, open, x) = [x EXCEPT !.cash = Whole(0), !.entry = bought, !.qty = units]
      BY <1>2, <1>3, <1>4, <2>1 DEF Traded
    <2>3. Traded(target, open, x) = [cash |-> Whole(0), entry |-> bought, trades |-> trades, qty |-> units]
      BY <1>1, <2>2
    <2>4. Whole(0) \in Fraction
      BY ConstantFractions
    <2>5. Traded(target, open, x) \in Day
      BY <2>3, <2>4 DEF Day
    <2> QED BY <1>2, <1>3, <1>4, <2>1, <2>3, <2>5
  <1>5. CASE target = Flat /\ x.entry # Whole(0)
    <2>1. PICK gain \in Fraction : gain = Mul(Mul(qty, sold), KeptSelling)
      BY Fractions, ConstantFractions
    <2>2. PICK more : more = Append(trades, [entry |-> entry, exit |-> sold])
      OBVIOUS
    <2>3. more \in Seq([entry : Fraction, exit : Fraction])
      BY <2>2
    <2>4. Traded(target, open, x) =
            [cash |-> gain, qty |-> Whole(0), entry |-> Whole(0), trades |-> more]
      BY <1>2, <1>3, <1>5, <2>1, <2>2 DEF Traded, Flat, Long
    <2>5. Whole(0) \in Fraction
      BY ConstantFractions
    <2>6. Traded(target, open, x) \in Day
      BY <2>3, <2>4, <2>5 DEF Day
    <2> QED BY <1>2, <1>3, <1>5, <2>1, <2>2, <2>4, <2>6
  <1>6. CASE ~(target = Long /\ ~(x.entry # Whole(0))) /\ ~(target = Flat /\ x.entry # Whole(0))
    <2>1. Traded(target, open, x) = x
      BY <1>6 DEF Traded
    <2> QED BY <2>1
  <1> QED BY <1>4, <1>5, <1>6

\* The simulation trades each day's open on the target of the day before.
LEMMA SimulatedDays ==
  ASSUME NEW verdicts \in Verdicts, NEW opens \in [1 .. Length -> Nat]
  PROVE  /\ Simulated(verdicts, opens)[1] = Start
         /\ \A i \in 2 .. Length :
              Simulated(verdicts, opens)[i] =
                Traded(Signals(verdicts)[i - 1], opens[i], Simulated(verdicts, opens)[i - 1])
         /\ \A i \in 1 .. Length : Simulated(verdicts, opens)[i] \in Day
  <1> DEFINE signal == Signals(verdicts)
             Body(u) ==
               [i \in 1 .. Length |->
                  IF i = 1 THEN [cash |-> Whole(1), qty |-> Whole(0), entry |-> Whole(0), trades |-> <<>>]
                  ELSE LET x == u[i - 1]
                           bought == Mul(Whole(opens[i]), Up)
                           sold == Mul(Whole(opens[i]), Down)
                           long == x.entry # Whole(0)
                       IN CASE signal[Yesterday(i)] = Long /\ ~long ->
                                 [x EXCEPT !.cash = Whole(0), !.entry = bought,
                                           !.qty = Over(Mul(x.cash, KeptBuying), bought)]
                            [] signal[Yesterday(i)] = Flat /\ long ->
                                 [cash |-> Mul(Mul(x.qty, sold), KeptSelling), qty |-> Whole(0),
                                  entry |-> Whole(0),
                                  trades |-> Append(x.trades, [entry |-> x.entry, exit |-> sold])]
                            [] OTHER -> x]
             day == CHOOSE u : u = Body(u)
  <1>1. Length \in Nat /\ Length >= 1
    BY CalcAssumption
  <1>2. Simulated(verdicts, opens) = day
    BY DEF Simulated
  <1>3. \A u : Body(u) = [i \in 1 .. Length |->
                            IF i = 1 THEN Start ELSE Traded(signal[i - 1], opens[i], u[i - 1])]
    BY DEF Traded, Start, Yesterday
  <1> HIDE DEF Body
  <1>4. \A i \in 0 .. Length : signal[i] \in {Flat, Long}
    BY SignalsFollow
  <1> HIDE DEF signal
  <1>5. PICK n \in Nat : n = Length - 1
    BY <1>1
  <1>6. ASSUME NEW k \in 1 .. n
        PROVE  k \in 0 .. Length /\ k + 1 \in 2 .. Length /\ k + 1 \in 1 .. Length /\ k - 1 \in 0 .. n
               /\ (k + 1) - 1 = k
    BY <1>1, <1>5
  <1>7. ASSUME NEW k \in 1 .. n, NEW x \in Day PROVE Traded(signal[k], opens[k + 1], x) \in Day
    <2>1. opens[k + 1] \in Nat /\ signal[k] \in {Flat, Long}
      BY <1>4, <1>6
    <2> QED BY <2>1, DayCases
  <1>8. PICK step : step = [z \in (1 .. n) \X Day |-> Traded(signal[z[1]], opens[z[1] + 1], z[2])]
    OBVIOUS
  <1>9. step \in [(1 .. n) \X Day -> Day]
    BY <1>7, <1>8
  <1>10. \A k \in 1 .. n : \A x \in Day : step[<<k, x>>] = Traded(signal[k], opens[k + 1], x)
    BY <1>8
  <1>11. Start \in Day
    BY ConstantFractions DEF Start, Day
  <1>12. PICK g \in [0 .. n -> Day] : Computes(g, n, Day, Start, step)
    BY <1>5, <1>9, <1>11, Recursion
  <1>13. g[0] = Start /\ \A k \in 1 .. n : g[k] = Traded(signal[k], opens[k + 1], g[k - 1])
    <2>1. ASSUME NEW k \in 1 .. n PROVE g[k - 1] \in Day
      BY <1>6
    <2> QED BY <2>1, <1>10, <1>12 DEF Computes, Follows
  <1>14. PICK d : d = [i \in 1 .. Length |-> g[i - 1]]
    OBVIOUS
  <1>15. d = Body(d)
    <2>1. ASSUME NEW i \in 1 .. Length
          PROVE  d[i] = IF i = 1 THEN Start ELSE Traded(signal[i - 1], opens[i], d[i - 1])
      <3>1. CASE i = 1
        BY <1>13, <1>14, <3>1
      <3>2. CASE i # 1
        <4>1. i - 1 \in 1 .. n /\ (i - 1) + 1 = i /\ i - 1 \in 1 .. Length
          BY <1>1, <1>5, <3>2
        <4>2. d[i] = g[i - 1] /\ d[i - 1] = g[(i - 1) - 1]
          BY <1>14, <4>1
        <4> QED BY <1>13, <3>2, <4>1, <4>2
      <3> QED BY <3>1, <3>2
    <2>2. d = [i \in 1 .. Length |-> IF i = 1 THEN Start ELSE Traded(signal[i - 1], opens[i], d[i - 1])]
      BY <1>14, <2>1
    <2> QED BY <1>3, <2>2
  <1>16. day = Body(day)
    BY <1>15, Zenon
  <1> HIDE DEF day
  <1>17. day[1] = Start
    BY <1>1, <1>3, <1>16
  <1>18. ASSUME NEW i \in 2 .. Length PROVE day[i] = Traded(signal[i - 1], opens[i], day[i - 1])
    <2>1. i \in 1 .. Length /\ i # 1
      BY <1>1
    <2> QED BY <1>3, <1>16, <2>1
  <1> DEFINE T == {k \in 0 .. n : day[k + 1] \in Day}
  <1>19. 0 \in T
    BY <1>5, <1>11, <1>17
  <1>20. ASSUME NEW k \in 1 .. n, k - 1 \in T PROVE k \in T
    <2>1. k + 1 \in 2 .. Length /\ (k + 1) - 1 = k /\ (k - 1) + 1 = k /\ k \in 0 .. n
      BY <1>5, <1>6
    <2>2. day[k] \in Day
      BY <1>20, <2>1
    <2>3. day[k + 1] = Traded(signal[k], opens[k + 1], day[k])
      BY <1>18, <2>1
    <2> QED BY <1>7, <2>1, <2>2, <2>3
  <1> HIDE DEF T
  <1>21. \A k \in 0 .. n : k \in T
    BY <1>5, <1>19, <1>20, CountTo
  <1>22. ASSUME NEW i \in 1 .. Length PROVE day[i] \in Day
    <2>1. i - 1 \in 0 .. n /\ (i - 1) + 1 = i
      BY <1>1, <1>5
    <2>2. i - 1 \in T
      BY <1>21, <2>1
    <2> QED BY <2>1, <2>2 DEF T
  <1> QED BY <1>2, <1>17, <1>18, <1>22 DEF signal

\* Days before which the verdicts agree are the same: nothing looks ahead.
THEOREM SamePast ==
  ASSUME NEW v \in Verdicts, NEW w \in Verdicts, NEW opens \in [1 .. Length -> Nat],
         NEW i \in 1 .. Length, \A j \in 1 .. Length : j < i => v[j] = w[j]
  PROVE  Simulated(v, opens)[i] = Simulated(w, opens)[i]
  <1>1. Length \in Nat /\ i \in Nat /\ i >= 1 /\ i <= Length
    BY CalcAssumption
  <1> DEFINE T == {k \in 0 .. i - 1 : /\ Signals(v)[k] = Signals(w)[k]
                                      /\ Simulated(v, opens)[k + 1] = Simulated(w, opens)[k + 1]}
  <1>2. 0 \in T
    BY <1>1, SignalsFollow, SimulatedDays
  <1>3. ASSUME NEW k \in 1 .. i - 1, k - 1 \in T PROVE k \in T
    <2>1. /\ k \in 1 .. Length /\ k < i /\ k + 1 \in 2 .. Length /\ (k + 1) - 1 = k
          /\ (k - 1) + 1 = k /\ k \in 0 .. i - 1
      BY <1>1
    <2>2. Signals(v)[k - 1] = Signals(w)[k - 1] /\ Simulated(v, opens)[k] = Simulated(w, opens)[k]
      BY <1>3, <2>1
    <2>3. /\ Signals(v)[k] = Target(v[k], Signals(v)[k - 1])
          /\ Signals(w)[k] = Target(w[k], Signals(w)[k - 1])
      BY <2>1, SignalsFollow
    <2>4. Signals(v)[k] = Signals(w)[k]
      <3>1. v[k] = w[k]
        BY <2>1
      <3> QED BY <2>2, <2>3, <3>1
    <2>5. /\ Simulated(v, opens)[k + 1] = Traded(Signals(v)[k], opens[k + 1], Simulated(v, opens)[k])
          /\ Simulated(w, opens)[k + 1] = Traded(Signals(w)[k], opens[k + 1], Simulated(w, opens)[k])
      BY <2>1, SimulatedDays
    <2> QED BY <2>1, <2>2, <2>4, <2>5
  <1> HIDE DEF T
  <1>4. \A k \in 0 .. i - 1 : k \in T
    <2>1. i - 1 \in Nat
      BY <1>1
    <2> QED BY <1>2, <1>3, <2>1, CountTo
  <1>5. i - 1 \in T /\ (i - 1) + 1 = i
    BY <1>1, <1>4
  <1> QED BY <1>5 DEF T

Trade == [entry : Fraction, exit : Fraction]

\* Whoever multiplies up the results of the trades ends at the net result.
LEMMA NetResultIs ==
  ASSUME NEW trades \in Seq(Trade)
  PROVE  /\ NetResult(trades) \in Fraction
         /\ \E g \in [0 .. Len(trades) -> Fraction] :
              /\ g[0] = Whole(1)
              /\ \A k \in 1 .. Len(trades) : g[k] = Mul(g[k - 1], NetMultiple(trades[k]))
              /\ g[Len(trades)] = NetResult(trades)
         /\ \A f : (/\ f[0] = Whole(1)
                    /\ \A k \in 1 .. Len(trades) : f[k] = Mul(f[k - 1], NetMultiple(trades[k])))
                   => NetResult(trades) = f[Len(trades)]
  <1> DEFINE n == Len(trades)
             Body(u) ==
               [k \in 0 .. n |->
                  IF k = 0 THEN Whole(1) ELSE Mul(u[k - 1], NetMultiple(trades[k]))]
             upto == CHOOSE u : u = Body(u)
  <1>1. n \in Nat /\ \A k \in 1 .. n : trades[k] \in Trade
    OBVIOUS
  <1>2. NetResult(trades) = upto[n]
    BY DEF NetResult
  <1> HIDE DEF n
  <1>3. ASSUME NEW k \in 1 .. n, NEW f \in Fraction PROVE Mul(f, NetMultiple(trades[k])) \in Fraction
    <2>1. trades[k].entry \in Fraction /\ trades[k].exit \in Fraction
      BY <1>1 DEF Trade
    <2>2. NetMultiple(trades[k]) \in Fraction
      BY <2>1, Fractions, ConstantFractions DEF NetMultiple
    <2> QED BY <2>2, Fractions
  <1>4. PICK step : step = [z \in (1 .. n) \X Fraction |-> Mul(z[2], NetMultiple(trades[z[1]]))]
    OBVIOUS
  <1>5. step \in [(1 .. n) \X Fraction -> Fraction]
    BY <1>3, <1>4
  <1>6. \A k \in 1 .. n : \A f \in Fraction : step[<<k, f>>] = Mul(f, NetMultiple(trades[k]))
    BY <1>4
  <1>7. PICK g \in [0 .. n -> Fraction] : Computes(g, n, Fraction, Whole(1), step)
    BY <1>1, <1>5, ConstantFractions, Recursion
  <1>8. g[0] = Whole(1) /\ \A k \in 1 .. n : g[k] = Mul(g[k - 1], NetMultiple(trades[k]))
    <2>1. ASSUME NEW k \in 1 .. n PROVE g[k - 1] \in Fraction
      <3>1. k - 1 \in 0 .. n
        BY <1>1
      <3> QED BY <3>1
    <2> QED BY <2>1, <1>6, <1>7 DEF Computes, Follows
  <1>9. upto = Body(upto)
    <2>1. g = Body(g)
      <3>1. ASSUME NEW k \in 0 .. n, k # 0 PROVE k \in 1 .. n
        BY <1>1, <3>1
      <3>2. \A k \in 0 .. n : g[k] = IF k = 0 THEN Whole(1) ELSE Mul(g[k - 1], NetMultiple(trades[k]))
        BY <1>8, <3>1
      <3> QED BY <3>2
    <2> HIDE DEF Body
    <2> QED BY <2>1, Zenon
  <1> HIDE DEF upto
  <1>10. upto[0] = Whole(1) /\ \A k \in 1 .. n : upto[k] = Mul(upto[k - 1], NetMultiple(trades[k]))
    BY <1>1, <1>9
  <1>11. n \in 0 .. n
    BY <1>1
  <1>12. ASSUME NEW f, f[0] = Whole(1), \A k \in 1 .. n : f[k] = Mul(f[k - 1], NetMultiple(trades[k]))
         PROVE  f[n] = g[n]
    <2>1. Follows(f, n, Fraction, Whole(1), step)
      BY <1>6, <1>12 DEF Follows
    <2> QED BY <1>7, <1>11, <2>1 DEF Computes
  <1>13. upto[n] = g[n]
    BY <1>10, <1>12
  <1>14. g[n] \in Fraction
    BY <1>11
  <1> QED BY <1>2, <1>8, <1>12, <1>13, <1>14 DEF n

\* One trade more multiplies the result by its own.
LEMMA OneTradeMore ==
  ASSUME NEW trades \in Seq(Trade), NEW t \in Trade
  PROVE  NetResult(Append(trades, t)) = Mul(NetResult(trades), NetMultiple(t))
  <1>1. PICK n \in Nat : n = Len(trades)
    OBVIOUS
  <1>2. PICK g \in [0 .. n -> Fraction] :
          /\ g[0] = Whole(1)
          /\ \A k \in 1 .. n : g[k] = Mul(g[k - 1], NetMultiple(trades[k]))
          /\ g[n] = NetResult(trades)
    BY <1>1, NetResultIs
  <1>3. PICK more : more = Append(trades, t)
    OBVIOUS
  <1>4. /\ more \in Seq(Trade) /\ Len(more) = n + 1 /\ more[n + 1] = t
        /\ \A k \in 1 .. n : more[k] = trades[k]
    BY <1>1, <1>3
  <1>5. PICK f : f = [k \in 0 .. n + 1 |-> IF k = n + 1 THEN Mul(g[n], NetMultiple(t)) ELSE g[k]]
    OBVIOUS
  <1>6. /\ f[n + 1] = Mul(g[n], NetMultiple(t)) /\ f[0] = Whole(1)
        /\ \A k \in 0 .. n : f[k] = g[k]
    BY <1>2, <1>5
  <1>7. ASSUME NEW k \in 1 .. n + 1 PROVE f[k] = Mul(f[k - 1], NetMultiple(more[k]))
    <2>1. CASE k = n + 1
      <3>1. k - 1 = n /\ n \in 0 .. n
        BY <2>1
      <3> QED BY <1>4, <1>6, <2>1, <3>1
    <2>2. CASE k # n + 1
      <3>1. k \in 1 .. n /\ k \in 0 .. n /\ k - 1 \in 0 .. n
        BY <2>2
      <3> QED BY <1>2, <1>4, <1>6, <3>1
    <2> QED BY <2>1, <2>2
  <1>8. NetResult(more) = f[n + 1]
    BY <1>4, <1>6, <1>7, NetResultIs
  <1> QED BY <1>2, <1>3, <1>6, <1>8

\* No trade makes nothing of anything.
LEMMA NoTrades == NetResult(<<>>) = Whole(1)
  <1>1. PICK f : f = [k \in {0} |-> Whole(1)]
    OBVIOUS
  <1>2. <<>> \in Seq(Trade) /\ Len(<<>>) = 0 /\ f[0] = Whole(1)
    BY <1>1
  <1>3. \A k \in 1 .. Len(<<>>) : f[k] = Mul(f[k - 1], NetMultiple(<<>>[k]))
    BY <1>2
  <1> QED BY <1>2, <1>3, NetResultIs

-----------------------------------------------------------------------------
(* The trades explain the equity *)

\* The cash is what the trades made of one unit; the units held are worth, at their
\* price of entry, what was kept of that at the purchase.
Explained(x) ==
  IF x.entry = Whole(0) THEN Same(x.cash, NetResult(x.trades))
  ELSE Same(Mul(x.qty, x.entry), Mul(NetResult(x.trades), KeptBuying))

\* A fraction is two numbers.
LEMMA TwoParts ==
  ASSUME NEW f \in Fraction
  PROVE  \E a \in Nat : \E b \in Nat : f = <<a, b>>
  BY DEF Fraction

\* A purchase spends the cash: units times price is what was kept of it.
LEMMA PurchaseKeeps ==
  ASSUME NEW cash \in Fraction, NEW closed \in Fraction, NEW price \in Fraction, NEW kept \in Fraction,
         Same(cash, closed)
  PROVE  Same(Mul(Over(Mul(cash, kept), price), price), Mul(closed, kept))
  <1>1. PICK a \in Nat, b \in Nat : cash = <<a, b>>
    BY TwoParts
  <1>2. PICK c \in Nat, d \in Nat : closed = <<c, d>>
    BY TwoParts
  <1>3. PICK p \in Nat, q \in Nat : price = <<p, q>>
    BY TwoParts
  <1>4. PICK k \in Nat, l \in Nat : kept = <<k, l>>
    BY TwoParts
  <1>5. a * d = c * b
    BY <1>1, <1>2, <1>3, <1>4 DEF Same
  <1>6. (((a * k) * q) * p) * (d * l) = (a * d) * (k * q * p * l)
    OBVIOUS
  <1>7. (c * k) * (((b * l) * p) * q) = (c * b) * (k * q * p * l)
    OBVIOUS
  <1>8. Mul(Over(Mul(cash, kept), price), price) = <<((a * k) * q) * p, ((b * l) * p) * q>>
    BY <1>1, <1>2, <1>3, <1>4 DEF Mul, Over
  <1>9. Mul(closed, kept) = <<c * k, d * l>>
    BY <1>1, <1>2, <1>3, <1>4 DEF Mul
  <1> QED BY <1>5, <1>6, <1>7, <1>8, <1>9 DEF Same

\* A sale turns the units to cash: it is what the trade made of what came before.
LEMMA SaleKeeps ==
  ASSUME NEW qty \in Fraction, NEW closed \in Fraction, NEW entry \in Fraction, NEW exit \in Fraction,
         NEW bought \in Fraction, NEW sold \in Fraction,
         Same(Mul(qty, entry), Mul(closed, bought))
  PROVE  Same(Mul(Mul(qty, exit), sold), Mul(closed, Over(Mul(Mul(bought, sold), exit), entry)))
  <1>1. PICK q1 \in Nat, q2 \in Nat : qty = <<q1, q2>>
    BY TwoParts
  <1>2. PICK c1 \in Nat, c2 \in Nat : closed = <<c1, c2>>
    BY TwoParts
  <1>3. PICK e1 \in Nat, e2 \in Nat : entry = <<e1, e2>>
    BY TwoParts
  <1>4. PICK x1 \in Nat, x2 \in Nat : exit = <<x1, x2>>
    BY TwoParts
  <1>5. PICK b1 \in Nat, b2 \in Nat : bought = <<b1, b2>>
    BY TwoParts
  <1>6. PICK s1 \in Nat, s2 \in Nat : sold = <<s1, s2>>
    BY TwoParts
  <1>7. (q1 * e1) * (c2 * b2) = (c1 * b1) * (q2 * e2)
    BY <1>1, <1>2, <1>3, <1>4, <1>5, <1>6 DEF Same, Mul
  <1>8. ((q1 * x1) * s1) * (c2 * (((b2 * s2) * x2) * e1)) = ((q1 * e1) * (c2 * b2)) * (x1 * s1 * s2 * x2)
    OBVIOUS
  <1>9. (c1 * (((b1 * s1) * x1) * e2)) * ((q2 * x2) * s2) = ((c1 * b1) * (q2 * e2)) * (x1 * s1 * s2 * x2)
    OBVIOUS
  <1>10. Mul(Mul(qty, exit), sold) = <<(q1 * x1) * s1, (q2 * x2) * s2>>
    BY <1>1, <1>2, <1>3, <1>4, <1>5, <1>6 DEF Mul
  <1>11. Mul(closed, Over(Mul(Mul(bought, sold), exit), entry))
          = <<c1 * (((b1 * s1) * x1) * e2), c2 * (((b2 * s2) * x2) * e1)>>
    BY <1>1, <1>2, <1>3, <1>4, <1>5, <1>6 DEF Mul, Over
  <1> QED BY <1>7, <1>8, <1>9, <1>10, <1>11 DEF Same

\* The units held, at the close, are what the open trade makes of what came before.
LEMMA OpenKeeps ==
  ASSUME NEW qty \in Fraction, NEW closed \in Fraction, NEW entry \in Fraction, NEW close \in Fraction,
         NEW bought \in Fraction, Same(Mul(qty, entry), Mul(closed, bought))
  PROVE  Same(Mul(qty, close), Mul(closed, Over(Mul(bought, close), entry)))
  <1>1. PICK q1 \in Nat, q2 \in Nat : qty = <<q1, q2>>
    BY TwoParts
  <1>2. PICK c1 \in Nat, c2 \in Nat : closed = <<c1, c2>>
    BY TwoParts
  <1>3. PICK e1 \in Nat, e2 \in Nat : entry = <<e1, e2>>
    BY TwoParts
  <1>4. PICK b1 \in Nat, b2 \in Nat : bought = <<b1, b2>>
    BY TwoParts
  <1>5. PICK x1 \in Nat, x2 \in Nat : close = <<x1, x2>>
    BY TwoParts
  <1>6. (q1 * e1) * (c2 * b2) = (c1 * b1) * (q2 * e2)
    BY <1>1, <1>2, <1>3, <1>4, <1>5 DEF Same, Mul
  <1>7. (q1 * x1) * (c2 * ((b2 * x2) * e1)) = ((q1 * e1) * (c2 * b2)) * (x1 * x2)
    OBVIOUS
  <1>8. (c1 * ((b1 * x1) * e2)) * (q2 * x2) = ((c1 * b1) * (q2 * e2)) * (x1 * x2)
    OBVIOUS
  <1>9. Mul(qty, close) = <<q1 * x1, q2 * x2>>
    BY <1>1, <1>2, <1>3, <1>4, <1>5 DEF Mul
  <1>10. Mul(closed, Over(Mul(bought, close), entry)) = <<c1 * ((b1 * x1) * e2), c2 * ((b2 * x2) * e1)>>
    BY <1>1, <1>2, <1>3, <1>4, <1>5 DEF Mul, Over
  <1> QED BY <1>6, <1>7, <1>8, <1>9, <1>10 DEF Same

\* A price that is paid is not nothing.
LEMMA BoughtIsSomething ==
  ASSUME NEW open \in Nat
  PROVE  Mul(Whole(open), Up) # Whole(0)
  <1>1. Mul(Whole(open), Up)[2] = 2
    BY DEF Mul, Whole, Up
  <1>2. Whole(0)[2] = 1
    BY DEF Whole
  <1> QED BY <1>1, <1>2

\* A day whose trades explain the cash is followed by one.
LEMMA TradedExplained ==
  ASSUME NEW x \in Day, Explained(x), NEW open \in Nat, NEW target \in {Flat, Long}
  PROVE  Explained(Traded(target, open, x))
  <1>1. PICK cash \in Fraction, qty \in Fraction, entry \in Fraction, trades \in Seq(Trade) :
          cash = x.cash /\ qty = x.qty /\ entry = x.entry /\ trades = x.trades
    BY DEF Day, Trade
  <1>2. PICK closed \in Fraction : closed = NetResult(trades)
    BY NetResultIs
  <1>3. PICK bought \in Fraction, sold \in Fraction :
          bought = Mul(Whole(open), Up) /\ sold = Mul(Whole(open), Down)
    BY Fractions, ConstantFractions
  <1>4. CASE Traded(target, open, x) = x
    BY <1>4
  <1>5. ASSUME NEW y, entry = Whole(0),
               y = [cash |-> Whole(0), entry |-> bought, trades |-> trades,
                    qty |-> Over(Mul(cash, KeptBuying), bought)]
        PROVE  Explained(y)
    <2>1. Same(cash, closed)
      BY <1>1, <1>2, <1>5 DEF Explained
    <2>2. /\ y.entry = bought /\ y.trades = trades
          /\ y.qty = Over(Mul(cash, KeptBuying), bought)
      BY <1>5
    <2>3. bought # Whole(0)
      BY <1>3, BoughtIsSomething
    <2>4. Same(Mul(Over(Mul(cash, KeptBuying), bought), bought), Mul(closed, KeptBuying))
      BY <2>1, ConstantFractions, PurchaseKeeps
    <2> QED BY <1>2, <2>2, <2>3, <2>4 DEF Explained
  <1>6. ASSUME NEW y, entry # Whole(0),
               y = [cash |-> Mul(Mul(qty, sold), KeptSelling), qty |-> Whole(0), entry |-> Whole(0),
                    trades |-> Append(trades, [entry |-> entry, exit |-> sold])]
        PROVE  Explained(y)
    <2>1. Same(Mul(qty, entry), Mul(closed, KeptBuying))
      BY <1>1, <1>2, <1>6 DEF Explained
    <2>2. PICK t \in Trade : t = [entry |-> entry, exit |-> sold]
      BY DEF Trade
    <2>3. t.entry = entry /\ t.exit = sold
      BY <2>2
    <2>4. y.entry = Whole(0) /\ y.cash = Mul(Mul(qty, sold), KeptSelling) /\ y.trades = Append(trades, t)
      BY <1>6, <2>2
    <2>5. NetResult(y.trades) = Mul(closed, NetMultiple(t))
      BY <1>2, <2>4, OneTradeMore
    <2>6. NetMultiple(t) = Over(Mul(Mul(KeptBuying, KeptSelling), sold), entry)
      BY <2>3 DEF NetMultiple
    <2>7. Same(Mul(Mul(qty, sold), KeptSelling),
               Mul(closed, Over(Mul(Mul(KeptBuying, KeptSelling), sold), entry)))
      BY <2>1, ConstantFractions, SaleKeeps
    <2> QED BY <2>4, <2>5, <2>6, <2>7 DEF Explained
  <1>7. \/ Traded(target, open, x) = x
        \/ /\ entry = Whole(0)
           /\ Traded(target, open, x) =
                [cash |-> Whole(0), entry |-> bought, trades |-> trades,
                 qty |-> Over(Mul(cash, KeptBuying), bought)]
        \/ /\ entry # Whole(0)
           /\ Traded(target, open, x) =
                [cash |-> Mul(Mul(qty, sold), KeptSelling), qty |-> Whole(0), entry |-> Whole(0),
                 trades |-> Append(trades, [entry |-> entry, exit |-> sold])]
    BY <1>1, <1>3, DayCases, Zenon
  <1> QED BY <1>4, <1>5, <1>6, <1>7

\* On every day the trades explain the cash and the units.
LEMMA AllDaysExplained ==
  ASSUME NEW verdicts \in Verdicts, NEW opens \in [1 .. Length -> Nat], NEW i \in 1 .. Length
  PROVE  Simulated(verdicts, opens)[i] \in Day /\ Explained(Simulated(verdicts, opens)[i])
  <1>1. PICK day : day = Simulated(verdicts, opens)
    OBVIOUS
  <1>2. /\ day[1] = Start
        /\ \A j \in 2 .. Length : day[j] = Traded(Signals(verdicts)[j - 1], opens[j], day[j - 1])
        /\ \A j \in 1 .. Length : day[j] \in Day
    BY <1>1, SimulatedDays
  <1>3. Length \in Nat
    BY CalcAssumption
  <1>4. Explained(Start)
    BY NoTrades DEF Explained, Start, Same, Whole
  <1> DEFINE T == {k \in 0 .. i - 1 : Explained(day[k + 1])}
  <1>5. 0 \in T
    BY <1>2, <1>3, <1>4
  <1>6. ASSUME NEW k \in 1 .. i - 1, k - 1 \in T PROVE k \in T
    <2>1. /\ k \in 0 .. i - 1 /\ k \in 1 .. Length /\ k \in 0 .. Length /\ k + 1 \in 2 .. Length
          /\ k + 1 \in 1 .. Length /\ (k + 1) - 1 = k /\ (k - 1) + 1 = k
      BY <1>3
    <2>2. Explained(day[k]) /\ day[k] \in Day
      BY <1>2, <1>6, <2>1
    <2>3. Signals(verdicts)[k] \in {Flat, Long} /\ opens[k + 1] \in Nat
      BY <2>1, SignalsFollow
    <2>4. day[k + 1] = Traded(Signals(verdicts)[k], opens[k + 1], day[k])
      BY <1>2, <2>1
    <2>5. Explained(day[k + 1])
      BY <2>2, <2>3, <2>4, TradedExplained
    <2> QED BY <2>1, <2>5
  <1> HIDE DEF T
  <1>7. \A k \in 0 .. i - 1 : k \in T
    <2>1. i - 1 \in Nat
      BY <1>3
    <2> QED BY <1>5, <1>6, <2>1, CountTo
  <1>8. i - 1 \in T /\ (i - 1) + 1 = i
    BY <1>3, <1>7
  <1> QED BY <1>1, <1>2, <1>8 DEF T

\* A backtest is done right.
LEMMA BacktestRight ==
  ASSUME CalcInv
  PROVE  BacktestHonest
  <1>1. SUFFICES ASSUME Done("backtest") PROVE BacktestHonest
    BY DEF BacktestHonest, NoLookahead, TradesExplainEquity
  <1>2. PICK x : x = calc.input
    OBVIOUS
  <1>3. x \in Inputs /\ x.topic = "backtest" /\ calc.output = Output(x)
    BY <1>1, <1>2, DoneFacts
  <1>4. PICK v \in Verdicts, opens \in [1 .. Length -> Nat], price \in Nat :
          v = x.verdicts /\ opens = x.opens /\ price = x.close
    <2>1. x.verdicts \in Verdicts /\ x.opens \in [1 .. Length -> {1, 2}] /\ x.close \in {1, 3}
      BY <1>3, InputFacts
    <2>2. x.opens \in [1 .. Length -> Nat] /\ x.close \in Nat
      BY <2>1
    <2> QED BY <2>1, <2>2
  <1>5. calc.output = Simulated(v, opens)
    BY <1>3, <1>4 DEF Output
  <1>6. NoLookahead
    <2>1. SUFFICES ASSUME NEW i \in 1 .. Length, NEW known,
                          known = [j \in 1 .. Length |-> IF j < i THEN v[j] ELSE "none"]
                   PROVE  Simulated(v, opens)[i] = Simulated(known, opens)[i]
      BY <1>2, <1>4, <1>5 DEF NoLookahead
    <2>2. known \in Verdicts
      BY <2>1 DEF Verdicts
    <2>3. \A j \in 1 .. Length : j < i => v[j] = known[j]
      BY <2>1
    <2> QED BY <2>2, <2>3, SamePast
  <1>7. TradesExplainEquity
    <2>1. Length \in 1 .. Length
      BY CalcAssumption
    <2>2. PICK end \in Day : end = calc.output[Length] /\ Explained(end)
      BY <1>5, <2>1, AllDaysExplained
    <2>3. PICK close \in Fraction : close = Whole(price)
      BY ConstantFractions
    <2>4. PICK trades \in Seq(Trade) : trades = end.trades
      BY DEF Day, Trade
    <2>5. PICK closed \in Fraction : closed = NetResult(end.trades)
      BY <2>4, NetResultIs
    <2>6. ASSUME end.entry = Whole(0) PROVE Same(end.cash, closed)
      BY <2>2, <2>5, <2>6 DEF Explained
    <2>7. ASSUME end.entry # Whole(0)
          PROVE  Same(Mul(end.qty, close), Mul(closed, Over(Mul(KeptBuying, close), end.entry)))
      <3>1. end.qty \in Fraction /\ end.entry \in Fraction
        BY DEF Day
      <3>2. Same(Mul(end.qty, end.entry), Mul(closed, KeptBuying))
        BY <2>2, <2>5, <2>7 DEF Explained
      <3> QED BY <3>1, <3>2, ConstantFractions, OpenKeeps
    <2> QED BY <1>2, <1>4, <2>2, <2>3, <2>5, <2>6, <2>7 DEF TradesExplainEquity
  <1> QED BY <1>6, <1>7 DEF BacktestHonest

\* Whatever the verdicts, the opens and the number of days: no day's position depends on
\* that day's verdict or a later one, and the net results of the trades, marked at the
\* close, multiply up to the curve (BacktestHonest).
THEOREM BacktestsHonest == CalcSpec => []BacktestHonest
  <1>1. CalcInv => BacktestHonest
    BY BacktestRight
  <1> QED BY <1>1, OutputOfInput, PTL

-----------------------------------------------------------------------------
(* Reports and the stocks they are about *)

\* The minimum of numbers is one of them.
LEMMA MinIsOneOf ==
  ASSUME NEW S \in SUBSET Nat, S # {}
  PROVE  Min(S) \in S
  <1>1. PICK z : z \in S
    OBVIOUS
  <1>2. PICK x \in S : \A y \in S : ~(<<y, x>> \in OpToRel(<, Nat))
    BY <1>1, NatLessThanWellFounded, WFMin, Zenon
  <1>3. ASSUME NEW y \in S PROVE x <= y
    <2>1. x \in Nat /\ y \in Nat
      OBVIOUS
    <2>2. <<y, x>> \in Nat \X Nat /\ <<y, x>>[1] = y /\ <<y, x>>[2] = x
      BY <2>1
    <2>3. ~(y < x)
      BY <1>2, <2>2, Zenon DEF OpToRel
    <2> QED BY <2>1, <2>3
  <1> QED BY <1>3 DEF Min

\* An item of an answer, about some stock.
BatchItem(Symbol) == [symbol : Symbol, good : BOOLEAN]

\* What is accepted for a symbol is a valid item of that symbol, and there is one if the
\* answer has one.
LEMMA AcceptedFits ==
  ASSUME NEW Symbol, NEW list \in Seq(BatchItem(Symbol)), NEW allowed
  PROVE  /\ \A s \in DOMAIN Accepted(list, allowed) :
              /\ s \in allowed /\ Accepted(list, allowed)[s] \in DOMAIN list
              /\ list[Accepted(list, allowed)[s]].symbol = s
              /\ list[Accepted(list, allowed)[s]].good
         /\ \A i \in DOMAIN list :
              list[i].good /\ list[i].symbol \in allowed => list[i].symbol \in DOMAIN Accepted(list, allowed)
  <1> DEFINE valid == {list[i].symbol : i \in {j \in DOMAIN list : list[j].good}} \cap allowed
             of(s) == {i \in DOMAIN list : list[i].symbol = s /\ list[i].good}
  <1>1. Accepted(list, allowed) = [s \in valid |-> Min(of(s))]
    BY DEF Accepted
  <1>2. ASSUME NEW s \in valid PROVE s \in allowed /\ Min(of(s)) \in of(s)
    <2>1. PICK i \in DOMAIN list : list[i].good /\ list[i].symbol = s
      OBVIOUS
    <2>2. i \in of(s)
      BY <2>1
    <2>3. of(s) \in SUBSET Nat
      OBVIOUS
    <2> QED BY <2>2, <2>3, MinIsOneOf
  <1> QED BY <1>1, <1>2

\* The reports are valid, every stock with an accepted item has one, and when none is
\* missing the order of the reports is the order of the batch.
LEMMA ReportsFit ==
  ASSUME NEW Symbol, NEW batch \in Seq(Symbol), NEW items \in Seq(BatchItem(Symbol)),
         NEW repaired \in Seq(BatchItem(Symbol)),
         NEW reports, reports = Reports(batch, items, repaired)
  PROVE  /\ \A j \in DOMAIN reports : reports[j].good
         /\ \A i \in DOMAIN batch :
              batch[i] \in DOMAIN Accepted(items, ToSet(batch))
                => \E j \in DOMAIN reports : reports[j].symbol = batch[i]
         /\ Len(reports) = Len(batch) => \A i \in DOMAIN batch :
              i \in DOMAIN reports /\ reports[i].symbol = batch[i]
  <1> DEFINE n == Len(batch)
             valid == Accepted(items, ToSet(batch))
             again == Accepted(repaired, Faulty(items, ToSet(batch)) \ DOMAIN valid)
             from(s) == IF s \in DOMAIN again THEN repaired[again[s]] ELSE items[valid[s]]
             there == DOMAIN valid \cup DOMAIN again
             Body(u) ==
               [k \in 0 .. n |->
                  IF k = 0 THEN <<>>
                  ELSE IF batch[k] \in DOMAIN valid \cup DOMAIN again
                       THEN Append(u[k - 1], from(batch[k])) ELSE u[k - 1]]
             kept == CHOOSE u : u = Body(u)
             S == Seq(BatchItem(Symbol))
             Next(k, r) == IF batch[k] \in there THEN Append(r, from(batch[k])) ELSE r
             Keeps(k, r) ==
               /\ Len(r) <= k
               /\ \A j \in DOMAIN r : r[j].good
               /\ \A i \in 1 .. k :
                    batch[i] \in there => \E j \in DOMAIN r : r[j].symbol = batch[i]
               /\ Len(r) = k => \A i \in 1 .. k : r[i].symbol = batch[i]
  <1>1. n \in Nat /\ DOMAIN batch = 1 .. n
    OBVIOUS
  <1>2. reports = kept[n]
    BY DEF Reports
  <1> HIDE DEF n
  <1>3. ASSUME NEW s \in there
        PROVE  from(s) \in BatchItem(Symbol) /\ from(s).symbol = s /\ from(s).good
    <2>1. CASE s \in DOMAIN again
      <3>1. again[s] \in DOMAIN repaired /\ repaired[again[s]].symbol = s /\ repaired[again[s]].good
        BY <2>1, AcceptedFits
      <3>2. repaired[again[s]] \in BatchItem(Symbol)
        BY <3>1
      <3> QED BY <2>1, <3>1, <3>2
    <2>2. CASE s \notin DOMAIN again
      <3>1. s \in DOMAIN valid
        BY <2>2
      <3>2. valid[s] \in DOMAIN items /\ items[valid[s]].symbol = s /\ items[valid[s]].good
        BY <3>1, AcceptedFits
      <3>3. items[valid[s]] \in BatchItem(Symbol)
        BY <3>2
      <3> QED BY <2>2, <3>2, <3>3
    <2> QED BY <2>1, <2>2
  <1>4. DOMAIN valid \subseteq there
    OBVIOUS
  <1>5. \A u : Body(u) = [k \in 0 .. n |-> IF k = 0 THEN <<>> ELSE Next(k, u[k - 1])]
    OBVIOUS
  <1> HIDE DEF valid, again, from, there, Body
  <1>6. ASSUME NEW k \in 1 .. n, NEW r \in S
        PROVE  Next(k, r) \in S /\ (Keeps(k - 1, r) => Keeps(k, Next(k, r)))
    <2>1. CASE batch[k] \notin there
      <3>1. Next(k, r) = r
        BY <2>1
      <3> HIDE DEF Next
      <3>2. Len(r) \in Nat /\ k \in Nat /\ k - 1 \in Nat
        BY <1>1
      <3>3. ASSUME Keeps(k - 1, r) PROVE Keeps(k, r)
        <4>1. Len(r) <= k /\ Len(r) # k
          BY <3>2, <3>3
        <4>2. ASSUME NEW i \in 1 .. k, batch[i] \in there PROVE \E j \in DOMAIN r : r[j].symbol = batch[i]
          <5>1. i \in 1 .. k - 1
            BY <2>1, <3>2, <4>2
          <5> QED BY <3>3, <4>2, <5>1
        <4> QED BY <3>3, <4>1, <4>2
      <3> QED BY <3>1, <3>3
    <2>2. CASE batch[k] \in there
      <3>1. PICK report \in BatchItem(Symbol) : report = from(batch[k])
        BY <1>3, <2>2
      <3>2. report.symbol = batch[k] /\ report.good
        BY <1>3, <2>2, <3>1
      <3>3. PICK more : more = Append(r, report)
        OBVIOUS
      <3>4. Next(k, r) = more
        BY <2>2, <3>1, <3>3
      <3> HIDE DEF Next
      <3>5. PICK m \in Nat : m = Len(r)
        OBVIOUS
      <3>6. /\ more \in S /\ Len(more) = m + 1 /\ DOMAIN more = 1 .. m + 1 /\ more[m + 1] = report
            /\ DOMAIN r = 1 .. m /\ \A j \in 1 .. m : more[j] = r[j]
        BY <3>3, <3>5
      <3> HIDE DEF S
      <3>7. k \in Nat /\ k - 1 \in Nat
        BY <1>1
      <3>8. ASSUME Keeps(k - 1, r) PROVE Keeps(k, more)
        <4>1. m <= k - 1
          BY <3>5, <3>8
        <4>2. Len(more) <= k
          BY <3>6, <3>7, <4>1
        <4>3. ASSUME NEW j \in DOMAIN more PROVE more[j].good
          <5>1. j = m + 1 \/ j \in 1 .. m
            BY <3>6
          <5> QED BY <3>2, <3>6, <3>8, <5>1
        <4>4. ASSUME NEW i \in 1 .. k, batch[i] \in there
              PROVE  \E j \in DOMAIN more : more[j].symbol = batch[i]
          <5>1. CASE i = k
            <6>1. m + 1 \in DOMAIN more
              BY <3>6
            <6> QED BY <3>2, <3>6, <5>1, <6>1
          <5>2. CASE i # k
            <6>1. i \in 1 .. k - 1
              BY <3>7, <5>2
            <6>2. PICK j \in 1 .. m : r[j].symbol = batch[i]
              BY <3>6, <3>8, <4>4, <6>1
            <6>3. j \in DOMAIN more /\ more[j] = r[j]
              BY <3>6
            <6> QED BY <6>2, <6>3
          <5> QED BY <5>1, <5>2
        <4>5. ASSUME Len(more) = k, NEW i \in 1 .. k PROVE more[i].symbol = batch[i]
          <5>1. m = k - 1
            BY <3>6, <3>7, <4>5
          <5>2. CASE i = k
            BY <3>2, <3>6, <3>7, <5>1, <5>2
          <5>3. CASE i # k
            <6>1. i \in 1 .. k - 1 /\ i \in 1 .. m
              BY <3>7, <5>1, <5>3
            <6> QED BY <3>5, <3>6, <3>8, <5>1, <6>1
          <5> QED BY <5>2, <5>3
        <4> QED BY <4>2, <4>3, <4>4, <4>5
      <3> QED BY <3>4, <3>6, <3>8
    <2> QED BY <2>1, <2>2
  <1>7. <<>> \in S /\ Keeps(0, <<>>)
    OBVIOUS
  <1> HIDE DEF Next, S, Keeps
  <1>8. PICK step : step = [z \in (1 .. n) \X S |-> Next(z[1], z[2])]
    OBVIOUS
  <1>9. step \in [(1 .. n) \X S -> S] /\ \A k \in 1 .. n : \A r \in S : step[<<k, r>>] = Next(k, r)
    BY <1>6, <1>8
  <1>10. PICK g \in [0 .. n -> S] : Computes(g, n, S, <<>>, step)
    BY <1>1, <1>7, <1>9, Recursion
  <1>11. g[0] = <<>> /\ \A k \in 1 .. n : g[k - 1] \in S /\ g[k] = Next(k, g[k - 1])
    <2>1. ASSUME NEW k \in 1 .. n PROVE k - 1 \in 0 .. n
      BY <1>1
    <2> QED BY <2>1, <1>9, <1>10 DEF Computes, Follows
  <1>12. kept = Body(kept)
    <2>1. g = [k \in 0 .. n |-> IF k = 0 THEN <<>> ELSE Next(k, g[k - 1])]
      <3>1. ASSUME NEW k \in 0 .. n, k # 0 PROVE k \in 1 .. n
        BY <1>1, <3>1
      <3> QED BY <1>1, <1>11, <3>1
    <2>2. g = Body(g)
      BY <1>5, <2>1
    <2> QED BY <2>2, Zenon
  <1> HIDE DEF kept
  <1>13. kept = [k \in 0 .. n |-> IF k = 0 THEN <<>> ELSE Next(k, kept[k - 1])]
    BY <1>5, <1>12
  <1>14. Follows(kept, n, S, <<>>, step)
    <2>1. kept[0] = <<>> /\ \A k \in 1 .. n : kept[k] = Next(k, kept[k - 1])
      BY <1>1, <1>13
    <2> QED BY <2>1, <1>9 DEF Follows
  <1>15. n \in 0 .. n /\ kept[n] = g[n]
    <2>1. n \in 0 .. n
      BY <1>1
    <2> QED BY <2>1, <1>10, <1>14 DEF Computes
  <1> DEFINE T == {k \in 0 .. n : Keeps(k, g[k])}
  <1>16. 0 \in T
    BY <1>1, <1>7, <1>11
  <1>17. ASSUME NEW k \in 1 .. n, k - 1 \in T PROVE k \in T
    BY <1>1, <1>6, <1>11, <1>17
  <1> HIDE DEF T
  <1>18. Keeps(n, g[n]) /\ g[n] \in S
    <2>1. n \in T
      BY <1>1, <1>15, <1>16, <1>17, CountTo
    <2> QED BY <1>15, <2>1 DEF T
  <1>19. Keeps(n, reports) /\ reports \in S
    BY <1>2, <1>15, <1>18
  <1>20. DOMAIN reports = 1 .. Len(reports)
    BY <1>19 DEF S
  <1>21. \A i \in DOMAIN batch : batch[i] \in DOMAIN valid
           => \E j \in DOMAIN reports : reports[j].symbol = batch[i]
    BY <1>1, <1>4, <1>19 DEF Keeps
  <1> QED BY <1>1, <1>19, <1>20, <1>21 DEF Keeps, n, valid

\* Whatever the batch and the answers: a stock gets a valid report of its own or none, and
\* one if the answer holds a valid item for it.
THEOREM OwnReports ==
  ASSUME NEW Symbol, NEW batch \in Seq(Symbol), NEW items \in Seq(BatchItem(Symbol)),
         NEW repaired \in Seq(BatchItem(Symbol)), NEW i \in DOMAIN batch,
         NEW got, got = Matched(batch, Reports(batch, items, repaired), i)
  PROVE  /\ \A report \in got : report.symbol = batch[i] /\ report.good
         /\ (\E item \in ToSet(items) : item = [symbol |-> batch[i], good |-> TRUE]) => got # {}
  <1>1. PICK reports : reports = Reports(batch, items, repaired)
    OBVIOUS
  <1>2. /\ \A j \in DOMAIN reports : reports[j].good
        /\ \A k \in DOMAIN batch :
             batch[k] \in DOMAIN Accepted(items, ToSet(batch))
               => \E j \in DOMAIN reports : reports[j].symbol = batch[k]
        /\ Len(reports) = Len(batch) => \A k \in DOMAIN batch :
             k \in DOMAIN reports /\ reports[k].symbol = batch[k]
    BY <1>1, ReportsFit
  <1> DEFINE own == {j \in DOMAIN reports : reports[j].symbol = batch[i]}
  <1>3. CASE own # {}
    <2>1. got = {reports[j] : j \in own}
      BY <1>1, <1>3 DEF Matched
    <2> QED BY <1>2, <1>3, <2>1
  <1>4. CASE own = {}
    <2>1. Len(reports) # Len(batch)
      BY <1>2, <1>4
    <2>2. got = {}
      BY <1>1, <1>4, <2>1 DEF Matched, ByOrder
    <2>3. ASSUME NEW item \in ToSet(items), item = [symbol |-> batch[i], good |-> TRUE] PROVE FALSE
      <3>1. PICK k \in DOMAIN items : items[k] = item
        BY DEF ToSet
      <3>2. items[k].symbol = batch[i] /\ items[k].good
        BY <2>3, <3>1
      <3>3. batch[i] \in ToSet(batch)
        BY DEF ToSet
      <3>4. batch[i] \in DOMAIN Accepted(items, ToSet(batch))
        BY <3>2, <3>3, AcceptedFits
      <3> QED BY <1>2, <1>4, <3>4
    <2> QED BY <2>2, <2>3
  <1> QED BY <1>3, <1>4

\* The reports of an answer are matched right.
LEMMA ReportsRight ==
  ASSUME CalcInv
  PROVE  EachItsOwnReport
  <1>1. SUFFICES ASSUME Done("match") PROVE EachItsOwnReport
    BY DEF EachItsOwnReport
  <1>2. PICK x : x = calc.input
    OBVIOUS
  <1>3. x \in Inputs /\ x.topic = "match" /\ calc.output = Output(x)
    BY <1>1, <1>2, DoneFacts
  <1>4. calc.output = [i \in DOMAIN x.batch |-> Matched(x.batch, Reports(x.batch, x.items, x.repaired), i)]
    BY <1>3 DEF Output
  <1>5. PICK Symbol : Symbol = {"own", "other", "unasked"}
    OBVIOUS
  <1>6. x.batch \in Seq(Symbol) /\ x.items \in Seq(BatchItem(Symbol)) /\ x.repaired \in Seq(BatchItem(Symbol))
    <2>1. /\ x.batch \in {<<"own", "other">>, <<"own">>}
          /\ x.items \in Seq(Items) /\ x.repaired \in Seq(Items)
      BY <1>3, InputFacts
    <2>2. <<"own", "other">> \in Seq(Symbol) /\ <<"own">> \in Seq(Symbol)
      BY <1>5
    <2> QED BY <1>5, <2>1, <2>2 DEF Items, BatchItem
  <1>7. ASSUME NEW i \in DOMAIN x.batch
        PROVE  /\ \A report \in calc.output[i] : report.symbol = x.batch[i] /\ report.good
               /\ (\E item \in ToSet(x.items) : item = [symbol |-> x.batch[i], good |-> TRUE])
                    => calc.output[i] # {}
    <2>1. PICK got : got = calc.output[i]
      OBVIOUS
    <2>2. got = Matched(x.batch, Reports(x.batch, x.items, x.repaired), i)
      BY <1>4, <2>1
    <2>3. /\ \A report \in got : report.symbol = x.batch[i] /\ report.good
          /\ (\E item \in ToSet(x.items) : item = [symbol |-> x.batch[i], good |-> TRUE]) => got # {}
      BY <1>6, <2>2, OwnReports
    <2> QED BY <2>1, <2>3
  <1> QED BY <1>2, <1>7 DEF EachItsOwnReport

\* A stock gets the report written for it or none, and gets one if the answer holds a valid
\* one (EachItsOwnReport).
THEOREM ReportsMatch == CalcSpec => []EachItsOwnReport
  <1>1. CalcInv => EachItsOwnReport
    BY ReportsRight
  <1> QED BY <1>1, OutputOfInput, PTL
=============================================================================
