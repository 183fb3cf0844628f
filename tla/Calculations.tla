----------------------------- MODULE Calculations -----------------------------
(***************************************************************************)
(* The program's own arithmetic: how many shares the cash buys             *)
(* (sim/engine.py), how a run of buy decisions shares it out               *)
(* (sim/decision.py), what a history of fills was worth (sim/portfolio.py), *)
(* what a strategy would have earned (backtest_service.py), and which      *)
(* report of a batch answer belongs to which stock (gemini.py,             *)
(* analysis_service.py).  A behaviour is one calculation: an input, then   *)
(* its output.  Money is counted in its smallest unit, shares in units a   *)
(* market trades.                                                          *)
(***************************************************************************)
EXTENDS Integers, Sequences, SequencesExt, FiniteSets, FiniteSetsExt

CONSTANTS
  FeeMin, FeePart,    \* TW_FEE_MIN; the fee is one FeePart-th of the gross
  MinOrder,       \* MIN_ORDER_VALUE of TW
  Purses, Prices, \* bounds: amounts of cash; prices of a unit
  Length          \* bound: fills of a history, days of a backtest

ASSUME CalcAssumption ==
  /\ {FeePart, Length} \subseteq Nat \ {0} /\ {FeeMin, MinOrder} \subseteq Nat
  /\ Purses \subseteq Nat /\ Prices \subseteq Nat \ {0}

VARIABLE calc

\* The sum of a sequence of numbers.
Total(amounts) ==
  LET upto[k \in 0 .. Len(amounts)] == IF k = 0 THEN 0 ELSE upto[k - 1] + amounts[k]
  IN upto[Len(amounts)]

\* Rounded half up.
Rounded(n, d) == (2 * n + d) \div (2 * d)

\* calc_fee for a purchase.
BuyFee(market, gross) ==
  IF market = "US" THEN 0 ELSE Max({FeeMin, Rounded(gross, FeePart)})

-----------------------------------------------------------------------------
(* _affordable_qty *)

\* Mutant: the fee is not part of what has to be paid.
PaysGross(market, cash, price, q) == q * price <= cash

Pays(market, cash, price, q) == q * price + BuyFee(market, q * price) <= cash

\* The loop's bounds after so many rounds: every round brings them closer.
AffordableQty(market, cash, price, cap) ==
  LET most == Min({cash \div price, cap})
      bounds[k \in 0 .. most] ==
        IF k = 0 THEN [low |-> 0, high |-> most]
        ELSE LET b == bounds[k - 1]
                 mid == (b.low + b.high + 1) \div 2
             IN CASE b.low >= b.high -> b
                  [] b.low < b.high /\ Pays(market, cash, price, mid) -> [b EXCEPT !.low = mid]
                  [] OTHER -> [b EXCEPT !.high = mid - 1]
  IN bounds[most].low

-----------------------------------------------------------------------------
(* _size_buy and the loop of run_decisions that spends the cash *)

SizeBuy(market, equity, price, available) ==
  LET budget == Min({equity \div 5, available - equity \div 10}) IN
  IF budget <= 0 THEN 0
  ELSE IF market = "TW" THEN Max({0, budget - BuyFee(market, budget)}) \div price
  ELSE Rounded(budget, price)

Spends(left, cost) == left - cost

Buys(market, equity, cash, prices) ==
  LET run[k \in 0 .. Len(prices)] ==
        IF k = 0 THEN [left |-> cash, orders |-> <<>>]
        ELSE LET x == run[k - 1]
                 qty == SizeBuy(market, equity, prices[k], x.left)
                 gross == qty * prices[k]
             IN IF qty = 0 \/ (market = "TW" /\ gross < MinOrder) THEN x
                ELSE [left |-> Spends(x.left, gross + BuyFee(market, gross)),
                      orders |-> Append(x.orders, [qty |-> qty, price |-> prices[k]])]
  IN run[Len(prices)].orders

-----------------------------------------------------------------------------
(* _replay and equity_curve: a fill has side, qty, price and fee. *)

Grain == 12  \* a cost in parts that divide by every quantity of a short history

Proceeds(o) == o.qty * o.price - o.fee

\* Quantity, cost (in grains) and the sum of realized profits (in grains).
Replayed(orders) ==
  LET after[k \in 0 .. Len(orders)] ==
        IF k = 0 THEN [qty |-> 0, cost |-> 0, realized |-> 0]
        ELSE LET p == after[k - 1]
                 o == orders[k]
                 basis == (p.cost * o.qty) \div p.qty
             IN IF o.side = "buy"
                THEN [p EXCEPT !.qty = @ + o.qty,
                               !.cost = @ + Grain * (o.qty * o.price + o.fee)]
                ELSE IF p.qty > 0
                THEN [qty |-> p.qty - o.qty, cost |-> p.cost - basis,
                      realized |-> p.realized + Grain * Proceeds(o) - basis]
                ELSE [p EXCEPT !.qty = @ - o.qty]
  IN after[Len(orders)]

\* What a fill adds to the cash, and to the shares.
CashFlow(o) == IF o.side = "buy" THEN -(o.qty * o.price + o.fee) ELSE Proceeds(o)
ShareFlow(o) == IF o.side = "buy" THEN o.qty ELSE -o.qty

\* The last point of the curve, counted from the initial cash.
Equity(orders, close) ==
  Total([k \in DOMAIN orders |-> CashFlow(orders[k])])
    + Total([k \in DOMAIN orders |-> ShareFlow(orders[k])]) * close

-----------------------------------------------------------------------------
(* _signals, _simulate and _net_pnl_pct; amounts are fractions <<n, d>>, and the *)
(* fees and the slippage coarse ones, so that an omission shows.                  *)

Mul(f, g) == <<f[1] * g[1], f[2] * g[2]>>
Over(f, g) == <<f[1] * g[2], f[2] * g[1]>>
Same(f, g) == f[1] * g[2] = g[1] * f[2]
Whole(n) == <<n, 1>>

KeptBuying == <<3, 4>>   \* of an amount, after the fee
KeptSelling == <<1, 2>>
Up == <<3, 2>>           \* of a price, after the slippage
Down == <<1, 2>>

Flat == 0
Long == 1

\* The target after each close: the indicators' verdict, or what it was before.
Signals(verdicts) ==
  LET signal[i \in 0 .. Length] ==
        IF i = 0 THEN Flat
        ELSE CASE verdicts[i] = "buy" -> Long [] verdicts[i] = "sell" -> Flat
               [] OTHER -> signal[i - 1]
  IN signal

\* Mutant: acts at the open on the signal of the same day's close.
Today(i) == i

Yesterday(i) == i - 1

\* Per day: the cash, the units held, the price of the entry, the closed trades.
Simulated(verdicts, opens) ==
  LET signal == Signals(verdicts)
      day[i \in 1 .. Length] ==
        IF i = 1 THEN [cash |-> Whole(1), qty |-> Whole(0), entry |-> Whole(0), trades |-> <<>>]
        ELSE LET x == day[i - 1]
                 bought == Mul(Whole(opens[i]), Up)
                 sold == Mul(Whole(opens[i]), Down)
                 long == x.entry # Whole(0)
             IN CASE signal[Yesterday(i)] = Long /\ ~long ->
                       [x EXCEPT !.cash = Whole(0), !.entry = bought,
                                 !.qty = Over(Mul(x.cash, KeptBuying), bought)]
                  [] signal[Yesterday(i)] = Flat /\ long ->
                       [cash |-> Mul(Mul(x.qty, sold), KeptSelling), qty |-> Whole(0),
                        entry |-> Whole(0),
                        trades |-> Append(x.trades, [entry |-> x.entry, exit |-> sold])]
                  [] OTHER -> x
  IN day

NetMultiple(t) == Over(Mul(Mul(KeptBuying, KeptSelling), t.exit), t.entry)

\* What closed trades make of one unit, one after another.
NetResult(trades) ==
  LET upto[k \in 0 .. Len(trades)] ==
        IF k = 0 THEN Whole(1) ELSE Mul(upto[k - 1], NetMultiple(trades[k]))
  IN upto[Len(trades)]

-----------------------------------------------------------------------------
(* Items of a batch answer, and the reports they become. *)

\* _validate_batch_items: the first valid item of every symbol that was asked for.
Accepted(items, allowed) ==
  [s \in {items[i].symbol : i \in {j \in DOMAIN items : items[j].good}} \cap allowed |->
     Min({i \in DOMAIN items : items[i].symbol = s /\ items[i].good})]

Faulty(items, allowed) ==
  {items[i].symbol : i \in {j \in DOMAIN items : ~items[j].good}} \cap allowed

\* _generate_batch: repaired items take the place of faulty ones; in the batch's order.
\* (An answer without any valid item is an error: AiCalls.)
Reports(batch, items, repaired) ==
  LET valid == Accepted(items, ToSet(batch))
      again == Accepted(repaired, Faulty(items, ToSet(batch)) \ DOMAIN valid)
      from(s) == IF s \in DOMAIN again THEN repaired[again[s]] ELSE items[valid[s]]
      kept[k \in 0 .. Len(batch)] ==
        IF k = 0 THEN <<>>
        ELSE IF batch[k] \in DOMAIN valid \cup DOMAIN again
             THEN Append(kept[k - 1], from(batch[k])) ELSE kept[k - 1]
  IN kept[Len(batch)]

\* Mutant: the order of the reports counts whatever their number.
InOrder(batch, reports) == DOMAIN reports

\* run_batch falls back on the order only if no report is missing.
ByOrder(batch, reports) == IF Len(reports) = Len(batch) THEN DOMAIN batch ELSE {}

Matched(batch, reports, i) ==
  LET own == {j \in DOMAIN reports : reports[j].symbol = batch[i]} IN
  IF own # {} THEN {reports[j] : j \in own}
  ELSE IF i \in ByOrder(batch, reports) THEN {reports[i]} ELSE {}

-----------------------------------------------------------------------------
UpTo(S, n) == UNION {[1 .. k -> S] : k \in 0 .. n}

Fills == [side : {"buy", "sell"}, qty : {1, 2}, price : Prices, fee : {1}]

Held(orders, n) == Total([k \in 1 .. n |-> ShareFlow(orders[k])])
NeverShort(orders) == \A n \in DOMAIN orders : Held(orders, n) >= 0

Verdicts == [1 .. Length -> {"buy", "sell", "none"}]
Items == [symbol : {"own", "other", "unasked"}, good : BOOLEAN]

Inputs ==
  [topic : {"afford"}, market : {"TW", "US"}, cash : Purses, price : Prices, cap : {2, 100}]
  \cup {x \in [topic : {"size"}, market : {"TW", "US"}, equity : Purses, cash : Purses,
               prices : UpTo(Prices, 3)] : x.cash <= x.equity /\ x.equity % 10 = 0}
  \cup {x \in [topic : {"replay"}, orders : UpTo(Fills, 3), close : Prices] : NeverShort(x.orders)}
  \cup [topic : {"backtest"}, verdicts : Verdicts, opens : [1 .. Length -> {1, 2}], close : {1, 3}]
  \cup [topic : {"match"}, batch : {<<"own", "other">>, <<"own">>}, items : UpTo(Items, 2),
        repaired : UpTo(Items, 1)]

Output(x) ==
  CASE x.topic = "afford" -> AffordableQty(x.market, x.cash, x.price, x.cap)
    [] x.topic = "size" -> Buys(x.market, x.equity, x.cash, x.prices)
    [] x.topic = "replay" -> Replayed(x.orders)
    [] x.topic = "backtest" -> Simulated(x.verdicts, x.opens)
    [] x.topic = "match" ->
         [i \in DOMAIN x.batch |-> Matched(x.batch, Reports(x.batch, x.items, x.repaired), i)]

CalcInit == calc \in {[input |-> x] : x \in Inputs}

Calculate ==
  /\ DOMAIN calc = {"input"}
  /\ calc' = [input |-> calc.input, output |-> Output(calc.input)]

CalcNext == Calculate

CalcSpec == CalcInit /\ [][CalcNext]_calc

Done(topic) == "output" \in DOMAIN calc /\ calc.input.topic = topic

-----------------------------------------------------------------------------
(* The binary search finds the largest quantity that can be paid with its fee,    *)
(* although the fee has a floor and is rounded (engine.py:344): a cap and the      *)
(* cash bound it, and no larger quantity would do.                                 *)
AffordableIsLargest ==
  Done("afford") =>
    LET x == calc.input IN
    calc.output = 
      Max({0} \cup {q \in 1 .. Min({x.cap, x.cash}) :
                      q * x.price + BuyFee(x.market, q * x.price) <= x.cash})

(* A run of decisions never puts more than a fifth of the equity into one stock    *)
(* and leaves a tenth of it in cash, however many candidates share the cash; in    *)
(* the US market the rounding to the nearest unit (decision.py:164) may exceed     *)
(* each limit by half a unit per order, in TW nothing is exceeded, fees included.  *)
LimitsKept ==
  Done("size") =>
    LET x == calc.input
        cost(o) == o.qty * o.price + BuyFee(x.market, o.qty * o.price)
        slack(o) == IF x.market = "US" THEN o.price ELSE 0  \* twice the excess
        paid == Total([k \in DOMAIN calc.output |-> cost(calc.output[k])])
        excess == Total([k \in DOMAIN calc.output |-> slack(calc.output[k])])
    IN
    /\ \A o \in ToSet(calc.output) : 2 * cost(o) <= 2 * (x.equity \div 5) + slack(o)
    /\ calc.output # <<>> =>
         2 * paid <= 2 * (x.cash - x.equity \div 10) + excess

(* Profits realized by the sales, the cost of what is left and the equity curve    *)
(* tell one story: equity gained is profit realized plus profit on paper           *)
(* ("the booked profit equals the actual change of cash", portfolio.py:107).       *)
EquityAddsUp ==
  Done("replay") =>
    LET p == calc.output IN
    Grain * Equity(calc.input.orders, calc.input.close)
      = p.realized + (Grain * p.qty * calc.input.close - p.cost)

(* What the account buys, what it has left and what its history was worth agree.   *)
AccountAddsUp == AffordableIsLargest /\ LimitsKept /\ EquityAddsUp

(* No day's position depends on that day's verdict or a later one: signals of a    *)
(* close act at the next open (backtest_service.py:4).                              *)
NoLookahead ==
  Done("backtest") =>
    \A i \in 1 .. Length :
      LET known == [j \in 1 .. Length |-> IF j < i THEN calc.input.verdicts[j] ELSE "none"] IN
      calc.output[i].entry = Simulated(known, calc.input.opens)[i].entry

(* The trades explain the equity: the curve ends where the net results of the      *)
(* closed trades, and the open one marked at the close, multiply up to              *)
(* ("both must use one ruler", backtest_service.py:217).                            *)
TradesExplainEquity ==
  Done("backtest") =>
    LET end == calc.output[Length]
        close == Whole(calc.input.close)
        closed == NetResult(end.trades)
    IN IF end.entry = Whole(0) THEN Same(end.cash, closed)
       ELSE Same(Mul(end.qty, close), Mul(closed, Over(Mul(KeptBuying, close), end.entry)))

(* A backtest neither looks ahead nor tells two stories.                            *)
BacktestHonest == NoLookahead /\ TradesExplainEquity

(* A stock gets the report the model wrote for it or none (analysis_service.py:164 *)
(* falls back on the order of the reports), and gets one if the answer holds a      *)
(* valid one for it.                                                                *)
EachItsOwnReport ==
  Done("match") =>
    LET x == calc.input IN
    \A i \in DOMAIN x.batch :
      /\ \A report \in calc.output[i] : report.symbol = x.batch[i] /\ report.good
      /\ (\E item \in ToSet(x.items) : item = [symbol |-> x.batch[i], good |-> TRUE])
           => calc.output[i] # {}
=============================================================================
