------------------------------ MODULE SimTrading ------------------------------
(***************************************************************************)
(* The simulated trading account of one market: the rows of sim_orders and *)
(* the cash of sim_accounts, and the three flows that change them          *)
(* (backend/app/services/sim): matching (engine.py), the intraday exit     *)
(* sentinel (sentinel.py) and the decision run (decision.py).              *)
(*                                                                         *)
(* Processes.  A trader is a job worker: it runs one of the three flows at *)
(* a time.  A filler is an HTTP thread of POST /simulation/{market}:fill,  *)
(* which calls the matching directly and so runs beside the worker.        *)
(*                                                                         *)
(* Transactions.  PostgreSQL at READ COMMITTED: a SELECT sees what is      *)
(* committed when it runs, an UPDATE locks its rows until the commit and   *)
(* waits for the rows others have locked.  tx[p] holds the rows p wrote    *)
(* and has not committed.  The account object is loaded once, when a flow  *)
(* begins, and commits an absolute value of cash if that value changed.    *)
(*                                                                         *)
(* Data.  An order's `open` is the opening price of the first session it   *)
(* may fill at, 0 until sync_prices has stored it.  Fees are one constant. *)
(* Sizing, quotes, AI reports and prices are arbitrary within small sets.  *)
(***************************************************************************)
EXTENDS Integers, Sequences, FiniteSetsExt, Functions

CONSTANTS
  Stocks, NoStock,
  Traders, Fillers, Nobody,
  MaxOrders,       \* rows ever inserted; ids are 1 .. MaxOrders by created_at
  MaxQty, Prices,  \* what sizing and the market may come up with
  Fee,             \* cost of one fill (calc_fee)
  MinOrderValue,   \* MIN_ORDER_VALUE of the market
  InitialCash,
  Legacy,          \* how many orders an older release left in 'filling'
  MaxAborts        \* bound on crashes and database errors

ASSUME TradingAssumption ==
  /\ NoStock \notin Stocks
  /\ Nobody \notin Traders \cup Fillers
  /\ {MaxOrders, MaxQty, Fee, MinOrderValue, InitialCash, MaxAborts} \subseteq Nat
  /\ Prices \subseteq Nat \ {0}
  /\ \A price \in Prices : Fee <= price
  /\ Legacy \in 0 .. MaxOrders

Orders == 1 .. MaxOrders
Procs == Traders \cup Fillers

VARIABLES
  orders,       \* [Orders -> Row]: the committed rows of sim_orders
  nextId,       \* the id the next INSERT takes
  cash,         \* the committed sim_accounts.cash
  open,         \* [Orders -> Nat]: the opening price each order waits for
  local,        \* process: where its flow stands and what its session loaded
  tx,           \* process: rows written and not yet committed
  accountLock,  \* the process whose transaction has updated the account row
  aborts        \* how much of MaxAborts is used

vars == <<orders, nextId, cash, open, local, tx, accountLock, aborts>>

-----------------------------------------------------------------------------
(* Rows, positions, sessions *)

Settled == {"filled", "rejected"}

Row == [stock : Stocks \cup {NoStock}, side : {"buy", "sell"}, qty : Nat,
        status : Settled \cup {"absent", "pending", "filling"}, fill_price : Nat]

Absent == [stock |-> NoStock, side |-> "buy", qty |-> 0,
           status |-> "absent", fill_price |-> 0]

Pending(stock, side, qty) ==
  [stock |-> stock, side |-> side, qty |-> qty,
   status |-> "pending", fill_price |-> 0]

\* Mutant: does not write the shrunk quantity back.
FilledAsOrdered(row, qty, price) ==
  [row EXCEPT !.fill_price = price, !.status = "filled"]

FilledAt(row, qty, price) ==
  [row EXCEPT !.qty = qty, !.fill_price = price, !.status = "filled"]

Rejected(row) == [row EXCEPT !.status = "rejected"]

\* What a row adds to the position in a stock.
Shares(row, s) ==
  IF row.status # "filled" \/ row.stock # s THEN 0
  ELSE IF row.side = "buy" THEN row.qty ELSE -row.qty

\* The replay of the filled orders of one stock, as current_positions adds them up.
Position(ords, s) == SumFunction([o \in Orders |-> Shares(ords[o], s)])

\* Mutant: replays every order, filled or not.
PositionsOfAll(ords) ==
  [s \in Stocks |->
     MapThenSumSet(LAMBDA o : ords[o].qty,
                   {o \in Orders : ords[o].stock = s /\ ords[o].side = "buy"})]

\* current_positions drops what is not positive.
Positions(ords) ==
  [s \in Stocks |-> IF Position(ords, s) \in Nat THEN Position(ords, s) ELSE 0]

PendingOf(s) == {o \in Orders : orders[o].status = "pending" /\ orders[o].stock = s}

\* A session that has not begun a flow.
Fresh == [pc |-> "idle", loaded |-> 0, now |-> 0, held |-> [s \in Stocks |-> 0],
          queue |-> {}, stocks |-> {}, selling |-> NoStock,
          wishes |-> {}, drafts |-> <<>>]

NoWrites == [o \in Orders |-> Absent]

Init ==
  /\ \E stuck \in [1 .. Legacy -> Stocks] :
       orders = [o \in Orders |->
                   IF o > Legacy THEN Absent
                   ELSE [Pending(stuck[o], "buy", 1) EXCEPT !.status = "filling"]]
  /\ nextId = Legacy + 1
  /\ cash = InitialCash
  /\ open = [o \in Orders |-> 0]
  /\ local = [p \in Procs |-> Fresh]
  /\ tx = [p \in Procs |-> NoWrites]
  /\ accountLock = Nobody
  /\ aborts = 0

-----------------------------------------------------------------------------
(* Transactions *)

Wrote(p, o) == tx[p][o].status # "absent"

\* Nobody else has locked row o.
Free(p, o) == \A q \in Procs \ {p} : ~Wrote(q, o)

AccountFree(p) == accountLock \in {Nobody, p}

\* The flush of a dirty account sends its UPDATE, which locks the account row.
Dirty(p) == local[p].now # local[p].loaded

Flush(p) == Dirty(p) => AccountFree(p)

LockAfterFlush(p) == IF Dirty(p) THEN p ELSE accountLock

Committed(ords, p) == [o \in Orders |-> IF Wrote(p, o) THEN tx[p][o] ELSE ords[o]]

\* COMMIT of p: its rows, then the account row if the transaction has updated it.
Commit(p, ords) ==
  /\ Flush(p)
  /\ orders' = Committed(ords, p)
  /\ cash' = IF Dirty(p) \/ accountLock = p THEN local[p].now ELSE cash
  /\ tx' = [tx EXCEPT ![p] = NoWrites]
  /\ accountLock' = IF accountLock = p THEN Nobody ELSE accountLock

Rollback(p) ==
  /\ tx' = [tx EXCEPT ![p] = NoWrites]
  /\ accountLock' = IF accountLock = p THEN Nobody ELSE accountLock

Goto(p, session) == local' = [local EXCEPT ![p] = session]

table == <<orders, nextId, cash, open>>
locks == <<tx, accountLock>>

-----------------------------------------------------------------------------
(* The beginning of the three flows: get_or_create_account *)

LoadAccount(p, pc) ==
  /\ local[p].pc = "idle"
  /\ Goto(p, [Fresh EXCEPT !.pc = pc, !.loaded = cash, !.now = cash])
  /\ UNCHANGED <<table, locks, aborts>>

BeginFill(p) == LoadAccount(p, "recover")
BeginSentinel(p) == p \in Traders /\ LoadAccount(p, "look")
BeginDecide(p) == p \in Traders /\ LoadAccount(p, "weigh")

-----------------------------------------------------------------------------
(* fill_pending_orders *)

\* Mutant: leaves stuck orders to a next round that never comes.
RecoveredNever(row) == row

\* An older release committed 'filling' before it filled; this one never does, so a
\* committed 'filling' row is an orphan whose lease has run out (or was never set).
Recovered(row) == IF row.status = "filling" THEN Rejected(row) ELSE row

FillRecover(p) ==
  /\ local[p].pc = "recover"
  /\ orders' = [o \in Orders |-> Recovered(orders[o])]
  /\ Goto(p, [local[p] EXCEPT !.pc = "replay"])
  /\ UNCHANGED <<nextId, cash, open, locks, aborts>>

FillReplay(p) ==
  /\ local[p].pc = "replay"
  /\ Goto(p, [local[p] EXCEPT !.pc = "list", !.held = Positions(orders)])
  /\ UNCHANGED <<table, locks, aborts>>

FillList(p) ==
  /\ local[p].pc = "list"
  /\ Goto(p, [local[p] EXCEPT !.pc = "fill",
                !.queue = {o \in Orders : orders[o].status = "pending"}])
  /\ UNCHANGED <<table, locks, aborts>>

\* The next order of the list, by created_at.
Next1st(p, o) == o \in local[p].queue /\ \A x \in local[p].queue : o <= x

\* Mutant: takes the order whatever became of it since the list was read.
ClaimUnchecked(p, o) ==
  /\ local[p].pc = "fill" /\ Next1st(p, o)
  /\ Free(p, o)

\* _claim_pending_order: UPDATE .. WHERE status = 'pending' waits for the row's lock.
Claim(p, o) ==
  /\ local[p].pc = "fill" /\ Next1st(p, o)
  /\ orders[o].status = "pending" /\ Free(p, o)

Done(p, o) == [local[p] EXCEPT !.queue = @ \ {o}]

Write(p, o, row) == tx' = [tx EXCEPT ![p][o] = row]

\* Mutant: tries the lost order again.
FillMissedAgain(p, o) ==
  /\ local[p].pc = "fill" /\ Next1st(p, o)
  /\ orders[o].status # "pending"
  /\ UNCHANGED vars

\* rowcount 0: somebody else has filled, rejected or superseded it.
FillMissed(p, o) ==
  /\ local[p].pc = "fill" /\ Next1st(p, o)
  /\ orders[o].status # "pending"
  /\ Goto(p, Done(p, o))
  /\ UNCHANGED <<table, locks, aborts>>

\* restore_or_reject: back to pending, or rejected if the index is taken meanwhile.
Restored(p, o) ==
  IF \E x \in PendingOf(orders[o].stock) \ {o} : ~Wrote(p, x)
  THEN Rejected(orders[o]) ELSE orders[o]

\* No opening price yet.  The savepoint flushes the account first.
FillWait(p, o) ==
  /\ Claim(p, o) /\ open[o] = 0
  /\ Flush(p)
  /\ accountLock' = LockAfterFlush(p)
  /\ Write(p, o, Restored(p, o))
  /\ Goto(p, [Done(p, o) EXCEPT !.loaded = local[p].now])
  /\ UNCHANGED <<table, aborts>>

Cost(qty, price) == qty * price + Fee

\* Mutant: forgets that a gap up may cost more than there is.
AffordableAsOrdered(p, o, qty) == qty = orders[o].qty

\* _affordable_qty: the largest quantity the session's cash pays for.
Affordable(p, o, qty) ==
  /\ qty \in 1 .. orders[o].qty
  /\ Cost(qty, open[o]) <= local[p].now
  /\ \A more \in qty + 1 .. orders[o].qty : Cost(more, open[o]) > local[p].now

FillBuy(p, o) ==
  /\ Claim(p, o) /\ open[o] # 0 /\ orders[o].side = "buy"
  /\ \E qty \in 1 .. orders[o].qty :
       /\ Affordable(p, o, qty)
       /\ qty * open[o] >= MinOrderValue
       /\ Write(p, o, FilledAt(orders[o], qty, open[o]))
       /\ Goto(p, [Done(p, o) EXCEPT !.now = @ - Cost(qty, open[o]),
                                     !.held[orders[o].stock] = @ + qty])
  /\ UNCHANGED <<table, accountLock, aborts>>

\* Nothing affordable, or so little that the fee would eat it.
FillRejectBuy(p, o) ==
  /\ Claim(p, o) /\ open[o] # 0 /\ orders[o].side = "buy"
  /\ \A qty \in 1 .. orders[o].qty :
       Affordable(p, o, qty) => qty * open[o] < MinOrderValue
  /\ Write(p, o, Rejected(orders[o]))
  /\ Goto(p, Done(p, o))
  /\ UNCHANGED <<table, accountLock, aborts>>

FillSell(p, o) ==
  /\ Claim(p, o) /\ open[o] # 0 /\ orders[o].side = "sell"
  /\ LET qty == orders[o].qty
         s == orders[o].stock
     IN  /\ qty <= local[p].held[s]
         /\ Write(p, o, FilledAt(orders[o], qty, open[o]))
         /\ Goto(p, [Done(p, o) EXCEPT !.now = @ + qty * open[o] - Fee,
                                       !.held[s] = @ - qty])
  /\ UNCHANGED <<table, accountLock, aborts>>

FillRejectSell(p, o) ==
  /\ Claim(p, o) /\ open[o] # 0 /\ orders[o].side = "sell"
  /\ orders[o].qty > local[p].held[orders[o].stock]
  /\ Write(p, o, Rejected(orders[o]))
  /\ Goto(p, Done(p, o))
  /\ UNCHANGED <<table, accountLock, aborts>>

FillCommit(p) ==
  /\ local[p].pc = "fill" /\ local[p].queue = {}
  /\ Commit(p, orders)
  /\ Goto(p, Fresh)
  /\ UNCHANGED <<nextId, open, aborts>>

-----------------------------------------------------------------------------
(* run_exit_sentinel *)

\* The positions to watch; the await for their quotes comes next.
SentinelReplay(p) ==
  /\ local[p].pc = "look"
  /\ LET held == Positions(orders)
     IN  Goto(p, [local[p] EXCEPT !.pc = "watch", !.held = held,
                                  !.stocks = {s \in Stocks : held[s] > 0}])
  /\ UNCHANGED <<table, locks, aborts>>

\* No quote, no levels or no trigger for any stock that is left.
SentinelEnd(p) ==
  /\ local[p].pc = "watch"
  /\ Goto(p, Fresh)
  /\ UNCHANGED <<table, locks, aborts>>

\* _supersede_pending: rejects the stock's pending order; waits if it is locked.
Supersede(p, s) ==
  /\ \A o \in PendingOf(s) : Free(p, o)
  /\ tx' = [tx EXCEPT ![p] = [o \in Orders |-> IF o \in PendingOf(s)
                                              THEN Rejected(orders[o]) ELSE @[o]]]

Exiting == {"exit", "conflict", "exit again"}

\* Room for one more row beside those already promised (the bound MaxOrders).
Room ==
  nextId + MapThenSumSet(LAMBDA q : IF local[q].pc \in Exiting THEN 1
                                    ELSE Len(local[q].drafts), Procs) <= MaxOrders

SentinelTakeOver(p) ==
  /\ local[p].pc = "watch" /\ Room
  /\ \E s \in local[p].stocks :
       /\ Supersede(p, s)
       /\ Goto(p, [local[p] EXCEPT !.pc = "exit", !.selling = s,
                                   !.stocks = @ \ {s}])
  /\ UNCHANGED <<table, accountLock, aborts>>

\* Mutant: there is no unique index.
ConflictingNever(p, s) == {}

\* A pending order of the stock that p has not superseded: the INSERT would break
\* uq_sim_orders_pending_account_stock.
Conflicting(p, s) == {o \in PendingOf(s) : ~Wrote(p, o)}

Sold(p, price) ==
  [local[p] EXCEPT !.now = @ + local[p].held[local[p].selling] * price - Fee]

\* The INSERT of the exit, its fill at the quoted price and the COMMIT.
SentinelExit(p) ==
  /\ local[p].pc \in {"exit", "exit again"} /\ nextId \in Orders
  /\ Conflicting(p, local[p].selling) = {}
  /\ AccountFree(p)
  /\ \E price \in Prices :
       LET s == local[p].selling
           exit == Pending(s, "sell", local[p].held[s])
           sold == Sold(p, price)
       IN  /\ orders' = [Committed(orders, p) EXCEPT
                           ![nextId] = FilledAt(exit, exit.qty, price)]
           /\ cash' = IF sold.now # sold.loaded THEN sold.now ELSE cash
           /\ Goto(p, [sold EXCEPT !.pc = "watch", !.loaded = sold.now,
                                   !.selling = NoStock])
  /\ nextId' = nextId + 1
  /\ Rollback(p)
  /\ UNCHANGED <<open, aborts>>

\* The savepoint rolled the INSERT back; an order still locked makes it wait instead.
SentinelConflict(p) ==
  /\ local[p].pc = "exit"
  /\ Conflicting(p, local[p].selling) # {}
  /\ \A o \in Conflicting(p, local[p].selling) : Free(p, o)
  /\ Goto(p, [local[p] EXCEPT !.pc = "conflict"])
  /\ UNCHANGED <<table, locks, aborts>>

SentinelTakeOverAgain(p) ==
  /\ local[p].pc = "conflict"
  /\ Supersede(p, local[p].selling)
  /\ Goto(p, [local[p] EXCEPT !.pc = "exit again"])
  /\ UNCHANGED <<table, accountLock, aborts>>

\* Twice in a row: give this stock up, and nothing stays superseded.  The rollback
\* expires the account object, which the next access loads again.
SentinelBlocked(p) ==
  /\ local[p].pc = "exit again"
  /\ Conflicting(p, local[p].selling) # {}
  /\ \A o \in Conflicting(p, local[p].selling) : Free(p, o)
  /\ Rollback(p)
  /\ Goto(p, [local[p] EXCEPT !.pc = "watch", !.selling = NoStock,
                              !.loaded = cash, !.now = cash])
  /\ UNCHANGED <<table, aborts>>

-----------------------------------------------------------------------------
(* run_decisions *)

DecideReplay(p) ==
  /\ local[p].pc = "weigh"
  /\ Goto(p, [local[p] EXCEPT !.pc = "decide", !.held = Positions(orders),
                              !.stocks = Stocks])
  /\ UNCHANGED <<table, locks, aborts>>

Draft(s, side, qty) == [stock |-> s, side |-> side, qty |-> qty]

\* No signal, stale data or a pending order for every stock that is left.
DecideSkip(p) ==
  /\ local[p].pc = "decide" /\ local[p].stocks # {}
  /\ Goto(p, [local[p] EXCEPT !.stocks = {}])
  /\ UNCHANGED <<table, locks, aborts>>

\* Mutant: sells without looking at the position.
DecideSellUnheld(p) ==
  /\ local[p].pc = "decide" /\ Room
  /\ \E s \in local[p].stocks :
       /\ PendingOf(s) = {}
       /\ Goto(p, [local[p] EXCEPT !.stocks = @ \ {s},
                     !.drafts = Append(@, Draft(s, "sell", local[p].held[s]))])
  /\ UNCHANGED <<table, locks, aborts>>

\* Stop loss or a sell signal: the whole position.
DecideSell(p) ==
  /\ local[p].pc = "decide" /\ Room
  /\ \E s \in local[p].stocks :
       /\ PendingOf(s) = {} /\ local[p].held[s] > 0
       /\ Goto(p, [local[p] EXCEPT !.stocks = @ \ {s},
                     !.drafts = Append(@, Draft(s, "sell", local[p].held[s]))])
  /\ UNCHANGED <<table, locks, aborts>>

\* Mutant: buys more of what is held.
DecideWishHeld(p) ==
  /\ local[p].pc = "decide"
  /\ \E s \in local[p].stocks :
       /\ PendingOf(s) = {}
       /\ Goto(p, [local[p] EXCEPT !.stocks = @ \ {s}, !.wishes = @ \cup {s}])
  /\ UNCHANGED <<table, locks, aborts>>

\* A buy signal; a position that is held is not added to.
DecideWish(p) ==
  /\ local[p].pc = "decide"
  /\ \E s \in local[p].stocks :
       /\ PendingOf(s) = {} /\ local[p].held[s] = 0
       /\ Goto(p, [local[p] EXCEPT !.stocks = @ \ {s}, !.wishes = @ \cup {s}])
  /\ UNCHANGED <<table, locks, aborts>>

\* _size_buy, in order of confidence: some quantity, or none within the limits.
DecideSize(p) ==
  /\ local[p].pc = "decide" /\ local[p].stocks = {}
  /\ \E s \in local[p].wishes, qty \in 0 .. MaxQty :
       LET rest == [local[p] EXCEPT !.wishes = @ \ {s}]
       IN  \/ qty = 0 /\ Goto(p, rest)
           \/ /\ qty > 0 /\ Room
              /\ Goto(p, [rest EXCEPT !.drafts = Append(@, Draft(s, "buy", qty))])
  /\ UNCHANGED <<table, locks, aborts>>

DecideReady(p) ==
  local[p].pc = "decide" /\ local[p].stocks = {} /\ local[p].wishes = {}

\* Mutant: there is no unique index.
TakenByNobody(p) == {}

TakenByOthers(p) ==
  UNION {PendingOf(local[p].drafts[i].stock) : i \in 1 .. Len(local[p].drafts)}

DecideCommit(p) ==
  /\ DecideReady(p)
  /\ TakenByOthers(p) = {} /\ nextId + Len(local[p].drafts) - 1 <= MaxOrders
  /\ LET drafts == local[p].drafts
     IN  /\ orders' = [o \in Orders |->
                         IF o \in nextId .. nextId + Len(drafts) - 1
                         THEN LET new == drafts[o - nextId + 1]
                              IN  Pending(new.stock, new.side, new.qty)
                         ELSE orders[o]]
         /\ nextId' = nextId + Len(drafts)
  /\ Goto(p, Fresh)
  /\ UNCHANGED <<cash, open, locks, aborts>>

\* One taken stock fails the single COMMIT, and with it every order of the run.
DecideConflict(p) ==
  /\ DecideReady(p)
  /\ TakenByOthers(p) # {} /\ \A o \in TakenByOthers(p) : Free(p, o)
  /\ Goto(p, Fresh)
  /\ UNCHANGED <<table, locks, aborts>>

-----------------------------------------------------------------------------
(* The database, the market, crashes *)

\* The row or account that p waits for is locked by q.
WaitsFor(p, q) ==
  \/ /\ local[p].pc = "fill"
     /\ \E o \in Orders : Next1st(p, o) /\ Wrote(q, o)
  \/ /\ local[p].pc = "fill" /\ Dirty(p) /\ accountLock = q
     /\ local[p].queue = {} \/ \E o \in Orders : Next1st(p, o) /\ open[o] = 0
  \/ local[p].pc \in {"exit", "exit again"} /\ accountLock = q

\* PostgreSQL aborts one transaction of a cycle.
DeadlockVictim(p) ==
  /\ \E q \in Procs \ {p} : WaitsFor(p, q) /\ WaitsFor(q, p)
  /\ Rollback(p)
  /\ Goto(p, Fresh)
  /\ UNCHANGED <<table, aborts>>

\* The process dies, or a database error ends the flow.
Abort(p) ==
  /\ local[p].pc # "idle" /\ aborts < MaxAborts
  /\ aborts' = aborts + 1
  /\ Rollback(p)
  /\ Goto(p, Fresh)
  /\ UNCHANGED table

\* sync_prices stores the opening price the order waits for.
PriceArrives(o) ==
  /\ orders[o].status = "pending" /\ open[o] = 0
  /\ \E price \in Prices : open' = [open EXCEPT ![o] = price]
  /\ UNCHANGED <<orders, nextId, cash, local, locks, aborts>>

FillFlow(p) ==
  \/ FillRecover(p) \/ FillReplay(p) \/ FillList(p) \/ FillCommit(p)
  \/ \E o \in Orders : \/ FillMissed(p, o) \/ FillWait(p, o)
                       \/ FillBuy(p, o) \/ FillRejectBuy(p, o)
                       \/ FillSell(p, o) \/ FillRejectSell(p, o)

SentinelFlow(p) ==
  \/ SentinelReplay(p) \/ SentinelEnd(p)
  \/ SentinelTakeOver(p) \/ SentinelExit(p) \/ SentinelConflict(p)
  \/ SentinelTakeOverAgain(p) \/ SentinelBlocked(p)

DecideFlow(p) ==
  \/ DecideReplay(p) \/ DecideSkip(p) \/ DecideSell(p) \/ DecideWish(p)
  \/ DecideSize(p) \/ DecideCommit(p) \/ DecideConflict(p)

Begin(p) == BeginFill(p) \/ BeginSentinel(p) \/ BeginDecide(p)

Next ==
  \/ \E p \in Procs : \/ Begin(p) \/ FillFlow(p) \/ SentinelFlow(p)
                      \/ DecideFlow(p) \/ DeadlockVictim(p) \/ Abort(p)
  \/ \E o \in Orders : PriceArrives(o)

Spec == Init /\ [][Next]_vars

\* A flow goes on (PostgreSQL queues those who wait for a lock), a deadlock is detected.
FlowFairness ==
  /\ \A p \in Procs : SF_vars(FillFlow(p) \/ SentinelFlow(p) \/ DecideFlow(p))
  /\ WF_vars(\E p \in Procs : DeadlockVictim(p))

\* The worker comes back to the matching.
Fairness == FlowFairness /\ \A p \in Traders : SF_vars(BeginFill(p))

FairSpec == Spec /\ Fairness

-----------------------------------------------------------------------------
(* Properties *)

PcOK == {"idle", "recover", "replay", "list", "fill", "look", "watch", "exit",
         "conflict", "exit again", "weigh", "decide"}

Drafts == [stock : Stocks, side : {"buy", "sell"}, qty : Nat \ {0}]

Session ==
  [pc : PcOK, loaded : Int, now : Int, held : [Stocks -> Nat], queue : SUBSET Orders,
   stocks : SUBSET Stocks, selling : Stocks \cup {NoStock}, wishes : SUBSET Stocks,
   drafts : Seq(Drafts)]

\* Every variable keeps its type; a session holds whole shares and never drafts an empty
\* order.
TypeOK ==
  /\ orders \in [Orders -> Row]
  /\ nextId \in 1 .. MaxOrders + 1
  /\ cash \in Int
  /\ open \in [Orders -> Nat]
  /\ local \in [Procs -> Session]
  /\ tx \in [Procs -> [Orders -> Row]]
  /\ accountLock \in Procs \cup {Nobody}
  /\ aborts \in 0 .. MaxAborts

\* What a row pays into the account.
Payment(row) ==
  IF row.status # "filled" THEN 0
  ELSE (IF row.side = "buy" THEN -(row.qty * row.fill_price)
        ELSE row.qty * row.fill_price) - Fee

\* The cash the filled orders leave of the initial amount.
Ledger(ords) == InitialCash + SumFunction([o \in Orders |-> Payment(ords[o])])

\* The stored cash is what replaying the filled orders yields: account and event log
\* never part ("positions and equity are derived by replaying orders").
CashMatchesOrders == cash = Ledger(orders)

\* No stock is sold beyond what was bought, whoever sold it, on whatever stale reading.
NeverOversold == \A s \in Stocks : Position(orders, s) >= 0

\* The stored cash never goes below zero, whatever the interleaving: each value written
\* was computed from one that could pay for it.
CashNeverNegative == cash >= 0

\* A buy never fills on top of a position (the rule of run_decisions: what is held is not
\* added to).
NeverAddedTo ==
  [][\A o \in Orders :
       (orders[o].status # "filled" /\ orders'[o].status = "filled"
        /\ orders[o].side = "buy" /\ orders[o].status # "absent")
         => Position(orders, orders[o].stock) = 0]_vars

\* An order once filled or rejected is never changed (the event log is immutable), in
\* spite of claims, restores, take-overs and recoveries that race for its row.
SettledIsFinal ==
  [][\A o \in Orders : orders[o].status \in Settled => orders'[o] = orders[o]]_vars

\* A stock never has two pending orders, so a signal is not acted on twice.
OnePendingPerStock ==
  \A o, x \in Orders :
    (/\ o # x /\ orders[o].status = "pending" /\ orders[x].status = "pending")
      => orders[o].stock # orders[x].stock

\* A sentinel's exit (an order that is inserted and filled in one transaction) leaves no
\* pending order of the stock behind that would sell it again or buy it back.
ExitLeavesNothingPending ==
  [][\A o \in Orders :
       (orders[o].status = "absent" /\ orders'[o].status = "filled") =>
         \A x \in Orders : ~(/\ orders'[x].status = "pending"
                             /\ orders'[x].stock = orders'[o].stock)]_vars

\* Every order whose price has arrived, and every order stuck in 'filling', is settled.
OrdersSettle ==
  \A o \in Orders :
    (\/ orders[o].status = "filling"
     \/ orders[o].status = "pending" /\ open[o] # 0) ~> (orders[o].status \in Settled)

\* No flow waits for ever for what another holds: row locks and the account lock are taken
\* in different orders by the matching and by the sentinel, so cycles do occur.
FlowsEnd == \A p \in Procs : (local[p].pc # "idle") ~> (local[p].pc = "idle")

=============================================================================
