--------------------------- MODULE SimTradingProofs ---------------------------
(***************************************************************************)
(* Proofs about SimTrading, for any numbers of orders, stocks and flows    *)
(* and any prices.  What a flow has written and not committed is locked,   *)
(* and what is locked is still pending in the table: from that follows     *)
(* that settled orders stay as they are, however the flows overlap.        *)
(***************************************************************************)
EXTENDS SimTrading, FiniteSetTheorems, WellFoundedInduction, TLAPS

-----------------------------------------------------------------------------
(* The inductive invariant *)

UnbornIsAbsent == \A o \in Orders : o >= nextId => orders[o].status = "absent"

PendingIsWhole ==
  \A o \in Orders : orders[o].status = "pending" =>
    orders[o].qty > 0 /\ orders[o].stock \in Stocks

OpenIsAPrice == \A o \in Orders : open[o] # 0 => open[o] \in Prices

TableInv == UnbornIsAbsent /\ PendingIsWhole /\ OpenIsAPrice /\ OnePendingPerStock

\* What a transaction may write over a committed row.
MayWrite(row, written) ==
  /\ row.status = "pending"
  /\ written.stock = row.stock
  /\ written.status \in Settled \cup {"pending"}
  /\ written.status = "pending" => written = row

LockInv ==
  \A p \in Procs, o \in Orders : Wrote(p, o) =>
    /\ MayWrite(orders[o], tx[p][o])
    /\ Free(p, o)

DraftsOK(s) ==
  /\ s.stocks \cap s.wishes = {}
  /\ \A i \in 1 .. Len(s.drafts) : s.drafts[i].stock \notin s.stocks \cup s.wishes
  /\ \A i, j \in 1 .. Len(s.drafts) :
       i # j => s.drafts[i].stock # s.drafts[j].stock

\* What a session knows of the positions it will sell and of the rows it has written.
SessionOK(s, writes) ==
  /\ s.now >= 0
  /\ s.pc \notin {"fill"} \cup Exiting => \A o \in Orders : writes[o].status = "absent"
  /\ s.pc \in Exiting =>
       /\ s.selling \in Stocks /\ s.held[s.selling] > 0
       /\ \A o \in Orders : writes[o].status \in {"absent", "rejected"}
  /\ s.pc \in {"watch"} \cup Exiting => \A x \in s.stocks : s.held[x] > 0
  /\ s.pc # "decide" => s.drafts = <<>> /\ s.wishes = {}
  /\ s.pc = "decide" => DraftsOK(s)

SessionsOK == \A p \in Procs : SessionOK(local[p], tx[p])

TradingInv == TypeOK /\ TableInv /\ LockInv /\ CashNeverNegative /\ SessionsOK

-----------------------------------------------------------------------------
(* Sessions and transactions *)

\* A session that has not begun is one the invariant allows.
LEMMA FreshSession ==
  /\ Fresh \in Session
  /\ NoWrites \in [Orders -> Row]
  /\ SessionOK(Fresh, NoWrites)
  BY DEF Fresh, Session, PcOK, NoWrites, Absent, Row, SessionOK, Exiting, Settled

\* The account starts in the invariant, orders stuck in 'filling' included.
THEOREM Initially == Init => TradingInv
  <1> SUFFICES ASSUME Init PROVE TradingInv
    OBVIOUS
  <1> USE TradingAssumption
  <1>1. Absent \in Row
    BY DEF Absent, Row
  <1>2. PICK stuck \in [1 .. Legacy -> Stocks] :
          orders = [o \in Orders |->
                      IF o > Legacy THEN Absent
                      ELSE [Pending(stuck[o], "buy", 1) EXCEPT !.status = "filling"]]
    BY DEF Init
  <1>3. ASSUME NEW o \in Orders, o <= Legacy
        PROVE  /\ orders[o] \in Row
               /\ orders[o].status = "filling"
    BY <1>2, <1>3 DEF Orders, Pending, Row
  <1>4. ASSUME NEW o \in Orders, ~(o <= Legacy)
        PROVE  orders[o] = Absent
    BY <1>2, <1>4 DEF Orders
  <1>5. /\ orders \in [Orders -> Row]
        /\ \A o \in Orders : orders[o].status \in {"absent", "filling"}
        /\ \A o \in Orders : o > Legacy => orders[o].status = "absent"
    BY <1>1, <1>2, <1>3, <1>4 DEF Orders, Absent
  <1>6. TypeOK
    BY <1>5, FreshSession DEF Init, TypeOK, Orders
  <1>7. TableInv
    BY <1>5 DEF Init, TableInv, UnbornIsAbsent, PendingIsWhole, OpenIsAPrice,
      OnePendingPerStock, Orders
  <1>8. LockInv
    BY DEF Init, LockInv, Wrote, NoWrites, Absent
  <1>9. CashNeverNegative
    BY DEF Init, CashNeverNegative
  <1>10. SessionsOK
    BY FreshSession DEF Init, SessionsOK
  <1>11. QED
    BY <1>6, <1>7, <1>8, <1>9, <1>10 DEF TradingInv

\* A step of p that changes its session and what it has written, and nothing that is
\* committed.
LEMMA SessionStep ==
  ASSUME TradingInv, NEW p \in Procs, NEW s \in Session, NEW w \in [Orders -> Row],
         local' = [local EXCEPT ![p] = s], tx' = [tx EXCEPT ![p] = w],
         SessionOK(s, w),
         \A o \in Orders : w[o].status # "absent" =>
           MayWrite(orders[o], w[o]) /\ Free(p, o),
         UNCHANGED table,
         accountLock' \in Procs \cup {Nobody}, aborts' \in 0 .. MaxAborts
  PROVE  TradingInv'
  <1>1. TypeOK'
    BY DEF TradingInv, TypeOK, table
  <1>2. TableInv'
    BY DEF TradingInv, TableInv, UnbornIsAbsent, PendingIsWhole, OpenIsAPrice,
      OnePendingPerStock, table
  <1>3. LockInv'
    <2> SUFFICES ASSUME NEW q \in Procs, NEW o \in Orders, tx'[q][o].status # "absent"
                 PROVE  /\ MayWrite(orders[o], tx'[q][o])
                        /\ \A x \in Procs \ {q} : tx'[x][o].status = "absent"
      BY DEF LockInv, Wrote, Free, table
    <2>1. tx' = [x \in Procs |-> IF x = p THEN w ELSE tx[x]]
      BY DEF TradingInv, TypeOK
    <2>2. CASE q = p
      BY <2>1, <2>2 DEF Free, Wrote
    <2>3. CASE q # p
      BY <2>1, <2>3 DEF TradingInv, LockInv, Free, Wrote
    <2>4. QED
      BY <2>2, <2>3
  <1>4. CashNeverNegative'
    BY DEF TradingInv, CashNeverNegative, table
  <1>5. SessionsOK'
    BY DEF TradingInv, TypeOK, SessionsOK
  <1>6. QED
    BY <1>1, <1>2, <1>3, <1>4, <1>5 DEF TradingInv

\* What the invariant says of one process.
LEMMA OfProcess ==
  ASSUME TradingInv, NEW p \in Procs
  PROVE  /\ local[p] \in Session
         /\ tx[p] \in [Orders -> Row]
         /\ SessionOK(local[p], tx[p])
         /\ \A o \in Orders : tx[p][o].status # "absent" =>
              MayWrite(orders[o], tx[p][o]) /\ Free(p, o)
  BY DEF TradingInv, TypeOK, SessionsOK, LockInv, Wrote

\* A step that only moves the session.
LEMMA QuietStep ==
  ASSUME TradingInv, NEW p \in Procs, NEW s \in Session, Goto(p, s),
         SessionOK(s, tx[p]), UNCHANGED <<table, tx>>,
         accountLock' \in Procs \cup {Nobody}, UNCHANGED aborts
  PROVE  TradingInv'
  <1>1. tx' = [tx EXCEPT ![p] = tx[p]]
    BY DEF TradingInv, TypeOK
  <1>2. QED
    BY <1>1, OfProcess, SessionStep DEF Goto, TradingInv, TypeOK

\* The transaction is gone, and with it everything the session knew.
LEMMA ResetStep ==
  ASSUME TradingInv, NEW p \in Procs, Rollback(p), Goto(p, Fresh),
         UNCHANGED table, aborts' \in 0 .. MaxAborts
  PROVE  TradingInv'
  <1>1. accountLock' \in Procs \cup {Nobody}
    BY DEF Rollback, TradingInv, TypeOK
  <1>2. \A o \in Orders : NoWrites[o].status = "absent"
    BY DEF NoWrites, Absent
  <1>3. QED
    BY <1>1, <1>2, FreshSession, SessionStep DEF Rollback, Goto

\* current_positions never counts a short position.
LEMMA PositionsType ==
  ASSUME NEW ords
  PROVE  Positions(ords) \in [Stocks -> Nat]
  BY DEF Positions

-----------------------------------------------------------------------------
(* The beginning of a flow, and steps that only read *)

\* get_or_create_account loads a cash that is not negative.
LEMMA BeginStep ==
  ASSUME TradingInv, NEW p \in Procs, Begin(p)
  PROVE  TradingInv'
  <1>1. PICK pc \in {"recover", "look", "weigh"} : LoadAccount(p, pc)
    BY DEF Begin, BeginFill, BeginSentinel, BeginDecide
  <1> DEFINE s == [Fresh EXCEPT !.pc = pc, !.loaded = cash, !.now = cash]
  <1>2. s \in Session
    BY FreshSession DEF Session, PcOK, TradingInv, TypeOK
  <1>3. SessionOK(s, tx[p])
    BY <1>1, OfProcess DEF SessionOK, Exiting, LoadAccount, Fresh, TradingInv,
      CashNeverNegative
  <1>4. QED
    BY <1>1, <1>2, <1>3, QuietStep DEF LoadAccount, locks, TradingInv, TypeOK

\* A replay of the positions or a list of the orders changes the session only.
LEMMA ReadStep ==
  ASSUME TradingInv, NEW p \in Procs,
         \/ FillReplay(p) \/ FillList(p) \/ SentinelReplay(p)
         \/ DecideReplay(p) \/ DecideSkip(p)
         \/ \E o \in Orders : FillMissed(p, o)
  PROVE  TradingInv'
  <1>0. /\ local[p] \in Session
        /\ SessionOK(local[p], tx[p])
        /\ Positions(orders) \in [Stocks -> Nat]
    BY OfProcess, PositionsType
  <1>1. UNCHANGED <<table, tx, accountLock, aborts>>
    BY DEF FillReplay, FillList, SentinelReplay, DecideReplay, DecideSkip, FillMissed,
      locks
  <1>2. CASE FillReplay(p)
    <2> DEFINE s == [local[p] EXCEPT !.pc = "list", !.held = Positions(orders)]
    <2>1. s \in Session
      BY <1>0 DEF Session, PcOK
    <2>2. SessionOK(s, tx[p])
      BY <1>0, <1>2 DEF FillReplay, Session, SessionOK, Exiting
    <2>3. QED
      BY <1>1, <1>2, <2>1, <2>2, QuietStep DEF FillReplay, TradingInv, TypeOK
  <1>3. CASE FillList(p)
    <2> DEFINE s == [local[p] EXCEPT !.pc = "fill",
                       !.queue = {o \in Orders : orders[o].status = "pending"}]
    <2>1. s \in Session
      BY <1>0 DEF Session, PcOK
    <2>2. SessionOK(s, tx[p])
      BY <1>0, <1>3 DEF FillList, Session, SessionOK, Exiting
    <2>3. QED
      BY <1>1, <1>3, <2>1, <2>2, QuietStep DEF FillList, TradingInv, TypeOK
  <1>4. CASE SentinelReplay(p)
    <2> DEFINE held == Positions(orders)
               s == [local[p] EXCEPT !.pc = "watch", !.held = held,
                                     !.stocks = {x \in Stocks : held[x] > 0}]
    <2>1. s \in Session
      BY <1>0 DEF Session, PcOK
    <2>2. SessionOK(s, tx[p])
      BY <1>0, <1>4 DEF SentinelReplay, Session, SessionOK, Exiting
    <2>3. QED
      BY <1>1, <1>4, <2>1, <2>2, QuietStep DEF SentinelReplay, TradingInv, TypeOK
  <1>5. CASE DecideReplay(p)
    <2> DEFINE s == [local[p] EXCEPT !.pc = "decide", !.held = Positions(orders),
                                     !.stocks = Stocks]
    <2>1. s \in Session
      BY <1>0 DEF Session, PcOK
    <2>2. /\ local[p].pc = "weigh"
          /\ s.drafts = <<>> /\ s.wishes = {}
      BY <1>0, <1>5 DEF DecideReplay, SessionOK, Session
    <2>3. DraftsOK(s)
      BY <2>2 DEF DraftsOK
    <2>4. SessionOK(s, tx[p])
      BY <1>0, <2>2, <2>3 DEF Session, SessionOK, Exiting
    <2>5. QED
      BY <1>1, <1>5, <2>1, <2>4, QuietStep DEF DecideReplay, TradingInv, TypeOK
  <1>6. CASE DecideSkip(p)
    <2> DEFINE s == [local[p] EXCEPT !.stocks = {}]
    <2>1. s \in Session
      BY <1>0 DEF Session
    <2>2. /\ local[p].pc = "decide" /\ DraftsOK(local[p])
          /\ s.pc = "decide" /\ s.now = local[p].now
          /\ s.drafts = local[p].drafts /\ s.wishes = local[p].wishes
          /\ s.stocks = {}
      BY <1>0, <1>6 DEF DecideSkip, Session, SessionOK
    <2>3. DraftsOK(s)
      BY <2>2 DEF DraftsOK
    <2>4. SessionOK(s, tx[p])
      BY <1>0, <2>2, <2>3 DEF SessionOK, Exiting
    <2>5. QED
      BY <1>1, <1>6, <2>1, <2>4, QuietStep DEF DecideSkip, TradingInv, TypeOK
  <1>7. ASSUME NEW o \in Orders, FillMissed(p, o) PROVE TradingInv'
    <2>1. Done(p, o) \in Session
      BY <1>0 DEF Done, Session
    <2>2. SessionOK(Done(p, o), tx[p])
      BY <1>0, <1>7 DEF FillMissed, Done, Session, SessionOK, Exiting
    <2>3. QED
      BY <1>1, <1>7, <2>1, <2>2, QuietStep DEF FillMissed, TradingInv, TypeOK
  <1>8. QED
    BY <1>2, <1>3, <1>4, <1>5, <1>6, <1>7

-----------------------------------------------------------------------------
(* Drafting orders *)

\* A draft for a stock that was still to be weighed keeps the drafts distinct.
LEMMA OneMoreDraft ==
  ASSUME NEW s \in Session, NEW t \in Session, NEW d \in Drafts,
         DraftsOK(s), t.drafts = Append(s.drafts, d),
         d.stock \in s.stocks \cup s.wishes,
         t.stocks \subseteq s.stocks \ {d.stock},
         t.wishes \subseteq s.wishes \ {d.stock}
  PROVE  DraftsOK(t)
  <1>1. /\ s.drafts \in Seq(Drafts)
        /\ Len(s.drafts) \in Nat
    BY DEF Session
  <1>2. /\ Len(t.drafts) = Len(s.drafts) + 1
        /\ t.drafts[Len(s.drafts) + 1] = d
        /\ \A i \in 1 .. Len(s.drafts) : t.drafts[i] = s.drafts[i]
    BY <1>1
  <1>3. \A i \in 1 .. Len(s.drafts) : s.drafts[i].stock # d.stock
    BY DEF DraftsOK
  <1>4. t.stocks \cap t.wishes = {}
    BY DEF DraftsOK
  <1>5. \A i \in 1 .. Len(t.drafts) : t.drafts[i].stock \notin t.stocks \cup t.wishes
    <2> SUFFICES ASSUME NEW i \in 1 .. Len(t.drafts)
                 PROVE  t.drafts[i].stock \notin t.stocks \cup t.wishes
      OBVIOUS
    <2>1. CASE i = Len(s.drafts) + 1
      BY <1>2, <2>1
    <2>2. CASE i # Len(s.drafts) + 1
      <3>1. i \in 1 .. Len(s.drafts)
        BY <1>1, <1>2, <2>2
      <3>2. QED
        BY <1>2, <3>1 DEF DraftsOK
    <2>3. QED
      BY <2>1, <2>2
  <1>6. \A i, j \in 1 .. Len(t.drafts) :
          i # j => t.drafts[i].stock # t.drafts[j].stock
    <2> SUFFICES ASSUME NEW i \in 1 .. Len(t.drafts), NEW j \in 1 .. Len(t.drafts),
                        i # j
                 PROVE  t.drafts[i].stock # t.drafts[j].stock
      OBVIOUS
    <2>1. /\ i \in 1 .. Len(s.drafts) \/ i = Len(s.drafts) + 1
          /\ j \in 1 .. Len(s.drafts) \/ j = Len(s.drafts) + 1
      BY <1>1, <1>2
    <2>2. QED
      BY <1>2, <1>3, <2>1 DEF DraftsOK
  <1>7. QED
    BY <1>4, <1>5, <1>6 DEF DraftsOK

\* The decision run drafts at most one order per stock.
LEMMA DraftStep ==
  ASSUME TradingInv, NEW p \in Procs, DecideSell(p) \/ DecideWish(p) \/ DecideSize(p)
  PROVE  TradingInv'
  <1>0. /\ local[p] \in Session
        /\ SessionOK(local[p], tx[p])
        /\ local[p].pc = "decide"
        /\ DraftsOK(local[p])
        /\ local[p].now >= 0
        /\ \A o \in Orders : tx[p][o].status = "absent"
    BY OfProcess DEF DecideSell, DecideWish, DecideSize, SessionOK, Exiting
  <1>1. /\ UNCHANGED <<table, tx, accountLock, aborts>>
        /\ accountLock' \in Procs \cup {Nobody}
    BY DEF DecideSell, DecideWish, DecideSize, locks, TradingInv, TypeOK
  <1>2. ASSUME NEW t \in Session, t.pc = "decide", t.now >= 0, DraftsOK(t)
        PROVE  SessionOK(t, tx[p])
    BY <1>0, <1>2 DEF SessionOK, Exiting
  <1>3. CASE DecideSell(p)
    <2>1. PICK x \in local[p].stocks :
            /\ local[p].held[x] > 0
            /\ Goto(p, [local[p] EXCEPT !.stocks = @ \ {x},
                          !.drafts = Append(@, Draft(x, "sell", local[p].held[x]))])
      BY <1>3 DEF DecideSell
    <2> DEFINE d == Draft(x, "sell", local[p].held[x])
               t == [local[p] EXCEPT !.stocks = @ \ {x}, !.drafts = Append(@, d)]
    <2>2. /\ x \in Stocks
          /\ local[p].held[x] \in Nat \ {0}
          /\ local[p].drafts \in Seq(Drafts)
      BY <1>0, <2>1 DEF Session
    <2>3. d \in Drafts /\ d.stock = x
      BY <2>2 DEF Draft, Drafts
    <2>4. Append(local[p].drafts, d) \in Seq(Drafts)
      BY <2>2, <2>3
    <2> HIDE DEF d
    <2>5. /\ t \in Session
          /\ t.pc = "decide" /\ t.now = local[p].now
          /\ t.drafts = Append(local[p].drafts, d)
          /\ t.stocks = local[p].stocks \ {x}
          /\ t.wishes = local[p].wishes
      BY <1>0, <2>4 DEF Session
    <2>6. x \notin local[p].wishes
      BY <1>0, <2>1 DEF DraftsOK
    <2>7. /\ d.stock \in local[p].stocks \cup local[p].wishes
          /\ t.stocks \subseteq local[p].stocks \ {d.stock}
          /\ t.wishes \subseteq local[p].wishes \ {d.stock}
      BY <2>1, <2>3, <2>5, <2>6
    <2> HIDE DEF t
    <2>8. DraftsOK(t)
      BY <1>0, <2>3, <2>5, <2>7, OneMoreDraft
    <2>9. SessionOK(t, tx[p])
      BY <1>0, <1>2, <2>5, <2>8
    <2>10. QED
      BY <1>1, <2>1, <2>5, <2>9, QuietStep DEF d, t
  <1>4. CASE DecideWish(p)
    <2>1. PICK x \in local[p].stocks :
            Goto(p, [local[p] EXCEPT !.stocks = @ \ {x}, !.wishes = @ \cup {x}])
      BY <1>4 DEF DecideWish
    <2> DEFINE t == [local[p] EXCEPT !.stocks = @ \ {x}, !.wishes = @ \cup {x}]
    <2>2. /\ t \in Session
          /\ t.pc = "decide" /\ t.now = local[p].now
          /\ t.drafts = local[p].drafts
          /\ t.stocks = local[p].stocks \ {x}
          /\ t.wishes = local[p].wishes \cup {x}
      BY <1>0, <2>1 DEF Session
    <2>3. DraftsOK(t)
      BY <1>0, <2>1, <2>2 DEF DraftsOK
    <2>4. SessionOK(t, tx[p])
      BY <1>0, <1>2, <2>2, <2>3
    <2>5. QED
      BY <1>1, <2>1, <2>2, <2>4, QuietStep
  <1>5. CASE DecideSize(p)
    <2>1. PICK x \in local[p].wishes, qty \in 0 .. MaxQty :
            LET rest == [local[p] EXCEPT !.wishes = @ \ {x}]
            IN  \/ qty = 0 /\ Goto(p, rest)
                \/ /\ qty > 0
                   /\ Goto(p, [rest EXCEPT !.drafts = Append(@, Draft(x, "buy", qty))])
      BY <1>5 DEF DecideSize
    <2> DEFINE rest == [local[p] EXCEPT !.wishes = @ \ {x}]
               d == Draft(x, "buy", qty)
               t == [rest EXCEPT !.drafts = Append(@, d)]
    <2>2. /\ rest \in Session
          /\ rest.pc = "decide" /\ rest.now = local[p].now
          /\ rest.drafts = local[p].drafts
          /\ rest.stocks = local[p].stocks
          /\ rest.wishes = local[p].wishes \ {x}
      BY <1>0 DEF Session
    <2>3. x \in Stocks /\ local[p].drafts \in Seq(Drafts)
      BY <1>0, <2>1 DEF Session
    <2>4. CASE qty = 0 /\ Goto(p, rest)
      <3>1. DraftsOK(rest)
        BY <1>0, <2>2 DEF DraftsOK
      <3>2. SessionOK(rest, tx[p])
        BY <1>0, <1>2, <2>2, <3>1
      <3>3. QED
        BY <1>1, <2>2, <2>4, <3>2, QuietStep
    <2>5. CASE qty > 0 /\ Goto(p, t)
      <3>1. d \in Drafts /\ d.stock = x
        BY <2>3, <2>5, TradingAssumption DEF Draft, Drafts
      <3>2. Append(local[p].drafts, d) \in Seq(Drafts)
        BY <2>3, <3>1
      <3> HIDE DEF d
      <3>3. t = [local[p] EXCEPT !.wishes = @ \ {x}, !.drafts = Append(@, d)]
        BY <1>0 DEF Session
      <3>4. /\ t \in Session
            /\ t.pc = "decide" /\ t.now = local[p].now
            /\ t.drafts = Append(local[p].drafts, d)
            /\ t.stocks = local[p].stocks
            /\ t.wishes = local[p].wishes \ {x}
        BY <1>0, <3>2, <3>3 DEF Session
      <3>5. x \notin local[p].stocks
        BY <1>0, <2>1 DEF DraftsOK
      <3>6. /\ d.stock \in local[p].stocks \cup local[p].wishes
            /\ t.stocks \subseteq local[p].stocks \ {d.stock}
            /\ t.wishes \subseteq local[p].wishes \ {d.stock}
        BY <2>1, <3>1, <3>4, <3>5
      <3> HIDE DEF t
      <3>7. DraftsOK(t)
        BY <1>0, <3>1, <3>4, <3>6, OneMoreDraft
      <3>8. SessionOK(t, tx[p])
        BY <1>0, <1>2, <3>4, <3>7
      <3>9. QED
        BY <1>1, <2>5, <3>4, <3>8, QuietStep DEF d, t
    <2>6. QED
      BY <2>1, <2>4, <2>5
  <1>6. QED
    BY <1>3, <1>4, <1>5

-----------------------------------------------------------------------------
(* Writes that are not yet committed *)

\* A sale of at least one share never costs more than it brings.
LEMMA Proceeds ==
  ASSUME NEW qty \in Nat, qty > 0, NEW price \in Prices
  PROVE  /\ qty * price \in Nat
         /\ qty * price - Fee >= 0
         /\ Fee \in Nat
  <1>1. price \in Nat /\ Fee \in Nat /\ Fee <= price
    BY TradingAssumption
  <1>2. qty * price >= price
    BY <1>1
  <1>3. qty * price \in Nat
    BY <1>1
  <1>4. QED
    BY <1>1, <1>2, <1>3

\* The matching settles the order it has claimed, or puts it back.
LEMMA WriteStep ==
  ASSUME TradingInv, NEW p \in Procs, NEW o \in Orders, Claim(p, o),
         NEW row \in Row, MayWrite(orders[o], row), Write(p, o, row),
         NEW s \in Session, Goto(p, s),
         s.pc = "fill", s.now >= 0, s.drafts = local[p].drafts, s.wishes = local[p].wishes,
         UNCHANGED table, accountLock' \in Procs \cup {Nobody}, UNCHANGED aborts
  PROVE  TradingInv'
  <1> DEFINE w == [tx[p] EXCEPT ![o] = row]
  <1>1. /\ tx[p] \in [Orders -> Row]
        /\ SessionOK(local[p], tx[p])
        /\ \A x \in Orders : tx[p][x].status # "absent" =>
             MayWrite(orders[x], tx[p][x]) /\ Free(p, x)
    BY OfProcess
  <1>2. w \in [Orders -> Row]
    BY <1>1
  <1>3. tx' = [tx EXCEPT ![p] = w]
    BY DEF Write
  <1>4. ASSUME NEW x \in Orders, w[x].status # "absent"
        PROVE  MayWrite(orders[x], w[x]) /\ Free(p, x)
    <2>1. CASE x = o
      BY <1>1, <2>1 DEF Claim
    <2>2. CASE x # o
      BY <1>1, <1>4, <2>2
    <2>3. QED
      BY <2>1, <2>2
  <1>5. SessionOK(s, w)
    BY <1>1 DEF Claim, SessionOK, Exiting
  <1> HIDE DEF w
  <1>6. aborts' \in 0 .. MaxAborts
    BY DEF TradingInv, TypeOK
  <1>7. QED
    BY <1>2, <1>3, <1>4, <1>5, <1>6, SessionStep DEF Goto

\* What a claimed order is.
LEMMA Claimed ==
  ASSUME TradingInv, NEW p \in Procs, NEW o \in Orders, Claim(p, o)
  PROVE  /\ orders[o] \in Row
         /\ orders[o].status = "pending"
         /\ orders[o].qty \in Nat /\ orders[o].qty > 0
         /\ orders[o].stock \in Stocks
         /\ open[o] \in Nat
         /\ open[o] # 0 => open[o] \in Prices
         /\ local[p] \in Session
         /\ local[p].pc = "fill"
         /\ local[p].now >= 0
         /\ MayWrite(orders[o], Rejected(orders[o]))
         /\ Rejected(orders[o]) \in Row
         /\ Done(p, o) \in Session
  <1>1. orders[o] \in Row /\ open[o] \in Nat
    BY DEF TradingInv, TypeOK
  <1>2. local[p] \in Session /\ SessionOK(local[p], tx[p])
    BY OfProcess
  <1>3. /\ Rejected(orders[o]) \in Row
        /\ MayWrite(orders[o], Rejected(orders[o]))
    BY <1>1 DEF Claim, Rejected, Row, MayWrite, Settled
  <1>4. Done(p, o) \in Session
    BY <1>2 DEF Done, Session
  <1>5. orders[o].qty \in Nat
    BY <1>1 DEF Row
  <1>6. QED
    BY <1>1, <1>2, <1>3, <1>4, <1>5
    DEF Claim, TradingInv, TableInv, PendingIsWhole, OpenIsAPrice, SessionOK

\* Each outcome of a claimed order is a legal write that leaves cash to spare.
LEMMA FillStep ==
  ASSUME TradingInv, NEW p \in Procs, NEW o \in Orders,
         \/ FillWait(p, o) \/ FillBuy(p, o) \/ FillRejectBuy(p, o)
         \/ FillSell(p, o) \/ FillRejectSell(p, o)
  PROVE  TradingInv'
  <1>1. Claim(p, o)
    BY DEF FillWait, FillBuy, FillRejectBuy, FillSell, FillRejectSell
  <1>2. /\ orders[o] \in Row
        /\ orders[o].status = "pending"
        /\ orders[o].qty \in Nat /\ orders[o].qty > 0
        /\ orders[o].stock \in Stocks
        /\ open[o] \in Nat
        /\ open[o] # 0 => open[o] \in Prices
        /\ local[p] \in Session
        /\ local[p].pc = "fill"
        /\ local[p].now >= 0
        /\ MayWrite(orders[o], Rejected(orders[o]))
        /\ Rejected(orders[o]) \in Row
        /\ Done(p, o) \in Session
    BY <1>1, Claimed
  <1>3. /\ UNCHANGED <<table, aborts>>
        /\ accountLock' \in Procs \cup {Nobody}
    BY DEF FillWait, FillBuy, FillRejectBuy, FillSell, FillRejectSell, LockAfterFlush,
      TradingInv, TypeOK
  <1>4. /\ Done(p, o).pc = "fill"
        /\ Done(p, o).now = local[p].now
        /\ Done(p, o).drafts = local[p].drafts
        /\ Done(p, o).wishes = local[p].wishes
    BY <1>2 DEF Done, Session
  <1>5. ASSUME NEW qty \in Nat, NEW price \in Nat
        PROVE  /\ FilledAt(orders[o], qty, price) \in Row
               /\ MayWrite(orders[o], FilledAt(orders[o], qty, price))
    BY <1>2 DEF FilledAt, Row, MayWrite, Settled
  <1>6. CASE FillWait(p, o)
    <2> DEFINE s == [Done(p, o) EXCEPT !.loaded = local[p].now]
    <2>1. /\ s \in Session
          /\ s.pc = "fill" /\ s.now = local[p].now
          /\ s.drafts = local[p].drafts /\ s.wishes = local[p].wishes
      BY <1>2, <1>4 DEF Session
    <2>2. Restored(p, o) \in Row /\ MayWrite(orders[o], Restored(p, o))
      BY <1>2 DEF Restored, MayWrite
    <2>3. Goto(p, s) /\ Write(p, o, Restored(p, o))
      BY <1>6 DEF FillWait
    <2> HIDE DEF s
    <2>4. QED
      BY <1>1, <1>2, <1>3, <2>1, <2>2, <2>3, WriteStep
  <1>7. CASE FillBuy(p, o)
    <2>1. PICK qty \in 1 .. orders[o].qty :
            /\ Affordable(p, o, qty)
            /\ Write(p, o, FilledAt(orders[o], qty, open[o]))
            /\ Goto(p, [Done(p, o) EXCEPT !.now = @ - Cost(qty, open[o]),
                                          !.held[orders[o].stock] = @ + qty])
      BY <1>7 DEF FillBuy
    <2> DEFINE s == [Done(p, o) EXCEPT !.now = @ - Cost(qty, open[o]),
                                       !.held[orders[o].stock] = @ + qty]
    <2>2. /\ qty \in Nat
          /\ Cost(qty, open[o]) <= local[p].now
      BY <1>2, <2>1 DEF Affordable
    <2>3. /\ Cost(qty, open[o]) \in Int
          /\ local[p].now \in Int
          /\ local[p].now - Cost(qty, open[o]) >= 0
          /\ local[p].now - Cost(qty, open[o]) \in Int
      <3>1. Fee \in Nat
        BY TradingAssumption
      <3>2. local[p].now \in Int
        BY <1>2 DEF Session
      <3>3. Cost(qty, open[o]) \in Int
        BY <1>2, <2>2, <3>1 DEF Cost
      <3> HIDE DEF Cost
      <3>4. QED
        BY <2>2, <3>2, <3>3
    <2> DEFINE cost == Cost(qty, open[o])
               x == orders[o].stock
               held == [local[p].held EXCEPT ![x] = @ + qty]
               t == [Done(p, o) EXCEPT !.now = local[p].now - cost, !.held = held]
    <2>4. /\ local[p].held \in [Stocks -> Nat]
          /\ Done(p, o).held = local[p].held
      BY <1>2 DEF Session, Done
    <2>5. held \in [Stocks -> Nat]
      BY <1>2, <2>2, <2>4
    <2>6. s = t
      BY <1>2, <1>4, <2>4 DEF Session
    <2> HIDE DEF cost, held
    <2>7. /\ t \in Session
          /\ t.pc = "fill" /\ t.now = local[p].now - cost
          /\ t.drafts = local[p].drafts /\ t.wishes = local[p].wishes
      BY <1>2, <1>4, <2>3, <2>5 DEF Session, cost
    <2>8. FilledAt(orders[o], qty, open[o]) \in Row
          /\ MayWrite(orders[o], FilledAt(orders[o], qty, open[o]))
      BY <1>2, <1>5, <2>2
    <2>9. Goto(p, t) /\ t.now >= 0
      BY <2>1, <2>3, <2>6, <2>7 DEF cost
    <2> HIDE DEF t
    <2>10. QED
      BY <1>1, <1>2, <1>3, <2>1, <2>7, <2>8, <2>9, WriteStep
  <1>8. CASE FillRejectBuy(p, o) \/ FillRejectSell(p, o)
    <2>1. Goto(p, Done(p, o)) /\ Write(p, o, Rejected(orders[o]))
      BY <1>8 DEF FillRejectBuy, FillRejectSell
    <2>2. QED
      BY <1>1, <1>2, <1>3, <1>4, <2>1, WriteStep
  <1>9. CASE FillSell(p, o)
    <2> DEFINE qty == orders[o].qty
               x == orders[o].stock
               gross == qty * open[o]
               s == [Done(p, o) EXCEPT !.now = @ + gross - Fee,
                                       !.held[x] = @ - qty]
    <2>1. /\ qty <= local[p].held[x]
          /\ Write(p, o, FilledAt(orders[o], qty, open[o]))
          /\ Goto(p, s)
      BY <1>9 DEF FillSell
    <2>2. /\ gross \in Nat /\ gross - Fee >= 0 /\ Fee \in Nat
      BY <1>2, <1>9, Proceeds DEF FillSell
    <2> HIDE DEF gross
    <2>3. /\ local[p].now \in Int
          /\ local[p].held[x] \in Nat
          /\ Done(p, o).held = local[p].held
      BY <1>2 DEF Session, Done
    <2>4. /\ local[p].now + gross - Fee \in Int
          /\ local[p].now + gross - Fee >= 0
          /\ local[p].held[x] - qty \in Nat
      BY <1>2, <2>1, <2>2, <2>3
    <2> DEFINE now == local[p].now + gross - Fee
               held == [local[p].held EXCEPT ![x] = @ - qty]
               t == [Done(p, o) EXCEPT !.now = now, !.held = held]
    <2>5. held \in [Stocks -> Nat]
      <3>1. local[p].held \in [Stocks -> Nat]
        BY <1>2 DEF Session
      <3>2. QED
        BY <1>2, <2>4, <3>1
    <2>6. s = t
      BY <1>2, <1>4, <2>3 DEF Session
    <2> HIDE DEF now, held
    <2>7. /\ t \in Session
          /\ t.pc = "fill" /\ t.now = now
          /\ t.drafts = local[p].drafts /\ t.wishes = local[p].wishes
      BY <1>2, <1>4, <2>4, <2>5 DEF Session, now
    <2>8. FilledAt(orders[o], qty, open[o]) \in Row
          /\ MayWrite(orders[o], FilledAt(orders[o], qty, open[o]))
      BY <1>2, <1>5
    <2>9. Goto(p, t) /\ t.now >= 0
      BY <2>1, <2>4, <2>6, <2>7 DEF now
    <2> HIDE DEF t
    <2>10. QED
      BY <1>1, <1>2, <1>3, <2>1, <2>7, <2>8, <2>9, WriteStep
  <1>10. QED
    BY <1>6, <1>7, <1>8, <1>9

\* The sentinel rejects the stock's pending order, and will sell the position.
LEMMA SupersedeStep ==
  ASSUME TradingInv, NEW p \in Procs, NEW x \in Stocks, Supersede(p, x),
         NEW s \in Session, Goto(p, s), SessionOK(s, tx[p]), s.pc \in Exiting,
         UNCHANGED <<table, accountLock, aborts>>
  PROVE  TradingInv'
  <1> DEFINE w == [o \in Orders |-> IF o \in PendingOf(x) THEN Rejected(orders[o])
                                    ELSE tx[p][o]]
  <1>1. /\ tx[p] \in [Orders -> Row]
        /\ orders \in [Orders -> Row]
        /\ \A o \in Orders : tx[p][o].status # "absent" =>
             MayWrite(orders[o], tx[p][o]) /\ Free(p, o)
    BY OfProcess DEF TradingInv, TypeOK
  <1>2. ASSUME NEW o \in Orders, o \in PendingOf(x)
        PROVE  /\ Rejected(orders[o]) \in Row
               /\ Rejected(orders[o]).status = "rejected"
               /\ MayWrite(orders[o], Rejected(orders[o]))
    BY <1>1, <1>2 DEF PendingOf, Rejected, Row, MayWrite, Settled
  <1>3. w \in [Orders -> Row]
    BY <1>1, <1>2
  <1>4. tx' = [tx EXCEPT ![p] = w]
    BY DEF Supersede
  <1>5. ASSUME NEW o \in Orders, w[o].status # "absent"
        PROVE  MayWrite(orders[o], w[o]) /\ Free(p, o)
    BY <1>1, <1>2, <1>5 DEF Supersede
  <1>6. \A o \in Orders : tx[p][o].status \in {"absent", "rejected"} =>
          w[o].status \in {"absent", "rejected"}
    BY <1>2
  <1> HIDE DEF w
  <1>7. SessionOK(s, w)
    BY <1>6 DEF SessionOK, Exiting
  <1>8. accountLock' \in Procs \cup {Nobody} /\ aborts' \in 0 .. MaxAborts
    BY DEF TradingInv, TypeOK
  <1>9. QED
    BY <1>3, <1>4, <1>5, <1>7, <1>8, SessionStep DEF Goto

\* The sentinel up to its INSERT, and when it gives a stock up.
LEMMA SentinelStep ==
  ASSUME TradingInv, NEW p \in Procs,
         \/ SentinelTakeOver(p) \/ SentinelConflict(p) \/ SentinelTakeOverAgain(p)
         \/ SentinelBlocked(p) \/ SentinelEnd(p)
  PROVE  TradingInv'
  <1>0. /\ local[p] \in Session
        /\ SessionOK(local[p], tx[p])
        /\ accountLock \in Procs \cup {Nobody}
        /\ aborts \in 0 .. MaxAborts
        /\ cash \in Int /\ cash >= 0
    BY OfProcess DEF TradingInv, TypeOK, CashNeverNegative
  <1>1. CASE SentinelTakeOver(p)
    <2>1. PICK x \in local[p].stocks :
            /\ Supersede(p, x)
            /\ Goto(p, [local[p] EXCEPT !.pc = "exit", !.selling = x,
                                        !.stocks = @ \ {x}])
      BY <1>1 DEF SentinelTakeOver
    <2> DEFINE s == [local[p] EXCEPT !.pc = "exit", !.selling = x, !.stocks = @ \ {x}]
    <2>2. local[p].pc = "watch" /\ x \in Stocks
      BY <1>0, <1>1, <2>1 DEF SentinelTakeOver, Session
    <2>3. /\ s \in Session
          /\ s.pc = "exit" /\ s.selling = x /\ s.stocks \subseteq local[p].stocks
          /\ s.held = local[p].held /\ s.now = local[p].now
          /\ s.drafts = local[p].drafts /\ s.wishes = local[p].wishes
      BY <1>0, <2>2 DEF Session, PcOK
    <2> HIDE DEF s
    <2>4. SessionOK(s, tx[p]) /\ s.pc \in Exiting
      BY <1>0, <2>1, <2>2, <2>3 DEF SessionOK, Exiting
    <2>5. UNCHANGED <<table, accountLock, aborts>>
      BY <1>1 DEF SentinelTakeOver
    <2>6. QED
      BY <2>1, <2>2, <2>3, <2>4, <2>5, SupersedeStep DEF s
  <1>2. CASE SentinelConflict(p)
    <2> DEFINE s == [local[p] EXCEPT !.pc = "conflict"]
    <2>1. s \in Session
      BY <1>0 DEF Session, PcOK
    <2>2. SessionOK(s, tx[p])
      BY <1>0, <1>2 DEF SentinelConflict, Session, SessionOK, Exiting
    <2>3. QED
      BY <1>0, <1>2, <2>1, <2>2, QuietStep DEF SentinelConflict, locks
  <1>3. CASE SentinelTakeOverAgain(p)
    <2> DEFINE s == [local[p] EXCEPT !.pc = "exit again"]
    <2>1. s \in Session
      BY <1>0 DEF Session, PcOK
    <2>2. SessionOK(s, tx[p])
      BY <1>0, <1>3 DEF SentinelTakeOverAgain, Session, SessionOK, Exiting
    <2>3. local[p].selling \in Stocks /\ s.pc \in Exiting
      BY <1>0, <1>3 DEF SentinelTakeOverAgain, SessionOK, Session, Exiting
    <2>4. QED
      BY <1>3, <2>1, <2>2, <2>3, SupersedeStep DEF SentinelTakeOverAgain
  <1>4. CASE SentinelBlocked(p)
    <2> DEFINE s == [local[p] EXCEPT !.pc = "watch", !.selling = NoStock,
                                     !.loaded = cash, !.now = cash]
    <2>1. s \in Session
      BY <1>0 DEF Session, PcOK
    <2>2. \A o \in Orders : NoWrites[o].status = "absent"
      BY DEF NoWrites, Absent
    <2>3. SessionOK(s, NoWrites)
      BY <1>0, <1>4, <2>2 DEF SentinelBlocked, Session, SessionOK, Exiting
    <2>4. /\ tx' = [tx EXCEPT ![p] = NoWrites]
          /\ accountLock' \in Procs \cup {Nobody}
          /\ aborts' \in 0 .. MaxAborts
          /\ Goto(p, s) /\ UNCHANGED table
      BY <1>0, <1>4 DEF SentinelBlocked, Rollback
    <2>5. QED
      BY <2>1, <2>2, <2>3, <2>4, FreshSession, SessionStep DEF Goto
  <1>5. CASE SentinelEnd(p)
    <2>1. SessionOK(Fresh, tx[p])
      BY <1>0, <1>5 DEF SentinelEnd, SessionOK, Exiting, Fresh
    <2>2. QED
      BY <1>0, <1>5, <2>1, FreshSession, QuietStep DEF SentinelEnd, locks
  <1>6. QED
    BY <1>1, <1>2, <1>3, <1>4, <1>5

\* Steps that leave the table alone and change no session but one that ends.
LEMMA EndStep ==
  ASSUME TradingInv, NEW p \in Procs, DecideConflict(p) \/ DeadlockVictim(p) \/ Abort(p)
  PROVE  TradingInv'
  <1>0. aborts \in 0 .. MaxAborts /\ accountLock \in Procs \cup {Nobody}
    BY DEF TradingInv, TypeOK
  <1>1. CASE DecideConflict(p)
    <2>1. SessionOK(local[p], tx[p])
      BY OfProcess
    <2>2. SessionOK(Fresh, tx[p])
      BY <1>1, <2>1 DEF DecideConflict, DecideReady, SessionOK, Exiting, Fresh
    <2>3. QED
      BY <1>0, <1>1, <2>2, FreshSession, QuietStep DEF DecideConflict, locks
  <1>2. CASE DeadlockVictim(p)
    BY <1>0, <1>2, ResetStep DEF DeadlockVictim
  <1>3. CASE Abort(p)
    BY <1>0, <1>3, ResetStep, TradingAssumption DEF Abort
  <1>4. QED
    BY <1>1, <1>2, <1>3

\* sync_prices stores a price and touches nothing else.
LEMMA PriceStep ==
  ASSUME TradingInv, NEW o \in Orders, PriceArrives(o)
  PROVE  TradingInv'
  <1>1. PICK price \in Prices : open' = [open EXCEPT ![o] = price]
    BY DEF PriceArrives
  <1>2. UNCHANGED <<orders, nextId, cash, local, tx, accountLock, aborts>>
    BY DEF PriceArrives, locks
  <1>3. price \in Nat
    BY TradingAssumption
  <1>4. TypeOK'
    BY <1>1, <1>2, <1>3 DEF TradingInv, TypeOK
  <1>5. TableInv'
    BY <1>1, <1>2 DEF TradingInv, TypeOK, TableInv, UnbornIsAbsent, PendingIsWhole,
      OpenIsAPrice, OnePendingPerStock
  <1>6. LockInv'
    BY <1>2 DEF TradingInv, LockInv, Free, Wrote
  <1>7. CashNeverNegative' /\ SessionsOK'
    BY <1>2 DEF TradingInv, CashNeverNegative, SessionsOK
  <1>8. QED
    BY <1>4, <1>5, <1>6, <1>7 DEF TradingInv

-----------------------------------------------------------------------------
(* Commits *)

\* A commit of p that spares the rows the others have locked.
LEMMA TableStep ==
  ASSUME TradingInv, NEW p \in Procs, NEW s \in Session, NEW w \in [Orders -> Row],
         Goto(p, s), tx' = [tx EXCEPT ![p] = w],
         \A o \in Orders : w[o].status = "absent", SessionOK(s, w),
         orders' \in [Orders -> Row], nextId' \in 1 .. MaxOrders + 1,
         cash' \in Int, cash' >= 0, UNCHANGED <<open, aborts>>,
         accountLock' \in Procs \cup {Nobody},
         UnbornIsAbsent', PendingIsWhole', OnePendingPerStock',
         \A q \in Procs \ {p}, o \in Orders : Wrote(q, o) => orders'[o] = orders[o]
  PROVE  TradingInv'
  <1>1. TypeOK'
    BY DEF TradingInv, TypeOK, Goto
  <1>2. TableInv'
    BY DEF TradingInv, TableInv, OpenIsAPrice
  <1>3. tx' = [x \in Procs |-> IF x = p THEN w ELSE tx[x]]
    BY DEF TradingInv, TypeOK
  <1>4. LockInv'
    <2> SUFFICES ASSUME NEW q \in Procs, NEW o \in Orders, tx'[q][o].status # "absent"
                 PROVE  /\ MayWrite(orders'[o], tx'[q][o])
                        /\ \A x \in Procs \ {q} : tx'[x][o].status = "absent"
      BY DEF LockInv, Wrote, Free
    <2>1. q # p /\ tx'[q] = tx[q]
      BY <1>3
    <2>2. Wrote(q, o) /\ orders'[o] = orders[o]
      BY <2>1 DEF Wrote
    <2>3. MayWrite(orders[o], tx[q][o]) /\ Free(q, o)
      BY <2>2 DEF TradingInv, LockInv
    <2>4. QED
      BY <1>3, <2>1, <2>2, <2>3 DEF Free, Wrote
  <1>5. CashNeverNegative'
    BY DEF CashNeverNegative
  <1>6. SessionsOK'
    BY <1>3 DEF TradingInv, TypeOK, SessionsOK, Goto
  <1>7. QED
    BY <1>1, <1>2, <1>4, <1>5, <1>6 DEF TradingInv

\* Pending orders that only leave the table, or stay as they are, stay one per stock.
LEMMA OnlyFewerPending ==
  ASSUME TradingInv,
         \A o \in Orders : orders'[o].status = "pending" => orders'[o] = orders[o]
  PROVE  PendingIsWhole' /\ OnePendingPerStock'
  BY DEF TradingInv, TableInv, PendingIsWhole, OnePendingPerStock

\* What a transaction makes of the table: it settles pending orders it has locked.
LEMMA CommittedRows ==
  ASSUME TradingInv, NEW p \in Procs, NEW o \in Orders
  PROVE  /\ Committed(orders, p)[o] \in Row
         /\ Committed(orders, p)[o] = orders[o]
              \/ /\ orders[o].status = "pending" /\ Wrote(p, o) /\ Free(p, o)
                 /\ Committed(orders, p)[o].status \in Settled
  <1>1. /\ orders[o] \in Row /\ tx[p][o] \in Row
        /\ Wrote(p, o) => MayWrite(orders[o], tx[p][o]) /\ Free(p, o)
    BY DEF TradingInv, TypeOK, LockInv
  <1>2. CASE Wrote(p, o)
    BY <1>1, <1>2 DEF Committed, MayWrite
  <1>3. CASE ~Wrote(p, o)
    BY <1>1, <1>3 DEF Committed
  <1>4. QED
    BY <1>2, <1>3

\* Recovery settles the rows stuck in 'filling', which no transaction can hold.
LEMMA RecoverStep ==
  ASSUME TradingInv, NEW p \in Procs, FillRecover(p)
  PROVE  /\ TradingInv'
         /\ \A o \in Orders :
              orders'[o] = orders[o] \/ orders[o].status = "filling"
  <1>1. ASSUME NEW o \in Orders
        PROVE  /\ orders'[o] \in Row
               /\ orders[o].status # "filling" => orders'[o] = orders[o]
               /\ orders[o].status = "filling" => orders'[o].status = "rejected"
    <2>1. orders[o] \in Row /\ orders'[o] = Recovered(orders[o])
      BY DEF FillRecover, TradingInv, TypeOK
    <2>2. QED
      BY <2>1 DEF Recovered, Rejected, Row, Settled
  <1>2. orders' \in [Orders -> Row]
    <2>1. orders' = [o \in Orders |-> orders'[o]]
      BY DEF FillRecover
    <2>2. QED
      BY <1>1, <2>1
  <1> DEFINE s == [local[p] EXCEPT !.pc = "replay"]
  <1>3. local[p] \in Session /\ SessionOK(local[p], tx[p]) /\ tx[p] \in [Orders -> Row]
    BY OfProcess
  <1>4. s \in Session
    BY <1>3 DEF Session, PcOK
  <1>5. SessionOK(s, tx[p]) /\ \A o \in Orders : tx[p][o].status = "absent"
    BY <1>3 DEF FillRecover, Session, SessionOK, Exiting
  <1>6. /\ tx' = [tx EXCEPT ![p] = tx[p]]
        /\ UNCHANGED <<nextId, cash, open, aborts, accountLock>>
        /\ cash \in Int /\ cash >= 0 /\ nextId \in 1 .. MaxOrders + 1
        /\ accountLock \in Procs \cup {Nobody}
        /\ Goto(p, s)
    BY DEF FillRecover, locks, TradingInv, TypeOK, CashNeverNegative
  <1>7. UnbornIsAbsent'
    BY <1>1, <1>6 DEF TradingInv, TableInv, UnbornIsAbsent
  <1>8. PendingIsWhole' /\ OnePendingPerStock'
    BY <1>1, OnlyFewerPending
  <1>9. \A q \in Procs \ {p}, o \in Orders : Wrote(q, o) => orders'[o] = orders[o]
    BY <1>1 DEF TradingInv, LockInv, MayWrite
  <1> HIDE DEF s
  <1>10. TradingInv'
    BY <1>2, <1>3, <1>4, <1>5, <1>6, <1>7, <1>8, <1>9, TableStep
  <1>11. QED
    BY <1>1, <1>10

\* The matching commits: each row it changes was pending and locked by it.
LEMMA CommitStep ==
  ASSUME TradingInv, NEW p \in Procs, FillCommit(p)
  PROVE  /\ TradingInv'
         /\ \A o \in Orders : orders'[o] = orders[o] \/ orders[o].status = "pending"
  <1>1. orders' = Committed(orders, p)
    BY DEF FillCommit, Commit
  <1>2. ASSUME NEW o \in Orders
        PROVE  /\ orders'[o] \in Row
               /\ orders'[o] = orders[o]
                    \/ /\ orders[o].status = "pending" /\ Free(p, o)
                       /\ orders'[o].status \in Settled
    BY <1>1, CommittedRows
  <1>3. orders' \in [Orders -> Row]
    <2>1. orders' = [o \in Orders |-> orders'[o]]
      BY <1>1 DEF Committed
    <2>2. QED
      BY <1>2, <2>1
  <1>4. local[p] \in Session /\ SessionOK(local[p], tx[p])
    BY OfProcess
  <1>5. local[p].now \in Int /\ local[p].now >= 0
    BY <1>4 DEF Session, SessionOK
  <1>6. /\ tx' = [tx EXCEPT ![p] = NoWrites]
        /\ \A o \in Orders : NoWrites[o].status = "absent"
        /\ UNCHANGED <<nextId, open, aborts>>
        /\ cash' \in Int /\ cash' >= 0 /\ nextId \in 1 .. MaxOrders + 1
        /\ accountLock' \in Procs \cup {Nobody}
        /\ Goto(p, Fresh)
    BY <1>5 DEF FillCommit, Commit, NoWrites, Absent, TradingInv, TypeOK,
      CashNeverNegative
  <1>7. UnbornIsAbsent'
    BY <1>2, <1>6 DEF TradingInv, TableInv, UnbornIsAbsent
  <1>8. PendingIsWhole' /\ OnePendingPerStock'
    BY <1>2, OnlyFewerPending DEF Settled
  <1>9. \A q \in Procs \ {p}, o \in Orders : Wrote(q, o) => orders'[o] = orders[o]
    BY <1>2 DEF Free
  <1>10. TradingInv'
    BY <1>3, <1>6, <1>7, <1>8, <1>9, FreshSession, TableStep
  <1>11. QED
    BY <1>2, <1>10

\* The exit takes a new id, and every pending order of its stock is rejected with it.
LEMMA ExitStep ==
  ASSUME TradingInv, NEW p \in Procs, SentinelExit(p)
  PROVE  /\ TradingInv'
         /\ \A o \in Orders :
              orders'[o] = orders[o] \/ orders[o].status \in {"absent", "pending"}
         /\ \A o \in Orders : orders[o].status = "absent" /\ orders'[o].status = "filled" =>
              \A x \in Orders : ~(/\ orders'[x].status = "pending"
                                  /\ orders'[x].stock = orders'[o].stock)
  <1> DEFINE y == local[p].selling
             n == local[p].held[y]
             exit == Pending(y, "sell", n)
             new(price) == FilledAt(exit, exit.qty, price)
             s(price) == [Sold(p, price) EXCEPT !.pc = "watch",
                            !.loaded = Sold(p, price).now, !.selling = NoStock]
  <1>1. PICK price \in Prices :
          /\ orders' = [Committed(orders, p) EXCEPT ![nextId] = new(price)]
          /\ cash' = IF Sold(p, price).now # Sold(p, price).loaded
                     THEN Sold(p, price).now ELSE cash
          /\ Goto(p, s(price))
    BY DEF SentinelExit
  <1>2. /\ local[p] \in Session /\ tx[p] \in [Orders -> Row]
        /\ SessionOK(local[p], tx[p])
        /\ local[p].pc \in Exiting
        /\ nextId \in Orders
        /\ y \in Stocks /\ n > 0
        /\ \A o \in Orders : tx[p][o].status \in {"absent", "rejected"}
        /\ \A x \in local[p].stocks : local[p].held[x] > 0
        /\ local[p].drafts = <<>> /\ local[p].wishes = {}
    BY OfProcess DEF SentinelExit, SessionOK, Exiting
  <1>3. /\ local[p].held \in [Stocks -> Nat] /\ n \in Nat
        /\ local[p].now \in Int /\ local[p].now >= 0
    BY <1>2 DEF Session, SessionOK
  <1>4. price \in Nat
    BY TradingAssumption
  <1>5. new(price) \in Row /\ new(price).status = "filled" /\ new(price).stock = y
    BY <1>2, <1>3, <1>4 DEF Pending, FilledAt, Row, Settled
  <1> DEFINE gain == n * price
             now == local[p].now + gain - Fee
  <1>6. gain \in Nat /\ gain - Fee >= 0 /\ Fee \in Nat
    BY <1>2, <1>3, Proceeds
  <1>7. Sold(p, price) = [local[p] EXCEPT !.now = now]
    BY <1>2 DEF Sold, Session
  <1> HIDE DEF new, gain
  <1>8. now \in Int /\ now >= 0
    BY <1>3, <1>6
  <1> HIDE DEF now
  <1>9. s(price) = [local[p] EXCEPT !.pc = "watch", !.now = now, !.loaded = now,
                                    !.selling = NoStock]
    BY <1>2, <1>7 DEF Session
  <1>10. /\ s(price) \in Session
         /\ Sold(p, price).now = now
         /\ SessionOK(s(price), NoWrites)
    <2>1. s(price) \in Session /\ Sold(p, price).now = now
      BY <1>2, <1>7, <1>8, <1>9 DEF Session, PcOK
    <2>2. /\ s(price).pc = "watch" /\ s(price).now = now
          /\ s(price).held = local[p].held /\ s(price).stocks = local[p].stocks
          /\ s(price).drafts = local[p].drafts /\ s(price).wishes = local[p].wishes
      BY <1>2, <1>9 DEF Session
    <2>3. \A o \in Orders : NoWrites[o].status = "absent"
      BY DEF NoWrites, Absent
    <2> HIDE DEF s
    <2>4. SessionOK(s(price), NoWrites)
      BY <1>2, <1>8, <2>2, <2>3 DEF SessionOK, Exiting
    <2>5. QED
      BY <2>1, <2>4
  <1> HIDE DEF s
  <1>11. Committed(orders, p) = [o \in Orders |-> Committed(orders, p)[o]]
    BY DEF Committed
  <1>12. ASSUME NEW o \in Orders
         PROVE  /\ o = nextId => orders'[o] = new(price)
                /\ o # nextId => orders'[o] = Committed(orders, p)[o]
                /\ orders'[o] \in Row
    BY <1>1, <1>2, <1>5, <1>11, CommittedRows
  <1>13. orders' \in [Orders -> Row]
    <2>1. orders' = [o \in Orders |-> orders'[o]]
      BY <1>1, <1>11
    <2>2. QED
      BY <1>12, <2>1
  <1>14. orders[nextId].status = "absent"
    BY <1>2 DEF TradingInv, TableInv, UnbornIsAbsent, TypeOK, Orders
  <1>15. \A o \in Orders : orders'[o].status = "pending" => orders'[o] = orders[o]
    BY <1>5, <1>12, CommittedRows DEF Settled
  <1>16. \A q \in Procs \ {p}, o \in Orders : Wrote(q, o) => orders'[o] = orders[o]
    BY <1>12, <1>14, CommittedRows DEF Free, TradingInv, LockInv, MayWrite
  <1>17. /\ nextId' = nextId + 1
         /\ nextId' \in 1 .. MaxOrders + 1
         /\ cash' \in Int /\ cash' >= 0
         /\ tx' = [tx EXCEPT ![p] = NoWrites]
         /\ accountLock' \in Procs \cup {Nobody}
         /\ UNCHANGED <<open, aborts>>
    <2>1. nextId' = nextId + 1 /\ UNCHANGED <<open, aborts>> /\ Rollback(p)
      BY DEF SentinelExit
    <2>2. nextId' \in 1 .. MaxOrders + 1
      BY <1>2, <2>1, TradingAssumption DEF Orders
    <2>3. cash' \in Int /\ cash' >= 0
      BY <1>1, <1>8, <1>10 DEF TradingInv, TypeOK, CashNeverNegative
    <2>4. QED
      BY <2>1, <2>2, <2>3 DEF Rollback, TradingInv, TypeOK
  <1>18. UnbornIsAbsent'
    <2> SUFFICES ASSUME NEW o \in Orders, o >= nextId'
                 PROVE  orders'[o].status = "absent"
      BY DEF UnbornIsAbsent
    <2>1. o # nextId /\ o >= nextId
      BY <1>2, <1>17 DEF Orders
    <2>2. orders[o].status = "absent"
      BY <2>1 DEF TradingInv, TableInv, UnbornIsAbsent
    <2>3. QED
      BY <1>12, <2>1, <2>2, CommittedRows
  <1>19. TradingInv'
    <2>1. \A o \in Orders : NoWrites[o].status = "absent"
      BY DEF NoWrites, Absent
    <2>2. PendingIsWhole' /\ OnePendingPerStock'
      BY <1>15, OnlyFewerPending
    <2>3. QED
      BY <1>1, <1>10, <1>13, <1>16, <1>17, <1>18, <2>1, <2>2, FreshSession, TableStep
  <1>20. ASSUME NEW o \in Orders
         PROVE  orders'[o] = orders[o] \/ orders[o].status \in {"absent", "pending"}
    BY <1>12, <1>14, CommittedRows
  <1>21. ASSUME NEW o \in Orders, orders[o].status = "absent",
                orders'[o].status = "filled",
                NEW x \in Orders, orders'[x].status = "pending",
                orders'[x].stock = orders'[o].stock
         PROVE  FALSE
    <2>1. o = nextId
      BY <1>12, <1>21, CommittedRows
    <2>2. orders'[o].stock = y
      BY <1>5, <1>12, <2>1
    <2>3. orders[x].status = "pending" /\ orders[x].stock = y
      BY <1>15, <1>21, <2>2
    <2>4. Wrote(p, x)
      BY <2>3 DEF SentinelExit, Conflicting, PendingOf
    <2>5. Committed(orders, p)[x] = tx[p][x] /\ tx[p][x].status = "rejected"
      BY <1>2, <2>4 DEF Committed, Wrote
    <2>6. x # nextId
      BY <1>14, <2>3
    <2>7. QED
      BY <1>12, <1>21, <2>5, <2>6
  <1>22. QED
    BY <1>19, <1>20, <1>21

\* The decision run adds pending orders of distinct stocks that have none.
LEMMA DecideStep ==
  ASSUME TradingInv, NEW p \in Procs, DecideCommit(p)
  PROVE  /\ TradingInv'
         /\ \A o \in Orders :
              orders'[o] = orders[o]
                \/ (orders[o].status = "absent" /\ orders'[o].status = "pending")
  <1> DEFINE drafts == local[p].drafts
             Born == nextId .. nextId + Len(drafts) - 1
             new(o) == Pending(drafts[o - nextId + 1].stock, drafts[o - nextId + 1].side,
                               drafts[o - nextId + 1].qty)
  <1>1. /\ local[p] \in Session /\ tx[p] \in [Orders -> Row]
        /\ SessionOK(local[p], tx[p])
        /\ nextId \in 1 .. MaxOrders + 1
    BY OfProcess DEF TradingInv, TypeOK
  <1>2. /\ local[p].pc = "decide" /\ DraftsOK(local[p])
        /\ \A o \in Orders : tx[p][o].status = "absent"
        /\ TakenByOthers(p) = {}
        /\ nextId + Len(drafts) - 1 <= MaxOrders
        /\ nextId' = nextId + Len(drafts)
        /\ orders' = [o \in Orders |-> IF o \in Born THEN new(o) ELSE orders[o]]
    BY <1>1 DEF DecideCommit, DecideReady, SessionOK, Exiting
  <1>3. drafts \in Seq(Drafts) /\ Len(drafts) \in Nat
    BY <1>1 DEF Session
  <1>4. ASSUME NEW i \in 1 .. Len(drafts)
        PROVE  /\ drafts[i] \in Drafts
               /\ \A o \in Orders : orders[o].status = "pending" =>
                    orders[o].stock # drafts[i].stock
    <2>1. drafts[i] \in Drafts
      BY <1>3
    <2>2. PendingOf(drafts[i].stock) = {}
      BY <1>2 DEF TakenByOthers
    <2>3. QED
      BY <2>1, <2>2 DEF PendingOf
  <1>5. ASSUME NEW o \in Orders, o \in Born
        PROVE  /\ o - nextId + 1 \in 1 .. Len(drafts)
               /\ orders'[o] = new(o)
               /\ orders'[o] \in Row
               /\ orders'[o].status = "pending"
               /\ orders'[o].qty > 0
               /\ orders'[o].stock \in Stocks
               /\ orders'[o].stock = drafts[o - nextId + 1].stock
               /\ orders[o].status = "absent"
    <2>1. o - nextId + 1 \in 1 .. Len(drafts)
      BY <1>1, <1>3, <1>5
    <2>2. orders'[o] = new(o)
      BY <1>2, <1>5
    <2>3. drafts[o - nextId + 1] \in Drafts
      BY <1>4, <2>1
    <2>4. orders[o].status = "absent"
      BY <1>1, <1>3, <1>5 DEF TradingInv, TableInv, UnbornIsAbsent, Orders
    <2>5. QED
      BY <2>1, <2>2, <2>3, <2>4 DEF Pending, Drafts, Row
  <1>6. ASSUME NEW o \in Orders, o \notin Born
        PROVE  orders'[o] = orders[o]
    BY <1>2, <1>6
  <1>7. \A o \in Orders : orders'[o] \in Row
    BY <1>5, <1>6 DEF TradingInv, TypeOK
  <1>8. orders' \in [Orders -> Row]
    BY <1>2, <1>7
  <1>9. /\ nextId' \in 1 .. MaxOrders + 1
        /\ UnbornIsAbsent'
    <2>1. nextId' \in 1 .. MaxOrders + 1
      <3>1. MaxOrders \in Nat
        BY TradingAssumption
      <3> HIDE DEF drafts
      <3>2. QED
        BY <1>1, <1>2, <1>3, <3>1
    <2> SUFFICES ASSUME NEW o \in Orders, o >= nextId'
                 PROVE  orders'[o].status = "absent"
      BY <2>1 DEF UnbornIsAbsent
    <2>2. o \notin Born /\ o >= nextId
      BY <1>1, <1>2, <1>3 DEF Orders
    <2>3. QED
      BY <1>6, <2>2 DEF TradingInv, TableInv, UnbornIsAbsent
  <1>10. PendingIsWhole'
    BY <1>5, <1>6 DEF TradingInv, TableInv, PendingIsWhole
  <1>11. OnePendingPerStock'
    <2> SUFFICES ASSUME NEW o \in Orders, NEW x \in Orders, o # x,
                        orders'[o].status = "pending", orders'[x].status = "pending"
                 PROVE  orders'[o].stock # orders'[x].stock
      BY DEF OnePendingPerStock
    <2>1. CASE o \in Born /\ x \in Born
      <3>1. o - nextId + 1 # x - nextId + 1
        BY <1>1 DEF Orders
      <3>2. QED
        BY <1>2, <1>5, <2>1, <3>1 DEF DraftsOK
    <2>2. CASE o \in Born /\ x \notin Born
      BY <1>4, <1>5, <1>6, <2>2
    <2>3. CASE o \notin Born /\ x \in Born
      BY <1>4, <1>5, <1>6, <2>3
    <2>4. CASE o \notin Born /\ x \notin Born
      BY <1>6, <2>4 DEF TradingInv, TableInv, OnePendingPerStock
    <2>5. QED
      BY <2>1, <2>2, <2>3, <2>4
  <1>12. \A q \in Procs \ {p}, o \in Orders : Wrote(q, o) => orders'[o] = orders[o]
    BY <1>5, <1>6 DEF TradingInv, LockInv, MayWrite
  <1>13. /\ tx' = [tx EXCEPT ![p] = tx[p]]
         /\ cash' \in Int /\ cash' >= 0
         /\ accountLock' \in Procs \cup {Nobody}
         /\ UNCHANGED <<open, aborts>>
         /\ Goto(p, Fresh)
    BY DEF DecideCommit, locks, TradingInv, TypeOK, CashNeverNegative
  <1>14. SessionOK(Fresh, tx[p])
    BY <1>2 DEF SessionOK, Exiting, Fresh
  <1>15. TradingInv'
    BY <1>1, <1>2, <1>8, <1>9, <1>10, <1>11, <1>12, <1>13, <1>14, FreshSession, TableStep
  <1>16. QED
    BY <1>5, <1>6, <1>15

-----------------------------------------------------------------------------
(* The invariant is inductive *)

\* The steps that change the table.
TableMove(p) == FillRecover(p) \/ FillCommit(p) \/ SentinelExit(p) \/ DecideCommit(p)

\* The steps of a process that do not.
SessionMove(p) ==
  \/ Begin(p)
  \/ FillReplay(p) \/ FillList(p) \/ SentinelReplay(p) \/ DecideReplay(p)
  \/ DecideSkip(p) \/ \E o \in Orders : FillMissed(p, o)
  \/ DecideSell(p) \/ DecideWish(p) \/ DecideSize(p)
  \/ \E o \in Orders : \/ FillWait(p, o) \/ FillBuy(p, o) \/ FillRejectBuy(p, o)
                       \/ FillSell(p, o) \/ FillRejectSell(p, o)
  \/ SentinelTakeOver(p) \/ SentinelConflict(p) \/ SentinelTakeOverAgain(p)
  \/ SentinelBlocked(p) \/ SentinelEnd(p)
  \/ DecideConflict(p) \/ DeadlockVictim(p) \/ Abort(p)

\* Next, split by what a step does to the table.
LEMMA EveryStep ==
  ASSUME Next
  PROVE  \/ \E p \in Procs : SessionMove(p) \/ TableMove(p)
         \/ \E o \in Orders : PriceArrives(o)
  BY DEF Next, FillFlow, SentinelFlow, DecideFlow, SessionMove, TableMove

\* Each of those steps keeps the invariant.
LEMMA SessionMoves ==
  ASSUME TradingInv, NEW p \in Procs, SessionMove(p)
  PROVE  TradingInv'
  BY BeginStep, ReadStep, DraftStep, FillStep, SentinelStep, EndStep DEF SessionMove

\* None of them commits a row.
LEMMA SessionMovesSpareTheTable ==
  ASSUME NEW p \in Procs, SessionMove(p)
  PROVE  UNCHANGED orders
  BY DEF SessionMove, table, Begin, BeginFill, BeginSentinel, BeginDecide, LoadAccount,
    FillReplay, FillList, SentinelReplay, DecideReplay, DecideSkip, FillMissed,
    DecideSell, DecideWish, DecideSize, FillWait, FillBuy, FillRejectBuy, FillSell,
    FillRejectSell, SentinelTakeOver, SentinelConflict, SentinelTakeOverAgain,
    SentinelBlocked, SentinelEnd, DecideConflict, DeadlockVictim, Abort

\* Every step of every flow, of the market and of a crash keeps the invariant.
THEOREM Inductive == TradingInv /\ [Next]_vars => TradingInv'
  <1> SUFFICES ASSUME TradingInv, [Next]_vars PROVE TradingInv'
    OBVIOUS
  <1>1. CASE UNCHANGED vars
    BY <1>1 DEF vars, TradingInv, TypeOK, TableInv, UnbornIsAbsent, PendingIsWhole,
      OpenIsAPrice, OnePendingPerStock, LockInv, Wrote, Free, CashNeverNegative,
      SessionsOK
  <1>2. CASE Next
    <2>1. ASSUME NEW p \in Procs, SessionMove(p) PROVE TradingInv'
      BY <2>1, SessionMoves
    <2>2. ASSUME NEW p \in Procs, TableMove(p) PROVE TradingInv'
      BY <2>2, RecoverStep, CommitStep, ExitStep, DecideStep DEF TableMove
    <2>3. ASSUME NEW o \in Orders, PriceArrives(o) PROVE TradingInv'
      BY <2>3, PriceStep
    <2>4. QED
      BY <1>2, <2>1, <2>2, <2>3, EveryStep
  <1>3. QED
    BY <1>1, <1>2

\* What one step may do to the table.
LEMMA TableMoves ==
  ASSUME TradingInv, [Next]_vars, ~UNCHANGED orders
  PROVE  \E p \in Procs : TableMove(p)
  <1>1. Next
    BY DEF vars
  <1>2. ASSUME NEW o \in Orders, PriceArrives(o) PROVE UNCHANGED orders
    BY <1>2 DEF PriceArrives
  <1>3. QED
    BY <1>1, <1>2, EveryStep, SessionMovesSpareTheTable

-----------------------------------------------------------------------------
(* Theorems *)

\* In every state: the types, one row per id, locks only on pending rows and held by one
\* transaction, no negative cash, and sessions that sell only what they hold.
THEOREM TradingCorrect == Spec => []TradingInv
  BY Initially, Inductive, PTL DEF Spec

\* Every variable keeps its type; a session counts whole shares and drafts no empty order
\* (current_positions, _affordable_qty, the sell-out guard of fill_pending_orders).
THEOREM TypesCorrect == Spec => []TypeOK
  <1>1. TradingInv => TypeOK
    BY DEF TradingInv
  <1>2. QED
    BY <1>1, TradingCorrect, PTL

\* The stored cash is never negative, whatever the flows overwrite of each other: each
\* writes a value that was loaded and could pay for its own purchases (_affordable_qty),
\* and no fee exceeds the price of one share.
THEOREM CashStaysPositive == Spec => []CashNeverNegative
  <1>1. TradingInv => CashNeverNegative
    BY DEF TradingInv
  <1>2. QED
    BY <1>1, TradingCorrect, PTL

\* A stock never has two pending orders: the decision run and the restore of a claimed
\* order respect the unique index, and every order is recorded when it is superseded.
THEOREM PendingIsUnique == Spec => []OnePendingPerStock
  <1>1. TradingInv => OnePendingPerStock
    BY DEF TradingInv, TableInv
  <1>2. QED
    BY <1>1, TradingCorrect, PTL

\* An order filled or rejected is never changed again: a transaction writes over rows that
\* are pending, its lock keeps them pending until it commits, and recovery touches only
\* rows in 'filling'.
THEOREM SettledOrdersStay == Spec => SettledIsFinal
  <1>1. ASSUME TradingInv, [Next]_vars
        PROVE  \A o \in Orders : orders[o].status \in Settled => orders'[o] = orders[o]
    <2>1. CASE UNCHANGED orders
      BY <2>1
    <2>2. ASSUME NEW p \in Procs, TableMove(p),
                 NEW o \in Orders, orders[o].status \in Settled
          PROVE  orders'[o] = orders[o]
      BY <1>1, <2>2, RecoverStep, CommitStep, ExitStep, DecideStep
      DEF TableMove, Settled
    <2>3. QED
      BY <1>1, <2>1, <2>2, TableMoves
  <1>2. QED
    BY <1>1, TradingCorrect, PTL DEF Spec, SettledIsFinal

\* When the sentinel has sold a position, no pending order of the stock is left behind: it
\* has rejected it in the same transaction, and an order that came in between makes the
\* unique index fail the INSERT.
THEOREM ExitIsAlone == Spec => ExitLeavesNothingPending
  <1>1. ASSUME TradingInv, [Next]_vars
        PROVE  \A o \in Orders :
                 (orders[o].status = "absent" /\ orders'[o].status = "filled") =>
                   \A x \in Orders : ~(/\ orders'[x].status = "pending"
                                       /\ orders'[x].stock = orders'[o].stock)
    <2> SUFFICES ASSUME NEW o \in Orders, orders[o].status = "absent",
                        orders'[o].status = "filled"
                 PROVE  \A x \in Orders : ~(/\ orders'[x].status = "pending"
                                            /\ orders'[x].stock = orders'[o].stock)
      OBVIOUS
    <2>1. PICK p \in Procs : TableMove(p)
      BY <1>1, TableMoves
    <2>2. SentinelExit(p)
      BY <1>1, <2>1, RecoverStep, CommitStep, DecideStep DEF TableMove
    <2>3. QED
      BY <1>1, <2>2, ExitStep
  <1>2. QED
    BY <1>1, TradingCorrect, PTL DEF Spec, ExitLeavesNothingPending

-----------------------------------------------------------------------------
(* Sums *)

\* A set of numbers that holds 0 and with every number the next holds all.
LEMMA CountUp ==
  ASSUME NEW S \in SUBSET Nat, 0 \in S, \A n \in S : n + 1 \in S
  PROVE  S = Nat
  <1>1. SUFFICES ASSUME NEW z \in Nat \ S PROVE FALSE
    OBVIOUS
  <1>2. PICK x \in Nat \ S : \A y \in Nat \ S : ~(<<y, x>> \in OpToRel(<, Nat))
    BY <1>1, NatLessThanWellFounded, WFMin, Zenon
  <1>7. x \in Nat \ S
    OBVIOUS
  <1>3. x - 1 \in Nat /\ x - 1 < x /\ (x - 1) + 1 = x
    BY <1>7
  <1>4. x - 1 \notin S
    BY <1>7, <1>3
  <1>5. <<x - 1, x>> \in Nat \X Nat /\ <<x - 1, x>>[1] < <<x - 1, x>>[2]
    BY <1>7, <1>3
  <1>6. <<x - 1, x>> \in OpToRel(<, Nat)
    BY <1>5, Zenon DEF OpToRel
  <1> QED BY <1>2, <1>3, <1>4, <1>6, Zenon

First(s) == CHOOSE x \in s : TRUE

\* g adds f up over each of the sets Ss.
AddsUp(g, f, Ss) ==
  g = [s \in Ss |-> IF s = {} THEN 0 ELSE f[First(s)] + g[s \ {First(s)}]]

Parts(T, k) == {t \in SUBSET T : Cardinality(t) <= k}

\* The sums of the parts of a set, the smaller ones first.
LEMMA PartialSums ==
  ASSUME NEW T, IsFiniteSet(T), NEW f, NEW n \in Nat
  PROVE  \E g : AddsUp(g, f, Parts(T, n))
  <1> DEFINE Small(k) == {t \in SUBSET T : Cardinality(t) <= k}
             Body(g, k) == [s \in Small(k) |-> IF s = {} THEN 0 ELSE f[First(s)] + g[s \ {First(s)}]]
             S == {k \in Nat : \E g : g = Body(g, k)}
  <1>1. \A s \in SUBSET T : IsFiniteSet(s) /\ Cardinality(s) \in Nat
    BY FS_Subset, FS_CardinalityType
  <1>2. \A s \in SUBSET T : s # {} => /\ First(s) \in s
                                      /\ s \ {First(s)} \in SUBSET T
                                      /\ Cardinality(s \ {First(s)}) = Cardinality(s) - 1
    <2> SUFFICES ASSUME NEW s \in SUBSET T, s # {}
                 PROVE  /\ First(s) \in s /\ s \ {First(s)} \in SUBSET T
                        /\ Cardinality(s \ {First(s)}) = Cardinality(s) - 1
      OBVIOUS
    <2>1. First(s) \in s
      BY DEF First
    <2>2. Cardinality(s \ {First(s)}) = Cardinality(s) - 1
      BY <1>1, <2>1, FS_RemoveElement
    <2> QED BY <2>1, <2>2
  <1>3. 0 \in S
    <2>1. PICK g : g = [s \in Small(0) |-> 0]
      OBVIOUS
    <2>2. \A s \in Small(0) : s = {}
      <3>1. \A s \in SUBSET T : Cardinality(s) <= 0 => s = {}
        BY <1>1, FS_EmptySet
      <3> QED BY <3>1
    <2>3. g = Body(g, 0)
      BY <2>1, <2>2
    <2> QED BY <2>3
  <1>4. ASSUME NEW k \in S PROVE k + 1 \in S
    <2>1. PICK g : g = Body(g, k)
      OBVIOUS
    <2>2. PICK h : h = [s \in Small(k + 1) |-> IF s = {} THEN 0 ELSE f[First(s)] + g[s \ {First(s)}]]
      OBVIOUS
    <2>3. ASSUME NEW s \in Small(k) PROVE h[s] = g[s]
      <3>1. s \in Small(k + 1)
        BY <1>1
      <3>2. h[s] = IF s = {} THEN 0 ELSE f[First(s)] + g[s \ {First(s)}]
        BY <2>2, <3>1
      <3>3. g[s] = IF s = {} THEN 0 ELSE f[First(s)] + g[s \ {First(s)}]
        BY <2>1
      <3> QED BY <3>2, <3>3
    <2>4. ASSUME NEW s \in Small(k + 1)
          PROVE  h[s] = IF s = {} THEN 0 ELSE f[First(s)] + h[s \ {First(s)}]
      <3>1. CASE s = {}
        BY <2>2, <3>1
      <3>2. CASE s # {}
        <4>1. s \ {First(s)} \in Small(k)
          BY <1>1, <1>2, <3>2
        <4>2. h[s \ {First(s)}] = g[s \ {First(s)}]
          BY <2>3, <4>1
        <4>3. h[s] = f[First(s)] + g[s \ {First(s)}]
          BY <2>2, <3>2
        <4> QED BY <3>2, <4>2, <4>3
      <3> QED BY <3>1, <3>2
    <2>5. h = Body(h, k + 1)
      <3> HIDE DEF Small
      <3>1. h = [s \in Small(k + 1) |-> h[s]]
        BY <2>2
      <3> QED BY <2>4, <3>1
    <2>6. k + 1 \in Nat
      OBVIOUS
    <2>7. \E y : y = Body(y, k + 1)
      <3> HIDE DEF Body
      <3> QED BY <2>5
    <2> QED BY <2>6, <2>7
  <1>5. S = Nat
    <2> HIDE DEF S
    <2>1. S \in SUBSET Nat
      BY DEF S
    <2> QED BY <1>3, <1>4, <2>1, CountUp
  <1>6. n \in S
    BY <1>5
  <1>7. PICK g : g = Body(g, n)
    BY <1>6
  <1> QED BY <1>7, Zenon DEF AddsUp, Parts

\* What SumFunction adds up.
LEMMA SumIs ==
  ASSUME NEW T, IsFiniteSet(T), NEW f, DOMAIN f = T
  PROVE  \E g : AddsUp(g, f, SUBSET T) /\ SumFunction(f) = g[T]
  <1>1. PICK n \in Nat : n = Cardinality(T)
    BY FS_CardinalityType
  <1>2. PICK h : AddsUp(h, f, Parts(T, n))
    BY PartialSums
  <1>3. Parts(T, n) = SUBSET T
    BY <1>1, FS_Subset, FS_CardinalityType DEF Parts
  <1>4. AddsUp(h, f, SUBSET T)
    BY <1>2, <1>3
  <1> DEFINE g == CHOOSE g : g = [s \in SUBSET T |-> IF s = {} THEN 0 ELSE f[First(s)] + g[s \ {First(s)}]]
  <1>5. AddsUp(g, f, SUBSET T)
    BY <1>4, Zenon DEF AddsUp
  <1>6. SumFunction(f) = g[T]
    BY Zenon DEF SumFunction, SumFunctionOnSet, FoldFunctionOnSet, MapThenFoldSet, First
  <1> QED BY <1>5, <1>6

\* Up to a size, sums of integers are integers, and a change at one place changes them
\* by as much.
LEMMA PartialChanges ==
  ASSUME NEW T, IsFiniteSet(T), NEW f \in [T -> Int], NEW h \in [T -> Int], NEW x \in T,
         \A y \in T \ {x} : h[y] = f[y],
         NEW a, NEW b, AddsUp(a, f, SUBSET T), AddsUp(b, h, SUBSET T), NEW n \in Nat
  PROVE  \A s \in Parts(T, n) :
           /\ a[s] \in Int
           /\ b[s] = a[s] + (IF x \in s THEN h[x] - f[x] ELSE 0)
  <1> DEFINE Right(s) == /\ a[s] \in Int
                         /\ b[s] = a[s] + (IF x \in s THEN h[x] - f[x] ELSE 0)
             S == {k \in Nat : \A s \in Parts(T, k) : Right(s)}
  <1>1. \A s \in SUBSET T :
          /\ a[s] = IF s = {} THEN 0 ELSE f[First(s)] + a[s \ {First(s)}]
          /\ b[s] = IF s = {} THEN 0 ELSE h[First(s)] + b[s \ {First(s)}]
    BY DEF AddsUp
  <1>2. \A s \in SUBSET T : IsFiniteSet(s) /\ Cardinality(s) \in Nat
    BY FS_Subset, FS_CardinalityType
  <1>3. 0 \in S
    <2>1. \A s \in Parts(T, 0) : s = {}
      BY <1>2, FS_EmptySet DEF Parts
    <2>2. a[{}] = 0 /\ b[{}] = 0
      <3>1. {} \in SUBSET T
        OBVIOUS
      <3> QED BY <1>1, <3>1, Zenon
    <2>3. Right({})
      BY <2>2
    <2> QED BY <2>1, <2>3
  <1>4. ASSUME NEW k \in S PROVE k + 1 \in S
    <2>1. ASSUME NEW s \in Parts(T, k + 1) PROVE Right(s)
      <3>0. s \in SUBSET T /\ Cardinality(s) <= k + 1
        BY DEF Parts
      <3>1. CASE s = {}
        <4>1. a[s] = 0 /\ b[s] = 0
          BY <1>1, <3>0, <3>1, Zenon
        <4> QED BY <3>1, <4>1
      <3>2. CASE s # {}
        <4> DEFINE y == First(s)
                   rest == s \ {y}
        <4>1. y \in s
          BY <3>2 DEF First
        <4>2. Cardinality(rest) = Cardinality(s) - 1
          BY <1>2, <3>0, <4>1, FS_RemoveElement
        <4>3. rest \in Parts(T, k)
          BY <1>2, <3>0, <4>2 DEF Parts
        <4>4. Right(rest)
          BY <4>3
        <4>5. a[s] = f[y] + a[rest] /\ b[s] = h[y] + b[rest]
          BY <1>1, <3>0, <3>2
        <4>6. y \in T /\ f[y] \in Int /\ h[y] \in Int /\ h[x] \in Int /\ f[x] \in Int
          BY <3>0, <4>1
        <4> HIDE DEF y
        <4>7. CASE y = x
          <5>1. x \in s /\ x \notin rest
            BY <4>1, <4>7
          <5> QED BY <4>4, <4>5, <4>6, <4>7, <5>1
        <4>8. CASE y # x
          <5>1. h[y] = f[y] /\ (x \in s <=> x \in rest)
            BY <4>6, <4>8
          <5> QED BY <4>4, <4>5, <4>6, <5>1
        <4> QED BY <4>7, <4>8
      <3> QED BY <3>1, <3>2
    <2>2. k + 1 \in Nat
      OBVIOUS
    <2> QED BY <2>1, <2>2
  <1>5. S = Nat
    <2> HIDE DEF S
    <2>1. S \in SUBSET Nat
      BY DEF S
    <2> QED BY <1>3, <1>4, <2>1, CountUp
  <1> QED BY <1>5

\* A change at one place changes the sum by as much.
LEMMA SumChanges ==
  ASSUME NEW T, IsFiniteSet(T), NEW f \in [T -> Int], NEW h \in [T -> Int], NEW x \in T,
         \A y \in T \ {x} : h[y] = f[y]
  PROVE  /\ SumFunction(f) \in Int
         /\ SumFunction(h) = SumFunction(f) + h[x] - f[x]
  <1>1. PICK a : AddsUp(a, f, SUBSET T) /\ SumFunction(f) = a[T]
    BY SumIs
  <1>2. PICK b : AddsUp(b, h, SUBSET T) /\ SumFunction(h) = b[T]
    BY SumIs
  <1>3. PICK n \in Nat : n = Cardinality(T)
    BY FS_CardinalityType
  <1>4. T \in Parts(T, n)
    BY <1>3 DEF Parts
  <1>5. a[T] \in Int /\ b[T] = a[T] + (IF x \in T THEN h[x] - f[x] ELSE 0)
    BY <1>1, <1>2, <1>4, PartialChanges
  <1> QED BY <1>1, <1>2, <1>5

\* The sum of nothing but zeros.
LEMMA SumOfZeros ==
  ASSUME NEW T, IsFiniteSet(T)
  PROVE  SumFunction([y \in T |-> 0]) = 0
  <1> DEFINE f == [y \in T |-> 0]
  <1>1. PICK a : AddsUp(a, f, SUBSET T) /\ SumFunction(f) = a[T]
    BY SumIs
  <1>2. CASE T = {}
    BY <1>1, <1>2 DEF AddsUp
  <1>3. CASE T # {}
    <2> DEFINE S == {k \in Nat : \A s \in Parts(T, k) : a[s] = 0}
    <2>1. \A s \in SUBSET T : a[s] = IF s = {} THEN 0 ELSE f[First(s)] + a[s \ {First(s)}]
      BY <1>1 DEF AddsUp
    <2>2. \A s \in SUBSET T : IsFiniteSet(s) /\ Cardinality(s) \in Nat
      BY FS_Subset, FS_CardinalityType
    <2>3. 0 \in S
      <3>1. \A s \in Parts(T, 0) : s = {}
        BY <2>2, FS_EmptySet DEF Parts
      <3> QED BY <2>1, <3>1
    <2>4. ASSUME NEW k \in S PROVE k + 1 \in S
      <3>1. ASSUME NEW s \in Parts(T, k + 1), s # {} PROVE a[s] = 0
        <4>0. s \in SUBSET T /\ Cardinality(s) <= k + 1
          BY DEF Parts
        <4>1. First(s) \in s
          BY <3>1 DEF First
        <4>2. Cardinality(s \ {First(s)}) = Cardinality(s) - 1
          BY <2>2, <4>0, <4>1, FS_RemoveElement
        <4>3. s \ {First(s)} \in Parts(T, k)
          BY <2>2, <4>0, <4>2 DEF Parts
        <4>4. f[First(s)] = 0
          BY <4>0, <4>1
        <4>5. a[s \ {First(s)}] = 0
          BY <4>3
        <4>6. a[s] = f[First(s)] + a[s \ {First(s)}]
          BY <2>1, <3>1, <4>0, Zenon
        <4> HIDE DEF f
        <4> QED BY <4>4, <4>5, <4>6
      <3>2. k + 1 \in Nat /\ a[{}] = 0
        BY <2>1
      <3> QED BY <3>1, <3>2
    <2>5. S = Nat
      <3> HIDE DEF S
      <3>1. S \in SUBSET Nat
        BY DEF S
      <3> QED BY <2>3, <2>4, <3>1, CountUp
    <2>6. PICK n \in Nat : n = Cardinality(T)
      BY FS_CardinalityType
    <2>7. T \in Parts(T, n)
      BY <2>6 DEF Parts
    <2> QED BY <1>1, <2>5, <2>7
  <1> QED BY <1>2, <1>3

-----------------------------------------------------------------------------
(* One flow at a time *)

\* One process: a worker and no manual fill beside it, or the manual fill alone.
Alone == \A p, q \in Procs : p = q

\* A stock that is to be bought is not held.
BuysOnNothing ==
  \A o \in Orders : (orders[o].status = "pending" /\ orders[o].side = "buy") =>
    Position(orders, orders[o].stock) = 0

\* The account a session has loaded is the stored one, but for what its own fills have
\* moved.
KnowsCash(x, locked, view) ==
  /\ x.pc # "fill" => ~locked
  /\ (x.pc # "idle" /\ ~locked) => x.loaded = cash
  /\ x.pc \notin {"idle", "fill"} => x.now = cash
  /\ x.pc = "fill" => x.now = Ledger(view)

\* The positions a session has read are those of the table, with its own fills in.
KnowsPositions(x, view) ==
  /\ x.pc \in {"list", "fill"} => \A s \in Stocks : x.held[s] = Position(view, s)
  /\ x.pc = "fill" => \A o \in x.queue : view[o] = orders[o]
  /\ x.pc \in {"watch"} \cup Exiting => \A s \in x.stocks : x.held[s] = Position(orders, s)
  /\ x.pc \in Exiting =>
       x.selling \notin x.stocks /\ x.held[x.selling] = Position(orders, x.selling)
  /\ x.pc = "decide" =>
       /\ \A s \in Stocks : x.held[s] = Position(orders, s)
       /\ \A s \in x.wishes : x.held[s] = 0
       /\ \A i \in 1 .. Len(x.drafts) :
            x.drafts[i].side = "buy" => x.held[x.drafts[i].stock] = 0

Knows(p) ==
  /\ KnowsCash(local[p], accountLock = p, Committed(orders, p))
  /\ KnowsPositions(local[p], Committed(orders, p))

Booked == CashMatchesOrders /\ NeverOversold /\ BuysOnNothing

SoloInv == TradingInv /\ Booked /\ \A p \in Procs : Knows(p)

-----------------------------------------------------------------------------
(* What the totals of two tables have to do with each other *)

\* Rows and the totals are whole numbers.
LEMMA RowTotals ==
  ASSUME NEW row \in Row
  PROVE  Payment(row) \in Int /\ \A s : Shares(row, s) \in Int
  <1>1. row.qty \in Nat /\ row.fill_price \in Nat /\ Fee \in Nat
    BY TradingAssumption DEF Row
  <1>2. PICK gross \in Nat : gross = row.qty * row.fill_price
    BY <1>1
  <1> QED BY <1>1, <1>2 DEF Payment, Shares

\* There are finitely many ids.
LEMMA OrdersFinite == IsFiniteSet(Orders)
  BY FS_Interval, TradingAssumption DEF Orders

\* Tables with the same filled rows have the same totals.
LEMMA SameTotals ==
  ASSUME NEW a, NEW b,
         \A o \in Orders : (a[o].status = "filled" \/ b[o].status = "filled") => a[o] = b[o]
  PROVE  Ledger(a) = Ledger(b) /\ \A s : Position(a, s) = Position(b, s)
  <1>1. ASSUME NEW o \in Orders
        PROVE  Payment(a[o]) = Payment(b[o]) /\ \A s : Shares(a[o], s) = Shares(b[o], s)
    BY DEF Payment, Shares
  <1>2. [o \in Orders |-> Payment(a[o])] = [o \in Orders |-> Payment(b[o])]
    BY <1>1
  <1>3. ASSUME NEW s
        PROVE  [o \in Orders |-> Shares(a[o], s)] = [o \in Orders |-> Shares(b[o], s)]
    BY <1>1
  <1> QED BY <1>2, <1>3, Zenon DEF Ledger, Position

\* One order more that is filled adds what it pays and what it moves.
LEMMA OneFill ==
  ASSUME NEW a \in [Orders -> Row], NEW b \in [Orders -> Row], NEW x \in Orders,
         a[x].status # "filled",
         \A o \in Orders \ {x} : (a[o].status = "filled" \/ b[o].status = "filled") => a[o] = b[o]
  PROVE  /\ Ledger(a) \in Int /\ Ledger(b) = Ledger(a) + Payment(b[x])
         /\ \A s : /\ Position(a, s) \in Int
                   /\ Position(b, s) = Position(a, s) + Shares(b[x], s)
  <1>1. ASSUME NEW o \in Orders \ {x}
        PROVE  Payment(a[o]) = Payment(b[o]) /\ \A s : Shares(a[o], s) = Shares(b[o], s)
    BY DEF Payment, Shares
  <1>2. Payment(a[x]) = 0 /\ \A s : Shares(a[x], s) = 0
    BY DEF Payment, Shares
  <1>3. /\ Ledger(a) \in Int /\ Ledger(b) = Ledger(a) + Payment(b[x])
    <2>1. PICK f \in [Orders -> Int] : f = [o \in Orders |-> Payment(a[o])]
      BY RowTotals
    <2>2. PICK h \in [Orders -> Int] : h = [o \in Orders |-> Payment(b[o])]
      BY RowTotals
    <2>3. \A o \in Orders \ {x} : h[o] = f[o]
      BY <1>1, <2>1, <2>2
    <2>4. SumFunction(f) \in Int /\ SumFunction(h) = SumFunction(f) + h[x] - f[x]
      BY <2>3, OrdersFinite, SumChanges, Zenon
    <2>5. f[x] = 0 /\ h[x] = Payment(b[x]) /\ h[x] \in Int
      BY <1>2, <2>1, <2>2
    <2>6. Ledger(a) = InitialCash + SumFunction(f) /\ Ledger(b) = InitialCash + SumFunction(h)
      BY <2>1, <2>2, Zenon DEF Ledger
    <2>7. InitialCash \in Int
      BY TradingAssumption
    <2> QED BY <2>4, <2>5, <2>6, <2>7
  <1>4. ASSUME NEW s
        PROVE  Position(a, s) \in Int /\ Position(b, s) = Position(a, s) + Shares(b[x], s)
    <2>1. PICK f \in [Orders -> Int] : f = [o \in Orders |-> Shares(a[o], s)]
      BY RowTotals
    <2>2. PICK h \in [Orders -> Int] : h = [o \in Orders |-> Shares(b[o], s)]
      BY RowTotals
    <2>3. \A o \in Orders \ {x} : h[o] = f[o]
      BY <1>1, <2>1, <2>2
    <2>4. SumFunction(f) \in Int /\ SumFunction(h) = SumFunction(f) + h[x] - f[x]
      BY <2>3, OrdersFinite, SumChanges, Zenon
    <2>5. f[x] = 0 /\ h[x] = Shares(b[x], s) /\ h[x] \in Int
      BY <1>2, <2>1, <2>2
    <2>6. Position(a, s) = SumFunction(f) /\ Position(b, s) = SumFunction(h)
      BY <2>1, <2>2, Zenon DEF Position
    <2> QED BY <2>4, <2>5, <2>6
  <1> QED BY <1>3, <1>4

\* Totals are whole numbers.
LEMMA TotalsType ==
  ASSUME NEW a \in [Orders -> Row]
  PROVE  Ledger(a) \in Int /\ \A s : Position(a, s) \in Int
  <1>1. CASE Orders = {}
    <2>1. [o \in Orders |-> Payment(a[o])] = [o \in Orders |-> 0]
      BY <1>1
    <2>2. \A s : [o \in Orders |-> Shares(a[o], s)] = [o \in Orders |-> 0]
      BY <1>1
    <2>3. SumFunction([o \in Orders |-> 0]) = 0
      BY OrdersFinite, SumOfZeros, Zenon
    <2>4. InitialCash \in Int
      BY TradingAssumption
    <2>5. Ledger(a) = InitialCash + 0 /\ \A s : Position(a, s) = 0
      BY <2>1, <2>2, <2>3, Zenon DEF Ledger, Position
    <2> QED BY <2>4, <2>5
  <1>2. CASE Orders # {}
    <2>1. PICK x \in Orders : TRUE
      BY <1>2
    <2>2. PICK f \in [Orders -> Int] : f = [o \in Orders |-> Payment(a[o])]
      BY RowTotals
    <2>3. SumFunction(f) \in Int
      BY <2>1, OrdersFinite, SumChanges, Zenon
    <2>4. Ledger(a) = InitialCash + SumFunction(f)
      BY <2>2, Zenon DEF Ledger
    <2>6. InitialCash \in Int
      BY TradingAssumption
    <2>5. ASSUME NEW s PROVE Position(a, s) \in Int
      <3>1. PICK h \in [Orders -> Int] : h = [o \in Orders |-> Shares(a[o], s)]
        BY RowTotals
      <3>2. SumFunction(h) \in Int
        BY <2>1, OrdersFinite, SumChanges, Zenon
      <3> QED BY <3>1, <3>2, Zenon DEF Position
    <2> QED BY <2>3, <2>4, <2>5, <2>6
  <1> QED BY <1>1, <1>2

-----------------------------------------------------------------------------
(* The account while one flow runs *)

\* What SoloInv says of one process.
LEMMA OfSolo ==
  ASSUME SoloInv, NEW p \in Procs
  PROVE  /\ TradingInv
         /\ orders \in [Orders -> Row] /\ cash \in Int /\ cash = Ledger(orders)
         /\ local[p] \in Session /\ SessionOK(local[p], tx[p])
         /\ tx[p] \in [Orders -> Row]
         /\ KnowsCash(local[p], accountLock = p, Committed(orders, p))
         /\ KnowsPositions(local[p], Committed(orders, p))
         /\ \A s \in Stocks : Position(orders, s) \in Nat
  <1>1. TradingInv /\ Knows(p) /\ NeverOversold
    BY DEF SoloInv, Booked
  <1>2. orders \in [Orders -> Row] /\ cash \in Int /\ cash = Ledger(orders)
    BY <1>1 DEF TradingInv, TypeOK, SoloInv, Booked, CashMatchesOrders
  <1>3. \A s \in Stocks : Position(orders, s) \in Nat
    BY <1>1, <1>2, TotalsType DEF NeverOversold
  <1> QED BY <1>1, <1>2, <1>3, OfProcess DEF Knows

\* A transaction that has written nothing sees the table.
LEMMA NothingWritten ==
  ASSUME TradingInv, NEW p \in Procs, \A o \in Orders : tx[p][o].status = "absent"
  PROVE  Committed(orders, p) = orders
  BY DEF TradingInv, TypeOK, Committed, Wrote

\* A step that commits nothing: what the one session knows is all there is to know.
LEMMA SoloMove ==
  ASSUME Alone, SoloInv, TradingInv', NEW p \in Procs, NEW s, Goto(p, s),
         UNCHANGED <<orders, cash>>, NEW v, Committed(orders, p)' = v,
         KnowsCash(s, (accountLock = p)', v), KnowsPositions(s, v)
  PROVE  SoloInv'
  <1>1. Booked'
    BY DEF SoloInv, Booked, CashMatchesOrders, NeverOversold, BuysOnNothing
  <1>2. \A q \in Procs : q = p
    BY DEF Alone
  <1>3. local'[p] = s
    BY DEF Goto, SoloInv, TradingInv, TypeOK
  <1>4. KnowsCash(local[p], accountLock = p, Committed(orders, p))'
    BY <1>3 DEF KnowsCash
  <1>5. KnowsPositions(local[p], Committed(orders, p))'
    BY <1>3 DEF KnowsPositions
  <1> QED BY <1>1, <1>2, <1>4, <1>5 DEF SoloInv, Knows

\* Such a step that writes nothing either.
LEMMA SoloReads ==
  ASSUME Alone, SoloInv, TradingInv', NEW p \in Procs, NEW s, Goto(p, s),
         UNCHANGED <<orders, cash, tx>>,
         KnowsCash(s, (accountLock = p)', Committed(orders, p)),
         KnowsPositions(s, Committed(orders, p))
  PROVE  SoloInv'
  <1>1. PICK v : v = Committed(orders, p)
    OBVIOUS
  <1>2. Committed(orders, p)' = v
    BY <1>1 DEF Committed, Wrote
  <1> QED BY <1>1, <1>2, SoloMove

\* The session is over: it knows nothing, and its locks are gone.
LEMMA SoloEnds ==
  ASSUME Alone, SoloInv, TradingInv', NEW p \in Procs, Goto(p, Fresh),
         UNCHANGED <<orders, cash>>, accountLock' # p
  PROVE  SoloInv'
  <1>1. PICK v : Committed(orders, p)' = v
    OBVIOUS
  <1>2. Fresh.pc = "idle"
    BY DEF Fresh
  <1>3. KnowsCash(Fresh, (accountLock = p)', v) /\ KnowsPositions(Fresh, v)
    BY <1>2 DEF KnowsCash, KnowsPositions, Exiting
  <1> QED BY <1>1, <1>3, SoloMove

\* A rollback gives the lock of the account back.
LEMMA LockGone ==
  ASSUME TradingInv, NEW p \in Procs, Rollback(p)
  PROVE  accountLock' # p
  BY TradingAssumption DEF Rollback, Procs

\* A flow begins with the account as it is stored.
LEMMA SoloBegin ==
  ASSUME Alone, SoloInv, TradingInv', NEW p \in Procs, Begin(p)
  PROVE  SoloInv'
  <1>1. PICK pc \in {"recover", "look", "weigh"} : LoadAccount(p, pc)
    BY DEF Begin, BeginFill, BeginSentinel, BeginDecide
  <1>2. PICK s : s = [Fresh EXCEPT !.pc = pc, !.loaded = cash, !.now = cash]
    OBVIOUS
  <1>3. s.pc = pc /\ s.loaded = cash /\ s.now = cash
    BY <1>2 DEF Fresh
  <1>4. accountLock # p
    BY <1>1, OfSolo DEF KnowsCash, LoadAccount
  <1>5. /\ Goto(p, s) /\ UNCHANGED <<orders, cash, tx, accountLock>>
    BY <1>1, <1>2 DEF LoadAccount, table, locks
  <1>6. KnowsCash(s, (accountLock = p)', Committed(orders, p))
    BY <1>3, <1>4, <1>5 DEF KnowsCash
  <1>7. KnowsPositions(s, Committed(orders, p))
    <2>1. s.pc \notin {"list", "fill", "watch", "decide", "exit", "conflict", "exit again"}
      BY <1>3
    <2> QED BY <2>1 DEF KnowsPositions, Exiting
  <1> QED BY <1>5, <1>6, <1>7, SoloReads

\* What current_positions reads is what the orders add up to: there is no short position.
LEMMA ReadPositions ==
  ASSUME SoloInv, NEW p \in Procs
  PROVE  \A s \in Stocks : Positions(orders)[s] = Position(orders, s)
  BY OfSolo DEF Positions

\* The steps that read.
LEMMA SoloRead ==
  ASSUME Alone, SoloInv, TradingInv', NEW p \in Procs,
         \/ FillReplay(p) \/ FillList(p) \/ SentinelReplay(p)
         \/ DecideReplay(p) \/ DecideSkip(p)
         \/ \E o \in Orders : FillMissed(p, o)
  PROVE  SoloInv'
  <1>0. /\ local[p] \in Session /\ SessionOK(local[p], tx[p])
        /\ cash = Ledger(orders)
        /\ KnowsCash(local[p], accountLock = p, Committed(orders, p))
        /\ KnowsPositions(local[p], Committed(orders, p))
        /\ UNCHANGED <<orders, cash, tx, accountLock>>
        /\ TradingInv
    BY OfSolo DEF FillReplay, FillList, SentinelReplay, DecideReplay, DecideSkip, FillMissed,
      table, locks
  <1>1. local[p].pc # "fill" /\ local[p].pc \notin Exiting => Committed(orders, p) = orders
    BY <1>0, NothingWritten DEF SessionOK
  <1>2. PICK held : held = Positions(orders)
    OBVIOUS
  <1>3. \A x \in Stocks : held[x] = Position(orders, x)
    BY <1>2, ReadPositions
  <1>4. CASE FillReplay(p)
    <2>1. PICK s : s = [local[p] EXCEPT !.pc = "list", !.held = held]
      OBVIOUS
    <2>2. /\ s.pc = "list" /\ s.held = held /\ s.loaded = local[p].loaded
          /\ s.now = local[p].now
      BY <1>0, <2>1 DEF Session
    <2>3. local[p].pc = "replay" /\ Goto(p, s)
      BY <1>2, <1>4, <2>1 DEF FillReplay
    <2>4. KnowsCash(s, (accountLock = p)', Committed(orders, p))
      BY <1>0, <2>2, <2>3 DEF KnowsCash
    <2>5. KnowsPositions(s, Committed(orders, p))
      BY <1>1, <1>3, <2>2, <2>3 DEF KnowsPositions, Exiting
    <2> QED BY <1>0, <2>3, <2>4, <2>5, SoloReads
  <1>5. CASE FillList(p)
    <2>1. PICK s : s = [local[p] EXCEPT !.pc = "fill",
                          !.queue = {o \in Orders : orders[o].status = "pending"}]
      BY Zenon
    <2>2. /\ s.pc = "fill" /\ s.held = local[p].held /\ s.loaded = local[p].loaded
          /\ s.now = local[p].now /\ s.queue \subseteq Orders
      BY <1>0, <2>1 DEF Session
    <2>3. local[p].pc = "list" /\ Goto(p, s)
      BY <1>5, <2>1 DEF FillList
    <2>4. KnowsCash(s, (accountLock = p)', Committed(orders, p))
      BY <1>0, <1>1, <2>2, <2>3 DEF KnowsCash, Exiting
    <2>5. KnowsPositions(s, Committed(orders, p))
      BY <1>0, <1>1, <2>2, <2>3 DEF KnowsPositions, Exiting
    <2> QED BY <1>0, <2>3, <2>4, <2>5, SoloReads
  <1>6. CASE SentinelReplay(p)
    <2>1. PICK s : s = [local[p] EXCEPT !.pc = "watch", !.held = held,
                                        !.stocks = {x \in Stocks : held[x] > 0}]
      BY Zenon
    <2>2. /\ s.pc = "watch" /\ s.held = held /\ s.loaded = local[p].loaded
          /\ s.now = local[p].now /\ s.stocks \subseteq Stocks
      BY <1>0, <2>1 DEF Session
    <2>3. local[p].pc = "look" /\ Goto(p, s)
      BY <1>2, <1>6, <2>1 DEF SentinelReplay
    <2>4. KnowsCash(s, (accountLock = p)', Committed(orders, p))
      BY <1>0, <2>2, <2>3 DEF KnowsCash
    <2>5. KnowsPositions(s, Committed(orders, p))
      BY <1>3, <2>2 DEF KnowsPositions, Exiting
    <2> QED BY <1>0, <2>3, <2>4, <2>5, SoloReads
  <1>7. CASE DecideReplay(p)
    <2>1. PICK s : s = [local[p] EXCEPT !.pc = "decide", !.held = held, !.stocks = Stocks]
      OBVIOUS
    <2>2. /\ s.pc = "decide" /\ s.held = held /\ s.loaded = local[p].loaded
          /\ s.now = local[p].now /\ s.wishes = local[p].wishes /\ s.drafts = local[p].drafts
      BY <1>0, <2>1 DEF Session
    <2>3. local[p].pc = "weigh" /\ Goto(p, s)
      BY <1>2, <1>7, <2>1 DEF DecideReplay
    <2>4. KnowsCash(s, (accountLock = p)', Committed(orders, p))
      BY <1>0, <2>2, <2>3 DEF KnowsCash
    <2>5. s.wishes = {} /\ s.drafts = <<>> /\ Len(<<>>) = 0
      BY <1>0, <2>2, <2>3 DEF SessionOK
    <2>6. KnowsPositions(s, Committed(orders, p))
      BY <1>3, <2>2, <2>5 DEF KnowsPositions, Exiting
    <2> QED BY <1>0, <2>3, <2>4, <2>6, SoloReads
  <1>8. CASE DecideSkip(p)
    <2>1. PICK s : s = [local[p] EXCEPT !.stocks = {}]
      OBVIOUS
    <2>2. /\ s.pc = local[p].pc /\ s.held = local[p].held /\ s.loaded = local[p].loaded
          /\ s.now = local[p].now /\ s.wishes = local[p].wishes /\ s.drafts = local[p].drafts
      BY <1>0, <2>1 DEF Session
    <2>3. local[p].pc = "decide" /\ Goto(p, s)
      BY <1>8, <2>1 DEF DecideSkip
    <2>4. KnowsCash(s, (accountLock = p)', Committed(orders, p))
      BY <1>0, <2>2, <2>3 DEF KnowsCash
    <2>5. KnowsPositions(s, Committed(orders, p))
      BY <1>0, <2>2, <2>3 DEF KnowsPositions, Exiting
    <2> QED BY <1>0, <2>3, <2>4, <2>5, SoloReads
  <1>9. CASE \E o \in Orders : FillMissed(p, o)
    <2>0. PICK o \in Orders : FillMissed(p, o)
      BY <1>9
    <2>1. PICK s : s = Done(p, o)
      OBVIOUS
    <2>2. /\ s.pc = local[p].pc /\ s.held = local[p].held /\ s.loaded = local[p].loaded
          /\ s.now = local[p].now /\ s.queue \subseteq local[p].queue
      BY <1>0, <2>1 DEF Session, Done
    <2>3. local[p].pc = "fill" /\ Goto(p, s)
      BY <2>0, <2>1 DEF FillMissed
    <2>4. KnowsCash(s, (accountLock = p)', Committed(orders, p))
      BY <1>0, <2>2, <2>3 DEF KnowsCash
    <2>5. KnowsPositions(s, Committed(orders, p))
      BY <1>0, <2>2, <2>3 DEF KnowsPositions, Exiting
    <2> QED BY <1>0, <2>3, <2>4, <2>5, SoloReads
  <1> QED BY <1>4, <1>5, <1>6, <1>7, <1>8, <1>9

\* The steps of a decision run before its COMMIT.
LEMMA SoloDecides ==
  ASSUME Alone, SoloInv, TradingInv', NEW p \in Procs,
         DecideSell(p) \/ DecideWish(p) \/ DecideSize(p)
  PROVE  SoloInv'
  <1>0. /\ local[p] \in Session /\ SessionOK(local[p], tx[p])
        /\ local[p].pc = "decide"
        /\ KnowsCash(local[p], accountLock = p, Committed(orders, p))
        /\ KnowsPositions(local[p], Committed(orders, p))
        /\ UNCHANGED <<orders, cash, tx, accountLock>>
        /\ local[p].drafts \in Seq(Drafts)
    <2>1. local[p].pc = "decide" /\ UNCHANGED <<table, locks>>
      BY Zenon DEF DecideSell, DecideWish, DecideSize
    <2> QED BY <2>1, OfSolo DEF table, locks, Session
  <1>1. /\ \A s \in Stocks : local[p].held[s] = Position(orders, s)
        /\ \A s \in local[p].wishes : local[p].held[s] = 0
        /\ \A i \in 1 .. Len(local[p].drafts) :
             local[p].drafts[i].side = "buy" => local[p].held[local[p].drafts[i].stock] = 0
    BY <1>0 DEF KnowsPositions
  <1>2. ASSUME NEW s, Goto(p, s), s.pc = "decide", s.held = local[p].held,
               s.loaded = local[p].loaded, s.now = local[p].now,
               s.wishes \subseteq local[p].wishes \cup {x \in Stocks : local[p].held[x] = 0},
               \A i \in 1 .. Len(s.drafts) :
                 s.drafts[i].side = "buy" => local[p].held[s.drafts[i].stock] = 0
        PROVE  SoloInv'
    <2>1. KnowsCash(s, (accountLock = p)', Committed(orders, p))
      BY <1>0, <1>2 DEF KnowsCash
    <2>2. KnowsPositions(s, Committed(orders, p))
      BY <1>1, <1>2 DEF KnowsPositions, Exiting
    <2> QED BY <1>0, <1>2, <2>1, <2>2, SoloReads
  <1>3. ASSUME NEW d \in Drafts, d.side = "buy" => local[p].held[d.stock] = 0
        PROVE  \A i \in 1 .. Len(Append(local[p].drafts, d)) :
                 Append(local[p].drafts, d)[i].side = "buy" =>
                   local[p].held[Append(local[p].drafts, d)[i].stock] = 0
    <2>1. PICK ds \in Seq(Drafts) : ds = local[p].drafts
      BY <1>0
    <2>2. ASSUME NEW i \in 1 .. Len(Append(ds, d))
          PROVE  (i \in 1 .. Len(ds) /\ Append(ds, d)[i] = ds[i]) \/ Append(ds, d)[i] = d
      OBVIOUS
    <2> QED BY <1>1, <1>3, <2>1, <2>2
  <1>4. CASE DecideSell(p)
    <2>1. PICK x \in local[p].stocks :
            /\ local[p].held[x] > 0
            /\ Goto(p, [local[p] EXCEPT !.stocks = @ \ {x},
                          !.drafts = Append(@, Draft(x, "sell", local[p].held[x]))])
      BY <1>4, Zenon DEF DecideSell
    <2>2. PICK d : d = Draft(x, "sell", local[p].held[x])
      OBVIOUS
    <2>3. d \in Drafts /\ d.side = "sell"
      BY <1>0, <2>1, <2>2 DEF Draft, Drafts, Session
    <2>4. PICK s : s = [local[p] EXCEPT !.stocks = @ \ {x}, !.drafts = Append(@, d)]
      OBVIOUS
    <2>5. /\ s.pc = "decide" /\ s.held = local[p].held /\ s.loaded = local[p].loaded
          /\ s.now = local[p].now /\ s.wishes = local[p].wishes
          /\ s.drafts = Append(local[p].drafts, d)
      BY <1>0, <2>4 DEF Session
    <2>6. Goto(p, s)
      BY <2>1, <2>2, <2>4, Zenon
    <2> QED BY <1>2, <1>3, <2>3, <2>5, <2>6
  <1>5. CASE DecideWish(p)
    <2>1. PICK x \in local[p].stocks :
            /\ local[p].held[x] = 0
            /\ Goto(p, [local[p] EXCEPT !.stocks = @ \ {x}, !.wishes = @ \cup {x}])
      BY <1>5, Zenon DEF DecideWish
    <2>2. x \in Stocks
      BY <1>0, <2>1 DEF Session
    <2>4. PICK s : s = [local[p] EXCEPT !.stocks = @ \ {x}, !.wishes = @ \cup {x}]
      OBVIOUS
    <2>5. /\ s.pc = "decide" /\ s.held = local[p].held /\ s.loaded = local[p].loaded
          /\ s.now = local[p].now /\ s.wishes = local[p].wishes \cup {x}
          /\ s.drafts = local[p].drafts
      BY <1>0, <2>4 DEF Session
    <2> QED BY <1>1, <1>2, <2>1, <2>2, <2>4, <2>5
  <1>6. CASE DecideSize(p)
    <2>1. PICK x \in local[p].wishes, qty \in 0 .. MaxQty :
            LET rest == [local[p] EXCEPT !.wishes = @ \ {x}]
            IN  \/ qty = 0 /\ Goto(p, rest)
                \/ /\ qty > 0
                   /\ Goto(p, [rest EXCEPT !.drafts = Append(@, Draft(x, "buy", qty))])
      BY <1>6, Zenon DEF DecideSize
    <2>2. PICK rest : rest = [local[p] EXCEPT !.wishes = @ \ {x}]
      OBVIOUS
    <2>3. /\ rest.pc = "decide" /\ rest.held = local[p].held
          /\ rest.loaded = local[p].loaded
          /\ rest.now = local[p].now /\ rest.wishes \subseteq local[p].wishes
          /\ rest.drafts = local[p].drafts
          /\ rest \in Session
      BY <1>0, <2>2 DEF Session
    <2>4. CASE qty = 0 /\ Goto(p, rest)
      BY <1>1, <1>2, <2>3, <2>4
    <2>5. CASE qty > 0 /\ Goto(p, [rest EXCEPT !.drafts = Append(@, Draft(x, "buy", qty))])
      <3>1. PICK d : d = Draft(x, "buy", qty)
        OBVIOUS
      <3>2. d \in Drafts /\ d.side = "buy" /\ d.stock = x
        <4>1. MaxQty \in Nat /\ x \in Stocks
          BY <1>0, TradingAssumption DEF Session
        <4> QED BY <2>5, <3>1, <4>1 DEF Draft, Drafts
      <3>3. local[p].held[x] = 0
        BY <1>1
      <3>4. PICK s : s = [rest EXCEPT !.drafts = Append(@, d)]
        OBVIOUS
      <3>5. /\ s.pc = "decide" /\ s.held = local[p].held /\ s.loaded = local[p].loaded
            /\ s.now = local[p].now /\ s.wishes \subseteq local[p].wishes
            /\ s.drafts = Append(local[p].drafts, d)
        BY <2>3, <3>4 DEF Session
      <3>6. Goto(p, s)
        BY <2>5, <3>1, <3>4, Zenon
      <3> QED BY <1>2, <1>3, <3>2, <3>3, <3>5, <3>6
    <2> QED BY <2>1, <2>2, <2>4, <2>5
  <1> QED BY <1>4, <1>5, <1>6

\* A claimed order, in the eyes of the transaction that writes it.
LEMMA WrittenView ==
  ASSUME TradingInv, NEW p \in Procs, NEW o \in Orders, NEW row \in Row,
         row.status # "absent", Write(p, o, row), UNCHANGED orders
  PROVE  /\ Committed(orders, p) \in [Orders -> Row]
         /\ Committed(orders, p)' \in [Orders -> Row]
         /\ Committed(orders, p)'[o] = row
         /\ \A x \in Orders \ {o} : Committed(orders, p)'[x] = Committed(orders, p)[x]
  <1>1. tx[p] \in [Orders -> Row] /\ orders \in [Orders -> Row]
    BY OfProcess DEF TradingInv, TypeOK
  <1>2. Committed(orders, p) \in [Orders -> Row]
    BY <1>1 DEF Committed
  <1>3. tx'[p] = [tx[p] EXCEPT ![o] = row]
    BY DEF Write, TradingInv, TypeOK
  <1>4. \A x \in Orders : Committed(orders, p)'[x]
                            = IF tx'[p][x].status # "absent" THEN tx'[p][x] ELSE orders[x]
    BY DEF Committed, Wrote
  <1>5. \A x \in Orders : Committed(orders, p)[x]
                            = IF tx[p][x].status # "absent" THEN tx[p][x] ELSE orders[x]
    BY DEF Committed, Wrote
  <1>6. tx'[p][o] = row /\ \A x \in Orders \ {o} : tx'[p][x] = tx[p][x]
    BY <1>1, <1>3
  <1>7. Committed(orders, p)' \in [Orders -> Row]
    <2>1. \A x \in Orders : Committed(orders, p)'[x] \in Row
      BY <1>1, <1>4, <1>6
    <2>2. Committed(orders, p)' = [x \in Orders |-> Committed(orders, p)'[x]]
      BY DEF Committed
    <2> QED BY <2>1, <2>2
  <1> QED BY <1>2, <1>4, <1>5, <1>6, <1>7

\* A claimed order goes back, or is rejected, and the account is as before.
LEMMA SoloPutsBack ==
  ASSUME Alone, SoloInv, TradingInv', NEW p \in Procs, NEW o \in Orders, Claim(p, o),
         NEW row \in Row, row.status \in {"pending", "rejected"}, Write(p, o, row),
         NEW s, Goto(p, s), s.pc = "fill", s.now = local[p].now, s.held = local[p].held,
         s.queue = local[p].queue \ {o}, UNCHANGED <<orders, cash>>,
         accountLock' # p => s.loaded = cash
  PROVE  SoloInv'
  <1>0. /\ KnowsCash(local[p], accountLock = p, Committed(orders, p))
        /\ KnowsPositions(local[p], Committed(orders, p))
        /\ local[p].pc = "fill" /\ TradingInv /\ o \in local[p].queue
        /\ local[p].queue \subseteq Orders
    BY OfSolo DEF Claim, Next1st, Session
  <1>1. PICK v : v = Committed(orders, p)
    OBVIOUS
  <1>2. PICK w : w = Committed(orders, p)'
    OBVIOUS
  <1>3. /\ v \in [Orders -> Row] /\ w \in [Orders -> Row]
        /\ w[o] = row /\ \A x \in Orders \ {o} : w[x] = v[x]
    BY <1>0, <1>1, <1>2, WrittenView
  <1>4. v[o] = orders[o] /\ orders[o].status = "pending"
    BY <1>0, <1>1 DEF Claim, KnowsPositions
  <1>5. Ledger(w) = Ledger(v) /\ \A y : Position(w, y) = Position(v, y)
    BY <1>3, <1>4, SameTotals
  <1>6. KnowsCash(s, (accountLock = p)', w)
    BY <1>0, <1>1, <1>5 DEF KnowsCash
  <1>7. KnowsPositions(s, w)
    BY <1>0, <1>1, <1>3, <1>5 DEF KnowsPositions, Exiting
  <1> QED BY <1>2, <1>6, <1>7, SoloMove

\* The session that has filled order o as row.
AfterFill(p, o, row, s) ==
  /\ s.pc = "fill" /\ s.loaded = local[p].loaded /\ s.queue = local[p].queue \ {o}
  /\ s.now = local[p].now + Payment(row)
  /\ \A x \in Stocks : s.held[x] = local[p].held[x] + Shares(row, x)

\* An order is filled: the session's cash moves by what it pays, its positions by its shares.
LEMMA SoloFills ==
  ASSUME Alone, SoloInv, TradingInv', NEW p \in Procs, NEW o \in Orders, Claim(p, o),
         NEW row \in Row, row.status = "filled", row.stock \in Stocks, Write(p, o, row),
         NEW s, Goto(p, s), AfterFill(p, o, row, s), UNCHANGED <<orders, cash, accountLock>>
  PROVE  SoloInv'
  <1>0. /\ KnowsCash(local[p], accountLock = p, Committed(orders, p))
        /\ KnowsPositions(local[p], Committed(orders, p))
        /\ local[p].pc = "fill" /\ TradingInv /\ o \in local[p].queue
        /\ local[p].queue \subseteq Orders
    BY OfSolo DEF Claim, Next1st, Session
  <1>1. PICK v : v = Committed(orders, p)
    OBVIOUS
  <1>2. PICK w : w = Committed(orders, p)'
    OBVIOUS
  <1>3. /\ v \in [Orders -> Row] /\ w \in [Orders -> Row]
        /\ w[o] = row /\ \A x \in Orders \ {o} : w[x] = v[x]
    BY <1>0, <1>1, <1>2, WrittenView
  <1>4. v[o] = orders[o] /\ orders[o].status = "pending"
    BY <1>0, <1>1 DEF Claim, KnowsPositions
  <1>5. /\ Ledger(w) = Ledger(v) + Payment(row)
        /\ \A y : Position(w, y) = Position(v, y) + Shares(row, y)
    BY <1>3, <1>4, OneFill
  <1>6. KnowsCash(s, (accountLock = p)', w)
    BY <1>0, <1>1, <1>5 DEF KnowsCash, AfterFill
  <1>7. KnowsPositions(s, w)
    BY <1>0, <1>1, <1>3, <1>5 DEF KnowsPositions, Exiting, AfterFill
  <1> QED BY <1>2, <1>6, <1>7, SoloMove

\* Whatever becomes of a claimed order.
LEMMA SoloFillStep ==
  ASSUME Alone, SoloInv, TradingInv', NEW p \in Procs, NEW o \in Orders,
         \/ FillWait(p, o) \/ FillBuy(p, o) \/ FillRejectBuy(p, o)
         \/ FillSell(p, o) \/ FillRejectSell(p, o)
  PROVE  SoloInv'
  <1>0. TradingInv /\ KnowsCash(local[p], accountLock = p, Committed(orders, p))
    BY OfSolo
  <1>1. Claim(p, o)
    BY DEF FillWait, FillBuy, FillRejectBuy, FillSell, FillRejectSell
  <1>2. /\ orders[o] \in Row
        /\ orders[o].status = "pending"
        /\ orders[o].qty \in Nat
        /\ orders[o].stock \in Stocks
        /\ open[o] \in Nat
        /\ local[p] \in Session
        /\ local[p].pc = "fill"
        /\ Rejected(orders[o]) \in Row
        /\ Done(p, o) \in Session
    BY <1>0, <1>1, Claimed
  <1>3. UNCHANGED <<orders, cash>>
    BY DEF FillWait, FillBuy, FillRejectBuy, FillSell, FillRejectSell, table
  <1>4. /\ Done(p, o).pc = "fill"
        /\ Done(p, o).now = local[p].now
        /\ Done(p, o).loaded = local[p].loaded
        /\ Done(p, o).held = local[p].held
        /\ Done(p, o).queue = local[p].queue \ {o}
    BY <1>2 DEF Done, Session
  <1>5. ASSUME NEW qty \in Nat, NEW price \in Nat, NEW row, row = FilledAt(orders[o], qty, price)
        PROVE  /\ row \in Row /\ row.status = "filled" /\ row.stock = orders[o].stock
               /\ row.side = orders[o].side /\ row.qty = qty /\ row.fill_price = price
    BY <1>2, <1>5 DEF FilledAt, Row, Settled
  <1>6. (accountLock # p) => local[p].loaded = cash
    BY <1>0, <1>2 DEF KnowsCash
  <1>7. CASE FillWait(p, o)
    <2>1. PICK s : s = [Done(p, o) EXCEPT !.loaded = local[p].now]
      OBVIOUS
    <2>2. /\ s.pc = "fill" /\ s.now = local[p].now /\ s.loaded = local[p].now
          /\ s.held = local[p].held /\ s.queue = local[p].queue \ {o}
      BY <1>2, <1>4, <2>1 DEF Session
    <2>3. PICK row : row = Restored(p, o)
      OBVIOUS
    <2>4. row \in Row /\ row.status \in {"pending", "rejected"}
      BY <1>2, <2>3 DEF Restored, Rejected, Row
    <2>5. Goto(p, s) /\ Write(p, o, row)
      BY <1>7, <2>1, <2>3 DEF FillWait
    <2>6. accountLock' # p => s.loaded = cash
      BY <1>6, <1>7, <2>2 DEF FillWait, LockAfterFlush, Dirty
    <2> QED BY <1>1, <1>3, <2>2, <2>4, <2>5, <2>6, SoloPutsBack
  <1>8. CASE FillRejectBuy(p, o) \/ FillRejectSell(p, o)
    <2>1. Goto(p, Done(p, o)) /\ Write(p, o, Rejected(orders[o])) /\ UNCHANGED accountLock
      BY <1>8 DEF FillRejectBuy, FillRejectSell
    <2>2. Rejected(orders[o]).status = "rejected"
      BY <1>2 DEF Rejected, Row
    <2> QED BY <1>1, <1>2, <1>3, <1>4, <1>6, <2>1, <2>2, SoloPutsBack
  <1>9. CASE FillBuy(p, o)
    <2>1. PICK qty \in 1 .. orders[o].qty :
            /\ Write(p, o, FilledAt(orders[o], qty, open[o]))
            /\ Goto(p, [Done(p, o) EXCEPT !.now = @ - Cost(qty, open[o]),
                                          !.held[orders[o].stock] = @ + qty])
      BY <1>9 DEF FillBuy
    <2>2. qty \in Nat /\ orders[o].side = "buy" /\ UNCHANGED accountLock
      <3>1. orders[o].side = "buy" /\ UNCHANGED accountLock
        BY <1>9 DEF FillBuy
      <3> QED BY <1>2, <2>1, <3>1
    <2>3. PICK row : row = FilledAt(orders[o], qty, open[o])
      OBVIOUS
    <2>4. /\ row \in Row /\ row.status = "filled" /\ row.stock = orders[o].stock
          /\ row.side = "buy" /\ row.qty = qty /\ row.fill_price = open[o]
      BY <1>2, <1>5, <2>2, <2>3
    <2>5. PICK gross \in Nat : gross = qty * open[o]
      BY <1>2, <2>2
    <2>6. Payment(row) = -gross - Fee /\ Cost(qty, open[o]) = gross + Fee
      BY <2>4, <2>5 DEF Payment, Cost
    <2>7. local[p].now - Cost(qty, open[o]) = local[p].now + Payment(row)
      <3>1. Fee \in Nat /\ local[p].now \in Int
        BY <1>2, TradingAssumption DEF Session
      <3> QED BY <2>6, <3>1
    <2>8. PICK s : s = [Done(p, o) EXCEPT !.now = @ - Cost(qty, open[o]),
                                          !.held[orders[o].stock] = @ + qty]
      OBVIOUS
    <2>9. /\ s.pc = "fill" /\ s.now = local[p].now - Cost(qty, open[o])
          /\ s.loaded = local[p].loaded /\ s.queue = local[p].queue \ {o}
          /\ s.held = [local[p].held EXCEPT ![orders[o].stock] = @ + qty]
      BY <1>2, <1>4, <2>8 DEF Session
    <2>10. \A x \in Stocks : s.held[x] = local[p].held[x] + Shares(row, x)
      <3>1. local[p].held \in [Stocks -> Nat]
        BY <1>2 DEF Session
      <3> QED BY <2>2, <2>4, <2>9, <3>1 DEF Shares
    <2>11. Goto(p, s) /\ Write(p, o, row)
      BY <2>1, <2>3, <2>8, Zenon
    <2>12. row.stock \in Stocks /\ s.now = local[p].now + Payment(row)
      BY <1>2, <2>4, <2>7, <2>9
    <2>13. AfterFill(p, o, row, s)
      BY <2>9, <2>12, <2>10 DEF AfterFill
    <2> QED BY <1>1, <1>3, <2>2, <2>4, <2>11, <2>12, <2>13, SoloFills
  <1>10. CASE FillSell(p, o)
    <2>1. PICK qty : qty = orders[o].qty
      OBVIOUS
    <2>2. /\ qty \in Nat /\ orders[o].side = "sell" /\ UNCHANGED accountLock
          /\ qty <= local[p].held[orders[o].stock]
          /\ Write(p, o, FilledAt(orders[o], qty, open[o]))
          /\ Goto(p, [Done(p, o) EXCEPT !.now = @ + qty * open[o] - Fee,
                                        !.held[orders[o].stock] = @ - qty])
      BY <1>2, <1>10, <2>1 DEF FillSell
    <2>3. PICK row : row = FilledAt(orders[o], qty, open[o])
      OBVIOUS
    <2>4. /\ row \in Row /\ row.status = "filled" /\ row.stock = orders[o].stock
          /\ row.side = "sell" /\ row.qty = qty /\ row.fill_price = open[o]
      BY <1>2, <1>5, <2>2, <2>3
    <2>5. PICK gross \in Nat : gross = qty * open[o]
      BY <1>2, <2>2
    <2>6. Payment(row) = gross - Fee
      BY <2>4, <2>5 DEF Payment
    <2>7. PICK s : s = [Done(p, o) EXCEPT !.now = @ + gross - Fee,
                                          !.held[orders[o].stock] = @ - qty]
      OBVIOUS
    <2>8. /\ s.pc = "fill" /\ s.now = local[p].now + gross - Fee
          /\ s.loaded = local[p].loaded /\ s.queue = local[p].queue \ {o}
          /\ s.held = [local[p].held EXCEPT ![orders[o].stock] = @ - qty]
      BY <1>2, <1>4, <2>7 DEF Session
    <2>9. s.now = local[p].now + Payment(row)
      <3>1. Fee \in Nat /\ local[p].now \in Int
        BY <1>2, TradingAssumption DEF Session
      <3> QED BY <2>6, <2>8, <3>1
    <2>10. \A x \in Stocks : s.held[x] = local[p].held[x] + Shares(row, x)
      <3>1. local[p].held \in [Stocks -> Nat]
        BY <1>2 DEF Session
      <3> QED BY <2>2, <2>4, <2>8, <3>1 DEF Shares
    <2>11. Goto(p, s) /\ Write(p, o, row)
      BY <2>2, <2>3, <2>5, <2>7, Zenon
    <2>12. row.stock \in Stocks
      BY <1>2, <2>4
    <2>13. AfterFill(p, o, row, s)
      BY <2>8, <2>9, <2>10 DEF AfterFill
    <2> QED BY <1>1, <1>3, <2>2, <2>4, <2>11, <2>12, <2>13, SoloFills
  <1> QED BY <1>7, <1>8, <1>9, <1>10

\* The sentinel before its exit is committed: positions it has not sold are as it read them.
LEMMA SoloSentinel ==
  ASSUME Alone, SoloInv, TradingInv', NEW p \in Procs,
         \/ SentinelTakeOver(p) \/ SentinelConflict(p) \/ SentinelTakeOverAgain(p)
         \/ SentinelBlocked(p) \/ SentinelEnd(p)
  PROVE  SoloInv'
  <1>0. /\ TradingInv /\ local[p] \in Session
        /\ KnowsCash(local[p], accountLock = p, Committed(orders, p))
        /\ KnowsPositions(local[p], Committed(orders, p))
        /\ local[p].pc \in {"watch"} \cup Exiting
        /\ UNCHANGED <<orders, cash>>
    <2>1. local[p].pc \in {"watch"} \cup Exiting /\ UNCHANGED <<orders, cash>>
      BY DEF SentinelTakeOver, SentinelConflict, SentinelTakeOverAgain, SentinelBlocked,
        SentinelEnd, Exiting, table
    <2> QED BY <2>1, OfSolo
  <1>1. /\ accountLock # p /\ local[p].loaded = cash /\ local[p].now = cash
        /\ \A x \in local[p].stocks : local[p].held[x] = Position(orders, x)
        /\ local[p].pc \in Exiting =>
             /\ local[p].selling \notin local[p].stocks
             /\ local[p].held[local[p].selling] = Position(orders, local[p].selling)
    BY <1>0 DEF KnowsCash, KnowsPositions, Exiting
  <1>2. PICK v : v = Committed(orders, p)'
    OBVIOUS
  <1>3. ASSUME NEW s, Goto(p, s), s.pc \in {"watch"} \cup Exiting, s.loaded = cash,
               s.now = cash, s.held = local[p].held, s.stocks \subseteq local[p].stocks,
               s.pc \in Exiting => /\ s.selling \notin s.stocks
                                   /\ s.held[s.selling] = Position(orders, s.selling),
               accountLock' # p
        PROVE  SoloInv'
    <2>1. KnowsCash(s, (accountLock = p)', v)
      BY <1>3 DEF KnowsCash, Exiting
    <2>2. KnowsPositions(s, v)
      BY <1>1, <1>3 DEF KnowsPositions, Exiting
    <2> QED BY <1>0, <1>2, <1>3, <2>1, <2>2, SoloMove
  <1>4. CASE SentinelTakeOver(p)
    <2>1. PICK x \in local[p].stocks :
            Goto(p, [local[p] EXCEPT !.pc = "exit", !.selling = x, !.stocks = @ \ {x}])
      BY <1>4, Zenon DEF SentinelTakeOver
    <2>2. PICK s : s = [local[p] EXCEPT !.pc = "exit", !.selling = x, !.stocks = @ \ {x}]
      OBVIOUS
    <2>3. /\ s.pc = "exit" /\ s.selling = x /\ s.stocks = local[p].stocks \ {x}
          /\ s.held = local[p].held /\ s.loaded = local[p].loaded /\ s.now = local[p].now
      BY <1>0, <2>2 DEF Session
    <2>4. Goto(p, s) /\ UNCHANGED accountLock
      BY <1>4, <2>1, <2>2, Zenon DEF SentinelTakeOver
    <2> QED BY <1>1, <1>3, <2>1, <2>3, <2>4 DEF Exiting
  <1>5. CASE SentinelConflict(p)
    <2>1. PICK s : s = [local[p] EXCEPT !.pc = "conflict"]
      OBVIOUS
    <2>2. /\ s.pc = "conflict" /\ s.selling = local[p].selling /\ s.stocks = local[p].stocks
          /\ s.held = local[p].held /\ s.loaded = local[p].loaded /\ s.now = local[p].now
      BY <1>0, <2>1 DEF Session
    <2>3. Goto(p, s) /\ UNCHANGED accountLock /\ local[p].pc \in Exiting
      BY <1>5, <2>1, Zenon DEF SentinelConflict, locks, Exiting
    <2> QED BY <1>1, <1>3, <2>2, <2>3 DEF Exiting
  <1>6. CASE SentinelTakeOverAgain(p)
    <2>1. PICK s : s = [local[p] EXCEPT !.pc = "exit again"]
      OBVIOUS
    <2>2. /\ s.pc = "exit again" /\ s.selling = local[p].selling
          /\ s.stocks = local[p].stocks
          /\ s.held = local[p].held /\ s.loaded = local[p].loaded /\ s.now = local[p].now
      BY <1>0, <2>1 DEF Session
    <2>3. Goto(p, s) /\ UNCHANGED accountLock /\ local[p].pc \in Exiting
      BY <1>6, <2>1, Zenon DEF SentinelTakeOverAgain, Exiting
    <2> QED BY <1>1, <1>3, <2>2, <2>3 DEF Exiting
  <1>7. CASE SentinelBlocked(p)
    <2>1. PICK s : s = [local[p] EXCEPT !.pc = "watch", !.selling = NoStock,
                                        !.loaded = cash, !.now = cash]
      OBVIOUS
    <2>2. /\ s.pc = "watch" /\ s.stocks = local[p].stocks
          /\ s.held = local[p].held /\ s.loaded = cash /\ s.now = cash
      BY <1>0, <2>1 DEF Session
    <2>3. Goto(p, s) /\ Rollback(p)
      BY <1>7, <2>1, Zenon DEF SentinelBlocked
    <2>4. accountLock' # p
      BY <1>0, <2>3, LockGone
    <2> QED BY <1>3, <2>2, <2>3, <2>4 DEF Exiting
  <1>8. CASE SentinelEnd(p)
    <2>1. Goto(p, Fresh) /\ UNCHANGED accountLock
      BY <1>8, Zenon DEF SentinelEnd, locks
    <2> QED BY <1>0, <1>1, <2>1, SoloEnds
  <1> QED BY <1>4, <1>5, <1>6, <1>7, <1>8

\* The flows that end without a commit.
LEMMA SoloEnd ==
  ASSUME Alone, SoloInv, TradingInv', NEW p \in Procs,
         DecideConflict(p) \/ DeadlockVictim(p) \/ Abort(p)
  PROVE  SoloInv'
  <1>1. /\ TradingInv
        /\ KnowsCash(local[p], accountLock = p, Committed(orders, p))
    BY OfSolo
  <1>2. Goto(p, Fresh) /\ UNCHANGED <<orders, cash>>
    BY Zenon DEF DecideConflict, DeadlockVictim, Abort, table
  <1>3. accountLock' # p
    <2>1. CASE DecideConflict(p)
      <3>1. local[p].pc = "decide" /\ UNCHANGED accountLock
        BY <2>1, Zenon DEF DecideConflict, DecideReady, locks
      <3> QED BY <1>1, <3>1 DEF KnowsCash
    <2>2. CASE Rollback(p)
      BY <1>1, <2>2, LockGone
    <2>3. DecideConflict(p) \/ Rollback(p)
      BY DEF DeadlockVictim, Abort
    <2> QED BY <2>1, <2>2, <2>3
  <1> QED BY <1>2, <1>3, SoloEnds

\* A price that arrives is nothing a session has read.
LEMMA SoloPrice ==
  ASSUME SoloInv, TradingInv', NEW o \in Orders, PriceArrives(o)
  PROVE  SoloInv'
  <1>1. UNCHANGED <<orders, cash, local, tx, accountLock>>
    BY DEF PriceArrives, locks
  <1>2. Booked'
    BY <1>1 DEF SoloInv, Booked, CashMatchesOrders, NeverOversold, BuysOnNothing
  <1>3. ASSUME NEW p \in Procs PROVE Knows(p)'
    <2>1. Committed(orders, p)' = Committed(orders, p)
      BY <1>1 DEF Committed, Wrote
    <2>2. Knows(p)
      BY DEF SoloInv
    <2>3. KnowsCash(local[p], accountLock = p, Committed(orders, p))'
      BY <1>1, <2>1, <2>2 DEF Knows, KnowsCash
    <2>4. KnowsPositions(local[p], Committed(orders, p))'
      BY <1>1, <2>1, <2>2 DEF Knows, KnowsPositions
    <2> QED BY <2>3, <2>4 DEF Knows
  <1> QED BY <1>2, <1>3 DEF SoloInv

-----------------------------------------------------------------------------
(* The table while one flow runs *)

\* A step that commits: the books balance, and the session knows the new table.
LEMMA SoloCommits ==
  ASSUME Alone, TradingInv, TradingInv', NEW p \in Procs, NEW s, Goto(p, s), Booked',
         NEW v, Committed(orders, p)' = v,
         KnowsCash(s, accountLock = p, v)', KnowsPositions(s, v)'
  PROVE  SoloInv'
  <1>1. \A q \in Procs : q = p
    BY DEF Alone
  <1>2. local'[p] = s
    BY DEF Goto, TradingInv, TypeOK
  <1>3. KnowsCash(local[p], accountLock = p, Committed(orders, p))'
    BY <1>2 DEF KnowsCash
  <1>4. KnowsPositions(local[p], Committed(orders, p))'
    BY <1>2 DEF KnowsPositions
  <1> QED BY <1>1, <1>3, <1>4 DEF SoloInv, Knows

\* After its commit a session knows nothing.
LEMMA FreshCommits ==
  ASSUME Alone, TradingInv, TradingInv', NEW p \in Procs, Goto(p, Fresh), Booked',
         accountLock' # p
  PROVE  SoloInv'
  <1>1. PICK v : Committed(orders, p)' = v
    OBVIOUS
  <1>2. PICK s : s = Fresh
    OBVIOUS
  <1>3. s.pc = "idle" /\ Goto(p, s)
    BY <1>2 DEF Fresh
  <1>4. KnowsCash(s, accountLock = p, v)' /\ KnowsPositions(s, v)'
    BY <1>3 DEF KnowsCash, KnowsPositions, Exiting
  <1> QED BY <1>1, <1>3, <1>4, SoloCommits

\* Rows that move the same shares of a stock make the same position in it.
LEMMA SameShares ==
  ASSUME NEW a, NEW b, NEW s, \A o \in Orders : Shares(a[o], s) = Shares(b[o], s)
  PROVE  Position(a, s) = Position(b, s)
  <1>1. [o \in Orders |-> Shares(a[o], s)] = [o \in Orders |-> Shares(b[o], s)]
    OBVIOUS
  <1> QED BY <1>1, Zenon DEF Position

\* The books balance over a table with the same filled rows, if no buy was added.
LEMMA SameBooks ==
  ASSUME SoloInv, UNCHANGED cash,
         \A o \in Orders : (orders[o].status = "filled" \/ orders'[o].status = "filled") =>
           orders[o] = orders'[o],
         \A o \in Orders : (orders'[o].status = "pending" /\ orders'[o].side = "buy") =>
           orders[o] = orders'[o] \/ Position(orders, orders'[o].stock) = 0
  PROVE  Booked'
  <1>1. PICK a : a = orders
    OBVIOUS
  <1>2. PICK b : b = orders'
    OBVIOUS
  <1>3. Ledger(a) = Ledger(b) /\ \A s : Position(a, s) = Position(b, s)
    BY <1>1, <1>2, SameTotals
  <1>4. CashMatchesOrders /\ NeverOversold /\ BuysOnNothing
    BY DEF SoloInv, Booked
  <1>5. CashMatchesOrders'
    BY <1>1, <1>2, <1>3, <1>4 DEF CashMatchesOrders
  <1>6. NeverOversold'
    BY <1>1, <1>2, <1>3, <1>4 DEF NeverOversold
  <1>7. BuysOnNothing'
    BY <1>1, <1>2, <1>3, <1>4 DEF BuysOnNothing
  <1> QED BY <1>5, <1>6, <1>7 DEF Booked

\* Recovery fills nothing.
LEMMA SoloRecovers ==
  ASSUME Alone, SoloInv, TradingInv', NEW p \in Procs, FillRecover(p)
  PROVE  SoloInv'
  <1>1. /\ TradingInv /\ local[p] \in Session
        /\ KnowsCash(local[p], accountLock = p, Committed(orders, p))
    BY OfSolo
  <1>2. /\ local[p].pc = "recover" /\ UNCHANGED <<cash, accountLock>>
        /\ \A o \in Orders : orders'[o] = Recovered(orders[o])
    BY DEF FillRecover, locks
  <1>3. PICK s : s = [local[p] EXCEPT !.pc = "replay"]
    OBVIOUS
  <1>4. s.pc = "replay" /\ s.loaded = local[p].loaded /\ s.now = local[p].now
    BY <1>1, <1>3 DEF Session
  <1>5. Goto(p, s)
    BY <1>3, Zenon DEF FillRecover
  <1>6. ASSUME NEW o \in Orders
        PROVE  \/ orders'[o] = orders[o]
               \/ orders'[o].status = "rejected" /\ orders[o].status = "filling"
    <2>1. orders[o] \in Row /\ orders'[o] = Recovered(orders[o])
      BY <1>1, <1>2 DEF TradingInv, TypeOK
    <2> QED BY <2>1 DEF Recovered, Rejected, Row
  <1>7. Booked'
    BY <1>2, <1>6, SameBooks
  <1>8. PICK v : Committed(orders, p)' = v
    OBVIOUS
  <1>9. KnowsCash(s, accountLock = p, v)'
    BY <1>1, <1>2, <1>4 DEF KnowsCash
  <1>10. KnowsPositions(s, v)'
    BY <1>4 DEF KnowsPositions, Exiting
  <1> QED BY <1>1, <1>5, <1>7, <1>8, <1>9, <1>10, SoloCommits

\* The orders of a decision run are pending, and buy what is not held.
LEMMA SoloDecided ==
  ASSUME Alone, SoloInv, TradingInv', NEW p \in Procs, DecideCommit(p)
  PROVE  SoloInv'
  <1>1. /\ TradingInv /\ local[p] \in Session
        /\ KnowsCash(local[p], accountLock = p, Committed(orders, p))
        /\ KnowsPositions(local[p], Committed(orders, p))
    BY OfSolo
  <1>2. /\ local[p].pc = "decide" /\ UNCHANGED <<cash, accountLock>> /\ Goto(p, Fresh)
    BY DEF DecideCommit, DecideReady, locks
  <1>3. \A o \in Orders : orders'[o] = orders[o]
          \/ (orders[o].status = "absent" /\ orders'[o].status = "pending")
    BY <1>1, DecideStep
  <1>4. PICK ds : ds = local[p].drafts
    OBVIOUS
  <1>5. ds \in Seq(Drafts) /\ Len(ds) \in Nat /\ nextId \in Nat
    <2>1. ds \in Seq(Drafts)
      BY <1>1, <1>4 DEF Session
    <2>2. nextId \in 1 .. MaxOrders + 1
      BY <1>1 DEF TradingInv, TypeOK
    <2> QED BY <2>1, <2>2, TradingAssumption
  <1>6. \A o \in Orders : orders'[o] =
          IF o \in nextId .. nextId + Len(ds) - 1
          THEN Pending(ds[o - nextId + 1].stock, ds[o - nextId + 1].side, ds[o - nextId + 1].qty)
          ELSE orders[o]
    BY <1>4 DEF DecideCommit
  <1>7. ASSUME NEW o \in Orders, orders'[o].status = "pending", orders'[o].side = "buy"
        PROVE  orders[o] = orders'[o] \/ Position(orders, orders'[o].stock) = 0
    <2>1. CASE o \notin nextId .. nextId + Len(ds) - 1
      BY <1>6, <2>1
    <2>2. CASE o \in nextId .. nextId + Len(ds) - 1
      <3>1. PICK i : i = o - nextId + 1
        OBVIOUS
      <3>2. i \in 1 .. Len(ds)
        BY <1>5, <2>2, <3>1 DEF Orders
      <3>3. ds[i] \in Drafts
        BY <1>5, <3>2
      <3>4. orders'[o] = Pending(ds[i].stock, ds[i].side, ds[i].qty)
        BY <1>6, <2>2, <3>1
      <3>5. orders'[o].stock = ds[i].stock /\ ds[i].side = "buy"
        BY <1>7, <3>4 DEF Pending
      <3>6. local[p].held[ds[i].stock] = 0 /\ ds[i].stock \in Stocks
        BY <1>1, <1>2, <1>4, <3>2, <3>3, <3>5 DEF KnowsPositions, Drafts
      <3>7. Position(orders, ds[i].stock) = 0
        BY <1>1, <1>2, <3>6 DEF KnowsPositions
      <3> QED BY <3>5, <3>7
    <2> QED BY <2>1, <2>2
  <1>8. Booked'
    BY <1>2, <1>3, <1>7, SameBooks
  <1>9. accountLock' # p
    BY <1>1, <1>2 DEF KnowsCash
  <1> QED BY <1>1, <1>2, <1>8, <1>9, FreshCommits

\* The matching commits what its session has reckoned.
LEMMA SoloFilled ==
  ASSUME Alone, SoloInv, TradingInv', NEW p \in Procs, FillCommit(p)
  PROVE  SoloInv'
  <1>1. /\ TradingInv /\ local[p] \in Session
        /\ KnowsCash(local[p], accountLock = p, Committed(orders, p))
        /\ KnowsPositions(local[p], Committed(orders, p))
        /\ Booked
    BY OfSolo DEF SoloInv
  <1>2. /\ local[p].pc = "fill" /\ Goto(p, Fresh)
        /\ orders' = Committed(orders, p)
        /\ cash' = IF Dirty(p) \/ accountLock = p THEN local[p].now ELSE cash
        /\ accountLock' = IF accountLock = p THEN Nobody ELSE accountLock
    BY DEF FillCommit, Commit
  <1>3. PICK v : v = Committed(orders, p)
    OBVIOUS
  <1>4. local[p].now = Ledger(v) /\ \A s \in Stocks : local[p].held[s] = Position(v, s)
    BY <1>1, <1>2, <1>3 DEF KnowsCash, KnowsPositions
  <1>5. cash' = local[p].now
    BY <1>1, <1>2 DEF KnowsCash, Dirty
  <1>6. CashMatchesOrders'
    BY <1>2, <1>3, <1>4, <1>5 DEF CashMatchesOrders
  <1>7. NeverOversold'
    <2>1. \A s \in Stocks : local[p].held[s] \in Nat
      BY <1>1 DEF Session
    <2>2. \A s \in Stocks : Position(v, s) \in Nat
      BY <1>4, <2>1
    <2> QED BY <1>2, <1>3, <2>2 DEF NeverOversold
  <1>8. BuysOnNothing'
    <2> SUFFICES ASSUME NEW o \in Orders, v[o].status = "pending", v[o].side = "buy"
                 PROVE  Position(v, v[o].stock) = 0
      BY <1>2, <1>3 DEF BuysOnNothing
    <2>1. v[o] = orders[o]
      BY <1>1, <1>3, CommittedRows DEF Settled
    <2>2. Position(orders, v[o].stock) = 0
      BY <1>1, <2>1 DEF Booked, BuysOnNothing
    <2>3. ASSUME NEW x \in Orders
          PROVE  Shares(v[x], v[o].stock) = Shares(orders[x], v[o].stock)
      <3>1. CASE v[x] = orders[x]
        BY <3>1
      <3>2. CASE v[x] # orders[x]
        <4>1. orders[x].status = "pending" /\ Wrote(p, x)
          BY <1>1, <1>3, <3>2, CommittedRows
        <4>2. orders[x].stock # v[o].stock
          BY <1>1, <2>1, <3>2, <4>1 DEF TradingInv, TableInv, OnePendingPerStock
        <4>3. v[x].stock = orders[x].stock
          BY <1>1, <1>3, <4>1 DEF Committed, TradingInv, LockInv, MayWrite
        <4> QED BY <4>2, <4>3 DEF Shares
      <3> QED BY <3>1, <3>2
    <2>4. PICK a : a = orders
      OBVIOUS
    <2>5. PICK y : y = v[o].stock
      OBVIOUS
    <2>6. Position(v, y) = Position(a, y)
      BY <2>3, <2>4, <2>5, SameShares
    <2> QED BY <2>2, <2>4, <2>5, <2>6
  <1>9. accountLock' # p
    BY <1>2, TradingAssumption DEF Procs
  <1>10. Booked'
    BY <1>6, <1>7, <1>8 DEF Booked
  <1> QED BY <1>1, <1>2, <1>9, <1>10, FreshCommits

\* An exit sells the whole position, and books what it brings.
LEMMA SoloExits ==
  ASSUME Alone, SoloInv, TradingInv', NEW p \in Procs, SentinelExit(p)
  PROVE  SoloInv'
  <1>1. /\ TradingInv /\ local[p] \in Session /\ SessionOK(local[p], tx[p])
        /\ KnowsCash(local[p], accountLock = p, Committed(orders, p))
        /\ KnowsPositions(local[p], Committed(orders, p))
        /\ Booked /\ local[p].pc \in Exiting /\ nextId \in Orders
        /\ orders \in [Orders -> Row] /\ cash = Ledger(orders)
    BY OfSolo DEF SoloInv, SentinelExit, Exiting
  <1>2. PICK y : y = local[p].selling
    OBVIOUS
  <1>3. PICK n : n = local[p].held[y]
    OBVIOUS
  <1>4. /\ accountLock # p /\ local[p].loaded = cash /\ local[p].now = cash
        /\ \A x \in local[p].stocks : local[p].held[x] = Position(orders, x)
        /\ y \notin local[p].stocks /\ n = Position(orders, y)
        /\ local[p].stocks \subseteq Stocks
    BY <1>1, <1>2, <1>3 DEF KnowsCash, KnowsPositions, Exiting, Session
  <1>5. y \in Stocks /\ n \in Nat /\ n > 0
    BY <1>1, <1>2, <1>3 DEF SessionOK, Session
  <1>6. PICK price \in Prices :
          /\ orders' = [Committed(orders, p) EXCEPT ![nextId] =
                          FilledAt(Pending(y, "sell", n), Pending(y, "sell", n).qty, price)]
          /\ cash' = IF Sold(p, price).now # Sold(p, price).loaded
                     THEN Sold(p, price).now ELSE cash
          /\ Goto(p, [Sold(p, price) EXCEPT !.pc = "watch", !.loaded = Sold(p, price).now,
                                            !.selling = NoStock])
    BY <1>2, <1>3 DEF SentinelExit
  <1>7. price \in Nat
    BY TradingAssumption
  <1>8. PICK row :
          row = FilledAt(Pending(y, "sell", n), Pending(y, "sell", n).qty, price)
    OBVIOUS
  <1>9. /\ row \in Row /\ row.status = "filled" /\ row.stock = y
        /\ row.side = "sell" /\ row.qty = n /\ row.fill_price = price
    BY <1>5, <1>7, <1>8 DEF Pending, FilledAt, Row, Settled
  <1>10. PICK gain \in Nat : gain = n * price
    BY <1>5, <1>7
  <1>11. Payment(row) = gain - Fee
    BY <1>9, <1>10 DEF Payment
  <1>12. \A x : Shares(row, x) = IF x = y THEN -n ELSE 0
    BY <1>9 DEF Shares
  <1>13. PICK a : a = orders
    OBVIOUS
  <1>14. PICK c : c = Committed(orders, p)
    OBVIOUS
  <1>15. PICK b : b = orders'
    OBVIOUS
  <1>16. PICK k \in Orders : k = nextId
    BY <1>1
  <1>17. ASSUME NEW o \in Orders
         PROVE  /\ c[o] \in Row
                /\ \/ c[o] = a[o]
                   \/ a[o].status = "pending" /\ c[o].status = "rejected"
    <2>1. tx[p][o].status \in {"absent", "rejected"}
      BY <1>1 DEF SessionOK, Exiting
    <2>2. Wrote(p, o) => c[o].status = "rejected"
      BY <1>14, <2>1 DEF Committed, Wrote
    <2> QED BY <1>1, <1>13, <1>14, <2>2, CommittedRows
  <1>18. c \in [Orders -> Row] /\ b = [c EXCEPT ![k] = row]
    <2>1. c = [o \in Orders |-> c[o]]
      BY <1>14 DEF Committed
    <2>2. c \in [Orders -> Row]
      BY <1>17, <2>1
    <2> QED BY <1>6, <1>8, <1>14, <1>15, <1>16, <2>2
  <1>19. /\ b \in [Orders -> Row] /\ b[k] = row
         /\ \A o \in Orders \ {k} : b[o] = c[o]
    BY <1>9, <1>18
  <1>20. c[k].status # "filled"
    <2>1. a[k].status = "absent"
      <3>1. k >= nextId
        BY <1>16 DEF Orders
      <3> QED BY <1>1, <1>13, <3>1 DEF TradingInv, TableInv, UnbornIsAbsent
    <2> QED BY <1>17, <2>1
  <1>21. /\ Ledger(b) = Ledger(a) + Payment(row)
         /\ \A x : Position(b, x) = Position(a, x) + Shares(row, x)
         /\ \A x : Position(a, x) \in Int
    <2>1. Ledger(a) = Ledger(c) /\ \A x : Position(a, x) = Position(c, x)
      BY <1>17, SameTotals
    <2>2. /\ Ledger(b) = Ledger(c) + Payment(b[k])
          /\ \A x : Position(c, x) \in Int /\ Position(b, x) = Position(c, x) + Shares(b[k], x)
      BY <1>18, <1>19, <1>20, OneFill
    <2> QED BY <1>19, <2>1, <2>2
  <1>22. /\ Position(b, y) = 0
         /\ \A x : x # y => Position(b, x) = Position(a, x)
    BY <1>4, <1>5, <1>12, <1>13, <1>21
  <1>23. Sold(p, price) = [local[p] EXCEPT !.now = cash + gain - Fee]
    <2>1. local[p].held[local[p].selling] * price = gain
      BY <1>2, <1>3, <1>10
    <2>2. Sold(p, price) = [local[p] EXCEPT !.now = local[p].now + gain - Fee]
      BY <1>1, <2>1 DEF Sold, Session
    <2> QED BY <1>4, <2>2
  <1>24. PICK now : now = cash + gain - Fee
    OBVIOUS
  <1>25. Sold(p, price) = [local[p] EXCEPT !.now = now]
    BY <1>23, <1>24
  <1>26. PICK s : s = [Sold(p, price) EXCEPT !.pc = "watch", !.loaded = Sold(p, price).now,
                                            !.selling = NoStock]
    OBVIOUS
  <1>27. /\ s.pc = "watch" /\ s.loaded = now /\ s.now = now
         /\ s.held = local[p].held /\ s.stocks = local[p].stocks
         /\ Sold(p, price).now = now /\ Sold(p, price).loaded = cash
    BY <1>1, <1>4, <1>25, <1>26 DEF Session
  <1>28. cash' = now
    BY <1>6, <1>27
  <1>29. Ledger(b) = now
    <2>1. cash \in Int /\ Fee \in Nat
      BY <1>1, TradingAssumption DEF TradingInv, TypeOK
    <2> QED BY <1>1, <1>11, <1>13, <1>21, <1>24, <2>1
  <1>30. CashMatchesOrders'
    BY <1>15, <1>28, <1>29 DEF CashMatchesOrders
  <1>31. NeverOversold'
    <2>1. \A x \in Stocks : Position(a, x) >= 0
      BY <1>1, <1>13 DEF Booked, NeverOversold
    <2>2. \A x \in Stocks : Position(b, x) >= 0
      BY <1>22, <2>1
    <2> QED BY <1>15, <2>2 DEF NeverOversold
  <1>32. BuysOnNothing'
    <2>1. ASSUME NEW o \in Orders, b[o].status = "pending", b[o].side = "buy"
          PROVE  Position(b, b[o].stock) = 0
      <3>1. b[o] = a[o]
        BY <1>9, <1>17, <1>19, <2>1
      <3>2. Position(a, a[o].stock) = 0
        BY <1>1, <1>13, <2>1, <3>1 DEF Booked, BuysOnNothing
      <3> QED BY <1>22, <3>1, <3>2
    <2> QED BY <1>15, <2>1 DEF BuysOnNothing
  <1>33. PICK v : Committed(orders, p)' = v
    OBVIOUS
  <1>34. KnowsCash(s, accountLock = p, v)'
    <2>1. accountLock' # p
      BY <1>1, LockGone DEF SentinelExit
    <2> QED BY <1>27, <1>28, <2>1 DEF KnowsCash
  <1>35. KnowsPositions(s, v)'
    <2>1. \A x \in s.stocks : s.held[x] = Position(b, x)
      BY <1>4, <1>13, <1>22, <1>27
    <2> QED BY <1>15, <1>27, <2>1 DEF KnowsPositions, Exiting
  <1>36. Goto(p, s)
    BY <1>6, <1>26, Zenon
  <1>37. Booked'
    BY <1>30, <1>31, <1>32 DEF Booked
  <1> QED BY <1>1, <1>33, <1>34, <1>35, <1>36, <1>37, SoloCommits

-----------------------------------------------------------------------------
(* The books of one flow at a time *)

\* At the start nothing is filled: the cash is the initial amount, and nothing is held.
LEMMA SoloInitially == Init => SoloInv
  <1> SUFFICES ASSUME Init PROVE SoloInv
    OBVIOUS
  <1>1. TradingInv
    BY Initially
  <1>2. ASSUME NEW o \in Orders PROVE orders[o].status \in {"absent", "filling"}
    <2>1. PICK stuck \in [1 .. Legacy -> Stocks] :
            orders = [x \in Orders |->
                        IF x > Legacy THEN Absent
                        ELSE [Pending(stuck[x], "buy", 1) EXCEPT !.status = "filling"]]
      BY DEF Init
    <2> QED BY <2>1 DEF Absent, Pending
  <1>3. PICK a : a = orders
    OBVIOUS
  <1>4. \A o \in Orders : Payment(a[o]) = 0 /\ \A s : Shares(a[o], s) = 0
    BY <1>2, <1>3 DEF Payment, Shares
  <1>5. [o \in Orders |-> Payment(a[o])] = [o \in Orders |-> 0]
    BY <1>4
  <1>6. \A s : [o \in Orders |-> Shares(a[o], s)] = [o \in Orders |-> 0]
    BY <1>4
  <1>7. SumFunction([o \in Orders |-> 0]) = 0
    BY OrdersFinite, SumOfZeros, Zenon
  <1>8. Ledger(a) = InitialCash + 0
    BY <1>5, <1>7, Zenon DEF Ledger
  <1>9. \A s : Position(a, s) = 0
    BY <1>6, <1>7, Zenon DEF Position
  <1>10. InitialCash \in Int
    BY TradingAssumption
  <1>11. Booked
    BY <1>2, <1>3, <1>8, <1>9, <1>10
    DEF Booked, CashMatchesOrders, NeverOversold, BuysOnNothing, Init
  <1>12. ASSUME NEW p \in Procs PROVE Knows(p)
    <2>1. local[p].pc = "idle" /\ accountLock # p
      BY TradingAssumption DEF Init, Fresh, Procs
    <2> QED BY <2>1 DEF Knows, KnowsCash, KnowsPositions, Exiting
  <1> QED BY <1>1, <1>11, <1>12 DEF SoloInv

\* Every step keeps the books while one flow runs at a time.
THEOREM SoloInductive ==
  ASSUME Alone
  PROVE  SoloInv /\ [Next]_vars => SoloInv'
  <1> SUFFICES ASSUME SoloInv, [Next]_vars PROVE SoloInv'
    OBVIOUS
  <1>1. TradingInv /\ TradingInv'
    BY Inductive DEF SoloInv
  <1>2. CASE UNCHANGED vars
    <2>1. UNCHANGED <<orders, cash, local, tx, accountLock>>
      BY <1>2 DEF vars
    <2>2. Booked'
      BY <2>1 DEF SoloInv, Booked, CashMatchesOrders, NeverOversold, BuysOnNothing
    <2>3. ASSUME NEW p \in Procs PROVE Knows(p)'
      <3>1. Committed(orders, p)' = Committed(orders, p)
        BY <2>1 DEF Committed, Wrote
      <3>2. Knows(p)
        BY DEF SoloInv
      <3>3. KnowsCash(local[p], accountLock = p, Committed(orders, p))'
        BY <2>1, <3>1, <3>2 DEF Knows, KnowsCash
      <3>4. KnowsPositions(local[p], Committed(orders, p))'
        BY <2>1, <3>1, <3>2 DEF Knows, KnowsPositions
      <3> QED BY <3>3, <3>4 DEF Knows
    <2> QED BY <1>1, <2>2, <2>3 DEF SoloInv
  <1>3. ASSUME NEW p \in Procs, SessionMove(p) PROVE SoloInv'
    <2>1. CASE Begin(p)
      BY <1>1, <2>1, SoloBegin
    <2>2. CASE \/ FillReplay(p) \/ FillList(p) \/ SentinelReplay(p)
               \/ DecideReplay(p) \/ DecideSkip(p)
               \/ \E o \in Orders : FillMissed(p, o)
      BY <1>1, <2>2, SoloRead
    <2>3. CASE DecideSell(p) \/ DecideWish(p) \/ DecideSize(p)
      BY <1>1, <2>3, SoloDecides
    <2>4. ASSUME NEW o \in Orders,
                 \/ FillWait(p, o) \/ FillBuy(p, o) \/ FillRejectBuy(p, o)
                 \/ FillSell(p, o) \/ FillRejectSell(p, o)
          PROVE  SoloInv'
      BY <1>1, <2>4, SoloFillStep
    <2>5. CASE \/ SentinelTakeOver(p) \/ SentinelConflict(p) \/ SentinelTakeOverAgain(p)
               \/ SentinelBlocked(p) \/ SentinelEnd(p)
      BY <1>1, <2>5, SoloSentinel
    <2>6. CASE DecideConflict(p) \/ DeadlockVictim(p) \/ Abort(p)
      BY <1>1, <2>6, SoloEnd
    <2> QED BY <1>3, <2>1, <2>2, <2>3, <2>4, <2>5, <2>6 DEF SessionMove
  <1>4. ASSUME NEW p \in Procs, TableMove(p) PROVE SoloInv'
    BY <1>1, <1>4, SoloRecovers, SoloFilled, SoloExits, SoloDecided DEF TableMove
  <1>5. ASSUME NEW o \in Orders, PriceArrives(o) PROVE SoloInv'
    BY <1>1, <1>5, SoloPrice
  <1> QED BY <1>2, <1>3, <1>4, <1>5, EveryStep

\* In every state, while one flow runs at a time: the books balance, and what a session has
\* loaded and read is what the table holds.
THEOREM SoloCorrect ==
  ASSUME Alone
  PROVE  Spec => []SoloInv
  BY SoloInitially, SoloInductive, PTL DEF Spec

\* The stored cash is the initial amount moved by what each filled order paid or brought, fee
\* included, when no manual fill runs beside the worker: the session's account starts from
\* the stored one, moves with each fill it writes, and is stored in the transaction that
\* commits those fills.
THEOREM BooksBalance ==
  ASSUME Alone
  PROVE  Spec => []CashMatchesOrders
  <1>1. SoloInv => CashMatchesOrders
    BY DEF SoloInv, Booked
  <1> QED BY <1>1, SoloCorrect, PTL

\* No stock is sold beyond what was bought when no manual fill runs beside the worker: the
\* positions replayed at the beginning stay those of the table until the commit.
THEOREM NothingOversold ==
  ASSUME Alone
  PROVE  Spec => []NeverOversold
  <1>1. SoloInv => NeverOversold
    BY DEF SoloInv, Booked
  <1> QED BY <1>1, SoloCorrect, PTL

\* A buy never fills on top of a position when no manual fill runs beside the worker: it was
\* decided when nothing was held, the index kept a second order of its stock out, and the
\* exits of the sentinel only sell.
THEOREM NothingAddedTo ==
  ASSUME Alone
  PROVE  Spec => NeverAddedTo
  <1>1. ASSUME SoloInv, [Next]_vars
        PROVE  \A o \in Orders :
                 (orders[o].status # "filled" /\ orders'[o].status = "filled"
                  /\ orders[o].side = "buy" /\ orders[o].status # "absent")
                   => Position(orders, orders[o].stock) = 0
    <2> SUFFICES ASSUME NEW o \in Orders,
                        orders[o].status # "filled", orders'[o].status = "filled",
                        orders[o].side = "buy", orders[o].status # "absent"
                 PROVE  Position(orders, orders[o].stock) = 0
      OBVIOUS
    <2>1. TradingInv /\ BuysOnNothing
      BY <1>1 DEF SoloInv, Booked
    <2>2. PICK p \in Procs : TableMove(p)
      BY <1>1, <2>1, TableMoves
    <2>3. orders[o].status = "pending"
      <3>1. CASE FillRecover(p)
        <4>1. orders[o] \in Row /\ orders'[o] = Recovered(orders[o])
          BY <2>1, <3>1 DEF FillRecover, TradingInv, TypeOK
        <4> QED BY <1>1, <4>1 DEF Recovered, Rejected, Row
      <3>2. CASE ~FillRecover(p)
        BY <1>1, <2>1, <2>2, <3>2, CommitStep, ExitStep, DecideStep DEF TableMove
      <3> QED BY <3>1, <3>2
    <2> QED BY <1>1, <2>1, <2>3 DEF BuysOnNothing
  <1> QED BY <1>1, SoloCorrect, PTL DEF Spec, NeverAddedTo

=============================================================================
