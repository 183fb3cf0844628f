----------------------------- MODULE MCSimTrading -----------------------------
(* Small instances of SimTrading for TLC. *)
EXTENDS SimTrading, TLC

CONSTANTS t1, t2, f1, f2, s1, s2, s3

OneTrader == {t1}
TwoTraders == {t1, t2}
NoFiller == {}
OneFiller == {f1}
TwoFillers == {f1, f2}
OneStock == {s1}
TwoStocks == {s1, s2}
ThreeStocks == {s1, s2, s3}
StockSymmetry == Permutations(ThreeStocks)
OneTwo == {1, 2}
OneThree == {1, 3}
Twos == {2}

\* The morning after a decision run: s1 is held and about to be sold, s2 and s3 are
\* bought, and one more order was left in 'filling' by an older release.
AfterDecision ==
  /\ orders = [o \in Orders |->
       CASE o = 1 -> FilledAt(Pending(s1, "buy", 1), 1, 2)
         [] o = 2 -> Pending(s2, "buy", 1)
         [] o = 3 -> Pending(s3, "buy", 1)
         [] o = 4 -> Pending(s1, "sell", 1)
         [] o = 5 -> [Pending(s1, "buy", 1) EXCEPT !.status = "filling"]
         [] OTHER -> Absent]
  /\ nextId = 6
  /\ cash = InitialCash - Cost(1, 2)
  /\ open = [o \in Orders |-> IF o = 1 THEN 2 ELSE 0]
  /\ local = [p \in Procs |-> Fresh]
  /\ tx = [p \in Procs |-> NoWrites]
  /\ accountLock = Nobody
  /\ aborts = 0

\* During the session: the worker runs the sentinel and the matching, somebody presses "fill".
MorningNext ==
  \/ \E p \in Traders : BeginSentinel(p)
  \/ \E p \in Procs : BeginFill(p)
  \/ \E p \in Procs : FillFlow(p) \/ SentinelFlow(p) \/ DeadlockVictim(p)
  \/ \E o \in Orders : PriceArrives(o)

MorningSpec == AfterDecision /\ [][MorningNext]_vars /\ Fairness
=============================================================================
