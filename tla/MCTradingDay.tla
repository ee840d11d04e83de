---------------------------- MODULE MCTradingDay ----------------------------
(* Two tickers, one research seat, prices of one dollar. *)
EXTENDS TradingDay
CONSTANTS a, b

OneDollar == [t \in Tickers |-> 1]

\* The PM's choices: nothing, more than the gate allows, and a way out.
PmAsks == {[side |-> "hold", qty |-> 0], [side |-> "buy", qty |-> 3], [side |-> "sell", qty |-> 2]}

Day(c, h, r, s) == [cash |-> c, held |-> h, recorded |-> r, stop |-> s]
Each(x, y) == [t \in Tickers |-> IF t = a THEN x ELSE y]

\* A flat account; a book of b under its stop; one whose stop has gone off
\* overnight, and one whose stop has died.
Flat == Day(10, Each(0, 0), Each(0, 0), Each("none", "none"))
Books == {Flat,
          Day(8, Each(0, 2), Each(0, 2), Each("none", "live")),
          Day(10, Each(0, 0), Each(0, 2), Each("none", "none")),
          Day(8, Each(0, 2), Each(0, 2), Each("none", "none"))}
FlatOnly == {Flat}

ASSUME OpensWithItsOwn == OwnBook

\* A calm market, a wild one, and a day's loss at the circuit breaker.
Calm == [vol |-> 20, pnl |-> 0]
Markets == <<Calm, [vol |-> 60, pnl |-> 0], [vol |-> 20, pnl |-> -3]>>
=============================================================================
