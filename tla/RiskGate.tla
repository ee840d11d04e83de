------------------------------ MODULE RiskGate ------------------------------
(***************************************************************************)
(* The deterministic gate: what size() (gate/risk.py) allows of one ticker *)
(* and side, on the inputs build_market_inputs (market/features.py) makes  *)
(* of one reading of the account.  Figures are whole numbers: dollars,     *)
(* percent of volatility, tenths of correlation, percent of P&L; NaN is a  *)
(* figure the feed could not give.  All tickers are of one mapped sector.  *)
(***************************************************************************)
EXTENDS Integers, FiniteSets, FiniteSetsExt

CONSTANTS
  NaN,
  Tickers,       \* the watchlist, which here holds every ticker that is held
  Price,         \* of each ticker, when the feed has it
  BookCorr,      \* its correlation with a book that is not empty
  MaxPositions   \* 8 in the code

ASSUME GateAssumption ==
  MaxPositions \in Nat /\ IsFiniteSet(Tickers) /\ Price \in [Tickers -> Nat \ {0}]

SectorCap == 60
CircuitBreaker == -3

(* size(): the tiers, then the caps, each by itself.                       *)
VolTier(v) == IF v < 15 THEN 25 ELSE IF v <= 50 THEN 20 ELSE 10
CorrMult(c) ==
  IF c >= 8 THEN 70 ELSE IF c >= 6 THEN 85 ELSE IF c >= 4 THEN 95 ELSE IF c >= 2 THEN 100 ELSE 110

Approved(q) == [qty |-> q, reason |-> "approved"]
Rejected(why) == [qty |-> 0, reason |-> why]

Valid(i) ==
  /\ \A f \in DOMAIN i : i[f] \in Int      (* finite *)
  /\ i.price > 0 /\ i.equity > 0 /\ i.corr \in -10 .. 10
  /\ \A f \in {"cash", "held", "vol", "count", "sectorValue"} : i[f] >= 0

BuyQty(i) ==
  LET dollar == (i.equity * VolTier(i.vol) * CorrMult(i.corr)) \div (10000 * i.price)
      headroom == Max({SectorCap * i.equity - 100 * i.sectorValue, 0})
  IN Min({dollar, i.cash \div i.price, headroom \div (100 * i.price)})

Size(i, side) ==
  IF ~Valid(i) THEN Rejected("gate_error")
  ELSE IF side = "sell" THEN IF i.held > 0 THEN Approved(i.held) ELSE Rejected("nothing_held")
  ELSE IF i.pnl <= CircuitBreaker THEN Rejected("circuit_breaker")
  ELSE IF i.held = 0 /\ i.count >= MaxPositions THEN Rejected("position_count")
  ELSE IF BuyQty(i) < 1 THEN Rejected("no_headroom")
  ELSE Approved(BuyQty(i))

(* build_market_inputs() on a market: one reading of the account, the      *)
(* tickers the price feed had no usable history of, the volatility of the  *)
(* others, and the day's P&L.                                              *)
Held(a) == {t \in Tickers : a.held[t] > 0}
Value(a) == MapThenSumSet(LAMBDA t : a.held[t] * Price[t], Tickers)

(* Unmeasurable without the ticker's own history, or with none of the      *)
(* book's; a book that is partly dark is measured on the rest.             *)
Correlation(m, t) ==
  LET book == Held(m.account) \ {t}
  IN IF book = {} THEN 0
     ELSE IF t \in m.dark \/ book \subseteq m.dark THEN NaN
     ELSE BookCorr

Inputs(m, t) ==
  [equity |-> m.account.equity, cash |-> m.account.cash, pnl |-> m.pnl,
   held |-> m.account.held[t], sectorValue |-> Value(m.account),
   count |-> Cardinality(Held(m.account)),
   price |-> IF t \in m.dark \ Held(m.account) THEN NaN ELSE Price[t],
   vol |-> IF t \in m.dark THEN NaN ELSE m.vol,
   corr |-> Correlation(m, t)]

(* allowed_actions(): both shapes of every ticker; one with neither is not *)
(* active and no seat is asked about it.                                   *)
Allowed(m, t, side) == Size(Inputs(m, t), side)
Active(m) == {t \in Tickers : \E side \in {"buy", "sell"} : Allowed(m, t, side).qty > 0}
GateErrors(m) ==
  {t \in Tickers : \A side \in {"buy", "sell"} : Allowed(m, t, side).reason = "gate_error"}

(* What the gate promises of one ticket, said without computing it: the    *)
(* quantity alone fits every limit of the reading it was sized on.         *)
FitsAlone(m, t, side, qty) ==
  LET i == Inputs(m, t)
  IN /\ Valid(i)
     /\ side = "sell" => qty <= i.held
     /\ side = "buy" =>
          /\ qty * i.price <= i.cash
          /\ 10000 * qty * i.price <= i.equity * VolTier(i.vol) * CorrMult(i.corr)
          /\ 100 * (i.sectorValue + qty * i.price) <= SectorCap * i.equity
          /\ i.held > 0 \/ i.count < MaxPositions
          /\ i.pnl > CircuitBreaker

(* What the firm's limits say of a set of buys together.                   *)
FitTogether(m, buys, qty) ==
  LET cost == MapThenSumSet(LAMBDA t : qty[t] * Price[t], buys)
  IN /\ 100 * (Value(m.account) + cost) <= SectorCap * m.account.equity
     /\ Cardinality(Held(m.account) \cup buys) <= MaxPositions
=============================================================================
