-------------------------- MODULE TradingDayProofs --------------------------
(***************************************************************************)
(* The gate and the day's process for any watchlist, market and number of  *)
(* fires: what the gate approves fits the limits of the market it was      *)
(* sized on, the close is written once, a clean verdict is true, and no    *)
(* day runs on a list of positions that was lost.                          *)
(***************************************************************************)
EXTENDS TradingDay, TLAPS, FiniteSetTheorems

\* The least and the greatest of a few numbers.
LEMMA MinOfThree ==
    ASSUME NEW x \in Int, NEW y \in Int, NEW z \in Int
    PROVE  /\ Min({x, y, z}) \in Int
           /\ Min({x, y, z}) <= x /\ Min({x, y, z}) <= y /\ Min({x, y, z}) <= z
<1>1. \E m \in {x, y, z} : \A n \in {x, y, z} : m <= n
  <2>1. CASE x <= y /\ x <= z
    BY <2>1
  <2>2. CASE y <= x /\ y <= z
    BY <2>2
  <2>3. CASE z <= x /\ z <= y
    BY <2>3
  <2> QED
    BY <2>1, <2>2, <2>3
<1>2. /\ Min({x, y, z}) \in {x, y, z}
      /\ \A n \in {x, y, z} : Min({x, y, z}) <= n
  BY <1>1 DEF Min
<1> QED
  BY <1>2

\* The minimum of two numbers.
LEMMA MinOfTwo ==
    ASSUME NEW x \in Int, NEW y \in Int
    PROVE  Min({x, y}) \in {x, y} /\ Min({x, y}) <= x /\ Min({x, y}) <= y
<1>1. \E m \in {x, y} : \A n \in {x, y} : m <= n
  <2>1. CASE x <= y
    BY <2>1
  <2>2. CASE y <= x
    BY <2>2
  <2> QED
    BY <2>1, <2>2
<1>2. /\ Min({x, y}) \in {x, y}
      /\ \A n \in {x, y} : Min({x, y}) <= n
  BY <1>1 DEF Min
<1> QED
  BY <1>2

\* What is left of a number when nothing may be negative.
LEMMA MaxWithZero ==
    ASSUME NEW x \in Int
    PROVE  Max({x, 0}) \in Nat /\ (Max({x, 0}) > 0 => Max({x, 0}) = x)
<1>1. \E m \in {x, 0} : \A n \in {x, 0} : m >= n
  <2>1. CASE x >= 0
    BY <2>1
  <2>2. CASE x < 0
    BY <2>2
  <2> QED
    BY <2>1, <2>2
<1>2. /\ Max({x, 0}) \in {x, 0}
      /\ \A n \in {x, 0} : Max({x, 0}) >= n
  BY <1>1 DEF Max
<1> QED
  BY <1>2

\* So many shares of a budget cost no more than the budget.
LEMMA Affordable ==
    ASSUME NEW budget \in Nat, NEW price \in Nat \ {0}, NEW q \in Nat,
           q <= budget \div price
    PROVE  q * price <= budget
<1> DEFINE k == budget \div price
<1>1. k \in Nat /\ k * price <= budget
  OBVIOUS
<1> HIDE DEF k
<1>2. k - q \in Nat
  BY <1>1 DEF k
<1>3. (k - q) * price >= 0
  BY <1>2
<1>4. (k - q) * price = k * price - q * price
  BY <1>1
<1> QED
  BY <1>1, <1>3, <1>4

\* A budget buys a whole number of shares.
LEMMA QuotientIsNat ==
    ASSUME NEW budget \in Nat, NEW price \in Nat \ {0}
    PROVE  budget \div price \in Nat
OBVIOUS

-----------------------------------------------------------------------------
(***************************************************************************)
(* Sums over a finite set.  What a fold of the library computes is said    *)
(* without induction over an operator: the naturals are the only set of    *)
(* them that holds 0 and the successor of each of its members.             *)
(***************************************************************************)
\* A set of numbers that starts at 0 and never stops is all of them.
LEMMA AllNaturals ==
    ASSUME NEW I \in SUBSET Nat, 0 \in I, \A n \in I : n + 1 \in I
    PROVE  I = Nat
<1> SUFFICES ASSUME Nat \ I # {} PROVE FALSE
  OBVIOUS
<1> DEFINE R == OpToRel(<, Nat)
<1>1. \A k, n \in Nat : k < n => <<k, n>> \in R
  BY Zenon DEF OpToRel
<1>2. IsWellFoundedOn(R, Nat)
  BY NatLessThanWellFounded, Zenon
<1> HIDE DEF R
<1>3. \E x \in Nat \ I : \A y \in Nat \ I : ~ (<<y, x>> \in R)
  BY <1>2, WFMin
<1>4. PICK x \in Nat \ I : \A y \in Nat \ I : ~ (<<y, x>> \in R)
  BY <1>3
<1>5. x - 1 \in Nat /\ x - 1 < x
  OBVIOUS
<1>6. x - 1 \notin I
  <2>1. x - 1 \in I => x - 1 + 1 \in I
    OBVIOUS
  <2> QED
    BY <2>1
<1>7. <<x - 1, x>> \in R
  BY <1>1, <1>5
<1> QED
  BY <1>4, <1>5, <1>6, <1>7

\* The element MapThenSumSet takes out of a set, and the function of the subsets
\* it computes for the figures v; then the same, of the small subsets only.
First(s) == CHOOSE x \in s : TRUE
Sums(S, v, g) ==
  g = [s \in SUBSET S |-> IF s = {} THEN 0 ELSE v[First(s)] + g[s \ {First(s)}]]
UpTo(S, n) == {s \in SUBSET S : Cardinality(s) <= n}
SumsUpTo(S, v, n, g) ==
  \A s \in UpTo(S, n) : g[s] = IF s = {} THEN 0 ELSE v[First(s)] + g[s \ {First(s)}]

\* A set without its first element is smaller by one.
LEMMA Smaller ==
    ASSUME NEW S, IsFiniteSet(S), NEW s \in SUBSET S, s # {}
    PROVE  /\ First(s) \in s /\ s \ {First(s)} \in SUBSET S
           /\ Cardinality(s) \in Nat /\ Cardinality(s \ {First(s)}) = Cardinality(s) - 1
           /\ Cardinality(s \ {First(s)}) \in Nat
<1>1. First(s) \in s
  BY DEF First
<1>2. IsFiniteSet(s) /\ IsFiniteSet(s \ {First(s)})
  BY FS_Subset, FS_RemoveElement
<1> QED
  BY <1>1, <1>2, FS_RemoveElement, FS_CardinalityType

\* Only the empty set has no element.
LEMMA UpToNone ==
    ASSUME NEW S, IsFiniteSet(S) PROVE UpTo(S, 0) = {{}}
<1>1. \A s \in UpTo(S, 0) : s = {}
  BY FS_Subset, FS_EmptySet, FS_CardinalityType DEF UpTo
<1>2. {} \in UpTo(S, 0)
  BY FS_EmptySet DEF UpTo
<1> QED
  BY <1>1, <1>2

\* A finite set is among its subsets of at most its size, which are all.
LEMMA UpToAll ==
    ASSUME NEW S, IsFiniteSet(S)
    PROVE  Cardinality(S) \in Nat /\ UpTo(S, Cardinality(S)) = SUBSET S
BY FS_CardinalityType, FS_Subset DEF UpTo

\* There is such a function: sums of the small subsets give those of the
\* subsets larger by one.
LEMMA SumsExist ==
    ASSUME NEW S, IsFiniteSet(S), NEW v PROVE \E g : Sums(S, v, g)
<1> DEFINE I == {n \in Nat : \E g : SumsUpTo(S, v, n, g)}
<1>1. 0 \in I
  <2>1. SumsUpTo(S, v, 0, [s \in SUBSET S |-> 0])
    BY UpToNone DEF SumsUpTo
  <2> QED
    BY <2>1
<1>2. ASSUME NEW n \in I PROVE n + 1 \in I
  <2>1. PICK g : SumsUpTo(S, v, n, g)
    OBVIOUS
  <2> DEFINE h == [s \in SUBSET S |->
                     IF s = {} THEN 0
                     ELSE v[First(s)] + (IF s \ {First(s)} = {} THEN 0 ELSE g[s \ {First(s)}])]
  <2>2. ASSUME NEW s \in UpTo(S, n + 1)
        PROVE  h[s] = IF s = {} THEN 0 ELSE v[First(s)] + h[s \ {First(s)}]
    <3>1. CASE s = {}
      BY <3>1 DEF UpTo
    <3>2. CASE s # {}
      <4> DEFINE r == s \ {First(s)}
      <4>1. s \in SUBSET S /\ r \in SUBSET S /\ Cardinality(s) <= n + 1
            /\ Cardinality(r) = Cardinality(s) - 1 /\ Cardinality(s) \in Nat
        BY <3>2, Smaller DEF UpTo
      <4>2. r \in UpTo(S, n)
        BY <4>1 DEF UpTo
      <4>3. h[s] = v[First(s)] + (IF r = {} THEN 0 ELSE g[r])
        BY <3>2, <4>1
      <4>4. h[r] = IF r = {} THEN 0 ELSE g[r]
        <5>1. CASE r = {}
          BY <5>1, <4>1
        <5>2. CASE r # {}
          <6>1. g[r] = v[First(r)] + g[r \ {First(r)}]
            BY <5>2, <4>2, <2>1 DEF SumsUpTo
          <6>2. r \ {First(r)} \in UpTo(S, n)
            BY <5>2, <4>1, <4>2, Smaller DEF UpTo
          <6>3. r \ {First(r)} = {} => g[r \ {First(r)}] = 0
            BY <6>2, <2>1 DEF SumsUpTo
          <6> QED
            BY <5>2, <6>1, <6>3, <4>1
        <5> QED
          BY <5>1, <5>2
      <4> QED
        BY <3>2, <4>3, <4>4
    <3> QED
      BY <3>1, <3>2
  <2>3. SumsUpTo(S, v, n + 1, h)
    BY <2>2 DEF SumsUpTo
  <2> QED
    BY <2>3
<1>3. I = Nat
  <2> HIDE DEF I
  <2>1. I \in SUBSET Nat
    BY DEF I
  <2> QED
    BY <1>1, <1>2, <2>1, AllNaturals
<1>4. PICK g : SumsUpTo(S, v, Cardinality(S), g)
  BY <1>3, UpToAll
<1> DEFINE h == [s \in SUBSET S |-> g[s]]
<1>5. Sums(S, v, h)
  <2>1. ASSUME NEW s \in SUBSET S
        PROVE  h[s] = IF s = {} THEN 0 ELSE v[First(s)] + h[s \ {First(s)}]
    <3>1. g[s] = IF s = {} THEN 0 ELSE v[First(s)] + g[s \ {First(s)}]
      BY <1>4, UpToAll DEF SumsUpTo
    <3>2. h[s] = g[s] /\ h[s \ {First(s)}] = g[s \ {First(s)}]
      OBVIOUS
    <3> QED
      BY <3>1, <3>2
  <2>2. h = [s \in SUBSET S |-> h[s]]
    OBVIOUS
  <2> HIDE DEF h
  <2> QED
    BY <2>1, <2>2 DEF Sums
<1> QED
  BY <1>5

\* A sum of naturals is one, and nothing just when each of them is.
LEMMA SumOfNats ==
    ASSUME NEW S, IsFiniteSet(S), NEW v, \A x \in S : v[x] \in Nat, NEW g, Sums(S, v, g)
    PROVE  g[S] \in Nat /\ (g[S] = 0 <=> \A x \in S : v[x] = 0)
<1> DEFINE Right(s) == g[s] \in Nat /\ (g[s] = 0 <=> \A x \in s : v[x] = 0)
           I == {n \in Nat : \A s \in UpTo(S, n) : Right(s)}
<1>1. ASSUME NEW s \in SUBSET S
      PROVE  g[s] = IF s = {} THEN 0 ELSE v[First(s)] + g[s \ {First(s)}]
  BY DEF Sums
<1>2. Right({})
  <2>1. g[{}] = 0
    BY <1>1
  <2> QED
    BY <2>1
<1>3. 0 \in I
  BY <1>2, UpToNone
<1>4. ASSUME NEW n \in I PROVE n + 1 \in I
  <2>1. ASSUME NEW s \in UpTo(S, n + 1) PROVE Right(s)
    <3>1. s \in SUBSET S
      BY DEF UpTo
    <3>2. CASE s # {}
      <4> DEFINE r == s \ {First(s)}
      <4>1. First(s) \in s /\ r \in UpTo(S, n)
        BY <3>1, <3>2, Smaller DEF UpTo
      <4>2. Right(r)
        BY <4>1
      <4>3. g[s] = v[First(s)] + g[r] /\ v[First(s)] \in Nat
        BY <3>1, <3>2, <4>1, <1>1
      <4>4. (\A x \in s : v[x] = 0) <=> v[First(s)] = 0 /\ \A x \in r : v[x] = 0
        BY <4>1
      <4>5. g[s] \in Nat /\ (g[s] = 0 <=> v[First(s)] = 0 /\ g[r] = 0)
        BY <4>2, <4>3
      <4> QED
        BY <4>2, <4>4, <4>5
    <3> QED
      BY <1>2, <3>2
  <2> QED
    BY <2>1
<1>5. I = Nat
  <2> HIDE DEF I
  <2>1. I \in SUBSET Nat
    BY DEF I
  <2> QED
    BY <1>3, <1>4, <2>1, AllNaturals
<1> QED
  BY <1>5, UpToAll

\* Priced shares are worth a natural number, and nothing just when there are
\* none (market_value of account_state()).
LEMMA ValueOfShares ==
    ASSUME NEW a, a.held \in [Tickers -> Nat]
    PROVE  Value(a) \in Nat /\ (Value(a) = 0 <=> \A t \in Tickers : a.held[t] = 0)
<1> DEFINE v == [t \in Tickers |-> a.held[t] * Price[t]]
           g == CHOOSE f : f = [s \in SUBSET Tickers |->
                    IF s = {} THEN 0 ELSE a.held[First(s)] * Price[First(s)] + f[s \ {First(s)}]]
<1>1. Value(a) = g[Tickers]
  BY DEF Value, MapThenSumSet, MapThenFoldSet, First
<1>2. ASSUME NEW f
      PROVE  Sums(Tickers, v, f)
               <=> f = [s \in SUBSET Tickers |->
                     IF s = {} THEN 0 ELSE a.held[First(s)] * Price[First(s)] + f[s \ {First(s)}]]
  <2>1. ASSUME NEW s \in SUBSET Tickers, s # {}
        PROVE  v[First(s)] = a.held[First(s)] * Price[First(s)]
    BY <2>1 DEF First
  <2> QED
    BY <2>1 DEF Sums
<1>3. Sums(Tickers, v, g)
  <2>1. PICK f : Sums(Tickers, v, f)
    BY SumsExist, GateAssumption
  <2>2. f = [s \in SUBSET Tickers |->
                     IF s = {} THEN 0 ELSE a.held[First(s)] * Price[First(s)] + f[s \ {First(s)}]]
    BY <1>2, <2>1
  <2>3. g = [s \in SUBSET Tickers |->
                     IF s = {} THEN 0 ELSE a.held[First(s)] * Price[First(s)] + g[s \ {First(s)}]]
    BY <2>2
  <2> QED
    BY <1>2, <2>3
<1>4. ASSUME NEW t \in Tickers
      PROVE  v[t] \in Nat /\ (v[t] = 0 <=> a.held[t] = 0)
  <2>1. v[t] = a.held[t] * Price[t] /\ a.held[t] \in Nat /\ Price[t] \in Nat \ {0}
    BY GateAssumption
  <2>2. ASSUME NEW x \in Nat, NEW y \in Nat \ {0} PROVE x * y \in Nat /\ (x * y = 0 <=> x = 0)
    OBVIOUS
  <2> QED
    BY <2>1, <2>2
<1> HIDE DEF v, g
<1>5. g[Tickers] \in Nat /\ (g[Tickers] = 0 <=> \A t \in Tickers : v[t] = 0)
  BY <1>3, <1>4, SumOfNats, GateAssumption
<1> QED
  BY <1>1, <1>4, <1>5

-----------------------------------------------------------------------------
(***************************************************************************)
(* The gate.                                                               *)
(***************************************************************************)

Figures == {"equity", "cash", "pnl", "held", "sectorValue", "count", "price",
            "vol", "corr"}

\* What the guard at the top of size() leaves: nine finite figures.
LEMMA ValidFigures ==
    ASSUME NEW i, DOMAIN i = Figures, Valid(i)
    PROVE  /\ i.equity \in Nat \ {0} /\ i.price \in Nat \ {0}
           /\ i.cash \in Nat /\ i.held \in Nat /\ i.vol \in Nat /\ i.count \in Nat
           /\ i.sectorValue \in Nat /\ i.pnl \in Int /\ i.corr \in Int
<1>1. /\ i["equity"] \in Int /\ i["cash"] \in Int /\ i["pnl"] \in Int /\ i["held"] \in Int
      /\ i["sectorValue"] \in Int /\ i["count"] \in Int /\ i["price"] \in Int
      /\ i["vol"] \in Int /\ i["corr"] \in Int
  BY DEF Figures, Valid
<1>2. /\ i.price > 0 /\ i.equity > 0
      /\ i["cash"] >= 0 /\ i["held"] >= 0 /\ i["vol"] >= 0 /\ i["count"] >= 0
      /\ i["sectorValue"] >= 0
  BY DEF Valid
<1> QED
  BY <1>1, <1>2

\* The inputs of a ticker are exactly the figures size() validates.
LEMMA InputsAreFigures ==
    ASSUME NEW m, NEW t PROVE DOMAIN Inputs(m, t) = Figures
BY DEF Inputs, Figures

\* A buy of at most what the gate computes fits the cash, the tier and the
\* sector cap: the rounding is always downwards.
LEMMA BuyFits ==
    ASSUME NEW i, DOMAIN i = Figures, Valid(i), NEW q \in Nat, q >= 1, q <= BuyQty(i)
    PROVE  /\ q * i.price <= i.cash
           /\ 10000 * q * i.price <= i.equity * VolTier(i.vol) * CorrMult(i.corr)
           /\ 100 * (i.sectorValue + q * i.price) <= SectorCap * i.equity
<1> DEFINE budget == i.equity * VolTier(i.vol) * CorrMult(i.corr)
           room == SectorCap * i.equity - 100 * i.sectorValue
           headroom == Max({room, 0})
           x == budget \div (10000 * i.price)
           y == i.cash \div i.price
           z == headroom \div (100 * i.price)
<1>1. /\ i.equity \in Nat \ {0} /\ i.price \in Nat \ {0} /\ i.cash \in Nat
      /\ i.vol \in Nat /\ i.corr \in Int /\ i.sectorValue \in Nat
  BY ValidFigures
<1>2. VolTier(i.vol) \in Nat /\ CorrMult(i.corr) \in Nat
  BY DEF VolTier, CorrMult
<1>3. budget \in Nat
  <2>1. i.equity * VolTier(i.vol) \in Nat
    BY <1>1, <1>2
  <2> QED
    BY <1>2, <2>1
<1>4. room \in Int
  BY <1>1 DEF SectorCap
<1>5. headroom \in Nat /\ (headroom > 0 => headroom = room)
  BY <1>4, MaxWithZero
<1>6. BuyQty(i) = Min({x, y, z})
  BY DEF BuyQty
<1>7. 10000 * i.price \in Nat \ {0} /\ 100 * i.price \in Nat \ {0}
  BY <1>1
<1> HIDE DEF budget, headroom, room
<1>8. x \in Nat /\ y \in Nat /\ z \in Nat
  BY <1>1, <1>3, <1>5, <1>7, QuotientIsNat
<1> HIDE DEF x, y, z
<1>9. q <= x /\ q <= y /\ q <= z
  <2>1. /\ Min({x, y, z}) \in Int
        /\ Min({x, y, z}) <= x /\ Min({x, y, z}) <= y /\ Min({x, y, z}) <= z
    BY <1>8, MinOfThree
  <2> QED
    BY <1>6, <1>8, <2>1
<1>10. q * i.price <= i.cash
  BY <1>1, <1>9, Affordable DEF y
<1>11. q * (10000 * i.price) <= budget
  BY <1>3, <1>7, <1>9, Affordable DEF x
<1>12. q * (100 * i.price) <= headroom
  BY <1>5, <1>7, <1>9, Affordable DEF z
<1>13. q * i.price \in Nat /\ q * i.price >= 1
  BY <1>1
<1>14. /\ q * (10000 * i.price) = 10000 * q * i.price
       /\ q * (100 * i.price) = 100 * (q * i.price)
  BY <1>1
<1>15. headroom = room /\ 100 * (q * i.price) <= room
  BY <1>5, <1>12, <1>13, <1>14
<1>16. 100 * (i.sectorValue + q * i.price) <= SectorCap * i.equity
  BY <1>1, <1>4, <1>13, <1>15 DEF room, SectorCap
<1> QED
  BY <1>10, <1>11, <1>14, <1>16 DEF budget

\* What size() approves, whole or in part, fits alone every limit of the
\* reading it was sized on: size() and the limits are two computations.
LEMMA ApprovedFits ==
    ASSUME NEW m, NEW t, NEW side \in {"buy", "sell"}, NEW q \in Nat, q >= 1,
           q <= Allowed(m, t, side).qty
    PROVE  FitsAlone(m, t, side, q)
<1> DEFINE i == Inputs(m, t)
<1>1. DOMAIN i = Figures /\ q <= Size(i, side).qty
  BY InputsAreFigures DEF Allowed
<1> SUFFICES /\ Valid(i)
             /\ side = "sell" => q <= i.held
             /\ side = "buy" =>
                  /\ q * i.price <= i.cash
                  /\ 10000 * q * i.price <= i.equity * VolTier(i.vol) * CorrMult(i.corr)
                  /\ 100 * (i.sectorValue + q * i.price) <= SectorCap * i.equity
                  /\ i.held > 0 \/ i.count < MaxPositions
                  /\ i.pnl > CircuitBreaker
  BY DEF FitsAlone
<1> HIDE DEF i
<1>2. ASSUME NEW why, Size(i, side) = Rejected(why) PROVE FALSE
  <2>1. Size(i, side).qty = 0
    BY <1>2 DEF Rejected
  <2> QED
    BY <1>1, <2>1
<1>3. Valid(i)
  BY <1>2 DEF Size
<1>4. /\ i.held \in Nat /\ i.count \in Nat /\ i.pnl \in Int
  BY <1>1, <1>3, ValidFigures
<1>5. CASE side = "sell"
  <2>1. i.held > 0 /\ Size(i, side) = Approved(i.held)
    BY <1>2, <1>3, <1>5 DEF Size
  <2>2. q <= i.held
    BY <1>1, <2>1 DEF Approved
  <2> QED
    BY <1>3, <1>5, <2>2
<1>6. CASE side = "buy"
  <2>1. /\ ~ (i.pnl <= CircuitBreaker)
        /\ ~ (i.held = 0 /\ i.count >= MaxPositions)
        /\ Size(i, side) = Approved(BuyQty(i))
    BY <1>2, <1>3, <1>6 DEF Size
  <2>2. q <= BuyQty(i)
    BY <1>1, <2>1 DEF Approved
  <2>3. i.pnl > CircuitBreaker
    BY <1>4, <2>1 DEF CircuitBreaker
  <2>4. i.held > 0 \/ i.count < MaxPositions
    BY <1>4, <2>1, GateAssumption
  <2> QED
    BY <1>1, <1>3, <1>6, <2>2, <2>3, <2>4, BuyFits
<1> QED
  BY <1>5, <1>6

\* Whatever it answers is a number of shares.
LEMMA BuyIsInt ==
    ASSUME NEW i, DOMAIN i = Figures, Valid(i) PROVE BuyQty(i) \in Int
<1> DEFINE budget == i.equity * VolTier(i.vol) * CorrMult(i.corr)
           headroom == Max({SectorCap * i.equity - 100 * i.sectorValue, 0})
           x == budget \div (10000 * i.price)
           y == i.cash \div i.price
           z == headroom \div (100 * i.price)
<1>1. /\ i.equity \in Nat \ {0} /\ i.price \in Nat \ {0} /\ i.cash \in Nat
      /\ i.sectorValue \in Nat
  BY ValidFigures
<1>2. VolTier(i.vol) \in Nat /\ CorrMult(i.corr) \in Nat
  BY DEF VolTier, CorrMult
<1>3. budget \in Nat
  <2>1. i.equity * VolTier(i.vol) \in Nat
    BY <1>1, <1>2
  <2> QED
    BY <1>2, <2>1
<1>4. SectorCap * i.equity - 100 * i.sectorValue \in Int
  BY <1>1 DEF SectorCap
<1>5. headroom \in Nat
  BY <1>4, MaxWithZero
<1>6. 10000 * i.price \in Nat \ {0} /\ 100 * i.price \in Nat \ {0}
  BY <1>1
<1>7. BuyQty(i) = Min({x, y, z})
  BY DEF BuyQty
<1> HIDE DEF budget, headroom
<1>8. x \in Nat /\ y \in Nat /\ z \in Nat
  BY <1>1, <1>3, <1>5, <1>6, QuotientIsNat
<1> HIDE DEF x, y, z
<1>9. /\ Min({x, y, z}) \in Int
      /\ Min({x, y, z}) <= x /\ Min({x, y, z}) <= y /\ Min({x, y, z}) <= z
  <2>1. x \in Int /\ y \in Int /\ z \in Int
    BY <1>8
  <2> QED
    BY <2>1, MinOfThree, Zenon
<1> QED
  BY <1>7, <1>9

\* What is allowed is a whole number, also of inputs that are not.
LEMMA AllowedIsInt ==
    ASSUME NEW m, NEW t, NEW side PROVE Allowed(m, t, side).qty \in Int
<1> DEFINE i == Inputs(m, t)
<1>1. DOMAIN i = Figures
  BY InputsAreFigures
<1> HIDE DEF i
<1>2. \A why : Rejected(why).qty = 0
  BY DEF Rejected
<1>3. ASSUME Valid(i) PROVE i.held \in Int /\ BuyQty(i) \in Int
  BY <1>1, <1>3, ValidFigures, BuyIsInt
<1>4. Size(i, side).qty \in Int
  BY <1>2, <1>3 DEF Size, Approved
<1> QED
  BY <1>4 DEF Allowed, i

-----------------------------------------------------------------------------
(***************************************************************************)
(* Where the process is, and the stages behind it.                         *)
(***************************************************************************)
Rank == [off |-> 0, ingest |-> 1, pre_gate |-> 2, research |-> 3, decision |-> 4,
         gate |-> 5, execution |-> 6, reconciliation |-> 7, protect |-> 8,
         close |-> 9, report |-> 10]

Steps(s) ==
  CASE s = "off" -> {"off"}
    [] s = "ingest" -> {"account", "positions", "market", "config", "refuse"}
    [] s = "pre_gate" -> {"start", "offer", "end"}
    [] s = "research" -> {"start", "turn", "cost", "default", "end"}
    [] s = "decision" -> {"start", "turn", "cost", "default", "hold", "end"}
    [] s = "protect" -> {"start", "nap", "orders", "protected"}
    [] s = "close" -> {"start", "journal", "end"}
    [] s = "report" -> {"start", "audit", "red"}
    [] OTHER -> {"start", "end"}

Places == {<<s, step>> : s \in DOMAIN Rank, step \in
             {"off", "account", "positions", "market", "config", "refuse", "start",
              "offer", "turn", "cost", "default", "hold", "end", "nap", "orders",
              "protected", "journal", "audit", "red"}}

\* The stages checkpointed are those before the one the process is in, and
\* perhaps more of an earlier fire; never one whose body is under way.
Ladder ==
  /\ at \in Places /\ at[2] \in Steps(at[1])
  /\ done \subseteq Stages
  /\ \A r, s \in Stages : s \in done /\ Rank[r] < Rank[s] => r \in done
  /\ \A r \in Stages : Rank[r] < Rank[at[1]] => r \in done
  /\ at[2] # "start" => at[1] \notin done

StageNames == {"pre_gate", "research", "decision", "gate", "execution",
               "reconciliation", "close"}

\* The checkpointed stages, listed.
LEMMA StagesAre == Stages = StageNames
<1>1. ToSet(Path) = {"ingest", "pre_gate", "research", "decision", "gate",
                     "execution", "reconciliation", "protect", "close", "report"}
  BY DEF ToSet, Path
<1> QED
  BY <1>1 DEF Stages, StageNames

\* The stage after each of them.
LEMMA AfterIs ==
  /\ After("pre_gate") = "research" /\ After("research") = "decision"
  /\ After("decision") = "gate" /\ After("gate") = "execution"
  /\ After("execution") = "reconciliation" /\ After("reconciliation") = "protect"
  /\ After("close") = "report"
<1>1. DOMAIN Path = 1 .. 10
  BY DEF Path
<1>2. ASSUME NEW s, NEW k \in 1 .. 9, Path[k] = s,
             \A j \in 1 .. 10 : Path[j] = s => j = k
      PROVE  After(s) = Path[k + 1]
  <2>1. (CHOOSE j \in DOMAIN Path : Path[j] = s) = k
    BY <1>1, <1>2
  <2>2. 1 + k = k + 1
    OBVIOUS
  <2>3. After(s) = Path[1 + k]
    BY <2>1 DEF After
  <2> QED
    BY <2>2, <2>3
<1>3. /\ Path[1] = "ingest" /\ Path[2] = "pre_gate" /\ Path[3] = "research"
      /\ Path[4] = "decision" /\ Path[5] = "gate" /\ Path[6] = "execution"
      /\ Path[7] = "reconciliation" /\ Path[8] = "protect" /\ Path[9] = "close"
      /\ Path[10] = "report"
  BY DEF Path
<1>4. \A j \in 1 .. 10 : j \in {1, 2, 3, 4, 5, 6, 7, 8, 9, 10}
  OBVIOUS
<1>5. \A j, k \in {1, 2, 3, 4, 5, 6, 7, 8, 9, 10} : Path[j] = Path[k] => j = k
  BY <1>3
<1>6. \A k \in {2, 3, 4, 5, 6, 7, 9} : After(Path[k]) = Path[k + 1]
  <2> SUFFICES ASSUME NEW k \in {2, 3, 4, 5, 6, 7, 9} PROVE After(Path[k]) = Path[k + 1]
    OBVIOUS
  <2>1. k \in 1 .. 9
    OBVIOUS
  <2>2. \A j \in 1 .. 10 : Path[j] = Path[k] => j = k
    BY <1>4, <1>5
  <2> QED
    BY <1>2, <2>1, <2>2
<1> QED
  BY <1>3, <1>6

\* The steps of the code, by name, and the stage each belongs to.
LEMMA Where ==
    ASSUME Ladder
    PROVE  /\ at = <<at[1], at[2]>> /\ at[1] \in DOMAIN Rank
           /\ at[2] \in {"account", "positions", "market", "config", "refuse"}
                => at[1] = "ingest"
           /\ at[2] = "offer" => at[1] = "pre_gate"
           /\ at[2] \in {"turn", "cost", "default"} => at[1] \in {"research", "decision"}
           /\ at[2] = "hold" => at[1] = "decision"
           /\ at[2] = "end" => at[1] \in StageNames
           /\ at[2] \in {"nap", "orders", "protected"} => at[1] = "protect"
           /\ at[2] = "journal" => at[1] = "close"
           /\ at[2] \in {"audit", "red"} => at[1] = "report"
           /\ at[2] = "start" => at[1] \notin {"off", "ingest"}
           /\ at[1] = "off" <=> at = Off
<1>1. PICK s, step : s \in DOMAIN Rank /\ at = <<s, step>>
  BY DEF Ladder, Places
<1>2. at[1] = s /\ at[2] = step
  BY <1>1
<1>3. s \in {"off", "ingest", "pre_gate", "research", "decision", "gate", "execution",
             "reconciliation", "protect", "close", "report"}
  <2>1. DOMAIN Rank = {"off", "ingest", "pre_gate", "research", "decision",
             "gate", "execution", "reconciliation", "protect", "close", "report"}
    BY DEF Rank
  <2> QED BY <1>1, <2>1
<1>4. step \in Steps(s)
  BY <1>2 DEF Ladder
<1> QED
  BY <1>1, <1>2, <1>3, <1>4 DEF Steps, Off, StageNames

\* The ranks tell the stages apart and leave room before and after.
LEMMA Ranks ==
  /\ \A r, s \in StageNames : Rank[r] = Rank[s] => r = s
  /\ \A s \in StageNames : Rank[s] \in 2 .. 9 /\ Rank[s] # 8
  /\ \A s \in DOMAIN Rank : Rank[s] \in 0 .. 10
  /\ StageNames \subseteq DOMAIN Rank
BY DEF Rank, StageNames

\* The stage after one ranks one higher.
LEMMA RankAfter ==
    ASSUME NEW s \in StageNames
    PROVE  /\ After(s) \in DOMAIN Rank /\ Rank[After(s)] = Rank[s] + 1
           /\ After(s) \notin {"off", "ingest"}
BY AfterIs DEF Rank, StageNames

\* Every stage starts at its start.
LEMMA StartIsStep ==
    ASSUME NEW s \in DOMAIN Rank, s \notin {"off", "ingest"} PROVE "start" \in Steps(s)
BY DEF Rank, Steps

\* The process moves within its stage.
LEMMA Stays ==
    ASSUME Ladder, done' = done, NEW step, at' = <<at[1], step>>,
           <<at[1], step>> \in Places, step \in Steps(at[1]),
           step # "start" => at[1] \notin done
    PROVE  Ladder'
<1>1. at'[1] = at[1] /\ at'[2] = step
  OBVIOUS
<1> QED
  BY <1>1 DEF Ladder

\* It dies, is refused, or has done its work.
LEMMA GoesOff ==
    ASSUME Ladder, done' = done, at' = Off PROVE Ladder'
<1>1. at'[1] = "off" /\ at'[2] = "off" /\ at' \in Places
  BY DEF Off, Places, Rank
<1>2. "off" \in Steps("off") /\ "off" \notin StageNames
  BY DEF Steps, StageNames
<1>3. \A r \in StageNames : ~ (Rank[r] < Rank["off"])
  BY DEF Rank, StageNames
<1> QED
  BY <1>1, <1>2, <1>3, StagesAre DEF Ladder

\* It goes on to a later stage, all those before it being done.
LEMMA GoesTo ==
    ASSUME Ladder, NEW s \in DOMAIN Rank, s \notin {"off", "ingest"},
           at' = <<s, "start">>,
           done' \subseteq Stages,
           \A q, r \in Stages : r \in done' /\ Rank[q] < Rank[r] => q \in done',
           \A r \in Stages : Rank[r] < Rank[s] => r \in done'
    PROVE  Ladder'
<1>1. at'[1] = s /\ at'[2] = "start" /\ at' \in Places
  BY DEF Places
<1> QED
  BY <1>1, StartIsStep DEF Ladder

\* A stage that ends is checkpointed and the next one starts.
LEMMA NextStageStarts ==
    ASSUME Ladder, at[1] \in StageNames, done' = done \cup {at[1]},
           at' = <<After(at[1]), "start">>
    PROVE  Ladder'
<1> DEFINE s == at[1]
<1>1. /\ After(s) \in DOMAIN Rank /\ Rank[After(s)] = Rank[s] + 1
      /\ After(s) \notin {"off", "ingest"}
  BY RankAfter
<1>2. ASSUME NEW r \in Stages, Rank[r] < Rank[s] + 1 PROVE r \in done'
  <2>1. Rank[r] < Rank[s] \/ Rank[r] = Rank[s]
    BY <1>2, Ranks, StagesAre
  <2>2. CASE Rank[r] < Rank[s]
    BY <2>2 DEF Ladder
  <2>3. CASE Rank[r] = Rank[s]
    BY <2>3, Ranks, StagesAre
  <2> QED
    BY <2>1, <2>2, <2>3
<1>3. ASSUME NEW q \in Stages, NEW r \in Stages, r \in done', Rank[q] < Rank[r]
      PROVE  q \in done'
  <2>1. CASE r \in done
    BY <1>3, <2>1 DEF Ladder
  <2>2. CASE r = s
    BY <1>3, <2>2 DEF Ladder
  <2> QED
    BY <1>3, <2>1, <2>2
<1>4. done' \subseteq Stages
  BY StagesAre DEF Ladder
<1> QED
  BY <1>1, <1>2, <1>3, <1>4, GoesTo

\* From protect to the close: there is no checkpoint to pass.
LEMMA CloseStarts ==
    ASSUME Ladder, at[1] = "protect", done' = done, at' = <<"close", "start">>
    PROVE  Ladder'
<1>1. ASSUME NEW r \in Stages, Rank[r] < Rank["close"] PROVE r \in done'
  <2>1. Rank["close"] = 9 /\ Rank["protect"] = 8
    BY DEF Rank
  <2>2. Rank[r] < Rank["protect"]
    BY <1>1, <2>1, Ranks, StagesAre
  <2> QED
    BY <2>2 DEF Ladder
<1>2. "close" \in DOMAIN Rank
  BY DEF Rank
<1> QED
  BY <1>1, <1>2, GoesTo DEF Ladder

\* A new process.
LEMMA DayStarts ==
    ASSUME Ladder, done' = done,
           \/ at' = <<"ingest", "account">>
           \/ at' = <<"pre_gate", "start">>
    PROVE  Ladder'
<1>1. \A r \in Stages : ~ (Rank[r] < Rank["ingest"]) /\ ~ (Rank[r] < Rank["pre_gate"])
  BY StagesAre DEF Rank, StageNames
<1>2. "pre_gate" \in DOMAIN Rank
  BY DEF Rank
<1>3. CASE at' = <<"pre_gate", "start">>
  BY <1>1, <1>2, <1>3, GoesTo DEF Ladder
<1>4. CASE at' = <<"ingest", "account">>
  <2>1. at' \in Places /\ at'[1] = "ingest" /\ at'[2] = "account"
    BY <1>4 DEF Places, Rank
  <2>2. "account" \in Steps("ingest") /\ "ingest" \notin Stages
    BY StagesAre DEF Steps, StageNames
  <2> QED
    BY <1>1, <2>1, <2>2 DEF Ladder
<1> QED
  BY <1>3, <1>4

\* A step of a stage's body, to another step of the same.
LEMMA StepsOn ==
    ASSUME Ladder, done' = done, NEW step, Goto(step), step \in Steps(at[1]),
           step \in {"account", "positions", "market", "config", "refuse", "offer",
                     "turn", "cost", "default", "hold", "end", "nap", "orders",
                     "protected", "journal", "audit", "red"},
           \/ at[2] # "start"
           \/ at[1] \notin done
    PROVE  Ladder'
<1>1. at[1] \notin done
  BY DEF Ladder
<1>2. <<at[1], step>> \in Places
  BY Where DEF Places
<1> QED
  BY <1>1, <1>2, Stays DEF Goto

\* The stages without a checkpoint.
LEMMA NoCheckpoint ==
    ASSUME Ladder PROVE "ingest" \notin done /\ "protect" \notin done /\ "report" \notin done
BY StagesAre DEF Ladder, StageNames

\* What leaves the process where it is, and the stages done.
Pauses ==
  \/ FindClosed
  \/ \E t \in Tickers :
       \/ \E s \in Seats : SubmitSignal(s, t)
       \/ \E ask \in Asks : SubmitDecision(t, ask)
       \/ Hold(t) \/ SettleTicket(t) \/ Expire(t) \/ OrderDies(t) \/ Execute(t)
       \/ ListLeg(t) \/ StopFires(t)
  \/ SettleDecision
  \/ \E w \in Writers : WriteJournal(w)

\* These steps stay where the day is.
LEMMA PausesStand == Pauses => UNCHANGED <<at, done>>
<1> SUFFICES ASSUME Pauses PROVE UNCHANGED <<at, done>>
  OBVIOUS
<1> USE DEF process, locals, tables, quiet
<1>1. CASE FindClosed
  BY <1>1 DEF FindClosed
<1>2. ASSUME NEW t \in Tickers, NEW s \in Seats, SubmitSignal(s, t)
      PROVE  UNCHANGED <<at, done>>
  BY <1>2 DEF SubmitSignal
<1>3. ASSUME NEW t \in Tickers, NEW ask \in Asks, SubmitDecision(t, ask)
      PROVE  UNCHANGED <<at, done>>
  BY <1>3 DEF SubmitDecision
<1>4. ASSUME NEW t \in Tickers, Hold(t) \/ SettleTicket(t) PROVE UNCHANGED <<at, done>>
  BY <1>4 DEF Hold, SettleTicket
<1>5. ASSUME NEW t \in Tickers, Expire(t) \/ OrderDies(t) \/ Execute(t)
      PROVE  UNCHANGED <<at, done>>
  BY <1>5 DEF Expire, OrderDies, Execute
<1>6. ASSUME NEW t \in Tickers, ListLeg(t) \/ StopFires(t) PROVE UNCHANGED <<at, done>>
  BY <1>6 DEF ListLeg, StopFires
<1>7. CASE SettleDecision
  BY <1>7 DEF SettleDecision
<1>8. ASSUME NEW w \in Writers, WriteJournal(w) PROVE UNCHANGED <<at, done>>
  BY <1>8 DEF WriteJournal
<1> QED
  BY <1>1, <1>2, <1>3, <1>4, <1>5, <1>6, <1>7, <1>8 DEF Pauses

\* Every step keeps the order of the stages.
LEMMA LadderStep == Ladder /\ [Next]_vars => Ladder'
<1> SUFFICES ASSUME Ladder, [Next]_vars PROVE Ladder'
  OBVIOUS
<1> USE DEF process, locals, tables, quiet
<1>a. CASE UNCHANGED <<at, done>>
  BY <1>a DEF Ladder
<1>b. CASE Pauses
  BY <1>a, <1>b, PausesStand
<1>c. CASE UNCHANGED vars
  BY <1>a, <1>c DEF vars
<1>d. /\ at[1] \in DOMAIN Rank /\ at = <<at[1], at[2]>>
  BY Where
<1>1. CASE ReadAccount
  <2>1. /\ at[1] = "ingest" /\ done' = done
    BY <1>1, Where DEF ReadAccount, At
  <2>2. \E step \in {"positions"} : Goto(step)
    BY <1>1 DEF ReadAccount
  <2>3. {"positions"} \subseteq Steps(at[1])
    BY <2>1 DEF Steps
  <2>4. at[2] # "start" \/ at[1] \notin done
    BY <1>1, <2>1, NoCheckpoint DEF ReadAccount, At
  <2> QED
    BY <2>1, <2>2, <2>3, <2>4, StepsOn
<1>2. CASE ReadPositions
  <2>1. /\ at[1] = "ingest" /\ done' = done
    BY <1>2, Where DEF ReadPositions, At
  <2>2. \E step \in {"market", "account", "refuse"} : Goto(step)
    BY <1>2 DEF ReadPositions
  <2>3. {"market", "account", "refuse"} \subseteq Steps(at[1])
    BY <2>1 DEF Steps
  <2>4. at[2] # "start" \/ at[1] \notin done
    BY <1>2, <2>1, NoCheckpoint DEF ReadPositions, At
  <2> QED
    BY <2>1, <2>2, <2>3, <2>4, StepsOn
<1>3. CASE FetchMarket
  <2>1. /\ at[1] = "ingest" /\ done' = done
    BY <1>3, Where DEF FetchMarket, At
  <2>2. \E step \in {"config"} : Goto(step)
    BY <1>3 DEF FetchMarket
  <2>3. {"config"} \subseteq Steps(at[1])
    BY <2>1 DEF Steps
  <2>4. at[2] # "start" \/ at[1] \notin done
    BY <1>3, <2>1, NoCheckpoint DEF FetchMarket, At
  <2> QED
    BY <2>1, <2>2, <2>3, <2>4, StepsOn
<1>4. CASE AlertGateErrors
  <2>1. /\ at[1] = "pre_gate" /\ done' = done
        /\ at[1] \notin done
    BY <1>4, Where DEF AlertGateErrors, At, Starts
  <2>2. \E step \in {"offer"} : Goto(step)
    BY <1>4 DEF AlertGateErrors
  <2>3. {"offer"} \subseteq Steps(at[1])
    BY <2>1 DEF Steps
  <2> QED
    BY <2>1, <2>2, <2>3, StepsOn
<1>5. CASE Offer
  <2>1. /\ at[1] = "pre_gate" /\ done' = done
    BY <1>5, Where DEF Offer, At
  <2>2. \E step \in {"end"} : Goto(step)
    BY <1>5 DEF Offer
  <2>3. {"end"} \subseteq Steps(at[1])
    BY <2>1 DEF Steps
  <2>4. at[2] # "start" \/ at[1] \notin done
    BY <1>5, <2>1, NoCheckpoint DEF Offer, At
  <2> QED
    BY <2>1, <2>2, <2>3, <2>4, StepsOn
<1>6. CASE StartResearch
  <2>1. /\ at[1] = "research" /\ done' = done
        /\ at[1] \notin done
    BY <1>6, Where DEF StartResearch, At, Starts
  <2>2. \E step \in {"default", "turn"} : Goto(step)
    BY <1>6 DEF StartResearch
  <2>3. {"default", "turn"} \subseteq Steps(at[1])
    BY <2>1 DEF Steps
  <2> QED
    BY <2>1, <2>2, <2>3, StepsOn
<1>7. CASE EndTurn
  <2>1. /\ at[1] \in {"research", "decision"} /\ done' = done
    BY <1>7, Where DEF EndTurn, At
  <2>2. \E step \in {"cost", "default"} : Goto(step)
    BY <1>7 DEF EndTurn
  <2>3. {"cost", "default"} \subseteq Steps(at[1])
    BY <2>1 DEF Steps
  <2>4. at[2] # "start" \/ at[1] \notin done
    BY <1>7, <2>1, NoCheckpoint DEF EndTurn, At
  <2> QED
    BY <2>1, <2>2, <2>3, <2>4, StepsOn
<1>8. CASE RecordCost
  <2>1. /\ at[1] \in {"research", "decision"} /\ done' = done
    BY <1>8, Where DEF RecordCost, At
  <2>2. \E step \in {"default"} : Goto(step)
    BY <1>8 DEF RecordCost
  <2>3. {"default"} \subseteq Steps(at[1])
    BY <2>1 DEF Steps
  <2>4. at[2] # "start" \/ at[1] \notin done
    BY <1>8, <2>1, NoCheckpoint DEF RecordCost, At
  <2> QED
    BY <2>1, <2>2, <2>3, <2>4, StepsOn
<1>9. CASE DefaultSignals
  <2>1. /\ at[1] = "research" /\ done' = done
    BY <1>9, Where DEF DefaultSignals, At
  <2>2. \E step \in {"end"} : Goto(step)
    BY <1>9 DEF DefaultSignals
  <2>3. {"end"} \subseteq Steps(at[1])
    BY <2>1 DEF Steps
  <2>4. at[2] # "start" \/ at[1] \notin done
    BY <1>9, <2>1, NoCheckpoint DEF DefaultSignals, At
  <2> QED
    BY <2>1, <2>2, <2>3, <2>4, StepsOn
<1>10. CASE DefaultCritiques
  <2>1. /\ at[1] = "decision" /\ done' = done
        /\ at[1] \notin done
    BY <1>10, Where DEF DefaultCritiques, At, Starts
  <2>2. \E step \in {"default", "turn"} : Goto(step)
    BY <1>10 DEF DefaultCritiques
  <2>3. {"default", "turn"} \subseteq Steps(at[1])
    BY <2>1 DEF Steps
  <2> QED
    BY <2>1, <2>2, <2>3, StepsOn
<1>11. ASSUME NEW t \in Tickers, AlertTimeout(t) PROVE Ladder'
  <2>1. /\ at[1] = "decision" /\ done' = done
    BY <1>11, Where DEF AlertTimeout, At
  <2>2. \E step \in {"hold"} : Goto(step)
    BY <1>11 DEF AlertTimeout
  <2>3. {"hold"} \subseteq Steps(at[1])
    BY <2>1 DEF Steps
  <2>4. at[2] # "start" \/ at[1] \notin done
    BY <1>11, <2>1, NoCheckpoint DEF AlertTimeout, At
  <2> QED
    BY <2>1, <2>2, <2>3, <2>4, StepsOn
<1>12. CASE DefaultHold
  <2>1. /\ at[1] = "decision" /\ done' = done
    BY <1>12, Where DEF DefaultHold, At
  <2>2. \E step \in {"default"} : Goto(step)
    BY <1>12 DEF DefaultHold
  <2>3. {"default"} \subseteq Steps(at[1])
    BY <2>1 DEF Steps
  <2>4. at[2] # "start" \/ at[1] \notin done
    BY <1>12, <2>1, NoCheckpoint DEF DefaultHold, At
  <2> QED
    BY <2>1, <2>2, <2>3, <2>4, StepsOn
<1>13. CASE EndDecision
  <2>1. /\ at[1] = "decision" /\ done' = done
    BY <1>13, Where DEF EndDecision, At
  <2>2. \E step \in {"end"} : Goto(step)
    BY <1>13 DEF EndDecision
  <2>3. {"end"} \subseteq Steps(at[1])
    BY <2>1 DEF Steps
  <2>4. at[2] # "start" \/ at[1] \notin done
    BY <1>13, <2>1, NoCheckpoint DEF EndDecision, At
  <2> QED
    BY <2>1, <2>2, <2>3, <2>4, StepsOn
<1>14. CASE EndGate
  <2>1. /\ at[1] = "gate" /\ done' = done
        /\ at[1] \notin done
    BY <1>14, Where DEF EndGate, At, Starts
  <2>2. \E step \in {"end"} : Goto(step)
    BY <1>14 DEF EndGate
  <2>3. {"end"} \subseteq Steps(at[1])
    BY <2>1 DEF Steps
  <2> QED
    BY <2>1, <2>2, <2>3, StepsOn
<1>15. CASE EndExecution
  <2>1. /\ at[1] = "execution" /\ done' = done
        /\ at[1] \notin done
    BY <1>15, Where DEF EndExecution, At, Starts
  <2>2. \E step \in {"end"} : Goto(step)
    BY <1>15 DEF EndExecution
  <2>3. {"end"} \subseteq Steps(at[1])
    BY <2>1 DEF Steps
  <2> QED
    BY <2>1, <2>2, <2>3, StepsOn
<1>16. CASE Reconcile
  <2>1. /\ at[1] = "reconciliation" /\ done' = done
        /\ at[1] \notin done
    BY <1>16, Where DEF Reconcile, At, Starts
  <2>2. \E step \in {"end"} : Goto(step)
    BY <1>16 DEF Reconcile
  <2>3. {"end"} \subseteq Steps(at[1])
    BY <2>1 DEF Steps
  <2> QED
    BY <2>1, <2>2, <2>3, StepsOn
<1>17. CASE ListPositions
  <2>1. /\ at[1] = "protect" /\ done' = done
    BY <1>17, Where DEF ListPositions, At
  <2>2. \E step \in {"orders"} : Goto(step)
    BY <1>17 DEF ListPositions
  <2>3. {"orders"} \subseteq Steps(at[1])
    BY <2>1 DEF Steps
  <2>4. at[2] # "start" \/ at[1] \notin done
    BY <1>17, <2>1, NoCheckpoint DEF ListPositions, At
  <2> QED
    BY <2>1, <2>2, <2>3, <2>4, StepsOn
<1>18. CASE CannotVerify
  <2>1. /\ at[1] = "protect" /\ done' = done
    BY <1>18, Where DEF CannotVerify, At
  <2>2. \E step \in {"protected"} : Goto(step)
    BY <1>18 DEF CannotVerify
  <2>3. {"protected"} \subseteq Steps(at[1])
    BY <2>1 DEF Steps
  <2>4. at[2] # "start" \/ at[1] \notin done
    BY <1>18, <2>1, NoCheckpoint DEF CannotVerify, At
  <2> QED
    BY <2>1, <2>2, <2>3, <2>4, StepsOn
<1>19. CASE WriteDigest
  <2>1. /\ at[1] = "close" /\ done' = done
        /\ at[1] \notin done
    BY <1>19, Where DEF WriteDigest, At, Starts
  <2>2. \E step \in {"journal"} : Goto(step)
    BY <1>19 DEF WriteDigest
  <2>3. {"journal"} \subseteq Steps(at[1])
    BY <2>1 DEF Steps
  <2> QED
    BY <2>1, <2>2, <2>3, StepsOn
<1>20. CASE EndClose
  <2>1. /\ at[1] = "close" /\ done' = done
    BY <1>20, Where DEF EndClose, At
  <2>2. \E step \in {"end"} : Goto(step)
    BY <1>20 DEF EndClose
  <2>3. {"end"} \subseteq Steps(at[1])
    BY <2>1 DEF Steps
  <2>4. at[2] # "start" \/ at[1] \notin done
    BY <1>20, <2>1, NoCheckpoint DEF EndClose, At
  <2> QED
    BY <2>1, <2>2, <2>3, <2>4, StepsOn
<1>21. CASE PostScorecard
  <2>1. /\ at[1] = "report" /\ done' = done
    BY <1>21, Where DEF PostScorecard, At
  <2>2. \E step \in {"audit"} : Goto(step)
    BY <1>21 DEF PostScorecard
  <2>3. {"audit"} \subseteq Steps(at[1])
    BY <2>1 DEF Steps
  <2>4. at[2] # "start" \/ at[1] \notin done
    BY <1>21, <2>1, NoCheckpoint DEF PostScorecard, At
  <2> QED
    BY <2>1, <2>2, <2>3, <2>4, StepsOn
<1>22. CASE Fire
  BY <1>22, DayStarts DEF Fire
<1>23. CASE CheckConfig
  BY <1>23, DayStarts DEF CheckConfig
<1>24. CASE Refuse \/ EndRed \/ Raise \/ Crash
  BY <1>24, GoesOff DEF Refuse, EndRed, Raise, Crash, Stops
<1>25. CASE SkipStage
  <2>1. at[1] \in done /\ done' = done /\ at' = <<After(at[1]), "start">>
    BY <1>25 DEF SkipStage
  <2>2. at[1] \in StageNames /\ done' = done \cup {at[1]}
    BY <2>1, StagesAre DEF Ladder
  <2> QED
    BY <2>1, <2>2, NextStageStarts
<1>26. CASE EndStage
  <2>1. at[1] \in StageNames
    BY <1>26, Where DEF EndStage, At
  <2> QED
    BY <1>26, <2>1, NextStageStarts DEF EndStage
<1>27. CASE ListOrders
  <2>1. at[1] = "protect" /\ at[2] = "orders" /\ done' = done
    BY <1>27, Where DEF ListOrders, At
  <2>2. CASE \E step \in {"nap", "protected"} : Goto(step)
    <3>1. {"nap", "protected"} \subseteq Steps(at[1])
      BY <2>1 DEF Steps
    <3> QED
      BY <2>1, <2>2, <3>1, StepsOn
  <2>3. CASE at' = <<"close", "start">>
    BY <2>1, <2>3, CloseStarts
  <2> QED
    BY <1>27, <2>2, <2>3 DEF ListOrders
<1>28. CASE EndProtect
  <2>1. at[1] = "protect" /\ done' = done /\ at' = <<"close", "start">>
    BY <1>28, Where DEF EndProtect, At
  <2> QED
    BY <2>1, CloseStarts
<1>29. CASE Audit
  <2>1. at[1] = "report" /\ at[2] = "audit" /\ done' = done
    BY <1>29, Where DEF Audit, At
  <2>2. CASE at' = Off
    BY <2>1, <2>2, GoesOff
  <2>3. CASE Goto("red")
    <3>1. "red" \in Steps(at[1])
      BY <2>1 DEF Steps
    <3> QED
      BY <2>1, <2>3, <3>1, StepsOn
  <2> QED
    BY <1>29, <2>2, <2>3 DEF Audit, Stops
<1>e. CASE Ingest
  BY <1>b, <1>e, <1>1, <1>2, <1>3, <1>22, <1>23, <1>24 DEF Ingest, Pauses
<1>f. CASE Desks
  BY <1>b, <1>f, <1>4, <1>5, <1>6, <1>7, <1>8, <1>9, <1>10, <1>11, <1>12, <1>13 DEF Desks, Pauses
<1>g. CASE Trade
  BY <1>b, <1>g, <1>14, <1>15, <1>16 DEF Trade, Pauses
<1>h. CASE Report
  BY <1>b, <1>h, <1>17, <1>18, <1>19, <1>20, <1>21, <1>24, <1>27, <1>28, <1>29 DEF Report, Pauses
<1> QED
  BY <1>b, <1>c, <1>e, <1>f, <1>g, <1>h, <1>24, <1>25, <1>26 DEF Next, Pauses

-----------------------------------------------------------------------------
(***************************************************************************)
(* What the steps touch.                                                   *)
(***************************************************************************)
Wakening == Fire \/ FindClosed

Signalling ==
  DefaultSignals \/ \E s \in Seats, t \in Tickers : SubmitSignal(s, t)

Dealing ==
  \/ \E t \in Tickers :
       \/ \E ask \in Asks : SubmitDecision(t, ask)
       \/ AlertTimeout(t) \/ Hold(t) \/ SettleTicket(t)
       \/ Expire(t) \/ OrderDies(t) \/ Execute(t)
  \/ DefaultHold \/ SettleDecision

Watching == ListPositions \/ ListOrders \/ CannotVerify \/ EndProtect

Writing == WriteDigest \/ \E w \in Writers : WriteJournal(w)

TheBroker == \E t \in Tickers : ListLeg(t) \/ StopFires(t)

\* The others: no row of the books, of the close and of the account is theirs.
Others ==
  \/ ReadAccount \/ ReadPositions \/ Refuse \/ FetchMarket \/ CheckConfig
  \/ SkipStage \/ EndStage
  \/ AlertGateErrors \/ Offer \/ StartResearch \/ EndTurn \/ RecordCost
  \/ DefaultCritiques \/ EndDecision \/ EndGate \/ Reconcile
  \/ EndClose \/ PostScorecard \/ Audit \/ EndRed \/ Raise \/ Crash

\* The steps, sorted by what they can disturb.
LEMMA NextIs ==
  Next => \/ Wakening \/ Signalling \/ Dealing \/ Watching \/ Writing \/ TheBroker
          \/ EndExecution \/ Others
BY DEF Next, Ingest, Desks, Trade, Report, Wakening, Signalling, Dealing, Watching,
       Writing, TheBroker, Others

books == <<account, recorded, signals, decided, digest, journal>>

\* The other steps write no decision, ticket or journal and take back no
\* alert.
LEMMA OthersLeaveBooks == Others => UNCHANGED books /\ fires' = fires /\ alerts \subseteq alerts'
<1> USE DEF books, quiet, tables, outbox, asked, decided, closing, account, process,
            locals, bounds, Fault, Drain, AlertAll, Alert
<1>1. ASSUME ReadAccount \/ ReadPositions \/ Refuse \/ FetchMarket \/ CheckConfig
      PROVE  UNCHANGED books /\ fires' = fires /\ alerts \subseteq alerts'
  BY <1>1 DEF ReadAccount, ReadPositions, Refuse, FetchMarket, CheckConfig
<1>2. ASSUME SkipStage \/ EndStage \/ AlertGateErrors \/ Offer \/ StartResearch
      PROVE  UNCHANGED books /\ fires' = fires /\ alerts \subseteq alerts'
  BY <1>2 DEF SkipStage, EndStage, AlertGateErrors, Offer, StartResearch
<1>3. ASSUME EndTurn \/ RecordCost \/ DefaultCritiques \/ EndDecision \/ EndGate
      PROVE  UNCHANGED books /\ fires' = fires /\ alerts \subseteq alerts'
  BY <1>3 DEF EndTurn, RecordCost, NoteFallback, DefaultCritiques, EndDecision, EndGate
<1>4. ASSUME Reconcile \/ EndClose \/ PostScorecard \/ Audit
      PROVE  UNCHANGED books /\ fires' = fires /\ alerts \subseteq alerts'
  BY <1>4 DEF Reconcile, EndClose, PostScorecard, Audit
<1>5. ASSUME EndRed \/ Raise \/ Crash
      PROVE  UNCHANGED books /\ fires' = fires /\ alerts \subseteq alerts'
  BY <1>5 DEF EndRed, Raise, Crash
<1> QED
  BY <1>1, <1>2, <1>3, <1>4, <1>5 DEF Others

\* The stages before protect, and what comes before the stages.
Early == {"ingest", "pre_gate", "research", "decision", "gate", "execution",
          "reconciliation"}

\* How they move the process: among the early stages, out of the day, through a
\* checkpoint, to the end of the close, or within the report.
LEMMA OthersMove ==
    ASSUME Ladder, Others
    PROVE  /\ at # Off /\ at'[2] # "hold"
           /\ \/ /\ at[1] \in Early /\ at'[1] \in Early /\ done' = done
                 /\ at' # <<"execution", "end">>
              \/ at' = Off /\ done' = done
              \/ /\ SkipStage \/ EndStage
                 /\ at[1] \in StageNames /\ done' = done \cup {at[1]}
                 /\ at' = <<After(at[1]), "start">>
              \/ EndClose
              \/ at[1] = "report" /\ at'[1] = "report" /\ done' = done
<1> DEFINE Moved ==
           /\ at # Off /\ at'[2] # "hold"
           /\ \/ /\ at[1] \in Early /\ at'[1] \in Early /\ done' = done
                 /\ at' # <<"execution", "end">>
              \/ at' = Off /\ done' = done
              \/ /\ SkipStage \/ EndStage
                 /\ at[1] \in StageNames /\ done' = done \cup {at[1]}
                 /\ at' = <<After(at[1]), "start">>
              \/ EndClose
              \/ at[1] = "report" /\ at'[1] = "report" /\ done' = done
<1> SUFFICES Moved
  OBVIOUS
<1> USE DEF quiet, tables, asked, decided, closing, account, process, locals, bounds
<1>a. at = Off => at[1] = "off" /\ at[2] = "off"
  BY DEF Off
<1>b. ASSUME at' = Off, done' = done, at # Off PROVE Moved
  BY <1>b DEF Off
<1>c. ASSUME NEW step, Goto(step), at[1] \in Early, done' = done, step # "hold",
             step # "end" \/ at[1] # "execution"
      PROVE  Moved
  <2>1. at' = <<at[1], step>>
    BY <1>c DEF Goto
  <2> QED
    BY <1>a, <1>c, <2>1 DEF Early
<1>1. CASE ReadAccount
  <2>1. at[1] \in Early \ {"execution"} /\ done' = done
    BY <1>1, Where DEF ReadAccount, At, Early
  <2>2. \E step \in {"positions"} : Goto(step)
    BY <1>1 DEF ReadAccount
  <2> QED
    BY <1>c, <2>1, <2>2
<1>2. CASE ReadPositions
  <2>1. at[1] \in Early \ {"execution"} /\ done' = done
    BY <1>2, Where DEF ReadPositions, At, Early
  <2>2. \E step \in {"market", "account", "refuse"} : Goto(step)
    BY <1>2 DEF ReadPositions
  <2> QED
    BY <1>c, <2>1, <2>2
<1>3. CASE Refuse
  <2>1. at' = Off /\ done' = done /\ at # Off
    BY <1>3, <1>a DEF Refuse, Stops, At
  <2> QED
    BY <1>b, <2>1
<1>4. CASE FetchMarket
  <2>1. at[1] \in Early \ {"execution"} /\ done' = done
    BY <1>4, Where DEF FetchMarket, At, Early
  <2>2. \E step \in {"config"} : Goto(step)
    BY <1>4 DEF FetchMarket
  <2> QED
    BY <1>c, <2>1, <2>2
<1>5. CASE CheckConfig
  <2>1. at[1] = "ingest" /\ at' = <<"pre_gate", "start">> /\ done' = done
    BY <1>5, Where DEF CheckConfig, At
  <2> QED
    BY <1>a, <2>1 DEF Early
<1>6. CASE SkipStage
  <2>1. at[1] \in done /\ done' = done /\ at' = <<After(at[1]), "start">>
    BY <1>6 DEF SkipStage
  <2>2. at[1] \in StageNames /\ done' = done \cup {at[1]}
    BY <2>1, StagesAre DEF Ladder
  <2> QED
    BY <1>6, <1>a, <2>1, <2>2 DEF StageNames
<1>7. CASE EndStage
  <2>1. at[1] \in StageNames
    BY <1>7, Where DEF EndStage, At
  <2> QED
    BY <1>7, <1>a, <2>1 DEF EndStage, StageNames
<1>8. CASE AlertGateErrors
  <2>1. at[1] \in Early \ {"execution"} /\ done' = done
    BY <1>8, Where DEF AlertGateErrors, At, Early, Starts
  <2>2. \E step \in {"offer"} : Goto(step)
    BY <1>8 DEF AlertGateErrors
  <2> QED
    BY <1>c, <2>1, <2>2
<1>9. CASE Offer
  <2>1. at[1] \in Early \ {"execution"} /\ done' = done
    BY <1>9, Where DEF Offer, At, Early
  <2>2. \E step \in {"end"} : Goto(step)
    BY <1>9 DEF Offer
  <2> QED
    BY <1>c, <2>1, <2>2
<1>10. CASE StartResearch
  <2>1. at[1] \in Early \ {"execution"} /\ done' = done
    BY <1>10, Where DEF StartResearch, At, Early, Starts
  <2>2. \E step \in {"default", "turn"} : Goto(step)
    BY <1>10 DEF StartResearch
  <2> QED
    BY <1>c, <2>1, <2>2
<1>11. CASE EndTurn
  <2>1. at[1] \in Early \ {"execution"} /\ done' = done
    BY <1>11, Where DEF EndTurn, At, Early
  <2>2. \E step \in {"cost", "default"} : Goto(step)
    BY <1>11 DEF EndTurn
  <2> QED
    BY <1>c, <2>1, <2>2
<1>12. CASE RecordCost
  <2>1. at[1] \in Early \ {"execution"} /\ done' = done
    BY <1>12, Where DEF RecordCost, At, Early
  <2>2. \E step \in {"default"} : Goto(step)
    BY <1>12 DEF RecordCost
  <2> QED
    BY <1>c, <2>1, <2>2
<1>13. CASE DefaultCritiques
  <2>1. at[1] \in Early \ {"execution"} /\ done' = done
    BY <1>13, Where DEF DefaultCritiques, At, Early, Starts
  <2>2. \E step \in {"default", "turn"} : Goto(step)
    BY <1>13 DEF DefaultCritiques
  <2> QED
    BY <1>c, <2>1, <2>2
<1>14. CASE EndDecision
  <2>1. at[1] \in Early \ {"execution"} /\ done' = done
    BY <1>14, Where DEF EndDecision, At, Early
  <2>2. \E step \in {"end"} : Goto(step)
    BY <1>14 DEF EndDecision
  <2> QED
    BY <1>c, <2>1, <2>2
<1>15. CASE EndGate
  <2>1. at[1] \in Early \ {"execution"} /\ done' = done
    BY <1>15, Where DEF EndGate, At, Early, Starts
  <2>2. \E step \in {"end"} : Goto(step)
    BY <1>15 DEF EndGate
  <2> QED
    BY <1>c, <2>1, <2>2
<1>16. CASE Reconcile
  <2>1. at[1] \in Early \ {"execution"} /\ done' = done
    BY <1>16, Where DEF Reconcile, At, Early, Starts
  <2>2. \E step \in {"end"} : Goto(step)
    BY <1>16 DEF Reconcile
  <2> QED
    BY <1>c, <2>1, <2>2
<1>17. CASE EndClose
  <2>1. at[1] = "close" /\ at' = <<"close", "end">>
    BY <1>17, Where DEF EndClose, At, Goto
  <2> QED
    BY <1>17, <1>a, <2>1
<1>18. CASE PostScorecard
  <2>1. at[1] = "report" /\ at' = <<"report", "audit">> /\ done' = done
    BY <1>18 DEF PostScorecard, Goto
  <2> QED
    BY <1>a, <2>1
<1>19. CASE Audit
  <2>1. at[1] = "report" /\ done' = done
    BY <1>19, Where DEF Audit, At
  <2>2. at' = Off \/ at' = <<"report", "red">>
    BY <1>19, <2>1 DEF Audit, Stops, Goto
  <2> QED
    BY <1>a, <1>b, <2>1, <2>2
<1>20. CASE EndRed
  <2>1. at' = Off /\ done' = done /\ at # Off
    BY <1>20, <1>a DEF EndRed, Stops, At
  <2> QED
    BY <1>b, <2>1
<1>21. CASE Raise
  <2>1. at' = Off /\ done' = done /\ at # Off
    BY <1>21, <1>a DEF Raise, Stops, At
  <2> QED
    BY <1>b, <2>1
<1>22. CASE Crash
  <2>1. at' = Off /\ done' = done /\ at # Off
    BY <1>22, <1>a DEF Crash, Stops, At
  <2> QED
    BY <1>b, <2>1
<1> HIDE DEF Moved
<1> QED
  BY <1>1, <1>2, <1>3, <1>4, <1>5, <1>6, <1>7, <1>8, <1>9, <1>10, <1>11, <1>12, <1>13, <1>14, <1>15, <1>16, <1>17, <1>18, <1>19, <1>20, <1>21, <1>22 DEF Others

-----------------------------------------------------------------------------
(***************************************************************************)
(* The rows of the books and of the account.                               *)
(***************************************************************************)
\* A ruling is a row the PM, or the orchestrator for it, has written.
Rulings ==
  [side : {"hold", "buy", "sell"}, qty : Nat,
   status : {"submitted", "held", "rejected", "approved", "executed", "expired", "failed"},
   by : {"pm", "default"}]

TicketRows == [qty : Int, status : {"none", "open", "expired", "consumed"}, fire : Nat]

Rows ==
  /\ decision \in [Tickers -> {Undecided} \cup Rulings]
  /\ ticket \in [Tickers -> TicketRows]
  /\ held \in [Tickers -> Int]
  /\ stop \in [Tickers -> {"none", "unlisted", "live"}]
  /\ digest \in {0, 1}
  /\ journal \in [Writers -> {0, 1}]
  /\ fires \in Nat

\* The loop variable of the two loops that have one: the ticker whose hold is
\* to be written, and the one whose ticket stands and whose decision does not.
InHand ==
  /\ \A t \in Tickers : ticket[t].status # "none" => decision[t] \in Rulings
  /\ cur # None => at[2] = "hold" \/ at = <<"gate", "start">>
  /\ at[2] = "hold" => cur \in Tickers
  /\ at = <<"gate", "start">> /\ cur # None =>
       /\ cur \in Tickers /\ "gate" \notin done
       /\ decision[cur].status = "submitted" /\ decision[cur].side \in {"buy", "sell"}
       /\ ticket[cur].status = "open" => ticket[cur].qty = Cap(cur) /\ Cap(cur) >= 1

\* What the initial rows are, and that no ruling is one of them.
LEMMA Statuses ==
  /\ Undecided.status = "none" /\ Undecided.side = "none" /\ Undecided.by = "none"
  /\ NoTicket \in TicketRows /\ NoTicket.status = "none"
  /\ \A r \in Rulings : /\ r.status # "none" /\ r # Undecided
                        /\ r.side \in {"hold", "buy", "sell"} /\ r.qty \in Nat
<1>1. /\ Undecided.status = "none" /\ Undecided.side = "none" /\ Undecided.by = "none"
      /\ NoTicket.status = "none"
  BY DEF Undecided, NoTicket
<1>2. NoTicket \in TicketRows
  BY DEF NoTicket, TicketRows
<1>3. ASSUME NEW r \in Rulings
      PROVE  /\ r.side \in {"hold", "buy", "sell"} /\ r.qty \in Nat
             /\ r.status # "none"
  BY DEF Rulings
<1>4. \A r \in Rulings : r # Undecided
  BY <1>1, <1>3
<1> QED
  BY <1>1, <1>2, <1>3, <1>4

\* A decision that has a status is a ruling, and a settled one stays one.
LEMMA Settles ==
    ASSUME Rows, NEW t \in Tickers, decision[t] \in Rulings,
           NEW status \in {"submitted", "held", "rejected", "approved", "executed",
                           "expired", "failed"},
           Settle(t, status)
    PROVE  /\ decision' \in [Tickers -> {Undecided} \cup Rulings]
           /\ decision'[t] \in Rulings /\ decision'[t].status = status
           /\ decision'[t].by = decision[t].by /\ decision'[t].side = decision[t].side
           /\ \A u \in Tickers \ {t} : decision'[u] = decision[u]
<1> DEFINE r == [decision[t] EXCEPT !.status = status]
<1>1. /\ r \in Rulings /\ r.status = status /\ r.by = decision[t].by
      /\ r.side = decision[t].side
  BY DEF Rulings
<1>2. decision' = [decision EXCEPT ![t] = r]
  BY DEF Settle
<1> HIDE DEF r
<1> QED
  BY <1>1, <1>2 DEF Rows

\* The cap of a ticket is a whole number.
LEMMA CapIsInt ==
    ASSUME NEW t \in Tickers, decision[t] \in Rulings PROVE Cap(t) \in Int
<1>1. decision[t].qty \in Int /\ Allowed(market, t, decision[t].side).qty \in Int
  BY Statuses, AllowedIsInt
<1> QED
  BY <1>1, MinOfTwo DEF Cap

\* What the gate does to a ticket.
LEMMA Tickets ==
    ASSUME Rows, NEW t \in Tickers, decision[t] \in Rulings, SettleTicket(t)
    PROVE  /\ ticket' \in [Tickers -> TicketRows]
           /\ \A u \in Tickers \ {t} : ticket'[u] = ticket[u]
           /\ ticket'[t].status = "open" => ticket'[t].qty = Cap(t) /\ Cap(t) >= 1
<1>1. Cap(t) \in Int
  BY CapIsInt
<1>2. fires \in Nat /\ ticket[t] \in TicketRows
  BY DEF Rows
<1>3. ticket[t].status \in {"none", "open", "expired", "consumed"}
  BY <1>2 DEF TicketRows
<1>4. CASE Cap(t) < 1
  <2> DEFINE r == [ticket[t] EXCEPT !.status = IF @ = "open" THEN "expired" ELSE @]
  <2>1. ticket' = [ticket EXCEPT ![t] = r]
    BY <1>4 DEF SettleTicket
  <2>2. r \in TicketRows /\ r.status # "open"
    BY <1>2, <1>3 DEF TicketRows
  <2> HIDE DEF r
  <2> QED
    BY <2>1, <2>2 DEF Rows
<1>5. CASE Cap(t) >= 1 /\ ticket[t].status \in {"none", "open"}
  <2> DEFINE r == [qty |-> Cap(t), status |-> "open", fire |-> fires]
  <2>1. ticket' = [ticket EXCEPT ![t] = r]
    BY <1>1, <1>5 DEF SettleTicket
  <2>2. r \in TicketRows /\ r.qty = Cap(t)
    BY <1>1, <1>2 DEF TicketRows
  <2> HIDE DEF r
  <2> QED
    BY <1>5, <2>1, <2>2 DEF Rows
<1>6. CASE Cap(t) >= 1 /\ ticket[t].status \notin {"none", "open"}
  <2>1. ticket' = ticket
    BY <1>1, <1>6 DEF SettleTicket
  <2> QED
    BY <1>6, <2>1 DEF Rows
<1> QED
  BY <1>1, <1>3, <1>4, <1>5, <1>6

\* A ticket's end.
LEMMA TicketEnds ==
    ASSUME Rows, NEW t \in Tickers, NEW status \in {"expired", "consumed"},
           ticket' = [ticket EXCEPT ![t].status = status]
    PROVE  /\ ticket' \in [Tickers -> TicketRows] /\ ticket'[t].status = status
           /\ \A u \in Tickers \ {t} : ticket'[u] = ticket[u]
<1> DEFINE r == [ticket[t] EXCEPT !.status = status]
<1>1. r \in TicketRows /\ r.status = status
  BY DEF Rows, TicketRows
<1>2. ticket' = [ticket EXCEPT ![t] = r]
  OBVIOUS
<1> HIDE DEF r
<1> QED
  BY <1>1, <1>2 DEF Rows

-----------------------------------------------------------------------------
(***************************************************************************)
(* The close, the alerts and the watch over the positions.                 *)
(***************************************************************************)
AllWritten == \A w \in Journals : journal[w] = 1

\* What the close has written is complete when the stage is done.
Closing ==
  /\ "close" \in done => digest = 1 /\ AllWritten
  /\ at = <<"close", "journal">> => digest = 1
  /\ at = <<"close", "end">> => digest = 1 /\ AllWritten

\* No fallback and no dead order without its alert.
Loud ==
  /\ \A t \in Tickers : decision[t].by = "default" => <<"pm_timeout", t>> \in alerts
  /\ at[2] = "hold" => <<"pm_timeout", cur>> \in alerts
  /\ \A t \in Tickers :
       decision[t].status = "failed" => <<"order_unfilled_at_cap", t>> \in alerts
  /\ "execution" \in done \/ at = <<"execution", "end">> =>
       \A t \in Tickers :
         ticket[t].status = "open" => <<"ticket_open_after_exec", t>> \in alerts

\* Behind protect, every position this fire has left is covered or alerted.
Watched ==
  /\ at = <<"protect", "orders">> => \A t \in Tickers : held[t] > 0 => t \in seen.held
  /\ at = <<"protect", "protected">> \/ at[1] \in {"close", "report"} =>
       \A t \in Tickers :
         held[t] > 0 /\ stop[t] # "live" =>
           \/ <<"unprotected_position", t>> \in alerts
           \/ <<"protection_unverified", None>> \in alerts

Said == VerdictIsTrue /\ (exit = "clean" => at = Off)

DInv == Ladder /\ Rows /\ InHand /\ Closing /\ Loud /\ Watched /\ Said

-----------------------------------------------------------------------------
(***************************************************************************)
(* The steps that leave the books alone.                                   *)
(***************************************************************************)
\* None of them finds a ticker in hand, or leaves one.
LEMMA OthersHandsFree == Ladder /\ Rows /\ InHand /\ Others => cur' = None
<1> SUFFICES ASSUME Ladder, Rows, InHand, Others PROVE cur' = None
  OBVIOUS
<1> USE DEF process, locals
<1>1. CASE Refuse \/ EndRed \/ Raise \/ Crash
  BY <1>1 DEF Refuse, EndRed, Raise, Crash, Stops
<1>2. CASE Audit
  BY <1>2 DEF Audit, Stops, InHand, At
<1>3. ASSUME ReadAccount \/ ReadPositions \/ FetchMarket \/ CheckConfig PROVE cur' = None
  <2>1. at[2] \in {"account", "positions", "market", "config"} /\ cur' = cur
    BY <1>3 DEF ReadAccount, ReadPositions, FetchMarket, CheckConfig, At
  <2> QED
    BY <2>1 DEF InHand
<1>4. CASE SkipStage
  <2>1. at[1] \in done /\ at[2] = "start" /\ cur' = cur
    BY <1>4 DEF SkipStage, At
  <2> QED
    BY <2>1 DEF InHand
<1>5. ASSUME EndStage \/ Offer \/ EndTurn \/ RecordCost \/ EndDecision \/ EndClose
             \/ PostScorecard
      PROVE  cur' = None
  <2>1. /\ at[2] \in {"end", "offer", "turn", "cost", "default", "journal"}
           \/ at[1] = "report"
        /\ cur' = cur
    BY <1>5 DEF EndStage, Offer, EndTurn, RecordCost, EndDecision, EndClose,
                PostScorecard, At
  <2> QED
    BY <2>1, Where DEF InHand
<1>6. ASSUME AlertGateErrors \/ StartResearch \/ DefaultCritiques \/ Reconcile
      PROVE  cur' = None
  <2>1. at[1] # "gate" /\ at[2] = "start" /\ cur' = cur
    BY <1>6 DEF AlertGateErrors, StartResearch, DefaultCritiques, Reconcile, Starts
  <2> QED
    BY <2>1 DEF InHand
<1>7. CASE EndGate
  <2>1. at = <<"gate", "start">> /\ Submitted = {} /\ cur' = cur
    BY <1>7 DEF EndGate, Starts
  <2> QED
    BY <2>1 DEF InHand, Submitted
<1> QED
  BY <1>1, <1>2, <1>3, <1>4, <1>5, <1>6, <1>7 DEF Others

\* Only the audit says that the day was clean, and then it was.
LEMMA OthersSay ==
    ASSUME Ladder, Others, exit # "clean" PROVE exit' # "clean" \/ (Audit /\ ~ Problems)
<1> USE DEF process, locals, Stops
<1>1. ASSUME ReadAccount \/ ReadPositions \/ Refuse \/ FetchMarket \/ CheckConfig
             \/ SkipStage \/ EndStage \/ AlertGateErrors \/ Offer \/ StartResearch
      PROVE  exit' # "clean"
  BY <1>1 DEF ReadAccount, ReadPositions, Refuse, FetchMarket, CheckConfig, SkipStage,
              EndStage, AlertGateErrors, Offer, StartResearch
<1>2. ASSUME EndTurn \/ RecordCost \/ DefaultCritiques \/ EndDecision \/ EndGate
             \/ Reconcile \/ EndClose \/ PostScorecard \/ EndRed \/ Raise \/ Crash
      PROVE  exit' # "clean"
  BY <1>2 DEF EndTurn, RecordCost, DefaultCritiques, EndDecision, EndGate, Reconcile,
              EndClose, PostScorecard, EndRed, Raise, Crash
<1>3. CASE Audit
  BY <1>3 DEF Audit
<1> QED
  BY <1>1, <1>2, <1>3 DEF Others

\* The rows, as far as the verdict is about them.
LEMMA RulingIs ==
    ASSUME Rows, NEW t \in Tickers, decision[t] # Undecided
    PROVE  /\ decision[t].by \in {"pm", "default"}
           /\ decision[t].status \in {"submitted", "held", "rejected", "approved",
                                      "executed", "expired", "failed"}
<1>1. decision[t] \in Rulings
  BY DEF Rows
<1> QED
  BY <1>1 DEF Rulings

\* A day the audit finds no problem with is a day on which nothing fell back
\* silently: every silent outcome has put an alert in its way.
LEMMA CleanIsTrue ==
    ASSUME Ladder, Rows, Closing, Loud, Watched, Audit, ~ Problems
    PROVE  /\ \A s \in Seats, t \in Tickers : <<s, t>> \in signals => Dealt(t)
           /\ digest = 1 /\ ~ unposted
           /\ \A t \in Tickers : held[t] > 0 => stop[t] = "live"
<1>1. /\ Stages \subseteq done
      /\ \A t \in Tickers :
           /\ decision[t].status \notin {"submitted", "approved"}
           /\ decision[t] = Undecided => \A s \in Seats : <<s, t>> \notin signals
      /\ ~ unposted /\ alerts \ {Self} = {}
  BY DEF Problems
<1>2. /\ "close" \in done /\ "execution" \in done /\ at[1] = "report"
  BY <1>1, StagesAre, Where DEF StageNames, Audit, At
<1>3. \A code, t : code # "audit_failed" => <<code, t>> \notin alerts
  <2> SUFFICES ASSUME NEW code, NEW t, code # "audit_failed" PROVE <<code, t>> \notin alerts
    OBVIOUS
  <2>1. <<code, t>> # Self
    BY DEF Self
  <2> QED
    BY <1>1, <2>1
<1>4. ASSUME NEW s \in Seats, NEW t \in Tickers, <<s, t>> \in signals PROVE Dealt(t)
  <2>1. decision[t] # Undecided
    BY <1>1, <1>4
  <2>2. decision[t].by = "pm"
    BY <1>3, <2>1, RulingIs DEF Loud
  <2>3. decision[t].status # "failed"
    BY <1>3 DEF Loud
  <2>4. ticket[t].status # "open"
    BY <1>2, <1>3 DEF Loud
  <2> QED
    BY <1>1, <2>1, <2>2, <2>3, <2>4, RulingIs DEF Dealt
<1>5. \A t \in Tickers : held[t] > 0 => stop[t] = "live"
  BY <1>2, <1>3 DEF Watched
<1> QED
  BY <1>1, <1>2, <1>4, <1>5 DEF Closing

\* The other steps keep the invariant.
LEMMA OthersKeep == DInv /\ Others => DInv'
<1> SUFFICES ASSUME DInv, Others PROVE DInv'
  OBVIOUS
<1> USE DEF DInv
<1>1. Ladder'
  BY LadderStep DEF Next, Others, Ingest, Desks, Trade, Report
<1>2. /\ UNCHANGED <<held, stop, signals, decision, ticket, digest, journal>>
      /\ fires' = fires /\ alerts \subseteq alerts'
  BY OthersLeaveBooks DEF books, account, decided
<1>3. Rows'
  BY <1>2 DEF Rows
<1>4. cur' = None
  BY OthersHandsFree
<1>5. /\ at # Off /\ at'[2] # "hold"
      /\ \/ /\ at[1] \in Early /\ at'[1] \in Early /\ done' = done
            /\ at' # <<"execution", "end">>
         \/ at' = Off /\ done' = done
         \/ /\ SkipStage \/ EndStage
            /\ at[1] \in StageNames /\ done' = done \cup {at[1]}
            /\ at' = <<After(at[1]), "start">>
         \/ EndClose
         \/ at[1] = "report" /\ at'[1] = "report" /\ done' = done
  BY OthersMove
<1>6. InHand'
  BY <1>2, <1>4, <1>5 DEF InHand
<1>7. EndClose => /\ at = <<"close", "journal">> /\ at' = <<"close", "end">> /\ done' = done
                  /\ \A w \in Journals : journal[w] > 0
  BY Where DEF EndClose, At, Goto, tables, quiet
<1>8. SkipStage => at[1] \in done
  BY DEF SkipStage
<1>9. EndStage => at = <<at[1], "end">>
  BY Where DEF EndStage, At
<1>10. Journals' = Journals /\ (AllWritten' <=> AllWritten)
  BY <1>2 DEF Journals, AllWritten
<1>11. Closing'
  <2>1. CASE done' = done /\ at'[1] # "close"
    BY <1>2, <1>10, <2>1 DEF Closing
  <2>2. CASE EndClose
    <3>1. AllWritten
      <4>1. Journals \subseteq Writers
        BY DEF Journals, Writers
      <4> QED
        BY <1>7, <2>2, <4>1 DEF AllWritten, Rows
    <3> QED
      BY <1>2, <1>7, <1>10, <2>2, <3>1 DEF Closing
  <2>3. CASE /\ SkipStage \/ EndStage
             /\ at[1] \in StageNames /\ done' = done \cup {at[1]}
             /\ at' = <<After(at[1]), "start">>
    <3>1. "close" \in done' => digest = 1 /\ AllWritten
      BY <1>8, <1>9, <2>3 DEF Closing
    <3> QED
      BY <1>2, <1>10, <2>3, <3>1 DEF Closing
  <2> QED
    BY <1>5, <2>1, <2>2, <2>3 DEF Early, Off
<1>12. Loud'
  <2>1. "execution" \in done' \/ at' = <<"execution", "end">> =>
          "execution" \in done \/ at = <<"execution", "end">>
    BY <1>5, <1>7, <1>8, <1>9 DEF Off
  <2> QED
    BY <1>2, <1>5, <2>1 DEF Loud
<1>13. Watched'
  <2>1. at' # <<"protect", "orders">> /\ at' # <<"protect", "protected">>
    BY <1>5, <1>7 DEF Early, Off
  <2>2. at'[1] \in {"close", "report"} => at[1] \in {"close", "report"}
    <3>1. ASSUME at[1] \in StageNames, After(at[1]) \in {"close", "report"}
          PROVE  at[1] \in {"close", "report"}
      BY <3>1, AfterIs DEF StageNames
    <3> QED
      BY <1>5, <1>7, <3>1 DEF Early, Off
  <2> QED
    BY <1>2, <2>1, <2>2 DEF Watched
<1>14. Said'
  <2>1. exit # "clean"
    BY <1>5 DEF Said
  <2>2. CASE exit' # "clean"
    BY <2>2 DEF Said, VerdictIsTrue
  <2>3. CASE Audit /\ ~ Problems
    <3>1. at' = Off /\ unposted' = unposted
      BY <2>3 DEF Audit, Stops, outbox
    <3>2. \A t \in Tickers : Dealt(t)' <=> Dealt(t)
      BY <1>2 DEF Dealt
    <3> QED
      BY <1>2, <2>3, <3>1, <3>2, CleanIsTrue DEF Said, VerdictIsTrue
  <2> QED
    BY <2>1, <2>2, <2>3, OthersSay
<1> QED
  BY <1>1, <1>3, <1>6, <1>11, <1>12, <1>13, <1>14

-----------------------------------------------------------------------------
(***************************************************************************)
(* The steps that write.                                                   *)
(***************************************************************************)
\* A stage at work has none of the later ones behind it.
LEMMA NotYetClosed ==
    ASSUME Ladder, at[1] \in StageNames \ {"close"}, at[1] \notin done
    PROVE  /\ "close" \notin done
           /\ at[1] # "execution" /\ at[1] # "reconciliation" => "execution" \notin done
<1>1. /\ Rank[at[1]] < Rank["close"]
      /\ at[1] # "execution" /\ at[1] # "reconciliation" => Rank[at[1]] < Rank["execution"]
  BY DEF Rank, StageNames
<1>2. at[1] \in Stages /\ "close" \in Stages /\ "execution" \in Stages
  BY StagesAre DEF StageNames
<1> QED
  BY <1>1, <1>2 DEF Ladder

\* While a stage before protect is at work nothing is owed to the close, to the
\* watch or to the verdict.
LEMMA AtWork ==
    ASSUME DInv, at[1] \in StageNames \ {"close"}, at[1] \notin done,
           at'[1] = at[1], UNCHANGED <<done, digest, journal, exit>>
    PROVE  Closing' /\ Watched' /\ Said'
<1> USE DEF DInv
<1>1. "close" \notin done /\ at[1] \notin {"close", "report", "protect", "off"}
  BY NotYetClosed DEF StageNames
<1>2. exit # "clean"
  BY <1>1 DEF Said, Off
<1> QED
  BY <1>1, <1>2 DEF Closing, Watched, Said, VerdictIsTrue

\* So does research.
LEMMA SignallingKeeps == DInv /\ Signalling => DInv'
<1> SUFFICES ASSUME DInv, Signalling PROVE DInv'
  OBVIOUS
<1> USE DEF DInv
<1>1. Ladder'
  BY LadderStep DEF Next, Signalling, Desks
<1>2. /\ at[1] = "research" /\ at[2] # "start"
      /\ UNCHANGED <<held, stop, decision, ticket, digest, journal, fires, alerts, cur,
                     exit, done>>
      /\ at' = at \/ at' = <<"research", "end">>
  BY DEF Signalling, DefaultSignals, SubmitSignal, Goto, outbox, decided, closing, account,
         process, locals, bounds
<1>3. at'[1] = at[1] /\ at[1] \notin done /\ at[1] \in StageNames
  BY <1>2 DEF Ladder, StageNames
<1>4. Rows'
  BY <1>2 DEF Rows
<1>5. cur = None /\ cur' = None /\ at'[2] # "hold"
  BY <1>2, Where DEF InHand
<1>6. InHand'
  BY <1>2, <1>5 DEF InHand
<1>7. Loud'
  BY <1>2, <1>3, <1>5 DEF Loud
<1> QED
  BY <1>1, <1>2, <1>3, <1>4, <1>6, <1>7, AtWork

\* So does the end of execution, which tells of the open tickets.
LEMMA EndExecutionKeeps == DInv /\ EndExecution => DInv'
<1> SUFFICES ASSUME DInv, EndExecution PROVE DInv'
  OBVIOUS
<1> USE DEF DInv
<1>1. Ladder'
  BY LadderStep DEF Next, Trade
<1>2. /\ at = <<"execution", "start">> /\ at[1] \notin done
      /\ at' = <<"execution", "end">>
      /\ UNCHANGED <<held, stop, decision, ticket, digest, journal, fires, cur, exit, done>>
      /\ alerts' = alerts \cup {<<"ticket_open_after_exec", t>> : t \in Open}
  BY DEF EndExecution, Starts, Goto, AlertAll, decided, closing, account, locals, bounds
<1>3. Rows'
  BY <1>2 DEF Rows
<1>4. InHand'
  BY <1>2 DEF InHand
<1>5. \A t \in Tickers :
        ticket[t].status = "open" => <<"ticket_open_after_exec", t>> \in alerts'
  BY <1>2 DEF Open
<1>6. Loud'
  BY <1>2, <1>5 DEF Loud
<1> QED
  BY <1>1, <1>2, <1>3, <1>4, <1>6, AtWork DEF StageNames

\* So does the start of a fire.
LEMMA WakeningKeeps == DInv /\ Wakening => DInv'
<1> SUFFICES ASSUME DInv, Wakening PROVE DInv'
  OBVIOUS
<1> USE DEF DInv
<1>1. Ladder'
  BY LadderStep DEF Next, Wakening, Ingest
<1>2. /\ at = Off /\ exit' \in {"none", "closed"} /\ fires' = fires + 1
      /\ at' = at \/ at' = <<"ingest", "account">>
      /\ UNCHANGED <<held, stop, signals, decision, ticket, digest, journal, cur, done,
                     alerts>>
  BY DEF Wakening, Fire, FindClosed, Wakes, account, tables, quiet, outbox, asked, decided,
         closing
<1>3. Rows'
  BY <1>2 DEF Rows
<1>4. cur = None /\ at'[2] # "hold"
  BY <1>2 DEF InHand, Off
<1>5. InHand'
  BY <1>2, <1>4 DEF InHand
<1>6. at' # <<"execution", "end">> /\ at' # <<"close", "journal">>
      /\ at' # <<"close", "end">> /\ at'[1] \notin {"protect", "close", "report"}
  BY <1>2 DEF Off
<1>7. Journals' = Journals
  BY <1>2 DEF Journals
<1>8. Closing' /\ Watched'
  BY <1>2, <1>6, <1>7 DEF Closing, AllWritten, Watched
<1>9. Loud'
  BY <1>2, <1>4, <1>6 DEF Loud
<1>10. Said'
  BY <1>2 DEF Said, VerdictIsTrue
<1> QED
  BY <1>1, <1>3, <1>5, <1>8, <1>9, <1>10

\* So does the writing of the close.
LEMMA WritingKeeps == DInv /\ Writing => DInv'
<1> SUFFICES ASSUME DInv, Writing PROVE DInv'
  OBVIOUS
<1> USE DEF DInv
<1>1. Ladder'
  BY LadderStep DEF Next, Writing, Report
<1>2. /\ UNCHANGED <<held, stop, signals, decision, ticket, fires, cur, done, alerts, exit>>
      /\ at[1] = "close" /\ at' = <<"close", "journal">> /\ at[2] \in {"start", "journal"}
      /\ "close" \notin done
  <2>1. CASE WriteDigest
    BY <2>1 DEF WriteDigest, Starts, Goto, asked, decided, account, locals, bounds
  <2>2. ASSUME NEW w \in Writers, WriteJournal(w)
        PROVE  /\ UNCHANGED <<held, stop, signals, decision, ticket, fires, cur, done,
                              alerts, exit>>
               /\ at[2] = "journal" /\ at' = at
    BY <2>2 DEF WriteJournal, At, outbox, asked, decided, account, process, locals, bounds
  <2>3. at[2] = "journal" => at = <<"close", "journal">> /\ "close" \notin done
    BY Where DEF Ladder
  <2> QED
    BY <2>1, <2>2, <2>3 DEF Writing
<1>3. digest' = 1 /\ journal' \in [Writers -> {0, 1}]
  <2>1. CASE WriteDigest
    BY <2>1 DEF WriteDigest, Rows
  <2>2. ASSUME NEW w \in Writers, WriteJournal(w)
        PROVE  digest' = 1 /\ journal' \in [Writers -> {0, 1}]
    <3>1. at = <<"close", "journal">> /\ digest' = digest
      BY <2>2, Where DEF WriteJournal, At
    <3>2. journal' = [journal EXCEPT ![w] = 1]
      BY <2>2 DEF WriteJournal, Write
    <3> QED
      BY <3>1, <3>2 DEF Closing, Rows
  <2> QED
    BY <2>1, <2>2 DEF Writing
<1>4. Rows'
  BY <1>2, <1>3 DEF Rows
<1>5. cur = None
  BY <1>2, Where DEF InHand
<1>6. InHand'
  BY <1>2, <1>5 DEF InHand
<1>7. Closing'
  BY <1>2, <1>3 DEF Closing
<1>8. Loud'
  BY <1>2 DEF Loud
<1>9. Watched'
  BY <1>2 DEF Watched
<1>10. Said'
  BY <1>2 DEF Said, VerdictIsTrue, Off
<1> QED
  BY <1>1, <1>4, <1>6, <1>7, <1>8, <1>9, <1>10

\* Between the two lists a stop may go off, but no position can appear.
LEMMA WatchingKeeps == DInv /\ Watching => DInv'
<1> SUFFICES ASSUME DInv, Watching PROVE DInv'
  OBVIOUS
<1> USE DEF DInv
<1>1. Ladder'
  BY LadderStep DEF Next, Watching, Report
<1>2. /\ UNCHANGED <<held, stop, signals, decision, ticket, digest, journal, cur, done, exit>>
      /\ fires' = fires /\ alerts \subseteq alerts'
  BY DEF Watching, ListPositions, ListOrders, CannotVerify, EndProtect, AlertAll, Alert,
         Fault, Drain, tables, quiet, outbox, asked, decided, closing, account, locals, bounds
<1>3. /\ at[1] = "protect"
      /\ at' \in {<<"protect", "orders">>, <<"protect", "nap">>, <<"protect", "protected">>,
                  <<"close", "start">>}
  <2>1. CASE ListPositions
    BY <2>1 DEF ListPositions, Goto
  <2>2. CASE ListOrders
    BY <2>2, Where DEF ListOrders, Goto, At
  <2>3. CASE CannotVerify
    BY <2>3 DEF CannotVerify, Goto
  <2>4. CASE EndProtect
    BY <2>4, Where DEF EndProtect, At
  <2> QED
    BY <2>1, <2>2, <2>3, <2>4 DEF Watching
<1>4. Rows'
  BY <1>2 DEF Rows
<1>5. cur = None
  BY <1>3, Where DEF InHand
<1>6. InHand'
  BY <1>2, <1>3, <1>5 DEF InHand
<1>7. Journals' = Journals
  BY <1>2 DEF Journals
<1>8. Closing'
  BY <1>2, <1>3, <1>7 DEF Closing, AllWritten
<1>9. Loud'
  BY <1>2, <1>3 DEF Loud
<1>10. Said'
  BY <1>2, <1>3 DEF Said, VerdictIsTrue, Off
<1>11. Watched'
  <2>1. CASE ListPositions
    <3>1. at' = <<"protect", "orders">>
          /\ \A t \in Tickers : held[t] > 0 => t \in seen'.held
      BY <2>1 DEF ListPositions, Goto
    <3> QED
      BY <1>2, <3>1 DEF Watched
  <2>2. CASE ListOrders
    <3>1. at = <<"protect", "orders">>
      BY <2>2, <1>3, Where DEF ListOrders, At
    <3>2. \A t \in Tickers : held[t] > 0 /\ stop[t] # "live" => t \in Uncovered
      BY <3>1 DEF Watched, Uncovered, StopOrders
    <3>3. \/ at' = <<"protect", "nap">>
          \/ Uncovered = {} /\ at' = <<"close", "start">>
          \/ /\ at' = <<"protect", "protected">>
             /\ \A t \in Uncovered : <<"unprotected_position", t>> \in alerts'
      BY <2>2, <1>3 DEF ListOrders, Goto, AlertAll
    <3> QED
      BY <1>2, <3>2, <3>3 DEF Watched
  <2>3. CASE CannotVerify
    <3>1. <<"protection_unverified", None>> \in alerts' /\ at' = <<"protect", "protected">>
      BY <2>3 DEF CannotVerify, Alert, AlertAll, Goto
    <3> QED
      BY <3>1 DEF Watched
  <2>4. CASE EndProtect
    <3>1. at = <<"protect", "protected">> /\ at' = <<"close", "start">>
      BY <2>4, <1>3, Where DEF EndProtect, At
    <3> QED
      BY <1>2, <3>1 DEF Watched
  <2> QED
    BY <2>1, <2>2, <2>3, <2>4 DEF Watching
<1> QED
  BY <1>1, <1>4, <1>6, <1>8, <1>9, <1>10, <1>11

\* The broker by itself only ever takes a position away, and lists its stops.
LEMMA TheBrokerKeeps == DInv /\ TheBroker => DInv'
<1> SUFFICES ASSUME DInv, NEW t \in Tickers, ListLeg(t) \/ StopFires(t) PROVE DInv'
  BY DEF TheBroker
<1> USE DEF DInv
<1>1. Ladder'
  BY LadderStep DEF Next
<1>2. UNCHANGED <<signals, decision, ticket, digest, journal, cur, done, exit, at, fires,
                  alerts, seen, market, unposted>>
  BY DEF ListLeg, StopFires, tables, quiet, outbox, asked, decided, closing, process,
         locals, bounds
<1>3. /\ held' \in [Tickers -> Int] /\ stop' \in [Tickers -> {"none", "unlisted", "live"}]
      /\ \A u \in Tickers : \/ held'[u] = held[u] /\ (stop'[u] = stop[u] \/ stop'[u] = "live")
                            \/ held'[u] = 0
  <2>1. CASE ListLeg(t)
    BY <2>1 DEF ListLeg, Rows
  <2>2. CASE StopFires(t)
    BY <2>2 DEF StopFires, Rows
  <2> QED
    BY <2>1, <2>2
<1>4. Rows'
  BY <1>2, <1>3 DEF Rows
<1>5. InHand'
  <2>1. \A u \in Tickers : Cap(u)' = Cap(u)
    BY <1>2 DEF Cap
  <2> QED
    BY <1>2, <2>1 DEF InHand
<1>6. Journals' = Journals
  BY <1>2 DEF Journals
<1>7. Closing' /\ Loud'
  BY <1>2, <1>6 DEF Closing, AllWritten, Loud
<1>8. ~ (0 > 0)
  OBVIOUS
<1>9. Watched'
  BY <1>2, <1>3, <1>8 DEF Watched
<1>10. Said'
  <2>1. \A u \in Tickers : Dealt(u)' <=> Dealt(u)
    BY <1>2 DEF Dealt
  <2>2. ASSUME exit = "clean", NEW u \in Tickers, held'[u] > 0 PROVE stop'[u] = "live"
    BY <1>3, <1>8, <2>2 DEF Said, VerdictIsTrue
  <2> QED
    BY <1>2, <2>1, <2>2 DEF Said, VerdictIsTrue
<1> QED
  BY <1>1, <1>4, <1>5, <1>7, <1>9, <1>10

\* The decisions, the tickets and their orders.
LEMMA DealingAt ==
    ASSUME Ladder, Dealing
    PROVE  /\ at[1] \in {"decision", "gate", "execution"} /\ at[1] \notin done
           /\ at'[1] = at[1] /\ at'[2] \in {at[2], "hold", "default"}
           /\ alerts \subseteq alerts'
           /\ UNCHANGED <<done, digest, journal, exit, fires, market>>
<1> USE DEF outbox, closing, account, process, locals, bounds, Alert, AlertAll
<1>a. at[2] # "start" => at[1] \notin done
  BY DEF Ladder
<1>1. ASSUME NEW t \in Tickers, NEW ask \in Asks, SubmitDecision(t, ask)
      PROVE  /\ at[1] = "decision" /\ at[1] \notin done /\ at' = at
             /\ alerts \subseteq alerts'
             /\ UNCHANGED <<done, digest, journal, exit, fires, market>>
  BY <1>1, <1>a DEF SubmitDecision
<1>2. ASSUME NEW t \in Tickers, AlertTimeout(t)
      PROVE  /\ at[1] = "decision" /\ at[1] \notin done /\ at' = <<"decision", "hold">>
             /\ alerts \subseteq alerts'
             /\ UNCHANGED <<done, digest, journal, exit, fires, market>>
  BY <1>2, <1>a DEF AlertTimeout, quiet, Goto
<1>3. ASSUME DefaultHold
      PROVE  /\ at[1] = "decision" /\ at[1] \notin done /\ at' = <<"decision", "default">>
             /\ alerts \subseteq alerts'
             /\ UNCHANGED <<done, digest, journal, exit, fires, market>>
  <2>1. at[2] = "hold" /\ at[1] = "decision"
    BY <1>3, Where DEF DefaultHold, At
  <2> QED
    BY <1>3, <1>a, <2>1 DEF DefaultHold, Goto
<1>4. ASSUME NEW t \in Tickers, Hold(t) \/ SettleTicket(t)
      PROVE  /\ at[1] = "gate" /\ at[1] \notin done /\ at' = at
             /\ alerts \subseteq alerts'
             /\ UNCHANGED <<done, digest, journal, exit, fires, market>>
  BY <1>4 DEF Hold, SettleTicket, Starts
<1>5. ASSUME SettleDecision
      PROVE  /\ at[1] = "gate" /\ at[1] \notin done /\ at' = at
             /\ alerts \subseteq alerts'
             /\ UNCHANGED <<done, digest, journal, exit, fires, market>>
  BY <1>5 DEF SettleDecision, Starts
<1>6. ASSUME NEW t \in Tickers, Expire(t) \/ OrderDies(t) \/ Execute(t)
      PROVE  /\ at[1] = "execution" /\ at[1] \notin done /\ at' = at
             /\ alerts \subseteq alerts'
             /\ UNCHANGED <<done, digest, journal, exit, fires, market>>
  BY <1>6 DEF Expire, OrderDies, Execute, Starts
<1> QED
  BY <1>1, <1>2, <1>3, <1>4, <1>5, <1>6 DEF Dealing

\* What is left to show of each of them.
LEMMA Finishes ==
    ASSUME DInv, Dealing, Rows', InHand', Loud' PROVE DInv'
<1>1. Ladder'
  BY LadderStep DEF DInv, Next, Dealing, Desks, Trade
<1>2. Closing' /\ Watched' /\ Said'
  BY DealingAt, AtWork DEF DInv, StageNames
<1> QED
  BY <1>1, <1>2 DEF DInv

\* Decisions the seats and the gate settle, whose rows carry what they say.
LEMMA SubmitKeeps ==
    ASSUME DInv, NEW t \in Tickers, NEW ask \in Asks, SubmitDecision(t, ask) PROVE DInv'
<1> DEFINE r == [side |-> ask.side, qty |-> ask.qty, status |-> "submitted", by |-> "pm"]
<1>1. r \in Rulings /\ r.status = "submitted" /\ r.by = "pm"
  BY TradingDayAssumption DEF Rulings
<1>2. /\ at = <<"decision", "turn">> /\ at' = at /\ cur' = cur /\ alerts' = alerts
      /\ decision' = [decision EXCEPT ![t] = r]
      /\ UNCHANGED <<held, stop, ticket, digest, journal, fires, done>>
  BY DEF SubmitDecision, closing, account, process, locals, bounds
<1> HIDE DEF r
<1>3. /\ decision' \in [Tickers -> {Undecided} \cup Rulings] /\ decision'[t] = r
      /\ \A u \in Tickers \ {t} : decision'[u] = decision[u]
  BY <1>1, <1>2 DEF DInv, Rows
<1>4. Rows'
  BY <1>2, <1>3 DEF DInv, Rows
<1>5. cur = None
  BY <1>2 DEF DInv, InHand
<1>6. InHand'
  BY <1>1, <1>2, <1>3, <1>5 DEF DInv, InHand
<1>7. Loud'
  BY <1>1, <1>2, <1>3 DEF DInv, Loud
<1> QED
  BY <1>4, <1>6, <1>7, Finishes DEF Dealing

\* The alert of a timeout keeps the invariant.
LEMMA TimeoutKeeps ==
    ASSUME DInv, NEW t \in Tickers, AlertTimeout(t) PROVE DInv'
<1>1. /\ at = <<"decision", "default">> /\ at' = <<"decision", "hold">> /\ cur' = t
      /\ alerts' = alerts \cup {<<"pm_timeout", t>>}
      /\ UNCHANGED <<held, stop, decision, ticket, digest, journal, fires, done>>
  BY DEF AlertTimeout, Alert, AlertAll, Goto, quiet, decided, closing, account, bounds
<1>2. Rows' /\ InHand' /\ Loud'
  BY <1>1 DEF DInv, Rows, InHand, Loud
<1> QED
  BY <1>2, Finishes DEF Dealing

\* So does the hold that follows it.
LEMMA DefaultHoldKeeps == DInv /\ DefaultHold => DInv'
<1> SUFFICES ASSUME DInv, DefaultHold PROVE DInv'
  OBVIOUS
<1> DEFINE r == [side |-> "hold", qty |-> 0, status |-> "submitted", by |-> "default"]
<1>1. r \in Rulings /\ r.status = "submitted" /\ r.by = "default"
  BY DEF Rulings
<1>2. /\ at[2] = "hold" /\ at[1] = "decision" /\ at' = <<"decision", "default">>
      /\ cur' = None /\ alerts' = alerts
      /\ decision' = [decision EXCEPT ![cur] = r]
      /\ UNCHANGED <<held, stop, ticket, digest, journal, fires, done>>
  BY Where DEF DInv, DefaultHold, At, Goto, outbox, closing, account, bounds
<1> HIDE DEF r
<1>3. cur \in Tickers /\ <<"pm_timeout", cur>> \in alerts
  BY <1>2 DEF DInv, InHand, Loud
<1>4. /\ decision' \in [Tickers -> {Undecided} \cup Rulings] /\ decision'[cur] = r
      /\ \A u \in Tickers \ {cur} : decision'[u] = decision[u]
  BY <1>1, <1>2, <1>3 DEF DInv, Rows
<1>5. Rows'
  BY <1>2, <1>4 DEF DInv, Rows
<1>6. InHand'
  BY <1>1, <1>2, <1>3, <1>4 DEF DInv, InHand
<1>7. Loud'
  BY <1>1, <1>2, <1>3, <1>4 DEF DInv, Loud
<1> QED
  BY <1>5, <1>6, <1>7, Finishes DEF Dealing

\* A decision to hold keeps the invariant.
LEMMA HoldKeeps ==
    ASSUME DInv, NEW t \in Tickers, Hold(t) PROVE DInv'
<1>1. /\ at = <<"gate", "start">> /\ at' = at /\ cur = None /\ cur' = None
      /\ alerts' = alerts /\ decision[t].status = "submitted" /\ Settle(t, "held")
      /\ UNCHANGED <<held, stop, ticket, digest, journal, fires, done>>
  BY DEF Hold, Starts, Submitted, outbox, closing, account, process, locals, bounds
<1>2. decision[t] \in Rulings
  BY <1>1, Statuses DEF DInv, Rows
<1>3. /\ decision' \in [Tickers -> {Undecided} \cup Rulings]
      /\ decision'[t] \in Rulings /\ decision'[t].status = "held"
      /\ decision'[t].by = decision[t].by
      /\ \A u \in Tickers \ {t} : decision'[u] = decision[u]
  BY <1>1, <1>2, Settles DEF DInv
<1>4. Rows'
  BY <1>1, <1>3 DEF DInv, Rows
<1>5. InHand'
  BY <1>1, <1>3 DEF DInv, InHand
<1>6. Loud'
  BY <1>1, <1>3 DEF DInv, Loud
<1> QED
  BY <1>4, <1>5, <1>6, Finishes DEF Dealing

\* So does the settling of a ticket ahead of its decision.
LEMMA SettleTicketKeeps ==
    ASSUME DInv, NEW t \in Tickers, SettleTicket(t) PROVE DInv'
<1>1. /\ at = <<"gate", "start">> /\ "gate" \notin done /\ at' = at /\ cur = None
      /\ cur' = t /\ alerts' = alerts
      /\ decision[t].status = "submitted" /\ decision[t].side # "hold"
      /\ UNCHANGED <<held, stop, decision, digest, journal, fires, done, market>>
  BY DEF SettleTicket, Starts, Submitted, outbox, closing, account, bounds
<1>2. decision[t] \in Rulings /\ decision[t].side \in {"buy", "sell"}
  BY <1>1, Statuses DEF DInv, Rows
<1>3. /\ ticket' \in [Tickers -> TicketRows]
      /\ \A u \in Tickers \ {t} : ticket'[u] = ticket[u]
      /\ ticket'[t].status = "open" => ticket'[t].qty = Cap(t) /\ Cap(t) >= 1
  BY <1>2, Tickets DEF DInv
<1>4. Rows'
  BY <1>1, <1>3 DEF DInv, Rows
<1>5. \A u \in Tickers : Cap(u)' = Cap(u)
  BY <1>1 DEF Cap
<1>6. InHand'
  BY <1>1, <1>2, <1>3, <1>5 DEF DInv, InHand
<1>7. "execution" \notin done
  BY <1>1, NotYetClosed DEF DInv, StageNames
<1>8. Loud'
  BY <1>1, <1>7 DEF DInv, Loud
<1> QED
  BY <1>4, <1>6, <1>8, Finishes DEF Dealing

\* So does the settling of the decision.
LEMMA SettleDecisionKeeps == DInv /\ SettleDecision => DInv'
<1> SUFFICES ASSUME DInv, SettleDecision PROVE DInv'
  OBVIOUS
<1>1. /\ at = <<"gate", "start">> /\ at' = at /\ cur # None /\ cur' = None
      /\ alerts' = alerts
      /\ Settle(cur, IF Cap(cur) < 1 THEN "rejected" ELSE "approved")
      /\ UNCHANGED <<held, stop, ticket, digest, journal, fires, done>>
  BY DEF SettleDecision, Starts, outbox, closing, account, bounds
<1>2. cur \in Tickers /\ decision[cur].status = "submitted"
  BY <1>1 DEF DInv, InHand
<1>3. decision[cur] \in Rulings
  BY <1>2, Statuses DEF DInv, Rows
<1>4. PICK status \in {"rejected", "approved"} : Settle(cur, status)
  BY <1>1
<1>5. /\ decision' \in [Tickers -> {Undecided} \cup Rulings]
      /\ decision'[cur] \in Rulings /\ decision'[cur].status = status
      /\ decision'[cur].by = decision[cur].by
      /\ \A u \in Tickers \ {cur} : decision'[u] = decision[u]
  BY <1>2, <1>3, <1>4, Settles DEF DInv
<1>6. Rows'
  BY <1>1, <1>5 DEF DInv, Rows
<1>7. InHand'
  BY <1>1, <1>2, <1>5 DEF DInv, InHand
<1>8. Loud'
  BY <1>1, <1>2, <1>5 DEF DInv, Loud
<1> QED
  BY <1>6, <1>7, <1>8, Finishes DEF Dealing

\* So does what becomes of a ticket in execution.
LEMMA OrderKeeps ==
    ASSUME DInv, NEW t \in Tickers, Expire(t) \/ OrderDies(t) \/ Execute(t) PROVE DInv'
<1>1. /\ at = <<"execution", "start">> /\ "execution" \notin done /\ at' = at
      /\ cur' = cur /\ alerts \subseteq alerts' /\ ticket[t].status = "open"
      /\ UNCHANGED <<digest, journal, fires, done>>
  BY DEF Expire, OrderDies, Execute, Starts, Open, Alert, AlertAll, outbox, closing, process,
         locals, bounds
<1>2. decision[t] \in Rulings
  BY <1>1 DEF DInv, InHand
<1>3. PICK status \in {"expired", "failed", "executed"} :
        /\ Settle(t, status)
        /\ status = "failed" => <<"order_unfilled_at_cap", t>> \in alerts'
  BY DEF Expire, OrderDies, Execute, Alert, AlertAll
<1>4. /\ decision' \in [Tickers -> {Undecided} \cup Rulings]
      /\ decision'[t] \in Rulings /\ decision'[t].status = status
      /\ decision'[t].by = decision[t].by
      /\ \A u \in Tickers \ {t} : decision'[u] = decision[u]
  BY <1>2, <1>3, Settles DEF DInv
<1>5. PICK end \in {"expired", "consumed"} :
        ticket' = [ticket EXCEPT ![t].status = end]
  BY DEF Expire, OrderDies, Execute
<1>6. ticket' \in [Tickers -> TicketRows] /\ \A u \in Tickers \ {t} : ticket'[u] = ticket[u]
  BY <1>5, TicketEnds DEF DInv
<1>7. held' \in [Tickers -> Int] /\ stop' \in [Tickers -> {"none", "unlisted", "live"}]
  <2>1. CASE Expire(t) \/ OrderDies(t)
    BY <2>1 DEF Expire, OrderDies, account, DInv, Rows
  <2>2. CASE Execute(t)
    <3> DEFINE q == IF decision[t].side = "buy" THEN ticket[t].qty ELSE -ticket[t].qty
    <3>1. ticket[t].qty \in Int
      BY DEF DInv, Rows, TicketRows
    <3>2. q \in Int
      BY <3>1
    <3>3. /\ held' = [held EXCEPT ![t] = @ + q]
          /\ stop' = [stop EXCEPT ![t] = IF q > 0 THEN "unlisted" ELSE "none"]
      BY <2>2 DEF Execute
    <3> HIDE DEF q
    <3> QED
      BY <3>2, <3>3 DEF DInv, Rows
  <2> QED
    BY <2>1, <2>2
<1>8. Rows'
  BY <1>1, <1>4, <1>6, <1>7 DEF DInv, Rows
<1>9. cur = None
  BY <1>1 DEF DInv, InHand
<1>10. InHand'
  BY <1>1, <1>2, <1>4, <1>6, <1>9 DEF DInv, InHand
<1>11. Loud'
  BY <1>1, <1>3, <1>4 DEF DInv, Loud
<1> QED
  BY <1>8, <1>10, <1>11, Finishes DEF Dealing

\* Every step of the decision, gate and execution keeps the invariant.
LEMMA DealingKeeps == DInv /\ Dealing => DInv'
BY SubmitKeeps, TimeoutKeeps, DefaultHoldKeeps, HoldKeeps, SettleTicketKeeps,
   SettleDecisionKeeps, OrderKeeps DEF Dealing

-----------------------------------------------------------------------------
(***************************************************************************)
(* The theorems.                                                           *)
(***************************************************************************)
LEMMA InitDInv == Init => DInv
<1> SUFFICES ASSUME Init PROVE DInv
  OBVIOUS
<1>1. /\ at = Off /\ done = {} /\ cur = None /\ exit = "none" /\ fires = 0
      /\ decision = [t \in Tickers |-> Undecided] /\ ticket = [t \in Tickers |-> NoTicket]
      /\ digest = 0 /\ journal = [w \in Writers |-> 0]
  BY DEF Init
<1>2. at \in Places /\ at[1] = "off" /\ at[2] = "off" /\ at[2] \in Steps(at[1])
  BY <1>1 DEF Off, Places, Rank, Steps
<1>3. \A r \in StageNames : ~ (Rank[r] < Rank["off"])
  BY DEF Rank, StageNames
<1>4. Ladder
  BY <1>1, <1>2, <1>3, StagesAre DEF Ladder
<1>5. /\ held \in [Tickers -> Int] /\ stop \in [Tickers -> {"none", "unlisted", "live"}]
  <2>1. PICK o \in Opening : held = o.held /\ stop = o.stop
    BY DEF Init
  <2>2. o.held \in [Tickers -> Nat] /\ o.stop \in [Tickers -> {"none", "unlisted", "live"}]
    BY TradingDayAssumption
  <2> QED
    BY <2>1, <2>2
<1>6. Rows
  BY <1>1, <1>5, Statuses DEF Rows
<1>7. InHand
  BY <1>1, <1>2, Statuses DEF InHand
<1>8. Closing /\ Watched
  BY <1>1, <1>2 DEF Closing, Watched
<1>9. Loud
  BY <1>1, <1>2, Statuses DEF Loud
<1>10. Said
  BY <1>1 DEF Said, VerdictIsTrue
<1> QED
  BY <1>4, <1>6, <1>7, <1>8, <1>9, <1>10 DEF DInv

\* Every step keeps the invariant.
LEMMA StepDInv == DInv /\ [Next]_vars => DInv'
<1> SUFFICES ASSUME DInv, [Next]_vars PROVE DInv'
  OBVIOUS
<1>1. CASE Next
  BY <1>1, NextIs, OthersKeep, SignallingKeeps, EndExecutionKeeps, WakeningKeeps,
     WritingKeeps, WatchingKeeps, TheBrokerKeeps, DealingKeeps
<1>2. CASE UNCHANGED vars
  <2> USE DEF vars, account, tables, quiet, outbox, asked, decided, closing, process,
              locals, bounds, DInv
  <2>1. Ladder' /\ Rows'
    BY <1>2 DEF Ladder, Rows
  <2>2. InHand'
    BY <1>2 DEF InHand, Cap
  <2>3. Journals' = Journals
    BY <1>2 DEF Journals
  <2>4. Closing' /\ Loud' /\ Watched'
    BY <1>2, <2>3 DEF Closing, AllWritten, Loud, Watched
  <2>5. \A u \in Tickers : Dealt(u)' <=> Dealt(u)
    BY <1>2 DEF Dealt
  <2>6. Said'
    BY <1>2, <2>5 DEF Said, VerdictIsTrue
  <2> QED
    BY <2>1, <2>2, <2>4, <2>6
<1> QED
  BY <1>1, <1>2

\* The invariant of the day: where the process is and which stages lie behind
\* it, what the rows hold, and which alert stands for what was not dealt with.
THEOREM DayInvariant == Spec => []DInv
<1> QED
  BY InitDInv, StepDInv, PTL DEF Spec

\* However the fires of a run date die and resume, the digest and each journal
\* are written once, and none is missing when the stage is done (run_close).
THEOREM CloseIsWrittenOnce == Spec => []CloseWrittenOnce
<1>1. DInv => CloseWrittenOnce
  <2> SUFFICES ASSUME DInv PROVE CloseWrittenOnce
    OBVIOUS
  <2>1. digest <= 1 /\ \A w \in Writers : journal[w] <= 1
    BY DEF DInv, Rows
  <2> QED
    BY <2>1 DEF DInv, Closing, AllWritten, CloseWrittenOnce
<1> QED
  BY <1>1, DayInvariant, PTL

\* AUDIT CLEAN is true: in no fire did anything fall back in silence
\* (report_audit and the alerts it counts).
THEOREM CleanVerdictIsTrue == Spec => []VerdictIsTrue
<1>1. DInv => VerdictIsTrue
  BY DEF DInv, Said
<1> QED
  BY <1>1, DayInvariant, PTL

\* What the gate approves fits alone every limit of the market of the fire that
\* approves it, whichever fire minted the ticket (_gate_handle, size).
THEOREM ApprovedTicketsFit == Spec => TicketsFit
<1>1. DInv /\ [Next]_vars =>
        [\A t \in Tickers :
           /\ decision[t].status = "submitted" /\ decision'[t].status = "approved"
           /\ ticket[t].status = "open"
           => FitsAlone(market, t, decision[t].side, ticket[t].qty)]_vars
  <2> SUFFICES ASSUME DInv, Next, NEW t \in Tickers,
                      decision[t].status = "submitted",
                      decision'[t].status = "approved",
                      ticket[t].status = "open"
               PROVE  FitsAlone(market, t, decision[t].side, ticket[t].qty)
    OBVIOUS
  <2>a. decision' # decision
    OBVIOUS
  <2>b. decision[t] \in Rulings
    BY Statuses DEF DInv, Rows
  <2>c. ASSUME NEW u \in Tickers, decision[u] \in Rulings,
               NEW status \in {"held", "rejected", "expired", "failed", "executed"},
               Settle(u, status)
        PROVE  FALSE
    <3>1. /\ decision'[u].status = status
          /\ \A v \in Tickers \ {u} : decision'[v] = decision[v]
      BY <2>c, Settles DEF DInv
    <3> QED
      BY <3>1
  <2>1. CASE SettleDecision
    <3>1. /\ at = <<"gate", "start">> /\ cur # None
          /\ Settle(cur, IF Cap(cur) < 1 THEN "rejected" ELSE "approved")
      BY <2>1 DEF SettleDecision, Starts
    <3>2. /\ cur \in Tickers /\ decision[cur].status = "submitted"
          /\ decision[cur].side \in {"buy", "sell"}
          /\ ticket[cur].status = "open" => ticket[cur].qty = Cap(cur) /\ Cap(cur) >= 1
      BY <3>1 DEF DInv, InHand
    <3>3. cur = t
      <4>1. decision[cur] \in Rulings
        BY <3>2, Statuses DEF DInv, Rows
      <4>2. \A v \in Tickers \ {cur} : decision'[v] = decision[v]
        <5>1. PICK status \in {"rejected", "approved"} : Settle(cur, status)
          BY <3>1
        <5> QED
          BY <3>2, <4>1, <5>1, Settles DEF DInv
      <4> QED
        BY <4>2
    <3>4. /\ decision[t].qty \in Int
          /\ Allowed(market, t, decision[t].side).qty \in Int
      BY <2>b, Statuses, AllowedIsInt
    <3>5. /\ Cap(t) \in Int /\ Cap(t) <= Allowed(market, t, decision[t].side).qty
      BY <3>4, MinOfTwo DEF Cap
    <3>6. ticket[t].qty \in Nat /\ ticket[t].qty >= 1
          /\ ticket[t].qty <= Allowed(market, t, decision[t].side).qty
      BY <3>2, <3>3, <3>5
    <3> QED
      BY <3>2, <3>3, <3>6, ApprovedFits
  <2>2. ASSUME NEW u \in Tickers, Hold(u) PROVE FALSE
    <3>1. decision[u] \in Rulings /\ Settle(u, "held")
      BY <2>2, Statuses DEF Hold, Submitted, DInv, Rows
    <3> QED
      BY <2>c, <3>1
  <2>3. ASSUME NEW u \in Tickers, Expire(u) \/ OrderDies(u) \/ Execute(u) PROVE FALSE
    <3>1. decision[u] \in Rulings
      BY <2>3 DEF Expire, OrderDies, Execute, Open, DInv, InHand
    <3>2. \E status \in {"expired", "failed", "executed"} : Settle(u, status)
      BY <2>3 DEF Expire, OrderDies, Execute
    <3> QED
      BY <2>c, <3>1, <3>2
  <2>4. ASSUME NEW u \in Tickers, NEW ask \in Asks, SubmitDecision(u, ask) PROVE FALSE
    <3>1. decision' = [decision EXCEPT ![u] =
             [side |-> ask.side, qty |-> ask.qty, status |-> "submitted", by |-> "pm"]]
      BY <2>4 DEF SubmitDecision
    <3> QED
      BY <3>1 DEF DInv, Rows
  <2>5. CASE DefaultHold
    <3>1. decision' = [decision EXCEPT ![cur] =
             [side |-> "hold", qty |-> 0, status |-> "submitted", by |-> "default"]]
      BY <2>5 DEF DefaultHold
    <3> QED
      BY <3>1 DEF DInv, Rows
  <2>6. ASSUME NEW u \in Tickers, AlertTimeout(u) \/ SettleTicket(u) PROVE FALSE
    BY <2>6, <2>a DEF AlertTimeout, SettleTicket, quiet, decided
  <2>7. CASE Others
    BY <2>7, <2>a, OthersLeaveBooks DEF books, decided
  <2>8. CASE Wakening \/ Signalling \/ EndExecution
    BY <2>8, <2>a DEF Wakening, Fire, FindClosed, Signalling, DefaultSignals, SubmitSignal,
                      EndExecution, tables, quiet, decided
  <2>9. CASE Watching \/ Writing \/ TheBroker
    BY <2>9, <2>a DEF Watching, ListPositions, ListOrders, CannotVerify, EndProtect, Writing,
                      WriteDigest, WriteJournal, TheBroker, ListLeg, StopFires, tables, quiet,
                      decided
  <2> QED
    BY <2>1, <2>2, <2>3, <2>4, <2>5, <2>6, <2>7, <2>8, <2>9, NextIs DEF Dealing
<1> QED
  BY <1>1, DayInvariant, PTL DEF Spec, TicketsFit

-----------------------------------------------------------------------------
(***************************************************************************)
(* The reading of the account.                                             *)
(***************************************************************************)
\* No more is held than the fund has bought, and what may still be bought or
\* sold is a quantity and a side of a decision that is closed.
TheBook ==
  /\ recorded \in [Tickers -> Int]
  /\ \A t \in Tickers : 0 <= held[t] /\ held[t] <= recorded[t]
  /\ \A t \in Tickers : ticket[t].status = "open" =>
       /\ ticket[t].qty >= 1 /\ decision[t].side \in {"buy", "sell"}
       /\ "decision" \in done

\* What has been read so far, and what it says of the shares still held: as
\* long as nothing has gone wrong, a second reading finds an empty account.
TheReading ==
  /\ faults \in Nat
  /\ at = Off => seen = None
  /\ at[2] = "account" /\ seen # None /\ faults = 0 => held = NoShares
  /\ at[2] = "positions" =>
       /\ seen.value = 0 => held = NoShares
       /\ faults = 0 => seen.bad = {}
       /\ seen.again /\ faults = 0 => seen.value = 0
  /\ at[2] = "refuse" => faults > 0
  /\ at[2] = "market" => market.lost = FALSE
  /\ market # None => market.lost = FALSE
  /\ exit = "refused" => faults > 0

SInv == DInv /\ TheBook /\ TheReading

\* An account without a share of anything is the empty one.
LEMMA Nothing ==
    ASSUME DInv PROVE held = NoShares <=> \A t \in Tickers : held[t] = 0
BY DEF DInv, Rows, NoShares

\* What the account is worth is nothing just when nothing is held.
LEMMA WorthOfHeld ==
    ASSUME DInv, TheBook PROVE Value([held |-> held]) = 0 <=> held = NoShares
<1> DEFINE a == [held |-> held]
<1>1. a.held = held /\ a.held \in [Tickers -> Nat]
  BY DEF DInv, Rows, TheBook
<1> HIDE DEF a
<1>2. Value(a) = 0 <=> \A t \in Tickers : a.held[t] = 0
  BY <1>1, ValueOfShares
<1> QED
  BY <1>1, <1>2, Nothing DEF a

\* A fire that starts has read nothing.
LEMMA FireReads ==
    ASSUME SInv, Wakening PROVE TheReading'
<1> USE DEF tables, process, locals, bounds, account, SInv, TheReading
<1>1. CASE Fire
  <2>1. at = Off /\ at' = <<"ingest", "account">> /\ exit' = "none"
        /\ UNCHANGED <<held, seen, market, faults>>
    BY <1>1 DEF Fire, Wakes
  <2> QED
    BY <2>1 DEF Off
<1>2. CASE FindClosed
  <2>1. exit' = "closed" /\ UNCHANGED <<held, at, seen, market, faults>>
    BY <1>2 DEF FindClosed
  <2> QED
    BY <2>1
<1> QED
  BY <1>1, <1>2 DEF Wakening

\* The market value is that of the shares held when it is read.
LEMMA AccountReads ==
    ASSUME SInv, ReadAccount PROVE TheReading'
<1> USE DEF tables, locals, account, SInv, TheReading
<1>1. at'[2] = "positions" /\ at[2] = "account" /\ at' # Off
      /\ UNCHANGED <<held, market, exit>>
  BY DEF ReadAccount, Goto, At, Off
<1>2. PICK bad \in SUBSET {"list", "value"} :
        /\ seen' = [again |-> seen # None, bad |-> bad, cash |-> cash,
                    value |-> Value([held |-> held])]
        /\ IF bad = {} THEN UNCHANGED bounds ELSE Fault
  BY DEF ReadAccount
<1>3. faults' \in Nat /\ faults' >= faults /\ (faults' = 0 => bad = {} /\ faults = 0)
  BY <1>2 DEF bounds, Fault
<1>4. seen'.bad = bad /\ (seen'.again <=> seen # None)
      /\ (seen'.value = 0 <=> held = NoShares)
  BY <1>2, WorthOfHeld
<1> QED
  BY <1>1, <1>3, <1>4

\* The list that goes on to the market is the account's, whichever half of the
\* reading failed; and without a fault no reading is refused.
LEMMA PositionsRead ==
    ASSUME SInv, ReadPositions PROVE TheReading'
<1> USE DEF quiet, bounds, account, SInv, TheReading
<1>1. at[2] = "positions" /\ UNCHANGED <<held, exit, faults>>
  BY DEF ReadPositions, At
<1>2. ~Recorded => held = NoShares
  <2> SUFFICES ASSUME ~Recorded PROVE \A t \in Tickers : held[t] = 0
    BY Nothing
  <2>1. \A t \in Tickers : ~ (recorded[t] > 0) /\ recorded[t] \in Int /\ held[t] \in Int
    BY DEF Recorded, TheBook, DInv, Rows
  <2> QED
    BY <2>1 DEF TheBook
<1>3. CASE ~PayloadFault
  <2>1. Goto("market") /\ seen' = None
        /\ market' = [account |-> [equity |-> seen.cash + seen.value, cash |-> seen.cash,
                                   held |-> Listed],
                      lost |-> Listed # held]
    BY <1>3 DEF ReadPositions
  <2>2. Listed = held
    <3>1. CASE "list" \notin seen.bad
      BY <3>1 DEF Listed
    <3>2. CASE "list" \in seen.bad
      <4>1. Listed = NoShares
        BY <3>2 DEF Listed
      <4>2. ~Recorded \/ seen.value = 0
        BY <1>3, <4>1 DEF PayloadFault
      <4> QED
        BY <1>1, <1>2, <4>1, <4>2
    <3> QED
      BY <3>1, <3>2
  <2>3. market'.lost = FALSE
    BY <2>1, <2>2
  <2>4. at'[2] = "market" /\ at' # Off
    BY <2>1 DEF Goto, Off
  <2> QED
    BY <1>1, <2>1, <2>3, <2>4
<1>4. CASE PayloadFault /\ ~seen.again
  <2>1. Goto("account") /\ UNCHANGED <<seen, market>>
    BY <1>4 DEF ReadPositions
  <2>2. at'[2] = "account" /\ at' # Off
    BY <2>1 DEF Goto, Off
  <2>3. faults = 0 => held = NoShares
    BY <1>1, <1>4 DEF PayloadFault, Listed
  <2> QED
    BY <1>1, <2>1, <2>2, <2>3
<1>5. CASE PayloadFault /\ seen.again
  <2>1. Goto("refuse") /\ UNCHANGED <<seen, market>>
    BY <1>5 DEF ReadPositions
  <2>2. at'[2] = "refuse" /\ at' # Off
    BY <2>1 DEF Goto, Off
  <2>3. faults # 0
    BY <1>1, <1>5 DEF PayloadFault
  <2> QED
    BY <1>1, <2>1, <2>2, <2>3
<1> QED
  BY <1>3, <1>4, <1>5

\* The rest of the ingest sizes on that list, or refuses the day.
LEMMA IngestReads ==
    ASSUME SInv, Refuse \/ FetchMarket \/ CheckConfig PROVE TheReading'
<1> USE DEF quiet, tables, bounds, account, locals, SInv, TheReading, Fault
<1>1. CASE Refuse
  <2>1. at' = Off /\ seen' = None /\ market' = None /\ held' = held /\ at[2] = "refuse"
    BY <1>1 DEF Refuse, Stops, At
  <2>2. faults' \in {faults, faults + 1}
    BY <1>1 DEF Refuse, Drain
  <2> QED
    BY <2>1, <2>2 DEF Off
<1>2. CASE FetchMarket
  <2>1. /\ at[2] = "market" /\ at'[2] = "config" /\ at' # Off
        /\ UNCHANGED <<held, seen, exit>>
    BY <1>2 DEF FetchMarket, At, Goto, Off
  <2>2. faults' \in {faults, faults + 1} /\ market'.lost = market.lost
    BY <1>2 DEF FetchMarket
  <2> QED
    BY <2>1, <2>2
<1>3. CASE CheckConfig
  <2>1. at' = <<"pre_gate", "start">> /\ UNCHANGED <<held, seen, market, exit>>
        /\ faults' \in {faults, faults + 1}
    BY <1>3 DEF CheckConfig
  <2> QED
    BY <2>1 DEF Off
<1> QED
  BY <1>1, <1>2, <1>3

\* What the steps outside the ingest leave of the reading.
Away ==
  /\ at'[1] # "ingest"
  /\ at' = Off => seen' = None
  /\ market' \in {market, None}
  /\ exit' \in {exit, "clean", "red", "failed", "killed"}
  /\ faults' \in {faults, faults + 1}

\* Outside the ingest nothing is read of the account.
LEMMA AwayReads ==
    ASSUME SInv, DInv', Away PROVE TheReading'
<1>1. at'[2] \notin {"account", "positions", "refuse", "market"}
  <2>1. at'[2] \in {"account", "positions", "market", "config", "refuse"} => at'[1] = "ingest"
    <3>1. Ladder'
      BY DEF DInv
    <3>2. at' \in Places /\ at'[2] \in Steps(at'[1])
      BY <3>1 DEF Ladder
    <3>3. at'[1] \in DOMAIN Rank
      BY <3>2 DEF Places
    <3>4. at'[1] \in {"off", "ingest", "pre_gate", "research", "decision", "gate", "execution",
             "reconciliation", "protect", "close", "report"}
      BY <3>3 DEF Rank
    <3> QED
      BY <3>2, <3>4 DEF Steps
  <2> QED
    BY <2>1 DEF Away
<1> QED
  BY <1>1 DEF Away, SInv, TheReading

\* Stages that start, end or are skipped, and the desks' turns.
LEMMA DesksAway ==
    ASSUME Ladder,
           \/ SkipStage \/ EndStage \/ AlertGateErrors \/ Offer \/ StartResearch \/ EndTurn
           \/ RecordCost \/ DefaultCritiques \/ EndDecision \/ Signalling
    PROVE  Away /\ UNCHANGED <<decision, ticket, held, recorded>> /\ done \subseteq done'
<1> USE DEF quiet, tables, asked, decided, account, process, locals, bounds, Fault, Drain,
            outbox, closing
<1>1. CASE SkipStage \/ EndStage
  <2>1. at[1] \in StageNames
    BY <1>1, Where, StagesAre DEF SkipStage, EndStage, At, Ladder
  <2>2. at' = <<After(at[1]), "start">> /\ at'[1] \notin {"off", "ingest"} /\ at' # Off
    BY <1>1, <2>1, RankAfter DEF SkipStage, EndStage, Off
  <2> QED
    BY <1>1, <2>2 DEF SkipStage, EndStage, Away
<1>2. CASE AlertGateErrors \/ Offer \/ StartResearch
  <2>1. at[1] \in {"pre_gate", "research"} /\ at'[1] = at[1]
    BY <1>2, Where DEF AlertGateErrors, Offer, StartResearch, Starts, At, Goto
  <2> QED
    BY <1>2, <2>1 DEF AlertGateErrors, Offer, StartResearch, Away, Off
<1>3. CASE EndTurn \/ RecordCost
  <2>1. at[1] \in {"research", "decision"} /\ at'[1] = at[1]
    BY <1>3, Where DEF EndTurn, RecordCost, At, Goto
  <2>2. at'[1] # "ingest" /\ at' # Off
    BY <2>1 DEF Off
  <2>3. /\ UNCHANGED <<decision, ticket, held, recorded, done, seen, market, exit>>
        /\ faults' \in {faults, faults + 1}
    <3>1. CASE EndTurn
      BY <3>1 DEF EndTurn
    <3>2. CASE RecordCost
      BY <3>2 DEF RecordCost
    <3> QED
      BY <1>3, <3>1, <3>2
  <2> QED
    BY <2>2, <2>3 DEF Away
<1>4. CASE DefaultCritiques \/ EndDecision
  <2>1. at[1] = "decision" /\ at'[1] = at[1]
    BY <1>4 DEF DefaultCritiques, EndDecision, Starts, Goto
  <2> QED
    BY <1>4, <2>1 DEF DefaultCritiques, EndDecision, Away, Off
<1>5. CASE Signalling
  <2>1. at[1] = "research" /\ at'[1] = at[1]
    BY <1>5 DEF Signalling, DefaultSignals, SubmitSignal, Goto
  <2>2. CASE DefaultSignals
    BY <2>1, <2>2 DEF DefaultSignals, Away, Off
  <2>3. ASSUME NEW s \in Seats, NEW t \in Tickers, SubmitSignal(s, t)
        PROVE  Away /\ UNCHANGED <<decision, ticket, held, recorded>> /\ done \subseteq done'
    BY <2>1, <2>3 DEF SubmitSignal, Away, Off
  <2> QED
    BY <1>5, <2>2, <2>3 DEF Signalling
<1> QED
  BY <1>1, <1>2, <1>3, <1>4, <1>5

\* The gate's end, the orders' end, the watch, the close and the report; and
\* the ends a fire can come to.
LEMMA ReportAway ==
    ASSUME Ladder,
           \/ EndGate \/ EndExecution \/ Reconcile \/ Watching \/ Writing \/ EndClose
           \/ PostScorecard \/ Audit \/ EndRed \/ Raise \/ Crash
    PROVE  Away /\ UNCHANGED <<decision, ticket, held, recorded, done>>
<1> USE DEF quiet, tables, asked, decided, account, process, locals, bounds, Fault, Drain,
            outbox, closing
<1>1. CASE EndGate \/ EndExecution \/ Reconcile
  <2>1. \E s \in {"gate", "execution", "reconciliation"} : at = <<s, "start">> /\ Goto("end")
    BY <1>1 DEF EndGate, EndExecution, Reconcile, Starts
  <2>2. at'[1] # "ingest" /\ at' # Off
    BY <2>1 DEF Goto, Off
  <2>3. /\ UNCHANGED <<decision, ticket, held, recorded, done>>
        /\ UNCHANGED <<seen, market, exit, faults>>
    BY <1>1 DEF EndGate, EndExecution, Reconcile
  <2> QED
    BY <2>2, <2>3 DEF Away
<1>2. CASE Watching
  <2>1. at[1] = "protect" /\ at'[1] \in {"protect", "close"}
    BY <1>2, Where DEF Watching, ListPositions, ListOrders, CannotVerify, EndProtect, At, Goto
  <2> QED
    BY <1>2, <2>1 DEF Watching, ListPositions, ListOrders, CannotVerify, EndProtect, Away, Off
<1>3. CASE Writing \/ EndClose
  <2>1. at[1] = "close" /\ at'[1] = at[1]
    BY <1>3, Where DEF Writing, WriteDigest, WriteJournal, EndClose, Starts, At, Goto
  <2> QED
    BY <1>3, <2>1 DEF Writing, WriteDigest, WriteJournal, EndClose, Away, Off
<1>4. CASE PostScorecard
  <2>1. at' = <<"report", "audit">>
    BY <1>4 DEF PostScorecard, Goto
  <2> QED
    BY <1>4, <2>1 DEF PostScorecard, Away, Off
<1>6. CASE Audit
  <2>1. at[1] = "report"
    BY <1>6, Where DEF Audit, At
  <2>2. Stops("clean") \/ (Goto("red") /\ UNCHANGED locals)
    BY <1>6 DEF Audit
  <2>3. /\ at'[1] # "ingest" /\ (at' = Off => seen' = None)
        /\ market' \in {market, None} /\ exit' \in {exit, "clean"}
    BY <2>1, <2>2 DEF Stops, Goto, Off
  <2>4. UNCHANGED <<decision, ticket, held, recorded, done, faults>>
    BY <1>6 DEF Audit
  <2> QED
    BY <2>3, <2>4 DEF Away
<1>5. CASE EndRed \/ Raise \/ Crash
  <2>1. \E why \in {"red", "failed", "killed"} : Stops(why)
    BY <1>5 DEF EndRed, Raise, Crash
  <2>2. faults' \in {faults, faults + 1} /\ UNCHANGED <<decision, ticket, held, recorded, done>>
    BY <1>5 DEF EndRed, Raise, Crash
  <2> QED
    BY <2>1, <2>2 DEF Away, Stops, Off
<1> QED
  BY <1>1, <1>2, <1>3, <1>4, <1>5, <1>6

\* The decisions and the orders.
LEMMA DealingAway ==
    ASSUME Ladder, Dealing PROVE Away
<1>1. at[1] \in {"decision", "gate", "execution"} /\ at'[1] = at[1]
      /\ UNCHANGED <<exit, market>>
  BY DealingAt
<1>2. faults' = faults
  BY DEF Dealing, SubmitDecision, AlertTimeout, Hold, SettleTicket, Expire, OrderDies, Execute,
         DefaultHold, SettleDecision, bounds
<1> QED
  BY <1>1, <1>2 DEF Away, Off

\* A stop that goes off takes shares from the account, and so from what the
\* reading under way may still find.
LEMMA BrokerReads ==
    ASSUME SInv, TheBroker PROVE TheReading' /\ TheBook'
<1> USE DEF tables, process, locals, bounds, SInv
<1>1. UNCHANGED <<at, seen, market, exit, faults, recorded, ticket, decision, done>>
  BY DEF TheBroker, ListLeg, StopFires, quiet, decided
<1>2. held' \in [Tickers -> Int] /\ \A t \in Tickers : held'[t] = held[t] \/ held'[t] = 0
  BY DEF TheBroker, ListLeg, StopFires, DInv, Rows
<1>3. held = NoShares => held' = NoShares
  BY <1>2 DEF NoShares, DInv, Rows
<1>4. TheReading'
  BY <1>1, <1>3 DEF TheReading
<1>5. TheBook'
  <2>1. \A t \in Tickers : 0 <= held'[t] /\ held'[t] <= recorded'[t]
    BY <1>1, <1>2 DEF TheBook, DInv, Rows
  <2> QED
    BY <1>1, <2>1 DEF TheBook
<1> QED
  BY <1>4, <1>5

\* Whatever the gate mints is something to buy or to sell, of a decision the
\* PM can no longer change; and no order sells more than is held.
LEMMA DealingBooks ==
    ASSUME SInv, Dealing PROVE TheBook'
<1>a. /\ at[1] \in {"decision", "gate", "execution"} /\ at[1] \notin done /\ done' = done
  BY DealingAt DEF SInv, DInv
<1>b. at[1] \in {"gate", "execution"} => "decision" \in done
  <2>1. Rank["decision"] < Rank["gate"] /\ Rank["decision"] < Rank["execution"]
    BY DEF Rank
  <2>2. "decision" \in Stages
    BY StagesAre DEF StageNames
  <2> QED
    BY <2>1, <2>2 DEF SInv, DInv, Ladder
<1>c. ASSUME UNCHANGED <<recorded, held>>,
             \A t \in Tickers : ticket'[t].status = "open" =>
               /\ ticket'[t].qty >= 1 /\ decision'[t].side \in {"buy", "sell"}
               /\ "decision" \in done
      PROVE  TheBook'
  BY <1>a, <1>c DEF SInv, TheBook
<1>1. CASE at[1] = "decision"
  <2>1. UNCHANGED <<ticket, recorded, held>>
    <3>1. ASSUME NEW t \in Tickers, NEW ask \in Asks, SubmitDecision(t, ask)
          PROVE  UNCHANGED <<ticket, recorded, held>>
      BY <3>1 DEF SubmitDecision, account
    <3>2. ASSUME NEW t \in Tickers, AlertTimeout(t) PROVE UNCHANGED <<ticket, recorded, held>>
      BY <3>2 DEF AlertTimeout, quiet, decided, account
    <3>3. CASE DefaultHold
      BY <3>3 DEF DefaultHold, account
    <3>4. ASSUME NEW t \in Tickers,
                 Hold(t) \/ SettleTicket(t) \/ Expire(t) \/ OrderDies(t) \/ Execute(t)
          PROVE  FALSE
      BY <1>1, <3>4 DEF Hold, SettleTicket, Expire, OrderDies, Execute, Starts
    <3>5. CASE SettleDecision
      BY <1>1, <3>5 DEF SettleDecision, Starts
    <3> QED
      BY <3>1, <3>2, <3>3, <3>4, <3>5 DEF Dealing
  <2>2. \A t \in Tickers : ticket[t].status # "open"
    BY <1>1, <1>a DEF SInv, TheBook
  <2> QED
    BY <1>c, <2>1, <2>2
<1>2. ASSUME NEW t \in Tickers, Hold(t) PROVE TheBook'
  <2>1. Settle(t, "held") /\ decision[t] \in Rulings /\ UNCHANGED <<ticket, recorded, held>>
    BY <1>2, Statuses DEF Hold, Submitted, account, SInv, DInv, Rows
  <2>2. \A u \in Tickers : decision'[u].side = decision[u].side
    BY <2>1, Settles DEF SInv, DInv
  <2> QED
    BY <1>c, <2>1, <2>2 DEF SInv, TheBook
<1>3. CASE SettleDecision
  <2>1. /\ at = <<"gate", "start">> /\ cur # None /\ UNCHANGED <<ticket, recorded, held>>
        /\ \E status \in {"rejected", "approved"} : Settle(cur, status)
    BY <1>3 DEF SettleDecision, Starts, account
  <2>2. cur \in Tickers /\ decision[cur] \in Rulings
    BY <2>1, Statuses DEF SInv, DInv, InHand, Rows
  <2>3. \A u \in Tickers : decision'[u].side = decision[u].side
    BY <2>1, <2>2, Settles DEF SInv, DInv
  <2> QED
    BY <1>c, <2>1, <2>3 DEF SInv, TheBook
<1>4. ASSUME NEW t \in Tickers, SettleTicket(t) PROVE TheBook'
  <2>1. /\ at[1] = "gate" /\ decision[t].status = "submitted" /\ decision[t].side # "hold"
        /\ UNCHANGED <<decision, recorded, held>>
    BY <1>4 DEF SettleTicket, Starts, Submitted, account
  <2>2. decision[t] \in Rulings
    BY <2>1, Statuses DEF SInv, DInv, Rows
  <2>3. decision[t].side \in {"buy", "sell"}
    BY <2>1, <2>2, Statuses
  <2>4. /\ \A u \in Tickers \ {t} : ticket'[u] = ticket[u]
        /\ ticket'[t].status = "open" => ticket'[t].qty >= 1
    BY <1>4, <2>2, Tickets DEF SInv, DInv
  <2> QED
    BY <1>b, <1>c, <2>1, <2>3, <2>4 DEF SInv, TheBook
<1>5. ASSUME NEW t \in Tickers, Expire(t) \/ OrderDies(t) \/ Execute(t) PROVE TheBook'
  <2>1. ticket[t].status = "open" /\ at[1] = "execution"
    BY <1>5 DEF Expire, OrderDies, Execute, Open, Starts
  <2>2. decision[t] \in Rulings
    BY <2>1 DEF SInv, DInv, InHand
  <2>3. \A u \in Tickers : decision'[u].side = decision[u].side
    <3>1. PICK status \in {"expired", "failed", "executed"} : Settle(t, status)
      BY <1>5 DEF Expire, OrderDies, Execute
    <3> QED
      BY <2>2, <3>1, Settles DEF SInv, DInv
  <2>4. ticket'[t].status # "open" /\ \A u \in Tickers \ {t} : ticket'[u] = ticket[u]
    <3>1. PICK end \in {"expired", "consumed"} : ticket' = [ticket EXCEPT ![t].status = end]
      BY <1>5 DEF Expire, OrderDies, Execute
    <3> QED
      BY <3>1, TicketEnds DEF SInv, DInv
  <2>5. \A u \in Tickers : ticket'[u].status = "open" =>
          /\ ticket'[u].qty >= 1 /\ decision'[u].side \in {"buy", "sell"}
          /\ "decision" \in done
    BY <2>3, <2>4 DEF SInv, TheBook
  <2>6. CASE Expire(t) \/ OrderDies(t)
    <3>1. UNCHANGED <<recorded, held>>
      BY <2>6 DEF Expire, OrderDies, account
    <3> QED
      BY <1>c, <2>5, <3>1
  <2>7. CASE Execute(t)
    <3> DEFINE q == IF decision[t].side = "buy" THEN ticket[t].qty ELSE -ticket[t].qty
    <3>1. ticket[t].qty \in Int /\ ticket[t].qty >= 1 /\ decision[t].side \in {"buy", "sell"}
      BY <2>1 DEF SInv, DInv, Rows, TicketRows, TheBook
    <3>2. q \in Int /\ held[t] \in Int /\ recorded[t] \in Int
          /\ 0 <= held[t] /\ held[t] <= recorded[t]
      BY <3>1 DEF SInv, DInv, Rows, TheBook
    <3>3. 0 <= held[t] + q
      BY <2>7, <3>1, <3>2 DEF Execute, CanSell
    <3>4. /\ held' = [held EXCEPT ![t] = @ + q]
          /\ recorded' = [recorded EXCEPT ![t] = @ + q]
      BY <2>7 DEF Execute
    <3> HIDE DEF q
    <3>5. recorded' \in [Tickers -> Int]
      BY <3>2, <3>4 DEF SInv, TheBook
    <3>6. ASSUME NEW u \in Tickers PROVE 0 <= held'[u] /\ held'[u] <= recorded'[u]
      <4>1. CASE u = t
        <5>1. held'[u] = held[t] + q /\ recorded'[u] = recorded[t] + q
          BY <3>4, <4>1 DEF SInv, DInv, Rows, TheBook
        <5> QED
          BY <3>2, <3>3, <5>1
      <4>2. CASE u # t
        BY <3>4, <4>2 DEF SInv, DInv, Rows, TheBook
      <4> QED
        BY <4>1, <4>2
    <3> QED
      BY <1>a, <2>5, <3>5, <3>6 DEF TheBook
  <2> QED
    BY <1>5, <2>6, <2>7
<1> QED
  <2>1. ASSUME NEW t \in Tickers,
               (\E ask \in Asks : SubmitDecision(t, ask)) \/ AlertTimeout(t)
        PROVE  at[1] = "decision"
    BY <2>1 DEF SubmitDecision, AlertTimeout
  <2>2. DefaultHold => at[1] = "decision"
    BY Where DEF DefaultHold, At, SInv, DInv
  <2> QED
    BY <1>1, <1>2, <1>3, <1>4, <1>5, <2>1, <2>2 DEF Dealing

\* Every step keeps the invariant of the reading.
LEMMA StepSInv == SInv /\ DInv' /\ [Next]_vars => SInv'
<1> SUFFICES ASSUME SInv, DInv', [Next]_vars PROVE TheBook' /\ TheReading'
  BY DEF SInv
<1>a. ASSUME UNCHANGED <<decision, ticket, held, recorded>>, done \subseteq done' PROVE TheBook'
  BY <1>a DEF SInv, TheBook
<1>b. Ladder
  BY DEF SInv, DInv
<1>1. CASE Wakening
  <2>1. UNCHANGED <<decision, ticket, held, recorded, done>>
    BY <1>1 DEF Wakening, Fire, FindClosed, tables, quiet, decided, account
  <2> QED
    BY <1>1, <1>a, <2>1, FireReads
<1>2. CASE ReadAccount \/ ReadPositions \/ Refuse \/ FetchMarket \/ CheckConfig
  <2>1. UNCHANGED <<decision, ticket, held, recorded, done>>
    BY <1>2 DEF ReadAccount, ReadPositions, Refuse, FetchMarket, CheckConfig, tables, quiet,
                decided, account
  <2> QED
    BY <1>2, <1>a, <2>1, AccountReads, PositionsRead, IngestReads
<1>3. CASE \/ SkipStage \/ EndStage \/ AlertGateErrors \/ Offer \/ StartResearch \/ EndTurn
           \/ RecordCost \/ DefaultCritiques \/ EndDecision \/ Signalling
  BY <1>3, <1>a, <1>b, DesksAway, AwayReads
<1>4. CASE \/ EndGate \/ EndExecution \/ Reconcile \/ Watching \/ Writing \/ EndClose
           \/ PostScorecard \/ Audit \/ EndRed \/ Raise \/ Crash
  BY <1>4, <1>a, <1>b, ReportAway, AwayReads
<1>5. CASE Dealing
  BY <1>5, <1>b, DealingAway, AwayReads, DealingBooks
<1>6. CASE TheBroker
  BY <1>6, BrokerReads
<1>7. CASE UNCHANGED vars
  <2>1. UNCHANGED <<decision, ticket, held, recorded, done, at, seen, market, exit, faults>>
    BY <1>7 DEF vars, tables, quiet, decided, account, process, locals, bounds
  <2> QED
    BY <1>a, <2>1 DEF SInv, TheReading
<1> QED
  BY <1>1, <1>2, <1>3, <1>4, <1>5, <1>6, <1>7, NextIs DEF Others

\* A day that opens with no more than the fund has bought satisfies it.
LEMMA InitSInv == OwnBook /\ Init => TheBook /\ TheReading
<1> SUFFICES ASSUME OwnBook, Init PROVE TheBook /\ TheReading
  OBVIOUS
<1>1. PICK o \in Opening : held = o.held /\ recorded = o.recorded
  BY DEF Init
<1>2. o.held \in [Tickers -> Nat] /\ o.recorded \in [Tickers -> Nat]
  BY TradingDayAssumption
<1>3. \A t \in Tickers : 0 <= held[t] /\ held[t] <= recorded[t]
  BY <1>1, <1>2 DEF OwnBook
<1>4. recorded \in [Tickers -> Int]
  BY <1>1, <1>2
<1>5. \A t \in Tickers : ticket[t].status # "open"
  BY DEF Init, NoTicket
<1>6. TheBook
  BY <1>3, <1>4, <1>5 DEF TheBook
<1>7. TheReading
  BY DEF Init, TheReading, Off
<1> QED
  BY <1>6, <1>7

\* Where the account opens with what the fund has bought, no fire sizes on a
\* list that was lost while the fund holds a book, whatever else could not be
\* read, and no day is refused unless something went wrong (account_snapshot,
\* payload_fault).
THEOREM NoDayOnALostBook ==
    ASSUME OwnBook PROVE Spec => []SizedOnTheBook
<1>1. Init => SInv
  BY InitDInv, InitSInv DEF SInv
<1>2. SInv /\ [Next]_vars => SInv'
  BY StepDInv, StepSInv DEF SInv
<1>3. SInv => SizedOnTheBook
  BY DEF SInv, TheReading, SizedOnTheBook
<1> QED
  BY <1>1, <1>2, <1>3, PTL DEF Spec

=============================================================================
