-------------------------- MODULE AccountingProofs --------------------------
(***************************************************************************)
(* For any number of shares: the accounting check is neither silent about  *)
(* a new loss nor loud about an old one.                                   *)
(***************************************************************************)
EXTENDS Accounting, TLAPS

(***************************************************************************)
(* What the moves since the last word say about the numbers.  A purchase   *)
(* or a sale keeps the gap, a loss widens it, a write-off narrows it; only *)
(* a purchase raises what is recorded.                                     *)
(***************************************************************************)
Widened ==
    last \in Gaps /\ moves \cap {"by_hand", "written_off"} = {} =>
      /\ recorded - held >= last.recorded - last.held
      /\ "lost" \in moves => recorded - held > last.recorded - last.held

Shrunk ==
    last \in Gaps /\ "bought" \notin moves =>
      /\ recorded <= last.recorded
      /\ "written_off" \in moves => recorded < last.recorded

Unmoved ==
    last \in Gaps /\ moves \subseteq {"bought"} =>
      recorded - held = last.recorded - last.held /\ recorded >= last.recorded

Whole == last \notin Gaps /\ "lost" \notin moves => held >= recorded

AInv == TypeOK /\ Widened /\ Shrunk /\ Unmoved /\ Whole

\* A gap is read back as it was built, and no gap is one of the two other
\* words.
LEMMA GapFields ==
    /\ \A w, h \in Shares : Gap(w, h) \in Gaps /\ Gap(w, h).recorded = w
                            /\ Gap(w, h).held = h
    /\ \A g \in Gaps : g.recorded \in Shares /\ g.held \in Shares
    /\ None \notin Gaps /\ Cleared \notin Gaps
<1>1. \A w, h \in Shares : Gap(w, h) \in Gaps
  BY DEF Gaps
<1>2. \A w, h : /\ Gap(w, h).recorded = w /\ Gap(w, h).held = h
                /\ Gap(w, h).kind = "gap"
  BY DEF Gap
<1>3. \A g \in Gaps : g.recorded \in Shares /\ g.held \in Shares /\ g.kind = "gap"
  BY <1>2 DEF Gaps
<1>4. None.kind # "gap" /\ Cleared.kind # "gap"
  BY DEF None, Cleared
<1> QED
  BY <1>1, <1>2, <1>3, <1>4

\* Share counts are integers, so that they can be compared.
LEMMA SharesAreInts == Shares \subseteq Int /\ 0 \in Shares
  BY AccountingAssumption DEF Shares

\* The invariant holds at the start.
LEMMA InitInv == Init => AInv
  BY GapFields, SharesAreInts, AccountingAssumption
     DEF Init, AInv, TypeOK, Widened, Shrunk, Unmoved, Whole, Moves, Shares

\* What happens between two checks.
LEMMA HappensInv ==
    ASSUME AInv, NEW q \in 1 .. MaxShares,
           Buy(q) \/ Sell(q) \/ StopFires(q) \/ WriteOff(q) \/ BuyByHand(q)
    PROVE  AInv'
<1> USE GapFields, AccountingAssumption DEF AInv, TypeOK, Happens, Shares, Moves
<1>1. CASE Buy(q)
  BY <1>1 DEF Buy, Widened, Shrunk, Unmoved, Whole
<1>2. CASE Sell(q)
  BY <1>2 DEF Sell, Widened, Shrunk, Unmoved, Whole
<1>3. CASE StopFires(q)
  BY <1>3 DEF StopFires, Widened, Shrunk, Unmoved, Whole
<1>4. CASE WriteOff(q)
  BY <1>4 DEF WriteOff, Widened, Shrunk, Unmoved, Whole
<1>5. CASE BuyByHand(q)
  BY <1>5 DEF BuyByHand, Widened, Shrunk, Unmoved, Whole
<1> QED
  BY <1>1, <1>2, <1>3, <1>4, <1>5

\* A verdict on what the broker holds, or on no more than that.
LEMMA JudgeInv ==
    ASSUME AInv, NEW have \in 0 .. held, Judge(have),
           have = held \/ have >= recorded
    PROVE  AInv'
<1>1. /\ at' = "idle" /\ fresh' = 0
      /\ recorded' = recorded /\ held' = held
      /\ recorded \in Shares /\ held \in Shares /\ have \in Shares
  BY SharesAreInts, AccountingAssumption DEF Judge, AInv, TypeOK, Shares
<1>2. CASE have >= recorded /\ Agree
  <2>1. last' \notin Gaps /\ last' \in {None, Cleared} /\ held >= recorded
    BY <1>1, <1>2, GapFields, SharesAreInts DEF Agree, AInv, TypeOK
  <2> QED
    BY <1>1, <1>2, <2>1, SharesAreInts, GapFields
       DEF Agree, AInv, TypeOK, Moves, Widened, Shrunk, Unmoved, Whole
<1>3. CASE have < recorded /\ PassOver
  BY <1>1, <1>3, SharesAreInts
     DEF PassOver, AInv, TypeOK, Widened, Shrunk, Unmoved, Whole
<1>4. CASE have < recorded /\ Report(have)
  <2>1. have = held
    BY <1>4, SharesAreInts DEF AInv, TypeOK, Shares
  <2>2. last' \in Gaps /\ last'.recorded = recorded /\ last'.held = held
    BY <1>1, <1>4, <2>1, GapFields DEF Report
  <2>3. TypeOK'
    BY <1>1, <1>4, <2>1, <2>2, SharesAreInts DEF Report, TypeOK, Moves
  <2>4. moves' = {} /\ recorded' \in Int /\ held' \in Int
        /\ last'.recorded = recorded' /\ last'.held = held'
    BY <1>1, <1>4, <2>2, SharesAreInts DEF Report
  <2>5. Widened'
    <3>1. "lost" \notin moves'
      BY <2>4
    <3>2. recorded' - held' = last'.recorded - last'.held
      BY <2>4
    <3>3. recorded' - held' \in Int
      BY <2>4
    <3>4. recorded' - held' >= last'.recorded - last'.held
      BY <3>2, <3>3
    <3> QED
      BY <3>1, <3>4 DEF Widened
  <2>6. Shrunk'
    BY <2>4 DEF Shrunk
  <2>7. Unmoved'
    BY <2>4 DEF Unmoved
  <2>8. Whole'
    BY <2>2 DEF Whole
  <2> QED
    BY <2>3, <2>5, <2>6, <2>7, <2>8 DEF AInv
<1> QED
  BY <1>2, <1>3, <1>4 DEF Judge

\* The list of positions never shows more than is held.
LEMMA ListedBelow == ASSUME TypeOK PROVE Listed \subseteq 0 .. held
  BY AccountingAssumption DEF TypeOK, Listed, Shares

\* Every step keeps the invariant.
LEMMA StepInv == AInv /\ [Next]_vars => AInv'
<1> SUFFICES ASSUME AInv, [Next]_vars PROVE AInv'
  OBVIOUS
<1> USE DEF AInv
<1>1. CASE \E q \in 1 .. MaxShares :
             Buy(q) \/ Sell(q) \/ StopFires(q) \/ WriteOff(q) \/ BuyByHand(q)
  BY <1>1, HappensInv
<1>2. CASE CheckNothing \/ GiveUp \/ UNCHANGED vars
  BY <1>2 DEF CheckNothing, GiveUp, vars, book, TypeOK, Widened,
              Shrunk, Unmoved, Whole
<1>3. CASE Read
  <2>1. CASE \E have \in Listed : have >= recorded /\ Judge(have)
    BY <2>1, ListedBelow, JudgeInv
  <2>2. CASE at' = "nap" /\ said' = "nothing" /\ UNCHANGED <<book, last, moves>>
    BY <2>2, <1>3 DEF Read, book, TypeOK, Widened, Shrunk, Unmoved, Whole
  <2> QED
    BY <1>3, <2>1, <2>2 DEF Read
<1>4. CASE Reread
  <2>1. held \in 0 .. held
    BY SharesAreInts DEF TypeOK, Shares
  <2> QED
    BY <1>4, <2>1, JudgeInv DEF Reread
<1> QED
  BY <1>1, <1>2, <1>3, <1>4 DEF Next

\* The reachable states are well typed, and the moves since the last word
\* bound the numbers as AInv says.
THEOREM AccountingInvariant == Spec => []AInv
  BY InitInv, StepInv, PTL DEF Spec

\* Type correctness of the accounting check.
THEOREM AccountingTypes == Spec => []TypeOK
<1>1. AInv => TypeOK
  BY DEF AInv
<1> QED
  BY <1>1, AccountingInvariant, PTL

-----------------------------------------------------------------------------

\* A verdict that is not "nothing" is the second read's.
LEMMA VerdictIsReread ==
    ASSUME AInv, Next, said' # "nothing"
    PROVE  /\ Reread /\ held < recorded
           /\ said' = "silence" => Standing(held)
           /\ said' = "reported" => ~ Standing(held)
<1>1. ~ \E q \in 1 .. MaxShares :
          Buy(q) \/ Sell(q) \/ StopFires(q) \/ WriteOff(q) \/ BuyByHand(q)
  BY DEF Buy, Sell, StopFires, WriteOff, BuyByHand, Happens
<1>2. ~ CheckNothing /\ ~ GiveUp
  BY DEF CheckNothing, GiveUp
<1>3. ~ Read
  BY ListedBelow, SharesAreInts, AccountingAssumption
     DEF Read, Judge, Agree, AInv, TypeOK, Shares
<1>4. Reread
  BY <1>1, <1>2, <1>3 DEF Next
<1> QED
  BY <1>4 DEF Reread, Judge, Agree, PassOver, Report

\* A new loss is never passed over in silence, unless a purchase by hand, or
\* a write-off and a purchase that undid it, made up for it unseen.
\* (assert_positions_accounted)
THEOREM LossesAreLoud == Spec => NewLossIsLoud
<1>1. AInv /\ [Next]_vars =>
        [said' = "silence" /\ "lost" \in moves =>
           "by_hand" \in moves \/ {"written_off", "bought"} \subseteq moves]_vars
  <2> SUFFICES ASSUME AInv, Next, said' = "silence", "lost" \in moves,
                      "by_hand" \notin moves
               PROVE  {"written_off", "bought"} \subseteq moves
    OBVIOUS
  <2>1. Standing(held)
    BY VerdictIsReread
  <2>2. "written_off" \in moves
    BY <2>1, SharesAreInts DEF Standing, AInv, TypeOK, Widened
  <2>3. last.recorded \in Int /\ recorded \in Int
    BY <2>1, GapFields, SharesAreInts DEF Standing, AInv, TypeOK
  <2>4. "bought" \in moves
    BY <2>1, <2>2, <2>3 DEF Standing, AInv, Shrunk
  <2> QED
    BY <2>2, <2>4
<1> QED
  BY <1>1, AccountingInvariant, PTL DEF Spec, NewLossIsLoud

\* No gap is reported twice because of purchases alone, and none is reported
\* where nothing was lost.  (assert_positions_accounted)
THEOREM NoNoise == Spec => ReportedOnce
<1>1. AInv /\ [Next]_vars =>
        [said' = "reported" =>
           \/ "lost" \in moves
           \/ /\ last \in Gaps
              /\ moves \cap {"sold", "written_off", "by_hand"} # {}]_vars
  <2> SUFFICES ASSUME AInv, Next, said' = "reported", "lost" \notin moves
               PROVE  /\ last \in Gaps
                      /\ moves \cap {"sold", "written_off", "by_hand"} # {}
    OBVIOUS
  <2>1. held < recorded /\ ~ Standing(held)
    BY VerdictIsReread
  <2>2. last \in Gaps
    BY <2>1, SharesAreInts DEF AInv, TypeOK, Whole
  <2>3. ~ (moves \subseteq {"bought"})
    BY <2>1, <2>2, GapFields, SharesAreInts DEF Standing, AInv, TypeOK, Unmoved
  <2> QED
    BY <2>2, <2>3 DEF AInv, TypeOK, Moves
<1> QED
  BY <1>1, AccountingInvariant, PTL DEF Spec, ReportedOnce
=============================================================================
