------------------------------ MODULE G1Proofs ------------------------------
(***************************************************************************)
(* The G1 queue for any number of specs, turns and crashes: a spec is      *)
(* announced once or known to be stranded, a verdict is written by its own *)
(* turn, and a leg that ends in silence leaves nothing pending.            *)
(***************************************************************************)
EXTENDS G1Nights, TLAPS, FiniteSetTheorems, SequenceTheorems

USE DEF tables, specVars, critiqueVars

\* A spec put among the others is there, and nothing else is new or gone.
LEMMA PlaceAdds ==
    ASSUME specs \in Seq(SpecIds), NEW s \in SpecIds, PlaceSpec(s)
    PROVE  /\ specs' \in Seq(SpecIds)
           /\ \A t \in SpecIds : Registered(t)' <=> Registered(t) \/ t = s
<1>1. PICK i \in {Len(specs), Len(specs) + 1} \ {0} :
        specs' = SubSeq(specs, 1, i - 1) \o <<s>> \o SubSeq(specs, i, Len(specs))
  BY DEF PlaceSpec
<1> DEFINE a == SubSeq(specs, 1, i - 1)
           b == SubSeq(specs, i, Len(specs))
<1>2. /\ Len(specs) \in Nat /\ i \in 1 .. Len(specs) + 1
  BY <1>1
<1>3. /\ a \in Seq(SpecIds) /\ Len(a) = i - 1
      /\ \A k \in 1 .. i - 1 : a[k] = specs[k]
  BY <1>2
<1>4. /\ b \in Seq(SpecIds) /\ Len(b) = Len(specs) - i + 1
      /\ \A k \in 1 .. Len(specs) - i + 1 : b[k] = specs[k + i - 1]
  BY <1>2
<1>5. specs' = a \o <<s>> \o b
  BY <1>1
<1> HIDE DEF a, b
<1>6. /\ specs' \in Seq(SpecIds) /\ Len(specs') = Len(specs) + 1
      /\ specs'[i] = s
      /\ \A k \in 1 .. i - 1 : specs'[k] = specs[k]
      /\ \A k \in i .. Len(specs) : specs'[k + 1] = specs[k]
  <2>1. a \o <<s>> \in Seq(SpecIds) /\ Len(a \o <<s>>) = i
        /\ (a \o <<s>>)[i] = s /\ \A k \in 1 .. i - 1 : (a \o <<s>>)[k] = a[k]
    BY <1>2, <1>3
  <2>2. /\ specs' \in Seq(SpecIds) /\ Len(specs') = i + Len(b)
        /\ \A k \in 1 .. i : specs'[k] = (a \o <<s>>)[k]
        /\ \A k \in 1 .. Len(b) : specs'[i + k] = b[k]
    <3>1. /\ specs' \in Seq(SpecIds)
          /\ Len(specs') = Len(a \o <<s>>) + Len(b)
          /\ \A k \in 1 .. Len(a \o <<s>>) + Len(b) :
               specs'[k] = IF k <= Len(a \o <<s>>) THEN (a \o <<s>>)[k]
                                                   ELSE b[k - Len(a \o <<s>>)]
      BY <1>4, <1>5, <2>1, ConcatProperties
    <3>2. Len(b) \in Nat /\ i \in Nat
      BY <1>2, <1>4
    <3> HIDE DEF PlaceSpec
    <3>3. \A k \in 1 .. i : specs'[k] = (a \o <<s>>)[k]
      BY <2>1, <3>1, <3>2
    <3>4. \A k \in 1 .. Len(b) : specs'[i + k] = b[k]
      <4> SUFFICES ASSUME NEW k \in 1 .. Len(b) PROVE specs'[i + k] = b[k]
        OBVIOUS
      <4>1. i + k \in 1 .. i + Len(b) /\ ~ (i + k <= i) /\ (i + k) - i = k
        BY <3>2
      <4> QED
        BY <2>1, <3>1, <4>1
    <3> QED
      BY <2>1, <3>1, <3>3, <3>4
  <2>3. \A k \in i .. Len(specs) : specs'[k + 1] = specs[k]
    <3> SUFFICES ASSUME NEW k \in i .. Len(specs) PROVE specs'[k + 1] = specs[k]
      OBVIOUS
    <3>1. PICK j \in 1 .. Len(b) : j + i - 1 = k /\ i + j = k + 1
      <4>1. /\ k - i + 1 \in 1 .. Len(b)
            /\ (k - i + 1) + i - 1 = k /\ i + (k - i + 1) = k + 1
        BY <1>2, <1>4
      <4> QED
        BY <4>1
    <3>2. b[j] = specs[k]
      <4>1. j \in 1 .. Len(specs) - i + 1
        BY <1>4
      <4> QED
        BY <1>4, <3>1, <4>1
    <3>3. specs'[k + 1] = b[j]
      BY <2>2, <3>1
    <3> QED
      BY <3>2, <3>3
  <2> QED
    BY <1>2, <1>3, <1>4, <2>1, <2>2, <2>3
<1>7. ASSUME NEW t \in SpecIds, Registered(t) PROVE Registered(t)'
  <2>1. PICK k \in 1 .. Len(specs) : specs[k] = t
    BY <1>7 DEF Registered
  <2>2. CASE k < i
    BY <1>2, <1>6, <2>1, <2>2 DEF Registered
  <2>3. CASE k >= i
    <3>1. specs'[k + 1] = t /\ k + 1 \in 1 .. Len(specs')
      BY <1>2, <1>6, <2>1, <2>3
    <3> QED
      BY <1>6, <3>1 DEF Registered
  <2> QED
    BY <1>2, <2>1, <2>2, <2>3
<1>8. Registered(s)'
  BY <1>2, <1>6 DEF Registered
<1>9. ASSUME NEW t \in SpecIds, Registered(t)', t # s PROVE Registered(t)
  <2>1. PICK k \in 1 .. Len(specs) + 1 : specs'[k] = t
    BY <1>2, <1>6, <1>9 DEF Registered
  <2>2. CASE k < i
    BY <1>2, <1>6, <2>1, <2>2 DEF Registered
  <2>3. CASE k > i
    <3>1. specs[k - 1] = t /\ k - 1 \in 1 .. Len(specs)
      <4>1. k - 1 \in i .. Len(specs) /\ (k - 1) + 1 = k
        BY <1>2, <2>1, <2>3
      <4> QED
        BY <1>2, <1>6, <2>1, <4>1
    <3> QED
      BY <3>1 DEF Registered
  <2> QED
    BY <1>2, <1>6, <1>9, <2>1, <2>2, <2>3
<1> QED
  BY <1>6, <1>7, <1>8, <1>9


(***************************************************************************)
(* Registration: what the job has written and not announced is what it is  *)
(* about to announce.                                                      *)
(***************************************************************************)
RegTypes ==
    /\ specs \in Seq(SpecIds)
    /\ announced \in [SpecIds -> {0, 1}]
    /\ reg \in [at : {"idle", "count", "turn", "announce"},
                spec : SpecIds \cup {None}, before : Nat, exit : {0, 1}]

\* Announced means registered, and what is registered is announced, stranded
\* or in the job's hand.
Announced ==
    /\ \A s \in SpecIds :
         /\ announced[s] = 1 => Registered(s)
         /\ Registered(s) /\ announced[s] = 0 =>
              s \in stranded \/ (reg.at = "announce" /\ reg.spec = s)
    /\ reg.at = "announce" =>
         reg.spec \in SpecIds /\ Registered(reg.spec) /\ announced[reg.spec] = 0

\* What the job says of the spec it wrote last, and of the rows it counted.
JobKnows ==
    /\ reg.at \in {"turn", "idle"} /\ reg.spec # None =>
         announced[reg.spec] = 1 \/ reg.spec \in stranded
    /\ reg.at = "turn" /\ reg.spec = None => Len(specs) = reg.before
    /\ reg.at = "count" => reg.spec = None
    /\ reg.at # "idle" => reg.exit = 1
    /\ reg.exit = 0 => reg.spec # None

SInv == RegTypes /\ Announced /\ JobKnows

\* The invariant holds at the start.
LEMMA InitSInv == SpecsInit => SInv
<1> SUFFICES ASSUME SpecsInit PROVE SInv
  OBVIOUS
<1> USE DEF SpecsInit
<1>1. PICK old \in SUBSET OldSpecs :
        /\ specs \in [1 .. Cardinality(old) -> old]
        /\ \A s \in old : Registered(s)
        /\ announced = [s \in SpecIds |-> IF s \in old THEN 1 ELSE 0]
  OBVIOUS
<1>2. old \subseteq SpecIds /\ IsFiniteSet(old)
  BY SpecsAssumption, FS_Subset
<1>3. Cardinality(old) \in Nat
  BY <1>2, FS_CardinalityType
<1>4. specs \in Seq(SpecIds)
  BY <1>1, <1>2, <1>3
<1>5. \A s \in SpecIds : Registered(s) => s \in old
  BY <1>1 DEF Registered
<1>6. /\ reg.at = "idle" /\ reg.spec = None /\ reg.exit = 1
      /\ reg \in [at : {"idle", "count", "turn", "announce"},
                  spec : SpecIds \cup {None}, before : Nat, exit : {0, 1}]
  BY DEF NoRun
<1>7. RegTypes
  BY <1>1, <1>4, <1>6 DEF RegTypes
<1>8. Announced
  BY <1>1, <1>2, <1>5, <1>6 DEF Announced
<1> QED
  BY <1>6, <1>7, <1>8 DEF SInv, JobKnows

\* The job's own record, moved or not, while the books stand still.
LEMMA RegMoves ==
    ASSUME SInv, UNCHANGED <<specs, announced>>, stranded \subseteq stranded',
           reg' \in [at : {"idle", "count", "turn", "announce"},
                     spec : SpecIds \cup {None}, before : Nat, exit : {0, 1}],
           reg.at = "announce" => reg.spec \in stranded',
           reg'.at # "announce",
           JobKnows'
    PROVE  SInv'
<1>1. Announced'
  BY DEF SInv, Announced, Registered
<1> QED
  BY <1>1 DEF SInv, RegTypes

\* What the others do beside the job.
LEMMA SStands ==
    ASSUME SInv, UNCHANGED <<specs, announced, reg, stranded>>
    PROVE  SInv'
<1>1. \A s : Registered(s)' <=> Registered(s)
  BY DEF Registered
<1> QED
  BY <1>1 DEF SInv, RegTypes, Announced, JobKnows

\* One step of the job, or of a repair.
LEMMA StepSInv == SInv /\ SpecsNext => SInv'
<1> SUFFICES ASSUME SInv, SpecsNext PROVE SInv'
  OBVIOUS
<1> USE DEF SInv
<1>a. /\ NoRun \in [at : {"idle", "count", "turn", "announce"},
                    spec : SpecIds \cup {None}, before : Nat, exit : {0, 1}]
      /\ NoRun.at = "idle" /\ NoRun.spec = None /\ NoRun.exit = 1
  BY DEF NoRun
<1>b. /\ reg.at \in {"idle", "count", "turn", "announce"}
      /\ reg.spec \in SpecIds \cup {None} /\ reg.exit \in {0, 1}
      /\ Len(specs) \in Nat
  BY DEF RegTypes
<1>c. ASSUME reg' = NoRun, UNCHANGED <<specs, announced>>,
             stranded \subseteq stranded',
             reg.at = "announce" => reg.spec \in stranded'
      PROVE  SInv'
  <2>1. JobKnows'
    BY <1>a, <1>c DEF JobKnows
  <2> QED
    BY <1>a, <1>c, <2>1, RegMoves
<1>1. CASE StartRegistration
  <2>1. CASE reg' = NoRun
    BY <1>1, <1>c, <2>1 DEF StartRegistration
  <2>2. CASE reg' = [NoRun EXCEPT !.at = "count"]
    <3>1. /\ reg' \in [at : {"idle", "count", "turn", "announce"},
                       spec : SpecIds \cup {None}, before : Nat, exit : {0, 1}]
          /\ reg'.at = "count" /\ reg'.spec = None /\ reg'.exit = 1
      BY <1>a, <2>2 DEF NoRun
    <3>2. JobKnows'
      BY <3>1 DEF JobKnows
    <3> QED
      BY <1>1, <3>1, <3>2, RegMoves DEF StartRegistration
  <2> QED
    BY <1>1, <2>1, <2>2 DEF StartRegistration
<1>2. CASE CountBefore
  <2>1. CASE reg' = NoRun
    BY <1>2, <1>c, <2>1 DEF CountBefore
  <2>2. CASE reg' = [reg EXCEPT !.at = "turn", !.before = SpecCount]
    <3>1. /\ reg' \in [at : {"idle", "count", "turn", "announce"},
                       spec : SpecIds \cup {None}, before : Nat, exit : {0, 1}]
          /\ reg'.at = "turn" /\ reg'.spec = reg.spec /\ reg'.exit = reg.exit
          /\ reg'.before = Len(specs)
      BY <1>b, <2>2 DEF RegTypes, SpecCount
    <3>2. JobKnows'
      BY <1>2, <3>1 DEF JobKnows, CountBefore
    <3> QED
      BY <1>2, <3>1, <3>2, RegMoves DEF CountBefore
  <2> QED
    BY <1>2, <2>1, <2>2 DEF CountBefore, FailRegistration
<1>3. CASE AnnounceSpec
  <2>1. /\ reg.at = "announce" /\ reg.spec \in SpecIds /\ Registered(reg.spec)
        /\ announced[reg.spec] = 0
    BY <1>3 DEF AnnounceSpec, Announced
  <2>2. /\ announced' \in [SpecIds -> {0, 1}] /\ announced'[reg.spec] = 1
        /\ \A s \in SpecIds \ {reg.spec} : announced'[s] = announced[s]
    BY <1>3, <2>1 DEF AnnounceSpec, RegTypes
  <2>3. /\ reg' \in [at : {"idle", "count", "turn", "announce"},
                     spec : SpecIds \cup {None}, before : Nat, exit : {0, 1}]
        /\ reg'.at = "turn" /\ reg'.spec = reg.spec /\ reg'.exit = 1
    BY <1>3, <2>1 DEF AnnounceSpec, RegTypes, JobKnows
  <2>4. /\ stranded' = stranded /\ specs' = specs
        /\ \A s \in SpecIds : Registered(s)' <=> Registered(s)
    BY <1>3 DEF AnnounceSpec, Registered
  <2>5. Announced'
    BY <2>1, <2>2, <2>3, <2>4 DEF Announced
  <2>6. JobKnows'
    BY <2>1, <2>2, <2>3, NoneIsNoSpec DEF JobKnows
  <2> QED
    BY <2>2, <2>3, <2>4, <2>5, <2>6 DEF RegTypes
<1>4. CASE EndRegistration
  <2>1. CASE SpecCount > reg.before
    <3>1. /\ reg' = [NoRun EXCEPT !.exit = 0, !.spec = reg.spec]
          /\ reg.at = "turn" /\ UNCHANGED <<specs, announced, stranded>>
      BY <1>4, <2>1 DEF EndRegistration
    <3>2. /\ reg' \in [at : {"idle", "count", "turn", "announce"},
                       spec : SpecIds \cup {None}, before : Nat, exit : {0, 1}]
          /\ reg'.at = "idle" /\ reg'.spec = reg.spec /\ reg'.exit = 0
      BY <1>b, <3>1 DEF NoRun
    <3>3. reg.before \in Nat
      BY DEF RegTypes
    <3>4. reg.spec # None
      BY <1>b, <2>1, <3>1, <3>3 DEF JobKnows, SpecCount
    <3>5. JobKnows'
      BY <3>1, <3>2, <3>4 DEF JobKnows
    <3> QED
      BY <3>1, <3>2, <3>5, RegMoves
  <2>2. CASE ~ (SpecCount > reg.before)
    BY <1>4, <1>c, <2>2 DEF EndRegistration
  <2> QED
    BY <2>1, <2>2
<1>5. CASE LoseEvent
  <2>1. /\ reg.at = "announce" /\ UNCHANGED <<specs, announced>>
        /\ stranded' = stranded \cup {reg.spec}
    BY <1>5 DEF LoseEvent, Strands
  <2>2. /\ reg' \in [at : {"idle", "count", "turn", "announce"},
                     spec : SpecIds \cup {None}, before : Nat, exit : {0, 1}]
        /\ reg'.at = "turn" /\ reg'.spec = reg.spec /\ reg'.exit = 1
    BY <1>5, <2>1 DEF LoseEvent, RegTypes, JobKnows
  <2>3. reg.spec # None
    BY <2>1, NoneIsNoSpec DEF Announced
  <2>4. JobKnows'
    BY <2>1, <2>2, <2>3 DEF JobKnows
  <2> QED
    BY <2>1, <2>2, <2>4, RegMoves
<1>6. CASE CrashRegistration
  <2>1. /\ reg' = NoRun /\ UNCHANGED <<specs, announced>>
        /\ stranded \subseteq stranded'
        /\ reg.at = "announce" => reg.spec \in stranded'
    BY <1>6 DEF CrashRegistration, Strands
  <2> QED
    BY <1>c, <2>1
<1>7. CASE Repair
  <2>1. UNCHANGED <<specs, announced, reg, stranded>>
    BY <1>7 DEF Repair
  <2> QED
    BY <2>1, SStands
<1>8. ASSUME NEW s \in SpecIds, InsertSpec(s) PROVE SInv'
  <2>1. /\ reg.at = "turn" /\ ~ Registered(s) /\ PlaceSpec(s)
        /\ UNCHANGED <<announced, stranded>>
    BY <1>8 DEF InsertSpec, InsertRows
  <2>2. /\ specs' \in Seq(SpecIds)
        /\ \A u \in SpecIds : Registered(u)' <=> Registered(u) \/ u = s
    BY <2>1, PlaceAdds DEF RegTypes
  <2>3. /\ reg' \in [at : {"idle", "count", "turn", "announce"},
                     spec : SpecIds \cup {None}, before : Nat, exit : {0, 1}]
        /\ reg'.at = "announce" /\ reg'.spec = s /\ reg'.exit = 1
    BY <1>8, <2>1 DEF InsertSpec, RegTypes, JobKnows
  <2>4. announced[s] = 0
    BY <2>1 DEF RegTypes, Announced
  <2>5. Announced'
    BY <2>1, <2>2, <2>3, <2>4 DEF Announced
  <2>6. JobKnows'
    BY <2>3, NoneIsNoSpec DEF JobKnows
  <2> QED
    BY <2>1, <2>2, <2>3, <2>5, <2>6 DEF RegTypes
<1> QED
  BY <1>1, <1>2, <1>3, <1>4, <1>5, <1>6, <1>7, <1>8 DEF SpecsNext

\* The leg, the nights, the backtests and a hand-made repair leave the job and
\* its books alone: they only ever write the lifecycle rows and the verdicts.
THEOREM RegistrationInvariant == Spec => []SInv
<1>1. Init => SInv
  BY InitSInv DEF Init
<1>2. SInv /\ [Next]_vars => SInv'
  <2> SUFFICES ASSUME SInv, [Next]_vars PROVE SInv'
    OBVIOUS
  <2>1. CASE Beside
    BY <2>1, StepSInv DEF Beside
  <2>2. CASE CritiqueStep
    <3>1. UNCHANGED specVars
      BY <2>2 DEF CritiqueStep, SelectHead, ReadBrief, SubmitCritique, WriteVerdict,
                  EndCriticTurn, CheckVerdict
    <3> QED
      BY <3>1, SStands
  <2>3. CASE StartNight \/ EndNight \/ KillLeg \/ Backtested \/ UNCHANGED vars
    <3>1. UNCHANGED <<specs, announced, reg, stranded>>
      BY <2>3 DEF StartNight, EndNight, KillLeg, Backtested, vars
    <3> QED
      BY <3>1, SStands
  <2> QED
    BY <2>1, <2>2, <2>3 DEF Next
<1> QED
  BY <1>1, <1>2, PTL DEF Spec

\* Every stranded spec was paid for by a fault.
StrandedPaid ==
    /\ IsFiniteSet(stranded) /\ crashes \in Nat
    /\ Cardinality(stranded) <= crashes

\* A fault of the job strands the spec in its hand, and no other.
LEMMA FaultStrandsOne ==
    ASSUME StrandedPaid, Strands, crashes' = crashes + 1
    PROVE  StrandedPaid'
<1>1. stranded' = stranded \/ stranded' = stranded \cup {reg.spec}
  BY DEF Strands
<1>2. Cardinality(stranded) \in Nat
  BY FS_CardinalityType DEF StrandedPaid
<1>3. /\ IsFiniteSet(stranded \cup {reg.spec})
      /\ Cardinality(stranded \cup {reg.spec})
           = IF reg.spec \in stranded THEN Cardinality(stranded)
                                      ELSE Cardinality(stranded) + 1
  BY FS_AddElement DEF StrandedPaid
<1>4. CASE stranded' = stranded
  BY <1>2, <1>4 DEF StrandedPaid
<1>5. CASE stranded' = stranded \cup {reg.spec}
  <2>1. Cardinality(stranded') <= Cardinality(stranded) + 1
    BY <1>2, <1>3, <1>5
  <2> QED
    BY <1>2, <1>3, <1>5, <2>1 DEF StrandedPaid
<1> QED
  BY <1>1, <1>4, <1>5

\* Nobody else's fault strands a spec.
LEMMA NobodyElseStrands ==
    ASSUME StrandedPaid, stranded' = stranded, crashes' \in {crashes, crashes + 1}
    PROVE  StrandedPaid'
<1>1. Cardinality(stranded) \in Nat
  BY FS_CardinalityType DEF StrandedPaid
<1> QED
  BY <1>1 DEF StrandedPaid

\* One fault, one event lost (the two commits of submit_strategy_spec).
THEOREM StrandedArePaid == Spec => []StrandedPaid
<1>1. Init => StrandedPaid
  BY FS_EmptySet DEF Init, SpecsInit, StrandedPaid
<1>2. StrandedPaid /\ [Next]_vars => StrandedPaid'
  <2> SUFFICES ASSUME StrandedPaid, [Next]_vars PROVE StrandedPaid'
    OBVIOUS
  <2>1. CASE Beside
    <3>1. CASE LoseEvent \/ CrashRegistration
      BY <3>1, FaultStrandsOne DEF LoseEvent, CrashRegistration
    <3>2. CASE \/ StartRegistration \/ CountBefore \/ AnnounceSpec
               \/ EndRegistration \/ Repair \/ \E s \in SpecIds : InsertSpec(s)
      <4>1. stranded' = stranded /\ crashes' = crashes
        BY <3>2 DEF StartRegistration, CountBefore, AnnounceSpec, EndRegistration,
                    Repair, InsertSpec
      <4> QED
        BY <4>1, NobodyElseStrands
    <3> QED
      BY <2>1, <3>1, <3>2 DEF Beside, SpecsNext
  <2>2. CASE \/ CritiqueStep \/ StartNight \/ EndNight \/ KillLeg \/ Backtested
             \/ UNCHANGED vars
    <3>1. stranded' = stranded /\ crashes' \in {crashes, crashes + 1}
      BY <2>2 DEF CritiqueStep, SelectHead, ReadBrief, SubmitCritique, WriteVerdict,
                  EndCriticTurn, CheckVerdict, StartNight, EndNight, KillLeg,
                  Backtested, vars
    <3> QED
      BY <3>1, NobodyElseStrands
  <2> QED
    BY <2>1, <2>2 DEF Next
<1> QED
  BY <1>1, <1>2, PTL DEF Spec

\* A spec is announced once, or one of as many faults as are on record lost its
\* event, and an exit of 0 is a row of the run's own (submit_strategy_spec's
\* two commits, register_spec's exit code).
THEOREM EventIsToldOnce == Spec => []AnnouncedOnce
<1>1. SInv /\ StrandedPaid => AnnouncedOnce
  <2> SUFFICES ASSUME SInv, StrandedPaid PROVE AnnouncedOnce
    OBVIOUS
  <2>1. \A s \in SpecIds : announced[s] <= 1
    BY DEF SInv, RegTypes
  <2>2. ASSUME reg.exit = 0
        PROVE  reg.spec # None /\ (announced[reg.spec] = 1 \/ reg.spec \in stranded)
    BY <2>2 DEF SInv, JobKnows
  <2>3. Cardinality(stranded) <= crashes
    BY DEF StrandedPaid
  <2> QED
    BY <2>1, <2>2, <2>3 DEF SInv, Announced, AnnouncedOnce
<1> QED
  BY <1>1, RegistrationInvariant, StrandedArePaid, PTL

(***************************************************************************)
(* The leg.                                                                *)
(***************************************************************************)
Verdicts == verdict \in [SpecIds -> SpecIds \cup {None}]

\* A verdict carries the name of the spec its turn was launched for, and is
\* written for that spec alone (handle_submit_spec_critique's binding).
THEOREM VerdictIsItsOwn == Spec => []VerdictForShown
<1> DEFINE Inv == Verdicts /\ VerdictForShown
<1>1. Init => Inv
  BY DEF Init, CritiqueInit, Verdicts, VerdictForShown
<1>2. Inv /\ [Next]_vars => Inv'
  <2> SUFFICES ASSUME Inv, [Next]_vars PROVE Inv'
    OBVIOUS
  <2>1. CASE SubmitCritique
    <3>1. verdict' = [verdict EXCEPT ![critic.head] = critic.head]
      BY <2>1 DEF SubmitCritique, WriteVerdict
    <3>2. /\ verdict' \in [SpecIds -> SpecIds \cup {None}]
          /\ \A s \in SpecIds : verdict'[s] \in {verdict[s], s}
      BY <3>1 DEF Verdicts
    <3> QED
      BY <3>2 DEF Verdicts, VerdictForShown
  <2>2. CASE SelectHead \/ ReadBrief \/ EndCriticTurn \/ CheckVerdict
    BY <2>2 DEF SelectHead, ReadBrief, EndCriticTurn, CheckVerdict, Verdicts,
                VerdictForShown
  <2>3. CASE Beside \/ StartNight \/ EndNight \/ KillLeg \/ Backtested
             \/ UNCHANGED vars
    BY <2>3 DEF Beside, StartNight, EndNight, KillLeg, Backtested, vars, Verdicts,
                VerdictForShown
  <2> QED
    BY <2>1, <2>2, <2>3 DEF Next, CritiqueStep
<1>3. Inv => VerdictForShown
  OBVIOUS
<1> QED
  BY <1>1, <1>2, <1>3, PTL DEF Spec

\* The leg's records.
Leg == critic \in [at : {"idle", "select", "turn", "check", "done"},
                   head : SpecIds \cup {None}, shown : SpecIds \cup {None},
                   turns : Nat, alert : {None, "failed", "capped", "wrote_nothing"}]

\* The leg's own state is well formed in every reachable state.
LEMMA LegTypes == Spec => []Leg
<1>1. Init => Leg
  BY DEF Init, CritiqueInit, NoLeg, Leg
<1>2. Leg /\ [Next]_vars => Leg'
  <2> SUFFICES ASSUME Leg, [Next]_vars PROVE Leg'
    OBVIOUS
  <2>a. ASSUME NEW alert \in {None, "failed", "capped", "wrote_nothing"},
               EndsLeg(alert)
        PROVE  Leg'
    BY <2>a DEF EndsLeg, NoLeg, Leg
  <2>1. CASE SelectHead
    <3>1. CASE ServesHead
      <4>1. critic.turns + 1 \in Nat
        BY DEF Leg
      <4> QED
        BY <3>1, <4>1 DEF ServesHead, Leg
    <3> QED
      BY <2>1, <2>a, <3>1 DEF SelectHead
  <2>2. CASE ReadBrief
    BY <2>2 DEF ReadBrief, Leg
  <2>3. CASE SubmitCritique \/ EndCriticTurn
    BY <2>3 DEF SubmitCritique, WriteVerdict, EndCriticTurn, Leg
  <2>4. CASE CheckVerdict
    <3>1. CASE critic' = [critic EXCEPT !.at = "select", !.head = None,
                                        !.shown = None]
      BY <3>1 DEF Leg
    <3> QED
      BY <2>4, <2>a, <3>1 DEF CheckVerdict
  <2>5. CASE StartNight
    BY <2>5 DEF StartNight, StartLeg, NoLeg, Leg
  <2>6. CASE EndNight \/ KillLeg
    BY <2>6 DEF EndNight, KillLeg, NoLeg, Leg
  <2>7. CASE Beside \/ Backtested \/ UNCHANGED vars
    BY <2>7 DEF Beside, Backtested, vars, Leg
  <2> QED
    BY <2>1, <2>2, <2>3, <2>4, <2>5, <2>6, <2>7 DEF Next, CritiqueStep
<1> QED
  BY <1>1, <1>2, PTL DEF Spec

\* Silence is success: a leg that ends by itself without an alert has left no
\* spec waiting, and no other step ends it (critique_and_log, _guarded).
THEOREM SilenceIsSuccess == Spec => LegIsLoud
<1>1. Leg /\ [Next]_vars =>
        [critic.at # "done" /\ critic'.at = "done" /\ critic'.alert = None
           => Awaiting' = {}]_critiqueVars
  <2> SUFFICES ASSUME Leg, Next, critic.at # "done", critic'.at = "done",
                      critic'.alert = None
               PROVE  Awaiting' = {}
    BY DEF vars
  <2>1. ASSUME NEW alert, EndsLeg(alert) PROVE critic'.alert = alert
    BY <2>1 DEF EndsLeg, NoLeg
  <2>2. CASE SelectHead
    <3>1. UNCHANGED <<state, verdict>>
      BY <2>2 DEF SelectHead
    <3>2. ~ ServesHead
      <4>1. ServesHead => critic'.at = "turn"
        BY DEF ServesHead, Leg
      <4> QED
        BY <4>1
    <3>3. ~ EndsLeg("failed") /\ ~ EndsLeg("capped")
      BY <2>1 DEF None
    <3>4. Awaiting = {}
      BY <2>2, <3>2, <3>3 DEF SelectHead
    <3> QED
      BY <3>1, <3>4 DEF Awaiting, Awaits
  <2>3. CASE CheckVerdict
    <3>1. ~ EndsLeg(IF Orphans = {} THEN "wrote_nothing" ELSE "failed")
      BY <2>1 DEF None
    <3>2. critic' = [critic EXCEPT !.at = "select", !.head = None, !.shown = None]
      BY <2>3, <3>1 DEF CheckVerdict
    <3> QED
      BY <3>2 DEF Leg
  <2>4. CASE ReadBrief \/ SubmitCritique \/ EndCriticTurn
    BY <2>4 DEF ReadBrief, SubmitCritique, WriteVerdict, EndCriticTurn, Leg
  <2>5. CASE StartNight \/ EndNight \/ KillLeg
    BY <2>5 DEF StartNight, StartLeg, EndNight, KillLeg, NoLeg
  <2>6. CASE Beside \/ Backtested
    BY <2>6 DEF Beside, Backtested
  <2> QED
    BY <2>2, <2>3, <2>4, <2>5, <2>6 DEF Next, CritiqueStep
<1> QED
  BY <1>1, LegTypes, PTL DEF Spec, LegIsLoud

=============================================================================
