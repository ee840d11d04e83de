----------------------------- MODULE NightProofs -----------------------------
(***************************************************************************)
(* The night for any number of calls, turns, failures and programs run by  *)
(* hand: a turn that wrote nothing keeps its run alive to name it, and no  *)
(* turn is bought for a call that carries its reflection.                  *)
(***************************************************************************)
EXTENDS Night, TLAPS

USE DEF rows

Steps == {"idle", "pnl", "append", "resolve", "insert", "weights", "write",
          "reflect", "frame", "turn", "check", "rollup"}

Records == [at : Steps, due : SUBSET Calls, job : Calls \cup {None}]

\* The rows and the processes hold what they say they hold.
NTypes ==
    /\ age \in [Calls -> 0 .. Horizon]
    /\ resolved \in [Calls -> Nat \cup {NotYet}]
    /\ reflection \in [Calls -> BOOLEAN]
    /\ weights \subseteq Calls /\ named \subseteq Calls /\ silent \subseteq Calls
    /\ pnlLines \in Nat
    /\ proc \in [Procs -> Records]
    /\ fired \in BOOLEAN
    /\ faults \in Nat /\ hands \in Nat

\* The run of the reflections is alone (its lock), its list and the call of its
\* turn are unwritten, and what has been silent is its own to name.
Alone == \A p, q \in Procs : proc[p].at \in Reflecting /\ proc[q].at \in Reflecting
                               => p = q

ListIsDue ==
    \A p \in Procs :
        /\ proc[p].at \in Reflecting => \A d \in proc[p].due : ~ reflection[d]
        /\ proc[p].at \in {"turn", "check"} =>
             proc[p].job \in Calls /\ proc[p].job \notin proc[p].due
        /\ proc[p].at = "turn" => ~ reflection[proc[p].job]

NInv == NTypes /\ Alone /\ ListIsDue /\ SilentTurnIsLoud

-----------------------------------------------------------------------------
\* A process that is put at a step, its hands empty or holding some calls.
LEMMA AtIsRecord ==
    ASSUME NEW step \in Steps, NEW due \in SUBSET Calls
    PROVE  /\ At(step) \in Records /\ At(step).at = step /\ At(step).due = {}
           /\ [At(step) EXCEPT !.due = due] \in Records
           /\ [At(step) EXCEPT !.due = due].at = step
           /\ [At(step) EXCEPT !.due = due].due = due
BY DEF At, Records

\* One process moves: nothing is said of the other.
LEMMA OneMoves ==
    ASSUME NTypes, NEW p \in Procs, NEW r \in Records, proc' = [proc EXCEPT ![p] = r]
    PROVE  /\ proc' \in [Procs -> Records] /\ proc'[p] = r
           /\ \A q \in Procs \ {p} : proc'[q] = proc[q]
BY DEF NTypes

\* The record of a process has a step, a set of calls and at most one job.
LEMMA RecordsAre ==
    ASSUME NTypes, NEW p \in Procs
    PROVE  /\ proc[p] \in Records /\ proc[p].at \in Steps
           /\ proc[p].due \in SUBSET Calls /\ proc[p].job \in Calls \cup {None}
BY DEF NTypes, Records

\* The steps that are no business of the reflections: who reflects, what it
\* holds and what is written stay.
LEMMA Elsewhere ==
    ASSUME NInv, NEW p \in Procs, NEW r \in Records,
           proc' = [proc EXCEPT ![p] = r],
           proc[p].at \notin Reflecting, r.at \notin Reflecting,
           UNCHANGED <<reflection, silent>>, NTypes'
    PROVE  NInv'
<1> USE DEF NInv
<1>1. /\ proc'[p] = r /\ \A q \in Procs \ {p} : proc'[q] = proc[q]
  BY OneMoves
<1>2. Alone'
  BY <1>1 DEF Alone
<1>3. ListIsDue'
  BY <1>1 DEF ListIsDue, Reflecting
<1>4. SilentTurnIsLoud'
  BY <1>1 DEF SilentTurnIsLoud
<1> QED
  BY <1>2, <1>3, <1>4

\* The run ends, killed or not, or goes to its rollup: its list is dropped.
LEMMA Leaves ==
    ASSUME NInv, NEW p \in Procs, NEW r \in Records,
           proc' = [proc EXCEPT ![p] = r],
           r.due = {}, r.at \in {"idle", "rollup"}, proc[p].at \in Reflecting,
           reflection' = reflection, silent' = {} \/ (silent' = silent /\ r.at = "rollup"),
           NTypes'
    PROVE  NInv'
<1> USE DEF NInv
<1>1. /\ proc'[p] = r /\ \A q \in Procs \ {p} : proc'[q] = proc[q]
  BY OneMoves
<1>2. Alone'
  BY <1>1 DEF Alone
<1>3. ListIsDue'
  BY <1>1 DEF ListIsDue
<1>4. SilentTurnIsLoud'
  BY <1>1 DEF SilentTurnIsLoud, Reflecting
<1> QED
  BY <1>2, <1>3, <1>4

\* The run goes on, in the same hands.
LEMMA GoesOn ==
    ASSUME NInv, NEW p \in Procs, NEW r \in Records,
           proc' = [proc EXCEPT ![p] = r],
           proc[p].at \in Reflecting, r.at \in {"frame", "turn", "check"},
           \A d \in r.due : ~ reflection'[d],
           r.at \in {"turn", "check"} => r.job \in Calls /\ r.job \notin r.due,
           r.at = "turn" => ~ reflection'[r.job],
           NTypes'
    PROVE  NInv'
<1> USE DEF NInv
<1>1. /\ proc'[p] = r /\ \A q \in Procs \ {p} : proc'[q] = proc[q]
  BY OneMoves
<1>2. \A q \in Procs \ {p} : proc'[q].at \notin Reflecting
  BY <1>1 DEF Alone
<1>3. proc'[p].at \in Reflecting
  BY <1>1 DEF Reflecting
<1>4. Alone'
  BY <1>2 DEF Alone
<1>5. ListIsDue'
  BY <1>1, <1>2 DEF ListIsDue, Reflecting
<1>6. SilentTurnIsLoud'
  BY <1>3 DEF SilentTurnIsLoud
<1> QED
  BY <1>4, <1>5, <1>6

-----------------------------------------------------------------------------
(***************************************************************************)
(* Types.                                                                  *)
(***************************************************************************)

\* Moves, Holds and Ends put one process at a step.
LEMMA MovesTo ==
    ASSUME NTypes, NEW p \in Procs, NEW step \in Steps, Moves(p, step)
    PROVE  /\ proc' = [proc EXCEPT ![p] = At(step)] /\ At(step) \in Records
           /\ At(step).at = step /\ At(step).due = {}
           /\ proc' \in [Procs -> Records]
<1>1. At(step) \in Records /\ At(step).at = step /\ At(step).due = {}
  BY AtIsRecord
<1>2. proc' = [proc EXCEPT ![p] = At(step)]
  BY DEF Moves
<1> QED
  BY <1>1, <1>2, OneMoves

\* A leg that ends hands on to the next one of the unit, or is over.
LEMMA EndsAt ==
    ASSUME NEW p \in Procs, NEW next \in Steps, Ends(p, next)
    PROVE  \E step \in {next, "idle"} : Moves(p, step)
BY DEF Ends

\* A commit that holds work moves to that step with that work.
LEMMA HoldsAt ==
    ASSUME NTypes, NEW p \in Procs, NEW step \in Steps, NEW due \in SUBSET Calls,
           Holds(p, step, due)
    PROVE  \E r \in Records : /\ proc' = [proc EXCEPT ![p] = r]
                              /\ r.at = step /\ r.due = due
                              /\ proc' \in [Procs -> Records]
<1> DEFINE r == [At(step) EXCEPT !.due = due]
<1>1. r \in Records /\ r.at = step /\ r.due = due
  BY AtIsRecord
<1>2. proc' = [proc EXCEPT ![p] = r]
  BY DEF Holds
<1> HIDE DEF r
<1> QED
  BY <1>1, <1>2, OneMoves

\* One step of one process of the other legs keeps the invariant.
LEMMA OtherLegs ==
    ASSUME NInv, NEW p \in Procs,
           \/ NoPnl(p) \/ ReadPnl(p) \/ AppendPnl(p)
           \/ ReadDue(p) \/ InsertResolutions(p)
           \/ ReadScoreboard(p) \/ WriteWeights(p)
           \/ Raises(p) \/ SkipWeights(p)
    PROVE  NInv'
<1> USE DEF NInv
<1>a. ASSUME NEW r \in Records, proc' = [proc EXCEPT ![p] = r],
             proc[p].at \notin Reflecting, r.at \notin Reflecting,
             UNCHANGED <<age, reflection, named, silent, fired, hands>>,
             resolved' \in [Calls -> Nat \cup {NotYet}], weights' \subseteq Calls,
             pnlLines' \in Nat, faults' \in Nat
      PROVE  NInv'
  <2>1. proc' \in [Procs -> Records]
    BY <1>a, OneMoves
  <2>2. NTypes'
    BY <1>a, <2>1 DEF NTypes
  <2> QED
    BY <1>a, <2>2, Elsewhere
<1>b. ASSUME NEW step \in {"idle", "resolve", "append", "weights", "reflect"},
             Moves(p, step),
             proc[p].at \notin Reflecting,
             UNCHANGED <<age, reflection, named, silent, fired, hands>>,
             resolved' \in [Calls -> Nat \cup {NotYet}], weights' \subseteq Calls,
             pnlLines' \in Nat, faults' \in Nat
      PROVE  NInv'
  <2>1. step \in Steps /\ step \notin Reflecting
    BY DEF Steps, Reflecting
  <2>2. proc' = [proc EXCEPT ![p] = At(step)] /\ At(step) \in Records /\ At(step).at = step
    BY <1>b, <2>1, MovesTo
  <2> QED
    BY <1>a, <1>b, <2>1, <2>2
<1>c. ASSUME NEW step \in {"resolve", "weights", "reflect"}, Ends(p, step),
             proc[p].at \notin Reflecting,
             UNCHANGED <<age, reflection, named, silent, fired, hands>>,
             resolved' \in [Calls -> Nat \cup {NotYet}], weights' \subseteq Calls,
             pnlLines' \in Nat, faults' \in Nat
      PROVE  NInv'
  <2>1. PICK s \in {step, "idle"} : Moves(p, s)
    BY <1>c, EndsAt DEF Steps
  <2> QED
    BY <1>b, <1>c, <2>1
<1>d. /\ resolved \in [Calls -> Nat \cup {NotYet}] /\ weights \subseteq Calls
      /\ pnlLines \in Nat /\ faults \in Nat /\ Resolved \in SUBSET Calls
      /\ faults + 1 \in Nat /\ pnlLines + 1 \in Nat
  BY DEF NTypes, Resolved
<1>1. CASE NoPnl(p)
  BY <1>1, <1>c, <1>d DEF NoPnl, Reflecting
<1>2. CASE ReadPnl(p)
  <2>1. CASE Moves(p, "append")
    BY <1>2, <1>b, <1>d, <2>1 DEF ReadPnl, Reflecting
  <2>2. CASE Ends(p, "resolve")
    BY <1>2, <1>c, <1>d, <2>2 DEF ReadPnl, Reflecting
  <2> QED
    BY <1>2, <2>1, <2>2 DEF ReadPnl
<1>3. CASE AppendPnl(p)
  BY <1>3, <1>c, <1>d DEF AppendPnl, Reflecting
<1>4. CASE ReadDue(p)
  <2>1. CASE Ends(p, "weights")
    BY <1>4, <1>c, <1>d, <2>1 DEF ReadDue, Reflecting
  <2>2. CASE Holds(p, "insert", Calls \ Resolved)
    <3>1. PICK r \in Records : proc' = [proc EXCEPT ![p] = r] /\ r.at = "insert"
      BY <2>2, HoldsAt DEF Steps
    <3> QED
      BY <1>4, <1>a, <1>d, <3>1 DEF ReadDue, Reflecting
  <2> QED
    BY <1>4, <2>1, <2>2 DEF ReadDue
<1>5. CASE InsertResolutions(p)
  <2>1. /\ proc[p].at \notin Reflecting
        /\ UNCHANGED <<age, reflection, weights, pnlLines, named, silent, fired,
                       faults, hands>>
    BY <1>5 DEF InsertResolutions, Reflecting
  <2>2. PICK priced \in Measured(proc[p].due) :
          \/ /\ resolved' = [d \in Calls |-> IF d \in priced THEN 0 ELSE resolved[d]]
             /\ Ends(p, "weights")
          \/ Moves(p, "idle") /\ UNCHANGED resolved
    BY <1>5 DEF InsertResolutions
  <2>3. resolved' \in [Calls -> Nat \cup {NotYet}]
    BY <1>d, <2>2
  <2> QED
    BY <1>b, <1>c, <1>d, <2>1, <2>2, <2>3
<1>6. CASE ReadScoreboard(p)
  <2>1. CASE Ends(p, "reflect")
    BY <1>6, <1>c, <1>d, <2>1 DEF ReadScoreboard, Reflecting
  <2>2. CASE Holds(p, "write", Resolved)
    <3>1. PICK r \in Records : proc' = [proc EXCEPT ![p] = r] /\ r.at = "write"
      BY <1>d, <2>2, HoldsAt DEF Steps
    <3> QED
      BY <1>6, <1>a, <1>d, <3>1 DEF ReadScoreboard, Reflecting
  <2> QED
    BY <1>6, <2>1, <2>2 DEF ReadScoreboard
<1>7. CASE WriteWeights(p)
  <2>1. weights' \subseteq Calls
    BY <1>7, RecordsAre DEF WriteWeights
  <2> QED
    BY <1>7, <1>c, <1>d, <2>1 DEF WriteWeights, Reflecting
<1>8. CASE Raises(p)
  BY <1>8, <1>b, <1>d DEF Raises, Reflecting
<1>9. CASE SkipWeights(p)
  BY <1>9, <1>c, <1>d DEF SkipWeights, Reflecting
<1> QED
  BY <1>1, <1>2, <1>3, <1>4, <1>5, <1>6, <1>7, <1>8, <1>9

\* One step of the reflections keeps it.
LEMMA Reflections ==
    ASSUME NInv, NEW p \in Procs,
           \/ StartReflect(p) \/ NextJob(p) \/ SubmitReflection(p) \/ QuietTurn(p)
           \/ CheckReflection(p) \/ RollUp(p) \/ ReflectRaises(p) \/ Killed(p)
    PROVE  NInv'
<1> USE DEF NInv
<1>a. ASSUME NEW r \in Records, proc' = [proc EXCEPT ![p] = r],
             UNCHANGED <<age, resolved, weights, pnlLines, fired, hands>>,
             reflection' \in [Calls -> BOOLEAN], named' \subseteq Calls,
             silent' \subseteq Calls, faults' \in Nat
      PROVE  NTypes'
  <2>1. proc' \in [Procs -> Records]
    BY <1>a, OneMoves
  <2> QED
    BY <1>a, <2>1 DEF NTypes
<1>b. /\ proc[p] \in Records /\ proc[p].at \in Steps
      /\ proc[p].due \in SUBSET Calls /\ proc[p].job \in Calls \cup {None}
  BY RecordsAre
<1>c. /\ reflection \in [Calls -> BOOLEAN] /\ named \subseteq Calls
      /\ silent \subseteq Calls /\ faults \in Nat /\ faults + 1 \in Nat
  BY DEF NTypes
<1>d. ASSUME NEW step \in {"idle", "rollup"}, Moves(p, step),
             proc[p].at \in Reflecting,
             UNCHANGED <<age, resolved, weights, pnlLines, fired, hands, named,
                         reflection>>,
             silent' = {} \/ (silent' = silent /\ step = "rollup"), faults' \in Nat
      PROVE  NInv'
  <2>1. step \in Steps
    BY DEF Steps
  <2>2. /\ proc' = [proc EXCEPT ![p] = At(step)] /\ At(step) \in Records
        /\ At(step).at = step /\ At(step).due = {}
    BY <1>d, <2>1, MovesTo
  <2>3. NTypes'
    BY <1>a, <1>c, <1>d, <2>2
  <2> QED
    BY <1>d, <2>2, <2>3, Leaves
<1>1. CASE StartReflect(p)
  <2>1. /\ proc[p].at = "reflect" /\ proc[p].at \notin Reflecting
        /\ UNCHANGED <<age, resolved, reflection, weights, pnlLines,
                       silent, fired, faults, hands>>
    BY <1>1 DEF StartReflect, Reflecting
  <2>2. CASE Ends(p, "idle") /\ UNCHANGED named
    <3>1. Moves(p, "idle")
      BY <2>2 DEF Ends
    <3>2. /\ proc' = [proc EXCEPT ![p] = At("idle")] /\ At("idle") \in Records
          /\ At("idle").at = "idle"
      BY <3>1, MovesTo DEF Steps
    <3>3. NTypes'
      BY <1>a, <1>c, <2>1, <2>2, <3>2
    <3> QED
      BY <2>1, <3>2, <3>3, Elsewhere DEF Reflecting
  <2>3. CASE /\ ~ Locked(p)
             /\ named' = named \cup AgedOut
             /\ \E due \in Due : Holds(p, "frame", due)
    <3>1. PICK due \in Due : Holds(p, "frame", due)
      BY <2>3
    <3>2. due \in SUBSET Calls /\ \A d \in due : ~ reflection[d]
      BY DEF Due, InWindow, Pending, Resolved
    <3>3. PICK r \in Records : /\ proc' = [proc EXCEPT ![p] = r]
                               /\ r.at = "frame" /\ r.due = due
      BY <3>1, <3>2, HoldsAt DEF Steps
    <3>4. named' \subseteq Calls
      BY <1>c, <2>3 DEF AgedOut, Pending, Resolved
    <3>5. NTypes'
      BY <1>a, <1>c, <2>1, <3>3, <3>4
    <3>6. /\ proc'[p] = r /\ \A q \in Procs \ {p} : proc'[q] = proc[q]
      BY <3>3, OneMoves
    <3>7. \A q \in Procs \ {p} : proc[q].at \notin Reflecting
      BY <2>3 DEF Locked
    <3>8. Alone'
      BY <3>6, <3>7 DEF Alone
    <3>9. ListIsDue'
      <4>1. \A q \in Procs \ {p} : proc'[q].at \notin Reflecting
        BY <3>6, <3>7
      <4> QED
        BY <2>1, <3>2, <3>3, <3>6, <4>1 DEF ListIsDue, Reflecting
    <3>10. SilentTurnIsLoud'
      BY <3>3, <3>6 DEF SilentTurnIsLoud, Reflecting
    <3> QED
      BY <3>5, <3>8, <3>9, <3>10
  <2> QED
    BY <1>1, <2>2, <2>3 DEF StartReflect
<1>2. CASE NextJob(p)
  <2>1. proc[p].at = "frame" /\ UNCHANGED <<rows, silent, fired, faults, hands>>
        /\ proc[p].at \in Reflecting
    BY <1>2 DEF NextJob, Reflecting
  <2>2. CASE Moves(p, "rollup")
    BY <1>c, <1>d, <2>1, <2>2
  <2>3. ASSUME NEW d \in proc[p].due,
               proc' = [proc EXCEPT ![p] = [at |-> "turn", job |-> d,
                                            due |-> proc[p].due \ {d}]]
        PROVE  NInv'
    <3> DEFINE r == [at |-> "turn", job |-> d, due |-> proc[p].due \ {d}]
    <3>1. /\ r \in Records /\ r.at = "turn" /\ r.job = d
          /\ r.due = proc[p].due \ {d} /\ d \in Calls
      BY <1>b DEF Records, Steps
    <3>2. proc' = [proc EXCEPT ![p] = r]
      BY <2>3
    <3> HIDE DEF r
    <3>3. NTypes'
      BY <1>a, <1>c, <2>1, <3>1, <3>2
    <3>4. \A e \in proc[p].due : ~ reflection'[e]
      BY <2>1 DEF ListIsDue
    <3> QED
      BY <2>1, <3>1, <3>2, <3>3, <3>4, GoesOn
  <2> QED
    BY <1>2, <2>2, <2>3 DEF NextJob
<1>3. CASE SubmitReflection(p)
  <2> DEFINE r == [proc[p] EXCEPT !.at = "check"]
  <2>1. /\ proc[p].at = "turn" /\ proc[p].at \in Reflecting
        /\ reflection' = [reflection EXCEPT ![proc[p].job] = TRUE]
        /\ proc' = [proc EXCEPT ![p] = r]
        /\ UNCHANGED <<age, resolved, weights, pnlLines, named, silent,
                       fired, faults, hands>>
    BY <1>3 DEF SubmitReflection, Stores, Reflecting
  <2>2. /\ r \in Records /\ r.at = "check" /\ r.job = proc[p].job
        /\ r.due = proc[p].due
    BY <1>b DEF Records, Steps
  <2>3. /\ proc[p].job \in Calls /\ proc[p].job \notin proc[p].due
        /\ \A d \in proc[p].due : ~ reflection[d]
    BY <2>1 DEF ListIsDue
  <2>4. /\ reflection' \in [Calls -> BOOLEAN]
        /\ \A d \in Calls \ {proc[p].job} : reflection'[d] = reflection[d]
    BY <1>c, <2>1
  <2> HIDE DEF r
  <2>5. NTypes'
    BY <1>a, <1>c, <2>1, <2>2, <2>4
  <2>6. \A d \in r.due : ~ reflection'[d]
    BY <1>b, <2>2, <2>3, <2>4
  <2> QED
    BY <2>1, <2>2, <2>3, <2>5, <2>6, GoesOn
<1>4. CASE QuietTurn(p)
  <2> DEFINE r == [proc[p] EXCEPT !.at = "check"]
  <2>1. /\ proc[p].at = "turn" /\ proc[p].at \in Reflecting
        /\ proc' = [proc EXCEPT ![p] = r]
        /\ UNCHANGED <<rows, silent, fired, faults, hands>>
    BY <1>4 DEF QuietTurn, Reflecting
  <2>2. /\ r \in Records /\ r.at = "check" /\ r.job = proc[p].job
        /\ r.due = proc[p].due
    BY <1>b DEF Records, Steps
  <2>3. /\ proc[p].job \in Calls /\ proc[p].job \notin proc[p].due
        /\ \A d \in proc[p].due : ~ reflection[d]
    BY <2>1 DEF ListIsDue
  <2> HIDE DEF r
  <2>4. NTypes'
    BY <1>a, <1>c, <2>1, <2>2
  <2> QED
    BY <2>1, <2>2, <2>3, <2>4, GoesOn
<1>5. CASE CheckReflection(p)
  <2> DEFINE r == [proc[p] EXCEPT !.at = "frame", !.job = None]
  <2>1. /\ proc[p].at = "check" /\ proc[p].at \in Reflecting
        /\ proc' = [proc EXCEPT ![p] = r]
        /\ UNCHANGED <<rows, fired, faults, hands>>
    BY <1>5 DEF CheckReflection, Reflecting
  <2>2. r \in Records /\ r.at = "frame" /\ r.due = proc[p].due
    BY <1>b DEF Records, Steps
  <2>3. /\ proc[p].job \in Calls /\ \A d \in proc[p].due : ~ reflection[d]
    BY <2>1 DEF ListIsDue
  <2>4. silent' \subseteq Calls
    BY <1>5, <1>c, <2>3 DEF CheckReflection
  <2> HIDE DEF r
  <2>5. NTypes'
    BY <1>a, <1>c, <2>1, <2>2, <2>4
  <2> QED
    BY <2>1, <2>2, <2>3, <2>5, GoesOn
<1>6. CASE RollUp(p)
  <2>1. /\ proc[p].at \in Reflecting /\ silent' = {} /\ Ends(p, "idle")
        /\ UNCHANGED <<rows, fired, faults, hands>>
    BY <1>6 DEF RollUp, Reflecting
  <2>2. Moves(p, "idle")
    BY <2>1 DEF Ends
  <2> QED
    BY <1>c, <1>d, <2>1, <2>2
<1>7. CASE ReflectRaises(p)
  <2>1. /\ proc[p].at \in Reflecting /\ faults' = faults + 1 /\ Moves(p, "rollup")
        /\ UNCHANGED <<rows, silent, fired, hands>>
    BY <1>7 DEF ReflectRaises, Reflecting
  <2> QED
    BY <1>c, <1>d, <2>1
<1>8. CASE Killed(p)
  <2>1. /\ faults' = faults + 1 /\ Moves(p, "idle")
        /\ UNCHANGED <<rows, fired, hands>>
    BY <1>8 DEF Killed
  <2>2. CASE proc[p].at \in Reflecting
    BY <1>8, <1>c, <1>d, <2>1, <2>2 DEF Killed
  <2>3. CASE proc[p].at \notin Reflecting
    <3>1. silent' = silent
      BY <1>8, <2>3 DEF Killed
    <3>2. /\ proc' = [proc EXCEPT ![p] = At("idle")] /\ At("idle") \in Records
          /\ At("idle").at = "idle"
      BY <2>1, MovesTo DEF Steps
    <3>3. NTypes'
      BY <1>a, <1>c, <2>1, <3>1, <3>2
    <3> QED
      BY <2>1, <2>3, <3>1, <3>2, <3>3, Elsewhere DEF Reflecting
  <2> QED
    BY <2>2, <2>3
<1> QED
  BY <1>1, <1>2, <1>3, <1>4, <1>5, <1>6, <1>7, <1>8

-----------------------------------------------------------------------------
\* The invariant holds at the start.
LEMMA InitNInv == Init => NInv
<1> SUFFICES ASSUME Init PROVE NInv
  OBVIOUS
<1>1. At("idle") \in Records /\ At("idle").at = "idle"
  BY AtIsRecord DEF Steps
<1>2. NTypes
  BY <1>1 DEF Init, NTypes
<1>3. \A p \in Procs : proc[p].at \notin Reflecting
  BY <1>1 DEF Init, Reflecting
<1>4. Alone /\ ListIsDue
  BY <1>3 DEF Alone, ListIsDue, Reflecting
<1>5. SilentTurnIsLoud
  BY DEF Init, SilentTurnIsLoud
<1> QED
  BY <1>2, <1>4, <1>5 DEF NInv

\* Every step keeps the invariant.
LEMMA StepNInv == NInv /\ [Next]_vars => NInv'
<1> SUFFICES ASSUME NInv, [Next]_vars PROVE NInv'
  OBVIOUS
<1>1. CASE NextDay
  <2>1. UNCHANGED <<reflection, weights, named, silent, proc, faults, hands>>
    BY <1>1 DEF NextDay
  <2>2. age' \in [Calls -> 0 .. Horizon]
    BY <1>1, NightAssumption DEF NextDay, NInv, NTypes
  <2>3. resolved' \in [Calls -> Nat \cup {NotYet}]
    <3>1. \A d \in Calls : d \in Resolved => resolved[d] \in Nat
      BY DEF NInv, NTypes, Resolved
    <3> QED
      BY <1>1, <3>1 DEF NextDay
  <2>4. NTypes'
    BY <1>1, <2>1, <2>2, <2>3 DEF NextDay, NInv, NTypes
  <2> QED
    BY <2>1, <2>4 DEF NInv, Alone, ListIsDue, SilentTurnIsLoud
<1>2. CASE Fire
  <2>1. /\ proc' = [proc EXCEPT !["unit"] = At("pnl")] /\ At("pnl") \in Records
        /\ At("pnl").at = "pnl" /\ proc' \in [Procs -> Records]
        /\ proc["unit"].at = "idle" /\ UNCHANGED <<rows, silent, faults, hands>>
        /\ fired' \in BOOLEAN
    BY <1>2, MovesTo DEF Fire, Procs, Steps, NInv
  <2>2. NTypes'
    BY <2>1 DEF NInv, NTypes
  <2> QED
    BY <2>1, <2>2, Elsewhere DEF Procs, Reflecting
<1>3. ASSUME NEW leg \in Legs, RunByHand(leg) PROVE NInv'
  <2>1. leg \in Steps /\ leg \notin Reflecting
    BY DEF Legs, Steps, Reflecting
  <2>2. /\ proc' = [proc EXCEPT !["hand"] = At(leg)] /\ At(leg) \in Records
        /\ At(leg).at = leg /\ proc' \in [Procs -> Records]
        /\ proc["hand"].at = "idle" /\ UNCHANGED <<rows, silent, fired, faults>>
        /\ hands' = hands + 1
    BY <1>3, <2>1, MovesTo DEF RunByHand, Procs, NInv
  <2>3. NTypes'
    BY <2>2 DEF NInv, NTypes
  <2> QED
    BY <2>1, <2>2, <2>3, Elsewhere DEF Procs, Reflecting
<1>4. ASSUME NEW p \in Procs,
             Leg(p) \/ Killed(p) \/ Raises(p) \/ SkipWeights(p) \/ ReflectRaises(p)
      PROVE  NInv'
  BY <1>4, OtherLegs, Reflections DEF Leg
<1>5. CASE UNCHANGED vars
  BY <1>5 DEF vars, NInv, NTypes, Alone, ListIsDue, SilentTurnIsLoud
<1> QED
  BY <1>1, <1>2, <1>3, <1>4, <1>5 DEF Next

\* The invariant of the night, types and all: the run of the reflections is
\* alone behind its lock, and its list is true while it works through it.
THEOREM NightInvariant == Spec => []NInv
<1> QED
  BY InitNInv, StepNInv, PTL DEF Spec

\* A turn that was read to have written nothing is still in the hands of a run
\* that will name it (reflect_and_log's finally), however the two processes
\* overlap.
THEOREM SilenceIsNamed == Spec => []SilentTurnIsLoud
<1>1. NInv => SilentTurnIsLoud
  BY DEF NInv
<1> QED
  BY <1>1, NightInvariant, PTL

\* No turn is paid for a call that carries its reflection already: between the
\* read of the list and the last turn nobody else writes (the lock of reflect).
THEOREM NoPaidTurnIsWasted == Spec => NoTurnForWritten
<1>1. NInv /\ [Next]_vars =>
        [\A p \in Procs :
            proc[p].at = "frame" /\ proc'[p].at = "turn" =>
                ~ reflection[proc'[p].job]]_vars
  <2> SUFFICES ASSUME NInv, [Next]_vars, NEW p \in Procs,
                      proc[p].at = "frame", proc'[p].at = "turn"
               PROVE  ~ reflection[proc'[p].job]
    OBVIOUS
  <2>1. NTypes /\ ListIsDue
    BY DEF NInv
  <2>2. CASE NextJob(p)
    <3>1. PICK d \in proc[p].due :
            proc' = [proc EXCEPT ![p] = [at |-> "turn", job |-> d,
                                         due |-> proc[p].due \ {d}]]
      <4>1. ~ Moves(p, "rollup")
        BY <2>1 DEF Moves, At, NTypes
      <4> QED
        BY <2>2, <4>1 DEF NextJob
    <3>2. proc'[p].job = d
      BY <2>1, <3>1 DEF NTypes
    <3> QED
      BY <2>1, <3>2 DEF ListIsDue, Reflecting
  <2>3. CASE UNCHANGED vars \/ NextDay
    BY <2>3 DEF vars, NextDay
  <2>4. ASSUME NEW q \in Procs, NEW step, Moves(q, step), step # "turn" PROVE FALSE
    BY <2>1, <2>4 DEF Moves, At, NTypes
  <2>5. CASE Fire \/ \E leg \in Legs : RunByHand(leg)
    BY <2>4, <2>5 DEF Fire, RunByHand, Legs, Procs
  <2>6. ASSUME NEW q \in Procs, ~ NextJob(p),
               Leg(q) \/ Killed(q) \/ Raises(q) \/ SkipWeights(q) \/ ReflectRaises(q)
        PROVE  FALSE
    <3>1. ASSUME NEW step, step # "turn", Ends(q, step) PROVE FALSE
      BY <2>4, <3>1 DEF Ends
    <3>2. ASSUME NEW step, step # "turn", NEW due, Holds(q, step, due) PROVE FALSE
      BY <2>1, <3>2 DEF Holds, At, NTypes
    <3>3. ~ (NoPnl(q) \/ ReadPnl(q) \/ AppendPnl(q) \/ RollUp(q))
      BY <2>4, <3>1 DEF NoPnl, ReadPnl, AppendPnl, RollUp
    <3>4. ~ (ReadDue(q) \/ InsertResolutions(q))
      BY <2>4, <3>1, <3>2 DEF ReadDue, InsertResolutions
    <3>5. ~ (ReadScoreboard(q) \/ WriteWeights(q) \/ SkipWeights(q))
      BY <3>1, <3>2 DEF ReadScoreboard, WriteWeights, SkipWeights
    <3>6. ~ (Killed(q) \/ Raises(q) \/ ReflectRaises(q))
      BY <2>4 DEF Killed, Raises, ReflectRaises
    <3>7. ~ StartReflect(q)
      BY <3>1, <3>2 DEF StartReflect
    <3>8. ~ (SubmitReflection(q) \/ QuietTurn(q) \/ CheckReflection(q))
      BY <2>1 DEF SubmitReflection, QuietTurn, CheckReflection, NTypes
    <3>9. CASE NextJob(q) /\ q # p
      BY <2>1, <3>9 DEF NextJob, Moves, NTypes
    <3> QED
      BY <2>6, <3>3, <3>4, <3>5, <3>6, <3>7, <3>8, <3>9 DEF Leg
  <2> QED
    BY <2>2, <2>3, <2>5, <2>6 DEF Next
<1> QED
  BY <1>1, NightInvariant, PTL DEF Spec, NoTurnForWritten

=============================================================================
