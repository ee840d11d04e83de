--------------------------- MODULE WorklistProofs ---------------------------
(***************************************************************************)
(* For any number of rows, processes, leases and crashes: a row is woken   *)
(* at most once, the loop keeps the row it works on, and what fails or     *)
(* expires is told exactly once.                                           *)
(***************************************************************************)
EXTENDS Worklist, TLAPS, FiniteSetTheorems

USE DEF rowVars, marks, procVars, Works, Times

(***************************************************************************)
(* The inductive invariant: one loop at a time, and what its label says of *)
(* the row in its hand.                                                    *)
(***************************************************************************)

\* main: the lock.
OneLoop == \A p, q \in Procs : at[p] # "down" /\ at[q] # "down" => p = q

\* The row a process has claimed stays claimed, is not woken before its
\* check, and the row it is about to tell of is told of by nobody else.
InHand ==
    \A p \in Procs :
      /\ at[p] \in {"check", "refuse", "waking", "finish", "fail"} =>
           status[cur[p]] = "claimed"
      /\ at[p] = "check" => wakes[cur[p]] = 0
      /\ Alerting(p) => status[cur[p]] \in Loud /\ alerted[cur[p]] = 0

\* No lease outlasts the clock.
Deadlines == \A w \in Works : expiresAt[w] <= Horizon

\* Only a row that has left the queue was woken.
WokenWereClaimed ==
    \A w \in Works : wakes[w] > 0 => status[w] \notin {"none", "open"}

Hands == OneLoop /\ InHand
Tallies == WokenWereClaimed /\ WokenAtMostOnce /\ ExactlyOneAlert
WInv == TypeOK /\ Deadlines /\ Hands /\ Tallies

\* The invariant holds at the start.
LEMMA InitWInv == Init => WInv
<1> SUFFICES ASSUME Init PROVE WInv
  OBVIOUS
<1>1. Silent = {}
  BY DEF Init, Silent, Loud
<1>2. Cardinality(Silent) = 0
  BY <1>1, FS_EmptySet
<1>3. TypeOK /\ Deadlines /\ Hands
  BY WorklistAssumption
  DEF Init, Hands, TypeOK, OneLoop, InHand, Deadlines, Status, Labels, Alerting
<1> QED
  BY <1>2, <1>3
  DEF Init, WInv, Tallies, WokenWereClaimed, WokenAtMostOnce, ExactlyOneAlert,
      Loud

\* The type invariant, in three parts.
Shapes ==
    /\ status \in [Works -> Status]
    /\ notBefore \in [Works -> Times] /\ expiresAt \in [Works -> Times]
    /\ leaseUntil \in [Works -> Times]
    /\ alerted \in [Works -> Nat] /\ wakes \in [Works -> Nat]
    /\ now \in Times /\ read \in [Procs -> Times]
    /\ at \in [Procs -> Labels]
    /\ cur \in [Procs -> Works \cup {0}]
    /\ todo \in [Procs -> SUBSET Works]
    /\ crashes \in Nat
Leased == \A w \in Works :
    status[w] \in {"claimed", "done", "failed"} => leaseUntil[w] > 0
Handed == \A p \in Procs :
    cur[p] = 0 <=> at[p] \in {"down", "cycle", "reap", "expire", "claim"}

\* The type invariant in the parts the proofs use.
LEMMA TypeParts == TypeOK <=> Shapes /\ Leased /\ Handed
  BY DEF TypeOK, Shapes, Leased, Handed

\* Every step keeps the types and the deadlines.
LEMMA TypeStep == WInv /\ [Next]_vars => TypeOK' /\ Deadlines'
<1> SUFFICES ASSUME Shapes, Leased, Handed, Deadlines, [Next]_vars
             PROVE  Shapes' /\ Leased' /\ Handed' /\ Deadlines'
  BY DEF WInv, TypeOK, Shapes, Leased, Handed
<1> USE WorklistAssumption DEF Status, Labels, Goto, Drop, AlertRow
<1>1. CASE Tick
  BY <1>1 DEF Tick, Shapes, Leased, Handed, Deadlines
<1>2. ASSUME NEW w \in Works,
             Enqueue(w)
      PROVE  Shapes' /\ Leased' /\ Handed' /\ Deadlines'
  <2>0. PICK t \in 0 .. Horizon, u \in 1 .. Horizon :
             /\ notBefore' = [notBefore EXCEPT ![w] = t]
             /\ expiresAt' = [expiresAt EXCEPT ![w] = u]
    BY <1>2 DEF Enqueue
  <2>a. t \in Times /\ u \in Times
    BY <2>0
  <2>1. Shapes'
    BY <1>2, <2>0, <2>a DEF Enqueue, Shapes
  <2>2. Leased' /\ Deadlines'
    <3>1. Leased'
      BY <1>2 DEF Enqueue, Shapes, Leased
    <3>2. Deadlines'
      BY <2>0, <2>a DEF Shapes, Deadlines
    <3> QED
      BY <3>1, <3>2
  <2>3. Handed'
    BY <1>2 DEF Enqueue, Shapes, Handed
  <2> QED
    BY <2>1, <2>2, <2>3
<1>3. ASSUME NEW p \in Procs,
             Start(p)
      PROVE  Shapes' /\ Leased' /\ Handed' /\ Deadlines'
  <2>1. Shapes'
    BY <1>3 DEF Start, Shapes
  <2>2. Leased' /\ Deadlines'
    BY <1>3 DEF Start, Shapes, Leased, Deadlines
  <2>3. Handed'
    BY <1>3 DEF Start, Shapes, Handed
  <2> QED
    BY <2>1, <2>2, <2>3
<1>4. ASSUME NEW p \in Procs,
             Crash(p)
      PROVE  Shapes' /\ Leased' /\ Handed' /\ Deadlines'
  <2>1. Shapes'
    <3>1. at' \in [Procs -> Labels] /\ cur' \in [Procs -> Works \cup {0}]
      BY <1>4 DEF Crash, Shapes
    <3>2. todo' \in [Procs -> SUBSET Works] /\ crashes' \in Nat
      BY <1>4 DEF Crash, Shapes
    <3> QED
      BY <1>4, <3>1, <3>2 DEF Crash, Shapes
  <2>2. Leased' /\ Deadlines'
    BY <1>4 DEF Crash, Shapes, Leased, Deadlines
  <2>3. Handed'
    BY <1>4 DEF Crash, Shapes, Handed
  <2> QED
    BY <2>1, <2>2, <2>3
<1>5. ASSUME NEW p \in Procs,
             Cycle(p)
      PROVE  Shapes' /\ Leased' /\ Handed' /\ Deadlines'
  <2>1. Shapes'
    BY <1>5 DEF Cycle, OverLease, Shapes
  <2>2. Leased' /\ Deadlines'
    BY <1>5 DEF Cycle, Shapes, Leased, Deadlines
  <2>3. Handed'
    BY <1>5 DEF Cycle, Shapes, Handed
  <2> QED
    BY <2>1, <2>2, <2>3
<1>6. ASSUME NEW p \in Procs, NEW w \in todo[p],
             Reap(p, w) \/ Expire(p, w)
      PROVE  Shapes' /\ Leased' /\ Handed' /\ Deadlines'
  <2>0. w \in Works
    BY DEF Shapes
  <2>1. Shapes'
    <3>1. todo' \in [Procs -> SUBSET Works]
      <4>1. todo' = [todo EXCEPT ![p] = @ \ {w}]
        BY <1>6 DEF Reap, Expire, Sweep
      <4> QED
        BY <4>1 DEF Shapes
    <3>2. status' \in [Works -> Status]
      BY <1>6, <2>0 DEF Reap, Expire, Sweep, Shapes
    <3>3. at' \in [Procs -> Labels] /\ cur' \in [Procs -> Works \cup {0}]
      <4>1. CASE UNCHANGED <<cur, at>>
        BY <4>1 DEF Shapes
      <4>2. CASE /\ cur' = [cur EXCEPT ![p] = w]
                 /\ \E l \in {"reap_alert", "expire_alert"} : Goto(p, l)
        BY <2>0, <4>2 DEF Shapes
      <4> QED
        BY <1>6, <4>1, <4>2 DEF Reap, Expire, Sweep
    <3> QED
      BY <1>6, <3>1, <3>2, <3>3 DEF Reap, Expire, Sweep, Shapes
  <2>2. Leased' /\ Deadlines'
    BY <1>6, <2>0 DEF Reap, Expire, Sweep, Shapes, Leased, Deadlines
  <2>3. Handed'
    <3>1. CASE UNCHANGED <<cur, at>>
      BY <3>1 DEF Handed
    <3>2. CASE /\ cur' = [cur EXCEPT ![p] = w]
               /\ \E l \in {"reap_alert", "expire_alert"} : Goto(p, l)
      <4>1. /\ cur'[p] = w /\ at'[p] \in {"reap_alert", "expire_alert"}
            /\ \A q \in Procs \ {p} : cur'[q] = cur[q] /\ at'[q] = at[q]
        BY <3>2 DEF Shapes, Goto
      <4>2. w # 0
        BY <2>0, WorklistAssumption
      <4> QED
        BY <4>1, <4>2 DEF Handed
    <3> QED
      BY <1>6, <3>1, <3>2 DEF Reap, Expire, Sweep
  <2> QED
    BY <2>1, <2>2, <2>3
<1>7. ASSUME NEW p \in Procs,
             ReapAlert(p) \/ ExpireAlert(p) \/ FailAlert(p)
      PROVE  Shapes' /\ Leased' /\ Handed' /\ Deadlines'
  <2>0. cur[p] \in Works
    BY <1>7 DEF ReapAlert, ExpireAlert, FailAlert, Shapes, Handed
  <2>1. Shapes'
    <3>1. \A w \in Works : [alerted EXCEPT ![w] = @ + 1] \in [Works -> Nat]
      BY DEF Shapes
    <3>2. alerted' \in [Works -> Nat]
      BY <1>7, <2>0, <3>1 DEF ReapAlert, ExpireAlert, FailAlert, Shapes
    <3>3. at' \in [Procs -> Labels] /\ cur' \in [Procs -> Works \cup {0}]
      BY <1>7 DEF ReapAlert, ExpireAlert, FailAlert, Shapes
    <3> QED
      BY <1>7, <3>2, <3>3 DEF ReapAlert, ExpireAlert, FailAlert, Shapes
  <2>2. Leased' /\ Deadlines'
    BY <1>7, <2>0 DEF ReapAlert, ExpireAlert, FailAlert, Shapes, Leased, Deadlines
  <2>3. Handed'
    <3>1. /\ at'[p] \in {"reap", "expire", "cycle"} /\ cur'[p] = 0
          /\ \A q \in Procs \ {p} : cur'[q] = cur[q] /\ at'[q] = at[q]
      BY <1>7 DEF ReapAlert, ExpireAlert, FailAlert, Shapes
    <3> QED
      BY <3>1 DEF Handed
  <2> QED
    BY <2>1, <2>2, <2>3
<1>8. ASSUME NEW p \in Procs,
             ReapDone(p)
      PROVE  Shapes' /\ Leased' /\ Handed' /\ Deadlines'
  <2>1. Shapes'
    BY <1>8 DEF ReapDone, PastDue, Shapes
  <2>2. Leased' /\ Deadlines'
    BY <1>8 DEF ReapDone, Shapes, Leased, Deadlines
  <2>3. Handed'
    BY <1>8 DEF ReapDone, Shapes, Handed
  <2> QED
    BY <2>1, <2>2, <2>3
<1>9. ASSUME NEW p \in Procs,
             ExpireDone(p)
      PROVE  Shapes' /\ Leased' /\ Handed' /\ Deadlines'
  <2>1. Shapes'
    BY <1>9 DEF ExpireDone, Shapes
  <2>2. Leased' /\ Deadlines'
    BY <1>9 DEF ExpireDone, Shapes, Leased, Deadlines
  <2>3. Handed'
    BY <1>9 DEF ExpireDone, Shapes, Handed
  <2> QED
    BY <2>1, <2>2, <2>3
<1>10. ASSUME NEW p \in Procs,
             Claim(p)
      PROVE  Shapes' /\ Leased' /\ Handed' /\ Deadlines'
  <2>1. CASE Claimable(read[p]) = {}
    BY <1>10, <2>1 DEF Claim, Shapes, Leased, Handed, Deadlines
  <2>2. ASSUME NEW w \in Claimable(read[p]),
               status' = [status EXCEPT ![w] = "claimed"],
               leaseUntil' = [leaseUntil EXCEPT ![w] = read[p] + Lease],
               cur' = [cur EXCEPT ![p] = w], Goto(p, "check"),
               UNCHANGED <<notBefore, expiresAt>>,
               UNCHANGED <<marks, todo, read, now, crashes>>
        PROVE  Shapes' /\ Leased' /\ Handed' /\ Deadlines'
    <3>1. w \in Works /\ read[p] < expiresAt[w] /\ read[p] \in Times
      BY DEF Claimable, Shapes
    <3>2. expiresAt[w] <= Horizon /\ expiresAt[w] \in Nat
      BY <3>1 DEF Deadlines, Shapes
    <3>3. read[p] + Lease \in Times /\ read[p] + Lease > 0
      BY <3>1, <3>2
    <3>4. Shapes'
      BY <2>2, <3>1, <3>3 DEF Shapes
    <3>5. Leased' /\ Deadlines'
      BY <2>2, <3>1, <3>3 DEF Shapes, Leased, Deadlines
    <3>6. Handed'
      BY <2>2, <3>1 DEF Shapes, Handed
    <3> QED
      BY <3>4, <3>5, <3>6
  <2> QED
    BY <1>10, <2>1, <2>2 DEF Claim
<1>11. ASSUME NEW p \in Procs,
             Check(p)
      PROVE  Shapes' /\ Leased' /\ Handed' /\ Deadlines'
  <2>0. cur[p] \in Works
    BY <1>11 DEF Check, Shapes, Handed
  <2>1. Shapes'
    <3>1. \A w \in Works : [wakes EXCEPT ![w] = @ + 1] \in [Works -> Nat]
      BY DEF Shapes
    <3>2. wakes' \in [Works -> Nat]
      BY <1>11, <2>0, <3>1 DEF Check, Shapes
    <3>3. at' \in [Procs -> Labels] /\ cur' \in [Procs -> Works \cup {0}]
      BY <1>11 DEF Check, Shapes
    <3> QED
      BY <1>11, <3>2, <3>3 DEF Check, Shapes
  <2>2. Leased' /\ Deadlines'
    BY <1>11, <2>0 DEF Check, Shapes, Leased, Deadlines
  <2>3. Handed'
    BY <1>11, <2>0 DEF Check, Shapes, Handed
  <2> QED
    BY <2>1, <2>2, <2>3
<1>12. ASSUME NEW p \in Procs,
             WakeEnds(p)
      PROVE  Shapes' /\ Leased' /\ Handed' /\ Deadlines'
  <2>1. Shapes'
    BY <1>12 DEF WakeEnds, Shapes
  <2>2. Leased' /\ Deadlines'
    BY <1>12 DEF WakeEnds, Shapes, Leased, Deadlines
  <2>3. Handed'
    BY <1>12 DEF WakeEnds, Shapes, Handed
  <2> QED
    BY <2>1, <2>2, <2>3
<1>13. ASSUME NEW p \in Procs,
             Finish(p) \/ Fail(p)
      PROVE  Shapes' /\ Leased' /\ Handed' /\ Deadlines'
  <2>0. cur[p] \in Works
    <3>1. at[p] \notin {"down", "cycle", "reap", "expire", "claim"}
      BY <1>13 DEF Finish, Fail
    <3> QED
      BY <3>1 DEF Shapes, Handed
  <2>1. Shapes'
    <3>1. CASE Finish(p)
      <4>1. status' \in [Works -> Status]
        <5>1. [status EXCEPT ![cur[p]] = "done"] \in [Works -> Status]
          BY DEF Shapes, Status
        <5>2. status' = status \/ status' = [status EXCEPT ![cur[p]] = "done"]
          BY <3>1 DEF Finish, Settle
        <5> QED
          BY <5>1, <5>2 DEF Shapes
      <4>2. at' \in [Procs -> Labels]
        <5>1. \A l \in Labels : [at EXCEPT ![p] = l] \in [Procs -> Labels]
          BY DEF Shapes
        <5>2. \E l \in Labels : at' = [at EXCEPT ![p] = l]
          BY <3>1 DEF Finish, Settle, Labels
        <5> QED
          BY <5>1, <5>2
      <4>3. cur' \in [Procs -> Works \cup {0}]
        <5>1. [cur EXCEPT ![p] = 0] \in [Procs -> Works \cup {0}]
          BY DEF Shapes
        <5>2. cur' = cur \/ cur' = [cur EXCEPT ![p] = 0]
          BY <3>1 DEF Finish, Settle, Drop
        <5> QED
          BY <5>1, <5>2 DEF Shapes
      <4> QED
        BY <3>1, <4>1, <4>2, <4>3 DEF Finish, Shapes
    <3>2. CASE Fail(p)
      <4>1. status' \in [Works -> Status]
        <5>1. [status EXCEPT ![cur[p]] = "failed"] \in [Works -> Status]
          BY DEF Shapes, Status
        <5>2. status' = status \/ status' = [status EXCEPT ![cur[p]] = "failed"]
          BY <3>2 DEF Fail, Settle
        <5> QED
          BY <5>1, <5>2 DEF Shapes
      <4>2. at' \in [Procs -> Labels]
        <5>1. \A l \in Labels : [at EXCEPT ![p] = l] \in [Procs -> Labels]
          BY DEF Shapes
        <5>2. \E l \in Labels : at' = [at EXCEPT ![p] = l]
          BY <3>2 DEF Fail, Settle, Labels
        <5> QED
          BY <5>1, <5>2
      <4>3. cur' \in [Procs -> Works \cup {0}]
        <5>1. [cur EXCEPT ![p] = 0] \in [Procs -> Works \cup {0}]
          BY DEF Shapes
        <5>2. cur' = cur \/ cur' = [cur EXCEPT ![p] = 0]
          BY <3>2 DEF Fail, Settle, Drop
        <5> QED
          BY <5>1, <5>2 DEF Shapes
      <4> QED
        BY <3>2, <4>1, <4>2, <4>3 DEF Fail, Shapes
    <3> QED
      BY <1>13, <3>1, <3>2
  <2>2. Leased' /\ Deadlines'
    BY <1>13, <2>0 DEF Finish, Fail, Settle, Shapes, Leased, Deadlines
  <2>3. Handed'
    <3>1. \A q \in Procs \ {p} : cur'[q] = cur[q] /\ at'[q] = at[q]
      BY <1>13 DEF Finish, Fail, Settle, Shapes
    <3>2. CASE Finish(p)
      BY <2>0, <3>1, <3>2 DEF Finish, Settle, Shapes, Handed
    <3>3. CASE Fail(p)
      BY <2>0, <3>1, <3>3 DEF Fail, Settle, Shapes, Handed
    <3> QED
      BY <1>13, <3>2, <3>3
  <2> QED
    BY <2>1, <2>2, <2>3
<1>14. CASE UNCHANGED vars
  BY <1>14 DEF vars, Shapes, Leased, Handed, Deadlines
<1> QED
  BY <1>1, <1>2, <1>3, <1>4, <1>5, <1>6, <1>7, <1>8, <1>9, <1>10, <1>11,
     <1>12, <1>13, <1>14 DEF Next, Step
\* While one process runs, the others are down before and after its step.
LEMMA Alone ==
    ASSUME WInv, NEW p \in Procs, at[p] # "down", NEW l \in Labels,
           at' = [at EXCEPT ![p] = l]
    PROVE  /\ at'[p] = l
           /\ \A q \in Procs : at'[q] # "down" => q = p
           /\ \A q \in Procs : at[q] # "down" => q = p
           /\ OneLoop'
  BY DEF WInv, Hands, OneLoop, TypeOK

\* What is in the hand of the process that moved is all there is to know.
LEMMA OnlyHand ==
    ASSUME NEW p \in Procs, OneLoop', \A q \in Procs : at'[q] # "down" => q = p,
           at'[p] \in {"check", "refuse", "waking", "finish", "fail"} =>
               status'[cur'[p]] = "claimed",
           at'[p] = "check" => wakes'[cur'[p]] = 0,
           at'[p] \in {"reap_alert", "expire_alert", "fail_alert"} =>
               status'[cur'[p]] \in Loud /\ alerted'[cur'[p]] = 0
    PROVE  Hands'
  BY DEF Hands, InHand, Alerting

\* Nothing new is silent.
LEMMA SilentKept ==
    ASSUME WInv, Silent' \subseteq Silent, crashes' \in {crashes, crashes + 1}
    PROVE  (Cardinality(Silent) <= crashes)'
<1>1. /\ Silent \subseteq 1 .. MaxWorks /\ MaxWorks \in Nat
      /\ crashes \in Nat /\ Cardinality(Silent) <= crashes
  BY WorklistAssumption DEF Silent, WInv, TypeOK, Tallies, ExactlyOneAlert
<1>2. IsFiniteSet(Silent)
  <2>1. IsFiniteSet(1 .. MaxWorks)
    BY <1>1, FS_Interval
  <2> QED
    BY <1>1, <2>1, FS_Subset
<1> HIDE DEF Silent
<1>3. /\ Cardinality(Silent) \in Nat /\ Cardinality(Silent') \in Nat
      /\ Cardinality(Silent') <= Cardinality(Silent)
  BY <1>2, FS_Subset, FS_CardinalityType
<1> QED
  BY <1>1, <1>3

\* A process that dies leaves at most the row in its hand silent.
LEMMA SilentCrash ==
    ASSUME WInv, NEW p \in Procs, Silent' \subseteq Silent \cup {cur[p]},
           crashes' = crashes + 1
    PROVE  (Cardinality(Silent) <= crashes)'
<1>1. /\ Silent \subseteq 1 .. MaxWorks /\ MaxWorks \in Nat
      /\ crashes \in Nat /\ Cardinality(Silent) <= crashes
  BY WorklistAssumption DEF Silent, WInv, TypeOK, Tallies, ExactlyOneAlert
<1>2. IsFiniteSet(Silent)
  <2>1. IsFiniteSet(1 .. MaxWorks)
    BY <1>1, FS_Interval
  <2> QED
    BY <1>1, <2>1, FS_Subset
<1> HIDE DEF Silent
<1> DEFINE G == Silent \cup {cur[p]}
<1>3. /\ IsFiniteSet(G) /\ Cardinality(G) \in Nat
      /\ Cardinality(G) <= Cardinality(Silent) + 1
      /\ Cardinality(Silent) \in Nat
  <2>1. Cardinality(Silent) \in Nat
    BY <1>2, FS_CardinalityType
  <2>2. /\ IsFiniteSet(G)
        /\ Cardinality(G) = Cardinality(Silent)
           \/ Cardinality(G) = Cardinality(Silent) + 1
    BY <1>2, FS_AddElement
  <2> QED
    BY <2>1, <2>2
<1>4. Silent' \subseteq G
  OBVIOUS
<1> HIDE DEF G
<1>5. Cardinality(Silent') \in Nat /\ Cardinality(Silent') <= Cardinality(G)
  BY <1>3, <1>4, FS_Subset, FS_CardinalityType
<1> QED
  BY <1>1, <1>3, <1>5

\* The rows are untouched, and so is whoever is about to tell of one.
LEMMA TalliesKept ==
    ASSUME WInv, UNCHANGED <<status, alerted, wakes, crashes>>,
           \A q \in Procs : Alerting(q) => at'[q] = at[q] /\ cur'[q] = cur[q]
    PROVE  Tallies'
<1>1. Silent' \subseteq Silent
  BY DEF Silent, Alerting
<1> QED
  BY <1>1, SilentKept
  DEF WInv, Tallies, WokenWereClaimed, WokenAtMostOnce, ExactlyOneAlert

\* One row that nobody tells of moves to a status that is not loud.
LEMMA TalliesMoved ==
    ASSUME WInv, NEW w \in Works, NEW s \in {"open", "claimed", "done"},
           status' = [status EXCEPT ![w] = s], status[w] \notin Loud,
           s = "open" => status[w] = "none",
           UNCHANGED <<alerted, wakes, crashes>>,
           \A q \in Procs : Alerting(q) => at'[q] = at[q] /\ cur'[q] = cur[q]
    PROVE  Tallies'
<1>1. /\ status'[w] = s /\ \A v \in Works \ {w} : status'[v] = status[v]
      /\ wakes[w] \in Nat
  BY DEF WInv, TypeOK
<1>2. WokenWereClaimed' /\ WokenAtMostOnce'
  BY <1>1 DEF WInv, Tallies, WokenWereClaimed, WokenAtMostOnce
<1>3. ExactlyOneAlert'
  <2>1. \A v \in Works : alerted'[v] <= 1
                         /\ (status'[v] \notin Loud => alerted'[v] = 0)
    BY <1>1 DEF WInv, Tallies, ExactlyOneAlert
  <2>2. ASSUME NEW v \in Silent' PROVE v \in Silent
    <3>1. v \in Works /\ v # w /\ status[v] \in Loud /\ alerted[v] = 0
      BY <1>1, <2>2 DEF Silent, Loud
    <3>2. \A q \in Procs : ~ (Alerting(q) /\ cur[q] = v)
      BY <2>2 DEF Silent, Alerting
    <3> QED
      BY <3>1, <3>2 DEF Silent
  <2> QED
    BY <2>1, <2>2, SilentKept DEF ExactlyOneAlert
<1> QED
  BY <1>2, <1>3 DEF Tallies

\* One row turns loud in the hand of the process that will tell of it.
LEMMA TalliesLoud ==
    ASSUME WInv, NEW p \in Procs, NEW w \in Works, NEW s \in Loud,
           status' = [status EXCEPT ![w] = s], status[w] \in {"open", "claimed"},
           cur'[p] = w, Alerting(p)',
           UNCHANGED <<alerted, wakes, crashes>>,
           \A q \in Procs : ~ Alerting(q)
    PROVE  Tallies'
<1>1. /\ status'[w] = s /\ \A v \in Works \ {w} : status'[v] = status[v]
      /\ wakes[w] \in Nat /\ alerted[w] = 0
  BY DEF WInv, TypeOK, Tallies, ExactlyOneAlert, Loud
<1>2. WokenWereClaimed' /\ WokenAtMostOnce'
  BY <1>1 DEF WInv, Tallies, WokenWereClaimed, WokenAtMostOnce, Loud
<1>3. Silent' \subseteq Silent
  BY <1>1 DEF Silent
<1>4. ExactlyOneAlert'
  BY <1>1, <1>3, SilentKept DEF WInv, Tallies, ExactlyOneAlert
<1> QED
  BY <1>2, <1>4 DEF Tallies

\* The alert of the row in hand.
LEMMA TalliesTold ==
    ASSUME WInv, NEW p \in Procs, Alerting(p), AlertRow(p),
           \A q \in Procs : at[q] # "down" => q = p,
           UNCHANGED <<status, wakes, crashes>>
    PROVE  Tallies'
<1>1. /\ cur[p] \in Works /\ status[cur[p]] \in Loud /\ alerted[cur[p]] = 0
  BY DEF WInv, TypeOK, Hands, InHand, Alerting
<1>2. /\ alerted'[cur[p]] = 1
      /\ \A v \in Works \ {cur[p]} : alerted'[v] = alerted[v]
  BY <1>1 DEF AlertRow, WInv, TypeOK
<1>3. WokenWereClaimed' /\ WokenAtMostOnce'
  BY DEF WInv, Tallies, WokenWereClaimed, WokenAtMostOnce
<1>4. Silent' \subseteq Silent
  <2> SUFFICES ASSUME NEW v \in Silent' PROVE v \in Silent
    OBVIOUS
  <2>1. v \in Works /\ v # cur[p] /\ status[v] \in Loud /\ alerted[v] = 0
    BY <1>2 DEF Silent
  <2>2. \A q \in Procs : Alerting(q) => q = p
    BY DEF Alerting
  <2> QED
    BY <2>1, <2>2 DEF Silent
<1>5. ExactlyOneAlert'
  BY <1>1, <1>2, <1>4, SilentKept DEF WInv, Tallies, ExactlyOneAlert
<1> QED
  BY <1>3, <1>5 DEF Tallies

\* The sweep's swap, of a claim over its lease or of a row past due.
LEMMA SweepStep ==
    ASSUME WInv, TypeOK', NEW p \in Procs, NEW w \in todo[p],
           at[p] \in {"reap", "expire"}, NEW from \in {"open", "claimed"},
           NEW to \in Loud, NEW next \in {"reap_alert", "expire_alert"},
           Sweep(p, w, from, to, next)
    PROVE  Hands' /\ Tallies'
<1>1. w \in Works /\ next \in Labels /\ (\A q \in Procs : at[q] # "down" => q = p)
  BY DEF WInv, TypeOK, Hands, OneLoop, Labels
<1>2. CASE status[w] = from
  <2>1. /\ status' = [status EXCEPT ![w] = to] /\ cur' = [cur EXCEPT ![p] = w]
        /\ at' = [at EXCEPT ![p] = next] /\ UNCHANGED <<alerted, wakes, crashes>>
    BY <1>2 DEF Sweep, Goto
  <2>2. cur'[p] = w /\ at'[p] = next /\ status'[w] = to /\ alerted'[w] = 0
    <3>1. cur'[p] = w /\ at'[p] = next /\ status'[w] = to
      BY <1>1, <2>1 DEF WInv, TypeOK
    <3>2. status[w] \notin Loud
      BY <1>2 DEF Loud
    <3>3. alerted[w] = 0
      BY <1>1, <3>2 DEF WInv, Tallies, ExactlyOneAlert
    <3> QED
      BY <2>1, <3>1, <3>3
  <2>3. \A q \in Procs : ~ Alerting(q)
    BY <1>1 DEF Alerting
  <2>4. Alerting(p)'
    BY <2>2 DEF Alerting
  <2>5. Tallies'
    BY <1>1, <1>2, <2>1, <2>2, <2>3, <2>4, TalliesLoud
  <2>6. OneLoop' /\ \A q \in Procs : at'[q] # "down" => q = p
    BY <1>1, <2>1, Alone
  <2>7. Hands'
    BY <2>2, <2>6, OnlyHand
  <2> QED
    BY <2>5, <2>7
<1>3. CASE status[w] # from
  <2>1. UNCHANGED <<status, cur, at, alerted, wakes, crashes>>
    BY <1>3 DEF Sweep, marks
  <2> QED
    BY <2>1, TalliesKept DEF WInv, Hands, OneLoop, InHand, Alerting
<1> QED
  BY <1>2, <1>3

\* The transition that ends a wake, or refuses a row.
LEMMA SettleStep ==
    ASSUME WInv, TypeOK', NEW p \in Procs, at[p] \in {"finish", "fail", "refuse"},
           NEW to, NEW next,
           \/ to = "done" /\ next = "cycle"
           \/ to = "failed" /\ next = "fail_alert",
           Settle(p, to, next), UNCHANGED <<alerted, wakes, crashes>>
    PROVE  Hands' /\ Tallies'
<1>1. /\ cur[p] \in Works /\ status[cur[p]] = "claimed" /\ next \in Labels
      /\ (\A q \in Procs : at[q] # "down" => q = p)
  <2>1. cur[p] \in Works /\ next \in Labels
    BY DEF WInv, TypeOK, Labels
  <2>2. status[cur[p]] = "claimed"
    BY DEF WInv, Hands, InHand
  <2>3. \A q \in Procs : at[q] # "down" => q = p
    BY DEF WInv, Hands, OneLoop
  <2> QED
    BY <2>1, <2>2, <2>3
<1>2. /\ status' = [status EXCEPT ![cur[p]] = to]
      /\ at' = [at EXCEPT ![p] = next]
      /\ next = "fail_alert" => cur' = cur
  BY <1>1 DEF Settle, Goto
<1>3. /\ OneLoop' /\ at'[p] = next
      /\ \A q \in Procs : at'[q] # "down" => q = p
  BY <1>1, <1>2, Alone
<1>4. status'[cur[p]] = to
  BY <1>1, <1>2 DEF WInv, TypeOK
<1>5. \A q \in Procs : ~ Alerting(q)
  BY <1>1 DEF Alerting
<1>6. CASE next = "cycle"
  <2>1. Hands'
    BY <1>3, <1>6, OnlyHand
  <2>2. Tallies'
    BY <1>1, <1>2, <1>5, <1>6, TalliesMoved DEF Loud
  <2> QED
    BY <2>1, <2>2
<1>7. CASE next = "fail_alert"
  <2>1. alerted[cur[p]] = 0 /\ to \in Loud
    BY <1>1, <1>7 DEF WInv, Tallies, ExactlyOneAlert, Loud
  <2>2. Hands'
    BY <1>2, <1>3, <1>4, <1>7, <2>1, OnlyHand
  <2>3. Alerting(p)'
    BY <1>3, <1>7 DEF Alerting
  <2>4. Tallies'
    BY <1>1, <1>2, <1>5, <1>7, <2>1, <2>3, TalliesLoud
  <2> QED
    BY <2>2, <2>4
<1> QED
  BY <1>6, <1>7

\* A claim keeps who holds what, and the tallies of wakes and alerts.
LEMMA ClaimStep ==
    ASSUME WInv, TypeOK', NEW p \in Procs, Claim(p)
    PROVE  Hands' /\ Tallies'
<1>1. /\ at[p] = "claim" /\ "cycle" \in Labels /\ "check" \in Labels
      /\ (\A q \in Procs : at[q] # "down" => q = p)
  BY DEF Claim, WInv, Hands, OneLoop, Labels
<1>2. \A q \in Procs : ~ Alerting(q)
  BY <1>1 DEF Alerting
<1>3. CASE Claimable(read[p]) = {}
  <2>1. at' = [at EXCEPT ![p] = "cycle"] /\ UNCHANGED <<rowVars, marks, crashes>>
    BY <1>3 DEF Claim, Goto
  <2> QED
    BY <1>1, <1>2, <2>1, Alone, OnlyHand, TalliesKept
<1>4. CASE Claimable(read[p]) # {}
  <2>1. PICK w \in Claimable(read[p]) :
            /\ status' = [status EXCEPT ![w] = "claimed"]
            /\ cur' = [cur EXCEPT ![p] = w]
            /\ at' = [at EXCEPT ![p] = "check"]
    BY <1>4 DEF Claim, Goto
  <2>2. w \in Works /\ status[w] = "open" /\ UNCHANGED <<alerted, wakes, crashes>>
    BY DEF Claimable, Claim
  <2>3. wakes[w] = 0 /\ cur'[p] = w /\ status'[w] = "claimed"
    BY <2>1, <2>2 DEF WInv, TypeOK, Tallies, WokenWereClaimed
  <2>4. Tallies'
    BY <1>2, <2>1, <2>2, TalliesMoved DEF Loud
  <2>5. Hands'
    BY <1>1, <2>1, <2>2, <2>3, Alone, OnlyHand
  <2> QED
    BY <2>4, <2>5
<1> QED
  BY <1>3, <1>4

\* So does the check before a wake.
LEMMA CheckStep ==
    ASSUME WInv, TypeOK', NEW p \in Procs, Check(p)
    PROVE  Hands' /\ Tallies'
<1>1. /\ at[p] = "check" /\ "waking" \in Labels /\ "refuse" \in Labels
      /\ cur[p] \in Works /\ status[cur[p]] = "claimed" /\ wakes[cur[p]] = 0
      /\ (\A q \in Procs : at[q] # "down" => q = p)
      /\ UNCHANGED <<status, cur, alerted, crashes>>
  <2>1. /\ at[p] = "check" /\ "waking" \in Labels /\ "refuse" \in Labels
        /\ UNCHANGED <<status, cur, alerted, crashes>>
    BY DEF Check, Labels
  <2>2. cur[p] \in Works
    BY <2>1 DEF WInv, TypeOK
  <2>3. status[cur[p]] = "claimed" /\ wakes[cur[p]] = 0
    BY <2>1 DEF WInv, Hands, InHand
  <2>4. \A q \in Procs : at[q] # "down" => q = p
    BY <2>1 DEF WInv, Hands, OneLoop
  <2> QED
    BY <2>1, <2>2, <2>3, <2>4
<1>2. \A q \in Procs : ~ Alerting(q)
  BY <1>1 DEF Alerting
<1>3. PICK l \in {"waking", "refuse"} : at' = [at EXCEPT ![p] = l]
  BY DEF Check, Goto
<1>4. Hands'
  BY <1>1, <1>3, Alone, OnlyHand
<1>5. CASE cur[p] \in Allowed
  <2>1. /\ wakes'[cur[p]] = 1
        /\ \A v \in Works \ {cur[p]} : wakes'[v] = wakes[v]
    BY <1>1, <1>5 DEF Check, WInv, TypeOK
  <2>2. WokenWereClaimed' /\ WokenAtMostOnce'
    BY <1>1, <1>5, <2>1 DEF WInv, Tallies, WokenWereClaimed, WokenAtMostOnce
  <2>3. Silent' \subseteq Silent
    BY <1>1, <1>2 DEF Silent
  <2>4. ExactlyOneAlert'
    BY <1>1, <2>3, SilentKept DEF WInv, Tallies, ExactlyOneAlert
  <2> QED
    BY <1>4, <2>2, <2>4 DEF Tallies
<1>6. CASE cur[p] \notin Allowed
  BY <1>1, <1>2, <1>4, <1>6, TalliesKept DEF Check
<1> QED
  BY <1>5, <1>6

\* So does every step.
LEMMA SafeStep == WInv /\ TypeOK' /\ [Next]_vars => Hands' /\ Tallies'
<1> SUFFICES ASSUME WInv, TypeOK', [Next]_vars PROVE Hands' /\ Tallies'
  OBVIOUS
<1>1. ASSUME UNCHANGED <<status, marks, at, cur, crashes>>
      PROVE  Hands' /\ Tallies'
  BY <1>1, TalliesKept DEF WInv, Hands, OneLoop, InHand, Alerting
<1>2. ASSUME NEW w \in Works, Enqueue(w) PROVE Hands' /\ Tallies'
  <2>1. /\ status[w] = "none" /\ status' = [status EXCEPT ![w] = "open"]
        /\ UNCHANGED <<alerted, wakes, crashes, at, cur>>
    BY <1>2 DEF Enqueue
  <2>2. Tallies'
    BY <2>1, TalliesMoved DEF Loud
  <2>3. \A v \in Works : status[v] # "none" => status'[v] = status[v]
    BY <2>1 DEF WInv, TypeOK
  <2>4. \A q \in Procs : at[q] \in {"check", "refuse", "waking", "finish", "fail"}
                         \/ Alerting(q) => cur[q] \in Works
    BY DEF WInv, TypeOK, Alerting
  <2> QED
    BY <2>1, <2>2, <2>3, <2>4 DEF WInv, Hands, OneLoop, InHand, Alerting, Loud
<1>3. ASSUME NEW p \in Procs, Start(p) PROVE Hands' /\ Tallies'
  <2>1. \A q \in Procs : ~ Alerting(q) /\ (at'[q] # "down" => q = p)
    BY <1>3 DEF Start, Alerting, WInv, TypeOK
  <2>2. UNCHANGED <<status, alerted, wakes, crashes, cur>> /\ at'[p] = "cycle"
    BY <1>3 DEF Start, WInv, TypeOK
  <2>3. Tallies'
    BY <2>1, <2>2, TalliesKept
  <2>4. OneLoop'
    BY <2>1 DEF OneLoop
  <2> QED
    BY <2>1, <2>2, <2>3, <2>4, OnlyHand
<1>4. ASSUME NEW p \in Procs, Crash(p) PROVE Hands' /\ Tallies'
  <2>1. /\ at[p] # "down" /\ at' = [at EXCEPT ![p] = "down"] /\ "down" \in Labels
        /\ UNCHANGED <<status, alerted, wakes>> /\ crashes' = crashes + 1
        /\ \A q \in Procs \ {p} : at'[q] = at[q] /\ cur'[q] = cur[q]
    BY <1>4 DEF Crash, Labels, WInv, TypeOK
  <2>2. Silent' \subseteq Silent \cup {cur[p]}
    BY <2>1 DEF Silent, Alerting
  <2>3. Tallies'
    BY <2>1, <2>2, SilentCrash
    DEF WInv, Tallies, WokenWereClaimed, WokenAtMostOnce, ExactlyOneAlert
  <2> QED
    BY <2>1, <2>3, Alone, OnlyHand
<1>5. ASSUME NEW p \in Procs,
             Cycle(p) \/ ReapDone(p) \/ ExpireDone(p)
      PROVE  Hands' /\ Tallies'
  <2>1. PICK l \in {"reap", "expire", "claim"} : at' = [at EXCEPT ![p] = l]
    BY <1>5 DEF Cycle, ReapDone, ExpireDone, Goto
  <2>2. at[p] # "down" /\ ~ Alerting(p) /\ l \in Labels
        /\ UNCHANGED <<status, alerted, wakes, crashes, cur>>
    BY <1>5 DEF Cycle, ReapDone, ExpireDone, Alerting, Labels
  <2>3. OneLoop' /\ at'[p] = l /\ (\A q \in Procs : at'[q] # "down" => q = p)
        /\ (\A q \in Procs : at[q] # "down" => q = p)
    BY <2>1, <2>2, Alone
  <2>4. Hands'
    BY <2>3, OnlyHand
  <2>5. \A q \in Procs : ~ Alerting(q)
    BY <2>2, <2>3 DEF Alerting
  <2> QED
    BY <2>2, <2>4, <2>5, TalliesKept
<1>6. ASSUME NEW p \in Procs, NEW w \in todo[p], Reap(p, w) \/ Expire(p, w)
      PROVE  Hands' /\ Tallies'
  BY <1>6, SweepStep DEF Reap, Expire, Loud
<1>7. ASSUME NEW p \in Procs, ReapAlert(p) \/ ExpireAlert(p) \/ FailAlert(p)
      PROVE  Hands' /\ Tallies'
  <2>1. PICK l \in {"reap", "expire", "cycle"} : at' = [at EXCEPT ![p] = l]
    BY <1>7 DEF ReapAlert, ExpireAlert, FailAlert, Goto
  <2>2. at[p] # "down" /\ Alerting(p) /\ l \in Labels /\ AlertRow(p)
        /\ UNCHANGED <<status, wakes, crashes>>
    BY <1>7 DEF ReapAlert, ExpireAlert, FailAlert, Alerting, Labels
  <2>3. OneLoop' /\ at'[p] = l /\ (\A q \in Procs : at'[q] # "down" => q = p)
        /\ (\A q \in Procs : at[q] # "down" => q = p)
    BY <2>1, <2>2, Alone
  <2>4. Hands'
    BY <2>3, OnlyHand
  <2> QED
    BY <2>2, <2>3, <2>4, TalliesTold
<1>8. ASSUME NEW p \in Procs, WakeEnds(p) PROVE Hands' /\ Tallies'
  <2>1. PICK l \in {"finish", "fail"} : at' = [at EXCEPT ![p] = l]
    BY <1>8 DEF WakeEnds, Goto
  <2>2. at[p] = "waking" /\ ~ Alerting(p) /\ l \in Labels
        /\ UNCHANGED <<status, alerted, wakes, crashes, cur>>
    BY <1>8 DEF WakeEnds, Alerting, Labels
  <2>3. OneLoop' /\ at'[p] = l /\ (\A q \in Procs : at'[q] # "down" => q = p)
        /\ (\A q \in Procs : at[q] # "down" => q = p)
    BY <2>1, <2>2, Alone
  <2>4. Hands'
    BY <2>2, <2>3, OnlyHand DEF WInv, Hands, InHand
  <2>5. \A q \in Procs : ~ Alerting(q)
    BY <2>2, <2>3 DEF Alerting
  <2> QED
    BY <2>2, <2>4, <2>5, TalliesKept
<1>9. ASSUME NEW p \in Procs, Finish(p) \/ Fail(p) PROVE Hands' /\ Tallies'
  BY <1>9, SettleStep DEF Finish, Fail
<1>10. CASE Tick
  BY <1>1, <1>10 DEF Tick
<1>11. CASE UNCHANGED vars
  BY <1>1, <1>11 DEF vars
<1> QED
  BY <1>2, <1>3, <1>4, <1>5, <1>6, <1>7, <1>8, <1>9, <1>10, <1>11,
     ClaimStep, CheckStep DEF Next, Step

\* Every step keeps the invariant.
LEMMA StepWInv == WInv /\ [Next]_vars => WInv'
  BY TypeStep, SafeStep DEF WInv

\* One loop at a time, and what it has in hand is its own.
THEOREM WorklistInvariant == Spec => []WInv
  BY InitWInv, StepWInv, PTL DEF Spec

\* Type correctness of the work list.
THEOREM WorklistTypes == Spec => []TypeOK
<1>1. WInv => TypeOK
  BY DEF WInv
<1> QED
  BY <1>1, WorklistInvariant, PTL

\* Nothing is requeued: however often the loop dies with a row claimed, the
\* row is woken once, and never if the allow-list rejects it.  (sweep)
THEOREM NeverWokenTwice == Spec => []WokenAtMostOnce
<1>1. WInv => WokenAtMostOnce
  BY DEF WInv, Tallies
<1> QED
  BY <1>1, WorklistInvariant, PTL

\* A wake that overruns its lease is still the loop's own: only a second
\* dispatcher could sweep it.  (main, the lock)
THEOREM ClaimIsKept == Spec => []FinishesItsOwnClaim
<1>1. WInv => FinishesItsOwnClaim
  BY DEF WInv, Hands, InHand, FinishesItsOwnClaim
<1> QED
  BY <1>1, WorklistInvariant, PTL

\* A row that fails or expires is told of exactly once, but for one row at
\* most for each process that died.  (sweep, dispatch_once)
THEOREM OneAlertPerRow == Spec => []ExactlyOneAlert
<1>1. WInv => ExactlyOneAlert
  BY DEF WInv, Tallies
<1> QED
  BY <1>1, WorklistInvariant, PTL

=============================================================================
