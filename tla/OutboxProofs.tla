---------------------------- MODULE OutboxProofs ----------------------------
(***************************************************************************)
(* For any set of drains and channels: overlapping drains, their crashes   *)
(* and Slack's failures keep the queue in order, name what they drop, and  *)
(* duplicate an event at most once per drain and fault.                    *)
(***************************************************************************)
EXTENDS Outbox, TLAPS, FiniteSetTheorems, SequenceTheorems

USE DEF table, faults

(***************************************************************************)
(* The inductive invariant.  A drain works on rows it read some time ago;  *)
(* what it still has in hand bridges the commits.                          *)
(***************************************************************************)

\* A pass works in the order of the ids: whatever precedes a row it still has
\* in hand is in its hand as well, or settled.
InHand ==
    \A p \in Drainers : \A i \in batch[p] : \A j \in 1 .. i :
        j \in batch[p] \/ j \in posted

\* What the labels say of the row a drain is at.
KnowsOldest ==
    \A p \in Drainers : \A i \in batch[p] : Oldest(p, i) =>
        /\ at[p] = "mark" => copies[i] > 0
        /\ at[p] = "name" => i \in posted

OInv == TypeOK /\ InHand /\ KnowsOldest

\* The invariant holds at the start.
LEMMA InitOInv == Init => OInv
  BY OutboxAssumption DEF Init, OInv, TypeOK, InHand, KnowsOldest, Ids

\* What the proofs need of the types, spelt out.
LEMMA Pieces ==
    ASSUME TypeOK
    PROVE  /\ Len(rows) \in Nat
           /\ Ids = 1 .. Len(rows) /\ DOMAIN copies = Ids
           /\ \A i \in Ids : copies[i] \in Nat /\ rows[i] \in Row
           /\ \A p \in Drainers : batch[p] \subseteq Ids
  BY DEF TypeOK, Ids

\* A new row leaves the old ones as they are.
LEMMA InsertTypes ==
    ASSUME TypeOK, NEW r \in Row, Insert(r)
    PROVE  /\ rows' \in Seq(Row) /\ Len(rows') = Len(rows) + 1
           /\ copies' \in Seq(Nat) /\ Len(copies') = Len(rows')
           /\ Ids \subseteq Ids' /\ Ids' = Ids \cup {Len(rows) + 1}
           /\ \A i \in Ids : rows'[i] = rows[i] /\ copies'[i] = copies[i]
           /\ rows'[Len(rows) + 1] = r /\ copies'[Len(rows) + 1] = 0
<1>1. rows' = Append(rows, r) /\ copies' = Append(copies, 0)
  BY DEF Insert
<1>2. rows \in Seq(Row) /\ copies \in Seq(Nat) /\ Len(copies) = Len(rows)
      /\ 0 \in Nat
  BY DEF TypeOK
<1> QED
  BY <1>1, <1>2 DEF Ids

\* Every step keeps the types.
LEMMA TypeStep == OInv /\ [Next]_vars => TypeOK'
<1> SUFFICES ASSUME OInv, [Next]_vars PROVE TypeOK'
  OBVIOUS
<1> USE OutboxAssumption DEF OInv
<1>1. CASE \E c \in Channels \cup {Unrenderable} : AppendEvent(c)
  BY <1>1, InsertTypes DEF AppendEvent, Event, Row, TypeOK
<1>2. ASSUME NEW p \in Drainers, StartDrain(p) \/ Fetch(p) \/ Crash(p)
      PROVE  TypeOK'
  <2>1. CASE StartDrain(p)
    BY <2>1 DEF StartDrain, TypeOK, Ids
  <2>2. CASE Fetch(p)
    BY <2>2 DEF Fetch, TypeOK, Ids, Unposted
  <2>3. CASE Crash(p)
    BY <2>3 DEF Crash, TypeOK, Ids
  <2> QED
    BY <1>2, <2>1, <2>2, <2>3
<1>3. ASSUME NEW p \in Drainers, NEW i \in batch[p],
             Deliver(p, i) \/ Refuse(p, i) \/ Outage(p, i)
      PROVE  TypeOK'
  <2>1. CASE Deliver(p, i)
    BY <2>1, Pieces DEF Deliver, TypeOK, Ids
  <2>2. CASE Refuse(p, i)
    BY <2>2 DEF Refuse, TypeOK, Ids
  <2>3. CASE Outage(p, i)
    <3>1. copies' \in Seq(Nat) /\ Len(copies') = Len(copies)
      BY <2>3, Pieces DEF Outage, TypeOK
    <3> QED
      BY <2>3, <3>1 DEF Outage, TypeOK, Ids
  <2> QED
    BY <1>3, <2>1, <2>2, <2>3
<1>4. ASSUME NEW p \in Drainers, NEW i \in batch[p], Mark(p, i) \/ Bury(p, i)
      PROVE  TypeOK'
  <2>1. CASE Mark(p, i)
    BY <2>1 DEF Mark, Advance, TypeOK, Ids
  <2>2. CASE Bury(p, i)
    <3>1. CASE Advance(p, i)
      BY <2>2, <3>1 DEF Bury, Advance, TypeOK, Ids
    <3>2. CASE at' = [at EXCEPT ![p] = "name"] /\ UNCHANGED batch
      BY <2>2, <3>2 DEF Bury, TypeOK, Ids
    <3> QED
      BY <2>2, <3>1, <3>2 DEF Bury
  <2> QED
    BY <1>4, <2>1, <2>2
<1>5. ASSUME NEW p \in Drainers, NEW i \in batch[p], Name(p, i)
      PROVE  TypeOK'
  <2>1. ProjectionError(i) \in Row
    BY OutboxAssumption, Pieces DEF ProjectionError, Row, Ids
  <2> QED
    BY <1>5, <2>1, InsertTypes DEF Name, Advance, TypeOK
<1>6. CASE \E c \in Channels : Repair(c)
  BY <1>6 DEF Repair, TypeOK, Ids
<1>7. CASE UNCHANGED vars
  BY <1>7 DEF vars, TypeOK, Ids
<1> QED
  BY <1>1, <1>2, <1>3, <1>4, <1>5, <1>6, <1>7 DEF Next, DrainStep

\* At most one row of a pass is its oldest.
LEMMA OneOldest ==
    ASSUME TypeOK, NEW p \in Drainers, NEW i \in batch[p], NEW j \in batch[p],
           Oldest(p, i), Oldest(p, j)
    PROVE  i = j
  BY Pieces DEF Oldest, Ids

\* Going on to the next row leaves behind a row that is settled by then.
LEMMA AdvanceInv ==
    ASSUME OInv, NEW p \in Drainers, NEW i \in batch[p], Oldest(p, i),
           Advance(p, i), i \in posted', posted \subseteq posted',
           Ids \subseteq Ids', \A j \in Ids : copies'[j] = copies[j]
    PROVE  InHand' /\ KnowsOldest'
<1>1. /\ batch' = [batch EXCEPT ![p] = @ \ {i}]
      /\ at'[p] \in {"fetch", "post"}
      /\ \A q \in Drainers \ {p} : at'[q] = at[q] /\ batch'[q] = batch[q]
      /\ batch'[p] = batch[p] \ {i}
  BY DEF Advance, OInv, TypeOK
<1>2. InHand'
  BY <1>1 DEF InHand, OInv
<1>3. ASSUME NEW q \in Drainers, NEW j \in batch'[q], Oldest(q, j)'
      PROVE  /\ at'[q] = "mark" => copies'[j] > 0
             /\ at'[q] = "name" => j \in posted'
  <2>1. CASE q = p
    BY <1>1, <2>1
  <2>2. CASE q # p
    <3>1. batch'[q] = batch[q] /\ at'[q] = at[q] /\ j \in Ids
      BY <1>1, <2>2, Pieces DEF OInv
    <3> QED
      BY <1>3, <3>1 DEF OInv, KnowsOldest, Oldest
  <2> QED
    BY <2>1, <2>2
<1> QED
  BY <1>2, <1>3 DEF KnowsOldest

\* Every step keeps the invariant.
LEMMA StepOInv == OInv /\ [Next]_vars => OInv'
<1> SUFFICES ASSUME OInv, [Next]_vars PROVE InHand' /\ KnowsOldest'
  BY TypeStep DEF OInv
<1> USE DEF OInv
<1>1. CASE \E c \in Channels \cup {Unrenderable} : AppendEvent(c)
  <2>1. PICK c \in Channels \cup {Unrenderable} : AppendEvent(c)
    BY <1>1
  <2>2. Event(c) \in Row /\ Insert(Event(c))
        /\ UNCHANGED <<posted, gone, at, batch, faults>>
    BY <2>1 DEF AppendEvent, Event, Row
  <2>3. \A i \in Ids : copies'[i] = copies[i]
    BY <2>2, InsertTypes
  <2> QED
    BY <2>2, <2>3, Pieces DEF InHand, KnowsOldest, Oldest
<1>2. ASSUME NEW p \in Drainers, StartDrain(p) \/ Fetch(p) \/ Crash(p)
      PROVE  InHand' /\ KnowsOldest'
  <2>1. CASE StartDrain(p)
    BY <2>1 DEF StartDrain, TypeOK, InHand, KnowsOldest, Oldest
  <2>2. CASE Fetch(p)
    <3>1. InHand'
      BY <2>2, Pieces DEF Fetch, TypeOK, InHand, Unposted, Ids
    <3> QED
      BY <2>2, <3>1 DEF Fetch, TypeOK, KnowsOldest, Oldest
  <2>3. CASE Crash(p)
    BY <2>3 DEF Crash, TypeOK, InHand, KnowsOldest, Oldest
  <2> QED
    BY <1>2, <2>1, <2>2, <2>3
<1>3. ASSUME NEW p \in Drainers, NEW i \in batch[p],
             Deliver(p, i) \/ Refuse(p, i) \/ Outage(p, i)
      PROVE  InHand' /\ KnowsOldest'
  <2>1. CASE Deliver(p, i)
    <3>1. /\ copies'[i] > 0
          /\ \A j \in Ids : copies'[j] >= copies[j]
      BY <2>1, Pieces DEF Deliver
    <3>2. \A j \in batch[p] : Oldest(p, j) => j = i
      BY <2>1, OneOldest DEF Deliver
    <3>3. /\ UNCHANGED <<batch, posted>> /\ at'[p] = "mark"
          /\ \A q \in Drainers \ {p} : at'[q] = at[q]
          /\ \A q \in Drainers : \A j \in batch[q] : j \in Ids
      BY <2>1, Pieces DEF Deliver, TypeOK
    <3>4. InHand'
      BY <3>3 DEF InHand
    <3>5. \A j \in Ids : copies[j] > 0 => copies'[j] > 0
      BY <3>1, Pieces, <2>1 DEF Deliver
    <3> QED
      BY <3>1, <3>2, <3>3, <3>4, <3>5 DEF KnowsOldest, Oldest
  <2>2. CASE Refuse(p, i)
    BY <2>2 DEF Refuse, TypeOK, InHand, KnowsOldest, Oldest
  <2>3. CASE Outage(p, i)
    <3>1. \A j \in Ids : copies'[j] >= copies[j]
      <4>1. CASE copies' = copies
        BY <4>1, Pieces
      <4>2. CASE copies' = [copies EXCEPT ![i] = @ + 1]
        BY <4>2, Pieces
      <4> QED
        BY <2>3, <4>1, <4>2 DEF Outage
    <3>2. /\ UNCHANGED posted /\ batch'[p] = {}
          /\ \A q \in Drainers \ {p} : at'[q] = at[q] /\ batch'[q] = batch[q]
          /\ \A q \in Drainers : \A j \in batch[q] : j \in Ids
      BY <2>3, Pieces DEF Outage, TypeOK
    <3>3. \A j \in Ids : copies[j] > 0 => copies'[j] > 0
      BY <2>3, Pieces DEF Outage
    <3> QED
      BY <3>2, <3>3 DEF InHand, KnowsOldest, Oldest
  <2> QED
    BY <1>3, <2>1, <2>2, <2>3
<1>4. ASSUME NEW p \in Drainers, NEW i \in batch[p], Mark(p, i)
      PROVE  InHand' /\ KnowsOldest'
  BY <1>4, AdvanceInv DEF Mark, Ids
<1>5. ASSUME NEW p \in Drainers, NEW i \in batch[p], Bury(p, i)
      PROVE  InHand' /\ KnowsOldest'
  <2>1. CASE rows[i].about # 0
    BY <1>5, <2>1, AdvanceInv DEF Bury, Ids
  <2>2. CASE rows[i].about = 0
    <3>1. /\ UNCHANGED <<batch, copies>> /\ posted' = posted \cup {i}
          /\ at'[p] = "name" /\ \A q \in Drainers \ {p} : at'[q] = at[q]
      BY <1>5, <2>2 DEF Bury, TypeOK
    <3>2. \A j \in batch[p] : Oldest(p, j) => j = i
      BY <1>5, OneOldest DEF Bury
    <3> QED
      BY <3>1, <3>2 DEF InHand, KnowsOldest, Oldest
  <2> QED
    BY <2>1, <2>2
<1>6. ASSUME NEW p \in Drainers, NEW i \in batch[p], Name(p, i)
      PROVE  InHand' /\ KnowsOldest'
  <2>1. ProjectionError(i) \in Row
    BY OutboxAssumption, Pieces DEF ProjectionError, Row, Ids
  <2>2. i \in posted
    BY <1>6 DEF Name, KnowsOldest
  <2>3. Insert(ProjectionError(i)) /\ Advance(p, i) /\ Oldest(p, i)
        /\ UNCHANGED <<posted, gone, faults>>
    BY <1>6 DEF Name
  <2>4. Ids \subseteq Ids' /\ \A j \in Ids : copies'[j] = copies[j]
    BY <2>1, <2>3, InsertTypes
  <2> QED
    BY <2>2, <2>3, <2>4, AdvanceInv
<1>7. CASE \E c \in Channels : Repair(c)
  BY <1>7 DEF Repair, InHand, KnowsOldest, Oldest
<1>8. CASE UNCHANGED vars
  BY <1>8 DEF vars, InHand, KnowsOldest, Oldest
<1> QED
  BY <1>1, <1>2, <1>3, <1>4, <1>5, <1>6, <1>7, <1>8 DEF Next, DrainStep

\* What a pass has left behind is settled, in every reachable state.
THEOREM OutboxInvariant == Spec => []OInv
  BY InitOInv, StepOInv, PTL DEF Spec

\* Type correctness of the outbox.
THEOREM OutboxTypes == Spec => []TypeOK
<1>1. OInv => TypeOK
  BY DEF OInv
<1> QED
  BY <1>1, OutboxInvariant, PTL

(***************************************************************************)
(* The refinement: every step of the drains settles the oldest open event, *)
(* queues one, mends one that was abandoned, or leaves all fates alone.    *)
(***************************************************************************)

\* The fates are a sequence over the ids.
LEMMA FateIsSequence ==
    ASSUME TypeOK
    PROVE  /\ Fate \in Seq({"queued", "delivered", "abandoned"})
           /\ Len(Fate) = Len(rows) /\ DOMAIN Fate = Ids
<1>1. Ids = 1 .. Len(rows) /\ Len(rows) \in Nat
  BY Pieces
<1>2. Fate \in [1 .. Len(rows) -> {"queued", "delivered", "abandoned"}]
  BY <1>1 DEF Fate
<1> QED
  BY <1>1, <1>2

\* The oldest row of a pass is the oldest one open.
LEMMA PostIsInTurn ==
    ASSUME OInv, NEW p \in Drainers, NEW i \in batch[p], Oldest(p, i),
           Fate[i] = "queued",
           NEW f \in {"delivered", "abandoned"},
           Fate' = [Fate EXCEPT ![i] = f]
    PROVE  Delivery!Next
<1>1. i \in Ids /\ i \in DOMAIN Fate
  BY FateIsSequence, Pieces DEF OInv
<1>2. \A j \in 1 .. i - 1 : Fate[j] # "queued"
  <2>1. ASSUME NEW j \in 1 .. i - 1 PROVE Fate[j] # "queued"
    <3>1. j \in 1 .. i /\ j \in Ids /\ ~ (i <= j)
      BY <1>1, Pieces DEF OInv
    <3>2. j \in posted
      BY <3>1 DEF OInv, InHand, Oldest
    <3> QED
      BY <3>1, <3>2 DEF Fate
  <2> QED
    BY <2>1
<1>3. Delivery!Settle(i)
  BY <1>2 DEF Delivery!Settle
<1> QED
  BY <1>1, <1>3 DEF Delivery!Next

\* A new event is queued behind the others.
LEMMA InsertQueues ==
    ASSUME OInv, NEW r \in Row, Insert(r), UNCHANGED posted
    PROVE  Delivery!Next
<1>1. /\ Len(rows') = Len(rows) + 1
      /\ \A i \in Ids : copies'[i] = copies[i]
      /\ copies'[Len(rows) + 1] = 0
      /\ Len(rows) \in Nat /\ Ids = 1 .. Len(rows)
      /\ posted \subseteq Ids
  BY InsertTypes, Pieces DEF OInv, TypeOK
<1>2. Ids' = 1 .. (Len(rows) + 1) /\ Len(rows) + 1 \notin posted
  BY <1>1 DEF Ids
<1>3. /\ Fate \in Seq({"queued", "delivered", "abandoned"})
      /\ Len(Fate) = Len(rows)
  BY FateIsSequence DEF OInv
<1>4. /\ Fate' \in Seq({"queued", "delivered", "abandoned"})
      /\ Len(Fate') = Len(rows) + 1 /\ Fate'[Len(rows) + 1] = "queued"
      /\ \A i \in 1 .. Len(rows) : Fate'[i] = Fate[i]
  <2>1. Fate' \in [1 .. Len(rows) + 1 -> {"queued", "delivered", "abandoned"}]
    BY <1>2 DEF Fate
  <2>2. /\ Fate'[Len(rows) + 1] = "queued"
        /\ \A i \in 1 .. Len(rows) : Fate'[i] = Fate[i]
    BY <1>1, <1>2 DEF Fate
  <2> QED
    BY <1>1, <2>1, <2>2
<1>5. Fate' = Append(Fate, "queued")
  <2> DEFINE S == {"queued", "delivered", "abandoned"}
  <2>1. /\ Append(Fate, "queued") \in Seq(S)
        /\ Len(Append(Fate, "queued")) = Len(Fate) + 1
        /\ \A i \in 1 .. Len(Fate) : Append(Fate, "queued")[i] = Fate[i]
        /\ Append(Fate, "queued")[Len(Fate) + 1] = "queued"
    BY <1>3, AppendProperties
  <2>2. \A i \in 1 .. Len(Fate') : Fate'[i] = Append(Fate, "queued")[i]
    BY <1>1, <1>3, <1>4, <2>1
  <2>3. Fate' \in Seq(S) /\ Len(Fate') = Len(Append(Fate, "queued"))
    BY <1>3, <1>4, <2>1
  <2> HIDE DEF S
  <2> QED
    BY <2>1, <2>2, <2>3, SeqEqual
<1>6. Delivery!Queue
  BY <1>5 DEF Delivery!Queue
<1> QED
  BY <1>6 DEF Delivery!Next

\* One event's fate is set, the others keep theirs.
LEMMA OneFate ==
    ASSUME OInv, NEW i \in Ids, UNCHANGED rows,
           \A j \in Ids \ {i} : copies'[j] = copies[j]
                                /\ (j \in posted' <=> j \in posted)
    PROVE  Fate' = [Fate EXCEPT ![i] = Fate'[i]]
  BY DEF Fate, Ids

\* A post that Slack accepts settles its event, mends it or repeats it.
LEMMA PostSettles ==
    ASSUME OInv, NEW p \in Drainers, NEW i \in batch[p], Oldest(p, i),
           UNCHANGED <<rows, posted>>, copies' = [copies EXCEPT ![i] = @ + 1]
    PROVE  [Delivery!Next]_Fate
<1>1. i \in Ids /\ copies[i] \in Nat /\ Ids' = Ids /\ i \in DOMAIN copies
  BY Pieces DEF OInv, Ids
<1>2. /\ copies'[i] > 0 /\ \A j \in Ids \ {i} : copies'[j] = copies[j]
  BY <1>1, Pieces DEF OInv
<1>3. Fate'[i] = "delivered"
  BY <1>1, <1>2 DEF Fate
<1>4. Fate' = [Fate EXCEPT ![i] = "delivered"]
  BY <1>1, <1>2, <1>3, OneFate
<1>5. Fate[i] \in {"queued", "delivered", "abandoned"}
  BY <1>1 DEF Fate
<1>6. CASE Fate[i] = "queued"
  BY <1>4, <1>6, PostIsInTurn
<1>7. CASE Fate[i] = "abandoned"
  <2>1. Delivery!DeliverLate(i)
    BY <1>4, <1>7 DEF Delivery!DeliverLate
  <2>2. i \in DOMAIN Fate
    BY <1>1, FateIsSequence DEF OInv
  <2> QED
    BY <2>1, <2>2 DEF Delivery!Next
<1>8. CASE Fate[i] = "delivered"
  <2>1. Fate' = Fate
    BY <1>4, <1>8, <1>1, FateIsSequence DEF OInv
  <2> QED
    BY <2>1
<1> QED
  BY <1>5, <1>6, <1>7, <1>8

\* Marking a row that Slack has, or that is marked, tells nothing new; any
\* other is abandoned, in its turn.
LEMMA MarkSettles ==
    ASSUME OInv, NEW p \in Drainers, NEW i \in batch[p], Oldest(p, i),
           UNCHANGED <<rows, copies>>, posted' = posted \cup {i}
    PROVE  [Delivery!Next]_Fate
<1>1. i \in Ids /\ copies[i] \in Nat /\ Ids' = Ids
  BY Pieces DEF OInv, Ids
<1>2. Fate' = [Fate EXCEPT ![i] = Fate'[i]]
  BY <1>1, OneFate
<1>3. CASE Fate[i] = "queued"
  <2>1. Fate'[i] = "abandoned"
    BY <1>1, <1>3 DEF Fate
  <2> QED
    BY <1>2, <1>3, <2>1, PostIsInTurn
<1>4. CASE Fate[i] # "queued"
  <2>1. Fate'[i] = Fate[i]
    BY <1>1, <1>4 DEF Fate
  <2>2. Fate' = Fate
    <3>1. Fate \in [Ids -> {"queued", "delivered", "abandoned"}]
      BY DEF Fate
    <3> QED
      BY <1>1, <1>2, <2>1, <3>1
  <2> QED
    BY <2>2
<1> QED
  BY <1>3, <1>4

\* The outbox starts as ordered delivery does.
LEMMA InitRefines == Init => Delivery!Init
  BY DEF Init, Delivery!Init, Fate, Ids

\* Every step of a drain settles the oldest row, or stutters there.
LEMMA StepRefines == OInv /\ [Next]_vars => [Delivery!Next]_Fate
<1> SUFFICES ASSUME OInv, [Next]_vars PROVE [Delivery!Next]_Fate
  OBVIOUS
<1>1. CASE \E c \in Channels \cup {Unrenderable} : AppendEvent(c)
  <2>1. PICK c \in Channels \cup {Unrenderable} : AppendEvent(c)
    BY <1>1
  <2>2. Event(c) \in Row /\ Insert(Event(c)) /\ UNCHANGED posted
    BY <2>1 DEF AppendEvent, Event, Row
  <2> QED
    BY <2>2, InsertQueues
<1>2. ASSUME UNCHANGED <<table, copies>> PROVE [Delivery!Next]_Fate
  BY <1>2 DEF Fate, Ids
<1>3. ASSUME NEW p \in Drainers, StartDrain(p) \/ Fetch(p) \/ Crash(p)
      PROVE  [Delivery!Next]_Fate
  BY <1>3, <1>2 DEF StartDrain, Fetch, Crash
<1>4. ASSUME NEW p \in Drainers, NEW i \in batch[p],
             Deliver(p, i) \/ Refuse(p, i) \/ Outage(p, i)
      PROVE  [Delivery!Next]_Fate
  BY <1>4, <1>2, PostSettles DEF Deliver, Refuse, Outage
<1>5. ASSUME NEW p \in Drainers, NEW i \in batch[p],
             Mark(p, i) \/ Bury(p, i)
      PROVE  [Delivery!Next]_Fate
  BY <1>5, MarkSettles DEF Mark, Bury
<1>6. ASSUME NEW p \in Drainers, NEW i \in batch[p], Name(p, i)
      PROVE  [Delivery!Next]_Fate
  <2>1. ProjectionError(i) \in Row
    BY OutboxAssumption, Pieces DEF ProjectionError, Row, Ids, OInv
  <2> QED
    BY <1>6, <2>1, InsertQueues DEF Name
<1>7. CASE \E c \in Channels : Repair(c)
  BY <1>7, <1>2 DEF Repair
<1>8. CASE UNCHANGED vars
  BY <1>8, <1>2 DEF vars
<1> QED
  BY <1>1, <1>3, <1>4, <1>5, <1>6, <1>7, <1>8 DEF Next, DrainStep

\* Overlapping drains, their crashes and Slack's failures settle the events
\* in the order they were queued and never take a delivery back.  (drain)
THEOREM ImplementsOrderedDelivery == Spec => InOrder
  BY InitRefines, StepRefines, OutboxInvariant, PTL
  DEF Spec, InOrder, Delivery!Spec

(***************************************************************************)
(* Nothing is dropped in silence.                                          *)
(***************************************************************************)

\* A row that is named stays named.
LEMMA NamedStays ==
    ASSUME TypeOK, NEW r \in Row, Insert(r), NEW i, Named(i)
    PROVE  Named(i)'
  BY InsertTypes DEF Named

\* Of a step that adds no row: a lost row was lost before or is settled now,
\* and the drain about to name one still is, unless it is the one that moved.
LEMMA LossesKept ==
    ASSUME OInv, UNCHANGED <<rows, posted>>,
           \A j \in Ids : copies'[j] >= copies[j],
           \A p \in Drainers : at[p] = "name" =>
               at'[p] = at[p] /\ batch'[p] = batch[p]
    PROVE  Unnamed' \subseteq Unnamed
<1> SUFFICES ASSUME NEW i \in Unnamed' PROVE i \in Unnamed
  OBVIOUS
<1>1. i \in Lost
  BY Pieces DEF Unnamed, Lost, OInv, TypeOK
<1> QED
  BY <1>1 DEF Unnamed, Named, Ids, Oldest

\* A process that dies takes at most the name of the row in its hand.
LEMMA CrashLosesOne ==
    ASSUME OInv, NEW p \in Drainers, Crash(p)
    PROVE  \E i : Unnamed' \subseteq Unnamed \cup {i}
<1>1. /\ UNCHANGED <<rows, posted, copies>>
      /\ \A q \in Drainers \ {p} : at'[q] = at[q] /\ batch'[q] = batch[q]
  BY DEF Crash, OInv, TypeOK
<1>2. ASSUME NEW i \in Unnamed', ~ Oldest(p, i) PROVE i \in Unnamed
  <2>1. i \in Lost /\ ~ Named(i)
    BY <1>1, <1>2 DEF Unnamed, Lost, Named, Ids
  <2>2. \A q \in Drainers : ~ (at[q] = "name" /\ Oldest(q, i))
    BY <1>1, <1>2 DEF Unnamed, Oldest
  <2> QED
    BY <2>1, <2>2 DEF Unnamed
<1>3. CASE \E i : Oldest(p, i)
  <2>1. PICK i : Oldest(p, i)
    BY <1>3
  <2>2. \A j : Oldest(p, j) => j = i
    BY <2>1, OneOldest DEF Oldest, OInv
  <2> QED
    BY <1>2, <2>2
<1>4. CASE ~ \E i : Oldest(p, i)
  BY <1>2, <1>4
<1> QED
  BY <1>3, <1>4

\* No other step drops an event that nothing names or will name.
LEMMA StepLosesNone ==
    ASSUME OInv, [Next]_vars, ~ \E p \in Drainers : Crash(p)
    PROVE  Unnamed' \subseteq Unnamed
<1> USE DEF OInv
<1>1. CASE \E c \in Channels \cup {Unrenderable} : AppendEvent(c)
  <2>1. PICK c \in Channels \cup {Unrenderable} : AppendEvent(c)
    BY <1>1
  <2>2. /\ Event(c) \in Row /\ Insert(Event(c))
        /\ UNCHANGED <<posted, at, batch, crashes>>
    BY <2>1 DEF AppendEvent, Event, Row
  <2>3. Lost' \subseteq Lost
    BY <2>2, InsertTypes DEF Lost, TypeOK
  <2> QED
    BY <2>2, <2>3, NamedStays DEF Unnamed, Oldest
<1>2. ASSUME NEW p \in Drainers, StartDrain(p) \/ Fetch(p)
      PROVE  Unnamed' \subseteq Unnamed
  BY <1>2, Pieces, LossesKept DEF StartDrain, Fetch, TypeOK
<1>3. ASSUME NEW p \in Drainers, NEW i \in batch[p],
             Deliver(p, i) \/ Refuse(p, i) \/ Outage(p, i)
      PROVE  Unnamed' \subseteq Unnamed
  <2>1. \A j \in Ids : copies'[j] >= copies[j]
    <3>1. CASE copies' = copies
      BY <3>1, Pieces
    <3>2. CASE copies' = [copies EXCEPT ![i] = @ + 1]
      BY <3>2, Pieces
    <3> QED
      BY <1>3, <3>1, <3>2 DEF Deliver, Refuse, Outage
  <2>2. /\ UNCHANGED <<rows, posted, crashes>> /\ at[p] = "post"
        /\ \A q \in Drainers \ {p} : at'[q] = at[q] /\ batch'[q] = batch[q]
    BY <1>3 DEF Deliver, Refuse, Outage, TypeOK
  <2> QED
    BY <2>1, <2>2, LossesKept
<1>4. ASSUME NEW p \in Drainers, NEW i \in batch[p], Mark(p, i) \/ Bury(p, i)
      PROVE  Unnamed' \subseteq Unnamed
  <2>1. /\ posted' = posted \cup {i} /\ UNCHANGED <<rows, copies, crashes>>
        /\ at[p] # "name" /\ Oldest(p, i)
        /\ \A q \in Drainers \ {p} : at'[q] = at[q] /\ batch'[q] = batch[q]
    BY <1>4 DEF Mark, Bury, Advance, TypeOK
  <2>2. ASSUME i \in Lost'
        PROVE  at'[p] = "name" /\ Oldest(p, i)'
    <3>1. copies[i] = 0 /\ rows[i].about = 0
      BY <2>1, <2>2 DEF Lost
    <3>2. ~ Mark(p, i)
      BY <3>1, Pieces DEF Mark, KnowsOldest
    <3> QED
      BY <1>4, <3>1, <3>2 DEF Bury, Oldest, TypeOK
  <2>3. ASSUME NEW j \in Unnamed' PROVE j \in Unnamed
    <3>1. j \in Lost' /\ j # i
      BY <2>2, <2>3 DEF Unnamed
    <3>2. j \in Lost /\ ~ Named(j)
      BY <2>1, <2>3, <3>1 DEF Unnamed, Lost, Named, Ids
    <3>3. \A q \in Drainers : ~ (at[q] = "name" /\ Oldest(q, j))
      BY <2>1, <2>3 DEF Unnamed, Oldest
    <3> QED
      BY <3>2, <3>3 DEF Unnamed
  <2> QED
    BY <2>3
<1>5. ASSUME NEW p \in Drainers, NEW i \in batch[p], Name(p, i)
      PROVE  Unnamed' \subseteq Unnamed
  <2>1. ProjectionError(i) \in Row
    BY OutboxAssumption, Pieces DEF ProjectionError, Row, Ids
  <2>2. /\ Insert(ProjectionError(i)) /\ Oldest(p, i)
        /\ UNCHANGED <<posted, crashes>>
        /\ \A q \in Drainers \ {p} : at'[q] = at[q] /\ batch'[q] = batch[q]
    BY <1>5 DEF Name, Advance, TypeOK
  <2>3. Lost' \subseteq Lost
    BY <2>1, <2>2, InsertTypes DEF Lost, TypeOK
  <2>4. Named(i)'
    <3>1. /\ Len(rows) + 1 \in Ids'
          /\ rows'[Len(rows) + 1] = ProjectionError(i)
      BY <2>1, <2>2, InsertTypes, Pieces
    <3> QED
      BY <3>1 DEF Named, ProjectionError
  <2>5. ASSUME NEW j \in Unnamed' PROVE j \in Unnamed
    <3>1. j \in Lost' /\ ~ Named(j)' /\ j # i
      BY <2>4, <2>5 DEF Unnamed
    <3>2. j \in Lost /\ ~ Named(j)
      BY <2>1, <2>2, <2>3, <3>1, NamedStays
    <3>3. ASSUME NEW q \in Drainers, at[q] = "name", Oldest(q, j)
          PROVE  FALSE
      <4>1. q # p
        BY <2>2, <3>1, <3>3, OneOldest DEF Oldest
      <4> QED
        BY <2>2, <2>5, <3>3, <4>1 DEF Unnamed, Oldest
    <3> QED
      BY <3>2, <3>3 DEF Unnamed
  <2> QED
    BY <2>5
<1>6. CASE \E c \in Channels : Repair(c)
  BY <1>6, Pieces, LossesKept DEF Repair
<1>7. CASE UNCHANGED vars
  BY <1>7, Pieces, LossesKept DEF vars
<1> QED
  BY <1>1, <1>2, <1>3, <1>4, <1>5, <1>6, <1>7 DEF Next, DrainStep

\* So the rows nothing will name are paid for by the processes that died.
LEMMA StepNothingLost == OInv /\ NothingLost /\ [Next]_vars => NothingLost'
<1> SUFFICES ASSUME OInv, NothingLost, [Next]_vars PROVE NothingLost'
  OBVIOUS
<1>1. /\ Unnamed \subseteq Ids /\ IsFiniteSet(Ids)
      /\ crashes \in Nat
  <2>1. Unnamed \subseteq Ids /\ Len(rows) \in Nat /\ crashes \in Nat
    BY DEF Unnamed, Lost, OInv, TypeOK
  <2> QED
    BY <2>1, FS_Interval DEF Ids
<1>2. IsFiniteSet(Unnamed) /\ Cardinality(Unnamed) \in Nat
  BY <1>1, FS_Subset, FS_CardinalityType
<1>3. Cardinality(Unnamed)' = Cardinality(Unnamed')
  OBVIOUS
<1> HIDE DEF Unnamed
<1>4. CASE \E p \in Drainers : Crash(p)
  <2>1. PICK i : Unnamed' \subseteq Unnamed \cup {i}
    BY <1>4, CrashLosesOne
  <2> DEFINE G == Unnamed \cup {i}
  <2>2. /\ IsFiniteSet(G) /\ Cardinality(G) \in Nat
        /\ Cardinality(G) <= Cardinality(Unnamed) + 1
    BY <1>2, FS_AddElement, FS_CardinalityType
  <2>3. Unnamed' \subseteq G
    BY <2>1
  <2> HIDE DEF G
  <2>4. Cardinality(Unnamed') \in Nat /\ Cardinality(Unnamed') <= Cardinality(G)
    BY <2>2, <2>3, FS_Subset, FS_CardinalityType
  <2>5. crashes' = crashes + 1
    BY <1>4 DEF Crash
  <2> QED
    BY <1>1, <1>2, <1>3, <2>2, <2>4, <2>5 DEF NothingLost
<1>5. CASE ~ \E p \in Drainers : Crash(p)
  <2>1. Unnamed' \subseteq Unnamed
    BY <1>5, StepLosesNone
  <2>2. Cardinality(Unnamed') \in Nat
        /\ Cardinality(Unnamed') <= Cardinality(Unnamed)
    BY <1>2, <2>1, FS_Subset, FS_CardinalityType
  <2>3. crashes' = crashes
    BY <1>5
    DEF Next, DrainStep, AppendEvent, StartDrain, Fetch, Deliver, Refuse,
        Outage, Mark, Bury, Name, Repair, vars, faults
  <2> QED
    BY <1>1, <1>2, <1>3, <2>2, <2>3 DEF NothingLost
<1> QED
  BY <1>4, <1>5

\* An event Slack never got is named by a projection_error or is about to
\* be, save one for each process that died.  (_dead_letter)
THEOREM NothingIsLost == Spec => []NothingLost
<1>1. ASSUME Init PROVE NothingLost
  <2>1. Unnamed = {}
    BY <1>1 DEF Init, Unnamed, Lost
  <2> QED
    BY <1>1, <2>1, FS_EmptySet DEF Init, NothingLost
<1> QED
  BY <1>1, StepNothingLost, OutboxInvariant, PTL DEF Spec

(***************************************************************************)
(* How often Slack gets an event: every copy is charged to a fault or to a *)
(* drain, and a drain is charged only once, because after its post it      *)
(* leaves the row behind and never reads it again.                         *)
(***************************************************************************)

\* The drains that have posted row i and not marked it yet.
Answered(i) == {p \in Drainers : at[p] = "mark" /\ Oldest(p, i)}

\* The drains that may still post row i in the pass they are in.
Outstanding(i) ==
    {p \in Drainers : i \in batch[p] /\ ~ (at[p] = "mark" /\ Oldest(p, i))}

\* An open row is charged to the drains at its mark; a settled one is never
\* read again, so those that still have it are all that is to come.
Charged(i) ==
    IF i \in posted
    THEN copies[i] + Cardinality(Outstanding(i))
             <= crashes + outages + Cardinality(Drainers)
    ELSE copies[i] <= crashes + outages + Cardinality(Answered(i))

AllCharged == \A i \in Ids : Charged(i)

\* The counts of sets of drainers.
LEMMA DrainCounts ==
    ASSUME NEW S \in SUBSET Drainers
    PROVE  /\ IsFiniteSet(S) /\ Cardinality(S) \in Nat
           /\ Cardinality(Drainers) \in Nat
           /\ Cardinality(S) <= Cardinality(Drainers)
           /\ \A T \in SUBSET S : Cardinality(T) \in Nat
                                  /\ Cardinality(T) <= Cardinality(S)
           /\ \A p \in S : Cardinality(S \ {p}) = Cardinality(S) - 1
           /\ \A p \in Drainers \ S :
                  Cardinality(S \cup {p}) = Cardinality(S) + 1
<1>1. IsFiniteSet(Drainers)
  BY OutboxAssumption
<1>2. IsFiniteSet(S) /\ Cardinality(S) <= Cardinality(Drainers)
  BY <1>1, FS_Subset
<1>3. Cardinality(S) \in Nat /\ Cardinality(Drainers) \in Nat
  BY <1>1, <1>2, FS_CardinalityType
<1>4. ASSUME NEW T \in SUBSET S
      PROVE  Cardinality(T) \in Nat /\ Cardinality(T) <= Cardinality(S)
  BY <1>2, FS_Subset, FS_CardinalityType
<1>5. ASSUME NEW p \in S
      PROVE  Cardinality(S \ {p}) = Cardinality(S) - 1
  BY <1>2, FS_RemoveElement
<1>6. ASSUME NEW p \in Drainers \ S
      PROVE  Cardinality(S \cup {p}) = Cardinality(S) + 1
  BY <1>2, FS_AddElement
<1> QED
  BY <1>2, <1>3, <1>4, <1>5, <1>6

\* The drains that have posted a row and those that may are different ones.
LEMMA TwoGroups ==
    ASSUME NEW i
    PROVE  /\ Cardinality(Answered(i)) \in Nat
           /\ Cardinality(Outstanding(i)) \in Nat
           /\ Cardinality(Answered(i)) + Cardinality(Outstanding(i))
                  <= Cardinality(Drainers)
<1> DEFINE A == Answered(i)
           O == Outstanding(i)
<1>1. A \subseteq Drainers /\ O \subseteq Drainers /\ A \cap O = {}
  BY DEF Answered, Outstanding
<1>2. /\ IsFiniteSet(A) /\ IsFiniteSet(O) /\ Cardinality(A) \in Nat
      /\ Cardinality(O) \in Nat
      /\ Cardinality(A \cup O) <= Cardinality(Drainers)
  <2>1. IsFiniteSet(A) /\ Cardinality(A) \in Nat
    BY <1>1, DrainCounts
  <2>2. IsFiniteSet(O) /\ Cardinality(O) \in Nat
    BY <1>1, DrainCounts
  <2>3. Cardinality(A \cup O) <= Cardinality(Drainers)
    <3>1. A \cup O \in SUBSET Drainers
      BY <1>1
    <3> HIDE DEF A, O
    <3> QED
      BY <3>1, DrainCounts
  <2> QED
    BY <2>1, <2>2, <2>3
<1>3. Cardinality(A \cup O) = Cardinality(A) + Cardinality(O)
  <2> HIDE DEF A, O
  <2> QED
    BY <1>1, <1>2, FS_Union, FS_EmptySet
<1> QED
  BY <1>2, <1>3

\* The sums of a charge, when the faults grow and the drains do not.
LEMMA SettledSum ==
    ASSUME NEW n \in Nat, NEW x \in Nat, NEW y \in Nat, NEW k \in Nat,
           NEW c \in Nat, NEW o \in Nat, NEW c2 \in Nat, NEW o2 \in Nat,
           n + x <= c + o + k, y <= x, c2 + o2 >= c + o
    PROVE  n + y <= c2 + o2 + k
  OBVIOUS

\* The same of a row that is not settled yet.
LEMMA UnsettledSum ==
    ASSUME NEW n \in Nat, NEW x \in Nat, NEW y \in Nat,
           NEW c \in Nat, NEW o \in Nat, NEW c2 \in Nat, NEW o2 \in Nat,
           n <= c + o + x, x <= y, c2 + o2 >= c + o
    PROVE  n <= c2 + o2 + y
  OBVIOUS

\* A step that posts nothing of row i, settles nothing and only takes drains
\* out of what is to come.
LEMMA ChargedKept ==
    ASSUME TypeOK, NEW i \in Ids, Charged(i), copies'[i] = copies[i],
           i \in posted' <=> i \in posted,
           crashes' + outages' >= crashes + outages,
           crashes' \in Nat, outages' \in Nat,
           i \notin posted => Answered(i) \subseteq Answered(i)',
           i \in posted => Outstanding(i)' \subseteq Outstanding(i)
    PROVE  Charged(i)'
<1>1. copies[i] \in Nat /\ crashes \in Nat /\ outages \in Nat
  BY Pieces DEF TypeOK
<1>2. /\ Answered(i)' \subseteq Drainers /\ Outstanding(i) \subseteq Drainers
      /\ Answered(i) \subseteq Drainers /\ Outstanding(i)' \subseteq Drainers
  BY DEF Answered, Outstanding
<1>3. CASE i \in posted
  <2>1. /\ Cardinality(Outstanding(i)') <= Cardinality(Outstanding(i))
        /\ Cardinality(Outstanding(i)') \in Nat
        /\ Cardinality(Outstanding(i)) \in Nat /\ Cardinality(Drainers) \in Nat
    BY <1>2, <1>3, DrainCounts
  <2>2. copies[i] + Cardinality(Outstanding(i))
            <= crashes + outages + Cardinality(Drainers)
    BY <1>3 DEF Charged
  <2>3. copies[i] + Cardinality(Outstanding(i)')
            <= crashes' + outages' + Cardinality(Drainers)
    BY ZenonT(30), <1>1, <2>1, <2>2, SettledSum
  <2> QED
    BY <1>3, <2>3 DEF Charged
<1>4. CASE i \notin posted
  <2>1. /\ Cardinality(Answered(i)) <= Cardinality(Answered(i)')
        /\ Cardinality(Answered(i)') \in Nat /\ Cardinality(Answered(i)) \in Nat
    BY <1>2, <1>4, DrainCounts
  <2>2. copies[i] <= crashes + outages + Cardinality(Answered(i))
    BY <1>4 DEF Charged
  <2>3. copies[i] <= crashes' + outages' + Cardinality(Answered(i)')
    BY ZenonT(30), <1>1, <2>1, <2>2, UnsettledSum
  <2> QED
    BY <1>4, <2>3 DEF Charged
<1> QED
  BY <1>3, <1>4

\* Settling a row turns the charge over: whoever has posted it is done.
LEMMA ChargedSettled ==
    ASSUME TypeOK, NEW i \in Ids, Charged(i), copies'[i] = copies[i],
           UNCHANGED <<crashes, outages>>, i \in posted',
           Outstanding(i)' \subseteq Outstanding(i)
    PROVE  Charged(i)'
<1>1. CASE i \in posted
  BY <1>1, ChargedKept DEF TypeOK
<1>2. CASE i \notin posted
  <2>1. copies[i] \in Nat /\ crashes \in Nat /\ outages \in Nat
    BY Pieces DEF TypeOK
  <2>2. /\ Outstanding(i) \subseteq Drainers
        /\ Outstanding(i)' \subseteq Outstanding(i)
    BY DEF Outstanding
  <2>3. /\ Cardinality(Outstanding(i)') <= Cardinality(Outstanding(i))
        /\ Cardinality(Outstanding(i)') \in Nat /\ Cardinality(Drainers) \in Nat
    BY <2>2, DrainCounts
  <2>4. /\ Cardinality(Answered(i)) \in Nat
        /\ Cardinality(Outstanding(i)) \in Nat
        /\ Cardinality(Answered(i)) + Cardinality(Outstanding(i))
               <= Cardinality(Drainers)
    BY TwoGroups
  <2>5. copies[i] <= crashes + outages + Cardinality(Answered(i))
    BY <1>2 DEF Charged
  <2>6. copies'[i] + Cardinality(Outstanding(i)')
            <= crashes' + outages' + Cardinality(Drainers)
    BY <2>1, <2>3, <2>4, <2>5
  <2> QED
    BY <2>6 DEF Charged
<1> QED
  BY <1>1, <1>2

\* Going on to the next row takes a drain out of the row it was at, and out
\* of no other.
LEMMA AdvanceGroups ==
    ASSUME OInv, NEW p \in Drainers, NEW k \in batch[p], Oldest(p, k),
           Advance(p, k), NEW i
    PROVE  /\ Outstanding(i)' \subseteq Outstanding(i)
           /\ i # k => Answered(i) \subseteq Answered(i)'
           /\ at[p] # "mark" => Answered(i) \subseteq Answered(i)'
<1>1. /\ at'[p] \in {"fetch", "post"} /\ batch'[p] = batch[p] \ {k}
      /\ \A q \in Drainers \ {p} : at'[q] = at[q] /\ batch'[q] = batch[q]
  BY DEF Advance, OInv, TypeOK
<1>2. \A j \in batch[p] : Oldest(p, j) => j = k
  BY OneOldest DEF OInv
<1>3. \A q \in Drainers \ {p} : Oldest(q, i)' <=> Oldest(q, i)
  BY <1>1 DEF Oldest
<1>4. Oldest(p, i) => i \in batch[p]
  BY DEF Oldest
<1>5. p \in Outstanding(i)' => p \in Outstanding(i)
  BY <1>1, <1>2 DEF Outstanding
<1>6. ASSUME NEW q \in Drainers \ {p}
      PROVE  /\ q \in Outstanding(i)' <=> q \in Outstanding(i)
             /\ q \in Answered(i)' <=> q \in Answered(i)
  BY <1>1, <1>3 DEF Outstanding, Answered
<1>7. (i # k \/ at[p] # "mark") => p \notin Answered(i)
  BY <1>2, <1>4 DEF Answered
<1>8. /\ Outstanding(i) \subseteq Drainers /\ Outstanding(i)' \subseteq Drainers
      /\ Answered(i) \subseteq Drainers
  BY DEF Outstanding, Answered
<1> QED
  BY <1>5, <1>6, <1>7, <1>8

\* A new row has been posted by nobody.
LEMMA NewRowCharged ==
    ASSUME OInv, TypeOK', NEW r \in Row, Insert(r), UNCHANGED posted,
           \A i \in Ids : Charged(i)'
    PROVE  AllCharged'
<1>1. /\ copies'[Len(rows) + 1] = 0 /\ Len(rows) + 1 \notin posted'
      /\ Ids' = Ids \cup {Len(rows) + 1}
  BY InsertTypes, Pieces DEF OInv, TypeOK
<1>2. ASSUME NEW n \in Ids', n = Len(rows) + 1
      PROVE  Charged(n)'
  <2>1. Answered(n)' \subseteq Drainers
    BY DEF Answered
  <2>2. Cardinality(Answered(n)') \in Nat
    BY <2>1, DrainCounts
  <2>3. copies'[n] <= crashes' + outages' + Cardinality(Answered(n)')
    BY <1>1, <1>2, <2>2 DEF TypeOK
  <2> QED
    BY <1>1, <1>2, <2>3 DEF Charged
<1> QED
  BY <1>1, <1>2 DEF AllCharged

\* A delivery is paid for by the drain that makes it.
LEMMA DeliverCharged ==
    ASSUME OInv, NEW p \in Drainers, NEW k \in batch[p], Deliver(p, k),
           NEW i \in Ids, Charged(i)
    PROVE  Charged(i)'
<1>1. /\ at[p] = "post" /\ at'[p] = "mark" /\ Oldest(p, k)
      /\ \A q \in Drainers \ {p} : at'[q] = at[q]
      /\ UNCHANGED <<batch, posted, crashes, outages>>
      /\ copies' = [copies EXCEPT ![k] = @ + 1]
      /\ copies[i] \in Nat /\ crashes \in Nat /\ outages \in Nat
      /\ k \in Ids /\ DOMAIN copies = Ids
  BY Pieces DEF Deliver, OInv, TypeOK
<1>2. \A j \in batch[p] : Oldest(p, j) => j = k
  BY <1>1, OneOldest DEF OInv
<1>3. \A q \in Drainers : \A j : Oldest(q, j)' <=> Oldest(q, j)
  BY <1>1 DEF Oldest
<1>4. CASE i # k
  <2>1. copies'[i] = copies[i]
    BY <1>1, <1>4
  <2>2. ~ Oldest(p, i)
    BY <1>2, <1>4 DEF Oldest
  <2>3. /\ Answered(i) \subseteq Answered(i)'
        /\ Outstanding(i)' \subseteq Outstanding(i)
    BY <1>1, <1>3, <2>2 DEF Answered, Outstanding
  <2> QED
    BY <1>1, <2>1, <2>3, ChargedKept DEF OInv
<1>5. CASE i = k
  <2>1. copies'[i] = copies[i] + 1
    BY <1>1, <1>5
  <2>2. /\ p \in Outstanding(i) /\ p \notin Answered(i)
        /\ Outstanding(i) \subseteq Drainers /\ Answered(i) \subseteq Drainers
    BY <1>1, <1>5 DEF Outstanding, Answered
  <2>3. Outstanding(i)' = Outstanding(i) \ {p}
    BY <1>1, <1>3, <1>5 DEF Outstanding
  <2>4. Answered(i)' = Answered(i) \cup {p}
    BY <1>1, <1>3, <1>5 DEF Answered
  <2>5. CASE i \in posted
    <3>1. /\ Cardinality(Outstanding(i)') = Cardinality(Outstanding(i)) - 1
          /\ Cardinality(Outstanding(i)) \in Nat /\ Cardinality(Drainers) \in Nat
      BY <2>2, <2>3, DrainCounts
    <3>2. copies[i] + Cardinality(Outstanding(i))
              <= crashes + outages + Cardinality(Drainers)
      BY <2>5 DEF Charged
    <3>3. copies'[i] + Cardinality(Outstanding(i)')
              <= crashes' + outages' + Cardinality(Drainers)
      BY <1>1, <2>1, <3>1, <3>2
    <3> QED
      BY <1>1, <2>5, <3>3 DEF Charged
  <2>6. CASE i \notin posted
    <3>1. /\ Cardinality(Answered(i)') = Cardinality(Answered(i)) + 1
          /\ Cardinality(Answered(i)) \in Nat
      BY <2>2, <2>4, DrainCounts
    <3>2. copies[i] <= crashes + outages + Cardinality(Answered(i))
      BY <2>6 DEF Charged
    <3>3. copies'[i] <= crashes' + outages' + Cardinality(Answered(i)')
      BY <1>1, <2>1, <3>1, <3>2
    <3> QED
      BY <1>1, <2>6, <3>3 DEF Charged
  <2> QED
    BY <2>5, <2>6
<1> QED
  BY <1>4, <1>5

\* A drain that stops, killed or let down by Slack, is paid for by its fault.
LEMMA StopCharged ==
    ASSUME OInv, NEW p \in Drainers,
           at' = [at EXCEPT ![p] = "idle"], batch' = [batch EXCEPT ![p] = {}],
           UNCHANGED posted,
           \/ crashes' = crashes + 1 /\ outages' = outages
           \/ crashes' = crashes /\ outages' = outages + 1,
           NEW i \in Ids, Charged(i),
           \/ copies'[i] = copies[i]
           \/ copies'[i] = copies[i] + 1 /\ at[p] = "post" /\ i \in batch[p]
    PROVE  Charged(i)'
<1>1. /\ copies[i] \in Nat /\ crashes \in Nat /\ outages \in Nat
      /\ at'[p] = "idle" /\ batch'[p] = {}
      /\ \A q \in Drainers \ {p} : at'[q] = at[q] /\ batch'[q] = batch[q]
  BY Pieces DEF OInv, TypeOK
<1>2. \A q \in Drainers \ {p} : Oldest(q, i)' <=> Oldest(q, i)
  BY <1>1 DEF Oldest
<1>3. Outstanding(i)' = Outstanding(i) \ {p}
  BY <1>1, <1>2 DEF Outstanding
<1>4. Answered(i)' = Answered(i) \ {p}
  BY <1>1, <1>2 DEF Answered
<1>5. Outstanding(i) \subseteq Drainers /\ Answered(i) \subseteq Drainers
  BY DEF Outstanding, Answered
<1>a. copies'[i] \in Nat /\ copies'[i] <= copies[i] + 1
  BY <1>1
<1>b. /\ copies[i] \in Nat /\ crashes \in Nat /\ outages \in Nat
  BY <1>1
<1>6. CASE i \in posted
  <2>1. /\ Cardinality(Outstanding(i)') <= Cardinality(Outstanding(i))
        /\ Cardinality(Outstanding(i)) \in Nat /\ Cardinality(Drainers) \in Nat
        /\ Cardinality(Outstanding(i)') \in Nat
    BY <1>3, <1>5, DrainCounts
  <2>2. copies[i] + Cardinality(Outstanding(i))
            <= crashes + outages + Cardinality(Drainers)
    BY <1>6 DEF Charged
  <2>3. copies'[i] + Cardinality(Outstanding(i)')
            <= crashes' + outages' + Cardinality(Drainers)
    BY <1>b, <1>a, <2>1, <2>2
  <2> QED
    BY <1>6, <2>3 DEF Charged
<1>7. CASE i \notin posted
  <2>1. Cardinality(Answered(i)) \in Nat /\ Cardinality(Answered(i)') \in Nat
    BY <1>4, <1>5, DrainCounts
  <2>2. copies[i] <= crashes + outages + Cardinality(Answered(i))
    BY <1>7 DEF Charged
  <2>3. copies'[i] <= crashes' + outages' + Cardinality(Answered(i)')
    <3>1. CASE copies'[i] = copies[i]
      <4>1. Cardinality(Answered(i)') >= Cardinality(Answered(i)) - 1
        <5>1. CASE p \in Answered(i)
          <6>1. Cardinality(Answered(i) \ {p}) = Cardinality(Answered(i)) - 1
            BY <1>5, <5>1, DrainCounts
          <6> QED
            BY <1>4, <2>1, <6>1
        <5>2. CASE p \notin Answered(i)
          <6>1. Answered(i)' = Answered(i)
            BY <1>4, <5>2
          <6> QED
            BY <2>1, <6>1
        <5> QED
          BY <5>1, <5>2
      <4> QED
        BY <1>b, <1>a, <2>1, <2>2, <3>1, <4>1
    <3>2. CASE copies'[i] = copies[i] + 1 /\ at[p] = "post"
      <4>1. Answered(i)' = Answered(i)
        BY <1>4, <3>2 DEF Answered
      <4> QED
        BY <1>b, <1>a, <2>1, <2>2, <3>2, <4>1
    <3> QED
      BY <3>1, <3>2
  <2> QED
    BY <1>7, <2>3 DEF Charged
<1> QED
  BY <1>6, <1>7

\* A step that leaves posts, marks and faults alone.
LEMMA QuietCharged ==
    ASSUME TypeOK, NEW i \in Ids, Charged(i), copies'[i] = copies[i],
           UNCHANGED <<posted, crashes, outages>>,
           i \notin posted => Answered(i) \subseteq Answered(i)',
           i \in posted => Outstanding(i)' \subseteq Outstanding(i)
    PROVE  Charged(i)'
<1>1. crashes' \in Nat /\ outages' \in Nat
      /\ crashes' + outages' >= crashes + outages
  BY DEF TypeOK
<1> QED
  BY <1>1, ChargedKept

\* Every step keeps every row's charge.
LEMMA StepCharged == OInv /\ AllCharged /\ [Next]_vars => AllCharged'
<1> SUFFICES ASSUME OInv, AllCharged, [Next]_vars PROVE AllCharged'
  OBVIOUS
<1> USE DEF OInv
<1>a. TypeOK'
  BY TypeStep
<1>b. \A i \in Ids : Charged(i)
  BY DEF AllCharged
<1>1. CASE \E c \in Channels \cup {Unrenderable} : AppendEvent(c)
  <2>1. PICK c \in Channels \cup {Unrenderable} : AppendEvent(c)
    BY <1>1
  <2>2. /\ Event(c) \in Row /\ Insert(Event(c))
        /\ UNCHANGED <<posted, at, batch, crashes, outages>>
    BY <2>1 DEF AppendEvent, Event, Row
  <2>3. ASSUME NEW i \in Ids PROVE Charged(i)'
    <3>1. copies'[i] = copies[i]
      BY <2>2, InsertTypes
    <3>2. Answered(i)' = Answered(i) /\ Outstanding(i)' = Outstanding(i)
      BY <2>2 DEF Answered, Outstanding, Oldest
    <3> QED
      BY <1>b, <2>2, <3>1, <3>2, QuietCharged
  <2> QED
    BY <1>a, <2>2, <2>3, NewRowCharged
<1>2. ASSUME NEW p \in Drainers, StartDrain(p) \/ Fetch(p)
      PROVE  AllCharged'
  <2> SUFFICES ASSUME NEW i \in Ids PROVE Charged(i)'
    BY <1>2 DEF AllCharged, Ids, StartDrain, Fetch
  <2>1. /\ UNCHANGED <<copies, posted, crashes, outages>>
        /\ at[p] # "mark" /\ at'[p] # "mark"
        /\ batch'[p] \subseteq batch[p] \cup Unposted
        /\ \A q \in Drainers \ {p} : at'[q] = at[q] /\ batch'[q] = batch[q]
    BY <1>2 DEF StartDrain, Fetch, TypeOK
  <2>2. Answered(i) \subseteq Answered(i)'
    BY <2>1 DEF Answered, Oldest
  <2>3. i \in posted => Outstanding(i)' \subseteq Outstanding(i)
    BY <2>1 DEF Outstanding, Oldest, Unposted
  <2> QED
    BY <1>b, <2>1, <2>2, <2>3, QuietCharged
<1>3. ASSUME NEW p \in Drainers, Crash(p) PROVE AllCharged'
  BY <1>b, <1>3, StopCharged DEF Crash, AllCharged, Ids
<1>4. ASSUME NEW p \in Drainers, NEW k \in batch[p], Deliver(p, k)
      PROVE  AllCharged'
  BY <1>b, <1>4, DeliverCharged DEF Deliver, AllCharged, Ids
<1>5. ASSUME NEW p \in Drainers, NEW k \in batch[p], Refuse(p, k)
      PROVE  AllCharged'
  <2> SUFFICES ASSUME NEW i \in Ids PROVE Charged(i)'
    BY <1>5 DEF AllCharged, Ids, Refuse
  <2>1. /\ UNCHANGED <<copies, posted, batch, crashes, outages>>
        /\ at[p] = "post" /\ at'[p] # "mark"
        /\ \A q \in Drainers \ {p} : at'[q] = at[q]
    BY <1>5 DEF Refuse, TypeOK
  <2>2. Answered(i) \subseteq Answered(i)'
    BY <2>1 DEF Answered, Oldest
  <2>3. Outstanding(i)' \subseteq Outstanding(i)
    BY <2>1 DEF Outstanding, Oldest
  <2> QED
    BY <1>b, <2>1, <2>2, <2>3, QuietCharged
<1>6. ASSUME NEW p \in Drainers, NEW k \in batch[p], Outage(p, k)
      PROVE  AllCharged'
  <2> SUFFICES ASSUME NEW i \in Ids PROVE Charged(i)'
    BY <1>6 DEF AllCharged, Ids, Outage
  <2>1. \/ copies'[i] = copies[i]
        \/ copies'[i] = copies[i] + 1 /\ at[p] = "post" /\ i \in batch[p]
    BY <1>6, Pieces DEF Outage
  <2> QED
    BY <1>b, <1>6, <2>1, StopCharged DEF Outage
<1>7. ASSUME NEW p \in Drainers, NEW k \in batch[p], Mark(p, k) \/ Bury(p, k)
      PROVE  AllCharged'
  <2> SUFFICES ASSUME NEW i \in Ids PROVE Charged(i)'
    BY <1>7 DEF AllCharged, Ids, Mark, Bury
  <2>1. /\ posted' = posted \cup {k} /\ Oldest(p, k)
        /\ UNCHANGED <<copies, crashes, outages>>
    BY <1>7 DEF Mark, Bury
  <2>2. /\ Outstanding(i)' \subseteq Outstanding(i)
        /\ i # k => Answered(i) \subseteq Answered(i)'
    <3>1. CASE Advance(p, k)
      BY <2>1, <3>1, AdvanceGroups
    <3>2. CASE /\ at[p] = "bury" /\ at' = [at EXCEPT ![p] = "name"]
               /\ UNCHANGED batch
      <4>1. /\ at'[p] = "name"
            /\ \A q \in Drainers \ {p} : at'[q] = at[q]
        BY <3>2 DEF TypeOK
      <4> QED
        BY <3>2, <4>1 DEF Outstanding, Answered, Oldest
    <3> QED
      BY <1>7, <3>1, <3>2 DEF Mark, Bury
  <2>3. CASE i = k
    BY <1>b, <2>1, <2>2, <2>3, ChargedSettled
  <2>4. CASE i # k
    <3>1. crashes' + outages' >= crashes + outages
          /\ crashes' \in Nat /\ outages' \in Nat
      BY <2>1 DEF TypeOK
    <3> QED
      BY <1>b, <2>1, <2>2, <2>4, <3>1, ChargedKept
  <2> QED
    BY <2>3, <2>4
<1>8. ASSUME NEW p \in Drainers, NEW k \in batch[p], Name(p, k)
      PROVE  AllCharged'
  <2>1. /\ ProjectionError(k) \in Row
    BY OutboxAssumption, Pieces DEF ProjectionError, Row, Ids
  <2>2. /\ Insert(ProjectionError(k)) /\ Oldest(p, k) /\ Advance(p, k)
        /\ UNCHANGED <<posted, crashes, outages>> /\ at[p] # "mark"
    BY <1>8 DEF Name
  <2>3. ASSUME NEW i \in Ids PROVE Charged(i)'
    <3>1. copies'[i] = copies[i]
      BY <2>1, <2>2, InsertTypes
    <3> QED
      BY <1>b, <2>2, <3>1, AdvanceGroups, QuietCharged
  <2> QED
    BY <1>a, <2>1, <2>2, <2>3, NewRowCharged
<1>9. CASE (\E c \in Channels : Repair(c)) \/ UNCHANGED vars
  <2> SUFFICES ASSUME NEW i \in Ids PROVE Charged(i)'
    BY <1>9 DEF AllCharged, Ids, Repair, vars
  <2>1. UNCHANGED <<copies, posted, at, batch, crashes, outages>>
    BY <1>9 DEF Repair, vars
  <2>2. Answered(i)' = Answered(i) /\ Outstanding(i)' = Outstanding(i)
    BY <2>1 DEF Answered, Outstanding, Oldest
  <2> QED
    BY <1>b, <2>1, <2>2, QuietCharged
<1> QED
  BY <1>1, <1>2, <1>3, <1>4, <1>5, <1>6, <1>7, <1>8, <1>9 DEF Next, DrainStep

\* Every copy is charged, and a row has no more drains than there are.
LEMMA ChargedBounds ==
    ASSUME TypeOK, AllCharged
    PROVE  DuplicatesNeedFaults
<1> SUFFICES ASSUME NEW i \in Ids
             PROVE  copies[i] <= Cardinality(Drainers) + crashes + outages
  BY DEF DuplicatesNeedFaults
<1>1. copies[i] \in Nat /\ crashes \in Nat /\ outages \in Nat
  BY Pieces DEF TypeOK
<1>2. /\ Cardinality(Answered(i)) \in Nat /\ Cardinality(Outstanding(i)) \in Nat
      /\ Cardinality(Answered(i)) + Cardinality(Outstanding(i))
             <= Cardinality(Drainers)
  BY TwoGroups
<1>3. Cardinality(Drainers) \in Nat
  BY DrainCounts
<1>4. \/ copies[i] + Cardinality(Outstanding(i))
             <= crashes + outages + Cardinality(Drainers)
      \/ copies[i] <= crashes + outages + Cardinality(Answered(i))
  BY DEF AllCharged, Charged
<1> QED
  BY <1>1, <1>2, <1>3, <1>4

\* However many drains overlap, Slack gets an event at most once from each,
\* and once more per crash or transient failure.  (drain, the mark after each
\* post)
THEOREM DuplicatesAreBounded == Spec => []DuplicatesNeedFaults
<1>1. Init => AllCharged
  BY DEF Init, AllCharged, Ids
<1>2. OInv /\ AllCharged => DuplicatesNeedFaults
  BY ChargedBounds DEF OInv
<1> QED
  BY <1>1, <1>2, StepCharged, OutboxInvariant, PTL DEF Spec

=============================================================================
