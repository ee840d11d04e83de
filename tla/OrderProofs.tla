---------------------------- MODULE OrderProofs ----------------------------
(***************************************************************************)
(* The order pipeline for every set of tickers, every number of days,      *)
(* shares, crashes, polls and calls.  In order: the types, one lemma per   *)
(* stage (HasRow goes with them: what the broker may answer about cur is   *)
(* an Answer only if cur is a decision); the books that never run ahead of *)
(* the broker; the authority of what reaches it; the consumed tickets, the *)
(* fills, the day and the frozen terms of an order; what holds of a run    *)
(* that nothing interrupted; and what is told of: fills of expired         *)
(* tickets, tickets never executed, orders left open.                      *)
(***************************************************************************)
EXTENDS OrderInvariant, TLAPS

USE DEF tables, decisionVars, ticketVars, orderVars, dayVars, brokerVars,
        wire, locals, pollVars

\* The stage the day has reached has a body, and its loop visits decisions.
LEMMA StageTypes ==
  /\ NextStage \in Stages
  /\ \A s \in Stages : Body(s) \in Labels \ RowLabels
  /\ \A s \in Stages : FirstRows(s) \subseteq Decisions
<1>1. NextStage \in Stages
  BY DEF NextStage, Stages
<1>2. \A s \in Stages : Body(s) \in Labels \ RowLabels
  BY DEF Body, Stages, Labels, RowLabels
<1>3. \A s \in Stages : FirstRows(s) \subseteq Decisions
  BY DEF FirstRows, Stages, Today, OpenWithoutOrder
<1> QED BY <1>1, <1>2, <1>3

\* The broker's answers about a decision are answers.
LEMMA AnswerTypes ==
  ASSUME TypeOK
  PROVE  /\ Nothing \in Answer
         /\ \A d \in Decisions : Answers(d) \subseteq Answer
<1>1. 0 \in 0 .. MaxQty
  BY BooksAssumption
<1>2. \A d \in Decisions : Truth(d) \in Answer
  BY DEF TypeOK, BrokerTypeOK, Truth, Answer
<1> QED
  BY <1>1, <1>2 DEF Answers, Answer, Nothing, Garbled, BrokerStatus

\* No placement is on the wire that was not there before, heard or unheard.
NoNewCalls ==
  \A e \in calls' : e.d \in Decisions /\ \E c \in calls : c.d = e.d /\ c.qty = e.qty

\* Hanging up takes the ear off every placement, and nothing else.
LEMMA HangUpKeepsCalls ==
  ASSUME TypeOK, HangUp
  PROVE  /\ calls' \in SUBSET Call /\ acks' = {} /\ NoNewCalls
         /\ \A e \in calls' : ~e.heard
<1> DEFINE deaf(c) == [c EXCEPT !.heard = FALSE]
<1>1. \A c \in Call : /\ deaf(c) \in Call /\ ~deaf(c).heard
                      /\ deaf(c).d = c.d /\ deaf(c).qty = c.qty
  BY DEF Call
<1>2. calls \subseteq Call /\ calls' = {deaf(c) : c \in calls} /\ acks' = {}
  BY DEF TypeOK, BrokerTypeOK, HangUp
<1>3. \A e \in calls' : \E c \in Call : c \in calls /\ e = deaf(c)
  BY <1>2
<1>4. \A c \in Call : c.d \in Decisions
  BY DEF Call
<1> HIDE DEF deaf
<1> QED BY <1>1, <1>2, <1>3, <1>4 DEF NoNewCalls

\* A process with an empty memory is well typed.
LEMMA EmptyMemoryTypes ==
  ASSUME TypeOK, NoLocals, NoPollVars
  PROVE  /\ todo' \in SUBSET Decisions
         /\ cur' \in Decisions \cup {None}
         /\ ans' \in Answer
         /\ polls' \in 0 .. MaxPolls
         /\ confirmed' \in SUBSET Decisions
         /\ problem' \in SUBSET Decisions
         /\ capped' \in BOOLEAN
<1>1. todo' \in SUBSET Decisions /\ cur' \in Decisions \cup {None}
  BY DEF NoLocals
<1>2. ans' \in Answer
  BY AnswerTypes DEF NoLocals
<1>3. polls' \in 0 .. MaxPolls
  BY ProcessAssumption DEF NoPollVars
<1>4. capped' \in BOOLEAN
  BY DEF NoPollVars
<1>5. confirmed' \in SUBSET Decisions /\ problem' \in SUBSET Decisions
  BY DEF NoPollVars
<1> QED BY <1>1, <1>2, <1>3, <1>4, <1>5

\* The day's own steps: stages entered and left, fires, crashes, new days.
LEMMA TypeProcess ==
  ASSUME TypeOK, HasRow,
         \/ RunStageStep \/ Fire \/ Crash \/ NextDay
         \/ \E d \in Decisions : TicketLapses(d)
  PROVE  TypeOK' /\ HasRow'
<1> USE BooksAssumption, ProcessAssumption DEF TypeOK, BooksTypeOK,
        BrokerTypeOK, ProcessTypeOK, HasRow, RowLabels, Labels, Goto
<1>1. CASE EnterStage
  BY <1>1, StageTypes DEF EnterStage
<1>2. CASE LeaveStage
  BY <1>2, StageTypes, EmptyMemoryTypes DEF LeaveStage
<1>3. CASE Exit
  BY <1>3 DEF Exit
<1>4. CASE Fire
  BY <1>4 DEF Fire
<1>5. CASE Crash
  BY <1>5, EmptyMemoryTypes, HangUpKeepsCalls DEF Crash
<1>6. CASE NextDay
  BY <1>6 DEF NextDay, Stages
<1>7. CASE \E d \in Decisions : TicketLapses(d)
  BY <1>7 DEF TicketLapses
<1> QED BY <1>1, <1>2, <1>3, <1>4, <1>5, <1>6, <1>7 DEF RunStageStep

\* The decision stage keeps the types.
LEMMA TypeDecision ==
  ASSUME TypeOK, HasRow,
         \/ \E d \in Decisions, q \in 0 .. MaxQty : SubmitDecision(d, q)
         \/ EndPmTurn
         \/ \E d \in Decisions : DefaultAlert(d)
         \/ DefaultHold \/ EndDecision
  PROVE  TypeOK' /\ HasRow'
<1> USE BooksAssumption DEF TypeOK, BooksTypeOK, BrokerTypeOK, ProcessTypeOK,
        HasRow, RowLabels, Labels, Goto, elsewhere
<1>1. CASE \E d \in Decisions, q \in 0 .. MaxQty : SubmitDecision(d, q)
  BY <1>1 DEF SubmitDecision, DecisionStatus
<1>2. CASE EndPmTurn
  BY <1>2 DEF EndPmTurn, Today
<1>3. CASE \E d \in Decisions : DefaultAlert(d)
  BY <1>3 DEF DefaultAlert, Alert, Visit, Skip
<1>4. CASE DefaultHold
  BY <1>4, AnswerTypes DEF DefaultHold, Next1, DecisionStatus
<1>5. CASE EndDecision
  BY <1>5 DEF EndDecision
<1> QED BY <1>1, <1>2, <1>3, <1>4, <1>5

\* The gate keeps the types.
LEMMA TypeGate ==
  ASSUME TypeOK, HasRow,
         \/ \E d \in Decisions : GateHold(d) \/ GateRaise(d)
         \/ \E d \in Decisions, cap \in 0 .. MaxQty : GateSize(d, cap)
         \/ GateApprove \/ GateEvent
         \/ RejectTicket \/ RejectDecision \/ RejectEvent \/ EndGate
  PROVE  TypeOK' /\ HasRow'
<1> USE BooksAssumption DEF TypeOK, BooksTypeOK, BrokerTypeOK, ProcessTypeOK,
        HasRow, RowLabels, Labels, Goto, elsewhere
<1>1. CASE \E d \in Decisions : GateHold(d)
  BY <1>1 DEF GateHold, Skip, Swap, DecisionStatus
<1>2. CASE \E d \in Decisions, cap \in 0 .. MaxQty : GateSize(d, cap)
  BY <1>2 DEF GateSize, Visit, TicketStatus
<1>3. CASE GateApprove
  BY <1>3, AnswerTypes DEF GateApprove, Next1, Swap, DecisionStatus
<1>4. CASE GateEvent
  BY <1>4, AnswerTypes DEF GateEvent, Next1, Alert
<1>5. CASE \E d \in Decisions : GateRaise(d)
  BY <1>5 DEF GateRaise, Visit
<1>6. CASE RejectTicket
  BY <1>6 DEF RejectTicket, Swap, TicketStatus
<1>7. CASE RejectDecision
  BY <1>7, AnswerTypes DEF RejectDecision, Next1, Swap, DecisionStatus
<1>8. CASE RejectEvent
  BY <1>8, AnswerTypes DEF RejectEvent, Next1, Alert
<1>9. CASE EndGate
  BY <1>9 DEF EndGate
<1> QED BY <1>1, <1>2, <1>3, <1>4, <1>5, <1>6, <1>7, <1>8, <1>9

\* Execution keeps the types.
LEMMA TypeExecution ==
  ASSUME TypeOK, HasRow, ExecutionStep
  PROVE  TypeOK' /\ HasRow'
<1> USE BooksAssumption DEF TypeOK, BooksTypeOK, BrokerTypeOK, ProcessTypeOK,
        HasRow, RowLabels, Labels, Goto
<1>1. CASE \E d \in Decisions : ExpireTicket(d)
  BY <1>1 DEF ExpireTicket, Visit, Skip, Swap, TicketStatus
<1>2. CASE ExpireDecision
  BY <1>2, AnswerTypes DEF ExpireDecision, Next1, Swap, DecisionStatus
<1>3. CASE StartTurn
  BY <1>3 DEF StartTurn, OpenWithoutOrder
<1>4. CASE \E r \in Requests : PlaceOrder(r)
  <2>1. PICK r \in Requests : PlaceOrder(r)
    BY <1>4
  <2>2. r.d \in Decisions /\ r.qty \in 0 .. MaxQty
    BY <2>1 DEF PlaceOrder, Authorized, Requests
  <2>3. [d |-> r.d, qty |-> r.qty, heard |-> TRUE] \in Call
    BY <2>2 DEF Call
  <2> QED BY <2>1, <2>3 DEF PlaceOrder
<1>5. CASE \E r \in Requests : DenyOrder(r)
  BY <1>5 DEF DenyOrder, Requests, Alert
<1>6. CASE \E a \in acks : RecordOrder(a)
  BY <1>6 DEF RecordOrder, Ack, Swap, OrderStatus, Answer, BrokerStatus,
     Working
<1>7. CASE RecordTicket
  BY <1>7, AnswerTypes DEF RecordTicket, Next1, Swap, TicketStatus
<1>8. CASE RecordFill
  BY <1>8, AnswerTypes DEF RecordFill, Next1, Swap, OrderStatus
<1>9. CASE RecordNumbers
  BY <1>9 DEF RecordNumbers, Answer
<1>10. CASE RecordEvent
  BY <1>10 DEF RecordEvent
<1>11. CASE RecordDecision
  BY <1>11, AnswerTypes DEF RecordDecision, Next1, Swap, DecisionStatus
<1>12. CASE EndTurn
  BY <1>12, HangUpKeepsCalls DEF EndTurn, OpenWithoutOrder
<1>13. CASE \E d \in Decisions : AlertUnexecuted(d)
  BY <1>13 DEF AlertUnexecuted, Skip, Alert
<1>14. CASE EndExecution
  BY <1>14 DEF EndExecution
<1> QED
  BY <1>1, <1>2, <1>3, <1>4, <1>5, <1>6, <1>7, <1>8, <1>9, <1>10, <1>11,
     <1>12, <1>13, <1>14 DEF ExecutionStep

\* Reconciliation keeps the types.
LEMMA TypeReconcile ==
  ASSUME TypeOK, HasRow, ReconcileStep
  PROVE  TypeOK' /\ HasRow'
<1> USE BooksAssumption DEF TypeOK, BooksTypeOK, BrokerTypeOK, ProcessTypeOK,
        HasRow, RowLabels, Labels, Goto, beyond
<1>1. CASE \E d \in Decisions : \E a \in Answers(d) : RecoverOrder(d, a)
  BY <1>1 DEF RecoverOrder, Visit, Skip, Swap, Alert, OrderStatus
<1>2. CASE RecoverTicket
  BY <1>2, AnswerTypes DEF RecoverTicket, Next1, Swap, TicketStatus
<1>3. CASE RecoverAlert
  BY <1>3, AnswerTypes DEF RecoverAlert, Next1, Alert
<1>4. CASE EndRecover
  BY <1>4 DEF EndRecover
<1>5. CASE PollRead
  BY <1>5 DEF PollRead, PendingOrders
<1>6. CASE \E d \in Decisions : \E a \in Answers(d) : PollOrder(d, a)
  BY <1>6, AnswerTypes DEF PollOrder, WriteNumbers, Skip, Answer
<1>7. CASE EndRound
  <2>1. polls' \in 0 .. MaxPolls
    BY <1>7, ProcessAssumption DEF EndRound
  <2>2. capped' \in BOOLEAN
    BY <1>7 DEF EndRound
  <2> QED BY <1>7, <2>1, <2>2 DEF EndRound
<1>8. CASE FillOrder
  BY <1>8, AnswerTypes DEF FillOrder, Resume, Next1, Swap, OrderStatus
<1>9. CASE FillEvent
  BY <1>9 DEF FillEvent
<1>10. CASE FillDecision
  BY <1>10, AnswerTypes DEF FillDecision, Resume, Next1, Swap, DecisionStatus
<1>11. CASE FillAlert
  BY <1>11, AnswerTypes DEF FillAlert, Resume, Next1, Alert
<1>12. CASE PartOrder
  BY <1>12, AnswerTypes DEF PartOrder, Resume, Next1, Swap, OrderStatus
<1>13. CASE PartAlert
  BY <1>13, AnswerTypes DEF PartAlert, Resume, Next1, Alert
<1>14. CASE \E d \in Decisions : CancelOrder(d)
  BY <1>14 DEF CancelOrder, Visit
<1>15. CASE pc = "requery" /\ \E a \in Answers(cur) : Requery(a)
  <2>1. cur \in Decisions
    BY <1>15
  <2>2. PICK a \in Answer : Requery(a)
    BY <1>15, <2>1, AnswerTypes
  <2> QED
    BY <2>1, <2>2, AnswerTypes
    DEF Requery, WriteNumbers, Next1, Alert, Answer
<1>16. CASE DeadOrder
  BY <1>16 DEF DeadOrder, Recorded, OrderStatus
<1>17. CASE DeadEvent
  BY <1>17 DEF DeadEvent
<1>18. CASE DeadDecision
  BY <1>18 DEF DeadDecision, Swap, DecisionStatus
<1>19. CASE DeadAlert
  BY <1>19, AnswerTypes DEF DeadAlert, Next1, Alert
<1>20. CASE EndClose
  BY <1>20 DEF EndClose
<1>21. CASE \E d \in Decisions : ProblemAlert(d)
  BY <1>21 DEF ProblemAlert, Skip, Alert
<1>22. CASE EndReconcile
  BY <1>22 DEF EndReconcile
<1> QED
  BY <1>1, <1>2, <1>3, <1>4, <1>5, <1>6, <1>7, <1>8, <1>9, <1>10, <1>11,
     <1>12, <1>13, <1>14, <1>15, <1>16, <1>17, <1>18, <1>19, <1>20, <1>21,
     <1>22 DEF ReconcileStep

\* The broker and the wire keep the types.
LEMMA TypeBroker ==
  ASSUME TypeOK, HasRow, BrokerStep
  PROVE  TypeOK' /\ HasRow'
<1> USE BooksAssumption DEF TypeOK, BooksTypeOK, BrokerTypeOK, ProcessTypeOK,
        HasRow, RowLabels, Labels
<1>1. CASE \E c \in calls : Land(c)
  <2>1. PICK c \in calls : Land(c)
    BY <1>1
  <2>2. c.d \in Decisions /\ c.qty \in 0 .. MaxQty
    BY DEF Call
  <2>3. Responses(c.d, c.qty) \subseteq Ack
    BY <2>2 DEF Responses, Ack
  <2>4. atBroker' \in [Decisions -> BrokerStatus]
    BY <2>1 DEF Land, BrokerStatus, Working
  <2>5. brokerQty' \in [Decisions -> 0 .. MaxQty]
    BY <2>1, <2>2 DEF Land
  <2>6. brokerFilled' \in [Decisions -> 0 .. MaxQty]
    BY <2>1, <2>2 DEF Land
  <2>7. acks' \in SUBSET Ack /\ calls' \in SUBSET Call
    BY <2>1, <2>3 DEF Land
  <2> QED BY <1>1, <2>1, <2>4, <2>5, <2>6, <2>7, BrokerStep DEF BrokerStep, Land
<1>2. CASE \E c \in calls : LoseCall(c)
  BY <1>2, BrokerStep DEF LoseCall, BrokerStep
<1>3. CASE \E a \in acks : LoseAck(a)
  BY <1>3, BrokerStep DEF LoseAck, BrokerStep
<1>4. CASE \E d \in Decisions : Fill(d)
  BY <1>4, BrokerStep DEF Fill, BrokerStep, BrokerStatus
<1>5. CASE \E d \in Decisions : PartialFill(d)
  BY <1>5, BrokerStep DEF PartialFill, BrokerStep, BrokerStatus, Working
<1>6. CASE \E d \in Decisions : Die(d)
  BY <1>6, BrokerStep DEF Die, BrokerStep, BrokerStatus, Working
<1> QED BY <1>1, <1>2, <1>3, <1>4, <1>5, <1>6 DEF BrokerStep

\* The inductive invariant: the types, and HasRow.
LEMMA TypesAndRows == Spec => [](TypeOK /\ HasRow)
<1>1. Init => TypeOK /\ HasRow
  <2> SUFFICES ASSUME Init PROVE TypeOK /\ HasRow
    OBVIOUS
  <2>1. BooksTypeOK
    BY BooksAssumption
    DEF Init, BooksInit, BooksTypeOK, DecisionStatus, TicketStatus,
        OrderStatus, Stages
  <2>2. BrokerTypeOK
    BY BooksAssumption DEF Init, BrokerInit, BrokerTypeOK, BrokerStatus
  <2>3. polls \in 0 .. MaxPolls /\ ans \in Answer
    BY BooksAssumption, ProcessAssumption
    DEF Init, ProcessInit, Answer, Nothing, BrokerStatus
  <2>4. ProcessTypeOK
    BY <2>3 DEF Init, ProcessInit, ProcessTypeOK, Labels
  <2>5. HasRow
    BY DEF Init, ProcessInit, HasRow, RowLabels
  <2> QED BY <2>1, <2>2, <2>4, <2>5 DEF TypeOK
<1>2. TypeOK /\ HasRow /\ [Next]_vars => TypeOK' /\ HasRow'
  <2> SUFFICES ASSUME TypeOK, HasRow, [Next]_vars
               PROVE  TypeOK' /\ HasRow'
    OBVIOUS
  <2>1. CASE Next
    BY <2>1, TypeProcess, TypeDecision, TypeGate, TypeExecution,
       TypeReconcile, TypeBroker
    DEF Next, ProcessStep, DecideAndGateStep
  <2>2. CASE UNCHANGED vars
    BY <2>2 DEF vars, TypeOK, BooksTypeOK, BrokerTypeOK, ProcessTypeOK, HasRow
  <2> QED BY <2>1, <2>2
<1> QED BY <1>1, <1>2, PTL DEF Spec

\* Every variable keeps its type in every reachable state: statuses are
\* statuses, counts stay within the largest share count, the answer in hand
\* is one the broker can give.
THEOREM TypeCorrect == Spec => []TypeOK
BY TypesAndRows, PTL

-----------------------------------------------------------------------------
(* The books never run ahead of the broker. *)

\* A status or a fill that comes with an answer is the broker's own.
LEMMA AnswersAreTrue ==
  ASSUME NEW d \in Decisions, NEW a \in Answers(d),
         a.status \in BrokerStatus \ {"none"}
  PROVE  a.status = atBroker[d] /\ a.filled = brokerFilled[d]
BY DEF Answers, Truth, Nothing, Garbled, BrokerStatus, Working, Dead

\* Starting, dying and the change of day touch no book.
LEMMA BooksProcess ==
  ASSUME BooksInv,
         \/ RunStageStep \/ Fire \/ Crash \/ NextDay
         \/ \E d \in Decisions : TicketLapses(d)
  PROVE  BrokerSane' /\ KnowsRow' /\ BooksNeverAhead'
<1> USE DEF BooksInv, BrokerSane, KnowsRow, BooksNeverAhead, Goto, Dead
<1>1. CASE EnterStage
  BY <1>1, StageTypes DEF EnterStage, RowLabels
<1>2. CASE LeaveStage
  BY <1>2 DEF LeaveStage
<1>3. CASE Exit \/ Fire
  BY <1>3 DEF Exit, Fire
<1>4. CASE Crash
  BY <1>4, HangUpKeepsCalls DEF Crash, NoNewCalls
<1>5. CASE NextDay
  BY <1>5 DEF NextDay
<1>6. CASE \E d \in Decisions : TicketLapses(d)
  BY <1>6 DEF TicketLapses
<1> QED BY <1>1, <1>2, <1>3, <1>4, <1>5, <1>6 DEF RunStageStep

\* Decisions and the gate write no order.
LEMMA BooksDecideAndGate ==
  ASSUME BooksInv, DecideAndGateStep
  PROVE  BrokerSane' /\ KnowsRow' /\ BooksNeverAhead'
<1> USE DEF BooksInv, BrokerSane, KnowsRow, BooksNeverAhead, Goto, elsewhere,
            TypeOK, BooksTypeOK
<1>1. CASE \E d \in Decisions, q \in 0 .. MaxQty : SubmitDecision(d, q)
  BY <1>1 DEF SubmitDecision
<1>2. CASE EndPmTurn \/ EndDecision \/ EndGate
  BY <1>2 DEF EndPmTurn, EndDecision, EndGate
<1>3. CASE \E d \in Decisions : DefaultAlert(d)
  BY <1>3 DEF DefaultAlert, Visit, Skip
<1>4. CASE DefaultHold
  BY <1>4 DEF DefaultHold, Next1
<1>5. CASE \E d \in Decisions : GateHold(d)
  BY <1>5 DEF GateHold, Skip, Swap
<1>6. CASE \E d \in Decisions, cap \in 0 .. MaxQty : GateSize(d, cap)
  BY <1>6 DEF GateSize, Visit
<1>7. CASE GateApprove \/ RejectDecision
  BY <1>7 DEF GateApprove, RejectDecision, Next1, Swap
<1>8. CASE GateEvent \/ RejectEvent
  BY <1>8 DEF GateEvent, RejectEvent, Next1
<1>9. CASE \E d \in Decisions : GateRaise(d)
  BY <1>9 DEF GateRaise, Visit
<1>10. CASE RejectTicket
  BY <1>10 DEF RejectTicket
<1> QED
  BY <1>1, <1>2, <1>3, <1>4, <1>5, <1>6, <1>7, <1>8, <1>9, <1>10
  DEF DecideAndGateStep

\* The recorder writes what the answer it listens to said.
LEMMA BooksExecution ==
  ASSUME BooksInv, ExecutionStep
  PROVE  BrokerSane' /\ KnowsRow' /\ BooksNeverAhead'
<1> USE DEF BooksInv, BrokerSane, KnowsRow, BooksNeverAhead, Goto, TypeOK,
            BooksTypeOK
<1>1. CASE \E d \in Decisions : ExpireTicket(d)
  BY <1>1 DEF ExpireTicket, Visit, Skip
<1>2. CASE ExpireDecision
  BY <1>2 DEF ExpireDecision, Next1, Swap
<1>3. CASE StartTurn \/ EndTurn \/ EndExecution
  BY <1>3, HangUpKeepsCalls DEF StartTurn, EndTurn, EndExecution, NoNewCalls
<1>4. CASE \E r \in Requests : PlaceOrder(r)
  BY <1>4 DEF PlaceOrder, Authorized
<1>5. CASE \E r \in Requests : DenyOrder(r)
  BY <1>5 DEF DenyOrder
<1>6. CASE \E a \in acks : RecordOrder(a)
  BY <1>6 DEF RecordOrder, Swap, Ack, BrokerTypeOK
<1>7. CASE RecordTicket
  BY <1>7 DEF RecordTicket, Next1
<1>8. CASE RecordFill
  BY <1>8 DEF RecordFill, Next1, Swap
<1>9. CASE RecordNumbers \/ RecordEvent
  BY <1>9 DEF RecordNumbers, RecordEvent
<1>10. CASE RecordDecision
  <2>1. atBroker[cur] = "filled" /\ cur \in Decisions
    BY <1>10 DEF RecordDecision, HasRow, RowLabels, Labels
  <2>2. brokerFilled[cur] > 0
    BY <2>1 DEF BrokerTypeOK
  <2> QED BY <1>10, <2>2 DEF RecordDecision, Next1, Swap
<1>11. CASE \E d \in Decisions : AlertUnexecuted(d)
  BY <1>11 DEF AlertUnexecuted, Skip
<1> QED
  BY <1>1, <1>2, <1>3, <1>4, <1>5, <1>6, <1>7, <1>8, <1>9, <1>10, <1>11
  DEF ExecutionStep

\* Reconciliation writes what the last answer said, and it still holds.
LEMMA BooksReconcile ==
  ASSUME BooksInv, ReconcileStep
  PROVE  BrokerSane' /\ KnowsRow' /\ BooksNeverAhead'
<1> USE DEF BooksInv, BrokerSane, KnowsRow, BooksNeverAhead, Goto, TypeOK,
            BooksTypeOK, beyond
<1>1. CASE \E d \in Decisions : \E a \in Answers(d) : RecoverOrder(d, a)
  <2>0. PICK d \in Decisions : \E a \in Answers(d) : RecoverOrder(d, a)
    BY <1>1
  <2>1. PICK a \in Answers(d) : RecoverOrder(d, a)
    BY <2>0
  <2>2. a.status \notin {"none", "garbled"} => atBroker[d] # "none"
    BY DEF Answers, Truth, Nothing, Garbled
  <2> QED BY <2>1, <2>2 DEF RecoverOrder, Visit, Skip, Swap
<1>2. CASE RecoverTicket \/ RecoverAlert
  BY <1>2 DEF RecoverTicket, RecoverAlert, Next1
<1>3. CASE EndRecover \/ PollRead \/ EndRound
  BY <1>3 DEF EndRecover, PollRead, EndRound
<1>4. CASE \E d \in Decisions : \E a \in Answers(d) : PollOrder(d, a)
  <2>0. PICK d \in Decisions : \E a \in Answers(d) : PollOrder(d, a)
    BY <1>4
  <2>1. PICK a \in Answers(d) : PollOrder(d, a)
    BY <2>0
  <2>2. a.status = "filled" => atBroker[d] = "filled"
    BY DEF Answers, Truth, Nothing, Garbled
  <2> QED BY <2>1, <2>2 DEF PollOrder, WriteNumbers, Skip
<1>5. CASE FillOrder
  BY <1>5 DEF FillOrder, Resume, Next1, Swap
<1>6. CASE FillEvent \/ FillAlert
  BY <1>6 DEF FillEvent, FillAlert, Resume, Next1
<1>7. CASE FillDecision
  <2>1. atBroker[cur] = "filled" /\ cur \in Decisions
    BY <1>7 DEF FillDecision, HasRow, RowLabels, Labels
  <2>2. brokerFilled[cur] > 0
    BY <2>1 DEF BrokerTypeOK
  <2> QED BY <1>7, <2>2 DEF FillDecision, Resume, Next1, Swap
<1>8. CASE PartOrder \/ PartAlert
  BY <1>8 DEF PartOrder, PartAlert, Resume, Next1, Swap
<1>9. CASE \E d \in Decisions : CancelOrder(d)
  BY <1>9 DEF CancelOrder, Visit
<1>10. CASE pc = "requery" /\ \E a \in Answers(cur) : Requery(a)
  <2>1. cur \in Decisions
    BY <1>10 DEF HasRow, RowLabels, Labels
  <2>2. PICK a \in Answers(cur) : Requery(a)
    BY <1>10
  <2>3. a.status \in {"filled"} \cup Dead =>
          a.status = atBroker[cur] /\ a.filled = brokerFilled[cur]
    BY <2>1, AnswersAreTrue DEF BrokerStatus, Dead
  <2> QED BY <2>1, <2>2, <2>3 DEF Requery, WriteNumbers, Next1
<1>11. CASE DeadOrder
  BY <1>11 DEF DeadOrder, Recorded, Dead, HasRow, RowLabels, Labels
<1>12. CASE DeadEvent \/ DeadAlert
  BY <1>12 DEF DeadEvent, DeadAlert, Next1
<1>13. CASE DeadDecision
  <2>1. cur \in Decisions /\ ans.filled \in Nat
    BY <1>13, BooksAssumption
    DEF DeadDecision, HasRow, RowLabels, Labels, ProcessTypeOK, Answer
  <2> QED BY <1>13, <2>1 DEF DeadDecision, Swap
<1>14. CASE EndClose \/ EndReconcile
  BY <1>14 DEF EndClose, EndReconcile
<1>15. CASE \E d \in Decisions : ProblemAlert(d)
  BY <1>15 DEF ProblemAlert, Skip
<1> QED
  BY <1>1, <1>2, <1>3, <1>4, <1>5, <1>6, <1>7, <1>8, <1>9, <1>10, <1>11,
     <1>12, <1>13, <1>14, <1>15 DEF ReconcileStep

\* The broker goes on, and what was known of a settled order stays true.
LEMMA BooksBroker ==
  ASSUME BooksInv, BrokerStep
  PROVE  BrokerSane' /\ KnowsRow' /\ BooksNeverAhead'
<1> USE BrokerStep, BooksAssumption
    DEF BooksInv, BrokerSane, KnowsRow, BooksNeverAhead, BrokerStep, TypeOK,
        BrokerTypeOK, Dead, Working
<1>1. CASE \E c \in calls : Land(c)
  <2>1. PICK c \in calls : Land(c)
    BY <1>1
  <2>2. c.d \in Decisions /\ c.qty \in 1 .. MaxQty
    BY DEF Call
  <2>3. CASE atBroker[c.d] = "none"
    <3>1. PICK r \in Responses(c.d, c.qty) :
            /\ atBroker' = [atBroker EXCEPT ![c.d] =
                   IF r.status = "accepted" THEN "accepted" ELSE "filled"]
            /\ brokerQty' = [brokerQty EXCEPT ![c.d] = c.qty]
            /\ brokerFilled' = [brokerFilled EXCEPT ![c.d] =
                   IF r.status = "accepted" THEN 0 ELSE c.qty]
            /\ acks' = IF c.heard THEN acks \cup {r} ELSE acks
      BY <2>1, <2>3 DEF Land
    <3>2. r.d = c.d /\ r.status \in {"accepted", "filled", "garbled"}
      BY DEF Responses
    <3>3. \A d \in Decisions : d # c.d =>
            /\ atBroker'[d] = atBroker[d]
            /\ brokerQty'[d] = brokerQty[d]
            /\ brokerFilled'[d] = brokerFilled[d]
      BY <3>1
    <3>4. /\ atBroker'[c.d] = IF r.status = "accepted" THEN "accepted"
                                                      ELSE "filled"
          /\ brokerQty'[c.d] = c.qty
          /\ brokerFilled'[c.d] = IF r.status = "accepted" THEN 0 ELSE c.qty
      BY <2>2, <3>1
    <3>5. BrokerSane'
      BY <2>1, <2>2, <2>3, <3>1, <3>2, <3>3, <3>4 DEF Land, Ack
    <3>6. KnowsRow'
      BY <2>3, <3>3, <3>4 DEF HasRow, RowLabels, Labels
    <3>7. BooksNeverAhead'
      BY <2>2, <2>3, <3>3, <3>4
    <3> QED BY <3>5, <3>6, <3>7
  <2>4. CASE atBroker[c.d] # "none"
    <3>1. /\ calls' \subseteq calls
          /\ UNCHANGED <<atBroker, brokerQty, brokerFilled, acks>>
      BY <2>1, <2>4 DEF Land
    <3> QED BY <3>1
  <2> QED BY <2>3, <2>4
<1>2. CASE \E c \in calls : LoseCall(c)
  BY <1>2 DEF LoseCall
<1>3. CASE \E a \in acks : LoseAck(a)
  BY <1>3 DEF LoseAck
<1>4. CASE \E d \in Decisions : Fill(d)
  BY <1>4 DEF Fill, Ack
<1>5. CASE \E d \in Decisions : PartialFill(d)
  BY <1>5 DEF PartialFill, Ack
<1>6. CASE \E d \in Decisions : Die(d)
  BY <1>6 DEF Die, Ack
<1> QED BY <1>1, <1>2, <1>3, <1>4, <1>5, <1>6

\* The books, what is known of the broker, and the types, always.
LEMMA BooksInvariant == Spec => []BooksInv
<1>1. Init => BrokerSane /\ KnowsRow /\ BooksNeverAhead
  BY DEF Init, BooksInit, BrokerInit, ProcessInit, BrokerSane, KnowsRow,
         BooksNeverAhead
<1>2. BooksInv /\ [Next]_vars => BrokerSane' /\ KnowsRow' /\ BooksNeverAhead'
  <2> SUFFICES ASSUME BooksInv, [Next]_vars
               PROVE  BrokerSane' /\ KnowsRow' /\ BooksNeverAhead'
    OBVIOUS
  <2>1. CASE Next
    BY <2>1, BooksProcess, BooksDecideAndGate, BooksExecution,
       BooksReconcile, BooksBroker DEF Next, ProcessStep
  <2>2. CASE UNCHANGED vars
    BY <2>2 DEF vars, BooksInv, BrokerSane, KnowsRow, BooksNeverAhead
  <2> QED BY <2>1, <2>2
<1>3. Spec => [](TypeOK /\ HasRow)
  BY TypesAndRows
<1> QED BY <1>1, <1>2, <1>3, PTL DEF Spec, BooksInv

\* The books never run ahead of the broker, whatever the sequence of crashes,
\* resumes, lost answers and broker moves.
THEOREM BooksFollowBroker == Spec => []BooksNeverAhead
BY BooksInvariant, PTL DEF BooksInv

-----------------------------------------------------------------------------
(* Only authorised orders reach the broker. *)

\* Settling a decision or a ticket, and whatever the broker does with the
\* orders it has, takes no authority away and gives none.
LEMMA SettlingKeepsAuthority ==
  ASSUME TypeOK, TicketsSane, OnlyAuthorizedOrders,
         UNCHANGED <<ask, maxQty, lapsed, day, checkpoint>>,
         \A d \in Decisions :
           \/ ticket'[d] = ticket[d]
           \/ ticket[d] = "open" /\ ticket'[d] \in {"consumed", "expired"},
         \A d \in Decisions :
           \/ decision'[d] = decision[d]
           \/ decision[d] = "approved"
              /\ decision'[d] \in {"executed", "failed", "expired"},
         NoNewCalls,
         \A d \in Decisions : brokerQty'[d] = brokerQty[d]
                              /\ (atBroker'[d] = "none" <=> atBroker[d] = "none")
  PROVE  TicketsSane' /\ OnlyAuthorizedOrders'
<1>1. TicketsSane'
  BY DEF TicketsSane, RunDate
<1>2. \A d \in Decisions : Decided(d) => Decided(d)'
  BY DEF Decided
<1>3. \A e \in calls' : Decided(e.d)' /\ e.qty \in 1 .. maxQty[e.d]
                        /\ maxQty[e.d] <= ask[e.d]
  BY <1>2 DEF OnlyAuthorizedOrders, NoNewCalls
<1>4. OnlyAuthorizedOrders'
  BY <1>2, <1>3 DEF OnlyAuthorizedOrders
<1> QED BY <1>1, <1>4

\* Calls that were there before are no new ones.
LEMMA FewerCalls ==
  ASSUME TypeOK, calls' \subseteq calls
  PROVE  NoNewCalls
BY DEF TypeOK, BrokerTypeOK, Call, NoNewCalls

\* Once the gate is done, a step of the later stages disturbs neither the
\* order of the stages nor what the gate has left behind.
LEMMA LaterStagesKeepOrder ==
  ASSUME StageOrder, RowsToVisit,
         UNCHANGED <<day, checkpoint>>,
         \A d \in Decisions :
           decision'[d] = decision[d] \/ decision'[d] # "submitted",
         \/ pc \in ExecLabels /\ pc' \in ExecLabels \cup {"body_done"}
         \/ pc \in RecLabels /\ pc' \in RecLabels \cup {"body_done"}
  PROVE  StageOrder' /\ RowsToVisit'
<1>1. checkpoint["gate"] = "done" /\ checkpoint["decision"] = "done"
  BY DEF StageOrder
<1>2. pc' \notin PmLabels \cup GateLabels
  BY DEF PmLabels, GateLabels, ExecLabels, RecLabels
<1>3. StageOrder'
  BY <1>1, <1>2 DEF StageOrder, ExecLabels, RecLabels
<1>4. \A d \in Today : decision[d] # "submitted"
  BY <1>1 DEF RowsToVisit
<1>5. \A d \in Today' : decision'[d] # "submitted"
  BY <1>4 DEF Today
<1>6. RowsToVisit'
  BY <1>2, <1>5 DEF RowsToVisit, PmLabels, GateLabels
<1> QED BY <1>3, <1>6

\* Starting, dying and the change of day upset no order of the stages.
LEMMA AuthorityProcess ==
  ASSUME AuthorityInv,
         \/ RunStageStep \/ Fire \/ Crash \/ NextDay
         \/ \E d \in Decisions : TicketLapses(d)
  PROVE  StageOrder' /\ RowsToVisit' /\ TicketsSane' /\ OnlyAuthorizedOrders'
<1> USE DEF AuthorityInv, Goto
<1>1. ASSUME UNCHANGED <<decision, ask, ticket, maxQty, atBroker, brokerQty,
                         day>>, NoNewCalls,
             checkpoint["decision"] = "done" => checkpoint'["decision"] = "done",
             lapsed \subseteq lapsed'
      PROVE  TicketsSane' /\ OnlyAuthorizedOrders'
  <2>1. TicketsSane'
    BY <1>1 DEF TicketsSane, RunDate
  <2>2. OnlyAuthorizedOrders'
    BY <1>1 DEF OnlyAuthorizedOrders, NoNewCalls, Decided
  <2> QED BY <2>1, <2>2
<1>2. checkpoint \in [Stages -> {"pending", "running", "done"}]
  BY DEF TypeOK, BooksTypeOK
<1>3. CASE EnterStage
  <2>1. /\ checkpoint' = [checkpoint EXCEPT ![NextStage] = "running"]
        /\ pc' = Body(NextStage) /\ todo' = FirstRows(NextStage)
        /\ UNCHANGED <<tables, day, brokerVars, wire, cur>>
        /\ \E s \in Stages : checkpoint[s] # "done"
    BY <1>3 DEF EnterStage
  <2>2. checkpoint[NextStage] # "done"
    BY <2>1 DEF NextStage, Stages, StageOrder
  <2>3. \A s \in Stages : checkpoint'[s] = "done" <=> checkpoint[s] = "done"
    BY <1>2, <2>1, <2>2, StageTypes
  <2>4. TicketsSane' /\ OnlyAuthorizedOrders'
    BY <1>1, <2>1, <2>3, FewerCalls DEF Stages
  <2>5. StageOrder'
    <3>1. /\ checkpoint'["decision"] = "done" <=> checkpoint["decision"] = "done"
          /\ checkpoint'["gate"] = "done" <=> checkpoint["gate"] = "done"
          /\ checkpoint'["execution"] = "done" <=> checkpoint["execution"] = "done"
      BY <2>3 DEF Stages
    <3>2. \/ pc' = "pm" /\ checkpoint["decision"] # "done"
          \/ /\ pc' = "gate"
             /\ checkpoint["decision"] = "done" /\ checkpoint["gate"] # "done"
          \/ /\ pc' = "expire"
             /\ checkpoint["gate"] = "done" /\ checkpoint["execution"] # "done"
          \/ pc' = "recover" /\ checkpoint["execution"] = "done"
      BY <2>1 DEF NextStage, Body
    <3> QED
      BY <3>1, <3>2 DEF StageOrder, PmLabels, GateLabels, ExecLabels, RecLabels
  <2>6. \A d \in Today' : decision'[d] = decision[d] /\ d \in Today
    BY <2>1 DEF Today
  <2>7. pc' = "gate" => todo' = {d \in Today : decision[d] = "submitted"}
    BY <2>1 DEF Body, NextStage, FirstRows
  <2>8. pc' \notin {"body_done", "defaults", "default_hold"}
        /\ pc' \notin GateLabels \ {"gate"}
    BY <2>1 DEF Body, NextStage, GateLabels
  <2>9. Today' = Today
    BY <2>1 DEF Today
  <2>10. RowsToVisit'
    BY <2>1, <2>3, <2>6, <2>7, <2>8, <2>9 DEF RowsToVisit, GateLabels, Stages
  <2> QED BY <2>4, <2>5, <2>10
<1>4. CASE LeaveStage
  <2>1. /\ pc = "body_done" /\ pc' = "stage"
        /\ checkpoint' = [checkpoint EXCEPT ![NextStage] = "done"]
        /\ UNCHANGED <<tables, day, brokerVars, wire>>
    BY <1>4 DEF LeaveStage
  <2>2. TicketsSane' /\ OnlyAuthorizedOrders'
    BY <1>1, <1>2, <2>1, StageTypes, FewerCalls DEF Stages
  <2>3. /\ checkpoint'["execution"] = "done" => checkpoint'["gate"] = "done"
        /\ checkpoint'["gate"] = "done" => checkpoint'["decision"] = "done"
        /\ checkpoint'["gate"] = "done" =>
             checkpoint["decision"] = "done" \/ checkpoint["gate"] = "done"
    <3>1. CASE NextStage \in {"decision", "gate"}
      BY <1>2, <2>1, <3>1 DEF StageOrder, NextStage, Stages
    <3>2. CASE NextStage \in {"execution", "reconciliation"}
      BY <1>2, <2>1, <3>2 DEF StageOrder, NextStage, Stages
    <3> QED BY <3>1, <3>2, StageTypes DEF Stages
  <2>4. StageOrder'
    BY <2>1, <2>3 DEF StageOrder, PmLabels, GateLabels, ExecLabels, RecLabels
  <2>5. checkpoint'["gate"] = "done" => \A d \in Today' : decision'[d] # "submitted"
    BY <2>1, <2>3 DEF RowsToVisit, Today
  <2>6. RowsToVisit'
    BY <2>1, <2>5 DEF RowsToVisit, GateLabels
  <2> QED BY <2>2, <2>4, <2>6
<1>5. CASE Exit \/ Fire \/ Crash
  <2>1. /\ pc' \in {"stage", "down"}
        /\ UNCHANGED <<decision, ask, ticket, maxQty, lapsed, atBroker,
                       brokerQty, day, checkpoint>>
        /\ NoNewCalls
    BY <1>5, FewerCalls, HangUpKeepsCalls DEF Exit, Fire, Crash
  <2>2. TicketsSane' /\ OnlyAuthorizedOrders'
    BY <1>1, <2>1
  <2>3. StageOrder'
    BY <2>1 DEF StageOrder, PmLabels, GateLabels, ExecLabels, RecLabels
  <2>4. RowsToVisit'
    BY <2>1 DEF RowsToVisit, GateLabels, Today
  <2> QED BY <2>2, <2>3, <2>4
<1>6. CASE NextDay
  <2>1. /\ pc = "down" /\ pc' = "down"
        /\ day' = IF day <= MaxDay THEN day + 1 ELSE day
        /\ checkpoint' = [s \in Stages |-> "pending"]
        /\ lapsed' = {d \in Decisions : ticket[d] # "none"}
        /\ calls' = {}
        /\ UNCHANGED <<decision, ask, ticket, maxQty, atBroker, brokerQty>>
    BY <1>6 DEF NextDay
  <2>2. \A s \in Stages : checkpoint'[s] = "pending"
    BY <2>1
  <2>3. StageOrder' /\ RowsToVisit'
    BY <2>1, <2>2 DEF StageOrder, RowsToVisit, Stages, PmLabels, GateLabels,
                      ExecLabels, RecLabels
  <2>4. \A d \in Decisions : RunDate(d) \in 1 .. MaxDay
    BY DEF Decisions, RunDate
  <2>5. day \in 1 .. MaxDay + 1 /\ MaxDay \in Nat
    BY BooksAssumption DEF TypeOK, BooksTypeOK
  <2>6. \A d \in Decisions : ticket[d] # "none" =>
          RunDate(d) <= day' /\ RunDate(d) # day'
    BY <2>1, <2>4, <2>5 DEF TicketsSane
  <2>7. TicketsSane'
    BY <2>1, <2>6 DEF TicketsSane, RunDate
  <2>8. OnlyAuthorizedOrders'
    BY <2>1 DEF OnlyAuthorizedOrders, Decided
  <2> QED BY <2>3, <2>7, <2>8
<1>7. CASE \E d \in Decisions : TicketLapses(d)
  <2>1. /\ lapsed \subseteq lapsed'
        /\ UNCHANGED <<decision, ask, ticket, maxQty, atBroker, brokerQty,
                       calls, day, checkpoint, pc, todo, cur>>
    BY <1>7 DEF TicketLapses
  <2>2. StageOrder' /\ RowsToVisit'
    BY <2>1 DEF StageOrder, RowsToVisit, Today
  <2> QED BY <1>1, <2>1, <2>2, FewerCalls
<1> QED BY <1>3, <1>4, <1>5, <1>6, <1>7 DEF RunStageStep

\* The decision stage writes only rows the gate has yet to visit.
LEMMA AuthorityDecision ==
  ASSUME AuthorityInv,
         \/ \E d \in Decisions, q \in 0 .. MaxQty : SubmitDecision(d, q)
         \/ EndPmTurn
         \/ \E d \in Decisions : DefaultAlert(d)
         \/ DefaultHold
         \/ EndDecision
  PROVE  StageOrder' /\ RowsToVisit' /\ TicketsSane' /\ OnlyAuthorizedOrders'
<1> USE DEF AuthorityInv, Goto, elsewhere
<1>1. /\ pc \in PmLabels /\ pc' \in PmLabels \cup {"body_done"}
      /\ checkpoint["decision"] # "done" /\ checkpoint["gate"] # "done"
      /\ checkpoint["execution"] # "done"
      /\ UNCHANGED <<ticket, maxQty, lapsed, atBroker, brokerQty, calls, day,
                     checkpoint>>
  BY DEF SubmitDecision, EndPmTurn, DefaultAlert, DefaultHold, EndDecision,
         PmLabels, StageOrder, Visit, Skip, Next1
<1>2. StageOrder'
  BY <1>1 DEF StageOrder, PmLabels, GateLabels, ExecLabels, RecLabels
\* Before the gate, a row of the run date has no ticket yet.
<1>3. \A d \in Today : ticket[d] = "none"
  BY <1>1 DEF Today, TicketsSane
<1>4. \A d \in Decisions :
        \/ decision'[d] = decision[d] /\ ask'[d] = ask[d]
        \/ /\ d \in Today /\ ~Decided(d)
           /\ decision'[d] = "submitted"
  <2>1. CASE \E d \in Decisions, q \in 0 .. MaxQty : SubmitDecision(d, q)
    BY <2>1 DEF SubmitDecision, Decided, TypeOK, BooksTypeOK
  <2>2. CASE DefaultHold
    BY <2>2 DEF DefaultHold, Decided, RowsToVisit, TypeOK, BooksTypeOK
  <2>3. CASE EndPmTurn \/ EndDecision \/ \E d \in Decisions : DefaultAlert(d)
    BY <2>3 DEF EndPmTurn, EndDecision, DefaultAlert
  <2> QED BY <2>1, <2>2, <2>3
<1>5. TicketsSane'
  BY <1>1, <1>3, <1>4 DEF TicketsSane, RunDate
<1>6. OnlyAuthorizedOrders'
  <2>1. \A c \in calls : c.d \in Decisions
    BY DEF TypeOK, BrokerTypeOK, Call
  <2> QED BY <1>1, <1>4, <2>1 DEF OnlyAuthorizedOrders, Decided
<1>7. RowsToVisit'
  <2>1. Today' = Today
    BY <1>1 DEF Today
  <2>2. pc' \in {"defaults", "default_hold"} => todo' \subseteq Today
    BY DEF RowsToVisit, SubmitDecision, EndPmTurn, DefaultAlert, DefaultHold,
           EndDecision, Visit, Skip, Next1
  <2>3. pc' = "default_hold" => cur' \in Today /\ decision'[cur'] = "none"
    BY DEF RowsToVisit, SubmitDecision, EndPmTurn, DefaultAlert, DefaultHold,
           EndDecision, Visit, Skip, Next1
  <2> QED BY <1>1, <2>1, <2>2, <2>3 DEF RowsToVisit, GateLabels, PmLabels
<1> QED BY <1>2, <1>5, <1>6, <1>7

\* The gate mints within the ask, and closes a ticket before it rejects.
LEMMA AuthorityGate ==
  ASSUME AuthorityInv,
         \/ \E d \in Decisions : GateHold(d)
         \/ \E d \in Decisions, cap \in 0 .. MaxQty : GateSize(d, cap)
         \/ GateApprove \/ GateEvent
         \/ \E d \in Decisions : GateRaise(d)
         \/ RejectTicket \/ RejectDecision \/ RejectEvent
         \/ EndGate
  PROVE  StageOrder' /\ RowsToVisit' /\ TicketsSane' /\ OnlyAuthorizedOrders'
<1> USE DEF AuthorityInv, Goto, elsewhere
<1>1. /\ pc \in GateLabels /\ pc' \in GateLabels \cup {"body_done"}
      /\ UNCHANGED <<ask, atBroker, brokerQty, calls, day, checkpoint>>
  BY DEF GateHold, GateSize, GateApprove, GateEvent, GateRaise, RejectTicket,
         RejectDecision, RejectEvent, EndGate, GateLabels, Visit, Skip, Next1
<1>2. /\ checkpoint["decision"] = "done" /\ checkpoint["gate"] # "done"
      /\ checkpoint["execution"] # "done"
  BY <1>1 DEF StageOrder
<1>3. StageOrder'
  BY <1>1, <1>2 DEF StageOrder, PmLabels, GateLabels, ExecLabels, RecLabels
<1>4. /\ todo \subseteq Today
      /\ \A d \in Today : decision[d] = "submitted" => d \in todo
      /\ \A d \in todo : decision[d] # "submitted" => pc # "gate" /\ d = cur
      /\ pc # "gate" => cur \in todo
  BY <1>1 DEF RowsToVisit
<1>5. Today' = Today /\ Today \subseteq Decisions
  BY <1>1 DEF Today
<1>6. ASSUME \A d \in Decisions :
               decision'[d] = decision[d] \/ ~Decided(d),
             \A d \in Decisions : maxQty'[d] = maxQty[d] \/ ~Decided(d)
      PROVE  OnlyAuthorizedOrders'
  <2>1. \A c \in calls : c.d \in Decisions
    BY DEF TypeOK, BrokerTypeOK, Call
  <2> QED BY <1>1, <1>6, <2>1 DEF OnlyAuthorizedOrders, Decided
\* A trade in the loop is settled by neither branch's rows but its own.
<1>7. CASE \E d \in Decisions : GateHold(d)
  <2>1. PICK d \in Decisions : GateHold(d)
    BY <1>7
  <2>2. /\ d \in todo /\ decision[d] = "submitted" /\ ask[d] = 0 /\ pc = "gate"
        /\ decision' = [decision EXCEPT ![d] = "held"]
        /\ pc' = "gate" /\ todo' = todo \ {d}
        /\ UNCHANGED <<cur, ticket, maxQty, lapsed>>
    BY <1>4, <2>1 DEF GateHold, Skip, Swap
  <2>3. /\ decision'[d] = "held"
        /\ \A e \in Decisions : e # d => decision'[e] = decision[e]
    BY <2>2 DEF TypeOK, BooksTypeOK
  <2>4. ticket[d] = "none"
    <3>1. maxQty[d] \in Int
      BY BooksAssumption DEF TypeOK, BooksTypeOK
    <3> QED BY <2>2, <3>1 DEF TicketsSane
  <2>5. TicketsSane'
    BY <1>1, <2>2, <2>3, <2>4 DEF TicketsSane, RunDate
  <2>6. OnlyAuthorizedOrders'
    BY <1>6, <2>2, <2>3 DEF Decided
  <2>7. RowsToVisit'
    BY <1>1, <1>2, <1>4, <1>5, <2>2, <2>3 DEF RowsToVisit
  <2> QED BY <1>3, <2>5, <2>6, <2>7
<1>8. CASE \E d \in Decisions, cap \in 0 .. MaxQty : GateSize(d, cap)
  <2>1. PICK d \in Decisions : \E cap \in 0 .. MaxQty : GateSize(d, cap)
    BY <1>8
  <2>2. PICK cap \in 0 .. MaxQty : GateSize(d, cap)
    BY <2>1
  <2> DEFINE qty == IF ask[d] <= cap THEN ask[d] ELSE cap
  <2>3. /\ d \in todo /\ d \in Today /\ decision[d] = "submitted" /\ pc = "gate"
        /\ UNCHANGED <<decision, todo>> /\ cur' = d
    BY <1>4, <2>2 DEF GateSize, Visit
  <2>4. pc' \in {"reject", "gate_approve"}
    BY <2>2 DEF GateSize, Visit
  <2>5. RowsToVisit'
    <3>1. \A e \in todo' : decision'[e] = "submitted"
      BY <1>4, <2>3
    <3>2. \A e \in Today' : decision'[e] = "submitted" => e \in todo'
      BY <1>4, <1>5, <2>3
    <3>3. todo' \subseteq Today' /\ cur' \in todo'
      BY <1>4, <1>5, <2>3
    <3>4. checkpoint'["gate"] # "done"
      BY <1>1, <1>2
    <3> QED BY <2>4, <3>1, <3>2, <3>3, <3>4 DEF RowsToVisit
  <2>6. \A e \in Decisions : e # d =>
          /\ ticket'[e] = ticket[e] /\ maxQty'[e] = maxQty[e]
          /\ e \in lapsed' <=> e \in lapsed
    BY <2>2 DEF GateSize, TypeOK, BooksTypeOK
  <2>7. \/ UNCHANGED <<ticket, maxQty, lapsed>>
        \/ /\ 1 <= qty /\ qty <= ask[d]
           /\ ticket'[d] = "open" /\ maxQty'[d] = qty
    <3>1. ask[d] \in 0 .. MaxQty /\ MaxQty \in Nat
      BY BooksAssumption DEF TypeOK, BooksTypeOK
    <3> QED BY <2>2, <3>1 DEF GateSize, TypeOK, BooksTypeOK
  <2>8. TicketsSane'
    <3>1. CASE UNCHANGED <<ticket, maxQty, lapsed>>
      BY <1>1, <2>3, <3>1 DEF TicketsSane, RunDate
    <3>2. CASE /\ 1 <= qty /\ qty <= ask[d]
               /\ ticket'[d] = "open" /\ maxQty'[d] = qty
      <4>1. /\ 1 <= maxQty'[d] /\ maxQty'[d] <= ask'[d] /\ RunDate(d) = day'
            /\ decision'[d] = "submitted" /\ checkpoint'["decision"] = "done"
            /\ RunDate(d) <= day'
        BY <1>1, <1>2, <2>3, <3>2 DEF Today, TypeOK, BooksTypeOK
      <4>2. \A e \in Decisions : e # d =>
              /\ ticket'[e] = ticket[e] /\ maxQty'[e] = maxQty[e]
              /\ e \in lapsed' <=> e \in lapsed
              /\ decision'[e] = decision[e] /\ ask'[e] = ask[e]
        BY <1>1, <2>3, <2>6
      <4> QED BY <1>1, <4>1, <4>2 DEF TicketsSane, RunDate
    <3> QED BY <2>7, <3>1, <3>2
  <2>9. OnlyAuthorizedOrders'
    BY <1>6, <2>3, <2>6 DEF Decided
  <2> QED BY <1>3, <2>5, <2>8, <2>9
<1>9. CASE GateApprove \/ RejectDecision
  <2>1. /\ cur \in todo /\ cur \in Today /\ cur \in Decisions
        /\ UNCHANGED <<ticket, maxQty, lapsed>>
        /\ pc \in {"gate_approve", "reject_decision"}
    BY <1>4, <1>5, <1>9 DEF GateApprove, RejectDecision
  <2>2. CASE decision[cur] = "submitted"
    <3>1. /\ decision' = [decision EXCEPT ![cur] =
                 IF pc = "gate_approve" THEN "approved" ELSE "rejected"]
          /\ pc' = IF pc = "gate_approve" THEN "gate_event" ELSE "reject_event"
          /\ UNCHANGED <<todo, cur>>
      BY <1>9, <2>2 DEF GateApprove, RejectDecision, Swap
    <3>2. /\ decision'[cur] = IF pc = "gate_approve" THEN "approved" ELSE "rejected"
          /\ \A e \in Decisions : e # cur => decision'[e] = decision[e]
      BY <2>1, <3>1 DEF TypeOK, BooksTypeOK
    <3>3. pc = "reject_decision" => ticket[cur] # "open"
      BY DEF RowsToVisit
    <3>4. TicketsSane'
      BY <1>1, <2>1, <2>2, <3>2, <3>3 DEF TicketsSane, RunDate
    <3>5. OnlyAuthorizedOrders'
      BY <1>6, <2>1, <2>2, <3>2 DEF Decided
    <3>6. RowsToVisit'
      BY <1>1, <1>2, <1>4, <1>5, <2>1, <2>2, <3>1, <3>2, <3>3 DEF RowsToVisit
    <3> QED BY <1>3, <3>4, <3>5, <3>6
  <2>3. CASE decision[cur] # "submitted"
    <3>1. /\ pc' = "gate" /\ todo' = todo \ {cur} /\ decision' = decision
      BY <1>9, <2>3 DEF GateApprove, RejectDecision, Swap, Next1
    <3>2. TicketsSane' /\ OnlyAuthorizedOrders'
      BY <1>1, <1>6, <2>1, <3>1 DEF TicketsSane, RunDate
    <3>3. RowsToVisit'
      BY <1>1, <1>2, <1>4, <1>5, <2>1, <2>3, <3>1 DEF RowsToVisit
    <3> QED BY <1>3, <3>2, <3>3
  <2> QED BY <2>2, <2>3
<1>10. CASE GateEvent \/ RejectEvent
  <2>1. /\ pc' = "gate" /\ todo' = todo \ {cur}
        /\ UNCHANGED <<decision, ticket, maxQty, lapsed>>
        /\ cur \in todo /\ decision[cur] # "submitted"
    BY <1>4, <1>10 DEF GateEvent, RejectEvent, Next1, RowsToVisit
  <2>2. TicketsSane' /\ OnlyAuthorizedOrders'
    BY <1>1, <1>6, <2>1 DEF TicketsSane, RunDate
  <2>3. RowsToVisit'
    BY <1>1, <1>2, <1>4, <1>5, <2>1 DEF RowsToVisit
  <2> QED BY <1>3, <2>2, <2>3
<1>11. CASE \E d \in Decisions : GateRaise(d)
  <2>1. PICK d \in Decisions : GateRaise(d)
    BY <1>11
  <2>2. /\ pc' = "reject" /\ cur' = d /\ d \in todo
        /\ pc = "gate" \/ d = cur
        /\ UNCHANGED <<todo, decision, ticket, maxQty, lapsed>>
    BY <1>4, <2>1 DEF GateRaise, Visit
  <2>3. TicketsSane' /\ OnlyAuthorizedOrders'
    BY <1>1, <1>6, <2>2 DEF TicketsSane, RunDate
  <2>4. RowsToVisit'
    BY <1>1, <1>2, <1>4, <1>5, <2>2 DEF RowsToVisit
  <2> QED BY <1>3, <2>3, <2>4
<1>12. CASE RejectTicket
  <2>1. /\ pc = "reject" /\ pc' = "reject_decision" /\ cur \in todo
        /\ ticket' = Swap(ticket, cur, "open", "expired")
        /\ UNCHANGED <<todo, cur, decision, maxQty, lapsed>>
    BY <1>4, <1>12 DEF RejectTicket
  <2>2. /\ ticket'[cur] # "open"
        /\ \A d \in Decisions :
             \/ ticket'[d] = ticket[d]
             \/ ticket[d] = "open" /\ ticket'[d] = "expired"
    BY <1>4, <1>5, <2>1 DEF Swap, TypeOK, BooksTypeOK
  <2>3. TicketsSane' /\ OnlyAuthorizedOrders'
    BY <1>1, <2>1, <2>2, FewerCalls, SettlingKeepsAuthority
  <2>4. RowsToVisit'
    BY <1>1, <1>2, <1>4, <1>5, <2>1, <2>2 DEF RowsToVisit
  <2> QED BY <1>3, <2>3, <2>4
<1>13. CASE EndGate
  <2>1. /\ pc = "gate" /\ todo = {} /\ pc' = "body_done"
        /\ UNCHANGED <<decision, ticket, maxQty, lapsed>>
    BY <1>13 DEF EndGate
  <2>2. TicketsSane' /\ OnlyAuthorizedOrders'
    BY <1>1, <1>6, <2>1 DEF TicketsSane, RunDate
  <2>3. RowsToVisit'
    BY <1>1, <1>4, <1>5, <2>1 DEF RowsToVisit, GateLabels
  <2> QED BY <1>3, <2>2, <2>3
<1> QED BY <1>7, <1>8, <1>9, <1>10, <1>11, <1>12, <1>13

\* The hook lets through what an open ticket of today authorises.
LEMMA AuthorityExecution ==
  ASSUME AuthorityInv, ExecutionStep
  PROVE  StageOrder' /\ RowsToVisit' /\ TicketsSane' /\ OnlyAuthorizedOrders'
<1> USE DEF AuthorityInv, Goto
<1>1. /\ pc \in ExecLabels /\ pc' \in ExecLabels \cup {"body_done"}
      /\ UNCHANGED <<ask, maxQty, lapsed, atBroker, brokerQty, day, checkpoint>>
  BY DEF ExecutionStep, ExpireTicket, ExpireDecision, StartTurn, PlaceOrder,
         DenyOrder, RecordOrder, RecordTicket, RecordFill, RecordNumbers,
         RecordEvent, RecordDecision, EndTurn, AlertUnexecuted, EndExecution,
         ExecLabels, Visit, Skip, Next1
<1>2. \A d \in Decisions :
        \/ ticket'[d] = ticket[d]
        \/ ticket[d] = "open" /\ ticket'[d] \in {"consumed", "expired"}
  BY DEF ExecutionStep, ExpireTicket, ExpireDecision, StartTurn, PlaceOrder,
         DenyOrder, RecordOrder, RecordTicket, RecordFill, RecordNumbers,
         RecordEvent, RecordDecision, EndTurn, AlertUnexecuted, EndExecution,
         Swap, TypeOK, BooksTypeOK
<1>3. \A d \in Decisions :
        \/ decision'[d] = decision[d]
        \/ decision[d] = "approved"
           /\ decision'[d] \in {"executed", "failed", "expired"}
  BY DEF ExecutionStep, ExpireTicket, ExpireDecision, StartTurn, PlaceOrder,
         DenyOrder, RecordOrder, RecordTicket, RecordFill, RecordNumbers,
         RecordEvent, RecordDecision, EndTurn, AlertUnexecuted, EndExecution,
         Swap, TypeOK, BooksTypeOK
<1>4. StageOrder' /\ RowsToVisit'
  <2>1. \A d \in Decisions : decision'[d] = decision[d] \/ decision'[d] # "submitted"
    BY <1>3
  <2> QED BY <1>1, <2>1, LaterStagesKeepOrder
\* The one step that puts an order on the wire passes validate_order.
<1>5. CASE \E r \in Requests : PlaceOrder(r)
  <2>1. PICK r \in Requests : PlaceOrder(r)
    BY <1>5
  <2>2. /\ r.d \in Decisions /\ r.qty \in 0 .. MaxQty + 1
        /\ ticket[r.d] = "open" /\ r.d \notin lapsed
        /\ r.qty >= 1 /\ r.qty <= maxQty[r.d]
        /\ calls' = calls \cup {[d |-> r.d, qty |-> r.qty, heard |-> TRUE]}
        /\ UNCHANGED <<decision, ticket>>
    BY <2>1 DEF PlaceOrder, Authorized, Requests
  <2>3. r.d \in Today
    BY <2>2 DEF TicketsSane, Today
  <2>4. decision[r.d] # "submitted"
    BY <1>1, <2>3 DEF StageOrder, RowsToVisit
  <2>5. Decided(r.d) /\ maxQty[r.d] <= ask[r.d]
    BY <2>2, <2>4 DEF TicketsSane, Decided
  <2>6. r.qty \in 1 .. maxQty[r.d]
    BY <2>2, BooksAssumption DEF TypeOK, BooksTypeOK
  <2>7. OnlyAuthorizedOrders'
    BY <1>1, <2>2, <2>5, <2>6 DEF OnlyAuthorizedOrders, Decided
  <2>8. TicketsSane'
    BY <1>1, <2>2 DEF TicketsSane, RunDate
  <2> QED BY <1>4, <2>7, <2>8
<1>6. CASE calls' = calls \/ EndTurn
  <2>1. NoNewCalls
    BY <1>6, FewerCalls, HangUpKeepsCalls DEF EndTurn
  <2> QED BY <1>1, <1>2, <1>3, <1>4, <2>1, SettlingKeepsAuthority
<1>7. calls' = calls \/ EndTurn \/ \E r \in Requests : PlaceOrder(r)
  BY DEF ExecutionStep, ExpireTicket, ExpireDecision, StartTurn, DenyOrder,
         RecordOrder, RecordTicket, RecordFill, RecordNumbers, RecordEvent,
         RecordDecision, AlertUnexecuted, EndExecution
<1> QED BY <1>5, <1>6, <1>7

\* Reconciliation places nothing and reopens no ticket.
LEMMA AuthorityReconcile ==
  ASSUME AuthorityInv, ReconcileStep
  PROVE  StageOrder' /\ RowsToVisit' /\ TicketsSane' /\ OnlyAuthorizedOrders'
<1> USE DEF AuthorityInv, Goto, beyond
<1>1. /\ pc \in RecLabels /\ pc' \in RecLabels \cup {"body_done"}
      /\ UNCHANGED <<ask, maxQty, lapsed, atBroker, brokerQty, calls, day,
                     checkpoint>>
  BY DEF ReconcileStep, RecoverOrder, RecoverTicket, RecoverAlert, EndRecover,
         PollRead, PollOrder, EndRound, FillOrder, FillEvent, FillDecision,
         FillAlert, PartOrder, PartAlert, CancelOrder, Requery, DeadOrder,
         DeadEvent, DeadDecision, DeadAlert, EndClose, ProblemAlert,
         EndReconcile, RecLabels, Visit, Skip, Next1, Resume, WriteNumbers
<1>2. \A d \in Decisions :
        \/ ticket'[d] = ticket[d]
        \/ ticket[d] = "open" /\ ticket'[d] \in {"consumed", "expired"}
  BY DEF ReconcileStep, RecoverOrder, RecoverTicket, RecoverAlert, EndRecover,
         PollRead, PollOrder, EndRound, FillOrder, FillEvent, FillDecision,
         FillAlert, PartOrder, PartAlert, CancelOrder, Requery, DeadOrder,
         DeadEvent, DeadDecision, DeadAlert, EndClose, ProblemAlert,
         EndReconcile, Swap, TypeOK, BooksTypeOK
<1>3. \A d \in Decisions :
        \/ decision'[d] = decision[d]
        \/ decision[d] = "approved"
           /\ decision'[d] \in {"executed", "failed", "expired"}
  BY DEF ReconcileStep, RecoverOrder, RecoverTicket, RecoverAlert, EndRecover,
         PollRead, PollOrder, EndRound, FillOrder, FillEvent, FillDecision,
         FillAlert, PartOrder, PartAlert, CancelOrder, Requery, DeadOrder,
         DeadEvent, DeadDecision, DeadAlert, EndClose, ProblemAlert,
         EndReconcile, Swap, TypeOK, BooksTypeOK
<1>4. StageOrder' /\ RowsToVisit'
  <2>1. \A d \in Decisions : decision'[d] = decision[d] \/ decision'[d] # "submitted"
    BY <1>3
  <2> QED BY <1>1, <2>1, LaterStagesKeepOrder
<1> QED BY <1>1, <1>2, <1>3, <1>4, FewerCalls, SettlingKeepsAuthority

\* The broker takes only what was on the wire.
LEMMA AuthorityBroker ==
  ASSUME AuthorityInv, BrokerStep
  PROVE  StageOrder' /\ RowsToVisit' /\ TicketsSane' /\ OnlyAuthorizedOrders'
<1> USE DEF AuthorityInv
<1>1. UNCHANGED <<decision, ask, ticket, maxQty, lapsed, day, checkpoint, pc,
                  todo, cur>>
  BY DEF BrokerStep
<1>2. StageOrder' /\ RowsToVisit'
  BY <1>1 DEF StageOrder, RowsToVisit, Today
<1>3. CASE \E c \in calls : Land(c)
  <2>1. PICK c \in calls : Land(c)
    BY <1>3
  <2>2. /\ c.d \in Decisions
        /\ Decided(c.d) /\ c.qty \in 1 .. maxQty[c.d] /\ maxQty[c.d] <= ask[c.d]
    BY DEF TypeOK, BrokerTypeOK, Call, OnlyAuthorizedOrders
  <2>3. /\ calls' \subseteq calls
        /\ \A d \in Decisions : d # c.d =>
             brokerQty'[d] = brokerQty[d] /\ atBroker'[d] = atBroker[d]
        /\ \/ brokerQty'[c.d] = c.qty
           \/ brokerQty'[c.d] = brokerQty[c.d] /\ atBroker'[c.d] = atBroker[c.d]
    BY <2>1, <2>2 DEF Land, TypeOK, BrokerTypeOK
  <2>4. OnlyAuthorizedOrders'
    BY <1>1, <2>2, <2>3 DEF OnlyAuthorizedOrders, Decided
  <2>5. TicketsSane'
    BY <1>1 DEF TicketsSane, RunDate
  <2> QED BY <1>2, <2>4, <2>5
<1>4. ASSUME NoNewCalls,
             \A d \in Decisions :
               brokerQty'[d] = brokerQty[d]
               /\ (atBroker'[d] = "none" <=> atBroker[d] = "none")
      PROVE  StageOrder' /\ RowsToVisit' /\ TicketsSane' /\ OnlyAuthorizedOrders'
  BY <1>1, <1>2, <1>4, SettlingKeepsAuthority
<1>5. CASE \/ \E c \in calls : LoseCall(c)
           \/ \E a \in acks : LoseAck(a)
  BY <1>4, <1>5, FewerCalls DEF LoseCall, LoseAck
<1>6. CASE \E d \in Decisions : Fill(d) \/ PartialFill(d) \/ Die(d)
  BY <1>4, <1>6, FewerCalls
  DEF Fill, PartialFill, Die, TypeOK, BrokerTypeOK, Working, Dead
<1> QED BY <1>3, <1>5, <1>6 DEF BrokerStep

\* The order of the stages and the sanity of the tickets, always.
LEMMA AuthorityInvariant == Spec => []AuthorityInv
<1>1. Init => StageOrder /\ RowsToVisit /\ TicketsSane /\ OnlyAuthorizedOrders
  BY DEF Init, BooksInit, BrokerInit, ProcessInit, StageOrder, RowsToVisit,
         TicketsSane, OnlyAuthorizedOrders, Stages, PmLabels, GateLabels,
         ExecLabels, RecLabels
<1>2. AuthorityInv /\ [Next]_vars =>
        StageOrder' /\ RowsToVisit' /\ TicketsSane' /\ OnlyAuthorizedOrders'
  <2> SUFFICES ASSUME AuthorityInv, [Next]_vars
               PROVE  /\ StageOrder' /\ RowsToVisit'
                      /\ TicketsSane' /\ OnlyAuthorizedOrders'
    OBVIOUS
  <2>1. CASE Next
    BY <2>1, AuthorityProcess, AuthorityDecision, AuthorityGate,
       AuthorityExecution, AuthorityReconcile, AuthorityBroker
    DEF Next, ProcessStep, DecideAndGateStep
  <2>2. CASE UNCHANGED vars
    BY <2>2 DEF vars, AuthorityInv, StageOrder, RowsToVisit, TicketsSane,
                OnlyAuthorizedOrders, Today, Decided, RunDate
  <2> QED BY <2>1, <2>2
<1>3. Spec => [](TypeOK /\ HasRow)
  BY TypesAndRows
<1> QED BY <1>1, <1>2, <1>3, PTL DEF Spec, AuthorityInv

\* No order on the wire or at the broker lacks an approval of the gate and a
\* size within the ticket's cap and the PM's ask, whatever the models request
\* and however the day is interrupted, resumed and raced by the broker.
THEOREM OnlyAuthorizedReach == Spec => []OnlyAuthorizedOrders
BY AuthorityInvariant, PTL DEF AuthorityInv

-----------------------------------------------------------------------------
(* The row in hand: its ticket, its order, its fill event, its figures. *)

\* Nobody listens outside a turn, so a step from and to a place outside it
\* may do with the tickets what it likes.
LEMMA QuietWire ==
  ASSUME TurnSane, pc \notin TurnLabels, pc' \notin TurnLabels,
         UNCHANGED <<calls, acks, day>>
  PROVE  TurnSane'
BY DEF TurnSane, TurnLabels, RecordLabels

\* What is on the wire at the end of a day is dropped, and so is who
\* listens.
LEMMA TurnProcess ==
  ASSUME TypeOK, TurnSane,
         \/ RunStageStep \/ Fire \/ Crash \/ NextDay
         \/ \E d \in Decisions : TicketLapses(d)
  PROVE  TurnSane'
<1>1. CASE RunStageStep \/ Fire
  <2>1. pc \in {"stage", "body_done", "down"} /\ UNCHANGED <<calls, acks, day>>
    BY <1>1 DEF RunStageStep, EnterStage, LeaveStage, Exit, Fire
  <2>2. pc' \in {"stage", "down", "pm", "gate", "expire", "recover"}
    BY <1>1 DEF RunStageStep, EnterStage, LeaveStage, Exit, Fire, Goto, Body
  <2> QED BY <2>1, <2>2, QuietWire DEF TurnLabels, RecordLabels
<1>2. CASE Crash
  <2>1. /\ pc' = "down" /\ acks' = {} /\ day' = day
        /\ \A e \in calls' : ~e.heard /\ \E c \in calls : c.d = e.d
    BY <1>2, HangUpKeepsCalls DEF Crash, Goto, NoNewCalls
  <2> QED BY <2>1 DEF TurnSane, RecordLabels, RunDate
<1>3. CASE NextDay
  BY <1>3 DEF NextDay, TurnSane, TurnLabels, RecordLabels
<1>4. CASE \E d \in Decisions : TicketLapses(d)
  BY <1>4 DEF TicketLapses, TurnSane
<1> QED BY <1>1, <1>2, <1>3, <1>4

\* The turn starts after the sweep, so what it uses does not expire.
LEMMA TurnExecution ==
  ASSUME TypeOK, HasRow, TicketsSane, TurnSane, ExecutionStep
  PROVE  TurnSane'
<1>1. CASE \/ \E d \in Decisions : ExpireTicket(d) \/ AlertUnexecuted(d)
           \/ ExpireDecision \/ EndExecution
  BY <1>1, QuietWire
  DEF ExpireTicket, AlertUnexecuted, ExpireDecision, EndExecution, TurnLabels,
      RecordLabels, Visit, Skip, Next1, Goto
<1>2. CASE StartTurn
  BY <1>2 DEF StartTurn, Goto, TurnSane, TurnLabels, RecordLabels
<1>3. CASE \E r \in Requests : PlaceOrder(r)
  <2>1. PICK r \in Requests : PlaceOrder(r)
    BY <1>3
  <2>2. /\ pc = "trader" /\ r.d \in Decisions
        /\ ticket[r.d] = "open" /\ r.d \notin lapsed
        /\ calls' = calls \cup {[d |-> r.d, qty |-> r.qty, heard |-> TRUE]}
        /\ UNCHANGED <<ticket, acks, pc, cur, day>>
    BY <2>1 DEF PlaceOrder, Authorized, Requests
  <2>3. RunDate(r.d) = day
    BY <2>2 DEF TicketsSane
  <2> QED BY <2>2, <2>3 DEF TurnSane, TurnLabels, RunDate
<1>4. CASE \E r \in Requests : DenyOrder(r)
  BY <1>4 DEF DenyOrder, TurnSane
<1>5. CASE \E a \in acks : RecordOrder(a)
  BY <1>5 DEF RecordOrder, Goto, TurnSane, TurnLabels, RecordLabels
<1>6. CASE RecordTicket
  <2>1. cur \in Decisions /\ ticket \in [Decisions -> TicketStatus]
    BY <1>6 DEF RecordTicket, HasRow, RowLabels, Labels, TypeOK, BooksTypeOK
  <2>2. /\ ticket[cur] \in {"open", "consumed"} /\ ticket'[cur] = "consumed"
        /\ \A d \in Decisions : d # cur => ticket'[d] = ticket[d]
        /\ pc' \in {"trader", "record_fill"} /\ pc \in TurnLabels
        /\ pc' = "record_fill" => cur' = cur
        /\ UNCHANGED <<calls, acks, day>>
    BY <1>6, <2>1
    DEF RecordTicket, TurnSane, Swap, Next1, Goto, TurnLabels, RecordLabels
  <2>3. \A d \in Decisions :
          ticket[d] \in {"open", "consumed"} => ticket'[d] \in {"open", "consumed"}
    BY <2>2
  <2>4. /\ \A c \in calls : c.d \in Decisions
        /\ \A a \in acks : a.d \in Decisions
    BY DEF TypeOK, BrokerTypeOK, Call, Ack
  <2> QED BY <2>2, <2>3, <2>4 DEF TurnSane, TurnLabels, RecordLabels, RunDate
<1>7. CASE RecordFill \/ RecordNumbers \/ RecordEvent \/ RecordDecision
  <2>1. /\ pc \in RecordLabels \ {"record_ticket"}
        /\ pc' \in TurnLabels \ {"record_ticket"}
        /\ pc' # "trader" => cur' = cur
        /\ UNCHANGED <<calls, acks, day, ticket>>
    BY <1>7 DEF RecordFill, RecordNumbers, RecordEvent, RecordDecision, Next1,
                Goto, TurnLabels, RecordLabels
  <2> QED BY <2>1 DEF TurnSane, TurnLabels, RecordLabels, RunDate
<1>8. CASE EndTurn
  <2>1. /\ pc' = "exec_alerts" /\ acks' = {} /\ day' = day
        /\ \A e \in calls' : ~e.heard /\ \E c \in calls : c.d = e.d
    BY <1>8, HangUpKeepsCalls DEF EndTurn, Goto, NoNewCalls
  <2> QED BY <2>1 DEF TurnSane, RecordLabels, RunDate
<1> QED
  BY <1>1, <1>2, <1>3, <1>4, <1>5, <1>6, <1>7, <1>8, ExecutionStep
  DEF ExecutionStep

\* The wire answers whoever listens and nobody else.
LEMMA TurnBroker ==
  ASSUME TypeOK, TurnSane, BrokerStep
  PROVE  TurnSane'
<1>1. UNCHANGED <<ticket, day, pc, cur>>
  BY DEF BrokerStep
<1>2. CASE \E c \in calls : Land(c)
  <2>1. PICK c \in calls : Land(c)
    BY <1>2
  <2>2. c \in Call
    BY DEF TypeOK, BrokerTypeOK
  <2>3. /\ calls' \subseteq calls
        /\ \A a \in acks' : a \in acks \/ (c.heard /\ a.d = c.d)
    BY <2>1, <2>2 DEF Land, Responses, Call
  <2> QED BY <1>1, <2>3 DEF TurnSane, RunDate
<1>3. CASE calls' \subseteq calls /\ acks' \subseteq acks
  BY <1>1, <1>3 DEF TurnSane, RunDate
<1> QED
  BY <1>2, <1>3 DEF BrokerStep, LoseCall, LoseAck, Fill, PartialFill, Die

\* The other stages place nothing.
LEMMA TurnElsewhere ==
  ASSUME TurnSane, DecideAndGateStep \/ ReconcileStep
  PROVE  TurnSane'
<1>1. CASE DecideAndGateStep
  <2>1. /\ pc \in PmLabels \cup GateLabels
        /\ pc' \in PmLabels \cup GateLabels \cup {"body_done"}
        /\ UNCHANGED <<calls, acks, day>>
    BY <1>1 DEF DecideAndGateStep, SubmitDecision, EndPmTurn, DefaultAlert,
       DefaultHold, EndDecision, GateHold, GateSize, GateApprove, GateEvent,
       GateRaise, RejectTicket, RejectDecision, RejectEvent, EndGate, PmLabels,
       GateLabels, Visit, Skip, Next1, Goto, elsewhere
  <2> QED
    BY <2>1, QuietWire DEF PmLabels, GateLabels, TurnLabels, RecordLabels
<1>2. CASE ReconcileStep
  <2>1. /\ pc \in RecLabels /\ pc' \in RecLabels \cup {"body_done"}
        /\ UNCHANGED <<calls, acks, day>>
    BY <1>2 DEF ReconcileStep, RecoverOrder, RecoverTicket, RecoverAlert,
       EndRecover, PollRead, PollOrder, EndRound, FillOrder, FillEvent,
       FillDecision, FillAlert, PartOrder, PartAlert, CancelOrder, Requery,
       DeadOrder, DeadEvent, DeadDecision, DeadAlert, EndClose, ProblemAlert,
       EndReconcile, RecLabels, Visit, Skip, Next1, Resume, WriteNumbers, Goto,
       beyond
  <2> QED
    BY <2>1, QuietWire DEF RecLabels, TurnLabels, RecordLabels
<1> QED BY <1>1, <1>2

\* What the tables say of each row and of the row in hand.
RowsAgree == SettledTogether /\ RowInBooks /\ ConsumedHasOrder /\ OneFillPerOrder

\* Starting, dying and the change of day write no row.
LEMMA RowsProcess ==
  ASSUME TypeOK, RowsAgree,
         \/ RunStageStep \/ Fire \/ Crash \/ NextDay
         \/ \E d \in Decisions : TicketLapses(d)
  PROVE  RowsAgree'
<1> USE DEF RowsAgree, SettledTogether, RowInBooks, ConsumedHasOrder,
            OneFillPerOrder, RecordLabels, DeadLabels, Goto, OpenWithoutOrder
<1>1. CASE EnterStage
  <2>1. /\ pc' \in {"pm", "gate", "expire", "recover"}
        /\ pc' = "recover" => todo' = OpenWithoutOrder
        /\ UNCHANGED <<decision, ticket, order, fills, brokerFilled>>
    BY <1>1 DEF EnterStage, Body, FirstRows, NextStage
  <2> QED BY <2>1
<1>2. CASE LeaveStage \/ Exit \/ Fire \/ Crash
  <2>1. /\ pc' \in {"stage", "down"}
        /\ UNCHANGED <<decision, ticket, order, fills, brokerFilled>>
    BY <1>2 DEF LeaveStage, Exit, Fire, Crash
  <2> QED BY <2>1
<1>3. CASE NextDay
  BY <1>3 DEF NextDay
<1>4. CASE \E d \in Decisions : TicketLapses(d)
  BY <1>4 DEF TicketLapses
<1> QED BY <1>1, <1>2, <1>3, <1>4 DEF RunStageStep

\* The gate writes rows that have no order yet.
LEMMA RowsDecideAndGate ==
  ASSUME AuthorityInv, BooksNeverAhead, RowsAgree, DecideAndGateStep
  PROVE  RowsAgree'
<1> USE DEF AuthorityInv, TypeOK, BooksTypeOK
<1>1. /\ pc \in PmLabels \cup GateLabels
      /\ pc' \in PmLabels \cup GateLabels \cup {"body_done"}
      /\ UNCHANGED <<order, fills, brokerFilled>>
  BY DEF DecideAndGateStep, SubmitDecision, EndPmTurn, DefaultAlert,
     DefaultHold, EndDecision, GateHold, GateSize, GateApprove, GateEvent,
     GateRaise, RejectTicket, RejectDecision, RejectEvent, EndGate, PmLabels,
     GateLabels, Visit, Skip, Next1, Goto, elsewhere
<1>2. \A d \in Decisions : decision'[d] = decision[d]
                         \/ decision'[d] \notin {"executed", "failed", "expired"}
  BY DEF DecideAndGateStep, SubmitDecision, EndPmTurn, DefaultAlert,
     DefaultHold, EndDecision, GateHold, GateSize, GateApprove, GateEvent,
     GateRaise, RejectTicket, RejectDecision, RejectEvent, EndGate, Swap
<1>3. \A d \in Decisions : \/ ticket'[d] = ticket[d]
                           \/ ticket[d] # "expired" /\ ticket'[d] # "consumed"
  <2>1. CASE ticket' = ticket
    BY <2>1
  <2>2. CASE \E d \in Decisions, cap \in 0 .. MaxQty : GateSize(d, cap)
    BY <2>2 DEF GateSize
  <2>3. CASE RejectTicket
    BY <2>3 DEF RejectTicket, Swap
  <2> QED
    BY <2>1, <2>2, <2>3
    DEF DecideAndGateStep, SubmitDecision, EndPmTurn, DefaultAlert,
        DefaultHold, EndDecision, GateHold, GateApprove, GateEvent, GateRaise,
        RejectDecision, RejectEvent, EndGate
<1>4. RowInBooks'
  BY <1>1 DEF RowInBooks, RecordLabels, DeadLabels, PmLabels, GateLabels
<1> QED
  BY <1>1, <1>2, <1>3, <1>4
  DEF RowsAgree, SettledTogether, ConsumedHasOrder, OneFillPerOrder

\* The row in hand is a decision.
LEMMA CurIsDecision ==
  ASSUME HasRow, pc \in RowLabels
  PROVE  cur \in Decisions
BY DEF HasRow

\* The recorder writes ticket, order, event and decision in an order that
\* keeps the rows in agreement.
LEMMA RowsExecution ==
  ASSUME BooksInv, TurnSane, RowsAgree, ExecutionStep
  PROVE  RowsAgree'
<1> USE DEF BooksInv, TypeOK, BooksTypeOK, Goto
<1>0. /\ pc \in RecordLabels \cup {"expire_decision"} => cur \in Decisions
      /\ \A a \in acks : a.d \in Decisions /\ atBroker[a.d] # "none"
  BY CurIsDecision DEF RecordLabels, RowLabels, Labels, BrokerTypeOK, Ack, BrokerSane
<1>1. CASE \E d \in Decisions : ExpireTicket(d)
  BY <1>1
  DEF ExpireTicket, Visit, Skip, Swap, RowsAgree, SettledTogether, RowInBooks,
      ConsumedHasOrder, OneFillPerOrder, RecordLabels, DeadLabels
<1>2. CASE ExpireDecision
  BY <1>0, <1>2
  DEF ExpireDecision, Next1, Swap, RowsAgree, SettledTogether, RowInBooks,
      ConsumedHasOrder, OneFillPerOrder, RecordLabels, DeadLabels
<1>3. CASE \/ StartTurn \/ EndTurn \/ EndExecution
           \/ \E r \in Requests : PlaceOrder(r) \/ DenyOrder(r)
           \/ \E d \in Decisions : AlertUnexecuted(d)
  <2>1. /\ pc' \in {"trader", "exec_alerts", "body_done"}
        /\ UNCHANGED <<decision, ticket, order, fills, brokerFilled>>
    BY <1>3 DEF StartTurn, EndTurn, EndExecution, PlaceOrder, DenyOrder,
                AlertUnexecuted, Skip
  <2> QED
    BY <2>1 DEF RowsAgree, SettledTogether, RowInBooks, ConsumedHasOrder,
                OneFillPerOrder, RecordLabels, DeadLabels
<1>4. CASE \E a \in acks : RecordOrder(a)
  <2>1. PICK a \in acks : RecordOrder(a)
    BY <1>4
  <2>2. /\ a.d \in Decisions /\ cur' = a.d /\ pc' = "record_ticket"
        /\ order'[a.d] # "none"
        /\ \A d \in Decisions : \/ order'[d] = order[d]
                                \/ order[d] = "none" /\ order'[d] = "submitted"
        /\ UNCHANGED <<decision, ticket, fills, brokerFilled>>
    BY <1>0, <2>1 DEF RecordOrder, Swap
  <2> QED
    BY <2>2 DEF RowsAgree, SettledTogether, RowInBooks, ConsumedHasOrder,
                OneFillPerOrder, RecordLabels, DeadLabels, Closed
<1>5. CASE RecordTicket
  <2>1. /\ pc' \in {"trader", "record_fill"} /\ cur \in Decisions
        /\ order[cur] # "none"
        /\ pc' = "record_fill" => cur' = cur
        /\ \A d \in Decisions : \/ ticket'[d] = ticket[d]
                                \/ /\ d = cur /\ ticket[d] = "open"
                                   /\ ticket'[d] = "consumed"
        /\ UNCHANGED <<decision, order, fills, brokerFilled>>
    BY <1>0, <1>5
    DEF RecordTicket, Next1, Swap, RecordLabels, RowsAgree, RowInBooks
  <2> QED
    BY <2>1 DEF RowsAgree, SettledTogether, RowInBooks, ConsumedHasOrder,
                OneFillPerOrder, RecordLabels, DeadLabels
<1>6. CASE RecordFill
  <2>1. /\ pc' \in {"trader", "record_numbers"} /\ cur \in Decisions
        /\ pc' = "record_numbers" =>
             cur' = cur /\ order[cur] = "submitted" /\ order'[cur] = "filled"
        /\ \A d \in Decisions : \/ order'[d] = order[d]
                                \/ order[d] = "submitted" /\ order'[d] = "filled"
        /\ UNCHANGED <<decision, ticket, fills, brokerFilled>>
    BY <1>0, <1>6 DEF RecordFill, Next1, Swap, RecordLabels
  <2>2. \A d \in Decisions : fills[d] \in Nat
    OBVIOUS
  <2> QED
    BY <2>1, <2>2 DEF RowsAgree, SettledTogether, RowInBooks, ConsumedHasOrder,
                OneFillPerOrder, RecordLabels, DeadLabels, Closed
<1>7. CASE RecordNumbers
  BY <1>7 DEF RecordNumbers, RowsAgree, SettledTogether, RowInBooks,
     ConsumedHasOrder, OneFillPerOrder, RecordLabels, DeadLabels
<1>8. CASE RecordEvent
  <2>1. /\ cur \in Decisions /\ fills[cur] = 0 /\ order[cur] = "filled"
        /\ atBroker[cur] = "filled" /\ brokerFilled[cur] \in Nat
    BY <1>0, <1>8, BooksAssumption
    DEF RecordEvent, RecordLabels, RowsAgree, RowInBooks, KnowsRow, BrokerTypeOK
  <2>2. brokerFilled[cur] > 0
    BY <2>1, BooksAssumption DEF BrokerSane, BrokerTypeOK
  <2>3. /\ fills'[cur] = 1 /\ pc' = "record_decision" /\ cur' = cur
        /\ \A d \in Decisions : d # cur => fills'[d] = fills[d]
        /\ UNCHANGED <<decision, ticket, order, brokerFilled>>
    BY <1>8, <2>1 DEF RecordEvent
  <2> QED
    BY <2>1, <2>2, <2>3
    DEF RowsAgree, SettledTogether, RowInBooks, ConsumedHasOrder,
        OneFillPerOrder, RecordLabels, DeadLabels
<1>9. CASE RecordDecision
  BY <1>0, <1>9
  DEF RecordDecision, Next1, Swap, RowsAgree, SettledTogether, RowInBooks,
      ConsumedHasOrder, OneFillPerOrder, RecordLabels, DeadLabels
<1> QED
  BY <1>1, <1>2, <1>3, <1>4, <1>5, <1>6, <1>7, <1>8, <1>9, ExecutionStep
  DEF ExecutionStep

\* The broker writes no row.
LEMMA RowsBroker ==
  ASSUME BooksInv, RowsAgree, BrokerStep
  PROVE  RowsAgree'
<1>1. UNCHANGED <<tables, pc, locals>>
  BY DEF BrokerStep
<1>2. \A d \in Decisions : brokerFilled[d] > 0 => brokerFilled'[d] > 0
  <2> USE DEF BooksInv, TypeOK, BrokerTypeOK, BrokerSane
  <2>0. \A d \in Decisions : brokerFilled[d] \in Nat /\ brokerQty[d] \in Nat
    BY BooksAssumption
  <2>1. CASE \E c \in calls : Land(c)
    <3>1. PICK c \in calls : Land(c)
      BY <2>1
    <3>2. CASE atBroker[c.d] = "none"
      <4>1. \A d \in Decisions : d # c.d => brokerFilled'[d] = brokerFilled[d]
        BY <3>1, <3>2 DEF Land
      <4> QED BY <3>2, <4>1
    <3>3. CASE atBroker[c.d] # "none"
      BY <3>1, <3>3 DEF Land
    <3> QED BY <3>2, <3>3
  <2>2. CASE \E d \in Decisions : Fill(d)
    BY <2>0, <2>2 DEF Fill, Working
  <2>3. CASE \E d \in Decisions : PartialFill(d)
    BY <2>0, <2>3 DEF PartialFill, Working
  <2>4. CASE brokerFilled' = brokerFilled
    BY <2>4
  <2> QED
    BY <2>1, <2>2, <2>3, <2>4, BrokerStep DEF BrokerStep, LoseCall, LoseAck, Die
<1> QED
  BY <1>1, <1>2 DEF RowsAgree, SettledTogether, RowInBooks, ConsumedHasOrder,
                    OneFillPerOrder, OpenWithoutOrder

\* Reconciliation keeps the rows in agreement, commit by commit.
LEMMA RowsReconcile ==
  ASSUME BooksInv, RowsAgree, ReconcileStep
  PROVE  RowsAgree'
<1> USE DEF BooksInv, TypeOK, BooksTypeOK, Goto, beyond
<1>0. /\ pc \in RowLabels => cur \in Decisions
      /\ \A d \in Decisions : fills[d] \in Nat
  BY CurIsDecision
<1>1. CASE \E d \in Decisions : \E a \in Answers(d) : RecoverOrder(d, a)
  <2>1. PICK d \in Decisions : \E a \in Answers(d) : RecoverOrder(d, a)
    BY <1>1
  <2>2. /\ pc = "recover" /\ d \in todo
        /\ UNCHANGED <<decision, ticket, fills, brokerFilled>>
        /\ \/ pc' = "recover" /\ todo' = todo \ {d} /\ order' = order
           \/ /\ pc' = "recover_ticket" /\ todo' = todo /\ cur' = d
              /\ order' = Swap(order, d, "none", "submitted")
    BY <2>1 DEF RecoverOrder, Visit, Skip
  <2>3. todo \subseteq OpenWithoutOrder
    BY <2>2 DEF RowsAgree, RowInBooks
  <2>4. CASE pc' = "recover"
    BY <2>2, <2>3, <2>4
    DEF RowsAgree, SettledTogether, RowInBooks, ConsumedHasOrder,
        OneFillPerOrder, RecordLabels, DeadLabels, OpenWithoutOrder
  <2>5. CASE pc' = "recover_ticket"
    <3>1. /\ order'[d] = "submitted" /\ order[d] = "none" /\ ticket[d] = "open"
          /\ \A e \in Decisions : e # d => order'[e] = order[e]
      BY <2>2, <2>3, <2>5 DEF Swap, OpenWithoutOrder
    <3> QED
      BY <2>1, <2>2, <2>3, <2>5, <3>1
      DEF RowsAgree, SettledTogether, RowInBooks, ConsumedHasOrder,
          OneFillPerOrder, RecordLabels, DeadLabels, OpenWithoutOrder, Closed
  <2> QED BY <2>2, <2>4, <2>5
<1>2. CASE RecoverTicket
  <2>1. cur \in Decisions /\ ticket[cur] = "open"
    BY <1>0, <1>2 DEF RecoverTicket, RowsAgree, RowInBooks, RowLabels, Labels
  <2>2. /\ pc = "recover_ticket" /\ pc' = "recover_alert"
        /\ ticket'[cur] = "consumed"
        /\ \A e \in Decisions : e # cur => ticket'[e] = ticket[e]
        /\ UNCHANGED <<decision, order, fills, brokerFilled, todo, cur>>
    BY <1>2, <2>1 DEF RecoverTicket, Swap
  <2> QED
    BY <2>1, <2>2
    DEF RowsAgree, SettledTogether, RowInBooks, ConsumedHasOrder,
        OneFillPerOrder, RecordLabels, DeadLabels, OpenWithoutOrder
<1>3. CASE RecoverAlert
  BY <1>3
  DEF RecoverAlert, Next1, RowsAgree, SettledTogether, RowInBooks,
      ConsumedHasOrder, OneFillPerOrder, RecordLabels, DeadLabels,
      OpenWithoutOrder
<1>4. ASSUME UNCHANGED <<decision, ticket, order, fills, brokerFilled>>,
             pc' \in {"poll_read", "poll", "body_done", "close", "requery",
                     "problems", "fill_order", "part_order", "part_alert"}
      PROVE  RowsAgree'
  BY <1>4 DEF RowsAgree, SettledTogether, RowInBooks, ConsumedHasOrder,
              OneFillPerOrder, RecordLabels, DeadLabels
<1>5. CASE \/ EndRecover \/ PollRead \/ EndRound \/ EndClose \/ EndReconcile
           \/ FillAlert \/ PartAlert \/ DeadAlert
           \/ \E d \in Decisions : CancelOrder(d) \/ ProblemAlert(d)
           \/ \E d \in Decisions : \E a \in Answers(d) : PollOrder(d, a)
  BY <1>4, <1>5
  DEF EndRecover, PollRead, EndRound, EndClose, EndReconcile, FillAlert,
      PartAlert, DeadAlert, CancelOrder, ProblemAlert, PollOrder, WriteNumbers,
      Visit, Skip, Next1, Resume
<1>6. CASE FillOrder
  <2>1. cur \in Decisions
    BY <1>0, <1>6 DEF FillOrder, RowLabels, Labels
  <2>2. /\ UNCHANGED <<decision, ticket, fills, brokerFilled>>
        /\ \/ pc' \in {"close", "poll"} /\ order' = order
           \/ /\ pc' = "fill_event" /\ cur' = cur
              /\ order[cur] \in Pending /\ order'[cur] = "filled"
              /\ \A e \in Decisions : e # cur => order'[e] = order[e]
    BY <1>6, <2>1 DEF FillOrder, Swap, Resume, Next1, Pending
  <2> QED
    BY <1>0, <1>4, <2>1, <2>2
    DEF RowsAgree, SettledTogether, RowInBooks, ConsumedHasOrder,
        OneFillPerOrder, RecordLabels, DeadLabels, Pending
<1>7. CASE FillEvent
  <2>1. /\ cur \in Decisions /\ fills[cur] = 0 /\ order[cur] = "filled"
        /\ brokerFilled[cur] > 0
    BY <1>0, <1>7, BooksAssumption
    DEF FillEvent, RowLabels, Labels, RowsAgree, RowInBooks, KnowsRow,
        BrokerTypeOK, BrokerSane
  <2>2. /\ fills'[cur] = 1 /\ pc' = "fill_decision" /\ cur' = cur
        /\ \A d \in Decisions : d # cur => fills'[d] = fills[d]
        /\ UNCHANGED <<decision, ticket, order, brokerFilled>>
    BY <1>7, <2>1 DEF FillEvent
  <2> QED
    BY <2>1, <2>2 DEF RowsAgree, SettledTogether, RowInBooks,
       ConsumedHasOrder, OneFillPerOrder, RecordLabels, DeadLabels
<1>8. CASE FillDecision
  <2>1. cur \in Decisions /\ order[cur] = "filled"
    BY <1>0, <1>8 DEF FillDecision, RowLabels, Labels, RowsAgree, RowInBooks
  <2>2. /\ pc' \in {"close", "poll", "fill_alert"}
        /\ pc' = "fill_alert" => cur' = cur
        /\ UNCHANGED <<ticket, order, fills, brokerFilled>>
        /\ \A d \in Decisions : \/ decision'[d] = decision[d]
                                \/ d = cur /\ decision'[d] = "executed"
    BY <1>8, <2>1 DEF FillDecision, Swap, Resume, Next1
  <2> QED
    BY <2>1, <2>2 DEF RowsAgree, SettledTogether, RowInBooks,
       ConsumedHasOrder, OneFillPerOrder, RecordLabels, DeadLabels
<1>9. CASE PartOrder
  <2>1. cur \in Decisions
    BY <1>0, <1>9 DEF PartOrder, RowLabels, Labels
  <2>2. /\ UNCHANGED <<decision, ticket, fills, brokerFilled>>
        /\ pc' \in {"close", "poll", "part_alert"}
        /\ \A d \in Decisions :
             \/ order'[d] = order[d]
             \/ order[d] = "submitted" /\ order'[d] = "partially_filled"
    BY <1>9, <2>1 DEF PartOrder, Swap, Resume, Next1
  <2> QED
    BY <1>0, <2>2
    DEF RowsAgree, SettledTogether, RowInBooks, ConsumedHasOrder,
        OneFillPerOrder, RecordLabels, DeadLabels, Closed
<1>10. CASE pc = "requery" /\ \E a \in Answers(cur) : Requery(a)
  <2>1. PICK a \in Answers(cur) : Requery(a)
    BY <1>10
  <2>2. /\ UNCHANGED <<decision, ticket, order, fills, brokerFilled>>
        /\ pc' \in {"fill_order", "part_order", "dead_order", "close"}
        /\ pc' = "dead_order" =>
             cur' = cur /\ <<order[cur], Recorded(a.status)>> \in OrderEdges
    BY <2>1 DEF Requery, WriteNumbers, Next1
  <2>3. CASE pc' = "dead_order"
    <3>1. order[cur] \in Pending
      BY <2>2, <2>3 DEF OrderEdges, Pending
    <3> QED
      BY <2>2, <2>3, <3>1 DEF RowsAgree, SettledTogether, RowInBooks,
         ConsumedHasOrder, OneFillPerOrder, RecordLabels, DeadLabels
  <2> QED BY <1>4, <2>2, <2>3
<1>11. CASE DeadOrder
  <2>1. cur \in Decisions /\ order[cur] \in Pending /\ fills[cur] = 0
    BY <1>0, <1>11
    DEF DeadOrder, RowLabels, Labels, RowsAgree, RowInBooks, OneFillPerOrder,
        Pending
  <2>2. /\ pc' = IF ans.filled > 0 THEN "dead_event" ELSE "dead_decision"
        /\ order'[cur] \in Closed /\ cur' = cur /\ ans' = ans
        /\ \A e \in Decisions : e # cur => order'[e] = order[e]
        /\ UNCHANGED <<decision, ticket, fills, brokerFilled>>
    BY <1>11, <2>1 DEF DeadOrder, Recorded, Closed
  <2> QED
    BY <2>1, <2>2 DEF RowsAgree, SettledTogether, RowInBooks,
       ConsumedHasOrder, OneFillPerOrder, RecordLabels, DeadLabels, Closed
<1>12. CASE DeadEvent
  <2>1. /\ cur \in Decisions /\ fills[cur] = 0 /\ order[cur] \in Closed
        /\ brokerFilled[cur] > 0
    BY <1>0, <1>12
    DEF DeadEvent, RowLabels, Labels, RowsAgree, RowInBooks, KnowsRow,
        DeadLabels
  <2>2. /\ fills'[cur] = 1 /\ pc' = "dead_decision" /\ cur' = cur
        /\ \A d \in Decisions : d # cur => fills'[d] = fills[d]
        /\ UNCHANGED <<decision, ticket, order, brokerFilled>>
    BY <1>12, <2>1 DEF DeadEvent
  <2> QED
    BY <2>1, <2>2 DEF RowsAgree, SettledTogether, RowInBooks,
       ConsumedHasOrder, OneFillPerOrder, RecordLabels, DeadLabels, Closed
<1>13. CASE DeadDecision
  <2>1. cur \in Decisions /\ order[cur] \in Closed
    BY <1>0, <1>13 DEF DeadDecision, RowLabels, Labels, RowsAgree, RowInBooks,
       DeadLabels
  <2>2. /\ pc' = "dead_alert" /\ cur' = cur
        /\ UNCHANGED <<ticket, order, fills, brokerFilled>>
        /\ \A d \in Decisions :
             \/ decision'[d] = decision[d]
             \/ d = cur /\ decision'[d] \in {"executed", "failed"}
    BY <1>13, <2>1 DEF DeadDecision, Swap
  <2> QED
    BY <2>1, <2>2 DEF RowsAgree, SettledTogether, RowInBooks,
       ConsumedHasOrder, OneFillPerOrder, RecordLabels, DeadLabels
<1> QED
  BY <1>1, <1>2, <1>3, <1>5, <1>6, <1>7, <1>8, <1>9, <1>10, <1>11, <1>12,
     <1>13, ReconcileStep DEF ReconcileStep

\* Steps that leave the figures and the answers alone.
LEMMA FiguresKept ==
  ASSUME FiguresTrue, UNCHANGED <<filledQty, brokerFilled>>, acks' \subseteq acks,
         \/ pc' \notin RecordLabels \cup ApplyLabels \cup DeadLabels
         \/ pc' \in {"part_order", "part_alert"}
  PROVE  FiguresTrue'
BY DEF FiguresTrue, RecordLabels, ApplyLabels, DeadLabels

\* Outside execution and reconciliation no figure is written.
LEMMA FiguresElsewhere ==
  ASSUME FiguresTrue,
         \/ RunStageStep \/ Fire \/ Crash \/ NextDay
         \/ \E d \in Decisions : TicketLapses(d)
         \/ DecideAndGateStep
  PROVE  FiguresTrue'
<1>1. CASE RunStageStep \/ Fire \/ Crash \/ NextDay \/ DecideAndGateStep
  <2>1. UNCHANGED <<filledQty, brokerFilled>> /\ acks' \subseteq acks
    BY <1>1 DEF RunStageStep, EnterStage, LeaveStage, Exit, Fire, Crash,
       NextDay, HangUp, DecideAndGateStep, SubmitDecision, EndPmTurn,
       DefaultAlert, DefaultHold, EndDecision, GateHold, GateSize, GateApprove,
       GateEvent, GateRaise, RejectTicket, RejectDecision, RejectEvent,
       EndGate, elsewhere
  <2>2. pc' \in PmLabels \cup GateLabels \cup
                {"stage", "down", "expire", "recover", "body_done"}
    BY <1>1 DEF RunStageStep, EnterStage, LeaveStage, Exit, Fire, Crash,
       NextDay, DecideAndGateStep, SubmitDecision, EndPmTurn, DefaultAlert,
       DefaultHold, EndDecision, GateHold, GateSize, GateApprove, GateEvent,
       GateRaise, RejectTicket, RejectDecision, RejectEvent, EndGate,
       PmLabels, GateLabels, Visit, Skip, Next1, Goto, Body
  <2> QED
    BY <2>1, <2>2, FiguresKept
    DEF PmLabels, GateLabels, RecordLabels, ApplyLabels, DeadLabels
<1>2. CASE \E d \in Decisions : TicketLapses(d)
  BY <1>2 DEF TicketLapses, FiguresTrue
<1> QED BY <1>1, <1>2

\* The figures the recorder writes are the broker's.
LEMMA FiguresExecution ==
  ASSUME BooksInv, FiguresTrue, ExecutionStep
  PROVE  FiguresTrue'
<1> USE DEF BooksInv, TypeOK, BooksTypeOK, Goto
<1>1. CASE \/ ExpireDecision \/ StartTurn \/ EndTurn \/ EndExecution
           \/ \E d \in Decisions : ExpireTicket(d) \/ AlertUnexecuted(d)
           \/ \E r \in Requests : PlaceOrder(r) \/ DenyOrder(r)
  <2>1. /\ UNCHANGED <<filledQty, brokerFilled>> /\ acks' \subseteq acks
        /\ pc' \in {"expire", "expire_decision", "trader", "exec_alerts", "body_done"}
    BY <1>1 DEF ExpireDecision, StartTurn, EndTurn, HangUp, EndExecution,
       ExpireTicket, AlertUnexecuted, PlaceOrder, DenyOrder, Next1, Visit, Skip
  <2> QED
    BY <2>1, FiguresKept DEF RecordLabels, ApplyLabels, DeadLabels
<1>2. CASE \E a \in acks : RecordOrder(a)
  <2>1. PICK a \in acks : RecordOrder(a)
    BY <1>2
  <2>2. /\ pc' = "record_ticket" /\ cur' = a.d
        /\ ans' = [status |-> a.status, filled |-> a.filled]
        /\ acks' \subseteq acks /\ UNCHANGED <<filledQty, brokerFilled>>
    BY <2>1 DEF RecordOrder
  <2> QED
    BY <2>2 DEF FiguresTrue, RecordLabels, DeadLabels
<1>3. CASE RecordTicket \/ RecordFill \/ RecordEvent \/ RecordDecision
  <2>1. /\ pc \in RecordLabels /\ pc' \in RecordLabels \cup {"trader"}
        /\ UNCHANGED <<filledQty, brokerFilled, acks>>
        /\ pc' # "trader" => cur' = cur /\ ans' = ans
        /\ pc' = "record_event" => pc = "record_event"
        /\ pc' = "record_decision" => pc = "record_event"
    BY <1>3 DEF RecordTicket, RecordFill, RecordEvent, RecordDecision, Next1,
                RecordLabels
  <2> QED
    BY <2>1 DEF FiguresTrue, RecordLabels, DeadLabels
<1>4. CASE RecordNumbers
  <2>1. /\ cur \in Decisions /\ ans.status = "filled"
        /\ ans.filled = brokerFilled[cur] /\ brokerFilled[cur] \in Nat
    BY <1>4, CurIsDecision, BooksAssumption
    DEF RecordNumbers, RowLabels, Labels, KnowsRow, FiguresTrue, RecordLabels,
        BrokerTypeOK
  <2>2. /\ pc' = "record_event" /\ UNCHANGED <<cur, ans, brokerFilled, acks>>
        /\ filledQty'[cur] = ans.filled
        /\ \A d \in Decisions : d # cur => filledQty'[d] = filledQty[d]
    BY <1>4, <2>1 DEF RecordNumbers
  <2> QED
    BY <2>1, <2>2 DEF FiguresTrue, RecordLabels, DeadLabels
<1> QED
  BY <1>1, <1>2, <1>3, <1>4, ExecutionStep DEF ExecutionStep

\* So are those of reconciliation.
LEMMA FiguresReconcile ==
  ASSUME BooksInv, FiguresTrue, ReconcileStep
  PROVE  FiguresTrue'
<1> USE DEF BooksInv, TypeOK, BooksTypeOK, Goto, beyond
<1>0. \A d \in Decisions : brokerFilled[d] \in Nat /\ filledQty[d] \in Nat
  BY BooksAssumption DEF BrokerTypeOK
<1>1. CASE \/ RecoverTicket \/ RecoverAlert \/ EndRecover \/ PollRead
           \/ EndRound \/ EndClose \/ EndReconcile \/ FillAlert \/ PartOrder
           \/ PartAlert \/ DeadAlert
           \/ \E d \in Decisions : CancelOrder(d) \/ ProblemAlert(d)
           \/ \E d \in Decisions : \E a \in Answers(d) : RecoverOrder(d, a)
  <2>1. /\ UNCHANGED <<filledQty, brokerFilled, acks>>
        /\ pc' \in {"recover", "recover_ticket", "recover_alert", "poll_read",
                   "poll", "body_done", "close", "requery", "problems",
                   "part_alert"}
    BY <1>1 DEF RecoverOrder, RecoverTicket, RecoverAlert, EndRecover,
       PollRead, EndRound, EndClose, EndReconcile, FillAlert, PartOrder,
       PartAlert, DeadAlert, CancelOrder, ProblemAlert, Next1, Visit, Skip,
       Resume
  <2> QED
    BY <2>1, FiguresKept DEF RecordLabels, ApplyLabels, DeadLabels
<1>2. CASE \/ FillOrder \/ FillEvent \/ FillDecision
           \/ DeadOrder \/ DeadEvent \/ DeadDecision
  <2>1. /\ UNCHANGED <<filledQty, brokerFilled, acks>>
        /\ pc \in {"fill_order", "fill_event", "fill_decision"} \cup DeadLabels
        /\ pc' \in {"poll", "close", "fill_event", "fill_decision", "fill_alert"}
                   \cup DeadLabels
        /\ pc' \notin {"poll", "close"} => cur' = cur
    BY <1>2 DEF FillOrder, FillEvent, FillDecision, DeadOrder, DeadEvent,
                DeadDecision, Resume, Next1, DeadLabels
  <2> QED
    BY <2>1 DEF FiguresTrue, RecordLabels, DeadLabels
\* The figures of an answer about d are written.
<1>3. ASSUME NEW d \in Decisions, NEW a \in Answers(d), WriteNumbers(d, a),
             a.status \in {"filled", "partially_filled"},
             UNCHANGED <<brokerFilled, acks>>
      PROVE  FiguresTrue'
  <2>1. a.filled = brokerFilled[d]
    BY <1>3, AnswersAreTrue DEF BrokerStatus, Working
  <2>2. /\ filledQty'[d] = brokerFilled[d] /\ cur' = d
        /\ \A e \in Decisions : e # d => filledQty'[e] = filledQty[e]
        /\ pc' \in {"fill_order", "part_order"}
    BY <1>3, <2>1 DEF WriteNumbers
  <2> QED
    BY <1>0, <1>3, <2>2 DEF FiguresTrue, RecordLabels, DeadLabels
<1>4. CASE \E d \in Decisions : \E a \in Answers(d) : PollOrder(d, a)
  <2>1. PICK d \in Decisions : \E a \in Answers(d) : PollOrder(d, a)
    BY <1>4
  <2>2. PICK a \in Answers(d) : PollOrder(d, a)
    BY <2>1
  <2>3. CASE a.status \in {"filled", "partially_filled"}
    BY <1>3, <2>2, <2>3 DEF PollOrder
  <2>4. CASE a.status \notin {"filled", "partially_filled"}
    <3>1. pc' = "poll" /\ UNCHANGED <<filledQty, brokerFilled, acks>>
      BY <2>2, <2>4 DEF PollOrder, Skip
    <3> QED
      BY <3>1, FiguresKept DEF RecordLabels, ApplyLabels, DeadLabels
  <2> QED BY <2>3, <2>4
<1>5. CASE pc = "requery" /\ \E a \in Answers(cur) : Requery(a)
  <2>1. cur \in Decisions
    BY <1>5, CurIsDecision DEF RowLabels, Labels
  <2>2. PICK a \in Answers(cur) : Requery(a)
    BY <1>5
  <2>3. CASE a.status \in {"filled", "partially_filled"} /\ WriteNumbers(cur, a)
    BY <1>3, <2>1, <2>2, <2>3 DEF Requery
  <2>4. CASE pc' = "dead_order"
    <3>1. /\ a.status \in Dead /\ cur' = cur /\ UNCHANGED <<brokerFilled, acks>>
          /\ filledQty' = IF a.filled > 0
                            THEN [filledQty EXCEPT ![cur] = a.filled]
                            ELSE filledQty
      BY <2>2, <2>4 DEF Requery, WriteNumbers, Next1
    <3>2. a.filled = brokerFilled[cur]
      BY <2>1, <3>1, AnswersAreTrue DEF BrokerStatus, Dead
    <3>3. filledQty[cur] <= brokerFilled[cur]
      BY <2>1 DEF FiguresTrue
    <3>4. /\ filledQty'[cur] = brokerFilled[cur]
          /\ \A e \in Decisions : e # cur => filledQty'[e] = filledQty[e]
      BY <1>0, <2>1, <3>1, <3>2, <3>3
    <3> QED
      BY <1>0, <2>1, <2>4, <3>1, <3>4 DEF FiguresTrue, RecordLabels
  <2>5. CASE pc' = "close"
    <3>1. UNCHANGED <<filledQty, brokerFilled, acks>>
      BY <2>2, <2>5 DEF Requery, WriteNumbers
    <3> QED
      BY <2>5, <3>1, FiguresKept DEF RecordLabels, ApplyLabels, DeadLabels
  <2> QED
    BY <2>2, <2>3, <2>4, <2>5 DEF Requery, Next1
<1> QED
  BY <1>1, <1>2, <1>4, <1>5, ReconcileStep DEF ReconcileStep

\* What the broker has closed keeps its figure, and no figure falls.
LEMMA BrokerFigures ==
  ASSUME BooksInv, BrokerStep
  PROVE  \A d \in Decisions :
           /\ brokerFilled'[d] \in Nat /\ brokerFilled[d] <= brokerFilled'[d]
           /\ atBroker[d] \in Dead \cup {"filled"} =>
                brokerFilled'[d] = brokerFilled[d]
<1> USE DEF BooksInv, TypeOK, BrokerTypeOK, BrokerSane
<1>1. \A d \in Decisions : brokerFilled[d] \in Nat /\ brokerQty[d] \in Nat
  BY BooksAssumption
<1>2. CASE \E c \in calls : Land(c)
  <2>1. PICK c \in calls : Land(c)
    BY <1>2
  <2>2. c.qty \in Nat /\ c.d \in Decisions
    BY BooksAssumption DEF Call
  <2>3. CASE atBroker[c.d] = "none"
    <3>1. /\ brokerFilled'[c.d] \in Nat /\ brokerFilled[c.d] = 0
          /\ \A d \in Decisions : d # c.d => brokerFilled'[d] = brokerFilled[d]
      BY <2>1, <2>2, <2>3 DEF Land
    <3> QED BY <1>1, <2>3, <3>1 DEF Dead
  <2>4. CASE atBroker[c.d] # "none"
    BY <1>1, <2>1, <2>4 DEF Land
  <2> QED BY <2>3, <2>4
<1>3. CASE \E d \in Decisions : Fill(d)
  <2>1. PICK d \in Decisions : Fill(d)
    BY <1>3
  <2>2. /\ brokerFilled'[d] = brokerQty[d] /\ atBroker[d] \in Working
        /\ \A e \in Decisions : e # d => brokerFilled'[e] = brokerFilled[e]
    BY <2>1 DEF Fill
  <2>3. brokerFilled[d] <= brokerQty[d]
    OBVIOUS
  <2> QED BY <1>1, <2>2, <2>3 DEF Working, Dead
<1>4. CASE \E d \in Decisions : PartialFill(d)
  <2>1. PICK d \in Decisions : PartialFill(d)
    BY <1>4
  <2>2. PICK q \in (brokerFilled[d] + 1) .. (brokerQty[d] - 1) :
          brokerFilled' = [brokerFilled EXCEPT ![d] = q]
    BY <2>1 DEF PartialFill
  <2>3. q \in Nat /\ brokerFilled[d] <= q
    BY <1>1
  <2> QED BY <1>1, <2>1, <2>2, <2>3 DEF PartialFill, Working, Dead
<1>5. CASE brokerFilled' = brokerFilled
  BY <1>1, <1>5
<1> QED
  BY <1>2, <1>3, <1>4, <1>5, BrokerStep DEF BrokerStep, LoseCall, LoseAck, Die

\* Fills only grow, so figures once true are not overtaken.
LEMMA FiguresBroker ==
  ASSUME BooksInv, FiguresTrue, BrokerStep
  PROVE  FiguresTrue'
<1> USE DEF BooksInv, TypeOK, BrokerTypeOK, BrokerSane
<1>1. UNCHANGED <<filledQty, pc, cur, ans, order>>
  BY DEF BrokerStep
<1>2. \A d \in Decisions : /\ brokerFilled[d] \in Nat /\ brokerQty[d] \in Nat
                          /\ filledQty[d] \in Nat
  BY BooksAssumption DEF BooksTypeOK
<1>3. \A d \in Decisions :
        /\ brokerFilled'[d] \in Nat /\ brokerFilled[d] <= brokerFilled'[d]
        /\ atBroker[d] \in Dead \cup {"filled"} =>
             brokerFilled'[d] = brokerFilled[d]
  BY BrokerFigures
\* Every answer that says filled gives the broker's figure.
<1>4. \A a \in acks' : a.status = "filled" => a.filled = brokerFilled'[a.d]
  <2>1. \A a \in acks : a.d \in Decisions
                      /\ (a.status = "filled" => a.filled = brokerFilled'[a.d])
    BY <1>3 DEF FiguresTrue, Ack
  <2>2. CASE \E c \in calls : Land(c) /\ atBroker[c.d] = "none"
    <3>1. PICK c \in calls : Land(c) /\ atBroker[c.d] = "none"
      BY <2>2
    <3>2. c.d \in Decisions
      BY DEF Call
    <3>3. PICK r \in Responses(c.d, c.qty) :
            /\ brokerFilled' = [brokerFilled EXCEPT ![c.d] =
                   IF r.status = "accepted" THEN 0 ELSE c.qty]
            /\ acks' = IF c.heard THEN acks \cup {r} ELSE acks
      BY <3>1 DEF Land
    <3>4. r.d = c.d /\ (r.status = "filled" => r.filled = c.qty)
      BY DEF Responses
    <3>5. r.status = "filled" => r.filled = brokerFilled'[r.d]
      BY <3>2, <3>3, <3>4
    <3> QED BY <2>1, <3>3, <3>5
  <2>3. CASE acks' \subseteq acks
    BY <2>1, <2>3
  <2> QED
    BY <2>2, <2>3, BrokerStep
    DEF BrokerStep, Land, LoseCall, LoseAck, Fill, PartialFill, Die
<1>5. \A d \in Decisions : filledQty[d] <= brokerFilled'[d]
  BY <1>2, <1>3 DEF FiguresTrue
<1>6. pc \in RecordLabels \cup {"fill_order", "fill_event", "fill_decision",
                               "fill_alert"} \cup DeadLabels => cur \in Decisions
  BY CurIsDecision DEF RecordLabels, DeadLabels, RowLabels, Labels
<1>7. pc \in RecordLabels /\ ans.status = "filled" =>
        ans.filled = brokerFilled'[cur]
  BY <1>3, <1>6 DEF FiguresTrue, KnowsRow, RecordLabels
<1>8. pc \in {"record_event", "record_decision", "fill_order", "fill_event",
              "fill_decision", "fill_alert"} \cup DeadLabels =>
        filledQty[cur] = brokerFilled'[cur]
  BY <1>3, <1>6 DEF FiguresTrue, KnowsRow, RecordLabels, DeadLabels
<1> QED BY <1>1, <1>4, <1>5, <1>7, <1>8 DEF FiguresTrue

\* The row in hand, its tables and its figures, in every reachable state.
LEMMA RowsInvariant == Spec => [](BooksInv /\ AuthorityInv /\ RowsInv)
<1>1. Init => RowsInv
  BY DEF Init, BooksInit, BrokerInit, ProcessInit, RowsInv, TurnSane,
         SettledTogether, RowInBooks, FiguresTrue, ConsumedHasOrder,
         OneFillPerOrder, RecordLabels, DeadLabels
<1>2. BooksInv /\ AuthorityInv /\ RowsInv /\ [Next]_vars => RowsInv'
  <2> SUFFICES ASSUME BooksInv, AuthorityInv, RowsInv, [Next]_vars
               PROVE  RowsInv'
    OBVIOUS
  <2>0. /\ TypeOK /\ HasRow /\ TicketsSane /\ BooksNeverAhead
        /\ TurnSane /\ RowsAgree /\ FiguresTrue
    BY DEF BooksInv, AuthorityInv, RowsInv, RowsAgree
  <2>1. CASE Next
    <3>1. TurnSane'
      BY <2>0, <2>1, TurnProcess, TurnElsewhere, TurnExecution, TurnBroker
      DEF Next, ProcessStep
    <3>2. RowsAgree'
      BY <2>0, <2>1, RowsProcess, RowsDecideAndGate, RowsExecution,
         RowsReconcile, RowsBroker DEF Next, ProcessStep
    <3>3. FiguresTrue'
      BY <2>0, <2>1, FiguresElsewhere, FiguresExecution, FiguresReconcile,
         FiguresBroker DEF Next, ProcessStep
    <3> QED BY <3>1, <3>2, <3>3 DEF RowsInv, RowsAgree
  <2>2. CASE UNCHANGED vars
    BY <2>2 DEF vars, RowsInv, TurnSane, SettledTogether, RowInBooks,
       FiguresTrue, ConsumedHasOrder, OneFillPerOrder, OpenWithoutOrder,
       RecordLabels, DeadLabels
  <2> QED BY <2>1, <2>2
<1> QED BY <1>1, <1>2, BooksInvariant, AuthorityInvariant, PTL DEF Spec

\* A consumed ticket has its order row, in whatever order crashes and resumes
\* leave the two commits of record_order and recover_lost_orders.
THEOREM ConsumedTicketsHaveOrders == Spec => []ConsumedHasOrder
BY RowsInvariant, PTL DEF RowsInv

\* An order is booked as a fill at most once, and only when it is closed with
\* shares behind it, however often the stages are re-run.
THEOREM FillIsBookedOnce == Spec => []OneFillPerOrder
BY RowsInvariant, PTL DEF RowsInv

\* No order of a decision first reaches the broker on a later day, whatever
\* an earlier crash left behind.
THEOREM OnlyOnItsDay == Spec => TradesOnItsDay
<1>1. TypeOK /\ TurnSane /\ [Next]_vars =>
        [\A d \in Decisions :
           atBroker[d] = "none" /\ atBroker'[d] # "none" => RunDate(d) = day]_vars
  <2> SUFFICES ASSUME TypeOK, TurnSane, [Next]_vars, NEW d \in Decisions,
                      atBroker[d] = "none", atBroker'[d] # "none"
               PROVE  RunDate(d) = day
    OBVIOUS
  <2>1. BrokerStep
    BY DEF vars, Next, ProcessStep, RunStageStep, EnterStage, LeaveStage, Exit,
       Fire, Crash, NextDay, TicketLapses, DecideAndGateStep, SubmitDecision,
       EndPmTurn, DefaultAlert, DefaultHold, EndDecision, GateHold, GateSize,
       GateApprove, GateEvent, GateRaise, RejectTicket, RejectDecision,
       RejectEvent, EndGate, elsewhere, ExecutionStep, ExpireTicket,
       ExpireDecision, StartTurn, PlaceOrder, DenyOrder, RecordOrder,
       RecordTicket, RecordFill, RecordNumbers, RecordEvent, RecordDecision,
       EndTurn, AlertUnexecuted, EndExecution, ReconcileStep, RecoverOrder,
       RecoverTicket, RecoverAlert, EndRecover, PollRead, PollOrder, EndRound,
       FillOrder, FillEvent, FillDecision, FillAlert, PartOrder, PartAlert,
       CancelOrder, Requery, DeadOrder, DeadEvent, DeadDecision, DeadAlert,
       EndClose, ProblemAlert, EndReconcile
  <2>2. CASE \E c \in calls : Land(c)
    <3>1. PICK c \in calls : Land(c)
      BY <2>2
    <3>2. c.d = d
      BY <3>1 DEF Land, TypeOK, BrokerTypeOK
    <3> QED BY <3>1, <3>2 DEF TurnSane
  <2>3. CASE ~\E c \in calls : Land(c)
    BY <2>1, <2>3 DEF BrokerStep, LoseCall, LoseAck, Fill, PartialFill, Die,
       Working, TypeOK, BrokerTypeOK
  <2> QED BY <2>2, <2>3
<1> QED
  BY <1>1, RowsInvariant, PTL DEF Spec, TradesOnItsDay, BooksInv, RowsInv

\* What the gate approved is frozen: neither the ask nor the cap of a decision
\* that has left 'submitted' ever changes, on this day or a later one.
THEOREM TermsAreFrozen == Spec => ApprovedTermsFrozen
<1>1. AuthorityInv /\ [Next]_vars =>
        [\A d \in Decisions : decision[d] \notin {"none", "submitted"} =>
           ask'[d] = ask[d] /\ maxQty'[d] = maxQty[d]]_vars
  <2> SUFFICES ASSUME AuthorityInv, [Next]_vars, NEW d \in Decisions,
                      decision[d] \notin {"none", "submitted"}
               PROVE  ask'[d] = ask[d] /\ maxQty'[d] = maxQty[d]
    OBVIOUS
  <2>0. ask \in [Decisions -> 0 .. MaxQty] /\ maxQty \in [Decisions -> 0 .. MaxQty]
    BY DEF AuthorityInv, TypeOK, BooksTypeOK
  <2>1. CASE \E e \in Decisions, q \in 0 .. MaxQty : SubmitDecision(e, q)
    BY <2>0, <2>1 DEF SubmitDecision
  <2>2. CASE DefaultHold
    <3>1. decision[cur] = "none"
      BY <2>2 DEF DefaultHold, AuthorityInv, RowsToVisit
    <3> QED BY <2>0, <2>2, <3>1 DEF DefaultHold
  <2>3. CASE \E e \in Decisions, cap \in 0 .. MaxQty : GateSize(e, cap)
    <3>1. PICK e \in Decisions : \E cap \in 0 .. MaxQty : GateSize(e, cap)
      BY <2>3
    <3>2. decision[e] = "submitted"
      BY <3>1 DEF GateSize, AuthorityInv, RowsToVisit, GateLabels
    <3>3. ask' = ask /\ (\A x \in Decisions : x # e => maxQty'[x] = maxQty[x])
      BY <2>0, <3>1 DEF GateSize
    <3> QED BY <3>2, <3>3
  <2>4. CASE UNCHANGED <<ask, maxQty>>
    BY <2>4
  <2> QED
    BY <2>1, <2>2, <2>3, <2>4
    DEF vars, Next, ProcessStep, BrokerStep, RunStageStep, EnterStage,
       LeaveStage, Exit, Fire, Crash, NextDay, TicketLapses, DecideAndGateStep,
       EndPmTurn, DefaultAlert, EndDecision, GateHold, GateApprove, GateEvent,
       GateRaise, RejectTicket, RejectDecision, RejectEvent, EndGate,
       elsewhere, ExecutionStep, ExpireTicket, ExpireDecision, StartTurn,
       PlaceOrder, DenyOrder, RecordOrder, RecordTicket, RecordFill,
       RecordNumbers, RecordEvent, RecordDecision, EndTurn, AlertUnexecuted,
       EndExecution, ReconcileStep, RecoverOrder, RecoverTicket, RecoverAlert,
       EndRecover, PollRead, PollOrder, EndRound, FillOrder, FillEvent,
       FillDecision, FillAlert, PartOrder, PartAlert, CancelOrder, Requery,
       DeadOrder, DeadEvent, DeadDecision, DeadAlert, EndClose, ProblemAlert,
       EndReconcile, beyond
<1> QED BY <1>1, AuthorityInvariant, PTL DEF Spec, ApprovedTermsFrozen

-----------------------------------------------------------------------------
(* A run that was never interrupted books everything. *)

\* What the other invariants say of the rows, in every step below.
RowContext == BooksInv /\ AuthorityInv /\ RowsInv

\* Without a crash, an order that is still working has its ticket consumed,
\* its decision approved and no fill event.
LEMMA PendingIsApproved ==
  ASSUME RowContext, Uninterrupted, crashes = 0, NEW d \in Decisions,
         order[d] \in Pending, d = cur => pc \notin {"record_ticket", "recover_ticket"}
  PROVE  decision[d] = "approved" /\ ticket[d] = "consumed" /\ fills[d] = 0
<1>1. ticket[d] = "consumed"
  BY DEF Uninterrupted, Pending
<1>2. Decided(d)
  BY DEF RowContext, BooksInv, BooksNeverAhead, AuthorityInv,
         OnlyAuthorizedOrders, Pending
<1>3. decision[d] \notin {"executed", "failed", "expired"}
  BY <1>1 DEF RowContext, RowsInv, SettledTogether, Pending, Closed
<1>4. decision[d] \in DecisionStatus /\ fills[d] \in Nat
  BY DEF RowContext, BooksInv, TypeOK, BooksTypeOK
<1>5. fills[d] = 0
  BY <1>4 DEF RowContext, RowsInv, OneFillPerOrder, Pending
<1> QED BY <1>1, <1>2, <1>3, <1>4, <1>5 DEF Decided, DecisionStatus

\* Steps away from a row in hand that leave every row as it is.
LEMMA UninterruptedKept ==
  ASSUME Uninterrupted, crashes' = crashes,
         UNCHANGED <<decision, ticket, order, fills, filledQty, brokerFilled>>,
         pc \notin HalfBooked \cup {"record_ticket", "recover_ticket"},
         pc' \notin HalfBooked \cup {"fill_alert"}
  PROVE  Uninterrupted'
BY DEF Uninterrupted, HalfBooked, Booked

\* A run starts uninterrupted and a crash ends that.
LEMMA UninterruptedProcess ==
  ASSUME TypeOK, Uninterrupted,
         \/ RunStageStep \/ Fire \/ Crash \/ NextDay
         \/ \E d \in Decisions : TicketLapses(d)
  PROVE  Uninterrupted'
<1>1. CASE RunStageStep \/ Fire \/ NextDay
  <2>1. /\ crashes' = crashes
        /\ UNCHANGED <<decision, ticket, order, fills, filledQty, brokerFilled>>
        /\ pc \in {"stage", "body_done", "down"}
        /\ pc' \in {"stage", "down", "pm", "gate", "expire", "recover"}
    BY <1>1 DEF RunStageStep, EnterStage, LeaveStage, Exit, Fire, NextDay,
                Goto, Body
  <2> QED BY <2>1, UninterruptedKept DEF HalfBooked
<1>2. CASE Crash
  <2>1. crashes' = crashes + 1 /\ crashes \in Nat
    BY <1>2 DEF Crash, TypeOK, BooksTypeOK
  <2> QED BY <2>1 DEF Uninterrupted
<1>3. CASE \E d \in Decisions : TicketLapses(d)
  BY <1>3 DEF TicketLapses, Uninterrupted, Booked
<1> QED BY <1>1, <1>2, <1>3

\* What the decision and gate stages do to the rows: they settle only what is
\* undecided, and touch no ticket that is consumed and no order.
LEMMA DecideAndGateRows ==
  ASSUME AuthorityInv, DecideAndGateStep
  PROVE  /\ pc \in PmLabels \cup GateLabels
         /\ pc' \in PmLabels \cup GateLabels \cup {"body_done"}
         /\ UNCHANGED <<order, fills, filledQty, brokerFilled, crashes, day,
                       checkpoint, capped>>
         /\ \A d \in Decisions :
              \/ decision'[d] = decision[d]
              \/ /\ decision[d] \in {"none", "submitted"}
                 /\ decision'[d] \in {"submitted", "held", "approved", "rejected"}
         /\ \A d \in Decisions : ticket[d] = "consumed" => ticket'[d] = "consumed"
         /\ alerts \subseteq alerts'
<1> USE DEF AuthorityInv, TypeOK, BooksTypeOK
<1>1. /\ pc \in PmLabels \cup GateLabels
      /\ pc' \in PmLabels \cup GateLabels \cup {"body_done"}
      /\ UNCHANGED <<order, fills, filledQty, brokerFilled, crashes, day,
                     checkpoint, capped>>
  BY DEF DecideAndGateStep, SubmitDecision, EndPmTurn, DefaultAlert,
     DefaultHold, EndDecision, GateHold, GateSize, GateApprove, GateEvent,
     GateRaise, RejectTicket, RejectDecision, RejectEvent, EndGate, PmLabels,
     GateLabels, Visit, Skip, Next1, Goto, elsewhere
<1>2. \A d \in Decisions :
        \/ decision'[d] = decision[d]
        \/ /\ decision[d] \in {"none", "submitted"}
           /\ decision'[d] \in {"submitted", "held", "approved", "rejected"}
  <2>1. CASE DefaultHold
    <3>1. decision[cur] = "none"
      BY <2>1 DEF DefaultHold, RowsToVisit
    <3> QED BY <2>1, <3>1 DEF DefaultHold
  <2>2. CASE ~DefaultHold
    BY <2>2 DEF DecideAndGateStep, SubmitDecision, EndPmTurn, DefaultAlert,
       EndDecision, GateHold, GateSize, GateApprove, GateEvent, GateRaise,
       RejectTicket, RejectDecision, RejectEvent, EndGate, Swap
  <2> QED BY <2>1, <2>2
<1>3. \A d \in Decisions : ticket[d] = "consumed" => ticket'[d] = "consumed"
  <2>1. CASE ticket' = ticket
    BY <2>1
  <2>2. CASE \E d \in Decisions, cap \in 0 .. MaxQty : GateSize(d, cap)
    BY <2>2 DEF GateSize
  <2>3. CASE RejectTicket
    BY <2>3 DEF RejectTicket, Swap
  <2> QED
    BY <2>1, <2>2, <2>3
    DEF DecideAndGateStep, SubmitDecision, EndPmTurn, DefaultAlert,
        DefaultHold, EndDecision, GateHold, GateApprove, GateEvent, GateRaise,
        RejectDecision, RejectEvent, EndGate
<1>4. alerts \subseteq alerts'
  BY DEF DecideAndGateStep, SubmitDecision, EndPmTurn, DefaultAlert,
     DefaultHold, EndDecision, GateHold, GateSize, GateApprove, GateEvent,
     GateRaise, RejectTicket, RejectDecision, RejectEvent, EndGate, Alert
<1> QED BY <1>1, <1>2, <1>3, <1>4

\* The gate leaves no order half booked.
LEMMA UninterruptedDecideAndGate ==
  ASSUME RowContext, Uninterrupted, DecideAndGateStep
  PROVE  Uninterrupted'
<1> USE DEF RowContext, BooksInv, TypeOK, BooksTypeOK
<1>1. /\ pc \in PmLabels \cup GateLabels
      /\ pc' \in PmLabels \cup GateLabels \cup {"body_done"}
      /\ UNCHANGED <<order, fills, filledQty, brokerFilled, crashes>>
  BY DecideAndGateRows
<1>2. \A d \in Decisions :
        \/ decision'[d] = decision[d]
        \/ /\ decision[d] \in {"none", "submitted"}
           /\ decision'[d] \in {"submitted", "held", "approved", "rejected"}
  BY DecideAndGateRows
<1>3. \A d \in Decisions : ticket[d] = "consumed" => ticket'[d] = "consumed"
  BY DecideAndGateRows
<1>4. /\ pc \notin HalfBooked \cup {"record_ticket", "recover_ticket"}
      /\ pc' \notin HalfBooked \cup {"fill_alert"}
  BY <1>1 DEF HalfBooked, PmLabels, GateLabels
<1>5. crashes = 0 => \A d \in Decisions :
        /\ order[d] # "none" => ticket[d] = "consumed"
        /\ Booked(d)
  BY <1>4 DEF Uninterrupted
<1>6. crashes = 0 => \A d \in Decisions : Booked(d)'
  BY <1>1, <1>2, <1>5 DEF Booked
<1> QED BY <1>1, <1>3, <1>4, <1>5, <1>6 DEF Uninterrupted, HalfBooked

\* A step that changes no row but cur, and settles or holds on to that one.
LEMMA OthersStayBooked ==
  ASSUME Uninterrupted, crashes = 0, NEW row \in Decisions, row = cur,
         \A d \in Decisions : d # row =>
           /\ decision'[d] = decision[d] /\ order'[d] = order[d]
           /\ fills'[d] = fills[d] /\ filledQty'[d] = filledQty[d]
           /\ brokerFilled'[d] = brokerFilled[d] /\ ticket'[d] = ticket[d],
         order'[row] # "none" => ticket'[row] = "consumed",
         Booked(row)' \/ (row = cur' /\ pc' \in HalfBooked)
  PROVE  /\ \A d \in Decisions : order'[d] # "none" => ticket'[d] = "consumed"
         /\ \A d \in Decisions : Booked(d)' \/ (d = cur' /\ pc' \in HalfBooked)
<1>1. \A d \in Decisions : d # row => Booked(d) /\ (Booked(d) => Booked(d)')
  BY DEF Uninterrupted, Booked
<1>2. \A d \in Decisions : d # row => (order[d] # "none" => ticket[d] = "consumed")
  BY DEF Uninterrupted
<1> QED BY <1>1, <1>2

\* An uninterrupted recorder books a fill to the end.
LEMMA UninterruptedExecution ==
  ASSUME RowContext, Uninterrupted, ExecutionStep
  PROVE  Uninterrupted'
<1> USE DEF Goto
<1>a. /\ BooksInv /\ TypeOK /\ BooksTypeOK /\ TurnSane /\ SettledTogether
      /\ RowInBooks /\ FiguresTrue
  BY DEF RowContext, RowsInv, BooksInv, TypeOK
<1>b. crashes' = crashes
  BY DEF ExecutionStep, ExpireTicket, ExpireDecision, StartTurn, PlaceOrder,
     DenyOrder, RecordOrder, RecordTicket, RecordFill, RecordNumbers,
     RecordEvent, RecordDecision, EndTurn, AlertUnexecuted, EndExecution
<1>0. SUFFICES ASSUME crashes = 0 PROVE Uninterrupted'
  BY <1>b DEF Uninterrupted
<1>c. /\ pc \in RecordLabels \cup {"expire_decision"} => cur \in Decisions
      /\ \A a \in acks : a.d \in Decisions
  BY <1>a, CurIsDecision
  DEF RecordLabels, RowLabels, Labels, BooksInv, TypeOK, BrokerTypeOK, Ack
<1>1. CASE \/ StartTurn \/ EndTurn \/ EndExecution
           \/ \E r \in Requests : PlaceOrder(r) \/ DenyOrder(r)
           \/ \E d \in Decisions : AlertUnexecuted(d)
  <2>1. /\ pc \in {"expire", "trader", "exec_alerts"}
        /\ pc' \in {"trader", "exec_alerts", "body_done"}
        /\ UNCHANGED <<decision, ticket, order, fills, filledQty, brokerFilled>>
    BY <1>1 DEF StartTurn, EndTurn, EndExecution, PlaceOrder, DenyOrder,
                AlertUnexecuted, Skip
  <2> QED BY <1>b, <2>1, UninterruptedKept DEF HalfBooked
<1>2. CASE \E d \in Decisions : ExpireTicket(d)
  <2>1. /\ pc = "expire" /\ pc' \in {"expire", "expire_decision"}
        /\ UNCHANGED <<decision, order, fills, filledQty, brokerFilled>>
        /\ \A d \in Decisions : ticket[d] = "consumed" => ticket'[d] = "consumed"
    BY <1>a, <1>2 DEF ExpireTicket, Visit, Skip, Swap, BooksTypeOK
  <2> QED BY <1>b, <2>1 DEF Uninterrupted, HalfBooked, Booked
<1>3. CASE ExpireDecision
  <2>1. /\ pc = "expire_decision" /\ cur \in Decisions /\ order[cur] = "none"
    BY <1>0, <1>a, <1>c, <1>3
    DEF ExpireDecision, RowInBooks, Uninterrupted, RecordLabels
  <2>2. /\ pc' = "expire"
        /\ UNCHANGED <<ticket, order, fills, filledQty, brokerFilled>>
        /\ \A d \in Decisions : d # cur => decision'[d] = decision[d]
    BY <1>a, <1>3, <2>1 DEF ExpireDecision, Next1, Swap, BooksTypeOK
  <2> QED BY <1>b, <2>1, <2>2 DEF Uninterrupted, HalfBooked, Booked
<1>4. CASE \E a \in acks : RecordOrder(a)
  <2>1. PICK a \in acks : RecordOrder(a)
    BY <1>4
  <2>2. /\ a.d \in Decisions /\ pc = "trader" /\ cur' = a.d
        /\ pc' = "record_ticket"
        /\ UNCHANGED <<decision, ticket, fills, filledQty, brokerFilled>>
        /\ order'[a.d] = IF order[a.d] = "none" THEN "submitted" ELSE order[a.d]
        /\ \A d \in Decisions : d # a.d => order'[d] = order[d]
    BY <1>a, <1>c, <2>1 DEF RecordOrder, Swap, BooksTypeOK
  <2>3. decision[a.d] # "expired"
    BY <1>a, <2>2 DEF TurnSane, SettledTogether
  <2>4. \A d \in Decisions : Booked(d)'
    BY <1>0, <2>2, <2>3 DEF Uninterrupted, HalfBooked, Booked
  <2> QED BY <1>0, <1>b, <2>2, <2>4 DEF Uninterrupted, HalfBooked
<1>5. CASE RecordTicket
  <2>1. cur \in Decisions /\ ticket[cur] \in {"open", "consumed"}
    BY <1>a, <1>c, <1>5 DEF RecordTicket, TurnSane, RecordLabels
  <2>2. /\ pc = "record_ticket" /\ pc' \in {"trader", "record_fill"}
        /\ UNCHANGED <<decision, order, fills, filledQty, brokerFilled>>
        /\ ticket'[cur] = "consumed"
        /\ \A d \in Decisions : d # cur => ticket'[d] = ticket[d]
    BY <1>a, <1>5, <2>1 DEF RecordTicket, Swap, Next1, BooksTypeOK
  <2>3. \A d \in Decisions : Booked(d)'
    BY <1>0, <2>2 DEF Uninterrupted, HalfBooked, Booked
  <2> QED BY <1>0, <1>b, <2>1, <2>2, <2>3 DEF Uninterrupted, HalfBooked
<1>6. CASE RecordFill
  <2>1. cur \in Decisions /\ pc = "record_fill" /\ ticket[cur] = "consumed"
    BY <1>a, <1>c, <1>6 DEF RecordFill, TurnSane, RecordLabels
  <2>2. CASE order[cur] = "submitted"
    <3>1. decision[cur] = "approved"
      BY <1>0, <2>1, <2>2, PendingIsApproved DEF Pending
    <3>2. /\ pc' = "record_numbers" /\ cur' = cur
          /\ UNCHANGED <<decision, ticket, fills, filledQty, brokerFilled>>
          /\ \A d \in Decisions : d # cur => order'[d] = order[d]
      BY <1>a, <1>6, <2>1, <2>2 DEF RecordFill, Swap, BooksTypeOK
    <3>3. pc' \in HalfBooked
      BY <3>2 DEF HalfBooked
    <3>4. /\ \A d \in Decisions : order'[d] # "none" => ticket'[d] = "consumed"
          /\ \A d \in Decisions : Booked(d)' \/ (d = cur' /\ pc' \in HalfBooked)
      BY <1>0, <1>b, <2>1, <3>2, <3>3, OthersStayBooked
    <3> QED BY <3>1, <3>2, <3>4 DEF Uninterrupted
  <2>3. CASE order[cur] # "submitted"
    <3>1. /\ pc' = "trader"
          /\ UNCHANGED <<decision, ticket, order, fills, filledQty, brokerFilled>>
      BY <1>6, <2>3 DEF RecordFill, Swap, Next1
    <3> QED BY <1>b, <2>1, <3>1, UninterruptedKept DEF HalfBooked
  <2> QED BY <2>2, <2>3
<1>7. CASE RecordNumbers
  <2>1. /\ cur \in Decisions /\ pc = "record_numbers"
        /\ ticket[cur] = "consumed" /\ decision[cur] = "approved"
    BY <1>0, <1>a, <1>c, <1>7
    DEF RecordNumbers, TurnSane, RecordLabels, Uninterrupted, HalfBooked
  <2>2. /\ pc' = "record_event" /\ cur' = cur
        /\ UNCHANGED <<decision, ticket, order, fills, brokerFilled>>
        /\ \A d \in Decisions : d # cur => filledQty'[d] = filledQty[d]
    BY <1>a, <1>7, <2>1 DEF RecordNumbers, BooksTypeOK
  <2>3. pc' \in HalfBooked
    BY <2>2 DEF HalfBooked
  <2>4. /\ \A d \in Decisions : order'[d] # "none" => ticket'[d] = "consumed"
        /\ \A d \in Decisions : Booked(d)' \/ (d = cur' /\ pc' \in HalfBooked)
    BY <1>0, <1>b, <2>1, <2>2, <2>3, OthersStayBooked
  <2> QED BY <2>1, <2>2, <2>4 DEF Uninterrupted
<1>8. CASE RecordEvent
  <2>1. /\ cur \in Decisions /\ pc = "record_event" /\ fills[cur] = 0
        /\ ticket[cur] = "consumed" /\ decision[cur] = "approved"
    BY <1>0, <1>a, <1>c, <1>8
    DEF RecordEvent, TurnSane, RowInBooks, RecordLabels, Uninterrupted,
        HalfBooked
  <2>2. /\ pc' = "record_decision" /\ cur' = cur /\ fills'[cur] = 1
        /\ UNCHANGED <<decision, ticket, order, filledQty, brokerFilled>>
        /\ \A d \in Decisions : d # cur => fills'[d] = fills[d]
    BY <1>a, <1>8, <2>1 DEF RecordEvent, BooksTypeOK
  <2>3. pc' \in HalfBooked
    BY <2>2 DEF HalfBooked
  <2>4. /\ \A d \in Decisions : order'[d] # "none" => ticket'[d] = "consumed"
        /\ \A d \in Decisions : Booked(d)' \/ (d = cur' /\ pc' \in HalfBooked)
    BY <1>0, <1>b, <2>1, <2>2, <2>3, OthersStayBooked
  <2> QED BY <2>1, <2>2, <2>4 DEF Uninterrupted
<1>9. CASE RecordDecision
  <2>1. /\ cur \in Decisions /\ pc = "record_decision" /\ fills[cur] = 1
        /\ ticket[cur] = "consumed" /\ decision[cur] = "approved"
        /\ order[cur] = "filled" /\ filledQty[cur] = brokerFilled[cur]
    BY <1>0, <1>a, <1>c, <1>9
    DEF RecordDecision, TurnSane, RowInBooks, FiguresTrue, RecordLabels,
        Uninterrupted, HalfBooked
  <2>2. /\ pc' = "trader" /\ decision'[cur] = "executed"
        /\ UNCHANGED <<ticket, order, fills, filledQty, brokerFilled>>
        /\ \A d \in Decisions : d # cur => decision'[d] = decision[d]
    BY <1>a, <1>9, <2>1 DEF RecordDecision, Swap, Next1, BooksTypeOK
  <2>3. \A d \in Decisions : d = cur => Booked(d)'
    BY <2>1, <2>2 DEF Booked
  <2> QED BY <1>b, <2>1, <2>2, <2>3 DEF Uninterrupted, HalfBooked, Booked
<1> QED
  BY <1>1, <1>2, <1>3, <1>4, <1>5, <1>6, <1>7, <1>8, <1>9, ExecutionStep
  DEF ExecutionStep

\* So does an uninterrupted reconciliation.
LEMMA UninterruptedReconcile ==
  ASSUME RowContext, Uninterrupted, ReconcileStep
  PROVE  Uninterrupted'
<1> USE DEF Goto, beyond
<1>a. /\ BooksInv /\ TypeOK /\ BooksTypeOK /\ KnowsRow /\ SettledTogether
      /\ RowInBooks /\ FiguresTrue
  BY DEF RowContext, RowsInv, BooksInv, TypeOK
<1>b. crashes' = crashes
  BY DEF ReconcileStep, RecoverOrder, RecoverTicket, RecoverAlert, EndRecover,
     PollRead, PollOrder, EndRound, FillOrder, FillEvent, FillDecision,
     FillAlert, PartOrder, PartAlert, CancelOrder, Requery, DeadOrder,
     DeadEvent, DeadDecision, DeadAlert, EndClose, ProblemAlert, EndReconcile
<1>0. SUFFICES ASSUME crashes = 0 PROVE Uninterrupted'
  BY <1>b DEF Uninterrupted
<1>c. pc \in RowLabels => cur \in Decisions
  BY <1>a, CurIsDecision DEF BooksInv
<1>1. CASE \/ EndRecover \/ PollRead \/ EndRound \/ EndClose \/ EndReconcile
           \/ RecoverAlert \/ PartAlert \/ DeadAlert
           \/ \E d \in Decisions : CancelOrder(d) \/ ProblemAlert(d)
  <2>1. /\ UNCHANGED <<decision, ticket, order, fills, filledQty, brokerFilled>>
        /\ pc \in {"recover", "recover_alert", "poll_read", "poll", "close",
                  "problems", "part_alert", "dead_alert"}
        /\ pc' \in {"recover", "poll_read", "poll", "body_done", "close",
                   "problems", "requery"}
    BY <1>1 DEF EndRecover, PollRead, EndRound, EndClose, EndReconcile,
       RecoverAlert, PartAlert, DeadAlert, CancelOrder, ProblemAlert, Visit,
       Skip, Next1, Resume
  <2> QED BY <1>b, <2>1, UninterruptedKept DEF HalfBooked
<1>2. CASE \E d \in Decisions : \E a \in Answers(d) : RecoverOrder(d, a)
  <2>1. PICK d \in Decisions : \E a \in Answers(d) : RecoverOrder(d, a)
    BY <1>2
  <2>2. /\ pc = "recover" /\ d \in OpenWithoutOrder
        /\ UNCHANGED <<decision, ticket, fills, filledQty, brokerFilled>>
        /\ \/ pc' = "recover" /\ order' = order
           \/ /\ pc' = "recover_ticket" /\ cur' = d
              /\ order' = Swap(order, d, "none", "submitted")
    BY <1>a, <2>1 DEF RecoverOrder, Visit, Skip, RowInBooks
  <2>3. CASE pc' = "recover"
    BY <1>b, <2>2, <2>3, UninterruptedKept DEF HalfBooked
  <2>4. CASE pc' = "recover_ticket"
    <3>1. /\ order'[d] = "submitted" /\ decision[d] # "expired"
          /\ \A e \in Decisions : e # d => order'[e] = order[e]
      BY <1>a, <2>2, <2>4
      DEF Swap, OpenWithoutOrder, SettledTogether, BooksTypeOK
    <3>2. \A e \in Decisions : Booked(e)'
      BY <1>0, <2>2, <3>1 DEF Uninterrupted, HalfBooked, Booked
    <3> QED
      BY <1>0, <2>2, <2>4, <3>1, <3>2 DEF Uninterrupted, HalfBooked
  <2> QED BY <2>2, <2>3, <2>4
<1>3. CASE RecoverTicket
  <2>1. cur \in Decisions /\ ticket[cur] = "open" /\ pc = "recover_ticket"
    BY <1>a, <1>c, <1>3 DEF RecoverTicket, RowInBooks, RowLabels, Labels
  <2>2. /\ pc' = "recover_alert" /\ ticket'[cur] = "consumed"
        /\ UNCHANGED <<decision, order, fills, filledQty, brokerFilled>>
        /\ \A d \in Decisions : d # cur => ticket'[d] = ticket[d]
    BY <1>a, <1>3, <2>1 DEF RecoverTicket, Swap, BooksTypeOK
  <2>3. \A d \in Decisions : Booked(d)'
    BY <1>0, <2>1, <2>2 DEF Uninterrupted, HalfBooked, Booked
  <2> QED BY <1>0, <1>b, <2>1, <2>2, <2>3 DEF Uninterrupted, HalfBooked
\* The figures of a polled order come to agree with the broker's.
<1>4. ASSUME NEW d \in Decisions,
             UNCHANGED <<decision, ticket, order, fills, brokerFilled>>,
             filledQty'[d] = brokerFilled[d] \/ filledQty'[d] = filledQty[d],
             \A e \in Decisions : e # d => filledQty'[e] = filledQty[e],
             pc \in {"poll", "requery"},
             pc' \in {"poll", "close", "fill_order", "part_order", "dead_order"}
      PROVE  Uninterrupted'
  <2>1. \A e \in Decisions : Booked(e)'
    BY <1>0, <1>4 DEF Uninterrupted, HalfBooked, Booked
  <2> QED BY <1>0, <1>4, <2>1 DEF Uninterrupted, HalfBooked
<1>5. CASE \E d \in Decisions : \E a \in Answers(d) : PollOrder(d, a)
  <2>1. PICK d \in Decisions : \E a \in Answers(d) : PollOrder(d, a)
    BY <1>5
  <2>2. PICK a \in Answers(d) : PollOrder(d, a)
    BY <2>1
  <2>3. a.status \in {"filled", "partially_filled"} => a.filled = brokerFilled[d]
    BY AnswersAreTrue DEF BrokerStatus, Working
  <2>4. /\ UNCHANGED <<decision, ticket, order, fills, brokerFilled>>
        /\ filledQty'[d] = brokerFilled[d] \/ filledQty'[d] = filledQty[d]
        /\ \A e \in Decisions : e # d => filledQty'[e] = filledQty[e]
        /\ pc = "poll" /\ pc' \in {"poll", "fill_order", "part_order"}
    BY <1>a, <2>2, <2>3 DEF PollOrder, WriteNumbers, Skip, BooksTypeOK
  <2> QED BY <1>4, <2>4
<1>6. CASE pc = "requery" /\ \E a \in Answers(cur) : Requery(a)
  <2>1. cur \in Decisions
    BY <1>c, <1>6 DEF RowLabels, Labels
  <2>2. PICK a \in Answers(cur) : Requery(a)
    BY <1>6
  <2>3. a.status \in {"filled", "partially_filled"} \cup Dead =>
          a.filled = brokerFilled[cur]
    BY <2>1, AnswersAreTrue DEF BrokerStatus, Working, Dead
  <2>4. /\ UNCHANGED <<decision, ticket, order, fills, brokerFilled>>
        /\ filledQty'[cur] = brokerFilled[cur] \/ filledQty'[cur] = filledQty[cur]
        /\ \A e \in Decisions : e # cur => filledQty'[e] = filledQty[e]
        /\ pc' \in {"close", "fill_order", "part_order", "dead_order"}
    BY <1>a, <2>1, <2>2, <2>3 DEF Requery, WriteNumbers, Next1, BooksTypeOK
  <2> QED BY <1>4, <1>6, <2>1, <2>4
<1>7. CASE FillOrder
  <2>1. cur \in Decisions /\ pc = "fill_order"
    BY <1>c, <1>7 DEF FillOrder, RowLabels, Labels
  <2>2. CASE order[cur] \in Pending
    <3>1. decision[cur] = "approved" /\ ticket[cur] = "consumed"
      BY <1>0, <2>1, <2>2, PendingIsApproved
    <3>2. /\ pc' = "fill_event" /\ cur' = cur
          /\ UNCHANGED <<decision, ticket, fills, filledQty, brokerFilled>>
          /\ \A d \in Decisions : d # cur => order'[d] = order[d]
      BY <1>a, <1>7, <2>1, <2>2 DEF FillOrder, Swap, Pending, BooksTypeOK
    <3>3. pc' \in HalfBooked
      BY <3>2 DEF HalfBooked
    <3>4. /\ \A d \in Decisions : order'[d] # "none" => ticket'[d] = "consumed"
          /\ \A d \in Decisions : Booked(d)' \/ (d = cur' /\ pc' \in HalfBooked)
      BY <1>0, <2>1, <3>1, <3>2, <3>3, OthersStayBooked
    <3> QED BY <3>1, <3>2, <3>4 DEF Uninterrupted
  <2>3. CASE order[cur] \notin Pending
    <3>1. /\ pc' \in {"close", "poll"}
          /\ UNCHANGED <<decision, ticket, order, fills, filledQty, brokerFilled>>
      BY <1>7, <2>3 DEF FillOrder, Swap, Resume, Next1, Pending
    <3> QED BY <1>b, <2>1, <3>1, UninterruptedKept DEF HalfBooked
  <2> QED BY <2>2, <2>3
<1>8. CASE FillEvent
  <2>1. /\ cur \in Decisions /\ pc = "fill_event" /\ fills[cur] = 0
        /\ decision[cur] = "approved"
        /\ order[cur] # "none" => ticket[cur] = "consumed"
    BY <1>0, <1>a, <1>c, <1>8
    DEF FillEvent, RowLabels, Labels, RowInBooks, Uninterrupted, HalfBooked
  <2>2. /\ pc' = "fill_decision" /\ cur' = cur /\ fills'[cur] = 1
        /\ UNCHANGED <<decision, ticket, order, filledQty, brokerFilled>>
        /\ \A d \in Decisions : d # cur => fills'[d] = fills[d]
    BY <1>a, <1>8, <2>1 DEF FillEvent, BooksTypeOK
  <2>3. pc' \in HalfBooked
    BY <2>2 DEF HalfBooked
  <2>4. /\ \A d \in Decisions : order'[d] # "none" => ticket'[d] = "consumed"
        /\ \A d \in Decisions : Booked(d)' \/ (d = cur' /\ pc' \in HalfBooked)
    BY <1>0, <2>1, <2>2, <2>3, OthersStayBooked
  <2> QED BY <2>1, <2>2, <2>4 DEF Uninterrupted
<1>9. CASE FillDecision
  <2>1. /\ cur \in Decisions /\ pc = "fill_decision" /\ fills[cur] = 1
        /\ decision[cur] = "approved" /\ order[cur] = "filled"
        /\ filledQty[cur] = brokerFilled[cur]
    BY <1>0, <1>a, <1>c, <1>9
    DEF FillDecision, RowLabels, Labels, RowInBooks, FiguresTrue,
        Uninterrupted, HalfBooked
  <2>2. /\ pc' \in {"close", "poll"} /\ decision'[cur] = "executed"
        /\ UNCHANGED <<ticket, order, fills, filledQty, brokerFilled>>
        /\ \A d \in Decisions : d # cur => decision'[d] = decision[d]
    BY <1>a, <1>9, <2>1 DEF FillDecision, Swap, Resume, Next1, BooksTypeOK
  <2>3. \A d \in Decisions : d = cur => Booked(d)'
    BY <2>1, <2>2 DEF Booked
  <2> QED BY <1>0, <1>b, <2>1, <2>2, <2>3 DEF Uninterrupted, HalfBooked, Booked
<1>10. CASE PartOrder
  <2>1. cur \in Decisions /\ pc = "part_order"
    BY <1>c, <1>10 DEF PartOrder, RowLabels, Labels
  <2>2. /\ pc' \in {"close", "poll", "part_alert"}
        /\ UNCHANGED <<decision, ticket, fills, filledQty, brokerFilled>>
        /\ \A d \in Decisions :
             \/ order'[d] = order[d]
             \/ order[d] = "submitted" /\ order'[d] = "partially_filled"
    BY <1>a, <1>10, <2>1 DEF PartOrder, Swap, Resume, Next1, BooksTypeOK
  <2>3. \A d \in Decisions : Booked(d)'
    BY <1>0, <2>1, <2>2 DEF Uninterrupted, HalfBooked, Booked
  <2> QED BY <1>0, <1>b, <2>1, <2>2, <2>3 DEF Uninterrupted, HalfBooked
<1>11. CASE DeadOrder
  <2>1. cur \in Decisions /\ pc = "dead_order" /\ order[cur] \in Pending
    BY <1>a, <1>c, <1>11 DEF DeadOrder, RowLabels, Labels, RowInBooks
  <2>2. decision[cur] = "approved" /\ ticket[cur] = "consumed" /\ fills[cur] = 0
    BY <1>0, <2>1, PendingIsApproved
  <2>3. /\ pc' = IF ans.filled > 0 THEN "dead_event" ELSE "dead_decision"
        /\ cur' = cur /\ ans' = ans
        /\ UNCHANGED <<decision, ticket, fills, filledQty, brokerFilled>>
        /\ \A d \in Decisions : d # cur => order'[d] = order[d]
    BY <1>a, <1>11, <2>1 DEF DeadOrder, BooksTypeOK
  <2>4. pc' \in HalfBooked
    BY <2>3 DEF HalfBooked
  <2>5. /\ \A d \in Decisions : order'[d] # "none" => ticket'[d] = "consumed"
        /\ \A d \in Decisions : Booked(d)' \/ (d = cur' /\ pc' \in HalfBooked)
    BY <1>0, <2>1, <2>2, <2>3, <2>4, OthersStayBooked
  <2> QED BY <2>2, <2>3, <2>5 DEF Uninterrupted
<1>12. CASE DeadEvent
  <2>1. /\ cur \in Decisions /\ pc = "dead_event" /\ fills[cur] = 0
        /\ decision[cur] = "approved" /\ ans.filled > 0
        /\ order[cur] # "none" => ticket[cur] = "consumed"
    BY <1>0, <1>a, <1>c, <1>12
    DEF DeadEvent, RowLabels, Labels, RowInBooks, Uninterrupted, HalfBooked
  <2>2. /\ pc' = "dead_decision" /\ cur' = cur /\ ans' = ans /\ fills'[cur] = 1
        /\ UNCHANGED <<decision, ticket, order, filledQty, brokerFilled>>
        /\ \A d \in Decisions : d # cur => fills'[d] = fills[d]
    BY <1>a, <1>12, <2>1 DEF DeadEvent, BooksTypeOK
  <2>3. pc' \in HalfBooked
    BY <2>2 DEF HalfBooked
  <2>4. /\ \A d \in Decisions : order'[d] # "none" => ticket'[d] = "consumed"
        /\ \A d \in Decisions : Booked(d)' \/ (d = cur' /\ pc' \in HalfBooked)
    BY <1>0, <2>1, <2>2, <2>3, OthersStayBooked
  <2> QED BY <2>1, <2>2, <2>4 DEF Uninterrupted
<1>13. CASE DeadDecision
  <2>1. /\ cur \in Decisions /\ pc = "dead_decision"
        /\ decision[cur] = "approved" /\ order[cur] \in Closed
        /\ filledQty[cur] = brokerFilled[cur] /\ brokerFilled[cur] = ans.filled
        /\ fills[cur] = IF ans.filled > 0 THEN 1 ELSE 0
    BY <1>0, <1>a, <1>c, <1>13
    DEF DeadDecision, RowLabels, Labels, RowInBooks, KnowsRow, FiguresTrue,
        DeadLabels, Uninterrupted, HalfBooked
  <2>2. /\ pc' = "dead_alert"
        /\ decision'[cur] = IF ans.filled > 0 THEN "executed" ELSE "failed"
        /\ UNCHANGED <<ticket, order, fills, filledQty, brokerFilled>>
        /\ \A d \in Decisions : d # cur => decision'[d] = decision[d]
    BY <1>a, <1>13, <2>1 DEF DeadDecision, Swap, BooksTypeOK
  <2>3. \A d \in Decisions : d = cur => Booked(d)'
    BY <2>1, <2>2 DEF Booked, Closed
  <2> QED BY <1>0, <1>b, <2>1, <2>2, <2>3 DEF Uninterrupted, HalfBooked, Booked
<1>14. CASE FillAlert
  BY <1>0, <1>14 DEF FillAlert, Uninterrupted
<1> QED
  BY <1>1, <1>2, <1>3, <1>5, <1>6, <1>7, <1>8, <1>9, <1>10, <1>11, <1>12,
     <1>13, <1>14, ReconcileStep DEF ReconcileStep

\* The broker half books nothing.
LEMMA UninterruptedBroker ==
  ASSUME BooksInv, Uninterrupted, BrokerStep
  PROVE  Uninterrupted'
<1>1. UNCHANGED <<decision, ticket, order, fills, filledQty, crashes, pc, cur, ans>>
  BY DEF BrokerStep
<1>2. \A d \in Decisions : order[d] \in Closed \cup {"filled"} =>
        brokerFilled'[d] = brokerFilled[d]
  BY BrokerFigures DEF BooksInv, BooksNeverAhead, Closed
<1>3. \A d \in Decisions : Booked(d) => Booked(d)'
  BY <1>1, <1>2 DEF Booked, Closed
<1> QED BY <1>1, <1>3 DEF Uninterrupted

\* What an uninterrupted run knows of each row, always.
LEMMA UninterruptedInvariant == Spec => [](RowContext /\ Uninterrupted)
<1>1. Init => Uninterrupted
  BY DEF Init, BooksInit, BrokerInit, ProcessInit, Uninterrupted, Booked,
         HalfBooked
<1>2. RowContext /\ Uninterrupted /\ [Next]_vars => Uninterrupted'
  <2> SUFFICES ASSUME RowContext, Uninterrupted, [Next]_vars
               PROVE  Uninterrupted'
    OBVIOUS
  <2>0. BooksInv /\ TypeOK
    BY DEF RowContext, BooksInv
  <2>1. CASE Next
    BY <2>0, <2>1, UninterruptedProcess, UninterruptedDecideAndGate,
       UninterruptedExecution, UninterruptedReconcile, UninterruptedBroker
    DEF Next, ProcessStep
  <2>2. CASE UNCHANGED vars
    BY <2>2 DEF vars, Uninterrupted, Booked
  <2> QED BY <2>1, <2>2
<1> QED BY <1>1, <1>2, RowsInvariant, PTL DEF Spec, RowContext

\* A run that is never interrupted leaves nothing half booked.
THEOREM WhollyBookedWhenUninterrupted == Spec => []WhollyBooked
<1>1. Uninterrupted => WhollyBooked
  BY DEF Uninterrupted, WhollyBooked, HalfBooked
<1> QED BY <1>1, UninterruptedInvariant, PTL

-----------------------------------------------------------------------------
(* One crash: the fill of an expired decision raises its alert. *)

FillLabels == {"fill_event", "fill_decision", "fill_alert"}

\* Steps away from a fill in hand that fill nothing, and neither approve nor
\* expire the decision of a filled order.
LEMMA InterruptedKept ==
  ASSUME InterruptedOnce, crashes' = crashes, alerts \subseteq alerts',
         pc \notin FillLabels,
         \A d \in Decisions :
           /\ order'[d] = "filled" => order[d] = "filled"
           /\ ticket[d] = "consumed" => ticket'[d] = "consumed"
           /\ \/ decision'[d] = decision[d] \/ order[d] # "filled"
              \/ decision'[d] \notin {"approved", "expired"}
  PROVE  InterruptedOnce'
BY DEF InterruptedOnce, FillLabels

\* Nothing is in hand after the one crash, and what it left has its ticket
\* consumed or is told of.
LEMMA InterruptedProcess ==
  ASSUME TypeOK, Uninterrupted, InterruptedOnce,
         \/ RunStageStep \/ Fire \/ Crash \/ NextDay
         \/ \E d \in Decisions : TicketLapses(d)
  PROVE  InterruptedOnce'
<1>1. CASE RunStageStep \/ Fire \/ NextDay
  <2>1. /\ UNCHANGED <<decision, ticket, order, alerts, crashes>>
        /\ pc \in {"stage", "body_done", "down"}
    BY <1>1 DEF RunStageStep, EnterStage, LeaveStage, Exit, Fire, NextDay
  <2> QED BY <2>1, InterruptedKept DEF FillLabels
\* The first crash leaves a filled order that is not settled only under a
\* consumed ticket.
<1>2. CASE Crash
  <2>1. /\ crashes' = crashes + 1 /\ crashes \in Nat
        /\ UNCHANGED <<decision, ticket, order, alerts>>
    BY <1>2 DEF Crash, TypeOK, BooksTypeOK
  <2>2. CASE crashes = 0
    <3>1. \A d \in Decisions : order[d] = "filled" =>
            /\ decision[d] # "expired"
            /\ decision[d] = "approved" => ticket[d] = "consumed"
      BY <2>2 DEF Uninterrupted, Booked, HalfBooked
    <3> QED BY <2>1, <3>1 DEF InterruptedOnce
  <2>3. CASE crashes # 0
    BY <2>1, <2>3 DEF InterruptedOnce
  <2> QED BY <2>2, <2>3
<1>3. CASE \E d \in Decisions : TicketLapses(d)
  BY <1>3 DEF TicketLapses, InterruptedOnce
<1> QED BY <1>1, <1>2, <1>3

\* The gate fills no order.
LEMMA InterruptedDecideAndGate ==
  ASSUME RowContext, InterruptedOnce, DecideAndGateStep
  PROVE  InterruptedOnce'
<1>1. /\ pc \notin FillLabels /\ UNCHANGED <<order, crashes>>
      /\ alerts \subseteq alerts'
  BY DecideAndGateRows DEF RowContext, FillLabels, PmLabels, GateLabels
<1>2. \A d \in Decisions : ticket[d] = "consumed" => ticket'[d] = "consumed"
  BY DecideAndGateRows DEF RowContext
<1>3. \A d \in Decisions : order[d] = "filled" => decision[d] \notin {"none", "submitted"}
  BY DEF RowContext, BooksInv, BooksNeverAhead, AuthorityInv,
         OnlyAuthorizedOrders, Decided
<1>4. \A d \in Decisions : decision'[d] = decision[d] \/ order[d] # "filled"
  BY <1>3, DecideAndGateRows DEF RowContext
<1> QED BY <1>1, <1>2, <1>4, InterruptedKept

\* The recorder consumes the ticket before it books the fill.
LEMMA InterruptedExecution ==
  ASSUME RowContext, InterruptedOnce, ExecutionStep
  PROVE  InterruptedOnce'
<1> USE DEF Goto
<1>a. /\ TypeOK /\ BooksTypeOK /\ TurnSane /\ SettledTogether /\ RowInBooks
  BY DEF RowContext, RowsInv, BooksInv, TypeOK
<1>b. /\ crashes' = crashes /\ alerts \subseteq alerts' /\ pc \notin FillLabels
  BY DEF ExecutionStep, ExpireTicket, ExpireDecision, StartTurn, PlaceOrder,
     DenyOrder, RecordOrder, RecordTicket, RecordFill, RecordNumbers,
     RecordEvent, RecordDecision, EndTurn, AlertUnexecuted, EndExecution,
     Alert, FillLabels
<1>c. pc \in RecordLabels \cup {"expire_decision"} => cur \in Decisions
  BY CurIsDecision
  DEF RowContext, BooksInv, RecordLabels, RowLabels, Labels
<1>1. CASE ExpireDecision
  <2>1. cur \in Decisions /\ ticket[cur] = "expired"
    BY <1>a, <1>c, <1>1 DEF ExpireDecision, RowInBooks
  <2>2. order[cur] = "filled" /\ crashes <= 1 => decision[cur] # "approved"
    BY <1>b, <2>1 DEF InterruptedOnce, FillLabels
  <2>3. /\ UNCHANGED <<ticket, order, alerts>>
        /\ \A d \in Decisions : d # cur => decision'[d] = decision[d]
        /\ decision[cur] # "approved" => decision'[cur] = decision[cur]
    BY <1>a, <1>1, <2>1 DEF ExpireDecision, Swap, BooksTypeOK
  <2> QED BY <1>b, <2>2, <2>3 DEF InterruptedOnce, FillLabels
<1>2. CASE RecordFill
  <2>1. cur \in Decisions /\ ticket[cur] = "consumed"
    BY <1>a, <1>c, <1>2 DEF RecordFill, TurnSane, RecordLabels
  <2>2. decision[cur] # "expired"
    BY <1>a, <2>1 DEF SettledTogether
  <2>3. /\ UNCHANGED <<decision, ticket, alerts>>
        /\ \A d \in Decisions : d # cur => order'[d] = order[d]
    BY <1>a, <1>2, <2>1 DEF RecordFill, Swap, BooksTypeOK
  <2> QED BY <1>b, <2>1, <2>2, <2>3 DEF InterruptedOnce, FillLabels
<1>3. CASE ~ExpireDecision /\ ~RecordFill
  <2>1. \A d \in Decisions : order'[d] = "filled" => order[d] = "filled"
    BY <1>a, <1>3
    DEF ExecutionStep, ExpireTicket, StartTurn, PlaceOrder, DenyOrder,
        RecordOrder, RecordTicket, RecordNumbers, RecordEvent, RecordDecision,
        EndTurn, AlertUnexecuted, EndExecution, Swap, BooksTypeOK
  <2>2. \A d \in Decisions : ticket[d] = "consumed" => ticket'[d] = "consumed"
    BY <1>a, <1>3
    DEF ExecutionStep, ExpireTicket, StartTurn, PlaceOrder, DenyOrder,
        RecordOrder, RecordTicket, RecordNumbers, RecordEvent, RecordDecision,
        EndTurn, AlertUnexecuted, EndExecution, Swap, BooksTypeOK
  <2>3. \A d \in Decisions : \/ decision'[d] = decision[d]
                             \/ decision'[d] = "executed"
    BY <1>a, <1>3
    DEF ExecutionStep, ExpireTicket, StartTurn, PlaceOrder, DenyOrder,
        RecordOrder, RecordTicket, RecordNumbers, RecordEvent, RecordDecision,
        EndTurn, AlertUnexecuted, EndExecution, Swap, BooksTypeOK
  <2> QED BY <1>b, <2>1, <2>2, <2>3, InterruptedKept
<1> QED BY <1>1, <1>2, <1>3

\* Reconciliation tells of the fill of an expired decision before it goes on.
LEMMA InterruptedReconcile ==
  ASSUME RowContext, InterruptedOnce, ReconcileStep
  PROVE  InterruptedOnce'
<1> USE DEF Goto, beyond
<1>a. TypeOK /\ BooksTypeOK /\ RowInBooks
  BY DEF RowContext, RowsInv, BooksInv, TypeOK
<1>b. crashes' = crashes
  BY DEF ReconcileStep, RecoverOrder, RecoverTicket, RecoverAlert, EndRecover,
     PollRead, PollOrder, EndRound, FillOrder, FillEvent, FillDecision,
     FillAlert, PartOrder, PartAlert, CancelOrder, Requery, DeadOrder,
     DeadEvent, DeadDecision, DeadAlert, EndClose, ProblemAlert, EndReconcile
<1>c. pc \in FillLabels \cup DeadLabels \cup {"fill_order"} => cur \in Decisions
  BY CurIsDecision
  DEF RowContext, BooksInv, FillLabels, DeadLabels, RowLabels, Labels
<1>1. CASE FillOrder
  <2>1. cur \in Decisions /\ pc = "fill_order"
    BY <1>c, <1>1 DEF FillOrder
  <2>2. /\ UNCHANGED <<decision, ticket, alerts>>
        /\ \A d \in Decisions : d # cur => order'[d] = order[d]
        /\ \/ order' = order
           \/ pc' = "fill_event" /\ cur' = cur
    BY <1>a, <1>1, <2>1 DEF FillOrder, Swap, BooksTypeOK
  <2> QED BY <1>b, <2>1, <2>2 DEF InterruptedOnce
<1>2. CASE FillEvent
  BY <1>b, <1>2 DEF FillEvent, InterruptedOnce
<1>3. CASE FillDecision
  <2>1. cur \in Decisions /\ pc = "fill_decision"
    BY <1>c, <1>3 DEF FillDecision, FillLabels
  <2>2. /\ UNCHANGED <<ticket, order, alerts>>
        /\ \A d \in Decisions : d # cur => decision'[d] = decision[d]
        /\ \/ decision'[cur] = "executed"
           \/ /\ decision'[cur] # "approved"
              /\ pc' = "fill_alert" /\ cur' = cur
    BY <1>a, <1>3, <2>1 DEF FillDecision, Swap, BooksTypeOK
  <2> QED BY <1>b, <2>1, <2>2 DEF InterruptedOnce
<1>4. CASE FillAlert
  <2>1. cur \in Decisions /\ pc = "fill_alert"
    BY <1>c, <1>4 DEF FillAlert, FillLabels
  <2>2. /\ UNCHANGED <<decision, ticket, order>> /\ alerts \subseteq alerts'
        /\ "fill_on_unapproved_decision" \in Watched =>
             <<"fill_on_unapproved_decision", cur>> \in alerts'
    BY <1>4 DEF FillAlert, Alert
  <2> QED BY <1>b, <2>1, <2>2 DEF InterruptedOnce
<1>5. CASE ~FillOrder /\ ~FillEvent /\ ~FillDecision /\ ~FillAlert
  <2>1. alerts \subseteq alerts' /\ pc \notin FillLabels
    BY <1>5
    DEF ReconcileStep, RecoverOrder, RecoverTicket, RecoverAlert, EndRecover,
     PollRead, PollOrder, EndRound, PartOrder, PartAlert, CancelOrder, Requery,
     DeadOrder, DeadEvent, DeadDecision, DeadAlert, EndClose, ProblemAlert,
     EndReconcile, Alert, FillLabels
  <2>2. \A d \in Decisions : order'[d] = "filled" => order[d] = "filled"
    <3>1. CASE DeadOrder
      BY <1>a, <1>c, <3>1 DEF DeadOrder, Recorded, BooksTypeOK, DeadLabels
    <3> QED
      BY <1>a, <1>5, <3>1
      DEF ReconcileStep, RecoverOrder, RecoverTicket, RecoverAlert,
        EndRecover, PollRead, PollOrder, EndRound, PartOrder, PartAlert,
        CancelOrder, Requery, DeadEvent, DeadDecision, DeadAlert, EndClose,
        ProblemAlert, EndReconcile, Swap, BooksTypeOK
  <2>3. \A d \in Decisions : ticket[d] = "consumed" => ticket'[d] = "consumed"
    BY <1>a, <1>5
    DEF ReconcileStep, RecoverOrder, RecoverTicket, RecoverAlert, EndRecover,
     PollRead, PollOrder, EndRound, PartOrder, PartAlert, CancelOrder, Requery,
     DeadOrder, DeadEvent, DeadDecision, DeadAlert, EndClose, ProblemAlert,
     EndReconcile, Swap, BooksTypeOK
  <2>4. \A d \in Decisions : \/ decision'[d] = decision[d]
                             \/ decision'[d] \in {"executed", "failed"}
    BY <1>a, <1>5
    DEF ReconcileStep, RecoverOrder, RecoverTicket, RecoverAlert, EndRecover,
     PollRead, PollOrder, EndRound, PartOrder, PartAlert, CancelOrder, Requery,
     DeadOrder, DeadEvent, DeadDecision, DeadAlert, EndClose, ProblemAlert,
     EndReconcile, Swap, BooksTypeOK
  <2> QED BY <1>b, <2>1, <2>2, <2>3, <2>4, InterruptedKept
<1> QED BY <1>1, <1>2, <1>3, <1>4, <1>5

\* After at most one crash, a fill the books cannot attribute has its alert.
THEOREM ExpiredFillsAreLoud == Spec => []ExpiredFillIsLoud
<1>1. Init => InterruptedOnce
  BY DEF Init, BooksInit, InterruptedOnce
<1>2. RowContext /\ Uninterrupted /\ InterruptedOnce /\ [Next]_vars =>
        InterruptedOnce'
  <2> SUFFICES ASSUME RowContext, Uninterrupted, InterruptedOnce, [Next]_vars
               PROVE  InterruptedOnce'
    OBVIOUS
  <2>0. TypeOK
    BY DEF RowContext, BooksInv
  <2>1. CASE Next
    <3>1. CASE BrokerStep
      BY <3>1 DEF BrokerStep, InterruptedOnce
    <3> QED
      BY <2>0, <2>1, <3>1, InterruptedProcess, InterruptedDecideAndGate,
         InterruptedExecution, InterruptedReconcile DEF Next, ProcessStep
  <2>2. CASE UNCHANGED vars
    BY <2>2 DEF vars, InterruptedOnce
  <2> QED BY <2>1, <2>2
<1>3. InterruptedOnce => ExpiredFillIsLoud
  BY DEF InterruptedOnce, ExpiredFillIsLoud
<1> QED BY <1>1, <1>2, <1>3, UninterruptedInvariant, PTL DEF Spec

-----------------------------------------------------------------------------
(* What falls back is loud: tickets without an order, orders still open. *)

\* Reconciliation opens no ticket, takes no order away and no alert back.
LEMMA ReconcileRows ==
  ASSUME TypeOK, HasRow, ReconcileStep
  PROVE  /\ pc \in RecLabels /\ pc' \in RecLabels \cup {"body_done"}
         /\ UNCHANGED <<day, checkpoint>> /\ alerts \subseteq alerts'
         /\ \A d \in Decisions : /\ ticket'[d] = "open" => ticket[d] = "open"
                                 /\ order'[d] = "none" => order[d] = "none"
<1> USE DEF Goto, beyond, TypeOK, BooksTypeOK
<1>1. /\ pc \in RecLabels /\ pc' \in RecLabels \cup {"body_done"}
      /\ UNCHANGED <<day, checkpoint>>
  BY DEF ReconcileStep, RecoverOrder, RecoverTicket, RecoverAlert, EndRecover,
     PollRead, PollOrder, EndRound, FillOrder, FillEvent, FillDecision,
     FillAlert, PartOrder, PartAlert, CancelOrder, Requery, DeadOrder,
     DeadEvent, DeadDecision, DeadAlert, EndClose, ProblemAlert, EndReconcile,
     RecLabels, Visit, Skip, Next1, Resume, WriteNumbers
<1>2. alerts \subseteq alerts'
  BY DEF ReconcileStep, RecoverOrder, RecoverTicket, RecoverAlert, EndRecover,
     PollRead, PollOrder, EndRound, FillOrder, FillEvent, FillDecision,
     FillAlert, PartOrder, PartAlert, CancelOrder, Requery, DeadOrder,
     DeadEvent, DeadDecision, DeadAlert, EndClose, ProblemAlert, EndReconcile,
     Alert
<1>3. \A d \in Decisions : ticket'[d] = "open" => ticket[d] = "open"
  BY DEF ReconcileStep, RecoverOrder, RecoverTicket, RecoverAlert, EndRecover,
     PollRead, PollOrder, EndRound, FillOrder, FillEvent, FillDecision,
     FillAlert, PartOrder, PartAlert, CancelOrder, Requery, DeadOrder,
     DeadEvent, DeadDecision, DeadAlert, EndClose, ProblemAlert, EndReconcile,
     Swap
<1>4. \A d \in Decisions : order'[d] = "none" => order[d] = "none"
  <2>1. CASE DeadOrder
    BY <2>1 DEF DeadOrder, Recorded
  <2> QED
    BY <2>1
    DEF ReconcileStep, RecoverOrder, RecoverTicket, RecoverAlert, EndRecover,
     PollRead, PollOrder, EndRound, FillOrder, FillEvent, FillDecision,
     FillAlert, PartOrder, PartAlert, CancelOrder, Requery, DeadEvent,
     DeadDecision, DeadAlert, EndClose, ProblemAlert, EndReconcile, Swap
<1> QED BY <1>1, <1>2, <1>3, <1>4

\* Starting, dying and the change of day leave no silent ticket behind the
\* checkpoint.
LEMMA TellProcess ==
  ASSUME TypeOK, StageOrder, TicketsToTell,
         \/ RunStageStep \/ Fire \/ Crash \/ NextDay
         \/ \E d \in Decisions : TicketLapses(d)
  PROVE  TicketsToTell'
<1> USE DEF Goto
<1>0. checkpoint \in [Stages -> {"pending", "running", "done"}]
  BY DEF TypeOK, BooksTypeOK
<1>1. CASE EnterStage
  <2>1. /\ UNCHANGED <<tables, day>>
        /\ checkpoint' = [checkpoint EXCEPT ![NextStage] = "running"]
        /\ pc' \in {"pm", "gate", "expire", "recover"}
    BY <1>1 DEF EnterStage, Body
  <2>2. checkpoint'["execution"] = "done" => checkpoint["execution"] = "done"
    BY <1>0, <2>1, StageTypes DEF Stages
  <2> QED BY <2>1, <2>2 DEF TicketsToTell, SilentTickets, Today
<1>2. CASE LeaveStage
  <2>1. /\ UNCHANGED <<tables, day>> /\ pc = "body_done" /\ pc' = "stage"
        /\ checkpoint' = [checkpoint EXCEPT ![NextStage] = "done"]
    BY <1>2 DEF LeaveStage
  <2>2. checkpoint'["execution"] = "done" =>
          checkpoint["execution"] = "done" \/ checkpoint["gate"] = "done"
    BY <1>0, <2>1 DEF NextStage, Stages
  <2> QED BY <2>1, <2>2 DEF TicketsToTell, SilentTickets, Today
<1>3. CASE Exit \/ Fire \/ Crash
  <2>1. /\ pc' \in {"stage", "down"}
        /\ UNCHANGED <<ticket, order, alerts, day, checkpoint>>
    BY <1>3 DEF Exit, Fire, Crash
  <2> QED BY <2>1 DEF TicketsToTell, SilentTickets, Today
<1>4. CASE NextDay
  BY <1>4 DEF NextDay, TicketsToTell, Stages
<1>5. CASE \E d \in Decisions : TicketLapses(d)
  BY <1>5 DEF TicketLapses, TicketsToTell, SilentTickets, Today
<1> QED BY <1>1, <1>2, <1>3, <1>4, <1>5 DEF RunStageStep

\* The end of the turn tells of every ticket that is still open.
LEMMA TellExecution ==
  ASSUME TypeOK, StageOrder, TicketsToTell, ExecutionStep
  PROVE  TicketsToTell'
<1> USE DEF Goto
<1>1. pc \in ExecLabels /\ UNCHANGED <<day, checkpoint>>
  BY DEF ExecutionStep, ExpireTicket, ExpireDecision, StartTurn, PlaceOrder,
     DenyOrder, RecordOrder, RecordTicket, RecordFill, RecordNumbers,
     RecordEvent, RecordDecision, EndTurn, AlertUnexecuted, EndExecution,
     ExecLabels
<1>2. checkpoint["execution"] # "done"
  BY <1>1 DEF StageOrder
<1>3. CASE StartTurn \/ EndTurn
  <2>1. /\ UNCHANGED <<ticket, order, alerts>> /\ pc' # "body_done"
        /\ pc' = "exec_alerts" => todo' = OpenWithoutOrder
    BY <1>3 DEF StartTurn, EndTurn
  <2> QED
    BY <1>1, <1>2, <2>1
    DEF TicketsToTell, SilentTickets, Today, OpenWithoutOrder
<1>4. CASE \E d \in Decisions : AlertUnexecuted(d)
  <2>1. PICK d \in Decisions : AlertUnexecuted(d)
    BY <1>4
  <2>2. /\ pc = "exec_alerts" /\ pc' = "exec_alerts"
        /\ UNCHANGED <<ticket, order>> /\ todo' = todo \ {d}
        /\ "ticket_open_after_exec" \in Watched =>
             alerts' = alerts \cup {<<"ticket_open_after_exec", d>>}
    BY <2>1 DEF AlertUnexecuted, Skip, Alert
  <2> QED BY <1>1, <1>2, <2>2 DEF TicketsToTell, SilentTickets, Today
<1>5. CASE EndExecution
  <2>1. /\ pc = "exec_alerts" /\ todo = {} /\ pc' = "body_done"
        /\ UNCHANGED <<ticket, order, alerts>>
    BY <1>5 DEF EndExecution
  <2> QED BY <1>1, <1>2, <2>1 DEF TicketsToTell, SilentTickets, Today
<1>6. CASE pc' \notin {"exec_alerts", "body_done"}
  BY <1>1, <1>2, <1>6 DEF TicketsToTell
<1> QED
  BY <1>3, <1>4, <1>5, <1>6
  DEF ExecutionStep, ExpireTicket, ExpireDecision, PlaceOrder, DenyOrder,
     RecordOrder, RecordTicket, RecordFill, RecordNumbers, RecordEvent,
     RecordDecision, Visit, Skip, Next1

\* A ticket that the trader left without an order is told of by the end of the
\* execution stage, even when it ran out of time during the turn.
THEOREM UnexecutedTicketsAreLoud == Spec => []UnexecutedTicketIsLoud
<1>1. Init => TicketsToTell
  BY DEF Init, BooksInit, ProcessInit, TicketsToTell, Stages
<1>2. AuthorityInv /\ TicketsToTell /\ [Next]_vars => TicketsToTell'
  <2> SUFFICES ASSUME AuthorityInv, TicketsToTell, [Next]_vars
               PROVE  TicketsToTell'
    OBVIOUS
  <2>0. TypeOK /\ HasRow /\ StageOrder
    BY DEF AuthorityInv
  <2>1. CASE DecideAndGateStep
    <3>1. /\ pc \in PmLabels \cup GateLabels /\ UNCHANGED checkpoint
          /\ pc' \in PmLabels \cup GateLabels \cup {"body_done"}
      BY <2>1, DecideAndGateRows
    <3>2. checkpoint["gate"] # "done" /\ checkpoint["execution"] # "done"
      BY <2>0, <3>1 DEF StageOrder
    <3> QED BY <3>1, <3>2 DEF TicketsToTell, PmLabels, GateLabels
  <2>2. CASE ReconcileStep
    <3>1. /\ pc \in RecLabels /\ pc' \in RecLabels \cup {"body_done"}
          /\ UNCHANGED <<day, checkpoint>> /\ alerts \subseteq alerts'
          /\ \A d \in Decisions : /\ ticket'[d] = "open" => ticket[d] = "open"
                                  /\ order'[d] = "none" => order[d] = "none"
      BY <2>0, <2>2, ReconcileRows
    <3>2. checkpoint["execution"] = "done"
      BY <2>0, <3>1 DEF StageOrder
    <3>3. SilentTickets' \subseteq SilentTickets
      BY <3>1 DEF SilentTickets, Today
    <3> QED BY <3>1, <3>2, <3>3 DEF TicketsToTell, RecLabels
  <2>3. CASE BrokerStep \/ UNCHANGED vars
    BY <2>3 DEF BrokerStep, vars, TicketsToTell, SilentTickets, Today
  <2> QED
    BY <2>0, <2>1, <2>2, <2>3, TellProcess, TellExecution DEF Next, ProcessStep
<1>3. TicketsToTell => UnexecutedTicketIsLoud
  BY DEF TicketsToTell, UnexecutedTicketIsLoud
<1> QED BY <1>1, <1>2, <1>3, AuthorityInvariant, PTL DEF Spec

-----------------------------------------------------------------------------
(* Reconciliation leaves no open order in silence. *)

CapLabels == DeadLabels \cup {"close", "requery", "problems"}

\* The loops a step of another stage cannot be in.
LEMMA CapElsewhere ==
  ASSUME StageOrder, CapSane, OrdersToTell, UNCHANGED <<checkpoint, capped>>,
         pc \in PmLabels \cup GateLabels \cup ExecLabels,
         pc' \in PmLabels \cup GateLabels \cup ExecLabels \cup {"body_done"}
  PROVE  CapSane' /\ OrdersToTell'
<1> USE DEF PmLabels, GateLabels, ExecLabels
<1>1. checkpoint["execution"] # "done" /\ checkpoint["reconciliation"] # "done"
  BY DEF StageOrder, CapSane
<1>2. /\ pc \notin RecLabels \cup {"body_done"} /\ pc' \notin RecLabels
      /\ capped' = capped
  BY DEF RecLabels
<1>3. CapSane'
  BY <1>1, <1>2 DEF CapSane, RecLabels, ApplyLabels, DeadLabels
<1>4. OrdersToTell'
  BY <1>1, <1>2 DEF OrdersToTell, RecLabels, ApplyLabels, DeadLabels
<1> QED BY <1>3, <1>4

\* Starting, dying and the change of day leave no untold order behind it.
LEMMA CapProcess ==
  ASSUME TypeOK, StageOrder, CapSane, OrdersToTell,
         \/ RunStageStep \/ Fire \/ Crash \/ NextDay
         \/ \E d \in Decisions : TicketLapses(d)
  PROVE  CapSane' /\ OrdersToTell'
<1> USE DEF Goto
<1>0. checkpoint \in [Stages -> {"pending", "running", "done"}]
  BY DEF TypeOK, BooksTypeOK
<1>1. ASSUME UNCHANGED <<order, alerts>>, ~capped',
             pc' \in {"stage", "down", "pm", "gate", "expire", "recover"},
             checkpoint'["reconciliation"] = "done" =>
               checkpoint["reconciliation"] = "done"
               \/ (pc = "body_done" /\ checkpoint["execution"] = "done"),
             checkpoint'["reconciliation"] = "done" =>
               checkpoint'["execution"] = "done",
             pc' = "recover" => checkpoint'["reconciliation"] # "done"
      PROVE  CapSane' /\ OrdersToTell'
  <2>1. CapSane'
    BY <1>1 DEF CapSane, RecLabels, ApplyLabels, DeadLabels
  <2>2. Untold' = Untold
    BY <1>1 DEF Untold, Told
  <2>3. OrdersToTell'
    BY <1>1, <2>2 DEF OrdersToTell, ApplyLabels, DeadLabels
  <2> QED BY <2>1, <2>3
<1>2. pc \in {"stage", "down"} => ~capped
  BY DEF CapSane, ApplyLabels, DeadLabels
<1>3. CASE EnterStage
  <2>1. /\ pc = "stage" /\ UNCHANGED <<order, alerts, capped>>
        /\ checkpoint' = [checkpoint EXCEPT ![NextStage] = "running"]
        /\ \E s \in Stages : checkpoint[s] # "done"
        /\ pc' = Body(NextStage)
    BY <1>3 DEF EnterStage
  <2>2. pc' \in {"pm", "gate", "expire", "recover"}
        /\ (pc' = "recover" => NextStage = "reconciliation")
    BY <2>1, StageTypes DEF Body, Stages
  <2>3. /\ checkpoint[NextStage] # "done"
        /\ \A s \in Stages : checkpoint'[s] = "done" <=> checkpoint[s] = "done"
    <3>1. checkpoint[NextStage] # "done"
      BY <2>1 DEF NextStage, Stages, StageOrder
    <3> QED BY <1>0, <2>1, <3>1, StageTypes
  <2>4. /\ checkpoint'["reconciliation"] = "done" <=> checkpoint["reconciliation"] = "done"
        /\ checkpoint'["execution"] = "done" <=> checkpoint["execution"] = "done"
    BY <2>3 DEF Stages
  <2>5. checkpoint["reconciliation"] = "done" => checkpoint["execution"] = "done"
    BY DEF CapSane
  <2>6. pc' = "recover" => checkpoint'["reconciliation"] # "done"
    BY <2>2, <2>3, <2>4
  <2> QED BY <1>1, <1>2, <2>1, <2>2, <2>4, <2>5, <2>6
<1>4. CASE LeaveStage
  <2>1. /\ pc = "body_done" /\ pc' = "stage" /\ ~capped'
        /\ UNCHANGED <<order, alerts>>
        /\ checkpoint' = [checkpoint EXCEPT ![NextStage] = "done"]
    BY <1>4 DEF LeaveStage, NoPollVars
  <2>2. /\ checkpoint'["reconciliation"] = "done" =>
             checkpoint["reconciliation"] = "done" \/ checkpoint["execution"] = "done"
        /\ checkpoint["execution"] = "done" => checkpoint'["execution"] = "done"
    BY <1>0, <2>1, StageTypes DEF NextStage, Stages
  <2>3. checkpoint["reconciliation"] = "done" => checkpoint["execution"] = "done"
    BY DEF CapSane
  <2> QED BY <1>1, <2>1, <2>2, <2>3
<1>5. CASE Exit \/ Fire
  <2>1. /\ pc \in {"stage", "down"} /\ pc' \in {"stage", "down"}
        /\ UNCHANGED <<order, alerts, capped, checkpoint>>
    BY <1>5 DEF Exit, Fire
  <2>2. checkpoint["reconciliation"] = "done" => checkpoint["execution"] = "done"
    BY DEF CapSane
  <2> QED BY <1>1, <1>2, <2>1, <2>2
<1>6. CASE Crash
  <2>1. /\ pc' = "down" /\ ~capped' /\ UNCHANGED <<order, alerts, checkpoint>>
    BY <1>6 DEF Crash, NoPollVars
  <2>2. checkpoint["reconciliation"] = "done" => checkpoint["execution"] = "done"
    BY DEF CapSane
  <2> QED BY <1>1, <2>1, <2>2
<1>7. CASE NextDay
  <2>1. /\ pc = "down" /\ pc' = "down" /\ UNCHANGED <<order, alerts, capped>>
        /\ checkpoint'["reconciliation"] = "pending"
    BY <1>7 DEF NextDay, Stages
  <2> QED BY <1>1, <1>2, <2>1
<1>8. CASE \E d \in Decisions : TicketLapses(d)
  BY <1>8 DEF TicketLapses, CapSane, OrdersToTell, Untold, Told, Apart
<1> QED BY <1>3, <1>4, <1>5, <1>6, <1>7, <1>8 DEF RunStageStep

\* In reconciliation, capped tells the close-out loop from the poll loop.
LEMMA CapReconcile ==
  ASSUME StageOrder, CapSane, ReconcileStep
  PROVE  CapSane'
<1> USE DEF Goto, beyond
<1>1. /\ pc \in RecLabels /\ pc' \in RecLabels \cup {"body_done"}
      /\ UNCHANGED checkpoint
  BY DEF ReconcileStep, RecoverOrder, RecoverTicket, RecoverAlert, EndRecover,
     PollRead, PollOrder, EndRound, FillOrder, FillEvent, FillDecision,
     FillAlert, PartOrder, PartAlert, CancelOrder, Requery, DeadOrder,
     DeadEvent, DeadDecision, DeadAlert, EndClose, ProblemAlert, EndReconcile,
     RecLabels, Visit, Skip, Next1, Resume, WriteNumbers
<1>2. pc \notin ApplyLabels => (capped <=> pc \in CapLabels)
  BY <1>1 DEF CapSane, CapLabels, RecLabels
<1>3. pc' \notin ApplyLabels \cup {"body_done"} => (capped' <=> pc' \in CapLabels)
  <2>1. CASE pc \in ApplyLabels
    BY <2>1
    DEF ReconcileStep, RecoverOrder, RecoverTicket, RecoverAlert, EndRecover,
     PollRead, PollOrder, EndRound, FillOrder, FillEvent, FillDecision,
     FillAlert, PartOrder, PartAlert, CancelOrder, Requery, DeadOrder,
     DeadEvent, DeadDecision, DeadAlert, EndClose, ProblemAlert, EndReconcile,
     Next1, Resume, ApplyLabels, CapLabels, DeadLabels
  <2>2. CASE EndRound
    <3>1. CASE pc' = "poll_read"
      BY <1>2, <2>2, <3>1 DEF EndRound, ApplyLabels, CapLabels, DeadLabels
    <3>2. CASE pc' = "close"
      BY <2>2, <3>2 DEF EndRound, CapLabels
    <3> QED BY <2>2, <3>1, <3>2 DEF EndRound
  <2>3. CASE pc \notin ApplyLabels /\ ~EndRound
    <3>1. \/ capped' = capped /\ (pc' \in CapLabels <=> pc \in CapLabels)
          \/ pc' \in ApplyLabels \cup {"body_done"}
      <4>1. CASE \/ \E d \in Decisions : \E a \in Answers(d) : RecoverOrder(d, a)
                 \/ RecoverTicket \/ RecoverAlert \/ EndRecover \/ PollRead
                 \/ \E d \in Decisions : \E a \in Answers(d) : PollOrder(d, a)
        BY <4>1 DEF RecoverOrder, RecoverTicket, RecoverAlert, EndRecover,
         PollRead, PollOrder, WriteNumbers, Visit, Skip, Next1, ApplyLabels,
         CapLabels, DeadLabels
      <4>2. CASE \/ \E d \in Decisions : CancelOrder(d) \/ ProblemAlert(d)
                 \/ pc = "requery" /\ \E a \in Answers(cur) : Requery(a)
                 \/ EndClose \/ EndReconcile
        BY <4>2 DEF CancelOrder, Requery, EndClose, ProblemAlert, EndReconcile,
         WriteNumbers, Visit, Skip, Next1, ApplyLabels, CapLabels, DeadLabels
      <4>3. CASE \/ FillOrder \/ FillEvent \/ FillDecision \/ FillAlert
                 \/ PartOrder \/ PartAlert \/ DeadOrder \/ DeadEvent
                 \/ DeadDecision \/ DeadAlert
        BY <2>3, <4>3 DEF FillOrder, FillEvent, FillDecision, FillAlert,
         PartOrder, PartAlert, DeadOrder, DeadEvent, DeadDecision, DeadAlert,
         ApplyLabels, CapLabels, DeadLabels, Next1, Skip
      <4> QED BY <2>3, <4>1, <4>2, <4>3 DEF ReconcileStep
    <3> QED BY <1>2, <2>3, <3>1
  <2> QED BY <2>1, <2>2, <2>3
<1>4. checkpoint["reconciliation"] # "done"
  BY <1>1 DEF CapSane
<1> QED BY <1>1, <1>3, <1>4 DEF CapSane, CapLabels

\* What OrdersToTell says from inside reconciliation.
LEMMA OrdersInLoop ==
  ASSUME CapSane, OrdersToTell, CapAlerts \subseteq Watched, pc \in RecLabels
  PROVE  /\ checkpoint["reconciliation"] # "done"
         /\ pc = "poll" => Untold \subseteq todo \cup confirmed \cup problem
         /\ pc \in ApplyLabels /\ ~capped =>
              Untold \ {cur} \subseteq todo \cup confirmed \cup problem
         /\ pc = "close" => Untold \subseteq todo \cup problem
         /\ pc \in ApplyLabels /\ capped => Untold \ {cur} \subseteq todo \cup problem
         /\ pc \in DeadLabels \cup {"requery"} =>
              Untold \ {cur} \subseteq todo \cup problem
<1>1. /\ pc = "poll" => ~capped
      /\ pc \in DeadLabels \cup {"close", "requery"} => capped
  BY DEF CapSane, ApplyLabels, DeadLabels
<1>2. /\ pc \in ApplyLabels \cup DeadLabels \cup {"requery"} => Apart = {cur}
      /\ pc \in {"poll", "close"} => Apart = {}
  BY DEF Apart, RowLabels, Labels, ApplyLabels, DeadLabels
<1>3. checkpoint["reconciliation"] # "done"
  BY DEF CapSane
<1> QED BY <1>1, <1>2, <1>3 DEF OrdersToTell

\* And what it takes to say it of the next state.
LEMMA OrdersNextLoop ==
  ASSUME CapSane', UNCHANGED checkpoint, checkpoint["reconciliation"] # "done",
         pc' \in RecLabels \cup {"body_done"},
         pc' \in ApplyLabels \ {"fill_order", "part_order"} =>
           order'[cur'] # "submitted",
         pc' = "poll" => Untold' \subseteq todo' \cup confirmed' \cup problem',
         pc' \in ApplyLabels /\ ~capped' =>
           Untold' \ {cur'} \subseteq todo' \cup confirmed' \cup problem',
         pc' = "close" => Untold' \subseteq todo' \cup problem',
         pc' \in ApplyLabels /\ capped' =>
           Untold' \ {cur'} \subseteq todo' \cup problem',
         pc' \in DeadLabels \cup {"requery"} =>
           Untold' \ {cur'} \subseteq todo' \cup problem',
         pc' = "problems" => Untold' \subseteq todo',
         pc' = "body_done" => Untold' = {}
  PROVE  OrdersToTell'
<1>1. /\ pc' = "poll" => ~capped'
      /\ pc' \in DeadLabels \cup {"close", "requery"} => capped'
  BY DEF CapSane, ApplyLabels, DeadLabels
<1>2. /\ pc' \in ApplyLabels \cup DeadLabels \cup {"requery"} => Apart' = {cur'}
      /\ pc' \in {"poll", "close"} => Apart' = {}
  BY DEF Apart, RowLabels, Labels, ApplyLabels, DeadLabels
<1> QED BY <1>1, <1>2 DEF OrdersToTell

\* Every order reconciliation leaves open has its alert, or will have.
LEMMA OrdersReconcile ==
  ASSUME RowContext, CapSane, CapSane', OrdersToTell, ReconcileStep
  PROVE  OrdersToTell'
<1> USE DEF Goto, beyond
<1>a. TypeOK /\ BooksTypeOK /\ RowInBooks /\ HasRow /\ StageOrder
  BY DEF RowContext, RowsInv, BooksInv, AuthorityInv, TypeOK
<1>b. /\ pc \in RecLabels /\ pc' \in RecLabels \cup {"body_done"}
      /\ UNCHANGED checkpoint /\ alerts \subseteq alerts'
  BY <1>a, ReconcileRows
<1>0. SUFFICES ASSUME CapAlerts \subseteq Watched PROVE OrdersToTell'
  BY DEF OrdersToTell
<1>c. pc \in RowLabels => cur \in Decisions
  BY <1>a, CurIsDecision
<1>d. ASSUME \A d \in Decisions : order'[d] = "submitted" => order[d] = "submitted"
      PROVE  Untold' \subseteq Untold
  BY <1>b, <1>d DEF Untold, Told
<1>1. CASE \E d \in Decisions : \E a \in Answers(d) : RecoverOrder(d, a)
  <2>1. pc' \in {"recover", "recover_ticket"}
    BY <1>1 DEF RecoverOrder, Visit, Skip
  <2> QED
    BY <1>b, <2>1, OrdersInLoop, OrdersNextLoop, <1>0 DEF ApplyLabels, DeadLabels
<1>2. CASE RecoverTicket \/ RecoverAlert \/ EndRecover
  <2>1. pc' \in {"recover", "recover_alert", "poll_read"}
    BY <1>2 DEF RecoverTicket, RecoverAlert, EndRecover, Next1
  <2> QED
    BY <1>b, <2>1, OrdersInLoop, OrdersNextLoop, <1>0 DEF ApplyLabels, DeadLabels
<1>3. CASE PollRead
  <2>1. /\ pc' = IF PendingOrders = {} THEN "body_done" ELSE "poll"
        /\ todo' = PendingOrders /\ UNCHANGED <<order, alerts>>
    BY <1>3 DEF PollRead
  <2>2. Untold' \subseteq PendingOrders
    BY <2>1 DEF Untold, PendingOrders
  <2> QED
    BY <1>b, <2>1, <2>2, OrdersInLoop, OrdersNextLoop, <1>0
    DEF ApplyLabels, DeadLabels
<1>4. CASE \E d \in Decisions : \E a \in Answers(d) : PollOrder(d, a)
  <2>1. PICK d \in Decisions : \E a \in Answers(d) : PollOrder(d, a)
    BY <1>4
  <2>2. PICK a \in Answers(d) : PollOrder(d, a)
    BY <2>1
  <2>3. /\ pc = "poll" /\ UNCHANGED <<order, alerts, capped>>
        /\ \/ pc' = "poll" /\ todo' = todo \ {d}
              /\ d \in confirmed' \cup problem'
           \/ pc' \in {"fill_order", "part_order"} /\ cur' = d /\ todo' = todo
        /\ \A e \in confirmed \cup problem : e # d => e \in confirmed' \cup problem'
    BY <2>2 DEF PollOrder, WriteNumbers, Skip
  <2>4. Untold' = Untold
    BY <2>3 DEF Untold, Told
  <2>5. ~capped /\ Untold \subseteq todo \cup confirmed \cup problem
    BY <1>0, <1>b, <2>3, OrdersInLoop DEF CapSane, ApplyLabels, DeadLabels
  <2>6. checkpoint["reconciliation"] # "done"
    BY <1>0, <1>b, OrdersInLoop
  <2>7. CASE pc' = "poll"
    <3>1. Untold' \subseteq todo' \cup confirmed' \cup problem'
      BY <2>3, <2>4, <2>5, <2>7
    <3> QED
      BY <1>b, <2>6, <2>7, <3>1, OrdersNextLoop DEF ApplyLabels, DeadLabels
  <2>8. CASE pc' \in {"fill_order", "part_order"}
    <3>1. Untold' \ {cur'} \subseteq todo' \cup confirmed' \cup problem' /\ ~capped'
      BY <2>3, <2>4, <2>5, <2>8
    <3> QED
      BY <1>b, <2>6, <2>8, <3>1, OrdersNextLoop DEF ApplyLabels, DeadLabels
  <2> QED BY <2>3, <2>7, <2>8
<1>5. CASE EndRound
  <2>1. /\ pc = "poll" /\ todo = {} /\ UNCHANGED <<order, alerts, problem>>
        /\ pc' = "poll_read" \/ (pc' = "close" /\ todo' = confirmed)
    BY <1>5 DEF EndRound
  <2>2. Untold' = Untold
    BY <2>1 DEF Untold, Told
  <2> QED
    BY <1>0, <1>b, <2>1, <2>2, OrdersInLoop, OrdersNextLoop
    DEF ApplyLabels, DeadLabels
\* _apply on cur: what is left of it is recorded or was not submitted.
<1>6. ASSUME pc \in ApplyLabels, UNCHANGED <<confirmed, problem, capped>>,
             Untold' \subseteq Untold, cur \in Decisions,
             order'[cur] # "submitted",
             \/ /\ pc' \in ApplyLabels /\ cur' = cur /\ todo' = todo
             \/ /\ pc' = IF capped THEN "close" ELSE "poll"
                /\ todo' = todo \ {cur}
      PROVE  OrdersToTell'
  <2>1. cur \notin Untold'
    BY <1>6 DEF Untold
  <2>2. /\ checkpoint["reconciliation"] # "done"
        /\ ~capped => Untold \ {cur} \subseteq todo \cup confirmed \cup problem
        /\ capped => Untold \ {cur} \subseteq todo \cup problem
    BY <1>0, <1>6, <1>b, OrdersInLoop
  <2>3. CASE pc' \in ApplyLabels
    <3>1. cur' = cur /\ todo' = todo
      BY <1>6, <2>3 DEF ApplyLabels
    <3>2. /\ ~capped' => Untold' \ {cur'} \subseteq todo' \cup confirmed' \cup problem'
          /\ capped' => Untold' \ {cur'} \subseteq todo' \cup problem'
      BY <1>6, <2>2, <3>1
    <3> QED
      BY <1>6, <1>b, <2>2, <2>3, <3>1, <3>2, OrdersNextLoop
      DEF ApplyLabels, DeadLabels
  <2>4. CASE pc' \notin ApplyLabels
    <3>1. /\ pc' = IF capped THEN "close" ELSE "poll"
          /\ todo' = todo \ {cur}
      BY <1>6, <2>4
    <3>2. /\ ~capped => Untold' \subseteq todo' \cup confirmed' \cup problem'
          /\ capped => Untold' \subseteq todo' \cup problem'
      BY <1>6, <2>1, <2>2, <3>1
    <3> QED
      BY <1>6, <1>b, <2>2, <2>4, <3>1, <3>2, OrdersNextLoop
      DEF ApplyLabels, DeadLabels
  <2> QED BY <2>3, <2>4
<1>7. CASE FillOrder
  <2>1. cur \in Decisions
    BY <1>7, <1>c DEF FillOrder, RowLabels, Labels
  <2>2. /\ pc \in ApplyLabels /\ UNCHANGED <<confirmed, problem, capped>>
        /\ order'[cur] # "submitted"
        /\ \A d \in Decisions : order'[d] = "submitted" => order[d] = "submitted"
        /\ \/ /\ pc' \in ApplyLabels /\ cur' = cur /\ todo' = todo
           \/ /\ pc' = IF capped THEN "close" ELSE "poll"
              /\ todo' = todo \ {cur}
    BY <1>a, <1>7, <2>1
    DEF FillOrder, Swap, Resume, Next1, ApplyLabels, BooksTypeOK
  <2> QED BY <1>6, <1>d, <2>1, <2>2
<1>8. CASE PartOrder
  <2>1. cur \in Decisions
    BY <1>8, <1>c DEF PartOrder, RowLabels, Labels
  <2>2. /\ pc \in ApplyLabels /\ UNCHANGED <<confirmed, problem, capped>>
        /\ order'[cur] # "submitted"
        /\ \A d \in Decisions : order'[d] = "submitted" => order[d] = "submitted"
        /\ \/ /\ pc' \in ApplyLabels /\ cur' = cur /\ todo' = todo
           \/ /\ pc' = IF capped THEN "close" ELSE "poll"
              /\ todo' = todo \ {cur}
    BY <1>a, <1>8, <2>1
    DEF PartOrder, Swap, Resume, Next1, ApplyLabels, BooksTypeOK
  <2> QED BY <1>6, <1>d, <2>1, <2>2
<1>9. CASE FillEvent \/ FillDecision \/ FillAlert \/ PartAlert
  <2>1. pc \in {"fill_event", "fill_decision", "fill_alert", "part_alert"}
    BY <1>9 DEF FillEvent, FillDecision, FillAlert, PartAlert
  <2>2. cur \in Decisions /\ order[cur] # "submitted"
    BY <1>0, <1>c, <2>1 DEF OrdersToTell, ApplyLabels, RowLabels, Labels
  <2>3. /\ pc \in ApplyLabels /\ UNCHANGED <<order, confirmed, problem, capped>>
        /\ \/ /\ pc' \in ApplyLabels /\ cur' = cur /\ todo' = todo
           \/ /\ pc' = IF capped THEN "close" ELSE "poll"
              /\ todo' = todo \ {cur}
    BY <1>9 DEF FillEvent, FillDecision, FillAlert, PartAlert, Resume, Next1,
                ApplyLabels
  <2> QED BY <1>6, <1>d, <2>2, <2>3
<1>10. CASE \E d \in Decisions : CancelOrder(d)
  <2>1. PICK d \in Decisions : CancelOrder(d)
    BY <1>10
  <2>2. /\ pc = "close" /\ pc' = "requery" /\ cur' = d
        /\ UNCHANGED <<order, alerts, todo, problem>>
    BY <2>1 DEF CancelOrder, Visit
  <2>3. Untold' = Untold
    BY <2>2 DEF Untold, Told
  <2> QED
    BY <1>0, <1>b, <2>2, <2>3, OrdersInLoop, OrdersNextLoop
    DEF ApplyLabels, DeadLabels
\* The close-out of cur: capped, and done with when told of or recorded dead.
<1>11. ASSUME pc \in DeadLabels \cup {"requery"}, UNCHANGED problem,
              Untold' \subseteq Untold,
              \/ /\ pc' \in DeadLabels \cup {"fill_order", "part_order"}
                 /\ cur' = cur /\ todo' = todo /\ capped' = capped
              \/ /\ pc' = "close" /\ todo' = todo \ {cur} /\ cur \notin Untold'
       PROVE  OrdersToTell'
  <2>1. /\ checkpoint["reconciliation"] # "done" /\ capped
        /\ Untold \ {cur} \subseteq todo \cup problem
    BY <1>0, <1>11, <1>b, OrdersInLoop DEF CapSane, ApplyLabels, DeadLabels
  <2>2. CASE pc' = "close"
    <3>1. Untold' \subseteq todo' \cup problem'
      BY <1>11, <2>1, <2>2 DEF DeadLabels
    <3> QED
      BY <1>b, <2>1, <2>2, <3>1, OrdersNextLoop DEF ApplyLabels, DeadLabels
  <2>3. CASE pc' # "close"
    <3>1. Untold' \ {cur'} \subseteq todo' \cup problem' /\ capped'
      BY <1>11, <2>1, <2>3
    <3>2. pc' \in DeadLabels \cup {"fill_order", "part_order"}
      BY <1>11, <2>3
    <3> QED
      BY <1>b, <2>1, <3>1, <3>2, OrdersNextLoop DEF ApplyLabels, DeadLabels
  <2> QED BY <2>2, <2>3
<1>12. CASE pc = "requery" /\ \E a \in Answers(cur) : Requery(a)
  <2>1. PICK a \in Answers(cur) : Requery(a)
    BY <1>12
  <2>2. /\ UNCHANGED <<order, problem, capped>>
        /\ \/ /\ pc' \in DeadLabels \cup {"fill_order", "part_order"}
              /\ cur' = cur /\ todo' = todo
           \/ /\ pc' = "close" /\ todo' = todo \ {cur}
              /\ Alert("order_unreconciled", cur)
    BY <2>1 DEF Requery, WriteNumbers, Next1, DeadLabels
  <2>3. Untold' \subseteq Untold
    BY <1>d, <2>2
  <2>4. Alert("order_unreconciled", cur) => cur \notin Untold'
    BY <1>0 DEF Alert, CapAlerts, Untold, Told
  <2> QED BY <1>11, <1>12, <2>2, <2>3, <2>4
<1>13. CASE DeadOrder
  <2>1. cur \in Decisions
    BY <1>13, <1>c DEF DeadOrder, RowLabels, Labels
  <2>2. /\ pc \in DeadLabels /\ pc' \in DeadLabels
        /\ UNCHANGED <<problem, cur, todo, capped>>
        /\ \A d \in Decisions : order'[d] = "submitted" => order[d] = "submitted"
    BY <1>a, <1>13, <2>1 DEF DeadOrder, Recorded, DeadLabels, BooksTypeOK
  <2> QED BY <1>11, <1>d, <2>2
<1>14. CASE DeadEvent \/ DeadDecision
  <2>1. /\ pc \in DeadLabels /\ pc' \in DeadLabels
        /\ UNCHANGED <<order, problem, cur, todo, capped>>
    BY <1>14 DEF DeadEvent, DeadDecision, DeadLabels
  <2> QED BY <1>11, <1>d, <2>1
<1>15. CASE DeadAlert
  <2>1. /\ pc \in DeadLabels /\ pc' = "close" /\ todo' = todo \ {cur}
        /\ UNCHANGED <<order, problem>>
    BY <1>15 DEF DeadAlert, Next1, DeadLabels
  <2>2. order'[cur] # "submitted"
    BY <1>a, <1>15, <2>1 DEF DeadAlert, RowInBooks, DeadLabels, Closed
  <2> QED BY <1>11, <1>d, <2>1, <2>2 DEF Untold
<1>16. CASE EndClose
  <2>1. /\ pc = "close" /\ todo = {} /\ pc' = "problems" /\ todo' = problem
        /\ UNCHANGED <<order, alerts>>
    BY <1>16 DEF EndClose
  <2>2. Untold' = Untold
    BY <2>1 DEF Untold, Told
  <2> QED
    BY <1>0, <1>b, <2>1, <2>2, OrdersInLoop, OrdersNextLoop
    DEF ApplyLabels, DeadLabels
<1>17. CASE \E d \in Decisions : ProblemAlert(d)
  <2>1. PICK d \in Decisions : ProblemAlert(d)
    BY <1>17
  <2>2. /\ pc = "problems" /\ pc' = "problems" /\ todo' = todo \ {d}
        /\ order' = order /\ Alert("order_unresolved_at_cap", d)
    BY <2>1 DEF ProblemAlert, Skip
  <2>3. Untold' \subseteq Untold /\ d \notin Untold'
    BY <1>0, <1>d, <2>2 DEF Alert, CapAlerts, Untold, Told
  <2>4. Untold \subseteq todo
    BY <1>0, <2>2 DEF OrdersToTell
  <2> QED
    BY <1>0, <1>b, <2>2, <2>3, <2>4, OrdersInLoop, OrdersNextLoop
    DEF ApplyLabels, DeadLabels
<1>18. CASE EndReconcile
  <2>1. /\ pc = "problems" /\ todo = {} /\ pc' = "body_done"
        /\ UNCHANGED <<order, alerts>>
    BY <1>18 DEF EndReconcile
  <2>2. Untold' = {}
    BY <1>0, <2>1 DEF OrdersToTell, Untold, Told
  <2> QED
    BY <1>0, <1>b, <2>1, <2>2, OrdersInLoop, OrdersNextLoop
    DEF ApplyLabels, DeadLabels
<1> QED
  BY <1>1, <1>2, <1>3, <1>4, <1>5, <1>7, <1>8, <1>9, <1>10, <1>12, <1>13,
     <1>14, <1>15, <1>16, <1>17, <1>18, ReconcileStep DEF ReconcileStep

\* An order still recorded as submitted when reconciliation is done has its
\* alert, whichever of the cap's loops it fell to.
THEOREM OpenOrdersAreLoud == Spec => []OpenOrderIsLoud
<1>1. Init => CapSane /\ OrdersToTell
  BY DEF Init, BooksInit, ProcessInit, CapSane, OrdersToTell, Stages, RecLabels,
         ApplyLabels, DeadLabels
<1>2. RowContext /\ CapSane /\ OrdersToTell /\ [Next]_vars =>
        CapSane' /\ OrdersToTell'
  <2> SUFFICES ASSUME RowContext, CapSane, OrdersToTell, [Next]_vars
               PROVE  CapSane' /\ OrdersToTell'
    OBVIOUS
  <2>0. AuthorityInv /\ TypeOK /\ HasRow /\ StageOrder
    BY DEF RowContext, AuthorityInv
  <2>1. CASE DecideAndGateStep
    BY <2>0, <2>1, DecideAndGateRows, CapElsewhere
  <2>2. CASE ExecutionStep
    <3>1. /\ pc \in ExecLabels /\ pc' \in ExecLabels \cup {"body_done"}
          /\ UNCHANGED <<checkpoint, capped>>
      BY <2>2 DEF ExecutionStep, ExpireTicket, ExpireDecision, StartTurn,
        PlaceOrder, DenyOrder, RecordOrder, RecordTicket, RecordFill,
        RecordNumbers, RecordEvent, RecordDecision, EndTurn, AlertUnexecuted,
        EndExecution, ExecLabels, Visit, Skip, Next1, Goto
    <3> QED BY <2>0, <3>1, CapElsewhere
  <2>3. CASE ReconcileStep
    <3>1. CapSane'
      BY <2>0, <2>3, CapReconcile
    <3> QED BY <2>3, <3>1, OrdersReconcile
  <2>4. CASE BrokerStep \/ UNCHANGED vars
    BY <2>4 DEF BrokerStep, vars, CapSane, OrdersToTell, Untold, Told, Apart
  <2> QED
    BY <2>0, <2>1, <2>2, <2>3, <2>4, CapProcess DEF Next, ProcessStep
<1>3. OrdersToTell => OpenOrderIsLoud
  BY DEF OrdersToTell, OpenOrderIsLoud, Untold, Told
<1> QED BY <1>1, <1>2, <1>3, RowsInvariant, PTL DEF Spec, RowContext
=============================================================================
