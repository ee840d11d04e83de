----------------------------- MODULE DayProcess -----------------------------
(***************************************************************************)
(* The run_day process: its program counter and locals, the checkpointed   *)
(* stages (run_stage), and its death and re-fire.  flock admits one        *)
(* run_day at a time, so there is one program counter.  Every commit of a  *)
(* stage body is a step of its own: the process may die between any two.   *)
(***************************************************************************)
EXTENDS Broker

CONSTANTS
    MaxCrashes,   \* bound on the crashes of one behaviour
    MaxPolls      \* re-polls of reconcile_orders: max_wait_s / poll_s

ASSUME ProcessAssumption == MaxCrashes \in Nat /\ MaxPolls \in Nat

VARIABLES
    pc,           \* the commit the process is at; "down" when none runs
    todo,         \* rows the current loop has still to visit
    cur,          \* the row being handled
    ans,          \* the broker's last answer, or the tool response
    polls,        \* re-polls made so far
    confirmed,    \* reconcile_orders' confirmed_open
    problem,      \* reconcile_orders' problem
    capped        \* past the cap: _apply returns into the close-out loop

locals == <<todo, cur, ans>>
pollVars == <<polls, confirmed, problem, capped>>

Labels ==
    {"down", "stage", "body_done",
     "pm", "defaults", "default_hold",
     "gate", "gate_approve", "gate_event", "reject", "reject_decision",
     "reject_event",
     "expire", "expire_decision", "trader", "exec_alerts",
     "record_ticket", "record_fill", "record_numbers", "record_event",
     "record_decision",
     "recover", "recover_ticket", "recover_alert",
     "poll_read", "poll", "fill_order", "fill_event", "fill_decision",
     "fill_alert", "part_order", "part_alert",
     "close", "requery", "dead_order", "dead_event", "dead_decision",
     "dead_alert", "problems"}

ProcessTypeOK ==
    /\ pc \in Labels
    /\ todo \in SUBSET Decisions
    /\ cur \in Decisions \cup {None}
    /\ ans \in Answer
    /\ polls \in 0 .. MaxPolls
    /\ confirmed \in SUBSET Decisions
    /\ problem \in SUBSET Decisions
    /\ capped \in BOOLEAN

\* A new process, and one between two stages, holds nothing in memory.
NoLocals == todo' = {} /\ cur' = None /\ ans' = Nothing
NoPollVars ==
    polls' = 0 /\ confirmed' = {} /\ problem' = {} /\ capped' = FALSE

ProcessInit ==
    /\ pc = "down"
    /\ todo = {} /\ cur = None /\ ans = Nothing
    /\ polls = 0 /\ confirmed = {} /\ problem = {} /\ capped = FALSE

Goto(label) == pc' = label
\* Back to a loop: the row just handled is dropped from it.
Next1(label) ==
    Goto(label) /\ todo' = todo \ {cur} /\ cur' = None /\ ans' = Nothing
Visit(label, d) == Goto(label) /\ cur' = d /\ UNCHANGED <<todo, ans>>
Skip(label, d) == Goto(label) /\ todo' = todo \ {d} /\ UNCHANGED <<cur, ans>>

\* The stage run_day reaches next: done stages are skipped, never re-run.
NextStage ==
    IF checkpoint["decision"] # "done" THEN "decision"
    ELSE IF checkpoint["gate"] # "done" THEN "gate"
    ELSE IF checkpoint["execution"] # "done" THEN "execution"
    ELSE "reconciliation"

\* Where each stage's body starts, and the rows its first loop reads.
Body(s) ==
    CASE s = "decision" -> "pm"
      [] s = "gate" -> "gate"
      [] s = "execution" -> "expire"
      [] OTHER -> "recover"

\* Mutant: the gate reads every row of the run date, settled or not.
FirstRowsSettledToo(s) ==
    CASE s = "gate" -> Today
      [] s = "execution" -> {d \in Decisions : ticket[d] = "open" /\ d \in lapsed}
      [] s = "reconciliation" -> OpenWithoutOrder
      [] OTHER -> {}

\* Mutant: the gate forgets the run date.
FirstRowsAnyDay(s) ==
    CASE s = "gate" -> {d \in Decisions : decision[d] = "submitted"}
      [] s = "execution" -> {d \in Decisions : ticket[d] = "open" /\ d \in lapsed}
      [] s = "reconciliation" -> OpenWithoutOrder
      [] OTHER -> {}

FirstRows(s) ==
    CASE s = "gate" -> {d \in Today : decision[d] = "submitted"}
      [] s = "execution" -> {d \in Decisions : ticket[d] = "open" /\ d \in lapsed}
      [] s = "reconciliation" -> OpenWithoutOrder
      [] OTHER -> {}

(***************************************************************************)
(* run_stage.  A pending checkpoint moves to running; a running one is a   *)
(* crash resume and its body starts over.                                  *)
(***************************************************************************)
EnterStage ==
    /\ pc = "stage"
    /\ \E s \in Stages : checkpoint[s] # "done"
    /\ checkpoint' = [checkpoint EXCEPT ![NextStage] = "running"]
    /\ Goto(Body(NextStage))
    /\ todo' = FirstRows(NextStage)
    /\ UNCHANGED <<tables, day, crashes, brokerVars, wire, cur, ans, pollVars>>

LeaveStage ==
    /\ pc = "body_done"
    /\ checkpoint' = [checkpoint EXCEPT ![NextStage] = "done"]
    /\ Goto("stage")
    /\ NoLocals
    /\ NoPollVars
    /\ UNCHANGED <<tables, day, crashes, brokerVars, wire>>

\* Every stage is done: the process exits.
Exit ==
    /\ pc = "stage"
    /\ \A s \in Stages : checkpoint[s] = "done"
    /\ Goto("down")
    /\ UNCHANGED <<tables, dayVars, brokerVars, wire, locals, pollVars>>

\* The timer's fire, or a human's re-fire of the same run date.
Fire ==
    /\ pc = "down"
    /\ Goto("stage")
    /\ UNCHANGED <<tables, dayVars, brokerVars, wire, locals, pollVars>>

\* The process dies between two commits; a placement on the wire stays there.
Crash ==
    /\ pc # "down"
    /\ crashes < MaxCrashes
    /\ crashes' = crashes + 1
    /\ Goto("down")
    /\ NoLocals
    /\ NoPollVars
    /\ HangUp
    /\ UNCHANGED <<tables, day, checkpoint, brokerVars>>

(***************************************************************************)
(* A new trading day: fresh checkpoints, nothing of yesterday's wire, and  *)
(* every ticket older than its 45 minutes.  The run date after the last    *)
(* deciding day stands for all the quiet days that follow.                 *)
(***************************************************************************)
NextDay ==
    /\ pc = "down"
    /\ day' = IF day <= MaxDay THEN day + 1 ELSE day
    /\ checkpoint' = [s \in Stages |-> "pending"]
    /\ lapsed' = {d \in Decisions : ticket[d] # "none"}
    /\ calls' = {}
    /\ UNCHANGED <<decisionVars, ticket, maxQty, orderVars, alerts, crashes,
                   brokerVars, acks, pc, locals, pollVars>>

\* 45 minutes pass while the day runs.
TicketLapses(d) ==
    /\ ticket[d] # "none"
    /\ d \notin lapsed
    /\ lapsed' = lapsed \cup {d}
    /\ UNCHANGED <<decisionVars, ticket, maxQty, orderVars, alerts, dayVars,
                   brokerVars, wire, pc, locals, pollVars>>
=============================================================================
