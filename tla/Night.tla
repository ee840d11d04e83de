------------------------------- MODULE Night -------------------------------
(***************************************************************************)
(* The evening unit (ops/fund-pnl.service): the P&L line, the resolutions, *)
(* the weights, the reflections, one program after the other, each one     *)
(* also runnable by hand beside it (make close-pnl, resolve, weights,      *)
(* reflect).  The unit stops at the first program that exits nonzero, and  *)
(* systemd kills it after 30 minutes wherever it is.  The unit's last leg  *)
(* is module Critique's.  Days are ages, not dates: a call's since it was  *)
(* made, a resolution's since it was written.                              *)
(***************************************************************************)
EXTENDS Integers, FiniteSets

CONSTANTS
    Calls,      \* decisions
    Defaults,   \* those the orchestrator wrote for a silent PM: no charter
    Horizon,    \* days from a call to its outcome
    Lookback,   \* REFLECT_LOOKBACK_DAYS
    MaxTurns,   \* MAX_TURNS_PER_NIGHT
    MaxFaults,  \* bound on failures and kills
    MaxHands    \* bound on the programs run by hand

ASSUME NightAssumption ==
    /\ IsFiniteSet(Calls) /\ Defaults \subseteq Calls
    /\ Horizon \in Nat /\ Lookback \in Nat /\ MaxTurns \in Nat \ {0}
    /\ MaxFaults \in Nat /\ MaxHands \in Nat

Procs == {"unit", "hand"}
NotYet == -1     \* the age of a row that is not there
None == "none"

VARIABLES
    age,        \* of each call, up to Horizon
    resolved,   \* resolutions: the age of the row, or NotYet
    reflection, \* resolutions.reflection: written or not
    weights,    \* the resolutions the newest weights row was computed from
    pnlLines,   \* the pnl events of today
    named,      \* the reflections an alert has given up for lost
    silent,     \* the turns of this reflect run that wrote nothing
    proc,       \* each process: the step it is at, the rows and job it holds
    fired,      \* whether today's timer has fired
    faults, hands

rows == <<age, resolved, reflection, weights, pnlLines, named>>
vars == <<rows, silent, proc, fired, faults, hands>>

TooOld == Lookback + 1
Resolved == {d \in Calls : resolved[d] # NotYet}
Pending == {d \in Resolved \ Defaults : ~ reflection[d]}

Legs == {"pnl", "resolve", "weights", "reflect"}
Reflecting == {"frame", "turn", "check", "rollup"}

At(step) == [at |-> step, due |-> {}, job |-> None]
Moves(p, step) == proc' = [proc EXCEPT ![p] = At(step)]
Holds(p, step, due) == proc' = [proc EXCEPT ![p] = [At(step) EXCEPT !.due = due]]

\* Exit 0 of the leg: the unit goes on, a program run by hand is over.
Ends(p, next) == Moves(p, IF p = "unit" THEN next ELSE "idle")

Init ==
    /\ age \in [Calls -> 0 .. Horizon]
    /\ resolved = [d \in Calls |-> NotYet]
    /\ reflection = [d \in Calls |-> FALSE]
    /\ weights = {} /\ pnlLines = 0 /\ named = {} /\ silent = {}
    /\ proc = [p \in Procs |-> At("idle")]
    /\ fired = FALSE /\ faults = 0 /\ hands = 0

(***************************************************************************)
(* The calendar, the timer and the hand.                                   *)
(***************************************************************************)

\* A day passes; the guillotine keeps the unit within its evening.
NextDay ==
    /\ \A p \in Procs : proc[p].at = "idle"
    /\ age' = [d \in Calls |-> IF age[d] < Horizon THEN age[d] + 1 ELSE Horizon]
    /\ resolved' = [d \in Calls |->
                        IF d \notin Resolved THEN NotYet
                        ELSE IF resolved[d] > TooOld THEN resolved[d]
                        ELSE resolved[d] + 1]
    /\ pnlLines' = 0 /\ fired' = FALSE
    /\ UNCHANGED <<reflection, weights, named, silent, proc, faults, hands>>

\* fund-pnl.timer, Mon..Fri, Persistent=false: a day may pass without it.
Fire ==
    /\ ~ fired /\ proc["unit"].at = "idle"
    /\ fired' = TRUE
    /\ Moves("unit", "pnl")
    /\ UNCHANGED <<rows, silent, faults, hands>>

RunByHand(leg) ==
    /\ hands < MaxHands /\ proc["hand"].at = "idle"
    /\ hands' = hands + 1
    /\ Moves("hand", leg)
    /\ UNCHANGED <<rows, silent, fired, faults>>

\* The guillotine, a kill, a power cut: nothing runs on the way out.
Killed(p) ==
    /\ proc[p].at # "idle" /\ faults < MaxFaults
    /\ faults' = faults + 1
    /\ Moves(p, "idle")
    /\ silent' = IF proc[p].at \in Reflecting THEN {} ELSE silent
    /\ UNCHANGED <<rows, fired, hands>>

\* Exit 1: no environment, the broker, the feed or the database raises.
Raises(p) ==
    /\ proc[p].at \in {"pnl", "resolve", "weights", "reflect"}
    /\ faults < MaxFaults
    /\ faults' = faults + 1
    /\ Moves(p, "idle")
    /\ UNCHANGED <<rows, silent, fired, hands>>

(***************************************************************************)
(* close_pnl and resolve_day: no lock.                                     *)
(***************************************************************************)

\* eod_pnl raises PnlUnavailable: no bar of today, no usable equity, no line.
NoPnl(p) ==
    /\ proc[p].at = "pnl"
    /\ Ends(p, "resolve")
    /\ UNCHANGED <<rows, silent, fired, faults, hands>>

\* The guard: a SELECT over the events of today.
ReadPnl(p) ==
    /\ proc[p].at = "pnl"
    /\ IF pnlLines = 0 THEN Moves(p, "append") ELSE Ends(p, "resolve")
    /\ UNCHANGED <<rows, silent, fired, faults, hands>>

AppendPnl(p) ==
    /\ proc[p].at = "append"
    /\ pnlLines' = pnlLines + 1
    /\ Ends(p, "resolve")
    /\ UNCHANGED <<age, resolved, reflection, weights, named,
                   silent, fired, faults, hands>>

\* _DUE: every decision without a row, tickets and orders or not.
ReadDue(p) ==
    /\ proc[p].at = "resolve"
    /\ \/ Calls \subseteq Resolved /\ Ends(p, "weights")
       \/ ~ Calls \subseteq Resolved /\ Holds(p, "insert", Calls \ Resolved)
    /\ UNCHANGED <<rows, silent, fired, faults, hands>>

\* _measure: at its horizon; which of them the closes can price is not ours.
Measured(due) == SUBSET {d \in due : age[d] = Horizon}

\* resolve_due: a row for each call at its horizon that the closes can price,
\* in one commit; decision_id is UNIQUE, and one row that is there by now
\* raises for all.
InsertResolutions(p) ==
    /\ proc[p].at = "insert"
    /\ \E priced \in Measured(proc[p].due) :
        \/ /\ priced \cap Resolved = {}
           /\ resolved' = [d \in Calls |-> IF d \in priced THEN 0 ELSE resolved[d]]
           /\ Ends(p, "weights")
        \/ /\ priced \cap Resolved # {}
           /\ Moves(p, "idle")
           /\ UNCHANGED resolved
    /\ UNCHANGED <<age, reflection, weights, pnlLines, named, silent, fired,
                   faults, hands>>

(***************************************************************************)
(* weights_day: no lock either; every failure ends in an alert and exit 0. *)
(***************************************************************************)

\* Mutant: the graded rows are left out of the hash, so none is ever news.
ReadScoreboardByWindow(p) ==
    /\ proc[p].at = "weights"
    /\ \/ Ends(p, "reflect")
       \/ weights = {} /\ Holds(p, "write", Resolved)
    /\ UNCHANGED <<rows, silent, fired, faults, hands>>

\* scoreboard_rows and the hash of the newest row: unchanged writes nothing.
ReadScoreboard(p) ==
    /\ proc[p].at = "weights"
    /\ \/ weights = Resolved /\ Ends(p, "reflect")
       \/ weights # Resolved /\ Holds(p, "write", Resolved)
    /\ UNCHANGED <<rows, silent, fired, faults, hands>>

\* One commit; it replaces the row of the same night, whoever wrote it.
WriteWeights(p) ==
    /\ proc[p].at = "write"
    /\ weights' = proc[p].due
    /\ Ends(p, "reflect")
    /\ UNCHANGED <<age, resolved, reflection, pnlLines, named, silent,
                   fired, faults, hands>>

\* A raise, a score that is not finite: last good row stands, exit 0.
SkipWeights(p) ==
    /\ proc[p].at = "write" /\ faults < MaxFaults
    /\ faults' = faults + 1
    /\ Ends(p, "reflect")
    /\ UNCHANGED <<rows, silent, fired, hands>>

(***************************************************************************)
(* reflect_day, under a lock of its own.                                   *)
(***************************************************************************)

\* Mutant: two overlapping runs, each with its list.
NotLocked(p) == FALSE

Locked(p) == \E q \in Procs \ {p} : proc[q].at \in Reflecting

\* Mutant: named on the day it drops out of the window, and on no other.
AgedOutToday == {d \in Pending : resolved[d] = TooOld}

\* aged_out_reflections: below the window, which only moves on.
AgedOut == {d \in Pending : resolved[d] >= TooOld}

InWindow == {d \in Pending : resolved[d] < TooOld}

\* due_reflections: up to the cap; which ones come first by id is left open.
Due == {due \in SUBSET InWindow :
            Cardinality(due) = IF Cardinality(InWindow) < MaxTurns
                               THEN Cardinality(InWindow) ELSE MaxTurns}

\* The alert for the aged out, then the list of the night.
StartReflect(p) ==
    /\ proc[p].at = "reflect"
    /\ \/ Locked(p) /\ Ends(p, "idle") /\ UNCHANGED named
       \/ /\ ~ Locked(p)
          /\ named' = named \cup AgedOut
          /\ \E due \in Due : Holds(p, "frame", due)
    /\ UNCHANGED <<age, resolved, reflection, weights, pnlLines,
                   silent, fired, faults, hands>>

\* One turn per listed call.
NextJob(p) ==
    /\ proc[p].at = "frame"
    /\ \/ proc[p].due = {} /\ Moves(p, "rollup")
       \/ \E d \in proc[p].due :
            proc' = [proc EXCEPT ![p] = [at |-> "turn", job |-> d,
                                         due |-> proc[p].due \ {d}]]
    /\ UNCHANGED <<rows, silent, fired, faults, hands>>

\* store_reflection: first write wins, a second is refused.
Stores(d) == ~ reflection[d] /\ reflection' = [reflection EXCEPT ![d] = TRUE]

\* submit_reflection, on the call the turn is bound to; what the seat does
\* after it in the turn changes nothing.
SubmitReflection(p) ==
    /\ proc[p].at = "turn"
    /\ Stores(proc[p].job)
    /\ proc' = [proc EXCEPT ![p].at = "check"]
    /\ UNCHANGED <<age, resolved, weights, pnlLines, named, silent,
                   fired, faults, hands>>

\* The turn returns having written nothing; its faults stay inside make_turn.
QuietTurn(p) ==
    /\ proc[p].at = "turn"
    /\ proc' = [proc EXCEPT ![p].at = "check"]
    /\ UNCHANGED <<rows, silent, fired, faults, hands>>

\* The row is read again: only what is written counts.
CheckReflection(p) ==
    /\ proc[p].at = "check"
    /\ silent' = IF reflection[proc[p].job] THEN silent
                 ELSE silent \cup {proc[p].job}
    /\ proc' = [proc EXCEPT ![p].at = "frame", ![p].job = None]
    /\ UNCHANGED <<rows, fired, faults, hands>>

\* Mutant: the rollup is behind the loop, not in its finally.
ReflectRaisesOut(p) ==
    /\ proc[p].at \in {"frame", "check"} /\ faults < MaxFaults
    /\ faults' = faults + 1
    /\ Moves(p, "idle")
    /\ UNCHANGED <<rows, silent, fired, hands>>

\* A read of the loop raises, and the rest of the night's list is dropped.
ReflectRaises(p) ==
    /\ proc[p].at \in {"frame", "check"} /\ faults < MaxFaults
    /\ faults' = faults + 1
    /\ Moves(p, "rollup")
    /\ UNCHANGED <<rows, silent, fired, hands>>

\* finally: one alert names the silent turns; the drain is Outbox's.
RollUp(p) ==
    /\ proc[p].at = "rollup"
    /\ silent' = {}
    /\ Ends(p, "idle")
    /\ UNCHANGED <<rows, fired, faults, hands>>

Leg(p) ==
    \/ NoPnl(p) \/ ReadPnl(p) \/ AppendPnl(p)
    \/ ReadDue(p) \/ InsertResolutions(p)
    \/ ReadScoreboard(p) \/ WriteWeights(p)
    \/ StartReflect(p) \/ NextJob(p) \/ SubmitReflection(p) \/ QuietTurn(p)
    \/ CheckReflection(p) \/ RollUp(p)

Next ==
    \/ NextDay \/ Fire
    \/ \E leg \in Legs : RunByHand(leg)
    \/ \E p \in Procs :
        Leg(p) \/ Killed(p) \/ Raises(p) \/ SkipWeights(p) \/ ReflectRaises(p)

Spec == Init /\ [][Next]_vars

\* The programs run on, days pass, and the timer does not miss every evening.
FairSpec ==
    /\ Spec
    /\ \A p \in Procs : WF_vars(Leg(p))
    /\ WF_vars(NextDay)
    /\ SF_vars(Fire)

(***************************************************************************)
(* Properties.                                                             *)
(***************************************************************************)

\* No turn is paid for a decision that carries its reflection: the list read
\* at the start of the run is still true when each turn is bought.
NoTurnForWritten ==
    [][\A p \in Procs :
        proc[p].at = "frame" /\ proc'[p].at = "turn" =>
            ~ reflection[proc'[p].job]]_vars

\* A turn that was read to have written nothing is named in an alert unless its
\* run is killed, also when a later decision's read raises (reflect_and_log's
\* finally).  A turn whose own reading raises is on no list: the run ends in
\* its traceback, and no alert names the decision.
SilentTurnIsLoud ==
    silent # {} => \E p \in Procs : proc[p].at \in Reflecting

\* Every resolved call of a seat is reflected on or given up for lost in an
\* alert; it never just drops out of the window.
ReflectedOrNamed ==
    \A d \in Calls \ Defaults : d \in Resolved ~> reflection[d] \/ d \in named

\* Every resolution enters the weights for good, although two overlapping
\* runs may put an older row over a newer one for a night.
ScoredForGood == \A d \in Calls : d \in Resolved ~> [](d \in weights)

=============================================================================
