------------------------------- MODULE Specs -------------------------------
(***************************************************************************)
(* Strategy specs and their lifecycle rows: state/specs.py, the tool that  *)
(* registers a spec (agents/tools/fund_server.py) and the hand-run job     *)
(* that buys the quant seat one turn, scripts/register_spec.py.  The job   *)
(* holds a lock of its own, so there is at most one; it overlaps the G1    *)
(* night and the backtests, which extend this module.  It drains the       *)
(* outbox as it ends and alerts whenever it exits 1: that is Outbox's      *)
(* subject.                                                                *)
(***************************************************************************)
EXTENDS Naturals, Sequences, FiniteSets

CONSTANTS
    SpecIds,      \* content hashes
    OldSpecs,     \* those a build before the lifecycle table may have left
    MaxCrashes    \* bound on the crashes and the failing commits

ASSUME SpecsAssumption ==
    /\ IsFiniteSet(SpecIds) /\ OldSpecs \subseteq SpecIds
    /\ MaxCrashes \in Nat

None == "none"
ASSUME NoneIsNoSpec == None \notin SpecIds

VARIABLES
    specs,      \* strategy_specs, in the order the selector reads them
    state,      \* strategies.state; None where the row is missing
    announced,  \* strategy_spec events, per spec
    reg,        \* the registration job: where it is, the last spec it wrote,
                \* the rows it counted before its turn, its exit code
    stranded,   \* history: specs whose event was never committed
    crashes

tables == <<specs, state, announced>>
specVars == <<tables, reg, stranded, crashes>>

Registered(s) == \E i \in DOMAIN specs : specs[i] = s
Orphans == {s \in SpecIds : Registered(s) /\ state[s] = None}

\* spec_count, and the depth of the G1 queue as queue_depth reads it: through
\* the selector, which refuses to answer while there is an orphan.
SpecCount == Len(specs)
DepthReadable == Orphans = {}

NoRun == [at |-> "idle", spec |-> None, before |-> 0, exit |-> 1]

\* A new database, or an old one whose specs have no lifecycle row.
SpecsInit ==
    /\ \E old \in SUBSET OldSpecs :
        /\ specs \in [1 .. Cardinality(old) -> old]
        /\ \A s \in old : Registered(s)
        /\ announced = [s \in SpecIds |-> IF s \in old THEN 1 ELSE 0]
    /\ state = [s \in SpecIds |-> None]
    /\ reg = NoRun
    /\ stranded = {} /\ crashes = 0

(***************************************************************************)
(* Registration.                                                           *)
(***************************************************************************)

\* make register-spec: a trading day or another run exits 2, and a note that
\* is missing, unreadable or empty exits 1 (read_brief); nothing is built.
StartRegistration ==
    /\ reg.at = "idle"
    /\ \E sponsored \in BOOLEAN :
        reg' = IF sponsored THEN [NoRun EXCEPT !.at = "count"] ELSE NoRun
    /\ UNCHANGED <<tables, stranded, crashes>>

\* What raises outside the turn ends in an alert, register_spec_failed, and
\* in exit 1.
FailRegistration == reg' = NoRun

\* The depth of the queue and the count of the rows, before the turn is bought.
CountBefore ==
    /\ reg.at = "count"
    /\ \/ DepthReadable
          /\ reg' = [reg EXCEPT !.at = "turn", !.before = SpecCount]
       \/ ~ DepthReadable /\ FailRegistration
    /\ UNCHANGED <<tables, stranded, crashes>>

\* Two specs of one second are read in the order of their hashes.
PlaceSpec(s) ==
    \E i \in {Len(specs), Len(specs) + 1} \ {0} :
        specs' = SubSeq(specs, 1, i - 1) \o <<s>> \o SubSeq(specs, i, Len(specs))

InsertRows(s) ==
    /\ PlaceSpec(s)
    /\ state' = [state EXCEPT ![s] = "SPEC"]

\* Mutant: INSERT OR REPLACE of the lifecycle row, and the event with it.
InsertSpecAgain(s) ==
    /\ reg.at = "turn"
    /\ IF Registered(s) THEN state' = [state EXCEPT ![s] = "SPEC"] /\ UNCHANGED specs
                        ELSE InsertRows(s)
    /\ reg' = [reg EXCEPT !.at = "announce", !.spec = s]
    /\ UNCHANGED <<announced, stranded, crashes>>

\* insert_strategy_spec: the first commit of submit_strategy_spec.  Content
\* that is on the books already changes nothing, and nothing is announced.
InsertSpec(s) ==
    /\ reg.at = "turn"
    /\ ~ Registered(s)
    /\ InsertRows(s)
    /\ reg' = [reg EXCEPT !.at = "announce", !.spec = s]
    /\ UNCHANGED <<announced, stranded, crashes>>

\* append_event: the second commit.
AnnounceSpec ==
    /\ reg.at = "announce"
    /\ announced' = [announced EXCEPT ![reg.spec] = @ + 1]
    /\ reg' = [reg EXCEPT !.at = "turn"]
    /\ UNCHANGED <<specs, state, stranded, crashes>>

\* The turn has ended, cut short or not: exit 0 by the count of the rows, and
\* a run that wrote none exits 1 (register_spec_wrote_nothing).  The depth is
\* read again: an orphan cannot have appeared meanwhile.
EndRegistration ==
    /\ reg.at = "turn"
    /\ reg' = IF SpecCount > reg.before
                THEN [NoRun EXCEPT !.exit = 0, !.spec = reg.spec]
                ELSE NoRun
    /\ UNCHANGED <<tables, stranded, crashes>>

Strands == stranded' = stranded \cup IF reg.at = "announce" THEN {reg.spec} ELSE {}

\* The event's commit raises: the tool answers with an error, the turn goes on.
LoseEvent ==
    /\ reg.at = "announce" /\ crashes < MaxCrashes
    /\ reg' = [reg EXCEPT !.at = "turn"] /\ crashes' = crashes + 1
    /\ Strands
    /\ UNCHANGED tables

CrashRegistration ==
    /\ reg.at # "idle" /\ crashes < MaxCrashes
    /\ reg' = NoRun /\ crashes' = crashes + 1
    /\ Strands
    /\ UNCHANGED tables

\* The INSERT the error message of OrphanedSpecs spells out, run by hand.
Repair ==
    /\ Orphans # {}
    /\ state' = [s \in SpecIds |-> IF s \in Orphans THEN "SPEC" ELSE state[s]]
    /\ UNCHANGED <<specs, announced, reg, stranded, crashes>>

\* strategies: SPEC -> BACKTEST, the one edge of the lifecycle with a caller.
ToBacktest(s) ==
    /\ state[s] = "SPEC"
    /\ state' = [state EXCEPT ![s] = "BACKTEST"]

SpecsNext ==
    \/ StartRegistration \/ CountBefore \/ AnnounceSpec \/ EndRegistration
    \/ LoseEvent \/ CrashRegistration \/ Repair
    \/ \E s \in SpecIds : InsertSpec(s)

\* A spec is announced at most once, and a registered one that is not
\* announced lost its event to a fault between the handler's two commits, one
\* spec per fault: a re-registration neither repeats the event nor makes up for
\* it.  A run that exits 0 wrote a row itself, and Slack has been told of it or
\* never will be.
AnnouncedOnce ==
    /\ \A s \in SpecIds :
        /\ announced[s] <= 1
        /\ Registered(s) /\ announced[s] = 0 =>
            s \in stranded \/ (reg.at = "announce" /\ reg.spec = s)
    /\ Cardinality(stranded) <= crashes
    /\ reg.exit = 0 =>
        reg.spec # None /\ (announced[reg.spec] = 1 \/ reg.spec \in stranded)

=============================================================================
