------------------------------ MODULE Critique ------------------------------
(***************************************************************************)
(* The G1 leg of the night, scripts/critic_g1.py: one Critic turn per head *)
(* of the queue, oldest spec first, and the tool the turn ends by calling. *)
(* The leg holds a lock of its own: there is at most one.  It drains the   *)
(* outbox as it ends.  When it runs is the night's business.               *)
(***************************************************************************)
EXTENDS Specs

CONSTANT MaxG1Turns   \* MAX_G1_TURNS_PER_NIGHT

ASSUME CritiqueAssumption == MaxG1Turns \in Nat \ {0}

VARIABLES
    verdict,   \* strategy_critiques: the spec the writing turn was bound to
    critic     \* the leg: where it is, the head it serves, the spec its turn
               \* was shown, the turns taken, its alert

critiqueVars == <<specVars, verdict, critic>>

NoLeg == [at |-> "idle", head |-> None, shown |-> None, turns |-> 0,
          alert |-> None]

\* Mutant: the state alone, as strategy-contracts.md section 2 once had it.
AwaitsByState(s) == state[s] = "SPEC"

Awaits(s) == state[s] = "SPEC" /\ verdict[s] = None

Awaiting == {s \in SpecIds : Awaits(s)}

\* The head of the queue: specs_awaiting_critique with its limit of one.
IsHead(s) ==
    \E i \in DOMAIN specs :
        /\ specs[i] = s /\ Awaits(s)
        /\ \A j \in 1 .. i - 1 : ~ Awaits(specs[j])

CritiqueInit ==
    /\ verdict = [s \in SpecIds |-> None]
    /\ critic = NoLeg

StartLeg == critic' = [NoLeg EXCEPT !.at = "select"]

EndsLeg(alert) == critic' = [NoLeg EXCEPT !.at = "done", !.alert = alert]

ServesHead ==
    /\ critic.turns < MaxG1Turns
    /\ \E s \in SpecIds :
        /\ IsHead(s)
        /\ critic' = [critic EXCEPT !.at = "turn", !.head = s,
                                    !.turns = @ + 1]

\* Mutant: the loop ends at its cap without a word.
SelectHeadUncapped ==
    /\ critic.at = "select"
    /\ \/ Orphans # {} /\ EndsLeg("failed")
       \/ Orphans = {} /\ Awaiting = {} /\ EndsLeg(None)
       \/ Orphans = {} /\ ServesHead
       \/ Orphans = {} /\ critic.turns = MaxG1Turns /\ EndsLeg(None)
    /\ UNCHANGED <<specVars, verdict>>

\* next_pending_spec, which refuses to answer while there is an orphan.
SelectHead ==
    /\ critic.at = "select"
    /\ \/ Orphans # {} /\ EndsLeg("failed")
       \/ Orphans = {} /\ Awaiting = {} /\ EndsLeg(None)
       \/ Orphans = {} /\ ServesHead
       \/ Orphans = {} /\ Awaiting # {} /\ critic.turns = MaxG1Turns
          /\ EndsLeg("capped")
    /\ UNCHANGED <<specVars, verdict>>

\* get_spec_brief, which the seat calls in the turn: it reads the queue again,
\* and may be shown another spec than the one the turn was launched for.
ReadBrief ==
    /\ critic.at = "turn" /\ critic.shown = None /\ Orphans = {}
    /\ \E s \in SpecIds : IsHead(s) /\ critic' = [critic EXCEPT !.shown = s]
    /\ UNCHANGED <<specVars, verdict>>

WriteVerdict(s) ==
    /\ verdict[s] = None
    /\ verdict' = [verdict EXCEPT ![s] = critic.head]
    /\ UNCHANGED <<specVars, critic>>

\* Mutant: the turn's expected_spec_id is not looked at.
SubmitAnyCritique ==
    critic.at = "turn" /\ critic.shown # None /\ WriteVerdict(critic.shown)

\* submit_spec_critique for the spec that was shown: refused unless it is the
\* one the turn is bound to.  The row and its event are one commit.
SubmitCritique ==
    /\ critic.at = "turn" /\ critic.shown = critic.head
    /\ WriteVerdict(critic.head)

\* The turn returns, whatever it did: make_turn swallows its faults.
EndCriticTurn ==
    /\ critic.at = "turn"
    /\ critic' = [critic EXCEPT !.at = "check"]
    /\ UNCHANGED <<specVars, verdict>>

\* has_verdict.
CheckVerdict ==
    /\ critic.at = "check"
    /\ \/ verdict[critic.head] # None
          /\ critic' = [critic EXCEPT !.at = "select", !.head = None,
                                      !.shown = None]
       \/ verdict[critic.head] = None
          /\ EndsLeg(IF Orphans = {} THEN "wrote_nothing" ELSE "failed")
    /\ UNCHANGED <<specVars, verdict>>

CritiqueStep ==
    SelectHead \/ ReadBrief \/ SubmitCritique \/ EndCriticTurn \/ CheckVerdict

(***************************************************************************)
(* Properties.                                                             *)
(***************************************************************************)

\* A verdict was written by the turn launched for its spec, whatever moved in
\* the queue under that turn: the write is irreversible, and a verdict that
\* another spec's turn consumed would leave its spec unreviewed for good
\* (handle_submit_spec_critique's binding).
VerdictForShown == \A s \in SpecIds : verdict[s] \in {None, s}

\* A leg that ends by itself and says nothing leaves no spec pending, whatever
\* was registered under its last turn: a turn that wrote nothing, the cap and
\* an orphan are all loud (critique_and_log's stalled and capped, _guarded).
LegIsLoud ==
    [][critic.at # "done" /\ critic'.at = "done" /\ critic'.alert = None
         => Awaiting' = {}]_critiqueVars

\* Every spec that waits for a verdict gets one, or leaves SPEC: no head
\* blocks the queue for ever (the two predicates of specs_awaiting_critique).
QueueDrains == \A s \in SpecIds : Awaits(s) ~> ~ Awaits(s)

=============================================================================
