----------------------------- MODULE Backtests -----------------------------
(***************************************************************************)
(* Trials of registered specs: the run_backtest tool (agents/tools/        *)
(* fund_server.py), the engine behind it and the one-shot holdout          *)
(* (fundbt/run_backtest.py), over the registry (fundbt/registry.py), beside *)
(* registration.  Every SELECT and every commit is a step of its own: *)
(* a session keeps what it read and acts on it when others have gone on.   *)
(*                                                                         *)
(* A request stands for what run_key hashes: spec, parameters, data and    *)
(* seed.  The engine's numbers are left out: no decision here depends on   *)
(* them.                                                                   *)
(***************************************************************************)
EXTENDS Specs

CONSTANTS
    Sessions,         \* callers of run_backtest, concurrent
    Requests,         \* pairs <<spec, configuration>> they may ask for
    HoldoutRequests,  \* those the orchestrator may score on the holdout
    SearchBudget      \* the spec's search_budget

ASSUME BacktestsAssumption ==
    /\ IsFiniteSet(Sessions) /\ IsFiniteSet(Requests)
    /\ IsFiniteSet(HoldoutRequests)
    /\ \A r \in Requests \cup HoldoutRequests : r[1] \in SpecIds
    /\ SearchBudget \in Nat \ {0}
    /\ <<None, None>> \notin Requests \cup HoldoutRequests

VARIABLES
    trial,     \* trial_registry: None, "run" or "rejected", per request
    scoredOn,  \* trial_registry rows with is_holdout
    consumed,  \* holdout_evaluations: spec -> the request that consumed it
    returned,  \* history: how often a holdout score was returned, per spec
    told,      \* budget_exhausted events, per request
    sess,      \* sessions: where, for which request, the token they read
    eval       \* the holdout evaluation under way

registry == <<trial, scoredOn, consumed>>
vars == <<specVars, registry, returned, told, sess, eval>>

NoRequest == <<None, None>>
NoSession == [at |-> "idle", req |-> NoRequest, token |-> 0, answer |-> None]
NoEval == [at |-> "idle", req |-> NoRequest]

\* strategies.state_version: the one edge this code takes bumps it once.
Token(s) == IF state[s] = "BACKTEST" THEN 1 ELSE 0

SpecTrials(s) == Cardinality({r \in Requests : r[1] = s /\ trial[r] # None})
                 + Cardinality({r \in scoredOn : r[1] = s})

Init ==
    /\ SpecsInit
    /\ trial = [r \in Requests |-> None]
    /\ scoredOn = {} /\ consumed = [s \in SpecIds |-> NoRequest]
    /\ returned = [s \in SpecIds |-> 0] /\ told = [r \in Requests |-> 0]
    /\ sess = [i \in Sessions |-> NoSession] /\ eval = NoEval

(***************************************************************************)
(* One call of run_backtest by session i.                                  *)
(***************************************************************************)
Goes(i, label) == sess' = [sess EXCEPT ![i].at = label]

\* What was answered stays in the session, for the properties.
Answers(i, what) == sess' = [sess EXCEPT ![i].at = "idle", ![i].token = 0,
                                         ![i].answer = what]
Refuses(i) == sess' = [sess EXCEPT ![i] = NoSession]

\* One SELECT: the spec, its lifecycle state, the token.  An unregistered
\* spec, an orphan, a rule or parameter out of bounds and a provider without
\* data are refused here and nothing is written.
ReadSpec(i, r) ==
    /\ sess[i].at = "idle"
    /\ state[r[1]] \in {"SPEC", "BACKTEST"}
    /\ sess' = [sess EXCEPT ![i] = [at |-> "lookup", req |-> r,
                                    token |-> Token(r[1]), answer |-> None]]
    /\ UNCHANGED <<specVars, registry, returned, told, eval>>

\* Mutant: a cached run is answered on the spot.
LookUpAndReturn(i) ==
    /\ sess[i].at = "lookup"
    /\ CASE trial[sess[i].req] = None -> Goes(i, "count")
         [] trial[sess[i].req] = "rejected" -> Refuses(i)
         [] trial[sess[i].req] = "run" -> Answers(i, "ok")
    /\ UNCHANGED <<specVars, registry, returned, told, eval>>

\* Mutant: a cached rejection does not count as an answer.
LookUpRuns(i) ==
    /\ sess[i].at = "lookup"
    /\ Goes(i, IF trial[sess[i].req] = "run" THEN "advance" ELSE "count")
    /\ UNCHANGED <<specVars, registry, returned, told, eval>>

\* registry.get, asked before the budget: a rejection stays a rejection.
LookUp(i) ==
    /\ sess[i].at = "lookup"
    /\ CASE trial[sess[i].req] = None -> Goes(i, "count")
         [] trial[sess[i].req] = "rejected" -> Refuses(i)
         [] trial[sess[i].req] = "run" -> Goes(i, "advance")
    /\ UNCHANGED <<specVars, registry, returned, told, eval>>

\* Mutant: off by one at the budget.
CountTrialsLate(i) ==
    /\ sess[i].at = "count"
    /\ Goes(i, IF SpecTrials(sess[i].req[1]) > SearchBudget THEN "reject" ELSE "run")
    /\ UNCHANGED <<specVars, registry, returned, told, eval>>

\* registry.spec_trial_count, every row of the spec: rejections and holdouts
\* spend the budget too.
CountTrials(i) ==
    /\ sess[i].at = "count"
    /\ Goes(i, IF SpecTrials(sess[i].req[1]) >= SearchBudget THEN "reject" ELSE "run")
    /\ UNCHANGED <<specVars, registry, returned, told, eval>>

\* registry.log: INSERT OR IGNORE on run_key.
Log(r, what) == trial' = [trial EXCEPT ![r] = IF @ = None THEN what ELSE @]

LogRejection(i) ==
    /\ sess[i].at = "reject"
    /\ Log(sess[i].req, "rejected")
    /\ Goes(i, "tell")
    /\ UNCHANGED <<specVars, scoredOn, consumed, returned, told, eval>>

\* The handler's budget_exhausted event: a second commit.
TellRejection(i) ==
    /\ sess[i].at = "tell"
    /\ told' = [told EXCEPT ![sess[i].req] = @ + 1]
    /\ Refuses(i)
    /\ UNCHANGED <<specVars, registry, returned, eval>>

\* NaN in the closes, or too few of them: raised before anything is logged.
RunFails(i) ==
    /\ sess[i].at = "run"
    /\ Refuses(i)
    /\ UNCHANGED <<specVars, registry, returned, told, eval>>

LogRun(i) ==
    /\ sess[i].at = "run"
    /\ Log(sess[i].req, "run")
    /\ Goes(i, "advance")
    /\ UNCHANGED <<specVars, scoredOn, consumed, returned, told, eval>>

\* advance_to_backtest, its own read of the state.
ReadState(i) ==
    /\ sess[i].at = "advance"
    /\ IF state[sess[i].req[1]] = "BACKTEST" THEN Answers(i, "ok") ELSE Goes(i, "swap")
    /\ UNCHANGED <<specVars, registry, returned, told, eval>>

\* The swap, on the token of the first read: lost if another took the edge.
SwapState(i) ==
    LET s == sess[i].req[1] IN
    /\ sess[i].at = "swap"
    /\ \/ /\ state[s] = "SPEC" /\ Token(s) = sess[i].token
          /\ state' = [state EXCEPT ![s] = "BACKTEST"]
          /\ Answers(i, "ok")
       \/ /\ ~ (state[s] = "SPEC" /\ Token(s) = sess[i].token)
          /\ UNCHANGED state
          /\ Answers(i, "stale")
    /\ UNCHANGED <<specs, announced, reg, stranded, crashes,
                   registry, returned, told, eval>>

CrashSession(i) ==
    /\ sess[i].at # "idle" /\ crashes < MaxCrashes
    /\ sess' = [sess EXCEPT ![i] = NoSession] /\ crashes' = crashes + 1
    /\ UNCHANGED <<tables, reg, stranded, registry, returned, told, eval>>

(***************************************************************************)
(* evaluate_holdout, which no seat reaches: G3's one look at the holdout.  *)
(***************************************************************************)
StartHoldout(r) ==
    /\ eval.at = "idle" /\ Registered(r[1])
    /\ eval' = [at |-> "log", req |-> r]
    /\ UNCHANGED <<specVars, registry, returned, told, sess>>

LogHoldout ==
    /\ eval.at = "log"
    /\ scoredOn' = scoredOn \cup {eval.req}
    /\ eval' = [eval EXCEPT !.at = "consume"]
    /\ UNCHANGED <<specVars, trial, consumed, returned, told, sess>>

Scores(s) ==
    /\ consumed' = [consumed EXCEPT ![s] = eval.req]
    /\ returned' = [returned EXCEPT ![s] = @ + 1]

\* Mutant: single touch per configuration, as if run_key were the key.
ConsumePerRun ==
    LET s == eval.req[1] IN
    /\ eval.at = "consume"
    /\ IF consumed[s] # eval.req THEN Scores(s) ELSE UNCHANGED <<consumed, returned>>
    /\ eval' = NoEval
    /\ UNCHANGED <<specVars, trial, scoredOn, told, sess>>

\* consume_holdout: the primary key is the spec.  Refused is an alarm, and
\* the score is withheld; the trial row stands either way.
ConsumeHoldout ==
    LET s == eval.req[1] IN
    /\ eval.at = "consume"
    /\ IF consumed[s] = NoRequest THEN Scores(s) ELSE UNCHANGED <<consumed, returned>>
    /\ eval' = NoEval
    /\ UNCHANGED <<specVars, trial, scoredOn, told, sess>>

CrashHoldout ==
    /\ eval.at # "idle" /\ crashes < MaxCrashes
    /\ eval' = NoEval /\ crashes' = crashes + 1
    /\ UNCHANGED <<tables, reg, stranded, registry, returned, told, sess>>

BacktestStep ==
    \/ \E i \in Sessions :
        \/ LookUp(i) \/ CountTrials(i) \/ LogRejection(i) \/ TellRejection(i)
        \/ RunFails(i) \/ LogRun(i) \/ ReadState(i) \/ SwapState(i)
        \/ CrashSession(i)
        \/ \E r \in Requests : ReadSpec(i, r)
    \/ LogHoldout \/ ConsumeHoldout \/ CrashHoldout
    \/ \E r \in HoldoutRequests : StartHoldout(r)

Next ==
    \/ SpecsNext /\ UNCHANGED <<registry, returned, told, sess, eval>>
    \/ BacktestStep

Spec == Init /\ [][Next]_vars

(***************************************************************************)
(* Properties.                                                             *)
(***************************************************************************)

\* Sessions that counted before another logged may pass the budget, each by
\* one run and no further: count, run and log are separate steps (section
\* 3.2 step 3 as run_backtest takes it).
BudgetOverrunBounded ==
    \A s \in SpecIds :
        Cardinality({r \in Requests : r[1] = s /\ trial[r] = "run"})
            <= SearchBudget + Cardinality(Sessions) - 1

\* Rejections that stand on the registry and that nobody was or will be told
\* of.
Unheard ==
    {r \in Requests :
        /\ trial[r] = "rejected" /\ told[r] = 0
        /\ \A i \in Sessions : ~ (sess[i].at = "tell" /\ sess[i].req = r)}

\* A rejection and its event are two commits, of sessions that may reject the
\* same request together.  Retrying a rejected request is not a second
\* rejection: beyond the sessions that were under way, nobody hears of it
\* again.  Nor does one go unheard, but for one per process that died.
ToldOncePerSession ==
    /\ \A r \in Requests : told[r] <= Cardinality(Sessions)
    /\ Cardinality(Unheard) <= crashes

\* A caller that was told ok, by a run or by the cache, after a crash or not,
\* has its spec in BACKTEST and its request on the registry; one that lost
\* the swap lost it to a session that had taken the same edge.  The one thing
\* that can stand against such an answer is a rejection logged beside the
\* run, and only once the spec had passed its budget.
AnswersStand ==
    \A i \in Sessions :
        sess[i].answer \in {"ok", "stale"} =>
            /\ state[sess[i].req[1]] = "BACKTEST"
            /\ \/ trial[sess[i].req] = "run"
               \/ /\ trial[sess[i].req] = "rejected"
                  /\ SpecTrials(sess[i].req[1]) > SearchBudget

\* The holdout score of a spec is seen once, whatever is retried, with other
\* parameters or after a crash, and only behind a logged trial (the primary
\* key of holdout_evaluations and the order of evaluate_holdout's commits).
HoldoutSeenOnce ==
    \A s \in SpecIds :
        /\ returned[s] <= 1
        /\ returned[s] = 1 => consumed[s] \in scoredOn

(***************************************************************************)
(* What the documents say and the code does not keep.                      *)
(***************************************************************************)

\* fundbt/registry.py: "An unlogged trial cannot exist because run_backtest
\* logs inside the same code path that returns the result"; and of a run that
\* lost the swap, handle_run_backtest: "the trial stands; a re-run returns the
\* cached result".  It does not when another session, past the budget, has
\* logged the request as rejected meanwhile: INSERT OR IGNORE drops the run.
AnswersAreTrue ==
    \A i \in Sessions :
        sess[i].answer \in {"ok", "stale"} => trial[sess[i].req] = "run"

=============================================================================
