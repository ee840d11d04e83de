-------------------------- MODULE BacktestsProofs --------------------------
(***************************************************************************)
(* For any number of sessions, requests and holdout configurations: what   *)
(* a session answers stands, but for a rejection past the budget; budget   *)
(* and rejection events are overrun by the sessions under way at most; a   *)
(* spec's holdout score is seen once.                                      *)
(***************************************************************************)
EXTENDS Backtests, TLAPS, FiniteSetTheorems

USE DEF tables, specVars, registry

Places == {"idle", "lookup", "count", "reject", "tell", "run", "advance", "swap"}

Session == [at : Places, req : Requests \cup {NoRequest}, token : {0, 1},
            answer : {None, "ok", "stale"}]

\* The types of the registry, the sessions and the holdout evaluation.
BTypes ==
    /\ specs \in Seq(SpecIds)
    /\ state \in [SpecIds -> {None, "SPEC", "BACKTEST"}]
    /\ trial \in [Requests -> {None, "run", "rejected"}]
    /\ scoredOn \subseteq HoldoutRequests
    /\ consumed \in [SpecIds -> HoldoutRequests \cup {NoRequest}]
    /\ returned \in [SpecIds -> Nat] /\ told \in [Requests -> Nat]
    /\ sess \in [Sessions -> Session]
    /\ eval \in [at : {"idle", "log", "consume"},
                 req : HoldoutRequests \cup {NoRequest}]
    /\ \A i \in Sessions :
         sess[i].at # "idle" \/ sess[i].answer # None => sess[i].req \in Requests
    /\ eval.at # "idle" => eval.req \in HoldoutRequests

(***************************************************************************)
(* What never goes back.                                                   *)
(***************************************************************************)

\* A spec keeps its place on the books when another is put among them.
LEMMA PlaceKeeps ==
    ASSUME specs \in Seq(SpecIds), NEW s \in SpecIds, PlaceSpec(s)
    PROVE  /\ specs' \in Seq(SpecIds)
           /\ \A t \in SpecIds : Registered(t) \/ t = s => Registered(t)'
<1>1. PICK i \in {Len(specs), Len(specs) + 1} \ {0} :
        specs' = SubSeq(specs, 1, i - 1) \o <<s>> \o SubSeq(specs, i, Len(specs))
  BY DEF PlaceSpec
<1> DEFINE a == SubSeq(specs, 1, i - 1)
           b == SubSeq(specs, i, Len(specs))
<1>2. /\ Len(specs) \in Nat /\ i \in 1 .. Len(specs) + 1
  BY <1>1
<1>3. /\ a \in Seq(SpecIds) /\ Len(a) = i - 1
      /\ \A k \in 1 .. i - 1 : a[k] = specs[k]
  BY <1>2
<1>4. /\ b \in Seq(SpecIds) /\ Len(b) = Len(specs) - i + 1
      /\ \A k \in 1 .. Len(specs) - i + 1 : b[k] = specs[k + i - 1]
  BY <1>2
<1>5. specs' = a \o <<s>> \o b
  BY <1>1
<1> HIDE DEF a, b
<1>6. /\ specs' \in Seq(SpecIds) /\ Len(specs') = Len(specs) + 1
      /\ specs'[i] = s
      /\ \A k \in 1 .. i - 1 : specs'[k] = specs[k]
      /\ \A k \in i .. Len(specs) : specs'[k + 1] = specs[k]
  <2>1. a \o <<s>> \in Seq(SpecIds) /\ Len(a \o <<s>>) = i
        /\ (a \o <<s>>)[i] = s /\ \A k \in 1 .. i - 1 : (a \o <<s>>)[k] = a[k]
    BY <1>2, <1>3
  <2>2. /\ specs' \in Seq(SpecIds) /\ Len(specs') = i + Len(b)
        /\ \A k \in 1 .. i : specs'[k] = (a \o <<s>>)[k]
        /\ \A k \in 1 .. Len(b) : specs'[i + k] = b[k]
    BY <1>2, <1>4, <1>5, <2>1
  <2>3. \A k \in i .. Len(specs) : specs'[k + 1] = specs[k]
    <3> SUFFICES ASSUME NEW k \in i .. Len(specs) PROVE specs'[k + 1] = specs[k]
      OBVIOUS
    <3>1. PICK j \in 1 .. Len(b) : j + i - 1 = k /\ i + j = k + 1
      <4>1. /\ k - i + 1 \in 1 .. Len(b)
            /\ (k - i + 1) + i - 1 = k /\ i + (k - i + 1) = k + 1
        BY <1>2, <1>4
      <4> QED
        BY <4>1
    <3>2. b[j] = specs[k]
      <4>1. j \in 1 .. Len(specs) - i + 1
        BY <1>4
      <4> QED
        BY <1>4, <3>1, <4>1
    <3>3. specs'[k + 1] = b[j]
      BY <2>2, <3>1
    <3> QED
      BY <3>2, <3>3
  <2> QED
    BY <1>2, <1>3, <1>4, <2>1, <2>2, <2>3
<1>7. ASSUME NEW t \in SpecIds, Registered(t) PROVE Registered(t)'
  <2>1. PICK k \in 1 .. Len(specs) : specs[k] = t
    BY <1>7 DEF Registered
  <2>2. CASE k < i
    BY <1>2, <1>6, <2>1, <2>2 DEF Registered
  <2>3. CASE k >= i
    <3>1. specs'[k + 1] = t /\ k + 1 \in 1 .. Len(specs')
      BY <1>2, <1>6, <2>1, <2>3
    <3> QED
      BY <1>6, <3>1 DEF Registered
  <2> QED
    BY <1>2, <2>1, <2>2, <2>3
<1>8. Registered(s)'
  BY <1>2, <1>6 DEF Registered
<1> QED
  BY <1>6, <1>7, <1>8

\* What a step may do to the books and the registry: nothing goes back.
Grows ==
    /\ \A s \in SpecIds :
         /\ Registered(s) => Registered(s)'
         /\ state[s] = "BACKTEST" => state'[s] = "BACKTEST"
         /\ state[s] = "SPEC" => state'[s] \in {"SPEC", "BACKTEST"}
         /\ state[s] # state'[s] => Registered(s)'
    /\ \A r \in Requests : trial[r] # None => trial'[r] = trial[r]
    /\ scoredOn \subseteq scoredOn'

\* Only a registered spec has a lifecycle row.
Lifecycle == \A s \in SpecIds : state[s] # None => Registered(s)

\* The steps of registration and of a repair, seen from the backtests.
LEMMA SpecsStep ==
    ASSUME BTypes, Lifecycle, SpecsNext
    PROVE  /\ specs' \in Seq(SpecIds)
           /\ state' \in [SpecIds -> {None, "SPEC", "BACKTEST"}]
           /\ \A s \in SpecIds :
                /\ Registered(s) => Registered(s)'
                /\ state[s] = "BACKTEST" => state'[s] = "BACKTEST"
                /\ state[s] = "SPEC" => state'[s] \in {"SPEC", "BACKTEST"}
                /\ state[s] # state'[s] => Registered(s)'
<1>1. CASE UNCHANGED <<specs, state>>
  BY <1>1 DEF BTypes, Registered
<1>2. ASSUME NEW s \in SpecIds, InsertSpec(s)
      PROVE  /\ specs' \in Seq(SpecIds)
             /\ state' \in [SpecIds -> {None, "SPEC", "BACKTEST"}]
             /\ \A t \in SpecIds :
                  /\ Registered(t) => Registered(t)'
                  /\ state[t] = "BACKTEST" => state'[t] = "BACKTEST"
                  /\ state[t] = "SPEC" => state'[t] \in {"SPEC", "BACKTEST"}
                  /\ state[t] # state'[t] => Registered(t)'
  <2>1. /\ PlaceSpec(s) /\ ~ Registered(s)
        /\ state' = [state EXCEPT ![s] = "SPEC"]
    BY <1>2 DEF InsertSpec, InsertRows
  <2>2. state[s] = None
    BY <2>1 DEF Lifecycle
  <2>3. /\ state' \in [SpecIds -> {None, "SPEC", "BACKTEST"}]
        /\ state'[s] = "SPEC" /\ \A t \in SpecIds \ {s} : state'[t] = state[t]
    BY <2>1 DEF BTypes
  <2>4. None # "SPEC" /\ None # "BACKTEST"
    BY DEF None
  <2> QED
    BY <2>1, <2>2, <2>3, <2>4, PlaceKeeps DEF BTypes
<1>3. CASE Repair
  BY <1>3 DEF Repair, Orphans, BTypes, Registered, None
<1> QED
  BY <1>1, <1>2, <1>3
  DEF SpecsNext, StartRegistration, CountBefore, AnnounceSpec,
      EndRegistration, LoseEvent, CrashRegistration
(***************************************************************************)
(* One session moves, or the holdout evaluation, or a registration.        *)
(***************************************************************************)

Moves(i) ==
    \/ LookUp(i) \/ CountTrials(i) \/ LogRejection(i) \/ TellRejection(i)
    \/ RunFails(i) \/ LogRun(i) \/ ReadState(i) \/ SwapState(i)
    \/ CrashSession(i)
    \/ \E r \in Requests : ReadSpec(i, r)

HoldoutMoves ==
    \/ LogHoldout \/ ConsumeHoldout \/ CrashHoldout
    \/ \E r \in HoldoutRequests : StartHoldout(r)

\* The record of a session that was answered is one of the same kind.
LEMMA AnsweredRecord ==
    ASSUME NEW P, NEW R, NEW T, NEW V, NEW a \in V, "idle" \in P, 0 \in T,
           NEW r \in [at : P, req : R, token : T, answer : V]
    PROVE  [r EXCEPT !.at = "idle", !.token = 0, !.answer = a]
             \in [at : P, req : R, token : T, answer : V]
  BY Zenon

\* What the next place of a session is, and what it keeps.
LEMMA SessionFacts ==
    ASSUME BTypes, NEW i \in Sessions
    PROVE  /\ \A l \in Places : Goes(i, l) =>
                /\ sess'[i] = [sess[i] EXCEPT !.at = l]
                /\ \A j \in Sessions \ {i} : sess'[j] = sess[j]
                /\ sess' \in [Sessions -> Session]
           /\ \A a \in {"ok", "stale"} : Answers(i, a) =>
                /\ sess'[i] = [sess[i] EXCEPT !.at = "idle", !.token = 0,
                                              !.answer = a]
                /\ \A j \in Sessions \ {i} : sess'[j] = sess[j]
                /\ sess' \in [Sessions -> Session]
           /\ Refuses(i) =>
                /\ sess'[i] = NoSession
                /\ \A j \in Sessions \ {i} : sess'[j] = sess[j]
                /\ sess' \in [Sessions -> Session]
<1>1. ASSUME NEW l \in Places, Goes(i, l)
      PROVE  /\ sess'[i] = [sess[i] EXCEPT !.at = l]
             /\ \A j \in Sessions \ {i} : sess'[j] = sess[j]
             /\ sess' \in [Sessions -> Session]
  <2>1. sess[i] \in Session /\ [sess[i] EXCEPT !.at = l] \in Session
    <3>1. sess[i] \in Session
      BY DEF BTypes
    <3> QED
      BY ZenonT(30), <3>1 DEF Session
  <2>2. sess' = [sess EXCEPT ![i] = [sess[i] EXCEPT !.at = l]]
    BY <1>1 DEF Goes, BTypes
  <2> QED
    BY <2>1, <2>2 DEF BTypes
<1>2. ASSUME NEW a \in {"ok", "stale"}, Answers(i, a)
      PROVE  /\ sess'[i] = [sess[i] EXCEPT !.at = "idle", !.token = 0,
                                           !.answer = a]
             /\ \A j \in Sessions \ {i} : sess'[j] = sess[j]
             /\ sess' \in [Sessions -> Session]
  <2> DEFINE new == [sess[i] EXCEPT !.at = "idle", !.token = 0, !.answer = a]
  <2>1. sess[i] \in Session /\ new \in Session
    <3>1. sess[i] \in Session
      BY DEF BTypes
    <3>2. "idle" \in Places /\ 0 \in {0, 1} /\ a \in {None, "ok", "stale"}
      BY DEF Places
    <3> QED
      BY Zenon, <3>1, <3>2, AnsweredRecord DEF Session
  <2>2. sess' = [sess EXCEPT ![i] = new]
    BY <1>2 DEF Answers, BTypes
  <2> QED
    BY <2>1, <2>2 DEF BTypes
<1>3. ASSUME Refuses(i)
      PROVE  /\ sess'[i] = NoSession
             /\ \A j \in Sessions \ {i} : sess'[j] = sess[j]
             /\ sess' \in [Sessions -> Session]
  <2>1. NoSession \in Session
    BY DEF NoSession, Session, Places
  <2> QED
    BY <1>3, <2>1 DEF BTypes, Refuses
<1> QED
  BY <1>1, <1>2, <1>3

\* Where a session is when it has moved.
LEMMA PlaceAfter ==
    ASSUME BTypes, NEW i \in Sessions
    PROVE  /\ \A l \in Places : Goes(i, l) =>
                sess'[i].at = l /\ sess'[i].req = sess[i].req
           /\ \A a \in {"ok", "stale"} : Answers(i, a) => sess'[i].at = "idle"
           /\ Refuses(i) => sess'[i].at = "idle"
<1>a. \A l \in Places : Goes(i, l) =>
        sess'[i].at = l /\ sess'[i].req = sess[i].req
  <2> SUFFICES ASSUME NEW l \in Places, Goes(i, l)
               PROVE  sess'[i].at = l /\ sess'[i].req = sess[i].req
    OBVIOUS
  <2>1. sess'[i] = [sess[i] EXCEPT !.at = l] /\ sess[i] \in Session
    BY SessionFacts DEF BTypes
  <2> QED
    BY <2>1 DEF Session
<1>b. \A a \in {"ok", "stale"} : Answers(i, a) => sess'[i].at = "idle"
  <2> SUFFICES ASSUME NEW a \in {"ok", "stale"}, Answers(i, a)
               PROVE  sess'[i].at = "idle"
    OBVIOUS
  <2>1. /\ sess'[i] = [sess[i] EXCEPT !.at = "idle", !.token = 0, !.answer = a]
        /\ sess[i] \in Session
    BY SessionFacts DEF BTypes
  <2> QED
    BY <2>1 DEF Session
<1>c. Refuses(i) => sess'[i].at = "idle"
  <2> SUFFICES ASSUME Refuses(i) PROVE sess'[i].at = "idle"
    OBVIOUS
  <2>1. sess'[i] = NoSession
    BY SessionFacts DEF BTypes
  <2> QED
    BY <2>1 DEF NoSession
<1> QED
  BY <1>a, <1>b, <1>c

\* What a session's step may do to its place, its request and its answer.
SessionMoved(i) ==
    /\ sess' \in [Sessions -> Session]
    /\ \A j \in Sessions \ {i} : sess'[j] = sess[j]
    /\ sess'[i].at # "idle" \/ sess'[i].answer # None => sess'[i].req \in Requests

\* Whatever a session does, it leaves a session behind and the others
\* alone.
LEMMA MoveTypes ==
    ASSUME BTypes, NEW i \in Sessions, Moves(i)
    PROVE  SessionMoved(i)
<1> USE DEF BTypes
<1>a. sess[i].at # "idle" => sess[i].req \in Requests
  OBVIOUS
<1>b. {"lookup", "count", "reject", "tell", "run", "advance", "swap"} \subseteq Places
  BY DEF Places
<1>c. \A l \in Places : Goes(i, l) /\ sess[i].at # "idle" => SessionMoved(i)
  <2> SUFFICES ASSUME NEW l \in Places, Goes(i, l), sess[i].at # "idle"
               PROVE  SessionMoved(i)
    OBVIOUS
  <2>1. /\ sess'[i] = [sess[i] EXCEPT !.at = l]
        /\ \A j \in Sessions \ {i} : sess'[j] = sess[j]
        /\ sess' \in [Sessions -> Session]
    BY SessionFacts
  <2>2. sess'[i].req = sess[i].req
    BY <2>1
  <2> QED
    BY <1>a, <2>1, <2>2 DEF SessionMoved
<1>d. \A a \in {"ok", "stale"} :
        Answers(i, a) /\ sess[i].at # "idle" => SessionMoved(i)
  <2> SUFFICES ASSUME NEW a \in {"ok", "stale"}, Answers(i, a),
                      sess[i].at # "idle"
               PROVE  SessionMoved(i)
    OBVIOUS
  <2>1. /\ sess'[i] = [sess[i] EXCEPT !.at = "idle", !.token = 0, !.answer = a]
        /\ \A j \in Sessions \ {i} : sess'[j] = sess[j]
        /\ sess' \in [Sessions -> Session]
    BY SessionFacts
  <2>2. sess'[i].req = sess[i].req
    BY <2>1
  <2> QED
    BY <1>a, <2>1, <2>2 DEF SessionMoved
<1>e. Refuses(i) => SessionMoved(i)
  <2> SUFFICES ASSUME Refuses(i) PROVE SessionMoved(i)
    OBVIOUS
  <2>1. /\ sess'[i] = NoSession
        /\ \A j \in Sessions \ {i} : sess'[j] = sess[j]
        /\ sess' \in [Sessions -> Session]
    BY SessionFacts
  <2>2. sess'[i].at = "idle" /\ sess'[i].answer = None
    BY <2>1 DEF NoSession
  <2> QED
    BY <2>1, <2>2 DEF SessionMoved
<1>1. ASSUME NEW r \in Requests, ReadSpec(i, r) PROVE SessionMoved(i)
  <2>1. sess' = [sess EXCEPT ![i] = [at |-> "lookup", req |-> r,
                                     token |-> Token(r[1]), answer |-> None]]
    BY <1>1 DEF ReadSpec
  <2>2. Token(r[1]) \in {0, 1}
    BY DEF Token
  <2>3. [at |-> "lookup", req |-> r, token |-> Token(r[1]), answer |-> None]
          \in Session
    BY <1>b, <2>2 DEF Session
  <2>4. /\ sess'[i] = [at |-> "lookup", req |-> r, token |-> Token(r[1]),
                       answer |-> None]
        /\ \A j \in Sessions \ {i} : sess'[j] = sess[j]
    BY <2>1
  <2>5. sess'[i].req = r
    BY <2>4
  <2> QED
    BY <2>1, <2>3, <2>4, <2>5 DEF SessionMoved
<1>2. CASE LookUp(i)
  <2>1. trial[sess[i].req] \in {None, "run", "rejected"}
    BY <1>2, <1>a DEF LookUp
  <2> QED
    BY <1>2, <1>b, <1>c, <1>e, <2>1 DEF LookUp, None
<1>3. CASE CountTrials(i) \/ LogRejection(i) \/ LogRun(i)
  BY <1>3, <1>b, <1>c DEF CountTrials, LogRejection, LogRun
<1>4. CASE TellRejection(i) \/ RunFails(i) \/ CrashSession(i)
  BY <1>4, <1>e DEF TellRejection, RunFails, CrashSession, Refuses
<1>5. CASE ReadState(i) \/ SwapState(i)
  BY <1>5, <1>b, <1>c, <1>d DEF ReadState, SwapState
<1> QED
  BY <1>1, <1>2, <1>3, <1>4, <1>5 DEF Moves

\* A trial is logged once: a second log of a request changes nothing.
LEMMA LogKeeps ==
    ASSUME BTypes, NEW r \in Requests, NEW what \in {"run", "rejected"},
           Log(r, what)
    PROVE  /\ trial' \in [Requests -> {None, "run", "rejected"}]
           /\ \A q \in Requests \ {r} : trial'[q] = trial[q]
           /\ trial'[r] = IF trial[r] = None THEN what ELSE trial[r]
  BY DEF BTypes, Log

\* A move of a session takes nothing off the registry and moves no spec
\* back.
LEMMA MoveGrows ==
    ASSUME BTypes, Lifecycle, NEW i \in Sessions, Moves(i)
    PROVE  BTypes' /\ Grows /\ Lifecycle'
<1> USE DEF BTypes
<1>1. SessionMoved(i)
  BY MoveTypes
<1>2. /\ \A j \in Sessions : sess'[j].at # "idle" \/ sess'[j].answer # None
                                => sess'[j].req \in Requests
      /\ sess' \in [Sessions -> Session]
  BY <1>1 DEF SessionMoved
<1>3. CASE UNCHANGED <<specs, state, trial, scoredOn, consumed, returned, told, eval>>
  BY <1>2, <1>3 DEF Grows, Lifecycle, Registered
<1>4. ASSUME sess[i].at # "idle", NEW what \in {"run", "rejected"},
             Log(sess[i].req, what),
             UNCHANGED <<specs, state, scoredOn, consumed, returned, told, eval>>
      PROVE  BTypes' /\ Grows /\ Lifecycle'
  <2>1. sess[i].req \in Requests
    BY <1>4
  <2>2. /\ trial' \in [Requests -> {None, "run", "rejected"}]
        /\ \A q \in Requests : trial[q] # None => trial'[q] = trial[q]
    BY <1>4, <2>1, LogKeeps
  <2> QED
    BY <1>2, <1>4, <2>2 DEF Grows, Lifecycle, Registered
<1>5. CASE TellRejection(i)
  <2>1. sess[i].req \in Requests
    BY <1>5 DEF TellRejection
  <2>2. told' \in [Requests -> Nat]
    BY <1>5, <2>1 DEF TellRejection
  <2> QED
    BY <1>2, <1>5, <2>2 DEF TellRejection, Grows, Lifecycle, Registered
<1>6. CASE SwapState(i)
  <2>1. sess[i].req \in Requests /\ sess[i].req[1] \in SpecIds
    BY <1>6, BacktestsAssumption DEF SwapState
  <2>2. PICK s \in SpecIds : s = sess[i].req[1]
    BY <2>1
  <2>3. \/ UNCHANGED state
        \/ state[s] = "SPEC" /\ state' = [state EXCEPT ![s] = "BACKTEST"]
    BY <1>6, <2>2 DEF SwapState
  <2>4. /\ state' \in [SpecIds -> {None, "SPEC", "BACKTEST"}]
        /\ \A t \in SpecIds : state'[t] = state[t]
                              \/ (state[t] = "SPEC" /\ state'[t] = "BACKTEST")
    BY <2>3
  <2>5. UNCHANGED <<specs, trial, scoredOn, consumed, returned, told, eval>>
    BY <1>6 DEF SwapState
  <2>6. None # "SPEC"
    BY DEF None
  <2> QED
    BY <1>2, <2>4, <2>5, <2>6 DEF Grows, Lifecycle, Registered
<1>7. CASE \/ LookUp(i) \/ CountTrials(i) \/ RunFails(i) \/ ReadState(i)
           \/ CrashSession(i) \/ \E r \in Requests : ReadSpec(i, r)
  BY <1>3, <1>7 DEF LookUp, CountTrials, RunFails, ReadState, CrashSession, ReadSpec
<1>8. CASE LogRejection(i) \/ LogRun(i)
  BY <1>4, <1>8 DEF LogRejection, LogRun
<1> QED
  BY <1>5, <1>6, <1>7, <1>8 DEF Moves

\* Nor does the holdout evaluation.
LEMMA HoldoutGrows ==
    ASSUME BTypes, Lifecycle, HoldoutMoves
    PROVE  BTypes' /\ Grows /\ Lifecycle'
<1> USE DEF BTypes
<1>1. CASE LogHoldout
  <2>1. eval.req \in HoldoutRequests
    BY <1>1 DEF LogHoldout
  <2>2. eval' \in [at : {"idle", "log", "consume"},
                   req : HoldoutRequests \cup {NoRequest}]
        /\ eval'.req = eval.req
    BY <1>1 DEF LogHoldout
  <2> QED
    BY <1>1, <2>1, <2>2 DEF LogHoldout, Grows, Lifecycle, Registered
<1>2. CASE ConsumeHoldout
  <2>1. eval.req \in HoldoutRequests /\ eval.req[1] \in SpecIds
    BY <1>2, BacktestsAssumption DEF ConsumeHoldout
  <2>2. PICK s \in SpecIds : s = eval.req[1]
    BY <2>1
  <2>3. \/ UNCHANGED <<consumed, returned>>
        \/ /\ consumed' = [consumed EXCEPT ![s] = eval.req]
           /\ returned' = [returned EXCEPT ![s] = @ + 1]
    BY <1>2, <2>2 DEF ConsumeHoldout, Scores
  <2>4. /\ consumed' \in [SpecIds -> HoldoutRequests \cup {NoRequest}]
        /\ returned' \in [SpecIds -> Nat]
    <3>1. consumed' \in [SpecIds -> HoldoutRequests \cup {NoRequest}]
      BY <2>1, <2>3
    <3>2. returned' \in [SpecIds -> Nat]
      BY <2>3
    <3> QED
      BY <3>1, <3>2
  <2>5. /\ eval' \in [at : {"idle", "log", "consume"},
                      req : HoldoutRequests \cup {NoRequest}]
        /\ eval'.at = "idle"
    BY <1>2 DEF ConsumeHoldout, NoEval
  <2> QED
    BY <1>2, <2>4, <2>5 DEF ConsumeHoldout, Grows, Lifecycle, Registered
<1>3. CASE CrashHoldout
  <2>1. /\ eval' \in [at : {"idle", "log", "consume"},
                      req : HoldoutRequests \cup {NoRequest}]
        /\ eval'.at = "idle"
    BY <1>3 DEF CrashHoldout, NoEval
  <2> QED
    BY <1>3, <2>1 DEF CrashHoldout, Grows, Lifecycle, Registered
<1>4. ASSUME NEW r \in HoldoutRequests, StartHoldout(r)
      PROVE  BTypes' /\ Grows /\ Lifecycle'
  <2>1. /\ eval' \in [at : {"idle", "log", "consume"},
                      req : HoldoutRequests \cup {NoRequest}]
        /\ eval'.req = r
    BY <1>4 DEF StartHoldout
  <2> QED
    BY <1>4, <2>1 DEF StartHoldout, Grows, Lifecycle, Registered
<1> QED
  BY <1>1, <1>2, <1>3, <1>4 DEF HoldoutMoves

\* Nor does the registration of specs.
LEMMA SpecsGrows ==
    ASSUME BTypes, Lifecycle, SpecsNext,
           UNCHANGED <<registry, returned, told, sess, eval>>
    PROVE  BTypes' /\ Grows /\ Lifecycle'
<1>1. /\ specs' \in Seq(SpecIds)
      /\ state' \in [SpecIds -> {None, "SPEC", "BACKTEST"}]
      /\ \A s \in SpecIds :
           /\ Registered(s) => Registered(s)'
           /\ state[s] = "BACKTEST" => state'[s] = "BACKTEST"
           /\ state[s] = "SPEC" => state'[s] \in {"SPEC", "BACKTEST"}
           /\ state[s] # state'[s] => Registered(s)'
  BY SpecsStep
<1>2. Lifecycle'
  BY <1>1 DEF Lifecycle
<1>3. BTypes'
  BY <1>1 DEF BTypes
<1> QED
  BY <1>1, <1>2, <1>3 DEF Grows

\* A step is one of the registration's, of a session or of the holdout.
LEMMA NextMoves ==
    ASSUME [Next]_vars
    PROVE  \/ SpecsNext /\ UNCHANGED <<registry, returned, told, sess, eval>>
           \/ \E i \in Sessions : Moves(i)
           \/ HoldoutMoves
           \/ UNCHANGED vars
  BY DEF Next, BacktestStep, Moves, HoldoutMoves

\* So no step does, and types and lifecycle are kept.
LEMMA AllGrows ==
    ASSUME BTypes, Lifecycle, [Next]_vars
    PROVE  BTypes' /\ Grows /\ Lifecycle'
<1>1. CASE UNCHANGED vars
  BY <1>1 DEF vars, BTypes, Grows, Lifecycle, Registered
<1> QED
  BY <1>1, NextMoves, SpecsGrows, MoveGrows, HoldoutGrows

(***************************************************************************)
(* What a session knows, and why its answer is true.                       *)
(***************************************************************************)

\* A session's spec is on its way, it was in BACKTEST already if the token
\* says so, and past the log its request is on the registry.
SessionKnows(i) ==
    /\ sess[i].at # "idle" =>
         /\ state[sess[i].req[1]] \in {"SPEC", "BACKTEST"}
         /\ sess[i].token = 1 => state[sess[i].req[1]] = "BACKTEST"
    /\ sess[i].at \in {"tell", "advance", "swap"} => trial[sess[i].req] # None
    /\ sess[i].answer # None =>
         /\ sess[i].at = "idle"
         /\ trial[sess[i].req] # None
         /\ state[sess[i].req[1]] = "BACKTEST"

AllKnow == \A i \in Sessions : SessionKnows(i)

\* What others do leaves a session's knowledge true.
LEMMA KnowledgeKept ==
    ASSUME BTypes, BTypes', Grows, NEW j \in Sessions, SessionKnows(j),
           sess'[j] = sess[j]
    PROVE  SessionKnows(j)'
<1>1. CASE sess[j].at = "idle" /\ sess[j].answer = None
  BY <1>1 DEF SessionKnows, None
<1>2. CASE sess[j].at # "idle" \/ sess[j].answer # None
  <2>1. sess[j].req \in Requests /\ sess[j].req[1] \in SpecIds
    BY <1>2, BacktestsAssumption DEF BTypes
  <2>2. PICK r \in Requests, s \in SpecIds : r = sess[j].req /\ s = r[1]
    BY <2>1
  <2>3. /\ trial[r] # None => trial'[r] # None
        /\ state[s] = "BACKTEST" => state'[s] = "BACKTEST"
        /\ state[s] \in {"SPEC", "BACKTEST"} => state'[s] \in {"SPEC", "BACKTEST"}
    BY DEF Grows
  <2> QED
    BY <2>2, <2>3 DEF SessionKnows
<1> QED
  BY <1>1, <1>2

\* A session's own move leaves true what it knows of the registry.
LEMMA MoveKnows ==
    ASSUME BTypes, BTypes', Grows, NEW i \in Sessions, SessionKnows(i), Moves(i)
    PROVE  SessionKnows(i)'
<1> USE DEF BTypes
<1>a. /\ "lookup" \in Places /\ "count" \in Places /\ "reject" \in Places
      /\ "tell" \in Places /\ "run" \in Places /\ "advance" \in Places
      /\ "swap" \in Places
  BY DEF Places
<1>b. sess[i].at # "idle" => sess[i].req \in Requests /\ sess[i].req[1] \in SpecIds
  BY BacktestsAssumption
<1>c. ASSUME Refuses(i) PROVE SessionKnows(i)'
  <2>1. sess'[i] = NoSession
    BY <1>c, SessionFacts
  <2> QED
    BY <2>1 DEF SessionKnows, NoSession, None
<1>d. ASSUME NEW l \in Places, Goes(i, l), sess[i].at # "idle",
             l \in {"tell", "advance", "swap"} => trial'[sess[i].req] # None
      PROVE  SessionKnows(i)'
  <2>1. sess'[i] = [sess[i] EXCEPT !.at = l]
    <3>1. Goes(i, l) => sess'[i] = [sess[i] EXCEPT !.at = l]
      <4> HIDE DEF BTypes
      <4> QED
        BY SessionFacts
    <3> QED
      BY <1>d, <3>1
  <2>2. /\ sess'[i].at = l /\ sess'[i].req = sess[i].req
        /\ sess'[i].token = sess[i].token /\ sess'[i].answer = sess[i].answer
    BY <2>1 DEF Session
  <2>3. PICK r \in Requests, s \in SpecIds : r = sess[i].req /\ s = r[1]
    BY <1>b, <1>d
  <2>4. /\ trial[r] # None => trial'[r] # None
        /\ state[s] = "BACKTEST" => state'[s] = "BACKTEST"
        /\ state[s] \in {"SPEC", "BACKTEST"} => state'[s] \in {"SPEC", "BACKTEST"}
    BY DEF Grows
  <2> QED
    BY <1>d, <2>2, <2>3, <2>4 DEF SessionKnows
<1>e. ASSUME NEW a \in {"ok", "stale"}, Answers(i, a), sess[i].at # "idle",
             trial'[sess[i].req] # None, state'[sess[i].req[1]] = "BACKTEST"
      PROVE  SessionKnows(i)'
  <2>1. sess'[i] = [sess[i] EXCEPT !.at = "idle", !.token = 0, !.answer = a]
    BY ZenonT(30), <1>e, SessionFacts
  <2>2. /\ sess'[i].at = "idle" /\ sess'[i].req = sess[i].req
    BY <2>1 DEF Session
  <2> QED
    BY <1>e, <2>2 DEF SessionKnows
<1>1. ASSUME NEW r \in Requests, ReadSpec(i, r) PROVE SessionKnows(i)'
  <2>1. PICK s \in SpecIds : s = r[1]
    BY BacktestsAssumption
  <2>2. /\ sess'[i] = [at |-> "lookup", req |-> r, token |-> Token(r[1]),
                       answer |-> None]
        /\ state[s] \in {"SPEC", "BACKTEST"} /\ UNCHANGED state
    BY <1>1, <2>1 DEF ReadSpec
  <2>3. sess'[i].token = 1 => state'[s] = "BACKTEST"
    BY <2>1, <2>2 DEF Token
  <2> QED
    BY <2>1, <2>2, <2>3 DEF SessionKnows
<1>2. CASE LookUp(i)
  <2>1. sess[i].req \in Requests /\ UNCHANGED trial
    BY <1>2, <1>b DEF LookUp
  <2>2. trial[sess[i].req] \in {None, "run", "rejected"}
    BY <2>1
  <2> QED
    BY <1>2, <1>a, <1>c, <1>d, <2>1, <2>2 DEF LookUp, None
<1>3. CASE CountTrials(i)
  BY <1>3, <1>a, <1>d DEF CountTrials
<1>4. CASE LogRejection(i) \/ LogRun(i)
  <2>1. sess[i].req \in Requests
    BY <1>4, <1>b DEF LogRejection, LogRun
  <2>2. trial'[sess[i].req] # None
    BY <1>4, <2>1, LogKeeps DEF LogRejection, LogRun, None
  <2> QED
    BY <1>4, <1>a, <1>d, <2>2 DEF LogRejection, LogRun
<1>5. CASE TellRejection(i) \/ RunFails(i) \/ CrashSession(i)
  BY <1>5, <1>c DEF TellRejection, RunFails, CrashSession, Refuses
<1>6. CASE ReadState(i)
  <2>1. trial'[sess[i].req] # None /\ sess[i].at = "advance" /\ UNCHANGED state
    BY <1>6 DEF ReadState, SessionKnows
  <2> QED
    BY <1>6, <1>a, <1>d, <1>e, <2>1 DEF ReadState
<1>7. CASE SwapState(i)
  <2>1. /\ trial'[sess[i].req] # None /\ sess[i].at = "swap"
        /\ \E a \in {"ok", "stale"} : Answers(i, a)
    BY <1>7 DEF SwapState, SessionKnows
  <2>2. PICK s \in SpecIds : s = sess[i].req[1]
    BY <1>b, <2>1
  <2>3. state'[s] = "BACKTEST"
    <3>1. CASE state' = [state EXCEPT ![s] = "BACKTEST"]
      BY <3>1
    <3>2. CASE ~ (state[s] = "SPEC" /\ Token(s) = sess[i].token) /\ UNCHANGED state
      <4>1. sess[i].token \in {0, 1}
        BY DEF Session
      <4>2. state[s] \in {"SPEC", "BACKTEST"}
            /\ (sess[i].token = 1 => state[s] = "BACKTEST")
        BY <2>1, <2>2 DEF SessionKnows
      <4> QED
        BY <3>2, <4>1, <4>2 DEF Token
    <3> QED
      BY <1>7, <2>2, <3>1, <3>2 DEF SwapState
  <2> QED
    BY <1>e, <2>1, <2>2, <2>3
<1> QED
  BY <1>1, <1>2, <1>3, <1>4, <1>5, <1>6, <1>7 DEF Moves

\* Nobody else's move falsifies it, for the registry only grows.
LEMMA AllKnowStep ==
    ASSUME BTypes, Lifecycle, AllKnow, [Next]_vars
    PROVE  AllKnow'
<1>1. BTypes' /\ Grows
  BY AllGrows
<1>2. ASSUME UNCHANGED sess PROVE AllKnow'
  BY <1>1, <1>2, KnowledgeKept DEF AllKnow
<1>3. ASSUME NEW i \in Sessions, Moves(i) PROVE AllKnow'
  <2>1. \A j \in Sessions \ {i} : sess'[j] = sess[j]
    BY <1>3, MoveTypes DEF SessionMoved
  <2> QED
    BY <1>1, <1>3, <2>1, KnowledgeKept, MoveKnows DEF AllKnow
<1>4. CASE HoldoutMoves
  BY <1>2, <1>4
  DEF HoldoutMoves, LogHoldout, ConsumeHoldout, CrashHoldout, StartHoldout
<1> QED
  BY <1>2, <1>3, <1>4, NextMoves DEF vars

(***************************************************************************)
(* One look at the holdout.                                                *)
(***************************************************************************)

\* An evaluation consumes only behind its logged trial, and a spec whose
\* score came back was consumed.
HoldoutKept ==
    /\ eval.at = "consume" => eval.req \in scoredOn
    /\ \A s \in SpecIds :
         /\ returned[s] <= 1
         /\ consumed[s] = NoRequest => returned[s] = 0
         /\ returned[s] = 1 => consumed[s] \in scoredOn

\* What is known of the holdout survives every step.
LEMMA HoldoutStep ==
    ASSUME BTypes, HoldoutKept, [Next]_vars
    PROVE  HoldoutKept'
<1>1. CASE UNCHANGED <<eval, scoredOn, consumed, returned>>
  BY <1>1 DEF HoldoutKept
<1>2. CASE LogHoldout
  BY <1>2 DEF LogHoldout, HoldoutKept, BTypes
<1>3. CASE ConsumeHoldout
  <2>1. /\ eval.req \in HoldoutRequests /\ eval.req[1] \in SpecIds
        /\ eval.req # NoRequest /\ eval.req \in scoredOn
    BY <1>3, BacktestsAssumption DEF ConsumeHoldout, BTypes, HoldoutKept, NoRequest
  <2>2. PICK s \in SpecIds : s = eval.req[1]
    BY <2>1
  <2>3. UNCHANGED scoredOn /\ eval'.at = "idle"
    BY <1>3 DEF ConsumeHoldout, NoEval
  <2>4. CASE UNCHANGED <<consumed, returned>>
    BY <2>3, <2>4 DEF HoldoutKept
  <2>5. CASE /\ consumed[s] = NoRequest
             /\ consumed' = [consumed EXCEPT ![s] = eval.req]
             /\ returned' = [returned EXCEPT ![s] = @ + 1]
    <3>1. /\ consumed'[s] = eval.req /\ returned'[s] = 1
          /\ \A t \in SpecIds \ {s} :
                consumed'[t] = consumed[t] /\ returned'[t] = returned[t]
      BY <2>5 DEF BTypes, HoldoutKept
    <3> QED
      BY <2>1, <2>3, <3>1 DEF HoldoutKept
  <2> QED
    BY <1>3, <2>2, <2>4, <2>5 DEF ConsumeHoldout, Scores
<1>4. CASE CrashHoldout \/ \E r \in HoldoutRequests : StartHoldout(r)
  <2>1. eval'.at # "consume" /\ UNCHANGED <<scoredOn, consumed, returned>>
    BY <1>4 DEF CrashHoldout, StartHoldout, NoEval
  <2> QED
    BY <2>1 DEF HoldoutKept
<1>5. ASSUME NEW i \in Sessions, Moves(i)
      PROVE  UNCHANGED <<eval, scoredOn, consumed, returned>>
  BY <1>5 DEF Moves, ReadSpec, LookUp, CountTrials, LogRejection,
     TellRejection, RunFails, LogRun, ReadState, SwapState, CrashSession
<1> QED
  BY <1>1, <1>2, <1>3, <1>4, <1>5, NextMoves DEF HoldoutMoves, vars

(***************************************************************************)
(* The budget: a run under way counts as one that has been logged.         *)
(***************************************************************************)
Runs(s) == {r \in Requests : r[1] = s /\ trial[r] = "run"}
Running(s) == {i \in Sessions : sess[i].at = "run" /\ sess[i].req[1] = s}

Spent == \A s \in SpecIds :
    Cardinality(Runs(s)) + Cardinality(Running(s))
        <= SearchBudget + Cardinality(Sessions) - 1

\* The counts of subsets of a finite set.
LEMMA Counts ==
    ASSUME NEW F, IsFiniteSet(F), NEW S \in SUBSET F
    PROVE  /\ IsFiniteSet(S) /\ Cardinality(S) \in Nat /\ Cardinality(F) \in Nat
           /\ Cardinality(S) <= Cardinality(F)
           /\ \A T \in SUBSET S : Cardinality(T) \in Nat
                                  /\ Cardinality(T) <= Cardinality(S)
           /\ \A x \in S : Cardinality(S \ {x}) = Cardinality(S) - 1
           /\ \A x : Cardinality(S \cup {x}) \in Nat
                     /\ Cardinality(S \cup {x}) <= Cardinality(S) + 1
<1>1. IsFiniteSet(S) /\ Cardinality(S) <= Cardinality(F)
  BY FS_Subset
<1>2. Cardinality(S) \in Nat /\ Cardinality(F) \in Nat
  BY <1>1, FS_CardinalityType
<1>3. ASSUME NEW T \in SUBSET S
      PROVE  Cardinality(T) \in Nat /\ Cardinality(T) <= Cardinality(S)
  BY <1>1, FS_Subset, FS_CardinalityType
<1>4. ASSUME NEW x \in S PROVE Cardinality(S \ {x}) = Cardinality(S) - 1
  BY <1>1, FS_RemoveElement
<1>5. ASSUME NEW x PROVE Cardinality(S \cup {x}) \in Nat
                         /\ Cardinality(S \cup {x}) <= Cardinality(S) + 1
  BY <1>1, <1>2, FS_AddElement
<1> QED
  BY <1>1, <1>2, <1>3, <1>4, <1>5

\* The counts in Spent are numbers, and at most all sessions run at once.
LEMMA SpentCounts ==
    ASSUME NEW s
    PROVE  /\ Cardinality(Runs(s)) \in Nat /\ Cardinality(Running(s)) \in Nat
           /\ Cardinality(Sessions) \in Nat
           /\ Cardinality(Running(s)) <= Cardinality(Sessions)
           /\ \A T \in SUBSET Runs(s) : Cardinality(T) \in Nat
                                  /\ Cardinality(T) <= Cardinality(Runs(s))
           /\ \A T \in SUBSET Running(s) : Cardinality(T) \in Nat
                                  /\ Cardinality(T) <= Cardinality(Running(s))
           /\ \A i \in Running(s) :
                Cardinality(Running(s) \ {i}) = Cardinality(Running(s)) - 1
           /\ \A r : Cardinality(Runs(s) \cup {r}) \in Nat
                     /\ Cardinality(Runs(s) \cup {r}) <= Cardinality(Runs(s)) + 1
<1>1. Runs(s) \subseteq Requests /\ Running(s) \subseteq Sessions
  BY DEF Runs, Running
<1>2. IsFiniteSet(Requests) /\ IsFiniteSet(Sessions)
  BY BacktestsAssumption
<1> HIDE DEF Runs, Running
<1> QED
  BY <1>1, <1>2, Counts

\* Nothing is logged and no session starts to run.
LEMMA SpentKept ==
    ASSUME Spent, NEW s \in SpecIds, Runs(s)' \subseteq Runs(s),
           Running(s)' \subseteq Running(s)
    PROVE  Cardinality(Runs(s)') + Cardinality(Running(s)')
               <= SearchBudget + Cardinality(Sessions) - 1
<1>1. /\ Cardinality(Runs(s)') <= Cardinality(Runs(s))
      /\ Cardinality(Running(s)') <= Cardinality(Running(s))
      /\ Cardinality(Runs(s)') \in Nat /\ Cardinality(Running(s)') \in Nat
      /\ Cardinality(Runs(s)) \in Nat /\ Cardinality(Running(s)) \in Nat
      /\ Cardinality(Sessions) \in Nat
  BY SpentCounts
<1>2. Cardinality(Runs(s)) + Cardinality(Running(s))
          <= SearchBudget + Cardinality(Sessions) - 1
  BY DEF Spent
<1> QED
  BY <1>1, <1>2, BacktestsAssumption

\* The other sessions run on, or do not, as before.
LEMMA OthersRun ==
    ASSUME NEW i \in Sessions, \A j \in Sessions \ {i} : sess'[j] = sess[j],
           NEW s
    PROVE  /\ Running(s)' \subseteq Running(s) \cup {i}
           /\ ~ (sess'[i].at = "run" /\ sess'[i].req[1] = s) =>
                Running(s)' \subseteq Running(s) \ {i}
  BY DEF Running

\* The trials that are counted include the runs.
LEMMA TrialsCoverRuns ==
    ASSUME BTypes, NEW s
    PROVE  SpecTrials(s) \in Nat /\ Cardinality(Runs(s)) <= SpecTrials(s)
<1> DEFINE a == {r \in Requests : r[1] = s /\ trial[r] # None}
           b == {r \in scoredOn : r[1] = s}
<1>1. Runs(s) \subseteq a /\ a \subseteq Requests
  BY DEF Runs, None
<1>2. b \subseteq HoldoutRequests
  BY DEF BTypes
<1>3. IsFiniteSet(Requests) /\ IsFiniteSet(HoldoutRequests)
  BY BacktestsAssumption
<1>4. SpecTrials(s) = Cardinality(a) + Cardinality(b)
  BY DEF SpecTrials
<1> HIDE DEF a, b
<1>5. /\ Cardinality(a) \in Nat /\ Cardinality(Runs(s)) \in Nat
      /\ Cardinality(Runs(s)) <= Cardinality(a)
  BY <1>1, <1>3, Counts
<1>6. Cardinality(b) \in Nat
  BY <1>2, <1>3, Counts
<1> QED
  BY <1>4, <1>5, <1>6

\* A session's move keeps the runs logged and under way within the bound.
LEMMA SpentMove ==
    ASSUME BTypes, Spent, NEW i \in Sessions, Moves(i), NEW s \in SpecIds
    PROVE  Cardinality(Runs(s)') + Cardinality(Running(s)')
               <= SearchBudget + Cardinality(Sessions) - 1
<1> USE DEF BTypes
<1>1. \A j \in Sessions \ {i} : sess'[j] = sess[j]
  BY MoveTypes DEF SessionMoved
<1>2. ASSUME UNCHANGED trial, sess'[i].at # "run"
      PROVE  Cardinality(Runs(s)') + Cardinality(Running(s)')
                 <= SearchBudget + Cardinality(Sessions) - 1
  BY <1>1, <1>2, OthersRun, SpentKept DEF Runs
<1>a. \A l \in Places : Goes(i, l) =>
        sess'[i].at = l /\ sess'[i].req = sess[i].req
  BY PlaceAfter
<1>b. /\ "count" \in Places /\ "reject" \in Places /\ "tell" \in Places
      /\ "run" \in Places /\ "advance" \in Places /\ "swap" \in Places
  BY DEF Places
<1>c. \A a \in {"ok", "stale"} : Answers(i, a) => sess'[i].at = "idle"
  BY PlaceAfter
<1>d. Refuses(i) => sess'[i].at = "idle"
  BY PlaceAfter
<1>3. ASSUME NEW r \in Requests, ReadSpec(i, r)
      PROVE  UNCHANGED trial /\ sess'[i].at # "run"
  <2>1. sess' = [sess EXCEPT ![i] = [at |-> "lookup", req |-> r,
                                     token |-> Token(r[1]), answer |-> None]]
        /\ UNCHANGED trial
    BY <1>3 DEF ReadSpec
  <2>2. sess'[i] = [at |-> "lookup", req |-> r, token |-> Token(r[1]),
                    answer |-> None]
    BY <2>1
  <2> QED
    BY <2>1, <2>2
<1>4. ASSUME LookUp(i) PROVE UNCHANGED trial /\ sess'[i].at # "run"
  <2>1. sess[i].req \in Requests /\ UNCHANGED trial
    BY <1>4 DEF LookUp
  <2>2. trial[sess[i].req] \in {None, "run", "rejected"}
    BY <2>1
  <2>3. Goes(i, "count") \/ Goes(i, "advance") \/ Refuses(i)
    BY <1>4, <2>2 DEF LookUp, None
  <2> QED
    BY <1>a, <1>b, <1>d, <2>1, <2>3
<1>5. ASSUME TellRejection(i) \/ RunFails(i) \/ CrashSession(i)
      PROVE  UNCHANGED trial /\ sess'[i].at # "run"
  BY <1>5, <1>d DEF TellRejection, RunFails, CrashSession, Refuses
<1>6. ASSUME ReadState(i) \/ SwapState(i)
      PROVE  UNCHANGED trial /\ sess'[i].at # "run"
  BY <1>6, <1>a, <1>b, <1>c DEF ReadState, SwapState
<1>7. CASE CountTrials(i)
  <2>1. UNCHANGED trial /\ Runs(s)' = Runs(s) /\ sess[i].at = "count"
    BY <1>7 DEF CountTrials, Runs
  <2>2. CASE Goes(i, "reject")
    BY <1>2, <1>a, <1>b, <2>1, <2>2
  <2>3. CASE Goes(i, "run") /\ sess[i].req[1] # s
    <3>1. ~ (sess'[i].at = "run" /\ sess'[i].req[1] = s)
      BY <1>a, <1>b, <2>3
    <3>2. Running(s)' \subseteq Running(s)
      BY <1>1, <3>1, OthersRun
    <3> QED
      BY <2>1, <3>2, SpentKept
  <2>4. CASE SpecTrials(sess[i].req[1]) < SearchBudget /\ sess[i].req[1] = s
    <3>1. /\ SpecTrials(s) \in Nat /\ Cardinality(Runs(s)) <= SpecTrials(s)
          /\ SpecTrials(s) < SearchBudget
      BY <2>4, TrialsCoverRuns
    <3>2. /\ Cardinality(Runs(s)) \in Nat /\ Cardinality(Sessions) \in Nat
      BY SpentCounts
    <3>3. /\ Cardinality(Running(s)') \in Nat
          /\ Cardinality(Running(s)') <= Cardinality(Sessions)
      <4>1. Running(s)' \subseteq Sessions
        BY DEF Running
      <4> QED
        BY <4>1, BacktestsAssumption, Counts
    <3> QED
      BY <2>1, <3>1, <3>2, <3>3, BacktestsAssumption
  <2>5. SpecTrials(sess[i].req[1]) \in Nat /\ SearchBudget \in Nat
    BY TrialsCoverRuns, BacktestsAssumption
  <2>6. \/ Goes(i, "reject")
        \/ Goes(i, "run") /\ ~ (SpecTrials(sess[i].req[1]) >= SearchBudget)
    BY <1>7 DEF CountTrials
  <2> QED
    BY <2>2, <2>3, <2>4, <2>5, <2>6
<1>8. CASE LogRejection(i)
  <2>1. sess[i].req \in Requests /\ Log(sess[i].req, "rejected")
        /\ Goes(i, "tell")
    BY <1>8 DEF LogRejection
  <2>2. /\ \A q \in Requests \ {sess[i].req} : trial'[q] = trial[q]
        /\ trial'[sess[i].req] = IF trial[sess[i].req] = None THEN "rejected"
                                 ELSE trial[sess[i].req]
    BY <2>1, LogKeeps
  <2>3. Runs(s)' \subseteq Runs(s)
    BY <2>2 DEF Runs
  <2> QED
    BY <1>1, <1>a, <1>b, <2>1, <2>3, OthersRun, SpentKept
<1>9. CASE LogRun(i)
  <2>1. sess[i].req \in Requests /\ Log(sess[i].req, "run")
        /\ Goes(i, "advance") /\ sess[i].at = "run"
    BY <1>9 DEF LogRun
  <2>2. PICK r \in Requests : r = sess[i].req
    BY <2>1
  <2>3. \A q \in Requests \ {r} : trial'[q] = trial[q]
    BY <2>1, <2>2, LogKeeps
  <2>4. Running(s)' \subseteq Running(s) \ {i}
    BY <1>1, <1>a, <1>b, <2>1, OthersRun
  <2>5. CASE r[1] # s
    <3>1. Runs(s)' \subseteq Runs(s)
      BY <2>3, <2>5 DEF Runs
    <3> QED
      BY <2>4, <3>1, SpentKept
  <2>6. CASE r[1] = s
    <3>1. Runs(s)' \subseteq Runs(s) \cup {r} /\ i \in Running(s)
      BY <2>1, <2>2, <2>3, <2>6 DEF Runs, Running
    <3>2. /\ Cardinality(Runs(s)') \in Nat
          /\ Cardinality(Runs(s)') <= Cardinality(Runs(s)) + 1
          /\ Cardinality(Runs(s)) \in Nat
      <4> DEFINE G == Runs(s) \cup {r}
      <4>1. Runs(s) \subseteq Requests /\ G \subseteq Requests
            /\ Runs(s)' \subseteq G
        BY <3>1 DEF Runs
      <4>2. /\ Cardinality(Runs(s)) \in Nat /\ Cardinality(G) \in Nat
            /\ Cardinality(G) <= Cardinality(Runs(s)) + 1
        BY SpentCounts
      <4> HIDE DEF G
      <4>3. Cardinality(Runs(s)') \in Nat
            /\ Cardinality(Runs(s)') <= Cardinality(G)
        BY <4>1, BacktestsAssumption, Counts
      <4> QED
        BY <4>2, <4>3
    <3>3. /\ Cardinality(Running(s)') \in Nat
          /\ Cardinality(Running(s)') <= Cardinality(Running(s)) - 1
          /\ Cardinality(Running(s)) \in Nat
      <4> DEFINE G == Running(s) \ {i}
      <4>1. Running(s)' \subseteq G /\ G \subseteq Sessions
        BY <2>4 DEF Running
      <4>2. /\ Cardinality(G) = Cardinality(Running(s)) - 1
            /\ Cardinality(Running(s)) \in Nat
        BY <3>1, SpentCounts
      <4> HIDE DEF G
      <4>3. Cardinality(Running(s)') \in Nat
            /\ Cardinality(Running(s)') <= Cardinality(G)
        BY <4>1, BacktestsAssumption, Counts
      <4> QED
        BY <4>2, <4>3
    <3>4. Cardinality(Runs(s)) + Cardinality(Running(s))
              <= SearchBudget + Cardinality(Sessions) - 1
      BY DEF Spent
    <3>5. Cardinality(Sessions) \in Nat /\ SearchBudget \in Nat
      BY SpentCounts, BacktestsAssumption
    <3> QED
      BY <3>2, <3>3, <3>4, <3>5
  <2> QED
    BY <2>5, <2>6
<1> QED
  BY <1>2, <1>3, <1>4, <1>5, <1>6, <1>7, <1>8, <1>9 DEF Moves

\* So does every step.
LEMMA SpentStep ==
    ASSUME BTypes, Spent, [Next]_vars
    PROVE  Spent'
<1>1. ASSUME UNCHANGED <<sess, trial>> PROVE Spent'
  <2>1. \A s \in SpecIds : Runs(s)' = Runs(s) /\ Running(s)' = Running(s)
    BY <1>1 DEF Runs, Running
  <2> QED
    BY <2>1, SpentKept DEF Spent
<1>2. ASSUME NEW i \in Sessions, Moves(i) PROVE Spent'
  BY <1>2, SpentMove DEF Spent
<1>3. CASE HoldoutMoves
  BY <1>1, <1>3
  DEF HoldoutMoves, LogHoldout, ConsumeHoldout, CrashHoldout, StartHoldout
<1> QED
  BY <1>1, <1>2, <1>3, NextMoves DEF vars

(***************************************************************************)
(* The budget's event: a session on its way to tell counts as one told.    *)
(***************************************************************************)
Pending(r) == {i \in Sessions : sess[i].req = r
                                /\ sess[i].at \in {"count", "reject", "tell"}}

ToldOf(r) ==
    /\ trial[r] = None => told[r] = 0
    /\ told[r] + Cardinality(Pending(r)) <= Cardinality(Sessions)

ToldKept == \A r \in Requests : ToldOf(r)

\* The sessions that may still tell of a request are finitely many.
LEMMA PendingCounts ==
    ASSUME NEW r
    PROVE  /\ Cardinality(Pending(r)) \in Nat /\ Cardinality(Sessions) \in Nat
           /\ Cardinality(Pending(r)') \in Nat
           /\ Cardinality(Pending(r)') <= Cardinality(Sessions)
           /\ \A T \in SUBSET Pending(r) : Cardinality(T) \in Nat
                                  /\ Cardinality(T) <= Cardinality(Pending(r))
           /\ \A i \in Pending(r) :
                Cardinality(Pending(r) \ {i}) = Cardinality(Pending(r)) - 1
<1>1. Pending(r) \subseteq Sessions /\ Pending(r)' \subseteq Sessions
  BY DEF Pending
<1>2. IsFiniteSet(Sessions)
  BY BacktestsAssumption
<1>3. Cardinality(Pending(r)') \in Nat
      /\ Cardinality(Pending(r)') <= Cardinality(Sessions)
  BY <1>1, <1>2, Counts
<1>4. /\ Cardinality(Pending(r)) \in Nat /\ Cardinality(Sessions) \in Nat
      /\ \A T \in SUBSET Pending(r) : Cardinality(T) \in Nat
                                  /\ Cardinality(T) <= Cardinality(Pending(r))
      /\ \A i \in Pending(r) :
                Cardinality(Pending(r) \ {i}) = Cardinality(Pending(r)) - 1
  <2> HIDE DEF Pending
  <2> QED
    BY <1>1, <1>2, Counts
<1> QED
  BY <1>3, <1>4

\* Nobody is told and nobody new is on the way to tell.
LEMMA ToldSame ==
    ASSUME BTypes, Grows, NEW r \in Requests, ToldOf(r), told'[r] = told[r],
           Pending(r)' \subseteq Pending(r)
    PROVE  ToldOf(r)'
<1>1. /\ told[r] \in Nat /\ (trial[r] # None => trial'[r] # None)
      /\ told[r] + Cardinality(Pending(r)) <= Cardinality(Sessions)
      /\ (trial[r] = None => told[r] = 0)
  BY DEF BTypes, Grows, ToldOf
<1>2. /\ Cardinality(Pending(r)') <= Cardinality(Pending(r))
      /\ Cardinality(Pending(r)') \in Nat /\ Cardinality(Pending(r)) \in Nat
      /\ Cardinality(Sessions) \in Nat
  BY PendingCounts
<1>3. told'[r] + Cardinality(Pending(r)') <= Cardinality(Sessions)
  BY <1>1, <1>2
<1> QED
  BY <1>1, <1>3 DEF ToldOf

\* The others are on their way as before.
LEMMA OthersPending ==
    ASSUME NEW i \in Sessions, \A j \in Sessions \ {i} : sess'[j] = sess[j],
           NEW r
    PROVE  /\ ~ (sess'[i].req = r /\ sess'[i].at \in {"count", "reject", "tell"})
                => Pending(r)' \subseteq Pending(r) \ {i}
           /\ i \in Pending(r) => Pending(r)' \subseteq Pending(r)
  BY DEF Pending

\* A session tells of a rejection only while it is one of those that may.
LEMMA ToldMove ==
    ASSUME BTypes, Grows, AllKnow, NEW i \in Sessions, Moves(i),
           NEW r \in Requests, ToldOf(r)
    PROVE  ToldOf(r)'
<1> USE DEF BTypes
<1>1. \A j \in Sessions \ {i} : sess'[j] = sess[j]
  BY MoveTypes DEF SessionMoved
<1>2. ASSUME told'[r] = told[r], sess'[i].at \notin {"count", "reject", "tell"}
      PROVE  ToldOf(r)'
  BY <1>1, <1>2, OthersPending, ToldSame
<1>3. ASSUME told'[r] = told[r], sess[i].at \in {"count", "reject", "tell"},
             sess'[i].req = sess[i].req
      PROVE  ToldOf(r)'
  <2>1. CASE sess[i].req = r
    BY <1>1, <1>3, <2>1, OthersPending, ToldSame DEF Pending
  <2>2. CASE sess[i].req # r
    BY <1>1, <1>3, <2>2, OthersPending, ToldSame
  <2> QED
    BY <2>1, <2>2
<1>a. \A l \in Places : Goes(i, l) =>
        sess'[i].at = l /\ sess'[i].req = sess[i].req
  BY PlaceAfter
<1>b. /\ "count" \in Places /\ "reject" \in Places /\ "tell" \in Places
      /\ "run" \in Places /\ "advance" \in Places /\ "swap" \in Places
  BY DEF Places
<1>c. \A a \in {"ok", "stale"} : Answers(i, a) => sess'[i].at = "idle"
  BY PlaceAfter
<1>d. Refuses(i) => sess'[i].at = "idle"
  BY PlaceAfter
<1>4. ASSUME NEW q \in Requests, ReadSpec(i, q) PROVE ToldOf(r)'
  <2>1. sess' = [sess EXCEPT ![i] = [at |-> "lookup", req |-> q,
                                     token |-> Token(q[1]), answer |-> None]]
        /\ UNCHANGED told
    BY <1>4 DEF ReadSpec
  <2>2. sess'[i] = [at |-> "lookup", req |-> q, token |-> Token(q[1]),
                    answer |-> None]
    BY <2>1
  <2> QED
    BY <1>2, <2>1, <2>2
<1>5. CASE LookUp(i)
  <2>1. sess[i].req \in Requests /\ UNCHANGED <<told, trial>>
    BY <1>5 DEF LookUp
  <2>2. trial[sess[i].req] \in {None, "run", "rejected"}
    BY <2>1
  <2>3. \/ Goes(i, "count") /\ trial[sess[i].req] = None
        \/ Goes(i, "advance") \/ Refuses(i)
    BY <1>5, <2>2 DEF LookUp, None
  <2>4. CASE Goes(i, "advance") \/ Refuses(i)
    BY <1>2, <1>a, <1>b, <1>d, <2>1, <2>4
  <2>5. CASE Goes(i, "count") /\ trial[sess[i].req] = None
    <3>1. CASE sess[i].req = r
      <4>1. told'[r] = 0
        BY <2>1, <2>5, <3>1 DEF ToldOf
      <4>2. Cardinality(Pending(r)') \in Nat
            /\ Cardinality(Pending(r)') <= Cardinality(Sessions)
        BY PendingCounts
      <4>3. told'[r] + Cardinality(Pending(r)') <= Cardinality(Sessions)
        BY <4>1, <4>2
      <4> QED
        BY <4>1, <4>3 DEF ToldOf
    <3>2. CASE sess[i].req # r
      BY <1>1, <1>a, <1>b, <2>1, <2>5, <3>2, OthersPending, ToldSame
    <3> QED
      BY <3>1, <3>2
  <2> QED
    BY <2>3, <2>4, <2>5
<1>6. CASE CountTrials(i) \/ LogRejection(i)
  BY <1>3, <1>6, <1>a, <1>b DEF CountTrials, LogRejection
<1>7. CASE TellRejection(i)
  <2>1. /\ sess[i].at = "tell" /\ sess[i].req \in Requests
        /\ told' = [told EXCEPT ![sess[i].req] = @ + 1]
        /\ sess'[i].at = "idle" /\ UNCHANGED trial
    BY <1>7, <1>d DEF TellRejection
  <2>2. CASE sess[i].req # r
    BY <1>2, <2>1, <2>2
  <2>3. CASE sess[i].req = r
    <3>1. trial'[r] # None
      BY <2>1, <2>3 DEF AllKnow, SessionKnows
    <3>2. told'[r] = told[r] + 1 /\ told[r] \in Nat
      BY <2>1, <2>3
    <3>3. i \in Pending(r) /\ Pending(r)' \subseteq Pending(r) \ {i}
      BY <1>1, <2>1, <2>3, OthersPending DEF Pending
    <3>4. Pending(r)' = Pending(r) \ {i}
      BY <1>1, <3>3 DEF Pending
    <3>5. /\ Cardinality(Pending(r)') = Cardinality(Pending(r)) - 1
          /\ Cardinality(Pending(r)) \in Nat /\ Cardinality(Sessions) \in Nat
      BY <3>3, <3>4, PendingCounts
    <3>6. told[r] + Cardinality(Pending(r)) <= Cardinality(Sessions)
      BY DEF ToldOf
    <3>7. told'[r] + Cardinality(Pending(r)') <= Cardinality(Sessions)
      BY <3>2, <3>5, <3>6
    <3> QED
      BY <3>1, <3>7 DEF ToldOf
  <2> QED
    BY <2>2, <2>3
<1>8. CASE RunFails(i) \/ CrashSession(i)
  BY <1>2, <1>8, <1>d DEF RunFails, CrashSession, Refuses
<1>9. CASE LogRun(i) \/ ReadState(i) \/ SwapState(i)
  BY <1>2, <1>9, <1>a, <1>b, <1>c DEF LogRun, ReadState, SwapState
<1> QED
  BY <1>4, <1>5, <1>6, <1>7, <1>8, <1>9 DEF Moves

\* Every step keeps the account of what was told.
LEMMA ToldStep ==
    ASSUME BTypes, Lifecycle, AllKnow, ToldKept, [Next]_vars
    PROVE  ToldKept'
<1>1. Grows /\ \A r \in Requests : ToldOf(r)
  BY AllGrows DEF ToldKept, ToldOf
<1>2. ASSUME UNCHANGED <<sess, told>> PROVE ToldKept'
  <2>1. \A r \in Requests : Pending(r)' = Pending(r)
    BY <1>2 DEF Pending
  <2>2. \A r \in Requests : ToldOf(r)'
    BY <1>1, <1>2, <2>1, ToldSame
  <2> QED
    BY <2>2 DEF ToldKept, ToldOf
<1>3. ASSUME NEW i \in Sessions, Moves(i) PROVE ToldKept'
  <2>1. \A r \in Requests : ToldOf(r)'
    BY <1>1, <1>3, ToldMove
  <2> QED
    BY <2>1 DEF ToldKept, ToldOf
<1>4. CASE HoldoutMoves
  BY <1>2, <1>4
  DEF HoldoutMoves, LogHoldout, ConsumeHoldout, CrashHoldout, StartHoldout
<1> QED
  BY <1>2, <1>3, <1>4, NextMoves DEF vars

(***************************************************************************)
(* Rejections are earned: who rejects has counted, and the count only      *)
(* grows.                                                                  *)
(***************************************************************************)
HasCounted(i) ==
    sess[i].at = "reject" => SpecTrials(sess[i].req[1]) >= SearchBudget

Earned ==
    /\ \A i \in Sessions : HasCounted(i)
    /\ \A r \in Requests :
         trial[r] = "rejected" => SpecTrials(r[1]) > SearchBudget

\* The trials counted for a spec never get fewer, and a first log adds one.
LEMMA TrialsGrow ==
    ASSUME BTypes, BTypes', Grows, NEW s
    PROVE  /\ SpecTrials(s) \in Nat /\ SpecTrials(s)' \in Nat
           /\ SpecTrials(s) <= SpecTrials(s)'
           /\ \A r \in Requests :
                r[1] = s /\ trial[r] = None /\ trial'[r] # None
                    => SpecTrials(s) < SpecTrials(s)'
<1> DEFINE a == {r \in Requests : r[1] = s /\ trial[r] # None}
           b == {r \in scoredOn : r[1] = s}
           c == {r \in Requests : r[1] = s /\ trial'[r] # None}
           d == {r \in scoredOn' : r[1] = s}
<1>1. a \subseteq c /\ b \subseteq d
  BY DEF Grows
<1>2. c \subseteq Requests /\ d \subseteq HoldoutRequests
  BY DEF BTypes
<1>3. IsFiniteSet(Requests) /\ IsFiniteSet(HoldoutRequests)
  BY BacktestsAssumption
<1>4. /\ SpecTrials(s) = Cardinality(a) + Cardinality(b)
      /\ SpecTrials(s)' = Cardinality(c) + Cardinality(d)
  BY DEF SpecTrials
<1>5. ASSUME NEW r \in Requests, r[1] = s, trial[r] = None, trial'[r] # None
      PROVE  r \in c \ a
  BY <1>5
<1> HIDE DEF a, b, c, d
<1>6. /\ Cardinality(a) \in Nat /\ Cardinality(c) \in Nat
      /\ Cardinality(a) <= Cardinality(c)
  BY <1>1, <1>2, <1>3, Counts
<1>7. /\ Cardinality(b) \in Nat /\ Cardinality(d) \in Nat
      /\ Cardinality(b) <= Cardinality(d)
  BY <1>1, <1>2, <1>3, Counts
<1>8. ASSUME NEW r \in c \ a PROVE Cardinality(a) < Cardinality(c)
  <2>1. Cardinality(c \ {r}) = Cardinality(c) - 1 /\ IsFiniteSet(c)
    BY <1>2, <1>3, <1>8, Counts
  <2>2. a \subseteq c \ {r} /\ c \ {r} \subseteq c
    BY <1>1, <1>8
  <2> DEFINE e == c \ {r}
  <2>3. e \subseteq c /\ a \subseteq e
    BY <2>2
  <2> HIDE DEF e
  <2>4. Cardinality(a) <= Cardinality(e) /\ Cardinality(e) \in Nat
    BY <2>1, <2>3, Counts
  <2> QED
    BY <1>6, <2>1, <2>4 DEF e
<1> QED
  BY <1>4, <1>5, <1>6, <1>7, <1>8

\* What a step leaves of the sessions and of the registry is earned still.
LEMMA EarnedStep ==
    ASSUME BTypes, Lifecycle, Earned, [Next]_vars
    PROVE  Earned'
<1>1. BTypes' /\ Grows
  BY AllGrows
<1>2. \A s \in SpecIds : /\ SpecTrials(s) \in Nat /\ SpecTrials(s)' \in Nat
                         /\ SpecTrials(s) <= SpecTrials(s)'
  BY <1>1, TrialsGrow
<1>3. SearchBudget \in Nat /\ \A r \in Requests : r[1] \in SpecIds
  BY BacktestsAssumption
<1>4. ASSUME NEW j \in Sessions, sess'[j] = sess[j] PROVE HasCounted(j)'
  <2>1. CASE sess[j].at # "reject"
    BY <1>4, <2>1 DEF HasCounted
  <2>2. CASE sess[j].at = "reject"
    <3>1. sess[j].req \in Requests
      BY <2>2 DEF BTypes
    <3>2. PICK s \in SpecIds : s = sess[j].req[1]
      BY <1>3, <3>1
    <3>3. SpecTrials(s) >= SearchBudget
      BY <2>2, <3>2 DEF Earned, HasCounted
    <3>4. SpecTrials(s)' >= SearchBudget
      BY <1>2, <1>3, <3>3
    <3>5. sess'[j].req[1] = s
      BY <1>4, <3>2
    <3> QED
      BY <3>4, <3>5 DEF HasCounted, SpecTrials
  <2> QED
    BY <2>1, <2>2
<1>5. ASSUME NEW r \in Requests, trial[r] = "rejected"
      PROVE  SpecTrials(r[1])' > SearchBudget
  <2>1. PICK s \in SpecIds : s = r[1]
    BY <1>3
  <2>2. SpecTrials(s) > SearchBudget
    BY <1>5, <2>1 DEF Earned
  <2>3. SpecTrials(s)' > SearchBudget
    BY <1>2, <1>3, <2>2
  <2> QED
    BY <2>1, <2>3
<1>6. CASE UNCHANGED <<sess, trial>>
  BY <1>4, <1>5, <1>6 DEF Earned
<1>7. ASSUME NEW i \in Sessions, Moves(i) PROVE Earned'
  <2>1. \A j \in Sessions \ {i} : sess'[j] = sess[j]
    BY <1>7, MoveTypes DEF SessionMoved
  <2>2. ASSUME sess'[i].at # "reject", UNCHANGED trial PROVE Earned'
    BY <1>4, <1>5, <2>1, <2>2 DEF Earned, HasCounted
  <2>a. \A l \in Places : Goes(i, l) =>
          sess'[i].at = l /\ sess'[i].req = sess[i].req
    BY PlaceAfter
  <2>b. /\ "count" \in Places /\ "reject" \in Places /\ "tell" \in Places
        /\ "run" \in Places /\ "advance" \in Places /\ "swap" \in Places
    BY DEF Places
  <2>c. \A a \in {"ok", "stale"} : Answers(i, a) => sess'[i].at = "idle"
    BY PlaceAfter
  <2>d. Refuses(i) => sess'[i].at = "idle"
    BY PlaceAfter
  <2>3. ASSUME NEW r \in Requests, ReadSpec(i, r) PROVE Earned'
    <3>1. sess' = [sess EXCEPT ![i] = [at |-> "lookup", req |-> r,
                                       token |-> Token(r[1]), answer |-> None]]
          /\ UNCHANGED trial
      BY <2>3 DEF ReadSpec
    <3>2. sess'[i] = [at |-> "lookup", req |-> r, token |-> Token(r[1]),
                      answer |-> None]
      BY <3>1 DEF BTypes
    <3> QED
      BY <2>2, <3>1, <3>2
  <2>4. CASE LookUp(i)
    <3>1. sess[i].req \in Requests /\ UNCHANGED trial
      BY <2>4 DEF LookUp, BTypes
    <3>2. trial[sess[i].req] \in {None, "run", "rejected"}
      BY <3>1 DEF BTypes
    <3>3. Goes(i, "count") \/ Goes(i, "advance") \/ Refuses(i)
      BY <2>4, <3>2 DEF LookUp, None
    <3> QED
      BY <2>2, <2>a, <2>b, <2>d, <3>1, <3>3
  <2>5. CASE CountTrials(i)
    <3>1. UNCHANGED trial /\ sess[i].req \in Requests
      BY <2>5 DEF CountTrials, BTypes
    <3>2. PICK s \in SpecIds : s = sess[i].req[1]
      BY <1>3, <3>1
    <3>3. CASE Goes(i, "run")
      BY <2>2, <2>a, <2>b, <3>1, <3>3
    <3>4. CASE Goes(i, "reject") /\ SpecTrials(s) >= SearchBudget
      <4>1. SpecTrials(s)' >= SearchBudget
        BY <1>2, <1>3, <3>4
      <4>2. sess'[i].req[1] = s
        BY <2>a, <2>b, <3>2, <3>4
      <4>3. HasCounted(i)'
        BY <4>1, <4>2 DEF HasCounted, SpecTrials
      <4> QED
        BY <1>4, <1>5, <2>1, <3>1, <4>3 DEF Earned
    <3> QED
      BY <2>5, <3>2, <3>3, <3>4 DEF CountTrials
  <2>6. CASE LogRejection(i) \/ LogRun(i)
    <3>1. PICK r \in Requests, s \in SpecIds, what \in {"run", "rejected"} :
            /\ r = sess[i].req /\ s = r[1] /\ Log(r, what)
            /\ what = "rejected" => sess[i].at = "reject"
      BY <1>3, <2>6 DEF LogRejection, LogRun, BTypes
    <3>2. /\ \A q \in Requests \ {r} : trial'[q] = trial[q]
          /\ trial'[r] = IF trial[r] = None THEN what ELSE trial[r]
      BY <3>1, LogKeeps
    <3>3. sess'[i].at # "reject"
      BY <2>6, <2>a, <2>b DEF LogRejection, LogRun
    <3>4. ASSUME trial'[r] = "rejected", trial[r] = None
          PROVE  SpecTrials(s)' > SearchBudget
      <4>1. what = "rejected"
        BY <3>2, <3>4
      <4>2. SpecTrials(s) >= SearchBudget
        BY <3>1, <4>1 DEF Earned, HasCounted
      <4>3. SpecTrials(s) < SpecTrials(s)'
        BY <1>1, <3>1, <3>4, TrialsGrow DEF None
      <4> QED
        BY <1>2, <1>3, <4>2, <4>3
    <3>5. ASSUME NEW q \in Requests, trial'[q] = "rejected"
          PROVE  SpecTrials(q[1])' > SearchBudget
      <4>1. CASE trial[q] = "rejected"
        BY <1>5, <4>1
      <4>2. CASE trial[q] # "rejected"
        BY <3>1, <3>2, <3>4, <3>5, <4>2
      <4> QED
        BY <4>1, <4>2
    <3> QED
      BY <1>4, <2>1, <3>3, <3>5 DEF Earned, HasCounted
  <2>7. CASE TellRejection(i) \/ RunFails(i) \/ CrashSession(i)
    BY <2>2, <2>7, <2>d DEF TellRejection, RunFails, CrashSession, Refuses
  <2>8. CASE ReadState(i) \/ SwapState(i)
    BY <2>2, <2>8, <2>a, <2>b, <2>c DEF ReadState, SwapState
  <2> QED
    BY <1>7, <2>3, <2>4, <2>5, <2>6, <2>7, <2>8 DEF Moves
<1>8. CASE HoldoutMoves
  BY <1>6, <1>8
  DEF HoldoutMoves, LogHoldout, ConsumeHoldout, CrashHoldout, StartHoldout
<1> QED
  BY <1>6, <1>7, <1>8, NextMoves DEF vars

(***************************************************************************)
(* A rejection goes unheard only with the process that logged it.          *)
(***************************************************************************)
UnheardPaid == crashes \in Nat /\ Cardinality(Unheard) <= crashes

\* Nothing new goes unheard.
LEMMA UnheardKept ==
    ASSUME UnheardPaid, Unheard' \subseteq Unheard,
           crashes' \in {crashes, crashes + 1}
    PROVE  UnheardPaid'
<1>1. Unheard \subseteq Requests /\ IsFiniteSet(Requests)
  BY BacktestsAssumption DEF Unheard
<1> HIDE DEF Unheard
<1>2. /\ Cardinality(Unheard) \in Nat /\ Cardinality(Unheard') \in Nat
      /\ Cardinality(Unheard') <= Cardinality(Unheard)
  BY <1>1, Counts
<1>3. Cardinality(Unheard)' = Cardinality(Unheard')
  OBVIOUS
<1> QED
  BY <1>2, <1>3 DEF UnheardPaid

\* One more goes unheard, with a process that died.
LEMMA UnheardPaidFor ==
    ASSUME UnheardPaid, NEW r \in Requests, Unheard' \subseteq Unheard \cup {r},
           crashes' = crashes + 1
    PROVE  UnheardPaid'
<1>1. Unheard \subseteq Requests /\ IsFiniteSet(Requests)
  BY BacktestsAssumption DEF Unheard
<1> HIDE DEF Unheard
<1> DEFINE G == Unheard \cup {r}
<1>2. G \subseteq Requests /\ Unheard' \subseteq G
  BY <1>1
<1>3. /\ Cardinality(Unheard) \in Nat /\ Cardinality(G) \in Nat
      /\ Cardinality(G) <= Cardinality(Unheard) + 1
  BY <1>1, Counts
<1> HIDE DEF G
<1>4. Cardinality(Unheard') \in Nat /\ Cardinality(Unheard') <= Cardinality(G)
  BY <1>1, <1>2, Counts
<1>5. Cardinality(Unheard)' = Cardinality(Unheard')
  OBVIOUS
<1> QED
  BY <1>3, <1>4, <1>5 DEF UnheardPaid

\* A session's move leaves a rejection unheard only if the session dies.
LEMMA UnheardMove ==
    ASSUME BTypes, UnheardPaid, NEW i \in Sessions, Moves(i)
    PROVE  UnheardPaid'
<1> USE DEF BTypes
<1>1. \A j \in Sessions \ {i} : sess'[j] = sess[j]
  BY MoveTypes DEF SessionMoved
<1>a. \A l \in Places : Goes(i, l) =>
        sess'[i].at = l /\ sess'[i].req = sess[i].req
  BY PlaceAfter
<1>b. {"lookup", "count", "reject", "tell", "run", "advance", "swap"} \subseteq Places
  BY DEF Places
<1>2. ASSUME UNCHANGED <<trial, told>>, sess[i].at # "tell",
             crashes' \in {crashes, crashes + 1}
      PROVE  UnheardPaid'
  <2>1. Unheard' \subseteq Unheard
    BY <1>1, <1>2 DEF Unheard
  <2> QED
    BY <1>2, <2>1, UnheardKept
<1>3. CASE \/ LookUp(i) \/ CountTrials(i) \/ RunFails(i) \/ ReadState(i)
           \/ SwapState(i) \/ \E r \in Requests : ReadSpec(i, r)
  <2>1. UNCHANGED <<trial, told, crashes>> /\ sess[i].at # "tell"
    BY <1>3 DEF LookUp, CountTrials, RunFails, ReadState, SwapState, ReadSpec
  <2> QED
    BY <1>2, <2>1
<1>c. ASSUME NEW q \in Unheard', q # sess[i].req, trial'[q] = trial[q],
             told'[q] = told[q]
      PROVE  q \in Unheard
  <2>1. /\ q \in Requests /\ trial[q] = "rejected" /\ told[q] = 0
        /\ \A j \in Sessions : ~ (sess'[j].at = "tell" /\ sess'[j].req = q)
    BY <1>c DEF Unheard
  <2>2. \A j \in Sessions : ~ (sess[j].at = "tell" /\ sess[j].req = q)
    BY <1>1, <1>c, <2>1
  <2> QED
    BY <2>1, <2>2 DEF Unheard
<1>4. CASE LogRejection(i)
  <2>1. /\ sess[i].req \in Requests /\ Log(sess[i].req, "rejected")
        /\ sess'[i].at = "tell" /\ sess'[i].req = sess[i].req
        /\ sess[i].at = "reject" /\ UNCHANGED <<told, crashes>>
    BY <1>4, <1>a, <1>b DEF LogRejection
  <2>2. \A q \in Requests \ {sess[i].req} : trial'[q] = trial[q]
    BY <2>1, LogKeeps
  <2>3. ASSUME NEW q \in Unheard' PROVE q \in Unheard
    <3>1. q \in Requests /\ q # sess[i].req
      BY <2>1 DEF Unheard
    <3> QED
      BY <1>c, <2>1, <2>2, <3>1
  <2> QED
    BY <2>1, <2>3, UnheardKept
<1>5. CASE LogRun(i)
  <2>1. /\ sess[i].req \in Requests /\ Log(sess[i].req, "run")
        /\ sess[i].at = "run" /\ UNCHANGED <<told, crashes>>
    BY <1>5 DEF LogRun
  <2>2. /\ \A q \in Requests \ {sess[i].req} : trial'[q] = trial[q]
        /\ trial'[sess[i].req] = "rejected" => trial[sess[i].req] = "rejected"
    BY <2>1, LogKeeps
  <2>3. ASSUME NEW q \in Unheard' PROVE q \in Unheard
    <3>1. CASE q # sess[i].req
      BY <1>c, <2>1, <2>2, <3>1 DEF Unheard
    <3>2. CASE q = sess[i].req
      <4>1. /\ q \in Requests /\ trial[q] = "rejected" /\ told[q] = 0
            /\ \A j \in Sessions : ~ (sess'[j].at = "tell" /\ sess'[j].req = q)
        BY <2>1, <2>2, <3>2 DEF Unheard
      <4>2. \A j \in Sessions : ~ (sess[j].at = "tell" /\ sess[j].req = q)
        BY <1>1, <2>1, <4>1
      <4> QED
        BY <4>1, <4>2 DEF Unheard
    <3> QED
      BY <3>1, <3>2
  <2> QED
    BY <2>1, <2>3, UnheardKept
<1>6. CASE TellRejection(i)
  <2>1. /\ sess[i].req \in Requests /\ UNCHANGED <<trial, crashes>>
        /\ told' = [told EXCEPT ![sess[i].req] = @ + 1]
    BY <1>6 DEF TellRejection
  <2>2. /\ \A q \in Requests \ {sess[i].req} : told'[q] = told[q]
        /\ told'[sess[i].req] > 0
    BY <2>1
  <2>3. ASSUME NEW q \in Unheard' PROVE q \in Unheard
    <3>1. q \in Requests /\ q # sess[i].req
      BY <2>2 DEF Unheard
    <3> QED
      BY <1>c, <2>1, <2>2, <3>1
  <2> QED
    BY <2>1, <2>3, UnheardKept
<1>7. CASE CrashSession(i)
  <2>1. /\ sess[i].req \in Requests /\ UNCHANGED <<trial, told>>
        /\ crashes' = crashes + 1
    BY <1>7 DEF CrashSession
  <2>2. Unheard' \subseteq Unheard \cup {sess[i].req}
    BY <1>1, <2>1 DEF Unheard
  <2> QED
    BY <2>1, <2>2, UnheardPaidFor
<1> QED
  BY <1>3, <1>4, <1>5, <1>6, <1>7 DEF Moves

\* So does every step.
LEMMA UnheardStep ==
    ASSUME BTypes, UnheardPaid, [Next]_vars
    PROVE  UnheardPaid'
<1>1. ASSUME UNCHANGED <<sess, trial, told>>, crashes' \in {crashes, crashes + 1}
      PROVE  UnheardPaid'
  <2>1. Unheard' \subseteq Unheard
    BY <1>1 DEF Unheard
  <2> QED
    BY <1>1, <2>1, UnheardKept
<1>2. CASE SpecsNext /\ UNCHANGED <<registry, returned, told, sess, eval>>
  <2>1. crashes' \in {crashes, crashes + 1}
    BY <1>2
    DEF SpecsNext, StartRegistration, CountBefore, AnnounceSpec, InsertSpec,
        EndRegistration, LoseEvent, CrashRegistration, Repair
  <2> QED
    BY <1>1, <1>2, <2>1
<1>3. CASE HoldoutMoves
  BY <1>1, <1>3
  DEF HoldoutMoves, LogHoldout, ConsumeHoldout, CrashHoldout, StartHoldout
<1> QED
  BY <1>1, <1>2, <1>3, NextMoves, UnheardMove DEF vars

(***************************************************************************)
(* The invariant and the theorems.                                         *)
(***************************************************************************)
BInv ==
    /\ BTypes /\ Lifecycle /\ AllKnow /\ HoldoutKept /\ Spent /\ ToldKept
    /\ Earned /\ UnheardPaid

\* The invariant holds at the start.
LEMMA InitBInv == Init => BInv
<1> SUFFICES ASSUME Init PROVE BInv
  OBVIOUS
<1> USE DEF Init
<1>1. BTypes /\ Lifecycle
  <2>1. specs \in Seq(SpecIds)
    <3>1. PICK old \in SUBSET OldSpecs :
              specs \in [1 .. Cardinality(old) -> old]
      BY DEF SpecsInit
    <3>2. old \subseteq SpecIds /\ IsFiniteSet(old)
      BY SpecsAssumption, FS_Subset
    <3>3. Cardinality(old) \in Nat
      BY <3>2, FS_CardinalityType
    <3> QED
      BY <3>1, <3>2, <3>3
  <2>2. NoSession \in Session
    BY DEF NoSession, Session, Places
  <2>3. \A i \in Sessions : sess[i].at = "idle" /\ sess[i].answer = None
    BY DEF NoSession
  <2>4. sess \in [Sessions -> Session]
    BY <2>2
  <2>5. state \in [SpecIds -> {None, "SPEC", "BACKTEST"}]
        /\ \A s \in SpecIds : state[s] = None
    BY DEF SpecsInit
  <2>6. eval \in [at : {"idle", "log", "consume"},
                  req : HoldoutRequests \cup {NoRequest}] /\ eval.at = "idle"
    BY DEF NoEval
  <2> QED
    BY <2>1, <2>3, <2>4, <2>5, <2>6 DEF BTypes, Lifecycle
<1>2. AllKnow
  BY DEF AllKnow, SessionKnows, NoSession
<1>3. HoldoutKept
  BY DEF HoldoutKept, NoEval
<1>4. Spent
  <2> SUFFICES ASSUME NEW s \in SpecIds
               PROVE  Cardinality(Runs(s)) + Cardinality(Running(s))
                          <= SearchBudget + Cardinality(Sessions) - 1
    BY DEF Spent
  <2>1. Runs(s) = {} /\ Running(s) = {}
    BY DEF Runs, Running, NoSession, None
  <2>2. Cardinality(Sessions) \in Nat
    BY SpentCounts
  <2> QED
    BY <2>1, <2>2, FS_EmptySet, BacktestsAssumption
<1>5. ToldKept
  <2>1. \A r \in Requests : Pending(r) = {}
    BY DEF Pending, NoSession
  <2>2. Cardinality(Sessions) \in Nat
    BY SpentCounts
  <2> QED
    BY <2>1, <2>2, FS_EmptySet DEF ToldKept, ToldOf
<1>6. Earned
  BY DEF Earned, HasCounted, NoSession, None
<1>7. UnheardPaid
  <2>1. Unheard = {}
    BY DEF Unheard, None
  <2>2. crashes = 0
    BY DEF SpecsInit
  <2> QED
    BY <2>1, <2>2, FS_EmptySet DEF UnheardPaid
<1> QED
  BY <1>1, <1>2, <1>3, <1>4, <1>5, <1>6, <1>7 DEF BInv

\* Every step keeps the invariant.
LEMMA StepBInv == BInv /\ [Next]_vars => BInv'
  BY AllGrows, AllKnowStep, HoldoutStep, SpentStep, ToldStep, EarnedStep,
     UnheardStep DEF BInv

\* What a session read is still true enough when it acts on it.
THEOREM BacktestsInvariant == Spec => []BInv
  BY InitBInv, StepBInv, PTL DEF Spec

\* A caller that was told ok, or that it lost the swap, finds its spec in
\* BACKTEST and its request on the registry, as a run unless another session
\* had rejected it past the budget.  (run_backtest, advance_to_backtest)
THEOREM AnswersHold == Spec => []AnswersStand
<1>1. ASSUME BInv PROVE AnswersStand
  <2> SUFFICES ASSUME NEW i \in Sessions, sess[i].answer \in {"ok", "stale"}
               PROVE  /\ state[sess[i].req[1]] = "BACKTEST"
                      /\ \/ trial[sess[i].req] = "run"
                         \/ /\ trial[sess[i].req] = "rejected"
                            /\ SpecTrials(sess[i].req[1]) > SearchBudget
    BY DEF AnswersStand
  <2>1. sess[i].answer # None
    BY DEF None
  <2>2. /\ trial[sess[i].req] # None /\ state[sess[i].req[1]] = "BACKTEST"
        /\ sess[i].req \in Requests
    BY <1>1, <2>1 DEF BInv, AllKnow, SessionKnows, BTypes
  <2>3. trial[sess[i].req] \in {None, "run", "rejected"}
    BY <1>1, <2>2 DEF BInv, BTypes
  <2> QED
    BY <1>1, <2>2, <2>3 DEF BInv, Earned
<1> QED
  BY <1>1, BacktestsInvariant, PTL

\* Whatever is retried, a spec's holdout score is seen once, behind a logged
\* trial.  (evaluate_holdout, consume_holdout)
THEOREM OneLookAtHoldout == Spec => []HoldoutSeenOnce
<1>1. BInv => HoldoutSeenOnce
  BY DEF BInv, HoldoutKept, HoldoutSeenOnce
<1> QED
  BY <1>1, BacktestsInvariant, PTL

\* The search budget is overrun by the sessions that were under way at most.
\* (run_backtest, the count before the run)
THEOREM OverrunIsBounded == Spec => []BudgetOverrunBounded
<1>1. ASSUME BInv PROVE BudgetOverrunBounded
  <2> SUFFICES ASSUME NEW s \in SpecIds
               PROVE  Cardinality(Runs(s))
                          <= SearchBudget + Cardinality(Sessions) - 1
    BY DEF BudgetOverrunBounded, Runs
  <2>1. /\ Cardinality(Runs(s)) \in Nat /\ Cardinality(Running(s)) \in Nat
        /\ Cardinality(Sessions) \in Nat
    BY SpentCounts
  <2>2. Cardinality(Runs(s)) + Cardinality(Running(s))
            <= SearchBudget + Cardinality(Sessions) - 1
    BY <1>1 DEF BInv, Spent
  <2> QED
    BY <2>1, <2>2, BacktestsAssumption
<1> QED
  BY <1>1, BacktestsInvariant, PTL

\* A rejection is told of by the sessions under way at most, since a retry
\* finds it on the registry, and is told of at all unless a process died
\* between its log and its event.  (run_backtest, registry.get)
THEOREM RejectionToldOnce == Spec => []ToldOncePerSession
<1>1. ASSUME BInv PROVE ToldOncePerSession
  <2>1. ASSUME NEW r \in Requests PROVE told[r] <= Cardinality(Sessions)
    <3>1. /\ told[r] + Cardinality(Pending(r)) <= Cardinality(Sessions)
          /\ told[r] \in Nat
      BY <1>1 DEF BInv, ToldKept, ToldOf, BTypes
    <3>2. Cardinality(Pending(r)) \in Nat /\ Cardinality(Sessions) \in Nat
      BY PendingCounts
    <3> QED
      BY <3>1, <3>2
  <2> QED
    BY <1>1, <2>1 DEF ToldOncePerSession, BInv, UnheardPaid
<1> QED
  BY <1>1, BacktestsInvariant, PTL

=============================================================================
