------------------------------ MODULE Worklist ------------------------------
(***************************************************************************)
(* state/worklist.py and orchestrator/dispatch.py: rows of scheduled work, *)
(* and the resident loop that sweeps them, claims one, and wakes whoever   *)
(* handles it.  A claim carries a lease; a wake may outlive it, and the    *)
(* process may die at any commit.  Nothing is ever requeued.               *)
(*                                                                         *)
(* A row is a number, in order of created_at and work_id.  Time stamps are *)
(* the ticks of one clock.  Draining the alerts is Outbox's subject.       *)
(***************************************************************************)
EXTENDS Integers, FiniteSets

CONSTANTS
    Procs,        \* processes started as the dispatcher, by systemd or by hand
    MaxWorks,     \* bound on the rows
    Allowed,      \* rows whose (producer, kind) is in PRODUCER_KINDS; the
                  \* others were written by hand, past enqueue
    Lease,        \* DEFAULT_LEASE_S, in ticks
    Horizon,      \* latest not_before and expires_at
    MaxCrashes    \* bound on the crashes

ASSUME WorklistAssumption ==
    /\ MaxWorks \in Nat /\ Horizon \in Nat \ {0} /\ MaxCrashes \in Nat
    /\ Lease \in Nat \ {0}
    /\ Allowed \subseteq 1 .. MaxWorks

Works == 1 .. MaxWorks
Times == 0 .. Horizon + Lease + 1   \* the clock runs until every lease is over

VARIABLES
    status,      \* worklist.status, "none" before the INSERT
    notBefore, expiresAt, leaseUntil,
    alerted,     \* alerts of the sweep and of dispatch_once, per row
    wakes,       \* how often run_wake was called with the row
    now,         \* the clock
    at,          \* where each process is; "down" when it does not run
    cur,         \* the row it handles, 0 if none
    todo,        \* the rows its sweep has read and not handled yet
    read,        \* dispatch_once's now, read before the sweep
    crashes

rowVars == <<status, notBefore, expiresAt, leaseUntil>>
marks == <<alerted, wakes>>
procVars == <<at, cur, todo, read>>
vars == <<rowVars, marks, procVars, now, crashes>>

Status == {"none", "open", "claimed", "done", "failed", "expired"}
Labels == {"down", "cycle", "reap", "reap_alert", "expire", "expire_alert",
           "claim", "check", "refuse", "waking", "finish", "fail",
           "fail_alert"}

TypeOK ==
    /\ status \in [Works -> Status]
    /\ notBefore \in [Works -> Times] /\ expiresAt \in [Works -> Times]
    /\ leaseUntil \in [Works -> Times]
    /\ alerted \in [Works -> Nat] /\ wakes \in [Works -> Nat]
    /\ now \in Times /\ read \in [Procs -> Times]
    /\ at \in [Procs -> Labels]
    /\ cur \in [Procs -> Works \cup {0}]
    /\ todo \in [Procs -> SUBSET Works]
    /\ crashes \in Nat
    /\ \A w \in Works :
         status[w] \in {"claimed", "done", "failed"} => leaseUntil[w] > 0
    /\ \A p \in Procs :
         cur[p] = 0 <=> at[p] \in {"down", "cycle", "reap", "expire", "claim"}

Init ==
    /\ status = [w \in Works |-> "none"]
    /\ notBefore = [w \in Works |-> 0] /\ expiresAt = [w \in Works |-> 0]
    /\ leaseUntil = [w \in Works |-> 0]
    /\ alerted = [w \in Works |-> 0] /\ wakes = [w \in Works |-> 0]
    /\ now = 0 /\ read = [p \in Procs |-> 0]
    /\ at = [p \in Procs |-> "down"]
    /\ cur = [p \in Procs |-> 0]
    /\ todo = [p \in Procs |-> {}]
    /\ crashes = 0

Tick ==
    /\ now + 1 \in Times
    /\ now' = now + 1
    /\ UNCHANGED <<rowVars, marks, procVars, crashes>>

\* enqueue, or a human's INSERT: a repeat of a work_id is ignored.
Enqueue(w) ==
    /\ status[w] = "none"
    /\ \A v \in Works : v < w => status[v] # "none"
    /\ status' = [status EXCEPT ![w] = "open"]
    /\ \E t \in 0 .. Horizon : notBefore' = [notBefore EXCEPT ![w] = t]
    /\ \E t \in 1 .. Horizon : expiresAt' = [expiresAt EXCEPT ![w] = t]
    /\ UNCHANGED <<leaseUntil, marks, procVars, now, crashes>>

\* Mutant: nobody takes the lock.
StartUnlocked(p) ==
    /\ at[p] = "down"
    /\ at' = [at EXCEPT ![p] = "cycle"]
    /\ UNCHANGED <<rowVars, marks, cur, todo, read, now, crashes>>

\* main: one dispatcher holds the lock, others exit at once.
Start(p) ==
    /\ \A q \in Procs : at[q] = "down"
    /\ at' = [at EXCEPT ![p] = "cycle"]
    /\ UNCHANGED <<rowVars, marks, cur, todo, read, now, crashes>>

Crash(p) ==
    /\ at[p] # "down" /\ crashes < MaxCrashes
    /\ crashes' = crashes + 1
    /\ at' = [at EXCEPT ![p] = "down"]
    /\ cur' = [cur EXCEPT ![p] = 0]
    /\ todo' = [todo EXCEPT ![p] = {}]
    /\ UNCHANGED <<rowVars, marks, read, now>>

OverLease(t) == {w \in Works : status[w] = "claimed" /\ leaseUntil[w] <= t}
\* Mutant: rows the allow-list rejects are none of the sweep's business.
PastDueAllowed(t) ==
    {w \in Allowed : status[w] = "open" /\ expiresAt[w] <= t}
PastDue(t) == {w \in Works : status[w] = "open" /\ expiresAt[w] <= t}
Claimable(t) ==
    {w \in Works : status[w] = "open" /\ notBefore[w] <= t /\ t < expiresAt[w]}

Goto(p, label) == at' = [at EXCEPT ![p] = label]
Drop(p) == cur' = [cur EXCEPT ![p] = 0]
AlertRow(p) == alerted' = [alerted EXCEPT ![cur[p]] = @ + 1]

\* One row of the sweep: the alert is due only if this swap won.
Sweep(p, w, from, to, next) ==
    /\ todo' = [todo EXCEPT ![p] = @ \ {w}]
    /\ IF status[w] = from
         THEN /\ status' = [status EXCEPT ![w] = to]
              /\ cur' = [cur EXCEPT ![p] = w]
              /\ Goto(p, next)
         ELSE UNCHANGED <<status, cur, at>>
    /\ UNCHANGED <<notBefore, expiresAt, leaseUntil, marks, read, now, crashes>>

\* dispatch_once reads the clock, and sweep the claims that are over lease.
Cycle(p) ==
    /\ at[p] = "cycle"
    /\ read' = [read EXCEPT ![p] = now]
    /\ todo' = [todo EXCEPT ![p] = OverLease(now)]
    /\ Goto(p, "reap")
    /\ UNCHANGED <<rowVars, marks, cur, now, crashes>>

\* Mutant: an over-lease claim goes back to the queue.
ReapRequeues(p, w) ==
    /\ at[p] = "reap" /\ w \in todo[p]
    /\ status' = [status EXCEPT ![w] = IF @ = "claimed" THEN "open" ELSE @]
    /\ todo' = [todo EXCEPT ![p] = @ \ {w}]
    /\ UNCHANGED <<notBefore, expiresAt, leaseUntil, marks, at, cur, read, now, crashes>>

Reap(p, w) ==
    /\ at[p] = "reap" /\ w \in todo[p]
    /\ Sweep(p, w, "claimed", "failed", "reap_alert")

ReapAlert(p) ==
    /\ at[p] = "reap_alert"
    /\ AlertRow(p) /\ Drop(p)
    /\ Goto(p, "reap")
    /\ UNCHANGED <<rowVars, wakes, todo, read, now, crashes>>

\* The sweep's second half, on what is past due now.
ReapDone(p) ==
    /\ at[p] = "reap" /\ todo[p] = {}
    /\ todo' = [todo EXCEPT ![p] = PastDue(read[p])]
    /\ Goto(p, "expire")
    /\ UNCHANGED <<rowVars, marks, cur, read, now, crashes>>

Expire(p, w) ==
    /\ at[p] = "expire" /\ w \in todo[p]
    /\ Sweep(p, w, "open", "expired", "expire_alert")

ExpireAlert(p) ==
    /\ at[p] = "expire_alert"
    /\ AlertRow(p) /\ Drop(p)
    /\ Goto(p, "expire")
    /\ UNCHANGED <<rowVars, wakes, todo, read, now, crashes>>

ExpireDone(p) ==
    /\ at[p] = "expire" /\ todo[p] = {}
    /\ Goto(p, "claim")
    /\ UNCHANGED <<rowVars, marks, cur, todo, read, now, crashes>>

\* claim_next: the oldest claimable row, its lease counted from dispatch_once's
\* clock reading; or nothing, and the loop naps.
Claim(p) ==
    /\ at[p] = "claim"
    /\ IF Claimable(read[p]) = {}
         THEN Goto(p, "cycle") /\ UNCHANGED <<rowVars, cur>>
         ELSE \E w \in Claimable(read[p]) :
                /\ \A v \in Claimable(read[p]) : w <= v
                /\ status' = [status EXCEPT ![w] = "claimed"]
                /\ leaseUntil' = [leaseUntil EXCEPT ![w] = read[p] + Lease]
                /\ cur' = [cur EXCEPT ![p] = w]
                /\ Goto(p, "check")
                /\ UNCHANGED <<notBefore, expiresAt>>
    /\ UNCHANGED <<marks, todo, read, now, crashes>>

\* The allow-list again; then run_wake is called.
Check(p) ==
    /\ at[p] = "check"
    /\ IF cur[p] \in Allowed
         THEN wakes' = [wakes EXCEPT ![cur[p]] = @ + 1] /\ Goto(p, "waking")
         ELSE Goto(p, "refuse") /\ UNCHANGED wakes
    /\ UNCHANGED <<rowVars, alerted, cur, todo, read, now, crashes>>

\* run_wake returns or raises, sooner or later.
WakeEnds(p) ==
    /\ at[p] = "waking"
    /\ Goto(p, "finish") \/ Goto(p, "fail")
    /\ UNCHANGED <<rowVars, marks, cur, todo, read, now, crashes>>

\* transition: a row that is not claimed raises StaleTransition, which ends
\* the process.
Settle(p, to, next) ==
    LET w == cur[p] IN
    IF status[w] = "claimed"
      THEN /\ status' = [status EXCEPT ![w] = to]
           /\ Goto(p, next)
           /\ cur' = IF next = "cycle" THEN [cur EXCEPT ![p] = 0] ELSE cur
      ELSE Goto(p, "down") /\ Drop(p) /\ UNCHANGED status

Finish(p) ==
    /\ at[p] = "finish"
    /\ Settle(p, "done", "cycle")
    /\ UNCHANGED <<notBefore, expiresAt, leaseUntil, marks, todo, read, now, crashes>>

\* Mutant: a raise marks the row and tells nobody.
FailSilently(p) ==
    /\ at[p] \in {"fail", "refuse"}
    /\ Settle(p, "failed", "cycle")
    /\ UNCHANGED <<notBefore, expiresAt, leaseUntil, marks, todo, read, now, crashes>>

\* The wake raised, or the row is not allowed.
Fail(p) ==
    /\ at[p] \in {"fail", "refuse"}
    /\ Settle(p, "failed", "fail_alert")
    /\ UNCHANGED <<notBefore, expiresAt, leaseUntil, marks, todo, read, now, crashes>>

FailAlert(p) ==
    /\ at[p] = "fail_alert"
    /\ AlertRow(p) /\ Drop(p)
    /\ Goto(p, "cycle")
    /\ UNCHANGED <<rowVars, wakes, todo, read, now, crashes>>

Step(p) ==
    \/ Cycle(p)
    \/ \E w \in todo[p] : Reap(p, w) \/ Expire(p, w)
    \/ ReapAlert(p) \/ ReapDone(p) \/ ExpireAlert(p) \/ ExpireDone(p)
    \/ Claim(p) \/ Check(p) \/ WakeEnds(p) \/ Finish(p) \/ Fail(p) \/ FailAlert(p)

Next ==
    \/ Tick
    \/ \E w \in Works : Enqueue(w)
    \/ \E p \in Procs : Start(p) \/ Step(p) \/ Crash(p)

Spec == Init /\ [][Next]_vars

(***************************************************************************)
(* Time passes, a running loop goes on (the only wake there is raises at   *)
(* once), and a human starts a dispatcher that died.                       *)
(***************************************************************************)
Fairness ==
    /\ WF_vars(Tick)
    /\ \A p \in Procs : WF_vars(Step(p))
    /\ WF_vars(\E p \in Procs : Start(p))

FairSpec == Spec /\ Fairness
-----------------------------------------------------------------------------

Terminal == {"done", "failed", "expired"}
Loud == {"failed", "expired"}
Alerting(p) == at[p] \in {"reap_alert", "expire_alert", "fail_alert"}

\* No row is woken twice, however often the loop dies and comes back with the
\* row still claimed, and one the allow-list rejects never is.  ("Never
\* requeues: re-enqueue is a human action")
WokenAtMostOnce ==
    \A w \in Works : wakes[w] <= IF w \in Allowed THEN 1 ELSE 0

\* The loop never finds the row it is finishing taken from it, however long
\* the wake took, so StaleTransition never kills it: only a second dispatcher
\* could sweep an overrunning claim.  (the lock)
FinishesItsOwnClaim ==
    \A p \in Procs : at[p] \in {"waking", "finish", "fail", "refuse"}
        => status[cur[p]] = "claimed"

\* Rows that failed or expired and that nobody has told of or will.
Silent ==
    {w \in Works : /\ status[w] \in Loud /\ alerted[w] = 0
                   /\ \A p \in Procs : ~ (Alerting(p) /\ cur[p] = w)}

\* A row that failed or expired has exactly one alert, or is about to have
\* it, and no other row has one.  The alert is a second commit that no later
\* sweep makes up for: what stays silent is one row at most for each process
\* that died, however many rows its sweep had read.  ("exactly one alert
\* here")
ExactlyOneAlert ==
    /\ \A w \in Works :
         /\ alerted[w] <= 1
         /\ status[w] \notin Loud => alerted[w] = 0
    /\ Cardinality(Silent) <= crashes

\* Every row ends up done, failed or expired, also when the process that had
\* claimed it died, and also one that is never due before it expires.
\* (sweep: "No silent states")
EveryRowEnds ==
    \A w \in Works : status[w] = "open" ~> status[w] \in Terminal

=============================================================================
