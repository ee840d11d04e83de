------------------------------- MODULE Outbox -------------------------------
(***************************************************************************)
(* slackkit/outbox.py: the events table as an outbox, and the drains that  *)
(* project it to Slack.  run_day, the dispatcher, close_pnl, critic_g1,    *)
(* reflect_day and register_spec all call drain() on the one database and  *)
(* hold locks of their own, so drains overlap.  A drain reads the unposted *)
(* rows once, then renders, posts and marks them one commit at a time; it  *)
(* dies with its process, and a row a drain has read may since have been   *)
(* marked by another.                                                      *)
(*                                                                         *)
(* A row is the destination its kind renders to and, for a                 *)
(* projection_error, the event it names; texts are left out.               *)
(***************************************************************************)
EXTENDS Integers, Sequences, FiniteSets

CONSTANTS
    Drainers,      \* the jobs that may be inside drain() at once
    Scheduled,     \* the drainer a timer keeps firing
    Channels,      \* Slack channels
    Risk,          \* the channel projection_error renders to
    Unrenderable,  \* destination of a row whose render() raises
    MaxEvents,     \* bound on the events other than projection_error
    MaxFaults      \* bound on the crashes and the transient Slack failures

ASSUME OutboxAssumption ==
    /\ Drainers # {} /\ IsFiniteSet(Drainers) /\ Scheduled \in Drainers
    /\ Risk \in Channels
    /\ Unrenderable \notin Channels
    /\ MaxEvents \in Nat /\ MaxFaults \in Nat

VARIABLES
    rows,       \* events, by id: the destination and the event it names
    posted,     \* ids whose posted_at is set
    copies,     \* how often Slack accepted each event
    gone,       \* channels that refuse every post: archived, bot not invited
    at,         \* where each drainer is in drain(); "idle" when outside
    batch,      \* the rows its current pass has read and not handled yet
    crashes,
    outages

table == <<rows, posted>>
faults == <<crashes, outages>>
vars == <<table, copies, gone, at, batch, faults>>

Ids == 1 .. Len(rows)
Row == [to : Channels \cup {Unrenderable}, about : Nat]
Event(c) == [to |-> c, about |-> 0]
ProjectionError(i) == [to |-> Risk, about |-> i]
Unposted == Ids \ posted

TypeOK ==
    /\ rows \in Seq(Row)
    /\ posted \subseteq Ids
    /\ copies \in Seq(Nat) /\ Len(copies) = Len(rows)
    /\ gone \subseteq Channels
    /\ at \in [Drainers -> {"idle", "fetch", "post", "mark", "bury", "name"}]
    /\ batch \in [Drainers -> SUBSET Ids]
    /\ \A p \in Drainers : batch[p] = {} <=> at[p] \in {"idle", "fetch"}
    /\ crashes \in Nat /\ outages \in Nat

Init ==
    /\ rows = << >> /\ posted = {} /\ copies = << >>
    /\ gone \in SUBSET Channels
    /\ at = [p \in Drainers |-> "idle"]
    /\ batch = [p \in Drainers |-> {}]
    /\ crashes = 0 /\ outages = 0

\* _insert: SQLite has one writer at a time, so ids follow the commits.
Insert(row) == rows' = Append(rows, row) /\ copies' = Append(copies, 0)

\* append_event and append_alert, by any process of the fund.
AppendEvent(c) ==
    /\ Cardinality({i \in Ids : rows[i].about = 0}) < MaxEvents
    /\ Insert(Event(c))
    /\ UNCHANGED <<posted, gone, at, batch, faults>>

StartDrain(p) ==
    /\ at[p] = "idle"
    /\ at' = [at EXCEPT ![p] = "fetch"]
    /\ UNCHANGED <<table, copies, gone, batch, faults>>

\* The while loop: read what is unposted now, or return.
Fetch(p) ==
    /\ at[p] = "fetch"
    /\ batch' = [batch EXCEPT ![p] = Unposted]
    /\ at' = [at EXCEPT ![p] = IF Unposted = {} THEN "idle" ELSE "post"]
    /\ UNCHANGED <<table, copies, gone, faults>>

\* The for loop: rows ORDER BY id.
Oldest(p, i) == i \in batch[p] /\ \A j \in batch[p] : i <= j
Dest(i) == rows[i].to

\* slack.post returns.  Whether another drain has posted row i is not asked.
Deliver(p, i) ==
    /\ at[p] = "post" /\ Oldest(p, i)
    /\ Dest(i) \in Channels \ gone
    /\ copies' = [copies EXCEPT ![i] = @ + 1]
    /\ at' = [at EXCEPT ![p] = "mark"]
    /\ UNCHANGED <<table, gone, batch, faults>>

\* Mutant: every failed post is taken for transient.
RefuseStops(p, i) ==
    /\ at[p] = "post" /\ Oldest(p, i)
    /\ Dest(i) \notin Channels \ gone
    /\ at' = [at EXCEPT ![p] = "idle"]
    /\ batch' = [batch EXCEPT ![p] = {}]
    /\ UNCHANGED <<table, copies, gone, faults>>

\* render raises, or slack.post raises PermanentPostError.
Refuse(p, i) ==
    /\ at[p] = "post" /\ Oldest(p, i)
    /\ Dest(i) \notin Channels \ gone
    /\ at' = [at EXCEPT ![p] = "bury"]
    /\ UNCHANGED <<table, copies, gone, batch, faults>>

\* Mutant: a transient failure skips the row and goes on with the next.
OutageSkipsRow(p, i) ==
    /\ at[p] = "post" /\ Oldest(p, i)
    /\ Dest(i) \in Channels /\ crashes + outages < MaxFaults
    /\ outages' = outages + 1
    /\ batch' = [batch EXCEPT ![p] = @ \ {i}]
    /\ at' = [at EXCEPT ![p] = IF batch[p] = {i} THEN "fetch" ELSE "post"]
    /\ UNCHANGED <<table, copies, gone, crashes>>

\* slack.post raises anything else, before or after Slack accepted the post:
\* the row stays queued and the drain stops.
Outage(p, i) ==
    /\ at[p] = "post" /\ Oldest(p, i)
    /\ Dest(i) \in Channels /\ crashes + outages < MaxFaults
    /\ outages' = outages + 1
    /\ copies' \in {copies, [copies EXCEPT ![i] = @ + 1]}
    /\ Dest(i) \in gone => copies' = copies
    /\ at' = [at EXCEPT ![p] = "idle"]
    /\ batch' = [batch EXCEPT ![p] = {}]
    /\ UNCHANGED <<table, gone, crashes>>

\* On to the next row of the pass, or to another pass.
Advance(p, i) ==
    /\ batch' = [batch EXCEPT ![p] = @ \ {i}]
    /\ at' = [at EXCEPT ![p] = IF batch[p] = {i} THEN "fetch" ELSE "post"]

\* Mutant: the mark is left to the end of the pass and never comes.
MarkForgotten(p, i) ==
    /\ at[p] = "mark" /\ Oldest(p, i)
    /\ Advance(p, i)
    /\ UNCHANGED <<table, copies, gone, faults>>

Mark(p, i) ==
    /\ at[p] = "mark" /\ Oldest(p, i)
    /\ posted' = posted \cup {i}
    /\ Advance(p, i)
    /\ UNCHANGED <<rows, copies, gone, faults>>

\* Mutant: a row in a dead channel is marked and forgotten, alerts included.
BuryUnnamed(p, i) ==
    /\ at[p] = "bury" /\ Oldest(p, i)
    /\ posted' = posted \cup {i}
    /\ Advance(p, i)
    /\ UNCHANGED <<rows, copies, gone, faults>>

\* Mutant: a refused projection_error is let be, before it is marked.
BuryReturnsEarly(p, i) ==
    /\ at[p] = "bury" /\ Oldest(p, i)
    /\ posted' = IF rows[i].about # 0 THEN posted ELSE posted \cup {i}
    /\ IF rows[i].about # 0 THEN Advance(p, i)
       ELSE at' = [at EXCEPT ![p] = "name"] /\ UNCHANGED batch
    /\ UNCHANGED <<rows, copies, gone, faults>>

\* _dead_letter, first commit: the row is marked posted.
Bury(p, i) ==
    /\ at[p] = "bury" /\ Oldest(p, i)
    /\ posted' = posted \cup {i}
    /\ IF rows[i].about # 0 THEN Advance(p, i)
       ELSE at' = [at EXCEPT ![p] = "name"] /\ UNCHANGED batch
    /\ UNCHANGED <<rows, copies, gone, faults>>

\* _dead_letter, second commit: the projection_error that names it.
Name(p, i) ==
    /\ at[p] = "name" /\ Oldest(p, i)
    /\ Insert(ProjectionError(i))
    /\ Advance(p, i)
    /\ UNCHANGED <<posted, gone, faults>>

Crash(p) ==
    /\ at[p] # "idle" /\ crashes + outages < MaxFaults
    /\ crashes' = crashes + 1
    /\ at' = [at EXCEPT ![p] = "idle"]
    /\ batch' = [batch EXCEPT ![p] = {}]
    /\ UNCHANGED <<table, copies, gone, outages>>

\* A human invites the bot or restores the channel.
Repair(c) ==
    /\ c \in gone
    /\ gone' = gone \ {c}
    /\ UNCHANGED <<table, copies, at, batch, faults>>

DrainStep(p) ==
    \/ Fetch(p)
    \/ \E i \in batch[p] :
         \/ Deliver(p, i) \/ Refuse(p, i) \/ Outage(p, i)
         \/ Mark(p, i) \/ Bury(p, i) \/ Name(p, i)

Next ==
    \/ \E c \in Channels \cup {Unrenderable} : AppendEvent(c)
    \/ \E p \in Drainers : StartDrain(p) \/ DrainStep(p) \/ Crash(p)
    \/ \E c \in Channels : Repair(c)

Spec == Init /\ [][Next]_vars

(***************************************************************************)
(* A drain that was not killed takes its next step (the Slack client has a *)
(* timeout), and the scheduled job drains again and again: run_stage does  *)
(* so after every stage, and its timer fires every trading day.            *)
(***************************************************************************)
Fairness ==
    /\ \A p \in Drainers : WF_vars(DrainStep(p))
    /\ WF_vars(StartDrain(Scheduled))

FairSpec == Spec /\ Fairness
-----------------------------------------------------------------------------

\* The promise, of the events as they are: what Slack accepted once is
\* delivered, what is marked without that is abandoned.
Fate == [i \in Ids |-> IF copies[i] > 0 THEN "delivered"
                      ELSE IF i \in posted THEN "abandoned" ELSE "queued"]
Delivery == INSTANCE OrderedDelivery WITH fate <- Fate

\* Overlapping drains, their crashes and Slack's failures never let an event
\* pass one queued before it, nor take back a delivery.  (drain: "a later
\* event can never be posted ahead of an earlier one")
InOrder == Delivery!Spec

\* No event is duplicated without a reason: each drainer posts it at most
\* once, and once more per crash or transient failure.  (drain, the mark
\* after each post)
DuplicatesNeedFaults ==
    \A i \in Ids : copies[i] <= Cardinality(Drainers) + crashes + outages

\* An event that Slack never got is named by a projection_error, or is about
\* to be by a drain that still runs: the audit can tell.  What nothing will
\* name is lost with a process that died between the mark and the name, at
\* most one row each, however many drains gave up the same rows.
\* (_dead_letter)
Named(i) == \E j \in Ids : rows[j].about = i
Lost == {i \in posted : copies[i] = 0 /\ rows[i].about = 0}
Unnamed ==
    {i \in Lost : ~ Named(i)
                  /\ \A p \in Drainers : ~ (at[p] = "name" /\ Oldest(p, i))}
NothingLost == Cardinality(Unnamed) <= crashes

\* Every event is settled in the end, whatever channels are dead and whoever
\* crashed: one bad event does not jam the queue.  (the outcomes of drain,
\* issue #123; the ids are cut off at a constant)
EveryEventSettles ==
    \A i \in 1 .. MaxEvents : (i \in Ids) ~> (i \in posted)

\* A drain returns.  ("Terminates: each pass either returns early or marks
\* every row it fetched")
DrainTerminates == \A p \in Drainers : at[p] # "idle" ~> at[p] = "idle"
=============================================================================
