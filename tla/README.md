# A TLA+ model of the fund

The repository is a paper-trading fund: seats (language-model sessions with a
few tools) propose decisions, plain Python decides what may be traded, a broker
holds the orders, and SQLite is the only truth.  Slack shows a projection of it.
This directory models the parts of it where steps interleave, processes die and
answers get lost, checks them with TLC on small instances, and proves the most
important invariants with TLAPS for all of them.

Paths below are relative to `src/`.

## 1. Inventory

| Component | State | Operations | What is hard | What makes it correct |
|---|---|---|---|---|
| State machine (`state/transition.py`, `state/schema.sql`) | status columns | compare-and-swap along `EDGES` | two writers of one row | only legal edges, one winner |
| Tickets (`gate/tickets.py`) | `tickets`: status, cap, TTL | mint, expire, list, `validate_order` | two-commit expiry, TTL passing during a turn | no order outside its ticket, none forgotten |
| Trading day (`orchestrator/daily.py`, `scripts/run_day.py`) | `checkpoints`, signals, decisions, the process | pre_gate, research, decision, gate, execution, reconciliation, close | death between any two commits, resume on another market, a second day over the leftovers of the first | a stage may be re-run; terms are frozen once approved; what falls back is loud |
| Execution seat (`agents/runtime.py`) | `orders`, hooks around the `place_*` tool | allow or deny a call, record the answer | the call, its answer and the hook can each be lost, late or doubled | at most one order per ticket, books never ahead of the broker |
| Reconciliation (`orchestrator/reconcile.py`) | `orders`, poll results in memory | recover, poll, cancel at the cap | the order moves between poll, cancel and re-query | the books end with what the broker ended with |
| Broker port (`orchestrator/broker.py`, `market/source_alpaca.py`) | the broker's orders, the account | place, look up, cancel, list | "not found" and "no answer" look alike; the account is two calls | |
| Ingest guard, preconditions (`orchestrator/ingest_guard.py`, `preconditions.py`) | none | read the account, judge, read again, refuse | an empty list may be a flat account or a lost answer | no stage runs on a payload that lost positions |
| Risk gate (`gate/risk.py`, `market/features.py`) | none | `build_market_inputs`, `size` | limits at their boundary, figures that are missing, a whole day sized on one snapshot | an approval fits every limit by itself |
| Protection (`orchestrator/protection.py`) | alerts | list positions, list orders, look again | the lists are read one after the other while stops fire | an uncovered position is loud |
| Accounting (same file) | alerts as memory | compare held with recorded, alert, clear | the last finding is stale when fills and write-offs move | every new gap alerts, the same gap once |
| Close, audit (`orchestrator/daily.py`, `scripts/audit_day.py`) | digest event, journals | write once, judge the day | resumed half way, judged after several fires | once each; "clean" is true |
| Outbox (`slackkit/outbox.py`) | `events.posted_at` | append, drain, dead-letter | overlapping drains, crash between post and mark | in order, nothing dropped unnamed, no reasonless duplicate |
| Worklist and dispatcher (`state/worklist.py`, `orchestrator/dispatch.py`) | `worklist`, lease | enqueue, claim, sweep, finish, fail | wake overruns its lease, restart in a wake, crash before the alert | woken at most once, every terminal row is loud |
| Specs (`state/specs.py`, `scripts/register_spec.py`) | `strategy_specs`, `strategies` | register, count, advance | row and event are two commits; a failed one leaves an orphan | announced once or known to be stranded |
| G1 (`scripts/critic_g1.py`) | `strategy_critiques`, the leg | select the head, show it, write its verdict | the queue moves under the turn; one head can block it | a verdict belongs to its turn's spec, the queue drains |
| Backtests, holdout (`fundbt/`, `agents/tools/fund_server.py`) | `trial_registry`, `holdout_evaluations` | look up, count, run, log, evaluate | token read before a long run, count then log | budget overrun bounded, holdout seen once |
| Evening unit (`scripts/close_pnl.py`, `resolve_day.py`, `weights_day.py`, `reflect_day.py`) | P&L events, `resolutions`, weights | one program after the other, any also by hand | two runs overlap, the unit is killed at its time limit | nothing paid twice, nothing ages out unnamed |
| Engines, statistics, tooling, evals | none of their own | compute, report | floating point | |

How they interact: `run_day` is one process (flock) that works through the
stages; the seats' turns run inside it and write through tool handlers and
hooks; the broker acts at any time; every stage ends with a drain of the outbox,
and so do half a dozen other jobs with locks of their own; the dispatcher, the
evening unit, a registration by hand and the backtest sessions share only the
database with `run_day` and with each other.

## 2. Modules

    Books            the tables, EDGES, try_transition, the queries on tickets
      Broker         the broker and the wire, as the code uses them (external)
        DayProcess   program counter, checkpoints, crash, re-fire, next day
          DecideAndGate   the decision and gate stages
          Execution       the expiry sweep, the turn, the hooks, the alert
          Reconcile       recovery, polls, close-out
            OrderPipeline     all of it; fairness and the properties
              OrderInvariant  the inductive invariant
                OrderProofs       theorems
                MCOrderPipeline   for TLC
    RiskGate         size() on the inputs of one account and one market
      TradingDay     the run date around the orders: all stages, close, audit
        TradingDayProofs  theorems, those about size() among them
        MCTradingDay
    OrderedDelivery  what the outbox promises (abstract)
    Outbox           what it does, and that it implements OrderedDelivery
      OutboxProofs   theorems, the refinement among them
      MCOutbox
    Worklist         rows of scheduled work and the dispatcher
      WorklistProofs    theorems
      MCWorklist
    Accounting       the check of recorded against held shares
      AccountingProofs  theorems
      MCAccounting
    Specs            strategy specs and the job that registers them
      Critique       the G1 leg of one night
        G1Nights     night after night beside registration and backtests
          G1Proofs        theorems
          MCG1Nights
      Backtests      sessions of run_backtest and the holdout
        BacktestsProofs   theorems
        MCBacktests
    Night            the evening unit beside one program run by hand
      NightProofs       theorems
      MCNight

### Orders

One index, a decision `<<day, ticker>>`, stands for the decision, its ticket
(the schema allows one per decision) and its order (whose key *is* the ticket's
id); the status `"none"` means that the row is not there.  Sides, prices, theses
and time stamps are left out.  The one thing the day reads off the clock is
whether a ticket has outlived its 45 minutes: `lapsed`.

`pc` names the commit the process is at.  Every commit is a step of its own, so
that `Crash` may come between any two; reads that the code makes right before a
commit, with nothing in between that another process writes, belong to its step.
`Fire` is the scheduled or manual re-fire, `NextDay` the next trading day, on
which the wire of the day before is dropped: a placement call belongs to a turn
of at most a few minutes.  `EnterStage` and `LeaveStage` are the two checkpoint
swaps of `run_stage`.  pre_gate, research and close write no ticket or order and
are not in `Stages` here: they are `TradingDay`'s.

* `DecideAndGate`: `SubmitDecision` (the PM may overwrite its own submitted row),
  the timeout alert before the default hold, then per decision: hold; or size,
  mint or re-cap the ticket, approve, append the event; or reject, in the order
  of `_gate_reject`.  `GateRaise` is the `except` of `run_gate`: any write of the
  handler may raise, before or after it took effect.  The sizing result is any
  number up to the ask or a rejection, anew on every attempt, since a resumed day
  reads market and account again.
* `Execution`: the expiry sweep in its two commits, then the turn.  In it the
  model requests any placement at all; `PlaceOrder` is the hook that lets one
  through iff `Authorized` (`validate_order`), `DenyOrder` the one that does not.
  The call then lives on the wire, the answer too; the recorder hook works on an
  answer one commit at a time.  It belongs to the session of its turn: when turn
  or process ends (`HangUp`) the call may still land, but nobody hears of it.
* `Reconcile`: recovery of open tickets without orders, with a lookup that tells
  the truth, nothing, or something unusable; the poll rounds; at the cap the
  cancel, the one re-query, and the verdict.
* `Broker`: an order fills, fills in part or dies whenever it is working.  A
  known id is refused (422), which the recorder reads as nothing.

### The trading day

`TradingDay` is one run date from the other side: coarser where `OrderPipeline`
is fine (an executed ticket is executed whole), and complete where that one
leaves off.  `at` is the stage and the step; every fire starts at `ingest`.

* `ReadAccount` and `ReadPositions` are the two calls of `account_state`; of a
  bad answer the list is lost, the market value unreadable, or both.
  `PayloadFault` decides, one more reading of both is made, then the day is
  refused.  A stop may go off between the two calls.
* `FetchMarket` is what `build_market_inputs` is given: a market of the bounded
  choice in `Quotes` and any set of dark tickers.  `RiskGate` computes on whole
  numbers (dollars, percent, tenths of correlation) what the code computes on
  floats; `NaN` is a figure the feed could not give.
* `Starts(stage)` holds when the stage is not done: its body runs from its start
  after a crash, on this fire's market and on whatever the tables hold.
* The gate settles a ticket and its decision in two steps.  A fire that dies
  between them leaves an open ticket of its own market, which the next one caps
  anew: `fire` in the ticket says whose cap it is.
* The protection check is no stage, and runs on every fire that gets so far.
  The close has a digest and one journal per writer.  `Audit` is `report_audit`:
  it counts what the tables say of the run date, its own red alert excepted.
* `Drain` may fail (an outage), and then what is appended stays unposted.

### The outbox

`rows` is the events table: a destination per event, and for a projection_error
the event it names.  A drainer `p` is at a place `at[p]` in `drain()` with the
rows `batch[p]` its current pass has read and not yet handled.  `Deliver` and
`Mark`, `Bury` and `Name` are separate steps since the code commits separately;
an `Outage` may hit before or after Slack accepted the post.  `gone` channels
refuse every post until a human repairs them.

`OrderedDelivery` is the promise: every event is settled (delivered or
abandoned) in its turn, and a delivery is never taken back.  The refinement maps
an event with a copy in Slack to delivered, a marked one without to abandoned.
The code's own comment asks for order within a channel only; the model shows it
for the whole queue.  `DeliverLate` is real: two drains read the same row, one
buries it, the channel is repaired, the other still posts it, after later events.

### The worklist

A row is a number, in the order of `created_at` and `work_id`; `now` is the
clock and `read[p]` the reading `dispatch_once` took before its sweep.  `Cycle`
reads the over-lease claims, `Reap` swaps one, `ReapAlert` appends its alert;
`Expire` and `ExpireAlert` likewise; then `Claim`, `Check` (the allow-list
again), `WakeEnds`, and `Finish` or `Fail`.  `Settle` is `transition`: it raises,
and so ends the process, if the row is not claimed.  `Start` holds the lock.
Rows outside `Allowed` were written past `enqueue`, by hand.

### The accounting check

`recorded` is the net of the fund's orders in one symbol, `held` what the broker
has; fills move both, a fired stop only `held`, a write-off only `recorded`.
`last` is the newest accounting alert, all the memory the check has.  `Read`
judges at once if nothing is short and naps otherwise; `Reread` judges what the
broker holds by then.  `moves` is history, for the properties: what has happened
since the check last said something or found no gap.

### Specs, G1 and backtests

`Specs` has the two tables and the one job that writes them.  A spec is a model
value; `specs` is the order the selector reads them in, in which two specs of
one second may come either way.  A spec without a lifecycle row is an orphan,
left by a build before that table: the selector refuses to answer while there is
one, so registration and the G1 leg both stop until a human runs the `INSERT`
the error message gives (`Repair`).  `InsertSpec` and `AnnounceSpec` are the
handler's two commits; between them the process may die, or the second commit
may raise (`LoseEvent`), and `stranded` remembers whose event is lost.

`Critique` is one leg: select the head, buy a turn for it, look whether the turn
wrote.  In the turn the brief is read from the queue again (`ReadBrief`), so it
may show another spec than the turn was launched for; the write is bound to the
launched one.  `G1Nights` puts the leg night after night beside registration,
repair and `Backtested`, the step of `Backtests` that takes a spec out of the
queue.

`Backtests` has any number of sessions, each with the token it read first;
look-up, count, run, log, event, state and swap are separate steps.  A request is
what `run_key` hashes.  The holdout evaluation logs, then consumes.

### The evening unit

In `Night` each process, the unit and one program by hand, is at a step of a
leg with the rows (`due`) it read.  Days are ages: a call's since it was made, a
resolution's since it was written, cut off where nothing depends on more.  The
unit goes on to the next leg when one ends with exit 0, stops at the first that
does not, and may be killed anywhere.  Only the reflections hold a lock.

## 3. What is checked

Distinct states and times are TLC's, with two workers.

| Run | Instance | Shows |
|---|---|---|
| `order_safety` | 1 ticker, 1 deciding day and the quiet day after it, quantity 2, 2 crashes, 1 re-poll, 2 placements in flight, writes of the gate may raise; 640 thousand states | types; only authorised orders; books never ahead of the broker; one fill event per order; an unexecuted ticket, a fill on an expired decision and an order left submitted are loud; a consumed ticket has its order; an uninterrupted run books everything; terms frozen at approval; nothing trades on a later day |
| `order_liveness` | 1 ticker, quantity 2, 1 crash | recorded orders leave submitted; approved decisions are settled |
| `day` | 2 tickers, 4 opening books, 3 markets, 2 fires, 2 faults; 7.8 million states, 90 s | the day is sized on the book that was judged; every ticket fits the market of the fire that approves it; the close is written once; "clean" is true |
| `outbox` | 2 drains, 2 events, 1 fault, one channel that may be gone, an event that never renders; 802 thousand states, 2 min | order by refinement, duplicates bounded by faults, nothing dropped unnamed but once per crash, every event is settled, every drain returns |
| `worklist` | 2 rows, one not allowed, 2 processes, 1 crash; 228 thousand states | woken at most once; the loop never loses its row; one alert per failed or expired row, none missing but once per crash; every row ends |
| `accounting` | 1 symbol, 3 shares | no new loss is passed over in silence; no gap is reported twice because of purchases |
| `g1_nights` | 3 specs, one of them possibly an orphan, 2 turns a night, 1 crash or failed commit; 544 thousand states, 2 min | announced once or stranded, one spec per fault; a verdict comes from its spec's turn; a leg that leaves a spec pending says so; every spec leaves the queue |
| `backtests` | 1 spec, budget 1, 3 configurations, 2 sessions, 2 holdout attempts, 1 crash; 699 thousand states | the overrun is at most the sessions under way; told once per session, unheard once per crash; what stands behind an answer; the holdout is seen once |
| `night` | 3 calls, one of them the orchestrator's own, 1 turn a night, 1 kill or failure, 1 program by hand; 280 thousand states, 80 s | no turn for what is written; turns read to be silent are named; every call reflected on or given up aloud; every resolution scored for good |
| `finding_half_fill`, `finding_firm_limits`, `finding_lost_trial` | see section 4 | three disagreements |

The bounds, why they are enough:

* Orders: quantity 2 is the least that has a partial fill and a cap below the
  ask.  Two crashes allow one in a stage and one in its resume, which every known
  way to a bad state needs at most.  The quiet day after the last deciding one is
  where leftovers are swept and polled.  One re-poll suffices for an order to be
  confirmed in one round and to fail in the next.  The alerts a run keeps are
  those in `Watched`; others leave no trace, and a property that asks for an alert
  says so only where the alert is watched: `order_safety` watches those its
  properties name.  Two orders open at once, of two tickers or two deciding days,
  are beyond TLC here together with the rest; that one order's fate does not
  depend on another's is what the theorems say (`OpenOrdersAreLoud`,
  `ExpiredFillsAreLoud`, `OnlyOnItsDay`), for any tickers and days.
* Day: two tickers, so that the loops over tickers can be cut in the middle and a
  position of one counts against the other.  Two fires are a day and its resume;
  two faults spoil both readings of one fire, or kill the first fire and spoil
  something in the second.  Market, outage, bad reading, raise and crash all
  count against `MaxFaults`.  The opening books are a flat one, one under its
  stop, one whose stop has gone off overnight and one whose stop has died.
* Outbox: two drains are the least that overlap, and with two events one can wait
  behind another; each may bring up to two projection_errors, so queues of six
  rows occur.  `MaxFaults` bounds crashes and transient failures together.
* Accounting: three shares make gaps of equal size with different numbers.
* G1: three specs against two turns a night, so that the cap is reached.
* Backtests: two sessions and a budget of one are the least where both may count
  before either logs; the third configuration is the one beyond the overrun.
  Sessions, configurations and holdout attempts are symmetric; the run checks
  invariants only, for which symmetry is sound.
* Night: three calls against one turn a night, so that a backlog ages out;
  `Horizon` and `Lookback` of one day give every order of outcome, turn and window.

`MaxDay`, `MaxQty`, `MaxCrashes`, `MaxPolls`, `MaxCalls` (placements on the wire
at once), `MaxFires`, `MaxFaults`, `MaxEvents`, `MaxWorks`, `Horizon`, `MaxShares`
and `MaxHands` are the only bounds; `MaxCrashes` of `Specs` counts a commit that
raises as well.  `MaxPositions`, `MaxG1Turns`, `SearchBudget`, `MaxTurns`,
`Lookback` and `Lease` are constants of the code, smaller here.  All are
constants of the modules, and the proofs hold for every value.  Deadlock is not checked in
`day`, which stops when its fires are used up.

### Fairness

* A running process takes its next step: `WF(ProcessStep)`.  A seat's turn ends
  whatever its model does, because its wall clock is limited: `SF(EndPmTurn)`,
  `SF(EndTurn)`.
* The timer fires every trading day and the days go on: `SF(Fire)`, `SF(NextDay)`.
  Nothing says that a re-fire comes on the same day.
* The broker finishes an order whose cancel it accepted; and a lookup, a
  re-query or a cancel that is tried again and again succeeds sometimes
  (`SF`).  Without that no order could ever be settled, in the code either.
* A drain that was not killed goes on (the Slack client has a timeout), and the
  scheduled job drains again and again, since `run_stage` does so after every
  stage.  No other drainer is assumed to start.
* Worklist: time passes, the dispatcher's loop goes on (the only wake there is
  raises at once), and a human starts a dispatcher that died: the unit has no
  Restart=.
* G1: the leg runs on, nights come, and an orphan is repaired by the human the
  alert asks.  A Critic that is asked night after night reads its brief and
  submits at last: `SF(ReadBrief)`, `SF(SubmitCritique)`.  A seat that never
  does blocks the queue, in the code too; `LegIsLoud`, a safety property, then
  says that the block is announced.
* Night: the programs run on, days pass, and the timer does not miss every
  evening: `SF(Fire)`.  Nothing is assumed of a program by hand but that it goes
  on once started, nor that a turn ever writes.

Not assumed: that a placement lands, that an answer arrives, that an order fills.
`day` and `backtests` state safety only.

## 4. Findings

Each of the first three is a run that TLC finds violated.

* `finding_half_fill`: `_apply` commits the swap to filled before the fill event
  and the decision; a re-run polls pending orders only.  `record_order` has the
  same window, and says filled before it writes the fill numbers as well: the
  very order of commits that the comment in `_apply` argues against.  It needs a
  crash at the worst moment, and what it leaves behind no later run repairs.
* `finding_firm_limits`: no crash needed.  Every decision of a day is sized on
  the one account its fire read.  Two buys that each fit pass the position count,
  the sector cap or the cash together; `specs/design.md:173` gives the limits as
  the firm's, after the trade.
* `finding_lost_trial`: no crash either.  Session A passes the budget's count for
  a request and runs it.  Session B, counted as early, logs a run of its own, asks
  for A's request as well, is over the budget now, and logs it as rejected.  A's
  `INSERT OR IGNORE` (`fundbt/registry.py:73`) then does nothing; A advances the
  spec and answers ok with statistics that are on no registry, and the cache
  refuses every re-run.  `fundbt/registry.py:4` says that an unlogged trial cannot
  exist, `agents/tools/fund_server.py:557` that a re-run returns the cached
  result.  `AnswersStand`, which holds, says that this is the only way in which an
  answer of ok does not stand: the rejection is of a spec past its budget.

What follows was met while modelling, and has no run of its own.  A property
above allows for each of them, or says exactly how far it goes.

* A resumed gate approves a decision on the ticket that an interrupted rejection
  had closed (`orchestrator/daily.py:277`); nothing can trade on it and nothing
  says so.
* A lost response and one unanswered lookup (`orchestrator/reconcile.py:438`),
  and a position the broker holds is never booked.  The code documents it
  (issues 55 and 74); `specs/contracts.md` promises otherwise.
* A wake that outlives its lease (`orchestrator/dispatch.py:116`) blocks the one
  loop that sweeps, and is then finished as done; the comment at the lease says
  it is reaped.
* A stop takes the whole position, a human writes it off, and the symbol drops
  out of the accounting check before the clearing is recorded
  (`orchestrator/protection.py:420`).  Bought again in the same size and lost
  again, it is taken for the old gap.  `NewLossIsLoud` says how much silence this
  allows.
* A recorded sale lowers `recorded` as a write-off does, so the check reports a
  standing gap again, where its comment says a distinct finding is a distinct
  gap; `ReportedOnce` allows for it.
* `close_pnl` reads its guard and appends in two steps without a lock
  (`scripts/close_pnl.py:90`): a run by hand beside the unit posts the day's P&L
  twice.
* A resumed fire decides anew which tickers are active.  It may add one that
  pre_gate never offered; and what it drops as a gate_error it drops in silence,
  since pre_gate, which alerts, is checkpointed.
* A held ticker the feed has no history of is refused by `size` altogether, and
  its sell with it, although the alert texts speak of buys.
* A ticket that lapses between two fires of one day expires without a word, and
  the audit is clean.
* An orphaned spec stops not only the Critic but registration as well.

One shape, a commit made before what should follow it and a re-run that
reads rows in the old state only, occurs five times more: the ticket and then
its decision in the expiry sweep, the mark and then the projection_error in
`_dead_letter`, the swap and then the alert in the dispatcher's sweep, the
rejection and then its event in a backtest session, the spec and then its event
in registration.  A crash in between loses the second, and nothing in the code
makes up for it.  `NothingLost`, `ExactlyOneAlert`, `ToldOncePerSession` and
`AnnouncedOnce` say how much: one row, rejection or spec for each process that
died, and nothing without.  `ApprovedIsSettled` and `WhollyBooked` ask for the
second commit only where no process died; what is left behind after a death is
the first finding, and for the expiry sweep a decision that stays approved.

## 5. What is proved

Every safety property that a passing run checks, invariant or action property, is
a theorem.  TLC shows it on an instance; the theorem holds for every value of the constants: any set of tickers, days, quantities,
crashes, polls, drains, rows, sessions, specs, calls.  Assumed is only what
stands with the constants as a named ASSUME (`BooksAssumption`,
`OutboxAssumption`, ...): that bounds are natural numbers, that finite sets are
finite, that `None` is nobody's name, that a price is positive.  TLC evaluates
these on every run.  One theorem, `NoDayOnALostBook`, has a hypothesis of its
own, `OwnBook`: the account opens with no more of a ticker than the fund's records
say it bought.  `payload_fault` judges an empty list by those records when the
market value is unreadable, so of a position nobody recorded it cannot say that
the list was lost; that position is the accounting check's.  `MCTradingDay`
assumes `OwnBook` by name, so TLC evaluates it on the opening books of `day`.

| Module | Theorems |
|---|---|
| `OrderProofs` | `TypeCorrect`, `BooksFollowBroker`, `OnlyAuthorizedReach`, `ConsumedTicketsHaveOrders`, `FillIsBookedOnce`, `OnlyOnItsDay`, `TermsAreFrozen`, `WhollyBookedWhenUninterrupted`, `ExpiredFillsAreLoud`, `UnexecutedTicketsAreLoud`, `OpenOrdersAreLoud` |
| `TradingDayProofs` | `CloseIsWrittenOnce`, `CleanVerdictIsTrue`, `ApprovedTicketsFit`, `NoDayOnALostBook` |
| `OutboxProofs` | `OutboxTypes`, `ImplementsOrderedDelivery`, `NothingIsLost`, `DuplicatesAreBounded` |
| `WorklistProofs` | `WorklistTypes`, `NeverWokenTwice`, `ClaimIsKept`, `OneAlertPerRow` |
| `BacktestsProofs` | `AnswersHold`, `OneLookAtHoldout`, `OverrunIsBounded`, `RejectionToldOnce` |
| `G1Proofs` | `EventIsToldOnce`, `VerdictIsItsOwn`, `SilenceIsSuccess` |
| `NightProofs` | `SilenceIsNamed`, `NoPaidTurnIsWasted` |
| `AccountingProofs` | `AccountingTypes`, `LossesAreLoud`, `NoNoise` |

Hardly any of these properties is inductive.  What is, and why it is needed:

**Orders.**  No single commit writes the tables a property relates; what bridges
the commits is what the process knows, from the label it has reached, about the
row in hand.  `OrderInvariant` states it in layers, each resting on those before.

* `BooksInv`: that a row may be swapped to filled rests on `ans`, an answer the
  process got some steps ago while the broker went on.  `KnowsRow` says for every
  label what is still true of it there (a filled or dead order does not change
  again), `BrokerSane` the same of the responses on the wire.
* `AuthorityInv`: an order on the wire was authorised because its ticket was open
  when the hook looked.  That its decision had passed the gate follows only from
  the order of the stages, which a crash does not upset (`StageOrder`), from the
  gate having visited *every* submitted row of the run date before its checkpoint
  (`RowsToVisit`), and from a rejected decision's ticket being closed *before* the
  decision is rejected (`TicketsSane`).
* `RowsInv`: for `ConsumedHasOrder` and `OneFillPerOrder`.  Recorder, poll loop and
  close-out each write order, event and decision in three commits; that they book
  one event between them rests on the swap of the order being won once
  (`SettledTogether`, `RowInBooks`), on the figures being the broker's before the
  status says so (`FiguresTrue`), and on nobody listening to an answer whose turn
  is over (`TurnSane`): an order recorded after the sweep had expired its ticket
  would break it.
* `Uninterrupted` and `InterruptedOnce`: with no crash every row is wholly booked
  but the one in hand; after one, an order in the books either has its ticket
  consumed or its fill is told of.
* `TicketsToTell`, `CapSane`, `OrdersToTell`: every row that could be left in
  silence is in the list the loop still has to visit.  For the open orders the
  list changes hands three times (`todo`, `confirmed`, `problem`), and whether
  the poll or the close-out is at work is read off `capped`.

`OnlyOnItsDay` and `TermsAreFrozen` are about steps; both follow from
`AuthorityInv` and `RowsInv` at the step's start.

**Trading day.**  First `size()`: what it approves fits every limit
(`ApprovedFits`), for all figures, by arithmetic on the tiers, caps and quotients;
that the figures are numbers (`Valid`) is the code's own check.  Then `DInv`: the stages done are those
before the one the process is at (`Ladder`), decisions and tickets are well formed,
the row in hand is one of them, what a verdict needs is in the tables or in the
alerts (`Rows`, `InHand`, `Closing`, `Loud`, `Watched`, `Said`).

The account is read in two calls, and stops go off between them.  That no lost list
is sized on needs both halves of `SInv`.  `TheBook`: nothing is held that was not
recorded, which the orders keep only because an open ticket is a positive quantity
of a side the PM can no longer change, and a sell fits what is held.  `TheReading`:
a market value of nothing means nothing is held *now*, whatever went off since;
and without a fault a second reading is of an empty account, so it cannot refuse
the day.  Both rest on `ValueOfShares`: shares are worth nothing just when there
are none.  The value is a fold of the library over the tickers.  The induction
theorems take an operator and cannot be used, so the sum is reached through sets:
a set of naturals with 0 and every successor is all of them (`AllNaturals`, from
`WFMin`), the recursive function of the subsets exists (`SumsExist`), and it is
what its equation says (`SumOfNats`).

**Outbox.**  `OInv`: whatever precedes a row a drain has in hand is in its hand as
well, or settled (`InHand`), and the label says what was done to the oldest
(`KnowsOldest`).  From it each step of a drain is a step of `OrderedDelivery` or
stutters (`StepRefines`).  Duplicates are counted by `Charged`: a copy is paid for
by a drain that has answered, a crash or an outage.  The rows nobody names are
counted the same way: a drain leaves its own row unnamed when it dies before
`Name`, and no other (`CrashLosesOne`, `StepLosesNone`).

**Worklist.**  `WInv`: one loop at a time, and the row in its hand is claimed, not
woken before its check, and told of by nobody else.  A death leaves at most the
row in hand silent, so the silent rows are no more than the deaths.

**Backtests.**  A session acts on what it read before a run that takes minutes.
The registry only grows (`Grows`), so what a session knew is still true
(`SessionKnows`).  That a session's answer stands rests on `Earned`: who
is about to reject has counted the budget full, so that every rejection on the
registry is of a spec past its budget.  `UnheardPaid` counts the rejections
nobody hears of against the crashes.  The overrun counts the runs logged *and* under way (`Spent`):
whoever passes the count has seen fewer than the budget, and at most the other
sessions are under way.

**G1, evening.**  `SInv` follows the one spec the job has placed and not announced, and
`StrandedPaid` counts the faults that left one unannounced;
`SilenceIsSuccess` needs the leg's state only.  `NInv`: one process at a time is
past the reflection lock (`Alone`), and what it lists is unwritten (`ListIsDue`).

**Accounting.**  `AInv` bounds the gap by what has moved since the last word:
without a write-off it never narrowed and a loss widened it (`Widened`); without a
purchase a write-off lowered `recorded` (`Shrunk`); after purchases alone the gap
is the reported one (`Unmoved`).

Only model-checked:

* the liveness properties (`OrdersAreSettled`, `ApprovedIsSettled`,
  `EveryEventSettles`, `DrainTerminates`, `EveryRowEnds`, `QueueDrains`,
  `ReflectedOrNamed`, `ScoredForGood`): fairness speaks of ENABLED, which the
  prover cannot reason about;
* the three findings, which are counterexamples.

## 6. What is not modelled, and the plan

* Prompts, model output, prices, texts and Block Kit layout are data.
* The backtest engines, the statistics of `fundbt/` and the feature regressions
  are floating-point functions of frames; what the models need of them is whether
  they gave a figure.
* `size()` is modelled in whole numbers of one mapped sector, so rounding of
  floats is not.
* A database error outside the gate: in `OrderPipeline` it is a crash between two
  commits but for the alert; `TradingDay` has it (`Raise`).  A human editing the
  books is modelled where the code asks for it (`Repair`, a write-off, a row past
  `enqueue`) and nowhere else.
* Connection set-up, DDL steps and payload validation; developer tooling, lints,
  the evaluation harness, backups and service units.
* The issue filer (`scripts/file_alert_issues.py` behind `ops/pull-backups.sh`)
  is not modelled: it writes to a tracker outside the fund and keeps no state.
  Read against its design (`docs/superpowers/specs/2026-08-24-alert-issue-filer-design.md`)
  it differs in two points.  "Missing a day delays the issue; it never loses it"
  does not hold of a day the pull misses, for it files with its snapshot's own
  day as `--since` (a comment there calls this deliberate), nor of alerts raised
  between the snapshot and midnight; and where the table says that one failing
  `gh issue list` leaves "the remaining alerts" to be processed, the error ends
  the whole plan.

What is left of the plan:

1. Fill figures, order by order: what the books say was filled, once the day is
   over and nothing was interrupted, against the position held (`FiguresTrue`
   is the first half).
2. A module for the issue filer against the alerts of several days.

No module that is to be proved about uses a RECURSIVE operator; `RiskGate` takes
its minimum and its sums from the community modules.

## 7. Running it

    tlc -config order_safety.cfg MCOrderPipeline.tla
    tlc -config day.cfg MCTradingDay.tla
    tlc -config outbox.cfg MCOutbox.tla
    tlc -config g1_nights.cfg MCG1Nights.tla
    tlc -config backtests.cfg MCBacktests.tla
    tlc -config night.cfg MCNight.tla
    tlapm OrderProofs.tla            # two minutes; the others less
    tlapm TradingDayProofs.tla
    tlapm OutboxProofs.tla
    tlapm WorklistProofs.tla
    tlapm BacktestsProofs.tla
    tlapm G1Proofs.tla
    tlapm NightProofs.tla
    tlapm AccountingProofs.tla

`PROJECT.json` lists the components, the runs with what each shows, the source
lines of every definition, the hazards of the code with the properties that
cover them, the findings and the theorems.  The operators marked "Mutant" are
plausible bugs; put in the place of the definition that follows them, each makes
the property it belongs to fail.
