----------------------------- MODULE TradingDay -----------------------------
(***************************************************************************)
(* One run date of scripts/run_day.py around the orders: each fire reads   *)
(* the account and the market anew, works through the stages the earlier   *)
(* fires have not finished, and audits the day.  The process may die or    *)
(* raise between any two commits, a reading may be wrong, Slack may be     *)
(* down, and the broker's stops go off when they like.                     *)
(*                                                                         *)
(* Orders, fills and their bookkeeping are OrderPipeline's: here a ticket  *)
(* that is executed is executed whole.                                     *)
(***************************************************************************)
EXTENDS RiskGate, Sequences, SequencesExt

CONSTANTS
  None,
  Seats,       \* the research seats
  Asks,        \* what the PM may ask: side and quantity
  Opening,     \* how the day may open: cash, shares held, recorded, stops
  Quotes,      \* what a day's market may be: volatility and P&L; the first is calm
  MaxFires,    \* bound on the fires of the run date
  MaxFaults    \* bound on the crashes, raises, bad readings and outages

ASSUME TradingDayAssumption ==
  /\ None \notin Tickers /\ Seats # {} /\ Quotes # << >> /\ {MaxFires, MaxFaults} \subseteq Nat
  /\ Asks \subseteq [side : {"hold", "buy", "sell"}, qty : Nat]
  /\ \A o \in Opening :
       /\ {o.held, o.recorded} \subseteq [Tickers -> Nat]
       /\ o.stop \in [Tickers -> {"none", "unlisted", "live"}]

\* Every share the account opens with is one the fund bought: what is held
\* without a record is Accounting's.
OwnBook == \A o \in Opening : \A t \in Tickers : o.held[t] <= o.recorded[t]

VARIABLES
  cash, held, stop,     \* the account; stop: "none", "unlisted" (just placed), "live"
  done,                 \* checkpointed stages
  recorded,             \* recorded_holdings: the fund's own filled orders
  offered, signals, critiqued, decision, ticket,
  alerts, unposted,     \* today's alerts; the outbox has something undelivered
  digest, journal,      \* how often each was written for the run date
  costs,                \* a cost row exists
  exit,                 \* what the last fire came to
  at,                   \* stage and step of the process; Off when there is none
  cur,                  \* the ticker under way in a loop
  seen,                 \* what a check has read so far
  market,               \* what this fire sizes on
  fires, faults

account == <<cash, held, stop>>
asked == <<offered, signals, critiqued>>
decided == <<decision, ticket>>
outbox == <<alerts, unposted>>
closing == <<digest, journal>>
quiet == <<done, recorded, asked, decided, closing, costs>>   \* all tables but the outbox
tables == <<quiet, outbox>>
locals == <<cur, seen, market, exit>>
process == <<at, locals>>
bounds == <<fires, faults>>
vars == <<account, tables, process, bounds>>

Off == <<"off", "off">>
Path == <<"ingest", "pre_gate", "research", "decision", "gate", "execution",
          "reconciliation", "protect", "close", "report">>
Stages == ToSet(Path) \ {"ingest", "protect", "report"}
After(s) == Path[1 + CHOOSE i \in DOMAIN Path : Path[i] = s]

Self == <<"audit_failed", None>>
Undecided == [side |-> "none", qty |-> 0, status |-> "none", by |-> "none"]
NoTicket == [qty |-> 0, status |-> "none", fire |-> 0]
Writers == Seats \cup {"pm", "exec"}

Init ==
  /\ \E o \in Opening : cash = o.cash /\ held = o.held /\ stop = o.stop /\ recorded = o.recorded
  /\ done = {} /\ offered = {} /\ signals = {} /\ critiqued = {}
  /\ decision = [t \in Tickers |-> Undecided] /\ ticket = [t \in Tickers |-> NoTicket]
  /\ alerts = {} /\ unposted = FALSE /\ digest = 0 /\ journal = [w \in Writers |-> 0]
  /\ costs = FALSE /\ exit = "none" /\ at = Off /\ cur = None /\ seen = None /\ market = None
  /\ fires = 0 /\ faults = 0

(* Idioms. *)
At(step) == at[2] = step
Goto(step) == at' = <<at[1], step>>
Fault == faults < MaxFaults /\ faults' = faults + 1 /\ UNCHANGED fires
AlertAll(codes) == alerts' = alerts \cup codes /\ unposted' = (unposted \/ codes # {})
Alert(code, t) == AlertAll({<<code, t>>})
Drain ==
  \/ unposted' = FALSE /\ UNCHANGED bounds
  \/ unposted /\ UNCHANGED unposted /\ Fault
Stops(why) == at' = Off /\ cur' = None /\ seen' = None /\ market' = None /\ exit' = why

(***************************************************************************)
(* The broker: a stop leg appears in the list, or goes off.                *)
(***************************************************************************)
ListLeg(t) ==
  /\ stop[t] = "unlisted"
  /\ stop' = [stop EXCEPT ![t] = "live"]
  /\ UNCHANGED <<cash, held, tables, process, bounds>>

\* While the broker is being read: what a stop takes from under a ticket is
\* OrderPipeline's.
StopFires(t) ==
  /\ at[1] = "protect" \/ at[2] \in {"account", "positions"}
  /\ stop[t] = "live"
  /\ stop' = [stop EXCEPT ![t] = "none"]
  /\ held' = [held EXCEPT ![t] = 0]
  /\ cash' = cash + held[t] * Price[t]
  /\ UNCHANGED <<tables, process, bounds>>

(***************************************************************************)
(* Before the stages: main, account_snapshot and the rest of _trading_day. *)
(***************************************************************************)
\* The timer, or a human.
Wakes == at = Off /\ fires < MaxFires /\ fires' = fires + 1

Fire ==
  /\ Wakes
  /\ at' = <<"ingest", "account">> /\ exit' = "none"
  /\ UNCHANGED <<account, tables, cur, seen, market, faults>>

\* A clock that says closed, cannot be reached or cannot be read: no day.
FindClosed ==
  /\ Wakes
  /\ exit' = "closed"
  /\ UNCHANGED <<account, tables, at, cur, seen, market, faults>>

\* account_state() is two calls.  Of a bad answer the list is lost, the market
\* value unreadable, or both.
ReadAccount ==
  /\ At("account")
  /\ \E bad \in SUBSET {"list", "value"} :
       /\ seen' = [again |-> seen # None, bad |-> bad, cash |-> cash,
                   value |-> Value([held |-> held])]
       /\ IF bad = {} THEN UNCHANGED bounds ELSE Fault
  /\ Goto("positions")
  /\ UNCHANGED <<account, tables, cur, market, exit>>

NoShares == [t \in Tickers |-> 0]
Listed == IF "list" \in seen.bad THEN NoShares ELSE held
Recorded == \E t \in Tickers : recorded[t] > 0

\* Mutant: an unreadable market value is taken for a flat account.
FlatWhenUnreadable ==
  Listed = NoShares /\ "value" \notin seen.bad /\ seen.value # 0

PayloadFault ==
  /\ Listed = NoShares
  /\ IF "value" \in seen.bad THEN Recorded ELSE seen.value # 0

\* A payload at fault is read once more, all of it; twice, and no stage runs.
ReadPositions ==
  /\ At("positions")
  /\ \/ /\ ~PayloadFault
        /\ market' = [account |-> [equity |-> seen.cash + seen.value, cash |-> seen.cash,
                                   held |-> Listed],
                      lost |-> Listed # held]
        /\ Goto("market") /\ seen' = None
        /\ UNCHANGED outbox
     \/ PayloadFault /\ ~seen.again /\ Goto("account") /\ UNCHANGED <<seen, market, outbox>>
     \/ /\ PayloadFault /\ seen.again
        /\ Alert("positions_payload_lost", None) /\ Goto("refuse") /\ UNCHANGED <<seen, market>>
  /\ UNCHANGED <<account, quiet, cur, exit, bounds>>

Refuse ==
  /\ At("refuse")
  /\ Drain /\ Stops("refused")
  /\ UNCHANGED <<account, done, recorded, asked, decided, alerts, closing, costs>>

\* close_frame: a ticker the feed has no usable history of is dark.
FetchMarket ==
  /\ At("market")
  /\ \E dark \in SUBSET Tickers, q \in ToSet(Quotes) :
       /\ market' = [account |-> market.account, lost |-> market.lost,
                     dark |-> dark, vol |-> q.vol, pnl |-> q.pnl]
       /\ IF dark = {} /\ q = Quotes[1] THEN UNCHANGED bounds ELSE Fault
       /\ AlertAll({<<"missing_price_history", t>> : t \in dark \cap Held(market.account)})
  /\ Goto("config")
  /\ UNCHANGED <<account, quiet, cur, seen, exit>>

\* assert_account_config_unchanged: every difference alerts, none blocks.
CheckConfig ==
  /\ At("config")
  /\ \/ UNCHANGED <<outbox, bounds>>
     \/ /\ Fault
        /\ alerts' = alerts \cup {<<"account_precondition_drift", None>>}
        /\ unposted' \in BOOLEAN
  /\ at' = <<"pre_gate", "start">>
  /\ UNCHANGED <<account, quiet, locals>>

(***************************************************************************)
(* run_stage: a stage that is done is skipped; one that is not runs its    *)
(* body from the start, drains and is checkpointed.                        *)
(***************************************************************************)
SkipStage ==
  /\ At("start") /\ at[1] \in done
  /\ at' = <<After(at[1]), "start">>
  /\ UNCHANGED <<account, tables, locals, bounds>>

EndStage ==
  /\ At("end")
  /\ Drain
  /\ done' = done \cup {at[1]}
  /\ at' = <<After(at[1]), "start">>
  /\ UNCHANGED <<account, recorded, asked, decided, alerts, closing, costs, locals>>

Starts(s) == at = <<s, "start">> /\ s \notin done

\* The pure recomputation of every fire, whatever pre_gate offered before.
Today == Active(market)

(* pre_gate *)
AlertGateErrors ==
  /\ Starts("pre_gate")
  /\ AlertAll({<<"gate_error", t>> : t \in GateErrors(market)})
  /\ Goto("offer")
  /\ UNCHANGED <<account, quiet, locals, bounds>>

Offer ==
  /\ At("offer")
  /\ offered' = offered \cup Today
  /\ Goto("end")
  /\ UNCHANGED <<account, done, recorded, signals, critiqued, decided, outbox, closing, costs, locals, bounds>>

(* research *)
StartResearch ==
  /\ Starts("research")
  /\ Goto(IF Seats \X Today \subseteq signals THEN "default" ELSE "turn")
  /\ UNCHANGED <<account, tables, locals, bounds>>

\* submit_signal, an UPSERT.
SubmitSignal(s, t) ==
  /\ at = <<"research", "turn">> /\ t \in Today
  /\ signals' = signals \cup {<<s, t>>} /\ unposted' = TRUE
  /\ UNCHANGED <<account, done, recorded, offered, critiqued, decided, alerts, closing, costs, process, bounds>>

\* make_turn: a turn that is cut off at the wall-clock bound or raises has an
\* alert and no cost; the stage's default lands in any case.
EndTurn ==
  /\ At("turn")
  /\ \/ Goto("cost") /\ UNCHANGED <<outbox, bounds>>
     \/ Fault /\ Alert("seat_turn_failed", None) /\ Goto("default")
  /\ UNCHANGED <<account, quiet, locals>>

\* A model other than the seat's may have served the turn: an event, no alert.
NoteFallback == unposted' \in {unposted, TRUE}

\* record_cost_guarded: a row; an alert where the turn reports no estimate; or
\* nothing, where the write itself fails.
RecordCost ==
  /\ At("cost")
  /\ \/ costs' = TRUE /\ NoteFallback /\ UNCHANGED <<alerts, bounds>>
     \/ Fault /\ Alert("cost_unavailable", None) /\ UNCHANGED costs
     \/ Fault /\ NoteFallback /\ UNCHANGED <<costs, alerts>>
  /\ Goto("default")
  /\ UNCHANGED <<account, done, recorded, asked, decided, closing, locals>>

DefaultSignals ==
  /\ at = <<"research", "default">>
  /\ signals' = signals \cup (Seats \X Today)
  /\ Goto("end")
  /\ UNCHANGED <<account, done, recorded, offered, critiqued, decided, outbox, closing, costs, locals, bounds>>

(* decision *)
DefaultCritiques ==
  /\ Starts("decision")
  /\ critiqued' = critiqued \cup Today
  /\ Goto(IF Today = {} THEN "default" ELSE "turn")
  /\ UNCHANGED <<account, done, recorded, offered, signals, decided, outbox, closing, costs, locals, bounds>>

SubmitDecision(t, ask) ==
  /\ at = <<"decision", "turn">>
  /\ t \in critiqued /\ decision[t].status \in {"none", "submitted"}
  /\ decision' = [decision EXCEPT ![t] =
                    [side |-> ask.side, qty |-> ask.qty, status |-> "submitted", by |-> "pm"]]
  /\ unposted' = TRUE
  /\ UNCHANGED <<account, done, recorded, asked, ticket, alerts, closing, costs, process, bounds>>

\* Mutant: a resumed fire takes the alert for appended.
AlertTimeoutOnFirstFire(t) ==
  /\ at = <<"decision", "default">> /\ t \in Today /\ decision[t] = Undecided
  /\ IF fires = 1 THEN Alert("pm_timeout", t) ELSE UNCHANGED outbox
  /\ cur' = t /\ Goto("hold")
  /\ UNCHANGED <<account, quiet, seen, market, exit, bounds>>

\* The loop over what the PM left undecided: the alert, then the row.
AlertTimeout(t) ==
  /\ at = <<"decision", "default">> /\ t \in Today /\ decision[t] = Undecided
  /\ Alert("pm_timeout", t)
  /\ cur' = t /\ Goto("hold")
  /\ UNCHANGED <<account, quiet, seen, market, exit, bounds>>

DefaultHold ==
  /\ At("hold")
  /\ decision' = [decision EXCEPT ![cur] =
                    [side |-> "hold", qty |-> 0, status |-> "submitted", by |-> "default"]]
  /\ cur' = None /\ Goto("default")
  /\ UNCHANGED <<account, done, recorded, asked, ticket, outbox, closing, costs, seen, market, exit, bounds>>

EndDecision ==
  /\ at = <<"decision", "default">> /\ \A t \in Today : decision[t] # Undecided
  /\ Goto("end")
  /\ UNCHANGED <<account, tables, locals, bounds>>

(* gate *)
Settle(t, status) == decision' = [decision EXCEPT ![t].status = status]
Submitted == {t \in Tickers : decision[t].status = "submitted"}

\* A ticker this fire has no inputs of is a gate_error as well.
Cap(t) == Min({decision[t].qty, Allowed(market, t, decision[t].side).qty})

Hold(t) ==
  /\ Starts("gate") /\ cur = None /\ t \in Submitted /\ decision[t].side = "hold"
  /\ Settle(t, "held")
  /\ UNCHANGED <<account, done, recorded, asked, ticket, outbox, closing, costs, process, bounds>>

\* Mutant: an existing ticket is reused with the cap it was minted with.
MintOrReuse(t) ==
  /\ Starts("gate") /\ cur = None /\ t \in Submitted /\ decision[t].side # "hold"
  /\ ticket' =
       IF Cap(t) < 1
         THEN [ticket EXCEPT ![t].status = IF @ = "open" THEN "expired" ELSE @]
       ELSE IF ticket[t].status = "none"
         THEN [ticket EXCEPT ![t] = [qty |-> Cap(t), status |-> "open", fire |-> fires]]
       ELSE ticket
  /\ cur' = t /\ UNCHANGED <<at, seen, market, exit>>
  /\ UNCHANGED <<account, done, recorded, asked, decision, outbox, closing, costs, bounds>>

\* Before the decision settles, its ticket does: minted, capped anew if an
\* earlier fire's is still open, or closed if nothing is allowed any more.
SettleTicket(t) ==
  /\ Starts("gate") /\ cur = None /\ t \in Submitted /\ decision[t].side # "hold"
  /\ ticket' =
       IF Cap(t) < 1
         THEN [ticket EXCEPT ![t].status = IF @ = "open" THEN "expired" ELSE @]
       ELSE IF ticket[t].status \in {"none", "open"}
         THEN [ticket EXCEPT ![t] = [qty |-> Cap(t), status |-> "open", fire |-> fires]]
       ELSE ticket
  /\ cur' = t /\ UNCHANGED <<at, seen, market, exit>>
  /\ UNCHANGED <<account, done, recorded, asked, decision, outbox, closing, costs, bounds>>

SettleDecision ==
  /\ Starts("gate") /\ cur # None
  /\ Settle(cur, IF Cap(cur) < 1 THEN "rejected" ELSE "approved")
  /\ cur' = None /\ unposted' = TRUE
  /\ UNCHANGED <<account, done, recorded, asked, ticket, alerts, closing, costs, at, seen, market, exit, bounds>>

EndGate ==
  /\ Starts("gate") /\ Submitted = {}
  /\ Goto("end")
  /\ UNCHANGED <<account, tables, locals, bounds>>

(* execution and reconciliation, each ticket's order taken as a whole *)
Open == {t \in Tickers : ticket[t].status = "open"}

\* expire_open_tickets: 45 minutes are over only for an earlier fire's ticket,
\* before the turn and not in it, and nothing is said.
Expire(t) ==
  /\ Starts("execution") /\ t \in Open /\ ticket[t].fire < fires
  /\ ticket' = [ticket EXCEPT ![t].status = "expired"]
  /\ Settle(t, "expired")
  /\ UNCHANGED <<account, done, recorded, asked, outbox, closing, costs, process, bounds>>

CanSell(t) == decision[t].side = "sell" => ticket[t].qty <= held[t]

\* The position has gone since it was sized: the order dies at the broker.
OrderDies(t) ==
  /\ Starts("execution") /\ t \in Open /\ ~CanSell(t)
  /\ ticket' = [ticket EXCEPT ![t].status = "consumed"]
  /\ Settle(t, "failed")
  /\ Alert("order_unfilled_at_cap", t)
  /\ UNCHANGED <<account, done, recorded, asked, closing, costs, process, bounds>>

Execute(t) ==
  /\ Starts("execution") /\ t \in Open /\ CanSell(t)
  /\ ticket' = [ticket EXCEPT ![t].status = "consumed"]
  /\ Settle(t, "executed")
  /\ LET q == IF decision[t].side = "buy" THEN ticket[t].qty ELSE -ticket[t].qty
     IN /\ held' = [held EXCEPT ![t] = @ + q]
        /\ recorded' = [recorded EXCEPT ![t] = @ + q]
        /\ cash' = cash - q * Price[t]
        /\ stop' = [stop EXCEPT ![t] = IF q > 0 THEN "unlisted" ELSE "none"]
  /\ unposted' = TRUE
  /\ UNCHANGED <<done, asked, alerts, closing, costs, process, bounds>>

\* _alert_unexecuted_tickets, of what the turn and its hooks left open; the
\* turn's cost row may be the first of the day.
EndExecution ==
  /\ Starts("execution")
  /\ AlertAll({<<"ticket_open_after_exec", t>> : t \in Open})
  /\ costs' \in {costs, TRUE}
  /\ Goto("end")
  /\ UNCHANGED <<account, done, recorded, asked, decided, closing, locals, bounds>>

Reconcile ==
  /\ Starts("reconciliation")
  /\ Goto("end")
  /\ UNCHANGED <<account, tables, locals, bounds>>

(***************************************************************************)
(* assert_positions_protected: not a stage, so every fire that gets here   *)
(* looks.  Two lists, read one after the other; a position without cover   *)
(* is looked at once more, both lists over.                                *)
(***************************************************************************)
ListPositions ==
  /\ at[1] = "protect" /\ at[2] \in {"start", "nap"}
  /\ seen' = [again |-> At("nap"), held |-> {t \in Tickers : held[t] > 0}]
  /\ Goto("orders")
  /\ UNCHANGED <<account, tables, cur, market, exit, bounds>>

\* open_orders: every page of them, or it raises.
StopOrders == {t \in Tickers : stop[t] = "live"}
Uncovered == seen.held \ StopOrders

ListOrders ==
  /\ At("orders")
  /\ \/ /\ Uncovered # {} /\ ~seen.again
        /\ Goto("nap") /\ UNCHANGED outbox
     \/ Uncovered = {} /\ at' = <<"close", "start">> /\ UNCHANGED outbox
     \/ /\ Uncovered # {} /\ seen.again
        /\ AlertAll({<<"unprotected_position", t>> : t \in Uncovered})
        /\ Goto("protected")
  /\ seen' = None
  /\ UNCHANGED <<account, quiet, cur, market, exit, bounds>>

\* A list that cannot be read, or a record that cannot be written.
CannotVerify ==
  /\ at[1] = "protect" /\ at[2] \in {"start", "nap", "orders"}
  /\ Fault /\ Alert("protection_unverified", None)
  /\ Goto("protected") /\ seen' = None
  /\ UNCHANGED <<account, quiet, cur, market, exit>>

\* Findings are drained at once: the close may be done already.
EndProtect ==
  /\ At("protected")
  /\ Drain
  /\ at' = <<"close", "start">>
  /\ UNCHANGED <<account, done, recorded, asked, decided, alerts, closing, costs, locals>>

(* close *)
Write(w) == journal' = [journal EXCEPT ![w] = @ + 1]

\* Mutant: a digest already there ends the close.
WriteDigestOrReturn ==
  /\ Starts("close")
  /\ IF digest = 0 THEN digest' = 1 /\ unposted' = TRUE /\ Goto("journal")
     ELSE Goto("end") /\ UNCHANGED <<digest, unposted>>
  /\ UNCHANGED <<account, done, recorded, asked, decided, alerts, journal, costs, locals, bounds>>

WriteDigest ==
  /\ Starts("close")
  /\ IF digest = 0 THEN digest' = 1 /\ unposted' = TRUE ELSE UNCHANGED <<digest, unposted>>
  /\ Goto("journal")
  /\ UNCHANGED <<account, done, recorded, asked, decided, alerts, journal, costs, locals, bounds>>

\* Those with something to journal: the seats with signals, the PM, and the
\* trader on a day with fills.
Journals ==
  {s \in Seats : \E t \in Tickers : <<s, t>> \in signals} \cup {"pm"}
    \cup IF \E t \in Tickers : decision[t].status = "executed" THEN {"exec"} ELSE {}

WriteJournal(w) ==
  /\ At("journal") /\ w \in Journals /\ journal[w] = 0
  /\ Write(w)
  /\ UNCHANGED <<account, done, recorded, asked, decided, outbox, digest, costs, process, bounds>>

EndClose ==
  /\ At("journal") /\ \A w \in Journals : journal[w] > 0
  /\ Goto("end")
  /\ UNCHANGED <<account, tables, locals, bounds>>

(***************************************************************************)
(* post_scorecard, which never fails the day, and report_audit.            *)
(***************************************************************************)
PostScorecard ==
  /\ at = <<"report", "start">>
  /\ Drain
  /\ Goto("audit")
  /\ UNCHANGED <<account, done, recorded, asked, decided, alerts, closing, costs, locals>>

Problems ==
  \/ ~Stages \subseteq done
  \/ \E t \in Tickers :
       \/ decision[t].status \in {"submitted", "approved"}
       \/ decision[t] = Undecided /\ \E s \in Seats : <<s, t>> \in signals
  \/ unposted
  \/ alerts \ {Self} # {}
  \/ signals # {} /\ ~costs

Audit ==
  /\ At("audit")
  /\ \/ ~Problems /\ Stops("clean") /\ UNCHANGED outbox
     \/ Problems /\ alerts' = alerts \cup {Self} /\ unposted' = TRUE /\ Goto("red")
        /\ UNCHANGED locals
  /\ UNCHANGED <<account, quiet, bounds>>

EndRed ==
  /\ At("red")
  /\ Drain /\ Stops("red")
  /\ UNCHANGED <<account, done, recorded, asked, decided, alerts, closing, costs>>

(* guarded: a raise anywhere in the day is alerted, drained, and exits 1. *)
Raise ==
  /\ at # Off
  /\ Fault /\ Stops("failed")
  /\ alerts' = alerts \cup {<<"run_day_failed", None>>} /\ unposted' \in BOOLEAN
  /\ UNCHANGED <<account, quiet>>

Crash ==
  /\ at # Off
  /\ Fault /\ Stops("killed")
  /\ UNCHANGED <<account, done, recorded, asked, decided, outbox, closing, costs>>

Ingest == Fire \/ FindClosed \/ ReadAccount \/ ReadPositions \/ Refuse \/ FetchMarket \/ CheckConfig
Desks ==
  \/ AlertGateErrors \/ Offer \/ StartResearch \/ EndTurn \/ RecordCost \/ DefaultSignals \/ DefaultCritiques
  \/ \E t \in Tickers :
       \/ \E s \in Seats : SubmitSignal(s, t)
       \/ \E ask \in Asks : SubmitDecision(t, ask)
       \/ AlertTimeout(t)
  \/ DefaultHold \/ EndDecision
Trade ==
  \/ \E t \in Tickers : Hold(t) \/ SettleTicket(t) \/ Expire(t) \/ OrderDies(t) \/ Execute(t)
  \/ SettleDecision \/ EndGate \/ EndExecution \/ Reconcile
Report ==
  \/ ListPositions \/ ListOrders \/ CannotVerify \/ EndProtect
  \/ WriteDigest \/ (\E w \in Writers : WriteJournal(w)) \/ EndClose
  \/ PostScorecard \/ Audit \/ EndRed

Next ==
  \/ Ingest \/ SkipStage \/ EndStage \/ Desks \/ Trade \/ Report
  \/ Raise \/ Crash
  \/ \E t \in Tickers : ListLeg(t) \/ StopFires(t)

Spec == Init /\ [][Next]_vars
-----------------------------------------------------------------------------

\* No stage of any fire runs on a list of positions that was lost while the
\* fund's own records hold a book, whatever else was unreadable, and what
\* is sized is the reading that was judged; yet a stop that empties the
\* account between the two calls of one reading never costs the day.
\* (account_snapshot, payload_fault)
SizedOnTheBook ==
  /\ market # None /\ Recorded => ~market.lost
  /\ exit = "refused" => faults > 0

\* Every ticket the gate approves fits, alone, each limit of the market this
\* fire has read: also when an earlier fire, on another market, had minted
\* it and died before it could approve.  (_gate_handle, size)
TicketsFit ==
  [][\A t \in Tickers :
       /\ decision[t].status = "submitted" /\ decision'[t].status = "approved"
       /\ ticket[t].status = "open"
       => FitsAlone(market, t, decision[t].side, ticket[t].qty)]_vars

\* However often the close is resumed, the digest and each journal are written
\* once for the run date, and when the stage is done none is missing.
\* (run_close, _append_entry_once)
CloseWrittenOnce ==
  /\ digest <= 1 /\ \A w \in Writers : journal[w] <= 1
  /\ "close" \in done => digest = 1 /\ \A w \in Journals : journal[w] = 1

\* AUDIT CLEAN is not said of a day on which something fell back silently: in
\* whichever fires it happened, the PM itself decided on every ticker that has
\* a signal, what it decided is settled, no ticket was left over, the digest
\* is out, and every position was covered when last looked at.  (A ticket
\* that lapses between two fires is the exception: its expiry says nothing.)
\* (report_audit and the alerts it counts)
Dealt(t) ==
  /\ decision[t].by = "pm"
  /\ decision[t].status \in {"held", "rejected", "executed", "expired"}
  /\ ticket[t].status # "open"
VerdictIsTrue ==
  exit = "clean" =>
    /\ \A s \in Seats, t \in Tickers : <<s, t>> \in signals => Dealt(t)
    /\ digest = 1 /\ ~unposted
    /\ \A t \in Tickers : held[t] > 0 => stop[t] = "live"

-----------------------------------------------------------------------------
(* What the design promises, and the code does not keep. *)

\* "step 4: firm limits - max position count (8), max sector weight (60%,
\* post-trade)" (specs/design.md): the buys approved of one fire fit the
\* firm's limits together.  Each is sized on the same account.
Buys == {t \in Open : decision[t].side = "buy" /\ decision[t].status = "approved"
                      /\ ticket[t].fire = fires}
FirmLimits ==
  at[1] = "gate" => FitTogether(market, Buys, [t \in Tickers |-> ticket[t].qty])
=============================================================================
