----------------------------- MODULE Accounting -----------------------------
(***************************************************************************)
(* assert_positions_accounted (orchestrator/protection.py): after every    *)
(* reconciliation the fund compares the shares its own orders account for  *)
(* with those the broker holds, and alerts on a shortfall.  Its only       *)
(* memory is its own newest alert about the symbol, so it must tell a gap  *)
(* it has reported from a new one while fills, sales, fired stops, exits   *)
(* written down by hand and hand-placed orders move both numbers.          *)
(*                                                                         *)
(* One symbol: others matter only in that any of them may make the check   *)
(* read twice, or fail.  Whatever is read last is judged and committed in  *)
(* the same step, for nothing the verdict looks at changes in between.     *)
(***************************************************************************)
EXTENDS Integers

CONSTANT MaxShares   \* bound on the shares recorded and held

ASSUME AccountingAssumption == MaxShares \in Nat \ {0}

VARIABLES
    recorded,   \* recorded_holdings: net filled_qty of the fund's orders
    held,       \* shares at the broker
    fresh,      \* bought so recently that the first read may not list them
    last,       \* _last_accounting: the newest accounting alert
    at,         \* "idle", or "nap" between the two reads
    said,       \* what the step just taken was: a gap "reported", a standing
                \* one passed over in "silence", or nothing of the kind
    moves       \* history: what has moved the numbers since the check last
                \* alerted, or found the two to agree

book == <<recorded, held, fresh>>
vars == <<book, last, at, said, moves>>

Shares == 0 .. MaxShares
None == [kind |-> "none"]
Cleared == [kind |-> "cleared"]
Gap(w, h) == [kind |-> "gap", recorded |-> w, held |-> h]
Gaps == {Gap(w, h) : w \in Shares, h \in Shares}
Moves == {"bought", "sold", "lost", "written_off", "by_hand"}

TypeOK ==
    /\ recorded \in Shares /\ held \in Shares /\ fresh \in Shares
    /\ last \in Gaps \cup {None, Cleared}
    /\ last \in Gaps => last.held < last.recorded
    /\ at \in {"idle", "nap"}
    /\ at = "nap" => recorded > 0
    /\ said \in {"nothing", "reported", "silence"}
    /\ moves \subseteq Moves

Init ==
    /\ recorded = 0 /\ held = 0 /\ fresh = 0
    /\ last = None
    /\ at = "idle" /\ said = "nothing"
    /\ moves = {}

(***************************************************************************)
(* What happens between two checks, and, of itself, in the nap of one.     *)
(***************************************************************************)
Happens(move) ==
    /\ moves' = moves \cup {move}
    /\ said' = "nothing"
    /\ UNCHANGED <<last, at>>

\* A fill of the fund's own order.
Buy(q) ==
    /\ at = "idle"
    /\ recorded + q \in Shares /\ held + q \in Shares
    /\ recorded' = recorded + q /\ held' = held + q /\ fresh' = q
    /\ Happens("bought")

Sell(q) ==
    /\ at = "idle"
    /\ recorded - q \in Shares /\ held - q \in Shares
    /\ recorded' = recorded - q /\ held' = held - q /\ fresh' = 0
    /\ Happens("sold")

\* A stop leg fires: it has no row in orders.
StopFires(q) ==
    /\ held - q \in Shares
    /\ held' = held - q
    /\ UNCHANGED <<recorded, fresh>>
    /\ Happens("lost")

\* A human writes down an exit the fund had missed, or buys by hand.
WriteOff(q) ==
    /\ at = "idle"
    /\ q <= recorded - held
    /\ recorded' = recorded - q
    /\ UNCHANGED <<held, fresh>>
    /\ Happens("written_off")

BuyByHand(q) ==
    /\ at = "idle"
    /\ held + q \in Shares
    /\ held' = held + q
    /\ UNCHANGED <<recorded, fresh>>
    /\ Happens("by_hand")

(***************************************************************************)
(* The check.                                                              *)
(***************************************************************************)

\* Mutant: the (recorded, held) pair, as before issue #141.
StandingPair(have) == last = Gap(recorded, have)

\* The gap already reported, and nothing written off since.
Standing(have) ==
    /\ last \in Gaps
    /\ recorded >= last.recorded
    /\ last.recorded - last.held = recorded - have

\* Mutant: a clearing is observed but not recorded.
AgreeSilently ==
    /\ UNCHANGED last
    /\ said' = "nothing"
    /\ moves' = {}

\* The two agree: recorded as cleared if a gap was reported last.
Agree ==
    /\ last' = IF last \in Gaps THEN Cleared ELSE last
    /\ said' = "nothing"
    /\ moves' = {}

Report(have) ==
    /\ last' = Gap(recorded, have)
    /\ said' = "reported"
    /\ moves' = {}

PassOver == said' = "silence" /\ UNCHANGED <<last, moves>>

\* The loop's body, on the shares the last read saw.
Judge(have) ==
    /\ at' = "idle" /\ fresh' = 0
    /\ UNCHANGED <<recorded, held>>
    /\ \/ have >= recorded /\ Agree
       \/ have < recorded /\ Standing(have) /\ PassOver
       \/ have < recorded /\ ~ Standing(have) /\ Report(have)

\* recorded_holdings > 0 leaves the symbol out: nothing is asked about it.
CheckNothing ==
    /\ at = "idle" /\ recorded = 0
    /\ said' = "nothing"
    /\ UNCHANGED <<book, last, at, moves>>

Listed == (IF fresh < held THEN held - fresh ELSE 0) .. held

\* The first read; a shortfall, here or elsewhere, or an unreadable line, and
\* the check naps to read again.
Read ==
    /\ at = "idle" /\ recorded > 0
    /\ \/ \E have \in Listed : have >= recorded /\ Judge(have)
       \/ at' = "nap" /\ said' = "nothing" /\ UNCHANGED <<book, last, moves>>

\* The second read, by when the broker lists every fill.
Reread == at = "nap" /\ Judge(held)

\* No broker, a read that raises, or lines unreadable twice over: unverified
\* is alerted, under a code of its own; or the process dies.
GiveUp ==
    /\ recorded > 0
    /\ at' = "idle" /\ said' = "nothing"
    /\ UNCHANGED <<book, last, moves>>

Next ==
    \/ \E q \in 1 .. MaxShares :
         Buy(q) \/ Sell(q) \/ StopFires(q) \/ WriteOff(q) \/ BuyByHand(q)
    \/ CheckNothing \/ Read \/ Reread \/ GiveUp

Spec == Init /\ [][Next]_vars
-----------------------------------------------------------------------------

\* Shares that left the account unrecorded since the last alert are never met
\* with silence: neither a purchase nor a write-off alone, nor a gap reported
\* and closed before, can hide a new exit of the same size.  (Only a hand
\* purchase, or a write-off bought back before anyone looked, can.)
\* (_last_accounting, "want >= standing is NOT redundant")
NewLossIsLoud ==
    [][said' = "silence" /\ "lost" \in moves =>
         "by_hand" \in moves \/ {"written_off", "bought"} \subseteq moves]_vars

\* No day is made red twice for one fault: a gap is reported only if shares
\* were lost since the last word, or if it was reported and something other
\* than a purchase has changed it.  A fill the broker does not list yet never
\* reports one.  (issue #141, the nap)
ReportedOnce ==
    [][said' = "reported" =>
         \/ "lost" \in moves
         \/ /\ last \in Gaps
            /\ moves \cap {"sold", "written_off", "by_hand"} # {}]_vars

=============================================================================
