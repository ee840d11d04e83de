------------------------------ MODULE G1Nights ------------------------------
(***************************************************************************)
(* Night after night of the G1 leg beside the two things that move its     *)
(* queue: specs registered by hand and specs a backtest takes out of SPEC. *)
(* The leg is the last of the evening unit: an earlier leg that fails, or  *)
(* the guillotine, only puts it off.                                       *)
(***************************************************************************)
EXTENDS Critique

vars == critiqueVars

Init == SpecsInit /\ CritiqueInit

Beside == SpecsNext /\ UNCHANGED <<verdict, critic>>

\* The unit reaches its fifth program, or it is run by hand: one lock.
StartNight == critic.at = "idle" /\ StartLeg /\ UNCHANGED <<specVars, verdict>>

EndNight ==
    /\ critic.at = "done"
    /\ critic' = NoLeg
    /\ UNCHANGED <<specVars, verdict>>

\* The guillotine, a kill: no alert of the leg's own.
KillLeg ==
    /\ critic.at \notin {"idle", "done"} /\ crashes < MaxCrashes
    /\ critic' = NoLeg /\ crashes' = crashes + 1
    /\ UNCHANGED <<tables, reg, stranded, verdict>>

\* run_backtest on a spec that may not have been to G1 yet.
Backtested ==
    /\ \E s \in SpecIds : Registered(s) /\ ToBacktest(s)
    /\ UNCHANGED <<specs, announced, reg, stranded, crashes, verdict, critic>>

Next == Beside \/ CritiqueStep \/ StartNight \/ EndNight \/ KillLeg \/ Backtested

Spec == Init /\ [][Next]_vars

\* The leg runs on, nights come, an orphan is repaired, and a Critic that is
\* asked night after night does its work.
FairSpec ==
    /\ Spec
    /\ WF_vars(SelectHead \/ EndCriticTurn \/ CheckVerdict)
    /\ WF_vars(StartNight) /\ WF_vars(EndNight)
    /\ WF_vars(Repair /\ UNCHANGED <<verdict, critic>>)
    /\ SF_vars(ReadBrief) /\ SF_vars(SubmitCritique)

=============================================================================
