---------------------------- MODULE MCBacktests ----------------------------
(* One spec, more configurations than its budget and two sessions to ask   *)
(* for them; the holdout may be tried with two configurations.             *)
EXTENDS Backtests, TLC
CONSTANTS s1, i1, i2, c1, c2, c3, h1, h2
MCSpecIds == {s1}
MCOldSpecs == {s1}
MCSessions == {i1, i2}
MCRequests == {<<s1, c1>>, <<s1, c2>>, <<s1, c3>>}
MCHoldoutRequests == {<<s1, h1>>, <<s1, h2>>}
NoHoldout == {}
Symmetry == Permutations(MCSessions) \cup Permutations({c1, c2, c3})
            \cup Permutations({h1, h2})
=============================================================================
