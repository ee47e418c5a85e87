-------------------------- MODULE MCEffectLifecycle --------------------------
(* Small instances of EffectLifecycle for TLC. *)
EXTENDS EffectLifecycle, TLC

CONSTANTS e1, e2, k1, k2, alice, dora, w1, w2, api0, noOne, none

OneEffect == {e1}
TwoEffects == {e1, e2}
OneKey == {k1}
TwoKeys == {k1, k2}
TwoSubjects == {alice, dora}
TwoWorkers == {w1, w2}
OneWorker == {w1}
OneDelay == <<5>>

Symmetry == Permutations(TwoKeys) \cup Permutations(TwoWorkers) \cup Permutations(TwoSubjects)
==============================================================================
