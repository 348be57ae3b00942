-------------------------- MODULE MCCallLifecycle --------------------------
(* CallLifecycle with its connection attempts as interchangeable values.   *)
EXTENDS CallLifecycle, TLC

ConnSymmetry == Permutations(Conns)
=============================================================================
