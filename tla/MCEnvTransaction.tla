-------------------------- MODULE MCEnvTransaction --------------------------
(***************************************************************************)
(* Instances of EnvTransaction for TLC. `request` is the environment a     *)
(* handler gets, `scoped` a sibling such as request.with_company(c).       *)
(***************************************************************************)
EXTENDS EnvTransaction, TLC

CONSTANTS k1, k2, old, new, request, scoped

MCKeys == {k1, k2}
MCVals == {old, new}
MCEnvs == {request, scoped}

MCSymmetry == Permutations(MCKeys) \cup Permutations(MCVals) \cup Permutations(MCEnvs)
=============================================================================
