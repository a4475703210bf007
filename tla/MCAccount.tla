----------------------------- MODULE MCAccount -----------------------------
(* Instances of Account for TLC.                                           *)
EXTENDS Account, TLC

CONSTANTS r1, r2, k1, k2

AnyRequest == Permutations({r1, r2}) \cup Permutations({k1, k2})
=============================================================================
