---------------------------- MODULE MCSurrender ----------------------------
(***************************************************************************)
(* Small pools for TLC.  Two roots whose balances make the interesting     *)
(* choices: a surrender can drain a root, leave a remainder equal to the   *)
(* other root, or ask for more than is left.                               *)
(***************************************************************************)
EXTENDS Surrender, TLC

CONSTANTS R1, R2, A, B, C

\* Calls are interchangeable: only their states are ever compared.
CallSymmetry == Permutations(Calls)

\* So are builds that deliver the same.
FullSymmetry == Permutations(Calls) \cup Permutations(Builds)

OneRoot == R1 :> 3
TwoRoots == R1 :> 3 @@ R2 :> 2
DeepRoot == R1 :> 4
PairAmounts == A :> 1 @@ B :> 2
MixedAmounts == A :> 1 @@ B :> 2 @@ C :> 2
EqualAmounts == A :> 1 @@ B :> 1 @@ C :> 1
=============================================================================
