---------------------------- MODULE MCRedemption ----------------------------
(***************************************************************************)
(* A collection in which one name exists once and another twice.           *)
(***************************************************************************)
EXTENDS Redemption, TLC

CONSTANTS T, N, E, tok, col

MCAssetOf == T :> tok @@ N :> col @@ E :> col
MCTokenUnit == tok :> T
MCKind == T :> "token" @@ N :> "plain" @@ E :> "plain"
MCSupply == T :> 1 @@ N :> 1 @@ E :> 2
MCNone == tok :> 0 @@ col :> 0
MCSplits == {tok :> 5 @@ col :> 3}
=============================================================================
