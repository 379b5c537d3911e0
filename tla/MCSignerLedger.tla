--------------------------- MODULE MCSignerLedger ---------------------------
(***************************************************************************)
(* All forests of three or four surrenders over two pool outputs.          *)
(***************************************************************************)
EXTENDS SignerLedger, TLC

CONSTANTS R1, R2, T1, T2, T3, T4, u

Order == T1 :> 1 @@ T2 :> 2 @@ T3 :> 3 @@ T4 :> 4

Surrender(o, quantity) ==
  [pool |-> o, spends |-> {o}, inputs |-> {o}, payout |-> quantity,
   units |-> [x \in Units |-> quantity], ttl |-> 1]

\* T1 spends R1, as one of the two; T2 is twice as heavy as the others.
Forests ==
  {T1 :> Surrender(R1, 1) @@ T2 :> Surrender(o2, 2)
     @@ T3 :> Surrender(o3, 1) @@ T4 :> Surrender(o4, 1) :
     o2 \in {R1, R2, PoolOf(T1)}, o3 \in {R1, R2, PoolOf(T1), PoolOf(T2)},
     o4 \in {R1, R2, PoolOf(T1), PoolOf(T2), PoolOf(T3)}}

UnitLimit == u :> 3
=============================================================================
