------------------------------ MODULE MCCosign ------------------------------
(***************************************************************************)
(* Two and three surrenders that build on and compete with each other.     *)
(***************************************************************************)
EXTENDS Cosign, TLC

CONSTANTS R1, R2, w, T1, T2, T3, u

Order == [t \in Txs |-> CASE t = T1 -> 1 [] t = T2 -> 2 [] OTHER -> 3]

Surrender(pool, others, collateral, payout, ttl) ==
  [pool |-> pool, spends |-> {pool} \cup others,
   inputs |-> {pool} \cup others \cup collateral, payout |-> payout,
   units |-> [x \in Units |-> 1], ttl |-> ttl]

\* The third surrender needs both others: they compete for a pool output, or
\* not, or follow each other.
Joins ==
  {T1 :> Surrender(R1, {}, {}, 1, 1) @@ T2 :> Surrender(p2, {w}, {}, 1, 1)
     @@ T3 :> Surrender(PoolOf(T1), {ChangeOf(T2)}, {ChangeOf(T1)}, 1, 1) :
     p2 \in {R1, R2, PoolOf(T1)}}

\* Two surrenders, of two pool outputs or one after the other, valid for two
\* and three ticks; the third has expired.
Pairs ==
  {T1 :> Surrender(R1, {}, {}, 2, 2) @@ T2 :> Surrender(p2, {w}, {}, 2, 3)
     @@ T3 :> Surrender(R2, {}, {}, 2, 0) : p2 \in {R2, PoolOf(T1)}}

Families == Joins \cup Pairs

UnitLimit == u :> 2
=============================================================================
