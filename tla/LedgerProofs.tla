---------------------------- MODULE LedgerProofs ----------------------------
(***************************************************************************)
(* What redemption_ledger.py computes over its rows, for any approvals:    *)
(* the heaviest paths, summed, are the most that transactions which can    *)
(* land together weigh.  So a ledger that keeps the count within a limit   *)
(* keeps every such set within it.                                         *)
(***************************************************************************)
EXTENDS RedemptionLedger, SumProofs

\* What the approvals looked at are: each spends a pool output that exists
\* before it, and needs it as an input.
LEMMA ApprovalFacts ==
  ASSUME approval \in Scenarios
  PROVE  /\ approval \in [Txs -> Approvals]
         /\ \A t \in Txs :
              /\ approval[t].pool \in PoolOutputs
              /\ approval[t].pool \in approval[t].spends
              /\ approval[t].pool \in approval[t].inputs
              /\ approval[t].payout \in Nat
              /\ \A u \in Units : approval[t].units[u] \in Nat
         /\ \A t, p \in Txs : approval[t].inputs \cap Made(p) # {} => Age[p] < Age[t]
         /\ \A t \in Txs : Age[t] \in Nat
<1>1. approval \in [Txs -> Approvals]
  BY LedgerAssumption
<1>2. \A t \in Txs : approval[t].pool \in approval[t].spends /\ approval[t].pool \in approval[t].inputs
  BY LedgerAssumption
<1>3. \A t \in Txs : /\ approval[t].pool \in PoolOutputs
                     /\ approval[t].payout \in Nat
                     /\ \A u \in Units : approval[t].units[u] \in Nat
  BY <1>1 DEF Approvals
<1>4. \A t, p \in Txs : approval[t].inputs \cap Made(p) # {} => Age[p] < Age[t]
  BY LedgerAssumption
<1>5. QED
  BY <1>1, <1>2, <1>3, <1>4, LedgerAssumption

\* A pool output is made by one transaction at most, older than who spends it.
LEMMA OneProducer ==
  ASSUME approval \in Scenarios, NEW t \in Txs, NEW p \in Txs
  PROVE  /\ approval[t].pool \in Made(p) <=> approval[t].pool = PoolOf(p)
         /\ approval[t].pool \in Made(p) => Age[p] < Age[t]
         /\ \A q \in Txs : approval[t].pool \in Made(p) /\ approval[t].pool \in Made(q) => p = q
<1>1. approval[t].pool \in PoolOutputs /\ approval[t].pool \in approval[t].inputs
  BY ApprovalFacts
<1>2. \A o \in PoolOutputs, q \in Txs : o \in Made(q) <=> o = PoolOf(q)
  <2> SUFFICES ASSUME NEW o \in PoolOutputs, NEW q \in Txs, o \in Made(q)
               PROVE  o = PoolOf(q)
    BY DEF Made
  <2>1. o \notin Genesis
    BY LedgerAssumption
  <2>2. PICK r \in Txs : o = PoolOf(r)
    BY <2>1 DEF PoolOutputs
  <2>3. PoolOf(r) # ChangeOf(q)
    BY DEF PoolOf, ChangeOf
  <2>4. QED
    BY <2>2, <2>3 DEF Made
<1>3. approval[t].pool \in Made(p) => Age[p] < Age[t]
  BY <1>1, ApprovalFacts
<1>4. \A q \in Txs : PoolOf(p) = PoolOf(q) => p = q
  BY DEF PoolOf
<1>5. QED
  BY <1>1, <1>2, <1>3, <1>4

-----------------------------------------------------------------------------
(* Path weights                                                            *)

\* What follows t is younger, so the weights below a transaction are settled
\* before its own: the recursion of PathWeights has a solution.
LEMMA PathEquation ==
  ASSUME approval \in Scenarios, NEW S \in SUBSET Txs, NEW w \in [Txs -> Nat]
  PROVE  /\ PathWeights(S, w) \in [S -> Nat]
         /\ \A t \in S : PathWeights(S, w)[t] =
              w[t] + Max({0} \cup {PathWeights(S, w)[c] : c \in Followers(S, t)})
<1> DEFINE Weight(t, g) == w[t] + Max({0} \cup {g[c] : c \in Followers(S, t)})
           F == [p \in S \X [S -> Nat] |-> Weight(p[1], p[2])]
           Ages == SumFunctionOnSet(Age, S)
           rank == [t \in S |-> Ages - Age[t]]
           R == Growing(rank, S)
<1>1. IsFiniteSet(S) /\ \A t \in S : Age[t] \in Nat
  BY LedgerAssumption, FS_Subset
<1>2. \A t \in S : rank[t] \in Nat
  <2>1. Ages \in Nat
    BY <1>1, SumNat
  <2>2. \A t \in S : Age[t] <= Ages
    BY <1>1, SumBound
  <2> HIDE DEF Ages
  <2>3. QED
    BY <1>1, <2>1, <2>2
<1>3. /\ IsWellFoundedOn(R, S) /\ IsTransitivelyClosedOn(R, S)
      /\ \A x, y \in S : <<x, y>> \in R <=> rank[x] < rank[y]
  <2> HIDE DEF rank
  <2> QED BY <1>2, RankWellFounded
<1>4. \A t \in S : \A c \in Followers(S, t) : c \in S /\ <<c, t>> \in R
  <2> SUFFICES ASSUME NEW t \in S, NEW c \in S, approval[c].pool \in Made(t)
               PROVE  <<c, t>> \in R
    BY DEF Followers
  <2>1. Age[t] < Age[c]
    BY OneProducer
  <2>2. rank[c] < rank[t]
    <3>1. Ages \in Nat
      BY <1>1, SumNat
    <3> HIDE DEF Ages
    <3>2. QED
      BY <1>1, <2>1, <3>1
  <2> HIDE DEF rank, R
  <2>3. QED
    BY <1>3, <2>2
<1> HIDE DEF R, rank
<1>5. \A t \in S : \A g \in [S -> Nat] : Weight(t, g) \in Nat
  <2> SUFFICES ASSUME NEW t \in S, NEW g \in [S -> Nat] PROVE Weight(t, g) \in Nat
    OBVIOUS
  <2> DEFINE I == {g[c] : c \in Followers(S, t)}
             M == {0} \cup I
  <2>1. I \subseteq Nat
    BY DEF Followers
  <2>2. IsFiniteSet(I)
    <3>1. IsFiniteSet(Followers(S, t))
      BY <1>1, FS_Subset DEF Followers
    <3>2. QED
      BY <3>1, ImageFinite
  <2> HIDE DEF I
  <2>3. M # {} /\ \A x \in M : x \in Nat
    BY <2>1
  <2>4. IsFiniteSet(M)
    <3>1. IsFiniteSet({0})
      BY FS_Singleton
    <3>2. QED
      BY <2>2, <3>1, FS_Union
  <2> HIDE DEF M
  <2>5. Max(M) \in Nat
    BY <2>3, <2>4, MaxExists
  <2>6. Weight(t, g) = w[t] + Max(M)
    BY DEF M, I
  <2> HIDE DEF Weight
  <2>7. QED
    BY <2>5, <2>6
<1>6. F \in [S \X [S -> Nat] -> Nat]
  <2> HIDE DEF Weight
  <2> QED BY <1>5
<1>7. \A t \in S : \A g \in [S -> Nat] : F[<<t, g>>] = Weight(t, g)
  OBVIOUS
<1>8. \A t \in S : \A g, h \in [S -> Nat] :
        (\A c \in S : <<c, t>> \in R => g[c] = h[c]) => F[<<t, g>>] = F[<<t, h>>]
  <2> HIDE DEF F, Weight
  <2> SUFFICES ASSUME NEW t \in S, NEW g \in [S -> Nat], NEW h \in [S -> Nat],
                      \A c \in S : <<c, t>> \in R => g[c] = h[c]
               PROVE  Weight(t, g) = Weight(t, h)
    BY <1>7
  <2>1. \A c \in Followers(S, t) : g[c] = h[c]
    BY <1>4
  <2>2. {g[c] : c \in Followers(S, t)} = {h[c] : c \in Followers(S, t)}
    BY <2>1
  <2>3. QED
    BY <2>2, Zenon DEF Weight
<1>9. IsStep(F, S, Nat, R)
  <2> HIDE DEF F
  <2> QED BY <1>6, <1>8 DEF IsStep
<1>10. PICK g : Solves(g, F, S, Nat)
  <2>1. Nat # {}
    OBVIOUS
  <2> HIDE DEF F
  <2>2. QED
    BY <1>3, <1>9, <2>1, RecursionExists
<1>11. g \in [S -> Nat] /\ \A t \in S : g[t] = Weight(t, g)
  BY <1>7, <1>10 DEF Solves
<1>12. g = [t \in S |-> Weight(t, g)]
  <2> HIDE DEF Weight
  <2> QED BY <1>11
<1>13. PathWeights(S, w) = [t \in S |-> Weight(t, PathWeights(S, w))]
  BY <1>12 DEF PathWeights
<1> HIDE DEF F
<1>14. \A t \in S : PathWeights(S, w)[t] = Weight(t, PathWeights(S, w))
  <2> HIDE DEF Weight
  <2> QED BY <1>13
<1> DEFINE D == {t \in S : PathWeights(S, w)[t] # g[t]}
<1>15. ASSUME D # {} PROVE FALSE
  <2>2. PICK t \in D : \A c \in D : <<c, t>> \notin R
    <3>1. D \subseteq S
      OBVIOUS
    <3> HIDE DEF D
    <3>2. QED
      BY <1>3, <1>15, <3>1, WFMin
  <2>3. \A c \in Followers(S, t) : PathWeights(S, w)[c] = g[c]
    BY <1>4, <2>2
  <2>4. {PathWeights(S, w)[c] : c \in Followers(S, t)} = {g[c] : c \in Followers(S, t)}
    BY <2>3
  <2>5. Weight(t, PathWeights(S, w)) = Weight(t, g)
    BY <2>4, Zenon
  <2> HIDE DEF Weight
  <2>6. QED
    BY <1>11, <1>14, <2>2, <2>5
<1>16. \A t \in S : PathWeights(S, w)[t] = g[t]
  BY <1>15
<1>17. PathWeights(S, w) \in [S -> Nat]
  <2>1. PathWeights(S, w) = [t \in S |-> PathWeights(S, w)[t]]
    <3> HIDE DEF Weight
    <3> QED BY <1>13
  <2>2. QED
    BY <1>11, <1>16, <2>1
<1>18. QED
  BY <1>14, <1>17

\* A transaction weighs at least itself with any one that follows it, and
\* exactly that with one of them, if it is not alone.
LEMMA PathBounds ==
  ASSUME approval \in Scenarios, NEW S \in SUBSET Txs, NEW w \in [Txs -> Nat], NEW t \in S
  PROVE  /\ PathWeights(S, w)[t] \in Nat
         /\ PathWeights(S, w)[t] >= w[t]
         /\ \A c \in Followers(S, t) : PathWeights(S, w)[t] >= w[t] + PathWeights(S, w)[c]
         /\ \/ PathWeights(S, w)[t] = w[t]
            \/ \E c \in Followers(S, t) : PathWeights(S, w)[t] = w[t] + PathWeights(S, w)[c]
<1> DEFINE path == PathWeights(S, w)
           I == {path[c] : c \in Followers(S, t)}
           M == {0} \cup I
<1>1. path \in [S -> Nat] /\ path[t] = w[t] + Max(M)
  BY PathEquation
<1> HIDE DEF path
<1>2. IsFiniteSet(M)
  <2>1. IsFiniteSet(Followers(S, t))
    <3>1. Followers(S, t) \in SUBSET Txs
      BY DEF Followers
    <3>2. QED
      BY <3>1, LedgerAssumption, FS_Subset
  <2>2. IsFiniteSet(I)
    BY <2>1, ImageFinite
  <2>3. IsFiniteSet({0})
    BY FS_Singleton
  <2> HIDE DEF I
  <2>4. QED
    BY <2>2, <2>3, FS_Union
<1>3. M # {} /\ \A x \in M : x \in Nat
  BY <1>1 DEF Followers
<1>4. Max(M) \in M /\ \A x \in M : Max(M) >= x
  <2> HIDE DEF M
  <2> QED BY <1>2, <1>3, MaxExists
<1> DEFINE m == Max(M)
<1>5. m \in Nat /\ m \in M /\ \A x \in M : m >= x
  BY <1>3, <1>4
<1>6. path[t] = w[t] + m /\ w[t] \in Nat
  BY <1>1
<1> HIDE DEF m
<1>7. m >= 0 /\ \A c \in Followers(S, t) : m >= path[c] /\ path[c] \in Nat
  BY <1>1, <1>5 DEF Followers
<1>8. m = 0 \/ \E c \in Followers(S, t) : m = path[c]
  BY <1>5
<1> HIDE DEF M, I
<1>9. path[t] \in Nat /\ path[t] >= w[t]
  BY <1>5, <1>6
<1>10. \A c \in Followers(S, t) : path[t] >= w[t] + path[c]
  BY <1>5, <1>6, <1>7
<1>11. path[t] = w[t] \/ \E c \in Followers(S, t) : path[t] = w[t] + path[c]
  BY <1>5, <1>6, <1>8
<1>12. QED
  BY <1>9, <1>10, <1>11 DEF path

\* The best start at each root, and what the roots are.
Best(S, w) == [r \in Roots(S) |-> Max({PathWeights(S, w)[t] : t \in Starts(S, r)})]

LEMMA RootFacts ==
  ASSUME approval \in Scenarios, NEW S \in SUBSET Txs, NEW w \in [Txs -> Nat]
  PROVE  /\ IsFiniteSet(S)
         /\ IsFiniteSet(Roots(S))
         /\ Heaviest(S, w) = SumFunctionOnSet(Best(S, w), Roots(S))
         /\ \A r \in Roots(S) :
              /\ Best(S, w)[r] \in Nat
              /\ \A t \in Starts(S, r) : PathWeights(S, w)[t] <= Best(S, w)[r]
              /\ \E t \in Starts(S, r) : PathWeights(S, w)[t] = Best(S, w)[r]
<1>1. IsFiniteSet(S)
  BY LedgerAssumption, FS_Subset
<1>2. IsFiniteSet(Roots(S))
  <2> DEFINE f == [t \in S |-> approval[t].pool]
  <2>1. IsFiniteSet({f[t] : t \in S})
    <3> HIDE DEF f
    <3> QED BY <1>1, ImageFinite
  <2>2. Roots(S) \in SUBSET {f[t] : t \in S}
    BY DEF Roots
  <2> HIDE DEF f
  <2>3. QED
    BY <2>1, <2>2, FS_Subset
<1>3. Heaviest(S, w) = SumFunctionOnSet(Best(S, w), Roots(S))
  BY DEF Heaviest, Best, SumFunction
<1>4. ASSUME NEW r \in Roots(S)
      PROVE  /\ Best(S, w)[r] \in Nat
             /\ \A t \in Starts(S, r) : PathWeights(S, w)[t] <= Best(S, w)[r]
             /\ \E t \in Starts(S, r) : PathWeights(S, w)[t] = Best(S, w)[r]
  <2> DEFINE path == PathWeights(S, w)
             I == {path[t] : t \in Starts(S, r)}
  <2>1. path \in [S -> Nat]
    BY PathEquation
  <2>2. Best(S, w)[r] = Max(I)
    BY DEF Best
  <2> HIDE DEF path
  <2>3. IsFiniteSet(I)
    <3>1. IsFiniteSet(Starts(S, r))
      BY <1>1, FS_Subset DEF Starts
    <3>2. QED
      BY <3>1, ImageFinite
  <2>4. I # {} /\ \A x \in I : x \in Nat
    BY <2>1 DEF Roots, Starts
  <2>5. Max(I) \in I /\ \A x \in I : Max(I) >= x
    <3> HIDE DEF I
    <3> QED BY <2>3, <2>4, MaxExists
  <2> DEFINE m == Max(I)
  <2>6. m \in I /\ m \in Nat /\ \A x \in I : m >= x
    BY <2>4, <2>5
  <2>7. Best(S, w)[r] = m
    BY <2>2
  <2> HIDE DEF m
  <2>8. \A t \in Starts(S, r) : path[t] <= m
    BY <2>1, <2>4, <2>6
  <2>9. \E t \in Starts(S, r) : path[t] = m
    BY <2>6
  <2>10. QED
    BY <2>6, <2>7, <2>8, <2>9 DEF path
<1>5. QED
  BY <1>1, <1>2, <1>3, <1>4

-----------------------------------------------------------------------------
(* Nothing that lands together weighs more                                 *)

DistinctPools(L) == \A a, b \in L : a # b => approval[a].pool # approval[b].pool

\* Those of L that build on no other of L.
Tops(L) == {t \in L : Producer(L, approval[t].pool) = {}}

\* The transactions of L weigh no more than the paths that start at its tops.
\* The oldest of a smallest counterexample is a top, and in its place comes
\* the one that follows it, if any does.
LEMMA TopsCover ==
  ASSUME approval \in Scenarios, NEW S \in SUBSET Txs, NEW w \in [Txs -> Nat],
         NEW L \in SUBSET S, DistinctPools(L)
  PROVE  Total(L, w) <= SumFunctionOnSet(PathWeights(S, w), Tops(L))
<1> DEFINE path == PathWeights(S, w)
           Covered(K) == SumFunctionOnSet(w, K) <= SumFunctionOnSet(path, Tops(K))
           D == {K \in SUBSET L : ~ Covered(K)}
<1>1. path \in [S -> Nat]
  BY PathEquation
<1>2. \A K \in SUBSET L : IsFiniteSet(K) /\ Tops(K) \in SUBSET K
  <2>1. IsFiniteSet(S)
    BY RootFacts
  <2>2. \A K \in SUBSET L : IsFiniteSet(K)
    BY <2>1, FS_Subset
  <2>3. QED
    BY <2>2 DEF Tops
<1>3. ASSUME D # {} PROVE FALSE
  <2>1. PICK K \in D : \A J \in D : J \subseteq K => J = K
    <3>1. D \in SUBSET SUBSET L
      OBVIOUS
    <3>2. IsFiniteSet(L)
      BY <1>2
    <3> HIDE DEF D
    <3>3. QED
      BY <1>3, <3>1, <3>2, SmallestSet
  <2>2. K \in SUBSET L /\ ~ Covered(K)
    OBVIOUS
  <2>3. \A J \in SUBSET K : J # K => Covered(J)
    BY <2>1
  <2> HIDE DEF D
  <2> HIDE DEF path
  <2>4. IsFiniteSet(K) /\ K \in SUBSET Txs /\ K \in SUBSET S
    BY <1>2, <2>2
  <2>5. K # {}
    <3>1. Tops({}) = {}
      BY DEF Tops
    <3>2. SumFunctionOnSet(path, Tops({})) = SumFunctionOnSet(path, {})
      BY <3>1, Zenon
    <3>3. SumFunctionOnSet(w, {}) = 0 /\ SumFunctionOnSet(path, {}) = 0
      BY FS_EmptySet, SumUnfold
    <3>4. Covered({})
      BY <3>2, <3>3
    <3> HIDE DEF Covered
    <3>5. QED
      BY <2>2, <3>4
  <2>6. PICK t \in K : \A x \in K : Age[t] <= Age[x]
    <3>1. \A x \in K : Age[x] \in Nat
      BY <2>4, ApprovalFacts
    <3>2. QED
      BY <2>5, <3>1, LeastRank
  <2> DEFINE J == K \ {t}
             C == {c \in J : approval[c].pool \in Made(t)}
  <2>7. t \in Tops(K)
    <3>1. ASSUME NEW p \in K, approval[t].pool \in Made(p) PROVE FALSE
      <4>1. Age[p] < Age[t]
        BY <2>4, <3>1, OneProducer
      <4>2. Age[p] \in Nat /\ Age[t] \in Nat /\ Age[t] <= Age[p]
        BY <2>4, <2>6, ApprovalFacts
      <4>3. QED
        BY <4>1, <4>2
    <3>2. QED
      BY <3>1 DEF Tops, Producer
  <2>8. Tops(J) = (Tops(K) \ {t}) \cup C /\ (Tops(K) \ {t}) \cap C = {}
    <3>1. ASSUME NEW x \in J
          PROVE  Producer(J, approval[x].pool) = {} <=>
                   (Producer(K, approval[x].pool) = {} \/ approval[x].pool \in Made(t))
      <4>1. \A p \in K : approval[x].pool \in Made(t) /\ approval[x].pool \in Made(p) => p = t
        BY <2>4, OneProducer
      <4>2. QED
        BY <4>1 DEF Producer
    <3>2. ASSUME NEW x \in C PROVE Producer(K, approval[x].pool) # {}
      BY DEF Producer
    <3>3. QED
      BY <3>1, <3>2 DEF Tops
  <2>9. \A c, d \in C : c = d
    <3> SUFFICES ASSUME NEW c \in C, NEW d \in C PROVE c = d
      OBVIOUS
    <3>1. approval[c].pool = approval[d].pool
      BY <2>4, OneProducer
    <3>2. QED
      BY <2>2, <3>1 DEF DistinctPools
  <2> DEFINE Rest == Tops(K) \ {t}
             sumRest == SumFunctionOnSet(path, Rest)
             sumC == SumFunctionOnSet(path, C)
  <2>10. /\ IsFiniteSet(Rest) /\ Rest \in SUBSET S
         /\ IsFiniteSet(C) /\ C \in SUBSET S
         /\ IsFiniteSet(Tops(K)) /\ Tops(K) \in SUBSET S
    <3>1. Rest \in SUBSET K /\ C \in SUBSET K /\ Tops(K) \in SUBSET K
      BY <1>2, <2>2
    <3> HIDE DEF Rest, C
    <3>2. QED
      BY <2>4, <3>1, FS_Subset
  <2>11. SumFunctionOnSet(path, Tops(J)) = sumRest + sumC
    <3>1. SumFunctionOnSet(path, Tops(J)) = SumFunctionOnSet(path, Rest \cup C)
      <4> HIDE DEF J, C
      <4> QED BY <2>8, Zenon
    <3>2. Rest \cap C = {} /\ \A x \in Rest \cup C : path[x] \in Int
      BY <1>1, <2>8, <2>10
    <3> HIDE DEF Rest, C, J
    <3>3. QED
      BY <2>10, <3>1, <3>2, SumUnion
  <2>12. SumFunctionOnSet(path, Tops(K)) = path[t] + sumRest
    <3>1. \A x \in Tops(K) : path[x] \in Int
      BY <1>1, <2>10
    <3>2. QED
      BY <2>7, <2>10, <3>1, SumRemove
  <2>13. w[t] + sumC <= path[t]
    <3>1. CASE C = {}
      <4>1. SumFunctionOnSet(path, {}) = 0
        BY FS_EmptySet, SumUnfold
      <4>2. sumC = SumFunctionOnSet(path, {})
        <5> HIDE DEF C
        <5> QED BY <3>1, Zenon
      <4>3. path[t] >= w[t] /\ path[t] \in Nat /\ w[t] \in Nat
        <5>1. path[t] >= w[t]
          BY <2>4, PathBounds DEF path
        <5>2. QED
          BY <1>1, <2>4, <5>1
      <4> HIDE DEF sumC
      <4>4. QED
        BY <4>1, <4>2, <4>3
    <3>2. CASE C # {}
      <4>1. PICK c \in C : TRUE
        BY <3>2
      <4>2. C = {c}
        BY <2>9
      <4>3. c \in Followers(S, t)
        BY <2>4 DEF Followers
      <4>4. path[t] >= w[t] + path[c] /\ path[c] \in Nat /\ path[t] \in Nat /\ w[t] \in Nat
        <5>1. path[t] >= w[t] + path[c]
          BY <2>4, <4>3, PathBounds DEF path
        <5>2. QED
          BY <1>1, <2>4, <4>3, <5>1 DEF Followers
      <4>5. sumC = path[c]
        <5>1. sumC = path[c] + SumFunctionOnSet(path, C \ {c})
          <6>1. \A x \in C : path[x] \in Int
            BY <1>1, <2>10
          <6> HIDE DEF C
          <6>2. QED
            BY <2>10, <6>1, SumRemove
        <5>2. C \ {c} = {}
          BY <4>2
        <5>3. SumFunctionOnSet(path, C \ {c}) = SumFunctionOnSet(path, {})
          <6> HIDE DEF C
          <6> QED BY <5>2, Zenon
        <5>4. SumFunctionOnSet(path, {}) = 0
          BY FS_EmptySet, SumUnfold
        <5> HIDE DEF sumC, C
        <5>5. QED
          BY <4>4, <5>1, <5>3, <5>4
      <4> HIDE DEF sumC
      <4>6. QED
        BY <4>4, <4>5
    <3>3. QED
      BY <3>1, <3>2
  <2>14. SumFunctionOnSet(w, K) = w[t] + SumFunctionOnSet(w, J)
    <3>1. \A x \in K : w[x] \in Int
      BY <2>4
    <3>2. QED
      BY <2>4, <3>1, SumRemove
  <2>15. SumFunctionOnSet(w, J) <= SumFunctionOnSet(path, Tops(J))
    BY <2>3
  <2>16. ~ (SumFunctionOnSet(w, K) <= SumFunctionOnSet(path, Tops(K)))
    BY <2>2
  <2>17. sumRest \in Int /\ sumC \in Int /\ path[t] \in Int /\ w[t] \in Int
         /\ SumFunctionOnSet(w, J) \in Int
    <3>1. IsFiniteSet(J) /\ J \in SUBSET Txs
      BY <2>4, FS_RemoveElement
    <3>2. \A x \in J : w[x] \in Int
      BY <3>1
    <3>3. (\A x \in Rest : path[x] \in Int) /\ (\A x \in C : path[x] \in Int)
      BY <1>1, <2>10
    <3>4. path[t] \in Int /\ w[t] \in Int
      BY <1>1, <2>4
    <3> HIDE DEF Rest, C, J
    <3>5. QED
      BY <2>10, <3>1, <3>2, <3>3, <3>4, SumUnfold
  <2> HIDE DEF sumRest, sumC, J, C, Rest
  <2>18. QED
    BY <2>11, <2>12, <2>13, <2>14, <2>15, <2>16, <2>17
<1>4. Covered(L)
  BY <1>3
<1>5. QED
  BY <1>4 DEF Total

\* No set of pool paths weighs more than the count of the ledger.
LEMMA HeaviestCovers ==
  ASSUME approval \in Scenarios, NEW S \in SUBSET Txs, NEW w \in [Txs -> Nat],
         NEW L \in PoolPaths(S)
  PROVE  Total(L, w) <= Heaviest(S, w)
<1> DEFINE path == PathWeights(S, w)
           best == Best(S, w)
           pool == [t \in Txs |-> approval[t].pool]
           T == Tops(L)
<1>1. L \in SUBSET S /\ DistinctPools(L)
  BY DEF PoolPaths, DistinctPools
<1>2. Total(L, w) <= SumFunctionOnSet(path, T)
  BY <1>1, TopsCover
<1>3. IsFiniteSet(S) /\ IsFiniteSet(Roots(S)) /\ \A r \in Roots(S) : best[r] \in Nat
  BY RootFacts
<1>4. T \in SUBSET S /\ IsFiniteSet(T) /\ IsFiniteSet(L)
  <2>1. T \in SUBSET S
    BY <1>1 DEF Tops
  <2> HIDE DEF T
  <2>2. QED
    BY <1>1, <1>3, <2>1, FS_Subset
<1>5. ASSUME NEW t \in T
      PROVE  pool[t] \in Roots(S) /\ path[t] \in Nat /\ path[t] <= best[pool[t]]
  <2>1. t \in L /\ t \in S /\ t \in Txs /\ Producer(L, approval[t].pool) = {}
    BY <1>1 DEF Tops
  <2>2. Producer(S, approval[t].pool) = {}
    BY <2>1 DEF PoolPaths, Producer
  <2>3. pool[t] \in Roots(S) /\ t \in Starts(S, pool[t])
    BY <2>1, <2>2 DEF Roots, Starts
  <2> HIDE DEF T, pool
  <2>4. path[t] \in Nat
    BY <2>1, PathBounds
  <2>5. path[t] <= best[pool[t]]
    BY <2>3, RootFacts
  <2>6. QED
    BY <2>3, <2>4, <2>5
<1>6. \A a, b \in T : pool[a] = pool[b] => a = b
  BY <1>1, <1>4 DEF Tops, DistinctPools
<1> HIDE DEF path, best, pool, T
<1>7. SumFunctionOnSet(path, T) <= SumFunctionOnSet(best, Roots(S))
  BY <1>3, <1>4, <1>5, <1>6, SumInjection
<1>8. Heaviest(S, w) = SumFunctionOnSet(best, Roots(S))
  BY RootFacts DEF best
<1>9. Total(L, w) \in Int
  <2>1. \A x \in L : w[x] \in Int
    BY <1>1
  <2>2. QED
    BY <1>4, <2>1, SumUnfold DEF Total
<1>10. SumFunctionOnSet(path, T) \in Int
  <2>1. \A x \in T : path[x] \in Int
    BY <1>5
  <2>2. QED
    BY <1>4, <2>1, SumUnfold
<1>11. SumFunctionOnSet(best, Roots(S)) \in Int
  <2>1. \A r \in Roots(S) : best[r] \in Int
    BY <1>3
  <2>2. QED
    BY <1>3, <2>1, SumUnfold
<1>12. QED
  BY <1>2, <1>7, <1>8, <1>9, <1>10, <1>11

\* A sum over recorded transactions is a number.
LEMMA TotalNat ==
  ASSUME NEW L \in SUBSET Txs, NEW w \in [Txs -> Nat]
  PROVE  IsFiniteSet(L) /\ Total(L, w) \in Nat
<1>1. IsFiniteSet(L) /\ \A x \in L : w[x] \in Nat
  BY LedgerAssumption, FS_Subset
<1>2. QED
  BY <1>1, SumNat DEF Total

-----------------------------------------------------------------------------
(* and some set weighs as much                                             *)

\* A chain of S that starts with t: all others in it build on it.
ChainOf(S, t, K) ==
  /\ t \in K /\ K \in SUBSET S
  /\ DistinctPools(K)
  /\ \A x \in K : Age[t] <= Age[x]
  /\ \A x \in K : x # t => \E p \in K : approval[x].pool \in Made(p)

\* Some chain weighs what the path below t does: of the transactions without
\* one, take the youngest; the follower that decides its weight has one.
LEMMA ChainWeighs ==
  ASSUME approval \in Scenarios, NEW S \in SUBSET Txs, NEW w \in [Txs -> Nat]
  PROVE  \A t \in S : \E K : ChainOf(S, t, K) /\ Total(K, w) = PathWeights(S, w)[t]
<1> DEFINE path == PathWeights(S, w)
           Weighed(t) == \E K : ChainOf(S, t, K) /\ Total(K, w) = path[t]
           D == {t \in S : ~ Weighed(t)}
<1>1. ASSUME D # {} PROVE FALSE
  <2>1. IsFiniteSet(D) /\ \A x \in D : Age[x] \in Nat
    <3>1. D \in SUBSET Txs
      OBVIOUS
    <3> HIDE DEF D
    <3>2. QED
      BY <3>1, LedgerAssumption, FS_Subset
  <2>2. PICK t \in D : \A y \in D : Age[y] <= Age[t]
    <3> HIDE DEF D
    <3> QED BY <1>1, <2>1, GreatestRank
  <2>3. t \in S /\ t \in Txs /\ ~ Weighed(t)
    OBVIOUS
  <2>4. \A y \in S : Age[y] > Age[t] => Weighed(y)
    <3>1. \A y \in S : Age[y] \in Nat
      BY ApprovalFacts
    <3>2. QED
      BY <2>2, <2>3, <3>1
  <2> HIDE DEF D, path
  <2>5. w[t] \in Nat /\ Age[t] \in Nat
    BY <2>3, ApprovalFacts
  <2>6. CASE path[t] = w[t]
    <3>1. ChainOf(S, t, {t})
      BY <2>3, <2>5 DEF ChainOf, DistinctPools
    <3>2. Total({t}, w) = w[t]
      <4>1. SumFunctionOnSet(w, {}) = 0
        BY FS_EmptySet, SumUnfold
      <4>2. SumFunctionOnSet(w, {t}) = w[t] + SumFunctionOnSet(w, {t} \ {t})
        <5>1. IsFiniteSet({t})
          BY FS_Singleton
        <5>2. \A x \in {t} : w[x] \in Int
          BY <2>5
        <5>3. t \in {t}
          OBVIOUS
        <5>4. QED
          BY <5>1, <5>2, <5>3, SumRemove
      <4>3. {t} \ {t} = {}
        OBVIOUS
      <4>4. SumFunctionOnSet(w, {t} \ {t}) = SumFunctionOnSet(w, {})
        BY <4>3, Zenon
      <4>5. QED
        BY <2>5, <4>1, <4>2, <4>4 DEF Total
    <3>3. QED
      BY <2>3, <2>6, <3>1, <3>2
  <2>7. CASE path[t] # w[t]
    <3>1. PICK c \in Followers(S, t) : path[t] = w[t] + path[c]
      BY <2>3, <2>7, PathBounds DEF path
    <3>2. c \in S /\ c \in Txs /\ approval[c].pool \in Made(t)
      BY DEF Followers
    <3>3. Age[t] < Age[c] /\ Age[c] \in Nat
      BY <2>3, <3>2, OneProducer, ApprovalFacts
    <3>4. PICK K : ChainOf(S, c, K) /\ Total(K, w) = path[c]
      BY <2>4, <2>5, <3>2, <3>3
    <3> DEFINE J == K \cup {t}
    <3>5. K \in SUBSET S /\ K \in SUBSET Txs /\ c \in K
      BY <3>4 DEF ChainOf
    <3>6. \A x \in K : Age[t] < Age[x] /\ Age[x] \in Nat
      <4>1. \A x \in K : Age[x] \in Nat /\ Age[c] <= Age[x]
        BY <3>4, <3>5, ApprovalFacts DEF ChainOf
      <4>2. QED
        BY <2>5, <3>3, <4>1
    <3>7. t \notin K
      BY <2>5, <3>6
    <3>8. \A x \in K : \E p \in J : approval[x].pool \in Made(p)
      BY <3>2, <3>4 DEF ChainOf
    <3>9. \A x \in K : approval[x].pool # approval[t].pool
      <4> SUFFICES ASSUME NEW x \in K, approval[x].pool = approval[t].pool PROVE FALSE
        OBVIOUS
      <4>1. PICK p \in J : approval[t].pool \in Made(p)
        BY <3>8
      <4>2. p \in Txs /\ Age[p] \in Nat /\ Age[t] <= Age[p]
        BY <2>3, <2>5, <3>5, <3>6
      <4>3. Age[p] < Age[t]
        BY <2>3, <4>1, <4>2, OneProducer
      <4>4. QED
        BY <2>5, <4>2, <4>3
    <3>10. DistinctPools(J)
      BY <3>4, <3>9 DEF ChainOf, DistinctPools
    <3>11. ChainOf(S, t, J)
      <4>1. \A x \in J : Age[t] <= Age[x]
        BY <2>5, <3>6
      <4>2. QED
        BY <2>3, <3>5, <3>8, <3>10, <4>1 DEF ChainOf
    <3>12. Total(J, w) = w[t] + path[c]
      <4>1. IsFiniteSet(K)
        BY <3>5, TotalNat
      <4>2. \A x \in K \cup {t} : w[x] \in Int
        BY <2>3, <3>5
      <4>3. SumFunctionOnSet(w, K \cup {t}) = w[t] + SumFunctionOnSet(w, K)
        BY <3>7, <4>1, <4>2, SumAdd
      <4>4. QED
        BY <3>4, <4>3 DEF Total
    <3> HIDE DEF J
    <3>13. QED
      BY <2>3, <3>1, <3>11, <3>12
  <2>8. QED
    BY <2>6, <2>7
<1>2. QED
  BY <1>1

\* Nothing of L is spent by a chain that starts at a root L does not have:
\* the first transaction of the chain to meet L would need the one before it.
LEMMA ChainApart ==
  ASSUME approval \in Scenarios, NEW S \in SUBSET Txs, NEW L \in PoolPaths(S),
         NEW t \in S, NEW K, ChainOf(S, t, K),
         \A y \in L : approval[y].pool # approval[t].pool
  PROVE  \A x \in K, y \in L : approval[x].pool # approval[y].pool
<1> DEFINE D == {x \in K : \E y \in L : approval[x].pool = approval[y].pool}
<1>1. K \in SUBSET S /\ K \in SUBSET Txs /\ L \in SUBSET S
  BY DEF ChainOf, PoolPaths
<1>2. ASSUME D # {} PROVE FALSE
  <2>1. \A x \in D : Age[x] \in Nat
    BY <1>1, ApprovalFacts
  <2>2. PICK x \in D : \A y \in D : Age[x] <= Age[y]
    <3> HIDE DEF D
    <3> QED BY <1>2, <2>1, LeastRank
  <2>3. PICK y \in L : approval[x].pool = approval[y].pool
    OBVIOUS
  <2>4. x \in K /\ x # t
    BY <2>3
  <2>5. PICK p \in K : approval[x].pool \in Made(p)
    BY <2>4 DEF ChainOf
  <2>6. p \in L
    BY <1>1, <2>3, <2>5 DEF PoolPaths
  <2>7. p \in D
    BY <2>6
  <2>8. Age[p] < Age[x] /\ Age[x] <= Age[p] /\ Age[p] \in Nat /\ Age[x] \in Nat
    BY <1>1, <2>1, <2>2, <2>4, <2>5, <2>7, OneProducer
  <2>9. QED
    BY <2>8
<1>3. QED
  BY <1>2

\* Chains below some of the roots together are a set of pool paths that weighs
\* what is counted for them.  A smallest set of roots without one has a root,
\* and its best chain can be added to the paths of the others.
LEMMA RootsWeigh ==
  ASSUME approval \in Scenarios, NEW S \in SUBSET Txs, NEW w \in [Txs -> Nat]
  PROVE  \E L \in PoolPaths(S) : Total(L, w) = Heaviest(S, w)
<1> DEFINE best == Best(S, w)
           Below(L, Q) == \A x \in L : Producer(S, approval[x].pool) = {} => approval[x].pool \in Q
           Weighed(Q) == \E L \in PoolPaths(S) :
                           Below(L, Q) /\ Total(L, w) = SumFunctionOnSet(best, Q)
           D == {Q \in SUBSET Roots(S) : ~ Weighed(Q)}
<1>1. IsFiniteSet(Roots(S)) /\ \A r \in Roots(S) : best[r] \in Nat
  BY RootFacts
<1>2. ASSUME D # {} PROVE FALSE
  <2>1. PICK Q \in D : \A U \in D : U \subseteq Q => U = Q
    <3>1. D \in SUBSET SUBSET Roots(S)
      OBVIOUS
    <3> HIDE DEF D
    <3>2. QED
      BY <1>1, <1>2, <3>1, SmallestSet
  <2>2. Q \in SUBSET Roots(S) /\ ~ Weighed(Q)
    OBVIOUS
  <2>3. \A U \in SUBSET Q : U # Q => Weighed(U)
    BY <2>1
  <2> HIDE DEF D
  <2>4. Q # {}
    <3>1. {} \in PoolPaths(S) /\ Below({}, {})
      BY DEF PoolPaths
    <3>2. Total({}, w) = 0 /\ SumFunctionOnSet(best, {}) = 0
      BY FS_EmptySet, SumUnfold DEF Total
    <3>3. Weighed({})
      <4> HIDE DEF Below, best
      <4> QED BY <3>1, <3>2
    <3> HIDE DEF Weighed
    <3>4. QED
      BY <2>2, <3>3
  <2>5. PICK r \in Q : TRUE
    BY <2>4
  <2> DEFINE U == Q \ {r}
  <2>6. PICK L \in PoolPaths(S) : Below(L, U) /\ Total(L, w) = SumFunctionOnSet(best, U)
    <3>1. Weighed(U)
      BY <2>3, <2>5
    <3> HIDE DEF U, Below, best
    <3>2. QED
      BY <3>1
  <2>7. r \in Roots(S) /\ Producer(S, r) = {}
    BY <2>2, <2>5 DEF Roots
  <2>8. PICK t \in Starts(S, r) : PathWeights(S, w)[t] = best[r]
    BY <2>7, RootFacts
  <2>9. t \in S /\ approval[t].pool = r
    BY DEF Starts
  <2>10. PICK K : ChainOf(S, t, K) /\ Total(K, w) = PathWeights(S, w)[t]
    BY <2>9, ChainWeighs
  <2>11. K \in SUBSET S /\ L \in SUBSET S /\ DistinctPools(K) /\ DistinctPools(L)
    BY <2>10 DEF ChainOf, PoolPaths, DistinctPools
  <2>12. \A x \in K : x # t => \E p \in K : approval[x].pool \in Made(p)
    BY <2>10 DEF ChainOf
  <2>13. \A x \in K, y \in L : approval[x].pool # approval[y].pool
    <3>1. \A y \in L : approval[y].pool # approval[t].pool
      BY <2>6, <2>7, <2>9
    <3>2. QED
      BY <2>9, <2>10, <3>1, ChainApart
  <2> DEFINE J == L \cup K
  <2>14. J \in PoolPaths(S)
    <3>1. \A a, b \in J : a # b => approval[a].pool # approval[b].pool
      BY <2>11, <2>13 DEF DistinctPools
    <3>2. ASSUME NEW x \in J, NEW p \in S, approval[x].pool \in Made(p) PROVE p \in J
      <4>1. CASE x \in L
        BY <3>2, <4>1 DEF PoolPaths
      <4>2. CASE x = t
        BY <2>7, <2>9, <3>2, <4>2 DEF Producer
      <4>3. CASE x \in K /\ x # t
        <5>1. PICK q \in K : approval[x].pool \in Made(q)
          BY <2>12, <4>3
        <5>2. p = q
          BY <2>11, <3>2, <4>3, <5>1, OneProducer
        <5>3. QED
          BY <5>2
      <4>4. QED
        BY <3>2, <4>1, <4>2, <4>3
    <3>3. QED
      BY <2>11, <3>1, <3>2 DEF PoolPaths
  <2>15. Below(J, Q)
    <3>1. \A x \in L : Producer(S, approval[x].pool) = {} => approval[x].pool \in Q
      BY <2>6
    <3>2. \A x \in K : Producer(S, approval[x].pool) = {} => x = t
      BY <2>11, <2>12 DEF Producer
    <3>3. QED
      BY <2>5, <2>9, <3>1, <3>2
  <2>16. Total(J, w) = Total(L, w) + Total(K, w)
    <3>1. IsFiniteSet(L) /\ IsFiniteSet(K)
      BY <2>11, TotalNat
    <3>2. L \cap K = {} /\ \A x \in L \cup K : w[x] \in Int
      BY <2>11, <2>13
    <3>3. QED
      BY <3>1, <3>2, SumUnion DEF Total
  <2>17. SumFunctionOnSet(best, Q) = best[r] + SumFunctionOnSet(best, U)
    <3>1. IsFiniteSet(Q) /\ \A x \in Q : best[x] \in Int
      BY <1>1, <2>2, FS_Subset
    <3> HIDE DEF best
    <3>2. QED
      BY <2>5, <3>1, SumRemove
  <2>18. SumFunctionOnSet(best, U) \in Nat /\ best[r] \in Nat
    <3>1. IsFiniteSet(U) /\ \A x \in U : best[x] \in Nat
      BY <1>1, <2>2, FS_Subset
    <3> HIDE DEF best, U
    <3>2. QED
      BY <1>1, <2>7, <3>1, SumNat
  <2>19. Total(J, w) = SumFunctionOnSet(best, Q)
    <3> HIDE DEF best, J, U, Below
    <3> QED BY <2>6, <2>8, <2>10, <2>16, <2>17, <2>18
  <2> HIDE DEF J, Below, best
  <2>20. QED
    BY <2>2, <2>14, <2>15, <2>19
<1>3. Weighed(Roots(S))
  BY <1>2
<1>4. QED
  BY <1>3, RootFacts

\* The count of the ledger is the most that a set of pool paths weighs.
LEMMA HeaviestExact ==
  ASSUME approval \in Scenarios, NEW S \in SUBSET Txs, NEW w \in [Txs -> Nat]
  PROVE  Heaviest(S, w) = Overall(S, w)
<1> DEFINE total == [L \in PoolPaths(S) |-> Total(L, w)]
           T == {total[L] : L \in PoolPaths(S)}
<1>1. IsFiniteSet(PoolPaths(S))
  <2>1. IsFiniteSet(S)
    BY RootFacts
  <2>2. IsFiniteSet(SUBSET S)
    BY <2>1, FS_SUBSET
  <2>3. PoolPaths(S) \in SUBSET SUBSET S
    BY DEF PoolPaths
  <2>4. QED
    BY <2>2, <2>3, FS_Subset
<1>2. \A L \in PoolPaths(S) : total[L] = Total(L, w) /\ total[L] \in Nat /\ total[L] <= Heaviest(S, w)
  <2> SUFFICES ASSUME NEW L \in PoolPaths(S)
               PROVE  Total(L, w) \in Nat /\ Total(L, w) <= Heaviest(S, w)
    OBVIOUS
  <2>1. L \in SUBSET Txs
    BY DEF PoolPaths
  <2>2. QED
    BY <2>1, TotalNat, HeaviestCovers
<1>3. PICK best \in PoolPaths(S) : Total(best, w) = Heaviest(S, w)
  BY RootsWeigh
<1>4. Overall(S, w) = Max(T)
  BY DEF Overall
<1> HIDE DEF total
<1>5. IsFiniteSet(T)
  BY <1>1, ImageFinite
<1>6. Heaviest(S, w) \in T /\ \A x \in T : x \in Int /\ x <= Heaviest(S, w)
  BY <1>2, <1>3
<1>7. Max(T) \in T /\ \A y \in T : Max(T) >= y
  <2> HIDE DEF T
  <2> QED BY <1>5, <1>6, MaxExists
<1> DEFINE m == Max(T)
           h == Heaviest(S, w)
<1>8. m \in Int /\ h \in Int /\ m <= h /\ m >= h
  BY <1>6, <1>7
<1> HIDE DEF m, h
<1>9. m = h
  BY <1>8
<1>10. QED
  BY <1>4, <1>9 DEF m, h

-----------------------------------------------------------------------------
(* The limits                                                              *)

\* What the ledger weighs with is natural numbers.
LEMMA WeightTypes ==
  ASSUME approval \in Scenarios
  PROVE  /\ Pays \in [Txs -> Nat]
         /\ \A u \in Units : Redeems(u) \in [Txs -> Nat]
BY ApprovalFacts DEF Pays, Redeems

\* Transactions that spend no output twice spend no pool output twice, and
\* those they need cover those they chain to.
LEMMA LandingPaths ==
  ASSUME approval \in Scenarios, NEW S \in SUBSET Txs, NEW L \in CoLandable(S)
  PROVE  L \in PoolPaths(S)
<1>1. L \in SUBSET S
  BY DEF CoLandable
<1>2. ASSUME NEW a \in L, NEW b \in L, a # b PROVE approval[a].pool # approval[b].pool
  <2>1. approval[a].spends \cap approval[b].spends = {}
    BY <1>2 DEF CoLandable
  <2>2. approval[a].pool \in approval[a].spends /\ approval[b].pool \in approval[b].spends
    BY <1>1, ApprovalFacts
  <2>3. QED
    BY <2>1, <2>2
<1>3. ASSUME NEW x \in L, NEW p \in S, approval[x].pool \in Made(p) PROVE p \in L
  <2>1. approval[x].pool \in approval[x].inputs
    BY <1>1, ApprovalFacts
  <2>2. approval[x].inputs \cap Made(p) # {}
    BY <1>3, <2>1
  <2>3. QED
    BY <2>2 DEF CoLandable
<1>4. QED
  BY <1>1, <1>2, <1>3 DEF PoolPaths

\* Rows that are left out take nothing from what the others chain to.
LEMMA PathsWithin ==
  ASSUME NEW S, NEW R \in SUBSET S, NEW L \in PoolPaths(S)
  PROVE  L \cap R \in PoolPaths(R)
BY DEF PoolPaths

\* What the ledger counts is a number too.
LEMMA HeaviestNat ==
  ASSUME approval \in Scenarios, NEW S \in SUBSET Txs, NEW w \in [Txs -> Nat]
  PROVE  Heaviest(S, w) \in Nat
<1> DEFINE best == Best(S, w)
<1>1. IsFiniteSet(Roots(S)) /\ \A r \in Roots(S) : best[r] \in Nat
  BY RootFacts
<1>2. Heaviest(S, w) = SumFunctionOnSet(best, Roots(S))
  BY RootFacts
<1> HIDE DEF best
<1>3. QED
  BY <1>1, <1>2, SumNat

\* A ledger with no rows is within every limit.
LEMMA EmptyKeeps ==
  ASSUME NEW now
  PROVE  KeepsLimits(EmptyLedger, now)
<1>1. Rows(EmptyLedger) = {}
  BY DEF Rows, EmptyLedger
<1>2. CoLandable({}) = {{}}
  BY DEF CoLandable
<1>3. \A w : Total({}, w) = 0
  BY FS_EmptySet, SumUnfold DEF Total
<1>4. CoLandable(Rows(EmptyLedger)) = {{}}
  BY <1>1, <1>2
<1>5. \A X : {} \cap X = {}
  OBVIOUS
<1>6. \A L \in CoLandable(Rows(EmptyLedger)) : L = {} /\ L \cap LastDay(EmptyLedger, now) = {}
  BY <1>4, <1>5
<1>7. \A u \in Units : 0 <= Limit[u]
  BY LedgerAssumption
<1>8. 0 <= MaxPerDay
  BY LedgerAssumption
<1>9. ASSUME NEW L \in CoLandable(Rows(EmptyLedger))
      PROVE  /\ \A w : Total(L, w) = 0
             /\ \A w : Total(L \cap LastDay(EmptyLedger, now), w) = 0
  <2>1. L = {} /\ L \cap LastDay(EmptyLedger, now) = {}
    BY <1>6
  <2>2. QED
    BY <1>3, <2>1, Zenon
<1>10. QED
  BY <1>7, <1>8, <1>9 DEF KeepsLimits

\* As time passes fewer rows belong to the last day.
LEMMA TimeKeeps ==
  ASSUME approval \in Scenarios, NEW l \in Ledgers, NEW now \in Nat, NEW later \in Nat,
         now <= later, KeepsLimits(l, now)
  PROVE  KeepsLimits(l, later)
<1> SUFFICES ASSUME NEW L \in CoLandable(Rows(l))
             PROVE  Total(L \cap LastDay(l, later), Pays) <= MaxPerDay
  BY DEF KeepsLimits
<1> DEFINE early == L \cap LastDay(l, now)
           late == L \cap LastDay(l, later)
<1>1. \A x \in Rows(l) : l[x] \in Nat
  BY DEF Rows, Ledgers
<1>2. L \in SUBSET Rows(l) /\ Rows(l) \in SUBSET Txs
  BY DEF CoLandable, Rows
<1>3. LastDay(l, later) \subseteq LastDay(l, now)
  BY <1>1, LedgerAssumption DEF LastDay
<1>4. late \in SUBSET early /\ early \in SUBSET Txs /\ late \in SUBSET Txs
  BY <1>2, <1>3
<1>5. Total(early, Pays) <= MaxPerDay
  BY DEF KeepsLimits
<1> HIDE DEF early, late
<1>6. IsFiniteSet(early) /\ Total(early, Pays) \in Nat /\ Total(late, Pays) \in Nat
      /\ \A x \in early : Pays[x] \in Nat
  BY <1>4, WeightTypes, TotalNat
<1>7. Total(late, Pays) <= Total(early, Pays)
  BY <1>4, <1>6, SumMonotone DEF Total
<1>8. Total(late, Pays) <= MaxPerDay
  BY <1>5, <1>6, <1>7, LedgerAssumption
<1>9. QED
  BY <1>8 DEF late

\* What record inserts leaves every set that can land within the limits: the
\* unit's count and the day's were read with the new row, and a unit that the
\* new row does not redeem is counted as before.
LEMMA RecordKeeps ==
  ASSUME approval \in Scenarios, NEW l \in Ledgers, NEW t \in Txs,
         NEW now \in Nat, NEW time \in Nat, now <= time,
         KeepsLimits(l, time), Admits(l, t, now)
  PROVE  KeepsLimits(WithRow(l, t, now), time)
<1>1. CASE l[t] # Never
  BY <1>1 DEF WithRow
<1>2. CASE l[t] = Never
  <2> DEFINE m == WithRow(l, t, now)
  <2>1. WithinLimits(m, t, now)
    BY <1>2 DEF Admits
  <2>2. m = [l EXCEPT ![t] = now]
    BY <1>2 DEF WithRow
  <2>3. m \in Ledgers /\ Rows(m) = Rows(l) \cup {t} /\ t \notin Rows(l)
    <3>1. now # Never
      BY LedgerAssumption
    <3>2. QED
      BY <1>2, <2>2, <3>1 DEF Ledgers, Rows
  <2> HIDE DEF m
  <2>4. Rows(m) \in SUBSET Txs /\ \A x \in Rows(m) : m[x] \in Nat
    BY <2>3 DEF Rows, Ledgers
  <2> SUFFICES ASSUME NEW L \in CoLandable(Rows(m))
               PROVE  /\ \A u \in Units : Total(L, Redeems(u)) <= Limit[u]
                      /\ Total(L \cap LastDay(m, time), Pays) <= MaxPerDay
    BY DEF KeepsLimits, m
  <2>5. L \in PoolPaths(Rows(m)) /\ L \in SUBSET Txs
    <3>1. L \in SUBSET Rows(m)
      BY DEF CoLandable
    <3>2. QED
      BY <2>4, <3>1, LandingPaths
  <2>6. ASSUME NEW u \in Units PROVE Total(L, Redeems(u)) <= Limit[u]
    <3> DEFINE w == Redeems(u)
    <3>1. w \in [Txs -> Nat] /\ w[t] = approval[t].units[u] /\ Limit[u] \in Nat
      BY WeightTypes, LedgerAssumption DEF Redeems
    <3>2. Total(L, w) \in Nat /\ IsFiniteSet(L)
      BY <2>5, <3>1, TotalNat
    <3> HIDE DEF w
    <3>3. CASE approval[t].units[u] > 0
      <4>1. Heaviest(Rows(m), w) <= Limit[u]
        BY <2>1, <3>3 DEF WithinLimits, w
      <4>2. Total(L, w) <= Heaviest(Rows(m), w)
        BY <2>4, <2>5, <3>1, HeaviestCovers
      <4>3. Heaviest(Rows(m), w) \in Nat
        BY <2>4, <3>1, HeaviestNat
      <4>4. QED
        BY <3>1, <3>2, <4>1, <4>2, <4>3 DEF w
    <3>4. CASE ~ (approval[t].units[u] > 0)
      <4> DEFINE J == L \ {t}
      <4>1. w[t] = 0
        BY <3>1, <3>4
      <4>2. J \in CoLandable(Rows(l)) /\ J \in SUBSET Txs
        BY <2>3, <2>5 DEF CoLandable
      <4>3. Total(J, w) <= Limit[u]
        BY <4>2 DEF KeepsLimits, w
      <4>4. Total(J, w) \in Nat
        BY <3>1, <4>2, TotalNat
      <4>5. Total(L, w) = Total(J, w)
        <5>1. CASE t \in L
          <6>1. \A x \in L : w[x] \in Int
            BY <2>5, <3>1
          <6>2. Total(L, w) = w[t] + Total(J, w)
            BY <3>2, <5>1, <6>1, SumRemove DEF Total
          <6>3. QED
            BY <4>1, <4>4, <6>2
        <5>2. CASE t \notin L
          <6>1. J = L
            BY <5>2
          <6> HIDE DEF J
          <6>2. QED
            BY <6>1, Zenon
        <5>3. QED
          BY <5>1, <5>2
      <4>6. QED
        BY <4>3, <4>5 DEF w
    <3>5. QED
      BY <3>3, <3>4
  <2>7. Total(L \cap LastDay(m, time), Pays) <= MaxPerDay
    <3> DEFINE recent == Recent(m, now)
               K == L \cap recent
               late == L \cap LastDay(m, time)
    <3>1. recent \in SUBSET Rows(m) /\ recent \in SUBSET Txs
      BY <2>4 DEF Recent
    <3>2. LastDay(m, time) \subseteq recent
      BY <2>4, LedgerAssumption DEF LastDay, Recent
    <3>3. late \in SUBSET K /\ K \in SUBSET Txs /\ late \in SUBSET Txs
      BY <2>5, <3>2
    <3>4. Heaviest(recent, Pays) <= MaxPerDay
      BY <2>1 DEF WithinLimits
    <3> HIDE DEF recent
    <3>5. K \in PoolPaths(recent)
      BY <2>5, <3>1, PathsWithin
    <3> HIDE DEF K, late
    <3>6. Total(K, Pays) <= Heaviest(recent, Pays)
      BY <3>1, <3>5, WeightTypes, HeaviestCovers
    <3>7. Heaviest(recent, Pays) \in Nat
      BY <3>1, WeightTypes, HeaviestNat
    <3>8. IsFiniteSet(K) /\ Total(K, Pays) \in Nat /\ Total(late, Pays) \in Nat
          /\ \A x \in K : Pays[x] \in Nat
      BY <3>3, WeightTypes, TotalNat
    <3>9. Total(late, Pays) <= Total(K, Pays)
      BY <3>3, <3>8, SumMonotone DEF Total
    <3>10. Total(late, Pays) <= MaxPerDay
      BY <3>4, <3>6, <3>7, <3>8, <3>9, LedgerAssumption
    <3>11. QED
      BY <3>10 DEF late
  <2>8. QED
    BY <2>6, <2>7
<1>3. QED
  BY <1>1, <1>2

-----------------------------------------------------------------------------
(* What a transaction builds on                                            *)

\* An output is made by one transaction at most, or comes from outside.
LEMMA OneMaker ==
  ASSUME NEW p \in Txs, NEW o \in Made(p)
  PROVE  /\ o \in Outputs /\ o \notin Genesis
         /\ \A q \in Txs : o \in Made(q) => p = q
<1>1. o \in Outputs /\ o \notin Genesis
  BY LedgerAssumption DEF Outputs
<1>2. ASSUME NEW q \in Txs, o \in Made(q) PROVE p = q
  BY <1>2 DEF Made, PoolOf, ChangeOf
<1>3. QED
  BY <1>1, <1>2

\* How old an output is, by who made it.
OutputAge ==
  [o \in Outputs |-> IF \E p \in Txs : o \in Made(p)
                     THEN Age[CHOOSE p \in Txs : o \in Made(p)] + 1 ELSE 0]

\* The pool output a transaction spends is older than what it makes.
LEMMA OutputAges ==
  ASSUME approval \in Scenarios
  PROVE  /\ \A o \in Outputs : OutputAge[o] \in Nat
         /\ \A p \in Txs : approval[p].pool \in Outputs
         /\ \A p \in Txs : \A o \in Made(p) : OutputAge[approval[p].pool] < OutputAge[o]
<1>1. \A p \in Txs : \A o \in Made(p) : o \in Outputs /\ OutputAge[o] = Age[p] + 1
  <2> SUFFICES ASSUME NEW p \in Txs, NEW o \in Made(p)
               PROVE  o \in Outputs /\ OutputAge[o] = Age[p] + 1
    OBVIOUS
  <2>1. o \in Outputs /\ (CHOOSE q \in Txs : o \in Made(q)) = p
    BY OneMaker
  <2>2. QED
    BY <2>1, Zenon DEF OutputAge
<1>2. \A o \in Outputs : (\A p \in Txs : o \notin Made(p)) => OutputAge[o] = 0
  BY Zenon DEF OutputAge
<1>3. \A p \in Txs : approval[p].pool \in Outputs
  BY ApprovalFacts DEF PoolOutputs, Outputs, Made
<1>4. ASSUME NEW o \in Outputs PROVE OutputAge[o] \in Nat
  <2>1. CASE \E p \in Txs : o \in Made(p)
    BY <1>1, <2>1, ApprovalFacts
  <2>2. CASE \A p \in Txs : o \notin Made(p)
    BY <1>2, <2>2
  <2>3. QED
    BY <2>1, <2>2
<1>5. ASSUME NEW p \in Txs, NEW o \in Made(p)
      PROVE  OutputAge[approval[p].pool] < OutputAge[o]
  <2>1. OutputAge[o] = Age[p] + 1 /\ Age[p] \in Nat
    BY <1>1, ApprovalFacts
  <2>2. CASE \E q \in Txs : approval[p].pool \in Made(q)
    <3>1. PICK q \in Txs : approval[p].pool \in Made(q)
      BY <2>2
    <3>2. Age[q] < Age[p] /\ Age[q] \in Nat
      BY <3>1, OneProducer, ApprovalFacts
    <3>3. OutputAge[approval[p].pool] = Age[q] + 1
      BY <1>1, <3>1
    <3>4. QED
      BY <2>1, <3>2, <3>3
  <2>3. CASE \A q \in Txs : approval[p].pool \notin Made(q)
    BY <1>2, <1>3, <2>1, <2>3
  <2>4. QED
    BY <2>2, <2>3
<1>6. QED
  BY <1>3, <1>4, <1>5

\* Among outputs there is one whose maker spends none of them.
LEMMA FirstOutput ==
  ASSUME approval \in Scenarios, NEW D \in SUBSET Outputs, D # {}
  PROVE  \E o \in D : \A p \in Txs : o \in Made(p) => approval[p].pool \notin D
<1>1. \A o \in D : OutputAge[o] \in Nat
  BY OutputAges
<1>2. PICK o \in D : \A q \in D : OutputAge[o] <= OutputAge[q]
  BY <1>1, LeastRank
<1>3. ASSUME NEW p \in Txs, o \in Made(p), approval[p].pool \in D PROVE FALSE
  <2>1. /\ OutputAge[approval[p].pool] < OutputAge[o]
        /\ OutputAge[o] <= OutputAge[approval[p].pool]
        /\ OutputAge[o] \in Nat /\ OutputAge[approval[p].pool] \in Nat
    BY <1>1, <1>2, <1>3, OutputAges
  <2>2. QED
    BY <2>1
<1>4. QED
  BY <1>3

\* The recursion of Upstream has a solution.
LEMMA UpstreamEquation ==
  ASSUME approval \in Scenarios, NEW S \in SUBSET Txs
  PROVE  \A o \in Outputs :
           Upstream(S, o) = UNION {{p} \cup Upstream(S, approval[p].pool) : p \in Producer(S, o)}
<1> DEFINE Build(o, g) == UNION {{p} \cup g[approval[p].pool] : p \in Producer(S, o)}
           F == [a \in Outputs \X [Outputs -> SUBSET S] |-> Build(a[1], a[2])]
           R == Growing(OutputAge, Outputs)
<1>1. \A o \in Outputs : OutputAge[o] \in Nat
  BY OutputAges
<1>2. /\ IsWellFoundedOn(R, Outputs) /\ IsTransitivelyClosedOn(R, Outputs)
      /\ \A x, y \in Outputs : <<x, y>> \in R <=> OutputAge[x] < OutputAge[y]
  BY <1>1, RankWellFounded
<1>3. \A o \in Outputs : \A p \in Producer(S, o) :
        p \in S /\ approval[p].pool \in Outputs /\ <<approval[p].pool, o>> \in R
  <2> SUFFICES ASSUME NEW o \in Outputs, NEW p \in S, o \in Made(p)
               PROVE  approval[p].pool \in Outputs /\ <<approval[p].pool, o>> \in R
    BY DEF Producer
  <2>1. approval[p].pool \in Outputs /\ OutputAge[approval[p].pool] < OutputAge[o]
    BY OutputAges
  <2> HIDE DEF R
  <2>2. QED
    BY <1>2, <2>1
<1> HIDE DEF R
<1>4. \A o \in Outputs : \A g \in [Outputs -> SUBSET S] : Build(o, g) \in SUBSET S
  BY <1>3
<1>5. F \in [Outputs \X [Outputs -> SUBSET S] -> SUBSET S]
  <2> HIDE DEF Build
  <2> QED BY <1>4
<1>6. \A o \in Outputs : \A g \in [Outputs -> SUBSET S] : F[<<o, g>>] = Build(o, g)
  OBVIOUS
<1>7. \A o \in Outputs : \A g, h \in [Outputs -> SUBSET S] :
        (\A q \in Outputs : <<q, o>> \in R => g[q] = h[q]) => F[<<o, g>>] = F[<<o, h>>]
  <2> HIDE DEF F, Build
  <2> SUFFICES ASSUME NEW o \in Outputs,
                      NEW g \in [Outputs -> SUBSET S], NEW h \in [Outputs -> SUBSET S],
                      \A q \in Outputs : <<q, o>> \in R => g[q] = h[q]
               PROVE  Build(o, g) = Build(o, h)
    BY <1>6
  <2>1. \A p \in Producer(S, o) : g[approval[p].pool] = h[approval[p].pool]
    BY <1>3
  <2>2. QED
    BY <2>1 DEF Build
<1>8. IsStep(F, Outputs, SUBSET S, R)
  <2> HIDE DEF F
  <2> QED BY <1>5, <1>7 DEF IsStep
<1>9. PICK g : Solves(g, F, Outputs, SUBSET S)
  <2>1. SUBSET S # {}
    OBVIOUS
  <2> HIDE DEF F
  <2>2. QED
    BY <1>2, <1>8, <2>1, RecursionExists
<1>10. g \in [Outputs -> SUBSET S] /\ \A o \in Outputs : g[o] = Build(o, g)
  BY <1>6, <1>9 DEF Solves
<1> DEFINE IsUp(h) == h = [q \in Outputs |-> Build(q, h)]
           up == CHOOSE h : IsUp(h)
<1>11. IsUp(g)
  <2> HIDE DEF Build
  <2> QED BY <1>10
<1>12. IsUp(up)
  <2> HIDE DEF IsUp
  <2> QED BY <1>11
<1>13. \A o : Upstream(S, o) = up[o]
  BY Zenon DEF Upstream
<1> HIDE DEF up
<1>14. \A o \in Outputs : up[o] = Build(o, up)
  <2> HIDE DEF Build
  <2> QED BY <1>12
<1>15. QED
  BY <1>13, <1>14

\* So upstream of an output is nothing, or its maker and what is upstream of
\* the pool output that the maker spends.
LEMMA UpstreamCases ==
  ASSUME approval \in Scenarios, NEW S \in SUBSET Txs, NEW o \in Outputs
  PROVE  /\ Producer(S, o) = {} => Upstream(S, o) = {}
         /\ \A p \in Producer(S, o) :
              /\ p \in S /\ o \in Made(p)
              /\ approval[p].pool \in Outputs
              /\ Upstream(S, o) = {p} \cup Upstream(S, approval[p].pool)
<1>1. Upstream(S, o) = UNION {{p} \cup Upstream(S, approval[p].pool) : p \in Producer(S, o)}
  BY UpstreamEquation
<1>2. ASSUME NEW p \in Producer(S, o)
      PROVE  /\ p \in S /\ o \in Made(p)
             /\ approval[p].pool \in Outputs
             /\ Upstream(S, o) = {p} \cup Upstream(S, approval[p].pool)
  <2>1. p \in S /\ o \in Made(p)
    BY DEF Producer
  <2>2. Producer(S, o) = {p}
    BY <2>1, OneMaker DEF Producer
  <2>3. UNION {{q} \cup Upstream(S, approval[q].pool) : q \in {p}} =
          {p} \cup Upstream(S, approval[p].pool)
    OBVIOUS
  <2>4. approval[p].pool \in Outputs
    BY <2>1, OutputAges
  <2>5. QED
    BY <1>1, <2>1, <2>2, <2>3, <2>4
<1>3. QED
  BY <1>1, <1>2

\* Upstream of an output are transactions of the set, and with each of them
\* what is upstream of its pool output.
LEMMA UpstreamWithin ==
  ASSUME approval \in Scenarios, NEW S \in SUBSET Txs
  PROVE  \A o \in Outputs :
           /\ Upstream(S, o) \in SUBSET S
           /\ \A a \in Upstream(S, o) : Upstream(S, approval[a].pool) \subseteq Upstream(S, o)
<1> DEFINE Within(o) ==
             /\ Upstream(S, o) \in SUBSET S
             /\ \A a \in Upstream(S, o) : Upstream(S, approval[a].pool) \subseteq Upstream(S, o)
           D == {o \in Outputs : ~ Within(o)}
<1>1. ASSUME D # {} PROVE FALSE
  <2>1. PICK o \in D : \A p \in Txs : o \in Made(p) => approval[p].pool \notin D
    <3>1. D \in SUBSET Outputs
      OBVIOUS
    <3> HIDE DEF D
    <3>2. QED
      BY <1>1, <3>1, FirstOutput
  <2>2. o \in Outputs /\ ~ Within(o)
    OBVIOUS
  <2>3. \A p \in Producer(S, o) : Within(approval[p].pool)
    BY <2>1, <2>2, UpstreamCases
  <2> HIDE DEF D
  <2>4. CASE Producer(S, o) = {}
    BY <2>2, <2>4, UpstreamCases
  <2>5. CASE Producer(S, o) # {}
    <3>1. PICK p \in Producer(S, o) : TRUE
      BY <2>5
    <3>2. p \in S /\ Upstream(S, o) = {p} \cup Upstream(S, approval[p].pool)
      BY <2>2, UpstreamCases
    <3>3. Within(approval[p].pool)
      BY <2>3
    <3>4. QED
      BY <2>2, <3>2, <3>3
  <2>6. QED
    BY <2>4, <2>5
<1>2. QED
  BY <1>1

\* The pool outputs of the chain that ends in o.
Tail(S, o) == {o} \cup {approval[p].pool : p \in Upstream(S, o)}

\* Exactly one of them is not made by the set.
LEMMA OneRoot ==
  ASSUME approval \in Scenarios, NEW S \in SUBSET Txs
  PROVE  \A o \in Outputs : \E r \in Tail(S, o) :
           Producer(S, r) = {} /\ \A q \in Tail(S, o) : Producer(S, q) = {} => q = r
<1> DEFINE Rooted(o) == \E r \in Tail(S, o) :
             Producer(S, r) = {} /\ \A q \in Tail(S, o) : Producer(S, q) = {} => q = r
           D == {o \in Outputs : ~ Rooted(o)}
<1>1. ASSUME D # {} PROVE FALSE
  <2>1. PICK o \in D : \A p \in Txs : o \in Made(p) => approval[p].pool \notin D
    <3>1. D \in SUBSET Outputs
      OBVIOUS
    <3> HIDE DEF D
    <3>2. QED
      BY <1>1, <3>1, FirstOutput
  <2>2. o \in Outputs /\ ~ Rooted(o)
    OBVIOUS
  <2>3. \A p \in Producer(S, o) : Rooted(approval[p].pool)
    BY <2>1, <2>2, UpstreamCases
  <2> HIDE DEF D
  <2>4. CASE Producer(S, o) = {}
    <3>1. Tail(S, o) = {o}
      BY <2>2, <2>4, UpstreamCases DEF Tail
    <3>2. QED
      BY <2>2, <2>4, <3>1
  <2>5. CASE Producer(S, o) # {}
    <3>1. PICK p \in Producer(S, o) : TRUE
      BY <2>5
    <3>2. Upstream(S, o) = {p} \cup Upstream(S, approval[p].pool)
      BY <2>2, UpstreamCases
    <3>3. Tail(S, o) = {o} \cup Tail(S, approval[p].pool)
      BY <3>2 DEF Tail
    <3>4. Rooted(approval[p].pool)
      BY <2>3
    <3>5. QED
      BY <2>2, <2>5, <3>3, <3>4
  <2>6. QED
    BY <2>4, <2>5
<1>2. QED
  BY <1>1

\* All that a chain builds on has the chain's root.
LEMMA SameRoot ==
  ASSUME approval \in Scenarios, NEW S \in SUBSET Txs, NEW o \in Outputs, NEW a \in Upstream(S, o)
  PROVE  Root(S, approval[a].pool) = Root(S, o)
<1> DEFINE q == approval[a].pool
<1>1. a \in S /\ q \in Outputs /\ Upstream(S, q) \subseteq Upstream(S, o)
  BY UpstreamWithin, OutputAges
<1>2. Tail(S, q) \subseteq Tail(S, o)
  BY <1>1 DEF Tail
<1>3. PICK r \in Tail(S, o) :
        Producer(S, r) = {} /\ \A y \in Tail(S, o) : Producer(S, y) = {} => y = r
  BY OneRoot
<1>4. PICK x \in Tail(S, q) : Producer(S, x) = {}
  BY <1>1, OneRoot
<1>5. x = r /\ \A y \in Tail(S, q) : Producer(S, y) = {} => y = r
  BY <1>2, <1>3, <1>4
<1>6. Root(S, o) = r
  BY <1>3 DEF Root, Tail
<1>7. Root(S, q) = r
  <2> HIDE DEF q
  <2> QED BY <1>4, <1>5 DEF Root, Tail
<1>8. QED
  BY <1>6, <1>7

-----------------------------------------------------------------------------
(* Paths that can land                                                     *)

Sources(t) == {p \in Txs : approval[t].inputs \cap Made(p) # {}}

\* Nothing is in S without the transactions whose outputs it needs.
SourcesIn(S) == \A x \in S : Sources(x) \subseteq S

\* A transaction that nothing of S needs changes nothing upstream.
LEMMA UpstreamStable ==
  ASSUME approval \in Scenarios, NEW S \in SUBSET Txs, SourcesIn(S), NEW t \in Txs, t \notin S
  PROVE  \A o \in Outputs \ Made(t) : Upstream(S \cup {t}, o) = Upstream(S, o)
<1> DEFINE T == S \cup {t}
           D == {o \in Outputs \ Made(t) : Upstream(T, o) # Upstream(S, o)}
<1>1. T \in SUBSET Txs
  OBVIOUS
<1>2. ASSUME D # {} PROVE FALSE
  <2>1. PICK o \in D : \A p \in Txs : o \in Made(p) => approval[p].pool \notin D
    <3>1. D \in SUBSET Outputs
      OBVIOUS
    <3> HIDE DEF D
    <3>2. QED
      BY <1>2, <3>1, FirstOutput
  <2>2. o \in Outputs /\ o \notin Made(t) /\ Upstream(T, o) # Upstream(S, o)
    OBVIOUS
  <2>3. Producer(T, o) = Producer(S, o)
    BY <2>2 DEF Producer
  <2>4. ASSUME NEW p \in Producer(S, o)
        PROVE  Upstream(T, approval[p].pool) = Upstream(S, approval[p].pool)
    <3>1. p \in S /\ o \in Made(p) /\ approval[p].pool \in Outputs
      BY <2>2, UpstreamCases
    <3>2. approval[p].pool \notin Made(t)
      <4>1. approval[p].pool \in approval[p].inputs
        BY <3>1, ApprovalFacts
      <4>2. t \notin Sources(p)
        BY <3>1 DEF SourcesIn
      <4>3. QED
        BY <4>1, <4>2 DEF Sources
    <3>3. QED
      BY <2>1, <3>1, <3>2
  <2> HIDE DEF D, T
  <2>5. CASE Producer(S, o) = {}
    BY <1>1, <2>2, <2>3, <2>5, UpstreamCases
  <2>6. CASE Producer(S, o) # {}
    <3>1. PICK p \in Producer(S, o) : TRUE
      BY <2>6
    <3>2. Upstream(S, o) = {p} \cup Upstream(S, approval[p].pool)
      BY <2>2, UpstreamCases
    <3>3. Upstream(T, o) = {p} \cup Upstream(T, approval[p].pool)
      BY <1>1, <2>2, <2>3, UpstreamCases
    <3>4. QED
      BY <2>2, <2>4, <3>2, <3>3
  <2>7. QED
    BY <2>5, <2>6
<1>3. QED
  BY <1>2

\* If no transaction needs what those it builds on spend, a chain spends each
\* pool output once.
LEMMA ChainDistinct ==
  ASSUME approval \in Scenarios, NEW S \in SUBSET Txs,
         \A x \in S : \A a \in Upstream(S, approval[x].pool) :
           approval[a].spends \cap approval[x].inputs = {}
  PROVE  \A o \in Outputs : DistinctPools(Upstream(S, o))
<1> DEFINE D == {o \in Outputs : ~ DistinctPools(Upstream(S, o))}
<1>1. ASSUME D # {} PROVE FALSE
  <2>1. PICK o \in D : \A p \in Txs : o \in Made(p) => approval[p].pool \notin D
    <3>1. D \in SUBSET Outputs
      OBVIOUS
    <3> HIDE DEF D
    <3>2. QED
      BY <1>1, <3>1, FirstOutput
  <2>2. o \in Outputs /\ ~ DistinctPools(Upstream(S, o))
    OBVIOUS
  <2>3. \A p \in Producer(S, o) : DistinctPools(Upstream(S, approval[p].pool))
    BY <2>1, <2>2, UpstreamCases
  <2> HIDE DEF D
  <2>4. CASE Producer(S, o) = {}
    BY <2>2, <2>4, UpstreamCases DEF DistinctPools
  <2>5. CASE Producer(S, o) # {}
    <3>1. PICK p \in Producer(S, o) : TRUE
      BY <2>5
    <3> DEFINE up == Upstream(S, approval[p].pool)
    <3>2. p \in S /\ approval[p].pool \in Outputs /\ Upstream(S, o) = {p} \cup up
      BY <2>2, UpstreamCases
    <3>3. \A a \in up : approval[a].pool # approval[p].pool
      <4> SUFFICES ASSUME NEW a \in up PROVE approval[a].pool # approval[p].pool
        OBVIOUS
      <4>1. a \in S
        BY <3>2, UpstreamWithin
      <4>2. approval[a].spends \cap approval[p].inputs = {}
        BY <3>2
      <4>3. approval[a].pool \in approval[a].spends /\ approval[p].pool \in approval[p].inputs
        BY <3>2, <4>1, ApprovalFacts
      <4>4. QED
        BY <4>2, <4>3
    <3>4. DistinctPools(up)
      BY <2>3
    <3>5. QED
      BY <2>2, <3>2, <3>3, <3>4 DEF DistinctPools
  <2>6. QED
    BY <2>4, <2>5
<1>2. QED
  BY <1>1

\* What PathsCanLand says of one transaction.
CanFollow(S, t) ==
  LET before == Upstream(S, approval[t].pool)
  IN /\ \A a \in before : approval[a].spends \cap approval[t].inputs = {}
     /\ \A p \in S : approval[t].inputs \cap Made(p) # {} =>
          \A a \in before \cup {t}, b \in {p} \cup Upstream(S, approval[p].pool) :
            a # b => approval[a].pool # approval[b].pool

\* record's two refusals are enough for the transaction at hand: an input of
\* it comes from its own chain, or from one with another root.
LEMMA AdmittedFollows ==
  ASSUME approval \in Scenarios, NEW S \in SUBSET Txs,
         \A x \in S : CanFollow(S, x),
         NEW t \in Txs, ~ CannotLand(S, t)
  PROVE  CanFollow(S, t)
<1> DEFINE before == Upstream(S, approval[t].pool)
<1>1. approval[t].pool \in Outputs /\ before \in SUBSET S
  BY OutputAges, UpstreamWithin
<1>2. \A a \in before : approval[a].spends \cap approval[t].inputs = {}
  BY DEF CannotLand
<1>3. \A o \in Outputs : DistinctPools(Upstream(S, o))
  <2>1. \A x \in S : \A a \in Upstream(S, approval[x].pool) :
          approval[a].spends \cap approval[x].inputs = {}
    BY DEF CanFollow
  <2>2. QED
    BY <2>1, ChainDistinct
<1>4. \A a \in before : approval[a].pool # approval[t].pool
  <2> SUFFICES ASSUME NEW a \in before PROVE approval[a].pool # approval[t].pool
    OBVIOUS
  <2>1. approval[a].pool \in approval[a].spends /\ approval[t].pool \in approval[t].inputs
    BY <1>1, ApprovalFacts
  <2>2. QED
    BY <1>2, <2>1
<1>5. DistinctPools(before \cup {t})
  <2>1. DistinctPools(before)
    BY <1>1, <1>3
  <2> HIDE DEF before
  <2>2. QED
    BY <1>4, <2>1 DEF DistinctPools
<1>6. ASSUME NEW p \in S, approval[t].inputs \cap Made(p) # {},
             NEW a \in before \cup {t}, NEW b \in {p} \cup Upstream(S, approval[p].pool), a # b
      PROVE  approval[a].pool # approval[b].pool
  <2>1. approval[p].pool \in Outputs
    BY OutputAges
  <2>2. CASE p \in before
    <3>1. Upstream(S, approval[p].pool) \subseteq before
      BY <1>1, <2>2, UpstreamWithin
    <3>2. b \in before
      BY <2>2, <3>1
    <3> HIDE DEF before
    <3>3. QED
      BY <1>5, <1>6, <3>2 DEF DistinctPools
  <2>3. CASE p \notin before
    <3>1. PICK o \in approval[t].inputs : o \in Made(p)
      BY <1>6
    <3>2. p \in Producer(S, o) \ before
      BY <2>3, <3>1 DEF Producer
    <3>3. Root(S, approval[p].pool) # Root(S, approval[t].pool)
      BY <3>1, <3>2 DEF CannotLand
    <3>4. Root(S, approval[a].pool) = Root(S, approval[t].pool)
      BY <1>1, SameRoot
    <3>5. Root(S, approval[b].pool) = Root(S, approval[p].pool)
      BY <2>1, SameRoot
    <3>6. QED
      BY <3>3, <3>4, <3>5
  <2>4. QED
    BY <2>2, <2>3
<1>7. QED
  BY <1>2, <1>6 DEF CanFollow

\* A new row changes nothing for the others, as none of them needs it.
LEMMA OthersFollow ==
  ASSUME approval \in Scenarios, NEW S \in SUBSET Txs, SourcesIn(S),
         NEW t \in Txs, t \notin S,
         NEW x \in S \cup {t}, CanFollow(S, x), Sources(x) \subseteq S
  PROVE  CanFollow(S \cup {t}, x)
<1> DEFINE T == S \cup {t}
<1>1. \A y \in T : Sources(y) \subseteq S =>
        Upstream(T, approval[y].pool) = Upstream(S, approval[y].pool)
  <2> SUFFICES ASSUME NEW y \in T, Sources(y) \subseteq S
               PROVE  Upstream(T, approval[y].pool) = Upstream(S, approval[y].pool)
    OBVIOUS
  <2>1. y \in Txs
    OBVIOUS
  <2>2. approval[y].pool \in Outputs /\ approval[y].pool \in approval[y].inputs
    BY <2>1, OutputAges, ApprovalFacts
  <2>3. approval[y].pool \notin Made(t)
    BY <2>2 DEF Sources
  <2>4. QED
    BY <2>2, <2>3, UpstreamStable
<1>2. Upstream(T, approval[x].pool) = Upstream(S, approval[x].pool)
  BY <1>1
<1>3. ASSUME NEW p \in T, approval[x].inputs \cap Made(p) # {}
      PROVE  p \in S /\ Upstream(T, approval[p].pool) = Upstream(S, approval[p].pool)
  <2>1. p \in S
    BY <1>3 DEF Sources
  <2>2. Sources(p) \subseteq S
    BY <2>1 DEF SourcesIn
  <2>3. QED
    BY <1>1, <2>1, <2>2
<1> HIDE DEF T
<1>4. \A a \in Upstream(T, approval[x].pool) : approval[a].spends \cap approval[x].inputs = {}
  BY <1>2 DEF CanFollow
<1>5. ASSUME NEW p \in T, approval[x].inputs \cap Made(p) # {},
             NEW a \in Upstream(T, approval[x].pool) \cup {x},
             NEW b \in {p} \cup Upstream(T, approval[p].pool), a # b
      PROVE  approval[a].pool # approval[b].pool
  <2>1. p \in S /\ b \in {p} \cup Upstream(S, approval[p].pool)
    BY <1>3, <1>5
  <2>2. a \in Upstream(S, approval[x].pool) \cup {x}
    BY <1>2
  <2>3. QED
    BY <1>5, <2>1, <2>2 DEF CanFollow
<1>6. CanFollow(T, x)
  BY <1>4, <1>5 DEF CanFollow
<1>7. QED
  BY <1>6 DEF T

\* So a ledger in which everything can land keeps that, if what the new
\* transaction needs of others has been recorded before it.
LEMMA RecordFollows ==
  ASSUME approval \in Scenarios, NEW l \in Ledgers, NEW t \in Txs, NEW now \in Nat,
         SourcesIn(Rows(l)), Sources(t) \subseteq Rows(l),
         PathsCanLand(l), Admits(l, t, now)
  PROVE  PathsCanLand(WithRow(l, t, now)) /\ SourcesIn(Rows(WithRow(l, t, now)))
<1>1. CASE l[t] # Never
  BY <1>1 DEF WithRow
<1>2. CASE l[t] = Never
  <2> DEFINE S == Rows(l)
             m == WithRow(l, t, now)
  <2>1. Rows(m) = S \cup {t} /\ S \in SUBSET Txs /\ t \notin S
    <3>1. now # Never
      BY LedgerAssumption
    <3>2. m = [l EXCEPT ![t] = now]
      BY <1>2 DEF WithRow
    <3>3. QED
      BY <1>2, <3>1, <3>2 DEF Ledgers, Rows
  <2>2. ~ CannotLand(S, t)
    BY <1>2 DEF Admits
  <2>3. \A x \in S : CanFollow(S, x)
    BY DEF PathsCanLand, CanFollow
  <2> HIDE DEF S
  <2>4. SourcesIn(S) /\ Sources(t) \subseteq S
    BY DEF S
  <2>5. CanFollow(S, t)
    BY <2>1, <2>2, <2>3, AdmittedFollows
  <2>6. \A x \in S \cup {t} : CanFollow(S, x) /\ Sources(x) \subseteq S
    BY <2>3, <2>4, <2>5 DEF SourcesIn
  <2>7. \A x \in S \cup {t} : CanFollow(S \cup {t}, x)
    BY <2>1, <2>4, <2>6, OthersFollow
  <2> HIDE DEF m
  <2>8. \A x \in Rows(m) : CanFollow(Rows(m), x)
    BY <2>1, <2>7
  <2>9. PathsCanLand(m)
    BY <2>8 DEF PathsCanLand, CanFollow
  <2>10. SourcesIn(Rows(m))
    BY <2>1, <2>6 DEF SourcesIn
  <2>11. QED
    BY <2>9, <2>10 DEF m
<1>3. QED
  BY <1>1, <1>2
=============================================================================
