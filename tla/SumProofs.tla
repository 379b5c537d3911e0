------------------------------ MODULE SumProofs ------------------------------
(***************************************************************************)
(* What the sums and maxima of the models compute, and how a recursive     *)
(* function is known to exist.  The library's induction theorems take an   *)
(* operator, which the provers cannot instantiate; its theorem on minimal  *)
(* elements takes a set.  So an induction here looks at a smallest         *)
(* counterexample, and a recursion is a function of pairs.                 *)
(***************************************************************************)
EXTENDS Integers, FiniteSetTheorems, FiniteSetsExt, TLAPS

\* A set of natural numbers has a least one.
LEMMA NatMin ==
  ASSUME NEW T \in SUBSET Nat, T # {}
  PROVE  \E m \in T : \A n \in T : m <= n
<1> DEFINE R == OpToRel(<, Nat)
<1>1. IsWellFoundedOn(R, Nat)
  BY NatLessThanWellFounded
<1>2. \A x, y \in Nat : <<y, x>> \in R <=> y < x
  BY DEF OpToRel
<1> HIDE DEF R
<1>3. PICK x \in T : \A y \in T : ~ (<<y, x>> \in R)
  BY <1>1, WFMin
<1>4. \A y \in T : x <= y
  <2> SUFFICES ASSUME NEW y \in T PROVE x <= y
    OBVIOUS
  <2>1. x \in Nat /\ y \in Nat /\ <<y, x>> \notin R
    BY <1>3
  <2>2. ~ (y < x)
    BY <1>2, <2>1
  <2>3. QED
    BY <2>1, <2>2
<1>5. QED
  BY <1>4

\* F gives a value in V at x from x and a function, of which it looks only at
\* what lies below x in R; g follows F everywhere.
IsStep(F, X, V, R) ==
  /\ F \in [X \X [X -> V] -> V]
  /\ \A x \in X : \A g, h \in [X -> V] :
        (\A y \in X : <<y, x>> \in R => g[y] = h[y]) => F[<<x, g>>] = F[<<x, h>>]

Solves(g, F, X, V) == g \in [X -> V] /\ \A x \in X : g[x] = F[<<x, g>>]

\* A function of x that refers to its own values below x exists: F gives the
\* value at x, from x and any function that is right below x.
LEMMA RecursionExists ==
  ASSUME NEW X, NEW V, NEW R, NEW F, V # {},
         IsWellFoundedOn(R, X), IsTransitivelyClosedOn(R, X), IsStep(F, X, V, R)
  PROVE  \E g : Solves(g, F, X, V)
<1>0. PICK v0 \in V : TRUE
  OBVIOUS
<1> DEFINE Below(x, y) == y = x \/ <<y, x>> \in R
           Approx(x) == {g \in [X -> V] :
                           \A y \in X : Below(x, y) => g[y] = F[<<y, g>>]}
           Chosen(x) == CHOOSE g \in Approx(x) : TRUE
<1>t. \A x, y, z \in X : Below(x, y) /\ <<z, y>> \in R => <<z, x>> \in R
  BY DEF IsTransitivelyClosedOn
<1>i. \A x \in X : <<x, x>> \notin R
  BY WellFoundedIsIrreflexive
<1>f. \A x \in X : \A g \in [X -> V] : F[<<x, g>>] \in V
  BY DEF IsStep
<1>s. \A x \in X : \A g, h \in [X -> V] :
        (\A y \in X : <<y, x>> \in R => g[y] = h[y]) => F[<<x, g>>] = F[<<x, h>>]
  BY DEF IsStep
<1>a. \A x \in X : \A g \in Approx(x) :
        g \in [X -> V] /\ \A y \in X : Below(x, y) => g[y] = F[<<y, g>>]
  OBVIOUS
<1>c. \A x \in X : Approx(x) # {} => Chosen(x) \in Approx(x)
  OBVIOUS
<1>1. \A x, y \in X : Below(x, y) => Approx(x) \subseteq Approx(y)
  BY <1>t
<1> HIDE DEF Approx, Chosen
\* Two functions that are right below x agree there.
<1>2. ASSUME NEW x \in X, NEW g \in Approx(x), NEW h \in Approx(x), NEW y \in X, Below(x, y)
      PROVE  g[y] = h[y]
  <2> DEFINE D == {z \in X : Below(x, z) /\ g[z] # h[z]}
  <2>1. SUFFICES ASSUME D # {} PROVE FALSE
    BY <1>2
  <2>2. PICK z \in D : \A w \in D : <<w, z>> \notin R
    BY <2>1, WFMin
  <2>3. \A w \in X : <<w, z>> \in R => g[w] = h[w]
    BY <2>2, <1>t
  <2>4. F[<<z, g>>] = F[<<z, h>>]
    BY <2>3, <1>a, <1>s
  <2>5. QED
    BY <2>2, <2>4, <1>a
\* What the values below x say together can be continued at x.
<1>3. ASSUME NEW x \in X, \A y \in X : <<y, x>> \in R => Approx(y) # {}
      PROVE  Approx(x) # {}
  <2> DEFINE G == [y \in X |-> IF <<y, x>> \in R THEN Chosen(y)[y] ELSE v0]
             h == [G EXCEPT ![x] = F[<<x, G>>]]
  <2>1. \A y \in X : <<y, x>> \in R => Chosen(y) \in Approx(y)
    BY <1>3, <1>c
  <2>2. G \in [X -> V]
    BY <2>1, <1>a
  <2>3. F[<<x, G>>] \in V
    <3> HIDE DEF G
    <3> QED BY <2>2, <1>f
  <2>4. /\ h \in [X -> V]
        /\ h[x] = F[<<x, G>>]
        /\ \A y \in X : <<y, x>> \in R => h[y] = G[y]
    <3> HIDE DEF G
    <3> QED BY <2>2, <2>3, <1>i
  <2>5. \A y \in X : <<y, x>> \in R => h[y] = Chosen(y)[y]
    <3> HIDE DEF h
    <3> QED BY <2>4
  <2> HIDE DEF h
  <2>6. ASSUME NEW y \in X, <<y, x>> \in R PROVE h[y] = F[<<y, h>>]
    <3>1. Chosen(y) \in Approx(y) /\ Below(y, y)
      BY <2>1, <2>6
    <3>2. \A z \in X : <<z, y>> \in R => h[z] = Chosen(y)[z]
      <4> SUFFICES ASSUME NEW z \in X, <<z, y>> \in R PROVE h[z] = Chosen(y)[z]
        OBVIOUS
      <4>1. <<z, x>> \in R /\ Below(y, z) /\ Below(z, z)
        BY <1>t, <2>6
      <4>2. Chosen(z) \in Approx(z) /\ Chosen(y) \in Approx(z)
        BY <4>1, <2>1, <3>1, <1>1
      <4>3. Chosen(z)[z] = Chosen(y)[z]
        BY <4>1, <4>2, <1>2
      <4>4. QED
        BY <4>1, <4>3, <2>5
    <3>3. F[<<y, h>>] = F[<<y, Chosen(y)>>]
      BY <3>1, <3>2, <2>4, <1>a, <1>s
    <3>4. Chosen(y)[y] = F[<<y, Chosen(y)>>]
      BY <3>1, <1>a
    <3>5. QED
      BY <3>3, <3>4, <2>5, <2>6
  <2>7. h[x] = F[<<x, h>>]
    BY <2>2, <2>4, <1>s
  <2>8. h \in Approx(x)
    BY <2>4, <2>6, <2>7 DEF Approx
  <2>9. QED
    BY <2>8
<1>4. \A x \in X : Approx(x) # {}
  <2> DEFINE D == {x \in X : Approx(x) = {}}
  <2>1. SUFFICES ASSUME D # {} PROVE FALSE
    OBVIOUS
  <2>2. PICK x \in D : \A w \in D : <<w, x>> \notin R
    BY <2>1, WFMin
  <2>3. QED
    BY <2>2, <1>3
<1> DEFINE H == [x \in X |-> Chosen(x)[x]]
<1>5. \A x \in X : Chosen(x) \in Approx(x) /\ H[x] = Chosen(x)[x]
  BY <1>4, <1>c
<1>6. H \in [X -> V]
  BY <1>5, <1>a
<1> HIDE DEF H
<1>7. ASSUME NEW x \in X PROVE H[x] = F[<<x, H>>]
  <2>1. ASSUME NEW y \in X, <<y, x>> \in R PROVE H[y] = Chosen(x)[y]
    <3>1. Below(x, y) /\ Below(y, y)
      BY <2>1
    <3>2. Chosen(x) \in Approx(y) /\ Chosen(y) \in Approx(y)
      BY <3>1, <1>1, <1>5
    <3>3. QED
      BY <3>1, <3>2, <1>2, <1>5
  <2>2. F[<<x, H>>] = F[<<x, Chosen(x)>>]
    BY <2>1, <1>5, <1>6, <1>a, <1>s
  <2>3. QED
    BY <2>2, <1>5, <1>a
<1>8. QED
  BY <1>6, <1>7 DEF Solves

\* Among subsets of a finite set there is one that contains no other.
LEMMA SmallestSet ==
  ASSUME NEW S, IsFiniteSet(S), NEW D \in SUBSET SUBSET S, D # {}
  PROVE  \E T \in D : \A U \in D : U \subseteq T => U = T
<1> DEFINE R == StrictSubsetOrdering(S)
<1>1. IsWellFoundedOn(R, SUBSET S)
  BY FS_StrictSubsetOrderingWellFounded, FS_FiniteSubsetsOfFinite
<1>2. \A U, T \in SUBSET S : <<U, T>> \in R <=> U \subseteq T /\ U # T
  BY DEF StrictSubsetOrdering
<1> HIDE DEF R
<1>3. PICK T \in D : \A U \in D : <<U, T>> \notin R
  BY <1>1, WFMin
<1>4. QED
  BY <1>2, <1>3

Pick(s) == CHOOSE x \in s : TRUE

IsIter(g, f, S) ==
  g = [s \in SUBSET S |-> IF s = {} THEN 0 ELSE f[Pick(s)] + g[s \ {Pick(s)}]]

\* The iteration that SumFunctionOnSet stands for exists,
LEMMA IterExists ==
  ASSUME NEW S, IsFiniteSet(S), NEW f, \A x \in S : f[x] \in Int
  PROVE  \E g : IsIter(g, f, S) /\ g \in [SUBSET S -> Int]
<1> DEFINE X == SUBSET S
           R == StrictSubsetOrdering(S)
           F == [p \in X \X [X -> Int] |->
                   IF p[1] = {} THEN 0 ELSE f[Pick(p[1])] + p[2][p[1] \ {Pick(p[1])}]]
<1>1. IsWellFoundedOn(R, X)
  BY FS_StrictSubsetOrderingWellFounded, FS_FiniteSubsetsOfFinite
<1>2. \A U, T \in X : <<U, T>> \in R <=> U \subseteq T /\ U # T
  BY DEF StrictSubsetOrdering
<1>3. IsTransitivelyClosedOn(R, X)
  <2> HIDE DEF R
  <2> QED BY <1>2 DEF IsTransitivelyClosedOn
<1>4. \A s \in X : s # {} => Pick(s) \in s /\ s \ {Pick(s)} \in X /\ <<s \ {Pick(s)}, s>> \in R
  BY <1>2 DEF Pick
<1>5. \A s \in X : \A g \in [X -> Int] :
         F[<<s, g>>] = IF s = {} THEN 0 ELSE f[Pick(s)] + g[s \ {Pick(s)}]
  OBVIOUS
<1>6. F \in [X \X [X -> Int] -> Int]
  <2> SUFFICES ASSUME NEW p \in X \X [X -> Int]
               PROVE  (IF p[1] = {} THEN 0 ELSE f[Pick(p[1])] + p[2][p[1] \ {Pick(p[1])}]) \in Int
    OBVIOUS
  <2>1. p[1] \in X /\ p[2] \in [X -> Int]
    OBVIOUS
  <2>2. CASE p[1] # {}
    <3>1. Pick(p[1]) \in p[1] /\ p[1] \ {Pick(p[1])} \in X
      BY <1>4, <2>1, <2>2
    <3>2. f[Pick(p[1])] \in Int
      BY <2>1, <3>1
    <3>3. p[2][p[1] \ {Pick(p[1])}] \in Int
      <4> HIDE DEF X
      <4> QED BY <2>1, <3>1
    <3>4. QED
      BY <2>2, <3>2, <3>3
  <2>3. QED
    BY <2>2
<1> HIDE DEF F, R
<1>7. \A s \in X : \A g, h \in [X -> Int] :
         (\A t \in X : <<t, s>> \in R => g[t] = h[t]) => F[<<s, g>>] = F[<<s, h>>]
  <2> SUFFICES ASSUME NEW s \in X, NEW g \in [X -> Int], NEW h \in [X -> Int],
                      \A t \in X : <<t, s>> \in R => g[t] = h[t]
               PROVE  F[<<s, g>>] = F[<<s, h>>]
    OBVIOUS
  <2>1. CASE s = {}
    BY <1>5, <2>1
  <2>2. CASE s # {}
    <3>1. g[s \ {Pick(s)}] = h[s \ {Pick(s)}]
      BY <1>4, <2>2
    <3>2. QED
      BY <1>5, <2>2, <3>1
  <2>3. QED
    BY <2>1, <2>2
<1>8. IsStep(F, X, Int, R)
  <2> HIDE DEF X
  <2> QED BY <1>6, <1>7 DEF IsStep
<1>9. PICK g : Solves(g, F, X, Int)
  <2>1. Int # {}
    OBVIOUS
  <2> HIDE DEF X
  <2> QED BY <1>1, <1>3, <1>8, <2>1, RecursionExists
<1>10. g = [s \in X |-> IF s = {} THEN 0 ELSE f[Pick(s)] + g[s \ {Pick(s)}]]
  BY <1>5, <1>9 DEF Solves
<1>11. QED
  BY <1>9, <1>10 DEF IsIter, Solves

\* and on a subset it is the one over that subset.
LEMMA IterUnique ==
  ASSUME NEW S, IsFiniteSet(S), NEW f, NEW T \in SUBSET S,
         NEW g, NEW h, IsIter(g, f, S), IsIter(h, f, T)
  PROVE  g[T] = h[T]
<1> DEFINE D == {s \in SUBSET T : g[s] # h[s]}
<1>1. SUFFICES ASSUME D # {} PROVE FALSE
  OBVIOUS
<1>2. PICK s \in D : \A u \in D : u \subseteq s => u = s
  <2>1. D \in SUBSET SUBSET S
    OBVIOUS
  <2> HIDE DEF D
  <2>2. QED
    BY <1>1, <2>1, SmallestSet
<1>3. /\ g[s] = IF s = {} THEN 0 ELSE f[Pick(s)] + g[s \ {Pick(s)}]
      /\ h[s] = IF s = {} THEN 0 ELSE f[Pick(s)] + h[s \ {Pick(s)}]
  BY DEF IsIter
<1>4. s # {}
  BY <1>3
<1>5. Pick(s) \in s
  BY <1>4 DEF Pick
<1>6. s \ {Pick(s)} \notin D
  BY <1>2, <1>5
<1>7. QED
  BY <1>3, <1>4, <1>6


\* The sum's iteration over the subsets of T.
SumIter(f, T) == CHOOSE g : IsIter(g, f, T)

\* SumFunctionOnSet is the end of its iteration.
LEMMA SumIterates ==
  ASSUME NEW T, NEW f
  PROVE  SumFunctionOnSet(f, T) = SumIter(f, T)[T]
BY DEF SumFunctionOnSet, FoldFunctionOnSet, MapThenFoldSet, IsIter, Pick, SumIter

\* A sum is an integer, of nothing zero, and takes the element the fold picks
\* and then the others.
LEMMA SumUnfold ==
  ASSUME NEW S, IsFiniteSet(S), NEW f, \A x \in S : f[x] \in Int
  PROVE  /\ SumFunctionOnSet(f, S) \in Int
         /\ S = {} => SumFunctionOnSet(f, S) = 0
         /\ S # {} => SumFunctionOnSet(f, S) =
                        f[Pick(S)] + SumFunctionOnSet(f, S \ {Pick(S)})
<1>1. ASSUME NEW T \in SUBSET S
      PROVE  IsIter(SumIter(f, T), f, T) /\ SumIter(f, T) \in [SUBSET T -> Int]
  <2>1. IsFiniteSet(T) /\ \A x \in T : f[x] \in Int
    BY FS_Subset
  <2>2. PICK g : IsIter(g, f, T) /\ g \in [SUBSET T -> Int]
    BY <2>1, IterExists
  <2>3. IsIter(SumIter(f, T), f, T)
    BY <2>2 DEF SumIter
  <2>4. \A s \in SUBSET T : SumIter(f, T)[s] = g[s]
    <3> SUFFICES ASSUME NEW s \in SUBSET T PROVE SumIter(f, T)[s] = g[s]
      OBVIOUS
    <3>1. IsFiniteSet(s) /\ \A x \in s : f[x] \in Int
      BY <2>1, FS_Subset
    <3>2. PICK h : IsIter(h, f, s)
      BY <3>1, IterExists
    <3>3. SumIter(f, T)[s] = h[s] /\ g[s] = h[s]
      BY <2>1, <2>2, <2>3, <3>2, IterUnique
    <3>4. QED
      BY <3>3
  <2>5. QED
    BY <2>2, <2>3, <2>4 DEF IsIter
<1>2. SumFunctionOnSet(f, S) = SumIter(f, S)[S]
  BY SumIterates
<1>3. SumFunctionOnSet(f, S) \in Int
  <2>1. S \in SUBSET S
    OBVIOUS
  <2>2. SumIter(f, S)[S] \in Int
    BY <1>1, <2>1
  <2>3. QED
    BY <1>2, <2>2
<1>4. SumIter(f, S)[S] = IF S = {} THEN 0 ELSE f[Pick(S)] + SumIter(f, S)[S \ {Pick(S)}]
  BY <1>1 DEF IsIter
<1>5. ASSUME S # {} PROVE SumIter(f, S)[S \ {Pick(S)}] = SumFunctionOnSet(f, S \ {Pick(S)})
  <2> DEFINE T == S \ {Pick(S)}
  <2>1. SumFunctionOnSet(f, T) = SumIter(f, T)[T]
    BY SumIterates
  <2>2. IsIter(SumIter(f, S), f, S) /\ IsIter(SumIter(f, T), f, T) /\ T \in SUBSET S
    BY <1>1
  <2>3. SumIter(f, S)[T] = SumIter(f, T)[T]
    <3> HIDE DEF T
    <3> QED BY <2>2, IterUnique
  <2>4. QED
    BY <2>1, <2>3
<1>6. QED
  BY <1>2, <1>3, <1>4, <1>5

\* An element of a set may be added last, whichever the fold picks.
LEMMA SumRemove ==
  ASSUME NEW S, IsFiniteSet(S), NEW f, \A x \in S : f[x] \in Int, NEW a \in S
  PROVE  SumFunctionOnSet(f, S) = f[a] + SumFunctionOnSet(f, S \ {a})
<1> DEFINE Sum(T) == SumFunctionOnSet(f, T)
           D == {T \in SUBSET S : \E x \in T : Sum(T) # f[x] + Sum(T \ {x})}
<1>1. SUFFICES ASSUME D # {} PROVE FALSE
  OBVIOUS
<1>2. PICK T \in D : \A U \in D : U \subseteq T => U = T
  <2>1. D \in SUBSET SUBSET S
    OBVIOUS
  <2> HIDE DEF D
  <2>2. QED
    BY <1>1, <2>1, SmallestSet
<1>3. PICK x \in T : Sum(T) # f[x] + Sum(T \ {x})
  BY <1>2
<1> DEFINE p == Pick(T)
           B == T \ {p, x}
<1>4. p \in T /\ f[p] \in Int /\ f[x] \in Int
  BY <1>3 DEF Pick
<1>5. \A U \in SUBSET S : IsFiniteSet(U) /\ \A y \in U : f[y] \in Int
  BY FS_Subset
<1>6. Sum(T) = f[p] + Sum(T \ {p})
  BY <1>3, <1>5, SumUnfold
<1>7. p # x
  BY <1>3, <1>6
<1>8. T \ {p} \notin D /\ T \ {x} \notin D
  BY <1>2, <1>3, <1>4
<1>9. Sum(T \ {p}) = f[x] + Sum((T \ {p}) \ {x})
  BY <1>3, <1>7, <1>8
<1>10. Sum(T \ {x}) = f[p] + Sum((T \ {x}) \ {p})
  BY <1>4, <1>7, <1>8
<1>11. (T \ {p}) \ {x} = B /\ (T \ {x}) \ {p} = B
  OBVIOUS
<1>12. Sum(B) \in Int
  <2>1. B \in SUBSET S
    OBVIOUS
  <2> HIDE DEF B
  <2>2. QED
    BY <1>5, <2>1, SumUnfold
<1> HIDE DEF Sum, p, B, D
<1>13. Sum((T \ {p}) \ {x}) = Sum(B) /\ Sum((T \ {x}) \ {p}) = Sum(B)
  BY <1>11, Zenon
<1>14. QED
  BY <1>3, <1>4, <1>6, <1>9, <1>10, <1>12, <1>13

\* Sums of nothing and of one summand.
LEMMA SumEmpty ==
  ASSUME NEW f
  PROVE  SumFunctionOnSet(f, {}) = 0
BY FS_EmptySet, SumUnfold

LEMMA SumOne ==
  ASSUME NEW f, NEW a, f[a] \in Int
  PROVE  SumFunctionOnSet(f, {a}) = f[a]
<1>1. IsFiniteSet({a})
  BY FS_Singleton
<1>2. \A x \in {a} : f[x] \in Int
  OBVIOUS
<1>3. a \in {a} /\ {a} \ {a} = {}
  OBVIOUS
<1>4. SumFunctionOnSet(f, {a}) = f[a] + SumFunctionOnSet(f, {a} \ {a})
  BY <1>1, <1>2, <1>3, SumRemove
<1>5. SumFunctionOnSet(f, {a} \ {a}) = 0
  BY <1>3, SumEmpty
<1>6. QED
  BY <1>4, <1>5

\* A new element adds its value.
LEMMA SumAdd ==
  ASSUME NEW S, IsFiniteSet(S), NEW a, a \notin S,
         NEW f, \A x \in S \cup {a} : f[x] \in Int
  PROVE  SumFunctionOnSet(f, S \cup {a}) = f[a] + SumFunctionOnSet(f, S)
<1>1. IsFiniteSet(S \cup {a})
  BY FS_AddElement
<1>2. SumFunctionOnSet(f, S \cup {a}) = f[a] + SumFunctionOnSet(f, (S \cup {a}) \ {a})
  BY <1>1, SumRemove
<1>3. (S \cup {a}) \ {a} = S
  OBVIOUS
<1>4. SumFunctionOnSet(f, (S \cup {a}) \ {a}) = SumFunctionOnSet(f, S)
  BY <1>3, Zenon
<1>5. QED
  BY <1>2, <1>4

\* A larger summand everywhere gives a larger sum.
LEMMA SumPointwise ==
  ASSUME NEW S, IsFiniteSet(S), NEW f, NEW g,
         \A x \in S : f[x] \in Int /\ g[x] \in Int /\ f[x] <= g[x]
  PROVE  SumFunctionOnSet(f, S) <= SumFunctionOnSet(g, S)
<1> DEFINE D == {T \in SUBSET S : ~ (SumFunctionOnSet(f, T) <= SumFunctionOnSet(g, T))}
<1>1. SUFFICES ASSUME D # {} PROVE FALSE
  BY DEF D
<1>2. PICK T \in D : \A U \in D : U \subseteq T => U = T
  <2>1. D \in SUBSET SUBSET S
    OBVIOUS
  <2> HIDE DEF D
  <2>2. QED
    BY <1>1, <2>1, SmallestSet
<1>3. IsFiniteSet(T) /\ \A x \in T : f[x] \in Int /\ g[x] \in Int /\ f[x] <= g[x]
  BY FS_Subset
<1>4. T # {}
  <2>1. SumFunctionOnSet(f, {}) = 0 /\ SumFunctionOnSet(g, {}) = 0
    BY FS_EmptySet, SumUnfold
  <2>2. QED
    BY <2>1
<1>5. PICK a \in T : TRUE
  BY <1>4
<1>6. IsFiniteSet(T \ {a})
  BY <1>3, FS_RemoveElement
<1>7. /\ SumFunctionOnSet(f, T \ {a}) \in Int
      /\ SumFunctionOnSet(g, T \ {a}) \in Int
  BY <1>3, <1>6, SumUnfold
<1>8. SumFunctionOnSet(f, T \ {a}) <= SumFunctionOnSet(g, T \ {a})
  BY <1>2, <1>5
<1>9. /\ SumFunctionOnSet(f, T) = f[a] + SumFunctionOnSet(f, T \ {a})
      /\ SumFunctionOnSet(g, T) = g[a] + SumFunctionOnSet(g, T \ {a})
  BY <1>3, SumRemove
<1>10. ~ (SumFunctionOnSet(f, T) <= SumFunctionOnSet(g, T))
  OBVIOUS
<1> HIDE DEF D
<1>11. QED
  BY <1>3, <1>7, <1>8, <1>9, <1>10

\* A sum depends on the values in its set only.
LEMMA SumAgree ==
  ASSUME NEW S, IsFiniteSet(S), NEW f, NEW g,
         \A x \in S : f[x] \in Int /\ g[x] = f[x]
  PROVE  SumFunctionOnSet(f, S) = SumFunctionOnSet(g, S)
<1>1. \A x \in S : f[x] \in Int /\ g[x] \in Int /\ f[x] <= g[x] /\ g[x] <= f[x]
  OBVIOUS
<1>2. SumFunctionOnSet(f, S) \in Int /\ SumFunctionOnSet(g, S) \in Int
  BY <1>1, SumUnfold
<1>3. SumFunctionOnSet(f, S) <= SumFunctionOnSet(g, S)
  BY <1>1, SumPointwise
<1>4. SumFunctionOnSet(g, S) <= SumFunctionOnSet(f, S)
  BY <1>1, SumPointwise
<1>5. QED
  BY <1>2, <1>3, <1>4

\* Sums over sets that have nothing in common add up.
LEMMA SumUnion ==
  ASSUME NEW S, IsFiniteSet(S), NEW T, IsFiniteSet(T), S \cap T = {},
         NEW f, \A x \in S \cup T : f[x] \in Int
  PROVE  SumFunctionOnSet(f, S \cup T) = SumFunctionOnSet(f, S) + SumFunctionOnSet(f, T)
<1> DEFINE Sum(U) == SumFunctionOnSet(f, U)
           D == {U \in SUBSET T : Sum(S \cup U) # Sum(S) + Sum(U)}
<1>1. SUFFICES ASSUME D # {} PROVE FALSE
  BY DEF D
<1>2. PICK U \in D : \A W \in D : W \subseteq U => W = U
  <2>1. D \in SUBSET SUBSET T
    OBVIOUS
  <2> HIDE DEF D
  <2>2. QED
    BY <1>1, <2>1, SmallestSet
<1>3. \A W \in SUBSET T : IsFiniteSet(W) /\ IsFiniteSet(S \cup W)
  BY FS_Subset, FS_Union
<1>4. \A W \in SUBSET T : Sum(W) \in Int /\ Sum(S) \in Int /\ Sum(S \cup W) \in Int
  BY <1>3, SumUnfold
<1>5. U # {}
  <2>1. Sum({}) = 0
    BY FS_EmptySet, SumUnfold
  <2>2. S \cup {} = S
    OBVIOUS
  <2>3. Sum(S \cup {}) = Sum(S)
    BY <2>2, Zenon
  <2>4. {} \in SUBSET T
    OBVIOUS
  <2>5. Sum(S \cup {}) = Sum(S) + Sum({})
    <3> HIDE DEF Sum
    <3> QED BY <1>4, <2>1, <2>3, <2>4
  <2>6. {} \notin D
    BY <2>5
  <2> HIDE DEF D
  <2>7. QED
    BY <1>2, <2>6
<1>6. PICK a \in U : TRUE
  BY <1>5
<1> DEFINE V == U \ {a}
<1>7. V \in SUBSET T /\ V \notin D /\ V \in SUBSET U /\ U \in SUBSET T
  BY <1>2, <1>6
<1>8. Sum(S \cup V) = Sum(S) + Sum(V)
  BY <1>7
<1>9. Sum(U) = f[a] + Sum(V)
  BY <1>3, <1>7, SumRemove
<1>10. Sum(S \cup U) = f[a] + Sum((S \cup U) \ {a})
  BY <1>3, <1>7, SumRemove
<1>11. (S \cup U) \ {a} = S \cup V
  BY <1>7
<1>12. Sum((S \cup U) \ {a}) = Sum(S \cup V)
  <2> HIDE DEF Sum, V
  <2> QED BY <1>11, Zenon
<1>13. f[a] \in Int
  BY <1>7
<1>14. Sum(S \cup U) # Sum(S) + Sum(U)
  OBVIOUS
<1> HIDE DEF Sum, V, D
<1>15. QED
  BY <1>4, <1>7, <1>8, <1>9, <1>10, <1>12, <1>13, <1>14

\* The values of a function on a finite set are finitely many.
LEMMA ImageFinite ==
  ASSUME NEW S, IsFiniteSet(S), NEW f
  PROVE  IsFiniteSet({f[x] : x \in S})
<1> DEFINE T == {f[x] : x \in S}
           g == [x \in S |-> f[x]]
<1>1. g \in Surjection(S, T)
  BY DEF Surjection
<1> HIDE DEF g, T
<1>2. IsFiniteSet(T)
  BY <1>1, FS_Surjection
<1>3. QED
  BY <1>2 DEF T

\* Sums of natural numbers.
LEMMA SumNat ==
  ASSUME NEW S, IsFiniteSet(S), NEW f, \A x \in S : f[x] \in Nat
  PROVE  SumFunctionOnSet(f, S) \in Nat
<1> DEFINE D == {T \in SUBSET S : SumFunctionOnSet(f, T) \notin Nat}
<1>1. SUFFICES ASSUME D # {} PROVE FALSE
  BY DEF D
<1>2. PICK T \in D : \A U \in D : U \subseteq T => U = T
  <2>1. D \in SUBSET SUBSET S
    OBVIOUS
  <2> HIDE DEF D
  <2>2. QED
    BY <1>1, <2>1, SmallestSet
<1>3. IsFiniteSet(T) /\ \A x \in T : f[x] \in Int
  BY FS_Subset
<1>4. T # {}
  <2>1. SumFunctionOnSet(f, {}) = 0
    BY FS_EmptySet, SumUnfold
  <2>2. QED
    BY <2>1
<1>5. PICK a \in T : TRUE
  BY <1>4
<1>6. SumFunctionOnSet(f, T \ {a}) \in Nat
  BY <1>2, <1>5
<1>7. SumFunctionOnSet(f, T) = f[a] + SumFunctionOnSet(f, T \ {a})
  BY <1>3, SumRemove
<1>8. f[a] \in Nat
  OBVIOUS
<1>9. SumFunctionOnSet(f, T) \notin Nat
  OBVIOUS
<1> HIDE DEF D
<1>10. QED
  BY <1>6, <1>7, <1>8, <1>9

\* A part of a sum of natural numbers is no more than the whole.
LEMMA SumMonotone ==
  ASSUME NEW S, IsFiniteSet(S), NEW f, \A x \in S : f[x] \in Nat, NEW T \in SUBSET S
  PROVE  SumFunctionOnSet(f, T) <= SumFunctionOnSet(f, S)
<1>1. IsFiniteSet(T) /\ IsFiniteSet(S \ T)
  BY FS_Subset, FS_Difference
<1>2. SumFunctionOnSet(f, T) \in Nat /\ SumFunctionOnSet(f, S \ T) \in Nat
  BY <1>1, SumNat
<1>3. SumFunctionOnSet(f, T \cup (S \ T)) = SumFunctionOnSet(f, T) + SumFunctionOnSet(f, S \ T)
  BY <1>1, SumUnion
<1>4. T \cup (S \ T) = S
  OBVIOUS
<1>5. SumFunctionOnSet(f, T \cup (S \ T)) = SumFunctionOnSet(f, S)
  BY <1>4, Zenon
<1>6. QED
  BY <1>2, <1>3, <1>5

\* Elements sent to different places, where at least as much is summed.
LEMMA SumInjection ==
  ASSUME NEW T, IsFiniteSet(T), NEW R, IsFiniteSet(R), NEW f, NEW g, NEW h,
         \A x \in T : h[x] \in R /\ f[x] \in Nat /\ f[x] <= g[h[x]],
         \A x, y \in T : h[x] = h[y] => x = y,
         \A r \in R : g[r] \in Nat
  PROVE  SumFunctionOnSet(f, T) <= SumFunctionOnSet(g, R)
<1> DEFINE Image(U) == {h[x] : x \in U}
           Least(U) == SumFunctionOnSet(f, U) <= SumFunctionOnSet(g, Image(U))
           D == {U \in SUBSET T : ~ Least(U)}
<1>a. \A U \in SUBSET T : IsFiniteSet(U) /\ IsFiniteSet(Image(U)) /\ Image(U) \subseteq R
  BY FS_Subset
<1>1. ASSUME D # {} PROVE FALSE
  <2>1. PICK U \in D : \A W \in D : W \subseteq U => W = U
    <3>1. D \in SUBSET SUBSET T
      OBVIOUS
    <3> HIDE DEF D
    <3>2. QED
      BY <1>1, <3>1, SmallestSet
  <2>2. U # {}
    <3>1. SumFunctionOnSet(f, {}) = 0 /\ SumFunctionOnSet(g, {}) = 0
      BY FS_EmptySet, SumUnfold
    <3>2. Image({}) = {}
      OBVIOUS
    <3>3. SumFunctionOnSet(g, Image({})) = SumFunctionOnSet(g, {})
      <4> HIDE DEF Image
      <4> QED BY <3>2, Zenon
    <3>4. Least({})
      BY <3>1, <3>3
    <3>5. {} \notin D
      BY <3>4
    <3> HIDE DEF D
    <3>6. QED
      BY <2>1, <3>5
  <2>3. PICK a \in U : TRUE
    BY <2>2
  <2> DEFINE V == U \ {a}
  <2>4. V \in SUBSET T /\ U \in SUBSET T /\ Least(V) /\ ~ Least(U)
    BY <2>1, <2>3
  <2>5. SumFunctionOnSet(f, U) = f[a] + SumFunctionOnSet(f, V)
    <3>1. U \in SUBSET T
      BY <2>4
    <3>2. \A x \in U : f[x] \in Int
      BY <3>1
    <3>3. IsFiniteSet(U)
      BY <3>1, FS_Subset
    <3> HIDE DEF D
    <3>4. QED
      BY <2>3, <3>2, <3>3, SumRemove
  <2>6. Image(U) = Image(V) \cup {h[a]} /\ h[a] \notin Image(V)
    BY <2>3, <2>4
  <2>7. SumFunctionOnSet(g, Image(U)) = SumFunctionOnSet(g, Image(V) \cup {h[a]})
    <3> HIDE DEF Image, V
    <3> QED BY <2>6, Zenon
  <2>8. SumFunctionOnSet(g, Image(V) \cup {h[a]}) = g[h[a]] + SumFunctionOnSet(g, Image(V))
    <3>1. \A r \in Image(V) \cup {h[a]} : g[r] \in Int
      BY <1>a, <2>4
    <3> HIDE DEF Image, V
    <3>2. QED
      BY <1>a, <2>4, <2>6, <3>1, SumAdd
  <2>9. SumFunctionOnSet(f, V) \in Nat /\ SumFunctionOnSet(g, Image(V)) \in Nat
    <3> HIDE DEF Image, V
    <3> QED BY <1>a, <2>4, SumNat
  <2>10. f[a] \in Nat /\ g[h[a]] \in Nat /\ f[a] <= g[h[a]]
    BY <2>4
  <2>11. SumFunctionOnSet(f, V) <= SumFunctionOnSet(g, Image(V))
    BY <2>4
  <2>12. ~ (SumFunctionOnSet(f, U) <= SumFunctionOnSet(g, Image(U)))
    BY <2>4
  <2> HIDE DEF Image, V, Least, D
  <2>13. QED
    BY <2>5, <2>7, <2>8, <2>9, <2>10, <2>11, <2>12
<1>2. Least(T)
  BY <1>1
<1>3. SumFunctionOnSet(g, Image(T)) <= SumFunctionOnSet(g, R)
  <2>1. Image(T) \in SUBSET R
    OBVIOUS
  <2> HIDE DEF Image
  <2>2. QED
    BY <2>1, SumMonotone
<1>4. /\ SumFunctionOnSet(f, T) \in Nat /\ SumFunctionOnSet(g, R) \in Nat
      /\ SumFunctionOnSet(g, Image(T)) \in Nat
  <2>1. \A r \in Image(T) : g[r] \in Nat
    OBVIOUS
  <2>2. IsFiniteSet(Image(T))
    BY <1>a
  <2> HIDE DEF Image
  <2>3. QED
    BY <2>1, <2>2, SumNat
<1>5. QED
  BY <1>2, <1>3, <1>4

\* A finite set of integers that is not empty has a maximum.
LEMMA MaxExists ==
  ASSUME NEW S, IsFiniteSet(S), S # {}, \A x \in S : x \in Int
  PROVE  Max(S) \in S /\ \A y \in S : Max(S) >= y
<1> DEFINE HasMax(T) == \E x \in T : \A y \in T : x >= y
           D == {T \in SUBSET S : T # {} /\ ~ HasMax(T)}
<1>1. ASSUME D # {} PROVE FALSE
  <2>1. PICK T \in D : \A U \in D : U \subseteq T => U = T
    <3>1. D \in SUBSET SUBSET S
      OBVIOUS
    <3> HIDE DEF D
    <3>2. QED
      BY <1>1, <3>1, SmallestSet
  <2>2. PICK a \in T : TRUE
    OBVIOUS
  <2> DEFINE V == T \ {a}
  <2>3. CASE V = {}
    BY <2>3
  <2>4. CASE V # {}
    <3>1. V \notin D
      BY <2>1
    <3>2. PICK x \in V : \A y \in V : x >= y
      BY <2>4, <3>1
    <3>3. a \in Int /\ x \in Int /\ \A y \in V : y \in Int
      OBVIOUS
    <3>4. CASE x >= a
      <4>1. \A y \in T : x >= y
        BY <3>2, <3>4
      <4>2. QED
        BY <4>1
    <3>5. CASE ~ (x >= a)
      <4>1. \A y \in T : a >= y
        BY <3>2, <3>3, <3>5
      <4>2. QED
        BY <4>1
    <3>6. QED
      BY <3>4, <3>5
  <2>5. QED
    BY <2>3, <2>4
<1>2. HasMax(S)
  BY <1>1
<1>3. QED
  BY <1>2 DEF Max

-----------------------------------------------------------------------------
(* Ranks                                                                   *)

\* An element of least rank.
LEMMA LeastRank ==
  ASSUME NEW T, T # {}, NEW f, \A x \in T : f[x] \in Nat
  PROVE  \E x \in T : \A y \in T : f[x] <= f[y]
<1> DEFINE Ranks == {f[x] : x \in T}
<1>1. Ranks \in SUBSET Nat /\ Ranks # {}
  OBVIOUS
<1>2. PICK m \in Ranks : \A n \in Ranks : m <= n
  <2> HIDE DEF Ranks
  <2> QED BY <1>1, NatMin
<1>3. QED
  BY <1>2

\* One of the summands is no more than the sum.
LEMMA SumBound ==
  ASSUME NEW T, IsFiniteSet(T), NEW f, \A x \in T : f[x] \in Nat
  PROVE  \A x \in T : f[x] <= SumFunctionOnSet(f, T)
<1> SUFFICES ASSUME NEW x \in T PROVE f[x] <= SumFunctionOnSet(f, T)
  OBVIOUS
<1>1. IsFiniteSet(T \ {x})
  BY FS_RemoveElement
<1>2. SumFunctionOnSet(f, T \ {x}) \in Nat
  BY <1>1, SumNat
<1>3. SumFunctionOnSet(f, T) = f[x] + SumFunctionOnSet(f, T \ {x})
  BY SumRemove
<1>4. QED
  BY <1>2, <1>3

\* An element of greatest rank, in a finite set.
LEMMA GreatestRank ==
  ASSUME NEW T, IsFiniteSet(T), T # {}, NEW f, \A x \in T : f[x] \in Nat
  PROVE  \E x \in T : \A y \in T : f[y] <= f[x]
<1> DEFINE Total == SumFunctionOnSet(f, T)
           g == [x \in T |-> Total - f[x]]
<1>1. Total \in Nat /\ \A x \in T : f[x] <= Total
  BY SumNat, SumBound
<1> HIDE DEF Total
<1>2. \A x \in T : g[x] \in Nat
  BY <1>1
<1>3. PICK x \in T : \A y \in T : g[x] <= g[y]
  <2> HIDE DEF g
  <2> QED BY <1>2, LeastRank
<1>4. ASSUME NEW y \in T PROVE f[y] <= f[x]
  BY <1>1, <1>3
<1>5. QED
  BY <1>4

\* Pairs of growing rank.
Growing(rank, X) == {p \in X \X X : rank[p[1]] < rank[p[2]]}

LEMMA RankWellFounded ==
  ASSUME NEW X, NEW rank, \A x \in X : rank[x] \in Nat
  PROVE  /\ IsWellFoundedOn(Growing(rank, X), X)
         /\ IsTransitivelyClosedOn(Growing(rank, X), X)
         /\ \A x, y \in X : <<x, y>> \in Growing(rank, X) <=> rank[x] < rank[y]
<1>1. \A x, y \in X : <<x, y>> \in Growing(rank, X) <=> rank[x] < rank[y]
  BY DEF Growing
<1>2. ASSUME NEW T \in SUBSET X, T # {}
      PROVE  \E x \in T : \A y \in T : <<y, x>> \notin Growing(rank, X)
  <2>1. PICK x \in T : \A y \in T : rank[x] <= rank[y]
    BY <1>2, LeastRank
  <2>2. ASSUME NEW y \in T PROVE <<y, x>> \notin Growing(rank, X)
    <3>1. x \in X /\ y \in X /\ rank[x] \in Nat /\ rank[y] \in Nat
      OBVIOUS
    <3>2. QED
      BY <1>1, <2>1, <3>1
  <2>3. QED
    BY <2>2
<1>3. IsWellFoundedOn(Growing(rank, X), X)
  BY <1>2, MinWF
<1>4. IsTransitivelyClosedOn(Growing(rank, X), X)
  BY <1>1 DEF IsTransitivelyClosedOn
<1>5. QED
  BY <1>1, <1>3, <1>4

\* A sum in another order or under other names.
LEMMA SumRename ==
  ASSUME NEW T, IsFiniteSet(T), NEW R, IsFiniteSet(R), NEW f, NEW g, NEW h, NEW k,
         \A x \in T : h[x] \in R /\ k[h[x]] = x /\ f[x] \in Nat /\ f[x] = g[h[x]],
         \A r \in R : k[r] \in T /\ h[k[r]] = r
  PROVE  SumFunctionOnSet(f, T) = SumFunctionOnSet(g, R)
<1>1. \A r \in R : g[r] \in Nat /\ g[r] = f[k[r]]
  OBVIOUS
<1>2. /\ \A x \in T : h[x] \in R /\ f[x] \in Nat /\ f[x] <= g[h[x]]
      /\ \A x, y \in T : h[x] = h[y] => x = y
  BY <1>1
<1>3. SumFunctionOnSet(f, T) <= SumFunctionOnSet(g, R)
  BY <1>1, <1>2, SumInjection
<1>4. /\ \A r \in R : k[r] \in T /\ g[r] \in Nat /\ g[r] <= f[k[r]]
      /\ \A r, s \in R : k[r] = k[s] => r = s
  BY <1>1
<1>5. SumFunctionOnSet(g, R) <= SumFunctionOnSet(f, T)
  BY <1>2, <1>4, SumInjection
<1>6. SumFunctionOnSet(f, T) \in Nat /\ SumFunctionOnSet(g, R) \in Nat
  BY <1>1, SumNat
<1>7. QED
  BY <1>3, <1>5, <1>6

\* A sum over a stretch of the integers is one over a stretch from one on.
LEMMA SumShift ==
  ASSUME NEW b \in Int, NEW n \in Nat, NEW f, NEW g,
         \A j \in 1 .. n : f[b + j] \in Nat /\ g[j] = f[b + j]
  PROVE  /\ IsFiniteSet(b + 1 .. b + n) /\ IsFiniteSet(1 .. n)
         /\ SumFunctionOnSet(f, b + 1 .. b + n) = SumFunctionOnSet(g, 1 .. n)
<1> DEFINE T == b + 1 .. b + n
           R == 1 .. n
           h == [i \in T |-> i - b]
           k == [j \in R |-> b + j]
<1>1. IsFiniteSet(T) /\ IsFiniteSet(R)
  BY FS_Interval
<1>2. \A i \in T : h[i] \in R /\ k[h[i]] = i /\ f[i] \in Nat /\ f[i] = g[h[i]]
  <2>1. \A i \in T : i - b \in R /\ b + (i - b) = i
    OBVIOUS
  <2>2. QED
    BY <2>1
<1>3. \A j \in R : k[j] \in T /\ h[k[j]] = j
  OBVIOUS
<1> HIDE DEF T, R, h, k
<1>4. SumFunctionOnSet(f, T) = SumFunctionOnSet(g, R)
  BY <1>1, <1>2, <1>3, SumRename
<1>5. QED
  BY <1>1, <1>4 DEF T, R

\* Up to the n-th and with the next one.
LEMMA SumNext ==
  ASSUME NEW n \in Nat, NEW f, \A i \in 1 .. n + 1 : f[i] \in Int
  PROVE  SumFunctionOnSet(f, 1 .. n + 1) = f[n + 1] + SumFunctionOnSet(f, 1 .. n)
<1>1. IsFiniteSet(1 .. n + 1) /\ n + 1 \in 1 .. n + 1
  BY FS_Interval
<1>2. SumFunctionOnSet(f, 1 .. n + 1) = f[n + 1] + SumFunctionOnSet(f, (1 .. n + 1) \ {n + 1})
  BY <1>1, SumRemove
<1>3. (1 .. n + 1) \ {n + 1} = 1 .. n
  OBVIOUS
<1>4. SumFunctionOnSet(f, (1 .. n + 1) \ {n + 1}) = SumFunctionOnSet(f, 1 .. n)
  BY <1>3, Zenon
<1>5. QED
  BY <1>2, <1>4

\* A sum of equal shares.
LEMMA SumShares ==
  ASSUME NEW n \in Nat, NEW q \in Nat, NEW f, \A i \in 1 .. n : f[i] = q
  PROVE  SumFunctionOnSet(f, 1 .. n) = n * q
<1> DEFINE D == {k \in 0 .. n : SumFunctionOnSet(f, 1 .. k) # k * q}
<1>1. SUFFICES ASSUME D # {} PROVE FALSE
  BY DEF D
<1>2. PICK k \in D : \A m \in D : k <= m
  <2>1. D \in SUBSET Nat
    OBVIOUS
  <2> HIDE DEF D
  <2>2. QED
    BY <1>1, <2>1, NatMin
<1>3. k # 0
  <2>1. 1 .. 0 = {}
    OBVIOUS
  <2>2. SumFunctionOnSet(f, 1 .. 0) = SumFunctionOnSet(f, {})
    BY <2>1, Zenon
  <2>3. SumFunctionOnSet(f, 1 .. 0) = 0
    BY <2>2, SumEmpty
  <2>4. 0 * q = 0
    OBVIOUS
  <2>5. QED
    BY <2>3, <2>4
<1> DEFINE m == k - 1
<1>4. m \in Nat /\ m + 1 = k /\ m \in 0 .. n /\ k \in Nat /\ k <= n
  BY <1>3
<1>5. \A i \in 1 .. m + 1 : f[i] = q /\ f[i] \in Int
  BY <1>4
<1>6. SumFunctionOnSet(f, 1 .. m + 1) = f[m + 1] + SumFunctionOnSet(f, 1 .. m)
  <2> HIDE DEF m
  <2> QED BY <1>4, <1>5, SumNext
<1>7. f[m + 1] = q
  BY <1>4, <1>5
<1>8. SumFunctionOnSet(f, 1 .. m) = m * q
  <2>1. m \notin D
    BY <1>2, <1>4
  <2>2. QED
    BY <1>4, <2>1
<1>9. (m + 1) * q = q + m * q
  <2> HIDE DEF m
  <2> QED BY <1>4
<1>10. SumFunctionOnSet(f, 1 .. k) # k * q
  OBVIOUS
<1> HIDE DEF m, D
<1>11. QED
  BY <1>4, <1>6, <1>7, <1>8, <1>9, <1>10

\* One value of a function changes.
LEMMA SumExcept ==
  ASSUME NEW S, IsFiniteSet(S), NEW f, NEW g, DOMAIN f = S, DOMAIN g = S,
         \A x \in S : f[x] \in Int /\ g[x] \in Int,
         NEW a \in S, \A x \in S \ {a} : g[x] = f[x]
  PROVE  /\ SumFunction(f) \in Int
         /\ SumFunction(g) = SumFunction(f) - f[a] + g[a]
<1>1. IsFiniteSet(S \ {a})
  BY FS_RemoveElement
<1>2. SumFunction(f) = SumFunctionOnSet(f, S) /\ SumFunction(g) = SumFunctionOnSet(g, S)
  BY DEF SumFunction
<1>3. /\ SumFunctionOnSet(f, S) = f[a] + SumFunctionOnSet(f, S \ {a})
      /\ SumFunctionOnSet(g, S) = g[a] + SumFunctionOnSet(g, S \ {a})
  BY SumRemove
<1>4. \A x \in S \ {a} : f[x] \in Int /\ g[x] = f[x]
  OBVIOUS
<1>5. SumFunctionOnSet(f, S \ {a}) = SumFunctionOnSet(g, S \ {a})
  BY <1>1, <1>4, SumAgree
<1>6. /\ SumFunctionOnSet(f, S \ {a}) \in Int
      /\ SumFunctionOnSet(f, S) \in Int
  BY <1>1, <1>4, SumUnfold
<1>7. f[a] \in Int /\ g[a] \in Int
  OBVIOUS
<1>8. QED
  BY <1>2, <1>3, <1>5, <1>6, <1>7

\* The numbers up to n.
LEMMA IntervalCounted ==
  ASSUME NEW n \in Nat
  PROVE  IsFiniteSet(1 .. n) /\ Cardinality(1 .. n) = n
<1>1. IsFiniteSet(1 .. n) /\ Cardinality(1 .. n) = IF 1 > n THEN 0 ELSE n - 1 + 1
  BY FS_Interval
<1>2. QED
  BY <1>1

\* A sum of nothing but zeros.
LEMMA SumZero ==
  ASSUME NEW S, IsFiniteSet(S), NEW f, \A x \in S : f[x] = 0
  PROVE  SumFunctionOnSet(f, S) = 0
<1> DEFINE D == {T \in SUBSET S : SumFunctionOnSet(f, T) # 0}
<1>1. SUFFICES ASSUME D # {} PROVE FALSE
  BY DEF D
<1>2. PICK T \in D : \A U \in D : U \subseteq T => U = T
  <2>1. D \in SUBSET SUBSET S
    OBVIOUS
  <2> HIDE DEF D
  <2>2. QED
    BY <1>1, <2>1, SmallestSet
<1>3. T \in SUBSET S /\ SumFunctionOnSet(f, T) # 0
  OBVIOUS
<1>4. T # {}
  BY <1>3, SumEmpty
<1>5. PICK a \in T : TRUE
  BY <1>4
<1>6. T \ {a} \in SUBSET S /\ T \ {a} \subseteq T /\ T \ {a} # T
  BY <1>3, <1>5
<1>7. SumFunctionOnSet(f, T \ {a}) = 0
  BY <1>2, <1>6
<1>8. IsFiniteSet(T) /\ \A x \in T : f[x] = 0 /\ f[x] \in Int
  BY <1>3, FS_Subset
<1>9. SumFunctionOnSet(f, T) = f[a] + SumFunctionOnSet(f, T \ {a})
  BY <1>5, <1>8, SumRemove
<1>10. QED
  BY <1>3, <1>5, <1>7, <1>8, <1>9

LEMMA MultipleInt ==
  ASSUME NEW c \in Int, NEW x \in Int
  PROVE  c * x \in Int
OBVIOUS

\* A sum of a multiple and something else.
LEMMA SumLinear ==
  ASSUME NEW S, IsFiniteSet(S), NEW f, NEW g, NEW h, NEW c \in Int,
         \A x \in S : f[x] \in Int /\ g[x] \in Int /\ h[x] = c * f[x] + g[x]
  PROVE  /\ SumFunctionOnSet(f, S) \in Int /\ SumFunctionOnSet(g, S) \in Int
         /\ SumFunctionOnSet(h, S) = c * SumFunctionOnSet(f, S) + SumFunctionOnSet(g, S)
<1> DEFINE D == {T \in SUBSET S :
                    SumFunctionOnSet(h, T) # c * SumFunctionOnSet(f, T) + SumFunctionOnSet(g, T)}
<1>0. \A x \in S : h[x] \in Int
  BY MultipleInt
<1>1. SumFunctionOnSet(f, S) \in Int /\ SumFunctionOnSet(g, S) \in Int
  BY SumUnfold
<1>2. SUFFICES ASSUME D # {} PROVE FALSE
  BY <1>1 DEF D
<1>3. PICK T \in D : \A U \in D : U \subseteq T => U = T
  <2>1. D \in SUBSET SUBSET S
    OBVIOUS
  <2> HIDE DEF D
  <2>2. QED
    BY <1>2, <2>1, SmallestSet
<1>4. IsFiniteSet(T) /\ \A x \in T : f[x] \in Int /\ g[x] \in Int /\ h[x] = c * f[x] + g[x] /\ h[x] \in Int
  BY <1>0, FS_Subset
<1>5. T # {}
  <2>1. /\ SumFunctionOnSet(f, {}) = 0 /\ SumFunctionOnSet(g, {}) = 0
        /\ SumFunctionOnSet(h, {}) = 0
    BY SumEmpty
  <2>2. c * 0 + 0 = 0
    OBVIOUS
  <2>3. QED
    BY <2>1, <2>2
<1>6. PICK a \in T : TRUE
  BY <1>5
<1>7. IsFiniteSet(T \ {a})
  BY <1>4, FS_RemoveElement
<1>8. /\ SumFunctionOnSet(f, T \ {a}) \in Int
      /\ SumFunctionOnSet(g, T \ {a}) \in Int
  BY <1>4, <1>7, SumUnfold
<1>9. SumFunctionOnSet(h, T \ {a}) = c * SumFunctionOnSet(f, T \ {a}) + SumFunctionOnSet(g, T \ {a})
  BY <1>3, <1>6
<1>10. /\ SumFunctionOnSet(f, T) = f[a] + SumFunctionOnSet(f, T \ {a})
       /\ SumFunctionOnSet(g, T) = g[a] + SumFunctionOnSet(g, T \ {a})
       /\ SumFunctionOnSet(h, T) = h[a] + SumFunctionOnSet(h, T \ {a})
  BY <1>4, SumRemove
<1>11. SumFunctionOnSet(h, T) # c * SumFunctionOnSet(f, T) + SumFunctionOnSet(g, T)
  OBVIOUS
<1> HIDE DEF D
<1>12. f[a] \in Int /\ g[a] \in Int /\ h[a] = c * f[a] + g[a]
  BY <1>4
<1>13. \A p, q, r, s \in Int : c * p + q + (c * r + s) = c * (p + r) + (q + s)
  BY SMTT(30)
<1>14. QED
  BY <1>8, <1>9, <1>10, <1>11, <1>12, <1>13

\* The sum of two functions.
LEMMA SumPlus ==
  ASSUME NEW S, IsFiniteSet(S), NEW f, NEW g, NEW h,
         \A x \in S : f[x] \in Int /\ g[x] \in Int /\ h[x] = f[x] + g[x]
  PROVE  /\ SumFunctionOnSet(f, S) \in Int /\ SumFunctionOnSet(g, S) \in Int
         /\ SumFunctionOnSet(h, S) = SumFunctionOnSet(f, S) + SumFunctionOnSet(g, S)
<1> DEFINE D == {T \in SUBSET S :
                    SumFunctionOnSet(h, T) # SumFunctionOnSet(f, T) + SumFunctionOnSet(g, T)}
<1>1. SumFunctionOnSet(f, S) \in Int /\ SumFunctionOnSet(g, S) \in Int
  BY SumUnfold
<1>2. SUFFICES ASSUME D # {} PROVE FALSE
  BY <1>1 DEF D
<1>3. PICK T \in D : \A U \in D : U \subseteq T => U = T
  <2>1. D \in SUBSET SUBSET S
    OBVIOUS
  <2> HIDE DEF D
  <2>2. QED
    BY <1>2, <2>1, SmallestSet
<1>4. IsFiniteSet(T) /\ \A x \in T : f[x] \in Int /\ g[x] \in Int /\ h[x] = f[x] + g[x] /\ h[x] \in Int
  BY FS_Subset
<1>5. T # {}
  <2>1. /\ SumFunctionOnSet(f, {}) = 0 /\ SumFunctionOnSet(g, {}) = 0
        /\ SumFunctionOnSet(h, {}) = 0
    BY SumEmpty
  <2>2. 0 + 0 = 0
    OBVIOUS
  <2>3. QED
    BY <2>1, <2>2
<1>6. PICK a \in T : TRUE
  BY <1>5
<1>7. IsFiniteSet(T \ {a})
  BY <1>4, FS_RemoveElement
<1>8. /\ SumFunctionOnSet(f, T \ {a}) \in Int
      /\ SumFunctionOnSet(g, T \ {a}) \in Int
  BY <1>4, <1>7, SumUnfold
<1>9. SumFunctionOnSet(h, T \ {a}) = SumFunctionOnSet(f, T \ {a}) + SumFunctionOnSet(g, T \ {a})
  BY <1>3, <1>6
<1>10. /\ SumFunctionOnSet(f, T) = f[a] + SumFunctionOnSet(f, T \ {a})
       /\ SumFunctionOnSet(g, T) = g[a] + SumFunctionOnSet(g, T \ {a})
       /\ SumFunctionOnSet(h, T) = h[a] + SumFunctionOnSet(h, T \ {a})
  BY <1>4, SumRemove
<1>11. SumFunctionOnSet(h, T) # SumFunctionOnSet(f, T) + SumFunctionOnSet(g, T)
  OBVIOUS
<1> HIDE DEF D
<1>12. f[a] \in Int /\ g[a] \in Int /\ h[a] = f[a] + g[a]
  BY <1>4
<1>13. QED
  BY <1>8, <1>9, <1>10, <1>11, <1>12

\* A sum of multiples.
LEMMA SumMultiple ==
  ASSUME NEW S, IsFiniteSet(S), NEW f, NEW h, NEW c \in Int,
         \A x \in S : f[x] \in Int /\ h[x] = c * f[x]
  PROVE  /\ SumFunctionOnSet(f, S) \in Int
         /\ SumFunctionOnSet(h, S) = c * SumFunctionOnSet(f, S)
<1> DEFINE D == {T \in SUBSET S : SumFunctionOnSet(h, T) # c * SumFunctionOnSet(f, T)}
<1>0. \A x \in S : h[x] \in Int
  BY MultipleInt
<1>1. SumFunctionOnSet(f, S) \in Int
  BY SumUnfold
<1>2. SUFFICES ASSUME D # {} PROVE FALSE
  BY <1>1 DEF D
<1>3. PICK T \in D : \A U \in D : U \subseteq T => U = T
  <2>1. D \in SUBSET SUBSET S
    OBVIOUS
  <2> HIDE DEF D
  <2>2. QED
    BY <1>2, <2>1, SmallestSet
<1>4. IsFiniteSet(T) /\ \A x \in T : f[x] \in Int /\ h[x] = c * f[x] /\ h[x] \in Int
  BY <1>0, FS_Subset
<1>5. T # {}
  <2>1. SumFunctionOnSet(f, {}) = 0 /\ SumFunctionOnSet(h, {}) = 0
    BY SumEmpty
  <2>2. c * 0 = 0
    OBVIOUS
  <2>3. QED
    BY <2>1, <2>2
<1>6. PICK a \in T : TRUE
  BY <1>5
<1>7. IsFiniteSet(T \ {a})
  BY <1>4, FS_RemoveElement
<1>8. SumFunctionOnSet(f, T \ {a}) \in Int
  BY <1>4, <1>7, SumUnfold
<1>9. SumFunctionOnSet(h, T \ {a}) = c * SumFunctionOnSet(f, T \ {a})
  BY <1>3, <1>6
<1>10. /\ SumFunctionOnSet(f, T) = f[a] + SumFunctionOnSet(f, T \ {a})
       /\ SumFunctionOnSet(h, T) = h[a] + SumFunctionOnSet(h, T \ {a})
  BY <1>4, SumRemove
<1>11. SumFunctionOnSet(h, T) # c * SumFunctionOnSet(f, T)
  OBVIOUS
<1> HIDE DEF D
<1>12. f[a] \in Int /\ h[a] = c * f[a]
  BY <1>4
<1>13. \A p, q \in Int : c * p + c * q = c * (p + q)
  BY SMTT(30)
<1>14. QED
  BY <1>8, <1>9, <1>10, <1>11, <1>12, <1>13

\* A sum of equal summands.
LEMMA SumConstant ==
  ASSUME NEW S, IsFiniteSet(S), NEW f, NEW c \in Int, \A x \in S : f[x] = c
  PROVE  Cardinality(S) \in Nat /\ SumFunctionOnSet(f, S) = c * Cardinality(S)
<1> DEFINE D == {T \in SUBSET S : SumFunctionOnSet(f, T) # c * Cardinality(T)}
<1>1. Cardinality(S) \in Nat
  BY FS_CardinalityType
<1>2. SUFFICES ASSUME D # {} PROVE FALSE
  BY <1>1 DEF D
<1>3. PICK T \in D : \A U \in D : U \subseteq T => U = T
  <2>1. D \in SUBSET SUBSET S
    OBVIOUS
  <2> HIDE DEF D
  <2>2. QED
    BY <1>2, <2>1, SmallestSet
<1>4. IsFiniteSet(T) /\ \A x \in T : f[x] = c /\ f[x] \in Int
  BY FS_Subset
<1>5. T # {}
  <2>1. SumFunctionOnSet(f, {}) = 0 /\ Cardinality({}) = 0
    BY SumEmpty, FS_EmptySet
  <2>2. c * 0 = 0
    OBVIOUS
  <2>3. QED
    BY <2>1, <2>2
<1>6. PICK a \in T : TRUE
  BY <1>5
<1>7. /\ IsFiniteSet(T \ {a}) /\ Cardinality(T \ {a}) = Cardinality(T) - 1
      /\ Cardinality(T) \in Nat
  BY <1>4, FS_RemoveElement, FS_CardinalityType
<1>8. SumFunctionOnSet(f, T \ {a}) = c * Cardinality(T \ {a})
  BY <1>3, <1>6
<1>9. SumFunctionOnSet(f, T) = c + SumFunctionOnSet(f, T \ {a})
  BY <1>4, SumRemove
<1>10. SumFunctionOnSet(f, T) # c * Cardinality(T)
  OBVIOUS
<1> HIDE DEF D
<1>11. \A n \in Int : c + c * (n - 1) = c * n
  BY SMTT(30)
<1>12. QED
  BY <1>7, <1>8, <1>9, <1>10, <1>11

\* Summands between two bounds.
LEMMA SumWithin ==
  ASSUME NEW S, IsFiniteSet(S), NEW f, NEW a \in Int, NEW b \in Int,
         \A x \in S : f[x] \in Int /\ a <= f[x] /\ f[x] <= b
  PROVE  /\ Cardinality(S) \in Nat /\ SumFunctionOnSet(f, S) \in Int
         /\ a * Cardinality(S) <= SumFunctionOnSet(f, S)
         /\ SumFunctionOnSet(f, S) <= b * Cardinality(S)
<1> DEFINE low == [x \in S |-> a]
           high == [x \in S |-> b]
<1>1. \A x \in S : /\ low[x] = a /\ high[x] = b /\ low[x] \in Int /\ high[x] \in Int
                   /\ low[x] <= f[x] /\ f[x] <= high[x]
  OBVIOUS
<1> HIDE DEF low, high
<1>2. /\ SumFunctionOnSet(low, S) = a * Cardinality(S)
      /\ SumFunctionOnSet(high, S) = b * Cardinality(S)
      /\ Cardinality(S) \in Nat
  BY <1>1, SumConstant
<1>3. SumFunctionOnSet(low, S) <= SumFunctionOnSet(f, S)
  BY <1>1, SumPointwise
<1>4. SumFunctionOnSet(f, S) <= SumFunctionOnSet(high, S)
  BY <1>1, SumPointwise
<1>5. SumFunctionOnSet(f, S) \in Int
  BY SumUnfold
<1>6. QED
  BY <1>2, <1>3, <1>4, <1>5

\* A sum over parts that have nothing in common, part by part.
LEMMA SumParts ==
  ASSUME NEW K, IsFiniteSet(K), NEW S, IsFiniteSet(S), NEW f, \A x \in S : f[x] \in Int,
         NEW part, \A k \in K : part[k] \in SUBSET S,
         \A j, k \in K : j # k => part[j] \cap part[k] = {},
         NEW g, \A k \in K : g[k] = SumFunctionOnSet(f, part[k])
  PROVE  SumFunctionOnSet(g, K) = SumFunctionOnSet(f, UNION {part[k] : k \in K})
<1> DEFINE All(T) == UNION {part[k] : k \in T}
           D == {T \in SUBSET K : SumFunctionOnSet(g, T) # SumFunctionOnSet(f, All(T))}
<1>1. SUFFICES ASSUME D # {} PROVE FALSE
  OBVIOUS
<1>2. PICK T \in D : \A U \in D : U \subseteq T => U = T
  <2>1. D \in SUBSET SUBSET K
    OBVIOUS
  <2> HIDE DEF D
  <2>2. QED
    BY <1>1, <2>1, SmallestSet
<1>3. \A k \in K : IsFiniteSet(part[k]) /\ g[k] \in Int
  <2> SUFFICES ASSUME NEW k \in K PROVE IsFiniteSet(part[k]) /\ g[k] \in Int
    OBVIOUS
  <2>1. IsFiniteSet(part[k]) /\ \A x \in part[k] : f[x] \in Int
    BY FS_Subset
  <2>2. SumFunctionOnSet(f, part[k]) \in Int
    BY <2>1, SumUnfold
  <2>3. QED
    BY <2>1, <2>2
<1>4. IsFiniteSet(T) /\ \A x \in T : g[x] \in Int
  BY <1>3, FS_Subset
<1>5. T # {}
  <2>1. All({}) = {} /\ SumFunctionOnSet(f, {}) = 0 /\ SumFunctionOnSet(g, {}) = 0
    BY SumEmpty
  <2>2. QED
    BY <2>1
<1>6. PICK a \in T : TRUE
  BY <1>5
<1>7. SumFunctionOnSet(g, T \ {a}) = SumFunctionOnSet(f, All(T \ {a}))
  BY <1>2, <1>6
<1>8. SumFunctionOnSet(g, T) = g[a] + SumFunctionOnSet(g, T \ {a})
  BY <1>4, SumRemove
<1>9. SumFunctionOnSet(g, T) # SumFunctionOnSet(f, All(T)) /\ T \in SUBSET K
  OBVIOUS
<1>10. /\ All(T) = part[a] \cup All(T \ {a})
       /\ All(T \ {a}) \in SUBSET S
       /\ part[a] \cap All(T \ {a}) = {}
  <2>1. \A k \in T \ {a} : k \in K /\ a \in K /\ k # a /\ part[k] \cap part[a] = {}
    BY <1>6, <1>9
  <2>2. QED
    BY <1>6, <1>9, <2>1
<1> HIDE DEF D, All
<1>11. IsFiniteSet(All(T \ {a})) /\ IsFiniteSet(part[a]) /\ a \in K
  BY <1>3, <1>6, <1>9, <1>10, FS_Subset
<1>12. \A x \in part[a] \cup All(T \ {a}) : f[x] \in Int
  BY <1>10, <1>11
<1>13. SumFunctionOnSet(f, All(T))
         = SumFunctionOnSet(f, part[a]) + SumFunctionOnSet(f, All(T \ {a}))
  <2> DEFINE A == part[a]
             B == All(T \ {a})
             C == All(T)
  <2>1. /\ IsFiniteSet(A) /\ IsFiniteSet(B) /\ A \cap B = {} /\ C = A \cup B
        /\ \A x \in A \cup B : f[x] \in Int
    BY <1>10, <1>11, <1>12
  <2> HIDE DEF A, B, C
  <2>2. SumFunctionOnSet(f, C) = SumFunctionOnSet(f, A) + SumFunctionOnSet(f, B)
    BY <2>1, SumUnion
  <2>3. QED
    BY <2>2 DEF A, B, C
<1>14. g[a] = SumFunctionOnSet(f, part[a])
  BY <1>11
<1>15. QED
  BY <1>7, <1>8, <1>9, <1>13, <1>14

\* A set of numbers can be counted through from below: each is the k-th for
\* one k, that many being no larger.
LEMMA CountedUp ==
  ASSUME NEW S \in SUBSET Nat, IsFiniteSet(S)
  PROVE  /\ Cardinality(S) \in Nat
         /\ \A i \in S : Cardinality({j \in S : j <= i}) \in 1 .. Cardinality(S)
         /\ \A i, k \in S : Cardinality({j \in S : j <= i}) = Cardinality({j \in S : j <= k}) => i = k
         /\ \A k \in 1 .. Cardinality(S) : \E i \in S : Cardinality({j \in S : j <= i}) = k
<1> DEFINE n == Cardinality(S)
           To(i) == {j \in S : j <= i}
           rank == [i \in S |-> Cardinality(To(i))]
<1>1. n \in Nat
  BY FS_CardinalityType
<1>2. \A i \in S : To(i) \in SUBSET S /\ i \in To(i)
  OBVIOUS
<1>3. ASSUME NEW i \in S
      PROVE  IsFiniteSet(To(i)) /\ Cardinality(To(i)) \in 1 .. n
  <2> DEFINE T == To(i)
  <2>1. T \in SUBSET S /\ T # {}
    BY <1>2
  <2> HIDE DEF T
  <2>2. IsFiniteSet(T) /\ Cardinality(T) <= n /\ Cardinality(T) \in Nat /\ Cardinality(T) # 0
    BY <2>1, FS_Subset, FS_CardinalityType, FS_EmptySet
  <2>3. QED
    BY <1>1, <2>2 DEF T
<1>4. ASSUME NEW i \in S, NEW k \in S, i < k
      PROVE  Cardinality(To(i)) # Cardinality(To(k))
  <2>1. To(i) \in SUBSET To(k) /\ k \notin To(i) /\ k \in To(k)
    <3>1. i \in Nat /\ k \in Nat /\ \A j \in S : j \in Nat /\ (j <= i => j <= k)
      BY <1>4
    <3>2. ~ (k <= i) /\ k <= k
      BY <1>4, <3>1
    <3>3. QED
      BY <3>1, <3>2
  <2>2. IsFiniteSet(To(k))
    BY <1>3
  <2> HIDE DEF To
  <2>3. QED
    BY <2>1, <2>2, FS_Subset
<1>5. rank \in Injection(S, 1 .. n)
  <2>1. rank \in [S -> 1 .. n]
    BY <1>3
  <2>2. ASSUME NEW i \in S, NEW k \in S, rank[i] = rank[k] PROVE i = k
    <3>1. i \in Nat /\ k \in Nat
      OBVIOUS
    <3>2. rank[i] = Cardinality(To(i)) /\ rank[k] = Cardinality(To(k))
      OBVIOUS
    <3> HIDE DEF rank, To
    <3>3. ~ (i < k) /\ ~ (k < i)
      BY <1>4, <2>2, <3>2
    <3>4. QED
      BY <3>1, <3>3
  <2> HIDE DEF rank
  <2>3. QED
    BY <2>1, <2>2 DEF Injection, IsInjective
<1>6. rank \in Surjection(S, 1 .. n)
  <2>1. IsFiniteSet(1 .. n) /\ Cardinality(1 .. n) = n
    BY <1>1, FS_Interval
  <2> HIDE DEF rank
  <2>2. QED
    BY <1>5, <2>1, FS_Injection
<1>7. \A k \in 1 .. n : \E i \in S : Cardinality(To(i)) = k
  BY <1>6 DEF Surjection
<1>8. \A i, k \in S : Cardinality(To(i)) = Cardinality(To(k)) => i = k
  <2> SUFFICES ASSUME NEW i \in S, NEW k \in S, Cardinality(To(i)) = Cardinality(To(k))
               PROVE  i = k
    OBVIOUS
  <2>1. i \in Nat /\ k \in Nat
    OBVIOUS
  <2> HIDE DEF To
  <2>2. ~ (i < k) /\ ~ (k < i)
    BY <1>4
  <2>3. QED
    BY <2>1, <2>2
<1>9. QED
  BY <1>1, <1>3, <1>7, <1>8
=============================================================================
