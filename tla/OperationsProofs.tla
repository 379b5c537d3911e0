-------------------------- MODULE OperationsProofs --------------------------
(***************************************************************************)
(* Proofs about the operator's tools, for any supply, deadline, requests   *)
(* and outputs, and about what a signer approves, for any transaction.     *)
(***************************************************************************)
EXTENDS Operations, WalletProofs

-----------------------------------------------------------------------------
(* What a signer approves                                                  *)

\* The validator of the pool lets an approved transaction through, by the
\* surrender path and by no other (cosign_policy.py, claim_validator.ak).
LEMMA PolicyOpensPool ==
  ASSUME NEW tx, IsTransaction(tx), NEW now \in Nat
  PROVE  ApprovedOpensPool(tx, now)
<1> SUFFICES ASSUME Approves(tx, now)
             PROVE  Validates(Made[PoolInput(tx)].datum, tx) /\ ~ EntirelyAfter(tx)
  BY DEF ApprovedOpensPool
<1>1. tx.until \in Nat /\ tx.from \in Nat /\ Open \notin Int /\ Deadline \in Nat
  BY ScriptAssumption DEF IsTransaction
<1>2. now < tx.until /\ tx.until <= Deadline /\ tx.from <= now
  BY DEF Approves, Timely
<1>3. Made[PoolInput(tx)].datum = "void" /\ tx.signers = Admins /\ tx.redeemer = "surrender"
  BY DEF Approves, InputsHold, PoolLike, Bounded, Redeems
<1>4. EntirelyBefore(tx) /\ ~ EntirelyAfter(tx)
  BY <1>1, <1>2 DEF EntirelyBefore, EntirelyAfter
<1>5. QED
  BY <1>3, <1>4 DEF Validates

\* A bag of some outputs is a sum over them.
HeldIn(outs, a) == [i \in DOMAIN outs |-> outs[i].assets[a]]
CoinIn(outs) == [i \in DOMAIN outs |-> outs[i].coin]

LEMMA BagOfSome ==
  ASSUME NEW outs, IsFiniteSet(DOMAIN outs), \A i \in DOMAIN outs : IsOutput(outs[i]),
         NEW S \in SUBSET DOMAIN outs
  PROVE  /\ IsFiniteSet(S)
         /\ \A a \in Assets :
              /\ \A i \in DOMAIN outs : HeldIn(outs, a)[i] = outs[i].assets[a] /\ outs[i].assets[a] \in Nat
              /\ Bag(Restrict(outs, S), a) = SumFunctionOnSet(HeldIn(outs, a), S)
              /\ Bag(Restrict(outs, S), a) \in Nat
         /\ \A i \in DOMAIN outs : CoinIn(outs)[i] = outs[i].coin /\ outs[i].coin \in Nat
         /\ Coins(Restrict(outs, S)) = SumFunctionOnSet(CoinIn(outs), S)
         /\ Coins(Restrict(outs, S)) \in Nat
<1> DEFINE part == Restrict(outs, S)
<1>1. DOMAIN part = S /\ \A i \in S : part[i] = outs[i]
  BY DEF Restrict
<1>2. IsFiniteSet(S) /\ \A i \in S : IsOutput(outs[i])
  BY FS_Subset
<1> HIDE DEF part
<1>3. ASSUME NEW a \in Assets
      PROVE  /\ \A i \in DOMAIN outs : HeldIn(outs, a)[i] = outs[i].assets[a] /\ outs[i].assets[a] \in Nat
             /\ Bag(part, a) = SumFunctionOnSet(HeldIn(outs, a), S)
             /\ Bag(part, a) \in Nat
  <2> DEFINE f == [i \in S |-> part[i].assets[a]]
             g == HeldIn(outs, a)
  <2>1. \A i \in DOMAIN outs : g[i] = outs[i].assets[a] /\ outs[i].assets[a] \in Nat
    BY DEF HeldIn, IsOutput
  <2>2. \A i \in S : f[i] \in Int /\ g[i] = f[i] /\ g[i] \in Nat
    BY <1>1, <2>1
  <2>3. Bag(part, a) = SumFunctionOnSet(f, S)
    BY <1>1 DEF Bag, SumFunction
  <2> HIDE DEF f, g
  <2>4. SumFunctionOnSet(f, S) = SumFunctionOnSet(g, S)
    BY <1>2, <2>2, SumAgree
  <2>5. SumFunctionOnSet(g, S) \in Nat
    BY <1>2, <2>2, SumNat
  <2>6. QED
    BY <2>1, <2>3, <2>4, <2>5 DEF g
<1>4. /\ \A i \in DOMAIN outs : CoinIn(outs)[i] = outs[i].coin /\ outs[i].coin \in Nat
      /\ Coins(part) = SumFunctionOnSet(CoinIn(outs), S)
      /\ Coins(part) \in Nat
  <2> DEFINE f == [i \in S |-> part[i].coin]
             g == CoinIn(outs)
  <2>1. \A i \in DOMAIN outs : g[i] = outs[i].coin /\ outs[i].coin \in Nat
    BY DEF CoinIn, IsOutput
  <2>2. \A i \in S : f[i] \in Int /\ g[i] = f[i] /\ g[i] \in Nat
    BY <1>1, <2>1
  <2>3. Coins(part) = SumFunctionOnSet(f, S)
    BY <1>1 DEF Coins, SumFunction
  <2> HIDE DEF f, g
  <2>4. SumFunctionOnSet(f, S) = SumFunctionOnSet(g, S)
    BY <1>2, <2>2, SumAgree
  <2>5. SumFunctionOnSet(g, S) \in Nat
    BY <1>2, <2>2, SumNat
  <2>6. QED
    BY <2>1, <2>3, <2>4, <2>5 DEF g
<1>5. QED
  BY <1>2, <1>3, <1>4 DEF part

\* What goes to three addresses is all there is.
LEMMA ThreeWays ==
  ASSUME NEW outs, IsFiniteSet(DOMAIN outs), \A i \in DOMAIN outs : IsOutput(outs[i]),
         NEW A, NEW B, NEW C, A # B, A # C, B # C,
         \A i \in DOMAIN outs : outs[i].address \in {A, B, C}
  PROVE  /\ \A a \in Assets :
              Bag(outs, a) = Bag(At(outs, A), a) + Bag(At(outs, B), a) + Bag(At(outs, C), a)
         /\ Coins(outs) = Coins(At(outs, A)) + Coins(At(outs, B)) + Coins(At(outs, C))
<1> DEFINE S(x) == {i \in DOMAIN outs : outs[i].address = x}
<1>1. \A x : S(x) \in SUBSET DOMAIN outs /\ IsFiniteSet(S(x)) /\ At(outs, x) = Restrict(outs, S(x))
  BY FS_Subset DEF At
<1>2. S(A) \cap S(B) = {} /\ (S(A) \cup S(B)) \cap S(C) = {}
      /\ DOMAIN outs = (S(A) \cup S(B)) \cup S(C)
  OBVIOUS
<1> HIDE DEF S
<1>3. ASSUME NEW f, \A i \in DOMAIN outs : f[i] \in Nat
      PROVE  SumFunctionOnSet(f, DOMAIN outs) =
               SumFunctionOnSet(f, S(A)) + SumFunctionOnSet(f, S(B)) + SumFunctionOnSet(f, S(C))
  <2> DEFINE U == S(A) \cup S(B)
  <2>1. IsFiniteSet(U) /\ U \in SUBSET DOMAIN outs
    BY <1>1, FS_Union
  <2>2. \A i \in S(A) \cup S(B) : f[i] \in Int
    BY <1>1, <1>3
  <2>3. SumFunctionOnSet(f, U) = SumFunctionOnSet(f, S(A)) + SumFunctionOnSet(f, S(B))
    BY <1>1, <1>2, <2>2, SumUnion
  <2>4. U \cap S(C) = {} /\ \A i \in U \cup S(C) : f[i] \in Int
    BY <1>1, <1>2, <1>3, <2>1
  <2>5. DOMAIN outs = U \cup S(C)
    BY <1>2
  <2> HIDE DEF U
  <2>6. SumFunctionOnSet(f, U \cup S(C)) = SumFunctionOnSet(f, U) + SumFunctionOnSet(f, S(C))
    BY <1>1, <2>1, <2>4, SumUnion
  <2>7. SumFunctionOnSet(f, DOMAIN outs) = SumFunctionOnSet(f, U \cup S(C))
    BY <2>5, Zenon
  <2>8. QED
    BY <2>3, <2>6, <2>7
<1>4. ASSUME NEW a \in Assets
      PROVE  Bag(outs, a) = Bag(At(outs, A), a) + Bag(At(outs, B), a) + Bag(At(outs, C), a)
  <2>1. Bag(outs, a) = SumFunctionOnSet(HeldIn(outs, a), DOMAIN outs)
    BY DEF Bag, SumFunction, HeldIn
  <2>2. \A i \in DOMAIN outs : HeldIn(outs, a)[i] \in Nat
    BY DEF HeldIn, IsOutput
  <2>3. \A x : Bag(At(outs, x), a) = SumFunctionOnSet(HeldIn(outs, a), S(x))
    BY <1>1, BagOfSome
  <2>4. QED
    BY <1>3, <2>1, <2>2, <2>3
<1>5. Coins(outs) = Coins(At(outs, A)) + Coins(At(outs, B)) + Coins(At(outs, C))
  <2>1. Coins(outs) = SumFunctionOnSet(CoinIn(outs), DOMAIN outs)
    BY DEF Coins, SumFunction, CoinIn
  <2>2. \A i \in DOMAIN outs : CoinIn(outs)[i] \in Nat
    BY DEF CoinIn, IsOutput
  <2>3. \A x : Coins(At(outs, x)) = SumFunctionOnSet(CoinIn(outs), S(x))
    BY <1>1, BagOfSome
  <2>4. QED
    BY <1>3, <2>1, <2>2, <2>3
<1>6. QED
  BY <1>4, <1>5

\* What is at an address, if one output is and if none is.
LEMMA AtAddress ==
  ASSUME NEW outs, IsFiniteSet(DOMAIN outs), \A i \in DOMAIN outs : IsOutput(outs[i]), NEW x
  PROVE  /\ \A a \in Assets : Bag(At(outs, x), a) \in Nat
         /\ Coins(At(outs, x)) \in Nat
         /\ \A i \in DOMAIN outs : {j \in DOMAIN outs : outs[j].address = x} = {i} =>
              /\ \A a \in Assets : Bag(At(outs, x), a) = outs[i].assets[a]
              /\ Coins(At(outs, x)) = outs[i].coin
         /\ (\A j \in DOMAIN outs : outs[j].address # x) =>
              /\ \A a \in Assets : Bag(At(outs, x), a) = 0
              /\ Coins(At(outs, x)) = 0
<1> DEFINE S == {j \in DOMAIN outs : outs[j].address = x}
<1>1. S \in SUBSET DOMAIN outs /\ At(outs, x) = Restrict(outs, S)
  BY DEF At
<1> HIDE DEF S
<1>2. /\ \A a \in Assets : /\ Bag(At(outs, x), a) = SumFunctionOnSet(HeldIn(outs, a), S)
                           /\ Bag(At(outs, x), a) \in Nat
                           /\ \A i \in DOMAIN outs : HeldIn(outs, a)[i] = outs[i].assets[a]
                                                   /\ outs[i].assets[a] \in Nat
      /\ Coins(At(outs, x)) = SumFunctionOnSet(CoinIn(outs), S)
      /\ Coins(At(outs, x)) \in Nat
      /\ \A i \in DOMAIN outs : CoinIn(outs)[i] = outs[i].coin /\ outs[i].coin \in Nat
  BY <1>1, BagOfSome
<1>3. ASSUME NEW i \in DOMAIN outs, S = {i}
      PROVE  /\ \A a \in Assets : Bag(At(outs, x), a) = outs[i].assets[a]
             /\ Coins(At(outs, x)) = outs[i].coin
  <2>1. \A f : f[i] \in Nat => SumFunctionOnSet(f, {i}) = f[i]
    BY SumOne
  <2>2. \A f : SumFunctionOnSet(f, S) = SumFunctionOnSet(f, {i})
    BY <1>3, Zenon
  <2>3. QED
    BY <1>2, <2>1, <2>2
<1>4. ASSUME S = {}
      PROVE  /\ \A a \in Assets : Bag(At(outs, x), a) = 0
             /\ Coins(At(outs, x)) = 0
  <2>1. \A f : SumFunctionOnSet(f, S) = SumFunctionOnSet(f, {})
    BY <1>4, Zenon
  <2>2. QED
    BY <1>2, <2>1, SumEmpty
<1>5. QED
  BY <1>2, <1>3, <1>4 DEF S

\* In an approved transaction one input is the pool's, all others are the
\* claimant's, and of the outputs one is the pool's.
LEMMA PolicyShape ==
  ASSUME NEW tx, IsTransaction(tx), NEW now, Approves(tx, now)
  PROVE  LET spent == Spent(tx)
         IN  /\ DOMAIN spent = tx.inputs
             /\ IsFiniteSet(DOMAIN spent)
             /\ \A r \in DOMAIN spent : IsOutput(spent[r]) /\ spent[r] = Made[r]
             /\ PoolAddress # Claimant(tx) /\ QuarantineAddress # Claimant(tx)
             /\ PoolAddress # QuarantineAddress
             /\ \A r \in DOMAIN spent : spent[r].address \in {PoolAddress, Claimant(tx)}
             /\ PoolInput(tx) \in DOMAIN spent
             /\ {r \in DOMAIN spent : spent[r].address = PoolAddress} = {PoolInput(tx)}
             /\ \E i \in DOMAIN tx.outs :
                  /\ Continuation(tx) = tx.outs[i]
                  /\ {j \in DOMAIN tx.outs : tx.outs[j].address = PoolAddress} = {i}
<1> DEFINE spent == Spent(tx)
<1>1. DOMAIN spent = tx.inputs /\ \A r \in tx.inputs : spent[r] = Made[r]
  BY DEF Spent, Restrict
<1>2. IsFiniteSet(tx.inputs) /\ tx.inputs \subseteq DOMAIN Made
      /\ \A r \in tx.inputs : IsOutput(Made[r])
  BY PolicyAssumption DEF IsTransaction, Approves, InputsHold
<1>3. \A S : IsFiniteSet(S) /\ Cardinality(S) = 1 => \E x : S = {x}
  BY FS_Singleton
<1>4. PICK r : PoolInputs(tx) = {r}
  <2>1. IsFiniteSet(PoolInputs(tx))
    BY <1>2, FS_Subset DEF PoolInputs
  <2>2. QED
    BY <1>3, <2>1 DEF Approves, InputsHold
<1>5. PoolInput(tx) = r
  BY <1>4 DEF PoolInput
<1>6. PICK who : Claimants(tx) = {who}
  <2> DEFINE f == [x \in tx.inputs |-> Made[x].address]
  <2>1. IsFiniteSet({f[x] : x \in tx.inputs})
    <3> HIDE DEF f
    <3> QED BY <1>2, ImageFinite
  <2>2. Claimants(tx) \in SUBSET {f[x] : x \in tx.inputs}
    BY DEF Claimants
  <2> HIDE DEF f
  <2>3. IsFiniteSet(Claimants(tx))
    BY <2>1, <2>2, FS_Subset
  <2>4. QED
    BY <1>3, <2>3 DEF Approves, InputsHold
<1>7. Claimant(tx) = who
  BY <1>6 DEF Claimant
<1>8. \A x \in tx.inputs : Made[x].address \in {PoolAddress, who}
  BY <1>6 DEF Claimants, PoolInputs
<1>9. PICK i : Continuations(tx) = {i}
  <2>1. IsFiniteSet(Continuations(tx))
    BY FS_Subset DEF Continuations, IsTransaction
  <2>2. QED
    BY <1>3, <2>1 DEF Approves, OutputsHold
<1>10. i \in DOMAIN tx.outs /\ Continuation(tx) = tx.outs[i]
       /\ {j \in DOMAIN tx.outs : tx.outs[j].address = PoolAddress} = {i}
  BY <1>9 DEF Continuation, Continuations
<1>11. who \in KeyLocked
  BY <1>7 DEF Approves, InputsHold
<1>12. r \in tx.inputs /\ {x \in tx.inputs : Made[x].address = PoolAddress} = {r}
  BY <1>4 DEF PoolInputs
<1> HIDE DEF spent
<1>13. {x \in DOMAIN spent : spent[x].address = PoolAddress} = {r}
  BY <1>1, <1>12
<1>14. /\ DOMAIN spent = tx.inputs /\ IsFiniteSet(DOMAIN spent)
       /\ \A x \in DOMAIN spent : IsOutput(spent[x]) /\ spent[x] = Made[x]
       /\ \A x \in DOMAIN spent : spent[x].address \in {PoolAddress, Claimant(tx)}
       /\ PoolInput(tx) \in DOMAIN spent
  BY <1>1, <1>2, <1>5, <1>7, <1>8, <1>12
<1>15. PoolAddress # Claimant(tx) /\ QuarantineAddress # Claimant(tx)
       /\ PoolAddress # QuarantineAddress
  BY <1>7, <1>11, PolicyAssumption
<1>16. QED
  BY <1>5, <1>10, <1>13, <1>14, <1>15 DEF spent

\* What is approved trades at the price, and with nobody else: the policy's
\* checks one by one, put together (cosign_policy.py).
LEMMA PolicyTrades ==
  ASSUME NEW tx, IsTransaction(tx), NEW now
  PROVE  ApprovedTrades(tx, now)
<1> SUFFICES ASSUME Approves(tx, now) PROVE ApprovedTrades(tx, now)
  BY DEF ApprovedTrades
<1> DEFINE who == Claimant(tx)
           P == PoolAddress
           Q == QuarantineAddress
           spent == Spent(tx)
           outs == tx.outs
           in(x, a) == Bag(At(spent, x), a)
           out(x, a) == Bag(At(outs, x), a)
           inCoin(x) == Coins(At(spent, x))
           outCoin(x) == Coins(At(outs, x))
<1>1. /\ IsFiniteSet(DOMAIN spent) /\ \A r \in DOMAIN spent : IsOutput(spent[r]) /\ spent[r] = Made[r]
      /\ IsFiniteSet(DOMAIN outs) /\ \A i \in DOMAIN outs : IsOutput(outs[i])
  BY PolicyShape DEF IsTransaction
<1>2. P # who /\ Q # who /\ P # Q
  BY PolicyShape
<1>3. \A r \in DOMAIN spent : spent[r].address \in {P, who}
  BY PolicyShape
<1>4. \A i \in DOMAIN outs : outs[i].address \in {P, Q, who}
  BY DEF Approves, OutputsHold
<1>5. PICK r \in DOMAIN spent :
        /\ r = PoolInput(tx)
        /\ {x \in DOMAIN spent : spent[x].address = P} = {r}
  BY PolicyShape
<1>6. PICK i \in DOMAIN outs :
        /\ Continuation(tx) = outs[i]
        /\ {j \in DOMAIN outs : outs[j].address = P} = {i}
  BY PolicyShape
<1> HIDE DEF spent, outs, who, P, Q
<1>7. \A x : /\ \A a \in Assets : in(x, a) \in Nat /\ out(x, a) \in Nat
             /\ inCoin(x) \in Nat /\ outCoin(x) \in Nat
  BY <1>1, AtAddress
<1>8. /\ \A a \in Assets : in(P, a) = Made[PoolInput(tx)].assets[a]
      /\ inCoin(P) = Made[PoolInput(tx)].coin
  BY <1>1, <1>5, AtAddress
<1>9. /\ \A a \in Assets : out(P, a) = Continuation(tx).assets[a]
      /\ outCoin(P) = Continuation(tx).coin
  BY <1>1, <1>6, AtAddress
<1>10. (\A a \in Assets : in(Q, a) = 0) /\ inCoin(Q) = 0
  <2>1. \A x \in DOMAIN spent : spent[x].address # Q
    BY <1>2, <1>3
  <2>2. QED
    BY <1>1, <2>1, AtAddress
<1>11. /\ \A a \in Assets : Bag(spent, a) = in(P, a) + in(Q, a) + in(who, a)
       /\ Coins(spent) = inCoin(P) + inCoin(Q) + inCoin(who)
  <2>1. \A x \in DOMAIN spent : spent[x].address \in {P, Q, who}
    BY <1>3
  <2>2. QED
    BY <1>1, <1>2, <2>1, ThreeWays
<1>12. /\ \A a \in Assets : Bag(outs, a) = out(P, a) + out(Q, a) + out(who, a)
       /\ Coins(outs) = outCoin(P) + outCoin(Q) + outCoin(who)
  BY <1>1, <1>2, <1>4, ThreeWays
<1>13. /\ \A a \in Assets : Bag(spent, a) = Bag(outs, a)
       /\ Coins(spent) = Coins(outs) + tx.fee
  BY DEF Approves, Balanced, spent, outs
<1>14. \A x : /\ \A a \in Assets : Gain(tx, x, a) = out(x, a) - in(x, a)
              /\ CoinGain(tx, x) = outCoin(x) - inCoin(x)
  BY DEF Gain, CoinGain, spent, outs
<1> HIDE DEF in, out, inCoin, outCoin
<1>15. Quarantined(tx) = [a \in Assets |-> out(Q, a)]
  BY DEF Quarantined, out, outs, Q
<1>16. Quarantined(tx) = [a \in Assets |-> Gain(tx, Q, a)]
  BY <1>7, <1>10, <1>14, <1>15
<1>17. Matra \in Assets /\ out(Q, Matra) = 0
  <2>1. Quarantined(tx) \in DOMAIN Entitled /\ Entitled[Quarantined(tx)] # Unpriced
    BY DEF Approves, PaysEntitlement
  <2>2. Quarantined(tx)[Matra] = 0
    BY <2>1, PolicyAssumption
  <2>3. QED
    BY <1>15, <2>2, PolicyAssumption
<1>18. Entitled[Quarantined(tx)] = in(P, Matra) - out(P, Matra)
  BY <1>8, <1>9, <1>17 DEF Approves, PaysEntitlement, Payout
<1>19. Gain(tx, who, Matra) = in(P, Matra) - out(P, Matra)
       /\ Gain(tx, P, Matra) = out(P, Matra) - in(P, Matra)
  <2>1. in(P, Matra) + in(Q, Matra) + in(who, Matra) = out(P, Matra) + out(Q, Matra) + out(who, Matra)
    BY <1>11, <1>12, <1>13, <1>17
  <2>2. in(P, Matra) \in Nat /\ out(P, Matra) \in Nat /\ in(who, Matra) \in Nat
        /\ out(who, Matra) \in Nat /\ in(Q, Matra) = 0 /\ out(Q, Matra) = 0
    BY <1>7, <1>10, <1>17
  <2>3. Gain(tx, who, Matra) = out(who, Matra) - in(who, Matra)
        /\ Gain(tx, P, Matra) = out(P, Matra) - in(P, Matra)
    BY <1>14, <1>17
  <2>4. QED
    BY <2>1, <2>2, <2>3
<1>20. ASSUME NEW a \in Assets \ {Matra}
       PROVE  Gain(tx, who, a) = - Gain(tx, Q, a)
  <2>1. Made[PoolInput(tx)].assets[a] = 0 /\ Continuation(tx).assets[a] = 0
    BY DEF Approves, InputsHold, OutputsHold, PoolLike
  <2>2. in(P, a) = 0 /\ out(P, a) = 0
    BY <1>8, <1>9, <2>1
  <2>3. in(P, a) + in(Q, a) + in(who, a) = out(P, a) + out(Q, a) + out(who, a)
    BY <1>11, <1>12, <1>13
  <2>4. in(who, a) \in Nat /\ out(who, a) \in Nat /\ in(Q, a) = 0 /\ out(Q, a) \in Nat
    BY <1>7, <1>10
  <2>5. Gain(tx, who, a) = out(who, a) - in(who, a) /\ Gain(tx, Q, a) = out(Q, a) - in(Q, a)
    BY <1>14
  <2>6. QED
    BY <2>2, <2>3, <2>4, <2>5
<1>21. - CoinGain(tx, P) <= MaxOutflow
  <2>1. inCoin(P) - outCoin(P) <= MaxOutflow
    BY <1>8, <1>9 DEF Approves, PaysEntitlement
  <2>2. - (outCoin(P) - inCoin(P)) = inCoin(P) - outCoin(P)
    BY <1>7
  <2>3. QED
    BY <1>14, <2>1, <2>2
<1>22. CoinGain(tx, P) + CoinGain(tx, who) + CoinGain(tx, Q) = - tx.fee
  <2>1. tx.fee \in Nat
    BY DEF IsTransaction
  <2>2. QED
    BY <1>7, <1>11, <1>12, <1>13, <1>14, <2>1
<1>23. Gain(tx, who, Matra) = - Gain(tx, P, Matra)
  <2>1. in(P, Matra) \in Nat /\ out(P, Matra) \in Nat
    BY <1>7, <1>17
  <2>2. QED
    BY <1>19, <2>1
<1>24. Gain(tx, who, Matra) = Entitled[[a \in Assets |-> Gain(tx, Q, a)]]
  BY <1>16, <1>18, <1>19
<1>25. QED
  BY <1>20, <1>21, <1>22, <1>23, <1>24 DEF ApprovedTrades, who, P, Q

-----------------------------------------------------------------------------
(* Steps of the ledger                                                     *)

\* How a step changes the pool and what surrounds it, and in which situation.
LEMMA LedgerFrame ==
  ASSUME [Next]_vars
  PROVE  /\ UNCHANGED <<situation, offer>>
         /\ \/ UNCHANGED ledgerVars
            \/ /\ situation \notin {"chunks", "offers"}
               /\ Outside
               /\ UNCHANGED <<build, batch, reclaim, ceremonyVars>>
            \/ situation = "nothing minted" /\ MintSends
            \/ /\ situation = "nothing minted" /\ ~seed
               /\ SweepSubmit
            \/ /\ situation = "supply in the wallet"
               /\ \E answered \in BOOLEAN : SubmitBatch(TRUE, answered)
            \/ /\ situation = "requests"
               /\ \E answered \in BOOLEAN : SubmitSurrender(TRUE, answered)
            \/ /\ situation = "closing"
               /\ \E answered \in BOOLEAN : SubmitReclaim(TRUE, answered)
<1>1. CASE UNCHANGED vars
  BY <1>1 DEF vars
<1>2. CASE Next
  <2>1. ASSUME MintNext PROVE UNCHANGED ledgerVars
    BY <2>1 DEF MintNext, MintApply, MintParams, MintBuild, MintSign1, MintSign2,
         MintAssemble, Write
  <2>2. ASSUME SweepNext PROVE UNCHANGED ledgerVars \/ SweepSubmit
    BY <2>2 DEF SweepNext, SweepApply, SweepParams, SweepPreflight, SweepBuild,
         SweepSign1, SweepSign2, SweepAssemble, Write
  <2>3. ASSUME BuilderNext
        PROVE  UNCHANGED ledgerVars \/ \E answered \in BOOLEAN : SubmitBatch(TRUE, answered)
    BY <2>3 DEF BuilderNext, StartBuild, BuildBatch, PreflightBatch, ListBatch, SubmitBatch
  <2>4. ASSUME DriverNext
        PROVE  UNCHANGED ledgerVars \/ \E answered \in BOOLEAN : SubmitSurrender(TRUE, answered)
    BY <2>4 DEF DriverNext, StartBatch, Select, BuildSurrender, PreflightSurrender,
         Count, SubmitSurrender
  <2>5. ASSUME ReclaimNext
        PROVE  UNCHANGED ledgerVars \/ \E answered \in BOOLEAN : SubmitReclaim(TRUE, answered)
    BY <2>5 DEF ReclaimNext, StartReclaim, BuildReclaim, SignFirst, SignSecond,
         AssembleReclaim, SubmitReclaim
  <2>6. QED
    BY <1>2, <2>1, <2>2, <2>3, <2>4, <2>5 DEF Next, ToolsIdle
<1>3. QED
  BY <1>1, <1>2

\* Time is a natural number, and moves by itself.
LEMMA SlotFrame ==
  ASSUME [Next]_vars
  PROVE  UNCHANGED slot \/ (slot < MaxSlot /\ slot' = slot + 1)
<1>1. ASSUME Outside PROVE UNCHANGED slot \/ (slot < MaxSlot /\ slot' = slot + 1)
  <2>1. ASSUME NEW i, NEW u, NEW until, Served(i, u, until) PROVE UNCHANGED slot
    BY <2>1, Zenon DEF Served, Lands
  <2>2. ASSUME NEW d, Gift(d) \/ Burn(d) PROVE UNCHANGED slot
    BY <2>2, Zenon DEF Gift, Burn
  <2>3. QED
    BY <1>1, <2>1, <2>2, Zenon DEF Outside, Tick
<1>2. ASSUME MintSends \/ SweepSubmit PROVE UNCHANGED slot
  <2>1. ASSUME NEW u, NEW d, NEW tx, Minted(u, d, tx) PROVE UNCHANGED slot
    BY <2>1, Zenon DEF Minted
  <2>2. QED
    BY <1>2, <2>1, Zenon DEF MintSends, MintSubmit, MintByHand, SweepSubmit, Lands
<1>3. ASSUME NEW a \in BOOLEAN, SubmitBatch(TRUE, a) \/ SubmitSurrender(TRUE, a)
                                  \/ SubmitReclaim(TRUE, a)
      PROVE  UNCHANGED slot
  BY <1>3 DEF SubmitBatch, SubmitSurrender, SubmitReclaim, Lands
<1>4. QED
  BY <1>1, <1>2, <1>3, LedgerFrame DEF ledgerVars

\* What a signer is asked to sign is an offer.
OfferInv == offer \in Offers \cup {None} /\ slot \in 0 .. MaxSlot

LEMMA OfferInvHolds == Spec => []OfferInv
<1>1. Init => OfferInv
  <2> SUFFICES ASSUME Init PROVE OfferInv
    OBVIOUS
  <2>1. offer \in Offers \cup {None} /\ (slot \in 0 .. Deadline \/ slot = 0)
    BY DEF Init
  <2>2. QED
    BY <2>1, ScriptAssumption, LedgerAssumption, LeftoverAssumption DEF OfferInv
<1>2. OfferInv /\ [Next]_vars => OfferInv'
  <2> SUFFICES ASSUME OfferInv, [Next]_vars PROVE OfferInv'
    OBVIOUS
  <2>1. offer' = offer /\ (slot' = slot \/ (slot < MaxSlot /\ slot' = slot + 1))
    BY LedgerFrame, SlotFrame, Zenon
  <2>2. QED
    BY <2>1, LedgerAssumption DEF OfferInv
<1>3. QED
  BY <1>1, <1>2, PTL DEF Spec

\* Whatever is offered to a signer at whatever time: what it approves opens
\* the pool by the surrender path of the validator (cosign_policy.py).
THEOREM OffersAlwaysOpenPool == Spec => []OffersOpenPool
<1>1. OfferInv => OffersOpenPool
  BY PolicyOpensPool, OfferAssumption DEF OfferInv, OffersOpenPool
<1>2. QED
  BY <1>1, OfferInvHolds, PTL

\* Whatever is offered to a signer: what it approves trades the claimant's
\* units for their price and with the claimant alone (cosign_policy.py).
THEOREM OffersAlwaysTrade == Spec => []OffersTrade
<1>1. OfferInv => OffersTrade
  BY PolicyTrades, OfferAssumption DEF OfferInv, OffersTrade
<1>2. QED
  BY <1>1, OfferInvHolds, PTL

-----------------------------------------------------------------------------
(* The supply                                                              *)

\* The outputs at the pool are numbered as they came.
Stock ==
  /\ born \in Nat
  /\ DOMAIN pool \subseteq 1 .. born
  /\ \A i \in DOMAIN pool : IsPoolOutput(pool[i])

UnitsIn(outs) == [i \in DOMAIN outs |-> outs[i].units]

IsPoolList(back) == Len(back) \in Nat /\ DOMAIN back = 1 .. Len(back)
                    /\ \A j \in DOMAIN back : IsPoolOutput(back[j])

\* What the outputs hold that remain of a pool, and those that come.
LEMMA PoolWithSums ==
  ASSUME Stock, NEW left \in SUBSET DOMAIN pool, NEW back, IsPoolList(back),
         NEW new, new = PoolWith(left, back)
  PROVE  /\ DOMAIN new = left \cup (born + 1 .. born + Len(back))
         /\ DOMAIN new \subseteq 1 .. born + Len(back)
         /\ \A i \in left : new[i] = pool[i]
         /\ \A i \in DOMAIN new : i \in left \/ i > born
         /\ \A i \in DOMAIN new : IsPoolOutput(new[i])
         /\ IsFiniteSet(DOMAIN pool)
         /\ UnitsOf(back) \in Nat /\ UnitsOf(pool) \in Nat
         /\ UnitsOf(pool) = SumFunctionOnSet(UnitsIn(pool), left)
                              + SumFunctionOnSet(UnitsIn(pool), DOMAIN pool \ left)
         /\ UnitsOf(new) = SumFunctionOnSet(UnitsIn(pool), left) + UnitsOf(back)
         /\ SumFunctionOnSet(UnitsIn(pool), left) \in Nat
<1> DEFINE n == Len(back)
           come == born + 1 .. born + n
           u == UnitsIn(pool)
           v == UnitsIn(new)
           w == UnitsIn(back)
<1>1. born \in Nat /\ n \in Nat /\ DOMAIN pool \subseteq 1 .. born /\ DOMAIN back = 1 .. n
      /\ left \subseteq DOMAIN pool
  BY DEF Stock, IsPoolList
<1>2. /\ DOMAIN new = left \cup come
      /\ \A i \in left : new[i] = pool[i]
      /\ \A i \in come : i \notin left => new[i] = back[i - born]
  BY DEF PoolWith
<1>3. left \cap come = {} /\ \A i \in come : i - born \in 1 .. n /\ i > born
  BY <1>1
<1>4. DOMAIN new \subseteq 1 .. born + n
  BY <1>1, <1>2
<1> HIDE DEF come
<1>5. \A i \in DOMAIN new : i \in left \/ i > born
  BY <1>2, <1>3
<1>6. \A i \in DOMAIN new : IsPoolOutput(new[i])
  <2>1. \A i \in left : IsPoolOutput(pool[i])
    BY DEF Stock
  <2>2. \A j \in 1 .. n : IsPoolOutput(back[j])
    BY DEF IsPoolList
  <2>3. QED
    BY <1>2, <1>3, <2>1, <2>2
<1>7. IsFiniteSet(DOMAIN pool) /\ IsFiniteSet(left) /\ IsFiniteSet(DOMAIN pool \ left)
  <2>1. IsFiniteSet(1 .. born)
    BY <1>1, FS_Interval
  <2>2. IsFiniteSet(DOMAIN pool)
    BY <1>1, <2>1, FS_Subset
  <2>3. QED
    BY <2>2, FS_Subset
<1>8. \A i \in DOMAIN pool : u[i] = pool[i].units /\ u[i] \in Nat
  BY DEF Stock, IsPoolOutput, UnitsIn
<1>9. \A i \in left \cup come : v[i] = new[i].units /\ v[i] \in Nat
  BY <1>2, <1>6 DEF IsPoolOutput, UnitsIn
<1>10. \A j \in 1 .. n : w[j] = back[j].units /\ w[j] \in Nat
  BY <1>1 DEF IsPoolList, IsPoolOutput, UnitsIn
<1>11. /\ UnitsOf(pool) = SumFunctionOnSet(u, DOMAIN pool)
       /\ UnitsOf(new) = SumFunctionOnSet(v, DOMAIN new)
       /\ UnitsOf(back) = SumFunctionOnSet(w, DOMAIN back)
  BY DEF UnitsOf, SumFunction, UnitsIn
<1> HIDE DEF u, v, w, n
<1>12. IsFiniteSet(come) /\ SumFunctionOnSet(v, come) = SumFunctionOnSet(w, 1 .. n)
       /\ IsFiniteSet(1 .. n)
  <2>1. \A j \in 1 .. n : v[born + j] \in Nat /\ w[j] = v[born + j]
    <3> SUFFICES ASSUME NEW j \in 1 .. n PROVE v[born + j] \in Nat /\ w[j] = v[born + j]
      OBVIOUS
    <3>1. born + j \in come /\ (born + j) - born = j
      BY <1>1 DEF come
    <3>2. born + j \notin left
      BY <1>3, <3>1
    <3>3. new[born + j] = back[j]
      BY <1>2, <3>1, <3>2
    <3>4. QED
      BY <1>9, <1>10, <3>1, <3>3
  <2>2. born \in Int
    BY <1>1
  <2>3. QED
    BY <1>1, <2>1, <2>2, SumShift DEF come
<1>13. SumFunctionOnSet(v, left \cup come) = SumFunctionOnSet(v, left) + SumFunctionOnSet(v, come)
  <2>1. \A i \in left \cup come : v[i] \in Int
    BY <1>9
  <2>2. QED
    BY <1>3, <1>7, <1>12, <2>1, SumUnion
<1>14. SumFunctionOnSet(u, left) = SumFunctionOnSet(v, left)
  <2>1. \A i \in left : u[i] \in Int /\ v[i] = u[i]
    BY <1>1, <1>2, <1>8, <1>9
  <2>2. QED
    BY <1>7, <2>1, SumAgree
<1>15. SumFunctionOnSet(u, DOMAIN pool) = SumFunctionOnSet(u, left)
                                           + SumFunctionOnSet(u, DOMAIN pool \ left)
  <2> DEFINE rest == DOMAIN pool \ left
  <2>1. left \cap rest = {} /\ DOMAIN pool = left \cup rest
    BY <1>1
  <2>2. \A i \in left \cup rest : u[i] \in Int
    BY <1>8, <2>1
  <2> HIDE DEF rest
  <2>3. SumFunctionOnSet(u, left \cup rest) = SumFunctionOnSet(u, left) + SumFunctionOnSet(u, rest)
    <3>1. IsFiniteSet(rest)
      BY <1>7 DEF rest
    <3>2. QED
      BY <1>7, <2>1, <2>2, <3>1, SumUnion
  <2>4. SumFunctionOnSet(u, DOMAIN pool) = SumFunctionOnSet(u, left \cup rest)
    BY <2>1, Zenon
  <2>5. QED
    BY <2>3, <2>4 DEF rest
<1>16. SumFunctionOnSet(u, left) \in Nat /\ SumFunctionOnSet(u, DOMAIN pool) \in Nat
       /\ SumFunctionOnSet(w, 1 .. n) \in Nat
  BY <1>1, <1>7, <1>8, <1>10, <1>12, SumNat
<1>17. SumFunctionOnSet(v, DOMAIN new) = SumFunctionOnSet(v, left \cup come)
       /\ SumFunctionOnSet(w, DOMAIN back) = SumFunctionOnSet(w, 1 .. n)
  BY <1>1, <1>2, Zenon
<1>18. UnitsOf(new) = SumFunctionOnSet(u, left) + UnitsOf(back)
       /\ UnitsOf(back) \in Nat /\ UnitsOf(pool) \in Nat
  BY <1>11, <1>12, <1>13, <1>14, <1>16, <1>17
<1>19. UnitsOf(pool) = SumFunctionOnSet(u, left) + SumFunctionOnSet(u, DOMAIN pool \ left)
  BY <1>11, <1>15
<1>20. QED
  BY <1>2, <1>4, <1>5, <1>6, <1>7, <1>16, <1>18, <1>19 DEF u, n, come

LEMMA FiniteAccounts == IsFiniteSet(Accounts)
<1>1. Accounts = (({"users"} \cup {"paid"}) \cup {"returned"}) \cup {"burned"}
  BY DEF Accounts
<1>2. IsFiniteSet({"users"}) /\ IsFiniteSet({"paid"}) /\ IsFiniteSet({"returned"})
      /\ IsFiniteSet({"burned"})
  BY FS_Singleton
<1>3. QED
  BY <1>1, <1>2, FS_Union

\* A transaction that lands moves units between the pool and an account.
LEMMA LandingBalances ==
  ASSUME Stock, held \in [Accounts -> Nat], NEW tx, NEW account \in Accounts,
         IsPoolList(tx.back), Lands(tx, account), UnitsOf(tx.back) <= SumFunction(tx.claims)
  PROVE  /\ Stock'
         /\ held' \in [Accounts -> Nat]
         /\ UnitsOf(pool') + SumFunction(held') = UnitsOf(pool) + SumFunction(held)
         /\ UNCHANGED <<slot, seed, wallet, gifts, script>>
         /\ DOMAIN tx.claims \subseteq DOMAIN pool
         /\ \A i \in DOMAIN pool' : i \in DOMAIN pool \ DOMAIN tx.claims \/ i > born
         /\ held'[account] = held[account] + SumFunction(tx.claims) - UnitsOf(tx.back)
         /\ \A a \in Accounts \ {account} : held'[a] = held[a]
         /\ SumFunction(tx.claims) \in Nat /\ UnitsOf(tx.back) \in Nat
<1> DEFINE left == DOMAIN pool \ DOMAIN tx.claims
           spent == DOMAIN tx.claims
           new == PoolWith(left, tx.back)
           v == held[account] + (SumFunction(tx.claims) - UnitsOf(tx.back))
<1>1. /\ pool' = new
      /\ born' = born + Len(tx.back)
      /\ UNCHANGED <<slot, seed, wallet, gifts, script>>
      /\ held' = [held EXCEPT ![account] =
                     held[account] + SumFunction(tx.claims) - UnitsOf(tx.back)]
  BY DEF Lands
<1>2. spent \subseteq DOMAIN pool /\ \A i \in spent : tx.claims[i] = pool[i].units
  BY DEF Lands, Takes, Evaluates
<1>3. left \in SUBSET DOMAIN pool /\ DOMAIN pool \ left = spent
  BY <1>2
<1>4. Len(tx.back) \in Nat /\ born \in Nat
  BY DEF IsPoolList, Stock
<1> HIDE DEF new, left, spent
<1>5. /\ DOMAIN new \subseteq 1 .. born + Len(tx.back)
      /\ \A i \in DOMAIN new : i \in left \/ i > born
      /\ \A i \in DOMAIN new : IsPoolOutput(new[i])
      /\ IsFiniteSet(DOMAIN pool)
      /\ UnitsOf(tx.back) \in Nat /\ UnitsOf(pool) \in Nat
      /\ UnitsOf(pool) = SumFunctionOnSet(UnitsIn(pool), left)
                           + SumFunctionOnSet(UnitsIn(pool), DOMAIN pool \ left)
      /\ UnitsOf(new) = SumFunctionOnSet(UnitsIn(pool), left) + UnitsOf(tx.back)
      /\ SumFunctionOnSet(UnitsIn(pool), left) \in Nat
  <2> DEFINE back == tx.back
  <2>1. IsPoolList(back) /\ new = PoolWith(left, back) /\ left \in SUBSET DOMAIN pool
    BY <1>3 DEF new
  <2> HIDE DEF back, v
  <2>2. /\ DOMAIN new \subseteq 1 .. born + Len(back)
        /\ \A i \in DOMAIN new : i \in left \/ i > born
        /\ \A i \in DOMAIN new : IsPoolOutput(new[i])
        /\ IsFiniteSet(DOMAIN pool)
        /\ UnitsOf(back) \in Nat /\ UnitsOf(pool) \in Nat
        /\ UnitsOf(pool) = SumFunctionOnSet(UnitsIn(pool), left)
                             + SumFunctionOnSet(UnitsIn(pool), DOMAIN pool \ left)
        /\ UnitsOf(new) = SumFunctionOnSet(UnitsIn(pool), left) + UnitsOf(back)
        /\ SumFunctionOnSet(UnitsIn(pool), left) \in Nat
    BY <2>1, PoolWithSums
  <2>3. QED
    BY <2>2 DEF back
<1>6. Stock'
  BY <1>1, <1>4, <1>5 DEF Stock
<1>7. SumFunctionOnSet(UnitsIn(pool), spent) = SumFunction(tx.claims)
      /\ SumFunction(tx.claims) \in Nat
  <2>1. IsFiniteSet(spent)
    BY <1>2, <1>5, FS_Subset
  <2>2. \A i \in spent : /\ UnitsIn(pool)[i] \in Nat /\ UnitsIn(pool)[i] \in Int
                         /\ tx.claims[i] = UnitsIn(pool)[i]
    BY <1>2 DEF Stock, IsPoolOutput, UnitsIn
  <2>3. SumFunctionOnSet(UnitsIn(pool), spent) = SumFunctionOnSet(tx.claims, spent)
    BY <2>1, <2>2, SumAgree
  <2>4. SumFunctionOnSet(UnitsIn(pool), spent) \in Nat
    BY <2>1, <2>2, SumNat
  <2>5. QED
    BY <2>3, <2>4 DEF SumFunction, spent
<1>8. SumFunctionOnSet(UnitsIn(pool), DOMAIN pool \ left) = SumFunction(tx.claims)
  BY <1>3, <1>7, Zenon
<1>9. v \in Nat /\ v = held[account] + SumFunction(tx.claims) - UnitsOf(tx.back)
      /\ held[account] \in Nat
  BY <1>5, <1>7
<1>10. held' = [held EXCEPT ![account] = v]
  BY <1>1, <1>9
<1> HIDE DEF v
<1>11. /\ DOMAIN held = Accounts /\ DOMAIN held' = Accounts
       /\ \A a \in Accounts : held[a] \in Int /\ held'[a] \in Int
       /\ \A a \in Accounts \ {account} : held'[a] = held[a]
       /\ held'[account] = v
  BY <1>9, <1>10
<1>12. /\ SumFunction(held) \in Int
       /\ SumFunction(held') = SumFunction(held) - held[account] + held'[account]
  BY <1>11, FiniteAccounts, SumExcept
<1>13. SumFunction(held') = SumFunction(held) - held[account] + v
  BY <1>11, <1>12
<1>14. UnitsOf(pool') = UnitsOf(new)
  BY <1>1, Zenon
<1>15. UnitsOf(pool') + SumFunction(held') = UnitsOf(pool) + SumFunction(held)
  BY <1>5, <1>7, <1>8, <1>9, <1>12, <1>13, <1>14, SMTT(30)
<1>16. /\ held' \in [Accounts -> Nat]
       /\ held'[account] = held[account] + SumFunction(tx.claims) - UnitsOf(tx.back)
       /\ \A a \in Accounts \ {account} : held'[a] = held[a]
  BY <1>9, <1>10
<1>17. \A i \in DOMAIN pool' : i \in DOMAIN pool \ DOMAIN tx.claims \/ i > born
  BY <1>1, <1>5 DEF left
<1>18. QED
  BY <1>1, <1>2, <1>5, <1>6, <1>7, <1>15, <1>16, <1>17 DEF spent

\* No change, and one output, are lists of outputs.
LEMMA ListsOfOne ==
  /\ IsPoolList(<<>>) /\ UnitsOf(<<>>) = 0
  /\ \A u \in Nat \ {0}, d \in Datums, by \in Makers :
        (by \in {"mint", "burner"} /\ d = "none") \/
           /\ IsPoolList(<<Output(u, d, by)>>)
           /\ Len(<<Output(u, d, by)>>) = 1
           /\ UnitsOf(<<Output(u, d, by)>>) = u
<1>1. IsPoolList(<<>>) /\ UnitsOf(<<>>) = 0
  <2>1. DOMAIN UnitsIn(<<>>) = {} /\ UnitsOf(<<>>) = SumFunctionOnSet(UnitsIn(<<>>), DOMAIN UnitsIn(<<>>))
    BY DEF UnitsIn, UnitsOf, SumFunction
  <2>2. UnitsOf(<<>>) = SumFunctionOnSet(UnitsIn(<<>>), {})
    BY <2>1, Zenon
  <2>3. QED
    BY <2>2, SumEmpty DEF IsPoolList
<1>2. ASSUME NEW u \in Nat \ {0}, NEW d \in Datums, NEW by \in Makers,
             ~ (by \in {"mint", "burner"} /\ d = "none")
      PROVE  /\ IsPoolList(<<Output(u, d, by)>>)
             /\ Len(<<Output(u, d, by)>>) = 1
             /\ UnitsOf(<<Output(u, d, by)>>) = u
  <2> DEFINE o == Output(u, d, by)
             f == UnitsIn(<<o>>)
  <2>1. IsPoolOutput(o) /\ o.units = u
    BY <1>2 DEF IsPoolOutput, Output
  <2> HIDE DEF o
  <2>2. Len(<<o>>) = 1 /\ DOMAIN <<o>> = 1 .. 1 /\ <<o>>[1] = o /\ 1 .. 1 = {1}
    OBVIOUS
  <2>3. IsPoolList(<<o>>)
    BY <2>1, <2>2 DEF IsPoolList
  <2>4. f[1] = u /\ UnitsOf(<<o>>) = SumFunctionOnSet(f, {1})
    BY <2>1, <2>2 DEF UnitsIn, UnitsOf, SumFunction
  <2> HIDE DEF f
  <2>5. SumFunctionOnSet(f, {1}) = u
    BY <2>4, SumOne
  <2>6. QED
    BY <2>2, <2>3, <2>4, <2>5 DEF o
<1>3. QED
  BY <1>1, <1>2

\* A stretch of a list of amounts, and what it adds to those before.
Upto(outs, n) == SumFunctionOnSet(outs, 1 .. n)

LEMMA StretchSums ==
  ASSUME NEW outs \in Seq(Nat \ {0}), NEW d \in Nat, NEW e \in Nat, d <= e, e <= Len(outs)
  PROVE  /\ SubSeq(outs, d + 1, e) \in Seq(Nat \ {0})
         /\ Len(SubSeq(outs, d + 1, e)) = e - d
         /\ SumFunction(SubSeq(outs, d + 1, e)) \in Nat
         /\ Upto(outs, d) \in Nat
         /\ Upto(outs, e) = Upto(outs, d) + SumFunction(SubSeq(outs, d + 1, e))
<1> DEFINE s == SubSeq(outs, d + 1, e)
           n == e - d
<1>1. n \in Nat /\ e = d + n /\ Len(outs) \in Nat /\ DOMAIN outs = 1 .. Len(outs)
  OBVIOUS
<1>2. s \in Seq(Nat \ {0}) /\ Len(s) = n /\ DOMAIN s = 1 .. n
      /\ \A j \in 1 .. n : s[j] = outs[d + j]
  OBVIOUS
<1>3. \A i \in 1 .. e : outs[i] \in Nat /\ outs[i] \in Int
  OBVIOUS
<1> HIDE DEF s, n
<1>4. \A j \in 1 .. n : outs[d + j] \in Nat /\ s[j] = outs[d + j]
  <2> SUFFICES ASSUME NEW j \in 1 .. n PROVE outs[d + j] \in Nat /\ s[j] = outs[d + j]
    OBVIOUS
  <2>1. d + j \in 1 .. e
    BY <1>1
  <2>2. QED
    BY <1>2, <1>3, <2>1
<1>5. /\ IsFiniteSet(d + 1 .. d + n) /\ IsFiniteSet(1 .. n)
      /\ SumFunctionOnSet(outs, d + 1 .. d + n) = SumFunctionOnSet(s, 1 .. n)
  <2>1. d \in Int /\ n \in Nat
    BY <1>1
  <2>2. QED
    BY <1>4, <2>1, SumShift, ZenonT(30)
<1>6. SumFunctionOnSet(s, 1 .. n) \in Nat
  <2>1. \A j \in 1 .. n : s[j] \in Nat
    BY <1>4
  <2>2. QED
    BY <1>5, <2>1, SumNat
<1>7. SumFunction(s) = SumFunctionOnSet(s, 1 .. n)
  BY <1>2 DEF SumFunction
<1>8. IsFiniteSet(1 .. d) /\ SumFunctionOnSet(outs, 1 .. d) \in Nat
  <2>1. IsFiniteSet(1 .. d)
    BY FS_Interval
  <2>2. \A i \in 1 .. d : outs[i] \in Nat
    BY <1>1, <1>3
  <2>3. QED
    BY <2>1, <2>2, SumNat
<1>9. SumFunctionOnSet(outs, 1 .. e) = SumFunctionOnSet(outs, 1 .. d)
                                        + SumFunctionOnSet(outs, d + 1 .. d + n)
  <2> DEFINE R == 1 .. d
             T == d + 1 .. d + n
  <2>1. R \cap T = {} /\ 1 .. e = R \cup T
    BY <1>1
  <2>2. \A i \in R \cup T : outs[i] \in Int
    BY <1>3, <2>1
  <2> HIDE DEF R, T
  <2>3. SumFunctionOnSet(outs, R \cup T) = SumFunctionOnSet(outs, R) + SumFunctionOnSet(outs, T)
    <3>1. IsFiniteSet(R) /\ IsFiniteSet(T)
      BY <1>5, <1>8 DEF R, T
    <3>2. QED
      BY <2>1, <2>2, <3>1, SumUnion
  <2>4. SumFunctionOnSet(outs, 1 .. e) = SumFunctionOnSet(outs, R \cup T)
    BY <2>1, Zenon
  <2>5. QED
    BY <2>3, <2>4 DEF R, T
<1>10. QED
  BY <1>1, <1>2, <1>5, <1>6, <1>7, <1>8, <1>9 DEF Upto, s, n

\* The shares of the pool's units are positive and add up (build_pool_outputs).
LEMMA SplitSums ==
  ASSUME NEW total \in Int, NEW n \in Int, Splittable(total, n)
  PROVE  /\ Split(total, n) \in Seq(Nat \ {0}) /\ Len(Split(total, n)) = n
         /\ Upto(Split(total, n), n) = total
         /\ n \in Nat /\ n > 0
<1> DEFINE q == total \div n
           s == Split(total, n)
           m == n - 1
<1>1. n \in Nat \ {0} /\ total \in Nat \ {0} /\ q \in Nat \ {0} /\ m \in Nat /\ m + 1 = n
  BY DEF Splittable
<1>2. n * q <= total
  BY <1>1
<1> HIDE DEF q
<1>3. m * q \in Nat /\ m * q + q = n * q
  BY <1>1
<1>4. total - m * q \in Nat \ {0}
  BY <1>1, <1>2, <1>3
<1>5. DOMAIN s = 1 .. n /\ \A i \in 1 .. n : s[i] = IF i < n THEN q ELSE total - m * q
  BY DEF Split, q
<1>6. s \in Seq(Nat \ {0}) /\ Len(s) = n
  <2>1. \A i \in 1 .. n : s[i] \in Nat \ {0}
    BY <1>1, <1>4, <1>5
  <2>2. s = [i \in 1 .. n |-> s[i]]
    BY DEF Split
  <2> HIDE DEF s
  <2>3. QED
    BY <1>1, <2>1, <2>2
<1> HIDE DEF s
<1>7. \A i \in 1 .. m : s[i] = q
  BY <1>1, <1>5
<1>8. SumFunctionOnSet(s, 1 .. m) = m * q
  <2> HIDE DEF m
  <2> QED BY <1>1, <1>7, SumShares
<1>9. \A i \in 1 .. m + 1 : s[i] \in Int
  BY <1>1, <1>4, <1>5
<1>10. SumFunctionOnSet(s, 1 .. m + 1) = s[m + 1] + SumFunctionOnSet(s, 1 .. m)
  <2> HIDE DEF m
  <2> QED BY <1>1, <1>9, SumNext
<1>11. s[m + 1] = total - m * q
  BY <1>1, <1>5
<1>12. SumFunctionOnSet(s, 1 .. n) = total
  <2>1. SumFunctionOnSet(s, 1 .. n) = SumFunctionOnSet(s, 1 .. m + 1)
    BY <1>1, Zenon
  <2> HIDE DEF m
  <2>2. QED
    BY <1>1, <1>3, <1>8, <1>10, <1>11, <2>1
<1>13. QED
  BY <1>1, <1>6, <1>12 DEF Upto, s

\* Before the mint nothing is anywhere; after it the units add up.
Books ==
  /\ held \in [Accounts -> Nat]
  /\ wallet \in Seq(0 .. TotalSupply)
  /\ seed \in BOOLEAN
  /\ seed => /\ situation = "nothing minted"
             /\ DOMAIN pool = {} /\ wallet = <<>>
             /\ \A a \in Accounts : held[a] = 0
  /\ UnitsOf(pool) + InWallet + SumFunction(held) = IF seed THEN 0 ELSE TotalSupply

Prepares == {"preflight", "submitting"}

Busy == {"building", "listing"} \cup Prepares

BuildFields == {"stage", "outs", "done", "view", "locked", "total", "start", "submit",
                "preflight", "runs"}

\* A batch that is built has been in the wallet.
FundedBy(b, w) ==
  /\ w # <<>>
  /\ DOMAIN b = BuildFields
  /\ b.outs \in Seq(Nat \ {0})
  /\ b.done \in Nat /\ b.done <= Len(b.outs)
  /\ b.stage \in Busy => b.done < Len(b.outs)
  /\ b.stage \in Prepares => b.view \in DOMAIN w /\ SumOf(BatchOf(b)) <= w[b.view]

Building == situation = "supply in the wallet"

Funded == build.stage # "idle" => Building /\ FundedBy(build, wallet)

SupplyInv == Stock /\ Books /\ Funded

\* Nothing in the pool, or all the units there are.
LEMMA SumsOfNone ==
  /\ \A p : DOMAIN p = {} => UnitsOf(p) = 0
  /\ \A f : DOMAIN f = Accounts /\ (\A a \in Accounts : f[a] = 0) => SumFunction(f) = 0
<1>1. ASSUME NEW p, DOMAIN p = {} PROVE UnitsOf(p) = 0
  <2>1. UnitsOf(p) = SumFunctionOnSet(UnitsIn(p), DOMAIN p)
    BY DEF UnitsOf, UnitsIn, SumFunction
  <2>2. UnitsOf(p) = SumFunctionOnSet(UnitsIn(p), {})
    BY <1>1, <2>1, Zenon
  <2>3. QED
    BY <2>2, SumEmpty
<1>2. ASSUME NEW f, DOMAIN f = Accounts, \A a \in Accounts : f[a] = 0
      PROVE  SumFunction(f) = 0
  <2>1. SumFunction(f) = SumFunctionOnSet(f, Accounts)
    BY <1>2, Zenon DEF SumFunction
  <2>2. QED
    BY <1>2, <2>1, FiniteAccounts, SumZero
<1>3. QED
  BY <1>1, <1>2

\* What the users have at the start, if they have anything.
LEMMA StartingBalance ==
  ASSUME NEW v \in Int, NEW h, h = [a \in Accounts |-> IF a = "users" THEN v ELSE 0]
  PROVE  SumFunction(h) = v
<1> DEFINE none == [a \in Accounts |-> 0]
<1>1. /\ DOMAIN none = Accounts /\ DOMAIN h = Accounts
      /\ \A a \in Accounts : none[a] = 0 /\ none[a] \in Int /\ h[a] \in Int
      /\ "users" \in Accounts /\ h["users"] = v
      /\ \A a \in Accounts \ {"users"} : h[a] = none[a]
  BY DEF Accounts
<1> HIDE DEF none
<1>2. SumFunction(none) = 0
  BY <1>1, SumsOfNone
<1>3. SumFunction(h) = SumFunction(none) - none["users"] + h["users"]
  BY <1>1, FiniteAccounts, SumExcept
<1>4. QED
  BY <1>1, <1>2, <1>3

LEMMA SupplyInit == Init => SupplyInv
<1> SUFFICES ASSUME Init PROVE SupplyInv
  OBVIOUS
<1> DEFINE free == ~ seed /\ situation # "supply in the wallet"
           v == TotalSupply - UnitsOf(pool)
<1>1. pool = Empty \/ pool \in Leftovers
  BY DEF Init
<1>2. DOMAIN Empty = {}
  BY DEF Empty
<1>3. TotalSupply \in Nat \ {0}
  BY ScriptAssumption
<1>4. /\ Stock /\ IsFiniteSet(DOMAIN pool)
      /\ UnitsOf(pool) \in Nat /\ UnitsOf(pool) <= TotalSupply
      /\ pool = Empty => UnitsOf(pool) = 0
  <2>1. CASE pool = Empty
    <3>1. DOMAIN pool = {} /\ born = Cardinality({})
      BY <1>2, <2>1 DEF Init
    <3>2. Cardinality({}) = 0 /\ IsFiniteSet({}) /\ UnitsOf(pool) = 0
      BY <3>1, FS_EmptySet, SumsOfNone
    <3>3. QED
      BY <1>3, <3>1, <3>2 DEF Stock
  <2>2. CASE pool \in Leftovers
    <3>1. /\ IsFiniteSet(DOMAIN pool) /\ DOMAIN pool = 1 .. Cardinality(DOMAIN pool)
          /\ \A i \in DOMAIN pool : IsPoolOutput(pool[i])
          /\ UnitsOf(pool) <= TotalSupply
      BY <2>2, LeftoverAssumption
    <3>2. born = Cardinality(DOMAIN pool)
      BY DEF Init
    <3>3. born \in Nat
      BY <3>1, <3>2, FS_CardinalityType
    <3>4. Stock
      BY <3>1, <3>2, <3>3 DEF Stock
    <3>5. UnitsOf(pool) \in Nat
      <4>1. \A i \in DOMAIN pool : UnitsIn(pool)[i] \in Nat
        BY <3>1 DEF UnitsIn, IsPoolOutput
      <4>2. SumFunctionOnSet(UnitsIn(pool), DOMAIN pool) \in Nat
        BY <3>1, <4>1, SumNat
      <4>3. QED
        BY <4>2 DEF UnitsOf, UnitsIn, SumFunction
    <3>6. pool = Empty => UnitsOf(pool) = 0
      BY <1>2, SumsOfNone
    <3>7. QED
      BY <3>1, <3>4, <3>5, <3>6
  <2>3. QED
    BY <1>1, <2>1, <2>2
<1>5. v \in Nat
  BY <1>3, <1>4
<1>6. held = [a \in Accounts |-> IF a = "users" /\ free THEN v ELSE 0]
  BY DEF Init
<1>7. wallet = (IF situation = "supply in the wallet" THEN <<TotalSupply>> ELSE <<>>)
      /\ seed = (situation = "nothing minted")
      /\ (situation \notin OnOutputs => pool = Empty)
  BY DEF Init
<1> HIDE DEF v
<1>8. held \in [Accounts -> Nat]
  BY <1>5, <1>6
<1>9. UnitsOf(pool) + InWallet + SumFunction(held) = IF seed THEN 0 ELSE TotalSupply
  <2>1. CASE free
    <3>1. held = [a \in Accounts |-> IF a = "users" THEN v ELSE 0]
      BY <1>6, <2>1
    <3>2. SumFunction(held) = v
      BY <1>5, <3>1, StartingBalance
    <3>3. InWallet = 0
      BY <1>7, <2>1 DEF InWallet
    <3>4. v = TotalSupply - UnitsOf(pool) /\ ~ seed
      BY <2>1 DEF v
    <3>5. UnitsOf(pool) + InWallet + SumFunction(held) = TotalSupply
      BY <1>3, <1>4, <3>2, <3>3, <3>4
    <3>6. QED
      BY <3>4, <3>5, Zenon
  <2>2. CASE ~ free
    <3>1. DOMAIN held = Accounts /\ \A a \in Accounts : held[a] = 0
      BY <1>6, <2>2
    <3>2. SumFunction(held) = 0
      BY <3>1, SumsOfNone
    <3>3. UnitsOf(pool) = 0
      BY <1>4, <1>7, <2>2 DEF OnOutputs
    <3>4. CASE seed
      <4>1. InWallet = 0
        BY <1>7, <3>4 DEF InWallet
      <4>2. QED
        BY <3>2, <3>3, <3>4, <4>1
    <3>5. CASE ~ seed
      <4>1. wallet = <<TotalSupply>>
        BY <1>7, <2>2, <3>5
      <4>2. InWallet = TotalSupply
        BY <4>1 DEF InWallet
      <4>3. QED
        BY <1>3, <3>2, <3>3, <3>5, <4>2
    <3>6. QED
      BY <3>4, <3>5
  <2>3. QED
    BY <2>1, <2>2
<1>10. wallet \in Seq(0 .. TotalSupply) /\ seed \in BOOLEAN
       /\ (seed => /\ situation = "nothing minted"
                   /\ DOMAIN pool = {} /\ wallet = <<>>
                   /\ \A a \in Accounts : held[a] = 0)
  <2>1. wallet \in Seq(0 .. TotalSupply) /\ seed \in BOOLEAN
    <3>1. TotalSupply \in 0 .. TotalSupply
      BY <1>3
    <3>2. <<>> \in Seq(0 .. TotalSupply) /\ <<TotalSupply>> \in Seq(0 .. TotalSupply)
      BY <3>1
    <3>3. wallet = <<>> \/ wallet = <<TotalSupply>>
      BY <1>7
    <3>4. seed \in BOOLEAN
      BY <1>7, Zenon
    <3>5. QED
      BY <3>2, <3>3, <3>4, Zenon
  <2>2. seed => /\ situation = "nothing minted" /\ wallet = <<>> /\ pool = Empty
    BY <1>7 DEF OnOutputs
  <2>3. seed => \A a \in Accounts : held[a] = 0
    BY <1>6
  <2>4. QED
    BY <1>2, <2>1, <2>2, <2>3
<1>11. build.stage = "idle"
  BY DEF Init, NoBuild
<1>12. QED
  BY <1>4, <1>8, <1>9, <1>10, <1>11 DEF SupplyInv, Books, Funded

LEMMA PoolSums ==
  ASSUME NEW p, NEW n \in Nat, DOMAIN p \subseteq 1 .. n,
         \A i \in DOMAIN p : IsPoolOutput(p[i])
  PROVE  /\ IsFiniteSet(DOMAIN p) /\ UnitsOf(p) \in Nat
         /\ \A i \in DOMAIN p : p[i].units \in Nat \ {0} /\ p[i].units <= UnitsOf(p)
<1> DEFINE f == UnitsIn(p)
<1>1. IsFiniteSet(DOMAIN p)
  <2>1. IsFiniteSet(1 .. n)
    BY FS_Interval
  <2>2. QED
    BY <2>1, FS_Subset
<1>2. \A i \in DOMAIN p : f[i] = p[i].units /\ f[i] \in Nat \ {0} /\ f[i] \in Nat
  BY DEF UnitsIn, IsPoolOutput
<1>3. UnitsOf(p) = SumFunctionOnSet(f, DOMAIN p)
  BY DEF UnitsOf, UnitsIn, SumFunction
<1> HIDE DEF f
<1>4. SumFunctionOnSet(f, DOMAIN p) \in Nat
      /\ \A i \in DOMAIN p : f[i] <= SumFunctionOnSet(f, DOMAIN p)
  BY <1>1, <1>2, SumNat, SumBound
<1>5. QED
  BY <1>1, <1>2, <1>3, <1>4

LEMMA AccountSums ==
  ASSUME NEW h \in [Accounts -> Nat]
  PROVE  SumFunction(h) \in Nat /\ \A a \in Accounts : h[a] <= SumFunction(h)
<1>1. SumFunction(h) = SumFunctionOnSet(h, Accounts)
  <2>1. DOMAIN h = Accounts
    OBVIOUS
  <2>2. QED
    BY <2>1, Zenon DEF SumFunction
<1>2. \A a \in Accounts : h[a] \in Nat
  OBVIOUS
<1>3. QED
  BY <1>1, <1>2, FiniteAccounts, SumNat, SumBound

LEMMA AccountChanges ==
  ASSUME NEW h \in [Accounts -> Nat], NEW g \in [Accounts -> Nat],
         NEW a \in Accounts, \A b \in Accounts \ {a} : g[b] = h[b]
  PROVE  SumFunction(h) \in Nat /\ SumFunction(g) = SumFunction(h) - h[a] + g[a]
<1>1. DOMAIN h = Accounts /\ DOMAIN g = Accounts
      /\ \A b \in Accounts : h[b] \in Int /\ g[b] \in Int
  OBVIOUS
<1>2. QED
  BY <1>1, FiniteAccounts, SumExcept, AccountSums

LEMMA FundedStays ==
  ASSUME Funded, UNCHANGED <<build, wallet, situation>>
  PROVE  Funded'
<1>1. FundedBy(build, wallet) => FundedBy(build', wallet')
  BY Zenon
<1>2. QED
  BY <1>1, Zenon DEF Funded, Building

LEMMA SupplyLands ==
  ASSUME SupplyInv, ~ seed, UNCHANGED <<situation, build>>,
         NEW tx, NEW account \in Accounts, IsPoolList(tx.back), Lands(tx, account),
         UnitsOf(tx.back) <= SumFunction(tx.claims)
  PROVE  SupplyInv'
<1>1. Stock /\ held \in [Accounts -> Nat] /\ wallet \in Seq(0 .. TotalSupply) /\ seed = FALSE
      /\ UnitsOf(pool) + InWallet + SumFunction(held) = TotalSupply
  BY DEF SupplyInv, Books
<1>2. /\ Stock' /\ held' \in [Accounts -> Nat]
      /\ UnitsOf(pool') + SumFunction(held') = UnitsOf(pool) + SumFunction(held)
      /\ UNCHANGED <<slot, seed, wallet, gifts, script>>
  BY <1>1, LandingBalances
<1>3. Funded'
  BY <1>2, FundedStays DEF SupplyInv
<1>4. InWallet' = InWallet /\ InWallet \in Int
  BY <1>1, <1>2, ScriptAssumption DEF InWallet
<1>5. UnitsOf(pool) \in Nat /\ UnitsOf(pool') \in Nat
  BY <1>1, <1>2, PoolSums DEF Stock
<1>6. SumFunction(held) \in Nat /\ SumFunction(held') \in Nat
  BY <1>1, <1>2, AccountSums
<1>7. UnitsOf(pool') + InWallet' + SumFunction(held') = TotalSupply
  <2>1. UnitsOf(pool') + InWallet + SumFunction(held') = TotalSupply
    <3>1. \A a, b, c, d \in Nat, w \in Int :
             a + b = c + d /\ c + w + d = TotalSupply => a + w + b = TotalSupply
      BY ScriptAssumption
    <3>2. UnitsOf(pool') + SumFunction(held') = UnitsOf(pool) + SumFunction(held)
      BY <1>2
    <3>3. UnitsOf(pool) + InWallet + SumFunction(held) = TotalSupply
      BY <1>1
    <3>4. InWallet \in Int
      BY <1>4
    <3>5. QED
      BY <1>5, <1>6, <3>1, <3>2, <3>3, <3>4
  <2>2. UnitsOf(pool') + InWallet' + SumFunction(held') = UnitsOf(pool') + InWallet + SumFunction(held')
    BY <1>4, Zenon
  <2>3. QED
    BY <2>1, <2>2
<1>8. QED
  BY <1>1, <1>2, <1>3, <1>7 DEF SupplyInv, Books

LEMMA OneClaim ==
  ASSUME NEW i, NEW c, DOMAIN c = {i}, c[i] \in Int
  PROVE  SumFunction(c) = c[i]
<1>1. SumFunction(c) = SumFunctionOnSet(c, {i})
  BY Zenon DEF SumFunction
<1>2. QED
  BY <1>1, SumOne

\* What is left of an output that pays for something.
LEMMA Remainder ==
  ASSUME NEW units \in Nat, NEW u \in Nat \ {0}, u <= units,
         NEW by \in Makers, by \notin {"mint", "burner"},
         NEW back, back = IF units = u THEN <<>> ELSE <<Output(units - u, "void", by)>>
  PROVE  /\ IsPoolList(back)
         /\ UnitsOf(back) = units - u
         /\ UnitsOf(back) <= units
<1>1. CASE units = u
  BY <1>1, ListsOfOne
<1>2. CASE units # u
  <2>1. units - u \in Nat \ {0} /\ "void" \in Datums /\ back = <<Output(units - u, "void", by)>>
    BY <1>2 DEF Datums
  <2>2. IsPoolList(back) /\ UnitsOf(back) = units - u
    BY <2>1, ListsOfOne
  <2>3. QED
    BY <2>2
<1>3. QED
  BY <1>1, <1>2

LEMMA SupplyServed ==
  ASSUME SupplyInv, UNCHANGED <<situation, build>>,
         NEW i \in DOMAIN pool, NEW u \in 1 .. TotalSupply, NEW until, Served(i, u, until)
  PROVE  SupplyInv'
<1> DEFINE units == pool[i].units
           tx == [claims    |-> [j \in {i} |-> pool[j].units],
                  back      |-> IF u = pool[i].units THEN <<>>
                                ELSE <<Output(pool[i].units - u, "void", "service")>>,
                  signers   |-> Admins,
                  witnesses |-> Admins,
                  from      |-> Open,
                  until     |-> until,
                  redeemer  |-> "surrender"]
<1>1. ~ seed
  BY DEF SupplyInv, Books
<1>2. units \in Nat /\ u \in Nat \ {0} /\ u <= units /\ Lands(tx, "users")
  BY DEF SupplyInv, Stock, IsPoolOutput, Served
<1>3. IsPoolList(tx.back) /\ UnitsOf(tx.back) <= units
  <2>1. tx.back = (IF units = u THEN <<>> ELSE <<Output(units - u, "void", "service")>>)
        /\ "service" \in Makers
    BY DEF Makers
  <2> HIDE DEF tx, units
  <2>2. QED
    BY <1>2, <2>1, Remainder
<1>4. SumFunction(tx.claims) = units
  <2>1. DOMAIN tx.claims = {i} /\ tx.claims[i] = units
    OBVIOUS
  <2> HIDE DEF tx, units
  <2>2. QED
    BY <1>2, <2>1, OneClaim
<1> HIDE DEF tx, units
<1>5. UnitsOf(tx.back) <= SumFunction(tx.claims)
  BY <1>3, <1>4
<1>6. "users" \in Accounts
  BY DEF Accounts
<1>7. QED
  BY <1>1, <1>2, <1>3, <1>5, <1>6, SupplyLands

\* A new output in the pool: units that an account gives, or that are minted.
LEMMA OutputArrives ==
  ASSUME Stock, NEW u \in Nat \ {0}, NEW d \in Datums, NEW by \in Makers,
         d # "none" \/ by \notin {"mint", "burner"},
         pool' = PoolWith(DOMAIN pool, <<Output(u, d, by)>>), born' = born + 1
  PROVE  /\ Stock'
         /\ UnitsOf(pool) \in Nat /\ UnitsOf(pool') = UnitsOf(pool) + u
         /\ \A i \in DOMAIN pool' : i \in DOMAIN pool \/ i > born
<1> DEFINE back == <<Output(u, d, by)>>
           all == DOMAIN pool
           new == PoolWith(all, back)
<1>1. IsPoolList(back) /\ Len(back) = 1 /\ UnitsOf(back) = u
  BY ListsOfOne
<1>2. all \in SUBSET DOMAIN pool /\ all \ all = {} /\ born \in Nat
  BY DEF Stock
<1>3. pool' = new
  OBVIOUS
<1> HIDE DEF back, new
<1>4. /\ DOMAIN new \subseteq 1 .. born + Len(back)
      /\ \A i \in DOMAIN new : i \in all \/ i > born
      /\ \A i \in DOMAIN new : IsPoolOutput(new[i])
      /\ UnitsOf(pool) \in Nat
      /\ UnitsOf(new) = SumFunctionOnSet(UnitsIn(pool), all) + UnitsOf(back)
  <2> HIDE DEF all
  <2>1. new = PoolWith(all, back)
    BY DEF new
  <2>2. QED
    BY <1>1, <1>2, <2>1, PoolWithSums
<1>5. UnitsOf(pool) = SumFunctionOnSet(UnitsIn(pool), all)
  BY DEF UnitsOf, UnitsIn, SumFunction
<1>6. Stock'
  BY <1>1, <1>2, <1>3, <1>4 DEF Stock
<1>7. UnitsOf(pool') = UnitsOf(new)
  BY <1>3, Zenon
<1>8. UnitsOf(pool') = UnitsOf(pool) + u
  BY <1>1, <1>4, <1>5, <1>7
<1>9. QED
  BY <1>3, <1>4, <1>6, <1>8

LEMMA SupplyGift ==
  ASSUME SupplyInv, UNCHANGED <<situation, build>>,
         NEW d \in {"void", "none"}, Gift(d) \/ Burn(d)
  PROVE  SupplyInv'
<1> DEFINE n == IF Gift(d) THEN 1 ELSE 2
<1>1. /\ Stock /\ held \in [Accounts -> Nat] /\ wallet \in Seq(0 .. TotalSupply) /\ seed \in BOOLEAN
      /\ (seed => \A a \in Accounts : held[a] = 0)
      /\ UnitsOf(pool) + InWallet + SumFunction(held) = IF seed THEN 0 ELSE TotalSupply
  BY DEF SupplyInv, Books
<1>2. "users" \in Accounts /\ "burned" \in Accounts /\ held["users"] \in Nat
  BY <1>1 DEF Accounts
<1>3. /\ held["users"] > 0 /\ ~ seed
      /\ UNCHANGED <<slot, seed, wallet, script>>
      /\ born' = born + 1
  <2>1. held["users"] > 0
    BY <1>2 DEF Gift, Burn
  <2>2. UNCHANGED <<slot, seed, wallet, script>> /\ born' = born + 1
    BY Zenon DEF Gift, Burn
  <2>3. QED
    BY <1>1, <1>2, <2>1, <2>2
<1>4. Funded'
  BY <1>3, FundedStays DEF SupplyInv
<1>5. d \in Datums /\ 1 \in Nat \ {0} /\ "anyone" \in Makers /\ "burner" \in Makers
  BY DEF Datums, Makers
<1>6. /\ Stock' /\ UnitsOf(pool) \in Nat /\ UnitsOf(pool') = UnitsOf(pool) + 1
      /\ held' \in [Accounts -> Nat]
      /\ SumFunction(held') = SumFunction(held) - 1
      /\ SumFunction(held) \in Int
  <2>1. CASE Gift(d)
    <3>1. pool' = PoolWith(DOMAIN pool, <<Output(1, d, "anyone")>>)
          /\ held' = [held EXCEPT !["users"] = held["users"] - 1]
      BY <2>1, Zenon DEF Gift
    <3>2. Stock' /\ UnitsOf(pool) \in Nat /\ UnitsOf(pool') = UnitsOf(pool) + 1
      BY <1>1, <1>3, <1>5, <3>1, OutputArrives
    <3> DEFINE v == held["users"] - 1
    <3>3. v \in Nat /\ v = held["users"] - 1
      BY <1>2, <1>3
    <3>4. held' \in [Accounts -> Nat] /\ held'["users"] = v
          /\ \A a \in Accounts \ {"users"} : held'[a] = held[a]
      BY <1>1, <1>2, <3>1, <3>3
    <3> HIDE DEF v
    <3>5. SumFunction(held) \in Nat
          /\ SumFunction(held') = SumFunction(held) - held["users"] + held'["users"]
      BY <1>1, <1>2, <3>4, AccountChanges
    <3>6. QED
      BY <1>2, <3>2, <3>3, <3>4, <3>5
  <2>2. CASE Burn(d)
    <3>1. pool' = PoolWith(DOMAIN pool, <<Output(1, d, "burner")>>)
          /\ held' = [held EXCEPT !["users"] = held["users"] - 2, !["burned"] = held["burned"] + 1]
          /\ held["users"] > 1
      BY <2>2, Zenon DEF Burn
    <3>2. d # "none"
      <4> DEFINE o == [script |-> TRUE, units |-> 1, datum |-> d]
      <4>1. \A x \in {o} : x.units > 0 /\ x.script => x.datum # "none"
        BY <2>2 DEF Burn, MintPolicy
      <4>2. o.units > 0 /\ o.script /\ o.datum = d
        OBVIOUS
      <4>3. QED
        BY <4>1, <4>2
    <3>3. Stock' /\ UnitsOf(pool) \in Nat /\ UnitsOf(pool') = UnitsOf(pool) + 1
      BY <1>1, <1>3, <1>5, <3>1, <3>2, OutputArrives
    <3> DEFINE v == held["users"] - 2
               w == held["burned"] + 1
               mid == [held EXCEPT !["users"] = v]
    <3>4. v \in Nat /\ v = held["users"] - 2 /\ w \in Nat /\ w = held["burned"] + 1
          /\ held["burned"] \in Nat
      BY <1>1, <1>2, <3>1
    <3>5. mid \in [Accounts -> Nat] /\ mid["users"] = v /\ mid["burned"] = held["burned"]
          /\ \A a \in Accounts \ {"users"} : mid[a] = held[a]
      BY <1>1, <1>2, <3>4
    <3>6. held' \in [Accounts -> Nat] /\ held'["burned"] = w
          /\ \A a \in Accounts \ {"burned"} : held'[a] = mid[a]
      BY <1>1, <1>2, <3>1, <3>4
    <3> HIDE DEF v, w, mid
    <3>7. SumFunction(held) \in Nat
          /\ SumFunction(mid) = SumFunction(held) - held["users"] + mid["users"]
      BY <1>1, <1>2, <3>5, AccountChanges
    <3>8. SumFunction(mid) \in Nat
          /\ SumFunction(held') = SumFunction(mid) - mid["burned"] + held'["burned"]
      BY <1>2, <3>5, <3>6, AccountChanges
    <3>9. QED
      BY <1>2, <3>3, <3>4, <3>5, <3>6, <3>7, <3>8
  <2>3. QED
    BY <2>1, <2>2
<1>7. InWallet' = InWallet /\ InWallet \in Int
  BY <1>1, <1>3, ScriptAssumption DEF InWallet
<1>8. UnitsOf(pool') + InWallet' + SumFunction(held') = TotalSupply
  <2>1. UnitsOf(pool) + InWallet + SumFunction(held) = TotalSupply /\ TotalSupply \in Int
    BY <1>1, <1>3, ScriptAssumption
  <2>2. QED
    BY <1>6, <1>7, <2>1
<1>9. QED
  BY <1>1, <1>3, <1>4, <1>6, <1>8 DEF SupplyInv, Books

\* What the policy asks of a mint of something.
LEMMA PolicyMints ==
  ASSUME NEW units \in Nat \ {0}, NEW datum, NEW qty \in Nat \ {0},
         NEW sd \in BOOLEAN, NEW signers,
         MintPolicy([names |-> {"cMATRA"}, qty |-> qty, seed |-> sd, signers |-> signers,
                     outs  |-> {[script |-> TRUE, units |-> units, datum |-> datum],
                                [script |-> FALSE, units |-> qty - units, datum |-> "none"]}])
  PROVE  sd = TRUE /\ qty = TotalSupply /\ datum # "none"
<1> DEFINE o == [script |-> TRUE, units |-> units, datum |-> datum]
           o2 == [script |-> FALSE, units |-> qty - units, datum |-> "none"]
<1>1. \A x \in {o, o2} : x.units > 0 /\ x.script => x.datum # "none"
  BY DEF MintPolicy
<1>2. o.units > 0 /\ o.script /\ o.datum = datum
  OBVIOUS
<1>3. datum # "none"
  BY <1>1, <1>2
<1>4. qty < 0 \/ (sd /\ qty = TotalSupply)
  BY DEF MintPolicy
<1>5. QED
  BY <1>3, <1>4

LEMMA SupplyMint ==
  ASSUME SupplyInv, UNCHANGED <<situation, build>>,
         NEW units \in 1 .. TotalSupply, NEW datum \in Datums,
         NEW tx, tx.qty \in Nat \ {0}, tx.seed \in BOOLEAN, Minted(units, datum, tx)
  PROVE  SupplyInv'
<1>1. /\ Stock /\ held \in [Accounts -> Nat] /\ seed \in BOOLEAN
      /\ UnitsOf(pool) + InWallet + SumFunction(held) = IF seed THEN 0 ELSE TotalSupply
      /\ (seed => DOMAIN pool = {} /\ wallet = <<>> /\ \A a \in Accounts : held[a] = 0)
  BY DEF SupplyInv, Books
<1>2. /\ tx.seed => seed
      /\ seed' = (seed /\ ~ tx.seed)
      /\ pool' = PoolWith(DOMAIN pool, <<Output(units, datum, "mint")>>)
      /\ born' = born + 1
      /\ wallet' = Append(wallet, tx.qty - units)
      /\ UNCHANGED <<slot, held, gifts, script>>
  BY Zenon DEF Minted
<1>3. units \in Nat \ {0} /\ TotalSupply \in Nat \ {0} /\ units <= TotalSupply
  <2>1. TotalSupply \in Nat \ {0}
    BY ScriptAssumption
  <2>2. QED
    BY <2>1
<1>4. tx.seed = TRUE /\ tx.qty = TotalSupply /\ datum # "none"
  <2> DEFINE qty == tx.qty
             sd == tx.seed
             signers == tx.signers
  <2>1. /\ MintPolicy([names |-> {"cMATRA"}, qty |-> qty, seed |-> sd, signers |-> signers,
                       outs  |-> {[script |-> TRUE, units |-> units, datum |-> datum],
                                  [script |-> FALSE, units |-> qty - units, datum |-> "none"]}])
        /\ qty \in Nat \ {0} /\ sd \in BOOLEAN
    BY DEF Minted
  <2> HIDE DEF qty, sd, signers
  <2>2. sd = TRUE /\ qty = TotalSupply /\ datum # "none"
    BY <1>3, <2>1, PolicyMints
  <2>3. QED
    BY <2>2 DEF qty, sd
<1>5. seed = TRUE /\ seed' = FALSE
  BY <1>1, <1>2, <1>4, Zenon
<1>6. "mint" \in Makers
  BY DEF Makers
<1>7. Stock' /\ UnitsOf(pool) \in Nat /\ UnitsOf(pool') = UnitsOf(pool) + units
  BY <1>1, <1>2, <1>3, <1>4, <1>6, OutputArrives
<1>8. UnitsOf(pool) = 0
  BY <1>1, <1>5, SumsOfNone
<1>9. SumFunction(held) = 0
  BY <1>1, <1>5, SumsOfNone
<1> DEFINE rest == TotalSupply - units
<1>10. wallet' = <<rest>> /\ rest \in 0 .. TotalSupply /\ rest = TotalSupply - units
  <2>1. wallet = <<>> /\ wallet' = Append(wallet, tx.qty - units) /\ tx.qty = TotalSupply
    BY <1>1, <1>2, <1>4, <1>5
  <2>2. wallet' = Append(<<>>, rest)
    BY <2>1, Zenon
  <2>3. rest \in 0 .. TotalSupply
    BY <1>3
  <2> HIDE DEF rest
  <2>4. wallet' = <<rest>>
    BY <2>2
  <2>5. QED
    BY <2>3, <2>4 DEF rest
<1> HIDE DEF rest
<1>11. wallet' \in Seq(0 .. TotalSupply) /\ InWallet' = rest
  BY <1>10 DEF InWallet
<1>12. UnitsOf(pool') + InWallet' + SumFunction(held') = TotalSupply
  <2>1. SumFunction(held') = 0
    <3>1. held' = held
      BY <1>2
    <3>2. QED
      BY <1>9, <3>1, Zenon
  <2>2. UnitsOf(pool') = units
    BY <1>3, <1>7, <1>8
  <2>3. QED
    BY <1>3, <1>10, <1>11, <2>1, <2>2
<1>13. Funded'
  <2>1. situation = "nothing minted" /\ (build.stage # "idle" => situation = "supply in the wallet")
    BY <1>5, Zenon DEF SupplyInv, Books, Funded, Building
  <2>2. build.stage = "idle"
    BY <2>1, Zenon
  <2>3. build'.stage = "idle"
    BY <2>2
  <2>4. QED
    BY <2>3 DEF Funded
<1>14. QED
  BY <1>1, <1>2, <1>5, <1>7, <1>11, <1>12, <1>13 DEF SupplyInv, Books

LEMMA SupplyMintSends ==
  ASSUME SupplyInv, UNCHANGED <<situation, build>>, MintSends
  PROVE  SupplyInv'
<1>1. TotalSupply \in Nat \ {0} /\ PoolShare \in 1 .. TotalSupply /\ 1 \in 1 .. TotalSupply
      /\ "void" \in Datums /\ "none" \in Datums
  <2>1. TotalSupply \in Nat \ {0}
    BY ScriptAssumption
  <2>2. PoolShare \in 1 .. TotalSupply
    BY CeremonyAssumption
  <2>3. 1 \in 1 .. TotalSupply
    BY <2>1
  <2>4. QED
    BY <2>1, <2>2, <2>3 DEF Datums
<1>2. CASE MintSubmit
  <2> DEFINE tx == [signers |-> Admins, witnesses |-> mint.final.by,
                    from |-> mint.final.body.from, until |-> mint.final.body.until,
                    qty |-> TotalSupply, seed |-> TRUE]
  <2>1. Minted(PoolShare, "void", tx) /\ tx.qty \in Nat \ {0} /\ tx.seed \in BOOLEAN
    BY <1>1, <1>2 DEF MintSubmit
  <2> HIDE DEF tx
  <2>2. QED
    BY <1>1, <2>1, SupplyMint
<1>3. ASSUME NEW d \in {"void", "none"}, NEW s, NEW q \in {1, TotalSupply}, NEW b \in BOOLEAN,
             MintByHand(1, d, s, q, b)
      PROVE  SupplyInv'
  <2> DEFINE tx == [signers |-> s, witnesses |-> s, from |-> Open, until |-> Open,
                    qty |-> q, seed |-> b]
  <2>1. Minted(1, d, tx)
    BY <1>3, Zenon DEF MintByHand
  <2>2. tx.qty \in Nat \ {0} /\ tx.seed \in BOOLEAN /\ d \in Datums
    BY <1>1
  <2> HIDE DEF tx
  <2>3. QED
    BY <1>1, <2>1, <2>2, SupplyMint
<1>4. QED
  BY <1>2, <1>3 DEF MintSends

\* The batch that is next: some of what is left, and outputs of as much.
BuilderOutputs(units) == [i \in DOMAIN units |-> Output(units[i], "void", "builder")]

LEMMA BatchOutputs ==
  ASSUME NEW units \in Seq(Nat \ {0})
  PROVE  /\ IsPoolList(BuilderOutputs(units)) /\ Len(BuilderOutputs(units)) = Len(units)
         /\ UnitsOf(BuilderOutputs(units)) = SumOf(units)
<1> DEFINE back == BuilderOutputs(units)
           f == UnitsIn(back)
<1>1. DOMAIN units = 1 .. Len(units) /\ Len(units) \in Nat /\ \A i \in DOMAIN units : units[i] \in Nat \ {0}
  OBVIOUS
<1>2. \A i \in DOMAIN units : IsPoolOutput(Output(units[i], "void", "builder"))
                              /\ Output(units[i], "void", "builder").units = units[i]
  BY <1>1 DEF IsPoolOutput, Output, Datums, Makers
<1>3. DOMAIN back = 1 .. Len(units)
      /\ \A i \in 1 .. Len(units) : back[i] = Output(units[i], "void", "builder")
  BY <1>1 DEF BuilderOutputs
<1>4. Len(back) = Len(units)
  <2>1. back = [i \in 1 .. Len(units) |-> Output(units[i], "void", "builder")]
    BY <1>1, Zenon DEF BuilderOutputs
  <2>2. QED
    BY <1>1, <2>1
<1> HIDE DEF back
<1>5. IsPoolList(back)
  BY <1>1, <1>2, <1>3, <1>4 DEF IsPoolList
<1>6. UnitsOf(back) = SumFunctionOnSet(f, 1 .. Len(units))
      /\ \A i \in 1 .. Len(units) : f[i] = units[i]
  BY <1>1, <1>2, <1>3 DEF UnitsOf, UnitsIn, SumFunction
<1> HIDE DEF f
<1>7. SumFunctionOnSet(f, 1 .. Len(units)) = SumFunctionOnSet(units, 1 .. Len(units))
  <2>1. IsFiniteSet(1 .. Len(units))
    BY <1>1, FS_Interval
  <2>2. \A i \in 1 .. Len(units) : f[i] \in Int /\ units[i] = f[i]
    BY <1>1, <1>6
  <2>3. QED
    BY <2>1, <2>2, SumAgree
<1>8. SumOf(units) = SumFunctionOnSet(units, 1 .. Len(units))
  BY <1>1, Zenon DEF SumOf, SumFunction
<1>9. QED
  BY <1>4, <1>5, <1>6, <1>7, <1>8 DEF back

LEMMA NextBatchSums ==
  ASSUME NEW b, b.outs \in Seq(Nat \ {0}), b.done \in Nat, b.done < Len(b.outs)
  PROVE  /\ BatchOf(b) \in Seq(Nat \ {0})
         /\ Len(BatchOf(b)) \in Nat \ {0} /\ b.done + Len(BatchOf(b)) <= Len(b.outs)
         /\ SumOf(BatchOf(b)) \in Nat /\ Upto(b.outs, b.done) \in Nat
         /\ Upto(b.outs, b.done + Len(BatchOf(b))) = Upto(b.outs, b.done) + SumOf(BatchOf(b))
<1> DEFINE outs == b.outs
           d == b.done
           e == IF d + BatchSize < Len(outs) THEN d + BatchSize ELSE Len(outs)
<1>1. outs \in Seq(Nat \ {0}) /\ d \in Nat /\ d < Len(outs) /\ Len(outs) \in Nat
  OBVIOUS
<1>2. BatchSize \in Nat \ {0}
  BY BuilderAssumption
<1>3. BatchOf(b) = SubSeq(outs, d + 1, e)
  BY DEF BatchOf
<1> HIDE DEF outs, d
<1>4. e \in Nat /\ d < e /\ e <= Len(outs)
  BY <1>1, <1>2
<1> HIDE DEF e
<1>5. /\ SubSeq(outs, d + 1, e) \in Seq(Nat \ {0})
      /\ Len(SubSeq(outs, d + 1, e)) = e - d
      /\ SumFunction(SubSeq(outs, d + 1, e)) \in Nat
      /\ Upto(outs, d) \in Nat
      /\ Upto(outs, e) = Upto(outs, d) + SumFunction(SubSeq(outs, d + 1, e))
  <2>1. d <= e
    BY <1>1, <1>4
  <2>2. QED
    BY <1>1, <1>4, <2>1, StretchSums
<1> DEFINE s == SubSeq(outs, d + 1, e)
<1>6. SumOf(BatchOf(b)) = SumFunction(s)
  BY <1>3, Zenon DEF SumOf
<1>7. BatchOf(b) = s
  BY <1>3
<1> HIDE DEF s
<1>8. Len(BatchOf(b)) = e - d
  BY <1>5, <1>7 DEF s
<1>9. e - d \in Nat \ {0} /\ d + (e - d) = e
  BY <1>1, <1>4
<1>10. QED
  BY <1>4, <1>5, <1>6, <1>7, <1>8, <1>9 DEF outs, d, s

\* A step of a tool that leaves the ledger alone.
LEMMA LedgerStays ==
  ASSUME SupplyInv, UNCHANGED situation, UNCHANGED ledgerVars, Funded'
  PROVE  SupplyInv'
<1>1. UNCHANGED <<pool, born, seed, wallet, held>>
  BY Zenon DEF ledgerVars
<1>2. Stock'
  BY <1>1, Zenon DEF SupplyInv, Stock
<1>3. UnitsOf(pool') + InWallet' + SumFunction(held') = UnitsOf(pool) + InWallet + SumFunction(held)
  BY <1>1, Zenon DEF InWallet
<1>4. Books'
  BY <1>1, <1>3, Zenon DEF SupplyInv, Books
<1>5. QED
  BY <1>2, <1>4 DEF SupplyInv

\* The builder's steps but for the submission.
LEMMA SupplyPrepares ==
  ASSUME SupplyInv, UNCHANGED situation, Building,
         \/ \E o \in Orders, s, p \in BOOLEAN : StartBuild(o.total, o.outputs, s, p)
         \/ \E v \in DOMAIN wallet : BuildBatch(v)
         \/ \E ok \in BOOLEAN : PreflightBatch(ok)
         \/ ListBatch
  PROVE  SupplyInv'
<1>1. Funded /\ wallet \in Seq(0 .. TotalSupply)
  BY DEF SupplyInv, Books
<1>2. Building'
  BY Zenon DEF Building
<1>3. UNCHANGED ledgerVars /\ UNCHANGED wallet
  BY Zenon DEF StartBuild, BuildBatch, PreflightBatch, ListBatch, ledgerVars
<1>4. FundedBy(build', wallet)
  <2>1. ASSUME NEW o \in Orders, NEW s, NEW p, StartBuild(o.total, o.outputs, s, p)
        PROVE  FundedBy(build', wallet)
    <3> DEFINE total == o.total
               n == o.outputs
    <3>1. total \in Int /\ n \in Int /\ Splittable(total, n)
      BY <2>1, BuilderAssumption DEF StartBuild
    <3>2. wallet # <<>> /\ build'.outs = Split(total, n) /\ build'.done = 0
          /\ build'.stage = "building" /\ DOMAIN build' = BuildFields
      BY <2>1 DEF StartBuild, NoBuild, BuildFields
    <3> HIDE DEF total, n
    <3>3. Split(total, n) \in Seq(Nat \ {0}) /\ Len(Split(total, n)) = n /\ n \in Nat /\ n > 0
      BY <3>1, SplitSums
    <3>4. QED
      BY <3>2, <3>3 DEF FundedBy, Prepares
  <2>2. ASSUME NEW v \in DOMAIN wallet, BuildBatch(v)
        PROVE  FundedBy(build', wallet)
    <3>1. build.stage = "building" /\ FundedBy(build, wallet)
      BY <1>1, <2>2 DEF BuildBatch, Funded
    <3>2. build.done < Len(build.outs) /\ build.outs \in Seq(Nat \ {0}) /\ build.done \in Nat
          /\ wallet # <<>> /\ DOMAIN build = BuildFields
      BY <3>1 DEF FundedBy, Busy
    <3>3. SumOf(BatchOf(build)) \in Nat /\ wallet[v] \in Int
      <4>1. SumOf(BatchOf(build)) \in Nat
        BY <3>2, NextBatchSums
      <4>2. wallet[v] \in Int
        BY <1>1, <2>2, ScriptAssumption
      <4>3. QED
        BY <4>1, <4>2
    <3>4. CASE SumOf(BatchOf(build)) > wallet[v]
      <4>1. build' = [build EXCEPT !.stage = "aborted"]
        BY <2>2, <3>4 DEF BuildBatch, Abort
      <4>2. build'.outs = build.outs /\ build'.done = build.done /\ build'.stage = "aborted"
            /\ DOMAIN build' = BuildFields
        BY <3>2, <4>1 DEF BuildFields
      <4>3. QED
        BY <3>2, <4>2 DEF FundedBy, Busy, Prepares
    <3>5. CASE ~ (SumOf(BatchOf(build)) > wallet[v])
      <4> DEFINE st == IF build.preflight THEN "preflight"
                       ELSE IF build.submit THEN "submitting" ELSE "listing"
      <4>0. build' = [build EXCEPT !.view = v, !.stage = st]
        BY <2>2, <3>5, Zenon DEF BuildBatch
      <4>5. st \in Busy
        BY DEF Busy, Prepares
      <4> HIDE DEF st
      <4>1. /\ build'.outs = build.outs /\ build'.done = build.done /\ build'.view = v
            /\ build'.stage \in Busy /\ DOMAIN build' = BuildFields
        BY <3>2, <4>0, <4>5 DEF BuildFields
      <4>2. BatchOf(build') = BatchOf(build)
        BY <4>1, Zenon DEF BatchOf
      <4>3. SumOf(BatchOf(build')) <= wallet[v]
        BY <3>3, <3>5, <4>2
      <4>4. QED
        BY <2>2, <3>2, <4>1, <4>3 DEF FundedBy
    <3>6. QED
      BY <3>4, <3>5
  <2>3. ASSUME NEW ok, PreflightBatch(ok)
        PROVE  FundedBy(build', wallet)
    <3>1. build.stage = "preflight" /\ FundedBy(build, wallet)
      BY <1>1, <2>3 DEF PreflightBatch, Funded
    <3>2. /\ build.done < Len(build.outs) /\ build.outs \in Seq(Nat \ {0}) /\ build.done \in Nat
          /\ wallet # <<>> /\ build.view \in DOMAIN wallet /\ DOMAIN build = BuildFields
          /\ SumOf(BatchOf(build)) <= wallet[build.view]
      BY <3>1 DEF FundedBy, Busy, Prepares
    <3>0. \E st \in Busy \cup {"aborted"} : build' = [build EXCEPT !.stage = st]
      <4> DEFINE st == IF build.submit THEN "submitting" ELSE "listing"
      <4>1. CASE ok
        BY <2>3, <4>1 DEF PreflightBatch, Busy, Prepares
      <4>2. CASE ~ ok
        BY <2>3, <4>2 DEF PreflightBatch, Abort
      <4>3. QED
        BY <4>1, <4>2
    <3>3. /\ build'.outs = build.outs /\ build'.done = build.done /\ build'.view = build.view
          /\ build'.stage \in Busy \cup {"aborted"} /\ DOMAIN build' = BuildFields
      BY <3>0, <3>2 DEF BuildFields
    <3>4. BatchOf(build') = BatchOf(build)
      BY <3>3, Zenon DEF BatchOf
    <3>5. QED
      BY <3>2, <3>3, <3>4 DEF FundedBy
  <2>4. ASSUME ListBatch
        PROVE  FundedBy(build', wallet)
    <3>1. build.stage = "listing" /\ FundedBy(build, wallet)
      BY <1>1, <2>4 DEF ListBatch, Funded
    <3>2. build.done < Len(build.outs) /\ build.outs \in Seq(Nat \ {0}) /\ build.done \in Nat
          /\ wallet # <<>> /\ DOMAIN build = BuildFields
      BY <3>1 DEF FundedBy, Busy
    <3> DEFINE done == build.done + Len(BatchOf(build))
    <3>3. done \in Nat /\ done <= Len(build.outs)
      BY <3>2, NextBatchSums
    <3>4. /\ build'.outs = build.outs /\ build'.done = done
          /\ build'.stage = IF done = Len(build.outs) THEN "manifest" ELSE "building"
          /\ DOMAIN build' = BuildFields
      BY <2>4, <3>2 DEF ListBatch, BuildFields
    <3> HIDE DEF done
    <3>5. QED
      BY <3>2, <3>3, <3>4 DEF FundedBy, Busy, Prepares
  <2>5. QED
    BY <2>1, <2>2, <2>3, <2>4
<1>5. Funded'
  BY <1>2, <1>3, <1>4 DEF Funded
<1>6. QED
  BY <1>3, <1>5, LedgerStays

\* The batch leaves the wallet and is in the pool, whatever is answered.
LEMMA SupplySubmits ==
  ASSUME SupplyInv, UNCHANGED situation, Building, NEW taken, NEW answered,
         SubmitBatch(taken, answered)
  PROVE  SupplyInv'
<1> DEFINE units == BatchOf(build)
           s == SumOf(units)
           last == wallet[Len(wallet)]
<1>1. /\ Stock /\ held \in [Accounts -> Nat] /\ wallet \in Seq(0 .. TotalSupply)
      /\ seed \in BOOLEAN /\ Funded
      /\ UnitsOf(pool) + InWallet + SumFunction(held) = IF seed THEN 0 ELSE TotalSupply
  BY DEF SupplyInv, Books
<1>2. ~ seed
  <2>1. ~ (Building /\ situation = "nothing minted")
    BY Zenon DEF Building
  <2>2. QED
    BY <2>1, Zenon DEF SupplyInv, Books
<1>3. Building'
  BY Zenon DEF Building
<1>4. /\ build.stage = "submitting" /\ FundedBy(build, wallet)
  BY <1>1 DEF SubmitBatch, Funded
<1>5. /\ build.done < Len(build.outs) /\ build.outs \in Seq(Nat \ {0}) /\ build.done \in Nat
      /\ wallet # <<>> /\ DOMAIN build = BuildFields
      /\ build.view \in DOMAIN wallet /\ s <= wallet[build.view]
  BY <1>4 DEF FundedBy, Busy, Prepares
<1>6. units \in Seq(Nat \ {0}) /\ s \in Nat
  BY <1>5, NextBatchSums
<1>7. ASSUME NEW w, w # <<>>
      PROVE  FundedBy(build', w)
  <2>1. \E st \in {"aborted", "listing"} : build' = [build EXCEPT !.stage = st]
    BY DEF SubmitBatch, Abort
  <2>2. /\ build'.outs = build.outs /\ build'.done = build.done
        /\ build'.stage \in {"aborted", "listing"} /\ DOMAIN build' = BuildFields
    BY <1>5, <2>1 DEF BuildFields
  <2>3. QED
    BY <1>5, <1>7, <2>2 DEF FundedBy, Busy, Prepares
<1>8. CASE ~ taken
  <2>1. UNCHANGED ledgerVars
    BY <1>8, Zenon DEF SubmitBatch
  <2>2. Funded'
    <3>1. wallet' = wallet
      BY <2>1, Zenon DEF ledgerVars
    <3>2. QED
      BY <1>3, <1>5, <1>7, <3>1 DEF Funded
  <2>3. QED
    BY <2>1, <2>2, LedgerStays
<1>9. CASE taken
  <2> DEFINE back == BuilderOutputs(units)
             all == DOMAIN pool
             new == PoolWith(all, back)
             rest == last - s
  <2>1. /\ pool' = new
        /\ born' = born + Len(units)
        /\ wallet' = Append(wallet, rest)
        /\ UNCHANGED <<slot, seed, held, gifts, script>>
        /\ build.view = Len(wallet)
    BY <1>9 DEF SubmitBatch, BuilderOutputs
  <2>15. TotalSupply \in Int
    BY ScriptAssumption
  <2>2. Len(wallet) \in DOMAIN wallet /\ last \in 0 .. TotalSupply /\ s <= last
        /\ InWallet = last
    <3>1. Len(wallet) \in DOMAIN wallet
      BY <1>1, <1>5
    <3>2. last \in 0 .. TotalSupply
      <4> DEFINE S == 0 .. TotalSupply
      <4>1. wallet \in Seq(S)
        BY <1>1
      <4> HIDE DEF S
      <4>2. last \in S
        BY <3>1, <4>1
      <4>3. QED
        BY <4>2 DEF S
    <3>3. wallet[build.view] = last
      BY <2>1
    <3>4. s <= last
      BY <1>5, <3>3, Zenon
    <3>5. QED
      BY <1>5, <3>1, <3>2, <3>4 DEF InWallet
  <2>3. rest \in 0 .. TotalSupply /\ rest = last - s /\ last \in Nat /\ rest \in Nat
    BY <1>1, <1>6, <2>2, <2>15
  <2> HIDE DEF rest, last, s, units
  <2>4. wallet' \in Seq(0 .. TotalSupply) /\ wallet' # <<>> /\ InWallet' = rest
    BY <1>1, <2>1, <2>3 DEF InWallet
  <2>5. IsPoolList(back) /\ Len(back) = Len(units) /\ UnitsOf(back) = s
    BY <1>6, BatchOutputs DEF s
  <2> HIDE DEF back, new
  <2>6. /\ DOMAIN new \subseteq 1 .. born + Len(back)
        /\ \A i \in DOMAIN new : IsPoolOutput(new[i])
        /\ UnitsOf(pool) \in Nat
        /\ UnitsOf(new) = SumFunctionOnSet(UnitsIn(pool), all) + UnitsOf(back)
    <3>1. Stock /\ IsPoolList(back) /\ new = PoolWith(all, back) /\ all \in SUBSET DOMAIN pool
      BY <1>1, <2>5 DEF new
    <3> HIDE DEF all
    <3>2. QED
      BY <3>1, PoolWithSums
  <2>7. UnitsOf(pool) = SumFunctionOnSet(UnitsIn(pool), all)
    BY DEF UnitsOf, UnitsIn, SumFunction
  <2>8. UnitsOf(pool') = UnitsOf(pool) + s
    <3>1. UnitsOf(pool') = UnitsOf(new)
      BY <2>1, Zenon
    <3>2. QED
      BY <2>5, <2>6, <2>7, <3>1
  <2>9. Stock'
    <3>1. born \in Nat /\ Len(back) \in Nat
      BY <1>1, <2>5 DEF Stock, IsPoolList
    <3>2. born' = born + Len(back)
      BY <2>1, <2>5
    <3>3. QED
      BY <2>1, <2>6, <3>1, <3>2 DEF Stock
  <2>10. SumFunction(held') = SumFunction(held) /\ SumFunction(held) \in Nat /\ held' = held
    BY <1>1, <2>1, AccountSums
  <2>11. UnitsOf(pool') + InWallet' + SumFunction(held') = TotalSupply
    BY <1>1, <1>2, <1>6, <2>2, <2>3, <2>4, <2>6, <2>8, <2>10, <2>15
  <2>12. Funded'
    BY <1>3, <1>7, <2>4 DEF Funded
  <2>13. seed' = FALSE
    BY <1>1, <1>2, <2>1
  <2>14. QED
    BY <1>1, <2>4, <2>9, <2>10, <2>11, <2>12, <2>13 DEF SupplyInv, Books
<1>10. QED
  BY <1>8, <1>9

\* A transaction that pays everything it spends to an account.
LEMMA SupplyEmpties ==
  ASSUME SupplyInv, ~ seed, UNCHANGED <<situation, build>>,
         NEW tx, NEW account \in Accounts, tx.back = <<>>, Lands(tx, account)
  PROVE  SupplyInv'
<1>1. Stock
  BY DEF SupplyInv
<1>2. DOMAIN tx.claims \subseteq DOMAIN pool
      /\ \A i \in DOMAIN tx.claims : tx.claims[i] = pool[i].units
  BY DEF Lands, Takes, Evaluates
<1>3. \A i \in DOMAIN tx.claims : tx.claims[i] \in Nat
  BY <1>1, <1>2 DEF Stock, IsPoolOutput
<1>4. IsFiniteSet(DOMAIN tx.claims)
  <2>1. IsFiniteSet(DOMAIN pool)
    BY <1>1, PoolSums DEF Stock
  <2>2. QED
    BY <1>2, <2>1, FS_Subset
<1>5. SumFunction(tx.claims) \in Nat
  <2>1. SumFunctionOnSet(tx.claims, DOMAIN tx.claims) \in Nat
    BY <1>3, <1>4, SumNat
  <2>2. QED
    BY <2>1 DEF SumFunction
<1>6. IsPoolList(tx.back) /\ UnitsOf(tx.back) = 0
  <2>1. IsPoolList(<<>>) /\ UnitsOf(<<>>) = 0
    BY ListsOfOne
  <2>2. QED
    BY <2>1, Zenon
<1>7. UnitsOf(tx.back) <= SumFunction(tx.claims)
  BY <1>5, <1>6
<1>8. QED
  BY <1>6, <1>7, SupplyLands

LEMMA SupplyReclaims ==
  ASSUME SupplyInv, UNCHANGED <<situation, build>>, ~ seed, ReclaimNext
  PROVE  SupplyInv'
<1>1. CASE UNCHANGED ledgerVars
  <2>1. UNCHANGED <<build, wallet, situation>>
    BY <1>1, Zenon DEF ledgerVars
  <2>2. Funded'
    BY <2>1, FundedStays DEF SupplyInv
  <2>3. QED
    BY <1>1, <2>2, LedgerStays
<1>2. CASE Lands(ReclaimTx, "returned")
  <2>1. ReclaimTx.back = <<>> /\ "returned" \in Accounts
    BY DEF ReclaimTx, Accounts
  <2>2. QED
    BY <1>2, <2>1, SupplyEmpties
<1>3. UNCHANGED ledgerVars \/ Lands(ReclaimTx, "returned")
  BY Zenon DEF ReclaimNext, StartReclaim, BuildReclaim, SignFirst, AssembleReclaim, SignSecond,
     SubmitReclaim
<1>4. QED
  BY <1>1, <1>2, <1>3

LEMMA SupplySweeps ==
  ASSUME SupplyInv, UNCHANGED <<situation, build>>, MintNext \/ (~ seed /\ SweepNext)
  PROVE  SupplyInv'
<1>1. CASE UNCHANGED ledgerVars
  <2>1. UNCHANGED <<build, wallet, situation>>
    BY <1>1, Zenon DEF ledgerVars
  <2>2. Funded'
    BY <2>1, FundedStays DEF SupplyInv
  <2>3. QED
    BY <1>1, <2>2, LedgerStays
<1>2. CASE ~ seed /\ SweepSubmit
  <2> DEFINE tx == SweepTx(sweep.final)
  <2>1. tx.back = <<>> /\ "returned" \in Accounts /\ Lands(tx, "returned")
    BY <1>2 DEF SweepTx, Accounts, SweepSubmit
  <2> HIDE DEF tx
  <2>2. QED
    BY <1>2, <2>1, SupplyEmpties
<1>3. UNCHANGED ledgerVars \/ (~ seed /\ SweepSubmit)
  <2>1. MintNext => UNCHANGED ledgerVars
    BY Zenon DEF MintNext, MintApply, MintParams, MintBuild, MintSign1, MintSign2, MintAssemble, Write
  <2>2. SweepNext => UNCHANGED ledgerVars \/ SweepSubmit
    BY Zenon DEF SweepNext, SweepApply, SweepParams, SweepBuild, SweepSign1, SweepSign2,
       SweepPreflight, SweepAssemble, Write
  <2>3. QED
    BY <2>1, <2>2
<1>4. QED
  BY <1>1, <1>2, <1>3

-----------------------------------------------------------------------------
(* The batch driver                                                        *)

BatchFields == {"stage", "pools", "at", "results", "total", "start", "submit", "preflight"}

Ends == {"error", "preflight_failed", "submit_failed", "submitted", "built"}

Chosen == {"building", "preflight", "submitting", "counting"}

\* The driver serves the requests in turn, and an output that it has chosen
\* holds, as far as it knows, what is asked for.
Serving ==
  batch.stage # "idle" =>
     /\ DOMAIN batch = BatchFields
     /\ batch.at \in Nat /\ batch.at > 0
     /\ batch.results \in Seq(Ends)
     /\ batch.stage = "report" => Len(batch.results) = Len(Requests)
     /\ batch.stage # "report" => Len(batch.results) < Len(Requests)
     /\ batch.stage \in Chosen =>
           /\ Asked # 0
           /\ batch.pools[batch.at].units >= Asked

LEMMA RequestTypes ==
  /\ Len(Requests) \in Nat /\ Len(Requests) > 0
  /\ DOMAIN Requests = 1 .. Len(Requests)
  /\ \A k \in DOMAIN Requests : Requests[k] \in Nat
<1>1. Requests \in Seq(Nat) /\ Requests # <<>>
  BY DriverAssumption
<1>2. QED
  BY <1>1

LEMMA AskedType ==
  ASSUME batch.results \in Seq(Ends), Len(batch.results) < Len(Requests)
  PROVE  /\ Asked \in Nat /\ Len(batch.results) + 1 \in DOMAIN Requests
         /\ Asked = Requests[Len(batch.results) + 1]
<1>1. Len(batch.results) \in Nat
  OBVIOUS
<1>2. QED
  BY <1>1, RequestTypes DEF Asked

\* One request is dealt with.
LEMMA ResultFacts ==
  ASSUME NEW b, DOMAIN b = BatchFields, b.results \in Seq(Ends),
         Len(b.results) < Len(Requests), NEW status \in Ends
  PROVE  /\ DOMAIN Result(b, status) = BatchFields
         /\ Result(b, status).at = b.at /\ Result(b, status).total = b.total
         /\ Result(b, status).start = b.start /\ Result(b, status).submit = b.submit
         /\ Result(b, status).pools = b.pools
         /\ Result(b, status).results = Append(b.results, status)
         /\ Result(b, status).results \in Seq(Ends)
         /\ Len(Result(b, status).results) = Len(b.results) + 1
         /\ Result(b, status).stage \in {"report", "selecting"}
         /\ Result(b, status).stage = "report" <=> Len(b.results) + 1 = Len(Requests)
<1> DEFINE st == IF Len(b.results) + 1 = Len(Requests) THEN "report" ELSE "selecting"
           rs == Append(b.results, status)
           c == Result(b, status)
<1>1. c = [b EXCEPT !.results = rs, !.stage = st]
  BY Zenon DEF Result
<1>2. /\ st \in {"report", "selecting"}
      /\ st = "report" <=> Len(b.results) + 1 = Len(Requests)
  OBVIOUS
<1>3. rs \in Seq(Ends) /\ Len(rs) = Len(b.results) + 1
  OBVIOUS
<1> HIDE DEF st, rs, c
<1>4. /\ DOMAIN c = BatchFields
      /\ c.at = b.at /\ c.total = b.total /\ c.start = b.start /\ c.submit = b.submit
      /\ c.pools = b.pools /\ c.results = rs /\ c.stage = st
  BY <1>1 DEF BatchFields
<1>5. QED
  BY <1>2, <1>3, <1>4 DEF rs, c

\* After a result the next request can be taken up.
LEMMA ServingResult ==
  ASSUME NEW b, DOMAIN b = BatchFields, b.results \in Seq(Ends),
         Len(b.results) < Len(Requests), b.at \in Nat, b.at > 0, NEW status \in Ends,
         batch' = Result(b, status)
  PROVE  Serving'
<1>1. Len(b.results) \in Nat /\ Len(Requests) \in Nat
  BY RequestTypes
<1>2. /\ DOMAIN batch' = BatchFields /\ batch'.at = b.at
      /\ batch'.results \in Seq(Ends) /\ Len(batch'.results) = Len(b.results) + 1
      /\ batch'.stage \in {"report", "selecting"}
      /\ batch'.stage = "report" <=> Len(b.results) + 1 = Len(Requests)
  <2> DEFINE c == Result(b, status)
  <2>1. /\ DOMAIN c = BatchFields /\ c.at = b.at
        /\ c.results \in Seq(Ends) /\ Len(c.results) = Len(b.results) + 1
        /\ c.stage \in {"report", "selecting"}
        /\ c.stage = "report" <=> Len(b.results) + 1 = Len(Requests)
    BY ResultFacts
  <2>2. batch' = c
    OBVIOUS
  <2> HIDE DEF c
  <2>3. QED
    BY <2>1, <2>2
<1>3. QED
  BY <1>1, <1>2 DEF Serving, Chosen

LEMMA LeastEnough ==
  ASSUME batch.at \in Nat, Enough # {}
  PROVE  LET k == CHOOSE k \in Enough : \A j \in Enough : k <= j
         IN  k \in Nat /\ k >= batch.at /\ batch.pools[k].units >= Asked
<1> DEFINE k == CHOOSE k \in Enough : \A j \in Enough : k <= j
<1>1. Enough \in SUBSET Nat /\ \A j \in Enough : j >= batch.at /\ batch.pools[j].units >= Asked
  BY DEF Enough
<1>2. \E m \in Enough : \A j \in Enough : m <= j
  BY <1>1, NatMin
<1>3. k \in Enough
  BY <1>2
<1>4. QED
  BY <1>1, <1>3

\* What stays when the stage alone changes.
LEMMA StageChanges ==
  ASSUME Serving, batch.stage \in Chosen,
         NEW st \in Chosen, batch' = [batch EXCEPT !.stage = st]
  PROVE  Serving'
<1>1. /\ DOMAIN batch = BatchFields
      /\ batch.at \in Nat /\ batch.at > 0 /\ batch.results \in Seq(Ends)
      /\ Len(batch.results) < Len(Requests)
      /\ Asked # 0 /\ batch.pools[batch.at].units >= Asked
  BY DEF Serving, Chosen
<1>2. /\ DOMAIN batch' = BatchFields /\ batch'.at = batch.at /\ batch'.results = batch.results
      /\ batch'.pools = batch.pools /\ batch'.stage = st
  BY <1>1 DEF BatchFields
<1>3. Asked' = Asked
  BY <1>2 DEF Asked
<1>4. QED
  BY <1>1, <1>2, <1>3 DEF Serving, Chosen

\* The transaction that serves a request pays what is asked for.
LEMMA DriverPays ==
  ASSUME Stock, Serving, batch.stage = "submitting"
  PROVE  /\ Asked \in Nat \ {0}
         /\ Takes(SurrenderTx) =>
               /\ IsPoolList(SurrenderTx.back)
               /\ SumFunction(SurrenderTx.claims) \in Nat
               /\ UnitsOf(SurrenderTx.back) = SumFunction(SurrenderTx.claims) - Asked
               /\ UnitsOf(SurrenderTx.back) <= SumFunction(SurrenderTx.claims)
<1> DEFINE p == batch.pools[batch.at]
           units == p.units
<1>1. Asked \in Nat \ {0} /\ units >= Asked
  BY AskedType DEF Serving, Chosen
<1>2. ASSUME Takes(SurrenderTx)
      PROVE  /\ IsPoolList(SurrenderTx.back)
             /\ SumFunction(SurrenderTx.claims) \in Nat
             /\ UnitsOf(SurrenderTx.back) = SumFunction(SurrenderTx.claims) - Asked
             /\ UnitsOf(SurrenderTx.back) <= SumFunction(SurrenderTx.claims)
  <2>1. DOMAIN SurrenderTx.claims = {p.id} /\ SurrenderTx.claims[p.id] = units
    BY DEF SurrenderTx
  <2>2. p.id \in DOMAIN pool /\ pool[p.id].units = units
    BY <1>2, <2>1 DEF Takes, Evaluates
  <2>3. units \in Nat
    BY <2>2 DEF Stock, IsPoolOutput
  <2>4. SumFunction(SurrenderTx.claims) = units
    BY <2>1, <2>3, OneClaim
  <2>5. SurrenderTx.back = (IF units = Asked THEN <<>>
                            ELSE <<Output(units - Asked, "void", "driver")>>)
        /\ "driver" \in Makers
    BY DEF SurrenderTx, Makers
  <2> HIDE DEF units
  <2>6. IsPoolList(SurrenderTx.back) /\ UnitsOf(SurrenderTx.back) = units - Asked
        /\ UnitsOf(SurrenderTx.back) <= units
    BY <1>1, <2>3, <2>5, Remainder
  <2>7. QED
    BY <2>3, <2>4, <2>6
<1>3. QED
  BY <1>1, <1>2

LEMMA ServingStep ==
  ASSUME Serving, DriverNext
  PROVE  Serving'
<1> USE DEF Ends
<1>1. ASSUME NEW s, NEW p, StartBatch(s, p) PROVE Serving'
  <2>1. /\ DOMAIN batch' = BatchFields /\ batch'.at = 1 /\ batch'.results = <<>>
        /\ batch'.stage = "selecting"
    BY <1>1 DEF StartBatch, NoBatch, BatchFields
  <2>2. QED
    BY <2>1, RequestTypes DEF Serving, Chosen
<1>2. ASSUME batch.stage # "idle", batch.stage # "report"
      PROVE  /\ DOMAIN batch = BatchFields
             /\ batch.at \in Nat /\ batch.at > 0 /\ batch.results \in Seq(Ends)
             /\ Len(batch.results) < Len(Requests)
  BY <1>2 DEF Serving
<1>3. ASSUME NEW status \in Ends, batch.stage # "idle", batch.stage # "report",
             batch' = Result(batch, status)
      PROVE  Serving'
  BY <1>2, <1>3, ServingResult
<1>4. ASSUME Select PROVE Serving'
  <2>1. batch.stage = "selecting"
    BY <1>4 DEF Select
  <2>2. CASE Asked = 0 \/ Enough = {}
    <3>1. batch' = Result(batch, "error")
      BY <1>4, <2>2 DEF Select
    <3>2. QED
      BY <1>3, <2>1, <3>1
  <2>3. CASE ~ (Asked = 0 \/ Enough = {})
    <3> DEFINE k == CHOOSE k \in Enough : \A j \in Enough : k <= j
    <3>1. batch' = [batch EXCEPT !.at = k, !.stage = "building"]
      BY <1>4, <2>3, Zenon DEF Select
    <3>2. k \in Nat /\ k >= batch.at /\ batch.pools[k].units >= Asked
      BY <1>2, <2>1, <2>3, LeastEnough
    <3> HIDE DEF k
    <3>3. /\ DOMAIN batch' = BatchFields /\ batch'.at = k /\ batch'.results = batch.results
          /\ batch'.pools = batch.pools /\ batch'.stage = "building"
      BY <1>2, <2>1, <3>1 DEF BatchFields
    <3>4. Asked' = Asked
      BY <3>3 DEF Asked
    <3>5. QED
      BY <1>2, <2>1, <2>3, <3>2, <3>3, <3>4 DEF Serving, Chosen
  <2>4. QED
    BY <2>2, <2>3
<1>5. ASSUME NEW ok, BuildSurrender(ok) PROVE Serving'
  <2>1. batch.stage = "building"
    BY <1>5 DEF BuildSurrender
  <2>2. CASE ok
    <3>1. batch' = [batch EXCEPT !.stage = AfterBuild] /\ AfterBuild \in Chosen
      BY <1>5, <2>2 DEF BuildSurrender, AfterBuild, Chosen
    <3> DEFINE st == AfterBuild
    <3>2. batch' = [batch EXCEPT !.stage = st] /\ st \in Chosen
      BY <3>1
    <3> HIDE DEF st
    <3>3. QED
      BY <2>1, <3>2, StageChanges DEF Chosen
  <2>3. CASE ~ ok
    <3>1. batch' = Result(batch, "error")
      BY <1>5, <2>3 DEF BuildSurrender
    <3>2. QED
      BY <1>3, <2>1, <3>1
  <2>4. QED
    BY <2>2, <2>3
<1>6. ASSUME NEW ok, PreflightSurrender(ok) PROVE Serving'
  <2>1. batch.stage = "preflight"
    BY <1>6 DEF PreflightSurrender
  <2>2. CASE ok
    <3> DEFINE st == IF batch.submit THEN "submitting" ELSE "counting"
    <3>1. batch' = [batch EXCEPT !.stage = st] /\ st \in Chosen
      BY <1>6, <2>2 DEF PreflightSurrender, Chosen
    <3> HIDE DEF st
    <3>2. QED
      BY <2>1, <3>1, StageChanges DEF Chosen
  <2>3. CASE ~ ok
    <3>1. batch' = Result(batch, "preflight_failed")
      BY <1>6, <2>3 DEF PreflightSurrender
    <3>2. QED
      BY <1>3, <2>1, <3>1
  <2>4. QED
    BY <2>2, <2>3
<1>7. ASSUME NEW t, NEW a, SubmitSurrender(t, a) PROVE Serving'
  <2>1. batch.stage = "submitting"
    BY <1>7 DEF SubmitSurrender
  <2>2. CASE t /\ a
    <3>1. batch' = [batch EXCEPT !.stage = "counting"]
      BY <1>7, <2>2 DEF SubmitSurrender
    <3>2. QED
      BY <2>1, <3>1, StageChanges DEF Chosen
  <2>3. CASE ~ (t /\ a)
    <3>1. batch' = Result(batch, "submit_failed")
      BY <1>7, <2>3 DEF SubmitSurrender
    <3>2. QED
      BY <1>3, <2>1, <3>1
  <2>4. QED
    BY <2>2, <2>3
<1>8. ASSUME Count PROVE Serving'
  <2>1. batch.stage = "counting"
    BY <1>8 DEF Count
  <2>2. PICK b : /\ b = [batch EXCEPT !.pools[batch.at].units = @ - Asked, !.total = @ + Asked]
                 /\ batch' = Result(b, IF batch.submit THEN "submitted" ELSE "built")
    BY <1>8, Zenon DEF Count
  <2>3. DOMAIN b = BatchFields /\ b.at = batch.at /\ b.results = batch.results
    BY <1>2, <2>1, <2>2 DEF BatchFields
  <2> DEFINE st == IF batch.submit THEN "submitted" ELSE "built"
  <2>4. st \in Ends /\ batch' = Result(b, st)
    BY <2>2
  <2> HIDE DEF st
  <2>5. QED
    BY <1>2, <2>1, <2>3, <2>4, ServingResult
<1>9. QED
  BY <1>1, <1>4, <1>5, <1>6, <1>7, <1>8, Zenon DEF DriverNext

LEMMA SupplyDrives ==
  ASSUME SupplyInv, Serving, UNCHANGED <<situation, build>>, ~ seed, DriverNext
  PROVE  SupplyInv'
<1>1. CASE UNCHANGED ledgerVars
  <2>1. UNCHANGED <<build, wallet, situation>>
    BY <1>1, Zenon DEF ledgerVars
  <2>2. Funded'
    BY <2>1, FundedStays DEF SupplyInv
  <2>3. QED
    BY <1>1, <2>2, LedgerStays
<1>2. CASE batch.stage = "submitting" /\ Lands(SurrenderTx, "paid")
  <2>1. Stock /\ Takes(SurrenderTx) /\ "paid" \in Accounts
    BY <1>2 DEF SupplyInv, Lands, Accounts
  <2>2. /\ IsPoolList(SurrenderTx.back)
        /\ UnitsOf(SurrenderTx.back) <= SumFunction(SurrenderTx.claims)
    BY <1>2, <2>1, DriverPays
  <2>3. QED
    BY <1>2, <2>1, <2>2, SupplyLands
<1>3. UNCHANGED ledgerVars \/ (batch.stage = "submitting" /\ Lands(SurrenderTx, "paid"))
  BY Zenon DEF DriverNext, StartBatch, Select, BuildSurrender, PreflightSurrender, SubmitSurrender,
     Count
<1>4. QED
  BY <1>1, <1>2, <1>3

\* Time passes.
LEMMA SupplyTicks ==
  ASSUME SupplyInv, UNCHANGED <<situation, build>>, Tick
  PROVE  SupplyInv'
<1>1. UNCHANGED <<pool, born, seed, wallet, held>>
  BY Zenon DEF Tick
<1>2. Stock' /\ Funded'
  <2>1. Stock'
    BY <1>1, Zenon DEF SupplyInv, Stock
  <2>2. UNCHANGED <<build, wallet, situation>>
    BY <1>1
  <2>3. QED
    BY <2>1, <2>2, FundedStays DEF SupplyInv
<1>3. UnitsOf(pool') + InWallet' + SumFunction(held') = UnitsOf(pool) + InWallet + SumFunction(held)
  BY <1>1, Zenon DEF InWallet
<1>4. Books'
  BY <1>1, <1>3, Zenon DEF SupplyInv, Books
<1>5. QED
  BY <1>2, <1>4 DEF SupplyInv

Minting == situation = "nothing minted"

\* Which situation allows which steps.
LEMMA StepKinds ==
  ASSUME [Next]_vars
  PROVE  /\ UNCHANGED <<situation, offer>>
         /\ \/ UNCHANGED ledgerVars /\ UNCHANGED <<build, batch>>
            \/ Outside /\ UNCHANGED <<build, batch, reclaim, mint, sweep>>
            \/ Minting /\ ((seed /\ MintNext) \/ MintSends \/ (~ seed /\ SweepNext))
                       /\ UNCHANGED <<build, batch, reclaim>>
            \/ Building /\ BuilderNext /\ UNCHANGED <<batch, reclaim, mint, sweep>>
            \/ ~ Minting /\ DriverNext /\ UNCHANGED <<build, reclaim, mint, sweep>>
            \/ ~ Minting /\ ReclaimNext /\ UNCHANGED <<build, batch, mint, sweep>>
<1>1. CASE UNCHANGED vars
  BY <1>1, Zenon DEF vars, ledgerVars
<1>2. CASE Next
  <2>1. UNCHANGED <<situation, offer>>
    BY <1>2, Zenon DEF Next
  <2>2. \/ Outside /\ ToolsIdle
        \/ Minting /\ ((seed /\ MintNext) \/ MintSends \/ (~ seed /\ SweepNext))
                   /\ UNCHANGED <<build, batch, reclaim, walletVars>>
        \/ Building /\ BuilderNext /\ UNCHANGED <<batch, reclaim, ceremonyVars, walletVars>>
        \/ situation = "requests" /\ DriverNext
              /\ UNCHANGED <<build, reclaim, ceremonyVars, walletVars>>
        \/ situation = "closing" /\ ReclaimNext
              /\ UNCHANGED <<build, batch, ceremonyVars, walletVars>>
        \/ ToolsIdle /\ UNCHANGED ledgerVars
    BY <1>2, Zenon DEF Next, Minting, Building
  <2>3. /\ situation = "requests" => ~ Minting
        /\ situation = "closing" => ~ Minting
    BY Zenon DEF Minting
  <2>4. QED
    BY <2>1, <2>2, <2>3, Zenon DEF ToolsIdle, ceremonyVars
<1>3. QED
  BY <1>1, <1>2, Zenon

LEMMA SupplyStep ==
  ASSUME SupplyInv, Serving, [Next]_vars
  PROVE  SupplyInv' /\ Serving'
<1>1. UNCHANGED situation /\ UNCHANGED offer
  BY StepKinds, Zenon
<1>2. ~ Minting => ~ seed
  BY Zenon DEF SupplyInv, Books, Minting
<1>3. UNCHANGED batch => Serving'
  <2>1. UNCHANGED batch => Asked' = Asked
    BY DEF Asked
  <2>2. QED
    BY <2>1, Zenon DEF Serving
<1>4. CASE UNCHANGED ledgerVars /\ UNCHANGED <<build, batch>>
  <2>1. UNCHANGED <<build, wallet, situation>>
    BY <1>1, <1>4, Zenon DEF ledgerVars
  <2>2. Funded'
    BY <2>1, FundedStays DEF SupplyInv
  <2>3. QED
    BY <1>1, <1>3, <1>4, <2>2, LedgerStays
<1>5. CASE Outside /\ UNCHANGED <<build, batch, reclaim, mint, sweep>>
  <2>1. UNCHANGED <<situation, build>>
    BY <1>1, <1>5
  <2>2. ASSUME NEW i \in DOMAIN pool, NEW u \in 1 .. TotalSupply, NEW until, Served(i, u, until)
        PROVE  SupplyInv'
    BY <2>1, <2>2, SupplyServed
  <2>3. ASSUME NEW d \in {"void", "none"}, Gift(d) \/ Burn(d)
        PROVE  SupplyInv'
    BY <2>1, <2>3, SupplyGift
  <2>4. Tick => SupplyInv'
    BY <2>1, SupplyTicks
  <2>5. SupplyInv'
    BY <1>5, <2>2, <2>3, <2>4, Zenon DEF Outside
  <2>6. QED
    BY <1>3, <1>5, <2>5
<1>6. CASE Minting /\ ((seed /\ MintNext) \/ MintSends \/ (~ seed /\ SweepNext))
               /\ UNCHANGED <<build, batch, reclaim>>
  <2>1. UNCHANGED <<situation, build>> /\ UNCHANGED batch
    BY <1>1, <1>6
  <2>2. CASE MintSends
    BY <1>3, <2>1, <2>2, SupplyMintSends
  <2>3. CASE (seed /\ MintNext) \/ (~ seed /\ SweepNext)
    <3>1. SupplyInv'
      <4>1. SupplyInv /\ UNCHANGED <<situation, build>> /\ (MintNext \/ (~ seed /\ SweepNext))
        BY <2>1, <2>3
      <4>2. QED
        BY <4>1, SupplySweeps
    <3>2. QED
      BY <1>3, <2>1, <3>1
  <2>4. QED
    BY <1>6, <2>2, <2>3
<1>7. CASE Building /\ BuilderNext /\ UNCHANGED <<batch, reclaim, mint, sweep>>
  <2>1. ASSUME NEW t, NEW a, SubmitBatch(t, a) PROVE SupplyInv'
    BY <1>1, <1>7, <2>1, SupplySubmits
  <2>2. \/ \E o \in Orders, s, p \in BOOLEAN : StartBuild(o.total, o.outputs, s, p)
        \/ \E v \in DOMAIN wallet : BuildBatch(v)
        \/ \E ok \in BOOLEAN : PreflightBatch(ok)
        \/ ListBatch
        \/ \E t, a \in BOOLEAN : SubmitBatch(t, a)
    BY <1>7, Zenon DEF BuilderNext
  <2>3. SupplyInv'
    BY <1>1, <1>7, <2>1, <2>2, SupplyPrepares
  <2>4. QED
    BY <1>3, <1>7, <2>3
<1>8. CASE ~ Minting /\ DriverNext /\ UNCHANGED <<build, reclaim, mint, sweep>>
  <2>1. UNCHANGED <<situation, build>> /\ ~ seed /\ DriverNext
    BY <1>1, <1>2, <1>8
  <2>2. SupplyInv'
    BY <2>1, SupplyDrives
  <2>3. QED
    BY <2>1, <2>2, ServingStep
<1>9. CASE ~ Minting /\ ReclaimNext /\ UNCHANGED <<build, batch, mint, sweep>>
  <2>1. UNCHANGED <<situation, build>> /\ ~ seed /\ ReclaimNext /\ UNCHANGED batch
    BY <1>1, <1>2, <1>9
  <2>2. SupplyInv'
    BY <2>1, SupplyReclaims
  <2>3. QED
    BY <1>3, <2>1, <2>2
<1>10. QED
  BY <1>4, <1>5, <1>6, <1>7, <1>8, <1>9, StepKinds

LEMMA SupplyHolds == Spec => [](SupplyInv /\ Serving)
<1>1. Init => SupplyInv /\ Serving
  <2>1. Init => batch.stage = "idle"
    <3>1. Init => batch = NoBatch
      BY Zenon DEF Init
    <3>2. NoBatch.stage = "idle"
      BY DEF NoBatch
    <3>3. QED
      BY <3>1, <3>2
  <2>2. QED
    BY <2>1, SupplyInit DEF Serving
<1>2. SupplyInv /\ Serving /\ [Next]_vars => SupplyInv' /\ Serving'
  BY SupplyStep
<1>3. QED
  BY <1>1, <1>2, PTL DEF Spec

\* The supply is minted whole and once, by whichever stage of the ceremony or
\* by hand; after that units move between the pool, the wallet and those who
\* hold them, and none appears; and an output of a mint or a burn at the pool
\* carries a datum (flux_mint_policy.ak, and every tool that lands something).
THEOREM SupplyAlwaysAddsUp == Spec => []MintSound
<1>1. SupplyInv => MintSound
  BY DEF SupplyInv, Books, Stock, IsPoolOutput, MintSound
<1>2. QED
  BY <1>1, SupplyHolds, PTL

-----------------------------------------------------------------------------
(* The deadline and the sweep                                              *)

\* The units that come into one account, and what was at the pool before.
LEMMA LandingAccounts ==
  ASSUME held \in [Accounts -> Nat], NEW tx, NEW account \in Accounts, Lands(tx, account)
  PROVE  /\ \A a \in Accounts \ {account} : held'[a] = held[a]
         /\ Takes(tx) /\ InTime(tx)
         /\ \A i \in DOMAIN tx.claims :
               /\ i \in DOMAIN pool
               /\ script = "pool" => Validates(pool[i].datum, tx)
<1>1. held' = [held EXCEPT ![account] = held[account] + SumFunction(tx.claims) - UnitsOf(tx.back)]
  BY DEF Lands
<1>2. \A a \in Accounts \ {account} : held'[a] = held[a]
  BY <1>1
<1>3. QED
  BY <1>2 DEF Lands, Takes, Evaluates, Unlocks

\* What is asked of each step: before the deadline to users only, after it
\* back to the admins only, and nothing with one admin.
Parted == script = "pool" => /\ held'.users > held.users => slot < Deadline
                             /\ held'.returned > held.returned => slot > Deadline
                             /\ held'.paid = held.paid

LEMMA PartedStands ==
  ASSUME held \in [Accounts -> Nat], UNCHANGED held
  PROVE  Parted
<1>1. held'.users = held.users /\ held'.returned = held.returned /\ held'.paid = held.paid
      /\ held.users \in Nat /\ held.returned \in Nat
  BY DEF Accounts
<1>2. QED
  BY <1>1 DEF Parted

LEMMA OutsideParted ==
  ASSUME held \in [Accounts -> Nat], slot \in Nat, Outside
  PROVE  Parted
<1>1. "users" \in Accounts /\ "paid" \in Accounts /\ "returned" \in Accounts
      /\ "burned" \in Accounts
      /\ held.users \in Nat /\ held.returned \in Nat
  BY DEF Accounts
<1>2. Deadline \in Nat /\ Open \notin Int
  BY ScriptAssumption
<1>3. ASSUME NEW i \in DOMAIN pool, NEW u, NEW until \in Bounds, Served(i, u, until)
      PROVE  Parted
  <2> DEFINE tx == [claims    |-> [j \in {i} |-> pool[j].units],
                    back      |-> IF u = pool[i].units THEN <<>>
                                  ELSE <<Output(pool[i].units - u, "void", "service")>>,
                    signers   |-> Admins,
                    witnesses |-> Admins,
                    from      |-> Open,
                    until     |-> until,
                    redeemer  |-> "surrender"]
  <2>1. Lands(tx, "users")
    BY <1>3 DEF Served
  <2>2. i \in DOMAIN tx.claims /\ tx.from = Open /\ tx.until = until
    OBVIOUS
  <2> HIDE DEF tx
  <2>3. /\ \A a \in Accounts \ {"users"} : held'[a] = held[a]
        /\ InTime(tx)
        /\ script = "pool" => Validates(pool[i].datum, tx)
    BY <1>1, <2>1, <2>2, LandingAccounts
  <2>4. held'.paid = held.paid /\ held'.returned = held.returned
    BY <1>1, <2>3
  <2>5. script = "pool" => slot < Deadline
    <3>1. script = "pool" => until # Open /\ until <= Deadline
      BY <2>2, <2>3 DEF Validates, EntirelyBefore, EntirelyAfter
    <3>2. until # Open => until \in Nat /\ slot < until
      BY <1>2, <2>2, <2>3 DEF Bounds, InTime
    <3>3. QED
      BY <1>2, <3>1, <3>2
  <2>6. QED
    BY <1>1, <2>4, <2>5 DEF Parted
<1>4. ASSUME NEW d, Gift(d)
      PROVE  Parted
  <2>1. held' = [held EXCEPT !["users"] = held["users"] - 1]
    BY <1>4, Zenon DEF Gift
  <2>2. held'.users = held.users - 1 /\ held'.paid = held.paid /\ held'.returned = held.returned
    BY <1>1, <2>1
  <2>3. QED
    BY <1>1, <2>2 DEF Parted
<1>5. ASSUME NEW d, Burn(d)
      PROVE  Parted
  <2>1. held' = [held EXCEPT !["users"] = held["users"] - 2, !["burned"] = held["burned"] + 1]
    BY <1>5, Zenon DEF Burn
  <2>2. held'.users = held.users - 2 /\ held'.paid = held.paid /\ held'.returned = held.returned
    BY <1>1, <2>1
  <2>3. QED
    BY <1>1, <2>2 DEF Parted
<1>6. Tick => Parted
  <2>1. Tick => UNCHANGED held
    BY Zenon DEF Tick
  <2>2. QED
    BY <2>1, PartedStands
<1>7. QED
  BY <1>3, <1>4, <1>5, <1>6, Zenon DEF Outside

\* One admin alone gets nothing out of the pool's script, and the redeemer
\* of the reclaim opens none of it.
LEMMA ToolsParted ==
  ASSUME Stock, held \in [Accounts -> Nat], slot \in Nat,
         \/ Lands(SurrenderTx, "paid")
         \/ Lands(ReclaimTx, "returned")
         \/ SweepSubmit
  PROVE  Parted
<1>1. "users" \in Accounts /\ "paid" \in Accounts /\ "returned" \in Accounts
      /\ held.users \in Nat /\ held.returned \in Nat
  BY DEF Accounts
<1>2. Deadline \in Nat /\ Open \notin Int /\ Admin1 # Admin2
  BY ScriptAssumption
<1>3. CASE Lands(SurrenderTx, "paid")
  <2>1. batch.pools[batch.at].id \in DOMAIN SurrenderTx.claims /\ SurrenderTx.signers = {Admin1}
    BY DEF SurrenderTx
  <2>2. \A i \in DOMAIN SurrenderTx.claims : script = "pool" => Validates(pool[i].datum, SurrenderTx)
    BY <1>1, <1>3, LandingAccounts
  <2>3. script # "pool"
    BY <1>2, <2>1, <2>2 DEF Validates, Admins
  <2>4. QED
    BY <2>3 DEF Parted
<1>4. CASE Lands(ReclaimTx, "returned")
  <2>1. /\ ReclaimTx.redeemer = "surrender" /\ ReclaimTx.until = Open /\ ReclaimTx.back = <<>>
    BY DEF ReclaimTx
  <2>2. /\ \A i \in DOMAIN ReclaimTx.claims : script = "pool" => Validates(pool[i].datum, ReclaimTx)
        /\ \A a \in Accounts \ {"returned"} : held'[a] = held[a]
    BY <1>1, <1>4, LandingAccounts
  <2>3. ASSUME script = "pool"
        PROVE  DOMAIN ReclaimTx.claims = {}
    BY <2>1, <2>2, <2>3 DEF Validates, EntirelyBefore
  <2>4. ASSUME script = "pool"
        PROVE  held'.returned = held.returned
    <3>1. SumFunction(ReclaimTx.claims) = 0
      <4>1. SumFunction(ReclaimTx.claims) = SumFunctionOnSet(ReclaimTx.claims, {})
        BY <2>3, <2>4, Zenon DEF SumFunction
      <4>2. QED
        BY <4>1, SumEmpty
    <3>2. UnitsOf(ReclaimTx.back) = 0
      <4>1. UnitsOf(<<>>) = 0
        BY ListsOfOne
      <4>2. QED
        BY <2>1, <4>1, Zenon
    <3>3. held' = [held EXCEPT !["returned"] =
                      held["returned"] + SumFunction(ReclaimTx.claims) - UnitsOf(ReclaimTx.back)]
      BY <1>4 DEF Lands
    <3>4. held'.returned = held.returned + SumFunction(ReclaimTx.claims) - UnitsOf(ReclaimTx.back)
      BY <1>1, <3>3
    <3>5. QED
      BY <1>1, <3>1, <3>2, <3>4
  <2>5. held'.paid = held.paid /\ held'.users = held.users
    BY <1>1, <2>2
  <2>6. QED
    BY <1>1, <2>4, <2>5 DEF Parted
<1>5. CASE SweepSubmit
  <2> DEFINE tx == SweepTx(sweep.final)
  <2>1. /\ Lands(tx, "returned") /\ sweep.final.body.id \in DOMAIN tx.claims
        /\ tx.redeemer = "withdraw" /\ tx.from = Deadline + Buffer
    BY <1>5 DEF SweepSubmit, SweepTx, SweepWindow
  <2> HIDE DEF tx
  <2>2. /\ \A a \in Accounts \ {"returned"} : held'[a] = held[a]
        /\ InTime(tx)
        /\ \A i \in DOMAIN tx.claims : script = "pool" => Validates(pool[i].datum, tx)
    BY <1>1, <2>1, LandingAccounts
  <2>3. Buffer \in Nat
    BY CeremonyAssumption
  <2>4. script = "pool" => slot > Deadline
    <3>1. tx.from <= slot
      BY <1>2, <2>1, <2>2, <2>3 DEF InTime
    <3>2. script = "pool" => tx.from > Deadline
      BY <2>1, <2>2 DEF Validates, EntirelyAfter
    <3>3. QED
      BY <1>2, <2>1, <2>3, <3>1, <3>2
  <2>5. held'.paid = held.paid /\ held'.users = held.users
    BY <1>1, <2>2
  <2>6. QED
    BY <1>1, <2>4, <2>5 DEF Parted
<1>6. QED
  BY <1>3, <1>4, <1>5

\* What a step of a tool may do to the accounts.
LEMMA ToolSteps ==
  ASSUME [Next]_vars
  PROVE  \/ UNCHANGED held
         \/ Outside
         \/ Lands(SurrenderTx, "paid")
         \/ Lands(ReclaimTx, "returned")
         \/ Minting /\ SweepSubmit
<1>1. UNCHANGED ledgerVars => UNCHANGED held
  BY Zenon DEF ledgerVars
<1>2. MintNext => UNCHANGED ledgerVars
  BY Zenon DEF MintNext, MintApply, MintParams, MintBuild, MintSign1, MintSign2, MintAssemble, Write
<1>3. MintSends => UNCHANGED held
  <2>1. \A units, datum, tx : Minted(units, datum, tx) => UNCHANGED held
    BY Zenon DEF Minted
  <2>2. QED
    BY <2>1, Zenon DEF MintSends, MintSubmit, MintByHand
<1>4. SweepNext => UNCHANGED ledgerVars \/ SweepSubmit
  BY Zenon DEF SweepNext, SweepApply, SweepParams, SweepBuild, SweepSign1, SweepSign2,
     SweepPreflight, SweepAssemble, Write
<1>5. BuilderNext => UNCHANGED held
  <2>1. \A t, a : SubmitBatch(t, a) => UNCHANGED held
    BY <1>1, Zenon DEF SubmitBatch
  <2>2. QED
    BY <1>1, <2>1, Zenon DEF BuilderNext, StartBuild, BuildBatch, PreflightBatch, ListBatch
<1>6. DriverNext => UNCHANGED ledgerVars \/ Lands(SurrenderTx, "paid")
  BY Zenon DEF DriverNext, StartBatch, Select, BuildSurrender, PreflightSurrender, SubmitSurrender,
     Count
<1>7. ReclaimNext => UNCHANGED ledgerVars \/ Lands(ReclaimTx, "returned")
  BY Zenon DEF ReclaimNext, StartReclaim, BuildReclaim, SignFirst, AssembleReclaim, SignSecond,
     SubmitReclaim
<1>8. QED
  BY <1>1, <1>2, <1>3, <1>4, <1>5, <1>6, <1>7, StepKinds, Zenon

LEMMA StepParted ==
  ASSUME SupplyInv, OfferInv, [Next]_vars
  PROVE  Parted
<1>1. Stock /\ held \in [Accounts -> Nat]
  BY DEF SupplyInv, Books
<1>2. slot \in Nat
  BY LedgerAssumption DEF OfferInv
<1>3. QED
  BY <1>1, <1>2, PartedStands, OutsideParted, ToolsParted, ToolSteps

\* Units leave the pool's script for users before the deadline only and for
\* the admins after it only, and the driver and the reclaim, which do not sign
\* or redeem as the script asks, get nothing out of it (claim_validator.ak,
\* process_surrender.py, admin_reclaim.py).
THEOREM DeadlineAlwaysSplits == Spec => DeadlineSplits
<1>1. SupplyInv /\ OfferInv /\ [Next]_vars
         => [script = "pool" =>
               /\ held'.users > held.users => slot < Deadline
               /\ held'.returned > held.returned => slot > Deadline
               /\ held'.paid = held.paid]_vars
  BY StepParted DEF Parted
<1>2. QED
  BY <1>1, SupplyHolds, OfferInvHolds, PTL DEF Spec, DeadlineSplits

\* What the pool holds was there before or is numbered above all there was.
LEMMA LandedNumbers ==
  ASSUME born \in Nat, NEW left \in SUBSET DOMAIN pool, NEW back, Len(back) \in Nat,
         pool' = PoolWith(left, back), born' = born + Len(back)
  PROVE  born' \in Nat /\ born' >= born /\ \A i \in DOMAIN pool' : i \in left \/ i > born
<1>1. DOMAIN pool' = left \cup (born + 1 .. born + Len(back))
  BY DEF PoolWith
<1>2. QED
  BY <1>1

LEMMA PoolGrows ==
  ASSUME SupplyInv, Serving, [Next]_vars
  PROVE  /\ born \in Nat /\ born' \in Nat /\ born' >= born
         /\ \A i \in DOMAIN pool' : i \in DOMAIN pool \/ i > born
<1> DEFINE Grows == /\ born' \in Nat /\ born' >= born
                    /\ \A i \in DOMAIN pool' : i \in DOMAIN pool \/ i > born
<1>1. born \in Nat /\ Stock
  BY DEF SupplyInv, Stock
<1>2. UNCHANGED <<pool, born>> => Grows
  BY <1>1
<1>3. ASSUME NEW tx, NEW account, Len(tx.back) \in Nat, Lands(tx, account)
      PROVE  Grows
  <2> DEFINE left == DOMAIN pool \ DOMAIN tx.claims
             back == tx.back
  <2>1. pool' = PoolWith(left, back) /\ born' = born + Len(back) /\ Len(back) \in Nat
        /\ left \in SUBSET DOMAIN pool
    BY <1>3 DEF Lands
  <2> HIDE DEF left, back
  <2>2. QED
    BY <1>1, <2>1, LandedNumbers
<1>4. ASSUME NEW o, pool' = PoolWith(DOMAIN pool, <<o>>), born' = born + 1
      PROVE  Grows
  <2> DEFINE left == DOMAIN pool
             back == <<o>>
  <2>1. pool' = PoolWith(left, back) /\ born' = born + Len(back) /\ Len(back) \in Nat
        /\ left \in SUBSET DOMAIN pool
    BY <1>4
  <2> HIDE DEF left, back
  <2>2. QED
    BY <1>1, <2>1, LandedNumbers
<1> HIDE DEF Grows
<1>5. UNCHANGED ledgerVars => Grows
  BY <1>2, Zenon DEF ledgerVars
<1>6. Outside => Grows
  <2>1. ASSUME NEW i, NEW u, NEW until, Served(i, u, until)
        PROVE  Grows
    <3> DEFINE tx == [claims    |-> [j \in {i} |-> pool[j].units],
                      back      |-> IF u = pool[i].units THEN <<>>
                                    ELSE <<Output(pool[i].units - u, "void", "service")>>,
                      signers   |-> Admins,
                      witnesses |-> Admins,
                      from      |-> Open,
                      until     |-> until,
                      redeemer  |-> "surrender"]
    <3>1. Lands(tx, "users")
      BY <2>1 DEF Served
    <3>2. Len(tx.back) \in Nat
      OBVIOUS
    <3> HIDE DEF tx
    <3>3. QED
      BY <1>3, <3>1, <3>2
  <2>2. \A d : Gift(d) => Grows
    BY <1>4, Zenon DEF Gift
  <2>3. \A d : Burn(d) => Grows
    BY <1>4, Zenon DEF Burn
  <2>4. Tick => Grows
    BY <1>2, Zenon DEF Tick
  <2>5. QED
    BY <2>1, <2>2, <2>3, <2>4, Zenon DEF Outside
<1>7. MintNext => Grows
  BY <1>5, Zenon DEF MintNext, MintApply, MintParams, MintBuild, MintSign1, MintSign2,
     MintAssemble, Write
<1>8. MintSends => Grows
  <2>1. \A units, datum, tx : Minted(units, datum, tx) => Grows
    BY <1>4, Zenon DEF Minted
  <2>2. QED
    BY <2>1, Zenon DEF MintSends, MintSubmit, MintByHand
<1>9. SweepNext => Grows
  <2>1. SweepNext => UNCHANGED ledgerVars \/ SweepSubmit
    BY Zenon DEF SweepNext, SweepApply, SweepParams, SweepBuild, SweepSign1, SweepSign2,
       SweepPreflight, SweepAssemble, Write
  <2>2. ASSUME SweepSubmit PROVE Grows
    <3> DEFINE tx == SweepTx(sweep.final)
    <3>1. Lands(tx, "returned") /\ Len(tx.back) \in Nat
      BY <2>2 DEF SweepSubmit, SweepTx
    <3> HIDE DEF tx
    <3>2. QED
      BY <1>3, <3>1
  <2>3. QED
    BY <1>5, <2>1, <2>2
<1>10. Building /\ BuilderNext => Grows
  <2>1. ASSUME Building, NEW t, NEW a, SubmitBatch(t, a) PROVE Grows
    <3>1. CASE t
      <4> DEFINE units == BatchOf(build)
                 back == BuilderOutputs(units)
                 left == DOMAIN pool
      <4>1. /\ build.done < Len(build.outs) /\ build.outs \in Seq(Nat \ {0}) /\ build.done \in Nat
        BY <2>1 DEF SupplyInv, Funded, FundedBy, SubmitBatch, Busy, Prepares
      <4>2. units \in Seq(Nat \ {0})
        BY <4>1, NextBatchSums
      <4>3. pool' = PoolWith(left, back) /\ born' = born + Len(units)
        BY <2>1, <3>1 DEF SubmitBatch, BuilderOutputs
      <4> HIDE DEF units
      <4>4. Len(back) = Len(units) /\ Len(back) \in Nat
        BY <4>2, BatchOutputs DEF IsPoolList
      <4>5. left \in SUBSET DOMAIN pool
        OBVIOUS
      <4> HIDE DEF back, left
      <4>6. born' = born + Len(back)
        BY <4>3, <4>4
      <4>7. QED
        BY <1>1, <4>3, <4>4, <4>5, <4>6, LandedNumbers DEF Grows
    <3>2. CASE ~ t
      BY <1>5, <2>1, <3>2, Zenon DEF SubmitBatch
    <3>3. QED
      BY <3>1, <3>2
  <2>2. QED
    BY <1>5, <2>1, Zenon DEF BuilderNext, StartBuild, BuildBatch, PreflightBatch, ListBatch
<1>11. DriverNext => Grows
  <2>1. DriverNext => UNCHANGED ledgerVars
                      \/ (batch.stage = "submitting" /\ Lands(SurrenderTx, "paid"))
    BY Zenon DEF DriverNext, StartBatch, Select, BuildSurrender, PreflightSurrender,
       SubmitSurrender, Count
  <2>2. ASSUME batch.stage = "submitting", Lands(SurrenderTx, "paid") PROVE Grows
    <3>1. Len(SurrenderTx.back) \in Nat
      BY <1>1, <2>2, DriverPays DEF Lands, IsPoolList
    <3>2. QED
      BY <1>3, <2>2, <3>1
  <2>3. QED
    BY <1>5, <2>1, <2>2
<1>12. ReclaimNext => Grows
  <2>1. ReclaimNext => UNCHANGED ledgerVars \/ Lands(ReclaimTx, "returned")
    BY Zenon DEF ReclaimNext, StartReclaim, BuildReclaim, SignFirst, AssembleReclaim, SignSecond,
       SubmitReclaim
  <2>2. Len(ReclaimTx.back) \in Nat
    BY DEF ReclaimTx
  <2>3. QED
    BY <1>3, <1>5, <2>1, <2>2
<1>13. Grows
  BY <1>5, <1>6, <1>7, <1>8, <1>9, <1>10, <1>11, <1>12, StepKinds, Zenon
<1>14. QED
  BY <1>1, <1>13 DEF Grows

CeremonyFields == {"applied", "params", "view", "raw", "first", "second", "final"}

\* When a file was written it told of the only output there was: of those that
\* had been made by then no other can be in the pool.
OnlyOne(file) == /\ file.seen \in Nat /\ file.seen <= born
                 /\ \A i \in DOMAIN pool : i <= file.seen => i = file.id

Viewing ==
  /\ DOMAIN sweep = CeremonyFields
  /\ sweep.view \notin {NoFile, Bad} => OnlyOne(sweep.view)
  /\ sweep.raw # NoFile => OnlyOne(sweep.raw)
  /\ sweep.first # NoFile => sweep.raw # NoFile
  /\ sweep.final # NoFile => OnlyOne(sweep.final.body)

\* New outputs are later ones.
LEMMA OnlyOneStays ==
  ASSUME born \in Nat, born' \in Nat, born' >= born,
         \A i \in DOMAIN pool' : i \in DOMAIN pool \/ i > born,
         Stock', NEW file, OnlyOne(file)
  PROVE  OnlyOne(file)'
<1>1. file.seen \in Nat /\ file.seen <= born'
  BY DEF OnlyOne
<1>2. \A i \in DOMAIN pool' : i \in Nat
  BY DEF Stock
<1>3. \A i \in DOMAIN pool' : i <= file.seen => i = file.id
  BY <1>2 DEF OnlyOne
<1>4. QED
  BY <1>1, <1>3 DEF OnlyOne

\* Only steps of the sweep write its files.
LEMMA SweepFiles ==
  ASSUME [Next]_vars
  PROVE  UNCHANGED sweep \/ (Minting /\ SweepNext)
<1>1. MintNext => UNCHANGED sweep
  BY Zenon DEF MintNext, MintApply, MintParams, MintBuild, MintSign1, MintSign2, MintAssemble
<1>2. MintSends => UNCHANGED sweep
  <2>1. UNCHANGED ceremonyVars => UNCHANGED sweep
    BY Zenon DEF ceremonyVars
  <2>2. QED
    BY <2>1, Zenon DEF MintSends, MintSubmit, MintByHand
<1>3. Next => UNCHANGED sweep \/ (Minting /\ SweepNext)
  <2>1. UNCHANGED ceremonyVars => UNCHANGED sweep
    BY Zenon DEF ceremonyVars
  <2>2. QED
    BY <1>1, <1>2, <2>1, Zenon DEF Next, ToolsIdle, Minting
<1>4. UNCHANGED vars => UNCHANGED sweep
  BY Zenon DEF vars, ceremonyVars
<1>5. QED
  BY <1>3, <1>4

LEMMA ViewingStep ==
  ASSUME Stock, Viewing, born \in Nat, born' \in Nat, born' >= born,
         \A i \in DOMAIN pool' : i \in DOMAIN pool \/ i > born,
         Stock', UNCHANGED sweep \/ SweepNext
  PROVE  Viewing'
<1> DEFINE Stays(file) == OnlyOne(file) => OnlyOne(file)'
<1>1. ASSUME NEW file, OnlyOne(file) PROVE OnlyOne(file)'
  BY <1>1, OnlyOneStays
<1>2. ASSUME NEW s, s = sweep
      PROVE  /\ DOMAIN s = CeremonyFields
             /\ s.view \notin {NoFile, Bad} => OnlyOne(s.view)'
             /\ s.raw # NoFile => OnlyOne(s.raw)'
             /\ s.first # NoFile => s.raw # NoFile
             /\ s.final # NoFile => OnlyOne(s.final.body)'
  BY <1>1, <1>2 DEF Viewing
<1>3. PICK s : s = sweep
  OBVIOUS
<1>4. /\ DOMAIN s = CeremonyFields
      /\ s.view \notin {NoFile, Bad} => OnlyOne(s.view)'
      /\ s.raw # NoFile => OnlyOne(s.raw)'
      /\ s.first # NoFile => s.raw # NoFile
      /\ s.final # NoFile => OnlyOne(s.final.body)'
  BY <1>2, <1>3
<1>5. CASE sweep' = s
  BY <1>4, <1>5 DEF Viewing, OnlyOne
<1>6. CASE SweepApply \/ SweepParams
  BY <1>3, <1>4, <1>6 DEF SweepApply, SweepParams, Applied, Fetched, Viewing, CeremonyFields, OnlyOne
<1>7. CASE SweepBuild
  BY <1>3, <1>4, <1>7 DEF SweepBuild, Viewing, CeremonyFields, OnlyOne
<1>8. CASE SweepSign1
  BY <1>3, <1>4, <1>8 DEF SweepSign1, SignedFirst, Viewing, CeremonyFields, OnlyOne
<1>9. ASSUME NEW ok, SweepSign2(ok) PROVE Viewing'
  BY <1>3, <1>4, <1>9 DEF SweepSign2, SignedSecond, Viewing, CeremonyFields, OnlyOne
<1>10. CASE SweepAssemble
  BY <1>3, <1>4, <1>10 DEF SweepAssemble, Assembled, CanAssemble, Viewing, CeremonyFields, OnlyOne
<1>11. ASSUME NEW ok, SweepPreflight(ok) PROVE Viewing'
  <2>1. PICK v : v = IF ok THEN PoolView ELSE Bad
    OBVIOUS
  <2>2. v # Bad => OnlyOne(v)'
    <3>1. ASSUME Cardinality(DOMAIN pool) = 1
          PROVE  OnlyOne(PoolView)
      <4>1. PICK x : DOMAIN pool = {x}
        <5>1. IsFiniteSet(DOMAIN pool)
          BY PoolSums DEF Stock
        <5>2. QED
          BY <3>1, <5>1, FS_Singleton
      <4>2. (CHOOSE j \in DOMAIN pool : TRUE) = x
        BY <4>1
      <4>3. PoolView = Viewed(x)
        BY <3>1, <4>2 DEF PoolView
      <4>4. Viewed(x).id = x /\ Viewed(x).seen = born
        BY DEF Viewed
      <4>5. QED
        BY <4>1, <4>3, <4>4 DEF OnlyOne
    <3>2. Cardinality(DOMAIN pool) # 1 => PoolView = Bad
      BY DEF PoolView
    <3>3. QED
      BY <1>1, <2>1, <3>1, <3>2
  <2>3. sweep' = [sweep EXCEPT !.view = v]
    BY <1>11, <2>1 DEF SweepPreflight
  <2>4. QED
    BY <1>3, <1>4, <2>2, <2>3 DEF Viewing, CeremonyFields, OnlyOne
<1>12. SweepSubmit => sweep' = s
  BY <1>3, Zenon DEF SweepSubmit, ceremonyVars
<1>13. UNCHANGED sweep => sweep' = s
  BY <1>3
<1>14. QED
  BY <1>5, <1>6, <1>7, <1>8, <1>9, <1>10, <1>11, <1>12, <1>13, Zenon DEF SweepNext

LEMMA ViewingHolds == Spec => []Viewing
<1>1. Init => Viewing
  <2>1. Init => sweep = NoFiles
    BY Zenon DEF Init
  <2>2. QED
    BY <2>1 DEF NoFiles, Viewing, CeremonyFields
<1>2. SupplyInv /\ Serving /\ Viewing /\ [Next]_vars => Viewing'
  <2> SUFFICES ASSUME SupplyInv, Serving, Viewing, [Next]_vars PROVE Viewing'
    OBVIOUS
  <2>1. Stock /\ Stock'
    BY SupplyStep DEF SupplyInv
  <2>2. /\ born \in Nat /\ born' \in Nat /\ born' >= born
        /\ \A i \in DOMAIN pool' : i \in DOMAIN pool \/ i > born
    BY PoolGrows
  <2>3. UNCHANGED sweep \/ SweepNext
    BY SweepFiles
  <2>4. QED
    BY <2>1, <2>2, <2>3, ViewingStep
<1>3. QED
  BY <1>1, <1>2, SupplyHolds, PTL DEF Spec

\* A sweep that lands leaves nothing that was there when the preflight of its
\* transaction looked, whichever files of whichever attempt it was put together
\* from (admin-sweep-ceremony.sh, koios_get_pool_utxo).
LEMMA SweptClean ==
  ASSUME SupplyInv, Serving, Viewing, OfferInv, [Next]_vars,
         Minting, held'.returned > held.returned
  PROVE  \A i \in DOMAIN pool' : i > sweep.final.body.seen
<1>1. Stock /\ held \in [Accounts -> Nat] /\ born \in Nat
  BY DEF SupplyInv, Books, Stock
<1>2. ~ Outside /\ ~ UNCHANGED held
  <2>1. held.returned \in Nat
    BY <1>1 DEF Accounts
  <2>2. UNCHANGED held => held'.returned = held.returned
    OBVIOUS
  <2>3. "returned" \in Accounts \ {"users"} /\ "users" \in Accounts /\ "burned" \in Accounts
    BY DEF Accounts
  <2>4. Outside => held'.returned = held.returned
    <3>1. ASSUME NEW tx, Lands(tx, "users") PROVE held'.returned = held.returned
      BY <1>1, <2>3, <3>1, LandingAccounts
    <3>2. ASSUME NEW i, NEW u, NEW until, Served(i, u, until)
          PROVE  held'.returned = held.returned
      BY <3>1, <3>2, Zenon DEF Served
    <3>3. ASSUME NEW d, Gift(d) PROVE held'.returned = held.returned
      <4>1. held' = [held EXCEPT !["users"] = held["users"] - 1]
        BY <3>3, Zenon DEF Gift
      <4>2. QED
        BY <1>1, <2>3, <4>1
    <3>4. ASSUME NEW d, Burn(d) PROVE held'.returned = held.returned
      <4>1. held' = [held EXCEPT !["users"] = held["users"] - 2, !["burned"] = held["burned"] + 1]
        BY <3>4, Zenon DEF Burn
      <4>2. QED
        BY <1>1, <2>3, <4>1
    <3>5. Tick => UNCHANGED held
      BY Zenon DEF Tick
    <3>6. QED
      BY <2>2, <3>2, <3>3, <3>4, <3>5, Zenon DEF Outside
  <2>5. QED
    BY <2>1, <2>2, <2>4
<1>3. SweepSubmit
  <2>1. MintNext => UNCHANGED ledgerVars
    BY Zenon DEF MintNext, MintApply, MintParams, MintBuild, MintSign1, MintSign2, MintAssemble,
       Write
  <2>2. MintSends => UNCHANGED held
    <3>1. \A units, datum, tx : Minted(units, datum, tx) => UNCHANGED held
      BY Zenon DEF Minted
    <3>2. QED
      BY <3>1, Zenon DEF MintSends, MintSubmit, MintByHand
  <2>3. SweepNext => UNCHANGED ledgerVars \/ SweepSubmit
    BY Zenon DEF SweepNext, SweepApply, SweepParams, SweepBuild, SweepSign1, SweepSign2,
       SweepPreflight, SweepAssemble, Write
  <2>4. UNCHANGED ledgerVars => UNCHANGED held
    BY Zenon DEF ledgerVars
  <2>5. ~ (Building /\ Minting)
    BY Zenon DEF Building, Minting
  <2>6. QED
    BY <1>2, <2>1, <2>2, <2>3, <2>4, <2>5, StepKinds, Zenon
<1> DEFINE body == sweep.final.body
           tx == SweepTx(sweep.final)
           left == DOMAIN pool \ {body.id}
<1>4. sweep.final # NoFile /\ Lands(tx, "returned") /\ DOMAIN tx.claims = {body.id} /\ tx.back = <<>>
  BY <1>3 DEF SweepSubmit, SweepTx
<1>5. /\ body.seen \in Nat /\ body.seen <= born
      /\ \A i \in DOMAIN pool : i <= body.seen => i = body.id
  BY <1>4 DEF Viewing, OnlyOne
<1> HIDE DEF tx, body
<1>6. pool' = PoolWith(left, tx.back) /\ born' = born + Len(tx.back) /\ Len(tx.back) \in Nat
      /\ left \in SUBSET DOMAIN pool
  BY <1>4 DEF Lands
<1> DEFINE back == tx.back
<1>7. pool' = PoolWith(left, back) /\ born' = born + Len(back) /\ Len(back) \in Nat
  BY <1>6
<1> HIDE DEF left, back
<1>8. \A i \in DOMAIN pool' : i \in left \/ i > born
  BY <1>1, <1>6, <1>7, LandedNumbers
<1>9. \A i \in DOMAIN pool' : i > body.seen
  <2>1. \A i \in left : i \in DOMAIN pool /\ i # body.id
    BY DEF left
  <2>2. \A i \in DOMAIN pool : i \in Nat
    BY <1>1 DEF Stock
  <2>3. \A i \in left : i > body.seen
    BY <1>5, <2>1, <2>2
  <2>4. \A i \in DOMAIN pool' : i > born => i > body.seen
    <3>1. \A i \in DOMAIN pool' : i \in Int
      BY SupplyStep DEF SupplyInv, Stock
    <3>2. QED
      BY <1>1, <1>5, <3>1
  <2>5. QED
    BY <1>8, <2>3, <2>4
<1>10. QED
  BY <1>9 DEF body

\* Whatever is there after a sweep came after its preflight.
THEOREM SweepAlwaysEmpties == Spec => SweepEmpties
<1>1. SupplyInv /\ Serving /\ Viewing /\ OfferInv /\ [Next]_vars
         => [situation = "nothing minted" /\ held'.returned > held.returned =>
                \A i \in DOMAIN pool' : i > sweep.final.body.seen]_vars
  BY SweptClean, Zenon DEF Minting
<1>2. QED
  BY <1>1, SupplyHolds, ViewingHolds, OfferInvHolds, PTL DEF Spec, SweepEmpties

-----------------------------------------------------------------------------
(* The manifest                                                            *)

Given(b, w) == b.start - w[Len(w)]

\* How much of what was asked for has left the wallet, stage by stage.
ListedBy(b, w) ==
  /\ b.stage \in Busy \cup {"manifest", "aborted"}
  /\ b.total = Upto(b.outs, Len(b.outs))
  /\ b.stage = "manifest" => b.done = Len(b.outs)
  /\ b.submit =>
        /\ b.start \in Int
        /\ b.stage \in {"building", "manifest"} \cup Prepares => Given(b, w) = Upto(b.outs, b.done)
        /\ b.stage = "listing" => Given(b, w) = Upto(b.outs, b.done) + SumOf(BatchOf(b))
        /\ b.stage = "aborted" => Given(b, w) <= b.total

Listed == build.stage # "idle" => ListedBy(build, wallet)

\* What has been listed and the next batch are part of the total.
LEMMA WithinTotal ==
  ASSUME NEW b, b.outs \in Seq(Nat \ {0}), b.done \in Nat, b.done <= Len(b.outs)
  PROVE  /\ Upto(b.outs, b.done) \in Nat /\ Upto(b.outs, Len(b.outs)) \in Nat
         /\ Upto(b.outs, b.done) <= Upto(b.outs, Len(b.outs))
         /\ b.done < Len(b.outs) =>
               Upto(b.outs, b.done) + SumOf(BatchOf(b)) <= Upto(b.outs, Len(b.outs))
<1> DEFINE outs == b.outs
           n == Len(outs)
<1>1. outs \in Seq(Nat \ {0}) /\ n \in Nat /\ b.done \in Nat /\ b.done <= n
  OBVIOUS
<1>2. ASSUME NEW d \in Nat, d <= n
      PROVE  Upto(outs, d) \in Nat /\ Upto(outs, n) \in Nat /\ Upto(outs, d) <= Upto(outs, n)
  <2> HIDE DEF outs, n
  <2> DEFINE r == SumFunction(SubSeq(outs, d + 1, n))
  <2>1. r \in Nat /\ Upto(outs, d) \in Nat /\ Upto(outs, n) = Upto(outs, d) + r
    <3>1. n <= Len(outs)
      BY <1>1 DEF n
    <3>2. QED
      BY <1>1, <1>2, <3>1, StretchSums
  <2> HIDE DEF r
  <2>2. QED
    BY <2>1
<1>3. b.done < n => /\ b.done + Len(BatchOf(b)) \in Nat /\ b.done + Len(BatchOf(b)) <= n
                    /\ Upto(outs, b.done + Len(BatchOf(b))) = Upto(outs, b.done) + SumOf(BatchOf(b))
  <2>1. b.done < Len(b.outs) =>
           /\ Len(BatchOf(b)) \in Nat \ {0} /\ b.done + Len(BatchOf(b)) <= Len(b.outs)
           /\ Upto(b.outs, b.done + Len(BatchOf(b))) = Upto(b.outs, b.done) + SumOf(BatchOf(b))
    BY NextBatchSums
  <2>2. QED
    BY <1>1, <2>1
<1> HIDE DEF outs, n
<1>4. QED
  <2>1. b.done < n => Upto(outs, b.done) + SumOf(BatchOf(b)) <= Upto(outs, n)
    BY <1>2, <1>3
  <2>2. Upto(outs, b.done) \in Nat /\ Upto(outs, n) \in Nat /\ Upto(outs, b.done) <= Upto(outs, n)
    BY <1>1, <1>2
  <2>3. QED
    BY <2>1, <2>2 DEF outs, n

\* A change of the stage, the amounts in the wallet being the same.
LEMMA ListedStage ==
  ASSUME FundedBy(build, wallet), ListedBy(build, wallet), UNCHANGED wallet,
         build.stage \in {"building", "preflight"}, NEW st, NEW view,
         build' = [build EXCEPT !.view = view, !.stage = st],
         \/ st = "aborted"
         \/ st \in Prepares
         \/ st = "listing" /\ ~ build.submit
  PROVE  ListedBy(build', wallet')
<1>1. /\ DOMAIN build = BuildFields /\ build.outs \in Seq(Nat \ {0}) /\ build.done \in Nat
      /\ build.done <= Len(build.outs)
  BY DEF FundedBy
<1>2. /\ build'.outs = build.outs /\ build'.done = build.done /\ build'.total = build.total
      /\ build'.start = build.start /\ build'.submit = build.submit /\ build'.stage = st
  BY <1>1 DEF BuildFields
<1>3. /\ build.total = Upto(build.outs, Len(build.outs))
      /\ build.submit => build.start \in Int /\ Given(build, wallet) = Upto(build.outs, build.done)
  BY DEF ListedBy, Busy, Prepares
<1>4. Given(build', wallet') = Given(build, wallet)
  BY <1>2, Zenon DEF Given
<1>5. Upto(build.outs, build.done) <= build.total
  BY <1>1, <1>3, WithinTotal
<1>6. QED
  BY <1>2, <1>3, <1>4, <1>5 DEF ListedBy, Busy, Prepares

LEMMA ListedPrepares ==
  ASSUME SupplyInv, Listed, Building,
         \/ \E o \in Orders, s, p \in BOOLEAN : StartBuild(o.total, o.outputs, s, p)
         \/ \E v \in DOMAIN wallet : BuildBatch(v)
         \/ \E ok \in BOOLEAN : PreflightBatch(ok)
         \/ ListBatch
  PROVE  Listed'
<1>1. wallet \in Seq(0 .. TotalSupply)
  BY DEF SupplyInv, Books
<1>2. UNCHANGED ledgerVars /\ UNCHANGED wallet
  BY Zenon DEF StartBuild, BuildBatch, PreflightBatch, ListBatch, ledgerVars
<1>3. build.stage # "idle" => FundedBy(build, wallet) /\ ListedBy(build, wallet)
  BY DEF SupplyInv, Funded, Listed
<1>4. ASSUME NEW o \in Orders, NEW s \in BOOLEAN, NEW p, StartBuild(o.total, o.outputs, s, p)
      PROVE  ListedBy(build', wallet')
  <2> DEFINE total == o.total
             n == o.outputs
             last == wallet[Len(wallet)]
  <2>1. total \in Int /\ n \in Int /\ Splittable(total, n)
    BY <1>4, BuilderAssumption DEF StartBuild
  <2>2. wallet # <<>> /\ build'.outs = Split(total, n) /\ build'.done = 0
        /\ build'.stage = "building" /\ build'.total = total /\ build'.start = last
    BY <1>4 DEF StartBuild, NoBuild
  <2>3. last \in Int
    <3>1. Len(wallet) \in DOMAIN wallet
      BY <1>1, <2>2
    <3>2. \A i \in DOMAIN wallet : wallet[i] \in Int
      BY <1>1, ScriptAssumption
    <3>3. QED
      BY <3>1, <3>2
  <2>4. Given(build', wallet') = 0
    <3>1. Given(build', wallet') = last - last
      BY <1>2, <2>2, Zenon DEF Given
    <3>2. QED
      BY <2>3, <3>1
  <2> HIDE DEF total, n, last
  <2>5. Len(Split(total, n)) = n /\ Upto(Split(total, n), n) = total
    BY <2>1, SplitSums
  <2>6. build'.total = Upto(build'.outs, Len(build'.outs))
    <3>1. Len(build'.outs) = n
      BY <2>2, <2>5
    <3>2. QED
      BY <2>2, <2>5, <3>1
  <2>7. Upto(build'.outs, build'.done) = 0
    <3>1. Upto(build'.outs, 0) = SumFunctionOnSet(build'.outs, {})
      <4>1. 1 .. 0 = {}
        OBVIOUS
      <4>2. QED
        BY <4>1, Zenon DEF Upto
    <3>2. QED
      BY <2>2, <3>1, SumEmpty
  <2>8. QED
    BY <2>2, <2>3, <2>4, <2>6, <2>7 DEF ListedBy, Busy, Prepares
<1>5. ASSUME NEW v \in DOMAIN wallet, BuildBatch(v)
      PROVE  ListedBy(build', wallet')
  <2>1. build.stage = "building" /\ FundedBy(build, wallet) /\ ListedBy(build, wallet)
    BY <1>3, <1>5 DEF BuildBatch
  <2>2. CASE SumOf(BatchOf(build)) > wallet[v]
    <3>1. build' = [build EXCEPT !.stage = "aborted"]
      BY <1>5, <2>2 DEF BuildBatch, Abort
    <3> DEFINE w == build.view
    <3>2. build' = [build EXCEPT !.view = w, !.stage = "aborted"]
      BY <2>1, <3>1 DEF FundedBy, BuildFields
    <3> HIDE DEF w
    <3>3. QED
      BY <1>2, <2>1, <3>2, ListedStage
  <2>3. CASE ~ (SumOf(BatchOf(build)) > wallet[v])
    <3> DEFINE st == IF build.preflight THEN "preflight"
                     ELSE IF build.submit THEN "submitting" ELSE "listing"
    <3>1. build' = [build EXCEPT !.view = v, !.stage = st]
      BY <1>5, <2>3, Zenon DEF BuildBatch
    <3>2. st \in Prepares \/ (st = "listing" /\ ~ build.submit)
      BY DEF Prepares
    <3> HIDE DEF st
    <3>3. QED
      BY <1>2, <2>1, <3>1, <3>2, ListedStage
  <2>4. QED
    BY <2>2, <2>3
<1>6. ASSUME NEW ok, PreflightBatch(ok)
      PROVE  ListedBy(build', wallet')
  <2>1. build.stage = "preflight" /\ FundedBy(build, wallet) /\ ListedBy(build, wallet)
    BY <1>3, <1>6 DEF PreflightBatch
  <2> DEFINE st == IF ~ ok THEN "aborted" ELSE IF build.submit THEN "submitting" ELSE "listing"
             w == build.view
  <2>2. build' = [build EXCEPT !.stage = st]
    <3>1. CASE ok
      BY <1>6, <3>1 DEF PreflightBatch
    <3>2. CASE ~ ok
      BY <1>6, <3>2 DEF PreflightBatch, Abort
    <3>3. QED
      BY <3>1, <3>2
  <2>3. st = "aborted" \/ st \in Prepares \/ (st = "listing" /\ ~ build.submit)
    BY DEF Prepares
  <2> HIDE DEF st
  <2>4. build' = [build EXCEPT !.view = w, !.stage = st]
    BY <2>1, <2>2 DEF FundedBy, BuildFields
  <2> HIDE DEF w
  <2>5. QED
    BY <1>2, <2>1, <2>3, <2>4, ListedStage
<1>7. ASSUME ListBatch
      PROVE  ListedBy(build', wallet')
  <2>1. build.stage = "listing" /\ FundedBy(build, wallet) /\ ListedBy(build, wallet)
    BY <1>3, <1>7 DEF ListBatch
  <2>2. build.done < Len(build.outs) /\ build.outs \in Seq(Nat \ {0}) /\ build.done \in Nat
        /\ DOMAIN build = BuildFields
    BY <2>1 DEF FundedBy, Busy
  <2> DEFINE done == build.done + Len(BatchOf(build))
  <2>3. done \in Nat /\ Upto(build.outs, done) = Upto(build.outs, build.done) + SumOf(BatchOf(build))
    BY <2>2, NextBatchSums
  <2>4. /\ build'.outs = build.outs /\ build'.done = done /\ build'.total = build.total
        /\ build'.start = build.start /\ build'.submit = build.submit
        /\ build'.stage = IF done = Len(build.outs) THEN "manifest" ELSE "building"
    BY <1>7, <2>2 DEF ListBatch, BuildFields
  <2> HIDE DEF done
  <2>5. Given(build', wallet') = Given(build, wallet)
    BY <1>2, <2>4, Zenon DEF Given
  <2>6. /\ build.total = Upto(build.outs, Len(build.outs))
        /\ build.submit => /\ build.start \in Int
                           /\ Given(build, wallet) = Upto(build.outs, build.done) + SumOf(BatchOf(build))
    BY <2>1 DEF ListedBy
  <2>7. QED
    BY <2>3, <2>4, <2>5, <2>6 DEF ListedBy, Busy, Prepares
<1>8. QED
  BY <1>4, <1>5, <1>6, <1>7 DEF Listed

LEMMA ListedSubmits ==
  ASSUME SupplyInv, Listed, Building, NEW taken, NEW answered, SubmitBatch(taken, answered)
  PROVE  Listed'
<1> DEFINE units == BatchOf(build)
           s == SumOf(units)
           last == wallet[Len(wallet)]
           total == build.total
           soFar == Upto(build.outs, build.done)
<1>1. wallet \in Seq(0 .. TotalSupply) /\ \A i \in DOMAIN wallet : wallet[i] \in Int
  <2>1. wallet \in Seq(0 .. TotalSupply)
    BY DEF SupplyInv, Books
  <2>2. QED
    BY <2>1, ScriptAssumption
<1>2. build.stage = "submitting" /\ FundedBy(build, wallet) /\ ListedBy(build, wallet)
  BY DEF SupplyInv, Funded, Listed, SubmitBatch
<1>3. /\ build.done < Len(build.outs) /\ build.outs \in Seq(Nat \ {0}) /\ build.done \in Nat
      /\ wallet # <<>> /\ DOMAIN build = BuildFields
  BY <1>2 DEF FundedBy, Busy, Prepares
<1>4. s \in Nat /\ soFar \in Nat /\ total \in Nat /\ soFar + s <= total /\ soFar <= total
  <2>1. total = Upto(build.outs, Len(build.outs))
    BY <1>2 DEF ListedBy
  <2>2. s \in Nat
    BY <1>3, NextBatchSums
  <2>3. QED
    BY <1>3, <2>1, <2>2, WithinTotal
<1>5. build.submit => build.start \in Int /\ build.start - last = soFar
  BY <1>2 DEF ListedBy, Prepares, Given
<1>6. last \in Int
  <2>1. Len(wallet) \in DOMAIN wallet
    BY <1>1, <1>3
  <2>2. QED
    BY <1>1, <2>1
<1> DEFINE st == IF taken /\ answered THEN "listing" ELSE "aborted"
<1>7. build' = [build EXCEPT !.stage = st]
  <2>1. CASE taken /\ answered
    BY <2>1 DEF SubmitBatch
  <2>2. CASE ~ (taken /\ answered)
    BY <2>2 DEF SubmitBatch, Abort
  <2>3. QED
    BY <2>1, <2>2
<1>8. st \in {"listing", "aborted"} /\ (st = "listing" => taken)
  OBVIOUS
<1> HIDE DEF st
<1>9. /\ build'.outs = build.outs /\ build'.done = build.done /\ build'.total = build.total
      /\ build'.start = build.start /\ build'.submit = build.submit /\ build'.stage = st
  BY <1>3, <1>7 DEF BuildFields
<1>10. SumOf(BatchOf(build')) = s /\ total = Upto(build.outs, Len(build.outs))
  <2>1. BatchOf(build') = units
    BY <1>9, Zenon DEF BatchOf
  <2>2. total = Upto(build.outs, Len(build.outs))
    BY <1>2 DEF ListedBy
  <2>3. QED
    BY <2>1, <2>2, Zenon
<1>11. ASSUME build.submit
       PROVE  \/ taken /\ Given(build', wallet') = soFar + s
              \/ ~ taken /\ Given(build', wallet') = soFar
  <2>1. CASE taken
    <3> DEFINE rest == last - s
    <3>1. wallet' = Append(wallet, rest)
      BY <2>1 DEF SubmitBatch
    <3> HIDE DEF rest
    <3>2. wallet'[Len(wallet')] = rest
      BY <1>1, <3>1
    <3>3. Given(build', wallet') = build.start - rest
      BY <1>9, <3>2, Zenon DEF Given
    <3>4. QED
      BY <1>4, <1>5, <1>6, <1>11, <2>1, <3>3 DEF rest
  <2>2. CASE ~ taken
    <3>1. wallet' = wallet
      BY <2>2, Zenon DEF SubmitBatch, ledgerVars
    <3>2. Given(build', wallet') = build.start - last
      BY <1>9, <3>1, Zenon DEF Given
    <3>3. QED
      BY <1>5, <1>11, <2>2, <3>2
  <2>3. QED
    BY <2>1, <2>2
<1> HIDE DEF s, soFar, total, last, units
<1>12. soFar = Upto(build.outs, build.done) /\ total = build.total
  BY DEF soFar, total
<1>13. ListedBy(build', wallet')
  <2>1. build'.total = Upto(build'.outs, Len(build'.outs))
    BY <1>9, <1>10, <1>12
  <2>2. ASSUME build'.submit
        PROVE  /\ build'.start \in Int
               /\ build'.stage = "listing" =>
                     Given(build', wallet') = Upto(build'.outs, build'.done) + SumOf(BatchOf(build'))
               /\ build'.stage = "aborted" => Given(build', wallet') <= build'.total
    <3>1. build'.start \in Int
      BY <1>5, <1>9, <2>2
    <3>2. \/ taken /\ Given(build', wallet') = soFar + s
          \/ ~ taken /\ Given(build', wallet') = soFar
      BY <1>9, <1>11, <2>2
    <3>3. build'.stage = "listing" =>
                     Given(build', wallet') = Upto(build'.outs, build'.done) + SumOf(BatchOf(build'))
      BY <1>8, <1>9, <1>10, <1>12, <3>2
    <3>4. Given(build', wallet') <= build'.total
      BY <1>4, <1>9, <1>12, <3>2
    <3>5. QED
      BY <3>1, <3>3, <3>4
  <2>3. QED
    BY <1>8, <1>9, <2>1, <2>2 DEF ListedBy, Busy, Prepares
<1>14. QED
  BY <1>13 DEF Listed

\* Nothing but the builder takes from the wallet while it is at work.
LEMMA ListedStep ==
  ASSUME SupplyInv, Listed, [Next]_vars
  PROVE  Listed'
<1>1. UNCHANGED build /\ UNCHANGED wallet => Listed'
  <2>1. UNCHANGED build /\ UNCHANGED wallet => (ListedBy(build, wallet) => ListedBy(build', wallet'))
    BY Zenon
  <2>2. QED
    BY <2>1, Zenon DEF Listed
<1>2. UNCHANGED build /\ build.stage = "idle" => Listed'
  BY DEF Listed
<1>3. Minting => build.stage = "idle"
  <2>1. ~ (Building /\ Minting)
    BY Zenon DEF Building, Minting
  <2>2. QED
    BY <2>1 DEF SupplyInv, Funded
<1>4. UNCHANGED ledgerVars => UNCHANGED wallet
  BY Zenon DEF ledgerVars
<1>5. \A tx, a : Lands(tx, a) => UNCHANGED wallet
  BY Zenon DEF Lands
<1>6. Outside => UNCHANGED wallet
  BY <1>5, Zenon DEF Outside, Served, Gift, Burn, Tick
<1>7. DriverNext => UNCHANGED wallet
  <2>1. DriverNext => UNCHANGED ledgerVars \/ Lands(SurrenderTx, "paid")
    BY Zenon DEF DriverNext, StartBatch, Select, BuildSurrender, PreflightSurrender,
       SubmitSurrender, Count
  <2>2. QED
    BY <1>4, <1>5, <2>1, Zenon
<1>8. ReclaimNext => UNCHANGED wallet
  <2>1. ReclaimNext => UNCHANGED ledgerVars \/ Lands(ReclaimTx, "returned")
    BY Zenon DEF ReclaimNext, StartReclaim, BuildReclaim, SignFirst, AssembleReclaim, SignSecond,
       SubmitReclaim
  <2>2. QED
    BY <1>4, <1>5, <2>1, Zenon
<1>9. Building /\ BuilderNext => Listed'
  <2>1. ASSUME Building, NEW t, NEW a, SubmitBatch(t, a) PROVE Listed'
    BY <2>1, ListedSubmits
  <2>2. BuilderNext =>
           \/ \/ \E o \in Orders, s, p \in BOOLEAN : StartBuild(o.total, o.outputs, s, p)
              \/ \E v \in DOMAIN wallet : BuildBatch(v)
              \/ \E ok \in BOOLEAN : PreflightBatch(ok)
              \/ ListBatch
           \/ \E t, a \in BOOLEAN : SubmitBatch(t, a)
    BY Zenon DEF BuilderNext
  <2>3. QED
    BY <2>1, <2>2, ListedPrepares
<1>10. QED
  BY <1>1, <1>2, <1>3, <1>4, <1>6, <1>7, <1>8, <1>9, StepKinds, Zenon

\* A manifest tells what happened: the wallet has given exactly what was asked
\* for once it is written, and never more, whatever was refused, lost or built
\* on a stale view of the wallet (build_surrender_pool).
THEOREM ManifestAlwaysTells == Spec => []ManifestTells
<1>1. Init => Listed
  <2>1. Init => build = NoBuild
    BY Zenon DEF Init
  <2>2. QED
    BY <2>1 DEF NoBuild, Listed
<1>2. SupplyInv /\ Listed /\ [Next]_vars => Listed'
  BY ListedStep
<1>3. SupplyInv /\ Listed => ManifestTells
  <2> SUFFICES ASSUME SupplyInv, Listed, build.stage # "idle", build.submit
               PROVE  /\ Given(build, wallet) <= build.total
                      /\ build.stage = "manifest" => Given(build, wallet) = build.total
    BY DEF ManifestTells, Given
  <2>1. FundedBy(build, wallet) /\ ListedBy(build, wallet)
    BY DEF SupplyInv, Funded, Listed
  <2>2. /\ build.outs \in Seq(Nat \ {0}) /\ build.done \in Nat /\ build.done <= Len(build.outs)
        /\ build.stage \in Busy => build.done < Len(build.outs)
    BY <2>1 DEF FundedBy
  <2>3. /\ Upto(build.outs, build.done) \in Nat /\ Upto(build.outs, Len(build.outs)) \in Nat
        /\ Upto(build.outs, build.done) <= Upto(build.outs, Len(build.outs))
        /\ build.done < Len(build.outs) =>
             Upto(build.outs, build.done) + SumOf(BatchOf(build)) <= Upto(build.outs, Len(build.outs))
    BY <2>2, WithinTotal
  <2>4. build.total = Upto(build.outs, Len(build.outs))
    BY <2>1 DEF ListedBy
  <2>5. build.stage \in Busy \cup {"manifest", "aborted"}
    BY <2>1 DEF ListedBy
  <2>6. QED
    BY <2>1, <2>2, <2>3, <2>4, <2>5 DEF ListedBy, Busy, Prepares
<1>4. QED
  BY <1>1, <1>2, <1>3, SupplyHolds, PTL DEF Spec

-----------------------------------------------------------------------------
(* The driver's report                                                     *)

Marked(results, s) == {k \in DOMAIN results : results[k] \in s}

\* What one more result adds to the worth of those that ended in some way.
LEMMA WorthAppends ==
  ASSUME NEW results \in Seq(Ends), Len(results) < Len(Requests), NEW status, NEW s
  PROVE  /\ Worth(Marked(results, s)) \in Nat
         /\ Requests[Len(results) + 1] \in Nat
         /\ status \in s => Worth(Marked(Append(results, status), s))
                              = Worth(Marked(results, s)) + Requests[Len(results) + 1]
         /\ status \notin s => Worth(Marked(Append(results, status), s)) = Worth(Marked(results, s))
<1> DEFINE n == Len(results)
           A == Marked(results, s)
           more == Append(results, status)
           B == Marked(more, s)
<1>1. /\ n \in Nat /\ DOMAIN results = 1 .. n /\ DOMAIN more = 1 .. n + 1
      /\ more[n + 1] = status /\ \A k \in 1 .. n : more[k] = results[k]
  OBVIOUS
<1>2. \A k \in 1 .. n + 1 : Requests[k] \in Nat
  BY <1>1, RequestTypes
<1>3. A \subseteq 1 .. n /\ n + 1 \notin A /\ n + 1 \in 1 .. n + 1
  BY <1>1 DEF Marked
<1>4. B = A \cup (IF status \in s THEN {n + 1} ELSE {})
  <2>1. ASSUME NEW k
        PROVE  k \in B <=> k \in A \/ (k = n + 1 /\ status \in s)
    <3>1. CASE k \in 1 .. n
      BY <1>1, <3>1 DEF Marked
    <3>2. CASE k = n + 1
      BY <1>1, <1>3, <3>2 DEF Marked
    <3>3. CASE k \notin 1 .. n + 1
      BY <1>1, <1>3, <3>3 DEF Marked
    <3>4. QED
      BY <1>1, <3>1, <3>2, <3>3
  <2> HIDE DEF A, B
  <2>2. QED
    BY <2>1
<1>5. IsFiniteSet(A)
  <2>1. IsFiniteSet(1 .. n)
    BY <1>1, FS_Interval
  <2>2. QED
    BY <1>3, <2>1, FS_Subset
<1>6. ASSUME NEW ks \in SUBSET (1 .. n + 1)
      PROVE  Worth(ks) = SumFunctionOnSet(Requests, ks)
  <2> DEFINE f == [k \in ks |-> Requests[k]]
  <2>1. DOMAIN f = ks /\ \A k \in ks : Requests[k] \in Int /\ f[k] = Requests[k]
    BY <1>2
  <2>2. Worth(ks) = SumFunctionOnSet(f, ks)
    BY DEF Worth, SumFunction
  <2>3. IsFiniteSet(ks)
    <3>1. IsFiniteSet(1 .. n + 1)
      BY <1>1, FS_Interval
    <3>2. QED
      BY <3>1, FS_Subset
  <2> HIDE DEF f
  <2>4. QED
    BY <2>1, <2>2, <2>3, SumAgree
<1> HIDE DEF A, B, more
<1>7. Worth(A) = SumFunctionOnSet(Requests, A) /\ A \in SUBSET (1 .. n + 1)
  <2>1. A \in SUBSET (1 .. n + 1)
    BY <1>1, <1>3
  <2>2. QED
    BY <1>6, <2>1
<1>8. Worth(A) \in Nat
  <2>1. \A k \in A : Requests[k] \in Nat
    BY <1>2, <1>7
  <2>2. QED
    BY <1>5, <1>7, <2>1, SumNat
<1>9. ASSUME status \in s
      PROVE  Worth(B) = Worth(A) + Requests[n + 1]
  <2> DEFINE m == n + 1
  <2>1. B = A \cup {m} /\ B \in SUBSET (1 .. n + 1)
    BY <1>3, <1>4, <1>7, <1>9
  <2>2. Worth(B) = SumFunctionOnSet(Requests, B)
    BY <1>6, <2>1
  <2>3. m \notin A /\ \A k \in A \cup {m} : Requests[k] \in Int
    BY <1>2, <1>3, <1>7
  <2> HIDE DEF m
  <2>4. SumFunctionOnSet(Requests, A \cup {m}) = Requests[m] + SumFunctionOnSet(Requests, A)
    BY <1>5, <2>3, SumAdd
  <2>5. SumFunctionOnSet(Requests, B) = SumFunctionOnSet(Requests, A \cup {m})
    BY <2>1, Zenon
  <2>6. Requests[m] \in Nat
    BY <1>2, <1>3 DEF m
  <2>7. QED
    BY <1>7, <1>8, <2>2, <2>4, <2>5, <2>6 DEF m
<1>10. ASSUME status \notin s
       PROVE  Worth(B) = Worth(A)
  <2>1. B = A
    BY <1>4, <1>10
  <2>2. QED
    BY <2>1, Zenon
<1>11. QED
  BY <1>2, <1>3, <1>8, <1>9, <1>10 DEF A, B, more

PaidSince(b, h) == h.paid - b.start

\* What the admins have paid and what the driver counts, stage by stage: an
\* answer that is lost leaves a payment uncounted, and nothing else does.
CountedBy(b, h) ==
  /\ b.start \in Int /\ b.total \in Int
  /\ b.total = Worth(Marked(b.results, {"submitted"}))
  /\ b.stage # "counting" =>
        /\ b.total <= PaidSince(b, h)
        /\ PaidSince(b, h) <= b.total + Worth(Marked(b.results, {"submit_failed"}))
  /\ b.stage = "counting" =>
        /\ b.total + Requests[Len(b.results) + 1] <= PaidSince(b, h)
        /\ PaidSince(b, h) <= b.total + Requests[Len(b.results) + 1]
                           + Worth(Marked(b.results, {"submit_failed"}))

Counted == batch.stage # "idle" /\ batch.submit => CountedBy(batch, held)

\* A request that ends without a payment, or with one that is not answered.
LEMMA CountedResult ==
  ASSUME batch.submit, DOMAIN batch = BatchFields, batch.results \in Seq(Ends),
         Len(batch.results) < Len(Requests), CountedBy(batch, held), batch.stage # "counting",
         held.paid \in Int, held'.paid \in Int, NEW status \in Ends \ {"submitted"},
         batch' = Result(batch, status),
         \/ held'.paid = held.paid
         \/ held'.paid = held.paid + Asked /\ status = "submit_failed"
  PROVE  CountedBy(batch', held')
<1>1. /\ batch'.total = batch.total /\ batch'.start = batch.start
      /\ batch'.results = Append(batch.results, status)
      /\ batch'.stage \in {"report", "selecting"}
  <2> DEFINE c == Result(batch, status)
  <2>1. /\ c.total = batch.total /\ c.start = batch.start
        /\ c.results = Append(batch.results, status)
        /\ c.stage \in {"report", "selecting"}
    BY ResultFacts
  <2>2. batch' = c
    OBVIOUS
  <2> HIDE DEF c
  <2>3. QED
    BY <2>1, <2>2
<1>2. /\ batch.start \in Int /\ batch.total \in Int
      /\ batch.total = Worth(Marked(batch.results, {"submitted"}))
      /\ batch.total <= held.paid - batch.start
      /\ held.paid - batch.start <= batch.total + Worth(Marked(batch.results, {"submit_failed"}))
  BY DEF CountedBy, PaidSince
<1>3. /\ Asked \in Nat
      /\ Worth(Marked(batch.results, {"submit_failed"})) \in Nat
      /\ status = "submit_failed" => Worth(Marked(batch'.results, {"submit_failed"}))
                                       = Worth(Marked(batch.results, {"submit_failed"})) + Asked
      /\ status # "submit_failed" => Worth(Marked(batch'.results, {"submit_failed"}))
                                       = Worth(Marked(batch.results, {"submit_failed"}))
  <2> DEFINE s == {"submit_failed"}
  <2>1. status = "submit_failed" <=> status \in s
    OBVIOUS
  <2> HIDE DEF s
  <2>2. /\ Worth(Marked(batch.results, s)) \in Nat
        /\ Requests[Len(batch.results) + 1] \in Nat
        /\ status \in s => Worth(Marked(Append(batch.results, status), s))
                              = Worth(Marked(batch.results, s)) + Requests[Len(batch.results) + 1]
        /\ status \notin s => Worth(Marked(Append(batch.results, status), s))
                                = Worth(Marked(batch.results, s))
    BY WorthAppends
  <2>3. Worth(Marked(batch'.results, s)) = Worth(Marked(Append(batch.results, status), s))
    BY <1>1, Zenon
  <2>4. QED
    BY <2>1, <2>2, <2>3 DEF s, Asked
<1>4. Worth(Marked(batch'.results, {"submitted"})) = Worth(Marked(batch.results, {"submitted"}))
  <2> DEFINE s == {"submitted"}
  <2>1. status \notin s
    OBVIOUS
  <2> HIDE DEF s
  <2>2. Worth(Marked(Append(batch.results, status), s)) = Worth(Marked(batch.results, s))
    BY <2>1, WorthAppends
  <2>3. Worth(Marked(batch'.results, s)) = Worth(Marked(Append(batch.results, status), s))
    BY <1>1, Zenon
  <2>4. QED
    BY <2>2, <2>3 DEF s
<1>5. PaidSince(batch', held') = held'.paid - batch.start
  BY <1>1 DEF PaidSince
<1>6. /\ batch.total <= held'.paid - batch.start
      /\ held'.paid - batch.start <= batch.total + Worth(Marked(batch'.results, {"submit_failed"}))
  BY <1>2, <1>3, SMTT(30)
<1>7. QED
  BY <1>1, <1>2, <1>4, <1>5, <1>6 DEF CountedBy

\* Steps that change neither the count nor the payments.
LEMMA CountedStage ==
  ASSUME batch.submit, DOMAIN batch = BatchFields, CountedBy(batch, held),
         batch.stage # "counting", held'.paid = held.paid,
         NEW at, NEW st, st # "counting", batch' = [batch EXCEPT !.at = at, !.stage = st]
  PROVE  CountedBy(batch', held')
<1>1. /\ batch'.total = batch.total /\ batch'.start = batch.start
      /\ batch'.results = batch.results /\ batch'.stage = st
  BY DEF BatchFields
<1>2. PaidSince(batch', held') = PaidSince(batch, held)
  BY <1>1 DEF PaidSince
<1>3. QED
  BY <1>1, <1>2 DEF CountedBy

\* What the driver's transaction changes when it lands.
LEMMA DriverLands ==
  ASSUME SupplyInv, Serving, batch.stage = "submitting", Lands(SurrenderTx, "paid")
  PROVE  held'.paid = held.paid + Asked
<1>1. Stock /\ held \in [Accounts -> Nat] /\ Takes(SurrenderTx) /\ "paid" \in Accounts
  BY DEF SupplyInv, Books, Lands, Accounts
<1>2. /\ Asked \in Nat /\ IsPoolList(SurrenderTx.back)
      /\ SumFunction(SurrenderTx.claims) \in Nat
      /\ UnitsOf(SurrenderTx.back) = SumFunction(SurrenderTx.claims) - Asked
      /\ UnitsOf(SurrenderTx.back) <= SumFunction(SurrenderTx.claims)
  BY <1>1, DriverPays
<1>3. held'["paid"] = held["paid"] + SumFunction(SurrenderTx.claims) - UnitsOf(SurrenderTx.back)
  BY <1>1, <1>2, LandingBalances
<1>4. held["paid"] \in Nat
  BY <1>1
<1>5. held'["paid"] = held["paid"] + Asked
  BY <1>2, <1>3, <1>4
<1>6. QED
  BY <1>5

LEMMA CountedDrives ==
  ASSUME SupplyInv, Serving, Counted, held'.paid \in Int, DriverNext
  PROVE  Counted'
<1> SUFFICES ASSUME batch'.submit PROVE CountedBy(batch', held')
  BY DEF Counted
<1>1. held.paid \in Int
  <2>1. held \in [Accounts -> Nat] /\ "paid" \in Accounts
    BY DEF SupplyInv, Books, Accounts
  <2>2. held["paid"] \in Nat
    BY <2>1
  <2>3. QED
    BY <2>2
<1>2. UNCHANGED ledgerVars => held'.paid = held.paid
  <2>1. UNCHANGED ledgerVars => UNCHANGED held
    BY Zenon DEF ledgerVars
  <2>2. QED
    BY <2>1
<1>3. ASSUME batch.stage # "idle", batch.stage # "report"
      PROVE  /\ DOMAIN batch = BatchFields /\ batch.results \in Seq(Ends)
             /\ Len(batch.results) < Len(Requests)
  BY <1>3 DEF Serving
<1>4. ASSUME NEW s, NEW p, StartBatch(s, p) PROVE CountedBy(batch', held')
  <2>1. /\ batch'.total = 0 /\ batch'.start = held.paid /\ batch'.results = <<>>
        /\ batch'.stage = "selecting"
    BY <1>4 DEF StartBatch, NoBatch
  <2>2. held'.paid = held.paid
    BY <1>2, <1>4 DEF StartBatch
  <2>3. ASSUME NEW s2 PROVE Worth(Marked(batch'.results, s2)) = 0
    <3> DEFINE ks == Marked(batch'.results, s2)
               f == [k \in ks |-> Requests[k]]
    <3>1. ks = {}
      BY <2>1 DEF Marked
    <3>2. DOMAIN f = ks /\ Worth(ks) = SumFunctionOnSet(f, ks)
      BY DEF Worth, SumFunction
    <3> HIDE DEF f
    <3>3. Worth(ks) = SumFunctionOnSet(f, {})
      BY <3>1, <3>2, Zenon
    <3>4. QED
      BY <3>3, SumEmpty
  <2>4. PaidSince(batch', held') = 0
    BY <1>1, <2>1, <2>2 DEF PaidSince
  <2>5. QED
    BY <1>1, <2>1, <2>3, <2>4 DEF CountedBy
<1>5. ASSUME NEW status \in Ends, Len(batch.results) < Len(Requests),
             DOMAIN batch = BatchFields, batch.results \in Seq(Ends),
             batch' = Result(batch, status)
      PROVE  batch.submit
  <2> DEFINE c == Result(batch, status)
  <2>1. c.submit = batch.submit /\ batch' = c
    BY <1>5, ResultFacts
  <2> HIDE DEF c
  <2>2. QED
    BY <2>1
<1>6. ASSUME NEW status \in Ends \ {"submitted"}, batch' = Result(batch, status),
             batch.stage \notin {"idle", "report", "counting"},
             \/ held'.paid = held.paid
             \/ held'.paid = held.paid + Asked /\ status = "submit_failed"
      PROVE  CountedBy(batch', held')
  <2>1. /\ DOMAIN batch = BatchFields /\ batch.results \in Seq(Ends)
        /\ Len(batch.results) < Len(Requests)
    BY <1>3, <1>6
  <2>2. batch.submit
    BY <1>5, <1>6, <2>1
  <2>3. CountedBy(batch, held)
    BY <1>6, <2>2 DEF Counted
  <2>4. QED
    BY <1>1, <1>6, <2>1, <2>2, <2>3, CountedResult
<1>7. ASSUME NEW at, NEW st, st # "counting", batch' = [batch EXCEPT !.at = at, !.stage = st],
             batch.stage \notin {"idle", "report", "counting"}, held'.paid = held.paid
      PROVE  CountedBy(batch', held')
  <2>1. DOMAIN batch = BatchFields /\ batch.submit
    BY <1>3, <1>7 DEF BatchFields
  <2>2. CountedBy(batch, held)
    BY <1>7, <2>1 DEF Counted
  <2>3. QED
    BY <1>7, <2>1, <2>2, CountedStage
<1>8. ASSUME NEW st, st # "counting", batch' = [batch EXCEPT !.stage = st],
             batch.stage \notin {"idle", "report", "counting"}, held'.paid = held.paid
      PROVE  CountedBy(batch', held')
  <2> DEFINE at == batch.at
  <2>1. batch' = [batch EXCEPT !.at = at, !.stage = st]
    BY <1>3, <1>8 DEF BatchFields
  <2> HIDE DEF at
  <2>2. QED
    BY <1>7, <1>8, <2>1
<1>9. "error" \in Ends \ {"submitted"} /\ "preflight_failed" \in Ends \ {"submitted"}
      /\ "submit_failed" \in Ends \ {"submitted"} /\ "submitted" \in Ends
  BY DEF Ends
<1>10. ASSUME Select PROVE CountedBy(batch', held')
  <2>1. batch.stage = "selecting" /\ held'.paid = held.paid
    BY <1>2, <1>10 DEF Select
  <2>2. CASE Asked = 0 \/ Enough = {}
    <3>1. batch' = Result(batch, "error")
      BY <1>10, <2>2 DEF Select
    <3>2. QED
      BY <1>6, <1>9, <2>1, <3>1
  <2>3. CASE ~ (Asked = 0 \/ Enough = {})
    <3> DEFINE k == CHOOSE k \in Enough : \A j \in Enough : k <= j
    <3>1. batch' = [batch EXCEPT !.at = k, !.stage = "building"]
      BY <1>10, <2>3, Zenon DEF Select
    <3> HIDE DEF k
    <3>2. QED
      BY <1>7, <2>1, <3>1
  <2>4. QED
    BY <2>2, <2>3
<1>11. ASSUME NEW ok, BuildSurrender(ok) PROVE CountedBy(batch', held')
  <2>1. batch.stage = "building" /\ held'.paid = held.paid
    BY <1>2, <1>11 DEF BuildSurrender
  <2>2. CASE ok
    <3> DEFINE st == AfterBuild
    <3>1. batch' = [batch EXCEPT !.stage = st]
      BY <1>11, <2>2 DEF BuildSurrender
    <3>2. batch'.submit = batch.submit
      BY <1>3, <2>1, <3>1 DEF BatchFields
    <3>3. st # "counting"
      BY <3>2 DEF AfterBuild
    <3> HIDE DEF st
    <3>4. QED
      BY <1>8, <2>1, <3>1, <3>3
  <2>3. CASE ~ ok
    <3>1. batch' = Result(batch, "error")
      BY <1>11, <2>3 DEF BuildSurrender
    <3>2. QED
      BY <1>6, <1>9, <2>1, <3>1
  <2>4. QED
    BY <2>2, <2>3
<1>12. ASSUME NEW ok, PreflightSurrender(ok) PROVE CountedBy(batch', held')
  <2>1. batch.stage = "preflight" /\ held'.paid = held.paid
    BY <1>2, <1>12 DEF PreflightSurrender
  <2>2. CASE ok
    <3> DEFINE st == IF batch.submit THEN "submitting" ELSE "counting"
    <3>1. batch' = [batch EXCEPT !.stage = st]
      BY <1>12, <2>2 DEF PreflightSurrender
    <3>2. batch'.submit = batch.submit
      BY <1>3, <2>1, <3>1 DEF BatchFields
    <3>3. st # "counting"
      BY <3>2
    <3> HIDE DEF st
    <3>4. QED
      BY <1>8, <2>1, <3>1, <3>3
  <2>3. CASE ~ ok
    <3>1. batch' = Result(batch, "preflight_failed")
      BY <1>12, <2>3 DEF PreflightSurrender
    <3>2. QED
      BY <1>6, <1>9, <2>1, <3>1
  <2>4. QED
    BY <2>2, <2>3
<1>13. ASSUME NEW t, NEW a, SubmitSurrender(t, a) PROVE CountedBy(batch', held')
  <2>1. batch.stage = "submitting"
    BY <1>13 DEF SubmitSurrender
  <2>2. /\ t => held'.paid = held.paid + Asked
        /\ ~ t => held'.paid = held.paid
    <3>1. t => Lands(SurrenderTx, "paid")
      BY <1>13 DEF SubmitSurrender
    <3>2. ~ t => UNCHANGED ledgerVars
      BY <1>13 DEF SubmitSurrender
    <3>3. QED
      BY <1>2, <2>1, <3>1, <3>2, DriverLands
  <2>3. CASE t /\ a
    <3>1. batch' = [batch EXCEPT !.stage = "counting"]
      BY <1>13, <2>3 DEF SubmitSurrender
    <3>2. DOMAIN batch = BatchFields
      BY <1>3, <2>1
    <3>3. /\ batch'.total = batch.total /\ batch'.start = batch.start
          /\ batch'.results = batch.results /\ batch'.stage = "counting" /\ batch.submit
      BY <3>1, <3>2 DEF BatchFields
    <3>4. CountedBy(batch, held)
      BY <2>1, <3>3 DEF Counted
    <3>5. Asked = Requests[Len(batch.results) + 1] /\ Asked \in Nat
      BY <1>3, <2>1, AskedType
    <3>6. /\ batch.total <= held.paid - batch.start
          /\ held.paid - batch.start <= batch.total + Worth(Marked(batch.results, {"submit_failed"}))
          /\ batch.start \in Int /\ batch.total \in Int
          /\ batch.total = Worth(Marked(batch.results, {"submitted"}))
      BY <2>1, <3>4 DEF CountedBy, PaidSince
    <3>7. PaidSince(batch', held') = (held.paid + Asked) - batch.start
      <4> DEFINE sum == held.paid + Asked
                 start == batch.start
      <4>1. held'.paid = sum /\ batch'.start = start
        BY <2>2, <2>3, <3>3
      <4> HIDE DEF sum, start
      <4>2. PaidSince(batch', held') = sum - start
        BY <4>1 DEF PaidSince
      <4>3. QED
        BY <4>2 DEF sum, start
    <3>8. Worth(Marked(batch.results, {"submit_failed"})) \in Int
      <4> DEFINE s == {"submit_failed"}
      <4>1. batch.results \in Seq(Ends) /\ Len(batch.results) < Len(Requests)
        BY <1>3, <2>1
      <4> HIDE DEF s
      <4>2. Worth(Marked(batch.results, s)) \in Nat
        BY <4>1, WorthAppends
      <4>3. QED
        BY <4>2 DEF s
    <3>9. /\ batch.total + Asked <= PaidSince(batch', held')
          /\ PaidSince(batch', held') <= batch.total + Asked + Worth(Marked(batch.results, {"submit_failed"}))
      BY <1>1, <3>5, <3>6, <3>7, <3>8, SMTT(30)
    <3>10. QED
      BY <3>3, <3>5, <3>6, <3>9 DEF CountedBy
  <2>4. CASE ~ (t /\ a)
    <3>1. batch' = Result(batch, "submit_failed")
      BY <1>13, <2>4 DEF SubmitSurrender
    <3>2. QED
      BY <1>6, <1>9, <2>1, <2>2, <3>1
  <2>5. QED
    BY <2>3, <2>4
<1>14. ASSUME Count PROVE CountedBy(batch', held')
  <2>1. batch.stage = "counting" /\ held'.paid = held.paid
    BY <1>2, <1>14 DEF Count
  <2>2. PICK b : /\ b = [batch EXCEPT !.pools[batch.at].units = @ - Asked, !.total = @ + Asked]
                 /\ batch' = Result(b, IF batch.submit THEN "submitted" ELSE "built")
    BY <1>14, Zenon DEF Count
  <2>3. /\ DOMAIN b = BatchFields /\ b.results = batch.results /\ b.start = batch.start
        /\ b.total = batch.total + Asked /\ b.submit = batch.submit
        /\ batch.results \in Seq(Ends) /\ Len(batch.results) < Len(Requests)
    BY <1>3, <2>1, <2>2 DEF BatchFields
  <2> DEFINE st == IF batch.submit THEN "submitted" ELSE "built"
             c == Result(b, st)
  <2>4. /\ c.total = b.total /\ c.start = b.start /\ c.submit = b.submit
        /\ c.results = Append(b.results, st) /\ c.stage \in {"report", "selecting"}
    <3>1. st \in Ends
      BY DEF Ends
    <3> HIDE DEF st
    <3>2. QED
      BY <2>3, <3>1, ResultFacts
  <2>5. batch' = c
    BY <2>2
  <2> HIDE DEF c
  <2>6. batch.submit /\ st = "submitted"
    BY <2>3, <2>4, <2>5
  <2> HIDE DEF st
  <2>7. /\ batch'.total = batch.total + Asked /\ batch'.start = batch.start
        /\ batch'.results = Append(batch.results, "submitted")
        /\ batch'.stage \in {"report", "selecting"}
    BY <2>3, <2>4, <2>5, <2>6
  <2>8. CountedBy(batch, held)
    BY <2>1, <2>6 DEF Counted
  <2>9. Asked = Requests[Len(batch.results) + 1] /\ Asked \in Nat
    BY <2>3, AskedType
  <2>10. /\ Worth(Marked(batch'.results, {"submitted"}))
              = Worth(Marked(batch.results, {"submitted"})) + Asked
         /\ Worth(Marked(batch'.results, {"submit_failed"}))
              = Worth(Marked(batch.results, {"submit_failed"}))
    <3> DEFINE more == Append(batch.results, "submitted")
    <3>1. Worth(Marked(more, {"submitted"})) = Worth(Marked(batch.results, {"submitted"})) + Asked
      BY <2>3, <2>9, WorthAppends, SMTT(30)
    <3>2. Worth(Marked(more, {"submit_failed"})) = Worth(Marked(batch.results, {"submit_failed"}))
      <4> DEFINE x == "submitted"
                 s == {"submit_failed"}
      <4>1. x \notin s
        OBVIOUS
      <4> HIDE DEF x, s
      <4>2. Worth(Marked(Append(batch.results, x), s)) = Worth(Marked(batch.results, s))
        BY <2>3, <4>1, WorthAppends
      <4>3. QED
        BY <4>2 DEF x, s
    <3>3. batch'.results = more
      BY <2>7
    <3> HIDE DEF more
    <3>4. QED
      BY <3>1, <3>2, <3>3, Zenon
  <2>11. PaidSince(batch', held') = PaidSince(batch, held)
    BY <2>1, <2>7 DEF PaidSince
  <2>12. QED
    BY <2>1, <2>7, <2>8, <2>9, <2>10, <2>11 DEF CountedBy
<1>15. QED
  BY <1>4, <1>10, <1>11, <1>12, <1>13, <1>14, Zenon DEF DriverNext

\* Nobody but the driver pays.
LEMMA PaidStays ==
  ASSUME SupplyInv, [Next]_vars
  PROVE  (~ Minting /\ DriverNext) \/ held'.paid = held.paid
<1>1. held \in [Accounts -> Nat]
  BY DEF SupplyInv, Books
<1>2. /\ "paid" \in Accounts \ {"users"} /\ "paid" \in Accounts \ {"returned"}
      /\ "users" \in Accounts /\ "returned" \in Accounts /\ "burned" \in Accounts
  BY DEF Accounts
<1>3. UNCHANGED held => held'.paid = held.paid
  OBVIOUS
<1>4. ASSUME NEW tx, Lands(tx, "users") \/ Lands(tx, "returned")
      PROVE  held'.paid = held.paid
  <2>1. CASE Lands(tx, "users")
    BY <1>1, <1>2, <2>1, LandingAccounts
  <2>2. CASE Lands(tx, "returned")
    BY <1>1, <1>2, <2>2, LandingAccounts
  <2>3. QED
    BY <1>4, <2>1, <2>2
<1>5. ASSUME Outside PROVE held'.paid = held.paid
  <2>1. ASSUME NEW i, NEW u, NEW until, Served(i, u, until)
        PROVE  held'.paid = held.paid
    BY <1>4, <2>1, Zenon DEF Served
  <2>2. ASSUME NEW d, Gift(d) PROVE held'.paid = held.paid
    <3>1. held' = [held EXCEPT !["users"] = held["users"] - 1]
      BY <2>2, Zenon DEF Gift
    <3>2. QED
      BY <1>1, <1>2, <3>1
  <2>3. ASSUME NEW d, Burn(d) PROVE held'.paid = held.paid
    <3>1. held' = [held EXCEPT !["users"] = held["users"] - 2, !["burned"] = held["burned"] + 1]
      BY <2>3, Zenon DEF Burn
    <3>2. QED
      BY <1>1, <1>2, <3>1
  <2>4. Tick => UNCHANGED held
    BY Zenon DEF Tick
  <2>5. QED
    BY <1>3, <1>5, <2>1, <2>2, <2>3, <2>4, Zenon DEF Outside
<1>6. UNCHANGED ledgerVars => UNCHANGED held
  BY Zenon DEF ledgerVars
<1>7. MintNext => UNCHANGED ledgerVars
  BY Zenon DEF MintNext, MintApply, MintParams, MintBuild, MintSign1, MintSign2, MintAssemble, Write
<1>8. MintSends => UNCHANGED held
  <2>1. \A units, datum, tx : Minted(units, datum, tx) => UNCHANGED held
    BY Zenon DEF Minted
  <2>2. QED
    BY <2>1, Zenon DEF MintSends, MintSubmit, MintByHand
<1>9. SweepNext => held'.paid = held.paid
  <2>1. SweepNext => UNCHANGED ledgerVars \/ SweepSubmit
    BY Zenon DEF SweepNext, SweepApply, SweepParams, SweepBuild, SweepSign1, SweepSign2,
       SweepPreflight, SweepAssemble, Write
  <2>2. SweepSubmit => held'.paid = held.paid
    BY <1>4, Zenon DEF SweepSubmit
  <2>3. QED
    BY <1>3, <1>6, <2>1, <2>2
<1>10. BuilderNext => UNCHANGED held
  <2>1. \A t, a : SubmitBatch(t, a) => UNCHANGED held
    BY <1>6, Zenon DEF SubmitBatch
  <2>2. QED
    BY <1>6, <2>1, Zenon DEF BuilderNext, StartBuild, BuildBatch, PreflightBatch, ListBatch
<1>11. ReclaimNext => held'.paid = held.paid
  <2>1. ReclaimNext => UNCHANGED ledgerVars \/ Lands(ReclaimTx, "returned")
    BY Zenon DEF ReclaimNext, StartReclaim, BuildReclaim, SignFirst, AssembleReclaim, SignSecond,
       SubmitReclaim
  <2>2. QED
    BY <1>3, <1>4, <1>6, <2>1
<1>12. QED
  BY <1>3, <1>5, <1>6, <1>7, <1>8, <1>9, <1>10, <1>11, StepKinds, Zenon

LEMMA CountedStep ==
  ASSUME SupplyInv, Serving, Counted, [Next]_vars
  PROVE  Counted'
<1>1. CASE DriverNext /\ ~ Minting
  <2>1. held' \in [Accounts -> Nat] /\ "paid" \in Accounts
    BY SupplyStep DEF SupplyInv, Books, Accounts
  <2>2. held'["paid"] \in Nat
    BY <2>1
  <2>3. held'.paid \in Int
    BY <2>2
  <2>4. QED
    BY <1>1, <2>3, CountedDrives
<1>2. CASE UNCHANGED batch /\ held'.paid = held.paid
  <2>1. PaidSince(batch', held') = PaidSince(batch, held)
    BY <1>2, Zenon DEF PaidSince
  <2>2. CountedBy(batch, held) => CountedBy(batch', held')
    BY <1>2, <2>1, Zenon DEF CountedBy
  <2>3. QED
    BY <1>2, <2>2, Zenon DEF Counted
<1>3. UNCHANGED batch \/ (DriverNext /\ ~ Minting)
  BY StepKinds, Zenon
<1>4. QED
  BY <1>1, <1>2, <1>3, PaidStays

\* The report never claims a payment that was not made, however often the
\* driver goes back to an output it has spent; and what was paid unclaimed is
\* what was submitted and got no answer (process_surrender_batch).
THEOREM ReportAlwaysPaid == Spec => []ReportedIsPaid
<1>1. Init => Counted
  <2>1. Init => batch = NoBatch
    BY Zenon DEF Init
  <2>2. QED
    BY <2>1 DEF NoBatch, Counted
<1>2. SupplyInv /\ Serving /\ Counted /\ [Next]_vars => Counted'
  BY CountedStep
<1>3. Counted => ReportedIsPaid
  BY DEF Counted, CountedBy, PaidSince, ReportedIsPaid, Statuses, Marked
<1>4. QED
  BY <1>1, <1>2, <1>3, SupplyHolds, PTL DEF Spec

-----------------------------------------------------------------------------
(* A claimant's wallet                                                     *)

\* The wallet's part of a step.
LEMMA WalletMoves ==
  ASSUME [Next]_vars
  PROVE  WalletNext \/ UNCHANGED walletVars
<1>1. CASE UNCHANGED vars
  BY <1>1, Zenon DEF vars
<1>2. CASE Next
  BY <1>2, Zenon DEF Next
<1>3. QED
  BY <1>1, <1>2

LEMMA WalletHolds == Spec => []WalletInv
<1>1. Init => WalletInv
  <2> SUFFICES ASSUME Init PROVE WalletInv
    OBVIOUS
  <2>1. WalletInit /\ coins \in Wallets
    BY DEF Init, WalletInit
  <2>2. coins \in Seq(Utxo) /\ \A c \in DOMAIN coins :
           coins[c].by = "holder" /\ coins[c].ada >= MinAda[KindsOf(coins[c].own)]
    BY <2>1, WalletAssumption
  <2>3. QED
    BY <2>1, <2>2, WalletStarts
<1>2. WalletInv /\ [Next]_vars => WalletInv'
  BY WalletMoves, WalletStep, WalletStutters
<1>3. QED
  BY <1>1, <1>2, PTL DEF Spec

\* What a chained surrender spends of the change carried forward is there
\* whenever its pool output is, unless the holder has spent it: whatever lands,
\* settles, is dropped, is given up or is seeded anew (user_pending).
THEOREM ChangeAlwaysFollows == Spec => []ChangeFollowsPool
<1>1. WalletInv => ChangeFollowsPool
  BY ChangeThere DEF WalletInv
<1>2. QED
  BY <1>1, WalletHolds, PTL

\* Two surrenders in the mempool post the same collateral only if reservations
\* were cleared with one in flight (reserved_collateral).
THEOREM CollateralAlwaysOnce == Spec => []CollateralOnce
<1>1. WalletInv => CollateralOnce
  BY DEF WalletInv, CollateralInv, CollateralOnce
<1>2. QED
  BY <1>1, WalletHolds, PTL

\* A refusal for want of ADA or collateral before the build is right for every
\* wallet and every bag of tokens: no choice of outputs could have paid, and
\* the wallet is told what it lacks (_wallet_shortfall).
THEOREM RefusalsAlwaysRight == Spec => []RefusedRightly
<1>1. WalletInv => RefusedRightly
  BY RefusalsAreRight DEF WalletInv
<1>2. QED
  BY <1>1, WalletHolds, PTL

\* A split leaves no output with more kinds of tokens than asked for, and
\* nothing later makes one (plan_defrag).
THEOREM SplitsAlwaysLean == Spec => []LeanOutputs
<1>1. WalletInv => LeanOutputs
  BY DEF WalletInv, AllFit, Fits, LeanOutputs
<1>2. QED
  BY <1>1, WalletHolds, PTL

-----------------------------------------------------------------------------
(* Types                                                                   *)

BuildStages == {"idle", "building", "preflight", "submitting", "listing", "manifest", "aborted"}

BatchStages == {"idle", "selecting", "building", "preflight", "submitting", "counting", "report"}

ReclaimStages == {"idle", "check_only", "no_action", "building", "sign-1", "sign-2",
                  "assembling", "submitting", "report", "failed"}

ReclaimFields == {"stage", "found", "batches", "at", "witnesses", "failed", "submit"}

\* A file of a ceremony tells which stages have been through.
HasFlags(f) == DOMAIN f = CeremonyFields /\ f.applied \in BOOLEAN /\ f.params \in BOOLEAN

\* The stages that the tools are in, and what no tool changes.
Staged ==
  /\ situation \in Situations /\ script \in {"pool", "other"}
  /\ gifts \in 0 .. MaxGifts
  /\ build.stage \in BuildStages
  /\ batch.stage \in BatchStages
  /\ DOMAIN reclaim = ReclaimFields /\ reclaim.stage \in ReclaimStages
  /\ HasFlags(mint) /\ HasFlags(sweep)

\* Only its own steps change a tool's state.
LEMMA ToolFiles ==
  ASSUME [Next]_vars
  PROVE  /\ UNCHANGED situation
         /\ UNCHANGED build \/ BuilderNext
         /\ UNCHANGED batch \/ DriverNext
         /\ UNCHANGED reclaim \/ ReclaimNext
         /\ UNCHANGED mint \/ MintNext
         /\ UNCHANGED sweep \/ SweepNext
<1>1. CASE UNCHANGED vars
  BY <1>1, Zenon DEF vars, ceremonyVars
<1>2. CASE Next
  <2>1. UNCHANGED ceremonyVars => UNCHANGED mint
    BY Zenon DEF ceremonyVars
  <2>2. MintSends => UNCHANGED mint
    BY <2>1, Zenon DEF MintSends, MintSubmit, MintByHand
  <2>3. SweepNext => UNCHANGED mint
    BY <2>1, Zenon DEF SweepNext, SweepApply, SweepParams, SweepPreflight, SweepBuild, SweepSign1,
       SweepSign2, SweepAssemble, SweepSubmit
  <2>4. UNCHANGED mint \/ MintNext
    BY <1>2, <2>1, <2>2, <2>3, Zenon DEF Next, ToolsIdle
  <2>5. UNCHANGED reclaim \/ ReclaimNext
    BY <1>2, Zenon DEF Next, ToolsIdle
  <2>6. UNCHANGED sweep \/ SweepNext
    BY SweepFiles
  <2>7. UNCHANGED situation
    BY <1>2, Zenon DEF Next
  <2>8. (UNCHANGED build \/ BuilderNext) /\ (UNCHANGED batch \/ DriverNext)
    BY <1>2, Zenon DEF Next, ToolsIdle
  <2>9. QED
    BY <2>4, <2>5, <2>6, <2>7, <2>8
<1>3. QED
  BY <1>1, <1>2

\* Gifts and burns are counted; the script is what the tools were given.
LEMMA GiftsCounted ==
  ASSUME [Next]_vars
  PROVE  /\ UNCHANGED script
         /\ UNCHANGED gifts \/ (gifts < MaxGifts /\ gifts' = gifts + 1)
<1> DEFINE Counts(g) == UNCHANGED script /\ (UNCHANGED gifts \/ g)
           more == gifts < MaxGifts /\ gifts' = gifts + 1
<1>1. \A tx, a : Lands(tx, a) => Counts(more)
  BY Zenon DEF Lands
<1>2. UNCHANGED ledgerVars => Counts(more)
  BY Zenon DEF ledgerVars
<1>3. \A d : Gift(d) \/ Burn(d) => Counts(more)
  BY Zenon DEF Gift, Burn
<1>4. \A u, d, tx : Minted(u, d, tx) => Counts(more)
  BY Zenon DEF Minted
<1>5. Tick => Counts(more)
  BY Zenon DEF Tick
<1>6. \A t, a : SubmitBatch(t, a) => Counts(more)
  BY <1>2, Zenon DEF SubmitBatch
<1> HIDE DEF Counts, more
<1>7. Outside => Counts(more)
  BY <1>1, <1>3, <1>5, Zenon DEF Outside, Served
<1>8. MintSends => Counts(more)
  BY <1>4, Zenon DEF MintSends, MintSubmit, MintByHand
<1>9. SweepSubmit => Counts(more)
  BY <1>1, Zenon DEF SweepSubmit
<1>10. \A a : SubmitSurrender(TRUE, a) => Counts(more)
  BY <1>1, Zenon DEF SubmitSurrender
<1>11. \A a : SubmitReclaim(TRUE, a) => Counts(more)
  BY <1>1, Zenon DEF SubmitReclaim
<1>12. Counts(more)
  BY <1>2, <1>6, <1>7, <1>8, <1>9, <1>10, <1>11, LedgerFrame, Zenon
<1>13. QED
  BY <1>12 DEF Counts, more

LEMMA BuilderStaged ==
  ASSUME BuilderNext, Funded, build.stage \in BuildStages
  PROVE  build'.stage \in BuildStages
<1>1. build.stage # "idle" => DOMAIN build = BuildFields
  BY DEF Funded, FundedBy
<1>3. build.stage # "idle" /\ Abort => build'.stage \in BuildStages
  BY <1>1 DEF Abort, BuildFields, BuildStages
<1>4. ASSUME NEW t, NEW n, NEW s, NEW p, StartBuild(t, n, s, p)
      PROVE  build'.stage \in BuildStages
  BY <1>4 DEF StartBuild, NoBuild, BuildStages
<1>5. ASSUME NEW v, BuildBatch(v)
      PROVE  build'.stage \in BuildStages
  BY <1>1, <1>3, <1>5 DEF BuildBatch, BuildFields, BuildStages
<1>6. ASSUME NEW ok, PreflightBatch(ok)
      PROVE  build'.stage \in BuildStages
  BY <1>1, <1>3, <1>6 DEF PreflightBatch, BuildFields, BuildStages
<1>7. ASSUME NEW t, NEW a, SubmitBatch(t, a)
      PROVE  build'.stage \in BuildStages
  BY <1>1, <1>3, <1>7 DEF SubmitBatch, BuildFields, BuildStages
<1>8. ListBatch => build'.stage \in BuildStages
  BY <1>1 DEF ListBatch, BuildFields, BuildStages
<1>9. QED
  BY <1>4, <1>5, <1>6, <1>7, <1>8, Zenon DEF BuilderNext

LEMMA DriverStaged ==
  ASSUME DriverNext, Serving, batch.stage \in BatchStages
  PROVE  batch'.stage \in BatchStages
<1>1. batch.stage # "idle" => DOMAIN batch = BatchFields
  BY DEF Serving
<1>2. ASSUME NEW b, NEW s, DOMAIN b = BatchFields, batch' = Result(b, s)
      PROVE  batch'.stage \in BatchStages
  <2> DEFINE st == IF Len(b.results) + 1 = Len(Requests) THEN "report" ELSE "selecting"
             rs == Append(b.results, s)
  <2>1. st \in BatchStages
    BY DEF BatchStages
  <2>2. batch' = [b EXCEPT !.results = rs, !.stage = st]
    BY <1>2, Zenon DEF Result
  <2> HIDE DEF st, rs
  <2>3. batch'.stage = st
    BY <1>2, <2>2 DEF BatchFields
  <2>4. QED
    BY <2>1, <2>3
<1>3. ASSUME NEW at, NEW st \in BatchStages, DOMAIN batch = BatchFields,
             batch' = [batch EXCEPT !.at = at, !.stage = st]
      PROVE  batch'.stage \in BatchStages
  BY <1>3 DEF BatchFields
<1>4. ASSUME NEW st \in BatchStages, DOMAIN batch = BatchFields,
             batch' = [batch EXCEPT !.stage = st]
      PROVE  batch'.stage \in BatchStages
  BY <1>4 DEF BatchFields
<1>5. {"selecting", "building", "preflight", "submitting", "counting"} \subseteq BatchStages
  BY DEF BatchStages
<1>6. ASSUME NEW s, NEW p, StartBatch(s, p)
      PROVE  batch'.stage \in BatchStages
  BY <1>6 DEF StartBatch, NoBatch, BatchStages
<1>7. Select => batch'.stage \in BatchStages
  <2>1. Select => DOMAIN batch = BatchFields
    BY <1>1 DEF Select
  <2>2. QED
    BY <1>2, <1>3, <1>5, <2>1, Zenon DEF Select
<1>8. ASSUME NEW ok, BuildSurrender(ok)
      PROVE  batch'.stage \in BatchStages
  <2>1. DOMAIN batch = BatchFields
    BY <1>1, <1>8 DEF BuildSurrender
  <2>2. AfterBuild \in BatchStages
    BY DEF AfterBuild, BatchStages
  <2>3. QED
    BY <1>2, <1>4, <1>8, <2>1, <2>2, Zenon DEF BuildSurrender
<1>9. ASSUME NEW ok, PreflightSurrender(ok)
      PROVE  batch'.stage \in BatchStages
  <2>1. DOMAIN batch = BatchFields
    BY <1>1, <1>9 DEF PreflightSurrender
  <2>2. PICK st \in BatchStages : st = IF batch.submit THEN "submitting" ELSE "counting"
    BY DEF BatchStages
  <2>3. batch' = IF ok THEN [batch EXCEPT !.stage = st] ELSE Result(batch, "preflight_failed")
    BY <1>9, <2>2, Zenon DEF PreflightSurrender
  <2>4. QED
    BY <1>2, <1>4, <2>1, <2>3
<1>10. ASSUME NEW t, NEW a, SubmitSurrender(t, a)
       PROVE  batch'.stage \in BatchStages
  <2>1. DOMAIN batch = BatchFields
    BY <1>1, <1>10 DEF SubmitSurrender
  <2>2. QED
    BY <1>2, <1>4, <1>5, <1>10, <2>1, Zenon DEF SubmitSurrender
<1>11. Count => batch'.stage \in BatchStages
  <2> SUFFICES ASSUME Count PROVE batch'.stage \in BatchStages
    OBVIOUS
  <2> DEFINE pools == [batch.pools EXCEPT ![batch.at].units = @ - Asked]
             b == [batch EXCEPT !.pools = pools, !.total = @ + Asked]
  <2>1. DOMAIN batch = BatchFields
    BY <1>1 DEF Count
  <2>2. \E s : batch' = Result(b, s)
    BY DEF Count
  <2> HIDE DEF pools
  <2>3. DOMAIN b = BatchFields
    BY <2>1
  <2> HIDE DEF b
  <2>4. QED
    BY <1>2, <2>2, <2>3
<1>12. QED
  BY <1>6, <1>7, <1>8, <1>9, <1>10, <1>11, Zenon DEF DriverNext

LEMMA ReclaimStaged ==
  ASSUME ReclaimNext, DOMAIN reclaim = ReclaimFields, reclaim.stage \in ReclaimStages
  PROVE  DOMAIN reclaim' = ReclaimFields /\ reclaim'.stage \in ReclaimStages
<1> DEFINE Good(r) == DOMAIN r = ReclaimFields /\ r.stage \in ReclaimStages
<1>1. ASSUME NEW why, Failing(why) PROVE Good(reclaim')
  BY <1>1 DEF Failing, ReclaimFields, ReclaimStages
<1>2. ASSUME NEW w, NEW st \in ReclaimStages
      PROVE  /\ Good([reclaim EXCEPT !.stage = st, !.witnesses = w])
             /\ Good([reclaim EXCEPT !.stage = st])
  BY <1>2 DEF ReclaimFields
<1>3. {"sign-1", "sign-2", "assembling", "submitting"} \subseteq ReclaimStages
  BY DEF ReclaimStages
<1>4. Good(NextBatch)
  BY DEF NextBatch, ReclaimFields, ReclaimStages
<1>5. ASSUME NEW c, NEW s, StartReclaim(c, s) PROVE Good(reclaim')
  BY <1>1, <1>5 DEF StartReclaim, ReclaimFields, ReclaimStages
<1> HIDE DEF Good
<1>6. ASSUME NEW ok, BuildReclaim(ok) PROVE Good(reclaim')
  BY <1>1, <1>2, <1>3, <1>6, ZenonT(40) DEF BuildReclaim
<1>7. ASSUME NEW ok, SignFirst(ok) PROVE Good(reclaim')
  BY <1>1, <1>2, <1>3, <1>7, ZenonT(40) DEF SignFirst
<1>8. ASSUME NEW s, SignSecond(s) PROVE Good(reclaim')
  BY <1>1, <1>2, <1>3, <1>8, ZenonT(40) DEF SignSecond
<1>9. ASSUME NEW ok, AssembleReclaim(ok) PROVE Good(reclaim')
  BY <1>1, <1>2, <1>3, <1>4, <1>9, ZenonT(40) DEF AssembleReclaim
<1>10. ASSUME NEW t, NEW a, SubmitReclaim(t, a) PROVE Good(reclaim')
  BY <1>1, <1>4, <1>10 DEF SubmitReclaim
<1>11. Good(reclaim')
  BY <1>5, <1>6, <1>7, <1>8, <1>9, <1>10, Zenon DEF ReclaimNext
<1>12. QED
  BY <1>11 DEF Good

\* A stage of a ceremony adds to a file or writes it, and keeps the flags.
LEMMA FlagsKept ==
  ASSUME NEW f, HasFlags(f)
  PROVE  /\ HasFlags(Applied(f)) /\ HasFlags(Fetched(f))
         /\ HasFlags(SignedFirst(f)) /\ HasFlags(Assembled(f))
         /\ \A ok : HasFlags(SignedSecond(f, ok))
         /\ \A v : HasFlags([f EXCEPT !.view = v]) /\ HasFlags([f EXCEPT !.raw = v])
<1>1. DOMAIN f = CeremonyFields /\ f.applied \in BOOLEAN /\ f.params \in BOOLEAN
  BY DEF HasFlags
<1>2. HasFlags(Applied(f)) /\ HasFlags(Fetched(f))
  BY <1>1 DEF HasFlags, CeremonyFields, Applied, Fetched
<1>3. \A v : /\ HasFlags([f EXCEPT !.view = v]) /\ HasFlags([f EXCEPT !.raw = v])
             /\ HasFlags([f EXCEPT !.first = v]) /\ HasFlags([f EXCEPT !.second = v])
             /\ HasFlags([f EXCEPT !.final = v])
  BY <1>1 DEF HasFlags, CeremonyFields
<1>4. QED
  BY <1>2, <1>3 DEF SignedFirst, Assembled, SignedSecond

LEMMA CeremoniesStaged ==
  ASSUME HasFlags(mint), HasFlags(sweep),
         UNCHANGED mint \/ MintNext, UNCHANGED sweep \/ SweepNext
  PROVE  HasFlags(mint') /\ HasFlags(sweep')
<1>1. MintNext => HasFlags(mint')
  <2>1. /\ HasFlags(Applied(mint)) /\ HasFlags(Fetched(mint))
        /\ HasFlags(SignedFirst(mint)) /\ HasFlags(Assembled(mint))
        /\ \A ok : HasFlags(SignedSecond(mint, ok))
        /\ \A v : HasFlags([mint EXCEPT !.raw = v])
    BY FlagsKept
  <2>2. MintApply \/ MintParams => HasFlags(mint')
    BY <2>1 DEF MintApply, MintParams
  <2>3. MintBuild \/ MintSign1 \/ MintAssemble => HasFlags(mint')
    BY <2>1 DEF MintBuild, MintSign1, MintAssemble
  <2>4. \A ok : MintSign2(ok) => HasFlags(mint')
    BY <2>1 DEF MintSign2
  <2>5. QED
    BY <2>2, <2>3, <2>4, Zenon DEF MintNext
<1>2. SweepNext => HasFlags(sweep')
  <2>1. SweepSubmit => UNCHANGED sweep
    BY Zenon DEF SweepSubmit, ceremonyVars
  <2>2. /\ HasFlags(Applied(sweep)) /\ HasFlags(Fetched(sweep))
        /\ HasFlags(SignedFirst(sweep)) /\ HasFlags(Assembled(sweep))
        /\ \A ok : HasFlags(SignedSecond(sweep, ok))
        /\ \A v : HasFlags([sweep EXCEPT !.view = v]) /\ HasFlags([sweep EXCEPT !.raw = v])
    BY FlagsKept
  <2>3. SweepApply \/ SweepParams => HasFlags(sweep')
    BY <2>2 DEF SweepApply, SweepParams
  <2>4. SweepBuild \/ SweepSign1 \/ SweepAssemble => HasFlags(sweep')
    BY <2>2 DEF SweepBuild, SweepSign1, SweepAssemble
  <2>5. \A ok : SweepPreflight(ok) \/ SweepSign2(ok) => HasFlags(sweep')
    BY <2>2 DEF SweepPreflight, SweepSign2
  <2>6. QED
    BY <2>1, <2>3, <2>4, <2>5, Zenon DEF SweepNext
<1>3. QED
  BY <1>1, <1>2

LEMMA StagedHolds == Spec => []Staged
<1>1. Init => Staged
  <2> SUFFICES ASSUME Init PROVE Staged
    OBVIOUS
  <2>1. /\ situation \in Situations /\ script \in {"pool", "other"} /\ gifts = 0
        /\ build = NoBuild /\ batch = NoBatch /\ reclaim = NoReclaim
        /\ mint = NoFiles /\ sweep = NoFiles
    <3>1. script \in (IF situation = "nothing minted" THEN {"pool"} ELSE {"pool", "other"})
      BY Zenon DEF Init
    <3>2. script \in {"pool", "other"}
      BY <3>1, Zenon
    <3>3. QED
      BY <3>2, Zenon DEF Init
  <2>2. gifts \in 0 .. MaxGifts
    BY <2>1, LedgerAssumption
  <2>3. HasFlags(NoFiles)
    BY DEF HasFlags, NoFiles, CeremonyFields
  <2>4. /\ NoBuild.stage \in BuildStages /\ NoBatch.stage \in BatchStages
        /\ DOMAIN NoReclaim = ReclaimFields /\ NoReclaim.stage \in ReclaimStages
    BY DEF NoBuild, NoBatch, NoReclaim, BuildStages, BatchStages, ReclaimStages, ReclaimFields
  <2>5. QED
    BY <2>1, <2>2, <2>3, <2>4, Zenon DEF Staged
<1>2. SupplyInv /\ Serving /\ Staged /\ [Next]_vars => Staged'
  <2> SUFFICES ASSUME SupplyInv, Serving, Staged, [Next]_vars PROVE Staged'
    OBVIOUS
  <2>1. /\ UNCHANGED situation /\ UNCHANGED script
        /\ UNCHANGED gifts \/ (gifts < MaxGifts /\ gifts' = gifts + 1)
    BY ToolFiles, GiftsCounted
  <2>2. gifts' \in 0 .. MaxGifts
    BY <2>1, LedgerAssumption DEF Staged
  <2>3. build'.stage \in BuildStages
    BY ToolFiles, BuilderStaged DEF Staged, SupplyInv
  <2>4. batch'.stage \in BatchStages
    BY ToolFiles, DriverStaged DEF Staged
  <2>5. DOMAIN reclaim' = ReclaimFields /\ reclaim'.stage \in ReclaimStages
    BY ToolFiles, ReclaimStaged DEF Staged
  <2>6. HasFlags(mint') /\ HasFlags(sweep')
    BY ToolFiles, CeremoniesStaged DEF Staged
  <2>7. QED
    BY <2>1, <2>2, <2>3, <2>4, <2>5, <2>6, Zenon DEF Staged, HasFlags
<1>3. QED
  BY <1>1, <1>2, SupplyHolds, PTL DEF Spec

\* Every variable has its type, the pool, the accounts and the balances within
\* the supply and time within its bound.
THEOREM TypesAlwaysHold == Spec => []TypeOK
<1>1. SupplyInv /\ Staged /\ OfferInv /\ WalletInv => TypeOK
  <2> SUFFICES ASSUME SupplyInv, Staged, OfferInv, WalletInv PROVE TypeOK
    OBVIOUS
  <2>1. /\ Stock /\ held \in [Accounts -> Nat] /\ wallet \in Seq(0 .. TotalSupply)
        /\ seed \in BOOLEAN
        /\ UnitsOf(pool) + InWallet + SumFunction(held) = IF seed THEN 0 ELSE TotalSupply
    BY Zenon DEF SupplyInv, Books
  <2>2. /\ UnitsOf(pool) \in Nat
        /\ \A i \in DOMAIN pool : pool[i].units \in Nat \ {0} /\ pool[i].units <= UnitsOf(pool)
    BY <2>1, PoolSums DEF Stock
  <2>3. SumFunction(held) \in Nat /\ \A a \in Accounts : held[a] <= SumFunction(held)
    BY <2>1, AccountSums
  <2>4. InWallet \in Nat
    BY <2>1, ScriptAssumption DEF InWallet
  <2>5. UnitsOf(pool) <= TotalSupply /\ SumFunction(held) <= TotalSupply
    BY <2>1, <2>2, <2>3, <2>4, ScriptAssumption
  <2>6. /\ DOMAIN pool \subseteq 1 .. born
        /\ \A i \in DOMAIN pool : pool[i].units \in 1 .. TotalSupply /\ pool[i].datum \in Datums
    <3>1. \A i \in DOMAIN pool : pool[i].units \in 1 .. TotalSupply
      BY <2>2, <2>5, ScriptAssumption
    <3>2. QED
      BY <2>1, <3>1 DEF Stock, IsPoolOutput
  <2>7. held \in [Accounts -> 0 .. TotalSupply]
    <3>1. \A a \in Accounts : held[a] \in 0 .. TotalSupply
      BY <2>1, <2>3, <2>5, ScriptAssumption
    <3>2. QED
      BY <2>1, <3>1
  <2>8. slot \in 0 .. MaxSlot /\ \A i \in DOMAIN wallet : wallet[i] \in 0 .. TotalSupply
    <3>1. wallet \in Seq(0 .. TotalSupply)
      BY <2>1
    <3>2. \A i \in DOMAIN wallet : wallet[i] \in 0 .. TotalSupply
      <4>1. ASSUME NEW S, wallet \in Seq(S)
            PROVE  \A i \in DOMAIN wallet : wallet[i] \in S
        BY <4>1
      <4>2. QED
        BY <3>1, <4>1, Zenon
    <3>3. QED
      BY <3>2 DEF OfferInv
  <2>9. /\ live \cup listed \cup reserved \cup moved \subseteq DOMAIN coins
        /\ \A c \in DOMAIN coins : coins[c].ada \in Nat
        /\ tip.at <= head.at \/ tip.at < head.next
    <3>1. Numbered
      BY DEF WalletInv
    <3>2. \A c \in DOMAIN coins : coins[c] \in Utxo
      BY <3>1 DEF Numbered
    <3>3. \A c \in DOMAIN coins : coins[c].ada \in Nat
      BY <3>2 DEF Utxo
    <3>4. QED
      BY <3>1, <3>3 DEF Numbered
  <2>10. /\ situation \in Situations /\ script \in {"pool", "other"} /\ gifts \in 0 .. MaxGifts
         /\ {mint.applied, mint.params, sweep.applied, sweep.params} \subseteq BOOLEAN
    BY DEF Staged, HasFlags
  <2>11. build.stage \in BuildStages /\ batch.stage \in BatchStages /\ reclaim.stage \in ReclaimStages
    BY DEF Staged
  <2>12. QED
    BY <2>1, <2>6, <2>7, <2>8, <2>9, <2>10, <2>11, Zenon DEF TypeOK, BuildStages, BatchStages,
       ReclaimStages
<1>2. QED
  BY <1>1, SupplyHolds, StagedHolds, OfferInvHolds, WalletHolds, PTL
-----------------------------------------------------------------------------
(* The reclaim                                                             *)

\* Numbered outputs can be counted through: the k-th has k up to it, so each
\* is met once.
LEMMA NthOne ==
  ASSUME NEW S \in SUBSET Nat, IsFiniteSet(S)
  PROVE  /\ Cardinality(S) \in Nat
         /\ \A k \in 1 .. Cardinality(S) : Nth(S, k) \in S
         /\ \A j, k \in 1 .. Cardinality(S) : Nth(S, j) = Nth(S, k) => j = k
<1> DEFINE To(i) == {j \in S : j <= i}
<1>1. Cardinality(S) \in Nat /\ \A k \in 1 .. Cardinality(S) : \E i \in S : Cardinality(To(i)) = k
  BY CountedUp
<1>2. \A k \in 1 .. Cardinality(S) : Nth(S, k) \in S /\ Cardinality(To(Nth(S, k))) = k
  BY <1>1 DEF Nth
<1>3. QED
  BY <1>1, <1>2

\* What was found: outputs there have been, each once.
Listing(f) ==
  /\ Len(f) \in Nat /\ DOMAIN f = 1 .. Len(f)
  /\ \A k \in DOMAIN f : f[k].id \in Nat /\ f[k].id <= born /\ f[k].units \in Nat
  /\ \A j, k \in DOMAIN f : f[j].id = f[k].id => j = k

First(f, n) == {k \in DOMAIN f : k <= n}

\* The first n outputs that were found are spent, and h has their units.
Returned(f, n, h) ==
  /\ \A k \in First(f, n) : f[k].id \notin DOMAIN pool
  /\ h.returned >= SumFunctionOnSet(UnitsIn(f), First(f, n))

Batching == {"building", "sign-1", "sign-2", "assembling", "submitting"}

\* The batches before the present one are back with the admins; the report
\* comes after the last.
ReclaimedBy(r, h) ==
  /\ DOMAIN r = ReclaimFields
  /\ Listing(r.found)
  /\ r.at \in Nat \ {0} /\ r.batches \in Nat
  /\ r.batches * ReclaimBatch >= Len(r.found)
  /\ r.stage = "report" => r.at = r.batches + 1
  /\ r.submit => Returned(r.found, (r.at - 1) * ReclaimBatch, h)

Reclaiming == reclaim.stage \in Batching \cup {"report"} => ReclaimedBy(reclaim, held)

\* Rounded up, the batches hold all there is.
LEMMA BatchesEnough ==
  ASSUME NEW f, Len(f) \in Nat
  PROVE  BatchesOf(f) \in Nat /\ BatchesOf(f) * ReclaimBatch >= Len(f)
<1> DEFINE n == Len(f)
           r == ReclaimBatch
           top == n + r - 1
           q == top \div r
<1>1. n \in Nat /\ r \in Nat /\ r > 0
  BY ReclaimAssumption
<1>2. top \in Nat
  BY <1>1
<1>3. BatchesOf(f) = q
  BY DEF BatchesOf
<1>4. r * q <= top /\ top < r * q + r /\ q \in Nat
  <2> HIDE DEF n, r, top
  <2> QED BY <1>1, <1>2
<1> HIDE DEF r, q, n
<1>5. r * q = q * r /\ r * q \in Nat
  BY <1>1, <1>4
<1>6. q * r >= n
  BY <1>1, <1>4, <1>5
<1>7. QED
  BY <1>3, <1>4, <1>6 DEF n, r

\* The search lists what is at the address.
LEMMA FoundListed ==
  ASSUME SupplyInv
  PROVE  Listing(Found)
<1>1. Stock /\ IsFiniteSet(DOMAIN pool) /\ DOMAIN pool \in SUBSET Nat /\ born \in Nat
  BY PoolSums DEF SupplyInv, Stock
<1> DEFINE n == Cardinality(DOMAIN pool)
<1>2. /\ n \in Nat
      /\ \A k \in 1 .. n : Nth(DOMAIN pool, k) \in DOMAIN pool
      /\ \A j, k \in 1 .. n : Nth(DOMAIN pool, j) = Nth(DOMAIN pool, k) => j = k
  BY <1>1, NthOne
<1>3. \A i \in DOMAIN pool : i \in Nat /\ i <= born /\ pool[i].units \in Nat
  BY <1>1 DEF Stock, IsPoolOutput
<1>4. /\ DOMAIN Found = 1 .. n
      /\ \A k \in 1 .. n : /\ Found[k].id = Nth(DOMAIN pool, k)
                           /\ Found[k].units = pool[Nth(DOMAIN pool, k)].units
  BY DEF Found
<1>5. Len(Found) = n
  <2>1. Found = [k \in 1 .. n |-> [id |-> Nth(DOMAIN pool, k),
                                   units |-> pool[Nth(DOMAIN pool, k)].units]]
    BY DEF Found
  <2> HIDE DEF n
  <2>2. QED
    BY <1>2, <2>1
<1> HIDE DEF n
<1>6. QED
  BY <1>2, <1>3, <1>4, <1>5 DEF Listing

\* Which outputs the present batch is about.
Slice(f, from) == {k \in DOMAIN f : from < k /\ k <= from + ReclaimBatch}

\* The transaction of a batch claims each output of it for what was found.
LEMMA BatchClaims ==
  ASSUME Listing(reclaim.found), NEW from, from = (reclaim.at - 1) * ReclaimBatch
  PROVE  /\ ReclaimTx.back = <<>>
         /\ DOMAIN ReclaimTx.claims = {reclaim.found[k].id : k \in Slice(reclaim.found, from)}
         /\ \A k \in Slice(reclaim.found, from) :
               ReclaimTx.claims[reclaim.found[k].id] = reclaim.found[k].units
<1> DEFINE f == reclaim.found
<1>1. Batch = {f[k] : k \in Slice(f, from)}
  BY DEF Batch, Slice
<1>2. ReclaimTx.back = <<>>
  BY DEF ReclaimTx
<1>3. ReclaimTx.claims = [i \in {b.id : b \in Batch} |-> (CHOOSE b \in Batch : b.id = i).units]
  BY DEF ReclaimTx
<1>4. {b.id : b \in Batch} = {f[k].id : k \in Slice(f, from)}
  BY <1>1
<1>5. ASSUME NEW k \in Slice(f, from)
      PROVE  ReclaimTx.claims[f[k].id] = f[k].units
  <2>1. f[k] \in Batch /\ f[k].id \in {b.id : b \in Batch}
    BY <1>1
  <2>2. ASSUME NEW b \in Batch, b.id = f[k].id PROVE b = f[k]
    <3>1. PICK j \in Slice(f, from) : b = f[j]
      BY <1>1
    <3>2. j \in DOMAIN f /\ k \in DOMAIN f
      BY DEF Slice
    <3>3. j = k
      BY <2>2, <3>1, <3>2 DEF Listing
    <3>4. QED
      BY <3>1, <3>3
  <2> DEFINE c == CHOOSE b \in Batch : b.id = f[k].id
  <2>3. c \in Batch /\ c.id = f[k].id
    BY <2>1
  <2>4. c = f[k]
    <3> HIDE DEF c
    <3> QED BY <2>2, <2>3
  <2>5. ReclaimTx.claims[f[k].id] = c.units
    BY <1>3, <2>1
  <2> HIDE DEF c
  <2>6. QED
    BY <2>4, <2>5
<1>6. QED
  BY <1>2, <1>3, <1>4, <1>5

\* A batch that lands is back with the admins.
LEMMA BatchReturned ==
  ASSUME SupplyInv, Listing(reclaim.found), NEW from \in Nat,
         from = (reclaim.at - 1) * ReclaimBatch,
         Returned(reclaim.found, from, held), Lands(ReclaimTx, "returned")
  PROVE  LET h == held' IN
         /\ \A k \in First(reclaim.found, from + ReclaimBatch) : reclaim.found[k].id \notin DOMAIN pool'
         /\ h.returned >= SumFunctionOnSet(UnitsIn(reclaim.found), First(reclaim.found, from + ReclaimBatch))
<1> DEFINE f == reclaim.found
           K == Slice(f, from)
           tx == ReclaimTx
           u == UnitsIn(f)
<1>1. /\ tx.back = <<>> /\ DOMAIN tx.claims = {f[k].id : k \in K}
      /\ \A k \in K : tx.claims[f[k].id] = f[k].units
  BY BatchClaims
<1>2. Stock /\ held \in [Accounts -> Nat] /\ "returned" \in Accounts
  BY DEF SupplyInv, Books, Accounts
<1>3. /\ Len(f) \in Nat /\ DOMAIN f = 1 .. Len(f)
      /\ \A k \in DOMAIN f : f[k].id \in Nat /\ f[k].id <= born /\ f[k].units \in Nat
      /\ \A j, k \in DOMAIN f : f[j].id = f[k].id => j = k
  BY DEF Listing
<1>4. ReclaimBatch \in Nat /\ ReclaimBatch > 0
  BY ReclaimAssumption
<1>5. \A k \in DOMAIN f : u[k] = f[k].units /\ u[k] \in Nat
  BY <1>3 DEF UnitsIn
<1>6. /\ IsFiniteSet(DOMAIN f) /\ IsFiniteSet(K) /\ K \subseteq DOMAIN f
      /\ IsFiniteSet(First(f, from)) /\ First(f, from) \subseteq DOMAIN f
  <2>1. IsFiniteSet(1 .. Len(f))
    BY <1>3, FS_Interval
  <2>2. IsFiniteSet(DOMAIN f)
    BY <1>3, <2>1, Zenon
  <2>3. K \in SUBSET DOMAIN f /\ First(f, from) \in SUBSET DOMAIN f
    BY DEF Slice, First
  <2>4. QED
    BY <2>2, <2>3, FS_Subset
<1>7. /\ First(f, from + ReclaimBatch) = First(f, from) \cup K
      /\ First(f, from) \cap K = {}
  <2>1. \A k \in DOMAIN f : k \in Nat
    BY <1>3
  <2>2. \A k \in DOMAIN f : /\ k <= from + ReclaimBatch <=> k <= from \/ (from < k /\ k <= from + ReclaimBatch)
                          /\ ~ (k <= from /\ from < k)
    BY <1>4, <2>1
  <2>3. QED
    BY <2>2 DEF First, Slice
<1> HIDE DEF u, K
<1>8. SumFunctionOnSet(u, First(f, from + ReclaimBatch))
        = SumFunctionOnSet(u, First(f, from)) + SumFunctionOnSet(u, K)
  <2>1. \A k \in First(f, from) \cup K : u[k] \in Int
    BY <1>5, <1>6
  <2>2. SumFunctionOnSet(u, First(f, from) \cup K)
          = SumFunctionOnSet(u, First(f, from)) + SumFunctionOnSet(u, K)
    BY <1>6, <1>7, <2>1, SumUnion
  <2>3. SumFunctionOnSet(u, First(f, from + ReclaimBatch))
          = SumFunctionOnSet(u, First(f, from) \cup K)
    BY <1>7, Zenon
  <2>4. QED
    BY <2>2, <2>3
<1>9. /\ DOMAIN tx.claims \subseteq DOMAIN pool
      /\ \A i \in DOMAIN tx.claims : tx.claims[i] = pool[i].units
  BY DEF Lands, Takes, Evaluates
<1>10. /\ IsFiniteSet(DOMAIN tx.claims)
       /\ \A i \in DOMAIN tx.claims : tx.claims[i] \in Nat
  <2>1. IsFiniteSet(DOMAIN pool)
    BY <1>2, PoolSums DEF Stock
  <2>2. QED
    BY <1>2, <1>9, <2>1, FS_Subset DEF Stock, IsPoolOutput
<1>11. SumFunctionOnSet(u, K) <= SumFunctionOnSet(tx.claims, DOMAIN tx.claims)
  <2> DEFINE h == [k \in K |-> f[k].id]
             R == DOMAIN tx.claims
             g == tx.claims
  <2>1. \A k \in K : h[k] \in R /\ u[k] \in Nat /\ u[k] <= g[h[k]]
    BY <1>1, <1>5, <1>6
  <2>2. \A j, k \in K : h[j] = h[k] => j = k
    BY <1>3, <1>6
  <2>3. IsFiniteSet(R) /\ \A r \in R : g[r] \in Nat
    BY <1>10
  <2> HIDE DEF h, R, g
  <2>4. SumFunctionOnSet(u, K) <= SumFunctionOnSet(g, R)
    BY <1>6, <2>1, <2>2, <2>3, SumInjection
  <2>5. QED
    BY <2>4 DEF g, R
<1>12. SumFunction(tx.claims) = SumFunctionOnSet(tx.claims, DOMAIN tx.claims)
       /\ SumFunction(tx.claims) \in Nat
  <2>1. SumFunctionOnSet(tx.claims, DOMAIN tx.claims) \in Nat
    BY <1>10, SumNat
  <2>2. QED
    BY <2>1 DEF SumFunction
<1>13. IsPoolList(tx.back) /\ UnitsOf(tx.back) = 0
  <2>1. IsPoolList(<<>>) /\ UnitsOf(<<>>) = 0
    BY ListsOfOne
  <2>2. QED
    BY <1>1, <2>1, Zenon
<1>14. /\ \A i \in DOMAIN pool' : i \in DOMAIN pool \ DOMAIN tx.claims \/ i > born
       /\ held'["returned"] = held["returned"] + SumFunction(tx.claims) - UnitsOf(tx.back)
  <2>1. UnitsOf(tx.back) <= SumFunction(tx.claims)
    BY <1>12, <1>13
  <2> HIDE DEF tx
  <2>2. Lands(tx, "returned")
    BY DEF tx
  <2>3. QED
    BY <1>2, <1>13, <2>1, <2>2, LandingBalances
<1>15. \A k \in First(f, from + ReclaimBatch) : f[k].id \notin DOMAIN pool'
  <2> SUFFICES ASSUME NEW k \in First(f, from + ReclaimBatch), f[k].id \in DOMAIN pool' PROVE FALSE
    OBVIOUS
  <2>1. k \in DOMAIN f /\ f[k].id \in Nat /\ f[k].id <= born /\ born \in Nat
    BY <1>2, <1>3 DEF First, Stock
  <2>2. f[k].id \in DOMAIN pool \ DOMAIN tx.claims
    BY <1>14, <2>1
  <2>3. CASE k \in First(f, from)
    BY <2>2, <2>3 DEF Returned
  <2>4. CASE k \in K
    BY <1>1, <2>2, <2>4
  <2>5. QED
    BY <1>7, <2>3, <2>4
<1>16. held'.returned >= SumFunctionOnSet(u, First(f, from + ReclaimBatch))
  <2> DEFINE a == SumFunctionOnSet(u, First(f, from))
             b == SumFunctionOnSet(u, K)
             c == SumFunction(tx.claims)
             x == held["returned"]
  <2>1. x >= a /\ x \in Nat
    <3>1. held["returned"] \in Nat
      BY <1>2
    <3>2. QED
      BY <3>1 DEF Returned, u
  <2>2. a \in Nat /\ b \in Nat /\ c \in Nat
    <3>1. (\A k \in First(f, from) : u[k] \in Nat) /\ (\A k \in K : u[k] \in Nat)
      BY <1>5, <1>6
    <3>2. QED
      BY <1>6, <1>12, <3>1, SumNat
  <2>3. b <= c
    BY <1>11, <1>12
  <2>4. held'["returned"] = x + c - 0
    BY <1>13, <1>14
  <2>5. SumFunctionOnSet(u, First(f, from + ReclaimBatch)) = a + b
    BY <1>8
  <2> HIDE DEF a, b, c, x
  <2>6. QED
    BY <2>1, <2>2, <2>3, <2>4, <2>5
<1>17. QED
  BY <1>15, <1>16 DEF u

\* What comes back to the admins adds to what they have.
LEMMA ReturnsAdd ==
  ASSUME SupplyInv, NEW tx, tx.back = <<>>, Lands(tx, "returned")
  PROVE  held'.returned >= held.returned
<1>1. Stock /\ held \in [Accounts -> Nat] /\ "returned" \in Accounts
  BY DEF SupplyInv, Books, Accounts
<1>2. /\ DOMAIN tx.claims \subseteq DOMAIN pool
      /\ \A i \in DOMAIN tx.claims : tx.claims[i] = pool[i].units
  BY DEF Lands, Takes, Evaluates
<1>3. IsFiniteSet(DOMAIN tx.claims) /\ \A i \in DOMAIN tx.claims : tx.claims[i] \in Nat
  <2>1. IsFiniteSet(DOMAIN pool)
    BY <1>1, PoolSums DEF Stock
  <2>2. QED
    BY <1>1, <1>2, <2>1, FS_Subset DEF Stock, IsPoolOutput
<1>4. SumFunction(tx.claims) \in Nat
  <2>1. SumFunctionOnSet(tx.claims, DOMAIN tx.claims) \in Nat
    BY <1>3, SumNat
  <2>2. QED
    BY <2>1 DEF SumFunction
<1>5. UnitsOf(tx.back) = 0
  <2>1. UnitsOf(<<>>) = 0
    BY ListsOfOne
  <2>2. QED
    BY <2>1, Zenon
<1>6. held' = [held EXCEPT !["returned"] = held["returned"] + SumFunction(tx.claims) - UnitsOf(tx.back)]
  BY DEF Lands
<1>7. held["returned"] \in Nat
  BY <1>1
<1>8. held'["returned"] >= held["returned"]
  BY <1>1, <1>4, <1>5, <1>6, <1>7
<1>9. QED
  BY <1>8

\* Nobody takes from the admins.
LEMMA ReturnedGrows ==
  ASSUME SupplyInv, [Next]_vars
  PROVE  held'.returned >= held.returned
<1>1. held \in [Accounts -> Nat]
  BY DEF SupplyInv, Books
<1>2. /\ "returned" \in Accounts \ {"users"} /\ "returned" \in Accounts \ {"paid"}
      /\ "users" \in Accounts /\ "paid" \in Accounts /\ "burned" \in Accounts
  BY DEF Accounts
<1>3. held.returned >= held.returned
  <2>1. held["returned"] \in Nat
    BY <1>1, <1>2
  <2>2. QED
    BY <2>1
<1>4. ASSUME NEW tx, Lands(tx, "users") \/ Lands(tx, "paid")
      PROVE  held'.returned = held.returned
  <2>1. CASE Lands(tx, "users")
    BY <1>1, <1>2, <2>1, LandingAccounts
  <2>2. CASE Lands(tx, "paid")
    BY <1>1, <1>2, <2>2, LandingAccounts
  <2>3. QED
    BY <1>4, <2>1, <2>2
<1>5. ASSUME Outside PROVE held'.returned = held.returned
  <2>1. ASSUME NEW i, NEW u, NEW until, Served(i, u, until)
        PROVE  held'.returned = held.returned
    BY <1>4, <2>1, Zenon DEF Served
  <2>2. ASSUME NEW d, Gift(d) PROVE held'.returned = held.returned
    <3>1. held' = [held EXCEPT !["users"] = held["users"] - 1]
      BY <2>2, Zenon DEF Gift
    <3>2. QED
      BY <1>1, <1>2, <3>1
  <2>3. ASSUME NEW d, Burn(d) PROVE held'.returned = held.returned
    <3>1. held' = [held EXCEPT !["users"] = held["users"] - 2, !["burned"] = held["burned"] + 1]
      BY <2>3, Zenon DEF Burn
    <3>2. QED
      BY <1>1, <1>2, <3>1
  <2>4. Tick => UNCHANGED held
    BY Zenon DEF Tick
  <2>5. QED
    BY <1>5, <2>1, <2>2, <2>3, <2>4, Zenon DEF Outside
<1>6. Lands(ReclaimTx, "returned") => held'.returned >= held.returned
  <2>1. ReclaimTx.back = <<>>
    BY DEF ReclaimTx
  <2>2. QED
    BY <2>1, ReturnsAdd
<1>7. SweepSubmit => held'.returned >= held.returned
  <2> DEFINE tx == SweepTx(sweep.final)
  <2>1. SweepSubmit => Lands(tx, "returned") /\ tx.back = <<>>
    BY DEF SweepSubmit, SweepTx
  <2> HIDE DEF tx
  <2>2. QED
    BY <2>1, ReturnsAdd
<1>8. Lands(SurrenderTx, "paid") => held'.returned = held.returned
  BY <1>4
<1>9. QED
  BY <1>3, <1>5, <1>6, <1>7, <1>8, ToolSteps

\* What has been found and what of it is back stay so.
LEMMA FoundStays ==
  ASSUME SupplyInv, Serving, [Next]_vars, NEW f, NEW n, Listing(f)
  PROVE  Listing(f)' /\ (Returned(f, n, held) => Returned(f, n, held)')
<1>1. /\ born \in Nat /\ born' \in Nat /\ born' >= born
      /\ \A i \in DOMAIN pool' : i \in DOMAIN pool \/ i > born
  BY PoolGrows
<1>2. Listing(f)'
  BY <1>1 DEF Listing
<1>3. ASSUME Returned(f, n, held) PROVE Returned(f, n, held)'
  <2>1. \A k \in First(f, n) : f[k].id \notin DOMAIN pool'
    <3> SUFFICES ASSUME NEW k \in First(f, n), f[k].id \in DOMAIN pool' PROVE FALSE
      OBVIOUS
    <3>1. f[k].id \in Nat /\ f[k].id <= born
      BY DEF First, Listing
    <3>2. QED
      BY <1>1, <1>3, <3>1 DEF Returned
  <2> DEFINE s == SumFunctionOnSet(UnitsIn(f), First(f, n))
  <2>2. s \in Nat
    <3>1. /\ Len(f) \in Nat /\ DOMAIN f = 1 .. Len(f)
          /\ \A k \in First(f, n) : UnitsIn(f)[k] \in Nat
      BY DEF Listing, First, UnitsIn
    <3>2. IsFiniteSet(1 .. Len(f)) /\ First(f, n) \in SUBSET (1 .. Len(f))
      BY <3>1, FS_Interval DEF First
    <3>3. IsFiniteSet(First(f, n))
      BY <3>2, FS_Subset
    <3>4. QED
      BY <3>1, <3>3, SumNat
  <2>3. held.returned >= s
    BY <1>3 DEF Returned
  <2>4. held.returned \in Nat /\ held'.returned \in Nat
    <3>1. held \in [Accounts -> Nat] /\ held' \in [Accounts -> Nat] /\ "returned" \in Accounts
      BY SupplyStep DEF SupplyInv, Books, Accounts
    <3>2. held["returned"] \in Nat /\ held'["returned"] \in Nat
      BY <3>1
    <3>3. QED
      BY <3>2
  <2> HIDE DEF s
  <2>5. held'.returned >= s
    BY <2>2, <2>3, <2>4, ReturnedGrows
  <2>6. QED
    BY <2>1, <2>5 DEF Returned, s
<1>4. QED
  BY <1>2, <1>3

\* The run goes on as it was, or to the next stage of the same batch.
LEMMA ReclaimGoesOn ==
  ASSUME SupplyInv, Serving, [Next]_vars, ReclaimedBy(reclaim, held), reclaim.stage # "report",
         DOMAIN reclaim' = ReclaimFields, reclaim'.stage # "report",
         reclaim'.found = reclaim.found, reclaim'.at = reclaim.at,
         reclaim'.batches = reclaim.batches, reclaim'.submit = reclaim.submit
  PROVE  ReclaimedBy(reclaim, held)'
<1>1. PICK f, n : f = reclaim.found /\ n = (reclaim.at - 1) * ReclaimBatch
  OBVIOUS
<1>2. Listing(f) /\ (reclaim.submit => Returned(f, n, held))
  BY <1>1 DEF ReclaimedBy
<1>3. Listing(f)' /\ (Returned(f, n, held) => Returned(f, n, held)')
  BY <1>2, FoundStays
<1>4. f = reclaim'.found /\ n = (reclaim'.at - 1) * ReclaimBatch
  BY <1>1
<1>5. Listing(reclaim.found)' <=> Listing(f)'
  BY <1>4 DEF Listing
<1>6. Returned(reclaim.found, (reclaim.at - 1) * ReclaimBatch, held)' <=> Returned(f, n, held)'
  BY <1>4 DEF Returned
<1>7. /\ reclaim'.at \in Nat \ {0} /\ reclaim'.batches \in Nat
      /\ reclaim'.batches * ReclaimBatch >= Len(reclaim'.found)
  BY DEF ReclaimedBy
<1>8. QED
  BY <1>2, <1>3, <1>5, <1>6, <1>7 DEF ReclaimedBy

\* The next batch follows when the present one is back, or is left to the
\* operator; after the last one comes the report.
LEMMA ReclaimMovesOn ==
  ASSUME SupplyInv, Serving, [Next]_vars, ReclaimedBy(reclaim, held), reclaim.stage # "report",
         reclaim' = NextBatch,
         reclaim.submit => Lands(ReclaimTx, "returned")
  PROVE  ReclaimedBy(reclaim, held)'
<1>1. /\ DOMAIN reclaim' = ReclaimFields
      /\ reclaim'.found = reclaim.found /\ reclaim'.at = reclaim.at + 1
      /\ reclaim'.batches = reclaim.batches /\ reclaim'.submit = reclaim.submit
      /\ reclaim'.stage = "report" => reclaim.at = reclaim.batches
  BY DEF NextBatch, ReclaimedBy, ReclaimFields
<1>2. PICK f, n : f = reclaim.found /\ n = (reclaim.at - 1) * ReclaimBatch
  OBVIOUS
<1>3. Listing(f) /\ (reclaim.submit => Returned(f, n, held))
  BY <1>2 DEF ReclaimedBy
<1>4. reclaim.at \in Nat \ {0} /\ reclaim.batches \in Nat /\ ReclaimBatch \in Nat
  BY ReclaimAssumption DEF ReclaimedBy
<1>5. n \in Nat /\ (reclaim'.at - 1) * ReclaimBatch = n + ReclaimBatch
  <2> DEFINE a == reclaim.at - 1
             r == ReclaimBatch
  <2>1. a \in Nat /\ r \in Nat /\ reclaim'.at - 1 = a + 1 /\ n = a * r
    BY <1>1, <1>2, <1>4
  <2> HIDE DEF a, r
  <2>2. (a + 1) * r = a * r + r /\ a * r \in Nat
    BY <2>1
  <2>3. QED
    BY <2>1, <2>2 DEF r
<1>6. Listing(f)'
  BY <1>3, FoundStays
<1>7. reclaim.submit =>
        /\ \A k \in First(f, n + ReclaimBatch) : f[k].id \notin DOMAIN pool'
        /\ held'.returned >= SumFunctionOnSet(UnitsIn(f), First(f, n + ReclaimBatch))
  <2> SUFFICES ASSUME reclaim.submit
               PROVE  /\ \A k \in First(f, n + ReclaimBatch) : f[k].id \notin DOMAIN pool'
                      /\ held'.returned >= SumFunctionOnSet(UnitsIn(f), First(f, n + ReclaimBatch))
    OBVIOUS
  <2>1. Listing(reclaim.found) /\ Returned(reclaim.found, n, held) /\ Lands(ReclaimTx, "returned")
    BY <1>2, <1>3
  <2>2. /\ \A k \in First(reclaim.found, n + ReclaimBatch) : reclaim.found[k].id \notin DOMAIN pool'
        /\ held'.returned >= SumFunctionOnSet(UnitsIn(reclaim.found), First(reclaim.found, n + ReclaimBatch))
    BY <1>2, <1>5, <2>1, BatchReturned
  <2>3. QED
    BY <1>2, <2>2
<1>8. f = reclaim'.found
  BY <1>1, <1>2
<1>9. Listing(reclaim.found)'
  BY <1>6, <1>8 DEF Listing
<1>10. reclaim'.submit => Returned(reclaim.found, (reclaim.at - 1) * ReclaimBatch, held)'
  <2> DEFINE m == n + ReclaimBatch
  <2>1. m = (reclaim'.at - 1) * ReclaimBatch
    BY <1>5
  <2>2. reclaim.submit =>
        /\ \A k \in First(f, m) : f[k].id \notin DOMAIN pool'
        /\ held'.returned >= SumFunctionOnSet(UnitsIn(f), First(f, m))
    BY <1>7
  <2> HIDE DEF m
  <2>3. QED
    BY <1>1, <1>8, <2>1, <2>2 DEF Returned
<1>11. /\ reclaim'.at \in Nat \ {0} /\ reclaim'.batches \in Nat
       /\ reclaim'.batches * ReclaimBatch >= Len(reclaim'.found)
       /\ reclaim'.stage = "report" => reclaim'.at = reclaim'.batches + 1
  BY <1>1, <1>4 DEF ReclaimedBy
<1>12. QED
  BY <1>1, <1>9, <1>10, <1>11 DEF ReclaimedBy

LEMMA ReclaimBegins ==
  ASSUME SupplyInv, Serving, [Next]_vars, NEW c, NEW s, StartReclaim(c, s),
         DOMAIN reclaim = ReclaimFields, reclaim'.stage \in Batching \cup {"report"}
  PROVE  ReclaimedBy(reclaim, held)'
<1>1. Discoverable
  <2>1. ASSUME ~ Discoverable PROVE reclaim'.stage = "failed"
    BY <2>1 DEF StartReclaim, Failing, ReclaimFields
  <2>2. QED
    BY <2>1 DEF Batching
<1>2. PICK f, b : f = Found /\ b = BatchesOf(Found)
  OBVIOUS
<1>3. Listing(f) /\ b \in Nat /\ b * ReclaimBatch >= Len(f)
  <2>1. Listing(Found)
    BY FoundListed
  <2>2. Listing(f)
    BY <1>2, <2>1, Zenon
  <2>3. Len(f) \in Nat /\ b = BatchesOf(f)
    BY <1>2, <2>2 DEF Listing
  <2>4. QED
    BY <2>2, <2>3, BatchesEnough
<1>4. /\ DOMAIN reclaim' = ReclaimFields /\ reclaim'.found = f /\ reclaim'.batches = b
      /\ reclaim'.at = 1 /\ reclaim'.submit = s /\ reclaim'.stage # "report"
      /\ UNCHANGED ledgerVars
  <2> DEFINE st == IF c THEN "check_only" ELSE IF f = <<>> THEN "no_action" ELSE "building"
  <2>1. reclaim' = [reclaim EXCEPT !.found = f, !.batches = b, !.at = 1, !.submit = s, !.stage = st]
    BY <1>1, <1>2, Zenon DEF StartReclaim
  <2>2. st # "report"
    OBVIOUS
  <2>3. UNCHANGED ledgerVars
    BY DEF StartReclaim
  <2> HIDE DEF st
  <2>4. QED
    BY <2>1, <2>2, <2>3 DEF ReclaimFields
<1>5. Listing(f)'
  BY <1>3, FoundStays
<1>6. Returned(f, 0, held)'
  <2>1. First(f, 0) = {}
    BY <1>3 DEF First, Listing
  <2>2. SumFunctionOnSet(UnitsIn(f), First(f, 0)) = SumFunctionOnSet(UnitsIn(f), {})
    BY <2>1, Zenon
  <2>3. SumFunctionOnSet(UnitsIn(f), First(f, 0)) = 0
    BY <2>2, SumEmpty
  <2>4. held'.returned \in Nat
    <3>1. held' \in [Accounts -> Nat] /\ "returned" \in Accounts
      BY SupplyStep DEF SupplyInv, Books, Accounts
    <3>2. held'["returned"] \in Nat
      BY <3>1
    <3>3. QED
      BY <3>2
  <2>5. held'.returned >= SumFunctionOnSet(UnitsIn(f), First(f, 0))
    BY <2>3, <2>4
  <2>6. QED
    BY <2>1, <2>5 DEF Returned
<1>7. (reclaim'.at - 1) * ReclaimBatch = 0
  BY <1>4, ReclaimAssumption
<1>8. Listing(reclaim.found)'
  BY <1>4, <1>5 DEF Listing
<1>9. Returned(reclaim.found, (reclaim.at - 1) * ReclaimBatch, held)'
  BY <1>4, <1>6, <1>7 DEF Returned
<1>10. QED
  BY <1>3, <1>4, <1>8, <1>9 DEF ReclaimedBy

LEMMA ReclaimingStep ==
  ASSUME SupplyInv, Serving, Staged, Reclaiming, [Next]_vars
  PROVE  Reclaiming'
<1> SUFFICES ASSUME reclaim'.stage \in Batching \cup {"report"}
             PROVE  ReclaimedBy(reclaim, held)'
  BY DEF Reclaiming
<1>1. DOMAIN reclaim = ReclaimFields
  BY DEF Staged
<1>2. ASSUME NEW st \in Batching, NEW w,
             \/ reclaim' = [reclaim EXCEPT !.stage = st, !.witnesses = w]
             \/ reclaim' = [reclaim EXCEPT !.stage = st],
             reclaim.stage \in Batching
      PROVE  ReclaimedBy(reclaim, held)'
  <2>1. /\ DOMAIN reclaim' = ReclaimFields
        /\ reclaim'.found = reclaim.found /\ reclaim'.at = reclaim.at
        /\ reclaim'.batches = reclaim.batches /\ reclaim'.submit = reclaim.submit
        /\ reclaim'.stage = st
    BY <1>1, <1>2 DEF ReclaimFields
  <2>2. ReclaimedBy(reclaim, held) /\ reclaim.stage # "report" /\ st # "report"
    BY <1>2 DEF Reclaiming, Batching
  <2>3. QED
    BY <2>1, <2>2, ReclaimGoesOn
<1>3. ASSUME NEW why, Failing(why) PROVE FALSE
  <2>1. reclaim'.stage = "failed"
    BY <1>1, <1>3 DEF Failing, ReclaimFields
  <2>2. QED
    BY <2>1 DEF Batching
<1>4. ASSUME reclaim' = NextBatch, reclaim.stage \in Batching,
             reclaim.submit => Lands(ReclaimTx, "returned")
      PROVE  ReclaimedBy(reclaim, held)'
  <2>1. ReclaimedBy(reclaim, held) /\ reclaim.stage # "report"
    BY <1>4 DEF Reclaiming, Batching
  <2>2. QED
    BY <1>4, <2>1, ReclaimMovesOn
<1>5. Batching = {"building", "sign-1", "sign-2", "assembling", "submitting"}
  BY DEF Batching
<1>6. CASE UNCHANGED reclaim
  <2>1. ReclaimedBy(reclaim, held)
    BY <1>6 DEF Reclaiming
  <2>2. CASE reclaim.stage = "report"
    <3>1. PICK f, n : f = reclaim.found /\ n = (reclaim.at - 1) * ReclaimBatch
      OBVIOUS
    <3>2. Listing(f) /\ (reclaim.submit => Returned(f, n, held))
      BY <2>1, <3>1 DEF ReclaimedBy
    <3>3. Listing(f)' /\ (Returned(f, n, held) => Returned(f, n, held)')
      BY <3>2, FoundStays
    <3>4. f = reclaim'.found /\ n = (reclaim'.at - 1) * ReclaimBatch
      BY <1>6, <3>1
    <3>5. Listing(reclaim.found)'
      BY <3>3, <3>4 DEF Listing
    <3>6. reclaim'.submit => Returned(reclaim.found, (reclaim.at - 1) * ReclaimBatch, held)'
      BY <1>6, <3>2, <3>3, <3>4 DEF Returned
    <3>7. QED
      BY <1>6, <2>1, <3>5, <3>6 DEF ReclaimedBy
  <2>3. CASE reclaim.stage # "report"
    BY <1>1, <1>6, <2>1, <2>3, ReclaimGoesOn
  <2>4. QED
    BY <2>2, <2>3
<1>7. ASSUME NEW c, NEW s, StartReclaim(c, s) PROVE ReclaimedBy(reclaim, held)'
  BY <1>1, <1>7, ReclaimBegins
<1>8. ASSUME NEW ok, BuildReclaim(ok) PROVE ReclaimedBy(reclaim, held)'
  BY <1>2, <1>3, <1>5, <1>8, ZenonT(40) DEF BuildReclaim
<1>9. ASSUME NEW ok, SignFirst(ok) PROVE ReclaimedBy(reclaim, held)'
  BY <1>2, <1>3, <1>5, <1>9, ZenonT(40) DEF SignFirst
<1>10. ASSUME NEW s, SignSecond(s) PROVE ReclaimedBy(reclaim, held)'
  BY <1>2, <1>3, <1>5, <1>10, ZenonT(40) DEF SignSecond
<1>11. ASSUME NEW ok, AssembleReclaim(ok) PROVE ReclaimedBy(reclaim, held)'
  <2>1. reclaim.stage \in Batching /\ "submitting" \in Batching
    BY <1>5, <1>11 DEF AssembleReclaim
  <2>2. ok
    BY <1>3, <1>11, Zenon DEF AssembleReclaim
  <2>3. CASE reclaim.submit
    BY <1>2, <1>11, <2>1, <2>2, <2>3, Zenon DEF AssembleReclaim
  <2>4. CASE ~ reclaim.submit
    BY <1>4, <1>11, <2>1, <2>2, <2>4, Zenon DEF AssembleReclaim
  <2>5. QED
    BY <2>3, <2>4
<1>12. ASSUME NEW t, NEW a, SubmitReclaim(t, a) PROVE ReclaimedBy(reclaim, held)'
  <2>1. reclaim.stage \in Batching
    BY <1>5, <1>12 DEF SubmitReclaim
  <2>2. t /\ a
    BY <1>3, <1>12, Zenon DEF SubmitReclaim
  <2>3. reclaim' = NextBatch /\ Lands(ReclaimTx, "returned")
    BY <1>12, <2>2, Zenon DEF SubmitReclaim
  <2>4. QED
    BY <1>4, <2>1, <2>3
<1>13. UNCHANGED reclaim \/ ReclaimNext
  BY ToolFiles
<1>14. QED
  BY <1>6, <1>7, <1>8, <1>9, <1>10, <1>11, <1>12, <1>13, Zenon DEF ReclaimNext

\* A report of a submitted reclaim is not written before every output that was
\* found is spent, however many batches that takes, and the admins have as many
\* units (run_admin_reclaim).
THEOREM ReclaimAlwaysReported == Spec => []ReportedReclaimed
<1>1. Init => Reclaiming
  <2>1. Init => reclaim = NoReclaim
    BY Zenon DEF Init
  <2>2. NoReclaim.stage = "idle"
    BY DEF NoReclaim
  <2>3. QED
    BY <2>1, <2>2 DEF Reclaiming, Batching
<1>2. SupplyInv /\ Serving /\ Staged /\ Reclaiming /\ [Next]_vars => Reclaiming'
  BY ReclaimingStep
<1>3. Reclaiming => ReportedReclaimed
  <2> SUFFICES ASSUME Reclaiming, reclaim.stage = "report", reclaim.submit
               PROVE  /\ \A k \in DOMAIN reclaim.found : reclaim.found[k].id \notin DOMAIN pool
                      /\ held.returned >= UnitsOf(reclaim.found)
    BY DEF ReportedReclaimed
  <2> DEFINE f == reclaim.found
             n == (reclaim.at - 1) * ReclaimBatch
  <2>1. ReclaimedBy(reclaim, held)
    BY DEF Reclaiming
  <2>2. Returned(f, n, held) /\ n >= Len(f) /\ Len(f) \in Nat /\ DOMAIN f = 1 .. Len(f)
    <3>1. reclaim.at - 1 = reclaim.batches
      BY <2>1 DEF ReclaimedBy
    <3>2. n = reclaim.batches * ReclaimBatch
      BY <3>1
    <3>3. QED
      BY <2>1, <3>2 DEF ReclaimedBy, Listing
  <2>3. n \in Int
    BY <2>1, ReclaimAssumption DEF ReclaimedBy
  <2> HIDE DEF n
  <2>4. First(f, n) = DOMAIN f
    BY <2>2, <2>3 DEF First
  <2>5. DOMAIN UnitsIn(f) = DOMAIN f /\ UnitsOf(f) = SumFunctionOnSet(UnitsIn(f), DOMAIN UnitsIn(f))
    BY DEF UnitsIn, UnitsOf, SumFunction
  <2>6. UnitsOf(f) = SumFunctionOnSet(UnitsIn(f), First(f, n))
    BY <2>4, <2>5, Zenon
  <2>7. QED
    BY <2>2, <2>4, <2>6 DEF Returned
<1>4. QED
  BY <1>1, <1>2, <1>3, SupplyHolds, StagedHolds, PTL DEF Spec
=============================================================================
