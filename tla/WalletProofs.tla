---------------------------- MODULE WalletProofs ----------------------------
(***************************************************************************)
(* What the service knows of a claimant's wallet, for any wallet, any      *)
(* surrenders and any order of builds, submissions, losses and re-seeds:   *)
(* the invariants that Operations states of WalletBuild, proved of         *)
(* WalletInit and WalletNext.                                              *)
(***************************************************************************)
EXTENDS WalletBuild, SumProofs, FiniteSetTheorems, TLAPS

\* An output holds its minimum, and one of a split no more kinds of tokens
\* than asked for.
Fits(c) ==
  /\ c.ada >= MinAda[KindsOf(c.own)]
  /\ c.by = "defrag" => Cardinality(KindsOf(c.own)) <= MaxTokens

AllFit == \A c \in DOMAIN coins : Fits(coins[c])

\* A surrender names outputs there have been.
IsSurrender(tx) ==
  /\ tx.pool \in Nat /\ tx.pool < head.next
  /\ tx.spends \subseteq DOMAIN coins
  /\ tx.collateral # None => tx.collateral \in DOMAIN coins
  /\ tx.change \in Seq(Utxo)
  /\ \A k \in DOMAIN tx.change : Fits(tx.change[k])

\* One that was handed out tells which of them it had to spend.
IsBuild(tx) == IsSurrender(tx) /\ tx.explicit \subseteq DOMAIN coins

Entry == [from : Nat, spends : SUBSET Nat, outs : SUBSET Nat, collateral : Nat \cup {None}]

IsPending(tx) ==
  /\ tx.from < head.at
  /\ tx.spends \subseteq DOMAIN coins /\ tx.outs \subseteq DOMAIN coins
  /\ tx.collateral # None => tx.collateral \in DOMAIN coins

\* Outputs are numbered as they are made, at the claimant's and at the pool.
Numbered ==
  /\ coins \in Seq(Utxo)
  /\ live \subseteq DOMAIN coins /\ listed \subseteq DOMAIN coins
  /\ reserved \subseteq DOMAIN coins /\ moved \subseteq DOMAIN coins
  /\ head.at \in Nat /\ head.next \in Nat /\ head.at < head.next
  /\ tip.at \in Nat /\ tip.at < head.next
  /\ carried # None => carried \subseteq DOMAIN coins
  /\ pending \in Seq(Entry)
  /\ \A k \in DOMAIN pending : IsPending(pending[k])
  /\ \A tx \in open : IsBuild(tx)

\* Each pending surrender spends a younger output of the pool than the last.
InOrder ==
  \A i, j \in DOMAIN pending : i < j => pending[i].from < pending[j].from

\* As long as the pool's output p can be the current one again, the outputs E
\* come back with it: each is there, or spent by what builds on p, or by the
\* holder; and nothing that builds on p has made any of them.
Follows(p, E) ==
  p = head.at \/ (\E k \in DOMAIN pending : pending[k].from = p) =>
     /\ \A c \in E : \/ c \in live \cup moved
                     \/ \E k \in DOMAIN pending : pending[k].from >= p /\ c \in pending[k].spends
     /\ \A k \in DOMAIN pending : pending[k].from >= p => E \cap pending[k].outs = {}

\* The change that is carried forward, and what builds have carried so.
Carries(p, E) ==
  \/ carried # None /\ p = tip.at /\ E = carried
  \/ \E tx \in open : p = tx.pool /\ E = tx.explicit

ChangeInv == \A p \in 0 .. head.next, E \in SUBSET DOMAIN coins : Carries(p, E) => Follows(p, E)

\* While no reservation has been forgotten, the collateral of whatever is open
\* or pending is reserved, for that one alone.
CollateralInv ==
  ~ forgot =>
    /\ \A tx \in open : tx.collateral # None => tx.collateral \in reserved
    /\ \A k \in DOMAIN pending :
          pending[k].collateral # None => pending[k].collateral \in reserved
    /\ \A tx, ux \in open :
          tx.collateral # None /\ tx.collateral = ux.collateral => tx = ux
    /\ \A tx \in open, k \in DOMAIN pending :
          tx.collateral # None => tx.collateral # pending[k].collateral
    /\ CollateralOnce

WalletInv == Numbered /\ InOrder /\ ChangeInv /\ CollateralInv /\ AllFit

-----------------------------------------------------------------------------
(* Sums over outputs                                                       *)

AdaIn == [c \in DOMAIN coins |-> coins[c].ada]
OwnIn(t) == [c \in DOMAIN coins |-> coins[c].own[t]]

LEMMA CoinSums ==
  ASSUME coins \in Seq(Utxo)
  PROVE  /\ IsFiniteSet(DOMAIN coins)
         /\ \A c \in DOMAIN coins : AdaIn[c] = coins[c].ada /\ AdaIn[c] \in Nat
         /\ \A t \in Tokens : \A c \in DOMAIN coins :
               OwnIn(t)[c] = coins[c].own[t] /\ OwnIn(t)[c] \in Nat
         /\ \A s \in SUBSET DOMAIN coins :
               /\ IsFiniteSet(s)
               /\ Ada(s) = SumFunctionOnSet(AdaIn, s) /\ Ada(s) \in Nat
               /\ Own(s) \in [Tokens -> Nat]
               /\ \A t \in Tokens : Own(s)[t] = SumFunctionOnSet(OwnIn(t), s)
<1>1. IsFiniteSet(DOMAIN coins)
  <2>1. DOMAIN coins = 1 .. Len(coins) /\ Len(coins) \in Nat
    OBVIOUS
  <2>2. QED
    BY <2>1, FS_Interval
<1>2. \A c \in DOMAIN coins : coins[c] \in Utxo
  OBVIOUS
<1>3. \A c \in DOMAIN coins : AdaIn[c] = coins[c].ada /\ AdaIn[c] \in Nat
  BY <1>2 DEF AdaIn, Utxo
<1>4. \A t \in Tokens : \A c \in DOMAIN coins :
         OwnIn(t)[c] = coins[c].own[t] /\ OwnIn(t)[c] \in Nat
  BY <1>2 DEF OwnIn, Utxo
<1>5. ASSUME NEW s \in SUBSET DOMAIN coins
      PROVE  /\ IsFiniteSet(s)
             /\ Ada(s) = SumFunctionOnSet(AdaIn, s) /\ Ada(s) \in Nat
             /\ Own(s) \in [Tokens -> Nat]
             /\ \A t \in Tokens : Own(s)[t] = SumFunctionOnSet(OwnIn(t), s)
  <2>1. IsFiniteSet(s)
    BY <1>1, FS_Subset
  <2>2. Ada(s) = SumFunctionOnSet(AdaIn, s) /\ Ada(s) \in Nat
    <3> DEFINE f == [c \in s |-> coins[c].ada]
    <3>1. Ada(s) = SumFunctionOnSet(f, s)
      BY DEF Ada, SumFunction
    <3>2. \A c \in s : f[c] \in Nat /\ f[c] \in Int /\ AdaIn[c] = f[c]
      BY <1>3
    <3> HIDE DEF f
    <3>3. SumFunctionOnSet(f, s) = SumFunctionOnSet(AdaIn, s)
      BY <2>1, <3>2, SumAgree
    <3>4. SumFunctionOnSet(f, s) \in Nat
      BY <2>1, <3>2, SumNat
    <3>5. QED
      BY <3>1, <3>3, <3>4
  <2>3. ASSUME NEW t \in Tokens
        PROVE  Own(s)[t] = SumFunctionOnSet(OwnIn(t), s) /\ Own(s)[t] \in Nat
    <3> DEFINE f == [c \in s |-> coins[c].own[t]]
               g == OwnIn(t)
    <3>1. Own(s)[t] = SumFunctionOnSet(f, s)
      BY DEF Own, SumFunction
    <3>2. \A c \in s : f[c] \in Nat /\ f[c] \in Int /\ g[c] = f[c]
      BY <1>4
    <3> HIDE DEF f, g
    <3>3. SumFunctionOnSet(f, s) = SumFunctionOnSet(g, s)
      BY <2>1, <3>2, SumAgree
    <3>4. SumFunctionOnSet(f, s) \in Nat
      BY <2>1, <3>2, SumNat
    <3>5. QED
      BY <3>1, <3>3, <3>4 DEF g
  <2>4. Own(s) \in [Tokens -> Nat]
    BY <2>3 DEF Own
  <2>5. QED
    BY <2>1, <2>2, <2>3, <2>4
<1>6. QED
  BY <1>1, <1>3, <1>4, <1>5

\* Lists, one after the other.
LEMMA ListAppends ==
  ASSUME NEW T, NEW s \in Seq(T), NEW u \in Seq(T)
  PROVE  /\ s \o u \in Seq(T)
         /\ Len(s) \in Nat /\ Len(u) \in Nat
         /\ Len(s \o u) = Len(s) + Len(u)
         /\ \A k \in 1 .. Len(s) : (s \o u)[k] = s[k]
         /\ \A k \in 1 .. Len(u) : (s \o u)[Len(s) + k] = u[k]
<1>1. Len(s) \in Nat /\ Len(u) \in Nat
  OBVIOUS
<1>2. s \o u \in Seq(T) /\ Len(s \o u) = Len(s) + Len(u)
  OBVIOUS
<1>3. \A k \in 1 .. Len(s) : (s \o u)[k] = s[k]
  BY <1>1
<1>4. \A k \in 1 .. Len(u) : (s \o u)[Len(s) + k] = u[k]
  BY <1>1
<1>5. QED
  BY <1>1, <1>2, <1>3, <1>4

LEMMA KindsTyped ==
  ASSUME NEW own
  PROVE  /\ KindsOf(own) \in SUBSET Tokens /\ IsFiniteSet(KindsOf(own))
         /\ MinAda[KindsOf(own)] \in Nat /\ Carrying(KindsOf(own)) \in Nat
<1>1. KindsOf(own) \in SUBSET Tokens
  BY DEF KindsOf
<1>2. IsFiniteSet(KindsOf(own))
  BY <1>1, WalletAssumption, FS_Subset
<1>3. MinAda[KindsOf(own)] \in Nat
  BY <1>1, WalletAssumption
<1>4. QED
  BY <1>1, <1>2, <1>3 DEF Carrying

\* What a surrender pays back to the claimant is a list of outputs that the
\* ledger takes.
LEMMA ChangeTyped ==
  ASSUME coins \in Seq(Utxo), NEW s \in SUBSET DOMAIN coins, NEW asks \in [Tokens -> Nat],
         Within(asks, Own(s))
  PROVE  /\ ChangeOf(s, asks) \in Seq(Utxo)
         /\ \A k \in DOMAIN ChangeOf(s, asks) : Fits(ChangeOf(s, asks)[k])
<1> DEFINE kept == Less(Own(s), asks)
           ada == Ada(s) - Paid - Fee
           first == Coin(1, [NoTokens EXCEPT ![Cmatra] = 1], "surrender")
           second == Coin(ada, kept, "surrender")
<1>1. Own(s) \in [Tokens -> Nat] /\ Ada(s) \in Nat
  BY CoinSums
<1>2. kept \in [Tokens -> Nat]
  BY <1>1 DEF Less, Within
<1> DEFINE least == MinAda[KindsOf(kept)]
<1>3. first \in Utxo /\ Fits(first)
  <2> DEFINE some == [NoTokens EXCEPT ![Cmatra] = 1]
  <2>1. some \in [Tokens -> Nat] /\ KindsOf(some) = {Cmatra}
    BY WalletAssumption DEF NoTokens, KindsOf
  <2> HIDE DEF some
  <2>2. MinAda[{Cmatra}] <= 1
    BY WalletAssumption
  <2>3. first.ada = 1 /\ first.own = some /\ first.by = "surrender"
    BY DEF Coin, some
  <2>4. first \in Utxo
    BY <2>1 DEF Coin, Utxo, some
  <2>5. QED
    BY <2>1, <2>2, <2>3, <2>4 DEF Fits
<1>4. Paid \in Nat /\ Fee \in Nat /\ least \in Nat
  BY WalletAssumption, KindsTyped
<1>5. ada \in Int
  BY <1>1, <1>4
<1>6. ada >= least => second \in Utxo
  BY <1>2, <1>4, <1>5 DEF Coin, Utxo
<1>7. ada >= least => Fits(second)
  BY DEF Coin, Fits
<1> HIDE DEF first, second, ada, least
<1>8. ChangeOf(s, asks) = <<first>> \o (IF ada < least THEN <<>> ELSE <<second>>)
  BY DEF ChangeOf, first, second, ada, least
<1>9. CASE ada < least
  BY <1>3, <1>8, <1>9
<1>10. CASE ~ (ada < least)
  <2>1. second \in Utxo /\ Fits(second)
    BY <1>4, <1>5, <1>6, <1>7, <1>10
  <2> DEFINE p == <<first>>
             q == <<second>>
  <2>2. ChangeOf(s, asks) = p \o q
    BY <1>8, <1>10
  <2>3. /\ p \in Seq(Utxo) /\ Len(p) = 1 /\ p[1] = first
        /\ q \in Seq(Utxo) /\ Len(q) = 1 /\ q[1] = second
    BY <1>3, <2>1
  <2> HIDE DEF p, q
  <2>4. p \in Seq(Utxo) /\ q \in Seq(Utxo)
    BY <2>3
  <2> DEFINE r == p \o q
  <2>5. /\ r \in Seq(Utxo) /\ Len(r) = Len(p) + Len(q)
        /\ \A k \in 1 .. Len(p) : r[k] = p[k]
        /\ \A k \in 1 .. Len(q) : r[Len(p) + k] = q[k]
    BY <2>4, ListAppends
  <2> HIDE DEF r
  <2>6. DOMAIN r = 1 .. 2 /\ r[1] = first /\ r[2] = second
    BY <2>3, <2>5
  <2>7. QED
    BY <1>3, <2>1, <2>2, <2>5, <2>6 DEF r
<1>11. QED
  BY <1>9, <1>10

-----------------------------------------------------------------------------
(* Numbers                                                                 *)

\* Outputs that come are numbered behind those there have been.
LEMMA OutputsCome ==
  ASSUME coins \in Seq(Utxo), NEW outs \in Seq(Utxo), coins' = coins \o outs,
         NEW new, new = Len(coins) + 1 .. Len(coins) + Len(outs)
  PROVE  /\ coins' \in Seq(Utxo)
         /\ DOMAIN coins' = DOMAIN coins \cup new
         /\ DOMAIN coins \cap new = {}
         /\ DOMAIN coins \subseteq Nat /\ new \subseteq Nat
         /\ new = {c \in DOMAIN coins' : c > Len(coins)}
         /\ \A c \in DOMAIN coins : coins'[c] = coins[c]
         /\ \A c \in new : \E k \in DOMAIN outs : coins'[c] = outs[k]
<1>1. /\ coins' \in Seq(Utxo) /\ Len(coins) \in Nat /\ Len(outs) \in Nat
      /\ Len(coins') = Len(coins) + Len(outs)
      /\ \A k \in 1 .. Len(coins) : coins'[k] = coins[k]
      /\ \A k \in 1 .. Len(outs) : coins'[Len(coins) + k] = outs[k]
  BY ListAppends
<1>2. DOMAIN coins = 1 .. Len(coins) /\ DOMAIN outs = 1 .. Len(outs)
      /\ DOMAIN coins' = 1 .. Len(coins) + Len(outs)
  BY <1>1
<1>3. DOMAIN coins' = DOMAIN coins \cup new /\ DOMAIN coins \cap new = {}
      /\ new = {c \in DOMAIN coins' : c > Len(coins)}
      /\ DOMAIN coins \subseteq Nat /\ new \subseteq Nat
  BY <1>1, <1>2
<1>4. ASSUME NEW c \in new
      PROVE  \E k \in DOMAIN outs : coins'[c] = outs[k]
  <2>1. c - Len(coins) \in 1 .. Len(outs) /\ Len(coins) + (c - Len(coins)) = c
    BY <1>1, <1>4
  <2>2. QED
    BY <1>1, <1>2, <2>1
<1>5. QED
  BY <1>1, <1>2, <1>3, <1>4

\* An accepted surrender is the youngest pending one.
LEMMA PendingGrows ==
  ASSUME Numbered, NEW e, e \in Entry, pending' = Append(pending, e)
  PROVE  /\ pending' \in Seq(Entry)
         /\ DOMAIN pending' = DOMAIN pending \cup {Len(pending) + 1}
         /\ Len(pending) \in Nat /\ DOMAIN pending = 1 .. Len(pending)
         /\ \A k \in DOMAIN pending : pending'[k] = pending[k] /\ k < Len(pending) + 1
         /\ pending'[Len(pending) + 1] = e
<1>1. pending \in Seq(Entry)
  BY DEF Numbered
<1>2. QED
  BY <1>1

\* What is accepted, as far as numbers go.
Landing(tx, new) ==
  /\ coins' = coins \o tx.change
  /\ new = Len(coins) + 1 .. Len(coins) + Len(tx.change)
  /\ tx.pool = head.at
  /\ tx.spends \cup ({tx.collateral} \ {None}) \subseteq live
  /\ live' = (live \ tx.spends) \cup new
  /\ pending' = Append(pending, [from |-> head.at, spends |-> tx.spends, outs |-> new,
                                 collateral |-> tx.collateral])
  /\ head' = [at |-> head.next, next |-> head.next + 1]
  /\ UNCHANGED <<listed, moved, moves>>

LEMMA AcceptedLands ==
  ASSUME NEW tx, Accepted(tx)
  PROVE  \E new : Landing(tx, new)
<1> WITNESS Len(coins) + 1 .. Len(coins) + Len(tx.change)
<1> QED BY DEF Accepted, Landing

LEMMA LandingEntry ==
  ASSUME Numbered, NEW tx, IsSurrender(tx), NEW new, Landing(tx, new)
  PROVE  [from |-> head.at, spends |-> tx.spends, outs |-> new,
          collateral |-> tx.collateral] \in Entry
<1>1. coins \in Seq(Utxo) /\ tx.change \in Seq(Utxo) /\ head.at \in Nat
  BY DEF Numbered, IsSurrender
<1>2. DOMAIN coins \subseteq Nat /\ new \subseteq Nat
  BY <1>1, OutputsCome DEF Landing
<1>3. tx.spends \subseteq Nat /\ (tx.collateral \in Nat \/ tx.collateral = None)
  BY <1>2 DEF IsSurrender
<1>4. QED
  BY <1>1, <1>2, <1>3 DEF Entry

LEMMA LandingNumbered ==
  ASSUME Numbered, NEW tx, IsSurrender(tx), NEW new, Landing(tx, new),
         open' \subseteq open,
         reserved' \subseteq reserved,
         tip'.at \in Nat, tip'.at < head'.next,
         carried' # None => carried' \subseteq DOMAIN coins'
  PROVE  Numbered'
<1> DEFINE e == [from |-> head.at, spends |-> tx.spends, outs |-> new,
                 collateral |-> tx.collateral]
<1>1. e \in Entry
  BY LandingEntry
<1>2. /\ pending' \in Seq(Entry)
      /\ DOMAIN pending' = DOMAIN pending \cup {Len(pending) + 1}
      /\ \A k \in DOMAIN pending : pending'[k] = pending[k]
      /\ pending'[Len(pending) + 1] = e
  <2>1. pending' = Append(pending, e)
    BY DEF Landing
  <2> HIDE DEF e
  <2>2. QED
    BY <1>1, <2>1, PendingGrows
<1>3. /\ coins' \in Seq(Utxo)
      /\ DOMAIN coins' = DOMAIN coins \cup new
  BY OutputsCome DEF Numbered, IsSurrender, Landing
<1>4. head.at \in Nat /\ head.next \in Nat /\ head.at < head.next
      /\ head'.at = head.next /\ head'.next = head.next + 1
  BY DEF Numbered, Landing
<1>5. /\ live' \subseteq DOMAIN coins' /\ listed' \subseteq DOMAIN coins'
      /\ reserved' \subseteq DOMAIN coins' /\ moved' \subseteq DOMAIN coins'
  BY <1>3 DEF Numbered, Landing
<1>6. ASSUME NEW k \in DOMAIN pending'
      PROVE  /\ pending'[k].from < head'.at
             /\ pending'[k].spends \subseteq DOMAIN coins'
             /\ pending'[k].outs \subseteq DOMAIN coins'
             /\ pending'[k].collateral # None => pending'[k].collateral \in DOMAIN coins'
  <2>1. CASE k \in DOMAIN pending
    <3>1. IsPending(pending[k]) /\ pending[k] \in Entry
      BY <2>1 DEF Numbered
    <3>2. pending[k].from \in Nat
      BY <3>1 DEF Entry
    <3>3. pending'[k] = pending[k]
      BY <1>2, <2>1
    <3>4. QED
      BY <1>3, <1>4, <3>1, <3>2, <3>3 DEF IsPending
  <2>2. CASE k = Len(pending) + 1
    BY <1>2, <1>3, <1>4, <2>2 DEF IsSurrender
  <2>3. QED
    BY <1>2, <2>1, <2>2
<1>7. ASSUME NEW b \in open'
      PROVE  IsBuild(b)'
  <2>1. IsBuild(b)
    BY <1>7 DEF Numbered
  <2>2. QED
    BY <1>3, <1>4, <2>1 DEF IsBuild, IsSurrender
<1>8. QED
  <2>1. \A k \in DOMAIN pending' : IsPending(pending[k])'
    BY <1>6 DEF IsPending
  <2>2. \A b \in open' : IsBuild(b)'
    BY <1>7
  <2>3. QED
    BY <1>2, <1>3, <1>4, <1>5, <2>1, <2>2 DEF Numbered

\* The other steps bring no pending surrender and no output of the pool.
LEMMA NumberedFrame ==
  ASSUME Numbered, coins' \in Seq(Utxo), DOMAIN coins \subseteq DOMAIN coins',
         live' \subseteq DOMAIN coins', listed' \subseteq DOMAIN coins',
         reserved' \subseteq DOMAIN coins', moved' \subseteq DOMAIN coins',
         head'.next = head.next, head'.at \in Nat, head'.at < head.next,
         tip'.at \in Nat, tip'.at < head.next,
         carried' # None => carried' \subseteq DOMAIN coins',
         pending' \in Seq(Entry),
         \A k \in DOMAIN pending' : \E j \in DOMAIN pending :
             pending'[k] = pending[j] /\ pending[j].from < head'.at,
         \A tx \in open' : tx \in open \/ IsBuild(tx)
  PROVE  Numbered'
<1>1. ASSUME NEW k \in DOMAIN pending'
      PROVE  IsPending(pending[k])'
  <2>1. PICK j \in DOMAIN pending : pending'[k] = pending[j] /\ pending[j].from < head'.at
    BY <1>1
  <2>2. IsPending(pending[j])
    BY DEF Numbered
  <2>3. QED
    BY <2>1, <2>2 DEF IsPending
<1>2. ASSUME NEW tx \in open'
      PROVE  IsBuild(tx)'
  <2>1. IsBuild(tx)
    BY <1>2 DEF Numbered
  <2>2. QED
    BY <2>1 DEF IsBuild, IsSurrender
<1>3. QED
  BY <1>1, <1>2 DEF Numbered

\* The selected collateral is listed, large enough and nobody else's.
LEMMA CollateralChosen ==
  ASSUME Numbered
  PROVE  SelectCollateral # None =>
            /\ SelectCollateral \in Collaterals(listed)
            /\ SelectCollateral \in listed /\ SelectCollateral \in DOMAIN coins
            /\ SelectCollateral \notin reserved
<1> DEFINE C == Collaterals(listed)
<1>1. C \subseteq listed /\ C \subseteq DOMAIN coins /\ C \cap reserved = {}
  BY DEF Collaterals, PureAda, Numbered
<1>2. ASSUME C # {}
      PROVE  \E c \in C : \A d \in C : coins[c].ada <= coins[d].ada
  <2>1. \A c \in C : AdaIn[c] = coins[c].ada /\ AdaIn[c] \in Nat
    BY <1>1, CoinSums DEF Numbered
  <2> HIDE DEF C
  <2>2. \E c \in C : \A d \in C : AdaIn[c] <= AdaIn[d]
    BY <1>2, <2>1, LeastRank
  <2>3. QED
    BY <2>1, <2>2
<1>3. SelectCollateral # None => SelectCollateral \in C
  BY <1>2 DEF SelectCollateral
<1>4. QED
  BY <1>1, <1>3

LEMMA SpendableKnown ==
  ASSUME Numbered
  PROVE  /\ Explicit \subseteq DOMAIN coins
         /\ \A c : Spendable(Explicit, c) \subseteq DOMAIN coins
         /\ \A c : Offered(Explicit) \subseteq DOMAIN coins
<1>1. Explicit \subseteq DOMAIN coins
  BY DEF Numbered, Explicit
<1>2. listed \subseteq DOMAIN coins /\ PureAda(listed, SpareFloor) \subseteq listed
  BY DEF Numbered, PureAda
<1>3. ASSUME NEW c
      PROVE  Spendable(Explicit, c) \subseteq DOMAIN coins
  BY <1>1, <1>2 DEF Spendable
<1>4. Offered(Explicit) \subseteq DOMAIN coins
  BY <1>2, <1>3 DEF Offered
<1>5. QED
  BY <1>1, <1>3, <1>4

\* What a build hands out: a surrender on the tip, which spends the change
\* carried forward.
LEMMA BuildHandsOut ==
  ASSUME Numbered, NEW asks \in Asks, Built(asks)
  PROVE  \E tx : /\ open' = open \cup {tx}
                 /\ IsBuild(tx)
                 /\ tx.pool = tip.at /\ tx.explicit = Explicit
                 /\ tx.collateral = SelectCollateral
                 /\ reserved' = reserved \cup ({SelectCollateral} \ {None})
<1> DEFINE c == SelectCollateral
           spendable == Spendable(Explicit, c)
           Tx(s) == [pool |-> tip.at, spends |-> s, explicit |-> Explicit,
                     collateral |-> c, change |-> ChangeOf(s, asks)]
<1>1. PICK s \in Funds(Explicit, spendable, asks) : open' = open \cup {Tx(s)}
  BY DEF Built
<1>2. s \subseteq spendable /\ Within(asks, Own(s))
  BY DEF Funds
<1>3. s \subseteq DOMAIN coins /\ Explicit \subseteq DOMAIN coins
  BY <1>2, SpendableKnown
<1>4. asks \in [Tokens -> Nat] /\ coins \in Seq(Utxo)
  BY WalletAssumption DEF Numbered
<1>5. /\ ChangeOf(s, asks) \in Seq(Utxo)
      /\ \A k \in DOMAIN ChangeOf(s, asks) : Fits(ChangeOf(s, asks)[k])
  BY <1>2, <1>3, <1>4, ChangeTyped
<1>6. c # None => c \in DOMAIN coins
  BY CollateralChosen
<1>7. tip.at \in Nat /\ tip.at < head.next
  BY DEF Numbered
<1>8. IsBuild(Tx(s))
  BY <1>3, <1>5, <1>6, <1>7 DEF IsBuild, IsSurrender
<1>9. reserved' = reserved \cup ({c} \ {None})
  BY DEF Built
<1>10. WITNESS Tx(s)
<1>11. QED
  BY <1>1, <1>8, <1>9

-----------------------------------------------------------------------------
(* The split of an output                                                  *)

LEMMA SmallImage ==
  ASSUME NEW K, IsFiniteSet(K), NEW f
  PROVE  LET T == {f[k] : k \in K}
         IN  IsFiniteSet(T) /\ Cardinality(T) <= Cardinality(K)
<1> DEFINE T == {f[k] : k \in K}
           g == [k \in K |-> f[k]]
<1>1. g \in Surjection(K, T)
  BY DEF Surjection
<1>2. IsFiniteSet(T) /\ Cardinality(T) <= Cardinality(K)
  BY <1>1, FS_Surjection
<1>3. QED
  BY <1>2

\* A finite set in some order.
LEMMA Ordered ==
  ASSUME NEW S, IsFiniteSet(S)
  PROVE  /\ Cardinality(S) \in Nat
         /\ SetToSeq(S) \in [1 .. Cardinality(S) -> S]
<1> DEFINE n == Cardinality(S)
<1>1. n \in Nat /\ ExistsBijection(1 .. n, S)
  BY FS_CardinalityType
<1>2. PICK f \in Bijection(1 .. n, S) : TRUE
  BY <1>1 DEF ExistsBijection
<1>3. f \in [1 .. n -> S] /\ IsInjective(f)
  BY <1>2 DEF Bijection, Injection, IsInjective
<1>4. SetToSeq(S) \in [1 .. n -> S]
  BY <1>3 DEF SetToSeq
<1>5. QED
  BY <1>1, <1>4

\* The parts of the plan are of the kinds that are split, and none has more of
\* them than an output may hold.
LEMMA PlanIsLean ==
  ASSUME NEW kinds, IsFiniteSet(kinds)
  PROVE  /\ \E n \in Nat : DOMAIN Plan(kinds) = 1 .. n
         /\ \A i \in DOMAIN Plan(kinds) :
               /\ Plan(kinds)[i] \subseteq kinds
               /\ IsFiniteSet(Plan(kinds)[i]) /\ Cardinality(Plan(kinds)[i]) <= MaxTokens
<1> DEFINE order == SetToSeq(kinds)
           m == Cardinality(kinds)
           n == (Len(order) + MaxTokens - 1) \div MaxTokens
           K(i) == {k \in DOMAIN order : (i - 1) * MaxTokens < k /\ k <= i * MaxTokens}
<1>1. m \in Nat /\ order \in [1 .. m -> kinds]
  BY Ordered
<1>2. DOMAIN order = 1 .. m /\ Len(order) = m
  BY <1>1
<1>3. MaxTokens \in Nat /\ MaxTokens > 0
  BY WalletAssumption
<1> HIDE DEF order, m
<1>4. n \in Nat
  <2> DEFINE top == Len(order) + MaxTokens - 1
  <2>1. top \in Nat
    BY <1>1, <1>2, <1>3
  <2> HIDE DEF top
  <2>2. top \div MaxTokens \in Nat
    BY <1>3, <2>1
  <2>3. QED
    BY <2>2 DEF top
<1> HIDE DEF n
<1>5. Plan(kinds) = [i \in 1 .. n |-> {order[k] : k \in K(i)}]
  BY DEF Plan, n, order
<1>6. ASSUME NEW i \in 1 .. n
      PROVE  LET T == {order[k] : k \in K(i)}
             IN  T \subseteq kinds /\ IsFiniteSet(T) /\ Cardinality(T) <= MaxTokens
  <2> DEFINE last == i * MaxTokens
             before == (i - 1) * MaxTokens
             span == before + 1 .. last
  <2>1. i \in Int
    BY <1>4
  <2>2. last \in Int /\ before \in Int /\ last = before + MaxTokens
    BY <1>3, <2>1
  <2>3. \A k \in K(i) : k \in Int /\ before < k /\ k <= last /\ order[k] \in kinds
    BY <1>1, <1>2
  <2> HIDE DEF last, before
  <2>4. IsFiniteSet(span) /\ Cardinality(span) = MaxTokens
    BY <1>3, <2>2, FS_Interval
  <2>5. K(i) \subseteq span
    BY <2>2, <2>3
  <2> HIDE DEF K, span
  <2>6. IsFiniteSet(K(i)) /\ Cardinality(K(i)) <= MaxTokens
    BY <2>4, <2>5, FS_Subset
  <2>7. IsFiniteSet({order[k] : k \in K(i)})
        /\ Cardinality({order[k] : k \in K(i)}) <= Cardinality(K(i))
    BY <2>6, SmallImage
  <2>8. Cardinality({order[k] : k \in K(i)}) \in Nat /\ Cardinality(K(i)) \in Nat
    BY <2>6, <2>7, FS_CardinalityType
  <2>9. {order[k] : k \in K(i)} \subseteq kinds
    BY <2>3
  <2>10. QED
    BY <1>3, <2>6, <2>7, <2>8, <2>9
<1>7. QED
  BY <1>4, <1>5, <1>6

\* Whatever the holder does by himself spends outputs and makes others that
\* hold their minimum, and those of a split are lean.
LEMMA HolderSpends ==
  ASSUME Numbered, NEW c \in listed,
         Move(c) \/ \E extra \in {{}} \cup {{d} : d \in PureAda(listed, 0)} : Defrag(c, extra)
  PROVE  \E s, outs : /\ Spend(s, outs)
                      /\ outs \in Seq(Utxo)
                      /\ \A k \in DOMAIN outs : Fits(outs[k])
<1>1. CASE Move(c)
  <2>1. Spend({c}, <<>>)
    BY <1>1 DEF Move
  <2>2. <<>> \in Seq(Utxo) /\ DOMAIN <<>> = {}
    OBVIOUS
  <2>3. QED
    BY <2>1, <2>2
<1>2. ASSUME NEW extra \in {{}} \cup {{d} : d \in PureAda(listed, 0)}, Defrag(c, extra)
      PROVE  \E s, outs : /\ Spend(s, outs)
                          /\ outs \in Seq(Utxo)
                          /\ \A k \in DOMAIN outs : Fits(outs[k])
  <2> DEFINE own == coins[c].own
             plan == Plan(KindsOf(own))
             bag(i) == [t \in Tokens |-> IF t \in plan[i] THEN own[t] ELSE 0]
             lean == [i \in DOMAIN plan |-> Coin(MinAda[plan[i]], bag(i), "defrag")]
             sum == SumFunction([i \in DOMAIN lean |-> lean[i].ada])
             left == Ada({c} \cup extra) - Fee - sum
             one == Coin(left, NoTokens, "defrag")
             rest == IF left < MinAda[{}] THEN <<>> ELSE <<one>>
  <2>1. left >= 0 /\ Spend({c} \cup extra, lean \o rest)
    BY <1>2 DEF Defrag
  <2>2. coins \in Seq(Utxo) /\ c \in DOMAIN coins /\ extra \subseteq DOMAIN coins
    BY DEF Numbered, PureAda
  <2>3. own \in [Tokens -> Nat]
    <3>1. coins[c] \in Utxo
      BY <2>2
    <3>2. QED
      BY <3>1 DEF Utxo
  <2>4. KindsOf(own) \subseteq Tokens /\ IsFiniteSet(KindsOf(own))
    BY KindsTyped
  <2> HIDE DEF own
  <2>5. PICK n \in Nat : DOMAIN plan = 1 .. n
    BY <2>4, PlanIsLean
  <2>6. \A i \in DOMAIN plan : /\ plan[i] \subseteq KindsOf(own)
                              /\ IsFiniteSet(plan[i]) /\ Cardinality(plan[i]) <= MaxTokens
    BY <2>4, PlanIsLean
  <2>7. MinAda[{}] \in Nat /\ Fee \in Nat /\ MaxTokens \in Nat /\ Paid \in Nat
    BY WalletAssumption
  <2>8. Ada({c} \cup extra) \in Nat
    <3>1. {c} \cup extra \in SUBSET DOMAIN coins
      BY <2>2
    <3>2. QED
      BY <2>2, <3>1, CoinSums
  <2>9. \A i \in DOMAIN plan : MinAda[plan[i]] \in Nat
    BY <2>4, <2>6, WalletAssumption
  <2>10. left \in Nat
    <3> DEFINE f == [i \in DOMAIN lean |-> lean[i].ada]
    <3>1. IsFiniteSet(DOMAIN lean)
      <4>1. DOMAIN lean = 1 .. n
        BY <2>5
      <4> HIDE DEF lean
      <4>2. QED
        BY <4>1, FS_Interval
    <3>2. \A i \in DOMAIN lean : f[i] \in Nat
      BY <2>9 DEF Coin
    <3>3. DOMAIN f = DOMAIN lean /\ sum = SumFunctionOnSet(f, DOMAIN f)
      BY DEF SumFunction
    <3> HIDE DEF f, lean, sum
    <3>4. sum \in Nat
      BY <3>1, <3>2, <3>3, SumNat
    <3>5. QED
      BY <2>1, <2>7, <2>8, <3>4
  <2> HIDE DEF plan, left
  <2>11. ASSUME NEW i \in DOMAIN plan
         PROVE  lean[i] \in Utxo /\ Fits(lean[i])
    <3>1. bag(i) \in [Tokens -> Nat]
      BY <2>3
    <3>2. lean[i] \in Utxo /\ lean[i].own = bag(i) /\ lean[i].ada = MinAda[plan[i]]
      BY <2>9, <3>1 DEF Coin, Utxo
    <3>3. KindsOf(bag(i)) = plan[i]
      BY <2>3, <2>4, <2>6, <3>1 DEF KindsOf
    <3>4. QED
      BY <2>6, <2>9, <3>2, <3>3 DEF Fits
  <2>12. ASSUME left >= MinAda[{}]
         PROVE  one \in Utxo /\ Fits(one)
    <3>1. NoTokens \in [Tokens -> Nat]
      BY DEF NoTokens
    <3>2. one \in Utxo /\ one.own = NoTokens
      BY <2>10, <3>1 DEF Coin, Utxo
    <3>3. KindsOf(NoTokens) = {}
      BY DEF KindsOf, NoTokens
    <3>4. Cardinality(KindsOf(NoTokens)) = 0
      BY <3>3, FS_EmptySet
    <3>5. one.ada = left
      BY DEF Coin
    <3>6. QED
      BY <2>7, <2>12, <3>2, <3>3, <3>4, <3>5 DEF Fits
  <2>13. lean \in Seq(Utxo) /\ Len(lean) = n
    <3> HIDE DEF lean
    <3>1. lean = [i \in 1 .. n |-> lean[i]]
      BY <2>5 DEF lean
    <3>2. \A i \in 1 .. n : lean[i] \in Utxo
      BY <2>5, <2>11
    <3>3. lean \in [1 .. n -> Utxo]
      BY <3>1, <3>2
    <3>4. QED
      BY <3>3
  <2> HIDE DEF lean, one
  <2>14. rest \in Seq(Utxo) /\ \A k \in 1 .. Len(rest) : Fits(rest[k])
    <3>1. CASE left < MinAda[{}]
      BY <3>1
    <3>2. CASE ~ (left < MinAda[{}])
      <4>1. rest = <<one>>
        BY <3>2
      <4>2. one \in Utxo /\ Fits(one)
        BY <2>7, <2>10, <2>12, <3>2
      <4>3. QED
        BY <4>1, <4>2
    <3>3. QED
      BY <3>1, <3>2
  <2> HIDE DEF rest
  <2> DEFINE outs == lean \o rest
  <2>15. /\ outs \in Seq(Utxo) /\ Len(rest) \in Nat
         /\ Len(outs) = n + Len(rest)
         /\ \A k \in 1 .. n : outs[k] = lean[k]
         /\ \A k \in 1 .. Len(rest) : outs[n + k] = rest[k]
    <3>1. lean \in Seq(Utxo) /\ rest \in Seq(Utxo)
      BY <2>13, <2>14
    <3>2. /\ outs \in Seq(Utxo) /\ Len(rest) \in Nat
          /\ Len(outs) = Len(lean) + Len(rest)
          /\ \A k \in 1 .. Len(lean) : outs[k] = lean[k]
          /\ \A k \in 1 .. Len(rest) : outs[Len(lean) + k] = rest[k]
      BY <3>1, ListAppends
    <3>3. QED
      BY <2>13, <3>2
  <2>16. Spend({c} \cup extra, outs)
    BY <2>1
  <2> HIDE DEF outs
  <2>17. ASSUME NEW k \in DOMAIN outs
         PROVE  Fits(outs[k])
    <3>1. DOMAIN outs = 1 .. n + Len(rest)
      BY <2>15
    <3>2. CASE k \in 1 .. n
      BY <2>5, <2>11, <2>15, <3>2
    <3>3. CASE k \notin 1 .. n
      <4>1. k - n \in 1 .. Len(rest) /\ n + (k - n) = k
        BY <2>15, <3>1, <3>3
      <4>2. outs[k] = rest[k - n]
        BY <2>15, <4>1
      <4>3. QED
        BY <2>14, <4>1, <4>2
    <3>4. QED
      BY <3>2, <3>3
  <2>18. QED
    BY <2>15, <2>16, <2>17
<1>3. QED
  BY <1>1, <1>2

-----------------------------------------------------------------------------
(* Numbers stay in order                                                   *)

\* Where a tip is seeded: an output of the pool there has been.
LEMMA SeedKnown ==
  ASSUME Numbered
  PROVE  ConfirmedPool(head, pending) \in Nat /\ ConfirmedPool(head, pending) < head.next
<1>1. CASE pending = <<>>
  BY <1>1 DEF Numbered, ConfirmedPool
<1>2. CASE pending # <<>>
  <2>1. 1 \in DOMAIN pending /\ pending \in Seq(Entry)
    BY <1>2 DEF Numbered
  <2>2. IsPending(pending[1]) /\ pending[1] \in Entry
    BY <2>1 DEF Numbered
  <2>3. pending[1].from \in Nat /\ pending[1].from < head.at
    BY <2>2 DEF IsPending, Entry
  <2>4. QED
    BY <1>2, <2>3 DEF Numbered, ConfirmedPool
<1>3. QED
  BY <1>1, <1>2

\* The same once a surrender has been accepted.
LEMMA SeedAfterLanding ==
  ASSUME Numbered, NEW tx, IsSurrender(tx), NEW new, Landing(tx, new)
  PROVE  ConfirmedPool(head', pending') \in Nat /\ ConfirmedPool(head', pending') < head'.next
<1> DEFINE e == [from |-> head.at, spends |-> tx.spends, outs |-> new,
                 collateral |-> tx.collateral]
<1>1. e \in Entry
  BY LandingEntry
<1>2. e.from = head.at
  OBVIOUS
<1>3. pending' = Append(pending, e)
  BY DEF Landing
<1> HIDE DEF e
<1>4. /\ pending' \in Seq(Entry)
      /\ DOMAIN pending' = DOMAIN pending \cup {Len(pending) + 1}
      /\ Len(pending) \in Nat /\ DOMAIN pending = 1 .. Len(pending)
      /\ \A k \in DOMAIN pending : pending'[k] = pending[k]
      /\ pending'[Len(pending) + 1] = e
  BY <1>1, <1>3, PendingGrows
<1>5. head.at \in Nat /\ head.next \in Nat /\ head.at < head.next /\ head'.next = head.next + 1
  BY DEF Numbered, Landing
<1>6. 1 \in DOMAIN pending'
  BY <1>4
<1>7. pending'[1].from \in Nat /\ pending'[1].from <= head.at
  <2>1. CASE 1 \in DOMAIN pending
    <3>1. IsPending(pending[1]) /\ pending[1] \in Entry
      BY <2>1 DEF Numbered
    <3>2. pending[1].from \in Nat /\ pending[1].from < head.at
      BY <3>1 DEF IsPending, Entry
    <3>3. pending'[1] = pending[1]
      BY <1>4, <2>1
    <3>4. QED
      BY <1>5, <3>2, <3>3
  <2>2. CASE 1 \notin DOMAIN pending
    <3>1. pending'[1] = e
      BY <1>4, <1>6, <2>2
    <3>2. QED
      BY <1>2, <1>5, <3>1
  <2>3. QED
    BY <2>1, <2>2
<1>8. pending' # <<>>
  BY <1>6
<1>9. ConfirmedPool(head', pending') = pending'[1].from
  BY <1>8 DEF ConfirmedPool
<1>10. QED
  BY <1>5, <1>7, <1>9

LEMMA LandingInOrder ==
  ASSUME Numbered, InOrder, NEW tx, IsSurrender(tx), NEW new, Landing(tx, new)
  PROVE  InOrder'
<1> DEFINE e == [from |-> head.at, spends |-> tx.spends, outs |-> new,
                 collateral |-> tx.collateral]
<1>1. e \in Entry
  BY LandingEntry
<1>2. e.from = head.at
  OBVIOUS
<1>3. pending' = Append(pending, e)
  BY DEF Landing
<1> HIDE DEF e
<1>4. /\ DOMAIN pending' = DOMAIN pending \cup {Len(pending) + 1}
      /\ Len(pending) \in Nat /\ DOMAIN pending = 1 .. Len(pending)
      /\ \A k \in DOMAIN pending : pending'[k] = pending[k] /\ k < Len(pending) + 1
      /\ pending'[Len(pending) + 1] = e
  BY <1>1, <1>3, PendingGrows
<1>5. \A k \in DOMAIN pending : pending[k].from < head.at
  BY DEF Numbered, IsPending
<1>6. ASSUME NEW i \in DOMAIN pending', NEW j \in DOMAIN pending', i < j
      PROVE  pending'[i].from < pending'[j].from
  <2>1. i \in DOMAIN pending
    BY <1>4, <1>6
  <2>2. CASE j \in DOMAIN pending
    BY <1>4, <1>6, <2>1, <2>2 DEF InOrder
  <2>3. CASE j = Len(pending) + 1
    BY <1>2, <1>4, <1>5, <2>1, <2>3
  <2>4. QED
    BY <1>4, <2>2, <2>3
<1>7. QED
  BY <1>6 DEF InOrder

\* The oldest pending surrender settles.
LEMMA SettleKeeps ==
  ASSUME Numbered, Settle
  PROVE  /\ pending' \in Seq(Entry)
         /\ 1 \in DOMAIN pending
         /\ \A k \in DOMAIN pending' : k + 1 \in DOMAIN pending /\ pending'[k] = pending[k + 1]
         /\ DOMAIN pending' \subseteq Nat
         /\ UNCHANGED <<coins, live, head, tip, reserved, carried, open, forgot, moved>>
         /\ listed' \subseteq DOMAIN coins
<1>1. pending \in Seq(Entry) /\ pending # <<>> /\ pending' = Tail(pending)
  BY DEF Numbered, Settle
<1>2. 1 \in DOMAIN pending /\ pending' \in Seq(Entry) /\ DOMAIN pending' \subseteq Nat
  BY <1>1
<1>3. \A k \in DOMAIN pending' : k + 1 \in DOMAIN pending /\ pending'[k] = pending[k + 1]
  BY <1>1
<1>4. IsPending(pending[1])
  BY <1>2 DEF Numbered
<1>5. listed' \subseteq DOMAIN coins
  BY <1>4 DEF Settle, IsPending, Numbered
<1>6. QED
  BY <1>2, <1>3, <1>5 DEF Settle

\* The youngest is dropped.
LEMMA DropKeeps ==
  ASSUME Numbered, Drop
  PROVE  \E n \in DOMAIN pending :
           /\ pending' \in Seq(Entry)
           /\ n \in Nat /\ DOMAIN pending = 1 .. n /\ DOMAIN pending' = 1 .. n - 1
           /\ \A k \in 1 .. n - 1 : pending'[k] = pending[k]
           /\ pending[n].outs \subseteq live
           /\ live' = (live \ pending[n].outs) \cup pending[n].spends
           /\ head'.at = pending[n].from /\ head'.next = head.next
           /\ head'.at \in Nat /\ head'.at < head.at
           /\ live' \subseteq DOMAIN coins
           /\ UNCHANGED <<coins, listed, tip, reserved, carried, open, forgot, moved>>
<1> DEFINE n == Len(pending)
<1>1. pending \in Seq(Entry) /\ pending # <<>> /\ pending' = SubSeq(pending, 1, n - 1)
  BY DEF Numbered, Drop, Front
<1>2. n \in Nat /\ n >= 1 /\ DOMAIN pending = 1 .. n /\ n \in DOMAIN pending
  BY <1>1
<1>3. pending' \in Seq(Entry) /\ Len(pending') = n - 1
  BY <1>1, <1>2
<1>4. \A k \in 1 .. n - 1 : pending'[k] = pending[k]
  BY <1>1, <1>2
<1>5. IsPending(pending[n]) /\ pending[n] \in Entry
  BY <1>1, <1>2 DEF Numbered
<1>6. pending[n].from \in Nat
  BY <1>5 DEF Entry
<1>7. /\ pending[n].outs \subseteq live
      /\ live' = (live \ pending[n].outs) \cup pending[n].spends
      /\ head' = [head EXCEPT !.at = pending[n].from]
      /\ UNCHANGED <<coins, listed, tip, reserved, carried, open, forgot, moved>>
  BY DEF Drop
<1>8. head'.at = pending[n].from /\ head'.next = head.next
  BY <1>7 DEF Numbered
<1>9. live' \subseteq DOMAIN coins
  BY <1>5, <1>7 DEF IsPending, Numbered
<1>10. QED
  BY <1>2, <1>3, <1>4, <1>5, <1>6, <1>7, <1>8, <1>9 DEF IsPending

\* What a submission that was accepted changes.
LEMMA SubmitLands ==
  ASSUME Numbered, NEW tx \in open, NEW g, NEW s, WalletSubmits(tx, g, s)
  PROVE  \E new : /\ Landing(tx, new) /\ IsBuild(tx)
                  /\ open' = open \ {tx}
                  /\ new = {c \in DOMAIN coins' : c > Len(coins)}
                  /\ DOMAIN coins' = DOMAIN coins \cup new
                  /\ DOMAIN coins \cap new = {}
                  /\ \/ /\ tip'.at = head.next /\ carried' = new
                        /\ UNCHANGED <<reserved, forgot>>
                     \/ /\ tip'.at \in Nat /\ tip'.at < head'.next
                        /\ reserved' = {} /\ carried' = None
                        /\ forgot' = TRUE
<1>1. IsBuild(tx)
  BY DEF Numbered
<1>2. PICK new : Landing(tx, new)
  BY AcceptedLands DEF WalletSubmits
<1>3. /\ new = {c \in DOMAIN coins' : c > Len(coins)}
      /\ DOMAIN coins' = DOMAIN coins \cup new
      /\ DOMAIN coins \cap new = {}
  BY <1>1, <1>2, OutputsCome, SMTT(30) DEF Numbered, Landing, IsBuild, IsSurrender
<1>4. open' = open \ {tx}
  BY DEF WalletSubmits
<1>5. CASE g
  <2>1. tip'.at = head'.at /\ carried' = {c \in DOMAIN coins' : c > Len(coins)}
        /\ UNCHANGED <<reserved, forgot>>
    BY <1>5 DEF WalletSubmits
  <2>2. tip'.at = head.next /\ carried' = new
    BY <1>2, <1>3, <2>1 DEF Landing
  <2>3. QED
    BY <1>1, <1>2, <1>3, <1>4, <2>1, <2>2
<1>6. CASE ~ g
  <2>1. Reseed(s, head', pending')
    BY <1>6 DEF WalletSubmits
  <2>2. ConfirmedPool(head', pending') \in Nat /\ ConfirmedPool(head', pending') < head'.next
    BY <1>1, <1>2, SeedAfterLanding DEF IsBuild
  <2>3. tip.at \in Nat /\ tip.at < head'.next
    BY <1>2 DEF Numbered, Landing
  <2>4. tip'.at \in Nat /\ tip'.at < head'.next
    BY <2>1, <2>2, <2>3 DEF Reseed
  <2>5. pending' # <<>>
    <3>1. pending \in Seq(Entry)
      BY DEF Numbered
    <3>2. QED
      BY <1>2, <3>1 DEF Landing
  <2>6. reserved' = {} /\ carried' = None /\ forgot' = TRUE
    BY <2>1, <2>5 DEF Reseed
  <2>7. QED
    BY <1>1, <1>2, <1>3, <1>4, <2>4, <2>6
<1>7. QED
  BY <1>5, <1>6

\* Another claimant's surrender, which is nothing to this wallet.
LEMMA OtherLands ==
  ASSUME Numbered, OtherSurrender
  PROVE  \E tx : /\ IsSurrender(tx) /\ Landing(tx, {})
                 /\ tx.spends = {} /\ tx.collateral = None
                 /\ tx.pool = tip.at /\ tx.change = <<>>
                 /\ tip'.at = head.next
                 /\ UNCHANGED <<coins, live, reserved, carried, open, forgot>>
<1> DEFINE tx == [pool |-> tip.at, spends |-> {}, change |-> <<>>, collateral |-> None]
<1>1. IsSurrender(tx)
  BY DEF IsSurrender, Numbered
<1>2. coins \in Seq(Utxo) /\ Len(coins) \in Nat
  BY DEF Numbered
<1>3. coins \o <<>> = coins /\ Len(coins) + 1 .. Len(coins) + Len(<<>>) = {}
  BY <1>2
<1>4. PICK new : Landing(tx, new)
  <2>1. Accepted(tx)
    BY DEF OtherSurrender
  <2> HIDE DEF tx
  <2>2. QED
    BY <2>1, AcceptedLands
<1>5. new = {} /\ coins' = coins /\ live' = live
  BY <1>3, <1>4 DEF Landing
<1>6. tip'.at = head'.at /\ UNCHANGED <<reserved, carried, open, forgot>>
  BY DEF OtherSurrender
<1>7. tip'.at = head.next
  BY <1>4, <1>6 DEF Landing
<1>8. QED
  BY <1>1, <1>4, <1>5, <1>6, <1>7

\* What the holder spends by himself.
LEMMA SpendKeeps ==
  ASSUME Numbered, NEW s, NEW outs \in Seq(Utxo), Spend(s, outs)
  PROVE  \E new : /\ coins' \in Seq(Utxo)
                  /\ DOMAIN coins' = DOMAIN coins \cup new
                  /\ DOMAIN coins \cap new = {}
                  /\ \A c \in DOMAIN coins : coins'[c] = coins[c]
                  /\ \A c \in new : \E k \in DOMAIN outs : coins'[c] = outs[k]
                  /\ s \subseteq live
                  /\ live' = (live \ s) \cup new
                  /\ listed' = (listed \ s) \cup new
                  /\ moved' = moved \cup s
                  /\ UNCHANGED <<pending, head, tip, reserved, carried, open, forgot>>
<1> DEFINE new == Len(coins) + 1 .. Len(coins) + Len(outs)
<1>1. coins \in Seq(Utxo) /\ coins' = coins \o outs
  BY DEF Numbered, Spend
<1>2. /\ coins' \in Seq(Utxo)
      /\ DOMAIN coins' = DOMAIN coins \cup new
      /\ DOMAIN coins \cap new = {}
      /\ \A c \in DOMAIN coins : coins'[c] = coins[c]
      /\ \A c \in new : \E k \in DOMAIN outs : coins'[c] = outs[k]
  BY <1>1, OutputsCome, ZenonT(30)
<1>3. /\ s \subseteq live
      /\ live' = (live \ s) \cup new
      /\ listed' = (listed \ s) \cup new
      /\ moved' = moved \cup s
      /\ UNCHANGED <<pending, head, tip, reserved, carried, open, forgot>>
  BY DEF Spend
<1>4. QED
  BY <1>2, <1>3

LEMMA EvictKeeps ==
  ASSUME Numbered, NEW ok, Evict(ok)
  PROVE  /\ UNCHANGED <<coins, live, listed, pending, head, open, moved>>
         /\ tip'.at \in Nat /\ tip'.at < head.next
         /\ reserved' = {} /\ carried' = None
         /\ pending # <<>> \/ open # {} => forgot' = TRUE
<1>1. Reseed(ok, head, pending) /\ UNCHANGED <<coins, live, listed, pending, head, open, moved>>
  BY DEF Evict
<1>2. tip'.at \in Nat /\ tip'.at < head.next
  BY <1>1, SeedKnown DEF Reseed, Numbered
<1>3. QED
  BY <1>1, <1>2 DEF Reseed

\* The kinds of steps there are.
LEMMA WalletSteps ==
  ASSUME WalletNext
  PROVE  \/ \E asks \in Asks : WalletBuilds(asks) /\ (Built(asks) \/ NotHandedOut \/ Told(asks))
         \/ \E tx \in open, g, s \in BOOLEAN : WalletSubmits(tx, g, s)
         \/ \E tx \in open : GiveUp(tx)
         \/ OtherSurrender
         \/ Settle
         \/ Drop
         \/ \E ok \in BOOLEAN : Evict(ok)
         \/ \E c \in listed :
               \/ Move(c)
               \/ \E extra \in {{}} \cup {{d} : d \in PureAda(listed, 0)} : Defrag(c, extra)
BY Zenon DEF WalletNext, WalletBuilds

\* A build leaves everything but the reservations and the open ones alone.
LEMMA BuildKeeps ==
  ASSUME Numbered, NEW asks \in Asks, WalletBuilds(asks)
  PROVE  /\ UNCHANGED <<coins, live, listed, pending, head, tip, carried, forgot, moved>>
         /\ reserved' \subseteq DOMAIN coins
         /\ reserved \subseteq reserved'
         /\ \/ open' = open
            \/ \E tx : /\ open' = open \cup {tx} /\ IsBuild(tx)
                       /\ tx.pool = tip.at /\ tx.explicit = Explicit
                       /\ tx.collateral = SelectCollateral
                       /\ reserved' = reserved \cup ({SelectCollateral} \ {None})
<1>1. UNCHANGED <<coins, live, listed, pending, head, tip, carried, forgot, moved>>
  BY DEF WalletBuilds
<1>2. reserved' = reserved \cup ({SelectCollateral} \ {None}) \/ reserved' = reserved
  BY DEF WalletBuilds, Built, NotHandedOut, Told
<1>3. reserved' \subseteq DOMAIN coins /\ reserved \subseteq reserved'
  BY <1>2, CollateralChosen DEF Numbered
<1>4. CASE Built(asks)
  BY <1>1, <1>3, <1>4, BuildHandsOut
<1>5. CASE NotHandedOut \/ Told(asks)
  BY <1>1, <1>3, <1>5 DEF NotHandedOut, Told
<1>6. QED
  BY <1>4, <1>5 DEF WalletBuilds

LEMMA NumberedStep ==
  ASSUME Numbered, InOrder, WalletNext
  PROVE  Numbered' /\ InOrder'
<1> USE DEF Numbered
<1>0. \A k \in DOMAIN pending : pending[k].from < head.at
  BY DEF IsPending
<1>1. ASSUME NEW asks \in Asks, WalletBuilds(asks)
      PROVE  Numbered' /\ InOrder'
  <2>1. /\ UNCHANGED <<coins, live, listed, pending, head, tip, carried, moved>>
        /\ reserved' \subseteq DOMAIN coins
        /\ \A tx \in open' : tx \in open \/ IsBuild(tx)
    BY <1>1, BuildKeeps
  <2>2. Numbered'
    BY <1>0, <2>1, NumberedFrame
  <2>3. QED
    BY <2>1, <2>2 DEF InOrder
<1>2. ASSUME NEW tx \in open, NEW g \in BOOLEAN, NEW s \in BOOLEAN, WalletSubmits(tx, g, s)
      PROVE  Numbered' /\ InOrder'
  <2>1. PICK new : /\ Landing(tx, new) /\ IsBuild(tx)
                   /\ open' = open \ {tx}
                   /\ new = {c \in DOMAIN coins' : c > Len(coins)}
                   /\ \/ /\ tip'.at = head.next /\ carried' = new
                         /\ UNCHANGED <<reserved, forgot>>
                      \/ /\ tip'.at \in Nat /\ tip'.at < head'.next
                         /\ reserved' = {} /\ carried' = None
    BY <1>2, SubmitLands
  <2>2. head.next \in Nat /\ head'.next = head.next + 1
    BY <2>1 DEF Landing
  <2>3. /\ IsSurrender(tx) /\ open' \subseteq open /\ reserved' \subseteq reserved
        /\ tip'.at \in Nat /\ tip'.at < head'.next
        /\ carried' # None => carried' \subseteq DOMAIN coins'
    BY <2>1, <2>2 DEF IsBuild
  <2>4. Numbered'
    BY <2>1, <2>3, LandingNumbered
  <2>5. QED
    BY <2>1, <2>3, <2>4, LandingInOrder
<1>3. ASSUME NEW tx \in open, GiveUp(tx)
      PROVE  Numbered' /\ InOrder'
  <2>1. /\ UNCHANGED <<coins, live, listed, pending, head, tip, reserved, carried, moved>>
        /\ \A b \in open' : b \in open
    BY <1>3 DEF GiveUp
  <2>2. Numbered'
    BY <1>0, <2>1, NumberedFrame
  <2>3. QED
    BY <2>1, <2>2 DEF InOrder
<1>4. ASSUME OtherSurrender
      PROVE  Numbered' /\ InOrder'
  <2>1. PICK tx : /\ IsSurrender(tx) /\ Landing(tx, {})
                  /\ tip'.at = head.next
                  /\ UNCHANGED <<coins, reserved, carried, open>>
    BY <1>4, OtherLands
  <2>2. head.next \in Nat /\ head'.next = head.next + 1
    BY <2>1 DEF Landing
  <2>3. /\ open' \subseteq open /\ reserved' \subseteq reserved
        /\ tip'.at \in Nat /\ tip'.at < head'.next
        /\ carried' # None => carried' \subseteq DOMAIN coins'
    BY <2>1, <2>2
  <2>4. Numbered'
    BY <2>1, <2>3, LandingNumbered
  <2>5. QED
    BY <2>1, <2>4, LandingInOrder
<1>5. ASSUME Settle
      PROVE  Numbered' /\ InOrder'
  <2>1. /\ pending' \in Seq(Entry)
        /\ \A k \in DOMAIN pending' : k + 1 \in DOMAIN pending /\ pending'[k] = pending[k + 1]
        /\ DOMAIN pending' \subseteq Nat
        /\ UNCHANGED <<coins, live, head, tip, reserved, carried, open, moved>>
        /\ listed' \subseteq DOMAIN coins
    BY <1>5, SettleKeeps
  <2>2. Numbered'
    BY <1>0, <2>1, NumberedFrame
  <2>3. InOrder'
    <3>1. SUFFICES ASSUME NEW i \in DOMAIN pending', NEW j \in DOMAIN pending', i < j
                   PROVE  pending'[i].from < pending'[j].from
      BY DEF InOrder
    <3> HIDE DEF Numbered
    <3>2. /\ i + 1 \in DOMAIN pending /\ pending'[i] = pending[i + 1]
          /\ j + 1 \in DOMAIN pending /\ pending'[j] = pending[j + 1]
          /\ i \in Nat /\ j \in Nat
      BY <2>1
    <3>3. i + 1 < j + 1
      BY <3>1, <3>2
    <3>4. QED
      BY <3>2, <3>3 DEF InOrder
  <2>4. QED
    BY <2>2, <2>3
<1>6. ASSUME Drop
      PROVE  Numbered' /\ InOrder'
  <2>1. PICK n \in DOMAIN pending :
           /\ pending' \in Seq(Entry)
           /\ n \in Nat /\ DOMAIN pending = 1 .. n /\ DOMAIN pending' = 1 .. n - 1
           /\ \A k \in 1 .. n - 1 : pending'[k] = pending[k]
           /\ head'.at = pending[n].from /\ head'.next = head.next
           /\ head'.at \in Nat /\ head'.at < head.at
           /\ live' \subseteq DOMAIN coins
           /\ UNCHANGED <<coins, listed, tip, reserved, carried, open, moved>>
    BY <1>6, DropKeeps
  <2>2. ASSUME NEW k \in 1 .. n - 1
        PROVE  pending[k].from < pending[n].from
    <3>1. k \in DOMAIN pending /\ k < n
      BY <2>1
    <3>2. QED
      BY <3>1 DEF InOrder
  <2>3. head'.at < head.next
    BY <2>1
  <2>4. Numbered'
    <3>1. \A k \in DOMAIN pending' : \E j \in DOMAIN pending :
             pending'[k] = pending[j] /\ pending[j].from < head'.at
      BY <2>1, <2>2
    <3>2. QED
      BY <2>1, <2>3, <3>1, NumberedFrame
  <2>5. InOrder'
    BY <2>1 DEF InOrder
  <2>6. QED
    BY <2>4, <2>5
<1>8. ASSUME NEW ok \in BOOLEAN, Evict(ok)
      PROVE  Numbered' /\ InOrder'
  <2>1. /\ UNCHANGED <<coins, live, listed, pending, head, open, moved>>
        /\ tip'.at \in Nat /\ tip'.at < head.next
        /\ reserved' = {} /\ carried' = None
    BY <1>8, EvictKeeps
  <2>2. Numbered'
    BY <1>0, <2>1, NumberedFrame
  <2>3. QED
    BY <2>1, <2>2 DEF InOrder
<1>9. ASSUME NEW s, NEW outs \in Seq(Utxo), Spend(s, outs)
      PROVE  Numbered' /\ InOrder'
  <2>1. PICK new : /\ coins' \in Seq(Utxo)
                   /\ DOMAIN coins' = DOMAIN coins \cup new
                   /\ s \subseteq live
                   /\ live' = (live \ s) \cup new
                   /\ listed' = (listed \ s) \cup new
                   /\ moved' = moved \cup s
                   /\ UNCHANGED <<pending, head, tip, reserved, carried, open>>
    <3> HIDE DEF Numbered
    <3> QED BY <1>9, SpendKeeps
  <2>2. /\ live' \subseteq DOMAIN coins' /\ listed' \subseteq DOMAIN coins'
        /\ reserved' \subseteq DOMAIN coins' /\ moved' \subseteq DOMAIN coins'
        /\ carried' # None => carried' \subseteq DOMAIN coins'
    BY <2>1
  <2>3. Numbered'
    BY <1>0, <2>1, <2>2, NumberedFrame
  <2>4. QED
    BY <2>1, <2>3 DEF InOrder
<1>10. QED
  <2>1. \A c \in listed :
           (Move(c) \/ \E extra \in {{}} \cup {{d} : d \in PureAda(listed, 0)} : Defrag(c, extra))
             => Numbered' /\ InOrder'
    BY <1>9, HolderSpends
  <2> HIDE DEF Numbered
  <2>2. QED
    BY <1>1, <1>2, <1>3, <1>4, <1>5, <1>6, <1>8, <2>1, WalletSteps

-----------------------------------------------------------------------------
(* The change follows the pool                                             *)

\* On the current output of the pool: the change is there.
LEMMA FollowsHead ==
  ASSUME Numbered, NEW E
  PROVE  Follows(head.at, E) <=> E \subseteq live \cup moved
<1>1. \A k \in DOMAIN pending : pending[k].from \in Nat /\ pending[k].from < head.at
  <2>1. ASSUME NEW k \in DOMAIN pending
        PROVE  pending[k].from \in Nat /\ pending[k].from < head.at
    <3>1. pending[k] \in Entry /\ IsPending(pending[k])
      BY DEF Numbered
    <3>2. QED
      BY <3>1 DEF Entry, IsPending
  <2>2. QED
    BY <2>1
<1>2. head.at \in Nat
  BY DEF Numbered
<1>3. \A k \in DOMAIN pending : ~ (pending[k].from >= head.at)
  BY <1>1, <1>2
<1>4. QED
  BY <1>3 DEF Follows

LEMMA FollowsFrame ==
  ASSUME NEW p, NEW E, Follows(p, E), UNCHANGED <<pending, head>>,
         live \cup moved \subseteq live' \cup moved'
  PROVE  Follows(p, E)'
BY DEF Follows

LEMMA FollowsLanding ==
  ASSUME Numbered, NEW tx, IsSurrender(tx), NEW new, Landing(tx, new),
         NEW p \in Nat, p < head.next, NEW E \in SUBSET DOMAIN coins, Follows(p, E)
  PROVE  Follows(p, E)'
<1> DEFINE e == [from |-> head.at, spends |-> tx.spends, outs |-> new,
                 collateral |-> tx.collateral]
           last == Len(pending) + 1
<1>1. e \in Entry
  BY LandingEntry
<1>2. e.from = head.at /\ e.spends = tx.spends /\ e.outs = new
  OBVIOUS
<1>3. pending' = Append(pending, e)
  BY DEF Landing
<1> HIDE DEF e
<1>4. /\ DOMAIN pending' = DOMAIN pending \cup {last}
      /\ \A k \in DOMAIN pending : pending'[k] = pending[k]
      /\ pending'[last] = e
  BY <1>1, <1>3, PendingGrows
<1> HIDE DEF last
<1>5. /\ head.at \in Nat /\ head'.at = head.next
      /\ live' = (live \ tx.spends) \cup new /\ moved' = moved
      /\ E \cap new = {}
  <2>1. DOMAIN coins \cap new = {}
    BY OutputsCome DEF Numbered, IsSurrender, Landing
  <2>2. QED
    BY <2>1 DEF Landing, Numbered
<1>6. \A k \in DOMAIN pending : pending[k].from < head.at
  BY DEF Numbered, IsPending
<1>7. SUFFICES ASSUME p = head'.at \/ \E k \in DOMAIN pending' : pending'[k].from = p
      PROVE  /\ \A c \in E : \/ c \in live' \cup moved'
                             \/ \E k \in DOMAIN pending' :
                                   pending'[k].from >= p /\ c \in pending'[k].spends
             /\ \A k \in DOMAIN pending' : pending'[k].from >= p => E \cap pending'[k].outs = {}
  BY DEF Follows
<1>8. p = head.at \/ \E k \in DOMAIN pending : pending[k].from = p
  BY <1>2, <1>4, <1>5, <1>7
<1>9. head.at >= p
  BY <1>5, <1>6, <1>8
<1>10. ASSUME NEW c \in E
       PROVE  \/ c \in live' \cup moved'
              \/ \E k \in DOMAIN pending' : pending'[k].from >= p /\ c \in pending'[k].spends
  <2>1. CASE c \in live \cup moved
    BY <1>2, <1>4, <1>5, <1>9, <2>1
  <2>2. CASE \E k \in DOMAIN pending : pending[k].from >= p /\ c \in pending[k].spends
    BY <1>4, <2>2
  <2>3. QED
    BY <1>8, <1>10, <2>1, <2>2 DEF Follows
<1>11. ASSUME NEW k \in DOMAIN pending', pending'[k].from >= p
       PROVE  E \cap pending'[k].outs = {}
  <2>1. CASE k \in DOMAIN pending
    BY <1>4, <1>8, <1>11, <2>1 DEF Follows
  <2>2. CASE k = last
    BY <1>2, <1>4, <1>5, <2>2
  <2>3. QED
    BY <1>4, <2>1, <2>2
<1>12. QED
  BY <1>10, <1>11

LEMMA FollowsSettle ==
  ASSUME Numbered, InOrder, Settle, NEW p \in Nat, NEW E, Follows(p, E)
  PROVE  Follows(p, E)'
<1>1. /\ 1 \in DOMAIN pending
      /\ \A k \in DOMAIN pending' : k + 1 \in DOMAIN pending /\ pending'[k] = pending[k + 1]
      /\ DOMAIN pending' \subseteq Nat
      /\ UNCHANGED <<live, head, moved>>
  BY SettleKeeps
<1>2. \A k \in DOMAIN pending : k # 1 => k \in Nat /\ k - 1 \in DOMAIN pending' /\ pending'[k - 1] = pending[k]
                                         /\ 1 < k
  <2>1. pending \in Seq(Entry) /\ pending # <<>> /\ pending' = Tail(pending)
    BY DEF Numbered, Settle
  <2>2. QED
    BY <2>1
<1>3. \A k \in DOMAIN pending : pending[k].from \in Nat /\ pending[k].from < head.at
  <2>1. \A k \in DOMAIN pending : pending[k] \in Entry /\ IsPending(pending[k])
    BY DEF Numbered
  <2>2. QED
    BY <2>1 DEF Entry, IsPending
<1>4. SUFFICES ASSUME p = head.at \/ \E k \in DOMAIN pending' : pending'[k].from = p
      PROVE  /\ \A c \in E : \/ c \in live \cup moved
                             \/ \E k \in DOMAIN pending' :
                                   pending'[k].from >= p /\ c \in pending'[k].spends
             /\ \A k \in DOMAIN pending' : pending'[k].from >= p => E \cap pending'[k].outs = {}
  BY <1>1 DEF Follows
<1>5. p = head.at \/ \E k \in DOMAIN pending : pending[k].from = p
  BY <1>1, <1>4
<1>6. /\ \A c \in E : \/ c \in live \cup moved
                      \/ \E k \in DOMAIN pending : pending[k].from >= p /\ c \in pending[k].spends
      /\ \A k \in DOMAIN pending : pending[k].from >= p => E \cap pending[k].outs = {}
  BY <1>5 DEF Follows
<1>7. pending[1].from < p
  <2>1. CASE p = head.at
    BY <1>1, <1>3, <2>1
  <2>2. ASSUME NEW k \in DOMAIN pending', pending'[k].from = p
        PROVE  pending[1].from < p
    <3>1. k + 1 \in DOMAIN pending /\ pending[k + 1].from = p
      BY <1>1, <2>2
    <3>2. 1 < k + 1
      <4>1. pending' \in Seq(Entry)
        BY SettleKeeps
      <4>2. QED
        BY <4>1
    <3>3. QED
      BY <1>1, <3>1, <3>2 DEF InOrder
  <2>3. QED
    BY <1>4, <2>1, <2>2
<1>8. \A k \in DOMAIN pending : pending[k].from >= p =>
         k - 1 \in DOMAIN pending' /\ pending'[k - 1] = pending[k]
  <2>1. \A k \in DOMAIN pending : pending[k].from >= p => k # 1
    BY <1>1, <1>3, <1>7
  <2>2. QED
    BY <1>2, <2>1
<1>9. QED
  BY <1>1, <1>6, <1>8

LEMMA FollowsDrop ==
  ASSUME Numbered, InOrder, Drop, NEW p \in Nat, NEW E, Follows(p, E)
  PROVE  Follows(p, E)'
<1>1. PICK n \in DOMAIN pending :
           /\ n \in Nat /\ DOMAIN pending = 1 .. n /\ DOMAIN pending' = 1 .. n - 1
           /\ \A k \in 1 .. n - 1 : pending'[k] = pending[k]
           /\ live' = (live \ pending[n].outs) \cup pending[n].spends
           /\ head'.at = pending[n].from
           /\ moved' = moved
  BY DropKeeps
<1>2. /\ \A k \in DOMAIN pending' : k \in DOMAIN pending /\ k < n /\ pending'[k] = pending[k]
      /\ \A k \in DOMAIN pending : k = n \/ (k \in DOMAIN pending' /\ pending'[k] = pending[k])
  BY <1>1
<1>3. \A k \in DOMAIN pending : pending[k].from \in Nat
  <2>1. \A k \in DOMAIN pending : pending[k] \in Entry
    BY DEF Numbered
  <2>2. QED
    BY <2>1 DEF Entry
<1>4. SUFFICES ASSUME p = pending[n].from \/ \E k \in DOMAIN pending' : pending'[k].from = p
      PROVE  /\ \A c \in E : \/ c \in live' \cup moved
                             \/ \E k \in DOMAIN pending' :
                                   pending'[k].from >= p /\ c \in pending'[k].spends
             /\ \A k \in DOMAIN pending' : pending'[k].from >= p => E \cap pending'[k].outs = {}
  BY <1>1 DEF Follows
<1>5. p = head.at \/ \E k \in DOMAIN pending : pending[k].from = p
  BY <1>2, <1>4
<1>6. /\ \A c \in E : \/ c \in live \cup moved
                      \/ \E k \in DOMAIN pending : pending[k].from >= p /\ c \in pending[k].spends
      /\ \A k \in DOMAIN pending : pending[k].from >= p => E \cap pending[k].outs = {}
  BY <1>5 DEF Follows
<1>7. pending[n].from >= p
  <2>1. CASE p = pending[n].from
    BY <1>3, <2>1
  <2>2. ASSUME NEW k \in DOMAIN pending', pending'[k].from = p
        PROVE  pending[n].from >= p
    <3>1. k \in DOMAIN pending /\ k < n /\ pending[k].from = p
      BY <1>2, <2>2
    <3>2. pending[k].from < pending[n].from
      BY <3>1 DEF InOrder
    <3>3. QED
      BY <1>3, <3>1, <3>2
  <2>3. QED
    BY <1>4, <2>1, <2>2
<1>8. E \cap pending[n].outs = {}
  BY <1>6, <1>7
<1>9. ASSUME NEW c \in E
      PROVE  \/ c \in live' \cup moved
             \/ \E k \in DOMAIN pending' : pending'[k].from >= p /\ c \in pending'[k].spends
  <2>1. CASE c \in live \cup moved
    BY <1>1, <1>8, <1>9, <2>1
  <2>2. ASSUME NEW k \in DOMAIN pending, pending[k].from >= p, c \in pending[k].spends
        PROVE  \/ c \in live' \cup moved
               \/ \E j \in DOMAIN pending' : pending'[j].from >= p /\ c \in pending'[j].spends
    BY <1>1, <1>2, <2>2
  <2>3. QED
    BY <1>6, <1>9, <2>1, <2>2
<1>10. QED
  BY <1>2, <1>6, <1>9

\* The same after a step, of outputs that are there then.
LEMMA FollowsNewest ==
  ASSUME Numbered', NEW p, p = head'.at, NEW E, E \subseteq live' \cup moved'
  PROVE  Follows(p, E)'
<1>1. ASSUME NEW k \in DOMAIN pending'
      PROVE  ~ (pending'[k].from >= p)
  <2>1. /\ pending' \in Seq(Entry) /\ head'.at \in Nat
        /\ \A j \in DOMAIN pending' : pending'[j].from < head'.at
    BY DEF Numbered, IsPending
  <2>2. pending'[k] \in Entry
    BY <2>1
  <2>3. pending'[k].from \in Nat
    BY <2>2 DEF Entry
  <2>4. QED
    BY <2>1, <2>3
<1>2. QED
  BY <1>1 DEF Follows

\* What is carried is known.
LEMMA CarriesKnown ==
  ASSUME Numbered, ChangeInv, NEW p, NEW E, Carries(p, E)
  PROVE  p \in Nat /\ p < head.next /\ E \in SUBSET DOMAIN coins /\ Follows(p, E)
<1>1. p \in Nat /\ p < head.next /\ E \in SUBSET DOMAIN coins
  BY DEF Numbered, IsBuild, IsSurrender, Carries
<1>2. head.next \in Nat
  BY DEF Numbered
<1>3. p \in 0 .. head.next
  BY <1>1, <1>2
<1>4. QED
  BY <1>1, <1>3 DEF ChangeInv

\* The change carried forward comes back with the pool's output, whatever
\* happens; so does that of each surrender that is built.
LEMMA ChangeStep ==
  ASSUME Numbered, InOrder, ChangeInv, WalletNext, Numbered'
  PROVE  ChangeInv'
<1> SUFFICES ASSUME NEW p, NEW E, Carries(p, E)'
             PROVE  Follows(p, E)'
  BY DEF ChangeInv
<1>1. ASSUME NEW asks \in Asks, WalletBuilds(asks)
      PROVE  Follows(p, E)'
  <2>1. /\ UNCHANGED <<live, pending, head, tip, carried, moved>>
        /\ \/ open' = open
           \/ \E tx : /\ open' = open \cup {tx}
                      /\ tx.pool = tip.at /\ tx.explicit = Explicit
    BY <1>1, BuildKeeps
  <2>2. Carries(p, E) \/ E = {}
    BY <2>1 DEF Carries, Explicit
  <2>3. Follows(p, E)
    <3>1. CASE Carries(p, E)
      BY <3>1, CarriesKnown
    <3>2. CASE E = {}
      BY <3>2 DEF Follows
    <3>3. QED
      BY <2>2, <3>1, <3>2
  <2>4. QED
    BY <2>1, <2>3, FollowsFrame
<1>2. ASSUME NEW tx \in open, NEW g \in BOOLEAN, NEW s \in BOOLEAN, WalletSubmits(tx, g, s)
      PROVE  Follows(p, E)'
  <2>1. PICK new : /\ Landing(tx, new) /\ IsBuild(tx)
                   /\ open' = open \ {tx}
                   /\ \/ tip'.at = head.next /\ carried' = new
                      \/ carried' = None
    BY <1>2, SubmitLands
  <2>2. head'.at = head.next /\ new \subseteq live' /\ IsSurrender(tx)
    BY <2>1 DEF Landing, IsBuild
  <2>3. Carries(p, E) \/ (p = head'.at /\ E = new)
    BY <2>1, <2>2 DEF Carries
  <2>4. CASE Carries(p, E)
    <3>1. p \in Nat /\ p < head.next /\ E \in SUBSET DOMAIN coins /\ Follows(p, E)
      BY <2>4, CarriesKnown
    <3>2. QED
      BY <2>1, <2>2, <3>1, FollowsLanding
  <2>5. CASE p = head'.at /\ E = new
    <3>1. E \subseteq live' \cup moved' /\ p = head'.at
      BY <2>2, <2>5
    <3>2. QED
      BY <3>1, FollowsNewest
  <2>6. QED
    BY <2>3, <2>4, <2>5
<1>3. ASSUME NEW tx \in open, GiveUp(tx)
      PROVE  Follows(p, E)'
  <2>1. /\ UNCHANGED <<live, pending, head, tip, carried, moved>>
        /\ open' \subseteq open
    BY <1>3 DEF GiveUp
  <2>2. Carries(p, E)
    BY <2>1 DEF Carries
  <2>3. QED
    BY <2>1, <2>2, CarriesKnown, FollowsFrame
<1>4. ASSUME OtherSurrender
      PROVE  Follows(p, E)'
  <2>1. PICK tx : /\ IsSurrender(tx) /\ Landing(tx, {})
                  /\ tip'.at = head.next /\ tx.pool = tip.at
                  /\ UNCHANGED <<coins, live, carried, open>>
    BY <1>4, OtherLands
  <2>2. tip.at = head.at /\ head'.at = head.next /\ moved' = moved
    BY <2>1 DEF Landing
  <2>3. CASE Carries(p, E)
    <3>1. p \in Nat /\ p < head.next /\ E \in SUBSET DOMAIN coins /\ Follows(p, E)
      BY <2>3, CarriesKnown
    <3>2. QED
      BY <2>1, <3>1, FollowsLanding
  <2>4. CASE ~ Carries(p, E)
    <3>1. carried # None /\ E = carried /\ p = head'.at
      BY <2>1, <2>2, <2>4 DEF Carries
    <3>2. Carries(head.at, E)
      BY <2>2, <3>1 DEF Carries
    <3>3. Follows(head.at, E)
      BY <3>2, CarriesKnown
    <3>4. E \subseteq live \cup moved
      BY <3>3, FollowsHead
    <3>5. E \subseteq live' \cup moved' /\ p = head'.at
      BY <2>1, <2>2, <3>1, <3>4
    <3>6. QED
      BY <3>5, FollowsNewest
  <2>5. QED
    BY <2>3, <2>4
<1>5. ASSUME Settle
      PROVE  Follows(p, E)'
  <2>1. UNCHANGED <<tip, carried, open>>
    BY <1>5 DEF Settle
  <2>2. Carries(p, E)
    BY <2>1 DEF Carries
  <2>3. p \in Nat /\ Follows(p, E)
    BY <2>2, CarriesKnown
  <2>4. QED
    BY <1>5, <2>3, FollowsSettle
<1>6. ASSUME Drop
      PROVE  Follows(p, E)'
  <2>1. UNCHANGED <<tip, carried, open>>
    BY <1>6 DEF Drop
  <2>2. Carries(p, E)
    BY <2>1 DEF Carries
  <2>3. p \in Nat /\ Follows(p, E)
    BY <2>2, CarriesKnown
  <2>4. QED
    BY <1>6, <2>3, FollowsDrop
<1>8. ASSUME NEW ok \in BOOLEAN, Evict(ok)
      PROVE  Follows(p, E)'
  <2>1. /\ UNCHANGED <<live, pending, head, moved, open>>
        /\ carried' = None
    BY <1>8, EvictKeeps
  <2>2. Carries(p, E)
    BY <2>1 DEF Carries
  <2>3. QED
    BY <2>1, <2>2, CarriesKnown, FollowsFrame
<1>9. ASSUME NEW s, NEW outs \in Seq(Utxo), Spend(s, outs)
      PROVE  Follows(p, E)'
  <2>1. PICK new : /\ s \subseteq live
                   /\ live' = (live \ s) \cup new
                   /\ moved' = moved \cup s
                   /\ UNCHANGED <<pending, head, tip, carried, open>>
    BY <1>9, SpendKeeps
  <2>2. live \cup moved \subseteq live' \cup moved'
    BY <2>1
  <2>3. Carries(p, E)
    BY <2>1 DEF Carries
  <2>4. QED
    BY <2>1, <2>2, <2>3, CarriesKnown, FollowsFrame
<1>10. QED
  <2>1. \A c \in listed :
           (Move(c) \/ \E extra \in {{}} \cup {{d} : d \in PureAda(listed, 0)} : Defrag(c, extra))
             => Follows(p, E)'
    BY <1>9, HolderSpends
  <2>2. QED
    BY <1>1, <1>2, <1>3, <1>4, <1>5, <1>6, <1>8, <2>1, WalletSteps

\* What a surrender on the current output carries is there: ChangeInv at the
\* head.
LEMMA ChangeThere ==
  ASSUME Numbered, ChangeInv
  PROVE  ChangeFollowsPool
<1> SUFFICES ASSUME NEW tx \in open, tx.pool = head.at
             PROVE  tx.explicit \subseteq live \cup moved
  BY DEF ChangeFollowsPool
<1>1. Carries(head.at, tx.explicit)
  BY DEF Carries
<1>2. Follows(head.at, tx.explicit)
  BY <1>1, CarriesKnown
<1>3. QED
  BY <1>2, FollowsHead

-----------------------------------------------------------------------------
(* The collateral is posted once                                           *)

\* Surrenders that settle, are dropped or are given up take nothing from others.
LEMMA CollateralFrame ==
  ASSUME CollateralInv, UNCHANGED <<reserved, forgot>>, open' \subseteq open,
         NEW f, \A k \in DOMAIN pending' : f[k] \in DOMAIN pending /\ pending'[k] = pending[f[k]],
         \A i, j \in DOMAIN pending' : f[i] = f[j] => i = j
  PROVE  CollateralInv'
<1> SUFFICES ASSUME ~ forgot
             PROVE  CollateralInv'
  BY DEF CollateralInv
<1>1. /\ \A tx \in open' : tx.collateral # None => tx.collateral \in reserved'
      /\ \A k \in DOMAIN pending' :
            pending'[k].collateral # None => pending'[k].collateral \in reserved'
  BY DEF CollateralInv
<1>2. \A tx, ux \in open' :
         tx.collateral # None /\ tx.collateral = ux.collateral => tx = ux
  BY DEF CollateralInv
<1>3. \A tx \in open', k \in DOMAIN pending' :
         tx.collateral # None => tx.collateral # pending'[k].collateral
  BY DEF CollateralInv
<1>4. CollateralOnce'
  BY DEF CollateralInv, CollateralOnce
<1>5. QED
  BY <1>1, <1>2, <1>3, <1>4 DEF CollateralInv

\* A surrender that lands takes along the collateral that was its own.
LEMMA CollateralLands ==
  ASSUME Numbered, CollateralInv, NEW tx, IsSurrender(tx), NEW new, Landing(tx, new),
         UNCHANGED <<reserved, forgot>>, open' \subseteq open,
         tx.collateral # None => tx \in open /\ tx \notin open'
  PROVE  CollateralInv'
<1> SUFFICES ASSUME ~ forgot
             PROVE  CollateralInv'
  BY DEF CollateralInv
<1> DEFINE e == [from |-> head.at, spends |-> tx.spends, outs |-> new,
                 collateral |-> tx.collateral]
           last == Len(pending) + 1
<1>1. e \in Entry
  BY LandingEntry
<1>2. e.collateral = tx.collateral
  OBVIOUS
<1>3. pending' = Append(pending, e)
  BY DEF Landing
<1> HIDE DEF e
<1>4. /\ DOMAIN pending' = DOMAIN pending \cup {last}
      /\ \A k \in DOMAIN pending : pending'[k] = pending[k]
      /\ pending'[last] = e
  BY <1>1, <1>3, PendingGrows
<1> HIDE DEF last
<1>5. /\ \A ux \in open : ux.collateral # None => ux.collateral \in reserved
      /\ \A k \in DOMAIN pending :
            pending[k].collateral # None => pending[k].collateral \in reserved
      /\ \A ux, vx \in open :
            ux.collateral # None /\ ux.collateral = vx.collateral => ux = vx
      /\ \A ux \in open, k \in DOMAIN pending :
            ux.collateral # None => ux.collateral # pending[k].collateral
      /\ \A i, j \in DOMAIN pending :
            i # j /\ pending[i].collateral # None => pending[i].collateral # pending[j].collateral
  BY DEF CollateralInv, CollateralOnce
<1>6. tx.collateral # None => tx.collateral \in reserved
  BY <1>5
<1>7. \A k \in DOMAIN pending :
         pending[k].collateral # None => pending[k].collateral # tx.collateral
  BY <1>5
<1>8. /\ \A ux \in open' : ux.collateral # None => ux.collateral \in reserved'
      /\ \A k \in DOMAIN pending' :
            pending'[k].collateral # None => pending'[k].collateral \in reserved'
  BY <1>2, <1>4, <1>5, <1>6
<1>9. \A ux, vx \in open' :
         ux.collateral # None /\ ux.collateral = vx.collateral => ux = vx
  BY <1>5
<1>10. \A ux \in open', k \in DOMAIN pending' :
          ux.collateral # None => ux.collateral # pending'[k].collateral
  <2>1. ASSUME NEW ux \in open', NEW k \in DOMAIN pending', ux.collateral # None
        PROVE  ux.collateral # pending'[k].collateral
    <3>1. ux \in open /\ (tx.collateral # None => ux # tx)
      OBVIOUS
    <3>2. CASE k \in DOMAIN pending
      BY <1>4, <1>5, <2>1, <3>1, <3>2
    <3>3. CASE k = last
      <4>1. pending'[k].collateral = tx.collateral
        BY <1>2, <1>4, <3>3
      <4>2. CASE tx.collateral = None
        BY <2>1, <4>1, <4>2
      <4>3. CASE tx \in open
        BY <1>5, <2>1, <3>1, <4>1, <4>3
      <4>4. QED
        BY <4>2, <4>3
    <3>4. QED
      BY <1>4, <3>2, <3>3
  <2>2. QED
    BY <2>1
<1>11. CollateralOnce'
  <2>1. ASSUME NEW i \in DOMAIN pending', NEW j \in DOMAIN pending', i # j,
               pending'[i].collateral # None
        PROVE  pending'[i].collateral # pending'[j].collateral
    <3>1. CASE i \in DOMAIN pending /\ j \in DOMAIN pending
      BY <1>4, <1>5, <2>1, <3>1
    <3>2. CASE i \in DOMAIN pending /\ j = last
      BY <1>2, <1>4, <1>7, <2>1, <3>2
    <3>3. CASE i = last /\ j \in DOMAIN pending
      <4>1. pending'[i].collateral = tx.collateral /\ pending'[j] = pending[j]
        BY <1>2, <1>4, <3>3
      <4>2. tx \in open /\ tx.collateral # None
        BY <2>1, <4>1
      <4>3. QED
        BY <1>5, <3>3, <4>1, <4>2
    <3>4. QED
      BY <1>4, <2>1, <3>1, <3>2, <3>3
  <2>2. QED
    BY <2>1 DEF CollateralOnce
<1>12. QED
  BY <1>8, <1>9, <1>10, <1>11 DEF CollateralInv

\* While no reservation is forgotten, nobody's collateral becomes another's.
LEMMA CollateralStep ==
  ASSUME Numbered, CollateralInv, WalletNext
  PROVE  CollateralInv'
<1>0. ASSUME UNCHANGED <<reserved, forgot, pending>>, open' \subseteq open
      PROVE  CollateralInv'
  <2> DEFINE f == [k \in DOMAIN pending |-> k]
  <2>1. /\ \A k \in DOMAIN pending' : f[k] \in DOMAIN pending /\ pending'[k] = pending[f[k]]
        /\ \A i, j \in DOMAIN pending' : f[i] = f[j] => i = j
    BY <1>0
  <2> HIDE DEF f
  <2>2. UNCHANGED <<reserved, forgot>> /\ open' \subseteq open
    BY <1>0
  <2>3. QED
    BY <2>1, <2>2, CollateralFrame
<1>1. ASSUME NEW asks \in Asks, WalletBuilds(asks)
      PROVE  CollateralInv'
  <2>1. /\ UNCHANGED <<pending, forgot>>
        /\ reserved \subseteq reserved'
        /\ \/ open' = open
           \/ \E tx : /\ open' = open \cup {tx} /\ tx.collateral = SelectCollateral
                      /\ reserved' = reserved \cup ({SelectCollateral} \ {None})
    BY <1>1, BuildKeeps
  <2>2. SelectCollateral # None => SelectCollateral \notin reserved
    BY CollateralChosen
  <2>3. SUFFICES ASSUME ~ forgot
                 PROVE  CollateralInv'
    BY <2>1 DEF CollateralInv
  <2>4. /\ \A ux \in open : ux.collateral # None => ux.collateral \in reserved
        /\ \A k \in DOMAIN pending :
              pending[k].collateral # None => pending[k].collateral \in reserved
        /\ \A ux, vx \in open :
              ux.collateral # None /\ ux.collateral = vx.collateral => ux = vx
        /\ \A ux \in open, k \in DOMAIN pending :
              ux.collateral # None => ux.collateral # pending[k].collateral
        /\ CollateralOnce
    BY <2>3 DEF CollateralInv
  <2>5. \A ux \in open' : \/ ux \in open
                         \/ /\ ux.collateral = SelectCollateral
                            /\ SelectCollateral # None => SelectCollateral \in reserved'
    BY <2>1
  <2>6. /\ \A ux \in open' : ux.collateral # None => ux.collateral \in reserved'
        /\ \A k \in DOMAIN pending' :
              pending'[k].collateral # None => pending'[k].collateral \in reserved'
    BY <2>1, <2>4, <2>5
  <2>7. ASSUME NEW ux \in open', NEW vx \in open',
               ux.collateral # None, ux.collateral = vx.collateral
        PROVE  ux = vx
    <3>1. CASE ux \in open /\ vx \in open
      BY <2>4, <2>7, <3>1
    <3>2. CASE ~ (ux \in open /\ vx \in open)
      <4>1. ux.collateral = SelectCollateral /\ SelectCollateral \notin reserved
        BY <2>2, <2>5, <2>7, <3>2
      <4>2. ux \notin open /\ vx \notin open
        BY <2>4, <2>7, <4>1
      <4>3. QED
        BY <2>1, <4>2
    <3>3. QED
      BY <3>1, <3>2
  <2>8. \A ux \in open', k \in DOMAIN pending' :
           ux.collateral # None => ux.collateral # pending'[k].collateral
    BY <2>1, <2>2, <2>4, <2>5
  <2>9. CollateralOnce'
    BY <2>1, <2>4 DEF CollateralOnce
  <2>10. QED
    BY <2>6, <2>7, <2>8, <2>9 DEF CollateralInv
<1>2. ASSUME NEW tx \in open, NEW g \in BOOLEAN, NEW s \in BOOLEAN, WalletSubmits(tx, g, s)
      PROVE  CollateralInv'
  <2>1. PICK new : /\ Landing(tx, new) /\ IsBuild(tx)
                   /\ open' = open \ {tx}
                   /\ UNCHANGED <<reserved, forgot>> \/ forgot' = TRUE
    BY <1>2, SubmitLands
  <2>2. CASE UNCHANGED <<reserved, forgot>>
    BY <2>1, <2>2, CollateralLands DEF IsBuild
  <2>3. CASE forgot' = TRUE
    BY <2>3 DEF CollateralInv
  <2>4. QED
    BY <2>1, <2>2, <2>3
<1>3. ASSUME NEW tx \in open, GiveUp(tx)
      PROVE  CollateralInv'
  BY <1>0, <1>3 DEF GiveUp
<1>4. ASSUME OtherSurrender
      PROVE  CollateralInv'
  <2>1. PICK tx : /\ IsSurrender(tx) /\ Landing(tx, {})
                  /\ tx.collateral = None
                  /\ UNCHANGED <<reserved, open, forgot>>
    BY <1>4, OtherLands
  <2>2. QED
    BY <2>1, CollateralLands
<1>5. ASSUME Settle
      PROVE  CollateralInv'
  <2> DEFINE f == [k \in DOMAIN pending' |-> k + 1]
  <2>1. /\ \A k \in DOMAIN pending' : k + 1 \in DOMAIN pending /\ pending'[k] = pending[k + 1]
        /\ DOMAIN pending' \subseteq Nat
        /\ UNCHANGED <<reserved, open, forgot>>
    BY <1>5, SettleKeeps
  <2>2. \A k \in DOMAIN pending' : f[k] = k + 1 /\ k \in Nat
    BY <2>1
  <2> HIDE DEF f
  <2>3. \A k \in DOMAIN pending' : f[k] \in DOMAIN pending /\ pending'[k] = pending[f[k]]
    BY <2>1, <2>2
  <2>4. \A i, j \in DOMAIN pending' : f[i] = f[j] => i = j
    BY <2>2
  <2>5. UNCHANGED <<reserved, forgot>> /\ open' \subseteq open
    BY <2>1
  <2>6. QED
    BY <2>3, <2>4, <2>5, CollateralFrame
<1>6. ASSUME Drop
      PROVE  CollateralInv'
  <2> DEFINE f == [k \in DOMAIN pending' |-> k]
  <2>1. PICK n \in DOMAIN pending :
           /\ n \in Nat /\ DOMAIN pending = 1 .. n /\ DOMAIN pending' = 1 .. n - 1
           /\ \A k \in 1 .. n - 1 : pending'[k] = pending[k]
           /\ UNCHANGED <<reserved, open, forgot>>
    BY <1>6, DropKeeps
  <2>2. \A k \in DOMAIN pending' : f[k] = k /\ k \in DOMAIN pending /\ pending'[k] = pending[k]
    BY <2>1
  <2> HIDE DEF f
  <2>3. \A k \in DOMAIN pending' : f[k] \in DOMAIN pending /\ pending'[k] = pending[f[k]]
    BY <2>2
  <2>4. \A i, j \in DOMAIN pending' : f[i] = f[j] => i = j
    BY <2>2
  <2>5. UNCHANGED <<reserved, forgot>> /\ open' \subseteq open
    BY <2>1
  <2>6. QED
    BY <2>3, <2>4, <2>5, CollateralFrame
<1>8. ASSUME NEW ok \in BOOLEAN, Evict(ok)
      PROVE  CollateralInv'
  <2>1. /\ UNCHANGED <<pending, open>>
        /\ pending # <<>> \/ open # {} => forgot' = TRUE
    BY <1>8, EvictKeeps
  <2>2. CASE pending # <<>> \/ open # {}
    BY <2>1, <2>2 DEF CollateralInv
  <2>3. CASE pending = <<>> /\ open = {}
    <3>1. DOMAIN pending' = {} /\ open' = {}
      BY <2>1, <2>3
    <3>2. QED
      BY <3>1 DEF CollateralInv, CollateralOnce
  <2>4. QED
    BY <2>2, <2>3
<1>9. ASSUME NEW s, NEW outs \in Seq(Utxo), Spend(s, outs)
      PROVE  CollateralInv'
  <2>1. UNCHANGED <<pending, reserved, open, forgot>>
    BY <1>9 DEF Spend
  <2>2. QED
    BY <1>0, <2>1
<1>10. QED
  <2>1. \A c \in listed :
           (Move(c) \/ \E extra \in {{}} \cup {{d} : d \in PureAda(listed, 0)} : Defrag(c, extra))
             => CollateralInv'
    BY <1>9, HolderSpends
  <2>2. QED
    BY <1>1, <1>2, <1>3, <1>4, <1>5, <1>6, <1>8, <2>1, WalletSteps

-----------------------------------------------------------------------------
(* Outputs hold their minimum, and splits stay lean                        *)

LEMMA FitArrivals ==
  ASSUME AllFit, coins \in Seq(Utxo), NEW outs \in Seq(Utxo), coins' = coins \o outs,
         \A k \in DOMAIN outs : Fits(outs[k])
  PROVE  AllFit'
<1> DEFINE new == Len(coins) + 1 .. Len(coins) + Len(outs)
<1>0. /\ DOMAIN coins' = DOMAIN coins \cup new
      /\ \A c \in DOMAIN coins : coins'[c] = coins[c]
      /\ \A c \in new : \E k \in DOMAIN outs : coins'[c] = outs[k]
  BY OutputsCome, ZenonT(30)
<1> HIDE DEF new
<1>1. ASSUME NEW c \in DOMAIN coins'
      PROVE  Fits(coins'[c])
  <2>1. CASE c \in DOMAIN coins
    BY <1>0, <1>1, <2>1 DEF AllFit
  <2>2. CASE c \in new
    BY <1>0, <1>1, <2>2
  <2>3. QED
    BY <1>0, <1>1, <2>1, <2>2
<1>2. QED
  BY <1>1 DEF AllFit

LEMMA FitStep ==
  ASSUME Numbered, AllFit, WalletNext
  PROVE  AllFit'
<1>1. ASSUME UNCHANGED coins
      PROVE  AllFit'
  BY <1>1 DEF AllFit
<1>2. ASSUME NEW tx \in open, NEW g \in BOOLEAN, NEW s \in BOOLEAN, WalletSubmits(tx, g, s)
      PROVE  AllFit'
  <2>1. PICK new : Landing(tx, new) /\ IsBuild(tx)
    BY <1>2, SubmitLands
  <2>2. tx.change \in Seq(Utxo) /\ \A k \in DOMAIN tx.change : Fits(tx.change[k])
    BY <2>1 DEF IsBuild, IsSurrender
  <2>3. coins \in Seq(Utxo) /\ coins' = coins \o tx.change
    BY <2>1 DEF Numbered, Landing
  <2>4. QED
    BY <2>2, <2>3, FitArrivals
<1>3. ASSUME NEW s, NEW outs \in Seq(Utxo), Spend(s, outs),
             \A k \in DOMAIN outs : Fits(outs[k])
      PROVE  AllFit'
  <2>1. coins \in Seq(Utxo) /\ coins' = coins \o outs
    BY <1>3 DEF Numbered, Spend
  <2>2. QED
    BY <1>3, <2>1, FitArrivals
<1>4. \A c \in listed :
         (Move(c) \/ \E extra \in {{}} \cup {{d} : d \in PureAda(listed, 0)} : Defrag(c, extra))
           => AllFit'
  BY <1>3, HolderSpends
<1>5. (\E asks \in Asks : WalletBuilds(asks)) => AllFit'
  BY <1>1 DEF WalletBuilds
<1>6. (\E tx \in open : GiveUp(tx)) \/ (\E ok \in BOOLEAN : Evict(ok)) => AllFit'
  BY <1>1 DEF GiveUp, Evict
<1>7. Settle \/ Drop => AllFit'
  BY <1>1 DEF Settle, Drop
<1>8. OtherSurrender => AllFit'
  <2>1. OtherSurrender => UNCHANGED coins
    BY OtherLands
  <2>2. QED
    BY <1>1, <2>1
<1>9. QED
  BY <1>2, <1>4, <1>5, <1>6, <1>7, <1>8, WalletSteps

-----------------------------------------------------------------------------
(* The invariant                                                           *)

\* A service that has handed nothing out knows all of the wallet.
LEMMA WalletStarts ==
  ASSUME WalletInit, coins \in Seq(Utxo), \A c \in DOMAIN coins :
           coins[c].by = "holder" /\ coins[c].ada >= MinAda[KindsOf(coins[c].own)]
  PROVE  WalletInv
<1>1. Numbered
  <2>1. /\ live \subseteq DOMAIN coins /\ listed \subseteq DOMAIN coins
        /\ reserved \subseteq DOMAIN coins /\ moved \subseteq DOMAIN coins
        /\ carried = None /\ open = {}
    BY DEF WalletInit
  <2>2. head.at = 0 /\ head.next = 1 /\ tip.at = 0
    BY DEF WalletInit
  <2>3. pending \in Seq(Entry) /\ DOMAIN pending = {}
    BY DEF WalletInit
  <2>4. QED
    BY <2>1, <2>2, <2>3 DEF Numbered
<1>2. DOMAIN pending = {} /\ open = {} /\ carried = None
  BY DEF WalletInit
<1>3. InOrder /\ CollateralInv
  BY <1>2 DEF InOrder, CollateralInv, CollateralOnce
<1>4. ChangeInv
  BY <1>2 DEF ChangeInv, Carries
<1>5. AllFit
  BY DEF AllFit, Fits
<1>6. QED
  BY <1>1, <1>3, <1>4, <1>5 DEF WalletInv

LEMMA WalletStep ==
  ASSUME WalletInv, WalletNext
  PROVE  WalletInv'
<1>1. Numbered /\ InOrder /\ ChangeInv /\ CollateralInv /\ AllFit
  BY DEF WalletInv
<1>2. Numbered' /\ InOrder'
  BY <1>1, NumberedStep
<1>3. ChangeInv'
  BY <1>1, <1>2, ChangeStep
<1>4. CollateralInv'
  BY <1>1, CollateralStep
<1>5. AllFit'
  BY <1>1, FitStep
<1>6. QED
  BY <1>2, <1>3, <1>4, <1>5 DEF WalletInv

LEMMA WalletStutters ==
  ASSUME WalletInv, UNCHANGED walletVars
  PROVE  WalletInv'
<1>1. UNCHANGED <<coins, live, listed, pending, head, tip, reserved, carried, open,
                  forgot, moved>>
  BY DEF walletVars
<1>2. Numbered'
  BY <1>1 DEF WalletInv, Numbered, IsBuild, IsSurrender, IsPending
<1>3. InOrder'
  BY <1>1 DEF WalletInv, InOrder
<1>4. ChangeInv'
  <2>1. ASSUME NEW p, NEW E, Carries(p, E)'
        PROVE  Follows(p, E)'
    <3>1. Numbered /\ ChangeInv /\ Carries(p, E)
      BY <1>1, <2>1 DEF WalletInv, Carries
    <3>2. QED
      BY <1>1, <3>1, CarriesKnown, FollowsFrame
  <2>2. QED
    BY <2>1 DEF ChangeInv
<1>5. CollateralInv'
  BY <1>1 DEF WalletInv, CollateralInv, CollateralOnce
<1>6. AllFit'
  BY <1>1 DEF WalletInv, AllFit
<1>7. QED
  BY <1>2, <1>3, <1>4, <1>5, <1>6 DEF WalletInv

-----------------------------------------------------------------------------
(* Refusals                                                                *)

\* More outputs hold no less.
LEMMA MoreHoldMore ==
  ASSUME coins \in Seq(Utxo), NEW s \in SUBSET DOMAIN coins, NEW r \in SUBSET s
  PROVE  /\ Ada(r) \in Nat /\ Ada(s) \in Nat /\ Ada(r) <= Ada(s)
         /\ Own(r) \in [Tokens -> Nat] /\ Own(s) \in [Tokens -> Nat]
         /\ Within(Own(r), Own(s))
<1>1. /\ IsFiniteSet(s)
      /\ \A c \in s : AdaIn[c] \in Nat
      /\ \A t \in Tokens : \A c \in s : OwnIn(t)[c] \in Nat
  BY CoinSums
<1>2. r \in SUBSET DOMAIN coins
  OBVIOUS
<1>3. /\ Ada(r) = SumFunctionOnSet(AdaIn, r) /\ Ada(r) \in Nat
      /\ Own(r) \in [Tokens -> Nat]
      /\ \A t \in Tokens : Own(r)[t] = SumFunctionOnSet(OwnIn(t), r)
  BY <1>2, CoinSums
<1>4. /\ Ada(s) = SumFunctionOnSet(AdaIn, s) /\ Ada(s) \in Nat
      /\ Own(s) \in [Tokens -> Nat]
      /\ \A t \in Tokens : Own(s)[t] = SumFunctionOnSet(OwnIn(t), s)
  BY CoinSums
<1>5. Ada(r) <= Ada(s)
  BY <1>1, <1>3, <1>4, SumMonotone
<1>6. ASSUME NEW t \in Tokens
      PROVE  Own(r)[t] <= Own(s)[t]
  <2> DEFINE f == OwnIn(t)
  <2>1. \A c \in s : f[c] \in Nat
    BY <1>1
  <2> HIDE DEF f
  <2>2. SumFunctionOnSet(f, r) <= SumFunctionOnSet(f, s)
    BY <1>1, <2>1, SumMonotone
  <2>3. QED
    BY <1>3, <1>4, <2>2 DEF f
<1>7. QED
  BY <1>3, <1>4, <1>5, <1>6 DEF Within

\* Outputs that hold a token have one that does.
LEMMA SomeHolds ==
  ASSUME coins \in Seq(Utxo), NEW s \in SUBSET DOMAIN coins, NEW t \in Tokens, Own(s)[t] > 0
  PROVE  \E c \in s : coins[c].own[t] > 0
<1> DEFINE f == OwnIn(t)
<1>1. /\ IsFiniteSet(s) /\ Own(s)[t] = SumFunctionOnSet(f, s)
      /\ \A c \in s : f[c] \in Nat /\ f[c] = coins[c].own[t]
  BY CoinSums
<1> HIDE DEF f
<1>2. SUFFICES ASSUME \A c \in s : ~ (coins[c].own[t] > 0)
               PROVE  FALSE
  OBVIOUS
<1>3. \A c \in s : f[c] = 0
  BY <1>1, <1>2
<1>4. SumFunctionOnSet(f, s) = 0
  BY <1>1, <1>3, SumZero
<1>5. QED
  BY <1>1, <1>4

\* Whatever can balance a surrender spends what must be spent, and so pays the
\* least that it costs.
LEMMA FundsPayLeast ==
  ASSUME Numbered, NEW asks \in Asks, NEW spendable \in SUBSET DOMAIN coins,
         NEW explicit, NEW s \in Funds(explicit, spendable, asks)
  PROVE  LeastCost(explicit, spendable, asks) <= Ada(spendable)
<1> DEFINE M == MustSpend(explicit, spendable, asks)
           holders(t) == {c \in spendable : coins[c].own[t] > 0}
           kept == Kept(Own(M), asks)
           more == Less(Own(s), asks)
<1>1. /\ s \in SUBSET spendable /\ explicit \subseteq s /\ Within(asks, Own(s))
      /\ Ada(s) >= Paid + Fee + Carrying(KindsOf(more))
  BY DEF Funds
<1>2. coins \in Seq(Utxo) /\ asks \in [Tokens -> Nat]
      /\ Paid \in Nat /\ Fee \in Nat
  BY WalletAssumption DEF Numbered
<1>3. Ada(s) \in Nat /\ Ada(spendable) \in Nat /\ Ada(s) <= Ada(spendable)
      /\ Own(s) \in [Tokens -> Nat]
  BY <1>1, <1>2, MoreHoldMore
<1>4. ASSUME NEW t \in KindsOf(asks), Cardinality(holders(t)) = 1
      PROVE  holders(t) \subseteq s
  <2>1. t \in Tokens /\ asks[t] > 0 /\ asks[t] \in Nat /\ asks[t] <= Own(s)[t] /\ Own(s)[t] \in Nat
    BY <1>1, <1>2, <1>3 DEF KindsOf, Within
  <2>2. s \in SUBSET DOMAIN coins /\ Own(s)[t] > 0
    BY <1>1, <2>1
  <2>3. PICK c \in s : coins[c].own[t] > 0
    BY <1>2, <2>1, <2>2, SomeHolds
  <2>4. c \in holders(t)
    BY <1>1, <2>3
  <2>5. IsFiniteSet(holders(t))
    <3>1. IsFiniteSet(spendable)
      BY <1>2, CoinSums
    <3>2. QED
      BY <3>1, FS_Subset
  <2>6. \E x : holders(t) = {x}
    BY <1>4, <2>5, FS_Singleton
  <2>7. QED
    BY <2>3, <2>4, <2>6
<1>5. M \subseteq s
  <2>1. M = explicit \cup UNION {holders(t) : t \in {t \in KindsOf(asks) :
                                                        Cardinality(holders(t)) = 1}}
    BY DEF MustSpend
  <2> HIDE DEF M, holders
  <2>2. QED
    BY <1>1, <1>4, <2>1
<1> HIDE DEF M
<1>6. s \in SUBSET DOMAIN coins /\ M \in SUBSET s
  BY <1>1, <1>5
<1>7. Own(M) \in [Tokens -> Nat] /\ Within(Own(M), Own(s))
  BY <1>2, <1>6, MoreHoldMore
<1>8. LeastCost(explicit, spendable, asks) = Paid + Fee + Carrying(KindsOf(kept))
  BY DEF LeastCost, M
<1>9. KindsOf(kept) \subseteq KindsOf(more)
  <2>1. ASSUME NEW t \in KindsOf(kept)
        PROVE  t \in KindsOf(more)
    <3>1. t \in Tokens /\ kept[t] > 0
      BY <2>1 DEF KindsOf
    <3>2. Own(M)[t] > asks[t]
      BY <3>1 DEF Kept
    <3>3. Own(M)[t] <= Own(s)[t] /\ Own(M)[t] \in Nat /\ Own(s)[t] \in Nat /\ asks[t] \in Nat
      BY <1>2, <1>3, <1>7, <3>1 DEF Within
    <3>4. Own(s)[t] - asks[t] > 0
      BY <3>2, <3>3
    <3>5. QED
      BY <3>1, <3>4 DEF Less, KindsOf
  <2>2. QED
    BY <2>1
<1> HIDE DEF kept, more
<1>10. Carrying(KindsOf(kept)) <= Carrying(KindsOf(more))
       /\ Carrying(KindsOf(kept)) \in Nat /\ Carrying(KindsOf(more)) \in Nat
  <2>1. /\ KindsOf(kept) \in SUBSET Tokens /\ Carrying(KindsOf(kept)) \in Nat
        /\ KindsOf(more) \in SUBSET Tokens /\ Carrying(KindsOf(more)) \in Nat
    BY KindsTyped
  <2>2. MinAda[KindsOf(kept)] <= MinAda[KindsOf(more)]
    BY <1>9, <2>1, WalletAssumption
  <2>3. QED
    BY <1>9, <2>1, <2>2 DEF Carrying
<1>11. QED
  BY <1>1, <1>2, <1>3, <1>8, <1>10

\* One output more: what it holds is added, and its kinds of tokens.
LEMMA OneMoreCoin ==
  ASSUME coins \in Seq(Utxo), NEW s \in SUBSET DOMAIN coins, NEW d \in DOMAIN coins, d \notin s
  PROVE  /\ Ada(s \cup {d}) = coins[d].ada + Ada(s)
         /\ KindsOf(Own(s \cup {d})) = KindsOf(coins[d].own) \cup KindsOf(Own(s))
<1> DEFINE r == s \cup {d}
<1>1. r \in SUBSET DOMAIN coins
  OBVIOUS
<1>2. /\ IsFiniteSet(s)
      /\ Ada(s) = SumFunctionOnSet(AdaIn, s) /\ Ada(r) = SumFunctionOnSet(AdaIn, r)
      /\ \A c \in r : AdaIn[c] \in Nat /\ AdaIn[c] = coins[c].ada
  BY <1>1, CoinSums
<1>3. Ada(r) = coins[d].ada + Ada(s)
  <2>1. \A c \in s \cup {d} : AdaIn[c] \in Int
    BY <1>2
  <2>2. SumFunctionOnSet(AdaIn, s \cup {d}) = AdaIn[d] + SumFunctionOnSet(AdaIn, s)
    BY <1>2, <2>1, SumAdd
  <2>3. QED
    BY <1>2, <2>2
<1>4. ASSUME NEW t \in Tokens
      PROVE  Own(r)[t] > 0 <=> coins[d].own[t] > 0 \/ Own(s)[t] > 0
  <2> DEFINE f == OwnIn(t)
  <2>1. /\ Own(s)[t] = SumFunctionOnSet(f, s) /\ Own(r)[t] = SumFunctionOnSet(f, r)
        /\ Own(s)[t] \in Nat
        /\ \A c \in r : f[c] \in Nat /\ f[c] = coins[c].own[t]
    BY <1>1, CoinSums
  <2> HIDE DEF f
  <2>2. \A c \in s \cup {d} : f[c] \in Int
    BY <2>1
  <2>3. SumFunctionOnSet(f, s \cup {d}) = f[d] + SumFunctionOnSet(f, s)
    BY <1>2, <2>2, SumAdd
  <2>4. Own(r)[t] = f[d] + Own(s)[t] /\ f[d] \in Nat /\ f[d] = coins[d].own[t]
    BY <2>1, <2>3
  <2>5. QED
    BY <2>1, <2>4
<1>5. KindsOf(Own(r)) = KindsOf(coins[d].own) \cup KindsOf(Own(s))
  BY <1>4 DEF KindsOf
<1>6. QED
  BY <1>3, <1>5

\* What posts as collateral still does with another output on offer, which
\* brings at least the minimum that it adds to what they return.
LEMMA OneMorePosts ==
  ASSUME coins \in Seq(Utxo), AllFit, NEW s \in SUBSET DOMAIN coins, Posts(s),
         NEW d \in DOMAIN coins, d \notin s
  PROVE  Posts(s \cup {d})
<1> DEFINE A == KindsOf(coins[d].own)
           B == KindsOf(Own(s))
           back == Ada(s) - CollateralNeed
<1>1. /\ A \in SUBSET Tokens /\ MinAda[A] \in Nat /\ B \in SUBSET Tokens /\ MinAda[B] \in Nat
      /\ MinAda[{}] \in Nat /\ CollateralNeed \in Nat
  BY WalletAssumption, KindsTyped
<1>2. /\ MinAda[A \cup B] <= MinAda[A] + MinAda[B]
      /\ MinAda[A \cup B] \in Nat
  BY <1>1, WalletAssumption
<1>3. /\ Ada(s \cup {d}) = coins[d].ada + Ada(s)
      /\ KindsOf(Own(s \cup {d})) = A \cup B
  BY OneMoreCoin
<1>4. Ada(s) \in Nat /\ coins[d].ada \in Nat /\ coins[d].ada >= MinAda[A]
  <2>1. Ada(s) \in Nat
    BY CoinSums
  <2>2. coins[d] \in Utxo /\ Fits(coins[d])
    BY DEF AllFit
  <2>3. QED
    BY <2>1, <2>2 DEF Utxo, Fits
<1>5. /\ back >= 0
      /\ (back > 0 \/ B # {}) => back >= MinAda[B]
  BY DEF Posts
<1>6. Ada(s \cup {d}) - CollateralNeed = coins[d].ada + back /\ back \in Int
  BY <1>1, <1>3, <1>4
<1> HIDE DEF A, B, back
<1>7. coins[d].ada + back >= MinAda[A \cup B]
  <2>1. CASE back > 0 \/ B # {}
    BY <1>1, <1>2, <1>4, <1>5, <1>6, <2>1
  <2>2. CASE ~ (back > 0 \/ B # {})
    <3>1. A \cup B = A
      BY <2>2
    <3>2. MinAda[A \cup B] = MinAda[A]
      BY <3>1
    <3>3. back = 0
      BY <1>5, <1>6, <2>2
    <3>4. QED
      BY <1>1, <1>4, <3>2, <3>3
  <2>3. QED
    BY <2>1, <2>2
<1>8. Ada(s \cup {d}) - CollateralNeed >= 0
  BY <1>4, <1>5, <1>6
<1>9. Ada(s \cup {d}) - CollateralNeed >= MinAda[KindsOf(Own(s \cup {d}))]
  BY <1>3, <1>6, <1>7
<1>10. QED
  BY <1>8, <1>9 DEF Posts

LEMMA OfferedPosts ==
  ASSUME coins \in Seq(Utxo), AllFit, NEW o \in SUBSET DOMAIN coins, NEW s \in SUBSET o, Posts(s)
  PROVE  Posts(o)
<1> DEFINE P == {r \in SUBSET o : s \subseteq r /\ Posts(r)}
           left == [r \in P |-> Cardinality(o \ r)]
<1>1. IsFiniteSet(o)
  BY CoinSums
<1>2. s \in P /\ P \subseteq SUBSET o
  OBVIOUS
<1>3. \A r \in P : IsFiniteSet(o \ r) /\ left[r] = Cardinality(o \ r) /\ left[r] \in Nat
  BY <1>1, FS_Subset, FS_CardinalityType
<1>4. \E r \in P : \A q \in P : left[r] <= left[q]
  <2> HIDE DEF P, left
  <2>1. P # {} /\ \A r \in P : left[r] \in Nat
    BY <1>2, <1>3
  <2>2. QED
    BY <2>1, LeastRank
<1>5. PICK r \in P : \A q \in P : left[r] <= left[q]
  BY <1>4
<1>6. CASE r = o
  BY <1>5, <1>6
<1>7. ASSUME NEW d \in o \ r
      PROVE  FALSE
  <2>1. r \in SUBSET DOMAIN coins /\ d \in DOMAIN coins /\ d \notin r /\ Posts(r)
    BY <1>5, <1>7
  <2>2. Posts(r \cup {d})
    BY <2>1, OneMorePosts
  <2>3. r \cup {d} \in P
    BY <1>5, <1>7, <2>2
  <2>4. o \ (r \cup {d}) = (o \ r) \ {d}
    OBVIOUS
  <2>5. Cardinality((o \ r) \ {d}) = Cardinality(o \ r) - 1
    BY <1>3, <1>5, <1>7, FS_RemoveElement
  <2>6. left[r \cup {d}] = left[r] - 1
    BY <1>3, <1>5, <2>3, <2>4, <2>5
  <2>7. left[r] <= left[r \cup {d}]
    BY <1>5, <2>3
  <2>8. left[r] \in Nat
    BY <1>3, <1>5
  <2>9. QED
    BY <2>6, <2>7, <2>8
<1>8. QED
  BY <1>5, <1>6, <1>7

\* An output of pure ADA as large as the target posts.
LEMMA TargetPosts ==
  ASSUME coins \in Seq(Utxo), NEW c \in DOMAIN coins,
         KindsOf(coins[c].own) = {}, coins[c].ada >= CollateralTarget
  PROVE  Posts({c})
<1>1. /\ Ada({} \cup {c}) = coins[c].ada + Ada({})
      /\ KindsOf(Own({} \cup {c})) = KindsOf(coins[c].own) \cup KindsOf(Own({}))
  BY OneMoreCoin
<1>2. Ada({}) \in Nat /\ coins[c].ada \in Nat
  <2>1. Ada({}) \in Nat
    BY CoinSums
  <2>2. coins[c] \in Utxo
    OBVIOUS
  <2>3. QED
    BY <2>1, <2>2 DEF Utxo
<1>3. KindsOf(Own({})) = {}
  <2>1. ASSUME NEW t \in KindsOf(Own({}))
        PROVE  FALSE
    <3>1. t \in Tokens /\ Own({})[t] > 0
      BY <2>1 DEF KindsOf
    <3>2. \E d \in {} : coins[d].own[t] > 0
      BY <3>1, SomeHolds
    <3>3. QED
      BY <3>2
  <2>2. QED
    BY <2>1
<1>4. /\ CollateralTarget \in Nat /\ CollateralNeed \in Nat /\ MinAda[{}] \in Nat
      /\ CollateralTarget >= CollateralNeed + MinAda[{}]
  BY WalletAssumption
<1>5. {} \cup {c} = {c}
  OBVIOUS
<1>6. Ada({c}) = coins[c].ada + Ada({}) /\ KindsOf(Own({c})) = {}
  BY <1>1, <1>3, <1>5, Zenon
<1>7. Ada({c}) - CollateralNeed >= MinAda[{}] /\ Ada({c}) - CollateralNeed >= 0
  BY <1>2, <1>4, <1>6
<1>8. QED
  BY <1>6, <1>7 DEF Posts

\* Only those are refused before the build who cannot pay, and they are told
\* what they lack.
LEMMA RefusalsAreRight ==
  ASSUME Numbered, AllFit
  PROVE  RefusedRightly
<1> SUFFICES ASSUME NEW asks \in Asks,
                    MustFail(Explicit, Spendable(Explicit, SelectCollateral), asks,
                             SelectCollateral)
             PROVE  /\ Shortfall(Explicit, Spendable(Explicit, SelectCollateral), asks,
                                 SelectCollateral) # None
                    /\ \/ Funds(Explicit, Spendable(Explicit, SelectCollateral), asks) = {}
                       \/ \A s \in IF SelectCollateral # None THEN {{SelectCollateral}}
                                   ELSE SUBSET Offered(Explicit) : ~ Posts(s)
  BY DEF RefusedRightly
<1> DEFINE c == SelectCollateral
           spendable == Spendable(Explicit, c)
           cost == LeastCost(Explicit, spendable, asks)
           o == Offered(Explicit)
<1>1. /\ coins \in Seq(Utxo)
      /\ spendable \in SUBSET DOMAIN coins /\ o \in SUBSET DOMAIN coins
      /\ listed \subseteq DOMAIN coins
  BY SpendableKnown DEF Numbered
<1>2. Within(asks, Own(spendable)) /\ (Ada(spendable) < cost \/ ~ CollateralPosts(Explicit, c))
  BY DEF MustFail
<1>3. Ada(spendable) \in Nat /\ cost \in Nat /\ CollateralTarget \in Nat
  <2>1. Ada(spendable) \in Nat
    BY <1>1, CoinSums
  <2>2. Carrying(KindsOf(Kept(Own(MustSpend(Explicit, spendable, asks)), asks))) \in Nat
    BY KindsTyped
  <2> HIDE DEF spendable
  <2>3. cost \in Nat
    BY <2>2, WalletAssumption DEF LeastCost
  <2>4. QED
    BY <2>1, <2>3, WalletAssumption
<1>4. CASE ~ CollateralPosts(Explicit, c)
  <2>1. c = None
    <3> SUFFICES ASSUME c # None
                 PROVE  FALSE
      OBVIOUS
    <3>1. c \in Collaterals(listed)
      BY CollateralChosen
    <3>2. /\ c \in DOMAIN coins
          /\ KindsOf(coins[c].own) = {} /\ coins[c].ada >= CollateralTarget
      BY <1>1, <3>1 DEF Collaterals, PureAda
    <3>3. Posts({c})
      BY <1>1, <3>2, TargetPosts
    <3>4. QED
      BY <1>4, <3>3 DEF CollateralPosts
  <2>2. ~ Posts(o)
    BY <1>4, <2>1 DEF CollateralPosts
  <2>3. \A s \in SUBSET o : ~ Posts(s)
    <3> HIDE DEF o
    <3>1. QED
      BY <1>1, <2>2, OfferedPosts
  <2>4. \A d \in PureAda(listed, 0) : coins[d].ada \in Nat /\ coins[d].ada < CollateralTarget
    <3> SUFFICES ASSUME NEW d \in PureAda(listed, 0),
                        ~ (coins[d].ada \in Nat /\ coins[d].ada < CollateralTarget)
                 PROVE  FALSE
      OBVIOUS
    <3>1. d \in listed /\ d \in DOMAIN coins /\ KindsOf(coins[d].own) = {}
      BY <1>1 DEF PureAda
    <3>2. coins[d] \in Utxo
      BY <1>1, <3>1
    <3>3. coins[d].ada \in Nat /\ coins[d].ada >= CollateralTarget
      BY <1>3, <3>2 DEF Utxo
    <3>4. Posts({d})
      BY <1>1, <3>1, <3>3, TargetPosts
    <3>5. CollateralTarget > CollateralFloor /\ CollateralFloor \in Nat
      BY WalletAssumption
    <3>6. coins[d].ada > CollateralFloor
      BY <1>3, <3>3, <3>5
    <3>7. {d} \in SUBSET o
      BY <3>1, <3>6 DEF Offered
    <3>8. QED
      BY <2>3, <3>4, <3>7
  <2>5. (IF PureAda(listed, 0) = {} THEN 0
         ELSE Max({coins[d].ada : d \in PureAda(listed, 0)})) < CollateralTarget
    <3>1. 0 < CollateralTarget
      BY WalletAssumption
    <3>2. ASSUME PureAda(listed, 0) # {}
          PROVE  Max({coins[d].ada : d \in PureAda(listed, 0)}) < CollateralTarget
      <4> DEFINE pure == PureAda(listed, 0)
                 N == {coins[d].ada : d \in pure}
      <4>1. pure \in SUBSET DOMAIN coins
        BY <1>1 DEF PureAda
      <4>2. IsFiniteSet(pure) /\ \A d \in pure : AdaIn[d] = coins[d].ada /\ AdaIn[d] \in Nat
        BY <1>1, <4>1, CoinSums
      <4>3. pure # {} /\ \A d \in pure : coins[d].ada < CollateralTarget
        BY <2>4, <3>2
      <4> HIDE DEF pure
      <4>4. \E d \in pure : \A e \in pure : AdaIn[e] <= AdaIn[d]
        BY <4>2, <4>3, GreatestRank
      <4>5. \E m \in N : \A n \in N : m >= n
        BY <4>2, <4>4
      <4> HIDE DEF N
      <4>6. Max(N) \in N
        BY <4>5 DEF Max
      <4>7. QED
        BY <4>3, <4>6 DEF N, pure
    <3>3. QED
      BY <3>1, <3>2
  <2>6. Shortfall(Explicit, spendable, asks, c) # None
    BY <1>2, <2>1, <2>5, WalletAssumption DEF Shortfall
  <2>7. QED
    BY <2>1, <2>3, <2>6
<1>5. CASE Ada(spendable) < cost
  <2>1. ASSUME NEW s \in Funds(Explicit, spendable, asks)
        PROVE  FALSE
    <3>1. cost <= Ada(spendable)
      BY <1>1, <2>1, FundsPayLeast
    <3>2. QED
      BY <1>3, <1>5, <3>1
  <2>2. Ada(spendable) < cost + CollateralTarget
    BY <1>3, <1>5
  <2>3. Shortfall(Explicit, spendable, asks, c) # None
    BY <1>2, <2>2, WalletAssumption DEF Shortfall
  <2>4. QED
    BY <2>1, <2>3
<1>6. QED
  BY <1>2, <1>4, <1>5
=============================================================================
