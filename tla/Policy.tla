------------------------------- MODULE Policy -------------------------------
(***************************************************************************)
(* cosign_policy.py: what each admin checks of a transaction before it     *)
(* signs.  The validator asks for two signatures and the window; all else  *)
(* that makes a surrender is decided here.                                 *)
(*                                                                         *)
(* Bytes are left out: a transaction is what strict decoding makes of it,  *)
(* or it is refused as not well formed.  A price is a function of the bag  *)
(* of units that reaches quarantine (surrendered_entitlement, see          *)
(* RateTable.tla and Redemption.tla).                                      *)
(***************************************************************************)
EXTENDS PoolScript, FiniteSets, Functions, FiniteSetsExt

CONSTANTS
  PoolAddress, QuarantineAddress,
  KeyLocked,      \* addresses of wallets on the pool's network, no admin's
  Assets, Matra,  \* asset ids, Matra the pool's
  Made,           \* ref -> output, of the bodies that produced the inputs
  Entitled,       \* bag of quarantined units -> price, or Unpriced
  Unpriced,
  MaxFee, MaxCollateral, MaxOutflow, MaxValidity, MaxPayout

IsOutput(out) == out.coin \in Nat /\ out.assets \in [Assets -> Nat]

\* cMATRA is no legacy unit: a bag that holds some has no price.
ASSUME PolicyAssumption ==
  /\ PoolAddress \notin KeyLocked /\ QuarantineAddress \notin KeyLocked
  /\ PoolAddress # QuarantineAddress
  /\ Matra \in Assets
  /\ Unpriced \notin Int
  /\ \A r \in DOMAIN Made : IsOutput(Made[r])
  /\ \A b \in DOMAIN Entitled : b[Matra] # 0 => Entitled[b] = Unpriced

(* What strict decoding makes of the bytes. *)
IsTransaction(tx) ==
  /\ tx.from \in Nat /\ tx.until \in Nat /\ tx.fee \in Nat
  /\ IsFiniteSet(tx.inputs)
  /\ IsFiniteSet(DOMAIN tx.outs) /\ \A i \in DOMAIN tx.outs : IsOutput(tx.outs[i])

Bag(outs, a) == SumFunction([i \in DOMAIN outs |-> outs[i].assets[a]])
Coins(outs) == SumFunction([i \in DOMAIN outs |-> outs[i].coin])

Spent(tx) == Restrict(Made, tx.inputs)
At(outs, address) == Restrict(outs, {i \in DOMAIN outs : outs[i].address = address})

(* Only ADA and cMATRA, under the inline Void. *)
PoolLike(out) ==
  /\ out.datum = "void"
  /\ \A a \in Assets \ {Matra} : out.assets[a] = 0

PoolInputs(tx) == {r \in tx.inputs : Made[r].address = PoolAddress}
PoolInput(tx) == CHOOSE r \in PoolInputs(tx) : TRUE
Continuations(tx) == {i \in DOMAIN tx.outs : tx.outs[i].address = PoolAddress}
Continuation(tx) == tx.outs[CHOOSE i \in Continuations(tx) : TRUE]

Claimants(tx) == {Made[r].address : r \in tx.inputs \ PoolInputs(tx)}
Claimant(tx) == CHOOSE a \in Claimants(tx) : TRUE

Quarantined(tx) == [a \in Assets |-> Bag(At(tx.outs, QuarantineAddress), a)]

Payout(tx) == Made[PoolInput(tx)].assets[Matra] - Continuation(tx).assets[Matra]

-----------------------------------------------------------------------------
(* Marked valid, no auxiliary data, no field but a surrender's, exactly    *)
(* the two admins as required signers, bounded fee and collateral.         *)
Bounded(tx) ==
  /\ tx.wellFormed
  /\ tx.signers = Admins
  /\ tx.fee <= MaxFee
  /\ tx.totalCollateral <= MaxCollateral

\* Mutant: the upper bound is held against the clock only.
TimelyAnyEnd(tx, now) ==
  /\ now < tx.until /\ tx.until <= now + MaxValidity
  /\ tx.from <= now

(* Open now, and closed by the deadline. *)
Timely(tx, now) ==
  /\ now < tx.until /\ tx.until <= now + MaxValidity
  /\ tx.until <= Deadline
  /\ tx.from <= now

(* Every input resolves, none is listed twice, one is the pool's and all   *)
(* others and the collateral are of one wallet.                            *)
InputsHold(tx) ==
  /\ tx.inputs \cup tx.collateral \subseteq DOMAIN Made
  /\ ~tx.listedTwice
  /\ Cardinality(PoolInputs(tx)) = 1
  /\ PoolLike(Made[PoolInput(tx)])
  /\ Cardinality(Claimants(tx)) = 1
  /\ Claimant(tx) \in KeyLocked
  /\ \A r \in tx.collateral : Made[r].address = Claimant(tx)
  /\ tx.collateralReturn \in {Claimant(tx), "absent"}

\* Mutant: where an output goes is not looked at.
OutputsHoldAnywhere(tx) ==
  /\ \A i \in DOMAIN tx.outs : ~tx.outs[i].scriptRef
  /\ Cardinality(Continuations(tx)) = 1
  /\ PoolLike(Continuation(tx))
  /\ Continuation(tx).assets[Matra] > 0

(* One output continues the pool; all others are for quarantine or the     *)
(* claimant.                                                               *)
OutputsHold(tx) ==
  /\ \A i \in DOMAIN tx.outs :
        /\ ~tx.outs[i].scriptRef
        /\ tx.outs[i].address \in {PoolAddress, QuarantineAddress, Claimant(tx)}
  /\ Cardinality(Continuations(tx)) = 1
  /\ PoolLike(Continuation(tx))
  /\ Continuation(tx).assets[Matra] > 0

(* The pool pays the price of what the claimant's inputs hold and the      *)
(* transaction quarantines.                                                *)
PaysEntitlement(tx) ==
  /\ Quarantined(tx) \in DOMAIN Entitled
  /\ Entitled[Quarantined(tx)] \notin {0, Unpriced}
  /\ \A a \in Assets : Quarantined(tx)[a] <= Bag(At(Spent(tx), Claimant(tx)), a)
  /\ Payout(tx) = Entitled[Quarantined(tx)]
  /\ Payout(tx) <= MaxPayout
  /\ Made[PoolInput(tx)].coin - Continuation(tx).coin <= MaxOutflow

(* One redeemer, on the pool's input, bound to the body. *)
Redeems(tx) ==
  /\ tx.redeemersBound
  /\ tx.redeemed = {PoolInput(tx)}
  /\ tx.redeemer = "surrender"

Balanced(tx) ==
  /\ Coins(Spent(tx)) = Coins(tx.outs) + tx.fee
  /\ \A a \in Assets : Bag(Spent(tx), a) = Bag(tx.outs, a)

(* evaluate_surrender: each check assumes the ones before it. *)
Approves(tx, now) ==
  /\ Bounded(tx)
  /\ Timely(tx, now)
  /\ InputsHold(tx)
  /\ OutputsHold(tx)
  /\ PaysEntitlement(tx)
  /\ Redeems(tx)
  /\ Balanced(tx)

(* require_claimant_signature. *)
ClaimantSigned(tx) == Claimant(tx) \in tx.witnesses

-----------------------------------------------------------------------------
(* How the wealth of an address changes. *)
Gain(tx, address, a) == Bag(At(tx.outs, address), a) - Bag(At(Spent(tx), address), a)
CoinGain(tx, address) == Coins(At(tx.outs, address)) - Coins(At(Spent(tx), address))

(* An approved transaction opens the pool by the surrender path of the     *)
(* validator and can never open it by the other.                           *)
ApprovedOpensPool(tx, now) ==
  Approves(tx, now) =>
      /\ Validates(Made[PoolInput(tx)].datum, tx)
      /\ ~EntirelyAfter(tx)

(* Whatever else it does, it trades: the claimant gains in cMATRA what the *)
(* pool loses, which is the price of what the claimant gives up to         *)
(* quarantine and nobody else does; and ADA leaves the pool within bounds  *)
(* and the claimant's wallet only.                                         *)
ApprovedTrades(tx, now) ==
  Approves(tx, now) =>
      LET who == Claimant(tx)
      IN  /\ Gain(tx, who, Matra) = - Gain(tx, PoolAddress, Matra)
          /\ Gain(tx, who, Matra) = Entitled[[a \in Assets |-> Gain(tx, QuarantineAddress, a)]]
          /\ \A a \in Assets \ {Matra} : Gain(tx, who, a) = - Gain(tx, QuarantineAddress, a)
          /\ - CoinGain(tx, PoolAddress) <= MaxOutflow
          /\ CoinGain(tx, PoolAddress) + CoinGain(tx, who)
                + CoinGain(tx, QuarantineAddress) = - tx.fee
=============================================================================
