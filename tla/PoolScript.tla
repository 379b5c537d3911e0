----------------------------- MODULE PoolScript -----------------------------
(***************************************************************************)
(* The two scripts that guard cMATRA: the validator of the surrender pool  *)
(* (claim_validator.ak) and the mint policy (flux_mint_policy.ak).         *)
(*                                                                         *)
(* A transaction that spends from the pool is a record with its required   *)
(* signers, its validity interval [from, until) in slots, where Open is no *)
(* bound, and the redeemer of its script inputs.                           *)
(***************************************************************************)
EXTENDS Integers

CONSTANTS Admin1, Admin2,
          Deadline,       \* the slot of the deadline
          Open,           \* no bound
          TotalSupply     \* total_supply_base

Admins == {Admin1, Admin2}

ASSUME ScriptAssumption ==
    /\ Deadline \in Nat /\ TotalSupply \in Nat \ {0}
    /\ Open \notin Int
    /\ Admin1 # Admin2

(* SurrenderAction. *)
Redeemers == {"surrender", "withdraw"}

(* What an output carries: an inline Void, the inline datum of a claim, a  *)
(* datum hash, or nothing.                                                 *)
Datums == {"void", "claim", "hash", "none"}

\* Mutant: no upper bound counts as before the deadline.
EntirelyBeforeOpen(tx) == tx.until # Open => tx.until <= Deadline

(* is_entirely_before: the upper bound of a transaction is exclusive. *)
EntirelyBefore(tx) == tx.until # Open /\ tx.until <= Deadline

(* is_entirely_after: the lower bound is inclusive. *)
EntirelyAfter(tx) == tx.from # Open /\ tx.from > Deadline

(* surrender_pool.spend. *)
Validates(datum, tx) ==
    /\ datum # "none"
    /\ Admins \subseteq tx.signers
    /\ \/ tx.redeemer = "surrender" /\ EntirelyBefore(tx)
       \/ tx.redeemer = "withdraw" /\ EntirelyAfter(tx)

\* Mutant: the datum of outputs at scripts is not looked at.
MintPolicyNoDatum(tx) ==
    /\ tx.names = {"cMATRA"}
    /\ \/ /\ tx.qty > 0
          /\ Admins \subseteq tx.signers
          /\ tx.seed
          /\ tx.qty = TotalSupply
       \/ tx.qty < 0

(* flux_mint_policy.mint: only cMATRA, every output of it at a script with *)
(* a datum; the whole supply, once, by both admins; burning is free.       *)
MintPolicy(tx) ==
    /\ tx.names = {"cMATRA"}
    /\ \A o \in tx.outs : o.units > 0 /\ o.script => o.datum # "none"
    /\ \/ /\ tx.qty > 0
          /\ Admins \subseteq tx.signers
          /\ tx.seed
          /\ tx.qty = TotalSupply
       \/ tx.qty < 0
=============================================================================
