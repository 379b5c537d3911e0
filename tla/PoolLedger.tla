----------------------------- MODULE PoolLedger -----------------------------
(***************************************************************************)
(* What the operator's tools share: the outputs at the pool's address, the *)
(* slot, the wallet that funds the pool, and the node that takes or        *)
(* refuses a transaction.                                                  *)
(*                                                                         *)
(* Outputs are numbered in the order they appear.  The funding wallet is   *)
(* one output at a time: its n-th state is wallet[n], and a transaction    *)
(* built from an older one is refused.                                     *)
(***************************************************************************)
EXTENDS PoolScript, Sequences, FiniteSets, SequencesExt

CONSTANTS MaxSlot,    \* bound on time
          MaxGifts    \* bound on outputs that others send to the pool

ASSUME LedgerAssumption == MaxSlot \in Nat /\ MaxGifts \in Nat

VARIABLES pool,     \* number -> [units, datum, by], the unspent outputs
          born,     \* how many outputs there have been
          slot,
          seed,     \* the seed output of the mint is unspent
          wallet,   \* balances of the funding wallet, the last is current
          held,     \* where the units have gone
          gifts,
          script    \* the script the tools are given: the pool's or another

ledgerVars == <<pool, born, slot, seed, wallet, held, gifts, script>>

(* users: paid by the surrender service; paid: by the batch driver;        *)
(* returned: to the admins.                                                *)
Accounts == {"users", "paid", "returned", "burned"}

(* Who makes an output. *)
Makers == {"mint", "builder", "driver", "service", "anyone", "burner"}

Output(units, datum, by) == [units |-> units, datum |-> datum, by |-> by]

(* ADA beside the units, in halves.  Each tool puts what it holds to be    *)
(* the least; strangers are taken to send enough.                          *)
AdaOf(by) == CASE by \in {"builder", "driver"} -> 2
               [] by = "service" -> 3
               [] OTHER -> 4

UnitsOf(outs) == SumFunction([i \in DOMAIN outs |-> outs[i].units])

(* The outputs in `back' are added to what is left of the pool. *)
PoolWith(left, back) ==
    [i \in left \cup (born + 1 .. born + Len(back)) |->
        IF i \in left THEN pool[i] ELSE back[i - born]]

(* Another script is one whose source is not in this repository: it is     *)
(* taken to accept what the tools send it, as long as there is a datum.    *)
Unlocks(datum, tx) == IF script = "pool" THEN Validates(datum, tx) ELSE datum # "none"

(* evaluate_tx: the inputs exist and their script accepts. *)
Evaluates(tx) ==
    \A i \in DOMAIN tx.claims : i \in DOMAIN pool /\ Unlocks(pool[i].datum, tx)

InTime(tx) ==
    /\ tx.from # Open => tx.from <= slot
    /\ tx.until # Open => slot < tx.until

(* The node takes a transaction that is in time, signed by all it requires *)
(* and balanced: what it claims of its inputs is what they hold.           *)
Takes(tx) ==
    /\ InTime(tx)
    /\ tx.signers \subseteq tx.witnesses
    /\ Evaluates(tx)
    /\ \A i \in DOMAIN tx.claims : tx.claims[i] = pool[i].units

Lands(tx, account) ==
    /\ Takes(tx)
    /\ pool' = PoolWith(DOMAIN pool \ DOMAIN tx.claims, tx.back)
    /\ born' = born + Len(tx.back)
    /\ held' = [held EXCEPT ![account] =
                   @ + SumFunction(tx.claims) - UnitsOf(tx.back)]
    /\ UNCHANGED <<slot, seed, wallet, gifts, script>>

-----------------------------------------------------------------------------
(* A surrender of the service, which Surrender.tla follows from request to *)
(* landing: both admins, an upper bound, the remainder back to the pool.   *)
Served(i, u, until) ==
    /\ u <= pool[i].units
    /\ pool[i].datum = "void"
    /\ Lands([claims    |-> [j \in {i} |-> pool[j].units],
              back      |-> IF u = pool[i].units THEN <<>>
                            ELSE <<Output(pool[i].units - u, "void", "service")>>,
              signers   |-> Admins,
              witnesses |-> Admins,
              from      |-> Open,
              until     |-> until,
              redeemer  |-> "surrender"], "users")

(* Anyone can send a unit to the pool's address, with any datum or none. *)
Gift(datum) ==
    /\ gifts < MaxGifts
    /\ held.users > 0
    /\ gifts' = gifts + 1
    /\ pool' = PoolWith(DOMAIN pool, <<Output(1, datum, "anyone")>>)
    /\ born' = born + 1
    /\ held' = [held EXCEPT !.users = @ - 1]
    /\ UNCHANGED <<slot, seed, wallet, script>>

(* A holder burns a unit and may pay another to the pool at the same time. *)
Burn(datum) ==
    /\ gifts < MaxGifts
    /\ held.users > 1
    /\ MintPolicy([names   |-> {"cMATRA"}, qty |-> -1, seed |-> FALSE, signers |-> {},
                   outs    |-> {[script |-> TRUE, units |-> 1, datum |-> datum]}])
    /\ gifts' = gifts + 1
    /\ pool' = PoolWith(DOMAIN pool, <<Output(1, datum, "burner")>>)
    /\ born' = born + 1
    /\ held' = [held EXCEPT !.users = @ - 2, !.burned = @ + 1]
    /\ UNCHANGED <<slot, seed, wallet, script>>

(* A mint both admins sign: `units' to the pool, the rest to the wallet. *)
Minted(units, datum, tx) ==
    /\ tx.seed => seed
    /\ InTime(tx)
    /\ tx.signers \subseteq tx.witnesses
    /\ MintPolicy([names |-> {"cMATRA"}, qty |-> tx.qty, seed |-> tx.seed,
                   signers |-> tx.signers,
                   outs  |-> {[script |-> TRUE, units |-> units, datum |-> datum],
                              [script |-> FALSE, units |-> tx.qty - units,
                               datum |-> "none"]}])
    /\ seed' = (seed /\ ~tx.seed)
    /\ pool' = PoolWith(DOMAIN pool, <<Output(units, datum, "mint")>>)
    /\ born' = born + 1
    /\ wallet' = Append(wallet, tx.qty - units)
    /\ UNCHANGED <<slot, held, gifts, script>>

Tick ==
    /\ slot < MaxSlot
    /\ slot' = slot + 1
    /\ UNCHANGED <<pool, born, seed, wallet, held, gifts, script>>
=============================================================================
