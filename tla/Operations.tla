----------------------------- MODULE Operations -----------------------------
(***************************************************************************)
(* The operator's tools on one pool: the mint ceremony, the builder of the *)
(* pool, the batch driver, the sweep ceremony and the reclaim, next to the *)
(* surrender service and to strangers who send outputs to the pool's       *)
(* address, before and after the deadline.                                 *)
(*                                                                         *)
(* A behaviour starts in one of the situations the tools are written for   *)
(* and only the tools of that situation run in it; of the ceremonies, the  *)
(* mint's stages run until a mint has landed and the sweep's after that,   *)
(* while a mint may be sent at any time.  Two situations are of the        *)
(* service: a claimant's wallet that surrenders in chunks, and a           *)
(* transaction that is offered to a signer.                                *)
(***************************************************************************)
EXTENDS PoolBuilder, BatchDriver, AdminReclaim, Ceremonies, WalletBuild, Policy

CONSTANTS Leftovers,   \* what may be in the pool when requests come, or at the end
          Offers       \* transactions that a signer may be asked to sign

ASSUME OfferAssumption == \A tx \in Offers : IsTransaction(tx)

(* An output at the pool.  What comes of a mint or a burn has a datum.     *)
IsPoolOutput(out) ==
    /\ out \in [units : Nat \ {0}, datum : Datums, by : Makers]
    /\ out.by \in {"mint", "burner"} => out.datum # "none"

ASSUME LeftoverAssumption ==
    /\ Deadline <= MaxSlot
    /\ \A p \in Leftovers :
          /\ IsFiniteSet(DOMAIN p) /\ DOMAIN p = 1 .. Cardinality(DOMAIN p)
          /\ \A i \in DOMAIN p : IsPoolOutput(p[i])
          /\ UnitsOf(p) <= TotalSupply

VARIABLES situation, offer

vars == <<ledgerVars, build, batch, reclaim, ceremonyVars, walletVars, situation, offer>>

Situations == {"nothing minted", "supply in the wallet", "requests", "closing",
               "chunks", "offers"}

OnOutputs == {"requests", "closing"}

Empty == [i \in {} |-> Output(0, "none", "nobody")]

(* Only the real script can hold what the ceremony mints.  In the other    *)
(* situations the tools may be pointed at either script.                   *)
Init ==
    /\ situation \in Situations
    /\ script \in (IF situation = "nothing minted" THEN {"pool"} ELSE {"pool", "other"})
    /\ seed = (situation = "nothing minted")
    /\ wallet = IF situation = "supply in the wallet" THEN <<TotalSupply>> ELSE <<>>
    /\ pool \in (IF situation \in OnOutputs THEN Leftovers ELSE {Empty})
    /\ born = Cardinality(DOMAIN pool)
    /\ slot \in (IF situation = "offers" THEN 0 .. Deadline ELSE {0})
    /\ offer \in (IF situation = "offers" THEN Offers ELSE {None})
    /\ WalletInit
    /\ situation # "chunks" => coins = <<>>
    /\ situation \in {"chunks", "offers"} => script = "pool"
    /\ gifts = 0
    /\ held = [a \in Accounts |-> IF a = "users" /\ ~seed
                                       /\ situation # "supply in the wallet"
                                  THEN TotalSupply - UnitsOf(pool) ELSE 0]
    /\ build = NoBuild
    /\ batch = NoBatch
    /\ reclaim = NoReclaim
    /\ mint = NoFiles
    /\ sweep = NoFiles

Bounds == {Deadline, Deadline + 1, Open}

(* Others than the operators. *)
Outside ==
    \/ \E i \in DOMAIN pool, u \in 1 .. TotalSupply, until \in Bounds : Served(i, u, until)
    \/ \E d \in {"void", "none"} : Gift(d) \/ Burn(d)
    \/ Tick

ToolsIdle == UNCHANGED <<build, batch, reclaim, ceremonyVars>>

Next ==
    /\ UNCHANGED <<situation, offer>>
    /\ \/ /\ situation \notin {"chunks", "offers"}
          /\ Outside
          /\ ToolsIdle /\ UNCHANGED walletVars
       \/ /\ situation = "nothing minted"
          /\ \/ seed /\ MintNext
             \/ MintSends
             \/ ~seed /\ SweepNext
          /\ UNCHANGED <<build, batch, reclaim, walletVars>>
       \/ /\ situation = "supply in the wallet"
          /\ BuilderNext
          /\ UNCHANGED <<batch, reclaim, ceremonyVars, walletVars>>
       \/ /\ situation = "requests"
          /\ DriverNext
          /\ UNCHANGED <<build, reclaim, ceremonyVars, walletVars>>
       \/ /\ situation = "closing"
          /\ ReclaimNext
          /\ UNCHANGED <<build, batch, ceremonyVars, walletVars>>
       \/ /\ situation = "chunks"
          /\ WalletNext
          /\ ToolsIdle /\ UNCHANGED ledgerVars

Spec == Init /\ [][Next]_vars

-----------------------------------------------------------------------------
InWallet == IF wallet = <<>> THEN 0 ELSE wallet[Len(wallet)]

(* The state has its types. *)
TypeOK ==
    /\ situation \in Situations /\ script \in {"pool", "other"}
    /\ DOMAIN pool \subseteq 1 .. born
    /\ \A i \in DOMAIN pool : pool[i].units \in 1 .. TotalSupply /\ pool[i].datum \in Datums
    /\ slot \in 0 .. MaxSlot /\ gifts \in 0 .. MaxGifts /\ seed \in BOOLEAN
    /\ held \in [Accounts -> 0 .. TotalSupply]
    /\ \A i \in DOMAIN wallet : wallet[i] \in 0 .. TotalSupply
    /\ build.stage \in {"idle", "building", "preflight", "submitting", "listing",
                        "manifest", "aborted"}
    /\ batch.stage \in {"idle", "selecting", "building", "preflight", "submitting",
                        "counting", "report"}
    /\ reclaim.stage \in {"idle", "check_only", "no_action", "building", "sign-1", "sign-2",
                          "assembling", "submitting", "report", "failed"}
    /\ live \cup listed \cup reserved \cup moved \subseteq DOMAIN coins
    /\ \A c \in DOMAIN coins : coins[c].ada \in Nat
    /\ tip.at <= head.at \/ tip.at < head.next
    /\ {mint.applied, mint.params, sweep.applied, sweep.params} \subseteq BOOLEAN

(* The supply is minted whole and once, whatever is minted by hand and in  *)
(* whatever order the stages of the ceremony run; after that units move    *)
(* and are burned, and none appears.  An output of the mint or of a burn   *)
(* at the pool carries a datum, so that it can be spent again              *)
(* (flux_mint_policy.ak, mint-ceremony.sh).                                *)
MintSound ==
    /\ UnitsOf(pool) + InWallet + SumFunction(held) = IF seed THEN 0 ELSE TotalSupply
    /\ \A i \in DOMAIN pool : pool[i].by \in {"mint", "burner"} => pool[i].datum # "none"

(* Out of the pool's script units go to users before the deadline only,    *)
(* back to the admins after it only, and the tools that sign with one      *)
(* admin get nothing out of it (claim_validator.ak, whose two paths must   *)
(* not overlap).                                                           *)
DeadlineSplits ==
    [][script = "pool" =>
          /\ held'.users > held.users => slot < Deadline
          /\ held'.returned > held.returned => slot > Deadline
          /\ held'.paid = held.paid]_vars

(* A sweep that lands leaves nothing behind that was there when its        *)
(* preflight looked, even if files of an older attempt are submitted: what *)
(* remains came later (admin-sweep-ceremony.sh, sweep_helpers.py).         *)
SweepEmpties ==
    [][situation = "nothing minted" /\ held'.returned > held.returned =>
          \A i \in DOMAIN pool' : i > sweep.final.body.seen]_vars

(* What a signer approves opens the pool by the surrender path, and trades *)
(* the claimant's units for their price (cosign_policy.py, where both are  *)
(* explained).                                                             *)
OffersOpenPool == offer # None => ApprovedOpensPool(offer, slot)
OffersTrade == offer # None => ApprovedTrades(offer, slot)

-----------------------------------------------------------------------------
(* What the code's documents say and the code does not do. *)

CouldSweep ==
    /\ PoolView # Bad
    /\ PoolView.ada >= DestOutputAda
    /\ slot >= SweepWindow.from /\ slot < SweepWindow.until

CouldReclaim ==
    /\ Discoverable
    /\ \A i \in DOMAIN pool : Validates(pool[i].datum, ReclaimTx)

(* Once the window has closed and the buffer has passed, what is left in   *)
(* the pool can be taken back by both admins: one of the two tools can     *)
(* build a transaction that the validator accepts.                         *)
Reclaimable ==
    script = "pool" /\ pool # Empty /\ slot >= SweepWindow.from =>
        CouldSweep \/ CouldReclaim
=============================================================================
