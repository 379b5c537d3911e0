----------------------------- MODULE Ceremonies -----------------------------
(***************************************************************************)
(* mint-ceremony.sh and admin-sweep-ceremony.sh.  An operator calls one    *)
(* stage at a time, in any order and as often as he likes; each reads the  *)
(* files of earlier stages and writes its own.  A stage asks only whether  *)
(* a file is there, so what it reads may be older than what was written    *)
(* before it, or what a failed stage left.                                 *)
(***************************************************************************)
EXTENDS PoolLedger

CONSTANTS PoolShare,    \* CMATRA_POOL_AMOUNT_BASE
          Buffer,       \* DEADLINE_BUFFER_SLOTS
          Window,       \* TX_VALIDITY_HOURS, in slots
          NoFile, Bad   \* a file that is not there, one that holds no answer

ASSUME CeremonyAssumption ==
    /\ Buffer \in Nat \ {0} /\ Window \in Nat \ {0}
    /\ PoolShare \in 1 .. TotalSupply

VARIABLES mint, sweep   \* the files of the two ceremonies

ceremonyVars == <<mint, sweep>>

(* view: what preflight found of the pool.  raw: the transaction body.     *)
(* first, second: the bodies that admin 1 and admin 2 signed.  final: a    *)
(* body and who has signed that body.                                      *)
NoFiles == [applied |-> FALSE, params |-> FALSE, view |-> NoFile, raw |-> NoFile,
            first |-> NoFile, second |-> NoFile, final |-> NoFile]

Applied(f) == [f EXCEPT !.applied = TRUE]
Fetched(f) == [f EXCEPT !.params = TRUE]

CanBuild(f) == f.applied /\ f.params

SignedFirst(f) == [f EXCEPT !.first = f.raw]

(* The other host signs the body it is sent.  If its answer is cut short   *)
(* the file is there all the same.                                         *)
SignedSecond(f, ok) == [f EXCEPT !.second = IF ok THEN f.raw ELSE Bad]

CanAssemble(f) == f.first # NoFile /\ f.second \notin {NoFile, Bad}

(* Admin 1 signs the present body once more; admin 2's file is taken as it *)
(* is.                                                                     *)
Assembled(f) ==
    [f EXCEPT !.final = [body |-> f.raw,
                         by   |-> {Admin1} \cup (IF f.second = f.raw THEN {Admin2} ELSE {})]]

Write(file, new) == new # file /\ UNCHANGED ledgerVars

-----------------------------------------------------------------------------
(* The mint. *)

MintApply == Write(mint, Applied(mint)) /\ mint' = Applied(mint) /\ UNCHANGED sweep

MintParams == Write(mint, Fetched(mint)) /\ mint' = Fetched(mint) /\ UNCHANGED sweep

(* Valid from the present slot on. *)
MintBuild ==
    /\ CanBuild(mint)
    /\ mint' = [mint EXCEPT !.raw = [from |-> slot, until |-> slot + Window]]
    /\ UNCHANGED <<ledgerVars, sweep>>

MintSign1 ==
    /\ mint.raw # NoFile
    /\ mint' = SignedFirst(mint)
    /\ UNCHANGED <<ledgerVars, sweep>>

MintSign2(ok) ==
    /\ mint.raw # NoFile
    /\ mint' = SignedSecond(mint, ok)
    /\ UNCHANGED <<ledgerVars, sweep>>

MintAssemble ==
    /\ CanAssemble(mint)
    /\ mint' = Assembled(mint)
    /\ UNCHANGED <<ledgerVars, sweep>>

(* The pool's share with an inline Void, the rest to admin 1. *)
MintSubmit ==
    /\ mint.final # NoFile
    /\ Minted(PoolShare, "void",
              [signers |-> Admins, witnesses |-> mint.final.by,
               from |-> mint.final.body.from, until |-> mint.final.body.until,
               qty |-> TotalSupply, seed |-> TRUE])
    /\ UNCHANGED ceremonyVars

(* Any other mint that is put together by hand. *)
MintByHand(units, datum, signers, qty, spendsSeed) ==
    /\ units <= qty
    /\ Minted(units, datum, [signers |-> signers, witnesses |-> signers, from |-> Open,
                             until |-> Open, qty |-> qty, seed |-> spendsSeed])
    /\ UNCHANGED ceremonyVars

-----------------------------------------------------------------------------
(* The sweep. *)

(* Both the redeemer and the datum file come from emit-cbor. *)
SweepApply == Write(sweep, Applied(sweep)) /\ sweep' = Applied(sweep) /\ UNCHANGED mint

SweepParams == Write(sweep, Fetched(sweep)) /\ sweep' = Fetched(sweep) /\ UNCHANGED mint

(* seen is a ghost: how many outputs there had been by then. *)
Viewed(i) == [id |-> i, units |-> pool[i].units, ada |-> AdaOf(pool[i].by), seen |-> born]

\* Mutant: of several outputs at the address the first is taken.
PoolViewAny ==
    IF pool = <<>> THEN Bad
    ELSE Viewed(CHOOSE j \in DOMAIN pool : \A k \in DOMAIN pool : j <= k)

(* koios_get_pool_utxo: exactly one output, or the file holds an error. *)
PoolView ==
    IF Cardinality(DOMAIN pool) # 1 THEN Bad
    ELSE Viewed(CHOOSE j \in DOMAIN pool : TRUE)

SweepPreflight(ok) ==
    /\ sweep' = [sweep EXCEPT !.view = IF ok THEN PoolView ELSE Bad]
    /\ UNCHANGED <<ledgerVars, mint>>

(* derive_sweep_validity_window: counted from the deadline, not from now. *)
SweepWindow == [from |-> Deadline + Buffer, until |-> Deadline + Buffer + Window]

(* DEST_OUTPUT_ADA, in halves: the pool's output must hold as much. *)
DestOutputAda == 4

SweepBuild ==
    /\ CanBuild(sweep)
    /\ sweep.view \notin {NoFile, Bad}
    /\ sweep.view.ada >= DestOutputAda
    /\ sweep' = [sweep EXCEPT !.raw = sweep.view]
    /\ UNCHANGED <<ledgerVars, mint>>

SweepSign1 ==
    /\ sweep.raw # NoFile
    /\ sweep' = SignedFirst(sweep)
    /\ UNCHANGED <<ledgerVars, mint>>

SweepSign2(ok) ==
    /\ sweep.raw # NoFile
    /\ sweep' = SignedSecond(sweep, ok)
    /\ UNCHANGED <<ledgerVars, mint>>

SweepAssemble ==
    /\ CanAssemble(sweep)
    /\ sweep' = Assembled(sweep)
    /\ UNCHANGED <<ledgerVars, mint>>

SweepTx(final) ==
    [claims    |-> [i \in {final.body.id} |-> final.body.units],
     back      |-> <<>>,
     signers   |-> Admins,
     witnesses |-> final.by,
     from      |-> SweepWindow.from,
     until     |-> SweepWindow.until,
     redeemer  |-> "withdraw"]

(* The answer is only printed. *)
SweepSubmit ==
    /\ sweep.final # NoFile
    /\ Lands(SweepTx(sweep.final), "returned")
    /\ UNCHANGED ceremonyVars

(* The stages of the mint before the last. *)
MintNext ==
    \/ MintApply \/ MintParams \/ MintBuild \/ MintSign1
    \/ \E ok \in BOOLEAN : MintSign2(ok)
    \/ MintAssemble

(* What can be sent to the node at any time. *)
MintSends ==
    \/ MintSubmit
    \/ \E d \in {"void", "none"}, s \in SUBSET Admins, q \in {1, TotalSupply}, b \in BOOLEAN :
          MintByHand(1, d, s, q, b)

SweepNext ==
    \/ SweepApply \/ SweepParams \/ SweepBuild \/ SweepSign1
    \/ \E ok \in BOOLEAN : SweepPreflight(ok) \/ SweepSign2(ok)
    \/ SweepAssemble \/ SweepSubmit
=============================================================================
