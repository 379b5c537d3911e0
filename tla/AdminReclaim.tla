---------------------------- MODULE AdminReclaim ----------------------------
(***************************************************************************)
(* admin_reclaim.py: whatever sits at the script's address after the       *)
(* deadline is spent in batches, each built, signed here, signed on the    *)
(* other admin's host, assembled and submitted before the next.  The first *)
(* failure ends the run.                                                   *)
(***************************************************************************)
EXTENDS PoolLedger

CONSTANTS ReclaimBatch   \* batch_size

ASSUME ReclaimAssumption == ReclaimBatch \in Nat \ {0}

VARIABLE reclaim

NoReclaim == [stage |-> "idle", found |-> <<>>, batches |-> 0, at |-> 0,
              witnesses |-> {}, failed |-> "", submit |-> FALSE]

Failing(why) == reclaim' = [reclaim EXCEPT !.stage = "failed", !.failed = why]

(* discover_unclaimed_utxos: every output at the address.  The fields of   *)
(* an inline Void are read like a claim's, which raises an IndexError that *)
(* is not caught.                                                          *)
Discoverable == \A i \in DOMAIN pool : pool[i].datum # "void"

\* The k-th of some numbered outputs.
Nth(outs, k) == CHOOSE i \in outs : Cardinality({j \in outs : j <= i}) = k

Found ==
    [k \in 1 .. Cardinality(DOMAIN pool) |->
        [id |-> Nth(DOMAIN pool, k), units |-> pool[Nth(DOMAIN pool, k)].units]]

\* Mutant: the number of batches is rounded down.
BatchesOfFloor(found) == IF Len(found) < ReclaimBatch THEN 1 ELSE Len(found) \div ReclaimBatch

BatchesOf(found) == (Len(found) + ReclaimBatch - 1) \div ReclaimBatch

StartReclaim(checkOnly, submit) ==
    /\ reclaim.stage = "idle"
    /\ IF ~Discoverable THEN Failing("discovery")
       ELSE reclaim' =
            [reclaim EXCEPT !.found = Found, !.batches = BatchesOf(Found), !.at = 1,
                            !.submit = submit,
                            !.stage = IF checkOnly THEN "check_only"
                                      ELSE IF Found = <<>> THEN "no_action"
                                      ELSE "building"]
    /\ UNCHANGED ledgerVars

Batch ==
    LET from == (reclaim.at - 1) * ReclaimBatch
    IN  {reclaim.found[k] : k \in {j \in DOMAIN reclaim.found :
                                       from < j /\ j <= from + ReclaimBatch}}

(* build_reclaim_tx_body: both admins, from the slot after the deadline    *)
(* on, with the redeemer d87980, which is the first constructor.           *)
ReclaimTx ==
    [claims    |-> [i \in {b.id : b \in Batch} |->
                       (CHOOSE b \in Batch : b.id = i).units],
     back      |-> <<>>,
     signers   |-> Admins,
     witnesses |-> reclaim.witnesses,
     from      |-> Deadline + 1,
     until     |-> Open,
     redeemer  |-> "surrender"]

BuildReclaim(ok) ==
    /\ reclaim.stage = "building"
    /\ IF ~Evaluates(ReclaimTx) THEN Failing("evaluation")
       ELSE IF ~ok THEN Failing("outside")
       ELSE reclaim' = [reclaim EXCEPT !.stage = "sign-1", !.witnesses = {}]
    /\ UNCHANGED ledgerVars

(* sign_with_admin_1_local. *)
SignFirst(ok) ==
    /\ reclaim.stage = "sign-1"
    /\ IF ~ok THEN Failing("sign-1")
       ELSE reclaim' = [reclaim EXCEPT !.stage = "sign-2", !.witnesses = @ \cup {Admin1}]
    /\ UNCHANGED ledgerVars

(* What may come back of the session on the other host. *)
Sessions == {"witness", "no upload", "exit code", "no markers", "empty", "not base64"}

(* sign_with_admin_2_via_ssh: everything but a witness raises. *)
SignSecond(session) ==
    /\ reclaim.stage = "sign-2"
    /\ IF session # "witness" THEN Failing("sign-2")
       ELSE reclaim' = [reclaim EXCEPT !.stage = "assembling",
                                       !.witnesses = @ \cup {Admin2}]
    /\ UNCHANGED ledgerVars

NextBatch == [reclaim EXCEPT !.at = @ + 1, !.witnesses = {},
                             !.stage = IF reclaim.at = reclaim.batches THEN "report"
                                       ELSE "building"]

(* assemble_signed_tx; a dry run leaves the file for the operator. *)
AssembleReclaim(ok) ==
    /\ reclaim.stage = "assembling"
    /\ IF ~ok THEN Failing("assemble")
       ELSE reclaim' = IF reclaim.submit THEN [reclaim EXCEPT !.stage = "submitting"]
                       ELSE NextBatch
    /\ UNCHANGED ledgerVars

SubmitReclaim(taken, answered) ==
    /\ reclaim.stage = "submitting"
    /\ IF taken /\ answered THEN reclaim' = NextBatch ELSE Failing("submit")
    /\ IF taken THEN Lands(ReclaimTx, "returned") ELSE UNCHANGED ledgerVars

ReclaimNext ==
    \/ \E c, s \in BOOLEAN : StartReclaim(c, s)
    \/ \E ok \in BOOLEAN : BuildReclaim(ok) \/ SignFirst(ok) \/ AssembleReclaim(ok)
    \/ \E s \in Sessions : SignSecond(s)
    \/ \E t, a \in BOOLEAN : SubmitReclaim(t, a)

-----------------------------------------------------------------------------
(* A report of a submitted reclaim is not written before every output that *)
(* was found has been spent, in all of the batches, and the units are with *)
(* the admins (run_admin_reclaim).                                         *)
ReportedReclaimed ==
    reclaim.stage = "report" /\ reclaim.submit =>
        /\ \A k \in DOMAIN reclaim.found : reclaim.found[k].id \notin DOMAIN pool
        /\ held.returned >= UnitsOf(reclaim.found)
=============================================================================
