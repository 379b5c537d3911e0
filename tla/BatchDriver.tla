---------------------------- MODULE BatchDriver ----------------------------
(***************************************************************************)
(* process_surrender_batch: a list of surrenders served one after the      *)
(* other from the outputs that were found at the start, by one admin.  The *)
(* driver lowers the amount of an output it has spent and goes on using    *)
(* its reference.                                                          *)
(***************************************************************************)
EXTENDS PoolLedger

CONSTANTS Requests    \* what each request redeems for, 0 if it is refused

ASSUME DriverAssumption == Requests \in Seq(Nat) /\ Requests # <<>>

VARIABLE batch

NoBatch == [stage |-> "idle", pools |-> <<>>, at |-> 1, results |-> <<>>,
            total |-> 0, start |-> 0, submit |-> FALSE, preflight |-> FALSE]

(* find_pool_utxos: outputs with an inline Void and cMATRA, largest first. *)
PoolsFound ==
    LET found == {i \in DOMAIN pool : pool[i].datum = "void" /\ pool[i].units > 0}
        larger(a, b) == \/ pool[a].units > pool[b].units
                        \/ pool[a].units = pool[b].units /\ a < b
        order == SetToSortSeq(found, larger)
    IN  [k \in DOMAIN order |-> [id |-> order[k], units |-> pool[order[k]].units]]

(* Without any pool output the run stops before the first request. *)
StartBatch(submit, preflight) ==
    /\ batch.stage = "idle"
    /\ PoolsFound # <<>>
    /\ batch' = [NoBatch EXCEPT !.stage = "selecting", !.pools = PoolsFound,
                                !.start = held.paid,
                                !.submit = submit, !.preflight = preflight]
    /\ UNCHANGED ledgerVars

Asked == Requests[Len(batch.results) + 1]

(* The result of a request, and on to the next or to the report. *)
Result(b, status) ==
    [b EXCEPT !.results = Append(@, status),
              !.stage = IF Len(b.results) + 1 = Len(Requests) THEN "report" ELSE "selecting"]

(* The first output, from the current one on, that still has enough. *)
Enough == {k \in batch.at .. Len(batch.pools) : batch.pools[k].units >= Asked}

Select ==
    /\ batch.stage = "selecting"
    /\ batch' = IF Asked = 0 \/ Enough = {} THEN Result(batch, "error")
                ELSE [batch EXCEPT !.at = CHOOSE k \in Enough : \A j \in Enough : k <= j,
                                   !.stage = "building"]
    /\ UNCHANGED ledgerVars

(* build_surrender_tx: one required signer, no validity bound, the amount  *)
(* that the driver believes the output to hold.                            *)
SurrenderTx ==
    LET p == batch.pools[batch.at]
    IN  [claims    |-> [i \in {p.id} |-> p.units],
         back      |-> IF p.units = Asked THEN <<>>
                       ELSE <<Output(p.units - Asked, "void", "driver")>>,
         signers   |-> {Admin1},
         witnesses |-> {Admin1},
         from      |-> Open,
         until     |-> Open,
         redeemer  |-> "surrender"]

AfterBuild == IF batch.preflight THEN "preflight"
              ELSE IF batch.submit THEN "submitting" ELSE "counting"

(* Building evaluates the script; it also fails when the admin's wallet or *)
(* the network does.                                                       *)
BuildSurrender(ok) ==
    /\ batch.stage = "building"
    /\ ok => Evaluates(SurrenderTx)
    /\ batch' = IF ok THEN [batch EXCEPT !.stage = AfterBuild] ELSE Result(batch, "error")
    /\ UNCHANGED ledgerVars

PreflightSurrender(ok) ==
    /\ batch.stage = "preflight"
    /\ ok => Evaluates(SurrenderTx)
    /\ batch' = IF ok THEN [batch EXCEPT !.stage = IF batch.submit THEN "submitting"
                                                   ELSE "counting"]
                ELSE Result(batch, "preflight_failed")
    /\ UNCHANGED ledgerVars

\* Mutant: a failed submission is logged and counted all the same.
SubmitSurrenderCounted(taken, answered) ==
    /\ batch.stage = "submitting"
    /\ batch' = [batch EXCEPT !.stage = "counting"]
    /\ IF taken THEN Lands(SurrenderTx, "paid") ELSE UNCHANGED ledgerVars

SubmitSurrender(taken, answered) ==
    /\ batch.stage = "submitting"
    /\ batch' = IF taken /\ answered THEN [batch EXCEPT !.stage = "counting"]
                ELSE Result(batch, "submit_failed")
    /\ IF taken THEN Lands(SurrenderTx, "paid") ELSE UNCHANGED ledgerVars

(* The output keeps its reference; only the amount is lowered. *)
Count ==
    /\ batch.stage = "counting"
    /\ batch' = Result([batch EXCEPT !.pools[batch.at].units = @ - Asked,
                                     !.total = @ + Asked],
                       IF batch.submit THEN "submitted" ELSE "built")
    /\ UNCHANGED ledgerVars

DriverNext ==
    \/ \E s, p \in BOOLEAN : StartBatch(s, p)
    \/ Select
    \/ \E ok \in BOOLEAN : BuildSurrender(ok) \/ PreflightSurrender(ok)
    \/ \E t, a \in BOOLEAN : SubmitSurrender(t, a)
    \/ Count

-----------------------------------------------------------------------------
Statuses(s) == {k \in DOMAIN batch.results : batch.results[k] \in s}
Worth(ks) == SumFunction([k \in ks |-> Requests[k]])

(* However often the driver goes back to an output it has spent already,   *)
(* the report never claims a payment that was not made; and what was paid  *)
(* without being claimed is what was submitted and got no answer           *)
(* (process_surrender_batch).                                              *)
ReportedIsPaid ==
    batch.stage \in {"selecting", "report"} /\ batch.submit =>
        LET paid == held.paid - batch.start
        IN  /\ batch.total = Worth(Statuses({"submitted"}))
            /\ batch.total <= paid
            /\ paid <= batch.total + Worth(Statuses({"submit_failed"}))
=============================================================================
