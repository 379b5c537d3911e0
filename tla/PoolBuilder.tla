---------------------------- MODULE PoolBuilder ----------------------------
(***************************************************************************)
(* build_surrender_pool.py: the pool's units are split over a number of    *)
(* outputs, these are grouped in batches, and one transaction after the    *)
(* other is built from what the index shows of the funding wallet,         *)
(* evaluated and submitted.  Any failure ends the run without a manifest,  *)
(* and what landed by then stays.                                          *)
(***************************************************************************)
EXTENDS PoolLedger

CONSTANTS BatchSize,
          Orders,      \* [total, outputs] as an operator may ask for
          MaxBuilds    \* bound on runs of the builder

ASSUME BuilderAssumption ==
    /\ BatchSize \in Nat \ {0}
    /\ \A o \in Orders : o.total \in Int /\ o.outputs \in Int

VARIABLE build

NoBuild == [stage |-> "idle", outs |-> <<>>, done |-> 0, view |-> 0, locked |-> 0,
            total |-> 0, start |-> 0, submit |-> FALSE, preflight |-> FALSE, runs |-> 0]

(* build_pool_outputs: equal shares, the remainder to the last. *)
Split(total, n) ==
    [i \in 1 .. n |-> IF i < n THEN total \div n
                      ELSE total - (n - 1) * (total \div n)]

(* What build_pool_outputs refuses. *)
Splittable(total, n) == n >= 1 /\ total > 0 /\ total \div n > 0

BatchOf(b) == SubSeq(b.outs, b.done + 1,
                     IF b.done + BatchSize < Len(b.outs) THEN b.done + BatchSize
                     ELSE Len(b.outs))

SumOf(units) == SumFunction(units)

StartBuild(total, n, submit, preflight) ==
    /\ build.stage \in {"idle", "manifest", "aborted"}
    /\ build.runs < MaxBuilds
    /\ wallet # <<>>
    /\ Splittable(total, n)
    /\ build' = [NoBuild EXCEPT !.stage = "building", !.outs = Split(total, n),
                                !.total = total, !.start = wallet[Len(wallet)],
                                !.submit = submit, !.preflight = preflight,
                                !.runs = build.runs + 1]
    /\ UNCHANGED ledgerVars

Abort == build' = [build EXCEPT !.stage = "aborted"]

\* Mutant: a batch is built whatever the wallet holds.
BuildBatchUnfunded(view) ==
    /\ build.stage = "building"
    /\ build' = [build EXCEPT !.view = view,
                              !.stage = IF build.preflight THEN "preflight"
                                        ELSE IF build.submit THEN "submitting"
                                        ELSE "listing"]
    /\ UNCHANGED ledgerVars

(* build_pool_tx_cbor, on a wallet as the index shows it, which may lag    *)
(* behind the batch before.                                                *)
BuildBatch(view) ==
    /\ build.stage = "building"
    /\ IF SumOf(BatchOf(build)) > wallet[view]
       THEN Abort
       ELSE build' = [build EXCEPT !.view = view,
                                   !.stage = IF build.preflight THEN "preflight"
                                             ELSE IF build.submit THEN "submitting"
                                             ELSE "listing"]
    /\ UNCHANGED ledgerVars

(* preflight_evaluate_tx: inputs that are spent fail, and so may a call. *)
PreflightBatch(ok) ==
    /\ build.stage = "preflight"
    /\ ok => build.view = Len(wallet)
    /\ IF ok THEN build' = [build EXCEPT !.stage = IF build.submit THEN "submitting"
                                                   ELSE "listing"]
       ELSE Abort
    /\ UNCHANGED ledgerVars

\* Mutant: a failed submission is logged and the batch is listed all the same.
SubmitBatchListed(taken, answered) ==
    /\ build.stage = "submitting"
    /\ taken => build.view = Len(wallet)
    /\ build' = [build EXCEPT !.stage = "listing"]
    /\ IF taken
       THEN /\ pool' = PoolWith(DOMAIN pool,
                                [i \in DOMAIN BatchOf(build) |->
                                    Output(BatchOf(build)[i], "void", "builder")])
            /\ born' = born + Len(BatchOf(build))
            /\ wallet' = Append(wallet, wallet[Len(wallet)] - SumOf(BatchOf(build)))
            /\ UNCHANGED <<slot, seed, held, gifts, script>>
       ELSE UNCHANGED ledgerVars

(* submit_tx: the node refuses what spends an older state of the wallet,   *)
(* and its answer may be lost.                                             *)
SubmitBatch(taken, answered) ==
    /\ build.stage = "submitting"
    /\ taken => build.view = Len(wallet)
    /\ IF taken /\ answered THEN build' = [build EXCEPT !.stage = "listing"] ELSE Abort
    /\ IF taken
       THEN /\ pool' = PoolWith(DOMAIN pool,
                                [i \in DOMAIN BatchOf(build) |->
                                    Output(BatchOf(build)[i], "void", "builder")])
            /\ born' = born + Len(BatchOf(build))
            /\ wallet' = Append(wallet, wallet[Len(wallet)] - SumOf(BatchOf(build)))
            /\ UNCHANGED <<slot, seed, held, gifts, script>>
       ELSE UNCHANGED ledgerVars

(* The batch is added to the manifest, which is written after the last. *)
ListBatch ==
    /\ build.stage = "listing"
    /\ LET done   == build.done + Len(BatchOf(build))
           locked == build.locked + SumOf(BatchOf(build))
       IN  /\ done = Len(build.outs) => locked = build.total
           /\ build' = [build EXCEPT !.done = done, !.locked = locked, !.view = 0,
                                     !.stage = IF done = Len(build.outs) THEN "manifest"
                                               ELSE "building"]
    /\ UNCHANGED ledgerVars

BuilderNext ==
    \/ \E o \in Orders, s, p \in BOOLEAN : StartBuild(o.total, o.outputs, s, p)
    \/ \E v \in DOMAIN wallet : BuildBatch(v)
    \/ \E ok \in BOOLEAN : PreflightBatch(ok)
    \/ \E t, a \in BOOLEAN : SubmitBatch(t, a)
    \/ ListBatch

-----------------------------------------------------------------------------
(* A manifest tells what happened: of a run that submits, the wallet has   *)
(* given to the pool exactly the total that was asked for when the         *)
(* manifest is written, and never more, whatever was refused, lost or      *)
(* built on a stale view of the wallet (build_surrender_pool).             *)
ManifestTells ==
    build.stage # "idle" /\ build.submit =>
        LET given == build.start - wallet[Len(wallet)]
        IN  /\ given <= build.total
            /\ build.stage = "manifest" => given = build.total
=============================================================================
