------------------------------- MODULE Cosign -------------------------------
(***************************************************************************)
(* The two signers of a surrender: the service's signing step              *)
(* (surrender_api.py: _check_locally, _cosign, _signed_by_admins) and the  *)
(* co-signer's handler (cosigner_api.py: cosign), each with its own ledger *)
(* and its own look at the chain (chain_check.py: confirm_on_chain).       *)
(*                                                                         *)
(* Handlers run in threads: each ledger transaction, chain query and       *)
(* message is a step.  An answer may be lost or come after the 30 s the    *)
(* service waits; either process may crash between two steps; the claimant *)
(* may submit again.  Ledgers are files and survive.                       *)
(***************************************************************************)
EXTENDS RedemptionLedger

CONSTANTS
  MaxValidity,  \* MAX_VALIDITY_SLOTS, in ticks of the clock
  MaxTime,      \* bound: how long the clock runs
  MaxOutside    \* bound: outputs spent by transactions no signer sees

Signers == {"primary", "cosigner"}

ASSUME CosignAssumption ==
  MaxValidity \in Nat /\ MaxTime \in Nat /\ MaxOutside \in Nat

VARIABLES
  clock,
  ledger,   \* each signer's ledger
  pc,       \* where the service's signing step for each transaction is
  began,    \* the time it took when it started
  wire,     \* requests the co-signer has not picked up yet
  co,       \* the co-signer's handler for each transaction
  landed,   \* transactions the node took
  gone      \* outputs spent by other transactions

serviceVars == <<pc, began>>
cosignerVars == <<wire, co>>
chainVars == <<landed, gone>>
vars == <<approval, clock, ledger, serviceVars, cosignerVars, chainVars>>

\* "asking": the co-signer has been asked; "answered": its witness is there.
ServicePcs == {"idle", "checked", "asking", "answered", "signed"}

Handlers == [pc : {"idle", "evaluated", "confirmed"}, now : 0..MaxTime]
NoHandler == [pc |-> "idle", now |-> 0]

TypeOK ==
  /\ approval \in Scenarios
  /\ clock \in 0..MaxTime
  /\ ledger \in [Signers -> Ledgers]
  /\ pc \in [Txs -> ServicePcs]
  /\ began \in [Txs -> 0..MaxTime]
  /\ wire \subseteq Txs
  /\ co \in [Txs -> Handlers]
  /\ landed \subseteq Txs
  /\ gone \subseteq Outputs

Init ==
  /\ approval \in Scenarios
  /\ clock = 0
  /\ ledger = [s \in Signers |-> EmptyLedger]
  /\ pc = [t \in Txs |-> "idle"] /\ began = [t \in Txs |-> 0]
  /\ wire = {} /\ co = [t \in Txs |-> NoHandler]
  /\ landed = {} /\ gone = {}

-----------------------------------------------------------------------------
(* The chain                                                               *)

Spent(T) == UNION {approval[t].spends : t \in T}

\* Outputs that exist and are unspent once the transactions T have landed.
Unspent(T) == (Genesis \cup UNION {Made(t) : t \in T}) \ (gone \cup Spent(T))

\* What Blockfrost has indexed may lag what has landed.
Views ==
  {V \in SUBSET landed :
     \A t \in V, p \in landed : approval[t].inputs \cap Made(p) # {} => p \in V}

\* Mutant: an output nobody knows passes.
OnChainOrUnknown(s, t) == TRUE

\* confirm_on_chain: outputs of transactions this signer recorded are not
\* looked up, each other one must be listed as unspent when it is looked up.
OnChain(s, t) ==
  \A o \in approval[t].inputs :
    Producer(Rows(ledger[s]), o) # {} \/ \E V \in Views : o \in Unspent(V)

\* evaluate_surrender: neither expired nor valid for too long.
Timely(t, now) == now < approval[t].ttl /\ approval[t].ttl <= now + MaxValidity

-----------------------------------------------------------------------------
(* The service                                                             *)

\* _check_locally: the policy and the ledger, which is only read.
ServiceChecks(t) ==
  /\ pc[t] = "idle"
  /\ Timely(t, clock)
  /\ Admits(ledger["primary"], t, clock)
  /\ pc' = [pc EXCEPT ![t] = "checked"]
  /\ began' = [began EXCEPT ![t] = clock]
  /\ UNCHANGED <<approval, clock, ledger, cosignerVars, chainVars>>

\* The chain confirms too, and the co-signer is asked.
ServiceAsks(t) ==
  /\ pc[t] = "checked"
  /\ OnChain("primary", t)
  /\ pc' = [pc EXCEPT ![t] = "asking"]
  /\ wire' = wire \cup {t}
  /\ UNCHANGED <<approval, clock, ledger, began, co, chainVars>>

Record(s, t, now) == ledger' = [ledger EXCEPT ![s] = WithRow(@, t, now)]

\* The witness verifies: the surrender is recorded with the time the step
\* began at, then signed, unless the process dies in between.
ServiceRecords(t) ==
  /\ pc[t] = "answered"
  /\ Admits(ledger["primary"], t, began[t])
  /\ Record("primary", t, began[t])
  /\ \E next \in {"signed", "idle"} : pc' = [pc EXCEPT ![t] = next]
  /\ UNCHANGED <<approval, clock, began, cosignerVars, chainVars>>

\* Refused by its own checks or by the co-signer, no answer within the
\* timeout, ledger or chain view unavailable, or a crash.
ServiceGivesUp(t) ==
  /\ pc[t] \in {"checked", "asking", "answered"}
  /\ pc' = [pc EXCEPT ![t] = "idle"]
  /\ UNCHANGED <<approval, clock, ledger, began, cosignerVars, chainVars>>

-----------------------------------------------------------------------------
(* The co-signer                                                           *)

\* The request arrives: the time is taken and the transaction evaluated.
CosignerEvaluates(t) ==
  /\ t \in wire /\ co[t].pc = "idle"
  /\ wire' = wire \ {t}
  /\ co' = [co EXCEPT ![t] = IF Timely(t, clock) THEN [pc |-> "evaluated", now |-> clock]
                             ELSE NoHandler]
  /\ UNCHANGED <<approval, clock, ledger, serviceVars, chainVars>>

CosignerConfirms(t) ==
  /\ co[t].pc = "evaluated"
  /\ OnChain("cosigner", t)
  /\ co' = [co EXCEPT ![t].pc = "confirmed"]
  /\ UNCHANGED <<approval, clock, ledger, serviceVars, wire, chainVars>>

\* Mutant: the answer does not wait for the record.
CosignerAnswersUnrecorded(t) ==
  /\ co[t].pc = "confirmed"
  /\ pc' = [pc EXCEPT ![t] = IF @ = "asking" THEN "answered" ELSE @]
  /\ co' = [co EXCEPT ![t] = NoHandler]
  /\ UNCHANGED <<approval, clock, ledger, began, wire, chainVars>>

\* record, sign and answer.  A service that no longer waits does not hear it.
CosignerRecords(t) ==
  /\ co[t].pc = "confirmed"
  /\ Admits(ledger["cosigner"], t, co[t].now)
  /\ Record("cosigner", t, co[t].now)
  /\ pc' = [pc EXCEPT ![t] = IF @ = "asking" THEN "answered" ELSE @]
  /\ co' = [co EXCEPT ![t] = NoHandler]
  /\ UNCHANGED <<approval, clock, began, wire, chainVars>>

\* A refusal, a crash, or a request that is lost.
CosignerDrops(t) ==
  /\ t \in wire \/ co[t].pc # "idle"
  /\ wire' = wire \ {t}
  /\ co' = [co EXCEPT ![t] = NoHandler]
  /\ UNCHANGED <<approval, clock, ledger, serviceVars, chainVars>>

-----------------------------------------------------------------------------

\* The node takes a signed transaction that is still valid.
Lands(t) ==
  /\ pc[t] = "signed" /\ t \notin landed
  /\ clock < approval[t].ttl
  /\ approval[t].inputs \subseteq Unspent(landed)
  /\ landed' = landed \cup {t}
  /\ UNCHANGED <<approval, clock, ledger, serviceVars, cosignerVars, gone>>

\* A claimant spends an output elsewhere, or the admins rotate the pool.
SpentOutside(o) ==
  /\ Cardinality(gone) < MaxOutside
  /\ o \in Unspent(landed)
  /\ gone' = gone \cup {o}
  /\ UNCHANGED <<approval, clock, ledger, serviceVars, cosignerVars, landed>>

Tick ==
  /\ clock < MaxTime
  /\ clock' = clock + 1
  /\ UNCHANGED <<approval, ledger, serviceVars, cosignerVars, chainVars>>

Next ==
  \/ \E t \in Txs :
       \/ ServiceChecks(t) \/ ServiceAsks(t) \/ ServiceRecords(t) \/ ServiceGivesUp(t)
       \/ CosignerEvaluates(t) \/ CosignerConfirms(t) \/ CosignerRecords(t) \/ CosignerDrops(t)
       \/ Lands(t)
  \/ \E o \in Outputs : SpentOutside(o)
  \/ Tick

Spec == Init /\ [][Next]_vars

-----------------------------------------------------------------------------
(* Safety                                                                  *)

\* A surrender the service has signed, and so any that lands, is recorded by
\* both signers, and the co-signer knows every approval of the service
\* (_cosign: "both have recorded it"), whatever was lost, late or repeated.
BothRecorded ==
  /\ \A t \in Txs : pc[t] = "signed" => t \in Rows(ledger["primary"])
  /\ landed \subseteq Rows(ledger["primary"])
  /\ Rows(ledger["primary"]) \subseteq Rows(ledger["cosigner"])

\* In either ledger no set of approvals that can land together passes a
\* limit: requests that interleave between check and record, record with the
\* time they began at, or come back later never squeeze past.
LimitsHold == \A s \in Signers : KeepsLimits(ledger[s], clock)

\* In either ledger every approval can land after those it builds on
\* (redemption_ledger.py: "Every transaction on a path must be able to land
\* after the ones before it").  The ledger only looks back; that nothing is
\* recorded before what it builds on takes both signers' look at the chain.
PathsHold == \A s \in Signers : PathsCanLand(ledger[s])
=============================================================================
