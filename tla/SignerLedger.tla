---------------------------- MODULE SignerLedger ----------------------------
(***************************************************************************)
(* One signer's ledger through its life: approvals of any transactions, in *)
(* any order, recorded with the time their handler started at.             *)
(***************************************************************************)
EXTENDS RedemptionLedger

CONSTANT MaxTime   \* bound: how long the clock runs

ASSUME ClockAssumption == MaxTime \in Nat

VARIABLES ledger, clock

vars == <<approval, ledger, clock>>

TypeOK ==
  /\ approval \in Scenarios
  /\ ledger \in Ledgers
  /\ clock \in 0..MaxTime

Init ==
  /\ approval \in Scenarios
  /\ ledger = EmptyLedger
  /\ clock = 0

\* record: check and insert in one BEGIN IMMEDIATE transaction.
Record(t, now) ==
  /\ Admits(ledger, t, now)
  /\ ledger' = WithRow(ledger, t, now)
  /\ UNCHANGED <<approval, clock>>

Tick ==
  /\ clock < MaxTime
  /\ clock' = clock + 1
  /\ UNCHANGED <<approval, ledger>>

\* A handler takes the time when it starts and may record after a tick.
Next ==
  \/ \E t \in Txs, now \in {clock, clock - 1} \cap Nat : Record(t, now)
  \/ Tick

Spec == Init /\ [][Next]_vars

-----------------------------------------------------------------------------

\* "Any set of approvals that can all land together is counted in full"
\* (redemption_ledger.py), so no such set passes a limit, whatever the order
\* the approvals arrived in and however late their handlers record them.
LimitsHold == KeepsLimits(ledger, clock)

\* A surrender superseded by another of its pool output "is not counted
\* twice": the count of a unit is exact.
UnitCountExact == CountsUnits(ledger)

\* The same claim for the cMATRA of the last 24 hours.  It fails: the rows
\* are filtered before competing surrenders are collapsed, so a transaction
\* that left the window no longer joins its followers to its rivals.
DailyCountExact == CountsPayouts(ledger, clock)
=============================================================================
