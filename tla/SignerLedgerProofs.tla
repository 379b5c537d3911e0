------------------------- MODULE SignerLedgerProofs -------------------------
(***************************************************************************)
(* One signer's ledger: it never passes a limit, for any transactions,     *)
(* limits and clock.                                                       *)
(***************************************************************************)
EXTENDS SignerLedger, LedgerProofs

\* The state keeps its type.
LEMMA TypesHold == Spec => []TypeOK
<1>1. Init => TypeOK
  BY ClockAssumption DEF Init, TypeOK, Ledgers, EmptyLedger
<1>2. TypeOK /\ [Next]_vars => TypeOK'
  <2> SUFFICES ASSUME TypeOK, [Next]_vars PROVE TypeOK'
    OBVIOUS
  <2>1. ASSUME NEW t \in Txs, NEW now \in {clock, clock - 1} \cap Nat, Record(t, now)
        PROVE  TypeOK'
    BY <2>1 DEF Record, WithRow, TypeOK, Ledgers
  <2>2. CASE Tick
    BY <2>2, ClockAssumption DEF Tick, TypeOK
  <2>3. CASE UNCHANGED vars
    BY <2>3 DEF vars, TypeOK
  <2>4. QED
    BY <2>1, <2>2, <2>3 DEF Next
<1>3. QED
  BY <1>1, <1>2, PTL DEF Spec

\* Whatever order approvals arrive in and however late their handlers record
\* them, no set of recorded surrenders that can land together passes a limit.
THEOREM LedgerKeepsLimits == Spec => []LimitsHold
<1>1. Init => LimitsHold
  BY EmptyKeeps DEF Init, LimitsHold
<1>2. TypeOK /\ LimitsHold /\ [Next]_vars => LimitsHold'
  <2> SUFFICES ASSUME TypeOK, LimitsHold, [Next]_vars PROVE LimitsHold'
    OBVIOUS
  <2>1. approval' = approval
    BY DEF Next, Record, Tick, vars
  <2>2. KeepsLimits(ledger', clock')
    <3>1. approval \in Scenarios /\ ledger \in Ledgers /\ clock \in Nat /\ KeepsLimits(ledger, clock)
      BY ClockAssumption DEF TypeOK, LimitsHold
    <3>2. ASSUME NEW t \in Txs, NEW now \in {clock, clock - 1} \cap Nat, Record(t, now)
          PROVE  KeepsLimits(ledger', clock')
      <4>1. now \in Nat /\ now <= clock
        BY <3>1
      <4>2. Admits(ledger, t, now) /\ ledger' = WithRow(ledger, t, now) /\ clock' = clock
        BY <3>2 DEF Record
      <4>3. KeepsLimits(WithRow(ledger, t, now), clock)
        BY <3>1, <4>1, <4>2, RecordKeeps
      <4>4. QED
        BY <4>2, <4>3
    <3>3. CASE Tick
      <4>1. ledger' = ledger /\ clock' = clock + 1
        BY <3>3 DEF Tick
      <4>2. clock <= clock + 1 /\ clock + 1 \in Nat
        BY <3>1
      <4>3. KeepsLimits(ledger, clock + 1)
        BY <3>1, <4>2, TimeKeeps
      <4>4. QED
        BY <4>1, <4>3
    <3>4. CASE UNCHANGED vars
      BY <3>1, <3>4 DEF vars
    <3>5. QED
      BY <3>2, <3>3, <3>4 DEF Next
  <2>3. QED
    BY <2>1, <2>2 DEF LimitsHold, KeepsLimits, CoLandable, Redeems, Pays
<1>3. QED
  BY <1>1, <1>2, TypesHold, PTL DEF Spec

\* A surrender that another one of its pool output supersedes "is not counted
\* twice" (redemption_ledger.py), and none that can land is missed: what the
\* ledger counts of a unit is what its heaviest set of pool paths redeems.
THEOREM UnitCountsAreExact == Spec => []UnitCountExact
<1>1. TypeOK => UnitCountExact
  <2> SUFFICES ASSUME TypeOK, NEW u \in Units
               PROVE  Heaviest(Rows(ledger), Redeems(u)) = Overall(Rows(ledger), Redeems(u))
    BY DEF UnitCountExact, CountsUnits
  <2>1. approval \in Scenarios
    BY DEF TypeOK
  <2>2. Rows(ledger) \in SUBSET Txs
    BY DEF Rows
  <2>3. Redeems(u) \in [Txs -> Nat]
    BY <2>1, WeightTypes
  <2>4. QED
    BY <2>1, <2>2, <2>3, HeaviestExact
<1>2. QED
  BY <1>1, TypesHold, PTL
=============================================================================
