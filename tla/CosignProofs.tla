---------------------------- MODULE CosignProofs ----------------------------
(***************************************************************************)
(* Cosign's invariants, for any transactions, clock and limits: both have  *)
(* recorded what is signed, and each ledger keeps its limits and holds     *)
(* only what can land.  The invariant adds what makes them inductive: an   *)
(* answer the service holds has been recorded by the co-signer.            *)
(***************************************************************************)
EXTENDS Cosign, LedgerProofs

HandlersTyped ==
  /\ clock \in 0..MaxTime
  /\ ledger \in [Signers -> Ledgers]
  /\ pc \in [Txs -> ServicePcs]
  /\ began \in [Txs -> 0..MaxTime]
  /\ wire \subseteq Txs
  /\ co \in [Txs -> Handlers]
  /\ landed \subseteq Txs

RecordedBy(s, t) == ledger[s][t] # Never

AnswersAreRecorded ==
  \A t \in Txs :
    /\ pc[t] = "answered" => RecordedBy("cosigner", t)
    /\ pc[t] = "signed" => RecordedBy("primary", t)
    /\ t \in landed => RecordedBy("primary", t)
    /\ RecordedBy("primary", t) => RecordedBy("cosigner", t)

IInv == HandlersTyped /\ AnswersAreRecorded

-----------------------------------------------------------------------------

\* Recording t at a time keeps the ledgers' type, records t, and changes no
\* other row (record inserts one row or none).
LEMMA RecordEffect ==
  ASSUME ledger \in [Signers -> Ledgers], NEW s \in Signers, NEW t \in Txs,
         NEW now \in Nat, Record(s, t, now)
  PROVE  /\ ledger' \in [Signers -> Ledgers]
         /\ RecordedBy(s, t)'
         /\ \A r \in Signers, q \in Txs :
              <<r, q>> # <<s, t>> => ledger'[r][q] = ledger[r][q]
<1> DEFINE row == IF ledger[s][t] = Never THEN [ledger[s] EXCEPT ![t] = now] ELSE ledger[s]
<1>1. ledger' = [ledger EXCEPT ![s] = row]
  BY DEF Record, WithRow
<1>2. /\ row \in Ledgers
      /\ row[t] # Never
      /\ \A q \in Txs : q # t => row[q] = ledger[s][q]
  BY LedgerAssumption DEF Ledgers
<1> HIDE DEF row
<1>3. QED
  BY <1>1, <1>2 DEF RecordedBy

LEMMA InitIInv == Init => IInv
<1> SUFFICES ASSUME Init PROVE IInv
  OBVIOUS
<1>1. HandlersTyped
  BY CosignAssumption
     DEF Init, HandlersTyped, Ledgers, EmptyLedger, ServicePcs, Handlers, NoHandler
<1>2. \A s \in Signers, t \in Txs : ~RecordedBy(s, t)
  BY DEF Init, EmptyLedger, RecordedBy
<1>3. AnswersAreRecorded
  BY <1>2 DEF Init, AnswersAreRecorded, Signers
<1>4. QED
  BY <1>1, <1>3 DEF IInv

\* Steps that leave both ledgers and the node alone and hear no answer.
LEMMA QuietStep ==
  ASSUME IInv, UNCHANGED <<ledger, landed>>, NEW t \in Txs,
         NEW next \in ServicePcs \ {"answered", "signed"},
         pc' = [pc EXCEPT ![t] = next]
  PROVE  AnswersAreRecorded'
BY DEF IInv, HandlersTyped, AnswersAreRecorded, RecordedBy

LEMMA FrozenStep ==
  ASSUME IInv, UNCHANGED <<ledger, landed, pc>>
  PROVE  AnswersAreRecorded'
BY DEF IInv, AnswersAreRecorded, RecordedBy

LEMMA StepIInv == IInv /\ [Next]_vars => IInv'
<1> SUFFICES ASSUME IInv, [Next]_vars PROVE IInv'
  OBVIOUS
<1> USE DEF serviceVars, cosignerVars, chainVars
<1>t. HandlersTyped
  BY DEF IInv
<1>1. ASSUME NEW t \in Txs, ServiceChecks(t) PROVE IInv'
  <2>1. HandlersTyped'
    BY <1>1, <1>t DEF ServiceChecks, HandlersTyped, ServicePcs
  <2>2. AnswersAreRecorded'
    BY <1>1, QuietStep DEF ServiceChecks, ServicePcs
  <2>3. QED
    BY <2>1, <2>2 DEF IInv
<1>2. ASSUME NEW t \in Txs, ServiceAsks(t) PROVE IInv'
  <2>1. HandlersTyped'
    BY <1>2, <1>t DEF ServiceAsks, HandlersTyped, ServicePcs
  <2>2. AnswersAreRecorded'
    BY <1>2, QuietStep DEF ServiceAsks, ServicePcs
  <2>3. QED
    BY <2>1, <2>2 DEF IInv
<1>3. ASSUME NEW t \in Txs, ServiceRecords(t) PROVE IInv'
  <2>1. began[t] \in Nat /\ "primary" \in Signers /\ "cosigner" \in Signers
    BY <1>t, CosignAssumption DEF HandlersTyped, Signers
  <2>2. /\ ledger' \in [Signers -> Ledgers]
        /\ RecordedBy("primary", t)'
        /\ \A r \in Signers, q \in Txs :
             <<r, q>> # <<"primary", t>> => ledger'[r][q] = ledger[r][q]
    BY <1>3, <1>t, <2>1, RecordEffect DEF ServiceRecords, HandlersTyped
  <2>3. PICK next \in {"signed", "idle"} : pc' = [pc EXCEPT ![t] = next]
    BY <1>3 DEF ServiceRecords
  <2>4. HandlersTyped'
    BY <1>3, <1>t, <2>2, <2>3 DEF ServiceRecords, HandlersTyped, ServicePcs
  <2>5. AnswersAreRecorded'
    <3> SUFFICES ASSUME NEW q \in Txs
                 PROVE  /\ pc'[q] = "answered" => RecordedBy("cosigner", q)'
                        /\ pc'[q] = "signed" => RecordedBy("primary", q)'
                        /\ q \in landed' => RecordedBy("primary", q)'
                        /\ RecordedBy("primary", q)' => RecordedBy("cosigner", q)'
      BY DEF AnswersAreRecorded
    <3>1. RecordedBy("cosigner", q)' <=> RecordedBy("cosigner", q)
      BY <2>1, <2>2 DEF RecordedBy
    <3>2. landed' = landed
      BY <1>3 DEF ServiceRecords
    <3>3. CASE q = t
      <4>1. RecordedBy("cosigner", t)
        BY <1>3 DEF ServiceRecords, IInv, AnswersAreRecorded
      <4>2. QED
        BY <3>1, <3>3, <4>1, <2>2
    <3>4. CASE q # t
      <4>1. RecordedBy("primary", q)' <=> RecordedBy("primary", q)
        BY <2>1, <2>2, <3>4 DEF RecordedBy
      <4>2. pc'[q] = pc[q]
        BY <2>3, <3>4, <1>t DEF HandlersTyped
      <4>3. QED
        BY <3>1, <3>2, <4>1, <4>2 DEF IInv, AnswersAreRecorded
    <3>5. QED
      BY <3>3, <3>4
  <2>6. QED
    BY <2>4, <2>5 DEF IInv
<1>4. ASSUME NEW t \in Txs, ServiceGivesUp(t) PROVE IInv'
  <2>1. HandlersTyped'
    BY <1>4, <1>t DEF ServiceGivesUp, HandlersTyped, ServicePcs
  <2>2. AnswersAreRecorded'
    BY <1>4, QuietStep DEF ServiceGivesUp, ServicePcs
  <2>3. QED
    BY <2>1, <2>2 DEF IInv
<1>5. ASSUME NEW t \in Txs, CosignerEvaluates(t) PROVE IInv'
  <2>1. HandlersTyped'
    BY <1>5, <1>t, CosignAssumption
       DEF CosignerEvaluates, HandlersTyped, Handlers, NoHandler
  <2>2. AnswersAreRecorded'
    BY <1>5, FrozenStep DEF CosignerEvaluates
  <2>3. QED
    BY <2>1, <2>2 DEF IInv
<1>6. ASSUME NEW t \in Txs, CosignerConfirms(t) PROVE IInv'
  <2>1. HandlersTyped'
    BY <1>6, <1>t DEF CosignerConfirms, HandlersTyped, Handlers
  <2>2. AnswersAreRecorded'
    BY <1>6, FrozenStep DEF CosignerConfirms
  <2>3. QED
    BY <2>1, <2>2 DEF IInv
<1>7. ASSUME NEW t \in Txs, CosignerRecords(t) PROVE IInv'
  <2>1. co[t].now \in Nat /\ "primary" \in Signers /\ "cosigner" \in Signers
    BY <1>t, CosignAssumption DEF HandlersTyped, Handlers, Signers
  <2>2. /\ ledger' \in [Signers -> Ledgers]
        /\ RecordedBy("cosigner", t)'
        /\ \A r \in Signers, q \in Txs :
             <<r, q>> # <<"cosigner", t>> => ledger'[r][q] = ledger[r][q]
    BY <1>7, <1>t, <2>1, RecordEffect DEF CosignerRecords, HandlersTyped
  <2>3. /\ pc'[t] \in {"answered", pc[t]}
        /\ \A q \in Txs : q # t => pc'[q] = pc[q]
        /\ pc' \in [Txs -> ServicePcs]
    BY <1>7, <1>t DEF CosignerRecords, HandlersTyped, ServicePcs
  <2>4. HandlersTyped'
    BY <1>7, <1>t, <2>2, <2>3, CosignAssumption
       DEF CosignerRecords, HandlersTyped, Handlers, NoHandler
  <2>5. AnswersAreRecorded'
    <3> SUFFICES ASSUME NEW q \in Txs
                 PROVE  /\ pc'[q] = "answered" => RecordedBy("cosigner", q)'
                        /\ pc'[q] = "signed" => RecordedBy("primary", q)'
                        /\ q \in landed' => RecordedBy("primary", q)'
                        /\ RecordedBy("primary", q)' => RecordedBy("cosigner", q)'
      BY DEF AnswersAreRecorded
    <3>1. RecordedBy("primary", q)' <=> RecordedBy("primary", q)
      BY <2>1, <2>2 DEF RecordedBy
    <3>2. RecordedBy("cosigner", q) => RecordedBy("cosigner", q)'
      BY <2>1, <2>2 DEF RecordedBy
    <3>3. landed' = landed
      BY <1>7 DEF CosignerRecords
    <3>4. CASE q = t
      BY <2>2, <2>3, <3>1, <3>3, <3>4 DEF IInv, AnswersAreRecorded
    <3>5. CASE q # t
      BY <2>3, <3>1, <3>2, <3>3, <3>5 DEF IInv, AnswersAreRecorded
    <3>6. QED
      BY <3>4, <3>5
  <2>6. QED
    BY <2>4, <2>5 DEF IInv
<1>8. ASSUME NEW t \in Txs, CosignerDrops(t) PROVE IInv'
  <2>1. HandlersTyped'
    BY <1>8, <1>t, CosignAssumption
       DEF CosignerDrops, HandlersTyped, Handlers, NoHandler
  <2>2. AnswersAreRecorded'
    BY <1>8, FrozenStep DEF CosignerDrops
  <2>3. QED
    BY <2>1, <2>2 DEF IInv
<1>9. ASSUME NEW t \in Txs, Lands(t) PROVE IInv'
  <2>1. HandlersTyped'
    BY <1>9, <1>t DEF Lands, HandlersTyped
  <2>2. AnswersAreRecorded'
    BY <1>9 DEF Lands, IInv, AnswersAreRecorded, RecordedBy
  <2>3. QED
    BY <2>1, <2>2 DEF IInv
<1>10. ASSUME NEW o \in Outputs, SpentOutside(o) PROVE IInv'
  <2>1. HandlersTyped'
    BY <1>10, <1>t DEF SpentOutside, HandlersTyped
  <2>2. AnswersAreRecorded'
    BY <1>10, FrozenStep DEF SpentOutside
  <2>3. QED
    BY <2>1, <2>2 DEF IInv
<1>11. CASE Tick
  <2>1. HandlersTyped'
    BY <1>11, <1>t, CosignAssumption DEF Tick, HandlersTyped
  <2>2. AnswersAreRecorded'
    BY <1>11, FrozenStep DEF Tick
  <2>3. QED
    BY <2>1, <2>2 DEF IInv
<1>12. CASE UNCHANGED vars
  <2>1. HandlersTyped'
    BY <1>12, <1>t DEF vars, HandlersTyped
  <2>2. AnswersAreRecorded'
    BY <1>12, FrozenStep DEF vars
  <2>3. QED
    BY <2>1, <2>2 DEF IInv
<1>13. QED
  BY <1>1, <1>2, <1>3, <1>4, <1>5, <1>6, <1>7, <1>8, <1>9, <1>10, <1>11, <1>12 DEF Next

-----------------------------------------------------------------------------

\* Whatever is lost, late or repeated: a surrender admin 1 signed, and any
\* that lands, is in both ledgers (_cosign records before it returns the
\* co-signer's witness, cosign records before it signs).
THEOREM BothSignersRecord == Spec => []BothRecorded
<1>1. IInv => BothRecorded
  <2> SUFFICES ASSUME IInv PROVE BothRecorded
    OBVIOUS
  <2>1. "primary" \in Signers /\ "cosigner" \in Signers
    BY DEF Signers
  <2>2. \A s \in Signers, t \in Txs : t \in Rows(ledger[s]) <=> RecordedBy(s, t)
    BY DEF Rows, RecordedBy
  <2>3. \A s \in Signers : Rows(ledger[s]) \subseteq Txs
    BY DEF Rows
  <2>4. QED
    BY <2>1, <2>2, <2>3 DEF IInv, HandlersTyped, AnswersAreRecorded, BothRecorded
<1>2. QED
  BY InitIInv, StepIInv, <1>1, PTL DEF Spec

-----------------------------------------------------------------------------
(* The limits                                                              *)

\* The approvals are ones looked at, and no handler began in the future.
BeganEarlier ==
  /\ approval \in Scenarios
  /\ \A t \in Txs : began[t] <= clock /\ co[t].now <= clock

LEMMA RecordsKeep ==
  ASSUME HandlersTyped, BeganEarlier, LimitsHold, NEW s \in Signers, NEW t \in Txs,
         NEW now \in Nat, now <= clock, Admits(ledger[s], t, now),
         Record(s, t, now), UNCHANGED clock
  PROVE  \A r \in Signers : KeepsLimits(ledger'[r], clock')
<1>1. approval \in Scenarios /\ clock \in Nat /\ ledger \in [Signers -> Ledgers]
  BY CosignAssumption DEF HandlersTyped, BeganEarlier
<1>2. \A r \in Signers : ledger'[r] = IF r = s THEN WithRow(ledger[s], t, now) ELSE ledger[r]
  BY <1>1 DEF Record
<1>3. KeepsLimits(WithRow(ledger[s], t, now), clock)
  <2>1. ledger[s] \in Ledgers /\ KeepsLimits(ledger[s], clock)
    BY <1>1 DEF LimitsHold
  <2>2. QED
    BY <1>1, <2>1, RecordKeeps
<1>4. \A r \in Signers : KeepsLimits(ledger[r], clock)
  BY DEF LimitsHold
<1>5. QED
  BY <1>2, <1>3, <1>4

LEMMA StepLimits ==
  IInv /\ BeganEarlier /\ LimitsHold /\ [Next]_vars => (BeganEarlier /\ LimitsHold)'
<1> SUFFICES ASSUME IInv, BeganEarlier, LimitsHold, [Next]_vars
             PROVE  BeganEarlier' /\ LimitsHold'
  OBVIOUS
<1>t. HandlersTyped /\ clock \in Nat
  BY CosignAssumption DEF IInv, HandlersTyped
<1>1. approval' = approval
  BY DEF Next, vars, ServiceChecks, ServiceAsks, ServiceRecords, ServiceGivesUp,
         CosignerEvaluates, CosignerConfirms, CosignerRecords, CosignerDrops,
         Lands, SpentOutside, Tick
<1>2. BeganEarlier'
  <2> USE DEF serviceVars, cosignerVars, chainVars
  <2>1. ASSUME NEW t \in Txs, ServiceChecks(t) PROVE BeganEarlier'
    BY <1>t, <1>1, <2>1 DEF ServiceChecks, BeganEarlier, HandlersTyped
  <2>2. ASSUME NEW t \in Txs, CosignerEvaluates(t) PROVE BeganEarlier'
    BY <1>t, <1>1, <2>2 DEF CosignerEvaluates, NoHandler, BeganEarlier, HandlersTyped, Handlers
  <2>3. ASSUME NEW t \in Txs, CosignerConfirms(t) PROVE BeganEarlier'
    BY <1>t, <1>1, <2>3 DEF CosignerConfirms, BeganEarlier, HandlersTyped, Handlers
  <2>4. ASSUME NEW t \in Txs, CosignerRecords(t) PROVE BeganEarlier'
    BY <1>t, <1>1, <2>4 DEF CosignerRecords, NoHandler, BeganEarlier, HandlersTyped, Handlers
  <2>5. ASSUME NEW t \in Txs, CosignerDrops(t) PROVE BeganEarlier'
    BY <1>t, <1>1, <2>5 DEF CosignerDrops, NoHandler, BeganEarlier, HandlersTyped, Handlers
  <2>6. CASE Tick
    <3>1. \A t \in Txs : began[t] \in Nat /\ co[t].now \in Nat
      BY <1>t, CosignAssumption DEF HandlersTyped, Handlers
    <3>2. QED
      BY <1>t, <1>1, <2>6, <3>1 DEF Tick, BeganEarlier
  <2>7. CASE UNCHANGED <<clock, began, co>>
    BY <1>1, <2>7 DEF BeganEarlier
  <2>8. QED
    BY <2>1, <2>2, <2>3, <2>4, <2>5, <2>6, <2>7
       DEF Next, vars, ServiceAsks, ServiceRecords, ServiceGivesUp, Lands, SpentOutside
<1>3. \A s \in Signers : KeepsLimits(ledger'[s], clock')
  <2> USE DEF serviceVars, cosignerVars, chainVars
  <2>1. ASSUME NEW t \in Txs, ServiceRecords(t)
        PROVE  \A s \in Signers : KeepsLimits(ledger'[s], clock')
    <3>1. "primary" \in Signers /\ began[t] \in Nat /\ began[t] <= clock
      BY <1>t, CosignAssumption DEF Signers, HandlersTyped, BeganEarlier
    <3>2. Admits(ledger["primary"], t, began[t]) /\ Record("primary", t, began[t]) /\ clock' = clock
      BY <2>1 DEF ServiceRecords
    <3>3. QED
      BY <1>t, <3>1, <3>2, RecordsKeep
  <2>2. ASSUME NEW t \in Txs, CosignerRecords(t)
        PROVE  \A s \in Signers : KeepsLimits(ledger'[s], clock')
    <3>1. "cosigner" \in Signers /\ co[t].now \in Nat /\ co[t].now <= clock
      BY <1>t, CosignAssumption DEF Signers, HandlersTyped, Handlers, BeganEarlier
    <3>2. Admits(ledger["cosigner"], t, co[t].now) /\ Record("cosigner", t, co[t].now)
          /\ clock' = clock
      BY <2>2 DEF CosignerRecords
    <3>3. QED
      BY <1>t, <3>1, <3>2, RecordsKeep
  <2>3. CASE Tick
    <3>1. ledger' = ledger /\ clock' = clock + 1 /\ clock <= clock + 1 /\ clock + 1 \in Nat
      BY <1>t, <2>3 DEF Tick
    <3>2. \A s \in Signers : ledger[s] \in Ledgers /\ KeepsLimits(ledger[s], clock)
      BY <1>t DEF HandlersTyped, LimitsHold
    <3>3. approval \in Scenarios
      BY DEF BeganEarlier
    <3>4. \A s \in Signers : KeepsLimits(ledger[s], clock + 1)
      BY <1>t, <3>1, <3>2, <3>3, TimeKeeps
    <3>5. QED
      BY <3>1, <3>4
  <2>4. CASE UNCHANGED <<clock, ledger>>
    BY <2>4 DEF LimitsHold
  <2>5. QED
    BY <2>1, <2>2, <2>3, <2>4
       DEF Next, vars, ServiceChecks, ServiceAsks, ServiceGivesUp,
           CosignerEvaluates, CosignerConfirms, CosignerDrops, Lands, SpentOutside
<1>4. LimitsHold'
  BY <1>1, <1>3 DEF LimitsHold, KeepsLimits, CoLandable, Redeems, Pays
<1>5. QED
  BY <1>2, <1>4

\* Two handlers that check before either records, a record with a time that
\* has passed, a request repeated after a crash: no set of approvals in either
\* ledger that can land together passes a limit.
THEOREM BothKeepLimits == Spec => []LimitsHold
<1>1. Init => BeganEarlier /\ LimitsHold
  <2> SUFFICES ASSUME Init PROVE BeganEarlier /\ LimitsHold
    OBVIOUS
  <2>1. BeganEarlier
    BY DEF Init, BeganEarlier, NoHandler
  <2>2. \A s \in Signers : ledger[s] = EmptyLedger
    BY DEF Init
  <2>3. LimitsHold
    BY <2>2, EmptyKeeps DEF LimitsHold
  <2>4. QED
    BY <2>1, <2>3
<1>2. QED
  BY InitIInv, StepIInv, StepLimits, <1>1, PTL DEF Spec

-----------------------------------------------------------------------------
(* The paths                                                               *)

\* What a transaction needs of others is recorded before it: a signer looks
\* at the chain before it records, and a surrender that has landed is in both
\* ledgers.
SourcesRecorded ==
  /\ approval \in Scenarios
  /\ \A s \in Signers : SourcesIn(Rows(ledger[s]))
  /\ \A t \in Txs :
       /\ pc[t] \in {"asking", "answered"} => Sources(t) \subseteq Rows(ledger["primary"])
       /\ co[t].pc = "confirmed" => Sources(t) \subseteq Rows(ledger["cosigner"])

\* An input on the chain comes from a surrender that is recorded.
LEMMA ChainLook ==
  ASSUME IInv, NEW s \in Signers, NEW t \in Txs, OnChain(s, t)
  PROVE  Sources(t) \subseteq Rows(ledger[s])
<1> SUFFICES ASSUME NEW p \in Txs, NEW o \in approval[t].inputs, o \in Made(p)
             PROVE  p \in Rows(ledger[s])
  BY DEF Sources
<1>1. o \notin Genesis /\ \A q \in Txs : o \in Made(q) => p = q
  BY OneMaker
<1>2. CASE Producer(Rows(ledger[s]), o) # {}
  <2>1. PICK q \in Rows(ledger[s]) : o \in Made(q)
    BY <1>2 DEF Producer
  <2>2. QED
    BY <1>1, <2>1 DEF Rows
<1>3. CASE \E V \in Views : o \in Unspent(V)
  <2>1. PICK V \in SUBSET landed : o \in Unspent(V)
    BY <1>3 DEF Views
  <2>2. PICK q \in landed : o \in Made(q)
    BY <1>1, <2>1 DEF Unspent
  <2>3. q \in Txs /\ RecordedBy("primary", q)
    BY DEF IInv, HandlersTyped, AnswersAreRecorded
  <2>4. RecordedBy("cosigner", q)
    BY <2>3 DEF IInv, AnswersAreRecorded
  <2>5. p = q
    BY <1>1, <2>2, <2>3
  <2>6. QED
    BY <2>3, <2>4, <2>5 DEF Signers, RecordedBy, Rows
<1>4. QED
  BY <1>2, <1>3 DEF OnChain

\* Recording after the look keeps both, and takes no row away.
LEMMA RecordPaths ==
  ASSUME HandlersTyped, SourcesRecorded, PathsHold, NEW s \in Signers, NEW t \in Txs,
         NEW now \in Nat, Sources(t) \subseteq Rows(ledger[s]),
         Admits(ledger[s], t, now), Record(s, t, now)
  PROVE  \A r \in Signers :
           /\ PathsCanLand(ledger'[r])
           /\ SourcesIn(Rows(ledger'[r]))
           /\ Rows(ledger[r]) \subseteq Rows(ledger'[r])
<1>1. ledger \in [Signers -> Ledgers] /\ approval \in Scenarios
  BY DEF HandlersTyped, SourcesRecorded
<1>2. \A r \in Signers : ledger'[r] = IF r = s THEN WithRow(ledger[s], t, now) ELSE ledger[r]
  BY <1>1 DEF Record
<1> DEFINE m == WithRow(ledger[s], t, now)
<1>3. PathsCanLand(m) /\ SourcesIn(Rows(m))
  <2>1. ledger[s] \in Ledgers /\ PathsCanLand(ledger[s]) /\ SourcesIn(Rows(ledger[s]))
    BY <1>1 DEF PathsHold, SourcesRecorded
  <2>2. QED
    BY <1>1, <2>1, RecordFollows
<1>4. Rows(ledger[s]) \subseteq Rows(m)
  <2>1. now # Never
    BY LedgerAssumption
  <2>2. QED
    BY <1>1, <2>1 DEF WithRow, Ledgers, Rows
<1> HIDE DEF m
<1>5. \A r \in Signers : PathsCanLand(ledger[r]) /\ SourcesIn(Rows(ledger[r]))
  BY DEF PathsHold, SourcesRecorded
<1>6. \A r \in Signers : ledger'[r] = IF r = s THEN m ELSE ledger[r]
  BY <1>2 DEF m
<1>7. QED
  BY <1>3, <1>4, <1>5, <1>6

\* Upstream as a function of what the transactions do.
UpstreamBy(does, S, o) ==
  LET up[q \in Outputs] == UNION {{p} \cup up[does[p].pool] : p \in Producer(S, q)}
  IN up[o]

LEMMA StepPaths ==
  IInv /\ SourcesRecorded /\ PathsHold /\ [Next]_vars => (SourcesRecorded /\ PathsHold)'
<1> SUFFICES ASSUME IInv, SourcesRecorded, PathsHold, [Next]_vars
             PROVE  SourcesRecorded' /\ PathsHold'
  OBVIOUS
<1> USE DEF serviceVars, cosignerVars, chainVars
<1>t. HandlersTyped
  BY DEF IInv
<1>1. approval' = approval
  BY DEF Next, vars, ServiceChecks, ServiceAsks, ServiceRecords, ServiceGivesUp,
         CosignerEvaluates, CosignerConfirms, CosignerRecords, CosignerDrops,
         Lands, SpentOutside, Tick
<1>2. "primary" \in Signers /\ "cosigner" \in Signers
  BY DEF Signers
<1> DEFINE Kept == \A r \in Signers :
             /\ PathsCanLand(ledger'[r])
             /\ SourcesIn(Rows(ledger'[r]))
             /\ Rows(ledger[r]) \subseteq Rows(ledger'[r])
           Looked == \A t \in Txs :
             /\ pc'[t] \in {"asking", "answered"} => Sources(t) \subseteq Rows(ledger["primary"])
             /\ co'[t].pc = "confirmed" => Sources(t) \subseteq Rows(ledger["cosigner"])
<1>3. Kept
  <2>1. ASSUME NEW t \in Txs, ServiceRecords(t) PROVE Kept
    <3>1. began[t] \in Nat /\ Sources(t) \subseteq Rows(ledger["primary"])
      BY <1>t, <2>1, CosignAssumption DEF HandlersTyped, SourcesRecorded, ServiceRecords
    <3>2. Admits(ledger["primary"], t, began[t]) /\ Record("primary", t, began[t])
      BY <2>1 DEF ServiceRecords
    <3>3. QED
      BY <1>t, <1>2, <3>1, <3>2, RecordPaths
  <2>2. ASSUME NEW t \in Txs, CosignerRecords(t) PROVE Kept
    <3>1. co[t].now \in Nat /\ Sources(t) \subseteq Rows(ledger["cosigner"])
      BY <1>t, <2>2, CosignAssumption DEF HandlersTyped, Handlers, SourcesRecorded, CosignerRecords
    <3>2. Admits(ledger["cosigner"], t, co[t].now) /\ Record("cosigner", t, co[t].now)
      BY <2>2 DEF CosignerRecords
    <3>3. QED
      BY <1>t, <1>2, <3>1, <3>2, RecordPaths
  <2>3. CASE UNCHANGED ledger
    BY <2>3 DEF SourcesRecorded, PathsHold
  <2>4. QED
    BY <2>1, <2>2, <2>3
       DEF Next, vars, ServiceChecks, ServiceAsks, ServiceGivesUp, CosignerEvaluates,
           CosignerConfirms, CosignerDrops, Lands, SpentOutside, Tick
<1>4. Looked
  <2>0. \A t \in Txs :
          /\ pc[t] \in {"asking", "answered"} => Sources(t) \subseteq Rows(ledger["primary"])
          /\ co[t].pc = "confirmed" => Sources(t) \subseteq Rows(ledger["cosigner"])
    BY DEF SourcesRecorded
  <2>1. ASSUME NEW t \in Txs, ServiceAsks(t) PROVE Looked
    <3>1. Sources(t) \subseteq Rows(ledger["primary"])
      BY <1>2, <2>1, ChainLook DEF ServiceAsks
    <3>2. pc' = [pc EXCEPT ![t] = "asking"] /\ co' = co
      BY <2>1 DEF ServiceAsks
    <3>3. QED
      BY <1>t, <2>0, <3>1, <3>2 DEF HandlersTyped
  <2>2. ASSUME NEW t \in Txs, CosignerConfirms(t) PROVE Looked
    <3>1. Sources(t) \subseteq Rows(ledger["cosigner"])
      BY <1>2, <2>2, ChainLook DEF CosignerConfirms
    <3>2. co' = [co EXCEPT ![t].pc = "confirmed"] /\ pc' = pc
      BY <2>2 DEF CosignerConfirms
    <3>3. QED
      BY <1>t, <2>0, <3>1, <3>2 DEF HandlersTyped
  <2>3. ASSUME NEW t \in Txs, NEW next \in {"idle", "checked", "signed"},
               pc' = [pc EXCEPT ![t] = next], co' = co
        PROVE  Looked
    BY <1>t, <2>0, <2>3 DEF HandlersTyped
  <2>4. ASSUME NEW t \in Txs, CosignerRecords(t) PROVE Looked
    <3>1. pc' = [pc EXCEPT ![t] = IF @ = "asking" THEN "answered" ELSE @]
          /\ co' = [co EXCEPT ![t] = NoHandler]
      BY <2>4 DEF CosignerRecords
    <3>2. QED
      BY <1>t, <2>0, <3>1 DEF HandlersTyped, NoHandler
  <2>5. ASSUME NEW t \in Txs, NEW h \in Handlers, h.pc # "confirmed",
               co' = [co EXCEPT ![t] = h], pc' = pc
        PROVE  Looked
    BY <1>t, <2>0, <2>5 DEF HandlersTyped
  <2>6. CASE UNCHANGED <<pc, co>>
    BY <2>0, <2>6
  <2>7. ASSUME NEW t \in Txs, CosignerEvaluates(t) PROVE Looked
    <3> DEFINE h == IF Timely(t, clock) THEN [pc |-> "evaluated", now |-> clock] ELSE NoHandler
    <3>1. h \in Handlers /\ h.pc # "confirmed"
      BY <1>t, CosignAssumption DEF HandlersTyped, Handlers, NoHandler
    <3>2. co' = [co EXCEPT ![t] = h] /\ pc' = pc
      BY <2>7 DEF CosignerEvaluates
    <3> HIDE DEF h, Looked
    <3>3. QED
      BY <2>5, <3>1, <3>2
  <2>8. ASSUME NEW t \in Txs, CosignerDrops(t) PROVE Looked
    <3>1. NoHandler \in Handlers /\ NoHandler.pc # "confirmed"
      BY CosignAssumption DEF Handlers, NoHandler
    <3>2. co' = [co EXCEPT ![t] = NoHandler] /\ pc' = pc
      BY <2>8 DEF CosignerDrops
    <3> HIDE DEF Looked
    <3>3. QED
      BY <2>5, <3>1, <3>2
  <2> HIDE DEF Looked
  <2>9. \A t \in Txs : ServiceChecks(t) \/ ServiceRecords(t) \/ ServiceGivesUp(t) => Looked
    BY <2>3 DEF ServiceChecks, ServiceRecords, ServiceGivesUp
  <2>10. QED
    BY <2>1, <2>2, <2>4, <2>6, <2>7, <2>8, <2>9 DEF Next, vars, Lands, SpentOutside, Tick
<1>5. SourcesRecorded'
  <2>1. \A t \in Txs :
          /\ pc'[t] \in {"asking", "answered"} => Sources(t) \subseteq Rows(ledger'["primary"])
          /\ co'[t].pc = "confirmed" => Sources(t) \subseteq Rows(ledger'["cosigner"])
    BY <1>2, <1>3, <1>4
  <2>2. \A s \in Signers : SourcesIn(Rows(ledger'[s]))
    BY <1>3
  <2>3. approval \in Scenarios
    BY DEF SourcesRecorded
  <2> HIDE DEF Kept, Looked
  <2>4. QED
    BY <1>1, <2>1, <2>2, <2>3 DEF SourcesRecorded, SourcesIn, Sources
<1>6. PathsHold'
  <2>1. \A s \in Signers : PathsCanLand(ledger'[s])
    BY <1>3
  <2> HIDE DEF Kept, Looked
  <2>2. \A S, o : (Upstream(S, o))' = Upstream(S, o)
    <3>1. \A S, o : Upstream(S, o) = UpstreamBy(approval, S, o)
      BY DEF Upstream, UpstreamBy
    <3>2. \A S, o : (Upstream(S, o))' = UpstreamBy(approval', S, o)
      BY DEF Upstream, UpstreamBy
    <3>3. QED
      BY <1>1, <3>1, <3>2
  <2>3. QED
    BY <1>1, <2>1, <2>2 DEF PathsHold, PathsCanLand
<1>7. QED
  BY <1>5, <1>6

\* "Every transaction on a path must be able to land after the ones before
\* it" (redemption_ledger.py): record refuses one that its own chain or a
\* rival branch keeps from landing, and no later row changes what it builds
\* on, as each signer looked at the chain first.
THEOREM BothPathsHold == Spec => []PathsHold
<1>1. Init => SourcesRecorded /\ PathsHold
  <2> SUFFICES ASSUME Init PROVE SourcesRecorded /\ PathsHold
    OBVIOUS
  <2>1. \A s \in Signers : Rows(ledger[s]) = {}
    BY DEF Init, Rows, EmptyLedger
  <2>2. QED
    BY <2>1 DEF Init, NoHandler, SourcesRecorded, SourcesIn, PathsHold, PathsCanLand
<1>2. QED
  BY InitIInv, StepIInv, StepPaths, <1>1, PTL DEF Spec
=============================================================================
