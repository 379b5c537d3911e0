---------------------------- MODULE MergeProofs ----------------------------
(***************************************************************************)
(* Redemption's invariants for any assets, units, supplies, waivers and    *)
(* bucket splits, and any number of mints, surrenders and pins; then the   *)
(* pipeline that feeds it: that it implements Redemption, how it cuts the  *)
(* pool, prices the assets, lists the holders and shares a bucket out, for *)
(* any markets, prices, holders and listings.                              *)
(***************************************************************************)
EXTENDS Merge, SumProofs, SequenceTheorems

(* No unit of a closed policy appears or vanishes. *)
Conserved == \A u \in Units \ Collectible : Supply(u) = Supply0[u]

(* Nothing is paid before the rates, and they are what the report says. *)
Reported ==
    /\ report.stage # "priced" => \A a \in Assets : rate[a] = NoRate /\ paid[a] = 0
    /\ report.stage # "none" =>
          \A a \in Fungible : report.supply[a] = Supply0[TokenUnit[a]] - Burned[a]
    /\ report.stage = "priced" =>
          \A a \in Assets : rate[a] = RateRow(report.bucket[a], report.supply[a], Waiver[a], 0)

CountedIsSold == \A a \in Fungible : counted[a] = sold[TokenUnit[a]]

PinRead ==
    /\ serving = "pinned" <=> pin.stage = "deployed"
    /\ pin.stage # "none" => \A u \in Units \ Collectible : pin.supply[u] = Supply0[u]
    /\ \A u \in Collectible : pin.already[u] = 0

(* Before the pin every unit paid for is in quarantine; after it, what was *)
(* paid for is in the pin's quarantine count or in the ledger.             *)
SoldInQuarantine ==
    serving # "pinned" => \A u \in Units : sold[u] <= quarantine[u] /\ ledger[u] = 0

SoldOnLedger ==
    serving = "pinned" => \A u \in pin.names :
        sold[u] <= pin.quarantined[u] + ledger[u] /\ ledger[u] <= Remaining(u)

IInv ==
    /\ TypeOK /\ PaidAtRate
    /\ Conserved /\ Reported /\ CountedIsSold /\ PinRead
    /\ SoldInQuarantine /\ SoldOnLedger

-----------------------------------------------------------------------------
(* Arithmetic. *)

\* A floor is a natural number, and times its divisor within the dividend.
LEMMA FloorWithin ==
  ASSUME NEW n \in Nat, NEW d \in Nat \ {0}
  PROVE  n \div d \in Nat /\ (n \div d) * d <= n
OBVIOUS

LEMMA ProductIsNat ==
  ASSUME NEW m \in Nat, NEW n \in Nat
  PROVE  m * n \in Nat
OBVIOUS

LEMMA ProductGrows ==
  ASSUME NEW n \in Nat, NEW x \in Int, NEW y \in Int, x <= y
  PROVE  n * x <= n * y
OBVIOUS

LEMMA SumOfProducts ==
  ASSUME NEW x \in Int, NEW y \in Int, NEW z \in Int
  PROVE  (x + y) * z = x * z + y * z
OBVIOUS

\* The rate of a bucket is a fraction whatever the supply.
LEMMA RateRowTyped ==
  ASSUME NEW b \in Nat, NEW s \in Int, NEW w \in Nat
  PROVE  RateRow(b, s, w, 0) \in [base : Nat, num : Nat, den : Nat \ {0}]
<1>1. CASE s - w + 0 <= 0
  BY <1>1 DEF RateRow, NoRate
<1>2. CASE ~(s - w + 0 <= 0)
  <2>1. s - w + 0 \in Nat \ {0}
    BY <1>2
  <2>2. b \div (s - w + 0) \in Nat
    BY <2>1, FloorWithin
  <2>3. QED
    BY <1>2, <2>1, <2>2 DEF RateRow
<1>3. QED
  BY <1>1, <1>2

\* One payment is within the exact rate of what it is for.
LEMMA PaymentAtRate ==
  ASSUME NEW r \in [base : Nat, num : Nat, den : Nat \ {0}], NEW n \in Nat
  PROVE  Redemption(r, n) \in Nat /\ Redemption(r, n) * r.den <= n * r.num
<1>1. n * r.num \in Nat
  BY ProductIsNat
<1>2. r.den \in Nat \ {0} /\ r.den > 0
  OBVIOUS
<1>3. Redemption(r, n) = (n * r.num) \div r.den
  BY <1>2 DEF Redemption
<1>4. QED
  BY <1>1, <1>2, <1>3, FloorWithin

-----------------------------------------------------------------------------
(* Counting. *)

LEMMA UnitTotals ==
  ASSUME TypeOK
  PROVE  /\ \A u \in Units : Supply(u) \in Nat /\ UnitWaiver(u) \in Nat
         /\ \A a \in Fungible : TokenUnit[a] \in Units /\ TokenUnit[a] \notin Collectible
         /\ \A u \in Units \ Collectible :
               AssetOf[u] \in Fungible /\ TokenUnit[AssetOf[u]] = u
BY RedemptionAssumption DEF TypeOK, Supply, UnitWaiver, Collectible

LEMMA SubsetCount ==
  ASSUME NEW S \in SUBSET Units
  PROVE  Cardinality(S) \in Nat
BY FS_Subset, FS_CardinalityType, RedemptionAssumption

LEMMA CountTyped ==
  ASSUME TypeOK, NEW q \in Surrenders, NEW a \in Assets
  PROVE  Count(a, q) \in Nat
<1>1. CASE a \in Fungible
  BY <1>1, UnitTotals DEF Count, Surrenders
<1>2. CASE a \notin Fungible
  <2>1. Cardinality({u \in UnitsOf(a) : q[u] = 1}) \in Nat
    BY SubsetCount DEF UnitsOf
  <2>2. QED
    BY <1>2, <2>1 DEF Count
<1>3. QED
  BY <1>1, <1>2

LEMMA CountedSupplyTyped ==
  ASSUME TypeOK, NEW a \in Assets
  PROVE  CountedSupply(a) \in Nat
<1>1. CASE a \in Fungible
  BY <1>1, UnitTotals DEF CountedSupply
<1>2. CASE a \notin Fungible
  <2>1. TrueNfts(a) \subseteq Units
    BY DEF TrueNfts, Users, Plain, UnitsOf
  <2>2. QED
    BY <1>2, <2>1, SubsetCount DEF CountedSupply
<1>3. QED
  BY <1>1, <1>2

-----------------------------------------------------------------------------
(* Steps. *)

LEMMA InitIInv == Init => IInv
<1> SUFFICES ASSUME Init PROVE IInv
  OBVIOUS
<1> USE DEF Init, NoRate, Unpinned
<1>1. TypeOK
  <2>1. \A u \in Units : UnitWaiver(u) \in Nat /\ Supply0[u] - UnitWaiver(u) \in Nat
    BY RedemptionAssumption DEF UnitWaiver
  <2>2. QED
    BY <2>1 DEF TypeOK
<1>2. PaidAtRate
  BY DEF PaidAtRate
<1>3. Conserved
  BY RedemptionAssumption DEF Conserved, Supply, UnitWaiver
<1>4. Reported
  BY DEF Reported
<1>5. CountedIsSold
  BY RedemptionAssumption DEF CountedIsSold
<1>6. PinRead
  BY DEF PinRead, Collectible
<1>7. SoldInQuarantine /\ SoldOnLedger
  BY DEF SoldInQuarantine, SoldOnLedger
<1>8. QED
  BY <1>1, <1>2, <1>3, <1>4, <1>5, <1>6, <1>7 DEF IInv

\* Units move about on the chain, and none leaves quarantine.
LEMMA ChainStep ==
  ASSUME IInv,
         free' \in [Units -> Nat], reserve' \in [Units -> Nat],
         quarantine' \in [Units -> Nat], largest' \in [Units -> Nat],
         changed' \subseteq Units,
         \A u \in Units \ Collectible : Supply(u)' = Supply(u),
         \A u \in Units : quarantine[u] <= quarantine'[u],
         UNCHANGED <<report, rate, pin, serving, ledger, ghosts>>
  PROVE  IInv'
<1> USE DEF IInv, ghosts
<1>1. TypeOK'
  BY DEF TypeOK
<1>2. PaidAtRate'
  BY DEF PaidAtRate
<1>3. Conserved'
  BY DEF Conserved
<1>4. Reported'
  BY DEF Reported
<1>5. CountedIsSold'
  BY DEF CountedIsSold
<1>6. PinRead'
  BY DEF PinRead
<1>7. SoldInQuarantine'
  BY DEF SoldInQuarantine, TypeOK
<1>8. SoldOnLedger'
  BY DEF SoldOnLedger, Remaining
<1>9. QED
  BY <1>1, <1>2, <1>3, <1>4, <1>5, <1>6, <1>7, <1>8

\* What a surrender sends to quarantine leaves circulation.
LEMMA QuarantineEffect ==
  ASSUME TypeOK, NEW q \in [Units -> Nat], Quarantine(q)
  PROVE  /\ free' \in [Units -> Nat] /\ reserve' \in [Units -> Nat]
         /\ quarantine' \in [Units -> Nat] /\ largest' \in [Units -> Nat]
         /\ changed' \subseteq Units
         /\ \A u \in Units : Supply(u)' = Supply(u) /\ quarantine'[u] = quarantine[u] + q[u]
BY DEF TypeOK, Quarantine, Supply

\* What is paid for a surrender is within the exact rate of its units, and
\* nothing is paid at a rate of nothing.
LEMMA PayEffect ==
  ASSUME IInv, NEW q \in [Units -> Nat], NEW n \in [Assets -> Nat], Pay(q, n), rate' = rate
  PROVE  /\ sold' \in [Units -> Nat] /\ counted' \in [Assets -> Nat] /\ paid' \in [Assets -> Nat]
         /\ PaidAtRate'
         /\ \A u \in Units : sold'[u] = sold[u] + q[u]
         /\ \A a \in Assets : counted'[a] = counted[a] + n[a]
         /\ \A a \in Assets : rate[a] = NoRate => paid'[a] = paid[a]
<1> DEFINE due(a) == IF n[a] > 0 THEN Redemption(rate[a], n[a]) ELSE 0
<1>0. /\ sold \in [Units -> Nat] /\ counted \in [Assets -> Nat] /\ paid \in [Assets -> Nat]
      /\ rate \in [Assets -> [base : Nat, num : Nat, den : Nat \ {0}]]
      /\ PaidAtRate
  BY DEF IInv, TypeOK
<1>1. \A a \in Assets : due(a) \in Nat /\ due(a) * rate[a].den <= n[a] * rate[a].num
  <2> TAKE a \in Assets
  <2>0. rate[a] \in [base : Nat, num : Nat, den : Nat \ {0}] /\ n[a] \in Nat
    BY <1>0
  <2>1. CASE n[a] > 0
    BY <2>0, <2>1, PaymentAtRate
  <2>2. CASE ~(n[a] > 0)
    BY <2>0, <2>2
  <2>3. QED
    BY <2>1, <2>2
<1>2. \A a \in Assets : paid'[a] = paid[a] + due(a) /\ counted'[a] = counted[a] + n[a]
  BY DEF Pay
<1>3. paid' = [a \in Assets |-> paid[a] + due(a)]
  BY DEF Pay
<1> HIDE DEF due
<1>4. paid' \in [Assets -> Nat]
  BY <1>0, <1>1, <1>3
<1>5. sold' \in [Units -> Nat] /\ counted' \in [Assets -> Nat]
  BY <1>0 DEF Pay
<1>6. PaidAtRate'
  <2> SUFFICES ASSUME NEW a \in Assets
               PROVE  paid'[a] * rate[a].den <= counted'[a] * rate[a].num
    BY DEF PaidAtRate
  <2>1. /\ paid[a] \in Nat /\ counted[a] \in Nat /\ due(a) \in Nat /\ n[a] \in Nat
        /\ rate[a].den \in Nat /\ rate[a].num \in Nat
    BY <1>0, <1>1
  <2>2. paid[a] * rate[a].den <= counted[a] * rate[a].num
    BY <1>0 DEF PaidAtRate
  <2>3. /\ (paid[a] + due(a)) * rate[a].den = paid[a] * rate[a].den + due(a) * rate[a].den
        /\ (counted[a] + n[a]) * rate[a].num = counted[a] * rate[a].num + n[a] * rate[a].num
    BY <2>1, SumOfProducts
  <2>4. /\ paid[a] * rate[a].den \in Nat /\ due(a) * rate[a].den \in Nat
        /\ counted[a] * rate[a].num \in Nat /\ n[a] * rate[a].num \in Nat
    BY <2>1, ProductIsNat
  <2>5. due(a) * rate[a].den <= n[a] * rate[a].num
    BY <1>1
  <2>6. paid[a] * rate[a].den + due(a) * rate[a].den
          <= counted[a] * rate[a].num + n[a] * rate[a].num
    BY <2>2, <2>4, <2>5
  <2>7. QED
    BY <1>2, <2>3, <2>6
<1>7. \A a \in Assets : rate[a] = NoRate => paid'[a] = paid[a]
  <2> SUFFICES ASSUME NEW a \in Assets, rate[a] = NoRate PROVE paid'[a] = paid[a]
    OBVIOUS
  <2>1. ~(n[a] > 0)
    BY DEF Pay, Redeemable, NoRate
  <2>2. QED
    BY <1>0, <1>2, <2>1 DEF due
<1>8. QED
  BY <1>2, <1>4, <1>5, <1>6, <1>7 DEF Pay

\* A surrender before the pin adds to quarantine what it is paid for.
LEMMA OpenSurrenderStep ==
  ASSUME IInv, NEW u \in Units, NEW k \in 1 .. 2, OpenSurrender(u, k)
  PROVE  IInv'
<1> DEFINE q == [v \in Units |-> IF v = u THEN k ELSE 0]
<1> DEFINE n == [a \in Assets |-> IF a = AssetOf[u] THEN k ELSE 0]
<1>0. TypeOK /\ serving = "open"
  BY DEF IInv, OpenSurrender
<1>1. q \in [Units -> Nat] /\ n \in [Assets -> Nat]
  OBVIOUS
<1>2. Quarantine(q) /\ Pay(q, n)
  BY DEF OpenSurrender
<1>3. UNCHANGED <<report, rate, pin, serving, ledger>>
  BY DEF OpenSurrender
<1>4. \A a \in Fungible : n[a] = q[TokenUnit[a]]
  BY RedemptionAssumption
<1> HIDE DEF q, n
<1>5. /\ free' \in [Units -> Nat] /\ reserve' \in [Units -> Nat]
      /\ quarantine' \in [Units -> Nat] /\ largest' \in [Units -> Nat]
      /\ changed' \subseteq Units
      /\ \A v \in Units : Supply(v)' = Supply(v) /\ quarantine'[v] = quarantine[v] + q[v]
  BY <1>0, <1>1, <1>2, QuarantineEffect
<1>6. /\ sold' \in [Units -> Nat] /\ counted' \in [Assets -> Nat] /\ paid' \in [Assets -> Nat]
      /\ PaidAtRate'
      /\ \A v \in Units : sold'[v] = sold[v] + q[v]
      /\ \A a \in Assets : counted'[a] = counted[a] + n[a]
      /\ \A a \in Assets : rate[a] = NoRate => paid'[a] = paid[a]
  BY <1>1, <1>2, <1>3, PayEffect
<1>7. TypeOK'
  BY <1>0, <1>3, <1>5, <1>6 DEF TypeOK
<1>8. Conserved'
  BY <1>5 DEF IInv, Conserved
<1>9. Reported'
  BY <1>3, <1>6 DEF IInv, Reported
<1>10. CountedIsSold'
  BY <1>4, <1>6, RedemptionAssumption DEF IInv, CountedIsSold
<1>11. PinRead'
  BY <1>3 DEF IInv, PinRead
<1>12. SoldInQuarantine'
  <2>1. \A v \in Units : sold[v] <= quarantine[v] /\ ledger[v] = 0
    BY <1>0 DEF IInv, SoldInQuarantine
  <2>2. \A v \in Units : sold[v] \in Nat /\ quarantine[v] \in Nat /\ q[v] \in Nat
    BY <1>0, <1>1 DEF TypeOK
  <2>3. QED
    BY <1>3, <1>5, <1>6, <2>1, <2>2 DEF SoldInQuarantine
<1>13. SoldOnLedger'
  BY <1>0, <1>3 DEF SoldOnLedger
<1>14. QED
  BY <1>6, <1>7, <1>8, <1>9, <1>10, <1>11, <1>12, <1>13 DEF IInv

\* A surrender under the pin adds to the ledger what it is paid for, within
\* what the pin leaves.
LEMMA PinnedSurrenderStep ==
  ASSUME IInv, NEW q \in Surrenders, PinnedSurrender(q)
  PROVE  IInv'
<1> DEFINE n == [a \in Assets |-> Count(a, q)]
<1>0. TypeOK /\ serving = "pinned"
  BY DEF IInv, PinnedSurrender
<1>1. q \in [Units -> Nat] /\ n \in [Assets -> Nat]
  BY <1>0, CountTyped DEF Surrenders
<1>2. Quarantine(q) /\ Pay(q, n) /\ SignersAdmit(q)
  BY DEF PinnedSurrender
<1>3. /\ UNCHANGED <<report, rate, pin, serving>>
      /\ ledger' = [u \in Units |-> ledger[u] + q[u]]
  BY DEF PinnedSurrender
<1>4. \A a \in Fungible : n[a] = q[TokenUnit[a]]
  BY RedemptionAssumption DEF Count
<1> HIDE DEF n
<1>5. /\ free' \in [Units -> Nat] /\ reserve' \in [Units -> Nat]
      /\ quarantine' \in [Units -> Nat] /\ largest' \in [Units -> Nat]
      /\ changed' \subseteq Units
      /\ \A v \in Units : Supply(v)' = Supply(v)
  BY <1>0, <1>1, <1>2, QuarantineEffect
<1>6. /\ sold' \in [Units -> Nat] /\ counted' \in [Assets -> Nat] /\ paid' \in [Assets -> Nat]
      /\ PaidAtRate'
      /\ \A v \in Units : sold'[v] = sold[v] + q[v]
      /\ \A a \in Assets : counted'[a] = counted[a] + n[a]
      /\ \A a \in Assets : rate[a] = NoRate => paid'[a] = paid[a]
  BY <1>1, <1>2, <1>3, PayEffect
<1>7. TypeOK'
  <2>1. ledger' \in [Units -> Nat]
    BY <1>0, <1>1, <1>3 DEF TypeOK
  <2>2. QED
    BY <1>0, <1>3, <1>5, <1>6, <2>1 DEF TypeOK
<1>8. Conserved'
  BY <1>5 DEF IInv, Conserved
<1>9. Reported'
  BY <1>3, <1>6 DEF IInv, Reported
<1>10. CountedIsSold'
  BY <1>4, <1>6, RedemptionAssumption DEF IInv, CountedIsSold
<1>11. PinRead'
  BY <1>3 DEF IInv, PinRead
<1>12. SoldInQuarantine'
  BY <1>0, <1>3 DEF SoldInQuarantine
<1>13. SoldOnLedger'
  <2> SUFFICES ASSUME NEW u \in pin.names
               PROVE  /\ sold'[u] <= pin.quarantined[u] + ledger'[u]
                      /\ ledger'[u] <= Remaining(u)
    BY <1>3 DEF SoldOnLedger, Remaining
  <2>1. /\ u \in Units /\ sold[u] \in Nat /\ ledger[u] \in Nat /\ q[u] \in Nat
        /\ pin.quarantined[u] \in Nat
    BY <1>0, <1>1 DEF TypeOK
  <2>2. sold[u] <= pin.quarantined[u] + ledger[u] /\ ledger[u] <= Remaining(u)
    BY <1>0 DEF IInv, SoldOnLedger
  <2>3. sold'[u] = sold[u] + q[u] /\ ledger'[u] = ledger[u] + q[u]
    BY <1>3, <1>6, <2>1
  <2>4. q[u] > 0 => ledger[u] + q[u] <= Remaining(u)
    BY <1>2, <2>1 DEF SignersAdmit
  <2> HIDE DEF Remaining
  <2>5. CASE q[u] > 0
    BY <2>1, <2>2, <2>3, <2>4, <2>5
  <2>6. CASE ~(q[u] > 0)
    BY <2>1, <2>2, <2>3, <2>6
  <2>7. QED
    BY <2>5, <2>6
<1>14. QED
  BY <1>6, <1>7, <1>8, <1>9, <1>10, <1>11, <1>12, <1>13 DEF IInv

LEMMA MergeReportStep ==
  ASSUME IInv, NEW b \in BucketSplits, MergeReport(b)
  PROVE  IInv'
<1> USE DEF IInv, MergeReport, chainVars, ghosts
<1>1. TypeOK'
  <2>1. b \in [Assets -> Nat]
    BY RedemptionAssumption
  <2>2. \A a \in Assets : CountedSupply(a) - Burned[a] \in Int
    BY CountedSupplyTyped, RedemptionAssumption
  <2>3. report' = [stage |-> "made", bucket |-> b,
                   supply |-> [a \in Assets |-> CountedSupply(a) - Burned[a]]]
    OBVIOUS
  <2>4. report'.stage = "made" /\ report'.bucket \in [Assets -> Nat]
        /\ report'.supply \in [Assets -> Int]
    BY <2>1, <2>2, <2>3
  <2>5. QED
    BY <2>4 DEF TypeOK
<1>2. Reported'
  <2>1. \A a \in Fungible : report'.supply[a] = Supply0[TokenUnit[a]] - Burned[a]
    BY UnitTotals, RedemptionAssumption DEF CountedSupply, Conserved
  <2>2. QED
    BY <2>1 DEF Reported
<1>3. PaidAtRate' /\ CountedIsSold' /\ PinRead'
  BY DEF PaidAtRate, CountedIsSold, PinRead
<1>4. Conserved' /\ SoldInQuarantine' /\ SoldOnLedger'
  BY DEF Conserved, Supply, SoldInQuarantine, SoldOnLedger, Remaining
<1>5. QED
  BY <1>1, <1>2, <1>3, <1>4

\* The rates are fixed while nothing has been paid.
LEMMA PublishRatesStep ==
  ASSUME IInv, PublishRates
  PROVE  IInv'
<1> USE DEF IInv, PublishRates, RatesOf, chainVars, ghosts
<1>1. rate' \in [Assets -> [base : Nat, num : Nat, den : Nat \ {0}]]
  <2>1. \A a \in Assets : /\ report.bucket[a] \in Nat /\ report.supply[a] \in Int
                          /\ Waiver[a] \in Nat
    BY RedemptionAssumption DEF TypeOK
  <2>2. QED
    BY <2>1, RateRowTyped
<1>2. TypeOK'
  BY <1>1 DEF TypeOK
<1>3. PaidAtRate'
  <2> SUFFICES ASSUME NEW a \in Assets
               PROVE  paid'[a] * rate'[a].den <= counted'[a] * rate'[a].num
    BY DEF PaidAtRate
  <2>1. paid'[a] = 0 /\ rate'[a].den \in Nat /\ counted'[a] \in Nat /\ rate'[a].num \in Nat
    BY <1>1 DEF Reported, TypeOK
  <2>2. counted'[a] * rate'[a].num \in Nat
    BY <2>1, ProductIsNat
  <2>3. QED
    BY <2>1, <2>2
<1>4. Reported'
  BY DEF Reported, TypeOK
<1>5. CountedIsSold' /\ PinRead'
  BY DEF CountedIsSold, PinRead
<1>6. Conserved' /\ SoldInQuarantine' /\ SoldOnLedger'
  BY DEF Conserved, Supply, SoldInQuarantine, SoldOnLedger, Remaining
<1>7. QED
  BY <1>2, <1>3, <1>4, <1>5, <1>6

\* The steps that read, write, deploy or drop a pin.
LEMMA PinStep ==
  ASSUME IInv, UNCHANGED <<free, reserve, quarantine, largest, report, rate, ledger, ghosts>>,
         TypeOK', PinRead', SoldOnLedger', serving # "pinned"
  PROVE  IInv'
<1> USE DEF IInv, ghosts
<1>1. PaidAtRate' /\ Reported' /\ CountedIsSold'
  BY DEF PaidAtRate, Reported, CountedIsSold
<1>2. Conserved' /\ SoldInQuarantine'
  BY DEF Conserved, Supply, SoldInQuarantine
<1>3. QED
  BY <1>1, <1>2

LEMMA StopStep ==
  ASSUME IInv, Stop
  PROVE  IInv'
<1>1. TypeOK' /\ PinRead' /\ SoldOnLedger'
  BY DEF IInv, Stop, chainVars, ghosts, TypeOK, PinRead, SoldOnLedger
<1>2. QED
  BY <1>1, PinStep DEF Stop, chainVars

LEMMA ReadSupplyStep ==
  ASSUME IInv, ReadSupply
  PROVE  IInv'
<1>1. UNION {RedeemableNames(a) : a \in Assets} \in SUBSET Units
  BY DEF RedeemableNames, Users, Plain, Live, UnitsOf
<1>2. [u \in Units |-> Supply(u)] \in [Units -> Nat]
  BY UnitTotals DEF IInv
<1>3. pin' = [stage |-> "supply", names |-> UNION {RedeemableNames(a) : a \in Assets},
              supply |-> [u \in Units |-> Supply(u)], quarantined |-> [u \in Units |-> 0],
              sent |-> [u \in Units |-> 0], already |-> [u \in Units |-> 0]]
  BY DEF Unpinned, ReadSupply
<1>4. pin' \in [stage : {"none", "supply", "counted", "written", "deployed"},
                names : SUBSET Units, supply : [Units -> Nat],
                quarantined : [Units -> Nat], sent : [Units -> Nat],
                already : [Units -> Nat]]
  BY <1>1, <1>2, <1>3
<1>5. UNCHANGED <<free, reserve, quarantine, largest, report, rate, serving, ledger, ghosts>>
      /\ changed' \subseteq Units /\ pin.stage = "none"
  BY DEF ReadSupply
<1>6. TypeOK'
  BY <1>4, <1>5 DEF IInv, TypeOK, ghosts
<1>7. serving # "pinned"
  BY <1>5 DEF IInv, PinRead
<1>8. PinRead'
  <2>1. \A u \in Units \ Collectible : pin'.supply[u] = Supply0[u]
    BY <1>3 DEF IInv, Conserved
  <2>2. pin'.stage = "supply" /\ \A u \in Collectible : pin'.already[u] = 0
    BY <1>3 DEF Collectible
  <2>3. QED
    BY <1>5, <1>7, <2>1, <2>2 DEF PinRead
<1>9. SoldOnLedger'
  BY <1>5, <1>7 DEF SoldOnLedger
<1>10. QED
  BY <1>5, <1>6, <1>7, <1>8, <1>9, PinStep

LEMMA ReadQuarantineStep ==
  ASSUME IInv, ReadQuarantine
  PROVE  IInv'
<1> USE DEF IInv, ReadQuarantine, chainVars, ghosts
<1>1. TypeOK'
  BY DEF TypeOK
<1>2. PinRead'
  BY DEF PinRead
<1>3. SoldOnLedger' /\ serving # "pinned"
  BY DEF SoldOnLedger, PinRead
<1>4. QED
  BY <1>1, <1>2, <1>3, PinStep

LEMMA WritePinStep ==
  ASSUME IInv, NEW u \in Units \ Collectible, NEW n \in 0 .. UnitWaiver(u), WritePin(u, n)
  PROVE  IInv'
<1> USE DEF IInv, WritePin, chainVars, ghosts
<1>1. n \in Nat
  BY UnitTotals
<1>2. CASE BorneOut(u, n)
  <2>1. /\ pin' = [stage |-> "written", names |-> pin.names, supply |-> pin.supply,
                    quarantined |-> pin.quarantined, sent |-> pin.sent,
                    already |-> [pin.already EXCEPT ![u] = n]]
        /\ pin.stage = "counted"
    BY <1>2 DEF TypeOK
  <2>2. TypeOK'
    <3>1. [pin.already EXCEPT ![u] = n] \in [Units -> Nat]
      BY <1>1 DEF TypeOK
    <3>2. pin' \in [stage : {"none", "supply", "counted", "written", "deployed"},
                    names : SUBSET Units, supply : [Units -> Nat],
                    quarantined : [Units -> Nat], sent : [Units -> Nat],
                    already : [Units -> Nat]]
      <4>1. /\ pin.names \in SUBSET Units /\ pin.supply \in [Units -> Nat]
            /\ pin.quarantined \in [Units -> Nat] /\ pin.sent \in [Units -> Nat]
        BY DEF TypeOK
      <4> HIDE DEF IInv, WritePin
      <4>2. QED
        BY <2>1, <3>1, <4>1
    <3>3. QED
      BY <3>2 DEF TypeOK
  <2>3. PinRead'
    <3>1. \A v \in Collectible : pin'.already[v] = 0
      BY <2>1 DEF PinRead, TypeOK, Collectible
    <3>2. QED
      BY <2>1, <3>1 DEF PinRead
  <2>4. SoldOnLedger' /\ serving # "pinned"
    BY DEF SoldOnLedger, PinRead
  <2>5. QED
    BY <2>2, <2>3, <2>4, PinStep
<1>3. CASE ~BorneOut(u, n)
  <2>1. pin' = Unpinned
    BY <1>3
  <2>2. TypeOK'
    BY <2>1 DEF TypeOK, Unpinned
  <2>3. PinRead'
    BY <2>1 DEF PinRead, Unpinned, Collectible
  <2>4. SoldOnLedger' /\ serving # "pinned"
    BY DEF SoldOnLedger, PinRead
  <2>5. QED
    BY <2>2, <2>3, <2>4, PinStep
<1>4. QED
  BY <1>2, <1>3

\* With the pin in force, what was paid for before it is in its count of
\* quarantine.
LEMMA DeployStep ==
  ASSUME IInv, Deploy
  PROVE  IInv'
<1> USE DEF IInv, Deploy, chainVars, ghosts
<1>1. serving = "stopped"
  OBVIOUS
<1>2. CASE Drift
  <2>1. pin' = Unpinned /\ serving' = "stopped"
    BY <1>2
  <2>2. TypeOK'
    BY <2>1 DEF TypeOK, Unpinned
  <2>3. PinRead'
    BY <2>1 DEF PinRead, Unpinned, Collectible
  <2>4. SoldOnLedger'
    BY <2>1 DEF SoldOnLedger
  <2>5. QED
    BY <1>1, <2>2, <2>3, <2>4, PinStep
<1>3. CASE ~Drift
  <2>1. pin' = [pin EXCEPT !.stage = "deployed"] /\ serving' = "pinned"
    BY <1>3
  <2>2. TypeOK'
    BY <2>1 DEF TypeOK
  <2>3. PinRead'
    BY <2>1 DEF PinRead, TypeOK
  <2>4. SoldOnLedger'
    <3> SUFFICES ASSUME NEW u \in pin.names
                 PROVE  sold[u] <= pin.quarantined[u] + ledger[u] /\ ledger[u] <= Remaining(u)'
      BY <2>1 DEF SoldOnLedger, TypeOK
    <3>1. u \in Units
      BY DEF TypeOK
    <3>2. quarantine[u] = pin.quarantined[u]
      BY <1>3 DEF Drift
    <3>3. sold[u] <= quarantine[u] /\ ledger[u] = 0
      BY <1>1, <3>1 DEF SoldInQuarantine
    <3>4. Remaining(u)' >= 0
      <4>1. /\ pin'.supply[u] \in Nat /\ pin'.already[u] \in Nat /\ pin'.quarantined[u] \in Nat
            /\ UnitWaiver(u) \in Nat
        BY <2>2, <3>1, UnitTotals DEF TypeOK
      <4>2. QED
        BY <4>1 DEF Remaining
    <3>5. QED
      BY <3>1, <3>2, <3>3, <3>4 DEF TypeOK
  <2>5. QED
    BY <1>1, <2>2, <2>3, <2>4, PinStep
<1>4. QED
  BY <1>2, <1>3

LEMMA MovesStep ==
  ASSUME IInv, NEW u \in Units,
         Mint(u) \/ Burn(u) \/ LeaveReserve(u) \/ JoinReserve(u) \/ Donate(u)
  PROVE  IInv'
<1>0. TypeOK
  BY DEF IInv
<1>1. CASE Mint(u) \/ Burn(u)
  <2>1. UNCHANGED <<reserve, quarantine, largest, report, rate, pin, serving, ledger, ghosts>>
    BY <1>1 DEF Mint, Burn
  <2>2. free' \in [Units -> Nat] /\ changed' \subseteq Units
    <3>1. CASE Mint(u)
      BY <1>0, <3>1 DEF Mint, TypeOK
    <3>2. CASE Burn(u)
      BY <1>0, <3>2 DEF Burn, TypeOK
    <3>3. QED
      BY <1>1, <3>1, <3>2
  <2>3. \A v \in Units \ Collectible : Supply(v)' = Supply(v)
    BY <1>0, <1>1 DEF Mint, Burn, TypeOK, Supply
  <2>4. QED
    BY <1>0, <2>1, <2>2, <2>3, ChainStep DEF TypeOK
<1>2. CASE LeaveReserve(u) \/ JoinReserve(u)
  <2>1. UNCHANGED <<quarantine, largest, changed, report, rate, pin, serving, ledger, ghosts>>
    BY <1>2 DEF LeaveReserve, JoinReserve
  <2>2. free' \in [Units -> Nat] /\ reserve' \in [Units -> Nat]
    <3>1. CASE LeaveReserve(u)
      BY <1>0, <3>1 DEF LeaveReserve, TypeOK
    <3>2. CASE JoinReserve(u)
      BY <1>0, <3>2 DEF JoinReserve, TypeOK
    <3>3. QED
      BY <1>2, <3>1, <3>2
  <2>3. \A v \in Units : free'[v] + reserve'[v] = free[v] + reserve[v]
    <3>1. CASE LeaveReserve(u)
      BY <1>0, <3>1 DEF LeaveReserve, TypeOK
    <3>2. CASE JoinReserve(u)
      BY <1>0, <3>2 DEF JoinReserve, TypeOK
    <3>3. QED
      BY <1>2, <3>1, <3>2
  <2>4. \A v \in Units : Supply(v)' = Supply(v)
    BY <2>1, <2>3 DEF Supply
  <2>5. QED
    BY <1>0, <2>1, <2>2, <2>4, ChainStep DEF TypeOK
<1>3. CASE Donate(u)
  <2> DEFINE q == [v \in Units |-> IF v = u THEN 1 ELSE 0]
  <2>1. Quarantine(q) /\ UNCHANGED <<report, rate, pin, serving, ledger, ghosts>>
    BY <1>3 DEF Donate
  <2>2. q \in [Units -> Nat]
    OBVIOUS
  <2> HIDE DEF q
  <2>3. \A v \in Units : quarantine[v] <= quarantine'[v]
    BY <1>0, <2>1, <2>2, QuarantineEffect DEF TypeOK
  <2>4. QED
    BY <1>0, <2>1, <2>2, <2>3, QuarantineEffect, ChainStep
<1>4. QED
  BY <1>1, <1>2, <1>3

LEMMA StepIInv == IInv /\ [Next]_vars => IInv'
<1> SUFFICES ASSUME IInv, [Next]_vars PROVE IInv'
  OBVIOUS
<1>1. CASE \E b \in BucketSplits : MergeReport(b)
  BY <1>1, MergeReportStep
<1>2. CASE PublishRates
  BY <1>2, PublishRatesStep
<1>3. CASE \E u \in Units : Mint(u) \/ Burn(u) \/ LeaveReserve(u) \/ JoinReserve(u) \/ Donate(u)
  BY <1>3, MovesStep
<1>4. CASE \E u \in Units, k \in 1 .. 2 : OpenSurrender(u, k)
  BY <1>4, OpenSurrenderStep
<1>5. CASE \E q \in Surrenders : PinnedSurrender(q)
  BY <1>5, PinnedSurrenderStep
<1>6. CASE Stop \/ ReadSupply \/ ReadQuarantine \/ Deploy
  BY <1>6, StopStep, ReadSupplyStep, ReadQuarantineStep, DeployStep
<1>7. CASE \E u \in Units \ Collectible : \E n \in 0 .. UnitWaiver(u) : WritePin(u, n)
  BY <1>7, WritePinStep
<1>8. CASE UNCHANGED vars
  <2>1. UNCHANGED <<free, reserve, quarantine, largest, changed, report, rate, pin, serving,
                    ledger, ghosts>>
    BY <1>8 DEF vars, chainVars
  <2>2. QED
    BY <2>1, ChainStep DEF IInv, TypeOK, Supply
<1>9. QED
  BY <1>1, <1>2, <1>3, <1>4, <1>5, <1>6, <1>7, <1>8 DEF Next, Redeeming

-----------------------------------------------------------------------------
(* Theorems. *)

LEMMA Inductive == Spec => []IInv
BY InitIInv, StepIInv, PTL DEF Spec

\* Every count is a number of units that exist, whatever is minted, burned,
\* moved, surrendered or pinned, and in whatever order.
THEOREM TypeCorrect == Spec => []TypeOK
<1>1. IInv => TypeOK
  BY DEF IInv
<1>2. QED
  BY <1>1, Inductive, PTL

\* However a holding is split over surrenders, their payments never add up to
\* more than the exact rate of all its units (compute_redemption,
\* surrendered_entitlement).
THEOREM PaymentsAtRate == Spec => []PaidAtRate
<1>1. IInv => PaidAtRate
  BY DEF IInv
<1>2. QED
  BY <1>1, Inductive, PTL

LEMMA LifetimeOfUnit ==
  ASSUME IInv, serving = "pinned", NEW u \in pin.names
  PROVE  /\ u \in Units
         /\ sold[u] <= Larger(pin.quarantined[u], pin.supply[u] - UnitWaiver(u) + pin.already[u])
<1>1. /\ u \in Units /\ sold[u] \in Nat /\ ledger[u] \in Nat
      /\ pin.quarantined[u] \in Nat /\ pin.supply[u] \in Nat /\ pin.already[u] \in Nat
  BY DEF IInv, TypeOK
<1>2. UnitWaiver(u) \in Nat
  BY <1>1, UnitTotals DEF IInv
<1>3. sold[u] <= pin.quarantined[u] + ledger[u] /\ ledger[u] <= Remaining(u)
  BY DEF IInv, SoldOnLedger
<1>4. QED
  BY <1>1, <1>2, <1>3 DEF Remaining, Larger

\* No unit of the deployed pin is paid for more than its supply allows over
\* its lifetime, before and after the pin together (load_redemption_pin, the
\* signers' ledgers).
THEOREM LifetimeOfUnits == Spec => []UnitLifetime
<1>1. IInv => UnitLifetime
  BY LifetimeOfUnit DEF UnitLifetime
<1>2. QED
  BY <1>1, Inductive, PTL

\* A fungible asset's payments stay within its bucket at the exact rate, but
\* for quarantined, burned and recorded waived units.
THEOREM FungibleBuckets == Spec => []FungibleWithinBucket
<1>1. IInv => FungibleWithinBucket
  <2> SUFFICES ASSUME IInv, serving = "pinned",
                      NEW a \in Fungible \cap {AssetOf[u] : u \in pin.names}
               PROVE  paid[a] * rate[a].den <=
                        rate[a].num * Larger(pin.quarantined[TokenUnit[a]],
                                 rate[a].den + Burned[a] + pin.already[TokenUnit[a]])
    BY DEF FungibleWithinBucket
  <2> DEFINE u == TokenUnit[a]
  <2> DEFINE most == Larger(pin.quarantined[u], rate[a].den + Burned[a] + pin.already[u])
  <2>0. TypeOK
    BY DEF IInv
  <2>1. a \in Assets /\ u \in Units /\ u \notin Collectible /\ AssetOf[u] = a
    BY <2>0, UnitTotals, RedemptionAssumption
  <2>2. u \in pin.names
    BY <2>0, RedemptionAssumption DEF TypeOK
  <2>3. /\ sold[u] \in Nat /\ counted[a] \in Nat /\ paid[a] \in Nat
        /\ rate[a].num \in Nat /\ rate[a].den \in Nat
        /\ pin.quarantined[u] \in Nat /\ pin.already[u] \in Nat /\ Burned[a] \in Nat
        /\ Supply0[u] \in Nat /\ Waiver[a] \in Nat
    BY <2>0, <2>1, RedemptionAssumption DEF TypeOK
  <2>4. counted[a] = sold[u]
    BY DEF IInv, CountedIsSold
  <2>5. pin.supply[u] = Supply0[u]
    BY <2>1 DEF IInv, PinRead
  <2>6. sold[u] <= Larger(pin.quarantined[u], Supply0[u] - Waiver[a] + pin.already[u])
    BY <2>1, <2>2, <2>5, LifetimeOfUnit DEF UnitWaiver
  <2>7. paid[a] * rate[a].den <= counted[a] * rate[a].num
    BY <2>1 DEF IInv, PaidAtRate
  <2>8. counted[a] * rate[a].num = rate[a].num * sold[u]
    BY <2>3, <2>4
  <2>9. most \in Int
    BY <2>3 DEF Larger
  <2>10. CASE rate[a].num = 0
    <3>1. rate[a].num * sold[u] = 0 /\ rate[a].num * most = 0
      BY <2>3, <2>9, <2>10
    <3>2. QED
      BY <2>7, <2>8, <3>1
  <2>11. CASE rate[a].num # 0
    <3>1. rate[a] # NoRate
      BY <2>11 DEF NoRate
    <3>2. /\ report.supply[a] = Supply0[u] - Burned[a]
          /\ rate[a] = RateRow(report.bucket[a], report.supply[a], Waiver[a], 0)
      BY <2>1, <3>1 DEF IInv, Reported
    <3>3. rate[a].den = Supply0[u] - Burned[a] - Waiver[a]
      BY <2>3, <3>1, <3>2 DEF RateRow
    <3>4. sold[u] <= most
      BY <2>3, <2>6, <3>3 DEF Larger
    <3>5. rate[a].num * sold[u] <= rate[a].num * most
      BY <2>3, <2>9, <3>4, ProductGrows
    <3>6. rate[a].num * sold[u] \in Int /\ rate[a].num * most \in Int
          /\ paid[a] * rate[a].den \in Int
      BY <2>3, <2>9
    <3>7. QED
      BY <2>7, <2>8, <3>5, <3>6
  <2>12. QED
    BY <2>10, <2>11
<1>2. QED
  BY <1>1, Inductive, PTL

\* A pin with a record is deployed only while what it promises of the unit is
\* in circulation (pin_redemption.py drift, already_quarantined_problems).
THEOREM RecordsPromised == Spec => RecordedPinPromise
<1>1. IInv /\ [Next]_vars =>
        (serving' = "pinned" /\ serving # "pinned" =>
            \A u \in pin.names : pin.already[u] > 0 => Remaining(u) <= free[u])
  <2> SUFFICES ASSUME IInv, [Next]_vars, serving' = "pinned", serving # "pinned",
                      NEW u \in pin.names, pin.already[u] > 0
               PROVE  Remaining(u) <= free[u]
    OBVIOUS
  <2>1. Deploy
    BY DEF Next, Redeeming, vars, MergeReport, PublishRates, Mint, Burn, LeaveReserve,
           JoinReserve, Donate, OpenSurrender, PinnedSurrender, Stop, ReadSupply,
           ReadQuarantine, WritePin
  <2>2. ~Drift
    BY <2>1 DEF Deploy
  <2>3. u \in Units /\ u \notin Collectible
    BY DEF IInv, TypeOK, PinRead
  <2>4. /\ quarantine[u] = pin.quarantined[u]
        /\ reserve[u] <= UnitWaiver(u) - pin.already[u]
    BY <2>2 DEF Drift, BorneOut
  <2>5. /\ free[u] \in Nat /\ reserve[u] \in Nat /\ quarantine[u] \in Nat
        /\ pin.supply[u] \in Nat /\ pin.already[u] \in Nat /\ UnitWaiver(u) \in Nat
    BY <2>3, UnitTotals DEF IInv, TypeOK
  <2>6. pin.supply[u] = free[u] + reserve[u] + quarantine[u]
    <3>1. pin.stage # "none"
      BY <2>1 DEF Deploy
    <3>2. QED
      BY <2>3, <3>1 DEF IInv, PinRead, Conserved, Supply
  <2>7. QED
    BY <2>4, <2>5, <2>6 DEF Remaining
<1>2. QED
  BY <1>1, Inductive, PTL DEF Spec, RecordedPinPromise

-----------------------------------------------------------------------------
(* Floors of shares                                                        *)

\* What a division leaves.
LEMMA DivisionLeaves ==
  ASSUME NEW m \in Nat, NEW d \in Nat \ {0}
  PROVE  /\ m \div d \in Nat
         /\ m - d * (m \div d) \in Int
         /\ 0 <= m - d * (m \div d) /\ m - d * (m \div d) <= d - 1
OBVIOUS

LEMMA ProductsCommute ==
  ASSUME NEW x \in Int, NEW y \in Int
  PROVE  x * y \in Int /\ x * y = y * x
OBVIOUS

\* Each share of a pot, in the proportion of its weight to the whole, is
\* rounded down: together they are within their part of the pot, and less than
\* one unit for each of them is lost.
LEMMA FloorShares ==
  ASSUME NEW S, IsFiniteSet(S), NEW w, \A x \in S : w[x] \in Nat,
         NEW pot \in Nat, NEW all \in Nat \ {0},
         NEW share, \A x \in S : share[x] = (w[x] * pot) \div all
  PROVE  /\ \A x \in S : /\ share[x] \in Nat
                         /\ 0 <= w[x] * pot - all * share[x]
                         /\ w[x] * pot - all * share[x] <= all - 1
         /\ Cardinality(S) \in Nat
         /\ SumFunctionOnSet(w, S) \in Nat /\ SumFunctionOnSet(share, S) \in Nat
         /\ 0 <= SumFunctionOnSet(w, S) * pot - all * SumFunctionOnSet(share, S)
         /\ SumFunctionOnSet(w, S) * pot - all * SumFunctionOnSet(share, S)
              <= (all - 1) * Cardinality(S)
<1> DEFINE part == [x \in S |-> w[x] * pot]
           rest == [x \in S |-> w[x] * pot - all * share[x]]
<1>1. \A x \in S : /\ share[x] \in Nat /\ w[x] * pot \in Nat
                   /\ w[x] * pot - all * share[x] \in Int
                   /\ 0 <= w[x] * pot - all * share[x]
                   /\ w[x] * pot - all * share[x] <= all - 1
  <2> SUFFICES ASSUME NEW x \in S
               PROVE  /\ share[x] \in Nat /\ w[x] * pot \in Nat
                      /\ w[x] * pot - all * share[x] \in Int
                      /\ 0 <= w[x] * pot - all * share[x]
                      /\ w[x] * pot - all * share[x] <= all - 1
    OBVIOUS
  <2>1. w[x] * pot \in Nat
    BY ProductIsNat
  <2> DEFINE m == w[x] * pot
  <2>2. share[x] = m \div all /\ m \in Nat
    BY <2>1
  <2> HIDE DEF m
  <2>3. /\ share[x] \in Nat /\ m - all * share[x] \in Int
        /\ 0 <= m - all * share[x] /\ m - all * share[x] <= all - 1
    BY <2>2, DivisionLeaves
  <2>4. QED
    BY <2>2, <2>3 DEF m
<1>2. \A x \in S : w[x] \in Int /\ share[x] \in Int /\ w[x] * pot \in Int /\ all * share[x] \in Int
  BY <1>1, ProductsCommute
<1>3. \A x \in S : part[x] = pot * w[x]
  <2> SUFFICES ASSUME NEW x \in S PROVE part[x] = pot * w[x]
    OBVIOUS
  <2>1. part[x] = w[x] * pot
    OBVIOUS
  <2>2. w[x] * pot = pot * w[x] /\ pot * w[x] \in Int
    BY ProductsCommute
  <2>3. QED
    BY <2>1, <2>2
<1>4. \A x \in S : rest[x] \in Int /\ 0 <= rest[x] /\ rest[x] <= all - 1
  BY <1>1
<1>5. \A x \in S : part[x] = all * share[x] + rest[x]
  BY <1>2
<1> HIDE DEF part, rest
<1>6. /\ SumFunctionOnSet(w, S) \in Int
      /\ SumFunctionOnSet(part, S) = pot * SumFunctionOnSet(w, S)
  <2>1. PICK c \in Int : c = pot
    OBVIOUS
  <2>2. \A x \in S : w[x] \in Int /\ part[x] = c * w[x]
    BY <1>2, <1>3, <2>1
  <2>3. /\ SumFunctionOnSet(w, S) \in Int
        /\ SumFunctionOnSet(part, S) = c * SumFunctionOnSet(w, S)
    BY <2>2, SumMultiple
  <2>4. QED
    BY <2>1, <2>3
<1>8. /\ SumFunctionOnSet(share, S) \in Int /\ SumFunctionOnSet(rest, S) \in Int
      /\ SumFunctionOnSet(part, S) = all * SumFunctionOnSet(share, S) + SumFunctionOnSet(rest, S)
  BY <1>2, <1>4, <1>5, SumLinear, SMTT(30)
<1>9. /\ Cardinality(S) \in Nat /\ all - 1 \in Int
      /\ 0 * Cardinality(S) <= SumFunctionOnSet(rest, S)
      /\ SumFunctionOnSet(rest, S) <= (all - 1) * Cardinality(S)
  <2>1. PICK top \in Int : top = all - 1
    OBVIOUS
  <2>2. 0 \in Int /\ \A x \in S : rest[x] \in Int /\ 0 <= rest[x] /\ rest[x] <= top
    BY <1>4, <2>1
  <2>3. /\ Cardinality(S) \in Nat
        /\ 0 * Cardinality(S) <= SumFunctionOnSet(rest, S)
        /\ SumFunctionOnSet(rest, S) <= top * Cardinality(S)
    BY <2>2, SumWithin
  <2>4. QED
    BY <2>1, <2>3
<1>10. SumFunctionOnSet(w, S) \in Nat /\ SumFunctionOnSet(share, S) \in Nat
  BY <1>1, SumNat
<1> DEFINE W == SumFunctionOnSet(w, S)
           T == SumFunctionOnSet(share, S)
           R == SumFunctionOnSet(rest, S)
<1>11. /\ W \in Int /\ T \in Int /\ R \in Int
       /\ pot * W = all * T + R
       /\ W * pot = pot * W /\ pot * W \in Int /\ all * T \in Int
  BY <1>6, <1>8, ProductsCommute
<1>12. 0 * Cardinality(S) = 0
  BY <1>9
<1> HIDE DEF W, T, R
<1>13. W * pot - all * T = R
  BY <1>11
<1>14. QED
  BY <1>1, <1>9, <1>10, <1>12, <1>13 DEF W, T, R

-----------------------------------------------------------------------------
(* The buckets                                                             *)

\* A truncated share is off the exact one, either way, by no more of a unit
\* than the valuation is of the whole, and by less than a unit for rounding.
LEMMA TruncatedOff ==
  ASSUME NEW v \in Nat, NEW all \in Nat \ {0}, NEW pool \in Nat, NEW fine \in Nat, pool < fine,
         NEW n \in Truncated(v, all, pool, fine)
  PROVE  /\ n \in Nat /\ all * n - pool * v \in Int
         /\ fine * (all * n - pool * v) <= pool * v
         /\ all * n - pool * v <= v
         /\ all * n - pool * v > -(all + v)
<1>1. /\ n \in Nat
      /\ n * all * fine <= v * pool * (fine + 1)
      /\ (n + 1) * all * fine > v * pool * (fine - 1)
  BY DEF Truncated
<1> DEFINE a == all * n
           p == pool * v
<1>2. a \in Nat /\ p \in Nat /\ n * all = a /\ v * pool = p
  BY <1>1, SMTT(30)
<1>3. (n + 1) * all = a + all
  BY <1>1, SMTT(30)
<1>4. p <= v * fine /\ v * fine \in Nat
  BY SMTT(30)
<1>5. a * fine <= p * (fine + 1) /\ (a + all) * fine > p * (fine - 1)
  BY <1>1, <1>2, <1>3
<1> HIDE DEF a, p
<1>6. PICK d \in Int : d = a - p
  BY <1>2
<1>7. a = p + d
  BY <1>2, <1>6
<1>8. a * fine = p * fine + d * fine /\ p * (fine + 1) = p * fine + p
      /\ p * fine \in Nat /\ d * fine \in Int /\ fine * d = d * fine
  BY <1>2, <1>6, <1>7, SMTT(30)
<1>9. d * fine <= p
  BY <1>2, <1>5, <1>8
<1>10. (d + all) * fine > - p
  <2>1. (a + all) * fine = p * fine + (d + all) * fine /\ p * (fine - 1) = p * fine - p
        /\ (d + all) * fine \in Int
    BY <1>2, <1>6, <1>7, SMTT(30)
  <2>2. QED
    BY <1>2, <1>5, <1>8, <2>1
<1>11. d <= v
  <2>1. ASSUME d >= v + 1 PROVE FALSE
    <3>1. d * fine >= (v + 1) * fine /\ (v + 1) * fine = v * fine + fine
      BY <1>6, <2>1, SMTT(30)
    <3>2. fine > 0
      OBVIOUS
    <3>3. QED
      BY <1>2, <1>4, <1>8, <1>9, <3>1, <3>2
  <2>2. QED
    BY <1>6, <2>1
<1>12. d > -(all + v)
  <2>1. ASSUME d + all <= - v PROVE FALSE
    <3>1. (d + all) * fine <= (- v) * fine /\ (- v) * fine = - (v * fine)
          /\ (d + all) * fine \in Int
      BY <1>6, <2>1, SMTT(30)
    <3>2. QED
      BY <1>2, <1>4, <1>10, <3>1
  <2>2. QED
    BY <1>6, <2>1
<1>13. QED
  BY <1>1, <1>2, <1>6, <1>8, <1>9, <1>11, <1>12 DEF a, p

\* Truncated shares of a pool together exceed what their valuations are worth
\* by no more than one relative error, and fall short by less than a unit for
\* each.
LEMMA TruncatedSum ==
  ASSUME NEW S, IsFiniteSet(S), NEW w, \A x \in S : w[x] \in Nat,
         NEW all \in Nat \ {0}, NEW pool \in Nat, NEW fine \in Nat, pool < fine,
         NEW share, \A x \in S : share[x] \in Truncated(w[x], all, pool, fine)
  PROVE  LET W == SumFunctionOnSet(w, S)
             T == SumFunctionOnSet(share, S)
         IN  /\ W \in Nat /\ T \in Nat /\ Cardinality(S) \in Nat
             /\ fine * (all * T - pool * W) <= pool * W
             /\ (1 - all) * Cardinality(S) <= (all * T - pool * W) + W
<1> DEFINE part == [x \in S |-> pool * w[x]]
           owing == [x \in S |-> (- pool) * w[x]]
           off == [x \in S |-> all * share[x] - pool * w[x]]
           up == [x \in S |-> pool * w[x] - fine * (all * share[x] - pool * w[x])]
           low == [x \in S |-> (all * share[x] - pool * w[x]) + w[x]]
           W == SumFunctionOnSet(w, S)
           T == SumFunctionOnSet(share, S)
           D == SumFunctionOnSet(off, S)
<1>1. \A x \in S : /\ share[x] \in Nat /\ all * share[x] - pool * w[x] \in Int
                   /\ fine * (all * share[x] - pool * w[x]) <= pool * w[x]
                   /\ all * share[x] - pool * w[x] <= w[x]
                   /\ all * share[x] - pool * w[x] > -(all + w[x])
  BY TruncatedOff
<1>2. \A x \in S : /\ w[x] \in Int /\ share[x] \in Int /\ all * share[x] \in Int
                   /\ pool * w[x] \in Int /\ (- pool) * w[x] \in Int
                   /\ (- pool) * w[x] = - (pool * w[x])
                   /\ fine * (all * share[x] - pool * w[x]) \in Int
                   /\ (- fine) * (all * share[x] - pool * w[x])
                        = - (fine * (all * share[x] - pool * w[x]))
  <2> SUFFICES ASSUME NEW x \in S
               PROVE  /\ w[x] \in Int /\ share[x] \in Int /\ all * share[x] \in Int
                      /\ pool * w[x] \in Int /\ (- pool) * w[x] \in Int
                      /\ (- pool) * w[x] = - (pool * w[x])
                      /\ fine * (all * share[x] - pool * w[x]) \in Int
                      /\ (- fine) * (all * share[x] - pool * w[x])
                           = - (fine * (all * share[x] - pool * w[x]))
    OBVIOUS
  <2>1. PICK m \in Nat : m = w[x]
    OBVIOUS
  <2>2. PICK n \in Nat : n = share[x]
    BY <1>1
  <2>3. PICK d \in Int : d = all * n - pool * m
    OBVIOUS
  <2>4. /\ all * n \in Int /\ pool * m \in Int /\ (- pool) * m \in Int
        /\ (- pool) * m = - (pool * m)
    BY SMTT(30)
  <2>5. fine * d \in Int /\ (- fine) * d = - (fine * d)
    BY SMTT(30)
  <2>6. QED
    BY <2>1, <2>2, <2>3, <2>4, <2>5
<1>3. \A x \in S : off[x] \in Int /\ low[x] \in Int
                   /\ (1 - all) <= low[x] /\ low[x] \in Int /\ up[x] \in Nat
                   /\ part[x] \in Int /\ owing[x] \in Int
  BY <1>1, <1>2
<1>4. \A x \in S : /\ part[x] = pool * w[x] /\ owing[x] = (- pool) * w[x]
                   /\ off[x] = all * share[x] + owing[x]
                   /\ up[x] = (- fine) * off[x] + part[x]
                   /\ low[x] = off[x] + w[x]
  BY <1>1, <1>2
<1> HIDE DEF part, owing, off, up, low
<1>5. W \in Nat /\ T \in Nat
  BY <1>1, SumNat
<1>6. SumFunctionOnSet(part, S) = pool * W
  <2>1. \A x \in S : w[x] \in Int /\ part[x] = pool * w[x]
    BY <1>2, <1>4
  <2>2. pool \in Int
    OBVIOUS
  <2>3. QED
    BY <2>1, <2>2, SumMultiple
<1>7. SumFunctionOnSet(owing, S) = (- pool) * W
  <2>1. PICK c \in Int : c = - pool
    OBVIOUS
  <2>2. \A x \in S : w[x] \in Int /\ owing[x] = c * w[x]
    BY <1>2, <1>4, <2>1
  <2>3. SumFunctionOnSet(owing, S) = c * W
    BY <2>2, SumMultiple
  <2>4. QED
    BY <2>1, <2>3
<1>8. D \in Int /\ D = all * T + (- pool) * W
  <2>1. \A x \in S : share[x] \in Int /\ owing[x] \in Int /\ off[x] = all * share[x] + owing[x]
    BY <1>2, <1>3, <1>4
  <2>2. all \in Int
    OBVIOUS
  <2>3. SumFunctionOnSet(off, S) = all * SumFunctionOnSet(share, S) + SumFunctionOnSet(owing, S)
    BY <2>1, <2>2, SumLinear, SMTT(30)
  <2>4. \A x \in S : off[x] \in Int
    BY <1>3
  <2>5. D \in Int
    <3>1. all * T \in Int /\ (- pool) * W \in Int
      BY <1>5, MultipleInt
    <3>2. QED
      BY <1>7, <2>3, <3>1
  <2>6. QED
    BY <1>7, <2>3, <2>5
<1>9. fine * D <= pool * W
  <2>1. PICK c \in Int : c = - fine
    OBVIOUS
  <2>2. \A x \in S : off[x] \in Int /\ part[x] \in Int /\ up[x] = c * off[x] + part[x]
    BY <1>3, <1>4, <2>1
  <2>3. SumFunctionOnSet(up, S) = c * SumFunctionOnSet(off, S) + SumFunctionOnSet(part, S)
    BY <2>2, SumLinear, SMTT(30)
  <2>4. SumFunctionOnSet(up, S) \in Nat
    BY <1>3, SumNat
  <2> HIDE DEF D
  <2>5. c * D = - (fine * D) /\ fine * D \in Int /\ pool * W \in Int
    BY <1>5, <1>8, <2>1, SMTT(30)
  <2>6. QED
    BY <1>6, <2>3, <2>4, <2>5 DEF D
<1>10. Cardinality(S) \in Nat /\ (1 - all) * Cardinality(S) <= D + W
  <2>1. \A x \in S : off[x] \in Int /\ w[x] \in Int /\ low[x] = off[x] + w[x]
    BY <1>2, <1>3, <1>4
  <2>2. SumFunctionOnSet(low, S) = SumFunctionOnSet(off, S) + SumFunctionOnSet(w, S)
    BY <2>1, SumPlus
  <2>3. PICK c \in Int : c = 1 - all
    OBVIOUS
  <2> DEFINE short == [x \in S |-> low[x] - c]
             level == [x \in S |-> c]
  <2>4. \A x \in S : /\ short[x] \in Nat /\ level[x] = c /\ level[x] \in Int /\ short[x] \in Int
                     /\ low[x] = short[x] + level[x]
    BY <1>3, <2>3
  <2> HIDE DEF short, level
  <2>5. SumFunctionOnSet(short, S) \in Nat
    BY <2>4, SumNat
  <2>6. Cardinality(S) \in Nat /\ SumFunctionOnSet(level, S) = c * Cardinality(S)
    BY <2>4, SumConstant
  <2>7. SumFunctionOnSet(low, S) = SumFunctionOnSet(short, S) + SumFunctionOnSet(level, S)
    BY <2>4, SumPlus
  <2>8. c * Cardinality(S) \in Int
    BY <2>6, MultipleInt
  <2>9. QED
    BY <1>5, <1>8, <2>2, <2>3, <2>5, <2>6, <2>7, <2>8
<1>11. D = all * T - pool * W
  <2>1. (- pool) * W = - (pool * W) /\ pool * W \in Int /\ all * T \in Int
    BY <1>5, SMTT(30)
  <2>2. QED
    BY <1>8, <2>1
<1> HIDE DEF D, W, T
<1>12. QED
  BY <1>5, <1>9, <1>10, <1>11 DEF W, T

LastAsset == Order[Len(Order)]

LEMMA AssetsOrdered ==
  /\ IsFiniteSet(Assets) /\ Len(Order) \in Nat
  /\ Cardinality(Assets) \in Nat /\ Cardinality(Assets) <= Len(Order)
  /\ Assets # {} => LastAsset \in Assets
<1>1. /\ Order \in Seq(Assets) /\ Len(Order) \in Nat /\ DOMAIN Order = 1 .. Len(Order)
      /\ Assets = {Order[i] : i \in DOMAIN Order}
  BY MergeAssumption DEF Range
<1>2. Order \in Surjection(1 .. Len(Order), Assets)
  <2>1. Order \in [1 .. Len(Order) -> Assets]
    BY <1>1
  <2>2. \A a \in Assets : \E i \in 1 .. Len(Order) : Order[i] = a
    BY <1>1
  <2>3. QED
    BY <2>1, <2>2 DEF Surjection
<1>3. IsFiniteSet(1 .. Len(Order)) /\ Cardinality(1 .. Len(Order)) = Len(Order)
  BY <1>1, IntervalCounted, Zenon
<1>4. IsFiniteSet(Assets) /\ Cardinality(Assets) <= Len(Order)
  BY <1>2, <1>3, FS_Surjection
<1>5. Assets # {} => Len(Order) \in DOMAIN Order
  BY <1>1
<1>6. QED
  BY <1>1, <1>4, <1>5, FS_CardinalityType DEF LastAsset

\* A bucket for each asset, none of them negative, which add up to the pool;
\* each off its exact share by little more than a unit, and the last by less
\* than one for each of the assets.
LEMMA BucketsSplit ==
  ASSUME NEW v \in [Assets -> Nat], Valued(Order, v),
         NEW share \in Shares(Order, v, Pool, Fine),
         NEW b, b = [a \in Assets |-> Bucket(Order, share, Pool, a)]
  PROVE  /\ b \in [Assets -> 0 .. Pool]
         /\ SumFunction(b) = Pool
         /\ SumFunction(v) \in Nat \ {0}
         /\ \A a \in Assets :
              LET off == b[a] * SumFunction(v) - v[a] * Pool
              IN  IF a = LastAsset
                  THEN off > - SumFunction(v) /\ off < SumFunction(v) * Len(Order)
                  ELSE off <= v[a] /\ off > -(SumFunction(v) + v[a])
<1> DEFINE all == SumFunctionOnSet(v, Assets)
           Others == Assets \ {LastAsset}
           S == SumFunctionOnSet(share, Others)
           V == SumFunctionOnSet(v, Others)
<1>1. /\ IsFiniteSet(Assets) /\ DOMAIN v = Assets /\ Range(Order) = Assets
      /\ Pool \in Nat /\ Fine \in Nat /\ Pool < Fine
  BY AssetsOrdered, MergeAssumption
<1>2. all \in Nat /\ all > 0
  <2>1. all \in Nat
    BY <1>1, SumNat
  <2>2. all > 0
    BY <1>1 DEF Valued
  <2>3. QED
    BY <2>1, <2>2
<1>3. Assets # {}
  BY <1>2, SumEmpty
<1>4. /\ LastAsset \in Assets /\ IsFiniteSet(Others) /\ Cardinality(Others) \in Nat
      /\ Cardinality(Others) = Cardinality(Assets) - 1
      /\ Cardinality(Others) < Len(Order) /\ Len(Order) \in Nat
  <2>1. /\ LastAsset \in Assets /\ Cardinality(Assets) \in Nat /\ Len(Order) \in Nat
        /\ Cardinality(Assets) <= Len(Order)
    BY <1>3, AssetsOrdered
  <2>2. IsFiniteSet(Others) /\ Cardinality(Others) = Cardinality(Assets) - 1
    BY <1>1, <2>1, FS_RemoveElement
  <2>3. Cardinality(Others) \in Nat
    BY <2>2, FS_CardinalityType
  <2>4. QED
    BY <2>1, <2>2, <2>3
<1>5. \A a \in Assets : b[a] = IF a = LastAsset THEN Pool - S ELSE share[a]
  BY <1>1 DEF Bucket, LastAsset
<1>6. \A a \in Assets : v[a] \in Nat /\ share[a] \in Truncated(v[a], all, Pool, Fine)
  BY <1>1 DEF Shares
<1> HIDE DEF all
<1>7. /\ \A a \in Others : /\ share[a] \in Nat /\ all * share[a] - Pool * v[a] \in Int
                           /\ all * share[a] - Pool * v[a] <= v[a]
                           /\ all * share[a] - Pool * v[a] > -(all + v[a])
      /\ V \in Nat /\ S \in Nat
      /\ Fine * (all * S - Pool * V) <= Pool * V
      /\ (1 - all) * Cardinality(Others) <= (all * S - Pool * V) + V
  <2>1. \A a \in Others : v[a] \in Nat /\ share[a] \in Truncated(v[a], all, Pool, Fine)
    BY <1>6
  <2>2. all \in Nat \ {0}
    BY <1>2
  <2> HIDE DEF Others
  <2>3. \A a \in Others : /\ share[a] \in Nat /\ all * share[a] - Pool * v[a] \in Int
                          /\ all * share[a] - Pool * v[a] <= v[a]
                          /\ all * share[a] - Pool * v[a] > -(all + v[a])
    BY <1>1, <2>1, <2>2, TruncatedOff
  <2>4. /\ V \in Nat /\ S \in Nat
        /\ Fine * (all * S - Pool * V) <= Pool * V
        /\ (1 - all) * Cardinality(Others) <= (all * S - Pool * V) + V
    BY <1>1, <1>4, <2>1, <2>2, TruncatedSum
  <2>5. QED
    BY <2>3, <2>4
<1>8. all = v[LastAsset] + V
  BY <1>1, <1>4, <1>6, SumRemove DEF all
<1> HIDE DEF S, V
<1>9. b[LastAsset] = Pool - S /\ b[LastAsset] \in Int
  BY <1>1, <1>4, <1>5, <1>7
<1>10. /\ b[LastAsset] * all - v[LastAsset] * Pool = Pool * V - all * S
       /\ b[LastAsset] * all \in Int /\ v[LastAsset] * Pool \in Nat
       /\ Pool * V - all * S \in Int
  <2>1. \A p, q, r, s \in Int : p * (q + r) \in Int /\ q * p \in Int
                                /\ (p - s) * (q + r) - q * p = p * r - (q + r) * s
    BY SMTT(30)
  <2>2. v[LastAsset] \in Nat /\ V \in Int /\ S \in Int /\ Pool \in Int
    BY <1>1, <1>4, <1>6, <1>7
  <2>3. v[LastAsset] * Pool \in Nat
    BY <1>1, <2>2, ProductIsNat
  <2>4. b[LastAsset] * all \in Int
    BY <1>2, <1>9, ProductsCommute
  <2>5. QED
    BY <1>8, <1>9, <2>1, <2>2, <2>3, <2>4
<1>11. Pool * V - all * S > - all /\ b[LastAsset] \in Nat
  <2>1. Pool * V - all * S > - all
    <3> DEFINE D == all * S - Pool * V
    <3>1. D \in Int /\ Fine * D <= Pool * V /\ Pool * V - all * S = - D
      <4>1. Pool * V \in Int /\ all * S \in Int
        BY <1>1, <1>2, <1>7, ProductsCommute
      <4>2. QED
        BY <1>7, <4>1
    <3>2. V <= all /\ V \in Nat
      BY <1>4, <1>6, <1>7, <1>8
    <3> HIDE DEF D
    <3>3. \A x, y, p, f, w \in Int :
             x > 0 /\ 0 <= w /\ w <= x /\ 0 <= p /\ p < f /\ f * y <= p * w => y < x
      <4> SUFFICES ASSUME NEW x \in Int, NEW y \in Int, NEW p \in Int, NEW f \in Int, NEW w \in Int,
                          x > 0, 0 <= w, w <= x, 0 <= p, p < f, f * y <= p * w, y >= x
                   PROVE  FALSE
        OBVIOUS
      <4>1. f * x <= f * y /\ p * w <= p * x /\ p * x < f * x
            /\ f * x \in Int /\ f * y \in Int /\ p * w \in Int /\ p * x \in Int
        BY SMTT(30)
      <4>2. QED
        BY <4>1
    <3>4. D < all
      BY <1>1, <1>2, <3>1, <3>2, <3>3
    <3>5. QED
      BY <1>2, <3>1, <3>4
  <2>2. b[LastAsset] * all > - all
    BY <1>2, <1>10, <2>1
  <2>3. \A x, y \in Int : y > 0 /\ x * y > - y => x >= 0
    BY SMTT(30)
  <2>4. QED
    BY <1>2, <1>9, <2>1, <2>2, <2>3
<1>12. \A a \in Others : b[a] = share[a] /\ b[a] \in Nat
  BY <1>5, <1>7
<1>13. \A a \in Assets : b[a] \in Nat
  BY <1>11, <1>12
<1>14. SumFunctionOnSet(b, Assets) = Pool
  <2>1. SumFunctionOnSet(b, Assets) = b[LastAsset] + SumFunctionOnSet(b, Others)
    BY <1>1, <1>4, <1>13, SumRemove
  <2>2. SumFunctionOnSet(b, Others) = S
    <3>1. \A a \in Others : share[a] \in Int /\ b[a] = share[a]
      BY <1>7, <1>12
    <3> HIDE DEF Others
    <3>2. QED
      BY <1>4, <3>1, SumAgree DEF S
  <2>3. QED
    BY <1>1, <1>7, <1>9, <2>1, <2>2
<1>15. \A a \in Assets : b[a] <= Pool
  BY <1>1, <1>13, <1>14, SumBound
<1>16. b \in [Assets -> 0 .. Pool] /\ DOMAIN b = Assets
  <2>1. b = [a \in Assets |-> b[a]]
    OBVIOUS
  <2>2. \A a \in Assets : b[a] \in 0 .. Pool
    BY <1>1, <1>13, <1>15
  <2>3. QED
    BY <2>1, <2>2
<1>17. SumFunction(v) = all /\ SumFunction(b) = Pool
  BY <1>1, <1>14, <1>16 DEF SumFunction, all
<1>18. ASSUME NEW a \in Assets, a # LastAsset
       PROVE  b[a] * all - v[a] * Pool <= v[a] /\ b[a] * all - v[a] * Pool > -(all + v[a])
  <2>1. /\ b[a] \in Nat /\ b[a] = share[a] /\ v[a] \in Nat
        /\ all * b[a] - Pool * v[a] <= v[a]
        /\ all * b[a] - Pool * v[a] > -(all + v[a])
    BY <1>6, <1>7, <1>12, <1>18
  <2>2. all * b[a] = b[a] * all /\ Pool * v[a] = v[a] * Pool
    BY <1>1, <1>2, <2>1, ProductsCommute
  <2>3. QED
    BY <2>1, <2>2
<1>19. /\ b[LastAsset] * all - v[LastAsset] * Pool > - all
       /\ b[LastAsset] * all - v[LastAsset] * Pool < all * Len(Order)
  <2> DEFINE R == Pool * V - all * S
             k == Cardinality(Others)
  <2>1. R \in Int /\ (1 - all) * k <= V - R
    <3>1. Pool * V \in Int /\ all * S \in Int
      BY <1>1, <1>2, <1>7, ProductsCommute
    <3>2. (all * S - Pool * V) + V = V - R
      BY <1>7, <3>1
    <3>3. QED
      BY <1>7, <3>1, <3>2
  <2>2. V \in Nat /\ V <= all /\ (k = 0 => V = 0)
    <3>1. k = 0 => Others = {}
      BY <1>4, FS_EmptySet
    <3>2. k = 0 => V = 0
      BY <3>1, SumEmpty DEF V
    <3>3. QED
      BY <1>4, <1>6, <1>7, <1>8, <3>2
  <2>3. k \in Nat /\ k < Len(Order)
    BY <1>4
  <2> HIDE DEF R, k
  <2>4. \A x, r, w, m, n \in Int :
           /\ x > 0 /\ 0 <= w /\ w <= x /\ 0 <= m /\ m < n
           /\ (m = 0 => w = 0)
           /\ (1 - x) * m <= w - r
           => r < x * n
    <3> SUFFICES ASSUME NEW x \in Int, NEW r \in Int, NEW w \in Int, NEW m \in Int, NEW n \in Int,
                        x > 0, 0 <= w, w <= x, 0 <= m, m < n, m = 0 => w = 0,
                        (1 - x) * m <= w - r
                 PROVE  r < x * n
      OBVIOUS
    <3>1. (1 - x) * m = m - x * m /\ x * m \in Int
      BY SMTT(30)
    <3>2. x * (m + 1) <= x * n /\ x * (m + 1) = x * m + x /\ x * n \in Int
      BY SMTT(30)
    <3>3. QED
      BY <3>1, <3>2
  <2>5. R < all * Len(Order)
    <3>1. all \in Int /\ V \in Int /\ k \in Int /\ Len(Order) \in Int
      BY <1>2, <1>4, <2>2, <2>3
    <3>2. all > 0 /\ 0 <= V /\ V <= all /\ 0 <= k /\ k < Len(Order) /\ (k = 0 => V = 0)
      BY <1>2, <2>2, <2>3
    <3>3. R \in Int /\ (1 - all) * k <= V - R
      BY <2>1
    <3> HIDE DEF all, V
    <3>4. QED
      BY <2>4, <3>1, <3>2, <3>3, Zenon
  <2>6. b[LastAsset] * all - v[LastAsset] * Pool = R
    BY <1>10 DEF R
  <2>7. QED
    BY <1>10, <1>11, <2>5, <2>6
<1>20. QED
  BY <1>2, <1>16, <1>17, <1>18, <1>19

-----------------------------------------------------------------------------
(* The prices                                                              *)

\* A quotient lies between the factors its dividend lies between.
LEMMA QuotientWithin ==
  ASSUME NEW s \in Nat, NEW n \in Nat \ {0}, NEW a \in Nat, NEW b \in Nat,
         a * n <= s, s <= b * n
  PROVE  s \div n \in Nat /\ a <= s \div n /\ s \div n <= b
<1> DEFINE q == s \div n
<1>1. q \in Nat /\ n * q <= s /\ s <= n * q + (n - 1)
  BY SMTT(30)
<1> HIDE DEF q
<1>2. a * n < n * (q + 1)
  <2>1. n * (q + 1) = n * q + n /\ n * q \in Int /\ a * n \in Int
    BY <1>1, SMTT(30)
  <2>2. QED
    BY <1>1, <2>1
<1>3. n * q <= b * n
  <2>1. n * q \in Int /\ b * n \in Int
    BY <1>1, ProductsCommute
  <2>2. QED
    BY <1>1, <2>1
<1>4. \A x, y \in Int : x * n < n * y => x < y
  BY SMTT(30)
<1>5. \A x, y \in Int : n * x <= y * n => x <= y
  BY SMTT(30)
<1>6. a < q + 1 /\ q <= b
  BY <1>1, <1>2, <1>3, <1>4, <1>5
<1>7. QED
  BY <1>1, <1>6 DEF q

\* A mean of prices lies between two of them.
LEMMA MeanWithin ==
  ASSUME NEW S, IsFiniteSet(S), S # {}, NEW f, \A i \in S : f[i] \in Nat, NEW c \in Nat
  PROVE  LET mean == (c * SumFunctionOnSet(f, S)) \div Cardinality(S)
         IN  /\ mean \in Nat
             /\ \E i \in S : c * f[i] <= mean
             /\ \E j \in S : mean <= c * f[j]
<1>1. PICK i \in S : \A k \in S : f[i] <= f[k]
  BY LeastRank
<1>2. PICK j \in S : \A k \in S : f[k] <= f[j]
  BY GreatestRank
<1> DEFINE n == Cardinality(S)
           s == SumFunctionOnSet(f, S)
<1>3. n \in Nat /\ n # 0
  BY FS_CardinalityType, FS_EmptySet
<1>4. PICK a \in Int, b \in Int : a = f[i] /\ b = f[j] /\ a \in Nat /\ b \in Nat
  OBVIOUS
<1>5. \A k \in S : f[k] \in Int /\ a <= f[k] /\ f[k] <= b
  BY <1>1, <1>2, <1>4
<1>6. a * n <= s /\ s <= b * n
  BY <1>5, SumWithin
<1>7. s \in Nat
  BY SumNat
<1> HIDE DEF n, s
<1>8. /\ c * s \in Nat /\ c * a \in Nat /\ c * b \in Nat
      /\ (c * a) * n <= c * s /\ c * s <= (c * b) * n
  <2>1. c * s \in Nat /\ c * a \in Nat /\ c * b \in Nat /\ a * n \in Int /\ b * n \in Int
    BY <1>3, <1>4, <1>7, ProductIsNat
  <2>2. c * (a * n) <= c * s /\ c * s <= c * (b * n)
    BY <1>6, <1>7, <2>1, ProductGrows
  <2>3. c * (a * n) = (c * a) * n /\ c * (b * n) = (c * b) * n
    BY <1>3, <1>4, SMTT(30)
  <2>4. QED
    BY <2>1, <2>2, <2>3
<1>9. PICK S2 \in Nat, A2 \in Nat, B2 \in Nat : S2 = c * s /\ A2 = c * a /\ B2 = c * b
  BY <1>8
<1>10. S2 \div n \in Nat /\ A2 <= S2 \div n /\ S2 \div n <= B2
  BY <1>3, <1>8, <1>9, QuotientWithin
<1>11. QED
  BY <1>4, <1>9, <1>10 DEF n, s

\* Closes are prices or missing; the mean of those there are lies between two
\* of them.
LEMMA CloseMean ==
  ASSUME NEW c \in Seq(Nat \cup {Missing})
  PROVE  /\ Mean(c) \in Nat
         /\ Mean(c) > 0 =>
              /\ \E i \in DOMAIN c : c[i] # Missing /\ c[i] \in Nat /\ c[i] <= Mean(c)
              /\ \E j \in DOMAIN c : c[j] # Missing /\ c[j] \in Nat /\ Mean(c) <= c[j]
<1> DEFINE known == {i \in DOMAIN c : c[i] # Missing}
<1>1. Len(c) \in Nat /\ DOMAIN c = 1 .. Len(c) /\ \A i \in DOMAIN c : c[i] \in Nat \cup {Missing}
  OBVIOUS
<1>2. IsFiniteSet(DOMAIN c)
  BY <1>1, FS_Interval
<1>3. IsFiniteSet(known) /\ \A i \in known : c[i] \in Nat /\ i \in DOMAIN c /\ c[i] # Missing
  BY <1>1, <1>2, FS_Subset
<1>4. Mean(c) = IF known = {} THEN 0
                ELSE SumFunctionOnSet(c, known) \div Cardinality(known)
  BY DEF Mean
<1> HIDE DEF known
<1>5. CASE known = {}
  BY <1>4, <1>5
<1>6. CASE known # {}
  <2> DEFINE s == SumFunctionOnSet(c, known)
  <2>1. s \in Nat
    BY <1>3, SumNat
  <2>2. /\ (1 * s) \div Cardinality(known) \in Nat
        /\ \E i \in known : 1 * c[i] <= (1 * s) \div Cardinality(known)
        /\ \E j \in known : (1 * s) \div Cardinality(known) <= 1 * c[j]
    BY <1>3, <1>6, MeanWithin
  <2>3. 1 * s = s /\ \A i \in known : 1 * c[i] = c[i]
    BY <1>3, <2>1
  <2>4. Mean(c) = (1 * s) \div Cardinality(known)
    BY <1>4, <1>6, <2>3
  <2> HIDE DEF s
  <2>5. QED
    BY <1>3, <2>2, <2>3, <2>4
<1>7. QED
  BY <1>5, <1>6

\* The k-th value is there: fewer than k are below it, and k are not above.
LEMMA KthFound ==
  ASSUME NEW f, IsFiniteSet(DOMAIN f), \A i \in DOMAIN f : f[i] \in Nat,
         NEW k \in 1 .. Cardinality(DOMAIN f)
  PROVE  /\ \E i \in DOMAIN f : Kth(f, k) = f[i]
         /\ Cardinality({i \in DOMAIN f : f[i] < Kth(f, k)}) < k
         /\ Cardinality({i \in DOMAIN f : f[i] <= Kth(f, k)}) >= k
<1> DEFINE D == DOMAIN f
           Below(v) == {i \in D : f[i] < v}
           UpTo(v) == {i \in D : f[i] <= v}
           Many == {v \in Range(f) : Cardinality(UpTo(v)) >= k}
<1>1. Cardinality(D) \in Nat /\ k \in Nat /\ k >= 1 /\ k <= Cardinality(D)
  BY FS_CardinalityType
<1>2. Range(f) = {f[i] : i \in D} /\ Range(f) \in SUBSET Nat
  BY DEF Range
<1>3. D # {}
  BY <1>1, FS_EmptySet
<1>4. Many # {}
  <2>1. PICK x \in D : \A y \in D : f[y] <= f[x]
    BY <1>3, GreatestRank
  <2>2. UpTo(f[x]) = D
    BY <2>1
  <2>3. f[x] \in Many
    BY <1>1, <1>2, <2>2
  <2>4. QED
    BY <2>3
<1>5. PICK m \in Many : \A v \in Many : m <= v
  BY <1>2, <1>4, NatMin
<1>6. m \in Range(f) /\ m \in Nat /\ Cardinality(UpTo(m)) >= k
  BY <1>2
<1>7. Cardinality(Below(m)) < k
  <2> DEFINE B == Below(m)
  <2>1. IsFiniteSet(B) /\ Cardinality(B) \in Nat /\ \A i \in B : f[i] \in Nat
    <3>1. B \in SUBSET D
      OBVIOUS
    <3> HIDE DEF B
    <3>2. QED
      BY <3>1, FS_Subset, FS_CardinalityType
  <2>2. SUFFICES ASSUME Cardinality(B) >= k PROVE FALSE
    BY <1>1, <2>1
  <2>3. B # {}
    BY <1>1, <2>2, FS_EmptySet
  <2>4. PICK x \in B : \A y \in B : f[y] <= f[x]
    BY <2>1, <2>3, GreatestRank
  <2>5. UpTo(f[x]) = B
    <3>1. x \in D /\ f[x] < m /\ f[x] \in Nat
      BY <2>4
    <3>2. \A i \in D : f[i] <= f[x] => f[i] < m
      BY <1>6, <3>1
    <3>3. QED
      BY <2>4, <3>2
  <2>6. f[x] \in Many /\ f[x] < m
    BY <1>2, <2>2, <2>4, <2>5
  <2>7. m <= f[x]
    BY <1>5, <2>6
  <2>8. QED
    BY <1>2, <1>6, <2>6, <2>7
<1>8. Kth(f, k) \in Range(f) /\ Cardinality(Below(Kth(f, k))) < k /\ Cardinality(UpTo(Kth(f, k))) >= k
  BY <1>6, <1>7 DEF Kth
<1>9. QED
  BY <1>2, <1>8

\* The median lies between two of the prices,
LEMMA MedianWithin ==
  ASSUME NEW f, IsFiniteSet(DOMAIN f), DOMAIN f # {}, \A i \in DOMAIN f : f[i] \in Nat
  PROVE  /\ Median2(f) \in Nat
         /\ \E i \in DOMAIN f : 2 * f[i] <= Median2(f)
         /\ \E j \in DOMAIN f : Median2(f) <= 2 * f[j]
<1> DEFINE n == Cardinality(DOMAIN f)
           low == (n + 1) \div 2
           high == n \div 2 + 1
<1>1. n \in Nat /\ n # 0
  BY FS_CardinalityType, FS_EmptySet
<1>2. low \in 1 .. n /\ high \in 1 .. n
  BY <1>1
<1>3. Median2(f) = Kth(f, low) + Kth(f, high)
  BY DEF Median2
<1> HIDE DEF low, high
<1>4. PICK i \in DOMAIN f : Kth(f, low) = f[i]
  BY <1>2, KthFound
<1>5. PICK j \in DOMAIN f : Kth(f, high) = f[j]
  BY <1>2, KthFound
<1>6. Median2(f) = f[i] + f[j] /\ f[i] \in Nat /\ f[j] \in Nat
  BY <1>3, <1>4, <1>5
<1>7. CASE f[i] <= f[j]
  BY <1>6, <1>7
<1>8. CASE f[j] <= f[i]
  BY <1>6, <1>8
<1>9. QED
  BY <1>6, <1>7, <1>8

\* and that of three on neither side of any two.
LEMMA MedianOfThree ==
  ASSUME NEW f, IsFiniteSet(DOMAIN f), Cardinality(DOMAIN f) = 3,
         \A i \in DOMAIN f : f[i] \in Nat,
         NEW i \in DOMAIN f, NEW j \in DOMAIN f, i # j
  PROVE  /\ 2 * f[i] <= Median2(f) \/ 2 * f[j] <= Median2(f)
         /\ Median2(f) <= 2 * f[i] \/ Median2(f) <= 2 * f[j]
<1> DEFINE D == DOMAIN f
           v == Kth(f, 2)
           Below == {k \in D : f[k] < v}
           UpTo == {k \in D : f[k] <= v}
<1>1. Median2(f) = v + v
  <2>1. (3 + 1) \div 2 = 2 /\ 3 \div 2 + 1 = 2
    OBVIOUS
  <2>2. QED
    BY <2>1 DEF Median2
<1>2. /\ \E k \in D : v = f[k]
      /\ Cardinality(Below) < 2 /\ Cardinality(UpTo) >= 2
  <2>1. 2 \in 1 .. Cardinality(DOMAIN f)
    OBVIOUS
  <2>2. QED
    BY <2>1, KthFound
<1> HIDE DEF v
<1>3. v \in Nat /\ f[i] \in Nat /\ f[j] \in Nat
  BY <1>2
<1>4. ~ (f[i] < v /\ f[j] < v)
  <2> SUFFICES ASSUME f[i] < v, f[j] < v PROVE FALSE
    OBVIOUS
  <2>1. i \in Below /\ j \in Below /\ Below \in SUBSET D
    OBVIOUS
  <2> HIDE DEF Below
  <2>2. IsFiniteSet(Below)
    BY <2>1, FS_Subset
  <2>3. Cardinality(Below) \in Nat /\ Cardinality(Below \ {i}) = Cardinality(Below) - 1
    BY <2>1, <2>2, FS_RemoveElement, FS_CardinalityType
  <2>4. /\ IsFiniteSet(Below \ {i}) /\ j \in Below \ {i}
        /\ Cardinality(Below \ {i}) \in Nat /\ Cardinality(Below \ {i}) # 0
    <3>1. IsFiniteSet(Below \ {i}) /\ j \in Below \ {i}
      BY <2>1, <2>2, FS_RemoveElement
    <3>2. QED
      BY <3>1, FS_CardinalityType, FS_EmptySet
  <2>5. QED
    BY <1>2, <2>3, <2>4
<1>5. ~ (f[i] > v /\ f[j] > v)
  <2> SUFFICES ASSUME f[i] > v, f[j] > v PROVE FALSE
    OBVIOUS
  <2>1. UpTo \in SUBSET ((D \ {i}) \ {j})
    BY <1>3
  <2> HIDE DEF UpTo
  <2>2. IsFiniteSet(D \ {i}) /\ Cardinality(D \ {i}) = 2 /\ j \in D \ {i}
    <3>1. IsFiniteSet(D \ {i}) /\ Cardinality(D \ {i}) = 3 - 1 /\ j \in D \ {i}
      BY FS_RemoveElement
    <3>2. QED
      BY <3>1
  <2>3. IsFiniteSet((D \ {i}) \ {j}) /\ Cardinality((D \ {i}) \ {j}) = 2 - 1
    BY <2>2, FS_RemoveElement
  <2>4. Cardinality(UpTo) <= Cardinality((D \ {i}) \ {j}) /\ Cardinality(UpTo) \in Nat
    BY <2>1, <2>3, FS_Subset, FS_CardinalityType
  <2>5. QED
    BY <1>2, <2>3, <2>4
<1>6. QED
  BY <1>1, <1>3, <1>4, <1>5

\* However prices are combined, the result lies between two of them.
LEMMA CombineWithin ==
  ASSUME NEW f, IsFiniteSet(DOMAIN f), \A i \in DOMAIN f : f[i] \in Nat,
         NEW first, DOMAIN f # {} => first \in DOMAIN f
  PROVE  /\ Combine(f, first, Mode) \in Nat
         /\ DOMAIN f # {} =>
              /\ \E i \in DOMAIN f : 2 * f[i] <= Combine(f, first, Mode)
              /\ \E j \in DOMAIN f : Combine(f, first, Mode) <= 2 * f[j]
         /\ DOMAIN f # {} /\ Mode = "median" => Combine(f, first, Mode) = Median2(f)
<1>0. Mode \in {"median", "deepest", "mean"}
  BY MergeAssumption
<1>1. CASE DOMAIN f = {}
  BY <1>1 DEF Combine
<1>2. CASE DOMAIN f # {} /\ Mode = "median"
  <2>1. Combine(f, first, Mode) = Median2(f)
    BY <1>2 DEF Combine
  <2>2. QED
    BY <1>2, <2>1, MedianWithin
<1>3. CASE DOMAIN f # {} /\ Mode = "deepest"
  <2>1. Combine(f, first, Mode) = 2 * f[first]
    BY <1>3 DEF Combine
  <2>2. f[first] \in Nat /\ first \in DOMAIN f
    BY <1>3
  <2>3. QED
    BY <1>3, <2>1, <2>2
<1>4. CASE DOMAIN f # {} /\ Mode = "mean"
  <2>1. Combine(f, first, Mode) = (2 * SumFunctionOnSet(f, DOMAIN f)) \div Cardinality(DOMAIN f)
    BY <1>4 DEF Combine, SumFunction
  <2>2. /\ (2 * SumFunctionOnSet(f, DOMAIN f)) \div Cardinality(DOMAIN f) \in Nat
        /\ \E i \in DOMAIN f :
              2 * f[i] <= (2 * SumFunctionOnSet(f, DOMAIN f)) \div Cardinality(DOMAIN f)
        /\ \E j \in DOMAIN f :
              (2 * SumFunctionOnSet(f, DOMAIN f)) \div Cardinality(DOMAIN f) <= 2 * f[j]
    BY <1>4, MeanWithin
  <2>3. QED
    BY <1>4, <2>1, <2>2
<1>5. QED
  BY <1>0, <1>1, <1>2, <1>3, <1>4

IsMarket(m) == m \in Seq([tvl : Int, closes : Seq(Nat \cup {Missing})])

LEMMA PoolsTyped ==
  ASSUME NEW m, IsMarket(m)
  PROVE  /\ IsFiniteSet(DOMAIN m) /\ DOMAIN m \in SUBSET Nat
         /\ \A i \in DOMAIN m : m[i].tvl \in Int /\ m[i].closes \in Seq(Nat \cup {Missing})
<1> DEFINE Found == [tvl : Int, closes : Seq(Nat \cup {Missing})]
<1>1. Len(m) \in Nat /\ DOMAIN m = 1 .. Len(m) /\ \A i \in DOMAIN m : m[i] \in Found
  <2>1. m \in Seq(Found)
    BY DEF IsMarket
  <2> HIDE DEF Found
  <2>2. QED
    BY <2>1
<1>3. \A i \in DOMAIN m : m[i].tvl \in Int /\ m[i].closes \in Seq(Nat \cup {Missing})
  <2> DEFINE Closes == Seq(Nat \cup {Missing})
  <2>1. \A i \in DOMAIN m : m[i] \in [tvl : Int, closes : Closes]
    BY <1>1
  <2> HIDE DEF Closes, Found
  <2>2. \A i \in DOMAIN m : m[i].tvl \in Int /\ m[i].closes \in Closes
    BY <2>1
  <2>3. QED
    BY <2>2 DEF Closes
<1>4. IsFiniteSet(1 .. Len(m)) /\ 1 .. Len(m) \in SUBSET Nat
  BY <1>1, FS_Interval
<1>5. QED
  BY <1>1, <1>3, <1>4

\* Of the priced pools, one has none of the others before it.
LEMMA FirstPriced ==
  ASSUME NEW m, IsMarket(m), NEW P \in SUBSET DOMAIN m, P # {}
  PROVE  \E i \in P : Ahead(m, i) \cap P = {}
<1>1. /\ IsFiniteSet(P) /\ \A i \in P : i \in Nat /\ m[i].tvl \in Int
  BY PoolsTyped, FS_Subset
<1> DEFINE depth == [i \in P |-> m[i].tvl]
           depths == {depth[i] : i \in P}
<1>2. IsFiniteSet(depths) /\ depths # {} /\ \A t \in depths : t \in Int
  BY <1>1, ImageFinite
<1> DEFINE top == Max(depths)
<1>3. top \in depths /\ \A t \in depths : top >= t
  <2> HIDE DEF depths
  <2>1. QED
    BY <1>2, MaxExists
<1> DEFINE Deep == {i \in P : m[i].tvl = top}
<1>4. Deep \in SUBSET Nat /\ Deep # {}
  <2>1. PICK i \in P : top = m[i].tvl
    BY <1>3
  <2>2. QED
    BY <1>1, <2>1
<1>5. \A j \in P : m[j].tvl <= top /\ top \in Int
  <2> SUFFICES ASSUME NEW j \in P PROVE m[j].tvl <= top /\ top \in Int
    OBVIOUS
  <2>1. m[j].tvl \in depths
    OBVIOUS
  <2> HIDE DEF depths, top
  <2>2. QED
    BY <1>2, <1>3, <2>1
<1> HIDE DEF top
<1>6. PICK i \in Deep : \A j \in Deep : i <= j
  BY <1>4, NatMin
<1>7. Ahead(m, i) \cap P = {}
  <2> SUFFICES ASSUME NEW j \in P, j \in Ahead(m, i) PROVE FALSE
    OBVIOUS
  <2>1. i \in P /\ m[i].tvl = top /\ i \in Nat /\ j \in Nat /\ m[j].tvl \in Int /\ top \in Int
    BY <1>1, <1>5
  <2>2. m[j].tvl > top \/ (m[j].tvl = top /\ j < i)
    BY <2>1 DEF Ahead
  <2>3. m[j].tvl = top /\ j < i
    BY <1>5, <2>1, <2>2
  <2>4. i <= j
    BY <1>6, <2>3
  <2>5. QED
    BY <2>1, <2>3, <2>4
<1>8. QED
  BY <1>6, <1>7

\* A set of pools' closes.
Spread(m, P) == (UNION {Range(m[i].closes) : i \in P}) \ {Missing}

\* What lies between the means of two of some pools lies between their closes.
LEMMA SpreadWithin ==
  ASSUME NEW m, IsMarket(m), NEW P \in SUBSET DOMAIN m,
         \A i \in P : Mean(m[i].closes) > 0,
         NEW made \in Nat,
         \E i \in P : 2 * Mean(m[i].closes) <= made,
         \E j \in P : made <= 2 * Mean(m[j].closes)
  PROVE  2 * Min(Spread(m, P)) <= made /\ made <= 2 * Max(Spread(m, P))
<1>1. /\ IsFiniteSet(P)
      /\ \A i \in P : m[i].closes \in Seq(Nat \cup {Missing})
  BY PoolsTyped, FS_Subset
<1> DEFINE All == Spread(m, P)
<1>2. \A i \in P : \A k \in DOMAIN m[i].closes :
         m[i].closes[k] # Missing => m[i].closes[k] \in All /\ m[i].closes[k] \in Nat
  <2> SUFFICES ASSUME NEW i \in P, NEW k \in DOMAIN m[i].closes, m[i].closes[k] # Missing
               PROVE  m[i].closes[k] \in All /\ m[i].closes[k] \in Nat
    OBVIOUS
  <2>1. m[i].closes[k] \in Nat \cup {Missing}
    BY <1>1
  <2>2. m[i].closes[k] \in Range(m[i].closes)
    BY DEF Range
  <2>3. QED
    BY <2>1, <2>2 DEF Spread
<1>3. All \in SUBSET Nat
  <2> SUFFICES ASSUME NEW x \in All PROVE x \in Nat
    OBVIOUS
  <2>1. PICK i \in P : x \in Range(m[i].closes) /\ x # Missing
    BY DEF Spread
  <2>2. PICK k \in DOMAIN m[i].closes : x = m[i].closes[k]
    BY <2>1 DEF Range
  <2>3. QED
    BY <1>2, <2>1, <2>2
<1>4. IsFiniteSet(All)
  <2> DEFINE parts == [i \in P |-> Range(m[i].closes)]
             Parts == {parts[i] : i \in P}
  <2>1. IsFiniteSet(Parts)
    BY <1>1, ImageFinite
  <2>2. \A T \in Parts : IsFiniteSet(T)
    <3> SUFFICES ASSUME NEW i \in P PROVE IsFiniteSet(Range(m[i].closes))
      OBVIOUS
    <3> DEFINE c == m[i].closes
    <3>1. c \in Seq(Nat \cup {Missing})
      BY <1>1
    <3> HIDE DEF c
    <3>2. Len(c) \in Nat /\ DOMAIN c = 1 .. Len(c)
      BY <3>1
    <3>3. IsFiniteSet(1 .. Len(c))
      BY <3>2, FS_Interval
    <3>4. IsFiniteSet({c[k] : k \in DOMAIN c})
      BY <3>2, <3>3, ImageFinite
    <3>5. QED
      BY <3>4 DEF Range, c
  <2>3. IsFiniteSet(UNION Parts)
    <3> HIDE DEF Parts
    <3>1. QED
      BY <2>1, <2>2, FS_UNION
  <2>4. All \subseteq UNION Parts
    BY DEF Spread
  <2> HIDE DEF All, Parts
  <2>5. QED
    BY <2>3, <2>4, FS_Subset
<1>5. PICK i \in P : 2 * Mean(m[i].closes) <= made
  OBVIOUS
<1>6. PICK j \in P : made <= 2 * Mean(m[j].closes)
  OBVIOUS
<1>7. PICK k \in DOMAIN m[i].closes :
        m[i].closes[k] # Missing /\ m[i].closes[k] \in Nat /\ m[i].closes[k] <= Mean(m[i].closes)
  BY <1>1, CloseMean
<1>8. PICK l \in DOMAIN m[j].closes :
        m[j].closes[l] # Missing /\ m[j].closes[l] \in Nat /\ Mean(m[j].closes) <= m[j].closes[l]
  BY <1>1, CloseMean
<1>9. /\ Mean(m[i].closes) \in Nat /\ Mean(m[j].closes) \in Nat
      /\ m[i].closes[k] \in All /\ m[j].closes[l] \in All
  BY <1>1, <1>2, <1>7, <1>8, CloseMean
<1> HIDE DEF All
<1>10. Min(All) \in Nat /\ Min(All) <= m[i].closes[k]
  <2>1. \E x \in All : \A y \in All : x <= y
    BY <1>3, <1>9, NatMin
  <2>2. Min(All) \in All /\ \A y \in All : Min(All) <= y
    BY <2>1 DEF Min
  <2>3. QED
    BY <1>3, <1>9, <2>2
<1>11. Max(All) \in Nat /\ m[j].closes[l] <= Max(All)
  <2>1. \A x \in All : x \in Int
    BY <1>3
  <2>2. Max(All) \in All /\ \A y \in All : Max(All) >= y
    BY <1>4, <1>9, <2>1, MaxExists
  <2>3. QED
    BY <1>3, <1>8, <1>9, <2>2
<1>12. QED
  BY <1>5, <1>6, <1>7, <1>8, <1>9, <1>10, <1>11 DEF All

\* The price made of a market.
LEMMA PriceWithin ==
  ASSUME NEW m, IsMarket(m)
  PROVE  LET priced == Priced(m, MinTvl, TopPools)
             made   == TwapPrice(m, MinTvl, TopPools, Mode)
             within(P) == 2 * Min(Spread(m, P)) <= made /\ made <= 2 * Max(Spread(m, P))
         IN  /\ made \in Nat
             /\ priced # {} => within(priced)
             /\ Mode = "median" /\ Cardinality(priced) = 3 =>
                   \A i, j \in priced : i # j => within({i, j})
<1> DEFINE P == Priced(m, MinTvl, TopPools)
           made == TwapPrice(m, MinTvl, TopPools, Mode)
           f == [i \in P |-> Mean(m[i].closes)]
           first == CHOOSE i \in P : Ahead(m, i) \cap P = {}
<1>1. made = Combine(f, first, Mode)
  BY DEF TwapPrice
<1>2. P \in SUBSET DOMAIN m /\ \A i \in P : Mean(m[i].closes) > 0
  BY DEF Priced, Deepest
<1> HIDE DEF P, made
<1>3. \A i \in P : Mean(m[i].closes) \in Nat
  BY <1>2, PoolsTyped, CloseMean
<1>4. IsFiniteSet(P)
  BY <1>2, PoolsTyped, FS_Subset
<1>5. P # {} => first \in P
  <2> SUFFICES ASSUME P # {} PROVE first \in P
    OBVIOUS
  <2>1. \E i \in P : Ahead(m, i) \cap P = {}
    BY <1>2, FirstPriced
  <2>2. QED
    BY <2>1
<1>6. DOMAIN f = P /\ \A i \in P : f[i] = Mean(m[i].closes) /\ f[i] \in Nat
  BY <1>3
<1> HIDE DEF f, first
<1>7. /\ made \in Nat
      /\ P # {} => /\ \E i \in P : 2 * f[i] <= made
                   /\ \E j \in P : made <= 2 * f[j]
      /\ P # {} /\ Mode = "median" => made = Median2(f)
  BY <1>1, <1>4, <1>5, <1>6, CombineWithin
<1>8. ASSUME P # {}
      PROVE  2 * Min(Spread(m, P)) <= made /\ made <= 2 * Max(Spread(m, P))
  <2>1. /\ \E i \in P : 2 * Mean(m[i].closes) <= made
        /\ \E j \in P : made <= 2 * Mean(m[j].closes)
    BY <1>6, <1>7, <1>8
  <2>2. QED
    BY <1>2, <1>7, <2>1, SpreadWithin
<1>9. ASSUME Mode = "median", Cardinality(P) = 3, NEW i \in P, NEW j \in P, i # j
      PROVE  2 * Min(Spread(m, {i, j})) <= made /\ made <= 2 * Max(Spread(m, {i, j}))
  <2>1. made = Median2(f)
    BY <1>7, <1>9
  <2>2. /\ 2 * f[i] <= made \/ 2 * f[j] <= made
        /\ made <= 2 * f[i] \/ made <= 2 * f[j]
    BY <1>4, <1>6, <1>9, <2>1, MedianOfThree
  <2> DEFINE Q == {i, j}
  <2>3. /\ Q \in SUBSET DOMAIN m /\ \A k \in Q : Mean(m[k].closes) > 0
        /\ \E k \in Q : 2 * Mean(m[k].closes) <= made
        /\ \E k \in Q : made <= 2 * Mean(m[k].closes)
    BY <1>2, <1>6, <2>2
  <2> HIDE DEF Q
  <2>4. 2 * Min(Spread(m, Q)) <= made /\ made <= 2 * Max(Spread(m, Q))
    BY <1>7, <2>3, SpreadWithin
  <2>5. QED
    BY <2>4 DEF Q
<1>10. QED
  BY <1>7, <1>8, <1>9 DEF P, made

-----------------------------------------------------------------------------
(* The pipeline                                                            *)

(* Prices and valuations wait for the phase that reads them; between the   *)
(* report and the rates the buckets are those of the valuations.           *)
Waiting ==
    /\ market = <<>> \/ market \in Markets
    /\ price = <<>> \/ price \in [Assets -> Nat]
    /\ value # NoValue =>
          /\ report.stage = "made"
          /\ value \in [Assets -> Nat] /\ Valued(Order, value)
          /\ \E share \in Shares(Order, value, Pool, Fine) :
                report.bucket = [a \in Assets |-> Bucket(Order, share, Pool, a)]

LEMMA MarketTyped ==
  ASSUME market \in Markets, NEW a \in Assets
  PROVE  DOMAIN market = Assets /\ IsMarket(market[a])
<1> DEFINE S == Seq([tvl : Int, closes : Seq(Nat \cup {Missing})])
<1>1. market \in [Assets -> S]
  BY MergeAssumption
<1> HIDE DEF S
<1>2. DOMAIN market = Assets /\ market[a] \in S
  BY <1>1
<1>3. QED
  BY <1>2 DEF S, IsMarket

LEMMA PriceStep ==
  ASSUME Waiting, Price
  PROVE  UNCHANGED vars /\ Waiting'
<1>1. /\ market \in Markets /\ market' = <<>> /\ UNCHANGED <<value, report>> /\ UNCHANGED vars
  BY DEF Waiting, Price, vars
<1>2. \A a \in Assets : TwapPrice(market[a], MinTvl, TopPools, Mode) \in Nat
  <2> SUFFICES ASSUME NEW a \in Assets
               PROVE  TwapPrice(market[a], MinTvl, TopPools, Mode) \in Nat
    OBVIOUS
  <2>1. IsMarket(market[a])
    BY <1>1, MarketTyped
  <2>2. QED
    BY <2>1, PriceWithin
<1>3. price' = [a \in Assets |-> TwapPrice(market[a], MinTvl, TopPools, Mode)]
  BY DEF Price
<1>4. price' \in [Assets -> Nat]
  BY <1>2, <1>3
<1>5. QED
  BY <1>1, <1>4 DEF Waiting

\* What is counted of an asset covers what is burned of it.
LEMMA SupplyLeft ==
  ASSUME IInv, NEW a \in Assets
  PROVE  CountedSupply(a) - Burned[a] \in Nat
<1>1. CountedSupply(a) \in Nat /\ Burned[a] \in Nat
  BY CountedSupplyTyped, RedemptionAssumption DEF IInv
<1>2. CASE a \in Fungible
  <2>1. TokenUnit[a] \in Units \ Collectible
    BY <1>2, UnitTotals DEF IInv
  <2>2. CountedSupply(a) = Supply0[TokenUnit[a]] /\ Burned[a] <= Supply0[TokenUnit[a]]
    BY <1>2, <2>1, MergeAssumption DEF CountedSupply, Conserved, IInv
  <2>3. QED
    BY <1>1, <2>2
<1>3. CASE a \notin Fungible
  <2>1. Burned[a] = 0
    BY <1>3, MergeAssumption
  <2>2. QED
    BY <1>1, <2>1
<1>4. QED
  BY <1>2, <1>3

LEMMA ReportStep ==
  ASSUME IInv, Waiting, Report
  PROVE  (\E b \in BucketSplits : MergeReport(b)) /\ Waiting'
<1> DEFINE v == [a \in Assets |-> price[a] * (CountedSupply(a) - Burned[a])]
<1>0. PICK share \in Shares(Order, v, Pool, Fine) :
         MergeReport([a \in Assets |-> Bucket(Order, share, Pool, a)])
  BY DEF Report
<1> DEFINE b == [a \in Assets |-> Bucket(Order, share, Pool, a)]
<1>1. /\ price # <<>> /\ Valued(Order, v) /\ MergeReport(b)
      /\ value' = v /\ price' = <<>> /\ market' = market
  BY <1>0 DEF Report
<1>2. v \in [Assets -> Nat]
  <2>1. price \in [Assets -> Nat]
    BY <1>1 DEF Waiting
  <2>2. \A a \in Assets : price[a] * (CountedSupply(a) - Burned[a]) \in Nat
    <3> SUFFICES ASSUME NEW a \in Assets
                 PROVE  price[a] * (CountedSupply(a) - Burned[a]) \in Nat
      OBVIOUS
    <3>1. price[a] \in Nat /\ CountedSupply(a) - Burned[a] \in Nat
      BY <2>1, SupplyLeft
    <3>2. QED
      BY <3>1, ProductIsNat
  <2>3. QED
    BY <2>2
<1>3. report'.stage = "made" /\ report'.bucket = b
  BY <1>1 DEF MergeReport
<1>4. b \in BucketSplits
  <2> HIDE DEF v
  <2>1. b \in [Assets -> 0 .. Pool] /\ SumFunction(b) = Pool
    BY <1>0, <1>1, <1>2, BucketsSplit
  <2> HIDE DEF b
  <2>2. QED
    BY <2>1, MergeAssumption
<1> HIDE DEF v
<1>5. Waiting'
  <2>1. \E s \in Shares(Order, value', Pool, Fine) :
           report'.bucket = [a \in Assets |-> Bucket(Order, s, Pool, a)]
    BY <1>0, <1>1, <1>3
  <2>2. QED
    BY <1>1, <1>2, <1>3, <2>1 DEF Waiting
<1>6. QED
  BY <1>1, <1>4, <1>5

\* Of the redemption's other steps only the fixing of the rates touches the
\* report.
LEMMA RedeemingReport ==
  ASSUME Redeeming
  PROVE  report' = report \/ (report.stage = "made" /\ report' = [report EXCEPT !.stage = "priced"])
BY DEF Redeeming, PublishRates, Mint, Burn, LeaveReserve, JoinReserve, Donate, OpenSurrender,
       PinnedSurrender, Stop, ReadSupply, ReadQuarantine, WritePin, Deploy

LEMMA RedeemStep ==
  ASSUME IInv, Waiting, Redeem
  PROVE  Redeeming /\ Waiting'
<1>1. /\ Redeeming /\ UNCHANGED <<market, price>>
      /\ value' = IF report'.stage = "priced" THEN NoValue ELSE value
  BY DEF Redeem
<1>2. CASE report' = report
  BY <1>1, <1>2 DEF Waiting, NoValue
<1>3. CASE report' # report
  <2>1. report' = [report EXCEPT !.stage = "priced"]
    BY <1>1, <1>3, RedeemingReport
  <2>2. report'.stage = "priced"
    BY <2>1 DEF IInv, TypeOK
  <2>3. QED
    BY <1>1, <2>2 DEF Waiting, NoValue
<1>4. QED
  BY <1>1, <1>2, <1>3

\* The steps of the snapshot.
SnapshotStep ==
    \/ StartSnapshot
    \/ \E a, b \in DOMAIN holding.token : TransferToken(a, b)
    \/ \E n \in DOMAIN holding.nft, b \in DOMAIN holding.token : TransferNft(n, b)
    \/ AskHolders
    \/ AskNft
    \/ EndSnapshot

LEMMA SnapshotAside ==
  ASSUME SnapshotStep
  PROVE  UNCHANGED <<vars, market, price, value>>
<1>1. CASE StartSnapshot
  BY <1>1 DEF StartSnapshot
<1>2. CASE \E a, b \in DOMAIN holding.token : TransferToken(a, b)
  BY <1>2 DEF TransferToken, Move
<1>3. CASE \E n \in DOMAIN holding.nft, b \in DOMAIN holding.token : TransferNft(n, b)
  BY <1>3 DEF TransferNft, Move
<1>4. CASE AskHolders
  BY <1>4 DEF AskHolders
<1>5. CASE AskNft
  BY <1>5 DEF AskNft
<1>6. CASE EndSnapshot
  BY <1>6 DEF EndSnapshot
<1>7. QED
  BY <1>1, <1>2, <1>3, <1>4, <1>5, <1>6 DEF SnapshotStep

LEMMA MergeInitRedeems ==
  MergeInit => Init /\ IInv /\ Waiting
<1> SUFFICES ASSUME MergeInit PROVE Init /\ IInv /\ Waiting
  OBVIOUS
<1>1. IInv
  BY InitIInv DEF MergeInit
<1>2. QED
  BY <1>1 DEF MergeInit, Waiting

LEMMA MergeStepRedeems ==
  IInv /\ Waiting /\ [MergeNext]_allVars => [Next]_vars /\ IInv' /\ Waiting'
<1> SUFFICES ASSUME IInv, Waiting, [MergeNext]_allVars
             PROVE  [Next]_vars /\ IInv' /\ Waiting'
  OBVIOUS
<1>1. [Next]_vars /\ Waiting'
  <2>1. CASE Price
    BY <2>1, PriceStep
  <2>2. CASE Report
    BY <2>2, ReportStep DEF Next
  <2>3. CASE Redeem
    BY <2>3, RedeemStep DEF Next
  <2>4. CASE SnapshotStep
    <3>1. UNCHANGED <<vars, market, price, value>> /\ UNCHANGED report
      BY <2>4, SnapshotAside DEF vars
    <3>2. QED
      BY <3>1 DEF Waiting, NoValue
  <2>5. CASE UNCHANGED allVars
    <3>1. UNCHANGED <<vars, market, price, value>> /\ UNCHANGED report
      BY <2>5 DEF allVars, mergeVars, vars
    <3>2. QED
      BY <3>1 DEF Waiting, NoValue
  <2>6. QED
    BY <2>1, <2>2, <2>3, <2>4, <2>5 DEF MergeNext, SnapshotStep
<1>2. IInv'
  BY <1>1, StepIInv
<1>3. QED
  BY <1>1, <1>2

LEMMA MergeInductive == MergeSpec => [](IInv /\ Waiting)
BY MergeInitRedeems, MergeStepRedeems, PTL DEF MergeSpec

\* Whatever the prices, the supplies counted and the order of the assets, the
\* pipeline does what the redemption promises: its report is one of the splits
\* of the pool into buckets that are not negative, and the snapshot of the
\* holders disturbs nothing (_run_full_pipeline.py).
THEOREM PipelineImplements == MergeSpec => PipelineRedeems
<1>1. MergeInit => Init
  BY DEF MergeInit
<1>2. IInv /\ Waiting /\ [MergeNext]_allVars => [Next]_vars
  BY MergeStepRedeems
<1>3. QED
  BY <1>1, <1>2, MergeInductive, PTL DEF MergeSpec, Spec, PipelineRedeems

\* Every bucket is its share of the pool rounded down, off by no more of a unit
\* than floating point can be, and the last asset's is off by less than one
\* unit for each asset, for any valuation of any number of assets
\* (compute_integer_buckets).
THEOREM BucketsFair == MergeSpec => []FairBuckets
<1>1. ASSUME IInv, Waiting PROVE FairBuckets
  <2> SUFFICES ASSUME value # NoValue,
                      NEW a \in Assets
               PROVE  LET all == SumFunction(value)
                          off == report.bucket[a] * all - value[a] * Pool
                      IN  IF a = Order[Len(Order)]
                          THEN off > -all /\ off < all * Len(Order)
                          ELSE off <= value[a] /\ off > -(all + value[a])
    BY DEF FairBuckets
  <2> DEFINE v == value
             b == report.bucket
  <2>1. PICK share \in Shares(Order, v, Pool, Fine) :
           b = [c \in Assets |-> Bucket(Order, share, Pool, c)]
    BY <1>1 DEF Waiting
  <2>0. v \in [Assets -> Nat] /\ Valued(Order, v)
    BY <1>1 DEF Waiting
  <2> HIDE DEF v, b
  <2>2. LET off == b[a] * SumFunction(v) - v[a] * Pool
        IN  IF a = LastAsset
            THEN off > - SumFunction(v) /\ off < SumFunction(v) * Len(Order)
            ELSE off <= v[a] /\ off > -(SumFunction(v) + v[a])
    BY <2>0, <2>1, BucketsSplit
  <2>3. QED
    BY <2>2 DEF v, b, LastAsset
<1>2. QED
  BY <1>1, MergeInductive, PTL

\* A price lies between the closes it comes from, and the median of three priced
\* pools between those of any two of them: one pool alone cannot set it
\* (compute_twap, combine_twaps).
THEOREM PricesHold == MergeSpec => []PriceHolds
<1>1. ASSUME Waiting PROVE PriceHolds
  <2>1. CASE market = <<>>
    BY <2>1 DEF PriceHolds
  <2>2. CASE market \in Markets
    <3> SUFFICES ASSUME NEW a \in DOMAIN market
                 PROVE  LET priced == Priced(market[a], MinTvl, TopPools)
                            made   == TwapPrice(market[a], MinTvl, TopPools, Mode)
                            within(P) == /\ 2 * Min(Spread(market[a], P)) <= made
                                         /\ made <= 2 * Max(Spread(market[a], P))
                        IN  /\ priced # {} => within(priced)
                            /\ Mode = "median" /\ Cardinality(priced) = 3 =>
                                  \A i, j \in priced : i # j => within({i, j})
      BY DEF PriceHolds, Spread
    <3>1. a \in Assets /\ IsMarket(market[a])
      <4>1. DOMAIN market = Assets
        BY <2>2, MergeAssumption
      <4>2. QED
        BY <2>2, <4>1, MarketTyped
    <3>2. QED
      BY <3>1, PriceWithin
  <2>3. QED
    BY <1>1, <2>1, <2>2 DEF Waiting
<1>2. QED
  BY <1>1, MergeInductive, PTL

-----------------------------------------------------------------------------
(* The holders                                                             *)

Row == [addr : Addrs, qty : Nat]

\* The rows are the holders: each of them once, with what it holds.
Lists(rows, token) ==
    /\ rows \in Seq(Row) /\ token \in [Addrs -> Nat]
    /\ \A k \in DOMAIN rows : rows[k].qty = token[rows[k].addr] /\ rows[k].qty > 0
    /\ \A j, k \in DOMAIN rows : rows[j].addr = rows[k].addr => j = k
    /\ \A a \in Addrs : token[a] > 0 => \E k \in DOMAIN rows : rows[k].addr = a

LEMMA HoldersTyped ==
  /\ Len(Holders) \in Nat /\ DOMAIN Holders = 1 .. Len(Holders)
  /\ \A i \in DOMAIN Holders : Holders[i] \in Addrs
  /\ \A a \in Addrs : \E i \in DOMAIN Holders : Holders[i] = a
  /\ \A i, j \in DOMAIN Holders : Holders[i] = Holders[j] => i = j
  /\ IsFiniteSet(Addrs)
<1>1. /\ Len(Holders) \in Nat /\ DOMAIN Holders = 1 .. Len(Holders)
      /\ \A i, j \in DOMAIN Holders : Holders[i] = Holders[j] => i = j
  BY MergeAssumption DEF IsInjective
<1>2. Addrs = {Holders[i] : i \in DOMAIN Holders}
  BY DEF Addrs, Range
<1>3. IsFiniteSet(1 .. Len(Holders))
  BY <1>1, FS_Interval
<1>4. IsFiniteSet({Holders[i] : i \in DOMAIN Holders})
  BY <1>1, <1>3, ImageFinite
<1>5. QED
  BY <1>1, <1>2, <1>4

LEMMA RowsListed ==
  ASSUME NEW token \in [Addrs -> Nat]
  PROVE  Lists(HolderRows(token), token)
<1> DEFINE held == {i \in DOMAIN Holders : token[Holders[i]] > 0}
           n == Cardinality(held)
           To(i) == {j \in held : j <= i}
           at == [k \in 1 .. n |-> Nth(held, k)]
           rows == [k \in 1 .. n |-> [addr |-> Holders[at[k]], qty |-> token[Holders[at[k]]]]]
<1>1. rows = HolderRows(token)
  BY DEF HolderRows
<1>2. held \in SUBSET Nat /\ IsFiniteSet(held)
  <2>1. held \subseteq 1 .. Len(Holders) /\ Len(Holders) \in Nat
    BY HoldersTyped
  <2> HIDE DEF held
  <2>2. IsFiniteSet(held)
    <3>1. IsFiniteSet(1 .. Len(Holders))
      BY <2>1, FS_Interval
    <3>2. QED
      BY <2>1, <3>1, FS_Subset
  <2>3. \A i \in held : i \in Nat
    BY <2>1
  <2>4. QED
    BY <2>2, <2>3
<1>3. /\ n \in Nat
      /\ \A i \in held : Cardinality(To(i)) \in 1 .. n
      /\ \A i, k \in held : Cardinality(To(i)) = Cardinality(To(k)) => i = k
      /\ \A k \in 1 .. n : \E i \in held : Cardinality(To(i)) = k
  <2> HIDE DEF held
  <2>1. QED
    BY <1>2, CountedUp
<1>4. \A k \in 1 .. n : at[k] \in held /\ Cardinality(To(at[k])) = k
  <2> HIDE DEF held
  <2> SUFFICES ASSUME NEW k \in 1 .. n PROVE at[k] \in held /\ Cardinality(To(at[k])) = k
    OBVIOUS
  <2>1. \E i \in held : Cardinality(To(i)) = k
    BY <1>3
  <2>2. at[k] = CHOOSE i \in held : Cardinality(To(i)) = k
    BY DEF Nth
  <2> HIDE DEF at
  <2>3. QED
    BY <2>1, <2>2
<1>5. \A i \in held : \E k \in 1 .. n : at[k] = i
  <2> HIDE DEF held, at, To
  <2>1. QED
    BY <1>3, <1>4
<1>6. \A j, k \in 1 .. n : at[j] = at[k] => j = k
  <2> HIDE DEF held, at, To, n
  <2>1. QED
    BY <1>4
<1>7. \A k \in 1 .. n : /\ at[k] \in DOMAIN Holders /\ Holders[at[k]] \in Addrs
                        /\ token[Holders[at[k]]] \in Nat /\ token[Holders[at[k]]] > 0
  <2> HIDE DEF at
  <2>1. QED
    BY <1>4, HoldersTyped
<1>8. \A k \in 1 .. n : rows[k].addr = Holders[at[k]] /\ rows[k].qty = token[Holders[at[k]]]
  <2> HIDE DEF at, n, held
  <2>1. QED
    OBVIOUS
<1>9. rows \in Seq(Row) /\ DOMAIN rows = 1 .. n
  <2> HIDE DEF at, n, held
  <2>1. \A k \in 1 .. n : [addr |-> Holders[at[k]], qty |-> token[Holders[at[k]]]] \in Row
    BY <1>7 DEF Row
  <2>2. QED
    BY <1>3, <2>1
<1>10. \A a \in Addrs : token[a] > 0 => \E k \in 1 .. n : Holders[at[k]] = a
  <2> SUFFICES ASSUME NEW a \in Addrs, token[a] > 0
               PROVE  \E k \in 1 .. n : Holders[at[k]] = a
    OBVIOUS
  <2>1. PICK i \in DOMAIN Holders : Holders[i] = a
    BY HoldersTyped
  <2>2. i \in held
    BY <2>1
  <2> HIDE DEF at, n, held
  <2>3. QED
    BY <1>5, <2>1, <2>2
<1> HIDE DEF rows, at, n, held
<1>11. \A j, k \in DOMAIN rows : rows[j].addr = rows[k].addr => j = k
  BY <1>6, <1>7, <1>8, <1>9, HoldersTyped
<1>12. /\ \A k \in DOMAIN rows : rows[k].qty = token[rows[k].addr] /\ rows[k].qty > 0
       /\ \A a \in Addrs : token[a] > 0 => \E k \in DOMAIN rows : rows[k].addr = a
  BY <1>7, <1>8, <1>9, <1>10
<1>13. QED
  BY <1>1, <1>9, <1>11, <1>12 DEF Lists

\* The rows of some addresses add up to what those hold.
LEMMA RowSums ==
  ASSUME NEW rows, NEW token, Lists(rows, token), NEW X
  PROVE  LET D == {k \in DOMAIN rows : rows[k].addr \in X}
         IN  /\ IsFiniteSet(D) /\ IsFiniteSet(Addrs \cap X)
             /\ \A k \in D : rows[k].qty \in Nat
             /\ SumFunctionOnSet([k \in D |-> rows[k].qty], D)
                   = SumFunctionOnSet(token, Addrs \cap X)
<1> DEFINE D == {k \in DOMAIN rows : rows[k].addr \in X}
           R == {a \in Addrs \cap X : token[a] > 0}
           Z == (Addrs \cap X) \ R
           f == [k \in D |-> rows[k].qty]
           h == [k \in D |-> rows[k].addr]
           back == [a \in R |-> CHOOSE k \in D : rows[k].addr = a]
<1>1. /\ \A k \in DOMAIN rows : rows[k].addr \in Addrs /\ rows[k].qty \in Nat
      /\ Len(rows) \in Nat /\ DOMAIN rows = 1 .. Len(rows)
  <2>1. rows \in Seq(Row)
    BY DEF Lists
  <2>2. \A k \in DOMAIN rows : rows[k] \in Row
    BY <2>1
  <2>3. QED
    BY <2>1, <2>2 DEF Row
<1>2. IsFiniteSet(D)
  <2>1. IsFiniteSet(DOMAIN rows)
    BY <1>1, FS_Interval
  <2>2. QED
    BY <2>1, FS_Subset
<1>3. \A a \in Addrs : token[a] \in Nat
  BY DEF Lists
<1>4. IsFiniteSet(R) /\ IsFiniteSet(Z) /\ IsFiniteSet(Addrs \cap X)
  BY HoldersTyped, FS_Subset
<1>5. \A k \in D : /\ h[k] \in R /\ f[k] \in Nat /\ f[k] = token[h[k]]
  BY <1>1 DEF Lists
<1>6. \A a \in R : back[a] \in D /\ h[back[a]] = a
  <2> SUFFICES ASSUME NEW a \in R PROVE back[a] \in D /\ h[back[a]] = a
    OBVIOUS
  <2>1. \E k \in D : rows[k].addr = a
    BY DEF Lists
  <2>2. back[a] \in D /\ rows[back[a]].addr = a
    BY <2>1
  <2>3. QED
    BY <2>2
<1>7. \A k \in D : back[h[k]] = k
  <2> SUFFICES ASSUME NEW k \in D PROVE back[h[k]] = k
    OBVIOUS
  <2>1. h[k] \in R /\ h[k] = rows[k].addr
    BY <1>5
  <2>2. back[h[k]] \in D /\ h[back[h[k]]] = h[k]
    BY <1>6, <2>1
  <2>3. rows[back[h[k]]].addr = h[back[h[k]]]
    BY <2>2
  <2>4. \A i, j \in D : rows[i].addr = rows[j].addr => i = j
    BY DEF Lists
  <2> HIDE DEF back, h
  <2>5. QED
    BY <2>1, <2>2, <2>3, <2>4
<1> HIDE DEF back, h, f
<1>8. SumFunctionOnSet(f, D) = SumFunctionOnSet(token, R)
  <2>1. \A k \in D : h[k] \in R /\ back[h[k]] = k /\ f[k] \in Nat /\ f[k] = token[h[k]]
    BY <1>5, <1>7
  <2>2. \A a \in R : back[a] \in D /\ h[back[a]] = a
    BY <1>6
  <2>3. IsFiniteSet(D) /\ IsFiniteSet(R)
    BY <1>2, <1>4
  <2> HIDE DEF D, R, Z
  <2>4. QED
    BY <2>1, <2>2, <2>3, SumRename
<1>9. SumFunctionOnSet(token, Z) = 0
  <2>1. \A a \in Z : token[a] = 0
    BY <1>3
  <2> HIDE DEF Z
  <2>2. QED
    BY <1>4, <2>1, SumZero
<1>10. SumFunctionOnSet(token, Addrs \cap X) = SumFunctionOnSet(token, R) + SumFunctionOnSet(token, Z)
  <2>1. R \cap Z = {} /\ Addrs \cap X = R \cup Z /\ \A a \in R \cup Z : token[a] \in Int
    BY <1>3
  <2> HIDE DEF R, Z
  <2>2. SumFunctionOnSet(token, R \cup Z) = SumFunctionOnSet(token, R) + SumFunctionOnSet(token, Z)
    BY <1>4, <2>1, SumUnion
  <2>3. QED
    BY <2>1, <2>2
<1>11. SumFunctionOnSet(token, R) \in Nat
  BY <1>3, <1>4, SumNat
<1> HIDE DEF R, Z
<1>12. SumFunctionOnSet(f, D) = SumFunctionOnSet(token, Addrs \cap X)
  BY <1>8, <1>9, <1>10, <1>11
<1>13. QED
  BY <1>1, <1>2, <1>4, <1>12 DEF f

-----------------------------------------------------------------------------
(* The snapshot                                                            *)

NftRow == [addr : Addrs \cup Range(Resolvable), qty : Nat \ {0}]

ListingRecord == [page : Nat \ {0}, rows : Seq(Row), tries : Nat,
                  status : {"asking", "done", "failed"}]

SnapRecord == [stage : {"idle", "listing", "nfts", "done", "failed"},
               listing : ListingRecord, nftRows : Seq(NftRow),
               unresolved : Nat, asked : Nat, moves : Nat]

HoldingRecord == [token : [Addrs -> Nat], nft : [Range(Nfts) -> Addrs]]

\* The pages that have been read are the first of the list, and all of it once
\* the listing is done.
Read(l, list) ==
    \/ /\ l.status = "asking"
       /\ (l.page - 1) * PageSize <= Len(list)
       /\ l.rows = SubSeq(list, 1, (l.page - 1) * PageSize)
    \/ /\ l.status = "done"
       /\ l.rows = list
    \/ l.status = "failed"

\* Each owner has one row.
Once(rows) == \A i, j \in DOMAIN rows : rows[i].addr = rows[j].addr => i = j

(* With nobody trading, what has been listed is what is held; every NFT    *)
(* asked about is in its owner's row or counted.                           *)
Snapped(s, h) ==
    /\ s \in SnapRecord
    /\ s.stage # "idle" => h \in HoldingRecord
    /\ s.stage = "listing" =>
          s.listing.status = "asking" /\ s.nftRows = <<>> /\ s.unresolved = 0 /\ s.asked = 0
    /\ s.stage \in {"nfts", "done"} => s.listing.status = "done"
    /\ s.stage # "idle" /\ s.moves = 0 => Read(s.listing, HolderRows(h.token))
    /\ s.stage \in {"nfts", "done"} =>
          Once(s.nftRows) /\ Quantity(s.nftRows) + s.unresolved = s.asked
    /\ s.stage = "nfts" => s.asked < Len(Nfts)
    /\ s.stage = "done" => s.asked = Len(Nfts)

LEMMA RowsTyped ==
  ASSUME NEW h \in HoldingRecord
  PROVE  /\ h.token \in [Addrs -> Nat] /\ h.nft \in [Range(Nfts) -> Addrs]
         /\ HolderRows(h.token) \in Seq(Row)
<1>1. h.token \in [Addrs -> Nat] /\ h.nft \in [Range(Nfts) -> Addrs]
  BY DEF HoldingRecord
<1>2. QED
  BY <1>1, RowsListed DEF Lists

\* A page of a list, and where it ends.
LEMMA PageTyped ==
  ASSUME NEW list \in Seq(Row), NEW n \in Nat \ {0}
  PROVE  PageOf(list, n) \in Seq(Row)
<1> DEFINE from == (n - 1) * PageSize + 1
           to == IF n * PageSize < Len(list) THEN n * PageSize ELSE Len(list)
<1>1. (n - 1) * PageSize \in Nat /\ n * PageSize \in Nat
  BY BlockfrostAssumption, ProductIsNat
<1>2. from \in Nat /\ from >= 1 /\ to \in Nat /\ to <= Len(list)
  BY <1>1
<1>3. \A i \in from .. to : list[i] \in Row
  BY <1>2
<1>4. PageOf(list, n) = SubSeq(list, from, to)
  BY DEF PageOf
<1> HIDE DEF from, to
<1>5. QED
  BY <1>2, <1>3, <1>4, SubSeqProperties

\* An answer adds the next page, and a short one ends the listing.
LEMMA PageAnswered ==
  ASSUME NEW l \in ListingRecord, NEW list \in Seq(Row),
         l.status = "asking", Read(l, list),
         NEW m, m = Answered(l, PageOf(list, l.page))
  PROVE  Read(m, list)
<1> DEFINE page == l.page
           read == (page - 1) * PageSize
           next == page * PageSize
           to == IF next < Len(list) THEN next ELSE Len(list)
           batch == SubSeq(list, read + 1, to)
<1>1. /\ page \in Nat \ {0} /\ l.rows = SubSeq(list, 1, read) /\ read <= Len(list)
      /\ PageSize \in Nat \ {0}
  BY BlockfrostAssumption DEF ListingRecord, Read
<1>2. /\ read \in Nat /\ next \in Nat /\ next = read + PageSize
  <2>1. PICK p \in Nat : p = page - 1
    BY <1>1
  <2>2. p * PageSize \in Nat /\ page = p + 1
    BY <1>1, <2>1, ProductIsNat
  <2>3. (p + 1) * PageSize = p * PageSize + 1 * PageSize
    BY <1>1, SumOfProducts
  <2>4. 1 * PageSize = PageSize
    BY <1>1
  <2> HIDE DEF page
  <2>5. QED
    BY <1>1, <2>1, <2>2, <2>3, <2>4
<1>3. PageOf(list, l.page) = batch
  BY DEF PageOf
<1> HIDE DEF read, next, page
<1>4. Len(list) \in Nat /\ to \in Nat /\ read <= to /\ to <= Len(list)
  BY <1>1, <1>2
<1>5. Len(batch) = to - read
  <2>1. \A i \in read + 1 .. to : list[i] \in Row
    BY <1>2, <1>4
  <2>2. Len(batch) = IF read + 1 <= to THEN to - (read + 1) + 1 ELSE 0
    BY <1>2, <1>4, <2>1, SubSeqProperties
  <2> HIDE DEF batch, to
  <2>3. QED
    BY <1>2, <1>4, <2>2
<1>6. l.rows \o batch = SubSeq(list, 1, to)
  <2>1. 1 \in 1 .. Len(list) + 1 /\ read \in 1 - 1 .. Len(list) /\ to \in read .. Len(list)
    BY <1>1, <1>2, <1>4
  <2> HIDE DEF to
  <2>2. SubSeq(list, 1, read) \o SubSeq(list, read + 1, to) = SubSeq(list, 1, to)
    BY <2>1, ConcatAdjacentSubSeq
  <2>3. QED
    BY <1>1, <2>2
<1>7. /\ m.rows = l.rows \o batch
      /\ m.page = IF Len(batch) < PageSize THEN page ELSE page + 1
      /\ m.status = IF Len(batch) < PageSize THEN "done" ELSE "asking"
  <2> HIDE DEF batch
  <2>1. QED
    BY <1>3 DEF Answered, ListingRecord, page
<1>8. CASE Len(batch) < PageSize
  <2>1. to = Len(list)
    <3> HIDE DEF batch
    <3>1. CASE next < Len(list)
      <4>1. to = next
        BY <3>1
      <4> HIDE DEF to
      <4>2. QED
        BY <1>1, <1>2, <1>4, <1>5, <1>8, <4>1
    <3>2. QED
      BY <3>1
  <2>2. SubSeq(list, 1, Len(list)) = list
    BY SubSeqFull
  <2> HIDE DEF to, batch
  <2>3. QED
    BY <1>6, <1>7, <1>8, <2>1, <2>2 DEF Read
<1>9. CASE ~ (Len(batch) < PageSize)
  <2>1. to = next
    BY <1>1, <1>2, <1>4, <1>5, <1>9
  <2>2. (m.page - 1) * PageSize = next
    BY <1>1, <1>7, <1>9 DEF next
  <2> HIDE DEF to, batch
  <2>3. QED
    BY <1>4, <1>6, <1>7, <1>9, <2>1, <2>2 DEF Read
<1>10. QED
  BY <1>8, <1>9

LEMMA AnswersTyped ==
  ASSUME NEW l \in ListingRecord, NEW batch \in Seq(Row)
  PROVE  /\ Answered(l, batch) \in ListingRecord
         /\ Refused(l) \in ListingRecord /\ Broken(l) \in ListingRecord
<1>1. l.rows \o batch \in Seq(Row) /\ l.page + 1 \in Nat \ {0}
  BY DEF ListingRecord
<1>2. Answered(l, batch) \in ListingRecord
  BY <1>1 DEF ListingRecord, Answered
<1>3. Refused(l) \in ListingRecord /\ Broken(l) \in ListingRecord
  BY DEF ListingRecord, Refused, Broken
<1>4. QED
  BY <1>2, <1>3

\* Before the first NFT there are no rows.
LEMMA NoRows == Once(<<>>) /\ Quantity(<<>>) = 0
<1> DEFINE f == [i \in DOMAIN <<>> |-> <<>>[i].qty]
<1>1. DOMAIN <<>> = {} /\ DOMAIN f = {}
  OBVIOUS
<1>2. Quantity(<<>>) = SumFunctionOnSet(f, {})
  BY <1>1 DEF Quantity, SumFunction
<1>3. QED
  BY <1>1, <1>2, SumEmpty DEF Once

LEMMA AskHoldersStep ==
  ASSUME NEW s, NEW h, Snapped(s, h), s.stage = "listing",
         NEW l \in {Answered(s.listing, PageOf(HolderRows(h.token), s.listing.page)),
                    Refused(s.listing), Broken(s.listing)},
         NEW t, t = [s EXCEPT !.listing = l,
                              !.stage = CASE l.status = "asking" -> "listing"
                                          [] l.status = "done"   -> "nfts"
                                          [] l.status = "failed" -> "failed"]
  PROVE  Snapped(t, h)
<1> DEFINE list == HolderRows(h.token)
           k == s.listing
<1>1. /\ s \in SnapRecord /\ h \in HoldingRecord /\ k \in ListingRecord
      /\ k.status = "asking" /\ k.page \in Nat \ {0}
      /\ s.nftRows = <<>> /\ s.unresolved = 0 /\ s.asked = 0 /\ s.moves \in Nat
      /\ s.moves = 0 => Read(k, list)
  BY DEF Snapped, SnapRecord, ListingRecord
<1>2. list \in Seq(Row)
  BY <1>1, RowsTyped
<1> HIDE DEF list, k
<1>3. PageOf(list, k.page) \in Seq(Row)
  BY <1>1, <1>2, PageTyped
<1>4. l \in {Answered(k, PageOf(list, k.page)), Refused(k), Broken(k)}
  BY DEF k, list
<1>5. l \in ListingRecord /\ l.status \in {"asking", "done", "failed"}
  <2>1. l \in ListingRecord
    BY <1>1, <1>3, <1>4, AnswersTyped
  <2>2. QED
    BY <2>1 DEF ListingRecord
<1>6. s.moves = 0 => Read(l, list)
  <2> SUFFICES ASSUME s.moves = 0 PROVE Read(l, list)
    OBVIOUS
  <2>1. CASE l = Answered(k, PageOf(list, k.page))
    BY <1>1, <1>2, <2>1, PageAnswered
  <2>2. CASE l = Refused(k)
    <3>1. /\ Refused(k).status = "failed"
          \/ /\ Refused(k).status = k.status /\ Refused(k).page = k.page
             /\ Refused(k).rows = k.rows
      BY <1>1 DEF Refused, ListingRecord
    <3>2. QED
      BY <1>1, <2>2, <3>1 DEF Read
  <2>3. CASE l = Broken(k)
    <3>1. Broken(k).status = "failed"
      BY <1>1 DEF Broken, ListingRecord
    <3>2. QED
      BY <2>3, <3>1 DEF Read
  <2>4. QED
    BY <1>4, <2>1, <2>2, <2>3
<1>7. /\ t \in SnapRecord /\ t.listing = l /\ t.nftRows = <<>> /\ t.unresolved = 0
      /\ t.asked = 0 /\ t.moves = s.moves
      /\ t.stage \in {"listing", "nfts", "failed"}
      /\ t.stage = "listing" <=> l.status = "asking"
      /\ t.stage = "nfts" <=> l.status = "done"
  <2>1. PICK g \in {"listing", "nfts", "failed"} :
          /\ g = CASE l.status = "asking" -> "listing"
                   [] l.status = "done"   -> "nfts"
                   [] l.status = "failed" -> "failed"
          /\ g = "listing" <=> l.status = "asking"
          /\ g = "nfts" <=> l.status = "done"
    BY <1>5
  <2>2. t = [s EXCEPT !.listing = l, !.stage = g]
    BY <2>1
  <2>3. QED
    BY <1>1, <1>5, <2>1, <2>2 DEF SnapRecord
<1>8. Len(Nfts) \in Nat /\ 0 < Len(Nfts)
  BY MergeAssumption
<1>9. t.stage \in {"nfts", "done"} =>
         /\ t.stage = "nfts" /\ t.listing.status = "done"
         /\ Once(t.nftRows) /\ Quantity(t.nftRows) + t.unresolved = t.asked
  <2>1. Once(t.nftRows) /\ Quantity(t.nftRows) = 0 /\ t.unresolved = 0 /\ t.asked = 0
    <3>1. t.nftRows = <<>>
      BY <1>7
    <3>2. Once(t.nftRows) /\ Quantity(t.nftRows) = 0
      BY <3>1, NoRows
    <3>3. QED
      BY <1>7, <3>2
  <2>2. t.stage \in {"nfts", "done"} => t.stage = "nfts"
    BY <1>7
  <2>3. t.stage = "nfts" => t.listing.status = "done"
    BY <1>7
  <2>4. Once(t.nftRows) /\ Quantity(t.nftRows) + t.unresolved = t.asked
    BY <2>1
  <2>5. QED
    BY <2>2, <2>3, <2>4
<1>10. t.moves = 0 => Read(t.listing, HolderRows(h.token))
  BY <1>6, <1>7 DEF list
<1>11. QED
  BY <1>1, <1>7, <1>8, <1>9, <1>10 DEF Snapped

LEMMA NoSnapTyped ==
  /\ NoSnap \in SnapRecord /\ NoSnap.stage = "idle" /\ NoSnap.moves = 0
  /\ NoSnap.listing = Listing /\ NoSnap.nftRows = <<>> /\ NoSnap.unresolved = 0 /\ NoSnap.asked = 0
<1>1. <<>> \in Seq(Row) /\ <<>> \in Seq(NftRow)
  BY EmptySeq
<1>2. Listing \in ListingRecord
  BY <1>1 DEF Listing, ListingRecord
<1>3. QED
  BY <1>1, <1>2 DEF NoSnap, SnapRecord

LEMMA NotSnapping ==
  ASSUME NEW h
  PROVE  Snapped(NoSnap, h)
BY NoSnapTyped DEF Snapped

LEMMA StartStep ==
  ASSUME NEW h \in Holdings, NEW t, t = [NoSnap EXCEPT !.stage = "listing"]
  PROVE  Snapped(t, h)
<1>1. h \in HoldingRecord
  BY MergeAssumption DEF HoldingRecord
<1>2. /\ t \in SnapRecord /\ t.stage = "listing" /\ t.listing = Listing
      /\ t.nftRows = <<>> /\ t.unresolved = 0 /\ t.asked = 0
  BY NoSnapTyped DEF SnapRecord
<1>3. Read(Listing, HolderRows(h.token))
  <2> DEFINE list == HolderRows(h.token)
  <2>1. list \in Seq(Row)
    BY <1>1, RowsTyped
  <2> HIDE DEF list
  <2>2. (1 - 1) * PageSize = 0 /\ Len(list) \in Nat
    BY <2>1, BlockfrostAssumption
  <2>3. SubSeq(list, 1, 0) = <<>>
    BY SubSeqEmpty
  <2>4. Listing.status = "asking" /\ Listing.page = 1 /\ Listing.rows = <<>>
    BY DEF Listing
  <2>5. Read(Listing, list)
    BY <2>2, <2>3, <2>4 DEF Read
  <2>6. QED
    BY <2>5 DEF list
<1>4. Listing.status = "asking"
  BY DEF Listing
<1>5. QED
  BY <1>1, <1>2, <1>3, <1>4 DEF Snapped

LEMMA MovedStep ==
  ASSUME NEW s, NEW h, Snapped(s, h), s.stage \in {"listing", "nfts"},
         NEW g \in HoldingRecord, NEW t, t = [s EXCEPT !.moves = @ + 1]
  PROVE  Snapped(t, g)
<1>1. s \in SnapRecord
  BY DEF Snapped
<1>2. s.moves \in Nat /\ s.moves + 1 \in Nat
  BY <1>1 DEF SnapRecord
<1>3. /\ t \in SnapRecord /\ t.stage = s.stage /\ t.listing = s.listing
      /\ t.nftRows = s.nftRows /\ t.unresolved = s.unresolved /\ t.asked = s.asked
      /\ t.moves = s.moves + 1 /\ t.moves # 0
  BY <1>1, <1>2 DEF SnapRecord
<1>4. QED
  BY <1>3 DEF Snapped

\* One more NFT is in a row or counted.
LEMMA NftCounted ==
  ASSUME NEW s, NEW h, Snapped(s, h), s.stage = "nfts",
         NEW r \in Seq(NftRow), Once(r), NEW u \in Nat, Quantity(r) + u = s.asked + 1,
         NEW e \in {"nfts", "done"}, e = "done" <=> s.asked + 1 = Len(Nfts),
         NEW t, t = [s EXCEPT !.nftRows = r, !.unresolved = u, !.asked = s.asked + 1, !.stage = e]
  PROVE  Snapped(t, h)
<1>1. /\ s \in SnapRecord /\ s.asked \in Nat /\ s.asked < Len(Nfts)
      /\ s.listing.status = "done" /\ h \in HoldingRecord
      /\ (s.moves = 0 => Read(s.listing, HolderRows(h.token)))
  BY DEF Snapped, SnapRecord
<1>2. /\ t.stage = e /\ t.listing = s.listing /\ t.moves = s.moves
      /\ t.nftRows = r /\ t.unresolved = u /\ t.asked = s.asked + 1
  BY <1>1 DEF SnapRecord
<1>3. t \in SnapRecord
  <2>1. s.listing \in ListingRecord /\ s.moves \in Nat /\ s.asked + 1 \in Nat
    BY <1>1 DEF SnapRecord
  <2>2. t = [stage |-> e, listing |-> s.listing, nftRows |-> r, unresolved |-> u,
             asked |-> s.asked + 1, moves |-> s.moves]
    BY <1>1 DEF SnapRecord
  <2>3. QED
    BY <2>1, <2>2 DEF SnapRecord
<1>4. Once(t.nftRows) /\ Quantity(t.nftRows) + t.unresolved = t.asked
  BY <1>2
<1>5. /\ (t.stage = "nfts" => t.asked < Len(Nfts))
      /\ (t.stage = "done" => t.asked = Len(Nfts))
  <2>1. Len(Nfts) \in Nat
    BY MergeAssumption
  <2>2. s.asked + 1 # Len(Nfts) => s.asked + 1 < Len(Nfts)
    BY <1>1, <2>1
  <2>3. QED
    BY <1>2, <2>2
<1>6. t.listing.status = "done" /\ (t.moves = 0 => Read(t.listing, HolderRows(h.token)))
  BY <1>1, <1>2
<1>7. t.stage \in {"nfts", "done"}
  BY <1>2
<1>8. QED
  BY <1>1, <1>3, <1>4, <1>5, <1>6, <1>7 DEF Snapped

LEMMA AskNftStep ==
  ASSUME NEW s, NEW h, Snapped(s, h), s.stage = "nfts",
         NEW r \in Seq(NftRow), Once(r), NEW u \in Nat, Quantity(r) + u = s.asked + 1,
         NEW t, t = [s EXCEPT !.nftRows = r, !.unresolved = u, !.asked = @ + 1,
                              !.stage = IF s.asked + 1 = Len(Nfts) THEN "done" ELSE @]
  PROVE  Snapped(t, h)
<1>1. PICK e \in {"nfts", "done"} :
        /\ e = IF s.asked + 1 = Len(Nfts) THEN "done" ELSE s.stage
        /\ e = "done" <=> s.asked + 1 = Len(Nfts)
  OBVIOUS
<1>2. t = [s EXCEPT !.nftRows = r, !.unresolved = u, !.asked = s.asked + 1, !.stage = e]
  BY <1>1, Zenon
<1>3. QED
  BY <1>1, <1>2, NftCounted

\* One more NFT of someone is one more in the rows, and he has one of them.
LEMMA TalliedRows ==
  ASSUME NEW rows \in Seq(NftRow), Once(rows), NEW a \in Addrs \cup Range(Resolvable)
  PROVE  /\ Tallied(rows, a) \in Seq(NftRow) /\ Once(Tallied(rows, a))
         /\ Quantity(rows) \in Nat /\ Quantity(Tallied(rows, a)) = Quantity(rows) + 1
<1> DEFINE his == {i \in DOMAIN rows : rows[i].addr = a}
           f == [i \in DOMAIN rows |-> rows[i].qty]
           new == Tallied(rows, a)
           g == [i \in DOMAIN new |-> new[i].qty]
<1>1. PICK n \in Nat : n = Len(rows) /\ DOMAIN rows = 1 .. n
  OBVIOUS
<1>2. \A i \in 1 .. n : /\ rows[i] \in NftRow /\ rows[i].qty \in Nat \ {0}
                        /\ rows[i].addr \in Addrs \cup Range(Resolvable)
  <2>1. \A i \in 1 .. n : rows[i] \in NftRow
    BY <1>1
  <2>2. \A r \in NftRow : r.qty \in Nat \ {0} /\ r.addr \in Addrs \cup Range(Resolvable)
    BY DEF NftRow
  <2>3. QED
    BY <2>1, <2>2
<1>3. /\ Quantity(rows) = SumFunctionOnSet(f, 1 .. n) /\ DOMAIN f = 1 .. n
      /\ \A i \in 1 .. n : f[i] \in Nat /\ f[i] \in Int /\ f[i] = rows[i].qty
  BY <1>1, <1>2 DEF Quantity, SumFunction
<1>4. Quantity(new) = SumFunctionOnSet(g, DOMAIN new)
  <2>1. DOMAIN g = DOMAIN new
    OBVIOUS
  <2>2. QED
    BY <2>1 DEF Quantity, SumFunction
<1>5. IsFiniteSet(1 .. n)
  BY IntervalCounted
<1>6. Quantity(rows) \in Nat
  <2> HIDE DEF f
  <2>1. QED
    BY <1>3, <1>5, SumNat
<1>7. CASE his = {}
  <2> DEFINE e == [addr |-> a, qty |-> 1]
  <2>1. new = Append(rows, e)
    BY <1>7 DEF Tallied
  <2>2. e \in NftRow /\ e.addr = a /\ e.qty = 1
    BY DEF NftRow
  <2> HIDE DEF e, new, his
  <2>3. /\ new \in Seq(NftRow) /\ DOMAIN new = 1 .. n + 1
        /\ \A i \in 1 .. n : new[i] = rows[i]
        /\ new[n + 1] = e
    BY <1>1, <2>1, <2>2, AppendProperties
  <2>4. \A i \in 1 .. n : rows[i].addr # a
    BY <1>1, <1>7 DEF his
  <2>5. \A i \in 1 .. n + 1 : i \in 1 .. n \/ i = n + 1
    OBVIOUS
  <2>6. Once(new)
    BY <1>1, <2>2, <2>3, <2>4, <2>5 DEF Once
  <2>7. /\ \A i \in 1 .. n + 1 : g[i] \in Int
        /\ \A i \in 1 .. n : f[i] = g[i]
        /\ g[n + 1] = 1
    <3>1. \A i \in 1 .. n : g[i] = f[i] /\ g[i] \in Int
      BY <1>3, <2>3
    <3>2. g[n + 1] = 1
      BY <2>2, <2>3
    <3> HIDE DEF f, g
    <3>3. QED
      BY <2>5, <3>1, <3>2
  <2> HIDE DEF f, g
  <2>8. SumFunctionOnSet(g, 1 .. n + 1) = g[n + 1] + SumFunctionOnSet(g, 1 .. n)
    BY <2>7, SumNext
  <2>9. SumFunctionOnSet(f, 1 .. n) = SumFunctionOnSet(g, 1 .. n)
    <3>1. \A i \in 1 .. n : f[i] \in Int /\ g[i] = f[i]
      BY <1>3, <2>7
    <3>2. QED
      BY <1>5, <3>1, SumAgree
  <2>10. Quantity(new) = Quantity(rows) + 1
    BY <1>3, <1>4, <1>6, <2>3, <2>7, <2>8, <2>9
  <2>11. QED
    BY <1>6, <2>3, <2>6, <2>10 DEF new
<1>8. CASE his # {}
  <2>1. PICK k \in 1 .. n : k \in his
    BY <1>1, <1>8
  <2>2. his = {k} /\ rows[k].addr = a
    BY <2>1 DEF Once
  <2> DEFINE e == [addr |-> a, qty |-> rows[k].qty + 1]
  <2>3. new = [i \in DOMAIN rows |->
                  IF i \in his THEN [addr |-> a, qty |-> rows[i].qty + 1] ELSE rows[i]]
    BY <1>8 DEF Tallied
  <2> HIDE DEF new, his
  <2>4. /\ DOMAIN new = 1 .. n /\ new[k] = e
        /\ \A i \in 1 .. n \ {k} : new[i] = rows[i]
    BY <1>1, <2>1, <2>2, <2>3
  <2>5. e \in NftRow /\ e.addr = a /\ e.qty = rows[k].qty + 1
    BY <1>2 DEF NftRow
  <2> HIDE DEF e
  <2>6. \A i \in 1 .. n : new[i] \in NftRow /\ new[i].addr = rows[i].addr
    BY <1>2, <2>2, <2>4, <2>5
  <2>7. new \in Seq(NftRow)
    <3>1. new = [i \in 1 .. n |-> new[i]]
      BY <1>1, <2>3, <2>4
    <3> DEFINE R == NftRow
    <3>2. \A i \in 1 .. n : new[i] \in R
      BY <2>6
    <3> HIDE DEF R
    <3>3. new \in [1 .. n -> R]
      BY <3>1, <3>2
    <3>4. new \in Seq(R)
      BY <3>3, SeqDef
    <3>5. QED
      BY <3>4 DEF R
  <2>8. Once(new)
    BY <1>1, <2>4, <2>6 DEF Once
  <2>9. /\ DOMAIN g = 1 .. n /\ g[k] = f[k] + 1
        /\ \A i \in 1 .. n : f[i] \in Int /\ g[i] \in Int
        /\ \A i \in 1 .. n \ {k} : g[i] = f[i]
    <3>1. DOMAIN g = 1 .. n /\ \A i \in 1 .. n : g[i] = new[i].qty
      BY <2>4
    <3>2. g[k] = f[k] + 1 /\ \A i \in 1 .. n \ {k} : g[i] = f[i]
      BY <1>3, <2>4, <2>5, <3>1
    <3> HIDE DEF f, g
    <3>3. \A i \in 1 .. n : f[i] \in Int /\ g[i] \in Int
      <4>1. f[k] \in Int /\ g[k] \in Int
        BY <1>3, <3>2
      <4>2. QED
        BY <1>3, <3>2, <4>1
    <3>4. QED
      BY <3>1, <3>2, <3>3
  <2> HIDE DEF f, g
  <2>10. SumFunction(f) \in Int /\ SumFunction(g) = SumFunction(f) - f[k] + g[k]
    <3>1. DOMAIN f = 1 .. n /\ DOMAIN g = 1 .. n
      BY <1>3, <2>9
    <3>2. \A i \in 1 .. n : f[i] \in Int /\ g[i] \in Int
      BY <2>9
    <3>3. \A i \in 1 .. n \ {k} : g[i] = f[i]
      BY <2>9
    <3> DEFINE I == 1 .. n
    <3>4. IsFiniteSet(I) /\ k \in I
      BY <1>5
    <3> HIDE DEF I
    <3>5. QED
      BY <3>1, <3>2, <3>3, <3>4, SumExcept, SMTT(30) DEF I
  <2>11. Quantity(new) = Quantity(rows) + 1
    <3>1. SumFunction(f) = Quantity(rows) /\ SumFunction(g) = Quantity(new)
      BY <1>3, <1>4, <2>4, <2>9 DEF SumFunction
    <3>2. f[k] \in Int
      BY <2>9
    <3>3. QED
      BY <1>6, <2>9, <2>10, <3>1, <3>2
  <2>12. QED
    BY <1>6, <2>7, <2>8, <2>11 DEF new
<1>9. QED
  BY <1>7, <1>8

LEMMA QuantityNat ==
  ASSUME NEW rows \in Seq(NftRow)
  PROVE  Quantity(rows) \in Nat
<1> DEFINE f == [i \in DOMAIN rows |-> rows[i].qty]
<1>1. PICK n \in Nat : DOMAIN rows = 1 .. n /\ \A i \in 1 .. n : rows[i] \in NftRow
  OBVIOUS
<1>2. Quantity(rows) = SumFunctionOnSet(f, 1 .. n)
  BY <1>1 DEF Quantity, SumFunction
<1>3. \A i \in 1 .. n : f[i] \in Nat
  BY <1>1 DEF NftRow
<1> HIDE DEF f
<1>4. QED
  BY <1>2, <1>3, IntervalCounted, SumNat

\* An NFT counts for someone the snapshot can name.
LEMMA CountsTyped ==
  ASSUME holding \in HoldingRecord, NEW n \in Range(Nfts)
  PROVE  CountsFor(n) \in SUBSET (Addrs \cup Range(Resolvable))
<1>1. holding.nft[n] \in Addrs
  BY RowsTyped
<1>2. n \in DOMAIN Resolvable => Resolvable[n] \in Range(Resolvable)
  BY DEF Range
<1>3. QED
  BY <1>1, <1>2 DEF CountsFor

(* A snapshot runs while the rates are fixed.                              *)
Snapshotting == Snapped(snap, holding) /\ (snap.stage # "idle" => report.stage = "priced")

LEMMA SnapshotRuns ==
  ASSUME Snapshotting, SnapshotStep
  PROVE  Snapshotting'
<1> USE DEF Snapshotting
<1>0. report' = report
  BY SnapshotAside DEF vars
<1>1. CASE StartSnapshot
  <2>1. holding' \in Holdings /\ snap' = [NoSnap EXCEPT !.stage = "listing"]
    BY <1>1 DEF StartSnapshot
  <2>2. Snapped(snap', holding')
    BY <2>1, StartStep
  <2>3. report.stage = "priced"
    BY <1>1 DEF StartSnapshot
  <2>4. QED
    BY <1>0, <2>2, <2>3
<1>2. ASSUME NEW g \in HoldingRecord, Move(g)
      PROVE  Snapshotting'
  <2>1. /\ snap.stage \in {"listing", "nfts"} /\ holding' = g
        /\ snap' = [snap EXCEPT !.moves = @ + 1]
    BY <1>2 DEF Move
  <2>2. Snapped(snap', holding')
    BY <2>1, MovedStep
  <2>3. report.stage = "priced"
    BY <2>1
  <2>4. QED
    BY <1>0, <2>2, <2>3
<1>3. snap.stage # "idle" => /\ holding \in HoldingRecord
                             /\ DOMAIN holding.token = Addrs /\ DOMAIN holding.nft = Range(Nfts)
                             /\ \A a \in Addrs : holding.token[a] \in Nat
  BY DEF Snapped, HoldingRecord
<1>4. CASE \E a, b \in DOMAIN holding.token : TransferToken(a, b)
  <2>1. PICK a \in DOMAIN holding.token, b \in DOMAIN holding.token : TransferToken(a, b)
    BY <1>4
  <2> DEFINE g == [token |-> [holding.token EXCEPT ![a] = @ - 1, ![b] = @ + 1],
                   nft   |-> holding.nft]
  <2>2. a # b /\ holding.token[a] > 0 /\ Move(g)
    BY <2>1 DEF TransferToken
  <2>3. snap.stage # "idle"
    BY <2>2 DEF Move
  <2>4. g \in HoldingRecord
    <3>1. [holding.token EXCEPT ![a] = @ - 1, ![b] = @ + 1] \in [Addrs -> Nat]
      <4>1. holding.token \in [Addrs -> Nat] /\ a \in Addrs /\ b \in Addrs
        BY <1>3, <2>1, <2>3, RowsTyped
      <4>2. QED
        BY <2>2, <4>1
    <3>2. holding.nft \in [Range(Nfts) -> Addrs]
      BY <1>3, <2>3, RowsTyped
    <3>3. QED
      BY <3>1, <3>2 DEF HoldingRecord
  <2> HIDE DEF g
  <2>5. QED
    BY <1>2, <2>2, <2>4
<1>5. CASE \E n \in DOMAIN holding.nft, b \in DOMAIN holding.token : TransferNft(n, b)
  <2>1. PICK n \in DOMAIN holding.nft, b \in DOMAIN holding.token : TransferNft(n, b)
    BY <1>5
  <2> DEFINE g == [holding EXCEPT !.nft[n] = b]
  <2>2. Move(g) /\ snap.stage # "idle"
    BY <2>1 DEF TransferNft, Move
  <2>3. g \in HoldingRecord
    BY <1>3, <2>1, <2>2 DEF HoldingRecord
  <2> HIDE DEF g
  <2>4. QED
    BY <1>2, <2>2, <2>3
<1>6. CASE AskHolders
  <2>1. /\ snap.stage = "listing" /\ holding' = holding /\ report.stage = "priced"
    BY <1>6 DEF AskHolders
  <2>2. PICK l \in {Answered(snap.listing, PageOf(HolderRows(holding.token), snap.listing.page)),
                    Refused(snap.listing), Broken(snap.listing)} :
          snap' = [snap EXCEPT !.listing = l,
                               !.stage = CASE l.status = "asking" -> "listing"
                                           [] l.status = "done"   -> "nfts"
                                           [] l.status = "failed" -> "failed"]
    BY <1>6 DEF AskHolders
  <2>3. Snapped(snap', holding')
    BY <2>1, <2>2, AskHoldersStep
  <2>4. QED
    BY <1>0, <2>1, <2>3
<1>7. CASE AskNft
  <2> DEFINE owners == CountsFor(Nfts[snap.asked + 1])
  <2>1. /\ snap.stage = "nfts" /\ holding' = holding /\ report.stage = "priced"
        /\ \/ \E a \in owners : Counted(Tallied(snap.nftRows, a), snap.unresolved)
           \/ owners = {} /\ Counted(snap.nftRows, snap.unresolved + 1)
    BY <1>7 DEF AskNft
  <2>2. Nfts[snap.asked + 1] \in Range(Nfts)
    <3>1. snap.asked \in Nat /\ snap.asked < Len(Nfts)
      BY <2>1 DEF Snapped, SnapRecord
    <3>2. snap.asked + 1 \in DOMAIN Nfts
      BY <3>1, MergeAssumption
    <3>3. QED
      BY <3>2 DEF Range
  <2>3. owners \in SUBSET (Addrs \cup Range(Resolvable))
    BY <1>3, <2>1, <2>2, CountsTyped
  <2> HIDE DEF owners
  <2>4. PICK now \in Seq(NftRow), u, k \in Nat :
          now = snap.nftRows /\ u = snap.unresolved /\ k = snap.asked
    BY <2>1 DEF Snapped, SnapRecord
  <2>5. Once(now) /\ Quantity(now) + u = k
    BY <2>1, <2>4 DEF Snapped
  <2>6. ASSUME NEW r \in Seq(NftRow), Once(r), NEW v \in Nat, Quantity(r) + v = k + 1,
               Counted(r, v)
        PROVE  Snapped(snap', holding)
    BY <2>1, <2>4, <2>6, AskNftStep DEF Counted
  <2>7. ASSUME \E a \in owners : Counted(Tallied(now, a), u)
        PROVE  Snapped(snap', holding)
    <3>1. PICK a \in Addrs \cup Range(Resolvable) : Counted(Tallied(now, a), u)
      BY <2>3, <2>7
    <3>2. /\ Tallied(now, a) \in Seq(NftRow) /\ Once(Tallied(now, a))
          /\ Quantity(now) \in Nat /\ Quantity(Tallied(now, a)) = Quantity(now) + 1
      BY <2>5, TalliedRows
    <3>3. Quantity(Tallied(now, a)) + u = k + 1
      BY <2>5, <3>2
    <3>4. QED
      BY <2>6, <3>1, <3>2, <3>3
  <2>8. ASSUME Counted(now, u + 1)
        PROVE  Snapped(snap', holding)
    <3>1. Quantity(now) \in Nat
      BY <2>5, QuantityNat
    <3>2. Quantity(now) + (u + 1) = k + 1
      BY <2>5, <3>1
    <3>3. QED
      BY <2>5, <2>6, <2>8, <3>2
  <2>9. Snapped(snap', holding)
    BY <2>1, <2>4, <2>7, <2>8
  <2>10. QED
    BY <1>0, <2>1, <2>9
<1>8. CASE EndSnapshot
  <2>1. snap' = NoSnap /\ snap'.stage = "idle"
    BY <1>8, NoSnapTyped DEF EndSnapshot
  <2>2. Snapped(snap', holding')
    BY <2>1, NotSnapping
  <2>3. QED
    BY <2>1, <2>2
<1>9. QED
  BY <1>1, <1>4, <1>5, <1>6, <1>7, <1>8 DEF SnapshotStep

LEMMA SnapshotSteps ==
  /\ MergeInit => Snapshotting
  /\ Snapshotting /\ [MergeNext]_allVars => Snapshotting'
<1>1. ASSUME MergeInit PROVE Snapshotting
  BY <1>1, NotSnapping, NoSnapTyped DEF MergeInit, Snapshotting
<1>2. ASSUME Snapshotting, [MergeNext]_allVars PROVE Snapshotting'
  <2>1. CASE SnapshotStep
    BY <1>2, <2>1, SnapshotRuns
  <2>2. CASE Price \/ UNCHANGED allVars
    <3>1. UNCHANGED <<snap, holding, report>>
      BY <2>2 DEF Price, allVars, mergeVars, vars
    <3>2. QED
      BY <1>2, <3>1 DEF Snapshotting
  <2>3. CASE Report
    <3>1. UNCHANGED <<snap, holding>> /\ report.stage = "none"
      BY <2>3 DEF Report, MergeReport
    <3>2. QED
      BY <1>2, <3>1 DEF Snapshotting
  <2>4. CASE Redeem
    <3>1. UNCHANGED <<snap, holding>> /\ snap.stage = "idle"
      BY <2>4 DEF Redeem
    <3>2. QED
      BY <1>2, <3>1 DEF Snapshotting
  <2>5. QED
    BY <1>2, <2>1, <2>2, <2>3, <2>4 DEF MergeNext, SnapshotStep
<1>3. QED
  BY <1>1, <1>2

LEMMA SnapshotInductive == MergeSpec => []Snapshotting
BY SnapshotSteps, PTL DEF MergeSpec

\* What a quiet snapshot has read.
LEMMA StillRead ==
  ASSUME Snapshotting, Still
  PROVE  /\ holding \in HoldingRecord /\ Lists(snap.listing.rows, holding.token)
         /\ snap.nftRows \in Seq(NftRow) /\ snap.unresolved \in Nat
         /\ Once(snap.nftRows) /\ Quantity(snap.nftRows) + snap.unresolved = Len(Nfts)
         /\ report.stage = "priced"
<1>1. snap.stage = "done" /\ snap.moves = 0
  BY DEF Still
<1>2. /\ holding \in HoldingRecord /\ snap.listing.status = "done"
      /\ Read(snap.listing, HolderRows(holding.token))
      /\ snap.nftRows \in Seq(NftRow) /\ snap.unresolved \in Nat
      /\ Once(snap.nftRows) /\ Quantity(snap.nftRows) + snap.unresolved = Len(Nfts)
      /\ report.stage = "priced"
  BY <1>1 DEF Snapshotting, Snapped, SnapRecord
<1>3. snap.listing.rows = HolderRows(holding.token)
  BY <1>2 DEF Read
<1>4. QED
  BY <1>2, <1>3, RowsTyped, RowsListed

-----------------------------------------------------------------------------
(* What is read of the holders, and given out over them                    *)

\* The quantity of some of the rows.
LEMMA QuantityPart ==
  ASSUME NEW rows, IsFiniteSet(DOMAIN rows), \A i \in DOMAIN rows : rows[i].qty \in Nat,
         NEW D \in SUBSET DOMAIN rows
  PROVE  /\ DOMAIN Restrict(rows, D) = D
         /\ \A i \in D : Restrict(rows, D)[i] = rows[i]
         /\ Quantity(Restrict(rows, D)) = SumFunctionOnSet([i \in D |-> rows[i].qty], D)
         /\ Quantity(Restrict(rows, D)) \in Nat
         /\ Quantity(rows) = SumFunctionOnSet([i \in DOMAIN rows |-> rows[i].qty], DOMAIN rows)
         /\ Quantity(rows) \in Nat
         /\ Quantity(Restrict(rows, D)) <= Quantity(rows)
<1> DEFINE S == DOMAIN rows
           f == [i \in S |-> rows[i].qty]
           g == [i \in D |-> rows[i].qty]
           some == Restrict(rows, D)
<1>1. DOMAIN some = D /\ \A i \in D : some[i] = rows[i]
  BY DEF Restrict
<1> HIDE DEF some
<1>2. [i \in DOMAIN some |-> some[i].qty] = g
  BY <1>1
<1>3. Quantity(some) = SumFunctionOnSet(g, D)
  <2>1. DOMAIN g = D
    OBVIOUS
  <2> HIDE DEF g
  <2>2. QED
    BY <1>2, <2>1 DEF Quantity, SumFunction
<1>4. Quantity(rows) = SumFunctionOnSet(f, S)
  BY DEF Quantity, SumFunction
<1>5. /\ \A i \in S : f[i] \in Nat
      /\ \A i \in D : g[i] \in Nat /\ f[i] \in Nat /\ f[i] \in Int /\ g[i] = f[i] /\ i \in S
  OBVIOUS
<1>6. IsFiniteSet(S) /\ IsFiniteSet(D)
  BY FS_Subset
<1> HIDE DEF f, g, S
<1>7. SumFunctionOnSet(f, S) \in Nat /\ SumFunctionOnSet(g, D) \in Nat
  BY <1>5, <1>6, SumNat
<1>8. SumFunctionOnSet(f, D) = SumFunctionOnSet(g, D)
  BY <1>5, <1>6, SumAgree
<1>9. SumFunctionOnSet(f, D) <= SumFunctionOnSet(f, S)
  <2>1. D \in SUBSET S
    BY <1>5
  <2>2. QED
    BY <1>5, <1>6, <2>1, SumMonotone
<1>10. QED
  BY <1>1, <1>3, <1>4, <1>7, <1>8, <1>9 DEF some, f, g, S

\* Rows that list the holders are finitely many, and typed.
LEMMA ListedRows ==
  ASSUME NEW rows, NEW token, Lists(rows, token)
  PROVE  /\ IsFiniteSet(DOMAIN rows)
         /\ \A i \in DOMAIN rows : rows[i].qty \in Nat /\ rows[i].qty > 0 /\ rows[i].addr \in Addrs
<1>1. rows \in Seq(Row)
  BY DEF Lists
<1>2. Len(rows) \in Nat /\ DOMAIN rows = 1 .. Len(rows) /\ \A i \in DOMAIN rows : rows[i] \in Row
  BY <1>1
<1>3. IsFiniteSet(DOMAIN rows)
  BY <1>2, FS_Interval
<1>4. \A i \in DOMAIN rows : rows[i].qty \in Nat /\ rows[i].addr \in Addrs
  BY <1>2 DEF Row
<1>5. QED
  BY <1>3, <1>4 DEF Lists

\* With nobody trading meanwhile, the listing the pages add up to is the
\* holders: each in one row, with what it holds, whatever the page size, the
\* retries and the number of holders; every NFT is in its owner's row or counted as
\* unresolved (get_asset_addresses, fetch_nft_holders).
THEOREM SnapshotsFaithful == MergeSpec => []SnapshotFaithful
<1>1. ASSUME Snapshotting PROVE SnapshotFaithful
  <2> SUFFICES ASSUME Still PROVE SnapshotFaithful
    BY DEF SnapshotFaithful
  <2> DEFINE rows == snap.listing.rows
             token == holding.token
  <2>1. /\ Lists(rows, token) /\ token \in [Addrs -> Nat]
        /\ Once(snap.nftRows) /\ Quantity(snap.nftRows) + snap.unresolved = Len(Nfts)
    BY <1>1, StillRead, RowsTyped
  <2> HIDE DEF rows, token
  <2>2. ASSUME NEW a \in Addrs
        PROVE  LET mine == RestrictValues(rows, LAMBDA r : r.addr = a)
               IN  Quantity(mine) = token[a] /\ Cardinality(DOMAIN mine) <= 1
    <3> DEFINE D == {k \in DOMAIN rows : rows[k].addr \in {a}}
    <3>1. RestrictValues(rows, LAMBDA r : r.addr = a) = Restrict(rows, D)
      <4>1. {k \in DOMAIN rows : rows[k].addr = a} = D
        OBVIOUS
      <4>2. QED
        BY <4>1 DEF RestrictValues
    <3>2. /\ IsFiniteSet(D)
          /\ SumFunctionOnSet([k \in D |-> rows[k].qty], D)
               = SumFunctionOnSet(token, Addrs \cap {a})
      BY <2>1, RowSums
    <3>3. SumFunctionOnSet(token, Addrs \cap {a}) = token[a]
      <4>1. Addrs \cap {a} = {a} /\ token[a] \in Int
        BY <2>1
      <4>2. QED
        BY <4>1, SumOne
    <3>4. /\ DOMAIN Restrict(rows, D) = D
          /\ Quantity(Restrict(rows, D)) = SumFunctionOnSet([k \in D |-> rows[k].qty], D)
      <4>1. /\ IsFiniteSet(DOMAIN rows) /\ \A i \in DOMAIN rows : rows[i].qty \in Nat
            /\ D \in SUBSET DOMAIN rows
        BY <2>1, ListedRows
      <4> HIDE DEF D
      <4>2. QED
        BY <4>1, QuantityPart
    <3>5. Cardinality(D) <= 1
      <4>1. \A j, k \in D : j = k
        BY <2>1 DEF Lists
      <4> HIDE DEF D
      <4>2. CASE D = {}
        BY <4>2, FS_EmptySet
      <4>3. CASE D # {}
        <5>1. PICK k \in D : D = {k}
          BY <4>1, <4>3
        <5>2. QED
          BY <5>1, FS_Singleton
      <4>4. QED
        BY <4>2, <4>3
    <3> HIDE DEF D
    <3>6. QED
      BY <3>1, <3>2, <3>3, <3>4, <3>5
  <2>3. DOMAIN holding.token = Addrs
    BY <2>1 DEF token
  <2>4. QED
    BY <2>1, <2>2, <2>3 DEF SnapshotFaithful, Once, rows, token
<1>2. QED
  BY <1>1, SnapshotInductive, PTL

\* What the keys get is the shares of the rows that have one.
LEMMA DistributedSum ==
  ASSUME NEW allocs, IsFiniteSet(DOMAIN allocs), \A i \in DOMAIN allocs : allocs[i].units \in Nat
  PROVE  LET given == {i \in DOMAIN allocs : /\ allocs[i].units >= 1
                                             /\ allocs[i].addr \in DOMAIN KeyOf
                                             /\ KeyOf[allocs[i].addr] \in Keys}
         IN  Distributed(allocs) = SumFunctionOnSet([i \in DOMAIN allocs |-> allocs[i].units], given)
<1> DEFINE S == DOMAIN allocs
           f == [i \in S |-> allocs[i].units]
           of(k) == {i \in S : /\ allocs[i].units >= 1
                               /\ allocs[i].addr \in DOMAIN KeyOf /\ KeyOf[allocs[i].addr] = k}
           part == [k \in Keys |-> of(k)]
           g == [k \in Keys |-> PerKey(allocs, k)]
           given == {i \in S : /\ allocs[i].units >= 1
                               /\ allocs[i].addr \in DOMAIN KeyOf /\ KeyOf[allocs[i].addr] \in Keys}
<1>1. Distributed(allocs) = SumFunctionOnSet(g, Keys)
  BY DEF Distributed, SumFunction
<1>2. ASSUME NEW k \in Keys
      PROVE  PerKey(allocs, k) = SumFunctionOnSet(f, of(k))
  <2> DEFINE D == of(k)
             mine == Restrict(allocs, D)
             u == [i \in D |-> allocs[i].units]
  <2>1. PerKey(allocs, k) = Shared(mine)
    BY DEF PerKey, RestrictValues
  <2>2. DOMAIN mine = D /\ \A i \in D : mine[i] = allocs[i]
    BY DEF Restrict
  <2>3. IsFiniteSet(D) /\ \A i \in D : f[i] \in Int /\ u[i] = f[i]
    BY FS_Subset
  <2> HIDE DEF D, mine
  <2>4. [i \in DOMAIN mine |-> mine[i].units] = u /\ DOMAIN u = D
    BY <2>2
  <2> HIDE DEF u, f
  <2>5. Shared(mine) = SumFunctionOnSet(u, D)
    BY <2>4 DEF Shared, SumFunction
  <2>6. SumFunctionOnSet(f, D) = SumFunctionOnSet(u, D)
    BY <2>3, SumAgree
  <2>7. QED
    BY <2>1, <2>5, <2>6 DEF D
<1>3. /\ \A k \in Keys : part[k] \in SUBSET S
      /\ \A j, k \in Keys : j # k => part[j] \cap part[k] = {}
      /\ \A i \in S : f[i] \in Int
      /\ \A k \in Keys : part[k] = of(k)
      /\ UNION {part[k] : k \in Keys} = given
  OBVIOUS
<1>4. \A k \in Keys : g[k] = SumFunctionOnSet(f, part[k])
  <2> HIDE DEF f, of, part
  <2>1. QED
    BY <1>2, <1>3
<1>5. IsFiniteSet(Keys) /\ IsFiniteSet(S)
  BY MergeAssumption
<1> HIDE DEF S, f, of, part, g, given
<1>6. SumFunctionOnSet(g, Keys) = SumFunctionOnSet(f, UNION {part[k] : k \in Keys})
  BY <1>3, <1>4, <1>5, SumParts
<1>7. QED
  BY <1>1, <1>3, <1>6 DEF given, f, S

\* A share is within the bucket as long as it is a part of the supply.
LEMMA ShareFits ==
  ASSUME NEW n \in Nat, NEW bucket \in Nat, NEW supply \in Int, n <= supply
  PROVE  ShareOf(n, bucket, supply) \in 0 .. bucket
<1>1. CASE supply <= 0
  BY <1>1 DEF ShareOf
<1>2. CASE supply > 0
  <2>1. PICK d \in Nat \ {0} : d = supply
    BY <1>2
  <2>2. n * bucket \in Nat /\ n * bucket = bucket * n /\ bucket * n <= bucket * d
    BY <2>1, ProductIsNat, ProductsCommute, ProductGrows
  <2>3. PICK m \in Nat : m = n * bucket /\ m <= bucket * d
    BY <2>2
  <2>4. m \div d \in Nat /\ (m \div d) * d <= m
    BY FloorWithin
  <2>5. PICK q \in Nat : q = m \div d /\ q * d <= m
    BY <2>4
  <2>6. bucket * d \in Nat /\ q * d <= bucket * d
    BY <2>3, <2>5, ProductIsNat
  <2>7. q <= bucket
    BY <2>6
  <2>8. ShareOf(n, bucket, supply) = q
    BY <1>2, <2>1, <2>3, <2>5 DEF ShareOf
  <2>9. QED
    BY <2>7, <2>8
<1>3. QED
  BY <1>1, <1>2

\* Shares of the whole pot.
LEMMA WholeShared ==
  ASSUME NEW S, IsFiniteSet(S), NEW w, \A x \in S : w[x] \in Nat,
         NEW pot \in Nat, NEW all, all = SumFunctionOnSet(w, S), all # 0,
         NEW share, \A x \in S : share[x] = (w[x] * pot) \div all
  PROVE  /\ \A x \in S : share[x] \in Nat
         /\ Cardinality(S) \in Nat /\ SumFunctionOnSet(share, S) \in Nat
         /\ SumFunctionOnSet(share, S) <= pot
         /\ pot - SumFunctionOnSet(share, S) <= Cardinality(S)
<1>1. all \in Nat \ {0}
  BY SumNat
<1>2. /\ \A x \in S : /\ share[x] \in Nat
                      /\ 0 <= w[x] * pot - all * share[x]
                      /\ w[x] * pot - all * share[x] <= all - 1
      /\ Cardinality(S) \in Nat
      /\ SumFunctionOnSet(w, S) \in Nat /\ SumFunctionOnSet(share, S) \in Nat
      /\ 0 <= SumFunctionOnSet(w, S) * pot - all * SumFunctionOnSet(share, S)
      /\ SumFunctionOnSet(w, S) * pot - all * SumFunctionOnSet(share, S)
           <= (all - 1) * Cardinality(S)
  BY <1>1, FloorShares
<1>3. PICK n \in Nat : n = Cardinality(S)
  BY <1>2
<1>4. PICK d \in Nat \ {0} : d = all
  BY <1>1
<1>5. PICK T \in Nat : T = SumFunctionOnSet(share, S)
  BY <1>2
<1>6. 0 <= d * pot - d * T /\ d * pot - d * T <= (d - 1) * n
  BY <1>2, <1>3, <1>4, <1>5
<1>7. PICK x \in Int : x = pot - T
  BY <1>5
<1>8. d * pot - d * T = d * x
  BY <1>7
<1>9. 0 <= d * x /\ d * x <= (d - 1) * n
  BY <1>6, <1>8
<1>10. (d - 1) * n <= d * n
  OBVIOUS
<1>11. 0 <= x /\ x <= n
  <2>1. \A i, j \in Int : d * i <= d * j => i <= j
    BY SMTT(30)
  <2>2. d * 0 = 0 /\ d * x \in Int /\ (d - 1) * n \in Int /\ d * n \in Int
    OBVIOUS
  <2>3. d * 0 <= d * x /\ d * x <= d * n
    BY <1>9, <1>10, <2>2
  <2>4. QED
    BY <2>1, <2>3
<1>12. QED
  BY <1>2, <1>3, <1>5, <1>7, <1>11

\* What is shared out over some rows fits in the pot; if each row has a key, all
\* but less than one unit for each of them is given out.
LEMMA AllocationFits ==
  ASSUME NEW rows, IsFiniteSet(DOMAIN rows), \A i \in DOMAIN rows : rows[i].qty \in Nat,
         NEW pot \in Nat, NEW allocs, allocs = Allocate(rows, pot)
  PROVE  /\ Distributed(allocs) \in Nat /\ Distributed(allocs) <= pot
         /\ Cardinality(DOMAIN allocs) \in Nat
         /\ allocs # <<>> /\ EachHasKey(allocs) =>
               pot - Distributed(allocs) <= Cardinality(DOMAIN allocs)
<1> DEFINE S == DOMAIN rows
           w == [i \in S |-> rows[i].qty]
           all == Quantity(rows)
<1>1. all = SumFunctionOnSet(w, S) /\ all \in Nat
  <2>1. S \in SUBSET DOMAIN rows
    OBVIOUS
  <2> HIDE DEF S
  <2>2. QED
    BY <2>1, QuantityPart DEF S
<1>2. CASE all = 0
  <2>1. allocs = <<>>
    BY <1>2 DEF Allocate
  <2>2. DOMAIN allocs = {}
    BY <2>1
  <2>3. IsFiniteSet(DOMAIN allocs) /\ Cardinality(DOMAIN allocs) = 0
    BY <2>2, FS_EmptySet
  <2>4. Distributed(allocs) = SumFunctionOnSet([i \in DOMAIN allocs |-> allocs[i].units], {})
    <3> DEFINE given == {i \in DOMAIN allocs : /\ allocs[i].units >= 1
                                               /\ allocs[i].addr \in DOMAIN KeyOf
                                               /\ KeyOf[allocs[i].addr] \in Keys}
    <3>1. given = {} /\ \A i \in DOMAIN allocs : allocs[i].units \in Nat
      BY <2>2
    <3>2. Distributed(allocs) = SumFunctionOnSet([i \in DOMAIN allocs |-> allocs[i].units], given)
      BY <2>3, <3>1, DistributedSum
    <3> HIDE DEF given
    <3>3. QED
      BY <3>1, <3>2
  <2>5. Distributed(allocs) = 0
    BY <2>4, SumEmpty
  <2>6. QED
    BY <2>1, <2>3, <2>5
<1>3. CASE all # 0
  <2> DEFINE share == [i \in S |-> (w[i] * pot) \div all]
             u == [i \in DOMAIN allocs |-> allocs[i].units]
             given == {i \in DOMAIN allocs : /\ allocs[i].units >= 1
                                             /\ allocs[i].addr \in DOMAIN KeyOf
                                             /\ KeyOf[allocs[i].addr] \in Keys}
             rest == S \ given
  <2>1. allocs = [i \in S |-> [addr |-> rows[i].addr, qty |-> rows[i].qty,
                               units |-> (rows[i].qty * pot) \div all]]
    BY <1>3 DEF Allocate
  <2>2. DOMAIN allocs = S /\ \A i \in S : allocs[i].units = share[i] /\ w[i] \in Nat
    BY <2>1
  <2>3. all \in Nat \ {0} /\ IsFiniteSet(S)
    BY <1>1, <1>3
  <2>4. \A i \in S : share[i] = (w[i] * pot) \div all
    OBVIOUS
  <2> HIDE DEF all, w, S, share
  <2> DEFINE T == SumFunctionOnSet(share, S)
  <2>5. /\ \A i \in S : share[i] \in Nat
        /\ Cardinality(S) \in Nat /\ T \in Nat /\ T <= pot /\ pot - T <= Cardinality(S)
    <3>1. \A i \in S : w[i] \in Nat
      BY <2>2
    <3>2. all = SumFunctionOnSet(w, S) /\ all # 0
      BY <1>1, <2>3
    <3> HIDE DEF u, given, rest
    <3>3. QED
      BY <2>3, <2>4, <3>1, <3>2, WholeShared
  <2>8. T \in Nat /\ T <= pot /\ Cardinality(S) \in Nat /\ pot - T <= Cardinality(S)
    BY <2>5
  <2> HIDE DEF T
  <2>9. \A i \in DOMAIN allocs : allocs[i].units \in Nat /\ u[i] = share[i] /\ u[i] \in Nat
    BY <2>2, <2>5
  <2>10. Distributed(allocs) = SumFunctionOnSet(u, given)
    BY <2>2, <2>3, <2>9, DistributedSum
  <2>11. given \in SUBSET S
    BY <2>2
  <2>12. SumFunctionOnSet(u, S) = T
    <3>1. \A i \in S : u[i] \in Int /\ share[i] = u[i]
      BY <2>2, <2>9
    <3> HIDE DEF u
    <3>2. QED
      BY <2>3, <3>1, SumAgree DEF T
  <2>13. EachHasKey(allocs) => \A i \in rest : u[i] = 0
    BY <2>2, <2>5, <2>9 DEF EachHasKey
  <2>14. \A i \in S : u[i] \in Nat /\ u[i] \in Int
    BY <2>2, <2>9
  <2>15. given \cap rest = {} /\ S = given \cup rest /\ rest \in SUBSET S
    BY <2>11
  <2> HIDE DEF u, given, rest
  <2>16. IsFiniteSet(given) /\ IsFiniteSet(rest)
    BY <2>3, <2>11, <2>15, FS_Subset
  <2>17. SumFunctionOnSet(u, given) \in Nat /\ SumFunctionOnSet(u, given) <= SumFunctionOnSet(u, S)
    <3>1. \A i \in given : u[i] \in Nat
      BY <2>11, <2>14
    <3>2. SumFunctionOnSet(u, given) \in Nat
      BY <2>16, <3>1, SumNat
    <3>3. SumFunctionOnSet(u, given) <= SumFunctionOnSet(u, S)
      BY <2>3, <2>11, <2>14, SumMonotone
    <3>4. QED
      BY <3>2, <3>3
  <2>18. EachHasKey(allocs) => SumFunctionOnSet(u, given) = SumFunctionOnSet(u, S)
    <3> SUFFICES ASSUME EachHasKey(allocs)
                 PROVE  SumFunctionOnSet(u, given) = SumFunctionOnSet(u, S)
      OBVIOUS
    <3>1. SumFunctionOnSet(u, rest) = 0
      BY <2>13, <2>16, SumZero
    <3>2. SumFunctionOnSet(u, given \cup rest)
            = SumFunctionOnSet(u, given) + SumFunctionOnSet(u, rest)
      <4>1. \A i \in given \cup rest : u[i] \in Int
        BY <2>14, <2>15
      <4>2. QED
        BY <2>15, <2>16, <4>1, SumUnion
    <3>3. QED
      BY <2>15, <2>17, <3>1, <3>2
  <2>19. QED
    BY <2>2, <2>8, <2>10, <2>12, <2>17, <2>18
<1>4. QED
  BY <1>2, <1>3

\* A share set aside, and the rest given out over some of the rows.
LEMMA AllotmentFits ==
  ASSUME NEW rows, IsFiniteSet(DOMAIN rows), \A i \in DOMAIN rows : rows[i].qty \in Nat,
         NEW bucket \in Nat, NEW kept \in 0 .. bucket,
         NEW allocs, allocs = Allocate(Eligible(rows), bucket - kept)
  PROVE  LET dust == bucket - kept - Distributed(allocs)
         IN  /\ dust >= 0
             /\ allocs # <<>> /\ EachHasKey(allocs) => dust <= Cardinality(DOMAIN allocs)
<1> DEFINE D == {i \in DOMAIN rows : /\ rows[i].addr \notin ReserveAddrs
                                     /\ rows[i].addr \notin ScriptAddrs}
           some == Restrict(rows, D)
<1>1. Eligible(rows) = some
  BY DEF Eligible, RestrictValues
<1>2. DOMAIN some = D /\ \A i \in D : some[i] = rows[i]
  BY DEF Restrict
<1>3. IsFiniteSet(D) /\ \A i \in D : rows[i].qty \in Nat
  BY FS_Subset
<1> HIDE DEF some, D
<1>4. IsFiniteSet(DOMAIN some) /\ \A i \in DOMAIN some : some[i].qty \in Nat
  BY <1>2, <1>3
<1>5. PICK pot \in Nat : pot = bucket - kept
  OBVIOUS
<1>6. allocs = Allocate(some, pot)
  BY <1>1, <1>5
<1>7. /\ Distributed(allocs) \in Nat /\ Distributed(allocs) <= pot
      /\ Cardinality(DOMAIN allocs) \in Nat
      /\ allocs # <<>> /\ EachHasKey(allocs) =>
            pot - Distributed(allocs) <= Cardinality(DOMAIN allocs)
  BY <1>4, <1>6, AllocationFits
<1>8. QED
  BY <1>5, <1>7

\* A bucket is never given out twice: what is set aside for the team or for
\* NFTs without a holder and what the keys get fit in it, whatever the holders,
\* and but for a rounding of each row all of it is given out (allocate_flux,
\* build_allocations).
THEOREM BucketsAllotted == MergeSpec => []AllotmentBound
<1>1. ASSUME IInv, Snapshotting PROVE AllotmentBound
  <2> SUFFICES ASSUME Still PROVE AllotmentBound
    BY DEF AllotmentBound
  <2> DEFINE Bound(s, n, a) ==
               LET dust == report.bucket[a] - s.reserved - Distributed(s.allocs)
               IN  n = report.supply[a] =>
                       /\ dust >= 0
                       /\ s.allocs # <<>> /\ EachHasKey(s.allocs) =>
                             dust <= Cardinality(DOMAIN s.allocs)
             rows == snap.listing.rows
             nfts == snap.nftRows
  <2>1. \A a \in Assets : report.bucket[a] \in Nat /\ report.supply[a] \in Int
    BY <1>1 DEF IInv, TypeOK
  <2>2. Listed.token \in Assets /\ Listed.collection \in Assets
    BY MergeAssumption, RedemptionAssumption
  <2>3. /\ Lists(rows, holding.token)
        /\ nfts \in Seq(NftRow) /\ snap.unresolved \in Nat
        /\ Quantity(nfts) + snap.unresolved = Len(Nfts)
    BY <1>1, StillRead
  <2>4. Bound(TokenOf, Quantity(rows), Listed.token)
    <3> DEFINE a == Listed.token
               D == {i \in DOMAIN rows : rows[i].addr \in ReserveAddrs}
    <3>1. IsFiniteSet(DOMAIN rows) /\ \A i \in DOMAIN rows : rows[i].qty \in Nat
      BY <2>3, ListedRows
    <3>2. AtReserve(rows) = Restrict(rows, D) /\ D \in SUBSET DOMAIN rows
      BY DEF AtReserve, RestrictValues
    <3> HIDE DEF D, rows, a
    <3>3. /\ Quantity(AtReserve(rows)) \in Nat
          /\ Quantity(AtReserve(rows)) <= Quantity(rows)
      BY <3>1, <3>2, QuantityPart
    <3> SUFFICES ASSUME Quantity(rows) = report.supply[a]
                 PROVE  LET dust == report.bucket[a] - TokenOf.reserved - Distributed(TokenOf.allocs)
                        IN  /\ dust >= 0
                            /\ TokenOf.allocs # <<>> /\ EachHasKey(TokenOf.allocs) =>
                                  dust <= Cardinality(DOMAIN TokenOf.allocs)
      BY DEF a
    <3>4. PICK b \in Nat : b = report.bucket[a]
      BY <2>1, <2>2 DEF a
    <3>5. PICK s \in Int : s = report.supply[a]
      BY <2>1, <2>2 DEF a
    <3>6. ShareOf(Quantity(AtReserve(rows)), b, s) \in 0 .. b
      BY <3>3, <3>5, ShareFits
    <3>7. PICK k \in 0 .. b : k = ShareOf(Quantity(AtReserve(rows)), b, s)
      BY <3>6
    <3>8. TokenOf.reserved = k /\ TokenOf.allocs = Allocate(Eligible(rows), b - k)
      BY <3>4, <3>5, <3>7 DEF TokenOf, TokenShare, rows, a
    <3>9. QED
      BY <3>1, <3>4, <3>8, AllotmentFits
  <2>5. Bound(CollectionOf, Len(Nfts), Listed.collection)
    <3> DEFINE a == Listed.collection
    <3>1. IsFiniteSet(DOMAIN nfts) /\ \A i \in DOMAIN nfts : nfts[i].qty \in Nat
      <4> HIDE DEF nfts
      <4>1. Len(nfts) \in Nat /\ DOMAIN nfts = 1 .. Len(nfts) /\ \A i \in DOMAIN nfts : nfts[i] \in NftRow
        BY <2>3
      <4>2. IsFiniteSet(DOMAIN nfts)
        BY <4>1, FS_Interval
      <4>3. QED
        BY <4>1, <4>2 DEF NftRow
    <3> HIDE DEF nfts, a
    <3> SUFFICES ASSUME Len(Nfts) = report.supply[a]
                 PROVE  LET dust == report.bucket[a] - CollectionOf.reserved
                                                     - Distributed(CollectionOf.allocs)
                        IN  /\ dust >= 0
                            /\ CollectionOf.allocs # <<>> /\ EachHasKey(CollectionOf.allocs) =>
                                  dust <= Cardinality(DOMAIN CollectionOf.allocs)
      BY DEF a
    <3>2. PICK b \in Nat : b = report.bucket[a]
      BY <2>1, <2>2 DEF a
    <3>3. PICK s \in Int : s = report.supply[a]
      BY <2>1, <2>2 DEF a
    <3>4. snap.unresolved <= s
      <4>1. Quantity(nfts) \in Nat
        BY <2>3, QuantityNat
      <4>2. QED
        BY <2>3, <3>3, <4>1
    <3>5. ShareOf(snap.unresolved, b, s) \in 0 .. b
      BY <2>3, <3>4, ShareFits
    <3>6. PICK k \in 0 .. b : k = ShareOf(snap.unresolved, b, s)
      BY <3>5
    <3>7. CollectionOf.reserved = k /\ CollectionOf.allocs = Allocate(Eligible(nfts), b - k)
      BY <3>2, <3>3, <3>6 DEF CollectionOf, CollectionShare, nfts, a
    <3>8. QED
      BY <3>1, <3>2, <3>7, AllotmentFits
  <2>6. QED
    <3> DEFINE both == {<<TokenOf, Listed.token, Quantity(snap.listing.rows)>>,
                        <<CollectionOf, Listed.collection, Len(Nfts)>>}
    <3>1. \A s \in both : Bound(s[1], s[3], s[2])
      <4> HIDE DEF Bound
      <4>1. QED
        BY <2>4, <2>5 DEF rows
    <3>2. QED
      BY <3>1 DEF AllotmentBound
<1>2. QED
  BY <1>1, MergeInductive, SnapshotInductive, PTL

\* What is paid of a rate for some rows and for one more holding, together no
\* more than the rate's divisor, is no more than its dividend.
LEMMA RatePaid ==
  ASSUME NEW S, IsFiniteSet(S), NEW w, \A x \in S : w[x] \in Nat,
         NEW num \in Nat, NEW d \in Nat \ {0},
         NEW share, \A x \in S : share[x] = (w[x] * num) \div d,
         NEW more \in Nat, NEW other, other = (more * num) \div d,
         SumFunctionOnSet(w, S) + more <= d \/ num = 0
  PROVE  /\ SumFunctionOnSet(share, S) \in Nat /\ other \in Nat
         /\ SumFunctionOnSet(share, S) + other <= num
<1>4. /\ SumFunctionOnSet(w, S) \in Nat /\ SumFunctionOnSet(share, S) \in Nat
      /\ 0 <= SumFunctionOnSet(w, S) * num - d * SumFunctionOnSet(share, S)
  BY FloorShares
<1>5. PICK W \in Nat : W = SumFunctionOnSet(w, S)
  BY <1>4
<1>6. PICK T \in Nat : T = SumFunctionOnSet(share, S)
  BY <1>4
<1>7. d * T <= num * W
  <2>1. W * num = num * W /\ num * W \in Int /\ d * T \in Int
    BY ProductsCommute
  <2>2. 0 <= W * num - d * T
    BY <1>4, <1>5, <1>6
  <2>3. QED
    BY <2>1, <2>2
<1>8. other \in Nat /\ d * other <= num * more
  <2>1. PICK m \in Nat : m = more * num /\ m = num * more
    BY ProductIsNat, ProductsCommute
  <2>2. other = m \div d
    BY <2>1
  <2>3. m \div d \in Nat /\ (m \div d) * d <= m
    BY FloorWithin
  <2>4. PICK q \in Nat : q = m \div d /\ q * d <= m
    BY <2>3
  <2>5. q * d = d * q /\ d * q \in Int
    BY ProductsCommute
  <2>6. QED
    BY <2>1, <2>2, <2>4, <2>5
<1>9. PICK o \in Nat : o = other
  BY <1>8
<1>10. W + more <= d \/ num = 0
  BY <1>5
<1>11. num * (W + more) <= num * d
  <2>1. CASE W + more <= d
    BY <2>1, ProductGrows
  <2>2. CASE num = 0
    BY <2>2
  <2>3. QED
    BY <1>10, <2>1, <2>2
<1>12. d * (T + o) <= num * d
  <2>1. d * (T + o) = d * T + d * o /\ num * (W + more) = num * W + num * more
    OBVIOUS
  <2>2. d * T \in Int /\ d * o \in Int /\ num * W \in Int /\ num * more \in Int /\ num * d \in Int
    BY ProductsCommute
  <2>3. QED
    BY <1>7, <1>8, <1>9, <1>11, <2>1, <2>2
<1>13. T + o <= num
  <2>1. \A i, j \in Int : d * i <= j * d => i <= j
    BY SMTT(30)
  <2>2. QED
    BY <1>12, <2>1
<1>14. QED
  BY <1>6, <1>8, <1>9, <1>13

\* What the eligible holders hold is what neither the reserve nor scripts do.
LEMMA EligibleHold ==
  ASSUME NEW rows, NEW token, Lists(rows, token)
  PROVE  LET D == {i \in DOMAIN rows : /\ rows[i].addr \notin ReserveAddrs
                                       /\ rows[i].addr \notin ScriptAddrs}
             held(X) == SumFunctionOnSet(token, Addrs \cap X)
         IN  /\ held(ReserveAddrs) \in Nat /\ held(ScriptAddrs \ ReserveAddrs) \in Nat
             /\ Quantity(rows) = SumFunctionOnSet([i \in D |-> rows[i].qty], D)
                                   + held(ReserveAddrs) + held(ScriptAddrs \ ReserveAddrs)
<1> DEFINE X == Addrs \ (ReserveAddrs \cup ScriptAddrs)
           D == {i \in DOMAIN rows : /\ rows[i].addr \notin ReserveAddrs
                                     /\ rows[i].addr \notin ScriptAddrs}
           R == Addrs \cap ReserveAddrs
           Z == Addrs \cap (ScriptAddrs \ ReserveAddrs)
<1>1. IsFiniteSet(DOMAIN rows) /\ \A i \in DOMAIN rows : rows[i].qty \in Nat /\ rows[i].addr \in Addrs
  BY ListedRows
<1>2. D = {i \in DOMAIN rows : rows[i].addr \in X}
  BY <1>1
<1>3. SumFunctionOnSet([i \in D |-> rows[i].qty], D) = SumFunctionOnSet(token, X)
  <2> DEFINE E == {i \in DOMAIN rows : rows[i].addr \in X}
  <2>1. SumFunctionOnSet([i \in E |-> rows[i].qty], E) = SumFunctionOnSet(token, Addrs \cap X)
    <3> HIDE DEF X
    <3>1. QED
      BY RowSums
  <2>2. Addrs \cap X = X
    OBVIOUS
  <2>3. D = E
    BY <1>2
  <2> HIDE DEF D, E, X
  <2>4. QED
    BY <2>1, <2>2, <2>3
<1>4. Quantity(rows) = SumFunctionOnSet(token, Addrs)
  <2> DEFINE E == {i \in DOMAIN rows : rows[i].addr \in Addrs}
             S == DOMAIN rows
  <2>1. SumFunctionOnSet([i \in E |-> rows[i].qty], E) = SumFunctionOnSet(token, Addrs \cap Addrs)
    BY RowSums
  <2>2. Addrs \cap Addrs = Addrs /\ E = S
    BY <1>1
  <2>3. Quantity(rows) = SumFunctionOnSet([i \in S |-> rows[i].qty], S)
    BY DEF Quantity, SumFunction
  <2> HIDE DEF E, S
  <2>4. QED
    BY <2>1, <2>2, <2>3
<1>5. token \in [Addrs -> Nat]
  BY DEF Lists
<1>6. /\ Addrs = X \cup (R \cup Z) /\ X \cap (R \cup Z) = {} /\ R \cap Z = {}
      /\ X \in SUBSET Addrs /\ R \in SUBSET Addrs /\ Z \in SUBSET Addrs
  OBVIOUS
<1> HIDE DEF X, R, Z
<1>7. IsFiniteSet(X) /\ IsFiniteSet(R) /\ IsFiniteSet(Z) /\ IsFiniteSet(R \cup Z)
  BY <1>6, HoldersTyped, FS_Subset, FS_Union
<1>8. /\ \A a \in X : token[a] \in Nat /\ token[a] \in Int
      /\ \A a \in R : token[a] \in Nat /\ token[a] \in Int
      /\ \A a \in Z : token[a] \in Nat /\ token[a] \in Int
  BY <1>5, <1>6
<1>9. SumFunctionOnSet(token, R \cup Z) = SumFunctionOnSet(token, R) + SumFunctionOnSet(token, Z)
  <2>1. \A a \in R \cup Z : token[a] \in Int
    BY <1>8
  <2>2. QED
    BY <1>6, <1>7, <2>1, SumUnion
<1>10. SumFunctionOnSet(token, X \cup (R \cup Z))
         = SumFunctionOnSet(token, X) + SumFunctionOnSet(token, R \cup Z)
  <2> DEFINE Y == R \cup Z
  <2>1. X \cap Y = {} /\ IsFiniteSet(Y) /\ \A a \in X \cup Y : token[a] \in Int
    BY <1>6, <1>7, <1>8
  <2> HIDE DEF Y
  <2>2. SumFunctionOnSet(token, X \cup Y) = SumFunctionOnSet(token, X) + SumFunctionOnSet(token, Y)
    BY <1>7, <2>1, SumUnion
  <2>3. QED
    BY <2>2 DEF Y
<1>11. /\ SumFunctionOnSet(token, R) \in Nat /\ SumFunctionOnSet(token, Z) \in Nat
       /\ SumFunctionOnSet(token, X) \in Nat
  BY <1>7, <1>8, SumNat
<1>12. Quantity(rows) = SumFunctionOnSet(token, X) + SumFunctionOnSet(token, R)
                          + SumFunctionOnSet(token, Z)
  BY <1>4, <1>6, <1>9, <1>10, <1>11
<1>13. QED
  BY <1>3, <1>11, <1>12 DEF R, Z, D

\* The rows of the table are paid no more than their holdings are worth: a key
\* that has several of them is paid for one.
LEMMA BalancesPaid ==
  ASSUME NEW rows, IsFiniteSet(DOMAIN rows), DOMAIN rows \in SUBSET Int,
         \A i \in DOMAIN rows : rows[i].qty \in Nat,
         NEW pot, NEW num \in Nat, NEW d \in Nat \ {0},
         NEW share, \A i \in DOMAIN rows : share[i] = (rows[i].qty * num) \div d
  PROVE  LET perRow(q) == IF q <= 0 THEN 0 ELSE (q * num) \div d
             balance(k) == BalanceOf(Allocate(rows, pot), k)
             keysPaid == SumFunction([k \in Keys |-> perRow(balance(k))])
         IN  keysPaid \in Nat /\ keysPaid <= SumFunctionOnSet(share, DOMAIN rows)
<1> DEFINE S == DOMAIN rows
           allocs == Allocate(rows, pot)
           perRow(q) == IF q <= 0 THEN 0 ELSE (q * num) \div d
           of(k) == {i \in DOMAIN allocs : /\ allocs[i].units >= 1
                                           /\ allocs[i].addr \in DOMAIN KeyOf
                                           /\ KeyOf[allocs[i].addr] = k}
           T == {k \in Keys : of(k) # {}}
           h == [k \in T |-> Max(of(k))]
           f == [k \in Keys |-> perRow(BalanceOf(allocs, k))]
<1>1. DOMAIN allocs \in SUBSET S /\ \A i \in DOMAIN allocs : allocs[i].qty = rows[i].qty
  <2>1. CASE Quantity(rows) = 0
    BY <2>1 DEF Allocate
  <2>2. CASE Quantity(rows) # 0
    <3>1. allocs = [i \in S |-> [addr |-> rows[i].addr, qty |-> rows[i].qty,
                                 units |-> (rows[i].qty * pot) \div Quantity(rows)]]
      BY <2>2 DEF Allocate
    <3>2. QED
      BY <3>1
  <2>3. QED
    BY <2>1, <2>2
<1> HIDE DEF allocs
<1>2. \A k \in T : Max(of(k)) \in of(k)
  <2> SUFFICES ASSUME NEW k \in T PROVE Max(of(k)) \in of(k)
    OBVIOUS
  <2>1. of(k) # {} /\ of(k) \in SUBSET S /\ \A i \in of(k) : i \in Int
    BY <1>1
  <2> HIDE DEF of, S
  <2>2. IsFiniteSet(of(k))
    BY <2>1, FS_Subset DEF S
  <2>3. QED
    BY <2>1, <2>2, MaxExists
<1>3. ASSUME NEW k \in T
      PROVE  /\ h[k] \in S /\ KeyOf[allocs[h[k]].addr] = k
             /\ f[k] \in Nat /\ f[k] <= share[h[k]]
  <2>1. PICK i \in S : i = h[k] /\ i \in of(k) /\ i \in DOMAIN allocs
    BY <1>1, <1>2
  <2>2. BalanceOf(allocs, k) = allocs[i].qty
    BY <2>1 DEF BalanceOf
  <2>3. PICK q \in Nat : q = rows[i].qty
    OBVIOUS
  <2>4. q * num \in Nat
    BY ProductIsNat
  <2>5. PICK m \in Nat : m = q * num
    BY <2>4
  <2>6. m \div d \in Nat
    BY FloorWithin
  <2>7. share[i] = m \div d /\ f[k] = perRow(q)
    BY <1>1, <2>1, <2>2, <2>3, <2>5
  <2>8. perRow(q) \in Nat /\ perRow(q) <= m \div d
    BY <2>5, <2>6
  <2> HIDE DEF f, h, perRow
  <2>9. h[k] \in S /\ f[k] \in Nat /\ f[k] <= share[h[k]]
    BY <2>1, <2>7, <2>8
  <2>10. KeyOf[allocs[h[k]].addr] = k
    BY <2>1
  <2>11. QED
    BY <2>9, <2>10
<1>4. \A k \in Keys \ T : f[k] = 0
  BY DEF BalanceOf
<1>5. \A i \in S : share[i] \in Nat
  <2> SUFFICES ASSUME NEW i \in S PROVE share[i] \in Nat
    OBVIOUS
  <2>1. PICK m \in Nat : m = rows[i].qty * num
    BY ProductIsNat
  <2>2. m \div d \in Nat
    BY FloorWithin
  <2>3. QED
    BY <2>1, <2>2
<1>6. IsFiniteSet(T) /\ IsFiniteSet(Keys \ T) /\ T \in SUBSET Keys
  BY MergeAssumption, FS_Subset, FS_Difference
<1>7. SumFunction(f) = SumFunctionOnSet(f, Keys)
  BY DEF SumFunction
<1> HIDE DEF f, h, of, T, S, perRow
<1>8. SumFunctionOnSet(f, T) \in Nat /\ SumFunctionOnSet(f, T) <= SumFunctionOnSet(share, S)
  <2>1. IsFiniteSet(S)
    BY DEF S
  <2>2. \A k \in T : h[k] \in S /\ f[k] \in Nat /\ f[k] <= share[h[k]]
    BY <1>3
  <2>3. \A j, k \in T : h[j] = h[k] => j = k
    BY <1>3
  <2>4. SumFunctionOnSet(f, T) \in Nat
    BY <1>6, <2>2, SumNat
  <2>5. SumFunctionOnSet(f, T) <= SumFunctionOnSet(share, S)
    BY <1>5, <1>6, <2>1, <2>2, <2>3, SumInjection
  <2>6. QED
    BY <2>4, <2>5
<1>9. SumFunctionOnSet(f, Keys \ T) = 0
  BY <1>4, <1>6, SumZero
<1>10. SumFunctionOnSet(f, Keys) = SumFunctionOnSet(f, T) + SumFunctionOnSet(f, Keys \ T)
  <2> DEFINE Z == Keys \ T
  <2>1. Keys = T \cup Z /\ T \cap Z = {} /\ \A k \in T \cup Z : f[k] \in Int
    BY <1>3, <1>4, <1>6
  <2>2. IsFiniteSet(Z)
    BY <1>6
  <2> HIDE DEF Z
  <2>3. SumFunctionOnSet(f, T \cup Z) = SumFunctionOnSet(f, T) + SumFunctionOnSet(f, Z)
    BY <1>6, <2>1, <2>2, SumUnion
  <2>4. QED
    BY <2>1, <2>3 DEF Z
<1>11. SumFunction(f) \in Nat /\ SumFunction(f) <= SumFunctionOnSet(share, S)
  BY <1>7, <1>8, <1>9, <1>10
<1>12. QED
  BY <1>11 DEF f, S, allocs, perRow

\* The waived units the team is paid for on top of a bucket that the others
\* could redeem whole fit in it, as long as the report counted what the snapshot
\* found and scripts, which the snapshot leaves out, hold as much
\* (scripts/regen_v5_1_artifacts.py:283-290).
THEOREM CarvesFit == MergeSpec => []CarveFits
<1>1. ASSUME IInv, Snapshotting PROVE CarveFits
  <2> DEFINE a == Listed.token
             rows == snap.listing.rows
             token == holding.token
             held(S) == SumFunctionOnSet(token, Addrs \cap S)
             D == {i \in DOMAIN rows : /\ rows[i].addr \notin ReserveAddrs
                                       /\ rows[i].addr \notin ScriptAddrs}
             w == [i \in D |-> rows[i].qty]
             r == rate[a]
             share == [i \in D |-> (rows[i].qty * r.num) \div r.den]
             waived == Waiver[a]
             bucket == report.bucket[a]
             supply == report.supply[a]
             other == (waived * r.num) \div r.den
             pot == bucket - ShareOf(Quantity(AtReserve(rows)), bucket, supply)
             allocs == Allocate(Eligible(rows), pot)
  <2> SUFFICES ASSUME Still, Quantity(rows) = supply, held(ReserveAddrs) = waived,
                      held(ScriptAddrs \ ReserveAddrs) >= waived
               PROVE  Leftover(allocs, r, waived, 0, bucket, supply) >= 0
    <3>1. TokenOf.allocs = allocs
      BY DEF TokenOf, TokenShare
    <3>2. QED
      BY <3>1 DEF CarveFits
  <2>1. a \in Assets /\ bucket \in Nat /\ supply \in Int /\ waived \in Nat
    BY <1>1, MergeAssumption, RedemptionAssumption DEF IInv, TypeOK
  <2>2. r = RateRow(bucket, supply, waived, 0) /\ r \in [base : Nat, num : Nat, den : Nat \ {0}]
    BY <1>1, <2>1, StillRead DEF IInv, TypeOK, Reported
  <2>3. Lists(rows, token)
    BY <1>1, StillRead
  <2>4. /\ IsFiniteSet(D) /\ \A i \in D : rows[i].qty \in Nat /\ rows[i].qty > 0
        /\ \A i \in D : w[i] = rows[i].qty /\ share[i] = (w[i] * r.num) \div r.den
    <3>1. IsFiniteSet(DOMAIN rows)
          /\ \A i \in DOMAIN rows : rows[i].qty \in Nat /\ rows[i].qty > 0
      BY <2>3, ListedRows
    <3>2. IsFiniteSet(D)
      BY <3>1, FS_Subset
    <3>3. QED
      BY <3>1, <3>2
  <2>5. /\ held(ReserveAddrs) \in Nat /\ held(ScriptAddrs \ ReserveAddrs) \in Nat
        /\ Quantity(rows) = SumFunctionOnSet(w, D) + held(ReserveAddrs)
                              + held(ScriptAddrs \ ReserveAddrs)
    <3> HIDE DEF rows, token
    <3>1. QED
      BY <2>3, EligibleHold
  <2>6. SumFunctionOnSet(w, D) \in Nat
    <3>1. \A i \in D : w[i] \in Nat
      BY <2>4
    <3> HIDE DEF w, D
    <3>2. QED
      BY <2>4, <3>1, SumNat
  <2>7. SumFunctionOnSet(w, D) + waived <= supply - waived
    <3> HIDE DEF w, D, rows, token, waived, supply, held
    <3>1. PICK team, scripts \in Nat :
             team = held(ReserveAddrs) /\ scripts = held(ScriptAddrs \ ReserveAddrs)
      BY <2>5
    <3>2. supply = SumFunctionOnSet(w, D) + team + scripts /\ team = waived /\ scripts >= waived
      BY <2>1, <2>5, <3>1
    <3>3. QED
      BY <2>1, <2>6, <3>1, <3>2
  <2> DEFINE perRow(q) == IF q <= 0 THEN 0 ELSE (q * r.num) \div r.den
             paidOut == SumFunction([k \in Keys |-> perRow(BalanceOf(allocs, k))])
             team == IF waived > 0 THEN IF waived <= 0 THEN 0 ELSE other ELSE 0
  <2>8. Leftover(allocs, r, waived, 0, bucket, supply) = bucket - paidOut - team - 0
    <3>1. ShareOf(0, bucket, supply) = 0
      <4> HIDE DEF bucket, supply
      <4>1. CASE supply > 0
        <5>1. 0 * bucket = 0 /\ 0 \div supply = 0
          BY <2>1, <4>1
        <5>2. QED
          BY <4>1, <5>1 DEF ShareOf
      <4>2. QED
        BY <4>1 DEF ShareOf
    <3> HIDE DEF bucket, supply, r, rows, waived, D, share, allocs
    <3>2. QED
      BY <3>1 DEF Leftover
  <2>9. /\ r.num \in Nat /\ r.den \in Nat \ {0}
        /\ r.num <= bucket
        /\ SumFunctionOnSet(w, D) + waived <= r.den \/ r.num = 0
    <3> HIDE DEF w, D, rows, token, waived, supply, bucket, r
    <3>1. CASE supply - waived + 0 <= 0
      <4>1. r = NoRate
        BY <2>2, <3>1 DEF RateRow
      <4>2. QED
        BY <2>1, <4>1 DEF NoRate
    <3>2. CASE ~ (supply - waived + 0 <= 0)
      <4>1. r.num = bucket /\ r.den = supply - waived + 0
        BY <2>2, <3>2 DEF RateRow
      <4>2. QED
        BY <2>1, <2>2, <2>7, <4>1
    <3>3. QED
      BY <3>1, <3>2
  <2> DEFINE whole == SumFunctionOnSet(share, D)
  <2>10. whole \in Nat /\ other \in Nat /\ whole + other <= r.num
    <3>1. \A i \in D : w[i] \in Nat
      BY <2>4
    <3>2. other = (waived * r.num) \div r.den
      OBVIOUS
    <3> HIDE DEF w, D, rows, token, waived, supply, bucket, r, share, other
    <3>3. PICK num \in Nat : num = r.num
      BY <2>9
    <3>4. PICK den \in Nat \ {0} : den = r.den
      BY <2>9
    <3>5. /\ \A i \in D : share[i] = (w[i] * num) \div den
          /\ other = (waived * num) \div den
          /\ SumFunctionOnSet(w, D) + waived <= den \/ num = 0
      <4>1. \A i \in D : share[i] = (w[i] * num) \div den
        BY <2>4, <3>3, <3>4
      <4>2. other = (waived * num) \div den
        BY <3>2, <3>3, <3>4
      <4>3. SumFunctionOnSet(w, D) + waived <= den \/ num = 0
        BY <2>9, <3>3, <3>4
      <4>4. QED
        BY <4>1, <4>2, <4>3
    <3>6. IsFiniteSet(D) /\ waived \in Nat
      BY <2>1, <2>4
    <3>7. whole \in Nat /\ other \in Nat /\ whole + other <= num
      <4>1. \A i \in D : w[i] \in Nat
        BY <3>1
      <4>2. QED
        BY <4>1, <3>5, <3>6, RatePaid, SMTT(30)
    <3>8. QED
      BY <3>3, <3>7
  <2>11. team \in Nat /\ team <= other
    <3> HIDE DEF waived, other
    <3>1. other \in Nat /\ waived \in Nat
      BY <2>1, <2>10
    <3>2. CASE waived > 0
      <4>1. team = other
        BY <3>1, <3>2
      <4> HIDE DEF team
      <4>2. QED
        BY <3>1, <4>1
    <3>3. CASE ~ (waived > 0)
      <4>1. team = 0
        BY <3>3
      <4> HIDE DEF team
      <4>2. QED
        BY <3>1, <4>1
    <3>4. QED
      BY <3>2, <3>3
  <2>12. paidOut \in Nat /\ paidOut <= whole
    <3> DEFINE some == Eligible(rows)
    <3>1. DOMAIN some = D /\ \A i \in D : some[i] = rows[i]
      BY DEF Eligible, RestrictValues, Restrict
    <3>2. D \in SUBSET Int
      <4> HIDE DEF rows
      <4>1. rows \in Seq(Row)
        BY <2>3 DEF Lists
      <4>2. QED
        BY <4>1
    <3> HIDE DEF D, rows, some
    <3>3. PICK num \in Nat, d \in Nat \ {0} : num = r.num /\ d = r.den
      BY <2>2
    <3>4. \A i \in D : some[i].qty \in Nat /\ share[i] = (some[i].qty * num) \div d
      BY <2>4, <3>1, <3>3
    <3> HIDE DEF share, pot, r
    <3> DEFINE per(q) == IF q <= 0 THEN 0 ELSE (q * num) \div d
               keysPaid == SumFunction([k \in Keys |-> per(BalanceOf(Allocate(some, pot), k))])
    <3>5. keysPaid \in Nat /\ keysPaid <= SumFunctionOnSet(share, DOMAIN some)
      BY <2>4, <3>1, <3>2, <3>4, BalancesPaid
    <3>6. keysPaid = paidOut
      BY <3>3 DEF some
    <3> HIDE DEF keysPaid, paidOut
    <3>7. QED
      BY <3>1, <3>5, <3>6
  <2> HIDE DEF whole, paidOut, allocs, team, other, bucket, supply, waived, r, rows
  <2>13. QED
    BY <2>1, <2>8, <2>9, <2>10, <2>11, <2>12
<1>2. QED
  BY <1>1, MergeInductive, SnapshotInductive, PTL
=============================================================================
