----------------------------- MODULE Redemption -----------------------------
(***************************************************************************)
(* What the pool pays for the legacy units over its whole life: the supply *)
(* is counted and the rates are fixed, surrenders are paid at them, then a *)
(* redemption pin is read from the chain, checked and deployed, and from   *)
(* then on the signers hold every unit to what the pin says remains of it. *)
(*                                                                         *)
(* A legacy unit is in circulation, in the team's waived reserve, or in    *)
(* quarantine, which nothing ever leaves.                                  *)
(***************************************************************************)
EXTENDS RateTable

CONSTANTS Assets,        \* the merge assets
          Fungible,      \* those that are one fungible token
          Units,         \* the legacy units of all of them
          AssetOf,       \* the asset of a unit
          TokenUnit,     \* the unit of a fungible asset
          Kind,          \* "token", "plain", "user" or "reference" (CIP-68)
          Supply0,       \* the supply of a unit when the rates are prepared
          Waiver,        \* the team's waived units of an asset
          Burned,        \* units of an asset that count as burned
          BucketSplits,  \* the bucket splits a merge report may state
          MaxSupply      \* bound: a mint takes no unit past it

Surrenders == [Units -> 0 .. 2]     \* bound: what one surrender brings

ASSUME RedemptionAssumption ==
    /\ IsFiniteSet(Units)
    /\ Fungible \subseteq Assets
    /\ AssetOf \in [Units -> Assets]
    /\ TokenUnit \in [Fungible -> Units]
    /\ \A a \in Fungible : \A u \in Units : AssetOf[u] = a <=> u = TokenUnit[a]
    /\ Supply0 \in [Units -> Nat]
    /\ Waiver \in [Assets -> Nat]
    /\ \A a \in Fungible : Waiver[a] <= Supply0[TokenUnit[a]]
    /\ \A a \in Assets \ Fungible : Waiver[a] = 0
    /\ Burned \in [Assets -> Nat]
    /\ BucketSplits \subseteq [Assets -> Nat]
    /\ MaxSupply \in Nat

VARIABLES free, reserve, quarantine,  \* where the units are
          largest,    \* the most of a unit one transaction sent to quarantine
          changed,    \* units minted or burned since the pin's supply slot
          report,     \* the merge report: buckets and counted supplies
          rate,       \* the rate table
          pin,        \* the redemption pin, while it is read and once it holds
          serving,    \* "open": before the pin; "stopped"; "pinned"
          ledger,     \* units approved since the pin
          sold, counted, paid  \* units, units per asset and cMATRA paid for, ever

chainVars == <<free, reserve, quarantine, largest, changed>>
ghosts == <<sold, counted, paid>>
vars == <<chainVars, report, rate, pin, serving, ledger, ghosts>>

Supply(u) == free[u] + reserve[u] + quarantine[u]
UnitsOf(a) == {u \in Units : AssetOf[u] = a}
Collectible == {u \in Units : AssetOf[u] \notin Fungible}
UnitWaiver(u) == Waiver[AssetOf[u]]

Live(a) == {u \in UnitsOf(a) : Supply(u) > 0}
Users(S) == {u \in S : Kind[u] = "user"}
Plain(S) == {u \in S : Kind[u] # "reference"}

(* redeemable_names: the user tokens of a CIP-68 collection, any live name *)
(* but reference tokens of another.                                        *)
RedeemableNames(a) ==
    IF Users(Live(a)) # {} THEN Users(Live(a)) ELSE Plain(Live(a))

(* filter_nft_assets: the same choice among the names with a supply of 1.  *)
TrueNfts(a) ==
    LET single == {u \in UnitsOf(a) : Supply(u) = 1}
    IN  IF Users(single) # {} THEN Users(single) ELSE Plain(single)

CountedSupply(a) ==
    IF a \in Fungible THEN Supply(TokenUnit[a]) ELSE Cardinality(TrueNfts(a))

Unpinned == [stage |-> "none", names |-> {}, supply |-> [u \in Units |-> 0],
             quarantined |-> [u \in Units |-> 0], sent |-> [u \in Units |-> 0],
             already |-> [u \in Units |-> 0]]

Init ==
    /\ reserve = [u \in Units |-> UnitWaiver(u)]
    /\ free = [u \in Units |-> Supply0[u] - UnitWaiver(u)]
    /\ quarantine = [u \in Units |-> 0]
    /\ largest = [u \in Units |-> 0]
    /\ changed = {}
    /\ report = [stage |-> "none", bucket |-> [a \in Assets |-> 0],
                 supply |-> [a \in Assets |-> 0]]
    /\ rate = [a \in Assets |-> NoRate]
    /\ pin = Unpinned
    /\ serving = "open"
    /\ ledger = [u \in Units |-> 0]
    /\ sold = [u \in Units |-> 0]
    /\ counted = [a \in Assets |-> 0]
    /\ paid = [a \in Assets |-> 0]

-----------------------------------------------------------------------------
(* The rates. *)

(* build_merge_report: supplies as the chain has them now. *)
MergeReport(bucket) ==
    /\ report.stage = "none"
    /\ report' = [stage |-> "made", bucket |-> bucket,
                  supply |-> [a \in Assets |-> CountedSupply(a) - Burned[a]]]
    /\ UNCHANGED <<chainVars, rate, pin, serving, ledger, ghosts>>

RatesOf == [a \in Assets |-> RateRow(report.bucket[a], report.supply[a], Waiver[a], 0)]

(* What the team's waived units would be owed is carved out of the pool    *)
(* beforehand, and must leave something of it.                             *)
CarveLeavesPool ==
    SumOver(Assets, LAMBDA a : Redemption(RatesOf[a], Waiver[a]))
        < SumOver(Assets, LAMBDA a : report.bucket[a])

(* build_rate_table: fixed from here on. *)
PublishRates ==
    /\ report.stage = "made"
    /\ CarveLeavesPool
    /\ report' = [report EXCEPT !.stage = "priced"]
    /\ rate' = RatesOf
    /\ UNCHANGED <<chainVars, pin, serving, ledger, ghosts>>

-----------------------------------------------------------------------------
(* What others do with the units.  Collections can still mint and burn;    *)
(* the fungible policies are closed.                                       *)

Mint(u) ==
    /\ u \in Collectible
    /\ Supply(u) < MaxSupply
    /\ free' = [free EXCEPT ![u] = @ + 1]
    /\ changed' = changed \cup {u}
    /\ UNCHANGED <<reserve, quarantine, largest, report, rate, pin, serving, ledger, ghosts>>

Burn(u) ==
    /\ u \in Collectible
    /\ free[u] > 0
    /\ free' = [free EXCEPT ![u] = @ - 1]
    /\ changed' = changed \cup {u}
    /\ UNCHANGED <<reserve, quarantine, largest, report, rate, pin, serving, ledger, ghosts>>

(* The waived reserve is an address like any other. *)
LeaveReserve(u) ==
    /\ reserve[u] > 0
    /\ reserve' = [reserve EXCEPT ![u] = @ - 1]
    /\ free' = [free EXCEPT ![u] = @ + 1]
    /\ UNCHANGED <<quarantine, largest, changed, report, rate, pin, serving, ledger, ghosts>>

JoinReserve(u) ==
    /\ u \notin Collectible
    /\ free[u] > 0
    /\ free' = [free EXCEPT ![u] = @ - 1]
    /\ reserve' = [reserve EXCEPT ![u] = @ + 1]
    /\ UNCHANGED <<quarantine, largest, changed, report, rate, pin, serving, ledger, ghosts>>

Quarantine(q) ==
    /\ \A u \in Units : q[u] <= free[u]
    /\ free' = [u \in Units |-> free[u] - q[u]]
    /\ quarantine' = [u \in Units |-> quarantine[u] + q[u]]
    /\ largest' = [u \in Units |-> IF q[u] > largest[u] THEN q[u] ELSE largest[u]]
    /\ UNCHANGED <<reserve, changed>>

(* Anyone can send units to quarantine for nothing. *)
Donate(u) ==
    /\ Quarantine([v \in Units |-> IF v = u THEN 1 ELSE 0])
    /\ UNCHANGED <<report, rate, pin, serving, ledger, ghosts>>

-----------------------------------------------------------------------------
(* Surrenders. *)

(* Quantities are summed per asset before they are priced. *)
Count(a, q) ==
    IF a \in Fungible
    THEN q[TokenUnit[a]]
    ELSE Cardinality({u \in UnitsOf(a) : q[u] = 1})

Pay(q, n) ==
    /\ \A a \in Assets : n[a] > 0 => Redeemable(rate[a], n[a])
    /\ sold' = [u \in Units |-> sold[u] + q[u]]
    /\ counted' = [a \in Assets |-> counted[a] + n[a]]
    /\ paid' = [a \in Assets |->
                   paid[a] + IF n[a] > 0 THEN Redemption(rate[a], n[a]) ELSE 0]

(* Before the pin: one asset, in any quantity. *)
OpenSurrender(u, k) ==
    /\ serving = "open"
    /\ u \in RedeemableNames(AssetOf[u])
    /\ LET q == [v \in Units |-> IF v = u THEN k ELSE 0]
       IN  /\ Quarantine(q)
           /\ Pay(q, [a \in Assets |-> IF a = AssetOf[u] THEN k ELSE 0])
    /\ UNCHANGED <<report, rate, pin, serving, ledger>>

(* What the pin leaves of a unit. *)
\* Mutant: the record is taken off the waiver and quarantine forgotten.
RemainingUncounted(u) ==
    LET left == pin.supply[u] - (UnitWaiver(u) - pin.already[u])
    IN  IF u \in pin.names /\ left > 0 THEN left ELSE 0

Remaining(u) ==
    LET left == pin.supply[u] - (UnitWaiver(u) - pin.already[u]) - pin.quarantined[u]
    IN  IF u \in pin.names /\ left > 0 THEN left ELSE 0

(* What the ledgers and the chain checks of the signers admit. *)
SignersAdmit(q) ==
    \A u \in Units : q[u] > 0 =>
        /\ u \in pin.names
        /\ u \in Collectible => q[u] = 1
        /\ ledger[u] + q[u] <= Remaining(u)
        /\ Supply(u) <= pin.supply[u]
        /\ u \in Collectible => u \notin changed

PinnedSurrender(q) ==
    /\ serving = "pinned"
    /\ \E u \in Units : q[u] > 0
    /\ SignersAdmit(q)
    /\ Quarantine(q)
    /\ Pay(q, [a \in Assets |-> Count(a, q)])
    /\ ledger' = [u \in Units |-> ledger[u] + q[u]]
    /\ UNCHANGED <<report, rate, pin, serving>>

-----------------------------------------------------------------------------
(* The pin. *)

Stop ==
    /\ serving = "open"
    /\ serving' = "stopped"
    /\ UNCHANGED <<chainVars, report, rate, pin, ledger, ghosts>>

(* Supplies as of one slot, from the mint histories. *)
ReadSupply ==
    /\ pin.stage = "none"
    /\ pin' = [Unpinned EXCEPT
                  !.stage = "supply",
                  !.names = UNION {RedeemableNames(a) : a \in Assets},
                  !.supply = [u \in Units |-> Supply(u)]]
    /\ changed' = {}
    /\ UNCHANGED <<free, reserve, quarantine, largest, report, rate, serving, ledger, ghosts>>

(* What quarantine holds, at the tip. *)
ReadQuarantine ==
    /\ pin.stage = "supply"
    /\ pin' = [pin EXCEPT !.stage = "counted", !.quarantined = quarantine, !.sent = largest]
    /\ UNCHANGED <<chainVars, report, rate, serving, ledger, ghosts>>

(* A record that n waived units of u are in quarantine already is borne    *)
(* out: it is within the waiver and the quarantine count, one transaction  *)
(* before that count sent as many, and the reserve holds at most the rest. *)
\* Mutant: the reserve is not looked at.
BorneOutByCount(u, n) ==
    n > 0 => n <= UnitWaiver(u) /\ n <= pin.quarantined[u] /\ n <= pin.sent[u]

BorneOut(u, n) ==
    n > 0 => /\ n <= UnitWaiver(u)
             /\ n <= pin.quarantined[u]
             /\ n <= pin.sent[u]
             /\ reserve[u] <= UnitWaiver(u) - n

WritePin(u, n) ==
    /\ pin.stage = "counted"
    /\ pin' = IF BorneOut(u, n)
              THEN [pin EXCEPT !.stage = "written", !.already[u] = n]
              ELSE Unpinned
    /\ UNCHANGED <<chainVars, report, rate, serving, ledger, ghosts>>

(* drift: every way the chain differs from the pin. *)
\* Mutant: quarantine may have grown since the pin.
DriftBySupply ==
    \/ \E u \in pin.names :
           \/ Supply(u) > pin.supply[u]
           \/ ~BorneOut(u, pin.already[u])
           \/ u \in Collectible /\ u \in changed
    \/ \E a \in Assets \ Fungible : RedeemableNames(a) \notin SUBSET pin.names

Drift ==
    \/ \E u \in pin.names :
           \/ Supply(u) > pin.supply[u]
           \/ quarantine[u] # pin.quarantined[u]
           \/ ~BorneOut(u, pin.already[u])
           \/ u \in Collectible /\ u \in changed
    \/ \E a \in Assets \ Fungible : RedeemableNames(a) \notin SUBSET pin.names

(* The operator deploys a pin that the check finds to hold, with nothing   *)
(* being served meanwhile, and reads a new one otherwise.                  *)
Deploy ==
    /\ pin.stage = "written"
    /\ serving = "stopped"
    /\ IF Drift
       THEN pin' = Unpinned /\ serving' = serving
       ELSE pin' = [pin EXCEPT !.stage = "deployed"] /\ serving' = "pinned"
    /\ UNCHANGED <<chainVars, report, rate, ledger, ghosts>>

(* Everything that happens after the merge report. *)
Redeeming ==
    \/ PublishRates
    \/ \E u \in Units : Mint(u) \/ Burn(u) \/ LeaveReserve(u) \/ JoinReserve(u) \/ Donate(u)
    \/ \E u \in Units, k \in 1 .. 2 : OpenSurrender(u, k)
    \/ \E q \in Surrenders : PinnedSurrender(q)
    \/ Stop
    \/ ReadSupply
    \/ ReadQuarantine
    \/ \E u \in Units \ Collectible : \E n \in 0 .. UnitWaiver(u) : WritePin(u, n)
    \/ Deploy

Next == (\E b \in BucketSplits : MergeReport(b)) \/ Redeeming

Spec == Init /\ [][Next]_vars

-----------------------------------------------------------------------------
Larger(m, n) == IF m > n THEN m ELSE n
Lesser(m, n) == IF m > n THEN n ELSE m

(* Every count is a number of units that exist, every stage one of the     *)
(* code's.                                                                 *)
TypeOK ==
    /\ free \in [Units -> Nat] /\ reserve \in [Units -> Nat]
    /\ quarantine \in [Units -> Nat] /\ largest \in [Units -> Nat]
    /\ changed \subseteq Units
    /\ report \in [stage : {"none", "made", "priced"},
                   bucket : [Assets -> Nat], supply : [Assets -> Int]]
    /\ rate \in [Assets -> [base : Nat, num : Nat, den : Nat \ {0}]]
    /\ pin \in [stage : {"none", "supply", "counted", "written", "deployed"},
                names : SUBSET Units, supply : [Units -> Nat],
                quarantined : [Units -> Nat], sent : [Units -> Nat],
                already : [Units -> Nat]]
    /\ serving \in {"open", "stopped", "pinned"}
    /\ ledger \in [Units -> Nat] /\ sold \in [Units -> Nat]
    /\ counted \in [Assets -> Nat] /\ paid \in [Assets -> Nat]

(* However a holding is split over surrenders, what was paid for an asset  *)
(* never exceeds the exact rate for the units that were paid for: each     *)
(* payment is rounded down once, after the units of a surrender are summed *)
(* (compute_redemption, surrendered_entitlement).                          *)
PaidAtRate == \A a \in Assets : paid[a] * rate[a].den <= counted[a] * rate[a].num

(* "No unit of the committed pin redeems more than its bucket over its     *)
(* lifetime" (tests/test_surrendered_entitlement.py:312): what was paid    *)
(* for before the pin and after it stays within the supply at the pin less *)
(* the waiver, unless quarantine alone exceeds it.  Waived units that the  *)
(* pin records in quarantine come off the waiver.                          *)
UnitLifetime ==
    serving = "pinned" => \A u \in pin.names :
        sold[u] <= Larger(pin.quarantined[u],
                          pin.supply[u] - UnitWaiver(u) + pin.already[u])

(* A fungible asset's payments stay within its bucket, but for what        *)
(* quarantine held beyond it, burned units, and recorded waived units, at  *)
(* the exact rate.                                                         *)
FungibleWithinBucket ==
    serving = "pinned" => \A a \in Fungible \cap {AssetOf[u] : u \in pin.names} :
        paid[a] * rate[a].den <=
            rate[a].num * Larger(pin.quarantined[TokenUnit[a]],
                                 rate[a].den + Burned[a] + pin.already[TokenUnit[a]])

(* A pin with a record is deployed only while it promises no more of the   *)
(* unit than exists outside the waived reserve and quarantine (README.md,  *)
(* "so the pin never promises more").                                      *)
RecordedPinPromise ==
    [][serving' = "pinned" /\ serving # "pinned" =>
          \A u \in pin.names : pin.already[u] > 0 => Remaining(u) <= free[u]]_vars

(* A collection's payments stay within its bucket: the rate table prices   *)
(* it as bucket / redeemable count (ELIGIBILITY_RULES.md 8.2).             *)
CollectionWithinBucket ==
    \A a \in Assets \ Fungible : paid[a] <= report.bucket[a]
=============================================================================
