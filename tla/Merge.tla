------------------------------- MODULE Merge -------------------------------
(***************************************************************************)
(* The pipeline around the redemption: prices from the DEX pools, the      *)
(* merge report and the rate table from the prices and the supplies, the   *)
(* reference snapshot of the holders, then the surrenders.                 *)
(* (_run_full_pipeline.py runs the phases in this order.)                  *)
(*                                                                         *)
(* Phase 3 lists the holders of one token and of one collection while they *)
(* go on trading; nothing later reads its result.                          *)
(***************************************************************************)
EXTENDS Redemption, Twap, Blockfrost, Allocation

CONSTANTS Order,        \* the assets, in the order of the configuration
          Pool,         \* the public pool
          Fine,         \* one over the relative error of a share of it
          Markets,      \* the pools of each asset, as they may be found
          MinTvl, TopPools, Mode,
          Holders,      \* addresses, in the order the provider lists them
          Holdings,     \* [token: address -> quantity, nft: NFT -> address]
          Nfts,         \* the collection's NFTs, in order
          Resolvable,   \* NFT -> the owner that the script address it is at names
          Listed,       \* the token and the collection of phase 3
          MaxMoves      \* bound on transfers during a snapshot

Addrs == Range(Holders)

\* A supply covers what has been burned of it; collections burn nothing.
\* The buckets a report may state are all that split the pool.  Doubles are
\* fine enough for it: seven valuations are added up, one is divided by the
\* sum and the quotient multiplied by the pool, an error of at most 8 parts in
\* 2^53, one in 1.1e15, and the pool is 7.2e14 units.  Closes are prices, and
\* the provider lists an address once.
ASSUME MergeAssumption ==
    /\ Order \in Seq(Assets) /\ Range(Order) = Assets
    /\ Pool \in Nat /\ Fine \in Nat /\ Pool < Fine
    /\ \A b \in [Assets -> 0 .. Pool] : SumFunction(b) = Pool => b \in BucketSplits
    /\ \A a \in Fungible : Burned[a] <= Supply0[TokenUnit[a]]
    /\ \A a \in Assets \ Fungible : Burned[a] = 0
    /\ Markets \subseteq [Assets -> Seq([tvl : Int, closes : Seq(Nat \cup {Missing})])]
    /\ MinTvl \in Int /\ TopPools \in Nat /\ Mode \in {"median", "deepest", "mean"}
    /\ Holders \in Seq(Addrs) /\ IsInjective(Holders)
    /\ Holdings \subseteq [token : [Addrs -> Nat], nft : [Range(Nfts) -> Addrs]]
    /\ Nfts \in Seq(Range(Nfts)) /\ Nfts # <<>>
    /\ Listed.token \in Fungible /\ Listed.collection \in Assets \ Fungible
    /\ IsFiniteSet(Keys)

VARIABLES market,   \* the pools of each asset, until phase 1 has read them
          price,    \* what phase 1 made of them, until the report
          value,    \* the valuations of the report, until the rates are fixed
          holding,  \* who holds the token and the NFTs, while phase 3 runs
          snap      \* phase 3

mergeVars == <<market, price, value, holding, snap>>
allVars == <<vars, mergeVars>>

NoHolding == [token |-> <<>>, nft |-> <<>>]
NoSnap == [stage |-> "idle", listing |-> Listing, nftRows |-> <<>>,
           unresolved |-> 0, asked |-> 0, moves |-> 0]
NoValue == [a \in Assets |-> 0]

MergeInit ==
    /\ Init
    /\ market \in Markets
    /\ price = <<>>
    /\ value = NoValue
    /\ holding = NoHolding
    /\ snap = NoSnap

(* Phase 1: build_twap_report. *)
Price ==
    /\ market # <<>>
    /\ price' = [a \in Assets |-> TwapPrice(market[a], MinTvl, TopPools, Mode)]
    /\ market' = <<>>
    /\ UNCHANGED <<vars, value, holding, snap>>

(* Phase 2: build_merge_report.  Without a price for anything it stops. *)
Report ==
    LET v == [a \in Assets |-> price[a] * (CountedSupply(a) - Burned[a])]
    IN  /\ price # <<>>
        /\ Valued(Order, v)
        /\ \E share \in Shares(Order, v, Pool, Fine) :
              MergeReport([a \in Assets |-> Bucket(Order, share, Pool, a)])
        /\ value' = v
        /\ price' = <<>>
        /\ UNCHANGED <<market, holding, snap>>

(* Everything else of the redemption; the pipeline starts with the prices. *)
Redeem ==
    /\ market = <<>>
    /\ snap.stage = "idle"
    /\ Redeeming
    /\ value' = IF report'.stage = "priced" THEN NoValue ELSE value
    /\ UNCHANGED <<market, price, holding, snap>>

-----------------------------------------------------------------------------
(* Phase 3. *)

(* Bound: in the model it runs before anything has been surrendered. *)
StartSnapshot ==
    /\ report.stage = "priced"
    /\ serving = "open" /\ pin.stage = "none"
    /\ \A a \in Assets : counted[a] = 0
    /\ \A u \in Units : quarantine[u] = 0 /\ free[u] = Supply0[u] - UnitWaiver(u)
    /\ changed = {}
    /\ snap.stage = "idle"
    /\ snap' = [NoSnap EXCEPT !.stage = "listing"]
    /\ holding' \in Holdings
    /\ UNCHANGED <<vars, market, price, value>>

Move(h) ==
    /\ snap.stage \in {"listing", "nfts"}
    /\ snap.moves < MaxMoves
    /\ holding' = h
    /\ snap' = [snap EXCEPT !.moves = @ + 1]
    /\ UNCHANGED <<vars, market, price, value>>

TransferToken(a, b) ==
    /\ a # b
    /\ holding.token[a] > 0
    /\ Move([token |-> [holding.token EXCEPT ![a] = @ - 1, ![b] = @ + 1],
             nft   |-> holding.nft])

TransferNft(n, b) ==
    /\ holding.nft[n] # b
    /\ Move([holding EXCEPT !.nft[n] = b])

\* The k-th of some positions.
Nth(S, k) == CHOOSE i \in S : Cardinality({j \in S : j <= i}) = k

(* The rows the provider lists while the token is held like this. *)
HolderRows(token) ==
    LET held == {i \in DOMAIN Holders : token[Holders[i]] > 0}
    IN  [k \in 1 .. Cardinality(held) |->
            [addr |-> Holders[Nth(held, k)], qty |-> token[Holders[Nth(held, k)]]]]

(* get_asset_addresses, one request at a time. *)
AskHolders ==
    /\ snap.stage = "listing"
    /\ \E l \in {Answered(snap.listing, PageOf(HolderRows(holding.token), snap.listing.page)),
                 Refused(snap.listing), Broken(snap.listing)} :
          snap' = [snap EXCEPT !.listing = l,
                               !.stage = CASE l.status = "asking" -> "listing"
                                           [] l.status = "done"   -> "nfts"
                                           [] l.status = "failed" -> "failed"]
    /\ UNCHANGED <<vars, market, price, value, holding>>

(* fetch_nft_holders: an NFT counts for its holder, or for the owner that  *)
(* a script address names, or for nobody.                                  *)
CountsFor(n) ==
    IF holding.nft[n] \notin ScriptAddrs THEN {holding.nft[n]}
    ELSE IF n \in DOMAIN Resolvable THEN {Resolvable[n]} ELSE {}

(* One more NFT of someone: in the row he has, or in one of its own. *)
Tallied(rows, addr) ==
    LET his == {i \in DOMAIN rows : rows[i].addr = addr}
    IN  IF his = {} THEN Append(rows, [addr |-> addr, qty |-> 1])
        ELSE [i \in DOMAIN rows |->
                 IF i \in his THEN [addr |-> addr, qty |-> rows[i].qty + 1] ELSE rows[i]]

Counted(rows, unresolved) ==
    snap' = [snap EXCEPT !.nftRows = rows,
                         !.unresolved = unresolved,
                         !.asked = @ + 1,
                         !.stage = IF snap.asked + 1 = Len(Nfts) THEN "done" ELSE @]

AskNft ==
    /\ snap.stage = "nfts"
    /\ LET owners == CountsFor(Nfts[snap.asked + 1])
       IN  \/ \E a \in owners : Counted(Tallied(snap.nftRows, a), snap.unresolved)
           \/ owners = {} /\ Counted(snap.nftRows, snap.unresolved + 1)
    /\ UNCHANGED <<vars, market, price, value, holding>>

(* The files are written, or the run is given up. *)
EndSnapshot ==
    /\ snap.stage \in {"done", "failed"}
    /\ snap' = NoSnap
    /\ holding' = NoHolding
    /\ UNCHANGED <<vars, market, price, value>>

MergeNext ==
    \/ Price
    \/ Report
    \/ Redeem
    \/ StartSnapshot
    \/ \E a, b \in DOMAIN holding.token : TransferToken(a, b)
    \/ \E n \in DOMAIN holding.nft, b \in DOMAIN holding.token : TransferNft(n, b)
    \/ AskHolders
    \/ AskNft
    \/ EndSnapshot

MergeSpec == MergeInit /\ [][MergeNext]_allVars

-----------------------------------------------------------------------------
(* The pipeline implements the redemption: whatever the prices, a merge    *)
(* report splits the pool into buckets that are not negative and add up to *)
(* it (BucketSplits), and the snapshot changes nothing.                    *)
PipelineRedeems == Spec

(* One pool cannot set a price: with the median of three priced pools, the *)
(* price lies between the closes of any two; and no price lies outside the *)
(* closes it comes from (compute_twap, combine_twaps).                     *)
PriceHolds ==
    \A a \in DOMAIN market :
        LET priced == Priced(market[a], MinTvl, TopPools)
            made   == TwapPrice(market[a], MinTvl, TopPools, Mode)
            spread(P) == (UNION {Range(market[a][i].closes) : i \in P}) \ {Missing}
            within(P) == 2 * Min(spread(P)) <= made /\ made <= 2 * Max(spread(P))
        IN  /\ priced # {} => within(priced)
            /\ Mode = "median" /\ Cardinality(priced) = 3 =>
                  \A i, j \in priced : i # j => within({i, j})

(* Each asset's bucket is its share of the pool rounded down, where the    *)
(* floating-point share may be off by as much of a unit as the asset is of *)
(* the whole valuation; and the last one, which takes what is left, loses  *)
(* less than a unit and gains less than one for each asset                 *)
(* (compute_integer_buckets).                                              *)
FairBuckets ==
    value # NoValue =>
        LET all  == SumFunction(value)
            off(a) == report.bucket[a] * all - value[a] * Pool
        IN  \A a \in Assets :
               IF a = Order[Len(Order)]
               THEN off(a) > -all /\ off(a) < all * Len(Order)
               ELSE off(a) <= value[a] /\ off(a) > -(all + value[a])

Still == snap.stage = "done" /\ snap.moves = 0

(* With nobody trading meanwhile, the pages of the listing, put together   *)
(* through retries, are the holders: each once, with what it holds; and    *)
(* every NFT is counted, for one owner, who has one row, or as unresolved. *)
SnapshotFaithful ==
    Still =>
        /\ \A a \in DOMAIN holding.token :
              LET rows == RestrictValues(snap.listing.rows, LAMBDA r : r.addr = a)
              IN  /\ Quantity(rows) = holding.token[a]
                  /\ Cardinality(DOMAIN rows) <= 1
        /\ Quantity(snap.nftRows) + snap.unresolved = Len(Nfts)
        /\ \A i, j \in DOMAIN snap.nftRows :
              snap.nftRows[i].addr = snap.nftRows[j].addr => i = j

EachHasKey(allocs) ==
    \A i \in DOMAIN allocs : allocs[i].addr \in DOMAIN KeyOf /\ KeyOf[allocs[i].addr] \in Keys

TokenOf == TokenShare(snap.listing.rows, report.bucket[Listed.token], report.supply[Listed.token])
CollectionOf == CollectionShare(snap.nftRows, snap.unresolved,
                                report.bucket[Listed.collection], report.supply[Listed.collection])

(* A bucket is never given out twice: what the keys get and what is set    *)
(* aside fit in it, and all but a rounding of each row is given out, as    *)
(* long as every eligible row has a key and the report counted what the    *)
(* snapshot found.  A key with several addresses gets the share of each.   *)
AllotmentBound ==
    Still =>
        \A s \in {<<TokenOf, Listed.token, Quantity(snap.listing.rows)>>,
                  <<CollectionOf, Listed.collection, Len(Nfts)>>} :
            LET dust == report.bucket[s[2]] - s[1].reserved - Distributed(s[1].allocs)
            IN  s[3] = report.supply[s[2]] =>
                    /\ dust >= 0
                    /\ s[1].allocs # <<>> /\ EachHasKey(s[1].allocs) =>
                          dust <= Cardinality(DOMAIN s[1].allocs)

(* At the fixed rate the team's waived units are paid for on top of a      *)
(* bucket the others could redeem whole.  It fits as long as scripts,      *)
(* whose holders the snapshot leaves out, hold at least as much            *)
(* (scripts/regen_v5_1_artifacts.py:283-290).                              *)
CarveFits ==
    Still =>
        LET a       == Listed.token
            held(S) == SumFunctionOnSet(holding.token, Addrs \cap S)
        IN  /\ Quantity(snap.listing.rows) = report.supply[a]
            /\ held(ReserveAddrs) = Waiver[a]
            /\ held(ScriptAddrs \ ReserveAddrs) >= Waiver[a]
            => Leftover(TokenOf.allocs, rate[a], Waiver[a], 0,
                        report.bucket[a], report.supply[a]) >= 0
=============================================================================
