------------------------------ MODULE MCMerge ------------------------------
(***************************************************************************)
(* One token with a waived unit and a collection of two NFTs, priced from   *)
(* up to three pools, surrendered and pinned; the snapshot lists a few     *)
(* holdings two rows to a page.                                            *)
(***************************************************************************)
EXTENDS Merge, TLC

CONSTANTS T, N, M, tok, col, alice, bob, fund, dex

MCAssetOf == T :> tok @@ N :> col @@ M :> col
MCTokenUnit == tok :> T
MCKind == T :> "token" @@ N :> "plain" @@ M :> "plain"
MCSupply == T :> 3 @@ N :> 1 @@ M :> 1
MCWaiver == tok :> 1 @@ col :> 0
MCBurned == tok :> 0 @@ col :> 0
MCPool == 5
MCSplits == {b \in [{tok, col} -> 0 .. MCPool] : b[tok] + b[col] = MCPool}

MCOrder == <<tok, col>>
PoolAt(tvl, closes) == [tvl |-> tvl, closes |-> closes]
Closes == {<<Missing>>, <<2, Missing>>, <<1, 4>>, <<9>>}
TokenMarkets ==
    {<<PoolAt(5, c), PoolAt(t, d), PoolAt(6, e)>> : c, d, e \in Closes, t \in {1, 4}}
NftMarkets == {<<PoolAt(9, <<6, 8>>)>>}
MCMarkets == {tok :> m @@ col :> n : m \in TokenMarkets, n \in NftMarkets}

MCHolders == <<alice, bob, fund, dex>>
MCKeyOf == alice :> "k" @@ bob :> "k" @@ fund :> "t"
MCHoldings ==
    {[token |-> alice :> (3 - b - t - d) @@ bob :> b @@ fund :> t @@ dex :> d,
      nft |-> <<h, g>>] :
        b \in 0 .. 1, t \in {0, 1}, d \in {0, 1}, h \in {alice, dex}, g \in {alice, dex}}
MCResolvable == 2 :> bob
MCNfts == <<1, 2>>
MCListed == [token |-> tok, collection |-> col]

\* The names N and M of the collection play the same part; the NFTs the
\* snapshot asks for, in order, are known by their numbers.
MCSymmetry == Permutations({N, M})
=============================================================================
