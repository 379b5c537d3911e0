-------------------------------- MODULE Twap --------------------------------
(***************************************************************************)
(* The price of an asset: its deepest pools, the mean close of each, and   *)
(* one price out of theirs.  A pool is [tvl, closes], a close of Missing   *)
(* is a candle without one.  The source computes in floating point; prices *)
(* here are integers, means are rounded down, and a combined price is      *)
(* given twice over so that the mean of two middle ones stays whole.       *)
(***************************************************************************)
EXTENDS Integers, Sequences, Functions, FiniteSetsExt

Missing == -1

(* compute_twap: the mean of the closes there are, nothing without any. *)
Mean(closes) ==
    LET known == {i \in DOMAIN closes : closes[i] # Missing}
    IN  IF known = {} THEN 0
        ELSE SumFunctionOnSet(closes, known) \div Cardinality(known)

(* The pools listed before i once they are sorted by depth. *)
Ahead(pools, i) ==
    {j \in DOMAIN pools : \/ pools[j].tvl > pools[i].tvl
                          \/ pools[j].tvl = pools[i].tvl /\ j < i}

(* discover_pools: those deep enough, no more than top, the deepest. *)
Deepest(pools, minTvl, top) ==
    {i \in DOMAIN pools : pools[i].tvl >= minTvl /\ Cardinality(Ahead(pools, i)) < top}

(* The k-th value of f in ascending order. *)
Kth(f, k) ==
    CHOOSE v \in Range(f) :
        /\ Cardinality({i \in DOMAIN f : f[i] < v}) < k
        /\ Cardinality({i \in DOMAIN f : f[i] <= v}) >= k

(* statistics.median, doubled: the middle value twice, or the two middle   *)
(* ones.                                                                   *)
Median2(f) ==
    LET n == Cardinality(DOMAIN f)
    IN  Kth(f, (n + 1) \div 2) + Kth(f, n \div 2 + 1)

\* Mutant: the mean, whatever the mode.
CombineMean(twaps, first, mode) ==
    IF DOMAIN twaps = {} THEN 0 ELSE (2 * SumFunction(twaps)) \div Cardinality(DOMAIN twaps)

(* combine_twaps, doubled, of the prices above nothing. *)
Combine(twaps, first, mode) ==
    CASE DOMAIN twaps = {} -> 0
      [] DOMAIN twaps # {} /\ mode = "median" -> Median2(twaps)
      [] DOMAIN twaps # {} /\ mode = "deepest" -> 2 * twaps[first]
      [] DOMAIN twaps # {} /\ mode = "mean" ->
             (2 * SumFunction(twaps)) \div Cardinality(DOMAIN twaps)

(* The chosen pools whose candles gave a price. *)
Priced(pools, minTvl, top) ==
    {i \in Deepest(pools, minTvl, top) : Mean(pools[i].closes) > 0}

(* build_twap_report, for one token.  *)
TwapPrice(pools, minTvl, top, mode) ==
    LET priced == Priced(pools, minTvl, top)
    IN  Combine([i \in priced |-> Mean(pools[i].closes)],
                CHOOSE i \in priced : Ahead(pools, i) \cap priced = {}, mode)
=============================================================================
