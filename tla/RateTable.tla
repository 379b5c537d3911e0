----------------------------- MODULE RateTable -----------------------------
(***************************************************************************)
(* The arithmetic of the merge: how the public pool is cut into one bucket *)
(* per legacy asset, the fixed rate of each bucket, and what a surrender   *)
(* is owed at that rate.  Pure operators, used by the pipeline that fixes  *)
(* the rates and by the redemptions that are paid at them.                 *)
(***************************************************************************)
EXTENDS Integers, Sequences, Functions, FiniteSetsExt

SumOver(S, f(_)) == MapThenSumSet(f, S)

\* Mutant: the product is rounded to the nearest unit.
TruncatedNearest(v, all, pool, fine) ==
    {n \in 0 .. pool : /\ (2 * n - 1) * all * fine <= 2 * v * pool * (fine + 1)
                       /\ (2 * n + 1) * all * fine >= 2 * v * pool * (fine - 1)}

(* What int(weight * pool) may be for a valuation v out of all: the floor  *)
(* of a floating-point product, which is the exact share of the pool but   *)
(* for a relative error of at most one part in fine.  A share that should  *)
(* be a whole number of units may so come out as the unit below.           *)
Truncated(v, all, pool, fine) ==
    {n \in 0 .. pool : /\ n * all * fine <= v * pool * (fine + 1)
                       /\ (n + 1) * all * fine > v * pool * (fine - 1)}

(* The shares the valuations of the assets may come to. *)
Shares(order, value, pool, fine) ==
    LET assets == Range(order)
        all    == SumFunctionOnSet(value, assets)
    IN  {s \in [assets -> 0 .. pool] :
            \A a \in assets : s[a] \in Truncated(value[a], all, pool, fine)}

\* Mutant: the last asset takes its own share, like the others.
BucketOwnShare(order, share, pool, a) == share[a]

(* The buckets of the assets listed in order: the share of each, and what  *)
(* is left of the pool for the last.                                       *)
Bucket(order, share, pool, a) ==
    LET last == order[Len(order)]
    IN  IF a # last
        THEN share[a]
        ELSE pool - SumFunctionOnSet(share, Range(order) \ {last})

(* A pool can only be valued when something in it has a price. *)
Valued(order, value) == SumFunctionOnSet(value, Range(order)) > 0

NoRate == [base |-> 0, num |-> 0, den |-> 1]

\* Mutant: a bucket nobody may redeem keeps its fraction.
RateRowUnguarded(bucket, supply, waived, materialized) ==
    LET redeemable == supply - waived + materialized
    IN  [base |-> IF redeemable <= 0 THEN 0 ELSE bucket \div redeemable,
         num |-> bucket, den |-> redeemable]

(* One row of the rate table: the bucket over the units that may redeem    *)
(* it, as a fraction, and the floor of that fraction.                      *)
RateRow(bucket, supply, waived, materialized) ==
    LET redeemable == supply - waived + materialized
    IN  IF redeemable <= 0
        THEN NoRate
        ELSE [base |-> bucket \div redeemable, num |-> bucket, den |-> redeemable]

(* compute_redemption refuses a rate that rounds down to nothing, and a    *)
(* quantity that is not positive.                                          *)
Redeemable(row, quantity) == row.base > 0 /\ quantity > 0

\* Mutant: a payment is rounded up.
RedemptionUp(row, quantity) ==
    IF row.den > 0 THEN (quantity * row.num + row.den - 1) \div row.den ELSE quantity * row.base

(* What the quantity is owed.  A table without the fraction (den = 0)      *)
(* falls back to the whole rate.                                           *)
Redemption(row, quantity) ==
    IF row.den > 0 THEN (quantity * row.num) \div row.den ELSE quantity * row.base
=============================================================================
