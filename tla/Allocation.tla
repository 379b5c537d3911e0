----------------------------- MODULE Allocation -----------------------------
(***************************************************************************)
(* The reference allocation: a bucket shared out over the rows of a holder *)
(* listing, the team's and the unresolvable NFTs' shares carved out first, *)
(* the shares of one payment key added up, and what rounding leaves        *)
(* accounted for as dust.  A row is [addr, qty]; rows that are left out of *)
(* a listing leave their positions empty.                                  *)
(***************************************************************************)
EXTENDS Integers, Sequences, Functions, FiniteSetsExt

CONSTANTS ReserveAddrs,   \* the team's treasury addresses
          ScriptAddrs,    \* addresses with a script credential
          Keys,           \* payment keys
          KeyOf           \* the payment key of an address that has one

Quantity(rows) == SumFunction([i \in DOMAIN rows |-> rows[i].qty])

AtReserve(rows) == RestrictValues(rows, LAMBDA r : r.addr \in ReserveAddrs)

\* Mutant: the team's addresses count as holders.
EligibleReserve(rows) == RestrictValues(rows, LAMBDA r : r.addr \notin ScriptAddrs)

(* What is left of the holders once the team's addresses and the scripts   *)
(* are taken out (filter_holders; no whitelist).                           *)
Eligible(rows) ==
    RestrictValues(rows, LAMBDA r : r.addr \notin ReserveAddrs /\ r.addr \notin ScriptAddrs)

(* The share of a bucket that n of a supply are worth. *)
ShareOf(n, bucket, supply) == IF supply > 0 THEN (n * bucket) \div supply ELSE 0

(* allocate_flux, over the eligible rows (the default denominator). *)
Allocate(rows, bucket) ==
    LET denominator == Quantity(rows)
    IN  IF denominator = 0 THEN <<>>
        ELSE [i \in DOMAIN rows |->
                 [addr |-> rows[i].addr, qty |-> rows[i].qty,
                  units |-> (rows[i].qty * bucket) \div denominator]]

Shared(allocs) == SumFunction([i \in DOMAIN allocs |-> allocs[i].units])

(* One token: the team's carve out of its bucket, and the rest shared out. *)
TokenShare(rows, bucket, supply) ==
    LET team == ShareOf(Quantity(AtReserve(rows)), bucket, supply)
    IN  [reserved |-> team,
         allocs   |-> Allocate(Eligible(rows), bucket - team)]

(* One collection: a frozen share for each NFT whose holder cannot be      *)
(* resolved, the rest shared out over the others.                          *)
CollectionShare(rows, unresolved, bucket, supply) ==
    LET frozen == ShareOf(unresolved, bucket, supply)
    IN  [reserved |-> frozen,
         allocs   |-> Allocate(Eligible(rows), bucket - frozen)]

\* Mutant: a key's later row replaces its earlier one.
PerKeyLast(allocs, k) ==
    LET mine == {i \in DOMAIN allocs : allocs[i].addr \in DOMAIN KeyOf /\ KeyOf[allocs[i].addr] = k}
    IN  IF mine = {} THEN 0 ELSE allocs[Max(mine)].units

(* The allocations of a payment key, added up.  A share below the          *)
(* threshold of one unit is nothing to add.                                *)
PerKey(allocs, k) ==
    Shared(RestrictValues(allocs, LAMBDA a :
              a.units >= 1 /\ a.addr \in DOMAIN KeyOf /\ KeyOf[a.addr] = k))

Distributed(allocs) ==
    SumFunction([k \in Keys |-> PerKey(allocs, k)])

(* The balance the table gives for a key: that of its last address, where  *)
(* PerKey adds up the shares of all of them.                               *)
BalanceOf(allocs, k) ==
    LET his == {i \in DOMAIN allocs : /\ allocs[i].units >= 1
                                      /\ allocs[i].addr \in DOMAIN KeyOf
                                      /\ KeyOf[allocs[i].addr] = k}
    IN  IF his = {} THEN 0 ELSE allocs[Max(his)].qty

(* build_allocations at a fixed rate (scripts/regen_v5_1_artifacts.py):    *)
(* what remains of the bucket after the rows of the table, the team's      *)
(* waived units and the frozen NFTs.  A negative remainder stops the       *)
(* script.                                                                 *)
Leftover(allocs, row, waived, unresolved, bucket, supply) ==
    LET perRow(q) == IF q <= 0 THEN 0 ELSE (q * row.num) \div row.den
    IN  bucket - SumFunction([k \in Keys |-> perRow(BalanceOf(allocs, k))])
               - (IF waived > 0 THEN perRow(waived) ELSE 0)
               - ShareOf(unresolved, bucket, supply)
=============================================================================
