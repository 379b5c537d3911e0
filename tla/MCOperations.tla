---------------------------- MODULE MCOperations ----------------------------
(***************************************************************************)
(* A supply of four units, three of them for the pool, a deadline at slot  *)
(* two, a sweep window of one slot after a buffer of one.                  *)
(***************************************************************************)
EXTENDS Operations

MCOrders == {[total |-> 3, outputs |-> 2], [total |-> 4, outputs |-> 3],
             [total |-> 5, outputs |-> 3]}

MCRequests == <<2, 0, 1>>

Left(units, datums) == [i \in DOMAIN datums |-> Output(units, datums[i], "builder")]

MCLeftovers == {Left(1, <<"claim", "hash", "claim">>), Left(1, <<"void", "none">>),
                Left(2, <<"void", "void">>), Empty}

MCMinted == {[i \in {1} |-> Output(3, "void", "mint")]}

(* A claimant's wallet: a fungible, an NFT and cMATRA beside ADA.  None of *)
(* them in the situations that have no wallet.                             *)
MCTokens == {"f", "n", "m"}
Holds(f, n) == [t \in MCTokens |-> CASE t = "f" -> f [] t = "n" -> n [] OTHER -> 0]
MCWallets == {<<Coin(3, Holds(0, 0), "holder"), Coin(4, Holds(0, 0), "holder"),
                Coin(4, Holds(2, 1), "holder")>>,
              <<Coin(2, Holds(1, 0), "holder"), Coin(4, [Holds(1, 1) EXCEPT !["m"] = 1], "holder"),
                Coin(2, Holds(0, 0), "holder")>>,
              <<Coin(3, Holds(1, 0), "holder")>>,
              <<>>}
MCAsks == {Holds(1, 0), Holds(1, 1)}
MCMinAda == [kinds \in SUBSET MCTokens |-> IF Cardinality(kinds) < 2 THEN 1 ELSE 2]

(* What the offers spend: two pool outputs, two of claimants, a stranger's *)
(* and one at quarantine.                                                  *)
Out(address, coin, m, f, datum) ==
    [address |-> address, coin |-> coin, datum |-> datum, scriptRef |-> FALSE,
     assets |-> [t \in MCTokens |-> CASE t = "m" -> m [] t = "f" -> f [] OTHER -> 0]]

MCMade == [r \in {"p1", "p2", "a1", "a2", "s1", "g1"} |->
             CASE r = "p1" -> Out("pool", 3, 4, 0, "void")
               [] r = "p2" -> Out("pool", 3, 2, 0, "hash")
               [] r = "a1" -> Out("alice", 4, 0, 2, "none")
               [] r = "a2" -> Out("alice", 2, 1, 0, "none")
               [] r = "s1" -> Out("script", 2, 0, 1, "void")
               [] r = "g1" -> Out("bob", 2, 0, 1, "none")]

Bags2 == [MCTokens -> 0 .. 2]
MCEntitled == [b \in Bags2 |-> IF b["m"] > 0 \/ b["n"] > 0 THEN Unpriced ELSE b["f"]]

Good == [wellFormed |-> TRUE, signers |-> Admins, fee |-> 1, totalCollateral |-> 1,
         from |-> 0, until |-> Deadline, inputs |-> {"p1", "a1"}, listedTwice |-> FALSE,
         collateral |-> {"a2"}, collateralReturn |-> "alice",
         outs |-> <<Out("pool", 2, 3, 0, "void"), Out("alice", 2, 1, 1, "none"),
                    Out("quarantine", 2, 0, 1, "none")>>,
         redeemersBound |-> TRUE, redeemed |-> {"p1"}, redeemer |-> "surrender"]

(* Every way to fill in the outputs of a surrender of one or two units, to *)
(* the claimant or to others.                                              *)
OutsOf(to, m, f, q, left) ==
    <<Out("pool", 2, 4 - m, 0, left), Out(to, 2, m, 2 - f, "none"), Out("quarantine", 2, 0, q, "none")>>

MCOffers ==
    {[Good EXCEPT !.signers = s, !.from = from, !.until = until, !.redeemer = r,
                  !.collateralReturn = back] :
        s \in {Admins, {Admin1}}, from \in {0, 1}, until \in 1 .. 4, r \in Redeemers,
        back \in {"alice", "bob", "absent"}}
    \cup
    {[Good EXCEPT !.outs = OutsOf(to, m, f, q, left), !.fee = fee] :
        to \in {"alice", "bob", "script"}, m \in 0 .. 2, f \in 0 .. 2, q \in 0 .. 2,
        left \in {"void", "none"}, fee \in {1, 2}}
    \cup
    {[Good EXCEPT !.inputs = i, !.collateral = c, !.redeemed = r,
                  !.outs = OutsOf("alice", 1, 1, 1, "void") \o more] :
        i \in {{"p1", "a1"}, {"p1", "a1", "a2"}, {"p1", "a1", "g1"}, {"p2", "a1"},
               {"p1", "p2", "a1"}, {"p1", "s1"}, {"p1"}},
        c \in {{"a2"}, {"g1"}, {"p2"}, {}}, r \in {{"p1"}, {"a1"}, {"p1", "p2"}},
        more \in {<<>>, <<Out("bob", 2, 0, 1, "none")>>, <<Out("alice", 2, 1, 0, "none")>>,
                  <<Out("pool", 3, 2, 0, "void")>>}}
=============================================================================
