---------------------------- MODULE WalletBuild ----------------------------
(***************************************************************************)
(* surrender_api.py on the side of a claimant's wallet: which outputs a    *)
(* surrender spends and posts as collateral, chunk after chunk, when the   *)
(* index lags behind the mempool; when a wallet is refused for want of     *)
(* ADA; and the split of an output that holds too many tokens.             *)
(*                                                                         *)
(* The pool is reduced to the number of its current output: Surrender.tla  *)
(* has the whole chain, and the lock, in whose place any number of builds  *)
(* (up to a bound) may be open here at once.  ADA is counted in units in   *)
(* which the constants below are small; the fee is the same for all.       *)
(***************************************************************************)
EXTENDS Integers, Sequences, FiniteSets, Functions, FiniteSetsExt, SequencesExt

CONSTANTS
  Tokens, Cmatra,   \* what a wallet may hold beside ADA, cMATRA among it
  Wallets,          \* sequences of outputs to start from
  Asks,             \* bags of tokens to surrender
  Paid,             \* ADA of the outputs the claimant pays for
  Fee,              \* ADA of the fee
  MinAda,           \* least ADA of an output, by the kinds of tokens in it
  CollateralTarget, CollateralNeed, CollateralFloor,
  SpareFloor,       \* least ADA of what is added to change carried forward
  MaxTokens,        \* max_tokens_per_output
  None,
  MaxInputs,        \* bound on outputs the builder adds by its own choice
  MaxOpen,          \* bound on surrenders that are built and not submitted
  MaxPool,          \* bound on surrenders of anyone that are accepted
  MaxMoves          \* bound on what the holder does by himself

(* An output at the claimant's address, and who made it.                   *)
Utxo == [ada : Nat, own : [Tokens -> Nat], by : {"holder", "surrender", "defrag"}]

KindsOf(own) == {t \in Tokens : own[t] > 0}

(* An output grows with what is in it, two bundles in one output by less    *)
(* than in two, and the ledger takes none that holds less than its minimum. *)
(* The output with the cMATRA a surrender pays holds one unit of ADA.      *)
ASSUME WalletAssumption ==
  /\ Cmatra \in Tokens /\ IsFiniteSet(Tokens)
  /\ {Paid, Fee, CollateralNeed, CollateralTarget, CollateralFloor, SpareFloor} \subseteq Nat
  /\ MinAda \in [SUBSET Tokens -> Nat]
  /\ \A a, b \in SUBSET Tokens : /\ a \subseteq b => MinAda[a] <= MinAda[b]
                                /\ MinAda[a \cup b] <= MinAda[a] + MinAda[b]
  /\ MinAda[{Cmatra}] <= 1
  /\ CollateralTarget >= CollateralNeed + MinAda[{}] /\ CollateralTarget > CollateralFloor
  /\ MaxTokens \in Nat \ {0} /\ None \notin {"wallet_needs_ada", "wallet_needs_collateral"}
  /\ Asks \subseteq [Tokens -> Nat]
  /\ \A w \in Wallets : w \in Seq(Utxo) /\ \A c \in DOMAIN w :
        w[c].by = "holder" /\ w[c].ada >= MinAda[KindsOf(w[c].own)]

VARIABLES
  coins,      \* every output there has been at the claimant's address
  live,       \* those that are unspent, the mempool counted
  listed,     \* those that the index lists: the confirmed ones
  pending,    \* accepted surrenders that have not settled, oldest first
  head,       \* [at, next]: the pool's current output, the next number
  tip,        \* [at, status] as the service believes
  reserved,   \* reserved_collateral
  carried,    \* user_pending of the claimant
  open,       \* surrenders that are built
  forgot,     \* reserved was cleared with surrenders in flight
  moved,      \* outputs the holder has spent by himself
  moves

walletVars == <<coins, live, listed, pending, head, tip, reserved, carried, open,
                forgot, moved, moves>>

NoTokens == [t \in Tokens |-> 0]
Coin(ada, own, by) == [ada |-> ada, own |-> own, by |-> by]

Ada(s) == SumFunction([c \in s |-> coins[c].ada])
Own(s) == [t \in Tokens |-> SumFunction([c \in s |-> coins[c].own[t]])]
Within(a, b) == \A t \in Tokens : a[t] <= b[t]
Less(a, b) == [t \in Tokens |-> a[t] - b[t]]

\* Mutant: what is surrendered counts as kept.
KeptAll(own, asks) == own

(* What is left of a bag when the asked for is taken out. *)
Kept(own, asks) == [t \in Tokens |-> IF own[t] > asks[t] THEN own[t] - asks[t] ELSE 0]

(* _ada_only_utxos, of at least so much. *)
PureAda(s, least) == {c \in s : KindsOf(coins[c].own) = {} /\ coins[c].ada >= least}

(* The ADA that tokens must be given, none if there are none. *)
Carrying(kinds) == IF kinds = {} THEN 0 ELSE MinAda[kinds]

-----------------------------------------------------------------------------
(* The collateral. *)

\* Mutant: reserved collateral is offered again.
CollateralsAgain(s) == PureAda(s, CollateralTarget)

Collaterals(s) == PureAda(s, CollateralTarget) \ reserved

(* _select_ada_only_collateral: the smallest. *)
SelectCollateral ==
  IF Collaterals(listed) = {} THEN None
  ELSE CHOOSE c \in Collaterals(listed) :
          \A d \in Collaterals(listed) : coins[c].ada <= coins[d].ada

(* _posts_collateral. *)
Posts(s) ==
  LET back == Ada(s) - CollateralNeed
  IN  /\ back >= 0
      /\ (back > 0 \/ KindsOf(Own(s)) # {}) => back >= MinAda[KindsOf(Own(s))]

(* What the builder may spend: the outputs carried forward with the ADA    *)
(* that is listed and not reserved, or all that is listed.                 *)
Spendable(explicit, collateral) ==
  IF explicit # {}
  THEN explicit \cup (PureAda(listed, SpareFloor) \ (reserved \cup {collateral}))
  ELSE listed

(* What the builder may take as collateral if none is selected. *)
Offered(explicit) ==
  {c \in Spendable(explicit, None) \cup listed : coins[c].ada > CollateralFloor}

CollateralPosts(explicit, collateral) ==
  Posts(IF collateral # None THEN {collateral} ELSE Offered(explicit))

-----------------------------------------------------------------------------
(* The shortfall. *)

(* The outputs carried forward, and the only holder of a token asked for. *)
MustSpend(explicit, spendable, asks) ==
  LET holders(t) == {c \in spendable : coins[c].own[t] > 0}
  IN  explicit \cup UNION {holders(t) : t \in {t \in KindsOf(asks) :
                                                  Cardinality(holders(t)) = 1}}

LeastCost(explicit, spendable, asks) ==
  LET kept == Kept(Own(MustSpend(explicit, spendable, asks)), asks)
  IN  Paid + Fee + Carrying(KindsOf(kept))

(* _wallet_shortfall: what the wallet is told, or None. *)
Shortfall(explicit, spendable, asks, collateral) ==
  LET largest == IF PureAda(listed, 0) = {} THEN 0
                 ELSE Max({coins[c].ada : c \in PureAda(listed, 0)})
  IN  IF ~Within(asks, Own(spendable)) THEN None
      ELSE IF Ada(spendable) < LeastCost(explicit, spendable, asks) + CollateralTarget
           THEN "wallet_needs_ada"
      ELSE IF collateral = None /\ largest < CollateralTarget
           THEN "wallet_needs_collateral"
      ELSE None

MustFail(explicit, spendable, asks, collateral) ==
  /\ Within(asks, Own(spendable))
  /\ \/ Ada(spendable) < LeastCost(explicit, spendable, asks)
     \/ ~CollateralPosts(explicit, collateral)

(* The sets of outputs the builder can balance the surrender with. *)
Funds(explicit, spendable, asks) ==
  {s \in SUBSET spendable :
      /\ explicit \subseteq s
      /\ Within(asks, Own(s))
      /\ Ada(s) >= Paid + Fee + Carrying(KindsOf(Less(Own(s), asks)))}

-----------------------------------------------------------------------------
(* /build-surrender *)

Chained == tip.status = "pending"

(* user_inputs. *)
Explicit == IF Chained /\ carried # None THEN carried ELSE {}

(* What the surrender pays to the claimant: cMATRA, and the change. *)
ChangeOf(s, asks) ==
  LET kept == Less(Own(s), asks)
      ada  == Ada(s) - Paid - Fee
  IN  <<Coin(1, [NoTokens EXCEPT ![Cmatra] = 1], "surrender")>>
      \o (IF ada < MinAda[KindsOf(kept)] THEN <<>> ELSE <<Coin(ada, kept, "surrender")>>)

Built(asks) ==
  LET c == SelectCollateral
      spendable == Spendable(Explicit, c)
  IN  /\ ~(MustFail(Explicit, spendable, asks, c)
             /\ Shortfall(Explicit, spendable, asks, c) # None)
      /\ CollateralPosts(Explicit, c)
      /\ reserved' = reserved \cup ({c} \ {None})
      /\ \E s \in Funds(Explicit, spendable, asks) :
            /\ Cardinality(s \ Explicit) <= MaxInputs
            /\ open' = open \cup {[pool |-> tip.at, spends |-> s, explicit |-> Explicit,
                                  collateral |-> c, change |-> ChangeOf(s, asks)]}

(* A build that fails for another reason than the wallet's ADA, also one   *)
(* of /evaluate-surrender, which hands nothing out: what it has reserved   *)
(* stays reserved.                                                         *)
NotHandedOut ==
  /\ reserved' = reserved \cup ({SelectCollateral} \ {None})
  /\ UNCHANGED open

(* The wallet is told what it lacks and the reserved collateral is given    *)
(* back: before the build, which it is bound to fail, or after the         *)
(* builder has failed to balance it or to find collateral.                 *)
Told(asks) ==
  LET c == SelectCollateral
  IN  /\ Shortfall(Explicit, Spendable(Explicit, c), asks, c) # None
      /\ UNCHANGED <<reserved, open>>

WalletBuilds(asks) ==
  /\ Cardinality(open) < MaxOpen
  /\ Built(asks) \/ NotHandedOut \/ Told(asks)
  /\ UNCHANGED <<coins, live, listed, pending, head, tip, carried, forgot, moved, moves>>

-----------------------------------------------------------------------------
(* /submit-surrender *)

ConfirmedPool(p, pend) == IF pend = <<>> THEN p.at ELSE pend[1].from

\* Mutant: the change carried forward is kept.
ReseedKeepsChange(ok, p, pend) ==
  /\ reserved' = {}
  /\ carried' = carried
  /\ forgot' = (pend # <<>> \/ open' # {} \/ ~ok)
  /\ tip' = IF ok THEN [at |-> ConfirmedPool(p, pend), status |-> "confirmed"] ELSE tip

(* _seed_pool_utxos: the reservations and the change are forgotten before  *)
(* the chain is asked, which may fail.                                     *)
Reseed(ok, p, pend) ==
  /\ reserved' = {}
  /\ carried' = None
  /\ forgot' = (pend # <<>> \/ open' # {} \/ ~ok)
  /\ tip' = IF ok THEN [at |-> ConfirmedPool(p, pend), status |-> "confirmed"] ELSE tip

Accepted(tx) ==
  /\ head.next < MaxPool
  /\ tx.pool = head.at
  /\ tx.spends \cup ({tx.collateral} \ {None}) \subseteq live
  /\ LET outs == Len(coins) + 1 .. Len(coins) + Len(tx.change)
     IN  /\ coins' = coins \o tx.change
         /\ live' = (live \ tx.spends) \cup outs
         /\ pending' = Append(pending, [from |-> head.at, spends |-> tx.spends, outs |-> outs,
                                    collateral |-> tx.collateral])
  /\ head' = [at |-> head.next, next |-> head.next + 1]
  /\ UNCHANGED <<listed, moved, moves>>

(* The tip advances and the change is carried forward; or a guard refuses  *)
(* and the tip is seeded anew.                                             *)
WalletSubmits(tx, guards, seeded) ==
  /\ Accepted(tx)
  /\ open' = open \ {tx}
  /\ IF guards
     THEN /\ tip' = [at |-> head'.at, status |-> "pending"]
          /\ carried' = {c \in DOMAIN coins' : c > Len(coins)}
          /\ UNCHANGED <<reserved, forgot>>
     ELSE Reseed(seeded, head', pending')

(* Refused, or never signed. *)
GiveUp(tx) ==
  /\ open' = open \ {tx}
  /\ UNCHANGED <<coins, live, listed, pending, head, tip, reserved, carried, forgot,
                 moved, moves>>

(* Another claimant's surrender moves the pool. *)
OtherSurrender ==
  /\ tip.at = head.at
  /\ Accepted([pool |-> tip.at, spends |-> {}, change |-> <<>>, collateral |-> None])
  /\ tip' = [at |-> head'.at, status |-> "pending"]
  /\ UNCHANGED <<reserved, carried, open, forgot>>

-----------------------------------------------------------------------------
(* The chain, and the watchdog. *)

Settle ==
  /\ pending # <<>>
  /\ listed' = (listed \ pending[1].spends) \cup pending[1].outs
  /\ pending' = Tail(pending)
  /\ UNCHANGED <<coins, live, head, tip, reserved, carried, open, forgot, moved, moves>>

(* The youngest pending surrender falls out of the mempool. *)
Drop ==
  /\ pending # <<>>
  /\ LET tx == pending[Len(pending)]
     IN  /\ tx.outs \subseteq live
         /\ live' = (live \ tx.outs) \cup tx.spends
         /\ head' = [head EXCEPT !.at = tx.from]
  /\ pending' = Front(pending)
  /\ UNCHANGED <<coins, listed, tip, reserved, carried, open, forgot, moved, moves>>

(* A pending tip that has settled or is overdue, or one whose output is     *)
(* gone: each is seeded anew.                                              *)
Evict(ok) ==
  /\ Chained \/ tip.at # head.at
  /\ UNCHANGED <<coins, live, listed, pending, head, open, moved, moves>>
  /\ Reseed(ok, head, pending)

-----------------------------------------------------------------------------
(* What the holder does by himself. *)

Spend(s, outs) ==
  /\ moves < MaxMoves
  /\ moves' = moves + 1
  /\ s \subseteq live \cap listed
  /\ LET new == Len(coins) + 1 .. Len(coins) + Len(outs)
     IN  /\ coins' = coins \o outs
         /\ live' = (live \ s) \cup new
         /\ listed' = (listed \ s) \cup new
  /\ moved' = moved \cup s
  /\ UNCHANGED <<pending, head, tip, reserved, carried, open, forgot>>

Move(c) == Spend({c}, <<>>)

\* Mutant: the last of the lean outputs takes what is left over.
PlanLastTakes(kinds) ==
  LET n == Cardinality(kinds) \div MaxTokens
      order == SetToSeq(kinds)
  IN  [i \in 1 .. n |->
         {order[k] : k \in (i - 1) * MaxTokens + 1 ..
                              (IF i = n THEN Len(order) ELSE i * MaxTokens)}]

(* plan_defrag: the tokens in order, so many to an output. *)
Plan(kinds) ==
  LET order == SetToSeq(kinds)
      n == (Len(order) + MaxTokens - 1) \div MaxTokens
  IN  [i \in 1 .. n |-> {order[k] : k \in {k \in DOMAIN order :
                             (i - 1) * MaxTokens < k /\ k <= i * MaxTokens}}]

(* _build_defrag_tx_blocking, signed and sent by the wallet: the target    *)
(* and pure ADA in, lean outputs and the ADA that is left out.             *)
Defrag(target, extra) ==
  LET plan == Plan(KindsOf(coins[target].own))
      lean == [i \in DOMAIN plan |->
                 Coin(MinAda[plan[i]],
                      [t \in Tokens |-> IF t \in plan[i] THEN coins[target].own[t] ELSE 0],
                      "defrag")]
      left == Ada({target} \cup extra) - Fee - SumFunction([i \in DOMAIN lean |-> lean[i].ada])
  IN  /\ Cardinality(KindsOf(coins[target].own)) > MaxTokens
      /\ extra \subseteq PureAda(listed, 0) \ {target}
      /\ left >= 0
      /\ Spend({target} \cup extra,
               lean \o (IF left < MinAda[{}] THEN <<>> ELSE <<Coin(left, NoTokens, "defrag")>>))

WalletNext ==
  \/ \E asks \in Asks : WalletBuilds(asks)
  \/ \E tx \in open, g, s \in BOOLEAN : WalletSubmits(tx, g, s)
  \/ \E tx \in open : GiveUp(tx)
  \/ OtherSurrender
  \/ Settle \/ Drop
  \/ \E ok \in BOOLEAN : Evict(ok)
  \/ \E c \in listed : Move(c)
  \/ \E c \in listed : \E extra \in {{}} \cup {{d} : d \in PureAda(listed, 0)} : Defrag(c, extra)

WalletInit ==
  /\ coins \in Wallets
  /\ live = DOMAIN coins /\ listed = DOMAIN coins
  /\ pending = <<>>
  /\ head = [at |-> 0, next |-> 1]
  /\ tip = [at |-> 0, status |-> "confirmed"]
  /\ reserved = {} /\ carried = None /\ open = {} /\ forgot = FALSE
  /\ moved = {} /\ moves = 0

-----------------------------------------------------------------------------
(* What a chained surrender spends of the change carried forward is there  *)
(* whenever the pool output it chains off is there, unless the holder has  *)
(* spent it himself: a build can fail with its pool, never by its change   *)
(* (user_pending in surrender_api.py).                                     *)
ChangeFollowsPool ==
  \A tx \in open : tx.pool = head.at => tx.explicit \subseteq live \cup moved

(* No two surrenders that are in the mempool at once post the same         *)
(* collateral, unless reservations were cleared while one was in flight    *)
(* (reserved_collateral).                                                  *)
CollateralOnce ==
  ~forgot =>
     \A i, j \in DOMAIN pending :
        i # j /\ pending[i].collateral # None => pending[i].collateral # pending[j].collateral

(* A wallet is refused before the build only if no choice of its outputs   *)
(* could have paid for the surrender, and it is told then what it lacks:   *)
(* one that holds what it was told to hold, whether before the build or    *)
(* after the builder's own failure, is not bound to fail again             *)
(* (_wallet_shortfall and where it is called).                             *)
RefusedRightly ==
  \A asks \in Asks :
     LET c == SelectCollateral
         spendable == Spendable(Explicit, c)
     IN  MustFail(Explicit, spendable, asks, c) =>
            /\ Shortfall(Explicit, spendable, asks, c) # None
            /\ \/ Funds(Explicit, spendable, asks) = {}
               \/ \A s \in IF c # None THEN {{c}} ELSE SUBSET Offered(Explicit) : ~Posts(s)

(* After a split no output of it holds more kinds of tokens than asked     *)
(* for, so that each can be surrendered (plan_defrag, prepare_defrag).     *)
LeanOutputs ==
  \A c \in DOMAIN coins : coins[c].by = "defrag" =>
     Cardinality(KindsOf(coins[c].own)) <= MaxTokens
=============================================================================
