-------------------------- MODULE RedemptionLedger --------------------------
(***************************************************************************)
(* services/redemption_ledger.py: a signer's record of the surrenders it   *)
(* approved and the limits it holds them to.  A ledger l gives the time    *)
(* each transaction was recorded at, or Never.                             *)
(*                                                                         *)
(* A transaction hash fixes what the transaction does, so approval is      *)
(* chosen once and never changes.  A surrender makes one pool output and   *)
(* one change output; Genesis are the outputs that no surrender makes.     *)
(***************************************************************************)
EXTENDS Integers, FiniteSets, FiniteSetsExt, Functions

CONSTANTS
  Txs,        \* hashes of surrender transactions
  Genesis,    \* pool and wallet outputs that exist from outside
  Units,      \* legacy units
  Limit,      \* what the pin leaves of each unit (cfg.redemption_limits)
  MaxPerDay,  \* MAX_CMATRA_PER_DAY
  Day,        \* DAY_S, in ticks of the clock
  Scenarios,  \* the sets of transactions that are looked at together
  Age,        \* a transaction is younger than those it names
  Never       \* not recorded

PoolOf(t) == <<t, "pool">>
ChangeOf(t) == <<t, "change">>
Made(t) == {PoolOf(t), ChangeOf(t)}
Outputs == Genesis \cup UNION {Made(t) : t \in Txs}

\* "The policy lets a transaction make exactly one pool output": a wallet's
\* change is never taken for the pool's.
PoolOutputs == Genesis \cup {PoolOf(t) : t \in Txs}

\* What evaluate_surrender returns: spends are consumed when the transaction
\* lands, inputs are these and the collateral.  ttl is the first time at
\* which it is too late to land.
Approvals ==
  [pool : PoolOutputs, spends : SUBSET Outputs, inputs : SUBSET Outputs,
   payout : Nat, units : [Units -> Nat], ttl : Nat]

ASSUME LedgerAssumption ==
  /\ IsFiniteSet(Txs)
  /\ Genesis \cap UNION {Made(t) : t \in Txs} = {}
  /\ Limit \in [Units -> Nat] /\ MaxPerDay \in Nat /\ Day \in Nat \ {0}
  /\ Age \in [Txs -> Nat]
  /\ Never \notin Nat
  /\ \A scenario \in Scenarios :
       /\ scenario \in [Txs -> Approvals]
       /\ \A t \in Txs :
            /\ scenario[t].pool \in scenario[t].spends
            /\ scenario[t].spends \subseteq scenario[t].inputs
            /\ \A p \in Txs : scenario[t].inputs \cap Made(p) # {} => Age[p] < Age[t]

VARIABLE approval   \* what each transaction does

Ledgers == [Txs -> Nat \cup {Never}]
EmptyLedger == [t \in Txs |-> Never]
Rows(l) == {t \in Txs : l[t] # Never}

-----------------------------------------------------------------------------
(* Chains of pool outputs                                                  *)

\* The transaction of S that made output o, if there is one.
Producer(S, o) == {p \in S : o \in Made(p)}

\* The transactions of S that a spend of pool output o builds on.
Upstream(S, o) ==
  LET up[q \in Outputs] == UNION {{p} \cup up[approval[p].pool] : p \in Producer(S, q)}
  IN up[o]

\* The pool output that their chain starts from.
Root(S, o) ==
  CHOOSE r \in {o} \cup {approval[p].pool : p \in Upstream(S, o)} : Producer(S, r) = {}

\* Mutant: outputs of competing branches are accepted.
SpentUpstreamOnly(S, t) ==
  \E a \in Upstream(S, approval[t].pool) : approval[t].inputs \cap approval[a].spends # {}

\* Some input of t is spent by a transaction it builds on, or comes from one
\* that competes with its chain for a pool output.
CannotLand(S, t) ==
  LET ancestors == Upstream(S, approval[t].pool)
  IN \E o \in approval[t].inputs :
       \/ \E a \in ancestors : o \in approval[a].spends
       \/ \E p \in Producer(S, o) \ ancestors :
            Root(S, approval[p].pool) = Root(S, approval[t].pool)

\* The transactions of S that spend a pool output of t.
Followers(S, t) == {c \in S : approval[c].pool \in Made(t)}

\* The heaviest chain of transactions of S that starts with each of them.
PathWeights(S, w) ==
  LET path[t \in S] == w[t] + Max({0} \cup {path[c] : c \in Followers(S, t)})
  IN path

\* The pool outputs that S spends and did not make, and who spends them.
Roots(S) == {r \in {approval[t].pool : t \in S} : Producer(S, r) = {}}
Starts(S, r) == {t \in S : approval[t].pool = r}

\* Mutant: only the transactions at the roots count, not those that follow.
HeaviestRoots(S, w) ==
  SumFunction([r \in Roots(S) |-> Max({w[t] : t \in Starts(S, r)})])

\* Mutant: what follows one output is added up although it competes.
HeaviestSummed(S, w) ==
  LET path[t \in S] == w[t] + MapThenSumSet(LAMBDA c : path[c], Followers(S, t))
  IN SumFunction([r \in Roots(S) |-> Max({path[t] : t \in Starts(S, r)})])

\* The heaviest path below each root, summed.
Heaviest(S, w) ==
  LET path == PathWeights(S, w)
  IN SumFunction([r \in Roots(S) |-> Max({path[t] : t \in Starts(S, r)})])

-----------------------------------------------------------------------------
(* check and record                                                        *)

Redeems(u) == [t \in Txs |-> approval[t].units[u]]
Pays == [t \in Txs |-> approval[t].payout]

\* Mutant: the window is one tick short.
RecentShort(l, now) == {t \in Rows(l) : l[t] > now - Day + 1}

\* Rows that count against the daily cap.
Recent(l, now) == {t \in Rows(l) : l[t] > now - Day}

WithinLimits(l, t, now) ==
  /\ \A u \in Units :
       approval[t].units[u] > 0 => Heaviest(Rows(l), Redeems(u)) <= Limit[u]
  /\ Heaviest(Recent(l, now), Pays) <= MaxPerDay

WithRow(l, t, now) == IF l[t] = Never THEN [l EXCEPT ![t] = now] ELSE l

\* An approval already recorded is admitted as it stands.
Admits(l, t, now) ==
  \/ l[t] # Never
  \/ ~CannotLand(Rows(l), t) /\ WithinLimits(WithRow(l, t, now), t, now)

-----------------------------------------------------------------------------
(* What a ledger promises                                                  *)

Total(L, w) == SumFunctionOnSet(w, L)

LastDay(l, now) == {t \in Rows(l) : now - l[t] < Day}

\* The sets of recorded transactions that can all land: no output is spent
\* twice, and what they need of other recorded transactions is in the set.
CoLandable(S) ==
  {L \in SUBSET S :
     /\ \A a, b \in L : a # b => approval[a].spends \cap approval[b].spends = {}
     /\ \A t \in L, p \in S : approval[t].inputs \cap Made(p) # {} => p \in L}

\* The same, looking at pool outputs only.
PoolPaths(S) ==
  {L \in SUBSET S :
     /\ \A a, b \in L : a # b => approval[a].pool # approval[b].pool
     /\ \A t \in L, p \in S : approval[t].pool \in Made(p) => p \in L}

Overall(S, w) == Max({Total(L, w) : L \in PoolPaths(S)})

\* No set of approvals that can land together redeems more of a unit than
\* the pin leaves, or takes more than the cap out of the pool with what was
\* recorded in the last 24 hours.
KeepsLimits(l, now) ==
  \A L \in CoLandable(Rows(l)) :
    /\ \A u \in Units : Total(L, Redeems(u)) <= Limit[u]
    /\ Total(L \cap LastDay(l, now), Pays) <= MaxPerDay

\* A unit counts as the most that a set of pool paths can redeem of it:
\* nothing that can land is missed, nothing superseded counts twice.
CountsUnits(l) ==
  \A u \in Units : Heaviest(Rows(l), Redeems(u)) = Overall(Rows(l), Redeems(u))

\* The same of the payouts of the last 24 hours: what an older transaction
\* pays no longer counts, the outputs it competes for still do.
CountsPayouts(l, now) ==
  Heaviest(Recent(l, now), Pays)
    = Overall(Rows(l), [t \in Txs |-> IF t \in LastDay(l, now) THEN approval[t].payout ELSE 0])

\* Every recorded transaction can land after those it builds on: none of
\* them spends one of its inputs, and no input comes from a branch that
\* competes with them for a pool output.
PathsCanLand(l) ==
  \A t \in Rows(l) :
    LET before == Upstream(Rows(l), approval[t].pool)
    IN /\ \A a \in before : approval[a].spends \cap approval[t].inputs = {}
       /\ \A p \in Rows(l) : approval[t].inputs \cap Made(p) # {} =>
            \A a \in before \cup {t}, b \in {p} \cup Upstream(Rows(l), approval[p].pool) :
              a # b => approval[a].pool # approval[b].pool
=============================================================================
