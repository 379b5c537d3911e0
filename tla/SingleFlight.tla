---------------------------- MODULE SingleFlight ----------------------------
(***************************************************************************)
(* What the pool-tip chainer promises, with no lock, queue, coroutine or   *)
(* network in it: one build at a time owns the tip; the tip moves forward  *)
(* only by the owner's transaction, once that has landed, by exactly what  *)
(* it delivers and never beyond the depth cap; any other change of the tip *)
(* goes back to an output the chain lists as unspent; and a build loses    *)
(* the tip only when it is over or has overstayed the signing timeout.     *)
(***************************************************************************)
EXTENDS Integers

CONSTANTS Builds, Amount, DepthCap, None

VARIABLES
  holder,  \* the build that owns the tip, None if nobody does
  late,    \* the holder has overstayed the signing timeout
  over,    \* builds that have failed, or whose submission has ended
  tip,     \* the output the next build spends, None if not known
  landed,  \* transactions a node has taken
  seeds    \* tips the chain would seed

vars == <<holder, late, over, tip, landed, seeds>>

Init ==
  /\ holder = None /\ late = FALSE /\ over = {}
  /\ tip = None
  /\ landed = {}

Acquire(b) ==
  /\ holder = None
  /\ holder' = b
  /\ IF tip = None THEN tip' \in seeds ELSE tip' = tip
  /\ tip'.depth < DepthCap

Release ==
  /\ holder # None
  /\ holder \in over' \/ late
  /\ holder' = None
  /\ tip' = tip

Advance ==
  /\ holder \in landed \cap over'
  /\ tip' = [ref |-> holder, balance |-> tip.balance - Amount[holder],
             status |-> "pending", depth |-> tip.depth + 1]
  /\ tip'.balance > 0
  /\ holder' = None

Reseed ==
  /\ tip' \in seeds
  /\ holder' = holder \/ (holder \in over' /\ holder' = None)

\* The process restarts.
Forget == tip' = None /\ holder' = None

Elsewhere == UNCHANGED <<holder, tip>>

Next ==
  /\ \/ \E b \in Builds : Acquire(b)
     \/ Release \/ Advance \/ Reseed \/ Forget \/ Elsewhere
  /\ landed \subseteq landed'

Spec == Init /\ [][Next]_vars
=============================================================================
