------------------------------ MODULE PoolTip ------------------------------
(***************************************************************************)
(* services/pool_tip.py: PoolTipManager, the in-memory tip of the pool and *)
(* the single-flight build lock, with the watchdog coroutine that sweeps,  *)
(* reconciles and evicts.                                                  *)
(*                                                                         *)
(* All of it runs on one event loop: what happens between two awaits is    *)
(* one step.  The lock is asyncio.Lock: release() marks the first waiter   *)
(* runnable, but the waiter takes the lock only when its own turn comes;   *)
(* until then locked() is False and nobody else can barge in.              *)
(***************************************************************************)
EXTENDS PoolChain, Sequences

CONSTANTS
  DepthCap,   \* POOL_TIP_DEPTH_CAP
  Watchdog    \* the watchdog task, as a waiter of the lock

ASSUME TipAssumption ==
  /\ DepthCap \in Nat \ {0}
  /\ Watchdog \notin Builds /\ Watchdog # None

Tips == [ref : Refs, balance : Nat, status : {"confirmed", "pending"}, depth : Nat]

ASSUME NoneIsNoTip == None \notin Tips /\ None \notin Bodies

VARIABLES
  tip,       \* _tip
  tipStale,  \* the tip has been pending for the eviction window
  locked,    \* _lock.locked()
  waiters,   \* tasks awaiting _lock.acquire(), first come first served
  token,     \* _build_token
  overdue,   \* the token has been held for the signing timeout
  wd         \* the watchdog coroutine: where it awaits, the tip it looked at

lockVars == <<locked, waiters, token, overdue>>
tipVars == <<tip, tipStale>>

WdPcs == {"sleep", "confirmCheck", "liveFetch", "decide", "reconcileQueue",
          "evictCheck", "evictQueue"}

PoolTipTypeOK ==
  /\ tip \in Tips \cup {None}
  /\ tipStale \in BOOLEAN
  /\ locked \in BOOLEAN
  /\ waiters \in Seq(Builds \cup {Watchdog})
  /\ token \in Builds \cup {None}
  /\ overdue \in BOOLEAN
  /\ wd \in [pc : WdPcs, ref : Refs \cup {None}, settled : BOOLEAN]

Asleep == [pc |-> "sleep", ref |-> None, settled |-> FALSE]

PoolTipInit ==
  /\ tip = None /\ tipStale = FALSE
  /\ locked = FALSE /\ waiters = <<>>
  /\ token = None /\ overdue = FALSE
  /\ wd = Asleep

-----------------------------------------------------------------------------
(* asyncio.Lock                                                            *)

LockFree == ~locked /\ waiters = <<>>

Woken(p) == ~locked /\ waiters # <<>> /\ Head(waiters) = p

\* p comes out of `await lock.acquire()`, at once or after it was queued.
Gets(p) ==
  \/ LockFree /\ UNCHANGED waiters
  \/ Woken(p) /\ waiters' = Tail(waiters)

-----------------------------------------------------------------------------
(* Seeding                                                                 *)

ConfirmedTip(r) ==
  [ref |-> r, balance |-> Balance(r), status |-> "confirmed", depth |-> 0]

\* The largest of the outputs Blockfrost lists; equal ones come in any order.
Seeds ==
  {ConfirmedTip(r) : r \in {s \in LivePool : \A q \in LivePool : Balance(q) <= Balance(s)}}

Reseed == tip' \in Seeds /\ tipStale' = FALSE

\* The list is empty, or Blockfrost cannot be reached.
SeedFails == UNCHANGED tipVars

-----------------------------------------------------------------------------
(* The build lock                                                          *)

\* Mutant: the depth cap is compared one off.
SettlingOffByOne(t) == t.status = "pending" /\ t.depth > DepthCap

Settling(t) == t.status = "pending" /\ t.depth >= DepthCap

\* acquire_for_build returns t to b, which holds the lock from here on.
Admit(b, t) ==
  /\ t \in IF tip = None THEN Seeds ELSE {tip}
  /\ ~Settling(t)
  /\ tip' = t
  /\ token' = b /\ locked' = TRUE /\ overdue' = FALSE
  /\ UNCHANGED tipStale

\* acquire_for_build raises, the lock released: no tip could be seeded, or
\* the tip is at the depth cap.
RefuseBuild ==
  /\ tip # None => Settling(tip)
  /\ SeedFails
  /\ UNCHANGED <<token, locked, overdue>>

Unlock == token' = None /\ locked' = FALSE /\ overdue' = FALSE

\* Mutant: a stale caller releases whoever holds the lock.
OwnsLockAlways(b) == TRUE

OwnsLock(b) == token = b

ReleaseBuild(b) ==
  IF OwnsLock(b) THEN Unlock ELSE UNCHANGED <<token, locked, overdue>>

-----------------------------------------------------------------------------
(* advance_on_submit, with the flush its caller does when it raises        *)

\* Mutant: the built output is not compared with the expected remainder.
ProvesRemainderUnchecked(b) == tip.balance - Amount[b] > 0

\* The guards: the remainder is positive and the output the transaction
\* carries holds exactly that.  (Address and datum are as built.)
ProvesRemainder(b) ==
  /\ tip.balance - Amount[b] > 0
  /\ body[b].keeps = tip.balance - Amount[b]

AdvancedTip(b) ==
  [ref |-> b, balance |-> tip.balance - Amount[b], status |-> "pending",
   depth |-> tip.depth + 1]

\* A stale token mutates nothing, but the caller re-seeds all the same; a
\* drained pool or an output that fails the guards re-seeds too.
AdvanceOnSubmit(b) ==
  \/ /\ token # b
     /\ Reseed \/ SeedFails
     /\ UNCHANGED <<token, locked, overdue>>
  \/ /\ token = b
     /\ ProvesRemainder(b)
     /\ tip' = AdvancedTip(b) /\ tipStale' = FALSE
     /\ Unlock
  \/ /\ token = b
     /\ ~ProvesRemainder(b)
     /\ Reseed \/ SeedFails
     /\ Unlock

-----------------------------------------------------------------------------
(* The watchdog: sweep_stuck_build, reconcile_with_chain, evict_if_stale   *)

\* Mutant: the tick ends with reconcile_with_chain.
AfterReconcileSleeps == Asleep

\* Where the tick goes on once reconcile_with_chain has returned.
AfterReconcile ==
  IF tipStale THEN [pc |-> "evictCheck", ref |-> tip.ref, settled |-> FALSE] ELSE Asleep

\* Mutant: a build that others wait behind is not swept.
StuckUncontended == token # None /\ overdue /\ waiters = <<>>

\* Mutant: the sweep clears the token and leaves the lock locked.
SweptLockKept == locked

Stuck == token # None /\ overdue

SweptLock == locked /\ ~Stuck

\* The tick starts: the sweep, then reconcile up to its first await.
WdTick ==
  /\ wd.pc = "sleep"
  /\ locked' = SweptLock
  /\ token' = IF Stuck THEN None ELSE token
  /\ overdue' = (overdue /\ ~Stuck)
  /\ wd' = IF tip = None \/ locked' THEN AfterReconcile
           ELSE [pc |-> "confirmCheck", ref |-> tip.ref, settled |-> tip.status = "confirmed"]
  /\ UNCHANGED <<tipVars, waiters>>

WdTipConfirmed ==
  /\ wd.pc = "confirmCheck" /\ IsConfirmed(wd.ref)
  /\ wd' = [wd EXCEPT !.pc = "liveFetch"]
  /\ UNCHANGED <<tipVars, lockVars>>

\* Not confirmed, or an error, which counts as not confirmed.
WdTipNotConfirmed ==
  /\ wd.pc = "confirmCheck"
  /\ wd' = AfterReconcile
  /\ UNCHANGED <<tipVars, lockVars>>

\* Mutant: a confirmed tip counts as settled, spent or not.
StillLiveIfConfirmed(r) == IsConfirmed(r)

StillLive(r) == r \in LivePool

WdLiveFetched ==
  /\ wd.pc = "liveFetch"
  /\ wd' = [wd EXCEPT !.pc = "decide", !.settled = @ /\ StillLive(wd.ref)]
  /\ UNCHANGED <<tipVars, lockVars>>

WdLiveFetchFails ==
  /\ wd.pc = "liveFetch"
  /\ wd' = AfterReconcile
  /\ UNCHANGED <<tipVars, lockVars>>

WdNothingToReconcile ==
  /\ wd.pc = "decide"
  /\ wd.settled \/ locked
  /\ wd' = AfterReconcile
  /\ UNCHANGED <<tipVars, lockVars>>

TipStands == token = None /\ tip # None /\ tip.ref = wd.ref

\* Under the lock: re-seed unless the tip moved meanwhile.  A failed seed
\* aborts the tick.  The lock is released again within the step.
ReconcileLocked ==
  /\ \/ /\ TipStands
        /\ Reseed \/ SeedFails
        /\ wd' = Asleep
     \/ /\ ~TipStands
        /\ UNCHANGED tipVars
        /\ wd' = AfterReconcile
  /\ UNCHANGED <<locked, token, overdue>>

WdReconciles ==
  /\ wd.pc = "decide" /\ ~wd.settled /\ ~locked
  /\ waiters = <<>>
  /\ ReconcileLocked
  /\ UNCHANGED waiters

WdWaits(queue) ==
  /\ waiters # <<>>
  /\ waiters' = Append(waiters, Watchdog)
  /\ wd' = [wd EXCEPT !.pc = queue]
  /\ UNCHANGED <<tipVars, locked, token, overdue>>

WdReconcileWaits ==
  /\ wd.pc = "decide" /\ ~wd.settled /\ ~locked
  /\ WdWaits("reconcileQueue")

WdReconcileWoken ==
  /\ wd.pc = "reconcileQueue" /\ Woken(Watchdog)
  /\ waiters' = Tail(waiters)
  /\ ReconcileLocked

\* The tip confirmed after all, or a build holds the lock: next tick.
WdEvictionOff ==
  /\ wd.pc = "evictCheck"
  /\ IsConfirmed(wd.ref) \/ locked
  /\ wd' = Asleep
  /\ UNCHANGED <<tipVars, lockVars>>

EvictLocked ==
  /\ \/ tipStale /\ tip.ref = wd.ref /\ (Reseed \/ SeedFails)
     \/ ~(tipStale /\ tip.ref = wd.ref) /\ UNCHANGED tipVars
  /\ wd' = Asleep
  /\ UNCHANGED <<locked, token, overdue>>

\* Mutant: the eviction does not look at the lock.
WdEvictsUnlocked ==
  /\ wd.pc = "evictCheck"
  /\ EvictLocked
  /\ UNCHANGED waiters

WdEvicts ==
  /\ wd.pc = "evictCheck" /\ LockFree
  /\ EvictLocked
  /\ UNCHANGED waiters

WdEvictWaits ==
  /\ wd.pc = "evictCheck" /\ ~locked
  /\ WdWaits("evictQueue")

WdEvictWoken ==
  /\ wd.pc = "evictQueue" /\ Woken(Watchdog)
  /\ waiters' = Tail(waiters)
  /\ EvictLocked

WatchdogStep ==
  \/ WdTick
  \/ WdTipConfirmed \/ WdTipNotConfirmed \/ WdLiveFetched \/ WdLiveFetchFails
  \/ WdNothingToReconcile \/ WdReconciles \/ WdReconcileWaits \/ WdReconcileWoken
  \/ WdEvictionOff \/ WdEvicts \/ WdEvictWaits \/ WdEvictWoken

-----------------------------------------------------------------------------
(* Time                                                                    *)

SigningTimeout ==
  /\ token # None /\ ~overdue
  /\ overdue' = TRUE
  /\ UNCHANGED <<tipVars, locked, waiters, token, wd>>

EvictionWindow ==
  /\ tip # None /\ ~tipStale
  /\ tip.status = "pending"
  /\ tipStale' = TRUE
  /\ UNCHANGED <<tip, lockVars, wd>>
=============================================================================
