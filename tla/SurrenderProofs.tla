-------------------------- MODULE SurrenderProofs --------------------------
(***************************************************************************)
(* Proofs about Surrender, for every set of roots, builds and calls, every *)
(* depth cap and every number of restarts: its types, its safety           *)
(* invariants from these and from what a build goes through in its life,   *)
(* that it implements SingleFlight, and how deep its chain gets.           *)
(***************************************************************************)
EXTENDS Surrender, SumProofs

\* What typing rests on: a transaction that a node has taken has a body, a
\* stale tip and the tip of a running build are tips, a submission under way
\* is of a build.
Grounded ==
  /\ \A t \in Txs : status[t] # "unknown" => body[t] \in Bodies
  /\ tipStale => tip # None
  /\ token # None => tip # None
  /\ \A c \in Calls : call[c].pc # "idle" => call[c].build \in Builds

TypeInv == TypeOK /\ Grounded

\* What Blockfrost lists can be seeded: an output that is there, in its true
\* and positive balance, as a confirmed tip of depth 0 (seed_from_chain).
LEMMA SeedsAreTrue ==
  ASSUME TypeInv, NEW s \in Seeds
  PROVE  /\ s \in Tips
         /\ s.status = "confirmed" /\ s.depth = 0
         /\ s.ref \in Roots \cup Landed
         /\ s.balance = Balance(s.ref) /\ s.balance > 0
  <1>1. PICK r \in LivePool : s = ConfirmedTip(r)
    BY DEF Seeds
  <1>2. r \in Roots \/ (r \in Confirmed /\ body[r].keeps > 0)
    BY <1>1 DEF LivePool, Unspent
  <1>3. CASE r \in Roots
    BY <1>1, <1>3, ChainAssumption DEF ConfirmedTip, Balance, Tips, Refs
  <1>4. CASE r \in Confirmed /\ body[r].keeps > 0 /\ r \notin Roots
    <2>1. r \in Txs /\ r \in Landed /\ body[r] \in Bodies
      BY <1>4 DEF Confirmed, Landed, TypeInv, Grounded
    <2>2. body[r].keeps \in Nat
      BY <2>1 DEF Bodies
    <2>3. QED
      BY <1>1, <1>4, <2>1, <2>2 DEF ConfirmedTip, Balance, Tips, Refs
  <1>5. QED
    BY <1>2, <1>3, <1>4

-----------------------------------------------------------------------------
(* Type correctness                                                        *)

LEMMA InitTyped == Init => TypeInv
  <1> SUFFICES ASSUME Init PROVE TypeInv
    OBVIOUS
  <1> USE DEF Init
  <1>1. ChainTypeOK
    BY DEF ChainInit, ChainTypeOK, Statuses
  <1>2. PoolTipTypeOK
    <2>1. /\ tip \in Tips \cup {None} /\ waiters \in Seq(Builds \cup {Watchdog})
          /\ token \in Builds \cup {None}
      BY DEF PoolTipInit
    <2>2. tipStale \in BOOLEAN /\ locked \in BOOLEAN /\ overdue \in BOOLEAN
      BY DEF PoolTipInit
    <2>3. wd \in [pc : WdPcs, ref : Refs \cup {None}, settled : BOOLEAN]
      BY DEF PoolTipInit, Asleep, WdPcs
    <2>4. QED
      BY <2>1, <2>2, <2>3 DEF PoolTipTypeOK
  <1>3. /\ pc \in [Builds -> BuildPcs] /\ restarts \in Nat
        /\ registered \subseteq Builds /\ expired \subseteq registered
        /\ call \in [Calls -> [pc : CallPcs, build : Builds \cup {None}]]
        /\ ahead \subseteq Tasks
    BY DEF BuildPcs, CallPcs, NoCall
  <1>4. Grounded
    BY DEF Grounded, ChainInit, PoolTipInit, NoCall
  <1>5. QED
    BY <1>1, <1>2, <1>3, <1>4 DEF TypeInv, TypeOK

\* Which steps touch the transactions.
LEMMA ChainFrame ==
  ASSUME [Next]_vars
  PROVE  \/ \E b \in Builds : BuildStarts(b)
         \/ \E c \in Calls : NodeAccepts(c)
         \/ ChainNext
         \/ UNCHANGED chainVars
  <1>1. ASSUME NEW b \in Builds, Build(b) PROVE BuildStarts(b) \/ UNCHANGED chainVars
    BY <1>1 DEF Build, BuildWaits, BuildRefused, BuildShort, Turn, BuildDone, BuildFails, chainVars
  <1>2. ASSUME NEW c \in Calls, Submit(c) \/ NodeAnswers(c) PROVE NodeAccepts(c) \/ UNCHANGED chainVars
    BY <1>2 DEF Submit, NodeAnswers, SubmitStarts, SubmitTurnedAway, SignRefused, SignCrashes, Signed,
                NodeRejects, SubmitFails, SubmitAccepted
  <1>3. Tick => UNCHANGED chainVars
    BY DEF Tick, HashExpires
  <1>4. QED
    BY <1>1, <1>2, <1>3 DEF Next, WatchdogRuns, Restart, vars

LEMMA BalanceTyped ==
  ASSUME TypeInv, NEW r \in Refs, r \in Roots \/ status[r] # "unknown"
  PROVE  Balance(r) \in Nat
  <1>1. CASE r \in Roots
    BY <1>1, ChainAssumption DEF Balance
  <1>2. CASE r \notin Roots
    <2>1. r \in Txs /\ body[r] \in Bodies
      BY <1>2 DEF Refs, TypeInv, Grounded
    <2>2. QED
      BY <1>2, <2>1 DEF Balance, Bodies
  <1>3. QED
    BY <1>1, <1>2

BodiesGrounded == \A t \in Txs : status[t] # "unknown" => body[t] \in Bodies

LEMMA ChainTyped ==
  ASSUME TypeInv, [Next]_vars
  PROVE  ChainTypeOK' /\ BodiesGrounded'
  <1> USE DEF ChainTypeOK, BodiesGrounded
  <1>0. ChainTypeOK /\ BodiesGrounded
    BY DEF TypeInv, TypeOK, Grounded
  <1>1. ASSUME NEW b \in Builds, BuildStarts(b) PROVE ChainTypeOK' /\ BodiesGrounded'
    <2>1. PICK t \in IF tip = None THEN Seeds ELSE {tip} :
            /\ Covers(b, t)
            /\ body' = [body EXCEPT ![b] = [spends |-> t.ref, keeps |-> t.balance - Amount[b]]]
      BY <1>1 DEF BuildStarts, SurrenderBody
    <2>2. t \in Tips
      BY SeedsAreTrue DEF TypeInv, TypeOK, PoolTipTypeOK
    <2>3. [spends |-> t.ref, keeps |-> t.balance - Amount[b]] \in Bodies
      BY <2>1, <2>2, ChainAssumption DEF Tips, Bodies, Covers
    <2>4. status' = status
      BY <1>1 DEF BuildStarts, Turn
    <2>5. QED
      BY <1>0, <2>1, <2>3, <2>4 DEF Txs
  <1>2. ASSUME NEW c \in Calls, NodeAccepts(c) PROVE ChainTypeOK' /\ BodiesGrounded'
    <2>1. call[c].build \in Builds
      BY <1>2 DEF NodeAccepts, TypeInv, Grounded
    <2>2. QED
      BY <1>0, <1>2, <2>1, NoneIsNoTip DEF NodeAccepts, Accept, Acceptable, Statuses, Txs
  <1>3. ASSUME NEW t \in Txs, Confirm(t) \/ Drop(t) PROVE ChainTypeOK' /\ BodiesGrounded'
    BY <1>0, <1>3 DEF Confirm, Drop, Statuses
  <1>4. ASSUME NEW t \in AdminTxs, NEW r \in Refs, AdminSpends(t, r)
        PROVE  ChainTypeOK' /\ BodiesGrounded'
    <2>1. r \in Roots \/ status[r] # "unknown"
      BY <1>4 DEF AdminSpends, Unspent, Mempool, Confirmed
    <2>2. Balance(r) \in Nat
      BY <2>1, BalanceTyped
    <2>3. PICK keeps \in {0, Balance(r)} :
            body' = [body EXCEPT ![t] = [spends |-> r, keeps |-> keeps]]
      BY <1>4 DEF AdminSpends
    <2>4. [spends |-> r, keeps |-> keeps] \in Bodies
      BY <2>2 DEF Bodies
    <2>5. status' = [status EXCEPT ![t] = "mempool"]
      BY <1>4 DEF AdminSpends, Accept
    <2>6. QED
      BY <1>0, <2>3, <2>4, <2>5 DEF Statuses, Txs
  <1>5. CASE UNCHANGED chainVars
    BY <1>0, <1>5 DEF chainVars
  <1>6. QED
    BY <1>1, <1>2, <1>3, <1>4, <1>5, ChainFrame DEF ChainNext

\* An advance: the holder's submission came back accepted and proved its
\* remainder.
Advances(c) ==
  /\ SubmitAccepted(c)
  /\ token = call[c].build /\ ProvesRemainder(token)
  /\ tip' = AdvancedTip(token) /\ tipStale' = FALSE
  /\ token' = None

\* A first seed at acquisition, which takes the lock or not.
FirstSeed == tip = None /\ tip' \in Seeds /\ UNCHANGED tipStale

\* Which steps touch the tip, and how.
LEMMA TipFrame ==
  ASSUME [Next]_vars
  PROVE  \/ UNCHANGED tipVars
         \/ Reseed
         \/ FirstSeed
         \/ \E c \in Calls : Advances(c)
         \/ tip # None /\ tip' = tip /\ tipStale' = TRUE
         \/ tip' = None /\ tipStale' = FALSE /\ token' = None
  <1> DEFINE Moves == \/ UNCHANGED tipVars
                      \/ Reseed
                      \/ FirstSeed
                      \/ \E c \in Calls : Advances(c)
                      \/ tip # None /\ tip' = tip /\ tipStale' = TRUE
                      \/ tip' = None /\ tipStale' = FALSE /\ token' = None
  <1>1. ASSUME NEW b \in Builds, Build(b) PROVE Moves
    <2>1. CASE BuildShort(b)
      BY <2>1 DEF BuildShort, FirstSeed, tipVars
    <2>2. CASE BuildStarts(b)
      BY <2>2 DEF BuildStarts, Admit, FirstSeed, tipVars
    <2>3. QED
      BY <1>1, <2>1, <2>2 DEF Build, BuildWaits, BuildRefused, RefuseBuild, SeedFails,
           BuildDone, BuildFails
  <1>2. ASSUME NEW c \in Calls, Submit(c) \/ NodeAnswers(c) PROVE Moves
    <2>1. CASE SubmitAccepted(c)
      BY <2>1 DEF SubmitAccepted, AdvanceOnSubmit, Advances, SeedFails, Unlock
    <2>2. QED
      BY <1>2, <2>1 DEF Submit, NodeAnswers, SubmitStarts, SubmitTurnedAway, SignRefused, SignCrashes,
           Signed, NodeAccepts, NodeRejects, SubmitFails
  <1>3. WatchdogStep => UNCHANGED tipVars \/ Reseed
    BY DEF WatchdogStep, WdTick, WdTipConfirmed, WdTipNotConfirmed, WdLiveFetched,
         WdLiveFetchFails, WdNothingToReconcile, WdReconciles, WdReconcileWaits,
         WdReconcileWoken, WdEvictionOff, WdEvicts, WdEvictWaits, WdEvictWoken, WdWaits,
         ReconcileLocked, EvictLocked, SeedFails
  <1>4. Tick => Moves
    BY DEF Tick, SigningTimeout, EvictionWindow, HashExpires
  <1>5. Restart => Moves
    BY DEF Restart
  <1>6. CASE UNCHANGED vars
    BY <1>6 DEF vars
  <1>7. QED
    BY <1>1, <1>2, <1>3, <1>4, <1>5, <1>6 DEF Next, WatchdogRuns

\* Which steps touch the lock, and how.
LEMMA LockFrame ==
  ASSUME TypeInv, [Next]_vars
  PROVE  \/ UNCHANGED <<token, locked, overdue>>
         \/ Unlock
         \/ \E b \in Builds : BuildStarts(b)
         \/ token # None /\ token' = token /\ locked' = locked /\ overdue' = TRUE
  <1> DEFINE Moves == \/ UNCHANGED <<token, locked, overdue>>
                      \/ Unlock
                      \/ \E b \in Builds : BuildStarts(b)
                      \/ token # None /\ token' = token /\ locked' = locked /\ overdue' = TRUE
  <1>1. ASSUME NEW b \in Builds, Build(b) PROVE Moves
    BY <1>1 DEF Build, BuildWaits, BuildRefused, RefuseBuild, BuildShort, BuildDone, BuildFails,
                ReleaseBuild, lockVars
  <1>2. ASSUME NEW c \in Calls, Submit(c) \/ NodeAnswers(c) PROVE Moves
    BY <1>2 DEF Submit, NodeAnswers, SubmitStarts, SubmitTurnedAway, SignRefused, SignCrashes, Signed,
                NodeAccepts, NodeRejects, SubmitFails, SubmitAccepted, AdvanceOnSubmit,
                Abandon, ReleaseBuild, lockVars
  <1>3. WatchdogStep => UNCHANGED <<token, locked, overdue>> \/ Unlock
    <2>1. ASSUME WdTick PROVE UNCHANGED <<token, locked, overdue>> \/ Unlock
      <3>1. CASE Stuck
        BY <2>1, <3>1 DEF WdTick, SweptLock, Unlock
      <3>2. CASE ~Stuck
        <4>1. locked \in BOOLEAN /\ overdue \in BOOLEAN
          BY DEF TypeInv, TypeOK, PoolTipTypeOK
        <4>2. locked' = locked /\ token' = token /\ overdue' = overdue
          BY <2>1, <3>2, <4>1 DEF WdTick, SweptLock
        <4>3. QED
          BY <4>2
      <3>3. QED
        BY <3>1, <3>2
    <2>2. QED
      BY <2>1 DEF WatchdogStep, WdTipConfirmed, WdTipNotConfirmed, WdLiveFetched,
         WdLiveFetchFails, WdNothingToReconcile, WdReconciles, WdReconcileWaits,
         WdReconcileWoken, WdEvictionOff, WdEvicts, WdEvictWaits, WdEvictWoken, WdWaits,
         ReconcileLocked, EvictLocked, lockVars
  <1>4. Tick => Moves
    BY DEF Tick, SigningTimeout, EvictionWindow, HashExpires, lockVars
  <1>5. Restart => Moves
    BY DEF Restart, Unlock
  <1>6. CASE UNCHANGED vars
    BY <1>6 DEF vars, lockVars
  <1>7. QED
    BY <1>1, <1>2, <1>3, <1>4, <1>5, <1>6 DEF Next, WatchdogRuns, lockVars

\* What a build starts on is a tip, and it is the tip from then on.
LEMMA StartsOnTip ==
  ASSUME TypeInv, NEW b \in Builds, BuildStarts(b)
  PROVE  /\ tip' \in Tips /\ ~Settling(tip')
         /\ token' = b /\ locked' = TRUE /\ overdue' = FALSE
         /\ pc[b] \in {"new", "waiting"}
         /\ pc' = [pc EXCEPT ![b] = IF tip'.status = "pending" THEN "chaining" ELSE "building"]
  BY SeedsAreTrue DEF BuildStarts, Admit, Turn, TypeInv, TypeOK, PoolTipTypeOK

LEMMA TipTyped ==
  ASSUME TypeInv, [Next]_vars
  PROVE  /\ tip' \in Tips \cup {None} /\ tipStale' \in BOOLEAN
         /\ (tipStale => tip # None)'
         /\ (token # None => tip # None)'
         /\ token' \in Builds \cup {None}
         /\ locked' \in BOOLEAN /\ overdue' \in BOOLEAN
  <1>0. /\ tip \in Tips \cup {None} /\ tipStale \in BOOLEAN
        /\ tipStale => tip # None
        /\ token # None => tip # None
        /\ token \in Builds \cup {None}
        /\ locked \in BOOLEAN /\ overdue \in BOOLEAN
    BY DEF TypeInv, TypeOK, PoolTipTypeOK, Grounded
  <1>1. /\ tip' \in Tips \cup {None} /\ tipStale' \in BOOLEAN
        /\ (tipStale => tip # None)'
        /\ tip' = None => token' = None \/ UNCHANGED tipVars
    <2>1. CASE UNCHANGED tipVars
      BY <1>0, <2>1 DEF tipVars
    <2>2. CASE Reseed
      BY <2>2, SeedsAreTrue, NoneIsNoTip DEF Reseed
    <2>3. CASE FirstSeed
      BY <1>0, <2>3, SeedsAreTrue, NoneIsNoTip DEF FirstSeed
    <2>4. ASSUME NEW c \in Calls, Advances(c)
          PROVE  tip' \in Tips /\ tipStale' = FALSE
      <3>1. token \in Builds /\ tip \in Tips
        <4>1. token = call[c].build /\ call[c].pc = "accepted"
          BY <2>4 DEF Advances, SubmitAccepted
        <4>2. token \in Builds
          BY <4>1 DEF TypeInv, Grounded
        <4>3. QED
          BY <1>0, <4>2, ChainAssumption
      <3>2. tip' = AdvancedTip(token) /\ ProvesRemainder(token) /\ tipStale' = FALSE
        BY <2>4 DEF Advances
      <3>3. QED
        BY <3>1, <3>2, ChainAssumption DEF AdvancedTip, ProvesRemainder, Tips, Refs, Txs
    <2>5. CASE tip # None /\ tip' = tip /\ tipStale' = TRUE
      BY <1>0, <2>5
    <2>6. CASE tip' = None /\ tipStale' = FALSE /\ token' = None
      BY <2>6
    <2>7. QED
      BY <2>1, <2>2, <2>3, <2>4, <2>5, <2>6, TipFrame, NoneIsNoTip
  <1>2. /\ token' \in Builds \cup {None} /\ locked' \in BOOLEAN /\ overdue' \in BOOLEAN
        /\ token' # None => token' = token \/ tip' \in Tips
    BY <1>0, LockFrame, StartsOnTip DEF Unlock
  <1>3. QED
    BY <1>0, <1>1, <1>2, NoneIsNoTip DEF tipVars

LEMMA WaitersTyped ==
  ASSUME TypeInv, [Next]_vars
  PROVE  waiters' \in Seq(Builds \cup {Watchdog})
  <1> DEFINE Moves == \/ UNCHANGED waiters
                      \/ \E p \in Builds \cup {Watchdog} : waiters' = Append(waiters, p)
                      \/ waiters # <<>> /\ waiters' = Tail(waiters)
                      \/ waiters' = <<>>
  <1>1. ASSUME NEW b \in Builds, Build(b) PROVE Moves
    BY <1>1 DEF Build, BuildWaits, BuildRefused, BuildShort, BuildStarts, Turn, Gets, Woken,
                BuildDone, BuildFails, lockVars
  <1>2. ASSUME NEW c \in Calls, Submit(c) \/ NodeAnswers(c) PROVE Moves
    BY <1>2 DEF Submit, NodeAnswers, SubmitStarts, SubmitTurnedAway, SignRefused, SignCrashes, Signed,
                NodeAccepts, NodeRejects, SubmitFails, SubmitAccepted, lockVars
  <1>3. WatchdogStep => Moves
    BY DEF WatchdogStep, WdTick, WdTipConfirmed, WdTipNotConfirmed, WdLiveFetched,
         WdLiveFetchFails, WdNothingToReconcile, WdReconciles, WdReconcileWaits,
         WdReconcileWoken, WdEvictionOff, WdEvicts, WdEvictWaits, WdEvictWoken, WdWaits,
         Woken, lockVars
  <1>4. Tick \/ Restart \/ UNCHANGED vars => Moves
    BY DEF Tick, SigningTimeout, EvictionWindow, HashExpires, Restart, lockVars, vars
  <1>5. waiters \in Seq(Builds \cup {Watchdog})
    BY DEF TypeInv, TypeOK, PoolTipTypeOK
  <1>6. Moves => waiters' \in Seq(Builds \cup {Watchdog})
    <2>1. ASSUME NEW p \in Builds \cup {Watchdog}, waiters' = Append(waiters, p)
          PROVE  waiters' \in Seq(Builds \cup {Watchdog})
      BY <1>5, <2>1
    <2>2. CASE waiters # <<>> /\ waiters' = Tail(waiters)
      BY <1>5, <2>2
    <2>3. CASE UNCHANGED waiters
      BY <1>5, <2>3
    <2>4. CASE waiters' = <<>>
      BY <2>4
    <2>5. QED
      BY <2>1, <2>2, <2>3, <2>4
  <1>7. QED
    BY <1>1, <1>2, <1>3, <1>4, <1>6 DEF Next, WatchdogRuns, lockVars

LEMMA WatchdogTyped ==
  ASSUME TypeInv, [Next]_vars
  PROVE  wd' \in [pc : WdPcs, ref : Refs \cup {None}, settled : BOOLEAN]
  <1> DEFINE Wds == [pc : WdPcs, ref : Refs \cup {None}, settled : BOOLEAN]
  <1>0. wd \in Wds /\ tip \in Tips \cup {None} /\ (tipStale => tip # None)
    BY DEF TypeInv, TypeOK, PoolTipTypeOK, Grounded
  <1>1. Asleep \in Wds
    BY DEF Asleep, WdPcs
  <1>2. AfterReconcile \in Wds
    <2>1. CASE tipStale
      <3>1. tip.ref \in Refs
        BY <1>0, <2>1 DEF Tips
      <3>2. AfterReconcile = [pc |-> "evictCheck", ref |-> tip.ref, settled |-> FALSE]
        BY <2>1 DEF AfterReconcile
      <3>3. QED
        BY <3>1, <3>2 DEF WdPcs
    <2>2. CASE ~tipStale
      BY <1>1, <2>2 DEF AfterReconcile
    <2>3. QED
      BY <2>1, <2>2
  <1>3. ASSUME WdTick PROVE wd' \in Wds
    <2>1. CASE tip = None \/ locked'
      BY <1>2, <1>3, <2>1 DEF WdTick
    <2>2. CASE ~(tip = None \/ locked')
      <3>1. wd' = [pc |-> "confirmCheck", ref |-> tip.ref, settled |-> tip.status = "confirmed"]
        BY <1>3, <2>2 DEF WdTick
      <3>2. tip.ref \in Refs
        BY <1>0, <2>2 DEF Tips
      <3>3. (tip.status = "confirmed") \in BOOLEAN
        OBVIOUS
      <3>4. QED
        BY <3>1, <3>2, <3>3 DEF WdPcs
    <2>3. QED
      BY <2>1, <2>2
  <1>4. ASSUME WdLiveFetched PROVE wd' \in Wds
    <2>1. (wd.settled /\ StillLive(wd.ref)) \in BOOLEAN
      OBVIOUS
    <2>2. wd' = [wd EXCEPT !.pc = "decide", !.settled = wd.settled /\ StillLive(wd.ref)]
      BY <1>4 DEF WdLiveFetched
    <2>3. QED
      BY <1>0, <2>1, <2>2 DEF WdPcs
  <1>5. ASSUME WatchdogStep PROVE wd' \in Wds
    <2>1. \/ WdTick \/ WdLiveFetched
          \/ wd' \in {Asleep, AfterReconcile}
          \/ \E p \in {"liveFetch", "reconcileQueue", "evictQueue"} : wd' = [wd EXCEPT !.pc = p]
      BY <1>5 DEF WatchdogStep, WdTipConfirmed, WdTipNotConfirmed, WdLiveFetchFails,
           WdNothingToReconcile, WdReconciles, WdReconcileWaits, WdReconcileWoken,
           WdEvictionOff, WdEvicts, WdEvictWaits, WdEvictWoken, WdWaits,
           ReconcileLocked, EvictLocked
    <2>2. ASSUME NEW p \in {"liveFetch", "reconcileQueue", "evictQueue"},
                 wd' = [wd EXCEPT !.pc = p]
          PROVE  wd' \in Wds
      BY <1>0, <2>2 DEF WdPcs
    <2>3. QED
      BY <1>1, <1>2, <1>3, <1>4, <2>1, <2>2
  <1>6. ASSUME NEW b \in Builds, Build(b) PROVE wd' = wd
    BY <1>6 DEF Build, BuildWaits, BuildRefused, BuildShort, BuildStarts, Turn,
                BuildDone, BuildFails
  <1>7. ASSUME NEW c \in Calls, Submit(c) \/ NodeAnswers(c) PROVE wd' = wd
    BY <1>7 DEF Submit, NodeAnswers, SubmitStarts, SubmitTurnedAway, SignRefused, SignCrashes, Signed,
                NodeAccepts, NodeRejects, SubmitFails, SubmitAccepted
  <1>8. Tick \/ Restart \/ UNCHANGED vars => wd' \in {wd, Asleep}
    BY DEF Tick, SigningTimeout, EvictionWindow, HashExpires, Restart, vars
  <1>9. QED
    BY <1>0, <1>1, <1>5, <1>6, <1>7, <1>8 DEF Next, WatchdogRuns

LEMMA ApiTyped ==
  ASSUME TypeInv, [Next]_vars
  PROVE  /\ pc' \in [Builds -> BuildPcs]
         /\ registered' \subseteq Builds /\ expired' \subseteq registered'
         /\ call' \in [Calls -> [pc : CallPcs, build : Builds \cup {None}]]
         /\ restarts' \in Nat
         /\ \A c \in Calls :
              call'[c].pc # "idle" => call'[c].build \in Builds
  <1> DEFINE Goal ==
         /\ pc' \in [Builds -> BuildPcs]
         /\ registered' \subseteq Builds /\ expired' \subseteq registered'
         /\ call' \in [Calls -> [pc : CallPcs, build : Builds \cup {None}]]
         /\ restarts' \in Nat
         /\ \A c \in Calls :
              call'[c].pc # "idle" => call'[c].build \in Builds
  <1>0. /\ pc \in [Builds -> BuildPcs]
        /\ registered \subseteq Builds /\ expired \subseteq registered
        /\ call \in [Calls -> [pc : CallPcs, build : Builds \cup {None}]]
        /\ restarts \in Nat
        /\ \A c \in Calls :
             call[c].pc # "idle" => call[c].build \in Builds
    BY DEF TypeInv, TypeOK, Grounded
  <1>1. ASSUME NEW b \in Builds, Build(b) PROVE Goal
    <2>1. UNCHANGED <<call, restarts>>
      BY <1>1 DEF Build, BuildWaits, BuildRefused, BuildShort, BuildStarts, Turn,
                  BuildDone, BuildFails
    <2>2. \E p \in {"waiting", "failed", "chaining", "building", "built"} :
            pc' = [pc EXCEPT ![b] = p]
      BY <1>1 DEF Build, BuildWaits, BuildRefused, BuildShort, BuildStarts,
                  BuildDone, BuildFails
    <2>3. \/ UNCHANGED <<registered, expired>>
          \/ registered' = (registered \ expired) \cup {b} /\ expired' = {}
      BY <1>1 DEF Build, BuildWaits, BuildRefused, BuildShort, BuildStarts, Turn,
                  BuildDone, BuildFails
    <2>4. pc' \in [Builds -> BuildPcs]
      BY <1>0, <2>2 DEF BuildPcs
    <2>5. QED
      BY <1>0, <2>1, <2>3, <2>4
  <1>2. ASSUME NEW c \in Calls, Submit(c) \/ NodeAnswers(c) PROVE Goal
    <2>1. UNCHANGED <<pc, restarts>>
      BY <1>2 DEF Submit, NodeAnswers, SubmitStarts, SubmitTurnedAway, SignRefused, SignCrashes, Signed,
                  NodeAccepts, NodeRejects, SubmitFails, SubmitAccepted
    <2>2. registered' \subseteq registered /\ expired' \subseteq registered'
      BY <1>0, <1>2 DEF Submit, NodeAnswers, SubmitStarts, SubmitTurnedAway, SignRefused, SignCrashes,
                  Signed, NodeAccepts, NodeRejects, SubmitFails, SubmitAccepted, Abandon
    <2>3. \/ \E b \in Builds : call' = [call EXCEPT ![c] = [pc |-> "signing", build |-> b]]
          \/ call' = [call EXCEPT ![c] = NoCall]
          \/ call' = call
          \/ /\ call[c].pc \in {"signing", "sending"}
             /\ \E p \in CallPcs : call' = [call EXCEPT ![c].pc = p]
      BY <1>2 DEF Submit, NodeAnswers, SubmitStarts, SubmitTurnedAway, SignRefused, SignCrashes,
                  Signed, NodeAccepts, NodeRejects, SubmitFails, SubmitAccepted, CallGoes,
                  CallEnds, CallPcs
    <2>4. /\ call' \in [Calls -> [pc : CallPcs, build : Builds \cup {None}]]
          /\ \A d \in Calls : call'[d].pc # "idle" => call'[d].build \in Builds
      <3>1. ASSUME NEW b \in Builds, call' = [call EXCEPT ![c] = [pc |-> "signing", build |-> b]]
            PROVE  /\ call' \in [Calls -> [pc : CallPcs, build : Builds \cup {None}]]
                   /\ \A d \in Calls : call'[d].pc # "idle" => call'[d].build \in Builds
        BY <1>0, <3>1 DEF CallPcs
      <3>2. ASSUME NEW p \in CallPcs, call' = [call EXCEPT ![c].pc = p],
                   call[c].pc \in {"signing", "sending"}
            PROVE  /\ call' \in [Calls -> [pc : CallPcs, build : Builds \cup {None}]]
                   /\ \A d \in Calls : call'[d].pc # "idle" => call'[d].build \in Builds
        BY <1>0, <3>2 DEF CallPcs
      <3>3. CASE call' = [call EXCEPT ![c] = NoCall]
        BY <1>0, <3>3 DEF CallPcs, NoCall
      <3>4. QED
        BY <1>0, <2>3, <3>1, <3>2, <3>3
    <2>5. QED
      BY <1>0, <2>1, <2>2, <2>4
  <1>3. ASSUME NEW b \in Builds, HashExpires(b) PROVE Goal
    BY <1>0, <1>3 DEF HashExpires
  <1>4. ASSUME Restart PROVE Goal
    <2>1. pc' \in [Builds -> BuildPcs]
      BY <1>0, <1>4 DEF Restart, BuildPcs
    <2>2. registered' = {} /\ expired' = {} /\ restarts' \in Nat
      BY <1>0, <1>4 DEF Restart
    <2>3. \A c \in Calls : /\ call'[c] \in [pc : CallPcs, build : Builds \cup {None}]
                           /\ call'[c].pc # "idle" => call'[c].build \in Builds
      <3>1. ASSUME NEW c \in Calls, call[c].pc \in {"sending", "lost"}
            PROVE  /\ call'[c] \in [pc : CallPcs, build : Builds \cup {None}]
                   /\ call'[c].build \in Builds
        <4>1. call'[c] = [call[c] EXCEPT !.pc = "lost"]
          BY <1>4, <3>1 DEF Restart
        <4>2. call[c] \in [pc : CallPcs, build : Builds \cup {None}] /\ call[c].build \in Builds
          BY <1>0, <3>1
        <4>3. QED
          BY <4>1, <4>2 DEF CallPcs
      <3>2. ASSUME NEW c \in Calls, call[c].pc \notin {"sending", "lost"}
            PROVE  /\ call'[c] \in [pc : CallPcs, build : Builds \cup {None}]
                   /\ call'[c].pc = "idle"
        BY <1>4, <3>2 DEF Restart, NoCall, CallPcs
      <3>3. QED
        BY <3>1, <3>2
    <2>4. call' \in [Calls -> [pc : CallPcs, build : Builds \cup {None}]]
      BY <1>4, <2>3 DEF Restart
    <2>5. QED
      BY <1>0, <2>1, <2>2, <2>3, <2>4
  <1>5. CASE UNCHANGED apiVars
    BY <1>0, <1>5 DEF apiVars
  <1>6. UNCHANGED vars => UNCHANGED apiVars
    BY DEF vars
  <1>7. QED
    BY <1>1, <1>2, <1>3, <1>4, <1>5, <1>6 DEF Next, WatchdogRuns, Tick

LEMMA AheadTyped ==
  ASSUME TypeInv, [Next]_vars
  PROVE  ahead' \subseteq Tasks
  <1>1. ahead \subseteq Tasks
    BY DEF TypeInv, TypeOK
  <1>2. ASSUME NEW p, Runs(p) PROVE ahead' \subseteq Tasks
    BY <1>1, <1>2 DEF Runs
  <1>3. QED
    BY <1>1, <1>2 DEF Next, WatchdogRuns, Restart, vars

LEMMA TypeStep == TypeInv /\ [Next]_vars => TypeInv'
  BY ChainTyped, TipTyped, WaitersTyped, WatchdogTyped, ApiTyped, AheadTyped
  DEF TypeInv, TypeOK, PoolTipTypeOK, Grounded, BodiesGrounded

\* Every variable keeps its type (all of pool_tip.py's and surrender_api.py's
\* state), whatever interleaves.
THEOREM TypeCorrect == Spec => []TypeOK
  <1>1. TypeInv => TypeOK
    BY DEF TypeInv
  <1>2. QED
    BY InitTyped, TypeStep, <1>1, PTL DEF Spec


-----------------------------------------------------------------------------
(* The lock and its token                                                  *)

LEMMA LockStep ==
  ASSUME TypeInv, LockHasToken, [Next]_vars
  PROVE  LockHasToken'
  <1>1. CASE UNCHANGED <<token, locked, overdue>>
    BY <1>1 DEF LockHasToken
  <1>2. CASE Unlock
    BY <1>2 DEF Unlock, LockHasToken
  <1>3. ASSUME NEW b \in Builds, BuildStarts(b) PROVE LockHasToken'
    <2>1. token' = b /\ locked' = TRUE
      BY <1>3, StartsOnTip
    <2>2. b # None
      BY ChainAssumption
    <2>3. QED
      BY <2>1, <2>2 DEF LockHasToken
  <1>4. CASE token # None /\ token' = token /\ locked' = locked /\ overdue' = TRUE
    BY <1>4 DEF LockHasToken
  <1>5. QED
    BY <1>1, <1>2, <1>3, <1>4, LockFrame

\* The lock is locked exactly while a build's token is there to sweep it by
\* (pool_tip.py: acquire_for_build, release_build, advance_on_submit,
\* sweep_stuck_build), whatever the number of builds, calls and restarts.
THEOREM LockAlwaysHasToken == Spec => []LockHasToken
  <1>1. Init => TypeInv /\ LockHasToken
    BY InitTyped DEF Init, PoolTipInit, LockHasToken
  <1>2. TypeInv /\ LockHasToken /\ [Next]_vars => (TypeInv /\ LockHasToken)'
    BY TypeStep, LockStep
  <1>3. QED
    BY <1>1, <1>2, PTL DEF Spec

-----------------------------------------------------------------------------
(* The depth cap                                                           *)

\* Inductive: whoever holds the lock found the tip below the cap, and the tip
\* can only be re-seeded, to depth 0, under it.
DepthInv == DepthBounded /\ (token # None => tip.depth < DepthCap)

LEMMA DepthStep ==
  ASSUME TypeInv, DepthInv, [Next]_vars
  PROVE  DepthInv'
  <1> USE TipAssumption
  <1>0. /\ token # None => tip # None
        /\ token \in Builds \cup {None}
        /\ tip \in Tips \cup {None}
    BY DEF TypeInv, TypeOK, PoolTipTypeOK, Grounded
  <1>1. /\ DepthBounded'
        /\ token # None => token' = None \/ tip'.depth < DepthCap
    <2>1. CASE UNCHANGED tipVars
      BY <2>1 DEF DepthInv, DepthBounded, tipVars
    <2>2. ASSUME tip' \in Seeds PROVE DepthBounded' /\ tip'.depth < DepthCap
      BY <2>2, SeedsAreTrue DEF DepthBounded
    <2>3. CASE FirstSeed
      BY <2>2, <2>3 DEF FirstSeed
    <2>4. CASE Reseed
      BY <2>2, <2>4 DEF Reseed
    <2>5. ASSUME NEW c \in Calls, Advances(c) PROVE DepthBounded' /\ token' = None
      <3>1. /\ token = call[c].build /\ call[c].pc = "accepted"
            /\ tip' = AdvancedTip(token) /\ token' = None
        BY <2>5 DEF Advances, SubmitAccepted
      <3>2. token \in Builds /\ token # None
        BY <3>1, ChainAssumption DEF TypeInv, Grounded
      <3>3. tip \in Tips /\ tip.depth < DepthCap
        BY <1>0, <3>2 DEF DepthInv
      <3>4. tip'.depth = tip.depth + 1 /\ tip'.status = "pending"
        BY <3>1 DEF AdvancedTip
      <3>5. tip.depth \in Nat
        BY <3>3 DEF Tips
      <3>6. QED
        BY <3>1, <3>3, <3>4, <3>5 DEF DepthBounded
    <2>6. CASE tip # None /\ tip' = tip /\ tipStale' = TRUE
      BY <2>6 DEF DepthInv, DepthBounded
    <2>7. CASE tip' = None /\ tipStale' = FALSE /\ token' = None
      BY <2>7 DEF DepthBounded
    <2>8. QED
      BY <2>1, <2>3, <2>4, <2>5, <2>6, <2>7, TipFrame DEF DepthInv, tipVars
  <1>2. token' # None /\ token = None => tip'.depth < DepthCap
    <2>1. ASSUME NEW b \in Builds, BuildStarts(b) PROVE tip'.depth < DepthCap
      <3>1. tip' \in Tips /\ ~Settling(tip')
        BY <2>1, StartsOnTip
      <3>2. tip'.depth \in Nat /\ tip'.status \in {"confirmed", "pending"}
        BY <3>1 DEF Tips
      <3>3. tip'.status = "confirmed" => tip'.depth = 0
        BY <1>1, <3>1, NoneIsNoTip DEF DepthBounded
      <3>4. QED
        BY <3>1, <3>2, <3>3 DEF Settling
    <2>2. QED
      BY <2>1, LockFrame DEF Unlock
  <1>3. QED
    BY <1>1, <1>2 DEF DepthInv

\* The tip never gets deeper than the cap, although the cap is tested at
\* acquisition and the depth added at submission (pool_tip.py).
THEOREM DepthStaysBounded == Spec => []DepthBounded
  <1>1. Init => TypeInv /\ DepthInv
    BY InitTyped DEF Init, PoolTipInit, DepthInv, DepthBounded
  <1>2. TypeInv /\ DepthInv /\ [Next]_vars => (TypeInv /\ DepthInv)'
    BY TypeStep, DepthStep
  <1>3. DepthInv => DepthBounded
    BY DEF DepthInv
  <1>4. QED
    BY <1>1, <1>2, <1>3, PTL DEF Spec

-----------------------------------------------------------------------------
(* The life of a build                                                     *)

\* A transaction that is registered, under submission or known to the node
\* is of a build that is over with its thread; an accepted one is known to
\* the node.  No build starts again, so no body of a landed transaction is
\* ever replaced.
LifeInv ==
  /\ \A b \in Builds : b \in registered \/ status[b] # "unknown" => pc[b] = "built"
  /\ \A c \in Calls :
       call[c].pc # "idle" =>
         /\ pc[call[c].build] = "built"
         /\ call[c].pc = "accepted" => status[call[c].build] # "unknown"

\* Which steps touch the requests, and how: one build moves on, one call
\* moves on, a hash expires, or the process restarts.
LEMMA LifeFrame ==
  ASSUME [Next]_vars
  PROVE  \/ \E b \in Builds : Build(b)
         \/ \E c \in Calls : Submit(c) \/ NodeAnswers(c)
         \/ UNCHANGED <<pc, registered, call>>
         \/ Restart
  BY DEF Next, WatchdogRuns, Tick, HashExpires, apiVars, vars

\* The node never forgets a transaction altogether.
LEMMA LandedStays ==
  ASSUME TypeInv, [Next]_vars, NEW t \in Txs, status[t] # "unknown"
  PROVE  status'[t] # "unknown"
  <1>0. status \in [Txs -> Statuses]
    BY DEF TypeInv, TypeOK, ChainTypeOK
  <1>1. ASSUME NEW b \in Builds, BuildStarts(b) PROVE status' = status
    BY <1>1 DEF BuildStarts, Turn
  <1>2. ASSUME NEW c \in Calls, NodeAccepts(c) PROVE status'[t] # "unknown"
    BY <1>0, <1>2 DEF NodeAccepts, Accept
  <1>3. ASSUME ChainNext PROVE status'[t] # "unknown"
    BY <1>0, <1>3 DEF ChainNext, Confirm, Drop, AdminSpends, Accept
  <1>4. QED
    BY <1>1, <1>2, <1>3, ChainFrame DEF chainVars

\* Only a submission makes a build's transaction known to the node.
LEMMA BuildsLandBySubmission ==
  ASSUME TypeInv, [Next]_vars, NEW b \in Builds, status[b] = "unknown"
  PROVE  \/ status'[b] = "unknown"
         \/ \E c \in Calls : NodeAccepts(c) /\ call[c].build = b
  <1>0. status \in [Txs -> Statuses] /\ b \in Txs
    BY DEF TypeInv, TypeOK, ChainTypeOK, Txs
  <1>1. ASSUME NEW d \in Builds, BuildStarts(d) PROVE status' = status
    BY <1>1 DEF BuildStarts, Turn
  <1>2. ASSUME NEW c \in Calls, NodeAccepts(c)
        PROVE  status'[b] = status[b] \/ call[c].build = b
    BY <1>0, <1>2 DEF NodeAccepts, Accept
  <1>3. ASSUME ChainNext PROVE status'[b] = status[b]
    BY <1>0, <1>3, ChainAssumption DEF ChainNext, Confirm, Drop, AdminSpends, Accept
  <1>4. QED
    BY <1>1, <1>2, <1>3, ChainFrame DEF chainVars

LEMMA LifeStep ==
  ASSUME TypeInv, LifeInv, [Next]_vars
  PROVE  LifeInv'
  <1>0. /\ pc \in [Builds -> BuildPcs] /\ registered \subseteq Builds
        /\ call \in [Calls -> [pc : CallPcs, build : Builds \cup {None}]]
        /\ \A c \in Calls : call[c].pc # "idle" => call[c].build \in Builds
    BY DEF TypeInv, TypeOK, Grounded
  <1>1. \A b \in Builds : pc[b] = "built" => pc'[b] = "built"
    <2>1. ASSUME NEW b \in Builds, Build(b), pc[b] = "built" PROVE FALSE
      BY <2>1 DEF Build, BuildWaits, BuildRefused, BuildShort, BuildStarts, Turn,
                  BuildDone, Preflight, BuildFails
    <2>2. ASSUME NEW b \in Builds, Build(b)
          PROVE  \E p \in BuildPcs : pc' = [pc EXCEPT ![b] = p]
      BY <2>2 DEF Build, BuildWaits, BuildRefused, BuildShort, BuildStarts,
                  BuildDone, BuildFails, BuildPcs
    <2>3. ASSUME NEW c \in Calls, Submit(c) \/ NodeAnswers(c) PROVE pc' = pc
      BY <2>3 DEF Submit, NodeAnswers, SubmitStarts, SubmitTurnedAway, SignRefused, SignCrashes,
                  Signed, NodeAccepts, NodeRejects, SubmitFails, SubmitAccepted
    <2>4. ASSUME NEW b \in Builds, pc[b] = "built", Restart PROVE pc'[b] = "built"
      BY <2>4 DEF Restart
    <2>5. QED
      BY <1>0, <2>1, <2>2, <2>3, <2>4, LifeFrame
  <1>2. \A b \in Builds : b \in registered' => pc'[b] = "built"
    <2>1. ASSUME NEW b \in Builds, Build(b)
          PROVE  \/ registered' \subseteq registered
                 \/ registered' \subseteq registered \cup {b} /\ pc' = [pc EXCEPT ![b] = "built"]
      BY <2>1 DEF Build, BuildWaits, BuildRefused, BuildShort, BuildStarts, Turn,
                  BuildDone, BuildFails
    <2>2. ASSUME NEW c \in Calls, Submit(c) \/ NodeAnswers(c)
          PROVE  registered' \subseteq registered
      BY <2>2 DEF Submit, NodeAnswers, SubmitStarts, SubmitTurnedAway, SignRefused, SignCrashes,
                  Signed, NodeAccepts, NodeRejects, SubmitFails, SubmitAccepted, Abandon
    <2>3. Restart => registered' = {}
      BY DEF Restart
    <2>4. QED
      BY <1>0, <1>1, <2>1, <2>2, <2>3, LifeFrame DEF LifeInv
  <1>3. \A b \in Builds : status'[b] # "unknown" => pc'[b] = "built"
    <2>1. ASSUME NEW b \in Builds, status'[b] # "unknown", status[b] = "unknown"
          PROVE  pc[b] = "built"
      <3>1. PICK c \in Calls : NodeAccepts(c) /\ call[c].build = b
        BY <2>1, BuildsLandBySubmission
      <3>2. QED
        BY <3>1 DEF NodeAccepts, LifeInv
    <2>2. QED
      BY <1>1, <2>1 DEF LifeInv
  <1>4. ASSUME NEW c \in Calls, call'[c].pc # "idle"
        PROVE  /\ pc'[call'[c].build] = "built"
               /\ call'[c].pc = "accepted" => status'[call'[c].build] # "unknown"
    <2>1. \/ call'[c] = call[c]
          \/ call[c].pc # "idle" /\ call'[c].build = call[c].build /\ call'[c].pc # "accepted"
          \/ call[c].pc # "idle" /\ call'[c].build = call[c].build /\ NodeAccepts(c)
          \/ /\ call'[c].build \in registered
             /\ call'[c].pc = "signing"
      <3>1. ASSUME NEW b \in Builds, Build(b) PROVE call' = call
        BY <3>1 DEF Build, BuildWaits, BuildRefused, BuildShort, BuildStarts, Turn,
                    BuildDone, BuildFails
      <3>2. ASSUME NEW d \in Calls, Submit(d) \/ NodeAnswers(d), d # c PROVE call'[c] = call[c]
        BY <1>0, <3>2 DEF Submit, NodeAnswers, SubmitStarts, SubmitTurnedAway, SignRefused,
                    SignCrashes, Signed, NodeAccepts, NodeRejects, SubmitFails, SubmitAccepted,
                    CallGoes, CallEnds
      <3>3. CASE Submit(c)
        BY <1>0, <1>4, <3>3 DEF Submit, SubmitStarts, SubmitTurnedAway, SignRefused, SignCrashes,
                    Signed, SubmitFails, SubmitAccepted, CallGoes, CallEnds, NoCall
      <3>4. CASE NodeRejects(c)
        BY <1>0, <1>4, <3>4 DEF NodeRejects, CallGoes, CallEnds, NoCall
      <3>5. CASE NodeAccepts(c)
        BY <1>0, <1>4, <3>5 DEF NodeAccepts, CallGoes, CallEnds, NoCall
      <3>6. CASE Restart
        BY <1>0, <1>4, <3>6 DEF Restart, NoCall
      <3>7. QED
        BY <3>1, <3>2, <3>3, <3>4, <3>5, <3>6, LifeFrame DEF NodeAnswers
    <2>2. CASE call'[c] = call[c]
      <3>1. call[c].build \in Builds /\ call[c].build \in Txs
        BY <1>0, <1>4, <2>2 DEF Txs
      <3>2. QED
        BY <1>1, <1>4, <2>2, <3>1, LandedStays DEF LifeInv
    <2>3. CASE call[c].pc # "idle" /\ call'[c].build = call[c].build /\ call'[c].pc # "accepted"
      BY <1>0, <1>1, <2>3 DEF LifeInv
    <2>4. CASE call[c].pc # "idle" /\ call'[c].build = call[c].build /\ NodeAccepts(c)
      <3>1. call[c].build \in Txs /\ status' = [status EXCEPT ![call[c].build] = "mempool"]
        BY <1>0, <2>4 DEF NodeAccepts, Accept, Txs
      <3>2. status'[call[c].build] = "mempool"
        BY <3>1 DEF TypeInv, TypeOK, ChainTypeOK
      <3>3. QED
        BY <1>0, <1>1, <2>4, <3>2 DEF LifeInv
    <2>5. CASE call'[c].build \in registered /\ call'[c].pc = "signing"
      BY <1>0, <1>1, <2>5 DEF LifeInv
    <2>6. QED
      BY <2>1, <2>2, <2>3, <2>4, <2>5
  <1>5. QED
    BY <1>2, <1>3, <1>4 DEF LifeInv

-----------------------------------------------------------------------------
(* The tip is true                                                         *)

\* What a landed transaction returns to the script is settled for good.
LEMMA BalanceStays ==
  ASSUME TypeInv, LifeInv, [Next]_vars, NEW r \in Roots \cup Landed
  PROVE  /\ r \in Roots \cup Landed'
         /\ Balance(r)' = Balance(r)
  <1>1. r \in Roots \cup Landed'
    BY LandedStays DEF Landed
  <1>2. ASSUME NEW t \in Txs, status[t] # "unknown" PROVE body'[t] = body[t]
    <2>0. body \in [Txs -> Bodies \cup {None}]
      BY DEF TypeInv, TypeOK, ChainTypeOK
    <2>1. ASSUME NEW b \in Builds, BuildStarts(b) PROVE body'[t] = body[t]
      <3>1. pc[b] # "built"
        BY <2>1, StartsOnTip
      <3>2. b # t
        BY <1>2, <3>1 DEF LifeInv
      <3>3. QED
        BY <2>0, <2>1, <3>2 DEF BuildStarts
    <2>2. ASSUME NEW c \in Calls, NodeAccepts(c) PROVE body' = body
      BY <2>2 DEF NodeAccepts
    <2>3. ASSUME ChainNext PROVE body'[t] = body[t]
      BY <1>2, <2>0, <2>3 DEF ChainNext, Confirm, Drop, AdminSpends
    <2>4. QED
      BY <2>1, <2>2, <2>3, ChainFrame DEF chainVars
  <1>3. Balance(r)' = Balance(r)
    <2>1. CASE r \in Roots
      BY <2>1 DEF Balance
    <2>2. CASE r \in Landed /\ r \notin Roots
      BY <1>2, <2>2 DEF Balance, Landed
    <2>3. QED
      BY <2>1, <2>2
  <1>4. QED
    BY <1>1, <1>3

LEMMA TruthStep ==
  ASSUME TypeInv, LifeInv, TipTruth, [Next]_vars
  PROVE  TipTruth'
  <1>1. CASE tip' = tip
    BY <1>1, BalanceStays DEF TipTruth
  <1>2. CASE tip' = None
    BY <1>2 DEF TipTruth
  <1>3. CASE tip' \in Seeds
    BY <1>3, SeedsAreTrue, BalanceStays DEF TipTruth
  <1>4. ASSUME NEW c \in Calls, Advances(c) PROVE TipTruth'
    <2>1. /\ token = call[c].build /\ call[c].pc = "accepted"
          /\ tip' = AdvancedTip(token) /\ ProvesRemainder(token)
      BY <1>4 DEF Advances, SubmitAccepted
    <2>2. token \in Builds /\ token \in Txs /\ status[token] # "unknown"
      BY <2>1 DEF TypeInv, Grounded, LifeInv, Txs
    <2>3. PICK b \in Builds : b = token
      BY <2>2
    <2>4. b \in Landed /\ b \notin Roots
      BY <2>2, <2>3, ChainAssumption DEF Landed
    <2>5. tip'.ref = b /\ tip'.balance = Balance(b) /\ tip'.balance > 0
      BY <2>1, <2>3, <2>4 DEF AdvancedTip, ProvesRemainder, Balance
    <2>6. Balance(b)' = Balance(b) /\ b \in Roots \cup Landed'
      BY <2>4, BalanceStays
    <2>7. QED
      BY <2>5, <2>6 DEF TipTruth
  <1>5. QED
    BY <1>1, <1>2, <1>3, <1>4, TipFrame DEF tipVars, Reseed, FirstSeed

\* The tip is an output the chain really has or had, in its real balance
\* (pool_tip.py: seed_from_chain, advance_on_submit and its guards), for
\* every interleaving of builds, calls, watchdog, mempool and restarts.
THEOREM TipIsTrue == Spec => []TipTruth
  <1>1. Init => TypeInv /\ LifeInv /\ TipTruth
    BY InitTyped DEF Init, ChainInit, PoolTipInit, LifeInv, TipTruth, NoCall, Txs
  <1>2. TypeInv /\ LifeInv /\ TipTruth /\ [Next]_vars => (TypeInv /\ LifeInv /\ TipTruth)'
    BY TypeStep, LifeStep, TruthStep
  <1>3. QED
    BY <1>1, <1>2, PTL DEF Spec

-----------------------------------------------------------------------------
(* No path ends a build and leaves it the lock                             *)

\* Inductive with: the hash of the holder expires only when it is overdue.
HolderInv == HolderCanFinish /\ (token \in expired => overdue)

LEMMA HolderStep ==
  ASSUME TypeInv, LifeInv, HolderInv, [Next]_vars
  PROVE  HolderInv'
  <1>0. /\ pc \in [Builds -> BuildPcs] /\ registered \subseteq Builds
        /\ expired \subseteq registered /\ token \in Builds \cup {None}
        /\ \A b \in Builds : b \in registered => pc[b] = "built"
        /\ None \notin Builds
    BY ChainAssumption DEF TypeInv, TypeOK, PoolTipTypeOK, LifeInv
  <1>1. ASSUME token' = None, expired' \subseteq Builds PROVE HolderInv'
    BY <1>0, <1>1 DEF HolderInv, HolderCanFinish
  <1>2. ASSUME NEW b \in Builds, Build(b) PROVE HolderInv'
    <2>1. CASE BuildWaits(b) \/ BuildRefused(b) \/ BuildShort(b)
      <3>1. pc[b] \in {"new", "waiting"} /\ \E p \in BuildPcs : pc' = [pc EXCEPT ![b] = p]
        BY <2>1 DEF BuildWaits, BuildRefused, BuildShort, Turn, BuildPcs
      <3>2. UNCHANGED <<token, overdue, registered, expired>>
        BY <2>1 DEF BuildWaits, BuildRefused, RefuseBuild, BuildShort, Turn
      <3>3. QED
        BY <1>0, <3>1, <3>2 DEF HolderInv, HolderCanFinish
    <2>2. CASE BuildStarts(b)
      <3>1. /\ token' = b /\ pc[b] # "built"
            /\ pc' = [pc EXCEPT ![b] = IF tip'.status = "pending" THEN "chaining" ELSE "building"]
            /\ UNCHANGED <<registered, expired>>
        BY <2>2, StartsOnTip DEF BuildStarts, Turn
      <3>2. b \notin expired /\ pc'[b] \in {"building", "chaining"}
        BY <1>0, <3>1
      <3>3. QED
        BY <3>1, <3>2 DEF HolderInv, HolderCanFinish
    <2>3. CASE BuildDone(b)
      <3>1. /\ pc' = [pc EXCEPT ![b] = "built"] /\ UNCHANGED <<token, overdue>>
            /\ registered' = (registered \ expired) \cup {b} /\ expired' = {}
        BY <2>3 DEF BuildDone, lockVars
      <3>2. QED
        BY <1>0, <3>1 DEF HolderInv, HolderCanFinish
    <2>4. CASE BuildFails(b)
      <3>1. CASE token = b
        BY <1>0, <1>1, <2>4, <3>1 DEF BuildFails, ReleaseBuild, OwnsLock, Unlock
      <3>2. CASE token # b
        BY <1>0, <2>4, <3>2 DEF BuildFails, ReleaseBuild, OwnsLock, HolderInv, HolderCanFinish
      <3>3. QED
        BY <3>1, <3>2
    <2>5. QED
      BY <1>2, <2>1, <2>2, <2>3, <2>4 DEF Build
  <1>3. ASSUME NEW c \in Calls, Submit(c) \/ NodeAnswers(c) PROVE HolderInv'
    <2>1. pc' = pc
      BY <1>3 DEF Submit, NodeAnswers, SubmitStarts, SubmitTurnedAway, SignRefused, SignCrashes,
                  Signed, NodeAccepts, NodeRejects, SubmitFails, SubmitAccepted
    <2>2. CASE SignRefused(c) \/ SubmitFails(c) \/ SubmitAccepted(c)
      <3>1. DEFINE b == call[c].build
      <3>2. /\ registered' = registered \ {b} /\ expired' = expired \ {b}
            /\ \/ token = b /\ token' = None
               \/ token # b /\ UNCHANGED <<token, overdue>>
        BY <2>2 DEF SignRefused, SubmitFails, SubmitAccepted, Abandon, ReleaseBuild, OwnsLock,
                    AdvanceOnSubmit, Unlock
      <3>3. QED
        BY <1>0, <1>1, <2>1, <3>2 DEF HolderInv, HolderCanFinish
    <2>3. CASE ~(SignRefused(c) \/ SubmitFails(c) \/ SubmitAccepted(c))
      <3>1. /\ UNCHANGED <<token, overdue>>
            /\ \/ UNCHANGED <<registered, expired>>
               \/ registered' = registered \ expired /\ expired' = {}
        BY <1>3, <2>3 DEF Submit, NodeAnswers, SubmitStarts, SubmitTurnedAway, SignCrashes,
                    Signed, NodeAccepts, NodeRejects, lockVars
      <3>2. QED
        BY <1>0, <2>1, <3>1 DEF HolderInv, HolderCanFinish
    <2>4. QED
      BY <2>2, <2>3
  <1>4. ASSUME UNCHANGED <<pc, registered, expired>>,
               ~ \E b \in Builds : BuildStarts(b)
        PROVE  HolderInv'
    BY <1>0, <1>1, <1>4, LockFrame DEF Unlock, HolderInv, HolderCanFinish
  <1>5. ASSUME NEW b \in Builds, HashExpires(b) PROVE HolderInv'
    BY <1>5 DEF HashExpires, HolderInv, HolderCanFinish, lockVars
  <1>6. CASE Restart
    BY <1>1, <1>6 DEF Restart
  <1>7. QED
    BY <1>2, <1>3, <1>4, <1>5, <1>6 DEF Next, WatchdogRuns, Tick, Build, apiVars, vars

\* Until the signing timeout whoever holds the lock can end its build without
\* the sweep: no handler path ends a build and leaves it the lock
\* (surrender_api.py: build_surrender, submit_surrender and abandon).
THEOREM HolderCanAlwaysFinish == Spec => []HolderCanFinish
  <1>1. Init => TypeInv /\ LifeInv /\ HolderInv
    <2>1. Init => LifeInv
      BY DEF Init, ChainInit, LifeInv, NoCall, Txs
    <2>2. Init => HolderInv
      BY DEF Init, PoolTipInit, HolderInv, HolderCanFinish
    <2>3. QED
      BY <2>1, <2>2, InitTyped
  <1>2. TypeInv /\ LifeInv /\ HolderInv /\ [Next]_vars => (TypeInv /\ LifeInv /\ HolderInv)'
    BY TypeStep, LifeStep, HolderStep
  <1>3. HolderInv => HolderCanFinish
    BY DEF HolderInv
  <1>4. QED
    BY <1>1, <1>2, <1>3, PTL DEF Spec

-----------------------------------------------------------------------------
(* The watchdog                                                            *)

\* The watchdog moves the tip only while no build holds the lock
\* (pool_tip.py: reconcile_with_chain and evict_if_stale, which await between
\* looking at the tip and replacing it).
THEOREM WatchdogNeverStompsHolds == Spec => WatchdogNeverStomps
  <1> DEFINE A == wd' # wd /\ tip' # tip /\ restarts' = restarts => token = None /\ token' = None
  <1>1. TypeInv /\ LockHasToken /\ [Next]_vars => [A]_vars
    <2> SUFFICES ASSUME TypeInv, LockHasToken, [Next]_vars,
                        wd' # wd, tip' # tip, restarts' = restarts
                 PROVE  token = None /\ token' = None
      OBVIOUS
    <2>1. CASE WatchdogStep
      <3>1. ~locked /\ UNCHANGED <<locked, token>>
        BY <2>1 DEF WatchdogStep, WdTick, WdTipConfirmed, WdTipNotConfirmed, WdLiveFetched,
           WdLiveFetchFails, WdNothingToReconcile, WdReconciles, WdReconcileWaits,
           WdReconcileWoken, WdEvictionOff, WdEvicts, WdEvictWaits, WdEvictWoken, WdWaits,
           ReconcileLocked, EvictLocked, LockFree, Woken, tipVars
      <3>2. QED
        BY <3>1 DEF LockHasToken
    <2>2. ASSUME NEW b \in Builds, Build(b) PROVE FALSE
      BY <2>2 DEF Build, BuildWaits, BuildRefused, BuildShort, BuildStarts, Turn,
                  BuildDone, BuildFails
    <2>3. ASSUME NEW c \in Calls, Submit(c) \/ NodeAnswers(c) PROVE FALSE
      BY <2>3 DEF Submit, NodeAnswers, SubmitStarts, SubmitTurnedAway, SignRefused, SignCrashes,
                  Signed, NodeAccepts, NodeRejects, SubmitFails, SubmitAccepted
    <2>4. ASSUME Tick PROVE FALSE
      BY <2>4 DEF Tick, SigningTimeout, EvictionWindow, HashExpires
    <2>5. ASSUME Restart PROVE FALSE
      BY <2>5 DEF Restart, TypeInv, TypeOK
    <2>6. QED
      BY <2>1, <2>2, <2>3, <2>4, <2>5 DEF Next, WatchdogRuns, vars
  <1>2. Spec => []TypeInv
    BY InitTyped, TypeStep, PTL DEF Spec
  <1>3. QED
    BY <1>1, <1>2, LockAlwaysHasToken, PTL DEF Spec, WatchdogNeverStomps

-----------------------------------------------------------------------------
(* Surrender implements SingleFlight: every step of the handlers, of the   *)
(* watchdog, of the node or of a restart is a step the promise allows, or  *)
(* leaves the promise's state alone.                                       *)

PromiseInv == TypeInv /\ LockHasToken /\ DepthInv /\ LifeInv

LEMMA PromiseInvHolds == Spec => []PromiseInv
  <1>1. Init => PromiseInv
    <2>1. Init => LockHasToken /\ DepthInv
      BY DEF Init, PoolTipInit, LockHasToken, DepthInv, DepthBounded
    <2>2. Init => LifeInv
      BY DEF Init, ChainInit, LifeInv, NoCall, Txs
    <2>3. QED
      BY <2>1, <2>2, InitTyped DEF PromiseInv
  <1>2. PromiseInv /\ [Next]_vars => PromiseInv'
    BY TypeStep, LockStep, DepthStep, LifeStep DEF PromiseInv
  <1>3. QED
    BY <1>1, <1>2, PTL DEF Spec

\* How a step changes who holds the lock and where the tip is.
LEMMA PromiseFrame ==
  ASSUME PromiseInv, [Next]_vars
  PROVE  \/ UNCHANGED <<token, tip>>
         \/ \E b \in Builds : BuildStarts(b)
         \/ tip' \in Seeds /\ token' = token
         \/ tip' \in Seeds /\ token \in Over' /\ token' = None
         \/ \E c \in Calls : Advances(c) /\ token \in Over'
         \/ tip' = tip /\ token # None /\ token' = None /\ (token \in Over' \/ overdue)
         \/ tip' = None /\ token' = None
  <1> DEFINE Moves == \/ UNCHANGED <<token, tip>>
                      \/ \E b \in Builds : BuildStarts(b)
                      \/ tip' \in Seeds /\ token' = token
                      \/ tip' \in Seeds /\ token \in Over' /\ token' = None
                      \/ \E c \in Calls : Advances(c) /\ token \in Over'
                      \/ /\ tip' = tip /\ token # None /\ token' = None
                         /\ token \in Over' \/ overdue
                      \/ tip' = None /\ token' = None
  <1>0. /\ pc \in [Builds -> BuildPcs] /\ None \notin Builds
        /\ \A c \in Calls : call[c].pc # "idle" =>
             call[c].build \in Builds /\ pc[call[c].build] = "built"
    BY ChainAssumption DEF PromiseInv, TypeInv, TypeOK, Grounded, LifeInv
  <1>1. ASSUME NEW b \in Builds, Build(b) PROVE Moves
    <2>1. CASE BuildShort(b)
      BY <2>1 DEF BuildShort
    <2>2. CASE BuildFails(b)
      <3>1. tip' = tip /\ pc'[b] = "failed"
        BY <1>0, <2>2 DEF BuildFails, tipVars
      <3>2. b \in Over'
        BY <3>1 DEF Over
      <3>3. QED
        BY <1>0, <2>2, <3>1, <3>2 DEF BuildFails, ReleaseBuild, OwnsLock, Unlock
    <2>3. QED
      BY <1>1, <2>1, <2>2 DEF Build, BuildWaits, BuildRefused, RefuseBuild, SeedFails,
           BuildDone, tipVars, lockVars
  <1>2. ASSUME NEW c \in Calls, SignRefused(c) \/ SubmitFails(c) \/ SubmitAccepted(c)
        PROVE  Moves
    <2>1. /\ call[c].pc # "idle" /\ pc' = pc
          /\ registered' = registered \ {call[c].build}
      BY <1>2 DEF SignRefused, SubmitFails, SubmitAccepted, Abandon
    <2>2. call[c].build \in Over' /\ call[c].build # None
      BY <1>0, <2>1 DEF Over
    <2>3. CASE SubmitAccepted(c)
      <3>1. CASE Reseed
        BY <2>2, <2>3, <3>1 DEF SubmitAccepted, AdvanceOnSubmit, Reseed, Unlock
      <3>2. CASE ~Reseed /\ ~Advances(c)
        BY <2>2, <2>3, <3>2 DEF SubmitAccepted, AdvanceOnSubmit, SeedFails, Unlock, tipVars,
             Advances
      <3>3. QED
        BY <2>2, <2>3, <3>1, <3>2 DEF Advances
    <2>4. CASE SignRefused(c) \/ SubmitFails(c)
      BY <2>2, <2>4 DEF SignRefused, SubmitFails, Abandon, ReleaseBuild, OwnsLock, Unlock, tipVars
    <2>5. QED
      BY <1>2, <2>3, <2>4
  <1>3. ASSUME NEW c \in Calls, Submit(c) \/ NodeAnswers(c),
               ~(SignRefused(c) \/ SubmitFails(c) \/ SubmitAccepted(c))
        PROVE  UNCHANGED <<token, tip>>
    BY <1>3 DEF Submit, NodeAnswers, SubmitStarts, SubmitTurnedAway, SignCrashes, Signed,
         NodeAccepts, NodeRejects, tipVars, lockVars
  <1>4. WatchdogStep => Moves
    <2>1. WdTick => Moves
      BY DEF WdTick, Stuck, tipVars
    <2>2. QED
      BY <2>1 DEF WatchdogStep, WdTipConfirmed, WdTipNotConfirmed, WdLiveFetched,
         WdLiveFetchFails, WdNothingToReconcile, WdReconciles, WdReconcileWaits,
         WdReconcileWoken, WdEvictionOff, WdEvicts, WdEvictWaits, WdEvictWoken, WdWaits,
         ReconcileLocked, EvictLocked, Reseed, SeedFails, tipVars, lockVars
  <1>5. Tick \/ Restart \/ UNCHANGED vars => Moves
    BY DEF Tick, SigningTimeout, EvictionWindow, HashExpires, Restart, lockVars, tipVars, vars
  <1>6. QED
    BY <1>1, <1>2, <1>3, <1>4, <1>5 DEF Next, WatchdogRuns, tipVars, lockVars

LEMMA PromiseStep ==
  ASSUME PromiseInv, PromiseInv', [Next]_vars
  PROVE  [Promise!Next]_Promise!vars
  <1>0. Landed \subseteq Landed'
    BY LandedStays DEF Landed, PromiseInv
  <1>1. Seeds \subseteq {ConfirmedTip(r) : r \in LivePool}
    BY DEF Seeds
  <1>2. CASE UNCHANGED <<token, tip>>
    BY <1>0, <1>2 DEF Promise!Next, Promise!Elsewhere
  <1>3. ASSUME NEW b \in Builds, BuildStarts(b) PROVE Promise!Next
    <2>1. token' = b
      BY <1>3, StartsOnTip DEF PromiseInv
    <2>2. token = None
      <3>1. ~locked
        BY <1>3 DEF BuildStarts, Turn, Gets, LockFree, Woken
      <3>2. QED
        BY <3>1 DEF PromiseInv, LockHasToken
    <2>3. tip = None => tip' \in {ConfirmedTip(r) : r \in LivePool}
      BY <1>1, <1>3 DEF BuildStarts, Admit
    <2>4. tip # None => tip' = tip
      BY <1>3 DEF BuildStarts, Admit
    <2>5. tip'.depth < DepthCap
      BY <2>1, ChainAssumption DEF PromiseInv, DepthInv
    <2>6. Promise!Acquire(b)
      BY <2>1, <2>2, <2>3, <2>4, <2>5 DEF Promise!Acquire
    <2>7. QED
      BY <1>0, <2>6 DEF Promise!Next
  <1>4. CASE tip' \in Seeds /\ token' = token
    BY <1>0, <1>1, <1>4 DEF Promise!Next, Promise!Reseed
  <1>5. CASE tip' \in Seeds /\ token \in Over' /\ token' = None
    BY <1>0, <1>1, <1>5 DEF Promise!Next, Promise!Reseed
  <1>6. ASSUME NEW c \in Calls, Advances(c), token \in Over' PROVE Promise!Next
    <2>1. /\ token = call[c].build /\ call[c].pc = "accepted"
          /\ tip' = AdvancedTip(token) /\ ProvesRemainder(token) /\ token' = None
      BY <1>6 DEF Advances, SubmitAccepted
    <2>2. token \in Landed
      BY <2>1 DEF PromiseInv, TypeInv, Grounded, LifeInv, Landed, Txs
    <2>3. tip'.balance > 0
      BY <2>1 DEF AdvancedTip, ProvesRemainder
    <2>4. Promise!Advance
      BY <1>6, <2>1, <2>2, <2>3 DEF Promise!Advance, AdvancedTip
    <2>5. QED
      BY <1>0, <2>4 DEF Promise!Next
  <1>7. CASE tip' = tip /\ token # None /\ token' = None /\ (token \in Over' \/ overdue)
    BY <1>0, <1>7 DEF Promise!Next, Promise!Release
  <1>8. CASE tip' = None /\ token' = None
    BY <1>0, <1>8 DEF Promise!Next, Promise!Forget
  <1>9. QED
    BY <1>2, <1>3, <1>4, <1>5, <1>6, <1>7, <1>8, PromiseFrame

\* The pool-tip chainer keeps the promise of SingleFlight (pool_tip.py,
\* surrender_api.py): one owner at a time, only its landed transaction moves
\* the tip, by what it delivers, below the cap; anything else re-seeds.
THEOREM ImplementsSingleFlight == Spec => SingleFlightPromise
  <1>1. Init => Promise!Init
    BY DEF Init, ChainInit, PoolTipInit, Over, Landed, Promise!Init
  <1>2. QED
    BY <1>1, PromiseInvHolds, PromiseStep, PTL DEF Spec, Promise!Spec, SingleFlightPromise

-----------------------------------------------------------------------------
(* The unconfirmed chain.  What is in memory says how deep the tip is; what *)
(* counts is how deep it is in the mempool.                                *)

HasBody(t) == body[t] # None

Taken == Mempool \cup Confirmed

\* No build is built twice, no admin transaction made twice.
Fresh ==
  /\ \A b \in Builds : pc[b] \in {"new", "waiting"} => ~HasBody(b)
  /\ \A t \in AdminTxs : status[t] = "unknown" => ~HasBody(t)

\* A body spends a root or an output of something with a body.  A build is
\* made on a confirmed output or on another build's, and keeps what it does
\* not deliver.
Rooted ==
  /\ \A t \in Txs : HasBody(t) /\ body[t].spends \in Txs => HasBody(body[t].spends)
  /\ \A b \in Builds : HasBody(b) =>
       /\ body[b].spends \in Roots \cup Confirmed \cup Builds
       /\ Balance(body[b].spends) = body[b].keeps + Amount[b]
  /\ token # None => HasBody(token)
  /\ tip # None /\ tip.status = "confirmed" => tip.ref \in Roots \cup Confirmed

\* The node takes no double spend, and nothing whose input is not there; a
\* block has what the mempool chains on first.
Connected ==
  /\ \A t, u \in Taken : body[t].spends = body[u].spends => t = u
  /\ \A t \in Taken : body[t].spends \in Roots \cup Taken
  /\ \A t \in Confirmed : body[t].spends \in Roots \cup Confirmed

SoundInv == Fresh /\ Rooted /\ Connected

ChainBase == PromiseInv /\ TipTruth /\ SoundInv

LEMMA TakenHaveBodies ==
  ASSUME TypeInv
  PROVE  /\ Mempool \subseteq Txs /\ Confirmed \subseteq Txs /\ Taken \subseteq Txs
         /\ Mempool \cap Confirmed = {}
         /\ \A t \in Taken : HasBody(t) /\ status[t] # "unknown"
         /\ \A t \in Txs : HasBody(t) => body[t] \in Bodies
         /\ \A t \in Txs : HasBody(t) => body[t].spends \in Refs /\ body[t].keeps \in Nat
  <1>1. \A t \in Txs : status[t] # "unknown" => HasBody(t)
    BY NoneIsNoTip DEF TypeInv, Grounded, HasBody
  <1>2. \A t \in Txs : HasBody(t) => body[t] \in Bodies
    BY DEF TypeInv, TypeOK, ChainTypeOK, HasBody
  <1>3. QED
    BY <1>1, <1>2 DEF Taken, Mempool, Confirmed, Bodies

\* The node takes t.
TakesUp(t) ==
  /\ t \in Txs \ Taken
  /\ Taken' = Taken \cup {t} /\ Confirmed' = Confirmed
  /\ body'[t] # None /\ body'[t].spends \in Unspent(Taken)
  /\ \A u \in Txs : u # t => body'[u] = body[u]
  /\ t \in Builds => body' = body
  /\ t \in AdminTxs => body' = body \/ ~HasBody(t)
  /\ status[t] # "unknown" => body' = body
  /\ t \notin Builds => t \in AdminTxs /\ ~HasBody(t)
  /\ status' = [status EXCEPT ![t] = "mempool"]

LEMMA AcceptTakesUp ==
  ASSUME TypeInv, LifeInv, NEW c \in Calls, NodeAccepts(c)
  PROVE  /\ TakesUp(call[c].build) /\ call[c].build \in Builds /\ body' = body
         /\ UNCHANGED <<tip, token, pc>>
  <1> DEFINE b == call[c].build
  <1>1. b \in Builds /\ b \in Txs
    BY DEF NodeAccepts, TypeInv, Grounded, Txs
  <1>2. /\ Acceptable(b) /\ status' = [status EXCEPT ![b] = "mempool"] /\ body' = body
        /\ UNCHANGED <<tip, token, pc>>
    BY DEF NodeAccepts, Accept, tipVars, lockVars
  <1>3. b \notin Taken /\ body[b] # None /\ body[b].spends \in Unspent(Taken)
    BY <1>2 DEF Acceptable, Taken
  <1>4. status \in [Txs -> Statuses]
    BY DEF TypeInv, TypeOK, ChainTypeOK
  <1>5. Taken' = Taken \cup {b} /\ Confirmed' = Confirmed
    BY <1>1, <1>2, <1>3, <1>4 DEF Taken, Mempool, Confirmed
  <1>6. b \notin AdminTxs
    BY <1>1, ChainAssumption
  <1> HIDE DEF b
  <1>7. TakesUp(b) /\ b \in Builds
    BY <1>1, <1>2, <1>3, <1>5, <1>6 DEF TakesUp
  <1>8. QED
    BY <1>2, <1>7 DEF b

LEMMA AdminTakesUp ==
  ASSUME TypeInv, Fresh, NEW t \in AdminTxs, NEW r \in Refs, AdminSpends(t, r)
  PROVE  TakesUp(t) /\ ~HasBody(t) /\ body'[t].spends = r /\ r \in Unspent(Taken)
  <1>1. /\ status[t] = "unknown" /\ t \in Txs /\ ~HasBody(t) /\ t \notin Builds
        /\ r \in Unspent(Taken)
        /\ status' = [status EXCEPT ![t] = "mempool"]
    BY ChainAssumption DEF AdminSpends, Accept, Fresh, Txs, Taken
  <1>2. PICK keeps \in {0, Balance(r)} :
            body' = [body EXCEPT ![t] = [spends |-> r, keeps |-> keeps]]
    BY DEF AdminSpends
  <1>3. /\ status \in [Txs -> Statuses] /\ body \in [Txs -> Bodies \cup {None}]
        /\ r \in Roots \/ status[r] # "unknown"
    BY <1>1 DEF TypeInv, TypeOK, ChainTypeOK, Unspent, Taken, Mempool, Confirmed
  <1>4. keeps \in Nat
    BY <1>3, BalanceTyped
  <1>5. [spends |-> r, keeps |-> keeps] \in Bodies
    BY <1>4 DEF Bodies
  <1>6. /\ body'[t] = [spends |-> r, keeps |-> keeps] /\ body'[t] # None
        /\ \A u \in Txs : u # t => body'[u] = body[u]
    BY <1>1, <1>2, <1>3, <1>5, NoneIsNoTip
  <1>7. t \notin Taken /\ Taken' = Taken \cup {t} /\ Confirmed' = Confirmed
    BY <1>1, <1>3 DEF Taken, Mempool, Confirmed
  <1>8. QED
    BY <1>1, <1>6, <1>7 DEF TakesUp

\* Which steps there are, for the chain, the tip and the lock together.
LEMMA SoundFrame ==
  ASSUME PromiseInv, SoundInv, [Next]_vars
  PROVE  \/ \E b \in Builds : BuildStarts(b)
         \/ \E t \in Txs : TakesUp(t) /\ UNCHANGED <<tip, token, pc>>
         \/ \E t \in Txs : (Confirm(t) \/ Drop(t)) /\ UNCHANGED <<tip, token, pc>>
         \/ UNCHANGED chainVars
  <1>1. \A c \in Calls : NodeAccepts(c) =>
           \E t \in Txs : TakesUp(t) /\ UNCHANGED <<tip, token, pc>>
    BY AcceptTakesUp DEF PromiseInv, Txs
  <1>2. ASSUME ChainNext, UNCHANGED <<tip, token, pc>>
        PROVE  \/ \E t \in Txs : TakesUp(t) /\ UNCHANGED <<tip, token, pc>>
               \/ \E t \in Txs : (Confirm(t) \/ Drop(t)) /\ UNCHANGED <<tip, token, pc>>
    BY <1>2, AdminTakesUp DEF ChainNext, PromiseInv, SoundInv, Txs
  <1>3. ASSUME NEW b \in Builds, Build(b) PROVE BuildStarts(b) \/ UNCHANGED chainVars
    BY <1>3 DEF Build, BuildWaits, BuildRefused, BuildShort, Turn, BuildDone, BuildFails, chainVars
  <1>4. ASSUME NEW c \in Calls, Submit(c) \/ NodeAnswers(c) PROVE NodeAccepts(c) \/ UNCHANGED chainVars
    BY <1>4 DEF Submit, NodeAnswers, SubmitStarts, SubmitTurnedAway, SignRefused, SignCrashes, Signed,
                NodeRejects, SubmitFails, SubmitAccepted
  <1>5. Tick => UNCHANGED chainVars
    BY DEF Tick, HashExpires
  <1>6. QED
    BY <1>1, <1>2, <1>3, <1>4, <1>5
    DEF Next, WatchdogRuns, Restart, vars, tipVars, lockVars, apiVars

\* A build starts: what it makes is new, and grounded in the tip.
LEMMA StartsBody ==
  ASSUME ChainBase, NEW b \in Builds, BuildStarts(b)
  PROVE  /\ status' = status /\ Taken' = Taken /\ Confirmed' = Confirmed
         /\ ~HasBody(b) /\ token' = b /\ token = None
         /\ tip' \in Tips /\ tip' # None
         /\ tip' = tip \/ (tip = None /\ tip' \in Seeds)
         /\ tip'.ref \in Refs /\ tip'.balance = Balance(tip'.ref)
         /\ tip'.ref \in Txs => HasBody(tip'.ref)
         /\ tip'.status = "pending" => tip'.ref \in Builds
         /\ tip'.status = "confirmed" => tip'.ref \in Roots \cup Confirmed
         /\ body'[b].spends = tip'.ref /\ body'[b].keeps = tip'.balance - Amount[b]
         /\ body'[b] # None
         /\ \A u \in Txs : u # b => body'[u] = body[u]
  <1>0. TypeInv /\ LifeInv /\ LockHasToken
    BY DEF ChainBase, PromiseInv
  <1>1. PICK t \in IF tip = None THEN Seeds ELSE {tip} :
          /\ Covers(b, t) /\ tip' = t
          /\ body' = [body EXCEPT ![b] = [spends |-> t.ref, keeps |-> t.balance - Amount[b]]]
    BY DEF BuildStarts, SurrenderBody, Admit
  <1>2. /\ status' = status /\ pc[b] \in {"new", "waiting"} /\ token' = b /\ ~locked
    BY DEF BuildStarts, Turn, Admit, Gets, LockFree, Woken
  <1>3. Taken' = Taken /\ Confirmed' = Confirmed
    BY <1>2 DEF Taken, Mempool, Confirmed
  <1>4. ~HasBody(b) /\ token = None
    BY <1>0, <1>2 DEF ChainBase, SoundInv, Fresh, LockHasToken
  <1>5. /\ t \in Tips /\ t # None
        /\ t.ref \in Roots \cup Landed /\ t.balance = Balance(t.ref)
        /\ t.status = "pending" => t.ref \in Builds
        /\ t.status = "confirmed" => t.ref \in Roots \cup Confirmed
    <2>1. CASE tip = None
      <3>1. t \in Seeds
        BY <1>1, <2>1
      <3>2. PICK r \in LivePool : t = ConfirmedTip(r)
        BY <3>1 DEF Seeds
      <3>3. t.ref \in Roots \cup Confirmed
        BY <3>2 DEF ConfirmedTip, LivePool, Unspent
      <3>4. QED
        BY <1>0, <3>1, <3>3, SeedsAreTrue, NoneIsNoTip
    <2>2. CASE tip # None
      BY <1>0, <1>1, <2>2 DEF ChainBase, TipTruth, TypeInv, TypeOK, PoolTipTypeOK, SoundInv, Rooted
    <2>3. QED
      BY <2>1, <2>2
  <1>6. t.ref \in Refs /\ (t.ref \in Txs => HasBody(t.ref))
    <2>1. t.ref \in Landed => HasBody(t.ref)
      BY <1>0, NoneIsNoTip DEF Landed, TypeInv, Grounded, HasBody
    <2>2. t.ref \in Txs => t.ref \notin Roots
      BY ChainAssumption DEF Txs
    <2>3. QED
      BY <1>5, <2>1, <2>2 DEF Tips
  <1>7. [spends |-> t.ref, keeps |-> t.balance - Amount[b]] \in Bodies
    BY <1>1, <1>5, ChainAssumption DEF Tips, Bodies, Covers
  <1>8. body \in [Txs -> Bodies \cup {None}] /\ b \in Txs
    BY <1>0 DEF TypeInv, TypeOK, ChainTypeOK, Txs
  <1>9. /\ body'[b] = [spends |-> t.ref, keeps |-> t.balance - Amount[b]]
        /\ body'[b].spends = t.ref /\ body'[b].keeps = t.balance - Amount[b]
        /\ body'[b] # None
        /\ \A u \in Txs : u # b => body'[u] = body[u]
    BY <1>1, <1>7, <1>8, NoneIsNoTip
  <1>10. tip' = tip \/ (tip = None /\ tip' \in Seeds)
    BY <1>1
  <1>11. QED
    BY <1>1, <1>2, <1>3, <1>4, <1>5, <1>6, <1>9, <1>10

\* A step leaves what has a body its body, and confirmed what is confirmed.
LEMMA BodiesStay ==
  ASSUME ChainBase, [Next]_vars
  PROVE  /\ \A t \in Txs : HasBody(t) => body'[t] = body[t]
         /\ Confirmed \subseteq Confirmed'
         /\ \A r \in Roots \cup {t \in Txs : HasBody(t)} : Balance(r)' = Balance(r)
  <1>0. /\ status \in [Txs -> Statuses] /\ Confirmed \subseteq Txs
        /\ Mempool \cap Confirmed = {}
    BY TakenHaveBodies DEF ChainBase, PromiseInv, TypeInv, TypeOK, ChainTypeOK
  <1>1. \A t \in Txs : HasBody(t) => body'[t] = body[t]
    <2>1. ASSUME NEW t \in Txs, TakesUp(t), NEW u \in Txs, HasBody(u) PROVE body'[u] = body[u]
      BY <2>1 DEF TakesUp, Txs
    <2>2. ASSUME NEW t \in Txs, Confirm(t) \/ Drop(t) PROVE body' = body
      BY <2>2 DEF Confirm, Drop
    <2>3. ASSUME NEW b \in Builds, BuildStarts(b), NEW u \in Txs, HasBody(u) PROVE body'[u] = body[u]
      BY <2>3, StartsBody
    <2>4. QED
      BY <2>1, <2>2, <2>3, SoundFrame DEF ChainBase, chainVars
  <1>2. Confirmed \subseteq Confirmed'
    <2>1. ASSUME NEW t \in Txs, TakesUp(t) PROVE Confirmed' = Confirmed
      BY <2>1 DEF TakesUp
    <2>2. ASSUME NEW t \in Txs, Confirm(t) \/ Drop(t) PROVE Confirmed \subseteq Confirmed'
      BY <1>0, <2>2 DEF Confirm, Drop, Confirmed
    <2>3. ASSUME NEW b \in Builds, BuildStarts(b) PROVE Confirmed' = Confirmed
      BY <2>3, StartsBody
    <2>4. UNCHANGED chainVars => Confirmed' = Confirmed
      BY DEF chainVars, Confirmed
    <2>5. QED
      BY <2>1, <2>2, <2>3, <2>4, SoundFrame DEF ChainBase
  <1>3. QED
    BY <1>1, <1>2 DEF Balance

\* A request that has not started has never left its queue.
LEMMA NotStarted ==
  ASSUME TypeInv, [Next]_vars, NEW b \in Builds, pc'[b] \in {"new", "waiting"}
  PROVE  pc[b] \in {"new", "waiting"} /\ ~BuildStarts(b)
  <1>0. pc \in [Builds -> BuildPcs]
    BY DEF TypeInv, TypeOK
  <1>1. ~BuildStarts(b)
    BY <1>0, StartsOnTip
  <1>2. ASSUME NEW d \in Builds, Build(d) PROVE pc[b] \in {"new", "waiting"}
    <2>1. d = b => \/ pc[b] \in {"new", "waiting"}
                   \/ pc'[b] \in {"failed", "built"}
      BY <1>0, <1>2 DEF Build, BuildWaits, BuildRefused, BuildShort, BuildStarts, Turn, BuildDone, BuildFails
    <2>2. d # b => pc'[b] = pc[b]
      BY <1>0, <1>2 DEF Build, BuildWaits, BuildRefused, BuildShort, BuildStarts, BuildDone, BuildFails
    <2>3. QED
      BY <2>1, <2>2
  <1>3. ASSUME NEW c \in Calls, Submit(c) \/ NodeAnswers(c) PROVE pc' = pc
    BY <1>3 DEF Submit, NodeAnswers, SubmitStarts, SubmitTurnedAway, SignRefused, SignCrashes,
                Signed, NodeAccepts, NodeRejects, SubmitFails, SubmitAccepted
  <1>4. Restart => pc'[b] \in {"failed", pc[b]}
    BY DEF Restart
  <1>5. QED
    BY <1>1, <1>2, <1>3, <1>4, LifeFrame

LEMMA FreshStep ==
  ASSUME ChainBase, [Next]_vars
  PROVE  Fresh'
  <1>0. TypeInv /\ Fresh /\ status \in [Txs -> Statuses]
    BY DEF ChainBase, PromiseInv, SoundInv, TypeInv, TypeOK, ChainTypeOK
  <1>1. ASSUME NEW b \in Builds, pc'[b] \in {"new", "waiting"} PROVE body'[b] = None
    <2>1. body[b] = None /\ ~BuildStarts(b) /\ b \in Txs /\ b \notin AdminTxs
      BY <1>0, <1>1, NotStarted, ChainAssumption DEF Fresh, HasBody, Txs
    <2>2. ASSUME NEW t \in Txs, TakesUp(t) PROVE body'[b] = body[b]
      BY <2>1, <2>2 DEF TakesUp
    <2>3. ASSUME NEW t \in Txs, Confirm(t) \/ Drop(t) PROVE body' = body
      BY <2>3 DEF Confirm, Drop
    <2>4. ASSUME NEW d \in Builds, BuildStarts(d) PROVE body'[b] = body[b]
      BY <2>1, <2>4, StartsBody
    <2>5. QED
      BY <2>1, <2>2, <2>3, <2>4, SoundFrame DEF ChainBase, chainVars
  <1>2. ASSUME NEW a \in AdminTxs, status'[a] = "unknown" PROVE body'[a] = None
    <2>1. /\ status[a] = "unknown" /\ a \in Txs /\ a \notin Builds
          /\ body[a] = None
      BY <1>0, <1>2, LandedStays, ChainAssumption DEF Fresh, HasBody, Txs
    <2>2. ASSUME NEW t \in Txs, TakesUp(t) PROVE body'[a] = body[a]
      <3>1. status'[t] = "mempool"
        BY <1>0, <2>2 DEF TakesUp
      <3>2. QED
        BY <1>2, <2>1, <2>2, <3>1 DEF TakesUp
    <2>3. ASSUME NEW t \in Txs, Confirm(t) \/ Drop(t) PROVE body' = body
      BY <2>3 DEF Confirm, Drop
    <2>4. ASSUME NEW d \in Builds, BuildStarts(d) PROVE body'[a] = body[a]
      BY <2>1, <2>4, StartsBody
    <2>5. QED
      BY <2>1, <2>2, <2>3, <2>4, SoundFrame DEF ChainBase, chainVars
  <1>3. QED
    BY <1>1, <1>2 DEF Fresh, HasBody

\* What a step gives a body to.
LEMMA NewBody ==
  ASSUME ChainBase, [Next]_vars, NEW t \in Txs, HasBody(t)', ~HasBody(t)
  PROVE  \/ t \in Builds /\ BuildStarts(t)
         \/ t \in AdminTxs /\ TakesUp(t)
  <1>1. ASSUME NEW u \in Txs, TakesUp(u) PROVE u = t /\ t \in AdminTxs
    <2>1. u = t
      BY <1>1 DEF TakesUp, HasBody
    <2>2. t \in Builds => body'[t] = body[t]
      BY <1>1, <2>1 DEF TakesUp
    <2>3. QED
      BY <2>1, <2>2 DEF Txs, HasBody
  <1>2. ASSUME NEW u \in Txs, Confirm(u) \/ Drop(u) PROVE body' = body
    BY <1>2 DEF Confirm, Drop
  <1>3. ASSUME NEW b \in Builds, BuildStarts(b) PROVE b = t
    BY <1>3, StartsBody DEF HasBody
  <1>4. QED
    BY <1>1, <1>2, <1>3, SoundFrame DEF ChainBase, chainVars, HasBody

LEMMA RootedStep ==
  ASSUME ChainBase, [Next]_vars
  PROVE  Rooted'
  <1>0. TypeInv /\ Rooted /\ Roots \cap Txs = {} /\ PromiseInv
    BY ChainAssumption DEF ChainBase, PromiseInv, SoundInv, Txs
  <1>h. \A t \in Txs : HasBody(t) => HasBody(t)'
    BY BodiesStay DEF HasBody
  <1>1. ASSUME NEW t \in Txs, HasBody(t)', body'[t].spends \in Txs
        PROVE  HasBody(body[t].spends)'
    <2>1. CASE HasBody(t)
      BY <1>0, <1>1, <1>h, <2>1, BodiesStay DEF Rooted
    <2>2. ASSUME BuildStarts(t), t \in Builds PROVE HasBody(body[t].spends)'
      <3>1. body'[t].spends = tip'.ref
        BY <2>2, StartsBody
      <3>2. QED
        BY <1>1, <1>h, <2>2, <3>1, StartsBody
    <2>3. ASSUME TakesUp(t) PROVE HasBody(body[t].spends)'
      <3>1. body'[t].spends \in Unspent(Taken)
        BY <2>3 DEF TakesUp
      <3>2. body'[t].spends \in Taken
        BY <1>0, <1>1, <3>1 DEF Unspent
      <3>3. QED
        BY <1>0, <1>1, <1>h, <3>2, TakenHaveBodies
    <2>4. QED
      BY <1>1, <2>1, <2>2, <2>3, NewBody
  <1>2. ASSUME NEW b \in Builds, HasBody(b)'
        PROVE  /\ body'[b].spends \in Roots \cup Confirmed' \cup Builds
               /\ Balance(body[b].spends)' = body'[b].keeps + Amount[b]
    <2>0. b \in Txs /\ b \notin AdminTxs /\ Confirmed \subseteq Txs
      BY <1>0, ChainAssumption, TakenHaveBodies DEF Txs
    <2>1. CASE HasBody(b)
      <3>0. PICK x : x = body[b].spends
        OBVIOUS
      <3>1. /\ body'[b] = body[b]
            /\ x \in Roots \cup Confirmed \cup Builds
            /\ Balance(x) = body[b].keeps + Amount[b]
        BY <1>0, <2>0, <2>1, <3>0, BodiesStay DEF Rooted
      <3>2. x \in Roots \cup {t \in Txs : HasBody(t)}
        BY <1>0, <2>0, <2>1, <3>0, <3>1 DEF Rooted, Txs
      <3>3. Balance(x)' = Balance(x) /\ Confirmed \subseteq Confirmed'
        BY <3>2, BodiesStay
      <3>4. body'[b].spends = x
        BY <3>0, <3>1
      <3>5. Balance(body[b].spends)' = Balance(x)'
        BY <3>4
      <3>6. QED
        BY <3>1, <3>3, <3>4, <3>5
    <2>2. CASE BuildStarts(b)
      <3>0. PICK x : x = tip'.ref
        OBVIOUS
      <3>1. /\ body'[b].spends = x /\ body'[b].keeps = tip'.balance - Amount[b]
            /\ tip' \in Tips /\ tip'.balance = Balance(x)
            /\ x \in Roots \cup Confirmed' \cup Builds
            /\ x \in Refs /\ (x \in Txs => HasBody(x))
        <4>1. tip'.status \in {"confirmed", "pending"}
          BY <2>2, StartsBody DEF Tips
        <4>2. QED
          BY <2>2, <3>0, <4>1, StartsBody
      <3>2. x \in Roots \cup {t \in Txs : HasBody(t)}
        BY <3>1 DEF Refs
      <3>3. Balance(x)' = Balance(x)
        BY <3>2, BodiesStay
      <3>4. tip'.balance \in Nat /\ Amount[b] \in Nat
        BY <3>1, ChainAssumption DEF Tips
      <3>5. Balance(x) = body'[b].keeps + Amount[b]
        BY <3>1, <3>4
      <3>6. Balance(body[b].spends)' = Balance(x)'
        BY <3>1
      <3>7. QED
        BY <3>1, <3>3, <3>5, <3>6
    <2>3. QED
      BY <1>2, <2>0, <2>1, <2>2, NewBody
  <1>3. ASSUME token' # None PROVE HasBody(token)'
    <2>1. ASSUME NEW b \in Builds, BuildStarts(b) PROVE HasBody(token)'
      BY <2>1, StartsBody DEF HasBody
    <2>2. CASE token' = token
      <3>1. token \in Txs /\ HasBody(token)
        BY <1>0, <1>3, <2>2 DEF Rooted, TypeInv, TypeOK, PoolTipTypeOK, Txs
      <3>2. QED
        BY <1>h, <2>2, <3>1 DEF HasBody
    <2>3. QED
      BY <1>0, <1>3, <2>1, <2>2, LockFrame DEF Unlock
  <1>4. ASSUME tip' # None, tip'.status = "confirmed" PROVE tip'.ref \in Roots \cup Confirmed'
    <2>1. CASE tip' = tip
      BY <1>0, <1>4, <2>1, BodiesStay DEF Rooted
    <2>2. ASSUME tip' \in Seeds PROVE tip'.ref \in Roots \cup Confirmed
      BY <2>2 DEF Seeds, ConfirmedTip, LivePool, Unspent
    <2>3. ASSUME NEW c \in Calls, Advances(c) PROVE FALSE
      BY <1>4, <2>3 DEF Advances, AdvancedTip
    <2>4. QED
      BY <1>4, <2>1, <2>2, <2>3, BodiesStay, TipFrame DEF Reseed, FirstSeed, tipVars
  <1>5. QED
    BY <1>1, <1>2, <1>3, <1>4 DEF Rooted

\* A block with t, or the mempool without it.
LEMMA ChainMoves ==
  ASSUME TypeInv, NEW t \in Txs, Confirm(t) \/ Drop(t)
  PROVE  /\ body' = body /\ t \in Mempool /\ t \in Taken /\ t \notin Confirmed
         /\ Confirm(t) => /\ Taken' = Taken /\ Confirmed' = Confirmed \cup {t}
                          /\ body[t].spends \in Roots \cup Confirmed
         /\ Drop(t) => /\ Taken' = Taken \ {t} /\ Confirmed' = Confirmed
                       /\ \A u \in Mempool : body[u].spends # t
  <1>1. status \in [Txs -> Statuses]
    BY DEF TypeInv, TypeOK, ChainTypeOK
  <1>2. body' = body /\ t \in Mempool /\ t \in Taken /\ t \notin Confirmed
    BY DEF Confirm, Drop, Mempool, Confirmed, Taken
  <1>3. CASE Confirm(t)
    <2>1. Taken' = Taken /\ Confirmed' = Confirmed \cup {t}
      BY <1>1, <1>3 DEF Confirm, Mempool, Confirmed, Taken
    <2>2. ~Drop(t)
      BY <1>1, <1>3 DEF Confirm, Drop
    <2>3. QED
      BY <1>2, <1>3, <2>1, <2>2 DEF Confirm
  <1>4. CASE Drop(t)
    <2>1. Taken' = Taken \ {t} /\ Confirmed' = Confirmed
      BY <1>1, <1>4 DEF Drop, Mempool, Confirmed, Taken
    <2>2. ~Confirm(t)
      BY <1>1, <1>4 DEF Confirm, Drop
    <2>3. QED
      BY <1>2, <1>4, <2>1, <2>2 DEF Drop
  <1>5. QED
    BY <1>3, <1>4

LEMMA ConnectedStep ==
  ASSUME ChainBase, [Next]_vars
  PROVE  Connected'
  <1>0. TypeInv /\ Connected /\ Roots \cap Txs = {}
    BY ChainAssumption DEF ChainBase, PromiseInv, SoundInv, Txs
  <1>t. Taken \subseteq Txs /\ Confirmed \subseteq Taken /\ Taken = Mempool \cup Confirmed
    BY <1>0, TakenHaveBodies DEF Taken
  <1>1. ASSUME NEW t \in Txs, TakesUp(t) PROVE Connected'
    <2>1. /\ t \notin Taken /\ Taken' = Taken \cup {t} /\ Confirmed' = Confirmed
          /\ body'[t].spends \in Unspent(Taken)
          /\ \A u \in Taken : body'[u] = body[u]
      BY <1>1, <1>t DEF TakesUp
    <2>2. /\ body'[t].spends \in Roots \cup Taken
          /\ \A u \in Taken : body[u].spends # body'[t].spends
      BY <2>1 DEF Unspent
    <2>3. QED
      BY <1>0, <1>t, <2>1, <2>2 DEF Connected
  <1>2. ASSUME NEW t \in Txs, Confirm(t) PROVE Connected'
    BY <1>0, <1>2, ChainMoves DEF Connected
  <1>3. ASSUME NEW t \in Txs, Drop(t) PROVE Connected'
    <2>1. /\ body' = body /\ Taken' = Taken \ {t} /\ Confirmed' = Confirmed /\ t \notin Confirmed
          /\ \A u \in Mempool : body[u].spends # t
          /\ t \notin Roots
      BY <1>0, <1>3, ChainMoves
    <2>2. \A u \in Taken : body[u].spends # t
      BY <1>0, <1>t, <2>1 DEF Connected
    <2>3. QED
      BY <1>0, <1>t, <2>1, <2>2 DEF Connected
  <1>4. ASSUME NEW b \in Builds, BuildStarts(b) PROVE Connected'
    <2>1. Taken' = Taken /\ Confirmed' = Confirmed /\ \A u \in Taken : body'[u] = body[u]
      BY <1>0, <1>4, <1>t, StartsBody, TakenHaveBodies
    <2>2. QED
      BY <1>0, <1>t, <2>1 DEF Connected
  <1>5. CASE UNCHANGED chainVars
    BY <1>0, <1>5 DEF Connected, chainVars, Taken, Mempool, Confirmed
  <1>6. QED
    BY <1>1, <1>2, <1>3, <1>4, <1>5, SoundFrame DEF ChainBase

LEMMA BaseStep == ChainBase /\ [Next]_vars => ChainBase'
  <1> SUFFICES ASSUME ChainBase, [Next]_vars PROVE ChainBase'
    OBVIOUS
  <1>1. PromiseInv' /\ TipTruth'
    BY TypeStep, LockStep, DepthStep, LifeStep, TruthStep DEF ChainBase, PromiseInv
  <1>2. SoundInv'
    BY FreshStep, RootedStep, ConnectedStep DEF SoundInv
  <1>3. QED
    BY <1>1, <1>2 DEF ChainBase

-----------------------------------------------------------------------------
(* No transaction is its own ancestor: bodies can be ranked.               *)

IsRank(rank) ==
  /\ rank \in [Txs -> Nat]
  /\ \A t \in Txs : HasBody(t) /\ body[t].spends \in Txs => rank[body[t].spends] < rank[t]

Ranked == \E rank : IsRank(rank)

\* What gets a body is nobody's ancestor yet: its rank can be raised above
\* the rank of what it spends.
LEMMA RankStep ==
  ASSUME ChainBase, [Next]_vars, Ranked
  PROVE  Ranked'
  <1>0. /\ TypeInv /\ Rooted
        /\ \A t \in Txs : HasBody(t) => body'[t] = body[t] /\ HasBody(t)'
    BY BodiesStay DEF ChainBase, PromiseInv, SoundInv, HasBody
  <1>1. PICK rank : IsRank(rank)
    BY DEF Ranked
  <1>2. CASE \A t \in Txs : HasBody(t)' => HasBody(t)
    <2>1. IsRank(rank)'
      BY <1>0, <1>1, <1>2 DEF IsRank
    <2>2. QED
      BY <2>1 DEF Ranked
  <1>3. ASSUME NEW t \in Txs, HasBody(t)', ~HasBody(t) PROVE Ranked'
    <2>1. \A u \in Txs : HasBody(u)' /\ u # t => HasBody(u)
      <3>1. ASSUME NEW u \in Txs, HasBody(u)', ~HasBody(u) PROVE u = t
        <4>1. u \in Builds /\ BuildStarts(u) => u = t
          BY <1>3, <3>1, StartsBody DEF HasBody
        <4>2. TakesUp(u) => u = t
          BY <1>3, <3>1 DEF HasBody, TakesUp
        <4>3. QED
          BY <3>1, <4>1, <4>2, NewBody
      <3>2. QED
        BY <3>1
    <2>2. PICK x : x = body'[t].spends
      OBVIOUS
    <2>3. PICK n \in Nat : n = IF x \in Txs THEN rank[x] + 1 ELSE 0
      BY <1>1 DEF IsRank
    <2>4. PICK new : new = [rank EXCEPT ![t] = n]
      OBVIOUS
    <2>5. new \in [Txs -> Nat] /\ new[t] = n /\ \A u \in Txs : u # t => new[u] = rank[u]
      BY <1>1, <2>4 DEF IsRank
    <2>6. x \in Txs => x # t
      <3>1. CASE BuildStarts(t) /\ t \in Builds
        BY <1>3, <2>2, <3>1, StartsBody
      <3>2. CASE TakesUp(t)
        <4>1. x \in Unspent(Taken) /\ t \notin Taken
          BY <2>2, <3>2 DEF TakesUp
        <4>2. x \in Roots \cup Taken
          BY <4>1 DEF Unspent
        <4>3. Roots \cap Txs = {}
          BY ChainAssumption DEF Txs
        <4>4. QED
          BY <4>1, <4>2, <4>3
      <3>3. QED
        BY <1>3, <3>1, <3>2, NewBody
    <2>7. ASSUME NEW u \in Txs, HasBody(u)', body'[u].spends \in Txs
          PROVE  new[body'[u].spends] < new[u]
      <3>1. CASE u = t
        <4>1. body'[u].spends = x /\ x \in Txs
          BY <2>2, <2>7, <3>1
        <4>2. new[x] = rank[x] /\ new[u] = rank[x] + 1 /\ rank[x] \in Nat
          BY <1>1, <2>3, <2>5, <2>6, <3>1, <4>1 DEF IsRank
        <4>3. QED
          BY <4>1, <4>2
      <3>2. CASE u # t
        <4>1. HasBody(u) /\ body'[u] = body[u]
          BY <1>0, <2>1, <2>7, <3>2
        <4>2. HasBody(body[u].spends) /\ body[u].spends # t
          BY <1>0, <1>3, <2>7, <4>1 DEF Rooted
        <4>3. rank[body[u].spends] < rank[u]
          BY <1>1, <2>7, <4>1 DEF IsRank
        <4>4. QED
          BY <2>5, <2>7, <3>2, <4>1, <4>2, <4>3
      <3>3. QED
        BY <3>1, <3>2
    <2>8. IsRank(new)'
      BY <2>5, <2>7 DEF IsRank
    <2>9. QED
      BY <2>8 DEF Ranked
  <1>4. QED
    BY <1>2, <1>3

-----------------------------------------------------------------------------
(* The depth a build had when it was made bounds the depth it can have in  *)
(* the mempool, unless it can never land any more.                         *)

\* What is in D cannot land any more: what it spends is in D or spent for
\* good.
Doomed(D) ==
  /\ D \subseteq Builds
  /\ \A b \in D :
       /\ HasBody(b) /\ b \notin Taken
       /\ body[b].spends \in D \/ \E z \in Confirmed : body[z].spends = body[b].spends

\* Each build is deeper than the unconfirmed build it spends, and within the
\* cap.
Deeper(dep, D) ==
  /\ dep \in [Builds -> Nat \ {0}]
  /\ \A b \in Builds : HasBody(b) => dep[b] <= DepthCap
  /\ \A b \in Builds \ D :
       HasBody(b) /\ body[b].spends \in Builds \ Confirmed => dep[body[b].spends] < dep[b]

\* The depth in memory is no less, for a pending tip and for what is built
\* on it.
TipDepth(dep, D) ==
  tip # None /\ tip.status = "pending" =>
    /\ tip.ref \in D \cup Confirmed \/ dep[tip.ref] <= tip.depth
    /\ token # None => body[token].spends = tip.ref /\ (token \in D \/ dep[token] <= tip.depth + 1)

\* A seeded tip holds more than any unconfirmed build leaves, so that a build
\* made on another tip does not prove its remainder on this one.
Peak(D) ==
  tip # None /\ tip.status = "confirmed" =>
    \A b \in Builds \ D : HasBody(b) /\ b \notin Confirmed => body[b].keeps < tip.balance

Depths == \E dep, D : Doomed(D) /\ Deeper(dep, D) /\ TipDepth(dep, D) /\ Peak(D)

\* The doomed stay doomed.
LEMMA DoomedStay ==
  ASSUME ChainBase, [Next]_vars, NEW D, Doomed(D)
  PROVE  Doomed(D)'
  <1>0. /\ TypeInv /\ Connected /\ Taken \subseteq Txs /\ Confirmed \subseteq Taken
        /\ Builds \subseteq Txs /\ Roots \cap Txs = {} /\ D \subseteq Builds
        /\ \A t \in Taken : HasBody(t)
    BY ChainAssumption, TakenHaveBodies DEF ChainBase, PromiseInv, SoundInv, Txs, Taken, Doomed
  <1>1. \A b \in D : b \notin Taken'
    <2>1. ASSUME NEW t \in Txs, TakesUp(t) PROVE t \notin D
      <3>1. SUFFICES ASSUME t \in D PROVE FALSE
        OBVIOUS
      <3>2. body'[t] = body[t]
        BY <1>0, <2>1, <3>1 DEF TakesUp
      <3>3. body[t].spends \in Unspent(Taken)
        BY <2>1, <3>2 DEF TakesUp
      <3>4. body[t].spends \in Roots \cup Taken /\ \A z \in Taken : body[z].spends # body[t].spends
        BY <3>3 DEF Unspent
      <3>5. body[t].spends \in D \/ \E z \in Confirmed : body[z].spends = body[t].spends
        BY <3>1 DEF Doomed
      <3>6. D \cap Taken = {} /\ D \cap Roots = {}
        BY <1>0 DEF Doomed
      <3>7. QED
        BY <1>0, <3>4, <3>5, <3>6
    <2>2. ASSUME NEW t \in Txs, TakesUp(t) PROVE \A b \in D : b \notin Taken'
      BY <2>1, <2>2 DEF TakesUp, Doomed
    <2>3. ASSUME NEW t \in Txs, Confirm(t) \/ Drop(t) PROVE Taken' \subseteq Taken
      BY <1>0, <2>3, ChainMoves
    <2>4. ASSUME NEW b \in Builds, BuildStarts(b) PROVE Taken' = Taken
      BY <2>4, StartsBody
    <2>5. UNCHANGED chainVars => Taken' = Taken
      BY DEF chainVars, Taken, Mempool, Confirmed
    <2>6. QED
      BY <2>2, <2>3, <2>4, <2>5, SoundFrame DEF ChainBase, Doomed
  <1>2. ASSUME NEW b \in D
        PROVE  /\ HasBody(b)'
               /\ body'[b].spends \in D \/ \E z \in Confirmed' : body'[z].spends = body'[b].spends
    <2>1. HasBody(b) /\ body'[b] = body[b] /\ \A z \in Confirmed : z \in Confirmed' /\ body'[z] = body[z]
      BY <1>0, BodiesStay DEF Doomed
    <2>2. QED
      BY <2>1 DEF Doomed, HasBody
  <1>3. QED
    BY <1>0, <1>1, <1>2 DEF Doomed

\* So do depths, as long as nothing is built.
LEMMA DeeperStay ==
  ASSUME ChainBase, [Next]_vars, NEW D, NEW dep, Deeper(dep, D),
         \A b \in Builds : HasBody(b)' => HasBody(b)
  PROVE  Deeper(dep, D)'
  <1>1. \A b \in Builds : HasBody(b) => body'[b] = body[b]
    BY BodiesStay DEF Txs
  <1>2. Confirmed \subseteq Confirmed'
    BY BodiesStay
  <1>3. QED
    BY <1>1, <1>2 DEF Deeper

\* Builds that leave at least what a seed holds can never land: the output
\* they spend held more and is not listed.
LEMMA SeedDooms ==
  ASSUME ChainBase, NEW D, NEW dep, Doomed(D), Deeper(dep, D), NEW s \in Seeds
  PROVE  \E E : /\ Doomed(E) /\ D \subseteq E
                /\ \A b \in Builds \ E : HasBody(b) /\ b \notin Confirmed => body[b].keeps < s.balance
  <1>0. /\ TypeInv /\ Connected /\ Rooted /\ Taken \subseteq Txs /\ Confirmed \subseteq Taken
        /\ Builds \subseteq Txs /\ Roots \cap Txs = {} /\ D \subseteq Builds
        /\ Mempool \cap Confirmed = {} /\ Taken = Mempool \cup Confirmed
        /\ \A t \in Taken : HasBody(t)
        /\ \A t \in Txs : HasBody(t) => body[t].spends \in Refs /\ body[t].keeps \in Nat
    BY ChainAssumption, TakenHaveBodies DEF ChainBase, PromiseInv, SoundInv, Txs, Taken, Doomed
  <1>1. s.balance \in Nat /\ \A q \in LivePool : Balance(q) <= s.balance
    <2>1. s \in Tips
      BY <1>0, SeedsAreTrue
    <2>2. PICK r \in LivePool : s = ConfirmedTip(r) /\ \A q \in LivePool : Balance(q) <= Balance(r)
      BY DEF Seeds
    <2>3. QED
      BY <2>1, <2>2 DEF Tips, ConfirmedTip
  <1>2. PICK A : A = {b \in Builds : HasBody(b) /\ b \notin Confirmed /\ ~(body[b].keeps < s.balance)}
    OBVIOUS
  <1>3. ASSUME NEW b \in A
        PROVE  /\ b \in Builds /\ HasBody(b) /\ b \notin Confirmed
               /\ body[b].spends \notin LivePool
               /\ body[b].spends \in Roots \cup Confirmed =>
                    \E z \in Confirmed : body[z].spends = body[b].spends
               /\ body[b].spends \notin Roots \cup Confirmed => body[b].spends \in A
    <2>1. b \in Builds /\ b \in Txs /\ HasBody(b) /\ b \notin Confirmed /\ ~(body[b].keeps < s.balance)
      BY <1>0, <1>2
    <2>2. body[b].keeps \in Nat /\ Amount[b] \in Nat /\ Amount[b] > 0
      BY <1>0, <2>1, ChainAssumption
    <2>3. PICK x : x = body[b].spends
      OBVIOUS
    <2>4. Balance(x) = body[b].keeps + Amount[b] /\ x \in Roots \cup Confirmed \cup Builds
      BY <2>1, <2>3, <1>0 DEF Rooted
    <2>5. Balance(x) \in Nat /\ Balance(x) > s.balance /\ Balance(x) > 0
      BY <1>1, <2>1, <2>2, <2>4
    <2>6. x \notin LivePool
      BY <1>1, <2>5
    <2>7. x \in Roots \cup Confirmed => \E z \in Confirmed : body[z].spends = x
      <3>1. x \in Confirmed => x \notin Roots /\ Balance(x) = body[x].keeps
        BY <1>0 DEF Balance
      <3>2. QED
        BY <2>5, <2>6, <3>1 DEF LivePool, Unspent
    <2>8. x \notin Roots \cup Confirmed => x \in A
      <3>1. SUFFICES ASSUME x \notin Roots \cup Confirmed PROVE x \in A
        OBVIOUS
      <3>2. x \in Builds /\ x \in Txs /\ HasBody(x)
        BY <1>0, <2>1, <2>3, <2>4, <3>1 DEF Rooted
      <3>3. body[x].keeps = Balance(x)
        BY <3>1 DEF Balance
      <3>4. QED
        BY <1>1, <1>2, <2>5, <3>1, <3>2, <3>3
    <2>9. QED
      BY <2>1, <2>3, <2>6, <2>7, <2>8
  <1>4. A \cap Mempool = {}
    <2>1. SUFFICES ASSUME A \cap Mempool # {} PROVE FALSE
      OBVIOUS
    <2>2. PICK T : T = {dep[b] : b \in A \cap Mempool}
      OBVIOUS
    <2>3. T \in SUBSET Nat /\ T # {}
      BY <1>2, <2>1, <2>2 DEF Deeper
    <2>4. PICK m \in T : \A n \in T : m <= n
      BY <2>3, NatMin
    <2>5. PICK b \in A \cap Mempool : m = dep[b]
      BY <2>2, <2>4
    <2>6. PICK x : x = body[b].spends
      OBVIOUS
    <2>7. b \in Taken /\ x \in Roots \cup Taken
      BY <1>0, <2>5, <2>6 DEF Connected
    <2>8. x \notin Roots \cup Confirmed
      <3>1. \A z \in Confirmed : body[z].spends # x
        BY <1>0, <2>5, <2>6, <2>7 DEF Connected
      <3>2. QED
        BY <1>3, <2>5, <2>6, <3>1
    <2>9. x \in A \cap Mempool
      BY <1>0, <1>3, <2>5, <2>6, <2>7, <2>8
    <2>10. dep[x] < dep[b]
      <3>1. b \in Builds \ D /\ HasBody(b)
        BY <1>3, <2>5, <2>7 DEF Doomed
      <3>2. x \in Builds \ Confirmed
        BY <1>3, <2>9
      <3>3. QED
        BY <2>6, <3>1, <3>2 DEF Deeper
    <2>11. dep[x] \in Nat /\ dep[b] \in Nat /\ m <= dep[x]
      BY <2>2, <2>3, <2>4, <2>5, <2>9
    <2>12. QED
      BY <2>5, <2>10, <2>11
  <1>5. PICK E : E = D \cup A
    OBVIOUS
  <1>6. Doomed(E)
    <2>1. E \subseteq Builds
      BY <1>0, <1>3, <1>5
    <2>2. ASSUME NEW b \in D
          PROVE  /\ HasBody(b) /\ b \notin Taken
                 /\ body[b].spends \in E \/ \E z \in Confirmed : body[z].spends = body[b].spends
      BY <1>5 DEF Doomed
    <2>3. ASSUME NEW b \in A
          PROVE  /\ HasBody(b) /\ b \notin Taken
                 /\ body[b].spends \in E \/ \E z \in Confirmed : body[z].spends = body[b].spends
      BY <1>0, <1>3, <1>4, <1>5
    <2>4. QED
      BY <1>5, <2>1, <2>2, <2>3 DEF Doomed
  <1>7. QED
    BY <1>2, <1>5, <1>6

\* What is more doomed is deeper.
LEMMA DeeperMore ==
  ASSUME NEW dep, NEW D, NEW E, Deeper(dep, D), D \subseteq E
  PROVE  Deeper(dep, E)
  BY DEF Deeper

\* A step that builds nothing.
LEMMA NothingBuilt ==
  ASSUME ChainBase, [Next]_vars, \A b \in Builds : ~BuildStarts(b)
  PROVE  /\ \A b \in Builds : HasBody(b)' => HasBody(b) /\ body'[b] = body[b]
         /\ Confirmed \subseteq Confirmed'
  <1>1. ASSUME NEW b \in Builds, HasBody(b)' PROVE HasBody(b)
    BY <1>1, NewBody, ChainAssumption DEF Txs
  <1>2. QED
    BY <1>1, BodiesStay DEF Txs

LEMMA StillDepths ==
  ASSUME ChainBase, [Next]_vars, \A b \in Builds : ~BuildStarts(b),
         NEW dep, NEW D, Doomed(D), Deeper(dep, D), TipDepth(dep, D), Peak(D),
         tip' = None \/ (tip' = tip /\ token' \in {token, None})
  PROVE  Doomed(D)' /\ Deeper(dep, D)' /\ TipDepth(dep, D)' /\ Peak(D)'
  <1>1. Doomed(D)' /\ Deeper(dep, D)'
    BY DoomedStay, DeeperStay, NothingBuilt
  <1>2. TipDepth(dep, D)'
    <2>1. token # None => token \in Txs /\ HasBody(token) /\ body'[token] = body[token]
      BY BodiesStay DEF ChainBase, PromiseInv, TypeInv, TypeOK, PoolTipTypeOK, SoundInv, Rooted, Txs
    <2>2. QED
      BY <2>1, NothingBuilt DEF TipDepth
  <1>3. Peak(D)'
    BY NothingBuilt DEF Peak
  <1>4. QED
    BY <1>1, <1>2, <1>3

LEMMA ReseedDepths ==
  ASSUME ChainBase, [Next]_vars, \A b \in Builds : ~BuildStarts(b),
         NEW dep, NEW D, Doomed(D), Deeper(dep, D), tip' \in Seeds
  PROVE  \E E : Doomed(E)' /\ Deeper(dep, E)' /\ TipDepth(dep, E)' /\ Peak(E)'
  <1>0. PICK s \in Seeds : s = tip'
    OBVIOUS
  <1>1. PICK E : /\ Doomed(E) /\ D \subseteq E
                 /\ \A b \in Builds \ E : HasBody(b) /\ b \notin Confirmed => body[b].keeps < s.balance
    BY SeedDooms
  <1>2. Deeper(dep, E)
    BY <1>1, DeeperMore
  <1>3. Doomed(E)' /\ Deeper(dep, E)'
    BY <1>1, <1>2, DoomedStay, DeeperStay, NothingBuilt
  <1>4. tip'.status = "confirmed"
    BY SeedsAreTrue DEF ChainBase, PromiseInv
  <1>5. TipDepth(dep, E)' /\ Peak(E)'
    BY <1>0, <1>1, <1>4, NothingBuilt DEF TipDepth, Peak
  <1>6. QED
    BY <1>3, <1>5

\* The holder's submission comes back: its depth in memory is its depth, or
\* what it spends is confirmed, or it is doomed.
LEMMA AdvanceDepths ==
  ASSUME ChainBase, [Next]_vars, \A b \in Builds : ~BuildStarts(b),
         NEW dep, NEW D, Doomed(D), Deeper(dep, D), TipDepth(dep, D), Peak(D),
         NEW c \in Calls, Advances(c)
  PROVE  \E new, E : Doomed(E)' /\ Deeper(new, E)' /\ TipDepth(new, E)' /\ Peak(E)'
  <1>0. /\ TypeInv /\ Connected /\ Rooted /\ DepthInv
        /\ Builds \subseteq Txs /\ Roots \cap Txs = {}
    BY ChainAssumption DEF ChainBase, PromiseInv, SoundInv, Txs
  <1>1. PICK b \in Builds :
           /\ b = token /\ b # None
           /\ body[b].keeps = tip.balance - Amount[b]
           /\ tip' = AdvancedTip(b) /\ token' = None
    <2>1. /\ token = call[c].build /\ call[c].pc = "accepted"
          /\ ProvesRemainder(token) /\ tip' = AdvancedTip(token) /\ token' = None
      BY DEF Advances, SubmitAccepted
    <2>2. token \in Builds
      BY <1>0, <2>1 DEF TypeInv, Grounded
    <2>3. QED
      BY <2>1, <2>2, ChainAssumption DEF ProvesRemainder
  <1>2. /\ tip # None /\ tip \in Tips /\ HasBody(b)
        /\ tip.depth \in Nat /\ tip.balance \in Nat /\ Amount[b] \in Nat
        /\ tip.status \in {"confirmed", "pending"}
        /\ tip.status = "confirmed" => tip.depth = 0
        /\ tip'.ref = b /\ tip'.status = "pending" /\ tip'.depth = tip.depth + 1
    <2>1. tip # None /\ tip \in Tips /\ HasBody(b)
      BY <1>0, <1>1 DEF TypeInv, TypeOK, PoolTipTypeOK, Grounded, Rooted
    <2>2. tip'.ref = b /\ tip'.status = "pending" /\ tip'.depth = tip.depth + 1
      BY <1>1 DEF AdvancedTip
    <2>3. QED
      BY <1>0, <2>1, <2>2, ChainAssumption DEF Tips, DepthInv, DepthBounded
  <1>3. ASSUME NEW new, NEW E, Doomed(E), Deeper(new, E), b \in E \/ new[b] <= tip.depth + 1
        PROVE  Doomed(E)' /\ Deeper(new, E)' /\ TipDepth(new, E)' /\ Peak(E)'
    <2>1. Doomed(E)' /\ Deeper(new, E)'
      BY <1>3, DoomedStay, DeeperStay, NothingBuilt
    <2>2. TipDepth(new, E)' /\ Peak(E)'
      BY <1>1, <1>2, <1>3 DEF TipDepth, Peak
    <2>3. QED
      BY <2>1, <2>2
  <1>4. CASE tip.status = "pending"
    <2>1. b \in D \/ dep[b] <= tip.depth + 1
      BY <1>1, <1>2, <1>4 DEF TipDepth
    <2>2. QED
      BY <1>3, <2>1
  <1>5. PICK x : x = body[b].spends
    OBVIOUS
  <1>6. /\ x \in Roots \cup Confirmed \cup Builds
        /\ Balance(x) = body[b].keeps + Amount[b]
        /\ x \in Txs => HasBody(x)
    BY <1>0, <1>2, <1>5 DEF Rooted
  <1>7. CASE tip.status = "confirmed" /\ x \in Roots \cup Confirmed
    <2>1. PICK new : new = [dep EXCEPT ![b] = 1]
      OBVIOUS
    <2>2. /\ dep \in [Builds -> Nat \ {0}] /\ new \in [Builds -> Nat \ {0}]
          /\ new[b] = 1 /\ \A d \in Builds : d # b => new[d] = dep[d]
          /\ \A d \in Builds : new[d] <= dep[d]
      BY <2>1 DEF Deeper
    <2>3. x \notin Builds \ Confirmed
      BY <1>0, <1>7
    <2>4. ASSUME NEW d \in Builds, HasBody(d) PROVE new[d] <= DepthCap
      <3>1. dep[d] <= DepthCap /\ new[d] <= dep[d] /\ dep[d] \in Nat /\ new[d] \in Nat
        BY <2>2, <2>4 DEF Deeper
      <3>2. QED
        BY <3>1, TipAssumption
    <2>5. ASSUME NEW d \in Builds \ D, HasBody(d), body[d].spends \in Builds \ Confirmed
          PROVE  new[body[d].spends] < new[d]
      <3>1. d # b
        BY <1>5, <2>3, <2>5
      <3>2. PICK y \in Builds : y = body[d].spends
        BY <2>5
      <3>3. dep[y] < dep[d] /\ new[d] = dep[d] /\ new[y] <= dep[y]
        BY <2>2, <2>5, <3>1, <3>2 DEF Deeper
      <3>4. dep[y] \in Nat /\ dep[d] \in Nat /\ new[y] \in Nat
        BY <2>2
      <3>5. QED
        BY <3>2, <3>3, <3>4
    <2>6. Deeper(new, D)
      BY <2>2, <2>4, <2>5 DEF Deeper
    <2>7. new[b] <= tip.depth + 1
      BY <1>2, <2>2
    <2>8. QED
      BY <1>3, <2>6, <2>7
  <1>8. CASE tip.status = "confirmed" /\ x \notin Roots \cup Confirmed
    <2>1. x \in Builds /\ x \in Txs /\ HasBody(x) /\ x \notin Confirmed /\ Balance(x) = body[x].keeps
      BY <1>0, <1>6, <1>8 DEF Balance
    <2>2. body[x].keeps = tip.balance
      BY <1>1, <1>2, <1>6, <2>1
    <2>3. x \in D
      BY <1>2, <1>8, <2>1, <2>2 DEF Peak
    <2>4. b \notin Taken
      BY <1>0, <1>5, <1>8, <2>3 DEF Connected, Doomed
    <2>5. PICK E : E = D \cup {b}
      OBVIOUS
    <2>6. Doomed(E)
      BY <1>2, <1>5, <2>3, <2>4, <2>5 DEF Doomed
    <2>7. Deeper(dep, E) /\ b \in E
      BY <2>5, DeeperMore
    <2>8. QED
      BY <1>3, <2>6, <2>7
  <1>9. QED
    BY <1>2, <1>4, <1>7, <1>8

\* A build gets the depth after its tip's; on a doomed tip it is doomed.
LEMMA StartDepths ==
  ASSUME ChainBase, [Next]_vars, NEW b \in Builds, BuildStarts(b),
         NEW dep, NEW D, Doomed(D), Deeper(dep, D), TipDepth(dep, D), Peak(D)
  PROVE  \E new, E : Doomed(E)' /\ Deeper(new, E)' /\ TipDepth(new, E)' /\ Peak(E)'
  <1>0. /\ TypeInv /\ Rooted /\ Builds \subseteq Txs /\ Roots \cap Txs = {}
        /\ \A t \in Taken : HasBody(t)
        /\ \A t \in Txs : HasBody(t) => body[t].keeps \in Nat
    BY ChainAssumption, TakenHaveBodies DEF ChainBase, PromiseInv, SoundInv, Txs
  <1>1. PICK t : t = tip'
    OBVIOUS
  <1>2. /\ t \in Tips /\ t # None
        /\ t = tip \/ (tip = None /\ t \in Seeds)
        /\ t.balance = Balance(t.ref)
        /\ t.status = "pending" => t.ref \in Builds
        /\ t.status = "confirmed" => t.ref \in Roots \cup Confirmed
        /\ Taken' = Taken /\ Confirmed' = Confirmed
        /\ ~HasBody(b) /\ HasBody(b)' /\ token' = b
        /\ t.ref \in Txs => HasBody(t.ref)
        /\ body'[b].spends = t.ref /\ body'[b].keeps = t.balance - Amount[b]
        /\ \A u \in Txs : u # b => body'[u] = body[u]
    BY <1>1, StartsBody DEF HasBody
  <1>3. /\ t.depth \in Nat /\ t.balance \in Nat /\ t.status \in {"confirmed", "pending"}
        /\ t.depth + 1 <= DepthCap
        /\ Amount[b] \in Nat /\ Amount[b] > 0
    <2>1. t.depth < DepthCap
      <3>1. DepthInv'
        BY BaseStep DEF ChainBase, PromiseInv
      <3>2. QED
        BY <1>1, <1>2, <3>1, ChainAssumption DEF DepthInv
    <2>2. QED
      BY <1>2, <2>1, ChainAssumption, TipAssumption DEF Tips
  <1>4. PICK E : /\ Doomed(E) /\ Deeper(dep, E)
                 /\ t.status = "pending" => t.ref \in E \cup Confirmed \/ dep[t.ref] <= t.depth
                 /\ t.status = "confirmed" =>
                      \A d \in Builds \ E : HasBody(d) /\ d \notin Confirmed => body[d].keeps < t.balance
    <2>1. CASE t = tip
      BY <1>2, <2>1 DEF TipDepth, Peak
    <2>2. CASE tip = None /\ t \in Seeds
      <3>1. t.status = "confirmed"
        BY <1>0, <2>2, SeedsAreTrue
      <3>2. PICK E : /\ Doomed(E) /\ D \subseteq E
                     /\ \A d \in Builds \ E : HasBody(d) /\ d \notin Confirmed => body[d].keeps < t.balance
        BY <2>2, SeedDooms
      <3>3. QED
        BY <3>1, <3>2, DeeperMore
    <2>3. QED
      BY <1>2, <2>1, <2>2
  <1>5. PICK F : F = IF t.ref \in E THEN E \cup {b} ELSE E
    OBVIOUS
  <1>6. PICK new : new = [dep EXCEPT ![b] = t.depth + 1]
    OBVIOUS
  <1>7. /\ dep \in [Builds -> Nat \ {0}] /\ new \in [Builds -> Nat \ {0}]
        /\ new[b] = t.depth + 1 /\ \A d \in Builds : d # b => new[d] = dep[d]
    BY <1>3, <1>4, <1>6 DEF Deeper
  <1>8. \A d \in Builds : d # b /\ HasBody(d)' => HasBody(d) /\ body'[d] = body[d]
    BY <1>0, <1>2 DEF HasBody
  <1>9. Doomed(F)'
    <2>1. Doomed(E)'
      BY <1>4, DoomedStay
    <2>2. CASE t.ref \in E
      <3>1. b \notin Taken'
        BY <1>0, <1>2
      <3>2. F = E \cup {b} /\ body'[b].spends \in E
        BY <1>2, <1>5, <2>2
      <3>3. QED
        BY <1>2, <2>1, <3>1, <3>2 DEF Doomed
    <2>3. QED
      BY <1>5, <2>1, <2>2
  <1>10. Deeper(new, F)'
    <2>1. ASSUME NEW d \in Builds, HasBody(d)' PROVE new[d] <= DepthCap
      BY <1>3, <1>4, <1>7, <1>8, <2>1 DEF Deeper
    <2>2. ASSUME NEW d \in Builds \ F, HasBody(d)', body'[d].spends \in Builds \ Confirmed
          PROVE  new[body'[d].spends] < new[d]
      <3>1. CASE d = b
        <4>1. t.ref \in Builds \ Confirmed /\ t.ref \notin E /\ t.ref # b /\ t.status = "pending"
          BY <1>0, <1>2, <1>3, <1>5, <2>2, <3>1
        <4>2. dep[t.ref] <= t.depth /\ new[t.ref] = dep[t.ref] /\ dep[t.ref] \in Nat
          BY <1>4, <1>7, <4>1
        <4>3. new[t.ref] < new[b]
          BY <1>3, <1>7, <4>2
        <4>4. QED
          BY <1>2, <3>1, <4>3
      <3>2. CASE d # b
        <4>1. HasBody(d) /\ body'[d] = body[d] /\ d \in Builds \ E /\ d \in Txs
          BY <1>0, <1>5, <1>8, <2>2, <3>2
        <4>2. PICK y \in Builds \ Confirmed : y = body[d].spends
          BY <2>2, <4>1
        <4>3. HasBody(y) /\ y # b
          BY <1>0, <1>2, <4>1, <4>2 DEF Rooted
        <4>4. dep[y] < dep[d]
          BY <1>4, <4>1, <4>2 DEF Deeper
        <4>5. QED
          BY <1>7, <3>2, <4>1, <4>2, <4>3, <4>4
      <3>3. QED
        BY <3>1, <3>2
    <2>3. QED
      BY <1>2, <1>7, <2>1, <2>2 DEF Deeper
  <1>11. TipDepth(new, F)'
    <2>1. t.status = "pending" => t.ref \in F \cup Confirmed' \/ new[t.ref] <= t.depth
      BY <1>0, <1>2, <1>4, <1>5, <1>7
    <2>2. new[b] <= t.depth + 1
      BY <1>3, <1>7
    <2>3. QED
      BY <1>1, <1>2, <2>1, <2>2 DEF TipDepth
  <1>12. Peak(F)'
    <2>1. ASSUME t.status = "confirmed", NEW d \in Builds \ F, HasBody(d)', d \notin Confirmed'
          PROVE  body'[d].keeps < t.balance
      <3>1. CASE d = b
        BY <1>2, <1>3, <3>1
      <3>2. CASE d # b
        BY <1>2, <1>4, <1>5, <1>8, <2>1, <3>2
      <3>3. QED
        BY <3>1, <3>2
    <2>2. QED
      BY <1>1, <2>1 DEF Peak
  <1>13. QED
    BY <1>9, <1>10, <1>11, <1>12

LEMMA DepthsStep ==
  ASSUME ChainBase, [Next]_vars, Depths
  PROVE  Depths'
  <1>1. PICK dep, D : Doomed(D) /\ Deeper(dep, D) /\ TipDepth(dep, D) /\ Peak(D)
    BY DEF Depths
  <1>2. ASSUME NEW b \in Builds, BuildStarts(b) PROVE Depths'
    BY <1>1, <1>2, StartDepths DEF Depths
  <1>3. ASSUME \A b \in Builds : ~BuildStarts(b) PROVE Depths'
    <2>1. CASE tip' = None \/ (tip' = tip /\ token' \in {token, None})
      BY <1>1, <1>3, <2>1, StillDepths DEF Depths
    <2>2. CASE tip' \in Seeds
      BY <1>1, <1>3, <2>2, ReseedDepths DEF Depths
    <2>3. ASSUME NEW c \in Calls, Advances(c) PROVE Depths'
      BY <1>1, <1>3, <2>3, AdvanceDepths DEF Depths
    <2>4. QED
      BY <1>3, <2>1, <2>2, <2>3, PromiseFrame DEF ChainBase
  <1>4. QED
    BY <1>2, <1>3

\* The recursion of UnsettledDepth ends, since bodies are ranked.
LEMMA DepthUnfolds ==
  ASSUME ChainBase, Ranked
  PROVE  \A t \in Mempool :
           UnsettledDepth[t] = (IF t \in Builds THEN 1 ELSE 0)
             + (IF body[t].spends \in Mempool THEN UnsettledDepth[body[t].spends] ELSE 0)
  <1> DEFINE One(t) == IF t \in Builds THEN 1 ELSE 0
             Down(t, g) == One(t) + (IF body[t].spends \in Mempool THEN g[body[t].spends] ELSE 0)
             F == [p \in Mempool \X [Mempool -> Nat] |-> Down(p[1], p[2])]
  <1>1. PICK rank : IsRank(rank)
    BY DEF Ranked
  <1> DEFINE R == Growing(rank, Mempool)
  <1>2. Mempool \subseteq Txs /\ \A t \in Mempool : HasBody(t) /\ rank[t] \in Nat
    BY <1>1, TakenHaveBodies DEF ChainBase, PromiseInv, Taken, IsRank
  <1>3. /\ IsWellFoundedOn(R, Mempool) /\ IsTransitivelyClosedOn(R, Mempool)
        /\ \A x, y \in Mempool : <<x, y>> \in R <=> rank[x] < rank[y]
    BY <1>2, RankWellFounded
  <1>4. \A t \in Mempool : body[t].spends \in Mempool => <<body[t].spends, t>> \in R
    BY <1>1, <1>2, <1>3 DEF IsRank
  <1> HIDE DEF R
  <1>5. \A t \in Mempool : \A g \in [Mempool -> Nat] : Down(t, g) \in Nat
    OBVIOUS
  <1>6. \A t \in Mempool : \A g, h \in [Mempool -> Nat] :
           (\A u \in Mempool : <<u, t>> \in R => g[u] = h[u]) => Down(t, g) = Down(t, h)
    BY <1>4
  <1> HIDE DEF Down
  <1>7. IsStep(F, Mempool, Nat, R)
    BY <1>5, <1>6 DEF IsStep
  <1>8. \A t \in Mempool : \A g \in [Mempool -> Nat] : F[<<t, g>>] = Down(t, g)
    OBVIOUS
  <1> HIDE DEF F
  <1>9. PICK g : Solves(g, F, Mempool, Nat)
    <2>1. Nat # {}
      OBVIOUS
    <2>2. QED
      BY <1>3, <1>7, <2>1, RecursionExists
  <1>10. g \in [Mempool -> Nat] /\ \A t \in Mempool : g[t] = Down(t, g)
    BY <1>8, <1>9 DEF Solves
  <1>11. g = [t \in Mempool |-> Down(t, g)]
    BY <1>10
  <1>12. UnsettledDepth = [t \in Mempool |-> Down(t, UnsettledDepth)]
    BY <1>11 DEF UnsettledDepth, Down, One
  <1>13. \A t \in Mempool : UnsettledDepth[t] = Down(t, UnsettledDepth)
    BY <1>12
  <1>14. QED
    BY <1>13 DEF Down, One

LEMMA DepthsBound ==
  ASSUME ChainBase, Ranked, Depths
  PROVE  UnsettledChainBounded
  <1>1. PICK dep, D : Doomed(D) /\ Deeper(dep, D)
    BY DEF Depths
  <1>2. PICK rank : IsRank(rank)
    BY DEF Ranked
  <1>0. /\ Mempool \subseteq Txs /\ \A t \in Mempool : HasBody(t) /\ t \in Taken /\ rank[t] \in Nat
        /\ Rooted /\ Roots \cap Txs = {} /\ Confirmed \cap Mempool = {} /\ Txs = Builds \cup AdminTxs
        /\ DepthCap \in Nat
    BY <1>2, TakenHaveBodies, ChainAssumption, TipAssumption
    DEF ChainBase, PromiseInv, SoundInv, Taken, Txs, IsRank
  <1> DEFINE Fine(t) == /\ UnsettledDepth[t] \in Nat /\ UnsettledDepth[t] <= DepthCap
                        /\ t \in Builds => UnsettledDepth[t] <= dep[t]
             Wrong == {t \in Mempool : ~Fine(t)}
  <1>3. Wrong = {}
    <2>1. SUFFICES ASSUME Wrong # {} PROVE FALSE
      OBVIOUS
    <2>2. PICK t \in Wrong : \A u \in Wrong : rank[t] <= rank[u]
      <3>1. \A u \in Wrong : rank[u] \in Nat
        BY <1>0
      <3> HIDE DEF Wrong
      <3>2. QED
        BY <2>1, <3>1, LeastRank
    <2>3. PICK x : x = body[t].spends
      OBVIOUS
    <2>4. UnsettledDepth[t] = (IF t \in Builds THEN 1 ELSE 0)
                                + (IF x \in Mempool THEN UnsettledDepth[x] ELSE 0)
      BY <2>2, <2>3, DepthUnfolds
    <2>5. t \in Mempool /\ t \in Txs /\ HasBody(t) /\ t \in Taken /\ rank[t] \in Nat
      BY <1>0, <2>2
    <2>6. x \in Mempool => Fine(x) /\ x \in Txs /\ x \notin Confirmed /\ x \notin Roots
      <3>1. x \in Mempool => rank[x] < rank[t] /\ rank[x] \in Nat
        BY <1>0, <1>2, <2>3, <2>5 DEF IsRank
      <3>2. x \in Mempool => x \notin Wrong
        BY <2>2, <2>5, <3>1
      <3>3. QED
        BY <1>0, <3>2
    <2>7. CASE t \in Builds
      <3>1. dep[t] \in Nat /\ dep[t] > 0 /\ dep[t] <= DepthCap
        BY <1>1, <2>5, <2>7 DEF Deeper
      <3>2. CASE x \in Mempool
        <4>1. x \in Builds
          BY <1>0, <2>3, <2>5, <2>6, <2>7, <3>2 DEF Rooted
        <4>2. t \notin D
          BY <1>1, <2>5 DEF Doomed
        <4>3. dep[x] < dep[t] /\ dep[x] \in Nat
          BY <1>1, <2>3, <2>5, <2>6, <2>7, <3>2, <4>1, <4>2 DEF Deeper
        <4>4. UnsettledDepth[x] \in Nat /\ UnsettledDepth[x] <= dep[x]
          BY <2>6, <3>2, <4>1
        <4>5. UnsettledDepth[t] = 1 + UnsettledDepth[x]
          BY <2>4, <2>7, <3>2
        <4>6. Fine(t)
          BY <1>0, <3>1, <4>3, <4>4, <4>5
        <4>7. QED
          BY <2>2, <4>6
      <3>3. CASE x \notin Mempool
        <4>1. UnsettledDepth[t] = 1
          BY <2>4, <2>7, <3>3
        <4>2. Fine(t)
          BY <1>0, <3>1, <4>1
        <4>3. QED
          BY <2>2, <4>2
      <3>4. QED
        BY <3>2, <3>3
    <2>8. CASE t \notin Builds
      <3>1. Fine(t)
        BY <1>0, <2>4, <2>6, <2>8
      <3>2. QED
        BY <2>2, <3>1
    <2>9. QED
      BY <2>7, <2>8
  <1>4. QED
    BY <1>3 DEF UnsettledChainBounded

\* However builds that were swept, late submissions, evictions, re-seeds and
\* restarts interleave, and whatever the admins spend in between, no
\* surrender stands more than DepthCap deep in the mempool (pool_tip.py:
\* acquire_for_build, advance_on_submit, seed_from_chain).
THEOREM ChainStaysBounded == Spec => []UnsettledChainBounded
  <1>1. Init => ChainBase /\ Ranked /\ Depths
    <2> SUFFICES ASSUME Init PROVE ChainBase /\ Ranked /\ Depths
      OBVIOUS
    <2>1. body = [t \in Txs |-> None] /\ status = [t \in Txs |-> "unknown"]
          /\ tip = None /\ token = None
      BY DEF Init, ChainInit, PoolTipInit
    <2>2. Builds \subseteq Txs /\ AdminTxs \subseteq Txs
      BY DEF Txs
    <2>3. PromiseInv
      <3>1. LockHasToken /\ DepthInv
        BY DEF Init, PoolTipInit, LockHasToken, DepthInv, DepthBounded
      <3>2. LifeInv
        BY DEF Init, ChainInit, LifeInv, NoCall, Txs
      <3>3. QED
        BY <3>1, <3>2, InitTyped DEF PromiseInv
    <2>4. Taken = {} /\ Confirmed = {} /\ \A t \in Txs : ~HasBody(t)
      BY <2>1 DEF Taken, Mempool, Confirmed, HasBody
    <2>5. TipTruth /\ SoundInv
      BY <2>1, <2>2, <2>4 DEF TipTruth, SoundInv, Fresh, Rooted, Connected
    <2>6. Ranked
      <3>1. IsRank([t \in Txs |-> 0])
        BY <2>4 DEF IsRank
      <3>2. QED
        BY <3>1 DEF Ranked
    <2>7. Depths
      <3>1. PICK dep : dep = [b \in Builds |-> 1]
        OBVIOUS
      <3>2. Doomed({}) /\ Deeper(dep, {}) /\ TipDepth(dep, {}) /\ Peak({})
        BY <2>1, <2>2, <2>4, <3>1 DEF Doomed, Deeper, TipDepth, Peak
      <3>3. QED
        BY <3>2 DEF Depths
    <2>8. QED
      BY <2>3, <2>5, <2>6, <2>7 DEF ChainBase
  <1>2. ChainBase /\ Ranked /\ Depths /\ [Next]_vars => (ChainBase /\ Ranked /\ Depths)'
    BY BaseStep, RankStep, DepthsStep
  <1>3. ChainBase /\ Ranked /\ Depths => UnsettledChainBounded
    BY DepthsBound
  <1>4. QED
    BY <1>1, <1>2, <1>3, PTL DEF Spec

=============================================================================
