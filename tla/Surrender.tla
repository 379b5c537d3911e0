----------------------------- MODULE Surrender -----------------------------
(***************************************************************************)
(* services/surrender_api.py: /build-surrender and /submit-surrender run   *)
(* against one PoolTipManager, beside the watchdog, a Cardano node and     *)
(* Blockfrost.  A build is one /build-surrender request (its build token   *)
(* and the transaction it makes carry the same name); a call is a slot for *)
(* one /submit-surrender request at a time, and any number of requests may *)
(* submit one build, one after the other or at once.                       *)
(*                                                                         *)
(* A wallet that signs nothing, a wallet input spent elsewhere, a fee that *)
(* is too low, a refusal of the co-signer or of a ledger: each shows here  *)
(* as a step that may fail at any time.                                    *)
(***************************************************************************)
EXTENDS PoolTip

CONSTANTS
  Calls,        \* bound: how many /submit-surrender requests are in flight at once
  MaxRestarts   \* bound: how often the process restarts

\* The tasks of the event loop.
Tasks == Builds \cup Calls \cup {Watchdog}

ASSUME SurrenderAssumption ==
  /\ MaxRestarts \in Nat
  /\ Calls \cap (Builds \cup {Watchdog}) = {}

VARIABLES
  pc,          \* where each /build-surrender request is
  registered,  \* pending_tx_hashes (with pending_tx_cbor and build_ctx)
  expired,     \* the registered ones older than TX_HASH_TTL
  call,        \* the /submit-surrender request in each slot, and its build
  restarts,
  ahead        \* tasks that may be ready before the waiter just woken

apiVars == <<pc, registered, expired, call, restarts>>
vars == <<chainVars, tipVars, lockVars, wd, apiVars, ahead>>

\* "chaining" builds on a pending tip, "building" on a confirmed one.
BuildPcs == {"new", "waiting", "building", "chaining", "built", "failed"}

\* "lost": the handler is gone, its submission may still be on the wire.
CallPcs == {"idle", "signing", "sending", "accepted", "rejected", "lost"}

NoCall == [pc |-> "idle", build |-> None]

TypeOK ==
  /\ ChainTypeOK /\ PoolTipTypeOK
  /\ pc \in [Builds -> BuildPcs]
  /\ registered \subseteq Builds /\ expired \subseteq registered
  /\ call \in [Calls -> [pc : CallPcs, build : Builds \cup {None}]]
  /\ restarts \in Nat
  /\ ahead \subseteq Tasks

Init ==
  /\ ChainInit /\ PoolTipInit
  /\ pc = [b \in Builds |-> "new"]
  /\ registered = {} /\ expired = {}
  /\ call = [c \in Calls |-> NoCall]
  /\ restarts = 0
  /\ ahead = {}

-----------------------------------------------------------------------------
(* The event loop                                                          *)

\* release() has woken the first waiter, whose turn has yet to come.
Waking == ~locked /\ waiters # <<>>

\* Task p runs from one await to the next.  Ready tasks run in the order
\* they became ready, so a task runs at most once before a waiter that has
\* been woken, and not at all if it is the one that woke it.
Runs(p) ==
  /\ Waking => p \in ahead \/ Head(waiters) = p
  /\ ahead' = IF ~Waking' THEN {}
              ELSE IF Waking /\ Head(waiters) # p THEN ahead \ {p}
              ELSE Tasks \ {p}

-----------------------------------------------------------------------------
(* /build-surrender                                                        *)

\* The lock is taken or has waiters: the request queues for it.
BuildWaits(b) ==
  /\ pc[b] = "new" /\ ~LockFree
  /\ waiters' = Append(waiters, b)
  /\ pc' = [pc EXCEPT ![b] = "waiting"]
  /\ UNCHANGED <<chainVars, tipVars, locked, token, overdue, wd, registered, expired, call, restarts>>

\* b's turn at the lock: b was just called, or was queued and has been woken.
Turn(b) ==
  /\ pc[b] \in {"new", "waiting"}
  /\ Gets(b)
  /\ UNCHANGED <<wd, registered, expired, call, restarts, status>>

\* No tip, or the depth cap (503).
BuildRefused(b) ==
  /\ Turn(b)
  /\ RefuseBuild
  /\ pc' = [pc EXCEPT ![b] = "failed"]
  /\ UNCHANGED body

\* Mutant: a tip that cannot cover the surrender is built on.
CoversAnything(b, t) == TRUE

Covers(b, t) == t.balance >= Amount[b]

\* The tip cannot pay: the lock is released in the same step (503).
BuildShort(b) ==
  /\ Turn(b)
  /\ \E t \in IF tip = None THEN Seeds ELSE {tip} :
       ~Settling(t) /\ ~Covers(b, t) /\ tip' = t
  /\ UNCHANGED <<tipStale, token, locked, overdue, body>>
  /\ pc' = [pc EXCEPT ![b] = "failed"]

\* What the transaction built on t does to the pool: it spends t and pays the
\* remainder back to the script.  (A full drain has no pool-change output.)
SurrenderBody(b, t) == [spends |-> t.ref, keeps |-> t.balance - Amount[b]]

\* b holds the lock and the build goes to a thread.
BuildStarts(b) ==
  /\ Turn(b)
  /\ \E t \in IF tip = None THEN Seeds ELSE {tip} :
       /\ Admit(b, t) /\ Covers(b, t)
       /\ body' = [body EXCEPT ![b] = SurrenderBody(b, t)]
       /\ pc' = [pc EXCEPT ![b] = IF t.status = "pending" THEN "chaining" ELSE "building"]

\* Preflight resolves confirmed outputs only and is skipped on a pending tip.
Preflight(b) == pc[b] = "chaining" \/ (pc[b] = "building" /\ body[b].spends \in LivePool)

\* The hash is registered and the unsigned transaction goes to the wallet.
BuildDone(b) ==
  /\ Preflight(b)
  /\ pc' = [pc EXCEPT ![b] = "built"]
  /\ registered' = (registered \ expired) \cup {b} /\ expired' = {}
  /\ UNCHANGED <<chainVars, tipVars, lockVars, wd, call, restarts>>

BuildFails(b) ==
  /\ pc[b] \in {"building", "chaining"}
  /\ pc' = [pc EXCEPT ![b] = "failed"]
  /\ ReleaseBuild(b)
  /\ UNCHANGED <<chainVars, tipVars, waiters, wd, registered, expired, call, restarts>>

-----------------------------------------------------------------------------
(* /submit-surrender                                                       *)

CallGoes(c, where) == call' = [call EXCEPT ![c].pc = where]
CallEnds(c) == call' = [call EXCEPT ![c] = NoCall]

\* Expired hashes are pruned first; the build must still be registered.
SubmitStarts(c, b) ==
  /\ call[c].pc = "idle" /\ b \in registered \ expired
  /\ call' = [call EXCEPT ![c] = [pc |-> "signing", build |-> b]]
  /\ registered' = registered \ expired /\ expired' = {}
  /\ UNCHANGED <<chainVars, tipVars, lockVars, wd, pc, restarts>>

\* Unknown or expired hash (403), or a malformed witness set (400): only the
\* prune happens, and the lock stays with the build.
SubmitTurnedAway(c) ==
  /\ call[c].pc = "idle"
  /\ registered' = registered \ expired /\ expired' = {}
  /\ UNCHANGED <<chainVars, tipVars, lockVars, wd, pc, call, restarts>>

\* Mutant: a failed submission keeps the lock.
AbandonKeepsLock(b) ==
  /\ registered' = registered \ {b} /\ expired' = expired \ {b}
  /\ UNCHANGED <<token, locked, overdue>>

\* abandon(): release the lock and forget the hash.
Abandon(b) ==
  /\ ReleaseBuild(b)
  /\ registered' = registered \ {b} /\ expired' = expired \ {b}

\* _signed_by_admins raises HTTPException.
SignRefused(c) ==
  /\ call[c].pc = "signing"
  /\ Abandon(call[c].build)
  /\ CallEnds(c)
  /\ UNCHANGED <<chainVars, tipVars, waiters, wd, pc, restarts>>

\* _signed_by_admins raises anything else: nothing is abandoned.
SignCrashes(c) ==
  /\ call[c].pc = "signing"
  /\ CallEnds(c)
  /\ UNCHANGED <<chainVars, tipVars, lockVars, wd, pc, registered, expired, restarts>>

Signed(c) ==
  /\ call[c].pc = "signing"
  /\ CallGoes(c, "sending")
  /\ UNCHANGED <<chainVars, tipVars, lockVars, wd, pc, registered, expired, restarts>>

\* The node takes the transaction; its answer is on the way, if anyone waits.
NodeAccepts(c) ==
  /\ call[c].pc \in {"sending", "lost"}
  /\ Acceptable(call[c].build)
  /\ Accept(call[c].build)
  /\ IF call[c].pc = "sending" THEN CallGoes(c, "accepted") ELSE CallEnds(c)
  /\ UNCHANGED <<body, tipVars, lockVars, wd, pc, registered, expired, restarts>>

\* It may refuse for reasons outside the pool too.
NodeRejects(c) ==
  /\ call[c].pc \in {"sending", "lost"}
  /\ IF call[c].pc = "sending" THEN CallGoes(c, "rejected") ELSE CallEnds(c)
  /\ UNCHANGED <<chainVars, tipVars, lockVars, wd, pc, registered, expired, restarts>>

\* submit_tx raises: the node refused, or the answer was lost, or the request
\* timed out with the transaction still on the wire.
SubmitFails(c) ==
  /\ call[c].pc \in {"rejected", "accepted", "sending"}
  /\ Abandon(call[c].build)
  /\ IF call[c].pc = "sending" THEN CallGoes(c, "lost") ELSE CallEnds(c)
  /\ UNCHANGED <<chainVars, tipVars, waiters, wd, pc, restarts>>

\* Mempool-accept came back: forget the hash and advance the tip.
SubmitAccepted(c) ==
  /\ call[c].pc = "accepted"
  /\ registered' = registered \ {call[c].build} /\ expired' = expired \ {call[c].build}
  /\ AdvanceOnSubmit(call[c].build)
  /\ CallEnds(c)
  /\ UNCHANGED <<chainVars, waiters, wd, pc, restarts>>

-----------------------------------------------------------------------------

\* TX_HASH_TTL counts from registration and is longer than the signing
\* timeout, which counts from acquisition.
HashExpires(b) ==
  /\ b \in registered \ expired
  /\ token = b => overdue
  /\ expired' = expired \cup {b}
  /\ UNCHANGED <<chainVars, tipVars, lockVars, wd, pc, registered, call, restarts>>

\* The process restarts: all of AppState is in memory, submissions already
\* sent are not.
Restart ==
  /\ restarts < MaxRestarts
  /\ restarts' = restarts + 1
  /\ tip' = None /\ tipStale' = FALSE
  /\ locked' = FALSE /\ waiters' = <<>> /\ token' = None /\ overdue' = FALSE
  /\ wd' = Asleep
  /\ pc' = [b \in Builds |->
              IF pc[b] \in {"waiting", "building", "chaining"} THEN "failed" ELSE pc[b]]
  /\ registered' = {} /\ expired' = {}
  /\ call' = [c \in Calls |->
                IF call[c].pc \in {"sending", "lost"} THEN [call[c] EXCEPT !.pc = "lost"]
                ELSE NoCall]
  /\ ahead' = {}
  /\ UNCHANGED chainVars

Build(b) ==
  \/ BuildWaits(b) \/ BuildRefused(b) \/ BuildShort(b) \/ BuildStarts(b)
  \/ BuildDone(b) \/ BuildFails(b)

Submit(c) ==
  \/ \E b \in Builds : SubmitStarts(c, b)
  \/ SubmitTurnedAway(c)
  \/ SignRefused(c) \/ SignCrashes(c) \/ Signed(c)
  \/ SubmitFails(c) \/ SubmitAccepted(c)

NodeAnswers(c) == NodeAccepts(c) \/ NodeRejects(c)

WatchdogRuns == WatchdogStep /\ UNCHANGED <<chainVars, apiVars>> /\ Runs(Watchdog)

Tick ==
  \/ (SigningTimeout \/ EvictionWindow) /\ UNCHANGED <<chainVars, apiVars>>
  \/ \E b \in Builds : HashExpires(b)

Next ==
  \/ \E b \in Builds : Build(b) /\ Runs(b)
  \/ \E c \in Calls : Submit(c) /\ Runs(c)
  \/ WatchdogRuns
  \/ \E c \in Calls : NodeAnswers(c) /\ UNCHANGED ahead
  \/ ChainNext /\ UNCHANGED <<tipVars, lockVars, wd, apiVars, ahead>>
  \/ Tick /\ UNCHANGED ahead
  \/ Restart

Spec == Init /\ [][Next]_vars

-----------------------------------------------------------------------------
(* Safety                                                                  *)

Landed == {t \in Txs : status[t] # "unknown"}

\* The tip is an output that exists or did exist, in the balance the chain
\* gives it: a root, or what a transaction the node took really returns to
\* the script.  A restart, a late answer, a submission of a swept build or a
\* re-seed under a running build never leaves an invented tip behind
\* (pool_tip.py: advance_on_submit, its guards and flush).
TipTruth ==
  tip # None =>
    /\ tip.ref \in Roots \cup Landed
    /\ tip.balance = Balance(tip.ref)
    /\ tip.balance > 0
    /\ tip.status = "pending" => tip.ref \in Builds

\* At every await the lock is held exactly when a build's token is: a locked
\* lock without a token could never be swept (sweep_stuck_build returns at
\* once without a token), a token without the lock would let two builds in.
LockHasToken == locked <=> token # None

\* Before the signing timeout whoever holds the lock can still end the build
\* by itself: its build thread is running, or its hash is still accepted by
\* /submit-surrender.  No path of the two handlers, duplicate submissions
\* included, ends a build and leaves the lock with it.
HolderCanFinish ==
  token # None /\ ~overdue => pc[token] \in {"building", "chaining"} \/ token \in registered

\* The depth of a tip never passes the cap, and it counts from a confirmed
\* output (acquire_for_build tests it, advance_on_submit adds to it later).
DepthBounded ==
  tip # None =>
    /\ tip.depth <= DepthCap
    /\ tip.status = "confirmed" <=> tip.depth = 0

\* What the cap is for: however swept builds, late submissions, evictions
\* and re-seeds interleave, the surrenders of this service never stand more
\* than DepthCap deep in the mempool.
UnsettledDepth ==
  LET d[t \in Mempool] ==
        (IF t \in Builds THEN 1 ELSE 0)
        + (IF body[t].spends \in Mempool THEN d[body[t].spends] ELSE 0)
  IN d

UnsettledChainBounded == \A t \in Mempool : UnsettledDepth[t] <= DepthCap

-----------------------------------------------------------------------------
(* What a step may never do                                                *)

\* A watchdog step changes the tip only while no build holds the lock
\* (reconcile_with_chain: "can never stomp a fresh advance").
WatchdogNeverStomps ==
  [][wd' # wd /\ tip' # tip /\ restarts' = restarts => token = None /\ token' = None]_vars

\* While one build holds the lock the tip stays what it was built on.
\* surrender_api.py says of the flush after a refused advance that the lock
\* was already released; with a stale token it was not, and it is another
\* build's tip that is replaced.
TipFixedWhileHeld == [][token # None /\ token' = token => tip' = tip]_vars

\* The promise of SingleFlight: who may take, keep, lose and move the tip.
Over == {b \in Builds : pc[b] = "failed" \/ (pc[b] = "built" /\ b \notin registered)}

Promise == INSTANCE SingleFlight WITH
  holder <- token, late <- overdue, over <- Over, landed <- Landed,
  seeds <- {ConfirmedTip(r) : r \in LivePool}

SingleFlightPromise == Promise!Spec

-----------------------------------------------------------------------------
(* Liveness                                                                *)

\* Fairness: the event loop runs what is ready, threads and requests to
\* Blockfrost end, time passes, Blockfrost answers a check that it is asked
\* again and again, and lists a pool it has.  Wallets owe nothing.
Fairness ==
  /\ WF_vars(WatchdogRuns)
  /\ SF_vars(WatchdogRuns /\ WdTipConfirmed)
  /\ SF_vars(WatchdogRuns /\ WdLiveFetched)
  /\ SF_vars(WatchdogRuns /\ Reseed)
  /\ WF_vars(Tick /\ UNCHANGED ahead)
  /\ \A b \in Builds : WF_vars(pc[b] # "new" /\ Build(b) /\ Runs(b))
  /\ \A c \in Calls :
       /\ WF_vars(call[c].pc # "idle" /\ Submit(c) /\ Runs(c))
       /\ WF_vars(NodeAnswers(c) /\ UNCHANGED ahead)

FairSpec == Spec /\ Fairness

WatchdogQueued == wd.pc \in {"reconcileQueue", "evictQueue"}

\* "The timeout sweeper reclaims a stuck lock" (pool_tip.py,
\* acquire_for_build): no build keeps the lock for ever past the signing timeout.
StuckBuildReclaimed == overdue ~> ~overdue

\* It does as long as the watchdog does not itself queue for the lock for
\* ever.
ReclaimedUnlessQueued == []<>~WatchdogQueued => StuckBuildReclaimed

\* A request that queues for the lock is answered, the same proviso made.
WaiterServedUnlessQueued ==
  []<>~WatchdogQueued => \A b \in Builds : pc[b] = "waiting" ~> pc[b] # "waiting"

\* A tip that a confirmed transaction has spent does not stay: once traffic
\* pauses it is replaced, as long as the chain lists a pool (the "poisoned
\* tip" of reconcile_with_chain).
Poisoned == tip # None /\ \E t \in Confirmed : body[t].spends = tip.ref

PoisonedTipReplaced ==
  []<>~WatchdogQueued => (Poisoned ~> (~Poisoned \/ LivePool = {}))

\* Nor does a tip whose transaction the mempool has lost (evict_if_stale).
Stranded == tip # None /\ tip.ref \in Txs /\ status[tip.ref] = "dropped"

StrandedTipReplaced ==
  []<>~WatchdogQueued => (Stranded ~> (~Stranded \/ LivePool = {}))
=============================================================================
