----------------------------- MODULE PoolChain -----------------------------
(***************************************************************************)
(* The Cardano node and the Blockfrost index, as the surrender service     *)
(* uses them.  External code: what is modelled is what the calls           *)
(* BlockfrostClient.submit_tx, get_tx_utxos and find_pool_utxos can        *)
(* observe of the pool's outputs.                                          *)
(*                                                                         *)
(* A transaction moves the pool from one output to at most one successor,  *)
(* so the successor (output #1) is named by its transaction; the outputs   *)
(* the pool was created with are the Roots.                                *)
(*                                                                         *)
(* A transaction that the node has taken but Blockfrost does not list yet  *)
(* is "mempool": for the service there is no difference between a          *)
(* transaction no block holds and one whose block is not indexed.          *)
(* Confirmed transactions are not rolled back.                             *)
(***************************************************************************)
EXTENDS Integers, FiniteSets

CONSTANTS
  Roots,        \* the pool outputs made by build_surrender_pool
  RootBalance,  \* what each of them holds
  Builds,       \* one surrender transaction per /build-surrender request
  Amount,       \* the cMATRA each surrender delivers
  AdminTxs,     \* transactions of the admins made outside the service
  None          \* no build, no tip, no body

ASSUME ChainAssumption ==
  /\ RootBalance \in [Roots -> Nat \ {0}]
  /\ Amount \in [Builds -> Nat \ {0}]
  /\ Roots \cap Builds = {} /\ Roots \cap AdminTxs = {} /\ Builds \cap AdminTxs = {}
  /\ None \notin Roots \cup Builds \cup AdminTxs

Txs == Builds \cup AdminTxs
Refs == Roots \cup Txs

\* The part of a transaction that concerns the pool: the output it spends
\* and what it returns to the script (0: the pool output is drained).
Bodies == [spends : Refs, keeps : Nat]

VARIABLES
  body,    \* what each transaction does, None before it is built
  status   \* where each transaction is

chainVars == <<body, status>>

Statuses == {"unknown", "mempool", "confirmed", "dropped"}

ChainTypeOK ==
  /\ body \in [Txs -> Bodies \cup {None}]
  /\ status \in [Txs -> Statuses]

ChainInit ==
  /\ body = [t \in Txs |-> None]
  /\ status = [t \in Txs |-> "unknown"]

Confirmed == {t \in Txs : status[t] = "confirmed"}
Mempool == {t \in Txs : status[t] = "mempool"}

Balance(r) == IF r \in Roots THEN RootBalance[r] ELSE body[r].keeps

\* The pool outputs that the transactions in S leave unspent.
Unspent(S) ==
  {r \in Roots \cup {t \in S : body[t].keeps > 0} : \A t \in S : body[t].spends # r}

\* find_pool_utxos: Blockfrost lists what the confirmed transactions leave.
LivePool == Unspent(Confirmed)

\* get_tx_utxos answers for a confirmed transaction only.
IsConfirmed(r) == r \in Roots \cup Confirmed

\* The node takes t if what it spends is there, counting the mempool.
Acceptable(t) ==
  /\ body[t] # None
  /\ t \notin Mempool \cup Confirmed
  /\ body[t].spends \in Unspent(Mempool \cup Confirmed)

Accept(t) == status' = [status EXCEPT ![t] = "mempool"]

\* A block with t is indexed.
Confirm(t) ==
  /\ status[t] = "mempool"
  /\ body[t].spends \in Roots \cup Confirmed
  /\ status' = [status EXCEPT ![t] = "confirmed"]
  /\ UNCHANGED body

\* The mempool loses t; those that chain off it are lost before it.
Drop(t) ==
  /\ status[t] = "mempool"
  /\ \A u \in Mempool : body[u].spends # t
  /\ status' = [status EXCEPT ![t] = "dropped"]
  /\ UNCHANGED body

\* The admins rotate a pool output (the successor keeps its balance) or
\* withdraw it (no successor) with a transaction of their own.
AdminSpends(t, r) ==
  /\ status[t] = "unknown"
  /\ r \in Unspent(Mempool \cup Confirmed)
  /\ \E keeps \in {0, Balance(r)} :
       body' = [body EXCEPT ![t] = [spends |-> r, keeps |-> keeps]]
  /\ Accept(t)

ChainNext ==
  \/ \E t \in Txs : Confirm(t) \/ Drop(t)
  \/ \E t \in AdminTxs, r \in Refs : AdminSpends(t, r)
=============================================================================
