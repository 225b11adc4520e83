------------------------ MODULE BlockchainRefinement ------------------------
(***************************************************************************)
(* Blockchain against Ledger: the refinement mapping, and the properties   *)
(* of the state database, which are stated with the ledger's definition of *)
(* the state after a block.                                                *)
(***************************************************************************)
EXTENDS Blockchain

(***************************************************************************)
(* The ledger this object implements: the blocks that block_number_to_hash *)
(* reaches, in order.                                                      *)
(***************************************************************************)
MinedChain ==
  [n \in 1 .. Height |->
     LET b == blocks[block_number_to_hash[n]]
     IN  [txn |-> b.transactions[1], logs |-> Len(b.logs)]]

L == INSTANCE Ledger WITH chain <- MinedChain, halted <- poisoned

(* Blockchain implements Ledger: every reply a client gets is the one some  *)
(* atomic moment between its call and its return allows, although mining is *)
(* ten separate steps, get_txn and logs take the lock several times, and    *)
(* mine_block may panic half way (blockchain.rs mine_block, logs, get_txn,  *)
(* simulate_transaction).  Handles of state() are the exception: they read  *)
(* after the lock is released, during a commit (StateIsSnapshot) and also   *)
(* once a panic has halted the ledger.                                      *)
Refines == L!Spec

(* Whenever no mine_block is running and none has panicked, the shared      *)
(* state database is what executing the blocks in order gives: a mined      *)
(* block's writes are all there, those of failed transactions are not.      *)
DatabaseIsReplay ==
  writers = {} /\ ~ poisoned =>
    \A a \in Accounts : mkvs[a] = L!AccountAt(Height, a)

(* A handle of state() is live, never stale: the values it returns are at   *)
(* least as recent as the chain was when the request arrived, although they *)
(* are read after the lock is released.                                     *)
StateNotOlderThanCall ==
  \A t \in Threads :
    pc[t] = "done" /\ req[t].op = "state" /\ res[t].tag = "ok" =>
      \A p \in res[t].val :
        LET then == L!AccountAt(since[t], p[1]) IN
          p[2].nonce >= then.nonce /\ p[2].written >= then.written

(* The values that a handle of state() returns are those of one block       *)
(* ("Ethereum state snapshot at given block", blockchain.rs:118).           *)
StateIsSnapshot ==
  \A t \in Threads :
    pc[t] = "done" /\ req[t].op = "state" /\ res[t].tag = "ok" =>
      \E n \in 0 .. Height : res[t].val = L!Snapshot(n, req[t].keys)
=============================================================================
