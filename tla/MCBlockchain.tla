---------------------------- MODULE MCBlockchain ----------------------------
(* Small instances of Blockchain: the constants of its TLC runs.            *)
EXTENDS BlockchainInv, BlockchainRefinement

CONSTANTS t1, t2, t3, alice, bob

MCKeccak == [n \in 0 .. MaxBlock |-> <<"h0", "h1", "h2", "h3">>[n + 1]]

MCTxn(id, sender, to, nonce) ==
  [id |-> id, decodes |-> TRUE, signed |-> TRUE, sender |-> sender, to |-> to,
   nonce |-> nonce, gas |-> 1, gas_price |-> 1]

(* A transfer, its successor, a conflicting transaction of the same sender  *)
(* and nonce, and one transaction per early return of send_raw_transaction. *)
pay  == MCTxn(1, alice, bob, 0)
pay2 == MCTxn(2, alice, bob, 1)
alt  == MCTxn(3, alice, alice, 0)

Refused == { [MCTxn(4, bob, bob, 0) EXCEPT !.decodes = FALSE],
             [MCTxn(5, bob, bob, 0) EXCEPT !.gas = BlockGasLimit + 1],
             [MCTxn(6, bob, bob, 0) EXCEPT !.signed = FALSE],
             [MCTxn(7, bob, bob, 0) EXCEPT !.gas_price = MinGasPrice - 1] }

MCTxns == {pay, pay2, alt} \cup Refused

Send(S) == [op : {"send"}, txn : S]

Simulations == { [op |-> "simulate", id |-> Latest, keys |-> {alice, bob}] }

StateReads == { [op |-> "state", id |-> Latest, keys |-> {alice, bob}] }

BlockQueries == { [op |-> "block", id |-> Latest], [op |-> "block", id |-> Hash("h1")],
                  [op |-> "block", id |-> Number(2)] }

TxnQueries == [op : {"txn", "receipt"}, txn : {pay}]

TxnAtQueries == { [op |-> "txnAt", id |-> Latest, index |-> 0],
                  [op |-> "txnAt", id |-> Number(1), index |-> 0],
                  [op |-> "txnAt", id |-> Hash("h1"), index |-> 1] }

LogQueries == { [op |-> "logs", from |-> f, to |-> to, matches |-> {pay, pay2}] :
                  f \in {Number(1), Latest}, to \in {Latest, Number(0)} }

(* Run serving: every kind of lookup beside submissions.                    *)
ServingRequests == Send({pay, pay2, alt} \cup Refused) \cup BlockQueries
                     \cup TxnQueries \cup TxnAtQueries

(* Run reading: multi-step readers beside submissions.                      *)
ReadingRequests == Send({pay, pay2}) \cup Simulations \cup LogQueries

(* Run snapshot: state() handles beside submissions.                        *)
SnapshotRequests == Send({pay, pay2}) \cup StateReads

(* Run lock: one transaction that every thread may submit, and simulations, *)
(* which may overlap for ever.                                              *)
LockRequests == Send({pay})
                  \cup { [op |-> "simulate", id |-> Latest, keys |-> {}] }

(* Run progress: logs takes the lock once per block of a growing chain, and *)
(* state() handles are read without it.                                     *)
ProgressRequests == Send({pay, pay2}) \cup StateReads
                      \cup { [op |-> "logs", from |-> Number(0), to |-> Latest,
                              matches |-> {pay}] }
=============================================================================
