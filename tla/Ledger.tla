------------------------------- MODULE Ledger -------------------------------
(***************************************************************************)
(* What the Blockchain object promises its callers: one sequence of mined  *)
(* transactions that only grows, and every request answered in one atomic  *)
(* step against it, at some moment between the call and the return.  The   *)
(* accounts are a function of the sequence.                                *)
(*                                                                         *)
(* Blockchain.tla, with its lock, its state database, its four maps and    *)
(* its step-by-step mining, implements this specification                  *)
(* (BlockchainRefinement!Refines).                                         *)
(***************************************************************************)
EXTENDS ChainData

LOCAL INSTANCE Folds

VARIABLES
  chain,   \* mined transactions with their number of log entries, in order
  req,     \* the request each thread serves
  res,     \* the reply each thread has for its caller
  since,   \* the height of the chain when the thread was called
  halted   \* a panic while mining made the chain unusable

vars == << chain, req, res, since, halted >>

Height == Len(chain)

(* The block with number n of the chain. *)
BlockAt(n) ==
  IF n = 0 THEN Genesis
  ELSE NewBlock(n, Keccak[n - 1], chain[n].txn, chain[n].logs)

(* The greatest of a set of block numbers. *)
Greatest(S) == CHOOSE n \in S : \A m \in S : m <= n

(* Account a once the first n blocks have been executed. *)
AccountAt(n, a) ==
  [nonce   |-> Cardinality({ i \in 1 .. n : chain[i].txn.sender = a }),
   written |-> Greatest({0} \cup { i \in 1 .. n : a \in Touched(chain[i].txn) })]

(* The database as block n left it, restricted to some keys. *)
Snapshot(n, keys) == { << a, AccountAt(n, a) >> : a \in keys }

(* The numbers of the blocks that hold txn. *)
Mined(txn) == { i \in 1 .. Height : chain[i].txn = txn }

(* The block number an identifier stands for when the chain has n blocks    *)
(* besides genesis.                                                         *)
Resolve(id, n) ==
  CASE id.tag = "latest" -> Some(n)
    [] id.tag = "number" -> IF id.number <= n THEN Some(id.number) ELSE None
    [] id.tag = "hash"   ->
         IF \E m \in 0 .. n : Keccak[m] = id.hash
         THEN Some(CHOOSE m \in 0 .. n : Keccak[m] = id.hash) ELSE None

(* The log entries of the matching transactions of blocks from .. to.       *)
LogsOf(from, to, matches) ==
  LET Logs(n) == SelectSeq(BlockAt(n).logs, LAMBDA e : e.transaction_hash \in matches)
      Least(S) == CHOOSE n \in S : \A m \in S : n <= m
  IN  MapThenFoldSet(\o, << >>, Logs, Least, from .. to)

(* The transaction at an index of the block that an identifier stands for   *)
(* when the chain has m blocks besides genesis.                             *)
TxnAt(r, m) ==
  LET n == Resolve(r.id, m) IN
    IF n = None THEN None
    ELSE LET ts == BlockAt(n[1]).transactions IN
           IF r.index + 1 \in DOMAIN ts
           THEN Some(LocalizedTxn(n[1], Keccak[n[1]], ts[r.index + 1]))
           ELSE None

(* get_txn(Latest) picks the best block before it looks into it, and logs   *)
(* resolves its two ends one after the other: each sees some height the     *)
(* chain had since the call.                                                *)
LogsReplies(t) ==
  LET r     == req[t]
      At(id) == { Resolve(id, n) : n \in since[t] .. Height }
  IN { IF f = None \/ g = None THEN Err("block not found")
       ELSE Ok(LogsOf(f[1], g[1], r.matches)) : f \in At(r.from), g \in At(r.to) }

(* The replies the chain allows to the request of t. *)
Replies(t) ==
  LET r == req[t] IN
    CASE r.op = "block"   -> LET n == Resolve(r.id, Height) IN
                               { Ok(IF n = None THEN None ELSE Some(BlockAt(n[1]))) }
      [] r.op = "txn"     -> { Ok(IF Mined(r.txn) = {} THEN None
                                  ELSE LET n == Greatest(Mined(r.txn)) IN
                                         Some(LocalizedTxn(n, Keccak[n], r.txn))) }
      [] r.op = "receipt" -> { Ok(IF Mined(r.txn) = {} THEN None
                                  ELSE LET n == Greatest(Mined(r.txn)) IN
                                         Some(LocalizedReceipt(n, Keccak[n], r.txn,
                                                               BlockAt(n).logs))) }
      [] r.op = "txnAt"   -> { Ok(TxnAt(r, m)) :
                                 m \in IF r.id = Latest THEN since[t] .. Height
                                       ELSE {Height} }
      [] r.op = "logs"    -> LogsReplies(t)
      [] r.op = "simulate" -> { Ok(Snapshot(Height, r.keys)), Err("not executed") }
      [] r.op = "state"    -> { Ok(Snapshot(Height, r.keys)) }
-----------------------------------------------------------------------------
Init ==
  /\ chain = << >>
  /\ req = [t \in Threads |-> NoRequest]
  /\ res = [t \in Threads |-> NoReply]
  /\ since = [t \in Threads |-> 0]
  /\ halted = FALSE

Call(t, r) ==
  /\ req[t] = NoRequest
  /\ req' = [req EXCEPT ![t] = r]
  /\ since' = [since EXCEPT ![t] = Height]
  /\ UNCHANGED << chain, res, halted >>

Serving(t) == req[t] # NoRequest /\ res[t] = NoReply

Reply(t, x) == res' = [res EXCEPT ![t] = x]

Query(t) ==
  /\ Serving(t) /\ ~ halted /\ req[t].op # "send"
  /\ \E x \in Replies(t) : Reply(t, x)
  /\ UNCHANGED << chain, req, since, halted >>

(* A transaction is refused, or its execution fails: no trace of it.        *)
Refuse(t) ==
  /\ Serving(t) /\ req[t].op = "send"
  /\ LET why == Refusal(req[t].txn) IN
       IF why = None THEN ~ halted /\ Reply(t, Err("not executed"))
                     ELSE Reply(t, Err(why[1]))
  /\ UNCHANGED << chain, req, since, halted >>

(* A transaction is mined: it has the next nonce of its sender, and it      *)
(* becomes the only transaction of the next block.                          *)
Mine(t) ==
  /\ Serving(t) /\ ~ halted /\ req[t].op = "send"
  /\ LET txn == req[t].txn IN
       /\ Refusal(txn) = None
       /\ txn.nonce = AccountAt(Height, txn.sender).nonce
       /\ \E n \in 0 .. MaxLogs : chain' = Append(chain, [txn |-> txn, logs |-> n])
       /\ Reply(t, Ok(txn))
  /\ UNCHANGED << req, since, halted >>

(* The task panics.  Only a panic while mining halts the chain; on a halted *)
(* chain every request ends this way.                                       *)
Abort(t) ==
  /\ Serving(t)
  /\ Reply(t, Panicked)
  /\ \/ /\ halted
        /\ UNCHANGED halted
     \/ /\ req[t].op = "simulate"
        /\ UNCHANGED halted
     \/ /\ req[t].op = "send" /\ Refusal(req[t].txn) = None
        /\ halted' = TRUE
  /\ UNCHANGED << chain, req, since >>

Return(t) ==
  /\ res[t] # NoReply
  /\ req' = [req EXCEPT ![t] = NoRequest]
  /\ res' = [res EXCEPT ![t] = NoReply]
  /\ since' = [since EXCEPT ![t] = 0]
  /\ UNCHANGED << chain, halted >>

Next ==
  \E t \in Threads :
    \/ \E r \in Requests : Call(t, r)
    \/ Query(t) \/ Refuse(t) \/ Mine(t) \/ Abort(t) \/ Return(t)

Spec == Init /\ [][Next]_vars
=============================================================================
