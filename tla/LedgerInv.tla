----------------------------- MODULE LedgerInv ------------------------------
(***************************************************************************)
(* The inductive invariant behind the properties of BlockchainRefinement:  *)
(* the blocks are as mine_block fills them in, and how far mine_block has  *)
(* got with the accounts of the state database.  It stands on              *)
(* BlockchainInv!IInv and BlockchainAnswers!RInv.                          *)
(***************************************************************************)
EXTENDS BlockchainAnswers, BlockchainRefinement

(* The blocks up to n of the chain c that account a sent, and those that    *)
(* rewrote it.                                                              *)
Sent(c, n, a) == { i \in 1 .. n : c[i].txn.sender = a }

Writes(c, n, a) == {0} \cup { i \in 1 .. n : a \in Touched(c[i].txn) }

(* The greatest of a set of block numbers, as in the ledger. *)
Greatest(S) == CHOOSE n \in S : \A m \in S : m <= n

(* Ledger!AccountAt for any chain: account a once the first n blocks of c   *)
(* have been executed.                                                      *)
AccountOf(c, n, a) ==
  [nonce |-> Cardinality(Sent(c, n, a)), written |-> Greatest(Writes(c, n, a))]

(* The blocks the chain reaches are as mine_block fills them in. *)
FilledInv ==
  \A i \in DOMAIN block_number_to_hash \ {0} :
    \E x \in Txns, k \in 0 .. MaxLogs :
      blocks[Keccak[i]] = NewBlock(i, Keccak[i - 1], x, k)

(* So is the block that task t builds. *)
BuiltInv(t) ==
  pc[t] \in Building =>
    LET n == block[t].number IN
      \E k \in 0 .. MaxLogs : block[t] = NewBlock(n, Keccak[n - 1], req[t].txn, k)

(* A stored transaction is the one its block holds, or is being mined. *)
PlacedInv(x) ==
  LET i == transactions[x].block_number IN
    IF Reached(i) THEN blocks[Keccak[i]].transactions = << x >>
    ELSE \E t \in Threads : pc[t] \in Late \ {"txn"} /\ req[t].txn = x

(* What task t of mine_block still has to commit. *)
CommitInv(t) ==
  /\ pc[t] = "commit" => todo[t] \subseteq Touched(req[t].txn)
  /\ pc[t] \in Building \ {"commit"} => todo[t] = {}
  /\ pc[t] \in Building =>
       req[t].txn.nonce = AccountOf(MinedChain, Height, req[t].txn.sender).nonce

(* mine_block of task t has committed account a. *)
Committed(t, a) == pc[t] \in Building /\ a \in Touched(req[t].txn) \ todo[t]

(* Account a as mine_block of task t leaves it. *)
AfterBlock(t, a) ==
  [nonce   |-> AccountOf(MinedChain, Height, a).nonce
                 + (IF a = req[t].txn.sender THEN 1 ELSE 0),
   written |-> block[t].number]

(* Account a is as the chain left it, or as the block being mined will      *)
(* leave it.                                                                *)
AccountInv(a) ==
  \/ /\ \A t \in Threads : ~ Committed(t, a)
     /\ mkvs[a] = AccountOf(MinedChain, Height, a)
  \/ \E t \in Threads : Committed(t, a) /\ mkvs[a] = AfterBlock(t, a)

(* The account state v is no older than the one block n left in a. *)
NotBehind(v, n, a) ==
  LET old == AccountOf(MinedChain, n, a) IN
    v.nonce >= old.nonce /\ v.written >= old.written

(* What a handle of state() has read, and then returned, is no older than   *)
(* its call.                                                                *)
HandleInv(t) ==
  /\ pc[t] = "handle" => \A p \in seen[t] : NotBehind(p[2], since[t], p[1])
  /\ pc[t] = "done" /\ req[t].op = "state" /\ res[t].tag = "ok" =>
       \A p \in res[t].val : NotBehind(p[2], since[t], p[1])

(* Unless a panic cut a commit short, the database is as far as the chain   *)
(* and the commit are; even then no account is behind the chain.            *)
DInv ==
  /\ FilledInv
  /\ \A x \in DOMAIN transactions : PlacedInv(x)
  /\ \A t \in Threads : BuiltInv(t) /\ CommitInv(t) /\ HandleInv(t)
  /\ ~ poisoned => \A a \in Accounts : AccountInv(a)
  /\ \A a \in Accounts : NotBehind(mkvs[a], Height, a)
=============================================================================
