------------------------- MODULE BlockchainAnswers --------------------------
(***************************************************************************)
(* The inductive invariant behind the answers of Blockchain: what a task   *)
(* holds between two acquisitions of the lock and what it was told.  It    *)
(* stands on BlockchainInv!IInv.                                           *)
(***************************************************************************)
EXTENDS BlockchainInv

(* n is the number of a block that the chain reaches. *)
Reached(n) == n \in DOMAIN block_number_to_hash

(* What a task holds while it serves a request. *)
Progress(t) ==
  /\ pc[t] = "idle" <=> req[t] = NoRequest
  /\ pc[t] = "done" <=> res[t] # NoReply
  /\ Reached(since[t])
  /\ pc[t] \in {"write"} \cup WriterLabels => Refusal(req[t].txn) = None
  /\ pc[t] \in {"read2", "reading2"} =>
       /\ req[t].op \in {"txnAt", "logs"}
       /\ req[t].op = "txnAt" => req[t].id = Latest /\ from[t] # None
       /\ from[t] # None => \E n \in BlockNumbers : from[t] = Some(n) /\ Reached(n)
       /\ from[t] # None /\ req[t].op = "txnAt" => since[t] <= from[t][1]
  /\ pc[t] \in {"fetch", "fetching"} =>
       /\ req[t].op = "logs"
       /\ \E n, m \in BlockNumbers :
            from[t] = Some(n) /\ upto[t] = Some(m) /\ n <= m /\ Reached(m)
  /\ pc[t] \notin {"simulate", "handle", "done"} => seen[t] = {}
  /\ pc[t] = "handle" => req[t].op = "state"
  /\ pc[t] = "simulate" =>
       /\ req[t].op = "simulate" /\ todo[t] \subseteq req[t].keys
       /\ seen[t] = { << a, mkvs[a] >> : a \in req[t].keys \ todo[t] }

(* The answer a task has for its client: it died for a reason, the chain    *)
(* bears the answer out, and get_txn(Latest) found what it looked for.      *)
Answer(t) ==
  /\ res[t] = Panicked => poisoned \/ req[t].op = "simulate"
  /\ pc[t] = "done" /\ res[t].tag = "ok" => BornOut(req[t], res[t].val)
  /\ pc[t] = "done" /\ req[t] = [op |-> "txnAt", id |-> Latest, index |-> 0]
       /\ res[t] = Ok(None) => from[t] = Some(0)

(* Every task has its locals. *)
Shape == DOMAIN res = Threads /\ DOMAIN from = Threads /\ DOMAIN upto = Threads

(* A step that leaves the task u alone. *)
Untouched(u) ==
  /\ pc'[u] = pc[u] /\ req'[u] = req[u] /\ res'[u] = res[u] /\ since'[u] = since[u]
  /\ from'[u] = from[u] /\ upto'[u] = upto[u]
  /\ block'[u] = block[u] /\ todo'[u] = todo[u] /\ seen'[u] = seen[u]

(* The genesis block stays the first one. *)
GenesisInv == blocks[Keccak[0]] = Genesis

(* A poisoned lock is in nobody's hands. *)
PoisonInv == poisoned => writers = {} /\ readers = {}

RInv ==
  /\ Shape /\ GenesisInv /\ PoisonInv
  /\ \A t \in Threads : Progress(t) /\ Answer(t)

=============================================================================
