----------------------------- MODULE MCRpcStats -----------------------------
(* Small instances of RpcStats. *)
EXTENDS RpcStats

CONSTANTS t1, t2, s1

(* A single call, and a batch above the limit. *)
MCRequests == { [batch |-> FALSE, calls |-> 1], [batch |-> TRUE, calls |-> 3] }
=============================================================================
