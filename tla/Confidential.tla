---------------------------- MODULE Confidential ----------------------------
(***************************************************************************)
(* Confidential transactions: the ConfidentialCtx that mine_block creates  *)
(* for a transaction (src/confidential/confidential_ctx.rs), the key       *)
(* manager it shares with oasis_getPublicKey (src/impls/oasis.rs), and the *)
(* clients that use a published key.                                       *)
(*                                                                         *)
(* The virtual machine that drives the context is not part of the          *)
(* repository.  It enters a confidential contract with activate(Some(..)), *)
(* calls out of one into an ordinary contract with activate(None), gives   *)
(* activate what it returned when the call is over, and deactivates the    *)
(* context at the end.  A message is a log entry or the output.            *)
(***************************************************************************)
EXTENDS KeyManager, Crypto

CONSTANTS
  Miner,       \* the thread that holds the write lock of the chain
  Clients,     \* senders of transactions
  Cells,       \* storage keys of a contract
  Values,      \* what a contract writes
  Starts,      \* counters clients begin with
  MaxBlock,    \* bound: no transaction is executed above this block
  MaxDepth     \* bound: contracts on the call stack

ASSUME PartiesAssumption == Miner \notin Clients /\ Callers = Clients \cup {Miner}

ASSUME BoundsAssumption == MaxBlock \in Nat /\ Starts \subseteq Counters

VARIABLES
  published,   \* per client: the contract and key oasis_getPublicKey gave it
  height,      \* number of the best block, which stands for its hash
  request,     \* the transaction that is executed
  phase,       \* where the virtual machine is
  stack,       \* contracts being executed: callee, and what activate returned
  ctx,         \* the ConfidentialCtx
  store,       \* per contract: stored ciphertexts by location
  committed,   \* the same, in the committed state
  written,     \* history: per contract and cell, what it wrote last
  kept,        \* history: the same, in the committed state
  messages     \* messages encrypted for the client

txnVars   == << request, phase, stack, ctx, messages >>
storeVars == << store, written >>
diskVars  == << height, committed, kept >>
vars      == << kmVars, published, height, request, phase, stack, ctx, store,
                committed, written, kept, messages >>

Unset == "unset"

-----------------------------------------------------------------------------
(* ConfidentialCtx::new *)
CtxNew(prev) ==
  [peer_public_key |-> None, contract |-> None, next_nonce |-> None,
   activated |-> FALSE, prev_block_hash |-> prev, d2 |-> None,
   next_storage_nonce |-> None]

Address(x) == { c.addr : c \in x.contract }

(* Mutant: the cipher of the contract that called is kept. *)
BugSwapContract(x, contract) ==
  [x EXCEPT !.contract = contract,
            !.d2 = IF x.d2 = None THEN { c.key : c \in contract } ELSE @,
            !.next_storage_nonce =
              { NonceNew(<< x.prev_block_hash, c.addr >>, 0) : c \in contract }]

(* swap_contract: contract, cipher and storage nonce change together; the   *)
(* tag of the nonce is H(prev_block_hash || address), its counter 0.        *)
SwapContract(x, contract) ==
  [x EXCEPT !.contract = contract,
            !.d2 = { c.key : c \in contract },
            !.next_storage_nonce =
              { NonceNew(<< x.prev_block_hash, c.addr >>, 0) : c \in contract }]

IsEncrypting(x) == x.activated /\ x.contract # None

(* Mutant: every activation starts a context of its own. *)
BugActivate(x, contract) ==
  SwapContract([CtxNew(x.prev_block_hash) EXCEPT !.activated = TRUE], contract)

(* activate, once the key manager has answered. *)
Activate(x, contract) == SwapContract([x EXCEPT !.activated = TRUE], contract)

(* deactivate *)
Deactivate(x) == CtxNew(x.prev_block_hash)

(* The contract whose key the key manager has just given the miner. *)
Answered == Some([addr |-> wanted[Miner], key |-> got[Miner]])

(* Mutant: the nonce of the request is used for the first message. *)
BugDecryptSession(x, payload) ==
  LET d == Decrypt(payload, The(x.contract).key) IN
  IF ~ d.ok THEN [res |-> Err, ctx |-> x]
  ELSE [res |-> Ok(d.val.plain),
        ctx |-> [x EXCEPT !.peer_public_key = Some(d.val.peer),
                          !.next_nonce = Some(d.val.nonce)]]

(* decrypt_session: on success the sender becomes the peer, and the next    *)
(* nonce is the request's plus one.                                         *)
DecryptSession(x, payload) ==
  LET d == Decrypt(payload, The(x.contract).key) IN
  IF ~ d.ok THEN [res |-> Err, ctx |-> x]
  ELSE LET y == [x EXCEPT !.peer_public_key = Some(d.val.peer)]
           n == Increment(d.val.nonce)
       IN  IF ~ n.ok THEN [res |-> Err, ctx |-> y]
           ELSE [res |-> Ok(d.val.plain), ctx |-> [y EXCEPT !.next_nonce = Some(n.val)]]

(* Mutant: the payload names the peer as its sender. *)
BugEncryptSession(x, data) ==
  IF x.peer_public_key = None \/ x.contract = None \/ x.next_nonce = None
  THEN [res |-> Err, ctx |-> x]
  ELSE LET peer    == The(x.peer_public_key)
           payload == Encrypt(data, The(x.next_nonce), peer, peer,
                              The(x.contract).key, << >>)
           n       == Increment(The(x.next_nonce))
       IN  IF ~ n.ok THEN [res |-> Err, ctx |-> x]
           ELSE [res |-> Ok(payload), ctx |-> [x EXCEPT !.next_nonce = Some(n.val)]]

(* encrypt_session: without peer, contract or nonce an error.  The nonce is *)
(* incremented after use; if it cannot be, the payload is dropped.          *)
EncryptSession(x, data) ==
  IF x.peer_public_key = None \/ x.contract = None \/ x.next_nonce = None
  THEN [res |-> Err, ctx |-> x]
  ELSE LET key     == The(x.contract).key
           payload == Encrypt(data, The(x.next_nonce), The(x.peer_public_key),
                              key, key, << >>)
           n       == Increment(The(x.next_nonce))
       IN  IF ~ n.ok THEN [res |-> Err, ctx |-> x]
           ELSE [res |-> Ok(payload), ctx |-> [x EXCEPT !.next_nonce = Some(n.val)]]

(* encrypt_storage_key: the nonce is zero. *)
EncryptStorageKey(x, cell) ==
  Seal(The(x.d2), << "zero", 0 >>, << cell >>, << >>)

(* Mutant: the nonce that is stored is the one for the next value. *)
BugEncryptStorageValue(x, cell, data) ==
  LET nonce == The(x.next_storage_nonce)
      n     == Increment(nonce)
  IN  IF ~ n.ok THEN [res |-> Err, ctx |-> x]
      ELSE [res |-> Ok(Seal(The(x.d2), Wire(nonce), data, << cell >>) \o << Wire(n.val) >>),
            ctx |-> [x EXCEPT !.next_storage_nonce = Some(n.val)]]

(* encrypt_storage_value: ciphertext || tag || nonce, and the storage key   *)
(* is the additional data.                                                  *)
EncryptStorageValue(x, cell, data) ==
  LET nonce == The(x.next_storage_nonce)
      n     == Increment(nonce)
  IN  IF ~ n.ok THEN [res |-> Err, ctx |-> x]
      ELSE [res |-> Ok(Seal(The(x.d2), Wire(nonce), data, << cell >>) \o << Wire(nonce) >>),
            ctx |-> [x EXCEPT !.next_storage_nonce = Some(n.val)]]

(* decrypt_storage_value: the nonce is split off the tail.  Truncated data  *)
(* is an error; where open fails its unwrap() panics.                       *)
DecryptStorageValue(x, cell, data) ==
  IF Len(data) < 2 THEN Err
  ELSE Open(The(x.d2), data[Len(data)], SubSeq(data, 1, Len(data) - 1), << cell >>)

(* A contract reads a cell: the location is its encrypted key. *)
Fetch(x, cell) ==
  LET loc  == EncryptStorageKey(x, cell)
      disk == store[The(Address(x))]
  IN  IF loc \in DOMAIN disk THEN DecryptStorageValue(x, cell, disk[loc])
      ELSE Ok(<< Unset >>)

-----------------------------------------------------------------------------
Init ==
  /\ KMInit
  /\ published = [cl \in Clients |-> None]
  /\ height = 0 /\ request = None /\ phase = "free" /\ stack = << >>
  /\ ctx = CtxNew(0)
  /\ store = [c \in Contracts |-> << >>] /\ committed = store
  /\ written = [c \in Contracts |-> [k \in Cells |-> Unset]] /\ kept = written
  /\ messages = << >>

(* oasis_getPublicKey: public_key calls get_public_key, which takes no lock *)
(* of the chain.                                                            *)
PublicKey(cl, c) ==
  /\ published[cl] = None /\ Ask(cl, c)
  /\ UNCHANGED << published, diskVars, txnVars, storeVars >>

PublicKeyAnswer(cl) ==
  /\ Take(cl)
  /\ published' = [published EXCEPT ![cl] = Some([addr |-> wanted[cl], key |-> got[cl]])]
  /\ UNCHANGED << diskVars, txnVars, storeVars >>

KeyManagerStep(t) ==
  /\ KMStep(t)
  /\ UNCHANGED << published, diskVars, txnVars, storeVars >>

(* What a client sends: data for a contract whose key it has, the same cut  *)
(* short, or an ordinary transaction.                                       *)
Intact(cl, start) ==
  { [client |-> cl, callee |-> Some(p.addr), whole |-> TRUE, start |-> start,
     payload |-> Encrypt(<< "data" >>, NonceNew(cl, start), p.key, cl, cl, << "aad" >>)] :
    p \in published[cl] }

Cut(r) ==
  { [r EXCEPT !.whole = FALSE, !.payload = SubSeq(r.payload, 1, n)] :
      n \in {0, Len(r.payload) - 1} }

Ordinary(cl) == [client |-> cl, callee |-> None, whole |-> FALSE, start |-> 0,
                 payload |-> << >>]

Requests(cl) ==
  {Ordinary(cl)} \cup
  UNION { Intact(cl, start) \cup UNION { Cut(r) : r \in Intact(cl, start) } :
            start \in Starts }

(* mine_block: a fresh context with the hash of the best block.             *)
Begin(r) ==
  /\ phase = "free" /\ height < MaxBlock
  /\ request' = Some(r) /\ ctx' = CtxNew(height)
  /\ \/ /\ r.callee = None
        /\ phase' = "running" /\ stack' = << [callee |-> None, old |-> None] >>
        /\ UNCHANGED kmVars
     \/ /\ r.callee # None
        /\ phase' = "entering" /\ stack' = << >>
        /\ Ask(Miner, The(r.callee))
  /\ UNCHANGED << published, diskVars, storeVars, messages >>

(* activate(Some(contract)) goes on with the key of the contract. *)
Enter ==
  /\ phase = "entering" /\ Take(Miner)
  /\ ctx' = Activate(ctx, Answered)
  /\ stack' = Append(stack, [callee |-> Some(wanted[Miner]), old |-> Address(ctx)])
  /\ phase' = IF stack = << >> THEN "opening" ELSE "running"
  /\ UNCHANGED << published, diskVars, request, messages, storeVars >>

OpenRequest ==
  /\ phase = "opening"
  /\ LET d == DecryptSession(ctx, The(request).payload) IN
       /\ ctx' = d.ctx
       /\ phase' = IF d.res.ok THEN "running" ELSE "refused"
  /\ UNCHANGED << kmVars, published, diskVars, request, stack, messages, storeVars >>

-----------------------------------------------------------------------------
(* The virtual machine (external): calls, returns, reads, writes and        *)
(* messages of the contract on top of the stack.                            *)
Top == stack[Len(stack)]

Pop == SubSeq(stack, 1, Len(stack) - 1)

CallConfidential(c) ==
  /\ phase = "running" /\ Len(stack) < MaxDepth
  /\ Ask(Miner, c)
  /\ phase' = "entering"
  /\ UNCHANGED << published, diskVars, request, stack, ctx, messages, storeVars >>

(* From a confidential contract: activate(None). *)
CallOrdinary ==
  /\ phase = "running" /\ Len(stack) < MaxDepth /\ IsEncrypting(ctx)
  /\ ctx' = Activate(ctx, None)
  /\ stack' = Append(stack, [callee |-> None, old |-> Address(ctx)])
  /\ UNCHANGED << kmVars, published, diskVars, request, phase, messages, storeVars >>

(* The caller is given back its context with activate(old). *)
ReturnToOrdinary ==
  /\ phase = "running" /\ Len(stack) > 1 /\ Top.old = None
  /\ ctx' = Activate(ctx, None)
  /\ stack' = Pop
  /\ UNCHANGED << kmVars, published, diskVars, request, phase, messages, storeVars >>

ReturnToConfidential ==
  /\ phase = "running" /\ Len(stack) > 1 /\ Top.old # None
  /\ Ask(Miner, The(Top.old))
  /\ phase' = "returning"
  /\ UNCHANGED << published, diskVars, request, stack, ctx, messages, storeVars >>

Return ==
  /\ phase = "returning" /\ Take(Miner)
  /\ ctx' = Activate(ctx, Answered)
  /\ stack' = Pop
  /\ phase' = "running"
  /\ UNCHANGED << published, diskVars, request, messages, storeVars >>

(* A contract stores a value; without a nonce left the transaction fails.   *)
Write(cell, v) ==
  /\ phase = "running" /\ IsEncrypting(ctx)
  /\ LET e   == EncryptStorageValue(ctx, cell, << v >>)
         c   == The(Address(ctx))
         loc == EncryptStorageKey(ctx, cell)
     IN  \/ /\ e.res.ok
            /\ store' = [store EXCEPT ![c] =
                           [l \in DOMAIN @ \cup {loc} |-> IF l = loc THEN e.res.val ELSE @[l]]]
            /\ written' = [written EXCEPT ![c][cell] = v]
            /\ ctx' = e.ctx
            /\ UNCHANGED phase
         \/ /\ ~ e.res.ok
            /\ phase' = "failed"
            /\ UNCHANGED << storeVars, ctx >>
  /\ UNCHANGED << kmVars, published, diskVars, request, stack, messages >>

(* A contract reads a cell and sends what it read to the client.  A value   *)
(* that does not open is a panic.                                           *)
Send(cell) ==
  /\ phase = "running" /\ IsEncrypting(ctx)
  /\ LET value == Fetch(ctx, cell)
         e     == EncryptSession(ctx, value.val)
     IN  \/ /\ ~ value.ok
            /\ phase' = "panicked"
            /\ UNCHANGED << ctx, messages >>
         \/ /\ value.ok /\ e.res.ok
            /\ messages' = Append(messages, [payload |-> e.res.val, data |-> value.val])
            /\ ctx' = e.ctx
            /\ UNCHANGED phase
         \/ /\ value.ok /\ ~ e.res.ok
            /\ phase' = "failed"
            /\ UNCHANGED << ctx, messages >>
  /\ UNCHANGED << kmVars, published, diskVars, request, stack, storeVars >>

(* Mutant: the number of the best block is moved twice. *)
BugCommit ==
  /\ phase = "running" /\ Len(stack) = 1
  /\ phase' = "free" /\ stack' = << >> /\ ctx' = Deactivate(ctx)
  /\ request' = None /\ messages' = << >>
  /\ height' = height + 2 /\ committed' = store /\ kept' = written
  /\ UNCHANGED << kmVars, published, storeVars >>

(* The outermost contract is done, and mine_block commits the state.        *)
Commit ==
  /\ phase = "running" /\ Len(stack) = 1
  /\ phase' = "free" /\ stack' = << >> /\ ctx' = Deactivate(ctx)
  /\ request' = None /\ messages' = << >>
  /\ height' = height + 1 /\ committed' = store /\ kept' = written
  /\ UNCHANGED << kmVars, published, storeVars >>

(* The transaction fails, of itself or with an error of the context: what   *)
(* it wrote is dropped.  The block is mined unless apply returned an error. *)
Fail ==
  /\ phase \in {"running", "failed", "refused"}
  /\ phase' = "free" /\ stack' = << >> /\ ctx' = Deactivate(ctx)
  /\ request' = None /\ messages' = << >>
  /\ height' \in {height, height + 1}
  /\ store' = committed /\ written' = kept
  /\ UNCHANGED << kmVars, published, committed, kept >>

Next ==
  \/ \E cl \in Clients : \/ \E c \in Contracts : PublicKey(cl, c)
                         \/ PublicKeyAnswer(cl)
                         \/ \E r \in Requests(cl) : Begin(r)
  \/ \E t \in Callers : KeyManagerStep(t)
  \/ Enter \/ OpenRequest
  \/ \E c \in Contracts : CallConfidential(c)
  \/ CallOrdinary \/ ReturnToOrdinary \/ ReturnToConfidential \/ Return
  \/ \E cell \in Cells : Send(cell) \/ \E v \in Values : Write(cell, v)
  \/ Commit \/ Fail

Spec == Init /\ [][Next]_vars

(* Fairness: the operating system runs every thread, and the random number  *)
(* generator returns or fails.                                              *)
FairSpec == Spec /\ \A t \in Callers : WF_vars(KeyManagerStep(t))
-----------------------------------------------------------------------------
Options(S) == {None} \cup { Some(x) : x \in S }

Frames == [callee : Options(Contracts), old : Options(Contracts)]

CtxFields == {"peer_public_key", "contract", "next_nonce", "activated",
              "prev_block_hash", "d2", "next_storage_nonce"}

IsCtx(x) == x = [f \in CtxFields |-> x[f]]

(* Types: the context always has its seven fields, and a transaction is     *)
(* executed only below the bound (struct ConfidentialCtx,                   *)
(* confidential_ctx.rs:21-49).                                              *)
TypeOK ==
  /\ published \in [Clients -> SUBSET [addr : Contracts, key : Nat]]
  /\ height \in 0 .. MaxBlock /\ (phase # "free" => height < MaxBlock)
  /\ phase \in {"free", "entering", "opening", "running", "returning", "failed",
                "refused", "panicked"}
  /\ stack \in Seq(Frames)
  /\ IsCtx(ctx)

(* However calls are nested, and whoever asks for keys meanwhile, the       *)
(* context is that of the contract that runs: its address and key, the      *)
(* cipher of its state key and a nonce of its own, or none for an ordinary  *)
(* contract (confidential_ctx.rs:101-156).                                  *)
ContextMatchesFrame ==
  phase \in {"entering", "opening", "running"} /\ stack # << >> =>
    /\ Address(ctx) = Top.callee
    /\ \A c \in Top.callee :
         /\ IsEncrypting(ctx)
         /\ ctx.contract = Some([addr |-> c, key |-> keys[c]])
         /\ ctx.d2 = Some(keys[c])
         /\ \E n \in Counters : ctx.next_storage_nonce =
              Some([tag |-> << height, c >>, current |-> n, start |-> 0])

(* The channel a transaction opened stays open to its sender through every  *)
(* nested call (confidential_ctx.rs:22-33).                                 *)
SessionKept ==
  phase = "running" /\ stack[1].callee # None =>
    ctx.peer_public_key = Some(The(request).client) /\ ctx.next_nonce # None

(* A contract reads what it wrote last, in this transaction or in an        *)
(* earlier one, and no read panics (confidential_ctx.rs:227-279).           *)
ReadsBack ==
  /\ phase # "panicked"
  /\ phase = "running" /\ IsEncrypting(ctx) =>
       \A cell \in Cells :
         Fetch(ctx, cell) = Ok(<< written[The(Address(ctx))][cell] >>)

(* The client opens every message with the key pair it sent the request     *)
(* with, whichever contract encrypted it (crypto.rs:22-75).                 *)
MessagesOpen ==
  \A i \in DOMAIN messages :
    LET d == Decrypt(messages[i].payload, The(request).client) IN
    d.ok /\ d.val.plain = messages[i].data

(* No two messages of a transaction carry the same nonce, and none carries  *)
(* the request's: the counter wraps, and stops before it comes round        *)
(* (nonce.rs:33-72, confidential_ctx.rs:30-34).                             *)
NoncesFresh ==
  \A i \in DOMAIN messages :
    LET nonce(m) == m.payload[Len(m.payload)] IN
    /\ nonce(messages[i]) # << The(request).client, The(request).start >>
    /\ \A j \in DOMAIN messages : i # j => nonce(messages[i]) # nonce(messages[j])

(* A request made with a published key is refused only if it did not arrive *)
(* whole (crypto.rs:109-158).                                               *)
RefusedOnlyWhenCut == phase = "refused" => ~ The(request).whole

(* A key oasis_getPublicKey has given to a client is the contract's for     *)
(* good (oasis.rs:39-49, client.rs:24-42).                                  *)
PublishedKeyStands ==
  \A cl \in Clients : \A p \in published[cl] : p.key # 0 /\ keys[p.addr] = p.key

(* Calls nest: while the virtual machine waits for a key it knows where it  *)
(* goes, what activate returned leads back from each contract to its        *)
(* caller, and the key of every contract on the stack exists                *)
(* (confidential_ctx.rs:142-156).                                           *)
CallChain ==
  /\ phase \in {"opening", "running", "returning"} => stack # << >>
  /\ phase \in {"entering", "returning"} <=> kmPc[Miner] # "idle"
  /\ phase = "entering" /\ stack = << >> => ctx.contract = None
  /\ phase = "returning" => Len(stack) > 1 /\ Top.old = Some(wanted[Miner])
  /\ \A i \in 2 .. Len(stack) : stack[i].old = stack[i - 1].callee
  /\ \A i \in 1 .. Len(stack) : \A c \in stack[i].callee : keys[c] # 0
  /\ phase # "free" => ctx.prev_block_hash = height

(* Nobody waits for ever at the mutex of the key manager, although the      *)
(* miner comes to it with the chain locked and a caller may panic while it  *)
(* holds it (client.rs:25).                                                 *)
KeyManagerAnswers ==
  \A t \in Callers : kmPc[t] = "lock" ~> kmPc[t] \in {"answered", "panicked"}
=============================================================================
