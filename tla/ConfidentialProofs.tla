------------------------- MODULE ConfidentialProofs -------------------------
(***************************************************************************)
(* Proofs about KeyManager, Crypto and Confidential, for any number of     *)
(* callers, contracts, cells, values, clients, transactions and nested     *)
(* calls and every size of the counter: the key manager, the context of    *)
(* the contract that runs, the layout of a payload and the encrypted       *)
(* storage, and the session of a transaction with its nonces.              *)
(***************************************************************************)
EXTENDS Confidential, Integers, TLAPS

-----------------------------------------------------------------------------
(* The key manager. *)

(* A call of get_or_create_keys keeps KMInv. *)
LEMMA AskKeepsKMInv ==
  ASSUME KMInv, NEW t \in Callers, NEW c \in Contracts, Ask(t, c)
  PROVE  KMInv'
BY Zenon DEF KMInv, KMTypeOK, Ask

(* The lookup under the mutex keeps KMInv. *)
LEMMA LookupKeepsKMInv ==
  ASSUME KMInv, NEW t \in Callers, Lookup(t)
  PROVE  KMInv'
BY CallersAssumption DEF KMInv, KMTypeOK, Lookup

(* The insertion of a new key, under the mutex since the lookup, keeps      *)
(* KMInv.                                                                   *)
LEMMA CreateKeepsKMInv ==
  ASSUME KMInv, NEW t \in Callers, Create(t)
  PROVE  KMInv'
<1>1. KMTypeOK'
  BY CallersAssumption DEF KMInv, KMTypeOK, Create
<1>2. \A u \in Callers : kmPc[u] = "create" => u = t
  BY Zenon DEF KMInv, Create
<1>3. generated' = generated + 1 /\ generated \in Nat
  BY Zenon DEF KMInv, KMTypeOK, Create
<1>4. wanted[t] \in Contracts /\ keys[wanted[t]] = 0
  BY Zenon DEF KMInv, Create
<1>5. \A c \in Contracts : /\ keys'[c] = IF c = wanted[t] THEN generated + 1 ELSE keys[c]
                           /\ keys[c] \in 0 .. generated
  BY <1>3, <1>4, Zenon DEF KMInv, KMTypeOK, Create
<1>6. ASSUME NEW u \in Callers
      PROVE  /\ kmPc'[u] = "create" <=> guard' = u
             /\ kmPc'[u] \in {"lock", "create", "answered"} => wanted'[u] \in Contracts
             /\ kmPc'[u] = "create" => keys'[wanted'[u]] = 0
             /\ kmPc'[u] = "answered" => got'[u] # 0 /\ got'[u] = keys'[wanted'[u]]
  <2>1. CASE u = t
    BY <1>3, <1>4, <1>5, <2>1, CallersAssumption DEF KMInv, KMTypeOK, Create
  <2>2. CASE u # t
    BY <1>2, <1>4, <1>5, <2>2, CallersAssumption DEF KMInv, KMTypeOK, Create
  <2>3. QED
    BY <2>1, <2>2, Zenon
<1>7. \A c, d \in Contracts : c # d /\ keys'[c] # 0 => keys'[c] # keys'[d]
  BY <1>3, <1>5 DEF KMInv
<1>8. QED
  BY <1>1, <1>6, <1>7, Zenon DEF KMInv

(* A panic in generate_mock keeps KMInv. *)
LEMMA RngFailsKeepsKMInv ==
  ASSUME KMInv, NEW t \in Callers, RngFails(t)
  PROVE  KMInv'
BY CallersAssumption, Zenon DEF KMInv, KMTypeOK, RngFails

(* A caller that goes on with its key keeps KMInv. *)
LEMMA TakeKeepsKMInv ==
  ASSUME KMInv, NEW t \in Callers, Take(t)
  PROVE  KMInv'
BY DEF KMInv, KMTypeOK, Take

(* Every step of the key manager's callers keeps KMInv. *)
LEMMA KMStepKeepsKMInv ==
  ASSUME KMInv, [KMNext]_kmVars
  PROVE  KMInv'
<1>1. CASE UNCHANGED kmVars
  BY <1>1, Zenon DEF KMInv, KMTypeOK, kmVars
<1>2. CASE KMNext
  BY <1>2, AskKeepsKMInv, LookupKeepsKMInv, CreateKeepsKMInv, RngFailsKeepsKMInv,
     TakeKeepsKMInv, Zenon DEF KMNext, KMStep
<1>3. QED
  BY <1>1, <1>2, Zenon

(* KMInv holds when the key manager is new. *)
LEMMA InitKMInv == KMInit => KMInv
<1> SUFFICES ASSUME KMInit PROVE KMInv
  BY Zenon
<1>1. KMTypeOK
  <2>1. kmPoisoned \in BOOLEAN
    BY Zenon DEF KMInit
  <2>2. generated = 0 /\ 0 \in 0 .. generated
    BY DEF KMInit
  <2>3. /\ keys \in [Contracts -> 0 .. generated] /\ got \in [Callers -> 0 .. generated]
        /\ wanted \in [Callers -> Contracts \cup {NoOne}]
    BY <2>2, Zenon DEF KMInit
  <2>4. QED
    BY <2>1, <2>2, <2>3 DEF KMInit, KMTypeOK
<1>2. \A t \in Callers : kmPc[t] = "idle" /\ guard # t
  BY CallersAssumption, Zenon DEF KMInit
<1>3. \A c \in Contracts : keys[c] = 0
  BY Zenon DEF KMInit
<1>4. QED
  BY <1>1, <1>2, <1>3, Zenon DEF KMInv

(* Whatever the callers do, the key manager gives a contract one key        *)
(* (client.rs:24-34).                                                       *)
THEOREM OneKey == KMSpec => []KMInv
<1>1. KMInv /\ [KMNext]_kmVars => KMInv'
  BY KMStepKeepsKMInv, Zenon
<1>2. QED
  BY <1>1, InitKMInv, PTL DEF KMSpec

(* A key once in the map stays there. *)
LEMMA KeysStay ==
  ASSUME KMInv, [KMNext]_kmVars, NEW c \in Contracts, keys[c] # 0
  PROVE  keys'[c] = keys[c]
BY DEF KMInv, KMTypeOK, KMNext, KMStep, Ask, Lookup, Create, RngFails, Take, kmVars

-----------------------------------------------------------------------------
(* Confidential transactions. *)

(* The inductive invariant: none of the conjuncts is inductive alone.       *)
CInv == TypeOK /\ KMInv /\ CallChain /\ ContextMatchesFrame /\ PublishedKeyStands

(* The content of an option. *)
LEMMA TheSome == ASSUME NEW x PROVE The(Some(x)) = x
BY Zenon DEF The, Some

(* A transaction is sent to an ordinary contract or to one of Contracts.    *)
LEMMA RequestCallee ==
  ASSUME TypeOK, NEW cl \in Clients, NEW r \in Requests(cl)
  PROVE  r.callee \in Options(Contracts)
<1>1. ASSUME NEW start \in Starts, NEW q \in Intact(cl, start)
      PROVE  q.callee \in Options(Contracts)
  BY <1>1 DEF Intact, TypeOK, Options
<1>2. ASSUME NEW start \in Starts, NEW q \in Intact(cl, start), NEW z \in Cut(q)
      PROVE  z.callee = q.callee
  BY <1>2, Zenon DEF Intact, Cut
<1>3. Ordinary(cl).callee \in Options(Contracts)
  BY Zenon DEF Ordinary, Options
<1>4. QED
  BY <1>1, <1>2, <1>3 DEF Requests

(* An option of contracts that is not None holds one. *)
LEMMA OptionContract ==
  ASSUME NEW S, NEW o \in Options(S), o # None
  PROVE  The(o) \in S /\ o = Some(The(o))
BY Zenon DEF Options, None, Some, The

(* The caller a nested call returns to is one of Contracts. *)
LEMMA OldIsContract ==
  ASSUME TypeOK, stack # << >>
  PROVE  /\ Len(stack) \in 1 .. Len(stack) /\ Top \in Frames
         /\ Top.callee \in Options(Contracts) /\ Top.old \in Options(Contracts)
<1>1. stack \in Seq(Frames)
  BY Zenon DEF TypeOK
<1>2. Len(stack) \in 1 .. Len(stack)
  BY <1>1
<1>3. Top \in Frames
  BY <1>1, <1>2 DEF Top
<1>4. QED
  BY <1>2, <1>3, Zenon DEF Frames

(* What the virtual machine and the clients do to the key manager is what   *)
(* callers may do.                                                          *)
LEMMA StepIsKMStep ==
  ASSUME TypeOK, [Next]_vars
  PROVE  [KMNext]_kmVars
<1>1. CASE UNCHANGED vars
  BY <1>1, Zenon DEF vars
<1>2. ASSUME NEW cl \in Clients, NEW c \in Contracts, PublicKey(cl, c) PROVE KMNext
  BY <1>2, PartiesAssumption, Zenon DEF PublicKey, KMNext
<1>3. ASSUME NEW cl \in Clients, PublicKeyAnswer(cl) PROVE KMNext
  BY <1>3, PartiesAssumption, Zenon DEF PublicKeyAnswer, KMNext
<1>4. ASSUME NEW t \in Callers, KeyManagerStep(t) PROVE KMNext
  BY <1>4, Zenon DEF KeyManagerStep, KMNext
<1>5. ASSUME NEW cl \in Clients, NEW r \in Requests(cl), Begin(r)
      PROVE  [KMNext]_kmVars
  <2>1. r.callee \in Options(Contracts)
    BY RequestCallee, Zenon
  <2>2. CASE r.callee = None
    BY <1>5, <2>2, Zenon DEF Begin
  <2>3. CASE r.callee # None
    BY <1>5, <2>1, <2>3, OptionContract, PartiesAssumption, Zenon DEF Begin, KMNext
  <2>4. QED
    BY <2>2, <2>3, Zenon
<1>6. CASE Enter \/ Return
  BY <1>6, PartiesAssumption, Zenon DEF Enter, Return, KMNext
<1>7. ASSUME NEW c \in Contracts, CallConfidential(c) PROVE KMNext
  BY <1>7, PartiesAssumption, Zenon DEF CallConfidential, KMNext
<1>8. CASE ReturnToConfidential
  <2>1. The(Top.old) \in Contracts
    BY <1>8, OldIsContract, OptionContract DEF ReturnToConfidential, TypeOK
  <2>2. QED
    BY <1>8, <2>1, PartiesAssumption, Zenon DEF ReturnToConfidential, KMNext
<1>9. ASSUME NEW cell \in Cells, Send(cell) \/ \E v \in Values : Write(cell, v)
      PROVE  UNCHANGED kmVars
  BY <1>9, Zenon DEF Send, Write
<1>10. CASE OpenRequest \/ CallOrdinary \/ ReturnToOrdinary \/ Commit \/ Fail
  BY <1>10, Zenon DEF OpenRequest, CallOrdinary, ReturnToOrdinary, Commit, Fail
<1>11. QED
  BY <1>1, <1>2, <1>3, <1>4, <1>5, <1>6, <1>7, <1>8, <1>9, <1>10, Zenon DEF Next
(* The storage nonce swap_contract gives a contract. *)
StorageNonce(prev, contract) ==
  { NonceNew(<< prev, c.addr >>, 0) : c \in contract }

(* activate changes contract, cipher and storage nonce together and leaves  *)
(* the session alone (confidential_ctx.rs:101-156).                         *)
LEMMA ActivateFields ==
  ASSUME NEW x, IsCtx(x), NEW contract
  PROVE  /\ IsCtx(Activate(x, contract))
         /\ Activate(x, contract).contract = contract
         /\ Activate(x, contract).activated = TRUE
         /\ Activate(x, contract).d2 = { c.key : c \in contract }
         /\ Activate(x, contract).next_storage_nonce =
              StorageNonce(x.prev_block_hash, contract)
         /\ Activate(x, contract).prev_block_hash = x.prev_block_hash
         /\ Activate(x, contract).peer_public_key = x.peer_public_key
         /\ Activate(x, contract).next_nonce = x.next_nonce
<1> DEFINE y == [x EXCEPT !.activated = TRUE]
<1>1. /\ IsCtx(y) /\ y.activated = TRUE /\ y.prev_block_hash = x.prev_block_hash
      /\ y.peer_public_key = x.peer_public_key /\ y.next_nonce = x.next_nonce
  BY Zenon DEF IsCtx, CtxFields
<1>2. Activate(x, contract) = SwapContract(y, contract)
  BY Zenon DEF Activate
<1>3. IsCtx(y)
  BY <1>1, Zenon
<1> HIDE DEF y
<1> DEFINE z == SwapContract(y, contract)
<1>4. /\ IsCtx(z) /\ z.contract = contract /\ z.activated = y.activated
      /\ z.d2 = { c.key : c \in contract }
      /\ z.prev_block_hash = y.prev_block_hash
      /\ z.peer_public_key = y.peer_public_key /\ z.next_nonce = y.next_nonce
  BY <1>3, Zenon DEF SwapContract, IsCtx, CtxFields
<1>5. z.next_storage_nonce = StorageNonce(y.prev_block_hash, contract)
  BY <1>3, Zenon DEF SwapContract, IsCtx, CtxFields, StorageNonce
<1> HIDE DEF z
<1>6. QED
  BY <1>1, <1>2, <1>4, <1>5, Zenon DEF z

(* The contract it activates is the one the context has then. *)
LEMMA ActivatedContract ==
  ASSUME NEW x, IsCtx(x), NEW k
  PROVE  Activate(x, k).contract = k
BY ActivateFields, Zenon

(* A new context is empty. *)
LEMMA NewFields ==
  ASSUME NEW h
  PROVE  /\ IsCtx(CtxNew(h)) /\ CtxNew(h).prev_block_hash = h
         /\ CtxNew(h).contract = None /\ CtxNew(h).next_nonce = None
BY Zenon DEF IsCtx, CtxFields, CtxNew

(* Every contract on the stack is one of Contracts. *)
LEMMA FrameContracts ==
  ASSUME TypeOK, NEW i \in 1 .. Len(stack), NEW c \in stack[i].callee
  PROVE  c \in Contracts
<1>1. stack[i] \in Frames
  BY DEF TypeOK
<1>2. stack[i].callee \in Options(Contracts)
  BY <1>1, Zenon DEF Frames
<1>3. QED
  BY <1>2, Zenon DEF Options, None, Some

(* A step of the key manager beside a virtual machine that stays where it   *)
(* is.                                                                      *)
LEMMA KeyManagerAside ==
  ASSUME CInv, [KMNext]_kmVars, UNCHANGED << height, phase, stack, ctx >>,
         kmPc'[Miner] = "idle" <=> kmPc[Miner] = "idle", wanted'[Miner] = wanted[Miner]
  PROVE  CallChain' /\ ContextMatchesFrame'
<1>1. \A c \in Contracts : keys[c] # 0 => keys'[c] = keys[c]
  BY KeysStay, Zenon DEF CInv
<1>2. \A i \in 1 .. Len(stack) : \A c \in stack[i].callee : c \in Contracts
  BY FrameContracts, Zenon DEF CInv
<1>3. Top' = Top
  BY Zenon DEF Top
<1>4. CallChain'
  BY <1>1, <1>2, <1>3, Zenon DEF CInv, CallChain
<1>5. stack # << >> => Len(stack) \in 1 .. Len(stack)
  BY OldIsContract, Zenon DEF CInv
<1>6. stack # << >> => \A c \in Top.callee : keys'[c] = keys[c]
  BY <1>1, <1>2, <1>5, Zenon DEF CInv, CallChain, Top
<1>7. ContextMatchesFrame'
  BY <1>3, <1>6, Zenon DEF CInv, ContextMatchesFrame, Address, IsEncrypting
<1>8. QED
  BY <1>4, <1>7, Zenon

(* A published key stays the contract's unless it is replaced. *)
LEMMA PublishedAside ==
  ASSUME CInv, [KMNext]_kmVars, UNCHANGED published
  PROVE  PublishedKeyStands'
<1>1. \A c \in Contracts : keys[c] # 0 => keys'[c] = keys[c]
  BY KeysStay, Zenon DEF CInv
<1>2. \A cl \in Clients : \A q \in published[cl] : q.addr \in Contracts
  BY DEF CInv, TypeOK
<1>3. QED
  BY <1>1, <1>2, Zenon DEF CInv, PublishedKeyStands
(* increment leaves the tag and the start value alone and stays in range    *)
(* (nonce.rs:37-72).                                                        *)
LEMMA IncrementType ==
  ASSUME NEW tag, NEW i \in Counters, NEW s \in Counters,
         Increment([tag |-> tag, current |-> i, start |-> s]).ok
  PROVE  /\ NextCounter(i) \in Counters /\ NextCounter(i) # s
         /\ Increment([tag |-> tag, current |-> i, start |-> s]).val =
              [tag |-> tag, current |-> NextCounter(i), start |-> s]
<1>1. NextCounter(i) \in Counters
  BY CounterAssumption DEF NextCounter, Counters
<1>2. NextCounter(i) # s
  BY Zenon DEF Increment, Err
<1>3. QED
  BY <1>1, <1>2, Zenon DEF Increment, Ok

(* What the session operations leave alone. *)
SameContract(x, y) ==
  /\ IsCtx(y) /\ y.contract = x.contract /\ y.activated = x.activated /\ y.d2 = x.d2
  /\ y.prev_block_hash = x.prev_block_hash
  /\ y.next_storage_nonce = x.next_storage_nonce

(* decrypt_session and encrypt_session touch the peer and the next nonce    *)
(* only (confidential_ctx.rs:167-225).                                      *)
LEMMA SessionFields ==
  ASSUME NEW x, IsCtx(x), NEW data
  PROVE  /\ SameContract(x, DecryptSession(x, data).ctx)
         /\ SameContract(x, EncryptSession(x, data).ctx)
<1>1. SameContract(x, x)
  BY Zenon DEF SameContract
<1>2. ASSUME NEW peer PROVE SameContract(x, [x EXCEPT !.peer_public_key = peer])
  BY Zenon DEF SameContract, IsCtx, CtxFields
<1>3. ASSUME NEW peer, NEW nonce
      PROVE  SameContract(x, [[x EXCEPT !.peer_public_key = peer] EXCEPT !.next_nonce = nonce])
  BY Zenon DEF SameContract, IsCtx, CtxFields
<1>4. ASSUME NEW nonce PROVE SameContract(x, [x EXCEPT !.next_nonce = nonce])
  BY Zenon DEF SameContract, IsCtx, CtxFields
<1>5. SameContract(x, DecryptSession(x, data).ctx)
  BY <1>1, <1>2, <1>3, Zenon DEF DecryptSession
<1>6. SameContract(x, EncryptSession(x, data).ctx)
  BY <1>1, <1>4, Zenon DEF EncryptSession
<1>7. QED
  BY <1>5, <1>6, Zenon
-----------------------------------------------------------------------------
(* Each action keeps the types, the call chain and the context.             *)

(* A step that changes neither contract nor frame. *)
LEMMA SameContext ==
  ASSUME CInv, UNCHANGED << kmVars, published, height, stack >>,
         SameContract(ctx, ctx'), phase \in {"opening", "running"},
         phase' \in {"running", "failed", "refused", "panicked"}
  PROVE  TypeOK' /\ CallChain' /\ ContextMatchesFrame'
<1>1. TypeOK'
  BY Zenon DEF CInv, TypeOK, SameContract
<1>2. Top' = Top
  BY Zenon DEF Top
<1>3. CallChain'
  BY <1>2, Zenon DEF CInv, CallChain, kmVars, SameContract
<1>4. ContextMatchesFrame'
  BY <1>2 DEF CInv, ContextMatchesFrame, SameContract, Address, IsEncrypting, kmVars
<1>5. QED
  BY <1>1, <1>3, <1>4, Zenon

(* mine_block starts a transaction with a new context. *)
LEMMA BeginKeeps ==
  ASSUME CInv, NEW cl \in Clients, NEW r \in Requests(cl), Begin(r)
  PROVE  TypeOK' /\ CallChain' /\ ContextMatchesFrame'
<1>1. ctx' = CtxNew(height) /\ IsCtx(ctx') /\ ctx'.contract = None
      /\ ctx'.prev_block_hash = height /\ height' = height
  BY NewFields, Zenon DEF Begin, diskVars
<1>2. Miner \in Callers /\ kmPc[Miner] = "idle"
  BY PartiesAssumption, Zenon DEF CInv, CallChain, Begin
<1>3. [callee |-> None, old |-> None] \in Frames
  BY Zenon DEF Frames, Options
<1>4. CASE r.callee = None
  <2> DEFINE f == [callee |-> None, old |-> None]
  <2>1. stack' = << f >> /\ phase' = "running" /\ UNCHANGED << kmVars, published >>
    BY <1>4, Zenon DEF Begin
  <2>2. stack' \in Seq(Frames) /\ Len(stack') = 1 /\ stack'[1] = f
    BY <1>3, <2>1
  <2>3. f.callee = {} /\ f.old = {}
    BY Zenon DEF None
  <2> HIDE DEF f
  <2>4. TypeOK'
    BY <1>1, <2>1, <2>2, Zenon DEF TypeOK, CInv, Begin
  <2>5. CallChain'
    BY <1>1, <1>2, <2>1, <2>2, <2>3 DEF CallChain, kmVars
  <2>6. ContextMatchesFrame'
    BY <1>1, <2>1, <2>2, <2>3, Zenon DEF ContextMatchesFrame, Top, Address, None
  <2>7. QED
    BY <2>4, <2>5, <2>6, Zenon
<1>5. CASE r.callee # None
  <2>1. stack' = << >> /\ phase' = "entering" /\ Ask(Miner, The(r.callee))
        /\ UNCHANGED published
    BY <1>5, Zenon DEF Begin
  <2>2. kmPc'[Miner] = "lock"
    BY <1>2, <2>1, Zenon DEF Ask, CInv, KMInv, KMTypeOK
  <2>3. TypeOK'
    BY <1>1, <2>1 DEF TypeOK, CInv, Begin
  <2>4. Len(stack') = 0
    BY <2>1, Zenon
  <2>5. CallChain'
    BY <1>1, <2>1, <2>2, <2>4 DEF CallChain
  <2>6. ContextMatchesFrame'
    BY <2>1, Zenon DEF ContextMatchesFrame
  <2>7. QED
    BY <2>3, <2>5, <2>6, Zenon
<1>6. QED
  BY <1>4, <1>5, Zenon

(* The end of a transaction. *)
LEMMA EndKeeps ==
  ASSUME CInv, Commit \/ Fail
  PROVE  TypeOK' /\ CallChain' /\ ContextMatchesFrame'
<1>1. /\ phase' = "free" /\ stack' = << >> /\ UNCHANGED << kmVars, published >>
      /\ ctx' = CtxNew(ctx.prev_block_hash) /\ phase \in {"running", "failed", "refused"}
  BY Zenon DEF Commit, Fail, Deactivate
<1>2. height' \in 0 .. MaxBlock
  BY BoundsAssumption DEF CInv, TypeOK, Commit, Fail
<1>3. TypeOK'
  BY <1>1, <1>2, NewFields DEF CInv, TypeOK
<1>4. kmPc'[Miner] = "idle" /\ Len(stack') = 0
  BY <1>1, Zenon DEF CInv, CallChain, kmVars
<1>5. CallChain'
  BY <1>1, <1>4 DEF CallChain
<1>6. ContextMatchesFrame'
  BY <1>1, Zenon DEF ContextMatchesFrame
<1>7. QED
  BY <1>3, <1>5, <1>6, Zenon
(* A call into a confidential contract, and the return into one, begin with *)
(* a call of the key manager.                                               *)
LEMMA AskKeeps ==
  ASSUME CInv, \/ \E c \in Contracts : CallConfidential(c)
               \/ ReturnToConfidential
  PROVE  TypeOK' /\ CallChain' /\ ContextMatchesFrame'
<1>1. PICK c \in Contracts : Ask(Miner, c) /\ (phase' = "returning" => Top.old = Some(c))
  <2>1. ASSUME ReturnToConfidential
        PROVE  The(Top.old) \in Contracts /\ Top.old = Some(The(Top.old))
    BY <2>1, OldIsContract, OptionContract DEF ReturnToConfidential, CInv, TypeOK
  <2>2. QED
    BY <2>1, Zenon DEF CallConfidential, ReturnToConfidential
<1>2. /\ UNCHANGED << published, height, stack, ctx, keys >> /\ phase = "running"
      /\ phase' \in {"entering", "returning"} /\ (phase' = "returning" => Len(stack) > 1)
  BY <1>1, Zenon DEF CallConfidential, ReturnToConfidential, diskVars, Ask
<1>3. kmPc'[Miner] = "lock" /\ wanted'[Miner] = c
  BY <1>1, PartiesAssumption, Zenon DEF CInv, KMInv, KMTypeOK, Ask
<1>4. Top' = Top /\ stack # << >>
  BY <1>2, Zenon DEF Top, CInv, CallChain
<1>5. TypeOK'
  BY <1>2, Zenon DEF CInv, TypeOK
<1>6. CallChain'
  BY <1>1, <1>2, <1>3, <1>4, Zenon DEF CInv, CallChain
<1>7. ContextMatchesFrame'
  BY <1>2, <1>4, Zenon DEF CInv, ContextMatchesFrame, Address, IsEncrypting
<1>8. QED
  BY <1>5, <1>6, <1>7, Zenon

(* The context after activate, in a frame for the same contract: what       *)
(* ContextMatchesFrame asks for (confidential_ctx.rs:101-156).              *)
LEMMA ActivatedMatches ==
  ASSUME CInv, UNCHANGED << height, keys >>, phase # "free", stack' # << >>,
         NEW contract, ctx' = Activate(ctx, contract),
         \/ contract = None /\ Top'.callee = None
         \/ /\ wanted[Miner] \in Contracts
            /\ contract = Some([addr |-> wanted[Miner], key |-> keys[wanted[Miner]]])
            /\ Top'.callee = Some(wanted[Miner])
  PROVE  ContextMatchesFrame' /\ IsCtx(ctx') /\ ctx'.prev_block_hash = height
<1>1. IsCtx(ctx) /\ ctx.prev_block_hash = height
  BY Zenon DEF CInv, TypeOK, CallChain
<1>2. /\ IsCtx(ctx') /\ ctx'.contract = contract /\ ctx'.activated = TRUE
      /\ ctx'.d2 = { c.key : c \in contract }
      /\ ctx'.next_storage_nonce = StorageNonce(height, contract)
      /\ ctx'.prev_block_hash = height
  <2> DEFINE y == Activate(ctx, contract)
  <2>0. IsCtx(y) /\ y.activated = TRUE
    BY <1>1, ActivateFields, Zenon
  <2>1. y.contract = contract
    BY <1>1, ActivatedContract, Zenon
  <2>2. y.prev_block_hash = height
    BY <1>1, ActivateFields, Zenon
  <2>3. y.d2 = { c.key : c \in contract }
    BY <1>1, ActivateFields, Zenon
  <2>4. y.next_storage_nonce = StorageNonce(height, contract)
    <3>1. y.next_storage_nonce = StorageNonce(ctx.prev_block_hash, contract)
      BY <1>1, ActivateFields, Zenon
    <3>2. QED
      BY <1>1, <3>1, Zenon
  <2>5. ctx' = y
    BY Zenon
  <2> HIDE DEF y
  <2>6. QED
    BY <2>0, <2>1, <2>2, <2>3, <2>4, <2>5, Zenon
<1>3. CASE contract = None /\ Top'.callee = None
  BY <1>2, <1>3, Zenon DEF ContextMatchesFrame, Address, None
<1>4. CASE /\ wanted[Miner] \in Contracts
           /\ contract = Some([addr |-> wanted[Miner], key |-> keys[wanted[Miner]]])
           /\ Top'.callee = Some(wanted[Miner])
  <2> DEFINE w == wanted[Miner]
  <2>1. /\ Address(ctx') = {w} /\ ctx'.d2 = {keys[w]}
        /\ ctx'.next_storage_nonce = {NonceNew(<< height, w >>, 0)}
        /\ ctx'.contract = {[addr |-> w, key |-> keys[w]]}
    BY <1>2, <1>4 DEF Address, Some, StorageNonce
  <2>2. 0 \in Counters
    BY CounterAssumption DEF Counters
  <2>3. Top'.callee = {w}
    BY <1>4, Zenon DEF Some
  <2> HIDE DEF w
  <2>4. IsEncrypting(ctx')
    BY <1>2, <2>1, Zenon DEF IsEncrypting, None
  <2>5. \E n \in Counters : ctx'.next_storage_nonce =
          {[tag |-> << height, w >>, current |-> n, start |-> 0]}
    BY <2>1, <2>2, Zenon DEF NonceNew
  <2>6. \A c \in Top'.callee :
          /\ IsEncrypting(ctx')
          /\ ctx'.contract = Some([addr |-> c, key |-> keys'[c]])
          /\ ctx'.d2 = Some(keys'[c])
          /\ \E n \in Counters : ctx'.next_storage_nonce =
               Some([tag |-> << height', c >>, current |-> n, start |-> 0])
    BY <2>1, <2>3, <2>4, <2>5, Zenon DEF Some
  <2>7. Address(ctx') = Top'.callee
    BY <2>1, <2>3, Zenon
  <2>8. ContextMatchesFrame'
    BY <2>6, <2>7, Zenon DEF ContextMatchesFrame
  <2>9. QED
    BY <1>2, <2>8, Zenon
<1>5. QED
  BY <1>2, <1>3, <1>4, Zenon

(* A call puts a frame on the stack. *)
LEMMA PushStack ==
  ASSUME stack \in Seq(Frames), NEW f \in Frames, stack' = Append(stack, f)
  PROVE  /\ stack' \in Seq(Frames) /\ Len(stack') = Len(stack) + 1 /\ Len(stack) \in Nat
         /\ Top' = f /\ stack' # << >>
         /\ \A i \in 1 .. Len(stack) : stack'[i] = stack[i]
BY DEF Top

(* A return takes the last frame off. *)
LEMMA PopStack ==
  ASSUME stack \in Seq(Frames), Len(stack) > 1, stack' = Pop
  PROVE  /\ stack' \in Seq(Frames) /\ Len(stack') = Len(stack) - 1 /\ Len(stack) \in Nat
         /\ Top' = stack[Len(stack) - 1] /\ stack' # << >>
         /\ \A i \in 1 .. Len(stack) - 1 : stack'[i] = stack[i]
<1> DEFINE n == Len(stack) - 1
<1>1. Len(stack) \in Nat /\ n \in Nat /\ n >= 1 /\ n \in 1 .. n
  OBVIOUS
<1>2. stack' = SubSeq(stack, 1, n)
  BY Zenon DEF Pop
<1>3. \A i \in 1 .. n : stack[i] \in Frames
  BY <1>1
<1> HIDE DEF n
<1>4. Len(stack') = n /\ \A i \in 1 .. n : stack'[i] = stack[i]
  BY <1>1, <1>2
<1>5. stack' \in Seq(Frames)
  BY <1>1, <1>2, <1>3
<1>6. Top' = stack[n] /\ stack' # << >>
  BY <1>1, <1>4 DEF Top
<1>7. QED
  BY <1>1, <1>4, <1>5, <1>6, Zenon DEF n

(* The call chain after a call: the frame names the caller's contract as    *)
(* the one to return to.                                                    *)
LEMMA PushChain ==
  ASSUME CInv, phase \in {"entering", "running"}, NEW f \in Frames, f.old = Address(ctx),
         \A c \in f.callee : keys[c] # 0,
         stack' = Append(stack, f), UNCHANGED keys
  PROVE  /\ \A i \in 2 .. Len(stack') : stack'[i].old = stack'[i - 1].callee
         /\ \A i \in 1 .. Len(stack') : \A c \in stack'[i].callee : keys'[c] # 0
<1>1. stack \in Seq(Frames)
  BY Zenon DEF CInv, TypeOK
<1>2. /\ Len(stack') = Len(stack) + 1 /\ Len(stack) \in Nat /\ stack'[Len(stack) + 1] = f
      /\ \A i \in 1 .. Len(stack) : stack'[i] = stack[i]
  BY <1>1
<1>3. ASSUME NEW i \in 2 .. Len(stack') PROVE stack'[i].old = stack'[i - 1].callee
  <2>1. CASE i \in 2 .. Len(stack)
    BY <1>2, <2>1 DEF CInv, CallChain
  <2>2. CASE i = Len(stack) + 1
    <3>1. stack # << >> /\ i - 1 = Len(stack) /\ i - 1 \in 1 .. Len(stack)
      BY <1>1, <1>2, <2>2
    <3>2. Address(ctx) = stack[i - 1].callee
      BY <3>1, Zenon DEF CInv, ContextMatchesFrame, Top
    <3>3. QED
      BY <1>2, <2>2, <3>1, <3>2, Zenon
  <2>3. QED
    BY <1>2, <2>1, <2>2
<1>4. \A i \in 1 .. Len(stack') : \A c \in stack'[i].callee : keys'[c] # 0
  BY <1>2 DEF CInv, CallChain
<1>5. QED
  BY <1>3, <1>4, Zenon

(* What the miner's key manager call has to answer when it is taken.        *)
LEMMA AnswerIsKey ==
  ASSUME CInv, Take(Miner)
  PROVE  /\ wanted[Miner] \in Contracts /\ keys[wanted[Miner]] # 0 /\ keys' = keys
         /\ Answered = Some([addr |-> wanted[Miner], key |-> keys[wanted[Miner]]])
         /\ kmPc'[Miner] = "idle"
BY PartiesAssumption, Zenon DEF CInv, KMInv, KMTypeOK, Take, Answered

(* The context's contract, while one runs or is entered, is None or one of  *)
(* Contracts.                                                               *)
LEMMA AddressType ==
  ASSUME CInv, phase \in {"entering", "running"}
  PROVE  Address(ctx) \in Options(Contracts)
<1>1. CASE stack = << >>
  BY <1>1, Zenon DEF CInv, CallChain, Address, None, Options
<1>2. CASE stack # << >>
  BY <1>2, OldIsContract, Zenon DEF CInv, ContextMatchesFrame
<1>3. QED
  BY <1>1, <1>2, Zenon

(* A confidential contract is entered with its key. *)
LEMMA EnterKeeps ==
  ASSUME CInv, Enter
  PROVE  TypeOK' /\ CallChain' /\ ContextMatchesFrame'
<1> DEFINE w == wanted[Miner]
           f == [callee |-> Some(w), old |-> Address(ctx)]
<1>1. /\ w \in Contracts /\ keys[w] # 0 /\ keys' = keys /\ kmPc'[Miner] = "idle"
      /\ Answered = Some([addr |-> w, key |-> keys[w]])
  BY AnswerIsKey, Zenon DEF Enter
<1>2. /\ phase = "entering" /\ phase' \in {"opening", "running"}
      /\ height' = height /\ published' = published /\ stack' = Append(stack, f)
      /\ ctx' = Activate(ctx, Some([addr |-> w, key |-> keys[w]]))
  BY <1>1, Zenon DEF Enter, diskVars
<1>3. f \in Frames /\ f.old = Address(ctx) /\ f.callee = Some(w)
  BY <1>1, <1>2, AddressType, Zenon DEF Frames, Options
<1> HIDE DEF w, f
<1>4. stack \in Seq(Frames)
  BY Zenon DEF CInv, TypeOK
<1>5. /\ stack' \in Seq(Frames) /\ Top' = f /\ stack' # << >>
  BY <1>2, <1>3, <1>4, PushStack, Zenon
<1>6. \A c \in f.callee : keys[c] # 0
  BY <1>1, <1>3, Zenon DEF Some
<1>7. ContextMatchesFrame' /\ IsCtx(ctx') /\ ctx'.prev_block_hash = height
  BY <1>1, <1>2, <1>3, <1>5, ActivatedMatches, Zenon DEF w
<1>8. TypeOK'
  BY <1>2, <1>5, <1>7, Zenon DEF CInv, TypeOK
<1>9. /\ \A i \in 2 .. Len(stack') : stack'[i].old = stack'[i - 1].callee
      /\ \A i \in 1 .. Len(stack') : \A c \in stack'[i].callee : keys'[c] # 0
  BY <1>1, <1>2, <1>3, <1>6, PushChain, Zenon
<1>10. CallChain'
  BY <1>1, <1>2, <1>5, <1>7, <1>9, Zenon DEF CallChain
<1>11. QED
  BY <1>7, <1>8, <1>10, Zenon

(* A confidential contract calls an ordinary one. *)
LEMMA CallOrdinaryKeeps ==
  ASSUME CInv, CallOrdinary
  PROVE  TypeOK' /\ CallChain' /\ ContextMatchesFrame'
<1> DEFINE f == [callee |-> None, old |-> Address(ctx)]
<1>1. /\ phase = "running" /\ phase' = phase /\ height' = height
      /\ published' = published /\ UNCHANGED kmVars /\ stack' = Append(stack, f)
      /\ ctx' = Activate(ctx, None) /\ keys' = keys
  BY Zenon DEF CallOrdinary, diskVars, kmVars
<1>2. f \in Frames /\ f.old = Address(ctx) /\ f.callee = None
  BY <1>1, AddressType, Zenon DEF Frames, Options
<1> HIDE DEF f
<1>3. stack \in Seq(Frames)
  BY Zenon DEF CInv, TypeOK
<1>4. /\ stack' \in Seq(Frames) /\ Top' = f /\ stack' # << >>
  BY <1>1, <1>2, <1>3, PushStack, Zenon
<1>5. ContextMatchesFrame' /\ IsCtx(ctx') /\ ctx'.prev_block_hash = height
  BY <1>1, <1>2, <1>4, ActivatedMatches, Zenon
<1>6. TypeOK'
  BY <1>1, <1>4, <1>5, Zenon DEF CInv, TypeOK
<1>7. /\ \A i \in 2 .. Len(stack') : stack'[i].old = stack'[i - 1].callee
      /\ \A i \in 1 .. Len(stack') : \A c \in stack'[i].callee : keys'[c] # 0
  BY <1>1, <1>2, PushChain, Zenon DEF None
<1>8. CallChain'
  BY <1>1, <1>4, <1>5, <1>7, Zenon DEF CallChain, CInv, kmVars
<1>9. QED
  BY <1>5, <1>6, <1>8, Zenon

(* A contract returns to the one that called it. *)
LEMMA ReturnKeeps ==
  ASSUME CInv, ReturnToOrdinary \/ Return
  PROVE  TypeOK' /\ CallChain' /\ ContextMatchesFrame'
<1> DEFINE w == wanted[Miner]
           k == Some([addr |-> w, key |-> keys[w]])
<1>1. /\ phase \in {"running", "returning"} /\ phase' = "running" /\ height' = height
      /\ published' = published /\ stack' = Pop /\ Len(stack) > 1 /\ stack # << >>
  BY Zenon DEF ReturnToOrdinary, Return, diskVars, CInv, CallChain
<1>2. keys' = keys /\ kmPc'[Miner] = "idle"
  BY AnswerIsKey, Zenon DEF ReturnToOrdinary, Return, CInv, CallChain, kmVars
<1>3. stack \in Seq(Frames)
  BY Zenon DEF CInv, TypeOK
<1>4. /\ stack' \in Seq(Frames) /\ Top' = stack[Len(stack) - 1] /\ stack' # << >>
      /\ Len(stack') = Len(stack) - 1 /\ Len(stack) \in Nat
      /\ \A i \in 1 .. Len(stack) - 1 : stack'[i] = stack[i]
  BY <1>1, <1>3, PopStack, Zenon
<1>5. Top'.callee = Top.old
  BY <1>1, <1>4 DEF CInv, CallChain, Top
<1>6. \/ ctx' = Activate(ctx, None) /\ Top'.callee = None
      \/ /\ w \in Contracts /\ ctx' = Activate(ctx, k) /\ Top'.callee = Some(w)
  <2>1. CASE ReturnToOrdinary
    BY <1>5, <2>1, Zenon DEF ReturnToOrdinary
  <2>2. CASE Return
    <3>1. w \in Contracts /\ Answered = k
      BY <2>2, AnswerIsKey, Zenon DEF Return
    <3>2. Top.old = Some(w)
      BY <2>2, Zenon DEF Return, CInv, CallChain
    <3>3. QED
      BY <1>5, <2>2, <3>1, <3>2, Zenon DEF Return
  <2>3. QED
    BY <2>1, <2>2, Zenon
<1>7. ContextMatchesFrame' /\ IsCtx(ctx') /\ ctx'.prev_block_hash = height
  <2>1. CASE ctx' = Activate(ctx, None) /\ Top'.callee = None
    BY <1>1, <1>2, <1>4, <2>1, ActivatedMatches, Zenon
  <2>2. CASE /\ w \in Contracts /\ ctx' = Activate(ctx, k) /\ Top'.callee = Some(w)
    BY <1>1, <1>2, <1>4, <2>2, ActivatedMatches, Zenon
  <2>3. QED
    BY <1>6, <2>1, <2>2, Zenon
<1>8. TypeOK'
  BY <1>1, <1>4, <1>7, Zenon DEF CInv, TypeOK
<1>9. /\ \A i \in 2 .. Len(stack') : stack'[i].old = stack'[i - 1].callee
      /\ \A i \in 1 .. Len(stack') : \A c \in stack'[i].callee : keys'[c] # 0
  <2>1. ASSUME NEW i \in 2 .. Len(stack') PROVE stack'[i].old = stack'[i - 1].callee
    <3>1. i \in 2 .. Len(stack) /\ i \in 1 .. Len(stack) - 1 /\ i - 1 \in 1 .. Len(stack) - 1
      BY <1>4
    <3>2. QED
      BY <1>4, <3>1, Zenon DEF CInv, CallChain
  <2>2. ASSUME NEW i \in 1 .. Len(stack') PROVE \A c \in stack'[i].callee : keys'[c] # 0
    <3>1. i \in 1 .. Len(stack) /\ i \in 1 .. Len(stack) - 1
      BY <1>4
    <3>2. QED
      BY <1>2, <1>4, <3>1, Zenon DEF CInv, CallChain
  <2>3. QED
    BY <2>1, <2>2, Zenon
<1>10. CallChain'
  BY <1>1, <1>2, <1>4, <1>7, <1>9, Zenon DEF CallChain
<1>11. QED
  BY <1>7, <1>8, <1>10, Zenon

(* What a contract stores and sends, and the opening of the request, leave  *)
(* its context in place; only the storage nonce moves, by increment.        *)
LEMMA OpenRequestKeeps ==
  ASSUME CInv, OpenRequest
  PROVE  TypeOK' /\ CallChain' /\ ContextMatchesFrame'
<1>1. IsCtx(ctx)
  BY Zenon DEF CInv, TypeOK
<1>2. SameContract(ctx, ctx')
  BY <1>1, SessionFields, Zenon DEF OpenRequest
<1>3. QED
  BY <1>2, SameContext, Zenon DEF OpenRequest, diskVars

(* A message changes only the nonce of the session.                          *)
LEMMA SendKeeps ==
  ASSUME CInv, NEW cell \in Cells, Send(cell)
  PROVE  TypeOK' /\ CallChain' /\ ContextMatchesFrame'
<1>1. IsCtx(ctx)
  BY Zenon DEF CInv, TypeOK
<1>2. SameContract(ctx, ctx')
  <2>1. SameContract(ctx, ctx)
    BY <1>1, Zenon DEF SameContract
  <2>2. QED
    BY <1>1, <2>1, SessionFields, Zenon DEF Send
<1>3. phase = "running" /\ phase' \in {"running", "failed", "panicked"}
  BY Zenon DEF Send
<1>4. UNCHANGED << kmVars, published, height, stack >>
  BY Zenon DEF Send, diskVars
<1>5. QED
  BY <1>2, <1>3, <1>4, SameContext, Zenon

(* Storing a value changes only the storage nonce.                           *)
LEMMA WriteKeeps ==
  ASSUME CInv, NEW cell \in Cells, NEW v \in Values, Write(cell, v)
  PROVE  TypeOK' /\ CallChain' /\ ContextMatchesFrame'
<1> DEFINE n == Increment(The(ctx.next_storage_nonce))
           y == [ctx EXCEPT !.next_storage_nonce = Some(n.val)]
<1>1. IsCtx(ctx) /\ phase = "running" /\ IsEncrypting(ctx) /\ stack # << >>
  BY Zenon DEF CInv, TypeOK, CallChain, Write
<1>2. UNCHANGED << kmVars, published, height, stack >>
  BY Zenon DEF Write, diskVars
<1>3. \/ n.ok /\ ctx' = y /\ phase' = phase
      \/ ctx' = ctx /\ phase' = "failed"
  BY Zenon DEF Write, EncryptStorageValue, Ok, Err
<1>4. CASE ctx' = ctx /\ phase' = "failed"
  <2>1. SameContract(ctx, ctx')
    BY <1>1, <1>4, Zenon DEF SameContract
  <2>2. QED
    BY <1>1, <1>2, <1>4, <2>1, SameContext, Zenon
<1>5. CASE n.ok /\ ctx' = y /\ phase' = phase
  <2>1. /\ IsCtx(y) /\ y.contract = ctx.contract /\ y.activated = ctx.activated
        /\ y.d2 = ctx.d2 /\ y.prev_block_hash = ctx.prev_block_hash
        /\ y.next_storage_nonce = Some(n.val)
    BY <1>1, Zenon DEF IsCtx, CtxFields
  <2> HIDE DEF y
  <2>2. TypeOK'
    BY <1>1, <1>2, <1>5, <2>1, Zenon DEF CInv, TypeOK
  <2>3. Top' = Top
    BY <1>2, Zenon DEF Top
  <2>4. CallChain'
    BY <1>1, <1>2, <1>5, <2>1, <2>3, Zenon DEF CInv, CallChain, kmVars
  <2>5. ASSUME NEW c \in Top.callee
        PROVE  \E m \in Counters : n.val = [tag |-> << height, c >>, current |-> m, start |-> 0]
    <3>1. PICK m \in Counters : ctx.next_storage_nonce =
            Some([tag |-> << height, c >>, current |-> m, start |-> 0])
      BY <1>1, Zenon DEF CInv, ContextMatchesFrame
    <3>2. The(ctx.next_storage_nonce) = [tag |-> << height, c >>, current |-> m, start |-> 0]
      BY <3>1, TheSome, Zenon
    <3>3. 0 \in Counters
      BY CounterAssumption DEF Counters
    <3> DEFINE x == [tag |-> << height, c >>, current |-> m, start |-> 0]
    <3>4. n = Increment(x) /\ Increment(x).ok
      BY <1>5, <3>2, Zenon
    <3>5. /\ NextCounter(m) \in Counters
          /\ Increment(x).val = [tag |-> << height, c >>, current |-> NextCounter(m), start |-> 0]
      BY <3>3, <3>4, IncrementType, Zenon
    <3>6. QED
      BY <3>4, <3>5, Zenon
  <2> HIDE DEF n
  <2>6. ContextMatchesFrame'
    <3>1. Address(ctx') = Top'.callee
      BY <1>1, <1>5, <2>1, <2>3, Zenon DEF CInv, ContextMatchesFrame, Address
    <3>2. \A c \in Top.callee :
            /\ IsEncrypting(ctx')
            /\ ctx'.contract = Some([addr |-> c, key |-> keys[c]])
            /\ ctx'.d2 = Some(keys[c])
      BY <1>1, <1>5, <2>1, Zenon DEF CInv, ContextMatchesFrame, IsEncrypting
    <3>3. \A c \in Top.callee : \E m \in Counters : ctx'.next_storage_nonce =
            Some([tag |-> << height, c >>, current |-> m, start |-> 0])
      BY <1>5, <2>1, <2>5, Zenon
    <3>4. QED
      BY <1>2, <2>3, <3>1, <3>2, <3>3, Zenon DEF ContextMatchesFrame, kmVars
  <2>7. QED
    BY <2>2, <2>4, <2>6, Zenon
<1>6. QED
  BY <1>3, <1>4, <1>5, Zenon

(* Callers of the key manager do not disturb the transaction. *)
LEMMA ClientKeeps ==
  ASSUME CInv, \/ \E cl \in Clients : \/ \E c \in Contracts : PublicKey(cl, c)
                                      \/ PublicKeyAnswer(cl)
               \/ \E t \in Callers : KeyManagerStep(t)
  PROVE  TypeOK' /\ CallChain' /\ ContextMatchesFrame'
<1>1. UNCHANGED << height, phase, stack, ctx >>
  BY Zenon DEF PublicKey, PublicKeyAnswer, KeyManagerStep, diskVars, txnVars
<1>2. [KMNext]_kmVars
  BY PartiesAssumption, Zenon DEF PublicKey, PublicKeyAnswer, KeyManagerStep, KMNext
<1>3. (kmPc'[Miner] = "idle" <=> kmPc[Miner] = "idle") /\ wanted'[Miner] = wanted[Miner]
  <2> Miner \in Callers /\ Clients \subseteq Callers /\ Miner \notin Clients
    BY PartiesAssumption, Zenon
  <2>0. ASSUME NEW cl \in Clients, NEW c \in Contracts, PublicKey(cl, c)
        PROVE  kmPc'[Miner] = kmPc[Miner] /\ wanted'[Miner] = wanted[Miner]
    BY <2>0 DEF PublicKey, Ask, CInv, KMInv, KMTypeOK
  <2>1. ASSUME NEW cl \in Clients, PublicKeyAnswer(cl)
        PROVE  kmPc'[Miner] = kmPc[Miner] /\ wanted'[Miner] = wanted[Miner]
    BY <2>1, Zenon DEF PublicKeyAnswer, Take, CInv, KMInv, KMTypeOK
  <2>2. ASSUME NEW t \in Callers, KeyManagerStep(t)
        PROVE  /\ kmPc'[Miner] = "idle" <=> kmPc[Miner] = "idle"
               /\ wanted'[Miner] = wanted[Miner]
    <3>1. kmPc \in [Callers -> {"idle", "lock", "create", "answered", "panicked"}]
      BY Zenon DEF CInv, KMInv, KMTypeOK
    <3>2. /\ kmPc[t] # "idle" /\ wanted' = wanted
          /\ \E s \in {"answered", "create", "panicked"} : kmPc' = [kmPc EXCEPT ![t] = s]
      BY <2>2, Zenon DEF KeyManagerStep, KMStep, Lookup, Create, RngFails
    <3>3. QED
      BY <3>1, <3>2, PartiesAssumption, Zenon
  <2>3. QED
    BY <2>0, <2>1, <2>2, Zenon
<1>4. published' \in [Clients -> SUBSET [addr : Contracts, key : Nat]]
  <2>1. ASSUME NEW cl \in Clients, PublicKeyAnswer(cl)
        PROVE  published' \in [Clients -> SUBSET [addr : Contracts, key : Nat]]
    <3>1. wanted[cl] \in Contracts /\ got[cl] \in Nat
      BY <2>1, PartiesAssumption DEF PublicKeyAnswer, Take, CInv, KMInv, KMTypeOK
    <3>2. QED
      BY <2>1, <3>1 DEF PublicKeyAnswer, CInv, TypeOK, Some
  <2>2. QED
    BY <2>1, Zenon DEF PublicKey, KeyManagerStep, CInv, TypeOK
<1>5. TypeOK'
  BY <1>1, <1>4, Zenon DEF CInv, TypeOK
<1>6. QED
  BY <1>1, <1>2, <1>3, <1>5, KeyManagerAside, Zenon

(* A client is told the key the contract has. *)
LEMMA PublishedKeeps ==
  ASSUME CInv, [Next]_vars
  PROVE  PublishedKeyStands'
<1>1. [KMNext]_kmVars
  BY StepIsKMStep, Zenon DEF CInv
<1>2. CASE UNCHANGED published
  BY <1>1, <1>2, PublishedAside, Zenon
<1>3. ASSUME NEW cl \in Clients, PublicKeyAnswer(cl) PROVE PublishedKeyStands'
  <2>1. got[cl] # 0 /\ got[cl] = keys[wanted[cl]] /\ keys' = keys
    BY <1>3, PartiesAssumption, Zenon DEF PublicKeyAnswer, Take, CInv, KMInv
  <2>2. published' = [published EXCEPT ![cl] = {[addr |-> wanted[cl], key |-> got[cl]]}]
    BY <1>3, Zenon DEF PublicKeyAnswer, Some
  <2>3. \A d \in Clients : \A q \in published'[d] : q.key # 0 /\ keys[q.addr] = q.key
    BY <2>1, <2>2 DEF CInv, TypeOK, PublishedKeyStands
  <2>4. QED
    BY <2>1, <2>3, Zenon DEF PublishedKeyStands
<1>4. UNCHANGED published \/ \E cl \in Clients : PublicKeyAnswer(cl)
  BY Zenon DEF Next, vars, PublicKey, KeyManagerStep, Begin, Enter, OpenRequest, CallConfidential,
     CallOrdinary, ReturnToOrdinary, ReturnToConfidential, Return, Send, Write, Commit, Fail
<1>5. QED
  BY <1>2, <1>3, <1>4, Zenon

(* A step that changes nothing keeps everything. *)
LEMMA StutterKeeps ==
  ASSUME CInv, UNCHANGED vars
  PROVE  TypeOK' /\ CallChain' /\ ContextMatchesFrame'
<1>1. TypeOK'
  BY Zenon DEF CInv, TypeOK, vars
<1>2. Top' = Top
  BY Zenon DEF Top, vars
<1>3. CallChain'
  BY <1>2, Zenon DEF CInv, CallChain, vars, kmVars
<1>4. ContextMatchesFrame'
  BY <1>2, Zenon DEF CInv, ContextMatchesFrame, Address, IsEncrypting, vars, kmVars
<1>5. QED
  BY <1>1, <1>3, <1>4, Zenon

(* Every step keeps the inductive invariant. *)
LEMMA StepKeepsCInv ==
  ASSUME CInv, [Next]_vars
  PROVE  CInv'
<1>1. KMInv'
  BY StepIsKMStep, KMStepKeepsKMInv, Zenon DEF CInv
<1>2. PublishedKeyStands'
  BY PublishedKeeps, Zenon
<1>3. TypeOK' /\ CallChain' /\ ContextMatchesFrame'
  BY BeginKeeps, EndKeeps, AskKeeps, EnterKeeps, CallOrdinaryKeeps, ReturnKeeps,
     OpenRequestKeeps, SendKeeps, WriteKeeps, ClientKeeps, StutterKeeps, Zenon DEF Next
<1>4. QED
  BY <1>1, <1>2, <1>3, Zenon DEF CInv

(* The inductive invariant holds in a new chain. *)
LEMMA InitCInv == Init => CInv
<1> SUFFICES ASSUME Init PROVE CInv
  BY Zenon
<1>1. KMInv
  BY InitKMInv, Zenon DEF Init
<1>2. /\ IsCtx(ctx) /\ height \in 0 .. MaxBlock /\ phase = "free" /\ stack = << >>
      /\ published = [cl \in Clients |-> None]
  BY NewFields, BoundsAssumption DEF Init
<1>3. TypeOK
  BY <1>2 DEF TypeOK, None
<1>4. kmPc[Miner] = "idle" /\ Len(stack) = 0
  BY <1>2, PartiesAssumption, Zenon DEF Init, KMInit
<1>5. CallChain
  BY <1>2, <1>4 DEF CallChain
<1>6. ContextMatchesFrame /\ PublishedKeyStands
  BY <1>2, Zenon DEF ContextMatchesFrame, PublishedKeyStands, None
<1>7. QED
  BY <1>1, <1>3, <1>5, <1>6, Zenon DEF CInv

(* For any contracts, callers, depth of calls and size of the counter, the  *)
(* invariant of the context holds in every reachable state; its conjunct    *)
(* CallChain says that the calls can be unwound to the transaction          *)
(* (confidential_ctx.rs:101-156).                                           *)
THEOREM ContextInductive == Spec => []CInv
<1>1. CInv /\ [Next]_vars => CInv'
  BY StepKeepsCInv, Zenon
<1>2. QED
  BY <1>1, InitCInv, PTL DEF Spec

(* Types of the context, of the calls and of what is stored and sent        *)
(* (struct ConfidentialCtx, confidential_ctx.rs:21-49).                     *)
THEOREM ContextTyped == Spec => []TypeOK
<1>1. CInv => TypeOK
  BY Zenon DEF CInv
<1>2. QED
  BY <1>1, ContextInductive, PTL

(* The context is that of the contract that runs, however deep the calls    *)
(* (confidential_ctx.rs:101-156).                                           *)
THEOREM ContextIsRight == Spec => []ContextMatchesFrame
<1>1. CInv => ContextMatchesFrame
  BY Zenon DEF CInv
<1>2. QED
  BY <1>1, ContextInductive, PTL

(* A key that was handed out as a contract's stays the contract's           *)
(* (client.rs:24-42).                                                       *)
THEOREM PublishedKeyStandsAlways == Spec => []PublishedKeyStands
<1>1. CInv => PublishedKeyStands
  BY Zenon DEF CInv
<1>2. QED
  BY <1>1, ContextInductive, PTL

-----------------------------------------------------------------------------
(* The layout of a payload and the encrypted storage. *)

(* The parts of a concatenation. *)
Joins(both, left, right) ==
  /\ Len(both) = Len(left) + Len(right) /\ Len(left) \in Nat /\ Len(right) \in Nat
  /\ \A i \in 1 .. Len(left) : both[i] = left[i]
  /\ \A i \in 1 .. Len(right) : both[Len(left) + i] = right[i]

(* Both parts of a concatenation are where they should be.                  *)
LEMMA Joined ==
  ASSUME NEW V, NEW left \in Seq(V), NEW right \in Seq(V)
  PROVE  left \o right \in Seq(V) /\ Joins(left \o right, left, right)
BY DEF Joins

(* The fields of a payload: public key, lengths, ciphertext, additional     *)
(* data and nonce.                                                          *)
Fields(data, cipher, nonce, public, aad) ==
  /\ Len(cipher) \in Nat /\ Len(aad) \in Nat
  /\ Len(data) = 4 + Len(cipher) + Len(aad)
  /\ data[1] = public /\ data[2] = Len(cipher) /\ data[3] = Len(aad)
  /\ data[Len(data)] = Wire(nonce)
  /\ \A i \in 1 .. Len(cipher) : data[3 + i] = cipher[i]
  /\ \A i \in 1 .. Len(aad) : data[3 + Len(cipher) + i] = aad[i]

(* Where the parts are when h is the three leading fields. *)
LEMMA Layout ==
  ASSUME NEW h, NEW c, NEW a, NEW w, NEW hc, NEW hca, NEW d,
         Joins(hc, h, c), Joins(hca, hc, a), Joins(d, hca, w), NEW n, NEW k,
         Len(h) = 3, h[1] = k, h[2] = Len(c), h[3] = Len(a), Len(w) = 1, w[1] = Wire(n)
  PROVE  Fields(d, c, n, k, a)
<1>1. /\ Len(c) \in Nat /\ Len(a) \in Nat /\ Len(hc) = 3 + Len(c)
      /\ Len(hca) = 3 + Len(c) + Len(a) /\ Len(d) = 4 + Len(c) + Len(a)
  BY DEF Joins
<1>2. d[Len(d)] = w[1]
  BY <1>1 DEF Joins
<1>3. \A i \in 1 .. 3 + Len(c) : d[i] = hc[i]
  BY <1>1 DEF Joins
<1>4. d[1] = h[1] /\ d[2] = h[2] /\ d[3] = h[3]
  BY <1>1, <1>3 DEF Joins
<1>5. \A i \in 1 .. Len(c) : d[3 + i] = c[i]
  BY <1>1, <1>3 DEF Joins
<1>6. ASSUME NEW i \in 1 .. Len(a) PROVE d[3 + Len(c) + i] = a[i]
  <2>1. 3 + Len(c) + i \in 1 .. Len(hca) /\ 3 + Len(c) + i = Len(hc) + i
    BY <1>1
  <2>2. QED
    BY <2>1 DEF Joins
<1>7. QED
  BY <1>1, <1>2, <1>4, <1>5, <1>6, Zenon DEF Fields

(* encode_encryption puts every field where split_encrypted_payload looks   *)
(* for it (crypto.rs:88-158).                                               *)
LEMMA EncodedFields ==
  ASSUME NEW S, NEW cipher \in Seq(S), NEW aad \in Seq(S), NEW nonce, NEW public
  PROVE  /\ Fields(EncodeEncryption(cipher, nonce, public, aad), cipher, nonce, public, aad)
         /\ \E U : EncodeEncryption(cipher, nonce, public, aad) \in Seq(U)
<1> DEFINE h == << public, Len(cipher), Len(aad) >>
           w == << Wire(nonce) >>
           U == S \cup {public, Len(cipher), Len(aad), Wire(nonce)}
<1>1. h \in Seq(U) /\ cipher \in Seq(U) /\ aad \in Seq(U) /\ w \in Seq(U)
  OBVIOUS
<1>2. /\ Len(h) = 3 /\ h[1] = public /\ h[2] = Len(cipher) /\ h[3] = Len(aad)
      /\ Len(w) = 1 /\ w[1] = Wire(nonce)
  BY Zenon
<1>3. EncodeEncryption(cipher, nonce, public, aad) = h \o cipher \o aad \o w
  BY Zenon DEF EncodeEncryption
<1> HIDE DEF h, w, U
<1>4. h \o cipher \in Seq(U) /\ Joins(h \o cipher, h, cipher)
  BY <1>1, Joined, Zenon
<1>5. h \o cipher \o aad \in Seq(U) /\ Joins(h \o cipher \o aad, h \o cipher, aad)
  BY <1>1, <1>4, Joined, Zenon
<1>6. /\ h \o cipher \o aad \o w \in Seq(U)
      /\ Joins(h \o cipher \o aad \o w, h \o cipher \o aad, w)
  BY <1>1, <1>5, Joined, Zenon
<1>7. Fields(h \o cipher \o aad \o w, cipher, nonce, public, aad)
  BY <1>2, <1>4, <1>5, <1>6, Layout, Zenon
<1>8. QED
  BY <1>3, <1>6, <1>7, Zenon


(* A part of a sequence. *)
LEMMA PartOf ==
  ASSUME NEW S, NEW d, NEW a \in Int, NEW b \in Int, \A i \in a .. b : d[i] \in S
  PROVE  /\ SubSeq(d, a, b) \in Seq(S)
         /\ Len(SubSeq(d, a, b)) = IF a <= b THEN b - a + 1 ELSE 0
         /\ \A i \in 1 .. b - a + 1 : SubSeq(d, a, b)[i] = d[a + i - 1]
OBVIOUS

(* A sequence is read back from where it was put. *)
LEMMA ReadBackPart ==
  ASSUME NEW S, NEW part \in Seq(S), NEW d, NEW m \in Nat,
         \A i \in 1 .. Len(part) : d[m + i] = part[i]
  PROVE  SubSeq(d, m + 1, m + Len(part)) = part
<1> DEFINE n == m + Len(part)
           s == SubSeq(d, m + 1, n)
<1>1. Len(part) \in Nat /\ m + 1 \in Int /\ n \in Int
  OBVIOUS
<1>2. ASSUME NEW j \in m + 1 .. n PROVE d[j] \in S
  <2>1. j - m \in 1 .. Len(part) /\ m + (j - m) = j
    BY <1>1
  <2>2. part[j - m] \in S
    BY <2>1
  <2>3. QED
    BY <2>1, <2>2, Zenon
<1>3. /\ s \in Seq(S) /\ Len(s) = IF m + 1 <= n THEN n - (m + 1) + 1 ELSE 0
      /\ \A i \in 1 .. n - (m + 1) + 1 : s[i] = d[m + 1 + i - 1]
  BY <1>1, <1>2, PartOf
<1>4. Len(s) = Len(part)
  BY <1>1, <1>3
<1>5. ASSUME NEW i \in 1 .. Len(s) PROVE s[i] = part[i]
  <2>1. i \in 1 .. n - (m + 1) + 1 /\ i \in 1 .. Len(part) /\ m + 1 + i - 1 = m + i
    BY <1>1, <1>4
  <2>2. QED
    BY <1>3, <2>1, Zenon
<1> HIDE DEF s
<1>6. s = part
  BY <1>3, <1>4, <1>5
<1>7. QED
  BY <1>6, Zenon DEF s

(* split_encrypted_payload finds the fields of a whole payload. *)
LEMMA SplitWhole ==
  ASSUME NEW S, NEW cipher \in Seq(S), NEW aad \in Seq(S), NEW nonce, NEW public,
         NEW data, Fields(data, cipher, nonce, public, aad)
  PROVE  SplitEncryptedPayload(data) =
           Ok([peer |-> public, cipher |-> cipher, aad |-> aad, nonce |-> Wire(nonce)])
<1>1. /\ Len(cipher) \in Nat /\ Len(aad) \in Nat
      /\ ~ (Len(data) < Headers \/ Len(data) # Headers + data[2] + data[3])
  BY DEF Fields, Headers
<1>2. SubSeq(data, 4, 3 + data[2]) = cipher
  <2>1. SubSeq(data, 3 + 1, 3 + Len(cipher)) = cipher
    BY ReadBackPart DEF Fields
  <2>2. QED
    BY <2>1 DEF Fields
<1>3. SubSeq(data, 4 + data[2], 3 + data[2] + data[3]) = aad
  <2>1. 3 + Len(cipher) \in Nat
    BY <1>1
  <2>2. \A i \in 1 .. Len(aad) : data[(3 + Len(cipher)) + i] = aad[i]
    BY Zenon DEF Fields
  <2>3. SubSeq(data, (3 + Len(cipher)) + 1, (3 + Len(cipher)) + Len(aad)) = aad
    BY <2>1, <2>2, ReadBackPart, Zenon
  <2>4. /\ 4 + data[2] = (3 + Len(cipher)) + 1
        /\ 3 + data[2] + data[3] = (3 + Len(cipher)) + Len(aad)
    BY <1>1 DEF Fields
  <2>5. QED
    BY <2>3, <2>4, Zenon
<1>4. data[1] = public /\ data[Len(data)] = Wire(nonce)
  BY Zenon DEF Fields
<1>5. QED
  BY <1>1, <1>2, <1>3, <1>4, Zenon DEF SplitEncryptedPayload

(* A payload of which a part is missing is refused. *)
LEMMA SplitCut ==
  ASSUME NEW S, NEW cipher \in Seq(S), NEW aad \in Seq(S), NEW nonce, NEW public,
         NEW data, Fields(data, cipher, nonce, public, aad), Len(cipher) >= 1,
         NEW U, data \in Seq(U), NEW n \in {0, Len(data) - 1}
  PROVE  SplitEncryptedPayload(SubSeq(data, 1, n)) = Err
<1>1. /\ Len(cipher) \in Nat /\ Len(aad) \in Nat /\ Len(data) = 4 + Len(cipher) + Len(aad)
      /\ data[2] = Len(cipher) /\ data[3] = Len(aad)
  BY Zenon DEF Fields
<1>2. n \in Nat /\ n <= Len(data)
  BY <1>1
<1>3. /\ Len(SubSeq(data, 1, n)) = n
      /\ n >= 3 => SubSeq(data, 1, n)[2] = data[2] /\ SubSeq(data, 1, n)[3] = data[3]
  BY <1>2
<1>4. QED
  BY <1>1, <1>3 DEF SplitEncryptedPayload, Headers

(* A ciphertext has one unit more than its plaintext, and tells it. *)
LEMMA Sealed ==
  ASSUME NEW P, NEW plain \in Seq(P), NEW key, NEW nonce, NEW aad
  PROVE  /\ \E S : Seal(key, nonce, plain, aad) \in Seq(S)
         /\ Len(Seal(key, nonce, plain, aad)) = Len(plain) + 1 /\ Len(plain) \in Nat
         /\ Seal(key, nonce, plain, aad) # << >>
         /\ Seal(key, nonce, plain, aad)[1].plain = plain
<1> DEFINE u(i) == [key |-> key, nonce |-> nonce, plain |-> plain, aad |-> aad, at |-> i]
           n == Len(plain) + 1
           S == { u(i) : i \in 1 .. n }
           s == [i \in 1 .. n |-> u(i)]
<1>1. Seal(key, nonce, plain, aad) = s
  BY Zenon DEF Seal
<1>2. n \in Nat /\ 1 \in 1 .. n /\ Len(plain) \in Nat
  OBVIOUS
<1>3. u(1).plain = plain
  BY Zenon
<1>4. \A i \in 1 .. n : u(i) \in S
  BY Zenon
<1> HIDE DEF n, u, S
<1>5. s \in Seq(S) /\ Len(s) = n /\ s # << >> /\ s[1] = u(1)
  BY <1>2, <1>4
<1>6. QED
  BY <1>1, <1>2, <1>3, <1>5, Zenon DEF n


(* Open takes apart what Seal made with the same key, nonce and additional  *)
(* data.                                                                    *)
LEMMA OpenSealed ==
  ASSUME NEW P, NEW plain \in Seq(P), NEW key, NEW nonce, NEW aad
  PROVE  Open(key, nonce, Seal(key, nonce, plain, aad), aad) = Ok(plain)
BY Sealed DEF Open

(* The payload encrypt makes. *)
LEMMA EncryptedFields ==
  ASSUME NEW P, NEW plain \in Seq(P), NEW Q, NEW extra \in Seq(Q),
         NEW number, NEW peer, NEW owner, NEW private
  PROVE  LET payload == Encrypt(plain, number, peer, owner, private, extra)
             cipher  == BoxSeal(Wire(number), plain, extra, peer, private)
         IN  /\ Fields(payload, cipher, number, owner, extra)
             /\ \E U : payload \in Seq(U)
             /\ \E S : cipher \in Seq(S) /\ extra \in Seq(S)
             /\ Len(cipher) >= 1
<1> DEFINE c == BoxSeal(Wire(number), plain, extra, peer, private)
<1>1. /\ \E T : c \in Seq(T)
      /\ Len(c) = Len(plain) + 1 /\ Len(plain) \in Nat
  BY Sealed DEF BoxSeal
<1>2. PICK T : c \in Seq(T)
  BY <1>1, Zenon
<1> DEFINE S == T \cup Q
<1>3. c \in Seq(S) /\ extra \in Seq(S)
  BY <1>2
<1>4. Encrypt(plain, number, peer, owner, private, extra) =
        EncodeEncryption(c, number, owner, extra)
  BY Zenon DEF Encrypt
<1> HIDE DEF c, S
<1>5. /\ Fields(EncodeEncryption(c, number, owner, extra), c, number, owner, extra)
      /\ \E U : EncodeEncryption(c, number, owner, extra) \in Seq(U)
  BY <1>3, EncodedFields, Zenon
<1>6. Len(c) >= 1
  BY <1>1
<1>7. QED
  BY <1>3, <1>4, <1>5, <1>6, Zenon DEF c

(* A payload that does not split is refused (decrypt, crypto.rs). *)
LEMMA CutRefused ==
  ASSUME NEW p, NEW private, SplitEncryptedPayload(p) = Err
  PROVE  ~ Decrypt(p, private).ok
<1>1. ~ SplitEncryptedPayload(p).ok
  BY DEF Err
<1>2. Decrypt(p, private) = Err
  BY <1>1, Zenon DEF Decrypt
<1>3. QED
  BY <1>2 DEF Err

(* What encrypt makes, decrypt opens at the other end: the plaintext, who   *)
(* sent it and the nonce, for data of any length (crypto.rs:30-75).         *)
THEOREM RoundTrip ==
  ASSUME NEW P, NEW plain \in Seq(P), NEW Q, NEW extra \in Seq(Q),
         NEW number, NEW peer, NEW owner
  PROVE  Decrypt(Encrypt(plain, number, peer, owner, owner, extra), peer) =
           Ok([plain |-> plain, peer |-> owner, aad |-> extra,
               nonce |-> NonceNew(number.tag, number.current)])
<1> DEFINE payload == Encrypt(plain, number, peer, owner, owner, extra)
           c == BoxSeal(Wire(number), plain, extra, peer, owner)
           p == [peer |-> owner, cipher |-> c, aad |-> extra, nonce |-> Wire(number)]
<1>1. /\ Fields(payload, c, number, owner, extra)
      /\ \E S : c \in Seq(S) /\ extra \in Seq(S)
  BY EncryptedFields, Zenon
<1>2. SplitEncryptedPayload(payload) = Ok(p)
  <2> HIDE DEF payload, c
  <2>1. PICK S : c \in Seq(S) /\ extra \in Seq(S)
    BY <1>1, Zenon
  <2>2. QED
    BY <1>1, <2>1, SplitWhole, Zenon
<1>3. BoxOpen(p.nonce, p.cipher, p.aad, p.peer, peer) = Ok(plain)
  <2>1. DeriveSymmetricKey(owner, peer) = DeriveSymmetricKey(peer, owner)
    BY Zenon DEF DeriveSymmetricKey
  <2> DEFINE k == DeriveSymmetricKey(peer, owner)
  <2>2. BoxOpen(p.nonce, p.cipher, p.aad, p.peer, peer) =
          Open(k, Wire(number), Seal(k, Wire(number), plain, extra), extra)
    BY <2>1, Zenon DEF BoxOpen, BoxSeal
  <2>3. QED
    BY <2>2, OpenSealed, Zenon
<1>4. p.nonce[1] = number.tag /\ p.nonce[2] = number.current /\ p.peer = owner
      /\ p.aad = extra
  BY Zenon DEF Wire
<1> HIDE DEF payload, p
<1>5. Decrypt(payload, peer) =
        Ok([plain |-> plain, peer |-> p.peer, aad |-> p.aad,
            nonce |-> NonceNew(p.nonce[1], p.nonce[2])])
  <2>1. SplitEncryptedPayload(payload).ok /\ SplitEncryptedPayload(payload).val = p
    BY <1>2 DEF Ok
  <2>2. /\ BoxOpen(p.nonce, p.cipher, p.aad, p.peer, peer).ok
        /\ BoxOpen(p.nonce, p.cipher, p.aad, p.peer, peer).val = plain
    BY <1>3 DEF Ok
  <2>3. QED
    BY <2>1, <2>2, Zenon DEF Decrypt
<1>6. QED
  BY <1>4, <1>5, Zenon DEF payload

-----------------------------------------------------------------------------
(* Encrypted storage. *)

(* Where a contract keeps a cell, and what it keeps there. *)
Location(key, cell) == Seal(key, << "zero", 0 >>, << cell >>, << >>)

Kept(key, cell, w, v) == Seal(key, w, << v >>, << cell >>) \o << w >>

(* The ciphertexts of disk are those of the values content. *)
Stored(ks, disk, content) ==
  /\ DOMAIN disk = Contracts /\ content \in [Contracts -> [Cells -> Values \cup {Unset}]]
  /\ \A c \in Contracts :
       /\ ks[c] = 0 => DOMAIN disk[c] = {}
       /\ \A cell \in Cells :
            /\ Location(ks[c], cell) \notin DOMAIN disk[c] => content[c][cell] = Unset
            /\ Location(ks[c], cell) \in DOMAIN disk[c] =>
                 \E w : disk[c][Location(ks[c], cell)] = Kept(ks[c], cell, w, content[c][cell])

StInv ==
  Stored(keys, store, written) /\ Stored(keys, committed, kept) /\ phase # "panicked"

(* A cell is at one location, and another cell at another. *)
LEMMA LocationsDiffer ==
  ASSUME NEW k, NEW k1, NEW k2, Location(k, k1) = Location(k, k2)
  PROVE  k1 = k2
<1> DEFINE p1 == << k1 >>
           p2 == << k2 >>
<1>1. p1 \in Seq({k1}) /\ p2 \in Seq({k2})
  OBVIOUS
<1>2. Seal(k, << "zero", 0 >>, p1, << >>) = Seal(k, << "zero", 0 >>, p2, << >>)
  BY Zenon DEF Location
<1> HIDE DEF p1, p2
<1>3. p1 = p2
  BY <1>1, <1>2, Sealed
<1>4. p1[1] = p2[1]
  BY <1>3, Zenon
<1>5. QED
  BY <1>4, Zenon DEF p1, p2

(* The length of a ciphertext. *)
LEMMA SealedLength ==
  ASSUME NEW P, NEW text \in Seq(P), NEW k, NEW n, NEW e
  PROVE  Len(Seal(k, n, text, e)) = Len(text) + 1
BY Sealed

(* What encrypt_storage_value made, decrypt_storage_value opens             *)
(* (confidential_ctx.rs:237-279).                                           *)
LEMMA KeptOpens ==
  ASSUME NEW x, NEW k, x.d2 = Some(k), NEW cell, NEW w, NEW v
  PROVE  DecryptStorageValue(x, cell, Kept(k, cell, w, v)) = Ok(<< v >>)
<1> DEFINE p == << v >>
           a == << cell >>
           s == Seal(k, w, p, a)
           t == << w >>
           d == s \o t
<1>1. p \in Seq({v}) /\ Len(p) = 1
  OBVIOUS
<1> HIDE DEF p, a
<1>2. \E S : s \in Seq(S)
  BY <1>1, Sealed, Zenon
<1>3. Len(s) = 2
  <2>1. Len(s) = Len(p) + 1
    BY <1>1, SealedLength, Zenon
  <2>2. QED
    BY <1>1, <2>1
<1> HIDE DEF s
<1>3a. PICK S : s \in Seq(S)
  BY <1>2, Zenon
<1> DEFINE U == S \cup {w}
<1>4. s \in Seq(U) /\ t \in Seq(U) /\ Len(t) = 1 /\ t[1] = w
  BY <1>3a
<1> HIDE DEF U, t
<1>5. d \in Seq(U) /\ Joins(d, s, t)
  BY <1>4, Joined, Zenon
<1> HIDE DEF d
<1>6. Len(d) = 3 /\ d[3] = w /\ \A i \in 1 .. 2 : d[0 + i] = s[i]
  BY <1>3, <1>4, <1>5 DEF Joins
<1>7. SubSeq(d, 1, 2) = s
  <2>1. SubSeq(d, 0 + 1, 0 + Len(s)) = s
    BY <1>3, <1>4, <1>6, ReadBackPart
  <2>2. QED
    BY <1>3, <2>1
<1>8. The(x.d2) = k
  BY TheSome, Zenon
<1>9. DecryptStorageValue(x, cell, d) = Open(k, w, s, a)
  <2>1. ~ (Len(d) < 2) /\ d[Len(d)] = w /\ Len(d) - 1 = 2
    BY <1>6
  <2>2. DecryptStorageValue(x, cell, d) =
          Open(The(x.d2), d[Len(d)], SubSeq(d, 1, Len(d) - 1), << cell >>)
    BY <2>1, Zenon DEF DecryptStorageValue
  <2>3. QED
    BY <1>7, <1>8, <2>1, <2>2, Zenon DEF a
<1>10. Open(k, w, s, a) = Ok(p)
  BY <1>1, OpenSealed, Zenon DEF s
<1>11. d = Kept(k, cell, w, v)
  BY Zenon DEF Kept, d, s, t, p, a
<1>12. QED
  BY <1>9, <1>10, <1>11, Zenon DEF p

(* The contract that runs. *)
LEMMA Running ==
  ASSUME CInv, phase = "running", IsEncrypting(ctx)
  PROVE  \E c \in Contracts : /\ Address(ctx) = Some(c) /\ The(Address(ctx)) = c
                              /\ ctx.d2 = Some(keys[c]) /\ The(ctx.d2) = keys[c]
                              /\ keys[c] # 0
                              /\ ctx.contract = Some([addr |-> c, key |-> keys[c]])
<1>1. stack # << >> /\ Len(stack) \in 1 .. Len(stack)
  BY OldIsContract, Zenon DEF CInv, CallChain
<1>2. Top.callee \in Options(Contracts) /\ Address(ctx) = Top.callee
  BY <1>1, OldIsContract, Zenon DEF CInv, ContextMatchesFrame
<1>3. Top.callee # None
  BY <1>2, Zenon DEF IsEncrypting, Address, None
<1>4. PICK c \in Contracts : Top.callee = Some(c)
  BY <1>2, <1>3, Zenon DEF Options
<1>5. c \in Top.callee
  BY <1>4, Zenon DEF Some
<1>6. ctx.d2 = Some(keys[c]) /\ ctx.contract = Some([addr |-> c, key |-> keys[c]])
  BY <1>1, <1>5, Zenon DEF CInv, ContextMatchesFrame
<1>7. keys[c] # 0
  BY <1>1, <1>5, Zenon DEF CInv, CallChain, Top
<1>8. QED
  BY <1>2, <1>4, <1>6, <1>7, TheSome, Zenon

(* A read gives the value written last. *)
LEMMA FetchReads ==
  ASSUME CInv, Stored(keys, store, written), phase = "running", IsEncrypting(ctx),
         NEW cell \in Cells
  PROVE  Fetch(ctx, cell) = Ok(<< written[The(Address(ctx))][cell] >>)
<1>1. PICK c \in Contracts : /\ The(Address(ctx)) = c /\ ctx.d2 = Some(keys[c])
                             /\ The(ctx.d2) = keys[c]
  BY Running, Zenon
<1>2. EncryptStorageKey(ctx, cell) = Location(keys[c], cell)
  BY <1>1, Zenon DEF EncryptStorageKey, Location
<1>3. Fetch(ctx, cell) =
        IF Location(keys[c], cell) \in DOMAIN store[c]
        THEN DecryptStorageValue(ctx, cell, store[c][Location(keys[c], cell)])
        ELSE Ok(<< Unset >>)
  BY <1>1, <1>2, Zenon DEF Fetch
<1>4. CASE Location(keys[c], cell) \notin DOMAIN store[c]
  BY <1>1, <1>3, <1>4, Zenon DEF Stored
<1>5. CASE Location(keys[c], cell) \in DOMAIN store[c]
  <2>1. PICK w : store[c][Location(keys[c], cell)] = Kept(keys[c], cell, w, written[c][cell])
    BY <1>5, Zenon DEF Stored
  <2>2. DecryptStorageValue(ctx, cell, Kept(keys[c], cell, w, written[c][cell])) =
          Ok(<< written[c][cell] >>)
    BY <1>1, KeptOpens
  <2>3. QED
    BY <1>1, <1>3, <1>5, <2>1, <2>2, Zenon
<1>6. QED
  BY <1>4, <1>5, Zenon

(* Keys that are added change nothing of what is stored. *)
LEMMA StoredStays ==
  ASSUME NEW ks, NEW kt, \A c \in Contracts : ks[c] # 0 => kt[c] = ks[c],
         NEW disk, NEW content, Stored(ks, disk, content)
  PROVE  Stored(kt, disk, content)
<1>1. ASSUME NEW c \in Contracts
      PROVE  /\ kt[c] = 0 => DOMAIN disk[c] = {}
             /\ \A cell \in Cells :
                  /\ Location(kt[c], cell) \notin DOMAIN disk[c] => content[c][cell] = Unset
                  /\ Location(kt[c], cell) \in DOMAIN disk[c] =>
                       \E w : disk[c][Location(kt[c], cell)] =
                                Kept(kt[c], cell, w, content[c][cell])
  <2>1. CASE ks[c] = 0
    BY <2>1, Zenon DEF Stored
  <2>2. CASE ks[c] # 0
    BY <2>2 DEF Stored
  <2>3. QED
    BY <2>1, <2>2, Zenon
<1>2. QED
  BY <1>1, Zenon DEF Stored

(* What Write does to what is stored, and to the history. *)
PutDisk(disk, c, loc, data) ==
  [disk EXCEPT ![c] = [l \in DOMAIN @ \cup {loc} |-> IF l = loc THEN data ELSE @[l]]]

PutCell(content, c, cell, v) == [content EXCEPT ![c][cell] = v]

(* A value is written: the other cells stay where they are. *)
LEMMA StoredWrite ==
  ASSUME NEW ks, NEW disk, NEW content, Stored(ks, disk, content),
         NEW c0 \in Contracts, ks[c0] # 0, NEW cell0 \in Cells, NEW v0 \in Values, NEW w0
  PROVE  Stored(ks, PutDisk(disk, c0, Location(ks[c0], cell0), Kept(ks[c0], cell0, w0, v0)),
                PutCell(content, c0, cell0, v0))
<1> DEFINE here     == Location(ks[c0], cell0)
           disk2    == PutDisk(disk, c0, here, Kept(ks[c0], cell0, w0, v0))
           content2 == PutCell(content, c0, cell0, v0)
<1>1. /\ DOMAIN disk = Contracts /\ content \in [Contracts -> [Cells -> Values \cup {Unset}]]
  BY Zenon DEF Stored
<1>2. /\ DOMAIN disk2 = Contracts /\ DOMAIN disk2[c0] = DOMAIN disk[c0] \cup {here}
      /\ disk2[c0][here] = Kept(ks[c0], cell0, w0, v0)
      /\ \A l \in DOMAIN disk[c0] : l # here => disk2[c0][l] = disk[c0][l]
      /\ \A d \in Contracts : d # c0 => disk2[d] = disk[d]
  BY <1>1, Zenon DEF PutDisk
<1>3. /\ content2 \in [Contracts -> [Cells -> Values \cup {Unset}]]
      /\ content2[c0][cell0] = v0
      /\ \A e \in Cells : e # cell0 => content2[c0][e] = content[c0][e]
      /\ \A d \in Contracts : d # c0 => content2[d] = content[d]
  BY <1>1, Zenon DEF PutCell
<1> HIDE DEF disk2, content2
<1>4. ASSUME NEW d \in Contracts
      PROVE  /\ ks[d] = 0 => DOMAIN disk2[d] = {}
             /\ \A e \in Cells :
                  /\ Location(ks[d], e) \notin DOMAIN disk2[d] => content2[d][e] = Unset
                  /\ Location(ks[d], e) \in DOMAIN disk2[d] =>
                       \E x : disk2[d][Location(ks[d], e)] = Kept(ks[d], e, x, content2[d][e])
  <2>1. CASE d # c0
    BY <1>2, <1>3, <2>1, SMTT(30) DEF Stored
  <2>2. CASE d = c0
    <3>1. ASSUME NEW e \in Cells, e # cell0
          PROVE  Location(ks[c0], e) # here
      BY <3>1, LocationsDiffer, Zenon
    <3>2. ASSUME NEW e \in Cells, e # cell0
          PROVE  /\ Location(ks[c0], e) \notin DOMAIN disk2[c0] => content2[c0][e] = Unset
                 /\ Location(ks[c0], e) \in DOMAIN disk2[c0] =>
                      \E x : disk2[c0][Location(ks[c0], e)] = Kept(ks[c0], e, x, content2[c0][e])
      BY <1>2, <1>3, <3>1, <3>2, SMTT(30) DEF Stored
    <3>3. /\ here \in DOMAIN disk2[c0]
          /\ \E x : disk2[c0][here] = Kept(ks[c0], cell0, x, content2[c0][cell0])
      BY <1>2, <1>3, Zenon
    <3>4. QED
      BY <2>2, <3>2, <3>3, Zenon
  <2>3. QED
    BY <2>1, <2>2, Zenon
<1>5. Stored(ks, disk2, content2)
  BY <1>2, <1>3, <1>4, Zenon DEF Stored
<1>6. QED
  BY <1>5, Zenon DEF disk2, content2

(* No read panics. *)
LEMMA SendReads ==
  ASSUME CInv, StInv, NEW cell \in Cells, Send(cell)
  PROVE  /\ Fetch(ctx, cell) = Ok(<< written[The(Address(ctx))][cell] >>)
         /\ phase' \in {"running", "failed"}
<1>1. Fetch(ctx, cell) = Ok(<< written[The(Address(ctx))][cell] >>)
  BY FetchReads, Zenon DEF Send, StInv
<1>2. Fetch(ctx, cell).ok
  BY <1>1 DEF Ok
<1>3. phase' \in {"running", "failed"}
  BY <1>2, Zenon DEF Send
<1>4. QED
  BY <1>1, <1>3, Zenon

(* What is stored stays readable. *)
LEMMA WriteKeepsStored ==
  ASSUME CInv, StInv, NEW cell \in Cells, NEW v \in Values, Write(cell, v)
  PROVE  StInv'
<1>1. PICK c \in Contracts : /\ The(Address(ctx)) = c /\ The(ctx.d2) = keys[c] /\ keys[c] # 0
  BY Running, Zenon DEF Write
<1> DEFINE nonce == The(ctx.next_storage_nonce)
           w == Wire(nonce)
<1>2. /\ keys' = keys /\ UNCHANGED << committed, kept >> /\ phase' \in {"running", "failed"}
  BY Zenon DEF Write, diskVars, kmVars
<1>3. EncryptStorageKey(ctx, cell) = Location(keys[c], cell)
  BY <1>1, Zenon DEF EncryptStorageKey, Location
<1>4. CASE UNCHANGED storeVars
  BY <1>2, <1>4, Zenon DEF StInv, storeVars
<1>5. CASE /\ store' = PutDisk(store, c, Location(keys[c], cell), Kept(keys[c], cell, w, v))
           /\ written' = PutCell(written, c, cell, v)
  <2> HIDE DEF w
  <2>1. Stored(keys, store', written')
    BY <1>1, <1>5, StoredWrite, Zenon DEF StInv
  <2>2. QED
    BY <1>2, <2>1, Zenon DEF StInv
<1>6. \/ UNCHANGED storeVars
      \/ /\ store' = PutDisk(store, c, Location(keys[c], cell), Kept(keys[c], cell, w, v))
         /\ written' = PutCell(written, c, cell, v)
  <2> DEFINE e == EncryptStorageValue(ctx, cell, << v >>)
  <2>1. e.res.ok => e.res.val = Kept(keys[c], cell, w, v)
    BY <1>1, Zenon DEF EncryptStorageValue, Kept, Ok, Err
  <2> HIDE DEF e, w, nonce
  <2>2. \/ UNCHANGED storeVars
        \/ /\ e.res.ok
           /\ store' = PutDisk(store, c, Location(keys[c], cell), e.res.val)
           /\ written' = PutCell(written, c, cell, v)
    BY <1>1, <1>3 DEF Write, e, PutDisk, PutCell
  <2>3. QED
    BY <2>1, <2>2, Zenon
<1>7. QED
  BY <1>4, <1>5, <1>6, Zenon

(* Every step leaves what is stored readable (confidential_ctx.rs:227-279).  *)
LEMMA StepKeepsStored ==
  ASSUME CInv, StInv, [Next]_vars
  PROVE  StInv'
<1>1. \A c \in Contracts : keys[c] # 0 => keys'[c] = keys[c]
  BY StepIsKMStep, KeysStay, Zenon DEF CInv
<1>2. Stored(keys', store, written) /\ Stored(keys', committed, kept)
  BY <1>1, StoredStays, Zenon DEF StInv
<1>3. ASSUME UNCHANGED << store, written, committed, kept >>, phase' # "panicked"
      PROVE  StInv'
  BY <1>2, <1>3, Zenon DEF StInv
<1>4. CASE Commit \/ Fail
  BY <1>2, <1>4, Zenon DEF StInv, Commit, Fail, storeVars
<1>5. ASSUME NEW cell \in Cells, NEW v \in Values, Write(cell, v) PROVE StInv'
  BY <1>5, WriteKeepsStored, Zenon
<1>6. ASSUME NEW cell \in Cells, Send(cell) PROVE StInv'
  BY <1>3, <1>6, SendReads, Zenon DEF Send, diskVars, storeVars
<1>7. CASE UNCHANGED vars
  BY <1>3, <1>7, Zenon DEF vars, StInv
<1>8. ASSUME NEW cl \in Clients, NEW r \in Requests(cl), Begin(r) PROVE StInv'
  BY <1>3, <1>8, Zenon DEF Begin, diskVars, storeVars
<1>9. ASSUME \/ \E cl \in Clients : (\E c \in Contracts : PublicKey(cl, c)) \/ PublicKeyAnswer(cl)
             \/ \E t \in Callers : KeyManagerStep(t)
      PROVE  StInv'
  BY <1>3, <1>9, Zenon DEF PublicKey, PublicKeyAnswer, KeyManagerStep, diskVars, storeVars, txnVars,
     StInv
<1>10. ASSUME \/ Enter \/ OpenRequest \/ \E c \in Contracts : CallConfidential(c)
              \/ CallOrdinary \/ ReturnToOrdinary \/ ReturnToConfidential \/ Return
       PROVE  StInv'
  BY <1>3, <1>10, Zenon DEF Enter, OpenRequest, CallConfidential, CallOrdinary, ReturnToOrdinary,
     ReturnToConfidential, Return, diskVars, storeVars
<1>11. QED
  BY <1>4, <1>5, <1>6, <1>7, <1>8, <1>9, <1>10, Zenon DEF Next

(* A new chain has nothing stored. *)
LEMMA InitStored == Init => StInv
<1> SUFFICES ASSUME Init PROVE StInv
  BY Zenon
<1>1. /\ store = [c \in Contracts |-> << >>]
      /\ written = [c \in Contracts |-> [k \in Cells |-> Unset]]
      /\ committed = store /\ kept = written /\ phase = "free"
  BY Zenon DEF Init
<1>2. Stored(keys, store, written)
  BY <1>1 DEF Stored
<1>3. QED
  BY <1>1, <1>2, Zenon DEF StInv

(* A contract reads back what it wrote last, in this transaction or in an   *)
(* earlier one, for any contracts, cells and values: no read panics         *)
(* (confidential_ctx.rs:227-279).                                           *)
THEOREM StorageReadsBack == Spec => []ReadsBack
<1>1. CInv /\ StInv /\ [Next]_vars => (CInv /\ StInv)'
  BY StepKeepsCInv, StepKeepsStored, Zenon
<1>2. CInv /\ StInv => ReadsBack
  BY FetchReads, Zenon DEF StInv, ReadsBack
<1>3. Init => CInv /\ StInv
  BY InitCInv, InitStored, Zenon
<1>4. QED
  BY <1>1, <1>2, <1>3, PTL DEF Spec

-----------------------------------------------------------------------------
(* The session of a transaction. *)

(* The counter after i increments. *)
At(start, i) ==
  IF start + i < CounterSize THEN start + i ELSE start + i - CounterSize

NonceOf(m) == m.payload[Len(m.payload)]

Rq == The(request)

(* The i-th message of a request: its nonce, and how it was encrypted. *)
GoodMessage(m, r, i) ==
  /\ NonceOf(m) = << r.client, At(r.start, i) >>
  /\ \E number, k, v : /\ m.payload = Encrypt(<< v >>, number, r.client, k, k, << >>)
                       /\ m.data = << v >>

(* The payload of a request is encrypted with the contract's key or cut     *)
(* short.                                                                   *)
Sound ==
  /\ request = Some(Rq) /\ Rq.start \in Counters /\ Rq.whole \in BOOLEAN
  /\ Rq.callee # None =>
       /\ Rq.callee = Some(The(Rq.callee)) /\ The(Rq.callee) \in Contracts
       /\ keys[The(Rq.callee)] # 0
       /\ Rq.whole => Rq.payload = Encrypt(<< "data" >>, NonceNew(Rq.client, Rq.start),
                                           keys[The(Rq.callee)], Rq.client, Rq.client, << "aad" >>)
       /\ ~ Rq.whole => SplitEncryptedPayload(Rq.payload) = Err

(* The session is that of the client once the request is open: the next     *)
(* nonce is as many steps from the request's as there were messages.        *)
Opened ==
  /\ Rq.callee = None => ctx.peer_public_key = None /\ messages = << >>
  /\ Rq.callee # None =>
       /\ ctx.peer_public_key = Some(Rq.client)
       /\ ctx.next_nonce = Some([tag     |-> Rq.client,
                                 current |-> At(Rq.start, Len(messages) + 1),
                                 start   |-> Rq.start])

Session ==
  /\ stack # << >> => stack[1].callee = Rq.callee
  /\ stack = << >> => /\ Rq.callee # None /\ wanted[Miner] = The(Rq.callee)
                      /\ phase = "entering"
  /\ stack = << >> \/ phase = "opening" => messages = << >>
  /\ phase = "opening" => Rq.callee # None /\ Len(stack) = 1
  /\ phase = "refused" => ~ Rq.whole
  /\ phase \in {"entering", "running", "returning"} /\ stack # << >> => Opened
  /\ Len(messages) + 1 < CounterSize
  /\ \A i \in 1 .. Len(messages) : GoodMessage(messages[i], Rq, i)

SInv ==
  /\ \E S : messages \in Seq(S)
  /\ phase = "free" => messages = << >>
  /\ phase # "free" => Sound /\ Session

(* Until they have all been used, the counters are different (nonce.rs:37). *)
LEMMA AtDistinct ==
  ASSUME NEW s \in Counters, NEW i \in Nat, NEW j \in Nat,
         i < CounterSize, j < CounterSize, At(s, i) = At(s, j)
  PROVE  i = j
BY CounterAssumption DEF At, Counters

(* The nonce of the request is the first of the sequence (nonce.rs:26).      *)
LEMMA AtFirst ==
  ASSUME NEW s \in Counters
  PROVE  At(s, 0) = s /\ At(s, 1) = NextCounter(s)
BY CounterAssumption DEF At, Counters, NextCounter

(* Incrementing a nonce leads to the next of the sequence (nonce.rs:37).     *)
LEMMA AtNext ==
  ASSUME NEW s \in Counters, NEW i \in Nat, i < CounterSize
  PROVE  /\ At(s, i) \in Counters /\ NextCounter(At(s, i)) = At(s, i + 1)
         /\ (At(s, i + 1) # s => i + 1 < CounterSize)
BY CounterAssumption DEF At, Counters, NextCounter

(* What the invariant says of the properties. *)
LEMMA SInvImplies ==
  ASSUME TypeOK, CallChain, SInv
  PROVE  SessionKept /\ NoncesFresh /\ RefusedOnlyWhenCut /\ MessagesOpen
<1>1. SessionKept
  <2> SUFFICES ASSUME phase = "running", stack[1].callee # None
               PROVE  ctx.peer_public_key = Some(Rq.client) /\ ctx.next_nonce # None
    BY Zenon DEF SessionKept, Rq
  <2>1. stack # << >>
    BY Zenon DEF CallChain
  <2>2. Opened /\ Rq.callee # None
    BY <2>1, Zenon DEF SInv, Session
  <2>3. QED
    BY <2>2, Zenon DEF Opened, Some, None
<1>2. NoncesFresh
  <2>1. CASE phase = "free"
    BY <2>1 DEF SInv, NoncesFresh
  <2>2. CASE phase # "free"
    <3>1. PICK S : messages \in Seq(S)
      BY Zenon DEF SInv
    <3>2. Len(messages) \in Nat /\ DOMAIN messages = 1 .. Len(messages)
      BY <3>1
    <3>3. /\ Rq.start \in Counters /\ Len(messages) + 1 < CounterSize
          /\ \A i \in 1 .. Len(messages) :
               NonceOf(messages[i]) = << Rq.client, At(Rq.start, i) >>
      BY <2>2, Zenon DEF SInv, Sound, Session, GoodMessage
    <3>4. ASSUME NEW i \in DOMAIN messages
          PROVE  NonceOf(messages[i]) # << Rq.client, Rq.start >>
      <4>1. i \in Nat /\ i # 0 /\ i < CounterSize /\ 0 < CounterSize
        BY <3>2, <3>3, CounterAssumption
      <4>2. At(Rq.start, i) # At(Rq.start, 0)
        BY <3>3, <4>1, AtDistinct, Zenon
      <4>3. QED
        BY <3>2, <3>3, <4>2, AtFirst
    <3>5. ASSUME NEW i \in DOMAIN messages, NEW j \in DOMAIN messages, i # j
          PROVE  NonceOf(messages[i]) # NonceOf(messages[j])
      <4>1. i \in Nat /\ i < CounterSize /\ j \in Nat /\ j < CounterSize
        BY <3>2, <3>3, CounterAssumption
      <4>2. At(Rq.start, i) # At(Rq.start, j)
        BY <3>3, <3>5, <4>1, AtDistinct, Zenon
      <4>3. QED
        BY <3>2, <3>3, <4>2
    <3>6. QED
      BY <3>4, <3>5, Zenon DEF NoncesFresh, NonceOf, Rq
  <2>3. QED
    BY <2>1, <2>2, Zenon
<1>3. RefusedOnlyWhenCut
  BY Zenon DEF SInv, Session, RefusedOnlyWhenCut, Rq
<1>4. MessagesOpen
  <2> SUFFICES ASSUME NEW i \in DOMAIN messages
               PROVE  /\ Decrypt(messages[i].payload, Rq.client).ok
                      /\ Decrypt(messages[i].payload, Rq.client).val.plain = messages[i].data
    BY Zenon DEF MessagesOpen, Rq
  <2>1. PICK S : messages \in Seq(S)
    BY Zenon DEF SInv
  <2>2. phase # "free" /\ i \in 1 .. Len(messages)
    BY <2>1 DEF SInv
  <2>3. PICK number, k, v : /\ messages[i].data = << v >>
                            /\ messages[i].payload =
                                 Encrypt(<< v >>, number, Rq.client, k, k, << >>)
    BY <2>2, Zenon DEF SInv, Session, GoodMessage
  <2> DEFINE text == << v >>
             none == << >>
  <2>4. text \in Seq({v}) /\ none \in Seq({})
    OBVIOUS
  <2>5. /\ messages[i].data = text
        /\ messages[i].payload = Encrypt(text, number, Rq.client, k, k, none)
    BY <2>3, Zenon
  <2> HIDE DEF text, none
  <2>6. Decrypt(Encrypt(text, number, Rq.client, k, k, none), Rq.client) =
          Ok([plain |-> text, peer |-> k, aad |-> none,
              nonce |-> NonceNew(number.tag, number.current)])
    BY <2>4, RoundTrip
  <2>7. QED
    BY <2>5, <2>6 DEF Ok
<1>5. QED
  BY <1>1, <1>2, <1>3, <1>4, Zenon

(* Nothing of the session is touched, and the keys only grow. *)
LEMMA SoundStays ==
  ASSUME CInv, Sound, [KMNext]_kmVars, UNCHANGED request
  PROVE  Sound' /\ Rq' = Rq
<1>1. Rq' = Rq
  BY Zenon DEF Rq
<1>2. Rq.callee # None => keys'[The(Rq.callee)] = keys[The(Rq.callee)]
  BY KeysStay, Zenon DEF CInv, Sound
<1>3. QED
  BY <1>1, <1>2, Zenon DEF Sound

(* Calls, returns and writes leave the session as it is. *)
LEMMA SameSession ==
  ASSUME CInv, SInv, [KMNext]_kmVars, UNCHANGED << request, messages >>,
         phase \in {"entering", "running", "returning"}, stack # << >>,
         phase' \in {"entering", "running", "returning", "failed"},
         stack' # << >>, stack'[1] = stack[1],
         ctx'.peer_public_key = ctx.peer_public_key, ctx'.next_nonce = ctx.next_nonce
  PROVE  SInv'
<1>1. Sound /\ Session /\ Opened
  BY Zenon DEF SInv, Session
<1>2. Sound' /\ Rq' = Rq
  BY <1>1, SoundStays, Zenon
<1>3. Opened'
  BY <1>1, <1>2, Zenon DEF Opened
<1>4. \A i \in 1 .. Len(messages') : GoodMessage(messages'[i], Rq', i)
  BY <1>1, <1>2, Zenon DEF Session
<1>5. Session'
  BY <1>1, <1>2, <1>3, <1>4, Zenon DEF Session
<1>6. QED
  BY <1>2, <1>5, Zenon DEF SInv

(* Clients that ask for keys do not touch the session. *)
LEMMA SessionAside ==
  ASSUME CInv, SInv, [KMNext]_kmVars, UNCHANGED << request, messages, phase, stack, ctx >>,
         wanted'[Miner] = wanted[Miner]
  PROVE  SInv'
<1>1. CASE phase = "free"
  BY <1>1, Zenon DEF SInv
<1>2. CASE phase # "free"
  <2>1. Sound /\ Session
    BY <1>2, Zenon DEF SInv
  <2>2. Sound' /\ Rq' = Rq
    BY <2>1, SoundStays, Zenon
  <2>3. Opened => Opened'
    BY <2>2, Zenon DEF Opened
  <2>4. \A i \in 1 .. Len(messages') : GoodMessage(messages'[i], Rq', i)
    BY <2>1, <2>2, Zenon DEF Session
  <2>5. Session'
    BY <2>1, <2>2, <2>3, <2>4, Zenon DEF Session
  <2>6. QED
    BY <2>2, <2>5, Zenon DEF SInv
<1>3. QED
  BY <1>1, <1>2, Zenon

(* activate leaves peer and nonce alone (confidential_ctx.rs:144-156). *)
LEMMA ActivatedSession ==
  ASSUME NEW x, IsCtx(x), NEW k
  PROVE  /\ Activate(x, k).peer_public_key = x.peer_public_key
         /\ Activate(x, k).next_nonce = x.next_nonce
BY ActivateFields, Zenon

(* The virtual machine's calls and returns. *)
LEMMA CallsKeepSession ==
  ASSUME CInv, SInv, \/ \E c \in Contracts : CallConfidential(c)
                     \/ ReturnToConfidential
                     \/ CallOrdinary
                     \/ ReturnToOrdinary
                     \/ Return
  PROVE  SInv'
<1>1. [KMNext]_kmVars
  BY StepIsKMStep, Zenon DEF CInv, Next
<1>2. /\ phase \in {"running", "returning"} /\ stack # << >>
      /\ UNCHANGED << request, messages >> /\ phase' \in {"entering", "running", "returning"}
  BY Zenon DEF CInv, CallChain, CallConfidential, ReturnToConfidential, CallOrdinary,
     ReturnToOrdinary, Return
<1>3. stack \in Seq(Frames) /\ 1 \in 1 .. Len(stack) /\ IsCtx(ctx)
  BY <1>2, OldIsContract DEF CInv, TypeOK
<1>4. ctx'.peer_public_key = ctx.peer_public_key /\ ctx'.next_nonce = ctx.next_nonce
  <2>1. CASE ctx' = ctx
    BY <2>1, Zenon
  <2>2. CASE \E k : ctx' = Activate(ctx, k)
    <3>1. PICK k : ctx' = Activate(ctx, k)
      BY <2>2, Zenon
    <3>2. /\ Activate(ctx, k).peer_public_key = ctx.peer_public_key
          /\ Activate(ctx, k).next_nonce = ctx.next_nonce
      BY <1>3, ActivatedSession, Zenon
    <3>3. QED
      BY <3>1, <3>2, Zenon
  <2>3. QED
    BY <2>1, <2>2, Zenon DEF CallConfidential, ReturnToConfidential, CallOrdinary, ReturnToOrdinary,
       Return
<1>5. stack' # << >> /\ stack'[1] = stack[1]
  <2>1. CASE stack' = stack
    BY <1>2, <2>1, Zenon
  <2>2. CASE CallOrdinary
    <3>1. [callee |-> None, old |-> Address(ctx)] \in Frames
      BY <2>2, AddressType, Zenon DEF CallOrdinary, Frames, Options
    <3>2. stack' = Append(stack, [callee |-> None, old |-> Address(ctx)])
      BY <2>2, Zenon DEF CallOrdinary
    <3>3. QED
      BY <1>3, <3>1, <3>2, PushStack, Zenon
  <2>3. CASE ReturnToOrdinary \/ Return
    <3>1. stack' = Pop /\ Len(stack) > 1
      BY <2>3, Zenon DEF ReturnToOrdinary, Return, CInv, CallChain
    <3>2. 1 \in 1 .. Len(stack) - 1
      BY <1>3, <3>1
    <3>3. QED
      BY <1>3, <3>1, <3>2, PopStack, Zenon
  <2>4. QED
    BY <2>1, <2>2, <2>3, Zenon DEF CallConfidential, ReturnToConfidential
<1>6. QED
  BY <1>1, <1>2, <1>4, <1>5, SameSession, Zenon

(* What clients send (Requests) is sound. *)
SoundRequest(r) ==
  /\ r.start \in Counters /\ r.whole \in BOOLEAN
  /\ r.callee # None =>
       /\ r.callee = Some(The(r.callee)) /\ The(r.callee) \in Contracts
       /\ keys[The(r.callee)] # 0
       /\ r.whole => r.payload = Encrypt(<< "data" >>, NonceNew(r.client, r.start),
                                         keys[The(r.callee)], r.client, r.client, << "aad" >>)
       /\ ~ r.whole => SplitEncryptedPayload(r.payload) = Err

(* What a client sends is an ordinary request, a whole one or a cut one.     *)
LEMMA RequestsAreSound ==
  ASSUME CInv, NEW cl \in Clients, NEW r \in Requests(cl)
  PROVE  SoundRequest(r)
<1>1. CASE r = Ordinary(cl)
  <2>1. r.start = 0 /\ r.whole = FALSE /\ r.callee = None
    BY <1>1, Zenon DEF Ordinary
  <2>2. 0 \in Counters
    BY CounterAssumption DEF Counters
  <2>3. r.whole \in BOOLEAN
    BY <2>1, Zenon
  <2>4. QED
    BY <2>1, <2>2, <2>3, Zenon DEF SoundRequest
<1>2. ASSUME NEW start \in Starts, NEW q \in Intact(cl, start)
      PROVE  /\ q.start \in Counters /\ q.whole = TRUE /\ q.client = cl
             /\ q.callee # None /\ q.callee = Some(The(q.callee))
             /\ The(q.callee) \in Contracts /\ keys[The(q.callee)] # 0
             /\ q.payload = Encrypt(<< "data" >>, NonceNew(cl, q.start),
                                    keys[The(q.callee)], cl, cl, << "aad" >>)
             /\ q = [client |-> cl, callee |-> q.callee, whole |-> TRUE,
                     start |-> q.start, payload |-> q.payload]
  <2>1. PICK p \in published[cl] :
          q = [client |-> cl, callee |-> Some(p.addr), whole |-> TRUE, start |-> start,
               payload |-> Encrypt(<< "data" >>, NonceNew(cl, start), p.key, cl, cl, << "aad" >>)]
    BY <1>2, Zenon DEF Intact
  <2>2. p.addr \in Contracts /\ keys[p.addr] = p.key /\ p.key # 0
    BY DEF CInv, TypeOK, PublishedKeyStands
  <2>3. q.callee = Some(p.addr) /\ The(q.callee) = p.addr /\ q.callee # None
    BY <2>1, TheSome, Zenon DEF Some, None
  <2>4. start \in Counters
    BY BoundsAssumption, Zenon
  <2>5. q.start = start /\ q.whole = TRUE /\ q.client = cl
        /\ q.payload = Encrypt(<< "data" >>, NonceNew(cl, start), p.key, cl, cl, << "aad" >>)
    BY <2>1, Zenon
  <2>6. QED
    BY <2>1, <2>2, <2>3, <2>4, <2>5, Zenon
<1>3. ASSUME NEW start \in Starts, r \in Intact(cl, start) PROVE SoundRequest(r)
  BY <1>2, <1>3, Zenon DEF SoundRequest
<1>4. ASSUME NEW start \in Starts, NEW q \in Intact(cl, start), r \in Cut(q)
      PROVE  SoundRequest(r)
  <2>1. PICK n \in {0, Len(q.payload) - 1} :
          r = [q EXCEPT !.whole = FALSE, !.payload = SubSeq(q.payload, 1, n)]
    BY <1>4, Zenon DEF Cut
  <2>2. /\ r.start = q.start /\ r.callee = q.callee /\ r.whole = FALSE
        /\ r.payload = SubSeq(q.payload, 1, n)
    BY <1>2, <2>1
  <2>3. SplitEncryptedPayload(r.payload) = Err
    <3> DEFINE number  == NonceNew(cl, q.start)
               key     == keys[The(q.callee)]
               text    == << "data" >>
               extra   == << "aad" >>
               payload == Encrypt(text, number, key, cl, cl, extra)
               cipher  == BoxSeal(Wire(number), text, extra, key, cl)
    <3>1. text \in Seq({"data"}) /\ extra \in Seq({"aad"})
      OBVIOUS
    <3>2. q.payload = payload
      BY <1>2, Zenon
    <3> HIDE DEF text, extra, number, key
    <3>3. /\ Fields(payload, cipher, number, cl, extra)
          /\ \E U : payload \in Seq(U)
          /\ \E S : cipher \in Seq(S) /\ extra \in Seq(S)
          /\ Len(cipher) >= 1
      BY <3>1, EncryptedFields
    <3> HIDE DEF payload, cipher
    <3>4. PICK U : payload \in Seq(U)
      BY <3>3, Zenon
    <3>5. PICK S : cipher \in Seq(S) /\ extra \in Seq(S)
      BY <3>3, Zenon
    <3>6. n \in {0, Len(payload) - 1}
      BY <3>2, Zenon
    <3>7. SplitEncryptedPayload(SubSeq(payload, 1, n)) = Err
      BY <3>3, <3>4, <3>5, <3>6, SplitCut, Zenon
    <3>8. QED
      BY <2>2, <3>2, <3>7, Zenon
  <2>4. QED
    BY <1>2, <2>2, <2>3, Zenon DEF SoundRequest
<1>5. QED
  BY <1>1, <1>3, <1>4 DEF Requests

(* A new transaction, and the end of one. *)
LEMMA BeginKeepsSession ==
  ASSUME CInv, NEW cl \in Clients, NEW r \in Requests(cl), SInv, Begin(r)
  PROVE  SInv'
<1>1. SoundRequest(r)
  BY RequestsAreSound, Zenon
<1>2. /\ request' = Some(r) /\ messages = << >> /\ messages' = << >> /\ phase' # "free"
      /\ keys' = keys /\ phase' \in {"running", "entering"}
  BY Zenon DEF SInv, Begin, Ask, kmVars
<1>3. Rq' = r
  BY <1>2, TheSome, Zenon DEF Rq
<1>4. Sound'
  BY <1>1, <1>2, <1>3, Zenon DEF Sound, SoundRequest
<1>5. Len(messages') = 0 /\ 0 + 1 < CounterSize
  BY <1>2, CounterAssumption
<1>6. Session'
  <2>0. /\ phase' # "opening" /\ phase' # "refused" /\ Len(messages') + 1 < CounterSize
        /\ (\A i \in 1 .. Len(messages) : GoodMessage(messages[i], Rq, i))'
    BY <1>2, <1>5
  <2>1. CASE r.callee = None
    <3> DEFINE f == [callee |-> None, old |-> None]
    <3>1. stack' = << f >> /\ phase' = "running" /\ ctx' = CtxNew(height)
      BY <2>1, Zenon DEF Begin
    <3>2. stack' # << >> /\ stack'[1] = f /\ f.callee = None
      BY <3>1, Zenon
    <3>3. ctx'.peer_public_key = None
      BY <3>1, Zenon DEF CtxNew
    <3> HIDE DEF f
    <3>4. Opened'
      BY <1>2, <1>3, <2>1, <3>3, Zenon DEF Opened
    <3>5. QED
      BY <1>2, <1>3, <2>0, <2>1, <3>1, <3>2, <3>4, Zenon DEF Session
  <2>2. CASE r.callee # None
    <3>1. stack' = << >> /\ phase' = "entering" /\ wanted'[Miner] = The(r.callee)
      BY <2>2, PartiesAssumption, Zenon DEF Begin, Ask, CInv, KMInv, KMTypeOK
    <3>2. QED
      BY <1>2, <1>3, <2>0, <2>2, <3>1, Zenon DEF Session
  <2>3. QED
    BY <2>1, <2>2, Zenon
<1>7. \E S : messages' \in Seq(S)
  BY <1>2
<1>8. QED
  BY <1>2, <1>4, <1>6, <1>7, Zenon DEF SInv

(* The end of a transaction leaves no message (confidential_ctx.rs:158).     *)
LEMMA EndKeepsSession ==
  ASSUME SInv, Commit \/ Fail
  PROVE  SInv'
<1>1. phase' = "free" /\ messages' = << >>
  BY Zenon DEF Commit, Fail
<1>2. \E S : messages' \in Seq(S)
  BY <1>1
<1>3. QED
  BY <1>1, <1>2, Zenon DEF SInv

(* A contract is entered: the first one, or one that another calls. *)
LEMMA EnterKeepsSession ==
  ASSUME CInv, SInv, Enter
  PROVE  SInv'
<1> DEFINE w == wanted[Miner]
           f == [callee |-> Some(w), old |-> Address(ctx)]
<1>1. [KMNext]_kmVars
  BY StepIsKMStep, Zenon DEF CInv, Next
<1>2. /\ w \in Contracts /\ phase = "entering" /\ UNCHANGED << request, messages >>
      /\ phase' = (IF stack = << >> THEN "opening" ELSE "running")
      /\ stack' = Append(stack, f) /\ ctx' = Activate(ctx, Answered)
  BY AnswerIsKey, Zenon DEF Enter
<1>3. f \in Frames /\ f.callee = Some(w) /\ stack \in Seq(Frames) /\ IsCtx(ctx)
  BY <1>2, AddressType, Zenon DEF Frames, Options, CInv, TypeOK
<1> HIDE DEF f
<1>4. CASE stack # << >>
  <2>1. stack' # << >> /\ stack'[1] = stack[1]
    BY <1>2, <1>3, <1>4
  <2>2. /\ Activate(ctx, Answered).peer_public_key = ctx.peer_public_key
        /\ Activate(ctx, Answered).next_nonce = ctx.next_nonce
    BY <1>3, ActivatedSession, Zenon
  <2>3. QED
    BY <1>1, <1>2, <1>4, <2>1, <2>2, SameSession, Zenon
<1>5. CASE stack = << >>
  <2>1. Sound /\ Session
    BY <1>2, Zenon DEF SInv
  <2>2. Sound' /\ Rq' = Rq
    BY <1>1, <1>2, <2>1, SoundStays, Zenon
  <2>3. stack' = << f >> /\ Len(stack') = 1 /\ stack'[1] = f /\ stack' # << >>
    BY <1>2, <1>3, <1>5
  <2>4. messages' = << >> /\ Rq.callee # None /\ Rq.callee = Some(w)
    BY <1>2, <1>5, <2>1, Zenon DEF Session, Sound
  <2>5. Len(messages') = 0 /\ 0 + 1 < CounterSize
    BY <2>4, CounterAssumption
  <2>6. Session'
    BY <1>2, <1>3, <1>5, <2>2, <2>3, <2>4, <2>5 DEF Session
  <2>7. QED
    BY <1>2, <1>5, <2>2, <2>6, Zenon DEF SInv
<1>6. QED
  BY <1>4, <1>5, Zenon

(* Storing a value moves the storage nonce only. *)
LEMMA WriteKeepsSession ==
  ASSUME CInv, SInv, NEW cell \in Cells, NEW v \in Values, Write(cell, v)
  PROVE  SInv'
<1>1. /\ [KMNext]_kmVars /\ phase = "running" /\ phase' \in {"running", "failed"}
      /\ stack' = stack /\ stack # << >> /\ UNCHANGED << request, messages >> /\ IsCtx(ctx)
  BY Zenon DEF Write, CInv, CallChain, TypeOK
<1>2. \/ ctx' = ctx
      \/ \E nonce : ctx' = [ctx EXCEPT !.next_storage_nonce = nonce]
  BY Zenon DEF Write, EncryptStorageValue, Ok, Err
<1>3. ctx'.peer_public_key = ctx.peer_public_key /\ ctx'.next_nonce = ctx.next_nonce
  BY <1>1, <1>2, Zenon DEF IsCtx, CtxFields
<1>4. QED
  BY <1>1, <1>3, SameSession, Zenon

-----------------------------------------------------------------------------
(* The request is opened: with the contract's key if it is whole, else not. *)
LEMMA OpenKeepsSession ==
  ASSUME CInv, SInv, OpenRequest
  PROVE  SInv'
<1>1. Sound /\ Session /\ phase = "opening"
  BY Zenon DEF OpenRequest, SInv
<1>2. /\ [KMNext]_kmVars /\ UNCHANGED << request, stack, messages, keys >>
  BY Zenon DEF OpenRequest, kmVars
<1>3. Sound' /\ Rq' = Rq
  BY <1>1, <1>2, SoundStays, Zenon
<1>4. /\ Rq.callee # None /\ Len(stack) = 1 /\ stack[1].callee = Rq.callee
      /\ messages = << >> /\ Len(messages) = 0 /\ stack # << >>
  BY <1>1, Zenon DEF Session
<1> DEFINE c == The(Rq.callee)
<1>5. Rq.callee = Some(c)
  BY <1>1, <1>4, Zenon DEF Sound
<1>6. ctx.contract = Some([addr |-> c, key |-> keys[c]]) /\ IsCtx(ctx)
  <2>1. Top.callee = Some(c)
    BY <1>4, <1>5, Zenon DEF Top
  <2>2. c \in Top.callee
    BY <2>1, Zenon DEF Some
  <2>3. QED
    BY <1>1, <1>4, <2>2, Zenon DEF CInv, ContextMatchesFrame, TypeOK
<1>7. The(ctx.contract).key = keys[c]
  BY <1>6, TheSome
<1> DEFINE d == Decrypt(Rq.payload, keys[c])
<1>8. CASE ~ Rq.whole
  <2>1. SplitEncryptedPayload(Rq.payload) = Err
    BY <1>1, <1>4, <1>8, Zenon DEF Sound
  <2>2. ~ d.ok
    BY <2>1, CutRefused, Zenon
  <2>3. phase' = "refused" /\ ctx' = ctx
    BY <1>7, <2>2, Zenon DEF OpenRequest, DecryptSession, Rq, Err
  <2>4. Session'
    BY <1>1, <1>2, <1>3, <1>4, <1>8, <2>3, Zenon DEF Session
  <2>5. QED
    BY <1>2, <1>3, <2>3, <2>4, Zenon DEF SInv
<1>9. CASE Rq.whole
  <2> DEFINE text   == << "data" >>
             extra  == << "aad" >>
             number == NonceNew(Rq.client, Rq.start)
             n      == [tag |-> Rq.client, current |-> At(Rq.start, 1), start |-> Rq.start]
  <2>1. Rq.payload = Encrypt(text, number, keys[c], Rq.client, Rq.client, extra)
    BY <1>1, <1>4, <1>9, Zenon DEF Sound
  <2>2. text \in Seq({"data"}) /\ extra \in Seq({"aad"})
    OBVIOUS
  <2>3. number.tag = Rq.client /\ number.current = Rq.start
    BY Zenon DEF NonceNew
  <2> HIDE DEF text, extra, number
  <2>4. Decrypt(Encrypt(text, number, keys[c], Rq.client, Rq.client, extra), keys[c]) =
          Ok([plain |-> text, peer |-> Rq.client, aad |-> extra,
              nonce |-> NonceNew(number.tag, number.current)])
    BY <2>2, RoundTrip
  <2>5. d.ok /\ d.val.peer = Rq.client /\ d.val.nonce = NonceNew(Rq.client, Rq.start)
        /\ d.val.plain = text
    <3> DEFINE r == [plain |-> text, peer |-> Rq.client, aad |-> extra,
                     nonce |-> NonceNew(Rq.client, Rq.start)]
    <3>1. r.peer = Rq.client /\ r.nonce = NonceNew(Rq.client, Rq.start) /\ r.plain = text
      BY Zenon
    <3>2. d = Ok(r)
      BY <2>1, <2>3, <2>4, Zenon
    <3> HIDE DEF r
    <3>3. Ok(r).ok /\ Ok(r).val = r
      BY Zenon DEF Ok
    <3>4. QED
      BY <3>1, <3>2, <3>3, Zenon
  <2>6. Rq.start \in Counters /\ 0 + 1 < CounterSize
    BY <1>1, CounterAssumption DEF Sound
  <2>7. NextCounter(Rq.start) = At(Rq.start, 1) /\ At(Rq.start, 1) # Rq.start
    <3>1. 1 < CounterSize /\ 0 < CounterSize /\ 1 \in Nat /\ 0 \in Nat /\ 1 # 0
      BY CounterAssumption
    <3>2. At(Rq.start, 1) # At(Rq.start, 0)
      BY <2>6, <3>1, AtDistinct, Zenon
    <3>3. QED
      BY <2>6, <3>2, AtFirst, Zenon
  <2>8. Increment(NonceNew(Rq.client, Rq.start)) = Ok(n)
    BY <2>7 DEF Increment, NonceNew
  <2> HIDE DEF n, d
  <2> DEFINE y == [ctx EXCEPT !.peer_public_key = Some(Rq.client)]
             z == [y EXCEPT !.next_nonce = Some(n)]
  <2>9. phase' = "running" /\ ctx' = z
    <3>1. Decrypt(Rq.payload, The(ctx.contract).key) = d
      BY <1>7, Zenon DEF d
    <3>2. Increment(d.val.nonce).ok /\ Increment(d.val.nonce).val = n
      BY <2>5, <2>8 DEF Ok
    <3>3. DecryptSession(ctx, Rq.payload) =
            IF ~ d.ok THEN [res |-> Err, ctx |-> ctx]
            ELSE IF ~ Increment(d.val.nonce).ok
                 THEN [res |-> Err, ctx |-> [ctx EXCEPT !.peer_public_key = Some(d.val.peer)]]
                 ELSE [res |-> Ok(d.val.plain),
                       ctx |-> [[ctx EXCEPT !.peer_public_key = Some(d.val.peer)]
                                  EXCEPT !.next_nonce = Some(Increment(d.val.nonce).val)]]
      BY <3>1, Zenon DEF DecryptSession
    <3>4. /\ DecryptSession(ctx, Rq.payload).res = Ok(d.val.plain)
          /\ DecryptSession(ctx, Rq.payload).ctx = z
      BY <2>5, <3>2, <3>3
    <3>5. QED
      BY <3>4 DEF OpenRequest, Rq, Ok
  <2>10. z.peer_public_key = Some(Rq.client) /\ z.next_nonce = Some(n)
    BY <1>6, Zenon DEF IsCtx, CtxFields
  <2> HIDE DEF z
  <2>11. Opened'
    <3>1. Len(messages') + 1 = 1
      BY <1>2, <1>4
    <3>2. QED
      BY <1>2, <1>3, <1>4, <2>9, <2>10, <3>1, Zenon DEF Opened, n
  <2>12. Session'
    BY <1>1, <1>2, <1>3, <1>4, <2>9, <2>11, Zenon DEF Session
  <2>13. QED
    BY <1>2, <1>3, <2>9, <2>12, Zenon DEF SInv
<1>10. QED
  BY <1>1, <1>8, <1>9, Zenon DEF Sound

(* A message takes the next nonce and moves it on. *)
LEMMA SendKeepsSession ==
  ASSUME CInv, StInv, SInv, NEW cell \in Cells, Send(cell)
  PROVE  SInv'
<1> DEFINE v == written[The(Address(ctx))][cell]
           e == EncryptSession(ctx, << v >>)
<1>1. /\ phase = "running" /\ stack # << >> /\ IsCtx(ctx) /\ IsEncrypting(ctx)
      /\ UNCHANGED << kmVars, keys, request, stack >>
  BY Zenon DEF Send, CInv, CallChain, TypeOK, kmVars
<1>2. Fetch(ctx, cell).ok /\ Fetch(ctx, cell).val = << v >>
  BY SendReads DEF Ok
<1>3. \/ /\ e.res.ok /\ ctx' = e.ctx /\ phase' = phase
         /\ messages' = Append(messages, [payload |-> e.res.val, data |-> << v >>])
      \/ ~ e.res.ok /\ phase' = "failed" /\ UNCHANGED << ctx, messages >>
  BY <1>2, Zenon DEF Send
<1>4. CASE ~ e.res.ok /\ phase' = "failed" /\ UNCHANGED << ctx, messages >>
  BY <1>1, <1>4, SameSession, Zenon
<1>5. CASE /\ e.res.ok /\ ctx' = e.ctx /\ phase' = phase
           /\ messages' = Append(messages, [payload |-> e.res.val, data |-> << v >>])
  <2>1. Sound /\ Session /\ Opened
    BY <1>1, Zenon DEF SInv, Session
  <2>2. Sound' /\ Rq' = Rq
    BY <1>1, <2>1, SoundStays, Zenon
  <2>3. ctx.peer_public_key # None /\ ctx.next_nonce # None
    BY <1>5, Zenon DEF EncryptSession, Err
  <2> DEFINE len == Len(messages)
             s   == Rq.start
             n   == [tag |-> Rq.client, current |-> At(s, len + 1), start |-> s]
             k   == The(ctx.contract).key
  <2>4. /\ Rq.callee # None /\ ctx.peer_public_key = Some(Rq.client)
        /\ ctx.next_nonce = Some(n)
    BY <2>1, <2>3, Zenon DEF Opened
  <2>5. The(ctx.peer_public_key) = Rq.client /\ The(ctx.next_nonce) = n
    BY <2>4, TheSome, Zenon
  <2>6. PICK S : messages \in Seq(S)
    BY Zenon DEF SInv
  <2>7. s \in Counters /\ len \in Nat /\ len + 1 < CounterSize
    <3>1. s \in Counters
      BY <2>1, Zenon DEF Sound
    <3>2. len \in Nat
      BY <2>6
    <3>3. len + 1 < CounterSize
      BY <2>1, Zenon DEF Session
    <3>4. QED
      BY <3>1, <3>2, <3>3, Zenon
  <2> HIDE DEF n
  <2> DEFINE payload == Encrypt(<< v >>, n, Rq.client, k, k, << >>)
             y == [ctx EXCEPT !.next_nonce = Some(Increment(n).val)]
  <2>8. Increment(n).ok /\ e.res.val = payload /\ e.ctx = y
    BY <1>5, <2>5, Zenon DEF EncryptSession, Ok, Err
  <2>9. /\ At(s, len + 1) \in Counters /\ NextCounter(At(s, len + 1)) = At(s, len + 2)
        /\ (At(s, len + 2) # s => len + 2 < CounterSize)
    <3>1. len + 1 \in Nat /\ (len + 1) + 1 = len + 2
      BY <2>7
    <3>2. /\ At(s, len + 1) \in Counters
          /\ NextCounter(At(s, len + 1)) = At(s, (len + 1) + 1)
          /\ (At(s, (len + 1) + 1) # s => (len + 1) + 1 < CounterSize)
      BY <2>7, <3>1, AtNext, Zenon
    <3>3. QED
      BY <3>1, <3>2, Zenon
  <2>10. /\ At(s, len + 2) # s
         /\ Increment(n).val = [tag |-> Rq.client, current |-> At(s, len + 2), start |-> s]
    <3> DEFINE x == [tag |-> Rq.client, current |-> At(s, len + 1), start |-> s]
    <3>1. n = x /\ Increment(x).ok
      BY <2>8, Zenon DEF n
    <3>2. /\ NextCounter(At(s, len + 1)) # s
          /\ Increment(x).val =
               [tag |-> Rq.client, current |-> NextCounter(At(s, len + 1)), start |-> s]
      <4>1. s \in Counters /\ At(s, len + 1) \in Counters
        BY <2>7, <2>9, Zenon
      <4> HIDE DEF s, len
      <4>2. QED
        BY <3>1, <4>1, IncrementType
    <3>3. QED
      BY <2>9, <3>1, <3>2, Zenon
  <2>11. /\ y.peer_public_key = ctx.peer_public_key
         /\ y.next_nonce = Some(Increment(n).val)
    BY <1>1, Zenon DEF IsCtx, CtxFields
  <2> HIDE DEF y, payload, e
  <2> DEFINE m == [payload |-> payload, data |-> << v >>]
  <2>12. messages' = Append(messages, m)
    BY <1>5, <2>8, Zenon
  <2>13. GoodMessage(m, Rq, len + 1)
    <3> DEFINE text == << v >>
               none == << >>
    <3>1. text \in Seq({v}) /\ none \in Seq({})
      OBVIOUS
    <3> HIDE DEF text, none
    <3>2. Fields(Encrypt(text, n, Rq.client, k, k, none),
                 BoxSeal(Wire(n), text, none, Rq.client, k), n, k, none)
      BY <3>1, EncryptedFields, Zenon
    <3>3. payload = Encrypt(text, n, Rq.client, k, k, none) /\ m.payload = payload
          /\ m.data = << v >>
      BY Zenon DEF payload, text, none
    <3>4. NonceOf(m) = Wire(n)
      BY <3>2, <3>3, Zenon DEF NonceOf, Fields
    <3>5. Wire(n) = << Rq.client, At(s, len + 1) >>
      BY Zenon DEF Wire, n
    <3>6. QED
      BY <3>3, <3>4, <3>5, Zenon DEF GoodMessage, text, none
  <2> HIDE DEF m
  <2>14. /\ messages' \in Seq(S \cup {m}) /\ Len(messages') = len + 1
         /\ messages'[len + 1] = m /\ \A i \in 1 .. len : messages'[i] = messages[i]
    BY <2>6, <2>12
  <2>15. \A i \in 1 .. Len(messages') : GoodMessage(messages'[i], Rq, i)
    BY <2>1, <2>7, <2>13, <2>14 DEF Session
  <2>16. Opened'
    <3>1. ctx'.next_nonce = Some([tag |-> Rq.client, current |-> At(s, len + 2), start |-> s])
      BY <1>5, <2>8, <2>10, <2>11, Zenon
    <3>2. Len(messages') + 1 = len + 2
      BY <2>7, <2>14
    <3>3. QED
      BY <1>5, <2>2, <2>4, <2>8, <2>11, <3>1, <3>2, Zenon DEF Opened
  <2>17. Len(messages') + 1 < CounterSize
    BY <2>7, <2>9, <2>10, <2>14
  <2>18. Session'
    BY <1>1, <1>5, <2>1, <2>2, <2>15, <2>16, <2>17, Zenon DEF Session
  <2>19. QED
    BY <1>1, <1>5, <2>2, <2>14, <2>18, Zenon DEF SInv
<1>6. QED
  BY <1>3, <1>4, <1>5, Zenon

(* Every step keeps the session. *)
LEMMA StepKeepsSession ==
  ASSUME CInv, StInv, SInv, [Next]_vars
  PROVE  SInv'
<1>1. [KMNext]_kmVars
  BY StepIsKMStep, Zenon DEF CInv
<1>2. CASE UNCHANGED vars
  BY <1>1, <1>2, SessionAside, Zenon DEF vars, kmVars
<1>3. ASSUME NEW cl \in Clients, NEW c \in Contracts, PublicKey(cl, c) PROVE SInv'
  <2>1. wanted'[Miner] = wanted[Miner]
    BY <1>3, PartiesAssumption, Zenon DEF PublicKey, Ask, CInv, KMInv, KMTypeOK
  <2>2. QED
    BY <1>1, <1>3, <2>1, SessionAside, Zenon DEF PublicKey, txnVars
<1>4. ASSUME NEW cl \in Clients, PublicKeyAnswer(cl) PROVE SInv'
  <2>1. wanted'[Miner] = wanted[Miner]
    BY <1>4, PartiesAssumption, Zenon DEF PublicKeyAnswer, Take, CInv, KMInv, KMTypeOK
  <2>2. QED
    BY <1>1, <1>4, <2>1, SessionAside, Zenon DEF PublicKeyAnswer, txnVars
<1>5. ASSUME NEW t \in Callers, KeyManagerStep(t) PROVE SInv'
  <2>1. wanted' = wanted
    BY <1>5, Zenon DEF KeyManagerStep, KMStep, Lookup, Create, RngFails
  <2>2. QED
    BY <1>1, <1>5, <2>1, SessionAside, Zenon DEF KeyManagerStep, txnVars
<1>6. QED
  BY <1>2, <1>3, <1>4, <1>5, BeginKeepsSession, EndKeepsSession, EnterKeepsSession,
     CallsKeepSession, WriteKeepsSession, OpenKeepsSession, SendKeepsSession, Zenon DEF Next

(* No transaction is executed at first. *)
LEMMA InitSession == Init => SInv
<1> SUFFICES ASSUME Init PROVE SInv
  BY Zenon
<1>1. messages = << >> /\ phase = "free"
  BY Zenon DEF Init
<1>2. \E S : messages \in Seq(S)
  BY <1>1
<1>3. QED
  BY <1>1, <1>2, Zenon DEF SInv

(* The invariant of the session holds in every reachable state, for every   *)
(* size of the counter and every depth of calls.                            *)
THEOREM SessionInductive == Spec => [](CInv /\ StInv /\ SInv)
<1>1. CInv /\ StInv /\ SInv /\ [Next]_vars => (CInv /\ StInv /\ SInv)'
  BY StepKeepsCInv, StepKeepsStored, StepKeepsSession, Zenon
<1>2. Init => CInv /\ StInv /\ SInv
  BY InitCInv, InitStored, InitSession, Zenon
<1>3. QED
  BY <1>1, <1>2, PTL DEF Spec

(* The channel stays open to the sender of the request                      *)
(* (confidential_ctx.rs:167-225).                                           *)
THEOREM SessionKeptAlways == Spec => []SessionKept
<1>1. CInv /\ SInv => SessionKept
  BY SInvImplies, Zenon DEF CInv
<1>2. QED
  BY <1>1, SessionInductive, PTL

(* No nonce of a channel is used twice: the counter stops before it comes   *)
(* round (nonce.rs:37-72).                                                  *)
THEOREM NoncesFreshAlways == Spec => []NoncesFresh
<1>1. CInv /\ SInv => NoncesFresh
  BY SInvImplies, Zenon DEF CInv
<1>2. QED
  BY <1>1, SessionInductive, PTL

(* The sender of a request opens every message that comes back to it        *)
(* (confidential_ctx.rs:196-225, crypto.rs:30-158).                         *)
THEOREM MessagesOpenAlways == Spec => []MessagesOpen
<1>1. CInv /\ SInv => MessagesOpen
  BY SInvImplies, Zenon DEF CInv
<1>2. QED
  BY <1>1, SessionInductive, PTL

(* A request that arrived whole is not refused (crypto.rs:77-158).          *)
THEOREM RefusedOnlyWhenCutAlways == Spec => []RefusedOnlyWhenCut
<1>1. CInv /\ SInv => RefusedOnlyWhenCut
  BY SInvImplies, Zenon DEF CInv
<1>2. QED
  BY <1>1, SessionInductive, PTL
=============================================================================
