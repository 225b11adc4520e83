----------------------------- MODULE KeyManager -----------------------------
(***************************************************************************)
(* The mock key manager (ekiden_keymanager/src/client.rs): a map from      *)
(* contracts to keys behind a mutex, called by the thread that executes a  *)
(* transaction and, without any lock of the chain, by the threads that     *)
(* answer oasis_getPublicKey.                                              *)
(*                                                                         *)
(* The k-th key ever generated is the number k, which stands for its key   *)
(* pair and its state key; 0 stands for no key.                            *)
(***************************************************************************)
EXTENDS Naturals

CONSTANTS
  Callers,     \* threads that call the key manager
  Contracts,   \* addresses of confidential contracts
  NoOne        \* nobody: the mutex is free

ASSUME CallersAssumption == NoOne \notin Callers

VARIABLES
  keys,        \* MockClient.keys; 0 where there is no entry
  generated,   \* how many keys generate_mock has made
  guard,       \* who holds the mutex
  kmPoisoned,  \* a caller panicked while it held the mutex
  kmPc,        \* per caller: where it is in get_or_create_keys
  wanted,      \* per caller: the contract it asks for, if any
  got          \* per caller: the key it was given

kmVars == << keys, generated, guard, kmPoisoned, kmPc, wanted, got >>

KMInit ==
  /\ keys = [c \in Contracts |-> 0] /\ generated = 0
  /\ guard = NoOne /\ kmPoisoned = FALSE
  /\ kmPc = [t \in Callers |-> "idle"]
  /\ wanted = [t \in Callers |-> NoOne]
  /\ got = [t \in Callers |-> 0]

-----------------------------------------------------------------------------
(* get_or_create_keys(contract_id) is called: by activate, or through       *)
(* get_public_key by the RPC method.                                        *)
Ask(t, c) ==
  /\ kmPc[t] = "idle"
  /\ kmPc' = [kmPc EXCEPT ![t] = "lock"]
  /\ wanted' = [wanted EXCEPT ![t] = c]
  /\ UNCHANGED << keys, generated, guard, kmPoisoned, got >>

(* Mutant: the mutex is released between the lookup and the insertion. *)
BugLookup(t) ==
  /\ kmPc[t] = "lock" /\ guard = NoOne
  /\ LET key == keys[wanted[t]] IN
       IF kmPoisoned THEN kmPc' = [kmPc EXCEPT ![t] = "panicked"] /\ UNCHANGED got
       ELSE IF key # 0
       THEN kmPc' = [kmPc EXCEPT ![t] = "answered"] /\ got' = [got EXCEPT ![t] = key]
       ELSE kmPc' = [kmPc EXCEPT ![t] = "create"] /\ UNCHANGED got
  /\ UNCHANGED << keys, generated, guard, kmPoisoned, wanted >>

(* keys.lock().unwrap(), then keys.get: a key that exists is cloned and the *)
(* mutex released; else it is kept.                                         *)
Lookup(t) ==
  /\ kmPc[t] = "lock" /\ guard = NoOne
  /\ LET key == keys[wanted[t]] IN
       \/ /\ kmPoisoned
          /\ kmPc' = [kmPc EXCEPT ![t] = "panicked"]
          /\ UNCHANGED << guard, got >>
       \/ /\ ~ kmPoisoned /\ key # 0
          /\ kmPc' = [kmPc EXCEPT ![t] = "answered"]
          /\ got' = [got EXCEPT ![t] = key]
          /\ UNCHANGED guard
       \/ /\ ~ kmPoisoned /\ key = 0
          /\ kmPc' = [kmPc EXCEPT ![t] = "create"]
          /\ guard' = t
          /\ UNCHANGED got
  /\ UNCHANGED << keys, generated, kmPoisoned, wanted >>

(* Mutant: a caller that finds no key keeps the mutex when it has one. *)
BugCreate(t) ==
  /\ kmPc[t] = "create"
  /\ generated' = generated + 1
  /\ keys' = [keys EXCEPT ![wanted[t]] = generated']
  /\ got' = [got EXCEPT ![t] = generated']
  /\ kmPc' = [kmPc EXCEPT ![t] = "answered"]
  /\ UNCHANGED << guard, kmPoisoned, wanted >>

(* generate_mock, keys.insert, and the mutex is released. *)
Create(t) ==
  /\ kmPc[t] = "create"
  /\ generated' = generated + 1
  /\ keys' = [keys EXCEPT ![wanted[t]] = generated']
  /\ got' = [got EXCEPT ![t] = generated']
  /\ kmPc' = [kmPc EXCEPT ![t] = "answered"]
  /\ guard' = NoOne
  /\ UNCHANGED << kmPoisoned, wanted >>

(* OsRng::new().unwrap() in generate_mock panics: the mutex is poisoned. *)
RngFails(t) ==
  /\ kmPc[t] = "create"
  /\ kmPc' = [kmPc EXCEPT ![t] = "panicked"]
  /\ guard' = NoOne /\ kmPoisoned' = TRUE
  /\ UNCHANGED << keys, generated, wanted, got >>

(* The caller takes its key and goes on. *)
Take(t) ==
  /\ kmPc[t] = "answered"
  /\ kmPc' = [kmPc EXCEPT ![t] = "idle"]
  /\ wanted' = [wanted EXCEPT ![t] = NoOne]
  /\ got' = [got EXCEPT ![t] = 0]
  /\ UNCHANGED << keys, generated, guard, kmPoisoned >>

KMStep(t) == Lookup(t) \/ Create(t) \/ RngFails(t)

KMNext ==
  \E t \in Callers : (\E c \in Contracts : Ask(t, c)) \/ KMStep(t) \/ Take(t)

KMSpec == KMInit /\ [][KMNext]_kmVars
-----------------------------------------------------------------------------
KMTypeOK ==
  /\ keys \in [Contracts -> 0 .. generated] /\ generated \in Nat
  /\ guard \in Callers \cup {NoOne} /\ kmPoisoned \in BOOLEAN
  /\ kmPc \in [Callers -> {"idle", "lock", "create", "answered", "panicked"}]
  /\ wanted \in [Callers -> Contracts \cup {NoOne}]
  /\ got \in [Callers -> 0 .. generated]

(* What the mutex guarantees: whoever holds it is between its lookup and    *)
(* its insertion, and the contract it creates a key for has none; a caller  *)
(* that was answered has the contract's key, which no other contract has    *)
(* (client.rs:24-34).                                                       *)
KMInv ==
  /\ KMTypeOK
  /\ \A t \in Callers :
       /\ kmPc[t] = "create" <=> guard = t
       /\ kmPc[t] \in {"lock", "create", "answered"} => wanted[t] \in Contracts
       /\ kmPc[t] = "create" => keys[wanted[t]] = 0
       /\ kmPc[t] = "answered" => got[t] # 0 /\ got[t] = keys[wanted[t]]
  /\ \A c, d \in Contracts : c # d /\ keys[c] # 0 => keys[c] # keys[d]
=============================================================================
