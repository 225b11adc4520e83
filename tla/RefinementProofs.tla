-------------------------- MODULE RefinementProofs --------------------------
(***************************************************************************)
(* The state database is the replay of the chain, and Blockchain           *)
(* implements Ledger, for every number of threads, accounts, transactions  *)
(* and requests.  The account laws, proved here from the theorems on       *)
(* finite sets, close the induction of LedgerProofs; the theorems follow   *)
(* from it and from the steps of RefinementSteps.                          *)
(***************************************************************************)
EXTENDS RefinementSteps, FiniteSetTheorems

(* A set of naturals with a bound has a greatest element. *)
LEMMA HasGreatest ==
  ASSUME NEW S, S \subseteq Nat, S # {}, NEW b \in Nat, \A m \in S : m <= b
  PROVE  \E g \in S : \A m \in S : m <= g
<1> DEFINE U == { u \in Nat : \A m \in S : m <= u }
<1>1. U \subseteq Nat /\ U # {}
  OBVIOUS
<1>2. PICK R : R = OpToRel(<, Nat)
  BY Zenon
<1>3. IsWellFoundedOn(R, Nat)
  BY <1>2, NatLessThanWellFounded, Zenon
<1>4. \A x, y \in Nat : << x, y >> \in R <=> x < y
  BY <1>2 DEF OpToRel
<1>5. PICK g \in U : \A y \in U : ~ (<< y, g >> \in R)
  <2> HIDE DEF U
  <2> QED
  BY <1>1, <1>3, WFMin, Zenon
<1>6. \A y \in U : g <= y
  <2> HIDE DEF U
  <2>1. SUFFICES ASSUME NEW y \in U PROVE g <= y
    OBVIOUS
  <2>2. g \in Nat /\ y \in Nat /\ ~ (y < g)
    BY <1>1, <1>4, <1>5, Zenon
  <2>3. QED
    BY <2>2
<1>7. g \in S
  <2> SUFFICES ASSUME g \notin S PROVE FALSE
    OBVIOUS
  <2>1. g \in Nat /\ \A m \in S : m \in Nat /\ m <= g /\ m # g
    OBVIOUS
  <2>2. g - 1 \in Nat /\ \A m \in S : m <= g - 1
    <3>1. PICK m : m \in S
      BY Zenon
    <3>2. g - 1 \in Nat
      BY <2>1, <3>1
    <3>3. QED
      BY <2>1, <3>2
  <2>3. g - 1 \in U
    BY <2>2, Zenon
  <2>4. ~ (g <= g - 1)
    BY <2>1
  <2>5. QED
    BY <1>6, <2>3, <2>4, Zenon
<1>8. QED
  BY <1>7

(* Greatest is what its name says. *)
LEMMA GreatestIs ==
  ASSUME NEW S, S \subseteq Nat, NEW g \in S, \A m \in S : m <= g
  PROVE  Greatest(S) = g
<1>1. Greatest(S) \in S /\ \A m \in S : m <= Greatest(S)
  BY Zenon DEF Greatest
<1>2. PICK h \in S : h = Greatest(S) /\ \A m \in S : m <= h
  BY <1>1, Zenon
<1>3. g <= h /\ h <= g /\ g \in Nat /\ h \in Nat
  BY <1>2, Zenon
<1>4. QED
  BY <1>2, <1>3

(* The two fields of an account. *)
LEMMA AccountParts ==
  ASSUME NEW c, NEW n, NEW a
  PROVE  /\ AccountOf(c, n, a).nonce = Cardinality(Sent(c, n, a))
         /\ AccountOf(c, n, a).written = Greatest(Writes(c, n, a))
BY DEF AccountOf

(* The last block that wrote an account is one of the chain or genesis. *)
LEMMA WritesGreatest ==
  ASSUME NEW c, NEW n \in Nat, NEW a
  PROVE  /\ Greatest(Writes(c, n, a)) \in Writes(c, n, a)
         /\ \A m \in Writes(c, n, a) : m <= Greatest(Writes(c, n, a))
         /\ Writes(c, n, a) \subseteq 0 .. n /\ Greatest(Writes(c, n, a)) \in 0 .. n
<1>1. Writes(c, n, a) \subseteq 0 .. n /\ 0 \in Writes(c, n, a)
  BY DEF Writes
<1>2. Writes(c, n, a) \subseteq Nat /\ \A m \in Writes(c, n, a) : m <= n
  BY <1>1
<1>3. PICK g \in Writes(c, n, a) : \A m \in Writes(c, n, a) : m <= g
  BY <1>1, <1>2, HasGreatest, Zenon
<1>4. Greatest(Writes(c, n, a)) = g
  BY <1>2, <1>3, GreatestIs, Zenon
<1>5. QED
  BY <1>1, <1>3, <1>4, Zenon

(* An account has sent finitely many transactions. *)
LEMMA SentFinite ==
  ASSUME NEW c, NEW n \in Nat, NEW a
  PROVE  IsFiniteSet(Sent(c, n, a)) /\ Cardinality(Sent(c, n, a)) \in Nat
<1>1. Sent(c, n, a) \in SUBSET Nat /\ \A i \in Sent(c, n, a) : i <= n
  BY DEF Sent
<1>2. QED
  BY <1>1, FS_BoundedSetOfNaturals, FS_CardinalityType, Zenon

(* Types of the accounts that the chain gives. *)
LEMMA AccountType ==
  ASSUME NEW c, NEW n \in Nat, NEW a
  PROVE  AccountOf(c, n, a).nonce \in Nat /\ AccountOf(c, n, a).written \in 0 .. n
<1>1. Cardinality(Sent(c, n, a)) \in Nat
  BY SentFinite, Zenon
<1>2. Greatest(Writes(c, n, a)) \in 0 .. n
  BY WritesGreatest, Zenon
<1>3. QED
  BY <1>1, <1>2, AccountParts, Zenon

(* Before the first block every account is empty. *)
LEMMA AccountAtGenesis ==
  ASSUME NEW c, NEW a
  PROVE  AccountOf(c, 0, a) = [nonce |-> 0, written |-> 0]
<1>1. Sent(c, 0, a) = {} /\ Writes(c, 0, a) = {0}
  BY DEF Sent, Writes
<1>2. Greatest({0}) = 0
  BY GreatestIs
<1>3. AccountOf(c, 0, a).nonce = 0 /\ AccountOf(c, 0, a).written = 0
  <2>1. /\ AccountOf(c, 0, a).nonce = Cardinality({})
        /\ AccountOf(c, 0, a).written = Greatest({0})
    <3>1. /\ AccountOf(c, 0, a).nonce = Cardinality(Sent(c, 0, a))
          /\ AccountOf(c, 0, a).written = Greatest(Writes(c, 0, a))
      BY AccountParts, Zenon
    <3>2. QED
      BY <1>1, <3>1, Zenon
  <2>2. Cardinality({}) = 0
    BY FS_EmptySet, Zenon
  <2>3. QED
    BY <1>2, <2>1, <2>2, Zenon
<1>4. AccountOf(c, 0, a) = [nonce   |-> AccountOf(c, 0, a).nonce,
                           written |-> AccountOf(c, 0, a).written]
  BY AccountFields, Zenon
<1>5. QED
  BY <1>3, <1>4

(* Accounts never go back. *)
LEMMA AccountGrows ==
  ASSUME NEW c, NEW m \in Nat, NEW n \in Nat, m <= n, NEW a
  PROVE  /\ AccountOf(c, m, a).nonce <= AccountOf(c, n, a).nonce
         /\ AccountOf(c, m, a).written <= AccountOf(c, n, a).written
<1>1. Sent(c, m, a) \in SUBSET Sent(c, n, a)
  BY DEF Sent
<1>2. Writes(c, m, a) \subseteq Writes(c, n, a)
  BY DEF Writes
<1>3. Cardinality(Sent(c, m, a)) <= Cardinality(Sent(c, n, a))
  BY <1>1, SentFinite, FS_Subset, Zenon
<1>4. Greatest(Writes(c, m, a)) <= Greatest(Writes(c, n, a))
  BY <1>2, WritesGreatest, Zenon
<1>5. QED
  BY <1>3, <1>4, AccountParts, Zenon

(* What block n + 1 does to an account. *)
LEMMA AccountAfter ==
  ASSUME NEW c, NEW n \in Nat, NEW a
  PROVE  /\ a = c[n + 1].txn.sender =>
              AccountOf(c, n + 1, a).nonce = AccountOf(c, n, a).nonce + 1
         /\ a # c[n + 1].txn.sender =>
              AccountOf(c, n + 1, a).nonce = AccountOf(c, n, a).nonce
         /\ a \in Touched(c[n + 1].txn) => AccountOf(c, n + 1, a).written = n + 1
         /\ a \notin Touched(c[n + 1].txn) =>
              AccountOf(c, n + 1, a).written = AccountOf(c, n, a).written
<1>1. n + 1 \in Nat /\ n + 1 \notin Sent(c, n, a) /\ 1 .. (n + 1) = (1 .. n) \cup {n + 1}
  BY DEF Sent
<1>2. Sent(c, n + 1, a) = IF a = c[n + 1].txn.sender
                       THEN Sent(c, n, a) \cup {n + 1} ELSE Sent(c, n, a)
  BY <1>1 DEF Sent
<1>3. Writes(c, n + 1, a) = IF a \in Touched(c[n + 1].txn)
                         THEN Writes(c, n, a) \cup {n + 1} ELSE Writes(c, n, a)
  BY <1>1 DEF Writes
<1>4. AccountOf(c, n + 1, a).nonce =
        IF a = c[n + 1].txn.sender THEN AccountOf(c, n, a).nonce + 1
        ELSE AccountOf(c, n, a).nonce
  <2>1. Cardinality(Sent(c, n, a) \cup {n + 1}) = Cardinality(Sent(c, n, a)) + 1
    BY <1>1, SentFinite, FS_AddElement, Zenon
  <2>3. CASE a = c[n + 1].txn.sender
    <3>1. /\ AccountOf(c, n + 1, a).nonce = Cardinality(Sent(c, n, a)) + 1
          /\ AccountOf(c, n, a).nonce = Cardinality(Sent(c, n, a))
      <4>1. Sent(c, n + 1, a) = Sent(c, n, a) \cup {n + 1}
        BY <1>2, <2>3, Zenon
      <4>2. /\ AccountOf(c, n + 1, a).nonce = Cardinality(Sent(c, n + 1, a))
            /\ AccountOf(c, n, a).nonce = Cardinality(Sent(c, n, a))
        BY AccountParts, Zenon
      <4>3. QED
        BY <2>1, <4>1, <4>2, Zenon
    <3>2. QED
      BY <2>3, <3>1, Zenon
  <2>4. CASE a # c[n + 1].txn.sender
    <3>1. /\ AccountOf(c, n + 1, a).nonce = Cardinality(Sent(c, n, a))
          /\ AccountOf(c, n, a).nonce = Cardinality(Sent(c, n, a))
      BY <1>2, <2>4, AccountParts, Zenon
    <3>2. QED
      BY <2>4, <3>1, Zenon
  <2>5. QED
    BY <2>3, <2>4, Zenon
<1>5. AccountOf(c, n + 1, a).written =
        IF a \in Touched(c[n + 1].txn) THEN n + 1 ELSE AccountOf(c, n, a).written
  <2>1. Greatest(Writes(c, n, a) \cup {n + 1}) = n + 1
    <3>1. Writes(c, n, a) \cup {n + 1} \subseteq Nat
      BY WritesGreatest
    <3>2. \A m \in Writes(c, n, a) \cup {n + 1} : m <= n + 1
      BY WritesGreatest
    <3>3. QED
      BY <3>1, <3>2, GreatestIs
  <2>2. /\ AccountOf(c, n + 1, a).written = Greatest(Writes(c, n + 1, a))
        /\ AccountOf(c, n, a).written = Greatest(Writes(c, n, a))
    BY AccountParts, Zenon
  <2>3. QED
    BY <1>3, <2>1, <2>2, Zenon
<1>6. QED
  BY <1>4, <1>5, Zenon

(* The laws that the steps of LedgerProofs rest on. *)
LEMMA AccountLawsHold == AccountLaws
<1>1. \A c, a : AccountOf(c, 0, a) = [nonce |-> 0, written |-> 0]
  BY AccountAtGenesis, Zenon
<1>2. ASSUME NEW c, NEW a, NEW n \in Nat
      PROVE
       /\ AccountOf(c, n, a).nonce \in Nat /\ AccountOf(c, n, a).written \in 0 .. n
       /\ a = c[n + 1].txn.sender =>
            AccountOf(c, n + 1, a).nonce = AccountOf(c, n, a).nonce + 1
       /\ a # c[n + 1].txn.sender =>
            AccountOf(c, n + 1, a).nonce = AccountOf(c, n, a).nonce
       /\ a \in Touched(c[n + 1].txn) => AccountOf(c, n + 1, a).written = n + 1
       /\ a \notin Touched(c[n + 1].txn) =>
            AccountOf(c, n + 1, a).written = AccountOf(c, n, a).written
  <2>1. AccountOf(c, n, a).nonce \in Nat /\ AccountOf(c, n, a).written \in 0 .. n
    BY AccountType, Zenon
  <2>2. /\ a = c[n + 1].txn.sender =>
             AccountOf(c, n + 1, a).nonce = AccountOf(c, n, a).nonce + 1
        /\ a # c[n + 1].txn.sender =>
             AccountOf(c, n + 1, a).nonce = AccountOf(c, n, a).nonce
        /\ a \in Touched(c[n + 1].txn) => AccountOf(c, n + 1, a).written = n + 1
        /\ a \notin Touched(c[n + 1].txn) =>
             AccountOf(c, n + 1, a).written = AccountOf(c, n, a).written
    BY AccountAfter, Zenon
  <2>3. QED
    BY <2>1, <2>2, Zenon
<1>3. ASSUME NEW c, NEW a, NEW m \in Nat, NEW n \in Nat, m <= n
      PROVE  /\ AccountOf(c, m, a).nonce <= AccountOf(c, n, a).nonce
             /\ AccountOf(c, m, a).written <= AccountOf(c, n, a).written
  BY <1>3, AccountGrows, Zenon
<1>4. QED
  BY <1>1, <1>2, <1>3, Zenon DEF AccountLaws

-----------------------------------------------------------------------------
(* At every statement of mine_block the state database is as far as the     *)
(* chain and the commit of the block under way have brought it              *)
(* (blockchain.rs:311-446), for any number of threads, accounts,            *)
(* transactions and requests.                                               *)
THEOREM DatabaseInductive == Spec => []DInv
<1>1. Init => DInv
  BY InitDInv, AccountLawsHold, Zenon
<1>2. IInv /\ RInv /\ DInv /\ [Next]_vars => DInv'
  BY NextDInv, AccountLawsHold, Zenon
<1>3. QED
  BY <1>1, <1>2, Inductive, AnswersInductive, PTL DEF Spec

(* When no mine_block runs and none has panicked, the database is the       *)
(* replay of the chain: mine_block commits all the accounts its transaction *)
(* touches, and a transaction that fails leaves no trace.                   *)
THEOREM DatabaseIsReplayAlways == Spec => []DatabaseIsReplay
BY Replayed, DatabaseInductive, Inductive, PTL

(* A handle of state(), read after the lock is released and during the      *)
(* commits of others, never returns an account older than the chain was     *)
(* when the request arrived.                                                *)
THEOREM StateNotOlderThanCallAlways == Spec => []StateNotOlderThanCall
<1>1. DInv => StateNotOlderThanCall
  <2> SUFFICES ASSUME DInv, NEW t \in Threads, pc[t] = "done", req[t].op = "state",
                      res[t].tag = "ok", NEW p \in res[t].val
               PROVE  /\ p[2].nonce >= L!AccountAt(since[t], p[1]).nonce
                      /\ p[2].written >= L!AccountAt(since[t], p[1]).written
    BY Zenon DEF StateNotOlderThanCall
  <2>1. NotBehind(p[2], since[t], p[1])
    BY Zenon DEF DInv, HandleInv
  <2>2. L!AccountAt(since[t], p[1]) = AccountOf(MinedChain, since[t], p[1])
    BY AccountIs, Zenon
  <2>3. QED
    BY <2>1, <2>2, Zenon DEF NotBehind
<1>2. QED
  BY <1>1, DatabaseInductive, PTL

(* Blockchain implements the ledger as far as logs() and the handles of     *)
(* state() are left aside, of which Loose is all that is said: every        *)
(* send_raw_transaction, get_block, get_txn, get_txn_by_hash,               *)
(* get_txn_receipt_by_hash and simulate_transaction, and every panic, is    *)
(* one atomic step of the ledger between its call and its return, whatever  *)
(* else runs (blockchain.rs:138-505).                                       *)
THEOREM StepsImplement ==
  Spec => L!Init /\ [][L!Next \/ \E t \in Threads : Loose(t)]_(L!vars)
BY InitImplements, NextImplements, Inductive, AnswersInductive, DatabaseInductive, PTL
DEF Spec

(* For clients that issue neither of those two requests, Blockchain         *)
(* implements the ledger: mine_block's ten steps under the lock, the two    *)
(* looks of get_txn and the poisoned lock are invisible to them.            *)
THEOREM RefinesLedger ==
  ASSUME \A r \in Requests : r.op \notin {"state", "logs"}
  PROVE  Spec => Refines
<1>1. IInv => ~ \E t \in Threads : Loose(t)
  BY LedgerData, Zenon DEF IInv, TypeOK, TasksTypeOK, Loose, L!Serving
<1>2. QED
  BY <1>1, StepsImplement, Inductive, PTL DEF Refines, L!Spec
=============================================================================
