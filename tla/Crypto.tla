------------------------------- MODULE Crypto -------------------------------
(***************************************************************************)
(* Encryption as the gateway uses it: nonces that count                    *)
(* (ekiden_crypto/src/mrae/nonce.rs), the box primitives                   *)
(* (ekiden_crypto/src/mrae/deoxysii.rs) and the layout of an encrypted     *)
(* payload (src/confidential/crypto.rs).                                   *)
(*                                                                         *)
(* A byte string is a sequence of units.  A public key, a length field, a  *)
(* nonce and the tag of a ciphertext are one unit each.  The cipher is     *)
(* ideal: what was sealed opens with the same key, nonce and additional    *)
(* data, and with nothing else.                                            *)
(***************************************************************************)
EXTENDS Naturals, Sequences

CONSTANT
  CounterSize  \* 2^32: values the counting bits of a nonce can have

ASSUME CounterAssumption == CounterSize \in Nat /\ CounterSize >= 2

Counters == 0 .. CounterSize - 1

(* Option<T>: the empty set is None. *)
None == {}
Some(x) == {x}
The(option) == CHOOSE x \in option : TRUE

(* Result<T, _> *)
Ok(x) == [ok |-> TRUE, val |-> x]
Err   == [ok |-> FALSE]

-----------------------------------------------------------------------------
(* Nonce::new.  The tag, which no operation changes, and the counting bits  *)
(* of current_value and of start_value.                                     *)
NonceNew(tag, counter) == [tag |-> tag, current |-> counter, start |-> counter]

(* What is on the wire of a nonce: current_value. *)
Wire(nonce) == << nonce.tag, nonce.current >>

(* "If about to overflow wrap around to 0." *)
NextCounter(n) == IF n = CounterSize - 1 THEN 0 ELSE n + 1

(* Mutant: the counter just wraps. *)
BugIncrement(nonce) == Ok([nonce EXCEPT !.current = NextCounter(nonce.current)])

(* Nonce::increment: an error, and the nonce unchanged, when all values     *)
(* have been used.                                                          *)
Increment(nonce) ==
  IF NextCounter(nonce.current) = nonce.start THEN Err
  ELSE Ok([nonce EXCEPT !.current = NextCounter(nonce.current)])

-----------------------------------------------------------------------------
(* DeoxysII::seal and open (external).  Each unit of a ciphertext depends   *)
(* on all of the inputs; there is one more than there is plaintext.         *)
Seal(key, nonce, plain, aad) ==
  [i \in 1 .. Len(plain) + 1 |->
     [key |-> key, nonce |-> nonce, plain |-> plain, aad |-> aad, at |-> i]]

Open(key, nonce, cipher, aad) ==
  IF cipher # << >> /\ cipher = Seal(key, nonce, cipher[1].plain, aad)
  THEN Ok(cipher[1].plain) ELSE Err

(* derive_symmetric_key: Diffie-Hellman gives both ends the same key.  A    *)
(* key pair is known by the name of its owner.                              *)
DeriveSymmetricKey(public, private) == {public, private}

BoxSeal(nonce, plain, aad, peer, private) ==
  Seal(DeriveSymmetricKey(peer, private), nonce, plain, aad)

BoxOpen(nonce, cipher, aad, peer, private) ==
  Open(DeriveSymmetricKey(peer, private), nonce, cipher, aad)

-----------------------------------------------------------------------------
(* encode_encryption:                                                       *)
(* PUBLIC_KEY || CIPHER_LEN || AAD_LEN || CIPHER || AAD || NONCE            *)
EncodeEncryption(cipher, nonce, public, aad) ==
  << public, Len(cipher), Len(aad) >> \o cipher \o aad \o << Wire(nonce) >>

Headers == 4   \* public key, two length fields and nonce

(* Mutant: the additional data is left out of the expected length. *)
BugSplit(data) ==
  LET cipherLen == data[2]
      aadLen    == data[3]
  IN  IF Len(data) < Headers \/ Len(data) # Headers + cipherLen THEN Err
      ELSE Ok([peer   |-> data[1],
               cipher |-> SubSeq(data, 4, 3 + cipherLen),
               aad    |-> SubSeq(data, 4 + cipherLen, 3 + cipherLen + aadLen),
               nonce  |-> data[Len(data)]])

(* split_encrypted_payload: an error if the data is too short for the       *)
(* fields of fixed size or its length is not the one the fields announce.   *)
(* The lengths are those EncodeEncryption wrote, in a payload that is whole *)
(* or cut: the sum of two lengths near 2^64 is outside the model.           *)
SplitEncryptedPayload(data) ==
  LET cipherLen == data[2]
      aadLen    == data[3]
  IN  IF Len(data) < Headers \/ Len(data) # Headers + cipherLen + aadLen THEN Err
      ELSE Ok([peer   |-> data[1],
               cipher |-> SubSeq(data, 4, 3 + cipherLen),
               aad    |-> SubSeq(data, 4 + cipherLen, 3 + cipherLen + aadLen),
               nonce  |-> data[Len(data)]])

Encrypt(plain, nonce, peer, public, private, aad) ==
  EncodeEncryption(BoxSeal(Wire(nonce), plain, aad, peer, private), nonce, public, aad)

(* decrypt: Nonce::new(nonce_inner), so the nonce of a payload is both the  *)
(* current and the start value of the nonce returned.                       *)
Decrypt(data, private) ==
  LET split == SplitEncryptedPayload(data) IN
  IF ~ split.ok THEN Err
  ELSE LET p     == split.val
           plain == BoxOpen(p.nonce, p.cipher, p.aad, p.peer, private)
       IN  IF ~ plain.ok THEN Err
           ELSE Ok([plain |-> plain.val, peer |-> p.peer, aad |-> p.aad,
                    nonce |-> NonceNew(p.nonce[1], p.nonce[2])])
=============================================================================
