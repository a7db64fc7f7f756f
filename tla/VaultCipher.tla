----------------------------- MODULE VaultCipher -----------------------------
(***************************************************************************)
(* The crypto package with its lengths, encodings and exceptions.          *)
(*                                                                         *)
(* Bytes are a length and what they hold, a term of VaultCrypto.  A text   *)
(* is a number of characters, whether bytes.fromhex takes it, and the      *)
(* bytes that gives: at most one per two characters, and fewer when there  *)
(* is whitespace between them, which fromhex skips.                        *)
(*                                                                         *)
(* An operator f that may raise comes with a predicate f_raises, and is    *)
(* used where that is FALSE.                                               *)
(***************************************************************************)
EXTENDS Naturals

Term == INSTANCE VaultCrypto

AES_KEY_LENGTH == 32
NONCE_LENGTH == 12
GCM_TAG_LENGTH == 16
SALT_LENGTH == 32

Bytes(n, of) == [n |-> n, of |-> of]

IsText(v) == v.len \in Nat /\ v.n \in Nat /\ 2 * v.n <= v.len

Texts(lengths, contents) ==
    {v \in [len: lengths, is_hex: BOOLEAN,
            n: {l \div 2 - d : l \in lengths, d \in {0, 1}}, of: contents] :
         IsText(v)}

hex(bytes) ==
    [len |-> 2 * bytes.n, is_hex |-> TRUE, n |-> bytes.n, of |-> bytes.of]
fromhex_raises(text) == ~text.is_hex
fromhex(text) == Bytes(text.n, text.of)

-----------------------------------------------------------------------------
(* kdf.py                                                                  *)

\* An empty password raises as well; the forms let none through.
derive_keys_raises(master_password, salt) == salt.n < SALT_LENGTH

derive_keys(master_password, salt) ==
    LET keys == Term!derive_keys(master_password, salt)
    IN [enc_key  |-> Bytes(AES_KEY_LENGTH, keys.enc_key),
        auth_key |-> Bytes(AES_KEY_LENGTH, keys.auth_key)]

-----------------------------------------------------------------------------
(* vault_cipher.py                                                         *)

encrypt_entry_raises(enc_key) == enc_key.n # AES_KEY_LENGTH

TwoNoncesBug(enc_key, plaintext, nonce) ==
    [ciphertext |-> Bytes(plaintext.n + GCM_TAG_LENGTH,
                          [key |-> enc_key, nonce |-> nonce,
                           plaintext |-> plaintext]),
     nonce |-> Bytes(NONCE_LENGTH, "another")]

\* A VaultCiphertext: the tag authenticates key, nonce and plaintext.
encrypt_entry(enc_key, plaintext, nonce) ==
    [ciphertext |-> Bytes(plaintext.n + GCM_TAG_LENGTH,
                          [key |-> enc_key, nonce |-> nonce,
                           plaintext |-> plaintext]),
     nonce |-> nonce]

\* The lengths are checked first; then a wrong key, nonce or ciphertext
\* fails on the tag.
decrypt_entry_raises(enc_key, ct) ==
    CASE enc_key.n # AES_KEY_LENGTH \/ ct.nonce.n # NONCE_LENGTH -> "ValueError"
      [] \/ ct.ciphertext.of.key # enc_key
         \/ ct.ciphertext.of.nonce # ct.nonce
         \/ ct.ciphertext.n # ct.ciphertext.of.plaintext.n + GCM_TAG_LENGTH
                                                              -> "InvalidTag"
      [] OTHER                                                -> "nothing"

decrypt_entry(ct) == ct.ciphertext.of.plaintext

=============================================================================
