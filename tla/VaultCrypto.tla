----------------------------- MODULE VaultCrypto -----------------------------
(***************************************************************************)
(* The cryptographic primitives of ZeroVault, as terms.                    *)
(*                                                                         *)
(* Hashing, key derivation and encryption are free constructors: a value   *)
(* remembers what it was built from and two values are equal exactly when  *)
(* they were built from the same parts.  That is the usual symbolic        *)
(* reading of "bcrypt, Argon2id, HKDF and AES-GCM are secure"              *)
(* (SECURITY.md, Cryptographic Assumptions).                               *)
(*                                                                         *)
(* Definitions named ..Bug are faulty variants of the one they precede;    *)
(* nothing uses them.                                                      *)
(***************************************************************************)

\* backend/zerovault/app/crypto/auth_key.py, hash_auth_key: the bcrypt string
\* stored for an auth_key.  The random bcrypt salt never decides a
\* comparison and is left out.
hash_auth_key(auth_key) == [bcrypt |-> auth_key]

\* backend/zerovault/app/crypto/auth_key.py, verify_auth_key: bcrypt.checkpw
\* accepts the key the stored hash was made from and no other.
verify_auth_key(auth_key, stored_hash) == stored_hash.bcrypt = auth_key

\* frontend/zerovault/app/crypto/constants.py: the Argon2 costs and the two
\* labels that keep the keys derived from one password apart.
ARGON2_COSTS == "3, 65536, 4"
HKDF_INFO_ENC_KEY == "zerovault-v1-encryption-key"
HKDF_INFO_AUTH_KEY == "zerovault-v1-authentication-key"

argon2id(secret, salt, costs) ==
    [secret |-> secret, salt |-> salt, costs |-> costs]
hkdf(key_material, info) == [from |-> key_material, info |-> info]

OneLabelBug(master_password, salt) ==
    LET key == hkdf(argon2id(master_password, salt, ARGON2_COSTS),
                    HKDF_INFO_AUTH_KEY)
    IN [enc_key |-> key, auth_key |-> key]

\* frontend/zerovault/app/crypto/kdf.py, derive_keys: Argon2id at the costs
\* of this build, whatever the account's are, then HKDF once per label.
derive_keys(master_password, salt) ==
    LET material == argon2id(master_password, salt, ARGON2_COSTS)
    IN [enc_key  |-> hkdf(material, HKDF_INFO_ENC_KEY),
        auth_key |-> hkdf(material, HKDF_INFO_AUTH_KEY)]

\* frontend/zerovault/app/crypto/vault_cipher.py: AES-256-GCM.  The random
\* nonce is left out.  Decrypting under another key, or what nobody
\* encrypted, fails on the tag.
DecryptionFailed == "[Decryption failed]"
encrypt_entry(enc_key, plaintext) == [key |-> enc_key, plaintext |-> plaintext]

NoTagBug(enc_key, ciphertext) == ciphertext.plaintext

decrypt_entry(enc_key, ciphertext) ==
    IF ciphertext.key = enc_key THEN ciphertext.plaintext ELSE DecryptionFailed

=============================================================================
