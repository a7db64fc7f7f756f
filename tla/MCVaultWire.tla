----------------------------- MODULE MCVaultWire -----------------------------
(***************************************************************************)
(* Small instances of VaultWire.  Other clients send texts one character   *)
(* and one byte around each limit.                                         *)
(***************************************************************************)
EXTENDS VaultWire

Name(stem, mark) == [stem |-> stem, mark |-> mark]
PlainNames == {Name("alice", ""), Name("bob", "")}
AllNames == {Name("alice", mark) : mark \in Marks}

MCSalts == {Bytes(32, "s1"), Bytes(32, "s2")}
MCNonces == {Bytes(12, "n1"), Bytes(12, "n2")}
MCPlaintexts == {[text |-> "note", n |-> 58]}

Keys(password) == derive_keys(password, Bytes(32, "s1"))
MCKeyTexts ==
    Texts({62, 64, 66}, {Keys("other").auth_key.of}) \cup {hex(Keys("pw1").auth_key)}
MCSaltTexts == Texts({62, 64, 66}, {"other"})
MCNonceTexts == Texts({23, 24, 25, 26}, {"n1"})

\* Made up, or encrypted by a client of another make that knows the key.
Contents == {[key |-> key, nonce |-> Bytes(12, "n1"),
              plaintext |-> [text |-> "mine", n |-> 1]] :
                 key \in {Keys("pw1").enc_key, Keys("other").enc_key}}
MCCiphertextTexts == Texts({33, 34, 35}, Contents)

=============================================================================
