--------------------------- MODULE MCZeroVaultApi ---------------------------
(***************************************************************************)
(* Small instances of ZeroVaultApi, on an empty database or on one with an *)
(* account or two, an entry of the first and a token for each, of which    *)
(* the first one's expires earlier.                                        *)
(***************************************************************************)
EXTENDS ZeroVaultApi, TLC

CONSTANTS alice, bob, k1, k2, p1, p2, b1, b2

RegisterOnly == {"register"}

MCUser(id, name, key, kdf) ==
    [id |-> id, username |-> name, auth_key_hash |-> hash_auth_key(key),
     kdf |-> kdf]

NoRows == {}
TwoUsers   == {MCUser(1, alice, k1, p1), MCUser(2, bob, k2, p2)}
OneUser    == {MCUser(1, alice, k1, p1)}
OneEntry   == {[id |-> 1, user_id |-> 1, blob |-> b1]}
OneToken   == {[sub |-> alice, exp |-> 1]}
TwoTokens  == {[sub |-> alice, exp |-> 1], [sub |-> bob, exp |-> 2]}

\* Requests differ only in name.
RequestSymmetry == Permutations(Requests)

=============================================================================
