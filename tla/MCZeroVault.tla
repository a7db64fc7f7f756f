----------------------------- MODULE MCZeroVault -----------------------------
(***************************************************************************)
(* Small instances of ZeroVault.  The database holds the accounts of alice *)
(* and carol, each with an entry; bob is new.  Alice registered from a tab *)
(* of this build, carol when the Argon2 costs were still lower.            *)
(***************************************************************************)
EXTENDS ZeroVault, TLC

CONSTANTS alice, bob, carol, pwa, pwb, s1, s2, s3, note

Params(salt, costs) == [salt |-> salt, costs |-> costs]

MCSalts     == {s2, s3}
MCPasswords == {pwa, pwb}
EarlierCosts == "2, 65536, 4"
MCKdfParams == {Params(s, ARGON2_COSTS) : s \in {s1, s2, s3}}
                   \cup {Params(s1, EarlierCosts)}
MCMaterial  == {argon2id(p, k.salt, k.costs) : p \in MCPasswords, k \in MCKdfParams}
MCAuthKeys  == {hkdf(m, HKDF_INFO_AUTH_KEY) : m \in MCMaterial}
MCBlobs     == {encrypt_entry(hkdf(m, HKDF_INFO_ENC_KEY), note) : m \in MCMaterial}

Account(id, name, password, kdf) ==
    [id |-> id, username |-> name, kdf |-> kdf,
     auth_key_hash |-> hash_auth_key(hkdf(
         argon2id(password, kdf.salt, kdf.costs), HKDF_INFO_AUTH_KEY))]

Alice == Account(1, alice, pwa, Params(s1, ARGON2_COSTS))
Carol == Account(2, carol, pwa, Params(s1, EarlierCosts))
NoteOf(id, x) == [id |-> id, user_id |-> x.id,
                  blob |-> encrypt_entry(AccountKeys(pwa, x.kdf).enc_key, note)]
MCSeedUsers   == {Alice, Carol}
MCSeedEntries == {NoteOf(1, Alice), NoteOf(2, Carol)}
NoRows == {}

Form(username, password, confirm) ==
    [username |-> username, password |-> password, confirm |-> confirm]

AliceAndBob == {Form(alice, pwa, None), Form(bob, pwb, None),
                Form(bob, pwb, pwb)}
AliceLogsIn == {Form(alice, pwa, None)}
CarolLogsIn == {Form(carol, pwa, None)}

\* generate_salt may return either.
SaltSymmetry == Permutations(MCSalts)

MCTokens == [sub: {alice, bob, carol}, exp: 0 .. MaxTime + TokenTTL]

=============================================================================
