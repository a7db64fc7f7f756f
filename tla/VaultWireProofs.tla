--------------------------- MODULE VaultWireProofs ---------------------------
(***************************************************************************)
(* What the validators let through fits the columns and is read back as it *)
(* was sent, for any texts, any number of accounts and any entries.        *)
(***************************************************************************)
EXTENDS VaultWire, TLAPS

UserFits(x) == x.argon2_salt.len <= 64 /\ x.auth_key_hash.bcrypt.n <= 72
EntryFits(e) == e.nonce_hex.len <= 24

\* A key of 64 characters has 32 bytes at most, whitespace or not.
LEMMA KeyTextFits ==
    ASSUME NEW v, IsText(v), validate_auth_key_hex(v)
    PROVE  fromhex(v).n <= 72
BY DEF IsText, validate_auth_key_hex, fromhex, Bytes

\* A derived key is a text like any other.
LEMMA DerivedKeyIsText ==
    ASSUME NEW password, NEW salt
    PROVE  IsText(hex(derive_keys(password, salt).auth_key))
BY DEF derive_keys, hex, IsText, Bytes, AES_KEY_LENGTH

\* register inserts a row that fits, or is refused.
LEMMA RegisterFits ==
    ASSUME RowsFitColumns, NEW name, NEW auth_key_hex, NEW salt_hex,
           IsText(auth_key_hex), register(name, auth_key_hex, salt_hex)
    PROVE  RowsFitColumns'
<1> DEFINE row == [username |-> name, argon2_salt |-> salt_hex,
                   auth_key_hash |-> Term!hash_auth_key(fromhex(auth_key_hex))]
<1>1. UserFits(row)
  <2>1. salt_hex.len <= 64
    BY DEF register, validate_argon2_salt_hex
  <2>2. row.auth_key_hash.bcrypt = fromhex(auth_key_hex)
    BY DEF Term!hash_auth_key
  <2> QED
    BY <2>1, <2>2, KeyTextFits DEF register, UserFits
<1>2. users' = users \cup {row} /\ vault_entries' = vault_entries
  BY DEF register
<1> QED
  BY <1>1, <1>2 DEF RowsFitColumns, UserFits

\* create_vault_entry inserts a row that fits, or is refused.
LEMMA CreateFits ==
    ASSUME RowsFitColumns, NEW name, NEW ciphertext_hex, NEW nonce_hex,
           create_vault_entry(name, ciphertext_hex, nonce_hex)
    PROVE  RowsFitColumns'
<1> DEFINE row == [id |-> Cardinality(vault_entries) + 1, username |-> name,
                   ciphertext_hex |-> ciphertext_hex, nonce_hex |-> nonce_hex]
<1>1. EntryFits(row)
  BY DEF create_vault_entry, validate_nonce_hex, EntryFits
<1>2. vault_entries' = vault_entries \cup {row} /\ users' = users
  BY DEF create_vault_entry
<1> QED
  BY <1>1, <1>2 DEF RowsFitColumns, EntryFits

\* Every row that is ever inserted fits its columns and all of an auth_key
\* counts for bcrypt, whatever texts clients send (schemas.py:54-68, 126-132
\* against models.py:65, 105 and crypto/auth_key.py:31-32).
THEOREM RowsAlwaysFit == WireSpec => []RowsFitColumns
<1>1. WireInit => RowsFitColumns
  BY DEF WireInit, RowsFitColumns
<1>2. ASSUME RowsFitColumns, [WireNext]_wireVars PROVE RowsFitColumns'
  <2>1. ASSUME NEW name \in Usernames, NEW password \in Passwords,
               NEW salt \in Salts, Register(name, password, salt)
        PROVE  RowsFitColumns'
    BY <1>2, <2>1, RegisterFits, DerivedKeyIsText DEF Register
  <2>2. ASSUME NEW name \in Usernames, RegisterElsewhere(name)
        PROVE  RowsFitColumns'
    BY <1>2, <2>2, RegisterFits, WireAssumption DEF RegisterElsewhere
  <2>3. ASSUME NEW name \in Usernames, AddElsewhere(name)
        PROVE  RowsFitColumns'
    BY <1>2, <2>3, CreateFits DEF AddElsewhere
  <2>4. ASSUME NEW account \in created, NEW plaintext \in Plaintexts,
               NEW nonce \in Nonces, AddVaultEntry(account, plaintext, nonce)
        PROVE  RowsFitColumns'
    BY <1>2, <2>4, CreateFits DEF AddVaultEntry
  <2>5. CASE UNCHANGED wireVars
    BY <1>2, <2>5 DEF wireVars, RowsFitColumns
  <2> QED
    BY <1>2, <2>1, <2>2, <2>3, <2>4, <2>5 DEF WireNext
<1> QED
  BY <1>1, <1>2, PTL DEF WireSpec

-----------------------------------------------------------------------------
(* What comes back is what was sent.                                       *)

\* The tables hold hex, and no name twice.
TablesOK ==
    /\ \A x \in users : ~fromhex_raises(x.argon2_salt)
    /\ \A e \in vault_entries :
           ~fromhex_raises(e.ciphertext_hex) /\ ~fromhex_raises(e.nonce_hex)
    /\ \A x, y \in users : x.username = y.username => x = y

\* The row of an account that the form created.
RowOf(a, x, salt) ==
    LET keys == derive_keys(a.password, salt)
    IN /\ x.username = a.username
       /\ x.argon2_salt = hex(salt)
       /\ x.auth_key_hash = Term!hash_auth_key(fromhex(hex(keys.auth_key)))
       /\ a.enc_key = keys.enc_key

CreatedOK == \A a \in created : \E x \in users, salt \in Salts : RowOf(a, x, salt)

\* The row of an entry that the form added.
EntryRowOf(entry, e, nonce) ==
    LET ct == encrypt_entry(entry.account.enc_key, entry.plaintext, nonce)
    IN /\ e.id = entry.id
       /\ e.username = entry.account.username
       /\ e.ciphertext_hex = hex(ct.ciphertext)
       /\ e.nonce_hex = hex(ct.nonce)

AddedOK ==
    \A entry \in added :
        /\ entry.account \in created
        /\ \E e \in vault_entries, nonce \in Nonces : EntryRowOf(entry, e, nonce)

WireInv == TablesOK /\ CreatedOK /\ AddedOK

\* Bytes survive hex.
LEMMA HexAndBack ==
    ASSUME NEW n, NEW of
    PROVE  /\ fromhex(hex(Bytes(n, of))) = Bytes(n, of)
           /\ ~fromhex_raises(hex(Bytes(n, of)))
BY DEF hex, fromhex, fromhex_raises, Bytes

LEMMA SaltsAndNonces ==
    /\ \A salt \in Salts : fromhex(hex(salt)) = salt /\ ~fromhex_raises(hex(salt))
    /\ \A nonce \in Nonces :
           fromhex(hex(nonce)) = nonce /\ ~fromhex_raises(hex(nonce))
BY WireAssumption, HexAndBack

\* Keys have the length of keys, and survive hex.
LEMMA KeysAndBack ==
    ASSUME NEW password, NEW salt
    PROVE  LET keys == derive_keys(password, salt)
           IN /\ fromhex(hex(keys.auth_key)) = keys.auth_key
              /\ validate_auth_key_hex(hex(keys.auth_key))
              /\ keys.enc_key.n = AES_KEY_LENGTH
BY DEF derive_keys, hex, fromhex, fromhex_raises, Bytes,
       validate_auth_key_hex, AES_KEY_LENGTH

\* Whose auth_key is accepted, has the encryption key as well: both come from
\* the same password and salt.
LEMMA KeysGoTogether ==
    ASSUME NEW p, NEW s, NEW q, NEW u,
           derive_keys(p, s).auth_key = derive_keys(q, u).auth_key
    PROVE  derive_keys(p, s).enc_key = derive_keys(q, u).enc_key
<1> DEFINE a == Term!argon2id(p, s, Term!ARGON2_COSTS)
           b == Term!argon2id(q, u, Term!ARGON2_COSTS)
<1>1. Term!hkdf(a, Term!HKDF_INFO_AUTH_KEY) = Term!hkdf(b, Term!HKDF_INFO_AUTH_KEY)
  BY DEF derive_keys, Bytes, Term!derive_keys
<1>2. a = b
  BY <1>1 DEF Term!hkdf
<1> QED
  BY <1>2 DEF derive_keys, Term!derive_keys

\* A salt that was drawn has the length that derive_keys asks for.
LEMMA DrawnSaltsDerive ==
    ASSUME NEW password, NEW s \in Salts
    PROVE  ~derive_keys_raises(password, s)
<1>1. s = Bytes(SALT_LENGTH, s.of)
  BY WireAssumption
<1>2. Bytes(SALT_LENGTH, s.of).n = 32
  BY DEF Bytes, SALT_LENGTH
<1>3. s.n = 32
  BY <1>1, <1>2
<1> QED
  BY <1>3 DEF derive_keys_raises, SALT_LENGTH

\* bcrypt accepts the key it hashed.
LEMMA OwnKeyVerifies ==
    ASSUME NEW key
    PROVE  Term!verify_auth_key(key, Term!hash_auth_key(key))
BY DEF Term!verify_auth_key, Term!hash_auth_key

\* However a login comes about, it ends with the key of its account.
LEMMA LoginGivesTheKey ==
    ASSUME TablesOK, CreatedOK, NEW a \in created
    PROVE  login(a.username, a.password) \subseteq {a.enc_key}
<1>1. PICK x \in users, salt \in Salts : RowOf(a, x, salt)
  BY DEF CreatedOK
<1>2. SUFFICES ASSUME NEW k \in KeysAtLogin(a.username, a.password),
                      NEW y \in Named(a.username),
                      Term!verify_auth_key(fromhex(hex(k.auth_key)),
                                           y.auth_key_hash)
               PROVE  k.enc_key = a.enc_key
  BY DEF login
<1>3. PICK s \in SaltsFor(a.username) : k = derive_keys(a.password, s)
  BY DEF KeysAtLogin
<1>4. y = x
  BY <1>1 DEF TablesOK, Named, RowOf
<1>5. k.auth_key = derive_keys(a.password, salt).auth_key
  BY <1>1, <1>2, <1>3, <1>4, KeysAndBack
  DEF RowOf, Term!verify_auth_key, Term!hash_auth_key
<1> QED
  BY <1>1, <1>3, <1>5, KeysGoTogether DEF RowOf

\* A plain name finds its own row, so that the login does come about.
LEMMA PlainLogin ==
    ASSUME TablesOK, CreatedOK, NEW a \in created, a.username.mark = ""
    PROVE  login(a.username, a.password) = {a.enc_key}
<1>1. PICK x \in users, salt \in Salts : RowOf(a, x, salt)
  BY DEF CreatedOK
<1> DEFINE k == derive_keys(a.password, salt)
<1>2. x \in Named(a.username)
  BY <1>1 DEF Named, RowOf
<1>3. kdf_params_path(a.username) = {a.username}
  BY DEF kdf_params_path
<1>4. salt \in SaltsFor(a.username)
  BY <1>1, <1>2, <1>3, SaltsAndNonces DEF SaltsFor, RowOf
<1>5. k \in KeysAtLogin(a.username, a.password)
  <2>1. ~derive_keys_raises(a.password, salt)
    BY DrawnSaltsDerive
  <2> QED
    BY <1>4, <2>1 DEF KeysAtLogin
<1>6. Term!verify_auth_key(fromhex(hex(k.auth_key)), x.auth_key_hash)
  <2>1. x.auth_key_hash = Term!hash_auth_key(fromhex(hex(k.auth_key)))
    BY <1>1 DEF RowOf
  <2> QED
    BY <2>1, OwnKeyVerifies
<1>7. k.enc_key \in login(a.username, a.password)
  <2>1. validate_auth_key_hex(hex(k.auth_key))
    BY KeysAndBack
  <2> HIDE DEF k
  <2> QED
    BY <1>2, <1>5, <1>6, <2>1 DEF login
<1> QED
  BY <1>1, <1>7, LoginGivesTheKey DEF RowOf

\* An entry that was added opens to what was typed, next to any others.
LEMMA EntryOpens ==
    ASSUME TablesOK, CreatedOK, AddedOK, NEW entry \in added
    PROVE  [id |-> entry.id, clear |-> {entry.plaintext}] \in
               load_vault_entries(entry.account.enc_key,
                                  EntriesOf(entry.account.username))
<1> DEFINE key == entry.account.enc_key
           rows == EntriesOf(entry.account.username)
<1>1. PICK e \in vault_entries, nonce \in Nonces : EntryRowOf(entry, e, nonce)
  BY DEF AddedOK
<1> DEFINE ct == encrypt_entry(key, entry.plaintext, nonce)
<1>2. ct.ciphertext = Bytes(entry.plaintext.n + GCM_TAG_LENGTH,
                            [key |-> key, nonce |-> nonce,
                             plaintext |-> entry.plaintext])
      /\ ct.nonce = nonce
  BY DEF encrypt_entry
<1>3. Ciphertext(e) = [ciphertext |-> ct.ciphertext, nonce |-> nonce]
  BY <1>1, <1>2, HexAndBack, SaltsAndNonces DEF EntryRowOf, Ciphertext
<1>4. key.n = AES_KEY_LENGTH
  BY KeysAndBack DEF AddedOK, CreatedOK, RowOf
<1>5. nonce.n = NONCE_LENGTH
  BY WireAssumption DEF Bytes
<1>6. decrypt_entry_raises(key, Ciphertext(e)) = "nothing"
  BY <1>2, <1>3, <1>4, <1>5 DEF decrypt_entry_raises, Bytes
<1>7. decrypt_entry(Ciphertext(e)) = entry.plaintext
  BY <1>2, <1>3 DEF decrypt_entry, Bytes
<1>8. e \in rows /\ e.id = entry.id
  BY <1>1 DEF EntryRowOf, EntriesOf
<1>9. ~ \E raw \in rows : \/ fromhex_raises(raw.ciphertext_hex)
                          \/ fromhex_raises(raw.nonce_hex)
  BY DEF TablesOK, EntriesOf
<1> HIDE DEF key, rows, ct
<1> QED
  BY <1>6, <1>7, <1>8, <1>9 DEF load_vault_entries, key, rows

LEMMA InvReadsBack ==
    WireInv => PlainAccountsLogIn /\ BadEntryIsAlone /\ AddedIsReadable
<1> SUFFICES ASSUME WireInv
             PROVE  PlainAccountsLogIn /\ BadEntryIsAlone /\ AddedIsReadable
  OBVIOUS
<1>1. PlainAccountsLogIn
  BY PlainLogin DEF WireInv, PlainAccountsLogIn
<1>2. BadEntryIsAlone
  <2> SUFFICES ASSUME NEW a \in created
               PROVE  LET rows == EntriesOf(a.username)
                      IN {shown.id : shown \in load_vault_entries(a.enc_key, rows)}
                             = {raw.id : raw \in rows}
    BY DEF BadEntryIsAlone
  <2> DEFINE rows == EntriesOf(a.username)
             clear(raw) ==
                 IF decrypt_entry_raises(a.enc_key, Ciphertext(raw)) = "nothing"
                 THEN {decrypt_entry(Ciphertext(raw))} ELSE {}
  <2>1. load_vault_entries(a.enc_key, rows) =
            {[id |-> raw.id, clear |-> clear(raw)] : raw \in rows}
    BY DEF WireInv, TablesOK, EntriesOf, load_vault_entries
  <2> DEFINE show(raw) == [id |-> raw.id, clear |-> clear(raw)]
             ids == {shown.id : shown \in {show(raw) : raw \in rows}}
  <2> HIDE DEF rows, clear
  <2>2. ids = {raw.id : raw \in rows}
    <3>1. \A raw : show(raw).id = raw.id
      OBVIOUS
    <3> HIDE DEF show
    <3> QED
      BY <3>1
  <2>3. load_vault_entries(a.enc_key, rows) = {show(raw) : raw \in rows}
    BY <2>1
  <2> QED
    BY <2>2, <2>3 DEF rows
<1>3. AddedIsReadable
  BY EntryOpens DEF WireInv, AddedIsReadable
<1> QED
  BY <1>1, <1>2, <1>3

-----------------------------------------------------------------------------
(* And the steps keep it that way.                                         *)

\* register inserts hex under a new name, or is refused.
LEMMA RegisterKeeps ==
    ASSUME TablesOK, NEW name, NEW auth_key_hex, NEW salt_hex,
           register(name, auth_key_hex, salt_hex)
    PROVE  TablesOK' /\ users \subseteq users'
<1> DEFINE row == [username |-> name, argon2_salt |-> salt_hex,
                   auth_key_hash |-> Term!hash_auth_key(fromhex(auth_key_hex))]
<1>1. users' = users \cup {row} /\ vault_entries' = vault_entries
  BY DEF register
<1>2. ~fromhex_raises(row.argon2_salt)
  BY DEF register, validate_argon2_salt_hex
<1>3. row.username = name /\ \A y \in users : y.username # name
  BY DEF register, Named
<1> HIDE DEF row
<1>4. \A x \in users' : ~fromhex_raises(x.argon2_salt)
  BY <1>1, <1>2 DEF TablesOK
<1>5. \A x, y \in users' : x.username = y.username => x = y
  BY <1>1, <1>3 DEF TablesOK
<1> QED
  BY <1>1, <1>4, <1>5 DEF TablesOK

\* create_vault_entry inserts hex, or is refused.
LEMMA CreateKeeps ==
    ASSUME TablesOK, NEW name, NEW ciphertext_hex, NEW nonce_hex,
           create_vault_entry(name, ciphertext_hex, nonce_hex)
    PROVE  TablesOK' /\ vault_entries \subseteq vault_entries'
<1> DEFINE row == [id |-> Cardinality(vault_entries) + 1, username |-> name,
                   ciphertext_hex |-> ciphertext_hex, nonce_hex |-> nonce_hex]
<1>1. users' = users /\ vault_entries' = vault_entries \cup {row}
  BY DEF create_vault_entry
<1>2. ~fromhex_raises(row.ciphertext_hex) /\ ~fromhex_raises(row.nonce_hex)
  BY DEF create_vault_entry, validate_ciphertext_hex, validate_nonce_hex
<1> HIDE DEF row
<1> QED
  BY <1>1, <1>2 DEF TablesOK

\* Rows stay, so what was created and added keeps its rows.
LEMMA RowsStay ==
    ASSUME users \subseteq users', vault_entries \subseteq vault_entries'
    PROVE  /\ CreatedOK /\ created' = created => CreatedOK'
           /\ AddedOK /\ created \subseteq created' /\ added' = added => AddedOK'
BY DEF CreatedOK, AddedOK

\* The register form leaves the row its account needs.
LEMMA FormRegisters ==
    ASSUME WireInv, NEW name, NEW password, NEW salt \in Salts,
           Register(name, password, salt)
    PROVE  WireInv'
<1> DEFINE keys == derive_keys(password, salt)
           account == [username |-> name, password |-> password,
                       enc_key |-> keys.enc_key]
           row == [username |-> name, argon2_salt |-> hex(salt),
                   auth_key_hash |->
                       Term!hash_auth_key(fromhex(hex(keys.auth_key)))]
<1>1. /\ register(name, hex(keys.auth_key), hex(salt))
      /\ created' = created \cup {account}
      /\ added' = added
  BY DEF Register
<1>2. TablesOK' /\ users \subseteq users' /\ vault_entries' = vault_entries
  BY <1>1, RegisterKeeps DEF WireInv, register
<1>3. row \in users'
  BY <1>1 DEF register
<1>4. RowOf(account, row, salt)
  BY DEF RowOf
<1> HIDE DEF account, row
<1>5. \E x \in users', s \in Salts : RowOf(account, x, s)
  BY <1>3, <1>4
<1>6. CreatedOK'
  BY <1>1, <1>2, <1>5 DEF WireInv, CreatedOK
<1>7. AddedOK'
  BY <1>1, <1>2, RowsStay DEF WireInv
<1> QED
  BY <1>2, <1>6, <1>7 DEF WireInv

\* The form for a new entry encrypts it with the key of its account.
LEMMA FormAdds ==
    ASSUME WireInv, NEW account \in created, NEW plaintext, NEW nonce \in Nonces,
           AddVaultEntry(account, plaintext, nonce)
    PROVE  WireInv'
<1>1. PICK enc_key \in login(account.username, account.password) :
          LET ct == encrypt_entry(enc_key, plaintext, nonce)
          IN /\ create_vault_entry(account.username, hex(ct.ciphertext), hex(ct.nonce))
             /\ added' = added \cup
                    {[id |-> Cardinality(vault_entries) + 1, account |-> account,
                      plaintext |-> plaintext]}
             /\ created' = created
  BY DEF AddVaultEntry
<1>2. enc_key = account.enc_key
  BY <1>1, LoginGivesTheKey DEF WireInv
<1> DEFINE ct == encrypt_entry(enc_key, plaintext, nonce)
           entry == [id |-> Cardinality(vault_entries) + 1, account |-> account,
                     plaintext |-> plaintext]
           row == [id |-> Cardinality(vault_entries) + 1,
                   username |-> account.username,
                   ciphertext_hex |-> hex(ct.ciphertext),
                   nonce_hex |-> hex(ct.nonce)]
<1>3. create_vault_entry(account.username, hex(ct.ciphertext), hex(ct.nonce))
      /\ added' = added \cup {entry}
  BY <1>1
<1>4. TablesOK' /\ users' = users /\ vault_entries \subseteq vault_entries'
  BY <1>3, CreateKeeps DEF WireInv, create_vault_entry
<1>5. row \in vault_entries'
  BY <1>3 DEF create_vault_entry
<1>6. EntryRowOf(entry, row, nonce)
  BY <1>2 DEF EntryRowOf
<1>7. entry.account = account
  OBVIOUS
<1> HIDE DEF entry, row
<1>8. CreatedOK'
  BY <1>1, <1>4, RowsStay DEF WireInv
<1>9. AddedOK'
  BY <1>1, <1>3, <1>4, <1>5, <1>6, <1>7 DEF WireInv, AddedOK
<1> QED
  BY <1>4, <1>8, <1>9 DEF WireInv

LEMMA WireInvariance == WireSpec => []WireInv
<1>1. WireInit => WireInv
  BY DEF WireInit, WireInv, TablesOK, CreatedOK, AddedOK
<1>2. ASSUME WireInv, [WireNext]_wireVars PROVE WireInv'
  <2>1. ASSUME NEW name \in Usernames, NEW password \in Passwords,
               NEW salt \in Salts, Register(name, password, salt)
        PROVE  WireInv'
    BY <1>2, <2>1, FormRegisters
  <2>2. ASSUME NEW name \in Usernames, RegisterElsewhere(name)
        PROVE  WireInv'
    <3>1. PICK auth_key_hex \in KeyTexts, salt_hex \in SaltTexts :
              register(name, auth_key_hex, salt_hex)
      BY <2>2 DEF RegisterElsewhere
    <3>2. TablesOK' /\ users \subseteq users' /\ vault_entries' = vault_entries
      BY <1>2, <3>1, RegisterKeeps DEF WireInv, register
    <3> QED
      BY <1>2, <2>2, <3>2, RowsStay DEF WireInv, RegisterElsewhere
  <2>3. ASSUME NEW name \in Usernames, AddElsewhere(name)
        PROVE  WireInv'
    <3>1. PICK ciphertext_hex \in CiphertextTexts, nonce_hex \in NonceTexts :
              create_vault_entry(name, ciphertext_hex, nonce_hex)
      BY <2>3 DEF AddElsewhere
    <3>2. TablesOK' /\ users' = users /\ vault_entries \subseteq vault_entries'
      BY <1>2, <3>1, CreateKeeps DEF WireInv, create_vault_entry
    <3> QED
      BY <1>2, <2>3, <3>2, RowsStay DEF WireInv, AddElsewhere
  <2>4. ASSUME NEW account \in created, NEW plaintext \in Plaintexts,
               NEW nonce \in Nonces, AddVaultEntry(account, plaintext, nonce)
        PROVE  WireInv'
    BY <1>2, <2>4, FormAdds
  <2>5. CASE UNCHANGED wireVars
    BY <1>2, <2>5 DEF wireVars, WireInv, TablesOK, CreatedOK, AddedOK
  <2> QED
    BY <1>2, <2>1, <2>2, <2>3, <2>4, <2>5 DEF WireNext
<1> QED
  BY <1>1, <1>2, PTL DEF WireSpec

\* Whoever registers with the form under a plain name gets in with the same
\* password, and with the key the account began with (state.py:216-232,
\* 264-296), however many accounts there are and whatever else is stored.
THEOREM PlainAccountsGetIn == WireSpec => []PlainAccountsLogIn
BY WireInvariance, InvReadsBack, PTL

\* No text that the validators accept makes load_vault_entries raise and hide
\* the other entries (schemas.py:126-143 against state.py:344-369).
THEOREM BadEntriesStandAlone == WireSpec => []BadEntryIsAlone
BY WireInvariance, InvReadsBack, PTL

\* What the form added is shown in clear from then on, next to any rows that
\* other clients store (state.py:399-411, 344-359).
THEOREM AddedStaysReadable == WireSpec => []AddedIsReadable
BY WireInvariance, InvReadsBack, PTL

=============================================================================
