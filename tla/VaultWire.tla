------------------------------ MODULE VaultWire ------------------------------
(***************************************************************************)
(* What travels between frontend, backend and tables: hex texts, their     *)
(* validators, the columns that hold them, and what login and              *)
(* load_vault_entries make of them when they come back.                    *)
(*                                                                         *)
(* The frontend is one client of the API; others, with a token of the same *)
(* account, send any texts.  Both meet the same validators.  Reading back  *)
(* changes nothing, so login and load are operators here, asked about in   *)
(* every state; what they do to the State is in ZeroVaultState.            *)
(*                                                                         *)
(* Definitions named ..Bug are faulty variants of the one they precede;    *)
(* nothing uses them.                                                      *)
(***************************************************************************)
EXTENDS VaultCipher, FiniteSets

CONSTANTS
    Usernames,    \* records of a stem and a mark, see kdf_params_path
    Passwords,
    Salts,        \* what os.urandom may return: 32 bytes
    Nonces,       \* 12 bytes
    Plaintexts,   \* entries, with the length of their JSON in n
    KeyTexts,     \* what other clients may send as auth_key_hex, ...
    SaltTexts,
    NonceTexts,
    CiphertextTexts,
    MaxUsers,     \* bounds of the model: rows of each table
    MaxEntries

VARIABLES
    users,          \* rows of table users
    vault_entries,  \* rows of table vault_entries
    created,        \* accounts a user of the frontend was told to have
    added           \* entries a user of the frontend was told are stored

wireVars == <<users, vault_entries, created, added>>

Marks == {"", "/", "?", "#", "%"}

ASSUME WireAssumption ==
    /\ \A name \in Usernames : name.mark \in Marks
    /\ \A salt \in Salts : salt = Bytes(SALT_LENGTH, salt.of)
    /\ \A nonce \in Nonces : nonce = Bytes(NONCE_LENGTH, nonce.of)
    /\ \A v \in KeyTexts \cup SaltTexts \cup NonceTexts \cup CiphertextTexts :
           IsText(v)
    /\ MaxUsers \in Nat /\ MaxEntries \in Nat

-----------------------------------------------------------------------------
(* schemas.py                                                              *)

validate_auth_key_hex(v) == v.len = 64 /\ ~fromhex_raises(v)
validate_argon2_salt_hex(v) == v.len = 64 /\ ~fromhex_raises(v)

DecodedLengthBug(v) == ~fromhex_raises(v) /\ fromhex(v).n = NONCE_LENGTH

validate_nonce_hex(v) == v.len = 24 /\ ~fromhex_raises(v)

LengthOnlyBug(v) == v.len >= 34 /\ v.len % 2 = 0

validate_ciphertext_hex(v) ==
    v.len >= 34 /\ v.len % 2 = 0 /\ ~fromhex_raises(v)

-----------------------------------------------------------------------------
(* The endpoints, without what ZeroVaultApi models.                        *)

Named(name) == {x \in users : x.username = name}
EntriesOf(name) == {e \in vault_entries : e.username = name}

register(name, auth_key_hex, salt_hex) ==
    /\ validate_auth_key_hex(auth_key_hex)
    /\ validate_argon2_salt_hex(salt_hex)
    /\ Named(name) = {}
    /\ Cardinality(users) < MaxUsers
    /\ users' = users \cup
           {[username |-> name, argon2_salt |-> salt_hex,
             auth_key_hash |-> Term!hash_auth_key(fromhex(auth_key_hex))]}
    /\ UNCHANGED vault_entries

create_vault_entry(name, ciphertext_hex, nonce_hex) ==
    /\ validate_ciphertext_hex(ciphertext_hex)
    /\ validate_nonce_hex(nonce_hex)
    /\ Cardinality(vault_entries) < MaxEntries
    /\ vault_entries' = vault_entries \cup
           {[id |-> Cardinality(vault_entries) + 1, username |-> name,
             ciphertext_hex |-> ciphertext_hex, nonce_hex |-> nonce_hex]}
    /\ UNCHANGED users

-----------------------------------------------------------------------------
(* login, in the frontend.                                                 *)

\* The names whose row answers GET /auth/kdf-params/ + name, which the
\* frontend does not quote: a slash finds no route, a question mark or a
\* hash sign ends the path, and an escape is decoded to another name.
kdf_params_path(name) ==
    CASE name.mark = ""  -> {name}
      [] name.mark = "/" -> {}
      [] OTHER           -> {[name EXCEPT !.mark = ""]}

\* The salts a login gets to derive its keys with.
SaltsFor(name) ==
    {fromhex(x.argon2_salt) :
         x \in {y \in UNION {Named(n) : n \in kdf_params_path(name)} :
                    ~fromhex_raises(y.argon2_salt)}}

UndecodedSaltBug(name, password) ==
    {derive_keys(password, Bytes(x.argon2_salt.len, x.argon2_salt.of)) :
         x \in UNION {Named(n) : n \in kdf_params_path(name)}}

KeysAtLogin(name, password) ==
    {derive_keys(password, salt) :
         salt \in {s \in SaltsFor(name) : ~derive_keys_raises(password, s)}}

\* The encryption key a login ends with, if it gets that far.
login(name, password) ==
    {keys.enc_key :
         keys \in {k \in KeysAtLogin(name, password) :
                       /\ validate_auth_key_hex(hex(k.auth_key))
                       /\ \E x \in Named(name) : Term!verify_auth_key(
                              fromhex(hex(k.auth_key)), x.auth_key_hash)}}

-----------------------------------------------------------------------------
(* load_vault_entries, in the frontend.                                    *)

Ciphertext(raw) == [ciphertext |-> fromhex(raw.ciphertext_hex),
                    nonce |-> fromhex(raw.nonce_hex)]

\* A text that is not hex raises out of the handler and nothing is shown;
\* decrypt_entry's exceptions are caught entry by entry.
load_vault_entries(enc_key, rows) ==
    IF \E raw \in rows : \/ fromhex_raises(raw.ciphertext_hex)
                         \/ fromhex_raises(raw.nonce_hex)
    THEN {}
    ELSE {[id |-> raw.id,
           clear |-> IF decrypt_entry_raises(enc_key, Ciphertext(raw)) = "nothing"
                     THEN {decrypt_entry(Ciphertext(raw))} ELSE {}] : raw \in rows}

-----------------------------------------------------------------------------
(* The steps.                                                              *)

WireInit == users = {} /\ vault_entries = {} /\ created = {} /\ added = {}

\* The register form.
Register(name, password, salt) ==
    LET keys == derive_keys(password, salt)
    IN /\ ~derive_keys_raises(password, salt)
       /\ register(name, hex(keys.auth_key), hex(salt))
       /\ created' = created \cup
              {[username |-> name, password |-> password,
                enc_key |-> keys.enc_key]}
       /\ UNCHANGED added

RegisterElsewhere(name) ==
    /\ \E auth_key_hex \in KeyTexts, salt_hex \in SaltTexts :
           register(name, auth_key_hex, salt_hex)
    /\ UNCHANGED <<created, added>>

\* Signing in and the form for a new entry.
AddVaultEntry(account, plaintext, nonce) ==
    \E enc_key \in login(account.username, account.password) :
        LET ct == encrypt_entry(enc_key, plaintext, nonce)
        IN /\ ~encrypt_entry_raises(enc_key)
           /\ create_vault_entry(account.username, hex(ct.ciphertext), hex(ct.nonce))
           /\ added' = added \cup
                  {[id |-> Cardinality(vault_entries) + 1, account |-> account,
                    plaintext |-> plaintext]}
           /\ UNCHANGED created

AddElsewhere(name) ==
    /\ Named(name) # {}
    /\ \E ciphertext_hex \in CiphertextTexts, nonce_hex \in NonceTexts :
           create_vault_entry(name, ciphertext_hex, nonce_hex)
    /\ UNCHANGED <<created, added>>

WireNext ==
    \/ \E name \in Usernames :
           \/ \E password \in Passwords, salt \in Salts :
                  Register(name, password, salt)
           \/ RegisterElsewhere(name)
           \/ AddElsewhere(name)
    \/ \E account \in created, plaintext \in Plaintexts, nonce \in Nonces :
           AddVaultEntry(account, plaintext, nonce)

WireSpec == WireInit /\ [][WireNext]_wireVars

-----------------------------------------------------------------------------

\* What passes the validators fits its column, so no INSERT fails on a
\* length: String(64) for a salt, String(24) for a nonce (models.py:65, 105),
\* and 72 bytes, all that bcrypt looks at, for a key
\* (crypto/auth_key.py:31-32).
RowsFitColumns ==
    /\ \A x \in users : x.argon2_salt.len <= 64 /\ x.auth_key_hash.bcrypt.n <= 72
    /\ \A e \in vault_entries : e.nonce_hex.len <= 24

\* Who registered with the form gets in with the same password and has the
\* encryption key back that the account began with, whatever hex, JSON and
\* columns did to salt and keys in between (state.py:216-232, 264-296) -
\* if the name is plain.
PlainAccountsLogIn ==
    \A a \in created :
        a.username.mark = "" => login(a.username, a.password) = {a.enc_key}

\* The same for every name the form and RegisterRequest accept: "Account
\* created! Please log in." (state.py:235), "Stores the KDF parameters so the
\* client can re-derive auth_key at login" (routers/auth.py:60).
EveryAccountLogsIn ==
    \A a \in created : login(a.username, a.password) = {a.enc_key}

\* Whatever other clients stored, a list shows every row of the account: what
\* the server accepts never raises outside the handler's inner try
\* (schemas.py:126-143 against state.py:344-369).
BadEntryIsAlone ==
    \A a \in created :
        LET rows == EntriesOf(a.username)
        IN {shown.id : shown \in load_vault_entries(a.enc_key, rows)}
               = {raw.id : raw \in rows}

\* What the form has added is shown in clear again, the other rows of the
\* account notwithstanding (state.py:399-411, 344-359; SECURITY.md:59-63).
AddedIsReadable ==
    \A entry \in added :
        LET name == entry.account.username
        IN [id |-> entry.id, clear |-> {entry.plaintext}]
               \in load_vault_entries(entry.account.enc_key, EntriesOf(name))

=============================================================================
