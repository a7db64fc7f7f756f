------------------------------ MODULE VaultData ------------------------------
(***************************************************************************)
(* What the requests, the responses and the two tables hold: the schemas   *)
(* of backend/zerovault/app/models.py and schemas.py.                      *)
(***************************************************************************)
EXTENDS Naturals, VaultCrypto

CONSTANTS
    Ops,          \* the endpoints the clients of an instance call
    Usernames,    \* account names that pass RegisterRequest's validators
    AuthKeys,     \* 32-byte auth keys
    KdfParams,    \* Argon2 salt and costs, as one value
    Blobs,        \* ciphertext and nonce of an entry, as one value
    None          \* "no value"

AllOps   == {"register", "kdf_params", "login", "create", "list", "delete"}
VaultOps == {"create", "list", "delete"}

User  == [id: Nat, username: Usernames, auth_key_hash: [bcrypt: AuthKeys],
          kdf: KdfParams]
VaultEntry == [id: Nat, user_id: Nat, blob: Blobs]
Token == [sub: Usernames, exp: Nat]

\* What a request carries besides op: body, path and bearer token.  None is
\* a bearer token that does not verify under the server's key.
Payloads(bearers, ids) ==
         [op: {"register"} \cap Ops, username: Usernames,
          auth_key: AuthKeys, kdf: KdfParams]
    \cup [op: {"kdf_params"} \cap Ops, username: Usernames]
    \cup [op: {"login"} \cap Ops, username: Usernames, auth_key: AuthKeys]
    \cup [op: {"create"} \cap Ops, token: bearers, blob: Blobs]
    \cup [op: {"list"} \cap Ops, token: bearers]
    \cup [op: {"delete"} \cap Ops, token: bearers, entry_id: ids]

\* session.new and session.deleted of an AsyncSession.
Session == [users: SUBSET User, entries: SUBSET VaultEntry,
            deleted: SUBSET Nat]
EmptySession == [users |-> {}, entries |-> {}, deleted |-> {}]

Response ==
         [status: {201}, user_id: Nat]                    \* register
    \cup [status: {200}, kdf: KdfParams]                  \* kdf_params
    \cup [status: {200}, access_token: Token]             \* login
    \cup [status: {201}, id: Nat]                         \* create
    \cup [status: {200}, entries: SUBSET VaultEntry]      \* list
    \cup [status: {200}]                                  \* delete
    \cup [status: {401, 404, 409, 500}]                   \* any, refused

ASSUME DataAssumption ==
    /\ Ops \subseteq AllOps
    /\ None \notin Token
    /\ None \notin User
    /\ None \notin Response
    /\ None \notin Payloads(Token \cup {None}, Nat)

=============================================================================
