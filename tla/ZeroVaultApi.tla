---------------------------- MODULE ZeroVaultApi ----------------------------
(***************************************************************************)
(* The FastAPI backend: its two routers, the session dependency get_db     *)
(* every handler runs in, the JWT check and the two tables.                *)
(*                                                                         *)
(* Every HTTP request is a process.  A handler is cut into one action per  *)
(* stretch of code between two awaits, because that is where asyncio lets  *)
(* another request run:                                                    *)
(*                                                                         *)
(*   received    --first query-->  hashing | verifying                     *)
(*   received    --JWT check-->  authorized  --first query-->  have_user   *)
(*   received, hashing, verifying, have_user                               *)
(*               --last statement, response sent-->  closing               *)
(*   closing     --get_db's exit-->  committed | commit_failed             *)
(*   all before closing  --exception, rollback, response-->  refused       *)
(*   all of these        --the process dies-->  lost | commit_failed       *)
(*                                                                         *)
(* The response leaves BEFORE the commit.  FastAPI (0.118 and later, the   *)
(* repository pins 0.135.2) runs the exit code of a dependency with yield  *)
(* after the response was sent, so `await session.commit()` in get_db is a *)
(* step of its own behind the 200 or 201 the client already has.  When the *)
(* handler raises, the rollback comes first and the error response after   *)
(* it, which is one action here.                                           *)
(*                                                                         *)
(* The database is PostgreSQL at its default isolation, READ COMMITTED: a  *)
(* statement sees the rows committed when it runs, an INSERT that collides *)
(* with an uncommitted row of another session waits for that session, and  *)
(* an id drawn from a sequence is never drawn again.                       *)
(*                                                                         *)
(* Definitions named ..Bug are faulty variants of the one they precede;    *)
(* nothing uses them.  Put in its place they show that a property can fail.*)
(***************************************************************************)
EXTENDS VaultSeed

CONSTANTS
    Faults,       \* what may go wrong: a subset of FaultKinds
    TokenTTL,     \* jwt_access_token_expire_minutes
    MaxTime       \* bound of the model: the clock stops here

VARIABLES
    users,          \* committed rows of table users
    vault_entries,  \* committed rows of table vault_entries
    user_seq,       \* next id of users
    entry_seq,      \* next id of vault_entries
    tokens,         \* access tokens issued so far: what clients may hold
    now,            \* the server's clock
    pc,             \* where each request is
    req,            \* its payload
    row,            \* the handler's local variable `user`
    session,        \* its AsyncSession: what a commit would write
    resp            \* the response the client got

db   == <<users, vault_entries>>
vars == <<users, vault_entries, user_seq, entry_seq, tokens, now,
          pc, req, row, session, resp>>

-----------------------------------------------------------------------------
(* Values.                                                                 *)

FaultKinds == {"statement", "commit", "crash"}

Handling == {"received", "hashing", "verifying", "authorized", "have_user"}
Finished == {"refused", "committed", "commit_failed", "lost"}
Places   == {"idle", "closing"} \cup Handling \cup Finished

ASSUME ConstantsAssumption ==
    /\ Faults \subseteq FaultKinds
    /\ TokenTTL \in Nat
    /\ MaxTime \in Nat

-----------------------------------------------------------------------------
(* Queries and the JWT check.                                              *)

\* select(User).where(User.username == name), on the committed rows.
Named(name) == {x \in users : x.username = name}

NoOwnerBug(id) == vault_entries
StaleCacheBug(id) == {e \in SeedEntries : e.user_id = id}

\* select(VaultEntry).where(VaultEntry.user_id == id)
EntriesOf(id) == {e \in vault_entries : e.user_id = id}

NoIndexBug(r, name) == FALSE
LockBeforeHashBug(r, name) ==
    \E q \in Requests \ {r} :
        \/ \E x \in session[q].users : x.username = name
        \/ pc[q] = "hashing" /\ req[q].username = name

\* The unique index of users.username makes an INSERT wait while another
\* session holds an uncommitted row of the same name.
NameLocked(r, name) ==
    \E q \in Requests \ {r} : \E x \in session[q].users : x.username = name

LateExpiryBug(token) == token # None /\ now <= token.exp

\* auth.py: what a token says, and when get_current_user accepts it.  PyJWT
\* takes a token for expired from the instant exp on.
create_access_token(subject) == [sub |-> subject, exp |-> now + TokenTTL]
TokenAccepted(token) == token # None /\ now < token.exp

-----------------------------------------------------------------------------
(* The initial state: the process has just started on a database.          *)

Init ==
    /\ users = SeedUsers
    /\ vault_entries = SeedEntries
    /\ user_seq = SeedUserSeq
    /\ entry_seq = SeedEntrySeq
    /\ tokens = SeedTokens
    /\ now = 0
    /\ pc = [r \in Requests |-> "idle"]
    /\ req = [r \in Requests |-> None]
    /\ row = [r \in Requests |-> None]
    /\ session = [r \in Requests |-> EmptySession]
    /\ resp = [r \in Requests |-> None]

-----------------------------------------------------------------------------
(* How a handler goes on.                                                  *)

\* A client's request reaches the process.
Submit(r, payload) ==
    /\ pc[r] = "idle"
    /\ pc' = [pc EXCEPT ![r] = "received"]
    /\ req' = [req EXCEPT ![r] = payload]
    /\ UNCHANGED <<db, user_seq, entry_seq, tokens, now, row, session, resp>>

At(r, place, op) == pc[r] = place /\ req[r].op = op

\* The handler awaits, with `user` loaded or not.
Await(r, place, user) ==
    /\ pc' = [pc EXCEPT ![r] = place]
    /\ row' = [row EXCEPT ![r] = user]
    /\ UNCHANGED <<db, user_seq, entry_seq, tokens, now, req, session, resp>>

\* The handler returns: the response is sent and get_db's exit code is still
\* to run, with `writes` in the session.
Return(r, response, writes) ==
    /\ pc' = [pc EXCEPT ![r] = "closing"]
    /\ resp' = [resp EXCEPT ![r] = response]
    /\ session' = [session EXCEPT ![r] = writes]
    /\ row' = [row EXCEPT ![r] = None]
    /\ UNCHANGED <<db, now, req>>

\* The handler, or a dependency of it, raises: get_db rolls the session back
\* and the error response follows.
Raise(r, status) ==
    /\ pc' = [pc EXCEPT ![r] = "refused"]
    /\ resp' = [resp EXCEPT ![r] = [status |-> status]]
    /\ session' = [session EXCEPT ![r] = EmptySession]
    /\ row' = [row EXCEPT ![r] = None]
    /\ UNCHANGED <<db, entry_seq, tokens, now, req>>

-----------------------------------------------------------------------------
(* routers/auth.py                                                         *)

DirtyConflictBug(r) ==
    /\ At(r, "received", "register")
    /\ Named(req[r].username) # {} \/ NameLocked(r, req[r].username)
    /\ Raise(r, 409)
    /\ UNCHANGED user_seq

RegisterConflict(r) ==
    /\ At(r, "received", "register")
    /\ Named(req[r].username) # {}
    /\ Raise(r, 409)
    /\ UNCHANGED user_seq

\* The name is free as far as this SELECT sees; bcrypt runs in the executor.
RegisterCheck(r) ==
    /\ At(r, "received", "register")
    /\ Named(req[r].username) = {}
    /\ Await(r, "hashing", None)

\* db.add(user), db.flush(): the INSERT goes through.
RegisterFlush(r) ==
    /\ At(r, "hashing", "register")
    /\ Named(req[r].username) = {}
    /\ ~NameLocked(r, req[r].username)
    /\ LET user == [id |-> user_seq, username |-> req[r].username,
                    auth_key_hash |-> hash_auth_key(req[r].auth_key),
                    kdf |-> req[r].kdf]
       IN Return(r, [status |-> 201, user_id |-> user.id],
                 [EmptySession EXCEPT !.users = {user}])
    /\ user_seq' = user_seq + 1
    /\ UNCHANGED <<entry_seq, tokens>>

OverwriteBug(r) ==
    /\ At(r, "hashing", "register")
    /\ \E user \in Named(req[r].username) :
           users' = (users \ {user}) \cup
               {[user EXCEPT !.auth_key_hash = hash_auth_key(req[r].auth_key),
                             !.kdf = req[r].kdf]}
    /\ pc' = [pc EXCEPT ![r] = "committed"]
    /\ UNCHANGED <<vault_entries, user_seq, entry_seq, tokens, now, req, row,
                   session, resp>>

\* The name was committed by another session since the SELECT: the INSERT
\* draws an id and raises IntegrityError, which nothing handles.
RegisterIntegrityError(r) ==
    /\ At(r, "hashing", "register")
    /\ Named(req[r].username) # {}
    /\ Raise(r, 500)
    /\ user_seq' = user_seq + 1

KdfParamsUnknown(r) ==
    /\ At(r, "received", "kdf_params")
    /\ Named(req[r].username) = {}
    /\ Raise(r, 404)
    /\ UNCHANGED user_seq

WholeRowBug(r) ==
    /\ At(r, "received", "kdf_params")
    /\ \E user \in Named(req[r].username) :
           Return(r, [status |-> 200, kdf |-> user], EmptySession)
    /\ UNCHANGED <<user_seq, entry_seq, tokens>>

DirtyKdfParamsBug(r) ==
    /\ At(r, "received", "kdf_params")
    /\ \E q \in Requests : \E user \in session[q].users :
           /\ user.username = req[r].username
           /\ Return(r, [status |-> 200, kdf |-> user.kdf], EmptySession)
    /\ UNCHANGED <<user_seq, entry_seq, tokens>>

KdfParamsFound(r) ==
    /\ At(r, "received", "kdf_params")
    /\ \E user \in Named(req[r].username) :
           Return(r, [status |-> 200, kdf |-> user.kdf], EmptySession)
    /\ UNCHANGED <<user_seq, entry_seq, tokens>>

LoginUnknown(r) ==
    /\ At(r, "received", "login")
    /\ Named(req[r].username) = {}
    /\ Raise(r, 401)
    /\ UNCHANGED user_seq

LoginAnyRowBug(r) ==
    /\ At(r, "received", "login")
    /\ \E user \in users : Await(r, "verifying", user)

\* The row is read here and compared later, when the executor has run bcrypt.
LoginLookup(r) ==
    /\ At(r, "received", "login")
    /\ \E user \in Named(req[r].username) : Await(r, "verifying", user)

LoginReject(r) ==
    /\ At(r, "verifying", "login")
    /\ ~verify_auth_key(req[r].auth_key, row[r].auth_key_hash)
    /\ Raise(r, 401)
    /\ UNCHANGED user_seq

LoginAccept(r) ==
    /\ At(r, "verifying", "login")
    /\ verify_auth_key(req[r].auth_key, row[r].auth_key_hash)
    /\ LET token == create_access_token(row[r].username)
       IN /\ Return(r, [status |-> 200, access_token |-> token], EmptySession)
          /\ tokens' = tokens \cup {token}
    /\ UNCHANGED <<user_seq, entry_seq>>

-----------------------------------------------------------------------------
(* auth.py, get_current_user, and routers/vault.py                         *)

\* get_current_user raises before the handler starts.
RejectToken(r) ==
    /\ pc[r] = "received"
    /\ req[r].op \in VaultOps
    /\ ~TokenAccepted(req[r].token)
    /\ Raise(r, 401)
    /\ UNCHANGED user_seq

\* The token passes, once and for all: whatever the handler waits for from
\* here on, it is not looked at again.
AcceptToken(r) ==
    /\ pc[r] = "received"
    /\ req[r].op \in VaultOps
    /\ TokenAccepted(req[r].token)
    /\ Await(r, "authorized", None)

\* _get_user_or_404 loads the row of the token's subject or raises 404.
GetUserOr404(r) ==
    /\ pc[r] = "authorized"
    /\ LET found == Named(req[r].token.sub)
       IN IF found = {}
          THEN Raise(r, 404) /\ UNCHANGED user_seq
          ELSE \E user \in found : Await(r, "have_user", user)

ReusedIdBug(r) ==
    /\ At(r, "have_user", "create")
    /\ LET id == CHOOSE n \in 1 .. entry_seq :
                    \A e \in vault_entries : e.id # n
           entry == [id |-> id, user_id |-> row[r].id, blob |-> req[r].blob]
       IN Return(r, [status |-> 201, id |-> id],
                 [EmptySession EXCEPT !.entries = {entry}])
    /\ entry_seq' = entry_seq + 1
    /\ UNCHANGED <<user_seq, tokens>>

CreateFlush(r) ==
    /\ At(r, "have_user", "create")
    /\ LET entry == [id |-> entry_seq, user_id |-> row[r].id,
                     blob |-> req[r].blob]
       IN Return(r, [status |-> 201, id |-> entry.id],
                 [EmptySession EXCEPT !.entries = {entry}])
    /\ entry_seq' = entry_seq + 1
    /\ UNCHANGED <<user_seq, tokens>>

ListSelect(r) ==
    /\ At(r, "have_user", "list")
    /\ Return(r, [status |-> 200, entries |-> EntriesOf(row[r].id)],
              EmptySession)
    /\ UNCHANGED <<user_seq, entry_seq, tokens>>

AnyOwnerBug(r) == {e \in vault_entries : e.id = req[r].entry_id}

\* The entry a delete may touch: the id asked for, of the caller's own.
Deletable(r) == {e \in EntriesOf(row[r].id) : e.id = req[r].entry_id}

DeleteMissing(r) ==
    /\ At(r, "have_user", "delete")
    /\ Deletable(r) = {}
    /\ Raise(r, 404)
    /\ UNCHANGED user_seq

\* db.delete(entry) only marks the row: the DELETE is emitted at the commit.
DeleteSelect(r) ==
    /\ At(r, "have_user", "delete")
    /\ Deletable(r) # {}
    /\ Return(r, [status |-> 200],
              [EmptySession EXCEPT !.deleted = {e.id : e \in Deletable(r)}])
    /\ UNCHANGED <<user_seq, entry_seq, tokens>>

-----------------------------------------------------------------------------
(* database.py, get_db: the exit code of the dependency.                   *)

NoRollbackBug(r, place) ==
    /\ pc' = [pc EXCEPT ![r] = place]
    /\ session' = IF place = "committed"
                  THEN [session EXCEPT ![r] = EmptySession] ELSE session
    /\ UNCHANGED <<user_seq, entry_seq, tokens, now, req, row, resp>>

Close(r, place) ==
    /\ pc' = [pc EXCEPT ![r] = place]
    /\ session' = [session EXCEPT ![r] = EmptySession]
    /\ UNCHANGED <<user_seq, entry_seq, tokens, now, req, row, resp>>

InsertsOnlyBug(r) ==
    /\ pc[r] = "closing"
    /\ users' = users \cup session[r].users
    /\ vault_entries' = vault_entries \cup session[r].entries
    /\ Close(r, "committed")

\* A DELETE of a row that another session deleted first matches nothing.
Commit(r) ==
    /\ pc[r] = "closing"
    /\ users' = users \cup session[r].users
    /\ vault_entries' = {e \in vault_entries \cup session[r].entries :
                             e.id \notin session[r].deleted}
    /\ Close(r, "committed")

HalfCommitBug(r) ==
    /\ "commit" \in Faults
    /\ pc[r] = "closing"
    /\ users' = users \cup session[r].users
    /\ Close(r, "commit_failed")
    /\ UNCHANGED vault_entries

CommitFails(r) ==
    /\ "commit" \in Faults
    /\ pc[r] = "closing"
    /\ Close(r, "commit_failed")
    /\ UNCHANGED db

\* A statement, or the executor's job, raises in the middle of a handler
\* (the JWT check comes before the first statement and needs none).
StatementFails(r) ==
    /\ "statement" \in Faults
    /\ pc[r] \in Handling
    /\ ~(pc[r] = "received" /\ req[r].op \in VaultOps)
    /\ Raise(r, 500)
    /\ UNCHANGED user_seq

\* The one worker process dies and is started again.  Open transactions are
\* rolled back by the database; answers not sent yet are never sent.
Crash ==
    /\ "crash" \in Faults
    /\ \E r \in Requests : pc[r] \in Handling \cup {"closing"}
    /\ pc' = [r \in Requests |-> CASE pc[r] \in Handling -> "lost"
                                   [] pc[r] = "closing"  -> "commit_failed"
                                   [] OTHER              -> pc[r]]
    /\ session' = [r \in Requests |-> EmptySession]
    /\ row' = [r \in Requests |-> None]
    /\ UNCHANGED <<db, user_seq, entry_seq, tokens, now, req, resp>>

Tick ==
    /\ now < MaxTime
    /\ now' = now + 1
    /\ UNCHANGED <<db, user_seq, entry_seq, tokens, pc, req, row, session, resp>>

-----------------------------------------------------------------------------

\* What the process does for request r when nothing goes wrong.
ServerStep(r) ==
    \/ RegisterConflict(r) \/ RegisterCheck(r) \/ RegisterFlush(r)
    \/ RegisterIntegrityError(r)
    \/ KdfParamsUnknown(r) \/ KdfParamsFound(r)
    \/ LoginUnknown(r) \/ LoginLookup(r) \/ LoginReject(r) \/ LoginAccept(r)
    \/ RejectToken(r) \/ AcceptToken(r) \/ GetUserOr404(r)
    \/ CreateFlush(r) \/ ListSelect(r) \/ DeleteMissing(r) \/ DeleteSelect(r)
    \/ Commit(r)

\* Clients ask with the tokens they were given, and for any entry up to the
\* next one.
ClientStep(r) ==
    \E payload \in Payloads(tokens \cup {None}, 0 .. entry_seq) :
        Submit(r, payload)

BackendStep ==
    \/ \E r \in Requests : ServerStep(r) \/ CommitFails(r) \/ StatementFails(r)
    \/ Crash
    \/ Tick

Next == (\E r \in Requests : ClientStep(r)) \/ BackendStep

Spec == Init /\ [][Next]_vars

-----------------------------------------------------------------------------
(* Type correctness.                                                       *)

\* Every variable has its type: rows, tokens, payloads and responses are
\* what models.py and schemas.py say they are.
TypeOK ==
    /\ users \subseteq User
    /\ vault_entries \subseteq VaultEntry
    /\ user_seq \in Nat
    /\ entry_seq \in Nat
    /\ tokens \subseteq Token
    /\ now \in Nat
    /\ pc \in [Requests -> Places]
    /\ req \in [Requests -> Payloads(Token \cup {None}, Nat) \cup {None}]
    /\ row \in [Requests -> User \cup {None}]
    /\ session \in [Requests -> Session]
    /\ resp \in [Requests -> Response \cup {None}]

-----------------------------------------------------------------------------
(* What the properties speak about.                                        *)

Succeeded(r, op) ==
    req[r] # None /\ resp[r] # None /\ req[r].op = op
    /\ resp[r].status \in {200, 201}

Committed(op) ==
    {r \in Requests : pc[r] = "committed" /\ req[r].op = op}

\* The ids of the accounts a vault request speaks for: one, when it was let in.
Caller(r) == {x.id : x \in Named(req[r].token.sub)}

\* The row a register request asks for, and the one a create request does.
AccountOf(r) == [id |-> resp[r].user_id, username |-> req[r].username,
                 auth_key_hash |-> hash_auth_key(req[r].auth_key),
                 kdf |-> req[r].kdf]
EntryOf(r) == [id |-> resp[r].id,
               user_id |-> CHOOSE id \in Caller(r) : TRUE,
               blob |-> req[r].blob]

\* Every entry that was ever in the table.
EverStored == SeedEntries \cup {EntryOf(r) : r \in Committed("create")}

-----------------------------------------------------------------------------
(* Safety.                                                                 *)

\* No two accounts share a name or an id, whatever registrations race between
\* register's SELECT and its INSERT (routers/auth.py:64-89).
UniqueAccounts ==
    \A x, y \in users : x.username = y.username \/ x.id = y.id => x = y

\* Table users is what it was at start-up plus one row per committed
\* registration, with the key and KDF parameters of that very request: a
\* registration that was refused, failed or crashed left nothing, and none
\* overwrote another.
UsersAreTheRegistered ==
    users = SeedUsers \cup {AccountOf(r) : r \in Committed("register")}

\* Table vault_entries is exactly the entries stored by committed creates,
\* byte for byte and under their caller's id, less those a committed delete
\* named: nothing else vanishes, nothing deleted comes back under its id
\* (routers/vault.py:49-156).
EntriesAreTheStored ==
    vault_entries = {e \in EverStored :
                         \A d \in Committed("delete") : req[d].entry_id # e.id}

\* An entry leaves the table only in the commit of a delete that its owner's
\* token asked for ("A user can only delete their own entries",
\* routers/vault.py:137).
OnlyOwnersDelete ==
    [][\A e \in vault_entries \ vault_entries' :
           \E r \in Requests :
               /\ pc[r] = "closing" /\ pc'[r] = "committed"
               /\ req[r].op = "delete"
               /\ req[r].entry_id = e.id
               /\ e.user_id \in Caller(r)]_vars

\* A list holds entries of the caller's account only, and none whose create
\* was not committed: no dirty read, no entry of a request that rolled back
\* (routers/vault.py:106-121).
ListsAreOwnAndCommitted ==
    \A r \in Requests :
        Succeeded(r, "list") =>
            \A e \in resp[r].entries : e \in EverStored /\ e.user_id \in Caller(r)

\* A token is handed out only to who presented the key that the account of
\* that name was registered with (routers/auth.py:156-178).
LoginsAreProven ==
    \A r \in Requests :
        Succeeded(r, "login") =>
            \E x \in Named(req[r].username) :
                /\ x.auth_key_hash = hash_auth_key(req[r].auth_key)
                /\ resp[r].access_token.sub = x.username

\* The KDF parameters handed out for a name are those its account has for
\* good: a client that registered derives the same keys at every login
\* (routers/auth.py:117-129).
KdfParamsAreTheAccounts ==
    \A r \in Requests :
        Succeeded(r, "kdf_params") =>
            \E x \in Named(req[r].username) : x.kdf = resp[r].kdf

\* "Username already taken" is said only of a name that is taken for good:
\* the registration it lost to cannot be rolled back any more
\* (routers/auth.py:64-69).
ConflictsAreFinal ==
    \A r \in Requests :
        resp[r] # None /\ resp[r].status = 409 => Named(req[r].username) # {}

\* A registration that comes too late is told 409, "Username already taken":
\* a second one is expected to be answered so
\* (backend/tests/test_auth_flow.py:65-70).
DuplicatesGet409 ==
    \A r, q \in Requests :
        (/\ Succeeded(q, "register") /\ pc[r] = "refused"
         /\ req[r].op = "register" /\ req[r].username = req[q].username)
            => resp[r].status = 409

\* What a client was told is stored, is stored: an answer of success is never
\* followed by a rollback ("Accept and store an encrypted vault entry",
\* routers/vault.py:60).
AcknowledgedIsDurable ==
    \A r \in Requests :
        Succeeded(r, "create") => pc[r] # "commit_failed"

-----------------------------------------------------------------------------
(* Liveness, under the fairness of ZeroVaultPool.                          *)

\* Every request that reached the server is finished, answered or lost in a
\* crash: no session waits for a name lock for ever.
EveryRequestFinishes ==
    \A r \in Requests : pc[r] = "received" ~> pc[r] \in Finished

\* Registrations that race for a name cannot all lose it: in the end the name
\* has an account, unless one of them was hit by a failure.
SomeRegistrationWins ==
    \A name \in Usernames :
        (\E r \in Requests : At(r, "received", "register")
                             /\ req[r].username = name)
            ~> \/ Named(name) # {}
               \/ \E q \in Requests :
                      \/ pc[q] \in {"lost", "commit_failed"}
                      \/ pc[q] = "refused" /\ resp[q].status = 500

=============================================================================
