------------------------------ MODULE VaultStore ------------------------------
(***************************************************************************)
(* What the backend promises, without its handlers, sessions and clock: a  *)
(* store of accounts and entries on which every call is decided in ONE     *)
(* step.                                                                   *)
(*                                                                         *)
(* A call that is granted is answered at once and becomes a promise, which *)
(* is later kept (its effect is applied, in one step) or broken (it never  *)
(* has any).  A call that is refused has no effect, and is refused for a   *)
(* reason that is true at that moment.  Two promises never collide, so a   *)
(* promise can be kept whatever happens to the others.                     *)
(***************************************************************************)
EXTENDS VaultSeed

VARIABLES
    users,          \* the accounts
    vault_entries,  \* the entries
    user_seq,       \* the ids from here on were never used
    entry_seq,
    tokens,         \* the tokens handed out
    state,          \* the state of each call
    call,           \* what it asks for
    promise,        \* what was promised to it and not applied yet
    answer          \* what it was told

storeVars == <<users, vault_entries, user_seq, entry_seq, tokens,
               state, call, promise, answer>>

States == {"idle", "open", "promised", "kept", "broken", "refused", "vanished"}

Account(name) == {x \in users : x.username = name}

\* A name is spoken for by an account or by a promise of one.
Taken(name) ==
    \/ Account(name) # {}
    \/ \E r \in Requests : \E x \in promise[r].users : x.username = name

Owned(token) ==
    {e \in vault_entries : \E x \in Account(token.sub) : e.user_id = x.id}

Init ==
    /\ users = SeedUsers
    /\ vault_entries = SeedEntries
    /\ user_seq = SeedUserSeq
    /\ entry_seq = SeedEntrySeq
    /\ tokens = SeedTokens
    /\ state = [r \in Requests |-> "idle"]
    /\ call = [r \in Requests |-> None]
    /\ promise = [r \in Requests |-> EmptySession]
    /\ answer = [r \in Requests |-> None]

\* Nobody forges a token: a call bears one that was handed out, or none.
Open(r) ==
    /\ state[r] = "idle"
    /\ state' = [state EXCEPT ![r] = "open"]
    /\ call'[r] \in Payloads(tokens \cup {None}, Nat)
    /\ call' = [call EXCEPT ![r] = call'[r]]
    /\ UNCHANGED <<users, vault_entries, user_seq, entry_seq, tokens,
                   promise, answer>>

-----------------------------------------------------------------------------

Promise(r, response, effect) ==
    /\ state' = [state EXCEPT ![r] = "promised"]
    /\ answer' = [answer EXCEPT ![r] = response]
    /\ promise' = [promise EXCEPT ![r] = effect]
    /\ UNCHANGED <<users, vault_entries, call>>

\* The name is free and stays reserved until the promise is kept or broken.
GrantAccount(r) ==
    /\ call[r].op = "register"
    /\ ~Taken(call[r].username)
    /\ Promise(r, [status |-> 201, user_id |-> user_seq],
               [EmptySession EXCEPT !.users =
                   {[id |-> user_seq, username |-> call[r].username,
                     auth_key_hash |-> hash_auth_key(call[r].auth_key),
                     kdf |-> call[r].kdf]}])
    /\ user_seq' = user_seq + 1
    /\ UNCHANGED <<entry_seq, tokens>>

GrantKdfParams(r) ==
    /\ call[r].op = "kdf_params"
    /\ \E x \in Account(call[r].username) :
           Promise(r, [status |-> 200, kdf |-> x.kdf], EmptySession)
    /\ UNCHANGED <<user_seq, entry_seq, tokens>>

\* A token for who shows the key of the account.
GrantToken(r) ==
    /\ call[r].op = "login"
    /\ \E x \in Account(call[r].username), token \in tokens' :
           /\ verify_auth_key(call[r].auth_key, x.auth_key_hash)
           /\ token.sub = x.username
           /\ tokens' = tokens \cup {token}
           /\ Promise(r, [status |-> 200, access_token |-> token], EmptySession)
    /\ UNCHANGED <<user_seq, entry_seq>>

GrantEntry(r) ==
    /\ call[r].op = "create"
    /\ call[r].token \in tokens
    /\ \E x \in Account(call[r].token.sub) :
           Promise(r, [status |-> 201, id |-> entry_seq],
                   [EmptySession EXCEPT !.entries =
                       {[id |-> entry_seq, user_id |-> x.id,
                         blob |-> call[r].blob]}])
    /\ entry_seq' = entry_seq + 1
    /\ UNCHANGED <<user_seq, tokens>>

\* All the caller's entries, as they are at one moment.
GrantList(r) ==
    /\ call[r].op = "list"
    /\ call[r].token \in tokens
    /\ Promise(r, [status |-> 200, entries |-> Owned(call[r].token)],
               EmptySession)
    /\ UNCHANGED <<user_seq, entry_seq, tokens>>

GrantRemoval(r) ==
    /\ call[r].op = "delete"
    /\ call[r].token \in tokens
    /\ \E e \in Owned(call[r].token) :
           /\ e.id = call[r].entry_id
           /\ Promise(r, [status |-> 200], [EmptySession EXCEPT !.deleted = {e.id}])
    /\ UNCHANGED <<user_seq, entry_seq, tokens>>

Grant(r) ==
    /\ state[r] = "open"
    /\ \/ GrantAccount(r) \/ GrantKdfParams(r) \/ GrantToken(r)
       \/ GrantEntry(r) \/ GrantList(r) \/ GrantRemoval(r)

-----------------------------------------------------------------------------

\* The reasons a call may be refused for.
Reason(r, status) ==
    \/ status = 500
    \/ status = 409 /\ call[r].op = "register" /\ Account(call[r].username) # {}
    \/ status = 404 /\ call[r].op = "kdf_params"
                    /\ Account(call[r].username) = {}
    \/ status = 404 /\ call[r].op = "delete"
                    /\ ~ \E e \in Owned(call[r].token) : e.id = call[r].entry_id
    \/ status = 401 /\ call[r].op \in VaultOps
    \/ status = 401 /\ call[r].op = "login"
                    /\ ~ \E x \in Account(call[r].username) :
                             verify_auth_key(call[r].auth_key, x.auth_key_hash)

\* An id may be wasted on a registration that is refused.
Refuse(r) ==
    /\ state[r] = "open"
    /\ state' = [state EXCEPT ![r] = "refused"]
    /\ \E status \in {401, 404, 409, 500} :
           /\ Reason(r, status)
           /\ answer' = [answer EXCEPT ![r] = [status |-> status]]
    /\ user_seq' \in {user_seq, user_seq + 1}
    /\ UNCHANGED <<users, vault_entries, entry_seq, tokens, call, promise>>

Keep(r) ==
    /\ state[r] = "promised"
    /\ state' = [state EXCEPT ![r] = "kept"]
    /\ users' = users \cup promise[r].users
    /\ vault_entries' = {e \in vault_entries \cup promise[r].entries :
                             e.id \notin promise[r].deleted}
    /\ promise' = [promise EXCEPT ![r] = EmptySession]
    /\ UNCHANGED <<user_seq, entry_seq, tokens, call, answer>>

\* One promise is broken, or the store fails and every call under way with it.
Break(R) ==
    /\ R # {}
    /\ \A r \in R : state[r] \in {"open", "promised"}
    /\ state' = [r \in Requests |->
                    IF r \notin R THEN state[r]
                    ELSE IF state[r] = "open" THEN "vanished" ELSE "broken"]
    /\ promise' = [r \in Requests |->
                      IF r \in R THEN EmptySession ELSE promise[r]]
    /\ UNCHANGED <<users, vault_entries, user_seq, entry_seq, tokens, call,
                   answer>>

Next ==
    \/ \E r \in Requests : Open(r) \/ Grant(r) \/ Refuse(r) \/ Keep(r)
    \/ \E R \in SUBSET Requests : Break(R)

Spec == Init /\ [][Next]_storeVars

=============================================================================
