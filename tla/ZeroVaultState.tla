---------------------------- MODULE ZeroVaultState ----------------------------
(***************************************************************************)
(* The Reflex frontend: class ZeroVaultState, one instance per browser     *)
(* tab, between a user who clicks and a server that answers as it likes.   *)
(*                                                                         *)
(*   user --clicks--> queue --one event at a time--> handler --> state     *)
(*                      ^                              |   ^               *)
(*                      +---- chained load event ------+   +-- HTTP reply  *)
(*                                                                         *)
(* The browser keeps a FIFO of events and sends the next one when the last *)
(* is done; Reflex runs at most one handler of a tab at a time, because a  *)
(* handler holds the lock of the tab's state also while it awaits a reply. *)
(* An event handler is therefore one action up to its HTTP call and one    *)
(* per reply, and what it does at once (set is_loading, yield, derive the  *)
(* keys, send) is one step.  `yield ZeroVaultState.load_vault_entries`     *)
(* goes through the browser: the event joins the end of the queue, and a   *)
(* page reload in the meantime loses it.                                   *)
(*                                                                         *)
(* The messages shown, the strength bar and the looks are left out.  The   *)
(* setters of one form are one event, and the fields of an entry one value.*)
(*                                                                         *)
(* Definitions named ..Bug are faulty variants of the one they precede;    *)
(* nothing uses them.  Put in its place they show that a property can fail.*)
(***************************************************************************)
EXTENDS VaultData, Sequences

CONSTANTS
    Tabs,           \* browser tabs
    Passwords,      \* what users type as master password
    LongPasswords,  \* those of 12 characters or more
    Salts,          \* what os.urandom may return, each value once
    Plaintexts,     \* entries with a site and a password
    Forms,          \* what users type into the login or the register form
    Clicks,         \* names of the events the users of an instance cause
    ServerTokens,   \* what a server may answer: tokens, ids of entries, and
    EntryIds,       \* ciphertexts it made up
    Forged,
    MaxPending      \* bound of the model: events running or waiting in a tab

VARIABLES
    state,     \* the fields of each tab's ZeroVaultState
    queue,     \* events waiting in its browser
    call,      \* the HTTP call its running handler awaits
    local,     \* that handler's kdf_result.enc_key or enc_key
    attached,  \* FALSE once the page was reloaded under a running handler
    sent       \* the requests with key material that ever left a tab

stateVars == <<state, queue, call, local, attached, sent>>

-----------------------------------------------------------------------------
(* Values.                                                                 *)

Typed(values) == values \cup {None}
EncKeys == {derive_keys(p, s).enc_key : p \in Passwords,
                                        s \in {k.salt : k \in KdfParams}}
Shown == [id: EntryIds, content: Plaintexts \cup {DecryptionFailed}]

State == [page: {"login", "register", "vault"},
          is_logged_in: BOOLEAN,
          current_username: Typed(Usernames),
          access_token: Typed(ServerTokens),
          enc_key_hex: Typed(EncKeys),
          form_username: Typed(Usernames),
          form_master_password: Typed(Passwords),
          form_confirm_password: Typed(Passwords),
          new_entry: Typed(Plaintexts),
          vault_entries: SUBSET Shown,
          revealed_ids: SUBSET EntryIds,
          is_loading: BOOLEAN]

Event ==
         [name: {"go_to_register", "go_to_login", "register", "login",
                 "logout", "load_vault_entries", "add_vault_entry"}]
    \cup [name: {"set_form"}, form: Forms]
    \cup [name: {"set_new"}, entry: Plaintexts]
    \cup [name: {"delete_vault_entry", "toggle_reveal_password"}, id: EntryIds]

On(name) == [name |-> name]

\* httpx.RequestError: timeout, refused connection, lost reply.
RequestError == [status |-> 0]

\* What a server that need not be ours may answer.  A ciphertext it was not
\* sent and did not forge is not in its hands.
Replies(op) ==
    {RequestError} \cup [status: {401, 404, 409, 422, 500}] \cup
    CASE op = "register"   -> [status: {201}]
      [] op = "kdf_params" -> [status: {200}, kdf: KdfParams]
      [] op = "login"      -> [status: {200}, access_token: ServerTokens]
      [] op = "create"     -> [status: {201}]
      [] op = "delete"     -> [status: {200}]
      [] op = "list"       ->
             LET known == {p.blob : p \in {x \in sent : x.op = "create"}}
                 rows == [id: EntryIds, blob: known \cup Forged]
             IN [status: {200},
                 entries: {R \in SUBSET rows :
                              \A x, y \in R : x.id = y.id => x = y}]

\* An entry that was typed in has a password; what is shown in place of one
\* that does not open has none (state.py:355-369, 380-382).
ASSUME FrontendAssumption ==
    /\ Ops = AllOps
    /\ {None, DecryptionFailed} \cap Plaintexts = {}
    /\ LongPasswords \subseteq Passwords
    /\ Forms \subseteq [username: Typed(Usernames), password: Typed(Passwords),
                        confirm: Typed(Passwords)]
    /\ \A s \in Salts : [salt |-> s, costs |-> ARGON2_COSTS] \in KdfParams
    /\ \A p \in Passwords, k \in KdfParams :
           /\ derive_keys(p, k.salt).auth_key \in AuthKeys
           /\ \A t \in Plaintexts :
                  encrypt_entry(derive_keys(p, k.salt).enc_key, t) \in Blobs
    /\ None \notin ServerTokens
    /\ None \notin Payloads(Typed(ServerTokens), EntryIds)
    /\ MaxPending \in Nat \ {0}
    /\ Salts # {}

\* A server has no key of a user's, and a ciphertext it makes up does not pass
\* for one of theirs (SECURITY.md, Cryptographic Assumptions).
ASSUME CipherAssumption ==
    /\ None \notin EncKeys
    /\ \A c \in Forged : c.key \notin EncKeys

-----------------------------------------------------------------------------
(* The initial state: the defaults of the class.                           *)

InitialState ==
    [page |-> "login", is_logged_in |-> FALSE, current_username |-> None,
     access_token |-> None, enc_key_hex |-> None, form_username |-> None,
     form_master_password |-> None, form_confirm_password |-> None,
     new_entry |-> None, vault_entries |-> {}, revealed_ids |-> {},
     is_loading |-> FALSE]

StateInit ==
    /\ state = [t \in Tabs |-> InitialState]
    /\ queue = [t \in Tabs |-> <<>>]
    /\ call = [t \in Tabs |-> None]
    /\ local = [t \in Tabs |-> None]
    /\ attached = [t \in Tabs |-> TRUE]
    /\ sent = {}

-----------------------------------------------------------------------------
(* The user: components.py says what each page lets one do.                *)

\* Buttons are disabled by is_loading, links, inputs and the buttons of an
\* entry are not.
unless_loading(self, name) == IF self.is_loading THEN {} ELSE {On(name)}

login_page(self) ==
         unless_loading(self, "login") \cup {On("go_to_register")}
    \cup [name: {"set_form"}, form: {f \in Forms : f.confirm = None}]

register_page(self) ==
         unless_loading(self, "register") \cup {On("go_to_login")}
    \cup [name: {"set_form"}, form: Forms]

entry_card(entry) ==
    [name: {"delete_vault_entry", "toggle_reveal_password"}, id: {entry.id}]

add_entry_form(self) ==
         unless_loading(self, "add_vault_entry")
    \cup [name: {"set_new"}, entry: Plaintexts]

vault_page(self) ==
         {On("logout")} \cup add_entry_form(self)
    \cup UNION {entry_card(entry) : entry \in self.vault_entries}

\* zerovault.py, index: the page shown is the State's.
Offered(t) ==
    LET self == state[t]
    IN {event \in CASE self.page = "vault"    -> vault_page(self)
                    [] self.page = "register" -> register_page(self)
                    [] OTHER                  -> login_page(self) :
            event.name \in Clicks}

Pending(t) == Len(queue[t]) + (IF call[t] = None THEN 0 ELSE 1)

Click(t) ==
    /\ Pending(t) < MaxPending
    /\ \E event \in Offered(t) : queue' = [queue EXCEPT ![t] = Append(@, event)]
    /\ UNCHANGED <<state, call, local, attached, sent>>

\* The page is loaded again: the state is the server's and stays, what waits
\* in the browser is gone, and a running handler goes on unheard.
Reload(t) ==
    /\ "reload" \in Clicks
    /\ queue' = [queue EXCEPT ![t] = <<>>]
    /\ attached' = [attached EXCEPT ![t] = call[t] = None]
    /\ UNCHANGED <<state, call, local, sent>>

-----------------------------------------------------------------------------
(* How a handler goes on.                                                  *)

\* The next event is for handler `name`, and none is running.
Starts(t, name) ==
    /\ call[t] = None
    /\ queue[t] # <<>>
    /\ Head(queue[t]).name = name

\* The handler runs to its end at once.
Handled(t, new_state) ==
    /\ state' = [state EXCEPT ![t] = new_state]
    /\ queue' = [queue EXCEPT ![t] = Tail(@)]
    /\ UNCHANGED <<call, local, attached, sent>>

\* What `sent` remembers of a request.
Material(payload) ==
    {p \in {payload} : p.op \in {"register", "login", "create"}}

\* The handler runs up to its HTTP call, with `keep` in a local variable.
Sends(t, new_state, payload, keep) ==
    /\ state' = [state EXCEPT ![t] = new_state]
    /\ queue' = [queue EXCEPT ![t] = Tail(@)]
    /\ call' = [call EXCEPT ![t] = payload]
    /\ local' = [local EXCEPT ![t] = keep]
    /\ sent' = sent \cup Material(payload)
    /\ UNCHANGED attached

\* The handler ends.  The browser queues the chained events, if it still
\* listens.
Ends(t, new_state, chained) ==
    /\ state' = [state EXCEPT ![t] = new_state]
    /\ queue' = IF attached[t] THEN [queue EXCEPT ![t] = @ \o chained]
                               ELSE queue
    /\ call' = [call EXCEPT ![t] = None]
    /\ local' = [local EXCEPT ![t] = None]
    /\ attached' = [attached EXCEPT ![t] = TRUE]
    /\ UNCHANGED sent

Awaits(t, op) == call[t] # None /\ call[t].op = op

clear_forms(self) ==
    [self EXCEPT !.form_username = None, !.form_master_password = None,
                 !.form_confirm_password = None, !.new_entry = None]

-----------------------------------------------------------------------------
(* Navigation, forms, logout.                                              *)

GoToRegister(t) ==
    /\ Starts(t, "go_to_register")
    /\ Handled(t, [clear_forms(state[t]) EXCEPT !.page = "register"])

GoToLogin(t) ==
    /\ Starts(t, "go_to_login")
    /\ Handled(t, [clear_forms(state[t]) EXCEPT !.page = "login"])

SetForm(t) ==
    /\ Starts(t, "set_form")
    /\ LET form == Head(queue[t]).form
       IN Handled(t, [state[t] EXCEPT !.form_username = form.username,
                                      !.form_master_password = form.password,
                                      !.form_confirm_password = form.confirm])

SetNew(t) ==
    /\ Starts(t, "set_new")
    /\ Handled(t, [state[t] EXCEPT !.new_entry = Head(queue[t]).entry])

Logout(t) ==
    /\ Starts(t, "logout")
    /\ Handled(t, [clear_forms(state[t]) EXCEPT
                      !.page = "login", !.is_logged_in = FALSE,
                      !.current_username = None, !.access_token = None,
                      !.enc_key_hex = None, !.vault_entries = {},
                      !.revealed_ids = {}])

ToggleRevealPassword(t) ==
    /\ Starts(t, "toggle_reveal_password")
    /\ LET id == Head(queue[t]).id
           revealed == state[t].revealed_ids
       IN Handled(t, [state[t] EXCEPT !.revealed_ids =
                         IF id \in revealed THEN revealed \ {id}
                                            ELSE revealed \cup {id}])

-----------------------------------------------------------------------------
(* register                                                                *)

FormComplete(self) ==
    self.form_username # None /\ self.form_master_password # None

RegisterFormOK(self) ==
    /\ FormComplete(self)
    /\ self.form_master_password = self.form_confirm_password
    /\ self.form_master_password \in LongPasswords

RegisterInvalid(t) ==
    /\ Starts(t, "register")
    /\ ~RegisterFormOK(state[t])
    /\ Handled(t, state[t])

\* generate_salt does not return a value twice, until a small instance has
\* used them all.
FreshSalts ==
    LET used == {p.kdf.salt : p \in {x \in sent : x.op = "register"}}
    IN IF Salts \subseteq used THEN Salts ELSE Salts \ used

Register(t) ==
    /\ Starts(t, "register")
    /\ RegisterFormOK(state[t])
    /\ \E salt \in FreshSalts :
           LET self == state[t]
               kdf_result == derive_keys(self.form_master_password, salt)
           IN Sends(t, [self EXCEPT !.is_loading = TRUE],
                    [op |-> "register", username |-> self.form_username,
                     auth_key |-> kdf_result.auth_key,
                     kdf |-> [salt |-> salt, costs |-> ARGON2_COSTS]],
                    None)

RegisterDone(t, reply) ==
    /\ Awaits(t, "register")
    /\ reply.status = 201
    /\ Ends(t, [clear_forms(state[t]) EXCEPT !.page = "login",
                                             !.is_loading = FALSE], <<>>)

-----------------------------------------------------------------------------
(* login                                                                   *)

LoginInvalid(t) ==
    /\ Starts(t, "login")
    /\ ~FormComplete(state[t])
    /\ Handled(t, state[t])

Login(t) ==
    /\ Starts(t, "login")
    /\ FormComplete(state[t])
    /\ Sends(t, [state[t] EXCEPT !.is_loading = TRUE],
             [op |-> "kdf_params", username |-> state[t].form_username], None)

KeepKeyEarlyBug(t, reply) ==
    /\ Awaits(t, "kdf_params")
    /\ reply.status = 200
    /\ LET self == state[t]
           kdf_result == derive_keys(self.form_master_password, reply.kdf.salt)
           payload == [op |-> "login", username |-> self.form_username,
                       auth_key |-> kdf_result.auth_key]
       IN /\ state' = [state EXCEPT ![t].enc_key_hex = kdf_result.enc_key]
          /\ call' = [call EXCEPT ![t] = payload]
          /\ local' = [local EXCEPT ![t] = kdf_result.enc_key]
          /\ sent' = sent \cup {payload}
    /\ UNCHANGED <<queue, attached>>

\* The parameters are there: derive the keys and go on to the second call.
\* The code tests for a 404 only; any other status but 200 ends in a KeyError
\* or a JSON error below it, which is CallFails.
LoginDerive(t, reply) ==
    /\ Awaits(t, "kdf_params")
    /\ reply.status = 200
    /\ LET self == state[t]
           kdf_result == derive_keys(self.form_master_password, reply.kdf.salt)
           payload == [op |-> "login", username |-> self.form_username,
                       auth_key |-> kdf_result.auth_key]
       IN /\ call' = [call EXCEPT ![t] = payload]
          /\ local' = [local EXCEPT ![t] = kdf_result.enc_key]
          /\ sent' = sent \cup {payload}
    /\ UNCHANGED <<state, queue, attached>>

RenamedHandlerBug(t, reply) ==
    /\ Awaits(t, "login")
    /\ reply.status = 200
    /\ Ends(t, [clear_forms(state[t]) EXCEPT !.page = "vault"], <<On("load")>>)

LoginDone(t, reply) ==
    /\ Awaits(t, "login")
    /\ reply.status = 200
    /\ Ends(t, [clear_forms(state[t]) EXCEPT
                   !.access_token = reply.access_token,
                   !.current_username = state[t].form_username,
                   !.enc_key_hex = local[t],
                   !.is_logged_in = TRUE,
                   !.page = "vault",
                   !.is_loading = FALSE],
            <<On("load_vault_entries")>>)

-----------------------------------------------------------------------------
(* The vault.                                                              *)

HasSession(self) == self.access_token # None /\ self.enc_key_hex # None

\* The session is gone by the time the chained event comes round.
LoadSkipped(t) ==
    /\ Starts(t, "load_vault_entries")
    /\ ~HasSession(state[t])
    /\ Handled(t, state[t])

LoadVaultEntries(t) ==
    /\ Starts(t, "load_vault_entries")
    /\ HasSession(state[t])
    /\ Sends(t, state[t], [op |-> "list", token |-> state[t].access_token],
             state[t].enc_key_hex)

LoadDone(t, reply) ==
    /\ Awaits(t, "list")
    /\ reply.status = 200
    /\ Ends(t, [state[t] EXCEPT !.vault_entries =
                   {[id |-> raw.id, content |-> decrypt_entry(local[t], raw.blob)]
                        : raw \in reply.entries}],
            <<>>)

EntryComplete(self) == self.new_entry # None /\ self.enc_key_hex # None

AddInvalid(t) ==
    /\ Starts(t, "add_vault_entry")
    /\ ~EntryComplete(state[t])
    /\ Handled(t, state[t])

PlaintextUploadBug(t) ==
    /\ Starts(t, "add_vault_entry")
    /\ EntryComplete(state[t])
    /\ LET self == state[t]
       IN Sends(t, [self EXCEPT !.is_loading = TRUE],
                [op |-> "create", token |-> self.access_token,
                 blob |-> encrypt_entry(None, self.new_entry)],
                None)

AddVaultEntry(t) ==
    /\ Starts(t, "add_vault_entry")
    /\ EntryComplete(state[t])
    /\ LET self == state[t]
       IN Sends(t, [self EXCEPT !.is_loading = TRUE],
                [op |-> "create", token |-> self.access_token,
                 blob |-> encrypt_entry(self.enc_key_hex, self.new_entry)],
                None)

AddDone(t, reply) ==
    /\ Awaits(t, "create")
    /\ reply.status = 201
    /\ Ends(t, [state[t] EXCEPT !.new_entry = None, !.is_loading = FALSE],
            <<On("load_vault_entries")>>)

DeleteVaultEntry(t) ==
    /\ Starts(t, "delete_vault_entry")
    /\ Sends(t, state[t], [op |-> "delete", token |-> state[t].access_token,
                           entry_id |-> Head(queue[t]).id], None)

DeleteDone(t, reply) ==
    /\ Awaits(t, "delete")
    /\ reply.status = 200
    /\ Ends(t, state[t], <<On("load_vault_entries")>>)

-----------------------------------------------------------------------------
(* Failure.                                                                *)

HopedFor(op) == IF op \in {"register", "create"} THEN 201 ELSE 200

\* The handlers with a `finally` that ends the loading.
Spinning == {"register", "kdf_params", "login", "create"}

NoFinallyBug(t, reply) ==
    /\ call[t] # None
    /\ reply.status # HopedFor(call[t].op)
    /\ Ends(t, [state[t] EXCEPT !.is_loading =
                   @ /\ call[t].op = "kdf_params"], <<>>)

RetryLoadBug(t, reply) ==
    /\ call[t] # None
    /\ reply.status # HopedFor(call[t].op)
    /\ Ends(t, [state[t] EXCEPT !.is_loading = @ /\ call[t].op \notin Spinning],
            IF call[t].op = "list" THEN <<On("load_vault_entries")>> ELSE <<>>)

ForgetFormBug(t, reply) ==
    /\ call[t] # None
    /\ reply.status # HopedFor(call[t].op)
    /\ Ends(t, [state[t] EXCEPT !.is_loading = @ /\ call[t].op \notin Spinning,
                                !.new_entry = None], <<>>)

\* Any other status, a RequestError, or an exception that reading the body
\* raises: the handler ends and the fields stay as they are.
CallFails(t, reply) ==
    /\ call[t] # None
    /\ reply.status # HopedFor(call[t].op)
    /\ Ends(t, [state[t] EXCEPT !.is_loading = @ /\ call[t].op \notin Spinning],
            <<>>)

-----------------------------------------------------------------------------

HandleEvent(t) ==
    \/ GoToRegister(t) \/ GoToLogin(t) \/ SetForm(t) \/ SetNew(t)
    \/ Logout(t) \/ ToggleRevealPassword(t)
    \/ RegisterInvalid(t) \/ Register(t)
    \/ LoginInvalid(t) \/ Login(t)
    \/ LoadSkipped(t) \/ LoadVaultEntries(t)
    \/ AddInvalid(t) \/ AddVaultEntry(t) \/ DeleteVaultEntry(t)

Resume(t, reply) ==
    \/ RegisterDone(t, reply)
    \/ LoginDerive(t, reply) \/ LoginDone(t, reply)
    \/ LoadDone(t, reply) \/ AddDone(t, reply) \/ DeleteDone(t, reply)
    \/ CallFails(t, reply)

Answered(t) == call[t] # None /\ \E reply \in Replies(call[t].op) : Resume(t, reply)

UserStep(t) == Click(t) \/ Reload(t)

StateNext ==
    \E t \in Tabs : UserStep(t) \/ HandleEvent(t) \/ Answered(t)

StateSpec == StateInit /\ [][StateNext]_stateVars

\* Reflex processes what the browser sends, and every call of httpx is
\* answered or times out.  Nobody need ever click.
StateFairness ==
    \A t \in Tabs : WF_stateVars(HandleEvent(t)) /\ WF_stateVars(Answered(t))
FairStateSpec == StateSpec /\ StateFairness

-----------------------------------------------------------------------------
(* Type correctness.                                                       *)

\* Every field has its type, the queue holds events, and a call is a request
\* the backend has a schema for.
StateTypeOK ==
    LET payloads == Payloads(Typed(ServerTokens), EntryIds)
    IN /\ state \in [Tabs -> State]
       /\ queue \in [Tabs -> Seq(Event)]
       /\ call \in [Tabs -> payloads \cup {None}]
       /\ local \in [Tabs -> Typed(EncKeys)]
       /\ attached \in [Tabs -> BOOLEAN]
       /\ sent \subseteq payloads

-----------------------------------------------------------------------------
(* Safety, whatever the server answers.                                    *)

\* Token, encryption key and name come and go together, decrypted entries
\* are held in a session only, and only a session shows the vault page: a
\* login that fails half way leaves no key behind, and a load queued behind
\* a logout brings nothing back (state.py:291-300, 311-328;
\* zerovault.py:29-32, "prevents direct URL access to authenticated pages").
SessionIsWhole ==
    \A t \in Tabs :
        LET self == state[t]
        IN /\ self.is_logged_in <=> self.access_token # None
           /\ self.is_logged_in <=> self.enc_key_hex # None
           /\ self.is_logged_in <=> self.current_username # None
           /\ ~self.is_logged_in => self.vault_entries = {}
           /\ self.page = "vault" => self.is_logged_in

\* Nothing that ever left a tab opens an entry that ever left a tab: the key
\* of a ciphertext is neither an auth_key that was sent nor derived from one
\* (SECURITY.md:69-76, "never transmitted to or stored by the server").
ServerCannotDecrypt ==
    \A c, p \in sent :
        c.op = "create" /\ p.op \in {"register", "login"} =>
            /\ c.blob.key # p.auth_key
            /\ c.blob.key.from # p.auth_key

\* Whenever the list on the page changes, what it shows in clear was typed in
\* by someone who held the session's own key: a server can drop or exchange
\* ciphertexts but not make one up (SECURITY.md:59-63, state.py:344-371).
ShownIsAuthentic ==
    [][\A t \in Tabs :
           state'[t].vault_entries # state[t].vault_entries =>
               \A e \in state'[t].vault_entries :
                   \/ e.content = DecryptionFailed
                   \/ \E p \in sent :
                          /\ p.op = "create"
                          /\ p.blob.plaintext = e.content
                          /\ p.blob.key = state'[t].enc_key_hex]_stateVars

\* The buttons are disabled only while a handler runs that enables them again
\* on every way out, exceptions and early returns included
\* (state.py:210-211, 245-246, 268-270, 306-307, 427-428).
LoadingIsEnded ==
    \A t \in Tabs :
        state[t].is_loading <=> call[t] # None /\ call[t].op \in Spinning

-----------------------------------------------------------------------------
(* Liveness.                                                               *)

AtRest(t) == call[t] = None /\ queue[t] = <<>>

\* A tab whose user stops clicking comes to rest: no handler hangs, and no
\* chain of events feeds itself, even if every call fails.
RestsWhenLeftAlone ==
    \A t \in Tabs : <>[][~Click(t)]_stateVars => <>[]AtRest(t)

=============================================================================
