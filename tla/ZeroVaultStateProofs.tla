------------------------- MODULE ZeroVaultStateProofs -------------------------
(***************************************************************************)
(* Theorems about ZeroVaultState, for any number of tabs, passwords,       *)
(* entries and pending events, and whatever the server answers.            *)
(*                                                                         *)
(* A tab is judged by what it holds together: its fields, the call its     *)
(* handler awaits and the key in that handler's local variable (TabOK).    *)
(* The call is what ties them over an await: while login waits the form    *)
(* stays complete, while a load waits the session stays and its key is the *)
(* handler's, and while a button's handler runs the buttons are disabled.  *)
(***************************************************************************)
EXTENDS ZeroVaultState, TLAPS

-----------------------------------------------------------------------------
(* The invariant.                                                          *)

Calls == Payloads(Typed(ServerTokens), EntryIds)

\* Token, key and name come and go together, and with them what was decrypted.
Whole(self) ==
    /\ self.is_logged_in <=> self.access_token # None
    /\ self.is_logged_in <=> self.enc_key_hex # None
    /\ self.is_logged_in <=> self.current_username # None
    /\ ~self.is_logged_in => self.vault_entries = {}
    /\ self.page = "vault" => self.is_logged_in

\* The keys of a login are those of the password on the form.
DerivedFrom(self, kdf, payload, key) ==
    LET keys == derive_keys(self.form_master_password, kdf.salt)
    IN payload.auth_key = keys.auth_key /\ key = keys.enc_key

\* A call was made from the fields, and they are still there when it is
\* answered.
Fits(self, payload, key) ==
    /\ payload.op = "register" =>
           /\ payload.kdf.costs = ARGON2_COSTS
           /\ \E p \in Passwords :
                  payload.auth_key = derive_keys(p, payload.kdf.salt).auth_key
    /\ payload.op \in {"kdf_params", "login"} =>
           FormComplete(self) /\ payload.username = self.form_username
    /\ payload.op = "login" =>
           \E kdf \in KdfParams : DerivedFrom(self, kdf, payload, key)
    /\ payload.op \in VaultOps => payload.token = self.access_token
    /\ payload.op = "create" =>
           /\ EntryComplete(self)
           /\ payload.blob = encrypt_entry(self.enc_key_hex, self.new_entry)
    /\ payload.op = "list" => HasSession(self) /\ key = self.enc_key_hex

TabOK(self, payload, key) ==
    /\ self \in State /\ payload \in Calls \cup {None} /\ key \in Typed(EncKeys)
    /\ Whole(self)
    /\ payload # None => Fits(self, payload, key)
    /\ self.is_loading <=> payload # None /\ payload.op \in Spinning

OwnAuthKeys == {derive_keys(p, k.salt).auth_key : p \in Passwords, k \in KdfParams}
OwnBlobs    == {encrypt_entry(key, x) : key \in EncKeys, x \in Plaintexts}

\* A request with key material carries what the frontend derived or encrypted.
SentOK(payload) ==
    /\ payload.op \in {"register", "login"} => payload.auth_key \in OwnAuthKeys
    /\ payload.op = "create" => payload.blob \in OwnBlobs

Shapes ==
    /\ state \in [Tabs -> State]
    /\ queue \in [Tabs -> Seq(Event)]
    /\ call \in [Tabs -> Calls \cup {None}]
    /\ local \in [Tabs -> Typed(EncKeys)]
    /\ attached \in [Tabs -> BOOLEAN]
    /\ sent \subseteq Calls

StateInv ==
    /\ Shapes
    /\ \A t \in Tabs : TabOK(state[t], call[t], local[t])
    /\ \A p \in sent : SentOK(p)

LEMMA InvImplies ==
    StateInv => StateTypeOK /\ SessionIsWhole /\ LoadingIsEnded
BY DEF StateInv, Shapes, StateTypeOK, SessionIsWhole, LoadingIsEnded, TabOK,
       Whole, Calls

-----------------------------------------------------------------------------
(* Values.                                                                 *)

LEMMA NoneIsNothing ==
    None \notin ServerTokens /\ None \notin EncKeys /\ None \notin Calls
BY FrontendAssumption, CipherAssumption DEF Calls

\* What is derived from a password and an account's salt.
LEMMA DerivedKeys ==
    ASSUME NEW p \in Passwords, NEW k \in KdfParams
    PROVE  /\ derive_keys(p, k.salt).enc_key \in EncKeys
           /\ derive_keys(p, k.salt).auth_key \in OwnAuthKeys
           /\ derive_keys(p, k.salt).auth_key \in AuthKeys
BY FrontendAssumption DEF EncKeys, OwnAuthKeys

LEMMA OwnBlobsAreBlobs == OwnBlobs \subseteq Blobs
<1> SUFFICES ASSUME NEW key \in EncKeys, NEW x \in Plaintexts
             PROVE  encrypt_entry(key, x) \in Blobs
  BY DEF OwnBlobs
<1>1. PICK p \in Passwords, k \in KdfParams : key = derive_keys(p, k.salt).enc_key
  BY DEF EncKeys
<1> QED
  BY <1>1, FrontendAssumption

\* The payloads of the frontend's own requests.
LEMMA CallPayloads ==
    /\ \A name \in Usernames, key \in AuthKeys, kdf \in KdfParams :
           [op |-> "register", username |-> name, auth_key |-> key,
            kdf |-> kdf] \in Calls
    /\ \A name \in Usernames : [op |-> "kdf_params", username |-> name] \in Calls
    /\ \A name \in Usernames, key \in AuthKeys :
           [op |-> "login", username |-> name, auth_key |-> key] \in Calls
    /\ \A token \in Typed(ServerTokens) :
           /\ [op |-> "list", token |-> token] \in Calls
           /\ \A blob \in Blobs :
                  [op |-> "create", token |-> token, blob |-> blob] \in Calls
           /\ \A id \in EntryIds :
                  [op |-> "delete", token |-> token, entry_id |-> id] \in Calls
BY FrontendAssumption DEF Calls, Payloads, AllOps

\* The event a handler starts on.
LEMMA HeadIsEvent ==
    ASSUME Shapes, NEW t \in Tabs, NEW name, Starts(t, name)
    PROVE  /\ call[t] = None
           /\ Head(queue[t]) \in Event /\ Tail(queue[t]) \in Seq(Event)
           /\ name = "set_form" => Head(queue[t]).form \in Forms
           /\ name = "set_new" => Head(queue[t]).entry \in Plaintexts
           /\ name \in {"delete_vault_entry", "toggle_reveal_password"} =>
                  Head(queue[t]).id \in EntryIds
<1>1. Head(queue[t]) \in Event /\ Tail(queue[t]) \in Seq(Event)
  BY DEF Shapes, Starts
<1>2. Head(queue[t]).name = name /\ call[t] = None
  BY DEF Starts
<1> QED
  BY <1>1, <1>2 DEF Event

-----------------------------------------------------------------------------
(* The three ways a handler goes on.                                       *)

LEMMA HandledKeeps ==
    ASSUME StateInv, NEW t \in Tabs, NEW name, Starts(t, name),
           NEW self, TabOK(self, None, local[t]), Handled(t, self)
    PROVE  StateInv'
<1>1. Tail(queue[t]) \in Seq(Event) /\ call[t] = None /\ self \in State
  BY HeadIsEvent DEF StateInv, TabOK
<1>2. Shapes'
  BY <1>1 DEF StateInv, Shapes, Handled
<1>3. ASSUME NEW u \in Tabs PROVE TabOK(state[u], call[u], local[u])'
  <2>1. /\ state'[u] = IF u = t THEN self ELSE state[u]
        /\ call' = call /\ local' = local
    BY DEF StateInv, Shapes, Handled
  <2> QED
    BY <1>1, <2>1 DEF StateInv, TabOK
<1> QED
  BY <1>2, <1>3 DEF StateInv, Handled

LEMMA SendsKeeps ==
    ASSUME StateInv, NEW t \in Tabs, NEW name, Starts(t, name),
           NEW self, NEW payload \in Calls, NEW key,
           TabOK(self, payload, key), SentOK(payload),
           Sends(t, self, payload, key)
    PROVE  StateInv'
<1>1. Tail(queue[t]) \in Seq(Event) /\ self \in State /\ key \in Typed(EncKeys)
  BY HeadIsEvent DEF StateInv, TabOK
<1>2. Material(payload) \subseteq {payload}
  BY DEF Material
<1>3. Shapes'
  BY <1>1, <1>2 DEF StateInv, Shapes, Sends
<1>4. ASSUME NEW u \in Tabs PROVE TabOK(state[u], call[u], local[u])'
  <2>1. /\ state'[u] = IF u = t THEN self ELSE state[u]
        /\ call'[u] = IF u = t THEN payload ELSE call[u]
        /\ local'[u] = IF u = t THEN key ELSE local[u]
    BY DEF StateInv, Shapes, Sends
  <2> QED
    BY <2>1 DEF StateInv, TabOK
<1> QED
  BY <1>2, <1>3, <1>4 DEF StateInv, Sends

LEMMA EndsKeeps ==
    ASSUME StateInv, NEW t \in Tabs, NEW self, TabOK(self, None, None),
           NEW chained \in Seq(Event), Ends(t, self, chained)
    PROVE  StateInv'
<1>1. self \in State /\ queue[t] \o chained \in Seq(Event)
  BY DEF TabOK, StateInv, Shapes
<1>2. Shapes'
  BY <1>1 DEF StateInv, Shapes, Ends, Typed
<1>3. ASSUME NEW u \in Tabs PROVE TabOK(state[u], call[u], local[u])'
  <2>1. /\ state'[u] = IF u = t THEN self ELSE state[u]
        /\ call'[u] = IF u = t THEN None ELSE call[u]
        /\ local'[u] = IF u = t THEN None ELSE local[u]
    BY DEF StateInv, Shapes, Ends
  <2> QED
    BY <2>1 DEF StateInv, TabOK
<1> QED
  BY <1>2, <1>3 DEF StateInv, Ends

-----------------------------------------------------------------------------
(* Every handler keeps the invariant.                                      *)

\* A handler starts on a tab that is not loading.
LEMMA StartsAtRest ==
    ASSUME StateInv, NEW t \in Tabs, NEW name, Starts(t, name)
    PROVE  /\ TabOK(state[t], None, local[t]) /\ state[t] \in State
           /\ Whole(state[t]) /\ ~state[t].is_loading
           /\ local[t] \in Typed(EncKeys)
<1>1. call[t] = None /\ TabOK(state[t], call[t], local[t])
  BY DEF StateInv, Starts
<1> QED
  BY <1>1 DEF TabOK

\* clear_forms touches the forms and nothing else.
LEMMA FormsCleared ==
    ASSUME NEW self \in State
    PROVE  /\ clear_forms(self) \in State
           /\ clear_forms(self).new_entry = None
           /\ \A field \in {"page", "is_logged_in", "current_username",
                            "access_token", "enc_key_hex", "vault_entries",
                            "revealed_ids", "is_loading"} :
                  clear_forms(self)[field] = self[field]
BY DEF clear_forms, State, Typed

\* The buttons are disabled: the session is untouched.
LEMMA Loading ==
    ASSUME NEW self \in State, Whole(self)
    PROVE  LET new == [self EXCEPT !.is_loading = TRUE]
           IN /\ new \in State /\ Whole(new) /\ new.is_loading
              /\ \A field \in DOMAIN self \ {"is_loading"} :
                     new[field] = self[field]
              /\ \A payload, key : Fits(self, payload, key) =>
                                      Fits(new, payload, key)
<1> DEFINE new == [self EXCEPT !.is_loading = TRUE]
<1>1. /\ new \in State /\ new.is_loading
      /\ \A field \in DOMAIN self \ {"is_loading"} : new[field] = self[field]
  BY DEF State
<1>2. /\ new.page = self.page /\ new.is_logged_in = self.is_logged_in
      /\ new.current_username = self.current_username
      /\ new.access_token = self.access_token
      /\ new.enc_key_hex = self.enc_key_hex
      /\ new.vault_entries = self.vault_entries
      /\ new.form_username = self.form_username
      /\ new.form_master_password = self.form_master_password
      /\ new.new_entry = self.new_entry
  BY DEF State
<1> HIDE DEF new
<1>3. Whole(new)
  BY <1>2 DEF Whole
<1>4. \A payload, key : Fits(self, payload, key) => Fits(new, payload, key)
  BY <1>2 DEF Fits, FormComplete, HasSession, EntryComplete, DerivedFrom
<1> QED
  BY <1>1, <1>3, <1>4 DEF new

\* Navigation, forms and logout.
LEMMA SimpleHandlers ==
    ASSUME StateInv, NEW t \in Tabs,
           \/ GoToRegister(t) \/ GoToLogin(t) \/ SetForm(t) \/ SetNew(t)
           \/ Logout(t) \/ ToggleRevealPassword(t)
           \/ RegisterInvalid(t) \/ LoginInvalid(t) \/ LoadSkipped(t)
           \/ AddInvalid(t)
    PROVE  StateInv'
<1> DEFINE self == state[t]
<1>1. ASSUME GoToRegister(t) PROVE StateInv'
  <2> DEFINE cleared == clear_forms(self)
  <2>1. Whole(cleared) /\ cleared \in State /\ ~cleared.is_loading
    BY <1>1, StartsAtRest, FormsCleared DEF GoToRegister, Whole
  <2> HIDE DEF cleared
  <2>2. TabOK([cleared EXCEPT !.page = "register"], None, local[t])
    BY <1>1, <2>1, StartsAtRest DEF GoToRegister, TabOK, Whole, State
  <2> QED
    BY <1>1, <2>2, HandledKeeps DEF GoToRegister, cleared
<1>2. ASSUME GoToLogin(t) PROVE StateInv'
  <2> DEFINE cleared == clear_forms(self)
  <2>1. Whole(cleared) /\ cleared \in State /\ ~cleared.is_loading
    BY <1>2, StartsAtRest, FormsCleared DEF GoToLogin, Whole
  <2> HIDE DEF cleared
  <2>2. TabOK([cleared EXCEPT !.page = "login"], None, local[t])
    BY <1>2, <2>1, StartsAtRest DEF GoToLogin, TabOK, Whole, State
  <2> QED
    BY <1>2, <2>2, HandledKeeps DEF GoToLogin, cleared
<1>3. ASSUME SetForm(t) PROVE StateInv'
  <2> DEFINE form == Head(queue[t]).form
             new == [self EXCEPT !.form_username = form.username,
                                 !.form_master_password = form.password,
                                 !.form_confirm_password = form.confirm]
  <2>1. /\ form.username \in Typed(Usernames)
        /\ form.password \in Typed(Passwords)
        /\ form.confirm \in Typed(Passwords)
    BY <1>3, HeadIsEvent, FrontendAssumption DEF StateInv, SetForm
  <2> HIDE DEF form
  <2>2. TabOK(new, None, local[t])
    BY <1>3, <2>1, StartsAtRest DEF SetForm, TabOK, Whole, State
  <2> QED
    BY <1>3, <2>2, HandledKeeps DEF SetForm, form
<1>4. ASSUME SetNew(t) PROVE StateInv'
  <2>1. Head(queue[t]).entry \in Plaintexts
    BY <1>4, HeadIsEvent DEF StateInv, SetNew
  <2>2. TabOK([self EXCEPT !.new_entry = Head(queue[t]).entry], None, local[t])
    BY <1>4, <2>1, StartsAtRest DEF SetNew, TabOK, Whole, State, Typed
  <2> QED
    BY <1>4, <2>2, HandledKeeps DEF SetNew
<1>5. ASSUME Logout(t) PROVE StateInv'
  <2> DEFINE cleared == clear_forms(self)
             new == [cleared EXCEPT
                        !.page = "login", !.is_logged_in = FALSE,
                        !.current_username = None, !.access_token = None,
                        !.enc_key_hex = None, !.vault_entries = {},
                        !.revealed_ids = {}]
  <2>1. cleared \in State /\ ~cleared.is_loading
    BY <1>5, StartsAtRest, FormsCleared DEF Logout
  <2> HIDE DEF cleared
  <2>2. TabOK(new, None, local[t])
    BY <1>5, <2>1, StartsAtRest DEF Logout, TabOK, Whole, State, Typed
  <2> QED
    BY <1>5, <2>2, HandledKeeps DEF Logout, cleared
<1>6. ASSUME ToggleRevealPassword(t) PROVE StateInv'
  <2> DEFINE id == Head(queue[t]).id
             revealed == IF id \in self.revealed_ids
                         THEN self.revealed_ids \ {id}
                         ELSE self.revealed_ids \cup {id}
  <2>1. id \in EntryIds
    BY <1>6, HeadIsEvent DEF StateInv, ToggleRevealPassword
  <2>2. revealed \in SUBSET EntryIds
    BY <1>6, <2>1, StartsAtRest DEF ToggleRevealPassword, State
  <2> HIDE DEF revealed
  <2>3. TabOK([self EXCEPT !.revealed_ids = revealed], None, local[t])
    BY <1>6, <2>2, StartsAtRest DEF ToggleRevealPassword, TabOK, Whole, State
  <2> QED
    BY <1>6, <2>3, HandledKeeps DEF ToggleRevealPassword, revealed
<1>7. ASSUME \/ RegisterInvalid(t) \/ LoginInvalid(t) \/ LoadSkipped(t)
             \/ AddInvalid(t)
      PROVE  StateInv'
  BY <1>7, StartsAtRest, HandledKeeps
  DEF RegisterInvalid, LoginInvalid, LoadSkipped, AddInvalid
<1> QED
  BY <1>1, <1>2, <1>3, <1>4, <1>5, <1>6, <1>7

\* Handlers that make a call.
LEMMA CallingHandlers ==
    ASSUME StateInv, NEW t \in Tabs,
           \/ Register(t) \/ Login(t) \/ LoadVaultEntries(t)
           \/ AddVaultEntry(t) \/ DeleteVaultEntry(t)
    PROVE  StateInv'
<1> DEFINE self == state[t]
           loading == [self EXCEPT !.is_loading = TRUE]
<1>1. ASSUME Register(t) PROVE StateInv'
  <2>1. PICK salt \in FreshSalts :
            Sends(t, loading,
                  [op |-> "register", username |-> self.form_username,
                   auth_key |-> derive_keys(self.form_master_password,
                                            salt).auth_key,
                   kdf |-> [salt |-> salt, costs |-> ARGON2_COSTS]], None)
    BY <1>1 DEF Register
  <2> DEFINE kdf == [salt |-> salt, costs |-> ARGON2_COSTS]
             auth_key == derive_keys(self.form_master_password, salt).auth_key
             payload == [op |-> "register", username |-> self.form_username,
                         auth_key |-> auth_key, kdf |-> kdf]
  <2>2. self.form_username \in Usernames /\ self.form_master_password \in Passwords
    BY <1>1, StartsAtRest DEF Register, RegisterFormOK, FormComplete, State, Typed
  <2>3. kdf \in KdfParams
    BY FrontendAssumption DEF FreshSalts
  <2>4. auth_key \in AuthKeys /\ auth_key \in OwnAuthKeys
    BY <2>2, <2>3, DerivedKeys
  <2>5. Sends(t, loading, payload, None)
    BY <2>1
  <2>6. Fits(self, payload, None)
    BY <2>2 DEF Fits, VaultOps
  <2> HIDE DEF auth_key, kdf
  <2>7. payload \in Calls /\ SentOK(payload)
    BY <2>2, <2>3, <2>4, CallPayloads DEF SentOK
  <2>8. TabOK(loading, payload, None)
    BY <1>1, <2>6, <2>7, StartsAtRest, Loading, NoneIsNothing
    DEF Register, TabOK, Spinning, Typed
  <2> HIDE DEF payload, loading
  <2> QED
    BY <1>1, <2>5, <2>7, <2>8, SendsKeeps DEF Register
<1>2. ASSUME Login(t) PROVE StateInv'
  <2> DEFINE payload == [op |-> "kdf_params", username |-> self.form_username]
  <2>1. self.form_username \in Usernames /\ FormComplete(self)
    BY <1>2, StartsAtRest DEF Login, FormComplete, State, Typed
  <2>2. payload \in Calls /\ SentOK(payload)
    BY <2>1, CallPayloads DEF SentOK
  <2>3. Fits(self, payload, None)
    BY <2>1 DEF Fits, VaultOps
  <2>4. TabOK(loading, payload, None)
    BY <1>2, <2>2, <2>3, StartsAtRest, Loading, NoneIsNothing
    DEF Login, TabOK, Spinning, Typed
  <2> HIDE DEF payload, loading
  <2> QED
    BY <1>2, <2>2, <2>4, SendsKeeps DEF Login, payload, loading
<1>3. ASSUME LoadVaultEntries(t) PROVE StateInv'
  <2> DEFINE payload == [op |-> "list", token |-> self.access_token]
  <2>1. payload \in Calls /\ SentOK(payload)
    BY <1>3, StartsAtRest, CallPayloads DEF LoadVaultEntries, State, SentOK
  <2>2. TabOK(self, payload, self.enc_key_hex)
    BY <1>3, <2>1, StartsAtRest, NoneIsNothing
    DEF LoadVaultEntries, TabOK, State, Fits, HasSession, Spinning
  <2> HIDE DEF payload
  <2> QED
    BY <1>3, <2>1, <2>2, SendsKeeps DEF LoadVaultEntries, payload
<1>4. ASSUME AddVaultEntry(t) PROVE StateInv'
  <2> DEFINE blob == encrypt_entry(self.enc_key_hex, self.new_entry)
             payload == [op |-> "create", token |-> self.access_token,
                         blob |-> blob]
  <2>1. blob \in OwnBlobs /\ self.access_token \in Typed(ServerTokens)
    BY <1>4, StartsAtRest
    DEF AddVaultEntry, EntryComplete, State, Typed, OwnBlobs
  <2>2. blob \in Blobs
    BY <2>1, OwnBlobsAreBlobs
  <2>3. Sends(t, loading, payload, None)
    BY <1>4 DEF AddVaultEntry
  <2>4. Fits(self, payload, None)
    BY <1>4 DEF AddVaultEntry, Fits
  <2> HIDE DEF blob
  <2>5. payload \in Calls /\ SentOK(payload)
    BY <2>1, <2>2, CallPayloads DEF SentOK
  <2>6. TabOK(loading, payload, None)
    BY <1>4, <2>4, <2>5, StartsAtRest, Loading, NoneIsNothing
    DEF AddVaultEntry, TabOK, Spinning, Typed
  <2> HIDE DEF payload, loading
  <2> QED
    BY <1>4, <2>3, <2>5, <2>6, SendsKeeps DEF AddVaultEntry
<1>5. ASSUME DeleteVaultEntry(t) PROVE StateInv'
  <2> DEFINE payload == [op |-> "delete", token |-> self.access_token,
                         entry_id |-> Head(queue[t]).id]
  <2>1. Head(queue[t]).id \in EntryIds
    BY <1>5, HeadIsEvent DEF StateInv, DeleteVaultEntry
  <2>2. payload \in Calls /\ SentOK(payload)
    BY <1>5, <2>1, StartsAtRest, CallPayloads DEF DeleteVaultEntry, State, SentOK
  <2>3. TabOK(self, payload, None)
    BY <1>5, <2>2, StartsAtRest, NoneIsNothing
    DEF DeleteVaultEntry, TabOK, State, Fits, Spinning, Typed
  <2> HIDE DEF payload
  <2> QED
    BY <1>5, <2>2, <2>3, SendsKeeps DEF DeleteVaultEntry, payload
<1> QED
  BY <1>1, <1>2, <1>3, <1>4, <1>5

\* A handler that waits has kept what it needs.
LEMMA WaitsReady ==
    ASSUME StateInv, NEW t \in Tabs, call[t] # None
    PROVE  /\ TabOK(state[t], call[t], local[t])
           /\ state[t] \in State /\ Whole(state[t])
           /\ Fits(state[t], call[t], local[t])
           /\ call[t] \in Calls
           /\ state[t].is_loading <=> call[t].op \in Spinning
BY DEF StateInv, TabOK

\* What a tab's key opens, a tab sealed.
Shut(blob) == blob.key \in EncKeys => blob \in OwnBlobs

\* What the handlers rely on in the answer they hoped for.
ReplyFits(op, reply) ==
    reply.status = HopedFor(op) =>
        /\ op = "kdf_params" => reply.kdf \in KdfParams
        /\ op = "login" => reply.access_token \in ServerTokens
        /\ op = "list" =>
               \A raw \in reply.entries :
                   raw.id \in EntryIds /\ Shut(raw.blob)

\* What is in an answered list was sent, or was made up.
LEMMA ListedBlobs ==
    ASSUME StateInv, NEW reply \in Replies("list"), reply.status = 200
    PROVE  \A raw \in reply.entries :
               /\ raw.id \in EntryIds
               /\ \/ \E p \in sent : p.op = "create" /\ p.blob = raw.blob
                                     /\ raw.blob \in OwnBlobs
                  \/ raw.blob \in Forged
<1> DEFINE known == {p.blob : p \in {x \in sent : x.op = "create"}}
           rows == [id: EntryIds, blob: known \cup Forged]
<1>1. \/ reply = RequestError
      \/ reply \in [status: {401, 404, 409, 422, 500}]
      \/ reply \in [status: {200},
                    entries: {R \in SUBSET rows :
                                 \A x, y \in R : x.id = y.id => x = y}]
  BY DEF Replies
<1>2. \A raw \in reply.entries : raw \in rows
  BY <1>1 DEF RequestError
<1>3. \A blob \in known : \E p \in sent :
          p.op = "create" /\ p.blob = blob /\ blob \in OwnBlobs
  BY DEF StateInv, SentOK
<1> QED
  BY <1>2, <1>3

\* What an entry opens to under the session's key is what was typed, or
\* nothing.
LEMMA OpenedContent ==
    ASSUME NEW key \in EncKeys, NEW blob, Shut(blob)
    PROVE  LET content == decrypt_entry(key, blob)
           IN /\ content \in Plaintexts \cup {DecryptionFailed}
              /\ content # DecryptionFailed =>
                     /\ blob \in OwnBlobs /\ blob.key = key
                     /\ blob.plaintext = content
<1>1. CASE blob.key # key
  BY <1>1 DEF decrypt_entry
<1>2. CASE blob.key = key
  <2>1. blob \in OwnBlobs
    BY <1>2 DEF Shut
  <2> QED
    BY <1>2, <2>1 DEF OwnBlobs, encrypt_entry, decrypt_entry
<1> QED
  BY <1>1, <1>2

\* Whatever a server answers, it fits.
LEMMA RepliesFit ==
    ASSUME StateInv, NEW op, NEW reply \in Replies(op)
    PROVE  ReplyFits(op, reply)
<1>1. op = "kdf_params" /\ reply.status = 200 => reply.kdf \in KdfParams
  BY DEF Replies, RequestError
<1>2. op = "login" /\ reply.status = 200 =>
          reply.access_token \in ServerTokens
  BY DEF Replies, RequestError
<1> QED
  BY <1>1, <1>2, ListedBlobs, CipherAssumption DEF ReplyFits, HopedFor, Shut

\* The handlers that go on with the answer hoped for.
LEMMA AnswersKeep ==
    ASSUME StateInv, NEW t \in Tabs, call[t] # None,
           NEW reply, ReplyFits(call[t].op, reply),
           \/ RegisterDone(t, reply) \/ LoginDerive(t, reply)
           \/ LoginDone(t, reply) \/ LoadDone(t, reply) \/ AddDone(t, reply)
           \/ DeleteDone(t, reply)
    PROVE  StateInv'
<1> DEFINE self == state[t]
           cleared == clear_forms(self)
           load == <<On("load_vault_entries")>>
<1>1. <<>> \in Seq(Event) /\ load \in Seq(Event)
  BY DEF On, Event
<1>2. cleared \in State /\ (Whole(self) => Whole(cleared))
  BY WaitsReady, FormsCleared DEF Whole
<1> HIDE DEF cleared, load
<1>3. ASSUME RegisterDone(t, reply) PROVE StateInv'
  <2> DEFINE new == [cleared EXCEPT !.page = "login", !.is_loading = FALSE]
  <2>1. TabOK(new, None, None)
    BY <1>2, WaitsReady DEF TabOK, Whole, State, Typed
  <2>2. Ends(t, new, <<>>)
    BY <1>3 DEF RegisterDone, cleared
  <2> HIDE DEF new
  <2> QED
    BY <1>1, <2>1, <2>2, EndsKeeps
<1>4. ASSUME LoginDerive(t, reply) PROVE StateInv'
  <2> DEFINE keys == derive_keys(self.form_master_password, reply.kdf.salt)
             payload == [op |-> "login", username |-> self.form_username,
                         auth_key |-> keys.auth_key]
  <2>1. call[t].op = "kdf_params" /\ reply.status = 200
    BY <1>4 DEF LoginDerive, Awaits
  <2>2. reply.kdf \in KdfParams
    BY <2>1 DEF ReplyFits, HopedFor
  <2>3. /\ FormComplete(self) /\ self.form_username \in Usernames
        /\ self.form_master_password \in Passwords
    BY <2>1, WaitsReady DEF Fits, FormComplete, State, Typed
  <2>4. /\ keys.enc_key \in EncKeys /\ keys.auth_key \in AuthKeys
        /\ keys.auth_key \in OwnAuthKeys
    BY <2>2, <2>3, DerivedKeys
  <2>5. /\ call' = [call EXCEPT ![t] = payload]
        /\ local' = [local EXCEPT ![t] = keys.enc_key]
        /\ sent' = sent \cup {payload}
        /\ UNCHANGED <<state, queue, attached>>
    BY <1>4 DEF LoginDerive
  <2>6. Fits(self, payload, keys.enc_key)
    BY <2>2, <2>3 DEF Fits, DerivedFrom, VaultOps
  <2> HIDE DEF keys
  <2>7. payload \in Calls /\ SentOK(payload)
    BY <2>3, <2>4, CallPayloads DEF SentOK
  <2>8. TabOK(self, payload, keys.enc_key)
    BY <2>1, <2>4, <2>6, <2>7, WaitsReady, NoneIsNothing
    DEF TabOK, Spinning, Typed
  <2> HIDE DEF payload
  <2>9. Shapes'
    BY <2>4, <2>5, <2>7 DEF StateInv, Shapes, Typed
  <2>10. ASSUME NEW u \in Tabs PROVE TabOK(state[u], call[u], local[u])'
    <3>1. /\ state' = state
          /\ call'[u] = IF u = t THEN payload ELSE call[u]
          /\ local'[u] = IF u = t THEN keys.enc_key ELSE local[u]
      BY <2>5 DEF StateInv, Shapes
    <3> QED
      BY <2>8, <3>1 DEF StateInv
  <2> QED
    BY <2>5, <2>7, <2>9, <2>10 DEF StateInv
<1>5. ASSUME LoginDone(t, reply) PROVE StateInv'
  <2> DEFINE new == [cleared EXCEPT
                        !.access_token = reply.access_token,
                        !.current_username = self.form_username,
                        !.enc_key_hex = local[t],
                        !.is_logged_in = TRUE,
                        !.page = "vault",
                        !.is_loading = FALSE]
  <2>1. call[t].op = "login" /\ reply.status = 200
    BY <1>5 DEF LoginDone, Awaits
  <2>2. reply.access_token \in ServerTokens
    BY <2>1 DEF ReplyFits, HopedFor
  <2>3. /\ local[t] \in EncKeys /\ self.form_username # None
        /\ self.form_username \in Typed(Usernames)
    <3>1. /\ FormComplete(self) /\ self \in State
          /\ \E kdf \in KdfParams : DerivedFrom(self, kdf, call[t], local[t])
      BY <2>1, WaitsReady DEF Fits
    <3>2. self.form_master_password \in Passwords
      BY <3>1 DEF FormComplete, State, Typed
    <3> QED
      BY <3>1, <3>2, DerivedKeys DEF DerivedFrom, FormComplete, State
  <2>4. TabOK(new, None, None)
    BY <1>2, <2>2, <2>3, NoneIsNothing DEF TabOK, Whole, State, Typed
  <2>5. Ends(t, new, load)
    BY <1>5 DEF LoginDone, cleared, load
  <2> HIDE DEF new
  <2> QED
    BY <1>1, <2>4, <2>5, EndsKeeps
<1>6. ASSUME LoadDone(t, reply) PROVE StateInv'
  <2> DEFINE shown == {[id |-> raw.id,
                        content |-> decrypt_entry(local[t], raw.blob)] :
                           raw \in reply.entries}
  <2>1. call[t].op = "list" /\ reply.status = 200
    BY <1>6 DEF LoadDone, Awaits
  <2>2. HasSession(self) /\ local[t] \in EncKeys
    BY <2>1, WaitsReady DEF Fits, HasSession, State, Typed
  <2>3. shown \in SUBSET Shown
    BY <2>1, <2>2, OpenedContent DEF ReplyFits, HopedFor, Shown
  <2>4. Ends(t, [self EXCEPT !.vault_entries = shown], <<>>)
    BY <1>6 DEF LoadDone
  <2> HIDE DEF shown
  <2> DEFINE new == [self EXCEPT !.vault_entries = shown]
  <2>5. self.is_logged_in /\ ~self.is_loading
    BY <2>1, <2>2, WaitsReady DEF Whole, HasSession, Spinning
  <2>6. TabOK(new, None, None)
    BY <2>3, <2>5, WaitsReady DEF TabOK, Whole, State, Typed
  <2>7. Ends(t, new, <<>>)
    BY <2>4
  <2> HIDE DEF new
  <2> QED
    BY <1>1, <2>6, <2>7, EndsKeeps
<1>7. ASSUME AddDone(t, reply) PROVE StateInv'
  <2> DEFINE new == [self EXCEPT !.new_entry = None, !.is_loading = FALSE]
  <2>1. TabOK(new, None, None)
    <3>1. self \in State /\ Whole(self)
      BY WaitsReady
    <3>2. new \in State
      BY <3>1 DEF State, Typed
    <3>3. Whole(new) /\ ~new.is_loading
      BY <3>1 DEF Whole, State
    <3> HIDE DEF new
    <3> QED
      BY <3>2, <3>3 DEF TabOK, Typed
  <2>2. Ends(t, new, load)
    BY <1>7 DEF AddDone, load
  <2> HIDE DEF new
  <2> QED
    BY <1>1, <2>1, <2>2, EndsKeeps
<1>8. ASSUME DeleteDone(t, reply) PROVE StateInv'
  <2>1. TabOK(self, None, None)
    BY <1>8, WaitsReady DEF DeleteDone, Awaits, TabOK, Typed, Spinning
  <2>2. Ends(t, self, load)
    BY <1>8 DEF DeleteDone, load
  <2> HIDE DEF self
  <2> QED
    BY <1>1, <2>1, <2>2, EndsKeeps
<1> QED
  BY <1>3, <1>4, <1>5, <1>6, <1>7, <1>8

\* A call that fails leaves nothing behind.
LEMMA FailureKeeps ==
    ASSUME StateInv, NEW t \in Tabs, NEW reply, CallFails(t, reply)
    PROVE  StateInv'
<1> DEFINE self == state[t]
           loading == self.is_loading /\ call[t].op \notin Spinning
           new == [self EXCEPT !.is_loading = FALSE]
<1>1. loading = FALSE
  BY WaitsReady DEF CallFails
<1>2. Ends(t, [self EXCEPT !.is_loading = loading], <<>>)
  BY DEF CallFails
<1> HIDE DEF loading
<1>3. Ends(t, new, <<>>)
  BY <1>1, <1>2, Zenon
<1>4. call[t] # None /\ <<>> \in Seq(Event)
  BY DEF CallFails
<1>5. TabOK(new, None, None)
  <2>1. self \in State /\ Whole(self)
    BY <1>4, WaitsReady
  <2>2. new \in State
    BY <2>1 DEF State
  <2>3. Whole(new) /\ ~new.is_loading
    BY <2>1 DEF Whole, State
  <2> HIDE DEF new
  <2> QED
    BY <2>2, <2>3 DEF TabOK, Typed
<1> HIDE DEF new
<1> QED
  BY <1>3, <1>4, <1>5, EndsKeeps

-----------------------------------------------------------------------------
(* What a handler does to its tab, and that it does nothing to another.    *)

OthersAlone(t) ==
    \A u \in Tabs \ {t} :
        /\ state'[u] = state[u] /\ queue'[u] = queue[u]
        /\ call'[u] = call[u] /\ local'[u] = local[u]

SessionFields == {"is_logged_in", "current_username", "access_token",
                  "enc_key_hex", "vault_entries"}

SameIn(fields, self, new) == \A field \in fields : new[field] = self[field]

NoSession(new) ==
    ~new.is_logged_in /\ new.access_token = None /\ new.vault_entries = {}

\* The page and the form of a new entry, by the event handled: set_new puts
\* something in the form, the others empty it or leave it alone.
EventTurns(name, self, new) ==
    CASE name = "go_to_register" -> new.page = "register" /\ new.new_entry = None
      [] name = "go_to_login"    -> new.page = "login" /\ new.new_entry = None
      [] name = "logout"         -> new.page = "login" /\ new.new_entry = None
      [] name = "set_new"        -> new.page = self.page /\ new.new_entry # None
      [] OTHER                   -> SameIn({"page", "new_entry"}, self, new)

\* Which events make which calls.
EventCalls(event, payload) ==
    CASE event.name = "register"           -> payload.op = "register"
      [] event.name = "login"              -> payload.op = "kdf_params"
      [] event.name = "load_vault_entries" -> payload.op = "list"
      [] event.name = "add_vault_entry"    -> payload.op = "create"
      [] event.name = "delete_vault_entry" ->
             payload.op = "delete" /\ payload.entry_id = event.id
      [] OTHER -> FALSE

EventEffect(t) ==
    LET event == Head(queue[t])
    IN /\ call[t] = None /\ queue[t] # <<>> /\ queue'[t] = Tail(queue[t])
       /\ OthersAlone(t)
       /\ SameIn(SessionFields, state[t], state'[t]) \/ NoSession(state'[t])
       /\ EventTurns(event.name, state[t], state'[t])
       /\ call'[t] = None \/ EventCalls(event, call'[t])

\* The two ways a handler that starts goes on.
LEMMA HandledEffect ==
    ASSUME StateInv, NEW t \in Tabs, NEW name, Starts(t, name),
           NEW new, Handled(t, new),
           SameIn(SessionFields, state[t], new) \/ NoSession(new),
           EventTurns(name, state[t], new)
    PROVE  EventEffect(t)
<1>1. /\ call[t] = None /\ queue[t] # <<>> /\ Head(queue[t]).name = name
      /\ state'[t] = new /\ queue'[t] = Tail(queue[t]) /\ call'[t] = None
      /\ OthersAlone(t)
  BY DEF Starts, Handled, StateInv, Shapes, OthersAlone
<1> QED
  BY <1>1 DEF EventEffect

LEMMA SendsEffect ==
    ASSUME StateInv, NEW t \in Tabs, NEW name, Starts(t, name),
           NEW new, NEW payload, NEW key, Sends(t, new, payload, key),
           SameIn(SessionFields, state[t], new),
           SameIn({"page", "new_entry"}, state[t], new),
           EventCalls(Head(queue[t]), payload)
    PROVE  EventEffect(t)
<1>1. /\ call[t] = None /\ queue[t] # <<>> /\ Head(queue[t]).name = name
      /\ state'[t] = new /\ queue'[t] = Tail(queue[t]) /\ call'[t] = payload
      /\ OthersAlone(t)
  BY DEF Starts, Sends, StateInv, Shapes, OthersAlone
<1>2. EventTurns(name, state[t], new)
  BY <1>1 DEF EventTurns, EventCalls
<1> QED
  BY <1>1, <1>2 DEF EventEffect

LEMMA EventEffects ==
    ASSUME StateInv, NEW t \in Tabs, HandleEvent(t)
    PROVE  EventEffect(t)
<1> DEFINE self == state[t]
           cleared == clear_forms(self)
<1>1. /\ self \in State /\ cleared \in State
      /\ SameIn(SessionFields, self, cleared)
      /\ cleared.page = self.page /\ cleared.new_entry = None
  BY FormsCleared DEF StateInv, Shapes, SameIn, SessionFields
<1> HIDE DEF cleared
<1>2. ASSUME GoToRegister(t) PROVE EventEffect(t)
  <2> DEFINE new == [cleared EXCEPT !.page = "register"]
  <2>1. SameIn(SessionFields, self, new) /\ EventTurns("go_to_register", self, new)
    BY <1>1 DEF SameIn, SessionFields, EventTurns, State
  <2>2. Starts(t, "go_to_register") /\ Handled(t, new)
    BY <1>2 DEF GoToRegister, cleared
  <2> HIDE DEF new
  <2> QED
    BY <2>1, <2>2, HandledEffect
<1>3. ASSUME GoToLogin(t) PROVE EventEffect(t)
  <2> DEFINE new == [cleared EXCEPT !.page = "login"]
  <2>1. SameIn(SessionFields, self, new) /\ EventTurns("go_to_login", self, new)
    BY <1>1 DEF SameIn, SessionFields, EventTurns, State
  <2>2. Starts(t, "go_to_login") /\ Handled(t, new)
    BY <1>3 DEF GoToLogin, cleared
  <2> HIDE DEF new
  <2> QED
    BY <2>1, <2>2, HandledEffect
<1>4. ASSUME SetForm(t) PROVE EventEffect(t)
  <2> DEFINE form == Head(queue[t]).form
             new == [self EXCEPT !.form_username = form.username,
                                 !.form_master_password = form.password,
                                 !.form_confirm_password = form.confirm]
  <2>1. SameIn(SessionFields, self, new) /\ EventTurns("set_form", self, new)
    BY <1>1 DEF SameIn, SessionFields, EventTurns, State
  <2>2. Starts(t, "set_form") /\ Handled(t, new)
    BY <1>4 DEF SetForm
  <2> HIDE DEF new
  <2> QED
    BY <2>1, <2>2, HandledEffect
<1>5. ASSUME SetNew(t) PROVE EventEffect(t)
  <2> DEFINE new == [self EXCEPT !.new_entry = Head(queue[t]).entry]
  <2>1. Head(queue[t]).entry # None
    BY <1>5, HeadIsEvent, FrontendAssumption DEF SetNew, StateInv
  <2>2. SameIn(SessionFields, self, new) /\ EventTurns("set_new", self, new)
    BY <1>1, <2>1 DEF SameIn, SessionFields, EventTurns, State
  <2>3. Starts(t, "set_new") /\ Handled(t, new)
    BY <1>5 DEF SetNew
  <2> HIDE DEF new
  <2> QED
    BY <2>2, <2>3, HandledEffect
<1>6. ASSUME Logout(t) PROVE EventEffect(t)
  <2> DEFINE new == [cleared EXCEPT
                        !.page = "login", !.is_logged_in = FALSE,
                        !.current_username = None, !.access_token = None,
                        !.enc_key_hex = None, !.vault_entries = {},
                        !.revealed_ids = {}]
  <2>1. NoSession(new) /\ EventTurns("logout", self, new)
    BY <1>1 DEF NoSession, EventTurns, State
  <2>2. Starts(t, "logout") /\ Handled(t, new)
    BY <1>6 DEF Logout, cleared
  <2> HIDE DEF new
  <2> QED
    BY <2>1, <2>2, HandledEffect
<1>7. ASSUME ToggleRevealPassword(t) PROVE EventEffect(t)
  <2>1. PICK revealed : Handled(t, [self EXCEPT !.revealed_ids = revealed])
    BY <1>7 DEF ToggleRevealPassword
  <2> DEFINE new == [self EXCEPT !.revealed_ids = revealed]
  <2>2. /\ SameIn(SessionFields, self, new)
        /\ EventTurns("toggle_reveal_password", self, new)
    BY <1>1 DEF SameIn, SessionFields, EventTurns, State
  <2>3. Starts(t, "toggle_reveal_password") /\ Handled(t, new)
    BY <1>7, <2>1 DEF ToggleRevealPassword
  <2> HIDE DEF new
  <2> QED
    BY <2>2, <2>3, HandledEffect
<1>8. ASSUME NEW name \in {"register", "login", "load_vault_entries",
                           "add_vault_entry"},
             Starts(t, name), Handled(t, self)
      PROVE  EventEffect(t)
  <2>1. SameIn(SessionFields, self, self) /\ EventTurns(name, self, self)
    BY DEF SameIn, EventTurns
  <2> QED
    BY <1>8, <2>1, HandledEffect
<1>9. ASSUME NEW name, Starts(t, name), NEW payload, NEW key,
             \/ Sends(t, self, payload, key)
             \/ Sends(t, [self EXCEPT !.is_loading = TRUE], payload, key),
             EventCalls(Head(queue[t]), payload)
      PROVE  EventEffect(t)
  <2> DEFINE loading == [self EXCEPT !.is_loading = TRUE]
  <2>1. /\ SameIn(SessionFields, self, self)
        /\ SameIn({"page", "new_entry"}, self, self)
    BY DEF SameIn
  <2>2. /\ SameIn(SessionFields, self, loading)
        /\ SameIn({"page", "new_entry"}, self, loading)
    BY <1>1 DEF SameIn, SessionFields, State
  <2> HIDE DEF loading
  <2>3. Sends(t, self, payload, key) \/ Sends(t, loading, payload, key)
    BY <1>9 DEF loading
  <2> QED
    BY <1>9, <2>1, <2>2, <2>3, SendsEffect
<1>10. \A name : Starts(t, name) => Head(queue[t]).name = name
  BY DEF Starts
<1>11. ASSUME Register(t) PROVE EventEffect(t)
  <2>1. PICK salt \in FreshSalts :
            Sends(t, [self EXCEPT !.is_loading = TRUE],
                  [op |-> "register", username |-> self.form_username,
                   auth_key |-> derive_keys(self.form_master_password,
                                            salt).auth_key,
                   kdf |-> [salt |-> salt, costs |-> ARGON2_COSTS]], None)
    BY <1>11 DEF Register
  <2> DEFINE payload ==
          [op |-> "register", username |-> self.form_username,
           auth_key |-> derive_keys(self.form_master_password, salt).auth_key,
           kdf |-> [salt |-> salt, costs |-> ARGON2_COSTS]]
  <2>2. Starts(t, "register") /\ EventCalls(Head(queue[t]), payload)
    BY <1>10, <1>11 DEF Register, EventCalls
  <2>3. Sends(t, [self EXCEPT !.is_loading = TRUE], payload, None)
    BY <2>1
  <2> HIDE DEF payload
  <2> QED
    BY <1>9, <2>2, <2>3
<1>12. ASSUME Login(t) PROVE EventEffect(t)
  <2> DEFINE payload == [op |-> "kdf_params", username |-> self.form_username]
  <2>1. Starts(t, "login") /\ EventCalls(Head(queue[t]), payload)
    BY <1>10, <1>12 DEF Login, EventCalls
  <2>2. Sends(t, [self EXCEPT !.is_loading = TRUE], payload, None)
    BY <1>12 DEF Login
  <2> HIDE DEF payload
  <2> QED
    BY <1>9, <2>1, <2>2
<1>13. ASSUME LoadVaultEntries(t) PROVE EventEffect(t)
  <2> DEFINE payload == [op |-> "list", token |-> self.access_token]
  <2>1. Starts(t, "load_vault_entries") /\ EventCalls(Head(queue[t]), payload)
    BY <1>10, <1>13 DEF LoadVaultEntries, EventCalls
  <2>2. Sends(t, self, payload, self.enc_key_hex)
    BY <1>13 DEF LoadVaultEntries
  <2> HIDE DEF payload
  <2> QED
    BY <1>9, <2>1, <2>2
<1>14. ASSUME AddVaultEntry(t) PROVE EventEffect(t)
  <2> DEFINE payload == [op |-> "create", token |-> self.access_token,
                         blob |-> encrypt_entry(self.enc_key_hex, self.new_entry)]
  <2>1. Starts(t, "add_vault_entry") /\ EventCalls(Head(queue[t]), payload)
    BY <1>10, <1>14 DEF AddVaultEntry, EventCalls
  <2>2. Sends(t, [self EXCEPT !.is_loading = TRUE], payload, None)
    BY <1>14 DEF AddVaultEntry
  <2> HIDE DEF payload
  <2> QED
    BY <1>9, <2>1, <2>2
<1>15. ASSUME DeleteVaultEntry(t) PROVE EventEffect(t)
  <2> DEFINE payload == [op |-> "delete", token |-> self.access_token,
                         entry_id |-> Head(queue[t]).id]
  <2>1. Starts(t, "delete_vault_entry") /\ EventCalls(Head(queue[t]), payload)
    BY <1>10, <1>15 DEF DeleteVaultEntry, EventCalls
  <2>2. Sends(t, self, payload, None)
    BY <1>15 DEF DeleteVaultEntry
  <2> HIDE DEF payload
  <2> QED
    BY <1>9, <2>1, <2>2
<1>16. ASSUME RegisterInvalid(t) \/ LoginInvalid(t) \/ LoadSkipped(t) \/ AddInvalid(t)
       PROVE  EventEffect(t)
  BY <1>8, <1>16 DEF RegisterInvalid, LoginInvalid, LoadSkipped, AddInvalid
<1> QED
  BY <1>2, <1>3, <1>4, <1>5, <1>6, <1>7, <1>11, <1>12, <1>13, <1>14, <1>15,
     <1>16 DEF HandleEvent

\* What an answer does to its tab.
Signed(t, reply) ==
    LET self == state[t]
        new  == state'[t]
    IN /\ new.is_logged_in /\ new.current_username = self.form_username
       /\ new.access_token = reply.access_token
       /\ new.enc_key_hex = local[t]
       /\ new.vault_entries = self.vault_entries
       /\ new.page = "vault" /\ new.new_entry = None

Opened(t, reply) ==
    LET self == state[t]
        new  == state'[t]
    IN /\ SameIn(SessionFields \ {"vault_entries"}, self, new)
       /\ SameIn({"page", "new_entry"}, self, new)
       /\ new.vault_entries =
              {[id |-> raw.id, content |-> decrypt_entry(local[t], raw.blob)]
                   : raw \in reply.entries}

Registered(self, new) ==
    /\ SameIn(SessionFields, self, new)
    /\ new.page = "login" /\ new.new_entry = None

Added(self, new) ==
    /\ SameIn(SessionFields \cup {"page"}, self, new) /\ new.new_entry = None

\* The call goes on to the next, which only a sign-in's does, or the handler
\* ends and may chain a load.
ReplyTurns(t, reply) ==
    LET op == call[t].op
    IN CASE reply.status = HopedFor(op) /\ op = "register" ->
                Registered(state[t], state'[t])
         [] reply.status = HopedFor(op) /\ op = "login"  -> Signed(t, reply)
         [] reply.status = HopedFor(op) /\ op = "list"   -> Opened(t, reply)
         [] reply.status = HopedFor(op) /\ op = "create" ->
                Added(state[t], state'[t])
         [] OTHER -> SameIn(SessionFields \cup {"page", "new_entry"},
                            state[t], state'[t])

ReplyEffect(t, reply) ==
    /\ OthersAlone(t)
    /\ ReplyTurns(t, reply)
    /\ \/ call'[t] = None
       \/ /\ call[t].op = "kdf_params" /\ call'[t].op = "login"
          /\ reply.status = HopedFor(call[t].op)
          /\ state'[t] = state[t]
          /\ DerivedFrom(state[t], reply.kdf, call'[t], local'[t])
    /\ queue'[t] \in {queue[t], queue[t] \o <<On("load_vault_entries")>>}

LEMMA EndsEffect ==
    ASSUME StateInv, NEW t \in Tabs, NEW new, NEW reply,
           NEW chained \in {<<>>, <<On("load_vault_entries")>>},
           Ends(t, new, chained)
    PROVE  /\ state'[t] = new /\ call'[t] = None /\ OthersAlone(t)
           /\ queue'[t] \in {queue[t], queue[t] \o <<On("load_vault_entries")>>}
<1>1. queue[t] \in Seq(Event)
  BY DEF StateInv, Shapes
<1>2. queue[t] \o <<>> = queue[t]
  BY <1>1
<1>3. queue'[t] \in {queue[t], queue[t] \o chained}
  BY DEF Ends, StateInv, Shapes
<1> QED
  BY <1>2, <1>3 DEF Ends, StateInv, Shapes, OthersAlone

LEMMA ReplyEffects ==
    ASSUME StateInv, NEW t \in Tabs, call[t] # None, NEW reply, Resume(t, reply)
    PROVE  ReplyEffect(t, reply)
<1> DEFINE self == state[t]
           cleared == clear_forms(self)
           load == <<On("load_vault_entries")>>
<1>1. /\ self \in State /\ cleared \in State
      /\ SameIn(SessionFields, self, cleared)
      /\ cleared.page = self.page /\ cleared.new_entry = None
  BY FormsCleared DEF StateInv, Shapes, SameIn, SessionFields
<1>2. ASSUME NEW new, NEW chained \in {<<>>, load}, Ends(t, new, chained),
             state'[t] = new => ReplyTurns(t, reply)
      PROVE  ReplyEffect(t, reply)
  BY <1>2, EndsEffect DEF ReplyEffect
<1> HIDE DEF cleared, load
<1>3. ASSUME RegisterDone(t, reply) PROVE ReplyEffect(t, reply)
  <2> DEFINE new == [cleared EXCEPT !.page = "login", !.is_loading = FALSE]
  <2>1. Registered(self, new)
    BY <1>1 DEF Registered, SameIn, SessionFields, State
  <2>2. Ends(t, new, <<>>) /\ call[t].op = "register" /\ reply.status = 201
    BY <1>3 DEF RegisterDone, Awaits, cleared
  <2> HIDE DEF new
  <2>3. state'[t] = new => ReplyTurns(t, reply)
    BY <2>1, <2>2 DEF ReplyTurns, HopedFor
  <2> QED
    BY <1>2, <2>2, <2>3
<1>4. ASSUME LoginDerive(t, reply) PROVE ReplyEffect(t, reply)
  <2> DEFINE keys == derive_keys(self.form_master_password, reply.kdf.salt)
             payload == [op |-> "login", username |-> self.form_username,
                         auth_key |-> keys.auth_key]
  <2>1. /\ call' = [call EXCEPT ![t] = payload]
        /\ local' = [local EXCEPT ![t] = keys.enc_key]
        /\ UNCHANGED <<state, queue>>
        /\ call[t].op = "kdf_params" /\ reply.status = HopedFor(call[t].op)
    BY <1>4 DEF LoginDerive, Awaits, HopedFor
  <2>2. DerivedFrom(self, reply.kdf, payload, keys.enc_key)
    BY DEF DerivedFrom
  <2>3. payload.op = "login"
    OBVIOUS
  <2> HIDE DEF payload, keys
  <2>4. call'[t] = payload /\ local'[t] = keys.enc_key /\ OthersAlone(t)
    BY <2>1 DEF StateInv, Shapes, OthersAlone
  <2>5. ReplyTurns(t, reply)
    BY <2>1 DEF ReplyTurns, SameIn
  <2> QED
    BY <2>1, <2>2, <2>3, <2>4, <2>5 DEF ReplyEffect
<1>5. ASSUME LoginDone(t, reply) PROVE ReplyEffect(t, reply)
  <2> DEFINE new == [cleared EXCEPT
                        !.access_token = reply.access_token,
                        !.current_username = self.form_username,
                        !.enc_key_hex = local[t],
                        !.is_logged_in = TRUE,
                        !.page = "vault",
                        !.is_loading = FALSE]
  <2>1. /\ new.is_logged_in /\ new.current_username = self.form_username
        /\ new.access_token = reply.access_token
        /\ new.enc_key_hex = local[t]
        /\ new.vault_entries = cleared.vault_entries
        /\ new.page = "vault" /\ new.new_entry = None
    BY <1>1 DEF State
  <2>2. cleared.vault_entries = self.vault_entries
    BY <1>1 DEF SameIn, SessionFields
  <2>3. Ends(t, new, load) /\ call[t].op = "login" /\ reply.status = 200
    BY <1>5 DEF LoginDone, Awaits, cleared, load
  <2> HIDE DEF new
  <2>4. state'[t] = new => Signed(t, reply)
    BY <2>1, <2>2 DEF Signed
  <2>5. state'[t] = new => ReplyTurns(t, reply)
    BY <2>3, <2>4 DEF ReplyTurns, HopedFor
  <2> QED
    BY <1>2, <2>3, <2>5
<1>6. ASSUME LoadDone(t, reply) PROVE ReplyEffect(t, reply)
  <2> DEFINE shown == {[id |-> raw.id,
                        content |-> decrypt_entry(local[t], raw.blob)] :
                           raw \in reply.entries}
             new == [self EXCEPT !.vault_entries = shown]
  <2>1. Ends(t, new, <<>>) /\ call[t].op = "list" /\ reply.status = 200
    BY <1>6 DEF LoadDone, Awaits
  <2> HIDE DEF shown
  <2>2. /\ SameIn(SessionFields \ {"vault_entries"}, self, new)
        /\ SameIn({"page", "new_entry"}, self, new)
        /\ new.vault_entries = shown
    BY <1>1 DEF SameIn, SessionFields, State
  <2> HIDE DEF new
  <2>3. state'[t] = new => Opened(t, reply)
    BY <2>2 DEF Opened, shown
  <2>4. state'[t] = new => ReplyTurns(t, reply)
    BY <2>1, <2>3 DEF ReplyTurns, HopedFor
  <2> QED
    BY <1>2, <2>1, <2>4
<1>7. ASSUME AddDone(t, reply) PROVE ReplyEffect(t, reply)
  <2> DEFINE new == [self EXCEPT !.new_entry = None, !.is_loading = FALSE]
  <2>1. Added(self, new)
    BY <1>1 DEF Added, SameIn, SessionFields, State
  <2>2. Ends(t, new, load) /\ call[t].op = "create" /\ reply.status = 201
    BY <1>7 DEF AddDone, Awaits, load
  <2> HIDE DEF new
  <2>3. state'[t] = new => ReplyTurns(t, reply)
    BY <2>1, <2>2 DEF ReplyTurns, HopedFor
  <2> QED
    BY <1>2, <2>2, <2>3
<1>8. ASSUME DeleteDone(t, reply) PROVE ReplyEffect(t, reply)
  <2>1. Ends(t, self, load) /\ call[t].op = "delete"
    BY <1>8 DEF DeleteDone, Awaits, load
  <2>2. state'[t] = self => ReplyTurns(t, reply)
    BY <2>1 DEF ReplyTurns, SameIn
  <2> HIDE DEF self
  <2> QED
    BY <1>2, <2>1, <2>2
<1>9. ASSUME CallFails(t, reply) PROVE ReplyEffect(t, reply)
  <2> DEFINE loading == self.is_loading /\ call[t].op \notin Spinning
             new == [self EXCEPT !.is_loading = loading]
  <2>1. Ends(t, new, <<>>) /\ reply.status # HopedFor(call[t].op)
    BY <1>9 DEF CallFails
  <2> HIDE DEF loading
  <2>2. SameIn(SessionFields \cup {"page", "new_entry"}, self, new)
    BY <1>1 DEF SameIn, SessionFields, State
  <2> HIDE DEF new
  <2>3. state'[t] = new => ReplyTurns(t, reply)
    BY <2>1, <2>2 DEF ReplyTurns
  <2> QED
    BY <1>2, <2>1, <2>3
<1> QED
  BY <1>3, <1>4, <1>5, <1>6, <1>7, <1>8, <1>9 DEF Resume

-----------------------------------------------------------------------------
(* Every step keeps the invariant.                                         *)

\* What a page offers.
LEMMA OfferedEvents ==
    ASSUME StateInv, NEW t \in Tabs, NEW event \in Offered(t)
    PROVE  event \in Event
<1>1. \A entry \in state[t].vault_entries : entry.id \in EntryIds
  BY DEF StateInv, Shapes, State, Shown
<1> QED
  BY <1>1 DEF Offered, vault_page, register_page, login_page, unless_loading,
              entry_card, add_entry_form, On, Event

\* The user.
LEMMA UserKeeps ==
    ASSUME StateInv, NEW t \in Tabs, UserStep(t)
    PROVE  StateInv'
<1>1. Shapes'
  <2>1. CASE Click(t)
    <3>1. PICK event \in Event :
              queue' = [queue EXCEPT ![t] = Append(@, event)]
      BY <2>1, OfferedEvents DEF Click
    <3> QED
      BY <2>1, <3>1 DEF Click, StateInv, Shapes
  <2>2. CASE Reload(t)
    BY <2>2 DEF Reload, StateInv, Shapes
  <2> QED
    BY <2>1, <2>2 DEF UserStep
<1>2. UNCHANGED <<state, call, local, sent>>
  BY DEF UserStep, Click, Reload
<1> QED
  BY <1>1, <1>2 DEF StateInv

LEMMA InitState == StateInit => StateInv
<1> SUFFICES ASSUME StateInit PROVE StateInv
  OBVIOUS
<1>1. TabOK(InitialState, None, None)
  BY DEF InitialState, TabOK, Whole, State, Typed
<1> QED
  BY <1>1 DEF StateInit, StateInv, Shapes, TabOK

LEMMA NextState == StateInv /\ [StateNext]_stateVars => StateInv'
<1> SUFFICES ASSUME StateInv, [StateNext]_stateVars PROVE StateInv'
  OBVIOUS
<1>1. ASSUME NEW t \in Tabs, HandleEvent(t) PROVE StateInv'
  BY <1>1, SimpleHandlers, CallingHandlers DEF HandleEvent
<1>2. ASSUME NEW t \in Tabs, Answered(t) PROVE StateInv'
  BY <1>2, RepliesFit, AnswersKeep, FailureKeeps DEF Answered, Resume
<1>3. CASE UNCHANGED stateVars
  BY <1>3 DEF stateVars, StateInv, Shapes
<1> QED
  BY <1>1, <1>2, <1>3, UserKeeps DEF StateNext

LEMMA StateInvariance == StateSpec => []StateInv
BY InitState, NextState, PTL DEF StateSpec

-----------------------------------------------------------------------------
(* The theorems.                                                           *)

\* Every field of a State keeps its type, and every call is a request the
\* backend has a schema for.
THEOREM StateTypeCorrectness == StateSpec => []StateTypeOK
BY InvImplies, StateInvariance, PTL

\* Token, key and name come and go together, whatever fails and whatever is
\* queued behind a login or a logout.
THEOREM SessionsAreWhole == StateSpec => []SessionIsWhole
BY InvImplies, StateInvariance, PTL

\* The buttons are disabled exactly while a handler runs that enables them.
THEOREM LoadingAlwaysEnds == StateSpec => []LoadingIsEnded
BY InvImplies, StateInvariance, PTL

\* A derived encryption key is no derived auth_key, nor derived from one: the
\* labels keep them apart.
LEMMA KeysAreApart ==
    ASSUME NEW key \in EncKeys, NEW auth_key \in OwnAuthKeys
    PROVE  key # auth_key /\ key.from # auth_key
<1>1. PICK p \in Passwords, s \in {k.salt : k \in KdfParams} :
          key = derive_keys(p, s).enc_key
  BY DEF EncKeys
<1>2. PICK q \in Passwords, k \in KdfParams :
          auth_key = derive_keys(q, k.salt).auth_key
  BY DEF OwnAuthKeys
<1>3. /\ key.info = HKDF_INFO_ENC_KEY
      /\ key.from = argon2id(p, s, ARGON2_COSTS)
  BY <1>1 DEF derive_keys, hkdf
<1>4. /\ auth_key.info = HKDF_INFO_AUTH_KEY
      /\ DOMAIN auth_key = {"from", "info"}
  BY <1>2 DEF derive_keys, hkdf
<1>5. DOMAIN key.from = {"secret", "salt", "costs"}
  BY <1>3 DEF argon2id
<1>6. key # auth_key
  BY <1>3, <1>4 DEF HKDF_INFO_ENC_KEY, HKDF_INFO_AUTH_KEY
<1>7. "from" \notin DOMAIN key.from /\ "from" \in DOMAIN auth_key
  BY <1>4, <1>5
<1> QED
  BY <1>6, <1>7

\* So what was sent keeps ciphertexts shut.
LEMMA SentIsShut == StateInv => ServerCannotDecrypt
<1>1. ASSUME StateInv, NEW c \in sent, NEW p \in sent, c.op = "create",
             p.op \in {"register", "login"}
      PROVE  c.blob.key # p.auth_key /\ c.blob.key.from # p.auth_key
  <2>1. c.blob \in OwnBlobs /\ p.auth_key \in OwnAuthKeys
    BY <1>1 DEF StateInv, SentOK
  <2>2. c.blob.key \in EncKeys
    BY <2>1 DEF OwnBlobs, encrypt_entry
  <2> QED
    BY <2>1, <2>2, KeysAreApart
<1> QED
  BY <1>1 DEF ServerCannotDecrypt

\* Nothing that ever left a tab opens a ciphertext that ever left a tab.
THEOREM ServerNeverDecrypts == StateSpec => []ServerCannotDecrypt
BY SentIsShut, StateInvariance, PTL

\* Who sets the list of a page: an answered load, or a logout that empties
\* it.
LEMMA ListChanges ==
    ASSUME StateInv, NEW t \in Tabs, HandleEvent(t) \/ Answered(t)
    PROVE  /\ OthersAlone(t)
           /\ \/ state'[t].vault_entries \in {state[t].vault_entries, {}}
              \/ /\ call[t] # None /\ call[t].op = "list"
                 /\ \E reply \in Replies("list") :
                        reply.status = 200 /\ Opened(t, reply)
<1>1. CASE HandleEvent(t)
  <2>1. EventEffect(t)
    BY <1>1, EventEffects
  <2> QED
    BY <2>1 DEF EventEffect, SameIn, SessionFields, NoSession
<1>2. CASE Answered(t)
  <2>1. PICK reply \in Replies(call[t].op) : call[t] # None /\ Resume(t, reply)
    BY <1>2 DEF Answered
  <2>2. OthersAlone(t) /\ ReplyTurns(t, reply)
    BY <2>1, ReplyEffects DEF ReplyEffect
  <2>3. SameIn(SessionFields, state[t], state'[t]) =>
            state'[t].vault_entries = state[t].vault_entries
    BY DEF SameIn, SessionFields
  <2>4. SameIn(SessionFields \cup {"page"}, state[t], state'[t])
            => SameIn(SessionFields, state[t], state'[t])
    BY DEF SameIn
  <2>5. SameIn(SessionFields \cup {"page", "new_entry"}, state[t], state'[t])
            => SameIn(SessionFields, state[t], state'[t])
    BY DEF SameIn
  <2> QED
    BY <2>1, <2>2, <2>3, <2>4, <2>5
    DEF ReplyTurns, HopedFor, Registered, Signed, Added
<1> QED
  BY <1>1, <1>2

\* Whatever a server answers, what a page shows in clear was sent under the
\* session's own key.
THEOREM ShownIsAlwaysAuthentic == StateSpec => ShownIsAuthentic
<1> DEFINE Authentic(t, e) ==
               \/ e.content = DecryptionFailed
               \/ \E p \in sent :
                      /\ p.op = "create"
                      /\ p.blob.plaintext = e.content
                      /\ p.blob.key = state'[t].enc_key_hex
           Shows ==
               \A t \in Tabs :
                   state'[t].vault_entries # state[t].vault_entries =>
                       \A e \in state'[t].vault_entries : Authentic(t, e)
<1>1. ASSUME StateInv, NEW t \in Tabs, NEW reply \in Replies("list"),
             call[t] # None, call[t].op = "list", reply.status = 200,
             Opened(t, reply), NEW e \in state'[t].vault_entries
      PROVE  Authentic(t, e)
  <2>1. state[t] \in State /\ local[t] \in EncKeys
            /\ local[t] = state[t].enc_key_hex
    BY <1>1, WaitsReady DEF Fits, HasSession, State, Typed
  <2>2. state'[t].enc_key_hex = local[t]
    BY <1>1, <2>1 DEF Opened, SameIn, SessionFields
  <2>3. PICK raw \in reply.entries :
            e = [id |-> raw.id, content |-> decrypt_entry(local[t], raw.blob)]
    BY <1>1 DEF Opened
  <2>4. e.content = decrypt_entry(local[t], raw.blob)
    BY <2>3
  <2>5. \/ \E p \in sent : p.op = "create" /\ p.blob = raw.blob
                           /\ raw.blob \in OwnBlobs
        \/ raw.blob \in Forged
    BY <1>1, ListedBlobs
  <2>6. \/ e.content = DecryptionFailed
        \/ /\ raw.blob \in OwnBlobs /\ raw.blob.key = local[t]
           /\ raw.blob.plaintext = e.content
    BY <2>1, <2>4, <2>5, OpenedContent, CipherAssumption DEF Shut
  <2>7. raw.blob \in Forged => e.content = DecryptionFailed
    BY <2>1, <2>4, CipherAssumption DEF decrypt_entry
  <2> QED
    BY <2>2, <2>5, <2>6, <2>7
<1>2. ASSUME StateInv, NEW t \in Tabs, HandleEvent(t) \/ Answered(t),
             state'[t].vault_entries # state[t].vault_entries,
             NEW e \in state'[t].vault_entries
      PROVE  Authentic(t, e)
  BY <1>1, <1>2, ListChanges
<1>3. ASSUME StateInv, NEW t \in Tabs, HandleEvent(t) \/ Answered(t),
             NEW u \in Tabs, u # t
      PROVE  state'[u] = state[u]
  BY <1>3, ListChanges DEF OthersAlone
<1>4. ASSUME StateInv, StateNext PROVE Shows
  BY <1>2, <1>3, <1>4 DEF StateNext, UserStep, Click, Reload
<1>5. StateInv /\ [StateNext]_stateVars => [Shows]_stateVars
  BY <1>4
<1> QED
  BY <1>5, StateInvariance, PTL DEF StateSpec, ShownIsAuthentic

-----------------------------------------------------------------------------
(* The order of events.                                                    *)

\* What opens a page beyond the login page, and what closes one or fills in
\* the form of a new entry.
Opening == {"login", "go_to_register"}
Closing == {"register", "go_to_login", "logout", "set_new"}

Has(q, names) == \E i \in DOMAIN q : q[i].name \in names
After(q, names, later) ==
    \E i, j \in DOMAIN q : i < j /\ q[i].name \in names /\ q[j].name \in later

\* The event whose handler awaits the call counts as the first in the queue.
Running(payload) ==
    IF payload = None THEN "none"
    ELSE CASE payload.op \in {"kdf_params", "login"} -> "login"
           [] payload.op = "register"               -> "register"
           [] OTHER                                 -> "other"

Waits(t, names) == Running(call[t]) \in names \/ Has(queue[t], names)
InTurn(t, names, later) ==
    \/ Running(call[t]) \in names /\ Has(queue[t], later)
    \/ After(queue[t], names, later)

\* A page offers events of one kind only.  So what still waits from the pages
\* before is ahead of what this page offered, and nothing that waits behind
\* a filled form could sign anyone in.
OrderOK(t) ==
    /\ state[t].page = "login" => ~InTurn(t, Opening, Closing)
    /\ state[t].page # "login" => ~InTurn(t, Closing, Opening)
    /\ state[t].page = "vault" /\ state[t].new_entry # None => ~Waits(t, Opening)

OrderInv == \A t \in Tabs : OrderOK(t)

LEMMA TailOrder ==
    ASSUME NEW q \in Seq(Event), q # <<>>, NEW names, NEW later
    PROVE  /\ Has(Tail(q), names) => Has(q, names)
           /\ Head(q).name \in names => Has(q, names)
           /\ After(Tail(q), names, later) => After(q, names, later)
           /\ Head(q).name \in names /\ Has(Tail(q), later) =>
                  After(q, names, later)
<1>1. \A i \in DOMAIN Tail(q) :
          i \in Nat \ {0} /\ i + 1 \in DOMAIN q /\ Tail(q)[i] = q[i + 1]
  OBVIOUS
<1>2. Head(q) = q[1] /\ 1 \in DOMAIN q
  OBVIOUS
<1>3. Has(Tail(q), names) => Has(q, names)
  BY <1>1 DEF Has
<1>4. ASSUME After(Tail(q), names, later) PROVE After(q, names, later)
  <2>1. PICK i, j \in DOMAIN Tail(q) :
            i < j /\ Tail(q)[i].name \in names /\ Tail(q)[j].name \in later
    BY <1>4 DEF After
  <2>2. i + 1 < j + 1
    BY <1>1, <2>1
  <2> QED
    BY <1>1, <2>1, <2>2 DEF After
<1>5. ASSUME Head(q).name \in names, Has(Tail(q), later)
      PROVE  After(q, names, later)
  <2>1. PICK j \in DOMAIN Tail(q) : Tail(q)[j].name \in later
    BY <1>5 DEF Has
  <2>2. 1 < j + 1
    BY <1>1, <2>1
  <2> QED
    BY <1>1, <1>2, <1>5, <2>1, <2>2 DEF After
<1> QED
  BY <1>2, <1>3, <1>4, <1>5 DEF Has

LEMMA AppendOrder ==
    ASSUME NEW q \in Seq(Event), NEW e \in Event, NEW names, NEW later
    PROVE  /\ e.name \notin names =>
                  (Has(Append(q, e), names) <=> Has(q, names))
           /\ e.name \notin later =>
                  (After(Append(q, e), names, later) => After(q, names, later))
<1>1. /\ DOMAIN Append(q, e) = 1 .. Len(q) + 1 /\ Len(q) \in Nat
      /\ DOMAIN q = 1 .. Len(q)
      /\ \A i \in 1 .. Len(q) : Append(q, e)[i] = q[i]
      /\ Append(q, e)[Len(q) + 1] = e
  OBVIOUS
<1>2. ASSUME e.name \notin names
      PROVE  Has(Append(q, e), names) <=> Has(q, names)
  BY <1>1, <1>2 DEF Has
<1>3. ASSUME e.name \notin later, After(Append(q, e), names, later)
      PROVE  After(q, names, later)
  <2>1. PICK i, j \in 1 .. Len(q) + 1 :
            /\ i < j /\ Append(q, e)[i].name \in names
            /\ Append(q, e)[j].name \in later
    BY <1>1, <1>3 DEF After
  <2>2. i \in 1 .. Len(q) /\ j \in 1 .. Len(q)
    BY <1>1, <1>3, <2>1
  <2> QED
    BY <1>1, <2>1, <2>2 DEF After
<1> QED
  BY <1>2, <1>3

LEMMA LoadIsNeither ==
    /\ On("load_vault_entries") \in Event
    /\ On("load_vault_entries").name \notin Opening \cup Closing
BY DEF On, Event, Opening, Closing

\* The tab t itself, when its handler starts on the next event.
LEMMA EventKeepsOrder ==
    ASSUME StateInv, NEW t \in Tabs, OrderOK(t), EventEffect(t)
    PROVE  OrderOK(t)'
<1> DEFINE q == queue[t]
           head == Head(q).name
<1>1. /\ call[t] = None /\ q # <<>> /\ q \in Seq(Event) /\ queue'[t] = Tail(q)
      /\ EventTurns(head, state[t], state'[t])
      /\ call'[t] = None \/ EventCalls(Head(q), call'[t])
      /\ state[t].page \in {"login", "register", "vault"}
  BY DEF EventEffect, StateInv, Shapes, State
<1>2. ASSUME NEW names \in {Opening, Closing}, Running(call'[t]) \in names
      PROVE  head \in names
  BY <1>1, <1>2 DEF Running, EventCalls, Opening, Closing
<1>3. ASSUME NEW names \in {Opening, Closing}
      PROVE  /\ (Waits(t, names))' => Waits(t, names)
             /\ head \in names => Waits(t, names)
  BY <1>1, <1>2, TailOrder DEF Waits
<1>4. ASSUME NEW names \in {Opening, Closing}, NEW later
      PROVE  /\ InTurn(t, names, later)' => InTurn(t, names, later)
             /\ head \in names /\ ~InTurn(t, names, later) => ~Has(queue'[t], later)
  BY <1>1, <1>2, TailOrder DEF InTurn
<1>5. \A names, later :
          InTurn(t, names, later)' =>
              Running(call'[t]) \in names \/ After(queue'[t], names, later)
  BY DEF InTurn
<1>6. \A names, later : After(queue'[t], names, later) => Has(queue'[t], later)
  BY DEF After, Has
<1>7. CASE head = "go_to_register"
  <2>1. /\ state'[t].page = "register" /\ Running(call'[t]) = "none"
        /\ head \in Opening
    BY <1>1, <1>7 DEF EventTurns, EventCalls, Running, Opening
  <2>2. ~InTurn(t, Closing, Opening)'
    <3>1. CASE state[t].page = "login"
      <4>1. ~Has(queue'[t], Closing)
        BY <1>4, <2>1, <3>1 DEF OrderOK
      <4>2. ~After(queue'[t], Closing, Opening)
        BY <4>1 DEF After, Has
      <4> QED
        BY <1>5, <2>1, <4>2 DEF Closing
    <3>2. CASE state[t].page # "login"
      BY <1>4, <3>2 DEF OrderOK
    <3> QED
      BY <3>1, <3>2
  <2> QED
    BY <2>1, <2>2 DEF OrderOK
<1>8. CASE head \in {"go_to_login", "logout"}
  <2>1. /\ state'[t].page = "login" /\ Running(call'[t]) = "none"
        /\ head \in Closing
    BY <1>1, <1>8 DEF EventTurns, EventCalls, Running, Closing
  <2>2. ~InTurn(t, Opening, Closing)'
    <3>1. CASE state[t].page # "login"
      <4>1. ~Has(queue'[t], Opening)
        BY <1>4, <2>1, <3>1 DEF OrderOK
      <4>2. ~After(queue'[t], Opening, Closing)
        BY <4>1 DEF After, Has
      <4> QED
        BY <1>5, <2>1, <4>2 DEF Opening
    <3>2. CASE state[t].page = "login"
      BY <1>4, <3>2 DEF OrderOK
    <3> QED
      BY <3>1, <3>2
  <2> QED
    BY <2>1, <2>2 DEF OrderOK
<1>9. CASE head = "set_new"
  <2>1. /\ state'[t].page = state[t].page /\ Running(call'[t]) = "none"
        /\ head \in Closing
    BY <1>1, <1>9 DEF EventTurns, EventCalls, Running, Closing
  <2>2. state[t].page = "vault" => ~Waits(t, Opening)'
    BY <1>4, <2>1 DEF OrderOK, Waits, Opening
  <2> QED
    BY <1>4, <2>1, <2>2 DEF OrderOK
<1>10. CASE head \notin {"go_to_register", "go_to_login", "logout", "set_new"}
  <2>1. /\ state'[t].page = state[t].page
        /\ state'[t].new_entry = state[t].new_entry
    BY <1>1, <1>10 DEF EventTurns, SameIn
  <2> QED
    BY <1>3, <1>4, <2>1 DEF OrderOK
<1> QED
  BY <1>7, <1>8, <1>9, <1>10

\* When its handler goes on.
LEMMA ReplyKeepsOrder ==
    ASSUME StateInv, NEW t \in Tabs, OrderOK(t), call[t] # None,
           NEW reply, ReplyEffect(t, reply)
    PROVE  OrderOK(t)'
<1> DEFINE load == On("load_vault_entries")
           kinds == {Opening, Closing}
<1>1. /\ queue[t] \in Seq(Event)
      /\ queue'[t] \in {queue[t], queue[t] \o <<load>>}
      /\ \/ call'[t] = None
         \/ call[t].op = "kdf_params" /\ call'[t].op = "login"
      /\ ReplyTurns(t, reply)
      /\ state[t].page \in {"login", "register", "vault"}
  BY DEF ReplyEffect, StateInv, Shapes, State
<1>2. queue[t] \o <<load>> = Append(queue[t], load)
  BY <1>1
<1> HIDE DEF load
<1>3. load \in Event /\ load.name \notin Opening \cup Closing
  BY LoadIsNeither DEF load
<1>4. ASSUME NEW names \in kinds
      PROVE  Has(queue'[t], names) <=> Has(queue[t], names)
  <2>1. load.name \notin names
    BY <1>3
  <2>2. Has(Append(queue[t], load), names) <=> Has(queue[t], names)
    BY <1>1, <1>3, <2>1, AppendOrder
  <2> QED
    BY <1>1, <1>2, <2>2
<1>5. ASSUME NEW names \in kinds, NEW later \in kinds
      PROVE  After(queue'[t], names, later) => After(queue[t], names, later)
  BY <1>1, <1>2, <1>3, AppendOrder
<1>6. ASSUME NEW names \in kinds, Running(call'[t]) \in names
      PROVE  Running(call[t]) \in names
  BY <1>1, <1>6 DEF Running, Opening, Closing
<1>7. \A names, later \in kinds :
          InTurn(t, names, later)' => InTurn(t, names, later)
  BY <1>4, <1>5, <1>6 DEF InTurn
<1>8. \A names \in kinds : Waits(t, names)' => Waits(t, names)
  BY <1>4, <1>6 DEF Waits
<1>9. \A names, later : After(queue'[t], names, later) =>
                            Has(queue'[t], names) /\ Has(queue'[t], later)
  BY DEF After, Has
<1>10. CASE reply.status = HopedFor(call[t].op) /\ call[t].op = "register"
  <2>1. state'[t].page = "login" /\ call'[t] = None /\ Running(call[t]) \in Closing
    BY <1>1, <1>10 DEF ReplyTurns, Registered, Running, Closing
  <2>2. CASE state[t].page = "login"
    BY <1>7, <2>1, <2>2 DEF OrderOK
  <2>3. CASE state[t].page # "login"
    <3>1. ~Has(queue[t], Opening)
      BY <2>1, <2>3 DEF OrderOK, InTurn
    <3>2. ~InTurn(t, Opening, Closing)'
      BY <1>4, <1>9, <2>1, <3>1 DEF InTurn, Running, Opening
    <3> QED
      BY <2>1, <3>2 DEF OrderOK
  <2> QED
    BY <2>2, <2>3
<1>11. CASE reply.status = HopedFor(call[t].op) /\ call[t].op = "login"
  <2>1. /\ state'[t].page = "vault" /\ state'[t].new_entry = None
        /\ call'[t] = None /\ Running(call[t]) \in Opening
    BY <1>1, <1>11 DEF ReplyTurns, Signed, Running, Opening
  <2>2. CASE state[t].page # "login"
    BY <1>7, <2>1, <2>2 DEF OrderOK
  <2>3. CASE state[t].page = "login"
    <3>1. ~Has(queue[t], Closing)
      BY <2>1, <2>3 DEF OrderOK, InTurn
    <3>2. ~InTurn(t, Closing, Opening)'
      BY <1>4, <1>9, <2>1, <3>1 DEF InTurn, Running, Closing
    <3> QED
      BY <2>1, <3>2 DEF OrderOK
  <2> QED
    BY <2>2, <2>3
<1>12. CASE ~(reply.status = HopedFor(call[t].op)
                  /\ call[t].op \in {"register", "login"})
  <2>1. /\ state'[t].page = state[t].page
        /\ state'[t].new_entry \in {state[t].new_entry, None}
    BY <1>1, <1>12 DEF ReplyTurns, Opened, Added, SameIn, SessionFields
  <2> QED
    BY <1>7, <1>8, <2>1 DEF OrderOK
<1> QED
  BY <1>10, <1>11, <1>12

\* When the user clicks or loads the page again.
LEMMA UserKeepsOrder ==
    ASSUME StateInv, NEW t \in Tabs, UserStep(t), NEW u \in Tabs, OrderOK(u)
    PROVE  OrderOK(u)'
<1>1. /\ queue \in [Tabs -> Seq(Event)] /\ state' = state /\ call' = call
      /\ state[t].page \in {"login", "register", "vault"}
  BY DEF StateInv, Shapes, State, UserStep, Click, Reload
<1>2. CASE queue'[u] = queue[u]
  BY <1>1, <1>2 DEF OrderOK, InTurn, Waits
<1>3. CASE queue'[u] = <<>>
  <2>1. \A names, later : ~Has(queue'[u], names) /\ ~After(queue'[u], names, later)
    BY <1>3 DEF Has, After
  <2> QED
    BY <1>1, <2>1 DEF OrderOK, InTurn, Waits
<1>4. ASSUME NEW event \in Offered(t), u = t, queue'[t] = Append(queue[t], event)
      PROVE  OrderOK(t)'
  <2>1. /\ event \in Event
        /\ state[t].page = "login" => event.name \notin Closing
        /\ state[t].page # "login" => event.name \notin Opening
    <3>1. state[t].page = "login" =>
              event.name \in {"login", "go_to_register", "set_form"}
      BY DEF Offered, login_page, unless_loading, On
    <3>2. state[t].page = "register" =>
              event.name \in {"register", "go_to_login", "set_form"}
      BY DEF Offered, register_page, unless_loading, On
    <3>3. state[t].page = "vault" =>
              event.name \in {"logout", "add_vault_entry", "set_new",
                              "delete_vault_entry", "toggle_reveal_password"}
      BY DEF Offered, vault_page, add_entry_form, entry_card, unless_loading, On
    <3> QED
      BY <1>1, <3>1, <3>2, <3>3, OfferedEvents DEF Opening, Closing
  <2>2. CASE state[t].page = "login"
    <3>1. ~InTurn(t, Opening, Closing)'
      BY <1>1, <1>4, <2>1, <2>2, AppendOrder DEF OrderOK, InTurn
    <3> QED
      BY <1>1, <2>2, <3>1 DEF OrderOK
  <2>3. CASE state[t].page # "login"
    <3>1. ~InTurn(t, Closing, Opening)'
      BY <1>1, <1>4, <2>1, <2>3, AppendOrder DEF OrderOK, InTurn
    <3>2. Waits(t, Opening)' => Waits(t, Opening)
      BY <1>1, <1>4, <2>1, <2>3, AppendOrder DEF Waits
    <3> QED
      BY <1>1, <1>4, <2>3, <3>1, <3>2 DEF OrderOK
  <2> QED
    BY <2>2, <2>3
<1>5. \/ queue'[u] = queue[u] \/ queue'[u] = <<>>
      \/ \E event \in Offered(t) : u = t /\ queue'[t] = Append(queue[t], event)
  BY <1>1 DEF UserStep, Click, Reload
<1> QED
  BY <1>2, <1>3, <1>4, <1>5

LEMMA InitOrder == StateInit => OrderInv
BY DEF StateInit, InitialState, OrderInv, OrderOK, InTurn, Waits, Has, After,
       Running, Opening, Closing

\* Who empties the form of a new entry on the vault page: only an add that was
\* answered with success.  A second sign-in would, but none can be waiting.
LEMMA FormIsEmptied ==
    ASSUME StateInv, NEW t \in Tabs, OrderOK(t),
           state[t].page = "vault", state'[t].page = "vault",
           state[t].new_entry # None, state'[t].new_entry = None
    PROVE  /\ ~HandleEvent(t)
           /\ \A reply : call[t] # None /\ Resume(t, reply) =>
                  call[t].op = "create" /\ reply.status = HopedFor(call[t].op)
<1>1. ~HandleEvent(t)
  BY EventEffects DEF EventEffect, EventTurns, SameIn
<1>2. ASSUME NEW reply, call[t] # None, Resume(t, reply)
      PROVE  call[t].op = "create" /\ reply.status = HopedFor(call[t].op)
  <2>1. ReplyTurns(t, reply)
    BY <1>2, ReplyEffects DEF ReplyEffect
  <2>2. call[t].op # "login"
    BY <1>2 DEF OrderOK, Waits, Running, Opening
  <2> QED
    BY <2>1, <2>2 DEF ReplyTurns, Registered, Opened, SameIn
<1> QED
  BY <1>1, <1>2

=============================================================================
