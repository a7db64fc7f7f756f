------------------------------ MODULE ZeroVault ------------------------------
(***************************************************************************)
(* The whole program: browser tabs running ZeroVaultState against the      *)
(* backend of ZeroVaultApi.                                                *)
(*                                                                         *)
(* A call of a tab becomes a request of the backend, or is lost on the     *)
(* way.  The tab goes on with the answer, or with a RequestError: because  *)
(* the call was lost, the backend crashed, or httpx ran out of patience,   *)
(* which may happen at any time and leaves the request running.  A request *)
(* that arrives late is one the backend is slow to begin.                  *)
(***************************************************************************)
EXTENDS ZeroVaultApi, ZeroVaultState

CONSTANT NetworkFaults    \* what may go wrong between tab and backend

VARIABLE conn    \* the request that stands for a tab's call, if it got through

systemVars == <<vars, stateVars, conn>>

ASSUME SystemAssumption ==
    /\ Requests \subseteq Nat /\ None \notin Requests
    /\ NetworkFaults \subseteq {"loss", "timeout"}

\* What the backend may answer is among what ZeroVaultState lets servers answer.
ASSUME BackendAssumption ==
    /\ EntryIds = Nat
    /\ SeedTokens \cup [sub: Usernames, exp: 0 .. MaxTime + TokenTTL]
           \subseteq ServerTokens

\* What is derived from a password for an account, at the account's own costs.
AccountKeys(password, kdf) ==
    LET material == argon2id(password, kdf.salt, kdf.costs)
    IN [enc_key  |-> hkdf(material, HKDF_INFO_ENC_KEY),
        auth_key |-> hkdf(material, HKDF_INFO_AUTH_KEY)]

\* The accounts the process starts on were registered, and their entries
\* encrypted, by frontends like this one, but not all of this build: each at
\* the costs that were compiled in at the time.
ASSUME SeedKeysAssumption ==
    \A x \in SeedUsers : \E password \in Passwords :
        LET keys == AccountKeys(password, x.kdf)
        IN /\ x.auth_key_hash = hash_auth_key(keys.auth_key)
           /\ \A e \in SeedEntries : e.user_id = x.id =>
                  \E plaintext \in Plaintexts :
                      e.blob = encrypt_entry(keys.enc_key, plaintext)

-----------------------------------------------------------------------------

SystemInit == Init /\ StateInit /\ conn = [t \in Tabs |-> None]

\* Requests are numbered as they arrive.
NextRequest ==
    {r \in Requests : pc[r] = "idle" /\ \A q \in Requests :
                                              pc[q] = "idle" => r <= q}

\* What a handler's step means to the backend: the call it makes, if any,
\* arrives or is lost.
Forward(t) ==
    IF call'[t] \in {call[t], None}
    THEN conn' = [conn EXCEPT ![t] = None] /\ UNCHANGED vars
    ELSE \/ \E r \in NextRequest :
                Submit(r, call'[t]) /\ conn' = [conn EXCEPT ![t] = r]
         \/ /\ "loss" \in NetworkFaults
            /\ conn' = [conn EXCEPT ![t] = None]
            /\ UNCHANGED vars

\* What httpx may give the handler that waits.
Outcomes(t) ==
    LET r == conn[t]
        answer == IF r # None /\ resp[r] # None THEN {resp[r]} ELSE {}
        error == IF r = None \/ "timeout" \in NetworkFaults
                     \/ (r # None /\ pc[r] = "lost")
                 THEN {RequestError} ELSE {}
    IN IF call[t] = None THEN {} ELSE answer \cup error

TabStep(t) ==
    \/ UserStep(t) /\ UNCHANGED <<vars, conn>>
    \/ HandleEvent(t) /\ Forward(t)
    \/ \E reply \in Outcomes(t) : Resume(t, reply) /\ Forward(t)

SystemNext ==
    \/ \E t \in Tabs : TabStep(t)
    \/ BackendStep /\ UNCHANGED <<stateVars, conn>>

SystemSpec == SystemInit /\ [][SystemNext]_systemVars

-----------------------------------------------------------------------------

\* The tabs ask what ZeroVaultApi expects of its clients: ciphertext for an
\* entry, a token that was issued, also after a crash or a timeout, and an id
\* that was drawn.  So all that holds of Spec holds of the whole program
\* (state.py:220-232, 281-289, 402-411, 434-439).
RequestsFitTheApi ==
    [][\A r \in Requests :
           pc[r] = "idle" /\ pc'[r] # "idle" =>
               req'[r] \in Payloads(tokens \cup {None}, 0 .. entry_seq)]_systemVars

\* A session is of one account: token, name and encryption key belong
\* together, and the key is the one whose auth_key the account was
\* registered with, whoever else registers or logs in meanwhile
\* (state.py:291-298, routers/auth.py:156-178).
SessionIsTheAccounts ==
    \A t \in Tabs :
        LET self == state[t]
        IN self.is_logged_in =>
               \E x \in Named(self.current_username) :
                   /\ self.access_token.sub = x.username
                   /\ x.auth_key_hash =
                          hash_auth_key(hkdf(self.enc_key_hex.from,
                                             HKDF_INFO_AUTH_KEY))
                   /\ self.enc_key_hex.info = HKDF_INFO_ENC_KEY

\* No user ever meets "[Decryption failed]": what is listed to a session was
\* encrypted under its key, in this session or an earlier one
\* (state.py:350-369).
EntriesAreReadable ==
    \A t \in Tabs : \A e \in state[t].vault_entries :
        e.content # DecryptionFailed

\* The password of account x is typed in the form of the tab, and its login
\* is answered that the credentials are invalid.
RightPasswordRefused(t, x) ==
    /\ conn[t] # None /\ req[conn[t]].op = "login"
    /\ x.username = req[conn[t]].username
    /\ x.auth_key_hash.bcrypt.from.secret = state[t].form_master_password
    /\ resp[conn[t]] # None /\ resp[conn[t]].status = 401

\* Who types the password of an account of this build's costs gets in, also
\* at a login that a registration, a timeout or another tab crosses: the salt
\* the tab was given is the salt of the account, and the password is still the
\* one on the form (state.py:259-289, routers/auth.py:156-171).
RightPasswordGetsIn ==
    \A t \in Tabs, x \in users :
        x.kdf.costs = ARGON2_COSTS => ~RightPasswordRefused(t, x)

\* So does who types the password of any account, since its costs are stored
\* with it "so the client can re-derive auth_key at login" (routers/auth.py:60)
\* and the tab says it will "Derive keys locally using server-stored params"
\* (state.py:275).
StoredParamsAreUsed ==
    \A t \in Tabs, x \in users : ~RightPasswordRefused(t, x)

\* The form of a new entry is emptied on the vault page only when the backend
\* has that very entry, in the table or in the session it is about to commit:
\* after a refusal, a lost call or a timeout the user still has what was
\* typed (state.py:413-428).
FormKeptUntilStored ==
    [][\A t \in Tabs :
           (/\ state[t].page = "vault" /\ state'[t].page = "vault"
            /\ state[t].new_entry # None /\ state'[t].new_entry = None)
               => \E r \in Requests :
                      /\ conn[t] = r /\ Succeeded(r, "create")
                      /\ \E e \in EverStored \cup session[r].entries :
                             /\ e.id = resp[r].id
                             /\ e.blob = encrypt_entry(state[t].enc_key_hex,
                                                      state[t].new_entry)]_systemVars

\* The encryption key is gone from the State once the session has expired,
\* which a vault call finds out by a 401: "it is in memory on the Reflex
\* backend process and is cleared on logout or session expiry"
\* (state.py:15-18).
KeyClearedOnExpiry ==
    [][\A t \in Tabs :
           (/\ conn[t] # None /\ conn'[t] = None
            /\ req[conn[t]].op \in VaultOps
            /\ resp[conn[t]] # None /\ resp[conn[t]].status = 401)
               => state'[t].enc_key_hex = None]_systemVars

=============================================================================
