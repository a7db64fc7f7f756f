---------------------------- MODULE ZeroVaultProofs ----------------------------
(***************************************************************************)
(* Theorems about the whole program, for any number of tabs and requests,  *)
(* any faults and any database to start on.                                *)
(*                                                                         *)
(* The two halves keep their own invariants (ZeroVaultApiProofs,           *)
(* ZeroVaultApiAnswers, ZeroVaultStateProofs) because each is to the other *)
(* what its module says of its surroundings: a tab asks what a client may  *)
(* ask (GoingOnAsks) and an answer is one a server may give (AnswerFits).  *)
(* What neither half can say ties the two together (LinkInv): a token held *)
(* was issued, an id shown was drawn, a request is the call of a tab.  On  *)
(* top of that KeysInv says whose keys are where: those of a session, of   *)
(* an entry and of a login are the ones the account was registered with,   *)
(* by a frontend of this build or of one with other Argon2 costs.          *)
(***************************************************************************)
EXTENDS ZeroVault, ZeroVaultApiAnswers, ZeroVaultStateProofs

-----------------------------------------------------------------------------
(* The invariant.                                                          *)

ApiInv == TypeInv /\ AccountsInv /\ AnswersInv /\ UsersAreTheRegistered
              /\ EntriesInv

\* What a tab holds of the backend's: tokens that were issued, ids that were
\* drawn, and the request that stands for its call.
HoldsIssued(t) ==
    /\ state[t].access_token \in tokens \cup {None}
    /\ \A e \in state[t].vault_entries : e.id \in 0 .. entry_seq
    /\ \A i \in DOMAIN queue[t] :
           queue[t][i].name = "delete_vault_entry" =>
               queue[t][i].id \in 0 .. entry_seq

ConnIsCall(t) ==
    conn[t] # None =>
        /\ conn[t] \in Requests /\ pc[conn[t]] # "idle"
        /\ call[t] # None /\ req[conn[t]] = call[t]

\* The requests with key material are a frontend's.
MadeByFrontend(r) == pc[r] # "idle" => SentOK(req[r])

LinkInv ==
    /\ now <= MaxTime /\ tokens \subseteq ServerTokens
    /\ conn \in [Tabs -> Requests \cup {None}]
    /\ \A t \in Tabs : HoldsIssued(t) /\ ConnIsCall(t)
    /\ \A r \in Requests : MadeByFrontend(r)

SystemInv == ApiInv /\ StateInv /\ LinkInv

-----------------------------------------------------------------------------
(* The backend's half.                                                     *)

LEMMA InitApi == Init => ApiInv
<1>1. Init => UsersAreTheRegistered
  BY DEF Init, UsersAreTheRegistered, Committed
<1> QED
  BY <1>1, InitType, InitAccounts, InitAnswers, InitEntries DEF ApiInv

LEMMA NextApi == ApiInv /\ [Next]_vars => ApiInv'
<1>1. ApiInv /\ [Next]_vars => TypeInv' /\ AccountsInv'
  BY NextType, NextAccounts DEF ApiInv
<1>2. AccountsInv => UniqueAccounts
  BY DEF AccountsInv
<1>3. AccountsInv' => UniqueAccounts'
  BY DEF AccountsInv
<1>4. ApiInv /\ [Next]_vars => AnswersInv' /\ UsersAreTheRegistered'
  BY <1>1, <1>2, <1>3, NextAnswers, NextUsers DEF ApiInv
<1>5. ApiInv /\ [Next]_vars => EntriesInv'
  BY <1>1, <1>2, <1>3, NextEntryIds, NextGrants, NextStored
  DEF ApiInv, EntriesInv
<1> QED
  BY <1>1, <1>4, <1>5 DEF ApiInv

\* A request once made stays what it is.
LEMMA RequestsStay ==
    ASSUME TypeInv, [Next]_vars, NEW q \in Requests, pc[q] # "idle"
    PROVE  pc'[q] # "idle" /\ req'[q] = req[q]
<1>1. CASE RequestStep(q)
  <2>1. ~ClientStep(q)
    BY DEF ClientStep, Submit
  <2>2. AwaitsNext(q) \/ Raises(q) \/ Returns(q) \/ Commit(q) \/ CommitFails(q)
    BY <1>1, <2>1, HowHandlersGoOn DEF RequestStep
  <2> QED
    BY <2>2
    DEF AwaitsNext, Await, Raises, Raise, Returns, Return, Commit, CommitFails,
        Close, TypeInv, TypeOK
<1>2. ASSUME NEW r \in Requests, r # q, RequestStep(r)
      PROVE  pc'[q] # "idle" /\ req'[q] = req[q]
  BY <1>2, OthersUnmoved DEF Unmoved
<1>3. CASE Crash \/ Tick \/ UNCHANGED vars
  BY <1>3 DEF Crash, Tick, vars, Handling
<1> QED
  BY <1>1, <1>2, <1>3 DEF Next, BackendStep, RequestStep

\* The backend makes no requests.
LEMMA IdleStays ==
    ASSUME TypeInv, BackendStep, NEW q \in Requests, pc[q] = "idle"
    PROVE  pc'[q] = "idle"
<1>1. ~ServerStep(q) /\ ~StatementFails(q) /\ ~CommitFails(q)
  BY HowHandlersGoOn
  DEF AwaitsNext, Raises, Returns, Commit, CommitFails, Handling
<1>2. ASSUME NEW r \in Requests, r # q,
             ServerStep(r) \/ CommitFails(r) \/ StatementFails(r)
      PROVE  pc'[q] = "idle"
  BY <1>2, OthersUnmoved DEF RequestStep, Unmoved
<1>3. CASE Crash \/ Tick
  BY <1>3 DEF Crash, Tick, Handling
<1> QED
  BY <1>1, <1>2, <1>3 DEF BackendStep

\* The clock stops at MaxTime, and tokens are issued by it.
LEMMA TokensInTime ==
    ASSUME ApiInv, [Next]_vars, now <= MaxTime, tokens \subseteq ServerTokens
    PROVE  now' <= MaxTime /\ tokens' \subseteq ServerTokens
<1>1. now \in Nat /\ MaxTime \in Nat /\ TokenTTL \in Nat
  BY ConstantsAssumption DEF ApiInv, TypeInv, TypeOK
<1>2. ASSUME NEW r \in Requests, LoginAccept(r)
      PROVE  now' <= MaxTime /\ tokens' \subseteq ServerTokens
  <2> DEFINE token == create_access_token(row[r].username)
  <2>1. tokens' = tokens \cup {token} /\ now' = now
    BY <1>2 DEF LoginAccept, Return
  <2>2. row[r].username \in Usernames
    BY <1>2 DEF LoginAccept, At, ApiInv, TypeInv, LocalsOK, User
  <2>3. token \in [sub: Usernames, exp: 0 .. MaxTime + TokenTTL]
    BY <1>1, <2>2 DEF create_access_token
  <2> HIDE DEF token
  <2> QED
    BY <2>1, <2>3, BackendAssumption
<1>3. ASSUME NEW r \in Requests, RequestStep(r), ~LoginAccept(r)
      PROVE  tokens' = tokens /\ now' = now
  BY <1>3
  DEF RequestStep, ClientStep, Submit, ServerStep, RegisterConflict,
      RegisterCheck, RegisterFlush, RegisterIntegrityError, KdfParamsUnknown,
      KdfParamsFound, LoginUnknown, LoginLookup, LoginReject, RejectToken,
      AcceptToken, GetUserOr404, CreateFlush, ListSelect, DeleteMissing, DeleteSelect,
      Commit, CommitFails, StatementFails, Await, Return, Raise, Close
<1>4. CASE Crash \/ Tick \/ UNCHANGED vars
  BY <1>1, <1>4 DEF Crash, Tick, vars
<1> QED
  BY <1>2, <1>3, <1>4 DEF Next, BackendStep, RequestStep

-----------------------------------------------------------------------------
(* What crosses over.                                                      *)

\* An entry that ever was, was encrypted by a frontend.
LEMMA StoredByFrontend ==
    ASSUME SystemInv, NEW e \in EverStored
    PROVE  e.id \in 0 .. entry_seq /\ e.id \in Nat /\ Shut(e.blob)
<1>1. SeedEntrySeq \in Nat /\ entry_seq \in Nat /\ SeedEntrySeq <= entry_seq
  BY SeedAssumption
  DEF SystemInv, ApiInv, EntriesInv, EntryIdsDrawn, TypeInv, TypeOK
<1>2. CASE e \in SeedEntries
  <2>1. e.id \in Nat /\ e.id < SeedEntrySeq
    BY <1>2, SeedAssumption DEF VaultEntry
  <2>2. PICK x \in SeedUsers : x.id = e.user_id
    BY <1>2, SeedAssumption
  <2>3. PICK p \in Passwords, plaintext \in Plaintexts :
            e.blob = encrypt_entry(AccountKeys(p, x.kdf).enc_key, plaintext)
    BY <1>2, <2>2, SeedKeysAssumption
  <2>4. Shut(e.blob)
    BY <2>3 DEF Shut, OwnBlobs, encrypt_entry
  <2> QED
    BY <1>1, <2>1, <2>4
<1>3. ASSUME NEW r \in Committed("create"), e = EntryOf(r)
      PROVE  e.id \in 0 .. entry_seq /\ e.id \in Nat /\ Shut(e.blob)
  <2>1. r \in Requests /\ Creates(r) /\ pc[r] # "idle" /\ req[r].op = "create"
    BY <1>3 DEF Committed, Creates, Granted
  <2>2. e.id = resp[r].id /\ e.blob = req[r].blob
    BY <1>3 DEF EntryOf
  <2>3. resp[r].id \in Nat /\ resp[r].id < entry_seq
    BY <2>1 DEF SystemInv, ApiInv, EntriesInv, EntryIdsDrawn
  <2>4. req[r].blob \in OwnBlobs
    BY <2>1 DEF SystemInv, LinkInv, MadeByFrontend, SentOK
  <2> QED
    BY <1>1, <2>2, <2>3, <2>4 DEF Shut
<1> QED
  BY <1>2, <1>3 DEF EverStored

\* An answer of success is the answer to the very call, and was granted.
LEMMA AnswerIsOwn ==
    ASSUME SystemInv, NEW t \in Tabs, NEW reply \in Outcomes(t),
           reply.status = HopedFor(call[t].op)
    PROVE  /\ conn[t] \in Requests /\ Granted(conn[t])
           /\ call[t] # None /\ req[conn[t]] = call[t] /\ reply = resp[conn[t]]
<1> DEFINE r == conn[t]
<1>1. call[t] # None /\ reply # RequestError
  BY DEF Outcomes, HopedFor, RequestError
<1>2. r # None /\ resp[r] # None /\ reply = resp[r]
  BY <1>1 DEF Outcomes
<1>3. r \in Requests /\ pc[r] # "idle" /\ req[r] = call[t]
  BY <1>2 DEF SystemInv, LinkInv, ConnIsCall
<1>4. pc[r] \in Places /\ AnswerIsDue(r)
  BY <1>3 DEF SystemInv, ApiInv, TypeInv, TypeOK, AnswersInv, RequestInv
<1>5. Granted(r)
  BY <1>2, <1>3, <1>4
  DEF AnswerIsDue, Granted, Places, Finished, HopedFor
<1> QED
  BY <1>1, <1>2, <1>3, <1>5

\* So it is one a server may give.
LEMMA AnswerFits ==
    ASSUME SystemInv, NEW t \in Tabs, NEW reply \in Outcomes(t)
    PROVE  call[t] # None /\ ReplyFits(call[t].op, reply)
<1>1. call[t] # None
  BY DEF Outcomes
<1>2. ASSUME reply.status = HopedFor(call[t].op)
      PROVE  ReplyFits(call[t].op, reply)
  <2> DEFINE r == conn[t]
  <2>1. r \in Requests /\ Granted(r) /\ req[r] = call[t] /\ reply = resp[r]
    BY <1>2, AnswerIsOwn
  <2>2. GrantIsTrue(r) /\ GrantIsOfStored(r) /\ users \subseteq User
    BY <2>1
    DEF SystemInv, ApiInv, AnswersInv, RequestInv, EntriesInv, TypeInv, TypeOK
  <2>3. req[r].op = "kdf_params" => resp[r].kdf \in KdfParams
    BY <2>1, <2>2 DEF GrantIsTrue, Named, User
  <2>4. req[r].op = "login" => resp[r].access_token \in ServerTokens
    BY <2>1, <2>2 DEF GrantIsTrue, SystemInv, LinkInv
  <2>5. req[r].op = "list" => \A raw \in resp[r].entries :
            raw.id \in EntryIds /\ Shut(raw.blob)
    BY <2>1, <2>2, StoredByFrontend, BackendAssumption DEF GrantIsOfStored
  <2> QED
    BY <2>1, <2>3, <2>4, <2>5 DEF ReplyFits
<1> QED
  BY <1>1, <1>2 DEF ReplyFits

-----------------------------------------------------------------------------
(* The tabs' half.                                                         *)

GoesOn(t) ==
    HandleEvent(t) \/ \E reply \in Outcomes(t) : Resume(t, reply)

LEMMA GoingOnKeepsState ==
    ASSUME SystemInv, NEW t \in Tabs, GoesOn(t)
    PROVE  StateInv'
<1>1. CASE HandleEvent(t)
  BY <1>1, SimpleHandlers, CallingHandlers DEF HandleEvent, SystemInv
<1>2. ASSUME NEW reply \in Outcomes(t), Resume(t, reply) PROVE StateInv'
  <2>1. StateInv /\ call[t] # None /\ ReplyFits(call[t].op, reply)
    BY AnswerFits DEF SystemInv
  <2> QED
    BY <1>2, <2>1, AnswersKeep, FailureKeeps DEF Resume
<1> QED
  BY <1>1, <1>2 DEF GoesOn

\* What a handler leaves in its tab was issued, when the backend rests.
LEMMA GoingOnHolds ==
    ASSUME SystemInv, NEW t \in Tabs, GoesOn(t),
           tokens' = tokens, entry_seq' = entry_seq
    PROVE  HoldsIssued(t)'
<1> DEFINE ids == 0 .. entry_seq
           bearers == tokens \cup {None}
           IdsIn(q) == \A i \in DOMAIN q :
                           q[i].name = "delete_vault_entry" => q[i].id \in ids
<1>1. /\ queue[t] \in Seq(Event) /\ IdsIn(queue[t])
      /\ state[t].access_token \in bearers
      /\ \A e \in state[t].vault_entries : e.id \in ids
  BY DEF SystemInv, StateInv, Shapes, LinkInv, HoldsIssued
<1>2. ASSUME HandleEvent(t)
      PROVE  /\ IdsIn(queue'[t]) /\ state'[t].access_token \in bearers
             /\ \A e \in state'[t].vault_entries : e.id \in ids
  <2>1. EventEffect(t)
    BY <1>2, EventEffects DEF SystemInv
  <2>2. IdsIn(queue'[t])
    <3>1. queue[t] # <<>> /\ queue'[t] = Tail(queue[t])
      BY <2>1 DEF EventEffect
    <3>2. \A i \in DOMAIN Tail(queue[t]) :
              i + 1 \in DOMAIN queue[t] /\ Tail(queue[t])[i] = queue[t][i + 1]
      BY <1>1, <3>1
    <3> QED
      BY <1>1, <3>1, <3>2
  <2> QED
    BY <1>1, <2>1, <2>2 DEF EventEffect, SameIn, SessionFields, NoSession
<1>3. ASSUME NEW reply \in Outcomes(t), Resume(t, reply)
      PROVE  /\ IdsIn(queue'[t]) /\ state'[t].access_token \in bearers
             /\ \A e \in state'[t].vault_entries : e.id \in ids
  <2>1. call[t] # None
    BY AnswerFits
  <2>2. ReplyEffect(t, reply)
    BY <1>3, <2>1, ReplyEffects DEF SystemInv
  <2>3. IdsIn(queue'[t])
    <3> DEFINE load == On("load_vault_entries")
    <3>1. load.name # "delete_vault_entry"
      BY DEF On
    <3> HIDE DEF load
    <3>2. \A i \in DOMAIN (queue[t] \o <<load>>) :
              \/ i \in DOMAIN queue[t] /\ (queue[t] \o <<load>>)[i] = queue[t][i]
              \/ (queue[t] \o <<load>>)[i] = load
      BY <1>1
    <3>3. IdsIn(queue[t] \o <<load>>)
      BY <1>1, <3>1, <3>2
    <3> QED
      BY <1>1, <2>2, <3>3 DEF ReplyEffect, load
  <2>4. CASE call[t].op = "login" /\ reply.status = HopedFor(call[t].op)
    <3>1. Signed(t, reply)
      BY <2>2, <2>4 DEF ReplyEffect, ReplyTurns
    <3>2. reply.access_token \in tokens
      <4>1. Granted(conn[t]) /\ conn[t] \in Requests /\ req[conn[t]].op = "login"
                /\ reply = resp[conn[t]]
        BY <2>4, AnswerIsOwn
      <4> QED
        BY <4>1 DEF SystemInv, ApiInv, AnswersInv, RequestInv, GrantIsTrue
    <3> QED
      BY <1>1, <2>3, <3>1, <3>2 DEF Signed
  <2>5. CASE call[t].op = "list" /\ reply.status = HopedFor(call[t].op)
    <3>1. Opened(t, reply)
      BY <2>2, <2>5 DEF ReplyEffect, ReplyTurns
    <3>2. Granted(conn[t]) /\ conn[t] \in Requests /\ req[conn[t]].op = "list"
              /\ reply = resp[conn[t]]
      BY <2>5, AnswerIsOwn
    <3>3. GrantIsOfStored(conn[t])
      BY <3>2 DEF SystemInv, ApiInv, EntriesInv
    <3>4. \A raw \in reply.entries : raw.id \in ids
      BY <3>2, <3>3, StoredByFrontend DEF GrantIsOfStored
    <3>5. state'[t].access_token = state[t].access_token
      BY <3>1 DEF Opened, SameIn, SessionFields
    <3> QED
      BY <1>1, <2>3, <3>1, <3>4, <3>5 DEF Opened
  <2>6. CASE ~(call[t].op \in {"login", "list"} /\ reply.status = HopedFor(call[t].op))
    <3>1. ReplyTurns(t, reply)
      BY <2>2 DEF ReplyEffect
    <3>2. /\ state'[t].access_token = state[t].access_token
          /\ state'[t].vault_entries = state[t].vault_entries
      BY <2>6, <3>1
      DEF ReplyTurns, Registered, Added, SameIn, SessionFields
    <3> QED
      BY <1>1, <2>3, <3>2
  <2> QED
    BY <2>4, <2>5, <2>6
<1> QED
  BY <1>2, <1>3 DEF GoesOn, HoldsIssued

\* So does what the user clicks.
LEMMA UserHolds ==
    ASSUME SystemInv, NEW t \in Tabs, UserStep(t), NEW u \in Tabs,
           tokens' = tokens, entry_seq' = entry_seq
    PROVE  HoldsIssued(u)'
<1>1. /\ queue \in [Tabs -> Seq(Event)] /\ state' = state
      /\ HoldsIssued(u)
  BY DEF SystemInv, StateInv, Shapes, LinkInv, UserStep, Click, Reload
<1>2. CASE u # t
  BY <1>1, <1>2 DEF UserStep, Click, Reload, HoldsIssued
<1>3. CASE u = t /\ Reload(t)
  BY <1>1, <1>3 DEF Reload, HoldsIssued
<1>4. CASE u = t /\ Click(t)
  <2>1. PICK event \in Offered(t) : queue' = [queue EXCEPT ![t] = Append(@, event)]
    BY <1>4 DEF Click
  <2>2. event.name = "delete_vault_entry" =>
            \E e \in state[t].vault_entries : event.id = e.id
    BY DEF Offered, vault_page, register_page, login_page, unless_loading,
           entry_card, add_entry_form, On
  <2>3. queue'[t] = Append(queue[t], event)
    BY <1>1, <2>1
  <2>4. \A i \in DOMAIN Append(queue[t], event) :
            \/ i \in DOMAIN queue[t] /\ Append(queue[t], event)[i] = queue[t][i]
            \/ Append(queue[t], event)[i] = event
    BY <1>1
  <2> QED
    BY <1>1, <1>4, <2>2, <2>3, <2>4 DEF HoldsIssued
<1> QED
  BY <1>2, <1>3, <1>4 DEF UserStep

\* A call is what a client of the backend may ask.
LEMMA GoingOnAsks ==
    ASSUME SystemInv, NEW t \in Tabs, GoesOn(t), call'[t] # None,
           tokens' = tokens, entry_seq' = entry_seq
    PROVE  /\ call'[t] \in Payloads(tokens \cup {None}, 0 .. entry_seq)
           /\ SentOK(call'[t])
<1> DEFINE payload == call'[t]
<1>1. StateInv' /\ HoldsIssued(t)'
  BY GoingOnKeepsState, GoingOnHolds
<1>2. payload \in Calls /\ Fits(state'[t], payload, local'[t])
  BY <1>1 DEF StateInv, TabOK
<1>3. payload.op \in VaultOps => payload.token \in tokens \cup {None}
  BY <1>1, <1>2 DEF Fits, HoldsIssued
<1>4. payload.op = "delete" => payload.entry_id \in 0 .. entry_seq
  <2>1. CASE HandleEvent(t)
    <3>1. EventEffect(t)
      BY <2>1, EventEffects DEF SystemInv
    <3>2. payload.op = "delete" =>
              /\ Head(queue[t]).name = "delete_vault_entry"
              /\ payload.entry_id = Head(queue[t]).id
      BY <3>1 DEF EventEffect, EventCalls
    <3>3. queue[t] \in Seq(Event) /\ queue[t] # <<>>
      BY <3>1 DEF EventEffect, SystemInv, StateInv, Shapes
    <3>4. Head(queue[t]) = queue[t][1] /\ 1 \in DOMAIN queue[t]
      BY <3>3
    <3> QED
      BY <3>2, <3>4 DEF SystemInv, LinkInv, HoldsIssued
  <2>2. ASSUME NEW reply \in Outcomes(t), Resume(t, reply)
        PROVE  payload.op = "login"
    BY <2>2, AnswerFits, ReplyEffects DEF ReplyEffect, SystemInv
  <2> QED
    BY <2>1, <2>2 DEF GoesOn
<1>5. payload \in Payloads(tokens \cup {None}, 0 .. entry_seq)
  BY <1>2, <1>3, <1>4 DEF Calls, Payloads, VaultOps
<1>6. SentOK(payload)
  <2> HIDE DEF payload
  <2>1. CASE payload.op = "register"
    <3>1. PICK p \in Passwords :
              payload.auth_key = derive_keys(p, payload.kdf.salt).auth_key
      BY <1>2, <2>1 DEF Fits
    <3>2. payload.kdf \in KdfParams
      BY <1>2, <2>1 DEF Calls, Payloads
    <3> QED
      BY <2>1, <3>1, <3>2, DerivedKeys DEF SentOK
  <2>2. CASE payload.op = "login"
    <3>1. PICK kdf \in KdfParams :
              DerivedFrom(state'[t], kdf, payload, local'[t])
      BY <1>2, <2>2 DEF Fits
    <3>2. state'[t].form_master_password \in Passwords
      BY <1>1, <1>2, <2>2 DEF Fits, FormComplete, StateInv, Shapes, State, Typed
    <3> QED
      BY <2>2, <3>1, <3>2, DerivedKeys DEF DerivedFrom, SentOK
  <2>3. CASE payload.op = "create"
    <3>1. /\ EntryComplete(state'[t]) /\ state'[t] \in State
          /\ payload.blob = encrypt_entry(state'[t].enc_key_hex, state'[t].new_entry)
      BY <1>1, <1>2, <2>3 DEF Fits, StateInv, Shapes
    <3> QED
      BY <2>3, <3>1 DEF EntryComplete, State, Typed, OwnBlobs, SentOK
  <2> QED
    BY <2>1, <2>2, <2>3 DEF SentOK
<1> QED
  BY <1>5, <1>6

-----------------------------------------------------------------------------
(* The whole.                                                              *)

\* A call of a handler is lost, or is a request from now on.
Quiet(t) == UNCHANGED vars /\ conn' = [conn EXCEPT ![t] = None]

Asks(t, r) ==
    /\ pc[r] = "idle" /\ Submit(r, call'[t]) /\ call'[t] # None
    /\ conn' = [conn EXCEPT ![t] = r]

LEMMA Forwarded ==
    ASSUME NEW t \in Tabs, Forward(t)
    PROVE  Quiet(t) \/ \E r \in Requests : Asks(t, r)
BY DEF Forward, NextRequest, Quiet, Asks

\* What a step of the program is.
LEMMA SystemSteps ==
    ASSUME SystemNext
    PROVE  \/ \E t \in Tabs : UserStep(t) /\ UNCHANGED <<vars, conn>>
           \/ \E t \in Tabs : GoesOn(t) /\ Quiet(t)
           \/ \E t \in Tabs, r \in Requests : GoesOn(t) /\ Asks(t, r)
           \/ BackendStep /\ UNCHANGED <<stateVars, conn>>
BY Forwarded DEF SystemNext, TabStep, GoesOn

\* To the backend, every one is a step of it.
LEMMA IsBackendStep ==
    ASSUME SystemInv, [SystemNext]_systemVars
    PROVE  [Next]_vars
<1>1. ASSUME NEW t \in Tabs, NEW r \in Requests, GoesOn(t), Asks(t, r)
      PROVE  ClientStep(r)
  BY <1>1, GoingOnAsks DEF Asks, Submit, ClientStep
<1>2. CASE SystemNext
  BY <1>1, <1>2, SystemSteps DEF Quiet, Next
<1>3. CASE UNCHANGED systemVars
  BY <1>3 DEF systemVars
<1> QED
  BY <1>2, <1>3

\* A step that leaves the tabs alone.
LEMMA BackendKeepsLink ==
    ASSUME SystemInv, [Next]_vars, UNCHANGED <<stateVars, conn>>,
           \A r \in Requests : pc[r] = "idle" => pc'[r] = "idle"
    PROVE  LinkInv'
<1>1. Grows /\ entry_seq \in Nat
  BY StepsGrow DEF SystemInv, ApiInv, TypeInv, TypeOK
<1>2. 0 .. entry_seq \subseteq 0 .. entry_seq'
  BY <1>1 DEF Grows
<1>3. now' <= MaxTime /\ tokens' \subseteq ServerTokens
  BY TokensInTime DEF SystemInv, LinkInv
<1>4. ASSUME NEW r \in Requests, pc[r] # "idle"
      PROVE  pc'[r] # "idle" /\ req'[r] = req[r]
  BY <1>4, RequestsStay DEF SystemInv, ApiInv
<1>5. ASSUME NEW t \in Tabs PROVE HoldsIssued(t)' /\ ConnIsCall(t)'
  <2>1. HoldsIssued(t) /\ ConnIsCall(t)
    BY DEF SystemInv, LinkInv
  <2>2. HoldsIssued(t)'
    BY <1>1, <1>2, <2>1 DEF HoldsIssued, Grows, stateVars
  <2>3. ConnIsCall(t)'
    BY <1>4, <2>1 DEF ConnIsCall, stateVars
  <2> QED
    BY <2>2, <2>3
<1>6. ASSUME NEW r \in Requests PROVE MadeByFrontend(r)'
  BY <1>4 DEF MadeByFrontend, SystemInv, LinkInv
<1> QED
  BY <1>3, <1>5, <1>6 DEF SystemInv, LinkInv

\* A handler of tab t that goes on, with its call lost or let through.
LEMMA TabKeepsLink ==
    ASSUME SystemInv, NEW t \in Tabs, GoesOn(t),
           Quiet(t) \/ \E r \in Requests : Asks(t, r)
    PROVE  LinkInv'
<1>1. /\ tokens' = tokens /\ entry_seq' = entry_seq /\ now' = now
      /\ conn' \in [Tabs -> Requests \cup {None}]
  BY DEF Quiet, Asks, Submit, vars, SystemInv, LinkInv
<1>2. OthersAlone(t)
  <2>1. ASSUME NEW reply \in Outcomes(t), Resume(t, reply)
        PROVE  OthersAlone(t)
    BY <2>1, AnswerFits, ReplyEffects DEF ReplyEffect, SystemInv
  <2> QED
    BY <2>1, EventEffects DEF GoesOn, EventEffect, SystemInv
<1>3. ASSUME NEW r \in Requests, pc[r] # "idle"
      PROVE  pc'[r] = pc[r] /\ req'[r] = req[r]
  BY <1>3 DEF Quiet, Asks, Submit, vars, SystemInv, ApiInv, TypeInv, TypeOK
<1>4. ASSUME NEW u \in Tabs PROVE HoldsIssued(u)'
  <2>1. CASE u = t
    BY <1>1, <2>1, GoingOnHolds
  <2>2. CASE u # t
    BY <1>1, <1>2, <2>2 DEF SystemInv, LinkInv, HoldsIssued, OthersAlone
  <2> QED
    BY <2>1, <2>2
<1>5. ASSUME NEW u \in Tabs PROVE ConnIsCall(u)'
  <2>1. CASE u # t
    <3>1. ConnIsCall(u) /\ conn'[u] = conn[u] /\ call'[u] = call[u]
      BY <1>2, <2>1 DEF SystemInv, LinkInv, OthersAlone, Quiet, Asks
    <3> QED
      BY <1>3, <3>1 DEF ConnIsCall
  <2>2. CASE u = t /\ Quiet(t)
    BY <2>2 DEF Quiet, ConnIsCall, SystemInv, LinkInv
  <2>3. ASSUME NEW r \in Requests, Asks(t, r), u = t PROVE ConnIsCall(u)'
    BY <2>3 DEF Asks, Submit, ConnIsCall, SystemInv, LinkInv, ApiInv, TypeInv,
                TypeOK
  <2> QED
    BY <2>1, <2>2, <2>3
<1>6. ASSUME NEW q \in Requests PROVE MadeByFrontend(q)'
  <2>1. MadeByFrontend(q)
    BY DEF SystemInv, LinkInv
  <2>2. CASE pc[q] # "idle"
    BY <1>3, <2>1, <2>2 DEF MadeByFrontend
  <2>3. CASE pc[q] = "idle" /\ pc'[q] # "idle"
    <3>1. PICK r \in Requests : Asks(t, r)
      BY <2>3 DEF Quiet, vars
    <3>2. req'[q] = call'[t] /\ call'[t] # None
      BY <2>3, <3>1 DEF Asks, Submit, SystemInv, ApiInv, TypeInv, TypeOK
    <3> QED
      BY <1>1, <3>2, GoingOnAsks DEF MadeByFrontend
  <2> QED
    BY <2>2, <2>3 DEF MadeByFrontend
<1> QED
  BY <1>1, <1>4, <1>5, <1>6 DEF SystemInv, LinkInv

LEMMA InitSystem == SystemInit => SystemInv
<1> SUFFICES ASSUME SystemInit PROVE SystemInv
  OBVIOUS
<1>1. ApiInv /\ StateInv
  BY InitApi, InitState DEF SystemInit
<1>2. LinkInv
  BY SeedAssumption, ConstantsAssumption, BackendAssumption
  DEF SystemInit, Init, StateInit, InitialState, LinkInv, HoldsIssued,
      ConnIsCall, MadeByFrontend
<1> QED
  BY <1>1, <1>2 DEF SystemInv

LEMMA NextSystem == SystemInv /\ [SystemNext]_systemVars => SystemInv'
<1> SUFFICES ASSUME SystemInv, [SystemNext]_systemVars PROVE SystemInv'
  OBVIOUS
<1>1. [Next]_vars /\ ApiInv'
  BY IsBackendStep, NextApi DEF SystemInv
<1>2. CASE \E t \in Tabs : UserStep(t) /\ UNCHANGED <<vars, conn>>
  <2>1. PICK t \in Tabs : UserStep(t) /\ UNCHANGED <<vars, conn>>
    BY <1>2
  <2>2. StateInv'
    BY <2>1, UserKeeps DEF SystemInv
  <2>3. \A u \in Tabs : HoldsIssued(u)'
    BY <2>1, UserHolds DEF vars
  <2>4. LinkInv'
    BY <2>1, <2>3
    DEF SystemInv, LinkInv, ConnIsCall, MadeByFrontend, vars, UserStep, Click,
        Reload
  <2> QED
    BY <1>1, <2>2, <2>4 DEF SystemInv
<1>3. ASSUME NEW t \in Tabs, GoesOn(t),
             Quiet(t) \/ \E r \in Requests : Asks(t, r)
      PROVE  SystemInv'
  BY <1>1, <1>3, GoingOnKeepsState, TabKeepsLink DEF SystemInv
<1>4. CASE BackendStep /\ UNCHANGED <<stateVars, conn>>
  <2>1. \A r \in Requests : pc[r] = "idle" => pc'[r] = "idle"
    BY <1>4, IdleStays DEF SystemInv, ApiInv
  <2>2. LinkInv'
    BY <1>1, <1>4, <2>1, BackendKeepsLink
  <2>3. StateInv'
    BY <1>4 DEF stateVars, SystemInv, StateInv, Shapes
  <2> QED
    BY <1>1, <2>2, <2>3 DEF SystemInv
<1>5. CASE UNCHANGED systemVars
  <2>1. UNCHANGED vars /\ UNCHANGED <<stateVars, conn>>
    BY <1>5 DEF systemVars
  <2>2. LinkInv'
    BY <1>1, <2>1, BackendKeepsLink DEF vars
  <2>3. StateInv'
    BY <2>1 DEF stateVars, SystemInv, StateInv, Shapes
  <2> QED
    BY <1>1, <2>2, <2>3 DEF SystemInv
<1> QED
  BY <1>2, <1>3, <1>4, <1>5, SystemSteps

LEMMA SystemInvariance == SystemSpec => []SystemInv
BY InitSystem, NextSystem, PTL DEF SystemSpec

\* The whole program is a run of the backend as ZeroVaultApi describes it:
\* what holds of Spec holds of the program.
THEOREM SystemIsApi == SystemSpec => Spec
<1>1. SystemInit => Init
  BY DEF SystemInit
<1> QED
  BY <1>1, IsBackendStep, SystemInvariance, PTL DEF SystemSpec, Spec

\* The tabs ask what a client may ask, after any failure and any number of
\* sessions: the assumption ZeroVaultApi makes of its clients is met.
THEOREM RequestsAlwaysFit == SystemSpec => RequestsFitTheApi
<1> DEFINE Fitting ==
        \A r \in Requests :
            pc[r] = "idle" /\ pc'[r] # "idle" =>
                req'[r] \in Payloads(tokens \cup {None}, 0 .. entry_seq)
<1>1. ASSUME SystemInv, SystemNext, NEW q \in Requests, pc[q] = "idle",
             pc'[q] # "idle"
      PROVE  req'[q] \in Payloads(tokens \cup {None}, 0 .. entry_seq)
  <2>1. ~BackendStep
    BY <1>1, IdleStays DEF SystemInv, ApiInv
  <2>2. PICK t \in Tabs, r \in Requests : GoesOn(t) /\ Asks(t, r)
    BY <1>1, <2>1, SystemSteps DEF Quiet, vars
  <2>3. /\ req'[q] = call'[t] /\ call'[t] # None
        /\ tokens' = tokens /\ entry_seq' = entry_seq
    BY <1>1, <2>2 DEF Asks, Submit, SystemInv, ApiInv, TypeInv, TypeOK
  <2> QED
    BY <2>2, <2>3, <1>1, GoingOnAsks
<1>2. SystemInv /\ [SystemNext]_systemVars => [Fitting]_systemVars
  BY <1>1
<1> QED
  BY <1>2, SystemInvariance, PTL DEF SystemSpec, RequestsFitTheApi

-----------------------------------------------------------------------------
(* Whose keys are where.                                                   *)

\* The encryption key that goes with the auth_key of an account.
KeyOf(x) == hkdf(x.auth_key_hash.bcrypt.from, HKDF_INFO_ENC_KEY)

\* Who asks: someone who registers, someone who has an account, or the session
\* of one, with its key.
OwnKeys(payload) ==
    /\ payload.op = "register" =>
           \E p \in Passwords :
               payload.auth_key = AccountKeys(p, payload.kdf).auth_key
    /\ payload.op = "login" => Named(payload.username) # {}
    /\ payload.op = "create" =>
           \E x \in Named(payload.token.sub) : payload.blob.key = KeyOf(x)

RequestKeys(r) == pc[r] # "idle" => OwnKeys(req[r])

\* A refused login had the wrong key, for an account that is still there.
RefusalIsTrue(r) ==
    pc[r] = "refused" /\ req[r].op = "login" /\ resp[r].status = 401 =>
        \E x \in Named(req[r].username) :
            x.auth_key_hash # hash_auth_key(req[r].auth_key)

SessionKeys(t) ==
    LET self == state[t]
    IN self.is_logged_in =>
           \E x \in Named(self.current_username) :
               /\ self.access_token.sub = x.username
               /\ x.auth_key_hash =
                      hash_auth_key(hkdf(self.enc_key_hex.from,
                                         HKDF_INFO_AUTH_KEY))
               /\ self.enc_key_hex.info = HKDF_INFO_ENC_KEY

\* The keys of a login are those of the password on the form, at the salt of
\* the account.
LoginKeys(t) ==
    call[t] # None /\ call[t].op = "login" =>
        \E x \in Named(call[t].username) :
            DerivedFrom(state[t], x.kdf, call[t], local[t])

Readable(t) == \A e \in state[t].vault_entries : e.content # DecryptionFailed

KeysInv ==
    /\ \A t \in Tabs : SessionKeys(t) /\ LoginKeys(t) /\ Readable(t)
    /\ \A r \in Requests : RequestKeys(r) /\ RefusalIsTrue(r)

\* Accounts are registered by frontends.
LEMMA AccountsAreOwn ==
    ASSUME SystemInv, KeysInv, NEW x \in users
    PROVE  /\ x \in User
           /\ \E p \in Passwords :
                  x.auth_key_hash =
                      hash_auth_key(AccountKeys(p, x.kdf).auth_key)
<1>1. x \in SeedUsers \/ \E r \in Committed("register") : x = AccountOf(r)
  BY DEF SystemInv, ApiInv, UsersAreTheRegistered
<1>2. ASSUME x \in SeedUsers
      PROVE  \E p \in Passwords :
                 x.auth_key_hash =
                     hash_auth_key(AccountKeys(p, x.kdf).auth_key)
  BY <1>2, SeedKeysAssumption
<1>3. ASSUME NEW r \in Committed("register"), x = AccountOf(r)
      PROVE  \E p \in Passwords :
                 x.auth_key_hash =
                     hash_auth_key(AccountKeys(p, x.kdf).auth_key)
  <2>1. OwnKeys(req[r]) /\ req[r].op = "register"
    BY <1>3 DEF Committed, KeysInv, RequestKeys
  <2>2. /\ x.kdf = req[r].kdf
        /\ x.auth_key_hash = hash_auth_key(req[r].auth_key)
    BY <1>3 DEF AccountOf
  <2> QED
    BY <2>1, <2>2 DEF OwnKeys
<1>4. x \in User
  BY DEF SystemInv, ApiInv, TypeInv, TypeOK
<1>5. \E p \in Passwords :
          x.auth_key_hash = hash_auth_key(AccountKeys(p, x.kdf).auth_key)
  BY <1>1, <1>2, <1>3
<1> QED
  BY <1>4, <1>5

\* What goes with a derived auth_key is the encryption key derived with it.
LEMMA KeyOfDerived ==
    ASSUME NEW x, NEW p, NEW kdf,
           x.auth_key_hash = hash_auth_key(AccountKeys(p, kdf).auth_key)
    PROVE  /\ KeyOf(x) = AccountKeys(p, kdf).enc_key
           /\ x.auth_key_hash.bcrypt.from.secret = p
BY DEF KeyOf, hash_auth_key, AccountKeys, hkdf, argon2id

\* A tab derives the keys of the accounts of its build's costs.
LEMMA KeysOfThisBuild ==
    ASSUME NEW p, NEW kdf, kdf.costs = ARGON2_COSTS
    PROVE  AccountKeys(p, kdf) = derive_keys(p, kdf.salt)
BY DEF AccountKeys, derive_keys

\* There is one account of a name, and one of an id.
LEMMA OneAccount ==
    ASSUME SystemInv, NEW x \in users, NEW y \in users,
           x.username = y.username \/ x.id = y.id
    PROVE  x = y
BY DEF SystemInv, ApiInv, AccountsInv, UniqueAccounts

\* An entry that ever was is under its owner's key.
LEMMA StoredKeys ==
    ASSUME SystemInv, KeysInv, NEW e \in EverStored, NEW x \in users,
           e.user_id = x.id
    PROVE  e.blob.key = KeyOf(x)
<1>1. CASE e \in SeedEntries
  <2>1. PICK y \in SeedUsers : y.id = e.user_id
    BY <1>1, SeedAssumption
  <2>2. y \in users
    BY <2>1 DEF SystemInv, ApiInv, UsersAreTheRegistered
  <2>3. x = y
    BY <2>1, <2>2, OneAccount
  <2>4. PICK p \in Passwords, plaintext \in Plaintexts :
            /\ y.auth_key_hash =
                   hash_auth_key(AccountKeys(p, y.kdf).auth_key)
            /\ e.blob = encrypt_entry(AccountKeys(p, y.kdf).enc_key, plaintext)
    BY <1>1, <2>1, SeedKeysAssumption
  <2>5. e.blob.key = AccountKeys(p, y.kdf).enc_key
    BY <2>4 DEF encrypt_entry
  <2> QED
    BY <2>3, <2>4, <2>5, KeyOfDerived
<1>2. ASSUME NEW r \in Committed("create"), e = EntryOf(r)
      PROVE  e.blob.key = KeyOf(x)
  <2>1. req[r].op = "create" /\ OwnKeys(req[r])
    BY <1>2 DEF Committed, KeysInv, RequestKeys
  <2>2. PICK y \in Named(req[r].token.sub) : req[r].blob.key = KeyOf(y)
    BY <2>1 DEF OwnKeys
  <2>3. e.user_id \in Caller(r) /\ e.blob = req[r].blob
    BY <1>2, <2>2 DEF EntryOf, Caller
  <2>4. PICK z \in Named(req[r].token.sub) : z.id = e.user_id
    BY <2>3 DEF Caller
  <2>5. y \in users /\ z \in users /\ y.username = z.username
    BY <2>2, <2>4 DEF Named
  <2>6. y = z /\ z = x
    BY <2>4, <2>5, OneAccount
  <2> QED
    BY <2>2, <2>3, <2>6
<1> QED
  BY <1>1, <1>2 DEF EverStored

\* How a request comes to be refused for its key.
LEMMA NewRefusal ==
    ASSUME TypeInv, [Next]_vars, NEW q \in Requests, pc'[q] = "refused",
           req'[q].op = "login", resp'[q].status = 401
    PROVE  /\ req'[q] = req[q]
           /\ \/ pc[q] = "refused" /\ resp'[q] = resp[q]
              \/ LoginReject(q) \/ LoginUnknown(q)
<1>1. CASE RequestStep(q)
  <2>1. ~ClientStep(q)
    BY DEF ClientStep, Submit, TypeInv, TypeOK
  <2>2. Raises(q)
    BY <1>1, <2>1, HowHandlersGoOn
    DEF RequestStep, AwaitsNext, Await, Returns, Return, Commit, CommitFails,
        Close, TypeInv, TypeOK
  <2>3. req'[q] = req[q]
    BY <2>2 DEF Raises, Raise
  <2>4. \A status : Raise(q, status) => status = 401
    BY DEF Raise, TypeInv, TypeOK
  <2>5. ~\E place, user : Await(q, place, user) /\ place # "refused"
    BY DEF Await, TypeInv, TypeOK
  <2>6. ~\E response, writes : Return(q, response, writes)
    BY DEF Return, TypeInv, TypeOK
  <2>7. ~\E place \in {"committed", "commit_failed"} : Close(q, place)
    BY DEF Close, TypeInv, TypeOK
  <2> QED
    BY <1>1, <2>1, <2>3, <2>4, <2>5, <2>6, <2>7
    DEF RequestStep, ServerStep, RegisterConflict, RegisterCheck,
        RegisterFlush, RegisterIntegrityError, KdfParamsUnknown,
        KdfParamsFound, LoginLookup, LoginAccept, RejectToken, AcceptToken,
        GetUserOr404, CreateFlush, ListSelect, DeleteMissing, DeleteSelect, Commit,
        CommitFails, StatementFails, At, VaultOps
<1>2. ASSUME NEW r \in Requests, r # q, RequestStep(r)
      PROVE  pc[q] = "refused" /\ req'[q] = req[q] /\ resp'[q] = resp[q]
  BY <1>2, OthersUnmoved DEF Unmoved
<1>3. CASE Crash \/ Tick \/ UNCHANGED vars
  BY <1>3 DEF Crash, Tick, vars, Handling
<1> QED
  BY <1>1, <1>2, <1>3 DEF Next, BackendStep, RequestStep

\* A handler that goes on leaves its session with the keys of the account.
LEMMA GoingOnSession ==
    ASSUME SystemInv, KeysInv, NEW t \in Tabs, GoesOn(t), users' = users
    PROVE  SessionKeys(t)'
<1>1. SessionKeys(t) /\ \A name : Named(name)' = Named(name)
  BY DEF KeysInv, Named
<1>2. CASE SameIn(SessionFields, state[t], state'[t]) \/ NoSession(state'[t])
  BY <1>1, <1>2 DEF SessionKeys, SameIn, SessionFields, NoSession, Named
<1>3. CASE HandleEvent(t)
  BY <1>2, <1>3, EventEffects DEF EventEffect, SystemInv
<1>4. ASSUME NEW reply \in Outcomes(t), Resume(t, reply) PROVE SessionKeys(t)'
  <2>1. call[t] # None /\ ReplyEffect(t, reply)
    BY <1>4, AnswerFits, ReplyEffects DEF SystemInv
  <2>2. CASE call[t].op = "login" /\ reply.status = HopedFor(call[t].op)
    <3>1. Signed(t, reply)
      BY <2>1, <2>2 DEF ReplyEffect, ReplyTurns
    <3>2. /\ conn[t] \in Requests /\ Granted(conn[t])
          /\ req[conn[t]] = call[t] /\ reply = resp[conn[t]]
      BY <2>2, AnswerIsOwn
    <3>3. PICK x \in Named(call[t].username) :
              /\ x.auth_key_hash = hash_auth_key(call[t].auth_key)
              /\ reply.access_token.sub = x.username
      BY <2>2, <3>2 DEF SystemInv, ApiInv, AnswersInv, RequestInv, GrantIsTrue
    <3>4. Fits(state[t], call[t], local[t])
      BY <2>1, WaitsReady DEF SystemInv
    <3>5. PICK kdf \in KdfParams : DerivedFrom(state[t], kdf, call[t], local[t])
      BY <2>2, <3>4 DEF Fits
    <3>6. /\ call[t].auth_key = hkdf(local[t].from, HKDF_INFO_AUTH_KEY)
          /\ local[t].info = HKDF_INFO_ENC_KEY
      BY <3>5 DEF DerivedFrom, derive_keys, hkdf
    <3>7. call[t].username = state[t].form_username
      BY <2>2, <3>4 DEF Fits
    <3> QED
      BY <3>1, <3>3, <3>6, <3>7 DEF Signed, SessionKeys, Named
  <2>3. CASE ~(call[t].op = "login" /\ reply.status = HopedFor(call[t].op))
    <3>1. ReplyTurns(t, reply)
      BY <2>1 DEF ReplyEffect
    <3>2. SameIn(SessionFields \ {"vault_entries"}, state[t], state'[t])
      BY <2>3, <3>1 DEF ReplyTurns, Registered, Opened, Added, SameIn
    <3> QED
      BY <1>1, <3>2 DEF SessionKeys, SameIn, SessionFields, Named
  <2> QED
    BY <2>2, <2>3
<1> QED
  BY <1>3, <1>4 DEF GoesOn

\* The parameters a sign-in derives its keys with are those of the account.
LEMMA GoingOnLogin ==
    ASSUME SystemInv, NEW t \in Tabs, GoesOn(t), users' = users
    PROVE  LoginKeys(t)'
<1>1. CASE HandleEvent(t)
  BY <1>1, EventEffects DEF EventEffect, EventCalls, LoginKeys, SystemInv
<1>2. ASSUME NEW reply \in Outcomes(t), Resume(t, reply), call'[t] # None
      PROVE  LoginKeys(t)'
  <2>1. call[t] # None /\ ReplyEffect(t, reply)
    BY <1>2, AnswerFits, ReplyEffects DEF SystemInv
  <2>2. /\ call[t].op = "kdf_params" /\ call'[t].op = "login"
        /\ reply.status = HopedFor(call[t].op) /\ state'[t] = state[t]
        /\ DerivedFrom(state[t], reply.kdf, call'[t], local'[t])
    BY <1>2, <2>1 DEF ReplyEffect
  <2>3. /\ conn[t] \in Requests /\ Granted(conn[t])
        /\ req[conn[t]] = call[t] /\ reply = resp[conn[t]]
    BY <2>2, AnswerIsOwn
  <2>4. PICK x \in Named(call[t].username) : x.kdf = reply.kdf
    BY <2>2, <2>3 DEF SystemInv, ApiInv, AnswersInv, RequestInv, GrantIsTrue
  <2>5. call[t].username = state[t].form_username
    BY <2>1, <2>2, WaitsReady DEF Fits, SystemInv
  <2>6. StateInv'
    BY GoingOnKeepsState
  <2>7. Fits(state'[t], call'[t], local'[t])
    BY <1>2, <2>6 DEF StateInv, TabOK
  <2>8. call'[t].username = call[t].username
    BY <2>2, <2>5, <2>7 DEF Fits
  <2> QED
    BY <2>2, <2>4, <2>8 DEF LoginKeys, DerivedFrom, Named
<1> QED
  BY <1>1, <1>2 DEF GoesOn, LoginKeys

\* What is listed opens.
LEMMA GoingOnReadable ==
    ASSUME SystemInv, KeysInv, NEW t \in Tabs, GoesOn(t)
    PROVE  Readable(t)'
<1>1. Readable(t)
  BY DEF KeysInv
<1>2. CASE HandleEvent(t)
  BY <1>1, <1>2, EventEffects
  DEF EventEffect, SameIn, SessionFields, NoSession, Readable, SystemInv
<1>3. ASSUME NEW reply \in Outcomes(t), Resume(t, reply) PROVE Readable(t)'
  <2>1. call[t] # None /\ ReplyEffect(t, reply)
    BY <1>3, AnswerFits, ReplyEffects DEF SystemInv
  <2>2. ASSUME call[t].op = "list", reply.status = HopedFor(call[t].op),
               NEW raw \in reply.entries
        PROVE  decrypt_entry(local[t], raw.blob) # DecryptionFailed
    <3>1. /\ conn[t] \in Requests /\ Granted(conn[t])
          /\ req[conn[t]] = call[t] /\ reply = resp[conn[t]]
      BY <2>2, AnswerIsOwn
    <3>2. raw \in EverStored /\ raw.user_id \in Caller(conn[t])
      BY <2>2, <3>1 DEF SystemInv, ApiInv, EntriesInv, GrantIsOfStored
    <3>3. PICK y \in Named(call[t].token.sub) : y.id = raw.user_id
      BY <3>1, <3>2 DEF Caller
    <3>4. /\ call[t].token = state[t].access_token /\ HasSession(state[t])
          /\ local[t] = state[t].enc_key_hex
          /\ state[t] \in State /\ Whole(state[t])
      BY <2>1, <2>2, WaitsReady DEF Fits, VaultOps, SystemInv
    <3>5. PICK x \in Named(state[t].current_username) :
              /\ state[t].access_token.sub = x.username
              /\ x.auth_key_hash =
                     hash_auth_key(hkdf(local[t].from, HKDF_INFO_AUTH_KEY))
              /\ local[t].info = HKDF_INFO_ENC_KEY
      BY <3>4 DEF KeysInv, SessionKeys, Whole, HasSession
    <3>6. x \in users /\ y \in users /\ y.username = x.username
      BY <3>3, <3>4, <3>5 DEF Named
    <3>7. x = y
      BY <3>6, OneAccount
    <3>8. raw.blob.key = KeyOf(x)
      BY <3>2, <3>3, <3>6, <3>7, StoredKeys
    <3>9. KeyOf(x) = hkdf(local[t].from, HKDF_INFO_ENC_KEY)
      BY <3>5 DEF KeyOf, hash_auth_key, hkdf
    <3>10. local[t] \in EncKeys
      BY <3>4 DEF State, Typed, HasSession
    <3>11. local[t] = hkdf(local[t].from, HKDF_INFO_ENC_KEY)
      BY <3>10 DEF EncKeys, derive_keys, hkdf
    <3>12. raw.blob \in OwnBlobs
      BY <3>2, <3>8, <3>9, <3>10, <3>11, StoredByFrontend DEF Shut
    <3> QED
      BY <3>8, <3>9, <3>11, <3>12, FrontendAssumption
      DEF decrypt_entry, OwnBlobs, encrypt_entry
  <2>3. CASE call[t].op = "list" /\ reply.status = HopedFor(call[t].op)
    <3>1. Opened(t, reply)
      BY <2>1, <2>3 DEF ReplyEffect, ReplyTurns
    <3> QED
      BY <2>2, <2>3, <3>1 DEF Opened, Readable
  <2>4. CASE ~(call[t].op = "list" /\ reply.status = HopedFor(call[t].op))
    <3>1. ReplyTurns(t, reply)
      BY <2>1 DEF ReplyEffect
    <3>2. state'[t].vault_entries = state[t].vault_entries
      BY <2>4, <3>1
      DEF ReplyTurns, Registered, Signed, Added, SameIn, SessionFields
    <3> QED
      BY <1>1, <3>2 DEF Readable
  <2> QED
    BY <2>3, <2>4
<1> QED
  BY <1>2, <1>3 DEF GoesOn

\* Who makes a call has the keys for it.
LEMMA GoingOnOwns ==
    ASSUME SystemInv, KeysInv, NEW t \in Tabs, GoesOn(t), users' = users,
           call'[t] # None
    PROVE  OwnKeys(call'[t])
<1> DEFINE payload == call'[t]
<1>1. StateInv' /\ SessionKeys(t)' /\ LoginKeys(t)'
  BY GoingOnKeepsState, GoingOnSession, GoingOnLogin
<1>2. /\ Fits(state'[t], payload, local'[t])
      /\ state'[t] \in State /\ Whole(state'[t])
  BY <1>1 DEF StateInv, TabOK
<1>3. ASSUME payload.op = "create"
      PROVE  \E x \in Named(payload.token.sub) : payload.blob.key = KeyOf(x)
  <2> DEFINE key == state'[t].enc_key_hex
  <2>1. /\ payload.token = state'[t].access_token
        /\ payload.blob.key = key /\ key # None
    BY <1>2, <1>3 DEF Fits, VaultOps, EntryComplete, encrypt_entry
  <2>2. state'[t].is_logged_in
    BY <1>2, <2>1 DEF Whole
  <2>3. PICK x \in Named(state'[t].current_username) :
            /\ state'[t].access_token.sub = x.username
            /\ x.auth_key_hash = hash_auth_key(hkdf(key.from, HKDF_INFO_AUTH_KEY))
            /\ key.info = HKDF_INFO_ENC_KEY
    BY <1>1, <2>2 DEF SessionKeys, Named
  <2>4. key \in EncKeys
    BY <1>2, <2>1 DEF State, Typed
  <2>5. key = hkdf(key.from, HKDF_INFO_ENC_KEY)
    BY <2>4 DEF EncKeys, derive_keys, hkdf
  <2>6. KeyOf(x) = hkdf(key.from, HKDF_INFO_ENC_KEY)
    BY <2>3 DEF KeyOf, hash_auth_key, hkdf
  <2> QED
    BY <2>1, <2>3, <2>5, <2>6 DEF Named
<1>4. payload.op = "register" =>
          \E p \in Passwords :
              payload.auth_key = AccountKeys(p, payload.kdf).auth_key
  BY <1>2, KeysOfThisBuild DEF Fits
<1>5. payload.op = "login" => Named(payload.username) # {}
  BY <1>1 DEF LoginKeys, Named
<1> QED
  BY <1>3, <1>4, <1>5 DEF OwnKeys

\* What was true of an account stays true: no account changes or goes.
LEMMA OwnKeysStay ==
    ASSUME users \subseteq users', NEW payload, OwnKeys(payload)
    PROVE  OwnKeys(payload)'
<1>1. \A name : Named(name) \subseteq {x \in users' : x.username = name}
  BY DEF Named
<1>2. payload.op = "login" => {x \in users' : x.username = payload.username} # {}
  BY <1>1 DEF OwnKeys
<1>3. payload.op = "create" =>
          \E x \in {y \in users' : y.username = payload.token.sub} :
              payload.blob.key = KeyOf(x)
  BY <1>1 DEF OwnKeys
<1> QED
  BY <1>2, <1>3 DEF OwnKeys, Named

LEMMA TabKeysStay ==
    ASSUME KeysInv, users \subseteq users', NEW t \in Tabs,
           state'[t] = state[t], call'[t] = call[t], local'[t] = local[t]
    PROVE  SessionKeys(t)' /\ LoginKeys(t)' /\ Readable(t)'
<1>1. SessionKeys(t) /\ LoginKeys(t) /\ Readable(t)
  BY DEF KeysInv
<1>2. \A name : Named(name) \subseteq {x \in users' : x.username = name}
  BY DEF Named
<1>3. SessionKeys(t)'
  BY <1>1, <1>2 DEF SessionKeys, Named
<1>4. LoginKeys(t)'
  BY <1>1, <1>2 DEF LoginKeys, DerivedFrom, Named
<1> QED
  BY <1>1, <1>3, <1>4 DEF Readable

\* A login is refused for its key only: its account is there.
LEMMA NextRefusals ==
    ASSUME SystemInv, KeysInv, [Next]_vars, NEW r \in Requests
    PROVE  RefusalIsTrue(r)'
<1>1. users \subseteq users'
  BY StepsGrow DEF Grows
<1>2. ASSUME pc'[r] = "refused", req'[r].op = "login", resp'[r].status = 401
      PROVE  \E x \in Named(req[r].username) :
                 x.auth_key_hash # hash_auth_key(req[r].auth_key)
  <2>1. /\ req'[r] = req[r]
        /\ \/ pc[r] = "refused" /\ resp'[r] = resp[r]
           \/ LoginReject(r) \/ LoginUnknown(r)
    BY <1>2, NewRefusal DEF SystemInv, ApiInv
  <2>2. CASE pc[r] = "refused" /\ resp'[r] = resp[r]
    BY <1>2, <2>1, <2>2 DEF KeysInv, RefusalIsTrue
  <2>3. CASE LoginReject(r)
    <3>1. row[r] \in Named(req[r].username)
      BY <2>3
      DEF LoginReject, At, SystemInv, ApiInv, AnswersInv, RequestInv, RowIsCurrent
    <3>2. row[r].auth_key_hash # hash_auth_key(req[r].auth_key)
      BY <2>3 DEF LoginReject, verify_auth_key, hash_auth_key
    <3> QED
      BY <3>1, <3>2
  <2>4. ~LoginUnknown(r)
    BY DEF LoginUnknown, At, KeysInv, RequestKeys, OwnKeys
  <2> QED
    BY <2>1, <2>2, <2>3, <2>4
<1>3. ASSUME pc'[r] = "refused", req'[r].op = "login", resp'[r].status = 401
      PROVE  req'[r] = req[r]
  BY <1>3, NewRefusal DEF SystemInv, ApiInv
<1> QED
  BY <1>1, <1>2, <1>3 DEF RefusalIsTrue, Named

LEMMA InitKeys == SystemInit => KeysInv
BY DEF SystemInit, Init, StateInit, InitialState, KeysInv, SessionKeys,
       LoginKeys, Readable, RequestKeys, RefusalIsTrue

LEMMA NextKeys ==
    SystemInv /\ KeysInv /\ [SystemNext]_systemVars => KeysInv'
<1> SUFFICES ASSUME SystemInv, KeysInv, [SystemNext]_systemVars PROVE KeysInv'
  OBVIOUS
<1>1. [Next]_vars /\ users \subseteq users'
  BY IsBackendStep, StepsGrow DEF Grows
<1>2. ASSUME NEW r \in Requests, pc[r] # "idle" PROVE RequestKeys(r)'
  <2>1. pc'[r] # "idle" /\ req'[r] = req[r] /\ OwnKeys(req[r])
    BY <1>1, <1>2, RequestsStay DEF SystemInv, ApiInv, KeysInv, RequestKeys
  <2>2. OwnKeys(req[r])'
    BY <1>1, <2>1, OwnKeysStay DEF OwnKeys, Named
  <2> QED
    BY <2>2 DEF RequestKeys
<1>3. \A r \in Requests : RefusalIsTrue(r)'
  BY <1>1, NextRefusals
<1>4. CASE \/ UNCHANGED stateVars /\ \A r \in Requests : pc[r] = "idle" => pc'[r] = "idle"
           \/ \E t \in Tabs : UserStep(t) /\ UNCHANGED <<vars, conn>>
  <2>1. state' = state /\ call' = call /\ local' = local
    BY <1>4 DEF stateVars, UserStep, Click, Reload
  <2>2. \A t \in Tabs : SessionKeys(t)' /\ LoginKeys(t)' /\ Readable(t)'
    BY <1>1, <2>1, TabKeysStay
  <2>3. \A r \in Requests : RequestKeys(r)'
    BY <1>2, <1>4 DEF RequestKeys, vars
  <2> QED
    BY <1>3, <2>2, <2>3 DEF KeysInv
<1>5. ASSUME NEW t \in Tabs, GoesOn(t),
             Quiet(t) \/ \E r \in Requests : Asks(t, r)
      PROVE  KeysInv'
  <2>1. users' = users
    BY <1>5 DEF Quiet, Asks, Submit, vars, db
  <2>2. OthersAlone(t)
    <3>1. ASSUME NEW reply \in Outcomes(t), Resume(t, reply)
          PROVE  OthersAlone(t)
      BY <3>1, AnswerFits, ReplyEffects DEF ReplyEffect, SystemInv
    <3> QED
      BY <1>5, <3>1, EventEffects DEF GoesOn, EventEffect, SystemInv
  <2>3. ASSUME NEW u \in Tabs
        PROVE  SessionKeys(u)' /\ LoginKeys(u)' /\ Readable(u)'
    <3>1. CASE u = t
      BY <1>5, <2>1, <3>1, GoingOnSession, GoingOnLogin, GoingOnReadable
    <3>2. CASE u # t
      BY <1>1, <2>2, <3>2, TabKeysStay DEF OthersAlone
    <3> QED
      BY <3>1, <3>2
  <2>4. ASSUME NEW q \in Requests, pc[q] = "idle" PROVE RequestKeys(q)'
    <3>1. CASE pc'[q] = "idle"
      BY <3>1 DEF RequestKeys
    <3>2. CASE pc'[q] # "idle"
      <4>1. PICK r \in Requests : Asks(t, r)
        BY <1>5, <2>4, <3>2 DEF Quiet, vars
      <4>2. req'[q] = call'[t] /\ call'[t] # None
        BY <2>4, <3>2, <4>1 DEF Asks, Submit, SystemInv, ApiInv, TypeInv, TypeOK
      <4>3. OwnKeys(call'[t])
        BY <1>5, <2>1, <4>2, GoingOnOwns
      <4> QED
        BY <2>1, <4>2, <4>3 DEF RequestKeys, OwnKeys, Named
    <3> QED
      BY <3>1, <3>2
  <2> QED
    BY <1>2, <1>3, <2>3, <2>4 DEF KeysInv
<1>6. BackendStep => \A r \in Requests : pc[r] = "idle" => pc'[r] = "idle"
  BY IdleStays DEF SystemInv, ApiInv
<1>7. CASE SystemNext
  BY <1>4, <1>5, <1>6, <1>7, SystemSteps DEF stateVars
<1>8. CASE UNCHANGED systemVars
  BY <1>4, <1>8 DEF systemVars, vars
<1> QED
  BY <1>7, <1>8

LEMMA KeysInvariance == SystemSpec => []KeysInv
BY InitKeys, NextKeys, SystemInvariance, PTL DEF SystemSpec

\* A session is of one account, whoever registers, logs in or fails meanwhile:
\* its name, token and key are that account's.
THEOREM SessionsAreTheAccounts == SystemSpec => []SessionIsTheAccounts
<1>1. KeysInv => SessionIsTheAccounts
  BY DEF KeysInv, SessionKeys, SessionIsTheAccounts
<1> QED
  BY <1>1, KeysInvariance, PTL

\* No user ever meets an entry that does not open, in this session or a later
\* one, at this tab or another.
THEOREM EntriesStayReadable == SystemSpec => []EntriesAreReadable
<1>1. KeysInv => EntriesAreReadable
  BY DEF KeysInv, Readable, EntriesAreReadable
<1> QED
  BY <1>1, KeysInvariance, PTL

\* The right password of an account of this build's costs is never refused:
\* hash and salt of the account are those of its registration, and the sign-in
\* derives its keys with that salt from the password still on the form.  Of
\* other accounts that is false (StoredParamsAreUsed).
THEOREM RightPasswordsGetIn == SystemSpec => []RightPasswordGetsIn
<1>1. ASSUME SystemInv, KeysInv, NEW t \in Tabs, NEW x \in users,
             x.kdf.costs = ARGON2_COSTS, RightPasswordRefused(t, x)
      PROVE  FALSE
  <2> DEFINE r == conn[t]
  <2>0. /\ conn[t] # None /\ req[r].op = "login" /\ x \in Named(req[r].username)
        /\ x.auth_key_hash.bcrypt.from.secret = state[t].form_master_password
        /\ resp[r] # None /\ resp[r].status = 401
    BY <1>1 DEF RightPasswordRefused, Named
  <2>1. /\ r \in Requests /\ pc[r] # "idle" /\ call[t] # None /\ req[r] = call[t]
        /\ AnswerIsDue(r) /\ pc[r] \in Places
    BY <1>1, <2>0
    DEF SystemInv, LinkInv, ConnIsCall, ApiInv, AnswersInv, RequestInv, TypeInv,
        TypeOK
  <2>2. pc[r] = "refused"
    BY <2>0, <2>1 DEF AnswerIsDue, Places, Finished, Granted
  <2>3. PICK y \in Named(req[r].username) :
            y.auth_key_hash # hash_auth_key(req[r].auth_key)
    BY <1>1, <2>0, <2>1, <2>2 DEF KeysInv, RefusalIsTrue
  <2>4. PICK z \in Named(req[r].username) :
            DerivedFrom(state[t], z.kdf, call[t], local[t])
    BY <1>1, <2>0, <2>1 DEF KeysInv, LoginKeys
  <2>5. x \in users /\ x = y /\ x = z
    <3>1. /\ x \in users /\ y \in users /\ z \in users
          /\ x.username = y.username /\ x.username = z.username
      BY <1>1, <2>0, <2>3, <2>4 DEF Named
    <3>2. x = y
      BY <1>1, <3>1, OneAccount
    <3>3. x = z
      BY <1>1, <3>1, OneAccount
    <3> QED
      BY <3>1, <3>2, <3>3
  <2>6. PICK p \in Passwords :
            x.auth_key_hash = hash_auth_key(AccountKeys(p, x.kdf).auth_key)
    BY <1>1, AccountsAreOwn
  <2>7. p = state[t].form_master_password
    BY <2>0, <2>6, KeyOfDerived
  <2>8. AccountKeys(p, x.kdf) = derive_keys(p, x.kdf.salt)
    BY <1>1, KeysOfThisBuild
  <2> QED
    BY <2>1, <2>3, <2>4, <2>5, <2>6, <2>7, <2>8 DEF DerivedFrom
<1>2. SystemInv /\ KeysInv => RightPasswordGetsIn
  BY <1>1 DEF RightPasswordGetsIn
<1> QED
  BY <1>2, SystemInvariance, KeysInvariance, PTL

-----------------------------------------------------------------------------
(* The form of a new entry.                                                *)

LEMMA InitSystemOrder == SystemInit => OrderInv
BY InitOrder DEF SystemInit

LEMMA NextSystemOrder ==
    SystemInv /\ OrderInv /\ [SystemNext]_systemVars => OrderInv'
<1> SUFFICES ASSUME SystemInv, OrderInv, [SystemNext]_systemVars,
                    NEW u \in Tabs
             PROVE  OrderOK(u)'
  BY DEF OrderInv
<1>1. StateInv /\ OrderOK(u)
  BY DEF SystemInv, OrderInv
<1>2. CASE state'[u] = state[u] /\ queue'[u] = queue[u] /\ call'[u] = call[u]
  BY <1>1, <1>2 DEF OrderOK, InTurn, Waits
<1>3. ASSUME NEW t \in Tabs, UserStep(t) PROVE OrderOK(u)'
  BY <1>1, <1>3, UserKeepsOrder
<1>4. ASSUME NEW t \in Tabs, HandleEvent(t) PROVE OrderOK(u)'
  <2>1. EventEffect(t)
    BY <1>1, <1>4, EventEffects
  <2>2. CASE u = t
    BY <1>1, <2>1, <2>2, EventKeepsOrder
  <2>3. CASE u # t
    BY <1>2, <2>1, <2>3 DEF EventEffect, OthersAlone
  <2> QED
    BY <2>2, <2>3
<1>5. ASSUME NEW t \in Tabs, NEW reply \in Outcomes(t), Resume(t, reply)
      PROVE  OrderOK(u)'
  <2>1. call[t] # None /\ ReplyEffect(t, reply)
    BY <1>1, <1>5, AnswerFits, ReplyEffects
  <2>2. CASE u = t
    BY <1>1, <2>1, <2>2, ReplyKeepsOrder
  <2>3. CASE u # t
    BY <1>2, <2>1, <2>3 DEF ReplyEffect, OthersAlone
  <2> QED
    BY <2>2, <2>3
<1>6. CASE UNCHANGED stateVars
  BY <1>2, <1>6 DEF stateVars
<1> QED
  BY <1>3, <1>4, <1>5, <1>6, SystemSteps DEF GoesOn, systemVars, stateVars

LEMMA OrderInvariance == SystemSpec => []OrderInv
BY InitSystemOrder, NextSystemOrder, SystemInvariance, PTL DEF SystemSpec

\* Commits fail by a fault of the commit or a crash only.
CommitsHold == \A r \in Requests : pc[r] # "commit_failed"

LEMMA NextCommitsHold ==
    ASSUME Faults \subseteq {"statement"}, TypeInv, CommitsHold, [Next]_vars
    PROVE  CommitsHold'
<1> SUFFICES ASSUME NEW q \in Requests PROVE pc'[q] # "commit_failed"
  BY DEF CommitsHold
<1>1. CASE RequestStep(q)
  <2>1. ~CommitFails(q)
    BY DEF CommitFails
  <2>2. ClientStep(q) => pc'[q] = "received"
    BY DEF ClientStep, Submit, TypeInv, TypeOK
  <2>3. ClientStep(q) \/ AwaitsNext(q) \/ Raises(q) \/ Returns(q) \/ Commit(q)
    BY <1>1, <2>1, HowHandlersGoOn DEF RequestStep
  <2> QED
    BY <2>2, <2>3
    DEF AwaitsNext, Await, Raises, Raise, Returns, Return, Commit, Close,
        TypeInv, TypeOK
<1>2. ASSUME NEW r \in Requests, r # q, RequestStep(r)
      PROVE  pc'[q] # "commit_failed"
  BY <1>2, OthersUnmoved DEF Unmoved, CommitsHold
<1>3. CASE Tick \/ UNCHANGED vars
  BY <1>3 DEF Tick, vars, CommitsHold
<1>4. ~Crash
  BY DEF Crash
<1> QED
  BY <1>1, <1>2, <1>3, <1>4 DEF Next, BackendStep, RequestStep

LEMMA CommitsAlwaysHold ==
    ASSUME Faults \subseteq {"statement"}
    PROVE  SystemSpec => []CommitsHold
<1>1. SystemInit => CommitsHold
  BY DEF SystemInit, Init, CommitsHold
<1>2. SystemInv /\ CommitsHold /\ [SystemNext]_systemVars => CommitsHold'
  BY IsBackendStep, NextCommitsHold DEF SystemInv, ApiInv
<1> QED
  BY <1>1, <1>2, SystemInvariance, PTL DEF SystemSpec

\* What was typed stays on the form until the backend has it, however often
\* and in whatever order the user clicks, adds and signs in, if commits do not
\* fail: a backend that crashes behind its answer has lost what it confirmed.
THEOREM FormsAreKept ==
    ASSUME Faults \subseteq {"statement"}
    PROVE  SystemSpec => FormKeptUntilStored
<1> DEFINE Emptied(t) ==
               /\ state[t].page = "vault" /\ state'[t].page = "vault"
               /\ state[t].new_entry # None /\ state'[t].new_entry = None
           Kept(t) ==
               \E r \in Requests :
                   /\ conn[t] = r /\ Succeeded(r, "create")
                   /\ \E e \in EverStored \cup session[r].entries :
                          /\ e.id = resp[r].id
                          /\ e.blob = encrypt_entry(state[t].enc_key_hex,
                                                   state[t].new_entry)
<1>1. ASSUME SystemInv, OrderInv, CommitsHold, NEW t \in Tabs, Emptied(t),
             NEW reply \in Outcomes(t), Resume(t, reply)
      PROVE  Kept(t)
  <2> DEFINE r == conn[t]
  <2>1. /\ StateInv /\ OrderOK(t) /\ call[t] # None
    BY <1>1, AnswerFits DEF SystemInv, OrderInv
  <2>2. call[t].op = "create" /\ reply.status = HopedFor(call[t].op)
    BY <1>1, <2>1, FormIsEmptied
  <2>3. /\ r \in Requests /\ Granted(r) /\ req[r] = call[t] /\ reply = resp[r]
    BY <1>1, <2>2, AnswerIsOwn
  <2>4. call[t].blob = encrypt_entry(state[t].enc_key_hex, state[t].new_entry)
    BY <2>1, <2>2, WaitsReady DEF Fits
  <2>5. Succeeded(r, "create")
    <3>1. AnswerIsDue(r) /\ call[t] # None
      BY <1>1, <2>1, <2>3 DEF SystemInv, ApiInv, AnswersInv, RequestInv
    <3> QED
      BY <2>2, <2>3, <3>1 DEF Succeeded, AnswerIsDue
  <2>6. EntryOf(r).id = resp[r].id /\ EntryOf(r).blob = req[r].blob
    BY DEF EntryOf
  <2>7. EntryOf(r) \in EverStored \cup session[r].entries
    <3>1. CASE pc[r] = "committed"
      BY <2>2, <2>3, <3>1 DEF EverStored, Committed
    <3>2. CASE pc[r] = "closing"
      <4>1. SessionIsOwed(r)
        BY <1>1, <2>3 DEF SystemInv, ApiInv, AnswersInv, RequestInv
      <4>2. session[r] = Owed(r)
        BY <3>2, <4>1 DEF SessionIsOwed
      <4>3. Owed(r).entries = {EntryOf(r)}
        BY <2>2, <2>3 DEF Owed
      <4> QED
        BY <4>2, <4>3
    <3> QED
      BY <1>1, <2>3, <3>1, <3>2 DEF Granted, CommitsHold
  <2> HIDE DEF r
  <2> QED
    BY <2>3, <2>4, <2>5, <2>6, <2>7 DEF r
<1>2. ASSUME SystemInv, OrderInv, CommitsHold, SystemNext, NEW u \in Tabs,
             Emptied(u)
      PROVE  Kept(u)
  <2>1. StateInv /\ OrderOK(u)
    BY <1>2 DEF SystemInv, OrderInv
  <2>2. ASSUME NEW t \in Tabs, GoesOn(t) PROVE Kept(u)
    <3>1. OthersAlone(t)
      <4>1. ASSUME NEW reply \in Outcomes(t), Resume(t, reply)
            PROVE  OthersAlone(t)
        BY <1>2, <2>1, <4>1, AnswerFits, ReplyEffects DEF ReplyEffect
      <4> QED
        BY <2>1, <2>2, <4>1, EventEffects DEF GoesOn, EventEffect
    <3>2. u = t
      BY <1>2, <3>1 DEF OthersAlone
    <3>3. ~HandleEvent(t)
      BY <1>2, <2>1, <3>2, FormIsEmptied
    <3> QED
      BY <1>1, <1>2, <2>2, <3>2, <3>3 DEF GoesOn
  <2>3. ~(\E t \in Tabs : UserStep(t)) /\ ~UNCHANGED stateVars
    BY <1>2 DEF UserStep, Click, Reload, stateVars
  <2> QED
    BY <1>2, <2>2, <2>3, SystemSteps
<1>3. SystemInv /\ OrderInv /\ CommitsHold /\ [SystemNext]_systemVars
          => [\A t \in Tabs : Emptied(t) => Kept(t)]_systemVars
  BY <1>2
<1> QED
  BY <1>3, SystemInvariance, OrderInvariance, CommitsAlwaysHold, PTL
  DEF SystemSpec, FormKeptUntilStored

\* What ZeroVaultState promises against any server, it keeps with this one,
\* faults and all.
THEOREM TabsStayWhole ==
    SystemSpec => [](StateTypeOK /\ SessionIsWhole /\ LoadingIsEnded
                         /\ ServerCannotDecrypt)
<1>1. SystemInv => StateTypeOK /\ SessionIsWhole /\ LoadingIsEnded
                       /\ ServerCannotDecrypt
  BY InvImplies, SentIsShut DEF SystemInv
<1> QED
  BY <1>1, SystemInvariance, PTL

=============================================================================
