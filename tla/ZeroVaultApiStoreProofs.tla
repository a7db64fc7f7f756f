------------------------ MODULE ZeroVaultApiStoreProofs ------------------------
(***************************************************************************)
(* The backend implements the atomic store: ZeroVaultApi's Spec implies    *)
(* VaultStore's under the mapping of ZeroVaultApiStore, for any set of     *)
(* requests, any faults and any database to start on.                      *)
(*                                                                         *)
(* A step of a handler up to its answer is a stutter of the store.  The    *)
(* step that answers is the one that decides the call: the guard it passed *)
(* is the store's, since the row a handler holds is still the one of its   *)
(* name (RowIsCurrent) and the name has no other (UniqueAccounts).         *)
(***************************************************************************)
EXTENDS ZeroVaultApiAnswers, ZeroVaultApiStore

-----------------------------------------------------------------------------
(* The mapping.                                                            *)

\* The two specifications share their data.
LEMMA SameData ==
    /\ Store!EmptySession = EmptySession
    /\ Store!VaultOps = VaultOps
    /\ \A k : Store!hash_auth_key(k) = hash_auth_key(k)
    /\ \A k, h : Store!verify_auth_key(k, h) = verify_auth_key(k, h)
    /\ \A bearers, ids : Store!Payloads(bearers, ids) = Payloads(bearers, ids)
    /\ \A name : Store!Account(name) = Named(name)
BY DEF Store!EmptySession, EmptySession, Store!VaultOps, VaultOps,
       Store!hash_auth_key, hash_auth_key, Store!verify_auth_key,
       verify_auth_key, Store!Payloads, Payloads, Store!Account, Named

Mapped == [r \in Requests |-> StoreState(pc[r])]

LEMMA MappedPlaces ==
    /\ \A place \in Handling : StoreState(place) = "open"
    /\ StoreState("idle") = "idle" /\ StoreState("refused") = "refused"
    /\ StoreState("closing") = "promised"
    /\ StoreState("committed") = "kept"
    /\ StoreState("commit_failed") = "broken"
    /\ StoreState("lost") = "vanished"
BY DEF StoreState, Handling

\* A request that moves, moves its call.
LEMMA MappedMove ==
    ASSUME TypeInv, NEW r \in Requests, NEW place,
           pc' = [pc EXCEPT ![r] = place]
    PROVE  Mapped' = [Mapped EXCEPT ![r] = StoreState(place)]
BY DEF Mapped, TypeInv, TypeOK

\* Answering with success promises what is in the session.
LEMMA ReturnPromises ==
    ASSUME TypeInv, NEW r \in Requests, NEW response, NEW writes,
           Return(r, response, writes)
    PROVE  Store!Promise(r, response, writes)
<1>1. pc' = [pc EXCEPT ![r] = "closing"]
  BY DEF Return
<1>2. Mapped' = [Mapped EXCEPT ![r] = StoreState("closing")]
  BY <1>1, MappedMove
<1>3. Mapped' = [Mapped EXCEPT ![r] = "promised"]
  BY <1>2, MappedPlaces
<1> QED
  BY <1>3 DEF Return, Store!Promise, Mapped, db

\* Answering with an error refuses the call, if for a reason.
LEMMA RaiseRefuses ==
    ASSUME TypeInv, NEW r \in Requests, pc[r] \in Handling,
           NEW status \in {401, 404, 409, 500}, Raise(r, status),
           Store!Reason(r, status), user_seq' \in {user_seq, user_seq + 1},
           session[r] = EmptySession
    PROVE  Store!Refuse(r)
<1>1. pc' = [pc EXCEPT ![r] = "refused"]
  BY DEF Raise
<1>2. Mapped' = [Mapped EXCEPT ![r] = StoreState("refused")]
  BY <1>1, MappedMove
<1>3. Mapped[r] = "open" /\ StoreState("refused") = "refused"
  BY MappedPlaces DEF Mapped
<1>4. session' = session
  BY DEF Raise, TypeInv, TypeOK
<1>5. UNCHANGED <<users, vault_entries, entry_seq, tokens, req>>
  BY DEF Raise, db
<1>6. \E s \in {401, 404, 409, 500} :
          Store!Reason(r, s) /\ resp' = [resp EXCEPT ![r] = [status |-> s]]
  <2> DEFINE Told(s) == resp' = [resp EXCEPT ![r] = [status |-> s]]
  <2>1. Told(status)
    BY DEF Raise
  <2> HIDE DEF Told
  <2>2. \E s \in {401, 404, 409, 500} : Store!Reason(r, s) /\ Told(s)
    BY <2>1, Zenon
  <2> QED
    BY <2>2 DEF Told
<1>7. Mapped' = [Mapped EXCEPT ![r] = "refused"]
  BY <1>2, <1>3
<1> QED
  BY <1>3, <1>4, <1>5, <1>6, <1>7 DEF Store!Refuse, Mapped

\* Awaiting is no step of the store.
LEMMA AwaitStutters ==
    ASSUME TypeInv, NEW r \in Requests, AwaitsNext(r)
    PROVE  UNCHANGED Store!storeVars
<1>1. PICK place \in {"hashing", "verifying", "authorized", "have_user"} :
          \E user : Await(r, place, user)
  BY DEF AwaitsNext
<1>2. Mapped' = [Mapped EXCEPT ![r] = "open"] /\ Mapped[r] = "open"
  BY <1>1, MappedMove, MappedPlaces DEF Await, AwaitsNext, Mapped, Handling
<1>3. Mapped' = Mapped
  BY <1>2 DEF Mapped
<1> QED
  BY <1>1, <1>3 DEF Await, Store!storeVars, Mapped, db

LEMMA InitMaps == Init => Store!Init
<1> SUFFICES ASSUME Init PROVE Store!Init
  OBVIOUS
<1>1. Mapped = [r \in Requests |-> "idle"]
  BY MappedPlaces DEF Init, Mapped
<1> QED
  BY <1>1, SameData DEF Init, Store!Init, Mapped

LEMMA SubmitOpens ==
    ASSUME TypeInv, NEW r \in Requests, ClientStep(r)
    PROVE  Store!Open(r)
<1>1. PICK p \in Payloads(tokens \cup {None}, 0 .. entry_seq) : Submit(r, p)
  BY DEF ClientStep
<1>2. p \in Store!Payloads(tokens \cup {None}, Nat)
  BY DEF Payloads, Store!Payloads, TypeInv, TypeOK
<1>3. pc' = [pc EXCEPT ![r] = "received"] /\ pc[r] = "idle"
  BY <1>1 DEF Submit
<1>4. Mapped' = [Mapped EXCEPT ![r] = StoreState("received")]
  BY <1>3, MappedMove
<1>5. Mapped' = [Mapped EXCEPT ![r] = "open"] /\ Mapped[r] = "idle"
  BY <1>3, <1>4, MappedPlaces DEF Handling, Mapped
<1>6. req' = [req EXCEPT ![r] = p] /\ req'[r] = p
  BY <1>1 DEF Submit, TypeInv, TypeOK
<1> QED
  BY <1>1, <1>2, <1>5, <1>6 DEF Submit, Store!Open, Mapped, db

\* The exit code of get_db keeps the promise.
LEMMA CommitKeeps ==
    ASSUME TypeInv, NEW r \in Requests, Commit(r)
    PROVE  Store!Keep(r)
<1>1. pc' = [pc EXCEPT ![r] = "committed"] /\ pc[r] = "closing"
  BY DEF Commit, Close
<1>2. Mapped' = [Mapped EXCEPT ![r] = StoreState("committed")]
  BY <1>1, MappedMove
<1>3. Mapped' = [Mapped EXCEPT ![r] = "kept"] /\ Mapped[r] = "promised"
  BY <1>1, <1>2, MappedPlaces DEF Mapped
<1> QED
  BY <1>3, SameData DEF Commit, Close, Store!Keep, Mapped

\* A failed commit breaks one promise, a crash every call under way.
LEMMA CommitFailsBreaks ==
    ASSUME TypeInv, NEW r \in Requests, CommitFails(r)
    PROVE  Store!Break({r})
<1>1. pc' = [pc EXCEPT ![r] = "commit_failed"] /\ pc[r] = "closing"
  BY DEF CommitFails, Close
<1>2. /\ \A q \in Requests : pc'[q] = IF q = r THEN "commit_failed" ELSE pc[q]
      /\ Mapped[r] = "promised"
  BY <1>1, MappedPlaces DEF TypeInv, TypeOK, Mapped
<1>3. Mapped' = [q \in Requests |->
                    IF q \notin {r} THEN Mapped[q]
                    ELSE IF Mapped[q] = "open" THEN "vanished" ELSE "broken"]
  BY <1>2, MappedPlaces DEF Mapped
<1>4. session' = [q \in Requests |->
                     IF q \in {r} THEN EmptySession ELSE session[q]]
  BY DEF CommitFails, Close, TypeInv, TypeOK
<1> QED
  BY <1>2, <1>3, <1>4, SameData
  DEF CommitFails, Close, Store!Break, Mapped, db

LEMMA CrashBreaks ==
    ASSUME TypeInv, AnswersInv, Crash
    PROVE  \E R \in SUBSET Requests : Store!Break(R)
<1> DEFINE R == {r \in Requests : pc[r] \in Handling \cup {"closing"}}
<1>1. \A r \in R : Mapped[r] \in {"open", "promised"}
  BY MappedPlaces DEF Mapped
<1>2. Mapped' = [r \in Requests |->
                    IF r \notin R THEN Mapped[r]
                    ELSE IF Mapped[r] = "open" THEN "vanished" ELSE "broken"]
  <2>1. \A r \in Requests :
            pc'[r] = IF pc[r] \in Handling THEN "lost"
                     ELSE IF pc[r] = "closing" THEN "commit_failed" ELSE pc[r]
    BY DEF Crash, Handling
  <2> QED
    BY <2>1, MappedPlaces DEF Mapped
<1>3. session' = [r \in Requests |->
                     IF r \in R THEN EmptySession ELSE session[r]]
  BY DEF Crash, AnswersInv, RequestInv, SessionIsOwed
<1>4. R # {} /\ R \in SUBSET Requests
  BY DEF Crash
<1>5. UNCHANGED <<users, vault_entries, user_seq, entry_seq, tokens, req, resp>>
  BY DEF Crash, db
<1> HIDE DEF R
<1>6. Store!Break(R)
  BY <1>1, <1>2, <1>3, <1>4, <1>5, SameData DEF Store!Break, Mapped
<1> QED
  BY <1>4, <1>6

-----------------------------------------------------------------------------
(* The steps that answer.                                                  *)

StoreStep == Store!Next \/ UNCHANGED Store!storeVars

\* The backend's refusals have the reasons the store may refuse for.
LEMMA RaiseMaps ==
    ASSUME TypeInv, NEW r \in Requests, RequestInv(r), pc[r] \in Handling,
           NEW status \in {401, 404, 409, 500}, Raise(r, status),
           Store!Reason(r, status), user_seq' \in {user_seq, user_seq + 1}
    PROVE  StoreStep
<1>1. session[r] = EmptySession
  BY DEF RequestInv, SessionIsOwed, Handling
<1>2. Store!Refuse(r)
  BY <1>1, RaiseRefuses
<1> QED
  BY <1>2 DEF StoreStep, Store!Next

LEMMA GrantMaps ==
    ASSUME NEW r \in Requests, pc[r] \in Handling,
           \/ Store!GrantAccount(r) \/ Store!GrantKdfParams(r)
           \/ Store!GrantToken(r) \/ Store!GrantEntry(r)
           \/ Store!GrantList(r) \/ Store!GrantRemoval(r)
    PROVE  StoreStep
<1>1. Mapped[r] = "open"
  BY MappedPlaces DEF Mapped
<1>2. Store!Grant(r)
  BY <1>1 DEF Store!Grant, Mapped
<1> QED
  BY <1>2 DEF StoreStep, Store!Next

LEMMA RegisterFlushGrants ==
    ASSUME TypeInv, AccountsInv, AnswersInv, NEW r \in Requests, RegisterFlush(r)
    PROVE  Store!GrantAccount(r)
<1> DEFINE user == [id |-> user_seq, username |-> req[r].username,
                    auth_key_hash |-> hash_auth_key(req[r].auth_key),
                    kdf |-> req[r].kdf]
           writes == [EmptySession EXCEPT !.users = {user}]
           response == [status |-> 201, user_id |-> user_seq]
<1>1. Return(r, response, writes)
  BY DEF RegisterFlush
<1>2. Store!Promise(r, response, writes)
  <2> HIDE DEF response, writes
  <2> QED
    BY <1>1, ReturnPromises
<1>3. ~Store!Taken(req[r].username)
  <2>1. session[r].users = {}
    BY DEF RegisterFlush, At, AnswersInv, RequestInv, SessionIsOwed, EmptySession
  <2> QED
    BY <2>1, SameData DEF RegisterFlush, NameLocked, Store!Taken
<1>4. /\ req[r].op = "register" /\ user_seq' = user_seq + 1
      /\ UNCHANGED <<entry_seq, tokens>>
  BY DEF RegisterFlush, At
<1> QED
  BY <1>2, <1>3, <1>4
  DEF Store!GrantAccount, Store!EmptySession, EmptySession,
      Store!hash_auth_key, hash_auth_key

LEMMA KdfParamsFoundGrants ==
    ASSUME TypeInv, NEW r \in Requests, KdfParamsFound(r)
    PROVE  Store!GrantKdfParams(r)
<1>1. PICK user \in Named(req[r].username) :
          Return(r, [status |-> 200, kdf |-> user.kdf], EmptySession)
  BY DEF KdfParamsFound
<1>2. Store!Promise(r, [status |-> 200, kdf |-> user.kdf], EmptySession)
  BY <1>1, ReturnPromises
<1>3. req[r].op = "kdf_params" /\ UNCHANGED <<user_seq, entry_seq, tokens>>
  BY DEF KdfParamsFound, At
<1> QED
  BY <1>2, <1>3, SameData DEF Store!GrantKdfParams

LEMMA LoginAcceptGrants ==
    ASSUME TypeInv, NEW r \in Requests, RowIsCurrent(r), LoginAccept(r)
    PROVE  Store!GrantToken(r)
<1> DEFINE token == create_access_token(row[r].username)
<1>1. /\ Return(r, [status |-> 200, access_token |-> token], EmptySession)
      /\ tokens' = tokens \cup {token}
  BY DEF LoginAccept
<1>2. Store!Promise(r, [status |-> 200, access_token |-> token], EmptySession)
  <2> HIDE DEF token
  <2> QED
    BY <1>1, ReturnPromises
<1>3. /\ row[r] \in Named(req[r].username)
      /\ verify_auth_key(req[r].auth_key, row[r].auth_key_hash)
      /\ req[r].op = "login" /\ UNCHANGED <<user_seq, entry_seq>>
  BY DEF LoginAccept, At, RowIsCurrent
<1>4. token.sub = row[r].username
  BY DEF create_access_token
<1> HIDE DEF token
<1> QED
  BY <1>1, <1>2, <1>3, <1>4, SameData DEF Store!GrantToken

\* Of the caller's entries the store and the handler have the same idea.
LEMMA OwnedByRow ==
    ASSUME UniqueAccounts, NEW r \in Requests, RowIsCurrent(r),
           pc[r] = "have_user"
    PROVE  Store!Owned(req[r].token) = EntriesOf(row[r].id)
BY CallerOfRow, SameData DEF Store!Owned, EntriesOf

LEMMA CreateFlushGrants ==
    ASSUME TypeInv, NEW r \in Requests, RowIsCurrent(r), CreateFlush(r)
    PROVE  Store!GrantEntry(r)
<1> DEFINE entry == [id |-> entry_seq, user_id |-> row[r].id,
                     blob |-> req[r].blob]
           writes == [EmptySession EXCEPT !.entries = {entry}]
           response == [status |-> 201, id |-> entry_seq]
<1>1. Return(r, response, writes)
  BY DEF CreateFlush
<1>2. Store!Promise(r, response, writes)
  <2> HIDE DEF response, writes
  <2> QED
    BY <1>1, ReturnPromises
<1>3. row[r] \in Store!Account(req[r].token.sub) /\ req[r].token \in tokens
  BY SameData DEF CreateFlush, At, RowIsCurrent
<1>4. /\ req[r].op = "create" /\ entry_seq' = entry_seq + 1
      /\ UNCHANGED <<user_seq, tokens>>
  BY DEF CreateFlush, At
<1> QED
  BY <1>2, <1>3, <1>4 DEF Store!GrantEntry, Store!EmptySession, EmptySession

LEMMA ListSelectGrants ==
    ASSUME TypeInv, UniqueAccounts, NEW r \in Requests, RowIsCurrent(r),
           ListSelect(r)
    PROVE  Store!GrantList(r)
<1>1. Return(r, [status |-> 200, entries |-> EntriesOf(row[r].id)], EmptySession)
  BY DEF ListSelect
<1>2. Store!Promise(r, [status |-> 200, entries |-> EntriesOf(row[r].id)],
                    EmptySession)
  BY <1>1, ReturnPromises
<1>3. /\ req[r].op = "list" /\ req[r].token \in tokens
      /\ UNCHANGED <<user_seq, entry_seq, tokens>>
      /\ Store!Owned(req[r].token) = EntriesOf(row[r].id)
  BY OwnedByRow DEF ListSelect, At, RowIsCurrent
<1> QED
  BY <1>2, <1>3, SameData DEF Store!GrantList

LEMMA DeleteSelectGrants ==
    ASSUME TypeInv, UniqueAccounts, NEW r \in Requests, RowIsCurrent(r),
           DeleteSelect(r)
    PROVE  Store!GrantRemoval(r)
<1>1. PICK e \in EntriesOf(row[r].id) : e.id = req[r].entry_id
  BY DEF DeleteSelect, Deletable
<1>2. {d.id : d \in Deletable(r)} = {e.id}
  BY <1>1 DEF Deletable
<1> DEFINE writes == [EmptySession EXCEPT !.deleted = {e.id}]
<1>3. Return(r, [status |-> 200], writes)
  BY <1>2 DEF DeleteSelect
<1>4. Store!Promise(r, [status |-> 200], writes)
  <2> HIDE DEF writes
  <2> QED
    BY <1>3, ReturnPromises
<1>5. /\ req[r].op = "delete" /\ req[r].token \in tokens
      /\ UNCHANGED <<user_seq, entry_seq, tokens>>
      /\ e \in Store!Owned(req[r].token)
  BY <1>1, OwnedByRow DEF DeleteSelect, At, RowIsCurrent
<1> QED
  BY <1>1, <1>4, <1>5
  DEF Store!GrantRemoval, Store!EmptySession, EmptySession

\* What the process refuses, the store may refuse.
LEMMA RefusalMaps ==
    ASSUME TypeInv, UniqueAccounts, AnswersInv, NEW r \in Requests,
           \/ RegisterConflict(r) \/ RegisterIntegrityError(r)
           \/ KdfParamsUnknown(r) \/ LoginUnknown(r) \/ LoginReject(r)
           \/ RejectToken(r) \/ DeleteMissing(r) \/ StatementFails(r)
           \/ GetUserOr404(r) /\ Named(req[r].token.sub) = {}
    PROVE  StoreStep
<1> USE DEF At, Handling
<1>0. RequestInv(r) /\ RowIsCurrent(r)
  BY DEF AnswersInv, RequestInv
<1>1. CASE RegisterConflict(r)
  <2>1. Store!Reason(r, 409)
    BY <1>1, SameData DEF RegisterConflict, Store!Reason
  <2> QED
    BY <1>0, <1>1, <2>1, RaiseMaps DEF RegisterConflict
<1>2. CASE RegisterIntegrityError(r)
  <2>1. Store!Reason(r, 500)
    BY DEF Store!Reason
  <2> QED
    BY <1>0, <1>2, <2>1, RaiseMaps DEF RegisterIntegrityError
<1>3. CASE KdfParamsUnknown(r)
  <2>1. Store!Reason(r, 404)
    BY <1>3, SameData DEF KdfParamsUnknown, Store!Reason
  <2> QED
    BY <1>0, <1>3, <2>1, RaiseMaps DEF KdfParamsUnknown
<1>4. CASE LoginUnknown(r)
  <2>1. Store!Reason(r, 401)
    BY <1>4, SameData DEF LoginUnknown, Store!Reason
  <2> QED
    BY <1>0, <1>4, <2>1, RaiseMaps DEF LoginUnknown
\* The name has no account but the row that was compared.
<1>5. CASE LoginReject(r)
  <2>1. Named(req[r].username) = {row[r]}
    BY <1>0, <1>5 DEF LoginReject, RowIsCurrent, Named, UniqueAccounts
  <2>2. Store!Reason(r, 401)
    BY <1>5, <2>1, SameData DEF LoginReject, Store!Reason
  <2> QED
    BY <1>0, <1>5, <2>2, RaiseMaps DEF LoginReject
<1>6. CASE RejectToken(r)
  <2>1. Store!Reason(r, 401)
    BY <1>6, SameData DEF RejectToken, Store!Reason
  <2> QED
    BY <1>0, <1>6, <2>1, RaiseMaps DEF RejectToken
<1>7. CASE DeleteMissing(r)
  <2>1. Store!Owned(req[r].token) = EntriesOf(row[r].id)
    BY <1>0, <1>7, OwnedByRow DEF DeleteMissing
  <2>2. Store!Reason(r, 404)
    BY <1>7, <2>1 DEF DeleteMissing, Deletable, Store!Reason
  <2> QED
    BY <1>0, <1>7, <2>2, RaiseMaps DEF DeleteMissing
<1>8. CASE StatementFails(r)
  <2>1. Store!Reason(r, 500)
    BY DEF Store!Reason
  <2> QED
    BY <1>0, <1>8, <2>1, RaiseMaps DEF StatementFails
\* Every token issued has its account: the 404 of a vault call is unreachable.
<1>9. CASE GetUserOr404(r) /\ Named(req[r].token.sub) = {}
  BY <1>0, <1>9 DEF GetUserOr404, RowIsCurrent, AnswersInv, TokensAreKnown
<1> QED
  BY <1>1, <1>2, <1>3, <1>4, <1>5, <1>6, <1>7, <1>8, <1>9

\* Every step of the backend is one of the store or none.
LEMMA NextMaps ==
    ASSUME TypeInv, AccountsInv, AnswersInv, [Next]_vars
    PROVE  StoreStep
<1>0. UniqueAccounts
  BY DEF AccountsInv
<1>1. ASSUME NEW r \in Requests, ClientStep(r) PROVE StoreStep
  BY <1>1, SubmitOpens DEF StoreStep, Store!Next
<1>2. ASSUME NEW r \in Requests, ServerStep(r) PROVE StoreStep
  <2>1. RowIsCurrent(r)
    BY DEF AnswersInv, RequestInv
  <2>2. CASE \/ RegisterFlush(r) \/ KdfParamsFound(r) \/ LoginAccept(r)
             \/ CreateFlush(r) \/ ListSelect(r) \/ DeleteSelect(r)
    <3>1. pc[r] \in Handling
      BY <2>2 DEF RegisterFlush, KdfParamsFound, LoginAccept, CreateFlush,
                  ListSelect, DeleteSelect, At, Handling
    <3> QED
      BY <1>0, <2>1, <2>2, <3>1, GrantMaps, RegisterFlushGrants,
         KdfParamsFoundGrants, LoginAcceptGrants, CreateFlushGrants,
         ListSelectGrants, DeleteSelectGrants
  <2>3. CASE AwaitsNext(r)
    BY <2>3, AwaitStutters DEF StoreStep
  <2>4. CASE Commit(r)
    BY <2>4, CommitKeeps DEF StoreStep, Store!Next
  <2>5. CASE RegisterCheck(r) \/ LoginLookup(r) \/ AcceptToken(r)
    <3>1. AwaitsNext(r)
      BY <2>5 DEF RegisterCheck, LoginLookup, AcceptToken, AwaitsNext, At
    <3> QED
      BY <2>3, <3>1
  <2>6. CASE GetUserOr404(r)
    <3>1. AwaitsNext(r) \/ Named(req[r].token.sub) = {}
      BY <2>6 DEF GetUserOr404, AwaitsNext
    <3> QED
      BY <1>0, <2>3, <2>6, <3>1, RefusalMaps
  <2> QED
    BY <1>0, <1>2, <2>2, <2>4, <2>5, <2>6, RefusalMaps DEF ServerStep
<1>3. ASSUME NEW r \in Requests, CommitFails(r) PROVE StoreStep
  BY <1>3, CommitFailsBreaks DEF StoreStep, Store!Next
<1>4. ASSUME NEW r \in Requests, StatementFails(r) PROVE StoreStep
  BY <1>0, <1>4, RefusalMaps
<1>5. CASE Crash
  BY <1>5, CrashBreaks DEF StoreStep, Store!Next
<1>6. CASE Tick \/ UNCHANGED vars
  BY <1>6 DEF Tick, vars, db, StoreStep, Store!storeVars
<1> QED
  BY <1>1, <1>2, <1>3, <1>4, <1>5, <1>6 DEF Next, BackendStep

\* The backend, cut at every await, with its failures and crashes, implements
\* the store on which every call is decided in one step.
THEOREM BackendImplementsStore == Spec => ImplementsVaultStore
<1>1. TypeInv /\ AccountsInv /\ AnswersInv /\ [Next]_vars
          => [Store!Next]_(Store!storeVars)
  BY NextMaps DEF StoreStep
<1> QED
  BY <1>1, InitMaps, TypeInvariance, AccountsInvariance, AnswersInvariance, PTL
  DEF Spec, ImplementsVaultStore, Store!Spec

=============================================================================
