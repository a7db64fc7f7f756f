-------------------------- MODULE ZeroVaultApiAnswers --------------------------
(***************************************************************************)
(* What the answers of the backend are worth and what its tables hold:     *)
(* theorems about ZeroVaultApi.                                            *)
(*                                                                         *)
(* A handler reads a row, awaits, answers, and commits after the answer.   *)
(* What it read is still true at each later step because users only grows  *)
(* and names stay unique (AccountsInv), so a name that has a row keeps     *)
(* that row (CallerIsForGood).  A session writes what its request was      *)
(* granted (SessionIsOwed), a grant is for good once it was answered       *)
(* (GrantsStay), and the id of an entry is drawn once.  So the tables can  *)
(* be told from the commits alone.                                         *)
(***************************************************************************)
EXTENDS ZeroVaultApiProofs

-----------------------------------------------------------------------------
(* What one step leaves alone.                                             *)

Unmoved(q) ==
    /\ pc'[q] = pc[q] /\ req'[q] = req[q] /\ row'[q] = row[q]
    /\ session'[q] = session[q] /\ resp'[q] = resp[q]

\* The steps of one request.
RequestStep(r) ==
    ClientStep(r) \/ ServerStep(r) \/ CommitFails(r) \/ StatementFails(r)

\* The four ways a handler goes on.
AwaitsNext(r) ==
    /\ pc[r] \in {"received", "authorized"}
    /\ \E place \in {"hashing", "verifying", "authorized", "have_user"} :
           \E user : Await(r, place, user)
Raises(r) == pc[r] \in Handling /\ \E status : Raise(r, status)
Returns(r) == pc[r] \in Handling /\ \E response, writes : Return(r, response, writes)

LEMMA HowHandlersGoOn ==
    ASSUME NEW r \in Requests, ServerStep(r) \/ StatementFails(r)
    PROVE  AwaitsNext(r) \/ Raises(r) \/ Returns(r) \/ Commit(r)
<1> USE DEF At, Handling
<1>1. CASE RegisterCheck(r) \/ LoginLookup(r) \/ AcceptToken(r)
  BY <1>1 DEF RegisterCheck, LoginLookup, AcceptToken, AwaitsNext
<1>2. CASE \/ RegisterConflict(r) \/ RegisterIntegrityError(r)
           \/ KdfParamsUnknown(r) \/ LoginUnknown(r) \/ LoginReject(r)
           \/ RejectToken(r) \/ DeleteMissing(r) \/ StatementFails(r)
  BY <1>2 DEF RegisterConflict, RegisterIntegrityError, KdfParamsUnknown,
              LoginUnknown, LoginReject, RejectToken, DeleteMissing,
              StatementFails, Raises
<1>3. CASE GetUserOr404(r)
  BY <1>3 DEF GetUserOr404, AwaitsNext, Raises
<1>4. CASE \/ RegisterFlush(r) \/ KdfParamsFound(r) \/ LoginAccept(r)
           \/ CreateFlush(r) \/ ListSelect(r) \/ DeleteSelect(r)
  BY <1>4 DEF RegisterFlush, KdfParamsFound, LoginAccept, CreateFlush,
              ListSelect, DeleteSelect, Returns
<1> QED
  BY <1>1, <1>2, <1>3, <1>4 DEF ServerStep

\* A step of a request is invisible to the others.
LEMMA OthersUnmoved ==
    ASSUME TypeInv, NEW r \in Requests, RequestStep(r)
    PROVE  \A q \in Requests \ {r} : Unmoved(q)
<1> USE DEF Unmoved, TypeInv, TypeOK
<1>1. CASE ClientStep(r)
  BY <1>1 DEF ClientStep, Submit
<1>2. CASE AwaitsNext(r)
  BY <1>2 DEF AwaitsNext, Await
<1>3. CASE Returns(r)
  BY <1>3 DEF Returns, Return
<1>4. CASE Raises(r)
  BY <1>4 DEF Raises, Raise
<1>5. CASE Commit(r) \/ CommitFails(r)
  BY <1>5 DEF Commit, CommitFails, Close
<1> QED
  BY <1>1, <1>2, <1>3, <1>4, <1>5, HowHandlersGoOn DEF RequestStep

\* Accounts and tokens are never taken back, ids never drawn again.
Grows ==
    /\ users \subseteq users'
    /\ tokens \subseteq tokens'
    /\ entry_seq' \in {entry_seq, entry_seq + 1}

LEMMA StepsGrow == ASSUME [Next]_vars PROVE Grows
<1> USE DEF Grows
<1>1. ASSUME NEW r \in Requests, RequestStep(r) PROVE Grows
  <2>1. CASE ClientStep(r)
    BY <2>1 DEF ClientStep, Submit, db
  <2>2. CASE \E place, user : Await(r, place, user)
    BY <2>2 DEF Await, db
  <2>3. CASE \E status : Raise(r, status)
    BY <2>3 DEF Raise, db
  <2>4. CASE /\ \E response, writes : Return(r, response, writes)
             /\ tokens \subseteq tokens'
             /\ entry_seq' \in {entry_seq, entry_seq + 1}
    BY <2>4 DEF Return, db
  <2>5. CASE (\E place : Close(r, place)) /\ users \subseteq users'
    BY <2>5 DEF Close
  <2> QED
    BY <1>1, <2>1, <2>2, <2>3, <2>4, <2>5
    DEF RequestStep, ServerStep, RegisterConflict, RegisterCheck,
        RegisterFlush, RegisterIntegrityError, KdfParamsUnknown,
        KdfParamsFound, LoginUnknown, LoginLookup, LoginReject, LoginAccept,
        RejectToken, AcceptToken, GetUserOr404, CreateFlush, ListSelect,
        DeleteMissing, DeleteSelect, Commit, CommitFails, StatementFails, db
<1>2. CASE Crash \/ Tick \/ UNCHANGED vars
  BY <1>2 DEF Crash, Tick, vars, db
<1> QED
  BY <1>1, <1>2 DEF Next, BackendStep, RequestStep

-----------------------------------------------------------------------------
(* The invariant.                                                          *)

\* Answered with success, whatever becomes of the commit.
Granted(r) == pc[r] \in {"closing", "committed", "commit_failed"}

\* What a handler found before an await still stands: the token that was let
\* in was issued, and the row it holds is the one of its name.
RowIsCurrent(r) ==
    /\ pc[r] = "verifying" => row[r] \in Named(req[r].username)
    /\ pc[r] \in {"authorized", "have_user"} => /\ req[r].op \in VaultOps
                                              /\ req[r].token \in tokens
    /\ pc[r] = "have_user" => row[r] \in Named(req[r].token.sub)

\* Nobody bears a token that was not issued.
BearerIsIssued(r) ==
    pc[r] # "idle" /\ req[r].op \in VaultOps => req[r].token \in tokens \cup {None}

\* There is an answer when there should be, and a refusal had a lasting reason.
AnswerIsDue(r) ==
    /\ pc[r] \in Handling \cup {"idle", "lost"} => resp[r] = None
    /\ pc[r] = "refused" => /\ resp[r].status \notin {200, 201}
                            /\ resp[r].status = 409 => Named(req[r].username) # {}
    /\ Granted(r) => resp[r] # None /\ resp[r].status \in {200, 201}

\* What was granted by a look at the accounts is as they say.
GrantIsTrue(r) ==
    Granted(r) =>
        /\ req[r].op = "kdf_params" =>
               \E x \in Named(req[r].username) : x.kdf = resp[r].kdf
        /\ req[r].op = "login" =>
               \E x \in Named(req[r].username) :
                   /\ x.auth_key_hash = hash_auth_key(req[r].auth_key)
                   /\ resp[r].access_token.sub = x.username
        /\ req[r].op = "login" => resp[r].access_token \in tokens
        /\ req[r].op \in VaultOps =>
               req[r].token \in tokens /\ Named(req[r].token.sub) # {}

\* What a granted request is owed: exactly what its session holds until the
\* commit.
Owed(r) ==
    [users   |-> IF req[r].op = "register" THEN {AccountOf(r)} ELSE {},
     entries |-> IF req[r].op = "create" THEN {EntryOf(r)} ELSE {},
     deleted |-> IF req[r].op = "delete" THEN {req[r].entry_id} ELSE {}]

SessionIsOwed(r) ==
    session[r] = IF pc[r] = "closing" THEN Owed(r) ELSE EmptySession

RequestInv(r) ==
    /\ RowIsCurrent(r) /\ BearerIsIssued(r) /\ AnswerIsDue(r)
    /\ GrantIsTrue(r) /\ SessionIsOwed(r)

\* Tokens are of accounts that exist.
TokensAreKnown == \A t \in tokens : Named(t.sub) # {}

AnswersInv == TokensAreKnown /\ \A r \in Requests : RequestInv(r)

LEMMA InitAnswers == Init => AnswersInv
<1> SUFFICES ASSUME Init PROVE AnswersInv
  OBVIOUS
<1>1. TokensAreKnown
  BY SeedAssumption DEF Init, TokensAreKnown, Named
<1>2. ASSUME NEW r \in Requests PROVE RequestInv(r)
  BY DEF Init, RequestInv, RowIsCurrent, BearerIsIssued, AnswerIsDue,
         GrantIsTrue, SessionIsOwed, Granted
<1> QED
  BY <1>1, <1>2 DEF AnswersInv

\* The caller of a granted vault request never changes.
LEMMA CallerIsForGood ==
    ASSUME UniqueAccounts', Grows, NEW r \in Requests, req'[r] = req[r],
           Named(req[r].token.sub) # {}
    PROVE  /\ Named(req[r].token.sub)' = Named(req[r].token.sub)
           /\ Caller(r)' = Caller(r)
<1>1. Named(req[r].token.sub)' = Named(req[r].token.sub)
  <2> DEFINE name == req[r].token.sub
  <2>1. {x \in users' : x.username = name} = {x \in users : x.username = name}
    BY DEF Named, UniqueAccounts, Grows
  <2> QED
    BY <2>1 DEF Named
<1> QED
  BY <1>1 DEF Caller

\* What a request has is not disturbed by the steps of the others.
LEMMA UnmovedRequest ==
    ASSUME UniqueAccounts', Grows, NEW q \in Requests, Unmoved(q),
           RequestInv(q)
    PROVE  RequestInv(q)'
<1> USE DEF Unmoved
<1>1. \A name : Named(name) \subseteq {x \in users' : x.username = name}
  BY DEF Grows, Named
<1>2. RowIsCurrent(q)'
  BY <1>1 DEF RequestInv, RowIsCurrent, Named, Grows
<1>3. BearerIsIssued(q)'
  BY DEF RequestInv, BearerIsIssued, Grows
<1>4. AnswerIsDue(q)'
  BY <1>1 DEF RequestInv, AnswerIsDue, Granted, Named
<1>5. GrantIsTrue(q)'
  BY <1>1 DEF RequestInv, GrantIsTrue, Granted, Named, Grows
<1>6. SessionIsOwed(q)'
  <2>1. CASE pc[q] = "closing" /\ req[q].op = "create"
    <3>1. Caller(q)' = Caller(q)
      BY <2>1, CallerIsForGood DEF RequestInv, GrantIsTrue, Granted, VaultOps
    <3>2. EntryOf(q)' = EntryOf(q)
      BY <3>1 DEF EntryOf
    <3> QED
      BY <2>1, <3>2 DEF RequestInv, SessionIsOwed, Owed
  <2>2. CASE pc[q] = "closing" /\ req[q].op # "create"
    BY <2>2 DEF RequestInv, SessionIsOwed, Owed, AccountOf
  <2>3. CASE pc[q] # "closing"
    BY <2>3 DEF RequestInv, SessionIsOwed
  <2> QED
    BY <2>1, <2>2, <2>3
<1> QED
  BY <1>2, <1>3, <1>4, <1>5, <1>6 DEF RequestInv

\* A handler that goes on with a row of the name it asked for.
LEMMA AwaitRequest ==
    ASSUME TypeInv, NEW r \in Requests, RequestInv(r),
           pc[r] \in {"received", "authorized"},
           NEW place, NEW user, Await(r, place, user),
           \/ place = "hashing"
           \/ place = "verifying" /\ user \in Named(req[r].username)
           \/ /\ place \in {"authorized", "have_user"}
              /\ req[r].op \in VaultOps /\ req[r].token \in tokens
              /\ place = "have_user" => user \in Named(req[r].token.sub)
    PROVE  RequestInv(r)'
BY DEF Await, RequestInv, RowIsCurrent, BearerIsIssued, AnswerIsDue,
       GrantIsTrue, SessionIsOwed, Granted, Handling, Named, db, TypeInv, TypeOK

\* A handler that raises, and not for a conflict that is not there.
LEMMA RaiseRequest ==
    ASSUME TypeInv, NEW r \in Requests, RequestInv(r), pc[r] # "idle",
           NEW status \in {401, 404, 409, 500}, Raise(r, status),
           status = 409 => Named(req[r].username) # {}
    PROVE  RequestInv(r)'
<1>1. /\ pc'[r] = "refused" /\ resp'[r] = [status |-> status]
      /\ session'[r] = EmptySession /\ req' = req /\ users' = users
      /\ tokens' = tokens
  BY DEF Raise, TypeInv, TypeOK, db
<1> QED
  BY <1>1
  DEF RequestInv, RowIsCurrent, BearerIsIssued, AnswerIsDue,
      GrantIsTrue, SessionIsOwed, Granted, Handling, Named

\* The exit code of get_db.
LEMMA CloseRequest ==
    ASSUME TypeInv, Grows, NEW r \in Requests, RequestInv(r), pc[r] = "closing",
           NEW place \in {"committed", "commit_failed"}, Close(r, place)
    PROVE  RequestInv(r)'
<1>1. /\ pc'[r] = place /\ session'[r] = EmptySession
      /\ req' = req /\ resp' = resp /\ tokens' = tokens
  BY DEF Close, TypeInv, TypeOK
<1>2. \A name : Named(name) \subseteq {x \in users' : x.username = name}
  BY DEF Grows, Named
<1> QED
  BY <1>1, <1>2
  DEF RequestInv, RowIsCurrent, BearerIsIssued, AnswerIsDue,
      GrantIsTrue, SessionIsOwed, Granted, Handling, Named

\* A client's request: it bears a token that was issued, or none.
LEMMA SubmitRequest ==
    ASSUME TypeInv, NEW r \in Requests, RequestInv(r), ClientStep(r)
    PROVE  RequestInv(r)'
<1>1. PICK p \in Payloads(tokens \cup {None}, 0 .. entry_seq) : Submit(r, p)
  BY DEF ClientStep
<1>2. p.op \in VaultOps => p.token \in tokens \cup {None}
  BY DEF Payloads, VaultOps
<1>3. /\ pc[r] = "idle" /\ pc'[r] = "received" /\ req'[r] = p
      /\ resp'[r] = resp[r] /\ session'[r] = session[r] /\ tokens' = tokens
  BY <1>1 DEF Submit, TypeInv, TypeOK
<1> QED
  BY <1>2, <1>3
  DEF RequestInv, RowIsCurrent, BearerIsIssued, AnswerIsDue,
      GrantIsTrue, SessionIsOwed, Granted, Handling

\* A handler that returns what it was asked for, with what it owes in its
\* session.
LEMMA ReturnRequest ==
    ASSUME TypeInv, Grows, NEW r \in Requests, RequestInv(r), pc[r] # "idle",
           NEW response, NEW writes, Return(r, response, writes),
           response # None, response.status \in {200, 201},
           req[r].op = "kdf_params" =>
               \E x \in Named(req[r].username) : x.kdf = response.kdf,
           req[r].op = "login" =>
               \E x \in Named(req[r].username) :
                   /\ x.auth_key_hash = hash_auth_key(req[r].auth_key)
                   /\ response.access_token.sub = x.username,
           req[r].op = "login" => response.access_token \in tokens',
           req[r].op \in VaultOps =>
               req[r].token \in tokens /\ Named(req[r].token.sub) # {},
           writes = Owed(r)'
    PROVE  RequestInv(r)'
<1>1. /\ pc'[r] = "closing" /\ resp'[r] = response /\ session'[r] = writes
      /\ req' = req /\ users' = users /\ tokens \subseteq tokens'
  BY DEF Return, TypeInv, TypeOK, db, Grows
<1> HIDE DEF Owed
<1>2. RowIsCurrent(r)' /\ BearerIsIssued(r)'
  BY <1>1 DEF RequestInv, RowIsCurrent, BearerIsIssued
<1>3. AnswerIsDue(r)'
  BY <1>1 DEF AnswerIsDue, Granted, Handling
<1>4. GrantIsTrue(r)'
  BY <1>1 DEF GrantIsTrue, Granted, Named
<1>5. SessionIsOwed(r)'
  BY <1>1 DEF SessionIsOwed
<1> QED
  BY <1>2, <1>3, <1>4, <1>5 DEF RequestInv

\* The row a handler loaded for a token is the only one of its subject.
LEMMA CallerOfRow ==
    ASSUME UniqueAccounts, NEW r \in Requests, RowIsCurrent(r),
           pc[r] = "have_user"
    PROVE  /\ Named(req[r].token.sub) = {row[r]}
           /\ Caller(r) = {row[r].id}
BY DEF UniqueAccounts, RowIsCurrent, Named, Caller

\* No response is None.
LEMMA ResponseIsAnswer == \A response \in Response : response # None
BY DataAssumption

\* Each of the process's own steps keeps the invariant of its request.
LEMMA ServerStepRequest ==
    ASSUME TypeInv, UniqueAccounts, Grows, NEW r \in Requests, RequestInv(r),
           ServerStep(r)
    PROVE  RequestInv(r)'
<1> USE DEF At
<1>0. /\ "register" \notin VaultOps /\ "login" \notin VaultOps
      /\ "kdf_params" \notin VaultOps
      /\ users \subseteq User /\ vault_entries \subseteq VaultEntry
      /\ user_seq \in Nat /\ entry_seq \in Nat
      /\ RowIsCurrent(r) /\ BearerIsIssued(r)
  BY DEF VaultOps, TypeInv, TypeOK, RequestInv
<1>1. CASE RegisterConflict(r)
  BY <1>1, RaiseRequest DEF RegisterConflict
<1>2. CASE RegisterCheck(r)
  BY <1>2, AwaitRequest DEF RegisterCheck
<1>3. CASE RegisterFlush(r)
  <2> DEFINE user == [id |-> user_seq, username |-> req[r].username,
                      auth_key_hash |-> hash_auth_key(req[r].auth_key),
                      kdf |-> req[r].kdf]
             response == [status |-> 201, user_id |-> user.id]
             writes == [EmptySession EXCEPT !.users = {user}]
  <2>1. Return(r, response, writes)
    BY <1>3 DEF RegisterFlush
  <2>2. response \in Response
    BY <1>0 DEF Response
  <2>3. writes = Owed(r)'
    <3>1. resp'[r] = response /\ req' = req
      BY <2>1 DEF Return, TypeInv, TypeOK
    <3>2. AccountOf(r)' = user
      BY <3>1 DEF AccountOf
    <3>3. req'[r].op = "register"
      BY <1>3, <3>1 DEF RegisterFlush
    <3> HIDE DEF user
    <3>4. Owed(r)' = [users |-> {AccountOf(r)'}, entries |-> {}, deleted |-> {}]
      BY <3>3 DEF Owed
    <3>5. writes = [users |-> {user}, entries |-> {}, deleted |-> {}]
      BY DEF EmptySession
    <3> QED
      BY <3>2, <3>4, <3>5
  <2> HIDE DEF writes
  <2> QED
    BY <1>0, <1>3, <2>1, <2>2, <2>3, ReturnRequest, ResponseIsAnswer
    DEF RegisterFlush
<1>4. CASE RegisterIntegrityError(r)
  BY <1>4, RaiseRequest DEF RegisterIntegrityError
<1>5. CASE KdfParamsUnknown(r)
  BY <1>5, RaiseRequest DEF KdfParamsUnknown
<1>6. CASE KdfParamsFound(r)
  <2>1. PICK user \in Named(req[r].username) :
            Return(r, [status |-> 200, kdf |-> user.kdf], EmptySession)
    BY <1>6 DEF KdfParamsFound
  <2> DEFINE response == [status |-> 200, kdf |-> user.kdf]
  <2>2. response \in Response
    BY <1>0 DEF Response, Named, User
  <2>3. EmptySession = Owed(r)'
    BY <1>6, <2>1 DEF KdfParamsFound, Return, Owed, EmptySession
  <2> QED
    BY <1>0, <1>6, <2>1, <2>2, <2>3, ReturnRequest, ResponseIsAnswer
    DEF KdfParamsFound
<1>7. CASE LoginUnknown(r)
  BY <1>7, RaiseRequest DEF LoginUnknown
<1>8. CASE LoginLookup(r)
  BY <1>8, AwaitRequest DEF LoginLookup
<1>9. CASE LoginReject(r)
  BY <1>9, RaiseRequest DEF LoginReject
<1>10. CASE LoginAccept(r)
  <2> DEFINE token == create_access_token(row[r].username)
             response == [status |-> 200, access_token |-> token]
  <2>1. Return(r, response, EmptySession) /\ token \in tokens'
    BY <1>10 DEF LoginAccept
  <2>2. row[r] \in Named(req[r].username)
    BY <1>0, <1>10 DEF LoginAccept, RowIsCurrent
  <2>3. row[r].auth_key_hash = hash_auth_key(req[r].auth_key)
    BY <1>0, <1>10, <2>2
    DEF LoginAccept, verify_auth_key, hash_auth_key, Named, User
  <2>4. token.sub = row[r].username /\ response.access_token = token
    BY DEF create_access_token
  <2>5. response \in Response
    <3>1. token \in Token
      BY <1>0, <2>2, ConstantsAssumption
      DEF create_access_token, Token, Named, User, TypeInv, TypeOK
    <3> QED
      BY <3>1 DEF Response
  <2>6. EmptySession = Owed(r)'
    BY <1>10, <2>1 DEF LoginAccept, Return, Owed, EmptySession
  <2>7. response.status = 200
    OBVIOUS
  <2> HIDE DEF token, response
  <2> QED
    BY <1>0, <1>10, <2>1, <2>2, <2>3, <2>4, <2>5, <2>6, <2>7, ReturnRequest,
       ResponseIsAnswer DEF LoginAccept
<1>11. CASE RejectToken(r)
  BY <1>11, RaiseRequest DEF RejectToken
<1>12. CASE AcceptToken(r)
  <2>1. req[r].token \in tokens
    BY <1>0, <1>12 DEF AcceptToken, TokenAccepted, BearerIsIssued
  <2> QED
    BY <1>12, <2>1, AwaitRequest DEF AcceptToken
<1>13. CASE GetUserOr404(r)
  <2>1. req[r].op \in VaultOps /\ req[r].token \in tokens
    BY <1>0, <1>13 DEF GetUserOr404, RowIsCurrent
  <2> QED
    BY <1>13, <2>1, AwaitRequest, RaiseRequest DEF GetUserOr404
<1>14. CASE CreateFlush(r)
  <2> DEFINE entry == [id |-> entry_seq, user_id |-> row[r].id,
                       blob |-> req[r].blob]
             response == [status |-> 201, id |-> entry.id]
             writes == [EmptySession EXCEPT !.entries = {entry}]
  <2>1. Return(r, response, writes)
    BY <1>14 DEF CreateFlush
  <2>2. response \in Response
    BY <1>0 DEF Response
  <2>3. Caller(r) = {row[r].id} /\ row[r] \in Named(req[r].token.sub)
    BY <1>0, <1>14, CallerOfRow DEF CreateFlush, RowIsCurrent
  <2>4. writes = Owed(r)'
    <3>1. /\ resp'[r] = response /\ req' = req /\ users' = users
      BY <2>1 DEF Return, TypeInv, TypeOK, db
    <3>2. Caller(r)' = {row[r].id}
      BY <2>3, <3>1 DEF Caller, Named
    <3>3. EntryOf(r)' = entry
      BY <3>1, <3>2 DEF EntryOf
    <3> QED
      BY <1>14, <3>1, <3>3 DEF Owed, EmptySession, CreateFlush
  <2> HIDE DEF writes
  <2> QED
    BY <1>0, <1>14, <2>1, <2>2, <2>3, <2>4, ReturnRequest, ResponseIsAnswer
    DEF CreateFlush, RowIsCurrent
<1>15. CASE ListSelect(r)
  <2> DEFINE response == [status |-> 200, entries |-> EntriesOf(row[r].id)]
  <2>1. response \in Response
    BY <1>0 DEF Response, EntriesOf
  <2>2. Return(r, response, EmptySession)
    BY <1>15 DEF ListSelect
  <2>3. EmptySession = Owed(r)'
    BY <1>15, <2>2 DEF ListSelect, Return, Owed, EmptySession
  <2> QED
    BY <1>0, <1>15, <2>1, <2>2, <2>3, ReturnRequest, ResponseIsAnswer
    DEF ListSelect, RowIsCurrent
<1>16. CASE DeleteMissing(r)
  BY <1>16, RaiseRequest DEF DeleteMissing
<1>17. CASE DeleteSelect(r)
  <2> DEFINE response == [status |-> 200]
             writes == [EmptySession EXCEPT !.deleted =
                           {e.id : e \in Deletable(r)}]
  <2>1. Return(r, response, writes)
    BY <1>17 DEF DeleteSelect
  <2>2. response \in Response
    BY DEF Response
  <2>3. {e.id : e \in Deletable(r)} = {req[r].entry_id}
    BY <1>17 DEF DeleteSelect, Deletable
  <2>4. writes = Owed(r)'
    <3>1. writes = [users |-> {}, entries |-> {}, deleted |-> {req[r].entry_id}]
      BY <2>3 DEF EmptySession
    <3>2. req' = req /\ req[r].op = "delete"
      BY <1>17, <2>1 DEF DeleteSelect, Return
    <3> HIDE DEF writes
    <3> QED
      BY <3>1, <3>2 DEF Owed
  <2> HIDE DEF writes
  <2> QED
    BY <1>0, <1>17, <2>1, <2>2, <2>4, ReturnRequest, ResponseIsAnswer
    DEF DeleteSelect, RowIsCurrent
<1>18. CASE Commit(r)
  BY <1>18, CloseRequest DEF Commit
<1> QED
  BY <1>1, <1>2, <1>3, <1>4, <1>5, <1>6, <1>7, <1>8, <1>9, <1>10, <1>11,
     <1>12, <1>13, <1>14, <1>15, <1>16, <1>17, <1>18 DEF ServerStep

\* So does every step of the request itself, faults included.
LEMMA RequestStepRequest ==
    ASSUME TypeInv, UniqueAccounts, Grows, NEW r \in Requests, RequestInv(r),
           RequestStep(r)
    PROVE  RequestInv(r)'
<1>1. CASE ClientStep(r)
  BY <1>1, SubmitRequest
<1>2. CASE ServerStep(r)
  BY <1>2, ServerStepRequest
<1>3. CASE CommitFails(r)
  BY <1>3, CloseRequest DEF CommitFails
<1>4. CASE StatementFails(r)
  BY <1>4, RaiseRequest DEF StatementFails, Handling
<1> QED
  BY <1>1, <1>2, <1>3, <1>4 DEF RequestStep

\* A crash loses the handlers under way and fails the commits to come.
LEMMA CrashRequests ==
    ASSUME TypeInv, Crash, NEW r \in Requests, RequestInv(r)
    PROVE  RequestInv(r)'
<1>1. /\ pc'[r] = IF pc[r] \in Handling THEN "lost"
                  ELSE IF pc[r] = "closing" THEN "commit_failed" ELSE pc[r]
      /\ session'[r] = EmptySession
      /\ req' = req /\ resp' = resp /\ users' = users /\ tokens' = tokens
  BY DEF Crash, db, Handling
<1>2. RowIsCurrent(r)' /\ BearerIsIssued(r)' /\ AnswerIsDue(r)'
  BY <1>1 DEF RequestInv, RowIsCurrent, BearerIsIssued, AnswerIsDue, Granted,
              Handling, Named
<1>3. GrantIsTrue(r)' /\ SessionIsOwed(r)'
  BY <1>1 DEF RequestInv, GrantIsTrue, SessionIsOwed, Granted, Handling, Named
<1> QED
  BY <1>2, <1>3 DEF RequestInv

\* Only a login that proved its key adds a token, of the row it verified.
LEMMA TokensStayKnown ==
    ASSUME TypeInv, Grows, TokensAreKnown, [Next]_vars,
           \A r \in Requests : RowIsCurrent(r)
    PROVE  TokensAreKnown'
<1>1. \A name : Named(name) \subseteq {x \in users' : x.username = name}
  BY DEF Grows, Named
<1>2. ASSUME tokens' = tokens PROVE TokensAreKnown'
  BY <1>1, <1>2 DEF TokensAreKnown, Named
<1>3. ASSUME NEW r \in Requests, LoginAccept(r) PROVE TokensAreKnown'
  <2> DEFINE token == create_access_token(row[r].username)
  <2>1. tokens' = tokens \cup {token}
    BY <1>3 DEF LoginAccept
  <2>2. row[r] \in users /\ row[r].username = token.sub
    BY <1>3 DEF LoginAccept, At, RowIsCurrent, Named, create_access_token
  <2> HIDE DEF token
  <2>3. \A t \in tokens' : Named(t.sub) # {}
    BY <2>1, <2>2 DEF TokensAreKnown, Named
  <2> QED
    BY <1>1, <2>3 DEF TokensAreKnown, Named
<1>4. ASSUME NEW r \in Requests, RequestStep(r), ~LoginAccept(r)
      PROVE  TokensAreKnown'
  <2>1. CASE ClientStep(r)
    BY <1>2, <2>1 DEF ClientStep, Submit
  <2>2. CASE ~ClientStep(r)
    <3>1. tokens' = tokens
      BY <1>4, <2>2
      DEF RequestStep, ServerStep, RegisterConflict, RegisterCheck,
          RegisterFlush, RegisterIntegrityError, KdfParamsUnknown,
          KdfParamsFound, LoginUnknown, LoginLookup, LoginReject,
          RejectToken, AcceptToken, GetUserOr404, CreateFlush, ListSelect,
          DeleteMissing, DeleteSelect, Commit, CommitFails, StatementFails, Await, Raise,
          Close
    <3> QED
      BY <1>2, <3>1
  <2> QED
    BY <2>1, <2>2
<1>5. CASE Crash \/ Tick \/ UNCHANGED vars
  BY <1>2, <1>5 DEF Crash, Tick, vars
<1> QED
  BY <1>3, <1>4, <1>5 DEF Next, BackendStep, RequestStep

LEMMA NextAnswers ==
    TypeInv /\ UniqueAccounts /\ UniqueAccounts' /\ AnswersInv /\ [Next]_vars
        => AnswersInv'
<1> SUFFICES ASSUME TypeInv, UniqueAccounts, UniqueAccounts', AnswersInv,
                    [Next]_vars
             PROVE  AnswersInv'
  OBVIOUS
<1>1. Grows
  BY StepsGrow
<1>2. TokensAreKnown'
  BY <1>1, TokensStayKnown DEF AnswersInv, RequestInv
<1>3. ASSUME NEW r \in Requests, RequestStep(r), NEW q \in Requests
      PROVE  RequestInv(q)'
  <2>1. CASE q = r
    BY <1>1, <1>3, <2>1, RequestStepRequest DEF AnswersInv
  <2>2. CASE q # r
    BY <1>1, <1>3, <2>2, OthersUnmoved, UnmovedRequest DEF AnswersInv
  <2> QED
    BY <2>1, <2>2
<1>4. ASSUME Crash, NEW q \in Requests PROVE RequestInv(q)'
  BY <1>4, CrashRequests DEF AnswersInv
<1>5. ASSUME Tick \/ UNCHANGED vars, NEW q \in Requests PROVE RequestInv(q)'
  BY <1>1, <1>5, UnmovedRequest DEF AnswersInv, Unmoved, Tick, vars
<1> QED
  BY <1>2, <1>3, <1>4, <1>5 DEF AnswersInv, Next, BackendStep, RequestStep

LEMMA AnswersInvariance == Spec => []AnswersInv
<1>1. AccountsInv => UniqueAccounts
  BY DEF AccountsInv
<1> QED
  BY <1>1, InitAnswers, NextAnswers, TypeInvariance, AccountsInvariance, PTL
  DEF Spec

-----------------------------------------------------------------------------
(* What follows from the invariant.                                        *)

\* Only a granted request has an answer of success.
LEMMA SucceededIsGranted ==
    ASSUME TypeInv, AnswersInv, NEW r \in Requests, NEW op, Succeeded(r, op)
    PROVE  Granted(r) /\ req[r].op = op
BY DEF TypeInv, TypeOK, Places, Finished, AnswersInv, RequestInv, AnswerIsDue,
       Granted, Succeeded

\* A token is handed out only for the key of the account of that name, however
\* long bcrypt ran and whatever happened meanwhile.
THEOREM LoginsProveTheirKey == Spec => []LoginsAreProven
<1>1. TypeInv /\ AnswersInv => LoginsAreProven
  BY SucceededIsGranted
  DEF AnswersInv, RequestInv, GrantIsTrue, LoginsAreProven
<1> QED
  BY <1>1, TypeInvariance, AnswersInvariance, PTL

\* The KDF parameters handed out for a name are its account's, for good.
THEOREM KdfParamsAreForGood == Spec => []KdfParamsAreTheAccounts
<1>1. TypeInv /\ AnswersInv => KdfParamsAreTheAccounts
  BY SucceededIsGranted
  DEF AnswersInv, RequestInv, GrantIsTrue, KdfParamsAreTheAccounts
<1> QED
  BY <1>1, TypeInvariance, AnswersInvariance, PTL

\* "Username already taken" is never said of a name that turns out free.
THEOREM ConflictsLast == Spec => []ConflictsAreFinal
<1>1. TypeInv /\ AnswersInv => ConflictsAreFinal
  BY DEF TypeInv, TypeOK, Places, Finished, AnswersInv, RequestInv,
         AnswerIsDue, Granted, ConflictsAreFinal
<1> QED
  BY <1>1, TypeInvariance, AnswersInvariance, PTL

-----------------------------------------------------------------------------
(* How a request comes to be granted and committed.                        *)

\* Which step commits, and that a commit moves one request only.
LEMMA CommitMoves ==
    ASSUME TypeInv, NEW r \in Requests, Commit(r)
    PROVE  /\ pc[r] = "closing" /\ pc'[r] = "committed"
           /\ req' = req /\ resp' = resp /\ entry_seq' = entry_seq
           /\ \A q \in Requests \ {r} : pc'[q] = pc[q]
BY DEF Commit, Close, TypeInv, TypeOK

\* Every other step leaves the tables, and who committed, as they are.
LEMMA OnlyCommitsCommit ==
    ASSUME TypeInv, [Next]_vars, \A r \in Requests : ~Commit(r)
    PROVE  /\ users' = users /\ vault_entries' = vault_entries
           /\ \A q \in Requests : pc'[q] = "committed" <=> pc[q] = "committed"
<1>1. ASSUME NEW r \in Requests, RequestStep(r)
      PROVE  /\ users' = users /\ vault_entries' = vault_entries
             /\ pc[r] # "committed" /\ pc'[r] # "committed"
  <2> USE DEF TypeInv, TypeOK, Handling
  <2>1. CASE ClientStep(r)
    BY <2>1 DEF ClientStep, Submit, db
  <2>2. CASE AwaitsNext(r)
    BY <2>2 DEF AwaitsNext, Await, db
  <2>3. CASE Raises(r)
    BY <2>3 DEF Raises, Raise, db
  <2>4. CASE Returns(r)
    BY <2>4 DEF Returns, Return, db
  <2>5. CASE CommitFails(r)
    BY <2>5 DEF CommitFails, Close, db
  <2> QED
    BY <1>1, <2>1, <2>2, <2>3, <2>4, <2>5, HowHandlersGoOn DEF RequestStep
<1>2. CASE Crash
  BY <1>2 DEF Crash, Handling, db
<1>3. CASE Tick \/ UNCHANGED vars
  BY <1>3 DEF Tick, vars, db
<1> QED
  BY <1>1, <1>2, <1>3, OthersUnmoved DEF Next, BackendStep, RequestStep, Unmoved

\* A grant is for good: what was asked and answered stays.
LEMMA GrantsStay ==
    ASSUME TypeInv, [Next]_vars, NEW q \in Requests, Granted(q)
    PROVE  Granted(q)' /\ req'[q] = req[q] /\ resp'[q] = resp[q]
<1> USE DEF Granted
<1>1. CASE RequestStep(q)
  <2>1. Commit(q) \/ CommitFails(q)
    BY <1>1, HowHandlersGoOn
    DEF RequestStep, ClientStep, Submit, AwaitsNext, Raises, Returns, Handling
  <2> QED
    BY <2>1 DEF Commit, CommitFails, Close, TypeInv, TypeOK
<1>2. ASSUME NEW r \in Requests, r # q, RequestStep(r)
      PROVE  Granted(q)' /\ req'[q] = req[q] /\ resp'[q] = resp[q]
  BY <1>2, OthersUnmoved DEF Unmoved
<1>3. CASE Crash \/ Tick \/ UNCHANGED vars
  BY <1>3 DEF Crash, Tick, vars, Handling
<1> QED
  BY <1>1, <1>2, <1>3 DEF Next, BackendStep, RequestStep

\* How a vault request comes to be granted.
LEMMA NewGrant ==
    ASSUME TypeInv, [Next]_vars, NEW q \in Requests, ~Granted(q), Granted(q)'
    PROVE  /\ RequestStep(q) /\ req' = req /\ users' = users
           /\ vault_entries' = vault_entries
           /\ req[q].op = "register" => Named(req[q].username) = {}
           /\ req[q].op \in {"kdf_params", "login"} => resp'[q].status = 200
           /\ req[q].op \in VaultOps => pc[q] = "have_user"
           /\ req[q].op = "create" =>
                  resp'[q].id = entry_seq /\ entry_seq' = entry_seq + 1
           /\ req[q].op = "list" => resp'[q].entries = EntriesOf(row[q].id)
           /\ req[q].op = "delete" => Deletable(q) # {}
<1>1. RequestStep(q)
  <2>1. ASSUME NEW r \in Requests, RequestStep(r) PROVE r = q
    BY <2>1, OthersUnmoved DEF Unmoved, Granted
  <2>2. ~Crash
    BY DEF Crash, Granted, Handling
  <2>3. ~(Tick \/ UNCHANGED vars)
    BY DEF Tick, vars, Granted
  <2> QED
    BY <2>1, <2>2, <2>3 DEF Next, BackendStep, RequestStep
<1>2. \/ RegisterFlush(q) \/ KdfParamsFound(q) \/ LoginAccept(q)
      \/ CreateFlush(q) \/ ListSelect(q) \/ DeleteSelect(q)
  <2> USE DEF Granted, TypeInv, TypeOK
  <2>1. ~ClientStep(q)
    BY DEF ClientStep, Submit
  <2>2. ~ \E status : Raise(q, status)
    BY DEF Raise
  <2>3. ~ \E place \in {"hashing", "verifying", "authorized", "have_user"} :
              \E user : Await(q, place, user)
    BY DEF Await
  <2>4. pc[q] # "closing"
    OBVIOUS
  <2> HIDE DEF Granted, TypeInv, TypeOK
  <2> QED
    BY <1>1, <2>1, <2>2, <2>3, <2>4
    DEF RequestStep, ServerStep, RegisterConflict, RegisterCheck,
        RegisterIntegrityError, KdfParamsUnknown, LoginUnknown, LoginLookup,
        LoginReject, RejectToken, AcceptToken, GetUserOr404, DeleteMissing,
        Commit, CommitFails, StatementFails
<1>3. req' = req /\ users' = users /\ vault_entries' = vault_entries
  BY <1>2 DEF RegisterFlush, KdfParamsFound, LoginAccept, CreateFlush,
              ListSelect, DeleteSelect, Return, db
<1>4. req[q].op \in VaultOps =>
          CreateFlush(q) \/ ListSelect(q) \/ DeleteSelect(q)
  BY <1>2 DEF RegisterFlush, KdfParamsFound, LoginAccept, At, VaultOps
<1>5. ASSUME CreateFlush(q)
      PROVE  /\ req[q].op = "create" /\ pc[q] = "have_user"
             /\ resp'[q].id = entry_seq /\ entry_seq' = entry_seq + 1
  <2> DEFINE entry == [id |-> entry_seq, user_id |-> row[q].id,
                       blob |-> req[q].blob]
             writes == [EmptySession EXCEPT !.entries = {entry}]
  <2>1. Return(q, [status |-> 201, id |-> entry_seq], writes)
    BY <1>5 DEF CreateFlush
  <2> HIDE DEF writes
  <2> QED
    BY <1>5, <2>1 DEF CreateFlush, Return, At, TypeInv, TypeOK
<1>6. ASSUME ListSelect(q)
      PROVE  /\ req[q].op = "list" /\ pc[q] = "have_user"
             /\ resp'[q].entries = EntriesOf(row[q].id)
  BY <1>6 DEF ListSelect, Return, At, TypeInv, TypeOK
<1>7. ASSUME DeleteSelect(q)
      PROVE  req[q].op = "delete" /\ pc[q] = "have_user" /\ Deletable(q) # {}
  BY <1>7 DEF DeleteSelect, At
<1>8. req[q].op = "register" => Named(req[q].username) = {}
  BY <1>2 DEF RegisterFlush, KdfParamsFound, LoginAccept, CreateFlush,
              ListSelect, DeleteSelect, At
<1>9. ASSUME req[q].op \in {"kdf_params", "login"} PROVE resp'[q].status = 200
  <2>1. KdfParamsFound(q) \/ LoginAccept(q)
    BY <1>2, <1>9 DEF RegisterFlush, CreateFlush, ListSelect, DeleteSelect, At
  <2> QED
    BY <2>1 DEF KdfParamsFound, LoginAccept, Return, TypeInv, TypeOK
<1> QED
  BY <1>1, <1>3, <1>4, <1>5, <1>6, <1>7, <1>8, <1>9 DEF VaultOps

-----------------------------------------------------------------------------
(* Table users.                                                            *)

\* A commit adds the row its registration asked for and no other.
LEMMA CommitUsers ==
    ASSUME TypeInv, AnswersInv, NEW r \in Requests, Commit(r)
    PROVE  users' = users \cup
               (IF req[r].op = "register" THEN {AccountOf(r)} ELSE {})
<1>1. session[r] = Owed(r)
  BY DEF Commit, AnswersInv, RequestInv, SessionIsOwed
<1> QED
  BY <1>1 DEF Commit, Owed

LEMMA NextUsers ==
    TypeInv /\ AnswersInv /\ UsersAreTheRegistered /\ [Next]_vars
        => UsersAreTheRegistered'
<1> SUFFICES ASSUME TypeInv, AnswersInv, UsersAreTheRegistered, [Next]_vars
             PROVE  UsersAreTheRegistered'
  OBVIOUS
<1> DEFINE Rows == {AccountOf(q) : q \in Committed("register")}
<1>1. ASSUME NEW q \in Requests, Granted(q)
      PROVE  AccountOf(q)' = AccountOf(q) /\ req'[q] = req[q]
  BY <1>1, GrantsStay DEF AccountOf
<1>2. CASE \E r \in Requests : Commit(r)
  <2>1. PICK r \in Requests : Commit(r)
    BY <1>2
  <2>2. Committed("register")' =
            Committed("register") \cup (IF req[r].op = "register" THEN {r} ELSE {})
    BY <2>1, CommitMoves DEF Committed
  <2>3. \A q \in Committed("register") \cup {r} : AccountOf(q)' = AccountOf(q)
    BY <1>1, <2>1 DEF Commit, Committed, Granted
  <2>4. Rows' = Rows \cup (IF req[r].op = "register" THEN {AccountOf(r)} ELSE {})
    BY <2>2, <2>3
  <2> QED
    BY <2>1, <2>4, CommitUsers DEF UsersAreTheRegistered
<1>3. CASE \A r \in Requests : ~Commit(r)
  <2>1. Committed("register")' = Committed("register")
    BY <1>1, <1>3, OnlyCommitsCommit DEF Committed, Granted
  <2>2. Rows' = Rows
    BY <1>1, <2>1 DEF Committed, Granted
  <2> QED
    BY <1>3, <2>2, OnlyCommitsCommit DEF UsersAreTheRegistered
<1> QED
  BY <1>2, <1>3

\* Table users is the accounts found at start-up and those of the committed
\* registrations, each with the key and parameters of its own request.
THEOREM UsersAreRegistered == Spec => []UsersAreTheRegistered
<1>1. Init => UsersAreTheRegistered
  BY DEF Init, UsersAreTheRegistered, Committed
<1> QED
  BY <1>1, NextUsers, TypeInvariance, AnswersInvariance, PTL DEF Spec

-----------------------------------------------------------------------------
(* Table vault_entries.                                                    *)

Creates(r) == Granted(r) /\ req[r].op = "create"

\* An id promised to a create was drawn for it: it is above those found at
\* start-up and no other create has it.
EntryIdsDrawn ==
    /\ SeedEntrySeq <= entry_seq
    /\ \A r \in Requests : Creates(r) =>
           /\ resp[r].id \in Nat
           /\ SeedEntrySeq <= resp[r].id
           /\ resp[r].id < entry_seq
    /\ \A r, q \in Requests :
           Creates(r) /\ Creates(q) /\ resp[r].id = resp[q].id => r = q

\* A list holds, and a delete names, entries that were stored for the caller.
GrantIsOfStored(r) ==
    Granted(r) =>
        /\ req[r].op = "list" =>
               \A e \in resp[r].entries : e \in EverStored /\ e.user_id \in Caller(r)
        /\ req[r].op = "delete" =>
               \E e \in EverStored :
                   e.id = req[r].entry_id /\ e.user_id \in Caller(r)

EntriesInv ==
    /\ EntryIdsDrawn
    /\ EntriesAreTheStored
    /\ \A r \in Requests : GrantIsOfStored(r)

LEMMA InitEntries == Init => EntriesInv
<1> SUFFICES ASSUME Init PROVE EntriesInv
  OBVIOUS
<1>1. \A op : Committed(op) = {}
  BY DEF Init, Committed
<1>2. EntriesAreTheStored
  BY <1>1 DEF Init, EntriesAreTheStored, EverStored
<1>3. EntryIdsDrawn /\ \A r \in Requests : GrantIsOfStored(r)
  BY SeedAssumption DEF Init, EntryIdsDrawn, Creates, Granted, GrantIsOfStored
<1> QED
  BY <1>2, <1>3 DEF EntriesInv

\* The ids of all entries that ever were.
LEMMA StoredIds ==
    ASSUME TypeInv, EntryIdsDrawn
    PROVE  /\ \A r \in Requests : EntryOf(r).id = resp[r].id
           /\ \A d, e \in EverStored : d.id = e.id => d = e
           /\ \A r \in Requests : Creates(r) /\ pc[r] # "committed" =>
                  \A e \in EverStored : e.id # resp[r].id
<1>1. \A r \in Requests : EntryOf(r).id = resp[r].id
  BY DEF EntryOf
<1>2. \A e \in EverStored :
          \/ e \in SeedEntries /\ e.id \in Nat /\ e.id < SeedEntrySeq
          \/ \E r \in Committed("create") :
                 e = EntryOf(r) /\ e.id = resp[r].id /\ Creates(r)
  BY <1>1, SeedAssumption
  DEF EverStored, Committed, Creates, Granted, VaultEntry
<1>3. \A r \in Requests : Creates(r) =>
          /\ resp[r].id \in Nat /\ SeedEntrySeq \in Nat
          /\ ~(resp[r].id < SeedEntrySeq)
  BY SeedAssumption DEF EntryIdsDrawn
<1>4. ASSUME NEW d \in EverStored, NEW e \in EverStored, d.id = e.id
      PROVE  d = e
  <2>1. CASE d \in SeedEntries /\ d.id < SeedEntrySeq
    BY <1>2, <1>3, <1>4, <2>1, SeedAssumption DEF Committed
  <2>2. CASE \E r \in Committed("create") :
                 d = EntryOf(r) /\ d.id = resp[r].id /\ Creates(r)
    BY <1>2, <1>3, <1>4, <2>2 DEF Committed, EntryIdsDrawn
  <2> QED
    BY <1>2, <2>1, <2>2
<1>5. ASSUME NEW r \in Requests, Creates(r), pc[r] # "committed",
             NEW e \in EverStored
      PROVE  e.id # resp[r].id
  BY <1>2, <1>3, <1>5 DEF Committed, EntryIdsDrawn
<1> QED
  BY <1>1, <1>4, <1>5

LEMMA NextEntryIds ==
    ASSUME TypeInv, EntryIdsDrawn, [Next]_vars
    PROVE  EntryIdsDrawn'
<1>1. entry_seq \in Nat /\ entry_seq' \in {entry_seq, entry_seq + 1}
  BY StepsGrow DEF TypeInv, TypeOK, Grows
<1>2. ASSUME NEW r \in Requests, Creates(r)' PROVE
        \/ Creates(r) /\ resp'[r] = resp[r]
        \/ ~Granted(r) /\ resp'[r].id = entry_seq /\ entry_seq' = entry_seq + 1
  BY <1>2, GrantsStay, NewGrant DEF Creates, VaultOps
<1>3. ASSUME NEW r \in Requests, NEW q \in Requests, r # q, ~Granted(r),
             Granted(r)', Granted(q)'
      PROVE  Granted(q)
  BY <1>3, NewGrant, OthersUnmoved DEF Unmoved, Granted
<1>4. SeedEntrySeq \in Nat /\ SeedEntrySeq <= entry_seq'
  BY <1>1, SeedAssumption DEF EntryIdsDrawn
<1>5. ASSUME NEW r \in Requests, Creates(r)'
      PROVE  /\ resp'[r].id \in Nat
             /\ SeedEntrySeq <= resp'[r].id
             /\ resp'[r].id < entry_seq'
  <2>1. CASE Creates(r) /\ resp'[r] = resp[r]
    BY <1>1, <2>1 DEF EntryIdsDrawn
  <2>2. CASE resp'[r].id = entry_seq /\ entry_seq' = entry_seq + 1
    BY <1>1, <2>2 DEF EntryIdsDrawn
  <2> QED
    BY <1>2, <1>5, <2>1, <2>2
<1>6. ASSUME NEW r \in Requests, NEW q \in Requests, Creates(r)', Creates(q)',
             resp'[r].id = resp'[q].id
      PROVE  r = q
  <2>1. ASSUME NEW a \in Requests, NEW b \in Requests, a # b,
               Creates(a), resp'[a] = resp[a], ~Granted(b),
               resp'[b].id = entry_seq
        PROVE  resp'[a].id # resp'[b].id
    <3>1. resp[a].id \in Nat /\ resp[a].id < entry_seq
      BY <2>1 DEF EntryIdsDrawn
    <3> QED
      BY <1>1, <2>1, <3>1
  <2> QED
    BY <1>2, <1>3, <1>6, <2>1 DEF EntryIdsDrawn, Creates
<1> QED
  BY <1>4, <1>5, <1>6 DEF EntryIdsDrawn

\* An entry once stored counts as stored for ever, under the same owner.
LEMMA GrantedCaller ==
    ASSUME TypeInv, AnswersInv, UniqueAccounts', [Next]_vars,
           NEW r \in Requests, Granted(r), req[r].op \in VaultOps
    PROVE  Caller(r)' = Caller(r) /\ EntryOf(r)' = EntryOf(r)
<1>1. req'[r] = req[r] /\ resp'[r] = resp[r]
  BY GrantsStay
<1>2. Caller(r)' = Caller(r)
  BY <1>1, StepsGrow, CallerIsForGood DEF AnswersInv, RequestInv, GrantIsTrue
<1> QED
  BY <1>1, <1>2 DEF EntryOf

\* Only the commit of a create adds to the entries that ever were.
LEMMA NextEverStored ==
    ASSUME TypeInv, AnswersInv, UniqueAccounts', [Next]_vars
    PROVE  /\ \A r \in Requests : Commit(r) =>
                  EverStored' = EverStored \cup
                      (IF req[r].op = "create" THEN {EntryOf(r)} ELSE {})
           /\ (\A r \in Requests : ~Commit(r)) => EverStored' = EverStored
           /\ EverStored \subseteq EverStored'
<1> DEFINE Rows == {EntryOf(q) : q \in Committed("create")}
<1>1. \A q \in Requests : Granted(q) /\ req[q].op = "create" =>
          EntryOf(q)' = EntryOf(q) /\ req'[q] = req[q]
  BY GrantedCaller, GrantsStay DEF VaultOps
<1>2. ASSUME NEW r \in Requests, Commit(r)
      PROVE  Rows' = Rows \cup (IF req[r].op = "create" THEN {EntryOf(r)} ELSE {})
  <2>1. Committed("create")' =
            Committed("create") \cup (IF req[r].op = "create" THEN {r} ELSE {})
    BY <1>2, CommitMoves DEF Committed
  <2>2. \A q \in Committed("create")' : EntryOf(q)' = EntryOf(q)
    BY <1>1, <1>2, <2>1 DEF Commit, Committed, Granted
  <2> QED
    BY <2>1, <2>2
<1>3. ASSUME \A r \in Requests : ~Commit(r) PROVE Rows' = Rows
  <2>1. Committed("create")' = Committed("create")
    <3>1. \A q \in Requests : pc[q] = "committed" => req'[q] = req[q]
      BY GrantsStay DEF Granted
    <3> QED
      BY <1>3, <3>1, OnlyCommitsCommit DEF Committed
  <2> QED
    BY <1>1, <2>1 DEF Committed, Granted
<1> HIDE DEF Rows
<1>4. EverStored = SeedEntries \cup Rows /\ EverStored' = SeedEntries \cup Rows'
  BY DEF EverStored, Rows
<1> QED
  BY <1>2, <1>3, <1>4

LEMMA NextGrants ==
    ASSUME TypeInv, AnswersInv, UniqueAccounts, UniqueAccounts', EntriesInv,
           [Next]_vars, NEW r \in Requests
    PROVE  GrantIsOfStored(r)'
<1>1. EverStored \subseteq EverStored'
  BY NextEverStored
<1>2. CASE Granted(r)
  <2>1. req'[r] = req[r] /\ resp'[r] = resp[r]
    BY <1>2, GrantsStay
  <2>2. req[r].op \in VaultOps => Caller(r)' = Caller(r)
    BY <1>2, GrantedCaller
  <2> QED
    BY <1>1, <1>2, <2>1, <2>2 DEF EntriesInv, GrantIsOfStored, VaultOps
<1>3. CASE ~Granted(r) /\ Granted(r)' /\ req[r].op \in VaultOps
  <2>1. /\ req' = req /\ users' = users /\ pc[r] = "have_user"
        /\ req[r].op = "list" => resp'[r].entries = EntriesOf(row[r].id)
        /\ req[r].op = "delete" => Deletable(r) # {}
    BY <1>3, NewGrant
  <2>2. Caller(r) = {row[r].id} /\ Caller(r)' = Caller(r)
    BY <2>1, CallerOfRow DEF AnswersInv, RequestInv, Caller, Named
  <2>3. vault_entries \subseteq EverStored
    BY DEF EntriesInv, EntriesAreTheStored
  <2> QED
    BY <1>1, <2>1, <2>2, <2>3 DEF GrantIsOfStored, EntriesOf, Deletable
<1>4. CASE ~Granted(r) /\ Granted(r)' /\ req[r].op \notin VaultOps
  BY <1>4, NewGrant DEF GrantIsOfStored, VaultOps
<1> QED
  BY <1>2, <1>3, <1>4 DEF GrantIsOfStored

\* A commit writes the entry its create asked for, or removes the one its
\* delete named.
LEMMA CommitEntries ==
    ASSUME TypeInv, AnswersInv, NEW r \in Requests, Commit(r)
    PROVE  vault_entries' =
               {e \in vault_entries \cup
                          (IF req[r].op = "create" THEN {EntryOf(r)} ELSE {}) :
                    ~(req[r].op = "delete" /\ e.id = req[r].entry_id)}
<1>1. session[r] = Owed(r)
  BY DEF Commit, AnswersInv, RequestInv, SessionIsOwed
<1>2. vault_entries' = {e \in vault_entries \cup session[r].entries :
                            e.id \notin session[r].deleted}
  BY DEF Commit
<1>3. /\ session[r].entries = IF req[r].op = "create" THEN {EntryOf(r)} ELSE {}
      /\ session[r].deleted = IF req[r].op = "delete"
                              THEN {req[r].entry_id} ELSE {}
  BY <1>1 DEF Owed
<1> QED
  BY <1>2, <1>3

LEMMA NextStored ==
    ASSUME TypeInv, AnswersInv, UniqueAccounts', EntriesInv, [Next]_vars
    PROVE  EntriesAreTheStored'
<1> DEFINE Removed(id) == \E d \in Committed("delete") : req[d].entry_id = id
<1>1. vault_entries = {e \in EverStored : ~Removed(e.id)}
  BY DEF EntriesInv, EntriesAreTheStored
<1>2. SUFFICES vault_entries' = {e \in EverStored' :
                  ~ \E d \in Committed("delete")' : req'[d].entry_id = e.id}
  BY DEF EntriesAreTheStored
<1>3. CASE \A r \in Requests : ~Commit(r)
  <2>1. vault_entries' = vault_entries /\ EverStored' = EverStored
    BY <1>3, OnlyCommitsCommit, NextEverStored
  <2>2. \A d \in Requests : pc[d] = "committed" => req'[d] = req[d]
    BY GrantsStay DEF Granted
  <2>3. Committed("delete")' = Committed("delete")
    BY <1>3, <2>2, OnlyCommitsCommit DEF Committed
  <2> QED
    BY <1>1, <2>1, <2>2, <2>3 DEF Committed
<1>4. ASSUME NEW r \in Requests, Commit(r)
      PROVE  vault_entries' = {e \in EverStored' :
                  ~ \E d \in Committed("delete")' : req'[d].entry_id = e.id}
  <2>1. /\ req' = req
        /\ Committed("delete")' = Committed("delete") \cup
               (IF req[r].op = "delete" THEN {r} ELSE {})
    BY <1>4, CommitMoves DEF Committed
  <2>2. EverStored' = EverStored \cup
            (IF req[r].op = "create" THEN {EntryOf(r)} ELSE {})
    BY <1>4, NextEverStored
  <2>3. CASE req[r].op = "create"
    \* Nobody deleted an entry that was not there yet.
    <3>1. ~Removed(EntryOf(r).id)
      <4>1. \A e \in EverStored : e.id # EntryOf(r).id
        BY <1>4, <2>3, StoredIds DEF Commit, Creates, Granted, EntriesInv
      <4> QED
        BY <4>1 DEF EntriesInv, GrantIsOfStored, Committed, Granted
    <3>2. vault_entries' = vault_entries \cup {EntryOf(r)}
      BY <1>4, <2>3, CommitEntries
    <3> QED
      BY <1>1, <2>1, <2>2, <2>3, <3>1, <3>2
  <2>4. CASE req[r].op = "delete"
    <3>1. vault_entries' = {e \in vault_entries : e.id # req[r].entry_id}
      BY <1>4, <2>4, CommitEntries
    <3> QED
      BY <1>1, <2>1, <2>2, <2>4, <3>1
  <2>5. CASE req[r].op \notin {"create", "delete"}
    <3>1. vault_entries' = vault_entries
      BY <1>4, <2>5, CommitEntries
    <3> QED
      BY <1>1, <2>1, <2>2, <2>5, <3>1
  <2> QED
    BY <2>3, <2>4, <2>5
<1> QED
  BY <1>3, <1>4

LEMMA EntriesInvariance == Spec => []EntriesInv
<1>1. AccountsInv => UniqueAccounts
  BY DEF AccountsInv
<1>2. TypeInv /\ AnswersInv /\ UniqueAccounts /\ UniqueAccounts' /\ EntriesInv
          /\ [Next]_vars => EntriesInv'
  BY NextEntryIds, NextGrants, NextStored DEF EntriesInv
<1> QED
  BY <1>1, <1>2, InitEntries, TypeInvariance, AccountsInvariance,
     AnswersInvariance, PTL DEF Spec

\* Table vault_entries is the committed creates less what committed deletes
\* named: no entry comes back under an id that was deleted.
THEOREM EntriesAreStored == Spec => []EntriesAreTheStored
<1>1. EntriesInv => EntriesAreTheStored
  BY DEF EntriesInv
<1> QED
  BY <1>1, EntriesInvariance, PTL

\* A list holds the caller's own entries, and committed ones only.
THEOREM ListsAreCommitted == Spec => []ListsAreOwnAndCommitted
<1>1. TypeInv /\ AnswersInv /\ EntriesInv => ListsAreOwnAndCommitted
  BY SucceededIsGranted
  DEF EntriesInv, GrantIsOfStored, ListsAreOwnAndCommitted
<1> QED
  BY <1>1, TypeInvariance, AnswersInvariance, EntriesInvariance, PTL

\* An entry leaves the table only in the commit of a delete of its owner's.
THEOREM OwnersDelete == Spec => OnlyOwnersDelete
<1> DEFINE Allowed ==
        \A e \in vault_entries \ vault_entries' :
            \E r \in Requests :
                /\ pc[r] = "closing" /\ pc'[r] = "committed"
                /\ req[r].op = "delete"
                /\ req[r].entry_id = e.id
                /\ e.user_id \in Caller(r)
<1>1. ASSUME TypeInv, AnswersInv, EntriesInv, [Next]_vars PROVE Allowed
  <2>1. CASE \A r \in Requests : ~Commit(r)
    BY <1>1, <2>1, OnlyCommitsCommit
  <2>2. ASSUME NEW r \in Requests, Commit(r),
               NEW e \in vault_entries \ vault_entries'
        PROVE  /\ pc[r] = "closing" /\ pc'[r] = "committed"
               /\ req[r].op = "delete"
               /\ req[r].entry_id = e.id
               /\ e.user_id \in Caller(r)
    <3>1. pc[r] = "closing" /\ pc'[r] = "committed"
      BY <1>1, <2>2, CommitMoves
    <3>2. req[r].op = "delete" /\ req[r].entry_id = e.id
      BY <1>1, <2>2, CommitEntries
    <3>3. PICK d \in EverStored :
              d.id = req[r].entry_id /\ d.user_id \in Caller(r)
      BY <1>1, <3>1, <3>2 DEF EntriesInv, GrantIsOfStored, Granted
    <3>4. e \in EverStored
      BY <1>1, <2>2 DEF EntriesInv, EntriesAreTheStored
    <3>5. d = e
      BY <1>1, <3>2, <3>3, <3>4, StoredIds DEF EntriesInv
    <3> QED
      BY <3>1, <3>2, <3>3, <3>5
  <2> QED
    BY <2>1, <2>2
<1>2. TypeInv /\ AnswersInv /\ EntriesInv /\ [Next]_vars => [Allowed]_vars
  BY <1>1
<1> QED
  BY <1>2, TypeInvariance, AnswersInvariance, EntriesInvariance, PTL
  DEF Spec, OnlyOwnersDelete

=============================================================================
