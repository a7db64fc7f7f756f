-------------------------- MODULE ZeroVaultApiProofs --------------------------
(***************************************************************************)
(* Theorems about ZeroVaultApi, for any set of requests, names, keys,      *)
(* faults and any database to start on.                                    *)
(***************************************************************************)
EXTENDS ZeroVaultApi, TLAPS

Payload == Payloads(Token \cup {None}, Nat)

-----------------------------------------------------------------------------
(* Types.                                                                  *)

\* A request that was made has a payload, and a handler that goes on with a
\* row has one.
LocalsOK ==
    \A r \in Requests :
        /\ pc[r] # "idle" => req[r] \in Payload
        /\ pc[r] \in {"verifying", "have_user"} => row[r] \in User

TypeInv == TypeOK /\ LocalsOK

\* Which fields a payload has, by the endpoint it is for.
LEMMA PayloadFields ==
    ASSUME NEW p \in Payload
    PROVE  /\ p.op \in AllOps
           /\ p.op \in {"register", "kdf_params", "login"} =>
                  p.username \in Usernames
           /\ p.op \in {"register", "login"} => p.auth_key \in AuthKeys
           /\ p.op = "register" => p.kdf \in KdfParams
           /\ p.op \in VaultOps => p.token \in Token \cup {None}
           /\ p.op = "create" => p.blob \in Blobs
           /\ p.op = "delete" => p.entry_id \in Nat
BY DEF Payload, Payloads, AllOps, VaultOps

\* What a client may send is a payload.
LEMMA InputsArePayloads ==
    ASSUME tokens \subseteq Token, entry_seq \in Nat,
           NEW p \in Payloads(tokens \cup {None}, 0 .. entry_seq)
    PROVE  p \in Payload
BY DEF Payload, Payloads

LEMMA EmptySessionType == EmptySession \in Session
BY DEF EmptySession, Session

\* Await keeps the types when it leaves a place its row.
LEMMA AwaitType ==
    ASSUME TypeInv, NEW r \in Requests, pc[r] # "idle",
           NEW place \in {"hashing", "verifying", "authorized", "have_user"},
           NEW user \in User \cup {None},
           place \in {"verifying", "have_user"} => user \in User,
           Await(r, place, user)
    PROVE  TypeInv'
BY DEF TypeInv, TypeOK, LocalsOK, Await, Places, Handling, db, User, Payload

\* Return keeps the types when it is given a response and a session.
LEMMA ReturnType ==
    ASSUME TypeInv, NEW r \in Requests, pc[r] # "idle",
           NEW response \in Response, NEW writes \in Session,
           Return(r, response, writes),
           user_seq' \in Nat, entry_seq' \in Nat, tokens' \subseteq Token
    PROVE  TypeInv'
BY DEF TypeInv, TypeOK, LocalsOK, Return, Places, Handling, db

\* So does Raise.
LEMMA RaiseType ==
    ASSUME TypeInv, NEW r \in Requests, pc[r] # "idle",
           NEW status \in {401, 404, 409, 500},
           Raise(r, status), user_seq' \in Nat
    PROVE  TypeInv'
<1> DEFINE response == [status |-> status]
<1>1. response \in Response
  BY DEF Response
<1> HIDE DEF response
<1>2. resp' = [resp EXCEPT ![r] = response]
  BY DEF Raise, response
<1>3. resp' \in [Requests -> Response \cup {None}]
  BY <1>1, <1>2 DEF TypeInv, TypeOK
<1>4. session' \in [Requests -> Session]
  BY EmptySessionType DEF TypeInv, TypeOK, Raise
<1>5. row' \in [Requests -> User \cup {None}] /\ pc' \in [Requests -> Places]
  BY DEF TypeInv, TypeOK, Raise, Places, Finished
<1>6. LocalsOK'
  BY DEF TypeInv, TypeOK, LocalsOK, Raise
<1> QED
  BY <1>3, <1>4, <1>5, <1>6 DEF TypeInv, TypeOK, Raise, db

LEMMA CloseType ==
    ASSUME TypeInv, NEW r \in Requests, pc[r] # "idle",
           NEW place \in {"committed", "commit_failed"},
           Close(r, place),
           users' \subseteq User, vault_entries' \subseteq VaultEntry
    PROVE  TypeInv'
BY EmptySessionType
DEF TypeInv, TypeOK, LocalsOK, Close, Places, Finished

\* What At says of a payload.
LEMMA AtPayload ==
    ASSUME TypeInv, NEW r \in Requests, pc[r] # "idle"
    PROVE  req[r] \in Payload
BY DEF TypeInv, LocalsOK

LEMMA InitType == Init => TypeInv
<1> SUFFICES ASSUME Init PROVE TypeInv
  OBVIOUS
<1>1. TypeOK
  BY SeedAssumption, EmptySessionType DEF Init, TypeOK, Places
<1> QED
  BY <1>1 DEF Init, TypeInv, LocalsOK

\* Each of the process's own steps keeps the types.
LEMMA ServerStepType ==
    ASSUME TypeInv, NEW r \in Requests, ServerStep(r)
    PROVE  TypeInv'
<1> USE DEF At
<1> DEFINE p == req[r]
<1>0. /\ user_seq \in Nat /\ user_seq + 1 \in Nat
      /\ entry_seq \in Nat /\ entry_seq + 1 \in Nat
      /\ tokens \subseteq Token /\ now \in Nat
      /\ users \subseteq User /\ vault_entries \subseteq VaultEntry
      /\ session[r] \in Session
      /\ "register" \notin VaultOps /\ "login" \notin VaultOps
  BY DEF TypeInv, TypeOK, VaultOps
<1>1. CASE RegisterConflict(r)
  BY <1>0, <1>1, RaiseType DEF RegisterConflict
<1>2. CASE RegisterCheck(r)
  BY <1>2, AwaitType DEF RegisterCheck
<1>3. CASE RegisterFlush(r)
  <2> DEFINE user == [id |-> user_seq, username |-> req[r].username,
                      auth_key_hash |-> hash_auth_key(req[r].auth_key),
                      kdf |-> req[r].kdf]
             response == [status |-> 201, user_id |-> user.id]
             writes == [EmptySession EXCEPT !.users = {user}]
  <2>1. user \in User
    BY <1>0, <1>3, AtPayload, PayloadFields
    DEF RegisterFlush, User, hash_auth_key
  <2>2. response \in Response
    BY <1>0 DEF Response
  <2>3. writes \in Session
    BY <2>1 DEF Session, EmptySession
  <2>4. Return(r, response, writes)
    BY <1>3 DEF RegisterFlush
  <2> HIDE DEF user, response, writes
  <2> QED
    BY <1>0, <1>3, <2>2, <2>3, <2>4, ReturnType DEF RegisterFlush
<1>4. CASE RegisterIntegrityError(r)
  BY <1>0, <1>4, RaiseType DEF RegisterIntegrityError
<1>5. CASE KdfParamsUnknown(r)
  BY <1>0, <1>5, RaiseType DEF KdfParamsUnknown
<1>6. CASE KdfParamsFound(r)
  <2>1. PICK user \in Named(req[r].username) :
            Return(r, [status |-> 200, kdf |-> user.kdf], EmptySession)
    BY <1>6 DEF KdfParamsFound
  <2>2. user.kdf \in KdfParams
    BY <1>0 DEF Named, User
  <2>3. [status |-> 200, kdf |-> user.kdf] \in Response
    BY <2>2 DEF Response
  <2> QED
    BY <1>0, <1>6, <2>1, <2>3, EmptySessionType, ReturnType DEF KdfParamsFound
<1>7. CASE LoginUnknown(r)
  BY <1>0, <1>7, RaiseType DEF LoginUnknown
<1>8. CASE LoginLookup(r)
  <2>1. PICK user \in Named(req[r].username) : Await(r, "verifying", user)
    BY <1>8 DEF LoginLookup
  <2>2. user \in User
    BY <1>0 DEF Named
  <2> QED
    BY <1>8, <2>1, <2>2, AwaitType DEF LoginLookup
<1>9. CASE LoginReject(r)
  BY <1>0, <1>9, RaiseType DEF LoginReject
<1>10. CASE LoginAccept(r)
  <2> DEFINE token == create_access_token(row[r].username)
             response == [status |-> 200, access_token |-> token]
  <2>1. token \in Token
    BY <1>0, <1>10, ConstantsAssumption
    DEF LoginAccept, create_access_token, Token, TypeInv, LocalsOK, User
  <2>2. response \in Response
    BY <2>1 DEF Response
  <2>3. Return(r, response, EmptySession) /\ tokens' = tokens \cup {token}
    BY <1>10 DEF LoginAccept
  <2> HIDE DEF token, response
  <2> QED
    BY <1>0, <1>10, <2>1, <2>2, <2>3, EmptySessionType, ReturnType
    DEF LoginAccept
<1>11. CASE RejectToken(r)
  BY <1>0, <1>11, RaiseType DEF RejectToken
<1>12. CASE AcceptToken(r)
  BY <1>12, AwaitType DEF AcceptToken
<1>13. CASE GetUserOr404(r)
  <2> DEFINE found == Named(req[r].token.sub)
  <2>1. CASE found = {}
    BY <1>0, <1>13, <2>1, RaiseType DEF GetUserOr404
  <2>2. CASE found # {}
    <3>1. PICK user \in found : Await(r, "have_user", user)
      BY <1>13, <2>2 DEF GetUserOr404
    <3>2. user \in User
      BY <1>0 DEF Named
    <3> QED
      BY <1>13, <3>1, <3>2, AwaitType DEF GetUserOr404
  <2> QED
    BY <2>1, <2>2
<1>14. CASE CreateFlush(r)
  <2> DEFINE entry == [id |-> entry_seq, user_id |-> row[r].id,
                       blob |-> req[r].blob]
             response == [status |-> 201, id |-> entry.id]
             writes == [EmptySession EXCEPT !.entries = {entry}]
  <2>1. entry \in VaultEntry
    <3>1. row[r].id \in Nat
      BY <1>14 DEF CreateFlush, TypeInv, LocalsOK, User
    <3>2. req[r].blob \in Blobs
      BY <1>14, AtPayload, PayloadFields DEF CreateFlush
    <3> QED
      BY <1>0, <3>1, <3>2 DEF VaultEntry
  <2>2. response \in Response
    BY <1>0 DEF Response
  <2>3. writes \in Session
    BY <2>1 DEF Session, EmptySession
  <2>4. Return(r, response, writes)
    BY <1>14 DEF CreateFlush
  <2> HIDE DEF entry, response, writes
  <2> QED
    BY <1>0, <1>14, <2>2, <2>3, <2>4, ReturnType DEF CreateFlush
<1>15. CASE ListSelect(r)
  <2> DEFINE response == [status |-> 200, entries |-> EntriesOf(row[r].id)]
  <2>1. response \in Response
    BY <1>0 DEF Response, EntriesOf
  <2>2. Return(r, response, EmptySession)
    BY <1>15 DEF ListSelect
  <2> HIDE DEF response
  <2> QED
    BY <1>0, <1>15, <2>1, <2>2, EmptySessionType, ReturnType DEF ListSelect
<1>16. CASE DeleteMissing(r)
  BY <1>0, <1>16, RaiseType DEF DeleteMissing
<1>17. CASE DeleteSelect(r)
  <2> DEFINE response == [status |-> 200]
             writes == [EmptySession EXCEPT !.deleted =
                           {e.id : e \in Deletable(r)}]
  <2>1. response \in Response
    BY DEF Response
  <2>2. \A e \in Deletable(r) : e.id \in Nat
    BY <1>0 DEF Deletable, EntriesOf, VaultEntry
  <2>3. writes \in Session
    BY <2>2 DEF Session, EmptySession
  <2>4. Return(r, response, writes)
    BY <1>17 DEF DeleteSelect
  <2> HIDE DEF response, writes
  <2> QED
    BY <1>0, <1>17, <2>1, <2>3, <2>4, ReturnType DEF DeleteSelect
<1>18. CASE Commit(r)
  <2>1. users' \subseteq User /\ vault_entries' \subseteq VaultEntry
    BY <1>0, <1>18 DEF Commit, Session
  <2> QED
    BY <1>18, <2>1, CloseType DEF Commit
<1> QED
  BY <1>1, <1>2, <1>3, <1>4, <1>5, <1>6, <1>7, <1>8, <1>9, <1>10, <1>11,
     <1>12, <1>13, <1>14, <1>15, <1>16, <1>17, <1>18 DEF ServerStep

\* So does every step of the system.
LEMMA NextType == TypeInv /\ [Next]_vars => TypeInv'
<1> SUFFICES ASSUME TypeInv, [Next]_vars PROVE TypeInv'
  OBVIOUS
<1>1. ASSUME NEW r \in Requests, ClientStep(r) PROVE TypeInv'
  <2>1. PICK p \in Payloads(tokens \cup {None}, 0 .. entry_seq) : Submit(r, p)
    BY <1>1 DEF ClientStep
  <2>2. p \in Payload
    BY InputsArePayloads DEF TypeInv, TypeOK
  <2> QED
    BY <2>1, <2>2
    DEF Submit, TypeInv, TypeOK, LocalsOK, Payload, Places, Handling, db
<1>2. ASSUME NEW r \in Requests, ServerStep(r) PROVE TypeInv'
  BY <1>2, ServerStepType
<1>3. ASSUME NEW r \in Requests, CommitFails(r) PROVE TypeInv'
  <2>1. users' \subseteq User /\ vault_entries' \subseteq VaultEntry
    BY <1>3 DEF CommitFails, db, TypeInv, TypeOK
  <2>2. pc[r] # "idle" /\ Close(r, "commit_failed")
    BY <1>3 DEF CommitFails
  <2> QED
    BY <2>1, <2>2, CloseType
<1>4. ASSUME NEW r \in Requests, StatementFails(r) PROVE TypeInv'
  <2>1. user_seq' \in Nat
    BY <1>4 DEF StatementFails, TypeInv, TypeOK
  <2>2. pc[r] # "idle" /\ Raise(r, 500)
    BY <1>4 DEF StatementFails, Handling
  <2> QED
    BY <2>1, <2>2, RaiseType
<1>5. CASE Crash
  <2>1. pc' \in [Requests -> Places]
    BY <1>5 DEF Crash, TypeInv, TypeOK, Places, Handling, Finished
  <2>2. \A r \in Requests : pc'[r] = "idle" \/ pc[r] # "idle"
    BY <1>5 DEF Crash, Handling
  <2>3. \A r \in Requests : pc'[r] \notin {"verifying", "have_user"}
    BY <1>5 DEF Crash, Handling
  <2> QED
    <3>1. row' \in [Requests -> User \cup {None}]
      BY <1>5 DEF Crash
    <3>2. session' \in [Requests -> Session]
      BY <1>5, EmptySessionType DEF Crash
    <3>3. LocalsOK'
      BY <1>5, <2>2, <2>3 DEF Crash, TypeInv, LocalsOK, Payload
    <3> QED
      BY <1>5, <2>1, <3>1, <3>2, <3>3 DEF Crash, TypeInv, TypeOK, db
<1>6. CASE Tick
  <2>1. now' \in Nat
    BY <1>6 DEF Tick, TypeInv, TypeOK
  <2>2. LocalsOK'
    BY <1>6 DEF Tick, TypeInv, LocalsOK
  <2> QED
    BY <1>6, <2>1, <2>2 DEF Tick, TypeInv, TypeOK, db
<1>7. CASE UNCHANGED vars
  BY <1>7 DEF vars, TypeInv, TypeOK, LocalsOK
<1> QED
  BY <1>1, <1>2, <1>3, <1>4, <1>5, <1>6, <1>7 DEF Next, BackendStep

LEMMA TypeInvariance == Spec => []TypeInv
BY InitType, NextType, PTL DEF Spec

\* The variables keep their types in every run of the backend.
THEOREM TypeCorrectness == Spec => []TypeOK
<1>1. TypeInv => TypeOK
  BY DEF TypeInv
<1> QED
  BY <1>1, TypeInvariance, PTL

-----------------------------------------------------------------------------
(* Uniqueness of accounts.  It is not inductive: a commit writes a row      *)
(* whose name was checked at the INSERT, steps earlier.  What carries the   *)
(* check over to the commit is that a pending row keeps its name and id     *)
(* reserved, against the table and against every other session.             *)

\* Every id drawn is behind the sequence.
IdsDrawn ==
    /\ \A x \in users : x.id < user_seq
    /\ \A r \in Requests : \A x \in session[r].users : x.id < user_seq

Clash(x, y) == x.username = y.username \/ x.id = y.id

\* A pending row clashes with no committed one.
PendingIsFree ==
    \A r \in Requests : \A x \in session[r].users :
        \A y \in users : ~Clash(x, y)

\* Two pending rows do not clash.
PendingIsReserved ==
    \A r, q \in Requests :
        \A x \in session[r].users, y \in session[q].users :
            Clash(x, y) => r = q /\ x = y

AccountsInv == UniqueAccounts /\ IdsDrawn /\ PendingIsFree /\ PendingIsReserved

\* A step that writes no row of users and inserts none keeps it.
LEMMA AccountsFrame ==
    ASSUME TypeInv, AccountsInv,
           users' = users,
           user_seq' \in {user_seq, user_seq + 1},
           \A q \in Requests : session'[q].users \subseteq session[q].users
    PROVE  AccountsInv'
<1>1. /\ user_seq \in Nat /\ users \subseteq User
      /\ \A q \in Requests : session[q].users \subseteq User
  BY DEF TypeInv, TypeOK, Session
<1>2. \A x \in User : x.id \in Nat
  BY DEF User
<1>3. IdsDrawn'
  <2>1. \A x \in User : x.id < user_seq => x.id < user_seq'
    BY <1>1, <1>2
  <2> QED
    BY <1>1, <2>1 DEF AccountsInv, IdsDrawn
<1>4. UniqueAccounts' /\ PendingIsFree'
  BY DEF AccountsInv, UniqueAccounts, PendingIsFree, Clash
<1>5. PendingIsReserved'
  BY DEF AccountsInv, PendingIsReserved, Clash
<1> QED
  BY <1>3, <1>4, <1>5 DEF AccountsInv

LEMMA InitAccounts == Init => AccountsInv
<1> SUFFICES ASSUME Init PROVE AccountsInv
  OBVIOUS
<1>1. UniqueAccounts /\ IdsDrawn
  BY SeedAssumption
  DEF Init, UniqueAccounts, IdsDrawn, EmptySession
<1>2. PendingIsFree /\ PendingIsReserved
  BY DEF Init, PendingIsFree, PendingIsReserved, EmptySession
<1> QED
  BY <1>1, <1>2 DEF AccountsInv

\* The INSERT of register: the two tables of the unique index, committed and
\* pending, are both clear of the name.
LEMMA FlushAccounts ==
    ASSUME TypeInv, AccountsInv, NEW r \in Requests, RegisterFlush(r)
    PROVE  AccountsInv'
<1> DEFINE user == [id |-> user_seq, username |-> req[r].username,
                    auth_key_hash |-> hash_auth_key(req[r].auth_key),
                    kdf |-> req[r].kdf]
           writes == [EmptySession EXCEPT !.users = {user}]
<1>1. /\ user.id = user_seq
      /\ user.username = req[r].username
      /\ writes.users = {user}
  BY DEF EmptySession
<1>2. /\ users' = users
      /\ user_seq' = user_seq + 1
      /\ session' = [session EXCEPT ![r] = writes]
  BY DEF RegisterFlush, Return, db
<1> HIDE DEF user, writes
<1>3. /\ user_seq \in Nat /\ users \subseteq User
      /\ session \in [Requests -> Session]
      /\ \A q \in Requests : session[q].users \subseteq User
      /\ \A x \in User : x.id \in Nat
  BY DEF TypeInv, TypeOK, Session, User
<1>4. \A q \in Requests :
          session'[q].users = IF q = r THEN {user} ELSE session[q].users
  BY <1>1, <1>2, <1>3
<1>5. \A y \in users : ~Clash(user, y)
  BY <1>1, <1>3 DEF RegisterFlush, Named, Clash, AccountsInv, IdsDrawn
<1>6. \A q \in Requests \ {r} : \A y \in session[q].users :
          ~Clash(user, y) /\ ~Clash(y, user)
  BY <1>1, <1>3 DEF RegisterFlush, NameLocked, Clash, AccountsInv, IdsDrawn
<1>7. IdsDrawn'
  <2>1. \A x \in User : x.id < user_seq => x.id < user_seq'
    BY <1>2, <1>3
  <2>2. user.id < user_seq'
    BY <1>1, <1>2, <1>3
  <2> QED
    BY <1>2, <1>3, <1>4, <2>1, <2>2 DEF AccountsInv, IdsDrawn
<1>8. UniqueAccounts'
  BY <1>2 DEF AccountsInv, UniqueAccounts
<1>9. PendingIsFree'
  BY <1>2, <1>4, <1>5 DEF AccountsInv, PendingIsFree, Clash
<1>10. PendingIsReserved'
  BY <1>4, <1>6 DEF AccountsInv, PendingIsReserved, Clash
<1> QED
  BY <1>7, <1>8, <1>9, <1>10 DEF AccountsInv

\* The commit: the pending rows become committed ones.
LEMMA CommitAccounts ==
    ASSUME TypeInv, AccountsInv, NEW r \in Requests, Commit(r)
    PROVE  AccountsInv'
<1>1. /\ users' = users \cup session[r].users
      /\ user_seq' = user_seq
      /\ \A q \in Requests : session'[q].users =
             IF q = r THEN {} ELSE session[q].users
  BY DEF Commit, Close, TypeInv, TypeOK, EmptySession
<1>2. UniqueAccounts'
  BY <1>1
  DEF AccountsInv, UniqueAccounts, PendingIsFree, PendingIsReserved, Clash
<1>3. IdsDrawn'
  BY <1>1 DEF AccountsInv, IdsDrawn
<1>4. PendingIsFree' /\ PendingIsReserved'
  BY <1>1 DEF AccountsInv, PendingIsFree, PendingIsReserved, Clash
<1> QED
  BY <1>2, <1>3, <1>4 DEF AccountsInv

\* A handler that awaits, raises or returns with no insert into users.
LEMMA QuietStep ==
    ASSUME TypeInv, NEW r \in Requests,
           \/ \E place, user : Await(r, place, user)
           \/ \E status : Raise(r, status)
           \/ \E response, writes :
                  writes.users = {} /\ Return(r, response, writes)
           \/ \E place : Close(r, place)
    PROVE  \A q \in Requests : session'[q].users \subseteq session[q].users
BY DEF Await, Raise, Return, Close, EmptySession, TypeInv, TypeOK

LEMMA NextAccounts == TypeInv /\ AccountsInv /\ [Next]_vars => AccountsInv'
<1> SUFFICES ASSUME TypeInv, AccountsInv, [Next]_vars PROVE AccountsInv'
  OBVIOUS
<1>1. ASSUME NEW r \in Requests, ServerStep(r) PROVE AccountsInv'
  <2>1. CASE RegisterFlush(r)
    BY <2>1, FlushAccounts
  <2>2. CASE Commit(r)
    BY <2>2, CommitAccounts
  <2>3. CASE \/ RegisterConflict(r) \/ RegisterIntegrityError(r)
             \/ KdfParamsUnknown(r) \/ LoginUnknown(r) \/ LoginReject(r)
             \/ RejectToken(r) \/ DeleteMissing(r)
    <3>1. \E status : Raise(r, status)
      BY <2>3 DEF RegisterConflict, RegisterIntegrityError, KdfParamsUnknown,
                  LoginUnknown, LoginReject, RejectToken, DeleteMissing
    <3>2. user_seq' \in {user_seq, user_seq + 1}
      BY <2>3 DEF RegisterConflict, RegisterIntegrityError, KdfParamsUnknown,
                  LoginUnknown, LoginReject, RejectToken, DeleteMissing
    <3> QED
      BY <3>1, <3>2, QuietStep, AccountsFrame DEF Raise, db
  <2>4. CASE RegisterCheck(r) \/ LoginLookup(r) \/ AcceptToken(r)
    <3>1. \E place, user : Await(r, place, user)
      BY <2>4 DEF RegisterCheck, LoginLookup, AcceptToken
    <3> QED
      BY <3>1, QuietStep, AccountsFrame DEF Await, db
  <2>5. CASE GetUserOr404(r)
    <3>1. \/ \E place, user : Await(r, place, user)
          \/ user_seq' = user_seq /\ \E status : Raise(r, status)
      BY <2>5 DEF GetUserOr404
    <3> QED
      BY <3>1, QuietStep, AccountsFrame DEF Await, Raise, db
  <2>6. CASE \/ KdfParamsFound(r) \/ LoginAccept(r) \/ CreateFlush(r)
             \/ ListSelect(r) \/ DeleteSelect(r)
    <3>1. \E response, writes :
              writes.users = {} /\ Return(r, response, writes)
      BY <2>6 DEF KdfParamsFound, LoginAccept, CreateFlush, ListSelect,
                  DeleteSelect, EmptySession
    <3>2. user_seq' = user_seq
      BY <2>6 DEF KdfParamsFound, LoginAccept, CreateFlush, ListSelect,
                  DeleteSelect
    <3> QED
      BY <3>1, <3>2, QuietStep, AccountsFrame DEF Return, db
  <2> QED
    BY <1>1, <2>1, <2>2, <2>3, <2>4, <2>5, <2>6 DEF ServerStep
<1>2. ASSUME NEW r \in Requests,
             ClientStep(r) \/ CommitFails(r) \/ StatementFails(r)
      PROVE  AccountsInv'
  <2>1. CASE ClientStep(r)
    BY <2>1, AccountsFrame DEF ClientStep, Submit, db
  <2>2. CASE CommitFails(r)
    BY <2>2, QuietStep, AccountsFrame DEF CommitFails, Close, db
  <2>3. CASE StatementFails(r)
    BY <2>3, QuietStep, AccountsFrame DEF StatementFails, Raise, db
  <2> QED
    BY <1>2, <2>1, <2>2, <2>3
<1>3. CASE Crash
  <2>1. \A q \in Requests : session'[q].users = {}
    BY <1>3 DEF Crash, EmptySession
  <2> QED
    BY <1>3, <2>1, AccountsFrame DEF Crash, db
<1>4. CASE Tick \/ UNCHANGED vars
  BY <1>4, AccountsFrame DEF Tick, vars, db
<1> QED
  BY <1>1, <1>2, <1>3, <1>4 DEF Next, BackendStep

LEMMA AccountsInvariance == Spec => []AccountsInv
BY InitAccounts, NextAccounts, TypeInvariance, PTL DEF Spec

\* No two accounts ever share a name or an id, for any number of requests
\* racing and failing in any way.
THEOREM AccountsAreUnique == Spec => []UniqueAccounts
<1>1. AccountsInv => UniqueAccounts
  BY DEF AccountsInv
<1> QED
  BY <1>1, AccountsInvariance, PTL

=============================================================================
