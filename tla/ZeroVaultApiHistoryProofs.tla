----------------------- MODULE ZeroVaultApiHistoryProofs -----------------------
(***************************************************************************)
(* What a request sees of what was over when it was made: theorems about   *)
(* ZeroVaultApiHistory.                                                    *)
(***************************************************************************)
EXTENDS ZeroVaultApiHistory, ZeroVaultApiAnswers

-----------------------------------------------------------------------------
(* The history variable observes and nothing more.                         *)

LEMMA HistoryStepIsApi == [HistoryNext]_historyVars => [Next]_vars
BY DEF HistoryNext, historyVars, Next

\* The backend with its history is the backend: what holds of one holds of
\* the other.
THEOREM HistoryIsApi == HistorySpec => Spec
<1>1. HistoryInit => Init
  BY DEF HistoryInit
<1> QED
  BY <1>1, HistoryStepIsApi, PTL DEF HistorySpec, Spec

-----------------------------------------------------------------------------
(* What is remembered.                                                     *)

Memory == [answered: SUBSET Requests, committed: SUBSET Requests, time: Nat]

\* A request that was made has a memory, of the past.
Remembers(r) ==
    pc[r] # "idle" =>
        /\ before[r] \in Memory
        /\ before[r].time <= now
        /\ \A q \in before[r].committed : pc[q] = "committed"

HistoryInv ==
    /\ before \in [Requests -> Memory \cup {None}]
    /\ \A r \in Requests : Remembers(r)

\* The clock does not go back.
LEMMA TimePasses ==
    ASSUME TypeInv, [Next]_vars
    PROVE  now \in Nat /\ now' \in {now, now + 1}
<1>1. ASSUME NEW r \in Requests, RequestStep(r) PROVE now' = now
  BY <1>1, HowHandlersGoOn
  DEF RequestStep, ClientStep, Submit, AwaitsNext, Await, Raises, Raise, Returns,
      Return, Commit, CommitFails, Close
<1> QED
  BY <1>1 DEF Next, BackendStep, RequestStep, Crash, Tick, vars, TypeInv, TypeOK

\* A request is made once, and what it remembers stays.
LEMMA MemoryStays ==
    ASSUME TypeInv, HistoryInv, [HistoryNext]_historyVars, NEW r \in Requests
    PROVE  /\ pc[r] # "idle" => before'[r] = before[r] /\ req'[r] = req[r]
           /\ pc[r] = "idle" /\ pc'[r] # "idle" => before'[r] = Snapshot
<1>1. ASSUME NEW q \in Requests, ClientStep(q),
             before' = [before EXCEPT ![q] = Snapshot]
      PROVE  /\ pc[r] # "idle" => before'[r] = before[r] /\ req'[r] = req[r]
             /\ pc[r] = "idle" /\ pc'[r] # "idle" => before'[r] = Snapshot
  <2>1. \A p \in Requests : p # q => before'[p] = before[p]
    BY <1>1 DEF HistoryInv
  <2>2. before'[q] = Snapshot
    BY <1>1 DEF HistoryInv
  <2>3. pc[q] = "idle" /\ \A p \in Requests \ {q} : Unmoved(p)
    BY <1>1, OthersUnmoved DEF RequestStep, ClientStep, Submit
  <2> QED
    BY <2>1, <2>2, <2>3 DEF Unmoved
<1>2. CASE BackendStep /\ UNCHANGED before
  <2>1. ASSUME NEW q \in Requests, RequestStep(q), ~ClientStep(q)
        PROVE  pc[q] # "idle" /\ req' = req
    BY <2>1, HowHandlersGoOn
    DEF RequestStep, AwaitsNext, Await, Raises, Raise, Returns, Return, Commit,
        CommitFails, Close, Handling
  <2>2. ASSUME NEW q \in Requests,
               ServerStep(q) \/ CommitFails(q) \/ StatementFails(q)
        PROVE  req' = req /\ (pc[r] = "idle" => pc'[r] = "idle")
    <3>1. ~ClientStep(q)
      BY <2>2, HowHandlersGoOn
      DEF ClientStep, Submit, AwaitsNext, Raises, Returns, Commit, CommitFails,
          Handling
    <3> QED
      BY <2>1, <2>2, <3>1, OthersUnmoved DEF RequestStep, Unmoved
  <2>3. ASSUME Crash \/ Tick
        PROVE  req' = req /\ (pc[r] = "idle" => pc'[r] = "idle")
    BY <2>3 DEF Crash, Tick, Handling
  <2> QED
    BY <1>2, <2>2, <2>3 DEF BackendStep
<1>3. CASE UNCHANGED historyVars
  BY <1>3 DEF historyVars, vars
<1> QED
  BY <1>1, <1>2, <1>3 DEF HistoryNext

\* A commit is never taken back.
LEMMA CommitsStay ==
    ASSUME TypeInv, [Next]_vars, NEW q \in Requests, pc[q] = "committed"
    PROVE  pc'[q] = "committed"
BY OnlyCommitsCommit, CommitMoves

LEMMA InitHistory == HistoryInit => HistoryInv
BY DEF HistoryInit, Init, HistoryInv, Remembers

LEMMA NextHistory ==
    ASSUME TypeInv, HistoryInv, [HistoryNext]_historyVars
    PROVE  HistoryInv'
<1>1. [Next]_vars
  BY HistoryStepIsApi
<1>2. /\ Snapshot \in Memory /\ Snapshot.time = now
      /\ \A q \in Snapshot.committed : q \in Requests /\ pc[q] = "committed"
  BY DEF Snapshot, Memory, TypeInv, TypeOK
<1>3. before' \in [Requests -> Memory \cup {None}]
  BY <1>2 DEF HistoryInv, HistoryNext, historyVars
<1>4. now \in Nat /\ now' \in {now, now + 1}
  BY <1>1, TimePasses
<1>5. ASSUME NEW r \in Requests PROVE Remembers(r)'
  <2>1. CASE pc[r] # "idle"
    <3>1. before'[r] = before[r] /\ before[r] \in Memory
      BY <2>1, MemoryStays DEF HistoryInv, Remembers
    <3>2. before[r].time \in Nat /\ before[r].time <= now'
      BY <1>4, <2>1, <3>1 DEF HistoryInv, Remembers, Memory
    <3>3. \A q \in before[r].committed : pc'[q] = "committed"
      BY <1>1, <2>1, <3>1, CommitsStay DEF HistoryInv, Remembers, Memory
    <3> QED
      BY <3>1, <3>2, <3>3 DEF Remembers
  <2>2. CASE pc[r] = "idle" /\ pc'[r] # "idle"
    <3>1. before'[r] = Snapshot
      BY <2>2, MemoryStays
    <3>2. \A q \in Snapshot.committed : pc'[q] = "committed"
      BY <1>1, <1>2, CommitsStay
    <3> QED
      BY <1>2, <1>4, <3>1, <3>2 DEF Remembers
  <2> QED
    BY <2>1, <2>2 DEF Remembers
<1> QED
  BY <1>3, <1>5 DEF HistoryInv

LEMMA HistoryInvariance == HistorySpec => []HistoryInv
BY InitHistory, NextHistory, HistoryIsApi, TypeInvariance, PTL DEF HistorySpec

-----------------------------------------------------------------------------
(* Expiry.                                                                 *)

\* A refusal is for good too.
LEMMA RefusalsStay ==
    ASSUME TypeInv, [Next]_vars, NEW q \in Requests, pc[q] = "refused"
    PROVE  pc'[q] = "refused" /\ req'[q] = req[q] /\ resp'[q] = resp[q]
<1>1. ~RequestStep(q)
  BY HowHandlersGoOn
  DEF RequestStep, ClientStep, Submit, AwaitsNext, Raises, Returns, Commit,
      CommitFails, Handling
<1>2. ASSUME NEW r \in Requests, r # q, RequestStep(r)
      PROVE  pc'[q] = "refused" /\ req'[q] = req[q] /\ resp'[q] = resp[q]
  BY <1>2, OthersUnmoved DEF Unmoved
<1>3. CASE Crash \/ Tick \/ UNCHANGED vars
  BY <1>3 DEF Crash, Tick, vars, Handling
<1> QED
  BY <1>1, <1>2, <1>3 DEF Next, BackendStep, RequestStep

\* Who is refused, is refused by one of these.
Refuses(r) ==
    \/ RegisterConflict(r) \/ RegisterIntegrityError(r)
    \/ KdfParamsUnknown(r) \/ LoginUnknown(r) \/ LoginReject(r)
    \/ RejectToken(r)
    \/ (GetUserOr404(r) /\ Raise(r, 404))
    \/ DeleteMissing(r) \/ StatementFails(r)

LEMMA NewRefusal ==
    ASSUME TypeInv, [Next]_vars, NEW r \in Requests,
           pc[r] # "refused", pc'[r] = "refused"
    PROVE  req' = req /\ now' = now /\ Refuses(r)
<1>1. ASSUME NEW q \in Requests, RequestStep(q) PROVE q = r
  BY <1>1, OthersUnmoved DEF Unmoved
<1>2. ~(Crash \/ Tick \/ UNCHANGED vars)
  BY DEF Crash, Tick, vars, Handling
<1>3. RequestStep(r)
  BY <1>1, <1>2 DEF Next, BackendStep, RequestStep
<1>4. ~Returns(r) /\ ~AwaitsNext(r) /\ ~ClientStep(r) /\ ~Commit(r)
          /\ ~CommitFails(r)
  BY DEF Returns, Return, AwaitsNext, Await, ClientStep, Submit, Commit,
         CommitFails, Close, TypeInv, TypeOK
<1>5. req' = req /\ now' = now
  BY <1>3, <1>4, HowHandlersGoOn DEF RequestStep, Raises, Raise
<1>6. ~(\/ RegisterFlush(r) \/ KdfParamsFound(r) \/ LoginAccept(r)
        \/ CreateFlush(r) \/ ListSelect(r) \/ DeleteSelect(r))
  BY <1>4 DEF RegisterFlush, KdfParamsFound, LoginAccept, CreateFlush,
              ListSelect, DeleteSelect, Returns, At, Handling
<1>7. ~(RegisterCheck(r) \/ LoginLookup(r) \/ AcceptToken(r))
  BY <1>4 DEF RegisterCheck, LoginLookup, AcceptToken, AwaitsNext, At
<1>8. GetUserOr404(r) => Raise(r, 404)
  BY <1>4 DEF GetUserOr404, AwaitsNext
<1>9. Refuses(r)
  BY <1>3, <1>4, <1>6, <1>7, <1>8 DEF RequestStep, ServerStep, Refuses
<1> QED
  BY <1>5, <1>9

\* A vault request is told 401 by the token check and by nothing else.
LEMMA NewUnauthorized ==
    ASSUME TypeInv, NEW r \in Requests, Refuses(r), resp'[r].status = 401,
           req[r].op \in VaultOps
    PROVE  RejectToken(r)
<1>1. ASSUME NEW status, Raise(r, status) PROVE status = 401
  BY <1>1 DEF Raise, TypeInv, TypeOK
<1>2. ~(\/ RegisterConflict(r) \/ RegisterIntegrityError(r)
        \/ KdfParamsUnknown(r) \/ LoginUnknown(r) \/ LoginReject(r))
  BY DEF RegisterConflict, RegisterIntegrityError, KdfParamsUnknown,
         LoginUnknown, LoginReject, At, VaultOps
<1>3. ~(Raise(r, 404) \/ DeleteMissing(r) \/ StatementFails(r))
  BY <1>1 DEF DeleteMissing, StatementFails
<1> QED
  BY <1>2, <1>3 DEF Refuses

\* A name is called unknown only while it has no account.
LEMMA NewUnknown ==
    ASSUME TypeInv, NEW r \in Requests, Refuses(r), RowIsCurrent(r),
           req[r].op \in {"kdf_params", "login"}
    PROVE  \/ resp'[r].status = 500
           \/ Named(req[r].username) = {}
           \/ LoginReject(r)
<1>1. CASE StatementFails(r)
  BY <1>1 DEF StatementFails, Raise, TypeInv, TypeOK
<1>2. CASE KdfParamsUnknown(r) \/ LoginUnknown(r) \/ LoginReject(r)
  BY <1>2 DEF KdfParamsUnknown, LoginUnknown
<1>3. ~(\/ RegisterConflict(r) \/ RegisterIntegrityError(r) \/ RejectToken(r)
        \/ GetUserOr404(r) \/ DeleteMissing(r))
  BY DEF RegisterConflict, RegisterIntegrityError, RejectToken, GetUserOr404,
         DeleteMissing, At, VaultOps, RowIsCurrent
<1> QED
  BY <1>1, <1>2, <1>3 DEF Refuses

\* A vault handler starts on a token that is alive.
LEMMA NewHandler ==
    ASSUME TypeInv, [Next]_vars, NEW r \in Requests,
           pc[r] \notin {"authorized", "have_user"},
           pc'[r] \in {"authorized", "have_user"}
    PROVE  /\ req'[r] = req[r] /\ now' = now /\ pc[r] = "received"
           /\ req[r].op \in VaultOps /\ TokenAccepted(req[r].token)
<1>1. ASSUME NEW q \in Requests, RequestStep(q) PROVE q = r
  BY <1>1, OthersUnmoved DEF Unmoved
<1>2. ~(Crash \/ Tick \/ UNCHANGED vars)
  BY DEF Crash, Tick, vars, Handling
<1>3. RequestStep(r)
  BY <1>1, <1>2 DEF Next, BackendStep, RequestStep
<1>4. ~Returns(r) /\ ~Raises(r) /\ ~ClientStep(r) /\ ~Commit(r)
          /\ ~CommitFails(r)
  BY DEF Returns, Return, Raises, Raise, ClientStep, Submit, Commit,
         CommitFails, Close, TypeInv, TypeOK
<1>5. AwaitsNext(r)
  BY <1>3, <1>4, HowHandlersGoOn DEF RequestStep
<1>6. ~RegisterCheck(r) /\ ~LoginLookup(r)
  BY DEF RegisterCheck, LoginLookup, Await, TypeInv, TypeOK
<1>7. AcceptToken(r)
  <2>1. ~(\/ RegisterConflict(r) \/ RegisterIntegrityError(r)
          \/ KdfParamsUnknown(r) \/ LoginUnknown(r) \/ LoginReject(r)
          \/ RejectToken(r) \/ DeleteMissing(r) \/ StatementFails(r))
    BY <1>4 DEF RegisterConflict, RegisterIntegrityError, KdfParamsUnknown,
                LoginUnknown, LoginReject, RejectToken, DeleteMissing,
                StatementFails, Raises, At, Handling
  <2>2. ~(\/ RegisterFlush(r) \/ KdfParamsFound(r) \/ LoginAccept(r)
          \/ CreateFlush(r) \/ ListSelect(r) \/ DeleteSelect(r))
    BY <1>4 DEF RegisterFlush, KdfParamsFound, LoginAccept, CreateFlush,
                ListSelect, DeleteSelect, Returns, At, Handling
  <2>3. ~GetUserOr404(r)
    BY DEF GetUserOr404
  <2> QED
    BY <1>3, <1>4, <1>6, <2>1, <2>2, <2>3 DEF RequestStep, ServerStep
<1> QED
  BY <1>7 DEF AcceptToken, Await

\* A vault request that was let in was made in its token's lifetime; one that
\* was told 401 outlived it.
LetInInTime(r) ==
    /\ (\/ pc[r] \in {"authorized", "have_user"}
        \/ Granted(r) /\ req[r].op \in VaultOps) =>
           before[r].time < req[r].token.exp
    /\ (/\ pc[r] = "refused" /\ resp[r].status = 401
        /\ req[r].op \in VaultOps /\ req[r].token # None) =>
           req[r].token.exp <= now

LEMMA NextLetIn ==
    ASSUME TypeInv, TypeInv', AnswersInv, HistoryInv, NEW r \in Requests, LetInInTime(r),
           [HistoryNext]_historyVars
    PROVE  LetInInTime(r)'
<1>1. [Next]_vars
  BY HistoryStepIsApi
<1>2. now \in Nat /\ now' \in {now, now + 1}
  BY <1>1, TimePasses
<1>3. pc[r] # "idle" => before'[r] = before[r] /\ req'[r] = req[r]
  BY MemoryStays
<1>4. pc[r] # "idle" => before[r].time \in Nat /\ before[r].time <= now
  BY DEF HistoryInv, Remembers, Memory
<1>5. ASSUME pc'[r] \in {"authorized", "have_user"}
      PROVE  before'[r].time < req'[r].token.exp
  <2>1. CASE pc[r] \in {"authorized", "have_user"}
    BY <1>3, <2>1 DEF LetInInTime
  <2>2. CASE pc[r] \notin {"authorized", "have_user"}
    <3>1. /\ pc[r] = "received" /\ req[r].token # None
          /\ now < req[r].token.exp /\ req[r].op \in VaultOps
      BY <1>1, <1>5, <2>2, NewHandler DEF TokenAccepted
    <3>2. req[r].token.exp \in Nat
      BY <3>1, AtPayload, PayloadFields DEF Token
    <3> QED
      BY <1>2, <1>3, <1>4, <3>1, <3>2
  <2> QED
    BY <2>1, <2>2
<1>6. ASSUME Granted(r)', req'[r].op \in VaultOps
      PROVE  before'[r].time < req'[r].token.exp
  <2>1. CASE Granted(r)
    BY <1>1, <1>3, <1>6, <2>1, GrantsStay DEF LetInInTime, Granted
  <2>2. CASE ~Granted(r)
    BY <1>1, <1>3, <1>6, <2>2, NewGrant DEF LetInInTime
  <2> QED
    BY <2>1, <2>2
<1>7. ASSUME pc'[r] = "refused", resp'[r].status = 401,
             req'[r].op \in VaultOps, req'[r].token # None
      PROVE  req'[r].token.exp <= now'
  <2>1. req'[r].token.exp \in Nat
    BY <1>7, AtPayload, PayloadFields DEF Token, TypeInv, LocalsOK
  <2>2. CASE pc[r] = "refused"
    BY <1>1, <1>2, <1>7, <2>1, <2>2, RefusalsStay DEF LetInInTime
  <2>3. CASE pc[r] # "refused"
    <3>1. req' = req /\ now' = now /\ RejectToken(r)
      BY <1>1, <1>7, <2>3, NewRefusal, NewUnauthorized
    <3>2. ~(now < req[r].token.exp)
      BY <1>7, <3>1 DEF RejectToken, TokenAccepted
    <3> QED
      BY <1>2, <2>1, <3>1, <3>2
  <2> QED
    BY <2>2, <2>3
<1> QED
  BY <1>5, <1>6, <1>7 DEF LetInInTime

\* A token is honoured up to its expiry and no longer, whenever the request
\* that bears it is handled.
THEOREM ExpiryIsToTheInstant == HistorySpec => []ExpiryIsExact
<1> DEFINE LetIn == \A r \in Requests : LetInInTime(r)
<1>1. HistoryInit => LetIn
  BY DEF HistoryInit, Init, LetInInTime, Granted
<1>2. TypeInv /\ TypeInv' /\ AnswersInv /\ HistoryInv /\ LetIn
          /\ [HistoryNext]_historyVars => LetIn'
  BY NextLetIn
<1>3. TypeInv /\ AnswersInv /\ LetIn => ExpiryIsExact
  BY DEF TypeInv, TypeOK, Places, Finished, AnswersInv, RequestInv,
         AnswerIsDue, Granted, LetInInTime, ExpiryIsExact
<1> HIDE DEF LetIn
<1> QED
  BY <1>1, <1>2, <1>3, HistoryIsApi, TypeInvariance, AnswersInvariance,
     HistoryInvariance, PTL DEF HistorySpec

-----------------------------------------------------------------------------
(* Order.                                                                  *)

\* An answer is for good.
LEMMA AnswersStay ==
    ASSUME TypeInv, AnswersInv, [Next]_vars, NEW r \in Requests,
           resp[r] # None
    PROVE  resp'[r] = resp[r] /\ req'[r] = req[r]
<1>1. Granted(r) \/ pc[r] = "refused"
  BY DEF TypeInv, TypeOK, Places, Finished, AnswersInv, RequestInv,
         AnswerIsDue, Granted
<1> QED
  BY <1>1, GrantsStay, RefusalsStay

\* The account of a committed registration answers to its name.
LEMMA RegisteredIsNamed ==
    ASSUME UsersAreTheRegistered, NEW q \in Requests, pc[q] = "committed",
           req[q].op = "register"
    PROVE  /\ AccountOf(q) \in Named(req[q].username)
           /\ AccountOf(q).auth_key_hash = hash_auth_key(req[q].auth_key)
BY DEF UsersAreTheRegistered, Committed, Named, AccountOf

\* A committed entry is in the table under its caller, unless a committed
\* delete named it.
LEMMA CreatedIsStored ==
    ASSUME TypeInv, UniqueAccounts, AnswersInv, EntriesInv,
           NEW q \in Requests, pc[q] = "committed", req[q].op = "create"
    PROVE  /\ Caller(q) = {EntryOf(q).user_id}
           /\ EntryOf(q).id = resp[q].id
           /\ \/ EntryOf(q) \in vault_entries
              \/ \E d \in Committed("delete") : req[d].entry_id = resp[q].id
<1>1. Named(req[q].token.sub) # {}
  BY DEF AnswersInv, RequestInv, GrantIsTrue, Granted, VaultOps
<1>2. PICK x : Named(req[q].token.sub) = {x}
  BY <1>1 DEF UniqueAccounts, Named
<1>3. Caller(q) = {x.id}
  BY <1>2 DEF Caller
<1>4. EntryOf(q).user_id = x.id /\ EntryOf(q).id = resp[q].id
  BY <1>3 DEF EntryOf
<1>5. EntryOf(q) \in EverStored
  BY DEF EverStored, Committed
<1> QED
  BY <1>3, <1>4, <1>5 DEF EntriesInv, EntriesAreTheStored

\* Nothing a committed delete named is in the table.
LEMMA DeletedIsGone ==
    ASSUME EntriesInv, NEW q \in Requests, pc[q] = "committed",
           req[q].op = "delete"
    PROVE  \A e \in vault_entries : e.id # req[q].entry_id
BY DEF EntriesInv, EntriesAreTheStored, Committed

\* Who was answered already was answered before this step.
LEMMA NewAnswer ==
    ASSUME TypeInv, TypeInv', AnswersInv, AnswersInv', [Next]_vars,
           NEW r \in Requests, resp[r] = None, resp'[r] # None
    PROVE  \/ ~Granted(r) /\ Granted(r)'
           \/ pc[r] # "refused" /\ pc'[r] = "refused"
<1>1. ~Granted(r)
  BY DEF AnswersInv, RequestInv, AnswerIsDue
<1>2. pc[r] # "refused"
  BY RefusalsStay
<1>3. Granted(r)' \/ pc'[r] = "refused"
  BY DEF TypeInv, TypeOK, Places, Finished, AnswersInv, RequestInv,
         AnswerIsDue, Granted
<1> QED
  BY <1>1, <1>2, <1>3

\* Nothing is answered before it was asked.
LEMMA NotFromIdle ==
    ASSUME TypeInv, [Next]_vars, NEW r \in Requests, pc[r] = "idle"
    PROVE  pc'[r] \in {"idle", "received"}
<1>1. CASE RequestStep(r)
  BY <1>1, HowHandlersGoOn
  DEF RequestStep, ClientStep, Submit, AwaitsNext, Raises, Returns, Commit,
      CommitFails, Handling, TypeInv, TypeOK
<1>2. ASSUME NEW q \in Requests, q # r, RequestStep(q) PROVE pc'[r] = pc[r]
  BY <1>2, OthersUnmoved DEF Unmoved
<1>3. CASE Crash \/ Tick \/ UNCHANGED vars
  BY <1>3 DEF Crash, Tick, vars, Handling
<1> QED
  BY <1>1, <1>2, <1>3 DEF Next, BackendStep, RequestStep

\* The clauses of Reflects last: a grant and a commit are for good.
LEMMA ReflectionLasts ==
    ASSUME TypeInv, AnswersInv, UniqueAccounts', [Next]_vars,
           NEW r \in Requests, resp[r] # None,
           NEW q \in Requests, pc[q] = "committed", Reflects(r, q)
    PROVE  Reflects(r, q)'
<1>1. /\ resp'[r] = resp[r] /\ req'[r] = req[r]
      /\ resp'[q] = resp[q] /\ req'[q] = req[q]
  BY AnswersStay, GrantsStay DEF Granted
<1>2. Succeeded(r, "list")' <=> Succeeded(r, "list")
  BY <1>1 DEF Succeeded
<1>3. ASSUME req[q].op = "create", Succeeded(r, "list")
      PROVE  Caller(r)' = Caller(r) /\ Caller(q)' = Caller(q)
  <2>1. Granted(r) /\ req[r].op = "list"
    BY <1>3, SucceededIsGranted
  <2> QED
    BY <1>3, <2>1, GrantedCaller DEF Granted, VaultOps
<1>4. \A d \in Committed("delete") :
          d \in Committed("delete")' /\ req'[d] = req[d]
  BY CommitsStay, GrantsStay DEF Committed, Granted
<1>5. Listed(r)' = Listed(r)
  BY <1>1 DEF Listed
<1>6. ASSUME req'[q].op = "create", Succeeded(r, "list")', SameCaller(r, q)'
      PROVE  \/ resp'[q].id \in Listed(r)'
             \/ \E d \in Committed("delete")' : req'[d].entry_id = resp'[q].id
  <2>1. SameCaller(r, q)
    BY <1>1, <1>2, <1>3, <1>6 DEF SameCaller
  <2> QED
    BY <1>1, <1>2, <1>4, <1>5, <1>6, <2>1 DEF Reflects
<1> QED
  BY <1>1, <1>2, <1>5, <1>6 DEF Reflects

\* A request that is refused now is not refused against what was committed.
LEMMA RefusalReflects ==
    ASSUME TypeInv, UniqueAccounts, AnswersInv, AnswersInv',
           UsersAreTheRegistered, [Next]_vars,
           NEW r \in Requests, pc[r] # "refused", pc'[r] = "refused",
           NEW q \in Requests, pc[q] = "committed"
    PROVE  Reflects(r, q)'
<1>1. req' = req /\ Refuses(r)
  BY NewRefusal
<1>2. resp'[r].status \notin {200, 201}
  BY DEF AnswersInv, RequestInv, AnswerIsDue
<1>3. ASSUME req[q].op = "register", req[r].op \in {"kdf_params", "login"},
             req[r].username = req[q].username
      PROVE  \/ resp'[r].status = 500
             \/ req[r].op = "login" /\ req[r].auth_key # req[q].auth_key
  <2>1. /\ AccountOf(q) \in Named(req[r].username)
        /\ AccountOf(q).auth_key_hash = hash_auth_key(req[q].auth_key)
    BY <1>3, RegisteredIsNamed
  <2>2. CASE LoginReject(r)
    <3>1. /\ pc[r] = "verifying" /\ req[r].op = "login"
          /\ ~verify_auth_key(req[r].auth_key, row[r].auth_key_hash)
      BY <2>2 DEF LoginReject, At
    <3>2. row[r] = AccountOf(q)
      BY <2>1, <3>1
      DEF AnswersInv, RequestInv, RowIsCurrent, UniqueAccounts, Named
    <3> QED
      BY <2>1, <3>1, <3>2 DEF verify_auth_key, hash_auth_key
  <2>3. RowIsCurrent(r)
    BY DEF AnswersInv, RequestInv
  <2> QED
    BY <1>1, <1>3, <2>1, <2>2, <2>3, NewUnknown
<1>4. ~Succeeded(r, "list")'
  BY <1>2 DEF Succeeded
<1> QED
  BY <1>1, <1>2, <1>3, <1>4 DEF Reflects

\* A request that is granted now was granted on what was committed.
LEMMA GrantReflects ==
    ASSUME TypeInv, UniqueAccounts, UniqueAccounts', AnswersInv, EntriesInv,
           UsersAreTheRegistered, [Next]_vars,
           NEW r \in Requests, ~Granted(r), Granted(r)',
           NEW q \in Requests, pc[q] = "committed"
    PROVE  Reflects(r, q)'
<1>1. req' = req /\ users' = users /\ resp'[q] = resp[q]
  BY NewGrant, GrantsStay DEF Granted
<1>2. /\ req[r].op = "register" => Named(req[r].username) = {}
      /\ req[r].op \in {"kdf_params", "login"} => resp'[r].status = 200
  BY NewGrant
<1>3. req[q].op = "register" /\ req[r].op = "register" =>
          req[r].username # req[q].username
  BY <1>2, RegisteredIsNamed
<1>4. req[r].op \in VaultOps =>
          Caller(r) = {row[r].id} /\ Deletable(r) \subseteq vault_entries
  BY NewGrant, CallerOfRow DEF AnswersInv, RequestInv, Deletable, EntriesOf
<1>5. req[r].op = "list" => resp'[r].entries = EntriesOf(row[r].id)
  BY NewGrant
<1>6. ASSUME req[q].op = "create", req[r].op = "list", SameCaller(r, q)'
      PROVE  \/ resp'[q].id \in Listed(r)'
             \/ \E d \in Committed("delete")' : req'[d].entry_id = resp'[q].id
  <2>1. Caller(r)' = Caller(r) /\ Caller(q)' = Caller(q)
    BY <1>1 DEF Caller, Named
  <2>2. /\ Caller(q) = {EntryOf(q).user_id} /\ EntryOf(q).id = resp[q].id
        /\ \/ EntryOf(q) \in vault_entries
           \/ \E d \in Committed("delete") : req[d].entry_id = resp[q].id
    BY <1>6, CreatedIsStored
  <2>3. EntryOf(q).user_id = row[r].id
    BY <1>4, <1>6, <2>1, <2>2 DEF SameCaller, VaultOps
  <2>4. CASE EntryOf(q) \in vault_entries
    <3>1. EntryOf(q) \in resp'[r].entries
      BY <1>5, <1>6, <2>3, <2>4 DEF EntriesOf
    <3> QED
      BY <1>1, <2>2, <3>1 DEF Listed
  <2>5. ASSUME NEW d \in Committed("delete"), req[d].entry_id = resp[q].id
        PROVE  d \in Committed("delete")' /\ req'[d].entry_id = resp'[q].id
    BY <1>1, <2>5, CommitsStay DEF Committed
  <2> QED
    BY <2>2, <2>4, <2>5
<1>7. ASSUME req[q].op = "delete", req[r].op = "list"
      PROVE  req[q].entry_id \notin Listed(r)'
  BY <1>5, <1>7, DeletedIsGone DEF Listed, EntriesOf
<1>8. ASSUME req[q].op = "delete", req[r].op = "delete"
      PROVE  req[r].entry_id # req[q].entry_id
  <2>1. Deletable(r) # {}
    BY <1>8, NewGrant
  <2> QED
    BY <1>4, <1>8, <2>1, DeletedIsGone DEF Deletable, VaultOps
<1>9. Succeeded(r, "list")' => req[r].op = "list"
  BY <1>1 DEF Succeeded
<1> QED
  BY <1>1, <1>2, <1>3, <1>6, <1>7, <1>8, <1>9 DEF Reflects

\* Whoever asks after a commit sees it: the new account, the new entry, and
\* never again a deleted one, for any number of requests in any order.
THEOREM CommittedIsAlwaysSeen == HistorySpec => []CommittedIsSeen
<1> DEFINE Known == TypeInv /\ UniqueAccounts /\ AnswersInv /\ EntriesInv
                    /\ UsersAreTheRegistered /\ HistoryInv
<1>1. HistoryInit => CommittedIsSeen
  BY DEF HistoryInit, Init, CommittedIsSeen
<1>2. ASSUME Known, Known', CommittedIsSeen, [HistoryNext]_historyVars
      PROVE  CommittedIsSeen'
  <2>1. [Next]_vars
    BY <1>2, HistoryStepIsApi
  <2>2. SUFFICES ASSUME NEW r \in Requests, resp'[r] # None,
                        NEW q \in before'[r].committed
                 PROVE  Reflects(r, q)'
    BY DEF CommittedIsSeen
  <2>3. pc[r] # "idle"
    <3>1. CASE resp[r] # None
      BY <1>2, <3>1 DEF AnswersInv, RequestInv, AnswerIsDue
    <3>2. CASE resp[r] = None
      BY <1>2, <2>1, <2>2, <3>2, NewAnswer, NotFromIdle DEF Granted
    <3> QED
      BY <3>1, <3>2
  <2>4. /\ q \in before[r].committed
        /\ q \in Requests /\ pc[q] = "committed"
    BY <1>2, <2>2, <2>3, MemoryStays DEF HistoryInv, Remembers, Memory
  <2>5. CASE resp[r] # None
    BY <1>2, <2>1, <2>4, <2>5, ReflectionLasts DEF CommittedIsSeen
  <2>6. CASE resp[r] = None
    BY <1>2, <2>1, <2>2, <2>4, <2>6, NewAnswer, RefusalReflects, GrantReflects
  <2> QED
    BY <2>5, <2>6
<1>3. AccountsInv => UniqueAccounts
  BY DEF AccountsInv
<1>4. Known /\ Known' /\ CommittedIsSeen /\ [HistoryNext]_historyVars
          => CommittedIsSeen'
  BY <1>2
<1>5. TypeInv /\ AccountsInv /\ AnswersInv /\ EntriesInv
          /\ UsersAreTheRegistered /\ HistoryInv => Known
  BY <1>3
<1> HIDE DEF Known
<1> QED
  BY <1>1, <1>4, <1>5, HistoryIsApi, TypeInvariance, AccountsInvariance,
     AnswersInvariance, EntriesInvariance, UsersAreRegistered,
     HistoryInvariance, PTL DEF HistorySpec

=============================================================================
