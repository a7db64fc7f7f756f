------------------------- MODULE ZeroVaultPoolProofs -------------------------
(***************************************************************************)
(* The backend on a pool of any size behaves as the backend.               *)
(***************************************************************************)
EXTENDS ZeroVaultPool, ZeroVaultApiProofs

\* What a request does on the pool, it does in ZeroVaultApi, or nothing.
LEMMA RequestStepIsApi ==
    ASSUME NEW r \in Requests, RequestStep(r)
    PROVE  [Next]_vars
<1>1. CASE ServerStep(r)
  BY <1>1 DEF Next, BackendStep
<1>2. CASE StatementFails(r)
  BY <1>2 DEF Next, BackendStep
<1>3. CASE CommitFails(r)
  BY <1>3 DEF Next, BackendStep
<1>4. CASE UNCHANGED vars
  BY <1>4
<1> QED
  BY <1>1, <1>2, <1>3, <1>4
  DEF RequestStep, Checkout, ConnectFails, CheckoutTimeout,
      WithoutConnection, Statement, LoginOnDead, Discard

\* Losing a connection is a commit that fails, if a request was closing.
LEMMA LoseConnectionIsApi ==
    ASSUME NEW r \in Requests, LoseConnection(r)
    PROVE  [Next]_vars
<1>1. CASE pc[r] = "closing"
  BY <1>1 DEF LoseConnection, Next, BackendStep
<1>2. CASE pc[r] # "closing"
  BY <1>2 DEF LoseConnection
<1> QED
  BY <1>1, <1>2

\* So is what a good connection cannot prevent.
LEMMA StatementRaisesIsApi ==
    ASSUME NEW r \in Requests, StatementRaises(r)
    PROVE  [Next]_vars
BY DEF StatementRaises, Next, BackendStep

\* Every step on the pool is one of ZeroVaultApi or changes none of its
\* variables.
LEMMA PoolStepIsApi ==
    ASSUME [PoolNext]_poolVars
    PROVE  [Next]_vars
<1>1. ASSUME NEW r \in Requests, RequestStep(r) PROVE [Next]_vars
  BY <1>1, RequestStepIsApi
<1>2. ASSUME NEW r \in Requests, StatementRaises(r) PROVE [Next]_vars
  BY <1>2, StatementRaisesIsApi
<1>3. ASSUME NEW r \in Requests, LoseConnection(r) PROVE [Next]_vars
  BY <1>3, LoseConnectionIsApi
<1>4. CASE LoseIdle \/ Outage
  BY <1>4 DEF LoseIdle, Outage
<1>5. CASE PoolCrash
  BY <1>5 DEF PoolCrash, Next, BackendStep
<1>6. CASE \E r \in Requests : ClientStep(r)
  BY <1>6 DEF Next
<1>7. CASE Tick
  BY <1>7 DEF Next, BackendStep
<1>8. CASE UNCHANGED poolVars
  BY <1>8 DEF poolVars
<1> QED
  BY <1>1, <1>2, <1>3, <1>4, <1>5, <1>6, <1>7, <1>8 DEF PoolNext

\* Whatever the sizes of the pool and whenever connections are lost, what
\* clients see is a behaviour of ZeroVaultApi (database.py:24-30, 41-51): all
\* that is proved of Spec holds on the pool.
THEOREM PoolImplementsApi == PoolSpec => ImplementsApi
<1>1. PoolInit => Init
  BY DEF PoolInit
<1>2. [PoolNext]_poolVars => [Next]_vars
  BY PoolStepIsApi
<1> QED
  BY <1>1, <1>2, PTL DEF PoolSpec, ImplementsApi, Spec

-----------------------------------------------------------------------------
(* Nobody is turned away without a cause.                                  *)

Failure == [status |-> 500]

\* A live connection is in the hands of a handler or of get_db's exit code; a
\* dead one was struck; who was answered 500 has ended.
PoolInv ==
    /\ conn \in [Requests -> {"none", "live", "dead"}]
    /\ \A r \in Requests :
           /\ conn[r] = "live" => pc[r] \in Handling \cup {"closing"}
           /\ conn[r] = "dead" => r \in struck
           /\ resp[r] = Failure => pc[r] = "refused"

\* What request r may have become after a step of its handler.
MovesOn(r) ==
    /\ pc' = [pc EXCEPT ![r] = pc'[r]]
    /\ pc'[r] \in Handling \cup {"closing"} \cup Finished
    /\ resp' = [resp EXCEPT ![r] = resp'[r]]
    /\ resp'[r] = Failure =>
           \/ pc'[r] = "refused"
           \/ resp'[r] = resp[r] /\ pc[r] # "refused"

LEMMA AwaitMovesOn ==
    ASSUME TypeInv, NEW r \in Requests, pc[r] \in Handling,
           NEW place \in Handling, NEW user, Await(r, place, user)
    PROVE  MovesOn(r)
BY DEF TypeInv, TypeOK, Await, MovesOn, Handling

LEMMA ReturnMovesOn ==
    ASSUME TypeInv, NEW r \in Requests, NEW response, response.status # 500,
           NEW writes, Return(r, response, writes)
    PROVE  MovesOn(r)
<1>1. response # Failure
  BY DEF Failure
<1> HIDE DEF Failure
<1> QED
  BY <1>1 DEF TypeInv, TypeOK, Return, MovesOn

LEMMA RaiseMovesOn ==
    ASSUME TypeInv, NEW r \in Requests, NEW status, Raise(r, status)
    PROVE  MovesOn(r) /\ resp'[r] = [status |-> status] /\ pc'[r] = "refused"
BY DEF TypeInv, TypeOK, Raise, MovesOn, Finished

LEMMA CloseMovesOn ==
    ASSUME TypeInv, NEW r \in Requests, pc[r] = "closing",
           NEW place \in {"committed", "commit_failed"}, Close(r, place)
    PROVE  MovesOn(r) /\ resp' = resp
BY DEF TypeInv, TypeOK, Close, MovesOn, Finished

LEMMA StepMovesOn ==
    ASSUME TypeInv, NEW r \in Requests, ServerStep(r)
    PROVE  MovesOn(r)
<1>1. ASSUME pc[r] \in Handling,
             NEW place \in Handling, NEW user, Await(r, place, user)
      PROVE  MovesOn(r)
  BY <1>1, AwaitMovesOn
<1>2. ASSUME NEW response, response.status # 500,
             NEW writes, Return(r, response, writes)
      PROVE  MovesOn(r)
  BY <1>2, ReturnMovesOn
<1>3. ASSUME \E status : Raise(r, status) PROVE MovesOn(r)
  BY <1>3, RaiseMovesOn, Zenon
<1>4. CASE RegisterConflict(r)
  BY <1>3, <1>4 DEF RegisterConflict
<1>5. CASE RegisterCheck(r)
  BY <1>1, <1>5 DEF RegisterCheck, At, Handling
<1>6. CASE RegisterFlush(r)
  <2> DEFINE user == [id |-> user_seq, username |-> req[r].username,
                      auth_key_hash |-> hash_auth_key(req[r].auth_key),
                      kdf |-> req[r].kdf]
             response == [status |-> 201, user_id |-> user.id]
  <2>1. Return(r, response, [EmptySession EXCEPT !.users = {user}])
    BY <1>6 DEF RegisterFlush
  <2>2. response.status # 500
    OBVIOUS
  <2> HIDE DEF response
  <2> QED
    BY <1>2, <2>1, <2>2
<1>7. CASE RegisterIntegrityError(r)
  BY <1>3, <1>7 DEF RegisterIntegrityError
<1>8. CASE KdfParamsUnknown(r)
  BY <1>3, <1>8 DEF KdfParamsUnknown
<1>9. CASE KdfParamsFound(r)
  <2>1. PICK user \in Named(req[r].username) :
            Return(r, [status |-> 200, kdf |-> user.kdf], EmptySession)
    BY <1>9 DEF KdfParamsFound
  <2> DEFINE response == [status |-> 200, kdf |-> user.kdf]
  <2>2. response.status # 500
    OBVIOUS
  <2>3. Return(r, response, EmptySession)
    BY <2>1
  <2> HIDE DEF response
  <2> QED
    BY <1>2, <2>2, <2>3
<1>10. CASE LoginUnknown(r)
  BY <1>3, <1>10 DEF LoginUnknown
<1>11. CASE LoginLookup(r)
  BY <1>1, <1>11 DEF LoginLookup, At, Handling
<1>12. CASE LoginReject(r)
  BY <1>3, <1>12 DEF LoginReject
<1>13. CASE LoginAccept(r)
  <2> DEFINE token == create_access_token(row[r].username)
             response == [status |-> 200, access_token |-> token]
  <2>1. Return(r, response, EmptySession)
    BY <1>13 DEF LoginAccept
  <2>2. response.status # 500
    OBVIOUS
  <2> HIDE DEF response
  <2> QED
    BY <1>2, <2>1, <2>2
<1>14. CASE RejectToken(r)
  BY <1>3, <1>14 DEF RejectToken
<1>15. CASE AcceptToken(r)
  BY <1>1, <1>15 DEF AcceptToken, Handling
<1>16. CASE GetUserOr404(r)
  <2>1. CASE Named(req[r].token.sub) = {}
    BY <1>3, <1>16, <2>1 DEF GetUserOr404
  <2>2. CASE Named(req[r].token.sub) # {}
    BY <1>1, <1>16, <2>2 DEF GetUserOr404, Handling
  <2> QED
    BY <2>1, <2>2
<1>17. CASE CreateFlush(r)
  <2> DEFINE entry == [id |-> entry_seq, user_id |-> row[r].id,
                       blob |-> req[r].blob]
             response == [status |-> 201, id |-> entry.id]
  <2>1. Return(r, response, [EmptySession EXCEPT !.entries = {entry}])
    BY <1>17 DEF CreateFlush
  <2>2. response.status # 500
    OBVIOUS
  <2> HIDE DEF response
  <2> QED
    BY <1>2, <2>1, <2>2
<1>18. CASE ListSelect(r)
  <2> DEFINE response == [status |-> 200, entries |-> EntriesOf(row[r].id)]
  <2>1. Return(r, response, EmptySession)
    BY <1>18 DEF ListSelect
  <2>2. response.status # 500
    OBVIOUS
  <2> HIDE DEF response
  <2> QED
    BY <1>2, <2>1, <2>2
<1>19. CASE DeleteMissing(r)
  BY <1>3, <1>19 DEF DeleteMissing
<1>20. CASE DeleteSelect(r)
  <2> DEFINE response == [status |-> 200]
             writes == [EmptySession EXCEPT !.deleted = {e.id : e \in Deletable(r)}]
  <2>1. Return(r, response, writes)
    BY <1>20 DEF DeleteSelect
  <2>2. response.status # 500
    OBVIOUS
  <2> HIDE DEF response, writes
  <2> QED
    BY <1>2, <2>1, <2>2
<1>21. CASE Commit(r)
  <2>1. pc[r] = "closing" /\ Close(r, "committed")
    BY <1>21 DEF Commit
  <2> QED
    BY <2>1, CloseMovesOn
<1> QED
  BY <1>4, <1>5, <1>6, <1>7, <1>8, <1>9, <1>10, <1>11, <1>12, <1>13, <1>14,
     <1>15, <1>16, <1>17, <1>18, <1>19, <1>20, <1>21 DEF ServerStep

LEMMA FailureMovesOn ==
    ASSUME TypeInv, NEW r \in Requests
    PROVE  /\ StatementFails(r) => MovesOn(r) /\ pc'[r] = "refused"
           /\ CommitFails(r) => /\ MovesOn(r) /\ resp' = resp
                                /\ pc[r] = "closing" /\ pc'[r] = "commit_failed"
<1>1. ASSUME StatementFails(r) PROVE MovesOn(r) /\ pc'[r] = "refused"
  <2>1. \E status : Raise(r, status)
    BY <1>1, Zenon DEF StatementFails
  <2> QED
    BY <2>1, RaiseMovesOn, Zenon
<1>2. ASSUME CommitFails(r)
      PROVE  /\ MovesOn(r) /\ resp' = resp
             /\ pc[r] = "closing" /\ pc'[r] = "commit_failed"
  <2>1. pc[r] = "closing" /\ Close(r, "commit_failed")
    BY <1>2 DEF CommitFails
  <2>2. pc'[r] = "commit_failed"
    BY <2>1 DEF TypeInv, TypeOK, Close
  <2> QED
    BY <2>1, <2>2, CloseMovesOn
<1> QED
  BY <1>1, <1>2

\* Before its handler begins, a vault request is let in or told 401.
LEMMA OnlyTheToken ==
    ASSUME TypeInv, NEW r \in Requests, WithoutConnection(r)
    PROVE  \/ resp' = resp
           \/ resp'[r] = [status |-> 401]
<1>1. AcceptToken(r) \/ RejectToken(r)
  BY DEF WithoutConnection, ServerStep, RegisterConflict, RegisterCheck,
         RegisterFlush, RegisterIntegrityError, KdfParamsUnknown,
         KdfParamsFound, LoginUnknown, LoginLookup, LoginReject, LoginAccept,
         GetUserOr404, CreateFlush, ListSelect, DeleteMissing, DeleteSelect,
         Commit, At, VaultOps
<1>2. AcceptToken(r) => resp' = resp
  BY DEF AcceptToken, Await
<1>3. RejectToken(r) => resp'[r] = [status |-> 401]
  BY DEF RejectToken, Raise, TypeInv, TypeOK
<1> QED
  BY <1>1, <1>2, <1>3

\* A request that moves on keeps the invariant if it holds on to a connection
\* only as long as it is under way.
LEMMA PoolFrame ==
    ASSUME TypeInv, PoolInv, NEW r \in Requests, MovesOn(r),
           NEW c \in {"none", "live", "dead"}, conn' = [conn EXCEPT ![r] = c],
           c = "live" => pc'[r] \notin Finished,
           c = "dead" => r \in struck',
           struck \subseteq struck'
    PROVE  PoolInv'
<1>1. conn' \in [Requests -> {"none", "live", "dead"}]
  BY DEF PoolInv
<1>2. ASSUME NEW q \in Requests
      PROVE  /\ conn'[q] = "live" => pc'[q] \in Handling \cup {"closing"}
             /\ conn'[q] = "dead" => q \in struck'
             /\ resp'[q] = Failure => pc'[q] = "refused"
  <2>1. CASE q = r
    <3>1. conn'[r] = c
      BY DEF PoolInv
    <3>2. resp'[r] = Failure => pc'[r] = "refused"
      BY DEF PoolInv, MovesOn
    <3> QED
      BY <2>1, <3>1, <3>2 DEF MovesOn
  <2>2. CASE q # r
    <3>1. conn'[q] = conn[q]
      BY <2>2 DEF PoolInv
    <3>2. pc'[q] = pc[q] /\ resp'[q] = resp[q]
      BY <2>2 DEF MovesOn, TypeInv, TypeOK
    <3> QED
      BY <3>1, <3>2 DEF PoolInv
  <2> QED
    BY <2>1, <2>2
<1> QED
  BY <1>1, <1>2 DEF PoolInv

\* A step on a connection keeps it or gives it back.
LEMMA OnConnection ==
    ASSUME TypeInv, PoolInv, NEW r \in Requests, MovesOn(r), struck' = struck,
           KeepOrGiveBack(r)
    PROVE  PoolInv'
<1> DEFINE c == IF pc'[r] \in Finished THEN "none" ELSE "live"
<1>1. conn' = [conn EXCEPT ![r] = c]
  BY DEF KeepOrGiveBack
<1>2. c \in {"none", "live", "dead"} /\ c # "dead"
      /\ (c = "live" => pc'[r] \notin Finished)
  OBVIOUS
<1> HIDE DEF c
<1> QED
  BY <1>1, <1>2, PoolFrame

\* A step without one changes none.
LEMMA OffConnection ==
    ASSUME TypeInv, PoolInv, NEW r \in Requests, MovesOn(r), struck' = struck,
           conn' = conn, conn[r] # "live" \/ pc'[r] \notin Finished
    PROVE  PoolInv'
<1>1. conn' = [conn EXCEPT ![r] = conn[r]]
  BY DEF PoolInv
<1>2. conn[r] \in {"none", "live", "dead"} /\ (conn[r] = "dead" => r \in struck)
  BY DEF PoolInv
<1> QED
  BY <1>1, <1>2, PoolFrame

LEMMA RequestPool ==
    ASSUME TypeInv, PoolInv, NEW r \in Requests, RequestStep(r)
    PROVE  PoolInv'
<1>1. CASE Checkout(r)
  BY <1>1 DEF Checkout, NeedsConnection, PoolInv, Handling, vars
<1>2. CASE ConnectFails(r) \/ CheckoutTimeout(r)
  BY <1>2, FailureMovesOn, OffConnection
  DEF ConnectFails, CheckoutTimeout, NeedsConnection
<1>3. CASE WithoutConnection(r)
  BY <1>3, StepMovesOn, OffConnection DEF WithoutConnection
<1>4. CASE Statement(r)
  BY <1>4, StepMovesOn, OnConnection DEF Statement
<1>5. CASE LoginOnDead(r)
  BY <1>5, StepMovesOn, OffConnection DEF LoginOnDead
<1>6. CASE Discard(r)
  <2>1. conn' = [conn EXCEPT ![r] = "none"] /\ struck' = struck
    BY <1>6 DEF Discard
  <2>2. CASE StatementFails(r) \/ CommitFails(r)
    BY <2>1, <2>2, FailureMovesOn, PoolFrame
  <2>3. CASE UNCHANGED vars
    BY <2>1, <2>3 DEF PoolInv, vars
  <2> QED
    BY <1>6, <2>2, <2>3 DEF Discard
<1> QED
  BY <1>1, <1>2, <1>3, <1>4, <1>5, <1>6 DEF RequestStep

LEMMA RaisesPool ==
    ASSUME TypeInv, PoolInv, NEW r \in Requests, StatementRaises(r)
    PROVE  PoolInv'
BY FailureMovesOn, OnConnection DEF StatementRaises

LEMMA LosePool ==
    ASSUME TypeInv, PoolInv, NEW r \in Requests, LoseConnection(r)
    PROVE  PoolInv'
<1>1. conn' = [conn EXCEPT ![r] = "dead"] /\ struck' = struck \cup {r}
  BY DEF LoseConnection
<1>2. CASE CommitFails(r)
  BY <1>1, <1>2, FailureMovesOn, PoolFrame
<1>3. CASE UNCHANGED vars
  BY <1>1, <1>3 DEF PoolInv, vars
<1> QED
  BY <1>2, <1>3 DEF LoseConnection

LEMMA NextPool == TypeInv /\ PoolInv /\ [PoolNext]_poolVars => PoolInv'
<1> SUFFICES ASSUME TypeInv, PoolInv, [PoolNext]_poolVars PROVE PoolInv'
  OBVIOUS
<1>1. ASSUME NEW r \in Requests, RequestStep(r) PROVE PoolInv'
  BY <1>1, RequestPool
<1>2. ASSUME NEW r \in Requests, StatementRaises(r) PROVE PoolInv'
  BY <1>2, RaisesPool
<1>3. ASSUME NEW r \in Requests, LoseConnection(r) PROVE PoolInv'
  BY <1>3, LosePool
<1>4. CASE LoseIdle \/ Outage
  BY <1>4 DEF LoseIdle, Outage, PoolInv, vars
<1>5. CASE PoolCrash
  <2>1. /\ conn' = [r \in Requests |-> "none"]
        /\ resp' = resp
        /\ \A r \in Requests : pc[r] = "refused" => pc'[r] = "refused"
    BY <1>5 DEF PoolCrash, Crash, Handling
  <2> QED
    BY <2>1 DEF PoolInv
<1>6. ASSUME NEW r \in Requests, ClientStep(r),
             UNCHANGED <<conn, idle, struck, reachable>>
      PROVE  PoolInv'
  <2>1. /\ pc[r] = "idle" /\ resp' = resp
        /\ \A q \in Requests : q # r => pc'[q] = pc[q]
    BY <1>6 DEF ClientStep, Submit, TypeInv, TypeOK
  <2> QED
    BY <1>6, <2>1 DEF PoolInv, Handling
<1>7. CASE Tick /\ UNCHANGED <<conn, idle, struck, reachable>>
  BY <1>7 DEF Tick, PoolInv
<1>8. CASE UNCHANGED poolVars
  BY <1>8 DEF poolVars, vars, PoolInv
<1> QED
  BY <1>1, <1>2, <1>3, <1>4, <1>5, <1>6, <1>7, <1>8 DEF PoolNext

LEMMA InitPool == PoolInit => PoolInv
<1> SUFFICES ASSUME PoolInit PROVE PoolInv
  OBVIOUS
<1>1. None # Failure
  BY DataAssumption DEF Response, Failure
<1> QED
  BY <1>1 DEF PoolInit, Init, PoolInv

\* The action of RefusalsForWantOfAConnection, for one request.
Explained(r) ==
    (/\ conn[r] # "live"
     /\ pc'[r] # pc[r] /\ resp'[r] = [status |-> 500]) =>
        \/ r \in struck
        \/ ~reachable
        \/ LET busy == {q \in InUse : pc[q] \notin Finished \/ q \in struck}
           IN Cardinality(busy) >= PoolSize + MaxOverflow

\* Whoever holds a connection is under way or was struck.
LEMMA ExhaustedIsExplained ==
    ASSUME PoolInv, NEW r \in Requests, Exhausted
    PROVE  Explained(r)
<1>1. InUse = {q \in InUse : pc[q] \notin Finished \/ q \in struck}
  BY DEF PoolInv, InUse, Finished, Handling
<1> QED
  BY <1>1 DEF Exhausted, Explained

\* Who stays where he is, or ends without an answer, has nothing to explain.
LEMMA StayingIsExplained ==
    ASSUME PoolInv, NEW r \in Requests,
           \/ pc'[r] = pc[r]
           \/ resp'[r] = resp[r] /\ pc[r] # "refused"
    PROVE  Explained(r)
BY DEF Explained, PoolInv, Failure

LEMMA OthersStay ==
    ASSUME TypeInv, NEW q \in Requests, NEW r \in Requests, MovesOn(r), q # r
    PROVE  pc'[q] = pc[q]
BY DEF MovesOn, TypeInv, TypeOK

\* Whose connection works has nothing to explain, nor has who lost it.
LEMMA HoldingIsExplained ==
    ASSUME TypeInv, PoolInv, NEW q \in Requests, NEW r \in Requests,
           MovesOn(r), conn[r] # "none"
    PROVE  Explained(q)
<1>1. CASE q = r
  BY <1>1 DEF Explained, PoolInv
<1>2. CASE q # r
  BY <1>2, OthersStay, StayingIsExplained
<1> QED
  BY <1>1, <1>2

LEMMA RequestStepIsExplained ==
    ASSUME TypeInv, PoolInv, NEW q \in Requests, NEW r \in Requests,
           RequestStep(r)
    PROVE  Explained(q)
<1>1. CASE Checkout(r)
  BY <1>1, StayingIsExplained DEF Checkout, vars
<1>2. CASE ConnectFails(r)
  BY <1>2 DEF ConnectFails, Explained
<1>3. CASE CheckoutTimeout(r)
  BY <1>3, ExhaustedIsExplained DEF CheckoutTimeout
<1>4. CASE WithoutConnection(r)
  <2>1. CASE q = r
    <3>1. pc[r] # "refused" /\ [status |-> 401] # [status |-> 500]
      BY <1>4 DEF WithoutConnection
    <3>2. CASE resp' = resp
      BY <2>1, <3>1, <3>2, StayingIsExplained
    <3>3. CASE resp'[r] = [status |-> 401]
      <4>1. resp'[q] # [status |-> 500]
        BY <2>1, <3>3
      <4> QED
        BY <4>1 DEF Explained
    <3> QED
      BY <1>4, <3>2, <3>3, OnlyTheToken
  <2>2. CASE q # r
    BY <1>4, <2>2, StepMovesOn, OthersStay, StayingIsExplained
    DEF WithoutConnection
  <2> QED
    BY <2>1, <2>2
<1>5. CASE Statement(r) \/ LoginOnDead(r)
  BY <1>5, StepMovesOn, HoldingIsExplained DEF Statement, LoginOnDead
<1>6. CASE Discard(r)
  <2>1. CASE StatementFails(r) \/ CommitFails(r)
    BY <1>6, <2>1, FailureMovesOn, HoldingIsExplained DEF Discard
  <2>2. CASE UNCHANGED vars
    BY <2>2, StayingIsExplained DEF vars
  <2> QED
    BY <1>6, <2>1, <2>2 DEF Discard
<1> QED
  BY <1>1, <1>2, <1>3, <1>4, <1>5, <1>6 DEF RequestStep

LEMMA PoolStepIsExplained ==
    ASSUME TypeInv, PoolInv, [PoolNext]_poolVars, NEW q \in Requests
    PROVE  Explained(q)
<1>1. ASSUME NEW r \in Requests, RequestStep(r) PROVE Explained(q)
  BY <1>1, RequestStepIsExplained
<1>2. ASSUME NEW r \in Requests, StatementRaises(r) PROVE Explained(q)
  BY <1>2, FailureMovesOn, HoldingIsExplained DEF StatementRaises
<1>3. ASSUME NEW r \in Requests, LoseConnection(r) PROVE Explained(q)
  <2>1. CASE CommitFails(r)
    BY <1>3, <2>1, FailureMovesOn, HoldingIsExplained DEF LoseConnection
  <2>2. CASE UNCHANGED vars
    BY <2>2, StayingIsExplained DEF vars
  <2> QED
    BY <1>3, <2>1, <2>2 DEF LoseConnection
<1>4. CASE LoseIdle \/ Outage
  BY <1>4, StayingIsExplained DEF LoseIdle, Outage, vars
<1>5. CASE PoolCrash
  <2>1. /\ resp'[q] = resp[q]
        /\ pc[q] = "refused" => pc'[q] = pc[q]
    BY <1>5 DEF PoolCrash, Crash, Handling
  <2> QED
    BY <2>1, StayingIsExplained
<1>6. ASSUME NEW r \in Requests, ClientStep(r) PROVE Explained(q)
  <2>1. /\ pc[r] = "idle" /\ resp' = resp
        /\ q # r => pc'[q] = pc[q]
    BY <1>6 DEF ClientStep, Submit, TypeInv, TypeOK
  <2> QED
    BY <2>1, StayingIsExplained
<1>7. CASE Tick
  BY <1>7, StayingIsExplained DEF Tick
<1>8. CASE UNCHANGED poolVars
  BY <1>8, StayingIsExplained DEF poolVars, vars
<1> QED
  BY <1>1, <1>2, <1>3, <1>4, <1>5, <1>6, <1>7, <1>8 DEF PoolNext

\* Nobody is turned away for want of a connection without a cause: his own
\* was lost, PostgreSQL takes no new ones, or all there may be are in use by
\* others that are under way or were struck as well.  A pool of any size
\* hands out no dead connection, and every way out of get_db gives one back,
\* whatever else may fail on it (database.py:24-51).
THEOREM NobodyIsTurnedAwayWithoutCause ==
    PoolSpec => RefusalsForWantOfAConnection
<1>1. TypeInv /\ PoolInv /\ [PoolNext]_poolVars =>
          [\A r \in Requests :
               (/\ conn[r] # "live"
                /\ pc'[r] # pc[r] /\ resp'[r] = [status |-> 500]) =>
                   \/ r \in struck
                   \/ ~reachable
                   \/ LET busy == {q \in InUse : pc[q] \notin Finished
                                                 \/ q \in struck}
                      IN Cardinality(busy) >= PoolSize + MaxOverflow]_poolVars
  <2> SUFFICES ASSUME TypeInv, PoolInv, [PoolNext]_poolVars
               PROVE  \A r \in Requests : Explained(r)
    BY DEF Explained
  <2> QED
    BY PoolStepIsExplained
<1>2. PoolSpec => Spec
  BY PoolImplementsApi DEF ImplementsApi
<1> QED
  BY <1>1, <1>2, TypeInvariance, InitPool, NextPool, PTL
  DEF PoolSpec, RefusalsForWantOfAConnection

=============================================================================
