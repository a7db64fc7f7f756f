------------------------- MODULE ZeroVaultApiHistory -------------------------
(***************************************************************************)
(* ZeroVaultApi with a history variable: what was over when a request was  *)
(* made.  It lets properties speak of real-time order, which is what a     *)
(* client that waits for one answer before it asks again relies on.        *)
(***************************************************************************)
EXTENDS ZeroVaultApi

VARIABLE before    \* per request: what had happened when it was submitted

historyVars == <<vars, before>>

\* Requests already answered with success, requests already committed, and
\* the time.
Snapshot ==
    [answered  |-> {q \in Requests : resp[q] # None
                                     /\ resp[q].status \in {200, 201}},
     committed |-> {q \in Requests : pc[q] = "committed"},
     time      |-> now]

HistoryInit == Init /\ before = [r \in Requests |-> None]

HistoryNext ==
    \/ \E r \in Requests :
           ClientStep(r) /\ before' = [before EXCEPT ![r] = Snapshot]
    \/ BackendStep /\ UNCHANGED before

HistorySpec == HistoryInit /\ [][HistoryNext]_historyVars

-----------------------------------------------------------------------------

SameCaller(r, q) == Caller(r) \cap Caller(q) # {}
Listed(r) == {e.id : e \in resp[r].entries}

\* Request r was answered as it must be if q's effect was there before it.
Reflects(r, q) ==
    /\ (req[q].op = "register" /\ req[r].op \in {"kdf_params", "login"}
        /\ req[r].username = req[q].username) =>
           resp[r].status = 200 \/ resp[r].status = 500
               \/ (req[r].op = "login" /\ req[r].auth_key # req[q].auth_key)
    /\ (req[q].op = "register" /\ req[r].op = "register"
        /\ req[r].username = req[q].username) => resp[r].status # 201
    /\ (req[q].op = "create" /\ Succeeded(r, "list") /\ SameCaller(r, q)) =>
           \/ resp[q].id \in Listed(r)
           \/ \E d \in Committed("delete") : req[d].entry_id = resp[q].id
    /\ (req[q].op = "delete" /\ Succeeded(r, "list")) =>
           req[q].entry_id \notin Listed(r)
    /\ (req[q].op = "delete" /\ req[r].op = "delete"
        /\ req[r].entry_id = req[q].entry_id) => resp[r].status # 200

\* A request sees every effect committed before it was made: whoever asks
\* after a commit finds the new account and the new entry, and never again a
\* deleted one (routers/auth.py:117,156, routers/vault.py:106-148).
CommittedIsSeen ==
    \A r \in Requests :
        resp[r] # None => \A q \in before[r].committed : Reflects(r, q)

\* A request sees every effect that was acknowledged before it was made: the
\* end-to-end test creates an entry, is told 201, lists, and expects it
\* (backend/tests/test_auth_flow.py:238-245).
AcknowledgedIsSeen ==
    \A r \in Requests :
        resp[r] # None => \A q \in before[r].answered : Reflects(r, q)

\* A vault request is served only on a token still alive when it was made,
\* and a genuine token is refused only once it has expired: expiry is checked
\* once, at the start, and to the instant (auth.py:63-67).
ExpiryIsExact ==
    \A r \in Requests :
        (resp[r] # None /\ req[r].op \in VaultOps /\ req[r].token # None) =>
            /\ resp[r].status \in {200, 201} =>
                   before[r].time < req[r].token.exp
            /\ resp[r].status = 401 => req[r].token.exp <= now

=============================================================================
