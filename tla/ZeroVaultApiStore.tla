-------------------------- MODULE ZeroVaultApiStore --------------------------
(***************************************************************************)
(* ZeroVaultApi implements VaultStore: its handlers, cut at every await,   *)
(* look to a client like calls that are decided in one step.  A handler    *)
(* under way is an open call, a session waiting for get_db's exit code is  *)
(* a promise, and the step that sends the response is the one that decides *)
(* the call.                                                               *)
(***************************************************************************)
EXTENDS ZeroVaultApi

StoreState(place) ==
    CASE place \in Handling       -> "open"
      [] place = "closing"        -> "promised"
      [] place = "committed"      -> "kept"
      [] place = "commit_failed"  -> "broken"
      [] place = "lost"           -> "vanished"
      [] OTHER                    -> place

Store == INSTANCE VaultStore WITH
             state   <- [r \in Requests |-> StoreState(pc[r])],
             call    <- req,
             promise <- session,
             answer  <- resp

\* Every behaviour of the backend is one of the atomic store: racing
\* registrations reserve a name one at a time, a list is one snapshot, a
\* refusal has a true reason, and a crash breaks promises but tears none
\* (routers/auth.py, routers/vault.py, database.py:41-51).
ImplementsVaultStore == Store!Spec

=============================================================================
