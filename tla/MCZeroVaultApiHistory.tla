------------------------ MODULE MCZeroVaultApiHistory ------------------------
(***************************************************************************)
(* Small instances of ZeroVaultApiHistory.                                 *)
(***************************************************************************)
EXTENDS MCZeroVaultApi, ZeroVaultApiHistory

=============================================================================
