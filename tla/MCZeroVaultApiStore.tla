------------------------- MODULE MCZeroVaultApiStore -------------------------
(***************************************************************************)
(* The instances of MCZeroVaultApi, with the store they implement.         *)
(***************************************************************************)
EXTENDS MCZeroVaultApi, ZeroVaultApiStore

=============================================================================
