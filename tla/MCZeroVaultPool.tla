--------------------------- MODULE MCZeroVaultPool ---------------------------
(***************************************************************************)
(* The instances of MCZeroVaultApi on a pool of connections.               *)
(***************************************************************************)
EXTENDS MCZeroVaultApi, ZeroVaultPool

WithoutDelete == {"register", "login", "list"}

=============================================================================
