-------------------------- MODULE MCArchiveTransfer --------------------------
(* A map without an archive, two with one, and one whose archive is empty;  *)
(* chunks shorter and longer than either part.                              *)
EXTENDS ArchiveTransfer, TLC

CONSTANTS plain, small, large, bare

MCMapSize     == (plain :> 4) @@ (small :> 2) @@ (large :> 5) @@ (bare :> 3)
MCArchiveSize == (small :> 1) @@ (large :> 4) @@ (bare :> 0)
=============================================================================
