--------------------------- MODULE MCInodeManager ----------------------------
(* Bounded instances of InodeManager. *)
EXTENDS InodeManager
=============================================================================
