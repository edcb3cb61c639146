---------------------------- MODULE MCInodeTable -----------------------------
(* Bounded instances of InodeTable: one dispatch thread, and two. *)
EXTENDS InodeTable
=============================================================================
