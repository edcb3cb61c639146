----------------------------- MODULE MCYfsClient -----------------------------
(* Bounded instances of YfsClient. *)
EXTENDS YfsClient

(* The first two can take the place of the third, no other of another. *)
MixedNames == <<1, 2, 6>>
(* Two names, the first short enough to take the place of the other. *)
LongNames == <<1, 8>>
=============================================================================
