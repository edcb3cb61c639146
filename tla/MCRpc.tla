-------------------------------- MODULE MCRpc --------------------------------
(* Instances of Rpc, and Compress against the loop of update_xid_rep. *)
EXTENDS Rpc, SequencesExt

(* The first of the elements that are left when the iterator has been at x. *)
PopFront(w, first, x) ==
  CHOOSE i \in first .. Len(w) : /\ w[i] + 1 # x
                                 /\ \A j \in first .. i - 1 : w[j] + 1 = x

CompressLoop(w) ==
  LET first == FoldLeft(LAMBDA i, x : PopFront(w, i, x), 1, Tail(w))
  IN SubSeq(w, first, Len(w))

(* On every sorted list, with elements twice as well, the two agree. *)
ASSUME LoopCompresses ==
  \A n \in 1 .. 5 : \A w \in [1 .. n -> 0 .. 5] :
    (\A i \in 1 .. n - 1 : w[i] <= w[i + 1]) => Compress(w) = CompressLoop(w)
=============================================================================
