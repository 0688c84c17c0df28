------------------------------ MODULE MCDeferred ------------------------------
(* Instances of Deferred for TLC: model values are given in the cfg files. *)
EXTENDS Deferred, TLC

CONSTANTS p1, p2, a, b

OneProc == {p1}
TwoProcs == {p1, p2}

(* The processes are interchangeable. *)
Interchangeable == Permutations(TwoProcs)

=============================================================================
