----------------------------- MODULE MCChunkRelay -----------------------------
(* Instances of ChunkRelay for TLC. *)
EXTENDS ChunkRelay, TLC

CONSTANTS s1, s2, t1, t2

(* Two nodes, one transaction each. *)
OwnerTwo == t1 :> s1 @@ t2 :> s2
TwoChunks == t1 :> 2 @@ t2 :> 2
(* One relay. *)
OwnerOfOne == t1 :> s1
OneInTwo == t1 :> 2

=============================================================================
