---------------------------- MODULE MCClientSession ----------------------------
(* Instances of ClientSession for TLC. *)
EXTENDS ClientSession, TLC

CONSTANTS g1, g2

Alike == Permutations({g1, g2})

=============================================================================
