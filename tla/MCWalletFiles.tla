----------------------------- MODULE MCWalletFiles -----------------------------
(* Instances of WalletFiles for TLC. *)
EXTENDS WalletFiles, TLC

CONSTANTS p1, p2, p3, short, long

Alike == Permutations({p1, p2, p3})

(* A public key has 43 or 44 characters, so the files differ in length.    *)
Lengths == short :> 43 @@ long :> 44

=============================================================================
