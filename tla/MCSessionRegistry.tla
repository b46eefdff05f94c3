-------------------------- MODULE MCSessionRegistry --------------------------
(* Instances of SessionRegistry: three sessions of one user. *)
EXTENDS SessionRegistry, TLC
CONSTANTS s1, s2, s3

ThreeSessions == {s1, s2, s3}
SessionSymmetry == Permutations(ThreeSessions)
=============================================================================
