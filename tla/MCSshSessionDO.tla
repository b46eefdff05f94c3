--------------------------- MODULE MCSshSessionDO ---------------------------
(* Instances of SshSessionDO for TLC. *)
EXTENDS SshSessionDO, TLC
CONSTANTS w1, w2, d1, d2

OneSocket  == {w1}
TwoSockets == {w1, w2}
OneDelete  == {d1}
TwoDeletes == {d1, d2}
OneOrThree == {1, 3}

SocketSymmetry == Permutations({w1, w2})
=============================================================================
