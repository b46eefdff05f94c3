---------------------------- MODULE MCHostKeys ----------------------------
(* Instances of HostKeys: three attempts, two of them on the same host. *)
EXTENDS HostKeys, TLC
CONSTANTS h1, h2, k1, k2, a1, a2, a3, i1, i2, i3

TwoHosts == {h1, h2}
TwoKeys  == {k1, k2}
ThreeAttempts == {a1, a2, a3}
Targets == a1 :> h1 @@ a2 :> h1 @@ a3 :> h2

ThreeIsolates == {i1, i2, i3}
Shared == [a \in ThreeAttempts |-> i1]
JustShared == {Shared}
Anyhow     == [ThreeAttempts -> ThreeIsolates]

HostKeySymmetry == Permutations(TwoKeys) \cup Permutations(ThreeIsolates)
=============================================================================
