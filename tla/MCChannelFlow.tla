---------------------------- MODULE MCChannelFlow ----------------------------
(* Small instances of ChannelFlow. *)
EXTENDS ChannelFlow, TLC

CONSTANTS w1, w2

TwoWriters == {w1, w2}
TwoEach == [w \in TwoWriters |-> 2]
ThreeAndTwo == (w1 :> 3) @@ (w2 :> 2)
OneAndTwo == {1, 2}
OneAndThree == {1, 3}
ZeroOrTwo == {0, 2}
JustTwo == {2}
Both == {"eof", "close"}
Neither == {}
=============================================================================
