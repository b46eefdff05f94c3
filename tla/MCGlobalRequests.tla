---------------------------- MODULE MCGlobalRequests ----------------------------
(* Instances of GlobalRequests for TLC. *)
EXTENDS GlobalRequests, TLC

CONSTANTS c1, c2, c3

Base == [peer |-> "russh", keepalive |-> {"client"}, inactivity |-> {}, fast |-> FALSE,
         cuts |-> FALSE, kind |-> [c \in Calls |-> "none"], side |-> [c \in Calls |-> "client"]]

\* Three calls of the client, or two and one of the server.
Asks(s, k1, k2, k3, p3) ==
    [s EXCEPT !.kind = (c1 :> k1 @@ c2 :> k2 @@ c3 :> k3), !.side = [@ EXCEPT ![c3] = p3]]

Answered == {
    Asks(Base, "forward_any", "none", "forward_port", "client"),
    Asks(Base, "keepalive_noreply", "forward_any", "no_more_noreply", "client"),
    Asks([Base EXCEPT !.keepalive = Sides, !.cuts = TRUE],
         "cancel", "none", "forward_any", "server"),
    Asks([Base EXCEPT !.keepalive = Sides, !.fast = TRUE],
         "ping", "streamlocal", "cancel", "server"),
    Asks([Base EXCEPT !.inactivity = Sides],
         "cancel_streamlocal", "no_more", "disconnect", "client"),
    Asks([Base EXCEPT !.cuts = TRUE], "ping", "none", "disconnect", "server"),
    Asks([Base EXCEPT !.peer = "openssh"], "forward_any", "none", "ping", "client"),
    Asks([Base EXCEPT !.peer = "openssh", !.fast = TRUE],
         "no_more", "forward_port", "disconnect", "server")}

\* Requests that one side answers and the other does not expect to be answered.
Mixed == {
    Asks(Base, "forward_bare", "forward_any", "none", "client"),
    Asks(Base, "agent", "cancel", "none", "client"),
    Asks([Base EXCEPT !.peer = "openssh"],
         "keepalive_noreply", "forward_any", "none", "client")}

AllSetups == Answered \cup Mixed
=============================================================================
