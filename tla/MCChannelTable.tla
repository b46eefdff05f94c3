--------------------------- MODULE MCChannelTable ---------------------------
(***************************************************************************)
(* The setups of ChannelTable that TLC explores: each stresses one thing   *)
(* the two applications can do at once.                                    *)
(***************************************************************************)
EXTENDS ChannelTable

Quiet == [by |-> <<"client">>, types |-> {"session"},
          writes |-> [client |-> 0, server |-> 0],
          ends |-> [client |-> {}, server |-> {}],
          kinds |-> {}, requests |-> 0, drops |-> {}, prompt |-> TRUE]

(* A channel with more data than the window from one side, closed by either. *)
Stream(p) == [Quiet EXCEPT !.writes = [Quiet.writes EXCEPT ![p] = 6],
                           !.ends = [client |-> {"close"}, server |-> {"close"}]]

(* Two channels in turn or at once, with messages late for the closed one. *)
Reopen == [Quiet EXCEPT !.by = <<"client", "client">>,
                        !.writes = [client |-> 1, server |-> 0],
                        !.ends = [client |-> {}, server |-> {"close"}]]

Crossed == [Quiet EXCEPT !.by = <<"client", "server">>,
                         !.types = {"session", "unknown"},
                         !.writes = [client |-> 0, server |-> 1],
                         !.ends = [client |-> {}, server |-> {"close", "exit-status", "eof"}]]

(* Open calls and channels dropped at any time. *)
Dropped(p) == [Quiet EXCEPT !.by = <<p>>, !.types = {"session", "unknown"},
                            !.writes = [client |-> 1, server |-> 1],
                            !.ends = [client |-> {"eof"}, server |-> {"close"}],
                            !.drops = Peers]

(* Channel requests, answered in the callback or later. *)
Asking == [Quiet EXCEPT !.kinds = {"exec", "agent", "notice", "other"}, !.requests = 2,
                        !.ends = [client |-> {}, server |-> {"close"}]]
Later == [Asking EXCEPT !.prompt = FALSE, !.ends = Quiet.ends]

AllSetups   == {Stream("client"), Stream("server"), Reopen, Crossed,
                Dropped("client"), Dropped("server"), Asking, Later}
LaterOnly   == {Later}
ClientEnds  == {[Quiet EXCEPT !.ends = [client |-> {"close"}, server |-> {}]]}

=============================================================================
