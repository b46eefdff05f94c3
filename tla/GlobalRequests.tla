------------------------------ MODULE GlobalRequests ------------------------------
(***************************************************************************)
(* The loop of a russh session once it is authenticated, on both sides     *)
(* (client/mod.rs Session::run and run_inner, server/session.rs            *)
(* Session::run), and what the loops exchange outside channels: global     *)
(* requests with their replies, keepalives with their timers, and the end  *)
(* of the session.                                                         *)
(*                                                                         *)
(* A reply to a global request carries no number.  Each side keeps the     *)
(* requests it sent in open_global_requests and gives a reply to the one   *)
(* at its front, so an answer reaches its caller only as long as the two   *)
(* sides agree on which requests are answered.                             *)
(*                                                                         *)
(* The server is either russh's own, which answers every request, or one   *)
(* that answers only the requests that ask for it, as OpenSSH does         *)
(* (external: what src/ relies on is the wire protocol alone).  Time is    *)
(* abstract: a timer may fire whenever it is armed; in a fast setup the    *)
(* line is so much faster than the interval that it fires only when        *)
(* nothing is on the way.                                                  *)
(***************************************************************************)
EXTENDS Naturals, Sequences, FiniteSets

CONSTANTS
    Calls,         \* calls of Handle methods, at most one request each
    Setups,        \* the configurations and programs to check, see SetupOK
    KeepaliveMax,  \* Config::keepalive_max
    MaxLine        \* bound: messages the line holds when a timer may fire

Sides == {"client", "server"}

Other(p) == IF p = "client" THEN "server" ELSE "client"

(***************************************************************************)
(* What a call asks for.  forward_any leaves the port to the server;        *)
(* forward_port names it, or is granted by a Handler that sets none: either *)
(* way the success carries no port.  The _noreply kinds clear want_reply;   *)
(* forward_bare is Session::tcpip_forward without a reply channel, from a   *)
(* Handler; agent is the auth-agent-req request of a channel.               *)
(***************************************************************************)
ForwardKinds == {"forward_any", "forward_port"}
FlagKinds == {"cancel", "streamlocal", "cancel_streamlocal"}
WaitingKinds == ForwardKinds \cup FlagKinds \cup {"ping"}
SilentKinds == {"keepalive_noreply", "no_more_noreply", "forward_bare"}
Kinds == WaitingKinds \cup SilentKinds \cup {"no_more", "agent", "disconnect", "none"}

SetupOK(s) ==
    /\ s.peer \in {"russh", "openssh"}
    /\ s.keepalive \subseteq Sides
    /\ s.inactivity \subseteq Sides
    /\ s.fast \in BOOLEAN /\ s.cuts \in BOOLEAN
    /\ s.kind \in [Calls -> Kinds]
    /\ s.side \in [Calls -> Sides]
    /\ \A c \in Calls : s.side[c] = "server" =>
          s.kind[c] \in {"forward_any", "forward_port", "cancel", "disconnect", "none"}
    /\ s.peer = "openssh" =>
          /\ s.keepalive \subseteq {"client"} /\ s.inactivity \subseteq {"client"}
          /\ \A c \in Calls : s.side[c] = "server" => s.kind[c] \in {"none", "disconnect"}

ASSUME SetupsAssumption == \A s \in Setups : SetupOK(s)
ASSUME CallsAssumption == "timer" \notin Calls
ASSUME KeepaliveAssumption == KeepaliveMax \in Nat \ {0} /\ MaxLine \in Nat \ {0}

VARIABLES
    setup,    \* the configuration of this session, never changed
    status,   \* per side: up, draining, or why the session ended
    inbox,    \* per side: messages of the Handle the loop has not taken
    net,      \* per side: what was sent to it and not read
    open_global_requests,  \* per side: requests whose reply is to come
    alive_timeouts,        \* per side: keepalive intervals since data came
    wants_reply,           \* the server's flag of the last global request
    call,     \* per call: idle, pending, dropped, done or its result
    verdict,  \* per call: what the peer decided on its request (for the properties)
    cut       \* the connection is dead without either side being told

vars == <<setup, status, inbox, net, open_global_requests, alive_timeouts, wants_reply,
          call, verdict, cut>>

Kind(c) == setup.kind[c]
Side(c) == setup.side[c]

Live(p) == status[p] \in {"up", "draining"}

Ended(p) == ~Live(p)

Quiet == \A p \in Sides : net[p] = <<>>

\* A timer with an interval far longer than a round trip finds the line quiet.
TimeFor(p) ==
    status[p] = "up" /\ (setup.fast => Quiet) /\ \A r \in Sides : Len(net[r]) < MaxLine

Init ==
    /\ setup \in Setups
    /\ status = [p \in Sides |-> "up"]
    /\ inbox = [p \in Sides |-> <<>>]
    /\ net = [p \in Sides |-> <<>>]
    /\ open_global_requests = [p \in Sides |-> <<>>]
    /\ alive_timeouts = [p \in Sides |-> 0]
    /\ wants_reply = FALSE
    /\ call = [c \in Calls |-> "idle"]
    /\ verdict = [c \in Calls |-> "none"]
    /\ cut = FALSE

-----------------------------------------------------------------------------
\* Messages.

Request(name, want, c) == [type |-> "request", name |-> name, want |-> want, of |-> c]

\* A success carries the port when the request left it to the server.
Success(port) == [type |-> "success", port |-> port]
Failure == [type |-> "failure"]

\* What goes to a side that has stopped reading, or over a dead line, is lost.
SendTo(n, p, ms) ==
    IF Live(p) /\ ~cut THEN [n EXCEPT ![p] = @ \o ms] ELSE n

\* Keeps what the loop of p leaves alone when it neither ends nor changes state.
StaysUp == UNCHANGED <<setup, status, inbox, cut>>

-----------------------------------------------------------------------------
\* The Handle.

\* Handle::tcpip_forward .. no_more_sessions, disconnect; forward_tcpip of the server.
Call(c) ==
    /\ call[c] = "idle" /\ Kind(c) # "none"
    /\ IF Live(Side(c))
       THEN /\ inbox' = [inbox EXCEPT ![Side(c)] = Append(@, c)]
            /\ call' = [call EXCEPT
                  ![c] = IF Kind(c) \in WaitingKinds THEN "pending" ELSE "done"]
       ELSE call' = [call EXCEPT ![c] = "SendError"] /\ UNCHANGED inbox
    /\ UNCHANGED <<setup, status, net, open_global_requests, alive_timeouts, wants_reply,
                   verdict, cut>>

\* The program drops the future of a call; its entry stays in the queue.
Cancel(c) ==
    /\ call[c] = "pending"
    /\ call' = [call EXCEPT ![c] = "dropped"]
    /\ UNCHANGED <<setup, status, inbox, net, open_global_requests, alive_timeouts, wants_reply,
                   verdict, cut>>

-----------------------------------------------------------------------------
\* The end of a session.

\* The calls of a session whose reply channels are dropped with it.
Hangup(p) ==
    [c \in Calls |-> IF Side(c) = p /\ call[c] = "pending" THEN "Disconnect" ELSE call[c]]

\* The mutant of Stop that keeps the write half open.
StopHalf(p, why, ms) ==
    /\ status' = [status EXCEPT ![p] = why]
    /\ net' = [SendTo(net, Other(p), ms) EXCEPT ![p] = <<>>]
    /\ inbox' = [inbox EXCEPT ![p] = <<>>]
    /\ open_global_requests' = [open_global_requests EXCEPT ![p] = <<>>]
    /\ call' = Hangup(p)
    /\ UNCHANGED <<setup, alive_timeouts, wants_reply, verdict, cut>>

\* run returns: the stream is shut down after what was flushed, the receivers are
\* closed, and open_global_requests is dropped with its reply channels.
Stop(p, why, ms) ==
    /\ status' = [status EXCEPT ![p] = why]
    /\ net' = [SendTo(net, Other(p), Append(ms, [type |-> "eof"])) EXCEPT ![p] = <<>>]
    /\ inbox' = [inbox EXCEPT ![p] = <<>>]
    /\ open_global_requests' = [open_global_requests EXCEPT ![p] = <<>>]
    /\ call' = Hangup(p)
    /\ UNCHANGED <<setup, alive_timeouts, wants_reply, verdict, cut>>

\* The loop of the server ends in order: it shuts its side down and reads on until the
\* client closes; the session, with the reply channels, lives until then.
Drain(ms) ==
    /\ status' = [status EXCEPT !["server"] = "draining"]
    /\ net' = [SendTo(net, "client", Append(ms, [type |-> "eof"])) EXCEPT !["server"] = Tail(@)]
    /\ UNCHANGED <<setup, inbox, open_global_requests, alive_timeouts, wants_reply, call,
                   verdict, cut>>

\* The reads of the drain: until the end of the stream.
DrainRead ==
    /\ status["server"] = "draining" /\ net["server"] # <<>>
    /\ IF Head(net["server"]).type = "eof"
       THEN Stop("server", "Closed", <<>>)
       ELSE /\ net' = [net EXCEPT !["server"] = Tail(@)]
            /\ UNCHANGED <<setup, status, inbox, open_global_requests, alive_timeouts,
                           wants_reply, call, verdict, cut>>

\* CommonSession::disconnect, and the loop that ends after flushing it.
disconnect(p) ==
    LET bye == <<[type |-> "disconnect"]>> IN
    IF p = "client"
    THEN Stop(p, "Disconnect", bye)
    ELSE /\ status' = [status EXCEPT ![p] = "draining"]
         /\ net' = SendTo(net, "client", Append(bye, [type |-> "eof"]))
         /\ inbox' = [inbox EXCEPT ![p] = Tail(@)]
         /\ UNCHANGED <<setup, open_global_requests, alive_timeouts, wants_reply, call,
                        verdict, cut>>

\* process_disconnect of the client, the break of the server, and the end of the stream.
ReadEnd(p) ==
    /\ status[p] = "up" /\ net[p] # <<>>
    /\ Head(net[p]).type \in {"disconnect", "eof"}
    /\ IF p = "client"
       THEN Stop(p, IF Head(net[p]).type = "eof" THEN "Eof" ELSE "ReceivedDisconnect", <<>>)
       ELSE IF Head(net[p]).type = "eof"
            THEN Stop(p, "Eof", <<>>)
            ELSE Drain(<<>>)

\* The Handle is dropped: only when no call borrows it.
HandleDropped ==
    /\ status["client"] = "up" /\ inbox["client"] = <<>>
    /\ \A c \in Calls : Side(c) = "client" => call[c] # "pending"
    /\ Stop("client", "HandleDropped", <<>>)

\* The connection dies silently: a lost route, a peer that hangs.
Cut ==
    /\ setup.cuts /\ ~cut
    /\ cut' = TRUE
    /\ net' = [p \in Sides |-> <<>>]
    /\ UNCHANGED <<setup, status, inbox, open_global_requests, alive_timeouts, wants_reply,
                   call, verdict>>

-----------------------------------------------------------------------------
\* The loop takes a message of the Handle.

\* A request, and the entry that awaits its reply.
SendRequest(p, c, name, want, entry) ==
    /\ net' = SendTo(net, Other(p), <<Request(name, want, c)>>)
    /\ open_global_requests' = [open_global_requests EXCEPT ![p] = @ \o entry]
    /\ inbox' = [inbox EXCEPT ![p] = Tail(@)]
    /\ UNCHANGED <<setup, status, alive_timeouts, wants_reply, call, verdict, cut>>

\* The mutant of forward that queues the request before the ones already waiting.
forward_stacked(p, c) ==
    /\ Kind(c) \in ForwardKinds \cup FlagKinds \cup {"forward_bare"}
    /\ net' = SendTo(net, Other(p), <<Request(Kind(c), Kind(c) # "forward_bare", c)>>)
    /\ open_global_requests' = [open_global_requests EXCEPT
          ![p] = (IF Kind(c) # "forward_bare" THEN <<c>> ELSE <<>>) \o @]
    /\ inbox' = [inbox EXCEPT ![p] = Tail(@)]
    /\ UNCHANGED <<setup, status, alive_timeouts, wants_reply, call, verdict, cut>>

\* Session::tcpip_forward .. cancel_streamlocal_forward: an entry iff a reply is wanted.
forward(p, c) ==
    /\ Kind(c) \in ForwardKinds \cup FlagKinds \cup {"forward_bare"}
    /\ LET wanted == Kind(c) # "forward_bare" IN
       SendRequest(p, c, Kind(c), wanted, IF wanted THEN <<c>> ELSE <<>>)

\* Session::send_ping, send_keepalive, no_more_sessions: always an entry.  The server knows
\* neither keepalives nor no-more-sessions, so one name stands for both.
ping(p, c) ==
    /\ Kind(c) \in {"ping", "keepalive_noreply", "no_more", "no_more_noreply"}
    /\ SendRequest(p, c, "keepalive", Kind(c) \in {"ping", "no_more"}, <<c>>)

\* Session::agent_forward: a request of a channel, with no entry.
agent_forward(p, c) ==
    /\ Kind(c) = "agent"
    /\ SendRequest(p, c, "agent", TRUE, <<>>)

\* Session::handle_msg of the client, and the receiver's arm of the server's loop.
HandleMsg(p) ==
    /\ status[p] = "up" /\ inbox[p] # <<>>
    /\ LET c == Head(inbox[p]) IN
       \/ Kind(c) = "disconnect" /\ disconnect(p)
       \/ forward(p, c)
       \/ ping(p, c)
       \/ agent_forward(p, c)

-----------------------------------------------------------------------------
\* The loop reads a packet.

\* The mutant of DataReceived that only starts the timer again.
DataIgnored(p) == UNCHANGED alive_timeouts

\* Data resets the count of silent intervals.
DataReceived(p) == alive_timeouts' = [alive_timeouts EXCEPT ![p] = 0]

Answer(p, ms) == net' = [SendTo(net, Other(p), ms) EXCEPT ![p] = Tail(@)]

\* The client's answers: keepalives are granted when a reply is wanted, everything else
\* is refused without looking.  A request does not count as data.
ClientReadsRequest ==
    /\ status["client"] = "up" /\ net["client"] # <<>>
    /\ LET m == Head(net["client"]) IN
       /\ m.type = "request"
       /\ Answer("client", IF m.name # "keepalive" THEN <<Failure>>
                           ELSE IF m.want THEN <<Success(FALSE)>> ELSE <<>>)
       /\ verdict' = IF m.of \in Calls THEN [verdict EXCEPT ![m.of] = "denied"] ELSE verdict
    /\ StaysUp /\ UNCHANGED <<open_global_requests, alive_timeouts, wants_reply, call>>

\* The mutant of RusshReply that leaves refusals unanswered.
RusshReplyToSuccess(m, granted) ==
    IF granted THEN <<Success(m.want /\ m.name = "forward_any")>> ELSE <<>>

\* A reply of the russh server: whether or not one was wanted.
RusshReply(m, granted) ==
    IF granted THEN <<Success(m.want /\ m.name = "forward_any")>> ELSE <<Failure>>

\* Session::request_success, request_failure: the answer to auth-agent-req.
request_result(granted) ==
    IF granted /\ ~wants_reply THEN <<>>
    ELSE IF granted THEN <<Success(FALSE)>> ELSE <<Failure>>

\* The server's handling of a request: the Handler decides on forwards and on the agent,
\* anything else is unknown and refused.
ServerReadsRequest ==
    /\ status["server"] = "up" /\ net["server"] # <<>>
    /\ LET m == Head(net["server"]) IN
       /\ m.type = "request"
       /\ \E granted \in IF m.name = "keepalive" THEN {FALSE} ELSE BOOLEAN :
             /\ Answer("server",
                   IF setup.peer = "openssh"
                   THEN IF m.want /\ m.name # "agent" THEN RusshReply(m, granted) ELSE <<>>
                   ELSE IF m.name = "agent" THEN request_result(granted)
                   ELSE RusshReply(m, granted))
             /\ wants_reply' = (m.name # "agent" /\ m.want)
             /\ verdict' = IF m.of \in Calls
                           THEN [verdict EXCEPT
                                   ![m.of] = IF granted THEN "granted" ELSE "denied"]
                           ELSE verdict
    /\ DataReceived("server")
    /\ StaysUp /\ UNCHANGED <<open_global_requests, call>>

\* What the entry at the front makes of a reply.
Outcome(c, m) ==
    IF Kind(c) = "ping" THEN "pong"
    ELSE IF m.type = "failure" THEN "denied"
    ELSE IF Kind(c) \in FlagKinds THEN "ok"
    ELSE IF m.port THEN "port" ELSE "zero"

\* REQUEST_SUCCESS and REQUEST_FAILURE: the reply is for the front of the queue, if any;
\* keepalives and no-more-sessions ignore it, a dropped call cannot be told.
ReadReply(p) ==
    /\ status[p] = "up" /\ net[p] # <<>>
    /\ Head(net[p]).type \in {"success", "failure"}
    /\ IF open_global_requests[p] = <<>>
       THEN UNCHANGED <<call, open_global_requests>>
       ELSE LET c == Head(open_global_requests[p]) IN
            /\ open_global_requests' = [open_global_requests EXCEPT ![p] = Tail(@)]
            /\ call' = IF c \in Calls /\ call[c] = "pending"
                       THEN [call EXCEPT ![c] = Outcome(c, Head(net[p]))]
                       ELSE call
    /\ net' = [net EXCEPT ![p] = Tail(@)]
    /\ DataReceived(p)
    /\ StaysUp /\ UNCHANGED <<wants_reply, verdict>>

ClientReadsReply == ReadReply("client")
ServerReadsReply == ReadReply("server")

-----------------------------------------------------------------------------
\* The timers.

\* send_keepalive, keepalive_request: a request of the loop itself, with its entry.
keepalive_request(p) ==
    /\ net' = SendTo(net, Other(p), <<Request("keepalive", TRUE, "timer")>>)
    /\ open_global_requests' = [open_global_requests EXCEPT ![p] = Append(@, "timer")]
    /\ StaysUp /\ UNCHANGED <<wants_reply, call, verdict>>

\* The mutant of KeepaliveTimer that never gives up.
KeepaliveTimerForever(p) ==
    /\ p \in setup.keepalive /\ TimeFor(p)
    /\ alive_timeouts' = [alive_timeouts EXCEPT
          ![p] = IF @ = KeepaliveMax THEN @ ELSE @ + 1]
    /\ net' = SendTo(net, Other(p), <<Request("keepalive", TRUE, "timer")>>)
    /\ open_global_requests' =
          IF alive_timeouts[p] = KeepaliveMax THEN open_global_requests
          ELSE [open_global_requests EXCEPT ![p] = Append(@, "timer")]
    /\ StaysUp /\ UNCHANGED <<wants_reply, call, verdict>>

\* keepalive_timer: a keepalive, or the end after KeepaliveMax of them in silence.
KeepaliveTimer(p) ==
    /\ p \in setup.keepalive /\ TimeFor(p)
    /\ IF alive_timeouts[p] + 1 > KeepaliveMax
       THEN Stop(p, "KeepaliveTimeout", <<>>)
       ELSE /\ alive_timeouts' = [alive_timeouts EXCEPT ![p] = @ + 1]
            /\ keepalive_request(p)

\* inactivity_timer.
InactivityTimer(p) ==
    /\ p \in setup.inactivity /\ TimeFor(p)
    /\ Stop(p, "InactivityTimeout", <<>>)

-----------------------------------------------------------------------------
\* The reading arm of the loops.
ClientReads == ReadEnd("client") \/ ClientReadsReply \/ ClientReadsRequest
ServerReads == ReadEnd("server") \/ ServerReadsReply \/ ServerReadsRequest \/ DrainRead

\* Session::run_inner of the client: the native and the wasm build differ in how they
\* start a timer again, not in when.
ClientLoop ==
    \/ HandleMsg("client") \/ HandleDropped
    \/ ClientReads
    \/ KeepaliveTimer("client") \/ InactivityTimer("client")

\* Session::run of the server.
ServerLoop ==
    \/ HandleMsg("server")
    \/ ServerReads
    \/ KeepaliveTimer("server") \/ InactivityTimer("server")

Next ==
    \/ \E c \in Calls : Call(c) \/ Cancel(c)
    \/ ClientLoop
    \/ ServerLoop
    \/ Cut

Spec == Init /\ [][Next]_vars

\* The runtime polls each session task, and select picks among its ready arms at random.
FairSpec ==
    /\ Spec
    /\ WF_vars(ClientReads) /\ WF_vars(ServerReads)
    /\ \A p \in Sides : WF_vars(HandleMsg(p)) /\ WF_vars(KeepaliveTimer(p))

-----------------------------------------------------------------------------
\* Properties.

Messages ==
    [type : {"request"}, name : {"keepalive", "agent", "forward_bare"} \cup ForwardKinds
        \cup FlagKinds, want : BOOLEAN, of : Calls \cup {"timer"}]
        \cup [type : {"success"}, port : BOOLEAN]
        \cup [type : {"failure", "disconnect", "eof"}]

(***************************************************************************)
(* Types, and what Session::run relies on: an ended session holds no queue  *)
(* and no unread message, and alive_timeouts never passes keepalive_max.    *)
(***************************************************************************)
TypeOK ==
    /\ setup \in Setups
    /\ status \in [Sides -> {"up", "draining", "Disconnect", "ReceivedDisconnect", "Eof",
                             "Closed", "HandleDropped", "KeepaliveTimeout",
                             "InactivityTimeout"}]
    /\ inbox \in [Sides -> Seq(Calls)]
    /\ net \in [Sides -> Seq(Messages)]
    /\ open_global_requests \in [Sides -> Seq(Calls \cup {"timer"})]
    /\ alive_timeouts \in [Sides -> 0 .. KeepaliveMax]
    /\ \A p \in Sides :
          Ended(p) => inbox[p] = <<>> /\ net[p] = <<>> /\ open_global_requests[p] = <<>>
    /\ wants_reply \in BOOLEAN
    /\ call \in [Calls -> {"idle", "pending", "dropped", "done", "SendError", "Disconnect",
                           "port", "zero", "ok", "denied", "pong"}]
    /\ verdict \in [Calls -> {"none", "granted", "denied"}]
    /\ cut \in BOOLEAN

\* The requests of this setup whose replies the two sides count differently.
Uncounted ==
    IF setup.peer = "openssh" THEN {"keepalive_noreply", "no_more_noreply"}
    ELSE {"forward_bare", "agent"}

Counted == \A c \in Calls : Kind(c) \notin Uncounted

Answers == {"port", "zero", "ok", "denied", "pong"}

\* The answer a call deserves: the peer's decision on its own request.
Deserved(c) ==
    IF verdict[c] = "none" THEN {}
    ELSE IF Kind(c) = "ping" THEN {"pong"}
    ELSE IF verdict[c] = "denied" THEN {"denied"}
    ELSE IF Kind(c) = "forward_any" THEN {"port"}
    ELSE IF Kind(c) = "forward_port" THEN {"zero"}
    ELSE {"ok"}

(***************************************************************************)
(* Handle::tcpip_forward and its kin: what a call returns is what the peer  *)
(* decided on its request, whatever other calls, dropped calls, keepalives  *)
(* and requests of the peer are in between.                                 *)
(***************************************************************************)
AnswersAreOwn == \A c \in Calls : call[c] \in Answers => call[c] \in Deserved(c)

(***************************************************************************)
(* The same where both sides count the same requests: the russh server is   *)
(* asked nothing without an entry in the queue, another server nothing      *)
(* without want_reply.                                                      *)
(***************************************************************************)
RightAnswer == Counted => AnswersAreOwn

IsReply(m) == m.type \in {"success", "failure"}

\* A request that will be answered.
Answerable(m) ==
    m.type = "request" /\ m.name # "agent" /\ (setup.peer = "openssh" => m.want)

(***************************************************************************)
(* The queue is in step with the line: open_global_requests has one entry   *)
(* for each request the peer has still to answer and for each reply on its  *)
(* way, so a reply never meets an empty queue.                              *)
(***************************************************************************)
QueueInStep ==
    Counted /\ ~cut => \A p \in Sides :
        status[p] = "up" /\ status[Other(p)] = "up" =>
            Len(open_global_requests[p]) =
                Cardinality({i \in DOMAIN net[Other(p)] : Answerable(net[Other(p)][i])})
                + Cardinality({i \in DOMAIN net[p] : IsReply(net[p][i])})

(***************************************************************************)
(* Replies to global requests are matched by position alone: where both     *)
(* sides count the same requests, the queue stays in step with the line and *)
(* every call is returned the answer to its own request.                    *)
(***************************************************************************)
RepliesMatched == TypeOK /\ RightAnswer /\ QueueInStep

(***************************************************************************)
(* keepalive_interval and keepalive_max: over a line that is faster than    *)
(* the interval, no side gives up a peer that runs, whichever sides send    *)
(* keepalives and whatever other requests are refused.                      *)
(***************************************************************************)
NoFalseTimeout ==
    setup.fast /\ ~cut => \A p \in Sides : status[p] # "KeepaliveTimeout"

(***************************************************************************)
(* Handle::send_ping, tcpip_forward and the others return: with an answer,  *)
(* or, with keepalives on, with an error once the session has noticed that  *)
(* the connection is dead.  The calls of a server that drains a dead        *)
(* connection are left out: see session.rs:673.                             *)
(***************************************************************************)
CallsReturn ==
    \A c \in Calls :
        (call[c] = "pending" /\ Counted
            /\ (Side(c) \in setup.keepalive \/ ~setup.cuts))
        ~> (call[c] # "pending" \/ (status["server"] = "draining" /\ cut))

(***************************************************************************)
(* The end of one session ends the other: Session::run shuts the stream     *)
(* down however it ends, and the drain of the server waits for that only.   *)
(***************************************************************************)
PeerEnds ==
    \A p \in Sides : Ended(p) ~> (Ended(Other(p)) \/ cut)

(***************************************************************************)
(* Nobody is left waiting: neither a caller for its reply nor a session for *)
(* a peer whose session has ended.                                          *)
(***************************************************************************)
NobodyWaits == CallsReturn /\ PeerEnds

=============================================================================
