---------------------------- MODULE ChannelTable ----------------------------
(***************************************************************************)
(* The channels of one authenticated russh connection, client and server   *)
(* together: how a channel is opened, confirmed or refused, written to,    *)
(* closed and forgotten by both sides.                                     *)
(*                                                                         *)
(* Each side keeps two tables by its own channel id: enc.channels with the *)
(* parameters of the protocol (chans) and Session::channels with the       *)
(* sending end of the queue to the application's Channel (refs).  The      *)
(* applications reach their session through a bounded queue (inbox) and    *)
(* are reached by one bounded queue per channel (buf); a session that      *)
(* finds the latter full waits and does nothing else.  The two sessions    *)
(* talk over an ordered, lossless connection (net).                        *)
(*                                                                         *)
(* Every open call starts a conversation, numbered 1, 2, ...; the program  *)
(* knows only channel ids.  The conversation is carried along as a ghost   *)
(* (field c) to say which messages belong together.                        *)
(***************************************************************************)
EXTENDS Naturals, Sequences, FiniteSets, Functions

CONSTANTS
  IdSpace,      \* the number of channel ids, 2^32 in the code
  MaxOpens,     \* bound: open calls
  MaxWrites,    \* bound: units of data an end writes to a channel
  Window,       \* Config::window_size and the initial target_window_size
  Buffer,       \* Config::channel_buffer_size
  Inbox,        \* the capacity of the queue into a session (Config::event_buffer_size)
  Setups        \* what the two applications do, see SetupType

Peers == {"client", "server"}
Conv  == 1 .. MaxOpens
Ids   == 0 .. IdSpace - 1

(* The channel types a server decides about, and those it always refuses. *)
Decided == {"session", "x11", "direct-tcpip", "forwarded-tcpip", "direct-streamlocal"}
Refused == {"forwarded-streamlocal", "auth-agent", "unknown"}

(* by: who opens the conversations, in order; types: the channel types asked *)
(* for; writes, ends: the units of data and the ends (eof, close,            *)
(* exit-status) each side may send; kinds, requests: the client's channel    *)
(* requests and their number per channel; drops: the sides that may drop an  *)
(* open call or a Channel; prompt: whether the server's Handler answers      *)
(* requests in its callbacks or leaves that to its application.              *)
SetupType ==
  [by : UNION {[1 .. n -> Peers] : n \in 1 .. MaxOpens},
   types : SUBSET (Decided \cup Refused),
   writes : [Peers -> 0 .. MaxWrites],
   ends : [Peers -> SUBSET {"eof", "close", "exit-status"}],
   kinds : SUBSET {"exec", "agent", "notice", "other"},
   requests : 0 .. 3, drops : SUBSET Peers, prompt : BOOLEAN]

ASSUME ChannelTableAssumption ==
  /\ IdSpace \in Nat /\ MaxOpens \in Nat \ {0} /\ IdSpace > MaxOpens + 2
  /\ MaxWrites \in Nat /\ Window \in Nat \ {0}
  /\ Buffer \in Nat \ {0} /\ Inbox \in Nat \ {0}
  /\ Setups \subseteq SetupType

VARIABLES
  last,     \* enc.last_channel_id of each side
  chans,    \* enc.channels of each side: channel id -> ChannelParams
  refs,     \* Session::channels of each side: channel id -> the conversation it feeds
  net,      \* the messages on their way to each side
  idof,     \* the channel id an application was given for a conversation
  inbox,    \* the messages of the applications to each side's session
  buf,      \* the messages to the application's Channel, by conversation
  blocked,  \* the message a session waits to put into a full buf
  end,      \* the application's Channel: none, opening, open, refused, ended or gone
  failed,   \* why a session has ended, or "no"
  setup,    \* the setup of this behaviour
  owed,     \* requests the server's application has yet to answer
  done,     \* per side and conversation, the units of data written, or Over after a close
  posted,   \* the channel requests the client's application has made
  asked,    \* ghost: requests sent with want_reply
  replied,  \* ghost: replies the client has read
  closing   \* ghost: the sides that have sent CHANNEL_CLOSE

vars == <<last, chans, refs, net, idof, inbox, buf, blocked, end, failed, setup, owed, done,
          posted, asked, replied, closing>>

Other(p) == IF p = "client" THEN "server" ELSE "client"
Over     == MaxWrites + 1

(* ChannelParams with the ghost conversation *)
NewParams(peer, rwin, confirmed, c) ==
  [peer |-> peer, confirmed |-> confirmed, wants |-> FALSE, swin |-> Window, rwin |-> rwin,
   pend |-> 0, peof |-> FALSE, pclose |-> FALSE, c |-> c]

(* A message on the connection: type, recipient's channel id (for "open" the *)
(* opener's), a name or flag, an amount, and the ghost conversation.         *)
Packet(t, id, k, n, c) == [t |-> t, id |-> id, k |-> k, n |-> n, c |-> c]

Init ==
  /\ last = [p \in Peers |-> 1]
  /\ chans = [p \in Peers |-> <<>>]
  /\ refs = [p \in Peers |-> <<>>]
  /\ net = [p \in Peers |-> <<>>]
  /\ idof = [p \in Peers |-> [c \in Conv |-> IdSpace]]
  /\ inbox = [p \in Peers |-> <<>>]
  /\ buf = [p \in Peers |-> [c \in Conv |-> <<>>]]
  /\ blocked = [p \in Peers |-> <<>>]
  /\ end = [p \in Peers |-> [c \in Conv |-> "none"]]
  /\ failed = [p \in Peers |-> "no"]
  /\ setup \in Setups
  /\ owed = [c \in Conv |-> 0]
  /\ done = [p \in Peers |-> [c \in Conv |-> 0]]
  /\ posted = [c \in Conv |-> 0]
  /\ asked = [c \in Conv |-> 0]
  /\ replied = [c \in Conv |-> 0]
  /\ closing = [c \in Conv |-> {}]

-----------------------------------------------------------------------------
(* The tables.  An operation of struct Encrypted takes and returns           *)
(* [chans, out]: the table and the packets pushed to enc.write.              *)

With(f, x, v) == [y \in DOMAIN f \cup {x} |-> IF y = x THEN v ELSE f[y]]
Without(f, x) == Restrict(f, DOMAIN f \ {x})

Enc(p) == [chans |-> chans[p], out |-> <<>>]

push(e, t, id, k, n) ==
  [e EXCEPT !.out = Append(@, Packet(t, e.chans[id].peer, k, n, e.chans[id].c))]

(* Mutant: the lowest id that is free is taken, as file descriptors are. *)
new_channel_id_lowest(p) ==
  CHOOSE i \in Ids \ DOMAIN chans[p] : \A j \in Ids \ DOMAIN chans[p] : i <= j

(* new_channel_id and new_channel: the next id that is not in use, counting *)
(* on from the last one given out and wrapping around.                      *)
new_channel_id(p) ==
  LET After(k) == (last[p] + k) % IdSpace
  IN  After(CHOOSE k \in 1 .. IdSpace :
              /\ After(k) \notin DOMAIN chans[p]
              /\ \A j \in 1 .. k - 1 : After(j) \in DOMAIN chans[p])

byte(e, id, t) == IF id \in DOMAIN e.chans THEN push(e, t, id, "", 0) ELSE e

HasPending(e, id) == id \in DOMAIN e.chans /\ e.chans[id].pend > 0

eof(e, id) ==
  IF HasPending(e, id) THEN [e EXCEPT !.chans[id].peof = TRUE] ELSE byte(e, id, "eof")

close(e, id) ==
  IF HasPending(e, id)
  THEN [e EXCEPT !.chans[id].pclose = TRUE]
  ELSE [byte(e, id, "close") EXCEPT !.chans = Without(@, id)]

(* Push what fits into the window, return the rest to pending. *)
data_noqueue(e, id, n) ==
  LET ch   == e.chans[id]
      fits == IF n <= ch.rwin THEN n ELSE ch.rwin
      sent == IF fits > 0 THEN push(e, "data", id, "", fits) ELSE e
  IN  [sent EXCEPT !.chans[id] = [ch EXCEPT !.rwin = @ - fits, !.pend = @ + n - fits]]

data(e, id, n) == IF id \in DOMAIN e.chans THEN data_noqueue(e, id, n) ELSE e

handle_flushed_channel(e, id) ==
  LET e1 == IF e.chans[id].peof THEN eof(e, id) ELSE e
  IN  IF e.chans[id].pclose THEN close(e1, id) ELSE e1

flush_pending(e, id) ==
  LET n  == e.chans[id].pend
      e1 == data_noqueue([e EXCEPT !.chans[id].pend = 0], id, n)
  IN  IF e1.chans[id].pend = 0 THEN handle_flushed_channel(e1, id) ELSE e1

(* Mutant: the whole target is granted, not the part that has been used. *)
adjust_window_size_whole(e, id, n, target) ==
  LET left == IF n <= e.chans[id].swin THEN e.chans[id].swin - n ELSE e.chans[id].swin
  IN  IF id \notin DOMAIN e.chans THEN e
      ELSE IF left < target \div 2
           THEN [push(e, "adjust", id, "", target) EXCEPT !.chans[id].swin = target]
           ELSE [e EXCEPT !.chans[id].swin = left]

(* Data beyond the window is not charged; below half the target the window *)
(* is filled up again.                                                      *)
adjust_window_size(e, id, n, target) ==
  LET left == IF n <= e.chans[id].swin THEN e.chans[id].swin - n ELSE e.chans[id].swin
  IN  IF id \notin DOMAIN e.chans THEN e
      ELSE IF left < target \div 2
           THEN [push(e, "adjust", id, "", target - left) EXCEPT !.chans[id].swin = target]
           ELSE [e EXCEPT !.chans[id].swin = left]

(* ChannelParams::confirm *)
confirm(e, id, peer, window) ==
  LET ch == e.chans[id]
  IN  [e EXCEPT !.chans[id] = [ch EXCEPT !.peer = peer, !.rwin = window, !.confirmed = TRUE]]

(* Session::exit_status_request and exit_signal_request *)
exit_status_request(e, id) ==
  IF id \in DOMAIN e.chans THEN push(e, "request", id, "exit-status", 0) ELSE e

(* Mutant: the answer does not depend on whether a reply is wanted. *)
answer_always(e, id, t) == IF id \in DOMAIN e.chans THEN push(e, t, id, "", 0) ELSE e

(* Mutant: the wish is not taken back once it has been met. *)
answer_again(e, id, t) ==
  IF id \in DOMAIN e.chans /\ e.chans[id].wants THEN push(e, t, id, "", 0) ELSE e

(* Session::channel_success and channel_failure: only when a reply is wanted. *)
answer(e, id, t) ==
  IF id \in DOMAIN e.chans /\ e.chans[id].wants
  THEN [push(e, t, id, "", 0) EXCEPT !.chans[id].wants = FALSE]
  ELSE e

-----------------------------------------------------------------------------
(* What the actions share. *)

Live(p) == failed[p] = "no" /\ blocked[p] = <<>>

(* The CHANNEL_CLOSE packets among those a step sends. *)
NoteCloses(p, out) ==
  closing' = [c \in Conv |-> IF \E i \in DOMAIN out : out[i].t = "close" /\ out[i].c = c
                             THEN closing[c] \cup {p} ELSE closing[c]]

(* The session has read a message and written e.out in answer. *)
Reply(p, e) ==
  /\ chans' = [chans EXCEPT ![p] = e.chans]
  /\ net' = [net EXCEPT ![p] = Tail(@), ![Other(p)] = @ \o e.out]
  /\ NoteCloses(p, e.out)

(* The session has taken a message of its application and written e.out. *)
Send(p, e) ==
  /\ chans' = [chans EXCEPT ![p] = e.chans]
  /\ net' = [net EXCEPT ![Other(p)] = @ \o e.out]
  /\ inbox' = [inbox EXCEPT ![p] = Tail(@)]
  /\ NoteCloses(p, e.out)

Reads(p, t) == Live(p) /\ net[p] # <<>> /\ Head(net[p]).t = t

(* The session has read message m, with the answer e, and passes it on:      *)
(* chan.send(..).await.  Without a receiver that is ignored; with a full     *)
(* queue the session waits, and its answer is not sent before it goes on.    *)
Deliver(p, e, m, t) ==
  LET c == refs[p][m.id]
      msg == [t |-> t, c |-> m.c]
  IN  IF m.id \notin DOMAIN refs[p] \/ end[p][c] = "gone"
      THEN Reply(p, e) /\ UNCHANGED <<buf, blocked>>
      ELSE IF Len(buf[p][c]) < Buffer
           THEN /\ Reply(p, e)
                /\ buf' = [buf EXCEPT ![p][c] = Append(@, msg)]
                /\ UNCHANGED blocked
           ELSE /\ Reply(p, [e EXCEPT !.out = <<>>])
                /\ blocked' = [blocked EXCEPT ![p] = <<c, msg, e.out>>]
                /\ UNCHANGED buf

(* chan.try_send(..): dropped when the queue is full. *)
TryDeliver(p, m, t) ==
  LET c == refs[p][m.id]
  IN  /\ buf' = IF /\ m.id \in DOMAIN refs[p] /\ end[p][c] # "gone"
                   /\ Len(buf[p][c]) < Buffer
                THEN [buf EXCEPT ![p][c] = Append(@, [t |-> t, c |-> m.c])]
                ELSE buf
      /\ UNCHANGED blocked

(* The queue has room again, or its reader is gone. *)
Unblock(p) ==
  /\ failed[p] = "no" /\ blocked[p] # <<>>
  /\ LET c == blocked[p][1]
     IN  \/ /\ end[p][c] = "gone"
            /\ UNCHANGED buf
         \/ /\ end[p][c] # "gone" /\ Len(buf[p][c]) < Buffer
            /\ buf' = [buf EXCEPT ![p][c] = Append(@, blocked[p][2])]
  /\ net' = [net EXCEPT ![Other(p)] = @ \o blocked[p][3]]
  /\ blocked' = [blocked EXCEPT ![p] = <<>>]
  /\ UNCHANGED <<posted, idof, last, chans, refs, inbox, end, failed, setup, owed, done,
                 asked, replied, closing>>

-----------------------------------------------------------------------------
(* The applications. *)

Post(p, m) ==
  /\ failed[p] = "no" /\ Len(inbox[p]) < Inbox
  /\ inbox' = [inbox EXCEPT ![p] = Append(@, m)]

Request(t, c, k, n) == [t |-> t, c |-> c, k |-> k, n |-> n]

(* Handle::channel_open_* of either side, up to its wait for the outcome. *)
Opens(p) ==
  \E c \in DOMAIN setup.by, k \in setup.types :
    /\ p = setup.by[c]
    /\ \A q \in Peers : end[q][c] = "none"
    /\ \A d \in 1 .. c - 1 : \E q \in Peers : end[q][d] # "none"
    /\ Post(p, Request("open", c, k, 0))
    /\ end' = [end EXCEPT ![p][c] = "opening"]
    /\ UNCHANGED <<posted, idof, last, chans, refs, net, buf, blocked, failed, setup, owed,
                   done, asked, replied, closing>>

ClientOpens == Opens("client")
ServerOpens == Opens("server")

(* wait_channel_confirmation and Channel::wait take the next message. *)
Waits(p) ==
  \E c \in Conv :
    /\ end[p][c] \in {"opening", "open"} /\ buf[p][c] # <<>>
    /\ buf' = [buf EXCEPT ![p][c] = Tail(@)]
    /\ end' = [end EXCEPT ![p][c] = CASE Head(buf[p][c]).t = "Open" -> "open"
                                      [] Head(buf[p][c]).t = "OpenFailure" -> "refused"
                                      [] OTHER -> @]
    /\ UNCHANGED <<posted, idof, last, chans, refs, net, inbox, blocked, failed, setup,
                   owed, done, asked, replied, closing>>

ClientWaits == Waits("client")
ServerWaits == Waits("server")

(* The sending end is gone with the entry of Session::channels, or with the *)
(* session: wait returns None, and an open call fails with Disconnect.       *)
NoMoreMessages(p) ==
  \E c \in Conv :
    /\ end[p][c] \in {"opening", "open"} /\ buf[p][c] = <<>>
    /\ \/ failed[p] # "no"
       \/ /\ c \notin Range(refs[p])
          /\ \A i \in DOMAIN inbox[p] : ~(inbox[p][i].t = "open" /\ inbox[p][i].c = c)
          /\ \A i \in DOMAIN net[p] : ~(net[p][i].t = "open" /\ net[p][i].c = c)
          /\ blocked[p] # <<>> => blocked[p][1] # c
    /\ end' = [end EXCEPT ![p][c] = "ended"]
    /\ UNCHANGED <<posted, idof, last, chans, refs, net, inbox, buf, blocked, failed, setup,
                   owed, done, asked, replied, closing>>

(* The application's open call or Channel is dropped.  A ChannelStream sends *)
(* Close when it is dropped, a Channel sends nothing.                        *)
DropsEnd(p) ==
  \E c \in Conv, stream \in BOOLEAN :
    /\ p \in setup.drops /\ end[p][c] \in {"opening", "open"}
    /\ end' = [end EXCEPT ![p][c] = "gone"]
    /\ buf' = [buf EXCEPT ![p][c] = <<>>]
    /\ \/ /\ ~stream /\ UNCHANGED <<inbox, done>>
       \/ /\ stream /\ end[p][c] = "open" /\ done[p][c] # Over
          /\ Post(p, Request("close", c, "", 0))
          /\ done' = [done EXCEPT ![p][c] = Over]
    /\ UNCHANGED <<posted, idof, last, chans, refs, net, blocked, failed, setup, owed,
                   asked, replied, closing>>

(* ChannelWriteHalf::data, ::extended_data *)
Writes(p) ==
  \E c \in Conv, n \in 1 .. MaxWrites :
    /\ end[p][c] = "open" /\ done[p][c] + n <= setup.writes[p]
    /\ Post(p, Request("data", c, "", n))
    /\ done' = [done EXCEPT ![p][c] = @ + n]
    /\ UNCHANGED <<posted, idof, last, chans, refs, net, buf, blocked, end, failed, setup,
                   owed, asked, replied, closing>>

(* The same through the server's Handle::data and ::extended_data. *)
ServerWrites == Writes("server")

(* ChannelWriteHalf::eof and ::close, ::exit_status of the server; nothing  *)
(* is written to a channel after its close.                                 *)
Finishes(p) ==
  \E c \in Conv, t \in setup.ends[p] :
    /\ end[p][c] = "open" /\ done[p][c] # Over
    /\ Post(p, Request(t, c, "", 0))
    /\ done' = [done EXCEPT ![p][c] = IF t = "close" THEN Over ELSE MaxWrites]
    /\ t # "close" => done[p][c] < MaxWrites
    /\ UNCHANGED <<posted, idof, last, chans, refs, net, buf, blocked, end, failed, setup,
                   owed, asked, replied, closing>>

(* The same through the server's Handle::eof, ::close, ::exit_status_request. *)
ServerFinishes == Finishes("server")

(* ChannelWriteHalf::request_pty, ::request_shell, ::exec, ::agent_forward,   *)
(* ... with the reply the caller wants; ::signal and ::window_change never    *)
(* want one.                                                                 *)
Asks ==
  \E c \in Conv, k \in setup.kinds, want \in BOOLEAN :
    /\ end["client"][c] = "open" /\ done["client"][c] # Over
    /\ posted[c] < setup.requests
    /\ posted' = [posted EXCEPT ![c] = @ + 1]
    /\ k = "notice" => ~want
    /\ Post("client", Request("request", c, k, IF want THEN 1 ELSE 0))
    /\ UNCHANGED <<idof, last, chans, refs, net, buf, blocked, end, failed, setup, owed,
                   done, asked, replied, closing>>

(* The server's application answers a request through its Handle. *)
AnswersLater ==
  \E c \in Conv, t \in {"success", "failure"} :
    /\ owed[c] > 0 /\ done["server"][c] # Over
    /\ Post("server", Request(t, c, "", 0))
    /\ owed' = [owed EXCEPT ![c] = @ - 1]
    /\ UNCHANGED <<posted, idof, last, chans, refs, net, buf, blocked, end, failed, setup,
                   done, asked, replied, closing>>

(* What the owner of a client's Channel does with it. *)
ClientApplication == Writes("client") \/ Finishes("client") \/ Asks

-----------------------------------------------------------------------------
(* The session takes a message of its application.  The channel id travels   *)
(* in the message: it is the one the application was given for conversation. *)

Takes(p, t) == Live(p) /\ inbox[p] # <<>> /\ Head(inbox[p]).t = t

(* channel_open_generic, and the reference entered for the new id. *)
TakesOpen(p) ==
  /\ Takes(p, "open")
  /\ LET m  == Head(inbox[p])
         id == new_channel_id(p)
     IN  /\ last' = [last EXCEPT ![p] = id]
         /\ chans' = [chans EXCEPT ![p] = With(@, id, NewParams(0, 0, FALSE, m.c))]
         /\ net' = [net EXCEPT ![Other(p)] = Append(@, Packet("open", id, m.k, Window, m.c))]
         /\ refs' = [refs EXCEPT ![p] = With(@, id, m.c)]
         /\ idof' = [idof EXCEPT ![p][m.c] = id]
  /\ inbox' = [inbox EXCEPT ![p] = Tail(@)]
  /\ UNCHANGED <<posted, buf, blocked, end, failed, setup, owed, done, asked, replied,
                 closing>>

ClientTakesOpen == TakesOpen("client")
ServerTakesOpen == TakesOpen("server")

(* Data, Eof, Close, and the server's ExitStatus, Success and Failure. *)
Handled(p, m, id) ==
  CASE m.t = "data"  -> data(Enc(p), id, m.n)
    [] m.t = "eof"   -> eof(Enc(p), id)
    [] m.t = "close" -> close(Enc(p), id)
    [] m.t = "exit-status" -> exit_status_request(Enc(p), id)
    [] m.t \in {"success", "failure"} -> answer(Enc(p), id, m.t)

TakesChannelMsg(p) ==
  /\ Live(p) /\ inbox[p] # <<>> /\ Head(inbox[p]).t \notin {"open", "request"}
  /\ LET m == Head(inbox[p])
     IN  Send(p, Handled(p, m, idof[p][m.c]))
  /\ UNCHANGED <<posted, idof, last, refs, buf, blocked, end, failed, setup, owed, done,
                 asked, replied>>

ClientTakesChannelMsg == TakesChannelMsg("client")
ServerTakesChannelMsg == TakesChannelMsg("server")

(* Session::request_pty and the others: nothing without the channel. *)
ClientTakesRequest ==
  /\ Takes("client", "request")
  /\ LET m  == Head(inbox["client"])
         id == idof["client"][m.c]
         known == id \in DOMAIN chans["client"]
     IN  /\ Send("client", IF known THEN push(Enc("client"), "request", id, m.k, m.n)
                           ELSE Enc("client"))
         /\ asked' = [asked EXCEPT ![m.c] = IF known THEN @ + m.n ELSE @]
  /\ UNCHANGED <<posted, idof, last, refs, buf, blocked, end, failed, setup, owed, done,
                 replied>>

-----------------------------------------------------------------------------
(* The session reads a message. *)

(* CHANNEL_OPEN_CONFIRMATION: for a channel that is not known the session    *)
(* ends with Inconsistent.                                                   *)
ReadsConfirmation(p) ==
  /\ Reads(p, "confirmation")
  /\ LET m == Head(net[p])
     IN  IF m.id \in DOMAIN chans[p]
         THEN /\ Deliver(p, confirm(Enc(p), m.id, m.k, m.n), m, "Open")
              /\ UNCHANGED failed
         ELSE /\ failed' = [failed EXCEPT ![p] = "Inconsistent"]
              /\ UNCHANGED <<chans, net, closing, buf, blocked>>
  /\ UNCHANGED <<posted, idof, last, refs, inbox, end, setup, owed, done, asked, replied>>

ClientReadsConfirmation == ReadsConfirmation("client")
ServerReadsConfirmation == ReadsConfirmation("server")

(* CHANNEL_OPEN_FAILURE: the server's session ends with SendError when the   *)
(* open call has been dropped.                                               *)
ReadsOpenFailure(p, lost) ==
  /\ Reads(p, "open-failure")
  /\ LET m == Head(net[p])
     IN  /\ Deliver(p, [Enc(p) EXCEPT !.chans = Without(@, m.id)], m, "OpenFailure")
         /\ refs' = [refs EXCEPT ![p] = Without(@, m.id)]
         /\ failed' = IF m.id \in DOMAIN refs[p] /\ end[p][refs[p][m.id]] = "gone"
                      THEN [failed EXCEPT ![p] = lost] ELSE failed
  /\ UNCHANGED <<posted, idof, last, inbox, end, setup, owed, done, asked, replied>>

ClientReadsOpenFailure == ReadsOpenFailure("client", "no")
ServerReadsOpenFailure == ReadsOpenFailure("server", "SendError")

(* Mutant: the confirmation is sent with the two ids exchanged. *)
ConfirmationSwapped(e, id, m) ==
  [chans |-> With(e.chans, id, NewParams(m.id, m.n, TRUE, m.c)),
   out   |-> Append(e.out, Packet("confirmation", id, m.id, Window, m.c))]

(* OpenChannelMessage::confirm, ::fail and ::unknown_type *)
Confirmation(e, id, m) ==
  [chans |-> With(e.chans, id, NewParams(m.id, m.n, TRUE, m.c)),
   out   |-> Append(e.out, Packet("confirmation", m.id, id, Window, m.c))]

Failure(e, m) == [e EXCEPT !.out = Append(@, Packet("open-failure", m.id, 0, 0, m.c))]

(* CHANNEL_OPEN at the client: every known type is confirmed and handed to   *)
(* the Handler; it decides about an unknown one.                             *)
ClientReadsOpen ==
  /\ Reads("client", "open")
  /\ LET m  == Head(net["client"])
         id == new_channel_id("client")
     IN  /\ idof' = [idof EXCEPT !["client"][m.c] = id]
         /\ last' = [last EXCEPT !["client"] = id]
         /\ \/ /\ Reply("client", Confirmation(Enc("client"), id, m))
               /\ refs' = [refs EXCEPT !["client"] = With(@, id, m.c)]
               /\ end' = [end EXCEPT !["client"][m.c] = "open"]
            \/ /\ m.k = "unknown"
               /\ Reply("client", Failure(Enc("client"), m))
               /\ end' = [end EXCEPT !["client"][m.c] = "refused"]
               /\ UNCHANGED refs
  /\ UNCHANGED <<posted, inbox, buf, blocked, failed, setup, owed, done, asked, replied>>

(* Mutant: a refused open is not answered. *)
finalize_channel_open_silent(e, id, m, allowed) ==
  IF allowed THEN Confirmation(e, id, m) ELSE e

(* finalize_channel_open *)
finalize_channel_open(e, id, m, allowed) ==
  IF allowed THEN Confirmation(e, id, m) ELSE Failure(e, m)

(* CHANNEL_OPEN at the server: the Handler is given the Channel and decides;  *)
(* the reference is entered whatever it says.  A refused Channel is dropped.  *)
ServerReadsOpen ==
  /\ Reads("server", "open")
  /\ LET m  == Head(net["server"])
         id == new_channel_id("server")
     IN  /\ idof' = [idof EXCEPT !["server"][m.c] = id]
         /\ last' = [last EXCEPT !["server"] = id]
         /\ \/ \E allowed \in BOOLEAN :
                 /\ m.k \in Decided
                 /\ Reply("server", finalize_channel_open(Enc("server"), id, m, allowed))
                 /\ refs' = [refs EXCEPT !["server"] = With(@, id, m.c)]
                 /\ end' = [end EXCEPT !["server"][m.c] = IF allowed THEN "open" ELSE "gone"]
            \/ /\ m.k \in Refused
               /\ Reply("server", Failure(Enc("server"), m))
               /\ end' = [end EXCEPT !["server"][m.c] = "gone"]
               /\ UNCHANGED refs
  /\ UNCHANGED <<posted, inbox, buf, blocked, failed, setup, owed, done, asked, replied>>

(* Mutant: the client forgets the channel without an answer, as the server does. *)
ClientReadsCloseSilently ==
  /\ Reads("client", "close")
  /\ LET m == Head(net["client"])
     IN  /\ Reply("client", [Enc("client") EXCEPT !.chans = Without(@, m.id)])
         /\ refs' = [refs EXCEPT !["client"] = Without(@, m.id)]
  /\ UNCHANGED <<posted, idof, last, inbox, buf, blocked, end, failed, setup, owed, done,
                 asked, replied>>

(* CHANNEL_CLOSE: the client answers with its own and forgets the channel; *)
(* the server only forgets it.                                             *)
ClientReadsClose ==
  /\ Reads("client", "close")
  /\ LET m == Head(net["client"])
     IN  /\ Reply("client", close(Enc("client"), m.id))
         /\ refs' = [refs EXCEPT !["client"] = Without(@, m.id)]
  /\ UNCHANGED <<posted, idof, last, inbox, buf, blocked, end, failed, setup, owed, done,
                 asked, replied>>

ServerReadsClose ==
  /\ Reads("server", "close")
  /\ LET m == Head(net["server"])
     IN  /\ Reply("server", [Enc("server") EXCEPT !.chans = Without(@, m.id)])
         /\ refs' = [refs EXCEPT !["server"] = Without(@, m.id)]
  /\ UNCHANGED <<posted, idof, last, inbox, buf, blocked, end, failed, setup, owed, done,
                 asked, replied>>

(* CHANNEL_EOF *)
ReadsEof(p) ==
  /\ Reads(p, "eof")
  /\ Deliver(p, Enc(p), Head(net[p]), "Eof")
  /\ UNCHANGED <<posted, idof, last, refs, inbox, end, failed, setup, owed, done, asked,
                 replied>>

ClientReadsEof == ReadsEof("client")
ServerReadsEof == ReadsEof("server")

(* CHANNEL_DATA and CHANNEL_EXTENDED_DATA *)
ReadsData(p) ==
  /\ Reads(p, "data")
  /\ LET m == Head(net[p])
     IN  Deliver(p, adjust_window_size(Enc(p), m.id, m.n, Window), m, "Data")
  /\ UNCHANGED <<posted, idof, last, refs, inbox, end, failed, setup, owed, done, asked,
                 replied>>

ClientReadsData == ReadsData("client")
ServerReadsData == ReadsData("server")

(* CHANNEL_WINDOW_ADJUST: dropped for an unknown channel. *)
ReadsWindowAdjust(p) ==
  /\ Reads(p, "adjust")
  /\ LET m == Head(net[p])
     IN  IF m.id \in DOMAIN chans[p]
         THEN /\ Reply(p, flush_pending([Enc(p) EXCEPT !.chans[m.id].rwin = @ + m.n], m.id))
              /\ TryDeliver(p, m, "WindowAdjusted")
         ELSE Reply(p, Enc(p)) /\ UNCHANGED <<buf, blocked>>
  /\ UNCHANGED <<posted, idof, last, refs, inbox, end, failed, setup, owed, done, asked,
                 replied>>

ClientReadsWindowAdjust == ReadsWindowAdjust("client")
ServerReadsWindowAdjust == ReadsWindowAdjust("server")

(* CHANNEL_REQUEST at the client: exit-status, exit-signal, xon-xoff *)
ClientReadsRequest ==
  /\ Reads("client", "request")
  /\ Deliver("client", Enc("client"), Head(net["client"]), "ExitStatus")
  /\ UNCHANGED <<posted, idof, last, refs, inbox, end, failed, setup, owed, done, asked,
                 replied>>

(* CHANNEL_SUCCESS and CHANNEL_FAILURE at the client *)
ClientReadsReply(t, shown) ==
  /\ Reads("client", t)
  /\ Deliver("client", Enc("client"), Head(net["client"]), shown)
  /\ replied' = [replied EXCEPT ![Head(net["client"]).c] = @ + 1]
  /\ UNCHANGED <<posted, idof, last, refs, inbox, end, failed, setup, owed, done, asked>>

ClientReadsSuccess == ClientReadsReply("success", "Success")
ClientReadsFailure == ClientReadsReply("failure", "Failure")

(* CHANNEL_REQUEST at the server: the request's want_reply replaces the      *)
(* channel's.                                                                *)
SetWantsReply(e, id, n) ==
  IF id \in DOMAIN e.chans THEN [e EXCEPT !.chans[id].wants = (n = 1)] ELSE e

(* A request the Handler is told of: in its callback it answers promptly, or *)
(* leaves the answer to its application.  Handler::agent_request is asked to *)
(* send the channel's reply too; what it returns is answered on top of that  *)
(* with a global reply, which names no channel (request_result of            *)
(* GlobalRequests).                                                          *)
ServerReadsRequest ==
  /\ Reads("server", "request") /\ Head(net["server"]).k \in {"exec", "agent"}
  /\ LET m == Head(net["server"])
         e == SetWantsReply(Enc("server"), m.id, m.n)
     IN  \/ /\ setup.prompt
            /\ \E t \in {"success", "failure"} :
                 Deliver("server", answer(e, m.id, t), m, "Request")
            /\ UNCHANGED owed
         \/ /\ ~setup.prompt
            /\ Deliver("server", e, m, "Request")
            /\ owed' = [owed EXCEPT ![m.c] = @ + 1]
  /\ UNCHANGED <<posted, idof, last, refs, inbox, end, failed, setup, done, asked, replied>>

(* window-change and signal: nothing to answer *)
ServerReadsNotice ==
  /\ Reads("server", "request") /\ Head(net["server"]).k = "notice"
  /\ LET m == Head(net["server"])
     IN  Deliver("server", SetWantsReply(Enc("server"), m.id, m.n), m, "Request")
  /\ UNCHANGED <<posted, idof, last, refs, inbox, end, failed, setup, owed, done, asked,
                 replied>>

(* An unknown request fails. *)
ServerReadsUnknownRequest ==
  /\ Reads("server", "request") /\ Head(net["server"]).k = "other"
  /\ LET m == Head(net["server"])
     IN  Reply("server", answer(SetWantsReply(Enc("server"), m.id, m.n), m.id, "failure"))
  /\ UNCHANGED <<posted, idof, last, refs, inbox, buf, blocked, end, failed, setup, owed,
                 done, asked, replied>>

-----------------------------------------------------------------------------
ClientSession ==
  \/ ClientTakesOpen \/ ClientTakesChannelMsg \/ ClientTakesRequest
  \/ ClientReadsConfirmation \/ ClientReadsOpenFailure \/ ClientReadsOpen
  \/ ClientReadsClose \/ ClientReadsEof \/ ClientReadsData \/ ClientReadsWindowAdjust
  \/ ClientReadsRequest \/ ClientReadsSuccess \/ ClientReadsFailure
  \/ Unblock("client")

ServerSession ==
  \/ ServerTakesOpen \/ ServerTakesChannelMsg
  \/ ServerReadsConfirmation \/ ServerReadsOpenFailure \/ ServerReadsOpen
  \/ ServerReadsClose \/ ServerReadsEof \/ ServerReadsData \/ ServerReadsWindowAdjust
  \/ ServerReadsRequest \/ ServerReadsNotice \/ ServerReadsUnknownRequest
  \/ Unblock("server")

Reader(p) == Waits(p) \/ NoMoreMessages(p)

Next ==
  \/ ClientSession \/ ServerSession
  \/ ClientOpens \/ ServerOpens
  \/ ClientApplication \/ ServerWrites \/ ServerFinishes \/ AnswersLater
  \/ ClientWaits \/ ServerWaits
  \/ \E p \in Peers : NoMoreMessages(p) \/ DropsEnd(p)

Spec == Init /\ [][Next]_vars

(* The session tasks run, and the applications go on reading their channels. *)
FairSpec ==
  /\ Spec
  /\ WF_vars(ClientSession) /\ WF_vars(ServerSession)
  /\ \A p \in Peers : WF_vars(Reader(p))

-----------------------------------------------------------------------------
(* Properties. *)

EndStates == {"none", "opening", "open", "refused", "ended", "gone"}

(* Types, and the bounds of the queues. *)
TypeOK ==
  /\ last \in [Peers -> Ids]
  /\ \A p \in Peers : DOMAIN chans[p] \subseteq Ids /\ DOMAIN refs[p] \subseteq Ids
  /\ \A p \in Peers : \A i \in DOMAIN chans[p] :
       /\ chans[p][i].swin \in 0 .. Window /\ chans[p][i].rwin \in 0 .. Window
       /\ chans[p][i].pend \in 0 .. MaxWrites /\ chans[p][i].c \in Conv
  /\ idof \in [Peers -> [Conv -> Ids \cup {IdSpace}]]
  /\ \A p \in Peers : Len(inbox[p]) <= Inbox
  /\ \A p \in Peers, c \in Conv : Len(buf[p][c]) <= Buffer
  /\ end \in [Peers -> [Conv -> EndStates]]
  /\ failed \in [Peers -> {"no", "Inconsistent", "SendError"}]
  /\ owed \in [Conv -> Nat] /\ closing \in [Conv -> SUBSET Peers]

(* What an application reads from a Channel was sent on the conversation it  *)
(* opened, and a message on its way finds that conversation's parameters or  *)
(* none, although a side may close a channel and open the next while         *)
(* messages for the old one are still under way (new_channel_id).            *)
RoutedRight ==
  /\ \A p \in Peers, c \in Conv : \A i \in DOMAIN buf[p][c] : buf[p][c][i].c = c
  /\ \A p \in Peers : \A i \in DOMAIN net[p] :
       LET m == net[p][i]
       IN  (m.t # "open" /\ m.id \in DOMAIN chans[p]) => chans[p][m.id].c = m.c

(* f[1] + ... + f[n] *)
SumTo(f, n) ==
  LET sum[i \in 0..n] == IF i = 0 THEN 0 ELSE sum[i - 1] + f[i]
  IN  sum[n]

(* The amounts of the messages of type t in s, for conversation c. *)
Total(s, c, t) ==
  SumTo([i \in DOMAIN s |-> IF s[i].t = t /\ s[i].c = c THEN s[i].n ELSE 0], Len(s))

Held(p) == IF blocked[p] = <<>> THEN <<>> ELSE blocked[p][3]

(* The two ends of a channel agree about its window: what the receiver will  *)
(* still take is what the sender may still send, the data under way and the  *)
(* window under way back (adjust_window_size, data_noqueue, WINDOW_ADJUST).  *)
WindowsAgree ==
  \A p \in Peers : \A i \in DOMAIN chans[p], j \in DOMAIN chans[Other(p)] :
    LET snd == chans[p][i]
        rcv == chans[Other(p)][j]
    IN  (snd.c = rcv.c /\ snd.confirmed) =>
          rcv.swin = snd.rwin + Total(net[Other(p)] \o Held(p), snd.c, "data")
                              + Total(net[p] \o Held(Other(p)), snd.c, "adjust")

(* The assertion of Encrypted::data, Session::channel_success and the others: *)
(* when the session takes an application's message, the channel it finds      *)
(* under the message's id has been confirmed.                                 *)
ConfirmedWhenUsed ==
  \A p \in Peers : \A k \in DOMAIN inbox[p] :
    LET m == inbox[p][k]
    IN  (m.t # "open" /\ idof[p][m.c] \in DOMAIN chans[p]) =>
          chans[p][idof[p][m.c]].confirmed

(* A session ends itself in one case only: the server's, when a refusal finds *)
(* that the open call was dropped.  No side is sent a confirmation it has not *)
(* asked for, whatever was closed or dropped in between.                      *)
SessionSurvives ==
  \A p \in Peers : failed[p] # "no" => p = "server" /\ failed[p] = "SendError"

(* No order of opens, closes, dropped calls and late messages ends a session: *)
(* neither the assertion of Encrypted::data nor an unexpected confirmation.   *)
NoSessionEnds == TypeOK /\ ConfirmedWhenUsed /\ SessionSurvives

Open(p, c) == \E i \in DOMAIN chans[p] : chans[p][i].c = c

Wanted(s, c) == Total(s, c, "request")
Replies(s, c) ==
  SumTo([i \in DOMAIN s |-> IF s[i].t \in {"success", "failure"} /\ s[i].c = c THEN 1 ELSE 0],
        Len(s))

(* A Handler that answers in its callbacks: every request sent with           *)
(* want_reply is under way, or its one reply is under way or has arrived,     *)
(* while the server has the channel (wants_reply of ChannelParams).  For      *)
(* auth-agent-req@openssh.com the reply is the one the documentation of       *)
(* Handler::agent_request asks for; the global one is not counted.            *)
PromptReplies ==
  \A c \in Conv : (setup.prompt /\ Open("server", c)) =>
    asked[c] = Wanted(net["server"], c) + Replies(net["client"] \o Held("server"), c)
                                        + replied[c]

(* The answers for c that the server's session has yet to take *)
Answering(c) ==
  Cardinality({i \in DOMAIN inbox["server"] :
                 inbox["server"][i].t \in {"success", "failure"} /\ inbox["server"][i].c = c})

(* A Handler that leaves the answers to its application: a later request on   *)
(* the channel replaces wants_reply before the answer is given.  So a reply   *)
(* may be lost, but to a later request only, of n requests posted on the      *)
(* channel n - 1 at most; and there is no reply that was not asked for.       *)
LateReplies ==
  \A c \in Conv : (~setup.prompt /\ Open("server", c) /\ posted[c] > 0) =>
    LET settled == Wanted(net["server"], c) + Replies(net["client"] \o Held("server"), c)
                                            + replied[c]
    IN  settled <= asked[c] /\ asked[c] < settled + owed[c] + Answering(c) + posted[c]

(* The replies to channel requests, whenever the server's Handler gives them. *)
ReplyForEach == PromptReplies /\ LateReplies

(* As PromptReplies, for a Handler that leaves the answers to its application, *)
(* as Handle::channel_success and ::channel_failure are made for: a request    *)
(* is under way, still owed an answer, or answered.                            *)
ReplyReachesAsker ==
  \A c \in Conv : (Open("server", c) /\ Open("client", c)) =>
    asked[c] <= Wanted(net["server"], c) + Replies(net["client"] \o Held("server"), c)
                  + replied[c] + owed[c] + Answering(c)

(* An open call gets its channel, a refusal or Disconnect: it never waits for *)
(* ever (server_handle_channel_open, finalize_channel_open,                   *)
(* wait_channel_confirmation).                                                *)
OpenSettles ==
  \A p \in Peers, c \in Conv :
    end[p][c] = "opening" ~> (end[p][c] # "opening" \/ \E q \in Peers : failed[q] # "no")

(* After the server has closed a channel both sides forget it in both tables, *)
(* unless the client's close waits for window that will not come              *)
(* (CHANNEL_CLOSE of both sides, Encrypted::close).                           *)
CloseReleases ==
  \A c \in Conv :
    "server" \in closing[c] ~>
      \/ \A p \in Peers : ~Open(p, c) /\ c \notin Range(refs[p])
      \/ \E i \in DOMAIN chans["client"] : chans["client"][i].c = c /\ chans["client"][i].pclose
      \/ \E q \in Peers : failed[q] # "no"

(* Everything a channel waits for comes: the outcome of its open call, and    *)
(* after the server's close the end of its entries in the tables.             *)
ChannelsSettle == OpenSettles /\ CloseReleases

(* Channel::wait of the client returns None once the channel has been closed: *)
(* after a CHANNEL_CLOSE of the client the sending end does not stay behind.  *)
WaitEnds ==
  \A c \in Conv :
    "client" \in closing[c] ~> (c \notin Range(refs["client"]) \/ \E q \in Peers : failed[q] # "no")

=============================================================================
