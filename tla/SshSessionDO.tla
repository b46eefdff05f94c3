---------------------------- MODULE SshSessionDO ----------------------------
(***************************************************************************)
(* One Durable Object of worker/src/session-do.ts: the SSH session it      *)
(* holds, the TCP socket under it, the WebSocket clients attached to it,   *)
(* the terminal buffer, the idle alarm and the two persistent traces of    *)
(* the session (the object's own storage and the session list in KV).      *)
(*                                                                         *)
(* JavaScript runs an event handler without interruption up to its next    *)
(* await, so an action is the code between two awaits.  An await on        *)
(* ctx.storage is not a break: the input gate holds every other event back *)
(* until the storage operation is done.  The awaits that do let other      *)
(* events in are the SSH handshake, session.disconnect() and the two KV    *)
(* calls of terminate().                                                   *)
(***************************************************************************)
EXTENDS Integers, Sequences, FiniteSets

CONSTANTS
  Sockets,         \* the WebSockets that browsers open to the object
  Deletes,         \* the DELETE requests that reach the object
  Alarm,           \* the alarm handler, which also calls terminate()
  Sizes,           \* the lengths an output chunk can have
  MaxBuffer,       \* maxBuffer, the budget of terminalBuffer
  HandshakeReads,  \* TCP reads the SSH handshake needs before it can succeed
  MaxOutput,       \* bound: output chunks the server sends
  MaxEvictions,    \* bound: times the object is evicted from memory
  MaxTries,        \* times the runtime retries an alarm handler that throws
  KvMayFail        \* whether a KV call may be rejected

ASSUME DOAssumption ==
  /\ Alarm \notin Deletes
  /\ Sizes \subseteq Nat \ {0}
  /\ MaxBuffer \in Nat \ {0}
  /\ HandshakeReads \in Nat \ {0}
  /\ MaxOutput \in Nat
  /\ MaxEvictions \in Nat /\ MaxTries \in Nat
  /\ KvMayFail \in BOOLEAN

Callers == Deletes \cup {Alarm}

VARIABLES
  connect,     \* handleConnect: idle, handshake (awaiting the race), ok, failed
  session,     \* this.session: null, live, or freed (a wrapper without its object)
  sending,     \* a send_data() or resize() of webSocketMessage is in flight
  tcpSocket,   \* this.tcpSocket # null
  sock,        \* the TCP socket itself: none, open, closed
  pump,        \* the TCP-to-WASM pump: none, reading, done
  sent,        \* what the server has sent: handshake reads and output chunks
  inbox,       \* what the feeder pushed and the SSH task has not read yet
  task,        \* the russh client task: none, running, ended
  clients,     \* this.clients
  ws,          \* each WebSocket: new, open, closing (close event pending), gone
  terminalBuffer, bufferSize,
  sessionMeta, \* this.sessionMeta # null
  stored,      \* storage holds "meta"
  alarm,       \* the storage alarm is set
  tries,       \* times its handler has thrown since it was last set by the object
  listed,      \* the KV session list: unlisted, listed, removed
  term,        \* each terminate() call: idle, disconnect, kvGet, kvPut, done, threw
  evictions,   \* evictions so far
  output,      \* ghost: the lengths of all chunks handed to onData
  recv         \* ghost: the chunks (positions in output) each socket received

connVars == <<connect, session, sending, tcpSocket, sock, pump, sent, inbox, task>>
bufVars  == <<terminalBuffer, bufferSize, output>>
wsVars   == <<clients, ws, recv>>
metaVars == <<sessionMeta, stored, alarm, tries, listed>>
vars == <<connVars, bufVars, wsVars, metaVars, term, evictions>>

-----------------------------------------------------------------------------
Init ==
  /\ connect = "idle" /\ session = "null" /\ sending = FALSE /\ tcpSocket = FALSE
  /\ sock = "none" /\ pump = "none" /\ sent = 0 /\ inbox = <<>> /\ task = "none"
  /\ clients = {} /\ ws = [w \in Sockets |-> "new"] /\ recv = [w \in Sockets |-> <<>>]
  /\ terminalBuffer = <<>> /\ bufferSize = 0 /\ output = <<>>
  /\ sessionMeta = FALSE /\ stored = FALSE /\ alarm = FALSE /\ tries = 0
  /\ listed = "unlisted"
  /\ term = [c \in Callers |-> "idle"]
  /\ evictions = 0

-----------------------------------------------------------------------------
(* Connecting *)

(* A private address, an invalid port or a connect() that throws. *)
ConnectRefused ==
  /\ connect = "idle"
  /\ connect' = "failed"
  /\ UNCHANGED <<session, sending, tcpSocket, sock, pump, sent, inbox, task,
                 bufVars, wsVars, metaVars, term, evictions>>

(* handleConnect up to the await of Promise.race: the socket is opened, the  *)
(* pump started and the handshake begun.                                     *)
ConnectStart ==
  /\ connect = "idle"
  /\ connect' = "handshake"
  /\ sock' = "open" /\ tcpSocket' = TRUE
  /\ pump' = "reading"
  /\ task' = "running"
  /\ UNCHANGED <<session, sending, sent, inbox, bufVars, wsVars, metaVars, term, evictions>>

(* The handshake reads the SSH task has still to consume. *)
HandshakePending ==
  \/ sent < HandshakeReads
  \/ \E i \in DOMAIN inbox : inbox[i] = 0

(* builder.connect() wins the race: the rest of handleConnect, with its two  *)
(* gated storage calls.  It needs only bytes that were already fed, so it    *)
(* does not need the TCP socket to be still open.                            *)
ConnectSucceeds ==
  /\ connect = "handshake" /\ task = "running" /\ ~HandshakePending
  /\ connect' = "ok"
  /\ session' = "live"
  /\ sessionMeta' = TRUE /\ stored' = TRUE
  /\ alarm' = TRUE /\ tries' = 0
  /\ UNCHANGED <<sending, tcpSocket, sock, pump, sent, inbox, task, listed,
                 bufVars, wsVars, term, evictions>>

(* The handshake is rejected or the timer wins: the catch of handleConnect.  *)
(* A timeout does not stop builder.connect(), whose task keeps running.      *)
ConnectFails ==
  /\ connect = "handshake"
  /\ connect' = "failed"
  /\ sock' = "closed" /\ tcpSocket' = FALSE
  /\ task' \in {task, "ended"}
  /\ UNCHANGED <<session, sending, pump, sent, inbox, bufVars, wsVars, metaVars, term, evictions>>

(* sessions.ts adds the record once the object has answered ok, long before  *)
(* the idle timeout can expire.                                              *)
ApiRecordsSession ==
  /\ connect = "ok" /\ listed = "unlisted" /\ term[Alarm] = "idle"
  /\ listed' = "listed"
  /\ UNCHANGED <<connVars, bufVars, wsVars, sessionMeta, stored, alarm, tries, term, evictions>>

-----------------------------------------------------------------------------
(* Terminal output *)

(* f[1] + ... + f[n] *)
SumTo(f, n) ==
  LET sum[i \in 0..n] == IF i = 0 THEN 0 ELSE sum[i - 1] + f[i]
  IN  sum[n]

Bytes(chunks) == SumTo([i \in DOMAIN chunks |-> output[chunks[i]]], Len(chunks))

(* Mutant: the end of the stream is fed as if it were data. *)
PumpReadWithoutDone ==
  /\ pump = "reading" /\ sock = "closed"
  /\ inbox' = Append(inbox, -1)
  /\ UNCHANGED <<connect, session, sending, tcpSocket, sock, pump, sent, task,
                 bufVars, wsVars, metaVars, term, evictions>>

(* One read of the pump: a handshake message (0) or an output chunk. *)
PumpRead ==
  /\ pump = "reading" /\ sock = "open"
  /\ sent < HandshakeReads + MaxOutput
  /\ sent' = sent + 1
  /\ \E n \in IF sent < HandshakeReads THEN {0} ELSE Sizes :
       inbox' = Append(inbox, n)
  /\ UNCHANGED <<connect, session, sending, tcpSocket, sock, pump, task,
                 bufVars, wsVars, metaVars, term, evictions>>

(* The SSH task consumes a handshake message. *)
TaskHandshake ==
  /\ task = "running" /\ inbox # <<>> /\ Head(inbox) = 0
  /\ inbox' = Tail(inbox)
  /\ UNCHANGED <<connect, session, sending, tcpSocket, sock, pump, sent, task,
                 bufVars, wsVars, metaVars, term, evictions>>

(* bufferOutput: push the chunk, account for it and drop the k oldest ones.  *)
(* The loop stops as soon as the rest fits or a single chunk is left.        *)
bufferOutput(n) ==
  LET size    == bufferSize + n
      Left(k) == size - Bytes(SubSeq(terminalBuffer, 1, k))
      Stop(k) == Left(k) <= MaxBuffer \/ k = Len(terminalBuffer)
  IN  \E k \in 0..Len(terminalBuffer) :
        /\ Stop(k) /\ \A j \in 0..k-1 : ~Stop(j)
        /\ output' = Append(output, n)
        /\ terminalBuffer' = Append(SubSeq(terminalBuffer, k + 1, Len(terminalBuffer)),
                                    Len(output) + 1)
        /\ bufferSize' = Left(k)

(* The data callback of the handler: onData buffers the chunk and sends it   *)
(* to every client whose socket still takes it.                              *)
onData ==
  /\ task = "running" /\ inbox # <<>> /\ Head(inbox) # 0
  /\ inbox' = Tail(inbox)
  /\ bufferOutput(Head(inbox))
  /\ recv' = [w \in Sockets |-> IF w \in clients /\ ws[w] = "open"
                                THEN Append(recv[w], Len(output) + 1)
                                ELSE recv[w]]
  /\ UNCHANGED <<connect, session, sending, tcpSocket, sock, pump, sent, task,
                 clients, ws, metaVars, term, evictions>>

(* The SSH task ends by itself: SSH disconnect, protocol error, keepalives   *)
(* that were not answered.  Nothing in the object observes it.               *)
TaskEnds ==
  /\ task = "running"
  /\ task' = "ended"
  /\ UNCHANGED <<connect, session, sending, tcpSocket, sock, pump, sent, inbox,
                 bufVars, wsVars, metaVars, term, evictions>>

-----------------------------------------------------------------------------
(* WebSocket clients *)

(* Mutant: the clients are forgotten but not closed. *)
CloseClientsClearOnly ==
  /\ clients' = {}
  /\ UNCHANGED <<ws, recv>>

(* ws.close() on every client: the close event of each is still to come. *)
CloseClients ==
  /\ ws' = [w \in Sockets |-> IF w \in clients /\ ws[w] = "open" THEN "closing" ELSE ws[w]]
  /\ clients' = {}
  /\ UNCHANGED recv

(* Mutant: the buffer is not replayed to a client that joins others. *)
handleWebSocketReplayOnce(w) ==
  /\ listed # "unlisted" /\ ws[w] = "new"
  /\ ws' = [ws EXCEPT ![w] = "open"]
  /\ clients' = clients \cup {w}
  /\ recv' = [recv EXCEPT ![w] = IF clients = {} THEN terminalBuffer ELSE <<>>]
  /\ alarm' = FALSE /\ tries' = 0
  /\ UNCHANGED <<connVars, bufVars, sessionMeta, stored, listed, term, evictions>>

(* A browser attaches: it joins the clients and gets the whole buffer before *)
(* any later chunk.  Whether the session still exists is not checked.        *)
handleWebSocket(w) ==
  /\ listed # "unlisted" /\ ws[w] = "new"
  /\ ws' = [ws EXCEPT ![w] = "open"]
  /\ clients' = clients \cup {w}
  /\ recv' = [recv EXCEPT ![w] = terminalBuffer]
  /\ alarm' = FALSE /\ tries' = 0
  /\ UNCHANGED <<connVars, bufVars, sessionMeta, stored, listed, term, evictions>>

(* The browser goes away, cleanly or not. *)
BrowserCloses(w) ==
  /\ ws[w] = "open"
  /\ ws' = [ws EXCEPT ![w] = "closing"]
  /\ UNCHANGED <<connVars, bufVars, clients, recv, metaVars, term, evictions>>

(* Mutant: the last client leaves and the alarm is not set. *)
webSocketCloseNoAlarm(w) ==
  /\ ws[w] = "closing"
  /\ ws' = [ws EXCEPT ![w] = "gone"]
  /\ clients' = clients \ {w}
  /\ UNCHANGED <<connVars, bufVars, recv, metaVars, term, evictions>>

(* webSocketClose and webSocketError, which do the same. *)
webSocketClose(w) ==
  /\ ws[w] = "closing"
  /\ ws' = [ws EXCEPT ![w] = "gone"]
  /\ clients' = clients \ {w}
  /\ IF clients' = {} THEN alarm' = TRUE /\ tries' = 0 ELSE UNCHANGED <<alarm, tries>>
  /\ UNCHANGED <<connVars, bufVars, recv, sessionMeta, stored, listed, term, evictions>>

(* Terminal input or a resize, sent through the session and awaited; without *)
(* a session, or with a freed one, the message is dropped.                   *)
webSocketMessage(w) ==
  /\ ws[w] = "open" /\ session = "live" /\ ~sending
  /\ sending' = TRUE
  /\ UNCHANGED <<connect, session, tcpSocket, sock, pump, sent, inbox, task,
                 bufVars, wsVars, metaVars, term, evictions>>

(* The call returns: the SSH task took the data, or is gone. *)
InputSent ==
  /\ sending
  /\ sending' = FALSE
  /\ UNCHANGED <<connect, session, tcpSocket, sock, pump, sent, inbox, task,
                 bufVars, wsVars, metaVars, term, evictions>>

-----------------------------------------------------------------------------
(* The end of the session *)

(* Mutant: the chunks are dropped and their account kept. *)
cleanupKeepsSize ==
  /\ session' = "null"
  /\ tcpSocket' = FALSE
  /\ sock' = "closed"
  /\ terminalBuffer' = <<>> /\ UNCHANGED bufferSize

(* cleanup() *)
cleanup ==
  /\ session' = "null"
  /\ tcpSocket' = FALSE
  /\ sock' = "closed"
  /\ terminalBuffer' = <<>> /\ bufferSize' = 0

(* The finally block of the pump, once the read ends: the socket was closed  *)
(* here, or by the server, or failed.                                        *)
PumpEnds ==
  /\ pump = "reading"
  /\ pump' = "done"
  /\ CloseClients
  /\ cleanup
  /\ UNCHANGED <<connect, sending, sent, inbox, task, output, metaVars, term, evictions>>

(* Mutant: the meta is not restored after an eviction. *)
TearDownWithoutRestore(c) ==
  /\ session' = "null"
  /\ tcpSocket' = FALSE
  /\ sock' = IF tcpSocket THEN "closed" ELSE sock
  /\ CloseClients
  /\ IF sessionMeta
     THEN /\ term' = [term EXCEPT ![c] = "kvGet"]
          /\ UNCHANGED <<stored, bufVars>>
     ELSE /\ term' = [term EXCEPT ![c] = "done"]
          /\ stored' = FALSE
          /\ terminalBuffer' = <<>> /\ bufferSize' = 0
          /\ UNCHANGED output
  /\ UNCHANGED <<connect, sending, pump, sent, inbox, task, sessionMeta, listed, evictions>>

(* terminate() after the session is gone and before its KV calls: close the  *)
(* socket and the clients and restore the meta from storage.                 *)
TearDown(c) ==
  /\ session' = "null"
  /\ tcpSocket' = FALSE
  /\ sock' = IF tcpSocket THEN "closed" ELSE sock
  /\ CloseClients
  /\ sessionMeta' = (sessionMeta \/ stored)
  /\ IF sessionMeta'
     THEN /\ term' = [term EXCEPT ![c] = "kvGet"]
          /\ UNCHANGED <<stored, bufVars>>
     ELSE /\ term' = [term EXCEPT ![c] = "done"]
          /\ stored' = FALSE
          /\ terminalBuffer' = <<>> /\ bufferSize' = 0
          /\ UNCHANGED output
  /\ UNCHANGED <<connect, sending, pump, sent, inbox, task, listed, evictions>>

(* Mutant: nothing to do when the SSH session is gone already. *)
terminateOnlyLive(c) ==
  /\ term' = [term EXCEPT ![c] = IF session # "null" THEN "disconnect" ELSE "done"]
  /\ UNCHANGED <<connVars, bufVars, wsVars, sessionMeta, stored, listed, evictions>>

(* A call of terminate(): with a session it awaits session.disconnect().     *)
terminate(c) ==
  IF session # "null"
  THEN /\ term' = [term EXCEPT ![c] = "disconnect"]
       /\ UNCHANGED <<connVars, bufVars, wsVars, sessionMeta, stored, listed, evictions>>
  ELSE TearDown(c)

DeleteRequest(c) ==
  /\ listed # "unlisted" /\ term[c] = "idle"
  /\ terminate(c)
  /\ UNCHANGED <<alarm, tries>>

(* The alarm fires, and is thereby unset.  alarm() ends a session without    *)
(* clients and leaves any other alone.                                       *)
AlarmFires ==
  /\ alarm /\ term[Alarm] \in {"idle", "done", "threw"}
  /\ alarm' = FALSE /\ UNCHANGED tries
  /\ IF clients = {}
     THEN terminate(Alarm)
     ELSE UNCHANGED <<connVars, bufVars, wsVars, sessionMeta, stored, listed, term, evictions>>

(* free() of the wasm-bindgen wrapper needs the object to itself: it throws  *)
(* while another call of it is in flight, and then the wrapper has lost the  *)
(* object all the same.  Of two terminate() calls past their disconnect()    *)
(* the first may find both calls over.                                       *)
MayFree == session = "live" /\ ~sending

MustFree(c) == MayFree /\ \A d \in Callers \ {c} : term[d] # "disconnect"

(* disconnect() has returned, or was rejected by a freed wrapper.  Then      *)
(* this.session is read again for free(), with no try around it: when free() *)
(* throws, or the session is null by now, the exception leaves terminate().  *)
FreeThrows(c) ==
  /\ session' = IF session = "null" THEN "null" ELSE "freed"
  /\ term' = [term EXCEPT ![c] = "threw"]
  /\ UNCHANGED <<connect, sending, tcpSocket, sock, pump, sent, inbox, task,
                 bufVars, wsVars, sessionMeta, stored, listed, evictions>>

(* An alarm handler that throws is scheduled again by the runtime, MaxTries  *)
(* times at most and not instead of an alarm set meanwhile; then it is given *)
(* up.                                                                       *)
Rescheduled(c) ==
  IF c = Alarm /\ ~alarm
  THEN tries' = tries + 1 /\ alarm' = (tries < MaxTries)
  ELSE UNCHANGED <<alarm, tries>>

AfterDisconnect(c) ==
  /\ term[c] = "disconnect"
  /\ \/ MayFree /\ TearDown(c) /\ UNCHANGED <<alarm, tries>>
     \/ ~MustFree(c) /\ FreeThrows(c) /\ Rescheduled(c)

(* The end of terminate(): the storage is deleted, which does not delete the *)
(* alarm, and the buffer emptied.                                            *)
Finish(c) ==
  /\ term' = [term EXCEPT ![c] = "done"]
  /\ stored' = FALSE
  /\ terminalBuffer' = <<>> /\ bufferSize' = 0
  /\ UNCHANGED <<connVars, output, wsVars, sessionMeta, alarm, tries, evictions>>

(* KV get of the session list, and the put of the list without this session. *)
(* A rejected call is logged and terminate() goes on.                        *)
KvGet(c) ==
  /\ term[c] = "kvGet"
  /\ \/ /\ listed = "listed"
        /\ term' = [term EXCEPT ![c] = "kvPut"]
        /\ UNCHANGED <<connVars, bufVars, wsVars, metaVars, evictions>>
     \/ /\ listed # "listed" \/ KvMayFail
        /\ Finish(c)
        /\ UNCHANGED listed

KvPut(c) ==
  /\ term[c] = "kvPut"
  /\ \/ listed' = "removed"
     \/ KvMayFail /\ UNCHANGED listed
  /\ Finish(c)

(* The DELETE route of sessions.ts, once the object has answered it, removes *)
(* the record as well.                                                       *)
DeleteRouteRemoves(c) ==
  /\ c \in Deletes /\ term[c] = "done" /\ listed = "listed"
  /\ listed' = "removed"
  /\ UNCHANGED <<connVars, bufVars, wsVars, sessionMeta, stored, alarm, tries, term, evictions>>

(* The object is evicted between two handlers and built again on the next    *)
(* event.  What it held in memory is lost, an input call still in flight     *)
(* included; storage, alarm and the accepted (hibernatable) WebSockets       *)
(* survive.                                                                  *)
Evict ==
  /\ evictions < MaxEvictions
  /\ connect \notin {"idle", "handshake"}
  /\ \A c \in Callers : term[c] \in {"idle", "done", "threw"}
  /\ evictions' = evictions + 1
  /\ session' = "null" /\ sending' = FALSE /\ tcpSocket' = FALSE
  /\ sock' = IF sock = "open" THEN "closed" ELSE sock
  /\ pump' = IF pump = "reading" THEN "done" ELSE pump
  /\ task' = IF task = "running" THEN "ended" ELSE task
  /\ inbox' = <<>>
  /\ clients' = {}
  /\ terminalBuffer' = <<>> /\ bufferSize' = 0
  /\ sessionMeta' = FALSE
  /\ UNCHANGED <<connect, sent, ws, recv, output, stored, alarm, tries, listed, term>>

-----------------------------------------------------------------------------
Next ==
  \/ ConnectRefused \/ ConnectStart \/ ConnectSucceeds \/ ConnectFails
  \/ ApiRecordsSession
  \/ PumpRead \/ TaskHandshake \/ onData \/ TaskEnds \/ PumpEnds
  \/ \E w \in Sockets : \/ handleWebSocket(w) \/ webSocketMessage(w)
                         \/ BrowserCloses(w) \/ webSocketClose(w)
  \/ InputSent
  \/ \E c \in Deletes : DeleteRequest(c) \/ DeleteRouteRemoves(c)
  \/ AlarmFires
  \/ \E c \in Callers : AfterDisconnect(c) \/ KvGet(c) \/ KvPut(c)
  \/ Evict

Spec == Init /\ [][Next]_vars

(* The runtime delivers close events and alarms, resumes a handler whose     *)
(* await is over and sends the Worker's answer; browsers are eventually      *)
(* closed.  Nothing is assumed of the server, the pump, the SSH task or of   *)
(* evictions, and nothing of input: a write that waits for the channel's     *)
(* window may never return (ChannelFlow).                                    *)
Fairness ==
  /\ WF_vars(ApiRecordsSession) /\ WF_vars(AlarmFires)
  /\ \A w \in Sockets : WF_vars(BrowserCloses(w)) /\ WF_vars(webSocketClose(w))
  /\ \A c \in Callers : WF_vars(AfterDisconnect(c) \/ KvGet(c) \/ KvPut(c))

FairSpec == Spec /\ Fairness

-----------------------------------------------------------------------------
TypeConn ==
  /\ connect \in {"idle", "handshake", "ok", "failed"}
  /\ session \in {"null", "live", "freed"}
  /\ sock \in {"none", "open", "closed"}
  /\ pump \in {"none", "reading", "done"}
  /\ task \in {"none", "running", "ended"}
  /\ listed \in {"unlisted", "listed", "removed"}
  /\ sent \in Nat /\ evictions \in Nat /\ tries \in Nat

TypeFlags ==
  /\ sending \in BOOLEAN /\ tcpSocket \in BOOLEAN
  /\ sessionMeta \in BOOLEAN /\ stored \in BOOLEAN /\ alarm \in BOOLEAN

TypeOutput == inbox \in Seq(Nat) /\ terminalBuffer \in Seq(Nat) /\ output \in Seq(Nat)

TypeClients ==
  /\ clients \subseteq Sockets
  /\ ws \in [Sockets -> {"new", "open", "closing", "gone"}]
  /\ recv \in [Sockets -> Seq(Nat)]
  /\ term \in [Callers -> {"idle", "disconnect", "kvGet", "kvPut", "done", "threw"}]

(* Every variable has its type, the byte account apart (BufferAccount). *)
TypeOK == TypeConn /\ TypeFlags /\ TypeOutput /\ TypeClients

(* s is the run of the last Len(s) of n chunks. *)
IsLastOf(s, n) ==
  /\ Len(s) <= n
  /\ \A j \in 1..Len(s) : s[j] = n - Len(s) + j

(* Reattaching: a browser that attaches at any moment, also in the middle of *)
(* a burst, sees the replayed buffer followed by the live output as one run  *)
(* with no chunk missing, repeated or out of order, and never less than the  *)
(* buffer holds (handleWebSocket, onData, bufferOutput against every closing *)
(* path).                                                                    *)
NoGapAfterAttach ==
  \A w \in Sockets : w \in clients /\ ws[w] = "open" =>
    IsLastOf(recv[w], Len(output)) /\ Len(terminalBuffer) <= Len(recv[w])

(* No browser is silently dropped: until an eviction, a WebSocket that is    *)
(* still open is one the object sends to, so every path that takes a client  *)
(* out of `clients` also closes it.  That there is still a session to send   *)
(* from is another matter (AttachedHasSession).                              *)
OpenMeansAttached ==
  evictions = 0 => \A w \in Sockets : ws[w] = "open" => w \in clients

(* The byte account of the buffer is exact after any mix of output, eviction *)
(* of old chunks, cleanup() and terminate(), and keeps the budget unless one *)
(* chunk alone exceeds it.                                                   *)
BufferAccount ==
  /\ bufferSize = Bytes(terminalBuffer)
  /\ bufferSize <= MaxBuffer \/ Len(terminalBuffer) = 1

(* The runtime has given up the alarm, after MaxTries retries that threw too. *)
GivenUp == tries > MaxTries

(* The idle clean-up cannot be forgotten: as long as the object still has a  *)
(* session record to clean up, the alarm is set, or a WebSocket is open or   *)
(* closing (whose close event sets it), or the alarm's terminate() is on its *)
(* way, or some terminate() has passed the point where it can throw; but for *)
(* a session whose wrapper is freed, when every retry of the alarm threw.    *)
CleanupArmed ==
  stored => \/ alarm
            \/ \E w \in Sockets : ws[w] \in {"open", "closing"}
            \/ term[Alarm] = "disconnect"
            \/ \E c \in Callers : term[c] \in {"kvGet", "kvPut"}
            \/ GivenUp /\ session # "live"

(* terminate() forgets the session's own meta only after the KV record is    *)
(* gone, unless the DELETE route is about to remove it: otherwise no later   *)
(* alarm could remove the record.                                            *)
NoOrphanRecord ==
  listed = "listed" /\ ~stored => \/ \E c \in Callers : term[c] \in {"kvGet", "kvPut"}
                                  \/ \E c \in Deletes : term[c] = "done"

(* The README's promise about reattaching: a browser attached to a live      *)
(* session, whose TCP connection is up, has been sent all of its output.     *)
NothingMissed ==
  \A w \in clients : session = "live" /\ pump = "reading" /\ ws[w] = "open"
                     => recv[w] = [i \in 1..Len(output) |-> i]

(* The pump's "TCP closed - notify all WS clients and clean up": once it has *)
(* run, the object holds no SSH session any more.                            *)
CleanedUpAfterTcpClosed == pump = "done" => session = "null"

(* Once the browsers are gone, the session is eventually cleaned up: also    *)
(* when a terminate() throws half-way, races another one or the pump, or     *)
(* when the object is evicted and has to restore the meta from storage; or   *)
(* the runtime gives its alarm up, after every retry of it has thrown.       *)
StoredEventuallyDeleted == stored ~> ~stored \/ GivenUp

(* The stronger claims do not hold. *)

(* A browser that is attached has a session to talk to. *)
AttachedHasSession ==
  evictions = 0 => \A w \in Sockets : ws[w] = "open" => session # "null"

(* The idle alarm ("idle timeout, terminating session") ends the session in  *)
(* the end, if need be by a retry.                                           *)
NeverGivenUp == ~GivenUp
=============================================================================
