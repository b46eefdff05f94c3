------------------------ MODULE SshSessionDO_proofs ------------------------
(***************************************************************************)
(* Proofs about SshSessionDO, for any number of browsers, DELETE requests, *)
(* output chunks and evictions, and about SessionRegistry, for any number  *)
(* of sessions.                                                            *)
(***************************************************************************)
EXTENDS SshSessionDO, SessionRegistry, SequenceTheorems, FiniteSetTheorems,
        WellFoundedInduction, TLAPS

-----------------------------------------------------------------------------
(* Type correctness *)

(* The state Init describes is well typed. *)
LEMMA InitTypeOK == Init => TypeOK
<1> SUFFICES ASSUME Init PROVE TypeOK
  OBVIOUS
<1>1. ws \in [Sockets -> {"new", "open", "closing", "gone"}] /\ recv \in [Sockets -> Seq(Nat)]
  BY DEF Init
<1>2. term \in [Callers -> {"idle", "disconnect", "kvGet", "kvPut", "done", "threw"}]
  BY DEF Init
<1>3. sent \in Nat /\ evictions \in Nat /\ tries \in Nat /\ inbox \in Seq(Nat)
      /\ terminalBuffer \in Seq(Nat) /\ output \in Seq(Nat)
  BY DEF Init
<1> QED
  BY <1>1, <1>2, <1>3 DEF Init, TypeOK, TypeConn, TypeFlags, TypeOutput, TypeClients

(* Every action of the object keeps its state well typed. *)
LEMMA NextTypeOK == TypeOK /\ [Next]_vars => TypeOK'
<1> SUFFICES ASSUME TypeOK, [Next]_vars PROVE TypeOK'
  OBVIOUS
<1> USE DOAssumption DEF TypeOK
<1>1. CASE ConnectRefused
  BY <1>1 DEF ConnectRefused, TypeConn, TypeFlags, TypeOutput, TypeClients,
            connVars, bufVars, wsVars, metaVars
<1>2. CASE ConnectStart
  BY <1>2 DEF ConnectStart, TypeConn, TypeFlags, TypeOutput, TypeClients,
            connVars, bufVars, wsVars, metaVars
<1>3. CASE ConnectSucceeds
  BY <1>3 DEF ConnectSucceeds, TypeConn, TypeFlags, TypeOutput, TypeClients,
            connVars, bufVars, wsVars, metaVars
<1>4. CASE ConnectFails
  BY <1>4, ZenonT(60) DEF ConnectFails, TypeConn, TypeFlags, TypeOutput, TypeClients,
            connVars, bufVars, wsVars, metaVars
<1>5. CASE ApiRecordsSession
  BY <1>5 DEF ApiRecordsSession, TypeConn, TypeFlags, TypeOutput, TypeClients,
            connVars, bufVars, wsVars, metaVars
<1>6. CASE PumpRead
  BY <1>6 DEF PumpRead, TypeConn, TypeFlags, TypeOutput, TypeClients,
            connVars, bufVars, wsVars, metaVars
<1>7. CASE TaskHandshake
  BY <1>7 DEF TaskHandshake, TypeConn, TypeFlags, TypeOutput, TypeClients,
            connVars, bufVars, wsVars, metaVars
<1>8. CASE TaskEnds
  BY <1>8 DEF TaskEnds, TypeConn, TypeFlags, TypeOutput, TypeClients,
            connVars, bufVars, wsVars, metaVars
<1>9. CASE onData
  <2>1. TypeConn'
    BY <1>9 DEF TypeConn, onData, bufferOutput, bufVars, metaVars
  <2>2. TypeFlags'
    BY <1>9, Zenon DEF TypeFlags, onData, bufferOutput, bufVars, metaVars
  <2>3. TypeOutput'
    <3>1. PICK k \in 0..Len(terminalBuffer) :
            /\ output' = Append(output, Head(inbox))
            /\ terminalBuffer' = Append(SubSeq(terminalBuffer, k + 1, Len(terminalBuffer)),
                                        Len(output) + 1)
      BY <1>9, Zenon DEF onData, bufferOutput
    <3>2. inbox \in Seq(Nat) /\ inbox # <<>> /\ inbox' = Tail(inbox)
      BY <1>9 DEF onData, TypeOutput
    <3>3. Head(inbox) \in Nat /\ Tail(inbox) \in Seq(Nat)
      BY <3>2
    <3>4. SubSeq(terminalBuffer, k + 1, Len(terminalBuffer)) \in Seq(Nat)
      BY DEF TypeOutput
    <3> QED
      BY <3>1, <3>2, <3>3, <3>4, SMTT(60) DEF TypeOutput
  <2>4. TypeClients'
    BY <1>9 DEF TypeClients, TypeOutput, onData
  <2> QED
    BY <2>1, <2>2, <2>3, <2>4
<1>10. CASE PumpEnds
  <2>1. TypeConn'
    BY <1>10 DEF TypeConn, PumpEnds, CloseClients, cleanup, metaVars
  <2>2. TypeFlags'
    BY <1>10, Zenon DEF TypeFlags, PumpEnds, CloseClients, cleanup, metaVars
  <2>3. TypeOutput'
    BY <1>10 DEF TypeOutput, PumpEnds, CloseClients, cleanup, metaVars
  <2>4. TypeClients'
    BY <1>10 DEF TypeClients, TypeOutput, PumpEnds, CloseClients, cleanup, metaVars
  <2> QED
    BY <2>1, <2>2, <2>3, <2>4
<1>11. CASE InputSent
  <2>1. TypeConn'
    BY <1>11 DEF TypeConn, InputSent, connVars, bufVars, wsVars, metaVars
  <2>2. TypeFlags'
    BY <1>11, Zenon DEF TypeFlags, InputSent, connVars, bufVars, wsVars, metaVars
  <2>3. TypeOutput'
    BY <1>11 DEF TypeOutput, InputSent, connVars, bufVars, wsVars, metaVars
  <2>4. TypeClients'
    BY <1>11 DEF TypeClients, TypeOutput, InputSent, connVars, bufVars, wsVars, metaVars
  <2> QED
    BY <2>1, <2>2, <2>3, <2>4
<1>12. ASSUME NEW w \in Sockets, handleWebSocket(w) PROVE TypeOK'
  <2>1. TypeConn'
    BY <1>12 DEF TypeConn, handleWebSocket, connVars, bufVars, wsVars, metaVars
  <2>2. TypeFlags'
    BY <1>12, Zenon DEF TypeFlags, handleWebSocket, connVars, bufVars, wsVars, metaVars
  <2>3. TypeOutput'
    BY <1>12 DEF TypeOutput, handleWebSocket, connVars, bufVars, wsVars, metaVars
  <2>4. TypeClients'
    BY <1>12 DEF TypeClients, TypeOutput, handleWebSocket, connVars, bufVars, wsVars, metaVars
  <2> QED
    BY <2>1, <2>2, <2>3, <2>4
<1>13. ASSUME NEW w \in Sockets, webSocketMessage(w) PROVE TypeOK'
  <2>1. TypeConn'
    BY <1>13 DEF TypeConn, webSocketMessage, connVars, bufVars, wsVars, metaVars
  <2>2. TypeFlags'
    BY <1>13, Zenon DEF TypeFlags, webSocketMessage, connVars, bufVars, wsVars, metaVars
  <2>3. TypeOutput'
    BY <1>13 DEF TypeOutput, webSocketMessage, connVars, bufVars, wsVars, metaVars
  <2>4. TypeClients'
    BY <1>13 DEF TypeClients, TypeOutput, webSocketMessage, connVars, bufVars, wsVars, metaVars
  <2> QED
    BY <2>1, <2>2, <2>3, <2>4
<1>14. ASSUME NEW w \in Sockets, BrowserCloses(w) PROVE TypeOK'
  <2>1. TypeConn'
    BY <1>14 DEF TypeConn, BrowserCloses, connVars, bufVars, wsVars, metaVars
  <2>2. TypeFlags'
    BY <1>14, Zenon DEF TypeFlags, BrowserCloses, connVars, bufVars, wsVars, metaVars
  <2>3. TypeOutput'
    BY <1>14 DEF TypeOutput, BrowserCloses, connVars, bufVars, wsVars, metaVars
  <2>4. TypeClients'
    BY <1>14 DEF TypeClients, TypeOutput, BrowserCloses, connVars, bufVars, wsVars, metaVars
  <2> QED
    BY <2>1, <2>2, <2>3, <2>4
<1>15. ASSUME NEW w \in Sockets, webSocketClose(w) PROVE TypeOK'
  <2>1. TypeConn'
    BY <1>15 DEF TypeConn, webSocketClose, connVars, bufVars, wsVars, metaVars
  <2>2. TypeFlags'
    BY <1>15, Zenon DEF TypeFlags, webSocketClose, connVars, bufVars, wsVars, metaVars
  <2>3. TypeOutput'
    BY <1>15 DEF TypeOutput, webSocketClose, connVars, bufVars, wsVars, metaVars
  <2>4. TypeClients'
    BY <1>15 DEF TypeClients, TypeOutput, webSocketClose, connVars, bufVars, wsVars, metaVars
  <2> QED
    BY <2>1, <2>2, <2>3, <2>4
<1>16. ASSUME NEW c \in Callers, TearDown(c), alarm' \in BOOLEAN, tries' \in Nat PROVE TypeOK'
  <2>1. TypeConn'
    BY <1>16 DEF TypeConn, TearDown, CloseClients, bufVars
  <2>2. TypeFlags'
    BY <1>16, Zenon DEF TypeFlags, TearDown, CloseClients, bufVars
  <2>3. TypeOutput'
    <3>1. /\ inbox' = inbox /\ output' = output
          /\ terminalBuffer' = terminalBuffer \/ terminalBuffer' = <<>>
      BY <1>16, Zenon DEF TearDown, bufVars
    <3>2. <<>> \in Seq(Nat)
      OBVIOUS
    <3> QED
      BY <3>1, <3>2, Zenon DEF TypeOutput
  <2>4. TypeClients'
    BY <1>16 DEF TypeClients, TypeOutput, TearDown, CloseClients, bufVars
  <2> QED
    BY <2>1, <2>2, <2>3, <2>4
<1>17. ASSUME NEW c \in Callers, terminate(c), alarm' \in BOOLEAN, tries' \in Nat PROVE TypeOK'
  <2>1. CASE session = "null"
    BY <1>16, <1>17, <2>1 DEF terminate
  <2>2. CASE session # "null"
    BY <1>17, <2>2 DEF terminate, TypeConn, TypeFlags, TypeOutput, TypeClients, connVars, bufVars, wsVars
  <2> QED
    BY <2>1, <2>2
<1>18. ASSUME NEW c \in Deletes, DeleteRequest(c) PROVE TypeOK'
  <2>1. alarm' \in BOOLEAN /\ tries' \in Nat
    BY <1>18, Zenon DEF DeleteRequest, TypeFlags, TypeConn
  <2> QED
    BY <1>17, <1>18, <2>1 DEF DeleteRequest, Callers
<1>19. CASE AlarmFires
  <2>1. CASE clients = {}
    <3>1. alarm' \in BOOLEAN /\ tries' \in Nat /\ terminate(Alarm)
      BY <1>19, <2>1, Zenon DEF AlarmFires, TypeConn
    <3> QED
      BY <1>17, <3>1 DEF Callers
  <2>2. CASE clients # {}
    <3>1. TypeFlags'
      BY <1>19, <2>2, Zenon DEF AlarmFires, TypeFlags, connVars
    <3>2. TypeConn' /\ TypeOutput' /\ TypeClients'
      BY <1>19, <2>2 DEF AlarmFires, TypeConn, TypeOutput, TypeClients, connVars, bufVars, wsVars
    <3> QED
      BY <3>1, <3>2
  <2> QED
    BY <2>1, <2>2
<1>20. ASSUME NEW c \in Callers, AfterDisconnect(c) PROVE TypeOK'
  <2>1. CASE TearDown(c) /\ UNCHANGED <<alarm, tries>>
    BY <1>16, <2>1 DEF TypeFlags, TypeConn
  <2>2. CASE FreeThrows(c) /\ Rescheduled(c)
    <3>1. alarm' \in BOOLEAN /\ tries' \in Nat
      <4>1. tries \in Nat /\ alarm \in BOOLEAN /\ tries + 1 \in Nat
        BY DEF TypeFlags, TypeConn
      <4>2. (tries < MaxTries) \in BOOLEAN
        BY <4>1
      <4> QED
        BY <2>2, <4>1, <4>2, Zenon DEF Rescheduled
    <3>2. TypeFlags'
      BY <2>2, <3>1, Zenon DEF FreeThrows, TypeFlags
    <3>3. TypeConn' /\ TypeOutput' /\ TypeClients'
      BY <2>2, <3>1, ZenonT(60) DEF FreeThrows, TypeConn, TypeOutput, TypeClients, bufVars, wsVars
    <3> QED
      BY <3>2, <3>3
  <2> QED
    BY <1>20, <2>1, <2>2, Zenon DEF AfterDisconnect
<1>21. ASSUME NEW c \in Callers, KvGet(c) PROVE TypeOK'
  <2>1. TypeConn'
    BY <1>21 DEF TypeConn, KvGet, Finish, connVars, bufVars, wsVars, metaVars
  <2>2. TypeFlags'
    BY <1>21, Zenon DEF TypeFlags, KvGet, Finish, connVars, bufVars, wsVars, metaVars
  <2>3. TypeOutput'
    <3>1. /\ inbox' = inbox /\ output' = output
          /\ terminalBuffer' = terminalBuffer \/ terminalBuffer' = <<>>
      BY <1>21, Zenon DEF KvGet, Finish, connVars, bufVars
    <3>2. <<>> \in Seq(Nat)
      OBVIOUS
    <3> QED
      BY <3>1, <3>2, Zenon DEF TypeOutput
  <2>4. TypeClients'
    BY <1>21 DEF TypeClients, TypeOutput, KvGet, Finish, connVars, bufVars, wsVars, metaVars
  <2> QED
    BY <2>1, <2>2, <2>3, <2>4
<1>22. ASSUME NEW c \in Callers, KvPut(c) PROVE TypeOK'
  <2>1. TypeConn'
    BY <1>22 DEF TypeConn, KvPut, Finish, connVars, bufVars, wsVars, metaVars
  <2>2. TypeFlags'
    BY <1>22, Zenon DEF TypeFlags, KvPut, Finish, connVars, bufVars, wsVars, metaVars
  <2>3. TypeOutput'
    BY <1>22 DEF TypeOutput, KvPut, Finish, connVars, bufVars, wsVars, metaVars
  <2>4. TypeClients'
    BY <1>22 DEF TypeClients, TypeOutput, KvPut, Finish, connVars, bufVars, wsVars, metaVars
  <2> QED
    BY <2>1, <2>2, <2>3, <2>4
<1>23. ASSUME NEW c \in Deletes, DeleteRouteRemoves(c) PROVE TypeOK'
  BY <1>23 DEF DeleteRouteRemoves, TypeConn, TypeFlags, TypeOutput, TypeClients,
            connVars, bufVars, wsVars, metaVars
<1>24. CASE Evict
  <2>1. TypeConn'
    BY <1>24 DEF TypeConn, Evict
  <2>2. TypeFlags'
    BY <1>24, Zenon DEF TypeFlags, Evict
  <2>3. TypeOutput'
    BY <1>24 DEF TypeOutput, Evict
  <2>4. TypeClients'
    BY <1>24 DEF TypeClients, TypeOutput, Evict
  <2> QED
    BY <2>1, <2>2, <2>3, <2>4
<1>25. CASE UNCHANGED vars
  BY <1>25 DEF vars, TypeConn, TypeFlags, TypeOutput, TypeClients,
            connVars, bufVars, wsVars, metaVars
<1> QED
  BY <1>1, <1>2, <1>3, <1>4, <1>5, <1>6, <1>7, <1>8, <1>9, <1>10, <1>11, <1>12,
     <1>13, <1>14, <1>15, <1>18, <1>19, <1>20, <1>21, <1>22, <1>23, <1>24, <1>25
     DEF Next

(* Type correctness, for every value of the constants. *)
THEOREM TypeCorrect == Spec => []TypeOK
<1>1. Init => TypeOK
  BY InitTypeOK
<1>2. TypeOK /\ [Next]_vars => TypeOK'
  BY NextTypeOK
<1> QED
  BY <1>1, <1>2, PTL DEF Spec

-----------------------------------------------------------------------------
(* Which browsers the object sends to *)

(* The object sends only to sockets that are open or whose close event is   *)
(* still to come.                                                           *)
ClientsConnected == \A w \in clients : ws[w] \in {"open", "closing"}

ClientsInv == ClientsConnected /\ OpenMeansAttached

(* What a step can do to the set of clients and their sockets. *)
ClientsStep ==
  \/ UNCHANGED <<clients, ws, evictions>>
  \/ CloseClients /\ UNCHANGED evictions
  \/ \E w \in Sockets : handleWebSocket(w) \/ BrowserCloses(w) \/ webSocketClose(w)
  \/ Evict

(* Every action is one of those steps for the clients. *)
LEMMA NextIsClientsStep == [Next]_vars => ClientsStep
<1> SUFFICES ASSUME [Next]_vars PROVE ClientsStep
  OBVIOUS
<1>1. CASE \/ ConnectRefused \/ ConnectStart \/ ConnectSucceeds \/ ConnectFails
           \/ ApiRecordsSession \/ PumpRead \/ TaskHandshake \/ TaskEnds \/ InputSent
  BY <1>1, Zenon DEF ClientsStep, ConnectRefused, ConnectStart, ConnectSucceeds, ConnectFails,
    ApiRecordsSession, PumpRead, TaskHandshake, TaskEnds, InputSent, wsVars
<1>2. CASE onData \/ PumpEnds
  BY <1>2, Zenon DEF ClientsStep, onData, PumpEnds
<1>3. ASSUME NEW w \in Sockets, webSocketMessage(w) PROVE ClientsStep
  BY <1>3, Zenon DEF ClientsStep, webSocketMessage, wsVars
<1>4. ASSUME NEW c \in Callers, terminate(c) PROVE ClientsStep
  BY <1>4, Zenon DEF ClientsStep, terminate, TearDown, wsVars
<1>5. ASSUME NEW c \in Deletes, DeleteRequest(c) \/ DeleteRouteRemoves(c) PROVE ClientsStep
  BY <1>4, <1>5, Zenon DEF ClientsStep, DeleteRequest, DeleteRouteRemoves, wsVars, Callers
<1>6. CASE AlarmFires
  BY <1>4, <1>6, Zenon DEF ClientsStep, AlarmFires, wsVars, Callers
<1>7. ASSUME NEW c \in Callers, AfterDisconnect(c) PROVE ClientsStep
  BY <1>7, Zenon DEF ClientsStep, AfterDisconnect, TearDown, FreeThrows, wsVars
<1>8. ASSUME NEW c \in Callers, KvGet(c) \/ KvPut(c) PROVE ClientsStep
  BY <1>8, Zenon DEF ClientsStep, KvGet, KvPut, Finish, wsVars
<1>9. CASE UNCHANGED vars
  BY <1>9, Zenon DEF ClientsStep, vars, wsVars
<1> QED
  BY <1>1, <1>2, <1>3, <1>5, <1>6, <1>7, <1>8, <1>9 DEF Next, ClientsStep

(* Such a step keeps the client set in agreement with the sockets. *)
LEMMA NextClientsInv == TypeOK /\ ClientsInv /\ [Next]_vars => ClientsInv'
<1> SUFFICES ASSUME TypeOK, ClientsInv, [Next]_vars PROVE ClientsInv'
  OBVIOUS
<1> USE DEF ClientsInv, ClientsConnected, OpenMeansAttached
<1>0. /\ ws \in [Sockets -> {"new", "open", "closing", "gone"}]
      /\ clients \subseteq Sockets /\ evictions \in Nat
  BY DEF TypeOK, TypeClients, TypeConn
<1>1. CASE UNCHANGED <<clients, ws, evictions>>
  BY <1>1
<1>2. CASE CloseClients /\ UNCHANGED evictions
  BY <1>0, <1>2 DEF CloseClients
<1>3. ASSUME NEW w \in Sockets, handleWebSocket(w) PROVE ClientsInv'
  BY <1>0, <1>3 DEF handleWebSocket
<1>4. ASSUME NEW w \in Sockets, BrowserCloses(w) PROVE ClientsInv'
  BY <1>0, <1>4 DEF BrowserCloses
<1>5. ASSUME NEW w \in Sockets, webSocketClose(w) PROVE ClientsInv'
  BY <1>0, <1>5 DEF webSocketClose
<1>6. CASE Evict
  BY <1>0, <1>6 DEF Evict
<1> QED
  BY NextIsClientsStep, <1>1, <1>2, <1>3, <1>4, <1>5, <1>6 DEF ClientsStep

(* No browser is left attached to nothing (OpenMeansAttached), together with *)
(* the converse fact about the client set.                                   *)
THEOREM ClientsCorrect == Spec => [](ClientsConnected /\ OpenMeansAttached)
<1>1. Init => TypeOK /\ ClientsInv
  BY InitTypeOK DEF Init, ClientsInv, ClientsConnected, OpenMeansAttached
<1>2. (TypeOK /\ ClientsInv) /\ [Next]_vars => (TypeOK /\ ClientsInv)'
  BY NextTypeOK, NextClientsInv
<1>3. ClientsInv => ClientsConnected /\ OpenMeansAttached
  BY DEF ClientsInv
<1> QED
  BY <1>1, <1>2, <1>3, PTL DEF Spec

-----------------------------------------------------------------------------
(* The idle clean-up is never forgotten *)

(* Some socket is open or closing: its close event is still to come. *)
SocketPending == \E w \in Sockets : ws[w] \in {"open", "closing"}

(* Some terminate() is past the point where it can throw. *)
TerminatePending == \E c \in Callers : term[c] \in {"kvGet", "kvPut"}

(* A step that keeps the reasons for which CleanupArmed holds keeps it.      *)
LEMMA StillArmed ==
  ASSUME CleanupArmed, stored' => stored,
         alarm => alarm',
         SocketPending => SocketPending',
         term' = term,
         tries' = tries, session # "live" => session' # "live"
  PROVE  CleanupArmed'
  BY Zenon DEF CleanupArmed, SocketPending, GivenUp

(* Every action keeps the clean-up armed. *)
LEMMA NextCleanupArmed ==
  TypeOK /\ ClientsInv /\ CleanupArmed /\ [Next]_vars => CleanupArmed'
<1> SUFFICES ASSUME TypeOK, ClientsInv, CleanupArmed, [Next]_vars PROVE CleanupArmed'
  OBVIOUS
<1>0. /\ ws \in [Sockets -> {"new", "open", "closing", "gone"}]
      /\ clients \subseteq Sockets
      /\ term \in [Callers -> {"idle", "disconnect", "kvGet", "kvPut", "done", "threw"}]
      /\ \A w \in clients : ws[w] \in {"open", "closing"}
  BY DEF TypeOK, TypeClients, ClientsInv, ClientsConnected
<1>1. CASE \/ ConnectRefused \/ ConnectStart \/ ConnectFails
           \/ ApiRecordsSession \/ PumpRead \/ TaskHandshake \/ onData \/ TaskEnds
           \/ InputSent \/ UNCHANGED vars
  <2>1. UNCHANGED <<stored, alarm, tries, ws, term, session>>
    BY <1>1, Zenon DEF ConnectRefused, ConnectStart, ConnectFails, ApiRecordsSession, PumpRead,
      TaskHandshake, onData, TaskEnds, InputSent, connVars, wsVars, metaVars, vars
  <2> QED
    BY <2>1, StillArmed, Zenon DEF SocketPending
<1>2. CASE ConnectSucceeds
  BY <1>2, Zenon DEF ConnectSucceeds, CleanupArmed
<1>3. CASE PumpEnds
  <2>1. SocketPending => SocketPending'
    BY <1>0, <1>3 DEF PumpEnds, CloseClients, SocketPending
  <2>2. session' # "live"
    BY <1>3 DEF PumpEnds, cleanup
  <2> QED
    BY <1>3, <2>1, <2>2, StillArmed, Zenon DEF PumpEnds, metaVars
<1>4. ASSUME NEW w \in Sockets, handleWebSocket(w) PROVE CleanupArmed'
  <2>1. SocketPending'
    BY <1>0, <1>4 DEF handleWebSocket, SocketPending
  <2> QED
    BY <2>1, Zenon DEF CleanupArmed, SocketPending
<1>5. ASSUME NEW w \in Sockets, webSocketMessage(w) PROVE CleanupArmed'
  BY <1>5, StillArmed, Zenon DEF webSocketMessage, connVars, wsVars, metaVars, SocketPending
<1>6. ASSUME NEW w \in Sockets, BrowserCloses(w) PROVE CleanupArmed'
  <2>1. SocketPending'
    BY <1>0, <1>6 DEF BrowserCloses, SocketPending
  <2> QED
    BY <2>1, Zenon DEF CleanupArmed, SocketPending
<1>7. ASSUME NEW w \in Sockets, webSocketClose(w) PROVE CleanupArmed'
  <2>1. CASE clients \ {w} = {}
    BY <1>7, <2>1, Zenon DEF webSocketClose, CleanupArmed
  <2>2. CASE clients \ {w} # {}
    <3>1. PICK v \in clients : v # w
      BY <2>2
    <3>2. ws'[v] = ws[v] /\ ws[v] \in {"open", "closing"} /\ v \in Sockets
      BY <1>0, <1>7, <3>1 DEF webSocketClose
    <3> QED
      BY <3>2, Zenon DEF CleanupArmed
  <2> QED
    BY <2>1, <2>2
<1>8. ASSUME NEW c \in Callers, TearDown(c) PROVE CleanupArmed'
  <2>1. ~stored' \/ term' = [term EXCEPT ![c] = "kvGet"]
    BY <1>8, Zenon DEF TearDown
  <2>2. term' = [term EXCEPT ![c] = "kvGet"] => TerminatePending'
    BY <1>0 DEF TerminatePending
  <2> QED
    BY <2>1, <2>2, Zenon DEF CleanupArmed, TerminatePending
<1>9. ASSUME NEW c \in Callers, term' = [term EXCEPT ![c] = "disconnect"],
             term[c] \notin {"kvGet", "kvPut"}
      PROVE  /\ TerminatePending => TerminatePending'
             /\ term[Alarm] = "disconnect" => term'[Alarm] = "disconnect"
  BY <1>0, <1>9 DEF TerminatePending, Callers
<1>10. ASSUME NEW c \in Deletes, DeleteRequest(c) PROVE CleanupArmed'
  <2>0. c \in Callers
    BY DEF Callers
  <2>1. CASE session = "null"
    BY <1>8, <1>10, <2>0, <2>1 DEF DeleteRequest, terminate
  <2>2. CASE session # "null"
    <3>1. term' = [term EXCEPT ![c] = "disconnect"] /\ term[c] = "idle"
      BY <1>10, <2>2 DEF DeleteRequest, terminate
    <3>2. /\ TerminatePending => TerminatePending'
          /\ term[Alarm] = "disconnect" => term'[Alarm] = "disconnect"
      BY <1>9, <2>0, <3>1
    <3>3. UNCHANGED <<stored, alarm, tries, ws, session>>
      BY <1>10, <2>2, Zenon DEF DeleteRequest, terminate, connVars, wsVars
    <3> QED
      BY <3>2, <3>3, Zenon DEF CleanupArmed, TerminatePending, GivenUp
  <2> QED
    BY <2>1, <2>2
<1>11. CASE AlarmFires
  <2>0. Alarm \in Callers
    BY DEF Callers
  <2>1. CASE clients # {}
    <3>1. PICK v \in clients : TRUE
      BY <2>1
    <3>2. v \in Sockets /\ ws[v] \in {"open", "closing"} /\ ws' = ws
      BY <1>0, <1>11, <2>1, <3>1, Zenon DEF AlarmFires, wsVars
    <3> QED
      BY <3>2, Zenon DEF CleanupArmed
  <2>2. CASE clients = {} /\ session = "null"
    BY <1>8, <1>11, <2>0, <2>2 DEF AlarmFires, terminate
  <2>3. CASE clients = {} /\ session # "null"
    <3>1. term' = [term EXCEPT ![Alarm] = "disconnect"]
      BY <1>11, <2>3 DEF AlarmFires, terminate
    <3>2. term'[Alarm] = "disconnect"
      BY <1>0, <2>0, <3>1
    <3> QED
      BY <3>2, Zenon DEF CleanupArmed
  <2> QED
    BY <2>1, <2>2, <2>3
<1>12. ASSUME NEW c \in Callers, AfterDisconnect(c) PROVE CleanupArmed'
  <2>1. CASE TearDown(c)
    BY <1>8, <2>1
  <2>2. CASE FreeThrows(c) /\ Rescheduled(c)
    <3>1. session' # "live" /\ UNCHANGED <<stored, ws>>
      BY <2>2 DEF FreeThrows, wsVars
    <3>2. tries \in Nat /\ MaxTries \in Nat /\ alarm \in BOOLEAN
      BY DOAssumption DEF TypeOK, TypeConn, TypeFlags
    <3>3. CASE c = Alarm /\ ~alarm
      <4>1. tries' = tries + 1 /\ alarm' = (tries < MaxTries)
        BY <2>2, <3>3, Zenon DEF Rescheduled
      <4>2. tries < MaxTries \/ GivenUp'
        BY <3>2, <4>1 DEF GivenUp
      <4> QED
        BY <3>1, <4>1, <4>2, Zenon DEF CleanupArmed
    <3>4. CASE c = Alarm /\ alarm
      BY <2>2, <3>4, Zenon DEF Rescheduled, CleanupArmed
    <3>5. CASE c # Alarm
      <4>1. term[c] = "disconnect" /\ term' = [term EXCEPT ![c] = "threw"]
        BY <1>12, <2>2, Zenon DEF AfterDisconnect, FreeThrows
      <4>2. /\ TerminatePending => TerminatePending'
            /\ term[Alarm] = "disconnect" => term'[Alarm] = "disconnect"
        BY <1>0, <3>5, <4>1 DEF TerminatePending, Callers
      <4>3. UNCHANGED <<alarm, tries>>
        BY <2>2, <3>5 DEF Rescheduled
      <4> QED
        BY <3>1, <4>2, <4>3, Zenon DEF CleanupArmed, TerminatePending, GivenUp
    <3> QED
      BY <3>3, <3>4, <3>5
  <2> QED
    BY <1>12, <2>1, <2>2, Zenon DEF AfterDisconnect
<1>13. ASSUME NEW c \in Callers, KvGet(c) PROVE CleanupArmed'
  <2>1. ~stored' \/ term' = [term EXCEPT ![c] = "kvPut"]
    BY <1>13, Zenon DEF KvGet, Finish
  <2>2. term' = [term EXCEPT ![c] = "kvPut"] => TerminatePending'
    BY <1>0 DEF TerminatePending
  <2> QED
    BY <2>1, <2>2, Zenon DEF CleanupArmed, TerminatePending
<1>14. ASSUME NEW c \in Callers, KvPut(c) PROVE CleanupArmed'
  BY <1>14, Zenon DEF KvPut, Finish, CleanupArmed
<1>15. ASSUME NEW c \in Deletes, DeleteRouteRemoves(c) PROVE CleanupArmed'
  BY <1>15, StillArmed, Zenon DEF DeleteRouteRemoves, connVars, wsVars, SocketPending
<1>16. CASE Evict
  <2>1. session' # "live"
    BY <1>16 DEF Evict
  <2> QED
    BY <1>16, <2>1, StillArmed, Zenon DEF Evict, SocketPending
<1> QED
  BY <1>1, <1>2, <1>3, <1>4, <1>5, <1>6, <1>7, <1>10, <1>11, <1>12, <1>13, <1>14, <1>15,
     <1>16 DEF Next

(* As long as the object has a session record to clean up, something that    *)
(* leads to its clean-up is armed or on its way (CleanupArmed): a client     *)
(* that leaves, an alarm that fires, a terminate() that throws half-way or   *)
(* an eviction cannot lose it, however they interleave.                      *)
THEOREM CleanupNeverForgotten == Spec => []CleanupArmed
<1> DEFINE IInv == TypeOK /\ ClientsInv /\ CleanupArmed
<1>1. Init => IInv
  BY InitTypeOK DEF Init, ClientsInv, ClientsConnected, OpenMeansAttached, CleanupArmed
<1>2. IInv /\ [Next]_vars => IInv'
  BY NextTypeOK, NextClientsInv, NextCleanupArmed
<1>3. IInv => CleanupArmed
  OBVIOUS
<1> QED
  BY <1>1, <1>2, <1>3, PTL DEF Spec

-----------------------------------------------------------------------------
(* What an attached browser has received *)

(* The newest chunk extends a run of last chunks ... *)
LEMMA LastOfAppend ==
  ASSUME NEW s \in Seq(Nat), NEW n \in Nat, IsLastOf(s, n)
  PROVE  IsLastOf(Append(s, n + 1), n + 1)
<1>1. Len(Append(s, n + 1)) = Len(s) + 1
  OBVIOUS
<1>2. ASSUME NEW j \in 1..(Len(s) + 1) PROVE Append(s, n + 1)[j] = n - Len(s) + j
  <2>1. CASE j = Len(s) + 1
    BY <2>1
  <2>2. CASE j # Len(s) + 1
    BY <2>2 DEF IsLastOf
  <2> QED
    BY <2>1, <2>2
<1> QED
  BY <1>1, <1>2 DEF IsLastOf

(* ... and dropping the oldest chunks leaves one. *)
LEMMA LastOfSuffix ==
  ASSUME NEW s \in Seq(Nat), NEW n \in Nat, IsLastOf(s, n), NEW k \in 0..Len(s)
  PROVE  /\ SubSeq(s, k + 1, Len(s)) \in Seq(Nat)
         /\ Len(SubSeq(s, k + 1, Len(s))) = Len(s) - k
         /\ IsLastOf(SubSeq(s, k + 1, Len(s)), n)
<1>1. SubSeq(s, k + 1, Len(s)) \in Seq(Nat) /\ Len(SubSeq(s, k + 1, Len(s))) = Len(s) - k
  OBVIOUS
<1>2. ASSUME NEW j \in 1..(Len(s) - k)
      PROVE  SubSeq(s, k + 1, Len(s))[j] = n - (Len(s) - k) + j
  <2>1. SubSeq(s, k + 1, Len(s))[j] = s[k + j] /\ k + j \in 1..Len(s)
    BY SMTT(60)
  <2> QED
    BY <2>1 DEF IsLastOf
<1>3. Len(s) - k <= n
  BY DEF IsLastOf
<1> DEFINE t == SubSeq(s, k + 1, Len(s))
<1>4. Len(t) = Len(s) - k /\ \A j \in 1..(Len(s) - k) : t[j] = n - (Len(s) - k) + j
  BY <1>1, <1>2
<1> HIDE DEF t
<1>5. IsLastOf(t, n)
  BY <1>3, <1>4 DEF IsLastOf
<1> QED
  BY <1>1, <1>5 DEF t

(* The buffer itself is such a run: the strengthening that makes             *)
(* NoGapAfterAttach inductive.                                               *)
BufferIsLast == IsLastOf(terminalBuffer, Len(output))

ReplayInv == BufferIsLast /\ NoGapAfterAttach

(* What a step can do to the output and to what the clients have of it. *)
ReplayStep ==
  \/ onData
  \/ \E w \in Sockets : handleWebSocket(w)
  \/ /\ UNCHANGED <<output, recv>>
     /\ terminalBuffer' = terminalBuffer \/ terminalBuffer' = <<>>
     /\ clients' \subseteq clients
     /\ \A w \in Sockets : ws'[w] = "open" => ws[w] = "open"

(* Every action is one of those steps. *)
LEMMA NextIsReplayStep == TypeOK /\ [Next]_vars => ReplayStep
<1> SUFFICES ASSUME TypeOK, [Next]_vars PROVE ReplayStep
  OBVIOUS
<1>0. ws \in [Sockets -> {"new", "open", "closing", "gone"}]
  BY DEF TypeOK, TypeClients
<1>1. CASE \/ ConnectRefused \/ ConnectStart \/ ConnectSucceeds \/ ConnectFails
           \/ ApiRecordsSession \/ PumpRead \/ TaskHandshake \/ TaskEnds \/ InputSent
           \/ UNCHANGED vars
  <2>1. UNCHANGED <<output, recv, terminalBuffer, clients, ws>>
    BY <1>1, Zenon DEF ConnectRefused, ConnectStart, ConnectSucceeds, ConnectFails, vars,
      ApiRecordsSession, PumpRead, TaskHandshake, TaskEnds, InputSent, wsVars, bufVars
  <2> QED
    BY <2>1 DEF ReplayStep
<1>2. CASE onData
  BY <1>2 DEF ReplayStep
<1>3. ASSUME CloseClients
      PROVE  /\ UNCHANGED recv /\ clients' \subseteq clients
             /\ \A w \in Sockets : ws'[w] = "open" => ws[w] = "open"
  BY <1>0, <1>3 DEF CloseClients
<1>4. CASE PumpEnds
  BY <1>3, <1>4 DEF PumpEnds, cleanup, ReplayStep
<1>5. ASSUME NEW w \in Sockets,
             handleWebSocket(w) \/ webSocketMessage(w) \/ BrowserCloses(w) \/ webSocketClose(w)
      PROVE  ReplayStep
  <2>1. CASE handleWebSocket(w)
    BY <2>1 DEF ReplayStep
  <2>2. CASE webSocketMessage(w)
    BY <2>2 DEF ReplayStep, webSocketMessage, wsVars, bufVars
  <2>3. CASE BrowserCloses(w)
    BY <1>0, <2>3 DEF ReplayStep, BrowserCloses, bufVars
  <2>4. CASE webSocketClose(w)
    BY <1>0, <2>4 DEF ReplayStep, webSocketClose, bufVars
  <2> QED
    BY <1>5, <2>1, <2>2, <2>3, <2>4
<1>6. ASSUME NEW c \in Callers, TearDown(c) PROVE ReplayStep
  <2>1. /\ CloseClients /\ UNCHANGED output
        /\ terminalBuffer' = terminalBuffer \/ terminalBuffer' = <<>>
    BY <1>6, Zenon DEF TearDown, bufVars
  <2> QED
    BY <1>3, <2>1 DEF ReplayStep
<1>7. ASSUME UNCHANGED <<bufVars, wsVars>> PROVE ReplayStep
  BY <1>7 DEF ReplayStep, bufVars, wsVars
<1>8. ASSUME NEW c \in Callers, terminate(c) PROVE ReplayStep
  <2>1. CASE session = "null"
    BY <1>6, <1>8, <2>1 DEF terminate
  <2>2. CASE session # "null"
    BY <1>7, <1>8, <2>2 DEF terminate
  <2> QED
    BY <2>1, <2>2
<1>9. ASSUME NEW c \in Deletes, DeleteRequest(c) \/ DeleteRouteRemoves(c) PROVE ReplayStep
  BY <1>7, <1>8, <1>9, Zenon DEF DeleteRequest, DeleteRouteRemoves, Callers
<1>10. CASE AlarmFires
  BY <1>7, <1>8, <1>10, Zenon DEF AlarmFires, Callers
<1>11. ASSUME NEW c \in Callers, AfterDisconnect(c) PROVE ReplayStep
  BY <1>6, <1>7, <1>11, Zenon DEF AfterDisconnect, FreeThrows
<1>12. ASSUME NEW c \in Callers, KvGet(c) \/ KvPut(c) PROVE ReplayStep
  <2>1. CASE UNCHANGED <<bufVars, wsVars>>
    BY <1>7, <2>1
  <2>2. CASE Finish(c)
    BY <2>2 DEF Finish, ReplayStep, wsVars
  <2> QED
    BY <1>12, <2>1, <2>2, Zenon DEF KvGet, KvPut
<1>13. CASE Evict
  BY <1>13 DEF Evict, ReplayStep
<1> QED
  BY <1>1, <1>2, <1>4, <1>5, <1>9, <1>10, <1>11, <1>12, <1>13 DEF Next

(* Each of those steps keeps what an attached browser has one gapless run. *)
LEMMA NextReplayInv == TypeOK /\ ReplayInv /\ [Next]_vars => ReplayInv'
<1> SUFFICES ASSUME TypeOK, ReplayInv, [Next]_vars PROVE ReplayInv'
  OBVIOUS
<1>0. /\ terminalBuffer \in Seq(Nat) /\ output \in Seq(Nat) /\ inbox \in Seq(Nat)
      /\ recv \in [Sockets -> Seq(Nat)] /\ clients \subseteq Sockets
      /\ ws \in [Sockets -> {"new", "open", "closing", "gone"}]
      /\ Len(output) \in Nat
  BY DEF TypeOK, TypeOutput, TypeClients
<1>1. CASE onData
  <2>1. PICK k \in 0..Len(terminalBuffer) :
          /\ output' = Append(output, Head(inbox))
          /\ terminalBuffer' = Append(SubSeq(terminalBuffer, k + 1, Len(terminalBuffer)),
                                      Len(output) + 1)
    BY <1>1, Zenon DEF onData, bufferOutput
  <2>2. Head(inbox) \in Nat
    BY <1>0, <1>1 DEF onData
  <2>3. Len(output') = Len(output) + 1
    BY <1>0, <2>1, <2>2
  <2> DEFINE kept == SubSeq(terminalBuffer, k + 1, Len(terminalBuffer))
  <2>4. kept \in Seq(Nat) /\ Len(kept) = Len(terminalBuffer) - k
        /\ IsLastOf(kept, Len(output))
    BY <1>0, LastOfSuffix DEF ReplayInv, BufferIsLast
  <2>5. terminalBuffer' = Append(kept, Len(output) + 1)
    BY <2>1
  <2> HIDE DEF kept
  <2>6. BufferIsLast'
    BY <1>0, <2>3, <2>4, <2>5, LastOfAppend DEF BufferIsLast
  <2>7. Len(terminalBuffer') <= Len(terminalBuffer) + 1
    BY <1>0, <2>4, <2>5
  <2>8. ASSUME NEW w \in Sockets, w \in clients', ws'[w] = "open"
        PROVE  IsLastOf(recv'[w], Len(output')) /\ Len(terminalBuffer') <= Len(recv'[w])
    <3>1. w \in clients /\ ws[w] = "open" /\ recv'[w] = Append(recv[w], Len(output) + 1)
      BY <1>0, <1>1, <2>8 DEF onData
    <3>2. /\ recv[w] \in Seq(Nat) /\ IsLastOf(recv[w], Len(output))
          /\ Len(terminalBuffer) <= Len(recv[w])
      BY <1>0, <3>1 DEF ReplayInv, NoGapAfterAttach
    <3>3. IsLastOf(recv'[w], Len(output'))
      BY <1>0, <2>3, <3>1, <3>2, LastOfAppend
    <3>4. Len(recv'[w]) = Len(recv[w]) + 1
      BY <1>0, <3>1, <3>2
    <3> QED
      BY <1>0, <2>4, <2>5, <2>7, <3>2, <3>3, <3>4
  <2> QED
    BY <2>6, <2>8 DEF ReplayInv, NoGapAfterAttach
<1>2. ASSUME NEW w \in Sockets, handleWebSocket(w) PROVE ReplayInv'
  <2>1. UNCHANGED <<output, terminalBuffer>>
    BY <1>2 DEF handleWebSocket, bufVars
  <2>2. ASSUME NEW v \in Sockets, v \in clients', ws'[v] = "open"
        PROVE  IsLastOf(recv'[v], Len(output)) /\ Len(terminalBuffer) <= Len(recv'[v])
    <3>1. CASE v = w
      BY <1>0, <1>2, <3>1 DEF handleWebSocket, ReplayInv, BufferIsLast
    <3>2. CASE v # w
      BY <1>0, <1>2, <2>2, <3>2 DEF handleWebSocket, ReplayInv, NoGapAfterAttach
    <3> QED
      BY <3>1, <3>2
  <2> QED
    BY <2>1, <2>2 DEF ReplayInv, BufferIsLast, NoGapAfterAttach
<1>3. ASSUME /\ UNCHANGED <<output, recv>>
             /\ terminalBuffer' = terminalBuffer \/ terminalBuffer' = <<>>
             /\ clients' \subseteq clients
             /\ \A w \in Sockets : ws'[w] = "open" => ws[w] = "open"
      PROVE  ReplayInv'
  <2>1. Len(terminalBuffer') <= Len(terminalBuffer) /\ BufferIsLast'
    <3>1. CASE UNCHANGED <<output, terminalBuffer>>
      BY <1>0, <3>1 DEF ReplayInv, BufferIsLast
    <3>2. CASE UNCHANGED output /\ terminalBuffer' = <<>>
      BY <1>0, <3>2 DEF BufferIsLast, IsLastOf
    <3> QED
      BY <1>3, <3>1, <3>2
  <2>2. terminalBuffer' \in Seq(Nat)
    <3>1. <<>> \in Seq(Nat)
      OBVIOUS
    <3> QED
      BY <1>0, <1>3, <3>1, Zenon
  <2>3. ASSUME NEW w \in Sockets, w \in clients', ws'[w] = "open"
        PROVE  IsLastOf(recv'[w], Len(output')) /\ Len(terminalBuffer') <= Len(recv'[w])
    BY <1>0, <1>3, <2>1, <2>2, <2>3 DEF ReplayInv, NoGapAfterAttach
  <2> QED
    BY <2>1, <2>3 DEF ReplayInv, NoGapAfterAttach
<1> QED
  BY NextIsReplayStep, <1>1, <1>2, <1>3 DEF ReplayStep

(* A browser that attaches at any moment gets the buffered and then the live *)
(* output as one run without a gap, a repetition or a reordering.            *)
THEOREM ReplayGapless == Spec => []NoGapAfterAttach
<1>1. Init => TypeOK /\ ReplayInv
  BY InitTypeOK DEF Init, ReplayInv, BufferIsLast, NoGapAfterAttach, IsLastOf
<1>2. (TypeOK /\ ReplayInv) /\ [Next]_vars => (TypeOK /\ ReplayInv)'
  BY NextTypeOK, NextReplayInv
<1>3. ReplayInv => NoGapAfterAttach
  BY DEF ReplayInv
<1> QED
  BY <1>1, <1>2, <1>3, PTL DEF Spec

-----------------------------------------------------------------------------
(* The byte account of the buffer *)

(* Induction over the natural numbers, for a set: the order on them is       *)
(* well-founded, a set of them has a least element, and a set that has 0 and *)
(* with every number its successor has them all.                             *)
Less == {ss \in Nat \X Nat : ss[1] < ss[2]}

LEMMA LessWF == IsWellFoundedOn(Less, Nat)
BY NatLessThanWellFounded, Zenon DEF OpToRel, Less

LEMMA LeastNumber ==
  ASSUME NEW T \in SUBSET Nat, T # {}
  PROVE  \E x \in T : \A y \in T : x <= y
<1>1. \E x \in T : \A y \in T : ~ (<<y, x>> \in Less)
  BY LessWF, WFMin
<1>2. PICK x \in T : \A y \in T : ~ (<<y, x>> \in Less)
  BY <1>1
<1>3. \A y \in T : ~(y < x)
  BY <1>2 DEF Less
<1> QED
  BY <1>3

LEMMA SetInduction ==
  ASSUME NEW S, 0 \in S, \A n \in Nat : n \in S => n + 1 \in S
  PROVE  Nat \subseteq S
<1> SUFFICES ASSUME Nat \ S # {} PROVE FALSE
  OBVIOUS
<1>1. PICK x \in Nat \ S : \A y \in Nat \ S : x <= y
  BY LeastNumber
<1>2. x # 0
  OBVIOUS
<1>3. x - 1 \in Nat
  BY <1>2
<1>4. x - 1 \in S
  BY <1>1, <1>3
<1>5. (x - 1) + 1 \in S
  BY <1>3, <1>4
<1> QED
  BY <1>5
(* h[i] is f[1] + ... + f[i], for every i up to n. *)
IsSum(h, f, n) ==
  /\ h \in [0..n -> Int] /\ h[0] = 0
  /\ \A i \in 1..n : h[i] = h[i - 1] + f[i]

(* Integers have running sums, ... *)
LEMMA SumExists ==
  ASSUME NEW f, NEW m \in Nat, \A i \in 1..m : f[i] \in Int
  PROVE  \E h : IsSum(h, f, m)
<1> DEFINE S == {n \in Nat : n <= m => \E h : IsSum(h, f, n)}
<1>1. 0 \in S
  <2>1. IsSum([i \in 0..0 |-> 0], f, 0)
    BY DEF IsSum
  <2> QED
    BY <2>1
<1>2. ASSUME NEW n \in Nat, n \in S PROVE n + 1 \in S
  <2>1. SUFFICES ASSUME n + 1 <= m PROVE \E h : IsSum(h, f, n + 1)
    OBVIOUS
  <2>2. PICK h : IsSum(h, f, n)
    BY <1>2, <2>1
  <2>3. f[n + 1] \in Int
    BY <2>1
  <2> DEFINE g == [i \in 0..(n + 1) |-> IF i = n + 1 THEN h[n] + f[n + 1] ELSE h[i]]
  <2>4. g \in [0..(n + 1) -> Int] /\ g[0] = 0
    BY <2>2, <2>3 DEF IsSum
  <2>5. ASSUME NEW i \in 1..(n + 1) PROVE g[i] = g[i - 1] + f[i]
    <3>1. CASE i = n + 1
      <4>1. g[n + 1] = h[n] + f[n + 1] /\ g[n] = h[n]
        OBVIOUS
      <4> QED
        BY <3>1, <4>1
    <3>2. CASE i # n + 1
      <4>1. i \in 1..n /\ g[i] = h[i] /\ g[i - 1] = h[i - 1]
        BY <3>2
      <4> QED
        BY <2>2, <4>1 DEF IsSum
    <3> QED
      BY <3>1, <3>2
  <2> HIDE DEF g
  <2> QED
    BY <2>4, <2>5 DEF IsSum
<1> HIDE DEF S
<1>3. m \in S
  BY <1>1, <1>2, SetInduction
<1> QED
  BY <1>3 DEF S

(* ... and it is the one SumTo computes. *)
LEMMA SumIs ==
  ASSUME NEW f, NEW m \in Nat, \A i \in 1..m : f[i] \in Int, NEW h, IsSum(h, f, m)
  PROVE  SumTo(f, m) = h[m]
<1> DEFINE Def(g) == [i \in 0..m |-> IF i = 0 THEN 0 ELSE g[i - 1] + f[i]]
           sum == CHOOSE g : g = Def(g)
<1>1. h = Def(h)
  BY DEF IsSum
<1>2. sum = Def(sum)
  <2> HIDE DEF Def
  <2> QED
    BY <1>1
<1>3. SumTo(f, m) = sum[m]
  BY DEF SumTo
<1> HIDE DEF sum
<1>4. sum[0] = 0 /\ \A i \in 1..m : sum[i] = sum[i - 1] + f[i]
  BY <1>2
<1> DEFINE S == {n \in Nat : n <= m => sum[n] = h[n]}
<1>5. 0 \in S
  BY <1>4 DEF IsSum
<1>6. ASSUME NEW n \in Nat, n \in S PROVE n + 1 \in S
  <2>1. SUFFICES ASSUME n + 1 <= m PROVE sum[n + 1] = h[n + 1]
    OBVIOUS
  <2>2. sum[n] = h[n] /\ n + 1 \in 1..m /\ (n + 1) - 1 = n
    BY <1>6, <2>1
  <2> QED
    BY <1>4, <2>2 DEF IsSum
<1> HIDE DEF S
<1>7. m \in S
  BY <1>5, <1>6, SetInduction
<1> QED
  BY <1>3, <1>7 DEF S

(* A sum of k + m terms is that of the first k and that of the other m. *)
LEMMA SumSplit ==
  ASSUME NEW k \in Nat, NEW m \in Nat, NEW f, NEW g,
         \A i \in 1..(k + m) : f[i] \in Int,
         \A i \in 1..m : g[i] = f[k + i]
  PROVE  /\ SumTo(f, k) \in Int /\ SumTo(g, m) \in Int
         /\ SumTo(f, k + m) = SumTo(f, k) + SumTo(g, m)
<1>0. k + m \in Nat /\ 1..k \subseteq 1..(k + m)
  OBVIOUS
<1>1. PICK h : IsSum(h, f, k + m)
  BY <1>0, SumExists
<1>2. SumTo(f, k + m) = h[k + m] /\ h[k] \in Int /\ h[k + m] \in Int
  <2>1. SumTo(f, k + m) = h[k + m]
    BY <1>0, <1>1, SumIs
  <2> QED
    BY <1>0, <1>1, <2>1 DEF IsSum
<1> DEFINE a == [i \in 0..k |-> h[i]]
           b == [i \in 0..m |-> h[k + i] - h[k]]
<1>3. IsSum(a, f, k) /\ a[k] = h[k]
  <2>1. a \in [0..k -> Int] /\ a[0] = 0 /\ a[k] = h[k]
    BY <1>1 DEF IsSum
  <2>2. ASSUME NEW i \in 1..k PROVE a[i] = a[i - 1] + f[i]
    <3>1. a[i] = h[i] /\ a[i - 1] = h[i - 1] /\ i \in 1..(k + m)
      OBVIOUS
    <3> QED
      BY <1>1, <3>1 DEF IsSum
  <2> HIDE DEF a
  <2> QED
    BY <2>1, <2>2 DEF IsSum
<1>4. IsSum(b, g, m) /\ b[m] = h[k + m] - h[k]
  <2>1. \A i \in 0..m : h[k + i] \in Int
    BY <1>1 DEF IsSum
  <2>2. b \in [0..m -> Int] /\ b[0] = 0 /\ b[m] = h[k + m] - h[k]
    <3>0. m \in 0..m /\ \A i \in 0..m : h[k + i] - h[k] \in Int
      <4>1. h[k] \in Int
        BY <1>2
      <4> QED
        BY <2>1, <4>1
    <3>1. b \in [0..m -> Int] /\ b[m] = h[k + m] - h[k]
      BY <3>0
    <3>2. b[0] = h[k + 0] - h[k] /\ k + 0 = k
      OBVIOUS
    <3> HIDE DEF b
    <3>3. b[0] = h[k] - h[k]
      BY <3>2
    <3> QED
      BY <1>2, <3>1, <3>3
  <2>3. ASSUME NEW i \in 1..m PROVE b[i] = b[i - 1] + g[i]
    <3>1. /\ b[i] = h[k + i] - h[k] /\ b[i - 1] = h[k + (i - 1)] - h[k]
          /\ k + i \in 1..(k + m) /\ k + (i - 1) = (k + i) - 1
      OBVIOUS
    <3>2. h[k + i] = h[(k + i) - 1] + f[k + i]
      BY <1>1, <3>1 DEF IsSum
    <3>3. h[k + i] \in Int /\ h[(k + i) - 1] \in Int /\ g[i] = f[k + i] /\ f[k + i] \in Int
      BY <1>1, <3>1 DEF IsSum
    <3>4. b[i - 1] = h[(k + i) - 1] - h[k]
      BY <3>1
    <3> HIDE DEF b
    <3> QED
      BY <1>2, <3>1, <3>2, <3>3, <3>4
  <2> HIDE DEF b
  <2> QED
    BY <2>2, <2>3 DEF IsSum
<1> HIDE DEF a, b
<1>5. SumTo(f, k) = h[k]
  BY <1>0, <1>3, SumIs
<1>6. \A i \in 1..m : g[i] \in Int
  <2>1. \A i \in 1..m : k + i \in 1..(k + m)
    OBVIOUS
  <2> QED
    BY <2>1
<1>7. SumTo(g, m) = h[k + m] - h[k]
  BY <1>4, <1>6, SumIs
<1> QED
  BY <1>2, <1>5, <1>7

(* The empty sum, one more term, and sums of equal terms. *)
LEMMA SumEmpty == ASSUME NEW f PROVE SumTo(f, 0) = 0
<1>1. IsSum([i \in 0..0 |-> 0], f, 0)
  BY DEF IsSum
<1> QED
  BY <1>1, SumIs

LEMMA SumNext ==
  ASSUME NEW f, NEW n \in Nat, \A i \in 1..(n + 1) : f[i] \in Int
  PROVE  SumTo(f, n + 1) = SumTo(f, n) + f[n + 1]
<1>0. n + 1 \in Nat /\ 1..n \subseteq 1..(n + 1) /\ n + 1 \in 1..(n + 1)
  OBVIOUS
<1>1. PICK h : IsSum(h, f, n + 1)
  BY <1>0, SumExists
<1> DEFINE a == [i \in 0..n |-> h[i]]
<1>2. a \in [0..n -> Int] /\ a[0] = 0 /\ a[n] = h[n]
  BY <1>1 DEF IsSum
<1>3. ASSUME NEW i \in 1..n PROVE a[i] = a[i - 1] + f[i]
  <2>1. a[i] = h[i] /\ a[i - 1] = h[i - 1] /\ i \in 1..(n + 1)
    OBVIOUS
  <2> QED
    BY <1>1, <2>1 DEF IsSum
<1> HIDE DEF a
<1>4. IsSum(a, f, n)
  BY <1>2, <1>3 DEF IsSum
<1>5. SumTo(f, n) = h[n]
  BY <1>0, <1>2, <1>4, SumIs
<1>6. SumTo(f, n + 1) = h[n + 1]
  BY <1>0, <1>1, SumIs
<1>7. h[n + 1] = h[(n + 1) - 1] + f[n + 1] /\ (n + 1) - 1 = n
  BY <1>0, <1>1 DEF IsSum
<1> QED
  BY <1>5, <1>6, <1>7

LEMMA SumSame ==
  ASSUME NEW f, NEW g, NEW n \in Nat,
         \A i \in 1..n : f[i] \in Int, \A i \in 1..n : g[i] = f[i]
  PROVE  SumTo(g, n) = SumTo(f, n)
<1>1. PICK h : IsSum(h, f, n)
  BY SumExists
<1>2. IsSum(h, g, n)
  BY <1>1 DEF IsSum
<1>3. SumTo(f, n) = h[n]
  BY <1>1, SumIs
<1>4. SumTo(g, n) = h[n]
  BY <1>2, SumIs
<1> QED
  BY <1>3, <1>4

(* The positions that are left when the oldest k chunks are dropped and a    *)
(* new position is pushed.                                                   *)
LEMMA Pushed ==
  ASSUME NEW s \in Seq(Nat), NEW k \in 0..Len(s), NEW x \in Nat
  PROVE  /\ SubSeq(s, 1, k) \in Seq(Nat) /\ Len(SubSeq(s, 1, k)) = k
         /\ \A i \in 1..k : SubSeq(s, 1, k)[i] = s[i]
         /\ Append(SubSeq(s, k + 1, Len(s)), x) \in Seq(Nat)
         /\ Len(Append(SubSeq(s, k + 1, Len(s)), x)) = Len(s) - k + 1
         /\ \A i \in 1..(Len(s) - k) : Append(SubSeq(s, k + 1, Len(s)), x)[i] = s[k + i]
         /\ Append(SubSeq(s, k + 1, Len(s)), x)[Len(s) - k + 1] = x
<1>1. SubSeq(s, 1, k) \in Seq(Nat)
  OBVIOUS
<1>2. Len(SubSeq(s, 1, k)) = k
  OBVIOUS
<1>3. \A i \in 1..k : SubSeq(s, 1, k)[i] = s[i]
  OBVIOUS
<1> DEFINE u == SubSeq(s, k + 1, Len(s))
<1>4. /\ u \in Seq(Nat) /\ Len(u) = Len(s) - k
      /\ \A i \in 1..(Len(s) - k) : u[i] = s[k + i]
  OBVIOUS
<1> HIDE DEF u
<1>5. Append(u, x) \in Seq(Nat) /\ Len(Append(u, x)) = Len(u) + 1
  BY <1>4
<1>6. \A i \in 1..Len(u) : Append(u, x)[i] = u[i]
  BY <1>4
<1>7. Append(u, x)[Len(u) + 1] = x
  BY <1>4
<1>8. /\ Append(u, x) \in Seq(Nat) /\ Len(Append(u, x)) = Len(s) - k + 1
      /\ \A i \in 1..(Len(s) - k) : Append(u, x)[i] = s[k + i]
      /\ Append(u, x)[Len(s) - k + 1] = x
  BY <1>4, <1>5, <1>6, <1>7
<1> QED
  BY <1>1, <1>2, <1>3, <1>8 DEF u

(* Without dropped chunks that are still counted, or counted twice: what the *)
(* code adds and subtracts chunk by chunk is what is in the buffer.          *)
LEMMA NextAccount ==
  TypeOK /\ BufferIsLast /\ BufferAccount /\ [Next]_vars => BufferAccount'
<1> SUFFICES ASSUME TypeOK, BufferIsLast, BufferAccount, [Next]_vars PROVE BufferAccount'
  OBVIOUS
<1>0. /\ terminalBuffer \in Seq(Nat) /\ output \in Seq(Nat) /\ inbox \in Seq(Nat)
      /\ MaxBuffer \in Nat \ {0}
  BY DOAssumption DEF TypeOK, TypeOutput
<1>1. CASE onData
  <2> DEFINE n == Head(inbox)
             Left(k) == (bufferSize + n) - Bytes(SubSeq(terminalBuffer, 1, k))
             kept(k) == SubSeq(terminalBuffer, k + 1, Len(terminalBuffer))
  <2>1. PICK k \in 0..Len(terminalBuffer) :
          /\ Left(k) <= MaxBuffer \/ k = Len(terminalBuffer)
          /\ output' = Append(output, n)
          /\ terminalBuffer' = Append(kept(k), Len(output) + 1)
          /\ bufferSize' = Left(k)
    <3>1. bufferOutput(n)
      BY <1>1 DEF onData
    <3> HIDE DEF n
    <3>2. \E k \in 0..Len(terminalBuffer) :
            /\ Left(k) <= MaxBuffer \/ k = Len(terminalBuffer)
            /\ \A j \in 0..(k - 1) : ~(Left(j) <= MaxBuffer \/ j = Len(terminalBuffer))
            /\ output' = Append(output, n)
            /\ terminalBuffer' = Append(kept(k), Len(output) + 1)
            /\ bufferSize' = Left(k)
      BY <3>1 DEF bufferOutput
    <3> QED
      BY <3>2, Zenon
  <2>2. n \in Nat
    BY <1>0, <1>1 DEF onData
  <2> HIDE DEF n
  <2> DEFINE m == Len(terminalBuffer) - k
             old == SubSeq(terminalBuffer, 1, k)
             l == Len(output)
  <2>3. k \in Nat /\ m \in Nat /\ l \in Nat /\ k + m = Len(terminalBuffer) /\ m + 1 \in Nat
        /\ l + 1 \in Nat
    BY <1>0, <2>1, SMTT(60)
  <2>4. /\ Bytes(terminalBuffer) \in Int /\ Bytes(old) \in Int
        /\ Bytes(terminalBuffer)' = Bytes(terminalBuffer) - Bytes(old) + n
    <3>1. old \in Seq(Nat) /\ Len(old) = k /\ \A i \in 1..k : old[i] = terminalBuffer[i]
      BY <1>0, <2>1, <2>3, Pushed, ZenonT(60)
    <3> DEFINE t == Append(kept(k), l + 1)
    <3>2. t \in Seq(Nat) /\ Len(t) = m + 1
      BY <1>0, <2>3, Pushed
    <3>3. (\A i \in 1..m : t[i] = terminalBuffer[k + i]) /\ t[m + 1] = l + 1
      BY <1>0, <2>3, Pushed
    <3>4. terminalBuffer' = t
      BY <2>1
    <3>5. \A i \in 1..Len(terminalBuffer) : terminalBuffer[i] \in 1..l
      BY <1>0, SMTT(60) DEF BufferIsLast, IsLastOf
    <3>6. (\A i \in 1..l : output'[i] = output[i] /\ output[i] \in Nat) /\ output'[l + 1] = n
      <4>1. \A i \in 1..l : Append(output, n)[i] = output[i] /\ output[i] \in Nat
        BY <1>0, <2>2
      <4>2. Append(output, n)[l + 1] = n
        BY <1>0, <2>2
      <4> QED
        BY <2>1, <4>1, <4>2
    <3> HIDE DEF t, m, old, l
    <3>7. /\ DOMAIN terminalBuffer = 1..(k + m) /\ DOMAIN old = 1..k
          /\ DOMAIN terminalBuffer' = 1..(m + 1)
      BY <1>0, <2>3, <3>1, <3>2, <3>4
    <3> DEFINE f == [i \in DOMAIN terminalBuffer |-> output[terminalBuffer[i]]]
               g == [i \in DOMAIN old |-> output[old[i]]]
               h == [i \in DOMAIN terminalBuffer' |-> output'[terminalBuffer'[i]]]
    <3>8. Bytes(terminalBuffer) = SumTo(f, k + m) /\ Bytes(old) = SumTo(g, k)
      BY <2>3, <3>1 DEF Bytes
    <3>9. Bytes(terminalBuffer)' = SumTo(h, m + 1)
      BY <3>2, <3>4 DEF Bytes
    <3>10. /\ 1..k \subseteq 1..(k + m) /\ m + 1 \in 1..(m + 1)
           /\ \A i \in 1..m : k + i \in 1..(k + m) /\ i \in 1..(m + 1)
      BY <2>3
    <3>11. \A i \in 1..(k + m) : f[i] = output[terminalBuffer[i]] /\ f[i] \in Int
      <4>1. \A i \in 1..(k + m) : terminalBuffer[i] \in 1..l
        BY <2>3, <3>5
      <4> QED
        BY <3>6, <3>7, <4>1
    <3>12. \A i \in 1..k : g[i] = f[i]
      BY <3>1, <3>7, <3>10
    <3>13. \A i \in 1..m : h[i] = f[k + i]
      <4>1. ASSUME NEW i \in 1..m PROVE h[i] = f[k + i]
        <5>1. h[i] = output'[terminalBuffer[k + i]]
          BY <3>3, <3>4, <3>7, <3>10
        <5>2. terminalBuffer[k + i] \in 1..l
          BY <2>3, <3>5, <3>10
        <5> QED
          BY <3>6, <3>10, <3>11, <5>1, <5>2
      <4> QED
        BY <4>1
    <3>14. h[m + 1] = n
      BY <3>3, <3>4, <3>6, <3>7, <3>10
    <3>15. n \in Int
      BY <2>2
    <3> HIDE DEF f, g, h
    <3>16. \A i \in 1..(k + m) : f[i] \in Int
      BY <3>11
    <3>17. /\ SumTo(f, k) \in Int /\ SumTo(h, m) \in Int
           /\ SumTo(f, k + m) = SumTo(f, k) + SumTo(h, m)
      <4>1. k \in Nat /\ m \in Nat
        BY <2>3
      <4> QED
        BY <3>13, <3>16, <4>1, SumSplit, SMTT(30)
    <3>18. SumTo(g, k) = SumTo(f, k)
      <4>1. \A i \in 1..k : f[i] \in Int
        BY <3>10, <3>16
      <4> QED
        BY <2>3, <3>12, <4>1, SumSame
    <3>19. SumTo(h, m + 1) = SumTo(h, m) + h[m + 1]
      <4>1. ASSUME NEW i \in 1..(m + 1) PROVE h[i] \in Int
        <5>1. CASE i = m + 1
          BY <3>14, <3>15, <5>1
        <5>2. CASE i # m + 1
          <6>1. i \in 1..m
            BY <2>3, <5>2
          <6> QED
            BY <3>10, <3>13, <3>16, <6>1
        <5> QED
          BY <5>1, <5>2
      <4> QED
        BY <2>3, <4>1, SumNext
    <3> QED
      BY <3>8, <3>9, <3>14, <3>15, <3>17, <3>18, <3>19
  <2>5. bufferSize = Bytes(terminalBuffer)
    BY DEF BufferAccount
  <2>6. bufferSize' = Bytes(terminalBuffer)'
    BY <2>1, <2>2, <2>4, <2>5
  <2>7. bufferSize' <= MaxBuffer \/ Len(terminalBuffer') = 1
    <3>1. CASE Left(k) <= MaxBuffer
      BY <2>1, <3>1
    <3>2. CASE k = Len(terminalBuffer)
      <4>1. kept(k) \in Seq(Nat) /\ Len(kept(k)) = 0 /\ Len(output) + 1 \in Nat
        BY <1>0, <3>2
      <4> HIDE DEF kept
      <4>2. Len(Append(kept(k), Len(output) + 1)) = 1
        BY <4>1
      <4> QED
        BY <2>1, <4>2
    <3> QED
      BY <2>1, <3>1, <3>2
  <2> QED
    BY <2>6, <2>7 DEF BufferAccount
<1>2. ASSUME UNCHANGED bufVars PROVE BufferAccount'
  BY <1>2 DEF BufferAccount, Bytes, bufVars
<1>3. ASSUME terminalBuffer' = <<>>, bufferSize' = 0 PROVE BufferAccount'
  <2>1. Len(<<>>) = 0 /\ Len(terminalBuffer') = 0
    BY <1>3
  <2>2. Bytes(terminalBuffer)' = 0
    BY <2>1, SumEmpty DEF Bytes
  <2> QED
    BY <1>0, <1>3, <2>2 DEF BufferAccount
<1>4. CASE \/ ConnectRefused \/ ConnectStart \/ ConnectSucceeds \/ ConnectFails
           \/ ApiRecordsSession \/ PumpRead \/ TaskHandshake \/ TaskEnds \/ InputSent
           \/ UNCHANGED vars
  <2>1. UNCHANGED bufVars
    BY <1>4, Zenon DEF ConnectRefused, ConnectStart, ConnectSucceeds, ConnectFails, vars,
      ApiRecordsSession, PumpRead, TaskHandshake, TaskEnds, InputSent, bufVars
  <2> QED
    BY <1>2, <2>1
<1>5. CASE PumpEnds \/ Evict
  BY <1>3, <1>5, Zenon DEF PumpEnds, cleanup, Evict
<1>6. ASSUME NEW w \in Sockets,
             handleWebSocket(w) \/ webSocketMessage(w) \/ BrowserCloses(w) \/ webSocketClose(w)
      PROVE  BufferAccount'
  BY <1>2, <1>6, Zenon DEF handleWebSocket, webSocketMessage, BrowserCloses, webSocketClose
<1>7. ASSUME NEW c \in Callers, TearDown(c) PROVE BufferAccount'
  BY <1>2, <1>3, <1>7, Zenon DEF TearDown
<1>8. ASSUME NEW c \in Callers, terminate(c) PROVE BufferAccount'
  BY <1>2, <1>7, <1>8, Zenon DEF terminate
<1>9. ASSUME NEW c \in Deletes, DeleteRequest(c) \/ DeleteRouteRemoves(c) PROVE BufferAccount'
  BY <1>2, <1>8, <1>9, Zenon DEF DeleteRequest, DeleteRouteRemoves, Callers
<1>10. CASE AlarmFires
  BY <1>2, <1>8, <1>10, Zenon DEF AlarmFires, Callers
<1>11. ASSUME NEW c \in Callers, AfterDisconnect(c) PROVE BufferAccount'
  BY <1>2, <1>7, <1>11, Zenon DEF AfterDisconnect, FreeThrows
<1>12. ASSUME NEW c \in Callers, KvGet(c) \/ KvPut(c) PROVE BufferAccount'
  BY <1>2, <1>3, <1>12, Zenon DEF KvGet, KvPut, Finish
<1> QED
  BY <1>1, <1>4, <1>5, <1>6, <1>9, <1>10, <1>11, <1>12 DEF Next

(* The byte account of the terminal buffer is exact, and over the budget     *)
(* only for a single chunk, whatever the lengths of the chunks are and       *)
(* however output, overflow, the end of the session and evictions mix.       *)
THEOREM AccountExact == Spec => []BufferAccount
<1>1. Init => TypeOK /\ ReplayInv /\ BufferAccount
  <2>1. ASSUME Init PROVE BufferAccount
    <3>1. Len(terminalBuffer) = 0 /\ bufferSize = 0 /\ MaxBuffer \in Nat
      BY <2>1, DOAssumption DEF Init
    <3>2. Bytes(terminalBuffer) = 0
      BY <3>1, SumEmpty DEF Bytes
    <3> QED
      BY <3>1, <3>2 DEF BufferAccount
  <2>2. Init => TypeOK /\ ReplayInv
    BY InitTypeOK DEF Init, ReplayInv, BufferIsLast, NoGapAfterAttach, IsLastOf
  <2> QED
    BY <2>1, <2>2
<1>2. (TypeOK /\ ReplayInv /\ BufferAccount) /\ [Next]_vars
        => (TypeOK /\ ReplayInv /\ BufferAccount)'
  BY NextTypeOK, NextReplayInv, NextAccount DEF ReplayInv
<1> QED
  BY <1>1, <1>2, PTL DEF Spec

-----------------------------------------------------------------------------
(* The KV record does not outlive the object's own meta *)

(* Until the session is recorded nobody can have asked to end it, and only   *)
(* the alarm can have removed its meta.                                      *)
UnlistedIsFresh ==
  /\ listed = "unlisted" => \A c \in Deletes : term[c] = "idle"
  /\ listed = "unlisted" /\ connect = "ok" /\ term[Alarm] = "idle" => stored

RecordInv == UnlistedIsFresh /\ NoOrphanRecord

SomeDeleteDone == \E c \in Deletes : term[c] = "done"

(* A step that leaves the record, the meta and the terminate() calls alone.  *)
LEMMA RecordUntouched ==
  ASSUME RecordInv, UNCHANGED <<connect, listed, stored, term>>
  PROVE  RecordInv'
  BY Zenon DEF RecordInv, UnlistedIsFresh, NoOrphanRecord

(* Every action keeps RecordInv, when no KV call is rejected. *)
LEMMA NextRecordInv ==
  ASSUME ~KvMayFail, TypeOK, RecordInv, [Next]_vars
  PROVE  RecordInv'
<1> USE DOAssumption
<1>0. /\ term \in [Callers -> {"idle", "disconnect", "kvGet", "kvPut", "done", "threw"}]
      /\ listed \in {"unlisted", "listed", "removed"}
      /\ Alarm \in Callers /\ Deletes \subseteq Callers
  BY DEF TypeOK, TypeClients, TypeConn, Callers
<1>1. CASE \/ PumpRead \/ TaskHandshake \/ onData \/ TaskEnds \/ InputSent \/ PumpEnds
           \/ Evict \/ UNCHANGED vars
  <2>1. UNCHANGED <<connect, listed, stored, term>>
    BY <1>1, Zenon DEF PumpRead, TaskHandshake, onData, TaskEnds, InputSent, PumpEnds, Evict,
      vars, connVars, metaVars
  <2> QED
    BY <2>1, RecordUntouched
<1>2. CASE ConnectRefused \/ ConnectStart \/ ConnectFails
  <2>1. connect' # "ok" /\ UNCHANGED <<listed, stored, term>>
    BY <1>2 DEF ConnectRefused, ConnectStart, ConnectFails, metaVars
  <2> QED
    BY <2>1, Zenon DEF RecordInv, UnlistedIsFresh, NoOrphanRecord
<1>3. CASE ConnectSucceeds
  BY <1>3, Zenon DEF ConnectSucceeds, RecordInv, UnlistedIsFresh, NoOrphanRecord
<1>4. CASE ApiRecordsSession
  <2>1. stored /\ stored' = stored /\ listed' = "listed"
    BY <1>4, Zenon DEF ApiRecordsSession, RecordInv, UnlistedIsFresh
  <2>2. listed' # "unlisted"
    BY <2>1
  <2> QED
    BY <2>1, <2>2, Zenon DEF RecordInv, UnlistedIsFresh, NoOrphanRecord
<1>5. ASSUME NEW w \in Sockets,
             handleWebSocket(w) \/ webSocketMessage(w) \/ BrowserCloses(w) \/ webSocketClose(w)
      PROVE  RecordInv'
  <2>1. UNCHANGED <<connect, listed, stored, term>>
    BY <1>5, Zenon DEF handleWebSocket, webSocketMessage, BrowserCloses, webSocketClose,
      connVars, metaVars
  <2> QED
    BY <2>1, RecordUntouched
<1>6. ASSUME NEW c \in Callers, NEW s \in {"disconnect", "threw", "done"},
             term' = [term EXCEPT ![c] = s],
             term[c] \notin {"kvGet", "kvPut"},
             c \in Deletes => term[c] # "done" /\ listed # "unlisted",
             connect' = connect, listed' = listed, ~stored' => ~stored
      PROVE  RecordInv'
  <2>1. listed = "unlisted" => c = Alarm
    BY <1>6 DEF Callers
  <2>2. listed = "unlisted" => \A d \in Deletes : term'[d] = "idle"
    BY <1>0, <1>6, <2>1 DEF RecordInv, UnlistedIsFresh
  <2>3. listed = "unlisted" => term'[Alarm] # "idle"
    BY <1>0, <1>6, <2>1
  <2>4. TerminatePending => TerminatePending'
    BY <1>0, <1>6 DEF TerminatePending
  <2>5. SomeDeleteDone => SomeDeleteDone'
    BY <1>0, <1>6 DEF SomeDeleteDone
  <2>6. NoOrphanRecord'
    BY <1>6, <2>4, <2>5, Zenon
      DEF RecordInv, NoOrphanRecord, TerminatePending, SomeDeleteDone
  <2> QED
    BY <1>6, <2>2, <2>3, <2>6, Zenon DEF RecordInv, UnlistedIsFresh
<1>7. ASSUME NEW c \in Callers, NEW s \in {"kvGet", "kvPut"},
             term' = [term EXCEPT ![c] = s],
             c \in Deletes => listed # "unlisted", UNCHANGED <<connect, listed, stored>>
      PROVE  RecordInv'
  <2>1. TerminatePending'
    BY <1>0, <1>7 DEF TerminatePending
  <2>2. listed = "unlisted" => c = Alarm
    BY <1>7 DEF Callers
  <2>3. listed = "unlisted" => \A d \in Deletes : term'[d] = "idle"
    BY <1>0, <1>7, <2>2 DEF RecordInv, UnlistedIsFresh
  <2>4. listed = "unlisted" => term'[Alarm] # "idle"
    BY <1>0, <1>7, <2>2
  <2> QED
    BY <1>7, <2>1, <2>3, <2>4, Zenon
      DEF RecordInv, UnlistedIsFresh, NoOrphanRecord, TerminatePending
<1>8. ASSUME NEW c \in Callers, TearDown(c), term[c] \notin {"kvGet", "kvPut"},
             c \in Deletes => term[c] # "done" /\ listed # "unlisted"
      PROVE  RecordInv'
  <2>1. CASE sessionMeta'
    <3>1. term' = [term EXCEPT ![c] = "kvGet"] /\ UNCHANGED <<connect, listed, stored>>
      BY <1>8, <2>1, Zenon DEF TearDown
    <3> QED
      BY <1>7, <1>8, <3>1
  <2>2. CASE ~sessionMeta'
    <3>1. /\ term' = [term EXCEPT ![c] = "done"] /\ UNCHANGED <<connect, listed>>
          /\ ~stored
      BY <1>8, <2>2, Zenon DEF TearDown
    <3> QED
      BY <1>6, <1>8, <3>1, Zenon
  <2> QED
    BY <2>1, <2>2
<1>9. ASSUME NEW c \in Callers, terminate(c), term[c] \in {"idle", "done", "threw"},
             c \in Deletes => term[c] # "done" /\ listed # "unlisted"
      PROVE  RecordInv'
  <2>0. term[c] \notin {"kvGet", "kvPut"}
    BY <1>9
  <2>1. CASE session = "null"
    BY <1>8, <1>9, <2>0, <2>1 DEF terminate
  <2>2. CASE session # "null"
    <3>1. term' = [term EXCEPT ![c] = "disconnect"] /\ UNCHANGED <<connect, listed, stored>>
      BY <1>9, <2>2, Zenon DEF terminate, connVars
    <3>2. connect' = connect /\ listed' = listed /\ (~stored' => ~stored)
      BY <3>1, Zenon
    <3> QED
      BY <1>6, <1>9, <2>0, <3>1, <3>2, Zenon
  <2> QED
    BY <2>1, <2>2
<1>10. ASSUME NEW c \in Deletes, DeleteRequest(c) PROVE RecordInv'
  <2>1. /\ terminate(c) /\ term[c] = "idle" /\ listed # "unlisted" /\ c \in Callers
        /\ "idle" # "done"
    BY <1>0, <1>10 DEF DeleteRequest
  <2> QED
    BY <1>9, <2>1
<1>11. CASE AlarmFires
  <2>1. CASE clients = {}
    BY <1>0, <1>9, <1>11, <2>1 DEF AlarmFires
  <2>2. CASE clients # {}
    BY <1>11, <2>2, RecordUntouched, Zenon DEF AlarmFires, connVars
  <2> QED
    BY <2>1, <2>2
<1>12. ASSUME NEW c \in Callers, AfterDisconnect(c) PROVE RecordInv'
  <2>1. /\ term[c] = "disconnect" /\ term[c] \notin {"kvGet", "kvPut"}
        /\ c \in Deletes => term[c] # "done" /\ listed # "unlisted"
    BY <1>12 DEF AfterDisconnect, RecordInv, UnlistedIsFresh
  <2>2. CASE TearDown(c)
    BY <1>8, <2>1, <2>2
  <2>3. CASE FreeThrows(c)
    <3>1. term' = [term EXCEPT ![c] = "threw"] /\ UNCHANGED <<connect, listed, stored>>
      BY <2>3, Zenon DEF FreeThrows
    <3>2. connect' = connect /\ listed' = listed /\ (~stored' => ~stored)
      BY <3>1, Zenon
    <3> QED
      BY <1>6, <2>1, <3>1, <3>2, Zenon
  <2> QED
    BY <1>12, <2>2, <2>3, Zenon DEF AfterDisconnect
<1>13. ASSUME NEW c \in Callers, KvGet(c) PROVE RecordInv'
  <2>1. CASE listed = "listed"
    <3>1. term' = [term EXCEPT ![c] = "kvPut"] /\ UNCHANGED <<connect, listed, stored>>
      BY <1>13, <2>1, Zenon DEF KvGet, connVars, metaVars
    <3> QED
      BY <1>7, <2>1, <3>1
  <2>2. CASE listed # "listed"
    <3>1. /\ term[c] = "kvGet" /\ term' = [term EXCEPT ![c] = "done"]
          /\ UNCHANGED <<connect, listed>>
      BY <1>13, <2>2 DEF KvGet, Finish, connVars
    <3>2. listed = "unlisted" => c = Alarm
      BY <3>1 DEF Callers, RecordInv, UnlistedIsFresh
    <3>3. listed = "unlisted" => term'[Alarm] # "idle"
      BY <1>0, <3>1, <3>2
    <3>4. listed = "unlisted" => \A d \in Deletes : term'[d] = "idle"
      BY <1>0, <3>1, <3>2 DEF RecordInv, UnlistedIsFresh
    <3> QED
      BY <2>2, <3>1, <3>3, <3>4, Zenon DEF RecordInv, UnlistedIsFresh, NoOrphanRecord
  <2> QED
    BY <2>1, <2>2
<1>14. ASSUME NEW c \in Callers, KvPut(c) \/ DeleteRouteRemoves(c) PROVE RecordInv'
  <2>1. listed' = "removed"
    BY <1>14 DEF KvPut, DeleteRouteRemoves
  <2>2. listed' # "listed" /\ listed' # "unlisted"
    BY <2>1
  <2> QED
    BY <2>2, Zenon DEF RecordInv, UnlistedIsFresh, NoOrphanRecord
<1> QED
  BY <1>0, <1>1, <1>2, <1>3, <1>4, <1>5, <1>10, <1>11, <1>12, <1>13, <1>14 DEF Next

(* When KV takes its calls, a recorded session whose meta is gone has a      *)
(* removal of its record on the way (NoOrphanRecord).                        *)
THEOREM RecordNotOrphaned ==
  ASSUME ~KvMayFail PROVE Spec => []NoOrphanRecord
<1>1. Init => TypeOK /\ RecordInv
  BY InitTypeOK DEF Init, RecordInv, UnlistedIsFresh, NoOrphanRecord, Callers
<1>2. (TypeOK /\ RecordInv) /\ [Next]_vars => (TypeOK /\ RecordInv)'
  BY NextTypeOK, NextRecordInv
<1>3. RecordInv => NoOrphanRecord
  BY DEF RecordInv
<1> QED
  BY <1>1, <1>2, <1>3, PTL DEF Spec

-----------------------------------------------------------------------------
(* The session list.  SessionRegistry has the routes and the objects of all  *)
(* sessions at once, each object reduced to up or terminated; its state is   *)
(* its own.  Any number of writers may hold a stale copy of the list.        *)

(* Of one session the creation ends before the termination begins, and that  *)
(* before the DELETE route writes.                                           *)
InTurn ==
  \A s \in Sessions :
    /\ phase["create"][s] # "done" =>
         phase["terminate"][s] = "idle" /\ phase["delete"][s] = "idle" /\ s \notin asked
    /\ phase["delete"][s] # "idle" => phase["terminate"][s] = "done" /\ s \notin asked
    /\ s \in asked => phase["terminate"][s] # "idle"
    /\ object[s] = "up" <=> phase["create"][s] # "idle" /\ phase["terminate"][s] = "idle"

(* What an operation has read is stale only about sessions whose last write  *)
(* met it: a writer that comes between its get and its put is raced.         *)
StaleOnlyOfRaced ==
  \A op \in Ops, s \in Sessions : phase[op][s] = "got" =>
    \A t \in Sessions \ raced : t \in snap[op][s] <=> t \in list

(* No list, read or written, names a session before its POST has put it.     *)
OnlyCreated ==
  /\ ListedWasCreated
  /\ \A op \in Ops, s \in Sessions :
       \A t \in snap[op][s] : phase["create"][t] = "done"

(* A session that is not raced is in the list from its POST's put to its     *)
(* terminate()'s.                                                            *)
ListFollows ==
  \A s \in Sessions \ raced :
    s \in list <=> phase["create"][s] = "done" /\ phase["terminate"][s] # "done"

RegistryInv ==
  RegistryTypeOK /\ InTurn /\ StaleOnlyOfRaced /\ OnlyCreated /\ ListFollows

-----------------------------------------------------------------------------
LEMMA InitRegistry == RegistryInit => RegistryInv
<1> SUFFICES ASSUME RegistryInit PROVE RegistryInv
  OBVIOUS
<1>1. RegistryTypeOK
  BY DEF RegistryInit, RegistryTypeOK
<1>2. \A op \in Ops, s \in Sessions : phase[op][s] = "idle" /\ snap[op][s] = {}
  BY DEF RegistryInit
<1>3. InTurn /\ StaleOnlyOfRaced /\ OnlyCreated /\ ListFollows
  BY <1>2 DEF RegistryInit, InTurn, StaleOnlyOfRaced, OnlyCreated, ListedWasCreated,
              ListFollows, Ops
<1> QED
  BY <1>1, <1>3 DEF RegistryInv

(* One operation of one session moves. *)
LEMMA PhaseMoves ==
  ASSUME RegistryTypeOK, NEW op \in Ops, NEW s \in Sessions, NEW p, Moves(op, s, p)
  PROVE  /\ phase'[op][s] = p
         /\ \A o \in Ops, t \in Sessions : o # op \/ t # s => phase'[o][t] = phase[o][t]
BY DEF RegistryTypeOK, Moves

(* An operation that begins reads and writes nothing yet, and what is known  *)
(* of the list and of the copies of it stays as it is.                       *)
LEMMA BeginsKeeps ==
  ASSUME RegistryInv, UNCHANGED <<list, snap, raced>>, NEW op \in Ops, NEW s \in Sessions,
         phase[op][s] # "got", Moves(op, s, "called"),
         op = "create" => phase[op][s] # "done",
         op = "terminate" /\ phase[op][s] = "done" => s \in raced
  PROVE  StaleOnlyOfRaced' /\ OnlyCreated' /\ ListFollows'
<1> USE DEF RegistryInv
<1>1. /\ phase'[op][s] = "called"
      /\ \A o \in Ops, t \in Sessions : o # op \/ t # s => phase'[o][t] = phase[o][t]
  BY PhaseMoves
<1>2. StaleOnlyOfRaced'
  BY <1>1 DEF StaleOnlyOfRaced
<1>3. \A t \in Sessions : phase["create"][t] = "done" => phase'["create"][t] = "done"
  BY <1>1 DEF Ops
<1>4. OnlyCreated'
  BY <1>3 DEF OnlyCreated, ListedWasCreated, RegistryTypeOK
<1>5. ListFollows'
  BY <1>1 DEF ListFollows, Ops
<1> QED
  BY <1>2, <1>4, <1>5

LEMMA StepRegistry ==
  ASSUME RegistryInv, [RegistryNext]_registryVars PROVE RegistryInv'
<1> USE DEF RegistryInv
<1>1. ASSUME NEW s \in Sessions, CreateSession(s) PROVE RegistryInv'
  <2>2. /\ phase'["create"][s] = "called" /\ phase["create"][s] = "idle"
        /\ \A o \in Ops, t \in Sessions :
             o # "create" \/ t # s => phase'[o][t] = phase[o][t]
    BY <1>1, PhaseMoves DEF CreateSession, Ops
  <2>3. RegistryTypeOK'
    BY <1>1 DEF CreateSession, Moves, RegistryTypeOK, Ops
  <2>4. InTurn'
    BY <1>1, <2>2 DEF CreateSession, InTurn, RegistryTypeOK, Ops
  <2>5. StaleOnlyOfRaced' /\ OnlyCreated' /\ ListFollows'
    BY <1>1, <2>2, BeginsKeeps DEF CreateSession, Ops
  <2> QED
    BY <2>3, <2>4, <2>5
<1>2. ASSUME NEW s \in Sessions, AlarmTerminates(s) \/ DeleteSession(s) PROVE RegistryInv'
  <2>2. /\ phase["create"][s] = "done" /\ phase'["terminate"][s] = "called"
        /\ \A o \in Ops, t \in Sessions :
             o # "terminate" \/ t # s => phase'[o][t] = phase[o][t]
    BY <1>2, PhaseMoves DEF AlarmTerminates, DeleteSession, StartTerminate, Ops
  <2>3. phase["terminate"][s] \in {"idle", "done"} /\ phase["delete"][s] = "idle"
    BY <1>2 DEF AlarmTerminates, DeleteSession, InTurn
  <2>4. RegistryTypeOK'
    BY <1>2 DEF AlarmTerminates, DeleteSession, StartTerminate, Moves, RegistryTypeOK, Ops
  <2>5. asked' \subseteq asked \cup {s}
    BY <1>2 DEF AlarmTerminates, DeleteSession
  <2>6. object' = [object EXCEPT ![s] = "terminated"] /\ UNCHANGED <<list, snap, raced>>
    BY <1>2 DEF AlarmTerminates, DeleteSession, StartTerminate
  <2>7. InTurn'
    BY <2>2, <2>3, <2>5, <2>6 DEF InTurn, Ops, RegistryTypeOK
  <2>8. phase["terminate"][s] = "done" => s \in raced
    BY <1>2, <2>3 DEF AlarmTerminates, DeleteSession, ListFollows, InTurn
  <2>9. StaleOnlyOfRaced' /\ OnlyCreated' /\ ListFollows'
    BY <1>2, <2>3, <2>6, <2>8, BeginsKeeps DEF AlarmTerminates, DeleteSession, StartTerminate, Ops
  <2> QED
    BY <2>4, <2>7, <2>9
<1>3. ASSUME NEW s \in Sessions, DeleteAnswered(s) PROVE RegistryInv'
  <2>1. /\ phase'["delete"][s] = "called" /\ phase["terminate"][s] = "done"
        /\ \A o \in Ops, t \in Sessions :
             o # "delete" \/ t # s => phase'[o][t] = phase[o][t]
    BY <1>3, PhaseMoves DEF DeleteAnswered, Ops
  <2>2. RegistryTypeOK'
    BY <1>3 DEF DeleteAnswered, Moves, RegistryTypeOK, Ops
  <2>3. InTurn'
    BY <1>3, <2>1 DEF DeleteAnswered, InTurn, Ops
  <2>4. phase["delete"][s] = "idle"
    BY <1>3 DEF DeleteAnswered, InTurn
  <2>5. StaleOnlyOfRaced' /\ OnlyCreated' /\ ListFollows'
    BY <1>3, <2>4, BeginsKeeps DEF DeleteAnswered, Ops
  <2> QED
    BY <2>2, <2>3, <2>5
<1>4. ASSUME NEW s \in Sessions, NEW op \in Ops, ListGet(op, s) PROVE RegistryInv'
  <2>1. /\ phase'[op][s] = "got" /\ phase[op][s] = "called"
        /\ \A o \in Ops, t \in Sessions : o # op \/ t # s => phase'[o][t] = phase[o][t]
    BY <1>4, PhaseMoves DEF ListGet
  <2>2. /\ snap'[op][s] = list
        /\ \A o \in Ops, t \in Sessions : o # op \/ t # s => snap'[o][t] = snap[o][t]
    BY <1>4 DEF ListGet, RegistryTypeOK
  <2>3. RegistryTypeOK'
    BY <1>4 DEF ListGet, Moves, RegistryTypeOK
  <2>4. InTurn' /\ ListFollows'
    BY <1>4, <2>1 DEF ListGet, InTurn, ListFollows, Ops
  <2>5. StaleOnlyOfRaced'
    BY <1>4, <2>1, <2>2 DEF ListGet, StaleOnlyOfRaced
  <2>6. \A t \in Sessions : phase["create"][t] = "done" <=> phase'["create"][t] = "done"
    BY <2>1 DEF Ops
  <2>7. OnlyCreated'
    BY <1>4, <2>2, <2>6 DEF ListGet, OnlyCreated, ListedWasCreated, RegistryTypeOK
  <2> QED
    BY <2>3, <2>4, <2>5, <2>7
<1>5. ASSUME NEW s \in Sessions, NEW op \in Ops, ListPut(op, s) PROVE RegistryInv'
  <2>1. /\ phase'[op][s] = "done" /\ phase[op][s] = "got"
        /\ \A o \in Ops, t \in Sessions : o # op \/ t # s => phase'[o][t] = phase[o][t]
    BY <1>5, PhaseMoves DEF ListPut
  <2>2. /\ list' = (IF op = "create" THEN snap[op][s] \cup {s} ELSE snap[op][s] \ {s})
        /\ raced' = (IF OtherHasRead(op, s) THEN raced \cup {s} ELSE raced \ {s})
        /\ UNCHANGED <<object, asked>>
    BY <1>5 DEF ListPut, Updated
  <2>3. /\ snap'[op][s] = {}
        /\ \A o \in Ops, t \in Sessions : o # op \/ t # s => snap'[o][t] = snap[o][t]
    BY <1>5 DEF ListPut, RegistryTypeOK
  <2>4. RegistryTypeOK'
    BY <1>5, <2>2 DEF ListPut, Moves, RegistryTypeOK
  <2>5. InTurn'
    BY <2>1, <2>2 DEF InTurn, Ops
  <2>6. \A t \in Sessions \ raced : t # s => (t \in list' <=> t \in list)
    BY <2>1, <2>2 DEF StaleOnlyOfRaced
  <2>7. \A t \in Sessions \ raced' : t # s => t \in Sessions \ raced
    BY <2>2
  <2>8. ListFollows'
    <3>1. ASSUME NEW t \in Sessions \ raced', t # s
          PROVE t \in list' <=> phase'["create"][t] = "done" /\ phase'["terminate"][t] # "done"
      <4>1. phase'["create"][t] = phase["create"][t]
            /\ phase'["terminate"][t] = phase["terminate"][t]
        BY <2>1, <3>1 DEF Ops
      <4> QED
        BY <2>6, <2>7, <3>1, <4>1 DEF ListFollows
    <3>2. s \in list' <=> phase'["create"][s] = "done" /\ phase'["terminate"][s] # "done"
      <4>1. CASE op = "create"
        <5>1. phase["terminate"][s] = "idle"
          BY <2>1, <4>1 DEF InTurn
        <5> QED
          BY <2>1, <2>2, <4>1, <5>1 DEF Ops
      <4>2. CASE op # "create"
        <5>1. s \notin list'
          BY <2>2, <4>2
        <5>2. phase'["terminate"][s] = "done"
          BY <2>1, <4>2 DEF InTurn, Ops
        <5> QED
          BY <5>1, <5>2
      <4> QED
        BY <4>1, <4>2
    <3> QED
      BY <3>1, <3>2 DEF ListFollows
  <2>9. StaleOnlyOfRaced'
    <3> SUFFICES ASSUME NEW o \in Ops, NEW t \in Sessions, phase'[o][t] = "got",
                        NEW u \in Sessions \ raced'
                 PROVE  u \in snap'[o][t] <=> u \in list'
      BY DEF StaleOnlyOfRaced
    <3>1. (o # op \/ t # s) /\ phase[o][t] = "got"
      BY <2>1
    <3>2. OtherHasRead(op, s)
      BY <3>1 DEF OtherHasRead
    <3>3. u # s /\ u \in Sessions \ raced
      BY <2>2, <3>2
    <3>4. snap'[o][t] = snap[o][t]
      BY <2>3, <3>1
    <3> QED
      BY <2>6, <3>1, <3>3, <3>4 DEF StaleOnlyOfRaced
  <2>10. \A t \in Sessions : phase["create"][t] = "done" => phase'["create"][t] = "done"
    BY <2>1 DEF Ops
  <2>11. \A t \in list' : phase'["create"][t] = "done"
    BY <2>1, <2>2, <2>10 DEF OnlyCreated, RegistryTypeOK
  <2>12. OnlyCreated'
    BY <2>3, <2>10, <2>11 DEF OnlyCreated, ListedWasCreated, RegistryTypeOK
  <2> QED
    BY <2>4, <2>5, <2>8, <2>9, <2>12
<1>6. ASSUME UNCHANGED registryVars PROVE RegistryInv'
  BY <1>6 DEF registryVars, RegistryTypeOK, InTurn, StaleOnlyOfRaced, OnlyCreated,
              ListedWasCreated, ListFollows
<1> QED
  BY <1>1, <1>2, <1>3, <1>4, <1>5, <1>6 DEF RegistryNext

LEMMA RegistryInvImplies == RegistryInv => ListIsTrue
<1> SUFFICES ASSUME RegistryInv PROVE ListIsTrue
  OBVIOUS
<1>1. ASSUME NEW s \in Settled PROVE object[s] = "up" <=> s \in list
  <2>1. s \in Sessions \ raced
    BY <1>1 DEF Settled
  <2>2. \A op \in Ops : phase[op][s] \notin {"called", "got"}
    BY <1>1 DEF Settled, Busy
  <2>3. phase["create"][s] \in {"idle", "done"} /\ phase["terminate"][s] \in {"idle", "done"}
    BY <2>1, <2>2 DEF Ops, RegistryInv, RegistryTypeOK
  <2> QED
    BY <2>1, <2>3 DEF RegistryInv, ListFollows, InTurn
<1> QED
  BY <1>1 DEF ListIsTrue, UpIsListed, ListedIsUp, RegistryInv, OnlyCreated

(* However many creations, terminations and deletions overlap, the list a    *)
(* user is offered is right about every session on which no operation is     *)
(* under way and whose own last write was not made between another writer's  *)
(* get and put: the reads and writes of sessions.ts and terminate() never    *)
(* lose or revive a third session (ListIsTrue).                              *)
THEOREM ListCorrect == RegistrySpec => []ListIsTrue
<1>1. RegistryInv /\ [RegistryNext]_registryVars => RegistryInv'
  BY StepRegistry
<1> QED
  BY <1>1, InitRegistry, RegistryInvImplies, PTL DEF RegistrySpec
=============================================================================
