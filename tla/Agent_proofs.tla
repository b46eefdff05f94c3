----------------------------- MODULE Agent_proofs -----------------------------
(***************************************************************************)
(* Proofs about Agent, for any connections, keys and programs: its types,  *)
(* that a key with a lifetime is taken away by its own timer and by no     *)
(* other, and that a client which counts its replies is told what the      *)
(* agent did with its own request.                                         *)
(***************************************************************************)
EXTENDS Agent, TLAPS

(* The requests of the programs, and what is on the wire and in the tasks. *)
Listed(c) == {setup.program[c][i] : i \in 1 .. Len(setup.program[c])}
Asked == UNION {Listed(c) : c \in Conns}
EmptyFrame == [type |-> "empty"]
RestFrame == [type |-> "rest"]
Wire == {EmptyFrame, RestFrame} \cup {Frame(r) : r \in Asked}
Reading == [state |-> "reading"]
Swallowing == [state |-> "swallowing"]
Asking(r) == [state |-> "asking", request |-> r]
Tasks == {Reading, Swallowing} \cup {Asking(r) : r \in Asked}
SignReply == [first |-> "SIGN_RESPONSE", hashed |-> FALSE]
ReplyType ==
  {Failed, Succeeded, SignReply}
    \cup [first : {"IDENTITIES_ANSWER"}, listed : SUBSET Keys]
Results == {"none", "waiting", "dropped", "Ok", "Empty", "AgentFailure", "AgentProtocolError"}
Doings == {"nothing", "stored", "refused", "signed"}

KeyType == [at : 0 .. now, of : 0 .. added, lifetime : BOOLEAN, confirm : BOOLEAN]
TimerType == [key : Keys, at : 1 .. now, of : 1 .. added]

TypeClient ==
  /\ setup \in Setups
  /\ pc \in [Conns -> Nat] /\ \A c \in Conns : pc[c] <= Len(setup.program[c])
  /\ result \in [Conns -> Results]
  /\ requests \in [Conns -> Seq(Wire)] /\ replies \in [Conns -> Seq(ReplyType)]
  /\ did \in [Conns -> Doings]
TypeServer ==
  /\ task \in [Conns -> Tasks]
  /\ now \in Nat /\ added \in Nat /\ signed_locked \in BOOLEAN
  /\ keys \in [Keys -> KeyType]
  /\ timers \subseteq TimerType
  /\ lock \in Seq(STRING)

(* The key a timer was started for, if it is still there, has a lifetime.  *)
TimersAreOwn ==
  \A t \in timers : keys[t.key].of = t.of => keys[t.key].lifetime

StoreInv == TypeClient /\ TypeServer /\ TimersAreOwn /\ LifetimeHeld

-----------------------------------------------------------------------------
(* Requests, frames and replies *)

LEMMA AskedOK == ASSUME TypeClient PROVE \A r \in Asked : RequestOK(r)
BY SetupsAssumption DEF TypeClient, SetupOK, Asked, Listed

LEMMA CallAsked ==
  ASSUME TypeClient, NEW c \in Conns, NEW i \in 1 .. Len(setup.program[c])
  PROVE  setup.program[c][i] \in Asked
BY DEF Asked, Listed

LEMMA ProgramLength ==
  ASSUME TypeClient, NEW c \in Conns PROVE Len(setup.program[c]) \in Nat
BY SetupsAssumption DEF TypeClient, SetupOK

LEMMA EncodedType == \A r \in Asked : Encoded(r) \in Seq(Wire)
<1> SUFFICES ASSUME NEW r \in Asked PROVE Encoded(r) \in Seq(Wire)
  OBVIOUS
<1>1. EmptyFrame \in Wire /\ RestFrame \in Wire /\ Frame(r) \in Wire
  BY DEF Wire
<1>2. Unframed = <<EmptyFrame, RestFrame>>
  BY DEF Unframed, EmptyFrame, RestFrame
<1>3. <<EmptyFrame, RestFrame>> \in Seq(Wire) /\ <<Frame(r)>> \in Seq(Wire)
  BY <1>1
<1> QED
  BY <1>2, <1>3 DEF Encoded

LEMMA WireTypes ==
  \A m \in Wire : \/ m.type = "empty" \/ m.type = "rest"
                  \/ /\ m.type = "frame" /\ m.request \in Asked
                     /\ m = Frame(m.request)
BY DEF Wire, Frame, EmptyFrame, RestFrame

LEMMA TaskTypes ==
  \A x \in Tasks : /\ x.state \in {"reading", "asking", "swallowing"}
                   /\ x.state = "asking" => x.request \in Asked /\ x = Asking(x.request)
                   /\ x.state = "reading" => x = Reading
BY DEF Tasks, Reading, Swallowing, Asking

LEMMA ReplyTypes ==
  /\ \A x \in ReplyType :
        x.first \in {"SUCCESS", "FAILURE", "SIGN_RESPONSE", "IDENTITIES_ANSWER"}
  /\ Failed \in ReplyType /\ Succeeded \in ReplyType /\ SignReply \in ReplyType
  /\ \A S \in SUBSET Keys : [first |-> "IDENTITIES_ANSWER", listed |-> S] \in ReplyType
BY DEF ReplyType, Failed, Succeeded, SignReply

LEMMA OutcomeType == \A r, x : Outcome(r, x) \in Results
BY DEF Outcome, read_success, sign_request, write_signature, sign_request_base64,
       sign_request_signature, request_identities, query_extension, Results

LEMMA StoreInvImplies == StoreInv => TypeOK /\ LifetimeHeld
<1> SUFFICES ASSUME StoreInv PROVE TypeOK
  BY DEF StoreInv
<1>1. ASSUME NEW c \in Conns
      PROVE  /\ pc[c] \in 0 .. Len(setup.program[c])
             /\ result[c] \in Results
             /\ did[c] \in Doings
             /\ task[c].state \in {"reading", "asking", "swallowing"}
             /\ \A i \in DOMAIN requests[c] :
                   requests[c][i].type \in {"frame", "empty", "rest"}
             /\ \A i \in DOMAIN replies[c] :
                   replies[c][i].first \in
                      {"SUCCESS", "FAILURE", "SIGN_RESPONSE", "IDENTITIES_ANSWER"}
  <2>1. requests[c] \in Seq(Wire) /\ replies[c] \in Seq(ReplyType) /\ task[c] \in Tasks
    BY DEF StoreInv, TypeClient, TypeServer
  <2>2. \A i \in DOMAIN requests[c] : requests[c][i] \in Wire
    BY <2>1
  <2>3. \A i \in DOMAIN replies[c] : replies[c][i] \in ReplyType
    BY <2>1
  <2>4. pc[c] \in 0 .. Len(setup.program[c])
    BY ProgramLength DEF StoreInv, TypeClient
  <2> QED
    BY <2>1, <2>2, <2>3, <2>4, WireTypes, ReplyTypes, TaskTypes DEF StoreInv, TypeClient
<1> QED
  BY <1>1 DEF StoreInv, TypeClient, TypeServer, TypeOK, Results, Doings, KeyType, TimerType

-----------------------------------------------------------------------------
(* The store and its timers *)

LEMMA InitStore == Init => StoreInv
<1> SUFFICES ASSUME Init PROVE StoreInv
  OBVIOUS
<1>1. TypeClient
  BY SetupsAssumption DEF Init, TypeClient, Results, Doings, SetupOK
<1>2. TypeServer
  <2>1. keys \in [Keys -> KeyType]
    BY DEF Init, Absent, KeyType
  <2>2. task \in [Conns -> Tasks]
    BY DEF Init, Tasks, Reading
  <2>3. lock \in Seq(STRING) /\ timers \subseteq TimerType
    BY DEF Init
  <2> QED
    BY <2>1, <2>2, <2>3 DEF Init, TypeServer
<1>3. TimersAreOwn /\ LifetimeHeld
  BY DEF Init, TimersAreOwn, LifetimeHeld, Absent
<1> QED
  BY <1>1, <1>2, <1>3 DEF StoreInv

(* What the actions that leave the store alone keep. *)
Store == <<keys, timers, now, added, lock>>

LEMMA StoreKept ==
  ASSUME StoreInv, TypeClient', task' \in [Conns -> Tasks'], signed_locked' \in BOOLEAN,
         UNCHANGED Store
  PROVE  StoreInv'
BY DEF StoreInv, TypeServer, TimersAreOwn, LifetimeHeld, Store, KeyType, TimerType, OwnTimer

LEMMA WireKept == ASSUME UNCHANGED setup PROVE Asked' = Asked /\ Wire' = Wire /\ Tasks' = Tasks
BY DEF Asked, Listed, Wire, Tasks

(* A task answers and goes back to reading. *)
LEMMA ReplyKeeps ==
  ASSUME StoreInv, NEW c \in Conns, NEW x \in ReplyType, Reply(c, x), UNCHANGED setup,
         UNCHANGED <<pc, result>>, did' \in [Conns -> Doings],
         requests' \in [Conns -> Seq(Wire)]
  PROVE  TypeClient' /\ task' \in [Conns -> Tasks']
<1>1. replies' \in [Conns -> Seq(ReplyType)]
  BY DEF Reply, StoreInv, TypeClient
<1>2. task' \in [Conns -> Tasks]
  BY DEF Reply, StoreInv, TypeServer, Tasks, Reading
<1>3. Wire' = Wire /\ Tasks' = Tasks
  BY WireKept
<1>4. ReplyType' = ReplyType /\ Results' = Results /\ Doings' = Doings
  BY DEF ReplyType, Results, Doings
<1> QED
  BY <1>1, <1>2, <1>3, <1>4 DEF StoreInv, TypeClient

LEMMA CallStore == ASSUME StoreInv, NEW c \in Conns, Call(c) PROVE StoreInv'
<1>1. Wire' = Wire /\ Tasks' = Tasks
  BY WireKept DEF Call
<1>2. setup.program[c][pc[c] + 1] \in Asked
  <2>1. TypeClient
    BY DEF StoreInv
  <2>2. pc[c] + 1 \in 1 .. Len(setup.program[c])
    BY <2>1, ProgramLength DEF Call, TypeClient
  <2> QED
    BY <2>1, <2>2, CallAsked
<1>3. requests[c] \o Encoded(setup.program[c][pc[c] + 1]) \in Seq(Wire)
  BY <1>2, EncodedType DEF StoreInv, TypeClient
<1>4. requests' \in [Conns -> Seq(Wire)]
  BY <1>3 DEF Call, StoreInv, TypeClient
<1>5. pc' \in [Conns -> Nat] /\ \A d \in Conns : pc'[d] <= Len(setup'.program[d])
  BY ProgramLength, SMTT(60) DEF Call, StoreInv, TypeClient
<1>6. TypeClient'
  BY <1>1, <1>4, <1>5 DEF Call, StoreInv, TypeClient, Results, Doings
<1> QED
  BY <1>1, <1>6, StoreKept DEF Call, StoreInv, TypeServer, Store

LEMMA ReadStore == ASSUME StoreInv, NEW c \in Conns, ReadResponse(c) PROVE StoreInv'
<1>1. Wire' = Wire /\ Tasks' = Tasks
  BY WireKept DEF ReadResponse
<1>2. result' \in [Conns -> Results]
  BY OutcomeType DEF ReadResponse, StoreInv, TypeClient
<1>3. replies' \in [Conns -> Seq(ReplyType)]
  BY DEF ReadResponse, StoreInv, TypeClient
<1>4. TypeClient'
  BY <1>1, <1>2, <1>3 DEF ReadResponse, StoreInv, TypeClient
<1> QED
  BY <1>1, <1>4, StoreKept DEF ReadResponse, StoreInv, TypeServer, Store

LEMMA DropStore == ASSUME StoreInv, NEW c \in Conns, Drop(c) PROVE StoreInv'
<1>1. Wire' = Wire /\ Tasks' = Tasks
  BY WireKept DEF Drop
<1>2. TypeClient'
  BY <1>1 DEF Drop, StoreInv, TypeClient, Results
<1> QED
  BY <1>1, <1>2, StoreKept DEF Drop, StoreInv, TypeServer, Store

LEMMA RequestStore == ASSUME StoreInv, NEW c \in Conns, ReadRequest(c) PROVE StoreInv'
<1>1. Wire' = Wire /\ Tasks' = Tasks /\ UNCHANGED setup
  BY WireKept DEF ReadRequest
<1>2. Head(requests[c]) \in Wire /\ requests' \in [Conns -> Seq(Wire)]
  BY DEF ReadRequest, StoreInv, TypeClient
<1>3. ASSUME Reply(c, Failed) PROVE TypeClient' /\ task' \in [Conns -> Tasks']
  BY <1>1, <1>2, <1>3, ReplyKeeps, ReplyTypes DEF ReadRequest, StoreInv, TypeClient
<1>4. ASSUME NEW x \in Tasks, task' = [task EXCEPT ![c] = x], UNCHANGED replies
      PROVE  TypeClient' /\ task' \in [Conns -> Tasks']
  BY <1>1, <1>2, <1>4 DEF ReadRequest, StoreInv, TypeClient, TypeServer
<1>5. TypeClient' /\ task' \in [Conns -> Tasks']
  <2> DEFINE m == Head(requests[c])
  <2>1. CASE m.type = "rest"
    BY <2>1, <1>4 DEF ReadRequest, Tasks, Swallowing
  <2>2. CASE m.type = "empty"
    BY <2>2, <1>3 DEF ReadRequest
  <2>3. CASE m.type = "frame" /\ m.request \in Asked
    <3>1. Asking(m.request) \in Tasks
      BY <2>3 DEF Tasks
    <3> QED
      BY <2>3, <1>3, <1>4, <3>1 DEF ReadRequest, Asking
  <2> QED
    BY <1>2, WireTypes, <2>1, <2>2, <2>3
<1> QED
  BY <1>5, StoreKept DEF ReadRequest, Store, StoreInv, TypeServer

LEMMA DidType ==
  ASSUME TypeClient, NEW c \in Conns, NEW r, NEW what \in Doings, Did(c, r, what)
  PROVE  did' \in [Conns -> Doings]
BY DEF TypeClient, Did

LEMMA AgreedRequest ==
  ASSUME StoreInv, NEW c \in Conns, NEW ops, Agreed(c, ops)
  PROVE  task[c].request \in Asked /\ RequestOK(task[c].request) /\ task[c].request.op \in ops
BY AskedOK, TaskTypes DEF StoreInv, TypeServer, Agreed

LEMMA AddStore == ASSUME StoreInv, NEW c \in Conns, add_key(c) PROVE StoreInv'
<1> DEFINE r == task[c].request
           has == HasBefore(r.constraints, "KeyLifetime")
<1>1. r.key \in Keys
  BY AgreedRequest DEF add_key, RequestOK
<1>2. PICK at \in 1 .. now + 1 :
        /\ now' = IF at > now THEN at ELSE now
        /\ timers' = IF has THEN timers \cup {Timer(r.key, at, added + 1)} ELSE timers
        /\ keys' = IF UnknownAt(r.constraints) # 0 THEN keys
                   ELSE [keys EXCEPT ![r.key] = Stamp(r.constraints, at)]
  BY DEF add_key
<1>3. /\ added' = added + 1 /\ added \in Nat /\ now' \in Nat /\ now' >= now /\ now' >= at
      /\ at \in Nat /\ at > 0
  BY <1>2 DEF add_key, StoreInv, TypeServer
<1>4. Stamp(r.constraints, at) \in KeyType' /\ Stamp(r.constraints, at).of = added + 1
      /\ Stamp(r.constraints, at).lifetime = has /\ Stamp(r.constraints, at).at = at
  BY <1>3 DEF Stamp, HasBefore, KeyType
<1>5. KeyType \subseteq KeyType' /\ TimerType \subseteq TimerType'
  BY <1>3 DEF KeyType, TimerType, StoreInv, TypeServer
<1>6. keys' \in [Keys -> KeyType'] /\ timers' \subseteq TimerType'
  <2>1. keys' \in [Keys -> KeyType']
    BY <1>1, <1>2, <1>4, <1>5 DEF StoreInv, TypeServer
  <2>2. Timer(r.key, at, added + 1) \in TimerType'
    BY <1>1, <1>3 DEF Timer, TimerType
  <2> QED
    BY <1>2, <1>5, <2>1, <2>2 DEF StoreInv, TypeServer
<1>7. TypeClient' /\ task' \in [Conns -> Tasks']
  <2>1. did' \in [Conns -> Doings]
    BY DidType DEF add_key, Doings, StoreInv
  <2> QED
    BY <2>1, ReplyKeeps, ReplyTypes DEF add_key, StoreInv, TypeClient
<1>8. TypeServer'
  BY <1>3, <1>6, <1>7 DEF add_key, StoreInv, TypeServer
<1> HIDE DEF has
<1>9. TimersAreOwn'
  <2> SUFFICES ASSUME NEW t \in timers', keys'[t.key].of = t.of
               PROVE  keys'[t.key].lifetime
    BY DEF TimersAreOwn
  <2>1. CASE t \in timers
    <3>1. t.of <= added /\ t.key \in Keys /\ t.of \in Nat
      BY <2>1 DEF StoreInv, TypeServer, TimerType
    <3>2. keys'[t.key] = keys[t.key]
      <4>1. CASE UnknownAt(r.constraints) # 0
        BY <1>2, <4>1
      <4>2. CASE UnknownAt(r.constraints) = 0 /\ t.key = r.key
        <5>1. keys'[t.key] = Stamp(r.constraints, at)
          BY <1>1, <1>2, <4>2 DEF StoreInv, TypeServer
        <5> QED
          BY <1>3, <1>4, <3>1, <5>1
      <4>3. CASE UnknownAt(r.constraints) = 0 /\ t.key # r.key
        BY <1>1, <1>2, <3>1, <4>3 DEF StoreInv, TypeServer
      <4> QED
        BY <4>1, <4>2, <4>3
    <3> QED
      BY <2>1, <3>2 DEF StoreInv, TimersAreOwn
  <2>2. CASE t \notin timers
    <3>1. has /\ t = Timer(r.key, at, added + 1)
      BY <1>2, <2>2
    <3>2. t.key = r.key /\ t.of = added + 1
      BY <3>1 DEF Timer
    <3>3. keys[r.key].of \in 0 .. added
      BY <1>1 DEF StoreInv, TypeServer, KeyType
    <3>4. keys'[r.key] = Stamp(r.constraints, at)
      BY <1>1, <1>2, <1>3, <3>2, <3>3 DEF StoreInv, TypeServer
    <3> QED
      BY <1>4, <3>1, <3>2, <3>4
  <2> QED
    BY <2>1, <2>2
<1>10. LifetimeHeld'
  <2> SUFFICES ASSUME NEW k \in Keys, keys'[k].lifetime PROVE OwnTimer(k)' \in timers'
    BY DEF LifetimeHeld
  <2>1. CASE keys'[k] = keys[k]
    <3>1. OwnTimer(k)' = OwnTimer(k)
      BY <2>1 DEF OwnTimer, Timer
    <3> QED
      BY <1>2, <2>1, <3>1 DEF StoreInv, LifetimeHeld
  <2>2. CASE keys'[k] # keys[k]
    <3>1. k = r.key /\ keys'[k] = Stamp(r.constraints, at)
      BY <1>1, <1>2, <2>2 DEF StoreInv, TypeServer
    <3>2. has /\ OwnTimer(k)' = Timer(r.key, at, added + 1)
      BY <1>4, <3>1 DEF OwnTimer, Timer
    <3> QED
      BY <1>2, <3>2
  <2> QED
    BY <2>1, <2>2
<1> QED
  BY <1>7, <1>8, <1>9, <1>10 DEF StoreInv

LEMMA ExpireStore == ASSUME StoreInv, NEW t \in timers, Expire(t) PROVE StoreInv'
<1>1. t.key \in Keys /\ t = Timer(t.key, t.at, t.of) /\ t.at > 0
  BY DEF StoreInv, TypeServer, TimerType, Timer
<1>2. Wire' = Wire /\ Tasks' = Tasks
  BY WireKept DEF Expire
<1>3. TypeClient'
  BY <1>2 DEF Expire, StoreInv, TypeClient
<1>4. TypeServer'
  BY <1>1, <1>2 DEF Expire, StoreInv, TypeServer, Absent, KeyType, TimerType
<1>5. TimersAreOwn'
  <2> SUFFICES ASSUME NEW u \in timers', keys'[u.key].of = u.of
               PROVE  keys'[u.key].lifetime
    BY DEF TimersAreOwn
  <2>1. u \in timers /\ u.key \in Keys /\ u.of > 0
    BY DEF Expire, StoreInv, TypeServer, TimerType
  <2>2. keys'[u.key] = keys[u.key]
    BY <1>1, <2>1 DEF Expire, StoreInv, TypeServer, Absent
  <2> QED
    BY <2>1, <2>2 DEF StoreInv, TimersAreOwn
<1>6. LifetimeHeld'
  <2> SUFFICES ASSUME NEW k \in Keys, keys'[k].lifetime PROVE OwnTimer(k)' \in timers'
    BY DEF LifetimeHeld
  <2>1. keys'[k] = keys[k]
    BY <1>1 DEF Expire, StoreInv, TypeServer, Absent
  <2>2. OwnTimer(k)' = OwnTimer(k) /\ OwnTimer(k) \in timers
    BY <2>1 DEF OwnTimer, Timer, StoreInv, LifetimeHeld
  <2>3. OwnTimer(k) # t
    <3> SUFFICES ASSUME OwnTimer(k) = t PROVE FALSE
      OBVIOUS
    <3>1. t.key = k /\ t.at = keys[k].at
      BY DEF OwnTimer, Timer
    <3>2. keys'[k] = Absent
      BY <1>1, <3>1 DEF Expire, StoreInv, TypeServer
    <3> QED
      BY <3>2 DEF Absent
  <2> QED
    BY <2>2, <2>3 DEF Expire
<1> QED
  BY <1>3, <1>4, <1>5, <1>6 DEF StoreInv

(* Keys that go away take nothing with them. *)
LEMMA RemovalKeeps ==
  ASSUME StoreInv, TypeClient', task' \in [Conns -> Tasks'], keys' \in [Keys -> {Absent} \cup KeyType],
         \A k \in Keys : keys'[k] = Absent \/ keys'[k] = keys[k],
         UNCHANGED <<timers, now, added, lock, signed_locked>>
  PROVE  StoreInv'
<1>1. TypeServer'
  <2>1. Absent \in KeyType /\ KeyType' = KeyType /\ TimerType' = TimerType
    BY DEF Absent, KeyType, TimerType, StoreInv, TypeServer
  <2> QED
    BY <2>1 DEF StoreInv, TypeServer
<1>2. TimersAreOwn'
  <2> SUFFICES ASSUME NEW u \in timers', keys'[u.key].of = u.of
               PROVE  keys'[u.key].lifetime
    BY DEF TimersAreOwn
  <2>1. u \in timers /\ u.key \in Keys /\ u.of > 0
    BY DEF StoreInv, TypeServer, TimerType
  <2>2. keys'[u.key] = keys[u.key]
    BY <2>1 DEF Absent
  <2> QED
    BY <2>1, <2>2 DEF StoreInv, TimersAreOwn
<1>3. LifetimeHeld'
  <2> SUFFICES ASSUME NEW k \in Keys, keys'[k].lifetime PROVE OwnTimer(k)' \in timers'
    BY DEF LifetimeHeld
  <2>1. keys'[k] = keys[k]
    BY DEF Absent
  <2> QED
    BY <2>1 DEF OwnTimer, StoreInv, LifetimeHeld
<1> QED
  BY <1>1, <1>2, <1>3 DEF StoreInv

LEMMA RespondStore == ASSUME StoreInv, NEW c \in Conns, Respond(c) PROVE StoreInv'
<1> USE DEF StoreInv
<1>1. CASE add_key(c)
  BY <1>1, AddStore
<1>2. CASE try_sign(c)
  <2>1. did' \in [Conns -> Doings] /\ signed_locked' \in BOOLEAN
    BY <1>2, DidType DEF try_sign, TypeClient, TypeServer, Doings
  <2>2. TypeClient' /\ task' \in [Conns -> Tasks']
    BY <1>2, <2>1, ReplyKeeps, ReplyTypes DEF try_sign, TypeClient, SignReply
  <2> QED
    BY <1>2, <2>1, <2>2, StoreKept DEF try_sign, Store
<1>3. CASE IdentitiesAnswer(c)
  <2>1. TypeClient' /\ task' \in [Conns -> Tasks']
    BY <1>3, ReplyKeeps, ReplyTypes DEF IdentitiesAnswer, TypeClient
  <2> QED
    BY <1>3, <2>1, StoreKept DEF IdentitiesAnswer, Store, TypeServer
<1>4. CASE remove_identity(c)
  <2>1. TypeClient' /\ task' \in [Conns -> Tasks']
    BY <1>4, ReplyKeeps, ReplyTypes DEF remove_identity, TypeClient
  <2>2. task[c].request.key \in Keys
    BY <1>4, AgreedRequest DEF remove_identity, RequestOK
  <2> QED
    BY <1>4, <2>1, <2>2, RemovalKeeps DEF remove_identity, TypeServer
<1>5. CASE RemoveAll(c)
  <2>1. TypeClient' /\ task' \in [Conns -> Tasks']
    BY <1>5, ReplyKeeps, ReplyTypes DEF RemoveAll, TypeClient
  <2> QED
    BY <1>5, <2>1, RemovalKeeps DEF RemoveAll, TypeServer
<1>6. CASE lock_agent(c)
  <2>1. TypeClient' /\ task' \in [Conns -> Tasks']
    BY <1>6, ReplyKeeps, ReplyTypes DEF lock_agent, TypeClient
  <2>2. lock' \in Seq(STRING)
    BY <1>6, AgreedRequest DEF lock_agent, RequestOK, TypeServer
  <2> QED
    BY <1>6, <2>1, <2>2 DEF lock_agent, TypeServer, TimersAreOwn, LifetimeHeld, KeyType,
       TimerType, OwnTimer
<1>7. CASE unlock_agent(c)
  <2>1. TypeClient' /\ task' \in [Conns -> Tasks']
    BY <1>7, ReplyKeeps, ReplyTypes DEF unlock_agent, TypeClient
  <2>2. lock' \in Seq(STRING)
    <3>1. <<>> \in Seq(STRING)
      OBVIOUS
    <3> QED
      BY <1>7, <3>1 DEF unlock_agent, TypeServer
  <2> QED
    BY <1>7, <2>1, <2>2 DEF unlock_agent, TypeServer, TimersAreOwn, LifetimeHeld, KeyType,
       TimerType, OwnTimer
<1> QED
  BY <1>1, <1>2, <1>3, <1>4, <1>5, <1>6, <1>7 DEF Respond

LEMMA RefuseStore == ASSUME StoreInv, NEW c \in Conns, Refuse(c) PROVE StoreInv'
<1>1. TypeClient' /\ task' \in [Conns -> Tasks']
  BY ReplyKeeps, ReplyTypes DEF Refuse, StoreInv, TypeClient
<1> QED
  BY <1>1, StoreKept DEF Refuse, Store, StoreInv, TypeServer

LEMMA StoreStep == StoreInv /\ [Next]_vars => StoreInv'
<1> SUFFICES ASSUME StoreInv, [Next]_vars PROVE StoreInv'
  OBVIOUS
<1>1. CASE UNCHANGED vars
  <2>1. Wire' = Wire /\ Tasks' = Tasks
    BY <1>1, WireKept DEF vars
  <2>2. TypeClient'
    BY <1>1, <2>1 DEF vars, StoreInv, TypeClient
  <2> QED
    BY <1>1, <2>1, <2>2, StoreKept DEF vars, StoreInv, TypeServer, Store
<1>2. CASE \E c \in Conns : Call(c) \/ ReadResponse(c) \/ Drop(c) \/ Serve(c)
  BY <1>2, CallStore, ReadStore, DropStore, RequestStore, RefuseStore, RespondStore DEF Serve
<1>3. CASE \E t \in timers : Expire(t)
  BY <1>3, ExpireStore, SMTT(60)
<1> QED
  BY <1>1, <1>2, <1>3 DEF Next

(* A key leaves the store with a client's removal or as a timer of its time fires. *)
LEMMA LeavesStep ==
  ASSUME StoreInv, [Next]_vars, NEW k \in Keys, keys[k] # Absent, keys'[k] = Absent
  PROVE  \/ \E c \in Conns : remove_identity(c) \/ RemoveAll(c)
         \/ keys[k].lifetime /\ Fires(OwnTimer(k))
         \/ \E t \in timers : Fires(t) /\ t.key = k /\ t.at = keys[k].at /\ t.of # keys[k].of
<1>1. keys'[k] # keys[k]
  OBVIOUS
<1>2. CASE \E t \in timers : Expire(t)
  <2>1. PICK t \in timers : Expire(t)
    BY <1>2
  <2>2. t.key \in Keys /\ t = Timer(t.key, t.at, t.of)
    BY DEF StoreInv, TypeServer, TimerType, Timer
  <2>3. t.key = k /\ keys[k].at = t.at
    BY <1>1, <2>1, <2>2 DEF Expire, StoreInv, TypeServer
  <2>4. Fires(t)
    BY <2>1 DEF Expire, Fires
  <2>5. CASE t.of = keys[k].of
    <3>1. t = OwnTimer(k) /\ keys[k].lifetime
      BY <2>2, <2>3, <2>5 DEF OwnTimer, StoreInv, TimersAreOwn
    <3> QED
      BY <2>4, <3>1 DEF Fires
  <2> QED
    BY <2>3, <2>4, <2>5
<1>3. CASE \E c \in Conns : add_key(c)
  <2>1. PICK c \in Conns : add_key(c)
    BY <1>3
  <2>2. task[c].request.key \in Keys
    BY <2>1, AgreedRequest DEF add_key, RequestOK
  <2>3. PICK at \in 1 .. now + 1 : keys'[k] = Stamp(task[c].request.constraints, at)
    BY <1>1, <2>1, <2>2 DEF add_key, StoreInv, TypeServer
  <2>4. at # 0
    BY DEF StoreInv, TypeServer
  <2> QED
    BY <2>3, <2>4 DEF Absent, Stamp
<1>4. CASE \E c \in Conns : remove_identity(c) \/ RemoveAll(c)
  BY <1>4
<1> QED
  BY <1>1, <1>2, <1>3, <1>4 DEF Next, vars, Serve, Respond, Call, ReadResponse, Drop,
     ReadRequest, Refuse, try_sign, IdentitiesAnswer, lock_agent, unlock_agent

(***************************************************************************)
(* add_key and the tasks it spawns: in every state a key with a lifetime   *)
(* has its own timer, and every key that leaves the store is removed by a  *)
(* client, or by its own timer as that goes off, or by the timer of an     *)
(* addition of the same key at the very same time; no timer of another     *)
(* time takes it away, whatever was added, removed and added again.        *)
(***************************************************************************)
THEOREM KeysLiveTheirTime == Spec => Lifetimes
<1>1. StoreInv /\ [Next]_vars =>
        [\A k \in Keys :
           keys[k] # Absent /\ keys'[k] = Absent =>
              \/ \E c \in Conns : remove_identity(c) \/ RemoveAll(c)
              \/ keys[k].lifetime /\ Fires(OwnTimer(k))
              \/ \E t \in timers : /\ Fires(t) /\ t.key = k
                                  /\ t.at = keys[k].at /\ t.of # keys[k].of]_vars
  BY LeavesStep
<1> QED
  BY <1>1, InitStore, StoreStep, StoreInvImplies, PTL DEF Spec, Lifetimes, LeavesInTime

-----------------------------------------------------------------------------
(* The dialogue of a client that counts its replies *)

(* A reply says what was done with the request. *)
Truthful(r, reply, what) ==
  /\ r.op = "add" /\ UnknownAt(r.constraints) = 0 =>
       \/ reply.first = "SUCCESS" /\ what = "stored"
       \/ reply.first = "FAILURE" /\ what = "nothing"
  /\ r.op \in SignOps =>
       \/ reply.first = "SIGN_RESPONSE" /\ what = "signed"
       \/ reply.first = "FAILURE" /\ what = "nothing"

(* So does the outcome of a call that has returned. *)
Reported(r, outcome, what) ==
  /\ r.op = "add" /\ UnknownAt(r.constraints) = 0 =>
       /\ outcome = "Ok" => what = "stored"
       /\ outcome = "AgentFailure" => what = "nothing"
  /\ r.op \in SignOps =>
       /\ outcome = "Ok" => what = "signed"
       /\ outcome = "AgentFailure" => what = "nothing"

(* The one request that is under way is the last one made. *)
Current(c) == setup.program[c][pc[c]]
Idle(c) ==
  /\ result[c] # "waiting" /\ requests[c] = <<>> /\ replies[c] = <<>> /\ task[c] = Reading
  /\ pc[c] > 0 => Reported(Current(c), result[c], did[c])
Sent(c) ==
  /\ requests[c] = <<Frame(Current(c))>> /\ replies[c] = <<>> /\ task[c] = Reading
  /\ did[c] = "nothing"
BeingServed(c) ==
  /\ requests[c] = <<>> /\ replies[c] = <<>> /\ task[c] = Asking(Current(c))
  /\ did[c] = "nothing"
Answered(c) ==
  /\ requests[c] = <<>> /\ task[c] = Reading
  /\ \E reply \in ReplyType :
        replies[c] = <<reply>> /\ Truthful(Current(c), reply, did[c])
Talk(c) ==
  \/ Idle(c)
  \/ result[c] = "waiting" /\ pc[c] > 0 /\ (Sent(c) \/ BeingServed(c) \/ Answered(c))
TalkInv == \A c \in Conns : InStep(c) => Talk(c)

LEMMA TalkImplies == StoreInv /\ TalkInv => OutcomeIsTrue
<1> SUFFICES ASSUME StoreInv, TalkInv, NEW c \in Conns, InStep(c), pc[c] > 0
             PROVE  Reported(Current(c), result[c], did[c])
  BY DEF OutcomeIsTrue, Reported, Current
<1> QED
  BY DEF TalkInv, Talk, Idle, Reported

LEMMA InitTalk == Init => TalkInv
BY SetupsAssumption DEF Init, TalkInv, Talk, Idle, Reading

(* The steps of the others and of the timers leave a dialogue alone. *)
Own(c) == <<setup, pc[c], result[c], requests[c], replies[c], task[c], did[c]>>

LEMMA TalkKept ==
  ASSUME NEW c \in Conns, UNCHANGED Own(c), InStep(c) => Talk(c)
  PROVE  InStep(c)' => Talk(c)'
BY DEF Own, InStep, Talk, Idle, Sent, BeingServed, Answered, Current

LEMMA CallTalk ==
  ASSUME StoreInv, TalkInv, NEW c \in Conns, Call(c), InStep(c)'
  PROVE  Talk(c)'
<1>1. pc'[c] = pc[c] + 1 /\ pc[c] \in Nat /\ UNCHANGED setup
  BY DEF Call, StoreInv, TypeClient
<1>2. InStep(c)
  BY <1>1 DEF InStep
<1>3. Idle(c)
  BY <1>2 DEF TalkInv, Talk, Call
<1>4. setup.program[c][pc[c] + 1].op \notin UnframedOps
  BY <1>1 DEF InStep
<1>5. requests'[c] = <<Frame(setup.program[c][pc[c] + 1])>>
  <2>1. requests'[c] = requests[c] \o Encoded(setup.program[c][pc[c] + 1])
    BY DEF Call, StoreInv, TypeClient
  <2>2. Encoded(setup.program[c][pc[c] + 1]) = <<Frame(setup.program[c][pc[c] + 1])>>
    BY <1>4 DEF Encoded
  <2> QED
    BY <2>1, <2>2, <1>3 DEF Idle
<1>6. Sent(c)'
  BY <1>1, <1>3, <1>5 DEF Sent, Idle, Call, Current, StoreInv, TypeClient
<1> QED
  BY <1>1, <1>6 DEF Talk, Call, StoreInv, TypeClient

LEMMA OutcomeTruthful ==
  ASSUME NEW r, NEW x, NEW what, Truthful(r, x, what)
  PROVE  Reported(r, Outcome(r, x), what)
<1>1. CASE r.op = "add"
  BY <1>1 DEF Truthful, Reported, Outcome, read_success, SignOps
<1>2. CASE r.op \in SignOps
  BY <1>2 DEF Truthful, Reported, Outcome, sign_request, write_signature,
     sign_request_base64, sign_request_signature, SignOps
<1> QED
  BY <1>1, <1>2 DEF Reported

LEMMA OutcomeReturns == \A r, x : Outcome(r, x) # "waiting"
BY DEF Outcome, read_success, sign_request, write_signature, sign_request_base64,
       sign_request_signature, request_identities, query_extension

LEMMA ReadTalk ==
  ASSUME StoreInv, TalkInv, NEW c \in Conns, ReadResponse(c), InStep(c)'
  PROVE  Talk(c)'
<1>1. UNCHANGED <<setup, pc, did, task, requests>> /\ InStep(c)
  BY DEF ReadResponse, InStep
<1>2. Answered(c) /\ pc[c] > 0
  BY <1>1 DEF TalkInv, Talk, Idle, Sent, BeingServed, ReadResponse
<1>3. PICK x \in ReplyType : replies[c] = <<x>> /\ Truthful(Current(c), x, did[c])
  BY <1>2 DEF Answered
<1>4. replies'[c] = <<>> /\ result'[c] = Outcome(Current(c), x)
  BY <1>3 DEF ReadResponse, Current, StoreInv, TypeClient
<1>5. Current(c)' = Current(c)
  BY <1>1 DEF Current
<1>6. Reported(Current(c), result'[c], did[c])
  BY <1>3, <1>4, OutcomeTruthful
<1>7. Idle(c)'
  BY <1>1, <1>2, <1>4, <1>5, <1>6, OutcomeReturns DEF Idle, Answered
<1> QED
  BY <1>7 DEF Talk

(* The reply a task gives to the request it is serving. *)
LEMMA ReplyTalk ==
  ASSUME StoreInv, NEW c \in Conns, result[c] = "waiting", pc[c] > 0, replies[c] = <<>>,
         requests'[c] = <<>>, NEW x \in ReplyType, Reply(c, x), UNCHANGED <<setup, pc, result>>,
         Truthful(Current(c), x, did'[c])
  PROVE  Talk(c)'
<1>1. replies'[c] = <<x>> /\ task'[c] = Reading
  BY DEF Reply, Reading, StoreInv, TypeClient, TypeServer
<1>2. Current(c)' = Current(c) /\ ReplyType' = ReplyType
  BY DEF Current, ReplyType
<1>3. Answered(c)'
  BY <1>1, <1>2 DEF Answered
<1> QED
  BY <1>3 DEF Talk

LEMMA FailedIsTrue == \A r : Truthful(r, Failed, "nothing")
BY DEF Truthful, Failed

LEMMA RequestTalk ==
  ASSUME StoreInv, TalkInv, NEW c \in Conns, ReadRequest(c), InStep(c)'
  PROVE  Talk(c)'
<1>1. UNCHANGED <<setup, pc, did, result>> /\ InStep(c)
  BY DEF ReadRequest, InStep
<1>2. Sent(c) /\ pc[c] > 0 /\ result[c] = "waiting"
  BY <1>1 DEF TalkInv, Talk, Idle, Answered, BeingServed, ReadRequest, Asking
<1>3. Head(requests[c]) = Frame(Current(c)) /\ requests'[c] = <<>>
  BY <1>2 DEF Sent, ReadRequest, StoreInv, TypeClient
<1>4. Head(requests[c]).type = "frame" /\ Head(requests[c]).request = Current(c)
  BY <1>3 DEF Frame
<1>5. \/ Reply(c, Failed)
      \/ task' = [task EXCEPT ![c] = Asking(Current(c))] /\ UNCHANGED replies
  BY <1>4 DEF ReadRequest, Asking
<1>6. CASE Reply(c, Failed)
  BY <1>1, <1>2, <1>3, <1>6, ReplyTalk, FailedIsTrue, ReplyTypes DEF Sent
<1>7. CASE task' = [task EXCEPT ![c] = Asking(Current(c))] /\ UNCHANGED replies
  <2>1. Current(c)' = Current(c) /\ task'[c] = Asking(Current(c))
    BY <1>1, <1>7 DEF Current, StoreInv, TypeServer
  <2>2. BeingServed(c)'
    BY <1>1, <1>2, <1>3, <1>7, <2>1 DEF Sent, BeingServed
  <2> QED
    BY <1>1, <1>2, <2>2 DEF Talk
<1> QED
  BY <1>5, <1>6, <1>7

(* The task of a client that counts its replies serves the current request. *)
LEMMA ServedRequest ==
  ASSUME TalkInv, NEW c \in Conns, InStep(c), task[c].state = "asking"
  PROVE  /\ task[c].request = Current(c) /\ requests[c] = <<>> /\ replies[c] = <<>>
         /\ pc[c] > 0 /\ result[c] = "waiting" /\ did[c] = "nothing"
<1>1. task[c] # Reading
  BY DEF Reading
<1>2. BeingServed(c) /\ result[c] = "waiting" /\ pc[c] > 0
  BY <1>1 DEF TalkInv, Talk, Idle, Sent, Answered
<1>3. Asking(Current(c)).request = Current(c)
  BY DEF Asking
<1> QED
  BY <1>2, <1>3 DEF BeingServed

LEMMA DidCurrent ==
  ASSUME TypeClient, NEW c \in Conns, NEW what, pc[c] > 0, Did(c, Current(c), what)
  PROVE  did'[c] = what
BY DEF Did, Current, TypeClient

LEMMA RespondTalk ==
  ASSUME StoreInv, TalkInv, NEW c \in Conns, Refuse(c) \/ Respond(c), InStep(c)'
  PROVE  Talk(c)'
<1>1. UNCHANGED <<setup, pc, result, requests>> /\ task[c].state = "asking"
  BY DEF Refuse, Respond, add_key, try_sign, IdentitiesAnswer, remove_identity, RemoveAll,
         lock_agent, unlock_agent, Agreed
<1>2. InStep(c)
  BY <1>1 DEF InStep
<1>3. /\ task[c].request = Current(c) /\ requests[c] = <<>> /\ replies[c] = <<>>
      /\ pc[c] > 0 /\ result[c] = "waiting" /\ did[c] = "nothing"
  BY <1>1, <1>2, ServedRequest
<1>4. SUFFICES \E x \in ReplyType : Reply(c, x) /\ Truthful(Current(c), x, did'[c])
  BY <1>1, <1>3, ReplyTalk
<1>5. CASE Refuse(c)
  BY <1>3, <1>5, FailedIsTrue, ReplyTypes DEF Refuse
<1>6. CASE add_key(c)
  <2>1. Current(c).op = "add"
    BY <1>3, <1>6 DEF add_key, Agreed
  <2>2. Did(c, Current(c), IF UnknownAt(Current(c).constraints) # 0 THEN "refused" ELSE "stored")
    BY <1>3, <1>6 DEF add_key
  <2>3. UnknownAt(Current(c).constraints) = 0 => did'[c] = "stored"
    BY <1>3, <2>2, DidCurrent DEF StoreInv
  <2> QED
    BY <1>6, <2>1, <2>3, ReplyTypes DEF add_key, Truthful, Succeeded, SignOps
<1>7. CASE try_sign(c)
  <2>1. Current(c).op \in SignOps
    BY <1>3, <1>7 DEF try_sign, Agreed
  <2>2. CASE Reply(c, Failed) /\ UNCHANGED did
    BY <1>3, <2>2, FailedIsTrue, ReplyTypes
  <2>3. CASE Reply(c, SignReply) /\ Did(c, Current(c), "signed")
    <3>1. did'[c] = "signed"
      BY <1>3, <2>3, DidCurrent DEF StoreInv
    <3> QED
      BY <2>1, <2>3, <3>1, ReplyTypes DEF Truthful, SignReply, SignOps
  <2> QED
    BY <1>3, <1>7, <2>2, <2>3 DEF try_sign, SignReply
<1>8. CASE IdentitiesAnswer(c)
  BY <1>3, <1>8, ReplyTypes DEF IdentitiesAnswer, Agreed, Truthful, SignOps
<1>9. CASE remove_identity(c)
  BY <1>3, <1>9, ReplyTypes DEF remove_identity, Agreed, Truthful, SignOps
<1>10. CASE RemoveAll(c)
  BY <1>3, <1>10, ReplyTypes DEF RemoveAll, Agreed, Truthful, SignOps
<1>11. CASE lock_agent(c)
  BY <1>3, <1>11, ReplyTypes DEF lock_agent, Agreed, Truthful, SignOps
<1>12. CASE unlock_agent(c)
  BY <1>3, <1>12, ReplyTypes DEF unlock_agent, Agreed, Truthful, SignOps
<1> QED
  BY <1>5, <1>6, <1>7, <1>8, <1>9, <1>10, <1>11, <1>12 DEF Respond

LEMMA DropTalk ==
  ASSUME NEW c \in Conns, Drop(c), InStep(c)' PROVE Talk(c)'
BY DEF Drop, InStep

LEMMA OthersTalk ==
  ASSUME StoreInv, NEW c \in Conns, NEW d \in Conns, c # d,
         Call(d) \/ ReadResponse(d) \/ Drop(d) \/ Serve(d)
  PROVE  UNCHANGED Own(c)
<1>1. UNCHANGED <<setup, pc[c], result[c], requests[c]>>
  BY SMTT(60) DEF StoreInv, TypeClient, Serve, Respond, Call, ReadResponse, Drop, ReadRequest, Refuse,
         add_key, try_sign, IdentitiesAnswer, remove_identity, RemoveAll, lock_agent,
         unlock_agent
<1>2. UNCHANGED did[c]
  BY SMTT(60) DEF StoreInv, TypeClient, Serve, Respond, Call, ReadResponse, Drop, ReadRequest, Refuse,
         add_key, try_sign, IdentitiesAnswer, remove_identity, RemoveAll, lock_agent,
         unlock_agent, Did
<1>3. ASSUME NEW x, Reply(d, x) PROVE UNCHANGED <<replies[c], task[c]>>
  BY <1>3 DEF Reply, StoreInv, TypeClient, TypeServer
<1>4. UNCHANGED <<replies[c], task[c]>>
  <2>1. CASE Call(d) \/ ReadResponse(d) \/ Drop(d)
    BY <2>1 DEF Call, ReadResponse, Drop, StoreInv, TypeClient
  <2>2. CASE ReadRequest(d)
    <3>1. Head(requests[d]) \in Wire
      BY <2>2 DEF ReadRequest, StoreInv, TypeClient
    <3> QED
      BY <2>2, <3>1, <1>3, WireTypes DEF ReadRequest, StoreInv, TypeServer
  <2>3. CASE Refuse(d) \/ Respond(d)
    BY <2>3, <1>3 DEF Refuse, Respond, add_key, try_sign, IdentitiesAnswer, remove_identity,
       RemoveAll, lock_agent, unlock_agent
  <2> QED
    BY <2>1, <2>2, <2>3 DEF Serve
<1> QED
  BY <1>1, <1>2, <1>4, SMTT(60) DEF Own

LEMMA TalkStep == StoreInv /\ TalkInv /\ [Next]_vars => TalkInv'
<1> SUFFICES ASSUME StoreInv, TalkInv, [Next]_vars, NEW c \in Conns, InStep(c)'
             PROVE  Talk(c)'
  BY DEF TalkInv
<1>1. CASE UNCHANGED Own(c)
  BY <1>1, TalkKept DEF TalkInv
<1>2. CASE UNCHANGED vars \/ \E t \in timers : Expire(t)
  BY <1>1, <1>2 DEF vars, Expire, Own
<1>3. CASE \E d \in Conns : Call(d) \/ ReadResponse(d) \/ Drop(d) \/ Serve(d)
  <2>1. PICK d \in Conns : Call(d) \/ ReadResponse(d) \/ Drop(d) \/ Serve(d)
    BY <1>3
  <2>2. CASE c # d
    BY <1>1, <2>1, <2>2, OthersTalk
  <2>3. CASE c = d
    BY <2>1, <2>3, CallTalk, ReadTalk, DropTalk, RequestTalk, RespondTalk DEF Serve
  <2> QED
    BY <2>2, <2>3
<1> QED
  BY <1>2, <1>3 DEF Next

(***************************************************************************)
(* AgentClient::add_identity and sign_request against Connection::respond: *)
(* what a client that counts its replies is told is what the agent did     *)
(* with that very request, whatever the other connections and the timers   *)
(* do while the task awaits confirm_request.                               *)
(***************************************************************************)
THEOREM OutcomesAreTrue == Spec => []OutcomeIsTrue
<1>1. Init => StoreInv /\ TalkInv
  BY InitStore, InitTalk
<1>2. StoreInv /\ TalkInv /\ [Next]_vars => StoreInv' /\ TalkInv'
  BY StoreStep, TalkStep
<1> QED
  BY <1>1, <1>2, TalkImplies, PTL DEF Spec

=============================================================================
