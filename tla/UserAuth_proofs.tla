-------------------------- MODULE UserAuth_proofs --------------------------
(***************************************************************************)
(* Proofs about UserAuth, for any users, attempts, method sets and numbers *)
(* of calls: its types, that no decision passes from one user to another,  *)
(* that the two state machines implement AuthService, and that a caller    *)
(* which drops no call is given the replies to its own call.               *)
(***************************************************************************)
EXTENDS UserAuth, SequenceTheorems, TLAPS

Command ==
  [type : {"Authenticate"}, method : Method]
    \cup [type : {"AuthInfoResponse"}, good : BOOLEAN]
    \cup [type : {"Signed"}, modified : BOOLEAN]
ReplyKind == {"AuthSuccess", "AuthFailure", "AuthInfoRequest", "SignRequest"}
CallerType ==
  [at : {"idle", "wait", "challenge", "sign"}, method : Method \cup {NoMethod}]
ClientType ==
  [state : {"service", "request", "authenticated"}, sent : BOOLEAN,
   accepted : BOOLEAN, method : Method \cup {NoMethod},
   current : {"none", "keyboard"}, waits : {"no", "responses", "signed"}]
ServerType ==
  [state : {"service", "request", "init", "authenticated"},
   user : Users \cup {NoUser}, methods : SUBSET MethodKinds, partial : BOOLEAN,
   current : {"none", "keyboard", "publickey"}, asker : Users \cup {NoUser},
   attempts : Nat, rejections : Nat]

TypeCaller ==
  /\ peer \in Clients /\ caller \in CallerType /\ told \in {"nothing", "failure", "success"}
  /\ cmds \in Seq(Command) /\ replies \in Seq(ReplyKind)
(* A client that waits for a signature knows with which key. *)
TypeClient ==
  /\ client \in ClientType /\ c2s \in Seq(ClientPacket)
  /\ client.waits = "signed" => client.method \in Method
(* A conversation is with the user it was opened for, and a decision closes *)
(* it; a key is granted to the user of the conversation.                    *)
Ours(sv) ==
  /\ sv \in ServerType
  /\ sv.current # "none" => sv.user = sv.asker /\ sv.user \in Users
Granted == [kind : Kinds, user : Users, cred : {"good"}]
TypeServer ==
  /\ Ours(server) /\ s2c \in Seq(ServerPacket)
  /\ IF server.state \in {"service", "request"} THEN granted = NoMethod
     ELSE granted \in Granted /\ (granted.kind \in KeyKinds => granted.user = server.asker)
TypeRest == ignored \in BOOLEAN /\ down \in [client : Endings, server : Endings]

TypeInv == TypeCaller /\ TypeClient /\ TypeServer /\ TypeRest

LEMMA TypeInvImplies == TypeInv => TypeOK
BY DEF TypeInv, TypeCaller, TypeClient, TypeServer, TypeRest, TypeOK, CallerType, ClientType,
       ServerType, ReplyKind, Ours, Granted, Method

-----------------------------------------------------------------------------
(* Packets and queues *)

LEMMA HeadTailType ==
  ASSUME NEW S, NEW q \in Seq(S), q # <<>>
  PROVE  Head(q) \in S /\ Tail(q) \in Seq(S)
OBVIOUS

LEMMA AppendType ==
  ASSUME NEW S, NEW q \in Seq(S), NEW e \in S
  PROVE  Append(q, e) \in Seq(S)
OBVIOUS

LEMMA ConcatType ==
  ASSUME NEW S, NEW q \in Seq(S), NEW r \in Seq(S)
  PROVE  q \o r \in Seq(S)
OBVIOUS

LEMMA NoMethodIsNone ==
  /\ NoMethod \notin Method /\ NoMethod.kind \notin Kinds
  /\ \A m \in Method \cup {NoMethod} : m.kind \in Kinds => m \in Method
<1>1. NoMethod.kind \notin Kinds
  BY DEF NoMethod, Kinds
<1>2. \A m \in Method : m.kind \in Kinds
  BY DEF Method
<1> QED
  BY <1>1, <1>2

LEMMA RequestType ==
  ASSUME NEW m \in Method, NEW real \in BOOLEAN, NEW sig \in BOOLEAN
  PROVE  Request(m, real, sig) \in ClientPacket
BY DEF Request, ClientPacket

LEMMA ClientPacketTypes ==
  /\ Plain("SERVICE_REQUEST") \in ClientPacket /\ Plain("CHANNEL_OPEN") \in ClientPacket
  /\ \A good \in BOOLEAN : InfoResponse(good) \in ClientPacket
BY DEF Plain, InfoResponse, ClientPacket

LEMMA ClientPacketFields ==
  ASSUME NEW p \in ClientPacket
  PROVE  /\ p.type = "USERAUTH_REQUEST" =>
              p.method \in Method /\ p.real \in BOOLEAN /\ p.sig \in BOOLEAN
         /\ p.type = "USERAUTH_INFO_RESPONSE" => p.good \in BOOLEAN
BY DEF ClientPacket

LEMMA CommandFields ==
  ASSUME NEW c \in Command
  PROVE  /\ c.type = "Authenticate" => c.method \in Method
         /\ c.type = "AuthInfoResponse" => c.good \in BOOLEAN
         /\ c.type = "Signed" => c.modified \in BOOLEAN
BY DEF Command

LEMMA ServerPacketTypes ==
  /\ \A t \in {"SERVICE_ACCEPT", "USERAUTH_BANNER", "USERAUTH_SUCCESS", "USERAUTH_PK_OK",
               "USERAUTH_INFO_REQUEST"} : Plain(t) \in ServerPacket
  /\ \A ms \in SUBSET MethodKinds, partial \in BOOLEAN : Failure(ms, partial) \in ServerPacket
BY DEF Plain, Failure, ServerPacket

LEMMA CurrentType == \A m \in Method : CurrentOf(m) \in {"none", "keyboard"}
BY DEF CurrentOf

-----------------------------------------------------------------------------
(* Type correctness: the caller and the client *)

LEMMA InitType == Init => TypeInv
<1> SUFFICES ASSUME Init PROVE TypeInv
  OBVIOUS
<1> USE AuthAssumption
<1>1. TypeCaller
  BY DEF Init, TypeCaller, CallerType
<1>2. TypeClient
  BY DEF Init, TypeClient, ClientType
<1>3. TypeServer
  BY DEF Init, TypeServer, ServerType, Ours
<1>4. TypeRest
  BY DEF Init, TypeRest, Endings
<1> QED
  BY <1>1, <1>2, <1>3, <1>4 DEF TypeInv

LEMMA CallerTypeStep ==
  ASSUME TypeInv, CallerStep PROVE TypeInv'
<1> USE AuthAssumption DEF TypeInv
<1>1. ASSUME NEW m \in Attempts, Authenticate(m) \/ AuthenticateWithKey(m) PROVE TypeInv'
  <2>1. m \in Method /\ [type |-> "Authenticate", method |-> m] \in Command
    BY DEF Command
  <2> Starts(m)
    BY <1>1 DEF Authenticate, AuthenticateWithKey
  <2>a. cmds' \in Seq(Command)
    BY <2>1, AppendType DEF Starts, Calling, TypeCaller
  <2>b. caller' \in CallerType
    BY <2>1 DEF Starts, Calling, CallerType
  <2>2. TypeCaller'
    BY <2>a, <2>b DEF Starts, Calling, TypeCaller
  <2>3. TypeClient' /\ TypeServer' /\ TypeRest'
    BY DEF Starts, TypeClient, TypeServer, TypeRest
  <2> QED
    BY <2>2, <2>3
<1>2. ASSUME NEW good \in BOOLEAN, Respond(good) PROVE TypeInv'
  <2>1. [type |-> "AuthInfoResponse", good |-> good] \in Command
    BY DEF Command
  <2>2. TypeCaller'
    BY <1>2, <2>1 DEF Respond, Calling, TypeCaller, CallerType
  <2>3. TypeClient' /\ TypeServer' /\ TypeRest'
    BY <1>2 DEF Respond, TypeClient, TypeServer, TypeRest
  <2> QED
    BY <2>2, <2>3
<1>3. ASSUME NEW r \in {"signed", "unsigned", "fails"}, Sign(r) PROVE TypeInv'
  <2>1. [type |-> "Signed", modified |-> r = "signed"] \in Command
    BY DEF Command
  <2>a. cmds' \in Seq(Command)
    BY <1>3, <2>1, AppendType, SMTT(60) DEF Sign, Calling, TypeCaller
  <2>b. caller' \in CallerType
    BY <1>3 DEF Sign, Calling, TypeCaller, CallerType
  <2>2. TypeCaller'
    BY <1>3, <2>a, <2>b DEF Sign, TypeCaller
  <2>3. TypeClient' /\ TypeServer' /\ TypeRest'
    BY <1>3 DEF Sign, TypeClient, TypeServer, TypeRest
  <2> QED
    BY <2>2, <2>3
<1>4. ASSUME TakeReply \/ TakeKeyboardReply \/ TakeSignReply PROVE TypeInv'
  <2>1. PICK q \in {"none", "AuthInfoRequest", "SignRequest"},
             at \in {"wait", "challenge", "sign"} : Take(q, at)
    BY <1>4 DEF TakeReply, TakeKeyboardReply, TakeSignReply
  <2>2. TypeCaller'
    BY <2>1, SMTT(60) DEF Take, TypeCaller, CallerType
  <2>3. TypeClient' /\ TypeServer' /\ TypeRest'
    BY <2>1 DEF Take, TypeClient, TypeServer, TypeRest
  <2> QED
    BY <2>2, <2>3
<1>5. ASSUME CallEnds \/ Cancel PROVE TypeInv'
  <2>1. TypeCaller'
    BY <1>5 DEF CallEnds, Cancel, TypeCaller, CallerType
  <2>2. TypeClient' /\ TypeServer' /\ TypeRest'
    BY <1>5 DEF CallEnds, Cancel, TypeClient, TypeServer, TypeRest
  <2> QED
    BY <2>1, <2>2
<1> QED
  BY <1>1, <1>2, <1>3, <1>4, <1>5 DEF CallerStep

LEMMA WriteType ==
  ASSUME TypeInv, NEW m \in Method, write_auth_request_if_needed(m)
  PROVE  client' \in ClientType /\ c2s' \in Seq(ClientPacket)
           /\ (client.waits = "no" => client'.waits = "no")
<1> DEFINE waiting == client.state = "request" \/ (client.state = "service" /\ client.accepted)
           asks == client.state = "service" /\ ~client.sent
           first == IF asks THEN <<Plain("SERVICE_REQUEST")>> ELSE <<>>
           second == IF waiting THEN <<write_auth_request(m)>> ELSE <<>>
<1>1. first \in Seq(ClientPacket)
  BY ClientPacketTypes
<1>2. write_auth_request(m) \in ClientPacket
  BY RequestType DEF write_auth_request
<1>3. second \in Seq(ClientPacket)
  BY <1>2
<1>4. c2s' = (c2s \o first) \o second
  BY DEF write_auth_request_if_needed
<1>5. c2s' \in Seq(ClientPacket)
  <2> HIDE DEF first, second
  <2>1. c2s \o first \in Seq(ClientPacket)
    BY <1>1, ConcatType DEF TypeInv, TypeClient
  <2> QED
    BY <1>3, <1>4, <2>1, ConcatType
<1>6. client' \in ClientType /\ (client.waits = "no" => client'.waits = "no")
  BY CurrentType, ZenonT(60) DEF write_auth_request_if_needed, TypeInv, TypeClient, ClientType
<1> QED
  BY <1>5, <1>6

LEMMA HandleType ==
  ASSUME TypeInv, HandleAuthenticate PROVE TypeInv'
<1> USE DEF TypeInv
<1>1. Head(cmds) \in Command /\ cmds' \in Seq(Command)
  BY HeadTailType DEF HandleAuthenticate, TypeCaller
<1>2. TypeCaller' /\ TypeServer' /\ TypeRest'
  BY <1>1 DEF HandleAuthenticate, callVars, TypeCaller, TypeServer, TypeRest
<1>3. TypeClient'
  <2>1. CASE Head(cmds).type = "Authenticate"
    <3>1. Head(cmds).method \in Method /\ write_auth_request_if_needed(Head(cmds).method)
      BY <1>1, <2>1, CommandFields DEF HandleAuthenticate
    <3> QED
      BY <3>1, WriteType DEF HandleAuthenticate, TypeClient
  <2>2. CASE Head(cmds).type # "Authenticate"
    BY <2>2 DEF HandleAuthenticate, TypeClient
  <2> QED
    BY <2>1, <2>2
<1> QED
  BY <1>2, <1>3

LEMMA WaitType ==
  ASSUME TypeInv, WaitInPlace PROVE TypeInv'
<1> USE DEF TypeInv
<1> DEFINE c == Head(cmds)
<1>1. c \in Command /\ cmds' \in Seq(Command)
  BY HeadTailType DEF WaitInPlace, TypeCaller
<1>2. TypeCaller' /\ TypeServer'
  BY <1>1 DEF WaitInPlace, callVars, TypeCaller, TypeServer
<1>3. TypeClient' /\ TypeRest'
  <2>1. CASE client.waits = "responses" /\ c.type = "AuthInfoResponse"
    <3>1. InfoResponse(c.good) \in ClientPacket
      BY <1>1, <2>1, CommandFields, ClientPacketTypes
    <3>2. c2s' = Append(c2s, InfoResponse(c.good)) /\ client' = [client EXCEPT !.waits = "no"]
            /\ UNCHANGED <<ignored, down>>
      BY <2>1 DEF WaitInPlace, client_send_auth_response
    <3> QED
      BY <3>1, <3>2, AppendType DEF TypeClient, ClientType, TypeRest
  <2>2. CASE client.waits = "signed" /\ c.type = "Signed"
    <3>1. c.modified \in BOOLEAN /\ client_send_signature(client.method) \in ClientPacket
      BY <1>1, <2>2, CommandFields, RequestType DEF TypeClient, client_send_signature
    <3>2. /\ c2s' = IF c.modified THEN Append(c2s, client_send_signature(client.method)) ELSE c2s
          /\ client' = [client EXCEPT !.waits = "no", !.method = NoMethod]
          /\ ignored' = (ignored \/ ~c.modified) /\ down' = down
      BY <2>2 DEF WaitInPlace
    <3>3. TypeClient'
      BY <3>1, <3>2, AppendType DEF TypeClient, ClientType
    <3>4. TypeRest'
      BY <3>1, <3>2 DEF TypeRest
    <3> QED
      BY <3>3, <3>4
  <2>3. CASE ~(client.waits = "responses" /\ c.type = "AuthInfoResponse")
               /\ ~(client.waits = "signed" /\ c.type = "Signed")
    BY <2>3 DEF WaitInPlace, TypeClient, TypeRest
  <2> QED
    BY <2>1, <2>2, <2>3
<1> QED
  BY <1>2, <1>3

LEMMA ClientReadsType ==
  ASSUME TypeInv, ClientReads PROVE TypeInv'
<1> USE DEF TypeInv
<1> DEFINE p == Head(s2c)
<1>1. p \in ServerPacket /\ s2c' \in Seq(ServerPacket)
  BY HeadTailType DEF ClientReads, TypeServer
<1>2. TypeServer'
  BY <1>1 DEF ClientReads, TypeServer
<1>3. /\ peer' = peer /\ caller' = caller /\ told' = told /\ cmds' = cmds /\ ignored' = ignored
      /\ client.waits = "no"
  BY DEF ClientReads, callVars
<1>4. /\ replies' \in Seq(ReplyKind) /\ client' \in ClientType /\ c2s' \in Seq(ClientPacket)
      /\ down' \in [client : Endings, server : Endings]
      /\ client'.waits = "signed" => client'.method \in Method
  <2>0. /\ replies \in Seq(ReplyKind) /\ client \in ClientType /\ c2s \in Seq(ClientPacket)
        /\ down \in [client : Endings, server : Endings]
    BY DEF TypeCaller, TypeClient, TypeRest
  <2>1. CASE client.state = "service"
    <3>1. ReadServiceAccept(p)
      BY <2>1 DEF ClientReads
    <3>2. replies' \in Seq(ReplyKind) /\ down' \in [client : Endings, server : Endings]
      BY <2>0, <3>1 DEF ReadServiceAccept, ClientDies, Endings
    <3>3. client.method # NoMethod => client.method \in Method
      BY <2>0 DEF ClientType
    <3>4. client' \in ClientType /\ client'.waits = client.waits
      BY <2>0, <3>1, <3>3, CurrentType, ZenonT(60) DEF ReadServiceAccept, ClientType
    <3>5. client.method # NoMethod => write_auth_request(client.method) \in ClientPacket
      BY <3>3, RequestType DEF write_auth_request
    <3>6. c2s' \in Seq(ClientPacket)
      BY <2>0, <3>1, <3>5, AppendType, SMTT(60) DEF ReadServiceAccept
    <3> QED
      BY <1>3, <3>2, <3>4, <3>6
  <2>2. CASE client.state = "request"
    <3>0. ReadAuthReply(p)
      BY <2>2 DEF ClientReads
    <3>1. CASE p.type = "USERAUTH_SUCCESS"
      <4>1. /\ replies' = Append(replies, "AuthSuccess")
            /\ client' = [client EXCEPT !.state = "authenticated"] /\ UNCHANGED <<c2s, down>>
        BY <3>0, <3>1 DEF ReadAuthReply
      <4>2. replies' \in Seq(ReplyKind)
        BY <2>0, <4>1, AppendType DEF ReplyKind
      <4> QED
        BY <1>3, <2>0, <4>1, <4>2 DEF ClientType
    <3>2. CASE p.type = "USERAUTH_BANNER"
      BY <1>3, <2>0, <3>0, <3>2 DEF ReadAuthReply
    <3>3. CASE p.type = "USERAUTH_FAILURE"
      <4>1. /\ replies' = Append(replies, "AuthFailure")
            /\ client' = [client EXCEPT !.method = NoMethod] /\ UNCHANGED c2s
            /\ ClientDies("NoAuthMethod") \/ UNCHANGED down
        BY <3>0, <3>3 DEF ReadAuthReply
      <4>2. replies' \in Seq(ReplyKind) /\ down' \in [client : Endings, server : Endings]
        BY <2>0, <4>1, AppendType DEF ClientDies, Endings, ReplyKind
      <4> QED
        BY <1>3, <2>0, <4>1, <4>2 DEF ClientType
    <3>4. CASE p.type \in {"USERAUTH_PK_OK", "USERAUTH_INFO_REQUEST"}
      <4>1. ReadInfoRequestOrPkOk(p)
        BY <3>0, <3>4 DEF ReadAuthReply
      <4>2. CASE client.current = "keyboard" /\ p.type = "USERAUTH_INFO_REQUEST"
        <5>1. /\ replies' = Append(replies, "AuthInfoRequest")
              /\ client' = [client EXCEPT !.waits = "responses"] /\ UNCHANGED <<c2s, down>>
          BY <4>1, <4>2 DEF ReadInfoRequestOrPkOk
        <5>2. replies' \in Seq(ReplyKind)
          BY <2>0, <5>1, AppendType DEF ReplyKind
        <5> QED
          BY <2>0, <5>1, <5>2 DEF ClientType
      <4>3. CASE client.current = "keyboard" /\ p.type = "USERAUTH_PK_OK"
        BY <1>3, <2>0, <4>1, <4>3 DEF ReadInfoRequestOrPkOk, ClientDies, Endings
      <4>4. CASE client.current # "keyboard" /\ client.method.kind \in {"publickey", "cert"}
        <5>1. client.method \in Method
          BY <2>0, <4>4, NoMethodIsNone DEF ClientType, Kinds
        <5>2. client_send_signature(client.method) \in ClientPacket
          BY <5>1, RequestType DEF client_send_signature
        <5>3. /\ c2s' = Append(c2s, client_send_signature(client.method))
              /\ client' = [client EXCEPT !.method = NoMethod] /\ UNCHANGED <<replies, down>>
          BY <4>1, <4>4 DEF ReadInfoRequestOrPkOk
        <5> QED
          BY <1>3, <2>0, <5>2, <5>3, AppendType DEF ClientType
      <4>5. CASE client.current # "keyboard" /\ client.method.kind = "future"
        <5>1. client.method \in Method
          BY <2>0, <4>5, NoMethodIsNone DEF ClientType, Kinds
        <5>2. /\ replies' = Append(replies, "SignRequest")
              /\ client' = [client EXCEPT !.waits = "signed"] /\ UNCHANGED <<c2s, down>>
          BY <4>1, <4>5 DEF ReadInfoRequestOrPkOk
        <5> QED
          BY <2>0, <5>1, <5>2, AppendType DEF ClientType, ReplyKind
      <4>6. CASE /\ client.current # "keyboard"
                 /\ client.method.kind \notin {"publickey", "cert", "future"}
        BY <1>3, <2>0, <4>1, <4>6 DEF ReadInfoRequestOrPkOk, ClientType
      <4> QED
        BY <3>4, <4>2, <4>3, <4>4, <4>5, <4>6
    <3>5. CASE p.type = "SERVICE_ACCEPT"
      BY <1>3, <2>0, <3>0, <3>5 DEF ReadAuthReply, ClientDies, Endings
    <3> QED
      BY <1>1, <3>1, <3>2, <3>3, <3>4, <3>5 DEF ServerPacket
  <2>3. CASE client.state \notin {"service", "request"}
    BY <1>3, <2>0, <2>3 DEF ClientReads
  <2> QED
    BY <2>1, <2>2, <2>3
<1>5. TypeCaller' /\ TypeClient' /\ TypeRest'
  BY <1>3, <1>4 DEF TypeCaller, TypeClient, TypeRest
<1> QED
  BY <1>2, <1>5
-----------------------------------------------------------------------------
(* Type correctness: the server.  A message is refused, or answered with a *)
(* question, or granted.                                                   *)

Quiet == {p \in ServerPacket : p.type # "USERAUTH_SUCCESS"}
Asked(sv) == sv \in ServerType /\ sv.state = "request"
Refuses ==
  /\ Ours(server') /\ server'.state = "request" /\ granted' = granted
  /\ s2c' \in Seq(ServerPacket) /\ (s2c \in Seq(Quiet) => s2c' \in Seq(Quiet))
Grants ==
  /\ Ours(server') /\ server'.state = "init" /\ granted' \in Granted
  /\ granted'.kind \in KeyKinds => granted'.user = server'.asker
  /\ s2c' \in Seq(ServerPacket)
Decides == Refuses \/ Grants

LEMMA QuietPackets ==
  /\ \A t \in {"SERVICE_ACCEPT", "USERAUTH_BANNER", "USERAUTH_PK_OK", "USERAUTH_INFO_REQUEST"} :
       Plain(t) \in Quiet
  /\ \A ms \in SUBSET MethodKinds, partial \in BOOLEAN : Failure(ms, partial) \in Quiet
BY ServerPacketTypes DEF Quiet, Plain, Failure

LEMMA AnswerQuiet ==
  ASSUME s2c \in Seq(ServerPacket), NEW packets \in Seq(Quiet), s2c' = s2c \o packets
  PROVE  s2c' \in Seq(ServerPacket) /\ (s2c \in Seq(Quiet) => s2c' \in Seq(Quiet))
<1>1. packets \in Seq(ServerPacket)
  BY DEF Quiet
<1> QED
  BY <1>1, ConcatType

LEMMA RejectStep ==
  ASSUME NEW sv, Asked(sv), s2c \in Seq(ServerPacket), reject_auth_request(sv)
  PROVE  Refuses
<1>1. Failure(sv.methods, sv.partial) \in Quiet
  BY QuietPackets DEF Asked, ServerType
<1>2. <<Failure(sv.methods, sv.partial)>> \in Seq(Quiet)
  BY <1>1
<1>3. s2c' \in Seq(ServerPacket) /\ (s2c \in Seq(Quiet) => s2c' \in Seq(Quiet))
  BY <1>2, AnswerQuiet DEF reject_auth_request, Answers
<1>4. server' = [sv EXCEPT !.current = "none", !.rejections = @ + 1] /\ granted' = granted
  BY DEF reject_auth_request, Answers
<1>5. Ours(server') /\ server'.state = "request"
  <2>1. sv.rejections + 1 \in Nat
    BY DEF Asked, ServerType
  <2>2. server' \in ServerType /\ server'.current = "none" /\ server'.state = "request"
    BY <1>4, <2>1 DEF Asked, ServerType
  <2> QED
    BY <2>2 DEF Ours
<1> QED
  BY <1>3, <1>4, <1>5 DEF Refuses

LEMMA GrantStep ==
  ASSUME NEW sv, Asked(sv), s2c \in Seq(ServerPacket), NEW m \in Granted,
         m.kind \in KeyKinds => m.user = sv.asker, server_auth_request_success(sv, m)
  PROVE  Grants
<1>1. <<Plain("USERAUTH_SUCCESS")>> \in Seq(ServerPacket)
  BY ServerPacketTypes
<1>2. s2c' \in Seq(ServerPacket)
  BY <1>1, ConcatType DEF server_auth_request_success, Answers
<1>3. server' = [sv EXCEPT !.state = "init", !.current = "none"] /\ granted' = m
  BY DEF server_auth_request_success, Answers
<1>4. Ours(server') /\ server'.state = "init" /\ server'.asker = sv.asker
  BY <1>3 DEF Asked, Ours, ServerType
<1> QED
  BY <1>2, <1>3, <1>4 DEF Grants

LEMMA MethodsAfterType ==
  ASSUME NEW v \in Rejections, NEW ms \in SUBSET MethodKinds
  PROVE  MethodsAfter(v, ms) \in SUBSET MethodKinds /\ v.partial \in BOOLEAN
BY AuthAssumption DEF MethodsAfter, Rejections

LEMMA AcceptedIsGranted ==
  ASSUME NEW m \in Method, Accepts(m) PROVE m \in Granted
BY DEF Method, Accepts, Granted

(* A rejection by the Handler, which forgets the user. *)
LEMMA ForgetStep ==
  ASSUME NEW sv, Asked(sv), s2c \in Seq(ServerPacket),
         NEW v \in Rejections, NEW ms \in SUBSET MethodKinds,
         reject_auth_request([sv EXCEPT !.user = NoUser, !.partial = FALSE,
                                        !.methods = MethodsAfter(v, ms)])
  PROVE  Refuses
<1>1. MethodsAfter(v, ms) \in SUBSET MethodKinds
  BY MethodsAfterType
<1>2. Asked([sv EXCEPT !.user = NoUser, !.partial = FALSE, !.methods = MethodsAfter(v, ms)])
  BY <1>1 DEF Asked, ServerType
<1> QED
  BY <1>2, RejectStep

LEMMA PasswordStep ==
  ASSUME NEW sv, Asked(sv), s2c \in Seq(ServerPacket), NEW m \in Method, m.kind \notin KeyKinds,
         ReadPassword(sv, m) \/ ReadNone(sv, m)
  PROVE  Decides
<1>1. sv.methods \ {"password"} \in SUBSET MethodKinds /\ sv.methods \ {"none"} \in SUBSET MethodKinds
  BY DEF Asked, ServerType
<1>2. CASE \E v \in Rejections :
             \/ reject_auth_request([sv EXCEPT !.user = NoUser, !.partial = FALSE,
                                     !.methods = MethodsAfter(v, sv.methods \ {"password"})])
             \/ reject_auth_request([sv EXCEPT !.user = NoUser, !.partial = FALSE,
                                     !.methods = MethodsAfter(v, sv.methods \ {"none"})])
  BY <1>1, <1>2, ForgetStep DEF Decides
<1>3. CASE Accepts(m) /\ server_auth_request_success([sv EXCEPT !.user = m.user], m)
  <2>1. Asked([sv EXCEPT !.user = m.user])
    BY DEF Asked, ServerType, Method
  <2> QED
    BY <1>3, <2>1, AcceptedIsGranted, GrantStep DEF Decides
<1>4. CASE Accepts(m) /\ server_auth_request_success(sv, m)
  BY <1>4, AcceptedIsGranted, GrantStep DEF Decides
<1> QED
  BY <1>2, <1>3, <1>4 DEF ReadPassword, ReadNone, Asked, ServerType

LEMMA InfoResponseStep ==
  ASSUME NEW sv, Asked(sv), s2c \in Seq(ServerPacket), Ours(sv), sv.current = "keyboard",
         down \in [client : Endings, server : Endings], NEW good,
         granted = NoMethod, reply_userauth_info_response(sv, good)
  PROVE  Decides /\ down' \in [client : Endings, server : Endings]
<1>1. CASE server_auth_request_success(sv, [kind |-> "keyboard", user |-> sv.user, cred |-> "good"])
             /\ UNCHANGED <<down, prompts>>
  <2>1. [kind |-> "keyboard", user |-> sv.user, cred |-> "good"] \in Granted
    BY DEF Ours, Granted, Kinds
  <2> QED
    BY <1>1, <2>1, GrantStep DEF Decides, KeyKinds
<1>2. ASSUME NEW v \in Rejections, UNCHANGED <<down, prompts>>,
             reject_auth_request([sv EXCEPT !.methods = MethodsAfter(v, sv.methods), !.partial = v.partial])
      PROVE  Decides /\ down' \in [client : Endings, server : Endings]
  <2>1. MethodsAfter(v, sv.methods) \in SUBSET MethodKinds /\ v.partial \in BOOLEAN
    BY MethodsAfterType DEF Asked, ServerType
  <2>2. Asked([sv EXCEPT !.methods = MethodsAfter(v, sv.methods), !.partial = v.partial])
    BY <2>1 DEF Asked, ServerType
  <2> QED
    BY <1>2, <2>2, RejectStep DEF Decides
<1>3. CASE Answers(sv, <<Plain("USERAUTH_INFO_REQUEST")>>) /\ UNCHANGED <<granted, down>>
  <2>1. <<Plain("USERAUTH_INFO_REQUEST")>> \in Seq(Quiet)
    BY QuietPackets
  <2> QED
    BY <1>3, <2>1, AnswerQuiet DEF Answers, Decides, Refuses, Asked
<1>4. CASE down' = [down EXCEPT !.server = "UnsupportedAuthMethod"]
             /\ server' = sv /\ UNCHANGED <<s2c, granted, prompts>>
  <2>1. down' \in [client : Endings, server : Endings]
    BY <1>4 DEF Endings
  <2> QED
    BY <1>4, <2>1 DEF Decides, Refuses, Asked
<1> QED
  BY <1>1, <1>2, <1>3, <1>4 DEF reply_userauth_info_response, Asked, ServerType

LEMMA PublickeyStep ==
  ASSUME NEW sv, Asked(sv), s2c \in Seq(ServerPacket), NEW m \in Method, m.user = sv.asker,
         AuthPublickey(sv, m)
  PROVE  Decides
<1>1. CASE Accepts(m) /\ server_auth_request_success(sv, m)
  BY <1>1, AcceptedIsGranted, GrantStep DEF Decides
<1>2. ASSUME NEW v \in Rejections,
             reject_auth_request([sv EXCEPT !.user = NoUser, !.partial = FALSE,
                                            !.methods = MethodsAfter(v, sv.methods)])
      PROVE  Decides
  <2>1. sv.methods \in SUBSET MethodKinds
    BY DEF Asked, ServerType
  <2> QED
    BY <1>2, <2>1, ForgetStep DEF Decides
<1> QED
  BY <1>1, <1>2 DEF AuthPublickey, Asked, ServerType

LEMMA SignatureStep ==
  ASSUME NEW sv, Asked(sv), Ours(sv), s2c \in Seq(ServerPacket), NEW m \in Method, NEW sig,
         ReadSignature(sv, m, sig)
  PROVE  Decides
<1> DEFINE asUser == [sv EXCEPT !.user = m.user]
           fresh == [asUser EXCEPT !.asker = m.user]
<1>1. CASE reject_auth_request(sv)
  BY <1>1, RejectStep DEF Decides
<1>2. CASE reject_auth_request(asUser)
  <2>1. Asked(asUser)
    BY DEF Asked, ServerType, Method
  <2> QED
    BY <1>2, <2>1, RejectStep DEF Decides
<1>3. CASE reject_auth_request(fresh) \/ AuthPublickey(fresh, m)
  <2>1. Asked(fresh) /\ fresh.asker = m.user
    BY DEF Asked, ServerType, Method
  <2> QED
    BY <1>3, <2>1, RejectStep, PublickeyStep DEF Decides
<1>4. CASE sv.current = "publickey" /\ m.user = sv.user /\ AuthPublickey(sv, m)
  BY <1>4, PublickeyStep DEF Ours
<1> QED
  BY <1>1, <1>2, <1>3, <1>4 DEF ReadSignature

LEMMA OfferStep ==
  ASSUME NEW sv, Asked(sv), s2c \in Seq(ServerPacket), NEW m \in Method, ReadOffer(sv, m)
  PROVE  Decides
<1>1. CASE Answers([sv EXCEPT !.user = m.user, !.current = "publickey", !.asker = m.user],
                   <<Plain("USERAUTH_PK_OK")>>) /\ UNCHANGED granted
  <2>1. <<Plain("USERAUTH_PK_OK")>> \in Seq(Quiet)
    BY QuietPackets
  <2>2. Ours(server') /\ server'.state = "request"
    BY <1>1 DEF Answers, Asked, Ours, ServerType, Method
  <2> QED
    BY <1>1, <2>1, <2>2, AnswerQuiet DEF Answers, Decides, Refuses
<1>2. ASSUME NEW v \in Rejections,
             reject_auth_request([sv EXCEPT !.user = NoUser, !.partial = FALSE,
                                            !.methods = MethodsAfter(v, sv.methods)])
      PROVE  Decides
  <2>1. sv.methods \in SUBSET MethodKinds
    BY DEF Asked, ServerType
  <2> QED
    BY <1>2, <2>1, ForgetStep DEF Decides
<1> QED
  BY <1>1, <1>2 DEF ReadOffer, Asked, ServerType

LEMMA AuthRequestStep ==
  ASSUME TypeInv, server.state = "request", NEW p \in ClientPacket, p.type = "USERAUTH_REQUEST",
         server_read_auth_request(p)
  PROVE  Decides /\ down' \in [client : Endings, server : Endings]
<1> DEFINE sv == [server EXCEPT !.attempts = @ + 1]
           m == p.method
<1>1. m \in Method
  BY ClientPacketFields
<1>2. /\ s2c \in Seq(ServerPacket) /\ down \in [client : Endings, server : Endings]
      /\ Ours(server) /\ granted = NoMethod
  BY DEF TypeInv, TypeServer, TypeRest
<1>3. Asked(sv) /\ Ours(sv)
  <2>1. server.attempts + 1 \in Nat
    BY <1>2 DEF Ours, ServerType
  <2> QED
    BY <1>2, <2>1 DEF Asked, Ours, ServerType
<1> HIDE DEF sv, m
<1>4. CASE m.cred = "malformed"
  <2>1. down' = [down EXCEPT !.server = "Inconsistent"] /\ UNCHANGED <<server, s2c, granted, prompts>>
    BY <1>4 DEF server_read_auth_request, m
  <2> QED
    BY <1>2, <2>1 DEF Decides, Refuses, Endings
<1>5. CASE m.cred # "malformed" /\ m.kind = "keyboard"
  <2> DEFINE kv == [sv EXCEPT !.user = m.user, !.current = "keyboard", !.asker = m.user]
  <2>1. reply_userauth_info_response(kv, Accepts(m))
    BY <1>5 DEF server_read_auth_request, ReadKeyboardInteractive, sv, m
  <2>2. Asked(kv) /\ Ours(kv) /\ kv.current = "keyboard"
    BY <1>1, <1>3 DEF Asked, Ours, ServerType, Method
  <2> QED
    BY <1>2, <2>1, <2>2, InfoResponseStep
<1>6. CASE m.cred # "malformed" /\ m.kind # "keyboard"
  <2>1. UNCHANGED <<down, prompts>>
    BY <1>6 DEF server_read_auth_request, m
  <2>2. CASE m.kind \in {"password", "none"}
    <3>1. (ReadPassword(sv, m) \/ ReadNone(sv, m)) /\ m.kind \notin KeyKinds
      BY <1>6, <2>2 DEF server_read_auth_request, sv, m, KeyKinds
    <3> QED
      BY <1>1, <1>2, <1>3, <2>1, <3>1, PasswordStep
  <2>3. CASE m.kind \in KeyKinds
    <3>1. server_read_auth_request_pk(sv, p)
      BY <1>6, <2>3 DEF server_read_auth_request, sv, m, KeyKinds
    <3>2. reject_auth_request(sv) \/ ReadSignature(sv, m, p.sig) \/ ReadOffer(sv, m)
      BY <3>1 DEF server_read_auth_request_pk, m
    <3> QED
      BY <1>1, <1>2, <1>3, <2>1, <3>2, RejectStep, SignatureStep, OfferStep DEF Decides
  <2>4. CASE m.kind \notin {"password", "none"} /\ m.kind \notin KeyKinds
    <3>1. reject_auth_request(sv)
      BY <1>6, <2>4 DEF server_read_auth_request, sv, m
    <3> QED
      BY <1>2, <1>3, <2>1, <3>1, RejectStep DEF Decides
  <2> QED
    BY <2>2, <2>3, <2>4
<1> QED
  BY <1>4, <1>5, <1>6

(* What a packet of the client does to the server. *)
ServerOutcome ==
  \/ server.state \in {"service", "request"} /\ Decides
  \/ /\ server.state \in {"init", "authenticated"}
     /\ server' = [server EXCEPT !.state = "authenticated"] /\ UNCHANGED <<s2c, granted>>
  \/ UNCHANGED <<server, s2c, granted>>

LEMMA ServerReadsStep ==
  ASSUME TypeInv, ServerReads
  PROVE  ServerOutcome /\ down' \in [client : Endings, server : Endings]
<1> DEFINE p == Head(c2s)
<1>1. p \in ClientPacket
  BY HeadTailType DEF ServerReads, TypeInv, TypeClient
<1>2. /\ s2c \in Seq(ServerPacket) /\ down \in [client : Endings, server : Endings]
      /\ Ours(server) /\ server \in ServerType
      /\ server.state \in {"service", "request"} => granted = NoMethod
  BY DEF TypeInv, TypeServer, TypeRest, Ours
<1>3. CASE server.state = "service" /\ p.type = "SERVICE_REQUEST"
  <2>1. PICK banner \in BOOLEAN : server_accept_service(banner)
    BY <1>3 DEF ServerReads
  <2> DEFINE packets == <<Plain("SERVICE_ACCEPT")>>
                          \o IF banner THEN <<Plain("USERAUTH_BANNER")>> ELSE <<>>
  <2>2. packets \in Seq(Quiet)
    <3>1. <<Plain("SERVICE_ACCEPT")>> \in Seq(Quiet)
            /\ (IF banner THEN <<Plain("USERAUTH_BANNER")>> ELSE <<>>) \in Seq(Quiet)
      BY QuietPackets
    <3> QED
      BY <3>1, ConcatType
  <2>3. s2c' = s2c \o packets /\ UNCHANGED <<granted, down, prompts>>
    BY <2>1 DEF server_accept_service, Answers
  <2>4. server' = [server EXCEPT !.state = "request", !.methods = ConfigMethods, !.partial = FALSE,
                                 !.current = "none", !.rejections = 0]
    BY <2>1 DEF server_accept_service, Answers
  <2>5. Ours(server') /\ server'.state = "request"
    BY <1>2, <2>4, AuthAssumption DEF Ours, ServerType
  <2> HIDE DEF packets
  <2>6. s2c' \in Seq(ServerPacket) /\ (s2c \in Seq(Quiet) => s2c' \in Seq(Quiet))
    BY <1>2, <2>2, <2>3, AnswerQuiet
  <2> QED
    BY <1>2, <1>3, <2>3, <2>5, <2>6 DEF ServerOutcome, Decides, Refuses
<1>4. CASE server.state = "request" /\ p.type = "USERAUTH_REQUEST"
  <2>1. server_read_auth_request(p)
    BY <1>4 DEF ServerReads
  <2> QED
    BY <1>1, <1>4, <2>1, AuthRequestStep DEF ServerOutcome
<1>5. CASE server.state = "request" /\ p.type = "USERAUTH_INFO_RESPONSE"
  <2>1. read_userauth_info_response(p)
    BY <1>5 DEF ServerReads
  <2>2. Asked(server)
    BY <1>2, <1>5 DEF Asked
  <2>3. CASE server.current = "keyboard" /\ reply_userauth_info_response(server, p.good)
    BY <1>2, <1>5, <2>2, <2>3, InfoResponseStep DEF ServerOutcome
  <2>4. CASE reject_auth_request(server) /\ UNCHANGED <<down, prompts>>
    BY <1>2, <1>5, <2>2, <2>4, RejectStep DEF ServerOutcome, Decides
  <2> QED
    BY <2>1, <2>3, <2>4 DEF read_userauth_info_response
<1>6. CASE server.state \in {"init", "authenticated"}
  BY <1>2, <1>6 DEF ServerReads, ServerOutcome
<1>7. CASE /\ ~(server.state = "service" /\ p.type = "SERVICE_REQUEST")
           /\ ~(server.state = "request" /\ p.type = "USERAUTH_REQUEST")
           /\ ~(server.state = "request" /\ p.type = "USERAUTH_INFO_RESPONSE")
           /\ server.state \notin {"init", "authenticated"}
  BY <1>2, <1>7 DEF ServerReads, ServerOutcome
<1> QED
  BY <1>3, <1>4, <1>5, <1>6, <1>7

LEMMA ServerReadsType ==
  ASSUME TypeInv, ServerReads PROVE TypeInv'
<1> USE DEF TypeInv
<1>1. TypeCaller'
  BY DEF ServerReads, callVars, TypeCaller
<1>2. TypeClient'
  BY HeadTailType DEF ServerReads, TypeClient
<1>3. TypeRest'
  BY ServerReadsStep DEF ServerReads, TypeRest
<1>4. TypeServer'
  <2>1. ServerOutcome
    BY ServerReadsStep
  <2>2. CASE server.state \in {"service", "request"} /\ Refuses
    BY <2>2 DEF Refuses, TypeServer
  <2>3. CASE Grants
    BY <2>3 DEF Grants, TypeServer
  <2>4. CASE /\ server.state \in {"init", "authenticated"}
             /\ server' = [server EXCEPT !.state = "authenticated"] /\ UNCHANGED <<s2c, granted>>
    BY <2>4 DEF TypeServer, Ours, ServerType
  <2>5. CASE UNCHANGED <<server, s2c, granted>>
    BY <2>5 DEF TypeServer
  <2> QED
    BY <2>1, <2>2, <2>3, <2>4, <2>5 DEF ServerOutcome, Decides
<1> QED
  BY <1>1, <1>2, <1>3, <1>4

LEMMA OtherPacketsType == OtherPackets \subseteq ClientPacket
<1> DEFINE keys == {m \in Attempts : m.kind \in KeyKinds}
           unusable == [kind : {"publickey"}, user : Users, cred : {"unknown", "malformed"}]
           hostbased == [kind : {"hostbased"}, user : Users, cred : {"good"}]
           offers == Attempts \cup unusable \cup hostbased
<1>1. keys \subseteq Method /\ offers \subseteq Method
  BY AuthAssumption DEF Method, Kinds
<1> HIDE DEF offers, keys
<1>2. {Request(m, FALSE, FALSE) : m \in offers} \subseteq ClientPacket
  BY <1>1, RequestType
<1>3. {Request(m, TRUE, TRUE) : m \in keys} \subseteq ClientPacket
  BY <1>1, RequestType
<1>4. {Request(m, TRUE, FALSE) : m \in keys} \subseteq ClientPacket
  BY <1>1, RequestType
<1>5. {InfoResponse(g) : g \in BOOLEAN} \subseteq ClientPacket
  BY ClientPacketTypes
<1> QED
  BY <1>2, <1>3, <1>4, <1>5, ClientPacketTypes DEF OtherPackets, offers, keys

LEMMA TypeStep == TypeInv /\ [Next]_vars => TypeInv'
<1> SUFFICES ASSUME TypeInv, [Next]_vars PROVE TypeInv'
  OBVIOUS
<1> USE DEF TypeInv
<1>1. CASE CallerStep
  BY <1>1, CallerTypeStep
<1>2. CASE HandleAuthenticate \/ WaitInPlace
  BY <1>2, HandleType, WaitType
<1>3. CASE ClientReads \/ ServerReads
  BY <1>3, ClientReadsType, ServerReadsType
<1>4. CASE ConnectionLost
  <2>1. TypeRest'
    BY <1>4 DEF ConnectionLost, ClientDies, TypeRest, Endings
  <2> QED
    BY <1>4, <2>1 DEF ConnectionLost, callVars, TypeCaller, TypeClient, TypeServer
<1>5. CASE OtherClientSends
  <2>1. c2s' \in Seq(ClientPacket) /\ s2c' \in Seq(ServerPacket)
    BY <1>5, OtherPacketsType DEF OtherClientSends
  <2> QED
    BY <1>5, <2>1 DEF OtherClientSends, TypeCaller, TypeClient, TypeServer, TypeRest
<1>6. CASE UNCHANGED vars
  BY <1>6 DEF vars, callVars, TypeCaller, TypeClient, TypeServer, TypeRest
<1> QED
  BY <1>1, <1>2, <1>3, <1>4, <1>5, <1>6 DEF Next

LEMMA TypeAlways == Spec => []TypeInv
BY InitType, TypeStep, PTL DEF Spec

(* The state of a conversation, which every USERAUTH_REQUEST rewrites, is    *)
(* that of one user: responses and signatures are judged for the user the    *)
(* server asked, and a key is granted to the user it was offered for.        *)
THEOREM ConversationIsOfOneUser == Spec => []SameUser
<1>1. TypeInv => SameUser
  <2> SUFFICES ASSUME TypeInv PROVE SameUser
    OBVIOUS
  <2>1. CurrentIsOfUser
    BY DEF TypeInv, TypeServer, Ours, CurrentIsOfUser
  <2>2. KeyWasOffered
    <3>1. NoMethod.kind \notin KeyKinds
      BY DEF NoMethod, KeyKinds
    <3> QED
      BY <3>1 DEF TypeInv, TypeServer, KeyWasOffered
  <2> QED
    BY <2>1, <2>2, TypeInvImplies DEF SameUser
<1> QED
  BY <1>1, TypeAlways, PTL

-----------------------------------------------------------------------------
(* The refinement *)

(* Before the decision no message, reply or verdict says success, and a call *)
(* that is under way has not been told of one.                               *)
Unheard ==
  granted = NoMethod =>
    s2c \in Seq(Quiet) /\ replies \in Seq(ReplyKind \ {"AuthSuccess"}) /\ told # "success"
ToldAtTheEnd == caller.at # "idle" => told # "success"
HeardInv == Unheard /\ ToldAtTheEnd

LEMMA InitHeard == Init => HeardInv
BY DEF Init, HeardInv, Unheard, ToldAtTheEnd

LEMMA TakeHeard ==
  ASSUME TypeInv, HeardInv, NEW q \in {"none", "AuthInfoRequest", "SignRequest"}, NEW at,
         Take(q, at)
  PROVE  /\ HeardInv' /\ told # "success"
         /\ told' \in {told, "failure", "success"}
         /\ told' = "success" => granted # NoMethod
<1> DEFINE r == Head(replies)
<1>1. /\ replies # <<>> /\ replies' = Tail(replies) /\ caller.at = "wait"
      /\ UNCHANGED <<s2c, granted>>
  BY DEF Take
<1>2. told' = CASE r = "AuthSuccess" -> "success" [] r = "AuthFailure" -> "failure"
                [] OTHER -> told
  BY DEF Take
<1>3. r \in ReplyKind /\ (granted = NoMethod => r # "AuthSuccess")
  <2>1. r \in ReplyKind
    BY <1>1, HeadTailType DEF TypeInv, TypeCaller
  <2>2. granted = NoMethod => r \in ReplyKind \ {"AuthSuccess"}
    BY <1>1, HeadTailType DEF HeardInv, Unheard
  <2> QED
    BY <2>1, <2>2
<1>4. told # "success"
  BY <1>1 DEF HeardInv, ToldAtTheEnd
<1>5. told' \in {told, "failure", "success"} /\ (told' = "success" <=> r = "AuthSuccess")
  BY <1>2, <1>4
<1>6. r = "AuthSuccess" => caller'.at = "idle"
  BY DEF Take, TypeInv, TypeCaller, CallerType
<1>7. granted = NoMethod => replies' \in Seq(ReplyKind \ {"AuthSuccess"})
  BY <1>1, HeadTailType DEF HeardInv, Unheard
<1>8. HeardInv'
  BY <1>1, <1>3, <1>5, <1>6, <1>7 DEF HeardInv, Unheard, ToldAtTheEnd
<1> QED
  BY <1>3, <1>4, <1>5, <1>8

LEMMA ClientReadsHeard ==
  ASSUME TypeInv, HeardInv, ClientReads PROVE HeardInv'
<1> DEFINE p == Head(s2c)
<1>1. UNCHANGED <<told, caller, granted>> /\ s2c # <<>> /\ s2c' = Tail(s2c)
  BY DEF ClientReads, callVars
<1>2. ASSUME granted = NoMethod
      PROVE  s2c' \in Seq(Quiet) /\ replies' \in Seq(ReplyKind \ {"AuthSuccess"})
  <2>1. p \in Quiet /\ s2c' \in Seq(Quiet)
    BY <1>1, <1>2, HeadTailType DEF HeardInv, Unheard
  <2>2. p.type # "USERAUTH_SUCCESS"
    BY <2>1 DEF Quiet
  <2>3. replies' = replies \/ \E r \in ReplyKind \ {"AuthSuccess"} : replies' = Append(replies, r)
    BY <2>2 DEF ClientReads, ReadServiceAccept, ReadAuthReply, ReadInfoRequestOrPkOk, ReplyKind
  <2>4. replies \in Seq(ReplyKind \ {"AuthSuccess"})
    BY <1>2 DEF HeardInv, Unheard
  <2> QED
    BY <2>1, <2>3, <2>4, AppendType
<1> QED
  BY <1>1, <1>2 DEF HeardInv, Unheard, ToldAtTheEnd

LEMMA ServerReadsHeard ==
  ASSUME TypeInv, HeardInv, ServerReads PROVE HeardInv'
<1>1. UNCHANGED <<told, caller, replies>>
  BY DEF ServerReads, callVars
<1>2. ServerOutcome
  BY ServerReadsStep
<1>3. CASE Grants
  <2>1. granted' # NoMethod
    BY <1>3, NoMethodIsNone DEF Grants, Granted
  <2> QED
    BY <1>1, <2>1 DEF HeardInv, Unheard, ToldAtTheEnd
<1>4. CASE Refuses
  BY <1>1, <1>4 DEF Refuses, HeardInv, Unheard, ToldAtTheEnd
<1>5. CASE UNCHANGED <<s2c, granted>>
  BY <1>1, <1>5 DEF HeardInv, Unheard, ToldAtTheEnd
<1> QED
  BY <1>2, <1>3, <1>4, <1>5 DEF ServerOutcome, Decides

LEMMA HeardStep == TypeInv /\ HeardInv /\ [Next]_vars => HeardInv'
<1> SUFFICES ASSUME TypeInv, HeardInv, [Next]_vars PROVE HeardInv'
  OBVIOUS
<1>1. ASSUME NEW m \in Attempts, Authenticate(m) \/ AuthenticateWithKey(m) PROVE HeardInv'
  BY <1>1 DEF Authenticate, AuthenticateWithKey, Starts, HeardInv, Unheard, ToldAtTheEnd
<1>2. ASSUME NEW good \in BOOLEAN, Respond(good) PROVE HeardInv'
  BY <1>2 DEF Respond, HeardInv, Unheard, ToldAtTheEnd
<1>3. ASSUME NEW r \in {"signed", "unsigned", "fails"}, Sign(r) PROVE HeardInv'
  BY <1>3 DEF Sign, HeardInv, Unheard, ToldAtTheEnd
<1>4. CASE TakeReply \/ TakeKeyboardReply \/ TakeSignReply
  BY <1>4, TakeHeard DEF TakeReply, TakeKeyboardReply, TakeSignReply
<1>5. CASE CallEnds \/ Cancel
  BY <1>5 DEF CallEnds, Cancel, HeardInv, Unheard, ToldAtTheEnd
<1>6. CASE HandleAuthenticate \/ WaitInPlace
  BY <1>6 DEF HandleAuthenticate, WaitInPlace, callVars, HeardInv, Unheard, ToldAtTheEnd
<1>7. CASE ClientReads \/ ServerReads
  BY <1>7, ClientReadsHeard, ServerReadsHeard
<1>8. CASE ConnectionLost
  BY <1>8 DEF ConnectionLost, callVars, HeardInv, Unheard, ToldAtTheEnd
<1>9. CASE OtherClientSends
  <2>1. s2c' \in Seq(Quiet)
    BY <1>9 DEF OtherClientSends
  <2> QED
    BY <1>9, <2>1 DEF OtherClientSends, HeardInv, Unheard, ToldAtTheEnd
<1>10. CASE UNCHANGED vars
  BY <1>10 DEF vars, callVars, HeardInv, Unheard, ToldAtTheEnd
<1> QED
  BY <1>1, <1>2, <1>3, <1>4, <1>5, <1>6, <1>7, <1>8, <1>9, <1>10 DEF Next, CallerStep

LEMMA HeardAlways == Spec => [](TypeInv /\ HeardInv)
<1>1. Init => TypeInv /\ HeardInv
  BY InitType, InitHeard
<1>2. (TypeInv /\ HeardInv) /\ [Next]_vars => (TypeInv /\ HeardInv)'
  BY TypeStep, HeardStep
<1> QED
  BY <1>1, <1>2, PTL DEF Spec

(* Steps that take no decision and tell nothing leave the service as it is. *)
Unserved == UNCHANGED <<granted, told, server>>

LEMMA ServiceStep ==
  ASSUME TypeInv, HeardInv, [Next]_vars PROVE [Service!Next]_(Service!vars)
<1> USE DEF Service!vars
<1>1. CASE Unserved
  BY <1>1 DEF Unserved
<1>2. ASSUME NEW q \in {"none", "AuthInfoRequest", "SignRequest"}, NEW at, Take(q, at)
      PROVE  [Service!Next]_(Service!vars)
  <2>1. /\ told # "success" /\ told' \in {told, "failure", "success"}
        /\ told' = "success" => granted # NoMethod
    BY <1>2, TakeHeard
  <2>2. UNCHANGED <<granted, server>>
    BY <1>2 DEF Take
  <2> QED
    BY <2>1, <2>2 DEF Service!Next, Service!Tell
<1>3. CASE CallEnds
  BY <1>3 DEF CallEnds, HeardInv, ToldAtTheEnd, Service!Next, Service!Tell
<1>4. CASE ServerReads
  <2>1. told' = told
    BY <1>4 DEF ServerReads, callVars
  <2>2. ServerOutcome
    BY <1>4, ServerReadsStep
  <2>3. CASE server.state \in {"service", "request"} /\ Refuses
    BY <2>1, <2>3 DEF Refuses
  <2>4. CASE server.state \in {"service", "request"} /\ Grants
    BY <2>1, <2>4 DEF Grants, Granted, TypeInv, TypeServer, Service!Next, Service!Grant
  <2>5. CASE /\ server.state \in {"init", "authenticated"}
             /\ server' = [server EXCEPT !.state = "authenticated"] /\ UNCHANGED <<s2c, granted>>
    <3>1. granted # NoMethod
      BY <2>5, NoMethodIsNone DEF TypeInv, TypeServer, Granted
    <3>2. server'.state = "authenticated"
      BY <2>5 DEF TypeInv, TypeServer, Ours, ServerType
    <3> QED
      BY <2>1, <2>5, <3>1, <3>2 DEF Service!Next, Service!Serve
  <2>6. CASE UNCHANGED <<server, s2c, granted>>
    BY <2>1, <2>6
  <2> QED
    BY <2>2, <2>3, <2>4, <2>5, <2>6 DEF ServerOutcome, Decides
<1>5. ASSUME NEW m, Starts(m) PROVE Unserved
  BY <1>5 DEF Starts, Unserved
<1>6. ASSUME NEW g, Respond(g) PROVE Unserved
  BY <1>6 DEF Respond, Unserved
<1>7. ASSUME NEW r, Sign(r) PROVE Unserved
  BY <1>7 DEF Sign, Unserved
<1>8. CASE Cancel \/ HandleAuthenticate \/ WaitInPlace \/ ClientReads \/ ConnectionLost
  BY <1>1, <1>8 DEF Cancel, HandleAuthenticate, WaitInPlace, ClientReads, ConnectionLost,
                    callVars, Unserved
<1>9. CASE OtherClientSends \/ UNCHANGED vars
  BY <1>1, <1>9 DEF OtherClientSends, vars, callVars, Unserved
<1> QED
  BY <1>1, <1>2, <1>3, <1>4, <1>5, <1>6, <1>7, <1>8, <1>9
     DEF Next, CallerStep, Authenticate, AuthenticateWithKey, TakeReply, TakeKeyboardReply,
         TakeSignReply

(* The client's and the server's state machines implement the service: in    *)
(* whatever order messages are sent, dropped or answered, the server decides *)
(* once, for a credential the Handler authorises, the caller of              *)
(* authenticate_* hears of success only after it and only once, and nothing  *)
(* of the connection protocol is served before it.                           *)
THEOREM AuthRefinement == Spec => ImplementsService
<1>1. Init => Service!Init
  BY DEF Init, Service!Init
<1> QED
  BY <1>1, ServiceStep, HeardAlways, PTL DEF Spec, ImplementsService, Service!Spec

-----------------------------------------------------------------------------
(* The caller's own replies.  As long as no call was dropped there is one    *)
(* request, or one thing derived from it, between the caller and the         *)
(* server's decision; the definitions below say where it can be.             *)
Up == down.client = "no" /\ down.server = "no"
Lines(commands, sent, heard) == cmds = commands /\ c2s = sent /\ replies = heard

(* At most the banner is on its way before what the server answers next. *)
Banner == <<Plain("USERAUTH_BANNER")>>
Nothing == s2c = <<>> \/ s2c = Banner

(* Both session tasks are where a request is awaited. *)
Ready == client.state = "request" /\ server.state = "request"
Fresh ==
  /\ client.state = "service" /\ ~client.sent /\ ~client.accepted
  /\ server.state = "service"

(* Both sides mean the same conversation. *)
Asking ==
  /\ caller.method.kind = "keyboard" /\ client.current = "keyboard"
  /\ server.current = "keyboard" /\ server.user = caller.method.user
Offering ==
  /\ caller.method.kind \in KeyKinds /\ client.current = "none" /\ client.method = caller.method
Matched == granted.kind = caller.method.kind /\ granted.user = caller.method.user

(* No call is under way, *)
Rest ==
  /\ caller.at = "idle" /\ Lines(<<>>, <<>>, <<>>) /\ s2c = <<>>
  /\ client.waits = "no" /\ (Fresh \/ Ready)
(* the call is on its way to the session task, *)
Commanded ==
  /\ caller.at = "wait" /\ s2c = <<>> /\ client.waits = "no" /\ (Fresh \/ Ready)
  /\ Lines(<<[type |-> "Authenticate", method |-> caller.method]>>, <<>>, <<>>)
(* which first asks for the service, *)
ServiceAsked ==
  /\ caller.at = "wait" /\ Lines(<<>>, <<Plain("SERVICE_REQUEST")>>, <<>>) /\ s2c = <<>>
  /\ client.waits = "no" /\ client.state = "service" /\ client.sent /\ ~client.accepted
  /\ client.method = caller.method /\ server.state = "service"
ServiceGiven ==
  /\ caller.at = "wait" /\ Lines(<<>>, <<>>, <<>>)
  /\ s2c = <<Plain("SERVICE_ACCEPT")>> \/ s2c = <<Plain("SERVICE_ACCEPT")>> \o Banner
  /\ client.waits = "no" /\ client.state = "service" /\ client.sent /\ ~client.accepted
  /\ client.method = caller.method /\ server.state = "request"
(* or the request, a signed one or the responses are on their way, *)
Requested ==
  /\ caller.at = "wait" /\ Lines(<<>>, <<Request(caller.method, FALSE, FALSE)>>, <<>>)
  /\ Nothing /\ client.waits = "no" /\ Ready
  /\ client.current = CurrentOf(caller.method) /\ client.method = caller.method
SignatureSent ==
  /\ caller.at = "wait" /\ Lines(<<>>, <<Request(caller.method, TRUE, TRUE)>>, <<>>)
  /\ s2c = <<>> /\ client.waits = "no" /\ Ready
  /\ caller.method.kind \in KeyKinds /\ client.current = "none"
Responded ==
  /\ caller.at = "wait" /\ s2c = <<>> /\ client.waits = "no" /\ Ready /\ Asking
  /\ \E good \in BOOLEAN : Lines(<<>>, <<InfoResponse(good)>>, <<>>)
(* or the server's answer is, *)
AnswerIsOwn(x) ==
  \/ x.type = "USERAUTH_SUCCESS" /\ Matched
  \/ x.type = "USERAUTH_FAILURE" /\ Ready
  \/ x.type = "USERAUTH_PK_OK" /\ Ready /\ Offering
  \/ x.type = "USERAUTH_INFO_REQUEST" /\ Ready /\ Asking
Answered ==
  /\ caller.at = "wait" /\ Lines(<<>>, <<>>, <<>>)
  /\ \E x \in ServerPacket : (s2c = <<x>> \/ s2c = Banner \o <<x>>) /\ AnswerIsOwn(x)
  /\ client.waits = "no" /\ client.state = "request"
(* or what the session task made of it, *)
ReplyIsOwn(r) ==
  \/ r = "AuthSuccess" /\ Matched /\ client.state = "authenticated" /\ client.waits = "no"
  \/ r = "AuthFailure" /\ Ready /\ client.waits = "no"
  \/ r = "AuthInfoRequest" /\ Ready /\ Asking /\ client.waits = "responses"
  \/ /\ r = "SignRequest" /\ Ready /\ Offering /\ client.waits = "signed"
     /\ caller.method.kind = "future"
Replied ==
  /\ caller.at = "wait" /\ s2c = <<>>
  /\ \E r \in ReplyKind : Lines(<<>>, <<>>, <<r>>) /\ ReplyIsOwn(r)
(* or the caller is asked, and answers.                                      *)
Challenged ==
  /\ caller.at = "challenge" /\ Lines(<<>>, <<>>, <<>>) /\ s2c = <<>>
  /\ client.waits = "responses" /\ Ready /\ Asking
Responding ==
  /\ caller.at = "wait" /\ s2c = <<>> /\ client.waits = "responses" /\ Ready /\ Asking
  /\ \E good \in BOOLEAN : Lines(<<[type |-> "AuthInfoResponse", good |-> good]>>, <<>>, <<>>)
ToSign ==
  /\ caller.at = "sign" /\ Lines(<<>>, <<>>, <<>>) /\ s2c = <<>>
  /\ client.waits = "signed" /\ Ready /\ Offering
Signing ==
  /\ caller.at = "wait" /\ s2c = <<>> /\ client.waits = "signed" /\ Ready /\ Offering
  /\ \E done \in BOOLEAN : Lines(<<[type |-> "Signed", modified |-> done]>>, <<>>, <<>>)

(* Nothing will come: the signer did not sign, or the server has ended ... *)
Unanswered ==
  /\ caller.at = "wait" /\ Lines(<<>>, <<>>, <<>>) /\ Nothing
  /\ client.waits = "no" /\ client.state = "request" /\ down.client = "no"
(* ... or the question the session task waits at was left unanswered ...     *)
Abandoned ==
  /\ caller.at \in {"idle", "wait"} /\ c2s = <<>> /\ replies = <<>> /\ s2c = <<>>
  /\ cmds \in Seq({c \in Command : c.type = "Authenticate"})
  /\ client.waits # "no" /\ down.client = "no"
(* ... or the session task has ended.                                        *)
Lost ==
  /\ caller.at \in {"idle", "wait"} /\ (replies = <<>> \/ replies = <<"AuthFailure">>)
  /\ down.client \in {"NoAuthMethod", "Disconnect"}

UnderWay ==
  \/ Up /\ (Rest \/ Commanded \/ ServiceAsked \/ ServiceGiven \/ Requested \/ SignatureSent
              \/ Responded \/ Answered \/ Replied \/ Challenged \/ Responding \/ ToSign \/ Signing)
  \/ Unanswered \/ Abandoned \/ Lost
Done ==
  /\ Up /\ caller.at = "idle" /\ told = "success" /\ Matched
  /\ Lines(<<>>, <<>>, <<>>) /\ s2c = <<>> /\ client.waits = "no"

OwnCall == (told # "success" /\ UnderWay) \/ Done
CallHasMethod == caller.at # "idle" => caller.method \in Method
OwnInv ==
  /\ cancels \in Nat /\ CallHasMethod
  /\ peer = "russh" /\ cancels = 0 => OwnCall
  /\ peer = "other" =>
       caller.at = "idle" /\ told # "success" /\ down.client \in {"no", "Disconnect"}

(* What the server says to a request of m: its verdict, ... *)
Verdict(m) ==
  \E x \in ServerPacket :
    /\ s2c' = s2c \o <<x>>
    /\ \/ x.type = "USERAUTH_SUCCESS" /\ granted'.kind = m.kind /\ granted'.user = m.user
       \/ x.type = "USERAUTH_FAILURE" /\ server'.state = "request"
(* ... or the question its method leads to, or its end. *)
Question(m, real) ==
  /\ server'.state = "request"
  /\ \/ /\ s2c' = s2c \o <<Plain("USERAUTH_PK_OK")>> /\ m.kind \in KeyKinds /\ ~real
     \/ /\ s2c' = s2c \o <<Plain("USERAUTH_INFO_REQUEST")>> /\ m.kind = "keyboard"
        /\ server'.current = "keyboard" /\ server'.user = m.user
ServerEnds == s2c' = s2c /\ down'.client = down.client
Says(m, real) == (down' = down /\ (Verdict(m) \/ Question(m, real))) \/ ServerEnds

LEMMA RejectSays ==
  ASSUME NEW sv, Asked(sv), NEW m, reject_auth_request(sv)
  PROVE  Verdict(m)
<1>1. Failure(sv.methods, sv.partial) \in ServerPacket
  BY ServerPacketTypes DEF Asked, ServerType
<1>2. Failure(sv.methods, sv.partial).type = "USERAUTH_FAILURE"
  BY DEF Failure
<1>3. s2c' = s2c \o <<Failure(sv.methods, sv.partial)>> /\ server'.state = "request"
  BY DEF reject_auth_request, Answers, Asked, ServerType
<1> QED
  BY <1>1, <1>2, <1>3 DEF Verdict

LEMMA GrantSays ==
  ASSUME NEW sv, NEW m, NEW g, g.kind = m.kind, g.user = m.user,
         server_auth_request_success(sv, g)
  PROVE  Verdict(m)
<1>1. Plain("USERAUTH_SUCCESS") \in ServerPacket
  BY ServerPacketTypes
<1>2. Plain("USERAUTH_SUCCESS").type = "USERAUTH_SUCCESS"
  BY DEF Plain
<1>3. s2c' = s2c \o <<Plain("USERAUTH_SUCCESS")>> /\ granted' = g
  BY DEF server_auth_request_success, Answers
<1> QED
  BY <1>1, <1>2, <1>3 DEF Verdict

LEMMA ForgetSays ==
  ASSUME NEW sv, Asked(sv), NEW m, NEW v \in Rejections, NEW ms \in SUBSET MethodKinds,
         reject_auth_request([sv EXCEPT !.user = NoUser, !.partial = FALSE,
                                        !.methods = MethodsAfter(v, ms)])
  PROVE  Verdict(m)
<1>1. MethodsAfter(v, ms) \in SUBSET MethodKinds
  BY MethodsAfterType
<1>2. Asked([sv EXCEPT !.user = NoUser, !.partial = FALSE, !.methods = MethodsAfter(v, ms)])
  BY <1>1 DEF Asked, ServerType
<1> QED
  BY <1>2, RejectSays

LEMMA PasswordSays ==
  ASSUME NEW sv, Asked(sv), NEW m \in Method, ReadPassword(sv, m) \/ ReadNone(sv, m)
  PROVE  Verdict(m)
<1>1. sv.methods \ {"password"} \in SUBSET MethodKinds /\ sv.methods \ {"none"} \in SUBSET MethodKinds
  BY DEF Asked, ServerType
<1>2. CASE \E v \in Rejections :
             \/ reject_auth_request([sv EXCEPT !.user = NoUser, !.partial = FALSE,
                                     !.methods = MethodsAfter(v, sv.methods \ {"password"})])
             \/ reject_auth_request([sv EXCEPT !.user = NoUser, !.partial = FALSE,
                                     !.methods = MethodsAfter(v, sv.methods \ {"none"})])
  BY <1>1, <1>2, ForgetSays
<1>3. CASE server_auth_request_success([sv EXCEPT !.user = m.user], m)
  BY <1>3, GrantSays
<1>4. CASE server_auth_request_success(sv, m)
  BY <1>4, GrantSays
<1> QED
  BY <1>2, <1>3, <1>4 DEF ReadPassword, ReadNone, Asked, ServerType

LEMMA PublickeySays ==
  ASSUME NEW sv, Asked(sv), NEW m \in Method, AuthPublickey(sv, m)
  PROVE  Verdict(m)
<1>1. CASE server_auth_request_success(sv, m)
  BY <1>1, GrantSays
<1>2. ASSUME NEW v \in Rejections,
             reject_auth_request([sv EXCEPT !.user = NoUser, !.partial = FALSE,
                                            !.methods = MethodsAfter(v, sv.methods)])
      PROVE  Verdict(m)
  <2>1. sv.methods \in SUBSET MethodKinds
    BY DEF Asked, ServerType
  <2> QED
    BY <1>2, <2>1, ForgetSays
<1> QED
  BY <1>1, <1>2 DEF AuthPublickey, Asked, ServerType

LEMMA SignatureSays ==
  ASSUME NEW sv, Asked(sv), NEW m \in Method, NEW sig, ReadSignature(sv, m, sig)
  PROVE  Verdict(m)
<1> DEFINE asUser == [sv EXCEPT !.user = m.user]
           fresh == [asUser EXCEPT !.asker = m.user]
<1>1. Asked(asUser) /\ Asked(fresh)
  BY DEF Asked, ServerType, Method
<1>2. CASE reject_auth_request(sv) \/ reject_auth_request(asUser) \/ reject_auth_request(fresh)
  BY <1>1, <1>2, RejectSays
<1>3. CASE AuthPublickey(fresh, m) \/ AuthPublickey(sv, m)
  BY <1>1, <1>3, PublickeySays
<1> QED
  BY <1>2, <1>3 DEF ReadSignature

LEMMA OfferSays ==
  ASSUME NEW sv, Asked(sv), NEW m \in Method, m.kind \in KeyKinds, ReadOffer(sv, m)
  PROVE  Verdict(m) \/ Question(m, FALSE)
<1>1. CASE Answers([sv EXCEPT !.user = m.user, !.current = "publickey", !.asker = m.user],
                   <<Plain("USERAUTH_PK_OK")>>) /\ UNCHANGED granted
  <2>1. server'.state = "request" /\ s2c' = s2c \o <<Plain("USERAUTH_PK_OK")>>
    BY <1>1 DEF Answers, Asked, ServerType
  <2> QED
    BY <2>1 DEF Question
<1>2. ASSUME NEW v \in Rejections,
             reject_auth_request([sv EXCEPT !.user = NoUser, !.partial = FALSE,
                                            !.methods = MethodsAfter(v, sv.methods)])
      PROVE  Verdict(m)
  <2>1. sv.methods \in SUBSET MethodKinds
    BY DEF Asked, ServerType
  <2> QED
    BY <1>2, <2>1, ForgetSays
<1> QED
  BY <1>1, <1>2 DEF ReadOffer, Asked, ServerType

LEMMA ResponseSays ==
  ASSUME NEW sv, Asked(sv), sv.current = "keyboard", NEW m \in Method, m.kind = "keyboard",
         sv.user = m.user, down \in [client : Endings, server : Endings], NEW good, NEW real,
         reply_userauth_info_response(sv, good)
  PROVE  Says(m, real)
<1>1. CASE server_auth_request_success(sv, [kind |-> "keyboard", user |-> sv.user, cred |-> "good"])
             /\ UNCHANGED <<down, prompts>>
  BY <1>1, GrantSays DEF Says
<1>2. ASSUME NEW v \in Rejections, UNCHANGED <<down, prompts>>,
             reject_auth_request([sv EXCEPT !.methods = MethodsAfter(v, sv.methods), !.partial = v.partial])
      PROVE  Says(m, real)
  <2>1. MethodsAfter(v, sv.methods) \in SUBSET MethodKinds /\ v.partial \in BOOLEAN
    BY MethodsAfterType DEF Asked, ServerType
  <2>2. Asked([sv EXCEPT !.methods = MethodsAfter(v, sv.methods), !.partial = v.partial])
    BY <2>1 DEF Asked, ServerType
  <2> QED
    BY <1>2, <2>2, RejectSays DEF Says
<1>3. CASE Answers(sv, <<Plain("USERAUTH_INFO_REQUEST")>>) /\ UNCHANGED <<granted, down>>
  BY <1>3 DEF Answers, Says, Question, Asked
<1>4. CASE down' = [down EXCEPT !.server = "UnsupportedAuthMethod"]
             /\ server' = sv /\ UNCHANGED <<s2c, granted, prompts>>
  BY <1>4 DEF Says, ServerEnds
<1> QED
  BY <1>1, <1>2, <1>3, <1>4 DEF reply_userauth_info_response, Asked, ServerType

LEMMA RequestSays ==
  ASSUME TypeInv, server.state = "request", NEW m \in Method, NEW real \in BOOLEAN,
         server_read_auth_request(Request(m, real, real))
  PROVE  Says(m, real)
<1> DEFINE sv == [server EXCEPT !.attempts = @ + 1]
           p == Request(m, real, real)
<1>1. p.method = m /\ p.real = real /\ p.sig = real
  BY DEF Request
<1>2. Ours(server) /\ down \in [client : Endings, server : Endings]
  BY DEF TypeInv, TypeServer, TypeRest
<1>3. Asked(sv)
  <2>1. server.attempts + 1 \in Nat
    BY <1>2 DEF Ours, ServerType
  <2> QED
    BY <1>2, <2>1 DEF Asked, Ours, ServerType
<1> HIDE DEF sv, p
<1>4. CASE m.cred = "malformed"
  <2>1. down' = [down EXCEPT !.server = "Inconsistent"] /\ UNCHANGED <<server, s2c, granted, prompts>>
    BY <1>1, <1>4 DEF server_read_auth_request, p
  <2> QED
    BY <1>2, <2>1 DEF Says, ServerEnds
<1>5. CASE m.cred # "malformed" /\ m.kind = "keyboard"
  <2> DEFINE kv == [sv EXCEPT !.user = m.user, !.current = "keyboard", !.asker = m.user]
  <2>1. reply_userauth_info_response(kv, Accepts(m))
    BY <1>1, <1>5 DEF server_read_auth_request, ReadKeyboardInteractive, sv, p
  <2>2. Asked(kv) /\ kv.current = "keyboard" /\ kv.user = m.user
    BY <1>3 DEF Asked, ServerType, Method
  <2> QED
    BY <1>2, <1>5, <2>1, <2>2, ResponseSays
<1>6. CASE m.cred # "malformed" /\ m.kind # "keyboard"
  <2>1. down' = down
    BY <1>1, <1>6 DEF server_read_auth_request, p
  <2>2. CASE m.kind \in {"password", "none"}
    <3>1. ReadPassword(sv, m) \/ ReadNone(sv, m)
      BY <1>1, <1>6, <2>2 DEF server_read_auth_request, sv, p, KeyKinds
    <3> QED
      BY <1>3, <2>1, <3>1, PasswordSays DEF Says
  <2>3. CASE m.kind \in KeyKinds
    <3>1. server_read_auth_request_pk(sv, p)
      BY <1>1, <1>6, <2>3 DEF server_read_auth_request, sv, p, KeyKinds
    <3>2. CASE reject_auth_request(sv)
      BY <1>3, <2>1, <3>2, RejectSays DEF Says
    <3>3. CASE real /\ ReadSignature(sv, m, real)
      BY <1>3, <2>1, <3>3, SignatureSays DEF Says
    <3>4. CASE ~real /\ ReadOffer(sv, m)
      BY <1>3, <2>1, <2>3, <3>4, OfferSays DEF Says
    <3> QED
      BY <1>1, <3>1, <3>2, <3>3, <3>4 DEF server_read_auth_request_pk
  <2>4. CASE m.kind \notin {"password", "none"} /\ m.kind \notin KeyKinds
    <3>1. reject_auth_request(sv)
      BY <1>1, <1>6, <2>4 DEF server_read_auth_request, sv, p
    <3> QED
      BY <1>3, <2>1, <3>1, RejectSays DEF Says
  <2> QED
    BY <2>2, <2>3, <2>4
<1> QED
  BY <1>4, <1>5, <1>6

LEMMA LineEnds ==
  /\ Banner # <<>> /\ Head(Banner).type = "USERAUTH_BANNER" /\ Tail(Banner) = <<>>
  /\ \A x : <<x>> # <<>> /\ Head(<<x>>) = x /\ Tail(<<x>>) = <<>> /\ <<>> \o <<x>> = <<x>>
<1>1. Banner # <<>> /\ Head(Banner).type = "USERAUTH_BANNER" /\ Tail(Banner) = <<>>
  BY DEF Banner, Plain
<1>2. \A x : <<x>> # <<>> /\ Head(<<x>>) = x /\ Tail(<<x>>) = <<>> /\ <<>> \o <<x>> = <<x>>
  OBVIOUS
<1> QED
  BY <1>1, <1>2

LEMMA Joined ==
  ASSUME NEW x, NEW y
  PROVE  Head(<<y>> \o <<x>>) = y /\ Tail(<<y>> \o <<x>>) = <<x>> /\ <<y>> \o <<x>> # <<>>
<1>1. <<y>> \in Seq({x, y}) /\ x \in {x, y}
  OBVIOUS
<1>2. <<y>> \o <<x>> = Append(<<y>>, x)
  BY <1>1, AppendIsConcat
<1>3. Head(Append(<<y>>, x)) = y /\ Tail(Append(<<y>>, x)) = Append(Tail(<<y>>), x)
  BY <1>1, HeadTailAppend
<1>4. Append(<<y>>, x) # <<>>
  BY <1>1, AppendProperties
<1>5. Tail(<<y>>) = <<>> /\ Append(<<>>, x) = <<x>>
  OBVIOUS
<1> QED
  BY <1>2, <1>3, <1>4, <1>5

LEMMA BannerFirst ==
  ASSUME NEW x
  PROVE  Head(Banner \o <<x>>).type = "USERAUTH_BANNER" /\ Tail(Banner \o <<x>>) = <<x>>
           /\ Banner \o <<x>> # <<>>
<1>1. Plain("USERAUTH_BANNER").type = "USERAUTH_BANNER"
  BY DEF Plain
<1> QED
  BY <1>1, Joined DEF Banner

LEMMA StartOwn ==
  ASSUME TypeInv, OwnCall, NEW m \in Method, Starts(m) PROVE OwnCall'
<1> DEFINE msg == [type |-> "Authenticate", method |-> m]
<1>1. /\ caller.at \in {"idle", "challenge"} /\ told # "success" /\ down.client = "no"
      /\ cmds' = Append(cmds, msg) /\ caller' = [at |-> "wait", method |-> m]
      /\ UNCHANGED <<told, replies, client, c2s, s2c, server, granted, down>>
  BY DEF Starts, Calling
<1>2. (Up /\ Rest) \/ (Up /\ Challenged) \/ (Abandoned /\ caller.at = "idle")
  BY <1>1 DEF OwnCall, UnderWay, Done, Commanded, ServiceAsked, ServiceGiven, Requested,
              SignatureSent, Responded, Answered, Replied, Responding, ToSign, Signing,
              Unanswered, Abandoned, Lost
<1>3. msg \in {c \in Command : c.type = "Authenticate"}
  BY DEF Command
<1>4. CASE Up /\ Rest
  <2>1. cmds' = <<[type |-> "Authenticate", method |-> caller'.method]>>
    BY <1>1, <1>4 DEF Rest, Lines
  <2>2. Up' /\ Commanded'
    BY <1>1, <1>4, <2>1 DEF Up, Rest, Commanded, Lines, Fresh, Ready
  <2> QED
    BY <1>1, <2>2 DEF OwnCall, UnderWay
<1>5. CASE (Up /\ Challenged) \/ Abandoned
  <2> DEFINE S == {c \in Command : c.type = "Authenticate"}
  <2>0. <<>> \in Seq(S)
    OBVIOUS
  <2>1. cmds \in Seq(S)
    BY <1>5, <2>0 DEF Challenged, Lines, Abandoned
  <2>2. cmds' \in Seq(S)
    BY <1>1, <1>3, <2>1, AppendType
  <2>3. Abandoned'
    BY <1>1, <1>5, <2>2 DEF Challenged, Lines, Abandoned, Up
  <2> QED
    BY <1>1, <2>3 DEF OwnCall, UnderWay
<1> QED
  BY <1>2, <1>4, <1>5

LEMMA RespondOwn ==
  ASSUME TypeInv, OwnCall, NEW good \in BOOLEAN, Respond(good) PROVE OwnCall'
<1>1. /\ caller.at = "challenge"
      /\ cmds' = Append(cmds, [type |-> "AuthInfoResponse", good |-> good])
      /\ caller' = [at |-> "wait", method |-> caller.method]
      /\ UNCHANGED <<told, replies, client, c2s, s2c, server, granted, down>>
  BY DEF Respond, Calling
<1>2. told # "success" /\ Up /\ Challenged
  BY <1>1 DEF OwnCall, UnderWay, Done, Rest, Commanded, ServiceAsked, ServiceGiven, Requested,
              SignatureSent, Responded, Answered, Replied, Responding, ToSign, Signing,
              Unanswered, Abandoned, Lost
<1>3. cmds' = <<[type |-> "AuthInfoResponse", good |-> good]>>
  BY <1>1, <1>2 DEF Challenged, Lines
<1>4. Up' /\ Responding'
  BY <1>1, <1>2, <1>3 DEF Challenged, Responding, Up, Lines, Ready, Asking
<1> QED
  BY <1>1, <1>2, <1>4 DEF OwnCall, UnderWay

LEMMA SignOwn ==
  ASSUME TypeInv, OwnCall, NEW r \in {"signed", "unsigned", "fails"}, Sign(r) PROVE OwnCall'
<1>1. /\ caller.at = "sign"
      /\ UNCHANGED <<told, replies, client, c2s, s2c, server, granted, down>>
  BY DEF Sign
<1>2. told # "success" /\ Up /\ ToSign
  BY <1>1 DEF OwnCall, UnderWay, Done, Rest, Commanded, ServiceAsked, ServiceGiven, Requested,
              SignatureSent, Responded, Answered, Replied, Challenged, Responding, Signing,
              Unanswered, Abandoned, Lost
<1>3. CASE r = "fails"
  <2>1. caller'.at = "idle" /\ cmds' = cmds
    BY <1>3 DEF Sign, TypeInv, TypeCaller, CallerType
  <2>2. cmds' \in Seq({c \in Command : c.type = "Authenticate"})
    BY <1>2, <2>1 DEF ToSign, Lines
  <2>3. Abandoned'
    BY <1>1, <1>2, <2>1, <2>2 DEF ToSign, Abandoned, Lines, Up
  <2> QED
    BY <1>1, <1>2, <2>3 DEF OwnCall, UnderWay
<1>4. CASE r # "fails"
  <2>1. /\ cmds' = Append(cmds, [type |-> "Signed", modified |-> r = "signed"])
        /\ caller' = [at |-> "wait", method |-> caller.method]
    BY <1>4 DEF Sign, Calling
  <2>2. cmds' = <<[type |-> "Signed", modified |-> r = "signed"]>> /\ (r = "signed") \in BOOLEAN
    BY <1>2, <2>1 DEF ToSign, Lines
  <2>3. Up' /\ Signing'
    BY <1>1, <1>2, <2>1, <2>2 DEF ToSign, Signing, Up, Lines, Ready, Offering
  <2> QED
    BY <1>1, <1>2, <2>3 DEF OwnCall, UnderWay
<1> QED
  BY <1>3, <1>4

LEMMA TakeOwn ==
  ASSUME TypeInv, OwnCall, TakeReply \/ TakeKeyboardReply \/ TakeSignReply PROVE OwnCall'
<1>1. /\ caller.at = "wait" /\ replies # <<>> /\ replies' = Tail(replies)
      /\ UNCHANGED <<cmds, client, c2s, s2c, server, granted, down>>
  BY DEF TakeReply, TakeKeyboardReply, TakeSignReply, Take
<1>2. /\ caller \in CallerType /\ caller'.method = caller.method
      /\ told' = CASE Head(replies) = "AuthSuccess" -> "success"
                   [] Head(replies) = "AuthFailure" -> "failure"
                   [] OTHER -> told
      /\ Head(replies) \in {"AuthSuccess", "AuthFailure"} => caller'.at = "idle"
  BY DEF TakeReply, TakeKeyboardReply, TakeSignReply, Take, TypeInv, TypeCaller, CallerType
<1>3. told # "success" /\ ((Up /\ Replied) \/ Lost)
  BY <1>1 DEF OwnCall, UnderWay, Done, Rest, Commanded, ServiceAsked, ServiceGiven, Requested,
              SignatureSent, Responded, Answered, Challenged, Responding, ToSign, Signing,
              Unanswered, Abandoned, Lines
<1>4. CASE Lost
  <2>1. Head(replies) = "AuthFailure" /\ replies' = <<>>
    BY <1>1, <1>4, LineEnds DEF Lost
  <2>2. told' # "success" /\ caller'.at = "idle"
    BY <1>2, <2>1
  <2>3. Lost'
    BY <1>1, <1>4, <2>1, <2>2 DEF Lost
  <2> QED
    BY <2>2, <2>3 DEF OwnCall, UnderWay
<1>5. CASE Up /\ Replied
  <2>1. PICK r \in ReplyKind : Lines(<<>>, <<>>, <<r>>) /\ ReplyIsOwn(r)
    BY <1>5 DEF Replied
  <2>2. Head(replies) = r /\ replies' = <<>> /\ Up' /\ s2c' = <<>> /\ cmds' = <<>> /\ c2s' = <<>>
    BY <1>1, <1>5, <2>1, LineEnds DEF Lines, Up, Replied
  <2>3. CASE r = "AuthSuccess"
    <3>1. Done'
      BY <1>1, <1>2, <2>1, <2>2, <2>3 DEF Done, ReplyIsOwn, Matched, Lines
    <3> QED
      BY <3>1 DEF OwnCall
  <2>4. CASE r = "AuthFailure"
    <3>1. told' # "success" /\ Rest'
      BY <1>1, <1>2, <2>1, <2>2, <2>4 DEF Rest, ReplyIsOwn, Ready, Lines
    <3> QED
      BY <2>2, <3>1 DEF OwnCall, UnderWay
  <2>5. CASE r = "AuthInfoRequest"
    <3>1. caller.method.kind = "keyboard" /\ Asking /\ Ready /\ client.waits = "responses"
      BY <2>1, <2>5 DEF ReplyIsOwn, Asking
    <3>2. caller'.at = "challenge"
      BY <1>2, <2>2, <2>5, <3>1
         DEF TakeReply, TakeKeyboardReply, TakeSignReply, Take, CallerType
    <3>3. told' # "success" /\ Challenged'
      BY <1>1, <1>2, <1>3, <2>2, <2>5, <3>1, <3>2 DEF Challenged, Asking, Ready, Lines
    <3> QED
      BY <2>2, <3>3 DEF OwnCall, UnderWay
  <2>6. CASE r = "SignRequest"
    <3>1. caller.method.kind = "future" /\ Offering /\ Ready /\ client.waits = "signed"
      BY <2>1, <2>6 DEF ReplyIsOwn
    <3>2. caller'.at = "sign"
      BY <1>2, <2>2, <2>6, <3>1
         DEF TakeReply, TakeKeyboardReply, TakeSignReply, Take, CallerType
    <3>3. told' # "success" /\ ToSign'
      BY <1>1, <1>2, <1>3, <2>2, <2>6, <3>1, <3>2 DEF ToSign, Offering, Ready, Lines
    <3> QED
      BY <2>2, <3>3 DEF OwnCall, UnderWay
  <2> QED
    BY <2>1, <2>3, <2>4, <2>5, <2>6 DEF ReplyKind
<1> QED
  BY <1>3, <1>4, <1>5

LEMMA CallEndsOwn ==
  ASSUME TypeInv, OwnCall, CallEnds PROVE OwnCall'
<1>1. /\ caller.at = "wait" /\ replies = <<>> /\ down.client # "no" /\ told' = "failure"
      /\ caller' = [caller EXCEPT !.at = "idle"] /\ UNCHANGED <<replies, down>>
  BY DEF CallEnds
<1>2. Lost
  BY <1>1 DEF OwnCall, UnderWay, Done, Up, Unanswered, Abandoned
<1>3. caller'.at = "idle"
  BY <1>1 DEF TypeInv, TypeCaller, CallerType
<1>4. Lost'
  BY <1>1, <1>2, <1>3 DEF Lost
<1> QED
  BY <1>1, <1>4 DEF OwnCall, UnderWay

LEMMA HandleOwn ==
  ASSUME TypeInv, OwnCall, HandleAuthenticate PROVE OwnCall'
<1>1. /\ client.waits = "no" /\ cmds # <<>> /\ cmds' = Tail(cmds) /\ down.client = "no"
      /\ UNCHANGED <<caller, told, replies, s2c, server, granted, down>>
  BY DEF HandleAuthenticate, ClientRuns, callVars
<1>2. told # "success" /\ Up /\ Commanded
  BY <1>1 DEF OwnCall, UnderWay, Done, Rest, ServiceAsked, ServiceGiven, Requested,
              SignatureSent, Responded, Answered, Replied, Challenged, Responding, ToSign, Signing,
              Unanswered, Abandoned, Lost, Lines
<1> DEFINE m == caller.method
           msg == [type |-> "Authenticate", method |-> m]
<1>3. cmds = <<msg>> /\ c2s = <<>> /\ replies = <<>> /\ s2c = <<>> /\ caller.at = "wait"
  BY <1>2 DEF Commanded, Lines
<1>4. Head(cmds) = msg /\ cmds' = <<>>
  BY <1>1, <1>3, LineEnds
<1>5. write_auth_request_if_needed(m)
  BY <1>4 DEF HandleAuthenticate
<1>6. client \in ClientType /\ Up'
  BY <1>1, <1>2 DEF TypeInv, TypeClient, Up
<1>7. CASE Fresh
  <2>1. client' = [client EXCEPT !.method = m, !.sent = TRUE]
    BY <1>5, <1>6, <1>7 DEF write_auth_request_if_needed, Fresh, ClientType
  <2>2. c2s' = c2s \o <<Plain("SERVICE_REQUEST")>> \o <<>>
    BY <1>5, <1>7 DEF write_auth_request_if_needed, Fresh
  <2>3. c2s' = <<Plain("SERVICE_REQUEST")>>
    BY <1>3, <2>2
  <2>4. ServiceAsked'
    BY <1>1, <1>3, <1>4, <1>6, <1>7, <2>1, <2>3 DEF ServiceAsked, Lines, Fresh, ClientType
  <2> QED
    BY <1>1, <1>2, <1>6, <2>4 DEF OwnCall, UnderWay
<1>8. CASE Ready
  <2>1. client' = [client EXCEPT !.method = m, !.current = CurrentOf(m)]
    BY <1>5, <1>6, <1>8 DEF write_auth_request_if_needed, Ready, ClientType
  <2>2. c2s' = c2s \o <<>> \o <<write_auth_request(m)>>
    BY <1>5, <1>8 DEF write_auth_request_if_needed, Ready
  <2>3. c2s' = <<write_auth_request(m)>>
    BY <1>3, <2>2
  <2>4. c2s' = <<Request(m, FALSE, FALSE)>>
    BY <2>3 DEF write_auth_request
  <2>5. Requested'
    BY <1>1, <1>3, <1>4, <1>6, <1>8, <2>1, <2>4 DEF Requested, Lines, Ready, ClientType, Nothing
  <2> QED
    BY <1>1, <1>2, <1>6, <2>5 DEF OwnCall, UnderWay
<1> QED
  BY <1>2, <1>7, <1>8 DEF Commanded

LEMMA WaitOwn ==
  ASSUME TypeInv, OwnCall, WaitInPlace PROVE OwnCall'
<1>1. /\ client.waits # "no" /\ cmds # <<>> /\ cmds' = Tail(cmds) /\ down.client = "no"
      /\ UNCHANGED <<caller, told, replies, s2c, server, granted, down>>
  BY DEF WaitInPlace, ClientRuns, callVars
<1>2. told # "success" /\ ((Up /\ Responding) \/ (Up /\ Signing) \/ Abandoned)
  BY <1>1 DEF OwnCall, UnderWay, Done, Rest, Commanded, ServiceAsked, ServiceGiven, Requested,
              SignatureSent, Responded, Answered, Replied, Challenged, ToSign,
              Unanswered, Lost, Lines
<1>3. client \in ClientType /\ (Up => Up')
  BY <1>1 DEF TypeInv, TypeClient, Up
<1>4. CASE Up /\ Responding
  <2>1. PICK good \in BOOLEAN : Lines(<<[type |-> "AuthInfoResponse", good |-> good]>>, <<>>, <<>>)
    BY <1>4 DEF Responding
  <2> DEFINE c == [type |-> "AuthInfoResponse", good |-> good]
  <2>2. Head(cmds) = c /\ cmds' = <<>> /\ c2s = <<>> /\ replies = <<>>
    BY <1>1, <2>1, LineEnds DEF Lines
  <2>3. c2s' = Append(c2s, InfoResponse(good)) /\ client' = [client EXCEPT !.waits = "no"]
    BY <1>4, <2>2 DEF WaitInPlace, client_send_auth_response, Responding
  <2>4. c2s' = <<InfoResponse(good)>>
    BY <2>2, <2>3
  <2>5. Responded'
    BY <1>1, <1>3, <1>4, <2>2, <2>3, <2>4 DEF Responding, Responded, Lines, Ready, Asking, ClientType
  <2> QED
    BY <1>1, <1>2, <1>3, <1>4, <2>5 DEF OwnCall, UnderWay
<1>5. CASE Up /\ Signing
  <2>1. PICK done \in BOOLEAN : Lines(<<[type |-> "Signed", modified |-> done]>>, <<>>, <<>>)
    BY <1>5 DEF Signing
  <2> DEFINE c == [type |-> "Signed", modified |-> done]
  <2>2. Head(cmds) = c /\ cmds' = <<>> /\ c2s = <<>> /\ replies = <<>>
    BY <1>1, <2>1, LineEnds DEF Lines
  <2>3. /\ c2s' = IF done THEN Append(c2s, client_send_signature(client.method)) ELSE c2s
        /\ client' = [client EXCEPT !.waits = "no", !.method = NoMethod]
    BY <1>5, <2>2 DEF WaitInPlace, Signing
  <2>4. CASE done
    <3>1. c2s' = <<client_send_signature(client.method)>>
      BY <2>2, <2>3, <2>4
    <3>2. c2s' = <<Request(caller.method, TRUE, TRUE)>>
      BY <1>5, <3>1 DEF client_send_signature, Signing, Offering
    <3>3. SignatureSent'
      BY <1>1, <1>3, <1>5, <2>2, <2>3, <3>2
         DEF Signing, SignatureSent, Lines, Ready, Offering, ClientType
    <3> QED
      BY <1>1, <1>2, <1>3, <1>5, <3>3 DEF OwnCall, UnderWay
  <2>5. CASE ~done
    <3>1. Unanswered'
      BY <1>1, <1>3, <1>5, <2>2, <2>3, <2>5
         DEF Signing, Unanswered, Lines, Ready, ClientType, Nothing
    <3> QED
      BY <1>1, <1>2, <3>1 DEF OwnCall, UnderWay
  <2> QED
    BY <2>4, <2>5
<1>6. CASE Abandoned
  <2> DEFINE S == {c \in Command : c.type = "Authenticate"}
  <2>1. Head(cmds) \in S /\ cmds' \in Seq(S)
    BY <1>1, <1>6, HeadTailType DEF Abandoned
  <2>2. UNCHANGED <<c2s, client>>
    BY <2>1 DEF WaitInPlace
  <2>3. Abandoned'
    BY <1>1, <1>6, <2>1, <2>2 DEF Abandoned
  <2> QED
    BY <1>1, <1>2, <2>3 DEF OwnCall, UnderWay
<1> QED
  BY <1>2, <1>4, <1>5, <1>6

LEMMA AcceptOwn ==
  ASSUME TypeInv, CallHasMethod, told # "success", Up, ServiceGiven, ClientReads PROVE OwnCall'
<1>1. /\ s2c' = Tail(s2c) /\ ReadServiceAccept(Head(s2c))
      /\ UNCHANGED <<caller, told, cmds, server, granted>>
  BY DEF ServiceGiven, ClientReads, callVars
<1>2. Head(s2c) = Plain("SERVICE_ACCEPT") /\ (s2c' = <<>> \/ s2c' = Banner)
  BY <1>1, LineEnds, Joined DEF ServiceGiven, Banner
<1>3. Head(s2c).type = "SERVICE_ACCEPT"
  BY <1>2 DEF Plain
<1>4. client \in ClientType /\ caller.at = "wait" /\ client.method = caller.method
  BY DEF TypeInv, TypeClient, ServiceGiven
<1>5. client.method # NoMethod
  BY <1>4, NoMethodIsNone DEF CallHasMethod
<1>6. /\ client' = [client EXCEPT !.accepted = TRUE, !.state = "request",
                      !.current = CurrentOf(client.method)]
      /\ c2s' = Append(c2s, write_auth_request(client.method)) /\ UNCHANGED <<replies, down>>
  BY <1>1, <1>3, <1>4, <1>5 DEF ReadServiceAccept, ClientType
<1>7. c2s' = <<Request(caller.method, FALSE, FALSE)>>
  <2>1. c2s' = <<write_auth_request(client.method)>>
    BY <1>6 DEF ServiceGiven, Lines
  <2> QED
    BY <1>4, <2>1 DEF write_auth_request
<1>8. Up' /\ Requested'
  BY <1>1, <1>2, <1>4, <1>6, <1>7, CurrentType
     DEF ServiceGiven, Requested, Lines, Ready, Nothing, Up, ClientType
<1> QED
  BY <1>1, <1>8 DEF OwnCall, UnderWay

(* The banner is read over. *)
LEMMA BannerOwn ==
  ASSUME TypeInv, client.state = "request", Head(s2c).type = "USERAUTH_BANNER", ClientReads
  PROVE  s2c' = Tail(s2c)
           /\ UNCHANGED <<caller, told, cmds, server, granted, replies, client, c2s, down>>
BY DEF ClientReads, callVars, ReadAuthReply

LEMMA AnswerOwn ==
  ASSUME TypeInv, told # "success", Up, caller.at = "wait", Lines(<<>>, <<>>, <<>>),
         NEW x \in ServerPacket, s2c = <<x>>, AnswerIsOwn(x),
         client.waits = "no", client.state = "request", ClientReads
  PROVE  OwnCall'
<1>1. s2c' = <<>> /\ ReadAuthReply(x) /\ UNCHANGED <<caller, told, cmds, server, granted>>
  BY LineEnds DEF ClientReads, callVars
<1>2. client \in ClientType /\ down \in [client : Endings, server : Endings]
      /\ cmds = <<>> /\ c2s = <<>> /\ replies = <<>>
  BY DEF TypeInv, TypeClient, TypeRest, Lines
<1>3. CASE x.type = "USERAUTH_SUCCESS"
  <2>1. /\ replies' = Append(replies, "AuthSuccess")
        /\ client' = [client EXCEPT !.state = "authenticated"] /\ UNCHANGED <<c2s, down>>
    BY <1>1, <1>3 DEF ReadAuthReply
  <2>2. replies' = <<"AuthSuccess">>
    BY <1>2, <2>1
  <2>3. Up' /\ Lines(<<>>, <<>>, <<"AuthSuccess">>)'
    BY <1>1, <1>2, <2>1, <2>2 DEF Up, Lines
  <2>4. ReplyIsOwn("AuthSuccess")'
    BY <1>1, <1>2, <1>3, <2>1 DEF AnswerIsOwn, ReplyIsOwn, Matched, ClientType
  <2>5. Replied'
    BY <1>1, <2>3, <2>4 DEF Replied, ReplyKind
  <2> QED
    BY <1>1, <2>3, <2>5 DEF OwnCall, UnderWay
<1>4. CASE x.type = "USERAUTH_FAILURE"
  <2>1. /\ replies' = Append(replies, "AuthFailure")
        /\ client' = [client EXCEPT !.method = NoMethod] /\ UNCHANGED c2s
        /\ ClientDies("NoAuthMethod") \/ UNCHANGED down
    BY <1>1, <1>4 DEF ReadAuthReply
  <2>2. replies' = <<"AuthFailure">>
    BY <1>2, <2>1
  <2>3. CASE ClientDies("NoAuthMethod")
    <3>1. Lost'
      BY <1>1, <1>2, <2>2, <2>3 DEF ClientDies, Lost
    <3> QED
      BY <1>1, <3>1 DEF OwnCall, UnderWay
  <2>4. CASE UNCHANGED down
    <3>1. Up' /\ Lines(<<>>, <<>>, <<"AuthFailure">>)'
      BY <1>1, <1>2, <2>1, <2>2, <2>4 DEF Up, Lines
    <3>2. ReplyIsOwn("AuthFailure")'
      BY <1>1, <1>2, <1>4, <2>1 DEF AnswerIsOwn, ReplyIsOwn, Ready, ClientType
    <3>3. Replied'
      BY <1>1, <3>1, <3>2 DEF Replied, ReplyKind
    <3> QED
      BY <1>1, <3>1, <3>3 DEF OwnCall, UnderWay
  <2> QED
    BY <2>1, <2>3, <2>4
<1>5. CASE x.type = "USERAUTH_PK_OK"
  <2>1. ReadInfoRequestOrPkOk(x) /\ Ready /\ Offering
    BY <1>1, <1>5 DEF ReadAuthReply, AnswerIsOwn
  <2>2. CASE caller.method.kind = "future"
    <3>1. /\ replies' = Append(replies, "SignRequest")
          /\ client' = [client EXCEPT !.waits = "signed"] /\ UNCHANGED <<c2s, down>>
      BY <2>1, <2>2 DEF ReadInfoRequestOrPkOk, Offering
    <3>2. replies' = <<"SignRequest">>
      BY <1>2, <3>1
    <3>3. Up' /\ Lines(<<>>, <<>>, <<"SignRequest">>)'
      BY <1>1, <1>2, <3>1, <3>2 DEF Up, Lines
    <3>4. ReplyIsOwn("SignRequest")'
      BY <1>1, <1>2, <2>1, <2>2, <3>1 DEF ReplyIsOwn, Ready, Offering, ClientType
    <3>5. Replied'
      BY <1>1, <3>3, <3>4 DEF Replied, ReplyKind
    <3> QED
      BY <1>1, <3>3, <3>5 DEF OwnCall, UnderWay
  <2>3. CASE caller.method.kind # "future"
    <3>1. /\ c2s' = Append(c2s, client_send_signature(client.method))
          /\ client' = [client EXCEPT !.method = NoMethod] /\ UNCHANGED <<replies, down>>
      BY <2>1, <2>3 DEF ReadInfoRequestOrPkOk, Offering, KeyKinds
    <3>2. c2s' = <<client_send_signature(client.method)>>
      BY <1>2, <3>1
    <3>3. c2s' = <<Request(caller.method, TRUE, TRUE)>>
      BY <2>1, <3>2 DEF Offering, client_send_signature
    <3>4. Up' /\ Lines(<<>>, <<Request(caller.method, TRUE, TRUE)>>, <<>>)'
      BY <1>1, <1>2, <3>1, <3>3 DEF Up, Lines
    <3>5. SignatureSent'
      BY <1>1, <1>2, <2>1, <3>1, <3>4 DEF SignatureSent, Ready, Offering, ClientType
    <3> QED
      BY <1>1, <3>4, <3>5 DEF OwnCall, UnderWay
  <2> QED
    BY <2>2, <2>3
<1>6. CASE x.type = "USERAUTH_INFO_REQUEST"
  <2>1. ReadInfoRequestOrPkOk(x) /\ Ready /\ Asking
    BY <1>1, <1>6 DEF ReadAuthReply, AnswerIsOwn
  <2>2. /\ replies' = Append(replies, "AuthInfoRequest")
        /\ client' = [client EXCEPT !.waits = "responses"] /\ UNCHANGED <<c2s, down>>
    BY <1>6, <2>1 DEF ReadInfoRequestOrPkOk, Asking
  <2>3. replies' = <<"AuthInfoRequest">>
    BY <1>2, <2>2
  <2>4. Up' /\ Lines(<<>>, <<>>, <<"AuthInfoRequest">>)'
    BY <1>1, <1>2, <2>2, <2>3 DEF Up, Lines
  <2>5. ReplyIsOwn("AuthInfoRequest")'
    BY <1>1, <1>2, <2>1, <2>2 DEF ReplyIsOwn, Ready, Asking, ClientType
  <2>6. Replied'
    BY <1>1, <2>4, <2>5 DEF Replied, ReplyKind
  <2> QED
    BY <1>1, <2>4, <2>6 DEF OwnCall, UnderWay
<1> QED
  BY <1>3, <1>4, <1>5, <1>6 DEF AnswerIsOwn

LEMMA ClientReadsOwn ==
  ASSUME TypeInv, CallHasMethod, OwnCall, ClientReads PROVE OwnCall'
<1>1. client.waits = "no" /\ s2c # <<>> /\ down.client = "no"
  BY DEF ClientReads, ClientRuns
<1>2. told # "success"
        /\ ((Up /\ ServiceGiven) \/ (Up /\ Requested) \/ (Up /\ Answered) \/ Unanswered)
  BY <1>1 DEF OwnCall, UnderWay, Done, Rest, Commanded, ServiceAsked, SignatureSent, Responded,
              Replied, Challenged, Responding, ToSign, Signing, Abandoned, Lost
<1>3. CASE Up /\ ServiceGiven
  BY <1>2, <1>3, AcceptOwn
<1>4. CASE (Up /\ Requested) \/ Unanswered
  <2>1. client.state = "request" /\ s2c = Banner
    BY <1>1, <1>4 DEF Requested, Unanswered, Ready, Nothing
  <2>2. s2c' = <<>> /\ UNCHANGED <<caller, told, cmds, server, granted, replies, client, c2s, down>>
    BY <2>1, LineEnds, BannerOwn
  <2>3. Up /\ Requested => Up' /\ Requested'
    BY <2>2 DEF Up, Requested, Lines, Nothing, Ready
  <2>4. Unanswered => Unanswered'
    BY <2>2 DEF Unanswered, Lines, Nothing
  <2> QED
    BY <1>2, <1>4, <2>2, <2>3, <2>4 DEF OwnCall, UnderWay
<1>5. CASE Up /\ Answered
  <2>1. PICK x \in ServerPacket : (s2c = <<x>> \/ s2c = Banner \o <<x>>) /\ AnswerIsOwn(x)
    BY <1>5 DEF Answered
  <2>2. CASE s2c = <<x>>
    BY <1>2, <1>5, <2>1, <2>2, AnswerOwn DEF Answered
  <2>3. CASE s2c = Banner \o <<x>>
    <3>1. /\ s2c' = <<x>>
          /\ UNCHANGED <<caller, told, cmds, server, granted, replies, client, c2s, down>>
      BY <1>5, <2>3, BannerFirst, BannerOwn DEF Answered
    <3>2. AnswerIsOwn(x)'
      BY <2>1, <3>1 DEF AnswerIsOwn, Matched, Ready, Offering, Asking
    <3>3. Up' /\ Answered'
      BY <1>5, <2>1, <3>1, <3>2 DEF Up, Answered, Lines
    <3> QED
      BY <1>2, <3>1, <3>3 DEF OwnCall, UnderWay
  <2> QED
    BY <2>1, <2>2, <2>3
<1> QED
  BY <1>2, <1>3, <1>4, <1>5

(* A verdict or a question of the server is for the call. *)
LEMMA SaysOwn ==
  ASSUME TypeInv, told # "success", Up, caller.at = "wait", client.state = "request",
         client.waits = "no", Nothing, NEW real \in BOOLEAN, Says(caller.method, real),
         ~real => client.method = caller.method \/ caller.method.kind \notin KeyKinds,
         caller.method.kind = "keyboard" <=> client.current = "keyboard",
         Lines(<<>>, <<>>, <<>>)', UNCHANGED <<caller, told, client>>
  PROVE  OwnCall'
<1>1. client \in ClientType
  BY DEF TypeInv, TypeClient
<1>2. ASSUME NEW x \in ServerPacket, s2c' = s2c \o <<x>>, down' = down,
             \/ x.type = "USERAUTH_SUCCESS" /\ Matched'
             \/ x.type = "USERAUTH_FAILURE" /\ Ready'
             \/ x.type = "USERAUTH_PK_OK" /\ Ready' /\ Offering'
             \/ x.type = "USERAUTH_INFO_REQUEST" /\ Ready' /\ Asking'
      PROVE  OwnCall'
  <2>1. s2c' = <<x>> \/ s2c' = Banner \o <<x>>
    BY <1>2, LineEnds DEF Nothing
  <2>2. AnswerIsOwn(x)'
    BY <1>2 DEF AnswerIsOwn
  <2>3. Up' /\ Answered'
    BY <1>2, <2>1, <2>2 DEF Up, Answered
  <2> QED
    BY <2>3 DEF OwnCall, UnderWay
<1>3. CASE down' = down /\ Verdict(caller.method)
  <2>1. PICK x \in ServerPacket :
          /\ s2c' = s2c \o <<x>>
          /\ \/ /\ x.type = "USERAUTH_SUCCESS" /\ granted'.kind = caller.method.kind
                /\ granted'.user = caller.method.user
             \/ x.type = "USERAUTH_FAILURE" /\ server'.state = "request"
    BY <1>3 DEF Verdict
  <2>2. \/ x.type = "USERAUTH_SUCCESS" /\ Matched'
        \/ x.type = "USERAUTH_FAILURE" /\ Ready'
    BY <2>1 DEF Matched, Ready
  <2> QED
    BY <1>2, <1>3, <2>1, <2>2
<1>4. CASE down' = down /\ Question(caller.method, real)
  <2>1. CASE s2c' = s2c \o <<Plain("USERAUTH_PK_OK")>> /\ caller.method.kind \in KeyKinds /\ ~real
    <3>1. Plain("USERAUTH_PK_OK") \in ServerPacket /\ Plain("USERAUTH_PK_OK").type = "USERAUTH_PK_OK"
      BY ServerPacketTypes DEF Plain
    <3>2. client.current = "none"
      BY <1>1, <2>1 DEF ClientType, KeyKinds
    <3>3. Ready' /\ Offering'
      BY <1>4, <2>1, <3>2 DEF Ready, Offering, Question
    <3> QED
      BY <1>2, <1>4, <2>1, <3>1, <3>3
  <2>2. CASE /\ s2c' = s2c \o <<Plain("USERAUTH_INFO_REQUEST")>> /\ caller.method.kind = "keyboard"
             /\ server'.current = "keyboard" /\ server'.user = caller.method.user
    <3>1. /\ Plain("USERAUTH_INFO_REQUEST") \in ServerPacket
          /\ Plain("USERAUTH_INFO_REQUEST").type = "USERAUTH_INFO_REQUEST"
      BY ServerPacketTypes DEF Plain
    <3>2. Ready' /\ Asking'
      BY <1>4, <2>2 DEF Ready, Asking, Question
    <3> QED
      BY <1>2, <1>4, <2>2, <3>1, <3>2
  <2> QED
    BY <1>4, <2>1, <2>2 DEF Question
<1>5. CASE ServerEnds
  <2>1. Unanswered'
    BY <1>5 DEF ServerEnds, Unanswered, Nothing, Up
  <2> QED
    BY <2>1 DEF OwnCall, UnderWay
<1> QED
  BY <1>3, <1>4, <1>5 DEF Says

LEMMA ServiceOwn ==
  ASSUME TypeInv, told # "success", Up, ServiceAsked, ServerReads PROVE OwnCall'
<1>1. /\ c2s = <<Plain("SERVICE_REQUEST")>> /\ cmds = <<>> /\ replies = <<>> /\ s2c = <<>>
      /\ server.state = "service"
  BY DEF ServiceAsked, Lines
<1>2. c2s' = <<>> /\ Head(c2s).type = "SERVICE_REQUEST"
      /\ UNCHANGED <<caller, told, cmds, replies, client>>
  BY <1>1, LineEnds DEF ServerReads, callVars, Plain
<1>3. PICK banner \in BOOLEAN : server_accept_service(banner)
  BY <1>1, <1>2 DEF ServerReads
<1> DEFINE a == Plain("SERVICE_ACCEPT")
           b == Plain("USERAUTH_BANNER")
<1>4. s2c' = s2c \o (<<a>> \o IF banner THEN <<b>> ELSE <<>>) /\ down' = down
  BY <1>3 DEF server_accept_service, Answers
<1>5. server'.state = "request"
  BY <1>3 DEF server_accept_service, Answers, TypeInv, TypeServer, Ours, ServerType
<1>6. s2c' = <<a>> \/ s2c' = <<a>> \o Banner
  <2> HIDE DEF a, b
  <2>1. <<a>> \in Seq({a, b}) /\ <<b>> \in Seq({a, b})
    OBVIOUS
  <2>2. <<a>> \o <<b>> \in Seq({a, b})
    BY <2>1, ConcatType
  <2>3. <<>> \o (<<a>> \o <<b>>) = <<a>> \o <<b>> /\ <<>> \o (<<a>> \o <<>>) = <<a>>
    BY <2>2
  <2> QED
    BY <1>1, <1>4, <2>3 DEF Banner, b
<1>7. Up' /\ ServiceGiven'
  BY <1>1, <1>2, <1>4, <1>5, <1>6 DEF Up, ServiceAsked, ServiceGiven, Lines
<1> QED
  BY <1>2, <1>7 DEF OwnCall, UnderWay

LEMMA ServerKeepsClient ==
  ASSUME TypeInv, ServerReads PROVE down'.client = down.client
<1>1. down \in [client : Endings, server : Endings]
  BY DEF TypeInv, TypeRest
<1>2. down' = down \/ \E why : down' = [down EXCEPT !.server = why]
  BY DEF ServerReads, server_accept_service, server_read_auth_request, ReadKeyboardInteractive,
         read_userauth_info_response, reply_userauth_info_response
<1> QED
  BY <1>1, <1>2

LEMMA ServerReadsOwn ==
  ASSUME TypeInv, CallHasMethod, OwnCall, ServerReads PROVE OwnCall'
<1>1. /\ down.server = "no" /\ c2s # <<>> /\ c2s' = Tail(c2s)
      /\ UNCHANGED <<caller, told, cmds, replies, client>>
  BY DEF ServerReads, callVars
<1>2. told # "success"
        /\ \/ Up /\ ServiceAsked
           \/ Up /\ Requested
           \/ Up /\ SignatureSent
           \/ Up /\ Responded
           \/ Lost
  BY <1>1 DEF OwnCall, UnderWay, Done, Rest, Commanded, ServiceGiven, Answered,
              Replied, Challenged, Responding, ToSign, Signing, Unanswered, Abandoned, Lines
<1> DEFINE m == caller.method
<1>3. CASE Up /\ ServiceAsked
  BY <1>2, <1>3, ServiceOwn
<1>4. ASSUME NEW real \in BOOLEAN, c2s = <<Request(m, real, real)>>, caller.at = "wait",
             server.state = "request"
      PROVE  Says(m, real) /\ c2s' = <<>>
  <2>1. Head(c2s) = Request(m, real, real) /\ c2s' = <<>> /\ Head(c2s).type = "USERAUTH_REQUEST"
    BY <1>1, <1>4, LineEnds DEF Request
  <2>2. server_read_auth_request(Request(m, real, real))
    BY <1>4, <2>1 DEF ServerReads
  <2> QED
    BY <1>4, <2>1, <2>2, RequestSays DEF CallHasMethod
<1>5. CASE Up /\ Requested
  <2>1. Says(m, FALSE) /\ c2s' = <<>>
    BY <1>4, <1>5 DEF Requested, Lines, Ready
  <2>2. m.kind = "keyboard" <=> client.current = "keyboard"
    BY <1>5 DEF Requested, CurrentOf
  <2>3. Lines(<<>>, <<>>, <<>>)'
    BY <1>1, <1>5, <2>1 DEF Requested, Lines
  <2> QED
    BY <1>1, <1>2, <1>5, <2>1, <2>2, <2>3, SaysOwn DEF Requested, Ready
<1>6. CASE Up /\ SignatureSent
  <2>1. Says(m, TRUE) /\ c2s' = <<>>
    BY <1>4, <1>6 DEF SignatureSent, Lines, Ready
  <2>2. Lines(<<>>, <<>>, <<>>)' /\ m.kind # "keyboard" /\ Nothing
    BY <1>1, <1>6, <2>1 DEF SignatureSent, Lines, KeyKinds, Nothing
  <2>3. client.current # "keyboard"
    BY <1>6 DEF SignatureSent
  <2> QED
    BY <1>1, <1>2, <1>6, <2>1, <2>2, <2>3, SaysOwn DEF SignatureSent, Ready
<1>7. CASE Up /\ Responded
  <2>1. PICK good \in BOOLEAN : Lines(<<>>, <<InfoResponse(good)>>, <<>>)
    BY <1>7 DEF Responded
  <2>2. /\ Head(c2s) = InfoResponse(good) /\ c2s' = <<>>
        /\ Head(c2s).type = "USERAUTH_INFO_RESPONSE" /\ Head(c2s).good = good
    BY <1>1, <2>1, LineEnds DEF InfoResponse, Lines
  <2>3. reply_userauth_info_response(server, good)
    BY <1>7, <2>2 DEF ServerReads, Responded, Ready, Asking, read_userauth_info_response
  <2>4. Asked(server) /\ m \in Method /\ down \in [client : Endings, server : Endings]
    BY <1>7 DEF Asked, TypeInv, TypeServer, TypeRest, Ours, Responded, Ready, CallHasMethod
  <2>5. Says(m, FALSE)
    BY <1>7, <2>3, <2>4, ResponseSays DEF Responded, Asking
  <2>6. Lines(<<>>, <<>>, <<>>)' /\ Nothing
    BY <1>1, <1>7, <2>1, <2>2 DEF Responded, Lines, Nothing
  <2> QED
    BY <1>1, <1>2, <1>7, <2>5, <2>6, SaysOwn DEF Responded, Ready, Asking, KeyKinds
<1>8. CASE Lost
  <2>1. down'.client = down.client
    BY ServerKeepsClient
  <2>2. Lost'
    BY <1>1, <1>8, <2>1 DEF Lost
  <2> QED
    BY <1>1, <1>2, <2>2 DEF OwnCall, UnderWay
<1> QED
  BY <1>2, <1>3, <1>5, <1>6, <1>7, <1>8

LEMMA ConnectionLostOwn ==
  ASSUME TypeInv, OwnCall, ConnectionLost PROVE OwnCall'
<1>1. /\ UNCHANGED <<caller, told, cmds, replies, client, c2s, s2c, server, granted>>
      /\ down \in [client : Endings, server : Endings]
  BY DEF ConnectionLost, callVars, TypeInv, TypeRest
<1>2. CASE /\ down.server # "no" /\ down.client = "no" /\ client.waits = "no"
           /\ ClientDies("Disconnect")
  <2>1. Unanswered /\ told # "success"
    BY <1>2 DEF OwnCall, UnderWay, Done, Up, Abandoned, Lost
  <2>2. down'.client = "Disconnect"
    BY <1>1, <1>2 DEF ClientDies
  <2>3. Lost'
    BY <1>1, <2>1, <2>2 DEF Lost, Unanswered, Lines
  <2> QED
    BY <1>1, <2>1, <2>3 DEF OwnCall, UnderWay
<1>3. CASE down.client # "no" /\ down' = [down EXCEPT !.server = "Disconnect"]
  <2>1. Lost /\ told # "success"
    BY <1>3 DEF OwnCall, UnderWay, Done, Up, Unanswered, Abandoned
  <2>2. down'.client = down.client
    BY <1>1, <1>3
  <2>3. Lost'
    BY <1>1, <2>1, <2>2 DEF Lost
  <2> QED
    BY <1>1, <2>1, <2>3 DEF OwnCall, UnderWay
<1> QED
  BY <1>2, <1>3 DEF ConnectionLost

LEMMA MethodStep == TypeInv /\ CallHasMethod /\ [Next]_vars => CallHasMethod'
<1> SUFFICES ASSUME TypeInv, CallHasMethod, [Next]_vars PROVE CallHasMethod'
  OBVIOUS
<1>1. ASSUME NEW m \in Attempts, Authenticate(m) \/ AuthenticateWithKey(m) PROVE CallHasMethod'
  BY <1>1, AuthAssumption DEF Authenticate, AuthenticateWithKey, Starts, Calling, CallHasMethod
<1>2. ASSUME NEW good \in BOOLEAN, Respond(good) PROVE CallHasMethod'
  BY <1>2 DEF Respond, Calling, CallHasMethod
<1>3. ASSUME NEW r \in {"signed", "unsigned", "fails"}, Sign(r) PROVE CallHasMethod'
  BY <1>3 DEF Sign, Calling, CallHasMethod, TypeInv, TypeCaller, CallerType
<1>4. ASSUME NEW q, NEW at, Take(q, at) PROVE CallHasMethod'
  BY <1>4 DEF Take, CallHasMethod, TypeInv, TypeCaller, CallerType
<1>5. CASE CallEnds \/ Cancel
  BY <1>5 DEF CallEnds, Cancel, CallHasMethod, TypeInv, TypeCaller, CallerType
<1>6. CASE UNCHANGED caller
  BY <1>6 DEF CallHasMethod
<1> QED
  BY <1>1, <1>2, <1>3, <1>4, <1>5, <1>6
     DEF Next, CallerStep, TakeReply, TakeKeyboardReply, TakeSignReply, HandleAuthenticate,
         WaitInPlace, ClientReads, ServerReads, ConnectionLost, OtherClientSends, vars, callVars

LEMMA InitOwn == Init => OwnInv
<1> SUFFICES ASSUME Init PROVE OwnInv
  OBVIOUS
<1>1. Up /\ Rest /\ told # "success"
  BY DEF Init, Up, Rest, Lines, Fresh
<1> QED
  BY <1>1 DEF Init, OwnInv, OwnCall, UnderWay, CallHasMethod

LEMMA OwnStep == TypeInv /\ OwnInv /\ [Next]_vars => OwnInv'
<1> SUFFICES ASSUME TypeInv, OwnInv, [Next]_vars PROVE OwnInv'
  OBVIOUS
<1>1. peer' = peer /\ (peer = "russh" \/ peer = "other")
  <2>1. peer' = peer
    BY DEF Next, CallerStep, Authenticate, AuthenticateWithKey, Starts, Respond, Sign, TakeReply,
           TakeKeyboardReply, TakeSignReply, Take, CallEnds, Cancel, HandleAuthenticate,
           WaitInPlace, ClientReads, ServerReads, ConnectionLost, OtherClientSends, vars
  <2> QED
    BY <2>1, AuthAssumption DEF TypeInv, TypeCaller
<1>2. CallHasMethod'
  BY MethodStep DEF OwnInv
<1>3. cancels' \in Nat /\ (cancels' = cancels \/ (cancels' # 0 /\ Cancel))
  <2>0. cancels \in Nat
    BY DEF OwnInv
  <2>1. CASE Cancel
    BY <2>0, <2>1 DEF Cancel
  <2>2. cancels' = cancels \/ Cancel
    BY DEF Next, CallerStep, Authenticate, AuthenticateWithKey, Starts, Respond, Sign,
           TakeReply, TakeKeyboardReply, TakeSignReply, Take, CallEnds, HandleAuthenticate,
           WaitInPlace, ClientReads, ServerReads, ConnectionLost, OtherClientSends, vars, callVars
  <2> QED
    BY <2>0, <2>1, <2>2
<1>4. ASSUME peer = "russh", cancels' = 0 PROVE OwnCall'
  <2>1. OwnCall /\ CallHasMethod /\ ~Cancel
    BY <1>3, <1>4 DEF OwnInv, Cancel
  <2>2. ASSUME NEW m \in Attempts, Authenticate(m) \/ AuthenticateWithKey(m) PROVE OwnCall'
    BY <2>1, <2>2, StartOwn, AuthAssumption DEF Authenticate, AuthenticateWithKey
  <2>3. ASSUME NEW good \in BOOLEAN, Respond(good) PROVE OwnCall'
    BY <2>1, <2>3, RespondOwn
  <2>4. ASSUME NEW r \in {"signed", "unsigned", "fails"}, Sign(r) PROVE OwnCall'
    BY <2>1, <2>4, SignOwn
  <2>5. CASE TakeReply \/ TakeKeyboardReply \/ TakeSignReply \/ CallEnds
    BY <2>1, <2>5, TakeOwn, CallEndsOwn
  <2>6. CASE HandleAuthenticate \/ WaitInPlace
    BY <2>1, <2>6, HandleOwn, WaitOwn
  <2>7. CASE ClientReads \/ ServerReads \/ ConnectionLost
    BY <2>1, <2>7, ClientReadsOwn, ServerReadsOwn, ConnectionLostOwn
  <2>8. CASE OtherClientSends
    BY <1>4, <2>8 DEF OtherClientSends
  <2>9. CASE UNCHANGED vars
    <3>1. /\ UNCHANGED <<caller, told, cmds, replies, client>>
          /\ UNCHANGED <<c2s, s2c, server, granted, down>>
      BY <2>9 DEF vars, callVars
    <3>2. \A x : AnswerIsOwn(x)' <=> AnswerIsOwn(x)
      BY <3>1 DEF AnswerIsOwn, Matched, Ready, Offering, Asking
    <3>3. \A r : ReplyIsOwn(r)' <=> ReplyIsOwn(r)
      BY <3>1 DEF ReplyIsOwn, Matched, Ready, Offering, Asking
    <3>4. Answered => Answered'
      BY <3>1, <3>2 DEF Answered, Lines
    <3>5. Replied => Replied'
      BY <3>1, <3>3 DEF Replied, Lines
    <3>6. (Up => Up') /\ (Ready => Ready') /\ (Fresh => Fresh') /\ (Asking => Asking')
          /\ (Offering => Offering') /\ (Nothing => Nothing')
      BY <3>1 DEF Up, Ready, Fresh, Asking, Offering, Nothing
    <3>7. (Rest => Rest') /\ (Commanded => Commanded') /\ (ServiceAsked => ServiceAsked')
          /\ (ServiceGiven => ServiceGiven')
      BY <3>1, <3>6 DEF Rest, Commanded, ServiceAsked, ServiceGiven, Lines
    <3>8. (Requested => Requested') /\ (SignatureSent => SignatureSent') /\ (Responded => Responded')
      BY <3>1, <3>6 DEF Requested, SignatureSent, Responded, Lines
    <3>9. (Challenged => Challenged') /\ (Responding => Responding') /\ (ToSign => ToSign')
          /\ (Signing => Signing')
      BY <3>1, <3>6 DEF Challenged, Responding, ToSign, Signing, Lines
    <3>10. (Unanswered => Unanswered') /\ (Abandoned => Abandoned') /\ (Lost => Lost')
          /\ (Done => Done')
      BY <3>1, <3>6 DEF Unanswered, Abandoned, Lost, Done, Matched, Lines
    <3> QED
      BY <2>1, <3>1, <3>4, <3>5, <3>6, <3>7, <3>8, <3>9, <3>10 DEF OwnCall, UnderWay
  <2> QED
    BY <2>1, <2>2, <2>3, <2>4, <2>5, <2>6, <2>7, <2>8, <2>9 DEF Next, CallerStep
<1>5. ASSUME peer = "other"
      PROVE  caller'.at = "idle" /\ told' # "success" /\ down'.client \in {"no", "Disconnect"}
  <2>1. caller.at = "idle" /\ told # "success" /\ down.client \in {"no", "Disconnect"}
    BY <1>5 DEF OwnInv
  <2>2. ~CallerStep /\ ~HandleAuthenticate /\ ~WaitInPlace /\ ~ClientReads
    BY <1>5, <2>1 DEF CallerStep, Authenticate, AuthenticateWithKey, Starts, Calling, Respond, Sign,
           TakeReply, TakeKeyboardReply, TakeSignReply, Take, CallEnds, Cancel,
           HandleAuthenticate, WaitInPlace, ClientReads, ClientRuns
  <2>3. CASE ServerReads
    BY <2>1, <2>3, ServerKeepsClient DEF ServerReads, callVars
  <2>4. CASE ConnectionLost
    BY <2>1, <2>4 DEF ConnectionLost, callVars, ClientDies, TypeInv, TypeRest
  <2>5. CASE OtherClientSends \/ UNCHANGED vars
    BY <2>1, <2>5 DEF OtherClientSends, vars, callVars
  <2> QED
    BY <2>2, <2>3, <2>4, <2>5 DEF Next
<1> QED
  BY <1>1, <1>2, <1>3, <1>4, <1>5 DEF OwnInv

LEMMA OwnImplies == TypeInv /\ OwnInv => RepliesAreOwn
<1> SUFFICES ASSUME TypeInv, OwnInv PROVE RepliesAreOwn
  OBVIOUS
<1>1. peer = "russh" \/ peer = "other"
  BY AuthAssumption DEF TypeInv, TypeCaller
<1>2. CASE peer = "other"
  BY <1>2 DEF OwnInv, RepliesAreOwn, Understood, SuccessIsForThisCall
<1>3. CASE peer = "russh" /\ cancels = 0
  <2>1. OwnCall
    BY <1>3 DEF OwnInv
  <2>2. Understood
    BY <2>1 DEF OwnCall, UnderWay, Done, Up, Unanswered, Abandoned, Lost, Understood
  <2>3. SuccessIsForThisCall
    BY <2>1 DEF OwnCall, Done, Matched, SuccessIsForThisCall
  <2> QED
    BY <2>2, <2>3 DEF RepliesAreOwn
<1>4. CASE cancels # 0
  BY <1>4 DEF OwnInv, RepliesAreOwn, Understood, SuccessIsForThisCall
<1> QED
  BY <1>1, <1>2, <1>3, <1>4

(* No reply of the server says which request it answers, and message 60 has  *)
(* two meanings.  All the same, as long as the caller drops no call, the     *)
(* session task never misreads a reply and the caller is told of success     *)
(* only when the server has granted the request of this very call: there is  *)
(* always exactly one request, answer or question under way.                 *)
THEOREM RepliesReachTheirCall == Spec => []RepliesAreOwn
<1>1. Init => TypeInv /\ OwnInv
  BY InitType, InitOwn
<1>2. (TypeInv /\ OwnInv) /\ [Next]_vars => (TypeInv /\ OwnInv)'
  BY TypeStep, OwnStep
<1> QED
  BY <1>1, <1>2, OwnImplies, PTL DEF Spec

=============================================================================
