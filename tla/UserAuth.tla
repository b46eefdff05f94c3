------------------------------ MODULE UserAuth ------------------------------
(***************************************************************************)
(* User authentication (RFC 4252, 4256) as russh runs it on both sides:    *)
(* the task that calls Handle::authenticate_*, the client's session task   *)
(* it talks to over two queues, the two directions of the connection, and  *)
(* the server's session task with the application's Handler.               *)
(*                                                                         *)
(* Names, passwords, keys and signatures are abstracted to a method record *)
(* that says whether the Handler authorises the credential for the user.   *)
(* The server also meets clients that are not russh and send the messages  *)
(* of RFC 4252 in any order.                                               *)
(***************************************************************************)
EXTENDS Naturals, Sequences

CONSTANTS
  Users,
  Attempts,     \* the methods the caller, or another client, may try
  Proceed,      \* method sets the Handler may answer a rejection with
  ConfigMethods,\* Config::methods of the server
  MaxAuthAttempts, \* Config::max_auth_attempts
  Clients,      \* {"russh"}, {"other"} or both
  MaxCalls,     \* bound: authenticate_* calls, or messages of another client
  MaxCancels,   \* bound: calls whose future is dropped
  MaxPrompts    \* bound: INFO_REQUESTs of the server

(* auth::Method, and what the server-side Handler thinks of its credential. *)
(* A certificate may also have expired, an algorithm be unknown, or the     *)
(* request name another service or hold a key that does not decode.         *)
Kinds == {"none", "password", "publickey", "cert", "future", "keyboard", "hostbased"}
KeyKinds == {"publickey", "cert", "future"}
Method == [kind : Kinds, user : Users, cred : {"good", "bad", "expired", "unknown", "malformed"}]
NoMethod == [kind |-> "no method"]

(* MethodKind, as it is named in a USERAUTH_REQUEST. *)
MethodKinds == {"none", "password", "publickey", "keyboard", "hostbased"}
KindName(k) == IF k \in KeyKinds THEN "publickey" ELSE k

ASSUME AuthAssumption ==
  /\ Attempts \subseteq Method
  /\ Proceed \subseteq SUBSET MethodKinds /\ ConfigMethods \subseteq MethodKinds
  /\ Clients \subseteq {"russh", "other"}
  /\ {MaxAuthAttempts, MaxCalls, MaxCancels, MaxPrompts} \subseteq Nat

NoUser == "no user"

VARIABLES
  peer,     \* whose client it is
  caller,   \* the task that authenticates: where its call is, and its method
  cmds,     \* Msg queue from the Handle to the session task
  replies,  \* Reply queue from the session task to the Handle
  client,   \* state of the client session
  c2s, s2c, \* packets on their way
  server,   \* state of the server session
  told,     \* what the caller was last told: nothing, failure, success
  granted,  \* the request the server has granted, NoMethod before
  ignored,  \* the session task has discarded a call, or had nothing to send for it
  down,     \* the error a session task has ended with, "no" while it runs
  calls, cancels, prompts

callVars == <<caller, told, calls, cancels>>
vars == <<peer, callVars, cmds, replies, client, c2s, s2c, server, granted, ignored, down, prompts>>

-----------------------------------------------------------------------------
(* Packets. *)
Request(m, real, sig) ==
  [type |-> "USERAUTH_REQUEST", method |-> m, real |-> real, sig |-> sig]
Failure(methods, partial) ==
  [type |-> "USERAUTH_FAILURE", methods |-> methods, partial |-> partial]
Plain(t) == [type |-> t]
InfoResponse(good) == [type |-> "USERAUTH_INFO_RESPONSE", good |-> good]

(* Mutant: no current request is kept for keyboard-interactive. *)
CurrentOfNone(m) == "none"

(* AuthRequest::new: only keyboard-interactive is a current request. *)
CurrentOf(m) == IF m.kind = "keyboard" THEN "keyboard" ELSE "none"

Init ==
  /\ peer \in Clients
  /\ caller = [at |-> "idle", method |-> NoMethod] /\ told = "nothing"
  /\ cmds = <<>> /\ replies = <<>> /\ c2s = <<>> /\ s2c = <<>>
  /\ client = [state |-> "service", sent |-> FALSE, accepted |-> FALSE,
               method |-> NoMethod, current |-> "none", waits |-> "no"]
  /\ server = [state |-> "service", user |-> NoUser, methods |-> ConfigMethods,
               partial |-> FALSE, current |-> "none", asker |-> NoUser, attempts |-> 0,
               rejections |-> 0]
  /\ granted = NoMethod /\ ignored = FALSE
  /\ down = [client |-> "no", server |-> "no"]
  /\ calls = 0 /\ cancels = 0 /\ prompts = 0

-----------------------------------------------------------------------------
(* The calling task.  A call sends one message and waits; Handle takes       *)
(* &mut self, so there is one call at a time.                                *)
Calling(m, msg) ==
  /\ peer = "russh" /\ down.client = "no"
  /\ cmds' = Append(cmds, msg)
  /\ caller' = [at |-> "wait", method |-> m]

Starts(m) ==
  /\ caller.at \in {"idle", "challenge"} /\ told # "success" /\ calls < MaxCalls
  /\ calls' = calls + 1
  /\ Calling(m, [type |-> "Authenticate", method |-> m])
  /\ UNCHANGED <<peer, told, cancels, replies, client, c2s, s2c, server, granted, ignored, down,
                 prompts>>

(* authenticate_none, _password and _keyboard_interactive_start.  A caller   *)
(* that was handed a challenge may try something else instead of answering.  *)
Authenticate(m) == m.kind \notin KeyKinds /\ Starts(m)

(* authenticate_publickey, _openssh_cert and _publickey_with. *)
AuthenticateWithKey(m) == m.kind \in KeyKinds /\ Starts(m)

(* authenticate_keyboard_interactive_respond. *)
Respond(good) ==
  /\ caller.at = "challenge"
  /\ Calling(caller.method, [type |-> "AuthInfoResponse", good |-> good])
  /\ UNCHANGED <<peer, told, calls, cancels, replies, client, c2s, s2c, server, granted, ignored,
                 down, prompts>>

(* authenticate_publickey_with has been asked for a signature: the signer    *)
(* appends one to the data, returns the data as it was (an agent's answer it *)
(* does not know) or fails, and with it the call.                            *)
Sign(result) ==
  /\ caller.at = "sign"
  /\ IF result = "fails"
       THEN caller' = [caller EXCEPT !.at = "idle"] /\ UNCHANGED cmds
       ELSE Calling(caller.method, [type |-> "Signed", modified |-> result = "signed"])
  /\ UNCHANGED <<peer, told, calls, cancels, replies, client, c2s, s2c, server, granted, ignored,
                 down, prompts>>

(* Mutant: a reply that is not a refusal is taken for success. *)
TakeLoose(question, at) ==
  /\ caller.at = "wait" /\ replies # <<>>
  /\ replies' = Tail(replies)
  /\ told' = (IF Head(replies) = "AuthFailure" THEN "failure" ELSE "success")
  /\ caller' = [caller EXCEPT !.at = "idle"]
  /\ UNCHANGED <<peer, calls, cancels, cmds, client, c2s, s2c, server, granted, ignored, down,
                 prompts>>

(* A call takes replies until one concerns it: a verdict, or the question    *)
(* its method leads to; the others are skipped.                              *)
Take(question, at) ==
  /\ caller.at = "wait" /\ replies # <<>>
  /\ replies' = Tail(replies)
  /\ LET r == Head(replies) IN
     /\ told' = CASE r = "AuthSuccess" -> "success" [] r = "AuthFailure" -> "failure"
                  [] OTHER -> told
     /\ caller' = [caller EXCEPT !.at = CASE r \in {"AuthSuccess", "AuthFailure"} -> "idle"
                                          [] r = question -> at
                                          [] OTHER -> "wait"]
  /\ UNCHANGED <<peer, calls, cancels, cmds, client, c2s, s2c, server, granted, ignored, down,
                 prompts>>

(* wait_recv_reply, wait_recv_keyboard_interactive_reply and the loop of     *)
(* authenticate_publickey_with.                                              *)
TakeReply == caller.method.kind \notin {"keyboard", "future"} /\ Take("none", "wait")
TakeKeyboardReply == caller.method.kind = "keyboard" /\ Take("AuthInfoRequest", "challenge")
TakeSignReply == caller.method.kind = "future" /\ Take("SignRequest", "sign")

(* The reply queue ends with the session task: the call returns as refused.  *)
CallEnds ==
  /\ caller.at = "wait" /\ replies = <<>> /\ down.client # "no"
  /\ caller' = [caller EXCEPT !.at = "idle"] /\ told' = "failure"
  /\ UNCHANGED <<peer, calls, cancels, cmds, replies, client, c2s, s2c, server, granted, ignored,
                 down, prompts>>

(* The caller drops the future of its call, for instance on a timeout. *)
Cancel ==
  /\ caller.at \in {"wait", "sign"} /\ cancels < MaxCancels
  /\ cancels' = cancels + 1 /\ caller' = [caller EXCEPT !.at = "idle"]
  /\ UNCHANGED <<peer, told, calls, cmds, replies, client, c2s, s2c, server, granted, ignored,
                 down, prompts>>

-----------------------------------------------------------------------------
(* The client's session task. *)
ClientRuns == peer = "russh" /\ down.client = "no"
ClientDies(why) == down' = [down EXCEPT !.client = why]

(* write_auth_request: a key is only offered, not yet used. *)
write_auth_request(m) == Request(m, FALSE, FALSE)

(* client_send_signature, over client_make_to_sign. *)
client_send_signature(m) == Request(m, TRUE, TRUE)

client_send_auth_response(good) == InfoResponse(good)

(* write_auth_request_if_needed: at once if the server waits for requests;   *)
(* otherwise the service is requested, once, and the method kept for its     *)
(* SERVICE_ACCEPT.                                                           *)
write_auth_request_if_needed(m) ==
  LET waiting == client.state = "request" \/ (client.state = "service" /\ client.accepted)
      asks == client.state = "service" /\ ~client.sent IN
  /\ c2s' = c2s \o (IF asks THEN <<Plain("SERVICE_REQUEST")>> ELSE <<>>)
                \o (IF waiting THEN <<write_auth_request(m)>> ELSE <<>>)
  /\ client' = [client EXCEPT !.method = m, !.sent = @ \/ asks,
                  !.state = IF waiting THEN "request" ELSE @,
                  !.current = IF waiting THEN CurrentOf(m) ELSE @]

(* handle_msg: a Signed or AuthInfoResponse nobody waits for is dropped. *)
HandleAuthenticate ==
  /\ ClientRuns /\ client.waits = "no" /\ cmds # <<>>
  /\ cmds' = Tail(cmds)
  /\ IF Head(cmds).type = "Authenticate"
       THEN write_auth_request_if_needed(Head(cmds).method)
       ELSE UNCHANGED <<client, c2s>>
  /\ UNCHANGED <<peer, callVars, replies, s2c, server, granted, ignored, down, prompts>>

(* The two loops of process_packet that wait in place for one message of the *)
(* Handle and throw every other one away.  The reader, the timers and the    *)
(* other messages stand still meanwhile.                                     *)
WaitInPlace ==
  /\ ClientRuns /\ client.waits # "no" /\ cmds # <<>>
  /\ cmds' = Tail(cmds)
  /\ LET c == Head(cmds) IN
     CASE client.waits = "responses" /\ c.type = "AuthInfoResponse" ->
            /\ c2s' = Append(c2s, client_send_auth_response(c.good))
            /\ client' = [client EXCEPT !.waits = "no"] /\ UNCHANGED ignored
       [] client.waits = "signed" /\ c.type = "Signed" ->
            /\ c2s' = IF c.modified THEN Append(c2s, client_send_signature(client.method)) ELSE c2s
            /\ client' = [client EXCEPT !.waits = "no", !.method = NoMethod]
            /\ ignored' = (ignored \/ ~c.modified)
       [] OTHER -> ignored' = (ignored \/ c.type = "Authenticate") /\ UNCHANGED <<c2s, client>>
  /\ UNCHANGED <<peer, callVars, replies, s2c, server, granted, down, prompts>>

(* Mutant: the request is sent and the state left as it was. *)
ReadServiceAcceptStays(p) ==
  /\ UNCHANGED replies
  /\ IF p.type = "SERVICE_ACCEPT"
       THEN /\ client' = [client EXCEPT !.accepted = TRUE] /\ UNCHANGED down
            /\ c2s' = Append(c2s, write_auth_request(client.method))
       ELSE ClientDies("Inconsistent") /\ UNCHANGED <<client, c2s>>

(* WaitingAuthServiceRequest: anything but SERVICE_ACCEPT is an error. *)
ReadServiceAccept(p) ==
  /\ UNCHANGED replies
  /\ IF p.type = "SERVICE_ACCEPT"
       THEN /\ UNCHANGED down
            /\ client' = [client EXCEPT !.accepted = TRUE,
                            !.state = IF client.method # NoMethod THEN "request" ELSE @,
                            !.current = IF client.method # NoMethod
                                        THEN CurrentOf(client.method) ELSE @]
            /\ c2s' = IF client.method # NoMethod
                      THEN Append(c2s, write_auth_request(client.method)) ELSE c2s
       ELSE ClientDies("Inconsistent") /\ UNCHANGED <<client, c2s>>

(* Message 60 means USERAUTH_PK_OK or USERAUTH_INFO_REQUEST, depending on    *)
(* what the client thinks it asked last: a PK_OK read as an INFO_REQUEST     *)
(* does not decode.  A key is signed with, a signer is asked to.             *)
ReadInfoRequestOrPkOk(p) ==
  CASE client.current = "keyboard" /\ p.type = "USERAUTH_INFO_REQUEST" ->
         /\ replies' = Append(replies, "AuthInfoRequest")
         /\ client' = [client EXCEPT !.waits = "responses"] /\ UNCHANGED <<c2s, down>>
    [] client.current = "keyboard" /\ p.type = "USERAUTH_PK_OK" ->
         ClientDies("SshEncoding") /\ UNCHANGED <<client, c2s, replies>>
    [] client.current # "keyboard" /\ client.method.kind \in {"publickey", "cert"} ->
         /\ c2s' = Append(c2s, client_send_signature(client.method))
         /\ client' = [client EXCEPT !.method = NoMethod] /\ UNCHANGED <<replies, down>>
    [] client.current # "keyboard" /\ client.method.kind = "future" ->
         /\ replies' = Append(replies, "SignRequest")
         /\ client' = [client EXCEPT !.waits = "signed"] /\ UNCHANGED <<c2s, down>>
    [] OTHER -> client' = [client EXCEPT !.method = NoMethod] /\ UNCHANGED <<c2s, replies, down>>

(* WaitingAuthRequest.  The loop turns InitCompression into Authenticated    *)
(* before it reads the next packet.                                          *)
ReadAuthReply(p) ==
  CASE p.type = "USERAUTH_SUCCESS" ->
         /\ replies' = Append(replies, "AuthSuccess")
         /\ client' = [client EXCEPT !.state = "authenticated"] /\ UNCHANGED <<c2s, down>>
    [] p.type = "USERAUTH_BANNER" -> UNCHANGED <<replies, client, c2s, down>>
    [] p.type = "USERAUTH_FAILURE" ->
         /\ replies' = Append(replies, "AuthFailure")
         /\ client' = [client EXCEPT !.method = NoMethod] /\ UNCHANGED c2s
         /\ IF p.methods = {} THEN ClientDies("NoAuthMethod") ELSE UNCHANGED down
    [] p.type \in {"USERAUTH_PK_OK", "USERAUTH_INFO_REQUEST"} -> ReadInfoRequestOrPkOk(p)
    [] OTHER -> ClientDies("Inconsistent") /\ UNCHANGED <<replies, client, c2s>>

(* process_packet of the client; Authenticated ignores what it does not know. *)
ClientReads ==
  /\ ClientRuns /\ client.waits = "no" /\ s2c # <<>>
  /\ s2c' = Tail(s2c)
  /\ CASE client.state = "service" -> ReadServiceAccept(Head(s2c))
       [] client.state = "request" -> ReadAuthReply(Head(s2c))
       [] OTHER -> UNCHANGED <<replies, client, c2s, down>>
  /\ UNCHANGED <<peer, callVars, cmds, server, granted, ignored, prompts>>

-----------------------------------------------------------------------------
(* The server's session task.  Each operator gives the next state of the     *)
(* server from sv, the state it has already been brought to.                 *)
Answers(sv, packets) == server' = sv /\ s2c' = s2c \o packets

(* What the Handler may answer to a credential: it accepts only what it      *)
(* authorises, and may ask for a further method all the same.                *)
Same == {"the same methods"}
Rejections == [proceed : Proceed \cup {Same}, partial : BOOLEAN]
Accepts(m) == m.cred = "good"

(* Mutant: the current request survives its rejection. *)
reject_auth_request_keeps(sv) ==
  /\ Answers([sv EXCEPT !.rejections = @ + 1], <<Failure(sv.methods, sv.partial)>>)
  /\ UNCHANGED granted

reject_auth_request(sv) ==
  /\ Answers([sv EXCEPT !.current = "none", !.rejections = @ + 1],
             <<Failure(sv.methods, sv.partial)>>)
  /\ UNCHANGED granted

(* InitCompression replaces the AuthRequest, and its current request with it. *)
server_auth_request_success(sv, m) ==
  /\ Answers([sv EXCEPT !.state = "init", !.current = "none"],
             <<Plain("USERAUTH_SUCCESS")>>)
  /\ granted' = m

(* The methods that are left after a rejection. *)
MethodsAfter(v, otherwise) == IF v.proceed # Same THEN v.proceed ELSE otherwise

(* SERVICE_REQUEST for ssh-userauth: accepted, with a banner or without. *)
server_accept_service(banner) ==
  /\ Answers([server EXCEPT !.state = "request", !.methods = ConfigMethods, !.partial = FALSE,
                            !.current = "none", !.rejections = 0],
             <<Plain("SERVICE_ACCEPT")>> \o IF banner THEN <<Plain("USERAUTH_BANNER")>> ELSE <<>>)
  /\ UNCHANGED <<granted, down, prompts>>

(* password and none.  Whatever the Handler said about a partial success,    *)
(* the flag is cleared before the rejection is sent.                         *)
ReadPassword(sv, m) ==
  \/ Accepts(m) /\ server_auth_request_success([sv EXCEPT !.user = m.user], m)
  \/ \E v \in Rejections :
       reject_auth_request([sv EXCEPT !.user = NoUser, !.partial = FALSE,
                                      !.methods = MethodsAfter(v, @ \ {"password"})])

ReadNone(sv, m) ==
  \/ Accepts(m) /\ server_auth_request_success(sv, m)
  \/ \E v \in Rejections :
       reject_auth_request([sv EXCEPT !.user = NoUser, !.partial = FALSE,
                                      !.methods = MethodsAfter(v, @ \ {"none"})])

(* reply_userauth_info_response, for the user the server has on record. *)
reply_userauth_info_response(sv, good) ==
  \/ /\ good /\ UNCHANGED <<down, prompts>>
     /\ server_auth_request_success(sv, [kind |-> "keyboard", user |-> sv.user, cred |-> "good"])
  \/ /\ UNCHANGED <<down, prompts>>
     /\ \E v \in Rejections :
          reject_auth_request([sv EXCEPT !.methods = MethodsAfter(v, @), !.partial = v.partial])
  \/ /\ prompts < MaxPrompts /\ prompts' = prompts + 1
     /\ Answers(sv, <<Plain("USERAUTH_INFO_REQUEST")>>) /\ UNCHANGED <<granted, down>>
  \/ /\ down' = [down EXCEPT !.server = "UnsupportedAuthMethod"]
     /\ server' = sv /\ UNCHANGED <<s2c, granted, prompts>>

(* keyboard-interactive: the Handler is asked before there is a response, and *)
(* may accept a user from whom it needs none.                                *)
ReadKeyboardInteractive(sv, m) ==
  reply_userauth_info_response([sv EXCEPT !.user = m.user, !.current = "keyboard",
                                          !.asker = m.user], Accepts(m))

(* The Handler's verdict on a key that was signed with; a rejection forgets  *)
(* the user.                                                                 *)
AuthPublickey(sv, m) ==
  \/ Accepts(m) /\ server_auth_request_success(sv, m)
  \/ \E v \in Rejections :
       reject_auth_request([sv EXCEPT !.user = NoUser, !.partial = FALSE,
                                      !.methods = MethodsAfter(v, @)])

(* Mutant: after a PK_OK any user may be signed for. *)
ReadSignatureAnyUser(sv, m, sig) ==
  IF sv.current = "publickey" /\ sig THEN AuthPublickey(sv, m) ELSE reject_auth_request(sv)

(* A signed request: the Handler must have accepted the offer of a key for   *)
(* this user, just before or now, and the signature must verify.             *)
ReadSignature(sv, m, sig) ==
  LET Verified(s) == IF sig THEN AuthPublickey(s, m) ELSE reject_auth_request(s)
      asUser == [sv EXCEPT !.user = m.user] IN
  IF sv.current = "publickey" /\ m.user = sv.user THEN Verified(sv)
  ELSE IF sv.user = NoUser
       THEN Verified([asUser EXCEPT !.asker = m.user]) \/ reject_auth_request(asUser)
       ELSE reject_auth_request(sv)

(* An offered key, which the Handler may accept whether or not it will       *)
(* accept its signature.                                                     *)
ReadOffer(sv, m) ==
  \/ /\ Answers([sv EXCEPT !.user = m.user, !.current = "publickey", !.asker = m.user],
                <<Plain("USERAUTH_PK_OK")>>)
     /\ UNCHANGED granted
  \/ \E v \in Rejections :
       reject_auth_request([sv EXCEPT !.user = NoUser, !.partial = FALSE,
                                      !.methods = MethodsAfter(v, @)])

(* server_read_auth_request_pk: a key or certificate that is not usable is   *)
(* rejected before the user is looked at.                                    *)
server_read_auth_request_pk(sv, p) ==
  IF p.method.cred \in {"unknown", "expired"} THEN reject_auth_request(sv)
  ELSE IF p.real THEN ReadSignature(sv, p.method, p.sig) ELSE ReadOffer(sv, p.method)

(* server_read_auth_request, and the attempt counted after it. *)
server_read_auth_request(p) ==
  LET sv == [server EXCEPT !.attempts = @ + 1]
      m == p.method IN
  IF m.cred = "malformed"
    THEN down' = [down EXCEPT !.server = "Inconsistent"] /\ UNCHANGED <<server, s2c, granted, prompts>>
  ELSE IF m.kind = "keyboard" THEN ReadKeyboardInteractive(sv, m)
  ELSE /\ UNCHANGED <<down, prompts>>
       /\ CASE m.kind = "password" -> ReadPassword(sv, m)
            [] m.kind = "none" -> ReadNone(sv, m)
            [] m.kind \in KeyKinds -> server_read_auth_request_pk(sv, p)
            [] OTHER -> reject_auth_request(sv)

(* read_userauth_info_response: only while a keyboard-interactive request is *)
(* the current one.                                                          *)
read_userauth_info_response(p) ==
  IF server.current = "keyboard" THEN reply_userauth_info_response(server, p.good)
  ELSE reject_auth_request(server) /\ UNCHANGED <<down, prompts>>

(* Mutant: any message ends the authentication, as after InitCompression. *)
ServerReadsEarly ==
  /\ down.server = "no" /\ c2s # <<>>
  /\ c2s' = Tail(c2s)
  /\ LET p == Head(c2s) IN
     CASE server.state = "service" /\ p.type = "SERVICE_REQUEST" ->
            \E banner \in BOOLEAN : server_accept_service(banner)
       [] server.state = "request" /\ p.type = "USERAUTH_REQUEST" -> server_read_auth_request(p)
       [] OTHER -> /\ server' = [server EXCEPT !.state = "authenticated"]
                   /\ UNCHANGED <<s2c, granted, down, prompts>>
  /\ UNCHANGED <<peer, callVars, cmds, replies, client, ignored>>

(* process_packet of the server: what the state does not wait for is ignored. *)
ServerReads ==
  /\ down.server = "no" /\ c2s # <<>>
  /\ c2s' = Tail(c2s)
  /\ LET p == Head(c2s) IN
     CASE server.state = "service" /\ p.type = "SERVICE_REQUEST" ->
            \E banner \in BOOLEAN : server_accept_service(banner)
       [] server.state = "request" /\ p.type = "USERAUTH_REQUEST" -> server_read_auth_request(p)
       [] server.state = "request" /\ p.type = "USERAUTH_INFO_RESPONSE" ->
            read_userauth_info_response(p)
       [] server.state \in {"init", "authenticated"} ->
            /\ server' = [server EXCEPT !.state = "authenticated"]
            /\ UNCHANGED <<s2c, granted, down, prompts>>
       [] OTHER -> UNCHANGED <<server, s2c, granted, down, prompts>>
  /\ UNCHANGED <<peer, callVars, cmds, replies, client, ignored>>

(* A session task that has ended has closed the connection, which the other  *)
(* one reads once it has read everything else.                               *)
ConnectionLost ==
  /\ \/ /\ down.server # "no" /\ down.client = "no" /\ s2c = <<>> /\ client.waits = "no"
        /\ ClientDies("Disconnect")
     \/ /\ down.client # "no" /\ down.server = "no" /\ c2s = <<>>
        /\ down' = [down EXCEPT !.server = "Disconnect"]
  /\ UNCHANGED <<peer, callVars, cmds, replies, client, c2s, s2c, server, granted, ignored,
                 prompts>>

(* Another client: any message of RFC 4252, signatures that do not verify    *)
(* included, and messages of the connection protocol.                        *)
OtherPackets ==
  LET keys == {m \in Attempts : m.kind \in KeyKinds}
      unusable == [kind : {"publickey"}, user : Users, cred : {"unknown", "malformed"}]
      hostbased == [kind : {"hostbased"}, user : Users, cred : {"good"}] IN
  {Request(m, FALSE, FALSE) : m \in Attempts \cup unusable \cup hostbased}
    \cup {Request(m, TRUE, TRUE) : m \in keys} \cup {Request(m, TRUE, FALSE) : m \in keys}
    \cup {InfoResponse(g) : g \in BOOLEAN}
    \cup {Plain("SERVICE_REQUEST"), Plain("CHANNEL_OPEN")}

OtherClientSends ==
  /\ peer = "other" /\ calls < MaxCalls /\ c2s = <<>>
  /\ \E p \in OtherPackets : c2s' = <<p>>
  /\ calls' = calls + 1 /\ s2c' = <<>>
  /\ UNCHANGED <<peer, caller, told, cancels, cmds, replies, client, server, granted, ignored,
                 down, prompts>>

-----------------------------------------------------------------------------
CallerStep ==
  \/ \E m \in Attempts : Authenticate(m) \/ AuthenticateWithKey(m)
  \/ \E good \in BOOLEAN : Respond(good)
  \/ \E result \in {"signed", "unsigned", "fails"} : Sign(result)
  \/ TakeReply \/ TakeKeyboardReply \/ TakeSignReply \/ CallEnds \/ Cancel

Next == CallerStep \/ HandleAuthenticate \/ WaitInPlace \/ ClientReads \/ ServerReads
          \/ ConnectionLost \/ OtherClientSends

Spec == Init /\ [][Next]_vars

(* The session tasks and the transport run; the caller takes the replies of  *)
(* its call, answers a request to sign, and answers a challenge or tries     *)
(* something else.                                                           *)
FairSpec ==
  /\ Spec
  /\ WF_vars(HandleAuthenticate \/ WaitInPlace) /\ WF_vars(ClientReads) /\ WF_vars(ServerReads)
  /\ WF_vars(ConnectionLost) /\ WF_vars(TakeReply \/ TakeKeyboardReply \/ TakeSignReply \/ CallEnds)
  /\ WF_vars(\E result \in {"signed", "unsigned", "fails"} : Sign(result))

-----------------------------------------------------------------------------
ClientPacket ==
  [type : {"USERAUTH_REQUEST"}, method : Method, real : BOOLEAN, sig : BOOLEAN]
    \cup [type : {"USERAUTH_INFO_RESPONSE"}, good : BOOLEAN]
    \cup [type : {"SERVICE_REQUEST", "CHANNEL_OPEN"}]
ServerPacket ==
  [type : {"USERAUTH_FAILURE"}, methods : SUBSET MethodKinds, partial : BOOLEAN]
    \cup [type : {"SERVICE_ACCEPT", "USERAUTH_BANNER", "USERAUTH_SUCCESS", "USERAUTH_PK_OK",
                  "USERAUTH_INFO_REQUEST"}]

Endings ==
  {"no", "NoAuthMethod", "Inconsistent", "SshEncoding", "UnsupportedAuthMethod", "Disconnect"}

(* The variables have their types. *)
TypeOK ==
  /\ peer \in Clients
  /\ caller \in [at : {"idle", "wait", "challenge", "sign"}, method : Method \cup {NoMethod}]
  /\ \A i \in DOMAIN replies :
       replies[i] \in {"AuthSuccess", "AuthFailure", "AuthInfoRequest", "SignRequest"}
  /\ client \in [state : {"service", "request", "authenticated"}, sent : BOOLEAN,
                  accepted : BOOLEAN, method : Method \cup {NoMethod},
                  current : {"none", "keyboard"}, waits : {"no", "responses", "signed"}]
  /\ \A i \in DOMAIN c2s : c2s[i] \in ClientPacket
  /\ \A i \in DOMAIN s2c : s2c[i] \in ServerPacket
  /\ server \in [state : {"service", "request", "init", "authenticated"},
                  user : Users \cup {NoUser}, methods : SUBSET MethodKinds, partial : BOOLEAN,
                  current : {"none", "keyboard", "publickey"}, asker : Users \cup {NoUser},
                  attempts : Nat, rejections : Nat]
  /\ told \in {"nothing", "failure", "success"} /\ granted \in Method \cup {NoMethod}
  /\ ignored \in BOOLEAN /\ down \in [client : Endings, server : Endings]

(* A conversation the server has open (a keyboard-interactive exchange or an *)
(* offered key it has answered with PK_OK) is with the user it was opened    *)
(* for: no request in between can make the Handler judge the responses, or   *)
(* the server take the signature, of one user for another.                   *)
CurrentIsOfUser == server.current # "none" => server.user = server.asker

(* A key is only granted to the user for whom the Handler accepted the offer *)
(* of one in this conversation.                                              *)
KeyWasOffered == granted.kind \in KeyKinds => granted.user = server.asker

(* The server's state of a conversation, which every USERAUTH_REQUEST        *)
(* rewrites, never carries a decision from one user to another.              *)
SameUser == TypeOK /\ CurrentIsOfUser /\ KeyWasOffered

(* Without a call that was dropped, the russh client and the russh server    *)
(* never fail to understand each other: message 60, which has two meanings,  *)
(* included.                                                                 *)
Understood == down.client \in {"no", "NoAuthMethod", "Disconnect"} \/ cancels > 0

(* A caller that has not dropped a call is told of success only when the     *)
(* server has granted the very request of that call.                         *)
SuccessIsForThisCall ==
  told = "success" /\ cancels = 0 =>
    granted.kind = caller.method.kind /\ granted.user = caller.method.user

(* The replies of a caller that drops no call are understood by its session  *)
(* and are those to its own call, although no reply says what it answers.    *)
RepliesAreOwn == Understood /\ SuccessIsForThisCall

(* Every call returns, unless the caller left a challenge or a request to    *)
(* sign unanswered before it, or the signer did not sign.                    *)
CallReturns == caller.at = "wait" ~> (caller.at # "wait" \/ ignored)

Service == INSTANCE AuthService WITH
  Authorised <- [kind : Kinds, user : Users, cred : {"good"}], NoDecision <- NoMethod,
  decided <- granted, served <- server.state = "authenticated"

(* The two state machines implement the service: whatever is dropped, sent   *)
(* out of order or answered late, the server decides once and for an         *)
(* authorised credential, the caller hears of success only after it, and no  *)
(* message of the connection protocol is served before it.                   *)
ImplementsService == Service!Spec

(* "Maximal number of allowed authentication attempts." *)
AttemptsBounded == server.attempts <= MaxAuthAttempts
=============================================================================
