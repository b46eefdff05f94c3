----------------------------------- MODULE Agent -----------------------------------
(***************************************************************************)
(* The SSH agent of russh (keys/agent/client.rs, server.rs): clients with  *)
(* a connection each, one server task per connection, and the store of     *)
(* keys and the lock that the tasks share.                                 *)
(*                                                                         *)
(* A task reads the lock, awaits Agent::confirm_request and only then acts, *)
(* so what it found may have changed.  A key with a lifetime is removed by  *)
(* a timer of its own, which must not take away a key added anew.  The      *)
(* client writes a request and reads the next reply: nothing but their      *)
(* order says which reply belongs to which request.                         *)
(*                                                                         *)
(* SystemTime::now gives an addition any time: a later one than all before, *)
(* or one that an earlier addition was given, for the clock has a           *)
(* resolution and may be set back.  Only whether two times are equal is     *)
(* ever asked.                                                              *)
(***************************************************************************)
EXTENDS Naturals, Sequences, SequencesExt, FiniteSets

CONSTANTS
    Conns,      \* connections to the agent
    Keys,       \* keys a client may hold
    RsaKeys,    \* the RSA keys among them
    Setups      \* the programs of the clients to check, see SetupOK

\* The methods of AgentClient.  clear is the message of remove_all_identities as a client
\* that writes its length sends it (external).
SmartcardOps == {"add_smartcard", "remove_smartcard"}
UnframedOps == {"remove_all", "extension", "query_extension"}
SignOps == {"sign", "sign_base64", "sign_signature"}
Ops == SmartcardOps \cup UnframedOps \cup SignOps
        \cup {"add", "lock", "unlock", "identities", "remove", "clear"}

\* Constraint; a passphrase is a sequence, for lock appends to what is there.
Constraints == {"KeyLifetime", "Confirm", "Extensions"}

RequestOK(r) ==
    /\ r.op \in Ops
    /\ r.op \in SignOps \cup {"add", "remove"} => r.key \in Keys
    /\ r.op = "add" => r.constraints \in Seq(Constraints)
    /\ r.op \in SignOps => r.hash \in BOOLEAN
    /\ r.op \in {"lock", "unlock"} => r.password \in Seq(STRING)

\* A program is the requests of each connection in order, and whether it may drop a call.
SetupOK(s) ==
    /\ s.drops \in BOOLEAN
    /\ \A c \in Conns :
          /\ Len(s.program[c]) \in Nat
          /\ \A i \in 1 .. Len(s.program[c]) : RequestOK(s.program[c][i])

ASSUME SetupsAssumption == \A s \in Setups : SetupOK(s)
ASSUME KeysAssumption == RsaKeys \subseteq Keys

VARIABLES
    setup,     \* the programs, never changed
    pc,        \* per connection: how many calls its client has made
    result,    \* per connection: the outcome of the last call; waiting, or none
    requests,  \* per connection: frames on the way to the server
    replies,   \* per connection: replies on the way to the client
    task,      \* per connection: what its server task is doing
    keys,      \* KeyStore: per key, when it was added (0: absent) and how
    lock,      \* Lock: the passphrase that unlocks, empty when unlocked
    timers,    \* the lifetime timers that have not fired
    now,       \* the latest time an addition was given
    added,     \* the number of additions (for the properties)
    did,       \* per connection: what the server did for the last call (for the properties)
    signed_locked  \* a signature was made while the agent was locked (for the properties)

vars == <<setup, pc, result, requests, replies, task, keys, lock, timers, now, added, did,
          signed_locked>>

Absent == [at |-> 0, of |-> 0, lifetime |-> FALSE, confirm |-> FALSE]

Init ==
    /\ setup \in Setups
    /\ pc = [c \in Conns |-> 0]
    /\ result = [c \in Conns |-> "none"]
    /\ requests = [c \in Conns |-> <<>>]
    /\ replies = [c \in Conns |-> <<>>]
    /\ task = [c \in Conns |-> [state |-> "reading"]]
    /\ keys = [k \in Keys |-> Absent]
    /\ lock = <<>>
    /\ timers = {}
    /\ now = 0
    /\ added = 0
    /\ did = [c \in Conns |-> "nothing"]
    /\ signed_locked = FALSE

-----------------------------------------------------------------------------
\* The client.

Frame(r) == [type |-> "frame", request |-> r]

\* A message whose length was left at zero: an empty frame, and bytes that the reader
\* takes for the length of a frame longer than all that ever follows.
Unframed == <<[type |-> "empty"], [type |-> "rest"]>>

\* add_identity .. query_extension: what goes on the wire.  remove_all_identities never
\* writes the length, extension and query_extension append it at the end.
Encoded(r) ==
    IF r.op \in UnframedOps THEN Unframed ELSE <<Frame(r)>>

\* The client calls a method: the request is written whole before the reply is read.
Call(c) ==
    /\ result[c] # "waiting" /\ pc[c] < Len(setup.program[c])
    /\ pc' = [pc EXCEPT ![c] = @ + 1]
    /\ requests' = [requests EXCEPT ![c] = @ \o Encoded(setup.program[c][pc[c] + 1])]
    /\ result' = [result EXCEPT ![c] = "waiting"]
    /\ did' = [did EXCEPT ![c] = "nothing"]
    /\ UNCHANGED <<setup, replies, task, keys, lock, timers, now, added, signed_locked>>

\* read_success: the first byte decides.
read_success(reply) == IF reply.first = "SUCCESS" THEN "Ok" ELSE "AgentFailure"

\* write_signature: the signature must be of the type asked for.
write_signature(r, reply) ==
    IF r.key \in RsaKeys /\ r.hash /\ ~reply.hashed THEN "AgentProtocolError" ELSE "Ok"

\* sign_request: a signature, a refusal, or something else.
sign_request(r, reply) ==
    CASE reply.first = "SIGN_RESPONSE" -> write_signature(r, reply)
      [] reply.first = "FAILURE" -> "AgentFailure"
      [] OTHER -> "AgentProtocolError"

\* sign_request_base64: anything but a signature is an empty string.
sign_request_base64(reply) == IF reply.first = "SIGN_RESPONSE" THEN "Ok" ELSE "Empty"

\* sign_request_signature: anything but a signature is a protocol error.
sign_request_signature(reply) ==
    IF reply.first = "SIGN_RESPONSE" THEN "Ok" ELSE "AgentProtocolError"

\* query_extension: anything but a success is a no.
query_extension(reply) == IF reply.first = "SUCCESS" THEN "Ok" ELSE "Empty"

\* request_identities: anything but an answer is an empty list.
request_identities(reply) == IF reply.first = "IDENTITIES_ANSWER" THEN "Ok" ELSE "Empty"

\* What a method makes of the reply it reads; lock, unlock, remove_identity, the smartcard
\* methods and extension only wait for one.
Outcome(r, reply) ==
    CASE r.op \in {"add", "remove_all", "clear"} -> read_success(reply)
      [] r.op = "sign" -> sign_request(r, reply)
      [] r.op = "sign_base64" -> sign_request_base64(reply)
      [] r.op = "sign_signature" -> sign_request_signature(reply)
      [] r.op = "identities" -> request_identities(reply)
      [] r.op = "query_extension" -> query_extension(reply)
      [] OTHER -> "Ok"

\* read_response: the next reply on the stream, whichever call it answers.
ReadResponse(c) ==
    /\ result[c] = "waiting" /\ replies[c] # <<>>
    /\ result' = [result EXCEPT ![c] = Outcome(setup.program[c][pc[c]], Head(replies[c]))]
    /\ replies' = [replies EXCEPT ![c] = Tail(@)]
    /\ UNCHANGED <<setup, pc, requests, task, keys, lock, timers, now, added, did, signed_locked>>

\* The future of a call is dropped after the request was written.
Drop(c) ==
    /\ setup.drops /\ result[c] = "waiting"
    /\ result' = [result EXCEPT ![c] = "dropped"]
    /\ UNCHANGED <<setup, pc, requests, replies, task, keys, lock, timers, now, added, did,
                   signed_locked>>

-----------------------------------------------------------------------------
\* The server.

Reply(c, reply) ==
    /\ replies' = [replies EXCEPT ![c] = Append(@, reply)]
    /\ task' = [task EXCEPT ![c] = [state |-> "reading"]]

Failed == [first |-> "FAILURE"]
Succeeded == [first |-> "SUCCESS"]

\* The request is the one the client waits for, so did is about it.
Did(c, r, what) ==
    did' = IF pc[c] > 0 /\ setup.program[c][pc[c]] = r THEN [did EXCEPT ![c] = what] ELSE did

\* The message types respond understands; unlock needs the lock, the others its absence.
Understood == SignOps \cup {"add", "lock", "unlock", "identities", "remove", "clear"}
Admitted(r, is_locked) == r.op \in Understood /\ (r.op = "unlock") = is_locked

\* The mutant of ReadRequest that is silent on what is not admitted.
ReadRequestSilent(c) ==
    /\ task[c].state = "reading" /\ requests[c] # <<>>
    /\ requests' = [requests EXCEPT ![c] = Tail(@)]
    /\ LET m == Head(requests[c]) IN
       CASE m.type = "rest" ->
              task' = [task EXCEPT ![c] = [state |-> "swallowing"]] /\ UNCHANGED replies
         [] m.type = "empty" -> Reply(c, Failed)
         [] OTHER ->
              IF Admitted(m.request, lock # <<>>)
              THEN /\ task' = [task EXCEPT ![c] = [state |-> "asking", request |-> m.request]]
                   /\ UNCHANGED replies
              ELSE UNCHANGED <<task, replies>>
    /\ UNCHANGED <<setup, pc, result, keys, lock, timers, now, added, did, signed_locked>>

\* Connection::run: a frame is read; the start of respond: the lock is read, and
\* confirm_request awaited for a message that is admitted.
ReadRequest(c) ==
    /\ task[c].state = "reading" /\ requests[c] # <<>>
    /\ requests' = [requests EXCEPT ![c] = Tail(@)]
    /\ LET m == Head(requests[c]) IN
       CASE m.type = "rest" ->
              task' = [task EXCEPT ![c] = [state |-> "swallowing"]] /\ UNCHANGED replies
         [] m.type = "empty" -> Reply(c, Failed)
         [] OTHER ->
              IF Admitted(m.request, lock # <<>>)
              THEN /\ task' = [task EXCEPT ![c] = [state |-> "asking", request |-> m.request]]
                   /\ UNCHANGED replies
              ELSE Reply(c, Failed)
    /\ UNCHANGED <<setup, pc, result, keys, lock, timers, now, added, did, signed_locked>>

\* confirm_request says no: the guard of the arm fails.
Refuse(c) ==
    /\ task[c].state = "asking"
    /\ Reply(c, Failed)
    /\ UNCHANGED <<setup, pc, result, requests, keys, lock, timers, now, added, did, signed_locked>>

\* confirm_request has agreed to a request of this operation.
Agreed(c, ops) == task[c].state = "asking" /\ task[c].request.op \in ops

\* Where the constraints, read in order, hold one that is not known; 0 if nowhere.
UnknownAt(cs) == SelectInSeq(cs, LAMBDA x : x = "Extensions")

HasBefore(cs, x) ==
    \E i \in DOMAIN cs : cs[i] = x /\ (UnknownAt(cs) = 0 \/ i < UnknownAt(cs))

\* The addition of a key: what is stored, and the timer that a lifetime starts; of is the
\* number of the addition.
Stamp(cs, at) == [at |-> at, of |-> added + 1, lifetime |-> HasBefore(cs, "KeyLifetime"),
                  confirm |-> HasBefore(cs, "Confirm")]
Timer(k, at, n) == [key |-> k, at |-> at, of |-> n]

\* The mutant of add_key that starts the timer of another time.
add_key_stale(c) ==
    /\ Agreed(c, {"add"})
    /\ \E at \in 1 .. now + 1 :
         LET r == task[c].request
             cs == r.constraints
         IN /\ now' = IF at > now THEN at ELSE now
            /\ added' = added + 1
            /\ timers' = IF HasBefore(cs, "KeyLifetime")
                         THEN timers \cup {Timer(r.key, at - 1, added + 1)} ELSE timers
            /\ keys' = IF UnknownAt(cs) # 0 THEN keys ELSE [keys EXCEPT ![r.key] = Stamp(cs, at)]
            /\ Did(c, r, IF UnknownAt(cs) # 0 THEN "refused" ELSE "stored")
    /\ Reply(c, Succeeded)
    /\ UNCHANGED <<setup, pc, result, requests, lock, signed_locked>>

\* add_key: SUCCESS is in the reply before the constraints are read, so that a constraint
\* the agent does not know leaves the key out, its timers started, and the reply a success
\* followed by a failure.
add_key(c) ==
    /\ Agreed(c, {"add"})
    /\ \E at \in 1 .. now + 1 :
         LET r == task[c].request
             cs == r.constraints
         IN /\ now' = IF at > now THEN at ELSE now
            /\ added' = added + 1
            /\ timers' = IF HasBefore(cs, "KeyLifetime")
                         THEN timers \cup {Timer(r.key, at, added + 1)} ELSE timers
            /\ keys' = IF UnknownAt(cs) # 0 THEN keys ELSE [keys EXCEPT ![r.key] = Stamp(cs, at)]
            /\ Did(c, r, IF UnknownAt(cs) # 0 THEN "refused" ELSE "stored")
    /\ Reply(c, Succeeded)
    /\ UNCHANGED <<setup, pc, result, requests, lock, signed_locked>>

\* The mutant of Expire that takes away whatever has the key's name.
ExpireAny(t) ==
    /\ t \in timers
    /\ timers' = timers \ {t}
    /\ keys' = [keys EXCEPT ![t.key] = Absent]
    /\ UNCHANGED <<setup, pc, result, requests, replies, task, lock, now, added, did, signed_locked>>

\* The task add_key spawns: the key is removed if it is still the one it was started for.
Expire(t) ==
    /\ t \in timers
    /\ timers' = timers \ {t}
    /\ keys' = IF keys[t.key].at = t.at THEN [keys EXCEPT ![t.key] = Absent] ELSE keys
    /\ UNCHANGED <<setup, pc, result, requests, replies, task, lock, now, added, did, signed_locked>>

\* The mutant of try_sign that says it signed with a key it has lost.
try_sign_any(c) ==
    /\ Agreed(c, SignOps)
    /\ LET r == task[c].request IN
       /\ Reply(c, [first |-> "SIGN_RESPONSE", hashed |-> FALSE])
       /\ IF keys[r.key] = Absent THEN UNCHANGED did ELSE Did(c, r, "signed")
       /\ signed_locked' = (signed_locked \/ lock # <<>>)
    /\ UNCHANGED <<setup, pc, result, requests, keys, lock, timers, now, added>>

\* try_sign: the key is looked up and signs; a Confirm constraint asks nobody, and the
\* hash the request names is not read.
try_sign(c) ==
    /\ Agreed(c, SignOps)
    /\ LET r == task[c].request IN
       IF keys[r.key] = Absent
       THEN Reply(c, Failed) /\ UNCHANGED <<did, signed_locked>>
       ELSE /\ Reply(c, [first |-> "SIGN_RESPONSE", hashed |-> FALSE])
            /\ Did(c, r, "signed")
            /\ signed_locked' = (signed_locked \/ lock # <<>>)
    /\ UNCHANGED <<setup, pc, result, requests, keys, lock, timers, now, added>>

\* respond: request identities.
IdentitiesAnswer(c) ==
    /\ Agreed(c, {"identities"})
    /\ Reply(c, [first |-> "IDENTITIES_ANSWER",
                 listed |-> {k \in Keys : keys[k] # Absent}])
    /\ UNCHANGED <<setup, pc, result, requests, keys, lock, timers, now, added, did, signed_locked>>

\* remove_identity.
remove_identity(c) ==
    /\ Agreed(c, {"remove"})
    /\ LET k == task[c].request.key IN
       /\ Reply(c, IF keys[k] = Absent THEN Failed ELSE Succeeded)
       /\ keys' = [keys EXCEPT ![k] = Absent]
    /\ UNCHANGED <<setup, pc, result, requests, lock, timers, now, added, did, signed_locked>>

\* respond: remove all identities.
RemoveAll(c) ==
    /\ Agreed(c, {"clear"})
    /\ keys' = [x \in Keys |-> Absent]
    /\ Reply(c, Succeeded)
    /\ UNCHANGED <<setup, pc, result, requests, lock, timers, now, added, did, signed_locked>>

\* lock: the passphrase is appended to what is there.
lock_agent(c) ==
    /\ Agreed(c, {"lock"})
    /\ lock' = lock \o task[c].request.password
    /\ Reply(c, Succeeded)
    /\ UNCHANGED <<setup, pc, result, requests, keys, timers, now, added, did, signed_locked>>

\* unlock: the whole of it must match.
unlock_agent(c) ==
    /\ Agreed(c, {"unlock"})
    /\ IF task[c].request.password = lock
       THEN lock' = <<>> /\ Reply(c, Succeeded)
       ELSE UNCHANGED lock /\ Reply(c, Failed)
    /\ UNCHANGED <<setup, pc, result, requests, keys, timers, now, added, did, signed_locked>>

\* Connection::respond after confirm_request: one task of serve.
Respond(c) ==
    \/ add_key(c) \/ try_sign(c) \/ IdentitiesAnswer(c) \/ remove_identity(c)
    \/ RemoveAll(c) \/ lock_agent(c) \/ unlock_agent(c)

Serve(c) == ReadRequest(c) \/ Refuse(c) \/ Respond(c)

Next ==
    \/ \E c \in Conns : Call(c) \/ ReadResponse(c) \/ Drop(c) \/ Serve(c)
    \/ \E t \in timers : Expire(t)

Spec == Init /\ [][Next]_vars

\* The clients read what they wait for, and the runtime polls every task.
FairSpec ==
    /\ Spec
    /\ \A c \in Conns : WF_vars(ReadResponse(c)) /\ WF_vars(Serve(c))

-----------------------------------------------------------------------------
\* Properties.

\* Types; a timer was started by an addition, and no key is newer than the last one.
TypeOK ==
    /\ setup \in Setups
    /\ \A c \in Conns :
          /\ pc[c] \in 0 .. Len(setup.program[c])
          /\ result[c] \in {"none", "waiting", "dropped", "Ok", "Empty", "AgentFailure",
                            "AgentProtocolError"}
          /\ task[c].state \in {"reading", "asking", "swallowing"}
          /\ \A i \in DOMAIN requests[c] : requests[c][i].type \in {"frame", "empty", "rest"}
          /\ \A i \in DOMAIN replies[c] : replies[c][i].first \in
                {"SUCCESS", "FAILURE", "SIGN_RESPONSE", "IDENTITIES_ANSWER"}
          /\ did[c] \in {"nothing", "stored", "refused", "signed"}
    /\ now \in Nat /\ added \in Nat /\ signed_locked \in BOOLEAN
    /\ keys \in [Keys -> [at : 0 .. now, of : 0 .. added, lifetime : BOOLEAN,
                          confirm : BOOLEAN]]
    /\ timers \subseteq [key : Keys, at : 1 .. now, of : 1 .. added]
    /\ lock \in Seq(STRING)

\* The client of c has not lost count of its replies: it dropped no call and sent no
\* message without a length.
InStep(c) ==
    /\ ~setup.drops
    /\ \A i \in 1 .. pc[c] :
          setup.program[c][i].op \notin UnframedOps

(***************************************************************************)
(* AgentClient::add_identity and sign_request against the agent's server:   *)
(* the outcome is what the agent did with this very request, however the    *)
(* requests of other connections, expiring keys and locks come in between.  *)
(* An addition with a constraint the agent does not know is left out: it    *)
(* reports a success and stores nothing (server.rs:302).                    *)
(***************************************************************************)
OutcomeIsTrue ==
    \A c \in Conns :
        LET r == setup.program[c][pc[c]] IN
        InStep(c) /\ pc[c] > 0 =>
            /\ r.op = "add" /\ UnknownAt(r.constraints) = 0 =>
                 /\ result[c] = "Ok" => did[c] = "stored"
                 /\ result[c] = "AgentFailure" => did[c] = "nothing"
            /\ r.op \in SignOps =>
                 /\ result[c] = "Ok" => did[c] = "signed"
                 /\ result[c] = "AgentFailure" => did[c] = "nothing"

\* The timer of the addition that stored k; a timer goes off.
OwnTimer(k) == Timer(k, keys[k].at, keys[k].of)
Fires(t) == t \in timers /\ t \notin timers'

(***************************************************************************)
(* Constraint::KeyLifetime: a key with a lifetime that is in the store has  *)
(* a timer that will remove it, whatever was added, removed and added again. *)
(***************************************************************************)
LifetimeHeld ==
    \A k \in Keys : keys[k].lifetime => OwnTimer(k) \in timers

(***************************************************************************)
(* The timers of add_key: a key leaves the store because a client removes   *)
(* it or because its own timer, and no other, goes off in this very step;   *)
(* or the clock gave two additions of the key one time, and the timer of    *)
(* the other one goes off.                                                  *)
(***************************************************************************)
LeavesInTime ==
    [][\A k \in Keys :
         keys[k] # Absent /\ keys'[k] = Absent =>
            \/ \E c \in Conns : remove_identity(c) \/ RemoveAll(c)
            \/ keys[k].lifetime /\ Fires(OwnTimer(k))
            \/ \E t \in timers : /\ Fires(t) /\ t.key = k
                                /\ t.at = keys[k].at /\ t.of # keys[k].of]_vars

(***************************************************************************)
(* A key with a lifetime has its own timer, and no timer of an addition     *)
(* made at another time removes it, however often the key is added, with    *)
(* this lifetime or another, and removed in between.                        *)
(***************************************************************************)
Lifetimes == [](TypeOK /\ LifetimeHeld) /\ LeavesInTime

(***************************************************************************)
(* "time == now" in the task of add_key (server.rs:290): the key that is    *)
(* removed is the one the timer was started for.  A clock that gives two    *)
(* additions of a key one time lets the timer of one take away the other.   *)
(***************************************************************************)
OwnTimerOnly ==
    [][\A k \in Keys :
         keys[k] # Absent /\ keys'[k] = Absent =>
            \/ \E c \in Conns : remove_identity(c) \/ RemoveAll(c)
            \/ keys[k].lifetime /\ Fires(OwnTimer(k))]_vars

(***************************************************************************)
(* AgentClient::read_response returns: the agent answers every request of a *)
(* client that counts its replies, understood or not, locked or not.        *)
(***************************************************************************)
CallsReturn ==
    \A c \in Conns : (result[c] = "waiting" /\ InStep(c)) ~> (result[c] # "waiting")

(***************************************************************************)
(* AgentClient::lock, "making it refuse to sign until unlocked": no         *)
(* signature is made while the agent is locked.                             *)
(***************************************************************************)
LockStopsSigning == ~signed_locked

=============================================================================
