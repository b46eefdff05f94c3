------------------------------ MODULE HostKeys ------------------------------
(***************************************************************************)
(* Trust on first use across the three places that take part in it: the    *)
(* session route of worker/src/sessions.ts, which keeps the known_hosts    *)
(* document of the user in KV; the SSH handler of zerossh-do, which checks *)
(* the server's key against a thread-local and leaves the key it accepted  *)
(* in another; and the confirmation dialogs of web/src/main.ts.            *)
(*                                                                         *)
(* The thread-locals belong to the WASM instance, so all session objects   *)
(* that the platform puts in one isolate share them, and nothing keeps one *)
(* attempt from setting or taking them between another's set, check and    *)
(* take.  An attempt is one POST of the session route with its session     *)
(* object.                                                                 *)
(***************************************************************************)
EXTENDS Integers, FiniteSets

CONSTANTS
  Hosts,       \* host:port pairs
  Keys,        \* host keys
  NoKey,       \* absent, None or the empty string
  Attempts,    \* connection attempts
  Isolates,    \* isolates that run session objects
  HostOf,      \* the host each attempt connects to
  Placements,  \* how the objects of the attempts may be put into isolates
  MaxChanges   \* bound: times a server changes its key

ASSUME HostKeysAssumption ==
  /\ NoKey \notin Keys
  /\ HostOf \in [Attempts -> Hosts]
  /\ Placements \subseteq [Attempts -> Isolates]
  /\ MaxChanges \in Nat

MaybeKey == Keys \cup {NoKey}

VARIABLES
  isolateOf,   \* the isolate that runs the object of each attempt
  hostKey,     \* the key each server presents
  changes,     \* key changes so far
  known,       \* the known_hosts document in KV
  expected,    \* EXPECTED_HOST_KEY of each isolate
  accepted,    \* ACCEPTED_HOST_KEY of each isolate
  stage,       \* where each attempt stands
  accept,      \* acceptNewHostKey of each attempt
  snap,        \* the copy of known_hosts each attempt has read
  copy,        \* the copy its accept-host-key request has read
  reply,       \* the hostKey in the object's answer
  met,         \* history: the attempts whose handshakes ran in the same isolate
               \* while this one's did, itself included
  presented,   \* ghost: the key the server presented to the attempt
  approved     \* ghost: the (host, key) pairs the user agreed to

hostKeysVars == <<isolateOf, hostKey, changes, known, expected, accepted, stage, accept,
                  snap, copy, reply, met, presented, approved>>

Final == {"idle", "done", "mismatch", "failed", "rejected"}

(* From set_expected_host_key to take_accepted_host_key an attempt works with *)
(* the thread-locals.  A connect() that the object has given up waiting for   *)
(* (timedOut) goes on in the isolate.                                         *)
InHandshake(a) == stage[a] \in {"handshake", "timedOut", "checked"}

Meets(a) == {b \in Attempts : isolateOf[b] = isolateOf[a] /\ InHandshake(b)}

Moves(a, s) == stage' = [stage EXCEPT ![a] = s]

HostKeysInit ==
  /\ isolateOf \in Placements
  /\ hostKey \in [Hosts -> Keys] /\ changes = 0
  /\ known = [h \in Hosts |-> NoKey]
  /\ expected = [i \in Isolates |-> NoKey] /\ accepted = [i \in Isolates |-> NoKey]
  /\ stage = [a \in Attempts |-> "idle"]
  /\ accept = [a \in Attempts |-> FALSE]
  /\ snap = [a \in Attempts |-> known] /\ copy = snap
  /\ reply = [a \in Attempts |-> NoKey]
  /\ met = [a \in Attempts |-> {a}]
  /\ presented = [a \in Attempts |-> NoKey]
  /\ approved = {}

-----------------------------------------------------------------------------
(* The server is set up anew, or another one answers at its address. *)
ServerKeyChanges(h) ==
  /\ changes < MaxChanges
  /\ changes' = changes + 1
  /\ \E k \in Keys : hostKey' = [hostKey EXCEPT ![h] = k]
  /\ UNCHANGED <<isolateOf, known, expected, accepted, stage, accept, snap, copy,
                 reply, met, presented, approved>>

(* The route reads known_hosts.  The frontend sets acceptNewHostKey only on  *)
(* the button it shows after a mismatch.                                     *)
CreateSession(a) ==
  /\ stage[a] = "idle"
  /\ \E acc \in BOOLEAN :
       /\ acc => \E b \in Attempts : HostOf[b] = HostOf[a] /\ stage[b] = "mismatch"
       /\ accept' = [accept EXCEPT ![a] = acc]
  /\ snap' = [snap EXCEPT ![a] = known]
  /\ Moves(a, "connect")
  /\ UNCHANGED <<isolateOf, hostKey, changes, known, expected, accepted, copy,
                 reply, met, presented, approved>>

hostWasKnown(a) == snap[a][HostOf[a]] # NoKey

(* expectedHostKey of the request to the object. *)
expectedHostKey(a) == IF accept[a] THEN NoKey ELSE snap[a][HostOf[a]]

(* The attempts a meets as its handshake begins meet it too. *)
Overlap(a) ==
  [b \in Attempts |-> IF b = a THEN met[a] \cup Meets(a)
                     ELSE IF b \in Meets(a) THEN met[b] \cup {a} ELSE met[b]]

(* Mutant: an unknown host leaves the thread-local as it is. *)
setExpectedIfAny(a) ==
  /\ stage[a] = "connect"
  /\ expected' = [expected EXCEPT ![isolateOf[a]] =
                    IF expectedHostKey(a) = NoKey THEN @ ELSE expectedHostKey(a)]
  /\ Moves(a, "handshake")
  /\ met' = Overlap(a)
  /\ UNCHANGED <<isolateOf, hostKey, changes, known, accepted, accept, snap, copy,
                 reply, presented, approved>>

(* handleConnect of the object, up to the handshake. *)
set_expected_host_key(a) ==
  /\ stage[a] = "connect"
  /\ expected' = [expected EXCEPT ![isolateOf[a]] = expectedHostKey(a)]
  /\ Moves(a, "handshake")
  /\ met' = Overlap(a)
  /\ UNCHANGED <<isolateOf, hostKey, changes, known, accepted, accept, snap, copy,
                 reply, presented, approved>>

(* The outcome reaches the object only if it still waits. *)
Awaited(a, s) == IF stage[a] = "handshake" THEN s ELSE "failed"

(* Mutant: a key that differs is taken as new. *)
check_server_key_lenient(a) ==
  LET i == isolateOf[a]  key == hostKey[HostOf[a]]
  IN  /\ stage[a] \in {"handshake", "timedOut"}
      /\ presented' = [presented EXCEPT ![a] = key]
      /\ accepted' = [accepted EXCEPT ![i] = key]
      /\ Moves(a, Awaited(a, "checked"))
      /\ approved' = IF accept[a] THEN approved \cup {<<HostOf[a], key>>} ELSE approved
      /\ UNCHANGED <<isolateOf, hostKey, changes, known, expected, accept, snap,
                     copy, reply, met>>

(* Mutant: the accepted key is recorded on a first connection only. *)
check_server_key_first(a) ==
  LET i == isolateOf[a]  key == hostKey[HostOf[a]]
  IN  /\ stage[a] \in {"handshake", "timedOut"}
      /\ presented' = [presented EXCEPT ![a] = key]
      /\ \/ /\ expected[i] \in {NoKey, key}
            /\ accepted' = [accepted EXCEPT ![i] = IF expected[i] = NoKey THEN key ELSE @]
            /\ Moves(a, Awaited(a, "checked"))
         \/ /\ expected[i] \notin {NoKey, key}
            /\ UNCHANGED accepted
            /\ Moves(a, Awaited(a, "mismatch"))
      /\ approved' = IF accept[a] THEN approved \cup {<<HostOf[a], key>>} ELSE approved
      /\ UNCHANGED <<isolateOf, hostKey, changes, known, expected, accept, snap,
                     copy, reply, met>>

(* The handler's check, at the end of the initial key exchange, also when    *)
(* the object no longer waits for it.  Whoever asked to accept a new key has *)
(* agreed to the one that turns up here.                                     *)
check_server_key(a) ==
  LET i == isolateOf[a]  key == hostKey[HostOf[a]]
  IN  /\ stage[a] \in {"handshake", "timedOut"}
      /\ presented' = [presented EXCEPT ![a] = key]
      /\ \/ /\ expected[i] \in {NoKey, key}
            /\ accepted' = [accepted EXCEPT ![i] = key]
            /\ Moves(a, Awaited(a, "checked"))
         \/ /\ expected[i] \notin {NoKey, key}
            /\ UNCHANGED accepted
            /\ Moves(a, Awaited(a, "mismatch"))
      /\ approved' = IF accept[a] THEN approved \cup {<<HostOf[a], key>>} ELSE approved
      /\ UNCHANGED <<isolateOf, hostKey, changes, known, expected, accept, snap,
                     copy, reply, met>>

(* The handshake fails before or after the check: authentication, a closed   *)
(* connection, or the timeout, which leaves connect() running: it may still  *)
(* check a key later.  The accepted key is not taken.                        *)
ConnectFails(a) ==
  /\ \/ stage[a] \in {"connect", "handshake", "timedOut", "checked"} /\ Moves(a, "failed")
     \/ stage[a] = "handshake" /\ Moves(a, "timedOut")
  /\ UNCHANGED <<isolateOf, hostKey, changes, known, expected, accepted, accept,
                 snap, copy, reply, met, presented, approved>>

(* The session is up and the object answers with the key it takes. *)
take_accepted_host_key(a) ==
  LET i == isolateOf[a]
  IN  /\ stage[a] = "checked"
      /\ reply' = [reply EXCEPT ![a] = accepted[i]]
      /\ accepted' = [accepted EXCEPT ![i] = NoKey]
      /\ Moves(a, "connected")
      /\ UNCHANGED <<isolateOf, hostKey, changes, known, expected, accept, snap,
                     copy, met, presented, approved>>

(* Mutant: the first key seen is stored without asking. *)
PersistAlways(a) ==
  /\ stage[a] = "connected"
  /\ known' = IF reply[a] # NoKey THEN [snap[a] EXCEPT ![HostOf[a]] = reply[a]] ELSE known
  /\ Moves(a, IF hostWasKnown(a) \/ accept[a] THEN "done" ELSE "confirm")
  /\ UNCHANGED <<isolateOf, hostKey, changes, expected, accepted, accept, snap,
                 copy, reply, met, presented, approved>>

(* The rest of the route: the whole document is written back from the copy   *)
(* read at the start; a host seen for the first time is left to the user.    *)
PersistHostKey(a) ==
  /\ stage[a] = "connected"
  /\ known' = IF reply[a] # NoKey /\ (hostWasKnown(a) \/ accept[a])
              THEN [snap[a] EXCEPT ![HostOf[a]] = reply[a]]
              ELSE known
  /\ Moves(a, IF hostWasKnown(a) \/ accept[a] THEN "done" ELSE "confirm")
  /\ UNCHANGED <<isolateOf, hostKey, changes, expected, accepted, accept, snap,
                 copy, reply, met, presented, approved>>

(* The dialog: without a key there is nothing to confirm.  A rejection ends  *)
(* the session; an acceptance posts the key that was shown.                  *)
handleHostKeyConfirm(a) ==
  /\ stage[a] = "confirm"
  /\ \/ reply[a] = NoKey /\ Moves(a, "done") /\ UNCHANGED approved
     \/ reply[a] # NoKey /\ Moves(a, "rejected") /\ UNCHANGED approved
     \/ /\ reply[a] # NoKey
        /\ Moves(a, "acceptGet")
        /\ approved' = approved \cup {<<HostOf[a], reply[a]>>}
  /\ UNCHANGED <<isolateOf, hostKey, changes, known, expected, accepted, accept,
                 snap, copy, reply, met, presented>>

(* The accept-host-key route: read the document, put it back with the key. *)
AcceptGet(a) ==
  /\ stage[a] = "acceptGet"
  /\ copy' = [copy EXCEPT ![a] = known]
  /\ Moves(a, "acceptPut")
  /\ UNCHANGED <<isolateOf, hostKey, changes, known, expected, accepted, accept,
                 snap, reply, met, presented, approved>>

AcceptPut(a) ==
  /\ stage[a] = "acceptPut"
  /\ known' = [copy[a] EXCEPT ![HostOf[a]] = reply[a]]
  /\ Moves(a, "done")
  /\ UNCHANGED <<isolateOf, hostKey, changes, expected, accepted, accept, snap,
                 copy, reply, met, presented, approved>>

-----------------------------------------------------------------------------
Step(a) ==
  \/ CreateSession(a) \/ set_expected_host_key(a) \/ check_server_key(a) \/ ConnectFails(a)
  \/ take_accepted_host_key(a) \/ PersistHostKey(a)
  \/ handleHostKeyConfirm(a) \/ AcceptGet(a) \/ AcceptPut(a)

HostKeysNext ==
  \/ \E h \in Hosts : ServerKeyChanges(h)
  \/ \E a \in Attempts : Step(a)

HostKeysSpec == HostKeysInit /\ [][HostKeysNext]_hostKeysVars

-----------------------------------------------------------------------------
Stages == Final \cup {"confirm", "connect", "handshake", "timedOut", "checked", "connected",
                      "acceptGet", "acceptPut"}

(* Every variable has its type. *)
HostKeysTypeOK ==
  /\ isolateOf \in Placements
  /\ hostKey \in [Hosts -> Keys] /\ changes \in Nat
  /\ known \in [Hosts -> MaybeKey]
  /\ expected \in [Isolates -> MaybeKey] /\ accepted \in [Isolates -> MaybeKey]
  /\ stage \in [Attempts -> Stages]
  /\ accept \in [Attempts -> BOOLEAN]
  /\ snap \in [Attempts -> [Hosts -> MaybeKey]] /\ copy \in [Attempts -> [Hosts -> MaybeKey]]
  /\ reply \in [Attempts -> MaybeKey] /\ presented \in [Attempts -> MaybeKey]
  /\ met \in [Attempts -> SUBSET Attempts]
  /\ approved \subseteq Hosts \X Keys

Connected(a) == stage[a] \in {"checked", "connected", "confirm", "acceptGet", "acceptPut", "done"}

HasAnswer(a) ==
  stage[a] \in {"connected", "confirm", "acceptGet", "acceptPut", "done", "rejected"}

(* No session is set up with a server whose key differs from the one stored  *)
(* for it, unless the user asked for a new key.  The comparison is with this *)
(* attempt's own expectation when it met no other in its isolate, whatever   *)
(* the isolate did before; otherwise with that of one it met.                *)
OnlyExpectedKey ==
  \A a \in Attempts : Connected(a) =>
    \E b \in met[a] : expectedHostKey(b) \in {NoKey, presented[a]}

(* Conversely the mismatch warning is shown only for a key that differs from *)
(* the stored one, of this attempt or of one it met.                         *)
MismatchIsReal ==
  \A a \in Attempts : stage[a] = "mismatch" =>
    \E b \in met[a] : expectedHostKey(b) \notin {NoKey, presented[a]}

(* lib.rs on take_accepted_host_key: "After a successful connect(), retrieve *)
(* the actual host key the server presented."  It is the key of this attempt *)
(* or of one it met, and missing only if one it met has taken it first.      *)
ReplyIsPresented ==
  \A a \in Attempts : HasAnswer(a) =>
    IF reply[a] = NoKey THEN met[a] # {a}
    ELSE \E b \in met[a] : reply[a] = presented[b]

(* What a connect route does with the host key (the verdict, the warning,    *)
(* the key the browser is asked to trust) is right for this attempt or for   *)
(* one whose handshake ran in the same isolate at the same time: the         *)
(* thread-locals of handler.rs, set and taken around awaits, mix those and   *)
(* no others, not even attempts that failed or timed out before.             *)
VerdictIsTrue == HostKeysTypeOK /\ OnlyExpectedKey /\ MismatchIsReal /\ ReplyIsPresented

(* The key came in the answer of an attempt on h that met another one. *)
Mixed(h, k) == \E a \in Attempts : HostOf[a] = h /\ met[a] # {a} /\ reply[a] = k

(* Whatever is stored as the key of a host is a key the user agreed to for   *)
(* that host, however routes that write the whole document interleave; only  *)
(* the answer of an attempt that met another in its isolate may bring one    *)
(* nobody agreed to.                                                         *)
KnownIsApproved ==
  \A h \in Hosts : known[h] # NoKey => <<h, known[h]>> \in approved \/ Mixed(h, known[h])

(* The stronger claims do not hold. *)

(* Every attempt is checked against its own expectation. *)
OwnExpectedKey ==
  \A a \in Attempts : Connected(a) => expectedHostKey(a) \in {NoKey, presented[a]}

(* Every attempt answers with the key its own server presented. *)
OwnReply == \A a \in Attempts : HasAnswer(a) => reply[a] = presented[a]

(* Only keys that the user agreed to for a host are stored for it. *)
OnlyApproved == \A h \in Hosts : known[h] # NoKey => <<h, known[h]>> \in approved

(* Keys are stored for good: no step makes a known host unknown again. *)
KeysNotForgotten ==
  [][\A h \in Hosts : known[h] # NoKey => known'[h] # NoKey]_hostKeysVars
=============================================================================
