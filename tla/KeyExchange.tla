----------------------------- MODULE KeyExchange -----------------------------
(***************************************************************************)
(* The SSH key exchange of russh as its client and its server run it       *)
(* against each other: the negotiation, the first exchange, re-exchanges   *)
(* that either side, or both at once, may start, and the sequence numbers  *)
(* that strict key exchange resets.  A key is the number of the exchange   *)
(* that made it, its direction, and the cipher and MAC it is used with; a  *)
(* packet remembers the key and the sequence number it was sealed with,    *)
(* and opening it with any others is what a wrong MAC is.                  *)
(*                                                                         *)
(* A session task handles one event at a time (a packet, a message of its  *)
(* handle or a timer) and flushes what it wrote, so an action is one       *)
(* iteration of its loop.  The transport keeps packets in order.  The      *)
(* order of a strict first exchange is checked (validate_*_msg_strict_kex) *)
(* only when strict_kex is set and nothing is encrypted yet, which one     *)
(* step changes together: that check never runs and is left out.           *)
(***************************************************************************)
EXTENDS Integers, Sequences, Negotiation

CONSTANTS
  Algorithms,  \* the names that are in use: methods, extensions, host keys, ciphers, MACs
  Setups,      \* how the two sides may be set up, see IsSetup
  MaxMessages  \* bound: messages of the application and keepalives

Peers == {"client", "server"}
Other(p) == IF p = "client" THEN "server" ELSE "client"

(* pref: Preferred of each side; keys: the server's host keys; guess: the    *)
(* client announces and sends a guess; noise: an IGNORE precedes the         *)
(* server's KEXINIT (russh does neither, other implementations may);         *)
(* keepalive: the keepalive timers are on; rekeys: bound on the re-exchanges *)
(* that are started.                                                         *)
IsSetup(s) ==
  /\ \A p \in Peers, l \in {"kex", "key", "cipher", "mac", "compression"} :
       s.pref[p][l] \in Seq(Algorithms)
  /\ s.keys \in Seq(STRING)
  /\ {s.guess, s.noise, s.keepalive} \subseteq BOOLEAN /\ s.rekeys \in Nat

ASSUME KexAssumption == (\A s \in Setups : IsSetup(s)) /\ MaxMessages \in Nat

VARIABLES
  setup,    \* one of Setups
  kex,      \* SessionKexState and the exchange's state: idle, created, group
            \* (waits for the group exchange), dh (for the DH message), newkeys
  names,    \* Names of the exchange, or of the last one
  encrypted, strict,
  wkey, rkey, wseq, rseq,  \* the keys and sequence numbers of PacketWriter and reader
  done,     \* exchanges finished
  net,      \* packets on their way to a peer
  dead,     \* why the session task of a peer has ended, "no" while it runs
  checked,  \* check_server_key has accepted the host key
  rekeys, messages,
  late      \* sides that wrote between their NEWKEYS and their new keys (for the properties)

keyVars == <<wkey, rkey, wseq, rseq>>
vars == <<setup, kex, names, encrypted, strict, keyVars, done, net, dead, checked,
          rekeys, messages, late>>

KexTypes == {"KEXINIT", "ECDH_INIT", "ECDH_REPLY", "GEX_REQUEST", "GEX_GROUP", "GEX_INIT",
             "GEX_REPLY", "NEWKEYS"}
OtherTypes == {"DATA", "ANSWER", "KEEPALIVE", "EXT_INFO", "IGNORE"}

Key == [n : Nat, letter : {"none", "C", "D"}, cipher : Algorithms \cup {"none", "clear"},
        mac : Algorithms \cup {"none"}]
Clear == [n |-> 0, letter |-> "none", cipher |-> "clear", mac |-> "none"]
Packet == [type : KexTypes \cup OtherTypes, key : Key, seq : Nat]

-----------------------------------------------------------------------------
(* The packets of the given types, sealed one after the other. *)
Sealed(p, types) ==
  [i \in 1..Len(types) |-> [type |-> types[i], key |-> wkey[p], seq |-> wseq[p] + i - 1]]

(* The lists of p's KEXINIT. *)
Kexinit(p) == write_kex(p, setup.pref[p], setup.keys)

(* The message of its favourite method that a guessing client sends at once. *)
Guess == IF Head(setup.pref["client"].kex) = "dh-gex" THEN "GEX_REQUEST" ELSE "ECDH_INIT"

(* The client's guess was right: both prefer the same method and host key. *)
GuessRight ==
  /\ FirstIn(Kexinit("client").kex) = FirstIn(Kexinit("server").kex)
  /\ FirstIn(Kexinit("client").key) = FirstIn(Kexinit("server").key)

NoNames == [ok |-> FALSE, kex |-> "none", key |-> "none", cipher |-> "none",
            client_mac |-> "none", server_mac |-> "none", compression |-> "none",
            ignore_guessed |-> FALSE, strict_kex |-> FALSE]

(* begin_rekey on both sides, before either has read anything. *)
Init ==
  /\ setup \in Setups
  /\ kex = [p \in Peers |-> "created"] /\ names = [p \in Peers |-> NoNames]
  /\ encrypted = [p \in Peers |-> FALSE] /\ strict = [p \in Peers |-> FALSE]
  /\ wkey = [p \in Peers |-> Clear] /\ rkey = [p \in Peers |-> Clear]
  /\ rseq = [p \in Peers |-> 0]
  /\ done = [p \in Peers |-> 0]
  /\ LET first == [p \in Peers |->
           IF p = "server" THEN (IF setup.noise THEN <<"IGNORE">> ELSE <<>>) \o <<"KEXINIT">>
           ELSE <<"KEXINIT">> \o (IF setup.guess THEN <<Guess>> ELSE <<>>)] IN
     /\ net = [p \in Peers |-> [i \in 1..Len(first[Other(p)]) |->
                 [type |-> first[Other(p)][i], key |-> Clear, seq |-> i - 1]]]
     /\ wseq = [p \in Peers |-> Len(first[p])]
  /\ dead = [p \in Peers |-> "no"]
  /\ checked = FALSE /\ rekeys = 0 /\ messages = 0 /\ late = {}

-----------------------------------------------------------------------------
(* Names::strict_kex of the exchange p is in. *)
StrictExchange(p) == names[p].strict_kex

(* p writes packets of these types to the other side; after NEWKEYS it       *)
(* resets its sequence number if the exchange is strict.  rest is what is    *)
(* left for p to read.                                                       *)
Write(p, types, rest) ==
  /\ net' = [net EXCEPT ![p] = rest, ![Other(p)] = @ \o Sealed(p, types)]
  /\ wseq' = [wseq EXCEPT ![p] = IF types # <<>> /\ types[Len(types)] = "NEWKEYS"
                                    /\ StrictExchange(p)
                                 THEN 0 ELSE @ + Len(types)]
  /\ late' = IF kex[p] = "newkeys" /\ types # <<>> THEN late \cup {p} ELSE late

(* The key exchange returns an error and the session task with it. *)
Fail(p, why, rest) ==
  /\ dead' = [dead EXCEPT ![p] = why]
  /\ net' = [net EXCEPT ![p] = rest]
  /\ UNCHANGED <<kex, names, encrypted, strict, keyVars, done, checked, late>>

(* A step of the exchange that leaves p in the given state after it has      *)
(* written packets of these types.                                           *)
NeedsReply(p, state, types, rest) ==
  /\ kex' = [kex EXCEPT ![p] = state]
  /\ Write(p, types, rest)
  /\ rseq' = [rseq EXCEPT ![p] = @ + 1]
  /\ UNCHANGED <<encrypted, strict, wkey, rkey, done, dead, checked>>

(* A side that was idle begins an exchange to take the other's KEXINIT. *)
OwnKexinit(p) == IF kex[p] = "idle" THEN <<"KEXINIT">> ELSE <<>>

(* What p makes of the other side's KEXINIT; a rekey is strict if the first  *)
(* exchange was.                                                             *)
Negotiated(p) ==
  read_kex(p, Kexinit(Other(p)), p = "server" /\ setup.guess /\ ~encrypted[p],
           setup.pref[p], setup.keys, encrypted[p] /\ strict[p])

(* Refused: no common algorithm, or in a strict first exchange something     *)
(* came before the KEXINIT.                                                  *)
Refused(p, n) == ~n.ok \/ (n.strict_kex /\ ~encrypted[p] /\ rseq[p] # 0)

(* Created: the server reads the client's KEXINIT and waits for its first    *)
(* message.                                                                  *)
ServerCreated(rest) ==
  \E n \in {Negotiated("server")} :
    IF Refused("server", n) THEN Fail("server", "refused", rest)
    ELSE /\ names' = [names EXCEPT !["server"] = n]
         /\ NeedsReply("server", IF n.kex = "dh-gex" THEN "group" ELSE "dh",
                       OwnKexinit("server"), rest)

(* The client's first message. *)
FirstMessage(n) == IF n.kex = "dh-gex" THEN <<"GEX_REQUEST">> ELSE <<"ECDH_INIT">>

(* Mutant: a client that was idle takes the KEXINIT and says nothing. *)
ClientCreatedSilent(rest) ==
  \E n \in {Negotiated("client")} :
    IF Refused("client", n) THEN Fail("client", "refused", rest)
    ELSE /\ names' = [names EXCEPT !["client"] = n]
         /\ NeedsReply("client", IF n.kex = "dh-gex" THEN "group" ELSE "dh",
                       IF kex["client"] = "idle" THEN <<>> ELSE FirstMessage(n), rest)

(* Created: the client reads the server's KEXINIT and goes on with its first *)
(* message, unless it has guessed that message and guessed right.            *)
ClientCreated(rest) ==
  \E n \in {Negotiated("client")} :
    IF Refused("client", n) THEN Fail("client", "refused", rest)
    ELSE /\ names' = [names EXCEPT !["client"] = n]
         /\ NeedsReply("client", IF n.kex = "dh-gex" THEN "group" ELSE "dh",
                       OwnKexinit("client")
                       \o (IF setup.guess /\ ~encrypted["client"] /\ GuessRight
                           THEN <<>> ELSE FirstMessage(n)), rest)

(* WaitingForGexRequest: the handler finds a group and the server sends it. *)
ServerGroup(rest) == NeedsReply("server", "dh", <<"GEX_GROUP">>, rest) /\ UNCHANGED names

(* WaitingForGexReply: a group of a size the client asked for. *)
ClientGroup(rest) == NeedsReply("client", "dh", <<"GEX_INIT">>, rest) /\ UNCHANGED names

(* WaitingForDhInit: the client's wrong guess is dropped. *)
IgnoreGuess(rest) ==
  /\ names' = [names EXCEPT !["server"].ignore_guessed = FALSE]
  /\ NeedsReply("server", "dh", <<>>, rest)

(* Mutant: the server's answer leaves NEWKEYS out. *)
ServerDhInitWithoutNewkeys(rest) ==
  /\ NeedsReply("server", "newkeys",
                <<IF names["server"].kex = "dh-gex" THEN "GEX_REPLY" ELSE "ECDH_REPLY">>, rest)
  /\ UNCHANGED names

(* WaitingForDhInit: the server signs the exchange hash with a key that      *)
(* serves the algorithm, and answers with the reply and NEWKEYS.  It goes on *)
(* sealing with the old keys.                                                *)
ServerDhInit(rest) ==
  /\ \E i \in DOMAIN setup.keys :
       is_key_compatible_with_algo(setup.keys[i], names["server"].key)
  /\ NeedsReply("server", "newkeys",
                <<IF names["server"].kex = "dh-gex" THEN "GEX_REPLY" ELSE "ECDH_REPLY",
                  "NEWKEYS">>, rest)
  /\ UNCHANGED names

(* WaitingForDhReply: the signature is right, and the client answers with    *)
(* NEWKEYS.  It too goes on sealing with the old keys.                       *)
ClientDhReply(rest) == NeedsReply("client", "newkeys", <<"NEWKEYS">>, rest) /\ UNCHANGED names

-----------------------------------------------------------------------------
(* A key of p's exchange: the letter that goes into its hash is C for what   *)
(* the client writes and D for what the server writes.                       *)
compute_key(p, letter, mac) ==
  [n |-> done[p] + 1, letter |-> letter, cipher |-> names[p].cipher,
   mac |-> IF names[p].cipher \in CiphersWithMac THEN mac ELSE "none"]

ServerKeys == [local_to_remote |-> compute_key("server", "D", names["server"].server_mac),
               remote_to_local |-> compute_key("server", "C", names["server"].client_mac)]

ClientKeys == [local_to_remote |-> compute_key("client", "C", names["client"].client_mac),
               remote_to_local |-> compute_key("client", "D", names["client"].server_mac)]

(* Common::encrypted and Common::newkeys: both directions change to the new  *)
(* keys.                                                                     *)
NewKeys(p, keys) ==
  /\ kex' = [kex EXCEPT ![p] = "idle"]
  /\ done' = [done EXCEPT ![p] = @ + 1]
  /\ wkey' = [wkey EXCEPT ![p] = keys.local_to_remote]
  /\ rkey' = [rkey EXCEPT ![p] = keys.remote_to_local]
  /\ encrypted' = [encrypted EXCEPT ![p] = TRUE]

(* Mutant: the reader's sequence number goes on. *)
ClientDoneKeepsSeq(rest) ==
  /\ NewKeys("client", ClientKeys)
  /\ strict' = [strict EXCEPT !["client"] = @ \/ StrictExchange("client")]
  /\ checked' = TRUE
  /\ rseq' = [rseq EXCEPT !["client"] = @ + 1]
  /\ net' = [net EXCEPT !["client"] = rest]
  /\ UNCHANGED <<wseq, names, dead, late>>

(* Mutant: the host key is not asked about. *)
ClientDoneUnchecked(rest) ==
  /\ NewKeys("client", ClientKeys)
  /\ strict' = [strict EXCEPT !["client"] = @ \/ StrictExchange("client")]
  /\ rseq' = [rseq EXCEPT !["client"] = IF strict'["client"] THEN 0 ELSE @ + 1]
  /\ net' = [net EXCEPT !["client"] = rest]
  /\ UNCHANGED <<wseq, names, dead, checked, late>>

(* The server's NEWKEYS.  With strict key exchange the reader's sequence     *)
(* number is reset.  After the first exchange the client has asked           *)
(* check_server_key, which accepted the key.                                 *)
ClientDone(rest) ==
  /\ NewKeys("client", ClientKeys)
  /\ strict' = [strict EXCEPT !["client"] = @ \/ StrictExchange("client")]
  /\ checked' = TRUE
  /\ rseq' = [rseq EXCEPT !["client"] = IF strict'["client"] THEN 0 ELSE @ + 1]
  /\ net' = [net EXCEPT !["client"] = rest]
  /\ UNCHANGED <<wseq, names, dead, late>>

(* The extension info goes to a client whose KEXINIT asked for it. *)
maybe_send_ext_info == ~encrypted["server"] /\ Has(Kexinit("client").kex, "ext-info-c")

(* The client's NEWKEYS; after the first exchange the extension info follows, *)
(* under the new keys.                                                        *)
ServerDone(rest) ==
  /\ NewKeys("server", ServerKeys)
  /\ strict' = [strict EXCEPT !["server"] = @ \/ StrictExchange("server")]
  /\ rseq' = [rseq EXCEPT !["server"] = IF strict'["server"] THEN 0 ELSE @ + 1]
  /\ LET ext == IF maybe_send_ext_info
                THEN <<[type |-> "EXT_INFO", key |-> ServerKeys.local_to_remote,
                        seq |-> wseq["server"]]>>
                ELSE <<>> IN
     /\ wseq' = [wseq EXCEPT !["server"] = @ + Len(ext)]
     /\ net' = [net EXCEPT !["server"] = rest, !["client"] = @ \o ext]
  /\ UNCHANGED <<names, dead, checked, late>>

-----------------------------------------------------------------------------
(* The message the exchange waits for in p's state. *)
Expected(p) ==
  LET gex == names[p].kex = "dh-gex" IN
  CASE kex[p] \in {"idle", "created"} -> "KEXINIT"
    [] kex[p] = "group"   -> IF p = "server" THEN "GEX_REQUEST" ELSE "GEX_GROUP"
    [] kex[p] = "dh"      -> IF p = "server" THEN (IF gex THEN "GEX_INIT" ELSE "ECDH_INIT")
                                             ELSE (IF gex THEN "GEX_REPLY" ELSE "ECDH_REPLY")
    [] kex[p] = "newkeys" -> "NEWKEYS"

(* ServerKex::step; the message may also be refused for what it carries: no  *)
(* group, or a point that is not one.                                        *)
ServerStep(m, rest) ==
  IF kex["server"] = "dh" /\ names["server"].ignore_guessed THEN IgnoreGuess(rest)
  ELSE IF m.type # Expected("server") THEN Fail("server", "unexpected", rest)
  ELSE
  CASE kex["server"] \in {"idle", "created"} -> ServerCreated(rest)
    [] kex["server"] = "group" -> ServerGroup(rest) \/ Fail("server", "refused", rest)
    [] kex["server"] = "dh" -> ServerDhInit(rest) \/ Fail("server", "refused", rest)
    [] kex["server"] = "newkeys" -> ServerDone(rest)

(* ClientKex::step; a group of a wrong size, a wrong signature or a host key *)
(* that check_server_key does not accept is refused.                         *)
ClientStep(m, rest) ==
  IF m.type # Expected("client") THEN Fail("client", "unexpected", rest)
  ELSE
  CASE kex["client"] \in {"idle", "created"} -> ClientCreated(rest)
    [] kex["client"] = "group" -> ClientGroup(rest) \/ Fail("client", "refused", rest)
    [] kex["client"] = "dh" -> ClientDhReply(rest) \/ Fail("client", "refused", rest)
    [] kex["client"] = "newkeys" ->
         ClientDone(rest) \/ (~encrypted["client"] /\ Fail("client", "refused", rest))

(* reply() for any other message, also while an exchange is active, and for  *)
(* one of an exchange nobody has begun, which is ignored.  Data may be       *)
(* answered (WINDOW_ADJUST), and so may a keepalive (REQUEST_FAILURE).       *)
OtherMessage(p, m, rest) ==
  /\ \/ NeedsReply(p, kex[p], <<>>, rest)
     \/ m.type \in {"DATA", "KEEPALIVE"} /\ NeedsReply(p, kex[p], <<"ANSWER">>, rest)
  /\ UNCHANGED names

(* Does the reader open the packet?  The clear cipher checks nothing. *)
Opens(p, m) == m.key = rkey[p] /\ (m.key # Clear => m.seq = rseq[p])

(* One packet is read and handled. *)
Read(p) ==
  /\ dead[p] = "no" /\ net[p] # <<>>
  /\ LET m == Head(net[p])
         rest == Tail(net[p])
         exchange == m.type = "KEXINIT" \/ (m.type \in KexTypes /\ kex[p] # "idle") IN
     \/ ~Opens(p, m) /\ Fail(p, "decrypt", rest)
     \/ Opens(p, m) /\ exchange /\ p = "server" /\ ServerStep(m, rest)
     \/ Opens(p, m) /\ exchange /\ p = "client" /\ ClientStep(m, rest)
     \/ Opens(p, m) /\ ~exchange /\ OtherMessage(p, m, rest)
  /\ UNCHANGED <<setup, rekeys, messages>>

(* A message of the session's handle, taken only while no exchange is active. *)
HandleMessage(p) ==
  /\ dead[p] = "no" /\ encrypted[p] /\ kex[p] = "idle" /\ messages < MaxMessages
  /\ messages' = messages + 1
  /\ Write(p, <<"DATA">>, net[p])
  /\ UNCHANGED <<setup, kex, names, encrypted, strict, wkey, rkey, rseq, done, dead,
                 checked, rekeys>>

(* The keepalive timer, which asks nothing about exchanges: it also writes   *)
(* when NEWKEYS is out and the keys have not changed yet.                    *)
KeepaliveTimer(p) ==
  /\ setup.keepalive
  /\ dead[p] = "no" /\ encrypted[p] /\ messages < MaxMessages
  /\ messages' = messages + 1
  /\ Write(p, <<"KEEPALIVE">>, net[p])
  /\ UNCHANGED <<setup, kex, names, encrypted, strict, wkey, rkey, rseq, done, dead,
                 checked, rekeys>>

(* An exchange is created and its KEXINIT written. *)
begin_rekey(p) ==
  /\ kex' = [kex EXCEPT ![p] = "created"]
  /\ Write(p, <<"KEXINIT">>, net[p])
  /\ UNCHANGED <<setup, names, encrypted, strict, wkey, rkey, rseq, done, dead,
                 checked, messages>>

(* Mutant: the client's flush does not look for an exchange that is active. *)
ClientFlushAnytime ==
  /\ dead["client"] = "no" /\ encrypted["client"] /\ rekeys < setup.rekeys
  /\ rekeys' = rekeys + 1
  /\ begin_rekey("client")

(* The client's flush() finds that a limit is reached, or that a re-exchange *)
(* is wanted.                                                                *)
ClientFlush ==
  /\ dead["client"] = "no" /\ encrypted["client"] /\ kex["client"] = "idle"
  /\ rekeys < setup.rekeys
  /\ rekeys' = rekeys + 1
  /\ begin_rekey("client")

(* The server's flush(). *)
ServerFlush ==
  /\ dead["server"] = "no" /\ encrypted["server"] /\ kex["server"] = "idle"
  /\ rekeys < setup.rekeys
  /\ rekeys' = rekeys + 1
  /\ begin_rekey("server")

Next ==
  \/ \E p \in Peers : Read(p) \/ HandleMessage(p) \/ KeepaliveTimer(p)
  \/ ClientFlush \/ ServerFlush

Spec == Init /\ [][Next]_vars

(* A session task reads what arrives. *)
FairSpec == Spec /\ \A p \in Peers : WF_vars(Read(p))

-----------------------------------------------------------------------------
(* Every variable has its type. *)
TypeOK ==
  /\ setup \in Setups
  /\ kex \in [Peers -> {"idle", "created", "group", "dh", "newkeys"}]
  /\ \A p \in Peers : DOMAIN names[p] = DOMAIN NoNames
  /\ encrypted \in [Peers -> BOOLEAN] /\ strict \in [Peers -> BOOLEAN]
  /\ wkey \in [Peers -> Key] /\ rkey \in [Peers -> Key]
  /\ wseq \in [Peers -> Nat] /\ rseq \in [Peers -> Nat]
  /\ done \in [Peers -> Nat] /\ net \in [Peers -> Seq(Packet)]
  /\ dead \in [Peers -> {"no", "decrypt", "unexpected", "refused"}]
  /\ checked \in BOOLEAN
  /\ rekeys \in Nat /\ messages \in Nat /\ late \subseteq Peers

(* Every packet is opened with the key and the sequence number it was sealed *)
(* with, through crossing re-exchanges, strict or not, with the keepalives   *)
(* and the answers that go out in the middle of one, and whatever is still   *)
(* under way when the keys change.  What fails is only what comes from a     *)
(* side that has written between its NEWKEYS and its new keys.               *)
AlwaysOpens == \A p \in Peers : dead[p] = "decrypt" => Other(p) \in late

(* A session never ends for a packet that does not open: a keepalive timer   *)
(* (client/mod.rs:1284) or an answer to a keepalive in the middle of a       *)
(* re-exchange makes this fail.                                              *)
NothingUnopened == \A p \in Peers : dead[p] # "decrypt"

(* Neither side ever gets a message of the exchange that it does not expect, *)
(* also when both start a re-exchange at the same time.                      *)
AlwaysExpected == \A p \in Peers : dead[p] # "unexpected"

(* The client lets nothing of the session out before the host key was        *)
(* accepted: all it has sent till then belongs to the exchange.              *)
HostKeyFirst ==
  ~checked => \A i \in 1..Len(net["server"]) : net["server"][i].type \in KexTypes

(* An exchange never ends on one side only: a side that is through is at     *)
(* most one exchange ahead, and then its NEWKEYS is still under way.         *)
InStep ==
  \A p \in Peers : done[p] > done[Other(p)] =>
    /\ done[p] = done[Other(p)] + 1
    /\ dead[Other(p)] = "no" =>
         \E i \in 1..Len(net[Other(p)]) : net[Other(p)][i].type = "NEWKEYS"

(* The last exchange whose KEXINIT p has read. *)
Settled(p) == IF kex[p] \in {"idle", "created"} THEN done[p] ELSE done[p] + 1

(* Two sides that have read each other's KEXINIT of an exchange mean the     *)
(* same by it: each computes the names on its own (read_kex), from lists     *)
(* that differ, and in a re-exchange from whether the first one was strict.  *)
NamesAgree ==
  Settled("client") = Settled("server") =>
    [names["server"] EXCEPT !.ignore_guessed = FALSE] = names["client"]

(* Where the two sides stand in their exchanges, and what each has computed  *)
(* of them on its own, agrees.                                               *)
SidesAgree == TypeOK /\ InStep /\ NamesAgree

(* Every exchange ends, unless a session task does.                          *)
ExchangeEnds ==
  \A p \in Peers : kex[p] # "idle" ~> kex[p] = "idle" \/ \E q \in Peers : dead[q] # "no"
=============================================================================
