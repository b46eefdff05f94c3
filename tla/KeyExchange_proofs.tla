-------------------------- MODULE KeyExchange_proofs --------------------------
(***************************************************************************)
(* Proofs about KeyExchange, for any preferences, host keys and numbers of *)
(* messages and re-exchanges.                                              *)
(***************************************************************************)
EXTENDS KeyExchange, WellFoundedInduction, TLAPS

Chosen == Algorithms \cup {"none"}
NamesType ==
  [ok : BOOLEAN, kex : Chosen, key : Chosen, cipher : Chosen, client_mac : Chosen,
   server_mac : Chosen, compression : Chosen, ignore_guessed : BOOLEAN,
   strict_kex : BOOLEAN]
KexStates == {"idle", "created", "group", "dh", "newkeys"}
Types == KexTypes \cup OtherTypes
Endings == {"no", "decrypt", "unexpected", "refused"}

(* The exchange of each side. *)
TypeExchange ==
  /\ setup \in Setups /\ kex \in [Peers -> KexStates] /\ names \in [Peers -> NamesType]
  /\ encrypted \in [Peers -> BOOLEAN] /\ strict \in [Peers -> BOOLEAN]
  /\ done \in [Peers -> Nat] /\ dead \in [Peers -> Endings]
  /\ checked \in BOOLEAN /\ rekeys \in Nat /\ messages \in Nat /\ late \subseteq Peers
(* The keys, the numbers and the line. *)
TypeLine ==
  /\ wkey \in [Peers -> Key] /\ rkey \in [Peers -> Key]
  /\ wseq \in [Peers -> Nat] /\ rseq \in [Peers -> Nat]
  /\ net \in [Peers -> Seq(Packet)]
TypeInv == TypeExchange /\ TypeLine

-----------------------------------------------------------------------------
(* Lists of names *)

LEMMA LeastNatural ==
  ASSUME NEW T, T \subseteq Nat, T # {}
  PROVE  Least(T) \in T /\ \A y \in T : Least(T) <= y
<1>1. PICK x \in T : \A y \in T : ~(<<y, x>> \in OpToRel(<, Nat))
  BY NatLessThanWellFounded, WFMin
<1>2. \A y \in T : ~(y < x)
  BY <1>1 DEF OpToRel
<1>3. \E z \in T : \A y \in T : z <= y
  BY <1>2
<1> QED
  BY <1>3 DEF Least

(* A list: names at some positions. *)
IsList(l) == DOMAIN l \subseteq Nat /\ \A i \in DOMAIN l : l[i] \in Algorithms

LEMMA SeqIsList == ASSUME NEW l \in Seq(Algorithms) PROVE IsList(l)
BY DEF IsList

LEMMA FirstCommonType ==
  ASSUME NEW c, NEW s, IsList(c)
  PROVE  /\ FirstCommon(c, s).found \in BOOLEAN /\ FirstCommon(c, s).both_first \in BOOLEAN
         /\ FirstCommon(c, s).name \in Chosen
<1> DEFINE common == {i \in DOMAIN c : Has(s, c[i])}
<1>1. CASE common = {}
  BY <1>1 DEF FirstCommon, Chosen
<1>2. CASE common # {}
  <2>1. Least(common) \in common
    BY <1>2, LeastNatural DEF IsList
  <2>2. c[Least(common)] \in Algorithms
    BY <2>1 DEF IsList
  <2> QED
    BY <1>2, <2>2 DEF FirstCommon, Chosen
<1> QED
  BY <1>1, <1>2

LEMMA SelectType ==
  ASSUME NEW p, NEW ours, NEW theirs, IsList(ours), IsList(theirs)
  PROVE  LET x == select(p, ours, theirs) IN
         x.found \in BOOLEAN /\ x.both_first \in BOOLEAN /\ x.name \in Chosen
BY FirstCommonType DEF select, ServerSelect, ClientSelect

LEMMA ListsOfSetup ==
  ASSUME NEW u \in Setups, NEW p \in Peers
  PROVE  /\ IsList(u.pref[p].kex) /\ IsList(u.pref[p].key) /\ IsList(u.pref[p].cipher)
         /\ IsList(u.pref[p].mac) /\ IsList(u.pref[p].compression)
BY KexAssumption, SeqIsList DEF IsSetup

LEMMA WrittenLists ==
  ASSUME NEW u \in Setups, NEW p \in Peers
  PROVE  LET w == write_kex(p, u.pref[p], u.keys) IN
         /\ IsList(w.kex) /\ IsList(w.key) /\ w.cipher = u.pref[p].cipher
         /\ w.mac = u.pref[p].mac /\ w.compression = u.pref[p].compression
BY ListsOfSetup DEF write_kex, possible_host_key_algos_for_keys, RestrictValues, Restrict, IsList

LEMMA ReadKexType ==
  ASSUME NEW u \in Setups, NEW p \in Peers, NEW follows \in BOOLEAN, NEW again \in BOOLEAN
  PROVE  read_kex(p, write_kex(Other(p), u.pref[Other(p)], u.keys), follows, u.pref[p], u.keys,
                  again) \in NamesType
<1> DEFINE w == write_kex(Other(p), u.pref[Other(p)], u.keys)
<1>0. Other(p) \in Peers
  BY DEF Other, Peers
<1>1. /\ IsList(w.kex) /\ IsList(w.key) /\ IsList(w.cipher) /\ IsList(w.mac)
      /\ IsList(w.compression)
  BY <1>0, WrittenLists, ListsOfSetup
<1> HIDE DEF w
<1>2. /\ IsList(RestrictValues(u.pref[p].kex, LAMBDA k : k \in KEXES))
      /\ IsList(RestrictValues(w.kex, LAMBDA k : k \in KEXES))
      /\ IsList(possible_host_key_algos_for_keys(u.pref[p], u.keys))
  BY <1>1, ListsOfSetup DEF RestrictValues, Restrict, IsList, possible_host_key_algos_for_keys
<1>3. read_kex(p, w, follows, u.pref[p], u.keys, again) \in NamesType
  BY <1>1, <1>2, ListsOfSetup, SelectType DEF read_kex, NamesType
<1> QED
  BY <1>3 DEF w

-----------------------------------------------------------------------------
(* Type correctness *)

LEMMA Peer == ASSUME NEW p \in Peers PROVE Other(p) \in Peers /\ Other(p) # p /\ Other(Other(p)) = p
BY DEF Other, Peers

LEMMA NegotiatedType ==
  ASSUME TypeExchange, NEW p \in Peers PROVE Negotiated(p) \in NamesType
BY Peer, ReadKexType, KexAssumption DEF Negotiated, Kexinit, TypeExchange, IsSetup, Peers

LEMMA SealedType ==
  ASSUME TypeLine, NEW p \in Peers, NEW types \in Seq(Types)
  PROVE  Sealed(p, types) \in Seq(Packet) /\ Len(Sealed(p, types)) = Len(types)
<1>1. Sealed(p, types) = [i \in 1 .. Len(types) |->
                            [type |-> types[i], key |-> wkey[p], seq |-> wseq[p] + i - 1]]
  BY DEF Sealed
<1>2. \A i \in 1 .. Len(types) :
        [type |-> types[i], key |-> wkey[p], seq |-> wseq[p] + i - 1] \in Packet
  BY DEF Packet, TypeLine, Types
<1> QED
  BY <1>1, <1>2

LEMMA WriteType ==
  ASSUME TypeLine, NEW p \in Peers, NEW types \in Seq(Types), NEW rest \in Seq(Packet),
         Write(p, types, rest)
  PROVE  /\ net' \in [Peers -> Seq(Packet)] /\ wseq' \in [Peers -> Nat]
         /\ late' \subseteq late \cup {p} /\ late \subseteq late'
<1>1. Sealed(p, types) \in Seq(Packet)
  BY SealedType
<1>2. net[Other(p)] \o Sealed(p, types) \in Seq(Packet)
  BY <1>1, Peer DEF TypeLine
<1>3. net' \in [Peers -> Seq(Packet)]
  BY <1>2, Peer DEF Write, TypeLine
<1>4. wseq' \in [Peers -> Nat]
  BY DEF Write, TypeLine
<1>5. late' \subseteq late \cup {p} /\ late \subseteq late'
  BY DEF Write
<1> QED
  BY <1>3, <1>4, <1>5

LEMMA NeedsReplyType ==
  ASSUME TypeInv, NEW p \in Peers, NEW state \in KexStates, NEW types \in Seq(Types),
         NEW rest \in Seq(Packet), NeedsReply(p, state, types, rest),
         names' \in [Peers -> NamesType], UNCHANGED <<setup, rekeys, messages>>
  PROVE  TypeInv'
<1>1. net' \in [Peers -> Seq(Packet)] /\ wseq' \in [Peers -> Nat] /\ late' \subseteq late \cup {p}
  BY WriteType DEF NeedsReply, TypeInv
<1>2. rseq' \in [Peers -> Nat] /\ UNCHANGED <<wkey, rkey>>
  BY DEF NeedsReply, TypeInv, TypeLine
<1>3. TypeExchange'
  BY <1>1 DEF NeedsReply, TypeInv, TypeExchange
<1> QED
  BY <1>1, <1>2, <1>3 DEF TypeInv, TypeLine

LEMMA FailType ==
  ASSUME TypeInv, NEW p \in Peers, NEW why \in Endings, NEW rest \in Seq(Packet),
         Fail(p, why, rest), UNCHANGED <<setup, rekeys, messages>>
  PROVE  TypeInv'
BY DEF Fail, TypeInv, TypeExchange, TypeLine, keyVars

LEMMA KeysType ==
  ASSUME TypeExchange, NEW p \in Peers, NEW letter \in {"C", "D"}, NEW mac \in Chosen
  PROVE  compute_key(p, letter, mac) \in Key
BY DEF compute_key, Key, TypeExchange, NamesType, Chosen

LEMMA ClientKeysType ==
  ASSUME TypeExchange
  PROVE  ClientKeys.local_to_remote \in Key /\ ClientKeys.remote_to_local \in Key
BY KeysType DEF ClientKeys, TypeExchange, NamesType, Peers

LEMMA ServerKeysType ==
  ASSUME TypeExchange
  PROVE  ServerKeys.local_to_remote \in Key /\ ServerKeys.remote_to_local \in Key
BY KeysType DEF ServerKeys, TypeExchange, NamesType, Peers

LEMMA ClientDoneType ==
  ASSUME TypeInv, NEW rest \in Seq(Packet), ClientDone(rest),
         UNCHANGED <<setup, rekeys, messages>>
  PROVE  TypeInv'
<1>1. TypeExchange'
  BY DEF ClientDone, NewKeys, StrictExchange, TypeInv, TypeExchange, KexStates, NamesType, Peers
<1>2. wkey' \in [Peers -> Key] /\ rkey' \in [Peers -> Key]
  BY ClientKeysType DEF ClientDone, NewKeys, TypeInv, TypeLine
<1>3. rseq' \in [Peers -> Nat]
  <2>1. (IF strict'["client"] THEN 0 ELSE rseq["client"] + 1) \in Nat
    BY DEF TypeInv, TypeLine, Peers
  <2> QED
    BY <2>1 DEF ClientDone, TypeInv, TypeLine
<1>4. net' \in [Peers -> Seq(Packet)] /\ UNCHANGED wseq
  BY DEF ClientDone, TypeInv, TypeLine
<1> QED
  BY <1>1, <1>2, <1>3, <1>4 DEF TypeInv, TypeLine

(* The extension info that may follow the server's exchange. *)
ExtInfo == [type |-> "EXT_INFO", key |-> ServerKeys.local_to_remote, seq |-> wseq["server"]]

LEMMA ServerDoneType ==
  ASSUME TypeInv, NEW rest \in Seq(Packet), ServerDone(rest),
         UNCHANGED <<setup, rekeys, messages>>
  PROVE  TypeInv'
<1>1. TypeExchange'
  BY DEF ServerDone, NewKeys, StrictExchange, TypeInv, TypeExchange, KexStates, NamesType, Peers
<1>2. wkey' \in [Peers -> Key] /\ rkey' \in [Peers -> Key]
  BY ServerKeysType DEF ServerDone, NewKeys, TypeInv, TypeLine
<1>3. rseq' \in [Peers -> Nat]
  <2>1. (IF strict'["server"] THEN 0 ELSE rseq["server"] + 1) \in Nat
    BY DEF TypeInv, TypeLine, Peers
  <2> QED
    BY <2>1 DEF ServerDone, TypeInv, TypeLine
<1>4. PICK ext \in {<<>>, <<ExtInfo>>} :
        /\ wseq' = [wseq EXCEPT !["server"] = @ + Len(ext)]
        /\ net' = [net EXCEPT !["server"] = rest, !["client"] = @ \o ext]
  BY DEF ServerDone, ExtInfo
<1>5. ExtInfo \in Packet
  BY ServerKeysType DEF ExtInfo, Packet, OtherTypes, TypeInv, TypeLine, Peers
<1>6. ext \in Seq(Packet)
  <2>1. <<>> \in Seq(Packet) /\ <<ExtInfo>> \in Seq(Packet)
    BY <1>5
  <2> QED
    BY <2>1
<1>7. net' \in [Peers -> Seq(Packet)] /\ wseq' \in [Peers -> Nat]
  BY <1>4, <1>6 DEF TypeInv, TypeLine, Peers
<1> QED
  BY <1>1, <1>2, <1>3, <1>7 DEF TypeInv, TypeLine

(* What the sides write. *)
LEMMA WrittenTypes ==
  /\ <<>> \in Seq(Types) /\ \A t \in Types : <<t>> \in Seq(Types)
  /\ \A s, t \in Types : <<s, t>> \in Seq(Types)
OBVIOUS

LEMMA OwnTypes ==
  /\ \A p \in Peers : OwnKexinit(p) \in Seq(Types)
  /\ \A n : FirstMessage(n) \in Seq(Types)
<1>1. {"KEXINIT", "GEX_REQUEST", "ECDH_INIT"} \subseteq Types
  BY DEF Types, KexTypes
<1>2. <<"KEXINIT">> \in Seq(Types) /\ <<"GEX_REQUEST">> \in Seq(Types)
      /\ <<"ECDH_INIT">> \in Seq(Types)
  BY <1>1, WrittenTypes
<1> QED
  BY <1>2, WrittenTypes DEF OwnKexinit, FirstMessage

LEMMA ServerStepType ==
  ASSUME TypeInv, NEW m, NEW rest \in Seq(Packet), ServerStep(m, rest),
         UNCHANGED <<setup, rekeys, messages>>
  PROVE  TypeInv'
<1> USE DEF TypeInv
<1>0. "server" \in Peers
  BY DEF Peers
<1>1. ASSUME NEW why \in Endings, Fail("server", why, rest) PROVE TypeInv'
  BY <1>0, <1>1, FailType
<1>2. CASE IgnoreGuess(rest)
  <2>1. names' \in [Peers -> NamesType]
    BY <1>0, <1>2, ZenonT(60) DEF IgnoreGuess, TypeExchange, NamesType
  <2> QED
    BY <1>0, <1>2, <2>1, NeedsReplyType, WrittenTypes DEF IgnoreGuess, KexStates
<1>3. CASE ServerCreated(rest)
  <2>1. PICK n \in {Negotiated("server")} :
          \/ Fail("server", "refused", rest)
          \/ /\ names' = [names EXCEPT !["server"] = n]
             /\ NeedsReply("server", IF n.kex = "dh-gex" THEN "group" ELSE "dh",
                           OwnKexinit("server"), rest)
    BY <1>3 DEF ServerCreated
  <2>2. CASE Fail("server", "refused", rest)
    BY <2>2, <1>1 DEF Endings
  <2>3. n \in NamesType
    BY <1>0, NegotiatedType
  <2>4. CASE /\ names' = [names EXCEPT !["server"] = n]
             /\ NeedsReply("server", IF n.kex = "dh-gex" THEN "group" ELSE "dh",
                           OwnKexinit("server"), rest)
    <3>1. names' \in [Peers -> NamesType]
      BY <2>3, <2>4 DEF TypeExchange
    <3>2. (IF n.kex = "dh-gex" THEN "group" ELSE "dh") \in KexStates
      BY DEF KexStates
    <3> QED
      BY <1>0, <2>4, <3>1, <3>2, NeedsReplyType, OwnTypes
  <2> QED
    BY <2>1, <2>2, <2>4
<1>4. CASE ServerGroup(rest)
  <2>1. <<"GEX_GROUP">> \in Seq(Types)
    BY WrittenTypes DEF Types, KexTypes
  <2> QED
    BY <1>0, <1>4, <2>1, NeedsReplyType DEF ServerGroup, KexStates, TypeExchange
<1>5. CASE ServerDhInit(rest)
  <2>1. <<IF names["server"].kex = "dh-gex" THEN "GEX_REPLY" ELSE "ECDH_REPLY", "NEWKEYS">>
          \in Seq(Types)
    BY WrittenTypes DEF Types, KexTypes
  <2> QED
    BY <1>0, <1>5, <2>1, NeedsReplyType DEF ServerDhInit, KexStates, TypeExchange
<1>6. CASE ServerDone(rest)
  BY <1>6, ServerDoneType
<1>7. kex["server"] \in KexStates
  BY <1>0 DEF TypeExchange
<1> QED
  BY <1>1, <1>2, <1>3, <1>4, <1>5, <1>6, <1>7 DEF ServerStep, KexStates, Endings

LEMMA ClientStepType ==
  ASSUME TypeInv, NEW m, NEW rest \in Seq(Packet), ClientStep(m, rest),
         UNCHANGED <<setup, rekeys, messages>>
  PROVE  TypeInv'
<1> USE DEF TypeInv
<1>0. "client" \in Peers
  BY DEF Peers
<1>1. ASSUME NEW why \in Endings, Fail("client", why, rest) PROVE TypeInv'
  BY <1>0, <1>1, FailType
<1>3. CASE ClientCreated(rest)
  <2>1. PICK n \in {Negotiated("client")} :
          \/ Fail("client", "refused", rest)
          \/ /\ names' = [names EXCEPT !["client"] = n]
             /\ NeedsReply("client", IF n.kex = "dh-gex" THEN "group" ELSE "dh",
                       OwnKexinit("client")
                       \o (IF setup.guess /\ ~encrypted["client"] /\ GuessRight
                           THEN <<>> ELSE FirstMessage(n)), rest)
    BY <1>3 DEF ClientCreated
  <2>2. CASE Fail("client", "refused", rest)
    BY <2>2, <1>1 DEF Endings
  <2>3. n \in NamesType
    BY <1>0, NegotiatedType
  <2>4. CASE /\ names' = [names EXCEPT !["client"] = n]
             /\ NeedsReply("client", IF n.kex = "dh-gex" THEN "group" ELSE "dh",
                       OwnKexinit("client")
                       \o (IF setup.guess /\ ~encrypted["client"] /\ GuessRight
                           THEN <<>> ELSE FirstMessage(n)), rest)
    <3>1. names' \in [Peers -> NamesType]
      BY <2>3, <2>4 DEF TypeExchange
    <3>2. (IF n.kex = "dh-gex" THEN "group" ELSE "dh") \in KexStates
      BY DEF KexStates
    <3>3. (IF setup.guess /\ ~encrypted["client"] /\ GuessRight
           THEN <<>> ELSE FirstMessage(n)) \in Seq(Types)
      BY OwnTypes, WrittenTypes
    <3>4. OwnKexinit("client")
            \o (IF setup.guess /\ ~encrypted["client"] /\ GuessRight
                THEN <<>> ELSE FirstMessage(n)) \in Seq(Types)
      BY <1>0, <3>3, OwnTypes
    <3> QED
      BY <1>0, <2>4, <3>1, <3>2, <3>4, NeedsReplyType
  <2> QED
    BY <2>1, <2>2, <2>4
<1>4. CASE ClientGroup(rest)
  <2>1. <<"GEX_INIT">> \in Seq(Types)
    BY WrittenTypes DEF Types, KexTypes
  <2> QED
    BY <1>0, <1>4, <2>1, NeedsReplyType DEF ClientGroup, KexStates, TypeExchange
<1>5. CASE ClientDhReply(rest)
  <2>1. <<"NEWKEYS">> \in Seq(Types)
    BY WrittenTypes DEF Types, KexTypes
  <2> QED
    BY <1>0, <1>5, <2>1, NeedsReplyType DEF ClientDhReply, KexStates, TypeExchange
<1>6. CASE ClientDone(rest)
  BY <1>6, ClientDoneType
<1>7. kex["client"] \in KexStates
  BY <1>0 DEF TypeExchange
<1> QED
  BY <1>1, <1>3, <1>4, <1>5, <1>6, <1>7 DEF ClientStep, KexStates, Endings

LEMMA ReadType == ASSUME TypeInv, NEW p \in Peers, Read(p) PROVE TypeInv'
<1> DEFINE m == Head(net[p])
           rest == Tail(net[p])
<1>1. rest \in Seq(Packet) /\ UNCHANGED <<setup, rekeys, messages>>
  BY DEF Read, TypeInv, TypeLine
<1>2. \/ Fail(p, "decrypt", rest)
      \/ p = "server" /\ ServerStep(m, rest)
      \/ p = "client" /\ ClientStep(m, rest)
      \/ OtherMessage(p, m, rest)
  BY DEF Read
<1> HIDE DEF rest, m
<1>3. CASE OtherMessage(p, m, rest)
  <2>1. <<"ANSWER">> \in Seq(Types) /\ <<>> \in Seq(Types)
    BY WrittenTypes DEF Types, OtherTypes
  <2>2. kex[p] \in KexStates /\ names' \in [Peers -> NamesType]
    BY <1>3 DEF OtherMessage, TypeInv, TypeExchange
  <2> QED
    BY <1>1, <1>3, <2>1, <2>2, NeedsReplyType DEF OtherMessage
<1> QED
  BY <1>1, <1>2, <1>3, FailType, ServerStepType, ClientStepType DEF Endings

(* The messages of the application, the timers and the re-exchanges. *)
LEMMA OwnWriteType ==
  ASSUME TypeInv, NEW p \in Peers, NEW t \in Types, Write(p, <<t>>, net[p])
  PROVE  net' \in [Peers -> Seq(Packet)] /\ wseq' \in [Peers -> Nat] /\ late' \subseteq Peers
<1>1. net[p] \in Seq(Packet) /\ <<t>> \in Seq(Types)
  BY DEF TypeInv, TypeLine
<1>2. late \subseteq Peers /\ TypeLine
  BY DEF TypeInv, TypeExchange
<1>3. /\ net' \in [Peers -> Seq(Packet)] /\ wseq' \in [Peers -> Nat]
      /\ late' \subseteq late \cup {p}
  BY <1>1, <1>2, WriteType
<1> QED
  BY <1>2, <1>3

LEMMA SpontaneousType ==
  ASSUME TypeInv, NEW p \in Peers,
         HandleMessage(p) \/ KeepaliveTimer(p) \/ (begin_rekey(p) /\ rekeys' \in Nat)
  PROVE  TypeInv'
<1>1. \E t \in Types : Write(p, <<t>>, net[p])
  BY DEF HandleMessage, KeepaliveTimer, begin_rekey, Types, KexTypes, OtherTypes
<1>2. net' \in [Peers -> Seq(Packet)] /\ wseq' \in [Peers -> Nat] /\ late' \subseteq Peers
  BY <1>1, OwnWriteType
<1>3. UNCHANGED <<wkey, rkey, rseq>>
  BY DEF HandleMessage, KeepaliveTimer, begin_rekey
<1>4. TypeExchange'
  <2>1. CASE HandleMessage(p)
    BY <1>2, <2>1 DEF HandleMessage, TypeInv, TypeExchange
  <2>2. CASE KeepaliveTimer(p)
    BY <1>2, <2>2 DEF KeepaliveTimer, TypeInv, TypeExchange
  <2>3. CASE begin_rekey(p) /\ rekeys' \in Nat
    BY <1>2, <2>3 DEF begin_rekey, TypeInv, TypeExchange, KexStates
  <2> QED
    BY <2>1, <2>2, <2>3
<1> QED
  BY <1>2, <1>3, <1>4 DEF TypeInv, TypeLine

LEMMA TypeStep == TypeInv /\ [Next]_vars => TypeInv'
<1> SUFFICES ASSUME TypeInv, [Next]_vars PROVE TypeInv'
  OBVIOUS
<1>1. CASE UNCHANGED vars
  BY <1>1 DEF vars, keyVars, TypeInv, TypeExchange, TypeLine
<1>2. CASE \E p \in Peers : Read(p) \/ HandleMessage(p) \/ KeepaliveTimer(p)
  BY <1>2, ReadType, SpontaneousType
<1>3. CASE ClientFlush \/ ServerFlush
  <2>1. rekeys' \in Nat /\ \E p \in Peers : begin_rekey(p)
    BY <1>3 DEF ClientFlush, ServerFlush, Peers, TypeInv, TypeExchange
  <2> QED
    BY <2>1, SpontaneousType
<1> QED
  BY <1>1, <1>2, <1>3 DEF Next

(* The packets that are on their way when the sessions start. *)
LEMMA FirstPackets ==
  ASSUME NEW types \in Seq(Types)
  PROVE  [i \in 1 .. Len(types) |-> [type |-> types[i], key |-> Clear, seq |-> i - 1]]
           \in Seq(Packet)
<1>1. Clear \in Key
  BY DEF Clear, Key
<1>2. \A i \in 1 .. Len(types) : [type |-> types[i], key |-> Clear, seq |-> i - 1] \in Packet
  BY <1>1 DEF Packet, Types
<1> QED
  BY <1>2

FirstOf(p) ==
  IF p = "server" THEN (IF setup.noise THEN <<"IGNORE">> ELSE <<>>) \o <<"KEXINIT">>
  ELSE <<"KEXINIT">> \o (IF setup.guess THEN <<Guess>> ELSE <<>>)

LEMMA FirstTypes == \A p \in Peers : FirstOf(p) \in Seq(Types)
<1>1. "KEXINIT" \in Types /\ "IGNORE" \in Types /\ Guess \in Types
  BY DEF Types, KexTypes, OtherTypes, Guess
<1>2. <<"KEXINIT">> \in Seq(Types) /\ <<"IGNORE">> \in Seq(Types) /\ <<Guess>> \in Seq(Types)
      /\ <<>> \in Seq(Types)
  BY <1>1, WrittenTypes
<1> QED
  BY <1>2 DEF FirstOf

LEMMA InitLine ==
  ASSUME Init
  PROVE  /\ net = [p \in Peers |-> [i \in 1 .. Len(FirstOf(Other(p))) |->
                     [type |-> FirstOf(Other(p))[i], key |-> Clear, seq |-> i - 1]]]
         /\ wseq = [p \in Peers |-> Len(FirstOf(p))]
<1>1. \A p \in Peers : Other(p) \in Peers
  BY Peer
<1> QED
  BY <1>1 DEF Init, FirstOf

LEMMA InitType == Init => TypeInv
<1> SUFFICES ASSUME Init PROVE TypeInv
  OBVIOUS
<1>1. TypeExchange
  BY DEF Init, TypeExchange, KexStates, NamesType, NoNames, Chosen, Endings
<1>2. Clear \in Key
  BY DEF Clear, Key
<1>3. net \in [Peers -> Seq(Packet)]
  <2>1. \A p \in Peers : FirstOf(Other(p)) \in Seq(Types)
    BY FirstTypes, Peer
  <2> QED
    BY <2>1, InitLine, FirstPackets
<1>4. wseq \in [Peers -> Nat]
  <2>1. \A p \in Peers : Len(FirstOf(p)) \in Nat
    BY FirstTypes
  <2> QED
    BY <2>1, InitLine
<1> QED
  BY <1>1, <1>2, <1>3, <1>4 DEF Init, TypeInv, TypeLine

LEMMA TypeInvImplies == TypeInv => TypeOK
<1> SUFFICES ASSUME TypeInv PROVE TypeOK
  OBVIOUS
<1>1. \A n \in NamesType : DOMAIN n = DOMAIN NoNames
  BY DEF NamesType, NoNames
<1> QED
  BY <1>1 DEF TypeInv, TypeExchange, TypeLine, TypeOK, KexStates, Endings

-----------------------------------------------------------------------------
(* Nothing but the exchange before the host key is accepted *)

(* Until then the client reads and writes in the clear, and nothing of the *)
(* session comes to it in the clear that it might answer.                  *)
Unchecked ==
  ~checked => /\ ~encrypted["client"] /\ rkey["client"] = Clear
              /\ \A i \in 1 .. Len(net["server"]) : net["server"][i].type \in KexTypes
ServerSeals == IF encrypted["server"] THEN wkey["server"].n > 0 ELSE wkey["server"] = Clear
NothingClear ==
  \A i \in 1 .. Len(net["client"]) :
     net["client"][i].key = Clear => net["client"][i].type \notin {"DATA", "KEEPALIVE"}
HostKeyInv == Unchecked /\ ServerSeals /\ NothingClear

(* A step that writes: what a line may hold after it. *)
Stays(s, rest) == rest = s \/ (s # <<>> /\ rest = Tail(s))

LEMMA RestHolds ==
  ASSUME NEW s \in Seq(Packet), NEW rest, Stays(s, rest), NEW i \in 1 .. Len(rest)
  PROVE  \E j \in 1 .. Len(s) : rest[i] = s[j]
<1>1. CASE rest = s
  BY <1>1
<1>2. CASE s # <<>> /\ rest = Tail(s)
  BY <1>2
<1> QED
  BY <1>1, <1>2 DEF Stays

LEMMA SealedPackets ==
  ASSUME TypeLine, NEW p \in Peers, NEW types \in Seq(Types), NEW i \in 1 .. Len(types)
  PROVE  Sealed(p, types)[i] = [type |-> types[i], key |-> wkey[p], seq |-> wseq[p] + i - 1]
BY DEF Sealed

LEMMA ConcatAt ==
  ASSUME NEW s \in Seq(Packet), NEW t \in Seq(Packet), NEW i \in 1 .. Len(s \o t)
  PROVE  \/ i \in 1 .. Len(s) /\ (s \o t)[i] = s[i]
         \/ i - Len(s) \in 1 .. Len(t) /\ (s \o t)[i] = t[i - Len(s)]
OBVIOUS

(* The client writes. *)
LEMMA ClientWrites ==
  ASSUME TypeInv, HostKeyInv, NEW types \in Seq(Types), NEW rest, Stays(net["client"], rest),
         net' = [net EXCEPT !["client"] = rest, !["server"] = @ \o Sealed("client", types)],
         ~checked => (UNCHANGED <<encrypted, rkey>> /\
                        \A i \in 1 .. Len(types) : types[i] \in KexTypes),
         checked => checked', UNCHANGED <<encrypted["server"], wkey["server"]>>
  PROVE  HostKeyInv'
<1>0. "client" \in Peers /\ "server" \in Peers
  BY DEF Peers
<1>1. net'["client"] = rest /\ net'["server"] = net["server"] \o Sealed("client", types)
  BY <1>0 DEF TypeInv, TypeLine
<1>2. NothingClear'
  <2> SUFFICES ASSUME NEW i \in 1 .. Len(rest), rest[i].key = Clear
               PROVE  rest[i].type \notin {"DATA", "KEEPALIVE"}
    BY <1>1 DEF NothingClear
  <2>1. PICK j \in 1 .. Len(net["client"]) : rest[i] = net["client"][j]
    BY <1>0, RestHolds DEF TypeInv, TypeLine
  <2> QED
    BY <2>1 DEF HostKeyInv, NothingClear
<1>3. Unchecked'
  <2> SUFFICES ASSUME ~checked, NEW i \in 1 .. Len(net'["server"])
               PROVE  net'["server"][i].type \in KexTypes
    BY DEF HostKeyInv, Unchecked
  <2>1. Sealed("client", types) \in Seq(Packet) /\ Len(Sealed("client", types)) = Len(types)
    BY <1>0, SealedType DEF TypeInv
  <2>2. net["server"] \in Seq(Packet)
    BY <1>0 DEF TypeInv, TypeLine
  <2>3. PICK s \in Seq(Packet), t \in Seq(Packet) :
          s = net["server"] /\ t = Sealed("client", types)
    BY <2>1, <2>2
  <2>4. i \in 1 .. Len(s \o t) /\ net'["server"] = s \o t
    BY <1>1, <2>3
  <2>5. CASE i \in 1 .. Len(s) /\ (s \o t)[i] = s[i]
    BY <2>3, <2>4, <2>5 DEF HostKeyInv, Unchecked
  <2>6. CASE i - Len(s) \in 1 .. Len(t) /\ (s \o t)[i] = t[i - Len(s)]
    <3>0. Len(t) = Len(types)
      BY <2>1, <2>3
    <3>1. PICK k \in 1 .. Len(t) : (s \o t)[i] = t[k]
      BY <2>6
    <3>2. k \in 1 .. Len(types)
      BY <3>0, <3>1
    <3>3. Sealed("client", types)[k]
            = [type |-> types[k], key |-> wkey["client"], seq |-> wseq["client"] + k - 1]
      BY <1>0, <3>2, SealedPackets DEF TypeInv
    <3>4. t[k].type = types[k]
      BY <2>3, <3>3
    <3> QED
      BY <2>4, <3>1, <3>2, <3>4
  <2> QED
    BY <2>4, <2>5, <2>6, ConcatAt
<1>4. ServerSeals'
  BY DEF HostKeyInv, ServerSeals
<1> QED
  BY <1>2, <1>3, <1>4 DEF HostKeyInv

(* The server writes. *)
LEMMA ServerWrites ==
  ASSUME TypeInv, HostKeyInv, NEW out \in Seq(Packet), NEW rest, Stays(net["server"], rest),
         net' = [net EXCEPT !["server"] = rest, !["client"] = @ \o out],
         \A i \in 1 .. Len(out) :
            out[i].key = Clear => out[i].type \notin {"DATA", "KEEPALIVE"},
         UNCHANGED <<checked, encrypted["client"], rkey["client"]>>, ServerSeals'
  PROVE  HostKeyInv'
<1>0. "client" \in Peers /\ "server" \in Peers
  BY DEF Peers
<1>1. net'["server"] = rest /\ net'["client"] = net["client"] \o out
  BY <1>0 DEF TypeInv, TypeLine
<1>2. Unchecked'
  <2> SUFFICES ASSUME ~checked, NEW i \in 1 .. Len(rest)
               PROVE  rest[i].type \in KexTypes
    BY <1>1 DEF HostKeyInv, Unchecked
  <2>1. PICK j \in 1 .. Len(net["server"]) : rest[i] = net["server"][j]
    BY <1>0, RestHolds DEF TypeInv, TypeLine
  <2> QED
    BY <2>1 DEF HostKeyInv, Unchecked
<1>3. NothingClear'
  <2> SUFFICES ASSUME NEW i \in 1 .. Len(net'["client"]), net'["client"][i].key = Clear
               PROVE  net'["client"][i].type \notin {"DATA", "KEEPALIVE"}
    BY DEF NothingClear
  <2>2. net["client"] \in Seq(Packet)
    BY <1>0 DEF TypeInv, TypeLine
  <2>3. PICK s \in Seq(Packet) : s = net["client"]
    BY <2>2
  <2>4. i \in 1 .. Len(s \o out) /\ net'["client"] = s \o out
    BY <1>1, <2>3
  <2>5. CASE i \in 1 .. Len(s) /\ (s \o out)[i] = s[i]
    BY <2>3, <2>4, <2>5 DEF HostKeyInv, NothingClear
  <2>6. CASE i - Len(s) \in 1 .. Len(out) /\ (s \o out)[i] = out[i - Len(s)]
    <3>1. PICK k \in 1 .. Len(out) : (s \o out)[i] = out[k]
      BY <2>6
    <3> QED
      BY <2>4, <3>1
  <2> QED
    BY <2>4, <2>5, <2>6, ConcatAt
<1> QED
  BY <1>2, <1>3 DEF HostKeyInv

(* The clear key is of no exchange, and a key of an exchange is not clear. *)
LEMMA ServerKeyIsNew ==
  ASSUME TypeInv PROVE ServerKeys.local_to_remote.n > 0
BY DEF ServerKeys, compute_key, TypeInv, TypeExchange, Peers

LEMMA InitHostKey == Init => HostKeyInv
<1> SUFFICES ASSUME Init PROVE HostKeyInv
  OBVIOUS
<1>0. "client" \in Peers /\ "server" \in Peers /\ Other("client") = "server"
      /\ Other("server") = "client"
  BY DEF Peers, Other
<1>1. \A i \in 1 .. Len(FirstOf("client")) : FirstOf("client")[i] \in KexTypes
  <2>1. Guess \in KexTypes /\ "KEXINIT" \in KexTypes
    BY DEF Guess, KexTypes
  <2>2. <<"KEXINIT">> \in Seq(KexTypes) /\ <<Guess>> \in Seq(KexTypes)
        /\ <<>> \in Seq(KexTypes)
    BY <2>1
  <2>3. FirstOf("client") \in Seq(KexTypes)
    BY <2>2 DEF FirstOf
  <2> QED
    BY <2>3
<1>2. \A i \in 1 .. Len(FirstOf("server")) : FirstOf("server")[i] \notin {"DATA", "KEEPALIVE"}
  <2>1. PICK K : K = {"IGNORE", "KEXINIT"}
    OBVIOUS
  <2>2. <<"KEXINIT">> \in Seq(K) /\ <<>> \in Seq(K) /\ <<"IGNORE">> \in Seq(K)
    BY <2>1
  <2>3. FirstOf("server") \in Seq(K)
    BY <2>2 DEF FirstOf
  <2>4. \A i \in 1 .. Len(FirstOf("server")) : FirstOf("server")[i] \in K
    BY <2>3
  <2> QED
    BY <2>1, <2>4
<1>3. PICK f \in Seq(Types), g \in Seq(Types) :
         f = FirstOf("client") /\ g = FirstOf("server")
  BY <1>0, FirstTypes
<1>4. /\ net["server"] = [i \in 1 .. Len(f) |-> [type |-> f[i], key |-> Clear, seq |-> i - 1]]
      /\ net["client"] = [i \in 1 .. Len(g) |-> [type |-> g[i], key |-> Clear, seq |-> i - 1]]
  BY <1>0, <1>3, InitLine
<1>5. Len(net["server"]) = Len(f) /\ Len(net["client"]) = Len(g)
  BY <1>4
<1>6. \A i \in 1 .. Len(f) : net["server"][i].type \in KexTypes
  BY <1>1, <1>3, <1>4
<1>7. \A i \in 1 .. Len(g) : net["client"][i].type \notin {"DATA", "KEEPALIVE"}
  BY <1>2, <1>3, <1>4
<1>8. ~encrypted["client"] /\ rkey["client"] = Clear /\ ~encrypted["server"]
      /\ wkey["server"] = Clear
  BY <1>0 DEF Init
<1> QED
  BY <1>5, <1>6, <1>7, <1>8 DEF HostKeyInv, Unchecked, ServerSeals, NothingClear

(* A step of the client that writes messages of the exchange. *)
LEMMA ClientReplies ==
  ASSUME TypeInv, HostKeyInv, NEW state, NEW types \in Seq(Types), NEW rest,
         Stays(net["client"], rest), NeedsReply("client", state, types, rest),
         \A i \in 1 .. Len(types) : ~checked => types[i] \in KexTypes
  PROVE  HostKeyInv'
<1>1. Other("client") = "server"
  BY DEF Other
<1> QED
  BY <1>1, ClientWrites DEF NeedsReply, Write

(* A step of the server that writes nothing of the session. *)
LEMMA ServerReplies ==
  ASSUME TypeInv, HostKeyInv, NEW state, NEW types \in Seq(Types), NEW rest,
         Stays(net["server"], rest), NeedsReply("server", state, types, rest),
         \A i \in 1 .. Len(types) : types[i] \notin {"DATA", "KEEPALIVE"}
  PROVE  HostKeyInv'
<1>1. Other("server") = "client" /\ "server" \in Peers
  BY DEF Other, Peers
<1>2. PICK out \in Seq(Packet) : out = Sealed("server", types) /\ Len(out) = Len(types)
  BY <1>1, SealedType DEF TypeInv
<1>3. ASSUME NEW i \in 1 .. Len(out) PROVE out[i].type \notin {"DATA", "KEEPALIVE"}
  <2>1. i \in 1 .. Len(types)
    BY <1>2, <1>3
  <2>2. Sealed("server", types)[i]
          = [type |-> types[i], key |-> wkey["server"], seq |-> wseq["server"] + i - 1]
    BY <1>1, <2>1, SealedPackets DEF TypeInv
  <2> QED
    BY <1>2, <2>1, <2>2
<1>4. net' = [net EXCEPT !["server"] = rest, !["client"] = @ \o out]
  BY <1>1, <1>2 DEF NeedsReply, Write
<1>5. UNCHANGED <<checked, encrypted, rkey, wkey>>
  BY DEF NeedsReply
<1> QED
  BY <1>2, <1>3, <1>4, <1>5, ServerWrites DEF HostKeyInv, ServerSeals

LEMMA FailHostKey ==
  ASSUME TypeInv, HostKeyInv, NEW p \in Peers, NEW why, NEW rest, Stays(net[p], rest),
         Fail(p, why, rest)
  PROVE  HostKeyInv'
<1>1. UNCHANGED <<checked, encrypted, rkey, wkey>> /\ net' = [net EXCEPT ![p] = rest]
  BY DEF Fail, keyVars
<1>2. ASSUME NEW q \in Peers, NEW i \in 1 .. Len(net'[q])
      PROVE  \E j \in 1 .. Len(net[q]) : net'[q][i] = net[q][j]
  <2>1. net'[q] = IF q = p THEN rest ELSE net[q]
    BY <1>1 DEF TypeInv, TypeLine
  <2>2. Stays(net[q], net'[q]) /\ net[q] \in Seq(Packet)
    BY <2>1 DEF Stays, TypeInv, TypeLine
  <2>3. CASE q = p
    <3>1. PICK s \in Seq(Packet) : s = net[q]
      BY <2>2
    <3>2. Stays(s, rest) /\ i \in 1 .. Len(rest) /\ net'[q] = rest
      BY <1>2, <2>1, <2>3, <3>1
    <3>3. \E j \in 1 .. Len(s) : rest[i] = s[j]
      BY <3>1, <3>2, RestHolds
    <3> QED
      BY <3>1, <3>2, <3>3
  <2> QED
    BY <1>2, <2>1, <2>3
<1>3. "client" \in Peers /\ "server" \in Peers
  BY DEF Peers
<1>4. Unchecked'
  BY <1>1, <1>2, <1>3 DEF HostKeyInv, Unchecked
<1>5. NothingClear'
  BY <1>1, <1>2, <1>3 DEF HostKeyInv, NothingClear
<1> QED
  BY <1>1, <1>4, <1>5 DEF HostKeyInv, ServerSeals

LEMMA KexSeq ==
  ASSUME NEW s \in Seq(KexTypes)
  PROVE  /\ s \in Seq(Types)
         /\ \A i \in 1 .. Len(s) : s[i] \in KexTypes /\ s[i] \notin {"DATA", "KEEPALIVE"}
<1>1. KexTypes \subseteq Types /\ "DATA" \notin KexTypes /\ "KEEPALIVE" \notin KexTypes
  BY DEF Types, KexTypes
<1>2. s \in Seq(Types)
  BY <1>1
<1>3. \A i \in 1 .. Len(s) : s[i] \in KexTypes
  OBVIOUS
<1> QED
  BY <1>1, <1>2, <1>3

LEMMA KexWritten ==
  /\ <<>> \in Seq(KexTypes) /\ \A t \in KexTypes : <<t>> \in Seq(KexTypes)
  /\ \A s, t \in KexTypes : <<s, t>> \in Seq(KexTypes)
  /\ \A s, t \in Seq(KexTypes) : s \o t \in Seq(KexTypes)
  /\ \A p : OwnKexinit(p) \in Seq(KexTypes)
  /\ \A n : FirstMessage(n) \in Seq(KexTypes)
<1>1. <<>> \in Seq(KexTypes) /\ \A t \in KexTypes : <<t>> \in Seq(KexTypes)
  OBVIOUS
<1>2. \A s, t \in KexTypes : <<s, t>> \in Seq(KexTypes)
  OBVIOUS
<1>3. \A s, t \in Seq(KexTypes) : s \o t \in Seq(KexTypes)
  OBVIOUS
<1>4. {"KEXINIT", "GEX_REQUEST", "ECDH_INIT"} \subseteq KexTypes
  BY DEF KexTypes
<1>5. <<"KEXINIT">> \in Seq(KexTypes) /\ <<"GEX_REQUEST">> \in Seq(KexTypes)
      /\ <<"ECDH_INIT">> \in Seq(KexTypes)
  BY <1>1, <1>4
<1> QED
  BY <1>1, <1>2, <1>3, <1>5 DEF OwnKexinit, FirstMessage

LEMMA ClientDoneHostKey ==
  ASSUME TypeInv, HostKeyInv, NEW rest, Stays(net["client"], rest), ClientDone(rest)
  PROVE  HostKeyInv'
<1>1. "client" \in Peers /\ "server" \in Peers /\ "client" # "server"
  BY DEF Peers
<1>2. checked' /\ net' = [net EXCEPT !["client"] = rest]
  BY DEF ClientDone
<1>3. UNCHANGED <<encrypted["server"], wkey["server"]>>
  BY <1>1 DEF ClientDone, NewKeys, TypeInv, TypeExchange, TypeLine
<1>4. net'["client"] = rest /\ net["client"] \in Seq(Packet)
  BY <1>1, <1>2 DEF TypeInv, TypeLine
<1>5. NothingClear'
  <2> SUFFICES ASSUME NEW i \in 1 .. Len(rest), rest[i].key = Clear
               PROVE  rest[i].type \notin {"DATA", "KEEPALIVE"}
    BY <1>4 DEF NothingClear
  <2>1. PICK j \in 1 .. Len(net["client"]) : rest[i] = net["client"][j]
    BY <1>4, RestHolds
  <2> QED
    BY <2>1 DEF HostKeyInv, NothingClear
<1> QED
  BY <1>2, <1>3, <1>5 DEF HostKeyInv, Unchecked, ServerSeals

LEMMA ServerDoneHostKey ==
  ASSUME TypeInv, HostKeyInv, NEW rest, Stays(net["server"], rest), ServerDone(rest)
  PROVE  HostKeyInv'
<1>1. "client" \in Peers /\ "server" \in Peers /\ "client" # "server"
  BY DEF Peers
<1>2. PICK ext \in {<<>>, <<ExtInfo>>} :
        net' = [net EXCEPT !["server"] = rest, !["client"] = @ \o ext]
  BY DEF ServerDone, ExtInfo
<1>3. ExtInfo \in Packet
  BY ServerKeysType DEF ExtInfo, Packet, OtherTypes, TypeInv, TypeLine, Peers
<1>4. ext \in Seq(Packet)
  <2>1. <<>> \in Seq(Packet) /\ <<ExtInfo>> \in Seq(Packet)
    BY <1>3
  <2> QED
    BY <2>1
<1>5. \A i \in 1 .. Len(ext) : ext[i].type \notin {"DATA", "KEEPALIVE"}
  <2>1. ExtInfo.type = "EXT_INFO"
    BY DEF ExtInfo
  <2>2. CASE ext = <<>>
    BY <2>2
  <2>3. CASE ext = <<ExtInfo>>
    <3>1. \A i \in 1 .. Len(ext) : ext[i] = ExtInfo
      BY <2>3
    <3> QED
      BY <2>1, <3>1
  <2> QED
    BY <2>2, <2>3
<1>6. UNCHANGED <<checked, encrypted["client"], rkey["client"]>>
  BY <1>1 DEF ServerDone, NewKeys, TypeInv, TypeExchange, TypeLine
<1>7. wkey'["server"] = ServerKeys.local_to_remote /\ encrypted'["server"]
  BY <1>1 DEF ServerDone, NewKeys, TypeInv, TypeExchange, TypeLine
<1>8. ServerSeals'
  BY <1>7, ServerKeyIsNew DEF ServerSeals
<1> QED
  BY <1>2, <1>4, <1>5, <1>6, <1>8, ServerWrites

LEMMA ClientStepHostKey ==
  ASSUME TypeInv, HostKeyInv, NEW m, NEW rest, Stays(net["client"], rest), ClientStep(m, rest)
  PROVE  HostKeyInv'
<1>1. "client" \in Peers /\ kex["client"] \in KexStates
  BY DEF Peers, TypeInv, TypeExchange
<1>2. ASSUME NEW state, NEW types \in Seq(KexTypes), NeedsReply("client", state, types, rest)
      PROVE  HostKeyInv'
  BY <1>2, KexSeq, ClientReplies
<1>3. ASSUME NEW why, Fail("client", why, rest) PROVE HostKeyInv'
  BY <1>1, <1>3, FailHostKey
<1>4. CASE ClientCreated(rest)
  <2>1. PICK n \in {Negotiated("client")} :
          \/ Fail("client", "refused", rest)
          \/ NeedsReply("client", IF n.kex = "dh-gex" THEN "group" ELSE "dh",
                       OwnKexinit("client")
                       \o (IF setup.guess /\ ~encrypted["client"] /\ GuessRight
                           THEN <<>> ELSE FirstMessage(n)), rest)
    BY <1>4 DEF ClientCreated
  <2>2. (IF setup.guess /\ ~encrypted["client"] /\ GuessRight THEN <<>> ELSE FirstMessage(n))
          \in Seq(KexTypes)
    BY KexWritten
  <2>3. OwnKexinit("client") \o (IF setup.guess /\ ~encrypted["client"] /\ GuessRight
                                 THEN <<>> ELSE FirstMessage(n)) \in Seq(KexTypes)
    BY <2>2, KexWritten
  <2> QED
    BY <1>2, <1>3, <2>1, <2>3
<1>5. CASE ClientGroup(rest)
  <2>1. <<"GEX_INIT">> \in Seq(KexTypes)
    BY KexWritten DEF KexTypes
  <2> QED
    BY <1>2, <1>5, <2>1 DEF ClientGroup
<1>6. CASE ClientDhReply(rest)
  <2>1. <<"NEWKEYS">> \in Seq(KexTypes)
    BY KexWritten DEF KexTypes
  <2> QED
    BY <1>2, <1>6, <2>1 DEF ClientDhReply
<1>7. CASE ClientDone(rest)
  BY <1>7, ClientDoneHostKey
<1> QED
  BY <1>1, <1>3, <1>4, <1>5, <1>6, <1>7 DEF ClientStep, KexStates

LEMMA ServerStepHostKey ==
  ASSUME TypeInv, HostKeyInv, NEW m, NEW rest, Stays(net["server"], rest), ServerStep(m, rest)
  PROVE  HostKeyInv'
<1>1. "server" \in Peers /\ kex["server"] \in KexStates
  BY DEF Peers, TypeInv, TypeExchange
<1>2. ASSUME NEW state, NEW types \in Seq(KexTypes), NeedsReply("server", state, types, rest)
      PROVE  HostKeyInv'
  BY <1>2, KexSeq, ServerReplies
<1>3. ASSUME NEW why, Fail("server", why, rest) PROVE HostKeyInv'
  BY <1>1, <1>3, FailHostKey
<1>4. CASE ServerCreated(rest)
  <2>1. \/ Fail("server", "refused", rest)
        \/ \E state : NeedsReply("server", state, OwnKexinit("server"), rest)
    BY <1>4 DEF ServerCreated
  <2> QED
    BY <1>2, <1>3, <2>1, KexWritten
<1>5. CASE ServerGroup(rest)
  <2>1. <<"GEX_GROUP">> \in Seq(KexTypes)
    BY KexWritten DEF KexTypes
  <2> QED
    BY <1>2, <1>5, <2>1 DEF ServerGroup
<1>6. CASE ServerDhInit(rest)
  <2>1. <<IF names["server"].kex = "dh-gex" THEN "GEX_REPLY" ELSE "ECDH_REPLY", "NEWKEYS">>
          \in Seq(KexTypes)
    BY KexWritten DEF KexTypes
  <2> QED
    BY <1>2, <1>6, <2>1 DEF ServerDhInit
<1>7. CASE IgnoreGuess(rest)
  BY <1>2, <1>7, KexWritten DEF IgnoreGuess
<1>8. CASE ServerDone(rest)
  BY <1>8, ServerDoneHostKey
<1> QED
  BY <1>1, <1>3, <1>4, <1>5, <1>6, <1>7, <1>8 DEF ServerStep, KexStates

LEMMA OtherHostKey ==
  ASSUME TypeInv, HostKeyInv, NEW p \in Peers, dead[p] = "no", net[p] # <<>>,
         Opens(p, Head(net[p])), OtherMessage(p, Head(net[p]), Tail(net[p]))
  PROVE  HostKeyInv'
<1>1. PICK types \in {<<>>, <<"ANSWER">>} :
        /\ NeedsReply(p, kex[p], types, Tail(net[p]))
        /\ types = <<>> \/ Head(net[p]).type \in {"DATA", "KEEPALIVE"}
  BY DEF OtherMessage
<1>2. types \in Seq(Types) /\ \A i \in 1 .. Len(types) : types[i] \notin {"DATA", "KEEPALIVE"}
  <2>1. CASE types = <<>>
    BY <2>1
  <2>2. CASE types = <<"ANSWER">>
    <3>1. "ANSWER" \in Types
      BY DEF Types, OtherTypes
    <3> QED
      BY <2>2, <3>1
  <2> QED
    BY <2>1, <2>2
<1>3. Stays(net[p], Tail(net[p]))
  BY DEF Stays
<1>4. CASE p = "server"
  BY <1>1, <1>2, <1>3, <1>4, ServerReplies
<1>5. CASE p = "client"
  <2>1. checked \/ types = <<>>
    <3>1. net["client"] \in Seq(Packet) /\ net["client"] # <<>>
      BY <1>5 DEF TypeInv, TypeLine
    <3>2. Head(net["client"]) = net["client"][1] /\ 1 \in 1 .. Len(net["client"])
      BY <3>1
    <3>3. ~checked => Head(net["client"]).key = Clear
      BY <1>5 DEF Opens, HostKeyInv, Unchecked
    <3>4. ~checked => Head(net["client"]).type \notin {"DATA", "KEEPALIVE"}
      BY <3>2, <3>3 DEF HostKeyInv, NothingClear
    <3> QED
      BY <1>1, <1>5, <3>4
  <2>2. ~checked => \A i \in 1 .. Len(types) : types[i] \in KexTypes
    BY <2>1
  <2> QED
    BY <1>1, <1>2, <1>3, <1>5, <2>2, ClientReplies
<1> QED
  BY <1>4, <1>5 DEF Peers

LEMMA ReadHostKey == ASSUME TypeInv, HostKeyInv, NEW p \in Peers, Read(p) PROVE HostKeyInv'
<1> DEFINE m == Head(net[p])
           rest == Tail(net[p])
<1>1. Stays(net[p], rest)
  BY DEF Read, Stays
<1>2. \/ Fail(p, "decrypt", rest)
      \/ p = "server" /\ ServerStep(m, rest)
      \/ p = "client" /\ ClientStep(m, rest)
      \/ Opens(p, m) /\ OtherMessage(p, m, rest)
  BY DEF Read
<1>3. CASE Opens(p, m) /\ OtherMessage(p, m, rest)
  BY <1>3, OtherHostKey DEF Read
<1> HIDE DEF rest, m
<1> QED
  BY <1>1, <1>2, <1>3, FailHostKey, ServerStepHostKey, ClientStepHostKey

(* A message of the session, a keepalive or a KEXINIT of one that is         *)
(* encrypted.                                                                *)
LEMMA SpontaneousHostKey ==
  ASSUME TypeInv, HostKeyInv, NEW p \in Peers, encrypted[p], NEW t \in Types,
         Write(p, <<t>>, net[p]), UNCHANGED <<checked, encrypted, wkey, rkey>>
  PROVE  HostKeyInv'
<1>1. Stays(net[p], net[p]) /\ <<t>> \in Seq(Types)
  BY DEF Stays
<1>2. CASE p = "client"
  <2>1. checked /\ Other("client") = "server"
    BY <1>2 DEF HostKeyInv, Unchecked, Other
  <2> QED
    BY <1>1, <1>2, <2>1, ClientWrites DEF Write
<1>3. CASE p = "server"
  <2>1. Other("server") = "client" /\ "server" \in Peers
    BY DEF Other, Peers
  <2>2. PICK out \in Seq(Packet) : out = Sealed("server", <<t>>) /\ Len(out) = Len(<<t>>)
    BY <1>1, <2>1, SealedType DEF TypeInv
  <2>3. ASSUME NEW i \in 1 .. Len(out) PROVE out[i].key # Clear
    <3>1. i \in 1 .. Len(<<t>>)
      BY <2>2, <2>3
    <3>2. Sealed("server", <<t>>)[i]
            = [type |-> <<t>>[i], key |-> wkey["server"], seq |-> wseq["server"] + i - 1]
      BY <1>1, <2>1, <3>1, SealedPackets DEF TypeInv
    <3>3. wkey["server"].n # Clear.n
      BY <1>3 DEF HostKeyInv, ServerSeals, Clear
    <3> QED
      BY <2>2, <3>2, <3>3
  <2>4. net' = [net EXCEPT !["server"] = net["server"], !["client"] = @ \o out]
    BY <1>3, <2>1, <2>2 DEF Write
  <2>5. ServerSeals'
    BY DEF HostKeyInv, ServerSeals
  <2> QED
    BY <1>1, <1>3, <2>2, <2>3, <2>4, <2>5, ServerWrites
<1> QED
  BY <1>2, <1>3 DEF Peers

LEMMA HostKeyStep == TypeInv /\ HostKeyInv /\ [Next]_vars => HostKeyInv'
<1> SUFFICES ASSUME TypeInv, HostKeyInv, [Next]_vars PROVE HostKeyInv'
  OBVIOUS
<1>1. CASE UNCHANGED vars
  BY <1>1 DEF vars, keyVars, HostKeyInv, Unchecked, ServerSeals, NothingClear
<1>2. CASE \E p \in Peers : Read(p)
  BY <1>2, ReadHostKey
<1>3. CASE \/ \E p \in Peers : HandleMessage(p) \/ KeepaliveTimer(p)
           \/ ClientFlush
           \/ ServerFlush
  <2>1. \E p \in Peers, t \in Types : encrypted[p] /\ Write(p, <<t>>, net[p])
                                       /\ UNCHANGED <<checked, encrypted, wkey, rkey>>
    BY <1>3 DEF HandleMessage, KeepaliveTimer, ClientFlush, ServerFlush, begin_rekey, Peers,
                Types, KexTypes, OtherTypes
  <2> QED
    BY <2>1, SpontaneousHostKey
<1> QED
  BY <1>1, <1>2, <1>3 DEF Next

(* Until check_server_key has accepted the host key, everything the client   *)
(* has sent belongs to the key exchange: no timer, no message of the handle  *)
(* and nothing the server sends makes it write anything of the session.      *)
THEOREM HostKeyBeforeData == Spec => []HostKeyFirst
<1>1. HostKeyInv => HostKeyFirst
  BY DEF HostKeyInv, Unchecked, HostKeyFirst
<1> QED
  BY <1>1, InitType, TypeStep, InitHostKey, HostKeyStep, PTL DEF Spec

-----------------------------------------------------------------------------
(* The two sides in step *)

(* What the client makes of the lists of a setup; without a guess the server *)
(* makes the same of them, in every exchange.                                *)
Agreed(u) ==
  read_kex("client", write_kex("server", u.pref["server"], u.keys), FALSE,
           u.pref["client"], u.keys, FALSE)
Gex(u) == Agreed(u).kex = "dh-gex"

(* The key p writes with after n exchanges. *)
KeyAt(u, n, p) ==
  IF n = 0 THEN Clear
  ELSE [n |-> n, letter |-> IF p = "client" THEN "C" ELSE "D", cipher |-> Agreed(u).cipher,
        mac |-> IF Agreed(u).cipher \in CiphersWithMac THEN Agreed(u).client_mac ELSE "none"]

(* A position in what a side writes: n times NEWKEYS, then ph messages of    *)
(* the next exchange (the reply of the server counts twice without a group   *)
(* exchange), the next packet has the number seq.                            *)
Pos == [n : Nat, ph : 0 .. 3, seq : Nat]

(* The message of the exchange that p writes next. *)
NextKex(u, p, ph) ==
  IF ph = 0 THEN "KEXINIT"
  ELSE IF ph = 3 THEN "NEWKEYS"
  ELSE IF p = "client"
       THEN IF ph = 1 THEN IF Gex(u) THEN "GEX_REQUEST" ELSE "ECDH_INIT"
                      ELSE IF Gex(u) THEN "GEX_INIT" ELSE "NEWKEYS"
       ELSE IF ph = 1 THEN IF Gex(u) THEN "GEX_GROUP" ELSE "ECDH_REPLY"
                      ELSE "GEX_REPLY"

(* Keepalives and answers come at any time.                                  *)
Allowed(u, p, a, t) == t = NextKex(u, p, a.ph) \/ t \in OtherTypes

After(u, p, a, t) ==
  IF t = "NEWKEYS"
  THEN [n |-> a.n + 1, ph |-> 0, seq |-> IF Agreed(u).strict_kex THEN 0 ELSE a.seq + 1]
  ELSE [n |-> a.n,
        ph |-> IF t \notin KexTypes THEN a.ph
               ELSE IF p = "server" /\ a.ph = 1 /\ ~Gex(u) THEN 3 ELSE a.ph + 1,
        seq |-> a.seq + 1]

(* p writes m at position a and comes to b. *)
Legal(u, p, a, m, b) ==
  Allowed(u, p, a, m.type) /\ m.key = KeyAt(u, a.n, p) /\ m.seq = a.seq
    /\ b = After(u, p, a, m.type)

(* p writes the packets s on its way from position a to b. *)
Run(u, p, a, s, b) ==
  \E st \in [1 .. Len(s) + 1 -> Pos] :
     /\ st[1] = a /\ st[Len(s) + 1] = b
     /\ \A i \in 1 .. Len(s) : Legal(u, p, st[i], s[i], st[i + 1])

LEMMA RunEmpty == ASSUME NEW u, NEW p, NEW a \in Pos PROVE Run(u, p, a, <<>>, a)
<1>1. PICK st \in [1 .. 1 -> Pos] : st = [i \in 1 .. 1 |-> a]
  OBVIOUS
<1>2. st \in [1 .. Len(<<>>) + 1 -> Pos] /\ st[1] = a /\ st[Len(<<>>) + 1] = a
  BY <1>1
<1> QED
  BY <1>2 DEF Run

LEMMA RunOne ==
  ASSUME NEW u, NEW p, NEW a \in Pos, NEW b \in Pos, NEW s \in Seq(Packet), Len(s) = 1,
         Legal(u, p, a, s[1], b)
  PROVE  Run(u, p, a, s, b)
<1>1. PICK st \in [1 .. 2 -> Pos] : st = [i \in 1 .. 2 |-> IF i = 1 THEN a ELSE b]
  OBVIOUS
<1>2. st \in [1 .. Len(s) + 1 -> Pos] /\ st[1] = a /\ st[Len(s) + 1] = b
  BY <1>1
<1>3. \A i \in 1 .. Len(s) : i = 1 /\ st[i] = a /\ st[i + 1] = b
  BY <1>1
<1> QED
  BY <1>2, <1>3 DEF Run

LEMMA RunTwo ==
  ASSUME NEW u, NEW p, NEW a \in Pos, NEW b \in Pos, NEW c \in Pos, NEW s \in Seq(Packet),
         Len(s) = 2, Legal(u, p, a, s[1], b), Legal(u, p, b, s[2], c)
  PROVE  Run(u, p, a, s, c)
<1>1. PICK st \in [1 .. 3 -> Pos] :
        st = [i \in 1 .. 3 |-> IF i = 1 THEN a ELSE IF i = 2 THEN b ELSE c]
  OBVIOUS
<1>2. st \in [1 .. Len(s) + 1 -> Pos] /\ st[1] = a /\ st[Len(s) + 1] = c
  BY <1>1
<1>3. \A i \in 1 .. Len(s) : \/ i = 1 /\ st[i] = a /\ st[i + 1] = b
                             \/ i = 2 /\ st[i] = b /\ st[i + 1] = c
  BY <1>1
<1>4. \A i \in 1 .. Len(s) : Legal(u, p, st[i], s[i], st[i + 1])
  BY <1>3
<1> QED
  BY <1>2, <1>4 DEF Run

LEMMA RunConcat ==
  ASSUME NEW u, NEW p, NEW a, NEW b, NEW c, NEW s \in Seq(Packet), NEW t \in Seq(Packet),
         Run(u, p, a, s, b), Run(u, p, b, t, c)
  PROVE  Run(u, p, a, s \o t, c)
<1>1. PICK x \in [1 .. Len(s) + 1 -> Pos] :
        /\ x[1] = a /\ x[Len(s) + 1] = b
        /\ \A i \in 1 .. Len(s) : Legal(u, p, x[i], s[i], x[i + 1])
  BY DEF Run
<1>2. PICK y \in [1 .. Len(t) + 1 -> Pos] :
        /\ y[1] = b /\ y[Len(t) + 1] = c
        /\ \A i \in 1 .. Len(t) : Legal(u, p, y[i], t[i], y[i + 1])
  BY DEF Run
<1>3. PICK k \in Nat, l \in Nat : k = Len(s) /\ l = Len(t)
  OBVIOUS
<1>4. PICK z : z = [i \in 1 .. k + l + 1 |-> IF i <= k + 1 THEN x[i] ELSE y[i - k]]
  OBVIOUS
<1>5. PICK r \in Seq(Packet) : r = s \o t /\ Len(r) = k + l
  <2>1. s \o t \in Seq(Packet)
    OBVIOUS
  <2>2. Len(s \o t) = k + l
    BY <1>3
  <2> QED
    BY <2>1, <2>2
<1>6. z \in [1 .. k + l + 1 -> Pos]
  BY <1>1, <1>2, <1>3, <1>4
<1>7. z[1] = a /\ z[k + l + 1] = c
  <2>1. z[1] = x[1]
    BY <1>3, <1>4
  <2>2. CASE l = 0
    <3>1. z[k + l + 1] = x[k + 1] /\ b = c
      BY <1>2, <1>3, <1>4, <2>2
    <3> QED
      BY <1>1, <1>3, <2>1, <3>1
  <2>3. CASE l # 0
    <3>1. z[k + l + 1] = y[(k + l + 1) - k] /\ (k + l + 1) - k = l + 1
      BY <1>3, <1>4, <2>3
    <3> QED
      BY <1>1, <1>2, <1>3, <2>1, <3>1
  <2> QED
    BY <2>2, <2>3
<1>8. ASSUME NEW i \in 1 .. k + l PROVE Legal(u, p, z[i], r[i], z[i + 1])
  <2>1. CASE i <= k
    <3>1. r[i] = s[i] /\ i \in 1 .. Len(s)
      BY <2>1, <1>3, <1>5
    <3>2. z[i] = x[i] /\ z[i + 1] = x[i + 1]
      BY <2>1, <1>4
    <3> QED
      BY <1>1, <3>1, <3>2
  <2>2. CASE i > k
    <3>1. i - k \in 1 .. Len(t) /\ r[i] = t[i - k]
      BY <2>2, <1>3, <1>5
    <3>2. z[i + 1] = y[(i - k) + 1]
      BY <2>2, <1>4
    <3>3. z[i] = y[i - k]
      <4>1. CASE i = k + 1
        BY <4>1, <1>1, <1>2, <1>3, <1>4
      <4>2. CASE i # k + 1
        BY <2>2, <4>2, <1>4
      <4> QED
        BY <4>1, <4>2
    <3> QED
      BY <1>2, <3>1, <3>2, <3>3
  <2> QED
    BY <1>3, <2>1, <2>2
<1> QED
  BY <1>5, <1>6, <1>7, <1>8 DEF Run

LEMMA RunHead ==
  ASSUME NEW u, NEW p, NEW a, NEW b, NEW s \in Seq(Packet), s # <<>>, Run(u, p, a, s, b)
  PROVE  \E c \in Pos : Legal(u, p, a, Head(s), c) /\ Run(u, p, c, Tail(s), b)
<1>1. PICK x \in [1 .. Len(s) + 1 -> Pos] :
        /\ x[1] = a /\ x[Len(s) + 1] = b
        /\ \A i \in 1 .. Len(s) : Legal(u, p, x[i], s[i], x[i + 1])
  BY SMTT(60) DEF Run
<1>2. PICK k \in Nat : k + 1 = Len(s)
  <2>1. Len(s) \in Nat /\ Len(s) # 0
    OBVIOUS
  <2>2. Len(s) - 1 \in Nat /\ (Len(s) - 1) + 1 = Len(s)
    BY <2>1
  <2> QED
    BY <2>2
<1>3. PICK r \in Seq(Packet) : r = Tail(s) /\ Len(r) = k
  <2>1. Tail(s) \in Seq(Packet) /\ Len(Tail(s)) = Len(s) - 1
    OBVIOUS
  <2>2. Len(s) - 1 = k
    BY <1>2
  <2>3. Len(Tail(s)) = k
    BY <2>1, <2>2
  <2> QED
    BY <2>1, <2>3
<1>4. \A i \in 1 .. k : r[i] = s[i + 1]
  BY <1>2, <1>3
<1>5. PICK z : z = [i \in 1 .. k + 1 |-> x[i + 1]]
  OBVIOUS
<1>6. z \in [1 .. k + 1 -> Pos] /\ z[1] = x[2] /\ z[k + 1] = b
  <2>1. \A i \in 1 .. k + 1 : x[i + 1] \in Pos
    BY <1>2
  <2>2. z \in [1 .. k + 1 -> Pos]
    BY <1>5, <2>1
  <2>3. z[1] = x[1 + 1] /\ z[k + 1] = x[(k + 1) + 1]
    BY <1>5
  <2> QED
    BY <1>1, <1>2, <2>2, <2>3
<1>7. ASSUME NEW i \in 1 .. k PROVE Legal(u, p, z[i], r[i], z[i + 1])
  <2>1. z[i] = x[i + 1] /\ z[i + 1] = x[(i + 1) + 1] /\ i + 1 \in 1 .. Len(s)
    BY <1>2, <1>5
  <2> QED
    BY <1>1, <1>4, <2>1
<1>8. Run(u, p, x[2], r, b)
  BY <1>3, <1>6, <1>7 DEF Run
<1>9. Legal(u, p, a, Head(s), x[2]) /\ x[2] \in Pos
  BY <1>1, <1>2
<1> QED
  BY <1>3, <1>8, <1>9

(* On the way a side's count of NEWKEYS never goes back, and goes on only    *)
(* with a NEWKEYS.                                                           *)
LEMMA RunCounts ==
  ASSUME NEW u, NEW p, NEW a \in Pos, NEW b \in Pos, NEW s \in Seq(Packet), Run(u, p, a, s, b)
  PROVE  /\ a.n <= b.n
         /\ a.n # b.n => \E i \in 1 .. Len(s) : s[i].type = "NEWKEYS"
<1>1. PICK x \in [1 .. Len(s) + 1 -> Pos] :
        /\ x[1] = a /\ x[Len(s) + 1] = b
        /\ \A i \in 1 .. Len(s) : Legal(u, p, x[i], s[i], x[i + 1])
  BY DEF Run
<1>2. PICK k \in Nat : k = Len(s)
  OBVIOUS
<1>3. ASSUME NEW i \in 1 .. k
      PROVE  x[i + 1].n >= x[i].n /\ (x[i + 1].n # x[i].n => s[i].type = "NEWKEYS")
  <2>1. x[i] \in Pos /\ x[i + 1] = After(u, p, x[i], s[i].type)
    BY <1>1, <1>2 DEF Legal
  <2> QED
    BY <2>1, SMTT(60) DEF After, Pos
<1>4. \A i \in 1 .. k + 1 : x[i].n \in Nat
  BY <1>1, <1>2 DEF Pos
<1>5. a.n <= b.n
  <2>1. PICK T : T = {i \in 1 .. k + 1 : x[i].n < a.n}
    OBVIOUS
  <2>2. T = {}
    <3> SUFFICES ASSUME T # {} PROVE FALSE
      OBVIOUS
    <3>0. T \subseteq Nat
      BY <2>1
    <3>1. PICK i \in T : \A j \in T : i <= j
      BY <3>0, LeastNatural
    <3>2. i # 1
      BY <1>1, <1>4, <2>1
    <3>3. i - 1 \in 1 .. k /\ i - 1 \in 1 .. k + 1 /\ ~(i <= i - 1) /\ (i - 1) + 1 = i
      BY <2>1, <3>2
    <3>4. i - 1 \notin T
      BY <3>1, <3>3
    <3>5. x[i - 1].n >= a.n
      BY <1>1, <1>4, <2>1, <3>3, <3>4, SMTT(60)
    <3>6. x[i].n >= x[i - 1].n
      BY <1>3, <3>3
    <3> QED
      BY <1>1, <1>4, <2>1, <3>1, <3>3, <3>5, <3>6
  <2>3. k + 1 \notin T /\ k + 1 \in 1 .. k + 1
    BY <2>2
  <2> QED
    BY <1>1, <1>2, <1>4, <2>1, <2>3
<1>6. ASSUME \A i \in 1 .. k : s[i].type # "NEWKEYS" PROVE a.n = b.n
  <2>1. PICK T : T = {i \in 1 .. k + 1 : x[i].n # a.n}
    OBVIOUS
  <2>2. T = {}
    <3> SUFFICES ASSUME T # {} PROVE FALSE
      OBVIOUS
    <3>0. T \subseteq Nat
      BY <2>1
    <3>1. PICK i \in T : \A j \in T : i <= j
      BY <3>0, LeastNatural
    <3>2. i # 1
      BY <1>1, <2>1
    <3>3. i - 1 \in 1 .. k /\ i - 1 \in 1 .. k + 1 /\ ~(i <= i - 1) /\ (i - 1) + 1 = i
      BY <2>1, <3>2
    <3>4. i - 1 \notin T
      BY <3>1, <3>3
    <3>5. x[i - 1].n = a.n
      BY <2>1, <3>3, <3>4
    <3>6. x[i].n = x[i - 1].n
      BY <1>3, <1>6, <3>3
    <3> QED
      BY <2>1, <3>1, <3>5, <3>6
  <2>3. k + 1 \notin T /\ k + 1 \in 1 .. k + 1
    BY <2>2
  <2> QED
    BY <1>1, <1>2, <2>1, <2>3
<1> QED
  BY <1>2, <1>5, <1>6

(* And between two NEWKEYS it goes through its exchange forwards. *)
LEMMA RunAhead ==
  ASSUME NEW u, NEW p, NEW a \in Pos, NEW b \in Pos, NEW s \in Seq(Packet), Run(u, p, a, s, b)
  PROVE  b.n > a.n \/ (b.n = a.n /\ b.ph >= a.ph)
<1>1. PICK x \in [1 .. Len(s) + 1 -> Pos] :
        /\ x[1] = a /\ x[Len(s) + 1] = b
        /\ \A i \in 1 .. Len(s) : Legal(u, p, x[i], s[i], x[i + 1])
  BY DEF Run
<1>2. PICK k \in Nat : k = Len(s)
  OBVIOUS
<1> DEFINE Ahead(i) == x[i].n > a.n \/ (x[i].n = a.n /\ x[i].ph >= a.ph)
<1>3. \A i \in 1 .. k + 1 : x[i].n \in Nat /\ x[i].ph \in 0 .. 3
  BY <1>1, <1>2 DEF Pos
<1>4. ASSUME NEW i \in 1 .. k, Ahead(i) PROVE Ahead(i + 1)
  <2>1. PICK c \in Pos, d \in Pos : c = x[i] /\ d = x[i + 1]
    BY <1>1, <1>2
  <2>2. d = After(u, p, c, s[i].type) /\ c.n \in Nat /\ c.ph \in 0 .. 3
    BY <1>1, <1>2, <2>1 DEF Legal, Pos
  <2>3. d.n = c.n + 1 \/ (d.n = c.n /\ d.ph >= c.ph)
    BY <2>2 DEF After
  <2>4. c.n > a.n \/ (c.n = a.n /\ c.ph >= a.ph)
    BY <1>4, <2>1
  <2>5. a.n \in Nat /\ a.ph \in 0 .. 3 /\ d.ph \in 0 .. 3 /\ d.n \in Nat
    BY <1>3, <2>1 DEF Pos
  <2>6. d.n > a.n \/ (d.n = a.n /\ d.ph >= a.ph)
    BY <2>2, <2>3, <2>4, <2>5
  <2> QED
    BY <2>1, <2>6
<1>5. PICK T : T = {i \in 1 .. k + 1 : ~Ahead(i)}
  OBVIOUS
<1>6. Ahead(1)
  BY <1>1, <1>3 DEF Pos
<1> HIDE DEF Ahead
<1>7. T = {}
  <2> SUFFICES ASSUME T # {} PROVE FALSE
    OBVIOUS
  <2>0. T \subseteq Nat
    BY <1>5
  <2>1. PICK i \in T : \A j \in T : i <= j
    BY <2>0, LeastNatural
  <2>2. i # 1
    BY <1>5, <1>6, <2>1
  <2>3. i - 1 \in 1 .. k /\ i - 1 \in 1 .. k + 1 /\ ~(i <= i - 1) /\ (i - 1) + 1 = i
    BY <1>5, <2>1, <2>2
  <2>4. i - 1 \notin T
    BY <2>1, <2>3
  <2> QED
    BY <1>4, <1>5, <2>1, <2>3, <2>4
<1>8. Ahead(k + 1)
  BY <1>5, <1>7
<1> QED
  BY <1>1, <1>2, <1>8 DEF Ahead

LEMMA RunNowhere ==
  ASSUME NEW u, NEW p, NEW a, NEW b, Run(u, p, a, <<>>, b) PROVE a = b
BY DEF Run

-----------------------------------------------------------------------------
(* Both sides agree on the names *)

LEMMA MethodsStay ==
  ASSUME NEW side, NEW pref, NEW keys
  PROVE  RestrictValues(write_kex(side, pref, keys).kex, LAMBDA k : k \in KEXES)
           = RestrictValues(pref.kex, LAMBDA k : k \in KEXES)
<1>1. \A k \in KEXES : k \notin KEX_EXTENSION_NAMES(Otherwise(side))
  BY DEF KEXES, KEX_EXTENSION_NAMES
<1> QED
  BY <1>1 DEF RestrictValues, Restrict, write_kex

LEMMA StrictNameStays ==
  ASSUME NEW l, NEW side \in Peers
  PROVE  Has(RestrictValues(l, LAMBDA k : k \notin KEX_EXTENSION_NAMES(Otherwise(side))),
             StrictName(side)) <=> Has(l, StrictName(side))
<1>1. StrictName(side) \notin KEX_EXTENSION_NAMES(Otherwise(side))
  BY DEF KEX_EXTENSION_NAMES, StrictName, Otherwise, Peers
<1> QED
  BY <1>1 DEF RestrictValues, Restrict, Has

LEMMA SameNames ==
  ASSUME NEW u \in Setups, NEW p \in Peers, NEW again \in BOOLEAN,
         again => Agreed(u).strict_kex
  PROVE  read_kex(p, write_kex(Other(p), u.pref[Other(p)], u.keys), FALSE, u.pref[p], u.keys,
                  again) = Agreed(u)
<1>1. CASE p = "client"
  BY <1>1 DEF Agreed, read_kex, Other
<1>2. CASE p = "server"
  <2> DEFINE c == u.pref["client"]
             s == u.pref["server"]
             wc == write_kex("client", c, u.keys)
             ws == write_kex("server", s, u.keys)
  <2>1. /\ wc.kex = RestrictValues(c.kex,
                        LAMBDA k : k \notin KEX_EXTENSION_NAMES(Otherwise("client")))
        /\ ws.kex = RestrictValues(s.kex,
                        LAMBDA k : k \notin KEX_EXTENSION_NAMES(Otherwise("server")))
        /\ wc.key = c.key /\ ws.key = possible_host_key_algos_for_keys(s, u.keys)
        /\ wc.cipher = c.cipher /\ ws.cipher = s.cipher /\ wc.mac = c.mac /\ ws.mac = s.mac
        /\ wc.compression = c.compression /\ ws.compression = s.compression
    BY DEF write_kex
  <2>2. /\ RestrictValues(wc.kex, LAMBDA k : k \in KEXES)
             = RestrictValues(c.kex, LAMBDA k : k \in KEXES)
        /\ RestrictValues(ws.kex, LAMBDA k : k \in KEXES)
             = RestrictValues(s.kex, LAMBDA k : k \in KEXES)
    BY MethodsStay
  <2>3. /\ Has(wc.kex, StrictName("client")) <=> Has(c.kex, StrictName("client"))
        /\ Has(ws.kex, StrictName("server")) <=> Has(s.kex, StrictName("server"))
    BY <2>1, StrictNameStays DEF Peers
  <2> DEFINE sn == read_kex("server", wc, FALSE, s, u.keys, again)
             cn == read_kex("client", ws, FALSE, c, u.keys, FALSE)
  <2>4. sn.strict_kex = cn.strict_kex
    <3>1. cn.strict_kex = (Has(c.kex, StrictName("client")) /\ Has(ws.kex, StrictName("server")))
      BY DEF read_kex, Otherwise
    <3>2. sn.strict_kex = (\/ Has(s.kex, StrictName("server")) /\ Has(wc.kex, StrictName("client"))
                           \/ again)
      BY DEF read_kex, Otherwise
    <3>3. again => cn.strict_kex
      BY DEF Agreed
    <3>4. cn.strict_kex \in BOOLEAN
      BY <3>1
    <3>5. sn.strict_kex \in BOOLEAN
      BY <3>2
    <3> HIDE DEF cn, sn, wc, ws, c, s
    <3>6. sn.strict_kex <=> cn.strict_kex
      BY <2>3, <3>1, <3>2, <3>3
    <3> QED
      BY <3>4, <3>5, <3>6
  <2>5. sn = cn
    BY <2>1, <2>2, <2>4 DEF read_kex, select, ServerSelect, ClientSelect
  <2> QED
    BY <1>2, <2>5 DEF Agreed, Other
<1> QED
  BY <1>1, <1>2 DEF Peers

-----------------------------------------------------------------------------
(* Where the two sides stand *)

(* Setups the theorems are about: russh never guesses (see the README for    *)
(* what happens when another client does).                                   *)
NoGuesses == \A u \in Setups : ~u.guess

(* The messages of the other's next exchange that p has read, and those of   *)
(* its own that it has written.                                              *)
ReadPh(p) ==
  IF kex[p] \in {"idle", "created"} THEN 0
  ELSE IF kex[p] = "group" THEN 1
  ELSE IF kex[p] = "dh" THEN IF Gex(setup) THEN 2 ELSE 1
  ELSE IF p = "client" \/ Gex(setup) THEN 3 ELSE 2
WritePh(p) ==
  IF kex[p] \in {"idle", "newkeys"} THEN 0
  ELSE IF kex[p] = "created" THEN 1
  ELSE IF kex[p] = "group" THEN IF p = "client" THEN 2 ELSE 1
  ELSE IF p = "client" THEN IF Gex(setup) THEN 3 ELSE 2
  ELSE IF Gex(setup) THEN 2 ELSE 1
ReadPos(p) == [n |-> done[p], ph |-> ReadPh(p), seq |-> rseq[p]]
WritePos(p) == [n |-> IF kex[p] = "newkeys" THEN done[p] + 1 ELSE done[p], ph |-> WritePh(p),
                seq |-> wseq[p]]

(* What a side holds follows from the exchanges it has finished. *)
SideInv(p) ==
  /\ encrypted[p] <=> done[p] > 0
  /\ strict[p] <=> (encrypted[p] /\ Agreed(setup).strict_kex)
  /\ wkey[p] = KeyAt(setup, done[p], p) /\ rkey[p] = KeyAt(setup, done[p], Other(p))
  /\ names[p] = IF Settled(p) = 0 THEN NoNames ELSE Agreed(setup)
  /\ kex[p] = "group" => Gex(setup)
  /\ kex[p] = "idle" => encrypted[p]
  /\ dead[p] \in {"no", "refused", "decrypt"}
  /\ dead[p] = "decrypt" => Other(p) \in late

(* The packets t that p has written from position e on lead to where it is.  *)
(* If it is late, e is where it should have had its new keys, and the first  *)
(* of t is sealed with the old ones: nobody who comes to e can open it.      *)
Tails(p, e, t) ==
  IF p \in late
  THEN t # <<>> /\ t[1].key # KeyAt(setup, e.n, p) /\ e.ph = 0 /\ e.n <= WritePos(p).n
  ELSE t = <<>> /\ e = WritePos(p)

(* What is on its way to p leads from what p has read to what the other has  *)
(* written.  Of a p that has ended it is what p would still have to read.    *)
Line(p) ==
  \E s \in Seq(Packet), t \in Seq(Packet), e \in Pos :
     /\ dead[p] = "no" => net[p] = s \o t
     /\ Run(setup, Other(p), ReadPos(p), s, e)
     /\ Tails(Other(p), e, t)
StepInv == \A p \in Peers : SideInv(p) /\ Line(p)

(* All that belongs to a side. *)
Side(p) == <<kex[p], names[p], encrypted[p], strict[p], wkey[p], rkey[p], wseq[p], rseq[p],
             done[p], dead[p]>>

LEMMA PosType == ASSUME TypeInv, NEW p \in Peers PROVE ReadPos(p) \in Pos /\ WritePos(p) \in Pos
<1>1. ReadPh(p) \in 0 .. 3 /\ WritePh(p) \in 0 .. 3
  BY DEF ReadPh, WritePh
<1>2. done[p] \in Nat /\ done[p] + 1 \in Nat /\ wseq[p] \in Nat /\ rseq[p] \in Nat
  BY DEF TypeInv, TypeExchange, TypeLine
<1> QED
  BY <1>1, <1>2 DEF ReadPos, WritePos, Pos

LEMMA NextPosType ==
  ASSUME TypeInv', NEW p \in Peers PROVE ReadPos(p)' \in Pos /\ WritePos(p)' \in Pos
<1>1. ReadPh(p)' \in 0 .. 3 /\ WritePh(p)' \in 0 .. 3
  BY DEF ReadPh, WritePh
<1>2. done'[p] \in Nat /\ done'[p] + 1 \in Nat /\ wseq'[p] \in Nat /\ rseq'[p] \in Nat
  BY DEF TypeInv, TypeExchange, TypeLine
<1> QED
  BY <1>1, <1>2 DEF ReadPos, WritePos, Pos

LEMMA SideStays ==
  ASSUME NEW p \in Peers, UNCHANGED <<setup, Side(p)>>, late \subseteq late'
  PROVE  /\ ReadPos(p)' = ReadPos(p) /\ WritePos(p)' = WritePos(p)
         /\ SideInv(p) => SideInv(p)'
<1>1. ReadPos(p)' = ReadPos(p) /\ WritePos(p)' = WritePos(p)
  BY DEF Side, ReadPos, WritePos, ReadPh, WritePh
<1>2. ASSUME SideInv(p) PROVE SideInv(p)'
  BY <1>2 DEF Side, SideInv, Settled
<1> QED
  BY <1>1, <1>2

(* p writes these packets: where they belong, or too late to be opened. *)
Written(p, out) ==
  \/ late' = late /\ Run(setup, p, WritePos(p), out, WritePos(p)')
  \/ /\ late' = late \cup {p} /\ out # <<>> /\ out[1].key # KeyAt(setup, WritePos(p).n, p)
     /\ WritePos(p).ph = 0 /\ WritePos(p)'.n = WritePos(p).n

(* A packet that is read is the next of the run, and takes the reader on. *)
LEMMA LineRead ==
  ASSUME TypeInv, TypeInv', NEW p \in Peers, Line(p), dead[p] = "no", net[p] # <<>>,
         Legal(setup, Other(p), ReadPos(p), Head(net[p]), ReadPos(p)'),
         net'[p] = Tail(net[p]), UNCHANGED <<setup, Side(Other(p))>>,
         Other(p) \in late' <=> Other(p) \in late, late \subseteq late'
  PROVE  Line(p)'
<1> DEFINE q == Other(p)
<1>0. q \in Peers
  BY Peer
<1>1. WritePos(q)' = WritePos(q)
  BY <1>0, SideStays
<1>2. PICK s \in Seq(Packet), t \in Seq(Packet), e \in Pos :
        net[p] = s \o t /\ Run(setup, q, ReadPos(p), s, e) /\ Tails(q, e, t)
  BY DEF Line
<1>3. s # <<>>
  <2> SUFFICES ASSUME s = <<>> PROVE FALSE
    OBVIOUS
  <2>1. ReadPos(p) = e /\ net[p] = t
    BY <1>2, RunNowhere
  <2>2. q \in late /\ t[1].key # KeyAt(setup, e.n, q)
    BY <1>2, <2>1 DEF Tails
  <2>3. Head(net[p]) = t[1]
    BY <2>1
  <2> QED
    BY <2>1, <2>2, <2>3 DEF Legal
<1>4. Head(s \o t) = Head(s) /\ Tail(s \o t) = Tail(s) \o t /\ Tail(s) \in Seq(Packet)
  BY <1>3
<1>5. PICK c \in Pos : Legal(setup, q, ReadPos(p), Head(s), c) /\ Run(setup, q, c, Tail(s), e)
  BY <1>2, <1>3, RunHead
<1>6. ReadPos(p)' = c
  BY <1>2, <1>4, <1>5 DEF Legal
<1>7. Tails(q, e, t)'
  BY <1>1, <1>2 DEF Tails
<1>8. /\ net'[p] = Tail(s) \o t
      /\ Run(setup', q, ReadPos(p)', Tail(s), e)
  BY <1>2, <1>4, <1>5, <1>6
<1> QED
  BY <1>4, <1>7, <1>8 DEF Line

LEMMA LineUnread ==
  ASSUME NEW p \in Peers, Line(p), dead'[p] = "no" => dead[p] = "no" /\ net'[p] = net[p],
         ReadPos(p)' = ReadPos(p), UNCHANGED <<setup, Side(Other(p))>>,
         Other(p) \in late' <=> Other(p) \in late, late \subseteq late'
  PROVE  Line(p)'
<1>0. Other(p) \in Peers
  BY Peer
<1>1. WritePos(Other(p))' = WritePos(Other(p))
  BY <1>0, SideStays
<1>2. PICK s \in Seq(Packet), t \in Seq(Packet), e \in Pos :
        /\ dead[p] = "no" => net[p] = s \o t
        /\ Run(setup, Other(p), ReadPos(p), s, e) /\ Tails(Other(p), e, t)
  BY DEF Line
<1>3. Tails(Other(p), e, t)'
  BY <1>1, <1>2 DEF Tails
<1>4. /\ dead'[p] = "no" => net'[p] = s \o t
      /\ Run(setup', Other(p), ReadPos(p)', s, e)
  BY <1>2
<1> QED
  BY <1>3, <1>4 DEF Line

(* What p writes comes to the line of the other. *)
LEMMA LineWritten ==
  ASSUME TypeInv, TypeInv', NEW p \in Peers, NEW out \in Seq(Packet), Line(Other(p)),
         Written(p, out), net'[Other(p)] = net[Other(p)] \o out,
         UNCHANGED <<setup, dead, Side(Other(p))>>
  PROVE  Line(Other(p))'
<1>0. Other(p) \in Peers /\ Other(Other(p)) = p
  BY Peer
<1>1. PICK q \in Peers : q = Other(p) /\ p = Other(q)
  BY <1>0
<1>2. late \subseteq late' /\ ReadPos(q)' = ReadPos(q)
  BY <1>1, SideStays DEF Written
<1>3. PICK s \in Seq(Packet), t \in Seq(Packet), e \in Pos :
        /\ dead[q] = "no" => net[q] = s \o t
        /\ Run(setup, p, ReadPos(q), s, e) /\ Tails(p, e, t)
  BY <1>1 DEF Line
<1>4. /\ s \o out \in Seq(Packet) /\ t \o out \in Seq(Packet)
      /\ (s \o t) \o out = s \o (t \o out)
  OBVIOUS
<1>5. WritePos(p) \in Pos /\ WritePos(p)' \in Pos
  BY PosType, NextPosType
<1>6. WritePos(p).n <= WritePos(p)'.n
  BY <1>5, RunCounts DEF Written, Pos
<1>7. CASE p \in late
  <2>1. t # <<>> /\ t[1].key # KeyAt(setup, e.n, p) /\ e.ph = 0 /\ e.n <= WritePos(p).n
    BY <1>3, <1>7 DEF Tails
  <2>2. t \o out # <<>> /\ (t \o out)[1] = t[1]
    BY <2>1
  <2>3. e.n <= WritePos(p)'.n
    BY <1>5, <1>6, <2>1 DEF Pos
  <2>4. Tails(p, e, t \o out)'
    <3>1. PICK r : r = t \o out
      OBVIOUS
    <3>2. Tails(p, e, r)'
      BY <1>2, <1>7, <2>1, <2>3, <3>1 DEF Tails
    <3> QED
      BY <3>1, <3>2
  <2>5. /\ dead'[q] = "no" => net'[q] = s \o (t \o out)
        /\ Run(setup', p, ReadPos(q)', s, e)
    BY <1>1, <1>2, <1>3, <1>4
  <2> QED
    BY <1>1, <1>4, <2>4, <2>5 DEF Line
<1>8. CASE p \notin late
  <2>1. t = <<>> /\ e = WritePos(p)
    BY <1>3, <1>8 DEF Tails
  <2>2. s \o t = s
    BY <2>1
  <2>3. CASE late' = late /\ Run(setup, p, WritePos(p), out, WritePos(p)')
    <3>0. <<>> \in Seq(Packet)
      OBVIOUS
    <3>1. PICK f \in Pos, n \in Seq(Packet) : f = WritePos(p)' /\ n = <<>>
      BY <1>5, <3>0
    <3>2. Run(setup, p, ReadPos(q), s \o out, f)
      BY <1>3, <2>1, <2>3, <3>1, RunConcat
    <3>3. Tails(p, f, n)'
      BY <1>8, <2>3, <3>1 DEF Tails
    <3>4. (s \o out) \o n = s \o out
      BY <1>4, <3>1
    <3>5. /\ dead'[q] = "no" => net'[q] = (s \o out) \o n
          /\ Run(setup', p, ReadPos(q)', s \o out, f)
      BY <1>1, <1>2, <1>3, <2>2, <3>2, <3>4
    <3> QED
      BY <1>1, <1>4, <3>3, <3>5 DEF Line
  <2>4. CASE /\ late' = late \cup {p} /\ out # <<>> /\ out[1].key # KeyAt(setup, WritePos(p).n, p)
             /\ WritePos(p).ph = 0 /\ WritePos(p)'.n = WritePos(p).n
    <3>1. Tails(p, e, out)'
      BY <1>5, <2>1, <2>4 DEF Tails, Pos
    <3>2. /\ dead'[q] = "no" => net'[q] = s \o out
          /\ Run(setup', p, ReadPos(q)', s, e)
      BY <1>1, <1>2, <1>3, <2>2
    <3> QED
      BY <1>1, <3>1, <3>2 DEF Line
  <2> QED
    BY <2>3, <2>4 DEF Written
<1> QED
  BY <1>7, <1>8

(* A side reads a packet or not, and writes some. *)
LEMMA LinesMove ==
  ASSUME TypeInv, TypeInv', \A p \in Peers : Line(p), NEW p \in Peers, NEW out \in Seq(Packet),
         NEW rest, Written(p, out), net' = [net EXCEPT ![p] = rest, ![Other(p)] = @ \o out],
         \/ rest = net[p] /\ ReadPos(p)' = ReadPos(p)
         \/ /\ dead[p] = "no" /\ net[p] # <<>> /\ rest = Tail(net[p])
            /\ Legal(setup, Other(p), ReadPos(p), Head(net[p]), ReadPos(p)'),
         UNCHANGED <<setup, dead, Side(Other(p))>>
  PROVE  \A q \in Peers : Line(q)'
<1>0. Other(p) \in Peers /\ Other(p) # p
  BY Peer
<1>1. net'[p] = rest /\ net'[Other(p)] = net[Other(p)] \o out
  BY <1>0 DEF TypeInv, TypeLine
<1>2. late \subseteq late' /\ (Other(p) \in late' <=> Other(p) \in late)
  BY <1>0 DEF Written
<1>3. Line(p) /\ Line(Other(p))
  BY <1>0
<1>4. Line(p)'
  <2>1. CASE rest = net[p] /\ ReadPos(p)' = ReadPos(p)
    BY <1>1, <1>2, <1>3, <2>1, LineUnread
  <2>2. CASE /\ dead[p] = "no" /\ net[p] # <<>> /\ rest = Tail(net[p])
             /\ Legal(setup, Other(p), ReadPos(p), Head(net[p]), ReadPos(p)')
    BY <1>1, <1>2, <1>3, <2>2, LineRead
  <2> QED
    BY <2>1, <2>2
<1>5. Line(Other(p))'
  BY <1>1, <1>3, LineWritten
<1> QED
  BY <1>0, <1>4, <1>5 DEF Peers, Other

(* A side ends and reads no further. *)
LEMMA LinesFail ==
  ASSUME TypeInv, StepInv, NEW p \in Peers, NEW rest, NEW why \in {"refused", "decrypt"},
         why = "decrypt" => Other(p) \in late, Fail(p, why, rest), UNCHANGED setup
  PROVE  StepInv'
<1> DEFINE q == Other(p)
<1>0. q \in Peers /\ q # p /\ Other(q) = p
  BY Peer
<1>1. UNCHANGED <<late, Side(q)>> /\ net'[q] = net[q] /\ dead'[p] = why /\ dead'[q] = dead[q]
  BY <1>0 DEF Fail, Side, keyVars, TypeInv, TypeLine, TypeExchange
<1>2. \A r \in Peers : ReadPos(r)' = ReadPos(r) /\ WritePos(r)' = WritePos(r)
  BY DEF Fail, keyVars, ReadPos, WritePos, ReadPh, WritePh
<1>3. Line(p)'
  BY <1>1, <1>2, LineUnread DEF StepInv
<1>4. Line(q)'
  <2>1. PICK s \in Seq(Packet), t \in Seq(Packet), e \in Pos :
          /\ dead[q] = "no" => net[q] = s \o t
          /\ Run(setup, p, ReadPos(q), s, e) /\ Tails(p, e, t)
    BY <1>0 DEF Line, StepInv
  <2>2. Tails(p, e, t)'
    BY <1>1, <1>2, <2>1 DEF Tails
  <2>3. /\ dead'[q] = "no" => net'[q] = s \o t
        /\ Run(setup', p, ReadPos(q)', s, e)
    BY <1>0, <1>1, <1>2, <2>1
  <2> QED
    BY <1>0, <2>2, <2>3 DEF Line
<1>5. SideInv(q)'
  BY <1>0, <1>1, SideStays DEF StepInv
<1>6. SideInv(p)'
  BY <1>1 DEF StepInv, SideInv, Fail, keyVars, Settled
<1> QED
  BY <1>0, <1>3, <1>4, <1>5, <1>6 DEF StepInv, Peers, Other

-----------------------------------------------------------------------------
(* What a side reads *)

(* A packet that opens is the next of the run; one that does not was late. *)
LEMMA HeadLegal ==
  ASSUME TypeInv, StepInv, NEW p \in Peers, dead[p] = "no", net[p] # <<>>
  PROVE  /\ Head(net[p]) \in Packet
         /\ Opens(p, Head(net[p])) => \E c \in Pos : Legal(setup, Other(p), ReadPos(p), Head(net[p]), c)
         /\ ~Opens(p, Head(net[p])) => Other(p) \in late
<1>1. PICK s \in Seq(Packet), t \in Seq(Packet), e \in Pos :
        net[p] = s \o t /\ Run(setup, Other(p), ReadPos(p), s, e) /\ Tails(Other(p), e, t)
  BY DEF StepInv, Line
<1>2. net[p] \in Seq(Packet) /\ Head(net[p]) \in Packet
  BY DEF TypeInv, TypeLine
<1>3. rkey[p] = KeyAt(setup, done[p], Other(p))
  BY DEF StepInv, SideInv
<1>4. CASE s = <<>>
  <2>1. t = net[p] /\ ReadPos(p) = e
    BY <1>1, <1>4, RunNowhere
  <2>2. Other(p) \in late /\ t[1].key # KeyAt(setup, e.n, Other(p))
    BY <1>1, <2>1 DEF Tails
  <2>3. Head(net[p]) = t[1] /\ e.n = done[p]
    BY <1>2, <2>1 DEF ReadPos
  <2>4. ~Opens(p, Head(net[p]))
    BY <1>3, <2>2, <2>3 DEF Opens
  <2> QED
    BY <1>2, <2>2, <2>4
<1>5. CASE s # <<>>
  <2>1. Head(net[p]) = Head(s)
    BY <1>1, <1>5
  <2>2. \E c \in Pos : Legal(setup, Other(p), ReadPos(p), Head(net[p]), c)
    BY <1>1, <1>5, <2>1, RunHead
  <2>3. Head(net[p]).key = KeyAt(setup, done[p], Other(p)) /\ Head(net[p]).seq = rseq[p]
    BY <2>2 DEF Legal, ReadPos
  <2>4. Opens(p, Head(net[p]))
    BY <1>3, <2>3 DEF Opens
  <2> QED
    BY <1>2, <2>2, <2>4
<1> QED
  BY <1>4, <1>5

(* In the states that have read the other's KEXINIT the names are settled. *)
LEMMA Settling ==
  ASSUME TypeInv, NEW p \in Peers, SideInv(p)
  PROVE  /\ kex[p] \in {"group", "dh", "newkeys"} =>
              names[p] = Agreed(setup)
         /\ kex[p] = "idle" => names[p] = Agreed(setup)
<1>1. done[p] \in Nat
  BY DEF TypeInv, TypeExchange
<1>2. kex[p] \in {"group", "dh", "newkeys"} => Settled(p) # 0
  BY <1>1 DEF Settled
<1>3. kex[p] = "idle" => Settled(p) # 0
  BY <1>1 DEF Settled, SideInv
<1> QED
  BY <1>2, <1>3 DEF SideInv

LEMMA HeadExpected ==
  ASSUME TypeInv, StepInv, NEW p \in Peers, dead[p] = "no", net[p] # <<>>,
         Opens(p, Head(net[p]))
  PROVE  LET t == Head(net[p]).type IN
         /\ t = "KEXINIT" \/ (t \in KexTypes /\ kex[p] # "idle") => t = Expected(p)
         /\ ~(t = "KEXINIT" \/ (t \in KexTypes /\ kex[p] # "idle")) => t \in OtherTypes
<1>1. PICK t : t = Head(net[p]).type
  OBVIOUS
<1>2. t \in KexTypes \cup OtherTypes /\ Allowed(setup, Other(p), ReadPos(p), t)
  BY <1>1, HeadLegal DEF Legal, Packet
<1>3. PICK h : h = ReadPh(p)
  OBVIOUS
<1>4. t = NextKex(setup, Other(p), h) \/ t \in OtherTypes
  BY <1>2, <1>3 DEF Allowed, ReadPos
<1>5. kex[p] \in KexStates
  BY DEF TypeInv, TypeExchange
<1>6. KexTypes \cap OtherTypes = {}
  BY DEF KexTypes, OtherTypes
<1>7. h = 0 <=> kex[p] \in {"idle", "created"}
  BY <1>3, <1>5 DEF ReadPh, KexStates
<1>8. t \in KexTypes => t = NextKex(setup, Other(p), h)
  BY <1>4, <1>6 DEF OtherTypes
<1>9. t = NextKex(setup, Other(p), h) => t = Expected(p)
  <2>1. kex[p] \in {"dh", "newkeys"} => (names[p].kex = "dh-gex" <=> Gex(setup))
    BY Settling DEF StepInv, Gex
  <2>2. kex[p] = "group" => Gex(setup)
    BY DEF StepInv, SideInv
  <2>3. \/ p = "client" /\ Other(p) = "server"
        \/ p = "server" /\ Other(p) = "client"
    BY DEF Peers, Other
  <2>4. CASE kex[p] \in {"idle", "created"}
    BY <2>4, <1>7 DEF NextKex, Expected
  <2>5. CASE kex[p] = "group"
    BY <2>5, <2>2, <2>3, <1>3 DEF NextKex, Expected, ReadPh
  <2>6. CASE kex[p] = "dh"
    BY <2>6, <2>1, <2>3, <1>3 DEF NextKex, Expected, ReadPh
  <2>7. CASE kex[p] = "newkeys"
    BY <2>7, <2>1, <2>3, <1>3 DEF NextKex, Expected, ReadPh
  <2> QED
    BY <1>5, <2>4, <2>5, <2>6, <2>7 DEF KexStates
<1>13. "KEXINIT" \in KexTypes /\ (kex[p] = "idle" => NextKex(setup, Other(p), h) = "KEXINIT")
  BY <1>7 DEF KexTypes, NextKex
<1> QED
  BY <1>1, <1>2, <1>7, <1>8, <1>9, <1>13

-----------------------------------------------------------------------------
(* What a side writes *)

LEMMA WritesNothing ==
  ASSUME TypeInv, NEW p \in Peers, WritePos(p)' = WritePos(p)
  PROVE  Run(setup, p, WritePos(p), Sealed(p, <<>>), WritePos(p)')
<1>1. Sealed(p, <<>>) = <<>>
  BY DEF Sealed
<1> QED
  BY <1>1, RunEmpty, PosType

LEMMA WritesOne ==
  ASSUME TypeInv, TypeInv', NEW p \in Peers, NEW types \in Seq(Types), Len(types) = 1,
         wkey[p] = KeyAt(setup, WritePos(p).n, p),
         Allowed(setup, p, WritePos(p), types[1]),
         WritePos(p)' = After(setup, p, WritePos(p), types[1])
  PROVE  Run(setup, p, WritePos(p), Sealed(p, types), WritePos(p)')
<1>1. WritePos(p) \in Pos /\ WritePos(p)' \in Pos
  BY PosType, NextPosType
<1>2. PICK s \in Seq(Packet) : s = Sealed(p, types) /\ Len(s) = 1
  BY SealedType DEF TypeInv
<1>3. s[1] = [type |-> types[1], key |-> wkey[p], seq |-> wseq[p] + 1 - 1]
  <2>1. 1 \in 1 .. Len(types)
    OBVIOUS
  <2> QED
    BY <1>2, <2>1, SealedPackets DEF TypeInv
<1>4. wseq[p] \in Nat
  BY DEF TypeInv, TypeLine
<1>5. s[1].type = types[1] /\ s[1].key = wkey[p] /\ s[1].seq = wseq[p]
  BY <1>3, <1>4
<1>6. Legal(setup, p, WritePos(p), s[1], WritePos(p)')
  BY <1>5 DEF Legal, WritePos
<1> QED
  BY <1>1, <1>2, <1>6, RunOne

LEMMA WritesTwo ==
  ASSUME TypeInv, TypeInv', NEW p \in Peers, NEW types \in Seq(Types), Len(types) = 2,
         wkey[p] = KeyAt(setup, WritePos(p).n, p),
         NEW b \in Pos, b.n = WritePos(p).n, types[1] # "NEWKEYS",
         Allowed(setup, p, WritePos(p), types[1]), b = After(setup, p, WritePos(p), types[1]),
         Allowed(setup, p, b, types[2]),
         WritePos(p)' = After(setup, p, b, types[2])
  PROVE  Run(setup, p, WritePos(p), Sealed(p, types), WritePos(p)')
<1>1. WritePos(p) \in Pos /\ WritePos(p)' \in Pos
  BY PosType, NextPosType
<1>2. PICK s \in Seq(Packet) : s = Sealed(p, types) /\ Len(s) = 2
  BY SealedType DEF TypeInv
<1>3. /\ s[1] = [type |-> types[1], key |-> wkey[p], seq |-> wseq[p] + 1 - 1]
      /\ s[2] = [type |-> types[2], key |-> wkey[p], seq |-> wseq[p] + 2 - 1]
  <2>1. 1 \in 1 .. Len(types) /\ 2 \in 1 .. Len(types)
    OBVIOUS
  <2> QED
    BY <1>2, <2>1, SealedPackets DEF TypeInv
<1>4. wseq[p] \in Nat
  BY DEF TypeInv, TypeLine
<1>5. /\ s[1].type = types[1] /\ s[1].key = wkey[p] /\ s[1].seq = wseq[p]
      /\ s[2].type = types[2] /\ s[2].key = wkey[p] /\ s[2].seq = wseq[p] + 1
  BY <1>3, <1>4
<1>6. Legal(setup, p, WritePos(p), s[1], b)
  BY <1>5 DEF Legal, WritePos
<1>7. b.seq = wseq[p] + 1
  BY DEF After, WritePos
<1>8. Legal(setup, p, b, s[2], WritePos(p)')
  BY <1>5, <1>7 DEF Legal
<1> QED
  BY <1>1, <1>2, <1>6, <1>8, RunTwo

-----------------------------------------------------------------------------
(* The steps *)

LEMMA SideReplies ==
  ASSUME TypeInv, NEW p \in Peers, SideInv(p), NEW state, NEW types, NEW rest,
         NeedsReply(p, state, types, rest), UNCHANGED setup,
         \/ state = kex[p] /\ names'[p] = names[p]
         \/ /\ state \in {"group", "dh", "newkeys"} /\ names'[p] = Agreed(setup)
            /\ state = "group" => Gex(setup)
  PROVE  SideInv(p)'
<1>1. /\ UNCHANGED <<encrypted, strict, wkey, rkey, done, dead>>
      /\ kex'[p] = state /\ late \subseteq late'
  BY DEF NeedsReply, Write, TypeInv, TypeExchange
<1>2. CASE state = kex[p] /\ names'[p] = names[p]
  BY <1>1, <1>2 DEF SideInv, Settled
<1>3. CASE /\ state \in {"group", "dh", "newkeys"} /\ names'[p] = Agreed(setup)
           /\ state = "group" => Gex(setup)
  <2>1. done[p] \in Nat
    BY DEF TypeInv, TypeExchange
  <2>2. Settled(p)' # 0
    BY <1>1, <1>3, <2>1 DEF Settled
  <2> QED
    BY <1>1, <1>3, <2>2 DEF SideInv
<1> QED
  BY <1>2, <1>3

LEMMA RepliedWritten ==
  ASSUME TypeInv, TypeInv', StepInv, NEW p \in Peers, dead[p] = "no", net[p] # <<>>,
         Opens(p, Head(net[p])), NEW state, NEW types \in Seq(Types),
         NeedsReply(p, state, types, Tail(net[p])), UNCHANGED <<setup, names[Other(p)]>>,
         ReadPos(p)' = After(setup, Other(p), ReadPos(p), Head(net[p]).type),
         Written(p, Sealed(p, types)), SideInv(p)'
  PROVE  StepInv'
<1>0. Other(p) \in Peers /\ Other(p) # p /\ Other(Other(p)) = p
  BY Peer
<1>1. UNCHANGED <<Side(Other(p)), dead>> /\ late \subseteq late'
  BY <1>0 DEF Side, NeedsReply, Write, TypeInv, TypeExchange, TypeLine
<1>2. PICK out \in Seq(Packet) : out = Sealed(p, types)
  BY SealedType DEF TypeInv
<1>3. net' = [net EXCEPT ![p] = Tail(net[p]), ![Other(p)] = @ \o out]
  BY <1>2 DEF NeedsReply, Write
<1>4. Legal(setup, Other(p), ReadPos(p), Head(net[p]), ReadPos(p)')
  BY HeadLegal DEF Legal
<1>5. Written(p, out)
  BY <1>2
<1>6. \A q \in Peers : Line(q)
  BY DEF StepInv
<1>7. \A q \in Peers : Line(q)'
  BY <1>1, <1>3, <1>4, <1>5, <1>6, LinesMove
<1>8. SideInv(Other(p))'
  BY <1>0, <1>1, SideStays DEF StepInv
<1> QED
  BY <1>0, <1>7, <1>8 DEF StepInv, Peers, Other

LEMMA Replied ==
  ASSUME TypeInv, TypeInv', StepInv, NEW p \in Peers, dead[p] = "no", net[p] # <<>>,
         Opens(p, Head(net[p])), NEW state, NEW types \in Seq(Types),
         NeedsReply(p, state, types, Tail(net[p])), UNCHANGED <<setup, names[Other(p)]>>,
         kex[p] # "newkeys" \/ types = <<>>,
         ReadPos(p)' = After(setup, Other(p), ReadPos(p), Head(net[p]).type),
         Run(setup, p, WritePos(p), Sealed(p, types), WritePos(p)'), SideInv(p)'
  PROVE  StepInv'
<1>1. late' = late
  BY DEF NeedsReply, Write
<1> QED
  BY <1>1, RepliedWritten DEF Written

LEMMA AgreedType ==
  ASSUME NEW u \in Setups
  PROVE  /\ Agreed(u) \in NamesType /\ Agreed(u).ignore_guessed = FALSE
         /\ Agreed(u).server_mac = Agreed(u).client_mac
<1>1. Agreed(u) \in NamesType
  BY ReadKexType DEF Agreed, Peers, Other
<1> QED
  BY <1>1 DEF Agreed, read_kex

LEMMA NegotiatedAgreed ==
  ASSUME NoGuesses, TypeInv, NEW p \in Peers, SideInv(p)
  PROVE  Negotiated(p) = Agreed(setup)
<1>1. setup \in Setups /\ ~setup.guess /\ Other(p) \in Peers
  BY Peer DEF NoGuesses, TypeInv, TypeExchange
<1>2. (p = "server" /\ setup.guess /\ ~encrypted[p]) = FALSE
  BY <1>1
<1>3. PICK again \in BOOLEAN : again = (encrypted[p] /\ strict[p])
  OBVIOUS
<1>4. again => Agreed(setup).strict_kex
  BY <1>3 DEF SideInv
<1>5. Negotiated(p) = read_kex(p, write_kex(Other(p), setup.pref[Other(p)], setup.keys), FALSE,
                               setup.pref[p], setup.keys, again)
  BY <1>2, <1>3 DEF Negotiated, Kexinit
<1> QED
  BY <1>1, <1>4, <1>5, SameNames

(* A side in its exchange, or not in one, seals with the key of its position. *)
LEMMA WriteKey ==
  ASSUME TypeInv, NEW p \in Peers, SideInv(p), kex[p] # "newkeys"
  PROVE  wkey[p] = KeyAt(setup, WritePos(p).n, p) /\ WritePos(p).n = done[p]
BY DEF SideInv, WritePos

(* A side whose NEWKEYS is out has not changed the key it seals with. *)
LEMMA LateWrites ==
  ASSUME TypeInv, NEW p \in Peers, SideInv(p), kex[p] = "newkeys", NEW types \in Seq(Types),
         types # <<>>, late' = late \cup {p}, UNCHANGED <<setup, kex[p], done[p]>>
  PROVE  Written(p, Sealed(p, types))
<1>1. WritePos(p).ph = 0 /\ WritePos(p).n = done[p] + 1 /\ WritePos(p)'.n = WritePos(p).n
  BY DEF WritePos, WritePh
<1>2. 1 \in 1 .. Len(types)
  OBVIOUS
<1>3. Sealed(p, types)[1].key = wkey[p]
  <2>1. Sealed(p, types)[1] = [type |-> types[1], key |-> wkey[p], seq |-> wseq[p] + 1 - 1]
    BY <1>2, SealedPackets DEF TypeInv
  <2> QED
    BY <2>1
<1>4. Sealed(p, types) \in Seq(Packet) /\ Len(Sealed(p, types)) = Len(types)
  BY SealedType DEF TypeInv
<1>5. Sealed(p, types) # <<>>
  BY <1>2, <1>4
<1>6. wkey[p].n = done[p] /\ KeyAt(setup, done[p] + 1, p).n = done[p] + 1 /\ done[p] \in Nat
  BY DEF SideInv, KeyAt, Clear, TypeInv, TypeExchange
<1> QED
  BY <1>1, <1>3, <1>5, <1>6 DEF Written

LEMMA NoTypes == <<>> \in Seq(Types)
OBVIOUS

LEMMA OneType ==
  ASSUME NEW t \in Types PROVE <<t>> \in Seq(Types) /\ Len(<<t>>) = 1 /\ <<t>>[1] = t
OBVIOUS

LEMMA OtherMessageSteps ==
  ASSUME TypeInv, TypeInv', StepInv, NEW p \in Peers, dead[p] = "no", net[p] # <<>>,
         Opens(p, Head(net[p])), Head(net[p]).type \in OtherTypes,
         OtherMessage(p, Head(net[p]), Tail(net[p])), UNCHANGED setup
  PROVE  StepInv'
<1>1. PICK types \in {<<>>, <<"ANSWER">>} :
        /\ NeedsReply(p, kex[p], types, Tail(net[p]))
        /\ types = <<>> \/ Head(net[p]).type \in {"DATA", "KEEPALIVE"}
  BY DEF OtherMessage
<1>2. /\ UNCHANGED <<names, done>> /\ kex' = kex
      /\ rseq'[p] = rseq[p] + 1 /\ wseq[p] \in Nat
  BY <1>1 DEF OtherMessage, NeedsReply, TypeInv, TypeLine, TypeExchange
<1>3. Head(net[p]).type \notin KexTypes
  BY DEF KexTypes, OtherTypes
<1>4. ReadPos(p)' = After(setup, Other(p), ReadPos(p), Head(net[p]).type)
  <2>1. ReadPos(p)' = [n |-> done[p], ph |-> ReadPh(p), seq |-> rseq[p] + 1]
    BY <1>2 DEF ReadPos, ReadPh
  <2> QED
    BY <1>3, <2>1 DEF After, ReadPos, KexTypes
<1>5. SideInv(p)'
  BY <1>1, <1>2, SideReplies DEF StepInv
<1>6. CASE types = <<>>
  <2>1. wseq'[p] = wseq[p]
    BY <1>1, <1>2, <1>6 DEF NeedsReply, Write, TypeInv, TypeLine
  <2>2. WritePos(p)' = WritePos(p)
    BY <1>2, <2>1 DEF WritePos, WritePh
  <2>3. Run(setup, p, WritePos(p), Sealed(p, types), WritePos(p)')
    BY <1>6, <2>2, WritesNothing
  <2> QED
    BY <1>1, <1>2, <1>4, <1>5, <1>6, <2>3, Replied, NoTypes
<1>7. CASE types = <<"ANSWER">>
  <2>2. types \in Seq(Types) /\ Len(types) = 1 /\ types[1] = "ANSWER"
    BY <1>7, WrittenTypes DEF Types, OtherTypes
  <2>3. wseq'[p] = wseq[p] + 1
    BY <1>1, <1>2, <1>7, <2>2 DEF NeedsReply, Write, TypeInv, TypeLine
  <2>4. CASE kex[p] # "newkeys"
    <3>1. WritePos(p)' = After(setup, p, WritePos(p), "ANSWER")
      BY <1>2, <2>3, <2>4 DEF WritePos, WritePh, After, KexTypes
    <3>2. Allowed(setup, p, WritePos(p), "ANSWER")
      BY DEF Allowed, OtherTypes
    <3>3. wkey[p] = KeyAt(setup, WritePos(p).n, p)
      BY <2>4, WriteKey DEF StepInv
    <3>4. Run(setup, p, WritePos(p), Sealed(p, types), WritePos(p)')
      BY <2>2, <3>1, <3>2, <3>3, WritesOne
    <3> QED
      BY <1>1, <1>2, <1>4, <1>5, <2>2, <2>4, <3>4, Replied
  <2>5. CASE kex[p] = "newkeys"
    <3>1. late' = late \cup {p} /\ types # <<>>
      <4>1. types # <<>>
        BY <1>7
      <4>2. Write(p, types, Tail(net[p]))
        BY <1>1 DEF NeedsReply
      <4> QED
        BY <2>5, <4>1, <4>2 DEF Write
    <3>2. Written(p, Sealed(p, types))
      BY <1>2, <2>2, <2>5, <3>1, LateWrites DEF StepInv
    <3> QED
      BY <1>1, <1>2, <1>4, <1>5, <2>2, <3>2, RepliedWritten
  <2> QED
    BY <2>4, <2>5
<1> QED
  BY <1>6, <1>7

(* The KEXINIT of the other is read: p is in the exchange. *)
LEMMA ReadsKexinit ==
  ASSUME TypeInv, NEW p \in Peers, NEW state, NEW types, NEW rest, UNCHANGED setup,
         kex[p] \in {"idle", "created"}, Head(net[p]).type = "KEXINIT",
         state = (IF Gex(setup) THEN "group" ELSE "dh"), NeedsReply(p, state, types, rest)
  PROVE  ReadPos(p)' = After(setup, Other(p), ReadPos(p), Head(net[p]).type)
<1>1. kex'[p] = state /\ done'[p] = done[p] /\ rseq'[p] = rseq[p] + 1
  BY DEF NeedsReply, TypeInv, TypeLine, TypeExchange
<1>2. ReadPos(p)' = [n |-> done[p], ph |-> 1, seq |-> rseq[p] + 1]
  BY <1>1 DEF ReadPos, ReadPh
<1>3. ReadPos(p) = [n |-> done[p], ph |-> 0, seq |-> rseq[p]]
  BY DEF ReadPos, ReadPh
<1> QED
  BY <1>2, <1>3 DEF After, KexTypes

LEMMA ServerCreatedSteps ==
  ASSUME NoGuesses, TypeInv, TypeInv', StepInv, dead["server"] = "no", net["server"] # <<>>,
         Opens("server", Head(net["server"])),
         Head(net["server"]).type = "KEXINIT", kex["server"] \in {"idle", "created"},
         ServerCreated(Tail(net["server"])), UNCHANGED setup
  PROVE  StepInv'
<1>0. "server" \in Peers /\ Other("server") = "client" /\ SideInv("server")
      /\ "client" \in Peers
  BY DEF Peers, Other, StepInv
<1>1. Negotiated("server") = Agreed(setup)
  BY <1>0, NegotiatedAgreed
<1>2. CASE Fail("server", "refused", Tail(net["server"]))
  BY <1>0, <1>2, LinesFail
<1>3. PICK state : state = (IF Gex(setup) THEN "group" ELSE "dh")
  OBVIOUS
<1>4. CASE /\ names' = [names EXCEPT !["server"] = Agreed(setup)]
           /\ NeedsReply("server", state, OwnKexinit("server"), Tail(net["server"]))
  <2>0. names'["server"] = Agreed(setup) /\ names'["client"] = names["client"]
    BY <1>0, <1>4 DEF TypeInv, TypeExchange
  <2>1. ReadPos("server")' = After(setup, "client", ReadPos("server"), Head(net["server"]).type)
    BY <1>0, <1>3, <1>4, ReadsKexinit
  <2>3. SideInv("server")'
    BY <1>0, <1>3, <1>4, <2>0, SideReplies
  <2>4. kex'["server"] = state /\ done'["server"] = done["server"] /\ wseq["server"] \in Nat
    BY <1>0, <1>4 DEF NeedsReply, TypeInv, TypeLine, TypeExchange
  <2>5. CASE kex["server"] = "created"
    <3>1. OwnKexinit("server") = <<>>
      BY <2>5 DEF OwnKexinit
    <3>2. wseq'["server"] = wseq["server"]
      BY <1>0, <1>4, <2>4, <3>1 DEF NeedsReply, Write, TypeInv, TypeLine
    <3>3. WritePos("server")' = WritePos("server")
      BY <1>3, <2>4, <2>5, <3>2 DEF WritePos, WritePh
    <3>4. Run(setup, "server", WritePos("server"), Sealed("server", <<>>), WritePos("server")')
      BY <1>0, <3>3, WritesNothing
    <3> QED
      BY <1>0, <1>4, <2>0, <2>1, <2>3, <3>1, <3>4, Replied, NoTypes
  <2>6. CASE kex["server"] = "idle"
    <3>0. "KEXINIT" \in Types
      BY DEF Types, KexTypes
    <3>1. PICK types \in Seq(Types) : /\ types = OwnKexinit("server") /\ Len(types) = 1
                                      /\ types[1] = "KEXINIT"
      BY <2>6, <3>0, OneType DEF OwnKexinit
    <3>2. wseq'["server"] = wseq["server"] + 1
      BY <1>0, <1>4, <2>4, <3>1 DEF NeedsReply, Write, TypeInv, TypeLine
    <3>3. WritePos("server")' = After(setup, "server", WritePos("server"), types[1])
      BY <1>3, <2>4, <2>6, <3>1, <3>2 DEF WritePos, WritePh, After, KexTypes
    <3>4. Allowed(setup, "server", WritePos("server"), types[1])
      BY <2>6, <3>1 DEF Allowed, WritePos, WritePh, NextKex
    <3>5. wkey["server"] = KeyAt(setup, WritePos("server").n, "server")
      BY <1>0, <2>6, WriteKey
    <3>6. Run(setup, "server", WritePos("server"), Sealed("server", types), WritePos("server")')
      BY <1>0, <3>1, <3>3, <3>4, <3>5, WritesOne
    <3> QED
      BY <1>0, <1>4, <2>0, <2>1, <2>3, <2>6, <3>1, <3>6, Replied
  <2> QED
    BY <2>5, <2>6
<1> QED
  BY <1>1, <1>2, <1>3, <1>4 DEF ServerCreated, Gex

LEMMA ClientCreatedSteps ==
  ASSUME NoGuesses, TypeInv, TypeInv', StepInv, dead["client"] = "no", net["client"] # <<>>,
         Opens("client", Head(net["client"])),
         Head(net["client"]).type = "KEXINIT", kex["client"] \in {"idle", "created"},
         ClientCreated(Tail(net["client"])), UNCHANGED setup
  PROVE  StepInv'
<1>0. "client" \in Peers /\ Other("client") = "server" /\ SideInv("client")
      /\ "server" \in Peers
  BY DEF Peers, Other, StepInv
<1>1. Negotiated("client") = Agreed(setup) /\ ~setup.guess
  BY <1>0, NegotiatedAgreed DEF NoGuesses, TypeInv, TypeExchange
<1>2. CASE Fail("client", "refused", Tail(net["client"]))
  BY <1>0, <1>2, LinesFail
<1>3. PICK state, t : /\ state = (IF Gex(setup) THEN "group" ELSE "dh")
                      /\ t = (IF Gex(setup) THEN "GEX_REQUEST" ELSE "ECDH_INIT")
  OBVIOUS
<1>4. CASE /\ names' = [names EXCEPT !["client"] = Agreed(setup)]
           /\ NeedsReply("client", state, OwnKexinit("client") \o <<t>>, Tail(net["client"]))
  <2>0. names'["client"] = Agreed(setup) /\ names'["server"] = names["server"]
    BY <1>0, <1>4 DEF TypeInv, TypeExchange
  <2>1. ReadPos("client")' = After(setup, "server", ReadPos("client"), Head(net["client"]).type)
    BY <1>0, <1>3, <1>4, ReadsKexinit
  <2>3. SideInv("client")'
    BY <1>0, <1>3, <1>4, <2>0, SideReplies
  <2>4. kex'["client"] = state /\ done'["client"] = done["client"] /\ wseq["client"] \in Nat
    BY <1>0, <1>4 DEF NeedsReply, TypeInv, TypeLine, TypeExchange
  <2>5. t \in Types /\ "KEXINIT" \in Types /\ t \notin {"KEXINIT", "NEWKEYS"} /\ t \in KexTypes
    BY <1>3 DEF Types, KexTypes
  <2>6. wkey["client"] = KeyAt(setup, WritePos("client").n, "client")
    BY <1>0, WriteKey
  <2>7. CASE kex["client"] = "created"
    <3>1. PICK types \in Seq(Types) : /\ types = OwnKexinit("client") \o <<t>> /\ Len(types) = 1
                                      /\ types[1] = t
      <4>1. OwnKexinit("client") \o <<t>> = <<t>>
        BY <2>7 DEF OwnKexinit
      <4> QED
        BY <4>1, <2>5, OneType
    <3>2. wseq'["client"] = wseq["client"] + 1
      BY <1>0, <1>4, <2>4, <2>5, <3>1 DEF NeedsReply, Write, TypeInv, TypeLine
    <3>3. WritePos("client")' = After(setup, "client", WritePos("client"), types[1])
      BY <1>3, <2>4, <2>5, <2>7, <3>1, <3>2 DEF WritePos, WritePh, After
    <3>4. Allowed(setup, "client", WritePos("client"), types[1])
      BY <1>3, <2>7, <3>1 DEF Allowed, WritePos, WritePh, NextKex
    <3>6. Run(setup, "client", WritePos("client"), Sealed("client", types), WritePos("client")')
      BY <1>0, <2>6, <3>1, <3>3, <3>4, WritesOne
    <3> QED
      BY <1>0, <1>4, <2>0, <2>1, <2>3, <3>1, <3>6, Replied
  <2>8. CASE kex["client"] = "idle"
    <3>1. PICK types \in Seq(Types) : /\ types = OwnKexinit("client") \o <<t>> /\ Len(types) = 2
                                      /\ types[1] = "KEXINIT" /\ types[2] = t
      <4>1. OwnKexinit("client") = <<"KEXINIT">>
        BY <2>8 DEF OwnKexinit
      <4>2. PICK a \in Seq(Types), b \in Seq(Types) :
               /\ a = <<"KEXINIT">> /\ Len(a) = 1 /\ a[1] = "KEXINIT"
               /\ b = <<t>> /\ Len(b) = 1 /\ b[1] = t
        BY <2>5, OneType
      <4>3. a \o b \in Seq(Types) /\ Len(a \o b) = 2
        BY <4>2
      <4>4. (a \o b)[1] = a[1] /\ (a \o b)[2] = b[1]
        BY <4>2
      <4> QED
        BY <4>1, <4>2, <4>3, <4>4
    <3>2. wseq'["client"] = wseq["client"] + 2
      BY <1>0, <1>4, <2>4, <2>5, <3>1 DEF NeedsReply, Write, TypeInv, TypeLine
    <3>3. PICK b : b = [n |-> done["client"], ph |-> 1, seq |-> wseq["client"] + 1]
      OBVIOUS
    <3>4. b \in Pos
      BY <1>0, <2>4, <3>3 DEF Pos, TypeInv, TypeExchange
    <3>5. b = After(setup, "client", WritePos("client"), types[1])
          /\ b.n = WritePos("client").n
      BY <2>8, <3>1, <3>3 DEF WritePos, WritePh, After, KexTypes
    <3>6. WritePos("client")' = After(setup, "client", b, types[2])
      BY <1>3, <2>4, <2>5, <3>1, <3>2, <3>3 DEF WritePos, WritePh, After
    <3>7. /\ Allowed(setup, "client", WritePos("client"), types[1])
          /\ Allowed(setup, "client", b, types[2])
      BY <1>3, <2>8, <3>1, <3>3 DEF Allowed, WritePos, WritePh, NextKex
    <3>8. Run(setup, "client", WritePos("client"), Sealed("client", types), WritePos("client")')
      BY <1>0, <2>5, <2>6, <3>1, <3>4, <3>5, <3>6, <3>7, WritesTwo
    <3> QED
      BY <1>0, <1>4, <2>0, <2>1, <2>3, <2>8, <3>1, <3>8, Replied
  <2> QED
    BY <2>7, <2>8
<1>5. FirstMessage(Agreed(setup)) = <<t>>
  BY <1>3 DEF FirstMessage, Gex
<1> QED
  BY <1>1, <1>2, <1>3, <1>4, <1>5 DEF ClientCreated, Gex

(* In the exchange: one message is read, one is written, and NEWKEYS after   *)
(* the server's reply.                                                       *)
LEMMA ServerGroupSteps ==
  ASSUME TypeInv, TypeInv', StepInv, dead["server"] = "no", net["server"] # <<>>,
         Opens("server", Head(net["server"])),
         Head(net["server"]).type = "GEX_REQUEST", kex["server"] = "group",
         ServerGroup(Tail(net["server"])), UNCHANGED setup
  PROVE  StepInv'
<1>0. "server" \in Peers /\ Other("server") = "client" /\ SideInv("server")
  BY DEF Peers, Other, StepInv
<1>1. "GEX_GROUP" \in Types
  BY DEF Types, KexTypes
<1>2. PICK types \in Seq(Types) : /\ types = <<"GEX_GROUP">> /\ Len(types) = 1
                                  /\ types[1] = "GEX_GROUP"
  BY <1>1, OneType
<1>3. NeedsReply("server", "dh", types, Tail(net["server"])) /\ UNCHANGED names
  BY <1>2 DEF ServerGroup
<1>4. /\ kex'["server"] = "dh" /\ done'["server"] = done["server"]
      /\ rseq'["server"] = rseq["server"] + 1 /\ wseq'["server"] = wseq["server"] + 1
  BY <1>0, <1>2, <1>3 DEF NeedsReply, Write, TypeInv, TypeExchange, TypeLine
<1>5. Gex(setup) /\ names["server"] = Agreed(setup)
  BY <1>0, Settling DEF SideInv
<1>6. ReadPos("server")' = After(setup, "client", ReadPos("server"), Head(net["server"]).type)
  BY <1>4, <1>5 DEF ReadPos, ReadPh, After, KexTypes
<1>7. WritePos("server")' = After(setup, "server", WritePos("server"), types[1])
  BY <1>2, <1>4, <1>5 DEF WritePos, WritePh, After, KexTypes
<1>8. Allowed(setup, "server", WritePos("server"), types[1])
  BY <1>2, <1>5 DEF Allowed, WritePos, WritePh, NextKex
<1>9. Run(setup, "server", WritePos("server"), Sealed("server", types), WritePos("server")')
  BY <1>0, <1>2, <1>7, <1>8, WriteKey, WritesOne
<1>10. SideInv("server")'
  BY <1>0, <1>3, <1>5, SideReplies
<1> QED
  BY <1>0, <1>2, <1>3, <1>6, <1>9, <1>10, Replied

LEMMA ClientGroupSteps ==
  ASSUME TypeInv, TypeInv', StepInv, dead["client"] = "no", net["client"] # <<>>,
         Opens("client", Head(net["client"])),
         Head(net["client"]).type = "GEX_GROUP", kex["client"] = "group",
         ClientGroup(Tail(net["client"])), UNCHANGED setup
  PROVE  StepInv'
<1>0. "client" \in Peers /\ Other("client") = "server" /\ SideInv("client")
  BY DEF Peers, Other, StepInv
<1>1. "GEX_INIT" \in Types
  BY DEF Types, KexTypes
<1>2. PICK types \in Seq(Types) : /\ types = <<"GEX_INIT">> /\ Len(types) = 1
                                  /\ types[1] = "GEX_INIT"
  BY <1>1, OneType
<1>3. NeedsReply("client", "dh", types, Tail(net["client"])) /\ UNCHANGED names
  BY <1>2 DEF ClientGroup
<1>4. /\ kex'["client"] = "dh" /\ done'["client"] = done["client"]
      /\ rseq'["client"] = rseq["client"] + 1 /\ wseq'["client"] = wseq["client"] + 1
  BY <1>0, <1>2, <1>3 DEF NeedsReply, Write, TypeInv, TypeExchange, TypeLine
<1>5. Gex(setup) /\ names["client"] = Agreed(setup)
  BY <1>0, Settling DEF SideInv
<1>6. ReadPos("client")' = After(setup, "server", ReadPos("client"), Head(net["client"]).type)
  BY <1>4, <1>5 DEF ReadPos, ReadPh, After, KexTypes
<1>7. WritePos("client")' = After(setup, "client", WritePos("client"), types[1])
  BY <1>2, <1>4, <1>5 DEF WritePos, WritePh, After, KexTypes
<1>8. Allowed(setup, "client", WritePos("client"), types[1])
  BY <1>2, <1>5 DEF Allowed, WritePos, WritePh, NextKex
<1>9. Run(setup, "client", WritePos("client"), Sealed("client", types), WritePos("client")')
  BY <1>0, <1>2, <1>7, <1>8, WriteKey, WritesOne
<1>10. SideInv("client")'
  BY <1>0, <1>3, <1>5, SideReplies
<1> QED
  BY <1>0, <1>2, <1>3, <1>6, <1>9, <1>10, Replied

LEMMA ClientDhReplySteps ==
  ASSUME TypeInv, TypeInv', StepInv, dead["client"] = "no", net["client"] # <<>>,
         Opens("client", Head(net["client"])),
         Head(net["client"]).type = (IF Gex(setup) THEN "GEX_REPLY" ELSE "ECDH_REPLY"),
         kex["client"] = "dh", ClientDhReply(Tail(net["client"])), UNCHANGED setup
  PROVE  StepInv'
<1>0. "client" \in Peers /\ Other("client") = "server" /\ SideInv("client")
  BY DEF Peers, Other, StepInv
<1>1. "NEWKEYS" \in Types
  BY DEF Types, KexTypes
<1>2. PICK types \in Seq(Types) : /\ types = <<"NEWKEYS">> /\ Len(types) = 1
                                  /\ types[1] = "NEWKEYS" /\ types # <<>>
  BY <1>1, OneType
<1>3. NeedsReply("client", "newkeys", types, Tail(net["client"])) /\ UNCHANGED names
  BY <1>2 DEF ClientDhReply
<1>5. names["client"] = Agreed(setup)
  BY <1>0, Settling
<1>4. /\ kex'["client"] = "newkeys" /\ done'["client"] = done["client"]
      /\ rseq'["client"] = rseq["client"] + 1
      /\ wseq'["client"] = IF Agreed(setup).strict_kex THEN 0 ELSE wseq["client"] + 1
  BY <1>0, <1>2, <1>3, <1>5
     DEF NeedsReply, Write, StrictExchange, TypeInv, TypeExchange, TypeLine
<1>6. ReadPos("client")' = After(setup, "server", ReadPos("client"), Head(net["client"]).type)
  BY <1>4 DEF ReadPos, ReadPh, After, KexTypes
<1>7. WritePos("client")' = After(setup, "client", WritePos("client"), types[1])
  BY <1>2, <1>4 DEF WritePos, WritePh, After
<1>8. Allowed(setup, "client", WritePos("client"), types[1])
  BY <1>2 DEF Allowed, WritePos, WritePh, NextKex
<1>9. Run(setup, "client", WritePos("client"), Sealed("client", types), WritePos("client")')
  BY <1>0, <1>2, <1>7, <1>8, WriteKey, WritesOne
<1>10. SideInv("client")'
  BY <1>0, <1>3, <1>5, SideReplies
<1> QED
  BY <1>0, <1>2, <1>3, <1>6, <1>9, <1>10, Replied

LEMMA ServerDhInitSteps ==
  ASSUME TypeInv, TypeInv', StepInv, dead["server"] = "no", net["server"] # <<>>,
         Opens("server", Head(net["server"])),
         Head(net["server"]).type = (IF Gex(setup) THEN "GEX_INIT" ELSE "ECDH_INIT"),
         kex["server"] = "dh", ServerDhInit(Tail(net["server"])), UNCHANGED setup
  PROVE  StepInv'
<1>0. "server" \in Peers /\ Other("server") = "client" /\ SideInv("server")
  BY DEF Peers, Other, StepInv
<1>1. PICK t : t = (IF Gex(setup) THEN "GEX_REPLY" ELSE "ECDH_REPLY")
  OBVIOUS
<1>5. names["server"] = Agreed(setup)
  BY <1>0, Settling
<1>2. PICK types \in Seq(Types) : /\ types = <<t, "NEWKEYS">> /\ Len(types) = 2
                                  /\ types[1] = t /\ types[2] = "NEWKEYS" /\ types # <<>>
  <2>1. t \in Types /\ "NEWKEYS" \in Types
    BY <1>1 DEF Types, KexTypes
  <2>2. <<t, "NEWKEYS">> \in Seq(Types) /\ Len(<<t, "NEWKEYS">>) = 2
    BY <2>1
  <2> QED
    BY <2>2
<1>3. NeedsReply("server", "newkeys", types, Tail(net["server"])) /\ UNCHANGED names
  BY <1>1, <1>2, <1>5 DEF ServerDhInit, Gex
<1>4. /\ kex'["server"] = "newkeys" /\ done'["server"] = done["server"]
      /\ rseq'["server"] = rseq["server"] + 1 /\ wseq["server"] \in Nat
      /\ wseq'["server"] = IF Agreed(setup).strict_kex THEN 0 ELSE wseq["server"] + 2
  BY <1>0, <1>2, <1>3, <1>5
     DEF NeedsReply, Write, StrictExchange, TypeInv, TypeExchange, TypeLine
<1>6. ReadPos("server")' = After(setup, "client", ReadPos("server"), Head(net["server"]).type)
  BY <1>4 DEF ReadPos, ReadPh, After, KexTypes
<1>7. PICK b : b = [n |-> done["server"], ph |-> 3, seq |-> wseq["server"] + 1]
  OBVIOUS
<1>8. b \in Pos
  BY <1>0, <1>4, <1>7 DEF Pos, TypeInv, TypeExchange
<1>9. b = After(setup, "server", WritePos("server"), types[1]) /\ b.n = WritePos("server").n
  BY <1>1, <1>2, <1>7 DEF WritePos, WritePh, After, KexTypes
<1>10. WritePos("server")' = After(setup, "server", b, types[2])
  BY <1>2, <1>4, <1>7 DEF WritePos, WritePh, After
<1>11. /\ Allowed(setup, "server", WritePos("server"), types[1])
       /\ Allowed(setup, "server", b, types[2])
  BY <1>1, <1>2, <1>7 DEF Allowed, WritePos, WritePh, NextKex
<1>12. Run(setup, "server", WritePos("server"), Sealed("server", types), WritePos("server")')
  <2>1. types[1] # "NEWKEYS"
    BY <1>1, <1>2
  <2> QED
    BY <1>0, <1>2, <1>8, <1>9, <1>10, <1>11, <2>1, WriteKey, WritesTwo
<1>13. SideInv("server")'
  BY <1>0, <1>3, <1>5, SideReplies
<1> QED
  BY <1>0, <1>2, <1>3, <1>6, <1>12, <1>13, Replied

(* The exchange is over: the new keys are those of the next position. *)
LEMMA KeysAgree ==
  ASSUME TypeInv, NEW p \in Peers, names[p] = Agreed(setup)
  PROVE  /\ compute_key(p, "C", names[p].client_mac) = KeyAt(setup, done[p] + 1, "client")
         /\ compute_key(p, "D", names[p].client_mac) = KeyAt(setup, done[p] + 1, "server")
         /\ names[p].server_mac = names[p].client_mac
<1>1. done[p] + 1 # 0
  BY DEF TypeInv, TypeExchange
<1>2. Agreed(setup).server_mac = Agreed(setup).client_mac
  BY AgreedType DEF TypeInv, TypeExchange
<1> QED
  BY <1>1, <1>2 DEF compute_key, KeyAt

(* What changing to the new keys means for a side and for what it reads. *)
LEMMA SideDone ==
  ASSUME TypeInv, TypeInv', NEW p \in Peers, SideInv(p), dead[p] = "no", net[p] # <<>>,
         kex[p] = "newkeys", NEW keys, NewKeys(p, keys),
         keys.local_to_remote = KeyAt(setup, done[p] + 1, p),
         keys.remote_to_local = KeyAt(setup, done[p] + 1, Other(p)),
         strict' = [strict EXCEPT ![p] = @ \/ StrictExchange(p)],
         rseq' = [rseq EXCEPT ![p] = IF strict'[p] THEN 0 ELSE @ + 1],
         Head(net[p]).type = "NEWKEYS", UNCHANGED <<setup, names, dead, late>>
  PROVE  /\ SideInv(p)'
         /\ ReadPos(p)' = After(setup, Other(p), ReadPos(p), Head(net[p]).type)
         /\ WritePos(p)' = [WritePos(p) EXCEPT !.seq = wseq'[p]]
<1>1. names[p] = Agreed(setup)
  BY Settling
<1>2. /\ kex'[p] = "idle" /\ done'[p] = done[p] + 1 /\ wkey'[p] = keys.local_to_remote
      /\ rkey'[p] = keys.remote_to_local /\ encrypted'[p]
  BY DEF NewKeys, TypeInv, TypeExchange, TypeLine
<1>3. strict'[p] <=> Agreed(setup).strict_kex
  <2>1. strict'[p] = (strict[p] \/ Agreed(setup).strict_kex)
    BY <1>1 DEF StrictExchange, TypeInv, TypeExchange
  <2> QED
    BY <2>1 DEF SideInv
<1>4. rseq'[p] = IF Agreed(setup).strict_kex THEN 0 ELSE rseq[p] + 1
  BY <1>3 DEF TypeInv, TypeLine
<1>5. done[p] \in Nat
  BY DEF TypeInv, TypeExchange
<1>6. SideInv(p)'
  <2>1. Settled(p)' # 0
    BY <1>2, <1>5 DEF Settled
  <2> QED
    BY <1>1, <1>2, <1>3, <1>5, <2>1 DEF SideInv
<1>7. ReadPos(p)' = After(setup, Other(p), ReadPos(p), Head(net[p]).type)
  BY <1>2, <1>4 DEF ReadPos, ReadPh, After
<1>8. WritePos(p)' = [WritePos(p) EXCEPT !.seq = wseq'[p]]
  BY <1>2 DEF WritePos, WritePh
<1> QED
  BY <1>6, <1>7, <1>8

LEMMA ClientDoneSteps ==
  ASSUME TypeInv, TypeInv', StepInv, dead["client"] = "no", net["client"] # <<>>,
         Opens("client", Head(net["client"])),
         Head(net["client"]).type = "NEWKEYS", kex["client"] = "newkeys",
         ClientDone(Tail(net["client"])), UNCHANGED setup
  PROVE  StepInv'
<1>0. "client" \in Peers /\ Other("client") = "server" /\ SideInv("client")
      /\ "server" \in Peers /\ SideInv("server")
  BY DEF Peers, Other, StepInv
<1>1. names["client"] = Agreed(setup)
  BY <1>0, Settling
<1>2. /\ ClientKeys.local_to_remote = KeyAt(setup, done["client"] + 1, "client")
      /\ ClientKeys.remote_to_local = KeyAt(setup, done["client"] + 1, "server")
  BY <1>0, <1>1, KeysAgree DEF ClientKeys
<1>3. /\ NewKeys("client", ClientKeys) /\ UNCHANGED <<wseq, names, dead, late>>
      /\ strict' = [strict EXCEPT !["client"] = @ \/ StrictExchange("client")]
      /\ rseq' = [rseq EXCEPT !["client"] = IF strict'["client"] THEN 0 ELSE @ + 1]
      /\ net' = [net EXCEPT !["client"] = Tail(net["client"])]
  BY DEF ClientDone
<1>4. /\ SideInv("client")'
      /\ ReadPos("client")' = After(setup, "server", ReadPos("client"), Head(net["client"]).type)
      /\ WritePos("client")' = [WritePos("client") EXCEPT !.seq = wseq'["client"]]
  BY <1>0, <1>2, <1>3, SideDone
<1>5. WritePos("client")' = WritePos("client")
  BY <1>3, <1>4 DEF WritePos
<1>13. PICK out \in Seq(Packet) : out = <<>>
  <2>1. <<>> \in Seq(Packet)
    OBVIOUS
  <2> QED
    BY <2>1
<1>6. Written("client", out)
  <2>1. Run(setup, "client", WritePos("client"), out, WritePos("client")')
    BY <1>0, <1>5, <1>13, RunEmpty, PosType
  <2> QED
    BY <1>3, <2>1 DEF Written
<1>7. net' = [net EXCEPT !["client"] = Tail(net["client"]), !["server"] = @ \o out]
  <2>1. net["server"] \o <<>> = net["server"]
    BY <1>0 DEF TypeInv, TypeLine
  <2> QED
    BY <1>0, <1>3, <1>13, <2>1 DEF TypeInv, TypeLine
<1>8. UNCHANGED Side("server")
  BY <1>0, <1>3 DEF Side, NewKeys, TypeInv, TypeExchange, TypeLine
<1>9. Legal(setup, "server", ReadPos("client"), Head(net["client"]), ReadPos("client")')
  BY <1>0, <1>4, HeadLegal DEF Legal
<1>10. \A q \in Peers : Line(q)
  BY DEF StepInv
<1>11. \A q \in Peers : Line(q)'
  <2>1. UNCHANGED <<setup, dead, Side("server")>>
    BY <1>3, <1>8
  <2>2. PICK rest : rest = Tail(net["client"])
    OBVIOUS
  <2> QED
    BY <1>0, <1>6, <1>7, <1>9, <1>10, <1>13, <2>1, <2>2, LinesMove
<1>12. SideInv("server")'
  BY <1>0, <1>3, <1>8, SideStays
<1> QED
  BY <1>4, <1>11, <1>12 DEF StepInv, Peers

LEMMA ServerDoneSteps ==
  ASSUME TypeInv, TypeInv', StepInv, dead["server"] = "no", net["server"] # <<>>,
         Opens("server", Head(net["server"])),
         Head(net["server"]).type = "NEWKEYS", kex["server"] = "newkeys",
         ServerDone(Tail(net["server"])), UNCHANGED setup
  PROVE  StepInv'
<1>0. "server" \in Peers /\ Other("server") = "client" /\ SideInv("server")
      /\ "client" \in Peers /\ SideInv("client")
  BY DEF Peers, Other, StepInv
<1>1. names["server"] = Agreed(setup)
  BY <1>0, Settling
<1>2. /\ ServerKeys.local_to_remote = KeyAt(setup, done["server"] + 1, "server")
      /\ ServerKeys.remote_to_local = KeyAt(setup, done["server"] + 1, "client")
  BY <1>0, <1>1, KeysAgree DEF ServerKeys
<1>3. PICK out \in {<<>>, <<ExtInfo>>} :
      /\ NewKeys("server", ServerKeys) /\ UNCHANGED <<names, dead, late>>
      /\ strict' = [strict EXCEPT !["server"] = @ \/ StrictExchange("server")]
      /\ rseq' = [rseq EXCEPT !["server"] = IF strict'["server"] THEN 0 ELSE @ + 1]
      /\ wseq' = [wseq EXCEPT !["server"] = @ + Len(out)]
      /\ net' = [net EXCEPT !["server"] = Tail(net["server"]), !["client"] = @ \o out]
  BY DEF ServerDone, ExtInfo
<1>4. /\ SideInv("server")'
      /\ ReadPos("server")' = After(setup, "client", ReadPos("server"), Head(net["server"]).type)
      /\ WritePos("server")' = [WritePos("server") EXCEPT !.seq = wseq'["server"]]
  BY <1>0, <1>2, <1>3, SideDone
<1>5. WritePos("server") \in Pos /\ WritePos("server")' \in Pos /\ wseq["server"] \in Nat
  BY <1>0, PosType, NextPosType DEF TypeInv, TypeLine
<1>6. ExtInfo \in Packet
  BY ServerKeysType DEF ExtInfo, Packet, OtherTypes, TypeInv, TypeLine, Peers
<1>7. /\ out \in Seq(Packet)
      /\ Run(setup, "server", WritePos("server"), out, WritePos("server")')
  <2>1. CASE out = <<>>
    <3>1. wseq'["server"] = wseq["server"]
      BY <1>0, <1>3, <1>5, <2>1 DEF TypeInv, TypeLine
    <3>2. WritePos("server")' = WritePos("server")
      BY <1>4, <3>1 DEF WritePos
    <3>3. <<>> \in Seq(Packet)
      OBVIOUS
    <3> QED
      BY <1>5, <2>1, <3>2, <3>3, RunEmpty
  <2>2. CASE out = <<ExtInfo>>
    <3>1. PICK s \in Seq(Packet) : s = <<ExtInfo>> /\ Len(s) = 1 /\ s[1] = ExtInfo
      <4>1. <<ExtInfo>> \in Seq(Packet)
        BY <1>6
      <4> QED
        BY <4>1
    <3>2. wseq'["server"] = wseq["server"] + 1
      BY <1>0, <1>3, <1>5, <2>2, <3>1 DEF TypeInv, TypeLine
    <3>3. /\ s[1].type = "EXT_INFO" /\ s[1].seq = wseq["server"]
          /\ s[1].key = KeyAt(setup, done["server"] + 1, "server")
      BY <1>2, <3>1 DEF ExtInfo
    <3>4. WritePos("server")' = After(setup, "server", WritePos("server"), "EXT_INFO")
      BY <1>4, <3>2 DEF WritePos, After, KexTypes
    <3>5. Allowed(setup, "server", WritePos("server"), "EXT_INFO")
      BY DEF Allowed, WritePos, WritePh, OtherTypes
    <3>6. Legal(setup, "server", WritePos("server"), s[1], WritePos("server")')
      <4>1. WritePos("server").n = done["server"] + 1 /\ WritePos("server").seq = wseq["server"]
        BY DEF WritePos
      <4> QED
        BY <3>3, <3>4, <3>5, <4>1 DEF Legal
    <3>7. Run(setup, "server", WritePos("server"), s, WritePos("server")')
      BY <1>5, <3>1, <3>6, RunOne
    <3> QED
      BY <2>2, <3>1, <3>7
  <2> QED
    BY <2>1, <2>2
<1>8. UNCHANGED Side("client")
  BY <1>0, <1>3 DEF Side, NewKeys, TypeInv, TypeExchange, TypeLine
<1>9. Legal(setup, "client", ReadPos("server"), Head(net["server"]), ReadPos("server")')
  BY <1>0, <1>4, HeadLegal DEF Legal
<1>10. \A q \in Peers : Line(q)
  BY DEF StepInv
<1>11. \A q \in Peers : Line(q)'
  <2>1. Written("server", out)
    BY <1>3, <1>7 DEF Written
  <2>2. PICK rest : rest = Tail(net["server"])
    OBVIOUS
  <2> QED
    BY <1>0, <1>3, <1>7, <1>8, <1>9, <1>10, <2>1, <2>2, LinesMove
<1>12. SideInv("client")'
  BY <1>0, <1>3, <1>8, SideStays
<1> QED
  BY <1>4, <1>11, <1>12 DEF StepInv, Peers

(* A side writes a message of its own: of the session or a KEXINIT when it is *)
(* idle, a keepalive at any time.                                             *)
LEMMA OwnWrites ==
  ASSUME TypeInv, TypeInv', StepInv, NEW p \in Peers, NEW t \in {"DATA", "KEEPALIVE", "KEXINIT"},
         kex[p] = "idle" \/ t = "KEEPALIVE", Write(p, <<t>>, net[p]),
         kex'[p] = (IF t = "KEXINIT" THEN "created" ELSE kex[p]), UNCHANGED kex[Other(p)],
         UNCHANGED <<setup, names, encrypted, strict, wkey, rkey, rseq, done, dead>>
  PROVE  StepInv'
<1>0. Other(p) \in Peers /\ Other(p) # p /\ Other(Other(p)) = p /\ SideInv(p)
      /\ SideInv(Other(p))
  BY Peer DEF StepInv
<1>1. t \in Types /\ t # "NEWKEYS"
  BY DEF Types, KexTypes, OtherTypes
<1>2. PICK types \in Seq(Types) : types = <<t>> /\ Len(types) = 1 /\ types[1] = t
  BY <1>1, OneType
<1>3. PICK out \in Seq(Packet) : out = Sealed(p, types)
  BY SealedType DEF TypeInv
<1>4. net' = [net EXCEPT ![p] = net[p], ![Other(p)] = @ \o out] /\ late \subseteq late'
  BY <1>2, <1>3 DEF Write
<1>5. Written(p, out)
  <2>1. CASE kex[p] = "newkeys"
    <3>1. late' = late \cup {p} /\ types # <<>> /\ kex'[p] = kex[p]
      BY <1>2, <2>1 DEF Write
    <3> QED
      BY <1>0, <1>3, <2>1, <3>1, LateWrites
  <2>2. CASE kex[p] # "newkeys"
    <3>1. wseq'[p] = wseq[p] + 1 /\ late' = late
      BY <1>1, <1>2, <2>2 DEF Write, TypeInv, TypeLine, TypeExchange
    <3>2. WritePos(p)' = After(setup, p, WritePos(p), types[1])
      <4>1. CASE t = "KEXINIT"
        BY <1>2, <3>1, <4>1 DEF WritePos, WritePh, After, KexTypes
      <4>2. CASE t # "KEXINIT"
        <5>1. WritePos(p)' = [WritePos(p) EXCEPT !.seq = wseq[p] + 1]
          BY <3>1, <4>2 DEF WritePos, WritePh
        <5> QED
          BY <1>2, <4>2, <5>1 DEF WritePos, After, KexTypes
      <4> QED
        BY <4>1, <4>2
    <3>3. Allowed(setup, p, WritePos(p), types[1])
      BY <1>2 DEF Allowed, WritePos, WritePh, NextKex, OtherTypes
    <3>4. Run(setup, p, WritePos(p), Sealed(p, types), WritePos(p)')
      BY <1>0, <1>2, <2>2, <3>2, <3>3, WriteKey, WritesOne
    <3> QED
      BY <1>3, <3>1, <3>4 DEF Written
  <2> QED
    BY <2>1, <2>2
<1>6. ReadPos(p)' = ReadPos(p)
  <2>1. ReadPh(p)' = ReadPh(p)
    BY DEF ReadPh
  <2> QED
    BY <2>1 DEF ReadPos
<1>7. UNCHANGED Side(Other(p))
  BY <1>0 DEF Side, Write, TypeInv, TypeExchange, TypeLine
<1>8. \A q \in Peers : Line(q)
  BY DEF StepInv
<1>9. \A q \in Peers : Line(q)'
  BY <1>4, <1>5, <1>6, <1>7, <1>8, LinesMove
<1>10. SideInv(p)'
  BY <1>0, <1>4 DEF SideInv, Settled
<1>11. SideInv(Other(p))'
  BY <1>0, <1>4, <1>7, SideStays
<1> QED
  BY <1>0, <1>9, <1>10, <1>11 DEF StepInv, Peers, Other

LEMMA ReadSteps ==
  ASSUME NoGuesses, TypeInv, TypeInv', StepInv, NEW p \in Peers, Read(p) PROVE StepInv'
<1>0. dead[p] = "no" /\ net[p] # <<>> /\ UNCHANGED setup
  BY DEF Read
<1>a. CASE ~Opens(p, Head(net[p]))
  <2>1. Fail(p, "decrypt", Tail(net[p]))
    BY <1>a DEF Read
  <2>2. Other(p) \in late
    BY <1>0, <1>a, HeadLegal
  <2> QED
    BY <1>0, <2>1, <2>2, LinesFail
<1>b. SUFFICES ASSUME Opens(p, Head(net[p])) PROVE StepInv'
  BY <1>a
<1>1. Opens(p, Head(net[p]))
  BY <1>b
<1>2. PICK m : m = Head(net[p])
  OBVIOUS
<1>3. PICK rest : rest = Tail(net[p])
  OBVIOUS
<1>4. PICK exchange : exchange = (m.type = "KEXINIT" \/ (m.type \in KexTypes /\ kex[p] # "idle"))
  OBVIOUS
<1>5. \/ exchange /\ p = "server" /\ ServerStep(m, rest)
      \/ exchange /\ p = "client" /\ ClientStep(m, rest)
      \/ ~exchange /\ OtherMessage(p, m, rest)
  BY <1>1, <1>2, <1>3, <1>4 DEF Read
<1>6. /\ exchange => m.type = Expected(p)
      /\ ~exchange => m.type \in OtherTypes
  BY <1>0, <1>1, <1>2, <1>4, HeadExpected
<1>7. SideInv(p) /\ kex[p] \in KexStates
  BY DEF StepInv, TypeInv, TypeExchange
<1>8. CASE ~exchange /\ OtherMessage(p, m, rest)
  BY <1>0, <1>1, <1>2, <1>3, <1>6, <1>8, OtherMessageSteps
<1>9. ASSUME Fail(p, "refused", rest) PROVE StepInv'
  BY <1>0, <1>9, LinesFail
<1>10. kex[p] \in {"dh", "newkeys"} => (names[p].kex = "dh-gex" <=> Gex(setup))
  BY <1>7, Settling DEF Gex
<1>11. CASE exchange /\ p = "server" /\ ServerStep(m, rest)
  <2>1. m.type = Expected("server")
    BY <1>6, <1>11
  <2>2. ~(kex["server"] = "dh" /\ names["server"].ignore_guessed)
    <3>1. kex["server"] = "dh" => names["server"] = Agreed(setup)
      BY <1>7, <1>11, Settling
    <3>2. ~Agreed(setup).ignore_guessed
      BY AgreedType DEF TypeInv, TypeExchange
    <3> QED
      BY <3>1, <3>2
  <2>3. CASE kex["server"] \in {"idle", "created"}
    <3>1. ServerCreated(rest) /\ m.type = "KEXINIT"
      BY <1>11, <2>1, <2>2, <2>3 DEF ServerStep, Expected
    <3> QED
      BY <1>0, <1>1, <1>2, <1>3, <1>11, <2>3, <3>1, ServerCreatedSteps
  <2>4. CASE kex["server"] = "group"
    <3>1. ServerGroup(rest) \/ Fail("server", "refused", rest)
      BY <1>11, <2>1, <2>2, <2>4 DEF ServerStep
    <3>2. m.type = "GEX_REQUEST"
      BY <2>1, <2>4 DEF Expected
    <3> QED
      BY <1>0, <1>1, <1>2, <1>3, <1>9, <1>11, <2>4, <3>1, <3>2, ServerGroupSteps
  <2>5. CASE kex["server"] = "dh"
    <3>1. ServerDhInit(rest) \/ Fail("server", "refused", rest)
      BY <1>11, <2>1, <2>2, <2>5 DEF ServerStep
    <3>2. m.type = IF Gex(setup) THEN "GEX_INIT" ELSE "ECDH_INIT"
      BY <1>10, <1>11, <2>1, <2>5 DEF Expected
    <3> QED
      BY <1>0, <1>1, <1>2, <1>3, <1>9, <1>11, <2>5, <3>1, <3>2, ServerDhInitSteps
  <2>6. CASE kex["server"] = "newkeys"
    <3>1. ServerDone(rest) /\ m.type = "NEWKEYS"
      BY <1>11, <2>1, <2>2, <2>6 DEF ServerStep, Expected
    <3> QED
      BY <1>0, <1>1, <1>2, <1>3, <1>11, <2>6, <3>1, ServerDoneSteps
  <2> QED
    BY <1>7, <1>11, <2>3, <2>4, <2>5, <2>6 DEF KexStates
<1>12. CASE exchange /\ p = "client" /\ ClientStep(m, rest)
  <2>1. m.type = Expected("client")
    BY <1>6, <1>12
  <2>3. CASE kex["client"] \in {"idle", "created"}
    <3>1. ClientCreated(rest) /\ m.type = "KEXINIT"
      BY <1>12, <2>1, <2>3 DEF ClientStep, Expected
    <3> QED
      BY <1>0, <1>1, <1>2, <1>3, <1>12, <2>3, <3>1, ClientCreatedSteps
  <2>4. CASE kex["client"] = "group"
    <3>1. ClientGroup(rest) \/ Fail("client", "refused", rest)
      BY <1>12, <2>1, <2>4 DEF ClientStep
    <3>2. m.type = "GEX_GROUP"
      BY <2>1, <2>4 DEF Expected
    <3> QED
      BY <1>0, <1>1, <1>2, <1>3, <1>9, <1>12, <2>4, <3>1, <3>2, ClientGroupSteps
  <2>5. CASE kex["client"] = "dh"
    <3>1. ClientDhReply(rest) \/ Fail("client", "refused", rest)
      BY <1>12, <2>1, <2>5 DEF ClientStep
    <3>2. m.type = IF Gex(setup) THEN "GEX_REPLY" ELSE "ECDH_REPLY"
      BY <1>10, <1>12, <2>1, <2>5 DEF Expected
    <3> QED
      BY <1>0, <1>1, <1>2, <1>3, <1>9, <1>12, <2>5, <3>1, <3>2, ClientDhReplySteps
  <2>6. CASE kex["client"] = "newkeys"
    <3>1. ClientDone(rest) \/ Fail("client", "refused", rest)
      BY <1>12, <2>1, <2>6 DEF ClientStep
    <3>2. m.type = "NEWKEYS"
      BY <2>1, <2>6 DEF Expected
    <3> QED
      BY <1>0, <1>1, <1>2, <1>3, <1>9, <1>12, <2>6, <3>1, <3>2, ClientDoneSteps
  <2> QED
    BY <1>7, <1>12, <2>3, <2>4, <2>5, <2>6 DEF KexStates
<1> QED
  BY <1>5, <1>8, <1>11, <1>12

LEMMA OwnSteps ==
  ASSUME NoGuesses, TypeInv, TypeInv', StepInv, NEW p \in Peers,
         \/ HandleMessage(p)
         \/ KeepaliveTimer(p)
         \/ kex[p] = "idle" /\ rekeys < setup.rekeys /\ begin_rekey(p)
  PROVE  StepInv'
<1>0. SideInv(p) /\ setup \in Setups /\ rekeys \in Nat /\ kex \in [Peers -> KexStates]
  BY DEF StepInv, TypeInv, TypeExchange
<1>1. CASE HandleMessage(p)
  BY <1>0, <1>1, OwnWrites DEF HandleMessage
<1>2. CASE KeepaliveTimer(p)
  BY <1>0, <1>2, OwnWrites DEF KeepaliveTimer
<1>3. CASE kex[p] = "idle" /\ rekeys < setup.rekeys /\ begin_rekey(p)
  <2>1. kex'[p] = "created" /\ kex'[Other(p)] = kex[Other(p)]
    BY <1>0, <1>3, Peer DEF begin_rekey
  <2> QED
    BY <1>3, <2>1, OwnWrites DEF begin_rekey
<1> QED
  BY <1>1, <1>2, <1>3

LEMMA StepInvStep ==
  ASSUME NoGuesses PROVE TypeInv /\ StepInv /\ [Next]_vars => StepInv'
<1> SUFFICES ASSUME TypeInv, StepInv, [Next]_vars PROVE StepInv'
  OBVIOUS
<1>0. TypeInv'
  BY TypeStep
<1>1. CASE UNCHANGED vars
  <2>1. \A p \in Peers : Line(p)'
    <3>1. \A p \in Peers : Other(p) \in Peers /\ UNCHANGED <<Side(p), Side(Other(p))>>
      BY <1>1, Peer DEF vars, keyVars, Side
    <3> QED
      BY <1>1, <3>1, LineUnread, SideStays DEF vars, StepInv
  <2>2. \A p \in Peers : SideInv(p)'
    BY <1>1 DEF vars, keyVars, StepInv, SideInv, Settled
  <2> QED
    BY <2>1, <2>2 DEF StepInv
<1>2. CASE \E p \in Peers : Read(p)
  BY <1>0, <1>2, ReadSteps
<1>3. CASE \/ \E p \in Peers : HandleMessage(p) \/ KeepaliveTimer(p)
           \/ ClientFlush
           \/ ServerFlush
  <2>1. \E p \in Peers : \/ HandleMessage(p)
                         \/ KeepaliveTimer(p)
                         \/ kex[p] = "idle" /\ rekeys < setup.rekeys /\ begin_rekey(p)
    BY <1>3 DEF ClientFlush, ServerFlush, Peers
  <2> QED
    BY <1>0, <2>1, OwnSteps
<1> QED
  BY <1>1, <1>2, <1>3 DEF Next

(* The first KEXINITs are on their way, the server's perhaps after a message. *)
LEMMA StepInvInit == ASSUME NoGuesses PROVE Init => StepInv
<1> SUFFICES ASSUME Init PROVE StepInv
  OBVIOUS
<1>0. TypeInv /\ ~setup.guess
  BY InitType DEF NoGuesses, TypeInv, TypeExchange
<1>1. \A p \in Peers : /\ kex[p] = "created" /\ done[p] = 0 /\ rseq[p] = 0 /\ dead[p] = "no"
                       /\ ~encrypted[p] /\ ~strict[p] /\ wkey[p] = Clear /\ rkey[p] = Clear
                       /\ names[p] = NoNames
  BY DEF Init
<1>2. \A p \in Peers : SideInv(p)
  BY <1>1 DEF SideInv, Settled, KeyAt
<1>3. ASSUME NEW p \in Peers PROVE Line(p)
  <2>0. Other(p) \in Peers
    BY Peer
  <2>1. PICK f \in Seq(Types) :
          /\ f = FirstOf(Other(p)) /\ net[p] \in Seq(Packet) /\ Len(net[p]) = Len(f)
          /\ \A i \in 1 .. Len(f) : net[p][i] = [type |-> f[i], key |-> Clear, seq |-> i - 1]
    <3>1. FirstOf(Other(p)) \in Seq(Types) /\ net[p] \in Seq(Packet)
      BY <1>0, <2>0, FirstTypes DEF TypeInv, TypeLine
    <3>2. net[p] = [i \in 1 .. Len(FirstOf(Other(p))) |->
                     [type |-> FirstOf(Other(p))[i], key |-> Clear, seq |-> i - 1]]
      BY InitLine
    <3> QED
      BY <3>1, <3>2
  <2>2. wseq[Other(p)] = Len(f)
    BY <2>0, <2>1, InitLine
  <2>3. PICK s \in Seq(Packet) : s = net[p]
    BY <2>1
  <2>4. /\ ReadPos(p) = [n |-> 0, ph |-> 0, seq |-> 0]
        /\ WritePos(Other(p)) = [n |-> 0, ph |-> 1, seq |-> Len(f)]
        /\ ReadPos(p) \in Pos /\ WritePos(Other(p)) \in Pos
    BY <1>0, <1>1, <2>0, <2>2, PosType DEF ReadPos, WritePos, ReadPh, WritePh
  <2>5. \/ Len(f) = 1 /\ f[1] = "KEXINIT"
        \/ Len(f) = 2 /\ f[1] = "IGNORE" /\ f[2] = "KEXINIT"
    <3>1. "KEXINIT" \in Types /\ "IGNORE" \in Types
      BY DEF Types, KexTypes, OtherTypes
    <3>2. PICK a \in Seq(Types), b \in Seq(Types), e \in Seq(Types) :
            /\ a = <<"KEXINIT">> /\ Len(a) = 1 /\ a[1] = "KEXINIT"
            /\ b = <<"IGNORE">> /\ Len(b) = 1 /\ b[1] = "IGNORE" /\ e = <<>>
      BY <3>1, OneType, NoTypes
    <3>3. f \in {a \o e, e \o a, b \o a}
      BY <1>0, <2>1, <3>2 DEF FirstOf
    <3>4. a \o e = a /\ e \o a = a
      BY <3>2
    <3>5. Len(b \o a) = 2 /\ (b \o a)[1] = b[1] /\ (b \o a)[2] = a[1]
      BY <3>2
    <3> QED
      BY <3>2, <3>3, <3>4, <3>5
  <2>6. Run(setup, Other(p), ReadPos(p), s, WritePos(Other(p)))
    <3>1. CASE Len(f) = 1 /\ f[1] = "KEXINIT"
      <4>1. /\ s[1].type = "KEXINIT" /\ s[1].key = Clear /\ s[1].seq = 0 /\ Len(s) = 1
        BY <2>1, <2>3, <3>1
      <4>2. Legal(setup, Other(p), ReadPos(p), s[1], WritePos(Other(p)))
        BY <2>4, <3>1, <4>1 DEF Legal, Allowed, NextKex, After, KeyAt, KexTypes
      <4> QED
        BY <2>4, <4>1, <4>2, RunOne
    <3>2. CASE Len(f) = 2 /\ f[1] = "IGNORE" /\ f[2] = "KEXINIT"
      <4>1. /\ s[1].type = "IGNORE" /\ s[1].key = Clear /\ s[1].seq = 0 /\ Len(s) = 2
            /\ s[2].type = "KEXINIT" /\ s[2].key = Clear /\ s[2].seq = 1
        BY <2>1, <2>3, <3>2
      <4>2. PICK b \in Pos : b = [n |-> 0, ph |-> 0, seq |-> 1]
        <5>1. [n |-> 0, ph |-> 0, seq |-> 1] \in Pos
          BY DEF Pos
        <5> QED
          BY <5>1
      <4>3. Legal(setup, Other(p), ReadPos(p), s[1], b)
        BY <2>4, <4>1, <4>2 DEF Legal, Allowed, OtherTypes, After, KeyAt, KexTypes
      <4>4. Legal(setup, Other(p), b, s[2], WritePos(Other(p)))
        BY <2>4, <3>2, <4>1, <4>2 DEF Legal, Allowed, NextKex, After, KeyAt, KexTypes
      <4> QED
        BY <2>4, <4>1, <4>2, <4>3, <4>4, RunTwo
    <3> QED
      BY <2>5, <3>1, <3>2
  <2>7. PICK t \in Seq(Packet), e \in Pos : t = <<>> /\ e = WritePos(Other(p))
    <3>1. <<>> \in Seq(Packet)
      OBVIOUS
    <3> QED
      BY <2>4, <3>1
  <2>8. Tails(Other(p), e, t)
    BY <2>7 DEF Tails, Init
  <2>9. net[p] = s \o t
    BY <2>3, <2>7
  <2>10. Run(setup, Other(p), ReadPos(p), s, e)
    BY <2>6, <2>7
  <2> QED
    BY <2>8, <2>9, <2>10 DEF Line
<1> QED
  BY <1>2, <1>3 DEF StepInv

-----------------------------------------------------------------------------
(* What follows *)

LEMMA InStepHolds == ASSUME TypeInv, StepInv PROVE InStep
<1> SUFFICES ASSUME NEW p \in Peers, done[p] > done[Other(p)]
             PROVE  /\ done[p] = done[Other(p)] + 1
                    /\ dead[Other(p)] = "no" =>
                         \E i \in 1 .. Len(net[Other(p)]) : net[Other(p)][i].type = "NEWKEYS"
  BY DEF InStep
<1>0. Other(p) \in Peers /\ Other(Other(p)) = p
  BY Peer
<1>1. PICK q \in Peers : q = Other(p) /\ Other(q) = p
  BY <1>0
<1>2. /\ ReadPos(p) \in Pos /\ WritePos(p) \in Pos /\ ReadPos(q) \in Pos /\ WritePos(q) \in Pos
      /\ done[p] \in Nat /\ done[q] \in Nat
  BY PosType DEF TypeInv, TypeExchange
<1>3. /\ ReadPos(p).n = done[p] /\ ReadPos(q).n = done[q]
      /\ WritePos(p).n \in {done[p], done[p] + 1} /\ WritePos(q).n \in {done[q], done[q] + 1}
  BY DEF ReadPos, WritePos
<1>4. PICK s \in Seq(Packet), e \in Pos : Run(setup, q, ReadPos(p), s, e) /\ e.n <= WritePos(q).n
  <2>1. PICK s \in Seq(Packet), t \in Seq(Packet), e \in Pos :
          Run(setup, q, ReadPos(p), s, e) /\ Tails(q, e, t)
    BY <1>1 DEF StepInv, Line
  <2>2. e.n <= WritePos(q).n
    BY <1>2, <2>1 DEF Tails, Pos
  <2> QED
    BY <2>1, <2>2
<1>5. done[p] = done[q] + 1 /\ done[p] <= WritePos(q).n
  <2>1. ReadPos(p).n <= e.n
    BY <1>2, <1>4, RunCounts
  <2>2. e.n \in Nat
    BY DEF Pos
  <2> QED
    BY <1>1, <1>2, <1>3, <1>4, <2>1, <2>2
<1>6. PICK r \in Seq(Packet), t \in Seq(Packet), f \in Pos :
         /\ dead[q] = "no" => net[q] = r \o t
         /\ Run(setup, p, ReadPos(q), r, f) /\ Tails(p, f, t)
  BY <1>1 DEF StepInv, Line
<1>7. f.n # ReadPos(q).n
  <2>1. CASE p \notin late
    BY <1>2, <1>3, <1>5, <1>6, <2>1 DEF Tails
  <2>2. CASE p \in late
    <3> SUFFICES ASSUME f.n = ReadPos(q).n PROVE FALSE
      OBVIOUS
    <3>1. f.ph >= ReadPos(q).ph /\ f.ph = 0 /\ ReadPos(q).ph \in 0 .. 3
      <4>1. f.ph = 0 /\ ReadPos(q).ph \in 0 .. 3 /\ ReadPos(q).n \in Nat
        BY <1>2, <1>6, <2>2 DEF Tails, Pos
      <4>2. f.n > ReadPos(q).n \/ (f.n = ReadPos(q).n /\ f.ph >= ReadPos(q).ph)
        BY <1>2, <1>6, RunAhead
      <4> QED
        BY <4>1, <4>2
    <3>2. ReadPh(q) = 0
      BY <3>1 DEF ReadPos
    <3>3. kex[q] # "newkeys"
      BY <3>2 DEF ReadPh
    <3> QED
      BY <1>2, <1>5, <3>3 DEF WritePos
  <2> QED
    BY <2>1, <2>2
<1>8. PICK i \in 1 .. Len(r) : r[i].type = "NEWKEYS"
  BY <1>2, <1>6, <1>7, RunCounts
<1>9. i \in 1 .. Len(r \o t) /\ (r \o t)[i] = r[i]
  OBVIOUS
<1> QED
  BY <1>1, <1>5, <1>6, <1>8, <1>9

LEMMA NamesAgreeHolds == ASSUME TypeInv, StepInv PROVE NamesAgree
<1> SUFFICES ASSUME Settled("client") = Settled("server")
             PROVE  [names["server"] EXCEPT !.ignore_guessed = FALSE] = names["client"]
  BY DEF NamesAgree
<1>1. names["client"] = names["server"]
  BY DEF StepInv, SideInv, Peers
<1>2. names["server"] \in {NoNames, Agreed(setup)}
  BY DEF StepInv, SideInv, Peers
<1>3. Agreed(setup) \in NamesType /\ Agreed(setup).ignore_guessed = FALSE
  BY AgreedType DEF TypeInv, TypeExchange
<1>4. NoNames \in NamesType /\ NoNames.ignore_guessed = FALSE
  BY DEF NoNames, NamesType, Chosen
<1>5. ASSUME NEW n \in NamesType, n.ignore_guessed = FALSE
      PROVE  [n EXCEPT !.ignore_guessed = FALSE] = n
  BY <1>5 DEF NamesType
<1> QED
  BY <1>1, <1>2, <1>3, <1>4, <1>5

(* Between two russh sides every packet is opened with the key and the       *)
(* number it was sealed with, however many re-exchanges there are and        *)
(* however they cross, and whatever keepalives and answers go out meanwhile: *)
(* a session ends for a packet that does not open only after the sender      *)
(* wrote between its NEWKEYS and its new keys.                               *)
THEOREM EveryPacketOpens == ASSUME NoGuesses PROVE Spec => []AlwaysOpens
<1>1. StepInv => AlwaysOpens
  BY DEF StepInv, SideInv, AlwaysOpens
<1> QED
  BY <1>1, InitType, TypeStep, StepInvInit, StepInvStep, PTL DEF Spec

(* Neither side of such a session gets a message of an exchange that its     *)
(* state of the exchange does not expect, keepalives or not.                 *)
THEOREM EveryMessageExpected == ASSUME NoGuesses PROVE Spec => []AlwaysExpected
<1>1. StepInv => AlwaysExpected
  BY DEF StepInv, SideInv, AlwaysExpected
<1> QED
  BY <1>1, InitType, TypeStep, StepInvInit, StepInvStep, PTL DEF Spec

(* The sides of such a session are never more than one exchange apart, with  *)
(* the NEWKEYS on its way, and negotiate the same names in every exchange,   *)
(* whatever they prefer.                                                     *)
THEOREM SidesInStep == ASSUME NoGuesses PROVE Spec => []SidesAgree
<1>1. TypeInv /\ StepInv => SidesAgree
  BY TypeInvImplies, InStepHolds, NamesAgreeHolds DEF SidesAgree
<1> QED
  BY <1>1, InitType, TypeStep, StepInvInit, StepInvStep, PTL DEF Spec

=============================================================================
