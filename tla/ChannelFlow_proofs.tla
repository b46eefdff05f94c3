------------------------- MODULE ChannelFlow_proofs -------------------------
(***************************************************************************)
(* Proofs about ChannelFlow, for any number of writers, any lengths,       *)
(* windows, packet and queue sizes.                                        *)
(***************************************************************************)
EXTENDS ChannelFlow, SequenceTheorems, TLAPS

-----------------------------------------------------------------------------
(* The operators *)

(* What cutting a sequence at n gives. *)
LEMMA CutProperties ==
  ASSUME NEW S, NEW s \in Seq(S), NEW win \in Nat
  PROVE  LET n == Least(win, Len(s)) IN
         /\ n \in Nat /\ n <= win /\ n <= Len(s)
         /\ SubSeq(s, 1, n) \in Seq(S) /\ Len(SubSeq(s, 1, n)) = n
         /\ SubSeq(s, n + 1, Len(s)) \in Seq(S)
         /\ Len(SubSeq(s, n + 1, Len(s))) = Len(s) - n
<1> DEFINE n == Least(win, Len(s))
<1>1. Len(s) \in Nat
  BY LenProperties
<1>2. n \in Nat /\ n <= win /\ n <= Len(s)
  BY <1>1 DEF Least
<1>3. \A i \in 1..n : s[i] \in S
  BY <1>1, <1>2, ElementOfSeq
<1>4. \A i \in (n + 1)..Len(s) : s[i] \in S
  BY <1>1, <1>2, ElementOfSeq
<1>5. SubSeq(s, 1, n) \in Seq(S) /\ Len(SubSeq(s, 1, n)) = n
  BY <1>1, <1>2, <1>3, SubSeqProperties
<1>6. SubSeq(s, n + 1, Len(s)) \in Seq(S) /\ Len(SubSeq(s, n + 1, Len(s))) = Len(s) - n
  BY <1>1, <1>2, <1>4, SubSeqProperties
<1> QED
  BY <1>2, <1>5, <1>6

LEMMA WithoutType ==
  ASSUME NEW q \in Seq(Writers), NEW w \in Writers
  PROVE  Without(q, w) \in Seq(Writers)
<1>1. CASE \E i \in DOMAIN q : q[i] = w
  <2>1. PICK i \in DOMAIN q : Without(q, w) = SubSeq(q, 1, i - 1) \o SubSeq(q, i + 1, Len(q))
    BY <1>1, Zenon DEF Without, RemoveAt
  <2>2. i \in 1..Len(q) /\ Len(q) \in Nat
    BY LenProperties
  <2>3. /\ \A j \in 1..(i - 1) : q[j] \in Writers
        /\ \A j \in (i + 1)..Len(q) : q[j] \in Writers
    BY <2>2, ElementOfSeq
  <2>4. SubSeq(q, 1, i - 1) \in Seq(Writers)
    BY <2>2, <2>3, SubSeqProperties
  <2>5. SubSeq(q, i + 1, Len(q)) \in Seq(Writers)
    BY <2>2, <2>3, SubSeqProperties
  <2> QED
    BY <2>1, <2>4, <2>5, ConcatProperties
<1>2. CASE ~ \E i \in DOMAIN q : q[i] = w
  BY <1>2, Zenon DEF Without
<1> QED
  BY <1>1, <1>2, Zenon

LEMMA NotifyType ==
  ASSUME NEW n \in Nat, NEW q \in Seq(Writers), NEW pcs \in [Writers -> PCs],
         NEW nots \in SUBSET Writers, Notify(n, q, pcs, nots)
  PROVE  /\ waiting' \in Seq(Writers) /\ notified' \subseteq Writers
         /\ pc' \in [Writers -> PCs]
<1> DEFINE hit == {q[i] : i \in 1..Least(n, Len(q))}
<1>1. Len(q) \in Nat /\ \A i \in 1..Len(q) : q[i] \in Writers
  BY LenProperties, ElementOfSeq
<1>2. Least(n, Len(q)) \in Nat /\ Least(n, Len(q)) <= Len(q)
  BY <1>1 DEF Least
<1>3. hit \subseteq Writers
  BY <1>1, <1>2
<1>4. SubSeq(q, n + 1, Len(q)) \in Seq(Writers)
  BY <1>1, SubSeqProperties
<1>5. waiting' \in Seq(Writers)
  BY <1>4, Zenon DEF Notify
<1>6. notified' \subseteq Writers
  BY <1>3, Zenon DEF Notify
<1>7. pc' = [w \in Writers |-> IF w \in hit /\ pcs[w] = "parked" THEN "lock" ELSE pcs[w]]
  BY Zenon DEF Notify
<1>8. pc' \in [Writers -> PCs]
  BY <1>7 DEF PCs
<1> QED
  BY <1>5, <1>6, <1>8

-----------------------------------------------------------------------------
(* Type correctness *)

LEMMA InitTypeOK == Init => TypeOK
<1> SUFFICES ASSUME Init PROVE TypeOK
  OBVIOUS
<1>1. TypeWriters
  BY FlowAssumption DEF Init, TypeWriters, PCs
<1>2. TypeSession
  BY FlowAssumption DEF Init, TypeSession
<1>3. TypeControl
  BY DEF Init, TypeControl
<1>4. TypeFlags
  BY Zenon DEF Init, TypeFlags
<1> QED
  BY <1>1, <1>2, <1>3, <1>4 DEF TypeOK

(* Actions that only move the open call, the queue or the task's control. *)
LEMMA PlainTypeOK ==
  ASSUME TypeOK,
         \/ ChannelOpenConfirmation \/ ChannelOpenFailure
         \/ \E w \in Writers : send_data(w) \/ PolledAgain(w)
         \/ \E kind \in Ends : send_msg(kind)
         \/ begin_rekey \/ SessionEnds \/ UNCHANGED vars
  PROVE  TypeOK'
<1> USE FlowAssumption DEF TypeOK
<1>1. CASE ChannelOpenConfirmation
  <2>1. TypeWriters' /\ TypeControl'
    BY <1>1 DEF ChannelOpenConfirmation, TypeWriters, TypeControl, writerVars, taskVars
  <2>2. TypeSession'
    BY <1>1 DEF ChannelOpenConfirmation, TypeSession
  <2>3. TypeFlags'
    BY <1>1, Zenon DEF ChannelOpenConfirmation, TypeFlags, writerVars, taskVars
  <2> QED
    BY <2>1, <2>2, <2>3
<1>2. CASE ChannelOpenFailure
  <2>1. TypeWriters' /\ TypeControl'
    BY <1>2 DEF ChannelOpenFailure, TypeWriters, TypeControl, writerVars, taskVars
  <2>2. TypeSession'
    BY <1>2 DEF ChannelOpenFailure, TypeSession, wireVars
  <2>3. TypeFlags'
    BY <1>2, Zenon DEF ChannelOpenFailure, TypeFlags, writerVars, taskVars, wireVars
  <2> QED
    BY <2>1, <2>2, <2>3
<1>3. CASE \E w \in Writers : send_data(w) \/ PolledAgain(w)
  <2>1. TypeWriters' /\ TypeControl'
    BY <1>3, ZenonT(60) DEF send_data, PolledAgain, TypeWriters, PCs, TypeControl, taskVars, openVars, sessVars
  <2>2. TypeSession'
    BY <1>3 DEF send_data, PolledAgain, TypeSession, wireVars, sessVars, openVars
  <2>3. TypeFlags'
    BY <1>3, Zenon DEF send_data, PolledAgain, TypeFlags, sessVars, taskVars, wireVars
  <2> QED
    BY <2>1, <2>2, <2>3
<1>4. CASE \E kind \in Ends : send_msg(kind)
  <2>1. TypeWriters' /\ TypeControl'
    BY <1>4 DEF send_msg, TypeWriters, TypeControl, writerVars, taskVars, openVars, sessVars
  <2>2. TypeSession'
    <3>1. PICK kind \in Ends : send_msg(kind)
      BY <1>4
    <3>2. kind \in {"data", "eof", "close"} /\ <<>> \in Seq(Byte)
      BY EmptySeq
    <3>3. [kind |-> kind, buf |-> <<>>] \in Messages
      BY <3>2 DEF Messages
    <3>4. queue' \in Seq(Messages)
      BY <3>1, <3>3, AppendProperties DEF send_msg, TypeSession
    <3> QED
      BY <3>1, <3>4 DEF send_msg, TypeSession, wireVars, sessVars, openVars
  <2>3. TypeFlags'
    BY <1>4, Zenon DEF send_msg, TypeFlags, writerVars, sessVars, taskVars, wireVars
  <2> QED
    BY <2>1, <2>2, <2>3
<1>5. CASE begin_rekey \/ SessionEnds
  <2>1. TypeWriters' /\ TypeControl'
    <3>1. CASE begin_rekey
      BY <3>1 DEF begin_rekey, TypeWriters, TypeControl, writerVars, openVars, sessVars
    <3>2. CASE SessionEnds
      BY <3>2 DEF SessionEnds, TypeWriters, TypeControl, writerVars, openVars, sessVars
    <3> QED
      BY <1>5, <3>1, <3>2
  <2>2. TypeSession'
    BY <1>5 DEF begin_rekey, SessionEnds, TypeSession, wireVars, sessVars, openVars
  <2>3. TypeFlags'
    BY <1>5, Zenon DEF begin_rekey, SessionEnds, TypeFlags, writerVars, sessVars, wireVars
  <2> QED
    BY <2>1, <2>2, <2>3
<1>6. CASE UNCHANGED vars
  <2>1. TypeWriters' /\ TypeControl'
    BY <1>6 DEF vars, TypeWriters, TypeControl, writerVars, openVars, sessVars, taskVars
  <2>2. TypeSession'
    BY <1>6 DEF vars, TypeSession, wireVars, sessVars, openVars
  <2>3. TypeFlags'
    BY <1>6, Zenon DEF vars, TypeFlags, writerVars, sessVars, wireVars, taskVars
  <2> QED
    BY <2>1, <2>2, <2>3
<1> QED
  BY <1>1, <1>2, <1>3, <1>4, <1>5, <1>6

(* Actions that notify writers. *)
LEMMA DroppedType ==
  ASSUME TypeOK, NEW w \in Writers, NEW pcs \in [Writers -> PCs], Dropped(w, pcs)
  PROVE  /\ waiting' \in Seq(Writers) /\ notified' \subseteq Writers
         /\ pc' \in [Writers -> PCs]
<1> DEFINE n == IF w \in notified THEN 2 ELSE 1
<1>1. n \in Nat
  OBVIOUS
<1>2. Without(waiting, w) \in Seq(Writers)
  BY WithoutType DEF TypeOK, TypeWriters
<1>3. notified \ {w} \in SUBSET Writers
  BY DEF TypeOK, TypeWriters
<1>4. Notify(n, Without(waiting, w), pcs, notified \ {w})
  BY DEF Dropped
<1> HIDE DEF n
<1> QED
  BY <1>1, <1>2, <1>3, <1>4, NotifyType

LEMMA WritableProperties ==
  ASSUME TypeOK, NEW w \in Writers
  PROVE  /\ Writable(w) \in Int
         /\ Writable(w) <= windowRef /\ Writable(w) <= Length[w] - taken[w]
         /\ windowRef > 0 /\ taken[w] < Length[w] => Writable(w) > 0
<1>1. /\ windowRef \in Nat /\ MaxPacket \in Nat \ {0}
      /\ Length[w] \in Nat /\ taken[w] \in Nat
  BY FlowAssumption DEF TypeOK, TypeWriters
<1>2. PICK c \in Int : c = Length[w] - taken[w]
  BY <1>1
<1> QED
  BY <1>1, <1>2 DEF Writable, Least

LEMMA WriterTypeOK ==
  ASSUME TypeOK, NEW w \in Writers,
         \/ poll_writable(w) \/ PollNotification(w)
         \/ handle_write_result(w) \/ BrokenPipe(w)
  PROVE  TypeOK'
<1> USE FlowAssumption
<1>1. TypeControl'
  BY DEF TypeOK, TypeControl, poll_writable, PollNotification, handle_write_result, BrokenPipe,
         openVars, sessVars, taskVars
<1>2. CASE poll_writable(w)
  <2>1. TypeSession'
    BY <1>2 DEF TypeOK, TypeSession, poll_writable, openVars, sessVars, wireVars
  <2>2. TypeFlags'
    BY <1>2, Zenon DEF TypeOK, TypeFlags, poll_writable, Notify, sessVars, wireVars, taskVars
  <2>3. CASE Writable(w) > 0
    <3> DEFINE n == Writable(w)
               pcs == [pc EXCEPT ![w] = "send"]
    <3>1. n \in Nat /\ n > 0 /\ n <= windowRef
      BY <2>3, WritableProperties
    <3>2. /\ windowRef' = windowRef - n
          /\ taken' = [taken EXCEPT ![w] = @ + n]
          /\ hand' = [hand EXCEPT ![w] = [k \in 1..n |-> <<w, taken[w] + k, k - 1>>]]
          /\ \/ Notify(1, waiting, pcs, notified)
             \/ pc' = pcs /\ UNCHANGED <<permit, waiting, notified>>
      BY <1>2, <2>3 DEF poll_writable
    <3>3. pcs \in [Writers -> PCs]
      BY DEF TypeOK, TypeWriters, PCs
    <3> HIDE DEF n, pcs
    <3>4. /\ waiting' \in Seq(Writers) /\ notified' \subseteq Writers
          /\ pc' \in [Writers -> PCs]
      BY <3>2, <3>3, NotifyType DEF TypeOK, TypeWriters
    <3>5. \A k \in 1..n : <<w, taken[w] + k, k - 1>> \in Byte
      BY <3>1 DEF TypeOK, TypeWriters, Byte
    <3>6. [k \in 1..n |-> <<w, taken[w] + k, k - 1>>] \in Seq(Byte)
      BY <3>1, <3>5, IsASeq
    <3>7. hand' \in [Writers -> Seq(Byte)]
      BY <3>2, <3>6 DEF TypeOK, TypeWriters
    <3>8. windowRef' \in 0..MaxU32 /\ taken' \in [Writers -> Nat]
      BY <3>1, <3>2 DEF TypeOK, TypeWriters
    <3> QED
      BY <1>1, <2>1, <2>2, <3>4, <3>7, <3>8 DEF TypeOK, TypeWriters
  <2>4. CASE ~(Writable(w) > 0)
    BY <1>1, <1>2, <2>1, <2>2, <2>4 DEF TypeOK, TypeWriters, PCs, poll_writable
  <2> QED
    BY <2>3, <2>4
<1>3. CASE PollNotification(w)
  <2>1. TypeSession'
    BY <1>3 DEF TypeOK, TypeSession, PollNotification, openVars, sessVars, wireVars
  <2>2. TypeFlags'
    BY <1>3, Zenon DEF TypeOK, TypeFlags, PollNotification, sessVars, wireVars, taskVars
  <2>3. Append(waiting, w) \in Seq(Writers)
    BY AppendProperties DEF TypeOK, TypeWriters
  <2>4. TypeWriters'
    BY <1>3, <2>3 DEF TypeOK, TypeWriters, PCs, PollNotification
  <2> QED
    BY <1>1, <2>1, <2>2, <2>4 DEF TypeOK
<1>4. CASE handle_write_result(w)
  <2>1. TypeSession'
    <3>1. [kind |-> "data", buf |-> hand[w]] \in Messages
      BY DEF TypeOK, TypeWriters, Messages
    <3>2. queue' \in Seq(Messages)
      BY <1>4, <3>1, AppendProperties DEF TypeOK, TypeSession, handle_write_result
    <3> QED
      BY <1>4, <3>2 DEF TypeOK, TypeSession, handle_write_result, openVars, sessVars, wireVars
  <2>2. TypeFlags'
    BY <1>4, Zenon DEF TypeOK, TypeFlags, handle_write_result, Dropped, Notify, sessVars,
                       wireVars, taskVars
  <2>3. [pc EXCEPT ![w] = "done"] \in [Writers -> PCs]
    BY DEF TypeOK, TypeWriters, PCs
  <2>4. /\ waiting' \in Seq(Writers) /\ notified' \subseteq Writers
        /\ pc' \in [Writers -> PCs]
    <3>1. CASE taken[w] = Length[w]
      BY <1>4, <2>3, <3>1, DroppedType DEF handle_write_result
    <3>2. CASE taken[w] # Length[w]
      BY <1>4, <3>2 DEF handle_write_result, TypeOK, TypeWriters, PCs
    <3> QED
      BY <3>1, <3>2
  <2>5. <<>> \in Seq(Byte)
    BY EmptySeq
  <2>6. TypeWriters'
    BY <1>4, <2>4, <2>5 DEF handle_write_result, TypeOK, TypeWriters
  <2> QED
    BY <1>1, <2>1, <2>2, <2>6 DEF TypeOK
<1>5. CASE BrokenPipe(w)
  <2>1. TypeSession'
    BY <1>5 DEF TypeOK, TypeSession, BrokenPipe, openVars, sessVars, wireVars
  <2>2. TypeFlags'
    BY <1>5, Zenon DEF TypeOK, TypeFlags, BrokenPipe, Dropped, Notify, sessVars,
                       wireVars, taskVars
  <2>3. [pc EXCEPT ![w] = "broken"] \in [Writers -> PCs]
    BY DEF TypeOK, TypeWriters, PCs
  <2>4. /\ waiting' \in Seq(Writers) /\ notified' \subseteq Writers
        /\ pc' \in [Writers -> PCs]
    BY <1>5, <2>3, DroppedType DEF BrokenPipe
  <2>5. <<>> \in Seq(Byte)
    BY EmptySeq
  <2>6. TypeWriters'
    BY <1>5, <2>4, <2>5 DEF BrokenPipe, TypeOK, TypeWriters
  <2> QED
    BY <1>1, <2>1, <2>2, <2>6 DEF TypeOK
<1> QED
  BY <1>2, <1>3, <1>4, <1>5

(* What data() does to the window, the pending data and the wire. *)
LEMMA DataProperties ==
  ASSUME TypeOK, NEW buf \in Seq(Byte), NEW rekeying \in BOOLEAN, data(buf, rekeying)
  PROVE  /\ rwin' \in 0..MaxU32 /\ pending' \in Seq(Byte) /\ wire' \in Seq(Byte)
         /\ Len(wire') + rwin' = Len(wire) + rwin
         /\ PendingMeansNoWindow => PendingMeansNoWindow'
<1>1. /\ rwin \in 0..MaxU32 /\ rwin \in Nat /\ MaxU32 \in Nat
      /\ pending \in Seq(Byte) /\ wire \in Seq(Byte)
      /\ Len(wire) \in Nat /\ Len(pending) \in Nat /\ Len(buf) \in Nat
  BY FlowAssumption, LenProperties DEF TypeOK, TypeSession
<1>2. CASE pending # <<>> /\ rekeying
  <2>1. pending' = pending \o buf /\ wire' = wire /\ rwin' = rwin
    BY <1>2 DEF data
  <2>2. pending' \in Seq(Byte)
    BY <1>1, <2>1, ConcatProperties
  <2> QED
    BY <1>1, <1>2, <2>1, <2>2 DEF PendingMeansNoWindow
<1>3. CASE ~(pending # <<>> /\ rekeying)
  <2> DEFINE n == Least(rwin, Len(buf))
             head == SubSeq(buf, 1, n)
             rest == SubSeq(buf, n + 1, Len(buf))
  <2>1. wire' = wire \o head /\ rwin' = rwin - n /\ pending' = pending \o rest
    BY <1>3, Zenon DEF data
  <2>2. /\ n \in Nat /\ n <= rwin /\ n <= Len(buf)
        /\ head \in Seq(Byte) /\ Len(head) = n
        /\ rest \in Seq(Byte) /\ Len(rest) = Len(buf) - n
    BY <1>1, CutProperties
  <2>3. n = rwin \/ n = Len(buf)
    BY DEF Least
  <2> HIDE DEF n, head, rest
  <2>4. /\ wire' \in Seq(Byte) /\ Len(wire') = Len(wire) + n
        /\ pending' \in Seq(Byte) /\ Len(pending') = Len(pending) + Len(rest)
    BY <1>1, <2>1, <2>2, ConcatProperties, ZenonT(60)
  <2>5. ASSUME PendingMeansNoWindow PROVE PendingMeansNoWindow'
    <3>1. CASE n = rwin
      BY <1>1, <2>1, <3>1 DEF PendingMeansNoWindow
    <3>2. CASE n = Len(buf) /\ pending # <<>>
      BY <1>1, <2>1, <2>2, <2>5, <3>2 DEF PendingMeansNoWindow
    <3>3. CASE n = Len(buf) /\ pending = <<>>
      <4>1. Len(pending') = 0
        BY <1>1, <2>2, <2>4, <3>3, EmptySeq
      <4> QED
        BY <2>4, <4>1, EmptySeq DEF PendingMeansNoWindow
    <3> QED
      BY <2>3, <3>1, <3>2, <3>3
  <2> QED
    BY <1>1, <2>1, <2>2, <2>4, <2>5
<1> QED
  BY <1>2, <1>3

(* What flush_channel does to them. *)
LEMMA FlushProperties ==
  ASSUME TypeOK, NEW win \in 0..MaxU32, flush_channel(win)
  PROVE  /\ rwin' \in 0..MaxU32 /\ pending' \in Seq(Byte) /\ wire' \in Seq(Byte)
         /\ Len(wire') + rwin' = Len(wire) + win
         /\ PendingMeansNoWindow'
<1>1. /\ win \in Nat /\ MaxU32 \in Nat /\ pending \in Seq(Byte) /\ wire \in Seq(Byte)
      /\ Len(wire) \in Nat /\ Len(pending) \in Nat
  BY FlowAssumption, LenProperties DEF TypeOK, TypeSession
<1> DEFINE n == Least(win, Len(pending))
           head == SubSeq(pending, 1, n)
           rest == SubSeq(pending, n + 1, Len(pending))
<1>2. wire' = wire \o head /\ rwin' = win - n /\ pending' = rest
  BY Zenon DEF flush_channel
<1>3. /\ n \in Nat /\ n <= win /\ n <= Len(pending)
      /\ head \in Seq(Byte) /\ Len(head) = n
      /\ rest \in Seq(Byte) /\ Len(rest) = Len(pending) - n
  BY <1>1, CutProperties
<1>4. n = win \/ n = Len(pending)
  BY DEF Least
<1> HIDE DEF n, head, rest
<1>5. wire' \in Seq(Byte) /\ Len(wire') = Len(wire) + n
  BY <1>1, <1>2, <1>3, ConcatProperties
<1>6. PendingMeansNoWindow'
  <2>1. CASE n = win
    BY <1>1, <1>2, <2>1 DEF PendingMeansNoWindow
  <2>2. CASE n = Len(pending)
    <3>1. Len(rest) = 0
      BY <1>1, <1>3, <2>2
    <3> QED
      BY <1>2, <1>3, <3>1, EmptySeq DEF PendingMeansNoWindow
  <2> QED
    BY <1>4, <2>1, <2>2
<1> QED
  BY <1>1, <1>2, <1>3, <1>5, <1>6

LEMMA SessionTypeOK ==
  ASSUME TypeOK,
         \/ wait_channel_confirmation \/ handle_msg
         \/ \E amount \in Amounts : ChannelWindowAdjust(amount)
         \/ ChannelClose \/ RekeyDone
  PROVE  TypeOK'
<1> USE FlowAssumption
<1>1. CASE wait_channel_confirmation
  <2>1. waiting \in Seq(Writers) /\ pc \in [Writers -> PCs] /\ notified \in SUBSET Writers
    BY DEF TypeOK, TypeWriters
  <2>2. Notify(1, waiting, pc, notified) /\ windowRef' = initial /\ UNCHANGED <<taken, hand>>
    BY <1>1 DEF wait_channel_confirmation, update
  <2>3. TypeWriters'
    BY <2>1, <2>2, NotifyType DEF TypeOK, TypeWriters, TypeSession
  <2>4. TypeSession' /\ TypeControl'
    BY <1>1 DEF wait_channel_confirmation, TypeOK, TypeSession, TypeControl, sessVars,
                taskVars, wireVars
  <2>5. TypeFlags'
    BY <1>1, Zenon DEF wait_channel_confirmation, update, Notify, TypeOK, TypeFlags, sessVars,
                       taskVars, wireVars
  <2> QED
    BY <2>3, <2>4, <2>5 DEF TypeOK
<1>2. CASE handle_msg
  <2>1. TypeWriters'
    BY <1>2 DEF handle_msg, TypeOK, TypeWriters, writerVars
  <2>2. TypeControl'
    BY <1>2 DEF handle_msg, close, TypeOK, TypeControl, openVars, taskVars
  <2>3. TypeFlags'
    BY <1>2, Zenon DEF handle_msg, eof, close, TypeOK, TypeFlags, writerVars, taskVars
  <2>4. queue # <<>> /\ queue' = Tail(queue)
    BY <1>2 DEF handle_msg
  <2>5. Head(queue) \in Messages /\ queue' \in Seq(Messages)
    BY <2>4, HeadTailProperties DEF TypeOK, TypeSession
  <2>6. Head(queue).buf \in Seq(Byte)
    BY <2>5 DEF Messages
  <2>7. Len(wire) \in Nat /\ Len(pending) \in Nat
    BY LenProperties DEF TypeOK, TypeSession
  <2>8. rwin' \in 0..MaxU32 /\ pending' \in Seq(Byte) /\ wire' \in Seq(Byte)
    <3>1. CASE data(Head(queue).buf, kex = "active")
      BY <2>6, <3>1, DataProperties
    <3>2. CASE UNCHANGED <<rwin, pending, wire>>
      BY <3>2 DEF TypeOK, TypeSession
    <3>3. data(Head(queue).buf, kex = "active") \/ UNCHANGED <<rwin, pending, wire>>
      BY <1>2 DEF handle_msg
    <3> QED
      BY <3>1, <3>2, <3>3
  <2>9. eofAt' \in Seq(Nat)
    <3>1. eofAt' = eofAt \/ eofAt' = Append(eofAt, Len(wire))
      BY <1>2 DEF handle_msg, eof
    <3>2. eofAt \in Seq(Nat)
      BY DEF TypeOK, TypeSession
    <3>3. Append(eofAt, Len(wire)) \in Seq(Nat)
      BY <2>7, <3>2, AppendProperties
    <3> QED
      BY <3>1, <3>2, <3>3
  <2>10. eofNeeds' \in Nat /\ closeNeeds' \in Nat /\ UNCHANGED <<initial, credit>>
    BY <1>2, <2>7 DEF handle_msg, openVars, TypeOK, TypeSession
  <2>11. TypeSession'
    BY <2>5, <2>8, <2>9, <2>10 DEF TypeOK, TypeSession
  <2> QED
    BY <2>1, <2>2, <2>3, <2>11 DEF TypeOK
<1>3. CASE \E amount \in Amounts : ChannelWindowAdjust(amount)
  <2>1. PICK amount \in Amounts : ChannelWindowAdjust(amount)
    BY <1>3
  <2> DEFINE win == Least(rwin + amount, MaxU32)
  <2>2. win \in 0..MaxU32 /\ amount \in Nat
    BY DEF Least, TypeOK, TypeSession
  <2>3. TypeControl'
    BY <2>1 DEF ChannelWindowAdjust, handle_flushed_channel, TypeOK, TypeControl, openVars, sessVars
  <2>4. credit' \in Nat /\ UNCHANGED <<queue, initial, eofNeeds, closeNeeds>>
    BY <2>1, <2>2 DEF ChannelWindowAdjust, openVars, TypeOK, TypeSession
  <2>5. CASE SliceOutOfBounds(win)
    <3>1. UNCHANGED <<writerVars, sessVars, wire, eofAt, closed>> /\ serverClosed' = serverClosed
      BY <2>1, <2>5 DEF ChannelWindowAdjust
    <3>2. TypeWriters' /\ TypeSession'
      BY <2>4, <3>1 DEF TypeOK, TypeWriters, TypeSession, writerVars, sessVars
    <3>3. TypeFlags'
      BY <3>1, Zenon DEF TypeOK, TypeFlags, writerVars, sessVars
    <3> QED
      BY <2>3, <3>2, <3>3 DEF TypeOK
  <2>6. CASE ~SliceOutOfBounds(win)
    <3>1. /\ flush_channel(win) /\ handle_flushed_channel
          /\ \/ update(rwin')
             \/ UNCHANGED <<windowRef, permit, waiting, notified, pc>>
          /\ UNCHANGED <<taken, hand, ref, serverClosed>>
      BY <2>1, <2>6 DEF ChannelWindowAdjust
    <3> HIDE DEF win
    <3>2. rwin' \in 0..MaxU32 /\ pending' \in Seq(Byte) /\ wire' \in Seq(Byte)
      BY <2>2, <3>1, FlushProperties
    <3>3. TypeWriters'
      <4>1. waiting \in Seq(Writers) /\ pc \in [Writers -> PCs] /\ notified \in SUBSET Writers
        BY DEF TypeOK, TypeWriters
      <4>2. CASE update(rwin')
        <5>1. Notify(1, waiting, pc, notified) /\ windowRef' = rwin'
          BY <4>2 DEF update
        <5> QED
          BY <3>1, <3>2, <4>1, <5>1, NotifyType DEF TypeOK, TypeWriters
      <4>3. CASE UNCHANGED <<windowRef, permit, waiting, notified, pc>>
        BY <3>1, <4>3 DEF TypeOK, TypeWriters
      <4> QED
        BY <3>1, <4>2, <4>3
    <3>4. eofAt' \in Seq(Nat)
      <4>1. eofAt' = eofAt \/ eofAt' = Append(eofAt, Len(wire'))
        BY <3>1, Zenon DEF handle_flushed_channel
      <4>2. Len(wire') \in Nat
        BY <3>2, LenProperties
      <4>3. eofAt \in Seq(Nat)
        BY DEF TypeOK, TypeSession
      <4>4. Append(eofAt, Len(wire')) \in Seq(Nat)
        BY <4>2, <4>3, AppendProperties
      <4> QED
        BY <4>1, <4>3, <4>4
    <3>5. TypeSession'
      BY <2>4, <3>2, <3>4 DEF TypeOK, TypeSession
    <3>6. TypeFlags'
      BY <3>1, Zenon DEF update, Notify, handle_flushed_channel, TypeOK, TypeFlags
    <3> QED
      BY <2>3, <3>3, <3>5, <3>6 DEF TypeOK
  <2> QED
    BY <2>5, <2>6
<1>4. CASE ChannelClose
  <2>1. TypeWriters' /\ TypeSession'
    BY <1>4 DEF ChannelClose, TypeOK, TypeWriters, TypeSession, writerVars, openVars
  <2>2. TypeControl'
    BY <1>4 DEF ChannelClose, close, TypeOK, TypeControl, openVars
  <2>3. TypeFlags'
    BY <1>4, Zenon DEF ChannelClose, close, TypeOK, TypeFlags, writerVars
  <2> QED
    BY <2>1, <2>2, <2>3 DEF TypeOK
<1>5. CASE RekeyDone
  <2>1. TypeWriters' /\ TypeControl'
    BY <1>5 DEF RekeyDone, TypeOK, TypeWriters, TypeControl, writerVars, openVars
  <2>2. TypeFlags'
    BY <1>5, Zenon DEF RekeyDone, TypeOK, TypeFlags, writerVars
  <2>3. rwin' \in 0..MaxU32 /\ pending' \in Seq(Byte) /\ wire' \in Seq(Byte)
    <3>1. rwin \in 0..MaxU32
      BY DEF TypeOK, TypeSession
    <3>2. CASE chan = "open"
      BY <1>5, <3>1, <3>2, FlushProperties DEF RekeyDone
    <3>3. CASE chan # "open"
      BY <1>5, <3>3 DEF RekeyDone, TypeOK, TypeSession
    <3> QED
      BY <3>2, <3>3
  <2>4. TypeSession'
    BY <1>5, <2>3 DEF RekeyDone, TypeOK, TypeSession, openVars
  <2> QED
    BY <2>1, <2>2, <2>4 DEF TypeOK
<1> QED
  BY <1>1, <1>2, <1>3, <1>4, <1>5

(* TypeOK (the state the run channel_flow checks on its instance) holds in   *)
(* every reachable state, whatever the constants.                            *)
THEOREM TypeCorrect == Spec => []TypeOK
<1>1. TypeOK /\ [Next]_vars => TypeOK'
  BY PlainTypeOK, WriterTypeOK, SessionTypeOK DEF Next
<1> QED
  BY InitTypeOK, <1>1, PTL DEF Spec

-----------------------------------------------------------------------------
(* Flow control *)

(* The inductive invariant: nothing is pending or sent on a channel that is  *)
(* still being opened, for the confirmation sets the window anew.            *)
FlowInv ==
  /\ WindowRespected
  /\ PendingMeansNoWindow
  /\ chan = "opening" => pending = <<>> /\ wire = <<>>

LEMMA FlowStep ==
  ASSUME TypeOK, FlowInv, [Next]_vars
  PROVE  FlowInv'
<1>1. /\ rwin \in Nat /\ rwin \in 0..MaxU32 /\ credit \in Nat /\ MaxU32 \in Nat
      /\ Len(wire) \in Nat
  BY FlowAssumption, LenProperties DEF TypeOK, TypeSession
<1>2. CASE ChannelOpenConfirmation
  <2>1. pending = <<>> /\ wire = <<>> /\ UNCHANGED <<pending, wire>> /\ chan' = "open"
    BY <1>2 DEF FlowInv, ChannelOpenConfirmation
  <2>2. rwin' \in Nat /\ credit' \in Nat /\ credit' = rwin'
    BY <1>2, FlowAssumption DEF ChannelOpenConfirmation
  <2>3. Len(wire') = 0
    BY <2>1, EmptySeq
  <2>4. WindowRespected'
    <3>1. \A a, r, c \in Nat : a = 0 /\ c = r => a + r <= c
      OBVIOUS
    <3>2. Len(wire') \in Nat
      BY <2>3
    <3>3. Len(wire') + rwin' <= credit'
      BY <2>2, <2>3, <3>1, <3>2, Zenon
    <3> QED
      BY <3>3, Zenon DEF WindowRespected
  <2>5. PendingMeansNoWindow'
    BY <2>1 DEF PendingMeansNoWindow
  <2> QED
    BY <2>1, <2>4, <2>5 DEF FlowInv
<1>3. CASE handle_msg
  <2>1. /\ credit' = credit
        /\ chan' \in {chan, "gone"}
    BY <1>3 DEF handle_msg, close
  <2>2. CASE UNCHANGED <<rwin, pending, wire>>
    BY <2>1, <2>2 DEF FlowInv, WindowRespected, PendingMeansNoWindow
  <2>3. CASE data(Head(queue).buf, kex = "active") /\ chan = "open"
    <3>1. queue # <<>>
      BY <1>3 DEF handle_msg
    <3>2. Head(queue) \in Messages
      BY <3>1, HeadTailProperties DEF TypeOK, TypeSession
    <3>3. Head(queue).buf \in Seq(Byte)
      BY <3>2 DEF Messages
    <3>4. /\ Len(wire') + rwin' = Len(wire) + rwin
          /\ PendingMeansNoWindow'
      BY <2>3, <3>3, DataProperties DEF FlowInv
    <3> QED
      BY <2>1, <2>3, <3>4 DEF FlowInv, WindowRespected
  <2> QED
    BY <1>3, <2>2, <2>3 DEF handle_msg
<1>4. CASE \E amount \in Amounts : ChannelWindowAdjust(amount)
  <2>1. PICK amount \in Amounts : ChannelWindowAdjust(amount)
    BY <1>4
  <2> DEFINE win == Least(rwin + amount, MaxU32)
  <2>2. win \in 0..MaxU32 /\ win <= rwin + amount /\ amount \in Nat
    BY <1>1, FlowAssumption DEF Least
  <2>3. credit' = credit + amount /\ chan = "open"
    BY <2>1 DEF ChannelWindowAdjust
  <2>4. CASE SliceOutOfBounds(win)
    <3>1. UNCHANGED <<rwin, pending, wire, chan>>
      BY <2>1, <2>4 DEF ChannelWindowAdjust, sessVars
    <3> QED
      BY <1>1, <2>2, <2>3, <3>1 DEF FlowInv, WindowRespected, PendingMeansNoWindow
  <2>5. CASE ~SliceOutOfBounds(win)
    <3>1. flush_channel(win) /\ chan' # "opening"
      BY <2>1, <2>3, <2>5 DEF ChannelWindowAdjust, handle_flushed_channel
    <3> HIDE DEF win
    <3>2. /\ Len(wire') + rwin' = Len(wire) + win
          /\ PendingMeansNoWindow'
      BY <2>2, <3>1, FlushProperties
    <3>3. Len(wire') + rwin' <= credit'
      BY <1>1, <2>2, <2>3, <3>2 DEF FlowInv, WindowRespected
    <3> QED
      BY <3>1, <3>2, <3>3 DEF FlowInv, WindowRespected
  <2> QED
    BY <2>4, <2>5
<1>5. CASE RekeyDone
  <2>1. credit' = credit /\ chan' = chan
    BY <1>5 DEF RekeyDone
  <2>2. CASE chan = "open"
    <3>1. flush_channel(rwin)
      BY <1>5, <2>2 DEF RekeyDone
    <3>2. /\ Len(wire') + rwin' = Len(wire) + rwin
          /\ PendingMeansNoWindow'
      BY <1>1, <3>1, FlushProperties
    <3> QED
      BY <2>1, <2>2, <3>2 DEF FlowInv, WindowRespected
  <2>3. CASE chan # "open"
    <3>1. UNCHANGED <<rwin, pending, wire>>
      BY <1>5, <2>3 DEF RekeyDone
    <3> QED
      BY <2>1, <3>1 DEF FlowInv, WindowRespected, PendingMeansNoWindow
  <2> QED
    BY <2>2, <2>3
<1>6. CASE \/ ChannelOpenFailure \/ ChannelClose \/ wait_channel_confirmation
           \/ \E kind \in Ends : send_msg(kind)
           \/ begin_rekey \/ SessionEnds \/ UNCHANGED vars
  <2>1. UNCHANGED <<rwin, pending, wire, credit>> /\ chan' \in {chan, "gone"}
    BY <1>6 DEF ChannelOpenFailure, ChannelClose, close, wait_channel_confirmation, send_msg,
                begin_rekey, SessionEnds, vars, sessVars, wireVars
  <2> QED
    BY <2>1 DEF FlowInv, WindowRespected, PendingMeansNoWindow
<1>7. CASE \E w \in Writers : \/ send_data(w) \/ poll_writable(w) \/ PollNotification(w)
                              \/ PolledAgain(w) \/ handle_write_result(w) \/ BrokenPipe(w)
  <2>1. UNCHANGED <<rwin, pending, wire, credit, chan>>
    BY <1>7 DEF send_data, poll_writable, PollNotification, PolledAgain, handle_write_result,
                BrokenPipe, sessVars, wireVars
  <2> QED
    BY <2>1 DEF FlowInv, WindowRespected, PendingMeansNoWindow
<1> QED
  BY <1>2, <1>3, <1>4, <1>5, <1>6, <1>7 DEF Next

LEMMA FlowInvariant == Spec => []FlowInv
<1>1. Init => FlowInv
  <2> SUFFICES ASSUME Init PROVE FlowInv
    OBVIOUS
  <2>1. Len(wire) = 0
    BY EmptySeq DEF Init
  <2> QED
    BY <2>1 DEF Init, FlowInv, WindowRespected, PendingMeansNoWindow
<1>2. TypeOK /\ FlowInv /\ [Next]_vars => FlowInv'
  BY FlowStep
<1> QED
  BY <1>1, <1>2, TypeCorrect, PTL DEF Spec

(* Flow control, for every writer, window and re-exchange: what              *)
(* data_noqueue has sent and what the channel has left never exceed what     *)
(* the server granted.                                                       *)
THEOREM FlowControl == Spec => []WindowRespected
<1>1. FlowInv => WindowRespected
  BY DEF FlowInv
<1> QED
  BY <1>1, FlowInvariant, PTL

(* Data waits in pending_data only when the channel's window is used up, so  *)
(* data() cannot overtake it.                                                *)
THEOREM PendingOnlyAtZero == Spec => []PendingMeansNoWindow
<1>1. FlowInv => PendingMeansNoWindow
  BY DEF FlowInv
<1> QED
  BY <1>1, FlowInvariant, PTL

-----------------------------------------------------------------------------
(* Wake-ups *)

Awake == \E w \in Writers : w \in notified \/ pc[w] = "lock"

(* A permit is left only when nobody is registered. *)
PermitMeansNobodyWaits == permit => waiting = <<>>

(* A writer that looks at the window, or will, has bytes left to send. *)
BytesLeft ==
  \A w \in Writers :
    /\ taken[w] <= Length[w]
    /\ pc[w] \in {"idle", "lock", "saw0", "parked"} => taken[w] < Length[w]

(* NoLostWakeup alone is not inductive: a writer that has found the window   *)
(* empty registers after the window has grown.  So it counts as a waiting    *)
(* one, and the permit as a wake-up.                                         *)
WindowIsAnnounced ==
  windowRef > 0 /\ (waiting # <<>> \/ \E w \in Writers : pc[w] = "saw0") => permit \/ Awake

WakeInv == PermitMeansNobodyWaits /\ BytesLeft /\ WindowIsAnnounced

(* One or more calls of notify_one() leave a permit or somebody notified. *)
LEMMA NotifyWakes ==
  ASSUME NEW n \in Nat, n > 0, NEW q \in Seq(Writers), NEW pcs, NEW nots,
         Notify(n, q, pcs, nots)
  PROVE  permit' \/ Awake'
<1>1. Len(q) \in Nat /\ \A i \in 1..Len(q) : q[i] \in Writers
  BY LenProperties, ElementOfSeq
<1>2. CASE Len(q) < n
  BY <1>2, Zenon DEF Notify
<1>3. CASE ~(Len(q) < n)
  <2>1. 1 \in 1..Least(n, Len(q)) /\ q[1] \in Writers
    BY <1>1, <1>3 DEF Least
  <2>2. q[1] \in notified'
    BY <2>1, Zenon DEF Notify
  <2> QED
    BY <2>1, <2>2, Zenon DEF Awake
<1> QED
  BY <1>2, <1>3, Zenon

(* A permit is there after notify_one() only when the queue is empty. *)
LEMMA NotifyPermit ==
  ASSUME NEW n \in Nat, NEW q \in Seq(Writers), NEW pcs, NEW nots,
         Notify(n, q, pcs, nots), permit => q = <<>>
  PROVE  PermitMeansNobodyWaits'
<1> SUFFICES ASSUME permit' PROVE waiting' = <<>>
  BY DEF PermitMeansNobodyWaits
<1>1. Len(q) \in Nat
  BY LenProperties
<1>2. waiting' = SubSeq(q, n + 1, Len(q))
  BY Zenon DEF Notify
<1>3. permit \/ Len(q) < n
  BY Zenon DEF Notify
<1>4. Len(q) < n + 1
  <2>1. CASE permit
    <3>1. Len(q) = 0
      BY <2>1, EmptySeq
    <3> QED
      BY <3>1
  <2>2. CASE Len(q) < n
    BY <1>1, <2>2
  <2> QED
    BY <1>3, <2>1, <2>2
<1> QED
  BY <1>1, <1>2, <1>4, SubSeqEmpty

(* Taking a writer out of an empty queue leaves it empty. *)
LEMMA WithoutEmpty ==
  ASSUME NEW w
  PROVE  Without(<<>>, w) = <<>>
<1>1. ~ \E i \in DOMAIN <<>> : <<>>[i] = w
  OBVIOUS
<1> QED
  BY <1>1, Zenon DEF Without

(* notify_one() lets no writer without bytes look at the window. *)
LEMMA NotifyBytes ==
  ASSUME NEW n, NEW q, NEW pcs \in [Writers -> PCs], NEW nots, Notify(n, q, pcs, nots),
         \A w \in Writers :
           /\ taken'[w] <= Length[w]
           /\ pcs[w] \in {"idle", "lock", "saw0", "parked"} => taken'[w] < Length[w]
  PROVE  BytesLeft'
<1>1. \A w \in Writers : pc'[w] = pcs[w] \/ (pcs[w] = "parked" /\ pc'[w] = "lock")
  BY DEF Notify
<1> QED
  BY <1>1 DEF BytesLeft

LEMMA DroppedWakes ==
  ASSUME TypeOK, WakeInv, NEW w \in Writers, NEW pcs \in [Writers -> PCs], Dropped(w, pcs)
  PROVE  (permit' \/ Awake') /\ PermitMeansNobodyWaits'
<1> DEFINE n == IF w \in notified THEN 2 ELSE 1
<1>1. n \in Nat /\ n > 0
  OBVIOUS
<1>2. Without(waiting, w) \in Seq(Writers)
  BY WithoutType DEF TypeOK, TypeWriters
<1>3. Notify(n, Without(waiting, w), pcs, notified \ {w})
  BY DEF Dropped
<1>4. permit => Without(waiting, w) = <<>>
  BY WithoutEmpty, Zenon DEF WakeInv, PermitMeansNobodyWaits
<1> HIDE DEF n
<1>5. permit' \/ Awake'
  BY <1>1, <1>2, <1>3, NotifyWakes
<1>6. PermitMeansNobodyWaits'
  BY <1>1, <1>2, <1>3, <1>4, NotifyPermit
<1> QED
  BY <1>5, <1>6

LEMMA UpdateWakes ==
  ASSUME TypeOK, WakeInv, NEW value, update(value), taken' = taken
  PROVE  WakeInv'
<1>1. waiting \in Seq(Writers) /\ pc \in [Writers -> PCs] /\ 1 \in Nat /\ 1 > 0
  BY DEF TypeOK, TypeWriters
<1>2. Notify(1, waiting, pc, notified)
  BY DEF update
<1>3. permit' \/ Awake'
  BY <1>1, <1>2, NotifyWakes
<1>4. PermitMeansNobodyWaits'
  BY <1>1, <1>2, NotifyPermit DEF WakeInv, PermitMeansNobodyWaits
<1>5. BytesLeft'
  <2>1. \A w \in Writers :
           /\ taken'[w] <= Length[w]
           /\ pc[w] \in {"idle", "lock", "saw0", "parked"} => taken'[w] < Length[w]
    BY DEF WakeInv, BytesLeft
  <2> QED
    BY <1>1, <1>2, <2>1, NotifyBytes
<1> QED
  BY <1>3, <1>4, <1>5 DEF WakeInv, WindowIsAnnounced

LEMMA WriterWakes ==
  ASSUME TypeOK, WakeInv, NEW w \in Writers,
         \/ send_data(w) \/ poll_writable(w) \/ PollNotification(w)
         \/ PolledAgain(w) \/ handle_write_result(w) \/ BrokenPipe(w)
  PROVE  WakeInv'
<1> USE FlowAssumption
<1>1. /\ pc \in [Writers -> PCs] /\ taken \in [Writers -> Nat] /\ windowRef \in Nat
      /\ waiting \in Seq(Writers) /\ notified \in SUBSET Writers
      /\ Length \in [Writers -> Nat \ {0}]
  BY DEF TypeOK, TypeWriters
<1>2. \A v \in Writers :
        /\ taken[v] <= Length[v]
        /\ pc[v] \in {"idle", "lock", "saw0", "parked"} => taken[v] < Length[v]
  BY DEF WakeInv, BytesLeft
<1>3. ASSUME pc' = [pc EXCEPT ![w] = "lock"], taken[w] < Length[w], taken' = taken,
             permit' => waiting' = <<>>
      PROVE  WakeInv'
  <2>1. Awake'
    BY <1>1, <1>3 DEF Awake
  <2>2. BytesLeft'
    BY <1>1, <1>2, <1>3 DEF BytesLeft
  <2> QED
    BY <1>3, <2>1, <2>2 DEF WakeInv, WindowIsAnnounced, PermitMeansNobodyWaits
<1>4. CASE send_data(w) \/ PolledAgain(w)
  <2>1. /\ pc' = [pc EXCEPT ![w] = "lock"] /\ UNCHANGED <<taken, permit, waiting>>
        /\ pc[w] \in {"idle", "parked"}
    BY <1>4 DEF send_data, PolledAgain
  <2>2. permit' => waiting' = <<>>
    BY <2>1, Zenon DEF WakeInv, PermitMeansNobodyWaits
  <2> QED
    BY <1>2, <1>3, <2>1, <2>2
<1>5. CASE poll_writable(w)
  <2>1. pc[w] = "lock" /\ taken[w] < Length[w]
    BY <1>2, <1>5 DEF poll_writable
  <2>2. CASE Writable(w) > 0
    <3> DEFINE pcs == [pc EXCEPT ![w] = "send"]
    <3>1. /\ windowRef' = windowRef - Writable(w)
          /\ taken' = [taken EXCEPT ![w] = @ + Writable(w)]
          /\ Writable(w) \in Int /\ Writable(w) <= windowRef
          /\ Writable(w) <= Length[w] - taken[w]
      BY <1>5, <2>2, WritableProperties DEF poll_writable
    <3>2. pcs \in [Writers -> PCs]
      BY <1>1 DEF PCs
    <3>3. \A v \in Writers :
             /\ taken'[v] <= Length[v]
             /\ pcs[v] \in {"idle", "lock", "saw0", "parked"} => taken'[v] < Length[v]
      BY <1>1, <1>2, <3>1
    <3>4. CASE windowRef' > 0
      <4>1. Notify(1, waiting, pcs, notified)
        BY <1>5, <2>2, <3>4 DEF poll_writable
      <4> HIDE DEF pcs
      <4>2. BytesLeft'
        BY <3>2, <3>3, <4>1, NotifyBytes
      <4>3. permit' \/ Awake'
        <5>1. 1 \in Nat /\ 1 > 0
          OBVIOUS
        <5> QED
          BY <1>1, <4>1, <5>1, NotifyWakes
      <4>4. PermitMeansNobodyWaits'
        <5>1. 1 \in Nat /\ (permit => waiting = <<>>)
          BY DEF WakeInv, PermitMeansNobodyWaits
        <5> QED
          BY <1>1, <4>1, <5>1, NotifyPermit
      <4> QED
        BY <4>2, <4>3, <4>4 DEF WakeInv, WindowIsAnnounced
    <3>5. CASE ~(windowRef' > 0)
      <4>1. pc' = pcs /\ UNCHANGED <<permit, waiting, notified>>
        BY <1>5, <2>2, <3>5 DEF poll_writable
      <4>2. BytesLeft'
        BY <3>3, <4>1 DEF BytesLeft
      <4>3. PermitMeansNobodyWaits'
        BY <4>1 DEF WakeInv, PermitMeansNobodyWaits
      <4> QED
        BY <3>5, <4>2, <4>3 DEF WakeInv, WindowIsAnnounced
    <3> QED
      BY <3>4, <3>5
  <2>3. CASE ~(Writable(w) > 0)
    <3>1. /\ pc' = [pc EXCEPT ![w] = "saw0"]
          /\ UNCHANGED <<taken, windowRef, permit, waiting, notified>>
      BY <1>5, <2>3 DEF poll_writable
    <3>2. ~(windowRef' > 0)
      BY <2>1, <2>3, <3>1, WritableProperties
    <3>3. BytesLeft'
      BY <1>1, <1>2, <2>1, <3>1 DEF BytesLeft
    <3>4. PermitMeansNobodyWaits'
      BY <3>1 DEF WakeInv, PermitMeansNobodyWaits
    <3> QED
      BY <3>2, <3>3, <3>4 DEF WakeInv, WindowIsAnnounced
  <2> QED
    BY <2>2, <2>3
<1>6. CASE PollNotification(w)
  <2>1. pc[w] = "saw0" /\ taken[w] < Length[w] /\ UNCHANGED <<taken, windowRef>>
    BY <1>2, <1>6 DEF PollNotification
  <2>2. CASE pc' = [pc EXCEPT ![w] = "lock"] /\ waiting' = waiting /\ (permit' = permit \/ ~permit')
    <3>1. permit' => waiting' = <<>>
      BY <2>2, Zenon DEF WakeInv, PermitMeansNobodyWaits
    <3> QED
      BY <1>3, <2>1, <2>2, <3>1
  <2>3. CASE /\ pc' = [pc EXCEPT ![w] = "parked"] /\ ~permit' /\ ~permit
             /\ notified' = notified
    <3>1. BytesLeft'
      BY <1>1, <1>2, <2>1, <2>3 DEF BytesLeft
    <3>2. windowRef > 0 => Awake
      BY <2>1, <2>3, Zenon DEF WakeInv, WindowIsAnnounced
    <3>3. Awake => Awake'
      BY <1>1, <2>1, <2>3 DEF Awake
    <3> QED
      BY <2>1, <2>3, <3>1, <3>2, <3>3
         DEF WakeInv, WindowIsAnnounced, PermitMeansNobodyWaits
  <2>4. \/ pc' = [pc EXCEPT ![w] = "lock"] /\ waiting' = waiting /\ (permit' = permit \/ ~permit')
        \/ /\ pc' = [pc EXCEPT ![w] = "parked"] /\ ~permit' /\ ~permit
           /\ notified' = notified
    <3>1. (\E i \in DOMAIN waiting : waiting[i] = w) => waiting # <<>>
      OBVIOUS
    <3>2. waiting # <<>> => ~permit
      BY Zenon DEF WakeInv, PermitMeansNobodyWaits
    <3> QED
      BY <1>6, <3>1, <3>2, Zenon DEF PollNotification
  <2> QED
    BY <2>2, <2>3, <2>4
<1>7. CASE handle_write_result(w)
  <2>1. CASE taken[w] = Length[w]
    <3> DEFINE pcs == [pc EXCEPT ![w] = "done"]
    <3>1. Dropped(w, pcs) /\ taken' = taken
      BY <1>7, <2>1 DEF handle_write_result
    <3>2. pcs \in [Writers -> PCs]
      BY <1>1 DEF PCs
    <3>3. \A v \in Writers :
             /\ taken'[v] <= Length[v]
             /\ pcs[v] \in {"idle", "lock", "saw0", "parked"} => taken'[v] < Length[v]
      BY <1>1, <1>2, <3>1
    <3> HIDE DEF pcs
    <3>4. BytesLeft'
      BY <3>1, <3>2, <3>3, NotifyBytes DEF Dropped
    <3>5. (permit' \/ Awake') /\ PermitMeansNobodyWaits'
      BY <3>1, <3>2, DroppedWakes
    <3> QED
      BY <3>4, <3>5 DEF WakeInv, WindowIsAnnounced
  <2>2. CASE taken[w] # Length[w]
    <3>1. /\ pc' = [pc EXCEPT ![w] = "lock"]
          /\ UNCHANGED <<taken, permit, waiting, notified>>
      BY <1>7, <2>2 DEF handle_write_result
    <3>2. taken[w] < Length[w]
      BY <1>1, <1>2, <2>2
    <3>3. permit' => waiting' = <<>>
      BY <3>1, Zenon DEF WakeInv, PermitMeansNobodyWaits
    <3> QED
      BY <1>3, <3>1, <3>2, <3>3
  <2> QED
    BY <2>1, <2>2
<1>8. CASE BrokenPipe(w)
  <2> DEFINE pcs == [pc EXCEPT ![w] = "broken"]
  <2>1. Dropped(w, pcs) /\ taken' = taken
    BY <1>8 DEF BrokenPipe
  <2>2. pcs \in [Writers -> PCs]
    BY <1>1 DEF PCs
  <2>3. \A v \in Writers :
           /\ taken'[v] <= Length[v]
           /\ pcs[v] \in {"idle", "lock", "saw0", "parked"} => taken'[v] < Length[v]
    BY <1>1, <1>2, <2>1
  <2> HIDE DEF pcs
  <2>4. BytesLeft'
    BY <2>1, <2>2, <2>3, NotifyBytes DEF Dropped
  <2>5. (permit' \/ Awake') /\ PermitMeansNobodyWaits'
    BY <2>1, <2>2, DroppedWakes
  <2> QED
    BY <2>4, <2>5 DEF WakeInv, WindowIsAnnounced
<1> QED
  BY <1>4, <1>5, <1>6, <1>7, <1>8

LEMMA WakeStep ==
  ASSUME TypeOK, WakeInv, [Next]_vars
  PROVE  WakeInv'
<1>1. CASE UNCHANGED <<pc, taken, windowRef, permit, waiting, notified>>
  BY <1>1 DEF WakeInv, PermitMeansNobodyWaits, BytesLeft, WindowIsAnnounced, Awake
<1>2. CASE wait_channel_confirmation
  BY <1>2, UpdateWakes DEF wait_channel_confirmation
<1>3. CASE \E amount \in Amounts : ChannelWindowAdjust(amount)
  <2>1. \/ update(rwin') /\ taken' = taken
        \/ UNCHANGED <<pc, taken, windowRef, permit, waiting, notified>>
    BY <1>3, Zenon DEF ChannelWindowAdjust, writerVars
  <2> QED
    BY <1>1, <2>1, UpdateWakes
<1>4. CASE \E w \in Writers : \/ send_data(w) \/ poll_writable(w) \/ PollNotification(w)
                              \/ PolledAgain(w) \/ handle_write_result(w) \/ BrokenPipe(w)
  BY <1>4, WriterWakes
<1>5. CASE \/ ChannelOpenConfirmation \/ ChannelOpenFailure
           \/ \E kind \in Ends : send_msg(kind)
           \/ handle_msg \/ ChannelClose \/ begin_rekey \/ RekeyDone \/ SessionEnds
           \/ UNCHANGED vars
  <2>1. UNCHANGED writerVars
    BY <1>5, Zenon DEF ChannelOpenConfirmation, ChannelOpenFailure, send_msg, handle_msg,
                ChannelClose, begin_rekey, RekeyDone, SessionEnds, vars
  <2> QED
    BY <1>1, <2>1 DEF writerVars
<1> QED
  BY <1>2, <1>3, <1>4, <1>5 DEF Next

(* No wake-up is lost, for any number of writers: window that is left while  *)
(* a writer is registered always has somebody on the way to take it or to    *)
(* pass the notification on (poll_writable, update and Drop of ChannelTx).   *)
THEOREM WakeupNeverLost == Spec => []NoLostWakeup
<1>1. Init => WakeInv
  BY FlowAssumption DEF Init, WakeInv, PermitMeansNobodyWaits, BytesLeft, WindowIsAnnounced
<1>2. TypeOK /\ WakeInv /\ [Next]_vars => WakeInv'
  BY WakeStep
<1>3. WakeInv => NoLostWakeup
  BY Zenon DEF WakeInv, WindowIsAnnounced, PermitMeansNobodyWaits, NoLostWakeup, Awake
<1> QED
  BY <1>1, <1>2, <1>3, TypeCorrect, PTL DEF Spec

-----------------------------------------------------------------------------
(* What the session has accepted, and its ends *)

(* The data the session has accepted for the channel: sent, or pending. *)
Accepted == wire \o pending

(* A sequence that is cut in two is both parts together. *)
LEMMA CutJoined ==
  ASSUME NEW S, NEW s \in Seq(S), NEW win \in Nat
  PROVE  LET n == Least(win, Len(s)) IN
         SubSeq(s, 1, n) \o SubSeq(s, n + 1, Len(s)) = s
<1> DEFINE n == Least(win, Len(s))
<1>1. Len(s) \in Nat
  BY LenProperties
<1>2. n \in Nat /\ n <= Len(s)
  BY <1>1 DEF Least
<1> HIDE DEF n
<1>3. 1 \in 1..(Len(s) + 1) /\ n \in (1 - 1)..Len(s) /\ Len(s) \in n..Len(s)
  BY <1>1, <1>2
<1>4. SubSeq(s, 1, n) \o SubSeq(s, n + 1, Len(s)) = SubSeq(s, 1, Len(s))
  BY <1>3, ConcatAdjacentSubSeq
<1>5. SubSeq(s, 1, Len(s)) = s
  BY SubSeqFull
<1> QED
  BY <1>4, <1>5 DEF n

(* data() appends the message to what was accepted, whether it is sent or    *)
(* queued: it can pass the pending data only when there is none.             *)
LEMMA DataAccepts ==
  ASSUME TypeOK, PendingMeansNoWindow, NEW buf \in Seq(Byte), NEW rekeying \in BOOLEAN,
         data(buf, rekeying)
  PROVE  Accepted' = Accepted \o buf
<1>1. /\ rwin \in Nat /\ pending \in Seq(Byte) /\ wire \in Seq(Byte) /\ Len(buf) \in Nat
  BY FlowAssumption, LenProperties DEF TypeOK, TypeSession
<1>2. CASE pending # <<>> /\ rekeying
  <2>1. pending' = pending \o buf /\ wire' = wire
    BY <1>2 DEF data
  <2>2. (wire \o pending) \o buf = wire \o (pending \o buf)
    BY <1>1, ConcatAssociative
  <2>3. Accepted' = wire' \o pending'
    BY DEF Accepted
  <2> QED
    BY <2>1, <2>2, <2>3 DEF Accepted
<1>3. CASE ~(pending # <<>> /\ rekeying)
  <2> DEFINE n == Least(rwin, Len(buf))
             head == SubSeq(buf, 1, n)
             rest == SubSeq(buf, n + 1, Len(buf))
  <2>1. wire' = wire \o head /\ pending' = pending \o rest
    BY <1>3, Zenon DEF data
  <2>2. head \in Seq(Byte) /\ rest \in Seq(Byte) /\ Len(head) = n
    BY <1>1, CutProperties
  <2>3. head \o rest = buf
    BY <1>1, CutJoined
  <2>4. pending # <<>> => n = 0
    BY <1>1 DEF PendingMeansNoWindow, Least
  <2>5. Accepted' = wire' \o pending'
    BY DEF Accepted
  <2> HIDE DEF n, head, rest
  <2>6. CASE pending = <<>>
    <3>1. pending' = rest /\ Accepted = wire
      BY <1>1, <2>1, <2>2, <2>6, ConcatEmptySeq DEF Accepted
    <3>2. (wire \o head) \o rest = wire \o (head \o rest)
      <4>1. wire \in Seq(Byte) /\ head \in Seq(Byte) /\ rest \in Seq(Byte)
        BY <1>1, <2>2
      <4> QED
        BY <4>1, ConcatAssociative, SMTT(60)
    <3> QED
      BY <2>1, <2>3, <2>5, <3>1, <3>2
  <2>7. CASE pending # <<>>
    <3>1. head = <<>>
      BY <2>2, <2>4, <2>7, EmptySeq
    <3>2. rest = buf /\ wire' = wire
      BY <1>1, <2>1, <2>2, <2>3, <3>1, ConcatEmptySeq
    <3>3. (wire \o pending) \o buf = wire \o (pending \o buf)
      BY <1>1, ConcatAssociative
    <3> QED
      BY <2>1, <2>5, <3>2, <3>3 DEF Accepted
  <2> QED
    BY <2>6, <2>7
<1> QED
  BY <1>2, <1>3

(* flush_channel only moves data from the pending queue to the wire. *)
LEMMA FlushAccepts ==
  ASSUME TypeOK, NEW win \in Nat, flush_channel(win)
  PROVE  Accepted' = Accepted
<1>1. pending \in Seq(Byte) /\ wire \in Seq(Byte)
  BY DEF TypeOK, TypeSession
<1> DEFINE n == Least(win, Len(pending))
           head == SubSeq(pending, 1, n)
           rest == SubSeq(pending, n + 1, Len(pending))
<1>2. wire' = wire \o head /\ pending' = rest
  BY Zenon DEF flush_channel
<1>3. head \in Seq(Byte) /\ rest \in Seq(Byte)
  BY <1>1, CutProperties
<1>4. head \o rest = pending
  BY <1>1, CutJoined
<1> HIDE DEF n, head, rest
<1>5. (wire \o head) \o rest = wire \o (head \o rest)
  BY <1>1, <1>3, ConcatAssociative, SMTT(60)
<1>6. Accepted' = wire' \o pending'
  BY DEF Accepted
<1> QED
  BY <1>2, <1>4, <1>5, <1>6 DEF Accepted

(* A step leaves the accepted data as it is, or it is the session task       *)
(* accepting the message at the head of the queue.                           *)
LEMMA AcceptedStep ==
  ASSUME TypeOK, PendingMeansNoWindow, [Next]_vars
  PROVE  \/ Accepted' = Accepted
         \/ /\ handle_msg /\ chan = "open" /\ Head(queue).kind = "data"
            /\ Head(queue).buf \in Seq(Byte)
            /\ Accepted' = Accepted \o Head(queue).buf
<1>1. rwin \in Nat /\ MaxU32 \in Nat /\ rwin \in 0..MaxU32
  BY FlowAssumption DEF TypeOK, TypeSession
<1>2. CASE handle_msg
  <2>1. CASE UNCHANGED <<wire, pending>>
    BY <2>1 DEF Accepted
  <2>2. CASE chan = "open" /\ Head(queue).kind = "data" /\ data(Head(queue).buf, kex = "active")
    <3>1. queue # <<>>
      BY <1>2 DEF handle_msg
    <3>2. Head(queue) \in Messages
      BY <3>1, HeadTailProperties DEF TypeOK, TypeSession
    <3>3. Head(queue).buf \in Seq(Byte)
      BY <3>2 DEF Messages
    <3> QED
      BY <1>2, <2>2, <3>3, DataAccepts
  <2> QED
    BY <1>2, <2>1, <2>2 DEF handle_msg
<1>3. CASE \E amount \in Amounts : ChannelWindowAdjust(amount)
  <2>1. PICK amount \in Amounts : ChannelWindowAdjust(amount)
    BY <1>3
  <2> DEFINE win == Least(rwin + amount, MaxU32)
  <2>2. win \in Nat
    BY <1>1, FlowAssumption DEF Least
  <2>3. flush_channel(win) \/ UNCHANGED <<wire, pending>>
    BY <2>1 DEF ChannelWindowAdjust, sessVars
  <2> HIDE DEF win
  <2> QED
    BY <2>2, <2>3, FlushAccepts DEF Accepted
<1>4. CASE RekeyDone
  <2>1. flush_channel(rwin) \/ UNCHANGED <<wire, pending>>
    BY <1>4 DEF RekeyDone
  <2> QED
    BY <1>1, <2>1, FlushAccepts DEF Accepted
<1>5. CASE \/ ChannelOpenConfirmation \/ ChannelOpenFailure \/ ChannelClose
           \/ wait_channel_confirmation
           \/ \E kind \in Ends : send_msg(kind)
           \/ \E w \in Writers : \/ send_data(w) \/ poll_writable(w) \/ PollNotification(w)
                                 \/ PolledAgain(w) \/ handle_write_result(w) \/ BrokenPipe(w)
           \/ begin_rekey \/ SessionEnds \/ UNCHANGED vars
  <2>1. UNCHANGED <<wire, pending>>
    BY <1>5 DEF ChannelOpenConfirmation, ChannelOpenFailure, ChannelClose,
                wait_channel_confirmation, send_msg, send_data, poll_writable, PollNotification,
                PolledAgain, handle_write_result, BrokenPipe, begin_rekey, SessionEnds, vars,
                sessVars, wireVars
  <2> QED
    BY <2>1 DEF Accepted
<1> QED
  BY <1>2, <1>3, <1>4, <1>5 DEF Next

(* The application's end-of-file is sent to the session task once: while it  *)
(* is in the queue, none was handled and no other one is behind it.          *)
EofOnce ==
  /\ "eof" \notin asked => eofAt = <<>> /\ ~pendingEof
  /\ \A i \in 1..Len(queue) : queue[i].kind = "eof" =>
       /\ "eof" \in asked /\ eofAt = <<>> /\ ~pendingEof
       /\ \A j \in 1..Len(queue) : queue[j].kind = "eof" => i = j

LEMMA EofOnceStep ==
  ASSUME TypeOK, EofOnce, [Next]_vars
  PROVE  EofOnce'
<1>1. queue \in Seq(Messages) /\ Len(queue) \in Nat
  BY LenProperties DEF TypeOK, TypeSession
<1>2. CASE UNCHANGED <<asked, queue, eofAt, pendingEof>>
  BY <1>2 DEF EofOnce
<1>3. ASSUME NEW m \in Messages, queue' = Append(queue, m), UNCHANGED <<eofAt, pendingEof>>,
             \/ m.kind # "eof" /\ asked' = asked
             \/ m.kind = "eof" /\ "eof" \notin asked /\ asked' = asked \cup {"eof"}
             \/ m.kind # "eof" /\ asked' = asked \cup {"close"}
      PROVE  EofOnce'
  <2>1. /\ Len(queue') = Len(queue) + 1 /\ queue'[Len(queue) + 1] = m
        /\ \A i \in 1..Len(queue) : queue'[i] = queue[i]
    BY <1>1, <1>3, AppendProperties
  <2>2. \A i \in 1..Len(queue') : i \in 1..Len(queue) \/ i = Len(queue) + 1
    BY <1>1, <2>1
  <2>3. m.kind = "eof" => \A i \in 1..Len(queue) : queue[i].kind # "eof"
    BY <1>3 DEF EofOnce
  <2> QED
    BY <1>3, <2>1, <2>2, <2>3 DEF EofOnce
<1>4. CASE handle_msg
  <2>1. queue # <<>> /\ queue' = Tail(queue) /\ asked' = asked
    BY <1>4 DEF handle_msg
  <2>2. /\ Len(queue') = Len(queue) - 1 /\ Len(queue) > 0
        /\ \A i \in 1..Len(queue') : queue'[i] = queue[i + 1]
    BY <1>1, <2>1, HeadTailProperties, EmptySeq
  <2>3. Head(queue) = queue[1]
    BY <1>1, <2>1
  <2>4. \A i \in 1..Len(queue') : i + 1 \in 1..Len(queue) /\ i + 1 # 1
    BY <1>1, <2>2
  <2>5. \/ queue[1].kind = "eof"
        \/ UNCHANGED <<eofAt, pendingEof>>
    BY <1>4, <2>3 DEF handle_msg
  <2>6. 1 \in 1..Len(queue)
    BY <1>1, <2>2
  <2>7. CASE queue[1].kind = "eof"
    <3>1. "eof" \in asked
      BY <2>6, <2>7 DEF EofOnce
    <3>2. \A i \in 1..Len(queue') : queue'[i].kind # "eof"
      BY <2>2, <2>4, <2>6, <2>7 DEF EofOnce
    <3> QED
      BY <2>1, <3>1, <3>2 DEF EofOnce
  <2>8. CASE UNCHANGED <<eofAt, pendingEof>>
    <3>1. \A i \in 1..Len(queue') : queue'[i].kind = "eof" =>
            /\ "eof" \in asked' /\ eofAt' = <<>> /\ ~pendingEof'
            /\ \A j \in 1..Len(queue') : queue'[j].kind = "eof" => i = j
      <4> SUFFICES ASSUME NEW i \in 1..Len(queue'), queue'[i].kind = "eof"
                   PROVE  /\ "eof" \in asked' /\ eofAt' = <<>> /\ ~pendingEof'
                          /\ \A j \in 1..Len(queue') : queue'[j].kind = "eof" => i = j
        OBVIOUS
      <4>1. i + 1 \in 1..Len(queue) /\ queue[i + 1].kind = "eof"
        BY <2>2, <2>4
      <4>2. \A j \in 1..Len(queue') : queue'[j].kind = "eof" => i + 1 = j + 1
        BY <2>2, <2>4, <4>1 DEF EofOnce
      <4>3. \A j \in 1..Len(queue') : queue'[j].kind = "eof" => i = j
        BY <1>1, <2>2, <4>2
      <4> QED
        BY <2>1, <2>8, <4>1, <4>3 DEF EofOnce
    <3> QED
      BY <2>1, <2>8, <3>1 DEF EofOnce
  <2> QED
    BY <2>5, <2>7, <2>8
<1>5. CASE \E kind \in Ends : send_msg(kind)
  <2>1. PICK kind \in Ends : send_msg(kind)
    BY <1>5
  <2>2. /\ kind \in Ends \ asked /\ asked' = asked \cup {kind}
        /\ queue' = Append(queue, [kind |-> kind, buf |-> <<>>])
        /\ UNCHANGED <<eofAt, pendingEof>>
    BY <2>1 DEF send_msg, sessVars, wireVars
  <2>3. kind \in {"eof", "close"} /\ <<>> \in Seq(Byte)
    BY FlowAssumption, EmptySeq
  <2>4. [kind |-> kind, buf |-> <<>>] \in Messages
    BY <2>3 DEF Messages
  <2> QED
    BY <1>3, <2>2, <2>3, <2>4
<1>6. CASE \E w \in Writers : handle_write_result(w)
  <2>1. PICK w \in Writers : handle_write_result(w)
    BY <1>6
  <2>2. /\ queue' = Append(queue, [kind |-> "data", buf |-> hand[w]])
        /\ UNCHANGED <<asked, eofAt, pendingEof>>
    BY <2>1 DEF handle_write_result, sessVars, wireVars
  <2>3. [kind |-> "data", buf |-> hand[w]] \in Messages
    BY DEF Messages, TypeOK, TypeWriters
  <2> QED
    BY <1>3, <2>2, <2>3
<1>7. CASE \E amount \in Amounts : ChannelWindowAdjust(amount)
  <2>1. UNCHANGED <<asked, queue, pendingEof>> /\ (eofAt' = eofAt \/ pendingEof)
    BY <1>7 DEF ChannelWindowAdjust, handle_flushed_channel, sessVars
  <2> QED
    BY <2>1 DEF EofOnce
<1>8. CASE \/ ChannelOpenConfirmation \/ ChannelOpenFailure \/ ChannelClose
           \/ wait_channel_confirmation
           \/ \E w \in Writers : \/ send_data(w) \/ poll_writable(w) \/ PollNotification(w)
                                 \/ PolledAgain(w) \/ BrokenPipe(w)
           \/ begin_rekey \/ RekeyDone \/ SessionEnds \/ UNCHANGED vars
  <2>1. UNCHANGED <<asked, queue, eofAt, pendingEof>>
    BY <1>8 DEF ChannelOpenConfirmation, ChannelOpenFailure, ChannelClose,
                wait_channel_confirmation, send_data, poll_writable, PollNotification,
                PolledAgain, BrokenPipe, begin_rekey, RekeyDone, SessionEnds, vars,
                sessVars, wireVars
  <2> QED
    BY <1>2, <2>1
<1> QED
  BY <1>4, <1>5, <1>6, <1>7, <1>8 DEF Next

(* EndsAfterData with what it rests on: what an end waits for was accepted,  *)
(* and a channel that is closed has nothing pending and takes nothing more.  *)
EndInv ==
  /\ eofNeeds <= Len(Accepted) /\ closeNeeds <= Len(Accepted)
  /\ \A i \in 1..Len(eofAt) : eofAt[i] >= eofNeeds
  /\ closed => pending = <<>> /\ chan = "gone"

(* With nothing pending, all accepted data is on the wire. *)
LEMMA AcceptedLength ==
  ASSUME NEW w \in Seq(Byte), NEW p \in Seq(Byte)
  PROVE  /\ Len(w) \in Nat /\ Len(p) \in Nat /\ Len(w \o p) = Len(w) + Len(p)
         /\ p = <<>> => Len(w \o p) = Len(w)
<1>1. Len(w) \in Nat /\ Len(p) \in Nat /\ Len(w \o p) = Len(w) + Len(p)
  BY LenProperties, ConcatProperties
<1>2. p = <<>> => Len(p) = 0
  BY EmptySeq
<1> QED
  BY <1>1, <1>2

(* An end-of-file that is sent now comes after all that was accepted. *)
LEMMA EofAppended ==
  ASSUME NEW s \in Seq(Nat), NEW at \in Nat, NEW needs \in Nat, needs <= at,
         \A i \in 1..Len(s) : s[i] >= needs
  PROVE  \A i \in 1..Len(Append(s, at)) : Append(s, at)[i] >= needs
<1>1. /\ Len(Append(s, at)) = Len(s) + 1 /\ Append(s, at)[Len(s) + 1] = at
      /\ \A i \in 1..Len(s) : Append(s, at)[i] = s[i]
  BY AppendProperties
<1>2. Len(s) \in Nat
  BY LenProperties
<1>3. \A i \in 1..(Len(s) + 1) : i \in 1..Len(s) \/ i = Len(s) + 1
  BY <1>2
<1> QED
  BY <1>1, <1>3

LEMMA EndStep ==
  ASSUME TypeOK, TypeOK', PendingMeansNoWindow, EofOnce, EndInv, [Next]_vars
  PROVE  EndInv'
<1>1. /\ wire \in Seq(Byte) /\ pending \in Seq(Byte) /\ eofAt \in Seq(Nat)
      /\ wire' \in Seq(Byte) /\ pending' \in Seq(Byte)
      /\ eofNeeds \in Nat /\ closeNeeds \in Nat
  BY DEF TypeOK, TypeSession
<1>2. /\ Len(wire) \in Nat /\ Len(pending) \in Nat
      /\ Len(Accepted) = Len(wire) + Len(pending)
      /\ pending = <<>> => Len(Accepted) = Len(wire)
  BY <1>1, AcceptedLength DEF Accepted
<1>3. /\ Len(wire') \in Nat /\ Len(pending') \in Nat
      /\ Len(Accepted') = Len(wire') + Len(pending')
      /\ pending' = <<>> => Len(Accepted') = Len(wire')
  BY <1>1, AcceptedLength DEF Accepted
<1>4. Len(Accepted) <= Len(Accepted')
  <2>1. CASE Accepted' = Accepted
    BY <1>2, <2>1
  <2>2. CASE Head(queue).buf \in Seq(Byte) /\ Accepted' = Accepted \o Head(queue).buf
    <3>1. Accepted \in Seq(Byte)
      BY <1>1, ConcatProperties DEF Accepted
    <3>2. PICK b \in Seq(Byte) : Accepted' = Accepted \o b
      BY <2>2
    <3>3. Len(Accepted \o b) = Len(Accepted) + Len(b) /\ Len(b) \in Nat
      BY <3>1, AcceptedLength
    <3> QED
      BY <1>2, <3>2, <3>3
  <2> QED
    BY <2>1, <2>2, AcceptedStep
<1>5. /\ eofNeeds <= Len(Accepted) /\ closeNeeds <= Len(Accepted)
      /\ \A i \in 1..Len(eofAt) : eofAt[i] >= eofNeeds
      /\ closed => pending = <<>> /\ chan = "gone"
  BY DEF EndInv
<1>6. eofNeeds <= Len(Accepted') /\ closeNeeds <= Len(Accepted')
  BY <1>1, <1>2, <1>3, <1>4, <1>5
<1>7. CASE handle_msg
  <2>1. CASE /\ chan = "open" /\ Head(queue).kind = "data"
             /\ UNCHANGED <<chan, eofAt, closed, eofNeeds, closeNeeds>>
    BY <1>5, <1>6, <2>1 DEF EndInv
  <2>2. CASE /\ chan = "open" /\ Head(queue).kind = "eof" /\ eof
             /\ eofNeeds' = Len(wire) + Len(pending)
             /\ UNCHANGED <<chan, pending, wire, closed, closeNeeds>>
    <3>1. eofAt = <<>>
      <4>1. queue # <<>> /\ queue \in Seq(Messages)
        BY <1>7 DEF handle_msg, TypeOK, TypeSession
      <4>2. 1 \in 1..Len(queue) /\ Head(queue) = queue[1]
        BY <4>1, EmptySeq
      <4> QED
        BY <2>2, <4>2 DEF EofOnce
    <3>2. eofNeeds' = Len(Accepted') /\ eofNeeds' \in Nat
      BY <1>2, <1>3, <2>2
    <3>3. \A i \in 1..Len(eofAt) : eofAt[i] >= eofNeeds'
      BY <3>1
    <3>4. \A i \in 1..Len(eofAt') : eofAt'[i] >= eofNeeds'
      <4>1. CASE pending # <<>>
        BY <2>2, <3>3, <4>1 DEF eof
      <4>2. CASE pending = <<>>
        <5>1. eofAt' = Append(eofAt, Len(wire))
          BY <2>2, <4>2 DEF eof
        <5>2. eofNeeds' <= Len(wire)
          BY <1>2, <2>2, <4>2
        <5> QED
          BY <1>1, <1>2, <3>2, <3>3, <5>1, <5>2, EofAppended
      <4> QED
        BY <4>1, <4>2
    <3>5. eofNeeds' <= Len(Accepted')
      BY <3>2
    <3> QED
      BY <1>5, <1>6, <2>2, <3>4, <3>5 DEF EndInv
  <2>3. CASE /\ chan = "open" /\ close
             /\ closeNeeds' = Len(wire) + Len(pending)
             /\ UNCHANGED <<pending, wire, eofAt, eofNeeds>>
    <3>1. closeNeeds' <= Len(Accepted')
      BY <1>2, <1>3, <2>3
    <3>2. closed' => pending' = <<>> /\ chan' = "gone"
      BY <1>5, <2>3 DEF close
    <3> QED
      BY <1>5, <1>6, <2>3, <3>1, <3>2 DEF EndInv
  <2>4. CASE UNCHANGED <<chan, pending, eofAt, closed, eofNeeds, closeNeeds>>
    BY <1>5, <1>6, <2>4 DEF EndInv
  <2> QED
    BY <1>7, <2>1, <2>2, <2>3, <2>4 DEF handle_msg
<1>8. CASE \E amount \in Amounts : ChannelWindowAdjust(amount)
  <2>1. PICK amount \in Amounts : ChannelWindowAdjust(amount)
    BY <1>8
  <2>2. UNCHANGED <<eofNeeds, closeNeeds>> /\ chan = "open" /\ ~closed
    BY <1>5, <2>1 DEF ChannelWindowAdjust
  <2>3. CASE UNCHANGED <<sessVars, eofAt, closed>>
    BY <1>5, <1>6, <2>2, <2>3 DEF EndInv, sessVars
  <2>4. CASE handle_flushed_channel
    <3>1. closed' => pending' = <<>> /\ chan' = "gone"
      BY <2>2, <2>4 DEF handle_flushed_channel
    <3>2. eofAt' = eofAt \/ (pending' = <<>> /\ eofAt' = Append(eofAt, Len(wire')))
      BY <2>4, Zenon DEF handle_flushed_channel
    <3>3. \A i \in 1..Len(eofAt') : eofAt'[i] >= eofNeeds
      <4>1. CASE eofAt' = eofAt
        BY <1>5, <4>1
      <4>2. CASE pending' = <<>> /\ eofAt' = Append(eofAt, Len(wire'))
        <5>1. eofNeeds <= Len(wire')
          BY <1>3, <1>6, <4>2
        <5> QED
          BY <1>1, <1>3, <1>5, <4>2, <5>1, EofAppended
      <4> QED
        BY <3>2, <4>1, <4>2
    <3> QED
      BY <1>6, <2>2, <3>1, <3>3 DEF EndInv
  <2> QED
    BY <2>1, <2>3, <2>4 DEF ChannelWindowAdjust
<1>9. CASE ChannelClose
  <2>1. UNCHANGED <<pending, eofAt, eofNeeds, closeNeeds>>
    BY <1>9 DEF ChannelClose
  <2>2. closed' => pending' = <<>> /\ chan' = "gone"
    BY <1>5, <1>9, <2>1 DEF ChannelClose, close
  <2> QED
    BY <1>5, <1>6, <2>1, <2>2 DEF EndInv
<1>10. CASE RekeyDone
  <2>1. UNCHANGED <<chan, eofAt, closed, eofNeeds, closeNeeds>>
    BY <1>10 DEF RekeyDone
  <2>2. closed' => pending' = <<>> /\ chan' = "gone"
    BY <1>5, <1>10 DEF RekeyDone
  <2> QED
    BY <1>5, <1>6, <2>1, <2>2 DEF EndInv
<1>11. CASE \/ ChannelOpenConfirmation \/ ChannelOpenFailure
            \/ wait_channel_confirmation
            \/ \E kind \in Ends : send_msg(kind)
            \/ \E w \in Writers : \/ send_data(w) \/ poll_writable(w) \/ PollNotification(w)
                                  \/ PolledAgain(w) \/ handle_write_result(w) \/ BrokenPipe(w)
            \/ begin_rekey \/ SessionEnds \/ UNCHANGED vars
  <2>1. UNCHANGED <<pending, eofAt, closed, eofNeeds, closeNeeds>>
    BY <1>11 DEF ChannelOpenConfirmation, ChannelOpenFailure,
                wait_channel_confirmation, send_msg, send_data, poll_writable, PollNotification,
                PolledAgain, handle_write_result, BrokenPipe, begin_rekey, SessionEnds, vars,
                sessVars, wireVars
  <2>2. chan = "gone" => chan' = "gone"
    BY <1>11 DEF ChannelOpenConfirmation, ChannelOpenFailure,
                wait_channel_confirmation, send_msg, send_data, poll_writable, PollNotification,
                PolledAgain, handle_write_result, BrokenPipe, begin_rekey, SessionEnds, vars,
                sessVars
  <2> QED
    BY <1>5, <1>6, <2>1, <2>2 DEF EndInv
<1> QED
  BY <1>7, <1>8, <1>9, <1>10, <1>11 DEF Next

(* Whatever waits in pending_data, however often it is flushed and whoever   *)
(* closes first: CHANNEL_EOF and CHANNEL_CLOSE never go out before the data  *)
(* that the session had accepted when the application asked for them         *)
(* (Encrypted::eof, Encrypted::close and handle_flushed_channel).            *)
THEOREM EndsComeLast == Spec => []EndsAfterData
<1>1. Init => EofOnce
  BY EmptySeq DEF Init, EofOnce
<1>2. Init => EndInv
  <2> SUFFICES ASSUME Init PROVE EndInv
    OBVIOUS
  <2>1. Len(Accepted) \in Nat
    BY EmptySeq, ConcatProperties DEF Init, Accepted
  <2>2. Len(eofAt) = 0
    BY EmptySeq DEF Init
  <2> QED
    BY <2>1, <2>2 DEF Init, EndInv
<1>3. TypeOK /\ EofOnce /\ [Next]_vars => EofOnce'
  BY EofOnceStep
<1>4. TypeOK /\ TypeOK' /\ FlowInv /\ EofOnce /\ EndInv /\ [Next]_vars => EndInv'
  BY EndStep DEF FlowInv
<1>5. TypeOK /\ EndInv => EndsAfterData
  <2> SUFFICES ASSUME TypeOK, EndInv PROVE EndsAfterData
    OBVIOUS
  <2>1. pending = <<>> => Len(Accepted) = Len(wire)
    BY AcceptedLength DEF TypeOK, TypeSession, Accepted
  <2> QED
    BY <2>1 DEF EndInv, EndsAfterData
<1> QED
  BY <1>1, <1>2, <1>3, <1>4, <1>5, TypeCorrect, FlowInvariant, PTL DEF Spec

-----------------------------------------------------------------------------
(* The order of the bytes *)

(* n bytes of w from its byte a + 1 on, as poll_mk_msg puts them into a      *)
(* message.                                                                  *)
Run(w, a, n) == [k \in 1..n |-> <<w, a + k, k - 1>>]

(* InOrder of any sequence of bytes. *)
Ordered(s) ==
  \A j \in 1..Len(s) :
    /\ \A i \in 1..(j - 1) : s[i][1] = s[j][1] => s[i][2] < s[j][2]
    /\ s[j][2] # 1 => \E i \in 1..(j - 1) : s[i][1] = s[j][1] /\ s[i][2] + 1 = s[j][2]

(* The bytes of w in s end with its byte n; there are none when n is 0. *)
Top(s, w, n) ==
  /\ \A i \in 1..Len(s) : s[i][1] = w => s[i][2] <= n
  /\ n # 0 => \E i \in 1..Len(s) : s[i][1] = w /\ s[i][2] = n

LEMMA RunProperties ==
  ASSUME NEW w \in Writers, NEW a \in Nat, NEW n \in Nat
  PROVE  /\ Run(w, a, n) \in Seq(Byte) /\ Len(Run(w, a, n)) = n
         /\ \A k \in 1..n : Run(w, a, n)[k] = <<w, a + k, k - 1>>
<1>1. \A k \in 1..n : <<w, a + k, k - 1>> \in Byte
  BY DEF Byte
<1>2. Run(w, a, n) \in [1..n -> Byte]
  BY <1>1 DEF Run
<1>3. Run(w, a, n) \in Seq(Byte)
  BY <1>2, SeqDef
<1>4. DOMAIN Run(w, a, n) = 1..n /\ DOMAIN Run(w, a, n) = 1..Len(Run(w, a, n))
  BY <1>2, <1>3, LenProperties
<1>5. Len(Run(w, a, n)) = n
  BY <1>3, <1>4, LenProperties
<1> QED
  BY <1>3, <1>5 DEF Run

(* Bytes that stay in order, when the next run of one writer follows. *)
LEMMA RunAppended ==
  ASSUME NEW s \in Seq(Byte), NEW w \in Writers, NEW a \in Nat, NEW n \in Nat,
         Ordered(s), Top(s, w, a)
  PROVE  /\ Ordered(s \o Run(w, a, n))
         /\ Top(s \o Run(w, a, n), w, a + n)
         /\ \A v \in Writers, b \in Nat : v # w /\ Top(s, v, b) => Top(s \o Run(w, a, n), v, b)
<1> DEFINE r == Run(w, a, n)
<1>1. /\ r \in Seq(Byte) /\ Len(r) = n
      /\ \A k \in 1..n : r[k] = <<w, a + k, k - 1>>
  BY RunProperties
<1>2. Len(s) \in Nat /\ \A i \in 1..Len(s) : s[i] \in Byte
  BY LenProperties, ElementOfSeq
<1> HIDE DEF r
<1>3. PICK t \in Seq(Byte) : t = s \o r
  BY <1>1, ConcatProperties
<1>4. PICK m \in Nat : m = Len(s)
  BY <1>2
<1>5. /\ Len(t) = m + n
      /\ \A i \in 1..(m + n) : t[i] = IF i <= m THEN s[i] ELSE r[i - m]
  BY <1>1, <1>3, <1>4, ConcatProperties
<1>6. \A i \in 1..m : t[i] = s[i] /\ t[i][2] \in Nat
  <2>1. \A b \in Byte : b[2] \in Nat
    BY DEF Byte
  <2>2. \A i \in 1..m : i \in 1..(m + n) /\ i <= m
    OBVIOUS
  <2>3. \A i \in 1..m : t[i] = s[i]
    BY <1>5, <2>2
  <2> QED
    BY <1>2, <1>4, <2>1, <2>3
<1>7. \A k \in 1..n : m + k \in 1..(m + n) /\ t[m + k][1] = w /\ t[m + k][2] = a + k
  <2> SUFFICES ASSUME NEW k \in 1..n
               PROVE  m + k \in 1..(m + n) /\ t[m + k][1] = w /\ t[m + k][2] = a + k
    OBVIOUS
  <2>1. m + k \in 1..(m + n) /\ ~(m + k <= m) /\ (m + k) - m = k
    OBVIOUS
  <2>2. t[m + k] = r[k]
    BY <1>5, <2>1
  <2> QED
    BY <1>1, <2>1, <2>2
<1>8. \A i \in 1..(m + n) : i \in 1..m \/ \E k \in 1..n : i = m + k
  <2> SUFFICES ASSUME NEW i \in 1..(m + n), i \notin 1..m
               PROVE  \E k \in 1..n : i = m + k
    OBVIOUS
  <2>1. i - m \in 1..n /\ i = m + (i - m)
    OBVIOUS
  <2> QED
    BY <2>1
<1>9. /\ \A i \in 1..m : t[i][1] = w => t[i][2] <= a
      /\ a # 0 => \E i \in 1..m : t[i][1] = w /\ t[i][2] = a
  BY <1>4, <1>6 DEF Top
<1>10. Ordered(t)
  <2> SUFFICES ASSUME NEW j \in 1..(m + n)
               PROVE  /\ \A i \in 1..(j - 1) : t[i][1] = t[j][1] => t[i][2] < t[j][2]
                      /\ t[j][2] # 1 =>
                           \E i \in 1..(j - 1) : t[i][1] = t[j][1] /\ t[i][2] + 1 = t[j][2]
    BY <1>5 DEF Ordered
  <2>1. CASE j \in 1..m
    <3>1. \A i \in 1..(j - 1) : i \in 1..m
      BY <2>1
    <3> QED
      BY <1>4, <1>6, <2>1, <3>1, ZenonT(60) DEF Ordered
  <2>2. ASSUME NEW k \in 1..n, j = m + k
        PROVE  /\ \A i \in 1..(j - 1) : t[i][1] = t[j][1] => t[i][2] < t[j][2]
               /\ t[j][2] # 1 =>
                    \E i \in 1..(j - 1) : t[i][1] = t[j][1] /\ t[i][2] + 1 = t[j][2]
    <3>1. t[j][1] = w /\ t[j][2] = a + k
      BY <1>7, <2>2
    <3>2. ASSUME NEW i \in 1..(j - 1), t[i][1] = w
          PROVE  t[i][2] < a + k
      <4>1. CASE i \in 1..m
        BY <1>6, <1>9, <3>2, <4>1
      <4>2. ASSUME NEW l \in 1..n, i = m + l
            PROVE  t[i][2] < a + k
        <5>1. l < k
          BY <2>2, <4>2
        <5>2. t[i][2] = a + l
          BY <1>7, <4>2
        <5> QED
          BY <5>1, <5>2
      <4>3. i \in 1..(m + n)
        BY <2>2
      <4> QED
        BY <1>8, <4>1, <4>2, <4>3
    <3>3. ASSUME a + k # 1
          PROVE  \E i \in 1..(j - 1) : t[i][1] = w /\ t[i][2] + 1 = a + k
      <4>1. CASE k = 1
        <5>1. a # 0
          BY <3>3, <4>1
        <5>2. PICK i \in 1..m : t[i][1] = w /\ t[i][2] = a
          BY <1>9, <5>1
        <5>3. i \in 1..(j - 1)
          BY <2>2, <5>2
        <5> QED
          BY <4>1, <5>2, <5>3
      <4>2. CASE k # 1
        <5>1. k - 1 \in 1..n /\ m + (k - 1) \in 1..(j - 1)
          BY <2>2, <4>2
        <5>2. t[m + (k - 1)][1] = w /\ t[m + (k - 1)][2] = a + (k - 1)
          BY <1>7, <5>1
        <5> QED
          BY <5>1, <5>2
      <4> QED
        BY <4>1, <4>2
    <3> QED
      BY <3>1, <3>2, <3>3
  <2> QED
    BY <1>8, <2>1, <2>2
<1>11. Top(t, w, a + n)
  <2>1. \A i \in 1..(m + n) : t[i][1] = w => t[i][2] <= a + n
    <3> SUFFICES ASSUME NEW i \in 1..(m + n), t[i][1] = w PROVE t[i][2] <= a + n
      OBVIOUS
    <3>1. CASE i \in 1..m
      BY <1>6, <1>9, <3>1
    <3>2. CASE \E k \in 1..n : i = m + k
      <4>1. PICK k \in 1..n : i = m + k
        BY <3>2
      <4>2. t[i][2] = a + k
        BY <1>7, <4>1
      <4> QED
        BY <4>2
    <3> QED
      BY <1>8, <3>1, <3>2
  <2>2. a + n # 0 => \E i \in 1..(m + n) : t[i][1] = w /\ t[i][2] = a + n
    <3>1. CASE n = 0 /\ a # 0
      <4>1. PICK i \in 1..m : t[i][1] = w /\ t[i][2] = a
        BY <1>9, <3>1
      <4> QED
        BY <3>1, <4>1
    <3>2. CASE n # 0
      <4>1. n \in 1..n
        BY <3>2
      <4> QED
        BY <1>7, <4>1
    <3> QED
      BY <3>1, <3>2
  <2> QED
    BY <1>5, <2>1, <2>2 DEF Top
<1>12. ASSUME NEW v \in Writers, NEW b \in Nat, v # w, Top(s, v, b)
       PROVE  Top(t, v, b)
  <2>1. \A i \in 1..(m + n) : t[i][1] = v => i \in 1..m
    BY <1>7, <1>8, <1>12
  <2>2. \A i \in 1..(m + n) : t[i][1] = v => t[i][2] <= b
    BY <1>4, <1>6, <1>12, <2>1 DEF Top
  <2>3. b # 0 => \E i \in 1..(m + n) : t[i][1] = v /\ t[i][2] = b
    <3> SUFFICES ASSUME b # 0 PROVE \E i \in 1..(m + n) : t[i][1] = v /\ t[i][2] = b
      OBVIOUS
    <3>1. PICK i \in 1..m : s[i][1] = v /\ s[i][2] = b
      BY <1>4, <1>12 DEF Top
    <3>2. i \in 1..(m + n)
      OBVIOUS
    <3> QED
      BY <1>6, <3>1, <3>2
  <2> QED
    BY <1>5, <2>2, <2>3 DEF Top
<1> QED
  BY <1>3, <1>10, <1>11, <1>12 DEF r

(* How many of its bytes w has handed to the queue. *)
Sent(w) == taken[w] - Len(hand[w])

(* A writer's message, while it waits for room, is the run after those. *)
HandInv ==
  \A w \in Writers :
    /\ Sent(w) \in Nat
    /\ hand[w] = Run(w, Sent(w), Len(hand[w]))
    /\ pc[w] # "send" => hand[w] = <<>>

LEMMA EmptyRun ==
  ASSUME NEW w \in Writers, NEW a \in Nat
  PROVE  Run(w, a, 0) = <<>>
<1>1. Run(w, a, 0) \in Seq(Byte) /\ Len(Run(w, a, 0)) = 0
  BY RunProperties
<1> QED
  BY <1>1, EmptySeq

(* notify_one() moves parked writers and no others. *)
LEMMA NotifyMoves ==
  ASSUME NEW n, NEW q, NEW pcs, NEW nots, Notify(n, q, pcs, nots)
  PROVE  \A v \in Writers : pc'[v] = pcs[v] \/ (pcs[v] = "parked" /\ pc'[v] = "lock")
BY DEF Notify

(* A writer takes its next run under the lock. *)
LEMMA TakeStep ==
  ASSUME TypeOK, HandInv, NEW w \in Writers, poll_writable(w), Writable(w) > 0
  PROVE  HandInv' /\ \A v \in Writers : Sent(v)' = Sent(v)
<1>1. /\ pc \in [Writers -> PCs] /\ taken \in [Writers -> Nat]
      /\ hand \in [Writers -> Seq(Byte)]
  BY DEF TypeOK, TypeWriters
<1>2. PICK n \in Nat : n = Writable(w)
  BY WritableProperties
<1>3. /\ pc[w] = "lock"
      /\ taken' = [taken EXCEPT ![w] = @ + n]
      /\ hand' = [hand EXCEPT ![w] = Run(w, taken[w], n)]
  BY <1>2 DEF poll_writable, Run
<1>4. \A v \in Writers \ {w} : pc[v] = "send" => pc'[v] = "send"
  <2> DEFINE pcs == [pc EXCEPT ![w] = "send"]
  <2>1. pc' = pcs \/ Notify(1, waiting, pcs, notified)
    BY DEF poll_writable
  <2>2. \A v \in Writers \ {w} : pcs[v] = pc[v]
    BY <1>1
  <2> HIDE DEF pcs
  <2> QED
    BY <2>1, <2>2, NotifyMoves
<1>5. pc'[w] = "send"
  <2> DEFINE pcs == [pc EXCEPT ![w] = "send"]
  <2>1. pc' = pcs \/ Notify(1, waiting, pcs, notified)
    BY DEF poll_writable
  <2>2. pcs[w] = "send"
    BY <1>1
  <2> HIDE DEF pcs
  <2> QED
    BY <2>1, <2>2, NotifyMoves
<1>6. hand[w] = <<>> /\ Len(hand[w]) = 0 /\ taken[w] \in Nat
  BY <1>1, <1>3, EmptySeq DEF HandInv
<1>7. /\ hand'[w] = Run(w, taken[w], n) /\ Len(hand'[w]) = n
      /\ taken'[w] = taken[w] + n
  BY <1>1, <1>3, <1>6, RunProperties
<1>8. Sent(w) = taken[w] /\ Sent(w)' = taken[w]
  BY <1>6, <1>7 DEF Sent
<1>9. \A v \in Writers \ {w} : hand'[v] = hand[v] /\ taken'[v] = taken[v] /\ Sent(v)' = Sent(v)
  BY <1>1, <1>3 DEF Sent
<1>10. HandInv'
  <2> SUFFICES ASSUME NEW v \in Writers
               PROVE  /\ Sent(v)' \in Nat
                      /\ hand'[v] = Run(v, Sent(v)', Len(hand'[v]))
                      /\ pc'[v] # "send" => hand'[v] = <<>>
    BY DEF HandInv
  <2>1. CASE v = w
    BY <1>5, <1>6, <1>7, <1>8, <2>1
  <2>2. CASE v # w
    BY <1>4, <1>9, <2>2 DEF HandInv
  <2> QED
    BY <2>1, <2>2
<1> QED
  BY <1>8, <1>9, <1>10

(* A writer's message leaves it, into the queue or lost. *)
LEMMA GiveStep ==
  ASSUME TypeOK, HandInv, NEW w \in Writers, handle_write_result(w) \/ BrokenPipe(w)
  PROVE  /\ HandInv'
         /\ Sent(w)' = Sent(w) + Len(hand[w])
         /\ \A v \in Writers \ {w} : Sent(v)' = Sent(v)
<1>1. /\ pc \in [Writers -> PCs] /\ taken \in [Writers -> Nat]
      /\ hand \in [Writers -> Seq(Byte)]
  BY DEF TypeOK, TypeWriters
<1>2. taken' = taken /\ hand' = [hand EXCEPT ![w] = <<>>]
  BY DEF handle_write_result, BrokenPipe
<1>3. \A v \in Writers \ {w} : pc[v] = "send" => pc'[v] = "send"
  <2>1. \E x \in {"done", "broken", "lock"} :
          \/ pc' = [pc EXCEPT ![w] = x]
          \/ Dropped(w, [pc EXCEPT ![w] = x])
    BY DEF handle_write_result, BrokenPipe
  <2>2. PICK pcs : /\ \A v \in Writers \ {w} : pcs[v] = pc[v]
                   /\ pc' = pcs \/ Dropped(w, pcs)
    BY <1>1, <2>1
  <2>3. \A v \in Writers : pc'[v] = pcs[v] \/ (pcs[v] = "parked" /\ pc'[v] = "lock")
    BY <2>2, NotifyMoves DEF Dropped
  <2> QED
    BY <2>2, <2>3
<1>4. hand'[w] = <<>> /\ Len(hand'[w]) = 0 /\ taken[w] \in Nat /\ Len(hand[w]) \in Nat
  BY <1>1, <1>2, EmptySeq, LenProperties
<1>5. Sent(w)' = taken[w] /\ Sent(w) + Len(hand[w]) = taken[w]
  BY <1>2, <1>4 DEF Sent
<1>6. \A v \in Writers \ {w} : hand'[v] = hand[v] /\ Sent(v)' = Sent(v)
  BY <1>1, <1>2 DEF Sent
<1>7. HandInv'
  <2> SUFFICES ASSUME NEW v \in Writers
               PROVE  /\ Sent(v)' \in Nat
                      /\ hand'[v] = Run(v, Sent(v)', Len(hand'[v]))
                      /\ pc'[v] # "send" => hand'[v] = <<>>
    BY DEF HandInv
  <2>1. CASE v = w
    <3>1. hand'[w] = Run(w, taken[w], 0)
      BY <1>4, EmptyRun
    <3> QED
      BY <1>4, <1>5, <2>1, <3>1
  <2>2. CASE v # w
    BY <1>3, <1>6, <2>2 DEF HandInv
  <2> QED
    BY <2>1, <2>2
<1> QED
  BY <1>5, <1>6, <1>7

(* Every other step leaves the writers' messages alone. *)
LEMMA HandKept ==
  ASSUME TypeOK, HandInv, UNCHANGED <<taken, hand>>,
         \A v \in Writers : pc[v] = "send" => pc'[v] = "send"
  PROVE  HandInv' /\ \A v \in Writers : Sent(v)' = Sent(v)
<1>1. \A v \in Writers : Sent(v)' = Sent(v)
  BY DEF Sent
<1> QED
  BY <1>1 DEF HandInv

LEMMA OtherHands ==
  ASSUME TypeOK, HandInv, [Next]_vars,
         ~ \E w \in Writers : handle_write_result(w) \/ BrokenPipe(w)
  PROVE  HandInv' /\ \A v \in Writers : Sent(v)' = Sent(v)
<1>1. pc \in [Writers -> PCs]
  BY DEF TypeOK, TypeWriters
<1>2. CASE wait_channel_confirmation
  <2>1. UNCHANGED <<taken, hand>> /\ Notify(1, waiting, pc, notified)
    BY <1>2 DEF wait_channel_confirmation, update
  <2> QED
    BY <2>1, NotifyMoves, HandKept
<1>3. CASE \E amount \in Amounts : ChannelWindowAdjust(amount)
  <2>1. /\ UNCHANGED <<taken, hand>>
        /\ pc' = pc \/ Notify(1, waiting, pc, notified)
    BY <1>3 DEF ChannelWindowAdjust, update, writerVars
  <2> QED
    BY <2>1, NotifyMoves, HandKept
<1>4. CASE \E w \in Writers : poll_writable(w) /\ Writable(w) > 0
  BY <1>4, TakeStep
<1>5. CASE \E w \in Writers : \/ send_data(w) \/ PollNotification(w) \/ PolledAgain(w)
                              \/ poll_writable(w) /\ ~(Writable(w) > 0)
  <2>1. PICK w \in Writers : \/ send_data(w) \/ PollNotification(w) \/ PolledAgain(w)
                             \/ poll_writable(w) /\ ~(Writable(w) > 0)
    BY <1>5
  <2>2. /\ UNCHANGED <<taken, hand>> /\ pc[w] # "send"
        /\ \E x \in {"lock", "saw0", "parked"} : pc' = [pc EXCEPT ![w] = x]
    BY <2>1 DEF send_data, PollNotification, PolledAgain, poll_writable
  <2>3. \A v \in Writers : pc[v] = "send" => pc'[v] = "send"
    BY <1>1, <2>2
  <2> QED
    BY <2>2, <2>3, HandKept
<1>6. CASE \/ ChannelOpenConfirmation \/ ChannelOpenFailure
           \/ \E kind \in Ends : send_msg(kind)
           \/ handle_msg \/ ChannelClose \/ begin_rekey \/ RekeyDone \/ SessionEnds
           \/ UNCHANGED vars
  <2>1. UNCHANGED writerVars
    BY <1>6, Zenon DEF ChannelOpenConfirmation, ChannelOpenFailure, send_msg, handle_msg,
                ChannelClose, begin_rekey, RekeyDone, SessionEnds, vars
  <2> QED
    BY <2>1, HandKept DEF writerVars
<1> QED
  BY <1>2, <1>3, <1>4, <1>5, <1>6 DEF Next

(* The message m takes the writers from the positions a to the positions b. *)
Link(m, a, b) ==
  IF m.kind = "data"
  THEN \E w \in Writers : /\ m.buf = Run(w, a[w], Len(m.buf))
                          /\ b = [a EXCEPT ![w] = @ + Len(m.buf)]
  ELSE b = a

(* g[i] says up to where each writer's bytes are accepted or in the first i  *)
(* messages of the queue.                                                    *)
Chained(g) ==
  /\ \A w \in Writers : Top(Accepted, w, g[0][w])
  /\ \A i \in 1..Len(queue) : Link(queue[i], g[i - 1], g[i])
  /\ \A w \in Writers : g[Len(queue)][w] = Sent(w)

(* The inductive invariant of InOrder: accepted data is in order, and while  *)
(* the session task still takes data for the channel, the queue continues it *)
(* up to what each writer holds in its hand.                                 *)
StreamInv ==
  /\ Ordered(Accepted)
  /\ chan # "gone" /\ sess = "running" =>
       \E g \in [0..Len(queue) -> [Writers -> Nat]] : Chained(g)

(* A message joins the queue: the positions go one message further. *)
LEMMA QueueGrows ==
  ASSUME TypeOK, HandInv, NEW m \in Messages, queue' = Append(queue, m), Accepted' = Accepted,
         NEW g \in [0..Len(queue) -> [Writers -> Nat]], Chained(g),
         NEW b \in [Writers -> Nat], Link(m, g[Len(queue)], b),
         \A w \in Writers : Sent(w)' = b[w]
  PROVE  \E h \in [0..Len(queue') -> [Writers -> Nat]] : Chained(h)'
<1>1. queue \in Seq(Messages)
  BY DEF TypeOK, TypeSession
<1>2. PICK n \in Nat : n = Len(queue)
  BY <1>1, LenProperties
<1>3. /\ Len(queue') = n + 1 /\ queue'[n + 1] = m
      /\ \A i \in 1..n : queue'[i] = queue[i]
  BY <1>1, <1>2, AppendProperties
<1> DEFINE h == [i \in 0..(n + 1) |-> IF i = n + 1 THEN b ELSE g[i]]
<1>4. h \in [0..(n + 1) -> [Writers -> Nat]]
  BY <1>2
<1>5. h[n + 1] = b /\ \A i \in 0..n : h[i] = g[i]
  OBVIOUS
<1> HIDE DEF h
<1>6. \A w \in Writers : Top(Accepted', w, h[0][w])
  BY <1>5 DEF Chained
<1>7. \A i \in 1..(n + 1) : Link(queue'[i], h[i - 1], h[i])
  <2> SUFFICES ASSUME NEW i \in 1..(n + 1) PROVE Link(queue'[i], h[i - 1], h[i])
    OBVIOUS
  <2>1. CASE i = n + 1
    <3>1. i - 1 = n /\ n \in 0..n
      BY <2>1
    <3>2. h[n] = g[n]
      BY <1>5, <3>1
    <3> QED
      BY <1>2, <1>3, <1>5, <2>1, <3>1, <3>2
  <2>2. CASE i # n + 1
    <3>1. i \in 1..n /\ i - 1 \in 0..n /\ i \in 0..n
      BY <2>2
    <3> QED
      BY <1>2, <1>3, <1>5, <3>1 DEF Chained
  <2> QED
    BY <2>1, <2>2
<1>8. Chained(h)'
  BY <1>3, <1>5, <1>6, <1>7 DEF Chained
<1> QED
  BY <1>3, <1>4, <1>8

(* The head of the queue is accepted: its link is the first of the chain. *)
LEMMA QueueShrinks ==
  ASSUME TypeOK, NEW g \in [0..Len(queue) -> [Writers -> Nat]], Chained(g),
         queue # <<>>, queue' = Tail(queue),
         \A w \in Writers : Sent(w)' = Sent(w),
         \A w \in Writers : Top(Accepted', w, g[1][w])
  PROVE  \E h \in [0..Len(queue') -> [Writers -> Nat]] : Chained(h)'
<1>1. queue \in Seq(Messages)
  BY SMTT(60) DEF TypeOK, TypeSession
<1>2. PICK n \in Nat : n + 1 = Len(queue)
  <2>1. Len(queue) \in Nat \ {0}
    BY <1>1, EmptySeq
  <2>2. Len(queue) - 1 \in Nat /\ (Len(queue) - 1) + 1 = Len(queue)
    BY <2>1
  <2> QED
    BY <2>2
<1>3. Len(queue') = n /\ \A i \in 1..n : queue'[i] = queue[i + 1]
  BY <1>1, <1>2, HeadTailProperties
<1> DEFINE h == [i \in 0..n |-> g[i + 1]]
<1>4. h \in [0..n -> [Writers -> Nat]]
  <2>1. \A i \in 0..n : i + 1 \in 0..Len(queue)
    BY <1>2
  <2> QED
    BY <2>1
<1>5. \A i \in 0..n : h[i] = g[i + 1]
  OBVIOUS
<1> HIDE DEF h
<1>6. \A i \in 1..n : Link(queue'[i], h[i - 1], h[i])
  <2> SUFFICES ASSUME NEW i \in 1..n PROVE Link(queue'[i], h[i - 1], h[i])
    OBVIOUS
  <2>1. i + 1 \in 1..Len(queue) /\ i - 1 \in 0..n /\ i \in 0..n
    BY <1>2
  <2>2. Link(queue[i + 1], g[(i + 1) - 1], g[i + 1])
    BY <2>1 DEF Chained
  <2>3. (i + 1) - 1 = i /\ (i - 1) + 1 = i
    OBVIOUS
  <2>4. h[i - 1] = g[i] /\ h[i] = g[i + 1]
    BY <1>5, <2>1, <2>3
  <2> QED
    BY <1>3, <2>2, <2>3, <2>4
<1>7. \A w \in Writers : Top(Accepted', w, h[0][w])
  <2>1. 0 \in 0..n /\ 0 + 1 = 1
    OBVIOUS
  <2>2. h[0] = g[1]
    BY <1>5, <2>1
  <2> QED
    BY <2>2
<1>8. \A w \in Writers : h[n][w] = Sent(w)'
  <2>1. n \in 0..n
    OBVIOUS
  <2>2. h[n] = g[Len(queue)]
    BY <1>2, <1>5, <2>1
  <2> QED
    BY <2>2 DEF Chained
<1>9. Chained(h)'
  BY <1>3, <1>6, <1>7, <1>8 DEF Chained
<1> QED
  BY <1>3, <1>4, <1>9

LEMMA StreamStep ==
  ASSUME TypeOK, PendingMeansNoWindow, HandInv, StreamInv, [Next]_vars
  PROVE  StreamInv'
<1>1. /\ queue \in Seq(Messages) /\ Accepted \in Seq(Byte) /\ Len(queue) \in Nat
      /\ hand \in [Writers -> Seq(Byte)]
  BY LenProperties, ConcatProperties DEF TypeOK, TypeWriters, TypeSession, Accepted
<1>2. Ordered(Accepted)
  BY DEF StreamInv
<1>3. CASE handle_msg
  <2>1. /\ queue # <<>> /\ queue' = Tail(queue) /\ chan # "opening"
        /\ sess = "running"
    <3>1. chan \in {"opening", "open", "gone"}
      BY DEF TypeOK, TypeControl
    <3> QED
      BY <1>3 DEF handle_msg
  <2>2. \A w \in Writers : Sent(w)' = Sent(w)
    <3>1. UNCHANGED <<taken, hand>>
      BY <1>3 DEF handle_msg, writerVars
    <3> QED
      BY <3>1 DEF Sent
  <2>3. 1 \in 1..Len(queue) /\ Head(queue) = queue[1]
    BY <1>1, <2>1, EmptySeq
  <2>4. CASE chan = "gone"
    <3>1. chan' = "gone" /\ UNCHANGED <<wire, pending>>
      BY <1>3, <2>4 DEF handle_msg
    <3>2. Accepted' = Accepted
      BY <3>1 DEF Accepted
    <3> QED
      BY <1>2, <3>1, <3>2 DEF StreamInv
  <2>5. CASE chan # "gone"
    <3>1. PICK g \in [0..Len(queue) -> [Writers -> Nat]] : Chained(g)
      BY <2>1, <2>5 DEF StreamInv
    <3>2. Link(queue[1], g[0], g[1])
      <4>1. Link(queue[1], g[1 - 1], g[1])
        BY <2>3, <3>1 DEF Chained
      <4> QED
        BY <4>1
    <3>3. g[0] \in [Writers -> Nat]
      <4>1. 0 \in 0..Len(queue)
        BY <1>1
      <4> QED
        BY <3>1, <4>1
    <3>4. \A w \in Writers : Top(Accepted, w, g[0][w])
      BY <3>1 DEF Chained
    <3>5. Ordered(Accepted') /\ \A v \in Writers : Top(Accepted', v, g[1][v])
      <4>1. CASE queue[1].kind # "data"
        <5>1. UNCHANGED <<wire, pending>>
          BY <1>3, <2>3, <4>1 DEF handle_msg
        <5>2. Accepted' = Accepted /\ g[1] = g[0]
          BY <3>2, <4>1, <5>1 DEF Link, Accepted
        <5> QED
          BY <1>2, <3>4, <5>2
      <4>2. CASE queue[1].kind = "data"
        <5>1. data(queue[1].buf, kex = "active")
          BY <1>3, <2>3, <2>5, <4>2 DEF handle_msg
        <5>2. queue[1] \in Messages
          BY <1>1, <2>3, ElementOfSeq
        <5>3. PICK buf \in Seq(Byte) : buf = queue[1].buf
          BY <5>2 DEF Messages
        <5>4. Accepted' = Accepted \o buf
          BY <5>1, <5>3, DataAccepts
        <5>5. PICK n \in Nat : n = Len(buf)
          BY <5>3, LenProperties
        <5>6. PICK w \in Writers : buf = Run(w, g[0][w], n) /\ g[1] = [g[0] EXCEPT ![w] = @ + n]
          BY <3>2, <4>2, <5>3, <5>5 DEF Link
        <5>7. g[0][w] \in Nat /\ g[1][w] = g[0][w] + n
          BY <3>3, <5>6
        <5>8. /\ Ordered(Accepted') /\ Top(Accepted', w, g[0][w] + n)
              /\ \A v \in Writers, c \in Nat : v # w /\ Top(Accepted, v, c) => Top(Accepted', v, c)
          BY <1>1, <1>2, <3>4, <5>4, <5>6, <5>7, RunAppended
        <5>9. \A v \in Writers : v # w => g[1][v] = g[0][v] /\ g[0][v] \in Nat
          BY <3>3, <5>6
        <5> QED
          BY <3>4, <5>7, <5>8, <5>9
      <4> QED
        BY <4>1, <4>2
    <3>6. \E h \in [0..Len(queue') -> [Writers -> Nat]] : Chained(h)'
      BY <2>1, <2>2, <3>1, <3>5, QueueShrinks
    <3> QED
      BY <3>5, <3>6 DEF StreamInv
  <2> QED
    BY <2>4, <2>5
<1>4. CASE ~handle_msg
  <2>1. Accepted' = Accepted
    BY <1>4, AcceptedStep
  <2>2. /\ chan = "gone" => chan' = "gone"
        /\ sess # "running" => sess' # "running"
    BY DEF Next, ChannelOpenConfirmation, ChannelOpenFailure, ChannelClose, close,
           wait_channel_confirmation, send_msg, send_data, poll_writable, PollNotification,
           PolledAgain, handle_write_result, BrokenPipe, handle_msg, ChannelWindowAdjust,
           begin_rekey, RekeyDone, SessionEnds, vars, sessVars, taskVars
  <2> SUFFICES ASSUME chan # "gone", sess = "running", sess' = "running"
               PROVE  \E h \in [0..Len(queue') -> [Writers -> Nat]] : Chained(h)'
    BY <1>2, <2>1, <2>2 DEF StreamInv
  <2>3. PICK g \in [0..Len(queue) -> [Writers -> Nat]] : Chained(g)
    BY DEF StreamInv
  <2>4. g[Len(queue)] \in [Writers -> Nat] /\ \A w \in Writers : g[Len(queue)][w] = Sent(w)
    <3>1. Len(queue) \in 0..Len(queue)
      BY <1>1
    <3> QED
      BY <2>3, <3>1 DEF Chained
  <2>5. CASE \E w \in Writers : handle_write_result(w)
    <3>1. PICK w \in Writers : handle_write_result(w)
      BY <2>5
    <3>2. PICK buf \in Seq(Byte) : buf = hand[w]
      BY <1>1
    <3>3. PICK n \in Nat : n = Len(buf)
      BY <3>2, LenProperties
    <3> DEFINE m == [kind |-> "data", buf |-> buf]
               b == [g[Len(queue)] EXCEPT ![w] = @ + n]
    <3>4. m \in Messages /\ queue' = Append(queue, m)
      BY <3>1, <3>2 DEF handle_write_result, Messages
    <3>5. Link(m, g[Len(queue)], b)
      <4>1. buf = Run(w, g[Len(queue)][w], n)
        BY <2>4, <3>2, <3>3 DEF HandInv
      <4> QED
        BY <3>3, <4>1 DEF Link
    <3>6. b \in [Writers -> Nat] /\ \A v \in Writers : Sent(v)' = b[v]
      <4>1. Sent(w)' = Sent(w) + n /\ \A v \in Writers \ {w} : Sent(v)' = Sent(v)
        BY <3>1, <3>2, <3>3, GiveStep
      <4> QED
        BY <2>4, <4>1
    <3> HIDE DEF m, b
    <3> QED
      BY <2>1, <2>3, <3>4, <3>5, <3>6, QueueGrows
  <2>6. CASE \E kind \in Ends : send_msg(kind)
    <3>1. PICK kind \in Ends : send_msg(kind)
      BY <2>6
    <3>2. PICK m \in Messages : m = [kind |-> kind, buf |-> <<>>]
      <4>1. kind \in {"eof", "close"} /\ <<>> \in Seq(Byte)
        BY FlowAssumption, EmptySeq
      <4> QED
        BY <4>1 DEF Messages
    <3>3. queue' = Append(queue, m) /\ m.kind # "data" /\ UNCHANGED <<taken, hand>>
      BY <3>1, <3>2, FlowAssumption DEF send_msg, writerVars
    <3>4. Link(m, g[Len(queue)], g[Len(queue)])
      BY <3>3 DEF Link
    <3>5. \A w \in Writers : Sent(w)' = g[Len(queue)][w]
      BY <2>4, <3>3 DEF Sent
    <3> QED
      BY <2>1, <2>3, <2>4, <3>3, <3>4, <3>5, QueueGrows
  <2>7. CASE /\ ~ \E w \in Writers : handle_write_result(w)
             /\ ~ \E kind \in Ends : send_msg(kind)
    <3>1. queue' = queue
      BY <1>4, <2>7 DEF Next, ChannelOpenConfirmation, ChannelOpenFailure, ChannelClose,
           wait_channel_confirmation, send_data, poll_writable, PollNotification,
           PolledAgain, BrokenPipe, ChannelWindowAdjust, begin_rekey, RekeyDone, SessionEnds,
           vars
    <3>2. ~ \E w \in Writers : BrokenPipe(w)
      BY DEF BrokenPipe
    <3>3. \A w \in Writers : Sent(w)' = Sent(w)
      BY <2>7, <3>2, OtherHands
    <3>4. Chained(g)'
      BY <2>1, <2>3, <3>1, <3>3 DEF Chained
    <3> QED
      BY <2>3, <3>1, <3>4
  <2> QED
    BY <2>5, <2>6, <2>7
<1> QED
  BY <1>3, <1>4

(* The server reads each writer's bytes in order, none missing and none      *)
(* twice, for any number of writers: whatever is sent at once, waits in      *)
(* pending_data or is flushed after a re-exchange (poll_mk_msg, data,        *)
(* data_noqueue and flush_channel).                                          *)
THEOREM BytesInOrder == Spec => []InOrder
<1>1. Init => HandInv /\ StreamInv
  <2> SUFFICES ASSUME Init PROVE HandInv /\ StreamInv
    OBVIOUS
  <2>1. Len(<<>>) = 0 /\ <<>> \in Seq(Byte)
    BY EmptySeq
  <2>2. \A w \in Writers : taken[w] = 0 /\ hand[w] = <<>> /\ Sent(w) = 0
    BY <2>1 DEF Init, Sent
  <2>3. HandInv
    BY <2>1, <2>2, EmptyRun DEF HandInv
  <2>4. Accepted = <<>> /\ Len(Accepted) = 0 /\ Len(queue) = 0
    BY <2>1, ConcatEmptySeq DEF Init, Accepted
  <2> DEFINE g == [i \in 0..0 |-> [w \in Writers |-> 0]]
  <2>5. g \in [0..Len(queue) -> [Writers -> Nat]] /\ \A w \in Writers : g[0][w] = 0
    BY <2>4
  <2>6. Ordered(Accepted)
    BY <2>4 DEF Ordered
  <2>7. \A w \in Writers : Top(Accepted, w, 0)
    BY <2>4 DEF Top
  <2> HIDE DEF g
  <2>8. Chained(g)
    BY <2>2, <2>4, <2>5, <2>7 DEF Chained
  <2> QED
    BY <2>3, <2>5, <2>6, <2>8 DEF StreamInv
<1>2. TypeOK /\ HandInv /\ [Next]_vars => HandInv'
  BY GiveStep, OtherHands
<1>3. TypeOK /\ FlowInv /\ HandInv /\ StreamInv /\ [Next]_vars => StreamInv'
  BY StreamStep DEF FlowInv
<1>4. TypeOK /\ StreamInv => InOrder
  <2> SUFFICES ASSUME TypeOK, StreamInv PROVE InOrder
    OBVIOUS
  <2>1. /\ Len(wire) \in Nat /\ Len(pending) \in Nat
        /\ Len(Accepted) = Len(wire) + Len(pending)
        /\ \A i \in 1..(Len(wire) + Len(pending)) :
             Accepted[i] = IF i <= Len(wire) THEN wire[i] ELSE pending[i - Len(wire)]
    BY LenProperties, ConcatProperties DEF TypeOK, TypeSession, Accepted
  <2>2. \A i \in 1..Len(wire) : i \in 1..Len(Accepted) /\ Accepted[i] = wire[i]
    BY <2>1
  <2>3. \A j \in 1..Len(wire) : \A i \in 1..(j - 1) : i \in 1..Len(wire)
    BY <2>1
  <2>4. Ordered(wire)
    BY <2>2, <2>3, ZenonT(60) DEF StreamInv, Ordered
  <2> QED
    BY <2>4 DEF Ordered, InOrder
<1> QED
  BY <1>1, <1>2, <1>3, <1>4, TypeCorrect, FlowInvariant, PTL DEF Spec
=============================================================================
