----------------------------- MODULE ChannelFlow -----------------------------
(***************************************************************************)
(* How russh's client carries what an application writes to one channel to *)
(* the server: the writers (ChannelTx of channels/io/tx.rs), the window    *)
(* they share (WindowSizeRef of channels/mod.rs), the bounded queue to the *)
(* session task, and the channel's parameters inside that task (Encrypted  *)
(* of session.rs) with the data that did not fit into the server's window. *)
(* EdgeSSH's send_data() is one such writer per call.                      *)
(*                                                                         *)
(* The channel's window is kept twice.  windowRef is what the writers take *)
(* from; recipient_window_size (rwin) is what the session task has left.   *)
(* Only a WINDOW_ADJUST brings them together again.                        *)
(*                                                                         *)
(* A byte is <<writer, its position in the writer's input, its offset in   *)
(* the message that carries it>>.  pending_data is kept flat: the offset   *)
(* `from` of its first buffer is the offset of its first byte.  How data   *)
(* is cut into packets and the stream number of extended data are left     *)
(* out.                                                                    *)
(***************************************************************************)
EXTENDS Integers, Sequences, SequencesExt

CONSTANTS
  Writers,        \* the calls of send_data()
  Length,         \* the number of bytes each of them has to send
  MaxPacket,      \* max_packet_size of the channel
  QueueSize,      \* capacity of the queue to the session task
  InitialWindows, \* the windows the server may open the channel with
  Amounts,        \* what one WINDOW_ADJUST may add
  MaxU32,         \* the largest u32, where saturating_add stops
  MaxAdjusts,     \* bound: WINDOW_ADJUST messages
  MaxRekeys,      \* bound: key re-exchanges
  Ends,           \* which of "eof" and "close" the application sends
  ServerMayClose, \* whether the server may close the channel
  MayEnd,         \* whether the session may end under the writers
  EarlyAdjust     \* whether a WINDOW_ADJUST may be handled before the
                  \* application has taken the channel's confirmation

ASSUME FlowAssumption ==
  /\ Length \in [Writers -> Nat \ {0}]
  /\ MaxPacket \in Nat \ {0} /\ QueueSize \in Nat \ {0}
  /\ MaxU32 \in Nat
  /\ InitialWindows \subseteq 0..MaxU32 /\ Amounts \subseteq 1..MaxU32
  /\ MaxAdjusts \in Nat /\ MaxRekeys \in Nat
  /\ Ends \subseteq {"eof", "close"}
  /\ ServerMayClose \in BOOLEAN /\ MayEnd \in BOOLEAN /\ EarlyAdjust \in BOOLEAN

VARIABLES
  pc,         \* each writer: idle, lock (will look at the window), saw0 (found
              \* it empty), parked, send (waits for room in the queue), done, broken
  taken,      \* how many of its bytes a writer has put into messages
  hand,       \* the message of a writer's send_fut
  windowRef,  \* WindowSizeRef.value
  permit,     \* the stored permit of WindowSizeRef.notifier
  waiting,    \* the Notified futures registered with the notifier, in order
  notified,   \* the Notified futures that were notified and not polled since
  queue,      \* messages to the session task
  asked,      \* what the application has sent of Ends
  opened,     \* the application's open call: waiting, confirmed, yes, failed
  initial,    \* the window in the confirmation
  chan,       \* the session task's entry of the channel: opening, open, gone
  ref,        \* the session task still holds the ChannelRef
  rwin,       \* recipient_window_size
  pending,    \* pending_data
  pendingEof, pendingClose,
  sess,       \* the session task: running, ended, panicked
  kex,        \* the key exchange: idle, active
  rekeys, adjusts, serverClosed,
  wire,       \* the data sent, in order
  eofAt,      \* how much data preceded each CHANNEL_EOF sent
  closed,     \* CHANNEL_CLOSE is sent
  credit,     \* ghost: all the window the server ever gave
  eofNeeds, closeNeeds  \* ghost: the data handled before the application's eof, close

writerVars == <<pc, taken, hand, windowRef, permit, waiting, notified>>
sessVars   == <<chan, ref, rwin, pending, pendingEof, pendingClose>>
wireVars   == <<wire, eofAt, closed, credit, eofNeeds, closeNeeds>>
taskVars   == <<sess, kex, rekeys, adjusts, serverClosed>>
openVars   == <<opened, initial>>
vars == <<writerVars, queue, asked, openVars, sessVars, taskVars, wireVars>>

Least(a, b) == IF a <= b THEN a ELSE b

-----------------------------------------------------------------------------
Init ==
  /\ pc = [w \in Writers |-> "idle"] /\ taken = [w \in Writers |-> 0]
  /\ hand = [w \in Writers |-> <<>>]
  /\ windowRef = 0 /\ permit = FALSE /\ waiting = <<>> /\ notified = {}
  /\ queue = <<>> /\ asked = {}
  /\ opened = "waiting" /\ initial = 0
  /\ chan = "opening" /\ ref = TRUE /\ rwin = 0
  /\ pending = <<>> /\ pendingEof = FALSE /\ pendingClose = FALSE
  /\ sess = "running" /\ kex = "idle" /\ rekeys = 0 /\ adjusts = 0
  /\ serverClosed = FALSE
  /\ wire = <<>> /\ eofAt = <<>> /\ closed = FALSE
  /\ credit = 0 /\ eofNeeds = 0 /\ closeNeeds = 0

-----------------------------------------------------------------------------
(* The notifier *)

(* n calls of notify_one(), the registered futures being q and the writers   *)
(* being where pcs says: each wakes the first in line, or leaves the one     *)
(* permit there is.                                                          *)
Notify(n, q, pcs, nots) ==
  LET hit == {q[i] : i \in 1..Least(n, Len(q))} IN
  /\ waiting' = SubSeq(q, n + 1, Len(q))
  /\ permit' = (permit \/ Len(q) < n)
  /\ notified' = nots \cup hit
  /\ pc' = [w \in Writers |-> IF w \in hit /\ pcs[w] = "parked" THEN "lock" ELSE pcs[w]]

(* Mutant: the new window is stored and nobody told. *)
updateSilently(value) ==
  /\ windowRef' = value
  /\ UNCHANGED <<permit, waiting, notified, pc>>

(* WindowSizeRef::update *)
update(value) ==
  /\ windowRef' = value
  /\ Notify(1, waiting, pc, notified)

(* q without w, which is in it at most once. *)
Without(q, w) ==
  IF \E i \in DOMAIN q : q[i] = w THEN RemoveAt(q, CHOOSE i \in DOMAIN q : q[i] = w) ELSE q

(* Mutant: a finished writer keeps the notification it has not used. *)
DroppedSilently(w, pcs) == Notify(0, Without(waiting, w), pcs, notified \ {w})

(* The writer's ChannelTx is dropped: Drop calls notify_one(), and then its  *)
(* own Notified goes, which passes on a notification it has not used.        *)
Dropped(w, pcs) ==
  Notify(IF w \in notified THEN 2 ELSE 1, Without(waiting, w), pcs, notified \ {w})

-----------------------------------------------------------------------------
(* Opening the channel *)

(* CHANNEL_OPEN_CONFIRMATION *)
ChannelOpenConfirmation ==
  /\ sess = "running" /\ chan = "opening"
  /\ \E win \in InitialWindows : rwin' = win /\ initial' = win /\ credit' = win
  /\ chan' = "open" /\ opened' = "confirmed"
  /\ UNCHANGED <<writerVars, queue, asked, ref, pending, pendingEof, pendingClose,
                 taskVars, wire, eofAt, closed, eofNeeds, closeNeeds>>

(* CHANNEL_OPEN_FAILURE *)
ChannelOpenFailure ==
  /\ sess = "running" /\ chan = "opening"
  /\ chan' = "gone" /\ ref' = FALSE /\ opened' = "failed"
  /\ UNCHANGED <<writerVars, queue, asked, initial, rwin, pending, pendingEof,
                 pendingClose, taskVars, wireVars>>

(* wait_channel_confirmation gets the Open message. *)
wait_channel_confirmation ==
  /\ opened = "confirmed"
  /\ opened' = "yes"
  /\ update(initial)
  /\ UNCHANGED <<taken, hand, queue, asked, initial, sessVars, taskVars, wireVars>>

-----------------------------------------------------------------------------
(* The writers *)

send_data(w) ==
  /\ opened = "yes" /\ pc[w] = "idle"
  /\ pc' = [pc EXCEPT ![w] = "lock"]
  /\ UNCHANGED <<taken, hand, windowRef, permit, waiting, notified, queue, asked,
                 openVars, sessVars, taskVars, wireVars>>

(* Mutant: the packet limit only. *)
WritableByPacket(w) == Least(MaxPacket, Length[w] - taken[w])

Writable(w) == Least(Least(MaxPacket, windowRef), Length[w] - taken[w])

(* poll_writable and poll_mk_msg under the window's lock: take what can be   *)
(* taken and wake the next writer if something is left.                      *)
poll_writable(w) ==
  /\ pc[w] = "lock"
  /\ IF Writable(w) > 0
     THEN LET pcs == [pc EXCEPT ![w] = "send"] IN
          /\ windowRef' = windowRef - Writable(w)
          /\ taken' = [taken EXCEPT ![w] = @ + Writable(w)]
          /\ hand' = [hand EXCEPT ![w] =
                        [k \in 1..Writable(w) |-> <<w, taken[w] + k, k - 1>>]]
          /\ IF windowRef' > 0
             THEN Notify(1, waiting, pcs, notified)
             ELSE pc' = pcs /\ UNCHANGED <<permit, waiting, notified>>
     ELSE /\ pc' = [pc EXCEPT ![w] = "saw0"]
          /\ UNCHANGED <<taken, hand, windowRef, permit, waiting, notified>>
  /\ UNCHANGED <<queue, asked, openVars, sessVars, taskVars, wireVars>>

(* poll_writable after it has released the lock: poll the notification.  One *)
(* that is ready is replaced by a new one and the writer looks again.        *)
PollNotification(w) ==
  /\ pc[w] = "saw0"
  /\ \/ /\ w \in notified
        /\ notified' = notified \ {w} /\ pc' = [pc EXCEPT ![w] = "lock"]
        /\ UNCHANGED <<permit, waiting>>
     \/ /\ \E i \in DOMAIN waiting : waiting[i] = w
        /\ pc' = [pc EXCEPT ![w] = "parked"]
        /\ UNCHANGED <<permit, waiting, notified>>
     \/ /\ w \notin notified /\ \A i \in DOMAIN waiting : waiting[i] # w
        /\ permit
        /\ permit' = FALSE /\ pc' = [pc EXCEPT ![w] = "lock"]
        /\ UNCHANGED <<waiting, notified>>
     \/ /\ w \notin notified /\ \A i \in DOMAIN waiting : waiting[i] # w
        /\ ~permit
        /\ waiting' = Append(waiting, w) /\ pc' = [pc EXCEPT ![w] = "parked"]
        /\ UNCHANGED <<permit, notified>>
  /\ UNCHANGED <<taken, hand, windowRef, queue, asked, openVars, sessVars, taskVars,
                 wireVars>>

(* A parked writer's task is polled for another reason, as one that also     *)
(* reads is: poll_writable looks at the window again, still registered.      *)
PolledAgain(w) ==
  /\ pc[w] = "parked"
  /\ pc' = [pc EXCEPT ![w] = "lock"]
  /\ UNCHANGED <<taken, hand, windowRef, permit, waiting, notified, queue, asked,
                 openVars, sessVars, taskVars, wireVars>>

(* The queue has room: the message goes out, and the call ends when it was   *)
(* the last one.                                                             *)
handle_write_result(w) ==
  /\ pc[w] = "send" /\ sess = "running" /\ Len(queue) < QueueSize
  /\ queue' = Append(queue, [kind |-> "data", buf |-> hand[w]])
  /\ hand' = [hand EXCEPT ![w] = <<>>]
  /\ IF taken[w] = Length[w]
     THEN Dropped(w, [pc EXCEPT ![w] = "done"])
     ELSE /\ pc' = [pc EXCEPT ![w] = "lock"]
          /\ UNCHANGED <<permit, waiting, notified>>
  /\ UNCHANGED <<taken, windowRef, asked, openVars, sessVars, taskVars, wireVars>>

(* The receiver is gone: BrokenPipe, "channel closed". *)
BrokenPipe(w) ==
  /\ pc[w] = "send" /\ sess # "running"
  /\ hand' = [hand EXCEPT ![w] = <<>>]
  /\ Dropped(w, [pc EXCEPT ![w] = "broken"])
  /\ UNCHANGED <<taken, windowRef, queue, asked, openVars, sessVars, taskVars, wireVars>>

(* ChannelWriteHalf::eof and ::close *)
send_msg(kind) ==
  /\ opened = "yes" /\ kind \in Ends \ asked
  /\ sess = "running" /\ Len(queue) < QueueSize
  /\ asked' = asked \cup {kind}
  /\ queue' = Append(queue, [kind |-> kind, buf |-> <<>>])
  /\ UNCHANGED <<writerVars, openVars, sessVars, taskVars, wireVars>>

-----------------------------------------------------------------------------
(* The session task *)

(* Mutant: the window is not charged for what is written. *)
dataUncharged(buf, rekeying) ==
  LET n == Least(rwin, Len(buf)) IN
  /\ wire' = wire \o SubSeq(buf, 1, n)
  /\ pending' = pending \o SubSeq(buf, n + 1, Len(buf))
  /\ UNCHANGED rwin

(* Mutant: push_front instead of push_back. *)
dataPushesFront(buf, rekeying) ==
  LET n == Least(rwin, Len(buf)) IN
  /\ wire' = wire \o SubSeq(buf, 1, n)
  /\ rwin' = rwin - n
  /\ pending' = SubSeq(buf, n + 1, Len(buf)) \o pending

(* Encrypted::data of an existing channel; data_noqueue writes as much as    *)
(* the window lets it, and the rest waits in pending_data.                   *)
data(buf, rekeying) ==
  IF pending # <<>> /\ rekeying
  THEN pending' = pending \o buf /\ UNCHANGED <<wire, rwin>>
  ELSE LET n == Least(rwin, Len(buf)) IN
       /\ wire' = wire \o SubSeq(buf, 1, n)
       /\ rwin' = rwin - n
       /\ pending' = pending \o SubSeq(buf, n + 1, Len(buf))

(* Mutant: end-of-file does not wait for pending data. *)
eofAtOnce == eofAt' = Append(eofAt, Len(wire)) /\ UNCHANGED pendingEof

(* Encrypted::eof *)
eof ==
  IF pending # <<>>
  THEN pendingEof' = TRUE /\ UNCHANGED eofAt
  ELSE eofAt' = Append(eofAt, Len(wire)) /\ UNCHANGED pendingEof

(* Encrypted::close *)
close ==
  IF pending # <<>>
  THEN pendingClose' = TRUE /\ UNCHANGED <<chan, closed>>
  ELSE chan' = "gone" /\ closed' = TRUE /\ UNCHANGED pendingClose

(* handle_msg for this channel's messages, which the loop takes only while   *)
(* no key exchange is active.  Without the channel they are dropped.         *)
handle_msg ==
  /\ sess = "running" /\ kex = "idle" /\ queue # <<>>
  /\ queue' = Tail(queue)
  /\ LET m == Head(queue) IN
     \/ /\ m.kind = "data" /\ chan = "open"
        /\ data(m.buf, kex = "active")
        /\ UNCHANGED <<chan, pendingEof, pendingClose, eofAt, closed, eofNeeds, closeNeeds>>
     \/ /\ m.kind = "eof" /\ chan = "open"
        /\ eof
        /\ eofNeeds' = Len(wire) + Len(pending)
        /\ UNCHANGED <<chan, rwin, pending, pendingClose, wire, closed, closeNeeds>>
     \/ /\ m.kind = "close" /\ chan = "open"
        /\ close
        /\ closeNeeds' = Len(wire) + Len(pending)
        /\ UNCHANGED <<rwin, pending, pendingEof, wire, eofAt, eofNeeds>>
     \/ /\ chan = "gone"
        /\ UNCHANGED <<chan, rwin, pending, pendingEof, pendingClose, wire, eofAt,
                       closed, eofNeeds, closeNeeds>>
  /\ UNCHANGED <<writerVars, asked, openVars, ref, credit, taskVars>>

(* data_noqueue computes `from as u32 + recipient_window_size`: the sum may  *)
(* not fit, and then the slice it takes is out of bounds.                    *)
SliceOutOfBounds(win) == pending # <<>> /\ Head(pending)[3] + win > MaxU32

(* Mutant: the new window is kept for later data. *)
flush_channel_not(win) == rwin' = win /\ UNCHANGED <<wire, pending>>

(* flush_channel with the window win: the data it writes from pending_data.  *)
flush_channel(win) ==
  LET n == Least(win, Len(pending)) IN
  /\ wire' = wire \o SubSeq(pending, 1, n)
  /\ pending' = SubSeq(pending, n + 1, Len(pending))
  /\ rwin' = win - n

(* handle_flushed_channel: a completed flush is followed by the end-of-file  *)
(* and the close that waited for it.                                         *)
handle_flushed_channel ==
  LET complete == pending' = <<>> IN
  /\ eofAt' = IF complete /\ pendingEof THEN Append(eofAt, Len(wire')) ELSE eofAt
  /\ closed' = (closed \/ (complete /\ pendingClose))
  /\ chan' = IF complete /\ pendingClose THEN "gone" ELSE chan
  /\ UNCHANGED <<pendingEof, pendingClose>>

(* CHANNEL_WINDOW_ADJUST: add to the window, flush what was pending and give *)
(* what is left to the writers.  It is handled during a key exchange too.    *)
ChannelWindowAdjust(amount) ==
  /\ sess = "running" /\ chan = "open" /\ ~serverClosed
  /\ opened = "yes" \/ EarlyAdjust
  /\ adjusts < MaxAdjusts
  /\ adjusts' = adjusts + 1
  /\ credit' = credit + amount
  /\ LET win == Least(rwin + amount, MaxU32) IN
     IF SliceOutOfBounds(win)
     THEN /\ sess' = "panicked"
          /\ UNCHANGED <<writerVars, sessVars, wire, eofAt, closed>>
     ELSE /\ flush_channel(win)
          /\ handle_flushed_channel
          /\ IF ref THEN update(rwin')
                    ELSE UNCHANGED <<windowRef, permit, waiting, notified, pc>>
          /\ UNCHANGED <<taken, hand, ref, sess>>
  /\ UNCHANGED <<queue, asked, openVars, kex, rekeys, serverClosed, eofNeeds, closeNeeds>>

(* CHANNEL_CLOSE from the server, which sends nothing on the channel after it. *)
ChannelClose ==
  /\ ServerMayClose
  /\ sess = "running" /\ chan # "opening" /\ opened # "failed" /\ ~serverClosed
  /\ serverClosed' = TRUE
  /\ ref' = FALSE
  /\ IF chan = "open" THEN close ELSE UNCHANGED <<chan, closed, pendingClose>>
  /\ UNCHANGED <<writerVars, queue, asked, openVars, rwin, pending, pendingEof,
                 sess, kex, rekeys, adjusts, wire, eofAt, credit, eofNeeds, closeNeeds>>

(* begin_rekey: at a flush, when the limits say so, or at the server's KEXINIT. *)
begin_rekey ==
  /\ sess = "running" /\ kex = "idle" /\ rekeys < MaxRekeys
  /\ kex' = "active" /\ rekeys' = rekeys + 1
  /\ UNCHANGED <<writerVars, queue, asked, openVars, sessVars, sess, adjusts,
                 serverClosed, wireVars>>

(* The exchange is done: flush_all_pending, whose result is not looked at.   *)
RekeyDone ==
  /\ sess = "running" /\ kex = "active"
  /\ kex' = "idle"
  /\ IF chan = "open" THEN flush_channel(rwin) ELSE UNCHANGED <<wire, pending, rwin>>
  /\ UNCHANGED <<writerVars, queue, asked, openVars, chan, ref, pendingEof, pendingClose,
                 sess, rekeys, adjusts, serverClosed, eofAt, closed, credit, eofNeeds,
                 closeNeeds>>

(* The session task returns: a disconnect, an error or the end of the stream. *)
SessionEnds ==
  /\ MayEnd /\ sess = "running"
  /\ sess' = "ended"
  /\ UNCHANGED <<writerVars, queue, asked, openVars, sessVars, kex, rekeys, adjusts,
                 serverClosed, wireVars>>

-----------------------------------------------------------------------------
Next ==
  \/ ChannelOpenConfirmation \/ ChannelOpenFailure \/ wait_channel_confirmation
  \/ \E w \in Writers : \/ send_data(w) \/ poll_writable(w) \/ PollNotification(w)
                        \/ PolledAgain(w) \/ handle_write_result(w) \/ BrokenPipe(w)
  \/ \E kind \in Ends : send_msg(kind)
  \/ handle_msg
  \/ \E amount \in Amounts : ChannelWindowAdjust(amount)
  \/ ChannelClose
  \/ begin_rekey \/ RekeyDone
  \/ SessionEnds

Spec == Init /\ [][Next]_vars

(* A woken task is polled, the session task takes its messages, a server     *)
(* answers the open request, finishes a key exchange it has begun and goes   *)
(* on granting window (up to the bound).                                     *)
Fairness ==
  /\ WF_vars(ChannelOpenConfirmation) /\ WF_vars(wait_channel_confirmation)
  /\ \A w \in Writers : WF_vars(\/ poll_writable(w) \/ PollNotification(w)
                                \/ handle_write_result(w) \/ BrokenPipe(w))
  /\ WF_vars(handle_msg) /\ WF_vars(RekeyDone)
  /\ WF_vars(\E amount \in Amounts : ChannelWindowAdjust(amount))

FairSpec == Spec /\ Fairness

-----------------------------------------------------------------------------
Byte == Writers \X (Nat \ {0}) \X Nat

PCs == {"idle", "lock", "saw0", "parked", "send", "done", "broken"}
Messages == [kind : {"data", "eof", "close"}, buf : Seq(Byte)]

TypeWriters ==
  /\ pc \in [Writers -> PCs] /\ taken \in [Writers -> Nat] /\ hand \in [Writers -> Seq(Byte)]
  /\ windowRef \in 0..MaxU32 /\ waiting \in Seq(Writers) /\ notified \subseteq Writers

TypeSession ==
  /\ rwin \in 0..MaxU32 /\ initial \in 0..MaxU32
  /\ queue \in Seq(Messages)
  /\ pending \in Seq(Byte) /\ wire \in Seq(Byte) /\ eofAt \in Seq(Nat)
  /\ credit \in Nat /\ eofNeeds \in Nat /\ closeNeeds \in Nat

TypeControl ==
  /\ asked \subseteq Ends
  /\ opened \in {"waiting", "confirmed", "yes", "failed"}
  /\ chan \in {"opening", "open", "gone"}
  /\ sess \in {"running", "ended", "panicked"} /\ kex \in {"idle", "active"}
  /\ rekeys \in Nat /\ adjusts \in Nat

TypeFlags ==
  /\ permit \in BOOLEAN /\ ref \in BOOLEAN /\ closed \in BOOLEAN
  /\ pendingEof \in BOOLEAN /\ pendingClose \in BOOLEAN /\ serverClosed \in BOOLEAN

(* Every variable has its type. *)
TypeOK == TypeWriters /\ TypeSession /\ TypeControl /\ TypeFlags

(* Flow control: however writers, pending data and re-exchanges interleave,  *)
(* no more data is sent than the server has granted window for, although the *)
(* writers' own view of the window may promise more (data_noqueue).          *)
WindowRespected == Len(wire) + rwin <= credit

(* New data may be written past the pending queue (Encrypted::data only      *)
(* queues it while rekeying), so order rests on this: data is pending only   *)
(* when the window is used up.                                               *)
PendingMeansNoWindow == pending # <<>> => rwin = 0

(* The server reads each writer's bytes in order, none missing or repeated,  *)
(* also when they went through pending_data or a re-exchange.                *)
InOrder ==
  \A j \in 1..Len(wire) :
    /\ \A i \in 1..(j - 1) : wire[i][1] = wire[j][1] => wire[i][2] < wire[j][2]
    /\ wire[j][2] # 1 =>
         \E i \in 1..(j - 1) : wire[i][1] = wire[j][1] /\ wire[i][2] + 1 = wire[j][2]

(* An end-of-file or a close asked for by the application reaches the server *)
(* after all data the session had accepted before it (pending_eof,           *)
(* pending_close and the two flushes).                                       *)
EndsAfterData ==
  /\ \A i \in 1..Len(eofAt) : eofAt[i] >= eofNeeds
  /\ closed => Len(wire) >= closeNeeds

(* No wake-up is lost: when window is left and a writer is registered for    *)
(* it, some writer is on its way to look at the window or holds a wake-up    *)
(* that it passes on (poll_writable, update and Drop against each other).    *)
NoLostWakeup ==
  waiting # <<>> /\ windowRef > 0 => \E w \in Writers : w \in notified \/ pc[w] = "lock"

(* Every byte of a started write reaches the server (the last one does, and  *)
(* the others came before it).                                               *)
Delivered ==
  \A w \in Writers :
    pc[w] = "lock" ~> \E i \in 1..Len(wire) : wire[i][1] = w /\ wire[i][2] = Length[w]

(* What writable_packet_size says it bounds: the window the writers see is   *)
(* no more than what remains of the channel's window.                        *)
WindowNotOverstated == opened = "yes" /\ chan = "open" => windowRef <= rwin

(* A CHANNEL_CLOSE of the server is answered with one on the spot.           *)
CloseAnswered == serverClosed => closed

(* The end-of-file of a channel that is asked for once is sent once:         *)
(* pending_eof is never reset, and every later flush sends another.          *)
EofSentOnce == Len(eofAt) <= 1

(* Nothing of the channel is sent once a key exchange has started.           *)
QuietDuringRekey == [][kex = "active" /\ kex' = "active" => wire' = wire]_vars

(* The slices taken in data_noqueue are in bounds.                           *)
SlicesInBounds == sess # "panicked"

(* A writer that waits for the window goes on when the channel has window.   *)
WaitingIsServed ==
  \A w \in Writers : pc[w] = "parked" /\ rwin > 0 ~> pc[w] # "parked" \/ rwin = 0
=============================================================================
