--------------------------- MODULE SessionRegistry ---------------------------
(***************************************************************************)
(* The session list of one user: a KV document that the POST and DELETE    *)
(* routes of worker/src/sessions.ts and terminate() of every session       *)
(* object (worker/src/session-do.ts) read, change and write back whole.    *)
(* KV has no transactions, so another writer can act between the get and   *)
(* the put.  SshSessionDO has the inside of one object; here it is only    *)
(* up or terminated.                                                       *)
(***************************************************************************)
EXTENDS Integers, FiniteSets

CONSTANT
  Sessions  \* session ids (random UUIDs, so never reused)

(* The operations that write the list: a POST, the object's terminate() and  *)
(* the DELETE route after the object has answered.                           *)
Ops == {"create", "terminate", "delete"}

VARIABLES
  list,     \* the ids in sessions:<user>, as a set: an id is pushed once
  object,   \* each session object: none, up, terminated
  phase,    \* each operation of each session: idle, called, got, done
  snap,     \* the list the operation has read
  asked,    \* sessions whose termination a DELETE waits for
  raced     \* history: sessions whose last put met another writer that had
            \* read the list already and was still to write it

registryVars == <<list, object, phase, snap, asked, raced>>

(* The sessions for which an operation runs. *)
Busy == {s \in Sessions : \E op \in Ops : phase[op][s] \in {"called", "got"}}

(* Another operation has read the list and will write what it read. *)
OtherHasRead(op, s) ==
  \E o \in Ops, t \in Sessions : <<o, t>> # <<op, s>> /\ phase[o][t] = "got"

Moves(op, s, p) == phase' = [phase EXCEPT ![op][s] = p]

RegistryInit ==
  /\ list = {}
  /\ object = [s \in Sessions |-> "none"]
  /\ phase = [op \in Ops |-> [s \in Sessions |-> "idle"]]
  /\ snap = [op \in Ops |-> [s \in Sessions |-> {}]]
  /\ asked = {} /\ raced = {}

-----------------------------------------------------------------------------
(* POST: the object has connected; the record is still to be written. *)
CreateSession(s) ==
  /\ phase["create"][s] = "idle"
  /\ Moves("create", s, "called")
  /\ object' = [object EXCEPT ![s] = "up"]
  /\ UNCHANGED <<list, snap, asked, raced>>

(* terminate() of the object begins, by itself (alarm) or for a DELETE.  It  *)
(* may run again on an object that is already terminated.                    *)
StartTerminate(s) ==
  /\ Moves("terminate", s, "called")
  /\ object' = [object EXCEPT ![s] = "terminated"]

AlarmTerminates(s) ==
  /\ phase["create"][s] = "done" /\ object[s] = "up"
  /\ phase["terminate"][s] = "idle"
  /\ StartTerminate(s)
  /\ UNCHANGED <<list, snap, asked, raced>>

(* DELETE of a session the user sees: listed, or the one on screen.  The     *)
(* route waits for the object.                                               *)
DeleteSession(s) ==
  /\ phase["create"][s] = "done" /\ phase["delete"][s] = "idle" /\ s \notin asked
  /\ s \in list \/ object[s] = "up"
  /\ phase["terminate"][s] \in {"idle", "done"}
  /\ StartTerminate(s)
  /\ asked' = asked \cup {s}
  /\ UNCHANGED <<list, snap, raced>>

DeleteAnswered(s) ==
  /\ s \in asked /\ phase["terminate"][s] = "done"
  /\ asked' = asked \ {s}
  /\ Moves("delete", s, "called")
  /\ UNCHANGED <<list, object, snap, raced>>

-----------------------------------------------------------------------------
(* The KV get and put that all three have in common. *)
ListGet(op, s) ==
  /\ phase[op][s] = "called"
  /\ Moves(op, s, "got")
  /\ snap' = [snap EXCEPT ![op][s] = list]
  /\ UNCHANGED <<list, object, asked, raced>>

(* Mutant: the record of the new session replaces the list. *)
UpdatedReplaces(op, s) ==
  IF op = "create" THEN {s} ELSE snap[op][s] \ {s}

(* Mutant: the list is written back as it was read. *)
UpdatedWithoutFilter(op, s) ==
  IF op = "create" THEN snap[op][s] \cup {s} ELSE snap[op][s]

(* push(record), or filter((s) => s.id !== sessionId). *)
Updated(op, s) ==
  IF op = "create" THEN snap[op][s] \cup {s} ELSE snap[op][s] \ {s}

ListPut(op, s) ==
  /\ phase[op][s] = "got"
  /\ Moves(op, s, "done")
  /\ list' = Updated(op, s)
  /\ snap' = [snap EXCEPT ![op][s] = {}]
  /\ raced' = IF OtherHasRead(op, s) THEN raced \cup {s} ELSE raced \ {s}
  /\ UNCHANGED <<object, asked>>

-----------------------------------------------------------------------------
RegistryNext ==
  \E s \in Sessions :
    \/ CreateSession(s) \/ AlarmTerminates(s) \/ DeleteSession(s) \/ DeleteAnswered(s)
    \/ \E op \in Ops : ListGet(op, s) \/ ListPut(op, s)

RegistrySpec == RegistryInit /\ [][RegistryNext]_registryVars

-----------------------------------------------------------------------------
(* Every variable has its type. *)
RegistryTypeOK ==
  /\ list \subseteq Sessions /\ asked \subseteq Sessions /\ raced \subseteq Sessions
  /\ object \in [Sessions -> {"none", "up", "terminated"}]
  /\ phase \in [Ops -> [Sessions -> {"idle", "called", "got", "done"}]]
  /\ snap \in [Ops -> [Sessions -> SUBSET Sessions]]

(* The sessions whose place in the list is settled: no operation on them is  *)
(* under way, whatever the others do, and their last write was not lost.     *)
Settled == Sessions \ (Busy \cup asked \cup raced)

(* "You can close your browser tab and reattach later" (README): a settled   *)
(* session whose object is up is in the list the browser is offered, however *)
(* many writers of other sessions have read the list and not yet written it. *)
UpIsListed == \A s \in Settled : object[s] = "up" => s \in list

(* "List active sessions" (sessions.ts): a settled session in the list is    *)
(* up; no stale list written later brings a terminated one back.             *)
ListedIsUp == \A s \in Settled \cap list : object[s] = "up"

(* The record of a session is written by its POST alone: none is in the list *)
(* before, whatever was lost.                                                *)
ListedWasCreated == \A s \in list : phase["create"][s] = "done"

(* The list the browser is offered is wrong about a session only while an    *)
(* operation on it is under way, or after its own write was overwritten by   *)
(* a writer that had read the list before; its next write, if not overtaken  *)
(* too, sets it right.                                                       *)
ListIsTrue == RegistryTypeOK /\ UpIsListed /\ ListedIsUp /\ ListedWasCreated

(* The stronger claim does not hold: without transactions, sessions that     *)
(* nobody is working on may be missing from the list or left in it.          *)
ListAlwaysTrue ==
  Busy = {} /\ asked = {} => \A s \in Sessions : s \in list <=> object[s] = "up"
=============================================================================
