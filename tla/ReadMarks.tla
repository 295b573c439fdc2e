------------------------------ MODULE ReadMarks ------------------------------
(***************************************************************************)
(* services/messenger.service.ts, what a customer has read of the thread:  *)
(* markRead lists the messages, the oldest first and no more than a limit, *)
(* and then marks those of others; messages are sent and deleted and the   *)
(* unread counted in between.  A customer's reactions are an upsert and a  *)
(* deleteMany that touch nothing here, and are left out.                   *)
(***************************************************************************)
EXTENDS Integers, Sequences, FiniteSets

CONSTANTS
  Procs,      \* calls of markRead in flight at one time: tabs and devices
  Limit,      \* messages listed at most: 500
  MaxMessages \* bound on the thread

VARIABLES
  thread,  \* the messages, by age: who sent each, and if it is deleted
  read,    \* MessageReadStatus of the customer
  cleared, \* history: how long the thread was when it was last listed by a
           \* markRead that has ended
  req      \* the call in each slot

vars == <<thread, read, cleared, req>>

Idle == [pc |-> "idle", ids |-> {}, length |-> 0]

Init ==
  /\ thread = <<>>
  /\ read = {}
  /\ cleared = 0
  /\ req = [p \in Procs |-> Idle]

At(p, pc) == req[p].pc = pc
Become(p, r) == req' = [req EXCEPT ![p] = r]
Max2(m, n) == IF m > n THEN m ELSE n

\* By the customer, an agent, or a broadcast, which has no sender.
sendMessage(by) ==
  /\ Len(thread) < MaxMessages
  /\ thread' = Append(thread, [by |-> by, deleted |-> FALSE])
  /\ UNCHANGED <<read, cleared, req>>

softDelete(i) ==
  /\ i \in DOMAIN thread
  /\ thread' = [thread EXCEPT ![i].deleted = TRUE]
  /\ UNCHANGED <<read, cleared, req>>

\* Seeded fault: the list has one message less than it should.
Fault_listByConversation_Short(p) ==
  /\ At(p, "idle")
  /\ Become(p, [pc |-> "mark", length |-> Len(thread),
                ids |-> {i \in DOMAIN thread : i < Limit /\ thread[i].by # "customer"}])
  /\ UNCHANGED <<thread, read, cleared>>

listByConversation(p) ==
  /\ At(p, "idle")
  /\ Become(p, [pc |-> "mark", length |-> Len(thread),
                ids |-> {i \in DOMAIN thread : i <= Limit /\ thread[i].by # "customer"}])
  /\ UNCHANGED <<thread, read, cleared>>

\* All in one transaction; what is marked already stays so.
markRead(p) ==
  /\ At(p, "mark")
  /\ read' = read \cup req[p].ids
  /\ cleared' = Max2(cleared, req[p].length)
  /\ Become(p, Idle)
  /\ UNCHANGED thread

Abort(p) == At(p, "mark") /\ Become(p, Idle) /\ UNCHANGED <<thread, read, cleared>>

Next ==
  \/ \E by \in {"customer", "agent", "broadcast"} : sendMessage(by)
  \/ \E i \in 1..MaxMessages : softDelete(i)
  \/ \E p \in Procs : listByConversation(p) \/ markRead(p) \/ Abort(p)

Spec == Init /\ [][Next]_vars

-----------------------------------------------------------------------------

\* countUnreadForUser: no sender is not a sender other than the customer, so that
\* what was broadcast is marked as read but never counted as unread.
countUnreadForUser == {i \in DOMAIN thread : thread[i].by = "agent" /\ ~thread[i].deleted /\ i \notin read}

\* The badge of the messenger: a customer who has read the thread is told only
\* of what was sent since - or of what lies past the limit, which is never
\* marked however often they read it.
ReadClears == \A i \in countUnreadForUser : i > cleared \/ i > Limit

\* What a customer would expect of reading everything, however long the thread.
BadgeClears == \A i \in countUnreadForUser : i > cleared

(* Why it holds: what is marked is what was listed, and a thread only grows. *)

ReadMarksAssumption == Limit \in Nat

TypeOK ==
  /\ thread \in Seq([by : {"customer", "agent", "broadcast"}, deleted : BOOLEAN])
  /\ cleared \in 0..Len(thread)
  /\ DOMAIN req = Procs
  /\ \A p \in Procs : At(p, "mark") => req[p].length \in 0..Len(thread)

MarksWhatWasListed ==
  \A p \in Procs : At(p, "mark") =>
    req[p].ids = {i \in 1..req[p].length : i <= Limit /\ thread[i].by # "customer"}

IInv == TypeOK /\ MarksWhatWasListed /\ ReadClears

=============================================================================
