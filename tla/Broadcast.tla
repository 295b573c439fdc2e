------------------------------ MODULE Broadcast ------------------------------
(***************************************************************************)
(* services/broadcast.service.ts: sending one broadcast to its audience in *)
(* chunks, with several sends of it in flight, admins editing and deleting *)
(* it, failing statements and crashes.                                     *)
(*                                                                         *)
(* No transaction spans any two statements: each takes effect on its own.  *)
(* The recipients of a chunk are served concurrently (Promise.allSettled). *)
(* Titles, contents and tags are left out: a send delivers what it read in *)
(* its first statement to whomever the tags select by then.                *)
(***************************************************************************)
EXTENDS Integers, FiniteSets

CONSTANTS
  Customers,
  Procs,     \* sends in flight at one time
  ChunkSize, \* CHUNK_SIZE
  MaxSends   \* bound on the sends that go past the marking

ASSUME BroadcastAssumption ==
  /\ IsFiniteSet(Customers) /\ IsFiniteSet(Procs)
  /\ ChunkSize \in Nat \ {0} /\ MaxSends \in Nat

VARIABLES
  status,         \* of the broadcast's row, or "DELETED"
  recipientCount, \* of the row
  messages,       \* messages of this broadcast in each customer's conversation
  sends,          \* how many sends went past the marking
  req             \* the send in each slot

vars == <<status, recipientCount, messages, sends, req>>

Idle == [pc |-> "idle"]

Init ==
  /\ status = "DRAFT" /\ recipientCount = 0
  /\ messages = [u \in Customers |-> 0]
  /\ sends = 0
  /\ req = [p \in Procs |-> Idle]

Become(p, r) == req' = [req EXCEPT ![p] = r]
Advance(p, r) == Become(p, r) /\ UNCHANGED <<status, recipientCount, messages, sends>>
At(p, pc) == req[p].pc = pc

send(p) == At(p, "idle") /\ Advance(p, [pc |-> "find"])

FindBroadcast(p) ==
  /\ At(p, "find")
  /\ Advance(p, IF status \in {"DELETED", "SENT", "SENDING"} THEN Idle ELSE [pc |-> "mark"])

\* Outside the try block: a failure here leaves the row as it was.
MarkSending(p) ==
  /\ At(p, "mark")
  /\ \/ /\ status # "DELETED" /\ sends < MaxSends
        /\ status' = "SENDING" /\ sends' = sends + 1
        /\ Become(p, [pc |-> "audience"])
        /\ UNCHANGED <<recipientCount, messages>>
     \/ Advance(p, Idle)

\* Seeded fault: the loop waits for every delivery to be fulfilled.
Fault_Settled_NoRejection(r) == \A u \in DOMAIN r.chunk : r.chunk[u] = "fulfilled"

Settled(r) == \A u \in DOMAIN r.chunk : r.chunk[u] \in {"fulfilled", "rejected"}
Fulfilled(r) == {u \in DOMAIN r.chunk : r.chunk[u] = "fulfilled"}

\* The audience is read in any order: what a next chunk may be.
Chunks(remaining) ==
  {C \in SUBSET remaining :
     Cardinality(C) = ChunkSize \/ (C = remaining /\ Cardinality(C) < ChunkSize)}

\* Seeded fault: a last chunk that is not full is forgotten.
Fault_LoopHead_DropsLast(r) ==
  IF Cardinality(r.remaining) < ChunkSize
  THEN {[r EXCEPT !.pc = "sent", !.chunk = <<>>]}
  ELSE {[r EXCEPT !.remaining = @ \ C, !.chunk = [u \in C |-> "upsert"]] :
          C \in Chunks(r.remaining)}

\* The head of the chunk loop: the next chunk of those remaining, or its end.
LoopHead(r) ==
  IF r.remaining = {}
  THEN {[r EXCEPT !.pc = "sent", !.chunk = <<>>]}
  ELSE {[r EXCEPT !.remaining = @ \ C, !.chunk = [u \in C |-> "upsert"]] :
          C \in Chunks(r.remaining)}

ResolveAudience(p) ==
  /\ At(p, "audience")
  /\ \/ \E audience \in SUBSET Customers :
          LET r == [pc |-> "deliver", audience |-> audience, remaining |-> audience,
                    tried |-> {}, chunk |-> <<>>, delivered |-> 0]
          IN  \E s \in LoopHead(r) : Advance(p, s)
     \/ Advance(p, [pc |-> "catch"])

\* One statement for one recipient of the chunk: the conversation is there, or
\* made; the message is written; the conversation's preview follows.
Deliver(p, u) ==
  /\ At(p, "deliver") /\ u \in DOMAIN req[p].chunk
  /\ LET To(s) == Become(p, [req[p] EXCEPT !.chunk[u] = s])
     IN  \/ /\ req[p].chunk[u] = "upsert" /\ To("create")
            /\ UNCHANGED messages
         \/ /\ req[p].chunk[u] = "create" /\ To("preview")
            /\ messages' = [messages EXCEPT ![u] = @ + 1]
         \/ /\ req[p].chunk[u] = "preview" /\ To("fulfilled")
            /\ UNCHANGED messages
         \/ /\ req[p].chunk[u] \in {"upsert", "create", "preview"} /\ To("rejected")
            /\ UNCHANGED messages
  /\ UNCHANGED <<status, recipientCount, sends>>

\* Seeded fault: rejected deliveries are counted with the rest.
Fault_EndChunk_CountsRejected(p) ==
  /\ At(p, "deliver") /\ Settled(req[p])
  /\ LET r == req[p]
     IN  \E s \in LoopHead([r EXCEPT !.delivered = @ + Cardinality(DOMAIN r.chunk),
                                   !.tried = @ \union DOMAIN r.chunk]) : Advance(p, s)

EndChunk(p) ==
  /\ At(p, "deliver") /\ Settled(req[p])
  /\ LET r == req[p]
     IN  \E s \in LoopHead([r EXCEPT !.delivered = @ + Cardinality(Fulfilled(r)),
                                   !.tried = @ \union DOMAIN r.chunk]) : Advance(p, s)

MarkSent(p) ==
  /\ At(p, "sent")
  /\ \/ /\ status # "DELETED"
        /\ status' = "SENT" /\ recipientCount' = req[p].delivered
        /\ Become(p, Idle)
        /\ UNCHANGED <<messages, sends>>
     \/ Advance(p, [pc |-> "catch"])

\* The catch block.  Its own statement may fail too.
MarkFailed(p) ==
  /\ At(p, "catch")
  /\ \/ /\ status # "DELETED"
        /\ status' = "FAILED"
        /\ Become(p, Idle)
        /\ UNCHANGED <<recipientCount, messages, sends>>
     \/ Advance(p, Idle)

\* No status is asked for: a broadcast can be deleted while it is being sent.
remove == status # "DELETED" /\ status' = "DELETED" /\ UNCHANGED <<recipientCount, messages, sends, req>>

\* The process ends with the sends that were in flight.
Crash ==
  /\ \E p \in Procs : ~At(p, "idle")
  /\ req' = [p \in Procs |-> Idle]
  /\ UNCHANGED <<status, recipientCount, messages, sends>>

Step(p) ==
  \/ FindBroadcast(p)
  \/ MarkSending(p)
  \/ ResolveAudience(p)
  \/ \E u \in Customers : Deliver(p, u)
  \/ EndChunk(p)
  \/ MarkSent(p)
  \/ MarkFailed(p)

Next ==
  \/ \E p \in Procs : send(p) \/ Step(p)
  \/ remove
  \/ Crash

Spec == Init /\ [][Next]_vars

\* Statements are answered, with success or failure.
FairSpec == Spec /\ \A p \in Procs : WF_vars(Step(p))

-----------------------------------------------------------------------------

TypeOK ==
  /\ status \in {"DRAFT", "SENDING", "SENT", "FAILED", "DELETED"}
  /\ recipientCount \in 0..Cardinality(Customers)
  /\ messages \in [Customers -> Nat]
  /\ sends \in 0..MaxSends
  /\ \A p \in Procs : req[p].pc \in {"idle", "find", "mark", "audience", "deliver", "sent", "catch"}

\* One send never writes to one customer twice, whatever fails, overlaps or is
\* retried: nobody has more messages than there were sends.
OncePerSend == \A u \in Customers : messages[u] <= sends

\* recipientCount never claims more customers than have the message.
CountIsHonest == recipientCount <= Cardinality({u \in Customers : messages[u] > 0})

\* A send that goes on to mark the row SENT has tried its whole audience,
\* whichever deliveries failed on the way (tried is kept for this property).
NobodySkipped == \A p \in Procs : At(p, "sent") => req[p].tried = req[p].audience

\* A send that completes has tried each of its customers, and none has it twice.
EveryoneOnce == OncePerSend /\ NobodySkipped

\* Every send is answered: no failed delivery leaves it waiting.
SendsEnd == \A p \in Procs : ~At(p, "idle") ~> At(p, "idle")

-----------------------------------------------------------------------------
(* What the comments in send promise, and the code does not keep. *)

\* "Marks it SENDING first so a double-click can't send the same broadcast
\* twice": two sends of one broadcast are never delivering together.
NoDoubleSend ==
  \A p, q \in Procs : At(p, "deliver") /\ At(q, "deliver") => p = q

\* "Leave it FAILED rather than stuck on SENDING, so it can be retried": a
\* broadcast that says SENDING has a send in flight.
NeverStuck == status = "SENDING" => \E p \in Procs : ~At(p, "idle")

=============================================================================
