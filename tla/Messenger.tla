------------------------------ MODULE Messenger ------------------------------
(***************************************************************************)
(* The support conversation of one customer: services/messenger.service.ts *)
(* (the customer's side) and services/adminSupport.service.ts (the agents' *)
(* side) at work on the same rows, statement by statement.                 *)
(***************************************************************************)
EXTENDS Integers

CONSTANTS
  Procs,    \* requests in flight at one time
  Ids,      \* messages
  MaxGens   \* bound on the conversations created, one after the other

ASSUME MessengerAssumption == MaxGens \in Nat

VARIABLES
  conv,     \* the customer's conversation; gen tells it from deleted ones
  messages, \* the messages, by id
  audits,   \* MessageAudit: the text kept of each message, if any
  written,  \* history: has the customer written since an agent last set the
            \* state, in time to see it, or too late
  req       \* the request in each slot

vars == <<conv, messages, audits, written, req>>

States == {"OPEN", "RESOLVED"}  \* ARCHIVED is treated as RESOLVED is
Unsent == [row |-> "unsent", text |-> "", deleted |-> FALSE]
Idle ==
  [pc |-> "idle", by |-> "user", gen |-> 0, seen |-> "OPEN", late |-> FALSE, id |-> "none", text |-> ""]

Init ==
  /\ conv = [gen |-> 0, exists |-> FALSE, state |-> "OPEN"]
  /\ messages = [i \in Ids |-> Unsent]
  /\ audits = [i \in Ids |-> "none"]
  /\ written = "no"
  /\ req = [p \in Procs |-> Idle]

At(p, pc) == req[p].pc = pc
Become(p, r) == req' = [req EXCEPT ![p] = r]
Goto(p, pc) == Become(p, [req[p] EXCEPT !.pc = pc])
Live(i) == messages[i].row = "live"

\* A statement by the id of a conversation: it fails, and the request with it,
\* once that conversation is gone.
Mine(p) == conv.exists /\ conv.gen = req[p].gen
Reject(p) == Become(p, Idle) /\ UNCHANGED <<conv, messages, audits, written>>

-----------------------------------------------------------------------------

\* Sending, by the customer and by an agent.

getOrCreateForUser(p) ==
  /\ At(p, "idle")
  /\ \/ conv.exists /\ UNCHANGED conv
     \/ /\ ~conv.exists /\ conv.gen < MaxGens
        /\ conv' = [gen |-> conv.gen + 1, exists |-> TRUE, state |-> "OPEN"]
  /\ Become(p, [Idle EXCEPT !.pc = "create", !.gen = conv'.gen, !.seen = conv'.state])
  /\ UNCHANGED <<messages, audits, written>>

reply(p) ==
  /\ At(p, "idle") /\ conv.exists
  /\ Become(p, [Idle EXCEPT !.pc = "create", !.by = "agent", !.gen = conv.gen])
  /\ UNCHANGED <<conv, messages, audits, written>>

create(p) ==
  /\ At(p, "create")
  /\ IF Mine(p)
     THEN /\ \E i \in Ids :
               /\ messages[i].row = "unsent"
               /\ messages' = [messages EXCEPT ![i] = [row |-> "live", text |-> "first", deleted |-> FALSE]]
          /\ written' = IF req[p].by = "agent" \/ written = "timely" THEN written
                        ELSE IF req[p].late THEN "late" ELSE "timely"
          /\ Goto(p, "touch")
          /\ UNCHANGED <<conv, audits>>
     ELSE Reject(p)

\* Seeded fault: the state read at the start is not looked at.
Fault_touch_ForgetsState(p) ==
  /\ At(p, "touch")
  /\ Become(p, Idle)
  /\ UNCHANGED <<conv, messages, audits, written>>

\* The preview and the game context; whether to reopen was read at the start.
touch(p) ==
  /\ At(p, "touch")
  /\ IF Mine(p) /\ req[p].seen # "OPEN" THEN Goto(p, "reopen") ELSE Become(p, Idle)
  /\ UNCHANGED <<conv, messages, audits, written>>

reopen(p) ==
  /\ At(p, "reopen")
  /\ IF Mine(p)
     THEN /\ conv' = [conv EXCEPT !.state = "OPEN"]
          /\ Become(p, Idle)
          /\ UNCHANGED <<messages, audits, written>>
     ELSE Reject(p)

-----------------------------------------------------------------------------

\* Editing and deleting a message of one's own.

findForEdit(p) ==
  /\ At(p, "idle")
  /\ \E i \in Ids :
       /\ Live(i) /\ ~messages[i].deleted
       /\ Become(p, [Idle EXCEPT !.pc = "edit", !.id = i])
  /\ UNCHANGED <<conv, messages, audits, written>>

edit(p) ==
  LET i == req[p].id IN
  /\ At(p, "edit")
  /\ IF Live(i)
     THEN /\ messages' = [messages EXCEPT ![i].text = "edited"]
          /\ Become(p, Idle)
          /\ UNCHANGED <<conv, audits, written>>
     ELSE Reject(p)

\* A message that is deleted already may be deleted again.
findForDelete(p) ==
  /\ At(p, "idle")
  /\ \E i \in Ids :
       /\ Live(i)
       /\ Become(p, [Idle EXCEPT !.pc = "audit", !.id = i, !.text = messages[i].text])
  /\ UNCHANGED <<conv, messages, audits, written>>

\* Seeded fault: the upsert overwrites an audit that is there.
Fault_auditUpsert_Overwrites(p) ==
  /\ At(p, "audit")
  /\ audits' = [audits EXCEPT ![req[p].id] = req[p].text]
  /\ Goto(p, "blank")
  /\ UNCHANGED <<conv, messages, written>>

\* An upsert whose update is empty: the first copy stays.
auditUpsert(p) ==
  LET i == req[p].id IN
  /\ At(p, "audit")
  /\ audits' = [audits EXCEPT ![i] = IF @ = "none" THEN req[p].text ELSE @]
  /\ Goto(p, "blank")
  /\ UNCHANGED <<conv, messages, written>>

softDelete(p) ==
  LET i == req[p].id IN
  /\ At(p, "blank")
  /\ IF Live(i)
     THEN /\ messages' = [messages EXCEPT ![i].text = "", ![i].deleted = TRUE]
          /\ Become(p, Idle)
          /\ UNCHANGED <<conv, audits, written>>
     ELSE Reject(p)

-----------------------------------------------------------------------------

\* An agent sets the state, of this conversation or of many at once; a message
\* on its way comes too late to see it.
setState ==
  /\ conv.exists
  /\ \E s \in States : conv' = [conv EXCEPT !.state = s]
  /\ written' = "no"
  /\ req' = [p \in Procs |-> IF At(p, "create") THEN [req[p] EXCEPT !.late = TRUE] ELSE req[p]]
  /\ UNCHANGED <<messages, audits>>

\* The messages go with their conversation; the audits stay.
deleteConversation ==
  /\ conv.exists /\ conv.gen < MaxGens
  /\ conv' = [conv EXCEPT !.exists = FALSE]
  /\ messages' = [i \in Ids |-> IF Live(i) THEN [Unsent EXCEPT !.row = "gone"] ELSE messages[i]]
  /\ written' = "no"
  /\ UNCHANGED <<audits, req>>

\* A request dies; a message it wrote may have wanted the thread reopened.
Abort(p) ==
  /\ ~At(p, "idle")
  /\ written' = IF req[p].pc \in {"touch", "reopen"} /\ written = "timely" THEN "late" ELSE written
  /\ Become(p, Idle)
  /\ UNCHANGED <<conv, messages, audits>>

Next ==
  \/ \E p \in Procs :
       \/ getOrCreateForUser(p) \/ reply(p)
       \/ create(p) \/ touch(p) \/ reopen(p)
       \/ findForEdit(p) \/ edit(p)
       \/ findForDelete(p) \/ auditUpsert(p) \/ softDelete(p)
       \/ Abort(p)
  \/ setState
  \/ deleteConversation

Spec == Init /\ [][Next]_vars

-----------------------------------------------------------------------------

Texts == {"", "first", "edited"}

TypeOK ==
  /\ conv \in [gen : 0..MaxGens, exists : BOOLEAN, state : States]
  /\ messages \in [Ids -> [row : {"unsent", "live", "gone"}, text : Texts, deleted : BOOLEAN]]
  /\ audits \in [Ids -> Texts \cup {"none"}]
  /\ written \in {"no", "late", "timely"}
  /\ req \in [Procs -> [pc : {"idle", "create", "touch", "reopen", "edit", "audit", "blank"},
                        by : {"user", "agent"}, gen : 0..MaxGens, seen : States,
                        late : BOOLEAN, id : Ids \cup {"none"}, text : Texts]]

\* What was said is not lost: a message is blanked only when a copy of its text
\* has been kept, and no later deletion puts the blank in its place.
AuditKept == \A i \in Ids : messages[i].deleted => audits[i] \notin {"none", ""}

\* No message outlives its conversation.
NoOrphans == (\E i \in Ids : Live(i)) => conv.exists

\* A customer who writes in time to see the thread closed has it reopened: it
\* stays closed only while that message is on its way, or if its request died.
ReopensInTime ==
  written = "timely" /\ conv.state # "OPEN" =>
    \E p \in Procs : req[p].pc \in {"touch", "reopen"} /\ req[p].seen # "OPEN" /\ Mine(p)

\* Why nothing blank is kept: a request that is to copy or to blank a message
\* has its text, or finds a copy there.
CopyFirst ==
  \A p \in Procs :
    /\ At(p, "audit") => req[p].text # "" \/ audits[req[p].id] # "none"
    /\ At(p, "blank") => audits[req[p].id] # "none"

IInv ==
  /\ TypeOK /\ CopyFirst /\ AuditKept
  /\ \A i \in Ids : audits[i] # "" /\ (Live(i) /\ messages[i].text = "" => messages[i].deleted)

-----------------------------------------------------------------------------

\* "Reopen the thread if the user writes after it was resolved/archived.": at
\* rest, a thread the customer has written to since an agent set it is open.
ReopenedByWriting ==
  (\A p \in Procs : At(p, "idle")) /\ written # "no" => conv.state = "OPEN"

\* "Deletes a message for everyone": a deleted message shows nothing.
DeletedStaysBlank == \A i \in Ids : messages[i].deleted => messages[i].text = ""

\* "The original text is copied into MessageAudit first": the text a deletion
\* takes away is the text that was kept.
DeletedTextKept ==
  [][\A i \in Ids : ~messages[i].deleted /\ messages'[i].deleted => audits[i] = messages[i].text]_vars

=============================================================================
