------------------------------- MODULE Screens -------------------------------
(***************************************************************************)
(* What open screens show of a row that changes: services write the row,   *)
(* and then send what they have in hand through realtime.service.ts.  The  *)
(* row is a ticket (adminSupport.service.ts), a message of it              *)
(* (messenger.service.ts) or the support settings.  A statement is done    *)
(* when the database does it and answered later, so two requests may send  *)
(* in another order than they wrote in.  Whether a message may be edited   *)
(* or deleted at all, and what becomes of its text, is module Messenger.   *)
(***************************************************************************)
EXTENDS TLC

CONSTANTS
  Procs,   \* requests in flight at one time
  Agents,
  NoAgent

VARIABLES
  kind,    \* which row the screens show: ticket, message or settings
  row,     \* it, in the database
  screen,  \* it, as the screens have it
  behind,  \* history: the screens were passed over since they were right
  req      \* the request in each slot

vars == <<kind, row, screen, behind, req>>

Unsent == [text |-> "", deleted |-> FALSE, liked |-> FALSE, files |-> FALSE]
First ==
  "ticket" :> [state |-> "OPEN", agent |-> NoAgent, pinned |-> FALSE, priority |-> "NORMAL"] @@
  "message" :> Unsent @@
  "settings" :> [is_online |-> TRUE, support_hours |-> "24/7"]

\* Of a request: what it will send, and whether (a history mark) the row has
\* changed since.
Idle == [pc |-> "idle", hand |-> Unsent, late |-> FALSE]

Init ==
  /\ kind \in DOMAIN First
  /\ row = First[kind] /\ screen = row
  /\ behind = FALSE
  /\ req = [p \in Procs |-> Idle]

At(p, pc) == req[p].pc = pc
Become(p, r) == req' = [req EXCEPT ![p] = r]

\* The row becomes v, which overtakes what others have in hand.  The statement
\* answers with v, and p goes on at pc.
Write(p, v, pc) ==
  /\ row' = v
  /\ req' = [q \in Procs |->
       IF q = p THEN [pc |-> pc, hand |-> v, late |-> FALSE]
       ELSE IF At(q, "emit") /\ v # row THEN [req[q] EXCEPT !.late = TRUE]
       ELSE req[q]]
  /\ UNCHANGED <<kind, screen, behind>>

\* The row as it is now is what p will send.
Reread(p) ==
  /\ Become(p, [pc |-> "emit", hand |-> row, late |-> FALSE])
  /\ UNCHANGED <<kind, row, screen, behind>>

-----------------------------------------------------------------------------
(* Tickets: the update answers with the row.                               *)

Update(p, field, v) ==
  kind = "ticket" /\ At(p, "idle") /\ Write(p, [row EXCEPT ![field] = v], "emit")

setState(p) == \E s \in {"OPEN", "RESOLVED"} : Update(p, "state", s)
assign(p) == \E a \in Agents \cup {NoAgent} : Update(p, "agent", a)
setPinned(p) == \E b \in BOOLEAN : Update(p, "pinned", b)
updateTicket(p) == \E v \in {"NORMAL", "URGENT"} : Update(p, "priority", v)

\* One statement for many tickets, and nobody is told.
Bulk(field, v) ==
  /\ kind = "ticket" /\ row[field] # v
  /\ row' = [row EXCEPT ![field] = v]
  /\ behind' = TRUE
  /\ req' = [q \in Procs |-> IF At(q, "emit") THEN [req[q] EXCEPT !.late = TRUE] ELSE req[q]]
  /\ UNCHANGED <<kind, screen>>

bulkSetState == \E s \in {"OPEN", "RESOLVED"} : Bulk("state", s)
bulkAssign == \E a \in Agents \cup {NoAgent} : Bulk("agent", a)

-----------------------------------------------------------------------------
(* Support settings: each key is a row; all are read again to be sent.     *)

\* Seeded fault: the settings are read before the key is written.
Fault_upsertSetting_SendsOld(p) ==
  /\ kind = "settings" /\ At(p, "idle")
  /\ \E b \in BOOLEAN :
       /\ row' = [row EXCEPT !.is_online = b]
       /\ Become(p, [pc |-> "emit", hand |-> row, late |-> FALSE])
  /\ UNCHANGED <<kind, screen, behind>>

upsertSetting(p) ==
  /\ kind = "settings" /\ At(p, "idle")
  /\ \/ \E b \in BOOLEAN : Write(p, [row EXCEPT !.is_online = b], "getAll")
     \/ \E h \in {"24/7", "9-5"} : Write(p, [row EXCEPT !.support_hours = h], "getAll")

getAll(p) == At(p, "getAll") /\ Reread(p)

-----------------------------------------------------------------------------
(* A message: sent, with or without files, and then changed.               *)

Sent == row.text # "" \/ row.deleted

sendMessage(p) ==
  /\ kind = "message" /\ At(p, "idle") /\ ~Sent
  /\ \E pc \in {"attach", "emit"} : Write(p, [Unsent EXCEPT !.text = "first"], pc)

\* The rows of its files come after it, and what create answered is sent.
createForMessage(p) ==
  /\ At(p, "attach")
  /\ row' = [row EXCEPT !.files = TRUE]
  /\ req' = [q \in Procs |->
       IF q = p THEN [req[p] EXCEPT !.pc = "emit", !.late = TRUE]
       ELSE IF At(q, "emit") THEN [req[q] EXCEPT !.late = TRUE] ELSE req[q]]
  /\ UNCHANGED <<kind, screen, behind>>

\* Found, and found not deleted; nothing of what was found is sent.
findForEdit(p) ==
  /\ kind = "message" /\ At(p, "idle") /\ Sent /\ ~row.deleted
  /\ Become(p, [Idle EXCEPT !.pc = "edit"])
  /\ UNCHANGED <<kind, row, screen, behind>>

edit(p) == At(p, "edit") /\ Write(p, [row EXCEPT !.text = "edited"], "emit")

\* Its files stay.
softDelete(p) ==
  /\ kind = "message" /\ At(p, "idle") /\ Sent
  /\ Write(p, [row EXCEPT !.text = "", !.deleted = TRUE], "emit")

toggleReaction(p) ==
  /\ kind = "message" /\ At(p, "idle") /\ Sent
  /\ \E add \in BOOLEAN : Write(p, [row EXCEPT !.liked = add], "findById")

findById(p) == At(p, "findById") /\ Reread(p)

-----------------------------------------------------------------------------

\* A ticket's or a message's room, or everybody: one event.
emit(p) ==
  /\ At(p, "emit")
  /\ screen' = req[p].hand
  /\ behind' = req[p].late
  /\ Become(p, Idle)
  /\ UNCHANGED <<kind, row>>

\* The screen is opened anew.
Open ==
  /\ screen' = row /\ behind' = FALSE
  /\ UNCHANGED <<kind, row, req>>

Pending(p) == req[p].pc \in {"getAll", "attach", "findById", "emit"}

\* A statement fails, or the process ends.
Abort(p) ==
  /\ ~At(p, "idle")
  /\ behind' = (behind \/ Pending(p))
  /\ Become(p, Idle)
  /\ UNCHANGED <<kind, row, screen>>

Next ==
  \/ \E p \in Procs :
       \/ setState(p) \/ assign(p) \/ setPinned(p) \/ updateTicket(p)
       \/ upsertSetting(p) \/ getAll(p)
       \/ sendMessage(p) \/ createForMessage(p) \/ findForEdit(p) \/ edit(p)
       \/ softDelete(p) \/ toggleReaction(p) \/ findById(p)
       \/ emit(p) \/ Abort(p)
  \/ bulkSetState \/ bulkAssign
  \/ Open

Spec == Init /\ [][Next]_vars

-----------------------------------------------------------------------------

\* "Online / Offline ... has to reflect the admin toggle immediately", and so
\* for tickets and messages: what screens show is the row, or a request has yet
\* to send, or they were passed over - by a request that died, by a bulk
\* update, by files added after the message was in hand, or by two answers
\* that were sent in the other order.
ScreensFollow ==
  screen # row => behind \/ \E p \in Procs : Pending(p)

\* The comment itself: once nothing is on its way, the screens are right.
ScreensSettle == (\A p \in Procs : At(p, "idle")) => screen = row

\* "participants stop seeing it immediately": of a message whose deletion was
\* sent, screens show neither text nor files.
DeletedIsGone ==
  (\A p \in Procs : At(p, "idle")) =>
    (kind = "message" /\ row.deleted => screen.text = "" /\ ~screen.files)

(* Why screens follow: what is in hand is the row, or marked late.          *)

TypeOK ==
  /\ behind \in BOOLEAN /\ DOMAIN req = Procs
  /\ \A p \in Procs : DOMAIN req[p] = DOMAIN Idle /\ req[p].late \in BOOLEAN

InHandIsTheRow == \A p \in Procs : At(p, "emit") /\ ~req[p].late => req[p].hand = row

IInv == TypeOK /\ InHandIsTheRow /\ ScreensFollow

=============================================================================
