--------------------------- MODULE SupportProofs ----------------------------
(***************************************************************************)
(* A customer's conversation, for any messages and requests: a deleted     *)
(* message has its text in the audit, and a customer who writes in time    *)
(* has a closed thread reopened.  Then the same is done for what MCSupport *)
(* composes it with: the file agents keep of a customer, what customers    *)
(* have read, and what open screens show.                                  *)
(***************************************************************************)
EXTENDS MCSupport, Sequences, NaturalsInduction, WellFoundedInduction, TLAPS

Message == [row : {"unsent", "live", "gone"}, text : Texts, deleted : BOOLEAN]
Request ==
  [pc : {"idle", "create", "touch", "reopen", "edit", "audit", "blank"},
   by : {"user", "agent"}, gen : 0..MaxGens, seen : States,
   late : BOOLEAN, id : Ids \cup {"none"}, text : Texts]

\* The requests that have a message in hand name one.
Named == \A p \in Procs : req[p].pc \in {"edit", "audit", "blank"} => req[p].id \in Ids

\* A message shows nothing only if it is deleted, and no copy is blank.
NotBlank == \A i \in Ids : audits[i] # "" /\ (Live(i) /\ messages[i].text = "" => messages[i].deleted)

Inv == IInv /\ Named

LEMMA Parts ==
  IInv <=>
    /\ conv \in [gen : 0..MaxGens, exists : BOOLEAN, state : States]
    /\ messages \in [Ids -> Message]
    /\ audits \in [Ids -> Texts \cup {"none"}]
    /\ written \in {"no", "late", "timely"}
    /\ req \in [Procs -> Request]
    /\ CopyFirst /\ AuditKept /\ NotBlank
BY DEF IInv, TypeOK, Message, Request, NotBlank

LEMMA InitInv == Init => Inv
<1> SUFFICES ASSUME Init PROVE Inv
  OBVIOUS
<1>1. 0 \in 0..MaxGens
  BY MessengerAssumption
<1>2. TypeOK
  BY <1>1 DEF Init, TypeOK, Unsent, Idle, States, Texts
<1>3. CopyFirst /\ AuditKept /\ NotBlank /\ Named
  BY DEF Init, CopyFirst, AuditKept, NotBlank, Named, Live, Unsent, Idle, At
<1>4. QED
  BY <1>2, <1>3 DEF Inv, IInv, NotBlank

\* A request moves on, and neither the messages nor their copies change.
LEMMA RequestStep ==
  ASSUME Inv, NEW p \in Procs, NEW r \in Request, req' = [req EXCEPT ![p] = r],
         UNCHANGED <<messages, audits>>,
         conv' \in [gen : 0..MaxGens, exists : BOOLEAN, state : States],
         written' \in {"no", "late", "timely"},
         r.pc \in {"edit", "audit", "blank"} => r.id \in Ids,
         r.pc = "audit" => r.text # "" \/ audits[r.id] # "none",
         r.pc # "blank"
  PROVE  Inv'
<1>1. req \in [Procs -> Request] /\ req'[p] = r /\ \A q \in Procs \ {p} : req'[q] = req[q]
  BY Parts DEF Inv
<1>2. req' \in [Procs -> Request]
  BY <1>1
<1>3. CopyFirst' /\ Named'
  BY <1>1, Parts DEF Inv, CopyFirst, Named, At
<1>4. AuditKept' /\ NotBlank'
  BY Parts DEF Inv, AuditKept, NotBlank, Live
<1>5. TypeOK'
  BY <1>2, Parts DEF Inv, TypeOK, Message, Request
<1>6. QED
  BY <1>3, <1>4, <1>5 DEF Inv, IInv, NotBlank

\* A request changes one message and is over, or goes on without one.
LEMMA MessageStep ==
  ASSUME Inv, NEW p \in Procs, NEW r \in Request, req' = [req EXCEPT ![p] = r],
         NEW i \in Ids, NEW msg \in Message, messages' = [messages EXCEPT ![i] = msg],
         UNCHANGED <<conv, audits>>, written' \in {"no", "late", "timely"},
         r.pc \in {"idle", "touch"},
         msg.deleted => audits[i] # "none",
         msg.row = "live" /\ msg.text = "" => msg.deleted
  PROVE  Inv'
<1>1. /\ req \in [Procs -> Request] /\ req'[p] = r /\ \A q \in Procs \ {p} : req'[q] = req[q]
      /\ messages \in [Ids -> Message] /\ messages'[i] = msg /\ \A j \in Ids \ {i} : messages'[j] = messages[j]
  BY Parts DEF Inv
<1>2. req' \in [Procs -> Request] /\ messages' \in [Ids -> Message]
  BY <1>1
<1>3. CopyFirst' /\ Named'
  BY <1>1, Parts DEF Inv, CopyFirst, Named, At
<1>4. AuditKept' /\ NotBlank'
  BY <1>1, Parts DEF Inv, AuditKept, NotBlank, Live
<1>5. TypeOK'
  BY <1>2, Parts DEF Inv, TypeOK, Message, Request
<1>6. QED
  BY <1>3, <1>4, <1>5 DEF Inv, IInv, NotBlank

LEMMA AuditStep ==
  ASSUME Inv, NEW p \in Procs, auditUpsert(p)
  PROVE  Inv'
<1>1. /\ req \in [Procs -> Request] /\ req[p] \in Request /\ audits \in [Ids -> Texts \cup {"none"}]
      /\ req[p].pc = "audit" /\ req[p].id \in Ids /\ req[p].text \in Texts
      /\ req[p].text # "" \/ audits[req[p].id] # "none"
  BY Parts DEF Inv, auditUpsert, CopyFirst, Named, At, Request
<1>2. PICK i \in Ids, t \in Texts : i = req[p].id /\ t = req[p].text
  BY <1>1
<1>3. PICK r \in Request : r = [req[p] EXCEPT !.pc = "blank"]
  <2>1. [req[p] EXCEPT !.pc = "blank"] \in Request
    BY <1>1 DEF Request
  <2>2. QED
    BY <2>1
<1>4. r.pc = "blank" /\ r.id = i
  BY <1>1, <1>2, <1>3 DEF Request
<1>5. /\ UNCHANGED <<conv, messages, written>> /\ req' = [req EXCEPT ![p] = r]
      /\ audits' = [audits EXCEPT ![i] = IF audits[i] = "none" THEN t ELSE audits[i]]
  BY <1>2, <1>3 DEF auditUpsert, Goto, Become
<1>6. /\ \A q \in Procs \ {p} : req'[q] = req[q]
      /\ req'[p] = r
      /\ audits'[i] = IF audits[i] = "none" THEN t ELSE audits[i]
      /\ \A j \in Ids \ {i} : audits'[j] = audits[j]
  BY <1>1, <1>5
<1>7. t # "none" /\ (t # "" \/ audits[i] # "none")
  BY <1>1, <1>2 DEF Texts
<1>8. \A j \in Ids : audits[j] # "none" => audits'[j] # "none"
  BY <1>6, <1>7
<1>9. TypeOK'
  <2>1. req' \in [Procs -> Request] /\ audits' \in [Ids -> Texts \cup {"none"}]
    BY <1>1, <1>5
  <2>2. QED
    BY <1>5, <2>1, Parts DEF Inv, TypeOK, Message, Request
<1>10. CopyFirst' /\ Named'
  <2> SUFFICES ASSUME NEW q \in Procs
               PROVE  /\ req'[q].pc = "audit" => req'[q].text # "" \/ audits'[req'[q].id] # "none"
                      /\ req'[q].pc = "blank" => audits'[req'[q].id] # "none"
                      /\ req'[q].pc \in {"edit", "audit", "blank"} => req'[q].id \in Ids
    BY DEF CopyFirst, Named, At
  <2>1. CASE q = p
    BY <1>4, <1>6, <1>7, <2>1
  <2>2. CASE q # p
    <3>1. req'[q] = req[q]
      BY <1>6, <2>2
    <3>2. /\ req[q].pc \in {"edit", "audit", "blank"} => req[q].id \in Ids
          /\ req[q].pc = "audit" => req[q].text # "" \/ audits[req[q].id] # "none"
          /\ req[q].pc = "blank" => audits[req[q].id] # "none"
      BY Parts DEF Inv, CopyFirst, Named, At
    <3>3. QED
      BY <1>8, <3>1, <3>2
  <2>3. QED
    BY <2>1, <2>2
<1>11. AuditKept' /\ NotBlank'
  BY <1>5, <1>6, <1>7, <1>8, Parts DEF Inv, AuditKept, NotBlank, Live
<1>12. QED
  BY <1>9, <1>10, <1>11 DEF Inv, IInv, NotBlank

LEMMA StepInv == Inv /\ [Next]_vars => Inv'
<1> SUFFICES ASSUME Inv, [Next]_vars PROVE Inv'
  OBVIOUS
<1>1. /\ conv \in [gen : 0..MaxGens, exists : BOOLEAN, state : States]
      /\ messages \in [Ids -> Message] /\ audits \in [Ids -> Texts \cup {"none"}]
      /\ written \in {"no", "late", "timely"} /\ req \in [Procs -> Request]
  BY Parts DEF Inv
<1>2. Idle \in Request /\ Idle.pc = "idle" /\ "OPEN" \in States /\ 0 \in 0..MaxGens
  BY MessengerAssumption DEF Idle, Request, States, Texts
\* A request that is over.
<1>3. ASSUME NEW p \in Procs, Become(p, Idle), UNCHANGED <<messages, audits>>,
             conv' \in [gen : 0..MaxGens, exists : BOOLEAN, state : States],
             written' \in {"no", "late", "timely"}
      PROVE  Inv'
  BY <1>2, <1>3, RequestStep DEF Become
<1>4. ASSUME NEW p \in Procs, Reject(p) PROVE Inv'
  BY <1>1, <1>3, <1>4 DEF Reject
<1>5. ASSUME NEW p \in Procs, getOrCreateForUser(p) PROVE Inv'
  <2>1. conv' \in [gen : 0..MaxGens, exists : BOOLEAN, state : States]
    <3>1. CASE UNCHANGED conv
      BY <1>1, <3>1
    <3>2. CASE conv.gen < MaxGens /\ conv' = [gen |-> conv.gen + 1, exists |-> TRUE, state |-> "OPEN"]
      <4>1. conv.gen \in Nat /\ MaxGens \in Nat
        BY <1>1, MessengerAssumption
      <4>2. conv.gen + 1 \in 0..MaxGens
        BY <3>2, <4>1
      <4>3. QED
        BY <1>2, <3>2, <4>2
    <3>3. QED
      BY <1>5, <3>1, <3>2 DEF getOrCreateForUser
  <2>2. PICK r : r = [Idle EXCEPT !.pc = "create", !.gen = conv'.gen, !.seen = conv'.state]
    OBVIOUS
  <2>3. r \in Request /\ r.pc = "create"
    BY <1>2, <2>1, <2>2 DEF Idle, Request
  <2>4. req' = [req EXCEPT ![p] = r] /\ UNCHANGED <<messages, audits, written>>
    BY <1>5, <2>2 DEF getOrCreateForUser, Become
  <2>5. QED
    BY <1>1, <2>1, <2>3, <2>4, RequestStep
<1>6. ASSUME NEW p \in Procs, reply(p) PROVE Inv'
  <2>1. PICK r : r = [Idle EXCEPT !.pc = "create", !.by = "agent", !.gen = conv.gen]
    OBVIOUS
  <2>2. r \in Request /\ r.pc = "create"
    BY <1>1, <1>2, <2>1 DEF Idle, Request
  <2>3. req' = [req EXCEPT ![p] = r] /\ UNCHANGED <<conv, messages, audits, written>>
    BY <1>6, <2>1 DEF reply, Become
  <2>4. QED
    BY <1>1, <2>2, <2>3, RequestStep
<1>7. ASSUME NEW p \in Procs, create(p) PROVE Inv'
  <2>1. CASE Mine(p)
    <3>1. PICK i \in Ids :
            /\ messages[i].row = "unsent"
            /\ messages' = [messages EXCEPT ![i] = [row |-> "live", text |-> "first", deleted |-> FALSE]]
      BY <1>7, <2>1 DEF create
    <3>2. PICK msg \in Message : msg = [row |-> "live", text |-> "first", deleted |-> FALSE]
      BY DEF Message, Texts
    <3>7. req[p] \in Request
      BY <1>1
    <3>3. PICK r \in Request : r = [req[p] EXCEPT !.pc = "touch"]
      BY <3>7 DEF Request
    <3>4. r.pc = "touch"
      BY <3>3, <3>7 DEF Request
    <3>5. /\ req' = [req EXCEPT ![p] = r] /\ UNCHANGED <<conv, audits>>
          /\ written' \in {"no", "late", "timely"}
      <4>1. Goto(p, "touch") /\ UNCHANGED <<conv, audits>> /\ written' \in {written, "late", "timely"}
        BY <1>7, <2>1 DEF create
      <4>2. QED
        BY <1>1, <3>3, <4>1 DEF Goto, Become
    <3>6. QED
      BY <3>1, <3>2, <3>4, <3>5, MessageStep
  <2>2. CASE ~Mine(p)
    BY <1>4, <1>7, <2>2 DEF create
  <2>3. QED
    BY <2>1, <2>2
<1>8. ASSUME NEW p \in Procs, touch(p) PROVE Inv'
  <2>1. CASE Goto(p, "reopen")
    <3>4. req[p] \in Request
      BY <1>1
    <3>1. PICK r \in Request : r = [req[p] EXCEPT !.pc = "reopen"]
      BY <3>4 DEF Request
    <3>2. r.pc = "reopen"
      BY <3>1, <3>4 DEF Request
    <3>5. req' = [req EXCEPT ![p] = r] /\ UNCHANGED <<conv, messages, audits, written>>
      BY <1>8, <2>1, <3>1 DEF touch, Goto, Become
    <3>3. QED
      BY <1>1, <3>1, <3>2, <3>5, RequestStep
  <2>2. CASE Become(p, Idle)
    BY <1>1, <1>3, <1>8, <2>2 DEF touch
  <2>3. QED
    BY <1>8, <2>1, <2>2 DEF touch
<1>9. ASSUME NEW p \in Procs, reopen(p) PROVE Inv'
  <2>1. CASE Mine(p)
    <3>1. conv' \in [gen : 0..MaxGens, exists : BOOLEAN, state : States]
      BY <1>1, <1>2, <1>9, <2>1 DEF reopen
    <3>2. QED
      BY <1>1, <1>3, <1>9, <2>1, <3>1 DEF reopen
  <2>2. CASE ~Mine(p)
    BY <1>4, <1>9, <2>2 DEF reopen
  <2>3. QED
    BY <2>1, <2>2
<1>10. ASSUME NEW p \in Procs, findForEdit(p) PROVE Inv'
  <2>1. PICK i \in Ids : Become(p, [Idle EXCEPT !.pc = "edit", !.id = i])
    BY <1>10 DEF findForEdit
  <2>2. PICK r : r = [Idle EXCEPT !.pc = "edit", !.id = i]
    OBVIOUS
  <2>3. r \in Request /\ r.pc = "edit" /\ r.id = i
    BY <1>2, <2>2 DEF Idle, Request
  <2>4. QED
    BY <1>1, <1>10, <2>1, <2>2, <2>3, RequestStep DEF findForEdit, Become
<1>11. ASSUME NEW p \in Procs, findForDelete(p) PROVE Inv'
  <2>1. PICK i \in Ids :
          Live(i) /\ Become(p, [Idle EXCEPT !.pc = "audit", !.id = i, !.text = messages[i].text])
    BY <1>11 DEF findForDelete
  <2>2. PICK t \in Texts : t = messages[i].text
    BY <1>1 DEF Message
  <2>3. PICK r : r = [Idle EXCEPT !.pc = "audit", !.id = i, !.text = t]
    OBVIOUS
  <2>4. r \in Request /\ r.pc = "audit" /\ r.id = i /\ r.text = t
    BY <1>2, <2>3 DEF Idle, Request
  <2>5. t # "" \/ audits[i] # "none"
    BY <2>1, <2>2, Parts DEF Inv, NotBlank, AuditKept
  <2>6. QED
    BY <1>1, <1>11, <2>1, <2>2, <2>3, <2>4, <2>5, RequestStep DEF findForDelete, Become
<1>12. ASSUME NEW p \in Procs, edit(p) \/ softDelete(p), Live(req[p].id) PROVE Inv'
  <2>1. PICK i \in Ids : i = req[p].id
    BY <1>12 DEF Inv, Named, edit, softDelete, At
  <2>2. messages[i] \in Message /\ messages[i].row = "live" /\ (messages[i].deleted => audits[i] # "none")
    BY <1>1, <1>12, <2>1, Parts DEF Inv, AuditKept, Live
  <2>3. Become(p, Idle) /\ UNCHANGED <<conv, audits, written>>
    BY <1>12 DEF edit, softDelete
  <2>4. CASE edit(p)
    <3>1. PICK msg \in Message : msg = [messages[i] EXCEPT !.text = "edited"]
      BY <2>2 DEF Message, Texts
    <3>2. msg.deleted = messages[i].deleted /\ msg.text = "edited"
      BY <2>2, <3>1 DEF Message
    <3>3. messages' = [messages EXCEPT ![i] = msg]
      BY <1>12, <2>1, <2>4, <3>1 DEF edit
    <3>4. msg.deleted => audits[i] # "none"
      BY <2>2, <3>2
    <3>5. QED
      BY <1>1, <1>2, <2>3, <3>2, <3>3, <3>4, MessageStep DEF Become
  <2>5. CASE softDelete(p)
    <3>1. PICK msg \in Message : msg = [messages[i] EXCEPT !.text = "", !.deleted = TRUE]
      BY <2>2 DEF Message, Texts
    <3>2. msg.deleted /\ msg.text = ""
      BY <2>2, <3>1 DEF Message
    <3>3. messages' = [messages EXCEPT ![i] = msg]
      BY <1>12, <2>1, <2>2, <2>5, <3>1 DEF softDelete, Message
    <3>4. audits[i] # "none"
      BY <2>1, <2>5, Parts DEF Inv, CopyFirst, softDelete
    <3>5. QED
      BY <1>1, <1>2, <2>3, <3>2, <3>3, <3>4, MessageStep DEF Become
  <2>6. QED
    BY <1>12, <2>4, <2>5
<1>13. ASSUME NEW p \in Procs, edit(p) \/ softDelete(p), ~Live(req[p].id) PROVE Inv'
  BY <1>4, <1>13 DEF edit, softDelete
<1>14. ASSUME NEW p \in Procs, Abort(p) PROVE Inv'
  BY <1>1, <1>3, <1>14 DEF Abort
<1>15. CASE setState
  <2>1. req' \in [Procs -> Request]
    <3>1. \A p \in Procs : req[p] \in Request /\ [req[p] EXCEPT !.late = TRUE] \in Request
      <4>1. ASSUME NEW r \in Request PROVE [r EXCEPT !.late = TRUE] \in Request
        BY DEF Request
      <4>2. QED
        BY <1>1, <4>1
    <3>2. QED
      BY <1>15, <3>1 DEF setState
  <2>2. /\ conv' \in [gen : 0..MaxGens, exists : BOOLEAN, state : States]
        /\ UNCHANGED <<messages, audits>> /\ written' = "no"
    BY <1>1, <1>15 DEF setState
  <2>3. \A p \in Procs : req'[p].pc = req[p].pc /\ req'[p].id = req[p].id /\ req'[p].text = req[p].text
    BY <1>1, <1>15 DEF setState, Request
  <2>4. CopyFirst' /\ Named'
    BY <2>2, <2>3, Parts DEF Inv, CopyFirst, Named, At
  <2>5. AuditKept' /\ NotBlank'
    BY <2>2, Parts DEF Inv, AuditKept, NotBlank, Live
  <2>6. TypeOK'
    BY <1>1, <2>1, <2>2 DEF TypeOK, Message, Request
  <2>7. QED
    BY <2>4, <2>5, <2>6 DEF Inv, IInv, NotBlank
<1>16. CASE deleteConversation
  <2>1. /\ UNCHANGED <<audits, req>> /\ written' = "no"
        /\ conv' \in [gen : 0..MaxGens, exists : BOOLEAN, state : States]
    BY <1>1, <1>16 DEF deleteConversation
  <2>2. \A i \in Ids : IF Live(i) THEN messages'[i] = [Unsent EXCEPT !.row = "gone"] ELSE messages'[i] = messages[i]
    BY <1>16 DEF deleteConversation
  <2>3. messages' \in [Ids -> Message]
    BY <1>1, <1>16 DEF deleteConversation, Message, Unsent, Texts
  <2>4. \A i \in Ids : ~Live(i)' /\ (messages'[i].deleted => messages[i].deleted)
    BY <1>1, <2>2 DEF Live, Unsent, Message
  <2>5. AuditKept' /\ NotBlank'
    BY <2>1, <2>4, Parts DEF Inv, AuditKept, NotBlank
  <2>6. CopyFirst' /\ Named'
    BY <2>1, Parts DEF Inv, CopyFirst, Named, At
  <2>7. TypeOK'
    BY <1>1, <2>1, <2>3 DEF TypeOK, Message, Request
  <2>8. QED
    BY <2>5, <2>6, <2>7 DEF Inv, IInv, NotBlank
<1>17. CASE UNCHANGED vars
  BY <1>17, Parts DEF vars, Inv, IInv, TypeOK, CopyFirst, AuditKept, Named, Live, At
<1>18. ASSUME NEW p \in Procs, edit(p) \/ softDelete(p) PROVE Inv'
  BY <1>12, <1>13, <1>18
<1>19. QED
  BY <1>5, <1>6, <1>7, <1>8, <1>9, <1>10, <1>11, <1>14, <1>15, <1>16, <1>17, <1>18, AuditStep DEF Next

\* The messages and the copies kept of them: well typed, and a copy is made
\* before a message is blanked.
THEOREM Invariance == Spec => []IInv
<1>1. Inv => IInv
  BY DEF Inv
<1>2. QED
  BY <1>1, InitInv, StepInv, PTL DEF Spec

\* A message that was deleted for everyone has a copy of something it said.
THEOREM AuditIsKept == Spec => []AuditKept
<1>1. IInv => AuditKept
  BY DEF IInv
<1>2. QED
  BY <1>1, Invariance, PTL

-----------------------------------------------------------------------------

\* A customer's message that is on its way and not too late has seen the thread
\* closed, if it is.
SeesItClosed ==
  \A p \in Procs :
    /\ At(p, "create") /\ req[p].by = "user" /\ ~req[p].late
    /\ Mine(p) /\ conv.state # "OPEN"
    => req[p].seen # "OPEN"

\* A request that will reopen the thread.
Reopening(p) == req[p].pc \in {"touch", "reopen"} /\ req[p].seen # "OPEN" /\ Mine(p)

\* A step of p that changes neither the conversation nor who has written, and
\* after which p is not before its message.
Aside(p) ==
  /\ UNCHANGED <<conv, written>>
  /\ \A q \in Procs \ {p} : req'[q] = req[q]
  /\ ~At(p, "create")'
  /\ Reopening(p) => Reopening(p)'

LEMMA AsideSteps ==
  ASSUME Inv, NEW p \in Procs,
         \/ touch(p) \/ findForEdit(p) \/ edit(p)
         \/ findForDelete(p) \/ auditUpsert(p) \/ softDelete(p)
         \/ (create(p) \/ reopen(p)) /\ ~Mine(p)
  PROVE  Aside(p)
<1>1. req \in [Procs -> Request] /\ req[p] \in Request
  BY Parts DEF Inv
<1>2. Idle.pc = "idle"
  BY DEF Idle
<1>3. ASSUME NEW r, Become(p, r)
      PROVE  req'[p] = r /\ \A q \in Procs \ {p} : req'[q] = req[q]
  BY <1>1, <1>3 DEF Become
<1>4. ASSUME NEW pc, Goto(p, pc)
      PROVE  /\ req'[p].pc = pc /\ req'[p].seen = req[p].seen /\ req'[p].gen = req[p].gen
             /\ \A q \in Procs \ {p} : req'[q] = req[q]
  BY <1>1, <1>4 DEF Goto, Become, Request
<1>5. CASE touch(p)
  BY <1>2, <1>3, <1>4, <1>5 DEF touch, Aside, Reopening, Mine, At
<1>6. CASE findForEdit(p)
  <2>1. PICK i \in Ids : Become(p, [Idle EXCEPT !.pc = "edit", !.id = i])
    BY <1>6 DEF findForEdit
  <2>2. [Idle EXCEPT !.pc = "edit", !.id = i].pc = "edit"
    BY DEF Idle
  <2>3. QED
    BY <1>3, <1>6, <2>1, <2>2 DEF findForEdit, Aside, Reopening, At
<1>7. CASE findForDelete(p)
  <2>1. PICK i \in Ids : Become(p, [Idle EXCEPT !.pc = "audit", !.id = i, !.text = messages[i].text])
    BY <1>7 DEF findForDelete
  <2>2. [Idle EXCEPT !.pc = "audit", !.id = i, !.text = messages[i].text].pc = "audit"
    BY DEF Idle
  <2>3. QED
    BY <1>3, <1>7, <2>1, <2>2 DEF findForDelete, Aside, Reopening, At
<1>8. CASE edit(p) \/ softDelete(p)
  BY <1>2, <1>3, <1>8 DEF edit, softDelete, Reject, Aside, Reopening, At
<1>9. CASE auditUpsert(p)
  BY <1>4, <1>9 DEF auditUpsert, Aside, Reopening, At
<1>10. CASE (create(p) \/ reopen(p)) /\ ~Mine(p)
  BY <1>2, <1>3, <1>10 DEF create, reopen, Reject, Aside, Reopening, At
<1>11. QED
  BY <1>5, <1>6, <1>7, <1>8, <1>9, <1>10

LEMMA ReopenStep ==
  ASSUME Inv, ReopensInTime, SeesItClosed, [Next]_vars
  PROVE  ReopensInTime' /\ SeesItClosed'
<1>1. req \in [Procs -> Request] /\ \A p \in Procs : req[p] \in Request
  BY Parts DEF Inv
<1>2. /\ ReopensInTime <=> (written = "timely" /\ conv.state # "OPEN" => \E p \in Procs : Reopening(p))
      /\ ReopensInTime' <=> (written' = "timely" /\ conv'.state # "OPEN" => \E p \in Procs : Reopening(p)')
  BY DEF ReopensInTime, Reopening
<1>3. CASE UNCHANGED vars
  BY <1>3 DEF vars, ReopensInTime, SeesItClosed, Mine, At
<1>4. ASSUME NEW p \in Procs, Aside(p) PROVE ReopensInTime' /\ SeesItClosed'
  <2>1. \A q \in Procs : Reopening(q) => Reopening(q)'
    BY <1>4 DEF Aside, Reopening, Mine
  <2>2. SeesItClosed'
    BY <1>4 DEF Aside, SeesItClosed, Mine, At
  <2>3. QED
    BY <1>2, <1>4, <2>1, <2>2 DEF Aside
<1>5. ASSUME NEW p \in Procs, getOrCreateForUser(p) PROVE ReopensInTime' /\ SeesItClosed'
  <2>1. /\ req'[p].pc = "create" /\ req'[p].seen = conv'.state
        /\ \A q \in Procs \ {p} : req'[q] = req[q]
    BY <1>1, <1>5 DEF getOrCreateForUser, Become, Idle
  <2>2. At(p, "idle") /\ written' = written
    BY <1>5 DEF getOrCreateForUser
  <2>3. CASE UNCHANGED conv
    <3>1. \A q \in Procs : Reopening(q) => Reopening(q)'
      BY <2>1, <2>2, <2>3 DEF Reopening, Mine, At
    <3>2. SeesItClosed'
      BY <2>1, <2>3 DEF SeesItClosed, Mine, At
    <3>3. QED
      BY <1>2, <2>2, <2>3, <3>1, <3>2
  <2>4. CASE conv' = [gen |-> conv.gen + 1, exists |-> TRUE, state |-> "OPEN"]
    BY <2>4 DEF ReopensInTime, SeesItClosed
  <2>5. QED
    BY <1>5, <2>3, <2>4 DEF getOrCreateForUser
<1>6. ASSUME NEW p \in Procs, reply(p) PROVE ReopensInTime' /\ SeesItClosed'
  <2>1. req'[p].by = "agent" /\ (\A q \in Procs \ {p} : req'[q] = req[q]) /\ At(p, "idle")
    BY <1>1, <1>6 DEF reply, Become, Idle
  <2>2. UNCHANGED <<conv, written>>
    BY <1>6 DEF reply
  <2>3. \A q \in Procs : Reopening(q) => Reopening(q)'
    BY <2>1, <2>2 DEF Reopening, Mine, At
  <2>4. SeesItClosed'
    BY <2>1, <2>2 DEF SeesItClosed, Mine, At
  <2>5. QED
    BY <1>2, <2>2, <2>3, <2>4
<1>7. ASSUME NEW p \in Procs, create(p), Mine(p) PROVE ReopensInTime' /\ SeesItClosed'
  <2>1. At(p, "create") /\ UNCHANGED conv /\ Goto(p, "touch")
    BY <1>7 DEF create
  <2>2. /\ req'[p].pc = "touch" /\ req'[p].seen = req[p].seen /\ req'[p].gen = req[p].gen
        /\ \A q \in Procs \ {p} : req'[q] = req[q]
    BY <1>1, <2>1 DEF Goto, Become, Request
  <2>3. \A q \in Procs : Reopening(q) => Reopening(q)'
    BY <2>1, <2>2 DEF Reopening, Mine, At
  <2>4. SeesItClosed'
    BY <2>1, <2>2 DEF SeesItClosed, Mine, At
  <2>5. ASSUME written' = "timely", conv'.state # "OPEN" PROVE \E q \in Procs : Reopening(q)'
    <3>1. CASE written = "timely"
      BY <1>2, <2>1, <2>3, <2>5, <3>1
    <3>2. CASE written # "timely"
      <4>1. req[p].by = "user" /\ ~req[p].late
        BY <1>1, <1>7, <2>5, <3>2, Parts DEF create, Request, Inv
      <4>2. req[p].seen # "OPEN"
        BY <1>7, <2>1, <2>5, <4>1 DEF SeesItClosed
      <4>3. Reopening(p)'
        BY <1>7, <2>1, <2>2, <4>2 DEF Reopening, Mine
      <4>4. QED
        BY <4>3
    <3>3. QED
      BY <3>1, <3>2
  <2>6. QED
    BY <1>2, <2>4, <2>5
<1>8. ASSUME NEW p \in Procs, reopen(p), Mine(p) PROVE ReopensInTime' /\ SeesItClosed'
  <2>1. conv'.state = "OPEN"
    BY <1>8, Parts DEF reopen, Inv
  <2>2. QED
    BY <2>1 DEF ReopensInTime, SeesItClosed
<1>9. ASSUME NEW p \in Procs, Abort(p) PROVE ReopensInTime' /\ SeesItClosed'
  <2>1. UNCHANGED conv /\ req'[p].pc = "idle" /\ \A q \in Procs \ {p} : req'[q] = req[q]
    BY <1>1, <1>9 DEF Abort, Become, Idle
  <2>2. \A q \in Procs \ {p} : Reopening(q) => Reopening(q)'
    BY <2>1 DEF Reopening, Mine
  <2>3. written' = "timely" => written = "timely" /\ ~Reopening(p)
    BY <1>9 DEF Abort, Reopening
  <2>4. SeesItClosed'
    BY <2>1 DEF SeesItClosed, Mine, At
  <2>5. QED
    BY <1>2, <2>1, <2>2, <2>3, <2>4
<1>10. CASE setState
  <2>1. written' = "no" /\ \A p \in Procs : At(p, "create")' => req'[p].late
    <3>1. \A p \in Procs : req'[p] = IF At(p, "create") THEN [req[p] EXCEPT !.late = TRUE] ELSE req[p]
      BY <1>10 DEF setState
    <3>2. \A p \in Procs : At(p, "create") => [req[p] EXCEPT !.late = TRUE].late = TRUE
      BY <1>1 DEF Request
    <3>3. \A p \in Procs : At(p, "create")' => At(p, "create")
      BY <3>1 DEF At
    <3>4. QED
      BY <1>10, <3>1, <3>2, <3>3 DEF setState
  <2>2. QED
    BY <2>1 DEF ReopensInTime, SeesItClosed
<1>11. CASE deleteConversation
  <2>1. written' = "no" /\ conv'.exists = FALSE
    BY <1>11, Parts DEF deleteConversation, Inv
  <2>2. QED
    BY <2>1 DEF ReopensInTime, SeesItClosed, Mine
<1>12. ASSUME NEW p \in Procs, create(p) \/ reopen(p) PROVE ReopensInTime' /\ SeesItClosed'
  BY <1>4, <1>7, <1>8, <1>12, AsideSteps
<1>13. QED
  BY <1>3, <1>4, <1>5, <1>6, <1>9, <1>10, <1>11, <1>12, AsideSteps DEF Next

\* A customer who writes in time to see the thread closed has it reopened, unless
\* the request died.
THEOREM ReopenedInTime == Spec => []ReopensInTime
<1>1. Init => ReopensInTime /\ SeesItClosed
  <2> SUFFICES ASSUME Init PROVE ReopensInTime /\ SeesItClosed
    OBVIOUS
  <2>1. written = "no" /\ \A p \in Procs : req[p] = Idle
    BY DEF Init
  <2>2. Idle.pc = "idle"
    BY DEF Idle
  <2>3. \A p \in Procs : ~At(p, "create")
    BY <2>1, <2>2 DEF At
  <2>4. QED
    BY <2>1, <2>3 DEF ReopensInTime, SeesItClosed
<1>2. Inv /\ (ReopensInTime /\ SeesItClosed) /\ [Next]_vars => (ReopensInTime /\ SeesItClosed)'
  BY ReopenStep
<1>3. QED
  BY <1>1, <1>2, InitInv, StepInv, PTL DEF Spec

\* The messages of a conversation go with it, and none is added to one that has gone.
THEOREM MessagesGoAlong == Spec => []NoOrphans
<1>1. Init => NoOrphans
  <2> SUFFICES ASSUME Init PROVE NoOrphans
    OBVIOUS
  <2>1. \A i \in Ids : messages[i] = Unsent
    BY DEF Init
  <2>2. Unsent.row = "unsent"
    BY DEF Unsent
  <2>3. \A i \in Ids : ~Live(i)
    BY <2>1, <2>2 DEF Live
  <2>4. QED
    BY <2>3 DEF NoOrphans
<1>2. Inv /\ NoOrphans /\ [Next]_vars => NoOrphans'
  <2> SUFFICES ASSUME Inv, NoOrphans, [Next]_vars PROVE NoOrphans'
    OBVIOUS
  <2>1. messages \in [Ids -> Message]
    BY Parts DEF Inv
  <2>2. ASSUME NEW p \in Procs, edit(p) \/ softDelete(p) \/ auditUpsert(p) PROVE NoOrphans'
    <3>1. UNCHANGED conv /\ \A i \in Ids : Live(i)' => Live(i)
      BY <2>1, <2>2 DEF edit, softDelete, auditUpsert, Reject, Live, Message
    <3>2. QED
      BY <3>1 DEF NoOrphans
  <2>3. ASSUME NEW p \in Procs, create(p) PROVE NoOrphans'
    <3>1. UNCHANGED conv /\ (Mine(p) \/ UNCHANGED messages)
      BY <2>3 DEF create, Reject
    <3>2. QED
      BY <3>1 DEF NoOrphans, Mine, Live
  <2>4. ASSUME NEW p \in Procs, getOrCreateForUser(p) \/ reopen(p) PROVE NoOrphans'
    <3>1. UNCHANGED messages /\ (conv.exists => conv'.exists)
      BY <2>4, Parts DEF getOrCreateForUser, reopen, Reject, Inv
    <3>2. QED
      BY <3>1 DEF NoOrphans, Live
  <2>5. ASSUME NEW p \in Procs,
               reply(p) \/ touch(p) \/ findForEdit(p) \/ findForDelete(p) \/ Abort(p)
        PROVE  NoOrphans'
    BY <2>5 DEF reply, touch, findForEdit, findForDelete, Abort, vars, NoOrphans, Live
  <2>6. CASE setState
    <3>1. UNCHANGED messages /\ conv.exists
      BY <2>6 DEF setState
    <3>2. conv'.exists
      BY <2>6, Parts DEF setState, Inv
    <3>3. QED
      BY <3>1, <3>2 DEF NoOrphans
  <2>7. CASE deleteConversation
    <3>1. \A i \in Ids : ~Live(i)'
      BY <2>1, <2>7 DEF deleteConversation, Live, Unsent, Message
    <3>2. QED
      BY <3>1 DEF NoOrphans
  <2>8. CASE UNCHANGED vars
    BY <2>8 DEF vars, NoOrphans, Live
  <2>9. QED
    BY <2>2, <2>3, <2>4, <2>5, <2>6, <2>7, <2>8 DEF Next
<1>3. QED
  BY <1>1, <1>2, InitInv, StepInv, PTL DEF Spec

-----------------------------------------------------------------------------
(* CustomerFile: tags that are toggled, and a ledger that is added up.     *)

\* A set of numbers has a least one: what holds of all numbers below a number and so
\* of the number itself, holds of all.
LEMMA Least ==
  ASSUME NEW T \in SUBSET Nat, T # {} PROVE \E n \in T : \A m \in T : n <= m
<1> DEFINE Below == OpToRel(<, Nat)
<1>1. IsWellFoundedOn(Below, Nat)
  BY NatLessThanWellFounded
<1>2. \A m, n \in Nat : m < n => <<m, n>> \in Below
  BY DEF OpToRel
<1> HIDE DEF Below
<1>3. PICK n \in T : \A m \in T : <<m, n>> \notin Below
  BY <1>1, WFMin
<1>4. \A m \in T : ~(m < n)
  BY <1>2, <1>3
<1>5. QED
  BY <1>4

\* s holds the sums of the beginnings of x.
Sums(N, x, s) == s[0] = 0 /\ \A k \in 1..N : s[k] = s[k - 1] + x[k]

LEMMA SumsThereAre ==
  ASSUME NEW N \in Nat, NEW x, \A k \in 1..N : x[k] \in Int
  PROVE  \E s \in [0..N -> Int] : Sums(N, x, s)
<1> DEFINE Part(n) == {s \in [0..n -> Int] : Sums(n, x, s)}
           T == {n \in 0..N : Part(n) = {}}
<1>1. ASSUME T # {} PROVE FALSE
  <2>1. PICK n \in T : \A m \in T : n <= m
    <3>1. T \in SUBSET Nat
      OBVIOUS
    <3> HIDE DEF T
    <3>2. QED
      BY <1>1, <3>1, Least
  <2>2. n # 0
    <3>1. [k \in 0..0 |-> 0] \in Part(0)
      BY DEF Sums
    <3>2. QED
      BY <3>1
  <2>3. n \in 1..N /\ n - 1 \in 0..N /\ n - 1 \notin T
    <3>1. n \in 0..N
      OBVIOUS
    <3>2. n \in 1..N /\ n - 1 \in 0..N /\ ~(n <= n - 1)
      BY <2>2, <3>1
    <3>3. QED
      BY <2>1, <3>2
  <2>4. PICK s \in Part(n - 1) : TRUE
    BY <2>3
  <2>5. /\ \A k \in 0..(n - 1) : s[k] \in Int
        /\ s[0] = 0 /\ \A k \in 1..(n - 1) : s[k] = s[k - 1] + x[k]
    BY <2>4 DEF Sums
  <2> DEFINE t == [k \in 0..n |-> IF k = n THEN s[n - 1] + x[n] ELSE s[k]]
  <2>6. t \in [0..n -> Int] /\ t[0] = 0
    BY <2>3, <2>5
  <2>7. ASSUME NEW k \in 1..n PROVE t[k] = t[k - 1] + x[k]
    <3>1. k - 1 \in 0..n /\ k - 1 # n /\ t[k - 1] = s[k - 1]
      BY <2>3
    <3>2. CASE k = n
      BY <2>3, <3>1, <3>2
    <3>3. CASE k # n
      <4>1. k \in 1..(n - 1) /\ t[k] = s[k]
        BY <2>3, <3>3
      <4>2. QED
        BY <2>5, <3>1, <4>1
    <3>4. QED
      BY <3>2, <3>3
  <2>8. t \in Part(n)
    BY <2>6, <2>7 DEF Sums
  <2>9. QED
    BY <2>8
<1>2. N \in 0..N
  OBVIOUS
<1>3. QED
  BY <1>1, <1>2

LEMMA SumsAreOne ==
  ASSUME NEW N \in Nat, NEW x, NEW s, Sums(N, x, s), NEW t, Sums(N, x, t)
  PROVE  \A n \in 0..N : s[n] = t[n]
<1> DEFINE T == {n \in 0..N : s[n] # t[n]}
<1>1. ASSUME T # {} PROVE FALSE
  <2>1. PICK n \in T : \A m \in T : n <= m
    <3>1. T \in SUBSET Nat
      OBVIOUS
    <3> HIDE DEF T
    <3>2. QED
      BY <1>1, <3>1, Least
  <2>2. n \in 0..N /\ s[n] # t[n] /\ n # 0
    BY DEF Sums
  <2>3. n \in 1..N /\ n - 1 \in 0..N /\ ~(n <= n - 1)
    BY <2>2
  <2>4. s[n - 1] = t[n - 1]
    BY <2>1, <2>3
  <2>5. s[n] = s[n - 1] + x[n] /\ t[n] = t[n - 1] + x[n]
    BY <2>3 DEF Sums
  <2>6. QED
    BY <2>2, <2>4, <2>5
<1>2. QED
  BY <1>1

\* Whatever holds such sums ends with Added.
LEMMA AddedIsLast ==
  ASSUME NEW N \in Nat, NEW x \in Seq(Int), Len(x) = N, NEW s, Sums(N, x, s)
  PROVE  F!Added(x) = s[N]
<1> DEFINE t == CHOOSE t : t = [n \in 0..Len(x) |-> IF n = 0 THEN 0 ELSE t[n - 1] + x[n]]
<1>1. F!Added(x) = t[Len(x)]
  BY DEF F!Added
<1>2. PICK v \in [0..N -> Int] : Sums(N, x, v)
  BY SumsThereAre
<1>3. v = [n \in 0..N |-> IF n = 0 THEN 0 ELSE v[n - 1] + x[n]]
  BY <1>2 DEF Sums
<1>4. t = [n \in 0..N |-> IF n = 0 THEN 0 ELSE t[n - 1] + x[n]]
  BY <1>3
<1> HIDE DEF t
<1>5. Sums(N, x, t)
  <2>1. t[0] = 0
    BY <1>4
  <2>2. \A k \in 1..N : t[k] = t[k - 1] + x[k]
    BY <1>4
  <2>3. QED
    BY <2>1, <2>2 DEF Sums
<1>6. QED
  BY <1>1, <1>5, SumsAreOne

LEMMA AddedAppend ==
  ASSUME NEW x \in Seq(Int), NEW a \in Int
  PROVE  F!Added(Append(x, a)) = F!Added(x) + a
<1> DEFINE y == Append(x, a)
           N == Len(x)
<1>0. N \in Nat /\ (\A k \in 1..N : x[k] \in Int) /\ N + 1 \in Nat
  OBVIOUS
<1>1. y \in Seq(Int) /\ Len(y) = N + 1 /\ y[N + 1] = a /\ \A k \in 1..N : y[k] = x[k]
  OBVIOUS
<1> HIDE DEF y, N
<1>2. PICK s \in [0..N -> Int] : Sums(N, x, s)
  BY <1>0, SumsThereAre
<1> DEFINE t == [n \in 0..(N + 1) |-> IF n = N + 1 THEN s[N] + a ELSE s[n]]
<1>3. t[0] = 0
  BY <1>0, <1>2 DEF Sums
<1>4. ASSUME NEW k \in 1..(N + 1) PROVE t[k] = t[k - 1] + y[k]
  <2>1. k - 1 \in 0..N /\ t[k - 1] = s[k - 1]
    BY <1>0
  <2>2. CASE k = N + 1
    BY <1>0, <1>1, <2>1, <2>2
  <2>3. CASE k # N + 1
    <3>1. k \in 1..N /\ t[k] = s[k]
      BY <1>0, <2>3
    <3>2. QED
      BY <1>1, <1>2, <2>1, <3>1 DEF Sums
  <2>4. QED
    BY <2>2, <2>3
<1>5. Sums(N + 1, y, t) /\ t[N + 1] = s[N] + a
  <2>1. t[N + 1] = s[N] + a
    BY <1>0
  <2> HIDE DEF t
  <2>2. QED
    BY <1>3, <1>4, <2>1 DEF Sums
<1> HIDE DEF t
<1>6. F!Added(y) = t[N + 1]
  BY <1>0, <1>1, <1>5, AddedIsLast
<1>7. F!Added(x) = s[N]
  BY <1>0, <1>2, AddedIsLast DEF N
<1>8. QED
  BY <1>5, <1>6, <1>7 DEF y

\* y is x without its i-th.
LEMMA AddedWithout ==
  ASSUME NEW x \in Seq(Int), NEW i \in 1..Len(x), NEW y \in Seq(Int), Len(y) = Len(x) - 1,
         \A k \in 1..Len(y) : y[k] = IF k < i THEN x[k] ELSE x[k + 1]
  PROVE  F!Added(y) = F!Added(x) - x[i]
<1> DEFINE M == Len(y)
           N == Len(x)
<1>0. /\ N \in Nat /\ M \in Nat /\ M = N - 1 /\ i \in 1..N /\ (\A k \in 1..N : x[k] \in Int)
      /\ \A k \in 1..M : y[k] = IF k < i THEN x[k] ELSE x[k + 1]
  OBVIOUS
<1> HIDE DEF M, N
<1>1. PICK s \in [0..N -> Int] : Sums(N, x, s)
  BY <1>0, SumsThereAre
<1>2. /\ (\A k \in 0..N : s[k] \in Int) /\ s[0] = 0
      /\ \A k \in 1..N : s[k] = s[k - 1] + x[k]
  BY <1>1 DEF Sums
<1> DEFINE t == [n \in 0..M |-> IF n < i THEN s[n] ELSE s[n + 1] - x[i]]
<1>3. t[0] = 0
  BY <1>0, <1>2
<1>4. ASSUME NEW k \in 1..M PROVE t[k] = t[k - 1] + y[k]
  <2>1. /\ k \in 1..N /\ k + 1 \in 1..N /\ (k + 1) - 1 = k /\ k - 1 \in 0..M /\ k - 1 \in 0..N
        /\ k \in 0..N /\ k \in 0..M /\ (k - 1) + 1 = k
    BY <1>0
  <2>2. s[k] = s[k - 1] + x[k] /\ s[k + 1] = s[k] + x[k + 1]
    BY <1>2, <2>1
  <2>3. s[k - 1] \in Int /\ s[k] \in Int /\ x[k] \in Int /\ x[k + 1] \in Int /\ x[i] \in Int
    BY <1>0, <1>2, <2>1
  <2>4. /\ t[k] = IF k < i THEN s[k] ELSE s[k + 1] - x[i]
        /\ t[k - 1] = IF k - 1 < i THEN s[k - 1] ELSE s[k] - x[i]
        /\ y[k] = IF k < i THEN x[k] ELSE x[k + 1]
    BY <1>0, <2>1
  <2>5. CASE k < i
    <3>1. k - 1 < i
      BY <1>0, <2>1, <2>5
    <3>2. QED
      BY <2>2, <2>4, <2>5, <3>1
  <2>6. CASE k = i
    <3>1. k - 1 < i /\ ~(k < i)
      BY <1>0, <2>1, <2>6
    <3>2. t[k] = s[k + 1] - x[k] /\ t[k - 1] = s[k - 1] /\ y[k] = x[k + 1]
      BY <2>4, <2>6, <3>1
    <3>3. \A a, b, c \in Int : ((a + b) + c) - b = a + c
      OBVIOUS
    <3>4. t[k] = ((s[k - 1] + x[k]) + x[k + 1]) - x[k]
      BY <2>2, <3>2
    <3>7. s[k - 1] \in Int /\ x[k] \in Int /\ x[k + 1] \in Int
      BY <2>3
    <3>5. t[k] = s[k - 1] + x[k + 1]
      BY <3>3, <3>4, <3>7
    <3>6. QED
      BY <3>2, <3>5
  <2>7. CASE k > i
    <3>1. ~(k - 1 < i) /\ ~(k < i)
      BY <1>0, <2>1, <2>7
    <3>2. t[k] = s[k + 1] - x[i] /\ t[k - 1] = s[k] - x[i] /\ y[k] = x[k + 1]
      BY <2>4, <3>1
    <3>3. \A a, b, c \in Int : (a + b) - c = (a - c) + b
      OBVIOUS
    <3>4. t[k] = (s[k] + x[k + 1]) - x[i]
      BY <2>2, <3>2
    <3>7. s[k] \in Int /\ x[k + 1] \in Int /\ x[i] \in Int
      BY <1>0, <2>3
    <3>5. t[k] = (s[k] - x[i]) + x[k + 1]
      BY <3>3, <3>4, <3>7
    <3>6. QED
      BY <3>2, <3>5
  <2>8. QED
    BY <1>0, <2>5, <2>6, <2>7
<1>5. t[M] = s[N] - x[i]
  <2>1. M + 1 = N /\ M \in 0..M /\ N - 1 = M /\ N \in 1..N /\ M \in 0..N /\ N \in 0..N
    BY <1>0
  <2>2. t[M] = IF M < i THEN s[M] ELSE s[N] - x[i]
    BY <2>1
  <2>3. CASE M < i
    <3>1. i = N
      BY <1>0, <2>3
    <3>2. s[N] = s[M] + x[N] /\ s[M] \in Int /\ x[N] \in Int
      BY <1>0, <1>2, <2>1
    <3>3. QED
      BY <2>2, <2>3, <3>1, <3>2
  <2>4. QED
    BY <2>2, <2>3
<1>6. Sums(M, y, t)
  BY <1>3, <1>4 DEF Sums
<1> HIDE DEF t
<1>7. F!Added(y) = t[M]
  BY <1>0, <1>6, AddedIsLast DEF M
<1>8. F!Added(x) = s[N]
  BY <1>0, <1>1, AddedIsLast DEF N
<1>9. QED
  BY <1>5, <1>7, <1>8

-----------------------------------------------------------------------------

\* What a row adds to the sum of these types.
Part(types, r) == IF r.type \in types THEN r.amount ELSE 0

LEMMA PartType ==
  ASSUME F!CustomerFileAssumption, NEW types, NEW r \in F!Records
  PROVE  r.type \in F!Types /\ r.amount \in Int /\ Part(types, r) \in Int
<1>1. r \in [type : F!Types, amount : Amounts]
  BY DEF F!Records
<1>2. r.type \in F!Types /\ r.amount \in Amounts
  BY <1>1
<1>3. r.amount \in Int
  BY <1>2 DEF F!CustomerFileAssumption
<1>4. QED
  BY <1>2, <1>3 DEF Part

LEMMA SumType ==
  ASSUME F!CustomerFileAssumption, NEW types, NEW rows \in Seq(F!Records)
  PROVE  F!SumOf(types, rows) \in Int
<1> DEFINE x == [i \in DOMAIN rows |-> Part(types, rows[i])]
<1>1. x \in Seq(Int) /\ Len(x) \in Nat /\ \A k \in 1..Len(x) : x[k] \in Int
  <2>1. \A i \in 1..Len(rows) : Part(types, rows[i]) \in Int
    BY PartType
  <2>2. QED
    BY <2>1
<1>2. F!SumOf(types, rows) = F!Added(x)
  BY DEF F!SumOf, Part
<1> HIDE DEF x
<1>3. PICK s \in [0..Len(x) -> Int] : Sums(Len(x), x, s)
  BY <1>1, SumsThereAre
<1>4. F!Added(x) = s[Len(x)]
  BY <1>1, <1>3, AddedIsLast
<1>5. QED
  BY <1>1, <1>2, <1>3, <1>4

LEMMA SumAppend ==
  ASSUME F!CustomerFileAssumption, NEW types, NEW rows \in Seq(F!Records), NEW r \in F!Records
  PROVE  F!SumOf(types, Append(rows, r)) = F!SumOf(types, rows) + Part(types, r)
<1> DEFINE x == [i \in DOMAIN rows |-> Part(types, rows[i])]
           y == [i \in DOMAIN Append(rows, r) |-> Part(types, Append(rows, r)[i])]
<1>1. x \in Seq(Int) /\ Len(x) = Len(rows)
  <2>1. \A i \in 1..Len(rows) : Part(types, rows[i]) \in Int
    BY PartType
  <2>2. QED
    BY <2>1
<1>2. y = Append(x, Part(types, r))
  OBVIOUS
<1>3. F!SumOf(types, rows) = F!Added(x) /\ F!SumOf(types, Append(rows, r)) = F!Added(y)
  BY DEF F!SumOf, Part
<1>4. Part(types, r) \in Int
  BY PartType
<1>5. QED
  BY <1>1, <1>2, <1>3, <1>4, AddedAppend

LEMMA ConcatParts ==
  ASSUME NEW S, NEW a \in Seq(S), NEW b \in Seq(S)
  PROVE  \A j \in (Len(a) + 1)..(Len(a) + Len(b)) : (a \o b)[j] = b[j - Len(a)]
OBVIOUS

LEMMA SumRemove ==
  ASSUME F!CustomerFileAssumption, NEW types, NEW rows \in Seq(F!Records), NEW i \in DOMAIN rows
  PROVE  /\ F!RemoveAt(rows, i) \in Seq(F!Records)
         /\ F!SumOf(types, F!RemoveAt(rows, i)) = F!SumOf(types, rows) - Part(types, rows[i])
<1> DEFINE w == F!RemoveAt(rows, i)
           x == [k \in DOMAIN rows |-> Part(types, rows[k])]
           y == [k \in DOMAIN w |-> Part(types, w[k])]
<1>1. /\ w \in Seq(F!Records) /\ Len(w) = Len(rows) - 1
      /\ \A k \in 1..Len(w) : w[k] = IF k < i THEN rows[k] ELSE rows[k + 1]
  <2> DEFINE a == SubSeq(rows, 1, i - 1)
             b == SubSeq(rows, i + 1, Len(rows))
  <2>1. i \in 1..Len(rows) /\ Len(rows) \in Nat
    OBVIOUS
  <2>2. a \in Seq(F!Records) /\ Len(a) = i - 1 /\ \A k \in 1..(i - 1) : a[k] = rows[k]
    BY <2>1
  <2>3. b \in Seq(F!Records) /\ Len(b) = Len(rows) - i /\ \A k \in 1..(Len(rows) - i) : b[k] = rows[k + i]
    BY <2>1
  <2>4. w = a \o b
    BY DEF F!RemoveAt
  <2> HIDE DEF a, b, w
  <2>5. w \in Seq(F!Records) /\ Len(w) = Len(rows) - 1
    BY <2>1, <2>2, <2>3, <2>4
  <2>6. ASSUME NEW k \in 1..Len(w) PROVE w[k] = IF k < i THEN rows[k] ELSE rows[k + 1]
    <3>1. CASE k < i
      BY <2>1, <2>2, <2>3, <2>4, <3>1
    <3>2. CASE ~(k < i)
      <4>1. k - (i - 1) \in 1..(Len(rows) - i) /\ (k - (i - 1)) + i = k + 1
        BY <2>1, <2>5, <3>2
      <4>2. w[k] = b[k - (i - 1)]
        <5>1. Len(a) = i - 1 /\ k \in (Len(a) + 1)..(Len(a) + Len(b))
          BY <2>1, <2>2, <2>3, <2>5, <3>2
        <5>2. \A j \in (Len(a) + 1)..(Len(a) + Len(b)) : (a \o b)[j] = b[j - Len(a)]
          BY <2>2, <2>3, ConcatParts
        <5>3. QED
          BY <2>4, <5>1, <5>2
      <4>3. QED
        BY <2>3, <3>2, <4>1, <4>2
    <3>3. QED
      BY <3>1, <3>2
  <2>7. QED
    BY <2>5, <2>6
<1> HIDE DEF w
<1>2. x \in Seq(Int) /\ Len(x) = Len(rows)
  <2>1. \A k \in 1..Len(rows) : Part(types, rows[k]) \in Int
    BY PartType
  <2>2. QED
    BY <2>1
<1>3. y \in Seq(Int) /\ Len(y) = Len(w)
  <2>1. \A k \in 1..Len(w) : Part(types, w[k]) \in Int
    BY <1>1, PartType
  <2>2. QED
    BY <1>1, <2>1
<1>4. \A k \in 1..Len(y) : y[k] = IF k < i THEN x[k] ELSE x[k + 1]
  <2> SUFFICES ASSUME NEW k \in 1..Len(y) PROVE y[k] = IF k < i THEN x[k] ELSE x[k + 1]
    OBVIOUS
  <2>1. k \in 1..Len(w) /\ k \in DOMAIN w /\ k \in DOMAIN rows /\ k + 1 \in DOMAIN rows
    BY <1>1, <1>3
  <2>2. QED
    BY <1>1, <2>1
<1>5. F!SumOf(types, rows) = F!Added(x) /\ F!SumOf(types, w) = F!Added(y)
  BY DEF F!SumOf, Part
<1>6. i \in 1..Len(x) /\ Len(y) = Len(x) - 1 /\ x[i] = Part(types, rows[i])
  BY <1>1, <1>2, <1>3
<1> HIDE DEF x, y
<1>7. F!Added(y) = F!Added(x) - x[i]
  BY <1>2, <1>3, <1>4, <1>6, AddedWithout
<1>8. QED
  BY <1>1, <1>5, <1>6, <1>7 DEF w

\* The net of a ledger, row by row.
LEMMA NetByRows ==
  ASSUME F!CustomerFileAssumption, NEW rows \in Seq(F!Records)
  PROVE  /\ F!netMinor(rows) \in Int
         /\ \A r \in F!Records : F!Net(r) \in Int /\ F!netMinor(Append(rows, r)) = F!netMinor(rows) + F!Net(r)
         /\ \A i \in DOMAIN rows : /\ rows[i] \in F!Records /\ F!RemoveAt(rows, i) \in Seq(F!Records)
                                   /\ F!netMinor(F!RemoveAt(rows, i)) = F!netMinor(rows) - F!Net(rows[i])
<1> DEFINE In == {"DEPOSIT", "ADJUSTMENT"}
           Out == {"CASHOUT"}
<1>1. ASSUME NEW r \in F!Records PROVE F!Net(r) = Part(In, r) - Part(Out, r) /\ F!Net(r) \in Int
  <2>1. r.type \in F!Types /\ r.amount \in Int
    BY PartType
  <2>2. QED
    BY <2>1 DEF F!Net, Part, F!Types
<1>2. \A r \in F!Records : Part(In, r) \in Int /\ Part(Out, r) \in Int
  BY PartType
<1>3. F!SumOf(In, rows) \in Int /\ F!SumOf(Out, rows) \in Int
  BY SumType
<1>4. ASSUME NEW r \in F!Records PROVE F!netMinor(Append(rows, r)) = F!netMinor(rows) + F!Net(r)
  <2>1. /\ F!SumOf(In, Append(rows, r)) = F!SumOf(In, rows) + Part(In, r)
        /\ F!SumOf(Out, Append(rows, r)) = F!SumOf(Out, rows) + Part(Out, r)
    BY SumAppend
  <2>2. QED
    BY <1>1, <1>2, <1>3, <2>1 DEF F!netMinor
<1>5. ASSUME NEW i \in DOMAIN rows
      PROVE  /\ rows[i] \in F!Records /\ F!RemoveAt(rows, i) \in Seq(F!Records)
             /\ F!netMinor(F!RemoveAt(rows, i)) = F!netMinor(rows) - F!Net(rows[i])
  <2>1. rows[i] \in F!Records
    OBVIOUS
  <2>2. /\ F!RemoveAt(rows, i) \in Seq(F!Records)
        /\ F!SumOf(In, F!RemoveAt(rows, i)) = F!SumOf(In, rows) - Part(In, rows[i])
        /\ F!SumOf(Out, F!RemoveAt(rows, i)) = F!SumOf(Out, rows) - Part(Out, rows[i])
    BY SumRemove
  <2>3. QED
    BY <1>1, <1>2, <1>3, <2>1, <2>2 DEF F!netMinor
<1>6. QED
  BY <1>1, <1>3, <1>4, <1>5 DEF F!netMinor

-----------------------------------------------------------------------------

\* What changes a ledger changes its balance by the same.
LEMMA LedgerKeeps ==
  ASSUME F!CustomerFileAssumption, F!IInv, NEW u \in Customers, NEW rows \in Seq(F!Records), NEW d \in Int,
         F!netMinor(rows) = F!netMinor(ledger[u]) + d,
         ledger' = [ledger EXCEPT ![u] = rows], balance' = [balance EXCEPT ![u] = balance[u] + d],
         UNCHANGED <<assigned, ids, flips, agents>>
  PROVE  F!IInv'
<1>1. F!TypeOK /\ F!TogglesCount /\ F!BalanceIsNet
  BY DEF F!IInv
<1>2. /\ ledger' \in [Customers -> Seq(F!Records)] /\ ledger'[u] = rows
      /\ \A v \in Customers \ {u} : ledger'[v] = ledger[v]
  BY <1>1 DEF F!TypeOK
<1>3. /\ balance[u] \in Int /\ balance' \in [Customers -> Int] /\ balance'[u] = balance[u] + d
      /\ \A v \in Customers \ {u} : balance'[v] = balance[v]
  BY <1>1 DEF F!TypeOK
<1>4. F!BalanceIsNet'
  BY <1>1, <1>2, <1>3 DEF F!BalanceIsNet
<1>5. F!TypeOK'
  BY <1>1, <1>2, <1>3 DEF F!TypeOK, F!At
<1>6. QED
  BY <1>1, <1>4, <1>5 DEF F!IInv, F!TogglesCount

LEMMA addFinancialRecordKeeps ==
  ASSUME F!CustomerFileAssumption, F!IInv, NEW u \in Customers, NEW r \in F!Records, F!addFinancialRecord(u, r)
  PROVE  F!IInv'
<1>1. ledger[u] \in Seq(F!Records)
  BY DEF F!IInv, F!TypeOK
<1>2. /\ F!Net(r) \in Int /\ Append(ledger[u], r) \in Seq(F!Records)
      /\ F!netMinor(Append(ledger[u], r)) = F!netMinor(ledger[u]) + F!Net(r)
  BY <1>1, NetByRows
<1>3. QED
  BY <1>2, LedgerKeeps DEF F!addFinancialRecord

LEMMA deleteFinancialRecordKeeps ==
  ASSUME F!CustomerFileAssumption, F!IInv, NEW u \in Customers, NEW i, F!deleteFinancialRecord(u, i)
  PROVE  F!IInv'
<1> DEFINE n == F!Net(ledger[u][i])
           w == F!RemoveAt(ledger[u], i)
<1>1. ledger[u] \in Seq(F!Records) /\ i \in DOMAIN ledger[u] /\ balance[u] \in Int
  BY DEF F!IInv, F!TypeOK, F!deleteFinancialRecord
<1>2. /\ ledger[u][i] \in F!Records /\ w \in Seq(F!Records)
      /\ F!netMinor(w) = F!netMinor(ledger[u]) - n /\ F!netMinor(ledger[u]) \in Int
  BY <1>1, NetByRows
<1>3. n \in Int
  BY <1>1, <1>2, NetByRows
<1>4. /\ ledger' = [ledger EXCEPT ![u] = w] /\ balance' = [balance EXCEPT ![u] = balance[u] - n]
      /\ UNCHANGED <<assigned, ids, flips, agents>>
  BY DEF F!deleteFinancialRecord
<1> HIDE DEF n, w
<1> DEFINE d == -n
<1>5. d \in Int /\ F!netMinor(w) = F!netMinor(ledger[u]) + d /\ balance[u] - n = balance[u] + d
  BY <1>1, <1>2, <1>3
<1> HIDE DEF d
<1>6. QED
  BY <1>2, <1>4, <1>5, LedgerKeeps

\* What one request does to the assignment of one tag, and goes on.
LEMMA TagKeeps ==
  ASSUME F!IInv, NEW p \in Procs, NEW r, (r.pc # "idle" => r.key \in F!Keys),
         r.pc = "unassign" => r.id # 0, agents' = [agents EXCEPT ![p] = r],
         ids' \in Nat, assigned' \in [F!Keys -> 0..ids'], flips' \in [F!Keys -> {0, 1}], F!TogglesCount',
         UNCHANGED <<ledger, balance>>
  PROVE  F!IInv'
<1>1. F!TypeOK /\ F!BalanceIsNet
  BY DEF F!IInv
<1>2. DOMAIN agents' = Procs /\ agents'[p] = r /\ \A q \in Procs \ {p} : agents'[q] = agents[q]
  BY <1>1 DEF F!TypeOK
<1>3. F!TypeOK'
  BY <1>1, <1>2 DEF F!TypeOK, F!At
<1>4. QED
  BY <1>1, <1>3 DEF F!IInv, F!BalanceIsNet

LEMMA IdleIs == F!Idle.pc = "idle"
BY DEF F!Idle

LEMMA toggleUserTagKeeps ==
  ASSUME F!IInv, NEW p \in Procs, NEW u \in Customers, NEW t \in Tags, F!toggleUserTag(p, u, t) PROVE F!IInv'
<1> DEFINE a == assigned[<<u, t>>]
           r == [pc |-> IF a # 0 THEN "unassign" ELSE "assign", key |-> <<u, t>>, id |-> a]
<1>1. agents' = [agents EXCEPT ![p] = r] /\ UNCHANGED <<assigned, ids, flips, ledger, balance>>
  BY DEF F!toggleUserTag, F!Become, F!file
<1>2. r.key \in F!Keys /\ (r.pc = "unassign" => r.id # 0)
  BY DEF F!Keys
<1> HIDE DEF r
<1>3. QED
  BY <1>1, <1>2, TagKeeps DEF F!IInv, F!TypeOK, F!TogglesCount

LEMMA UnassignKeeps ==
  ASSUME F!IInv, NEW p \in Procs, F!Unassign(p) PROVE F!IInv'
<1> DEFINE k == agents[p].key
<1>1. F!TypeOK /\ F!TogglesCount /\ k \in F!Keys /\ agents[p].id # 0
  BY DEF F!IInv, F!TypeOK, F!Unassign, F!At
<1>2. ids \in Nat /\ assigned \in [F!Keys -> 0..ids] /\ flips \in [F!Keys -> {0, 1}]
  BY <1>1 DEF F!TypeOK
<1>3. agents' = [agents EXCEPT ![p] = F!Idle] /\ UNCHANGED <<ids, ledger, balance>>
  BY DEF F!Unassign, F!Become, F!file
<1>4. assigned' \in [F!Keys -> 0..ids'] /\ flips' \in [F!Keys -> {0, 1}] /\ F!TogglesCount'
  <2>1. CASE assigned[k] = agents[p].id
    <3>1. flips[k] = 1
      BY <1>1, <2>1 DEF F!TogglesCount
    <3>2. assigned' = [assigned EXCEPT ![k] = 0] /\ flips' = [flips EXCEPT ![k] = 0]
      BY <1>1, <1>2, <2>1, <3>1 DEF F!Unassign, F!Flip
    <3>3. QED
      BY <1>1, <1>2, <1>3, <3>2 DEF F!TogglesCount
  <2>2. CASE assigned[k] # agents[p].id
    <3>1. UNCHANGED <<assigned, flips>>
      BY <2>2 DEF F!Unassign
    <3>2. QED
      BY <1>1, <1>2, <1>3, <3>1 DEF F!TogglesCount
  <2>3. QED
    BY <2>1, <2>2
<1>5. QED
  BY <1>2, <1>3, <1>4, IdleIs, TagKeeps

LEMMA AssignTagKeeps ==
  ASSUME F!IInv, NEW p \in Procs, F!AssignTag(p) PROVE F!IInv'
<1> DEFINE k == agents[p].key
<1>1. F!TypeOK /\ F!TogglesCount /\ k \in F!Keys
  BY DEF F!IInv, F!TypeOK, F!AssignTag, F!At
<1>2. ids \in Nat /\ assigned \in [F!Keys -> 0..ids] /\ flips \in [F!Keys -> {0, 1}]
  BY <1>1 DEF F!TypeOK
<1>3. agents' = [agents EXCEPT ![p] = F!Idle] /\ UNCHANGED <<ledger, balance>>
  BY DEF F!AssignTag, F!Become, F!file
<1>4. ids' \in Nat /\ assigned' \in [F!Keys -> 0..ids'] /\ flips' \in [F!Keys -> {0, 1}] /\ F!TogglesCount'
  <2>1. CASE assigned[k] = 0 /\ k[2] \in tags
    <3>1. flips[k] = 0
      BY <1>1, <1>2, <2>1 DEF F!TogglesCount
    <3>2. /\ ids' = ids + 1 /\ assigned' = [assigned EXCEPT ![k] = ids + 1]
          /\ flips' = [flips EXCEPT ![k] = 1]
      BY <1>1, <1>2, <2>1, <3>1 DEF F!AssignTag, F!Flip
    <3>3. assigned' \in [F!Keys -> 0..(ids + 1)] /\ ids + 1 # 0
      BY <1>1, <1>2, <3>2
    <3>4. QED
      BY <1>1, <1>2, <3>2, <3>3 DEF F!TogglesCount
  <2>2. CASE ~(assigned[k] = 0 /\ k[2] \in tags)
    <3>1. UNCHANGED <<assigned, ids, flips>>
      BY <2>2 DEF F!AssignTag
    <3>2. QED
      BY <1>1, <1>2, <3>1 DEF F!TogglesCount
  <2>3. QED
    BY <2>1, <2>2
<1>5. QED
  BY <1>3, <1>4, IdleIs, TagKeeps

LEMMA CustomerFileStep ==
  ASSUME F!CustomerFileAssumption, F!IInv, [F!Next]_F!vars PROVE F!IInv'
<1>1. CASE UNCHANGED <<assigned, ids, flips, ledger, balance, agents>>
  BY <1>1 DEF F!IInv, F!TypeOK, F!TogglesCount, F!BalanceIsNet, F!At
<1>2. ASSUME NEW t \in Tags, F!deleteTag(t) PROVE F!IInv'
  <2>1. UNCHANGED <<ids, ledger, balance, agents>>
    BY <1>2 DEF F!deleteTag, F!file
  <2>2. /\ assigned' = [k \in F!Keys |-> IF k[2] = t THEN 0 ELSE assigned[k]]
        /\ flips' = [k \in F!Keys |-> IF k[2] = t THEN 0 ELSE flips[k]]
    BY <1>2 DEF F!deleteTag
  <2>3. F!TypeOK /\ F!TogglesCount /\ F!BalanceIsNet
    BY DEF F!IInv
  <2>4. assigned' \in [F!Keys -> 0..ids] /\ flips' \in [F!Keys -> {0, 1}]
    BY <2>2, <2>3 DEF F!TypeOK
  <2>5. F!TogglesCount'
    BY <2>2, <2>3 DEF F!TogglesCount
  <2>6. QED
    BY <2>1, <2>3, <2>4, <2>5 DEF F!IInv, F!TypeOK, F!BalanceIsNet, F!At
<1>3. ASSUME NEW p \in Procs, F!Abort(p) PROVE F!IInv'
  BY <1>3, IdleIs, TagKeeps DEF F!Abort, F!Become, F!file, F!IInv, F!TypeOK, F!TogglesCount
<1>4. ASSUME NEW u \in Customers, NEW a \in Agents, F!addNote(u, a) \/ F!deleteNote(u, a) PROVE F!IInv'
  BY <1>1, <1>4 DEF F!addNote, F!deleteNote
<1>5. ASSUME NEW t \in Tags, F!createTag(t) PROVE F!IInv'
  BY <1>1, <1>5 DEF F!createTag, F!file
<1>6. CASE UNCHANGED F!vars
  BY <1>1, <1>6 DEF F!vars
<1>7. ASSUME NEW p \in Procs,
             (\E u \in Customers, t \in Tags : F!toggleUserTag(p, u, t)) \/ F!Unassign(p) \/ F!AssignTag(p)
      PROVE  F!IInv'
  BY <1>7, toggleUserTagKeeps, UnassignKeeps, AssignTagKeeps
<1>8. ASSUME NEW u \in Customers,
             \/ \E r \in F!Records : F!addFinancialRecord(u, r)
             \/ \E i \in 1..MaxRows : F!deleteFinancialRecord(u, i)
      PROVE  F!IInv'
  BY <1>8, addFinancialRecordKeeps, deleteFinancialRecordKeeps
<1>9. QED
  BY <1>2, <1>3, <1>4, <1>5, <1>6, <1>7, <1>8 DEF F!Next

LEMMA CustomerFileInit ==
  ASSUME F!CustomerFileAssumption, F!Init PROVE F!IInv
<1>1. F!TypeOK /\ F!TogglesCount
  BY IdleIs DEF F!Init, F!TypeOK, F!TogglesCount, F!At
<1>2. F!netMinor(<<>>) = 0
  <2>1. F!SumOf({"DEPOSIT", "ADJUSTMENT"}, <<>>) = F!Added(<<>>) /\ F!SumOf({"CASHOUT"}, <<>>) = F!Added(<<>>)
    BY DEF F!SumOf
  <2>2. <<>> \in Seq(F!Records)
    OBVIOUS
  <2>3. F!SumOf({"CASHOUT"}, <<>>) \in Int
    BY <2>2, SumType
  <2>4. QED
    BY <2>1, <2>3 DEF F!netMinor
<1>3. F!BalanceIsNet
  BY <1>2 DEF F!Init, F!BalanceIsNet
<1>4. QED
  BY <1>1, <1>3 DEF F!IInv

\* A customer's file agrees with what was done to it: every toggle counts once, and
\* the summary is the net of all rows, for ledgers that fit in one read.
LEMMA CustomerFileSound == ASSUME F!CustomerFileAssumption PROVE F!Spec => []F!FileAgrees
<1>1. F!Spec => []F!IInv
  <2>1. F!Init => F!IInv
    BY CustomerFileInit
  <2>2. F!IInv /\ [F!Next]_F!vars => F!IInv'
    BY CustomerFileStep
  <2>3. QED
    BY <2>1, <2>2, PTL DEF F!Spec
<1>2. F!IInv => F!FileAgrees
  <2> SUFFICES ASSUME F!IInv, NEW u \in Customers, Len(ledger[u]) <= Take
               PROVE  F!getFinancials(u) = balance[u]
    BY DEF F!IInv, F!FileAgrees, F!SummaryInSync
  <2> DEFINE n == Len(ledger[u])
  <2>1. ledger[u] \in Seq(F!Records) /\ n \in Nat /\ Take \in Nat
    BY DEF F!IInv, F!TypeOK, F!CustomerFileAssumption
  <2>2. F!Min2(Take, n) = n
    BY <2>1 DEF F!Min2
  <2>3. n - n + 1 = 1
    BY <2>1
  <2>4. SubSeq(ledger[u], 1, n) = ledger[u]
    BY <2>1
  <2>5. QED
    BY <2>2, <2>3, <2>4 DEF F!getFinancials, F!IInv, F!BalanceIsNet
<1>3. QED
  BY <1>1, <1>2, PTL

-----------------------------------------------------------------------------
(* ReadMarks: what is marked as read of a thread that grows.               *)

Sender == {"customer", "agent", "broadcast"}
Post == [by : Sender, deleted : BOOLEAN]

\* The same, message by message.
Marked ==
  \A i \in 1..Len(thread) :
    thread[i].by = "agent" /\ ~thread[i].deleted /\ i <= cleared /\ i <= Limit => i \in read

LEMMA ClearsIsMarked ==
  ASSUME R!ReadMarksAssumption, R!TypeOK PROVE R!ReadClears <=> Marked
<1>1. DOMAIN thread = 1..Len(thread) /\ Len(thread) \in Nat
  BY DEF R!TypeOK
<1>2. cleared \in Int /\ Limit \in Int
  BY <1>1 DEF R!TypeOK, R!ReadMarksAssumption
<1>3. \A i \in 1..Len(thread) : (i > cleared \/ i > Limit) <=> ~(i <= cleared /\ i <= Limit)
  BY <1>1, <1>2
<1>4. QED
  BY <1>1, <1>3 DEF R!ReadClears, R!countUnreadForUser, Marked

\* A thread that has grown, or of which something is deleted.
LEMMA ThreadKeeps ==
  ASSUME R!ReadMarksAssumption, R!IInv,
         thread' \in Seq(Post), Len(thread) <= Len(thread'),
         \A i \in 1..Len(thread) :
           thread'[i].by = thread[i].by /\ (thread[i].deleted => thread'[i].deleted),
         UNCHANGED <<read, cleared, calls>>
  PROVE  R!IInv'
<1>1. Marked /\ R!TypeOK
  BY ClearsIsMarked DEF R!IInv
<1>2. Len(thread) \in Nat /\ Len(thread') \in Nat /\ cleared \in 0..Len(thread)
  BY <1>1 DEF R!TypeOK
<1>3. R!TypeOK'
  BY <1>1, <1>2 DEF R!TypeOK, R!At, Post, Sender
<1>4. R!MarksWhatWasListed'
  <2> SUFFICES ASSUME NEW p \in Procs, calls[p].pc = "mark"
               PROVE  calls[p].ids = {i \in 1..calls[p].length : i <= Limit /\ thread'[i].by # "customer"}
    BY DEF R!MarksWhatWasListed, R!At
  <2>1. calls[p].length \in 0..Len(thread)
    BY <1>1 DEF R!TypeOK, R!At
  <2>2. calls[p].ids = {i \in 1..calls[p].length : i <= Limit /\ thread[i].by # "customer"}
    BY DEF R!IInv, R!MarksWhatWasListed, R!At
  <2>3. \A i \in 1..calls[p].length : i \in 1..Len(thread)
    BY <1>2, <2>1
  <2>4. QED
    BY <2>2, <2>3
<1>5. Marked'
  <2> SUFFICES ASSUME NEW i \in 1..Len(thread'), thread'[i].by = "agent", ~thread'[i].deleted,
                      i <= cleared, i <= Limit
               PROVE  i \in read
    BY DEF Marked
  <2>1. i \in 1..Len(thread)
    BY <1>2
  <2>2. QED
    BY <1>1, <2>1 DEF Marked
<1>6. QED
  BY <1>3, <1>4, <1>5, ClearsIsMarked, PTL DEF R!IInv

LEMMA sendMessageKeeps ==
  ASSUME R!ReadMarksAssumption, R!IInv, NEW by \in Sender, R!sendMessage(by) PROVE R!IInv'
<1> DEFINE m == [by |-> by, deleted |-> FALSE]
<1>1. thread \in Seq(Post) /\ m \in Post
  BY DEF R!IInv, R!TypeOK, Post, Sender
<1>2. thread' = Append(thread, m) /\ UNCHANGED <<read, cleared, calls>>
  BY DEF R!sendMessage
<1> HIDE DEF m
<1>3. /\ thread' \in Seq(Post) /\ Len(thread') = Len(thread) + 1
      /\ \A i \in 1..Len(thread) : thread'[i] = thread[i]
  BY <1>1, <1>2
<1>4. Len(thread) \in Nat
  BY <1>1
<1>5. QED
  BY <1>2, <1>3, <1>4, ThreadKeeps

LEMMA softDeleteKeeps ==
  ASSUME R!ReadMarksAssumption, R!IInv, NEW i, R!softDelete(i) PROVE R!IInv'
<1>1. thread \in Seq(Post) /\ i \in 1..Len(thread)
  BY DEF R!IInv, R!TypeOK, Post, Sender, R!softDelete
<1>2. thread' = [thread EXCEPT ![i] = [thread[i] EXCEPT !.deleted = TRUE]] /\ UNCHANGED <<read, cleared, calls>>
  BY DEF R!softDelete
<1>3. PICK m \in Post : m = thread[i]
  BY <1>1
<1>4. /\ [m EXCEPT !.deleted = TRUE] \in Post /\ [m EXCEPT !.deleted = TRUE].by = m.by
      /\ [m EXCEPT !.deleted = TRUE].deleted
  BY DEF Post
<1>5. thread' \in Seq(Post) /\ Len(thread') = Len(thread)
  BY <1>1, <1>2, <1>3, <1>4
<1>6. \A j \in 1..Len(thread) :
        thread'[j] = IF j = i THEN [m EXCEPT !.deleted = TRUE] ELSE thread[j]
  BY <1>1, <1>2, <1>3
<1>7. \A j \in 1..Len(thread) :
        thread'[j].by = thread[j].by /\ (thread[j].deleted => thread'[j].deleted)
  BY <1>3, <1>4, <1>6
<1>8. Len(thread) <= Len(thread')
  BY <1>1, <1>5
<1>9. QED
  BY <1>2, <1>5, <1>7, <1>8, ThreadKeeps

LEMMA listKeeps ==
  ASSUME R!ReadMarksAssumption, R!IInv, NEW p \in Procs, R!listByConversation(p) PROVE R!IInv'
<1> DEFINE r == [pc |-> "mark", length |-> Len(thread),
                 ids |-> {i \in DOMAIN thread : i <= Limit /\ thread[i].by # "customer"}]
<1>1. R!TypeOK /\ R!MarksWhatWasListed
  BY DEF R!IInv
<1>2. DOMAIN thread = 1..Len(thread) /\ Len(thread) \in Nat
  BY <1>1 DEF R!TypeOK
<1>3. calls' = [calls EXCEPT ![p] = r] /\ UNCHANGED <<thread, read, cleared>>
  BY DEF R!listByConversation, R!Become
<1>4. DOMAIN calls' = Procs /\ calls'[p] = r /\ \A q \in Procs \ {p} : calls'[q] = calls[q]
  BY <1>1, <1>3 DEF R!TypeOK
<1>5. \A q \in Procs : calls'[q].pc = "mark" => calls'[q].length \in 0..Len(thread)
  BY <1>1, <1>2, <1>4 DEF R!TypeOK, R!At
<1>6. R!TypeOK'
  BY <1>1, <1>3, <1>4, <1>5 DEF R!TypeOK, R!At
<1>7. R!MarksWhatWasListed'
  BY <1>1, <1>2, <1>3, <1>4 DEF R!MarksWhatWasListed, R!At
<1>8. QED
  BY <1>3, <1>6, <1>7 DEF R!IInv, R!ReadClears, R!countUnreadForUser

LEMMA markReadKeeps ==
  ASSUME R!ReadMarksAssumption, R!IInv, NEW p \in Procs, R!markRead(p) PROVE R!IInv'
<1>1. R!TypeOK /\ R!MarksWhatWasListed /\ Marked
  BY ClearsIsMarked DEF R!IInv
<1> DEFINE n == calls[p].length
<1>2. /\ n \in 0..Len(thread) /\ Len(thread) \in Nat /\ cleared \in 0..Len(thread)
      /\ calls[p].ids = {i \in 1..n : i <= Limit /\ thread[i].by # "customer"}
  BY <1>1 DEF R!TypeOK, R!MarksWhatWasListed, R!markRead, R!At
<1>3. /\ read' = read \cup calls[p].ids /\ cleared' = R!Max2(cleared, n) /\ thread' = thread
      /\ calls' = [calls EXCEPT ![p] = R!Idle]
  BY DEF R!markRead, R!Become
<1>4. cleared' \in 0..Len(thread) /\ (cleared' = cleared \/ cleared' = n)
  BY <1>2, <1>3 DEF R!Max2
<1>5. DOMAIN calls' = Procs /\ calls'[p].pc = "idle" /\ \A q \in Procs \ {p} : calls'[q] = calls[q]
  BY <1>1, <1>3 DEF R!TypeOK, R!Idle
<1>6. R!TypeOK' /\ R!MarksWhatWasListed'
  BY <1>1, <1>3, <1>4, <1>5 DEF R!TypeOK, R!MarksWhatWasListed, R!At
<1>7. Marked'
  <2> SUFFICES ASSUME NEW i \in 1..Len(thread), thread[i].by = "agent", ~thread[i].deleted,
                      i <= cleared', i <= Limit
               PROVE  i \in read'
    BY <1>3 DEF Marked
  <2>1. CASE i <= cleared
    BY <1>1, <1>3, <2>1 DEF Marked
  <2>2. CASE i <= n
    <3>1. i \in 1..n
      BY <1>2, <2>2
    <3>2. QED
      BY <1>2, <1>3, <3>1
  <2>3. QED
    BY <1>4, <2>1, <2>2
<1>8. QED
  BY <1>6, <1>7, ClearsIsMarked, PTL DEF R!IInv

LEMMA ReadMarksInit ==
  ASSUME R!ReadMarksAssumption, R!Init PROVE R!IInv
<1>1. thread = <<>> /\ Len(thread) = 0 /\ DOMAIN thread = {}
  BY DEF R!Init
<1>2. \A p \in Procs : calls[p].pc = "idle"
  BY DEF R!Init, R!Idle
<1>3. R!TypeOK
  BY <1>1, <1>2 DEF R!Init, R!TypeOK, R!At
<1>4. R!MarksWhatWasListed /\ R!ReadClears
  BY <1>1, <1>2 DEF R!MarksWhatWasListed, R!At, R!ReadClears, R!countUnreadForUser
<1>5. QED
  BY <1>3, <1>4 DEF R!IInv

LEMMA ReadMarksStep ==
  ASSUME R!ReadMarksAssumption, R!IInv, [R!Next]_R!vars PROVE R!IInv'
<1>1. CASE UNCHANGED R!vars
  BY <1>1 DEF R!vars, R!IInv, R!TypeOK, R!MarksWhatWasListed, R!ReadClears, R!countUnreadForUser, R!At
<1>2. ASSUME NEW by \in Sender, R!sendMessage(by) PROVE R!IInv'
  BY <1>2, sendMessageKeeps
<1>3. ASSUME NEW i \in 1..MaxMessages, R!softDelete(i) PROVE R!IInv'
  BY <1>3, softDeleteKeeps
<1>4. ASSUME NEW p \in Procs, R!Abort(p) PROVE R!IInv'
  <2>1. calls' = [calls EXCEPT ![p] = R!Idle] /\ UNCHANGED <<thread, read, cleared>> /\ DOMAIN calls = Procs
    BY <1>4 DEF R!Abort, R!Become, R!IInv, R!TypeOK
  <2>2. DOMAIN calls' = Procs /\ calls'[p].pc = "idle" /\ \A q \in Procs \ {p} : calls'[q] = calls[q]
    BY <2>1 DEF R!Idle
  <2>3. QED
    BY <2>1, <2>2 DEF R!IInv, R!TypeOK, R!MarksWhatWasListed, R!ReadClears, R!countUnreadForUser, R!At
<1>5. QED
  BY <1>1, <1>2, <1>3, <1>4, listKeeps, markReadKeeps DEF R!Next, Sender

\* Whoever has read the thread is told only of what was sent since, up to the limit.
LEMMA ReadMarksSound == ASSUME R!ReadMarksAssumption PROVE R!Spec => []R!ReadClears
<1>1. R!Spec => []R!IInv
  <2>1. R!Init => R!IInv
    BY ReadMarksInit
  <2>2. R!IInv /\ [R!Next]_R!vars => R!IInv'
    BY ReadMarksStep
  <2>3. QED
    BY <2>1, <2>2, PTL DEF R!Spec
<1>2. R!IInv => R!ReadClears
  BY DEF R!IInv
<1>3. QED
  BY <1>1, <1>2, PTL

-----------------------------------------------------------------------------
(* Screens: what the events of a row leave open screens with.              *)

LEMMA IdleFields == DOMAIN V!Idle = {"pc", "hand", "late"} /\ V!Idle.pc = "idle" /\ ~V!Idle.late /\ V!Idle.late \in BOOLEAN
BY DEF V!Idle

\* A request that goes on to send has the row in hand, or is late.
LEMMA WriterKeeps ==
  ASSUME V!IInv, NEW p \in Writers, DOMAIN writers' = Writers, UNCHANGED <<screen, behind>>,
         \A q \in Writers \ {p} :
           writers'[q] = IF V!At(q, "emit") /\ row' # row THEN [writers[q] EXCEPT !.late = TRUE] ELSE writers[q],
         DOMAIN writers'[p] = DOMAIN V!Idle, writers'[p].late \in BOOLEAN,
         writers'[p].pc \in {"emit", "getAll", "attach", "findById"},
         writers'[p].pc = "emit" /\ ~writers'[p].late => writers'[p].hand = row'
  PROVE  V!IInv'
<1>1. ASSUME NEW q \in Writers \ {p}
      PROVE  /\ DOMAIN writers'[q] = DOMAIN V!Idle /\ writers'[q].late \in BOOLEAN
             /\ writers'[q].pc = "emit" /\ ~writers'[q].late => writers'[q].hand = row'
  <2> DEFINE r == writers[q]
  <2>1. /\ DOMAIN r = {"pc", "hand", "late"} /\ r.late \in BOOLEAN
        /\ r.pc = "emit" /\ ~r.late => r.hand = row
    BY IdleFields DEF V!IInv, V!TypeOK, V!InHandIsTheRow, V!At
  <2>2. CASE r.pc = "emit" /\ row' # row
    <3>1. writers'[q] = [r EXCEPT !.late = TRUE]
      BY <2>2 DEF V!At
    <3>2. DOMAIN writers'[q] = {"pc", "hand", "late"} /\ writers'[q].late
      BY <2>1, <3>1
    <3>3. QED
      BY <3>2, IdleFields
  <2>3. CASE ~(r.pc = "emit" /\ row' # row)
    <3>1. writers'[q] = r
      BY <2>3 DEF V!At
    <3>2. QED
      BY <2>1, <2>3, <3>1, IdleFields
  <2>4. QED
    BY <2>2, <2>3
<1>2. V!TypeOK' /\ V!InHandIsTheRow'
  BY <1>1 DEF V!IInv, V!TypeOK, V!InHandIsTheRow, V!At
<1>3. V!ScreensFollow'
  BY DEF V!ScreensFollow, V!Pending
<1>4. QED
  BY <1>2, <1>3 DEF V!IInv

LEMMA WriteKeeps ==
  ASSUME V!IInv, NEW p \in Writers, NEW v, NEW pc \in {"emit", "getAll", "attach", "findById"},
         V!Write(p, v, pc)
  PROVE  V!IInv'
<1> DEFINE r == [pc |-> pc, hand |-> v, late |-> FALSE]
<1>1. DOMAIN r = DOMAIN V!Idle /\ r.late \in BOOLEAN /\ r.pc = pc /\ r.hand = v
  BY IdleFields
<1> HIDE DEF r
<1>2. DOMAIN writers' = Writers /\ row' = v /\ writers'[p] = r /\ UNCHANGED <<screen, behind>>
  BY DEF V!Write, r
<1>3. \A q \in Writers \ {p} :
        writers'[q] = IF V!At(q, "emit") /\ row' # row THEN [writers[q] EXCEPT !.late = TRUE] ELSE writers[q]
  BY DEF V!Write
<1>4. QED
  BY <1>1, <1>2, <1>3, WriterKeeps

LEMMA RereadKeeps ==
  ASSUME V!IInv, NEW p \in Writers, V!Reread(p) PROVE V!IInv'
<1> DEFINE r == [pc |-> "emit", hand |-> row, late |-> FALSE]
<1>1. DOMAIN r = DOMAIN V!Idle /\ r.late \in BOOLEAN /\ r.pc = "emit" /\ r.hand = row
  BY IdleFields
<1> HIDE DEF r
<1>2. DOMAIN writers' = Writers /\ row' = row /\ writers'[p] = r /\ UNCHANGED <<screen, behind>>
  BY DEF V!Reread, V!Become, r, V!IInv, V!TypeOK
<1>3. \A q \in Writers \ {p} : writers'[q] = writers[q]
  BY DEF V!Reread, V!Become, V!IInv, V!TypeOK
<1>4. QED
  BY <1>1, <1>2, <1>3, WriterKeeps

LEMMA createForMessageKeeps ==
  ASSUME V!IInv, NEW p \in Writers, V!createForMessage(p) PROVE V!IInv'
<1>1. DOMAIN writers[p] = {"pc", "hand", "late"}
  BY IdleFields DEF V!IInv, V!TypeOK
<1>2. /\ DOMAIN writers' = Writers /\ UNCHANGED <<screen, behind>>
      /\ writers'[p] = [writers[p] EXCEPT !.pc = "emit", !.late = TRUE]
      /\ \A q \in Writers \ {p} :
           writers'[q] = IF V!At(q, "emit") THEN [writers[q] EXCEPT !.late = TRUE] ELSE writers[q]
  BY DEF V!createForMessage
<1>3. DOMAIN writers'[p] = DOMAIN V!Idle /\ writers'[p].late = TRUE /\ writers'[p].pc = "emit"
  BY <1>1, <1>2, IdleFields
<1>4. \A q \in Writers \ {p} : DOMAIN writers'[q] = DOMAIN V!Idle /\ writers'[q].late \in BOOLEAN
        /\ (writers'[q].pc = "emit" => writers'[q].late)
  <2> SUFFICES ASSUME NEW q \in Writers \ {p}
               PROVE  DOMAIN writers'[q] = DOMAIN V!Idle /\ writers'[q].late \in BOOLEAN
                      /\ (writers'[q].pc = "emit" => writers'[q].late)
    OBVIOUS
  <2>1. DOMAIN writers[q] = {"pc", "hand", "late"} /\ writers[q].late \in BOOLEAN
    BY IdleFields DEF V!IInv, V!TypeOK
  <2>2. CASE V!At(q, "emit")
    <3>1. writers'[q] = [writers[q] EXCEPT !.late = TRUE]
      BY <1>2, <2>2
    <3>2. DOMAIN writers'[q] = DOMAIN writers[q] /\ writers'[q].late = TRUE
      BY <2>1, <3>1
    <3>3. QED
      BY <2>1, <3>2, IdleFields
  <2>3. CASE ~V!At(q, "emit")
    <3>1. writers'[q] = writers[q] /\ writers[q].pc # "emit"
      BY <1>2, <2>3 DEF V!At
    <3>2. QED
      BY <2>1, <3>1, IdleFields
  <2>4. QED
    BY <2>2, <2>3
<1>5. V!TypeOK' /\ V!InHandIsTheRow'
  BY <1>2, <1>3, <1>4 DEF V!IInv, V!TypeOK, V!InHandIsTheRow, V!At
<1>6. V!ScreensFollow'
  BY <1>3 DEF V!ScreensFollow, V!Pending
<1>7. QED
  BY <1>5, <1>6 DEF V!IInv

LEMMA BulkKeeps ==
  ASSUME V!IInv, NEW field, NEW v, V!Bulk(field, v) PROVE V!IInv'
<1>1. /\ DOMAIN writers' = Writers /\ behind' = TRUE
      /\ \A q \in Writers : writers'[q] = IF V!At(q, "emit") THEN [writers[q] EXCEPT !.late = TRUE] ELSE writers[q]
  BY DEF V!Bulk
<1>2. \A q \in Writers : DOMAIN writers'[q] = DOMAIN V!Idle /\ writers'[q].late \in BOOLEAN
        /\ (writers'[q].pc = "emit" => writers'[q].late)
  <2> SUFFICES ASSUME NEW q \in Writers
               PROVE  DOMAIN writers'[q] = DOMAIN V!Idle /\ writers'[q].late \in BOOLEAN
                      /\ (writers'[q].pc = "emit" => writers'[q].late)
    OBVIOUS
  <2>1. DOMAIN writers[q] = {"pc", "hand", "late"} /\ writers[q].late \in BOOLEAN
    BY IdleFields DEF V!IInv, V!TypeOK
  <2>2. CASE V!At(q, "emit")
    BY <1>1, <2>1, <2>2, IdleFields
  <2>3. CASE ~V!At(q, "emit")
    BY <1>1, <2>1, <2>3, IdleFields DEF V!At
  <2>4. QED
    BY <2>2, <2>3
<1>3. QED
  BY <1>1, <1>2 DEF V!IInv, V!TypeOK, V!InHandIsTheRow, V!ScreensFollow, V!At

\* A request that goes to where nothing is pending, and owes nothing.
LEMMA QuietKeeps ==
  ASSUME V!IInv, NEW p \in Writers, NEW r, DOMAIN r = DOMAIN V!Idle, r.late \in BOOLEAN, r.pc # "emit",
         writers' = [writers EXCEPT ![p] = r], row' = row, behind' \in BOOLEAN,
         \/ UNCHANGED <<screen, behind>> /\ ~V!Pending(p)
         \/ screen' = row
         \/ behind'
         \/ screen' = screen /\ (behind => behind') /\ ~V!Pending(p)
  PROVE  V!IInv'
<1>1. DOMAIN writers' = Writers /\ writers'[p] = r /\ \A q \in Writers \ {p} : writers'[q] = writers[q]
  BY DEF V!IInv, V!TypeOK
<1>2. V!TypeOK' /\ V!InHandIsTheRow'
  BY <1>1 DEF V!IInv, V!TypeOK, V!InHandIsTheRow, V!At
<1>3. V!ScreensFollow'
  <2>1. \A q \in Writers : V!Pending(q) => q = p \/ V!Pending(q)'
    BY <1>1 DEF V!Pending
  <2>2. QED
    BY <2>1 DEF V!IInv, V!ScreensFollow
<1>4. QED
  BY <1>2, <1>3 DEF V!IInv

LEMMA emitKeeps ==
  ASSUME V!IInv, NEW p \in Writers, V!emit(p) PROVE V!IInv'
<1>1. /\ writers[p].late \in BOOLEAN /\ (~writers[p].late => writers[p].hand = row)
  BY DEF V!IInv, V!TypeOK, V!InHandIsTheRow, V!emit
<1>2. /\ writers' = [writers EXCEPT ![p] = V!Idle] /\ row' = row
      /\ screen' = writers[p].hand /\ behind' = writers[p].late
  BY DEF V!emit, V!Become
<1>3. QED
  BY <1>1, <1>2, IdleFields, QuietKeeps

LEMMA findForEditKeeps ==
  ASSUME V!IInv, NEW p \in Writers, V!findForEdit(p) PROVE V!IInv'
<1> DEFINE r == [V!Idle EXCEPT !.pc = "edit"]
<1>1. DOMAIN r = DOMAIN V!Idle /\ r.late \in BOOLEAN /\ r.pc = "edit"
  BY IdleFields
<1>2. writers' = [writers EXCEPT ![p] = r] /\ UNCHANGED <<row, screen, behind>> /\ ~V!Pending(p)
  BY DEF V!findForEdit, V!Become, V!Pending, V!At
<1>3. behind' \in BOOLEAN
  BY <1>2 DEF V!IInv, V!TypeOK
<1> HIDE DEF r
<1>4. QED
  BY <1>1, <1>2, <1>3, QuietKeeps

LEMMA AbortKeeps ==
  ASSUME V!IInv, NEW p \in Writers, V!Abort(p) PROVE V!IInv'
<1>1. writers' = [writers EXCEPT ![p] = V!Idle] /\ UNCHANGED <<row, screen>> /\ behind' = (behind \/ V!Pending(p))
  BY DEF V!Abort, V!Become
<1>2. behind' \in BOOLEAN
  BY <1>1
<1>3. QED
  BY <1>1, <1>2, IdleFields, QuietKeeps

LEMMA ScreensStep ==
  ASSUME V!IInv, [V!Next]_V!vars PROVE V!IInv'
<1>1. CASE UNCHANGED V!vars
  BY <1>1 DEF V!vars, V!IInv, V!TypeOK, V!InHandIsTheRow, V!ScreensFollow, V!At, V!Pending
<1>2. CASE V!Open
  BY <1>2 DEF V!Open, V!IInv, V!TypeOK, V!InHandIsTheRow, V!ScreensFollow, V!At
<1>3. CASE V!bulkSetState \/ V!bulkAssign
  BY <1>3, BulkKeeps DEF V!bulkSetState, V!bulkAssign
<1>4. ASSUME NEW p \in Writers, V!setState(p) \/ V!assign(p) \/ V!setPinned(p) \/ V!updateTicket(p) PROVE V!IInv'
  BY <1>4, WriteKeeps DEF V!setState, V!assign, V!setPinned, V!updateTicket, V!Update
<1>5. ASSUME NEW p \in Writers, V!upsertSetting(p) \/ V!sendMessage(p) \/ V!edit(p) \/ V!softDelete(p) \/ V!toggleReaction(p) PROVE V!IInv'
  BY <1>5, WriteKeeps DEF V!upsertSetting, V!sendMessage, V!edit, V!softDelete, V!toggleReaction
<1>6. ASSUME NEW p \in Writers, V!getAll(p) \/ V!findById(p) PROVE V!IInv'
  BY <1>6, RereadKeeps DEF V!getAll, V!findById
<1>7. QED
  BY <1>1, <1>2, <1>3, <1>4, <1>5, <1>6, createForMessageKeeps, findForEditKeeps, emitKeeps,
     AbortKeeps DEF V!Next

\* What screens show is the row, or a request has yet to send, or they were passed over.
LEMMA ScreensSound == V!Spec => []V!ScreensFollow
<1>1. V!Spec => []V!IInv
  <2>1. V!Init => V!IInv
    BY IdleFields DEF V!Init, V!IInv, V!TypeOK, V!InHandIsTheRow, V!ScreensFollow, V!At
  <2>2. V!IInv /\ [V!Next]_V!vars => V!IInv'
    BY ScreensStep
  <2>3. QED
    BY <2>1, <2>2, PTL DEF V!Spec
<1>2. V!IInv => V!ScreensFollow
  BY DEF V!IInv
<1>3. QED
  BY <1>1, <1>2, PTL

-----------------------------------------------------------------------------
(* The composition does what each part does on its own.                      *)

LEMMA PartsOfSupport == EitherSpec => F!Spec /\ R!Spec /\ V!Spec
<1>1. EitherInit => F!Init /\ R!Init /\ V!Init
  BY DEF EitherInit
<1>2. [EitherNext]_<<part, vars, file, marks, screens>> =>
        [F!Next]_(F!vars) /\ [R!Next]_(R!vars) /\ [V!Next]_(V!vars)
  BY DEF EitherNext, file, marks, screens, F!vars, F!file, R!vars, V!vars
<1>3. QED
  BY <1>1, <1>2, PTL DEF EitherSpec, F!Spec, R!Spec, V!Spec

\* For any tags, toggles and ledgers: what was answered is what is kept, and the
\* summary of a ledger is the net of its rows, by induction over them.
THEOREM FilesAgree == EitherSpec => []FileAgrees
<1>1. F!FileAgrees => FileAgrees
  BY DEF FileAgrees
<1>2. QED
  BY <1>1, PartsOfSupport, CustomerFileSound, SupportAssumption, PTL

\* For threads of any length and any number of tabs: who has read the thread is told
\* only of what was sent since, or lies past the limit.
THEOREM ReadingClears == EitherSpec => []ReadClears
<1>1. R!ReadClears => ReadClears
  BY DEF ReadClears
<1>2. QED
  BY <1>1, PartsOfSupport, ReadMarksSound, SupportAssumption, PTL

\* For any writers of a ticket, a message or the settings: a screen is behind the
\* row only while somebody has yet to send it, or after it was passed over.
THEOREM ScreensCatchUp == EitherSpec => []ScreensFollow
<1>1. V!ScreensFollow => ScreensFollow
  BY DEF ScreensFollow
<1>2. QED
  BY <1>1, PartsOfSupport, ScreensSound, PTL

=============================================================================
