------------------------------- MODULE Notices -------------------------------
(***************************************************************************)
(* Notifications and the sweeping of what is spent: notification.service.ts *)
(* writes a row for each user and pushes it, users read and delete their   *)
(* own, and jobs/scheduler.ts deletes old read ones, expired refresh       *)
(* tokens and expired verifications.  The timers live in the process; a    *)
(* task that fails is logged and tried at its next tick.  Two runs of one  *)
(* task at a time (the first run is on a timer of its own) are left out:   *)
(* they delete the same rows.                                              *)
(***************************************************************************)
EXTENDS FiniteSets

CONSTANTS
  Users,
  Sources,       \* requests that notify: one user, or all for an announcement
  Refreshes,     \* rows of refresh tokens
  Verifications  \* rows of e-mail verifications

VARIABLES
  notice, \* the row of a source for a user: none, unread, read or deleted
  old,    \* the sources whose rows are past 30 days
  token,  \* each expiring row: none, live or expired
  req,    \* how far each source has got, and whom it is for
  told,   \* the <<source, user>> pairs pushed over the sockets
  task    \* the tasks: waiting, or running with a cut-off

vars == <<notice, old, token, req, told, task>>

TaskOf ==
  [k \in Refreshes \cup Verifications |->
     IF k \in Refreshes THEN "cleanup-expired-refresh-tokens"
     ELSE "cleanup-expired-verifications"]
Tasks == {"cleanup-expired-refresh-tokens", "cleanup-expired-verifications",
          "cleanup-old-read-notifications"}

Waiting == [pc |-> "waiting", spent |-> {}]

Init ==
  /\ notice = [s \in Sources |-> [u \in Users |-> "none"]]
  /\ old = {}
  /\ token = [k \in Refreshes \cup Verifications |-> "none"]
  /\ req = [s \in Sources |-> [pc |-> "none", to |-> {}]]
  /\ told = {}
  /\ task = [t \in Tasks |-> Waiting]

At(s, pc) == req[s].pc = pc
Goto(s, pc) == req' = [req EXCEPT ![s].pc = pc]

-----------------------------------------------------------------------------
(* Notifying.                                                              *)

\* The accounts there are when an announcement reads them; nobody is nothing
\* to do.
Begin(s, to) ==
  /\ At(s, "none") /\ to # {}
  /\ req' = [req EXCEPT ![s] = [pc |-> "create", to |-> to]]
  /\ UNCHANGED <<notice, old, token, told, task>>

notify(s) == \E u \in Users : Begin(s, {u})
broadcast(s) == \E active \in SUBSET Users : Begin(s, active)

\* One statement for all rows, which is done or not; the callers do not wait.
createMany(s) ==
  /\ At(s, "create")
  /\ \/ /\ notice' = [notice EXCEPT ![s] =
                        [u \in Users |-> IF u \in req[s].to THEN "unread" ELSE @[u]]]
        /\ Goto(s, "push")
     \/ UNCHANGED notice /\ Goto(s, "ended")
  /\ UNCHANGED <<old, token, told, task>>

toUser(s) ==
  /\ At(s, "push")
  /\ told' = told \cup ({s} \X req[s].to)
  /\ Goto(s, "ended")
  /\ UNCHANGED <<notice, old, token, task>>

-----------------------------------------------------------------------------
(* What users do with their own rows.                                      *)

\* The rows of u that are from one of the sources S become v.
Change(u, S, v) ==
  /\ S # {}
  /\ notice' = [s \in Sources |-> IF s \in S THEN [notice[s] EXCEPT ![u] = v] ELSE notice[s]]
  /\ UNCHANGED <<old, token, req, told, task>>

Unread(u) == {s \in Sources : notice[s][u] = "unread"}
Seen(u) == {s \in Sources : notice[s][u] = "read"}

markRead(u) == \E s \in Unread(u) \cup Seen(u) : Change(u, {s}, "read")
markAllRead(u) == Change(u, Unread(u), "read")
delete(u) == \E s \in Unread(u) \cup Seen(u) : Change(u, {s}, "deleted")
deleteAllRead(u) == Change(u, Seen(u), "deleted")

-----------------------------------------------------------------------------
(* Time, and the tasks.                                                    *)

ThirtyDays(s) ==
  /\ req[s].pc \in {"push", "ended"} /\ s \notin old
  /\ old' = old \cup {s}
  /\ UNCHANGED <<notice, token, req, told, task>>

Create(k) ==
  /\ token[k] = "none" /\ token' = [token EXCEPT ![k] = "live"]
  /\ UNCHANGED <<notice, old, req, told, task>>

Expire(k) ==
  /\ token[k] = "live" /\ token' = [token EXCEPT ![k] = "expired"]
  /\ UNCHANGED <<notice, old, req, told, task>>

\* What the cut-off of a task's statement lets it delete.
Spent(t) ==
  IF t = "cleanup-old-read-notifications" THEN old
  ELSE {k \in DOMAIN token : TaskOf[k] = t /\ token[k] = "expired"}

\* A tick of the task's timer: the cut-off is computed, and the statement sent.
Tick(t) ==
  /\ task[t] = Waiting
  /\ task' = [task EXCEPT ![t] = [pc |-> "running", spent |-> Spent(t)]]
  /\ UNCHANGED <<notice, old, token, req, told>>

\* Of the notices it takes those that are read by then.
deleteMany(t) ==
  LET gone == task[t].spent IN
  /\ task[t].pc = "running"
  /\ IF t = "cleanup-old-read-notifications"
     THEN /\ notice' = [s \in Sources |-> [u \in Users |->
                          IF s \in gone /\ notice[s][u] = "read" THEN "deleted" ELSE notice[s][u]]]
          /\ UNCHANGED token
     ELSE /\ token' = [k \in DOMAIN token |-> IF k \in gone THEN "none" ELSE token[k]]
          /\ UNCHANGED notice
  /\ task' = [task EXCEPT ![t] = Waiting]
  /\ UNCHANGED <<old, req, told>>

\* Seeded fault: a task that failed is not run again.
Fault_safeRun_Stops(t) ==
  /\ task[t].pc = "running"
  /\ task' = [task EXCEPT ![t] = [pc |-> "stopped", spent |-> {}]]
  /\ UNCHANGED <<notice, old, token, req, told>>

\* The catch of a task: logged, and left to the next tick.
safeRun(t) ==
  /\ task[t].pc = "running"
  /\ task' = [task EXCEPT ![t] = Waiting]
  /\ UNCHANGED <<notice, old, token, req, told>>

\* Nothing of what was in flight is taken up again.
Restart ==
  /\ task' = [t \in Tasks |-> Waiting]
  /\ req' = [s \in Sources |-> IF req[s].pc = "none" THEN req[s] ELSE [req[s] EXCEPT !.pc = "ended"]]
  /\ UNCHANGED <<notice, old, token, told>>

Next ==
  \/ \E s \in Sources : notify(s) \/ broadcast(s) \/ createMany(s) \/ toUser(s) \/ ThirtyDays(s)
  \/ \E u \in Users : markRead(u) \/ markAllRead(u) \/ delete(u) \/ deleteAllRead(u)
  \/ \E k \in DOMAIN token : Create(k) \/ Expire(k)
  \/ \E t \in Tasks : Tick(t) \/ deleteMany(t) \/ safeRun(t)
  \/ Restart

\* Timers tick; a statement that is sent again and again is done some time.
Fairness ==
  \A t \in Tasks : WF_vars(Tick(t)) /\ SF_vars(deleteMany(t))

Spec == Init /\ [][Next]_vars /\ Fairness

-----------------------------------------------------------------------------

\* What is pushed was kept, and an announcement is for everybody or nobody:
\* when one user is told, each of them has, or had, a row.
ToldIsKept ==
  \A s \in Sources, u \in Users :
    <<s, u>> \in told => \A v \in req[s].to : notice[s][v] # "none"

\* "Each task is wrapped so one failing task never stops the others", nor
\* itself: what has expired, and what is old and read, goes in the end, however
\* often a task fails or the process is started anew.
SpentEnds ==
  /\ \A k \in Refreshes \cup Verifications : token[k] = "expired" ~> token[k] # "expired"
  /\ \A s \in Sources, u \in Users :
       s \in old /\ notice[s][u] = "read" ~> notice[s][u] # "read"

HouseKept == []ToldIsKept /\ SpentEnds

(* Why what is told is kept: it was inserted for all it is for, and a row   *)
(* never goes back to not being there.                                     *)

TypeOK ==
  /\ notice \in [Sources -> [Users -> {"none", "unread", "read", "deleted"}]]
  /\ req \in [Sources -> [pc : {"none", "create", "push", "ended"}, to : SUBSET Users]]

Told(s) == \E u \in Users : <<s, u>> \in told

KeptFirst ==
  \A s \in Sources :
    /\ At(s, "push") \/ Told(s) => \A u \in req[s].to : notice[s][u] # "none"
    /\ Told(s) => At(s, "ended")

IInv == TypeOK /\ KeptFirst

=============================================================================
