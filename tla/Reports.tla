------------------------------- MODULE Reports -------------------------------
(***************************************************************************)
(* The figures staff look at: the control centre's snapshot                *)
(* (controlCenter.service.ts, with health.service.ts) and the support      *)
(* reports (reporting.service.ts), while tickets are opened, resolved and  *)
(* assigned.  A figure is a query of its own; those of one Promise.all or  *)
(* allSettled are done in any order, and any of them may fail.  Tickets    *)
(* stand for every table that is counted; averages and names are left out. *)
(***************************************************************************)
EXTENDS Integers, Sequences, FiniteSets

CONSTANTS
  Procs,   \* reports in the making at one time
  Tickets,
  Days,    \* the window, in days
  Backlog, \* unassigned tickets that are too many: 10
  MaxTime  \* bound on the clock, in half days

VARIABLES
  ticket, \* each ticket
  now,    \* the clock
  req,    \* the report in each slot
  moved   \* history: the slots whose figures changed since they were asked for

vars == <<ticket, now, req, moved>>

States == {"OPEN", "PENDING", "RESOLVED", "ARCHIVED"}
NoTicket == [state |-> "none", agent |-> FALSE, createdAt |-> -1, resolvedAt |-> -1]

Since == now - 2 * Days
Kept == {t \in Tickets : ticket[t].state # "none"}
In(states) == Cardinality({t \in Kept : ticket[t].state \in states})
InRange(field) == {t \in Kept : ticket[t][field] >= Since}

-----------------------------------------------------------------------------
(* The queries of each report: what is asked at once, and then what next.  *)

Batches ==
  [snapshot |-> <<{"openConversations", "unassigned", "health"}>>,
   overview |-> <<{"total", "open", "pending", "resolved", "archived", "newInRange",
                   "resolvedInRange"}, {"resolvedTickets"}>>,
   trends |-> <<{"created", "resolvedOn"}>>,
   agentPerformance |-> <<{"resolvedByAgent"}>>]

Queries == UNION {UNION {Batches[r][i] : i \in DOMAIN Batches[r]} : r \in DOMAIN Batches}

\* The buckets of a chart: whole days, today the last.
Day(time) == time \div 2
Buckets == (Day(now) - Days + 1)..Day(now)
On(field, d) == Cardinality({t \in InRange(field) : Day(ticket[t][field]) = d})

Value(q) ==
  CASE q \in {"open", "openConversations"} -> In({"OPEN"})
    [] q = "pending" -> In({"PENDING"})
    [] q = "resolved" -> In({"RESOLVED"})
    [] q = "archived" -> In({"ARCHIVED"})
    [] q = "unassigned" -> Cardinality({t \in Kept : ticket[t].state \in {"OPEN", "PENDING"} /\ ~ticket[t].agent})
    [] q = "total" -> Cardinality(Kept)
    [] q = "newInRange" -> Cardinality(InRange("createdAt"))
    [] q \in {"resolvedInRange", "resolvedTickets"} -> Cardinality(InRange("resolvedAt"))
    [] q = "created" -> [d \in Buckets |-> On("createdAt", d)]
    [] q = "resolvedOn" -> [d \in Buckets |-> On("resolvedAt", d)]
    [] q = "resolvedByAgent" -> Cardinality({t \in InRange("resolvedAt") : ticket[t].agent})
    [] q = "health" -> "healthy"

Idle == [report |-> "none", batch |-> 0, got |-> <<>>]
Nothing == [q \in {} |-> {}]

Init ==
  /\ ticket = [t \in Tickets |-> NoTicket] /\ now = 2 * Days
  /\ req = [p \in Procs |-> Idle] /\ moved = {}

-----------------------------------------------------------------------------
(* Tickets.                                                                *)

\* Reports in the making may see both what was and what is.
Move == moved' = {p \in Procs : req[p].report # "none"}

Set(t, v) == v # ticket[t] /\ ticket' = [ticket EXCEPT ![t] = v] /\ UNCHANGED <<now, req>> /\ Move

open(t) ==
  /\ ticket[t] = NoTicket
  /\ Set(t, [NoTicket EXCEPT !.state = "OPEN", !.createdAt = now])

\* By setState, bulkSetState or a message that reopens: when it was resolved
\* stays on the ticket for good.
setState(t) ==
  /\ ticket[t] # NoTicket
  /\ \E s \in States :
       Set(t, [ticket[t] EXCEPT !.state = s, !.resolvedAt = IF s = "RESOLVED" THEN now ELSE @])

assign(t) ==
  /\ ticket[t] # NoTicket
  /\ \E a \in BOOLEAN : Set(t, [ticket[t] EXCEPT !.agent = a])

Tick == now < MaxTime /\ now' = now + 1 /\ UNCHANGED <<ticket, req>> /\ Move

-----------------------------------------------------------------------------
(* Reports.                                                                *)

Asked(p) == req[p].report # "none"
Batch(p) == Batches[req[p].report][req[p].batch]
Done(p) == Asked(p) /\ req[p].batch = Len(Batches[req[p].report]) /\ Batch(p) \subseteq DOMAIN req[p].got

Ask(p, report) ==
  /\ ~Asked(p)
  /\ req' = [req EXCEPT ![p] = [report |-> report, batch |-> 1, got |-> Nothing]]
  /\ UNCHANGED <<ticket, now, moved>>

Got(p, q, r) == [req EXCEPT ![p].got = [x \in DOMAIN @ \cup {q} |-> IF x = q THEN r ELSE @[x]]]

\* One query is answered.  When all of the batch are, the next are sent.
Answer(p, q) ==
  /\ Asked(p) /\ q \in Batch(p) \ DOMAIN req[p].got
  /\ req' = Got(p, q, [ok |-> TRUE, value |-> Value(q)])
  /\ UNCHANGED <<ticket, now, moved>>

NextBatch(p) ==
  /\ Asked(p) /\ ~Done(p) /\ Batch(p) \subseteq DOMAIN req[p].got
  /\ req' = [req EXCEPT ![p].batch = @ + 1]
  /\ UNCHANGED <<ticket, now, moved>>

End(p) ==
  /\ req' = [req EXCEPT ![p] = Idle] /\ moved' = moved \ {p}
  /\ UNCHANGED <<ticket, now>>

\* A query fails.  The probe of the database tells; allSettled notes it; a
\* report made with Promise.all is not answered at all.
Fail(p, q) ==
  /\ Asked(p) /\ q \in Batch(p) \ DOMAIN req[p].got
  /\ IF req[p].report = "snapshot"
     THEN /\ req' = Got(p, q, IF q = "health" THEN [ok |-> TRUE, value |-> "unhealthy"] ELSE [ok |-> FALSE])
          /\ UNCHANGED <<ticket, now, moved>>
     ELSE End(p)

Respond(p) == Done(p) /\ End(p)

\* Seeded fault: a figure that could not be read is shown as it falls back.
Fault_degraded_Quiet(p) == {}

\* The figures of a snapshot that could not be read; and what is shown of each.
degraded(p) == {q \in DOMAIN req[p].got : ~req[p].got[q].ok}

Shown(p, q) == IF req[p].got[q].ok THEN req[p].got[q].value ELSE 0

alerts(p) ==
  {a \in {"dependency", "unassigned", "unread"} :
     CASE a = "dependency" -> Shown(p, "health") # "healthy"
       [] a = "unassigned" -> Shown(p, "unassigned") > Backlog
       [] a = "unread" -> degraded(p) # {}}

Next ==
  \/ \E t \in Tickets : open(t) \/ setState(t) \/ assign(t)
  \/ Tick
  \/ \E p \in Procs :
       \/ \E r \in DOMAIN Batches : Ask(p, r)
       \/ \E q \in Queries : Answer(p, q) \/ Fail(p, q)
       \/ NextBatch(p) \/ Respond(p)

Spec == Init /\ [][Next]_vars

-----------------------------------------------------------------------------

\* "Surface it plainly instead of showing zeros that look like real numbers":
\* whatever fails, a figure in an answer is the one the database has - if
\* nothing changed while it was made - or it is named as one that could not be
\* read, and an alert says so.
FiguresHonest ==
  \A p \in Procs \ moved : Done(p) =>
    \A q \in DOMAIN req[p].got :
      \/ Shown(p, q) = Value(q)
      \/ q \in degraded(p) /\ "unread" \in alerts(p)
      \/ q = "health" /\ "dependency" \in alerts(p)

AddUp(p) ==
  LET V(q) == req[p].got[q].value IN
  V("total") = V("open") + V("pending") + V("resolved") + V("archived")

\* The bars of a chart, from the oldest to today's, added up.
FirstDay == Day(now) - Days
Total(bars) ==
  LET upTo[i \in 0..Days] == IF i = 0 THEN 0 ELSE upTo[i - 1] + bars[FirstDay + i]
  IN upTo[Days]

\* Figures of one report belong together, if nothing changed while it was made:
\* the states make up the total.  At any moment the bars of a chart make up the
\* card beside it, less the part of a day that the window begins with.
FiguresAgree ==
  /\ \A p \in Procs \ moved : Done(p) /\ req[p].report = "overview" => AddUp(p)
  /\ Total(Value("created")) =
       Value("newInRange") - On("createdAt", FirstDay)
  /\ Total(Value("resolvedOn")) =
       Value("resolvedInRange") - On("resolvedAt", FirstDay)

FiguresHold == FiguresHonest /\ FiguresAgree

\* The parts of the overview are its total, whatever happens meanwhile.
PartsAddUp == \A p \in Procs : Done(p) /\ req[p].report = "overview" => AddUp(p)

\* Those that are counted as resolved in the window are not open again.
ResolvedAreResolved ==
  Value("resolvedInRange") <= In({"RESOLVED", "ARCHIVED"})

-----------------------------------------------------------------------------
(* Why it holds.                                                           *)

ReportsAssumption == IsFiniteSet(Tickets) /\ Days \in Nat

TypeOK ==
  /\ ticket \in [Tickets -> [state : States \cup {"none"}, agent : BOOLEAN,
                            createdAt : Int, resolvedAt : Int]]
  /\ now \in Nat
  /\ DOMAIN req = Procs
  /\ \A p \in Procs :
       /\ DOMAIN req[p] = {"report", "batch", "got"}
       /\ Asked(p) => /\ req[p].report \in DOMAIN Batches
                      /\ req[p].batch \in 1..Len(Batches[req[p].report])
                      /\ DOMAIN req[p].got \subseteq Queries
  /\ moved \subseteq Procs

\* Nothing happens in the future, and the clock is a window past its beginning.
PastOnly ==
  /\ now >= 2 * Days
  /\ \A t \in Tickets, field \in {"createdAt", "resolvedAt"} : ticket[t][field] \in -1..now

\* What a report has got so far: everything that came before its batch; figures
\* that are the database's, if nothing changed; and nothing that could not be read,
\* except in a snapshot.
AnswersAreRead ==
  \A p \in Procs : Asked(p) =>
    /\ \A i \in 1..(req[p].batch - 1) : Batches[req[p].report][i] \subseteq DOMAIN req[p].got
    /\ \A q \in DOMAIN req[p].got :
         /\ req[p].got[q].ok \in BOOLEAN
         /\ req[p].report # "snapshot" => req[p].got[q].ok
         /\ req[p].got[q].ok /\ p \notin moved =>
              req[p].got[q].value = Value(q) \/ (q = "health" /\ req[p].got[q].value = "unhealthy")
         /\ q = "health" => req[p].got[q].ok /\ req[p].report = "snapshot"

IInv == TypeOK /\ PastOnly /\ AnswersAreRead

=============================================================================
