------------------------------ MODULE Tournament ------------------------------
(***************************************************************************)
(* services/tournament.service.ts: registration for one tournament, while  *)
(* admins edit and delete it and time passes.                              *)
(*                                                                         *)
(* register runs in a READ COMMITTED transaction of four statements, each  *)
(* seeing what has been committed by then.  The insert is the last one: it *)
(* and the commit are one step, since what it would make others wait for   *)
(* (the unique key, the tournament's row) only delays them.                *)
(***************************************************************************)
EXTENDS Integers, Sequences, FiniteSets

CONSTANTS
  Users,
  Procs,       \* registrations in flight at one time
  Capacities,  \* values an admin gives maxParticipants
  MaxTime,     \* bound on the clock
  NoTournament

VARIABLES
  tournament,   \* the row of tournaments, or NoTournament
  participants, \* its tournament_participants, oldest first
  now,          \* the clock
  req           \* the registration in each slot

vars == <<tournament, participants, now, req>>

Status == {"DRAFT", "UPCOMING", "REGISTRATION_OPEN", "LIVE", "COMPLETED", "CANCELLED"}

\* A null registrationOpensAt is time 0, a null registrationClosesAt a time
\* that never comes.
Tournaments ==
  [status : Status, maxParticipants : Capacities,
   opensAt : 0..MaxTime, closesAt : 0..(MaxTime + 1)]

ASSUME TournamentAssumption ==
  /\ MaxTime \in Nat /\ Capacities \subseteq Int /\ IsFiniteSet(Procs)
  /\ NoTournament \notin Tournaments

Idle == [pc |-> "idle"]

Advance(p, r) == req' = [req EXCEPT ![p] = r] /\ UNCHANGED <<tournament, participants, now>>

At(p, pc) == req[p].pc = pc

Init ==
  /\ tournament \in Tournaments
  /\ participants = <<>>
  /\ now = 0
  /\ req = [p \in Procs |-> Idle]

register(p, u) ==
  At(p, "idle") /\ Advance(p, [pc |-> "find", user |-> u])

Open == tournament.status = "REGISTRATION_OPEN" /\ tournament.closesAt >= now

\* capacity is read here, and compared with a count taken later.
FindTournament(p) ==
  /\ At(p, "find")
  /\ Advance(p, IF tournament # NoTournament /\ Open
                THEN [pc |-> "count", user |-> req[p].user, max |-> tournament.maxParticipants]
                ELSE Idle)

\* Seeded fault: a tournament that is exactly full takes another.
Fault_CountParticipants_OffByOne(p) ==
  /\ At(p, "count")
  /\ Advance(p, IF Len(participants) > req[p].max THEN Idle ELSE [req[p] EXCEPT !.pc = "existing"])

CountParticipants(p) ==
  /\ At(p, "count")
  /\ Advance(p, IF Len(participants) >= req[p].max THEN Idle ELSE [req[p] EXCEPT !.pc = "existing"])

Registered(u) == \E i \in DOMAIN participants : participants[i].user = u

FindExisting(p) ==
  /\ At(p, "existing")
  /\ Advance(p, IF Registered(req[p].user) THEN Idle ELSE [req[p] EXCEPT !.pc = "create"])

\* The unique index refuses a second row of one user, the foreign key a row
\* of a tournament deleted meanwhile.
CreateParticipant(p) ==
  /\ At(p, "create")
  /\ participants' = IF tournament = NoTournament \/ Registered(req[p].user)
                     THEN participants
                     ELSE Append(participants, [user |-> req[p].user, registeredAt |-> now])
  /\ req' = [req EXCEPT ![p] = Idle]
  /\ UNCHANGED <<tournament, now>>

\* A statement fails, or the process ends: nothing was written.
Abort(p) == ~At(p, "idle") /\ Advance(p, Idle)

\* Any field, in any status: the body of the request is written as it comes.
update ==
  /\ tournament # NoTournament
  /\ tournament' \in Tournaments
  /\ UNCHANGED <<participants, now, req>>

\* The participants go with their tournament (onDelete: Cascade).  One created
\* later is another: its new id is out of reach of the registrations in flight.
remove ==
  /\ tournament # NoTournament
  /\ tournament' = NoTournament /\ participants' = <<>>
  /\ UNCHANGED <<now, req>>

Tick == now < MaxTime /\ now' = now + 1 /\ UNCHANGED <<tournament, participants, req>>

Step(p) ==
  \/ FindTournament(p)
  \/ CountParticipants(p)
  \/ FindExisting(p)
  \/ CreateParticipant(p)

Next ==
  \/ \E p \in Procs, u \in Users : register(p, u)
  \/ \E p \in Procs : Step(p) \/ Abort(p)
  \/ update
  \/ remove
  \/ Tick

Spec == Init /\ [][Next]_vars

-----------------------------------------------------------------------------

Requests ==
  {Idle} \union [pc : {"find"}, user : Users]
         \union [pc : {"count", "existing", "create"}, user : Users, max : Capacities]

TypeOK ==
  /\ tournament \in Tournaments \union {NoTournament}
  /\ participants \in Seq([user : Users, registeredAt : 0..MaxTime])
  /\ now \in 0..MaxTime
  /\ req \in [Procs -> Requests]

\* No user is entered twice, however many registrations of one user pass the
\* check for an existing entry together.
OneEntryPerUser ==
  \A i, k \in DOMAIN participants : participants[i].user = participants[k].user => i = k

\* A registration that overlaps the deletion of its tournament leaves no row.
NoOrphans == tournament = NoTournament => participants = <<>>

\* Registrations that counted together overrun the capacity, but by fewer
\* than there are in flight: once it is full, every later count sees it.
OverfillBounded ==
  participants = <<>> \/ \E max \in Capacities : Len(participants) < max + Cardinality(Procs)

\* Who is entered is entered once, and they are not many more than there is
\* room for.
EntriesSound == OneEntryPerUser /\ OverfillBounded

\* Why that is: whoever is past the count is one of the slots, and counted fewer
\* than there was room for.
Passed == {p \in Procs : req[p].pc \in {"existing", "create"}}

Overrun ==
  \/ participants = <<>> /\ Passed = {}
  \/ \E max \in Capacities : Len(participants) + Cardinality(Passed) < max + Cardinality(Procs)

IInv == TypeOK /\ OneEntryPerUser /\ NoOrphans

-----------------------------------------------------------------------------
(* What the comment on register promises, and the code does not keep. *)

\* "respecting capacity": nobody is registered into a tournament that is full.
NeverOverfull ==
  [][Len(participants') > Len(participants) =>
       Len(participants) < tournament.maxParticipants]_vars

\* "respecting ... window": nobody is registered before registration opens.
WindowRespected ==
  [][Len(participants') > Len(participants) => now >= tournament.opensAt]_vars

=============================================================================
