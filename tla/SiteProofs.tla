----------------------------- MODULE SiteProofs -----------------------------
(***************************************************************************)
(* The site, for any users and requests.  Registration keeps one entry per *)
(* user, no entry without a tournament, and an overrun of the capacity     *)
(* below the number of registrations in flight.  Then the same is done for *)
(* what MCSite composes it with: prizes that are withdrawn, posts that are *)
(* closed, likes that are toggled, and deploys that seed the database.     *)
(***************************************************************************)
EXTENDS MCSite, SequenceTheorems, FiniteSetTheorems, TLAPS

Entry == [user : Users, registeredAt : 0..MaxTime]

LEMMA InitInv == Init => IInv
<1> SUFFICES ASSUME Init PROVE IInv
  OBVIOUS
<1>1. /\ tournament \in Tournaments /\ now \in 0..MaxTime
      /\ req \in [Procs -> Requests]
  BY TournamentAssumption DEF Init, Requests
<1>2. participants = <<>> /\ participants \in Seq(Entry)
  BY EmptySeq DEF Init
<1>3. QED
  BY <1>1, <1>2 DEF IInv, TypeOK, OneEntryPerUser, NoOrphans, Entry

\* A step of a registration that writes nothing keeps its request well formed.
LEMMA AdvanceInv ==
  ASSUME IInv, NEW p \in Procs, NEW r \in Requests, Advance(p, r)
  PROVE  IInv'
BY DEF IInv, TypeOK, OneEntryPerUser, NoOrphans, Advance

LEMMA CreateInv ==
  ASSUME IInv, NEW p \in Procs, CreateParticipant(p)
  PROVE  IInv'
<1>1. /\ participants \in Seq(Entry) /\ tournament \in Tournaments \union {NoTournament}
      /\ now \in 0..MaxTime /\ req \in [Procs -> Requests]
  BY DEF IInv, TypeOK, Entry
<1>2. PICK u \in Users : u = req[p].user
  BY <1>1 DEF CreateParticipant, At, Requests, Idle
<1>3. PICK n \in Nat : n = Len(participants)
  BY <1>1
<1>4. UNCHANGED <<tournament, now>> /\ req' \in [Procs -> Requests]
  BY <1>1 DEF CreateParticipant, Requests
<1>5. CASE tournament = NoTournament \/ Registered(u)
  <2>1. participants' = participants
    BY <1>2, <1>5 DEF CreateParticipant
  <2>2. QED
    BY <1>4, <2>1 DEF IInv, TypeOK, OneEntryPerUser, NoOrphans
<1>6. CASE ~(tournament = NoTournament \/ Registered(u))
  <2>1. PICK e \in Entry : e.user = u /\ participants' = Append(participants, e)
    <3>1. participants' = Append(participants, [user |-> u, registeredAt |-> now])
      BY <1>2, <1>6 DEF CreateParticipant
    <3>2. [user |-> u, registeredAt |-> now] \in Entry
      BY <1>1 DEF Entry
    <3>3. QED
      BY <3>1, <3>2
  <2>2. /\ participants' \in Seq(Entry) /\ DOMAIN participants' = 1..(n + 1)
        /\ DOMAIN participants = 1..n /\ participants'[n + 1] = e
        /\ \A i \in 1..n : participants'[i] = participants[i]
    BY <1>1, <1>3, <2>1, AppendProperties
  <2>3. \A i \in 1..n : participants[i].user # u
    BY <1>6, <2>2 DEF Registered
  <2>4. \A i, k \in 1..n : participants'[i].user = participants'[k].user => i = k
    BY <2>2 DEF IInv, OneEntryPerUser
  <2>5. \A i \in 1..n : participants'[i].user # participants'[n + 1].user
    BY <2>1, <2>2, <2>3
  <2>6. \A i \in DOMAIN participants' : i \in 1..n \/ i = n + 1
    BY <2>2
  <2>7. OneEntryPerUser'
    BY <2>4, <2>5, <2>6 DEF OneEntryPerUser
  <2>8. TypeOK' /\ NoOrphans'
    BY <1>1, <1>4, <1>6, <2>2 DEF TypeOK, NoOrphans, Entry
  <2>9. QED
    BY <2>7, <2>8 DEF IInv
<1>7. QED
  BY <1>5, <1>6

LEMMA StepInv == IInv /\ [Next]_vars => IInv'
<1> SUFFICES ASSUME IInv, [Next]_vars PROVE IInv'
  OBVIOUS
<1>1. TypeOK
  BY DEF IInv
<1>2. ASSUME NEW p \in Procs, NEW u \in Users, register(p, u) PROVE IInv'
  <2>1. [pc |-> "find", user |-> u] \in Requests
    BY DEF Requests
  <2>2. QED
    BY <1>2, <2>1, AdvanceInv DEF register
<1>3. ASSUME NEW p \in Procs, Step(p) \/ Abort(p) PROVE IInv'
  <2>1. PICK r \in Requests : r = req[p]
    BY <1>1 DEF TypeOK
  <2>2. Idle \in Requests
    BY DEF Requests
  <2>3. CASE FindTournament(p)
    <3>1. PICK s \in Requests : Advance(p, s)
      <4>1. CASE tournament # NoTournament /\ Open
        <5>1. tournament.maxParticipants \in Capacities
          BY <1>1, <4>1 DEF TypeOK, Tournaments
        <5>2. r.pc = "find" /\ r.user \in Users
          BY <2>1, <2>3 DEF FindTournament, At, Requests, Idle
        <5>3. [pc |-> "count", user |-> r.user, max |-> tournament.maxParticipants] \in Requests
          BY <5>1, <5>2 DEF Requests
        <5>4. QED
          BY <2>1, <2>3, <4>1, <5>3 DEF FindTournament
      <4>2. CASE ~(tournament # NoTournament /\ Open)
        BY <2>2, <2>3, <4>2 DEF FindTournament
      <4>3. QED
        BY <4>1, <4>2
    <3>2. QED
      BY <3>1, AdvanceInv
  <2>4. CASE CountParticipants(p) \/ FindExisting(p)
    <3>1. r.pc \in {"count", "existing"}
      BY <2>1, <2>4 DEF CountParticipants, FindExisting, At
    <3>2. [r EXCEPT !.pc = "existing"] \in Requests /\ [r EXCEPT !.pc = "create"] \in Requests
      BY <3>1 DEF Requests, Idle
    <3>3. Advance(p, Idle) \/ Advance(p, [r EXCEPT !.pc = "existing"])
            \/ Advance(p, [r EXCEPT !.pc = "create"])
      BY <2>1, <2>4 DEF CountParticipants, FindExisting
    <3>4. QED
      BY <2>2, <3>2, <3>3, AdvanceInv
  <2>5. CASE CreateParticipant(p)
    BY <2>5, CreateInv
  <2>6. CASE Abort(p)
    BY <2>2, <2>6, AdvanceInv DEF Abort
  <2>7. QED
    BY <1>3, <2>3, <2>4, <2>5, <2>6 DEF Step
<1>4. CASE update \/ Tick \/ UNCHANGED vars
  <2>1. /\ UNCHANGED <<participants, req>> /\ now' \in 0..MaxTime
        /\ tournament' \in Tournaments \union {NoTournament}
    BY <1>1, <1>4, TournamentAssumption DEF update, Tick, vars, TypeOK
  <2>2. tournament' = NoTournament => participants = <<>>
    <3>1. CASE update
      BY <3>1, TournamentAssumption DEF update
    <3>2. CASE Tick \/ UNCHANGED vars
      BY <3>2 DEF Tick, vars, IInv, NoOrphans
    <3>3. QED
      BY <1>4, <3>1, <3>2
  <2>3. QED
    BY <1>1, <2>1, <2>2 DEF IInv, TypeOK, OneEntryPerUser, NoOrphans
<1>5. CASE remove
  <2>1. participants' = <<>> /\ participants' \in Seq(Entry)
    BY <1>5, EmptySeq DEF remove
  <2>2. QED
    BY <1>1, <1>5, <2>1 DEF remove, IInv, TypeOK, OneEntryPerUser, NoOrphans, Entry
<1>6. QED
  BY <1>2, <1>3, <1>4, <1>5 DEF Next

\* Every reachable state is well formed, with one entry per user and none
\* without a tournament.
THEOREM Invariance == Spec => []IInv
<1>1. QED
  BY InitInv, StepInv, PTL DEF Spec

-----------------------------------------------------------------------------
(* The overrun of the capacity.                                             *)

LEMMA PassedFinite ==
  /\ IsFiniteSet(Procs) /\ IsFiniteSet(Passed)
  /\ Cardinality(Procs) \in Nat /\ Cardinality(Passed) \in Nat
  /\ Cardinality(Passed) <= Cardinality(Procs)
<1>1. IsFiniteSet(Procs) /\ Passed \subseteq Procs
  BY TournamentAssumption DEF Passed
<1>2. QED
  BY <1>1, FS_Subset, FS_CardinalityType

\* A step that enters nobody and passes nobody.
LEMMA OverrunShrinks ==
  ASSUME TypeOK, TypeOK', Overrun, Passed' \subseteq Passed,
         participants' = participants \/ participants' = <<>>
  PROVE  Overrun'
<1>1. Cardinality(Passed') <= Cardinality(Passed) /\ Cardinality(Passed') \in Nat
  BY PassedFinite, FS_Subset, FS_CardinalityType
<1>2. Len(participants) \in Nat /\ Len(participants') \in Nat /\ Len(participants') <= Len(participants)
  <2>1. Len(<<>>) = 0
    OBVIOUS
  <2>2. QED
    BY <2>1, LenProperties DEF TypeOK
<1>3. CASE participants = <<>> /\ Passed = {}
  BY <1>3 DEF Overrun
<1>4. CASE \E max \in Capacities : Len(participants) + Cardinality(Passed) < max + Cardinality(Procs)
  <2>1. PICK max \in Capacities : Len(participants) + Cardinality(Passed) < max + Cardinality(Procs)
    BY <1>4
  <2>2. max \in Int
    BY TournamentAssumption
  <2>3. Len(participants') + Cardinality(Passed') < max + Cardinality(Procs)
    BY <1>1, <1>2, <2>1, <2>2, PassedFinite
  <2>4. QED
    BY <2>3 DEF Overrun
<1>5. QED
  BY <1>3, <1>4 DEF Overrun

\* Who counts fewer than there is room for passes, and is one of the slots.
LEMMA OverrunCount ==
  ASSUME TypeOK, TypeOK', Overrun, NEW p \in Procs, CountParticipants(p)
  PROVE  Overrun'
<1>1. CASE Len(participants) >= req[p].max
  <2>1. Passed' \subseteq Passed /\ participants' = participants
    BY <1>1 DEF CountParticipants, Advance, Passed, TypeOK, Idle
  <2>2. QED
    BY <2>1, OverrunShrinks
<1>2. CASE ~(Len(participants) >= req[p].max)
  <2>1. req[p].max \in Capacities /\ req[p].max \in Int
    <3>1. req[p] \in Requests /\ req[p].pc = "count"
      BY DEF CountParticipants, At, TypeOK
    <3>2. req[p] \notin {Idle} \union [pc : {"find"}, user : Users]
      BY <3>1 DEF Idle
    <3>3. req[p] \in [pc : {"count", "existing", "create"}, user : Users, max : Capacities]
      BY <3>1, <3>2 DEF Requests
    <3>4. QED
      BY <3>3, TournamentAssumption
  <2>2. participants' = participants /\ Len(participants) \in Nat
    BY LenProperties DEF CountParticipants, Advance, TypeOK
  <2>3. Passed' \subseteq Procs
    BY DEF Passed
  <2>4. Cardinality(Passed') <= Cardinality(Procs) /\ Cardinality(Passed') \in Nat
    BY <2>3, PassedFinite, FS_Subset, FS_CardinalityType
  <2>5. Len(participants') + Cardinality(Passed') < req[p].max + Cardinality(Procs)
    BY <1>2, <2>1, <2>2, <2>4, PassedFinite
  <2>6. QED
    BY <2>1, <2>5 DEF Overrun
<1>3. QED
  BY <1>1, <1>2

\* Who is entered has passed, and leaves its slot with that.
LEMMA OverrunCreate ==
  ASSUME TypeOK, TypeOK', Overrun, NEW p \in Procs, CreateParticipant(p)
  PROVE  Overrun'
<1>1. Passed' = Passed \ {p} /\ p \in Passed
  BY DEF CreateParticipant, At, Passed, TypeOK, Idle
<1>2. Cardinality(Passed') = Cardinality(Passed) - 1 /\ Cardinality(Passed) > 0
  BY <1>1, PassedFinite, FS_RemoveElement, FS_EmptySet
<1>3. Len(participants) \in Nat /\ Len(participants') \in Nat /\ Len(participants') <= Len(participants) + 1
  <2>1. participants \in Seq([user : Users, registeredAt : 0..MaxTime])
    BY DEF TypeOK
  <2>2. CASE participants' = participants
    BY <2>1, <2>2, LenProperties
  <2>3. CASE participants' = Append(participants, [user |-> req[p].user, registeredAt |-> now])
    BY <2>1, <2>3, LenProperties
  <2>4. QED
    BY <2>2, <2>3 DEF CreateParticipant
<1>4. PICK max \in Capacities : Len(participants) + Cardinality(Passed) < max + Cardinality(Procs)
  BY <1>1 DEF Overrun
<1>5. max \in Int
  BY TournamentAssumption
<1>6. Len(participants') + Cardinality(Passed') < max + Cardinality(Procs)
  BY <1>2, <1>3, <1>4, <1>5, PassedFinite
<1>7. QED
  BY <1>6 DEF Overrun

LEMMA OverrunStep == TypeOK /\ TypeOK' /\ Overrun /\ [Next]_vars => Overrun'
<1> SUFFICES ASSUME TypeOK, TypeOK', Overrun, [Next]_vars PROVE Overrun'
  OBVIOUS
<1>1. ASSUME NEW p \in Procs, NEW u \in Users, register(p, u) PROVE Overrun'
  <2>1. Passed' \subseteq Passed /\ participants' = participants
    BY <1>1 DEF register, Advance, Passed, TypeOK
  <2>2. QED
    BY <2>1, OverrunShrinks
<1>2. ASSUME NEW p \in Procs, FindTournament(p) \/ FindExisting(p) \/ Abort(p) PROVE Overrun'
  <2>1. participants' = participants
    BY <1>2 DEF FindTournament, FindExisting, Abort, Advance
  <2>2. Passed' \subseteq Passed
    <3>1. CASE FindTournament(p) \/ Abort(p)
      <4>1. \E r \in {Idle, [pc |-> "count", user |-> req[p].user, max |-> tournament.maxParticipants]} :
              req' = [req EXCEPT ![p] = r]
        BY <3>1 DEF FindTournament, Abort, Advance
      <4>2. QED
        BY <4>1 DEF Passed, TypeOK, Idle
    <3>2. CASE FindExisting(p)
      BY <3>2 DEF FindExisting, Advance, At, Passed, TypeOK, Idle
    <3>3. QED
      BY <1>2, <3>1, <3>2
  <2>3. QED
    BY <2>1, <2>2, OverrunShrinks
<1>3. CASE update \/ Tick \/ remove \/ UNCHANGED vars
  <2>1. Passed' = Passed /\ (participants' = participants \/ participants' = <<>>)
    BY <1>3 DEF update, Tick, remove, vars, Passed
  <2>2. QED
    BY <2>1, OverrunShrinks
<1>4. QED
  BY <1>1, <1>2, <1>3, OverrunCount, OverrunCreate DEF Next, Step

\* However many registrations race, whatever the admins make of the tournament
\* and its capacity meanwhile: a user is entered once, and the capacity overrun
\* by fewer than the registrations in flight.
THEOREM EntriesAreSound == Spec => []EntriesSound
<1>1. Init => Overrun
  BY DEF Init, Overrun, Passed, Idle
<1>2. IInv => TypeOK /\ OneEntryPerUser
  BY DEF IInv
<1>3. TypeOK /\ Overrun => OverfillBounded
  <2> SUFFICES ASSUME TypeOK, Overrun, participants # <<>> PROVE OverfillBounded
    BY DEF OverfillBounded
  <2>1. PICK max \in Capacities : Len(participants) + Cardinality(Passed) < max + Cardinality(Procs)
    BY DEF Overrun
  <2>2. max \in Int /\ Len(participants) \in Nat
    BY TournamentAssumption, LenProperties DEF TypeOK
  <2>3. Len(participants) < max + Cardinality(Procs)
    BY <2>1, <2>2, PassedFinite
  <2>4. QED
    BY <2>3 DEF OverfillBounded
<1>4. OneEntryPerUser /\ OverfillBounded => EntriesSound
  BY DEF EntriesSound
<1>5. QED
  BY <1>1, <1>2, <1>3, <1>4, Invariance, OverrunStep, PTL DEF Spec

-----------------------------------------------------------------------------
\* What the proofs use of finite sets.
LEMMA Counting ==
  /\ \A A : IsFiniteSet(A) => Cardinality(A) \in Nat
  /\ \A A : IsFiniteSet(A) => \A B \in SUBSET A : IsFiniteSet(B) /\ Cardinality(B) <= Cardinality(A)
  /\ \A A, x : IsFiniteSet(A) /\ x \notin A =>
       IsFiniteSet(A \union {x}) /\ Cardinality(A \union {x}) = Cardinality(A) + 1
  /\ \A A, x : IsFiniteSet(A) /\ x \in A =>
       IsFiniteSet(A \ {x}) /\ Cardinality(A \ {x}) = Cardinality(A) - 1
  /\ IsFiniteSet({}) /\ Cardinality({}) = 0
  /\ \A a, b \in Int : IsFiniteSet(a..b)
BY FS_CardinalityType, FS_Subset, FS_AddElement, FS_RemoveElement, FS_EmptySet, FS_Interval

-----------------------------------------------------------------------------
(* Withdrawal: what is taken of a prize that was withdrawn.                *)

\* The same of what Withdrawal counts with.
LEMMA WithdrawalCounting ==
  /\ \A A : W!IsFiniteSet(A) => W!Cardinality(A) \in Nat
  /\ \A A : W!IsFiniteSet(A) => \A B \in SUBSET A : W!IsFiniteSet(B) /\ W!Cardinality(B) <= W!Cardinality(A)
  /\ \A A, x : W!IsFiniteSet(A) /\ x \notin A =>
       W!IsFiniteSet(A \union {x}) /\ W!Cardinality(A \union {x}) = W!Cardinality(A) + 1
  /\ \A A, x : W!IsFiniteSet(A) /\ x \in A =>
       W!IsFiniteSet(A \ {x}) /\ W!Cardinality(A \ {x}) = W!Cardinality(A) - 1
  /\ W!IsFiniteSet({}) /\ W!Cardinality({}) = 0
  /\ \A a, b \in Int : W!IsFiniteSet(a..b)
<1>1. \A A : W!IsFiniteSet(A) <=> IsFiniteSet(A)
  BY DEF W!IsFiniteSet, IsFiniteSet
<1>2. \A A : W!Cardinality(A) = Cardinality(A)
  BY DEF W!Cardinality, Cardinality
<1>3. QED
  BY <1>1, <1>2, Counting


LEMMA WithdrawalInit == W!Init => W!IInv
<1> SUFFICES ASSUME W!Init PROVE W!IInv
  OBVIOUS
<1>1. W!TypeOK /\ W!Known
  BY DEF W!Init, W!TypeOK, W!Known, W!Idle, W!At
<1>2. \A x \in W!Prizes : history[x] = 0 /\ row[x] = "none" /\ W!Taking(x) = {}
  BY DEF W!Init, W!Idle, W!At, W!Taking
<1>3. QED
  BY <1>1, <1>2 DEF W!IInv, W!NewIsUntaken, W!OnTheWay

LEMMA TakingFinite ==
  ASSUME W!WithdrawalAssumption, NEW x
  PROVE  W!IsFiniteSet(W!Taking(x)) /\ W!Cardinality(W!Taking(x)) \in Nat
<1>1. W!Taking(x) \in SUBSET Three
  BY DEF W!Taking
<1>2. QED
  BY <1>1, WithdrawalCounting DEF W!WithdrawalAssumption

\* A request that takes nothing changes no count, nor does one that will.
LEMMA OtherRequests ==
  ASSUME W!IInv, W!WithdrawalAssumption, NEW p \in Three, NEW r,
         r \in [pc : {"idle", "take", "deactivate", "delete"}, of : W!Prizes \cup {None}],
         r.pc # "idle" => r.of \in W!Prizes,
         admins' = [admins EXCEPT ![p] = r]
  PROVE  /\ admins' \in [Three -> [pc : {"idle", "take", "deactivate", "delete"}, of : W!Prizes \cup {None}]]
         /\ W!Known'
         /\ \A x \in W!Prizes : ~(r.pc = "take" /\ r.of = x) =>
              /\ W!Taking(x)' \subseteq W!Taking(x)
              /\ W!Cardinality(W!Taking(x)') \in Nat /\ W!Cardinality(W!Taking(x)) \in Nat
              /\ W!Cardinality(W!Taking(x)') <= W!Cardinality(W!Taking(x))
<1>1. admins' \in [Three -> [pc : {"idle", "take", "deactivate", "delete"}, of : W!Prizes \cup {None}]]
  BY DEF W!IInv, W!TypeOK
<1>2. W!Known'
  BY DEF W!IInv, W!TypeOK, W!Known, W!At
<1>3. ASSUME NEW x \in W!Prizes, ~(r.pc = "take" /\ r.of = x)
      PROVE  W!Taking(x)' \subseteq W!Taking(x)
  BY <1>3 DEF W!IInv, W!TypeOK, W!Taking, W!At
<1>4. QED
  BY <1>1, <1>2, <1>3, TakingFinite, WithdrawalCounting

\* Withdrawing a prize counts what is on its way.
LEMMA WithdrawKeeps ==
  ASSUME W!IInv, W!WithdrawalAssumption, NEW x \in W!Prizes, W!There(x),
         NEW how \in {"inactive", "deleted"}, how = "deleted" => history[x] = 0,
         W!Withdraw(x, how), UNCHANGED history,
         W!TypeOK' <=> /\ row' \in [W!Prizes -> {"none", "active", "inactive", "deleted"}]
                       /\ sealed' \in [W!Prizes -> Nat],
         W!Known',
         \A y \in W!Prizes : /\ W!Taking(y)' \subseteq W!Taking(y)
                             /\ W!Cardinality(W!Taking(y)') \in Nat
                             /\ W!Cardinality(W!Taking(y)') <= W!Cardinality(W!Taking(y))
  PROVE  W!IInv'
<1>1. \A y \in W!Prizes : W!Cardinality(W!Taking(y)) \in Nat
  BY TakingFinite
<1>2. /\ row' = [row EXCEPT ![x] = how]
      /\ sealed' \in [W!Prizes -> Nat]
      /\ \A y \in W!Prizes \ {x} : sealed'[y] = sealed[y]
      /\ row[x] = "active" => sealed'[x] = history[x] + W!Cardinality(W!Taking(x))
      /\ row[x] # "active" => sealed'[x] = sealed[x]
  BY <1>1 DEF W!Withdraw, W!IInv, W!TypeOK
<1>3. W!TypeOK'
  BY <1>2 DEF W!IInv, W!TypeOK
<1>4. W!NewIsUntaken'
  BY <1>2 DEF W!IInv, W!TypeOK, W!NewIsUntaken
<1>5. W!OnTheWay'
  BY <1>1, <1>2 DEF W!IInv, W!TypeOK, W!OnTheWay, W!There
<1>6. \A y \in W!Prizes : history'[y] > 0 => W!There(y)'
  BY <1>2 DEF W!IInv, W!TypeOK, W!There
<1>7. QED
  BY <1>3, <1>4, <1>5, <1>6 DEF W!IInv

\* What changes neither rows nor history keeps the invariant, unless it takes
\* what is not on offer.
LEMMA RequestKeeps ==
  ASSUME W!IInv, W!WithdrawalAssumption, NEW p \in Three, NEW r,
         r \in [pc : {"idle", "take", "deactivate", "delete"}, of : W!Prizes \cup {None}],
         r.pc # "idle" => r.of \in W!Prizes, r.pc = "take" => row[r.of] = "active",
         admins' = [admins EXCEPT ![p] = r], UNCHANGED <<row, history, sealed>>
  PROVE  W!IInv'
<1>1. W!TypeOK' /\ W!Known'
  BY OtherRequests DEF W!IInv, W!TypeOK
<1>2. \A x \in W!Prizes : row[x] # "active" =>
        /\ W!Taking(x)' \subseteq W!Taking(x)
        /\ W!Cardinality(W!Taking(x)') \in Nat /\ W!Cardinality(W!Taking(x)) \in Nat
        /\ W!Cardinality(W!Taking(x)') <= W!Cardinality(W!Taking(x))
  BY OtherRequests
<1>3. W!NewIsUntaken' /\ W!OnTheWay'
  BY <1>2 DEF W!IInv, W!TypeOK, W!NewIsUntaken, W!OnTheWay
<1>4. QED
  BY <1>1, <1>3 DEF W!IInv, W!There

LEMMA RequestSteps ==
  ASSUME W!IInv, W!WithdrawalAssumption, NEW p \in Three,
         \/ \E x \in W!Prizes :
              W!spin(p, x) \/ W!redeem(p, x) \/ W!deleteSegment(p, x) \/ W!deleteStoreItem(p, x)
         \/ W!Take(p) \/ W!Deactivate(p) \/ W!Delete(p) \/ W!Abort(p)
  PROVE  W!IInv'
<1>1. ASSUME NEW x \in W!Prizes, W!spin(p, x) \/ W!redeem(p, x) PROVE W!IInv'
  <2>1. PICK r : r = [pc |-> "take", of |-> x]
    OBVIOUS
  <2>2. admins' = [admins EXCEPT ![p] = r] /\ UNCHANGED <<row, history, sealed>> /\ row[x] = "active"
    BY <1>1, <2>1 DEF W!spin, W!redeem, W!Become
  <2>3. QED
    BY <2>1, <2>2, RequestKeeps
<1>2. ASSUME NEW x \in W!Prizes, W!deleteSegment(p, x) \/ W!deleteStoreItem(p, x) PROVE W!IInv'
  <2>1. PICK pc \in {"deactivate", "delete"} :
          admins' = [admins EXCEPT ![p] = [pc |-> pc, of |-> x]] /\ UNCHANGED <<row, history, sealed>>
    BY <1>2 DEF W!deleteSegment, W!deleteStoreItem, W!CountHistory, W!Become
  <2>2. PICK r : r = [pc |-> pc, of |-> x]
    OBVIOUS
  <2>3. QED
    BY <2>1, <2>2, RequestKeeps
<1>3. W!Idle \in [pc : {"idle", "take", "deactivate", "delete"}, of : W!Prizes \cup {None}]
  BY DEF W!Idle
<1>4. CASE W!Take(p)
  <2>1. PICK x \in W!Prizes : x = admins[p].of
    BY <1>4 DEF W!Take, W!At, W!IInv, W!Known
  <2>2. /\ admins' = [admins EXCEPT ![p] = W!Idle] /\ UNCHANGED <<row, sealed>>
        /\ history' = IF W!There(x) THEN [history EXCEPT ![x] = @ + 1] ELSE history
        /\ W!At(p, "take")
    BY <1>4, <2>1 DEF W!Take, W!Finish
  <2>3. /\ W!TypeOK' /\ W!Known'
        /\ \A y \in W!Prizes : /\ W!Taking(y)' \subseteq W!Taking(y)
                               /\ W!Cardinality(W!Taking(y)') \in Nat /\ W!Cardinality(W!Taking(y)) \in Nat
                               /\ W!Cardinality(W!Taking(y)') <= W!Cardinality(W!Taking(y))
    <3>1. W!Idle.pc = "idle"
      BY DEF W!Idle
    <3>2. history' \in [W!Prizes -> Nat]
      BY <2>2 DEF W!IInv, W!TypeOK
    <3>3. QED
      BY <1>3, <2>2, <3>1, <3>2, OtherRequests DEF W!IInv, W!TypeOK
  <2>4. W!Cardinality(W!Taking(x)') = W!Cardinality(W!Taking(x)) - 1
    <3>1. p \in W!Taking(x) /\ W!Taking(x)' = W!Taking(x) \ {p}
      BY <2>1, <2>2 DEF W!Taking, W!At, W!IInv, W!TypeOK, W!Idle
    <3>2. QED
      BY <3>1, TakingFinite, WithdrawalCounting
  <2>5. p \in W!Taking(x)
    BY <2>1, <2>2 DEF W!Taking
  <2>6. W!NewIsUntaken'
    BY <2>2, <2>3, <2>5 DEF W!IInv, W!TypeOK, W!NewIsUntaken
  <2>7. W!OnTheWay'
    BY <2>2, <2>3, <2>4 DEF W!IInv, W!TypeOK, W!OnTheWay
  <2>8. \A y \in W!Prizes : history'[y] > 0 => W!There(y)'
    BY <2>2 DEF W!IInv, W!TypeOK, W!There
  <2>9. QED
    BY <2>3, <2>6, <2>7, <2>8 DEF W!IInv
<1>5. CASE W!Deactivate(p) \/ W!Delete(p)
  <2>1. PICK x \in W!Prizes : x = admins[p].of
    BY <1>5 DEF W!Deactivate, W!Delete, W!At, W!IInv, W!Known
  <2>2. admins' = [admins EXCEPT ![p] = W!Idle] /\ UNCHANGED history /\ W!Idle.pc = "idle"
    BY <1>5 DEF W!Deactivate, W!Delete, W!Finish, W!Idle
  <2>3. CASE UNCHANGED <<row, sealed>>
    BY <1>3, <2>2, <2>3, RequestKeeps
  <2>4. CASE ~UNCHANGED <<row, sealed>>
    <3>1. PICK how \in {"inactive", "deleted"} :
            W!There(x) /\ W!Withdraw(x, how) /\ (how = "deleted" => history[x] = 0)
      BY <1>5, <2>1, <2>4 DEF W!Deactivate, W!Delete
    <3>2. /\ admins' \in [Three -> [pc : {"idle", "take", "deactivate", "delete"}, of : W!Prizes \cup {None}]]
          /\ W!Known'
          /\ \A y \in W!Prizes : /\ W!Taking(y)' \subseteq W!Taking(y)
                                 /\ W!Cardinality(W!Taking(y)') \in Nat
                                 /\ W!Cardinality(W!Taking(y)') <= W!Cardinality(W!Taking(y))
      BY <1>3, <2>2, OtherRequests
    <3>3. W!TypeOK' <=> /\ row' \in [W!Prizes -> {"none", "active", "inactive", "deleted"}]
                        /\ sealed' \in [W!Prizes -> Nat]
      BY <2>2, <3>2 DEF W!IInv, W!TypeOK
    <3>4. QED
      BY <2>2, <3>1, <3>2, <3>3, WithdrawKeeps
  <2>5. QED
    BY <2>3, <2>4
<1>6. CASE W!Abort(p)
  BY <1>3, <1>6, RequestKeeps DEF W!Abort, W!Finish, W!Idle
<1>7. QED
  BY <1>1, <1>2, <1>4, <1>5, <1>6

LEMMA PrizeSteps ==
  ASSUME W!IInv, W!WithdrawalAssumption, NEW x \in W!Prizes,
         W!createPrize(x) \/ \E how \in {"active", "inactive"} : W!updatePrize(x, how)
  PROVE  W!IInv'
<1>1. UNCHANGED <<history, admins>>
  BY DEF W!createPrize, W!updatePrize
<1>2. W!Known' /\ \A y \in W!Prizes : W!Taking(y)' = W!Taking(y)
  BY <1>1 DEF W!IInv, W!Known, W!At, W!Taking
<1>3. \A y \in W!Prizes : W!Cardinality(W!Taking(y)) \in Nat
  BY TakingFinite
<1>4. CASE W!createPrize(x)
  <2>1. PICK how \in {"active", "inactive"} :
          row[x] = "none" /\ row' = [row EXCEPT ![x] = how] /\ UNCHANGED sealed
    BY <1>4 DEF W!createPrize
  <2>2. W!TypeOK' /\ W!NewIsUntaken'
    BY <1>1, <1>2, <2>1 DEF W!IInv, W!TypeOK, W!NewIsUntaken
  <2>3. W!OnTheWay'
    <3>1. W!Cardinality(W!Taking(x)) = 0 /\ history[x] = 0
      BY <2>1, WithdrawalCounting DEF W!IInv, W!NewIsUntaken
    <3>2. QED
      BY <1>1, <1>2, <2>1, <3>1 DEF W!IInv, W!TypeOK, W!OnTheWay
  <2>4. \A y \in W!Prizes : history'[y] > 0 => W!There(y)'
    BY <1>1, <2>1 DEF W!IInv, W!TypeOK, W!There
  <2>5. QED
    BY <1>2, <2>2, <2>3, <2>4 DEF W!IInv
<1>5. CASE W!updatePrize(x, "inactive")
  <2>1. W!There(x) /\ W!Withdraw(x, "inactive")
    BY <1>5 DEF W!updatePrize
  <2>2. W!TypeOK' <=> /\ row' \in [W!Prizes -> {"none", "active", "inactive", "deleted"}]
                      /\ sealed' \in [W!Prizes -> Nat]
    BY <1>1 DEF W!IInv, W!TypeOK
  <2>3. QED
    BY <1>1, <1>2, <1>3, <2>1, <2>2, WithdrawKeeps
<1>6. CASE W!updatePrize(x, "active")
  <2>1. W!There(x) /\ row' = [row EXCEPT ![x] = "active"] /\ UNCHANGED sealed
    BY <1>6 DEF W!updatePrize
  <2>2. W!TypeOK' /\ W!NewIsUntaken' /\ W!OnTheWay'
    BY <1>1, <1>2, <2>1 DEF W!IInv, W!TypeOK, W!NewIsUntaken, W!OnTheWay
  <2>3. \A y \in W!Prizes : history'[y] > 0 => W!There(y)'
    BY <1>1, <2>1 DEF W!IInv, W!TypeOK, W!There
  <2>4. QED
    BY <1>2, <2>2, <2>3 DEF W!IInv
<1>7. QED
  BY <1>4, <1>5, <1>6

\* For any prizes and requests: no history is orphaned, and what was withdrawn is
\* won or bought only by requests that had seen it on offer.
LEMMA WithdrawalSound ==
  ASSUME W!WithdrawalAssumption PROVE W!Spec => []W!WithdrawnForGood
<1>1. W!IInv /\ [W!Next]_W!vars => W!IInv'
  <2> SUFFICES ASSUME W!IInv, [W!Next]_W!vars PROVE W!IInv'
    OBVIOUS
  <2>1. CASE UNCHANGED W!vars
    BY <2>1 DEF W!vars, W!IInv, W!TypeOK, W!Known, W!NewIsUntaken, W!OnTheWay, W!Taking, W!At, W!There
  <2>2. QED
    BY <2>1, RequestSteps, PrizeSteps DEF W!Next
<1>2. W!IInv => W!WithdrawnForGood
  <2> SUFFICES ASSUME W!IInv, NEW x \in W!Prizes, row[x] = "inactive" PROVE history[x] <= sealed[x]
    BY DEF W!IInv, W!WithdrawnForGood
  <2>1. history[x] \in Nat /\ sealed[x] \in Nat /\ history[x] + W!Cardinality(W!Taking(x)) <= sealed[x]
    BY DEF W!IInv, W!TypeOK, W!OnTheWay
  <2>2. QED
    BY <2>1, TakingFinite
<1>3. QED
  BY <1>1, <1>2, WithdrawalInit, PTL DEF W!Spec

-----------------------------------------------------------------------------
(* Community: the edits and comments that closed posts still get.          *)

\* The same of what Community counts with.
LEMMA CommunityCounting ==
  /\ \A A : C!IsFiniteSet(A) => C!Cardinality(A) \in Nat
  /\ \A A : C!IsFiniteSet(A) => \A B \in SUBSET A : C!IsFiniteSet(B) /\ C!Cardinality(B) <= C!Cardinality(A)
  /\ \A A, x : C!IsFiniteSet(A) /\ x \notin A =>
       C!IsFiniteSet(A \union {x}) /\ C!Cardinality(A \union {x}) = C!Cardinality(A) + 1
  /\ \A A, x : C!IsFiniteSet(A) /\ x \in A =>
       C!IsFiniteSet(A \ {x}) /\ C!Cardinality(A \ {x}) = C!Cardinality(A) - 1
  /\ C!IsFiniteSet({}) /\ C!Cardinality({}) = 0
  /\ \A a, b \in Int : C!IsFiniteSet(a..b)
<1>1. \A A : C!IsFiniteSet(A) <=> IsFiniteSet(A)
  BY DEF C!IsFiniteSet, IsFiniteSet
<1>2. \A A : C!Cardinality(A) = Cardinality(A)
  BY DEF C!Cardinality, Cardinality
<1>3. QED
  BY <1>1, <1>2, Counting

PostRow == [state : {"none", "live", "deleted"}, author : Members \cup Authors \cup {None},
        post : Posts \cup {None}, parent : Comments \cup {None},
        old : BOOLEAN, due : Int, sealed : Nat]

PostRequest == [pc : {"idle", "save", "delete", "parent", "comment"},
            user : Members \cup Authors \cup {None}, item : C!Content \cup {None},
            parent : Comments \cup {None}]

LEMMA PostsFinite ==
  ASSUME C!CommunityAssumption, NEW x
  PROVE  /\ C!IsFiniteSet(C!Saving(x)) /\ C!Cardinality(C!Saving(x)) \in Nat
         /\ C!IsFiniteSet(C!Thread(x)) /\ C!Cardinality(C!Thread(x)) \in Nat
         /\ C!IsFiniteSet(C!Commenting(x)) /\ C!Cardinality(C!Commenting(x)) \in Nat
<1>1. C!Saving(x) \in SUBSET Pair /\ C!Commenting(x) \in SUBSET Pair /\ C!Thread(x) \in SUBSET Comments
  BY DEF C!Saving, C!Commenting, C!Thread
<1>2. QED
  BY <1>1, CommunityCounting DEF C!CommunityAssumption

LEMMA PostTypes == C!NoRow \in PostRow /\ C!Idle \in PostRequest
BY DEF C!NoRow, C!Idle, PostRow, PostRequest

LEMMA RowChanges ==
  ASSUME NEW r \in PostRow
  PROVE  /\ \A d \in Int : [r EXCEPT !.due = d] \in PostRow /\ [r EXCEPT !.old = TRUE, !.due = d] \in PostRow
         /\ \A n \in Nat : [r EXCEPT !.state = "deleted", !.sealed = n] \in PostRow
         /\ [r EXCEPT !.state = "live"] \in PostRow
         /\ \A u \in Members \cup Authors \cup {None}, x \in Posts, y \in Comments \cup {None} :
              [r EXCEPT !.state = "live", !.author = u, !.post = x, !.parent = y] \in PostRow
BY DEF PostRow

LEMMA PostRows ==
  ASSUME C!IInv
  PROVE  /\ things \in [C!Content -> PostRow] /\ requests \in [Pair -> PostRequest]
         /\ \A p \in Pair : [requests EXCEPT ![p] = C!Idle] \in [Pair -> PostRequest]
         /\ \A x \in C!Content, r \in PostRow : [things EXCEPT ![x] = r] \in [C!Content -> PostRow]
         /\ things' \in [C!Content -> PostRow] /\ requests' \in [Pair -> PostRequest] => C!TypeOK'
<1>1. things \in [C!Content -> PostRow] /\ requests \in [Pair -> PostRequest]
  BY DEF C!IInv, C!TypeOK, PostRow, PostRequest
<1>2. things' \in [C!Content -> PostRow] /\ requests' \in [Pair -> PostRequest] => C!TypeOK'
  BY DEF C!TypeOK, PostRow, PostRequest
<1>3. QED
  BY <1>1, <1>2, PostTypes

LEMMA CommunityInit ==
  ASSUME C!CommunityAssumption, C!Init PROVE C!IInv
<1>1. /\ \A x \in C!Content : things[x] = C!NoRow
      /\ \A p \in Pair : requests[p] = C!Idle /\ requests[p].pc = "idle"
  BY DEF C!Init, C!Idle
<1>2. C!TypeOK
  BY PostTypes DEF C!Init, C!TypeOK, PostRow, PostRequest
<1>3. C!Known
  BY <1>1 DEF C!Known, C!At
<1>4. ASSUME NEW x \in C!Content PROVE things[x].due >= IF things[x].old THEN C!Cardinality(C!Saving(x)) ELSE 0
  BY <1>1 DEF C!NoRow
<1>5. C!Sealing
  BY <1>1 DEF C!Sealing, C!Content, C!NoRow
<1>6. QED
  BY <1>2, <1>3, <1>4, <1>5 DEF C!IInv, C!DueIsSaved

\* Rows that keep their authors and posts leave everything that is counted.
LEMMA RowsKeep ==
  ASSUME C!IInv,
         \A q \in Pair : requests'[q] = requests[q] \/ (requests'[q].pc = "idle" /\ requests[q].pc = "delete"),
         \A y \in C!Content :
           /\ things'[y].post = things[y].post
           /\ things'[y].state = "none" => things'[y] = things[y]
           /\ things[y].state # "none" => things'[y].state # "none" /\ things'[y].author = things[y].author
  PROVE  /\ C!Known'
         /\ \A y \in C!Content : C!Saving(y)' = C!Saving(y)
         /\ \A y \in Posts : C!Thread(y)' = C!Thread(y) /\ C!Commenting(y)' = C!Commenting(y)
<1>1. ASSUME NEW q \in Pair, requests'[q].pc # "idle"
      PROVE  /\ requests'[q] = requests[q] /\ requests[q].item \in C!Content
             /\ things[requests[q].item].state # "none" /\ things'[requests[q].item].state # "none"
             /\ things'[requests[q].item].author = things[requests[q].item].author
  <2>1. requests'[q] = requests[q]
    BY <1>1
  <2>2. requests[q].item \in C!Content /\ things[requests[q].item].state # "none"
    BY <1>1, <2>1 DEF C!IInv, C!Known, C!At
  <2>3. QED
    BY <2>1, <2>2
<1>2. \A y \in C!Content : things'[y].state = "none" => things'[y] = C!NoRow
  BY DEF C!IInv, C!Known
<1>3. \A q \in Pair : requests'[q].pc \in {"parent", "comment"} => requests'[q].item \in Posts
  BY <1>1 DEF C!IInv, C!Known, C!At
<1>4. C!Known'
  BY <1>1, <1>2, <1>3 DEF C!Known, C!At
<1>5. ASSUME NEW y \in C!Content PROVE C!Saving(y)' = C!Saving(y)
  <2>1. ASSUME NEW q \in Pair
        PROVE  /\ requests'[q].pc = "save" <=> requests[q].pc = "save"
               /\ requests[q].pc = "save" => /\ requests'[q] = requests[q]
                                       /\ things'[requests[q].item].author = things[requests[q].item].author
    BY <1>1
  <2>2. QED
    BY <2>1 DEF C!Saving, C!ByAuthor, C!At
<1>6. ASSUME NEW y \in Posts PROVE C!Thread(y)' = C!Thread(y) /\ C!Commenting(y)' = C!Commenting(y)
  BY DEF C!Thread, C!Commenting, C!Content
<1>7. QED
  BY <1>4, <1>5, <1>6

\* A request that comes to nothing, or stops where no edit and no comment is on
\* its way, disturbs nothing.
LEMMA PostRequestKeeps ==
  ASSUME C!CommunityAssumption, C!IInv, NEW p \in Pair, NEW r \in PostRequest,
         requests' = [requests EXCEPT ![p] = r], UNCHANGED things,
         r.pc # "idle" => r.item \in C!Content /\ things[r.item].state # "none",
         r.pc \in {"parent", "comment"} =>
           r.item \in Posts /\ (C!Live(r.item) \/ p \in C!Commenting(r.item)),
         r.pc = "save" => C!InWindow(r.item, r.user)
  PROVE  C!IInv'
<1>1. C!TypeOK' /\ requests'[p] = r /\ \A q \in Pair \ {p} : requests'[q] = requests[q]
  BY DEF C!IInv, C!TypeOK, PostRequest
<1>2. C!Known'
  BY <1>1 DEF C!IInv, C!Known, C!At
<1>3. C!DueIsSaved'
  <2> SUFFICES ASSUME NEW x \in C!Content
               PROVE  things[x].due >= IF things[x].old THEN C!Cardinality(C!Saving(x)') ELSE 0
    BY DEF C!DueIsSaved
  <2>1. CASE things[x].old
    <3>1. C!Saving(x)' \subseteq C!Saving(x)
      BY <1>1, <2>1 DEF C!Saving, C!ByAuthor, C!InWindow, C!At
    <3>2. /\ C!Cardinality(C!Saving(x)') \in Nat
          /\ C!Cardinality(C!Saving(x)') <= C!Cardinality(C!Saving(x))
      BY <3>1, PostsFinite, CommunityCounting
    <3>3. things[x].due >= C!Cardinality(C!Saving(x)) /\ things[x].due \in Int
      BY <2>1 DEF C!IInv, C!DueIsSaved, C!TypeOK
    <3>4. QED
      BY <2>1, <3>2, <3>3, PostsFinite
  <2>2. CASE ~things[x].old
    BY <2>2 DEF C!IInv, C!DueIsSaved
  <2>3. QED
    BY <2>1, <2>2
<1>4. C!Sealing'
  <2> SUFFICES ASSUME NEW x \in Posts, things[x].state = "deleted"
               PROVE  C!Cardinality(C!Thread(x)') + C!Cardinality(C!Commenting(x)') <= things[x].sealed
    BY DEF C!Sealing
  <2>1. C!Thread(x)' = C!Thread(x)
    BY DEF C!Thread
  <2>2. C!Commenting(x)' \subseteq C!Commenting(x)
    BY <1>1 DEF C!Commenting, C!Live
  <2>3. /\ C!Cardinality(C!Commenting(x)') \in Nat
        /\ C!Cardinality(C!Commenting(x)') <= C!Cardinality(C!Commenting(x))
    BY <2>2, PostsFinite, CommunityCounting
  <2>4. C!Cardinality(C!Thread(x)) + C!Cardinality(C!Commenting(x)) <= things[x].sealed /\ things[x].sealed \in Nat
    BY DEF C!IInv, C!Sealing, C!TypeOK, C!Content
  <2>5. QED
    BY <2>1, <2>3, <2>4, PostsFinite
<1>5. QED
  BY <1>1, <1>2, <1>3, <1>4 DEF C!IInv

LEMMA PostFinds ==
  ASSUME C!CommunityAssumption, C!IInv, NEW p \in Pair, NEW u \in Members, NEW x \in C!Content,
         \/ C!updatePost(p, u, x) \/ C!updateComment(p, u, x)
         \/ C!deletePost(p, u, x) \/ C!deleteComment(p, u, x)
  PROVE  C!IInv'
<1>1. PICK pc \in {"save", "delete"} :
        C!Live(x) /\ C!Pass(p, pc, u, x, None) /\ (pc = "save" => C!InWindow(x, u))
  BY DEF C!updatePost, C!updateComment, C!deletePost, C!deleteComment, C!FindToEdit, C!FindToDelete
<1>2. PICK r \in PostRequest : r = [pc |-> pc, user |-> u, item |-> x, parent |-> None]
  BY DEF PostRequest
<1>3. requests' = [requests EXCEPT ![p] = r] /\ UNCHANGED things
  BY <1>1, <1>2 DEF C!Pass, C!Become
<1>4. QED
  BY <1>1, <1>2, <1>3, PostRequestKeeps DEF C!Live

LEMMA CommentSteps ==
  ASSUME C!CommunityAssumption, C!IInv, NEW p \in Pair,
         \/ \E u \in Authors, x \in Posts, y \in Comments \cup {None} : C!addComment(p, u, x, y)
         \/ C!FindParent(p) \/ C!Abort(p)
  PROVE  C!IInv'
<1>1. ASSUME NEW u \in Authors, NEW x \in Posts, NEW y \in Comments \cup {None},
             C!addComment(p, u, x, y)
      PROVE  C!IInv'
  <2>1. PICK pc \in {"parent", "comment"} : C!Live(x) /\ C!Pass(p, pc, u, x, y)
    BY <1>1 DEF C!addComment
  <2>2. PICK r \in PostRequest : r = [pc |-> pc, user |-> u, item |-> x, parent |-> y]
    BY DEF PostRequest, C!Content
  <2>3. requests' = [requests EXCEPT ![p] = r] /\ UNCHANGED things
    BY <2>1, <2>2 DEF C!Pass, C!Become
  <2>4. QED
    BY <2>1, <2>2, <2>3, PostRequestKeeps DEF C!Live, C!Content
<1>2. C!Idle.pc = "idle"
  BY DEF C!Idle
<1>3. CASE C!Become(p, C!Idle) /\ UNCHANGED things
  BY <1>2, <1>3, PostTypes, PostRequestKeeps DEF C!Become
<1>4. CASE C!FindParent(p) /\ C!Become(p, [requests[p] EXCEPT !.pc = "comment"])
  <2>1. PICK r \in PostRequest : r = [requests[p] EXCEPT !.pc = "comment"]
    BY DEF C!IInv, C!TypeOK, PostRequest
  <2>2. requests' = [requests EXCEPT ![p] = r] /\ UNCHANGED things /\ C!At(p, "parent")
    BY <1>4, <2>1 DEF C!FindParent, C!Become
  <2>3. r.pc = "comment" /\ r.item = requests[p].item
    BY <2>1 DEF C!IInv, C!TypeOK
  <2>4. r.item \in Posts /\ things[r.item].state # "none" /\ p \in C!Commenting(r.item)
    BY <2>2, <2>3 DEF C!IInv, C!Known, C!At, C!Commenting
  <2>5. QED
    BY <2>2, <2>3, <2>4, PostRequestKeeps DEF C!Content
<1>5. QED
  BY <1>1, <1>3, <1>4 DEF C!FindParent, C!Abort

LEMMA SaveStep ==
  ASSUME C!CommunityAssumption, C!IInv, NEW p \in Pair, C!SaveContent(p)
  PROVE  C!IInv'
<1>1. PICK x \in C!Content : x = requests[p].item
  BY DEF C!SaveContent, C!At, C!IInv, C!Known
<1>2. PICK d \in Int : d = IF C!ByAuthor(requests[p]) /\ things[x].old THEN things[x].due - 1 ELSE things[x].due
  BY DEF C!IInv, C!TypeOK
<1>3. /\ things' = [things EXCEPT ![x].due = d]
      /\ requests' = [requests EXCEPT ![p] = C!Idle]
      /\ C!At(p, "save") /\ C!Idle.pc = "idle"
  BY <1>1, <1>2 DEF C!SaveContent, C!Become, C!Idle
<1>4. C!TypeOK'
  <2>1. things' = [things EXCEPT ![x] = [things[x] EXCEPT !.due = d]]
    BY <1>3, PostRows
  <2>2. [things[x] EXCEPT !.due = d] \in PostRow
    BY PostRows, RowChanges
  <2>3. QED
    BY <1>3, <2>1, <2>2, PostRows
<1>5. /\ \A y \in C!Content : /\ things'[y].state = things[y].state /\ things'[y].old = things[y].old
                              /\ things'[y].author = things[y].author /\ things'[y].post = things[y].post
                              /\ things'[y].sealed = things[y].sealed
      /\ \A y \in C!Content \ {x} : things'[y] = things[y]
      /\ things'[x].due = d
      /\ things[x].state # "none"
  BY <1>1, <1>3 DEF C!IInv, C!TypeOK, C!Known, C!At
<1>6. requests'[p] = C!Idle /\ \A q \in Pair \ {p} : requests'[q] = requests[q]
  BY <1>3 DEF C!IInv, C!TypeOK
<1>7. C!Known'
  BY <1>3, <1>5, <1>6 DEF C!IInv, C!Known, C!At
<1>8. \A y \in C!Content : C!Saving(y)' = C!Saving(y) \ {p}
  <2>1. \A q \in Pair : C!At(q, "save") => requests[q].item \in C!Content
    BY DEF C!IInv, C!Known, C!At
  <2>2. QED
    BY <1>3, <1>5, <1>6, <2>1 DEF C!Saving, C!ByAuthor, C!At
<1>9. ASSUME NEW y \in C!Content
      PROVE  things'[y].due >= IF things'[y].old THEN C!Cardinality(C!Saving(y)') ELSE 0
  <2>1. things[y].due >= (IF things[y].old THEN C!Cardinality(C!Saving(y)) ELSE 0) /\ things[y].due \in Int
    BY DEF C!IInv, C!DueIsSaved, C!TypeOK
  <2>2. /\ C!Cardinality(C!Saving(y)') \in Nat
        /\ C!Cardinality(C!Saving(y)') <= C!Cardinality(C!Saving(y))
    <3>1. C!Saving(y) \ {p} \in SUBSET C!Saving(y)
      OBVIOUS
    <3>2. QED
      BY <1>8, <3>1, PostsFinite, CommunityCounting
  <2>3. CASE y = x /\ C!ByAuthor(requests[p]) /\ things[x].old
    <3>1. p \in C!Saving(x)
      BY <1>1, <1>3, <2>3 DEF C!Saving
    <3>2. C!Cardinality(C!Saving(x)') = C!Cardinality(C!Saving(x)) - 1
      BY <1>8, <3>1, PostsFinite, CommunityCounting
    <3>3. QED
      BY <1>2, <1>5, <2>1, <2>3, <3>2, PostsFinite
  <2>4. CASE ~(y = x /\ C!ByAuthor(requests[p]) /\ things[x].old)
    BY <1>2, <1>5, <2>1, <2>2, <2>4, PostsFinite
  <2>5. QED
    BY <2>3, <2>4
<1>10. C!Sealing'
  <2>1. \A y \in Posts : C!Thread(y)' = C!Thread(y) /\ C!Commenting(y)' = C!Commenting(y)
    BY <1>3, <1>5, <1>6 DEF C!Thread, C!Commenting, C!At, C!Content
  <2>2. QED
    BY <1>5, <2>1 DEF C!IInv, C!Sealing, C!Content
<1>11. QED
  BY <1>4, <1>7, <1>9, <1>10 DEF C!IInv, C!DueIsSaved

LEMMA WindowStep ==
  ASSUME C!CommunityAssumption, C!IInv, NEW x \in C!Content, C!EditWindowEnds(x)
  PROVE  C!IInv'
<1>1. PICK d \in Int : d = C!Cardinality(C!Saving(x))
  BY PostsFinite
<1>2. things' = [things EXCEPT ![x].old = TRUE, ![x].due = d] /\ UNCHANGED requests /\ things[x].state # "none"
  BY <1>1 DEF C!EditWindowEnds
<1>3. C!TypeOK'
  <2>1. things' = [things EXCEPT ![x] = [things[x] EXCEPT !.old = TRUE, !.due = d]]
    BY <1>2, PostRows
  <2>2. [things[x] EXCEPT !.old = TRUE, !.due = d] \in PostRow
    BY PostRows, RowChanges
  <2>3. QED
    BY <1>2, <2>1, <2>2, PostRows
<1>4. /\ \A y \in C!Content : /\ things'[y].state = things[y].state /\ things'[y].author = things[y].author
                              /\ things'[y].post = things[y].post /\ things'[y].sealed = things[y].sealed
      /\ \A y \in C!Content \ {x} : things'[y] = things[y]
      /\ things'[x].due = d /\ things'[x].old
  BY <1>2 DEF C!IInv, C!TypeOK
<1>5. C!Known'
  BY <1>2, <1>4, RowsKeep
<1>6. /\ \A y \in C!Content : C!Saving(y)' = C!Saving(y)
      /\ \A y \in Posts : C!Thread(y)' = C!Thread(y) /\ C!Commenting(y)' = C!Commenting(y)
  BY <1>2, <1>4, RowsKeep
<1>7. C!DueIsSaved'
  BY <1>1, <1>4, <1>6 DEF C!IInv, C!DueIsSaved
<1>8. C!Sealing'
  BY <1>4, <1>6 DEF C!IInv, C!Sealing, C!Content
<1>9. QED
  BY <1>3, <1>5, <1>7, <1>8 DEF C!IInv

LEMMA DeleteStep ==
  ASSUME C!CommunityAssumption, C!IInv, NEW p \in Pair, C!MarkDeleted(p)
  PROVE  C!IInv'
<1>1. PICK x \in C!Content : x = requests[p].item /\ things[x].state # "none"
  BY DEF C!MarkDeleted, C!At, C!IInv, C!Known
<1>2. PICK s \in Nat : s = IF C!Live(x) THEN C!Cardinality(C!Thread(x)) + C!Cardinality(C!Commenting(x))
                           ELSE things[x].sealed
  BY PostsFinite DEF C!IInv, C!TypeOK
<1>3. /\ things' = [things EXCEPT ![x].state = "deleted", ![x].sealed = s]
      /\ requests' = [requests EXCEPT ![p] = C!Idle]
      /\ C!At(p, "delete") /\ C!Idle.pc = "idle"
  BY <1>1, <1>2 DEF C!MarkDeleted, C!Become, C!Idle
<1>4. C!TypeOK'
  <2>1. things' = [things EXCEPT ![x] = [things[x] EXCEPT !.state = "deleted", !.sealed = s]]
    BY <1>3, PostRows
  <2>2. [things[x] EXCEPT !.state = "deleted", !.sealed = s] \in PostRow
    BY PostRows, RowChanges
  <2>3. QED
    BY <1>3, <2>1, <2>2, PostRows
<1>5. /\ \A y \in C!Content : /\ things'[y].old = things[y].old /\ things'[y].author = things[y].author
                              /\ things'[y].post = things[y].post /\ things'[y].due = things[y].due
      /\ \A y \in C!Content \ {x} : things'[y] = things[y]
      /\ things'[x].state = "deleted" /\ things'[x].sealed = s
  BY <1>3 DEF C!IInv, C!TypeOK
<1>6. requests'[p] = C!Idle /\ \A q \in Pair \ {p} : requests'[q] = requests[q]
  BY <1>3 DEF C!IInv, C!TypeOK
<1>7. \A q \in Pair : requests'[q] = requests[q] \/ (requests'[q].pc = "idle" /\ requests[q].pc = "delete")
  BY <1>3, <1>6 DEF C!At
<1>8. /\ C!Known'
      /\ \A y \in C!Content : C!Saving(y)' = C!Saving(y)
      /\ \A y \in Posts : C!Thread(y)' = C!Thread(y) /\ C!Commenting(y)' = C!Commenting(y)
  <2>1. \A y \in C!Content :
          /\ things'[y].post = things[y].post
          /\ things'[y].state = "none" => things'[y] = things[y]
          /\ things[y].state # "none" => things'[y].state # "none" /\ things'[y].author = things[y].author
    BY <1>5
  <2>2. QED
    BY <1>7, <2>1, RowsKeep
<1>9. C!DueIsSaved'
  BY <1>5, <1>8 DEF C!IInv, C!DueIsSaved
<1>10. C!Sealing'
  <2> SUFFICES ASSUME NEW y \in Posts, things'[y].state = "deleted"
               PROVE  C!Cardinality(C!Thread(y)) + C!Cardinality(C!Commenting(y)) <= things'[y].sealed
    BY <1>8 DEF C!Sealing
  <2>1. CASE y = x /\ C!Live(x)
    BY <1>2, <1>5, <2>1, PostsFinite
  <2>2. CASE ~(y = x /\ C!Live(x))
    <3>1. things[y].state = "deleted" /\ things'[y].sealed = things[y].sealed
      <4>1. CASE y = x
        BY <1>1, <1>2, <1>5, <2>2, <4>1 DEF C!Live, C!IInv, C!TypeOK
      <4>2. CASE y # x
        BY <1>5, <4>2 DEF C!Content
      <4>3. QED
        BY <4>1, <4>2
    <3>2. QED
      BY <3>1 DEF C!IInv, C!Sealing
  <2>3. QED
    BY <2>1, <2>2
<1>11. QED
  BY <1>4, <1>8, <1>9, <1>10 DEF C!IInv

\* A new post, or an old one that comes back.
LEMMA PostSteps ==
  ASSUME C!CommunityAssumption, C!IInv, NEW x \in Posts,
         (\E u \in Authors : C!createPost(u, x)) \/ C!restorePost(x)
  PROVE  C!IInv'
<1>1. x \in C!Content /\ UNCHANGED requests
  BY DEF C!Content, C!createPost, C!restorePost
<1>2. things[x] \in PostRow /\ (things[x].state = "none" => things[x] = C!NoRow)
  BY <1>1, PostRows DEF C!IInv, C!Known
<1>3. PICK r \in PostRow : /\ things' = [things EXCEPT ![x] = r]
                      /\ r.post = things[x].post /\ r.old = things[x].old /\ r.due = things[x].due
                      /\ r.state = "live" /\ (things[x].state # "none" => r.author = things[x].author)
  <2>1. CASE C!restorePost(x)
    <3>1. PICK r : r = [things[x] EXCEPT !.state = "live"]
      OBVIOUS
    <3>2. r \in PostRow
      BY <1>2, <3>1, RowChanges
    <3>3. things' = [things EXCEPT ![x] = r]
      BY <1>1, <2>1, <3>1, PostRows DEF C!restorePost
    <3>4. QED
      BY <1>2, <3>1, <3>2, <3>3 DEF PostRow
  <2>2. ASSUME NEW u \in Authors, C!createPost(u, x)
        PROVE  \E r \in PostRow : /\ things' = [things EXCEPT ![x] = r]
                                  /\ r.post = things[x].post /\ r.old = things[x].old /\ r.due = things[x].due
                                  /\ r.state = "live"
                                  /\ (things[x].state # "none" => r.author = things[x].author)
    <3>1. PICK r : r = [things[x] EXCEPT !.state = "live", !.author = u]
      OBVIOUS
    <3>2. things' = [things EXCEPT ![x] = r] /\ things[x].state = "none"
      BY <1>2, <2>2, <3>1 DEF C!createPost
    <3>3. r \in PostRow /\ r.post = things[x].post /\ r.old = things[x].old /\ r.due = things[x].due /\ r.state = "live"
      BY <1>2, <3>1 DEF PostRow
    <3>4. QED
      BY <3>2, <3>3
  <2>3. QED
    BY <2>1, <2>2
<1>4. C!TypeOK'
  BY <1>1, <1>3, PostRows
<1>5. /\ \A y \in C!Content \ {x} : things'[y] = things[y]
      /\ \A y \in C!Content : things'[y].post = things[y].post
      /\ things'[x].state = "live" /\ things'[x].old = things[x].old /\ things'[x].due = things[x].due
      /\ things[x].state # "none" => things'[x].author = things[x].author
  BY <1>1, <1>3, PostRows
<1>6. /\ C!Known'
      /\ \A y \in C!Content : C!Saving(y)' = C!Saving(y)
      /\ \A y \in Posts : C!Thread(y)' = C!Thread(y) /\ C!Commenting(y)' = C!Commenting(y)
  <2>1. \A y \in C!Content :
          /\ things'[y].post = things[y].post
          /\ things'[y].state = "none" => things'[y] = things[y]
          /\ things[y].state # "none" => things'[y].state # "none" /\ things'[y].author = things[y].author
    BY <1>5
  <2>2. QED
    BY <1>1, <2>1, RowsKeep
<1>7. C!DueIsSaved'
  <2>1. \A y \in C!Content : things'[y].due = things[y].due /\ things'[y].old = things[y].old
    BY <1>5
  <2>2. QED
    BY <1>6, <2>1 DEF C!IInv, C!DueIsSaved
<1>8. C!Sealing'
  <2>1. \A y \in Posts : things'[y].state = "deleted" => things'[y] = things[y]
    BY <1>5 DEF C!Content
  <2>2. QED
    BY <1>6, <2>1 DEF C!IInv, C!Sealing
<1>9. QED
  BY <1>4, <1>6, <1>7, <1>8 DEF C!IInv

LEMMA CommentCreated ==
  ASSUME C!CommunityAssumption, C!IInv, NEW p \in Pair, C!CreateComment(p)
  PROVE  C!IInv'
<1>1. PICK x \in Posts : x = requests[p].item
  BY DEF C!CreateComment, C!At, C!IInv, C!Known
<1>2. PICK c \in Comments :
        /\ things[c].state = "none"
        /\ things' = [things EXCEPT ![c] =
             [C!NoRow EXCEPT !.state = "live", !.author = requests[p].user, !.post = x,
                           !.parent = requests[p].parent]]
  BY <1>1 DEF C!CreateComment
<1>3. /\ requests' = [requests EXCEPT ![p] = C!Idle]
      /\ C!At(p, "comment") /\ C!Idle.pc = "idle"
  BY DEF C!CreateComment, C!Become, C!Idle
<1>4. PICK r \in PostRow : r = [C!NoRow EXCEPT !.state = "live", !.author = requests[p].user, !.post = x,
                           !.parent = requests[p].parent]
  <2>1. requests[p].user \in Members \cup Authors \cup {None} /\ requests[p].parent \in Comments \cup {None}
    BY DEF C!IInv, C!TypeOK
  <2>2. QED
    BY <2>1, PostTypes, RowChanges
<1>5. c \in C!Content /\ things' = [things EXCEPT ![c] = r]
  BY <1>2, <1>4 DEF C!Content
<1>6. C!TypeOK'
  BY <1>3, <1>5, PostRows
<1>7. /\ \A y \in C!Content \ {c} : things'[y] = things[y]
      /\ things'[c].post = x /\ things'[c].state = "live" /\ things'[c].due = 0 /\ things'[c].old = FALSE
      /\ things[c].post = None
  BY <1>2, <1>4, <1>5 DEF C!IInv, C!TypeOK, C!Known, C!NoRow
<1>8. requests'[p] = C!Idle /\ \A q \in Pair \ {p} : requests'[q] = requests[q]
  BY <1>3 DEF C!IInv, C!TypeOK
<1>9. C!Known'
  BY <1>3, <1>7, <1>8 DEF C!IInv, C!Known, C!At
<1>10. \A y \in C!Content \ {c} : C!Saving(y)' = C!Saving(y)
  BY <1>3, <1>7, <1>8 DEF C!Saving, C!ByAuthor, C!At
<1>11. C!DueIsSaved'
  BY <1>7, <1>10 DEF C!IInv, C!DueIsSaved
<1>12. /\ \A y \in Posts \ {x} : C!Thread(y)' = C!Thread(y) /\ C!Commenting(y)' = C!Commenting(y)
       /\ C!Thread(x)' = C!Thread(x) \cup {c} /\ c \notin C!Thread(x)
       /\ C!Commenting(x)' = C!Commenting(x) \ {p} /\ p \in C!Commenting(x)
  BY <1>1, <1>3, <1>7, <1>8 DEF C!Thread, C!Commenting, C!At, C!Content, C!CommunityAssumption
<1>13. C!Sealing'
  <2> SUFFICES ASSUME NEW y \in Posts, things'[y].state = "deleted"
               PROVE  C!Cardinality(C!Thread(y)') + C!Cardinality(C!Commenting(y)') <= things'[y].sealed
    BY DEF C!Sealing
  <2>1. y # c /\ things'[y] = things[y]
    BY <1>7 DEF C!Content
  <2>2. /\ C!Cardinality(C!Thread(y)) + C!Cardinality(C!Commenting(y)) <= things[y].sealed
        /\ things[y].sealed \in Nat
    BY <2>1 DEF C!IInv, C!Sealing, C!TypeOK, C!Content
  <2>3. CASE y = x
    <3>1. /\ C!Cardinality(C!Thread(x)') = C!Cardinality(C!Thread(x)) + 1
          /\ C!Cardinality(C!Commenting(x)') = C!Cardinality(C!Commenting(x)) - 1
      BY <1>12, PostsFinite, CommunityCounting
    <3>2. QED
      BY <2>1, <2>2, <2>3, <3>1, PostsFinite
  <2>4. CASE y # x
    BY <1>12, <2>1, <2>2, <2>4
  <2>5. QED
    BY <2>3, <2>4
<1>14. QED
  BY <1>6, <1>9, <1>11, <1>13 DEF C!IInv

\* For any users, posts, comments and requests in flight: what the window or a
\* removal has closed is reopened only by requests that had passed the check.
LEMMA CommunityStaysClosed ==
  ASSUME C!CommunityAssumption PROVE C!Spec => []C!ClosedStaysClosed
<1>1. C!IInv /\ [C!Next]_C!vars => C!IInv'
  <2> SUFFICES ASSUME C!IInv, [C!Next]_C!vars PROVE C!IInv'
    OBVIOUS
  <2>1. CASE UNCHANGED C!vars
    BY <2>1 DEF C!vars, C!IInv, C!TypeOK, C!Known, C!DueIsSaved, C!Sealing, C!Saving, C!ByAuthor, C!Thread,
                C!Commenting, C!At
  <2>2. QED
    BY <2>1, PostFinds, CommentSteps, SaveStep, WindowStep, DeleteStep, PostSteps, CommentCreated
    DEF C!Next
<1>2. C!IInv => C!ClosedStaysClosed
  <2> SUFFICES ASSUME C!IInv PROVE C!ClosedStaysClosed
    OBVIOUS
  <2>1. ASSUME NEW x \in C!Content PROVE things[x].due >= 0
    BY PostsFinite DEF C!IInv, C!TypeOK, C!DueIsSaved
  <2>2. ASSUME NEW x \in Posts, things[x].state = "deleted"
        PROVE  C!Cardinality(C!Thread(x)) <= things[x].sealed
    <3>1. /\ C!Cardinality(C!Thread(x)) + C!Cardinality(C!Commenting(x)) <= things[x].sealed
          /\ things[x].sealed \in Nat
      BY <2>2 DEF C!IInv, C!Sealing, C!TypeOK, C!Content
    <3>2. QED
      BY <3>1, PostsFinite
  <2>3. QED
    BY <2>1, <2>2 DEF C!ClosedStaysClosed
<1>3. QED
  BY <1>1, <1>2, CommunityInit, PTL DEF C!Spec

-----------------------------------------------------------------------------
(* Likes: rows that no unique key bounds.                                  *)

\* The same of what Likes counts with.
LEMMA LikesCounting ==
  /\ \A A : K!IsFiniteSet(A) => K!Cardinality(A) \in Nat
  /\ \A A : K!IsFiniteSet(A) => \A B \in SUBSET A : K!IsFiniteSet(B) /\ K!Cardinality(B) <= K!Cardinality(A)
  /\ \A A, x : K!IsFiniteSet(A) /\ x \notin A =>
       K!IsFiniteSet(A \union {x}) /\ K!Cardinality(A \union {x}) = K!Cardinality(A) + 1
  /\ \A A, x : K!IsFiniteSet(A) /\ x \in A =>
       K!IsFiniteSet(A \ {x}) /\ K!Cardinality(A \ {x}) = K!Cardinality(A) - 1
  /\ K!IsFiniteSet({}) /\ K!Cardinality({}) = 0
  /\ \A a, b \in Int : K!IsFiniteSet(a..b)
<1>1. \A A : K!IsFiniteSet(A) <=> IsFiniteSet(A)
  BY DEF K!IsFiniteSet, IsFiniteSet
<1>2. \A A : K!Cardinality(A) = Cardinality(A)
  BY DEF K!Cardinality, Cardinality
<1>3. QED
  BY <1>1, <1>2, Counting

Toggle == [pc : {"idle", "delete", "create"}, of : K!Keys \cup {<<>>}, id : Nat]

LEMMA LikesFinite ==
  ASSUME K!LikesAssumption, K!TypeOK, NEW k
  PROVE  /\ K!IsFiniteSet(K!Rows(k)) /\ K!Cardinality(K!Rows(k)) \in Nat
         /\ K!IsFiniteSet(K!Creating(k)) /\ K!Cardinality(K!Creating(k)) \in Nat
         /\ K!Cardinality(Three) \in Nat
         /\ K!Cardinality(K!Creating(k)) <= K!Cardinality(Three)
<1>1. K!Rows(k) \subseteq DOMAIN likes /\ K!Creating(k) \subseteq Three
  BY DEF K!Rows, K!Creating
<1>2. K!IsFiniteSet(1..created)
  BY LikesCounting DEF K!TypeOK
<1>3. K!IsFiniteSet(K!Rows(k))
  <2>1. K!Rows(k) \in SUBSET (1..created)
    BY <1>1 DEF K!TypeOK
  <2>2. QED
    BY <1>2, <2>1, LikesCounting
<1>4. QED
  BY <1>1, <1>3, LikesCounting DEF K!LikesAssumption

LEMMA LikesInit ==
  ASSUME K!LikesAssumption, K!Init PROVE K!IInv
<1>1. K!TypeOK
  <2>1. DOMAIN likes = {}
    BY DEF K!Init
  <2>2. QED
    BY <2>1 DEF K!Init, K!TypeOK, K!Idle
<1>2. ASSUME NEW k \in K!Keys PROVE K!Rows(k) = {}
  BY DEF K!Init, K!Rows
<1>3. QED
  <2> SUFFICES ASSUME NEW k \in K!Keys
               PROVE  K!Cardinality(K!Rows(k)) + K!Cardinality(K!Creating(k)) <= K!Cardinality(Three)
    BY <1>1 DEF K!IInv, K!LikesBounded
  <2>1. K!Cardinality(K!Rows(k)) = 0
    BY <1>2, LikesCounting
  <2>2. QED
    BY <1>1, <2>1, LikesFinite

\* A toggle that stops creating, or never was about to, adds nothing.
LEMMA NotCreating ==
  ASSUME K!LikesAssumption, K!IInv, NEW p \in Three, NEW r \in Toggle,
         toggles' = [toggles EXCEPT ![p] = r], r.pc # "create",
         DOMAIN likes' \subseteq DOMAIN likes,
         \A i \in DOMAIN likes' : likes'[i] = likes[i], UNCHANGED created
  PROVE  K!IInv'
<1>1. K!TypeOK'
  BY DEF K!IInv, K!TypeOK, Toggle
<1>2. ASSUME NEW k \in K!Keys
      PROVE  K!Cardinality(K!Rows(k))' + K!Cardinality(K!Creating(k))' <= K!Cardinality(Three)
  <2>1. K!Rows(k)' \subseteq K!Rows(k) /\ K!Creating(k)' \subseteq K!Creating(k)
    BY DEF K!Rows, K!Creating, K!IInv, K!TypeOK, K!At, Toggle
  <2>2. /\ K!Cardinality(K!Rows(k)') <= K!Cardinality(K!Rows(k)) /\ K!Cardinality(K!Rows(k)') \in Nat
        /\ K!Cardinality(K!Creating(k)') <= K!Cardinality(K!Creating(k)) /\ K!Cardinality(K!Creating(k)') \in Nat
    BY <2>1, LikesFinite, LikesCounting DEF K!IInv
  <2>3. K!Cardinality(K!Rows(k)) + K!Cardinality(K!Creating(k)) <= K!Cardinality(Three)
    BY DEF K!IInv, K!LikesBounded
  <2>4. QED
    BY <2>2, <2>3, LikesFinite DEF K!IInv
<1>3. QED
  BY <1>1, <1>2 DEF K!IInv, K!LikesBounded

\* A toggle that is about to create found nothing: only its slots bound it.
LEMMA LikeFound ==
  ASSUME K!LikesAssumption, K!IInv, NEW p \in Three, NEW k \in K!Keys, K!FindLike(p, k)
  PROVE  K!IInv'
<1>1. CASE K!Rows(k) = {} /\ K!Become(p, [K!Idle EXCEPT !.pc = "create", !.of = k])
  <2>1. PICK r \in Toggle : r.pc = "create" /\ r.of = k /\ toggles' = [toggles EXCEPT ![p] = r]
    BY <1>1 DEF K!Become, Toggle, K!Idle
  <2>2. UNCHANGED <<likes, created>>
    BY DEF K!FindLike
  <2>3. K!TypeOK'
    BY <2>1, <2>2 DEF K!IInv, K!TypeOK, Toggle
  <2>4. ASSUME NEW l \in K!Keys
        PROVE  K!Cardinality(K!Rows(l))' + K!Cardinality(K!Creating(l))' <= K!Cardinality(Three)
    <3>1. K!Rows(l)' = K!Rows(l)
      BY <2>2 DEF K!Rows
    <3>2. CASE l = k
      <4>1. K!Cardinality(K!Rows(l)') = 0
        BY <1>1, <3>1, <3>2, LikesCounting
      <4>2. K!Cardinality(K!Creating(l)') \in Nat /\ K!Cardinality(K!Creating(l)') <= K!Cardinality(Three)
        <5>1. K!Creating(l)' \subseteq Three
          BY DEF K!Creating
        <5>2. QED
          BY <5>1, LikesCounting DEF K!LikesAssumption
      <4>3. QED
        BY <4>1, <4>2
    <3>3. CASE l # k
      <4>1. K!Creating(l)' \subseteq K!Creating(l)
        BY <2>1, <3>3 DEF K!Creating, K!IInv, K!TypeOK, K!At, Toggle
      <4>2. /\ K!Cardinality(K!Creating(l)') \in Nat
            /\ K!Cardinality(K!Creating(l)') <= K!Cardinality(K!Creating(l))
        BY <4>1, LikesFinite, LikesCounting DEF K!IInv
      <4>3. K!Cardinality(K!Rows(l)) + K!Cardinality(K!Creating(l)) <= K!Cardinality(Three)
        BY DEF K!IInv, K!LikesBounded
      <4>4. QED
        BY <3>1, <4>2, <4>3, LikesFinite DEF K!IInv
    <3>4. QED
      BY <3>2, <3>3
  <2>5. QED
    BY <2>3, <2>4 DEF K!IInv, K!LikesBounded
<1>2. ASSUME NEW i \in K!Rows(k), K!Become(p, [pc |-> "delete", of |-> k, id |-> i])
      PROVE  K!IInv'
  <2>1. i \in Nat
    BY DEF K!Rows, K!IInv, K!TypeOK
  <2>2. PICK r \in Toggle : r.pc # "create" /\ toggles' = [toggles EXCEPT ![p] = r]
    BY <1>2, <2>1 DEF K!Become, Toggle
  <2>3. UNCHANGED <<likes, created>>
    BY DEF K!FindLike
  <2>4. QED
    BY <2>2, <2>3, NotCreating
<1>3. QED
  BY <1>1, <1>2 DEF K!FindLike

LEMMA IdleToggle == K!Idle \in Toggle /\ K!Idle.pc # "create"
BY DEF K!Idle, Toggle

LEMMA LikeCreated ==
  ASSUME K!LikesAssumption, K!IInv, NEW p \in Three, K!CreateLike(p)
  PROVE  K!IInv'
<1>1. /\ created' = created + 1 /\ created \in Nat
      /\ likes' = [i \in DOMAIN likes \cup {created'} |->
                     IF i = created' THEN toggles[p].of ELSE likes[i]]
      /\ toggles' = [toggles EXCEPT ![p] = K!Idle]
      /\ K!At(p, "create")
  BY DEF K!CreateLike, K!Become, K!IInv, K!TypeOK
<1>2. K!TypeOK'
  <2>1. DOMAIN likes' \subseteq 1..created'
    BY <1>1 DEF K!IInv, K!TypeOK
  <2>2. QED
    BY <1>1, <2>1, IdleToggle DEF K!IInv, K!TypeOK, Toggle
<1>3. created' \notin DOMAIN likes
  BY <1>1 DEF K!IInv, K!TypeOK
<1>4. ASSUME NEW k \in K!Keys
      PROVE  K!Cardinality(K!Rows(k))' + K!Cardinality(K!Creating(k))' <= K!Cardinality(Three)
  <2>0. K!Cardinality(K!Rows(k)) + K!Cardinality(K!Creating(k)) <= K!Cardinality(Three)
    BY DEF K!IInv, K!LikesBounded
  <2>1. CASE toggles[p].of = k
    <3>1. K!Rows(k)' = K!Rows(k) \cup {created'} /\ created' \notin K!Rows(k)
      BY <1>1, <1>3, <2>1 DEF K!Rows
    <3>2. K!Creating(k)' = K!Creating(k) \ {p} /\ p \in K!Creating(k)
      BY <1>1, <2>1, IdleToggle DEF K!Creating, K!At, K!IInv, K!TypeOK
    <3>3. /\ K!Cardinality(K!Rows(k)') = K!Cardinality(K!Rows(k)) + 1
          /\ K!Cardinality(K!Creating(k)') = K!Cardinality(K!Creating(k)) - 1
      BY <3>1, <3>2, LikesFinite, LikesCounting DEF K!IInv
    <3>4. QED
      BY <2>0, <3>3, LikesFinite DEF K!IInv
  <2>2. CASE toggles[p].of # k
    <3>1. K!Rows(k)' = K!Rows(k)
      BY <1>1, <1>3, <2>2 DEF K!Rows
    <3>2. K!Creating(k)' = K!Creating(k)
      BY <1>1, <2>2, IdleToggle DEF K!Creating, K!At, K!IInv, K!TypeOK
    <3>3. QED
      BY <2>0, <3>1, <3>2
  <2>3. QED
    BY <2>1, <2>2
<1>5. QED
  BY <1>2, <1>4 DEF K!IInv, K!LikesBounded

\* For any users, posts and toggles in flight: likes do not pile up.
LEMMA LikesStayBounded ==
  ASSUME K!LikesAssumption PROVE K!Spec => []K!LikesBounded
<1>1. K!IInv /\ [K!Next]_K!vars => K!IInv'
  <2> SUFFICES ASSUME K!IInv, [K!Next]_K!vars PROVE K!IInv'
    OBVIOUS
  <2>1. ASSUME NEW p \in Three, NEW u \in Authors, NEW x \in Posts \cup Answers,
               K!toggleLike(p, u, x) \/ K!toggleCommentLike(p, u, x)
        PROVE  K!IInv'
    <3>1. <<u, x>> \in K!Keys
      BY DEF K!Keys
    <3>2. QED
      BY <2>1, <3>1, LikeFound DEF K!toggleLike, K!toggleCommentLike
  <2>2. ASSUME NEW p \in Three, K!DeleteLike(p) PROVE K!IInv'
    <3>1. /\ likes' = [i \in DOMAIN likes \ {toggles[p].id} |-> likes[i]]
          /\ toggles' = [toggles EXCEPT ![p] = K!Idle] /\ UNCHANGED created
      BY <2>2 DEF K!DeleteLike, K!Become
    <3>2. /\ DOMAIN likes' \subseteq DOMAIN likes
          /\ \A i \in DOMAIN likes' : likes'[i] = likes[i]
      BY <3>1
    <3>3. QED
      BY <3>1, <3>2, IdleToggle, NotCreating
  <2>3. ASSUME NEW p \in Three, K!CreateLike(p) PROVE K!IInv'
    BY <2>3, LikeCreated
  <2>4. ASSUME NEW p \in Three, K!Abort(p) PROVE K!IInv'
    BY <2>4, IdleToggle, NotCreating DEF K!Abort, K!Become
  <2>5. CASE UNCHANGED K!vars
    BY <2>5 DEF K!vars, K!IInv, K!TypeOK, K!LikesBounded, K!Rows, K!Creating, K!At
  <2>6. QED
    BY <2>1, <2>2, <2>3, <2>4, <2>5 DEF K!Next
<1>2. K!IInv => K!LikesBounded
  BY DEF K!IInv
<1>3. QED
  BY <1>1, <1>2, LikesInit, PTL DEF K!Spec

-----------------------------------------------------------------------------
(* Seed: deploys that overlap.                                             *)

\* The same of what Seed counts with.
LEMMA SeedCounting ==
  /\ \A A : D!IsFiniteSet(A) => D!Cardinality(A) \in Nat
  /\ \A A : D!IsFiniteSet(A) => \A B \in SUBSET A : D!IsFiniteSet(B) /\ D!Cardinality(B) <= D!Cardinality(A)
  /\ \A A, x : D!IsFiniteSet(A) /\ x \notin A =>
       D!IsFiniteSet(A \union {x}) /\ D!Cardinality(A \union {x}) = D!Cardinality(A) + 1
  /\ \A A, x : D!IsFiniteSet(A) /\ x \in A =>
       D!IsFiniteSet(A \ {x}) /\ D!Cardinality(A \ {x}) = D!Cardinality(A) - 1
  /\ D!IsFiniteSet({}) /\ D!Cardinality({}) = 0
  /\ \A a, b \in Int : D!IsFiniteSet(a..b)
<1>1. \A A : D!IsFiniteSet(A) <=> IsFiniteSet(A)
  BY DEF D!IsFiniteSet, IsFiniteSet
<1>2. \A A : D!Cardinality(A) = Cardinality(A)
  BY DEF D!Cardinality, Cardinality
<1>3. QED
  BY <1>1, <1>2, Counting

SeedRun == [at : Nat, pc : {"idle", "start", "create", "failed"}]

\* The runs about to create a row of a section that has no unique key.
About(k) == {p \in Pair : D!Is(p, "create") /\ D!Section(p) = k /\ k \in D!Unkeyed}

Most(k) == IF k \in D!Unkeyed /\ ~alone THEN D!Cardinality(Pair) ELSE 1

Bounded == \A k \in D!Sections : rows[k] + D!Cardinality(About(k)) <= Most(k)

LEMMA SeededIsBounded == D!SeededOnce <=> Bounded
BY DEF D!SeededOnce, Bounded, About, Most

LEMMA AboutFinite ==
  ASSUME D!SeedAssumption, NEW k
  PROVE  /\ D!IsFiniteSet(About(k)) /\ D!Cardinality(About(k)) \in Nat
         /\ D!Cardinality(Pair) \in Nat /\ D!Cardinality(Pair) >= 1
         /\ D!Cardinality(About(k)) <= D!Cardinality(Pair)
         /\ Most(k) \in Nat
<1>1. About(k) \in SUBSET Pair
  BY DEF About
<1>2. PICK p : p \in Pair
  BY DEF D!SeedAssumption
<1>3. D!Cardinality(Pair \ {p}) = D!Cardinality(Pair) - 1 /\ D!IsFiniteSet(Pair \ {p})
  BY <1>2, SeedCounting DEF D!SeedAssumption
<1>4. D!Cardinality(Pair \ {p}) \in Nat
  BY <1>3, SeedCounting
<1>5. D!Cardinality(Pair) \in Nat /\ D!Cardinality(Pair) >= 1
  BY <1>3, <1>4, SeedCounting DEF D!SeedAssumption
<1>6. QED
  BY <1>1, <1>5, SeedCounting DEF D!SeedAssumption, Most

LEMMA SeedInit ==
  ASSUME D!SeedAssumption, D!Init PROVE D!IInv
<1>1. /\ \A p \in Pair : script[p] = D!Idle /\ script[p].pc = "idle"
      /\ \A k \in D!Sections : rows[k] = 0
  BY DEF D!Init, D!Idle
<1>2. D!TypeOK /\ D!OneRuns /\ D!CreatesWhatItSought
  BY <1>1 DEF D!Init, D!TypeOK, D!OneRuns, D!CreatesWhatItSought, D!Is, D!Idle
<1>3. ASSUME NEW k \in D!Sections PROVE About(k) = {}
  BY <1>1 DEF About, D!Is
<1>4. ASSUME NEW k \in D!Sections PROVE rows[k] + D!Cardinality(About(k)) <= Most(k)
  <2>1. D!Cardinality(About(k)) = 0
    BY <1>3, SeedCounting
  <2>2. Most(k) \in Nat /\ Most(k) >= 1
    BY AboutFinite DEF Most
  <2>3. QED
    BY <1>1, <2>1, <2>2
<1>5. QED
  BY <1>2, <1>4, SeededIsBounded DEF D!IInv, Bounded

\* A run that goes on by itself keeps what it was to be alone.
LEMMA SeedMoves ==
  ASSUME D!SeedAssumption, D!IInv, NEW p \in Pair, NEW r \in SeedRun, D!Become(p, r),
         UNCHANGED alone, ~D!Is(p, "idle") \/ r.pc = "idle",
         r.pc = "create" => D!Script[r.at] \in D!Keyed \cup D!Unkeyed
  PROVE  /\ script' \in [Pair -> SeedRun] /\ alone' \in BOOLEAN
         /\ D!OneRuns' /\ D!CreatesWhatItSought'
         /\ script'[p] = r /\ \A q \in Pair \ {p} : script'[q] = script[q]
         /\ \A k \in D!Sections : r.pc # "create" \/ D!Script[r.at] # k =>
              About(k)' \subseteq About(k) \ {p}
<1>1. script' = [script EXCEPT ![p] = r] /\ script \in [Pair -> SeedRun] /\ alone \in BOOLEAN
  BY DEF D!Become, D!IInv, D!TypeOK, SeedRun
<1>2. script'[p] = r /\ \A q \in Pair \ {p} : script'[q] = script[q]
  BY <1>1
<1>3. D!OneRuns'
  BY <1>2 DEF D!IInv, D!OneRuns, D!Is
<1>4. ASSUME NEW k \in D!Sections, r.pc # "create" \/ D!Script[r.at] # k
      PROVE  About(k)' \subseteq About(k) \ {p}
  BY <1>2, <1>4 DEF About, D!Is, D!Section
<1>5. D!CreatesWhatItSought'
  BY <1>2 DEF D!IInv, D!CreatesWhatItSought, D!Is, D!Section
<1>6. QED
  BY <1>1, <1>2, <1>3, <1>4, <1>5

\* Where a run goes on without a row of its own, nothing is doubled.
LEMMA QuietMove ==
  ASSUME D!SeedAssumption, D!IInv, NEW p \in Pair, NEW r \in SeedRun, D!Become(p, r),
         ~D!Is(p, "idle") \/ r.pc = "idle", r.pc # "create",
         rows' \in [D!Sections -> Nat], UNCHANGED alone,
         \A k \in D!Sections : rows'[k] <= rows[k] \/ (k \notin D!Unkeyed /\ rows'[k] <= 1)
  PROVE  D!IInv'
<1>1. /\ script' \in [Pair -> SeedRun] /\ alone' \in BOOLEAN /\ D!OneRuns' /\ D!CreatesWhatItSought'
      /\ \A k \in D!Sections : About(k)' \subseteq About(k) \ {p}
  BY SeedMoves
<1>2. D!TypeOK'
  BY <1>1 DEF D!TypeOK, SeedRun
<1>3. ASSUME NEW k \in D!Sections PROVE rows'[k] + D!Cardinality(About(k)') <= Most(k)'
  <2>1. About(k)' \in SUBSET About(k) /\ Most(k)' = Most(k)
    BY <1>1 DEF Most
  <2>2. D!Cardinality(About(k)') <= D!Cardinality(About(k)) /\ D!Cardinality(About(k)') \in Nat
    BY <2>1, AboutFinite, SeedCounting
  <2>3. rows[k] + D!Cardinality(About(k)) <= Most(k) /\ rows[k] \in Nat /\ rows'[k] \in Nat
    BY SeededIsBounded DEF D!IInv, Bounded, D!TypeOK
  <2>4. CASE rows'[k] <= rows[k]
    BY <2>1, <2>2, <2>3, <2>4, AboutFinite
  <2>5. CASE k \notin D!Unkeyed /\ rows'[k] <= 1
    <3>1. About(k)' = {} /\ Most(k)' = 1
      BY <2>5 DEF About, Most
    <3>2. QED
      BY <2>3, <2>5, <3>1, SeedCounting
  <2>6. QED
    BY <1>1, <2>4, <2>5
<1>4. Bounded'
  BY <1>3 DEF Bounded
<1>5. D!SeededOnce'
  BY <1>4 DEF Bounded, D!SeededOnce, About, Most
<1>6. QED
  BY <1>1, <1>2, <1>5 DEF D!IInv

\* The next section, the end, and a failure are no creation.
LEMMA Going ==
  ASSUME D!IInv, NEW p \in Pair
  PROVE  /\ D!Advance(p) => \E r \in SeedRun : D!Become(p, r) /\ r.pc # "create"
         /\ D!Fail(p) => \E r \in SeedRun : D!Become(p, r) /\ r.pc # "create"
         /\ D!Idle \in SeedRun /\ D!Idle.pc = "idle"
         /\ \E r \in SeedRun : r = [script[p] EXCEPT !.pc = "create"] /\ r.pc = "create" /\ r.at = script[p].at
<1>1. script[p] \in SeedRun
  BY DEF D!IInv, D!TypeOK, SeedRun
<1>2. D!Idle \in SeedRun /\ D!Idle.pc = "idle"
  BY DEF D!Idle, SeedRun
<1>3. ASSUME D!Advance(p) PROVE \E r \in SeedRun : D!Become(p, r) /\ r.pc # "create"
  <2>1. [at |-> script[p].at + 1, pc |-> "start"] \in SeedRun
    BY <1>1 DEF SeedRun
  <2>2. QED
    BY <1>2, <1>3, <2>1 DEF D!Advance
<1>4. ASSUME D!Fail(p) PROVE \E r \in SeedRun : D!Become(p, r) /\ r.pc # "create"
  <2>1. [script[p] EXCEPT !.pc = "failed"] \in SeedRun /\ [script[p] EXCEPT !.pc = "failed"].pc = "failed"
    BY <1>1 DEF SeedRun
  <2>2. QED
    BY <1>4, <2>1 DEF D!Fail
<1>5. [script[p] EXCEPT !.pc = "create"] \in SeedRun
  BY <1>1 DEF SeedRun
<1>6. QED
  BY <1>1, <1>2, <1>3, <1>4, <1>5 DEF SeedRun

LEMMA StartStep ==
  ASSUME D!SeedAssumption, D!IInv, NEW p \in Pair, D!Start(p)
  PROVE  D!IInv'
<1>1. PICK r \in SeedRun : r = [at |-> 1, pc |-> "start"]
  BY DEF SeedRun
<1>2. /\ script' = [script EXCEPT ![p] = r] /\ script \in [Pair -> SeedRun] /\ UNCHANGED rows
      /\ alone' = (alone /\ \A q \in Pair : D!Is(q, "idle"))
  BY <1>1 DEF D!Start, D!Become, D!IInv, D!TypeOK, SeedRun
<1>3. script'[p] = r /\ \A q \in Pair \ {p} : script'[q] = script[q]
  BY <1>2
<1>4. alone' \in BOOLEAN /\ (alone' => alone)
  BY <1>2 DEF D!IInv, D!TypeOK
<1>5. D!TypeOK'
  <2>1. script' \in [Pair -> SeedRun]
    BY <1>2
  <2>2. QED
    BY <1>2, <1>4, <2>1 DEF D!IInv, D!TypeOK, SeedRun
<1>6. D!OneRuns' /\ D!CreatesWhatItSought'
  BY <1>1, <1>2, <1>3 DEF D!OneRuns, D!CreatesWhatItSought, D!IInv, D!Is, D!Section
<1>7. ASSUME NEW k \in D!Sections PROVE rows'[k] + D!Cardinality(About(k)') <= Most(k)'
  <2>1. About(k)' \in SUBSET About(k)
    BY <1>1, <1>3 DEF About, D!Is, D!Section
  <2>2. D!Cardinality(About(k)') <= D!Cardinality(About(k)) /\ D!Cardinality(About(k)') \in Nat
    BY <2>1, AboutFinite, SeedCounting
  <2>3. rows[k] + D!Cardinality(About(k)) <= Most(k) /\ rows[k] \in Nat
    BY SeededIsBounded DEF D!IInv, Bounded, D!TypeOK
  <2>4. Most(k)' >= Most(k) /\ Most(k)' \in Nat
    BY <1>4, AboutFinite DEF Most
  <2>5. QED
    BY <1>2, <2>2, <2>3, <2>4, AboutFinite
<1>8. D!SeededOnce'
  BY <1>7 DEF D!SeededOnce, About, Most
<1>9. QED
  BY <1>5, <1>6, <1>8 DEF D!IInv

LEMMA SectionFound ==
  ASSUME D!SeedAssumption, D!IInv, NEW p \in Pair, D!Find(p)
  PROVE  D!IInv'
<1>1. D!Is(p, "start") /\ ~D!Is(p, "idle") /\ UNCHANGED <<rows, alone>>
  BY DEF D!Find, D!Is
<1>2. CASE D!Advance(p)
  <2>1. PICK r \in SeedRun : D!Become(p, r) /\ r.pc # "create"
    BY <1>2, Going
  <2>2. rows' \in [D!Sections -> Nat] /\ \A k \in D!Sections : rows'[k] <= rows[k]
    BY <1>1 DEF D!IInv, D!TypeOK
  <2>3. QED
    BY <1>1, <2>1, <2>2, QuietMove
<1>3. CASE ~D!Found(D!Section(p)) /\ D!Become(p, [script[p] EXCEPT !.pc = "create"])
  <2>1. PICK r \in SeedRun : D!Become(p, r) /\ r.pc = "create" /\ r.at = script[p].at
    BY <1>3, Going
  <2>0. D!Script[r.at] \in D!Keyed \cup D!Unkeyed
    BY <2>1 DEF D!Find, D!Section
  <2>2. /\ script' \in [Pair -> SeedRun] /\ alone' \in BOOLEAN /\ D!OneRuns' /\ D!CreatesWhatItSought'
        /\ script'[p] = r /\ \A q \in Pair \ {p} : script'[q] = script[q]
        /\ \A k \in D!Sections : D!Script[r.at] # k => About(k)' \subseteq About(k) \ {p}
    BY <1>1, <2>0, <2>1, SeedMoves
  <2>3. D!TypeOK'
    BY <1>1, <2>2 DEF D!IInv, D!TypeOK, SeedRun
  <2>4. ASSUME NEW k \in D!Sections PROVE rows'[k] + D!Cardinality(About(k)') <= Most(k)'
    <3>0. /\ rows[k] + D!Cardinality(About(k)) <= Most(k) /\ rows[k] \in Nat
          /\ Most(k)' = Most(k) /\ rows' = rows
      BY <1>1, SeededIsBounded DEF D!IInv, Bounded, D!TypeOK, Most
    <3>1. CASE D!Section(p) # k
      <4>1. About(k)' \in SUBSET About(k)
        BY <2>1, <2>2, <3>1 DEF D!Section
      <4>2. D!Cardinality(About(k)') <= D!Cardinality(About(k)) /\ D!Cardinality(About(k)') \in Nat
        BY <4>1, AboutFinite, SeedCounting
      <4>3. QED
        BY <3>0, <4>2, AboutFinite
    <3>2. CASE D!Section(p) = k
      <4>1. rows[k] = 0
        BY <1>3, <3>0, <3>2 DEF D!Found
      <4>2. CASE k \notin D!Unkeyed
        <5>1. About(k)' = {} /\ Most(k) = 1
          BY <4>2 DEF About, Most
        <5>2. QED
          BY <3>0, <4>1, <5>1, SeedCounting
      <4>3. CASE k \in D!Unkeyed /\ ~alone
        <5>1. About(k)' \in SUBSET Pair /\ Most(k) = D!Cardinality(Pair)
          BY <4>3 DEF About, Most
        <5>2. D!Cardinality(About(k)') <= D!Cardinality(Pair) /\ D!Cardinality(About(k)') \in Nat
          BY <5>1, SeedCounting DEF D!SeedAssumption
        <5>3. QED
          BY <3>0, <4>1, <5>1, <5>2
      <4>4. CASE k \in D!Unkeyed /\ alone
        <5>1. About(k)' \in SUBSET {p} /\ Most(k) = 1
          BY <1>1, <2>2, <4>4 DEF About, Most, D!IInv, D!OneRuns, D!Is
        <5>2. /\ D!IsFiniteSet({p}) /\ D!Cardinality({p}) = 1
          <6>1. {p} = {} \union {p} /\ p \notin {}
            OBVIOUS
          <6>2. D!IsFiniteSet({}) /\ D!Cardinality({}) = 0
            BY SeedCounting
          <6>3. /\ D!IsFiniteSet({} \union {p})
                /\ D!Cardinality({} \union {p}) = D!Cardinality({}) + 1
            BY <6>1, <6>2, SeedCounting
          <6>4. QED
            BY <6>1, <6>2, <6>3
        <5>3. D!Cardinality(About(k)') <= 1 /\ D!Cardinality(About(k)') \in Nat
          BY <5>1, <5>2, SeedCounting
        <5>4. QED
          BY <3>0, <4>1, <5>1, <5>3
      <4>5. QED
        BY <4>2, <4>3, <4>4 DEF D!IInv, D!TypeOK
    <3>3. QED
      BY <3>1, <3>2
  <2>5. D!SeededOnce'
    BY <2>4 DEF D!SeededOnce, About, Most
  <2>6. QED
    BY <2>2, <2>3, <2>5 DEF D!IInv
<1>4. QED
  BY <1>2, <1>3 DEF D!Find

LEMMA SectionCreated ==
  ASSUME D!SeedAssumption, D!IInv, NEW p \in Pair, D!Create(p)
  PROVE  D!IInv'
<1> DEFINE k == D!Section(p)
<1>1. D!Is(p, "create") /\ ~D!Is(p, "idle") /\ UNCHANGED alone
  BY DEF D!Create, D!Is
<1>2. PICK r \in SeedRun : D!Become(p, r) /\ r.pc # "create"
  BY Going DEF D!Create
<1>3. CASE UNCHANGED rows
  <2>1. rows' \in [D!Sections -> Nat] /\ \A j \in D!Sections : rows'[j] <= rows[j]
    BY <1>3 DEF D!IInv, D!TypeOK
  <2>2. QED
    BY <1>1, <1>2, <2>1, QuietMove
<1>4. CASE rows' = [rows EXCEPT ![k] = @ + 1] /\ (k \in D!Keyed => ~(rows[k] > 0))
  <2>1. /\ script' \in [Pair -> SeedRun] /\ alone' \in BOOLEAN /\ D!OneRuns' /\ D!CreatesWhatItSought'
        /\ \A j \in D!Sections : About(j)' \subseteq About(j) \ {p}
    BY <1>1, <1>2, SeedMoves
  <2>2. D!TypeOK'
    <3>1. k \in D!Sections /\ rows \in [D!Sections -> Nat]
      BY <1>1 DEF D!IInv, D!TypeOK, D!CreatesWhatItSought, D!Sections
    <3>2. rows' \in [D!Sections -> Nat]
      BY <1>4, <3>1
    <3>3. QED
      BY <2>1, <3>2 DEF D!TypeOK, SeedRun
  <2>3. ASSUME NEW j \in D!Sections PROVE rows'[j] + D!Cardinality(About(j)') <= Most(j)'
    <3>0. /\ rows[j] + D!Cardinality(About(j)) <= Most(j) /\ rows[j] \in Nat
          /\ Most(j)' = Most(j) /\ About(j)' \in SUBSET About(j)
      BY <1>1, <2>1, SeededIsBounded DEF D!IInv, Bounded, D!TypeOK, Most
    <3>1. D!Cardinality(About(j)') <= D!Cardinality(About(j)) /\ D!Cardinality(About(j)') \in Nat
      BY <3>0, AboutFinite, SeedCounting
    <3>2. CASE j # k
      <4>1. rows'[j] = rows[j]
        BY <1>4, <3>2 DEF D!IInv, D!TypeOK
      <4>2. QED
        BY <3>0, <3>1, <4>1, AboutFinite
    <3>3. CASE j = k
      <4>1. rows'[j] = rows[j] + 1
        BY <1>4, <3>3 DEF D!IInv, D!TypeOK
      <4>2. CASE k \in D!Unkeyed
        <5>1. p \in About(j) /\ About(j)' \in SUBSET (About(j) \ {p})
          BY <1>1, <2>1, <3>3, <4>2 DEF About
        <5>2. /\ D!IsFiniteSet(About(j) \ {p})
              /\ D!Cardinality(About(j) \ {p}) = D!Cardinality(About(j)) - 1
          BY <5>1, AboutFinite, SeedCounting
        <5>3. D!Cardinality(About(j)') <= D!Cardinality(About(j)) - 1
          BY <5>1, <5>2, SeedCounting
        <5>4. QED
          BY <3>0, <3>1, <4>1, <5>3, AboutFinite
      <4>3. CASE k \in D!Keyed
        <5>1. About(j)' = {} /\ Most(j) = 1 /\ ~(rows[j] > 0)
          BY <1>4, <3>3, <4>3 DEF About, Most, D!Keyed, D!Unkeyed
        <5>2. D!Cardinality(About(j)') = 0
          BY <5>1, SeedCounting
        <5>3. QED
          BY <3>0, <4>1, <5>1, <5>2
      <4>4. QED
        BY <1>1, <4>2, <4>3 DEF D!IInv, D!CreatesWhatItSought
    <3>4. QED
      BY <3>2, <3>3
  <2>4. D!SeededOnce'
    BY <2>3 DEF D!SeededOnce, About, Most
  <2>5. QED
    BY <2>1, <2>2, <2>4 DEF D!IInv
<1>5. QED
  BY <1>3, <1>4 DEF D!Create

LEMMA RunSteps ==
  ASSUME D!SeedAssumption, D!IInv, NEW p \in Pair,
         \/ \E e \in Emails : D!seedAdmin(p, e)
         \/ D!Upsert(p) \/ D!RetireOthers(p) \/ D!TooFewAccounts(p) \/ D!Die(p)
  PROVE  D!IInv'
<1>1. rows \in [D!Sections -> Nat]
  BY DEF D!IInv, D!TypeOK
<1>2. CASE \/ \E e \in Emails : D!seedAdmin(p, e)
           \/ D!RetireOthers(p) \/ D!TooFewAccounts(p) \/ D!Die(p)
  <2>1. UNCHANGED <<rows, alone>> /\ ~D!Is(p, "idle")
    BY <1>2 DEF D!seedAdmin, D!RetireOthers, D!TooFewAccounts, D!Die, D!Is
  <2>2. PICK r \in SeedRun : D!Become(p, r) /\ r.pc # "create"
    BY <1>2, Going DEF D!seedAdmin, D!RetireOthers, D!TooFewAccounts, D!Die
  <2>3. QED
    BY <1>1, <2>1, <2>2, QuietMove
<1>3. CASE D!Upsert(p)
  <2>1. PICK r \in SeedRun : D!Become(p, r) /\ r.pc # "create"
    BY <1>3, Going DEF D!Upsert
  <2>2. ~D!Is(p, "idle") /\ UNCHANGED alone
    BY <1>3 DEF D!Upsert, D!Is
  <2>3. PICK k \in D!Upserted : rows' = [rows EXCEPT ![k] = 1]
    BY <1>3 DEF D!Upsert
  <2>4. k \notin D!Unkeyed /\ k \in D!Sections
    BY <2>3 DEF D!Upserted, D!Unkeyed, D!Sections
  <2>5. /\ rows' \in [D!Sections -> Nat]
        /\ \A j \in D!Sections : rows'[j] <= rows[j] \/ (j \notin D!Unkeyed /\ rows'[j] <= 1)
    BY <1>1, <2>3, <2>4
  <2>6. QED
    BY <2>1, <2>2, <2>5, QuietMove
<1>4. QED
  BY <1>2, <1>3

\* What admins do to the rows.
LEMMA AdminSteps ==
  ASSUME D!SeedAssumption, D!IInv, UNCHANGED <<script, alone>>, rows' \in [D!Sections -> Nat],
         \A j \in D!Sections : rows'[j] <= rows[j] \/ (j \notin D!Unkeyed /\ rows'[j] <= 1)
  PROVE  D!IInv'
<1>1. D!TypeOK' /\ D!OneRuns' /\ D!CreatesWhatItSought'
  BY DEF D!IInv, D!TypeOK, D!OneRuns, D!CreatesWhatItSought, D!Is, D!Section
<1>2. \A j \in D!Sections : About(j)' = About(j) /\ Most(j)' = Most(j)
  BY DEF About, Most, D!Is, D!Section
<1>3. ASSUME NEW j \in D!Sections PROVE rows'[j] + D!Cardinality(About(j)') <= Most(j)'
  <2>1. rows[j] + D!Cardinality(About(j)) <= Most(j) /\ rows[j] \in Nat /\ rows'[j] \in Nat
    BY SeededIsBounded DEF D!IInv, Bounded, D!TypeOK
  <2>2. CASE rows'[j] <= rows[j]
    BY <1>2, <2>1, <2>2, AboutFinite
  <2>3. CASE j \notin D!Unkeyed /\ rows'[j] <= 1
    <3>1. About(j) = {} /\ Most(j) = 1
      BY <2>3 DEF About, Most
    <3>2. D!Cardinality(About(j)') = 0
      BY <1>2, <3>1, SeedCounting
    <3>3. QED
      BY <1>2, <2>1, <2>3, <3>1, <3>2
  <2>4. QED
    BY <2>2, <2>3
<1>4. D!SeededOnce'
  BY <1>3 DEF D!SeededOnce, About, Most
<1>5. QED
  BY <1>1, <1>4 DEF D!IInv

\* For any number of deploys that overlap: what each creates is there once, or
\* once for each of them.
LEMMA SeedSound ==
  ASSUME D!SeedAssumption PROVE D!Spec => []D!SeededOnce
<1>1. D!IInv /\ [D!Next]_D!vars => D!IInv'
  <2> SUFFICES ASSUME D!IInv, [D!Next]_D!vars PROVE D!IInv'
    OBVIOUS
  <2>0. rows \in [D!Sections -> Nat]
    BY DEF D!IInv, D!TypeOK
  <2>1. ASSUME NEW k \in D!Removable, D!AdminRemoves(k) PROVE D!IInv'
    <3>1. k \in D!Sections /\ rows' = [rows EXCEPT ![k] = @ - 1] /\ rows[k] > 0
      BY <2>1 DEF D!AdminRemoves, D!Removable
    <3>2. rows' \in [D!Sections -> Nat] /\ \A j \in D!Sections : rows'[j] <= rows[j]
      BY <2>0, <3>1
    <3>3. QED
      BY <2>1, <3>2, AdminSteps DEF D!AdminRemoves
  <2>2. ASSUME NEW k \in D!Writable, D!AdminWrites(k) PROVE D!IInv'
    <3>1. k \in D!Sections \ D!Unkeyed /\ rows' = [rows EXCEPT ![k] = 1]
      BY <2>2 DEF D!AdminWrites, D!Writable, D!Sections, D!Upserted, D!Keyed, D!Unkeyed
    <3>2. /\ rows' \in [D!Sections -> Nat]
          /\ \A j \in D!Sections : rows'[j] <= rows[j] \/ (j \notin D!Unkeyed /\ rows'[j] <= 1)
      BY <2>0, <3>1
    <3>3. QED
      BY <2>2, <3>2, AdminSteps DEF D!AdminWrites
  <2>3. CASE D!AdminPublishes \/ D!SignIn \/ UNCHANGED D!vars
    <3>1. UNCHANGED <<rows, script, alone>>
      BY <2>3 DEF D!AdminPublishes, D!SignIn, D!vars
    <3>2. QED
      BY <2>0, <3>1, AdminSteps
  <2>4. QED
    BY <2>1, <2>2, <2>3, RunSteps, StartStep, SectionFound, SectionCreated DEF D!Next
<1>2. D!IInv => D!SeededOnce
  BY DEF D!IInv
<1>3. QED
  BY <1>1, <1>2, SeedInit, PTL DEF D!Spec

-----------------------------------------------------------------------------
(* The composition does what each part does on its own.                      *)

LEMMA PartsOfSite == EitherSpec => W!Spec /\ C!Spec /\ K!Spec /\ D!Spec
<1>1. EitherInit => W!Init /\ C!Init /\ K!Init /\ D!Init
  BY DEF EitherInit
<1>2. [EitherNext]_<<part, vars, prizes, talk, hearts, seeded>> =>
        /\ [W!Next]_(W!vars) /\ [C!Next]_(C!vars) /\ [K!Next]_(K!vars) /\ [D!Next]_(D!vars)
  BY DEF EitherNext, prizes, talk, hearts, seeded, W!vars, C!vars, K!vars, D!vars
<1>3. QED
  BY <1>1, <1>2, PTL DEF EitherSpec, W!Spec, C!Spec, K!Spec, D!Spec

\* For any prizes and requests: no history is orphaned, and what was withdrawn is
\* won or bought only by requests that had seen it on offer.
THEOREM NothingIsOrphaned == EitherSpec => []WithdrawnForGood
<1>1. W!WithdrawnForGood => WithdrawnForGood
  BY DEF WithdrawnForGood
<1>2. QED
  BY <1>1, PartsOfSite, WithdrawalSound, SiteAssumption, PTL

\* For any users, posts, comments and requests: what the window or a removal has
\* closed is reopened only by requests that had passed the check, and likes do not
\* pile up.
THEOREM CommunityIsSound == EitherSpec => []CommunitySound
<1>1. C!ClosedStaysClosed /\ K!LikesBounded => CommunitySound
  BY DEF CommunitySound
<1>2. QED
  BY <1>1, PartsOfSite, CommunityStaysClosed, LikesStayBounded, SiteAssumption, PTL

\* For any number of deploys that overlap: what each creates is there once, or
\* once for each of them.
THEOREM SeedIsIdempotent == EitherSpec => []SeededOnce
<1>1. D!SeededOnce => SeededOnce
  BY DEF SeededOnce
<1>2. QED
  BY <1>1, PartsOfSite, SeedSound, SiteAssumption, PTL

=============================================================================
