------------------------------ MODULE Presence -------------------------------
(***************************************************************************)
(* config/socket.ts: who is online, counted by sockets in the memory of    *)
(* the process and told to every client as it changes; and the rooms that  *)
(* services/realtime.service.ts sends into.  A handshake reads the role    *)
(* and only then is the socket connected: it may be gone by then, and the  *)
(* role another.  Typing and read marks are passed on and leave no trace.  *)
(***************************************************************************)
EXTENDS Integers, FiniteSets

CONSTANTS
  Users,
  Sockets, \* connections there may be at one time: tabs and devices
  Owner,   \* whose each of them is
  Threads  \* conversations

VARIABLES
  staff,    \* the users whose role is in STAFF_ROLES
  socket,   \* where each socket is, and whether the role it was read with is staff's
  presence, \* the map of users to sockets; no entry is 0
  told,     \* what the last event told clients of each user
  rooms,    \* the sockets in the room of agents, and in those of conversations
  lost      \* history: the users that a restart forgot and who are not back

vars == <<staff, socket, presence, told, rooms, lost>>

agents == "agents"
Away == [at |-> "away", agent |-> FALSE]

Init ==
  /\ staff \in SUBSET Users
  /\ socket = [s \in Sockets |-> Away]
  /\ presence = [u \in Users |-> 0]
  /\ told = [u \in Users |-> FALSE]
  /\ rooms = [r \in Threads \cup {agents} |-> {}]
  /\ lost = {}

Is(s, at) == socket[s].at = at

\* Its access token is good; the role is another statement's.
Handshake(s) ==
  /\ Is(s, "away")
  /\ socket' = [socket EXCEPT ![s] = [at |-> "greeted", agent |-> Owner[s] \in staff]]
  /\ UNCHANGED <<staff, presence, told, rooms, lost>>

Connection(s) ==
  LET u == Owner[s] IN
  /\ Is(s, "greeted")
  /\ socket' = [socket EXCEPT ![s].at = "connected"]
  /\ rooms' = IF socket[s].agent THEN [rooms EXCEPT ![agents] = @ \cup {s}] ELSE rooms
  /\ presence' = [presence EXCEPT ![u] = @ + 1]
  /\ told' = IF presence[u] = 0 THEN [told EXCEPT ![u] = TRUE] ELSE told
  /\ lost' = lost \ {u}
  /\ UNCHANGED staff

Join(s, c) ==
  /\ Is(s, "connected") /\ rooms' = [rooms EXCEPT ![c] = @ \cup {s}]
  /\ UNCHANGED <<staff, socket, presence, told, lost>>

Leave(s, c) ==
  /\ Is(s, "connected") /\ rooms' = [rooms EXCEPT ![c] = @ \ {s}]
  /\ UNCHANGED <<staff, socket, presence, told, lost>>

\* Before it was connected nothing was counted.
GiveUp(s) ==
  /\ Is(s, "greeted") /\ socket' = [socket EXCEPT ![s] = Away]
  /\ UNCHANGED <<staff, presence, told, rooms, lost>>

\* Seeded fault: the user is offline with the first socket that goes.
Fault_Disconnect_Uncounted(s) ==
  LET u == Owner[s] IN
  /\ Is(s, "connected")
  /\ socket' = [socket EXCEPT ![s] = Away]
  /\ rooms' = [r \in DOMAIN rooms |-> rooms[r] \ {s}]
  /\ presence' = [presence EXCEPT ![u] = 0]
  /\ told' = [told EXCEPT ![u] = FALSE]
  /\ UNCHANGED <<staff, lost>>

Disconnect(s) ==
  LET u == Owner[s] IN
  /\ Is(s, "connected")
  /\ socket' = [socket EXCEPT ![s] = Away]
  /\ rooms' = [r \in DOMAIN rooms |-> rooms[r] \ {s}]
  /\ presence' = [presence EXCEPT ![u] = @ - 1]
  /\ told' = IF presence[u] <= 1 THEN [told EXCEPT ![u] = FALSE] ELSE told
  /\ UNCHANGED <<staff, lost>>

\* The map goes with the process and its sockets, and nobody is told.
Restart ==
  /\ socket' = [s \in Sockets |-> Away]
  /\ rooms' = [r \in DOMAIN rooms |-> {}]
  /\ presence' = [u \in Users |-> 0]
  /\ lost' = {u \in Users : told[u]}
  /\ UNCHANGED <<staff, told>>

RoleChanges(u) ==
  /\ staff' = IF u \in staff THEN staff \ {u} ELSE staff \cup {u}
  /\ UNCHANGED <<socket, presence, told, rooms, lost>>

Next ==
  \/ \E s \in Sockets :
       \/ Handshake(s) \/ Connection(s) \/ GiveUp(s) \/ Disconnect(s)
       \/ \E c \in Threads : Join(s, c) \/ Leave(s, c)
  \/ Restart
  \/ \E u \in Users : RoleChanges(u)

Spec == Init /\ [][Next]_vars

-----------------------------------------------------------------------------

\* How often a message of a customer is sent to a socket: to its conversation's
\* room and, apart, to that of the agents.
messageCreated(s, c) ==
  Cardinality({r \in {c, agents} : s \in rooms[r]})

\* "First connection => online; last disconnect => offline": through all tabs
\* and reconnections, the last thing clients were told of a user is whether a
\* socket of theirs is connected - except of those whom a restart forgot and
\* who have not come back.  And whoever was read as staff hears of a message.
PresenceTold ==
  /\ \A u \in Users \ lost : told[u] <=> \E s \in Sockets : Owner[s] = u /\ Is(s, "connected")
  /\ \A s \in Sockets, c \in Threads :
       Is(s, "connected") /\ socket[s].agent => messageCreated(s, c) \in 1..2

\* The same, through a restart.
NoGhosts == \A u \in Users : told[u] => \E s \in Sockets : Owner[s] = u /\ Is(s, "connected")

\* What a client that shows a message twice would need.
SentOnce == \A s \in Sockets, c \in Threads : messageCreated(s, c) <= 1

-----------------------------------------------------------------------------
(* Why it holds.                                                           *)

PresenceAssumption ==
  /\ IsFiniteSet(Sockets)
  /\ Owner \in [Sockets -> Users]
  /\ agents \notin Threads  \* rooms of conversations have a prefix

TypeOK ==
  /\ staff \subseteq Users
  /\ socket \in [Sockets -> [at : {"away", "greeted", "connected"}, agent : BOOLEAN]]
  /\ presence \in [Users -> Nat]
  /\ told \in [Users -> BOOLEAN]
  /\ rooms \in [Threads \cup {agents} -> SUBSET Sockets]
  /\ lost \subseteq Users

\* The map counts every user's connected sockets; of a user whom a restart forgot
\* there are none; and a socket that was read as staff's stays among the agents.
CountsSockets ==
  /\ \A u \in Users :
       presence[u] = Cardinality({s \in Sockets : Owner[s] = u /\ Is(s, "connected")})
  /\ \A u \in lost : presence[u] = 0
  /\ \A s \in Sockets : Is(s, "connected") /\ socket[s].agent => s \in rooms[agents]

IInv == TypeOK /\ CountsSockets /\ PresenceTold

=============================================================================
