----------------------------- MODULE AgentLinks ------------------------------
(***************************************************************************)
(* Who a conversation is assigned to: agents' personal links, through      *)
(* which a customer claims their agent (services/accountSecurity.service), *)
(* and assignment by the staff (services/adminSupport.service).  A claim   *)
(* reads the assignment and then writes it, whatever it has become.  How   *)
(* often a link was visited decides nothing and is left out, as are pins.   *)
(***************************************************************************)
CONSTANTS
  Procs,     \* requests in flight at one time
  Customers,
  Agents,
  None       \* no agent, or no conversation

VARIABLES
  link,   \* the link of each agent
  away,   \* the agents whose account is not ACTIVE
  agent,  \* whom each customer's conversation is assigned to, if there is one
  raced,  \* history: the claims that had read each conversation unassigned
          \* when it was last assigned
  req     \* the request in each slot

vars == <<link, away, agent, raced, req>>

Idle == [pc |-> "idle", link |-> None, of |-> None]

NoThread == "none"  \* no conversation, rather than one without an agent

Init ==
  /\ link = [a \in Agents |-> "none"]
  /\ away = {}
  /\ agent = [c \in Customers |-> NoThread]
  /\ raced = [c \in Customers |-> {}]
  /\ req = [p \in Procs |-> Idle]

At(p, pc) == req[p].pc = pc
Become(p, r) == req' = [req EXCEPT ![p] = r]
Goto(p, pc) == Become(p, [req[p] EXCEPT !.pc = pc])
Thread(c) == agent[c] # NoThread

\* The claims about to assign a conversation they have read as unassigned.
Claiming(c) == {p \in Procs : At(p, "assign") /\ req[p].of = c}

\* The conversations cs are now with a, or with nobody.
Assign(cs, a) ==
  /\ agent' = [c \in Customers |-> IF c \in cs THEN a ELSE agent[c]]
  /\ raced' = [c \in Customers |-> IF c \in cs THEN Claiming(c) ELSE raced[c]]

-----------------------------------------------------------------------------

\* Found, or created after a look at who asks: a second row for an agent is
\* refused by the unique index, and the request with it.
getOrCreateAgentLink(p, a) ==
  /\ At(p, "idle")
  /\ link[a] = "none" /\ Become(p, [Idle EXCEPT !.pc = "create", !.link = a])
  /\ UNCHANGED <<link, away, agent, raced>>

CreateLink(p) ==
  /\ At(p, "create")
  /\ link' = [link EXCEPT ![req[p].link] = IF @ = "none" THEN "active" ELSE @]
  /\ Become(p, Idle)
  /\ UNCHANGED <<away, agent, raced>>

setAgentLinkActive(a, on) ==
  /\ link[a] # "none"
  /\ link' = [link EXCEPT ![a] = IF on THEN "active" ELSE "inactive"]
  /\ UNCHANGED <<away, agent, raced, req>>

\* adminUser.service.ts suspends and reinstates; nobody is unassigned by it.
StatusChanges(a) ==
  /\ away' = IF a \in away THEN away \ {a} ELSE away \cup {a}
  /\ UNCHANGED <<link, agent, raced, req>>

claimViaLink(p, a, c) ==
  /\ At(p, "idle")
  /\ link[a] = "active" /\ a \notin away
  /\ Become(p, [pc |-> "upsert", link |-> a, of |-> c])
  /\ UNCHANGED <<link, away, agent, raced>>

\* Seeded fault: the assignment that was read is not looked at.
Fault_UpsertConversation_Takes(p) ==
  LET r == req[p] IN
  /\ At(p, "upsert")
  /\ IF Thread(r.of) THEN UNCHANGED <<agent, raced>> ELSE Assign({r.of}, r.link)
  /\ Goto(p, "assign")
  /\ UNCHANGED <<link, away>>

\* Created with its agent, or found: then an assignment is kept.
UpsertConversation(p) ==
  LET r == req[p] IN
  /\ At(p, "upsert")
  /\ IF Thread(r.of)
     THEN /\ IF agent[r.of] = None THEN Goto(p, "assign") ELSE Goto(p, "visit")
          /\ UNCHANGED <<agent, raced>>
     ELSE Assign({r.of}, r.link) /\ Goto(p, "visit")
  /\ UNCHANGED <<link, away>>

AssignClaimed(p) ==
  /\ At(p, "assign")
  /\ Assign({req[p].of}, req[p].link)
  /\ Goto(p, "visit")
  /\ UNCHANGED <<link, away>>

CountVisit(p) == At(p, "visit") /\ Become(p, Idle) /\ UNCHANGED <<link, away, agent, raced>>

-----------------------------------------------------------------------------

\* The conversation a customer begins by writing.
getOrCreateForUser(c) ==
  /\ ~Thread(c) /\ agent' = [agent EXCEPT ![c] = None]
  /\ UNCHANGED <<link, away, raced, req>>

\* assign is bulkAssign of one; ids that are gone are passed over, or fail.
bulkAssign(cs, a) ==
  /\ cs # {} /\ \A c \in cs : Thread(c)
  /\ Assign(cs, a)
  /\ UNCHANGED <<link, away, req>>

assign(c, a) == bulkAssign({c}, a)

\* A claim about to assign it will fail, for it does so by the id that is gone:
\* that request is over.
deleteConversation(c) ==
  /\ Thread(c)
  /\ agent' = [agent EXCEPT ![c] = NoThread]
  /\ req' = [p \in Procs |-> IF p \in Claiming(c) THEN Idle ELSE req[p]]
  /\ UNCHANGED <<link, away, raced>>

Abort(p) == ~At(p, "idle") /\ Become(p, Idle) /\ UNCHANGED <<link, away, agent, raced>>

Next ==
  \/ \E a \in Agents :
       \/ \E on \in BOOLEAN : setAgentLinkActive(a, on)
       \/ StatusChanges(a)
  \/ \E cs \in SUBSET Customers, a \in Agents \cup {None} : bulkAssign(cs, a)
  \/ \E c \in Customers :
       \/ \E a \in Agents \cup {None} : assign(c, a)
       \/ getOrCreateForUser(c) \/ deleteConversation(c)
  \/ \E p \in Procs :
       \/ \E a \in Agents : getOrCreateAgentLink(p, a)
       \/ \E a \in Agents, c \in Customers : claimViaLink(p, a, c)
       \/ CreateLink(p) \/ UpsertConversation(p) \/ AssignClaimed(p) \/ CountVisit(p)
       \/ Abort(p)

Spec == Init /\ [][Next]_vars

-----------------------------------------------------------------------------

\* "If the thread already has an agent, that assignment is kept": the only
\* claims that are about to write over one had read the conversation as
\* unassigned before it was made.
AssignmentKept ==
  \A c \in Customers : Thread(c) /\ agent[c] # None => Claiming(c) \subseteq raced[c]

\* What the proof that it is kept needs of the state.
TypeOK ==
  /\ agent \in [Customers -> Agents \cup {None, NoThread}]
  /\ raced \in [Customers -> SUBSET Procs]
  /\ req \in [Procs -> [pc : {"idle", "create", "upsert", "assign", "visit"},
                       link : Agents \cup {None}, of : Customers \cup {None}]]

\* The same comment, of every claim.
NeverPulledAway == \A c \in Customers : Claiming(c) # {} => agent[c] = None

=============================================================================
