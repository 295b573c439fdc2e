---------------------------- MODULE CustomerFile -----------------------------
(***************************************************************************)
(* services/supportWorkspace.service.ts: what agents keep about a customer *)
(* - notes on the conversation, tags, and a ledger of money whose summary  *)
(* is added up from its rows whenever it is asked for.                     *)
(***************************************************************************)
EXTENDS Integers, Sequences, SequencesExt

CONSTANTS
  Procs,      \* requests in flight at one time
  Users,      \* customers
  Agents,
  Tags,
  Amounts,    \* amounts recorded, in minor units
  None,       \* no agent
  Take,       \* the rows getFinancials reads at most: 200
  MaxRows,    \* bound on the records of a customer's ledger at one time
  MaxIds      \* bound on the assignments ever made: each has an id of its own

VARIABLES
  tags,     \* the tags there are
  assigned, \* the assignment of a tag to a customer: its id, or 0
  ids,      \* ids given out
  flips,    \* history: toggles that were answered, since the tag was made
  note,     \* who wrote the note on each customer's conversation
  ledger,   \* each customer's records, the oldest first
  balance,  \* history: the net of what was recorded and not removed
  req       \* the request in each slot

vars == <<tags, assigned, ids, flips, note, ledger, balance, req>>
file == <<note, ledger, balance>>

Idle == [pc |-> "idle", key |-> <<>>, id |-> 0]
Keys == Users \X Tags

Init ==
  /\ tags = {}
  /\ assigned = [k \in Keys |-> 0]
  /\ ids = 0
  /\ flips = [k \in Keys |-> 0]
  /\ note = [u \in Users |-> None]
  /\ ledger = [u \in Users |-> <<>>]
  /\ balance = [u \in Users |-> 0]
  /\ req = [p \in Procs |-> Idle]

At(p, pc) == req[p].pc = pc
Become(p, r) == req' = [req EXCEPT ![p] = r]

-----------------------------------------------------------------------------

\* updateTag changes only how a tag looks.
createTag(t) ==
  /\ t \notin tags /\ tags' = tags \cup {t}
  /\ UNCHANGED <<assigned, ids, flips, file, req>>

\* Its assignments go with it.
deleteTag(t) ==
  /\ t \in tags /\ tags' = tags \ {t}
  /\ assigned' = [k \in Keys |-> IF k[2] = t THEN 0 ELSE assigned[k]]
  /\ flips' = [k \in Keys |-> IF k[2] = t THEN 0 ELSE flips[k]]
  /\ UNCHANGED <<ids, file, req>>

toggleUserTag(p, u, t) ==
  /\ At(p, "idle")
  /\ Become(p, [pc |-> IF assigned[<<u, t>>] # 0 THEN "unassign" ELSE "assign",
                key |-> <<u, t>>, id |-> assigned[<<u, t>>]])
  /\ UNCHANGED <<tags, assigned, ids, flips, file>>

Flip(k) == flips' = [flips EXCEPT ![k] = 1 - @]

\* Seeded fault: an assignment that is gone already counts as removed.
Fault_Unassign_Lenient(p) ==
  /\ At(p, "unassign")
  /\ assigned' = [assigned EXCEPT ![req[p].key] = IF @ = req[p].id THEN 0 ELSE @]
  /\ Flip(req[p].key)
  /\ Become(p, Idle)
  /\ UNCHANGED <<tags, ids, file>>

\* By the id that was found: one that is gone fails the request.
Unassign(p) ==
  LET k == req[p].key IN
  /\ At(p, "unassign")
  /\ IF assigned[k] = req[p].id
     THEN assigned' = [assigned EXCEPT ![k] = 0] /\ Flip(k)
     ELSE UNCHANGED <<assigned, flips>>
  /\ Become(p, Idle)
  /\ UNCHANGED <<tags, ids, file>>

\* The unique index refuses a second assignment, the foreign key one of a tag
\* that is gone; either fails the request.
AssignTag(p) ==
  LET k == req[p].key IN
  /\ At(p, "assign")
  /\ IF assigned[k] = 0 /\ k[2] \in tags
     THEN /\ ids < MaxIds /\ ids' = ids + 1
          /\ assigned' = [assigned EXCEPT ![k] = ids']
          /\ Flip(k)
     ELSE UNCHANGED <<assigned, ids, flips>>
  /\ Become(p, Idle)
  /\ UNCHANGED <<tags, file>>

-----------------------------------------------------------------------------

\* One note stands for those of a conversation: they do not depend on each other.
addNote(u, a) ==
  /\ note[u] = None /\ note' = [note EXCEPT ![u] = a]
  /\ UNCHANGED <<tags, assigned, ids, flips, ledger, balance, req>>

\* Only its author's, found and deleted: its author never changes.
deleteNote(u, a) ==
  /\ note[u] = a /\ note' = [note EXCEPT ![u] = None]
  /\ UNCHANGED <<tags, assigned, ids, flips, ledger, balance, req>>

-----------------------------------------------------------------------------

Types == {"DEPOSIT", "CASHOUT", "ADJUSTMENT"}

\* Only an adjustment may be negative.
Records == {r \in [type : Types, amount : Amounts] : r.type # "ADJUSTMENT" => r.amount > 0}

Net(r) == IF r.type = "CASHOUT" THEN -r.amount ELSE r.amount

Added(x) == LET sum[n \in 0..Len(x)] == IF n = 0 THEN 0 ELSE sum[n - 1] + x[n] IN sum[Len(x)]

SumOf(types, rows) ==
  Added([i \in DOMAIN rows |-> IF rows[i].type \in types THEN rows[i].amount ELSE 0])

netMinor(rows) == SumOf({"DEPOSIT", "ADJUSTMENT"}, rows) - SumOf({"CASHOUT"}, rows)

Min2(m, n) == IF m < n THEN m ELSE n

\* The records are the latest that Take allows.
getFinancials(u) ==
  LET n == Len(ledger[u]) IN netMinor(SubSeq(ledger[u], n - Min2(Take, n) + 1, n))

addFinancialRecord(u, r) ==
  /\ Len(ledger[u]) < MaxRows
  /\ ledger' = [ledger EXCEPT ![u] = Append(@, r)]
  /\ balance' = [balance EXCEPT ![u] = @ + Net(r)]
  /\ UNCHANGED <<tags, assigned, ids, flips, note, req>>

\* Found and deleted, by id: of two who do, one fails.
deleteFinancialRecord(u, i) ==
  /\ i \in DOMAIN ledger[u]
  /\ ledger' = [ledger EXCEPT ![u] = RemoveAt(@, i)]
  /\ balance' = [balance EXCEPT ![u] = @ - Net(ledger[u][i])]
  /\ UNCHANGED <<tags, assigned, ids, flips, note, req>>

Abort(p) == ~At(p, "idle") /\ Become(p, Idle) /\ UNCHANGED <<tags, assigned, ids, flips, file>>

Next ==
  \/ \E t \in Tags : createTag(t) \/ deleteTag(t)
  \/ \E p \in Procs :
       \/ \E u \in Users, t \in Tags : toggleUserTag(p, u, t)
       \/ Unassign(p) \/ AssignTag(p) \/ Abort(p)
  \/ \E u \in Users :
       \/ \E a \in Agents : addNote(u, a) \/ deleteNote(u, a)
       \/ \E r \in Records : addFinancialRecord(u, r)
       \/ \E i \in 1..MaxRows : deleteFinancialRecord(u, i)

Spec == Init /\ [][Next]_vars

-----------------------------------------------------------------------------

\* "Toggles a tag on a customer, returning the resulting state": however
\* toggles race, with each other and with the removal of the tag, those that
\* were answered have changed it once each.
TogglesCount == \A k \in Keys : (assigned[k] # 0) <=> (flips[k] = 1)

\* "it can never drift out of sync with the underlying records": the summary is
\* what was recorded and not removed, as long as the ledger fits in one read.
SummaryInSync == \A u \in Users : Len(ledger[u]) <= Take => getFinancials(u) = balance[u]

\* The same comment, of every ledger.
SummaryNeverDrifts == \A u \in Users : getFinancials(u) = balance[u]

FileAgrees == TogglesCount /\ SummaryInSync

(* Why it agrees: an assignment that is there was made by the last toggle,  *)
(* and every row is in the sum once.                                        *)

CustomerFileAssumption == Amounts \subseteq Int /\ Take \in Nat

TypeOK ==
  /\ ids \in Nat
  /\ assigned \in [Keys -> 0..ids] /\ flips \in [Keys -> {0, 1}]
  /\ ledger \in [Users -> Seq(Records)] /\ balance \in [Users -> Int]
  /\ DOMAIN req = Procs
  /\ \A p \in Procs : /\ ~At(p, "idle") => req[p].key \in Keys
                      /\ At(p, "unassign") => req[p].id # 0

BalanceIsNet == \A u \in Users : balance[u] = netMinor(ledger[u])

IInv == TypeOK /\ TogglesCount /\ BalanceIsNet

=============================================================================
