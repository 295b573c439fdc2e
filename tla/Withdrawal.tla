----------------------------- MODULE Withdrawal ------------------------------
(***************************************************************************)
(* services/adminRewards.service.ts against services/rewards.service.ts:   *)
(* segments of the wheel and items of the store are created, changed and   *)
(* withdrawn while they are being won and bought.  What has a history is   *)
(* deactivated and what has none deleted, but the history is counted in    *)
(* one statement and the row removed in another; the foreign key from the  *)
(* history refuses what came in between.                                   *)
(***************************************************************************)
EXTENDS Integers, FiniteSets

CONSTANTS
  Procs,     \* requests in flight at one time
  Segments,  \* rows of the wheel
  Items,     \* rows of the store
  None,      \* neither
  MaxHistory \* bound on the spins and redemptions of each

Prizes == Segments \cup Items

VARIABLES
  row,     \* what each prize's row is
  history, \* the spins that won each segment, the redemptions of each item
  sealed,  \* history: the most there can be of a prize that was withdrawn
  req      \* the request in each slot

vars == <<row, history, sealed, req>>

Idle == [pc |-> "idle", of |-> None]

Init ==
  /\ row = [x \in Prizes |-> "none"]
  /\ history = [x \in Prizes |-> 0]
  /\ sealed = [x \in Prizes |-> 0]
  /\ req = [p \in Procs |-> Idle]

At(p, pc) == req[p].pc = pc
Become(p, pc, x) == req' = [req EXCEPT ![p] = [pc |-> pc, of |-> x]]
Finish(p) == req' = [req EXCEPT ![p] = Idle]
There(x) == row[x] \in {"active", "inactive"}

\* The requests that have read a prize as active and will take it.
Taking(x) == {p \in Procs : At(p, "take") /\ req[p].of = x}

\* x is not on offer any longer; what is on its way will still be taken.
Withdraw(x, how) ==
  /\ row' = [row EXCEPT ![x] = how]
  /\ sealed' = IF row[x] = "active"
               THEN [sealed EXCEPT ![x] = history[x] + Cardinality(Taking(x))] ELSE sealed

-----------------------------------------------------------------------------

\* The segments are read before the transaction, and one of them drawn; of an
\* item, redeem reads its row within it, which locks nothing.
spin(p, x) ==
  /\ x \in Segments
  /\ At(p, "idle") /\ row[x] = "active" /\ history[x] < MaxHistory
  /\ Become(p, "take", x)
  /\ UNCHANGED <<row, history, sealed>>

\* Seeded fault: redeem does not look whether the item is active.
Fault_redeem_Inactive(p, x) ==
  /\ x \in Items
  /\ At(p, "idle") /\ There(x) /\ history[x] < MaxHistory
  /\ Become(p, "take", x)
  /\ UNCHANGED <<row, history, sealed>>

redeem(p, x) ==
  /\ x \in Items
  /\ At(p, "idle") /\ row[x] = "active" /\ history[x] < MaxHistory
  /\ Become(p, "take", x)
  /\ UNCHANGED <<row, history, sealed>>

\* The spin or the redemption is written; with its row gone, the foreign key
\* rolls everything back.
Take(p) ==
  LET x == req[p].of IN
  /\ At(p, "take")
  /\ history' = IF There(x) THEN [history EXCEPT ![x] = @ + 1] ELSE history
  /\ Finish(p)
  /\ UNCHANGED <<row, sealed>>

-----------------------------------------------------------------------------

createPrize(x) ==
  /\ row[x] = "none"
  /\ \E how \in {"active", "inactive"} : row' = [row EXCEPT ![x] = how]
  /\ UNCHANGED <<history, sealed, req>>

\* updateSegment and updateStoreItem, of isActive.
updatePrize(x, how) ==
  /\ There(x)
  /\ IF how = "inactive" THEN Withdraw(x, how) ELSE row' = [row EXCEPT ![x] = how] /\ UNCHANGED sealed
  /\ UNCHANGED <<history, req>>

\* Of what is gone already there is no history.
CountHistory(p, x) ==
  /\ At(p, "idle")
  /\ Become(p, IF history[x] > 0 THEN "deactivate" ELSE "delete", x)
  /\ UNCHANGED <<row, history, sealed>>

deleteSegment(p, x) == x \in Segments /\ CountHistory(p, x)
deleteStoreItem(p, x) == x \in Items /\ CountHistory(p, x)

\* It fails if the row has gone.
Deactivate(p) ==
  LET x == req[p].of IN
  /\ At(p, "deactivate")
  /\ IF There(x) THEN Withdraw(x, "inactive") ELSE UNCHANGED <<row, sealed>>
  /\ Finish(p)
  /\ UNCHANGED history

\* It fails if the row has gone, or has a history by now.
Delete(p) ==
  LET x == req[p].of IN
  /\ At(p, "delete")
  /\ IF There(x) /\ history[x] = 0 THEN Withdraw(x, "deleted") ELSE UNCHANGED <<row, sealed>>
  /\ Finish(p)
  /\ UNCHANGED history

Abort(p) == ~At(p, "idle") /\ Finish(p) /\ UNCHANGED <<row, history, sealed>>

Next ==
  \/ \E x \in Prizes : createPrize(x) \/ \E how \in {"active", "inactive"} : updatePrize(x, how)
  \/ \E p \in Procs :
       \/ \E x \in Prizes :
            spin(p, x) \/ redeem(p, x) \/ deleteSegment(p, x) \/ deleteStoreItem(p, x)
       \/ Take(p) \/ Deactivate(p) \/ Delete(p) \/ Abort(p)

Spec == Init /\ [][Next]_vars

-----------------------------------------------------------------------------

\* "Past spins reference segments, so removing one that's been won would orphan
\* history": whatever is counted too early, no history is orphaned; and what was
\* withdrawn is won or bought only by requests that had seen it on offer.
WithdrawnForGood ==
  \A x \in Prizes :
    /\ history[x] > 0 => There(x)
    /\ row[x] = "inactive" => history[x] <= sealed[x]

(* Why it holds.                                                           *)

WithdrawalAssumption == IsFiniteSet(Procs)

TypeOK ==
  /\ row \in [Prizes -> {"none", "active", "inactive", "deleted"}]
  /\ history \in [Prizes -> Nat]
  /\ sealed \in [Prizes -> Nat]
  /\ req \in [Procs -> [pc : {"idle", "take", "deactivate", "delete"}, of : Prizes \cup {None}]]

\* A request past its first statement is of some prize, ...
Known == \A p \in Procs : ~At(p, "idle") => req[p].of \in Prizes

\* ... what never was on offer nobody is about to take, ...
NewIsUntaken == \A x \in Prizes : row[x] = "none" => history[x] = 0 /\ Taking(x) = {}

\* ... and what is on its way of a prize was on its way when it was withdrawn.
OnTheWay ==
  \A x \in Prizes :
    row[x] = "inactive" => history[x] + Cardinality(Taking(x)) <= sealed[x]

IInv ==
  /\ TypeOK /\ Known /\ NewIsUntaken /\ OnTheWay
  /\ \A x \in Prizes : history[x] > 0 => There(x)

=============================================================================
