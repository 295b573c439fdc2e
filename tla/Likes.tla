-------------------------------- MODULE Likes --------------------------------
(***************************************************************************)
(* services/community.service.ts, toggleLike and toggleCommentLike: a like *)
(* is looked for and then deleted or created.  The unique index is over    *)
(* user, post and comment, one of which is null in every row, and a null   *)
(* is never equal to a null: it refuses nothing.                           *)
(***************************************************************************)
EXTENDS Integers, FiniteSets

CONSTANTS
  Procs,  \* toggles in flight at one time
  Users,
  Posts,
  Comments,
  MaxRows \* bound on the rows ever created: each has an id of its own

VARIABLES
  likes,   \* the rows there are, by id: of whom, and of what
  created, \* how many there ever were
  req      \* the toggle in each slot

vars == <<likes, created, req>>

Keys == Users \X (Posts \cup Comments)
Idle == [pc |-> "idle", of |-> <<>>, id |-> 0]

Init == likes = <<>> /\ created = 0 /\ req = [p \in Procs |-> Idle]

At(p, pc) == req[p].pc = pc
Become(p, r) == req' = [req EXCEPT ![p] = r]

Rows(k) == {i \in DOMAIN likes : likes[i] = k}

\* findFirst takes any of the rows.
FindLike(p, k) ==
  /\ At(p, "idle")
  /\ \/ \E i \in Rows(k) : Become(p, [pc |-> "delete", of |-> k, id |-> i])
     \/ Rows(k) = {} /\ Become(p, [Idle EXCEPT !.pc = "create", !.of = k])
  /\ UNCHANGED <<likes, created>>

\* By id; a row that is gone already fails the request.
DeleteLike(p) ==
  /\ At(p, "delete")
  /\ likes' = [i \in DOMAIN likes \ {req[p].id} |-> likes[i]]
  /\ Become(p, Idle)
  /\ UNCHANGED created

CreateLike(p) ==
  /\ At(p, "create") /\ created < MaxRows
  /\ created' = created + 1
  /\ likes' = [i \in DOMAIN likes \cup {created'} |->
                IF i = created' THEN req[p].of ELSE likes[i]]
  /\ Become(p, Idle)

\* The count that is answered with changes nothing.
toggleLike(p, u, x) == x \in Posts /\ FindLike(p, <<u, x>>)
toggleCommentLike(p, u, x) == x \in Comments /\ FindLike(p, <<u, x>>)

Abort(p) == ~At(p, "idle") /\ Become(p, Idle) /\ UNCHANGED <<likes, created>>

Next ==
  \E p \in Procs :
    \/ \E u \in Users, x \in Posts \cup Comments : toggleLike(p, u, x) \/ toggleCommentLike(p, u, x)
    \/ DeleteLike(p) \/ CreateLike(p)
    \/ Abort(p)

Spec == Init /\ [][Next]_vars

-----------------------------------------------------------------------------

Creating(k) == {p \in Procs : At(p, "create") /\ req[p].of = k}

\* A double click can leave more than one like of a thing by a user, but not
\* more than the toggles that were in flight when there was none: likes do not
\* pile up, however often they are toggled.
LikesBounded ==
  \A k \in Keys :
    Cardinality(Rows(k)) + Cardinality(Creating(k)) <= Cardinality(Procs)

\* What the unique index is for.
OneLike == \A k \in Keys : Cardinality(Rows(k)) <= 1

(* Why it holds.                                                           *)

LikesAssumption == IsFiniteSet(Procs)

TypeOK ==
  /\ created \in Nat
  /\ DOMAIN likes \subseteq 1..created
  /\ req \in [Procs -> [pc : {"idle", "delete", "create"}, of : Keys \cup {<<>>}, id : Nat]]

\* No id is given twice, so that a row never is written over.
IInv == TypeOK /\ LikesBounded

=============================================================================
