------------------------------ MODULE Community ------------------------------
(***************************************************************************)
(* services/community.service.ts: posts and comments, who may edit and     *)
(* remove them, and until when.  A request reads the row, decides, and     *)
(* then writes by the id alone; requests interleave in between.  Nothing   *)
(* is ever deleted but by a mark.  Likes are module Likes.                 *)
(***************************************************************************)
EXTENDS Integers, FiniteSets

CONSTANTS
  Procs,      \* requests in flight at one time
  Users,
  Authors,    \* those of them who post and comment
  Moderators, \* and those with one of MODERATOR_ROLES
  Posts,
  Comments,
  None        \* no user, post or comment

Content == Posts \cup Comments

VARIABLES
  item, \* the rows of posts and comments
  req   \* the request in each slot

vars == <<item, req>>

\* old: EDIT_WINDOW_MS are over.  History: due, the edits of an old row by its
\* author that had passed the check when it became old and were not made yet;
\* sealed, how many comments a post could have at most when it was deleted.
NoRow == [state |-> "none", author |-> None, post |-> None, parent |-> None,
          old |-> FALSE, due |-> 0, sealed |-> 0]
Idle == [pc |-> "idle", user |-> None, item |-> None, parent |-> None]

Init == item = [x \in Content |-> NoRow] /\ req = [p \in Procs |-> Idle]

At(p, pc) == req[p].pc = pc
Become(p, r) == req' = [req EXCEPT ![p] = r]
Pass(p, pc, u, x, y) ==
  /\ At(p, "idle")
  /\ Become(p, [pc |-> pc, user |-> u, item |-> x, parent |-> y])
  /\ UNCHANGED item

\* Requests that are refused change nothing, and have no action here.
Live(x) == item[x].state = "live"
Thread(x) == {c \in Comments : item[c].post = x}

isModerator(u) == u \in Moderators
assertCanModify(x, u) == item[x].author = u \/ isModerator(u)

-----------------------------------------------------------------------------

createPost(u, x) ==
  /\ item[x].state = "none"
  /\ item' = [item EXCEPT ![x] = [NoRow EXCEPT !.state = "live", !.author = u]]
  /\ UNCHANGED req

\* Moderators edit at any time, authors for as long as the window is open.
InWindow(x, u) == item[x].author = u /\ ~isModerator(u) => ~item[x].old

FindToEdit(p, u, x) ==
  Live(x) /\ assertCanModify(x, u) /\ InWindow(x, u) /\ Pass(p, "save", u, x, None)

updatePost(p, u, x) == x \in Posts /\ FindToEdit(p, u, x)
updateComment(p, u, x) == x \in Comments /\ FindToEdit(p, u, x)

ByAuthor(r) == item[r.item].author = r.user /\ ~isModerator(r.user)

SaveContent(p) ==
  LET r == req[p] IN
  /\ At(p, "save")
  /\ item' = [item EXCEPT ![r.item].due = IF ByAuthor(r) /\ item[r.item].old THEN @ - 1 ELSE @]
  /\ Become(p, Idle)

Saving(x) == {p \in Procs : At(p, "save") /\ req[p].item = x /\ ByAuthor(req[p])}

EditWindowEnds(x) ==
  /\ item[x].state # "none" /\ ~item[x].old
  /\ item' = [item EXCEPT ![x].old = TRUE, ![x].due = Cardinality(Saving(x))]
  /\ UNCHANGED req

-----------------------------------------------------------------------------

FindToDelete(p, u, x) == Live(x) /\ assertCanModify(x, u) /\ Pass(p, "delete", u, x, None)

deletePost(p, u, x) == x \in Posts /\ FindToDelete(p, u, x)
deleteComment(p, u, x) == x \in Comments /\ FindToDelete(p, u, x)

\* Past both checks of addComment, or past the first of them.
Commenting(x) == {p \in Procs : req[p].pc \in {"parent", "comment"} /\ req[p].item = x}

MarkDeleted(p) ==
  LET x == req[p].item IN
  /\ At(p, "delete")
  /\ item' = [item EXCEPT
       ![x].state = "deleted",
       ![x].sealed = IF Live(x) THEN Cardinality(Thread(x)) + Cardinality(Commenting(x)) ELSE @]
  /\ Become(p, Idle)

\* Moderators only, and whatever state the post is in.
restorePost(x) ==
  /\ item[x].state # "none"
  /\ item' = [item EXCEPT ![x].state = "live"]
  /\ UNCHANGED req

-----------------------------------------------------------------------------

\* Seeded fault: the post is looked up whether it is deleted or not.
Fault_addComment_AnyPost(p, u, x, y) ==
  item[x].state # "none" /\ Pass(p, IF y = None THEN "comment" ELSE "parent", u, x, y)

addComment(p, u, x, y) ==
  Live(x) /\ Pass(p, IF y = None THEN "comment" ELSE "parent", u, x, y)

\* A reply belongs to the post of its parent, or is refused.
FindParent(p) ==
  LET r == req[p] IN
  /\ At(p, "parent")
  /\ Become(p, IF item[r.parent].post = r.item THEN [r EXCEPT !.pc = "comment"] ELSE Idle)
  /\ UNCHANGED item

CreateComment(p) ==
  LET r == req[p] IN
  /\ At(p, "comment")
  /\ \E c \in Comments :
       /\ item[c].state = "none"
       /\ item' = [item EXCEPT ![c] =
            [NoRow EXCEPT !.state = "live", !.author = r.user, !.post = r.item, !.parent = r.parent]]
  /\ Become(p, Idle)

Abort(p) == ~At(p, "idle") /\ Become(p, Idle) /\ UNCHANGED item

Next ==
  \/ \E u \in Authors, x \in Posts : createPost(u, x)
  \/ \E x \in Posts : restorePost(x)
  \/ \E x \in Content : EditWindowEnds(x)
  \/ \E p \in Procs :
       \/ \E u \in Users, x \in Content :
            \/ updatePost(p, u, x) \/ updateComment(p, u, x)
            \/ deletePost(p, u, x) \/ deleteComment(p, u, x)
       \/ \E u \in Authors, x \in Posts, y \in Comments \cup {None} : addComment(p, u, x, y)
       \/ SaveContent(p) \/ MarkDeleted(p)
       \/ FindParent(p) \/ CreateComment(p)
       \/ Abort(p)

Spec == Init /\ [][Next]_vars

-----------------------------------------------------------------------------

\* "so a post can't be quietly rewritten long after people replied to it": the
\* author rewrites an old row no more often than requests had passed the check
\* when it became old; and a post that was removed gains no more comments than
\* were on their way when it was.
ClosedStaysClosed ==
  /\ \A x \in Content : item[x].due >= 0
  /\ \A x \in Posts : item[x].state = "deleted" => Cardinality(Thread(x)) <= item[x].sealed

(* Why it holds.                                                           *)

CommunityAssumption == IsFiniteSet(Procs) /\ IsFiniteSet(Comments) /\ None \notin Posts

TypeOK ==
  /\ item \in [Content -> [state : {"none", "live", "deleted"}, author : Users \cup Authors \cup {None},
                           post : Posts \cup {None}, parent : Comments \cup {None},
                           old : BOOLEAN, due : Int, sealed : Nat]]
  /\ req \in [Procs -> [pc : {"idle", "save", "delete", "parent", "comment"},
                        user : Users \cup Authors \cup {None}, item : Content \cup {None},
                        parent : Comments \cup {None}]]

\* A request found the row it is about, ...
Known ==
  /\ \A x \in Content : item[x].state = "none" => item[x] = NoRow
  /\ \A p \in Procs :
       ~At(p, "idle") => req[p].item \in Content /\ item[req[p].item].state # "none"
  /\ \A p \in Procs : At(p, "parent") \/ At(p, "comment") => req[p].item \in Posts

\* ... the edits of an old row that are on their way are due, ...
DueIsSaved ==
  \A x \in Content : item[x].due >= IF item[x].old THEN Cardinality(Saving(x)) ELSE 0

\* ... and the comments on their way to a deleted post were counted.
Sealing ==
  \A x \in Posts :
    item[x].state = "deleted" => Cardinality(Thread(x)) + Cardinality(Commenting(x)) <= item[x].sealed

IInv == TypeOK /\ Known /\ DueIsSaved /\ Sealing

=============================================================================
