------------------------------- MODULE Listings ------------------------------
(***************************************************************************)
(* The lists of the public site that are computed and cached: the          *)
(* categories and the headline counts (game.service.ts), the tournaments   *)
(* (tournament.service.ts) and the boards (leaderboard.service.ts), while  *)
(* admins change the catalogue (adminGame.service.ts) and users play.  A   *)
(* list takes one or two statements, and what it shows is the value of no  *)
(* single moment.  Cache.service.ts itself is module CacheAside.           *)
(***************************************************************************)
EXTENDS Integers, Sequences, FiniteSets

CONSTANTS
  Procs,      \* requests in flight at one time
  Games, Categories, None,
  Users,
  Limit,      \* places on a board: 50
  MaxScore    \* bound on a user's total score

VARIABLES
  page,      \* what the behaviour is about: catalog, tournaments or boards
  game, category, order,  \* the catalogue
  status,    \* of a tournament
  score, gone,            \* of each user; 0 is no statistics, gone a soft delete
  cache,     \* what is cached under each key
  req        \* the request in each slot

catalogue == <<game, category, order>>
players == <<score, gone>>
vars == <<page, catalogue, status, players, cache, req>>

Keys == {"catalog:categories", "public:stats", "tournaments:list", "leaderboard:global"}
PageOf(k) == CASE k = "tournaments:list" -> "tournaments"
               [] k = "leaderboard:global" -> "boards"
               [] OTHER -> "catalog"

\* What a prefix invalidates; the headline counts have another.
Busted == {"catalog:categories", "tournaments:list"}

NoGame == [status |-> "none", deleted |-> FALSE, cat |-> None]
Nothing == <<>>
Miss == [full |-> FALSE, value |-> Nothing, late |-> FALSE]

\* Of a request: the value in hand, and the history: has it been overtaken by
\* a write (late), who was gone when it began, the scores left out.
Idle == [pc |-> "idle", key |-> "none", keys |-> {}, hand |-> Nothing,
         late |-> FALSE, before |-> {}, left |-> {}]

Init ==
  /\ page \in {"catalog", "tournaments", "boards"}
  /\ game = [g \in Games |-> NoGame]
  /\ category = [c \in Categories |-> "none"] /\ order = FALSE
  /\ status = "DRAFT"
  /\ score = [u \in Users |-> 0] /\ gone = {}
  /\ cache = [k \in Keys |-> Miss]
  /\ req = [p \in Procs |-> Idle]

At(p, pc) == req[p].pc = pc
Become(p, r) == req' = [req EXCEPT ![p] = r]
Database == <<catalogue, status, players>>

-----------------------------------------------------------------------------
(* The values of the lists, statement by statement.                        *)

Public(g) == game[g].status = "PUBLISHED" /\ ~game[g].deleted
Active == {c \in Categories : category[c] = "active"}
CountIn(c) == Cardinality({g \in Games : Public(g) /\ game[g].cat = c})

\* The categories that were read, in their order, each with its count.
WithCounts(cs) == [order |-> cs.order, count |-> [c \in cs.active |-> CountIn(c)]]
Categories1 == [order |-> order, active |-> Active]

PUBLIC_STATES == {"REGISTRATION_OPEN", "LIVE", "COMPLETED"}

\* The users with statistics by score, the highest first; of equals, any.
Tops ==
  LET Played == {u \in Users : score[u] > 0}
      n == IF Cardinality(Played) < Limit THEN Cardinality(Played) ELSE Limit
  IN {s \in [1..n -> Played] :
        /\ \A i, j \in 1..n : i < j => s[i] # s[j] /\ score[s[i]] >= score[s[j]]
        /\ \A u \in Played : (\A i \in 1..n : s[i] # u) => \A i \in 1..n : score[s[i]] >= score[u]}

\* The value of a list at this moment.
Value(k) ==
  CASE k = "catalog:categories" -> WithCounts(Categories1)
    [] k = "public:stats" -> Cardinality({g \in Games : Public(g)})
    [] k = "tournaments:list" -> status \in PUBLIC_STATES
    [] OTHER -> Nothing

-----------------------------------------------------------------------------
(* Readers: remember.                                                      *)

remember(p, k) ==
  /\ At(p, "idle") /\ PageOf(k) = page /\ ~cache[k].full
  /\ Become(p, [Idle EXCEPT !.pc = "first", !.key = k, !.before = gone])
  /\ UNCHANGED <<page, Database, cache>>

\* Counts and tournaments take one statement, or several at once.
ReadOne(p) ==
  /\ At(p, "first") /\ req[p].key \in {"public:stats", "tournaments:list"}
  /\ Become(p, [req[p] EXCEPT !.pc = "set", !.hand = Value(req[p].key)])
  /\ UNCHANGED <<page, Database, cache>>

listCategories(p) ==
  \/ /\ At(p, "first") /\ req[p].key = "catalog:categories"
     /\ Become(p, [req[p] EXCEPT !.pc = "second", !.hand = Categories1])
     /\ UNCHANGED <<page, Database, cache>>
  \/ /\ At(p, "second") /\ req[p].key = "catalog:categories"
     /\ Become(p, [req[p] EXCEPT !.pc = "set", !.hand = WithCounts(@)])
     /\ UNCHANGED <<page, Database, cache>>

\* groupBy, and then the users of its rows.
GroupScores(p) ==
  /\ At(p, "first") /\ req[p].key = "leaderboard:global"
  /\ \E s \in Tops :
       Become(p, [req[p] EXCEPT !.pc = "second",
                    !.hand = [i \in DOMAIN s |-> [user |-> s[i], score |-> score[s[i]]]],
                    !.left = {score[u] : u \in Users \ {s[i] : i \in DOMAIN s}}])
  /\ UNCHANGED <<page, Database, cache>>

\* Seeded fault: the users are found whether deleted or not.
Fault_NameRows_Deleted(p) ==
  /\ At(p, "second") /\ req[p].key = "leaderboard:global"
  /\ Become(p, [req[p] EXCEPT !.pc = "set"])
  /\ UNCHANGED <<page, Database, cache>>

\* Rows of users that are gone are dropped; a place is the index of what stays.
Present(rows) ==
  LET named[n \in 0..Len(rows)] ==
        IF n = 0 THEN <<>>
        ELSE IF rows[n].user \in gone THEN named[n - 1]
        ELSE Append(named[n - 1], rows[n])
  IN named[Len(rows)]

NameRows(p) ==
  /\ At(p, "second") /\ req[p].key = "leaderboard:global"
  /\ Become(p, [req[p] EXCEPT !.pc = "set", !.hand = Present(@)])
  /\ UNCHANGED <<page, Database, cache>>

\* The catch of set: a cache that cannot be written is left as it is.
set(p) ==
  /\ At(p, "set")
  /\ \/ cache' = [cache EXCEPT ![req[p].key] =
                    [full |-> TRUE, value |-> req[p].hand, late |-> req[p].late]]
     \/ UNCHANGED cache
  /\ Become(p, Idle)
  /\ UNCHANGED <<page, Database>>

Expire(k) ==
  /\ cache[k].full /\ cache' = [cache EXCEPT ![k] = Miss]
  /\ UNCHANGED <<page, Database, req>>

-----------------------------------------------------------------------------
(* Writers: each busts its prefix once the row is written.                 *)

\* p has written and goes on to bust; readers at work are overtaken.
Overtake(p, pc) ==
  req' = [q \in Procs |->
    IF q = p THEN [Idle EXCEPT !.pc = pc]
    ELSE IF req[q].pc \in {"second", "set"} THEN [req[q] EXCEPT !.late = TRUE]
    ELSE req[q]]

SetGame(p, g, r) ==
  /\ page = "catalog" /\ At(p, "idle")
  /\ game' = [game EXCEPT ![g] = r] /\ Overtake(p, "keys")
  /\ UNCHANGED <<page, category, order, status, players, cache>>

createGame(p, g) ==
  /\ game[g] = NoGame
  /\ \E s \in {"DRAFT", "PUBLISHED"}, c \in Active \cup {None} :
       SetGame(p, g, [status |-> s, deleted |-> FALSE, cat |-> c])

\* Any field, among them the category (assignGameToCategory).
updateGame(p, g) ==
  /\ game[g] # NoGame
  /\ \/ \E s \in {"DRAFT", "PUBLISHED"} : SetGame(p, g, [game[g] EXCEPT !.status = s])
     \/ \E c \in Active \cup {None} : SetGame(p, g, [game[g] EXCEPT !.cat = c])

archiveGame(p, g) ==
  game[g] # NoGame /\ SetGame(p, g, [game[g] EXCEPT !.status = "ARCHIVED", !.deleted = TRUE])

\* Published, whatever it was when it was archived.
restoreGame(p, g) ==
  game[g] # NoGame /\ SetGame(p, g, [game[g] EXCEPT !.status = "PUBLISHED", !.deleted = FALSE])

SetCategory(p, c, v) ==
  /\ page = "catalog" /\ At(p, "idle")
  /\ category' = [category EXCEPT ![c] = v]
  /\ game' = IF v # "none" THEN game
             ELSE [g \in Games |-> IF game[g].cat = c THEN [game[g] EXCEPT !.cat = None] ELSE game[g]]
  /\ Overtake(p, "keys")
  /\ UNCHANGED <<page, order, status, players, cache>>

createCategory(p, c) == category[c] = "none" /\ SetCategory(p, c, "active")
updateCategory(p, c) == category[c] # "none" /\ \E v \in {"active", "inactive"} : SetCategory(p, c, v)

\* Its games stay, without a category (onDelete: SetNull).
deleteCategory(p, c) == category[c] # "none" /\ SetCategory(p, c, "none")

reorderCategories(p) ==
  /\ page = "catalog" /\ At(p, "idle")
  /\ order' = ~order /\ Overtake(p, "keys")
  /\ UNCHANGED <<page, game, category, status, players, cache>>

\* The order of games is in no cached list, but the lists are busted.
reorderGames(p) ==
  /\ page = "catalog" /\ At(p, "idle")
  /\ Become(p, [Idle EXCEPT !.pc = "keys"])
  /\ UNCHANGED <<page, Database, cache>>

\* A tournament is created, updated or removed.
SetTournament(p) ==
  /\ page = "tournaments" /\ At(p, "idle")
  /\ status' \in {"DRAFT", "UPCOMING", "CANCELLED"} \cup PUBLIC_STATES
  /\ Overtake(p, "keys")
  /\ UNCHANGED <<page, catalogue, players, cache>>

\* The keys there are under the prefix; those are deleted in a second command.
bustCatalogCache(p) ==
  /\ At(p, "keys")
  /\ Become(p, [req[p] EXCEPT !.pc = "del", !.keys = {k \in Busted : PageOf(k) = page /\ cache[k].full}])
  /\ UNCHANGED <<page, Database, cache>>

Excuse(ks) == [k \in Keys |-> IF k \in ks THEN [cache[k] EXCEPT !.late = cache[k].full] ELSE cache[k]]

\* The catch of invalidatePrefix: a cache that does not answer keeps it all.
del(p) ==
  /\ At(p, "del")
  /\ cache' \in {[k \in Keys |-> IF k \in req[p].keys THEN Miss ELSE cache[k]], Excuse(req[p].keys)}
  /\ Become(p, Idle)
  /\ UNCHANGED <<page, Database>>

-----------------------------------------------------------------------------
(* Users play, and are deleted: no list is busted.                         *)

Play(u) ==
  /\ page = "boards" /\ u \notin gone
  /\ \E s \in 1..MaxScore : s > score[u] /\ score' = [score EXCEPT ![u] = s]
  /\ UNCHANGED <<page, catalogue, status, gone, cache, req>>

\* The column every list of users goes by.  No route of the server writes it: it
\* is written on the database.
SoftDelete(u) ==
  /\ page = "boards" /\ gone' = gone \cup {u}
  /\ UNCHANGED <<page, catalogue, status, score, cache, req>>

\* A request dies; a writer that dies leaves what it should have taken out.
Abort(p) ==
  /\ ~At(p, "idle")
  /\ cache' = CASE At(p, "keys") -> Excuse({k \in Busted : PageOf(k) = page})
                [] At(p, "del") -> Excuse(req[p].keys)
                [] OTHER -> cache
  /\ Become(p, Idle)
  /\ UNCHANGED <<page, Database>>

Admin(p) ==
  \/ \E g \in Games : createGame(p, g) \/ updateGame(p, g) \/ archiveGame(p, g) \/ restoreGame(p, g)
  \/ \E c \in Categories : createCategory(p, c) \/ updateCategory(p, c) \/ deleteCategory(p, c)
  \/ reorderCategories(p) \/ reorderGames(p)
  \/ SetTournament(p)

Next ==
  \/ \E p \in Procs :
       \/ \E k \in Keys : remember(p, k)
       \/ ReadOne(p) \/ listCategories(p) \/ GroupScores(p) \/ NameRows(p) \/ set(p)
       \/ Admin(p) \/ bustCatalogCache(p) \/ del(p)
       \/ Abort(p)
  \/ \E k \in Keys : Expire(k)
  \/ \E u \in Users : Play(u) \/ SoftDelete(u)

Spec == Init /\ [][Next]_vars

-----------------------------------------------------------------------------

Stale(k) == cache[k].full /\ cache[k].value # Value(k)

\* "every write busts the cache prefix": what the navigation shows, and which
\* tournaments the list does (its counts of participants are not followed: a
\* registration busts nothing), is so, unless a writer has yet to bust it or failed to, or a
\* write came between the statements, or before the caching, of one reader.
ListsFollow ==
  \A k \in Busted :
    Stale(k) => \/ cache[k].late
                \/ \E p \in Procs : At(p, "keys") \/ (At(p, "del") /\ k \in req[p].keys)

\* A board about to be cached: by score, each user once, nobody who was
\* already gone when it was asked for, and no better score left out of it.
BoardSound ==
  \A p \in Procs : At(p, "set") /\ req[p].key = "leaderboard:global" =>
    LET b == req[p].hand IN
    /\ Len(b) <= Limit
    /\ \A i \in DOMAIN b : b[i].user \notin req[p].before /\ \A x \in req[p].left : b[i].score >= x
    /\ \A i, j \in DOMAIN b : i < j => b[i].user # b[j].user /\ b[i].score >= b[j].score

ListsSound == ListsFollow /\ BoardSound

(* Why it holds.                                                           *)

ListingsAssumption == IsFiniteSet(Users) /\ Limit \in Nat /\ MaxScore \in Nat

TypeOK ==
  /\ page \in {"catalog", "tournaments", "boards"}
  /\ game \in [Games -> [status : {"none", "DRAFT", "PUBLISHED", "ARCHIVED"},
                         deleted : BOOLEAN, cat : Categories \cup {None}]]
  /\ category \in [Categories -> {"none", "active", "inactive"}] /\ order \in BOOLEAN
  /\ status \in {"DRAFT", "UPCOMING", "CANCELLED"} \cup PUBLIC_STATES
  /\ score \in [Users -> 0..MaxScore] /\ gone \subseteq Users
  /\ DOMAIN cache = Keys
  /\ \A k \in Keys : DOMAIN cache[k] = DOMAIN Miss /\ {cache[k].full, cache[k].late} \subseteq BOOLEAN
  /\ DOMAIN req = Procs
  /\ \A p \in Procs :
       /\ DOMAIN req[p] = DOMAIN Idle
       /\ req[p].pc \in {"idle", "first", "second", "set", "keys", "del"}
       /\ req[p].late \in BOOLEAN /\ req[p].keys \subseteq Busted

\* What is cached and who reads or busts it are on the page of the behaviour.
OnThePage ==
  /\ \A k \in Keys : cache[k].full => PageOf(k) = page
  /\ \A p \in Procs :
       /\ req[p].pc \in {"first", "second", "set"} => req[p].key \in Keys /\ PageOf(req[p].key) = page
       /\ At(p, "second") => req[p].key \in {"catalog:categories", "leaderboard:global"}

\* What is in hand and was not overtaken is what would be read now.
InHandIsCurrent ==
  \A p \in Procs : ~req[p].late =>
    /\ At(p, "set") /\ req[p].key \in Busted => req[p].hand = Value(req[p].key)
    /\ At(p, "second") /\ req[p].key = "catalog:categories" => req[p].hand = Categories1

InOrder(b) ==
  /\ Len(b) <= Limit
  /\ \A i, j \in DOMAIN b : i < j => b[i].user # b[j].user /\ b[i].score >= b[j].score

\* A board is in order from its first statement on; those who were gone then
\* still are.
BoardInOrder ==
  \A p \in Procs :
    /\ req[p].before \subseteq gone
    /\ At(p, "second") /\ req[p].key = "leaderboard:global" =>
         /\ req[p].hand \in Seq([user : Users, score : Nat])
         /\ InOrder(req[p].hand)
         /\ \A i \in DOMAIN req[p].hand : \A x \in req[p].left : req[p].hand[i].score >= x

IInv == TypeOK /\ OnThePage /\ InHandIsCurrent /\ ListsFollow /\ BoardInOrder /\ BoardSound

\* "the figures on the homepage always match what the rest of the site shows".
FiguresMatch ==
  LET cats == cache["catalog:categories"]  all == cache["public:stats"] IN
  (\A p \in Procs : At(p, "idle")) /\ all.full /\ cats.full /\ ~cats.late /\ ~all.late
    => all.value >= CountIn(CHOOSE c \in Categories : TRUE)

\* A board has as many places as there are users to fill it.
BoardFull ==
  \A p \in Procs : At(p, "set") /\ req[p].key = "leaderboard:global" =>
    (Len(req[p].hand) < Limit => req[p].left \subseteq {0})

=============================================================================
