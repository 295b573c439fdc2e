------------------------------- MODULE MCGames -------------------------------
(* Games for TLC.  Both kinds in GameSession: tic-tac-toe, whose             *)
(* achievements go by wins, and snake, whose achievements go by score; and   *)
(* the lists of games, tournaments and scores that are cached (Listings).    *)
(* A behaviour is the sessions one user plays of one game, or a list.        *)
EXTENDS GameSession, TLC

CONSTANTS Games, Categories, None, Users, Limit, MaxScore  \* of Listings

VARIABLES
  game,  \* the game that is played, or lists
  page, shelf, category, order, status, score, gone, cache, readers  \* of Listings

lists == <<page, shelf, category, order, status, score, gone, cache, readers>>

NoScore == {0}
WinOrLoss == {"WIN", "LOSS"}
OneAndTwo == {1, 2}

\* The constants of the run are tic-tac-toe's.
Snake == INSTANCE GameSession WITH ByWins <- FALSE, Scores <- OneAndTwo, Results <- {"none"}

L == INSTANCE Listings WITH game <- shelf, req <- readers

ASSUME GamesAssumption == L!ListingsAssumption

EitherInit ==
  /\ \/ game = "tic-tac-toe" /\ Init
     \/ game = "snake" /\ Snake!Init
     \/ game = "lists" /\ Init
  /\ L!Init
  /\ game = "lists" \/ page = "catalog"

EitherNext ==
  \/ game = "tic-tac-toe" /\ Next /\ UNCHANGED <<game, lists>>
  \/ game = "snake" /\ Snake!Next /\ UNCHANGED <<game, lists>>
  \/ game = "lists" /\ L!Next /\ UNCHANGED <<game, vars>>

EitherSpec == EitherInit /\ [][EitherNext]_<<game, vars, lists>>

Symmetry == Permutations(Procs)

\* Listings: what lists show is so but for the races the cache leaves open, and
\* a board is in order.
ListsSound == L!ListsSound

=============================================================================
