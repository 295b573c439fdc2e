------------------------------- MODULE MCSite --------------------------------
(* What the site shows, and who changes it meanwhile, for TLC: a tournament  *)
(* (Tournament), the prizes of the wheel and the store (Withdrawal), posts   *)
(* and comments (Community) and their likes (Likes), and the script that     *)
(* fills the tables at a deploy (Seed).  They decide nothing by each other's *)
(* rows, so a behaviour exercises one of them.                               *)
EXTENDS Tournament, TLC

CONSTANTS
  Pair, Three,                                   \* slots of the requests, two and three for TLC
  Segments, Items, None, MaxHistory,             \* of Withdrawal
  Members, Authors, Moderators, Posts, Comments, \* of Community
  Answers, MaxLikes,                             \* of Likes: the comments that are liked
  Emails, NoEmail, MaxEdits                      \* of Seed

VARIABLES
  part,  \* Tournament, Withdrawal, Community, Likes or Seed
  row, history, sealed, admins,                    \* of Withdrawal
  things, requests,                                 \* of Community
  likes, created, toggles,                         \* of Likes
  rows, admin, other, real, script, alone, edits   \* of Seed

prizes == <<row, history, sealed, admins>>
talk == <<things, requests>>
hearts == <<likes, created, toggles>>
seeded == <<rows, admin, other, real, script, alone, edits>>

W == INSTANCE Withdrawal WITH Procs <- Three, req <- admins

C == INSTANCE Community WITH
  Procs <- Pair, Users <- Members, item <- things, req <- requests

K == INSTANCE Likes WITH
  Procs <- Three, Users <- Authors, Comments <- Answers, MaxRows <- MaxLikes, req <- toggles

D == INSTANCE Seed WITH Runners <- Pair, run <- script

ASSUME SiteAssumption ==
  W!WithdrawalAssumption /\ C!CommunityAssumption /\ K!LikesAssumption /\ D!SeedAssumption

\* Where the tournament is not the part, one of them is enough.
EitherInit ==
  /\ part \in {"Tournament", "Withdrawal", "Community", "Likes", "Seed"}
  /\ Init /\ W!Init /\ C!Init /\ K!Init /\ D!Init
  /\ part = "Tournament" \/ tournament = CHOOSE t \in Tournaments : TRUE

EitherNext ==
  \/ part = "Tournament" /\ Next /\ UNCHANGED <<part, prizes, talk, hearts, seeded>>
  \/ part = "Withdrawal" /\ W!Next /\ UNCHANGED <<part, vars, talk, hearts, seeded>>
  \/ part = "Community" /\ C!Next /\ UNCHANGED <<part, vars, prizes, hearts, seeded>>
  \/ part = "Likes" /\ K!Next /\ UNCHANGED <<part, vars, prizes, talk, seeded>>
  \/ part = "Seed" /\ D!Next /\ UNCHANGED <<part, vars, prizes, talk, hearts>>

EitherSpec ==
  EitherInit /\ [][EitherNext]_<<part, vars, prizes, talk, hearts, seeded>>

Symmetry == Permutations(Pair)

\* Withdrawal: no history is orphaned, and what was withdrawn is taken only by
\* requests that had seen it on offer.
WithdrawnForGood == W!WithdrawnForGood

\* Community and Likes: what the window or a removal has closed is reopened only
\* by requests that had passed the check, and likes do not pile up, however often
\* they are toggled.
CommunitySound == C!ClosedStaysClosed /\ K!LikesBounded

\* Seed: what a deploy creates is there once, or once for each that overlapped.
SeededOnce == D!SeededOnce

=============================================================================
