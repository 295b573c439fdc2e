\* Three users, two registrations at a time, one seat or none, as the admin likes;
\* three requests for a segment and an item; two of an author and a moderator on
\* one post with two comments; three toggles of one user's likes; two deploys at
\* a time.
SPECIFICATION EitherSpec
CONSTANTS
  Users = {u1, u2, u3}
  Procs = {p1, p2}
  Capacities = {0, 1}
  MaxTime = 1
  NoTournament = NoTournament
  Pair = {p1, p2}  Three = {p1, p2, p3}
  Segments = {segment}  Items = {bundle}  None = None  MaxHistory = 2
  Members = {ann, mod}  Authors = {ann}  Moderators = {mod}  Posts = {post}  Comments = {c1, c2}
  Answers = {c1}  MaxLikes = 4
  Emails = {first, second}  NoEmail = NoEmail  MaxEdits = 1
SYMMETRY Symmetry
INVARIANTS EntriesSound WithdrawnForGood CommunitySound SeededOnce
