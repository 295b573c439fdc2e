\* Two requests at a time, in a game that counts wins and in one that scores;
\* one game, one category and three users for a board of two places in the lists.
SPECIFICATION EitherSpec
CONSTANTS
  Procs = {p1, p2}
  Scores <- NoScore
  Results <- WinOrLoss
  ByWins = TRUE
  Tiers <- OneAndTwo
  Reward = 50
  MaxSessions = 2
  Games = {g1}
  Categories = {c1}
  None = None
  Users = {u1, u2, u3}
  Limit = 2
  MaxScore = 2
SYMMETRY Symmetry
INVARIANTS RecordedBounded TierNoticed AchievementOnce ListsSound
