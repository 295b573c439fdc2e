\* Two requests of one user across a midnight; every request is answered.  The
\* claims and the redemptions move the wallet, the spins win nothing.
SPECIFICATION FairSpec
CONSTANTS
  u1 = u1  u2 = u2  p1 = p1  p2 = p2  hat = hat  cap = cap
  NoItem = NoItem  NoSegment = NoSegment  Unapplied = Unapplied
  Users <- OneUser
  Procs <- TwoProcs
  Segments <- EmptyWheel
  DailyCoins <- ShortLadder
  Items <- OneItem
  Price <- Prices
  Limit <- OneEach
  InitStock <- OneEach
  MaxDay = 1
INVARIANT OneRewardPerDay
PROPERTY RequestsEnd
