\* Two users race for the last item.
SPECIFICATION Spec
CONSTANTS
  u1 = u1  u2 = u2  p1 = p1  p2 = p2  hat = hat  cap = cap
  NoItem = NoItem  NoSegment = NoSegment  Unapplied = Unapplied
  Users <- TwoUsers
  Procs <- TwoProcs
  Segments <- CoinWheel
  DailyCoins <- NoLadder
  Items <- OneItem
  Price <- Prices
  Limit <- Unlimited
  InitStock <- OneEach
  MaxDay = 0
INVARIANT NeverOversold
