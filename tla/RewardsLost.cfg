\* Two requests of one user: one of two redemptions is not paid for.
SPECIFICATION Spec
CONSTANTS
  u1 = u1  u2 = u2  p1 = p1  p2 = p2  hat = hat  cap = cap
  NoItem = NoItem  NoSegment = NoSegment  Unapplied = Unapplied
  Users <- OneUser
  Procs <- TwoProcs
  Segments <- CoinWheel
  DailyCoins <- NoLadder
  Items <- OneItem
  Price <- Prices
  Limit <- Unlimited
  InitStock <- Unlimited
  MaxDay = 0
INVARIANT WalletMatchesLedger
