\* Two requests of one user over every operation, one item with stock 1 and
\* another with limit 1: double clicks and replays; a report over a ticket that
\* grows old in a window of a day.
SPECIFICATION EitherSpec
CONSTANTS
  u1 = u1  u2 = u2  p1 = p1  p2 = p2  hat = hat  cap = cap
  NoItem = NoItem  NoSegment = NoSegment  Unapplied = Unapplied
  Users <- OneUser
  Procs <- TwoProcs
  Segments <- Wheel
  DailyCoins <- ShortLadder
  Items <- TwoItems
  Price <- Prices
  Limit <- OneCap
  InitStock <- OneEach
  MaxDay = 0
  Reporters = {r1}
  Tickets = {ticket1}
  Days = 1
  Backlog = 0
  MaxTime = 5
SYMMETRY Symmetry
INVARIANTS WalletContinues LedgerTellsAll ShelfSound FiguresHold
PROPERTY EconSpec
