\* Two sends at a time over a full chunk and a part of one, fairly answered.
SPECIFICATION FairSpec
CONSTANTS
  c1 = c1  c2 = c2  c3 = c3  p1 = p1  p2 = p2
  Customers <- ThreeCustomers
  Procs <- TwoProcs
  ChunkSize = 2
  MaxSends = 2
INVARIANTS EveryoneOnce CountIsHonest
PROPERTY SendsEnd
