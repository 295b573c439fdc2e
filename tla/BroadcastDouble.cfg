\* A double click on Send.
SPECIFICATION Spec
CONSTANTS
  c1 = c1  c2 = c2  c3 = c3  p1 = p1  p2 = p2
  Customers <- OneCustomer
  Procs <- TwoProcs
  ChunkSize = 1
  MaxSends = 2
INVARIANT NoDoubleSend
