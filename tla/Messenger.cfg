\* Three requests, two messages, and a conversation deleted and begun again; three
\* toggles of a tag beside a ledger that is longer than one read of it; three tabs
\* that mark a thread as read that is longer than one list of it; two writers of one
\* row that screens show.
SPECIFICATION EitherSpec
CONSTANTS
  Procs = {p1, p2, p3}
  Ids = {m1, m2}
  MaxGens = 2
  Customers = {ann}
  Agents = {agent1, agent2}
  Tags = {vip}
  Amounts <- InAndOut
  None = None
  Take = 2
  MaxRows = 3
  MaxIds = 3
  Limit = 2
  MaxMessages = 3
  Writers = {w1, w2}
  Assignees = {agent1}
  NoAgent = NoAgent
SYMMETRY Symmetry
INVARIANTS AuditKept ReopensInTime FileAgrees ReadClears ScreensFollow
