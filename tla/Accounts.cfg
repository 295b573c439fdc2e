\* Three logins at a time against a maximum of two failures; two requests at
\* a time over two sessions, two tokens, one reset link and one new password;
\* sign-ins of two users from three addresses; two claims of two agents' links;
\* and two forms at a time over two addresses, two names and a link to open.
SPECIFICATION EitherSpec
CONSTANTS
  Procs = {p1, p2, p3}
  MaxAttempts = 2
  FailedBound = 6
  Requests = {p1, p2}
  Tokens = {1, 2}  Ids = {1, 2}  ResetLinks = {link1}  NoLink = NoLink  MaxPasswords = 1
  Users = {u1, u2}  Addresses = {ip1, ip2, ip3}  Devices = {phone}  Unknown = Unknown
  OwnTake = 3  OtherTake = 2  MaxRows = 6
  Customers = {u1, u2}  Agents = {agent1, agent2}  None = None
  Emails = {e1, e2}  Names = {name1, name2}  MailedLinks = {row1}
SYMMETRY Symmetry
INVARIANTS LockInTime OldPasswordOut RotatedOnce EndedIsSealed SignalsSound AssignmentKept RegisteredSound
