\* Readers and every writer over two keys under one prefix; two requests about
\* the permissions of two users, with one change.  Entries run out.
SPECIFICATION EitherSpec
CONSTANTS
  boss = boss  ann = ann  NoUser = NoUser
  Procs = {p1, p2}
  Keys = {k1, k2}
  Writers = {"set", "remove", "list"}
  MaxVersion = 3
  Users = {boss, ann}
  InUse = {"PLAYER", "ADMIN", "SUPER_ADMIN"}
  Perms = {"roles.manage", "permissions.manage", "users.update"}
  Overridable = {"permissions.manage", "users.update"}
  InitRole <- FirstRoles
  MaxChanges = 1
INVARIANTS StaleIsLate LadderHolds
PROPERTIES StaleEnds SettlesFresh
