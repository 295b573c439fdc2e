-------------------------------- MODULE Roles --------------------------------
(* constants/permissions.ts: what each role may do, and how they rank.       *)
LOCAL INSTANCE Naturals

PERMISSIONS ==
  {"users.read", "users.create", "users.update", "users.delete",
   "games.read", "games.create", "games.update", "games.delete",
   "tournaments.read", "tournaments.create", "tournaments.update", "tournaments.delete",
   "rewards.read", "rewards.create", "rewards.update", "rewards.delete",
   "chat.read", "chat.reply", "chat.manage",
   "content.read", "content.create", "content.update", "content.delete",
   "admin.manage", "roles.manage", "permissions.manage",
   "settings.read", "settings.update", "audit.read"}

\* Each level can do what the level below it can.
SUPPORT_AGENT == {"chat.read", "chat.reply", "users.read", "games.read", "tournaments.read"}

MODERATOR == SUPPORT_AGENT \cup
  {"chat.manage", "games.create", "games.update", "content.read", "content.create",
   "content.update", "tournaments.create", "tournaments.update", "rewards.read"}

ADMIN == MODERATOR \cup
  {"users.update", "games.delete", "content.delete", "tournaments.delete", "rewards.create",
   "rewards.update", "rewards.delete", "settings.read", "settings.update", "audit.read"}

ROLE_PERMISSIONS ==
  [PLAYER |-> {}, SUPPORT_AGENT |-> SUPPORT_AGENT, MODERATOR |-> MODERATOR,
   ADMIN |-> ADMIN, SUPER_ADMIN |-> PERMISSIONS]

SUPER_ADMIN_ONLY == {"admin.manage", "roles.manage", "permissions.manage", "users.delete"}

ROLE_RANK == [PLAYER |-> 0, SUPPORT_AGENT |-> 1, MODERATOR |-> 2, ADMIN |-> 3, SUPER_ADMIN |-> 4]

=============================================================================
