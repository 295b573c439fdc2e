------------------------------ MODULE MCCaches -------------------------------
(* The two users of cache.service.ts whose writers bust what they change,   *)
(* for TLC: lists and content blocks (CacheAside), and the permissions of a *)
(* user (Permissions).  Their keys have different prefixes, so a behaviour  *)
(* exercises one of them.                                                   *)
EXTENDS CacheAside, TLC

CONSTANTS
  Users, InUse, Perms, Overridable, InitRole, NoUser, MaxChanges, \* of Permissions
  boss, ann  \* a super admin and an admin

VARIABLES
  prefix,  \* content or perms
  role, override, served, jwt, changes, asking  \* of Permissions

perms == <<role, override, served, jwt, changes, asking>>

FirstRoles == boss :> "SUPER_ADMIN" @@ ann :> "ADMIN"

P == INSTANCE Permissions WITH cache <- served, req <- asking

ASSUME CachesAssumption == P!PermissionsAssumption

EitherInit == prefix \in {"content", "perms"} /\ Init /\ P!Init

EitherNext ==
  \/ prefix = "content" /\ Next /\ UNCHANGED <<prefix, perms>>
  \/ prefix = "perms" /\ P!Next /\ UNCHANGED <<prefix, vars>>

\* The fairness of either: Redis ends entries, statements are answered, and
\* access tokens expire.
EitherSpec ==
  /\ EitherInit /\ [][EitherNext]_<<prefix, vars, perms>>
  /\ \A k \in Keys : WF_vars(Expire(k))
  /\ P!Fairness

\* Permissions: nobody but a super admin is served what is reserved, and one acts
\* on those below oneself.
LadderHolds == P!LadderHolds

\* Permissions: the permissions of an old role, or of old overrides, end.
SettlesFresh == P!SettlesFresh

=============================================================================
