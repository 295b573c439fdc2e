---------------------------- MODULE Permissions ----------------------------
(***************************************************************************)
(* services/permission.service.ts and adminUser.service.ts: who may do     *)
(* what, read through a cache, while admins change roles, overrides and    *)
(* account states.                                                         *)
(*                                                                         *)
(* A request acts under the role its access token was signed with, which   *)
(* is not the role its user has by now.  Cache and database are two        *)
(* systems, and every access to either is a step of its own.               *)
(***************************************************************************)
EXTENDS Integers, Roles

CONSTANTS
  Procs,     \* requests in flight at one time
  Users,
  InUse,     \* the roles anyone is given
  Perms,     \* the permissions asked for
  Overridable, \* those of them that are overridden
  InitRole,
  NoUser,
  MaxChanges \* bound on the changes of roles and overrides

\* What each admin operation requires of its caller.
Needs ==
  [setRole |-> "roles.manage", setPermission |-> "permissions.manage",
   clearPermission |-> "permissions.manage", setAccountStatus |-> "users.update",
   getUserPermissions |-> "permissions.manage"]

VARIABLES
  role,     \* of each user's row
  override, \* the UserPermission rows: none, granted or denied
  cache,    \* what the cache holds for each user
  jwt,      \* the roles in each user's access tokens that are still good
  changes,  \* how many changes there were
  req       \* the request in each slot

vars == <<role, override, cache, jwt, changes, req>>

Miss == [hit |-> FALSE, perms |-> {}]
Entry(ps) == [hit |-> TRUE, perms |-> ps]

\* user and role are whose permissions are asked for, and under which role;
\* by is the actor's role; raced is history: the target's role was changed
\* after this request had read it.
Idle == [pc |-> "idle", user |-> NoUser, role |-> "SUPER_ADMIN", by |-> "SUPER_ADMIN",
         perms |-> {}, op |-> "", arg |-> "", raced |-> FALSE]

Init ==
  /\ role = InitRole
  /\ override = [u \in Users |-> [x \in Perms |-> "none"]]
  /\ cache = [u \in Users |-> Miss]
  /\ jwt = [u \in Users |-> {}]
  /\ changes = 0
  /\ req = [p \in Procs |-> Idle]

At(p, pc) == req[p].pc = pc
Become(p, r) == req' = [req EXCEPT ![p] = r]
Advance(p, r) == Become(p, r) /\ UNCHANGED <<role, override, cache, jwt, changes>>

-----------------------------------------------------------------------------
(* Access tokens.                                                          *)

\* A login or a refresh reads the user, and signs the role it read.
signIn(p, u) ==
  At(p, "idle") /\ Advance(p, [Idle EXCEPT !.pc = "sign", !.user = u, !.role = role[u]])

signAccessToken(p) ==
  /\ At(p, "sign")
  /\ jwt' = [jwt EXCEPT ![req[p].user] = @ \cup {req[p].role}]
  /\ Become(p, Idle)
  /\ UNCHANGED <<role, override, cache, changes>>

\* JWT_ACCESS_EXPIRES_IN is over.
TokenExpires(u, r) ==
  /\ r \in jwt[u]
  /\ jwt' = [jwt EXCEPT ![u] = @ \ {r}]
  /\ UNCHANGED <<role, override, cache, changes, req>>

-----------------------------------------------------------------------------
(* requirePermission and getEffectivePermissions.                          *)

\* With the cache's answer: a hit is taken as it is.
Ask(p, u, r, then) ==
  Advance(p, IF cache[u].hit
             THEN IF then = "find"
                  THEN [Idle EXCEPT !.pc = "find", !.user = u, !.by = r, !.perms = cache[u].perms]
                  ELSE Idle
             ELSE [Idle EXCEPT !.pc = "overrides", !.user = u, !.role = r, !.by = r, !.op = then])

requirePermission(p, u, r) == At(p, "idle") /\ r \in jwt[u] /\ Ask(p, u, r, "find")

\* The role's baseline, the user's overrides, and less what is reserved.
Effective(u, r) ==
  {x \in Perms :
     /\ override[u][x] = "granted" \/ (x \in ROLE_PERMISSIONS[r] /\ override[u][x] # "denied")
     /\ x \in SUPER_ADMIN_ONLY => r = "SUPER_ADMIN"}

FindOverrides(p) ==
  /\ At(p, "overrides")
  /\ Advance(p, [req[p] EXCEPT !.pc = "set", !.perms = Effective(req[p].user, req[p].role)])

\* A cache that cannot be written is left as it is.
CacheSet(p) ==
  /\ At(p, "set")
  /\ cache' \in {cache, [cache EXCEPT ![req[p].user] = Entry(req[p].perms)]}
  /\ Become(p, IF req[p].op = "find"
               THEN [Idle EXCEPT !.pc = "find", !.user = req[p].user, !.by = req[p].by,
                                 !.perms = req[p].perms]
               ELSE Idle)
  /\ UNCHANGED <<role, override, jwt, changes>>

\* Seeded fault: entries are stored without a time to live.
Fault_CacheExpires_NoTtl(u) == FALSE /\ UNCHANGED <<vars, u>>

CacheExpires(u) ==
  /\ cache[u].hit
  /\ cache' = [cache EXCEPT ![u] = Miss]
  /\ UNCHANGED <<role, override, jwt, changes, req>>

-----------------------------------------------------------------------------
(* The admin operations of a request that has the permission they need.    *)

\* Seeded fault: one's peers may be acted on as well.
Fault_CanActOn_Peers(by, target) == ROLE_RANK[target] <= ROLE_RANK[by]

CanActOn(by, target) == ROLE_RANK[target] < ROLE_RANK[by]

\* The target's row is read, and the rules tested against what was read.
FindTarget(p) ==
  /\ At(p, "find")
  /\ \E op \in DOMAIN Needs, u \in Users :
       LET by == req[p].by
           Write(arg) == [Idle EXCEPT !.pc = "write", !.user = u, !.by = by, !.op = op, !.arg = arg]
       IN  IF Needs[op] \notin req[p].perms \/ (op = "setRole" /\ u = req[p].user)
           THEN Advance(p, Idle)
           ELSE IF op = "getUserPermissions" THEN Ask(p, u, role[u], "done")
           ELSE IF ~CanActOn(by, role[u]) THEN Advance(p, Idle)
           ELSE \/ op = "setRole" /\ \E r \in InUse : Advance(p, IF ROLE_RANK[r] < ROLE_RANK[by] THEN Write(r) ELSE Idle)
                \/ op = "setPermission" /\ \E x \in Overridable, granted \in {"granted", "denied"} : Advance(p, Write(<<x, granted>>))
                \/ op = "clearPermission" /\ \E x \in Overridable : Advance(p, Write(<<x, "none">>))
                \/ op = "setAccountStatus" /\ Advance(p, Write(""))

\* Every other request that has read the role of u has read an old one.
Overtake(p, r, u) ==
  req' = [q \in Procs |->
    IF q = p THEN r
    ELSE IF At(q, "write") /\ req[q].user = u THEN [req[q] EXCEPT !.raced = TRUE] ELSE req[q]]

Bust(p) == [Idle EXCEPT !.pc = "del", !.user = req[p].user]

\* user.update, by the id alone.
WriteRole(p) ==
  /\ At(p, "write") /\ req[p].op = "setRole" /\ changes < MaxChanges
  /\ role' = [role EXCEPT ![req[p].user] = req[p].arg]
  /\ changes' = changes + 1
  /\ Overtake(p, Bust(p), req[p].user)
  /\ UNCHANGED <<override, cache, jwt>>

\* The upsert of setPermission, the deleteMany of clearPermission.
WriteOverride(p) ==
  /\ At(p, "write") /\ req[p].op \in {"setPermission", "clearPermission"} /\ changes < MaxChanges
  /\ override' = [override EXCEPT ![req[p].user][req[p].arg[1]] = req[p].arg[2]]
  /\ changes' = changes + 1
  /\ Become(p, Bust(p))
  /\ UNCHANGED <<role, cache, jwt>>

\* No operation of these modules reads the account's state.
WriteStatus(p) ==
  At(p, "write") /\ req[p].op = "setAccountStatus" /\ Advance(p, Idle)

\* A cache that does not answer keeps what it holds.
CacheDel(p) ==
  /\ At(p, "del")
  /\ cache' \in {cache, [cache EXCEPT ![req[p].user] = Miss]}
  /\ Become(p, Idle)
  /\ UNCHANGED <<role, override, jwt, changes>>

Abort(p) == ~At(p, "idle") /\ Advance(p, Idle)

Step(p) ==
  \/ signAccessToken(p)
  \/ FindOverrides(p) \/ CacheSet(p) \/ FindTarget(p)
  \/ WriteRole(p) \/ WriteOverride(p) \/ WriteStatus(p) \/ CacheDel(p)
  \/ Abort(p)

Next ==
  \/ \E p \in Procs, u \in Users : signIn(p, u)
  \/ \E p \in Procs, u \in Users, r \in InUse : requirePermission(p, u, r)
  \/ \E p \in Procs : Step(p)
  \/ \E u \in Users : CacheExpires(u)
  \/ \E u \in Users, r \in InUse : TokenExpires(u, r)

Spec == Init /\ [][Next]_vars

\* Statements are answered, tokens and cached entries run out.
Fairness ==
  /\ \A p \in Procs : WF_vars(Step(p))
  /\ \A u \in Users : WF_vars(CacheExpires(u))
  /\ \A u \in Users, r \in InUse : WF_vars(TokenExpires(u, r))

FairSpec == Spec /\ Fairness

-----------------------------------------------------------------------------

\* No one but a super admin is ever served a reserved permission, through
\* grants, stale tokens, stale entries and racing changes of role alike.
ReservedOut ==
  /\ \A u \in Users : role[u] # "SUPER_ADMIN" => cache[u].perms \cap SUPER_ADMIN_ONLY = {}
  /\ \A p \in Procs : At(p, "find") /\ role[req[p].user] # "SUPER_ADMIN" => req[p].perms \cap SUPER_ADMIN_ONLY = {}

\* "You can never act on someone at or above your own rank": a request about
\* to change an account outranks it, or the account was promoted since it
\* was looked at.
RankRespected ==
  \A p \in Procs : At(p, "write") => ROLE_RANK[role[req[p].user]] < ROLE_RANK[req[p].by] \/ req[p].raced

\* What is kept from the lower ranks, in what they are served and in whom they
\* act on.
LadderHolds == ReservedOut /\ RankRespected

Stale(u) == cache[u].hit /\ cache[u].perms # Effective(u, role[u])

\* Changes take effect: when no more are made, the time comes from which on
\* nobody is served the permissions of an old role or of old overrides.
SettlesFresh == <>[](\A u \in Users : ~Stale(u))

\* "Call after any role change so stale permissions aren't served": with no
\* request at work, nobody's cached permissions are those of another role.
FreshAtRest == (\A p \in Procs : At(p, "idle")) => \A u \in Users : ~Stale(u)

(* Why the ladder holds: nobody becomes a super admin, and none is demoted. *)

PermissionsAssumption ==
  /\ InUse \subseteq DOMAIN ROLE_RANK /\ InitRole \in [Users -> InUse]
  /\ Overridable \subseteq Perms

Effects == {"none", "granted", "denied"}

TypeOK ==
  /\ role \in [Users -> InUse]
  /\ override \in [Users -> [Perms -> Effects]]
  /\ cache \in [Users -> [hit : BOOLEAN, perms : SUBSET Perms]]
  /\ jwt \in [Users -> SUBSET DOMAIN ROLE_RANK]
  /\ DOMAIN req = Procs
  /\ \A p \in Procs :
       /\ DOMAIN req[p] = DOMAIN Idle
       /\ req[p].pc \in {"idle", "sign", "overrides", "set", "find", "write", "del"}
       /\ ~At(p, "idle") => req[p].user \in Users
       /\ {req[p].role, req[p].by} \subseteq DOMAIN ROLE_RANK /\ req[p].perms \in SUBSET Perms

\* Whoever acts as a super admin is one, ...
SupersAreSupers ==
  /\ \A u \in Users : "SUPER_ADMIN" \in jwt[u] => role[u] = "SUPER_ADMIN"
  /\ \A p \in Procs :
       /\ req[p].pc \in {"sign", "overrides"} /\ req[p].role = "SUPER_ADMIN"
            => role[req[p].user] = "SUPER_ADMIN"
       /\ At(p, "set") /\ req[p].perms \cap SUPER_ADMIN_ONLY # {}
            => role[req[p].user] = "SUPER_ADMIN"

\* ... and what is about to be written makes and unmakes none.
WritesAreBelow ==
  \A p \in Procs : At(p, "write") =>
    /\ role[req[p].user] # "SUPER_ADMIN"
    /\ req[p].op = "setRole" => req[p].arg \in InUse \ {"SUPER_ADMIN"}
    /\ req[p].op \in {"setPermission", "clearPermission"} =>
         req[p].arg[1] \in Perms /\ req[p].arg[2] \in Effects

IInv == TypeOK /\ SupersAreSupers /\ WritesAreBelow /\ LadderHolds

=============================================================================
