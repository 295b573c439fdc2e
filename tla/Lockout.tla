------------------------------- MODULE Lockout -------------------------------
(***************************************************************************)
(* services/auth.service.ts, login: the failed-attempt counter of one      *)
(* account and its temporary lock, with logins interleaving at every       *)
(* awaited statement.  What a login does once the password is right        *)
(* (issueSession) is outside this module.                                  *)
(***************************************************************************)
EXTENDS Integers, FiniteSets

CONSTANTS
  Procs,       \* logins in flight at one time
  MaxAttempts, \* MAX_FAILED_LOGIN_ATTEMPTS
  FailedBound  \* bound on the counter

ASSUME LockoutAssumption ==
  /\ IsFiniteSet(Procs)
  /\ MaxAttempts \in Nat \ {0}
  /\ FailedBound \in Nat

VARIABLES
  failed,  \* failedLoginAttempts
  lock,    \* lockedUntil: null, ahead, or past
  strikes, \* history: failures since the counter was reset or a lock ended
  req      \* the login in each slot

vars == <<failed, lock, strikes, req>>

Idle == [pc |-> "idle", seen |-> 0]

Init ==
  /\ failed = 0 /\ lock = "none" /\ strikes = 0
  /\ req = [p \in Procs |-> Idle]

At(p, pc) == req[p].pc = pc
Become(p, r) == req' = [req EXCEPT ![p] = r]
Advance(p, r) == Become(p, r) /\ UNCHANGED <<failed, lock, strikes>>

login(p) == At(p, "idle") /\ Advance(p, [pc |-> "find", seen |-> 0])

\* The one read of the user: the lock is tested, the counter kept for later.
FindUser(p) ==
  /\ At(p, "find")
  /\ Advance(p, IF lock = "locked" THEN Idle ELSE [pc |-> "compare", seen |-> failed])

\* Seeded fault: > for >= in the test against the maximum.
Fault_ComparePassword_OffByOne(p) ==
  /\ At(p, "compare")
  /\ \/ Advance(p, [req[p] EXCEPT !.pc = "reset"])
     \/ Advance(p, [req[p] EXCEPT !.pc =
          IF req[p].seen + 1 > MaxAttempts THEN "lock" ELSE "increment"])

ComparePassword(p) ==
  /\ At(p, "compare")
  /\ \/ Advance(p, [req[p] EXCEPT !.pc = "reset"])
     \/ Advance(p, [req[p] EXCEPT !.pc =
          IF req[p].seen + 1 >= MaxAttempts THEN "lock" ELSE "increment"])

lockAccount(p) ==
  /\ At(p, "lock")
  /\ lock' = "locked"
  /\ Become(p, [req[p] EXCEPT !.pc = "increment"])
  /\ UNCHANGED <<failed, strikes>>

\* { increment: 1 } adds to what the column holds by now.
incrementFailedAttempts(p) ==
  /\ At(p, "increment") /\ failed < FailedBound
  /\ failed' = failed + 1
  /\ strikes' = strikes + 1
  /\ Become(p, Idle)
  /\ UNCHANGED lock

Forget == failed' = 0 /\ lock' = "none" /\ strikes' = 0

resetFailedAttempts(p) == At(p, "reset") /\ Forget /\ Become(p, Idle)

\* A password reset clears the counter and the lock as well.
updatePassword == (failed # 0 \/ lock # "none") /\ Forget /\ UNCHANGED req

\* Nothing is written when ACCOUNT_LOCK_DURATION_MINUTES are over.
LockExpires ==
  /\ lock = "locked" /\ lock' = "expired" /\ strikes' = 0
  /\ UNCHANGED <<failed, req>>

\* A statement fails, or the process ends.
Abort(p) == ~At(p, "idle") /\ Advance(p, Idle)

Next ==
  \/ \E p \in Procs :
       \/ login(p)
       \/ FindUser(p)
       \/ ComparePassword(p)
       \/ lockAccount(p)
       \/ incrementFailedAttempts(p)
       \/ resetFailedAttempts(p)
       \/ Abort(p)
  \/ updatePassword
  \/ LockExpires

Spec == Init /\ [][Next]_vars

-----------------------------------------------------------------------------

TypeOK ==
  /\ failed \in Nat /\ strikes \in Nat
  /\ lock \in {"none", "locked", "expired"}
  /\ req \in [Procs -> [pc : {"idle", "find", "compare", "lock", "increment", "reset"}, seen : Nat]]

\* The failures after which the next failed login locks the account: the code
\* tests attempts + 1 against the maximum, and a lock that is lifted before its
\* own failure has been counted leaves that one behind.
Due == IF MaxAttempts > 1 THEN MaxAttempts - 1 ELSE 1

\* The lock comes in time: an account with no lock set has fewer than Due
\* failures and one for each login in flight - with one login at a time, fewer
\* than a maximum above one.  A login decides by the counter it read before
\* the password was compared, so logins that read it together leave the lock to
\* the next one.
LockInTime == lock = "none" => failed < Due + Cardinality(Procs)

\* The logins that may still add to the counter without locking the account.
Unlocking ==
  {p \in Procs : At(p, "increment") \/ (At(p, "compare") /\ req[p].seen + 1 < MaxAttempts)}

\* Why the lock comes in time: what is left to be added after the counter
\* reaches Due was read before.
LateFailures ==
  lock = "none" =>
    \/ failed < Due
    \/ failed + Cardinality(Unlocking) < Due + Cardinality(Procs)

IInv == TypeOK /\ LateFailures

-----------------------------------------------------------------------------

\* "after MAX_FAILED_LOGIN_ATTEMPTS, account locks": it takes as many failures
\* to lock an account that has served its last lock.
LockNeedsMax ==
  [][lock # "locked" /\ lock' = "locked" => strikes + 1 >= MaxAttempts]_vars

=============================================================================
