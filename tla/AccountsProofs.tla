--------------------------- MODULE AccountsProofs ---------------------------
(***************************************************************************)
(* Accounts, for any number of requests in flight.  The lock of an account *)
(* comes in time: what is added to the counter after it has reached Due is *)
(* added by logins that read it before.  Then the same is done for what    *)
(* MCAccounts composes it with: sessions and their tokens, related         *)
(* accounts, the claims of agents' links, and registration.                *)
(***************************************************************************)
EXTENDS MCAccounts, FiniteSetTheorems, TLAPS

Request ==
  [pc : {"idle", "find", "compare", "lock", "increment", "reset"}, seen : Nat]

LEMMA UnlockingFinite ==
  ASSUME NEW P \in SUBSET Procs
  PROVE  /\ IsFiniteSet(P) /\ Cardinality(P) \in Nat
         /\ Cardinality(P) <= Cardinality(Procs) /\ Cardinality(Procs) \in Nat
BY LockoutAssumption, FS_Subset, FS_CardinalityType

LEMMA DueType == Due \in Nat \ {0} /\ MaxAttempts \in Nat \ {0} /\ Due >= MaxAttempts - 1
BY LockoutAssumption DEF Due

LEMMA InitInv == Init => IInv
<1> SUFFICES ASSUME Init PROVE IInv
  OBVIOUS
<1>1. TypeOK
  BY DEF Init, TypeOK, Idle
<1>2. LateFailures
  BY DueType DEF Init, LateFailures
<1>3. QED
  BY <1>1, <1>2 DEF IInv

\* A step that leaves the counter and the lock alone keeps LateFailures unless
\* a login that read the counter at Due becomes one that may add to it.
LEMMA QuietStep ==
  ASSUME IInv, UNCHANGED <<failed, lock>>, failed < Due \/ Unlocking' \subseteq Unlocking
  PROVE  LateFailures'
<1>1. CASE failed < Due
  BY <1>1 DEF LateFailures
<1>2. CASE Unlocking' \subseteq Unlocking
  <2>1. PICK A \in SUBSET Procs, B \in SUBSET Procs :
          A = Unlocking /\ B = Unlocking' /\ B \subseteq A
    BY <1>2 DEF Unlocking
  <2>2. Cardinality(B) <= Cardinality(A) /\ Cardinality(B) \in Nat /\ Cardinality(A) \in Nat
    BY <2>1, UnlockingFinite, FS_Subset
  <2>3. failed \in Nat /\ Due \in Nat /\ Cardinality(Procs) \in Nat
    BY UnlockingFinite, DueType DEF IInv, TypeOK
  <2>4. QED
    BY <2>1, <2>2, <2>3 DEF IInv, LateFailures
<1>3. QED
  BY <1>1, <1>2

\* A failure that is counted: one login fewer may add to the counter.
LEMMA IncrementStep ==
  ASSUME IInv, NEW p \in Procs, incrementFailedAttempts(p)
  PROVE  LateFailures'
<1>1. req \in [Procs -> Request] /\ failed \in Nat /\ Due \in Nat \ {0}
  BY DueType DEF IInv, TypeOK, Request
<1>2. failed' = failed + 1 /\ lock' = lock /\ req' = [req EXCEPT ![p] = Idle]
  BY DEF incrementFailedAttempts, Become
<1>3. PICK A \in SUBSET Procs, B \in SUBSET Procs : A = Unlocking /\ B = Unlocking'
  BY DEF Unlocking
<1>4. p \in A
  BY <1>3 DEF Unlocking, incrementFailedAttempts
<1>5. B = A \ {p}
  <2>1. ~At(p, "increment")' /\ ~At(p, "compare")'
    BY <1>1, <1>2 DEF At, Idle
  <2>2. \A q \in Procs \ {p} : req'[q] = req[q]
    BY <1>1, <1>2
  <2>3. QED
    BY <1>3, <2>1, <2>2 DEF Unlocking, At
<1>6. /\ Cardinality(B) = Cardinality(A) - 1 /\ Cardinality(A) \in Nat
      /\ Cardinality(A) <= Cardinality(Procs) /\ Cardinality(Procs) \in Nat
  BY <1>4, <1>5, UnlockingFinite, FS_RemoveElement
<1>7. CASE failed + 1 < Due
  BY <1>2, <1>7 DEF LateFailures
<1>8. CASE failed + 1 = Due
  BY <1>1, <1>2, <1>3, <1>6, <1>8 DEF LateFailures
<1>9. CASE failed + 1 > Due
  BY <1>1, <1>2, <1>3, <1>6, <1>9 DEF IInv, LateFailures
<1>10. QED
  BY <1>1, <1>7, <1>8, <1>9

\* What one login's record may become without joining those that may add.
LEMMA UnlockingShrinks ==
  ASSUME TypeOK, NEW p \in Procs, NEW r \in Request, req' = [req EXCEPT ![p] = r],
         \/ r.pc \notin {"increment", "compare"}
         \/ r.pc = "increment" /\ p \in Unlocking
         \/ r.pc = "compare" /\ ~(r.seen + 1 < MaxAttempts)
  PROVE  Unlocking' \subseteq Unlocking
<1>1. req'[p] = r /\ \A q \in Procs \ {p} : req'[q] = req[q]
  BY DEF TypeOK
<1>2. QED
  BY <1>1 DEF Unlocking, At

LEMMA StepInv == IInv /\ [Next]_vars => IInv'
<1> SUFFICES ASSUME IInv, [Next]_vars PROVE IInv'
  OBVIOUS
<1>0. /\ TypeOK /\ req \in [Procs -> Request]
      /\ failed \in Nat /\ strikes \in Nat /\ lock \in {"none", "locked", "expired"}
      /\ Due \in Nat \ {0} /\ MaxAttempts \in Nat \ {0} /\ Due >= MaxAttempts - 1 /\ Idle \in Request
  BY DueType DEF IInv, TypeOK, Request, Idle
<1>1. ASSUME NEW p \in Procs, NEW r \in Request, Advance(p, r),
             \/ failed < Due
             \/ r.pc \notin {"increment", "compare"}
             \/ r.pc = "increment" /\ p \in Unlocking
             \/ r.pc = "compare" /\ ~(r.seen + 1 < MaxAttempts)
      PROVE  IInv'
  <2>1. UNCHANGED <<failed, lock, strikes>> /\ req' = [req EXCEPT ![p] = r]
    BY <1>1 DEF Advance, Become
  <2>2. TypeOK'
    BY <1>0, <2>1 DEF TypeOK, Request
  <2>3. LateFailures'
    BY <1>0, <1>1, <2>1, QuietStep, UnlockingShrinks
  <2>4. QED
    BY <2>2, <2>3 DEF IInv
<1>2. ASSUME NEW p \in Procs, login(p) \/ Abort(p) PROVE IInv'
  <2>1. PICK r \in Request : Advance(p, r) /\ r.pc \notin {"increment", "compare"}
    BY <1>2, <1>0 DEF login, Abort, Idle, Request
  <2>2. QED
    BY <1>1, <2>1
<1>3. ASSUME NEW p \in Procs, FindUser(p) PROVE IInv'
  <2>1. CASE lock = "locked"
    <3>1. Advance(p, Idle) /\ Idle.pc \notin {"increment", "compare"}
      BY <1>3, <2>1 DEF FindUser, Idle
    <3>2. QED
      BY <1>0, <1>1, <3>1
  <2>2. CASE lock # "locked"
    <3>1. PICK r \in Request : Advance(p, r) /\ r.pc = "compare" /\ r.seen = failed
      BY <1>0, <1>3, <2>2 DEF FindUser, Request
    <3>2. failed < Due \/ ~(r.seen + 1 < MaxAttempts)
      BY <1>0, <3>1
    <3>3. QED
      BY <1>1, <3>1, <3>2
  <2>3. QED
    BY <2>1, <2>2
<1>4. ASSUME NEW p \in Procs, ComparePassword(p) PROVE IInv'
  <2>1. At(p, "compare") /\ req[p].seen \in Nat
    BY <1>0, <1>4 DEF ComparePassword, Request
  <2>2. PICK r \in Request :
          /\ Advance(p, r) /\ r.pc \in {"reset", "lock", "increment"}
          /\ r.pc = "increment" => req[p].seen + 1 < MaxAttempts
    BY <1>0, <1>4, <2>1 DEF ComparePassword, Request
  <2>3. r.pc = "increment" => p \in Unlocking
    BY <2>1, <2>2 DEF Unlocking
  <2>4. QED
    BY <1>1, <2>2, <2>3
<1>5. ASSUME NEW p \in Procs, lockAccount(p) PROVE IInv'
  <2>1. PICK r \in Request : r = [req[p] EXCEPT !.pc = "increment"]
    BY <1>0 DEF Request
  <2>2. lock' = "locked" /\ UNCHANGED <<failed, strikes>> /\ req' = [req EXCEPT ![p] = r]
    BY <1>5, <2>1 DEF lockAccount, Become
  <2>3. QED
    BY <1>0, <2>2 DEF IInv, TypeOK, LateFailures, Request
<1>6. ASSUME NEW p \in Procs, incrementFailedAttempts(p) PROVE IInv'
  <2>1. TypeOK'
    BY <1>0, <1>6 DEF incrementFailedAttempts, Become, TypeOK, Request
  <2>2. QED
    BY <1>6, <2>1, IncrementStep DEF IInv
<1>7. CASE updatePassword \/ \E p \in Procs : resetFailedAttempts(p)
  <2>1. Forget /\ req' \in [Procs -> Request]
    BY <1>0, <1>7 DEF updatePassword, resetFailedAttempts, Become
  <2>2. QED
    BY <1>0, <2>1 DEF Forget, IInv, TypeOK, LateFailures, Request
<1>8. CASE LockExpires
  BY <1>0, <1>8 DEF LockExpires, IInv, TypeOK, LateFailures, Request
<1>9. CASE UNCHANGED vars
  <2>1. UNCHANGED <<failed, lock, strikes, req, Unlocking>>
    BY <1>9 DEF vars, Unlocking, At
  <2>2. QED
    BY <1>0, <2>1, QuietStep DEF IInv, TypeOK
<1>10. QED
  BY <1>2, <1>3, <1>4, <1>5, <1>6, <1>7, <1>8, <1>9 DEF Next

\* The bookkeeping of failed logins: well typed, and no more failures are left
\* to be counted from Due on than logins were in flight when it was reached.
THEOREM Invariance == Spec => []IInv
<1>1. QED
  BY InitInv, StepInv, PTL DEF Spec

\* An account with Due failures and as many as there are logins in flight is
\* locked, or its lock has run out.
THEOREM LockComesInTime == Spec => []LockInTime
<1>1. IInv => LockInTime
  <2> SUFFICES ASSUME IInv, lock = "none" PROVE failed < Due + Cardinality(Procs)
    BY DEF LockInTime
  <2>1. PICK A \in SUBSET Procs : A = Unlocking
    BY DEF Unlocking
  <2>2. /\ Cardinality(A) \in Nat /\ Cardinality(Procs) \in Nat
        /\ failed \in Nat /\ Due \in Nat
    BY UnlockingFinite, DueType DEF IInv, TypeOK
  <2>3. CASE failed < Due \/ failed + Cardinality(A) < Due + Cardinality(Procs)
    BY <2>2, <2>3
  <2>4. QED
    BY <2>1, <2>3 DEF IInv, LateFailures
<1>2. QED
  BY <1>1, Invariance, PTL

-----------------------------------------------------------------------------
\* What the proofs use of finite sets.
LEMMA Counting ==
  /\ \A A : IsFiniteSet(A) => Cardinality(A) \in Nat
  /\ \A A : IsFiniteSet(A) => \A B \in SUBSET A : IsFiniteSet(B) /\ Cardinality(B) <= Cardinality(A)
  /\ \A A, x : IsFiniteSet(A) /\ x \notin A =>
       IsFiniteSet(A \union {x}) /\ Cardinality(A \union {x}) = Cardinality(A) + 1
  /\ \A A, x : IsFiniteSet(A) /\ x \in A =>
       IsFiniteSet(A \ {x}) /\ Cardinality(A \ {x}) = Cardinality(A) - 1
  /\ IsFiniteSet({}) /\ Cardinality({}) = 0
  /\ \A a, b \in Int : IsFiniteSet(a..b)
BY FS_CardinalityType, FS_Subset, FS_AddElement, FS_RemoveElement, FS_EmptySet, FS_Interval

-----------------------------------------------------------------------------
(* Sessions: their tokens, and the reset of the password behind them.      *)

SessionRequest == [pc : S!Points, tok : Tokens \cup {0}, sess : Ids \cup {0},
            link : ResetLinks \cup {NoLink}, password : Nat, late : BOOLEAN]
SessionToken == [state : {"none", "live", "revoked", "gone"}, sess : Ids \cup {0},
          password : Nat, late : BOOLEAN, child : BOOLEAN, lost : BOOLEAN]

LEMMA SessionsInit ==
  ASSUME S!SessionsAssumption, S!Init PROVE S!IInv
<1>1. /\ \A p \in Requests : requests[p] = S!Idle /\ requests[p].pc = "idle"
      /\ \A t \in Tokens : token[t] = S!NoToken /\ token[t].state = "none"
      /\ \A s \in Ids : session[s] = "none"
  BY DEF S!Init, S!Idle, S!NoToken
<1>2. S!TypeOK
  BY DEF S!Init, S!TypeOK, S!Idle, S!NoToken, S!Points
<1>3. S!Held /\ S!OldPasswordOut /\ S!OldRequestsOut /\ S!RotatedOnce /\ S!Sealing
  BY <1>1 DEF S!Held, S!At, S!OldPasswordOut, S!OldRequestsOut, S!PastCheck, S!RotatedOnce, S!Sealing
<1>4. QED
  BY <1>2, <1>3 DEF S!IInv

\* The same of what Sessions counts with.
LEMMA SessionsCounting ==
  /\ \A A : S!IsFiniteSet(A) => S!Cardinality(A) \in Nat
  /\ \A A : S!IsFiniteSet(A) => \A B \in SUBSET A : S!IsFiniteSet(B) /\ S!Cardinality(B) <= S!Cardinality(A)
  /\ \A A, x : S!IsFiniteSet(A) /\ x \notin A =>
       S!IsFiniteSet(A \union {x}) /\ S!Cardinality(A \union {x}) = S!Cardinality(A) + 1
  /\ \A A, x : S!IsFiniteSet(A) /\ x \in A =>
       S!IsFiniteSet(A \ {x}) /\ S!Cardinality(A \ {x}) = S!Cardinality(A) - 1
  /\ S!IsFiniteSet({}) /\ S!Cardinality({}) = 0
  /\ \A a, b \in Int : S!IsFiniteSet(a..b)
<1>1. \A A : S!IsFiniteSet(A) <=> IsFiniteSet(A)
  BY DEF S!IsFiniteSet, IsFiniteSet
<1>2. \A A : S!Cardinality(A) = Cardinality(A)
  BY DEF S!Cardinality, Cardinality
<1>3. QED
  BY <1>1, <1>2, Counting

\* Finite sets, counted.
LEMMA SessionCrowd ==
  ASSUME S!SessionsAssumption, NEW s
  PROVE  /\ S!IsFiniteSet(S!TokensOf(s)) /\ S!Cardinality(S!TokensOf(s)) \in Nat
         /\ S!IsFiniteSet(S!Minting(s)) /\ S!Cardinality(S!Minting(s)) \in Nat
         /\ S!IsFiniteSet(S!TokensOf(s)') /\ S!Cardinality(S!TokensOf(s)') \in Nat
         /\ S!IsFiniteSet(S!Minting(s)') /\ S!Cardinality(S!Minting(s)') \in Nat
         /\ \A A \in SUBSET Requests : \A B \in SUBSET A : S!Cardinality(B) <= S!Cardinality(A)
         /\ \A A \in SUBSET Tokens : \A B \in SUBSET A : S!Cardinality(B) <= S!Cardinality(A)
<1>1. \A A \in SUBSET Requests : S!IsFiniteSet(A) /\ S!Cardinality(A) \in Nat
      /\ \A B \in SUBSET A : S!Cardinality(B) <= S!Cardinality(A)
  BY SessionsCounting DEF S!SessionsAssumption
<1>2. \A A \in SUBSET Tokens : S!IsFiniteSet(A) /\ S!Cardinality(A) \in Nat
      /\ \A B \in SUBSET A : S!Cardinality(B) <= S!Cardinality(A)
  BY SessionsCounting DEF S!SessionsAssumption
<1>3. /\ S!TokensOf(s) \in SUBSET Tokens /\ S!TokensOf(s)' \in SUBSET Tokens
      /\ S!Minting(s) \in SUBSET Requests /\ S!Minting(s)' \in SUBSET Requests
  BY DEF S!TokensOf, S!Minting
<1>4. QED
  BY <1>1, <1>2, <1>3

\* A step of a request that touches no table and no history.
LEMMA QuietRequest ==
  ASSUME S!SessionsAssumption, S!IInv, NEW p \in Requests, NEW r \in SessionRequest,
         requests' = [requests EXCEPT ![p] = r],
         UNCHANGED <<password, session, token, link, S!history>>,
         ~S!Resetting(requests[p]), ~S!At(p, "rotate"),
         r.pc \in {"updatePassword", "markUsed"} => r.link \in ResetLinks,
         r.pc \in {"session", "mint"} => S!Opened(r.sess),
         r.pc = "mint" => session[r.sess] = "live",
         S!PastCheck(r) /\ r.password < password =>
           r.late \/ owed \/ \E q \in Requests : S!Resetting(requests[q])
  PROVE  S!IInv'
<1>1. /\ requests'[p] = r /\ \A q \in Requests \ {p} : requests'[q] = requests[q]
      /\ requests' \in [Requests -> SessionRequest]
      /\ password' = password /\ session' = session /\ token' = token /\ link' = link
      /\ owed' = owed /\ sealed' = sealed
  BY DEF S!IInv, S!TypeOK, SessionRequest, S!history
<1>2. S!TypeOK'
  BY <1>1 DEF S!IInv, S!TypeOK, SessionRequest
<1>3. S!Held'
  BY <1>1 DEF S!IInv, S!Held, S!At, S!Opened
<1>4. (\E q \in Requests : S!Resetting(requests[q])) => \E q \in Requests : S!Resetting(requests'[q])
  BY <1>1
<1>5. S!OldPasswordOut' /\ S!OldRequestsOut'
  BY <1>1, <1>4 DEF S!IInv, S!OldPasswordOut, S!OldRequestsOut
<1>6. S!RotatedOnce'
  BY <1>1 DEF S!IInv, S!RotatedOnce, S!At
<1>7. S!Sealing'
  <2> SUFFICES ASSUME NEW s \in Ids, session'[s] = "ended"
               PROVE  S!Cardinality(S!TokensOf(s)') + S!Cardinality(S!Minting(s)') <= sealed'[s]
    BY DEF S!Sealing
  <2>1. S!TokensOf(s)' = S!TokensOf(s) /\ S!Minting(s)' \subseteq S!Minting(s)
    BY <1>1 DEF S!TokensOf, S!Minting, S!At
  <2>2. S!Cardinality(S!Minting(s)') <= S!Cardinality(S!Minting(s))
    <3>1. S!Minting(s) \in SUBSET Requests
      BY DEF S!Minting
    <3>2. QED
      BY <2>1, <3>1, SessionCrowd
  <2>3. /\ S!Cardinality(S!TokensOf(s)) + S!Cardinality(S!Minting(s)) <= sealed[s]
        /\ sealed'[s] = sealed[s] /\ sealed[s] \in Nat
    BY <1>1 DEF S!IInv, S!Sealing, S!TypeOK
  <2>4. QED
    BY <2>1, <2>2, <2>3, SessionCrowd
<1>8. QED
  BY <1>2, <1>3, <1>5, <1>6, <1>7 DEF S!IInv

\* login, resetPassword, rotate and FindSession.
LEMMA QuietSteps ==
  ASSUME S!SessionsAssumption, S!IInv, NEW p \in Requests,
         \/ S!login(p)
         \/ \E l \in ResetLinks : S!resetPassword(p, l)
         \/ \E t \in Tokens : S!rotate(p, t)
         \/ S!FindSession(p)
  PROVE  S!IInv'
<1> USE DEF S!Become, S!Go
<1>1. requests[p] \in SessionRequest /\ password \in Nat /\ S!Idle \in SessionRequest
  BY DEF S!IInv, S!TypeOK, SessionRequest, S!Idle, S!Points
<1>2. CASE S!login(p)
  <2> DEFINE r == [S!Idle EXCEPT !.pc = "create", !.password = password]
  <2>1. r \in SessionRequest /\ r.pc = "create" /\ r.password = password
    BY <1>1 DEF S!Idle, SessionRequest, S!Points
  <2>2. requests' = [requests EXCEPT ![p] = r] /\ UNCHANGED <<password, session, token, link, S!history>>
        /\ ~S!Resetting(requests[p]) /\ ~S!At(p, "rotate")
    BY <1>2 DEF S!login, S!At, S!Resetting
  <2> HIDE DEF r
  <2>3. ~(r.password < password)
    BY <1>1, <2>1
  <2>4. QED
    BY <2>1, <2>2, <2>3, QuietRequest
<1>3. ASSUME NEW l \in ResetLinks, S!resetPassword(p, l) PROVE S!IInv'
  <2> DEFINE r == [S!Idle EXCEPT !.pc = "updatePassword", !.link = l]
  <2>1. r \in SessionRequest /\ r.pc = "updatePassword" /\ r.link = l
    BY <1>1 DEF S!Idle, SessionRequest, S!Points
  <2>2. requests' = [requests EXCEPT ![p] = r] /\ UNCHANGED <<password, session, token, link, S!history>>
        /\ ~S!Resetting(requests[p]) /\ ~S!At(p, "rotate")
    BY <1>3 DEF S!resetPassword, S!At, S!Resetting
  <2> HIDE DEF r
  <2>3. QED
    BY <1>1, <2>1, <2>2, QuietRequest DEF S!PastCheck
<1>4. ASSUME NEW t \in Tokens, S!rotate(p, t) PROVE S!IInv'
  <2>0. token[t] \in SessionToken /\ ~S!Resetting(requests[p]) /\ ~S!At(p, "rotate")
    BY <1>4 DEF S!IInv, S!TypeOK, SessionToken, S!rotate, S!At, S!Resetting
  <2>1. CASE token[t].state = "live"
    <3> DEFINE r == [S!Idle EXCEPT !.pc = "session", !.tok = t, !.sess = token[t].sess,
                                 !.password = token[t].password, !.late = token[t].late]
    <3>1. r \in SessionRequest /\ r.pc = "session" /\ r.sess = token[t].sess
          /\ r.password = token[t].password /\ r.late = token[t].late
      BY <1>1, <2>0 DEF S!Idle, SessionRequest, SessionToken, S!Points
    <3>2. requests' = [requests EXCEPT ![p] = r] /\ UNCHANGED <<password, session, token, link, S!history>>
      BY <1>4, <2>1 DEF S!rotate
    <3>3. S!Opened(token[t].sess)
      BY <2>1 DEF S!IInv, S!Held
    <3>4. token[t].password < password =>
            token[t].late \/ owed \/ \E q \in Requests : S!Resetting(requests[q])
      BY <2>1 DEF S!IInv, S!OldPasswordOut
    <3> HIDE DEF r
    <3>5. QED
      BY <2>0, <3>1, <3>2, <3>3, <3>4, QuietRequest
  <2>2. CASE token[t].state # "live"
    <3> DEFINE r == [S!Idle EXCEPT !.pc = "revokeAll"]
    <3>1. r \in SessionRequest /\ r.pc = "revokeAll"
      BY <1>1 DEF S!Idle, SessionRequest, S!Points
    <3>2. requests' = [requests EXCEPT ![p] = r] /\ UNCHANGED <<password, session, token, link, S!history>>
      BY <1>4, <2>2 DEF S!rotate
    <3> HIDE DEF r
    <3>3. QED
      BY <2>0, <3>1, <3>2, QuietRequest DEF S!PastCheck
  <2>3. QED
    BY <2>1, <2>2
<1>5. CASE S!FindSession(p)
  <2>0. ~S!Resetting(requests[p]) /\ ~S!At(p, "rotate") /\ requests[p].pc = "session" /\ S!Opened(requests[p].sess)
    BY <1>5 DEF S!IInv, S!Held, S!FindSession, S!At, S!Resetting
  <2>1. CASE session[requests[p].sess] = "live"
    <3> DEFINE r == [requests[p] EXCEPT !.pc = "mint"]
    <3>1. r \in SessionRequest /\ r.pc = "mint" /\ r.sess = requests[p].sess
          /\ r.password = requests[p].password /\ r.late = requests[p].late
      BY <1>1 DEF SessionRequest, S!Points
    <3>2. requests' = [requests EXCEPT ![p] = r] /\ UNCHANGED <<password, session, token, link, S!history>>
      BY <1>5, <2>1 DEF S!FindSession
    <3>3. requests[p].password < password => requests[p].late \/ owed \/ \E q \in Requests : S!Resetting(requests[q])
      BY <2>0 DEF S!IInv, S!OldRequestsOut, S!PastCheck
    <3> HIDE DEF r
    <3>4. QED
      BY <2>0, <2>1, <3>1, <3>2, <3>3, QuietRequest
  <2>2. CASE session[requests[p].sess] # "live"
    <3>1. requests' = [requests EXCEPT ![p] = S!Idle] /\ UNCHANGED <<password, session, token, link, S!history>>
      BY <1>5, <2>2 DEF S!FindSession
    <3>2. S!Idle.pc = "idle"
      BY DEF S!Idle
    <3>3. QED
      BY <1>1, <2>0, <3>1, <3>2, QuietRequest DEF S!PastCheck
  <2>3. QED
    BY <2>1, <2>2
<1>6. QED
  BY <1>2, <1>3, <1>4, <1>5

\* The reset of the password: it outdates what is live, and is on its way.
LEMMA ResetSteps ==
  ASSUME S!SessionsAssumption, S!IInv, NEW p \in Requests,
         S!updatePassword(p) \/ S!markPasswordResetTokenUsed(p)
  PROVE  S!IInv'
<1>1. /\ requests[p] \in SessionRequest /\ password \in Nat /\ requests[p].link \in ResetLinks
      /\ requests[p].pc \in {"updatePassword", "markUsed"} /\ NoLink \notin ResetLinks
  BY DEF S!IInv, S!TypeOK, SessionRequest, S!Held, S!At, S!updatePassword, S!markPasswordResetTokenUsed, S!SessionsAssumption
<1>2. PICK r \in SessionRequest : /\ requests' = [requests EXCEPT ![p] = r] /\ r.link = requests[p].link
                                  /\ r.pc \in {"markUsed", "revokeAll"}
                                  /\ r.pc = "markUsed" => password' = password + 1
                                  /\ r.pc = "revokeAll" => password' = password
  <2>1. CASE S!updatePassword(p)
    <3> DEFINE r == [requests[p] EXCEPT !.pc = "markUsed"]
    <3>1. r \in SessionRequest /\ r.pc = "markUsed" /\ r.link = requests[p].link
      BY <1>1 DEF SessionRequest, S!Points
    <3>2. QED
      BY <2>1, <3>1 DEF S!updatePassword, S!Go, S!Become
  <2>2. CASE S!markPasswordResetTokenUsed(p)
    <3> DEFINE r == [requests[p] EXCEPT !.pc = "revokeAll"]
    <3>1. r \in SessionRequest /\ r.pc = "revokeAll" /\ r.link = requests[p].link
      BY <1>1 DEF SessionRequest, S!Points
    <3>2. QED
      BY <2>2, <3>1 DEF S!markPasswordResetTokenUsed, S!Go, S!Become
  <2>3. QED
    BY <2>1, <2>2
<1>3. UNCHANGED <<session, token, S!history>>
      /\ link' \in [ResetLinks -> {"none", "open", "used", "expired"}]
  BY DEF S!updatePassword, S!markPasswordResetTokenUsed, S!IInv, S!TypeOK
<1>4. /\ requests'[p] = r /\ \A q \in Requests \ {p} : requests'[q] = requests[q]
      /\ requests' \in [Requests -> SessionRequest] /\ password' \in Nat
  BY <1>1, <1>2 DEF S!IInv, S!TypeOK, SessionRequest
<1>5. S!Resetting(requests'[p])
  BY <1>1, <1>2, <1>4 DEF S!Resetting
<1>6. S!TypeOK'
  BY <1>3, <1>4 DEF S!IInv, S!TypeOK, SessionRequest, S!history
<1>7. S!Held'
  BY <1>1, <1>2, <1>3, <1>4 DEF S!IInv, S!Held, S!At, S!Opened
<1>8. S!OldPasswordOut' /\ S!OldRequestsOut'
  BY <1>5 DEF S!OldPasswordOut, S!OldRequestsOut
<1>9. S!RotatedOnce'
  BY <1>1, <1>3, <1>4 DEF S!IInv, S!RotatedOnce, S!At
<1>10. S!Sealing'
  <2>1. \A s \in Ids : S!TokensOf(s)' = S!TokensOf(s) /\ S!Minting(s)' = S!Minting(s)
    BY <1>1, <1>2, <1>3, <1>4 DEF S!TokensOf, S!Minting, S!At
  <2>2. QED
    BY <1>3, <2>1 DEF S!IInv, S!Sealing, S!history
<1>11. QED
  BY <1>6, <1>7, <1>8, <1>9, <1>10 DEF S!IInv

\* createSession opens a session that nothing refers to yet.
LEMMA CreateStep ==
  ASSUME S!SessionsAssumption, S!IInv, NEW p \in Requests, S!createSession(p)
  PROVE  S!IInv'
<1>1. PICK s \in Ids : /\ session[s] = "none" /\ session' = [session EXCEPT ![s] = "live"]
                       /\ requests' = [requests EXCEPT ![p] = [requests[p] EXCEPT !.pc = "mint", !.sess = s]]
  BY DEF S!createSession, S!Become
<1>2. requests[p] \in SessionRequest /\ requests[p].pc = "create" /\ UNCHANGED <<password, token, link, S!history>>
  BY DEF S!createSession, S!At, S!IInv, S!TypeOK, SessionRequest
<1>3. PICK r \in SessionRequest : /\ requests' = [requests EXCEPT ![p] = r] /\ r.pc = "mint" /\ r.sess = s
                                  /\ r.password = requests[p].password /\ r.late = requests[p].late
  <2> DEFINE r == [requests[p] EXCEPT !.pc = "mint", !.sess = s]
  <2>1. r \in SessionRequest /\ r.pc = "mint" /\ r.sess = s
        /\ r.password = requests[p].password /\ r.late = requests[p].late
    BY <1>2 DEF SessionRequest, S!Points
  <2>2. QED
    BY <1>1, <2>1
<1>4. /\ requests'[p] = r /\ \A q \in Requests \ {p} : requests'[q] = requests[q]
      /\ requests' \in [Requests -> SessionRequest]
      /\ session' \in [Ids -> {"none", "live", "ended"}]
      /\ session'[s] = "live" /\ \A i \in Ids \ {s} : session'[i] = session[i]
  BY <1>1, <1>3 DEF S!IInv, S!TypeOK, SessionRequest
<1>5. S!TypeOK'
  BY <1>2, <1>4 DEF S!IInv, S!TypeOK, SessionRequest, S!history
<1>6. S!Held'
  <2>1. \A i : S!Opened(i) => S!Opened(i)'
    BY <1>4 DEF S!Opened
  <2>2. S!Opened(s)'
    BY <1>4 DEF S!Opened
  <2>3. QED
    BY <1>2, <1>3, <1>4, <2>1, <2>2 DEF S!IInv, S!Held, S!At
<1>7. S!OldPasswordOut' /\ S!OldRequestsOut'
  <2>1. ~S!Resetting(requests[p]) /\ S!PastCheck(requests[p])
    BY <1>2 DEF S!Resetting, S!PastCheck
  <2>2. (\E q \in Requests : S!Resetting(requests[q])) => \E q \in Requests : S!Resetting(requests'[q])
    BY <1>4, <2>1
  <2>3. QED
    BY <1>2, <1>3, <1>4, <2>1, <2>2 DEF S!IInv, S!OldPasswordOut, S!OldRequestsOut, S!history
<1>8. S!RotatedOnce'
  BY <1>2, <1>4 DEF S!IInv, S!RotatedOnce, S!At
<1>9. S!Sealing'
  <2> SUFFICES ASSUME NEW i \in Ids, session'[i] = "ended"
               PROVE  S!Cardinality(S!TokensOf(i)') + S!Cardinality(S!Minting(i)') <= sealed'[i]
    BY DEF S!Sealing
  <2>1. i # s /\ session[i] = "ended"
    BY <1>4
  <2>2. S!TokensOf(i)' = S!TokensOf(i) /\ S!Minting(i)' = S!Minting(i)
    BY <1>2, <1>3, <1>4, <2>1 DEF S!TokensOf, S!Minting, S!At
  <2>3. QED
    BY <1>2, <2>1, <2>2 DEF S!IInv, S!Sealing, S!history
<1>10. QED
  BY <1>5, <1>6, <1>7, <1>8, <1>9 DEF S!IInv

\* A token is minted for the session of its request, which takes its place.
LEMMA MintStep ==
  ASSUME S!SessionsAssumption, S!IInv, NEW p \in Requests, S!mintTokenPair(p)
  PROVE  S!IInv'
<1>1. /\ requests[p] \in SessionRequest /\ requests[p].pc = "mint" /\ S!Opened(requests[p].sess) /\ requests[p].sess \in Ids
      /\ UNCHANGED <<password, session, link, S!history>>
      /\ 0 \notin Tokens
  BY DEF S!mintTokenPair, S!At, S!IInv, S!TypeOK, S!Held, S!Opened, SessionRequest, S!SessionsAssumption
<1>2. PICK t \in Tokens : /\ token[t].state = "none"
        /\ token' = [i \in Tokens |->
            IF i = t THEN [S!NoToken EXCEPT !.state = "live", !.sess = requests[p].sess,
                             !.password = requests[p].password, !.late = requests[p].late]
            ELSE IF i = requests[p].tok /\ token[i].state = "live" THEN [token[i] EXCEPT !.child = TRUE]
            ELSE token[i]]
  BY DEF S!mintTokenPair
<1>3. /\ token'[t].state = "live" /\ token'[t].sess = requests[p].sess
      /\ token'[t].password = requests[p].password /\ token'[t].late = requests[p].late
      /\ token'[t].child = FALSE /\ token'[t] \in SessionToken
  <2> DEFINE n == [S!NoToken EXCEPT !.state = "live", !.sess = requests[p].sess,
                     !.password = requests[p].password, !.late = requests[p].late]
  <2>1. /\ n \in SessionToken /\ n.state = "live" /\ n.sess = requests[p].sess
        /\ n.password = requests[p].password /\ n.late = requests[p].late /\ n.child = FALSE
    BY <1>1 DEF S!NoToken, SessionToken, SessionRequest
  <2>2. token'[t] = n
    BY <1>2
  <2> HIDE DEF n
  <2>3. QED
    BY <2>1, <2>2
<1>4. \A i \in Tokens \ {t} :
        /\ token'[i] \in SessionToken
        /\ token'[i].state = token[i].state /\ token'[i].sess = token[i].sess
        /\ token'[i].password = token[i].password /\ token'[i].late = token[i].late
        /\ token'[i].lost = token[i].lost
        /\ token'[i].child => token[i].child \/ i = requests[p].tok
  <2> SUFFICES ASSUME NEW i \in Tokens \ {t}
               PROVE  /\ token'[i] \in SessionToken
                      /\ token'[i].state = token[i].state /\ token'[i].sess = token[i].sess
                      /\ token'[i].password = token[i].password /\ token'[i].late = token[i].late
                      /\ token'[i].lost = token[i].lost
                      /\ token'[i].child => token[i].child \/ i = requests[p].tok
    OBVIOUS
  <2>1. token[i] \in SessionToken
    BY DEF S!IInv, S!TypeOK, SessionToken
  <2>2. CASE i = requests[p].tok /\ token[i].state = "live"
    <3>1. token'[i] = [token[i] EXCEPT !.child = TRUE]
      BY <1>2, <2>2
    <3>2. QED
      BY <2>1, <2>2, <3>1 DEF SessionToken
  <2>3. CASE ~(i = requests[p].tok /\ token[i].state = "live")
    <3>1. token'[i] = token[i]
      BY <1>2, <2>3
    <3>2. QED
      BY <2>1, <3>1
  <2>4. QED
    BY <2>2, <2>3
<1>5. PICK r \in SessionRequest : /\ requests' = [requests EXCEPT ![p] = r]
                                  /\ r.pc \in {"idle", "rotate"} /\ r.tok = requests[p].tok
                                  /\ r.pc = "idle" => r.tok = 0
  <2>1. CASE requests[p].tok = 0
    <3>1. S!Idle \in SessionRequest /\ S!Idle.pc = "idle" /\ S!Idle.tok = 0
      BY DEF S!Idle, SessionRequest, S!Points, S!IInv, S!TypeOK
    <3>2. QED
      BY <2>1, <3>1 DEF S!mintTokenPair, S!Become
  <2>2. CASE requests[p].tok # 0
    <3> DEFINE r == [S!Idle EXCEPT !.pc = "rotate", !.tok = requests[p].tok]
    <3>1. r \in SessionRequest /\ r.pc = "rotate" /\ r.tok = requests[p].tok
      BY <1>1 DEF S!Idle, SessionRequest, S!Points, S!IInv, S!TypeOK
    <3>2. QED
      BY <2>2, <3>1 DEF S!mintTokenPair, S!Become
  <2>3. QED
    BY <2>1, <2>2
<1>6. /\ requests'[p] = r /\ \A q \in Requests \ {p} : requests'[q] = requests[q]
      /\ requests' \in [Requests -> SessionRequest]
      /\ token' \in [Tokens -> SessionToken]
  <2>1. token' \in [Tokens -> SessionToken]
    BY <1>2, <1>3, <1>4
  <2>2. QED
    BY <1>5, <2>1 DEF S!IInv, S!TypeOK, SessionRequest
<1>7. S!TypeOK'
  BY <1>1, <1>6 DEF S!IInv, S!TypeOK, SessionRequest, SessionToken, S!history
<1>8. S!Held'
  <2>1. \A i : S!Opened(i)' <=> S!Opened(i)
    BY <1>1 DEF S!Opened
  <2>2. QED
    BY <1>1, <1>3, <1>4, <1>5, <1>6, <2>1 DEF S!IInv, S!Held, S!At
<1>9. S!OldPasswordOut' /\ S!OldRequestsOut'
  <2>1. ~S!Resetting(requests[p]) /\ S!PastCheck(requests[p]) /\ ~S!PastCheck(r)
    BY <1>1, <1>5 DEF S!Resetting, S!PastCheck
  <2>2. (\E q \in Requests : S!Resetting(requests[q])) => \E q \in Requests : S!Resetting(requests'[q])
    BY <1>6, <2>1
  <2>3. requests[p].password < password =>
          requests[p].late \/ owed \/ \E q \in Requests : S!Resetting(requests[q])
    BY <2>1 DEF S!IInv, S!OldRequestsOut
  <2>4. S!OldPasswordOut'
    BY <1>1, <1>3, <1>4, <2>2, <2>3 DEF S!IInv, S!OldPasswordOut, S!history
  <2>5. S!OldRequestsOut'
    BY <1>1, <1>6, <2>1, <2>2 DEF S!IInv, S!OldRequestsOut, S!history
  <2>6. QED
    BY <2>4, <2>5
<1>10. S!RotatedOnce'
  <2> SUFFICES ASSUME NEW i \in Tokens, token'[i].state = "live", token'[i].child
               PROVE  token'[i].lost \/ \E q \in Requests : requests'[q].pc = "rotate" /\ requests'[q].tok = i
    BY DEF S!RotatedOnce, S!At
  <2>1. i # t /\ token[i].state = "live"
    BY <1>3, <1>4
  <2>2. CASE i = requests[p].tok
    BY <1>1, <1>5, <1>6, <2>2
  <2>3. CASE token[i].child
    BY <1>1, <1>4, <1>6, <2>1, <2>3 DEF S!IInv, S!RotatedOnce, S!At
  <2>4. QED
    BY <1>4, <2>1, <2>2, <2>3
<1>11. S!Sealing'
  <2> SUFFICES ASSUME NEW s \in Ids, session'[s] = "ended"
               PROVE  S!Cardinality(S!TokensOf(s)') + S!Cardinality(S!Minting(s)') <= sealed'[s]
    BY DEF S!Sealing
  <2>1. /\ S!Cardinality(S!TokensOf(s)) + S!Cardinality(S!Minting(s)) <= sealed[s]
        /\ sealed'[s] = sealed[s] /\ sealed[s] \in Nat
    BY <1>1 DEF S!IInv, S!Sealing, S!TypeOK, S!history
  <2>2. CASE s = requests[p].sess
    <3>1. S!TokensOf(s)' = S!TokensOf(s) \union {t} /\ t \notin S!TokensOf(s)
      BY <1>2, <1>3, <1>4, <2>2 DEF S!TokensOf
    <3>2. S!Minting(s)' = S!Minting(s) \ {p} /\ p \in S!Minting(s)
      BY <1>1, <1>5, <1>6, <2>2 DEF S!Minting, S!At
    <3>3. S!Cardinality(S!TokensOf(s)') = S!Cardinality(S!TokensOf(s)) + 1
      BY <3>1, SessionCrowd, SessionsCounting
    <3>4. S!Cardinality(S!Minting(s)') = S!Cardinality(S!Minting(s)) - 1
      BY <3>2, SessionCrowd, SessionsCounting
    <3>5. QED
      BY <2>1, <3>3, <3>4, SessionCrowd
  <2>3. CASE s # requests[p].sess
    <3>1. S!TokensOf(s)' = S!TokensOf(s)
      BY <1>2, <1>3, <1>4, <2>3 DEF S!TokensOf
    <3>2. S!Minting(s)' = S!Minting(s)
      BY <1>1, <1>5, <1>6, <2>3 DEF S!Minting, S!At
    <3>3. QED
      BY <2>1, <3>1, <3>2
  <2>4. QED
    BY <2>2, <2>3
<1>12. QED
  BY <1>7, <1>8, <1>9, <1>10, <1>11 DEF S!IInv

LEMMA RevokeEffect ==
  ASSUME S!TypeOK, NEW ts, S!Revoke(ts)
  PROVE  /\ token' \in [Tokens -> SessionToken]
         /\ \A t \in Tokens :
              /\ token'[t].sess = token[t].sess /\ (token'[t].state = "none" <=> token[t].state = "none")
              /\ token'[t].state = "live" => token'[t] = token[t] /\ t \notin ts
<1> SUFFICES ASSUME NEW t \in Tokens
             PROVE  /\ token'[t] \in SessionToken
                    /\ token'[t].sess = token[t].sess /\ (token'[t].state = "none" <=> token[t].state = "none")
                    /\ token'[t].state = "live" => token'[t] = token[t] /\ t \notin ts
  BY DEF S!Revoke
<1>1. token[t] \in SessionToken
  BY DEF S!TypeOK, SessionToken
<1>2. /\ S!Dead(t, "revoked") \in SessionToken /\ S!Dead(t, "revoked").state = "revoked"
      /\ S!Dead(t, "revoked").sess = token[t].sess
  BY <1>1 DEF S!Dead, S!NoToken, SessionToken
<1>3. token'[t] = IF t \in ts /\ token[t].state = "live" THEN S!Dead(t, "revoked") ELSE token[t]
  BY DEF S!Revoke
<1>4. QED
  BY <1>1, <1>2, <1>3

\* A step after which no more tokens are live, and no request is past its check.
LEMMA Fading ==
  ASSUME S!SessionsAssumption, S!IInv, UNCHANGED <<password, session, link>>,
         token' \in [Tokens -> SessionToken], requests' \in [Requests -> SessionRequest],
         owed' \in BOOLEAN, sealed' = sealed,
         NEW p \in Requests,
         requests'[p] = requests[p] \/ requests'[p] = S!Idle,
         \A q \in Requests \ {p} : requests'[q].pc = requests[q].pc /\ requests'[q].sess = requests[q].sess
                                /\ requests'[q].link = requests[q].link,
         \A t \in Tokens : token'[t].sess = token[t].sess
                           /\ (token'[t].state = "none" <=> token[t].state = "none")
  PROVE  S!TypeOK' /\ S!Held' /\ S!Sealing'
<1>1. S!Idle.pc = "idle"
  BY DEF S!Idle
<1>2. S!TypeOK'
  BY DEF S!IInv, S!TypeOK, SessionRequest, SessionToken
<1>3. \A s : S!Opened(s)' <=> S!Opened(s)
  BY DEF S!Opened
<1>4. S!Held'
  BY <1>1, <1>3 DEF S!IInv, S!Held, S!At
<1>5. S!Sealing'
  <2> SUFFICES ASSUME NEW s \in Ids, session'[s] = "ended"
               PROVE  S!Cardinality(S!TokensOf(s)') + S!Cardinality(S!Minting(s)') <= sealed'[s]
    BY DEF S!Sealing
  <2>1. S!TokensOf(s)' = S!TokensOf(s) /\ S!Minting(s)' \subseteq S!Minting(s)
    BY <1>1 DEF S!TokensOf, S!Minting, S!At
  <2>2. S!Cardinality(S!Minting(s)') <= S!Cardinality(S!Minting(s))
    <3>1. S!Minting(s) \in SUBSET Requests
      BY DEF S!Minting
    <3>2. QED
      BY <2>1, <3>1, SessionCrowd
  <2>3. /\ S!Cardinality(S!TokensOf(s)) + S!Cardinality(S!Minting(s)) <= sealed[s]
        /\ sealed'[s] = sealed[s] /\ sealed[s] \in Nat
    BY DEF S!IInv, S!Sealing, S!TypeOK
  <2>4. QED
    BY <2>1, <2>2, <2>3, SessionCrowd
<1>6. QED
  BY <1>2, <1>4, <1>5

\* The old token of a rotation, the token of a logout, an expired token.
LEMMA RevokeSteps ==
  ASSUME S!SessionsAssumption, S!IInv, NEW p \in Requests, S!rotateRefreshToken(p) \/ S!revokeRefreshToken(p)
  PROVE  S!IInv'
<1>1. /\ S!Revoke({requests[p].tok}) /\ requests' = [requests EXCEPT ![p] = S!Idle]
      /\ UNCHANGED <<password, session, link, S!history>>
      /\ requests[p].pc \in {"rotate", "revoke"}
  BY DEF S!rotateRefreshToken, S!revokeRefreshToken, S!Become, S!At
<1>2. /\ token' \in [Tokens -> SessionToken]
      /\ \A t \in Tokens :
           /\ token'[t].sess = token[t].sess /\ (token'[t].state = "none" <=> token[t].state = "none")
           /\ token'[t].state = "live" => token'[t] = token[t] /\ t # requests[p].tok
  BY <1>1, RevokeEffect DEF S!IInv
<1>3. S!Idle \in SessionRequest /\ S!Idle.pc = "idle"
  BY DEF S!Idle, SessionRequest, S!Points, S!IInv, S!TypeOK
<1>4. /\ requests'[p] = S!Idle /\ \A q \in Requests \ {p} : requests'[q] = requests[q]
      /\ requests' \in [Requests -> SessionRequest] /\ owed' = owed /\ sealed' = sealed
  BY <1>1, <1>3 DEF S!IInv, S!TypeOK, SessionRequest, S!history
<1>5. S!TypeOK' /\ S!Held' /\ S!Sealing'
  <2>1. owed \in BOOLEAN
    BY DEF S!IInv, S!TypeOK
  <2>2. QED
    BY <1>1, <1>2, <1>4, <2>1, Fading
<1>6. (\E q \in Requests : S!Resetting(requests[q])) => \E q \in Requests : S!Resetting(requests'[q])
  BY <1>1, <1>4 DEF S!Resetting
<1>7. S!OldPasswordOut' /\ S!OldRequestsOut'
  BY <1>1, <1>2, <1>3, <1>4, <1>6 DEF S!IInv, S!OldPasswordOut, S!OldRequestsOut, S!PastCheck
<1>8. S!RotatedOnce'
  <2> SUFFICES ASSUME NEW i \in Tokens, token'[i].state = "live", token'[i].child
               PROVE  token'[i].lost \/ \E q \in Requests : requests'[q].pc = "rotate" /\ requests'[q].tok = i
    BY DEF S!RotatedOnce, S!At
  <2>1. token'[i] = token[i] /\ i # requests[p].tok
    BY <1>2
  <2>2. QED
    BY <1>4, <2>1 DEF S!IInv, S!RotatedOnce, S!At
<1>9. QED
  BY <1>5, <1>7, <1>8 DEF S!IInv

\* Nothing stays live, and who may still mint is marked as late.
LEMMA RevokeAllStep ==
  ASSUME S!SessionsAssumption, S!IInv, NEW p \in Requests, S!revokeAllForUser(p)
  PROVE  S!IInv'
<1>1. /\ S!Revoke(Tokens) /\ UNCHANGED <<password, session, link, sealed>> /\ owed' = FALSE
      /\ requests' = [q \in Requests |->
           IF q = p THEN S!Idle
           ELSE IF S!PastCheck(requests[q]) THEN [requests[q] EXCEPT !.late = TRUE] ELSE requests[q]]
  BY DEF S!revokeAllForUser
<1>2. /\ token' \in [Tokens -> SessionToken]
      /\ \A t \in Tokens :
           /\ token'[t].sess = token[t].sess /\ (token'[t].state = "none" <=> token[t].state = "none")
           /\ token'[t].state # "live"
  BY <1>1, RevokeEffect DEF S!IInv
<1>3. S!Idle \in SessionRequest /\ S!Idle.pc = "idle"
  BY DEF S!Idle, SessionRequest, S!Points, S!IInv, S!TypeOK
<1>4. /\ requests'[p] = S!Idle /\ requests' \in [Requests -> SessionRequest]
      /\ \A q \in Requests \ {p} :
           /\ requests'[q].pc = requests[q].pc /\ requests'[q].sess = requests[q].sess /\ requests'[q].link = requests[q].link
           /\ S!PastCheck(requests[q]) => requests'[q].late
  <2>1. \A q \in Requests : requests[q] \in SessionRequest
    BY DEF S!IInv, S!TypeOK, SessionRequest
  <2>2. ASSUME NEW q \in Requests \ {p}
        PROVE  /\ requests'[q] \in SessionRequest
               /\ requests'[q].pc = requests[q].pc /\ requests'[q].sess = requests[q].sess /\ requests'[q].link = requests[q].link
               /\ S!PastCheck(requests[q]) => requests'[q].late
    <3>1. requests'[q] = IF S!PastCheck(requests[q]) THEN [requests[q] EXCEPT !.late = TRUE] ELSE requests[q]
      BY <1>1
    <3>2. QED
      BY <2>1, <3>1 DEF SessionRequest
  <2>3. QED
    BY <1>1, <1>3, <2>2
<1>5. S!TypeOK' /\ S!Held' /\ S!Sealing'
  BY <1>1, <1>2, <1>4, Fading
<1>6. S!OldPasswordOut' /\ S!RotatedOnce'
  BY <1>2 DEF S!OldPasswordOut, S!RotatedOnce
<1>7. S!OldRequestsOut'
  BY <1>3, <1>4 DEF S!OldRequestsOut, S!PastCheck
<1>8. QED
  BY <1>5, <1>6, <1>7 DEF S!IInv

\* What dies is remembered: a reset by owed, a rotation by its token.
LEMMA AbortStep ==
  ASSUME S!SessionsAssumption, S!IInv, NEW p \in Requests, S!Abort(p)
  PROVE  S!IInv'
<1>1. /\ owed' = (owed \/ S!Resetting(requests[p])) /\ requests' = [requests EXCEPT ![p] = S!Idle]
      /\ token' = [t \in Tokens |->
           IF S!At(p, "rotate") /\ t = requests[p].tok /\ token[t].state = "live"
           THEN [token[t] EXCEPT !.lost = TRUE] ELSE token[t]]
      /\ UNCHANGED <<password, session, link, sealed>>
  BY DEF S!Abort, S!Become
<1>2. \A t \in Tokens :
        /\ token'[t] \in SessionToken /\ token'[t].sess = token[t].sess /\ token'[t].state = token[t].state
        /\ token'[t].password = token[t].password /\ token'[t].late = token[t].late
        /\ token'[t].child = token[t].child
        /\ token[t].lost => token'[t].lost
        /\ S!At(p, "rotate") /\ t = requests[p].tok /\ token[t].state = "live" => token'[t].lost
  <2> SUFFICES ASSUME NEW t \in Tokens
               PROVE  /\ token'[t] \in SessionToken /\ token'[t].sess = token[t].sess /\ token'[t].state = token[t].state
                      /\ token'[t].password = token[t].password /\ token'[t].late = token[t].late
                      /\ token'[t].child = token[t].child
                      /\ token[t].lost => token'[t].lost
                      /\ S!At(p, "rotate") /\ t = requests[p].tok /\ token[t].state = "live" => token'[t].lost
    OBVIOUS
  <2>1. token[t] \in SessionToken
    BY DEF S!IInv, S!TypeOK, SessionToken
  <2>2. token'[t] = IF S!At(p, "rotate") /\ t = requests[p].tok /\ token[t].state = "live"
                    THEN [token[t] EXCEPT !.lost = TRUE] ELSE token[t]
    BY <1>1
  <2>3. QED
    BY <2>1, <2>2 DEF SessionToken
<1>3. S!Idle \in SessionRequest /\ S!Idle.pc = "idle"
  BY DEF S!Idle, SessionRequest, S!Points, S!IInv, S!TypeOK
<1>4. /\ requests'[p] = S!Idle /\ \A q \in Requests \ {p} : requests'[q] = requests[q]
      /\ requests' \in [Requests -> SessionRequest] /\ token' \in [Tokens -> SessionToken]
  BY <1>1, <1>2, <1>3 DEF S!IInv, S!TypeOK, SessionRequest
<1>5. S!TypeOK' /\ S!Held' /\ S!Sealing'
  <2>1. owed' \in BOOLEAN
    BY <1>1 DEF S!Resetting, S!IInv, S!TypeOK
  <2>2. QED
    BY <1>1, <1>2, <1>4, <2>1, Fading
<1>6. (owed \/ \E q \in Requests : S!Resetting(requests[q])) => (owed' \/ \E q \in Requests : S!Resetting(requests'[q]))
  BY <1>1, <1>4
<1>7. S!OldPasswordOut'
  BY <1>1, <1>2, <1>6 DEF S!IInv, S!OldPasswordOut
<1>8. S!OldRequestsOut'
  BY <1>1, <1>3, <1>4, <1>6 DEF S!IInv, S!OldRequestsOut, S!PastCheck
<1>9. S!RotatedOnce'
  <2> SUFFICES ASSUME NEW i \in Tokens, token'[i].state = "live", token'[i].child
               PROVE  token'[i].lost \/ \E q \in Requests : requests'[q].pc = "rotate" /\ requests'[q].tok = i
    BY DEF S!RotatedOnce, S!At
  <2>1. token[i].state = "live" /\ token[i].child
    BY <1>2
  <2>2. CASE token[i].lost
    BY <1>2, <2>2
  <2>3. ASSUME NEW q \in Requests, S!At(q, "rotate"), requests[q].tok = i
        PROVE  token'[i].lost \/ \E o \in Requests : requests'[o].pc = "rotate" /\ requests'[o].tok = i
    BY <1>2, <1>4, <2>1, <2>3 DEF S!At
  <2>4. QED
    BY <2>1, <2>2, <2>3 DEF S!IInv, S!RotatedOnce
<1>10. QED
  BY <1>5, <1>7, <1>8, <1>9 DEF S!IInv

\* The end of a session: what it could hold is what it holds and is owed now.
LEMMA EndEffect ==
  ASSUME S!SessionsAssumption, S!IInv, NEW s \in Ids, session[s] # "none", S!End(s),
         token' = token, link' = link,
         \A i : S!Minting(i)' = S!Minting(i)
  PROVE  /\ S!Sealing' /\ session' \in [Ids -> {"none", "live", "ended"}] /\ sealed' \in [Ids -> Nat]
         /\ \A i : S!Opened(i)' <=> S!Opened(i)
<1>1. /\ session' = [session EXCEPT ![s] = "ended"]
      /\ sealed' = [sealed EXCEPT ![s] =
           IF session[s] = "live" THEN S!Cardinality(S!TokensOf(s)) + S!Cardinality(S!Minting(s)) ELSE @]
  BY DEF S!End
<1>2. session \in [Ids -> {"none", "live", "ended"}] /\ sealed \in [Ids -> Nat]
  BY DEF S!IInv, S!TypeOK
<1>3. S!Cardinality(S!TokensOf(s)) + S!Cardinality(S!Minting(s)) \in Nat
  BY SessionCrowd
<1>4. session' \in [Ids -> {"none", "live", "ended"}] /\ sealed' \in [Ids -> Nat]
  BY <1>1, <1>2, <1>3
<1>5. \A i : S!Opened(i)' <=> S!Opened(i)
  BY <1>1, <1>2 DEF S!Opened
<1>6. S!Sealing'
  <2> SUFFICES ASSUME NEW i \in Ids, session'[i] = "ended"
               PROVE  S!Cardinality(S!TokensOf(i)') + S!Cardinality(S!Minting(i)') <= sealed'[i]
    BY DEF S!Sealing
  <2>1. S!TokensOf(i)' = S!TokensOf(i) /\ S!Minting(i)' = S!Minting(i)
    BY DEF S!TokensOf
  <2>2. CASE i = s /\ session[s] = "live"
    <3>1. sealed'[i] = S!Cardinality(S!TokensOf(i)) + S!Cardinality(S!Minting(i))
      BY <1>1, <1>2, <2>2
    <3>2. QED
      BY <1>3, <2>1, <2>2, <3>1
  <2>3. CASE ~(i = s /\ session[s] = "live")
    <3>1. session[i] = "ended" /\ sealed'[i] = sealed[i]
      BY <1>1, <1>2, <2>3
    <3>2. QED
      BY <2>1, <3>1 DEF S!IInv, S!Sealing
  <2>4. QED
    BY <2>2, <2>3
<1>7. QED
  BY <1>4, <1>5, <1>6

LEMMA LogoutStep ==
  ASSUME S!SessionsAssumption, S!IInv, NEW p \in Requests, NEW t \in Tokens, S!logout(p, t)
  PROVE  S!IInv'
<1>1. /\ requests[p].pc = "idle" /\ S!End(token[t].sess) /\ S!Opened(token[t].sess)
      /\ UNCHANGED <<password, token, link, owed>>
      /\ requests' = [requests EXCEPT ![p] = [S!Idle EXCEPT !.pc = "revoke", !.tok = t]]
  BY DEF S!logout, S!At, S!Become, S!IInv, S!Held
<1>2. PICK r \in SessionRequest : requests' = [requests EXCEPT ![p] = r] /\ r.pc = "revoke"
  <2> DEFINE r == [S!Idle EXCEPT !.pc = "revoke", !.tok = t]
  <2>1. r \in SessionRequest /\ r.pc = "revoke"
    BY DEF S!Idle, SessionRequest, S!Points, S!IInv, S!TypeOK
  <2>2. QED
    BY <1>1, <2>1
<1>3. /\ requests'[p] = r /\ \A q \in Requests \ {p} : requests'[q] = requests[q]
      /\ requests' \in [Requests -> SessionRequest]
  BY <1>2 DEF S!IInv, S!TypeOK, SessionRequest
<1>4. \A i : S!Minting(i)' = S!Minting(i)
  BY <1>1, <1>2, <1>3 DEF S!Minting, S!At
<1>5. /\ S!Sealing' /\ session' \in [Ids -> {"none", "live", "ended"}] /\ sealed' \in [Ids -> Nat]
      /\ \A i : S!Opened(i)' <=> S!Opened(i)
  BY <1>1, <1>4, EndEffect DEF S!Opened
<1>6. S!TypeOK'
  BY <1>1, <1>3, <1>5 DEF S!IInv, S!TypeOK, SessionRequest
<1>7. S!Held'
  BY <1>1, <1>2, <1>3, <1>5 DEF S!IInv, S!Held, S!At
<1>8. (\E q \in Requests : S!Resetting(requests[q])) => \E q \in Requests : S!Resetting(requests'[q])
  BY <1>1, <1>3 DEF S!Resetting
<1>9. S!OldPasswordOut' /\ S!OldRequestsOut'
  BY <1>1, <1>2, <1>3, <1>8 DEF S!IInv, S!OldPasswordOut, S!OldRequestsOut, S!PastCheck
<1>10. S!RotatedOnce'
  BY <1>1, <1>3 DEF S!IInv, S!RotatedOnce, S!At
<1>11. QED
  BY <1>5, <1>6, <1>7, <1>9, <1>10 DEF S!IInv

\* What happens of itself, or to the links.
LEMMA OwnSteps ==
  ASSUME S!SessionsAssumption, S!IInv,
         \/ \E s \in Ids : S!SessionExpires(s)
         \/ \E t \in Tokens : S!TokenExpires(t)
         \/ \E l \in ResetLinks : S!forgotPassword(l) \/ S!LinkExpires(l)
         \/ UNCHANGED S!vars
  PROVE  S!IInv'
<1>1. ASSUME NEW s \in Ids, S!SessionExpires(s) PROVE S!IInv'
  <2>1. session[s] # "none" /\ S!End(s) /\ UNCHANGED <<password, token, link, requests, owed>>
    BY <1>1 DEF S!SessionExpires
  <2>2. \A i : S!Minting(i)' = S!Minting(i)
    BY <2>1 DEF S!Minting, S!At
  <2>3. /\ S!Sealing' /\ session' \in [Ids -> {"none", "live", "ended"}] /\ sealed' \in [Ids -> Nat]
        /\ \A i : S!Opened(i)' <=> S!Opened(i)
    BY <2>1, <2>2, EndEffect
  <2>4. S!TypeOK'
    BY <2>1, <2>3 DEF S!IInv, S!TypeOK
  <2>5. S!Held'
    BY <2>1, <2>3 DEF S!IInv, S!Held, S!At
  <2>6. S!OldPasswordOut' /\ S!OldRequestsOut' /\ S!RotatedOnce'
    BY <2>1 DEF S!IInv, S!OldPasswordOut, S!OldRequestsOut, S!RotatedOnce, S!At
  <2>7. QED
    BY <2>3, <2>4, <2>5, <2>6 DEF S!IInv
<1>2. ASSUME NEW t \in Tokens, S!TokenExpires(t) PROVE S!IInv'
  <2>1. /\ token' = [token EXCEPT ![t] = S!Dead(t, "gone")] /\ token[t].state # "none"
        /\ UNCHANGED <<password, session, link, requests, S!history>>
    BY <1>2 DEF S!TokenExpires
  <2>2. S!Dead(t, "gone") \in SessionToken /\ S!Dead(t, "gone").state = "gone" /\ S!Dead(t, "gone").sess = token[t].sess
    BY DEF S!Dead, S!NoToken, SessionToken, S!IInv, S!TypeOK
  <2>3. /\ token' \in [Tokens -> SessionToken]
        /\ \A i \in Tokens :
             /\ token'[i].sess = token[i].sess /\ (token'[i].state = "none" <=> token[i].state = "none")
             /\ token'[i].state = "live" => token'[i] = token[i]
    BY <2>1, <2>2 DEF S!IInv, S!TypeOK, SessionToken
  <2>4. S!TypeOK' /\ S!Held'
    BY <2>1, <2>3 DEF S!IInv, S!TypeOK, S!Held, S!At, S!Opened, SessionToken, S!history
  <2>5. S!Sealing'
    <3>1. \A s \in Ids : S!TokensOf(s)' = S!TokensOf(s) /\ S!Minting(s)' = S!Minting(s)
      BY <2>1, <2>3 DEF S!TokensOf, S!Minting, S!At
    <3>2. QED
      BY <2>1, <3>1 DEF S!IInv, S!Sealing, S!history
  <2>6. S!OldPasswordOut' /\ S!OldRequestsOut' /\ S!RotatedOnce'
    BY <2>1, <2>3 DEF S!IInv, S!OldPasswordOut, S!OldRequestsOut, S!RotatedOnce, S!At, S!history
  <2>7. QED
    BY <2>4, <2>5, <2>6 DEF S!IInv
<1>3. ASSUME UNCHANGED <<password, session, token, requests, S!history>>,
             link' \in [ResetLinks -> {"none", "open", "used", "expired"}]
      PROVE  S!IInv'
  <2>1. S!TypeOK' /\ S!Held'
    BY <1>3 DEF S!IInv, S!TypeOK, S!Held, S!At, S!Opened, S!history
  <2>2. S!Sealing'
    <3>1. \A s \in Ids : S!TokensOf(s)' = S!TokensOf(s) /\ S!Minting(s)' = S!Minting(s)
      BY <1>3 DEF S!TokensOf, S!Minting, S!At
    <3>2. QED
      BY <1>3, <3>1 DEF S!IInv, S!Sealing, S!history
  <2>3. S!OldPasswordOut' /\ S!OldRequestsOut' /\ S!RotatedOnce'
    BY <1>3 DEF S!IInv, S!OldPasswordOut, S!OldRequestsOut, S!RotatedOnce, S!At, S!history
  <2>4. QED
    BY <2>1, <2>2, <2>3 DEF S!IInv
<1>4. ASSUME NEW l \in ResetLinks, S!forgotPassword(l) \/ S!LinkExpires(l) PROVE S!IInv'
  <2>1. /\ UNCHANGED <<password, session, token, requests, S!history>>
        /\ link' \in [ResetLinks -> {"none", "open", "used", "expired"}]
    BY <1>4 DEF S!forgotPassword, S!LinkExpires, S!IInv, S!TypeOK
  <2>2. QED
    BY <1>3, <2>1
<1>5. CASE UNCHANGED S!vars
  <2>1. /\ UNCHANGED <<password, session, token, requests, S!history>>
        /\ link' \in [ResetLinks -> {"none", "open", "used", "expired"}]
    BY <1>5 DEF S!vars, S!history, S!IInv, S!TypeOK
  <2>2. QED
    BY <1>3, <2>1
<1>6. QED
  BY <1>1, <1>2, <1>4, <1>5

\* For any requests, sessions, tokens and links: well typed; who may still use an
\* older password was overtaken by the reset, a token was minted from another
\* once, and what an ended session may gain was counted when it ended.
THEOREM SessionsInvariance ==
  ASSUME S!SessionsAssumption PROVE S!Spec => []S!IInv
<1>1. S!IInv /\ [S!Next]_S!vars => S!IInv'
  BY QuietSteps, ResetSteps, CreateStep, MintStep, RevokeSteps, RevokeAllStep, AbortStep,
     LogoutStep, OwnSteps DEF S!Next, S!Step
<1>2. QED
  BY <1>1, SessionsInit, PTL DEF S!Spec

LEMMA SessionsSound ==
  ASSUME S!SessionsAssumption PROVE S!Spec => [](S!OldPasswordOut /\ S!RotatedOnce /\ S!EndedIsSealed)
<1>1. S!IInv => S!EndedIsSealed
  <2> SUFFICES ASSUME S!IInv, NEW s \in Ids, session[s] = "ended"
               PROVE  S!Cardinality(S!TokensOf(s)) <= sealed[s]
    BY DEF S!EndedIsSealed
  <2>1. S!Cardinality(S!TokensOf(s)) + S!Cardinality(S!Minting(s)) <= sealed[s] /\ sealed[s] \in Nat
    BY DEF S!IInv, S!Sealing, S!TypeOK
  <2>2. QED
    BY <2>1, SessionCrowd
<1>2. S!IInv => S!OldPasswordOut /\ S!RotatedOnce
  BY DEF S!IInv
<1>3. QED
  BY <1>1, <1>2, SessionsInvariance, PTL

-----------------------------------------------------------------------------
(* LoginHistory: accounts that are reported as related.                    *)

\* The same of what LoginHistory counts with.
LEMMA LoginHistoryCounting ==
  /\ \A A : H!IsFiniteSet(A) => H!Cardinality(A) \in Nat
  /\ \A A : H!IsFiniteSet(A) => \A B \in SUBSET A : H!IsFiniteSet(B) /\ H!Cardinality(B) <= H!Cardinality(A)
  /\ \A A, x : H!IsFiniteSet(A) /\ x \notin A =>
       H!IsFiniteSet(A \union {x}) /\ H!Cardinality(A \union {x}) = H!Cardinality(A) + 1
  /\ \A A, x : H!IsFiniteSet(A) /\ x \in A =>
       H!IsFiniteSet(A \ {x}) /\ H!Cardinality(A \ {x}) = H!Cardinality(A) - 1
  /\ H!IsFiniteSet({}) /\ H!Cardinality({}) = 0
  /\ \A a, b \in Int : H!IsFiniteSet(a..b)
<1>1. \A A : H!IsFiniteSet(A) <=> IsFiniteSet(A)
  BY DEF H!IsFiniteSet, IsFiniteSet
<1>2. \A A : H!Cardinality(A) = Cardinality(A)
  BY DEF H!Cardinality, Cardinality
<1>3. QED
  BY <1>1, <1>2, Counting

LEMMA LogInit == H!Init => H!IInv
<1> SUFFICES ASSUME H!Init PROVE H!IInv
  OBVIOUS
<1>1. DOMAIN log = {}
  BY DEF H!Init, H!EmptyBag, H!SetToBag
<1>2. H!Ips({}) = {} /\ H!DevicesOf({}) = {}
  BY DEF H!Ips, H!DevicesOf, H!Known
<1>3. QED
  BY <1>1, <1>2, LoginHistoryCounting DEF H!IInv

LEMMA LogStep ==
  ASSUME H!IInv, NEW r \in H!Row, H!recordLogin(r)
  PROVE  H!IInv'
<1>1. DOMAIN log' = DOMAIN log \/ DOMAIN log' = DOMAIN log \cup {r}
  BY DEF H!recordLogin, H!(+), H!SetToBag
<1>2. CASE DOMAIN log' = DOMAIN log
  BY <1>2 DEF H!IInv
<1>3. CASE DOMAIN log' = DOMAIN log \cup {r}
  <2>1. H!Ips(DOMAIN log)' \in {H!Ips(DOMAIN log), H!Ips(DOMAIN log) \cup {r.ip}}
    BY <1>3 DEF H!Ips, H!Known
  <2>2. H!DevicesOf(DOMAIN log)' \in {H!DevicesOf(DOMAIN log), H!DevicesOf(DOMAIN log) \cup {r.device}}
    BY <1>3 DEF H!DevicesOf, H!Known
  <2>3. \A A, x : H!IsFiniteSet(A) => H!IsFiniteSet(A \cup {x})
    <3>1. \A A, x : x \in A => A \cup {x} = A
      OBVIOUS
    <3>2. QED
      BY <3>1, LoginHistoryCounting
  <2>4. H!IsFiniteSet(H!Ips(DOMAIN log)')
    BY <2>1, <2>3 DEF H!IInv
  <2>5. H!IsFiniteSet(H!DevicesOf(DOMAIN log)')
    BY <2>2, <2>3 DEF H!IInv
  <2>6. QED
    BY <1>3, <2>4, <2>5 DEF H!IInv
<1>4. QED
  BY <1>1, <1>2, <1>3

\* Rows of the two queries, before they are cut off and after.
LEMMA RowsFound ==
  ASSUME NEW u
  PROVE  /\ DOMAIN H!OwnRows(u) = {r \in DOMAIN log : r \in H!Row /\ r.user = u}
         /\ \A own : DOMAIN H!Overlapping(u, own) =
              {r \in DOMAIN log : r \in H!Row /\ r.user # u /\ r.ip \in H!Ips(own)}
BY DEF H!OwnRows, H!Overlapping, H!RowsOf, H!BagToSet

LEMMA TakenIsSome ==
  ASSUME NEW rows, NEW n, NEW T \in H!Taken(rows, n)
  PROVE  T \subseteq DOMAIN rows
BY DEF H!Taken

LEMMA ConfidenceGrows ==
  ASSUME NEW i \in Nat, NEW d \in Nat, NEW ips \in Nat, NEW devices \in Nat,
         i <= ips, d <= devices
  PROVE  H!Grade[H!Confidence(i, d)] <= H!Grade[H!Confidence(ips, devices)]
<1>1. H!Grade["low"] = 1 /\ H!Grade["medium"] = 2 /\ H!Grade["high"] = 3
  BY DEF H!Grade
<1>2. QED
  BY <1>1 DEF H!Confidence

\* What is reported is shared.
LEMMA ReportIsShared ==
  ASSUME H!IInv, NEW u \in Users, NEW own \in H!Taken(H!OwnRows(u), OwnTake),
         NEW others \in H!Taken(H!Overlapping(u, own), OtherTake),
         NEW v \in DOMAIN H!Report(own, others)
  PROVE  LET answer == H!Report(own, others)
             ips == H!Cardinality(H!SharedIps(u, v))
             devices == H!Cardinality(H!SharedDevices(u, v))
         IN  /\ v # u /\ answer[v].ips \in 1..ips /\ answer[v].devices <= devices
             /\ H!Grade[answer[v].confidence] <= H!Grade[H!Confidence(ips, devices)]
<1> DEFINE rows == {r \in others : r.user = v}
           known == H!DevicesOf(rows) \cap H!DevicesOf(own)
           i == H!Cardinality(H!Ips(rows))
           d == H!Cardinality(known)
           ips == H!Cardinality(H!SharedIps(u, v))
           devices == H!Cardinality(H!SharedDevices(u, v))
<1>1. own \subseteq DOMAIN H!OwnRows(u) /\ others \subseteq DOMAIN H!Overlapping(u, own)
  BY TakenIsSome
<1>2. /\ v \in {r.user : r \in others}
      /\ H!Report(own, others)[v] = [ips |-> i, devices |-> d, confidence |-> H!Confidence(i, d)]
  BY DEF H!Report
<1>3. /\ rows # {} /\ rows \subseteq DOMAIN H!OwnRows(v) /\ v # u
      /\ \A r \in rows : r.ip \in H!Ips(own)
  <2>1. DOMAIN H!OwnRows(v) = {r \in DOMAIN log : r \in H!Row /\ r.user = v}
    BY RowsFound
  <2>2. DOMAIN H!Overlapping(u, own) = {r \in DOMAIN log : r \in H!Row /\ r.user # u /\ r.ip \in H!Ips(own)}
    BY RowsFound
  <2>3. QED
    BY <1>1, <1>2, <2>1, <2>2
<1>4. H!Ips(rows) # {} /\ H!Ips(rows) \subseteq H!SharedIps(u, v)
  BY <1>1, <1>3 DEF H!Ips, H!Known, H!SharedIps
<1>5. known \subseteq H!SharedDevices(u, v)
  BY <1>1, <1>3 DEF H!DevicesOf, H!Known, H!SharedDevices
<1>6. H!SharedIps(u, v) \subseteq H!Ips(DOMAIN log) /\ H!SharedDevices(u, v) \subseteq H!DevicesOf(DOMAIN log)
  BY RowsFound DEF H!SharedIps, H!SharedDevices, H!Ips, H!DevicesOf, H!Known
<1>7. H!IsFiniteSet(H!SharedIps(u, v)) /\ H!IsFiniteSet(H!SharedDevices(u, v))
  BY <1>6, LoginHistoryCounting DEF H!IInv
<1>8. i \in Nat /\ i # 0 /\ i <= ips /\ ips \in Nat
  <2>1. H!IsFiniteSet(H!Ips(rows)) /\ i <= ips /\ i \in Nat /\ ips \in Nat
    BY <1>4, <1>7, LoginHistoryCounting
  <2>2. PICK x : x \in H!Ips(rows)
    BY <1>4
  <2>3. H!IsFiniteSet(H!Ips(rows) \ {x}) /\ H!Cardinality(H!Ips(rows) \ {x}) = i - 1
    BY <2>1, <2>2, LoginHistoryCounting
  <2>4. H!Cardinality(H!Ips(rows) \ {x}) \in Nat
    BY <2>3, LoginHistoryCounting
  <2>5. QED
    BY <2>1, <2>3, <2>4
<1>9. d \in Nat /\ d <= devices /\ devices \in Nat
  BY <1>5, <1>7, LoginHistoryCounting
<1>10. H!Grade[H!Confidence(i, d)] <= H!Grade[H!Confidence(ips, devices)]
  BY <1>8, <1>9, ConfidenceGrows
<1> HIDE DEF i, d, ips, devices
<1>11. i \in 1..ips
  BY <1>8
<1>12. QED
  BY <1>2, <1>3, <1>9, <1>10, <1>11 DEF ips, devices

\* What is shared is reported, when no query was cut off.
LEMMA SharedIsReported ==
  ASSUME H!IInv, NEW u \in Users, NEW own \in H!Taken(H!OwnRows(u), OwnTake),
         NEW others \in H!Taken(H!Overlapping(u, own), OtherTake), H!Uncut(u),
         NEW v \in Users \ {u}, H!SharedIps(u, v) # {}
  PROVE  /\ v \in DOMAIN H!Report(own, others)
         /\ H!Report(own, others)[v].ips = H!Cardinality(H!SharedIps(u, v))
<1> DEFINE rows == {r \in others : r.user = v}
<1>1. own = DOMAIN H!OwnRows(u)
  BY DEF H!Uncut, H!Taken
<1>2. others = DOMAIN H!Overlapping(u, own)
  BY <1>1 DEF H!Uncut, H!Taken
<1>3. rows = {r \in DOMAIN H!OwnRows(v) : r.ip \in H!Ips(own)}
  <2>1. DOMAIN H!OwnRows(v) = {r \in DOMAIN log : r \in H!Row /\ r.user = v}
    BY RowsFound
  <2>2. DOMAIN H!Overlapping(u, own) = {r \in DOMAIN log : r \in H!Row /\ r.user # u /\ r.ip \in H!Ips(own)}
    BY RowsFound
  <2>3. QED
    BY <1>2, <2>1, <2>2
<1>4. H!Ips(rows) = H!SharedIps(u, v)
  BY <1>1, <1>3 DEF H!Ips, H!Known, H!SharedIps
<1>5. rows # {}
  BY <1>4 DEF H!Ips, H!Known
<1>6. v \in {r.user : r \in others}
  BY <1>5
<1>7. QED
  BY <1>4, <1>6 DEF H!Report

LEMMA SignalsInv == H!IInv => H!SignalsSound
<1> SUFFICES ASSUME H!IInv, NEW u \in Users, NEW answer \in H!findRelatedAccounts(u)
             PROVE  /\ \A v \in DOMAIN answer :
                         LET ips == H!Cardinality(H!SharedIps(u, v))
                             devices == H!Cardinality(H!SharedDevices(u, v)) IN
                         /\ v # u /\ answer[v].ips \in 1..ips /\ answer[v].devices <= devices
                         /\ H!Grade[answer[v].confidence] <= H!Grade[H!Confidence(ips, devices)]
                    /\ H!Uncut(u) =>
                         \A v \in Users \ {u} :
                           H!SharedIps(u, v) # {} =>
                             v \in DOMAIN answer /\ answer[v].ips = H!Cardinality(H!SharedIps(u, v))
  BY DEF H!SignalsSound
<1>1. PICK own \in H!Taken(H!OwnRows(u), OwnTake) :
        \E others \in H!Taken(H!Overlapping(u, own), OtherTake) : answer = H!Report(own, others)
  BY DEF H!findRelatedAccounts
<1>2. PICK others \in H!Taken(H!Overlapping(u, own), OtherTake) : answer = H!Report(own, others)
  BY <1>1
<1>3. ASSUME NEW v \in DOMAIN answer
      PROVE  LET ips == H!Cardinality(H!SharedIps(u, v))
                 devices == H!Cardinality(H!SharedDevices(u, v)) IN
             /\ v # u /\ answer[v].ips \in 1..ips /\ answer[v].devices <= devices
             /\ H!Grade[answer[v].confidence] <= H!Grade[H!Confidence(ips, devices)]
  BY <1>2, ReportIsShared
<1>4. ASSUME H!Uncut(u), NEW v \in Users \ {u}, H!SharedIps(u, v) # {}
      PROVE  v \in DOMAIN answer /\ answer[v].ips = H!Cardinality(H!SharedIps(u, v))
  BY <1>2, <1>4, SharedIsReported
<1>5. QED
  BY <1>3, <1>4

\* Whatever rows the limited queries return, an account is reported for no more
\* than it shares, and one that shares an address is, if neither is cut off.
LEMMA LogSound == H!Spec => []H!SignalsSound
<1>1. H!IInv /\ [H!Next]_log => H!IInv'
  <2> SUFFICES ASSUME H!IInv, [H!Next]_log PROVE H!IInv'
    OBVIOUS
  <2>1. ASSUME NEW r \in H!Row, H!recordLogin(r) PROVE H!IInv'
    BY <2>1, LogStep
  <2>2. CASE UNCHANGED log
    BY <2>2 DEF H!IInv
  <2>3. QED
    BY <2>1, <2>2 DEF H!Next
<1>2. QED
  BY <1>1, LogInit, SignalsInv, PTL DEF H!Spec

-----------------------------------------------------------------------------
(* AgentLinks: the claims of customers for their agent.                    *)

LinkRequest == [pc : {"idle", "create", "upsert", "assign", "visit"},
                link : Agents \cup {None}, of : Customers \cup {None}]

\* A claim joins those about to assign a conversation only while nobody has it.
LEMMA ClaimStep ==
  ASSUME G!TypeOK, G!AssignmentKept, NEW p \in Requests, NEW r \in LinkRequest,
         claims' = [claims EXCEPT ![p] = r], UNCHANGED <<agent, raced>>,
         r.pc = "assign" => agent[r.of] = None
  PROVE  G!TypeOK' /\ G!AssignmentKept'
<1>1. claims'[p] = r /\ \A q \in Requests \ {p} : claims'[q] = claims[q]
  BY DEF G!TypeOK
<1>2. G!TypeOK'
  BY DEF G!TypeOK, LinkRequest
<1>3. ASSUME NEW c \in Customers, agent[c] # None PROVE G!Claiming(c)' \subseteq G!Claiming(c)
  BY <1>1, <1>3 DEF G!Claiming, G!At
<1>4. QED
  BY <1>2, <1>3 DEF G!AssignmentKept, G!Thread

\* An assignment is written with the claims it overtakes.
LEMMA AssignStep ==
  ASSUME G!TypeOK, G!AssignmentKept, NEW cs \in SUBSET Customers, NEW a \in Agents \cup {None},
         G!Assign(cs, a), claims' \in [Requests -> LinkRequest],
         \A p \in Requests : claims'[p] = claims[p] \/ claims'[p].pc # "assign"
  PROVE  G!TypeOK' /\ G!AssignmentKept'
<1>1. \A c \in Customers : G!Claiming(c)' \subseteq G!Claiming(c) /\ G!Claiming(c) \subseteq Requests
  BY DEF G!Claiming, G!At
<1>2. \A c \in Customers :
        /\ agent'[c] = (IF c \in cs THEN a ELSE agent[c])
        /\ raced'[c] = (IF c \in cs THEN G!Claiming(c) ELSE raced[c])
  BY DEF G!Assign
<1>3. G!TypeOK'
  <2>1. agent' \in [Customers -> Agents \cup {None, G!NoThread}]
    BY DEF G!Assign, G!TypeOK
  <2>2. raced' \in [Customers -> SUBSET Requests]
    BY <1>1 DEF G!Assign, G!TypeOK
  <2>3. QED
    BY <2>1, <2>2 DEF G!TypeOK, LinkRequest
<1>4. QED
  BY <1>1, <1>2, <1>3 DEF G!AssignmentKept, G!Thread

LEMMA AgentLinksStep == G!TypeOK /\ G!AssignmentKept /\ [G!Next]_G!vars => G!TypeOK' /\ G!AssignmentKept'
<1> SUFFICES ASSUME G!TypeOK, G!AssignmentKept, [G!Next]_G!vars PROVE G!TypeOK' /\ G!AssignmentKept'
  OBVIOUS
<1>0. \A p \in Requests : claims[p] \in LinkRequest
  BY DEF G!TypeOK, LinkRequest
<1>1. ASSUME UNCHANGED <<agent, raced, claims>> PROVE G!TypeOK' /\ G!AssignmentKept'
  BY <1>1 DEF G!TypeOK, G!AssignmentKept, G!Thread, G!Claiming, G!At
<1>2. ASSUME NEW cs \in SUBSET Customers, NEW a \in Agents \cup {None}, G!bulkAssign(cs, a)
      PROVE  G!TypeOK' /\ G!AssignmentKept'
  <2>1. G!Assign(cs, a) /\ claims' = claims /\ claims \in [Requests -> LinkRequest]
    BY <1>2 DEF G!bulkAssign, G!TypeOK, LinkRequest
  <2>2. QED
    BY <2>1, AssignStep
<1>3. ASSUME NEW c \in Customers, G!getOrCreateForUser(c) PROVE G!TypeOK' /\ G!AssignmentKept'
  <2>1. agent' = [agent EXCEPT ![c] = None] /\ UNCHANGED <<raced, claims>>
    BY <1>3 DEF G!getOrCreateForUser
  <2>2. QED
    BY <2>1 DEF G!TypeOK, G!AssignmentKept, G!Thread, G!Claiming, G!At
<1>4. ASSUME NEW c \in Customers, G!deleteConversation(c) PROVE G!TypeOK' /\ G!AssignmentKept'
  <2>1. /\ agent' = [agent EXCEPT ![c] = G!NoThread] /\ raced' = raced
        /\ claims' = [p \in Requests |-> IF p \in G!Claiming(c) THEN G!Idle ELSE claims[p]]
    BY <1>4 DEF G!deleteConversation
  <2>2. G!Idle \in LinkRequest /\ G!Idle.pc = "idle"
    BY DEF G!Idle, LinkRequest
  <2>3. G!TypeOK'
    BY <1>0, <2>1, <2>2 DEF G!TypeOK, LinkRequest
  <2>4. \A d : G!Claiming(d)' \subseteq G!Claiming(d)
    BY <2>1, <2>2 DEF G!Claiming, G!At
  <2>5. \A d \in Customers \ {c} : agent'[d] = agent[d]
    BY <2>1 DEF G!TypeOK
  <2>6. ~G!Thread(c)'
    BY <2>1 DEF G!TypeOK, G!Thread
  <2>7. QED
    BY <2>1, <2>3, <2>4, <2>5, <2>6 DEF G!AssignmentKept, G!Thread
<1>5. ASSUME NEW p \in Requests, NEW r \in LinkRequest,
             claims' = [claims EXCEPT ![p] = r], UNCHANGED <<agent, raced>>, r.pc # "assign"
      PROVE  G!TypeOK' /\ G!AssignmentKept'
  BY <1>5, ClaimStep
<1>6. ASSUME NEW p \in Requests, NEW a \in Agents, G!getOrCreateAgentLink(p, a)
      PROVE  G!TypeOK' /\ G!AssignmentKept'
  <2> DEFINE r == [G!Idle EXCEPT !.pc = "create", !.link = a]
  <2>1. r \in LinkRequest /\ r.pc = "create"
    BY DEF G!Idle, LinkRequest
  <2>2. claims' = [claims EXCEPT ![p] = r] /\ UNCHANGED <<agent, raced>>
    BY <1>6 DEF G!getOrCreateAgentLink, G!Become
  <2> HIDE DEF r
  <2>3. QED
    BY <1>5, <2>1, <2>2
<1>7. ASSUME NEW p \in Requests, NEW a \in Agents, NEW c \in Customers, G!claimViaLink(p, a, c)
      PROVE  G!TypeOK' /\ G!AssignmentKept'
  <2> DEFINE r == [pc |-> "upsert", link |-> a, of |-> c]
  <2>1. r \in LinkRequest /\ r.pc = "upsert"
    BY DEF LinkRequest
  <2>2. claims' = [claims EXCEPT ![p] = r] /\ UNCHANGED <<agent, raced>>
    BY <1>7 DEF G!claimViaLink, G!Become
  <2> HIDE DEF r
  <2>3. QED
    BY <1>5, <2>1, <2>2
<1>8. ASSUME NEW p \in Requests, G!CreateLink(p) \/ G!CountVisit(p) \/ G!Abort(p)
      PROVE  G!TypeOK' /\ G!AssignmentKept'
  <2>1. claims' = [claims EXCEPT ![p] = G!Idle] /\ UNCHANGED <<agent, raced>>
    BY <1>8 DEF G!CreateLink, G!CountVisit, G!Abort, G!Become
  <2>2. G!Idle \in LinkRequest /\ G!Idle.pc # "assign"
    BY DEF G!Idle, LinkRequest
  <2>3. QED
    BY <1>5, <2>1, <2>2
<1>9. ASSUME NEW p \in Requests, NEW pc \in {"assign", "visit"}
      PROVE  /\ [claims[p] EXCEPT !.pc = pc] \in LinkRequest
             /\ [claims[p] EXCEPT !.pc = pc].pc = pc /\ [claims[p] EXCEPT !.pc = pc].of = claims[p].of
  BY <1>0 DEF LinkRequest
<1>10. ASSUME NEW p \in Requests, G!Goto(p, "visit"), NEW cs \in SUBSET Customers,
              NEW a \in Agents \cup {None}, G!Assign(cs, a)
       PROVE  G!TypeOK' /\ G!AssignmentKept'
  <2> DEFINE r == [claims[p] EXCEPT !.pc = "visit"]
  <2>1. r \in LinkRequest /\ r.pc = "visit"
    BY <1>9
  <2>2. claims' = [claims EXCEPT ![p] = r]
    BY <1>10 DEF G!Goto, G!Become
  <2> HIDE DEF r
  <2>3. claims' \in [Requests -> LinkRequest] /\ \A q \in Requests : claims'[q] = claims[q] \/ claims'[q].pc # "assign"
    BY <2>1, <2>2 DEF G!TypeOK, LinkRequest
  <2>4. QED
    BY <1>10, <2>3, AssignStep
<1>11. ASSUME NEW p \in Requests, G!UpsertConversation(p) PROVE G!TypeOK' /\ G!AssignmentKept'
  <2>1. CASE G!Thread(claims[p].of) /\ agent[claims[p].of] = None
    <3>1. claims' = [claims EXCEPT ![p] = [claims[p] EXCEPT !.pc = "assign"]] /\ UNCHANGED <<agent, raced>>
      BY <1>11, <2>1 DEF G!UpsertConversation, G!Goto, G!Become
    <3>2. QED
      BY <1>9, <2>1, <3>1, ClaimStep
  <2>2. CASE G!Thread(claims[p].of) /\ agent[claims[p].of] # None
    <3>1. claims' = [claims EXCEPT ![p] = [claims[p] EXCEPT !.pc = "visit"]] /\ UNCHANGED <<agent, raced>>
      BY <1>11, <2>2 DEF G!UpsertConversation, G!Goto, G!Become
    <3>2. QED
      BY <1>5, <1>9, <3>1
  <2>3. CASE ~G!Thread(claims[p].of)
    <3>1. G!Assign({claims[p].of}, claims[p].link) /\ G!Goto(p, "visit") /\ claims[p].link \in Agents \cup {None}
      BY <1>0, <1>11, <2>3 DEF G!UpsertConversation, LinkRequest
    <3>2. G!Assign({claims[p].of} \cap Customers, claims[p].link)
      BY <3>1 DEF G!Assign
    <3>3. QED
      BY <1>10, <3>1, <3>2
  <2>4. QED
    BY <2>1, <2>2, <2>3
<1>12. ASSUME NEW p \in Requests, G!AssignClaimed(p) PROVE G!TypeOK' /\ G!AssignmentKept'
  <2>1. G!Assign({claims[p].of}, claims[p].link) /\ G!Goto(p, "visit") /\ claims[p].link \in Agents \cup {None}
    BY <1>0, <1>12 DEF G!AssignClaimed, LinkRequest
  <2>2. G!Assign({claims[p].of} \cap Customers, claims[p].link)
    BY <2>1 DEF G!Assign
  <2>3. QED
    BY <1>10, <2>1, <2>2
<1>13. ASSUME NEW a \in Agents, G!StatusChanges(a) \/ \E on \in BOOLEAN : G!setAgentLinkActive(a, on)
       PROVE  G!TypeOK' /\ G!AssignmentKept'
  BY <1>1, <1>13 DEF G!StatusChanges, G!setAgentLinkActive
<1>14. CASE UNCHANGED G!vars
  BY <1>1, <1>14 DEF G!vars
<1>15. ASSUME NEW c \in Customers, NEW a \in Agents \cup {None}, G!assign(c, a)
       PROVE  G!TypeOK' /\ G!AssignmentKept'
  BY <1>2, <1>15 DEF G!assign
<1>16. QED
  BY <1>2, <1>3, <1>4, <1>6, <1>7, <1>8, <1>11, <1>12, <1>13, <1>14, <1>15 DEF G!Next

\* For any customers, agents and claims: only a claim that read a conversation
\* without an agent before it got one is about to write over its assignment.
LEMMA AgentLinksSound == G!Spec => []G!AssignmentKept
<1>1. G!Init => G!TypeOK /\ G!AssignmentKept
  <2> SUFFICES ASSUME G!Init PROVE G!TypeOK /\ G!AssignmentKept
    OBVIOUS
  <2>1. G!TypeOK
    BY DEF G!Init, G!TypeOK, G!Idle
  <2>2. G!AssignmentKept
    BY DEF G!Init, G!AssignmentKept, G!Thread
  <2>3. QED
    BY <2>1, <2>2
<1>2. QED
  BY <1>1, AgentLinksStep, PTL DEF G!Spec

-----------------------------------------------------------------------------
(* Registration: new accounts and the verification of their addresses.     *)

Form == [pc : {"idle", "create", "token", "mail", "verify", "used"},
         who : SUBSET R!Accounts, link : MailedLinks \cup {NoLink}, new : BOOLEAN]

\* What p's request knows of the tables it works on.
Knows(p) ==
  /\ R!At(p, "create") => \E a \in R!Accounts : forms[p].who = {a}
  /\ forms[p].pc \in {"token", "mail", "verify", "used"} => forms[p].who \subseteq accounts
  /\ R!At(p, "mail") => forms[p].link \in MailedLinks
  /\ R!At(p, "verify") => R!EmailOf(p) \subseteq opened

\* The tables only grow, so what the others know stays true.
LEMMA OthersKnow ==
  ASSUME R!IInv, NEW p \in Requests, NEW r \in Form, forms' = [forms EXCEPT ![p] = r],
         accounts \subseteq accounts', opened \subseteq opened', Knows(p)'
  PROVE  R!Known' /\ forms' \in [Requests -> Form]
<1>1. \A q \in Requests \ {p} : forms'[q] = forms[q]
  BY DEF R!IInv, R!TypeOK
<1>2. \A q \in Requests \ {p} : Knows(q)'
  BY <1>1 DEF R!IInv, R!Known, Knows, R!At, R!EmailOf
<1>3. R!Known'
  BY <1>2 DEF R!Known, Knows
<1>4. forms' \in [Requests -> Form]
  BY DEF R!IInv, R!TypeOK, Form
<1>5. QED
  BY <1>3, <1>4

\* A step that only moves a request.
LEMMA FormStep ==
  ASSUME R!IInv, NEW p \in Requests, NEW r \in Form, R!Advance(p, r),
         \/ r.pc = "idle"
         \/ r.pc = "create" /\ \E a \in R!Accounts : r.who = {a}
         \/ r.pc = "token" /\ r.who \subseteq accounts
  PROVE  R!IInv'
<1>1. /\ forms' = [forms EXCEPT ![p] = r] /\ forms'[p] = r
      /\ UNCHANGED <<accounts, verified, proof, mailed, opened, welcome>>
  BY DEF R!Advance, R!Become, R!IInv, R!TypeOK
<1>2. Knows(p)'
  BY <1>1 DEF Knows, R!At
<1>3. R!Known' /\ forms' \in [Requests -> Form]
  BY <1>1, <1>2, OthersKnow
<1>4. QED
  BY <1>1, <1>3 DEF R!IInv, R!TypeOK, Form, R!RegisteredSound

LEMMA CreateAccount ==
  ASSUME R!IInv, NEW p \in Requests, R!create(p)
  PROVE  R!IInv'
<1>1. /\ R!At(p, "create") /\ forms[p] \in Form
      /\ UNCHANGED <<verified, proof, mailed, opened, welcome>>
  BY DEF R!create, R!IInv, R!TypeOK, Form
<1>2. PICK a \in R!Accounts : forms[p].who = {a}
  BY <1>1 DEF R!IInv, R!Known
<1>3. R!Idle \in Form /\ R!Idle.pc = "idle"
  BY DEF R!Idle, Form
<1>4. CASE R!Taken(a)
  <2>1. R!Advance(p, R!Idle)
    BY <1>1, <1>2, <1>4 DEF R!create, R!Advance
  <2>2. QED
    BY <1>3, <2>1, FormStep
<1>5. CASE ~R!Taken(a)
  <2> DEFINE r == [forms[p] EXCEPT !.pc = "token"]
  <2>1. r \in Form /\ r.pc = "token" /\ r.who = {a}
    BY <1>1, <1>2 DEF Form
  <2>2. accounts' = accounts \cup {a} /\ forms' = [forms EXCEPT ![p] = r]
    BY <1>2, <1>5 DEF R!create, R!Goto, R!Become
  <2> HIDE DEF r
  <2>3. forms'[p] = r
    BY <2>2 DEF R!IInv, R!TypeOK
  <2>4. Knows(p)'
    BY <2>1, <2>2, <2>3 DEF Knows, R!At
  <2>5. R!Known' /\ forms' \in [Requests -> Form]
    BY <1>1, <2>1, <2>2, <2>4, OthersKnow
  <2>6. R!TypeOK'
    BY <1>1, <2>2, <2>5 DEF R!IInv, R!TypeOK, Form
  <2>7. R!RegisteredSound'
    <3>1. \A b \in accounts : b.email # a.email /\ b.name # a.name
      BY <1>5 DEF R!Taken
    <3>2. \A b, c \in accounts' : b.email = c.email \/ b.name = c.name => b = c
      BY <2>2, <3>1 DEF R!IInv, R!RegisteredSound
    <3>3. verified' \subseteq opened' /\ welcome' \subseteq accounts'
      BY <1>1, <2>2 DEF R!IInv, R!RegisteredSound
    <3>4. verified' \subseteq {b.email : b \in accounts'}
      BY <1>1, <2>2 DEF R!IInv, R!RegisteredSound
    <3>5. QED
      BY <3>2, <3>3, <3>4 DEF R!RegisteredSound
  <2>8. QED
    BY <2>5, <2>6, <2>7 DEF R!IInv
<1>6. QED
  BY <1>4, <1>5

LEMMA LinkSteps ==
  ASSUME R!IInv, NEW p \in Requests, R!createEmailVerificationToken(p) \/ R!markEmailVerificationTokenUsed(p)
  PROVE  R!IInv'
<1>1. /\ forms[p] \in Form /\ UNCHANGED <<accounts, verified, mailed, opened, welcome>>
      /\ \A l \in MailedLinks : proof[l] \in [is : {"none", "live", "expired"}, to : SUBSET Emails, used : BOOLEAN]
  BY DEF R!createEmailVerificationToken, R!markEmailVerificationTokenUsed, R!IInv, R!TypeOK, Form
<1>2. PICK r \in Form : /\ forms' = [forms EXCEPT ![p] = r]
                        /\ \/ r.pc = "mail" /\ r.who = forms[p].who /\ r.link \in MailedLinks /\ R!At(p, "token")
                           \/ r.pc = "idle"
  <2>1. CASE R!createEmailVerificationToken(p)
    <3>1. PICK l \in MailedLinks : forms' = [forms EXCEPT ![p] = [forms[p] EXCEPT !.pc = "mail", !.link = l]]
      BY <2>1 DEF R!createEmailVerificationToken, R!Become
    <3> DEFINE r == [forms[p] EXCEPT !.pc = "mail", !.link = l]
    <3>2. r \in Form /\ r.pc = "mail" /\ r.who = forms[p].who /\ r.link = l
      BY <1>1 DEF Form
    <3>3. QED
      BY <2>1, <3>1, <3>2 DEF R!createEmailVerificationToken
  <2>2. CASE R!markEmailVerificationTokenUsed(p)
    <3>1. R!Idle \in Form /\ R!Idle.pc = "idle"
      BY DEF R!Idle, Form
    <3>2. QED
      BY <2>2, <3>1 DEF R!markEmailVerificationTokenUsed, R!Become
  <2>3. QED
    BY <2>1, <2>2
<1>3. forms'[p] = r
  BY <1>2 DEF R!IInv, R!TypeOK
<1>4. Knows(p)'
  BY <1>1, <1>2, <1>3 DEF Knows, R!At, R!IInv, R!Known
<1>5. R!Known' /\ forms' \in [Requests -> Form]
  BY <1>1, <1>2, <1>4, OthersKnow
<1>6. proof' \in [MailedLinks -> [is : {"none", "live", "expired"}, to : SUBSET Emails, used : BOOLEAN]]
  <2>1. CASE R!createEmailVerificationToken(p)
    <3>1. R!EmailOf(p) \in SUBSET Emails
      BY <1>1 DEF R!EmailOf, Form, R!Accounts
    <3>2. [R!NoRow EXCEPT !.is = "live", !.to = R!EmailOf(p)]
            \in [is : {"none", "live", "expired"}, to : SUBSET Emails, used : BOOLEAN]
      BY <3>1 DEF R!NoRow
    <3>3. QED
      BY <2>1, <3>2 DEF R!createEmailVerificationToken, R!IInv, R!TypeOK
  <2>2. CASE R!markEmailVerificationTokenUsed(p)
    <3>1. proof \in [MailedLinks -> [is : {"none", "live", "expired"}, to : SUBSET Emails, used : BOOLEAN]]
      BY DEF R!IInv, R!TypeOK
    <3>2. proof' = proof \/ proof' = [proof EXCEPT ![forms[p].link].used = TRUE]
      BY <2>2 DEF R!markEmailVerificationTokenUsed
    <3>3. PICK l : l = forms[p].link
      OBVIOUS
    <3>4. CASE l \in MailedLinks
      <4>1. [proof[l] EXCEPT !.used = TRUE] \in [is : {"none", "live", "expired"}, to : SUBSET Emails, used : BOOLEAN]
        BY <3>1, <3>4
      <4>2. QED
        BY <3>1, <3>2, <3>3, <4>1
    <3>5. CASE l \notin MailedLinks
      BY <3>1, <3>2, <3>3, <3>5
    <3>6. QED
      BY <3>4, <3>5
  <2>3. QED
    BY <2>1, <2>2
<1>7. QED
  BY <1>1, <1>5, <1>6 DEF R!IInv, R!TypeOK, Form, R!RegisteredSound

LEMMA MailStep ==
  ASSUME R!IInv, NEW p \in Requests, R!sendVerificationEmail(p)
  PROVE  R!IInv'
<1>1. /\ R!At(p, "mail") /\ forms[p].who \subseteq accounts /\ forms[p].link \in MailedLinks
      /\ forms' = [forms EXCEPT ![p] = R!Idle] /\ UNCHANGED <<accounts, verified, proof, opened>>
  BY DEF R!sendVerificationEmail, R!Become, R!IInv, R!Known, R!At
<1>2. mailed' \subseteq MailedLinks /\ welcome' \subseteq accounts
  BY <1>1 DEF R!sendVerificationEmail, R!IInv, R!TypeOK, R!RegisteredSound
<1>3. R!Idle \in Form /\ R!Idle.pc = "idle"
  BY DEF R!Idle, Form
<1>4. Knows(p)'
  BY <1>1, <1>3 DEF Knows, R!At, R!IInv, R!TypeOK
<1>5. R!Known' /\ forms' \in [Requests -> Form]
  BY <1>1, <1>3, <1>4, OthersKnow
<1>6. QED
  BY <1>1, <1>2, <1>5 DEF R!IInv, R!TypeOK, Form, R!RegisteredSound

LEMMA VerifySteps ==
  ASSUME R!IInv, NEW p \in Requests, R!verifyEmail(p) \/ R!markEmailVerified(p)
  PROVE  R!IInv'
<1>0. forms[p] \in Form
  BY DEF R!IInv, R!TypeOK, Form
<1>1. CASE R!verifyEmail(p)
  <2>1. PICK l \in mailed :
          /\ opened' = opened \cup proof[l].to
          /\ forms' = [forms EXCEPT ![p] = [R!Idle EXCEPT !.pc = "verify", !.link = l,
                       !.who = {a \in accounts : a.email \in proof[l].to}]]
    BY <1>1 DEF R!verifyEmail, R!Become
  <2> DEFINE r == [R!Idle EXCEPT !.pc = "verify", !.link = l,
                               !.who = {a \in accounts : a.email \in proof[l].to}]
  <2>2. /\ r \in Form /\ r.pc = "verify" /\ r.who \subseteq accounts
        /\ \A a \in r.who : a.email \in proof[l].to
    <3>1. l \in MailedLinks /\ accounts \subseteq R!Accounts
      BY DEF R!IInv, R!TypeOK
    <3>2. QED
      BY <3>1 DEF R!Idle, Form
  <2>3. forms' = [forms EXCEPT ![p] = r]
    BY <2>1
  <2> HIDE DEF r
  <2>4. forms'[p] = r
    BY <2>3 DEF R!IInv, R!TypeOK
  <2>5. UNCHANGED <<accounts, verified, proof, mailed, welcome>>
    BY <1>1 DEF R!verifyEmail
  <2>6. Knows(p)'
    BY <2>1, <2>2, <2>4, <2>5 DEF Knows, R!At, R!EmailOf
  <2>7. R!Known' /\ forms' \in [Requests -> Form]
    BY <2>1, <2>2, <2>3, <2>5, <2>6, OthersKnow
  <2>8. QED
    BY <2>1, <2>5, <2>7 DEF R!IInv, R!TypeOK, Form, R!RegisteredSound
<1>2. CASE R!markEmailVerified(p)
  <2>1. /\ R!At(p, "verify") /\ verified' = verified \cup R!EmailOf(p)
        /\ forms' = [forms EXCEPT ![p] = [forms[p] EXCEPT !.pc = "used"]]
        /\ UNCHANGED <<accounts, proof, mailed, opened, welcome>>
    BY <1>2 DEF R!markEmailVerified, R!Goto, R!Become
  <2>2. forms[p].who \subseteq accounts /\ R!EmailOf(p) \subseteq opened
    BY <2>1 DEF R!IInv, R!Known, R!At
  <2> DEFINE r == [forms[p] EXCEPT !.pc = "used"]
  <2>3. r \in Form /\ r.pc = "used" /\ r.who = forms[p].who
    BY <1>0 DEF Form
  <2>4. forms' = [forms EXCEPT ![p] = r]
    BY <2>1
  <2> HIDE DEF r
  <2>5. forms'[p] = r
    BY <2>4 DEF R!IInv, R!TypeOK
  <2>6. Knows(p)'
    BY <2>1, <2>2, <2>3, <2>5 DEF Knows, R!At
  <2>7. R!Known' /\ forms' \in [Requests -> Form]
    BY <2>1, <2>3, <2>4, <2>6, OthersKnow
  <2>8. R!EmailOf(p) \subseteq {a.email : a \in accounts}
    BY <2>2 DEF R!EmailOf
  <2>9. QED
    BY <2>1, <2>2, <2>7, <2>8 DEF R!IInv, R!TypeOK, Form, R!RegisteredSound
<1>3. QED
  BY <1>1, <1>2

LEMMA RegistrationStep == R!IInv /\ [R!Next]_R!vars => R!IInv'
<1> SUFFICES ASSUME R!IInv, [R!Next]_R!vars PROVE R!IInv'
  OBVIOUS
<1>1. R!Idle \in Form /\ R!Idle.pc = "idle"
  BY DEF R!Idle, Form
<1>2. ASSUME NEW p \in Requests, R!register(p) \/ R!resendVerification(p) \/ R!Abort(p) PROVE R!IInv'
  <2>1. CASE R!Abort(p)
    BY <1>1, <2>1, FormStep DEF R!Abort
  <2>2. CASE R!register(p)
    <3>1. PICK a \in R!Accounts : R!Advance(p, IF R!Taken(a) THEN R!Idle ELSE
                                 [R!Idle EXCEPT !.pc = "create", !.who = {a}, !.new = TRUE])
      BY <2>2 DEF R!register, R!Accounts
    <3> DEFINE r == [R!Idle EXCEPT !.pc = "create", !.who = {a}, !.new = TRUE]
    <3>2. r \in Form /\ r.pc = "create" /\ r.who = {a}
      BY DEF R!Idle, Form
    <3> HIDE DEF r
    <3>3. R!Advance(p, R!Idle) \/ R!Advance(p, r)
      BY <3>1 DEF r
    <3>4. QED
      BY <1>1, <3>2, <3>3, FormStep
  <2>3. CASE R!resendVerification(p)
    <3>1. PICK a \in accounts : R!Advance(p, [R!Idle EXCEPT !.pc = "token", !.who = {a}])
      BY <2>3 DEF R!resendVerification
    <3> DEFINE r == [R!Idle EXCEPT !.pc = "token", !.who = {a}]
    <3>2. r \in Form /\ r.pc = "token" /\ r.who \subseteq accounts
      BY DEF R!Idle, Form, R!IInv, R!TypeOK
    <3> HIDE DEF r
    <3>3. R!Advance(p, r)
      BY <3>1 DEF r
    <3>4. QED
      BY <3>2, <3>3, FormStep
  <2>4. QED
    BY <1>2, <2>1, <2>2, <2>3
<1>3. ASSUME NEW l \in MailedLinks, R!Expire(l) \/ R!Sweep(l) PROVE R!IInv'
  <2>1. /\ UNCHANGED <<accounts, verified, opened, welcome, forms>> /\ mailed' \subseteq MailedLinks
        /\ proof' \in [MailedLinks -> [is : {"none", "live", "expired"}, to : SUBSET Emails, used : BOOLEAN]]
    <3> DEFINE Row == [is : {"none", "live", "expired"}, to : SUBSET Emails, used : BOOLEAN]
    <3>1. R!NoRow \in Row /\ proof \in [MailedLinks -> Row] /\ mailed \subseteq MailedLinks
      BY DEF R!NoRow, R!IInv, R!TypeOK
    <3>2. CASE R!Expire(l)
      <4>1. [proof[l] EXCEPT !.is = "expired"] \in Row
        BY <3>1
      <4>2. proof' = [proof EXCEPT ![l] = [proof[l] EXCEPT !.is = "expired"]]
        BY <3>2 DEF R!Expire
      <4>3. QED
        BY <3>1, <3>2, <4>1, <4>2 DEF R!Expire
    <3>3. CASE R!Sweep(l)
      BY <3>1, <3>3 DEF R!Sweep
    <3>4. QED
      BY <1>3, <3>2, <3>3
  <2>2. QED
    BY <2>1 DEF R!IInv, R!TypeOK, R!Known, R!At, R!EmailOf, R!RegisteredSound
<1>4. CASE UNCHANGED R!vars
  BY <1>4 DEF R!vars, R!IInv, R!TypeOK, R!Known, R!At, R!EmailOf, R!RegisteredSound
<1>5. QED
  BY <1>2, <1>3, <1>4, CreateAccount, LinkSteps, MailStep, VerifySteps DEF R!Next

\* For any forms in flight: an address and a name are one account's, nobody is
\* verified whose link was not opened, who was welcomed has the account.
LEMMA RegistrationSound == R!Spec => []R!RegisteredSound
<1>1. R!Init => R!IInv
  <2> SUFFICES ASSUME R!Init PROVE R!IInv
    OBVIOUS
  <2>1. R!TypeOK
    BY DEF R!Init, R!TypeOK, R!Idle, R!NoRow
  <2>2. R!Known
    <3>1. \A p \in Requests : forms[p].pc = "idle"
      BY DEF R!Init, R!Idle
    <3>2. QED
      BY <3>1 DEF R!Known, R!At
  <2>3. R!RegisteredSound
    BY DEF R!Init, R!RegisteredSound
  <2>4. QED
    BY <2>1, <2>2, <2>3 DEF R!IInv
<1>2. R!IInv => R!RegisteredSound
  BY DEF R!IInv
<1>3. QED
  BY <1>1, <1>2, RegistrationStep, PTL DEF R!Spec

-----------------------------------------------------------------------------
(* The composition does what each part does on its own.                      *)

LEMMA PartsOfAccounts == EitherSpec => S!Spec /\ H!Spec /\ G!Spec /\ R!Spec
<1>1. EitherInit => S!Init /\ H!Init /\ G!Init /\ R!Init
  BY DEF EitherInit
<1>2. [EitherNext]_<<side, vars, behind, log, links, newcomers>> =>
        /\ [S!Next]_(S!vars) /\ [H!Next]_log
        /\ [G!Next]_(G!vars) /\ [R!Next]_(R!vars)
  BY DEF EitherNext, behind, links, newcomers, S!vars, G!vars, R!vars
<1>3. QED
  BY <1>1, <1>2, PTL DEF EitherSpec, S!Spec, H!Spec, G!Spec, R!Spec

\* A new password leaves nobody logged in by an older one but whom its revocation
\* could not reach.
THEOREM ResetLogsOut == EitherSpec => []OldPasswordOut
<1>1. S!OldPasswordOut /\ S!RotatedOnce /\ S!EndedIsSealed => OldPasswordOut
  BY DEF OldPasswordOut
<1>2. QED
  BY <1>1, PartsOfAccounts, SessionsSound, AccountsAssumption, PTL

\* A refresh token that was rotated is good for no other rotation.
THEOREM TokensRotateOnce == EitherSpec => []RotatedOnce
<1>1. S!OldPasswordOut /\ S!RotatedOnce /\ S!EndedIsSealed => RotatedOnce
  BY DEF RotatedOnce
<1>2. QED
  BY <1>1, PartsOfAccounts, SessionsSound, AccountsAssumption, PTL

\* A session that has ended takes no more tokens than were on their way.
THEOREM EndedStaysEnded == EitherSpec => []EndedIsSealed
<1>1. S!OldPasswordOut /\ S!RotatedOnce /\ S!EndedIsSealed => EndedIsSealed
  BY DEF EndedIsSealed
<1>2. QED
  BY <1>1, PartsOfAccounts, SessionsSound, AccountsAssumption, PTL

\* For any sign-ins, and whichever rows the limited queries return: an account is
\* reported for no more than it shares, and none that shares an address is passed
\* over while neither query is cut off.
THEOREM SignalsAreSound == EitherSpec => []SignalsSound
<1>1. H!SignalsSound => SignalsSound
  BY DEF SignalsSound
<1>2. QED
  BY <1>1, PartsOfAccounts, LogSound, PTL

\* For any customers, agents and claims: only a claim that had read a conversation
\* without an agent writes over its assignment.
THEOREM AssignmentIsKept == EitherSpec => []AssignmentKept
<1>1. G!AssignmentKept => AssignmentKept
  BY DEF AssignmentKept
<1>2. QED
  BY <1>1, PartsOfAccounts, AgentLinksSound, PTL

\* For any forms in flight: an address and a name are one account's, and nobody is
\* verified whose link was not opened.
THEOREM RegistrationIsSound == EitherSpec => []RegisteredSound
<1>1. R!RegisteredSound => RegisteredSound
  BY DEF RegisteredSound
<1>2. QED
  BY <1>1, PartsOfAccounts, RegistrationSound, PTL

=============================================================================
