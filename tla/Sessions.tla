------------------------------ MODULE Sessions ------------------------------
(***************************************************************************)
(* services/auth.service.ts and token.service.ts: the sessions of one      *)
(* account, the rotation of its refresh tokens and the reset of its        *)
(* password.                                                               *)
(*                                                                         *)
(* Every awaited statement is a step of its own and no transaction joins   *)
(* any two; a request dies between any two of them.  A signature is taken  *)
(* to hold, and what a cookie carries is known to whoever presents it.     *)
(* The failed-attempt counter of login is module Lockout.                  *)
(***************************************************************************)
EXTENDS Integers, FiniteSets

CONSTANTS
  Procs,       \* requests in flight at one time
  Tokens,      \* refresh tokens ever minted: 1..n, in that order
  Ids,         \* sessions ever opened: 1..n, in that order
  Links,       \* reset links ever mailed
  NoLink,
  MaxPasswords \* bound on the changes of the password

VARIABLES
  password, \* the number of times passwordHash was changed
  session,  \* of each session row: none, live, or ended (revoked or expired)
  token,    \* the refresh token rows
  link,     \* of each reset link: none, open, used or expired
  req,      \* the request in each slot
  owed,     \* history: a reset died after its password, before its revocation
  sealed    \* history: what an ended session could hold when it ended

vars == <<password, session, token, link, req, owed, sealed>>
history == <<owed, sealed>>

\* A live row carries, as history, the password its sign-in was made with,
\* whether a revocation of everything overtook the request that made it
\* (late), whether another was minted from it (child), and whether a refresh
\* that did so died before it revoked this one (lost).
NoToken == [state |-> "none", sess |-> 0, password |-> 0,
            late |-> FALSE, child |-> FALSE, lost |-> FALSE]
Idle == [pc |-> "idle", tok |-> 0, sess |-> 0, link |-> NoLink, password |-> 0, late |-> FALSE]

Init ==
  /\ password = 0
  /\ session = [s \in Ids |-> "none"]
  /\ token = [t \in Tokens |-> NoToken]
  /\ link = [l \in Links |-> "none"]
  /\ req = [p \in Procs |-> Idle]
  /\ owed = FALSE /\ sealed = [s \in Ids |-> 0]

At(p, pc) == req[p].pc = pc
Become(p, r) == req' = [req EXCEPT ![p] = r]
Go(p, pc) == Become(p, [req[p] EXCEPT !.pc = pc])

-----------------------------------------------------------------------------
(* The reset of a password.                                                *)

\* Asked for by anybody, any number of times: each link is a row of its own.
forgotPassword(l) ==
  /\ link[l] = "none"
  /\ link' = [link EXCEPT ![l] = "open"]
  /\ UNCHANGED <<password, session, token, req, history>>

\* A link that is used or expired ends the request.
resetPassword(p, l) ==
  /\ At(p, "idle") /\ link[l] = "open"
  /\ Become(p, [Idle EXCEPT !.pc = "updatePassword", !.link = l])
  /\ UNCHANGED <<password, session, token, link, history>>

updatePassword(p) ==
  /\ At(p, "updatePassword") /\ password < MaxPasswords
  /\ password' = password + 1
  /\ Go(p, "markUsed")
  /\ UNCHANGED <<session, token, link, history>>

\* Seeded fault: a reset ends once its link is used up.
Fault_markPasswordResetTokenUsed_Ends(p) ==
  /\ At(p, "markUsed")
  /\ link' = [link EXCEPT ![req[p].link] = "used"]
  /\ Become(p, Idle)
  /\ UNCHANGED <<password, session, token, history>>

markPasswordResetTokenUsed(p) ==
  /\ At(p, "markUsed")
  /\ link' = [link EXCEPT ![req[p].link] = "used"]
  /\ Go(p, "revokeAll")
  /\ UNCHANGED <<password, session, token, history>>

LinkExpires(l) ==
  /\ link[l] = "open"
  /\ link' = [link EXCEPT ![l] = "expired"]
  /\ UNCHANGED <<password, session, token, req, history>>

-----------------------------------------------------------------------------
(* Sessions and refresh tokens.                                            *)

\* The password was right when it was read.
login(p) ==
  /\ At(p, "idle")
  /\ Become(p, [Idle EXCEPT !.pc = "create", !.password = password])
  /\ UNCHANGED <<password, session, token, link, history>>

createSession(p) ==
  /\ At(p, "create")
  /\ \E s \in Ids :
       /\ session[s] = "none" /\ \A i \in Ids : i < s => session[i] # "none"
       /\ session' = [session EXCEPT ![s] = "live"]
       /\ Become(p, [req[p] EXCEPT !.pc = "mint", !.sess = s])
  /\ UNCHANGED <<password, token, link, history>>

\* A login ends here; a refresh has its old token still to revoke.
mintTokenPair(p) ==
  /\ At(p, "mint")
  /\ \E t \in Tokens :
       /\ token[t].state = "none" /\ \A i \in Tokens : i < t => token[i].state # "none"
       /\ token' = [i \in Tokens |->
            IF i = t THEN [NoToken EXCEPT !.state = "live", !.sess = req[p].sess,
                             !.password = req[p].password, !.late = req[p].late]
            ELSE IF i = req[p].tok /\ token[i].state = "live" THEN [token[i] EXCEPT !.child = TRUE]
            ELSE token[i]]
  /\ Become(p, IF req[p].tok = 0 THEN Idle ELSE [Idle EXCEPT !.pc = "rotate", !.tok = req[p].tok])
  /\ UNCHANGED <<password, session, link, history>>

\* findRefreshTokenByHash: a row that is gone ends the request, and a revoked
\* one is a reuse.
rotate(p, t) ==
  /\ At(p, "idle")
  /\ \/ /\ token[t].state = "live"
        /\ Become(p, [Idle EXCEPT !.pc = "session", !.tok = t, !.sess = token[t].sess,
                                  !.password = token[t].password, !.late = token[t].late])
     \/ /\ token[t].state = "revoked"
        /\ Become(p, [Idle EXCEPT !.pc = "revokeAll"])
  /\ UNCHANGED <<password, session, token, link, history>>

\* Seeded fault: the session's row is found and not looked at.
Fault_FindSession_AnyState(p) ==
  /\ At(p, "session")
  /\ Go(p, "mint")
  /\ UNCHANGED <<password, session, token, link, history>>

FindSession(p) ==
  /\ At(p, "session")
  /\ IF session[req[p].sess] = "live" THEN Go(p, "mint") ELSE Become(p, Idle)
  /\ UNCHANGED <<password, session, token, link, history>>

\* A row that is not live any more needs no more of its history.
Dead(t, state) == [NoToken EXCEPT !.state = state, !.sess = token[t].sess]

Revoke(ts) ==
  token' = [t \in Tokens |->
    IF t \in ts /\ token[t].state = "live" THEN Dead(t, "revoked") ELSE token[t]]

\* Seeded fault: the request that mints leaves the old token as it was.
Fault_rotateRefreshToken_Kept(p) ==
  /\ At(p, "rotate")
  /\ Become(p, Idle)
  /\ UNCHANGED <<password, session, token, link, history>>

\* The update fails if the sweep has deleted the row by now.
rotateRefreshToken(p) ==
  /\ At(p, "rotate")
  /\ Revoke({req[p].tok})
  /\ Become(p, Idle)
  /\ UNCHANGED <<password, session, link, history>>

\* The requests that may yet mint without another look at the token's row.
PastCheck(r) == r.pc \in {"create", "session", "mint"}

\* Every token of the user, but not its sessions, and not what is on its way.
revokeAllForUser(p) ==
  /\ At(p, "revokeAll")
  /\ Revoke(Tokens)
  /\ req' = [q \in Procs |->
       IF q = p THEN Idle
       ELSE IF PastCheck(req[q]) THEN [req[q] EXCEPT !.late = TRUE] ELSE req[q]]
  /\ owed' = FALSE
  /\ UNCHANGED <<password, session, link, sealed>>

TokensOf(s) == {t \in Tokens : token[t].state # "none" /\ token[t].sess = s}
Minting(s) == {p \in Procs : At(p, "mint") /\ req[p].sess = s}

End(s) ==
  /\ session' = [session EXCEPT ![s] = "ended"]
  /\ sealed' = [sealed EXCEPT ![s] =
       IF session[s] = "live" THEN Cardinality(TokensOf(s)) + Cardinality(Minting(s)) ELSE @]

\* revokeSession, and then the refresh token of the same cookies.
logout(p, t) ==
  /\ At(p, "idle") /\ token[t].state # "none"
  /\ End(token[t].sess)
  /\ Become(p, [Idle EXCEPT !.pc = "revoke", !.tok = t])
  /\ UNCHANGED <<password, token, link, owed>>

\* A failure here is swallowed.
revokeRefreshToken(p) ==
  /\ At(p, "revoke")
  /\ Revoke({req[p].tok})
  /\ Become(p, Idle)
  /\ UNCHANGED <<password, session, link, history>>

SessionExpires(s) ==
  /\ session[s] = "live"
  /\ End(s)
  /\ UNCHANGED <<password, token, link, req, owed>>

\* Refused from its expiry on, and deleted by the next sweep.
TokenExpires(t) ==
  /\ token[t].state \in {"live", "revoked"}
  /\ token' = [token EXCEPT ![t] = Dead(t, "gone")]
  /\ UNCHANGED <<password, session, link, req, history>>

\* Between the new password of a reset and its revocation.
Resetting(r) == r.pc \in {"markUsed", "revokeAll"} /\ r.link # NoLink

\* A statement fails, or the process ends.
Abort(p) ==
  /\ ~At(p, "idle")
  /\ owed' = (owed \/ Resetting(req[p]))
  /\ token' = [t \in Tokens |->
       IF At(p, "rotate") /\ t = req[p].tok /\ token[t].state = "live"
       THEN [token[t] EXCEPT !.lost = TRUE] ELSE token[t]]
  /\ Become(p, Idle)
  /\ UNCHANGED <<password, session, link, sealed>>

Step(p) ==
  \/ updatePassword(p) \/ markPasswordResetTokenUsed(p)
  \/ createSession(p) \/ mintTokenPair(p) \/ FindSession(p) \/ rotateRefreshToken(p)
  \/ revokeAllForUser(p) \/ revokeRefreshToken(p)
  \/ Abort(p)

Next ==
  \/ \E p \in Procs :
       \/ login(p)
       \/ \E l \in Links : resetPassword(p, l)
       \/ \E t \in Tokens : rotate(p, t) \/ logout(p, t)
       \/ Step(p)
  \/ \E l \in Links : forgotPassword(l) \/ LinkExpires(l)
  \/ \E s \in Ids : SessionExpires(s)
  \/ \E t \in Tokens : TokenExpires(t)

Spec == Init /\ [][Next]_vars

-----------------------------------------------------------------------------

Points ==
  {"idle", "updatePassword", "markUsed",
   "create", "session", "mint", "rotate", "revokeAll", "revoke"}

TypeOK ==
  /\ password \in Nat
  /\ session \in [Ids -> {"none", "live", "ended"}]
  /\ token \in [Tokens -> [state : {"none", "live", "revoked", "gone"}, sess : Ids \cup {0},
                           password : Nat, late : BOOLEAN, child : BOOLEAN, lost : BOOLEAN]]
  /\ link \in [Links -> {"none", "open", "used", "expired"}]
  /\ req \in [Procs -> [pc : Points, tok : Tokens \cup {0}, sess : Ids \cup {0},
                        link : Links \cup {NoLink}, password : Nat, late : BOOLEAN]]
  /\ owed \in BOOLEAN /\ sealed \in [Ids -> Nat]

\* A new password logs everybody out: a token that goes back to an older one
\* is live only while the reset is on its way to the revocation, if it died
\* there, or if the token comes from a login or a refresh that was past its
\* own checks when all tokens were revoked.
OldPasswordOut ==
  \A t \in Tokens :
    token[t].state = "live" /\ token[t].password < password =>
      token[t].late \/ owed \/ \E p \in Procs : Resetting(req[p])

\* Rotation: a refresh token that another was minted from is not good for a
\* third, except to refreshes that were past the check together with the one
\* that minted and has yet to revoke it, or after one that died there.
RotatedOnce ==
  \A t \in Tokens :
    token[t].state = "live" /\ token[t].child =>
      token[t].lost \/ \E p \in Procs : At(p, "rotate") /\ req[p].tok = t

\* Logout: a session that has ended takes no more tokens than it had, and one
\* for each request that had found it live, or opened it, by then.
EndedIsSealed ==
  \A s \in Ids : session[s] = "ended" => Cardinality(TokensOf(s)) <= sealed[s]

(* Why they hold.                                                          *)

SessionsAssumption ==
  /\ IsFiniteSet(Procs) /\ IsFiniteSet(Tokens)
  /\ 0 \notin Tokens /\ 0 \notin Ids /\ NoLink \notin Links

\* What a request or a token refers to is there, ...
Opened(s) == s \in Ids /\ session[s] # "none"

Held ==
  /\ \A p \in Procs : At(p, "updatePassword") \/ At(p, "markUsed") => req[p].link \in Links
  /\ \A p \in Procs : At(p, "session") \/ At(p, "mint") => Opened(req[p].sess)
  /\ \A t \in Tokens : token[t].state # "none" => Opened(token[t].sess)

\* ... a request that may yet mint for an older password was overtaken by a
\* revocation, or the revocation is to come, ...
OldRequestsOut ==
  \A p \in Procs :
    PastCheck(req[p]) /\ req[p].password < password =>
      req[p].late \/ owed \/ \E q \in Procs : Resetting(req[q])

\* ... and the room an ended session has left is taken by the requests that
\* are past its check.
Sealing ==
  \A s \in Ids : session[s] = "ended" =>
    Cardinality(TokensOf(s)) + Cardinality(Minting(s)) <= sealed[s]

IInv == TypeOK /\ Held /\ OldPasswordOut /\ OldRequestsOut /\ RotatedOnce /\ Sealing

=============================================================================
