----------------------------- MODULE GameSession -----------------------------
(***************************************************************************)
(* services/gameSession.service.ts: the sessions one user plays of one     *)
(* game, and what ending a session writes - the statistics, the XP ledger, *)
(* the leaderboard entry, the achievements and their notifications - each  *)
(* by a statement of its own, in no transaction.  Requests interleave      *)
(* between the statements, and a request may die between any two.          *)
(***************************************************************************)
EXTENDS Integers, FiniteSets, Sequences

CONSTANTS
  Procs,       \* requests in flight at one time
  Scores,      \* the scores a session may end with
  Results,     \* WIN, LOSS, DRAW or none
  ByWins,      \* achievements go by wins (tic-tac-toe), or by score (snake)
  Tiers,       \* the wins, or scores, that earn an achievement
  Reward,      \* xpReward of an achievement
  MaxSessions  \* bound on the sessions started

ASSUME GameSessionAssumption ==
  /\ IsFiniteSet(Procs)
  /\ Scores \subseteq Nat
  /\ ByWins \in BOOLEAN
  /\ Tiers \subseteq Nat \ {0}
  /\ Reward \in Nat
  /\ MaxSessions \in Nat

VARIABLES
  sessions,  \* the GameSession rows, in the order they were started
  stats,     \* the UserGameStats row
  plays,     \* playCount of the RecentlyPlayed row
  entry,     \* the score of the LeaderboardEntry row, 0 while there is none
  achieved,  \* the tiers with a UserAchievement row
  paid,      \* XP in the ledger for each tier
  notified,  \* notifications of each tier
  recorded,  \* history: how often each session was added to the statistics
  xpRows,    \* XP rows in the ledger for each session
  lost,      \* history: the wins whose request died before it looked at them
  req        \* the request in each slot

book == <<achieved, paid, notified>>
tally == <<stats, recorded, lost>>
vars == <<sessions, plays, entry, xpRows, book, tally, req>>

Idle == [pc |-> "idle", s |-> 0, result |-> "none", score |-> 0, high |-> 0, wins |-> 0, tier |-> 0]

Init ==
  /\ sessions = <<>>
  /\ stats = [played |-> 0, wins |-> 0, high |-> 0]
  /\ plays = 0 /\ entry = 0
  /\ achieved = {} /\ paid = [t \in Tiers |-> 0] /\ notified = [t \in Tiers |-> 0]
  /\ recorded = [s \in 1..MaxSessions |-> 0] /\ xpRows = [s \in 1..MaxSessions |-> 0]
  /\ lost = {}
  /\ req = [p \in Procs |-> Idle]

At(p, pc) == req[p].pc = pc
Become(p, r) == req' = [req EXCEPT ![p] = r]
Goto(p, pc) == Become(p, [req[p] EXCEPT !.pc = pc])

-----------------------------------------------------------------------------

start(p) ==
  /\ At(p, "idle") /\ Len(sessions) < MaxSessions
  /\ sessions' = Append(sessions, [status |-> "IN_PROGRESS", result |-> "none", score |-> 0])
  /\ Become(p, [Idle EXCEPT !.pc = "play"])
  /\ UNCHANGED <<plays, entry, xpRows, book, tally>>

recordPlay(p) ==
  /\ At(p, "play")
  /\ plays' = plays + 1
  /\ Become(p, Idle)
  /\ UNCHANGED <<sessions, entry, xpRows, book, tally>>

\* The session is read; a request for one that is over is answered at once.
end(p) ==
  /\ At(p, "idle")
  /\ \E s \in DOMAIN sessions, result \in Results, score \in Scores :
       IF sessions[s].status = "IN_PROGRESS"
       THEN Become(p, [Idle EXCEPT !.pc = "complete", !.s = s, !.result = result, !.score = score])
       ELSE UNCHANGED req
  /\ UNCHANGED <<sessions, plays, entry, xpRows, book, tally>>

abandon(p) ==
  /\ At(p, "idle")
  /\ \E s \in DOMAIN sessions :
       IF sessions[s].status = "IN_PROGRESS"
       THEN Become(p, [Idle EXCEPT !.pc = "abandon", !.s = s])
       ELSE UNCHANGED req
  /\ UNCHANGED <<sessions, plays, entry, xpRows, book, tally>>

\* Seeded fault: the update writes the result but not the status.
Fault_complete_NoStatus(p) ==
  LET r == req[p] IN
  /\ \/ /\ r.pc = "complete"
        /\ sessions' = [sessions EXCEPT ![r.s].result = r.result, ![r.s].score = r.score]
        /\ Goto(p, "read")
     \/ r.pc = "abandon" /\ Become(p, Idle) /\ UNCHANGED sessions
  /\ UNCHANGED <<plays, entry, xpRows, book, tally>>

\* An update by id alone: whatever the row has become meanwhile.
complete(p) ==
  LET r == req[p] IN
  /\ \/ /\ r.pc = "complete"
        /\ sessions' = [sessions EXCEPT ![r.s] =
             [status |-> "COMPLETED", result |-> r.result, score |-> r.score]]
        /\ Goto(p, "read")
     \/ /\ r.pc = "abandon"
        /\ sessions' = [sessions EXCEPT ![r.s].status = "ABANDONED", ![r.s].score = 0]
        /\ Become(p, Idle)
  /\ UNCHANGED <<plays, entry, xpRows, book, tally>>

ReadHighScore(p) ==
  /\ At(p, "read")
  /\ Become(p, [req[p] EXCEPT !.pc = "record", !.high = stats.high])
  /\ UNCHANGED <<sessions, plays, entry, xpRows, book, tally>>

Won(r) == IF r.result = "WIN" THEN 1 ELSE 0

\* Seeded fault: the row as it was before the upsert is handed on.
Fault_recordSessionResult_OldRow(p) ==
  LET r == req[p] IN
  /\ r.pc = "record"
  /\ stats' = [played |-> stats.played + 1, wins |-> stats.wins + Won(r),
               high |-> IF r.score > r.high THEN r.score ELSE r.high]
  /\ recorded' = [recorded EXCEPT ![r.s] = @ + 1]
  /\ Become(p, [r EXCEPT !.pc = "xp", !.wins = stats.wins])
  /\ UNCHANGED <<sessions, plays, entry, xpRows, book, lost>>

\* The upsert counts in place, but writes the high score it has computed; the
\* row it returns holds the wins by now.
recordSessionResult(p) ==
  LET r == req[p] IN
  /\ r.pc = "record"
  /\ stats' = [played |-> stats.played + 1, wins |-> stats.wins + Won(r),
               high |-> IF r.score > r.high THEN r.score ELSE r.high]
  /\ recorded' = [recorded EXCEPT ![r.s] = @ + 1]
  /\ Become(p, [r EXCEPT !.pc = "xp", !.wins = stats.wins + Won(r)])
  /\ UNCHANGED <<sessions, plays, entry, xpRows, book, lost>>

\* One row, whatever its amount: every session is worth SESSION_PLAYED.
award(p) ==
  /\ At(p, "xp")
  /\ xpRows' = [xpRows EXCEPT ![req[p].s] = @ + 1]
  /\ Goto(p, IF req[p].score > 0 THEN "board" ELSE "earn")
  /\ UNCHANGED <<sessions, plays, entry, book, tally>>

ReadEntry(p) ==
  /\ At(p, "board")
  /\ Goto(p, IF entry >= req[p].score THEN "earn" ELSE "submit")
  /\ UNCHANGED <<sessions, plays, entry, xpRows, book, tally>>

submitScoreIfHigher(p) ==
  /\ At(p, "submit")
  /\ entry' = req[p].score
  /\ Goto(p, "earn")
  /\ UNCHANGED <<sessions, plays, xpRows, book, tally>>

\* A win earns the tier it reaches exactly, a score the highest it reaches.
Earned(r) ==
  IF ByWins
  THEN {t \in Tiers : r.result = "WIN" /\ t = r.wins}
  ELSE {t \in Tiers : t <= r.score /\ \A u \in Tiers : u <= r.score => u <= t}

checkAchievements(p) ==
  /\ At(p, "earn")
  /\ \/ /\ Earned(req[p]) \subseteq achieved
        /\ Become(p, Idle)
     \/ \E t \in Earned(req[p]) \ achieved :
          Become(p, [req[p] EXCEPT !.pc = "unlock", !.tier = t])
  /\ UNCHANGED <<sessions, plays, entry, xpRows, book, tally>>

\* Seeded fault: no unique index on the achievements of a user.
Fault_unlock_NoIndex(p) ==
  /\ At(p, "unlock")
  /\ achieved' = achieved \cup {req[p].tier}
  /\ Goto(p, "reward")
  /\ UNCHANGED <<sessions, plays, entry, xpRows, paid, notified, tally>>

\* The unique index refuses a second row, which fails the request.
unlock(p) ==
  /\ At(p, "unlock")
  /\ \/ /\ req[p].tier \notin achieved
        /\ achieved' = achieved \cup {req[p].tier}
        /\ Goto(p, "reward")
     \/ /\ req[p].tier \in achieved
        /\ Goto(p, "rejected")
        /\ UNCHANGED achieved
  /\ UNCHANGED <<sessions, plays, entry, xpRows, paid, notified, tally>>

unlockIfEligible(p) ==
  /\ \/ /\ At(p, "reward")
        /\ paid' = [paid EXCEPT ![req[p].tier] = @ + Reward]
        /\ Goto(p, "notify")
        /\ UNCHANGED notified
     \/ /\ At(p, "notify")
        /\ notified' = [notified EXCEPT ![req[p].tier] = @ + 1]
        /\ Become(p, Idle)
        /\ UNCHANGED paid
  /\ UNCHANGED <<sessions, plays, entry, xpRows, achieved, tally>>

\* The error handler answers a request that failed.
Answer(p) ==
  /\ At(p, "rejected") /\ Become(p, Idle)
  /\ UNCHANGED <<sessions, plays, entry, xpRows, book, tally>>

\* A statement fails or the process ends; what is written stays written.
Abort(p) ==
  LET r == req[p] IN
  /\ r.pc \notin {"idle", "rejected"}
  /\ lost' = IF r.pc \in {"play", "complete", "abandon"} THEN lost
             ELSE lost \cup {IF r.result = "WIN" THEN r.wins ELSE 0}
  /\ Become(p, Idle)
  /\ UNCHANGED <<sessions, plays, entry, xpRows, book, stats, recorded>>

Next ==
  \E p \in Procs :
    \/ start(p) \/ recordPlay(p)
    \/ end(p) \/ abandon(p) \/ complete(p)
    \/ ReadHighScore(p) \/ recordSessionResult(p)
    \/ award(p)
    \/ ReadEntry(p) \/ submitScoreIfHigher(p)
    \/ checkAchievements(p) \/ unlock(p) \/ unlockIfEligible(p) \/ Answer(p)
    \/ Abort(p)

Spec == Init /\ [][Next]_vars

-----------------------------------------------------------------------------

Steps ==
  {"idle", "play", "complete", "abandon", "read", "record", "xp", "board", "submit",
   "earn", "unlock", "reward", "notify", "rejected"}

TypeOK ==
  /\ sessions \in Seq([status : {"IN_PROGRESS", "COMPLETED", "ABANDONED"},
                       result : Results \cup {"none"}, score : Scores \cup {0}])
  /\ Len(sessions) <= MaxSessions
  /\ stats \in [played : Nat, wins : Nat, high : Nat]
  /\ plays \in Nat /\ entry \in Nat
  /\ achieved \subseteq Tiers /\ paid \in [Tiers -> Nat] /\ notified \in [Tiers -> Nat]
  /\ recorded \in [1..MaxSessions -> Nat] /\ xpRows \in [1..MaxSessions -> Nat]
  /\ lost \subseteq Nat
  /\ req \in [Procs -> [pc : Steps, s : 0..MaxSessions, result : Results \cup {"none"},
                        score : Scores \cup {0}, high : Nat, wins : Nat, tier : Tiers \cup {0}]]
  /\ \A p \in Procs :
       /\ ~At(p, "idle") /\ ~At(p, "play") /\ ~At(p, "rejected") => req[p].s \in DOMAIN sessions
       /\ req[p].pc \in {"unlock", "reward", "notify"} => req[p].tier \in Tiers

\* A session counts at most once per request in flight when it was ended: an
\* ended session is not added to the statistics again by a later request.
RecordedBounded ==
  \A s \in 1..MaxSessions : recorded[s] <= Cardinality(Procs)

\* The requests that are to add a session to the statistics.
Ending(s) == {p \in Procs : req[p].pc \in {"complete", "read", "record"} /\ req[p].s = s}

\* Why: while a session is in progress it has not been counted, and from then
\* on only the requests that found it so are left to count it.
CountedAsEnded ==
  \A s \in 1..MaxSessions :
    /\ recorded[s] + Cardinality(Ending(s)) <= Cardinality(Procs)
    /\ s \notin DOMAIN sessions => recorded[s] = 0
    /\ s \in DOMAIN sessions /\ sessions[s].status = "IN_PROGRESS" =>
         /\ recorded[s] = 0
         /\ \A p \in Ending(s) : At(p, "complete")

IInv == TypeOK /\ CountedAsEnded

\* An achievement is rewarded and announced at most once, however many sessions
\* reach it at the same time, and only to a user who has it.
AchievementOnce ==
  \A t \in Tiers :
    /\ paid[t] <= Reward /\ notified[t] <= 1
    /\ t \notin achieved => paid[t] = 0 /\ notified[t] = 0

\* The one request that made the wins reach a tier unlocks it, unless it dies:
\* with wins counted in place no two requests see the same number of them.
TierNoticed ==
  \A t \in Tiers :
    ByWins /\ stats.wins >= t =>
      \/ t \in achieved \cup lost
      \/ \E p \in Procs :
           /\ req[p].pc \in {"xp", "board", "submit", "earn", "unlock"}
           /\ req[p].result = "WIN" /\ req[p].wins = t

Completed == {s \in DOMAIN sessions : sessions[s].status = "COMPLETED"}

\* The aggregate and the leaderboard entry, kept session by session, are what
\* the completed sessions add up to, whenever no request is at work on them
\* and none has died over them.
AggregateAgrees ==
  (lost = {} /\ \A p \in Procs : At(p, "idle")) =>
    /\ stats.played = Cardinality(Completed)
    /\ stats.wins = Cardinality({s \in Completed : sessions[s].result = "WIN"})
    /\ stats.high \in {sessions[s].score : s \in Completed} \cup {0}
    /\ \A s \in Completed : sessions[s].score <= stats.high
    /\ entry = stats.high

-----------------------------------------------------------------------------

\* "This session has already been completed.": a session is added to the
\* statistics once.
EndedOnce == \A s \in 1..MaxSessions : recorded[s] <= 1

\* "keeping the higher of the existing/new score": the leaderboard entry never
\* goes down.
HigherKept == [][entry' >= entry]_vars

\* "Safe to call speculatively on every session-end": looking for achievements
\* never fails the request that ends a session.
UnlockNeverFails == \A p \in Procs : ~At(p, "rejected")

=============================================================================
