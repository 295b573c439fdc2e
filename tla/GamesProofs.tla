---------------------------- MODULE GamesProofs -----------------------------
(***************************************************************************)
(* A session counts at most once per request in flight, for any number of  *)
(* requests, sessions, scores and tiers: only the requests that found a    *)
(* session in progress ever add it to the statistics, each of them once.   *)
(* Then the lists MCGames composes it with: what they show is so, but for  *)
(* the races the cache leaves open, and boards are in order.               *)
(***************************************************************************)
EXTENDS MCGames, FiniteSetTheorems, SequenceTheorems, NaturalsInduction, WellFoundedInduction, TLAPS

Session ==
  [status : {"IN_PROGRESS", "COMPLETED", "ABANDONED"},
   result : Results \cup {"none"}, score : Scores \cup {0}]

Request ==
  [pc : Steps, s : 0..MaxSessions, result : Results \cup {"none"},
   score : Scores \cup {0}, high : Nat, wins : Nat, tier : Tiers \cup {0}]

\* A request names a session that was started, and a tier if it unlocks one.
Fits(r, started) ==
  /\ r.pc \notin {"idle", "play", "rejected"} => r.s \in started
  /\ r.pc \in {"unlock", "reward", "notify"} => r.tier \in Tiers

\* The rows other than the sessions.
RowsOK ==
  /\ stats \in [played : Nat, wins : Nat, high : Nat]
  /\ plays \in Nat /\ entry \in Nat
  /\ achieved \subseteq Tiers /\ paid \in [Tiers -> Nat] /\ notified \in [Tiers -> Nat]
  /\ recorded \in [1..MaxSessions -> Nat] /\ xpRows \in [1..MaxSessions -> Nat]
  /\ lost \subseteq Nat

LEMMA TypeParts ==
  TypeOK <=>
    /\ sessions \in Seq(Session) /\ Len(sessions) <= MaxSessions
    /\ RowsOK
    /\ req \in [Procs -> Request]
    /\ \A p \in Procs : Fits(req[p], DOMAIN sessions)
BY DEF TypeOK, Session, Request, RowsOK, Fits, At

LEMMA Bounds ==
  ASSUME NEW P \in SUBSET Procs
  PROVE  /\ IsFiniteSet(P) /\ Cardinality(P) \in Nat
         /\ Cardinality(P) <= Cardinality(Procs) /\ Cardinality(Procs) \in Nat
BY GameSessionAssumption, FS_Subset, FS_CardinalityType

LEMMA InitInv == Init => IInv
<1> SUFFICES ASSUME Init PROVE IInv
  OBVIOUS
<1>1. TypeOK
  BY GameSessionAssumption, EmptySeq DEF Init, TypeOK, Idle, Steps, At
<1>2. CountedAsEnded
  <2> SUFFICES ASSUME NEW s \in 1..MaxSessions
               PROVE  /\ recorded[s] = 0 /\ s \notin DOMAIN sessions
                      /\ recorded[s] + Cardinality(Ending(s)) <= Cardinality(Procs)
    BY DEF CountedAsEnded
  <2>1. recorded[s] = 0 /\ s \notin DOMAIN sessions
    BY EmptySeq DEF Init
  <2>2. PICK E \in SUBSET Procs : E = Ending(s)
    BY DEF Ending
  <2>3. Cardinality(E) \in Nat /\ Cardinality(E) <= Cardinality(Procs)
    BY Bounds
  <2>4. QED
    BY <2>1, <2>2, <2>3
<1>3. QED
  BY <1>1, <1>2 DEF IInv

\* The requests at work on a session after a step of p's.
LEMMA EndingStep ==
  ASSUME TypeOK, NEW p \in Procs, NEW r \in Request, req' = [req EXCEPT ![p] = r],
         NEW s \in 1..MaxSessions
  PROVE  /\ req'[p] = r /\ \A q \in Procs \ {p} : req'[q] = req[q]
         /\ ~(r.pc \in {"complete", "read", "record"} /\ r.s = s) => Ending(s)' = Ending(s) \ {p}
         /\ (r.pc \in {"complete", "read", "record"} /\ r.s = s) => Ending(s)' = Ending(s) \cup {p}
<1>1. req'[p] = r /\ \A q \in Procs \ {p} : req'[q] = req[q]
  BY DEF TypeOK
<1>2. QED
  BY <1>1 DEF Ending

\* A step that counts nothing, starts nothing and adds no request.
LEMMA QuietStep ==
  ASSUME IInv, NEW p \in Procs, NEW r \in Request, req' = [req EXCEPT ![p] = r],
         recorded' = recorded, DOMAIN sessions' = DOMAIN sessions,
         \A s \in DOMAIN sessions : sessions'[s].status = "IN_PROGRESS" =>
           /\ sessions[s].status = "IN_PROGRESS"
           /\ ~(p \in Ending(s) /\ r.s = s /\ r.pc \in {"read", "record"}),
         r.pc \in {"complete", "read", "record"} => p \in Ending(r.s) /\ r.pc # "complete"
  PROVE  CountedAsEnded'
<1> SUFFICES ASSUME NEW s \in 1..MaxSessions
             PROVE  /\ recorded'[s] + Cardinality(Ending(s)') <= Cardinality(Procs)
                    /\ s \notin DOMAIN sessions' => recorded'[s] = 0
                    /\ s \in DOMAIN sessions' /\ sessions'[s].status = "IN_PROGRESS" =>
                         /\ recorded'[s] = 0
                         /\ \A q \in Ending(s)' : At(q, "complete")'
  BY DEF CountedAsEnded
<1>1. /\ req'[p] = r /\ \A q \in Procs \ {p} : req'[q] = req[q]
      /\ Ending(s)' \subseteq Ending(s)
  <2>1. TypeOK /\ req'[p] = r /\ \A q \in Procs \ {p} : req'[q] = req[q]
    BY DEF IInv, TypeOK
  <2>2. \A q \in Ending(s)' : q \in Ending(s)
    BY <2>1 DEF Ending
  <2>3. QED
    BY <2>1, <2>2
<1>2. PICK A \in SUBSET Procs, B \in SUBSET Procs : A = Ending(s) /\ B = Ending(s)' /\ B \subseteq A
  BY <1>1 DEF Ending
<1>3. Cardinality(B) <= Cardinality(A) /\ Cardinality(A) \in Nat /\ Cardinality(B) \in Nat /\ Cardinality(Procs) \in Nat
  BY <1>2, Bounds, FS_Subset
<1>4. recorded[s] \in Nat /\ recorded[s] + Cardinality(A) <= Cardinality(Procs)
  BY <1>2 DEF IInv, TypeOK, CountedAsEnded
<1>5. recorded'[s] + Cardinality(B) <= Cardinality(Procs)
  BY <1>3, <1>4
<1>6. ASSUME s \in DOMAIN sessions', sessions'[s].status = "IN_PROGRESS", NEW q \in Ending(s)'
      PROVE  At(q, "complete")'
  <2>1. q \in Ending(s) /\ At(q, "complete")
    BY <1>1, <1>6 DEF IInv, CountedAsEnded
  <2>2. q # p
    BY <1>1, <1>6, <2>1 DEF Ending, At
  <2>3. QED
    BY <1>1, <2>1, <2>2 DEF Ending, At
<1>7. QED
  BY <1>2, <1>5, <1>6 DEF IInv, CountedAsEnded

\* A request that adds its session to the statistics is one fewer to do so.
LEMMA CountingStep ==
  ASSUME IInv, NEW p \in Procs, recordSessionResult(p)
  PROVE  CountedAsEnded'
<1>1. /\ req \in [Procs -> Request] /\ req[p] \in Request /\ recorded \in [1..MaxSessions -> Nat]
      /\ req[p].s \in DOMAIN sessions /\ sessions \in Seq(Session) /\ Len(sessions) <= MaxSessions
  BY TypeParts DEF IInv, recordSessionResult, Fits, RowsOK
<1>2. PICK z \in 1..MaxSessions : z = req[p].s
  <2>1. Len(sessions) \in Nat /\ DOMAIN sessions = 1..Len(sessions) /\ MaxSessions \in Nat
    BY <1>1, LenProperties, GameSessionAssumption
  <2>2. req[p].s \in 1..MaxSessions
    BY <1>1, <2>1
  <2>3. QED
    BY <2>2
<1>3. p \in Ending(z) /\ ~At(p, "complete")
  BY <1>2 DEF recordSessionResult, Ending, At
<1>4. /\ recorded' = [recorded EXCEPT ![z] = @ + 1] /\ sessions' = sessions
      /\ \A q \in Procs \ {p} : req'[q] = req[q]
      /\ req'[p].pc = "xp"
  BY <1>1, <1>2 DEF recordSessionResult, Become, Request
<1>5. \A s \in 1..MaxSessions : Ending(s)' = Ending(s) \ {p}
  BY <1>4 DEF Ending
<1>6. \A s \in 1..MaxSessions \ {z} : Ending(s)' = Ending(s) /\ recorded'[s] = recorded[s]
  BY <1>1, <1>2, <1>4, <1>5 DEF Ending
<1>7. recorded'[z] + Cardinality(Ending(z)') <= Cardinality(Procs)
  <2>1. PICK A \in SUBSET Procs : A = Ending(z)
    BY DEF Ending
  <2>2. Cardinality(A \ {p}) = Cardinality(A) - 1 /\ Cardinality(A) \in Nat
    BY <1>3, <2>1, Bounds, FS_RemoveElement
  <2>3. recorded'[z] = recorded[z] + 1 /\ recorded[z] \in Nat /\ Cardinality(Procs) \in Nat
    BY <1>1, <1>4, Bounds
  <2>4. recorded[z] + Cardinality(A) <= Cardinality(Procs)
    BY <2>1 DEF IInv, CountedAsEnded
  <2>5. Ending(z)' = A \ {p}
    BY <1>5, <2>1
  <2>6. recorded'[z] + Cardinality(A \ {p}) <= Cardinality(Procs)
    BY <2>2, <2>3, <2>4
  <2>7. QED
    BY <2>5, <2>6
<1>8. z \in DOMAIN sessions /\ sessions[z].status # "IN_PROGRESS"
  BY <1>1, <1>2, <1>3 DEF IInv, CountedAsEnded
<1>9. \A s \in 1..MaxSessions : \A q \in Ending(s)' : q # p /\ (At(q, "complete")' <=> At(q, "complete"))
  BY <1>4, <1>5 DEF Ending, At
<1>10. ASSUME NEW s \in 1..MaxSessions, s # z
       PROVE  /\ recorded'[s] + Cardinality(Ending(s)') <= Cardinality(Procs)
              /\ s \notin DOMAIN sessions' => recorded'[s] = 0
              /\ s \in DOMAIN sessions' /\ sessions'[s].status = "IN_PROGRESS" =>
                   /\ recorded'[s] = 0
                   /\ \A q \in Ending(s)' : At(q, "complete")'
  BY <1>4, <1>6, <1>9, <1>10 DEF IInv, CountedAsEnded
<1>11. QED
  BY <1>4, <1>7, <1>8, <1>10 DEF CountedAsEnded

\* Types after a step that changes one request, given those of the rows.
LEMMA TypeStep ==
  ASSUME TypeOK, NEW p \in Procs, NEW r \in Request, req' = [req EXCEPT ![p] = r],
         RowsOK', sessions' \in Seq(Session), Len(sessions') <= MaxSessions,
         DOMAIN sessions \subseteq DOMAIN sessions', Fits(r, DOMAIN sessions')
  PROVE  TypeOK'
<1>1. /\ req \in [Procs -> Request] /\ \A q \in Procs : Fits(req[q], DOMAIN sessions)
  BY TypeParts
<1>2. req' \in [Procs -> Request] /\ \A q \in Procs : Fits(req'[q], DOMAIN sessions')
  BY <1>1 DEF Fits
<1>3. QED
  BY <1>2 DEF TypeOK, Session, Request, RowsOK, Fits, At

\* A step of a request that neither starts, completes nor counts a session.
LEMMA RequestStep ==
  ASSUME IInv, NEW p \in Procs, NEW r \in Request, req' = [req EXCEPT ![p] = r],
         RowsOK', recorded' = recorded, sessions' = sessions, Fits(r, DOMAIN sessions),
         \/ r.pc \notin {"complete", "read", "record"}
         \/ At(p, "read") /\ r.pc = "record" /\ r.s = req[p].s
  PROVE  IInv'
<1>1. sessions \in Seq(Session) /\ Len(sessions) <= MaxSessions
  BY TypeParts DEF IInv
<1>2. TypeOK'
  BY <1>1, TypeStep DEF IInv
<1>3. CountedAsEnded'
  <2>1. r.pc \in {"complete", "read", "record"} => p \in Ending(r.s) /\ r.pc # "complete"
    BY DEF Ending, At
  <2>2. ASSUME NEW s \in DOMAIN sessions, sessions[s].status = "IN_PROGRESS", p \in Ending(s),
               r.pc \in {"read", "record"}
        PROVE  FALSE
    <3>1. s \in 1..MaxSessions
      BY <1>1, LenProperties, GameSessionAssumption
    <3>2. QED
      BY <2>2, <3>1 DEF IInv, CountedAsEnded, At
  <2>3. QED
    BY <2>1, <2>2, QuietStep
<1>4. QED
  BY <1>2, <1>3 DEF IInv

LEMMA StartStep ==
  ASSUME IInv, NEW p \in Procs, start(p)
  PROVE  IInv'
<1>1. /\ sessions \in Seq(Session) /\ Len(sessions) < MaxSessions /\ Len(sessions) \in Nat
      /\ DOMAIN sessions = 1..Len(sessions) /\ MaxSessions \in Nat
  BY TypeParts, LenProperties, GameSessionAssumption DEF IInv, start
<1>2. PICK row \in Session : row = [status |-> "IN_PROGRESS", result |-> "none", score |-> 0]
  BY DEF Session
<1>3. PICK r \in Request : r = [Idle EXCEPT !.pc = "play"]
  <2>1. [Idle EXCEPT !.pc = "play"] \in Request
    BY GameSessionAssumption DEF Idle, Request, Steps
  <2>2. QED
    BY <2>1
<1>4. sessions' = Append(sessions, row) /\ req' = [req EXCEPT ![p] = r] /\ UNCHANGED <<plays, entry, xpRows, book, tally>>
  BY <1>2, <1>3 DEF start, Become
<1>5. /\ sessions' \in Seq(Session) /\ Len(sessions') = Len(sessions) + 1
      /\ \A s \in 1..Len(sessions) : sessions'[s] = sessions[s]
      /\ DOMAIN sessions' = 1..(Len(sessions) + 1)
  BY <1>1, <1>2, <1>4, AppendProperties, LenProperties
<1>6. RowsOK'
  BY <1>4, TypeParts DEF IInv, RowsOK, book, tally
<1>7. TypeOK'
  <2>1. Fits(r, DOMAIN sessions')
    BY <1>3 DEF Fits, Idle
  <2>2. Len(sessions') <= MaxSessions /\ DOMAIN sessions \subseteq DOMAIN sessions'
    BY <1>1, <1>5
  <2>3. QED
    BY <1>4, <1>5, <1>6, <2>1, <2>2, TypeStep DEF IInv
<1>8. \A s \in 1..MaxSessions : Ending(s)' = Ending(s)
  <2>1. ~(r.pc \in {"complete", "read", "record"}) /\ ~(req[p].pc \in {"complete", "read", "record"})
    BY <1>3 DEF Idle, start, At
  <2>2. req \in [Procs -> Request]
    BY TypeParts DEF IInv
  <2>3. QED
    BY <1>4, <2>1, <2>2 DEF Ending
<1>9. \A q \in Procs : At(q, "complete")' <=> At(q, "complete")
  <2>1. req \in [Procs -> Request] /\ r.pc # "complete" /\ ~At(p, "complete")
    BY <1>3, TypeParts DEF IInv, Idle, start, At
  <2>2. QED
    BY <1>4, <2>1 DEF At
<1>10. ASSUME NEW s \in 1..MaxSessions, s \notin DOMAIN sessions PROVE recorded[s] = 0 /\ Ending(s) = {}
  <2>1. \A q \in Procs : Fits(req[q], DOMAIN sessions)
    BY TypeParts DEF IInv
  <2>2. QED
    BY <1>10, <2>1 DEF IInv, CountedAsEnded, Ending, Fits
<1>11. CountedAsEnded'
  <2> SUFFICES ASSUME NEW s \in 1..MaxSessions
               PROVE  /\ recorded'[s] + Cardinality(Ending(s)') <= Cardinality(Procs)
                      /\ s \notin DOMAIN sessions' => recorded'[s] = 0
                      /\ s \in DOMAIN sessions' /\ sessions'[s].status = "IN_PROGRESS" =>
                           /\ recorded'[s] = 0
                           /\ \A q \in Ending(s)' : At(q, "complete")'
    BY DEF CountedAsEnded
  <2>1. recorded' = recorded /\ recorded'[s] + Cardinality(Ending(s)') <= Cardinality(Procs)
    BY <1>4, <1>8 DEF IInv, CountedAsEnded, tally
  <2>2. CASE s \in DOMAIN sessions
    <3>1. sessions'[s] = sessions[s] /\ s \in DOMAIN sessions'
      BY <1>1, <1>5, <2>2
    <3>2. Ending(s) \subseteq Procs
      BY DEF Ending
    <3>3. QED
      BY <1>8, <1>9, <2>1, <2>2, <3>1, <3>2 DEF IInv, CountedAsEnded
  <2>3. CASE s \notin DOMAIN sessions
    BY <1>8, <1>10, <2>1, <2>3
  <2>4. QED
    BY <2>2, <2>3
<1>12. QED
  BY <1>7, <1>11 DEF IInv

\* A request that finds its session in progress joins those that will count it.
LEMMA EndStep ==
  ASSUME IInv, NEW p \in Procs, end(p)
  PROVE  IInv'
<1>0. UNCHANGED <<sessions, plays, entry, xpRows, book, tally>>
  BY DEF end
<1>1. CASE UNCHANGED req
  <2>1. TypeOK'
    BY <1>0, <1>1 DEF IInv, TypeOK, At, book, tally
  <2>2. CountedAsEnded'
    BY <1>0, <1>1 DEF IInv, CountedAsEnded, Ending, At, tally
  <2>3. QED
    BY <2>1, <2>2 DEF IInv
<1>2. ASSUME NEW z \in DOMAIN sessions, NEW result \in Results, NEW points \in Scores,
             sessions[z].status = "IN_PROGRESS",
             Become(p, [Idle EXCEPT !.pc = "complete", !.s = z, !.result = result, !.score = points])
      PROVE  IInv'
  <2>1. /\ sessions \in Seq(Session) /\ Len(sessions) <= MaxSessions
        /\ z \in 1..MaxSessions /\ RowsOK
    BY TypeParts, LenProperties, GameSessionAssumption DEF IInv
  <2>2. PICK r \in Request :
          r = [Idle EXCEPT !.pc = "complete", !.s = z, !.result = result, !.score = points]
    <3>1. z \in 0..MaxSessions /\ 0 \in Tiers \cup {0} /\ points \in Scores \cup {0} /\ result \in Results \cup {"none"}
      BY <2>1, GameSessionAssumption
    <3>2. [Idle EXCEPT !.pc = "complete", !.s = z, !.result = result, !.score = points] \in Request
      BY <3>1 DEF Idle, Request, Steps
    <3>3. QED
      BY <3>2
  <2>3. req' = [req EXCEPT ![p] = r] /\ r.pc = "complete" /\ r.s = z
    BY <1>2, <2>2 DEF Become, Idle
  <2>4. RowsOK'
    BY <1>0, <2>1 DEF RowsOK, book, tally
  <2>5. TypeOK'
    <3>1. Fits(r, DOMAIN sessions')
      BY <1>0, <2>3 DEF Fits
    <3>2. QED
      BY <1>0, <2>1, <2>3, <2>4, <3>1, TypeStep DEF IInv
  <2>6. req'[p] = r /\ \A q \in Procs \ {p} : req'[q] = req[q]
    BY <2>3 DEF IInv, TypeOK
  <2>7. p \notin UNION {Ending(s) : s \in 1..MaxSessions}
    BY DEF end, Ending, At
  <2>8. ASSUME NEW s \in 1..MaxSessions, s # z PROVE Ending(s)' = Ending(s)
    <3>1. p \notin Ending(s)
      BY <2>7
    <3>2. QED
      BY <2>3, <2>6, <2>8, <3>1 DEF Ending
  <2>9. Ending(z)' \subseteq Ending(z) \cup {p}
    BY <2>6 DEF Ending
  <2>10. CountedAsEnded'
    <3> SUFFICES ASSUME NEW s \in 1..MaxSessions
                 PROVE  /\ recorded'[s] + Cardinality(Ending(s)') <= Cardinality(Procs)
                        /\ s \notin DOMAIN sessions' => recorded'[s] = 0
                        /\ s \in DOMAIN sessions' /\ sessions'[s].status = "IN_PROGRESS" =>
                             /\ recorded'[s] = 0
                             /\ \A q \in Ending(s)' : At(q, "complete")'
      BY DEF CountedAsEnded
    <3>1. recorded' = recorded /\ sessions' = sessions
      BY <1>0 DEF tally
    <3>2. CASE s # z
      <4>1. Ending(s)' = Ending(s) /\ \A q \in Ending(s) : q # p /\ q \in Procs
        BY <2>7, <2>8, <3>2 DEF Ending
      <4>2. \A q \in Ending(s) : At(q, "complete")' <=> At(q, "complete")
        BY <2>6, <4>1 DEF At
      <4>3. QED
        BY <3>1, <4>1, <4>2 DEF IInv, CountedAsEnded
    <3>3. CASE s = z
      <4>1. recorded[s] = 0 /\ \A q \in Ending(s) : At(q, "complete") /\ q \in Procs
        BY <1>2, <3>3 DEF IInv, CountedAsEnded, Ending
      <4>2. PICK B \in SUBSET Procs : B = Ending(s)'
        BY DEF Ending
      <4>3. Cardinality(B) <= Cardinality(Procs) /\ Cardinality(B) \in Nat
        BY Bounds
      <4>4. \A q \in Ending(s)' : At(q, "complete")'
        BY <2>3, <2>6, <2>9, <3>3, <4>1 DEF At
      <4>5. QED
        BY <1>2, <3>1, <3>3, <4>1, <4>2, <4>3, <4>4
    <3>4. QED
      BY <3>2, <3>3
  <2>11. QED
    BY <2>5, <2>10 DEF IInv
<1>3. QED
  BY <1>1, <1>2 DEF end

\* A session that is completed or abandoned is in progress no longer.
LEMMA CompleteStep ==
  ASSUME IInv, NEW p \in Procs, complete(p)
  PROVE  IInv'
<1>0. UNCHANGED <<plays, entry, xpRows, book, tally>> /\ recorded' = recorded
  BY DEF complete, tally
<1>1. /\ sessions \in Seq(Session) /\ Len(sessions) <= MaxSessions /\ RowsOK
      /\ req \in [Procs -> Request] /\ req[p] \in Request /\ Fits(req[p], DOMAIN sessions)
  BY TypeParts DEF IInv
<1>2. PICK z \in DOMAIN sessions : z = req[p].s
  BY <1>1 DEF complete, Fits
<1>3. sessions[z] \in Session
  BY <1>1, ElementOfSeq, LenProperties
<1>4. PICK row \in Session, r \in Request :
        /\ sessions' = [sessions EXCEPT ![z] = row] /\ row.status # "IN_PROGRESS"
        /\ req' = [req EXCEPT ![p] = r] /\ Fits(r, DOMAIN sessions)
        /\ \/ r.pc = "read" /\ r.s = z /\ At(p, "complete")
           \/ r.pc = "idle"
  <2>1. CASE At(p, "complete")
    <3>1. /\ req[p].result \in Results \cup {"none"} /\ req[p].score \in Scores \cup {0}
          /\ req[p].pc = "complete"
      BY <1>1, <2>1 DEF Request, At
    <3>2. sessions' = [sessions EXCEPT ![z] = [status |-> "COMPLETED", result |-> req[p].result, score |-> req[p].score]]
      BY <1>2, <3>1 DEF complete
    <3>3. req' = [req EXCEPT ![p] = [req[p] EXCEPT !.pc = "read"]]
      BY <3>1 DEF complete, Goto, Become
    <3>4. [req[p] EXCEPT !.pc = "read"] \in Request
      BY <1>1 DEF Request, Steps
    <3>5. [status |-> "COMPLETED", result |-> req[p].result, score |-> req[p].score] \in Session
      BY <3>1 DEF Session
    <3>6. Fits([req[p] EXCEPT !.pc = "read"], DOMAIN sessions) /\ [req[p] EXCEPT !.pc = "read"].s = z
      BY <1>1, <1>2 DEF Fits, Request
    <3>7. [req[p] EXCEPT !.pc = "read"].pc = "read"
      BY <1>1 DEF Request
    <3>8. QED
      BY <2>1, <3>2, <3>3, <3>4, <3>5, <3>6, <3>7
  <2>2. CASE ~At(p, "complete")
    <3>1. /\ sessions' = [sessions EXCEPT ![z].status = "ABANDONED", ![z].score = 0]
          /\ req' = [req EXCEPT ![p] = Idle]
      BY <1>2, <2>2 DEF complete, At, Become
    <3>2. PICK row \in Session : row = [sessions[z] EXCEPT !.status = "ABANDONED", !.score = 0]
      BY <1>3 DEF Session
    <3>3. sessions' = [sessions EXCEPT ![z] = row] /\ row.status = "ABANDONED"
      BY <1>3, <3>1, <3>2 DEF Session
    <3>4. Idle \in Request /\ Idle.pc = "idle" /\ Fits(Idle, DOMAIN sessions)
      BY GameSessionAssumption DEF Idle, Request, Steps, Fits
    <3>5. QED
      BY <3>1, <3>3, <3>4
  <2>3. QED
    BY <2>1, <2>2
<1>5. /\ sessions' \in Seq(Session) /\ Len(sessions') = Len(sessions) /\ DOMAIN sessions' = DOMAIN sessions
      /\ sessions'[z] = row /\ \A s \in DOMAIN sessions \ {z} : sessions'[s] = sessions[s]
  BY <1>1, <1>4, ExceptSeq
<1>6. TypeOK'
  <2>1. RowsOK'
    BY <1>0, <1>1 DEF RowsOK, book, tally
  <2>2. QED
    BY <1>1, <1>4, <1>5, <2>1, TypeStep DEF IInv
<1>7. CountedAsEnded'
  <2>1. ASSUME NEW s \in DOMAIN sessions, sessions'[s].status = "IN_PROGRESS"
        PROVE  /\ sessions[s].status = "IN_PROGRESS"
               /\ ~(p \in Ending(s) /\ r.s = s /\ r.pc \in {"read", "record"})
    BY <1>4, <1>5, <2>1
  <2>2. r.pc \in {"complete", "read", "record"} => p \in Ending(r.s) /\ r.pc # "complete"
    BY <1>2, <1>4 DEF Ending, At
  <2>3. QED
    BY <1>0, <1>4, <1>5, <2>1, <2>2, QuietStep
<1>8. QED
  BY <1>6, <1>7 DEF IInv

LEMMA RecordStep ==
  ASSUME IInv, NEW p \in Procs, recordSessionResult(p)
  PROVE  IInv'
<1>1. /\ sessions \in Seq(Session) /\ Len(sessions) <= MaxSessions /\ RowsOK
      /\ req[p] \in Request /\ Fits(req[p], DOMAIN sessions)
  BY TypeParts DEF IInv
<1>2. Won(req[p]) \in Nat
  BY DEF Won
<1>3. PICK r \in Request : r = [req[p] EXCEPT !.pc = "xp", !.wins = stats.wins + Won(req[p])]
  <2>1. stats.wins + Won(req[p]) \in Nat
    BY <1>1, <1>2 DEF RowsOK
  <2>2. [req[p] EXCEPT !.pc = "xp", !.wins = stats.wins + Won(req[p])] \in Request
    BY <1>1, <2>1 DEF Request, Steps
  <2>3. QED
    BY <2>2
<1>4. req' = [req EXCEPT ![p] = r] /\ UNCHANGED <<sessions, plays, entry, xpRows, book, lost>>
  BY <1>3 DEF recordSessionResult, Become
<1>5. RowsOK'
  <2>1. stats' \in [played : Nat, wins : Nat, high : Nat]
    <3>1. req[p].score \in Nat /\ req[p].high \in Nat
      <4>1. req[p].score \in Scores \cup {0} /\ req[p].high \in Nat
        BY <1>1 DEF Request
      <4>2. Scores \cup {0} \subseteq Nat
        BY GameSessionAssumption
      <4>3. QED
        BY <4>1, <4>2
    <3>2. stats.played + 1 \in Nat /\ stats.wins + Won(req[p]) \in Nat
      BY <1>1, <1>2 DEF RowsOK
    <3>3. stats' = [played |-> stats.played + 1, wins |-> stats.wins + Won(req[p]),
                   high |-> IF req[p].score > req[p].high THEN req[p].score ELSE req[p].high]
      BY DEF recordSessionResult
    <3>4. QED
      BY <3>1, <3>2, <3>3
  <2>2. recorded' \in [1..MaxSessions -> Nat]
    <3>1. recorded \in [1..MaxSessions -> Nat] /\ recorded' = [recorded EXCEPT ![req[p].s] = @ + 1]
      BY <1>1 DEF recordSessionResult, RowsOK
    <3>2. PICK z \in 1..MaxSessions : z = req[p].s
      <4>1. DOMAIN sessions = 1..Len(sessions) /\ Len(sessions) \in Nat /\ MaxSessions \in Nat
        BY <1>1, LenProperties, GameSessionAssumption
      <4>2. req[p].s \in DOMAIN sessions
        BY <1>1 DEF Fits, recordSessionResult
      <4>3. req[p].s \in 1..MaxSessions
        BY <1>1, <4>1, <4>2
      <4>4. QED
        BY <4>3
    <3>3. recorded[z] + 1 \in Nat /\ recorded' = [recorded EXCEPT ![z] = recorded[z] + 1]
      BY <3>1, <3>2
    <3>4. QED
      BY <3>1, <3>3
  <2>3. QED
    BY <1>1, <1>4, <2>1, <2>2 DEF RowsOK, book
<1>6. Fits(r, DOMAIN sessions)
  BY <1>1, <1>3 DEF Fits, Request, recordSessionResult
<1>7. TypeOK'
  BY <1>1, <1>4, <1>5, <1>6, TypeStep DEF IInv
<1>8. QED
  BY <1>7, CountingStep DEF IInv

LEMMA StepInv == IInv /\ [Next]_vars => IInv'
<1> SUFFICES ASSUME IInv, [Next]_vars PROVE IInv'
  OBVIOUS
<1>1. /\ sessions \in Seq(Session) /\ RowsOK /\ req \in [Procs -> Request]
      /\ \A p \in Procs : req[p] \in Request /\ Fits(req[p], DOMAIN sessions)
  BY TypeParts DEF IInv
<1>2. Idle \in Request /\ Idle.pc = "idle" /\ Fits(Idle, DOMAIN sessions)
  BY GameSessionAssumption DEF Idle, Request, Steps, Fits
\* A request that goes on to a step past the counting, naming what it named.
<1>3. ASSUME NEW p \in Procs, NEW pc \in Steps \ {"complete", "read", "record", "unlock", "reward", "notify"},
             ~At(p, "idle"), ~At(p, "play"), ~At(p, "rejected"),
             Goto(p, pc), RowsOK', recorded' = recorded, sessions' = sessions
      PROVE  IInv'
  <2>1. PICK r \in Request : r = [req[p] EXCEPT !.pc = pc]
    BY <1>1, <1>3 DEF Request
  <2>2. r.pc = pc /\ r.s = req[p].s
    BY <1>1, <2>1 DEF Request
  <2>3. Fits(r, DOMAIN sessions)
    BY <1>1, <1>3, <2>2 DEF Fits, At
  <2>4. req' = [req EXCEPT ![p] = r]
    BY <1>3, <2>1 DEF Goto, Become
  <2>5. QED
    BY <1>3, <2>2, <2>3, <2>4, RequestStep
\* A request that is over.
<1>4. ASSUME NEW p \in Procs, Become(p, Idle), RowsOK', recorded' = recorded, sessions' = sessions
      PROVE  IInv'
  BY <1>2, <1>4, RequestStep DEF Become
\* A request on its way through an achievement, which has a tier.
<1>5. ASSUME NEW p \in Procs, NEW pc \in {"reward", "notify"},
             At(p, "unlock") \/ At(p, "reward"),
             Goto(p, pc), RowsOK', recorded' = recorded, sessions' = sessions
      PROVE  IInv'
  <2>1. PICK r \in Request : r = [req[p] EXCEPT !.pc = pc]
    BY <1>1, <1>5 DEF Request, Steps
  <2>2. r.pc = pc /\ r.s = req[p].s /\ r.tier = req[p].tier
    BY <1>1, <2>1 DEF Request
  <2>3. Fits(r, DOMAIN sessions)
    BY <1>1, <1>5, <2>2 DEF Fits, At
  <2>4. req' = [req EXCEPT ![p] = r]
    BY <1>5, <2>1 DEF Goto, Become
  <2>5. QED
    BY <1>5, <2>2, <2>3, <2>4, RequestStep
<1>6. ASSUME NEW p \in Procs, start(p) \/ end(p) \/ complete(p) \/ recordSessionResult(p) PROVE IInv'
  BY <1>6, StartStep, EndStep, CompleteStep, RecordStep
<1>7. ASSUME NEW p \in Procs, recordPlay(p) PROVE IInv'
  <2>1. RowsOK' /\ recorded' = recorded
    BY <1>1, <1>7 DEF recordPlay, RowsOK, book, tally
  <2>2. QED
    BY <1>4, <1>7, <2>1 DEF recordPlay
<1>8. ASSUME NEW p \in Procs, ReadHighScore(p) PROVE IInv'
  <2>1. PICK r \in Request : r = [req[p] EXCEPT !.pc = "record", !.high = stats.high]
    <3>1. stats.high \in Nat
      BY <1>1 DEF RowsOK
    <3>2. [req[p] EXCEPT !.pc = "record", !.high = stats.high] \in Request
      BY <1>1, <3>1 DEF Request, Steps
    <3>3. QED
      BY <3>2
  <2>2. r.pc = "record" /\ r.s = req[p].s
    BY <1>1, <2>1 DEF Request
  <2>3. Fits(r, DOMAIN sessions)
    BY <1>1, <1>8, <2>2 DEF Fits, At, ReadHighScore
  <2>4. RowsOK' /\ recorded' = recorded /\ sessions' = sessions /\ req' = [req EXCEPT ![p] = r] /\ At(p, "read")
    BY <1>1, <1>8, <2>1 DEF ReadHighScore, RowsOK, book, tally, Become
  <2>5. QED
    BY <2>2, <2>3, <2>4, RequestStep
<1>9. ASSUME NEW p \in Procs, award(p) PROVE IInv'
  <2>1. RowsOK' /\ recorded' = recorded /\ sessions' = sessions
    <3>1. req[p].s \in DOMAIN xpRows
      <4>1. req[p].s \in DOMAIN sessions /\ Len(sessions) <= MaxSessions /\ DOMAIN xpRows = 1..MaxSessions
        BY <1>1, <1>9 DEF Fits, award, At, RowsOK, IInv, TypeOK
      <4>2. DOMAIN sessions = 1..Len(sessions) /\ Len(sessions) \in Nat /\ MaxSessions \in Nat
        BY <1>1, LenProperties, GameSessionAssumption
      <4>3. QED
        BY <4>1, <4>2
    <3>2. PICK z \in DOMAIN xpRows : z = req[p].s
      BY <3>1
    <3>3. xpRows' = [xpRows EXCEPT ![z] = xpRows[z] + 1]
      BY <1>9, <3>2 DEF award
    <3>4. xpRows \in [1..MaxSessions -> Nat] /\ z \in 1..MaxSessions
      BY <1>1, <3>2 DEF RowsOK
    <3>5. xpRows' \in [1..MaxSessions -> Nat]
      BY <3>3, <3>4
    <3>6. QED
      BY <1>1, <1>9, <3>5 DEF award, RowsOK, book, tally
  <2>2. PICK pc \in {"board", "earn"} : Goto(p, pc)
    BY <1>9 DEF award
  <2>3. QED
    BY <1>3, <1>9, <2>1, <2>2 DEF award, At, Steps
<1>10. ASSUME NEW p \in Procs, ReadEntry(p) PROVE IInv'
  <2>1. RowsOK' /\ recorded' = recorded /\ sessions' = sessions
    BY <1>1, <1>10 DEF ReadEntry, RowsOK, book, tally
  <2>2. PICK pc \in {"submit", "earn"} : Goto(p, pc)
    BY <1>10 DEF ReadEntry
  <2>3. QED
    BY <1>3, <1>10, <2>1, <2>2 DEF ReadEntry, At, Steps
<1>11. ASSUME NEW p \in Procs, submitScoreIfHigher(p) PROVE IInv'
  <2>1. RowsOK' /\ recorded' = recorded /\ sessions' = sessions
    <3>1. req[p].score \in Nat
      <4>1. req[p].score \in Scores \cup {0}
        BY <1>1 DEF Request
      <4>2. Scores \cup {0} \subseteq Nat
        BY GameSessionAssumption
      <4>3. QED
        BY <4>1, <4>2
    <3>2. QED
      BY <1>1, <1>11, <3>1 DEF submitScoreIfHigher, RowsOK, book, tally
  <2>2. QED
    BY <1>3, <1>11, <2>1 DEF submitScoreIfHigher, At, Steps
<1>12. ASSUME NEW p \in Procs, checkAchievements(p) PROVE IInv'
  <2>1. RowsOK' /\ recorded' = recorded /\ sessions' = sessions
    BY <1>1, <1>12 DEF checkAchievements, RowsOK, book, tally
  <2>2. CASE Become(p, Idle)
    BY <1>4, <2>1, <2>2
  <2>3. ASSUME NEW t \in Tiers, Become(p, [req[p] EXCEPT !.pc = "unlock", !.tier = t]) PROVE IInv'
    <3>1. PICK r \in Request : r = [req[p] EXCEPT !.pc = "unlock", !.tier = t]
      BY <1>1 DEF Request, Steps
    <3>2. r.pc = "unlock" /\ r.s = req[p].s /\ r.tier = t
      BY <1>1, <3>1 DEF Request
    <3>3. Fits(r, DOMAIN sessions) /\ req' = [req EXCEPT ![p] = r]
      BY <1>1, <1>12, <2>3, <3>1, <3>2 DEF Fits, checkAchievements, At, Become
    <3>4. QED
      BY <2>1, <3>2, <3>3, RequestStep
  <2>4. \A t \in Earned(req[p]) : t \in Tiers
    BY DEF Earned
  <2>5. QED
    BY <1>12, <2>2, <2>3, <2>4 DEF checkAchievements
<1>13. ASSUME NEW p \in Procs, unlock(p) PROVE IInv'
  <2>1. RowsOK' /\ recorded' = recorded /\ sessions' = sessions /\ At(p, "unlock")
    BY <1>1, <1>13 DEF unlock, RowsOK, tally, Fits, At
  <2>2. Goto(p, "reward") \/ Goto(p, "rejected")
    BY <1>13 DEF unlock
  <2>3. QED
    BY <1>3, <1>5, <2>1, <2>2 DEF At, Steps
<1>14. ASSUME NEW p \in Procs, unlockIfEligible(p) PROVE IInv'
  <2>1. RowsOK' /\ recorded' = recorded /\ sessions' = sessions
    <3>1. req[p].tier \in Tiers
      BY <1>1, <1>14 DEF unlockIfEligible, Fits, At
    <3>2. PICK t \in Tiers : t = req[p].tier
      BY <3>1
    <3>3. /\ paid' = paid \/ paid' = [paid EXCEPT ![t] = paid[t] + Reward]
          /\ notified' = notified \/ notified' = [notified EXCEPT ![t] = notified[t] + 1]
      BY <1>14, <3>2 DEF unlockIfEligible
    <3>4. paid \in [Tiers -> Nat] /\ notified \in [Tiers -> Nat] /\ Reward \in Nat
      BY <1>1, GameSessionAssumption DEF RowsOK
    <3>5. paid' \in [Tiers -> Nat] /\ notified' \in [Tiers -> Nat]
      BY <3>3, <3>4
    <3>6. QED
      BY <1>1, <1>14, <3>5 DEF unlockIfEligible, RowsOK, tally
  <2>2. QED
    BY <1>4, <1>5, <1>14, <2>1 DEF unlockIfEligible
<1>15. ASSUME NEW p \in Procs, Answer(p) PROVE IInv'
  <2>1. RowsOK' /\ recorded' = recorded
    BY <1>1, <1>15 DEF Answer, RowsOK, book, tally
  <2>2. QED
    BY <1>4, <1>15, <2>1 DEF Answer
<1>16. ASSUME NEW p \in Procs, Abort(p) PROVE IInv'
  <2>1. lost' \subseteq Nat
    <3>1. req[p].wins \in Nat /\ lost \subseteq Nat
      BY <1>1 DEF Request, RowsOK
    <3>2. \E w \in Nat : lost' = lost \/ lost' = lost \cup {w}
      BY <1>16, <3>1 DEF Abort
    <3>3. QED
      BY <3>1, <3>2
  <2>2. RowsOK' /\ recorded' = recorded
    BY <1>1, <1>16, <2>1 DEF Abort, RowsOK, book
  <2>3. QED
    BY <1>4, <1>16, <2>2 DEF Abort
<1>17. CASE UNCHANGED vars
  <2>1. TypeOK'
    BY <1>17 DEF vars, book, tally, IInv, TypeOK, At
  <2>2. CountedAsEnded'
    BY <1>17 DEF vars, tally, IInv, CountedAsEnded, Ending, At
  <2>3. QED
    BY <2>1, <2>2 DEF IInv
<1>18. ASSUME Next PROVE IInv'
  <2>1. PICK p \in Procs :
          \/ start(p) \/ recordPlay(p)
          \/ end(p) \/ abandon(p) \/ complete(p)
          \/ ReadHighScore(p) \/ recordSessionResult(p)
          \/ award(p)
          \/ ReadEntry(p) \/ submitScoreIfHigher(p)
          \/ checkAchievements(p) \/ unlock(p) \/ unlockIfEligible(p) \/ Answer(p)
          \/ Abort(p)
    BY <1>18 DEF Next
  <2>2. CASE abandon(p)
    <3>1. UNCHANGED <<sessions, plays, entry, xpRows, book, tally>>
      BY <2>2 DEF abandon
    <3>2. CASE UNCHANGED req
      BY <1>17, <3>1, <3>2 DEF vars
    <3>3. ASSUME NEW s \in DOMAIN sessions, Become(p, [Idle EXCEPT !.pc = "abandon", !.s = s]) PROVE IInv'
      <4>1. DOMAIN sessions = 1..Len(sessions) /\ Len(sessions) <= MaxSessions /\ Len(sessions) \in Nat /\ MaxSessions \in Nat
        BY <1>1, LenProperties, GameSessionAssumption DEF IInv, TypeOK
      <4>2. s \in 0..MaxSessions
        BY <4>1
      <4>3. [Idle EXCEPT !.pc = "abandon", !.s = s] \in Request
        BY <4>2 DEF Idle, Request, Steps
      <4>4. PICK r \in Request : r = [Idle EXCEPT !.pc = "abandon", !.s = s]
        BY <4>3
      <4>5. r.pc = "abandon" /\ r.s = s
        BY <4>4 DEF Idle
      <4>6. Fits(r, DOMAIN sessions) /\ req' = [req EXCEPT ![p] = r]
        BY <3>3, <4>4, <4>5 DEF Fits, Become
      <4>7. RowsOK' /\ recorded' = recorded /\ sessions' = sessions
        BY <1>1, <3>1 DEF RowsOK, book, tally
      <4>8. QED
        BY <4>5, <4>6, <4>7, RequestStep
    <3>4. QED
      BY <2>2, <3>2, <3>3 DEF abandon
  <2>3. QED
    BY <2>1, <2>2, <1>6, <1>7, <1>8, <1>9, <1>10, <1>11, <1>12, <1>13, <1>14, <1>15, <1>16
<1>19. QED
  BY <1>17, <1>18

\* The bookkeeping of ended sessions: well typed, and a session is counted only
\* by the requests that found it in progress.
THEOREM Invariance == Spec => []IInv
<1>1. QED
  BY InitInv, StepInv, PTL DEF Spec

\* No session is added to the statistics more often than there are requests in
\* flight at one time.
THEOREM CountedBounded == Spec => []RecordedBounded
<1>1. IInv => RecordedBounded
  <2> SUFFICES ASSUME IInv, NEW s \in 1..MaxSessions PROVE recorded[s] <= Cardinality(Procs)
    BY DEF RecordedBounded
  <2>1. PICK A \in SUBSET Procs : A = Ending(s)
    BY DEF Ending
  <2>2. Cardinality(A) \in Nat /\ Cardinality(Procs) \in Nat /\ recorded[s] \in Nat
    BY Bounds DEF IInv, TypeOK
  <2>3. recorded[s] + Cardinality(A) <= Cardinality(Procs)
    BY <2>1 DEF IInv, CountedAsEnded
  <2>4. QED
    BY <2>2, <2>3
<1>2. QED
  BY <1>1, Invariance, PTL

-----------------------------------------------------------------------------

\* A request that has unlocked a tier and is to reward or announce it.
Paying(p, t) == req[p].pc \in {"reward", "notify"} /\ req[p].tier = t

\* The unique index lets one request through to the reward of a tier, which has
\* neither been rewarded nor announced before.
PaidOnce(t) ==
  /\ t \notin achieved => paid[t] = 0 /\ notified[t] = 0 /\ \A p \in Procs : ~Paying(p, t)
  /\ \A p, q \in Procs : Paying(p, t) /\ Paying(q, t) => p = q
  /\ \A p \in Procs : Paying(p, t) => notified[t] = 0 /\ (At(p, "reward") => paid[t] = 0)
  /\ paid[t] <= Reward /\ notified[t] <= 1

\* A request that has seen the wins reach a tier and has yet to unlock it.
Seeing(p, t) ==
  /\ req[p].pc \in {"xp", "board", "submit", "earn", "unlock"}
  /\ req[p].result = "WIN" /\ req[p].wins = t

SeesWhatItUnlocks ==
  \A p \in Procs : ByWins /\ At(p, "unlock") => req[p].tier = req[p].wins

\* A step of p that unlocks, rewards and announces nothing.
Elsewhere(p) ==
  /\ UNCHANGED book
  /\ req' = req \/ (req' = [req EXCEPT ![p] = req'[p]] /\ req'[p].pc \notin {"reward", "notify"})

LEMMA OthersPay ==
  ASSUME IInv, NEW p \in Procs,
         \/ start(p) \/ recordPlay(p) \/ end(p) \/ abandon(p) \/ complete(p)
         \/ ReadHighScore(p) \/ recordSessionResult(p) \/ award(p) \/ ReadEntry(p)
         \/ submitScoreIfHigher(p) \/ checkAchievements(p) \/ Answer(p) \/ Abort(p)
  PROVE  Elsewhere(p)
<1>1. req \in [Procs -> Request] /\ req[p] \in Request
  BY TypeParts DEF IInv
<1>2. ASSUME NEW r, Become(p, r), r.pc \notin {"reward", "notify"}
      PROVE  req' = [req EXCEPT ![p] = req'[p]] /\ req'[p].pc \notin {"reward", "notify"}
  BY <1>1, <1>2 DEF Become
<1>3. ASSUME NEW pc, Goto(p, pc), pc \notin {"reward", "notify"}
      PROVE  req' = [req EXCEPT ![p] = req'[p]] /\ req'[p].pc \notin {"reward", "notify"}
  <2>1. [req[p] EXCEPT !.pc = pc].pc = pc
    BY <1>1 DEF Request
  <2>2. QED
    BY <1>2, <1>3, <2>1 DEF Goto
<1>4. Idle.pc = "idle"
  BY DEF Idle
<1>5. CASE start(p)
  <2>1. [Idle EXCEPT !.pc = "play"].pc = "play"
    BY DEF Idle
  <2>2. QED
    BY <1>2, <1>5, <2>1 DEF start, Elsewhere, book
<1>6. CASE recordPlay(p) \/ Answer(p) \/ Abort(p)
  BY <1>2, <1>4, <1>6 DEF recordPlay, Answer, Abort, Elsewhere, book
<1>7. CASE end(p)
  <2>1. ASSUME NEW s, NEW x, NEW y,
               Become(p, [Idle EXCEPT !.pc = "complete", !.s = s, !.result = x, !.score = y])
        PROVE  req' = [req EXCEPT ![p] = req'[p]] /\ req'[p].pc \notin {"reward", "notify"}
    <3>1. [Idle EXCEPT !.pc = "complete", !.s = s, !.result = x, !.score = y].pc = "complete"
      BY DEF Idle
    <3>2. QED
      BY <1>2, <2>1, <3>1
  <2>2. QED
    BY <1>7, <2>1 DEF end, Elsewhere
<1>8. CASE abandon(p)
  <2>1. ASSUME NEW s, Become(p, [Idle EXCEPT !.pc = "abandon", !.s = s])
        PROVE  req' = [req EXCEPT ![p] = req'[p]] /\ req'[p].pc \notin {"reward", "notify"}
    <3>1. [Idle EXCEPT !.pc = "abandon", !.s = s].pc = "abandon"
      BY DEF Idle
    <3>2. QED
      BY <1>2, <2>1, <3>1
  <2>2. QED
    BY <1>8, <2>1 DEF abandon, Elsewhere
<1>9. CASE complete(p)
  BY <1>2, <1>3, <1>4, <1>9 DEF complete, Elsewhere
<1>10. CASE ReadHighScore(p)
  <2>1. [req[p] EXCEPT !.pc = "record", !.high = stats.high].pc = "record"
    BY <1>1 DEF Request
  <2>2. QED
    BY <1>2, <1>10, <2>1 DEF ReadHighScore, Elsewhere
<1>11. CASE recordSessionResult(p)
  <2>1. [req[p] EXCEPT !.pc = "xp", !.wins = stats.wins + Won(req[p])].pc = "xp"
    BY <1>1 DEF Request
  <2>2. QED
    BY <1>2, <1>11, <2>1 DEF recordSessionResult, Elsewhere
<1>12. CASE award(p) \/ ReadEntry(p) \/ submitScoreIfHigher(p)
  BY <1>3, <1>12 DEF award, ReadEntry, submitScoreIfHigher, Elsewhere
<1>13. CASE checkAchievements(p)
  <2>1. ASSUME NEW t, Become(p, [req[p] EXCEPT !.pc = "unlock", !.tier = t])
        PROVE  req' = [req EXCEPT ![p] = req'[p]] /\ req'[p].pc \notin {"reward", "notify"}
    <3>1. [req[p] EXCEPT !.pc = "unlock", !.tier = t].pc = "unlock"
      BY <1>1 DEF Request
    <3>2. QED
      BY <1>2, <2>1, <3>1
  <2>2. QED
    BY <1>2, <1>4, <1>13, <2>1 DEF checkAchievements, Elsewhere
<1>14. QED
  BY <1>5, <1>6, <1>7, <1>8, <1>9, <1>10, <1>11, <1>12, <1>13

LEMMA PaidStep ==
  ASSUME IInv, [Next]_vars, NEW t \in Tiers, PaidOnce(t)
  PROVE  PaidOnce(t)'
<1>1. /\ req \in [Procs -> Request] /\ \A p \in Procs : req[p] \in Request
      /\ paid \in [Tiers -> Nat] /\ notified \in [Tiers -> Nat] /\ Reward \in Nat
      /\ \A p \in Procs : req[p].pc \in {"unlock", "reward", "notify"} => req[p].tier \in Tiers
  BY TypeParts, GameSessionAssumption DEF IInv, RowsOK, Fits
<1>2. CASE UNCHANGED vars
  BY <1>2 DEF vars, book, PaidOnce, Paying, At
<1>3. ASSUME NEW p \in Procs, Elsewhere(p) PROVE PaidOnce(t)'
  <2>1. \A q \in Procs : Paying(q, t)' => Paying(q, t) /\ req'[q] = req[q]
    BY <1>1, <1>3 DEF Elsewhere, Paying
  <2>2. QED
    BY <1>3, <2>1 DEF Elsewhere, book, PaidOnce, At
<1>4. ASSUME NEW p \in Procs, unlock(p) PROVE PaidOnce(t)'
  <2>1. At(p, "unlock") /\ UNCHANGED <<paid, notified>>
    BY <1>4 DEF unlock
  <2>2. CASE req[p].tier \notin achieved /\ achieved' = achieved \cup {req[p].tier} /\ Goto(p, "reward")
    <3>1. PICK r \in Request : r = [req[p] EXCEPT !.pc = "reward"]
      BY <1>1 DEF Request, Steps
    <3>2. r.pc = "reward" /\ r.tier = req[p].tier /\ req' = [req EXCEPT ![p] = r]
      BY <1>1, <2>2, <3>1 DEF Request, Goto, Become
    <3>3. req'[p] = r /\ \A q \in Procs \ {p} : req'[q] = req[q]
      BY <1>1, <3>2
    <3>4. ~Paying(p, t) /\ (\A q \in Procs \ {p} : Paying(q, t)' <=> Paying(q, t)) /\ (Paying(p, t)' <=> r.tier = t)
      BY <2>1, <3>2, <3>3 DEF Paying, At
    <3>5. CASE r.tier = t
      BY <1>1, <2>1, <2>2, <3>2, <3>3, <3>4, <3>5 DEF PaidOnce, At
    <3>6. CASE r.tier # t
      BY <2>1, <2>2, <3>2, <3>3, <3>4, <3>6 DEF PaidOnce, At
    <3>7. QED
      BY <3>5, <3>6
  <2>3. CASE Goto(p, "rejected") /\ UNCHANGED achieved
    <3>1. req' = [req EXCEPT ![p] = [req[p] EXCEPT !.pc = "rejected"]] /\ [req[p] EXCEPT !.pc = "rejected"].pc = "rejected"
      BY <1>1, <2>3 DEF Request, Goto, Become
    <3>2. Elsewhere(p)
      BY <1>1, <2>1, <2>3, <3>1 DEF Elsewhere, book
    <3>3. QED
      BY <1>3, <3>2
  <2>4. QED
    BY <1>4, <2>2, <2>3 DEF unlock
<1>5. ASSUME NEW p \in Procs, unlockIfEligible(p) PROVE PaidOnce(t)'
  <2>1. PICK z \in Tiers : z = req[p].tier
    BY <1>1, <1>5 DEF unlockIfEligible, At
  <2>2. UNCHANGED achieved /\ Paying(p, z)
    BY <1>5, <2>1 DEF unlockIfEligible, Paying, At
  <2>3. CASE At(p, "reward") /\ paid' = [paid EXCEPT ![z] = @ + Reward] /\ Goto(p, "notify") /\ UNCHANGED notified
    <3>1. PICK r \in Request : r = [req[p] EXCEPT !.pc = "notify"]
      BY <1>1 DEF Request, Steps
    <3>2. r.pc = "notify" /\ r.tier = z /\ req' = [req EXCEPT ![p] = r]
      BY <1>1, <2>1, <2>3, <3>1 DEF Request, Goto, Become
    <3>3. req'[p] = r /\ \A q \in Procs \ {p} : req'[q] = req[q]
      BY <1>1, <3>2
    <3>4. \A q \in Procs : Paying(q, t)' <=> Paying(q, t)
      BY <2>1, <2>3, <3>2, <3>3 DEF Paying, At
    <3>5. CASE z = t
      <4>1. paid[t] = 0 /\ paid'[t] = Reward /\ notified[t] = 0 /\ t \in achieved
        BY <1>1, <2>2, <2>3, <3>5 DEF PaidOnce
      <4>2. \A q \in Procs : Paying(q, t) => q = p
        BY <2>2, <3>5 DEF PaidOnce
      <4>3. QED
        BY <1>1, <2>2, <2>3, <3>2, <3>3, <3>4, <4>1, <4>2 DEF PaidOnce, At
    <3>6. CASE z # t
      <4>1. paid'[t] = paid[t] /\ ~Paying(p, t)
        BY <1>1, <2>1, <2>3, <3>6 DEF Paying
      <4>2. QED
        BY <2>2, <2>3, <3>3, <3>4, <4>1 DEF PaidOnce, At
    <3>7. QED
      BY <3>5, <3>6
  <2>4. CASE At(p, "notify") /\ notified' = [notified EXCEPT ![z] = @ + 1] /\ Become(p, Idle) /\ UNCHANGED paid
    <3>1. req'[p].pc = "idle" /\ \A q \in Procs \ {p} : req'[q] = req[q]
      BY <1>1, <2>4 DEF Become, Idle
    <3>2. ~Paying(p, t)' /\ \A q \in Procs \ {p} : Paying(q, t)' <=> Paying(q, t)
      BY <3>1 DEF Paying
    <3>3. CASE z = t
      <4>1. notified[t] = 0 /\ notified'[t] = 1 /\ t \in achieved /\ \A q \in Procs : ~Paying(q, t)'
        BY <1>1, <2>2, <2>4, <3>2, <3>3 DEF PaidOnce
      <4>2. QED
        BY <2>2, <2>4, <4>1 DEF PaidOnce
    <3>4. CASE z # t
      <4>1. notified'[t] = notified[t]
        BY <1>1, <2>4, <3>4
      <4>2. QED
        BY <2>2, <2>4, <3>1, <3>2, <4>1 DEF PaidOnce, At
    <3>5. QED
      BY <3>3, <3>4
  <2>5. QED
    BY <1>5, <2>1, <2>3, <2>4 DEF unlockIfEligible
<1>6. QED
  BY <1>2, <1>3, <1>4, <1>5, OthersPay DEF Next

\* An achievement is rewarded and announced at most once, however many sessions
\* reach it at the same time.
THEOREM AchievedOnce == Spec => []AchievementOnce
<1> DEFINE Once == \A t \in Tiers : PaidOnce(t)
<1>1. Init => Once
  <2> SUFFICES ASSUME Init, NEW t \in Tiers PROVE PaidOnce(t)
    OBVIOUS
  <2>1. \A p \in Procs : ~Paying(p, t)
    BY DEF Init, Idle, Paying
  <2>2. QED
    BY <2>1, GameSessionAssumption DEF Init, PaidOnce
<1>2. IInv /\ Once /\ [Next]_vars => Once'
  BY PaidStep
<1>3. Once => AchievementOnce
  BY DEF PaidOnce, AchievementOnce
<1>4. QED
  BY <1>1, <1>2, <1>3, Invariance, PTL DEF Spec

\* A step of p that neither counts a win nor loses what p has seen: what it has
\* seen it keeps, until it has unlocked it or found it unlocked.
KeepsSeeing(p) ==
  /\ stats'.wins = stats.wins /\ achieved \subseteq achieved' /\ lost \subseteq lost'
  /\ \A q \in Procs \ {p} : req'[q] = req[q]
  /\ \A t \in Tiers : ByWins /\ Seeing(p, t) => Seeing(p, t)' \/ t \in achieved' \cup lost'
  /\ ByWins /\ At(p, "unlock")' => req'[p].tier = req'[p].wins

LEMMA NotSeeing ==
  ASSUME IInv, NEW p \in Procs, SeesWhatItUnlocks,
         \/ start(p) \/ recordPlay(p) \/ end(p) \/ abandon(p) \/ complete(p)
         \/ ReadHighScore(p) \/ Answer(p) \/ unlockIfEligible(p)
  PROVE  KeepsSeeing(p)
<1>1. req \in [Procs -> Request] /\ req[p] \in Request
  BY TypeParts DEF IInv
<1>2. /\ req[p].pc \notin {"xp", "board", "submit", "earn", "unlock"}
      /\ UNCHANGED <<stats, achieved, lost>>
  BY <1>1 DEF start, recordPlay, end, abandon, complete, ReadHighScore, Answer, unlockIfEligible,
              At, book, tally
<1>3. ASSUME NEW r, Become(p, r), r.pc # "unlock"
      PROVE  (\A q \in Procs \ {p} : req'[q] = req[q]) /\ req'[p].pc # "unlock"
  BY <1>1, <1>3 DEF Become
<1>4. ASSUME NEW pc, Goto(p, pc), pc # "unlock"
      PROVE  (\A q \in Procs \ {p} : req'[q] = req[q]) /\ req'[p].pc # "unlock"
  <2>1. [req[p] EXCEPT !.pc = pc].pc = pc
    BY <1>1 DEF Request
  <2>2. QED
    BY <1>3, <1>4, <2>1 DEF Goto
<1>5. (\A q \in Procs \ {p} : req'[q] = req[q]) /\ req'[p].pc # "unlock"
  <2>1. CASE UNCHANGED req
    BY <1>2, <2>1
  <2>2. CASE start(p)
    <3>1. [Idle EXCEPT !.pc = "play"].pc = "play"
      BY DEF Idle
    <3>2. QED
      BY <1>3, <2>2, <3>1 DEF start
  <2>3. CASE end(p)
    <3>1. ASSUME NEW s, NEW x, NEW y,
                 Become(p, [Idle EXCEPT !.pc = "complete", !.s = s, !.result = x, !.score = y])
          PROVE  (\A q \in Procs \ {p} : req'[q] = req[q]) /\ req'[p].pc # "unlock"
      <4>1. [Idle EXCEPT !.pc = "complete", !.s = s, !.result = x, !.score = y].pc = "complete"
        BY DEF Idle
      <4>2. QED
        BY <1>3, <3>1, <4>1
    <3>2. QED
      BY <2>1, <2>3, <3>1 DEF end
  <2>4. CASE abandon(p)
    <3>1. ASSUME NEW s, Become(p, [Idle EXCEPT !.pc = "abandon", !.s = s])
          PROVE  (\A q \in Procs \ {p} : req'[q] = req[q]) /\ req'[p].pc # "unlock"
      <4>1. [Idle EXCEPT !.pc = "abandon", !.s = s].pc = "abandon"
        BY DEF Idle
      <4>2. QED
        BY <1>3, <3>1, <4>1
    <3>2. QED
      BY <2>1, <2>4, <3>1 DEF abandon
  <2>5. CASE ReadHighScore(p)
    <3>1. [req[p] EXCEPT !.pc = "record", !.high = stats.high].pc = "record"
      BY <1>1 DEF Request
    <3>2. QED
      BY <1>3, <2>5, <3>1 DEF ReadHighScore
  <2>6. CASE recordPlay(p) \/ Answer(p) \/ complete(p) \/ unlockIfEligible(p)
    <3>1. Idle.pc # "unlock"
      BY DEF Idle
    <3>2. QED
      BY <1>3, <1>4, <2>6, <3>1 DEF recordPlay, Answer, complete, unlockIfEligible
  <2>7. QED
    BY <2>2, <2>3, <2>4, <2>5, <2>6
<1>6. QED
  BY <1>2, <1>5 DEF KeepsSeeing, Seeing, At

LEMMA StillSeeing ==
  ASSUME IInv, NEW p \in Procs, SeesWhatItUnlocks,
         \/ award(p) \/ ReadEntry(p) \/ submitScoreIfHigher(p)
         \/ checkAchievements(p) \/ unlock(p) \/ Abort(p)
  PROVE  KeepsSeeing(p)
<1>1. req \in [Procs -> Request] /\ req[p] \in Request
  BY TypeParts DEF IInv
<1>2. CASE award(p) \/ ReadEntry(p) \/ submitScoreIfHigher(p)
  <2>1. PICK pc \in {"board", "submit", "earn"} : Goto(p, pc)
    BY <1>2 DEF award, ReadEntry, submitScoreIfHigher
  <2>2. /\ \A q \in Procs \ {p} : req'[q] = req[q]
        /\ req'[p].pc = pc /\ req'[p].result = req[p].result /\ req'[p].wins = req[p].wins
    BY <1>1, <2>1 DEF Goto, Become, Request
  <2>3. UNCHANGED <<stats, achieved, lost>>
    BY <1>2 DEF award, ReadEntry, submitScoreIfHigher, book, tally
  <2>4. QED
    BY <2>2, <2>3 DEF KeepsSeeing, Seeing, At
<1>3. CASE checkAchievements(p)
  <2>1. At(p, "earn") /\ UNCHANGED <<stats, achieved, lost>>
    BY <1>3 DEF checkAchievements, book, tally
  <2>2. ASSUME NEW t \in Tiers, ByWins, Seeing(p, t) PROVE t \in Earned(req[p])
    BY <2>2 DEF Seeing, Earned
  <2>3. CASE Earned(req[p]) \subseteq achieved /\ Become(p, Idle)
    <3>1. req'[p].pc = "idle" /\ \A q \in Procs \ {p} : req'[q] = req[q]
      BY <1>1, <2>3 DEF Become, Idle
    <3>2. QED
      BY <2>1, <2>2, <2>3, <3>1 DEF KeepsSeeing, At
  <2>4. ASSUME NEW u \in Earned(req[p]), Become(p, [req[p] EXCEPT !.pc = "unlock", !.tier = u])
        PROVE  KeepsSeeing(p)
    <3>1. /\ \A q \in Procs \ {p} : req'[q] = req[q]
          /\ req'[p].pc = "unlock" /\ req'[p].tier = u
          /\ req'[p].result = req[p].result /\ req'[p].wins = req[p].wins
      BY <1>1, <2>4 DEF Become, Request
    <3>2. ByWins => u = req[p].wins
      BY <2>4 DEF Earned
    <3>3. QED
      BY <2>1, <3>1, <3>2 DEF KeepsSeeing, Seeing, At
  <2>5. QED
    BY <1>3, <2>3, <2>4 DEF checkAchievements
<1>4. CASE unlock(p)
  <2>1. At(p, "unlock") /\ UNCHANGED <<stats, lost>> /\ achieved \subseteq achieved'
    BY <1>4 DEF unlock, tally
  <2>2. req[p].tier \in achieved'
    BY <1>4 DEF unlock
  <2>3. \A t \in Tiers : ByWins /\ Seeing(p, t) => t = req[p].tier
    BY <2>1 DEF SeesWhatItUnlocks, Seeing
  <2>4. PICK pc \in {"reward", "rejected"} : Goto(p, pc)
    BY <1>4 DEF unlock
  <2>5. req'[p].pc = pc /\ \A q \in Procs \ {p} : req'[q] = req[q]
    BY <1>1, <2>4 DEF Goto, Become, Request
  <2>6. QED
    BY <2>1, <2>2, <2>3, <2>5 DEF KeepsSeeing, At
<1>5. CASE Abort(p)
  <2>1. UNCHANGED <<stats, achieved>> /\ lost \subseteq lost'
    BY <1>5 DEF Abort, book
  <2>2. \A t \in Tiers : Seeing(p, t) => t \in lost'
    BY <1>5 DEF Abort, Seeing
  <2>3. req'[p].pc = "idle" /\ \A q \in Procs \ {p} : req'[q] = req[q]
    BY <1>1, <1>5 DEF Abort, Become, Idle
  <2>4. QED
    BY <2>1, <2>2, <2>3 DEF KeepsSeeing, At
<1>6. QED
  BY <1>2, <1>3, <1>4, <1>5

\* With wins counted in place, one request sees each number of them.
LEMMA NoticeStep ==
  ASSUME IInv, TierNoticed, SeesWhatItUnlocks, [Next]_vars
  PROVE  TierNoticed' /\ SeesWhatItUnlocks'
<1>1. /\ req \in [Procs -> Request] /\ \A p \in Procs : req[p] \in Request
      /\ stats \in [played : Nat, wins : Nat, high : Nat]
  BY TypeParts DEF IInv, RowsOK
<1>2. TierNoticed <=>
        \A t \in Tiers : ByWins /\ stats.wins >= t =>
          t \in achieved \cup lost \/ \E p \in Procs : Seeing(p, t)
  BY DEF TierNoticed, Seeing
<1>3. TierNoticed' <=>
        \A t \in Tiers : ByWins /\ stats'.wins >= t =>
          t \in achieved' \cup lost' \/ \E p \in Procs : Seeing(p, t)'
  BY DEF TierNoticed, Seeing
<1>4. CASE UNCHANGED vars
  BY <1>4 DEF vars, book, tally, TierNoticed, SeesWhatItUnlocks, At
<1>5. ASSUME NEW p \in Procs, KeepsSeeing(p) PROVE TierNoticed' /\ SeesWhatItUnlocks'
  <2>1. \A q \in Procs \ {p}, t \in Tiers : Seeing(q, t)' <=> Seeing(q, t)
    BY <1>5 DEF KeepsSeeing, Seeing
  <2>2. TierNoticed'
    BY <1>2, <1>3, <1>5, <2>1 DEF KeepsSeeing
  <2>3. SeesWhatItUnlocks'
    BY <1>5 DEF KeepsSeeing, SeesWhatItUnlocks, At
  <2>4. QED
    BY <2>2, <2>3
<1>6. ASSUME NEW p \in Procs, recordSessionResult(p) PROVE TierNoticed' /\ SeesWhatItUnlocks'
  <2>1. /\ UNCHANGED <<achieved, lost>> /\ At(p, "record")
        /\ stats'.wins = stats.wins + Won(req[p])
    BY <1>6 DEF recordSessionResult, book, At
  <2>2. /\ \A q \in Procs \ {p} : req'[q] = req[q]
        /\ req'[p].pc = "xp" /\ req'[p].result = req[p].result
        /\ req'[p].wins = stats.wins + Won(req[p])
    BY <1>1, <1>6 DEF recordSessionResult, Become, Request
  <2>3. \A q \in Procs, t \in Tiers : Seeing(q, t) => Seeing(q, t)'
    BY <2>1, <2>2 DEF Seeing, At
  <2>4. ASSUME NEW t \in Tiers, ByWins, stats'.wins >= t
        PROVE  t \in achieved' \cup lost' \/ \E q \in Procs : Seeing(q, t)'
    <3>1. CASE stats.wins >= t
      BY <1>2, <2>1, <2>3, <2>4, <3>1
    <3>2. CASE ~(stats.wins >= t)
      <4>1. t \in Nat /\ stats.wins \in Nat
        BY <1>1, GameSessionAssumption
      <4>2. req[p].result = "WIN" /\ t = stats.wins + 1 /\ Won(req[p]) = 1
        BY <2>1, <2>4, <3>2, <4>1 DEF Won
      <4>3. Seeing(p, t)'
        BY <2>2, <4>2 DEF Seeing
      <4>4. QED
        BY <4>3
    <3>3. QED
      BY <3>1, <3>2
  <2>5. SeesWhatItUnlocks'
    BY <2>2 DEF SeesWhatItUnlocks, At
  <2>6. QED
    BY <1>3, <2>4, <2>5
<1>7. QED
  BY <1>4, <1>5, <1>6, NotSeeing, StillSeeing DEF Next

\* No number of wins passes without the achievement it earns, but for a request
\* that died.
THEOREM TiersAreNoticed == Spec => []TierNoticed
<1>1. Init => TierNoticed /\ SeesWhatItUnlocks
  <2> SUFFICES ASSUME Init PROVE TierNoticed /\ SeesWhatItUnlocks
    OBVIOUS
  <2>1. \A t \in Tiers : ~(stats.wins >= t)
    BY GameSessionAssumption DEF Init
  <2>2. \A p \in Procs : ~At(p, "unlock")
    BY DEF Init, Idle, At
  <2>3. QED
    BY <2>1, <2>2 DEF TierNoticed, SeesWhatItUnlocks
<1>2. IInv /\ (TierNoticed /\ SeesWhatItUnlocks) /\ [Next]_vars => (TierNoticed /\ SeesWhatItUnlocks)'
  BY NoticeStep
<1>3. QED
  BY <1>1, <1>2, Invariance, PTL DEF Spec

-----------------------------------------------------------------------------
\* What the proofs use of finite sets.
LEMMA Counting ==
  /\ \A A : IsFiniteSet(A) => Cardinality(A) \in Nat
  /\ \A A : IsFiniteSet(A) => \A B \in SUBSET A : IsFiniteSet(B) /\ Cardinality(B) <= Cardinality(A)
  /\ \A A, x : IsFiniteSet(A) /\ x \notin A =>
       IsFiniteSet(A \union {x}) /\ Cardinality(A \union {x}) = Cardinality(A) + 1
  /\ \A A, x : IsFiniteSet(A) /\ x \in A =>
       IsFiniteSet(A \ {x}) /\ Cardinality(A \ {x}) = Cardinality(A) - 1
  /\ IsFiniteSet({}) /\ Cardinality({}) = 0
  /\ \A a, b \in Int : IsFiniteSet(a..b)
BY FS_CardinalityType, FS_Subset, FS_AddElement, FS_RemoveElement, FS_EmptySet, FS_Interval

-----------------------------------------------------------------------------
(* Listings: what is cached of the catalogue, and boards.                  *)

\* The same of what Listings counts with.
LEMMA ListingsCounting ==
  /\ \A A : L!IsFiniteSet(A) => L!Cardinality(A) \in Nat
  /\ \A A : L!IsFiniteSet(A) => \A B \in SUBSET A : L!IsFiniteSet(B) /\ L!Cardinality(B) <= L!Cardinality(A)
  /\ \A A, x : L!IsFiniteSet(A) /\ x \notin A =>
       L!IsFiniteSet(A \union {x}) /\ L!Cardinality(A \union {x}) = L!Cardinality(A) + 1
  /\ \A A, x : L!IsFiniteSet(A) /\ x \in A =>
       L!IsFiniteSet(A \ {x}) /\ L!Cardinality(A \ {x}) = L!Cardinality(A) - 1
  /\ L!IsFiniteSet({}) /\ L!Cardinality({}) = 0
  /\ \A a, b \in Int : L!IsFiniteSet(a..b)
<1>1. \A A : L!IsFiniteSet(A) <=> IsFiniteSet(A)
  BY DEF L!IsFiniteSet, IsFiniteSet
<1>2. \A A : L!Cardinality(A) = Cardinality(A)
  BY DEF L!Cardinality, Cardinality
<1>3. QED
  BY <1>1, <1>2, Counting

\* A set of numbers has a least one: what holds of all numbers below a number and so
\* of the number itself, holds of all.
LEMMA Least ==
  ASSUME NEW T \in SUBSET Nat, T # {} PROVE \E n \in T : \A m \in T : n <= m
<1> DEFINE Below == OpToRel(<, Nat)
<1>1. IsWellFoundedOn(Below, Nat)
  BY NatLessThanWellFounded
<1>2. \A m, n \in Nat : m < n => <<m, n>> \in Below
  BY DEF OpToRel
<1> HIDE DEF Below
<1>3. PICK n \in T : \A m \in T : <<m, n>> \notin Below
  BY <1>1, WFMin
<1>4. \A m \in T : ~(m < n)
  BY <1>2, <1>3
<1>5. QED
  BY <1>4

-----------------------------------------------------------------------------
(* What L!Present leaves of a board.                                          *)

\* s holds what is left of the beginnings of b.
Filters(N, b, s) ==
  s[0] = <<>> /\ \A k \in 1..N :
    s[k] = IF b[k].user \in gone THEN s[k - 1] ELSE Append(s[k - 1], b[k])

LEMMA FiltersThereAre ==
  ASSUME NEW S, NEW N \in Nat, NEW b, \A k \in 1..N : b[k] \in S
  PROVE  \E s \in [0..N -> Seq(S)] : Filters(N, b, s)
<1> DEFINE Part(n) == {s \in [0..n -> Seq(S)] : Filters(n, b, s)}
           T == {n \in 0..N : Part(n) = {}}
<1>1. ASSUME T # {} PROVE FALSE
  <2>1. PICK n \in T : \A m \in T : n <= m
    <3>1. T \in SUBSET Nat
      OBVIOUS
    <3> HIDE DEF T
    <3>2. QED
      BY <1>1, <3>1, Least
  <2>2. n # 0
    <3>1. <<>> \in Seq(S)
      OBVIOUS
    <3>2. [k \in 0..0 |-> <<>>] \in Part(0)
      BY <3>1 DEF Filters
    <3>3. QED
      BY <3>2
  <2>3. n \in 1..N /\ n - 1 \in 0..N /\ n - 1 \notin T
    <3>1. n \in 0..N
      OBVIOUS
    <3>2. n \in 1..N /\ n - 1 \in 0..N /\ ~(n <= n - 1)
      BY <2>2, <3>1
    <3>3. QED
      BY <2>1, <3>2
  <2>4. PICK s \in Part(n - 1) : TRUE
    BY <2>3
  <2>5. /\ \A k \in 0..(n - 1) : s[k] \in Seq(S)
        /\ s[0] = <<>>
        /\ \A k \in 1..(n - 1) : s[k] = IF b[k].user \in gone THEN s[k - 1] ELSE Append(s[k - 1], b[k])
    BY <2>4 DEF Filters
  <2> DEFINE last == IF b[n].user \in gone THEN s[n - 1] ELSE Append(s[n - 1], b[n])
  <2>6. last \in Seq(S)
    <3>1. s[n - 1] \in Seq(S) /\ b[n] \in S
      BY <2>3, <2>5
    <3>2. QED
      BY <3>1
  <2> HIDE DEF last
  <2> DEFINE t == [k \in 0..n |-> IF k = n THEN last ELSE s[k]]
  <2>7. t \in [0..n -> Seq(S)] /\ t[0] = <<>>
    <3>1. \A k \in 0..n : k # n => k \in 0..(n - 1)
      BY <2>3
    <3>2. 0 \in 0..n /\ 0 # n
      BY <2>3
    <3>3. \A k \in 0..n : (IF k = n THEN last ELSE s[k]) \in Seq(S)
      BY <2>5, <2>6, <3>1
    <3>4. QED
      BY <2>5, <3>2, <3>3
  <2>8. ASSUME NEW k \in 1..n
        PROVE  t[k] = IF b[k].user \in gone THEN t[k - 1] ELSE Append(t[k - 1], b[k])
    <3>1. k - 1 \in 0..n /\ k - 1 # n /\ t[k - 1] = s[k - 1]
      BY <2>3
    <3>2. CASE k = n
      <4>1. t[k] = last
        BY <2>3, <3>2
      <4> HIDE DEF t
      <4>2. QED
        BY <3>1, <3>2, <4>1 DEF last
    <3>3. CASE k # n
      <4>1. k \in 1..(n - 1) /\ t[k] = s[k]
        BY <2>3, <3>3
      <4>2. QED
        BY <2>5, <3>1, <4>1
    <3>4. QED
      BY <3>2, <3>3
  <2> HIDE DEF t
  <2>9. t \in Part(n)
    BY <2>7, <2>8 DEF Filters
  <2>10. QED
    BY <2>9
<1>2. N \in 0..N
  OBVIOUS
<1>3. QED
  BY <1>1, <1>2

\* What is left of the first n rows: rows of users who are there, in their order.
LeftOf(S, n, b, x) ==
  /\ x \in Seq(S) /\ Len(x) <= n
  /\ \A i \in 1..Len(x) : \E k \in 1..n : x[i] = b[k] /\ b[k].user \notin gone
  /\ \A i, j \in 1..Len(x) : i < j => \E k, l \in 1..n : k < l /\ x[i] = b[k] /\ x[j] = b[l]

\* One row more.
LEMMA LeftOfMore ==
  ASSUME NEW S, NEW n \in Nat, NEW b, NEW x, LeftOf(S, n, b, x), b[n + 1] \in S
  PROVE  LeftOf(S, n + 1, b, IF b[n + 1].user \in gone THEN x ELSE Append(x, b[n + 1]))
<1>1. /\ x \in Seq(S) /\ Len(x) \in Nat /\ Len(x) <= n
      /\ \A i \in 1..Len(x) : \E k \in 1..n : x[i] = b[k] /\ b[k].user \notin gone
      /\ \A i, j \in 1..Len(x) : i < j => \E k, l \in 1..n : k < l /\ x[i] = b[k] /\ x[j] = b[l]
  <2>1. /\ x \in Seq(S) /\ Len(x) <= n
        /\ \A i \in 1..Len(x) : \E k \in 1..n : x[i] = b[k] /\ b[k].user \notin gone
        /\ \A i, j \in 1..Len(x) : i < j => \E k, l \in 1..n : k < l /\ x[i] = b[k] /\ x[j] = b[l]
    BY DEF LeftOf
  <2>2. Len(x) \in Nat
    BY <2>1
  <2>3. QED
    BY <2>1, <2>2
<1>2. 1..n \subseteq 1..(n + 1) /\ n + 1 \in 1..(n + 1) /\ Len(x) <= n + 1 /\ Len(x) + 1 <= n + 1
      /\ \A k \in 1..n : k < n + 1
  BY <1>1
<1>3. CASE b[n + 1].user \in gone
  <2>1. \A i \in 1..Len(x) : \E k \in 1..(n + 1) : x[i] = b[k] /\ b[k].user \notin gone
    BY <1>1, <1>2
  <2>2. \A i, j \in 1..Len(x) : i < j => \E k, l \in 1..(n + 1) : k < l /\ x[i] = b[k] /\ x[j] = b[l]
    BY <1>1, <1>2
  <2>3. LeftOf(S, n + 1, b, x)
    BY <1>1, <1>2, <2>1, <2>2 DEF LeftOf
  <2>4. QED
    BY <1>3, <2>3
<1>4. CASE b[n + 1].user \notin gone
  <2> DEFINE y == Append(x, b[n + 1])
             m == Len(x) + 1
  <2>1. y \in Seq(S) /\ Len(y) = m /\ y[m] = b[n + 1] /\ \A i \in 1..Len(x) : y[i] = x[i]
    BY <1>1
  <2>2. 1..m = 1..Len(x) \union {m} /\ m <= n + 1 /\ \A i, j \in 1..m : i < j => i \in 1..Len(x)
    BY <1>1
  <2> HIDE DEF y, m
  <2>3. \A i \in 1..m : \E k \in 1..(n + 1) : y[i] = b[k] /\ b[k].user \notin gone
    BY <1>1, <1>2, <1>4, <2>1, <2>2
  <2>4. ASSUME NEW i \in 1..m, NEW j \in 1..m, i < j
        PROVE  \E k, l \in 1..(n + 1) : k < l /\ y[i] = b[k] /\ y[j] = b[l]
    <3>1. i \in 1..Len(x) /\ y[i] = x[i]
      BY <2>1, <2>2, <2>4
    <3>2. CASE j = m
      <4>1. PICK k \in 1..n : x[i] = b[k]
        BY <1>1, <3>1
      <4>2. QED
        BY <1>2, <2>1, <3>1, <3>2, <4>1
    <3>3. CASE j \in 1..Len(x)
      <4>1. PICK k \in 1..n, l \in 1..n : k < l /\ x[i] = b[k] /\ x[j] = b[l]
        BY <1>1, <2>4, <3>1, <3>3
      <4>2. y[j] = x[j]
        BY <2>1, <3>3
      <4>3. QED
        BY <1>2, <3>1, <4>1, <4>2
    <3>4. QED
      BY <2>2, <3>2, <3>3
  <2>5. LeftOf(S, n + 1, b, y)
    BY <2>1, <2>2, <2>3, <2>4 DEF LeftOf
  <2>6. QED
    BY <1>4, <2>5 DEF y
<1>5. QED
  BY <1>3, <1>4

LEMMA FiltersLeave ==
  ASSUME NEW S, NEW N \in Nat, NEW b, \A k \in 1..N : b[k] \in S, NEW s, Filters(N, b, s)
  PROVE  LeftOf(S, N, b, s[N])
<1> DEFINE T == {n \in 0..N : ~LeftOf(S, n, b, s[n])}
<1>1. ASSUME T # {} PROVE FALSE
  <2>1. PICK n \in T : \A m \in T : n <= m
    <3>1. T \in SUBSET Nat
      OBVIOUS
    <3> HIDE DEF T
    <3>2. QED
      BY <1>1, <3>1, Least
  <2>2. n \in 0..N /\ ~LeftOf(S, n, b, s[n])
    BY <2>1
  <2>3. CASE n = 0
    <3>1. s[0] = <<>>
      BY DEF Filters
    <3>2. <<>> \in Seq(S) /\ Len(<<>>) = 0 /\ 1..0 = {}
      OBVIOUS
    <3>3. LeftOf(S, 0, b, <<>>)
      BY <3>2 DEF LeftOf
    <3>4. QED
      BY <2>2, <2>3, <3>1, <3>3
  <2>4. CASE n # 0
    <3>1. n \in 1..N /\ n - 1 \in 0..N /\ n - 1 \in Nat /\ (n - 1) + 1 = n /\ ~(n <= n - 1)
      BY <2>2, <2>4
    <3>2. LeftOf(S, n - 1, b, s[n - 1])
      BY <2>1, <3>1
    <3>3. s[n] = IF b[n].user \in gone THEN s[n - 1] ELSE Append(s[n - 1], b[n])
      BY <3>1 DEF Filters
    <3> DEFINE m == n - 1
    <3>4. m \in Nat /\ m + 1 = n /\ b[m + 1] \in S /\ LeftOf(S, m, b, s[m])
      BY <3>1, <3>2
    <3> HIDE DEF m
    <3>5. LeftOf(S, m + 1, b, IF b[m + 1].user \in gone THEN s[m] ELSE Append(s[m], b[m + 1]))
      BY <3>4, LeftOfMore
    <3>6. QED
      BY <2>2, <3>3, <3>4, <3>5 DEF m
  <2>5. QED
    BY <2>3, <2>4
<1>2. N \in 0..N
  OBVIOUS
<1>3. QED
  BY <1>1, <1>2

LEMMA PresentLeaves ==
  ASSUME NEW S, NEW b \in Seq(S)
  PROVE  LeftOf(S, Len(b), b, L!Present(b))
<1> DEFINE N == Len(b)
           t == CHOOSE t : t = [n \in 0..Len(b) |->
                  IF n = 0 THEN <<>>
                  ELSE IF b[n].user \in gone THEN t[n - 1]
                  ELSE Append(t[n - 1], b[n])]
<1>1. L!Present(b) = t[Len(b)]
  BY DEF L!Present
<1>2. N \in Nat /\ \A k \in 1..N : b[k] \in S
  OBVIOUS
<1>3. PICK v \in [0..N -> Seq(S)] : Filters(N, b, v)
  BY <1>2, FiltersThereAre
<1>4. v = [n \in 0..N |-> IF n = 0 THEN <<>>
                          ELSE IF b[n].user \in gone THEN v[n - 1]
                          ELSE Append(v[n - 1], b[n])]
  <2>1. ASSUME NEW n \in 0..N
        PROVE  v[n] = IF n = 0 THEN <<>>
                      ELSE IF b[n].user \in gone THEN v[n - 1]
                      ELSE Append(v[n - 1], b[n])
    <3>1. CASE n = 0
      BY <1>3, <3>1 DEF Filters
    <3>2. CASE n # 0
      <4>1. n \in 1..N
        BY <1>2, <3>2
      <4>2. v[n] = IF b[n].user \in gone THEN v[n - 1] ELSE Append(v[n - 1], b[n])
        BY <1>3, <4>1 DEF Filters
      <4>3. QED
        BY <3>2, <4>2
    <3>3. QED
      BY <3>1, <3>2
  <2>2. v = [n \in 0..N |-> v[n]]
    BY <1>3
  <2> HIDE DEF N
  <2>3. QED
    BY <2>1, <2>2
<1>5. t = [n \in 0..N |-> IF n = 0 THEN <<>>
                          ELSE IF b[n].user \in gone THEN t[n - 1]
                          ELSE Append(t[n - 1], b[n])]
  BY <1>4
<1> HIDE DEF t
<1>6. t[0] = <<>>
  BY <1>2, <1>5
<1>7. ASSUME NEW k \in 1..N
      PROVE  t[k] = IF b[k].user \in gone THEN t[k - 1] ELSE Append(t[k - 1], b[k])
  <2>1. k \in 0..N /\ k # 0
    BY <1>2
  <2> HIDE DEF N
  <2>2. QED
    BY <1>5, <2>1
<1>8. Filters(N, b, t)
  BY <1>6, <1>7 DEF Filters
<1> HIDE DEF N
<1>9. LeftOf(S, N, b, t[N])
  BY <1>2, <1>8, FiltersLeave
<1>10. QED
  BY <1>1, <1>9 DEF N

-----------------------------------------------------------------------------
(* The invariant, request by request.                                       *)

DbOK ==
  /\ page \in {"catalog", "tournaments", "boards"}
  /\ shelf \in [Games -> [status : {"none", "DRAFT", "PUBLISHED", "ARCHIVED"},
                         deleted : BOOLEAN, cat : Categories \cup {None}]]
  /\ category \in [Categories -> {"none", "active", "inactive"}] /\ order \in BOOLEAN
  /\ status \in {"DRAFT", "UPCOMING", "CANCELLED"} \cup L!PUBLIC_STATES
  /\ score \in [Users -> 0..MaxScore] /\ gone \subseteq Users

CacheOK ==
  /\ DOMAIN cache = L!Keys
  /\ \A k \in L!Keys :
       /\ DOMAIN cache[k] = DOMAIN L!Miss /\ {cache[k].full, cache[k].late} \subseteq BOOLEAN
       /\ cache[k].full => L!PageOf(k) = page

TypeOf(r) ==
  /\ DOMAIN r = DOMAIN L!Idle
  /\ r.pc \in {"idle", "first", "second", "set", "keys", "del"}
  /\ r.late \in BOOLEAN /\ r.keys \subseteq L!Busted

Placed(r) ==
  /\ r.pc \in {"first", "second", "set"} => r.key \in L!Keys /\ L!PageOf(r.key) = page
  /\ r.pc = "second" => r.key \in {"catalog:categories", "leaderboard:global"}

Current(r) ==
  ~r.late =>
    /\ r.pc = "set" /\ r.key \in L!Busted => r.hand = L!Value(r.key)
    /\ r.pc = "second" /\ r.key = "catalog:categories" => r.hand = L!Categories1

\* A board as the first statement leaves it, and as it is about to be cached.
Grouped(r) ==
  /\ r.hand \in Seq([user : Users, score : Nat])
  /\ L!InOrder(r.hand)
  /\ \A i \in DOMAIN r.hand : \A x \in r.left : r.hand[i].score >= x

Named(r) ==
  LET b == r.hand IN
  /\ Len(b) <= Limit
  /\ \A i \in DOMAIN b : b[i].user \notin r.before /\ \A x \in r.left : b[i].score >= x
  /\ \A i, j \in DOMAIN b : i < j => b[i].user # b[j].user /\ b[i].score >= b[j].score

Ranked(r) ==
  /\ r.before \subseteq gone
  /\ r.pc = "second" /\ r.key = "leaderboard:global" => Grouped(r)
  /\ r.pc = "set" /\ r.key = "leaderboard:global" => Named(r)

Good(r) == TypeOf(r) /\ Placed(r) /\ Current(r) /\ Ranked(r)

LEMMA Parts ==
  L!IInv <=> DbOK /\ CacheOK /\ DOMAIN readers = Procs /\ (\A p \in Procs : Good(readers[p])) /\ L!ListsFollow
<1>1. L!IInv => DbOK /\ CacheOK /\ DOMAIN readers = Procs /\ L!ListsFollow
  BY DEF L!IInv, L!TypeOK, L!OnThePage, DbOK, CacheOK
<1>2. ASSUME L!IInv, NEW p \in Procs PROVE Good(readers[p])
  <2>1. TypeOf(readers[p])
    BY <1>2 DEF L!IInv, L!TypeOK, TypeOf
  <2>2. Placed(readers[p])
    BY <1>2 DEF L!IInv, L!OnThePage, Placed, L!At
  <2>3. Current(readers[p])
    BY <1>2 DEF L!IInv, L!InHandIsCurrent, Current, L!At
  <2>4. Ranked(readers[p])
    BY <1>2 DEF L!IInv, L!BoardInOrder, L!BoardSound, Ranked, Grouped, Named, L!At
  <2>5. QED
    BY <2>1, <2>2, <2>3, <2>4 DEF Good
<1>3. ASSUME DbOK, CacheOK, DOMAIN readers = Procs, \A p \in Procs : Good(readers[p]), L!ListsFollow
      PROVE  L!IInv
  <2>1. L!TypeOK
    BY <1>3 DEF L!TypeOK, DbOK, CacheOK, Good, TypeOf
  <2>2. L!OnThePage
    BY <1>3 DEF L!OnThePage, CacheOK, Good, Placed, L!At
  <2>3. L!InHandIsCurrent
    BY <1>3 DEF L!InHandIsCurrent, Good, Current, L!At
  <2>4. L!BoardInOrder
    BY <1>3 DEF L!BoardInOrder, Good, Ranked, Grouped, L!At
  <2>5. L!BoardSound
    BY <1>3 DEF L!BoardSound, Good, Ranked, Named, L!At
  <2>6. QED
    BY <1>3, <2>1, <2>2, <2>3, <2>4, <2>5 DEF L!IInv
<1>4. QED
  BY <1>1, <1>2, <1>3

LEMMA PartsNext ==
  L!IInv' <=> DbOK' /\ CacheOK' /\ DOMAIN readers' = Procs /\ (\A p \in Procs : Good(readers[p])') /\ L!ListsFollow'
<1>1. (L!IInv <=> DbOK /\ CacheOK /\ DOMAIN readers = Procs /\ (\A p \in Procs : Good(readers[p])) /\ L!ListsFollow)'
  BY Parts, PTL
<1>2. QED
  BY <1>1

LEMMA Slot ==
  ASSUME DOMAIN readers = Procs, NEW p \in Procs, NEW r, L!Become(p, r)
  PROVE  DOMAIN readers' = Procs /\ readers'[p] = r /\ \A q \in Procs \ {p} : readers'[q] = readers[q]
BY DEF L!Become

\* What is good stays good while the lists are what they were, whoever plays or goes.
LEMMA GoodStays ==
  ASSUME NEW r, Good(r), NEW q, readers'[q] = r,
         page' = page, L!catalogue' = L!catalogue, status' = status, gone \subseteq gone'
  PROVE  Good(readers[q])'
<1>1. /\ shelf' = shelf /\ category' = category /\ order' = order
  BY DEF L!catalogue
<1>2. \A k : L!Value(k)' = L!Value(k)
  BY <1>1 DEF L!Value, L!WithCounts, L!Categories1, L!CountIn, L!Public, L!Active
<1>3. L!Categories1' = L!Categories1
  BY <1>1 DEF L!Categories1, L!Active
<1>4. TypeOf(readers[q])' /\ Placed(readers[q])'
  BY DEF Good, TypeOf, Placed
<1>5. Current(readers[q])'
  BY <1>2, <1>3 DEF Good, Current
<1>6. Ranked(readers[q])'
  BY DEF Good, Ranked, Grouped, Named
<1>7. QED
  BY <1>4, <1>5, <1>6 DEF Good

-----------------------------------------------------------------------------
(* The steps.                                                               *)

\* A reader goes on, or somebody begins: nothing is written.
LEMMA ReadStep ==
  ASSUME L!IInv, NEW p \in Procs, NEW r, L!Become(p, r), Good(r), readers[p].pc \notin {"keys", "del"},
         page' = page, UNCHANGED L!Database, cache' = cache
  PROVE  L!IInv'
<1>1. DbOK /\ CacheOK /\ DOMAIN readers = Procs /\ (\A q \in Procs : Good(readers[q])) /\ L!ListsFollow
  BY Parts
<1>2. /\ shelf' = shelf /\ category' = category /\ order' = order
      /\ L!catalogue' = L!catalogue /\ status' = status /\ score' = score /\ gone' = gone
  BY DEF L!Database, L!catalogue, L!players
<1>3. DOMAIN readers' = Procs /\ readers'[p] = r /\ \A q \in Procs \ {p} : readers'[q] = readers[q]
  BY <1>1, Slot
<1>4. ASSUME NEW q \in Procs PROVE Good(readers[q])'
  <2>1. Good(readers'[q])
    BY <1>1, <1>3
  <2>2. QED
    BY <1>2, <2>1, GoodStays
<1>5. DbOK' /\ CacheOK'
  BY <1>1, <1>2 DEF DbOK, CacheOK
<1>6. L!ListsFollow'
  <2>1. \A k : L!Value(k)' = L!Value(k)
    BY <1>2 DEF L!Value, L!WithCounts, L!Categories1, L!CountIn, L!Public, L!Active
  <2>2. \A q \in Procs : readers[q].pc \in {"keys", "del"} => readers'[q] = readers[q]
    BY <1>3
  <2> SUFFICES ASSUME NEW k \in L!Busted, L!Stale(k)', ~cache'[k].late
               PROVE  \E q \in Procs : L!At(q, "keys")' \/ (L!At(q, "del")' /\ k \in readers'[q].keys)
    BY DEF L!ListsFollow
  <2>3. L!Stale(k)
    BY <2>1 DEF L!Stale
  <2>4. PICK q \in Procs : L!At(q, "keys") \/ (L!At(q, "del") /\ k \in readers[q].keys)
    BY <1>1, <2>3 DEF L!ListsFollow
  <2>5. QED
    BY <2>2, <2>4 DEF L!At
<1>7. QED
  BY <1>3, <1>4, <1>5, <1>6, PartsNext

\* What a step of one request leaves good, whatever it does to the cache.
LEMMA RestStays ==
  ASSUME L!IInv, NEW p \in Procs, NEW r, L!Become(p, r), Good(r), page' = page, UNCHANGED L!Database
  PROVE  /\ DbOK' /\ DOMAIN readers' = Procs /\ \A q \in Procs : Good(readers[q])'
         /\ readers'[p] = r /\ \A q \in Procs \ {p} : readers'[q] = readers[q]
         /\ \A k : L!Value(k)' = L!Value(k)
<1>1. DbOK /\ DOMAIN readers = Procs /\ \A q \in Procs : Good(readers[q])
  BY Parts
<1>2. /\ shelf' = shelf /\ category' = category /\ order' = order
      /\ L!catalogue' = L!catalogue /\ status' = status /\ score' = score /\ gone' = gone
  BY DEF L!Database, L!catalogue, L!players
<1>3. DOMAIN readers' = Procs /\ readers'[p] = r /\ \A q \in Procs \ {p} : readers'[q] = readers[q]
  BY <1>1, Slot
<1>4. ASSUME NEW q \in Procs PROVE Good(readers[q])'
  <2>1. Good(readers'[q])
    BY <1>1, <1>3
  <2>2. QED
    BY <1>2, <2>1, GoodStays
<1>5. DbOK'
  BY <1>1, <1>2 DEF DbOK
<1>6. \A k : L!Value(k)' = L!Value(k)
  BY <1>2 DEF L!Value, L!WithCounts, L!Categories1, L!CountIn, L!Public, L!Active
<1>7. QED
  BY <1>3, <1>4, <1>5, <1>6

LEMMA Fields ==
  ASSUME NEW r, DOMAIN r = DOMAIN L!Idle, NEW pc, NEW hand
  PROVE  LET x == [r EXCEPT !.pc = pc, !.hand = hand] IN
         /\ DOMAIN x = DOMAIN L!Idle /\ x.pc = pc /\ x.hand = hand /\ x.key = r.key
         /\ x.late = r.late /\ x.keys = r.keys /\ x.before = r.before /\ x.left = r.left
BY DEF L!Idle

LEMMA IdleIsGood ==
  ASSUME NEW pc \in {"idle", "keys"} PROVE Good([L!Idle EXCEPT !.pc = pc])
BY DEF Good, TypeOf, Placed, Current, Ranked, L!Idle

LEMMA RememberStep ==
  ASSUME L!IInv, NEW p \in Procs, NEW k \in L!Keys, L!remember(p, k) PROVE L!IInv'
<1> DEFINE r == [L!Idle EXCEPT !.pc = "first", !.key = k, !.before = gone]
<1>1. Good(r)
  BY DEF Good, TypeOf, Placed, Current, Ranked, L!Idle, L!remember
<1>2. L!Become(p, r) /\ page' = page /\ UNCHANGED L!Database /\ cache' = cache /\ readers[p].pc \notin {"keys", "del"}
  BY DEF L!remember, L!At
<1> HIDE DEF r
<1>3. QED
  BY <1>1, <1>2, ReadStep

LEMMA ReadOneStep ==
  ASSUME L!IInv, NEW p \in Procs, L!ReadOne(p) PROVE L!IInv'
<1> DEFINE r == [readers[p] EXCEPT !.pc = "set", !.hand = L!Value(readers[p].key)]
<1>1. Good(readers[p])
  BY Parts
<1>2. L!Become(p, r) /\ page' = page /\ UNCHANGED L!Database /\ cache' = cache
      /\ readers[p].pc = "first" /\ readers[p].key \in {"public:stats", "tournaments:list"}
  BY DEF L!ReadOne, L!At
<1>3. /\ DOMAIN r = DOMAIN L!Idle /\ r.pc = "set" /\ r.hand = L!Value(r.key) /\ r.key = readers[p].key
      /\ r.late = readers[p].late /\ r.keys = readers[p].keys /\ r.before = readers[p].before
  BY <1>1, Fields DEF Good, TypeOf
<1> HIDE DEF r
<1>4. Good(r)
  BY <1>1, <1>2, <1>3 DEF Good, TypeOf, Placed, Current, Ranked
<1>5. QED
  BY <1>2, <1>4, ReadStep

LEMMA CategoriesStep ==
  ASSUME L!IInv, NEW p \in Procs, L!listCategories(p) PROVE L!IInv'
<1>1. Good(readers[p])
  BY Parts
<1>2. page' = page /\ UNCHANGED L!Database /\ cache' = cache /\ readers[p].key = "catalog:categories"
      /\ readers[p].pc \in {"first", "second"}
  BY DEF L!listCategories, L!At
<1>3. CASE readers[p].pc = "first"
  <2> DEFINE r == [readers[p] EXCEPT !.pc = "second", !.hand = L!Categories1]
  <2>1. L!Become(p, r)
    BY <1>3 DEF L!listCategories, L!At
  <2>2. /\ DOMAIN r = DOMAIN L!Idle /\ r.pc = "second" /\ r.hand = L!Categories1 /\ r.key = readers[p].key
        /\ r.late = readers[p].late /\ r.keys = readers[p].keys /\ r.before = readers[p].before
    BY <1>1, Fields DEF Good, TypeOf
  <2> HIDE DEF r
  <2>3. Good(r)
    BY <1>1, <1>2, <1>3, <2>2 DEF Good, TypeOf, Placed, Current, Ranked
  <2>4. QED
    BY <1>2, <2>1, <2>3, ReadStep
<1>4. CASE readers[p].pc = "second"
  <2> DEFINE r == [readers[p] EXCEPT !.pc = "set", !.hand = L!WithCounts(readers[p].hand)]
  <2>1. L!Become(p, r)
    <3>1. L!Become(p, [readers[p] EXCEPT !.pc = "set", !.hand = L!WithCounts(@)])
      BY <1>4 DEF L!listCategories, L!At
    <3>2. QED
      BY <3>1
  <2>2. /\ DOMAIN r = DOMAIN L!Idle /\ r.pc = "set" /\ r.hand = L!WithCounts(readers[p].hand) /\ r.key = readers[p].key
        /\ r.late = readers[p].late /\ r.keys = readers[p].keys /\ r.before = readers[p].before
    BY <1>1, Fields DEF Good, TypeOf
  <2> HIDE DEF r
  <2>3. ~readers[p].late => r.hand = L!Value(r.key)
    BY <1>1, <1>2, <1>4, <2>2 DEF Good, Current, L!Value
  <2>4. Good(r)
    BY <1>1, <1>2, <1>4, <2>2, <2>3 DEF Good, TypeOf, Placed, Current, Ranked
  <2>5. QED
    BY <1>2, <2>1, <2>4, ReadStep
<1>5. QED
  BY <1>2, <1>3, <1>4

\* A board is grouped when the database groups it.
LEMMA TopsAreGrouped ==
  ASSUME L!ListingsAssumption, DbOK, NEW s \in L!Tops, NEW r,
         r.hand = [i \in DOMAIN s |-> [user |-> s[i], score |-> score[s[i]]]],
         r.left = {score[u] : u \in Users \ {s[i] : i \in DOMAIN s}}
  PROVE  Grouped(r)
<1> DEFINE Played == {u \in Users : score[u] > 0}
           n == IF L!Cardinality(Played) < Limit THEN L!Cardinality(Played) ELSE Limit
<1>1. /\ s \in [1..n -> Played]
      /\ \A i, j \in 1..n : i < j => s[i] # s[j] /\ score[s[i]] >= score[s[j]]
      /\ \A u \in Played : (\A i \in 1..n : s[i] # u) => \A i \in 1..n : score[s[i]] >= score[u]
  BY DEF L!Tops
<1>2. n \in Nat /\ n <= Limit
  <2>1. L!Cardinality(Played) \in Nat
    BY ListingsCounting DEF L!ListingsAssumption
  <2> HIDE DEF Played
  <2>2. QED
    BY <2>1 DEF L!ListingsAssumption
<1>3. \A u \in Users : score[u] \in Nat
  BY DEF DbOK, L!ListingsAssumption
<1> HIDE DEF n
<1>4. DOMAIN s = 1..n /\ \A i \in 1..n : s[i] \in Users
  BY <1>1
<1>5. r.hand = [i \in 1..n |-> [user |-> s[i], score |-> score[s[i]]]]
  BY <1>4
<1>6. r.hand \in Seq([user : Users, score : Nat]) /\ Len(r.hand) = n /\ DOMAIN r.hand = 1..n
  BY <1>2, <1>3, <1>4, <1>5
<1>7. ASSUME NEW i \in 1..n PROVE r.hand[i].user = s[i] /\ r.hand[i].score = score[s[i]]
  <2>1. r.hand[i] = [user |-> s[i], score |-> score[s[i]]]
    BY <1>5
  <2>2. QED
    BY <2>1
<1>8. ASSUME NEW i \in 1..n, NEW u \in Users \ {s[j] : j \in DOMAIN s} PROVE score[s[i]] >= score[u]
  <2>1. \A j \in 1..n : s[j] # u
    BY <1>4
  <2>2. CASE u \in Played
    BY <1>1, <2>1, <2>2
  <2>3. CASE u \notin Played
    <3>1. score[u] = 0 /\ score[s[i]] \in Nat
      BY <1>3, <1>4, <2>3
    <3>2. QED
      BY <3>1
  <2>4. QED
    BY <2>2, <2>3
<1>9. L!InOrder(r.hand)
  BY <1>1, <1>2, <1>6, <1>7 DEF L!InOrder
<1>10. QED
  BY <1>6, <1>7, <1>8, <1>9 DEF Grouped

LEMMA GroupStep ==
  ASSUME L!ListingsAssumption, L!IInv, NEW p \in Procs, L!GroupScores(p) PROVE L!IInv'
<1>1. Good(readers[p]) /\ DbOK
  BY Parts
<1>2. page' = page /\ UNCHANGED L!Database /\ cache' = cache
      /\ readers[p].key = "leaderboard:global" /\ readers[p].pc = "first"
  BY DEF L!GroupScores, L!At
<1>3. PICK s \in L!Tops :
        L!Become(p, [readers[p] EXCEPT !.pc = "second",
                     !.hand = [i \in DOMAIN s |-> [user |-> s[i], score |-> score[s[i]]]],
                     !.left = {score[u] : u \in Users \ {s[i] : i \in DOMAIN s}}])
  BY DEF L!GroupScores
<1> DEFINE hand == [i \in DOMAIN s |-> [user |-> s[i], score |-> score[s[i]]]]
           left == {score[u] : u \in Users \ {s[i] : i \in DOMAIN s}}
           r == [readers[p] EXCEPT !.pc = "second", !.hand = hand, !.left = left]
<1>4. L!Become(p, r)
  BY <1>3
<1> HIDE DEF hand, left
<1>5. /\ DOMAIN r = DOMAIN L!Idle /\ r.pc = "second" /\ r.hand = hand /\ r.left = left
      /\ r.key = readers[p].key /\ r.late = readers[p].late /\ r.keys = readers[p].keys /\ r.before = readers[p].before
  BY <1>1 DEF Good, TypeOf, L!Idle
<1> HIDE DEF r
<1>6. Grouped(r)
  BY <1>1, <1>5, TopsAreGrouped DEF hand, left
<1>7. Good(r)
  BY <1>1, <1>2, <1>5, <1>6 DEF Good, TypeOf, Placed, Current, Ranked
<1>8. QED
  BY <1>2, <1>4, <1>7, ReadStep

\* What is left of a board in order is in order, and nobody on it was gone.
LEMMA PresentIsNamed ==
  ASSUME L!ListingsAssumption, NEW b, NEW r, NEW q, Grouped(r), r.hand = b, r.before \subseteq gone,
         q.hand = L!Present(b), q.left = r.left, q.before = r.before
  PROVE  Named(q)
<1> DEFINE S == [user : Users, score : Nat]
           x == L!Present(b)
<1>1. /\ b \in Seq(S) /\ Len(b) \in Nat /\ Len(b) <= Limit /\ DOMAIN b = 1..Len(b)
      /\ \A i, j \in DOMAIN b : i < j => b[i].user # b[j].user /\ b[i].score >= b[j].score
      /\ \A i \in DOMAIN b : \A y \in r.left : b[i].score >= y
  BY DEF Grouped, L!InOrder
<1> HIDE DEF S
<1>2. LeftOf(S, Len(b), b, x)
  BY <1>1, PresentLeaves
<1> HIDE DEF x
<1>3. /\ x \in Seq(S) /\ Len(x) \in Nat /\ Len(x) <= Len(b) /\ DOMAIN x = 1..Len(x)
      /\ \A i \in 1..Len(x) : \E k \in 1..Len(b) : x[i] = b[k] /\ b[k].user \notin gone
      /\ \A i, j \in 1..Len(x) : i < j =>
           \E k, l \in 1..Len(b) : k < l /\ x[i] = b[k] /\ x[j] = b[l]
  BY <1>2 DEF LeftOf
<1>4. Len(x) <= Limit
  BY <1>1, <1>3 DEF L!ListingsAssumption
<1>5. ASSUME NEW i \in DOMAIN x PROVE x[i].user \notin r.before /\ \A y \in r.left : x[i].score >= y
  <2>0. i \in 1..Len(x)
    BY <1>3
  <2>1. PICK k \in 1..Len(b) : x[i] = b[k] /\ b[k].user \notin gone
    BY <1>3, <2>0
  <2>2. \A y \in r.left : b[k].score >= y
    BY <1>1
  <2>3. QED
    BY <2>1, <2>2
<1>6. ASSUME NEW i \in DOMAIN x, NEW j \in DOMAIN x, i < j
      PROVE  x[i].user # x[j].user /\ x[i].score >= x[j].score
  <2> DEFINE Both(k, l) == k < l /\ x[i] = b[k] /\ x[j] = b[l]
  <2>0. i \in 1..Len(x) /\ j \in 1..Len(x)
    BY <1>3
  <2>1. PICK k \in 1..Len(b), l \in 1..Len(b) : Both(k, l)
    <3>1. \E k, l \in 1..Len(b) : Both(k, l)
      BY <1>3, <1>6, <2>0
    <3>2. QED
      BY <3>1
  <2>2. b[k].user # b[l].user /\ b[k].score >= b[l].score
    BY <1>1, <2>1
  <2>3. QED
    BY <2>1, <2>2
<1>7. q.hand = x
  BY DEF x
<1>8. QED
  BY <1>4, <1>5, <1>6, <1>7 DEF Named

LEMMA NameStep ==
  ASSUME L!ListingsAssumption, L!IInv, NEW p \in Procs, L!NameRows(p) PROVE L!IInv'
<1>1. Good(readers[p])
  BY Parts
<1>2. page' = page /\ UNCHANGED L!Database /\ cache' = cache
      /\ readers[p].key = "leaderboard:global" /\ readers[p].pc = "second"
  BY DEF L!NameRows, L!At
<1> DEFINE r == [readers[p] EXCEPT !.pc = "set", !.hand = L!Present(readers[p].hand)]
<1>3. L!Become(p, r)
  <2>1. L!Become(p, [readers[p] EXCEPT !.pc = "set", !.hand = L!Present(@)])
    BY DEF L!NameRows
  <2>2. QED
    BY <2>1
<1>4. /\ DOMAIN r = DOMAIN L!Idle /\ r.pc = "set" /\ r.hand = L!Present(readers[p].hand)
      /\ r.key = readers[p].key /\ r.late = readers[p].late /\ r.keys = readers[p].keys
      /\ r.before = readers[p].before /\ r.left = readers[p].left
  BY <1>1, Fields DEF Good, TypeOf
<1> HIDE DEF r
<1>5. Named(r)
  <2>1. Grouped(readers[p]) /\ readers[p].before \subseteq gone
    BY <1>1, <1>2 DEF Good, Ranked
  <2>2. QED
    BY <1>4, <2>1, PresentIsNamed
<1>6. Good(r)
  BY <1>1, <1>2, <1>4, <1>5 DEF Good, TypeOf, Placed, Current, Ranked, L!Busted
<1>7. QED
  BY <1>2, <1>3, <1>6, ReadStep

LEMMA Entries ==
  /\ \A v, l : LET x == [full |-> TRUE, value |-> v, late |-> l] IN
       DOMAIN x = DOMAIN L!Miss /\ x.full = TRUE /\ x.late = l /\ x.value = v
  /\ L!Miss.full = FALSE /\ L!Miss.late = FALSE
BY DEF L!Miss

LEMMA IdleGood == Good(L!Idle)
BY DEF Good, TypeOf, Placed, Current, Ranked, L!Idle

\* What is cached is what would be read now, unless the reader was overtaken.
LEMMA SetStep ==
  ASSUME L!IInv, NEW p \in Procs, L!set(p) PROVE L!IInv'
<1>1. Good(readers[p]) /\ CacheOK /\ L!ListsFollow
  BY Parts
<1>2. L!Become(p, L!Idle) /\ page' = page /\ UNCHANGED L!Database /\ readers[p].pc = "set"
  BY DEF L!set, L!At
<1>3. CASE cache' = cache
  BY <1>2, <1>3, IdleGood, ReadStep
<1>4. CASE cache' = [cache EXCEPT ![readers[p].key] =
                       [full |-> TRUE, value |-> readers[p].hand, late |-> readers[p].late]]
  <2>1. /\ DbOK' /\ DOMAIN readers' = Procs /\ \A q \in Procs : Good(readers[q])'
        /\ \A q \in Procs \ {p} : readers'[q] = readers[q]
        /\ \A k : L!Value(k)' = L!Value(k)
    BY <1>2, IdleGood, RestStays
  <2> DEFINE key == readers[p].key
  <2>2. key \in L!Keys /\ L!PageOf(key) = page /\ readers[p].late \in BOOLEAN
    BY <1>1, <1>2 DEF Good, TypeOf, Placed
  <2>3. key \in L!Busted /\ ~readers[p].late => readers[p].hand = L!Value(key)
    BY <1>1, <1>2 DEF Good, Current
  <2>4. /\ DOMAIN cache' = L!Keys
        /\ cache'[key] = [full |-> TRUE, value |-> readers[p].hand, late |-> readers[p].late]
        /\ \A k \in L!Keys \ {key} : cache'[k] = cache[k]
    BY <1>1, <1>4, <2>2 DEF CacheOK
  <2> HIDE DEF key
  <2>5. CacheOK'
    <3>1. \A k : L!PageOf(k)' = L!PageOf(k)
      BY DEF L!PageOf
    <3>2. ASSUME NEW k \in L!Keys
          PROVE  /\ DOMAIN cache'[k] = DOMAIN L!Miss /\ {cache'[k].full, cache'[k].late} \subseteq BOOLEAN
                 /\ cache'[k].full => L!PageOf(k) = page
      <4>1. CASE k = key
        <5>1. DOMAIN cache'[k] = DOMAIN L!Miss /\ cache'[k].full = TRUE /\ cache'[k].late = readers[p].late
          BY <2>4, <4>1, Entries
        <5>2. QED
          BY <2>2, <4>1, <5>1
      <4>2. CASE k # key
        BY <1>1, <2>4, <4>2 DEF CacheOK
      <4>3. QED
        BY <4>1, <4>2
    <3>3. QED
      BY <1>2, <2>4, <3>2 DEF CacheOK
  <2>6. L!ListsFollow'
    <3> SUFFICES ASSUME NEW k \in L!Busted, L!Stale(k)', ~cache'[k].late
                 PROVE  \E q \in Procs : L!At(q, "keys")' \/ (L!At(q, "del")' /\ k \in readers'[q].keys)
      BY DEF L!ListsFollow
    <3>1. k \in L!Keys
      BY DEF L!Busted, L!Keys
    <3>2. k # key
      BY <2>1, <2>3, <2>4 DEF L!Stale
    <3>3. L!Stale(k) /\ ~cache[k].late
      BY <2>1, <2>4, <3>1, <3>2 DEF L!Stale
    <3>4. PICK q \in Procs : L!At(q, "keys") \/ (L!At(q, "del") /\ k \in readers[q].keys)
      BY <1>1, <3>3 DEF L!ListsFollow
    <3>5. readers'[q] = readers[q]
      BY <1>2, <2>1, <3>4 DEF L!At
    <3>6. QED
      BY <3>4, <3>5 DEF L!At
  <2>7. QED
    BY <2>1, <2>5, <2>6, PartsNext
<1>5. QED
  BY <1>3, <1>4 DEF L!set

\* Who has looked up the keys is about to delete every stale one.
LEMMA BustStep ==
  ASSUME L!IInv, NEW p \in Procs, L!bustCatalogCache(p) PROVE L!IInv'
<1>1. Good(readers[p]) /\ CacheOK /\ L!ListsFollow
  BY Parts
<1> DEFINE keys == {k \in L!Busted : L!PageOf(k) = page /\ cache[k].full}
           r == [readers[p] EXCEPT !.pc = "del", !.keys = keys]
<1>2. L!Become(p, r) /\ page' = page /\ UNCHANGED L!Database /\ cache' = cache /\ readers[p].pc = "keys"
  BY DEF L!bustCatalogCache, L!At
<1>3. \A k \in L!Busted : cache[k].full => k \in keys
  BY <1>1 DEF CacheOK, L!Busted, L!Keys
<1>4. keys \subseteq L!Busted
  OBVIOUS
<1> HIDE DEF keys
<1>5. /\ DOMAIN r = DOMAIN L!Idle /\ r.pc = "del" /\ r.keys = keys /\ r.late = readers[p].late
      /\ r.before = readers[p].before
  BY <1>1 DEF Good, TypeOf, L!Idle
<1> HIDE DEF r
<1>6. Good(r)
  BY <1>1, <1>4, <1>5 DEF Good, TypeOf, Placed, Current, Ranked
<1>7. /\ DbOK' /\ DOMAIN readers' = Procs /\ \A q \in Procs : Good(readers[q])'
      /\ readers'[p] = r /\ \A q \in Procs \ {p} : readers'[q] = readers[q]
      /\ \A k : L!Value(k)' = L!Value(k)
  BY <1>2, <1>6, RestStays
<1>8. CacheOK'
  BY <1>1, <1>2 DEF CacheOK
<1>9. L!ListsFollow'
  <2> SUFFICES ASSUME NEW k \in L!Busted, L!Stale(k)', ~cache'[k].late
               PROVE  \E q \in Procs : L!At(q, "keys")' \/ (L!At(q, "del")' /\ k \in readers'[q].keys)
    BY DEF L!ListsFollow
  <2>1. k \in keys
    BY <1>2, <1>3 DEF L!Stale
  <2>2. L!At(p, "del")' /\ k \in readers'[p].keys
    BY <1>5, <1>7, <2>1 DEF L!At
  <2>3. QED
    BY <2>2
<1>10. QED
  BY <1>7, <1>8, <1>9, PartsNext

\* What was not deleted is excused.
LEMMA ExcuseStep ==
  ASSUME L!IInv, NEW p \in Procs, L!Become(p, L!Idle), page' = page, UNCHANGED L!Database,
         NEW ks, cache' = L!Excuse(ks),
         L!At(p, "keys") => {k \in L!Busted : L!PageOf(k) = page} \subseteq ks,
         L!At(p, "del") => readers[p].keys \subseteq ks
  PROVE  L!IInv'
<1>1. Good(readers[p]) /\ CacheOK /\ L!ListsFollow
  BY Parts
<1>2. /\ DbOK' /\ DOMAIN readers' = Procs /\ \A q \in Procs : Good(readers[q])'
      /\ \A q \in Procs \ {p} : readers'[q] = readers[q]
      /\ \A k : L!Value(k)' = L!Value(k)
  BY IdleGood, RestStays
<1>3. DOMAIN cache' = L!Keys
  BY DEF L!Excuse
<1>4. ASSUME NEW k \in L!Keys
      PROVE  /\ DOMAIN cache'[k] = DOMAIN L!Miss /\ cache'[k].full = cache[k].full
             /\ cache'[k].value = cache[k].value
             /\ cache'[k].late = IF k \in ks THEN cache[k].full ELSE cache[k].late
  <2>1. cache'[k] = IF k \in ks THEN [cache[k] EXCEPT !.late = cache[k].full] ELSE cache[k]
    BY DEF L!Excuse
  <2>2. DOMAIN cache[k] = DOMAIN L!Miss
    BY <1>1 DEF CacheOK
  <2>3. QED
    BY <2>1, <2>2 DEF L!Miss
<1>5. CacheOK'
  <2>1. ASSUME NEW k \in L!Keys
        PROVE  /\ DOMAIN cache'[k] = DOMAIN L!Miss /\ {cache'[k].full, cache'[k].late} \subseteq BOOLEAN
               /\ cache'[k].full => L!PageOf(k) = page
    BY <1>1, <1>4 DEF CacheOK
  <2>2. QED
    BY <1>3, <2>1 DEF CacheOK
<1>6. L!ListsFollow'
  <2> SUFFICES ASSUME NEW k \in L!Busted, L!Stale(k)', ~cache'[k].late
               PROVE  \E q \in Procs : L!At(q, "keys")' \/ (L!At(q, "del")' /\ k \in readers'[q].keys)
    BY DEF L!ListsFollow
  <2>1. k \in L!Keys
    BY DEF L!Busted, L!Keys
  <2>2. cache[k].full /\ L!Stale(k)
    BY <1>2, <1>4, <2>1 DEF L!Stale
  <2>3. k \notin ks /\ ~cache[k].late
    BY <1>4, <2>1, <2>2
  <2>4. PICK q \in Procs : L!At(q, "keys") \/ (L!At(q, "del") /\ k \in readers[q].keys)
    BY <1>1, <2>2, <2>3 DEF L!ListsFollow
  <2>5. q # p
    BY <1>1, <2>1, <2>2, <2>3, <2>4 DEF CacheOK
  <2>6. QED
    BY <1>2, <2>4, <2>5 DEF L!At
<1>7. QED
  BY <1>2, <1>5, <1>6, PartsNext

LEMMA DelStep ==
  ASSUME L!IInv, NEW p \in Procs, L!del(p) PROVE L!IInv'
<1>1. Good(readers[p]) /\ CacheOK /\ L!ListsFollow
  BY Parts
<1>2. L!Become(p, L!Idle) /\ page' = page /\ UNCHANGED L!Database /\ readers[p].pc = "del"
  BY DEF L!del, L!At
<1>3. CASE cache' = L!Excuse(readers[p].keys)
  BY <1>2, <1>3, ExcuseStep DEF L!At
<1>4. CASE cache' = [k \in L!Keys |-> IF k \in readers[p].keys THEN L!Miss ELSE cache[k]]
  <2>1. /\ DbOK' /\ DOMAIN readers' = Procs /\ \A q \in Procs : Good(readers[q])'
        /\ \A q \in Procs \ {p} : readers'[q] = readers[q]
        /\ \A k : L!Value(k)' = L!Value(k)
    BY <1>2, IdleGood, RestStays
  <2>2. DOMAIN cache' = L!Keys /\ \A k \in L!Keys : cache'[k] = IF k \in readers[p].keys THEN L!Miss ELSE cache[k]
    BY <1>4
  <2>3. ASSUME NEW k \in L!Keys
        PROVE  /\ DOMAIN cache'[k] = DOMAIN L!Miss /\ {cache'[k].full, cache'[k].late} \subseteq BOOLEAN
               /\ cache'[k].full => L!PageOf(k) = page
    <3>1. CASE k \in readers[p].keys
      <4>1. cache'[k] = L!Miss
        BY <2>2, <3>1
      <4>2. QED
        BY <4>1, Entries
    <3>2. CASE k \notin readers[p].keys
      BY <1>1, <2>2, <3>2 DEF CacheOK
    <3>3. QED
      BY <3>1, <3>2
  <2>4. CacheOK'
    BY <1>2, <2>2, <2>3 DEF CacheOK
  <2>5. L!ListsFollow'
    <3> SUFFICES ASSUME NEW k \in L!Busted, L!Stale(k)', ~cache'[k].late
                 PROVE  \E q \in Procs : L!At(q, "keys")' \/ (L!At(q, "del")' /\ k \in readers'[q].keys)
      BY DEF L!ListsFollow
    <3>1. k \in L!Keys
      BY DEF L!Busted, L!Keys
    <3>2. k \notin readers[p].keys
      BY <2>2, <3>1 DEF L!Stale, L!Miss
    <3>3. L!Stale(k) /\ ~cache[k].late
      BY <2>1, <2>2, <3>1, <3>2 DEF L!Stale
    <3>4. PICK q \in Procs : L!At(q, "keys") \/ (L!At(q, "del") /\ k \in readers[q].keys)
      BY <1>1, <3>3 DEF L!ListsFollow
    <3>5. q # p
      BY <1>2, <3>2, <3>4 DEF L!At
    <3>6. QED
      BY <2>1, <3>4, <3>5 DEF L!At
  <2>6. QED
    BY <2>1, <2>4, <2>5, PartsNext
<1>5. QED
  BY <1>3, <1>4 DEF L!del

LEMMA AbortStep ==
  ASSUME L!IInv, NEW p \in Procs, L!Abort(p) PROVE L!IInv'
<1>1. L!Become(p, L!Idle) /\ page' = page /\ UNCHANGED L!Database
  BY DEF L!Abort
<1>2. CASE L!At(p, "keys")
  <2>1. cache' = L!Excuse({k \in L!Busted : L!PageOf(k) = page})
    BY <1>2 DEF L!Abort, L!At
  <2>2. QED
    BY <1>1, <1>2, <2>1, ExcuseStep DEF L!At
<1>3. CASE L!At(p, "del")
  <2>1. cache' = L!Excuse(readers[p].keys)
    BY <1>3 DEF L!Abort, L!At
  <2>2. QED
    BY <1>1, <1>3, <2>1, ExcuseStep DEF L!At
<1>4. CASE ~L!At(p, "keys") /\ ~L!At(p, "del")
  <2>1. cache' = cache
    BY <1>4 DEF L!Abort
  <2>2. QED
    BY <1>1, <1>4, <2>1, IdleGood, ReadStep DEF L!At
<1>5. QED
  BY <1>2, <1>3, <1>4

\* A write: every reader at work is overtaken, and the writer has yet to bust.
LEMMA WriteStep ==
  ASSUME L!IInv, NEW p \in Procs, L!Overtake(p, "keys"), DbOK',
         page' = page, gone' = gone, cache' = cache
  PROVE  L!IInv'
<1>1. CacheOK /\ \A q \in Procs : Good(readers[q])
  BY Parts
<1>2. /\ DOMAIN readers' = Procs /\ readers'[p] = [L!Idle EXCEPT !.pc = "keys"]
      /\ \A q \in Procs \ {p} :
           readers'[q] = IF readers[q].pc \in {"second", "set"} THEN [readers[q] EXCEPT !.late = TRUE] ELSE readers[q]
  BY DEF L!Overtake
<1>3. ASSUME NEW q \in Procs PROVE Good(readers[q])'
  <2>1. CASE q = p
    <3>1. /\ DOMAIN readers'[q] = DOMAIN L!Idle /\ readers'[q].pc = "keys" /\ readers'[q].late = FALSE
          /\ readers'[q].keys = {} /\ readers'[q].before = {}
      BY <1>2, <2>1 DEF L!Idle
    <3>2. QED
      BY <3>1 DEF Good, TypeOf, Placed, Current, Ranked
  <2>2. CASE q # p /\ readers[q].pc \in {"second", "set"}
    <3>1. readers'[q] = [readers[q] EXCEPT !.late = TRUE] /\ DOMAIN readers[q] = DOMAIN L!Idle
      BY <1>1, <1>2, <2>2 DEF Good, TypeOf
    <3>2. /\ DOMAIN readers'[q] = DOMAIN L!Idle /\ readers'[q].pc = readers[q].pc /\ readers'[q].late = TRUE
          /\ readers'[q].keys = readers[q].keys /\ readers'[q].before = readers[q].before /\ readers'[q].key = readers[q].key
          /\ readers'[q].hand = readers[q].hand /\ readers'[q].left = readers[q].left
      BY <3>1 DEF L!Idle
    <3>3. TypeOf(readers[q])' /\ Placed(readers[q])' /\ Current(readers[q])'
      BY <1>1, <3>2 DEF Good, TypeOf, Placed, Current
    <3>4. Ranked(readers[q])'
      <4>1. Ranked(readers[q])
        BY <1>1 DEF Good
      <4>2. (readers'[q].before \subseteq gone')
        BY <3>2, <4>1 DEF Ranked
      <4>3. readers[q].pc = "second" /\ readers[q].key = "leaderboard:global" => Grouped(readers[q])'
        BY <3>2, <4>1 DEF Ranked, Grouped
      <4>4. readers[q].pc = "set" /\ readers[q].key = "leaderboard:global" => Named(readers[q])'
        BY <3>2, <4>1 DEF Ranked, Named
      <4>5. QED
        BY <3>2, <4>2, <4>3, <4>4 DEF Ranked
    <3>5. QED
      BY <3>3, <3>4 DEF Good
  <2>3. CASE q # p /\ readers[q].pc \notin {"second", "set"}
    <3>1. readers'[q] = readers[q] /\ Good(readers[q])
      BY <1>1, <1>2, <2>3
    <3>2. QED
      BY <2>3, <3>1 DEF Good, TypeOf, Placed, Current, Ranked
  <2>4. QED
    BY <2>1, <2>2, <2>3
<1>4. CacheOK'
  BY <1>1 DEF CacheOK
<1>5. L!ListsFollow'
  <2>1. L!At(p, "keys")'
    BY <1>2 DEF L!At, L!Idle
  <2>2. QED
    BY <2>1 DEF L!ListsFollow
<1>6. QED
  BY <1>2, <1>3, <1>4, <1>5, PartsNext

LEMMA AdminStep ==
  ASSUME L!IInv, NEW p \in Procs, L!Admin(p) PROVE L!IInv'
<1>1. DbOK
  BY Parts
<1> DEFINE Rows == [status : {"none", "DRAFT", "PUBLISHED", "ARCHIVED"},
                    deleted : BOOLEAN, cat : Categories \cup {None}]
<1>2. ASSUME NEW g \in Games, NEW r \in Rows, L!SetGame(p, g, r) PROVE L!IInv'
  <2>1. /\ L!Overtake(p, "keys") /\ page' = page /\ gone' = gone /\ cache' = cache
        /\ shelf' = [shelf EXCEPT ![g] = r] /\ category' = category /\ order' = order
        /\ status' = status /\ score' = score
    BY <1>2 DEF L!SetGame, L!players
  <2>2. shelf' \in [Games -> Rows]
    BY <1>1, <1>2, <2>1 DEF DbOK
  <2>3. DbOK'
    BY <1>1, <2>1, <2>2 DEF DbOK
  <2>4. QED
    BY <2>1, <2>3, WriteStep
<1>3. ASSUME NEW c \in Categories, NEW v \in {"none", "active", "inactive"}, L!SetCategory(p, c, v)
      PROVE  L!IInv'
  <2>1. /\ L!Overtake(p, "keys") /\ page' = page /\ gone' = gone /\ cache' = cache
        /\ category' = [category EXCEPT ![c] = v] /\ order' = order
        /\ status' = status /\ score' = score
        /\ shelf' = IF v # "none" THEN shelf
                   ELSE [g \in Games |-> IF shelf[g].cat = c THEN [shelf[g] EXCEPT !.cat = None] ELSE shelf[g]]
    BY <1>3 DEF L!SetCategory, L!players
  <2>2. shelf' \in [Games -> Rows]
    <3>1. \A g \in Games : shelf[g] \in Rows /\ [shelf[g] EXCEPT !.cat = None] \in Rows
      BY <1>1 DEF DbOK
    <3>2. shelf \in [Games -> Rows]
      BY <1>1 DEF DbOK
    <3> HIDE DEF Rows
    <3>3. QED
      BY <2>1, <3>1, <3>2
  <2>3. category' \in [Categories -> {"none", "active", "inactive"}]
    BY <1>1, <1>3, <2>1 DEF DbOK
  <2>4. DbOK'
    BY <1>1, <2>1, <2>2, <2>3 DEF DbOK
  <2>5. QED
    BY <2>1, <2>4, WriteStep
<1>4. \A g \in Games : shelf[g] \in Rows
  BY <1>1 DEF DbOK
<1>5. ASSUME NEW g \in Games, L!createGame(p, g) PROVE L!IInv'
  <2>1. PICK s \in {"DRAFT", "PUBLISHED"}, c \in L!Active \cup {None} :
          L!SetGame(p, g, [status |-> s, deleted |-> FALSE, cat |-> c])
    BY <1>5 DEF L!createGame
  <2>2. [status |-> s, deleted |-> FALSE, cat |-> c] \in Rows
    BY DEF L!Active
  <2>3. QED
    BY <1>2, <2>1, <2>2
<1>6. ASSUME NEW g \in Games, L!updateGame(p, g) PROVE L!IInv'
  <2>1. CASE \E s \in {"DRAFT", "PUBLISHED"} : L!SetGame(p, g, [shelf[g] EXCEPT !.status = s])
    <3>1. PICK s \in {"DRAFT", "PUBLISHED"} : L!SetGame(p, g, [shelf[g] EXCEPT !.status = s])
      BY <2>1
    <3>2. [shelf[g] EXCEPT !.status = s] \in Rows
      BY <1>4
    <3>3. QED
      BY <1>2, <3>1, <3>2
  <2>2. CASE \E c \in L!Active \cup {None} : L!SetGame(p, g, [shelf[g] EXCEPT !.cat = c])
    <3>1. PICK c \in L!Active \cup {None} : L!SetGame(p, g, [shelf[g] EXCEPT !.cat = c])
      BY <2>2
    <3>2. [shelf[g] EXCEPT !.cat = c] \in Rows
      BY <1>4 DEF L!Active
    <3>3. QED
      BY <1>2, <3>1, <3>2
  <2>3. QED
    BY <1>6, <2>1, <2>2 DEF L!updateGame
<1>7. ASSUME NEW g \in Games, L!archiveGame(p, g) \/ L!restoreGame(p, g) PROVE L!IInv'
  <2>1. /\ [shelf[g] EXCEPT !.status = "ARCHIVED", !.deleted = TRUE] \in Rows
        /\ [shelf[g] EXCEPT !.status = "PUBLISHED", !.deleted = FALSE] \in Rows
    BY <1>4
  <2>2. QED
    BY <1>2, <1>7, <2>1 DEF L!archiveGame, L!restoreGame
<1>8. ASSUME NEW c \in Categories, L!createCategory(p, c) \/ L!updateCategory(p, c) \/ L!deleteCategory(p, c)
      PROVE  L!IInv'
  BY <1>3, <1>8 DEF L!createCategory, L!updateCategory, L!deleteCategory
<1>9. ASSUME L!reorderCategories(p) PROVE L!IInv'
  <2>1. /\ L!Overtake(p, "keys") /\ page' = page /\ gone' = gone /\ cache' = cache
        /\ order' = ~order /\ shelf' = shelf /\ category' = category
        /\ status' = status /\ score' = score
    BY <1>9 DEF L!reorderCategories, L!players
  <2>2. order' \in BOOLEAN
    BY <2>1
  <2>3. DbOK'
    BY <1>1, <2>1, <2>2 DEF DbOK
  <2>4. QED
    BY <2>1, <2>3, WriteStep
<1>10. ASSUME L!reorderGames(p) PROVE L!IInv'
  <2>1. /\ L!Become(p, [L!Idle EXCEPT !.pc = "keys"]) /\ page' = page /\ UNCHANGED L!Database
        /\ cache' = cache /\ readers[p].pc = "idle"
    BY <1>10 DEF L!reorderGames, L!At
  <2>2. QED
    BY <2>1, IdleIsGood, ReadStep
<1>11. ASSUME L!SetTournament(p) PROVE L!IInv'
  <2>1. /\ L!Overtake(p, "keys") /\ page' = page /\ gone' = gone /\ cache' = cache
        /\ status' \in {"DRAFT", "UPCOMING", "CANCELLED"} \cup L!PUBLIC_STATES
        /\ shelf' = shelf /\ category' = category /\ order' = order /\ score' = score
    BY <1>11 DEF L!SetTournament, L!players, L!catalogue
  <2>2. DbOK'
    BY <1>1, <2>1 DEF DbOK, L!PUBLIC_STATES
  <2>3. QED
    BY <2>1, <2>2, WriteStep
<1>12. QED
  BY <1>5, <1>6, <1>7, <1>8, <1>9, <1>10, <1>11 DEF L!Admin

\* No list that is busted shows scores, and who is gone stays gone.
LEMMA UserStep ==
  ASSUME L!ListingsAssumption, L!IInv, NEW u \in Users, L!Play(u) \/ L!SoftDelete(u) PROVE L!IInv'
<1>1. DbOK /\ CacheOK /\ DOMAIN readers = Procs /\ (\A q \in Procs : Good(readers[q])) /\ L!ListsFollow
  BY Parts
<1>2. /\ page' = page /\ L!catalogue' = L!catalogue /\ status' = status /\ cache' = cache /\ readers' = readers
      /\ shelf' = shelf /\ category' = category /\ order' = order /\ gone \subseteq gone'
  BY DEF L!Play, L!SoftDelete, L!catalogue
<1>3. score' \in [Users -> 0..MaxScore] /\ gone' \subseteq Users
  <2>1. score \in [Users -> 0..MaxScore] /\ gone \subseteq Users
    BY <1>1 DEF DbOK
  <2>2. CASE L!Play(u)
    <3>1. PICK s \in 1..MaxScore : score' = [score EXCEPT ![u] = s]
      BY <2>2 DEF L!Play
    <3>2. s \in 0..MaxScore
      BY DEF L!ListingsAssumption
    <3>3. gone' = gone
      BY <2>2 DEF L!Play
    <3>4. QED
      BY <2>1, <3>1, <3>2, <3>3
  <2>3. CASE L!SoftDelete(u)
    BY <2>1, <2>3 DEF L!SoftDelete
  <2>4. QED
    BY <2>2, <2>3
<1>4. DbOK'
  BY <1>1, <1>2, <1>3 DEF DbOK
<1>5. CacheOK'
  BY <1>1, <1>2 DEF CacheOK
<1>6. ASSUME NEW q \in Procs PROVE Good(readers[q])'
  BY <1>1, <1>2, GoodStays
<1>7. L!ListsFollow'
  <2>1. \A k : L!Value(k)' = L!Value(k)
    BY <1>2 DEF L!Value, L!WithCounts, L!Categories1, L!CountIn, L!Public, L!Active
  <2>2. QED
    BY <1>1, <1>2, <2>1 DEF L!ListsFollow, L!Stale, L!At
<1>8. QED
  BY <1>1, <1>2, <1>4, <1>5, <1>6, <1>7, PartsNext

LEMMA ExpireStep ==
  ASSUME L!IInv, NEW k \in L!Keys, L!Expire(k) PROVE L!IInv'
<1>1. DbOK /\ CacheOK /\ DOMAIN readers = Procs /\ (\A q \in Procs : Good(readers[q])) /\ L!ListsFollow
  BY Parts
<1>2. /\ page' = page /\ L!catalogue' = L!catalogue /\ status' = status /\ readers' = readers
      /\ shelf' = shelf /\ category' = category /\ order' = order /\ gone' = gone /\ score' = score
      /\ cache' = [cache EXCEPT ![k] = L!Miss]
  BY DEF L!Expire, L!Database, L!catalogue, L!players
<1>3. DOMAIN cache' = L!Keys /\ cache'[k] = L!Miss /\ \A j \in L!Keys \ {k} : cache'[j] = cache[j]
  BY <1>1, <1>2 DEF CacheOK
<1>4. DbOK'
  BY <1>1, <1>2 DEF DbOK
<1>5. ASSUME NEW j \in L!Keys
      PROVE  /\ DOMAIN cache'[j] = DOMAIN L!Miss /\ {cache'[j].full, cache'[j].late} \subseteq BOOLEAN
             /\ cache'[j].full => L!PageOf(j) = page
  <2>1. CASE j = k
    BY <1>3, <2>1, Entries
  <2>2. CASE j # k
    BY <1>1, <1>3, <2>2 DEF CacheOK
  <2>3. QED
    BY <2>1, <2>2
<1>6. CacheOK'
  BY <1>2, <1>3, <1>5 DEF CacheOK
<1>7. ASSUME NEW q \in Procs PROVE Good(readers[q])'
  BY <1>1, <1>2, GoodStays
<1>8. L!ListsFollow'
  <2>1. \A j : L!Value(j)' = L!Value(j)
    BY <1>2 DEF L!Value, L!WithCounts, L!Categories1, L!CountIn, L!Public, L!Active
  <2>2. ASSUME NEW j \in L!Busted, L!Stale(j)' PROVE L!Stale(j) /\ cache'[j] = cache[j]
    <3>1. j \in L!Keys /\ j # k
      BY <1>3, <2>2 DEF L!Busted, L!Keys, L!Stale, L!Miss
    <3>2. QED
      BY <1>3, <2>1, <2>2, <3>1 DEF L!Stale
  <2>3. QED
    BY <1>1, <1>2, <2>2 DEF L!ListsFollow, L!At
<1>9. QED
  BY <1>1, <1>2, <1>4, <1>6, <1>7, <1>8, PartsNext

LEMMA ListsStepInv ==
  ASSUME L!ListingsAssumption, L!IInv, [L!Next]_L!vars PROVE L!IInv'
<1>1. CASE UNCHANGED L!vars
  <2>1. DbOK /\ CacheOK /\ DOMAIN readers = Procs /\ (\A q \in Procs : Good(readers[q])) /\ L!ListsFollow
    BY Parts
  <2>2. /\ page' = page /\ L!catalogue' = L!catalogue /\ status' = status /\ cache' = cache /\ readers' = readers
        /\ shelf' = shelf /\ category' = category /\ order' = order /\ gone' = gone /\ score' = score
    BY <1>1 DEF L!vars, L!catalogue, L!players
  <2>3. DbOK' /\ CacheOK'
    BY <2>1, <2>2 DEF DbOK, CacheOK
  <2>4. ASSUME NEW q \in Procs PROVE Good(readers[q])'
    BY <2>1, <2>2, GoodStays
  <2>5. L!ListsFollow'
    <3>1. \A k : L!Value(k)' = L!Value(k)
      BY <2>2 DEF L!Value, L!WithCounts, L!Categories1, L!CountIn, L!Public, L!Active
    <3>2. QED
      BY <2>1, <2>2, <3>1 DEF L!ListsFollow, L!Stale, L!At
  <2>6. QED
    BY <2>1, <2>2, <2>3, <2>4, <2>5, PartsNext
<1>2. ASSUME NEW p \in Procs, NEW k \in L!Keys, L!remember(p, k) PROVE L!IInv'
  BY <1>2, RememberStep
<1>3. ASSUME NEW p \in Procs, L!ReadOne(p) \/ L!listCategories(p) \/ L!GroupScores(p) \/ L!NameRows(p) PROVE L!IInv'
  BY <1>3, ReadOneStep, CategoriesStep, GroupStep, NameStep
<1>4. ASSUME NEW p \in Procs, L!set(p) \/ L!Admin(p) \/ L!bustCatalogCache(p) \/ L!del(p) \/ L!Abort(p) PROVE L!IInv'
  BY <1>4, SetStep, AdminStep, BustStep, DelStep, AbortStep
<1>5. ASSUME NEW k \in L!Keys, L!Expire(k) PROVE L!IInv'
  BY <1>5, ExpireStep
<1>6. ASSUME NEW u \in Users, L!Play(u) \/ L!SoftDelete(u) PROVE L!IInv'
  BY <1>6, UserStep
<1>7. QED
  BY <1>1, <1>2, <1>3, <1>4, <1>5, <1>6 DEF L!Next

LEMMA ListsInitInv ==
  ASSUME L!ListingsAssumption, L!Init PROVE L!IInv
<1>1. DbOK
  <2>1. L!NoGame \in [status : {"none", "DRAFT", "PUBLISHED", "ARCHIVED"},
                     deleted : BOOLEAN, cat : Categories \cup {None}]
    BY DEF L!NoGame
  <2>2. 0 \in 0..MaxScore
    BY DEF L!ListingsAssumption
  <2>3. QED
    BY <2>1, <2>2 DEF L!Init, DbOK
<1>2. CacheOK
  BY DEF L!Init, CacheOK, L!Miss
<1>3. DOMAIN readers = Procs /\ \A p \in Procs : Good(readers[p])
  BY IdleGood DEF L!Init
<1>4. L!ListsFollow
  <2>1. \A k \in L!Busted : ~cache[k].full
    BY DEF L!Init, L!Busted, L!Keys, L!Miss
  <2>2. QED
    BY <2>1 DEF L!ListsFollow, L!Stale
<1>5. QED
  BY <1>1, <1>2, <1>3, <1>4, Parts

\* For any games, categories, users and requests: a list that is busted is behind the
\* tables only while its bust is on the way, or when it failed or came too early; and
\* a board about to be cached is in order, and names nobody who was gone when it was
\* asked for.
THEOREM ListingsSound ==
  ASSUME L!ListingsAssumption PROVE L!Spec => []L!ListsSound
<1>1. L!Init => L!IInv
  BY ListsInitInv
<1>2. L!IInv /\ [L!Next]_L!vars => L!IInv'
  BY ListsStepInv
<1>3. L!IInv => L!ListsSound
  BY DEF L!IInv, L!ListsSound
<1>4. QED
  BY <1>1, <1>2, <1>3, PTL DEF L!Spec

-----------------------------------------------------------------------------
(* The composition does what each part does on its own.                      *)

LEMMA PartsOfGames == EitherSpec => L!Spec
<1>1. EitherInit => L!Init
  BY DEF EitherInit
<1>2. [EitherNext]_<<game, vars, lists>> => [L!Next]_(L!vars)
  BY DEF EitherNext, lists, L!vars, L!catalogue, L!players
<1>3. QED
  BY <1>1, <1>2, PTL DEF EitherSpec, L!Spec

\* For any games, categories, users and requests: a list that is busted is behind the
\* tables only while its bust is on the way, or when it failed or came too early; and
\* a board about to be cached is in order, and names nobody who was gone when it was
\* asked for.
THEOREM ListsAreSound == EitherSpec => []ListsSound
<1>1. L!ListsSound => ListsSound
  BY DEF ListsSound
<1>2. QED
  BY <1>1, PartsOfGames, ListingsSound, GamesAssumption, PTL

=============================================================================
