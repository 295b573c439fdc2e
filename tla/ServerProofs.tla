---------------------------- MODULE ServerProofs ----------------------------
(***************************************************************************)
(* The job queue never strands a job, never runs one twice at a time and   *)
(* never attempts one too often: IInv is inductive; under it each step is  *)
(* a step of JobBoard, or none.  Then the same is done for who is online,  *)
(* what is notified and what is uploaded, which MCServer composes it with. *)
(***************************************************************************)
EXTENDS MCServer, SequenceTheorems, FiniteSetTheorems, TLAPS

LEMMA InitInv == Init => IInv
<1> SUFFICES ASSUME Init PROVE IInv
  OBVIOUS
<1>1. TypeOK
  BY EmptySeq DEF Init, TypeOK, Outcomes
<1>2. Queued = {} /\ DOMAIN queue = {}
  BY DEF Init, Queued
<1>3. InOnePlace
  BY <1>2, JobsAssumption DEF Init, InOnePlace
<1>4. QueueAttended
  BY DEF Init, QueueAttended
<1>5. AttemptsBounded /\ AttemptsLeft
  BY <1>2 DEF Init, AttemptsBounded, AttemptsLeft
<1>6. QED
  BY <1>1, <1>3, <1>4, <1>5 DEF IInv

\* The queue q holds distinct open jobs with attempts left, and every other
\* open job is in T.
Ready(q, out, T) ==
  /\ attempts \in [Jobs -> Nat] /\ T \subseteq Jobs
  /\ \A i, k \in DOMAIN q : q[i] = q[k] => i = k
  /\ \A i \in DOMAIN q : q[i] \notin T
  /\ \A j \in Jobs : out[j] = "open" <=> j \in T \/ \E i \in DOMAIN q : j = q[i]
  /\ \A i \in DOMAIN q : attempts[q[i]] = 0 \/ attempts[q[i]] < MaxAttempts[q[i]]
  /\ \A j \in T : attempts[j] < MaxAttempts[j]
  /\ \A j \in Jobs : /\ attempts[j] <= 1 \/ attempts[j] <= MaxAttempts[j]
                     /\ out[j] = "failed" => attempts[j] >= MaxAttempts[j]
                     /\ out[j] = "none" => attempts[j] = 0

\* One run of the loop over such a queue establishes the invariant.
LEMMA DrainInv ==
  ASSUME NEW q \in Seq(Jobs), NEW out \in [Jobs -> Outcomes], NEW T, T = timers',
         handlers' \subseteq Names, Ready(q, out, T), Drain(q, out)
  PROVE  IInv'
<1>1. PICK k \in 1..(Len(q) + 1) : Start(q, k, out) /\ processing' = (k <= Len(q))
  BY DEF Drain
<1>2. PICK n \in Nat : n = Len(q)
  OBVIOUS
<1>3. /\ queue' = SubSeq(q, k + 1, n) /\ queue' \in Seq(Jobs)
      /\ Len(queue') = IF k <= n THEN n - k ELSE 0
      /\ \A i \in 1..Len(queue') : queue'[i] = q[k + i]
  BY <1>1, <1>2 DEF Start
<1>4. DOMAIN q = 1..n /\ DOMAIN queue' = 1..Len(queue')
  BY <1>2, <1>3
<1>5. Queued' = {q[i] : i \in (k + 1)..n}
  <2>1. ASSUME NEW i \in (k + 1)..n PROVE q[i] \in Queued'
    <3>1. i - k \in 1..Len(queue') /\ queue'[i - k] = q[i]
      BY <1>2, <1>3, <2>1
    <3>2. QED
      BY <1>4, <3>1 DEF Queued
  <2>2. ASSUME NEW i \in DOMAIN queue' PROVE \E h \in (k + 1)..n : q[h] = queue'[i]
    <3>1. i \in 1..Len(queue') /\ k + i \in (k + 1)..n
      BY <1>2, <1>3, <1>4, <2>2
    <3>2. queue'[i] = q[k + i]
      BY <1>3, <3>1
    <3>3. QED
      BY <3>1, <3>2
  <2>3. QED
    BY <2>1, <2>2 DEF Queued
<1>6. current' = (IF k <= n THEN q[k] ELSE NoJob) /\ (k <= n => q[k] \in Jobs)
  BY <1>1, <1>2 DEF Start
<1>7. /\ outcome' = [j \in Jobs |-> IF j \in Dropped(q, k) THEN "dropped" ELSE out[j]]
      /\ attempts' = IF k <= n THEN [attempts EXCEPT ![q[k]] = @ + 1] ELSE attempts
  BY <1>1, <1>2 DEF Start
<1>8. \A j \in Jobs : j \in Dropped(q, k) <=> \E i \in 1..(k - 1) : j = q[i]
  BY DEF Dropped
<1> USE DEF Ready
<1>9. TypeOK'
  BY <1>1, <1>2, <1>3, <1>6, <1>7 DEF TypeOK, Outcomes
<1>10. QueueAttended'
  <2>1. CASE k <= n
    BY <1>1, <1>2, <1>6, <2>1, JobsAssumption DEF QueueAttended
  <2>2. CASE ~(k <= n)
    <3>1. queue' = <<>>
      BY <1>3, <2>2, EmptySeq
    <3>3. current' = NoJob
      BY <1>6, <2>2
    <3>4. processing' = FALSE
      <4>1. (k <= Len(q)) = FALSE
        BY <1>2, <2>2
      <4>2. QED
        BY <1>1, <4>1
    <3>2. QED
      BY <3>1, <3>3, <3>4 DEF QueueAttended
  <2>3. QED
    BY <2>1, <2>2
<1>11. InOnePlace'
  <2>1. ASSUME NEW i \in DOMAIN queue', NEW h \in DOMAIN queue', queue'[i] = queue'[h]
        PROVE  i = h
    <3>1. i \in 1..Len(queue') /\ h \in 1..Len(queue')
      BY <1>4
    <3>2. k + i \in DOMAIN q /\ k + h \in DOMAIN q /\ q[k + i] = q[k + h]
      <4>3. k \in Nat \ {0} /\ n \in Nat /\ k <= n /\ Len(queue') = n - k
        <5>1. k \in Nat \ {0} /\ n \in Nat
          BY <1>2
        <5>2. Len(queue') # 0
          BY <3>1
        <5>3. k <= n
          BY <1>3, <5>2
        <5>4. QED
          BY <1>3, <5>1, <5>3
      <4>1. k + i \in 1..n /\ k + h \in 1..n
        BY <3>1, <4>3
      <4>2. QED
        BY <1>3, <1>4, <2>1, <3>1, <4>1
    <3>3. k + i = k + h
      BY <3>2
    <3>4. QED
      BY <3>1, <3>3
  <2>0. \A i \in DOMAIN q : q[i] \in Jobs
    BY <1>4
  <2>2. Queued' \intersect timers' = {} /\ current' \notin Queued' \union timers'
    <3>0. \A i \in (k + 1)..n : i \in DOMAIN q /\ i > k
      BY <1>2, <1>4
    <3>1. \A j \in Queued' : \E i \in DOMAIN q : i > k /\ j = q[i]
      <4> HIDE DEF Ready
      <4>1. QED
        BY <1>5, <3>0, Zenon
    <3>2. Queued' \intersect timers' = {} /\ NoJob \notin Queued'
      BY <2>0, <3>1, JobsAssumption
    <3>3. CASE k <= n
      <4>1. k \in DOMAIN q /\ current' = q[k]
        BY <1>4, <1>2, <1>6, <3>3
      <4>2. QED
        BY <3>1, <4>1
    <3>4. CASE ~(k <= n)
      BY <1>6, <3>2, <3>4, JobsAssumption
    <3>5. QED
      BY <3>2, <3>3, <3>4
  <2>3. ASSUME NEW j \in Jobs
        PROVE  outcome'[j] = "open" <=> j \in Queued' \union timers' \union {current'}
    <3>1. j \notin Dropped(q, k) =>
            ((\E i \in DOMAIN q : j = q[i]) <=> j \in Queued' \union {current'})
      <4>1. ASSUME j \notin Dropped(q, k), NEW i \in DOMAIN q, j = q[i]
            PROVE  j \in Queued' \union {current'}
        BY <1>2, <1>4, <1>5, <1>6, <1>8, <4>1
      <4>2. j \in Queued' \union {current'} => \E i \in DOMAIN q : j = q[i]
        <5>1. j \in Queued' => \E i \in DOMAIN q : j = q[i]
          BY <1>2, <1>4, <1>5
        <5>2. j = current' => k \in DOMAIN q /\ j = q[k]
          BY <1>2, <1>4, <1>6, JobsAssumption
        <5>3. QED
          BY <5>1, <5>2
      <4>3. QED
        BY <4>1, <4>2
    <3>2. CASE j \in Dropped(q, k)
      <4>1. PICK i \in 1..(k - 1) : j = q[i]
        BY <1>8, <3>2
      <4>2. i \in DOMAIN q /\ i < k
        BY <1>2, <1>4
      <4>7. \A h \in DOMAIN q : j = q[h] => h = i
        BY <4>1, <4>2
      <4>3. j \notin Queued'
        <5>1. \A h \in (k + 1)..n : h \in DOMAIN q /\ h # i
          <6>1. k \in Nat /\ n \in Nat /\ 1 <= k /\ i \in Nat /\ i < k
            BY <1>2, <4>1, <4>2
          <6>2. \A h \in (k + 1)..n : h \in 1..n /\ h # i
            BY <6>1
          <6>3. QED
            BY <1>4, <6>2
        <5>2. \A h \in (k + 1)..n : j # q[h]
          BY <4>7, <5>1
        <5>3. QED
          BY <1>5, <5>2
      <4>5. j # current'
        <5>1. CASE k <= n
          <6>1. k \in DOMAIN q /\ k # i
            BY <1>4, <4>2, <5>1
          <6>2. QED
            BY <1>6, <4>7, <5>1, <6>1
        <5>2. CASE ~(k <= n)
          BY <1>6, <5>2, JobsAssumption
        <5>3. QED
          BY <5>1, <5>2
      <4>6. j \notin timers'
        BY <4>1, <4>2
      <4>4. QED
        BY <1>7, <3>2, <4>3, <4>5, <4>6
    <3>3. CASE j \notin Dropped(q, k)
      BY <1>7, <3>1, <3>3
    <3>4. QED
      BY <3>2, <3>3
  <2>4. QED
    BY <2>1, <2>2, <2>3 DEF InOnePlace
<1>12. ASSUME NEW j \in Jobs
       PROVE  /\ attempts'[j] <= 1 \/ attempts'[j] <= MaxAttempts[j]
              /\ outcome'[j] = "failed" => attempts'[j] >= MaxAttempts[j]
              /\ j \in timers' => attempts'[j] < MaxAttempts[j]
              /\ j \in Queued' => attempts'[j] = 0 \/ attempts'[j] < MaxAttempts[j]
              /\ outcome'[j] = "none" => attempts'[j] = 0
  <2>1. MaxAttempts[j] \in Int /\ attempts[j] \in Nat
    BY JobsAssumption
  <2>2. CASE k <= n /\ j = q[k]
    <3>1. attempts'[j] = attempts[j] + 1 /\ k \in DOMAIN q
      BY <1>2, <1>4, <1>7, <2>2
    <3>2. j \notin timers' /\ out[j] = "open"
      BY <2>2, <3>1
    <3>3. j \notin Queued'
      <4>1. \A i \in (k + 1)..n : i \in DOMAIN q /\ i # k
        BY <1>2, <1>4
      <4>2. \A i \in (k + 1)..n : q[i] # j
        BY <2>2, <3>1, <4>1
      <4>3. QED
        BY <1>5, <4>2
    <3>4. outcome'[j] \in {"dropped", "open"}
      BY <1>7, <3>2
    <3>5. attempts[j] = 0 \/ attempts[j] < MaxAttempts[j]
      BY <2>2, <3>1
    <3>6. QED
      BY <2>1, <3>1, <3>2, <3>3, <3>4, <3>5
  <2>3. CASE ~(k <= n /\ j = q[k])
    <3>1. attempts'[j] = attempts[j]
      BY <1>7, <2>3
    <3>2. outcome'[j] = "dropped" \/ outcome'[j] = out[j]
      BY <1>7
    <3>3. j \in Queued' => attempts[j] = 0 \/ attempts[j] < MaxAttempts[j]
      BY <1>2, <1>4, <1>5
    <3>4. QED
      BY <2>1, <3>1, <3>2, <3>3
  <2>4. QED
    BY <2>2, <2>3
<1>13. AttemptsBounded' /\ AttemptsLeft'
  BY <1>12 DEF AttemptsBounded, AttemptsLeft
<1>14. QED
  BY <1>9, <1>10, <1>11, <1>13 DEF IInv

\* A push from outside the loop: by enqueue or by a timer.
LEMMA PushInv ==
  ASSUME IInv, NEW j \in Jobs, NEW out \in [Jobs -> Outcomes],
         handlers' \subseteq Names, timers' = timers \ {j}, UNCHANGED handlers,
         j \notin Queued, j # current, out[j] = "open",
         \A i \in Jobs : i # j => out[i] = outcome[i],
         attempts[j] = 0 \/ attempts[j] < MaxAttempts[j],
         PushAndProcess(j, out)
  PROVE  IInv'
<1> USE DEF IInv
<1>1. PICK n \in Nat : n = Len(queue)
  BY DEF TypeOK
<1>0. PICK q \in Seq(Jobs) : q = Append(queue, j)
  BY AppendProperties DEF TypeOK
<1>2. /\ Len(q) = n + 1 /\ q[n + 1] = j
      /\ \A i \in 1..n : q[i] = queue[i]
  BY <1>0, <1>1 DEF TypeOK
<1>3. DOMAIN q = 1..(n + 1) /\ DOMAIN queue = 1..n
  BY <1>1, <1>2 DEF TypeOK
<1>4. \A i \in 1..n : queue[i] \in Queued /\ queue[i] # j
  BY <1>3 DEF Queued
<1>5. \A i, k \in DOMAIN q : q[i] = q[k] => i = k
  <2>1. \A i, k \in 1..n : q[i] = q[k] => i = k
    BY <1>2, <1>3 DEF InOnePlace
  <2>2. \A i \in 1..n : q[i] # q[n + 1]
    BY <1>2, <1>4
  <2>3. \A i \in DOMAIN q : i \in 1..n \/ i = n + 1
    BY <1>3
  <2>4. QED
    BY <2>1, <2>2, <2>3
<1>6. {q[i] : i \in DOMAIN q} = Queued \union {j}
  <2>1. \A i \in DOMAIN q : q[i] \in Queued \union {j}
    BY <1>2, <1>3, <1>4
  <2>2. \A i \in Queued \union {j} : \E k \in DOMAIN q : i = q[k]
    <3>1. \A i \in Queued : \E k \in 1..n : i = q[k]
      BY <1>2, <1>3 DEF Queued
    <3>2. QED
      BY <1>2, <1>3, <3>1
  <2>3. QED
    BY <2>1, <2>2
<1>7. CASE processing
  <2>1. queue' = q /\ outcome' = out /\ UNCHANGED <<processing, current, attempts>>
    BY <1>0, <1>7 DEF PushAndProcess
  <2>2. Queued' = Queued \union {j}
    BY <1>6, <2>1 DEF Queued
  <2>3. TypeOK'
    BY <1>2, <2>1 DEF TypeOK
  <2>4. QueueAttended'
    BY <1>7, <2>1 DEF QueueAttended
  <2>5. \A i, k \in DOMAIN queue' : queue'[i] = queue'[k] => i = k
    BY <1>5, <2>1
  <2>6. InOnePlace'
    BY <2>1, <2>2, <2>5 DEF InOnePlace
  <2>7. AttemptsBounded' /\ AttemptsLeft'
    BY <2>1, <2>2 DEF AttemptsBounded, AttemptsLeft
  <2>8. QED
    BY <2>3, <2>4, <2>6, <2>7
<1>8. CASE ~processing
  <2>1. Drain(q, out)
    BY <1>0, <1>8 DEF PushAndProcess
  <2>2. current = NoJob
    BY <1>8 DEF QueueAttended
  <2>3. /\ attempts \in [Jobs -> Nat] /\ timers' \subseteq Jobs
        /\ \A i \in timers' : attempts[i] < MaxAttempts[i]
    BY DEF TypeOK, AttemptsBounded
  <2>4. \A i \in DOMAIN q : q[i] \notin timers'
    BY <1>6 DEF InOnePlace
  <2>5. \A i \in DOMAIN q : attempts[q[i]] = 0 \/ attempts[q[i]] < MaxAttempts[q[i]]
    <3>1. \A i \in DOMAIN q : q[i] \in Queued \union {j} /\ q[i] \in Jobs
      BY <1>2, <1>3, <1>6
    <3>2. QED
      BY <3>1 DEF AttemptsLeft
  <2>6. \A i \in Jobs : out[i] = "open" <=> i \in timers' \/ \E k \in DOMAIN q : i = q[k]
    <3> SUFFICES ASSUME NEW i \in Jobs
                 PROVE  out[i] = "open" <=> i \in timers' \/ \E k \in DOMAIN q : i = q[k]
      OBVIOUS
    <3>1. (\E k \in DOMAIN q : i = q[k]) <=> i \in Queued \union {j}
      BY <1>6
    <3>2. i # current
      BY <2>2, JobsAssumption
    <3>3. i # j => (out[i] = "open" <=> i \in Queued \union timers)
      BY <3>2 DEF InOnePlace
    <3>4. QED
      BY <3>1, <3>3
  <2>7. \A i \in Jobs : /\ attempts[i] <= 1 \/ attempts[i] <= MaxAttempts[i]
                        /\ out[i] = "failed" => attempts[i] >= MaxAttempts[i]
                        /\ out[i] = "none" => attempts[i] = 0
    BY DEF AttemptsBounded, AttemptsLeft
  <2>10. PICK T : T = timers'
    OBVIOUS
  <2>8. Ready(q, out, T)
    BY <2>10, <1>5, <2>3, <2>4, <2>5, <2>6, <2>7 DEF Ready
  <2>9. QED
    BY <2>1, <2>8, <2>10, DrainInv
<1>9. QED
  BY <1>7, <1>8

\* The continuation of an awaited handler: the loop goes on over the queue.
LEMMA SettleInv ==
  ASSUME IInv, current # NoJob, NEW out \in [Jobs -> Outcomes], UNCHANGED handlers,
         \A i \in Jobs : i # current => out[i] = outcome[i],
         \/ /\ timers' = timers \union {current} /\ out[current] = "open"
            /\ attempts[current] < MaxAttempts[current]
         \/ timers' = timers /\ out[current] = "done"
         \/ /\ timers' = timers /\ out[current] = "failed"
            /\ attempts[current] >= MaxAttempts[current],
         Drain(queue, out)
  PROVE  IInv'
<1> USE DEF IInv
<1>0. PICK q \in Seq(Jobs) : q = queue
  BY DEF TypeOK
<1>1. current \in Jobs /\ attempts \in [Jobs -> Nat]
  BY DEF TypeOK
<1>2. handlers' \subseteq Names /\ timers' \subseteq Jobs
  BY <1>1 DEF TypeOK
<1>3. \A i \in DOMAIN q : q[i] \in Queued /\ q[i] \in Jobs
  BY <1>0 DEF Queued
<1>4. \A i, k \in DOMAIN q : q[i] = q[k] => i = k
  BY <1>0 DEF InOnePlace
<1>5. \A i \in DOMAIN q : q[i] \notin timers'
  BY <1>3 DEF InOnePlace
<1>6. \A j \in Jobs : out[j] = "open" <=> j \in timers' \/ \E i \in DOMAIN q : j = q[i]
  <2>1. \A j \in Jobs : out[j] = "open" <=> j \in Queued \union timers'
    BY <1>1 DEF InOnePlace
  <2>2. QED
    BY <1>0, <2>1 DEF Queued
<1>7. \A i \in DOMAIN q :
        attempts[q[i]] = 0 \/ attempts[q[i]] < MaxAttempts[q[i]]
  BY <1>3 DEF AttemptsLeft
<1>8. \A j \in timers' : attempts[j] < MaxAttempts[j]
  BY <1>2 DEF AttemptsBounded, TypeOK
<1>9. \A j \in Jobs : /\ attempts[j] <= 1 \/ attempts[j] <= MaxAttempts[j]
                      /\ out[j] = "failed" => attempts[j] >= MaxAttempts[j]
                      /\ out[j] = "none" => attempts[j] = 0
  BY DEF AttemptsBounded, AttemptsLeft
<1>12. PICK T : T = timers'
  OBVIOUS
<1>10. Ready(q, out, T)
  BY <1>12, <1>1, <1>2, <1>4, <1>5, <1>6, <1>7, <1>8, <1>9 DEF Ready
<1>11. QED
  BY <1>0, <1>2, <1>10, <1>12, DrainInv

LEMMA StepInv == IInv /\ [Next]_vars => IInv'
<1> SUFFICES ASSUME IInv, [Next]_vars PROVE IInv'
  OBVIOUS
<1> USE DEF IInv
<1>1. ASSUME NEW name \in Names, register(name) PROVE IInv'
  <2>1. UNCHANGED <<queue, processing, current, timers, attempts, outcome, Queued>>
    BY <1>1 DEF register, Queued
  <2>2. TypeOK'
    BY <1>1, <2>1 DEF register, TypeOK
  <2>3. QED
    BY <2>1, <2>2 DEF QueueAttended, InOnePlace, AttemptsBounded, AttemptsLeft
<1>2. ASSUME NEW j \in Jobs, enqueue(j) PROVE IInv'
  <2>1. PICK out \in [Jobs -> Outcomes] : out = [outcome EXCEPT ![j] = "open"]
    BY DEF TypeOK, Outcomes
  <2>2. j \notin Queued /\ j \notin timers /\ j # current /\ attempts[j] = 0
    BY <1>2 DEF enqueue, InOnePlace, AttemptsLeft
  <2>3. out[j] = "open" /\ \A i \in Jobs : i # j => out[i] = outcome[i]
    BY <2>1 DEF TypeOK
  <2>4. timers' = timers \ {j} /\ handlers' \subseteq Names /\ UNCHANGED handlers
    BY <1>2, <2>2 DEF enqueue, TypeOK
  <2>5. PushAndProcess(j, out)
    BY <1>2, <2>1 DEF enqueue
  <2>6. QED
    BY <2>2, <2>3, <2>4, <2>5, PushInv
<1>3. ASSUME NEW j \in Jobs, BackoffEnds(j) PROVE IInv'
  <2>1. PICK out \in [Jobs -> Outcomes] : out = outcome
    BY DEF TypeOK
  <2>2. /\ j \notin Queued /\ j # current /\ outcome[j] = "open"
        /\ attempts[j] < MaxAttempts[j]
    BY <1>3 DEF BackoffEnds, InOnePlace, AttemptsBounded
  <2>3. timers' = timers \ {j} /\ handlers' \subseteq Names /\ UNCHANGED handlers
    BY <1>3 DEF BackoffEnds, TypeOK
  <2>4. PushAndProcess(j, out)
    BY <1>3, <2>1 DEF BackoffEnds
  <2>5. QED
    BY <2>1, <2>2, <2>3, <2>4, PushInv
<1>4. CASE HandlerResolves
  <2>1. PICK out \in [Jobs -> Outcomes] : out = [outcome EXCEPT ![current] = "done"]
    BY DEF TypeOK, Outcomes
  <2>2. current # NoJob /\ timers' = timers /\ UNCHANGED handlers /\ Drain(queue, out)
    BY <1>4, <2>1 DEF HandlerResolves
  <2>3. out[current] = "done" /\ \A i \in Jobs : i # current => out[i] = outcome[i]
    BY <2>1, <2>2 DEF TypeOK
  <2>4. QED
    BY <2>2, <2>3, SettleInv
<1>5. CASE HandlerRejects
  <2>1. current # NoJob /\ current \in Jobs /\ outcome[current] = "open" /\ UNCHANGED handlers
    BY <1>5 DEF HandlerRejects, TypeOK, InOnePlace
  <2>2. CASE attempts[current] < MaxAttempts[current]
    <3>1. PICK out \in [Jobs -> Outcomes] : out = outcome
      BY DEF TypeOK
    <3>2. timers' = timers \union {current} /\ Drain(queue, out)
      BY <1>5, <2>2, <3>1 DEF HandlerRejects
    <3>3. QED
      BY <2>1, <2>2, <3>1, <3>2, SettleInv
  <2>3. CASE ~(attempts[current] < MaxAttempts[current])
    <3>1. PICK out \in [Jobs -> Outcomes] : out = [outcome EXCEPT ![current] = "failed"]
      BY DEF TypeOK, Outcomes
    <3>2. timers' = timers /\ Drain(queue, out)
      BY <1>5, <2>3, <3>1 DEF HandlerRejects
    <3>3. out[current] = "failed" /\ \A i \in Jobs : i # current => out[i] = outcome[i]
      BY <2>1, <3>1 DEF TypeOK
    <3>4. attempts[current] >= MaxAttempts[current]
      BY <2>1, <2>3, JobsAssumption DEF TypeOK
    <3>5. QED
      BY <2>1, <3>2, <3>3, <3>4, SettleInv
  <2>4. QED
    BY <2>2, <2>3
<1>6. CASE Restart
  <2>1. Queued' = {} /\ DOMAIN queue' = {}
    BY <1>6 DEF Restart, Queued
  <2>2. TypeOK'
    BY <1>6, EmptySeq DEF Restart, TypeOK, Outcomes
  <2>3. \A j \in Jobs : outcome'[j] # "open" /\ (outcome'[j] = outcome[j] \/ outcome'[j] = "lost")
    BY <1>6 DEF Restart
  <2>4. InOnePlace'
    BY <1>6, <2>1, <2>3, JobsAssumption DEF Restart, InOnePlace
  <2>5. QueueAttended'
    BY <1>6 DEF Restart, QueueAttended
  <2>6. AttemptsBounded' /\ AttemptsLeft'
    BY <1>6, <2>1, <2>3 DEF Restart, AttemptsBounded, AttemptsLeft
  <2>7. QED
    BY <2>2, <2>4, <2>5, <2>6
<1>7. CASE UNCHANGED vars
  <2>1. UNCHANGED <<handlers, queue, processing, current, timers, attempts, outcome, Queued>>
    BY <1>7 DEF vars, Queued
  <2>2. QED
    BY <2>1 DEF TypeOK, QueueAttended, InOnePlace, AttemptsBounded, AttemptsLeft
<1>8. QED
  BY <1>1, <1>2, <1>3, <1>4, <1>5, <1>6, <1>7 DEF Next

\* In every reachable state of the queue, with any number of jobs and any
\* limits: no job is stranded, run twice at a time or attempted too often.
THEOREM Invariance == Spec => []IInv
<1>1. QED
  BY InitInv, StepInv, PTL DEF Spec

\* Whatever the order of enqueues, timers and settling handlers: no job is stranded
\* in the queue, no retry or enqueue puts one in two places, and retries stop at
\* maxAttempts.
THEOREM WorkIsTended == Spec => []JobsTended
<1>1. IInv => JobsTended
  BY DEF IInv, JobsTended
<1>2. QED
  BY <1>1, Invariance, PTL

-----------------------------------------------------------------------------
(* The board of the producers. *)

\* What a step may do to a job, in the words of the queue.
Moves(j) ==
  LET Ph == Phase(j)  same == attempts'[j] = attempts[j]
  IN  \/ Phase(j)' = Ph /\ same
      \/ Ph = "none" /\ Phase(j)' = "waiting" /\ same
      \/ /\ Ph \in {"none", "waiting"} /\ Phase(j)' = "running"
         /\ attempts[j] = 0 \/ attempts[j] < MaxAttempts[j]
         /\ attempts'[j] = attempts[j] + 1
      \/ Ph \in {"none", "waiting"} /\ Phase(j)' = "dropped" /\ same
      \/ Ph = "running" /\ Phase(j)' = "done" /\ same
      \/ Ph = "running" /\ Phase(j)' = "waiting" /\ attempts[j] < MaxAttempts[j] /\ same
      \/ Ph = "running" /\ Phase(j)' = "failed" /\ attempts[j] >= MaxAttempts[j] /\ same
      \/ Ph \in {"waiting", "running"} /\ Phase(j)' = "lost" /\ same

LEMMA MovesAreBoards ==
  ASSUME \A j \in Jobs : Moves(j), TypeOK'
  PROVE  Board!Next
<1> DEFINE ph == [j \in Jobs |-> Phase(j)]
<1>1. ASSUME NEW j \in Jobs
      PROVE  \/ Board!Rest(j) \/ Board!Accept(j) \/ Board!Run(j) \/ Board!Drop(j)
             \/ Board!Finish(j) \/ Board!Retry(j) \/ Board!GiveUp(j) \/ Board!Lose(j)
  <2>1. ph[j] = Phase(j) /\ ph'[j] = Phase(j)'
    OBVIOUS
  <2>2. Moves(j)
    OBVIOUS
  <2> HIDE DEF ph
  <2>3. QED
    BY <2>1, <2>2
    DEF Moves, ph, Board!Rest, Board!Accept, Board!Run, Board!Drop, Board!Finish,
        Board!Retry, Board!GiveUp, Board!Lose, Board!Move
<1>2. ASSUME NEW i \in Jobs, NEW j \in Jobs, ph'[i] = "running", ph'[j] = "running"
      PROVE  i = j
  <2>1. \A h \in Jobs : Phase(h)' = "running" => h = current'
    BY DEF Phase, TypeOK, Outcomes
  <2>2. QED
    BY <1>2, <2>1
<1>3. QED
  BY <1>1, <1>2 DEF Board!Next

\* What one run of the loop over q does to each job.
LEMMA DrainMoves ==
  ASSUME NEW q \in Seq(Jobs), NEW out \in [Jobs -> Outcomes], attempts \in [Jobs -> Nat],
         \A i, k \in DOMAIN q : q[i] = q[k] => i = k,
         Drain(q, out), NEW j \in Jobs
  PROVE  \/ /\ \E i \in DOMAIN q : j = q[i]
            /\ j # current' /\ outcome'[j] = "dropped" /\ attempts'[j] = attempts[j]
         \/ /\ \E i \in DOMAIN q : j = q[i]
            /\ j = current' /\ outcome'[j] = out[j] /\ attempts'[j] = attempts[j] + 1
         \/ j # current' /\ outcome'[j] = out[j] /\ attempts'[j] = attempts[j]
<1>1. PICK k \in 1..(Len(q) + 1) : Start(q, k, out)
  BY DEF Drain
<1>2. PICK n \in Nat : n = Len(q) /\ DOMAIN q = 1..n
  OBVIOUS
<1>3. outcome'[j] = IF j \in Dropped(q, k) THEN "dropped" ELSE out[j]
  BY <1>1 DEF Start
<1>4. j \in Dropped(q, k) <=> \E i \in 1..(k - 1) : j = q[i]
  BY DEF Dropped
<1>5. CASE k <= n
  <2>1. current' = q[k] /\ attempts' = [attempts EXCEPT ![q[k]] = @ + 1] /\ k \in DOMAIN q
    BY <1>1, <1>2, <1>5 DEF Start
  <2>2. CASE j = q[k]
    <3>3. \A i \in 1..(k - 1) : i \in DOMAIN q /\ i # k
      BY <1>2, <1>5
    <3>1. j \notin Dropped(q, k)
      BY <1>4, <2>1, <2>2, <3>3
    <3>2. QED
      BY <1>3, <2>1, <2>2, <3>1
  <2>3. CASE j # q[k]
    <3>1. j # current' /\ attempts'[j] = attempts[j]
      BY <2>1, <2>3
    <3>2. j \in Dropped(q, k) => \E i \in DOMAIN q : j = q[i]
      BY <1>2, <1>4, <1>5
    <3>3. QED
      BY <1>3, <3>1, <3>2
  <2>4. QED
    BY <2>2, <2>3
<1>6. CASE ~(k <= n)
  <2>1. current' = NoJob /\ attempts' = attempts
    BY <1>1, <1>2, <1>6 DEF Start
  <2>2. j \in Dropped(q, k) => \E i \in DOMAIN q : j = q[i]
    BY <1>2, <1>4
  <2>3. QED
    BY <1>3, <2>1, <2>2, JobsAssumption
<1>7. QED
  BY <1>5, <1>6

\* A job that is pushed moves by itself, and so does each one the loop passes.
LEMMA PushMoves ==
  ASSUME IInv, NEW j \in Jobs, NEW out \in [Jobs -> Outcomes],
         j \notin Queued, j # current, out[j] = "open", outcome[j] \in {"none", "open"},
         \A i \in Jobs : i # j => out[i] = outcome[i],
         attempts[j] = 0 \/ attempts[j] < MaxAttempts[j],
         PushAndProcess(j, out)
  PROVE  \A i \in Jobs : Moves(i)
<1> SUFFICES ASSUME NEW i \in Jobs PROVE Moves(i)
  OBVIOUS
<1> USE DEF IInv
<1>1. Phase(j) \in {"none", "waiting"} /\ (Phase(j) = "none" <=> outcome[j] = "none")
  BY DEF Phase
<1>2. CASE processing
  <2>1. outcome' = out /\ UNCHANGED <<current, attempts>>
    BY <1>2 DEF PushAndProcess
  <2>2. Phase(i)' = IF i = j THEN "waiting" ELSE Phase(i)
    BY <2>1 DEF Phase
  <2>3. QED
    BY <1>1, <2>1, <2>2 DEF Moves
<1>3. CASE ~processing
  <2>1. PICK q \in Seq(Jobs) : q = Append(queue, j)
    BY AppendProperties DEF TypeOK
  <2>2. PICK n \in Nat : n = Len(queue) /\ DOMAIN queue = 1..n
    BY DEF TypeOK
  <2>3. /\ DOMAIN q = 1..(n + 1) /\ q[n + 1] = j
        /\ \A h \in 1..n : q[h] = queue[h] /\ q[h] \in Queued
    BY <2>1, <2>2 DEF TypeOK, Queued
  <2>4. \A h, k \in DOMAIN q : q[h] = q[k] => h = k
    <3>1. \A h, k \in 1..n : q[h] = q[k] => h = k
      BY <2>2, <2>3 DEF InOnePlace
    <3>2. \A h \in DOMAIN q : h \in 1..n \/ h = n + 1
      BY <2>3
    <3>3. \A h \in 1..n : q[h] # q[n + 1]
      BY <2>3
    <3>4. QED
      BY <3>1, <3>2, <3>3
  <2>5. current = NoJob /\ Drain(q, out)
    BY <1>3, <2>1 DEF QueueAttended, PushAndProcess
  <2>6. attempts \in [Jobs -> Nat] /\ i # current
    BY <2>5, JobsAssumption DEF TypeOK
  <2>7. Phase(i) = IF outcome[i] = "open" THEN "waiting" ELSE outcome[i]
    BY <2>6 DEF Phase
  <2>8. (\E h \in DOMAIN q : i = q[h]) =>
           /\ Phase(i) \in {"none", "waiting"} /\ out[i] = "open"
           /\ attempts[i] = 0 \/ attempts[i] < MaxAttempts[i]
    <3>1. (\E h \in DOMAIN q : i = q[h]) => i \in Queued \/ i = j
      BY <2>3
    <3>2. i \in Queued => outcome[i] = "open" /\ (attempts[i] = 0 \/ attempts[i] < MaxAttempts[i])
      BY DEF InOnePlace, AttemptsLeft
    <3>3. QED
      BY <1>1, <2>7, <3>1, <3>2
  <2>9. \/ /\ \E h \in DOMAIN q : i = q[h]
           /\ i # current' /\ outcome'[i] = "dropped" /\ attempts'[i] = attempts[i]
        \/ /\ \E h \in DOMAIN q : i = q[h]
           /\ i = current' /\ outcome'[i] = out[i] /\ attempts'[i] = attempts[i] + 1
        \/ i # current' /\ outcome'[i] = out[i] /\ attempts'[i] = attempts[i]
    BY <2>4, <2>5, <2>6, DrainMoves
  <2>10. CASE (\E h \in DOMAIN q : i = q[h]) /\ i # current' /\ outcome'[i] = "dropped"
              /\ attempts'[i] = attempts[i]
    <3>1. Phase(i)' = "dropped"
      BY <2>10 DEF Phase
    <3>2. QED
      BY <2>8, <2>10, <3>1 DEF Moves
  <2>11. CASE (\E h \in DOMAIN q : i = q[h]) /\ i = current' /\ attempts'[i] = attempts[i] + 1
    <3>1. Phase(i)' = "running"
      BY <2>11 DEF Phase
    <3>2. QED
      BY <2>8, <2>11, <3>1 DEF Moves
  <2>12. CASE i # current' /\ outcome'[i] = out[i] /\ attempts'[i] = attempts[i]
    <3>1. Phase(i)' = IF out[i] = "open" THEN "waiting" ELSE out[i]
      BY <2>12 DEF Phase
    <3>2. Phase(i)' = IF i = j THEN "waiting" ELSE Phase(i)
      BY <2>7, <3>1
    <3>3. QED
      BY <1>1, <2>12, <3>2 DEF Moves
  <2>13. QED
    BY <2>9, <2>10, <2>11, <2>12
<1>4. QED
  BY <1>2, <1>3

\* The job whose handler settles moves on, and so does each one the loop passes.
LEMMA SettleMoves ==
  ASSUME IInv, current # NoJob, NEW out \in [Jobs -> Outcomes],
         \A i \in Jobs : i # current => out[i] = outcome[i],
         \/ out[current] = "open" /\ attempts[current] < MaxAttempts[current]
         \/ out[current] = "done"
         \/ out[current] = "failed" /\ attempts[current] >= MaxAttempts[current],
         Drain(queue, out)
  PROVE  \A i \in Jobs : Moves(i)
<1> SUFFICES ASSUME NEW i \in Jobs PROVE Moves(i)
  OBVIOUS
<1> USE DEF IInv
<1>1. PICK q \in Seq(Jobs) : q = queue
  BY DEF TypeOK
<1>2. /\ attempts \in [Jobs -> Nat] /\ Drain(q, out)
      /\ \A h, k \in DOMAIN q : q[h] = q[k] => h = k
  BY <1>1 DEF TypeOK, InOnePlace
<1>3. (\E h \in DOMAIN q : i = q[h]) =>
         /\ i # current /\ Phase(i) = "waiting" /\ outcome[i] = "open"
         /\ attempts[i] = 0 \/ attempts[i] < MaxAttempts[i]
  <2>1. (\E h \in DOMAIN q : i = q[h]) => i \in Queued
    BY <1>1 DEF Queued
  <2>2. QED
    BY <2>1 DEF InOnePlace, AttemptsLeft, Phase
<1>4. \/ /\ \E h \in DOMAIN q : i = q[h]
         /\ i # current' /\ outcome'[i] = "dropped" /\ attempts'[i] = attempts[i]
      \/ /\ \E h \in DOMAIN q : i = q[h]
         /\ i = current' /\ outcome'[i] = out[i] /\ attempts'[i] = attempts[i] + 1
      \/ i # current' /\ outcome'[i] = out[i] /\ attempts'[i] = attempts[i]
  BY <1>2, DrainMoves
<1>5. CASE (\E h \in DOMAIN q : i = q[h]) /\ i # current' /\ outcome'[i] = "dropped"
           /\ attempts'[i] = attempts[i]
  <2>1. Phase(i)' = "dropped"
    BY <1>5 DEF Phase
  <2>2. QED
    BY <1>3, <1>5, <2>1 DEF Moves
<1>6. CASE (\E h \in DOMAIN q : i = q[h]) /\ i = current' /\ attempts'[i] = attempts[i] + 1
  <2>1. Phase(i)' = "running"
    BY <1>6 DEF Phase
  <2>2. QED
    BY <1>3, <1>6, <2>1 DEF Moves
<1>7. CASE i # current' /\ outcome'[i] = out[i] /\ attempts'[i] = attempts[i]
  <2>1. Phase(i)' = IF out[i] = "open" THEN "waiting" ELSE out[i]
    BY <1>7 DEF Phase
  <2>2. CASE i = current
    <3>1. Phase(i) = "running"
      BY <2>2 DEF Phase
    <3>2. QED
      BY <1>7, <2>1, <2>2, <3>1 DEF Moves
  <2>3. CASE i # current
    <3>1. Phase(i)' = Phase(i)
      BY <2>1, <2>3 DEF Phase
    <3>2. QED
      BY <1>7, <3>1 DEF Moves
  <2>4. QED
    BY <2>2, <2>3
<1>8. QED
  BY <1>4, <1>5, <1>6, <1>7

LEMMA StepMoves == IInv /\ [Next]_vars => \A j \in Jobs : Moves(j)
<1> SUFFICES ASSUME IInv, [Next]_vars PROVE \A j \in Jobs : Moves(j)
  OBVIOUS
<1> USE DEF IInv
<1>1. ASSUME UNCHANGED <<current, attempts, outcome>> PROVE \A j \in Jobs : Moves(j)
  BY <1>1 DEF Moves, Phase
<1>2. ASSUME NEW name \in Names, register(name) PROVE \A j \in Jobs : Moves(j)
  BY <1>1, <1>2 DEF register
<1>3. ASSUME NEW j \in Jobs, enqueue(j) PROVE \A i \in Jobs : Moves(i)
  <2>1. PICK out \in [Jobs -> Outcomes] : out = [outcome EXCEPT ![j] = "open"]
    BY DEF TypeOK, Outcomes
  <2>2. j \notin Queued /\ j # current /\ attempts[j] = 0 /\ outcome[j] = "none"
    BY <1>3 DEF enqueue, InOnePlace, AttemptsLeft
  <2>3. out[j] = "open" /\ \A i \in Jobs : i # j => out[i] = outcome[i]
    BY <2>1 DEF TypeOK
  <2>4. PushAndProcess(j, out)
    BY <1>3, <2>1 DEF enqueue
  <2>5. QED
    BY <2>2, <2>3, <2>4, PushMoves
<1>4. ASSUME NEW j \in Jobs, BackoffEnds(j) PROVE \A i \in Jobs : Moves(i)
  <2>1. PICK out \in [Jobs -> Outcomes] : out = outcome
    BY DEF TypeOK
  <2>2. /\ j \notin Queued /\ j # current /\ outcome[j] = "open"
        /\ attempts[j] < MaxAttempts[j]
    BY <1>4 DEF BackoffEnds, InOnePlace, AttemptsBounded
  <2>3. PushAndProcess(j, out)
    BY <1>4, <2>1 DEF BackoffEnds
  <2>4. QED
    BY <2>1, <2>2, <2>3, PushMoves
<1>5. CASE HandlerResolves
  <2>1. PICK out \in [Jobs -> Outcomes] : out = [outcome EXCEPT ![current] = "done"]
    BY DEF TypeOK, Outcomes
  <2>2. current # NoJob /\ Drain(queue, out)
    BY <1>5, <2>1 DEF HandlerResolves
  <2>3. out[current] = "done" /\ \A i \in Jobs : i # current => out[i] = outcome[i]
    BY <2>1, <2>2 DEF TypeOK
  <2>4. QED
    BY <2>2, <2>3, SettleMoves
<1>6. CASE HandlerRejects
  <2>1. current # NoJob /\ current \in Jobs /\ outcome[current] = "open"
    BY <1>6 DEF HandlerRejects, TypeOK, InOnePlace
  <2>2. CASE attempts[current] < MaxAttempts[current]
    <3>1. PICK out \in [Jobs -> Outcomes] : out = outcome
      BY DEF TypeOK
    <3>2. Drain(queue, out)
      BY <1>6, <2>2, <3>1 DEF HandlerRejects
    <3>3. QED
      BY <2>1, <2>2, <3>1, <3>2, SettleMoves
  <2>3. CASE ~(attempts[current] < MaxAttempts[current])
    <3>1. PICK out \in [Jobs -> Outcomes] : out = [outcome EXCEPT ![current] = "failed"]
      BY DEF TypeOK, Outcomes
    <3>2. Drain(queue, out)
      BY <1>6, <2>3, <3>1 DEF HandlerRejects
    <3>3. out[current] = "failed" /\ \A i \in Jobs : i # current => out[i] = outcome[i]
      BY <2>1, <3>1 DEF TypeOK
    <3>4. attempts[current] >= MaxAttempts[current]
      BY <2>1, <2>3, JobsAssumption DEF TypeOK
    <3>5. QED
      BY <2>1, <3>2, <3>3, <3>4, SettleMoves
  <2>4. QED
    BY <2>2, <2>3
<1>7. CASE Restart
  <2> SUFFICES ASSUME NEW j \in Jobs PROVE Moves(j)
    OBVIOUS
  <2>1. attempts' = attempts /\ j # current'
    BY <1>7, JobsAssumption DEF Restart
  <2>2. Phase(j)' = IF outcome[j] = "open" THEN "lost" ELSE outcome[j]
    BY <1>7, <2>1 DEF Restart, Phase
  <2>3. CASE outcome[j] = "open"
    BY <2>1, <2>2, <2>3 DEF Phase, Moves
  <2>4. CASE outcome[j] # "open"
    <3>1. j # current
      BY <2>4 DEF InOnePlace
    <3>2. QED
      BY <2>1, <2>2, <2>4, <3>1 DEF Phase, Moves
  <2>5. QED
    BY <2>3, <2>4
<1>8. CASE UNCHANGED vars
  BY <1>1, <1>8 DEF vars
<1>9. QED
  BY <1>2, <1>3, <1>4, <1>5, <1>6, <1>7, <1>8 DEF Next

\* The queue implements the board, whatever the jobs, limits and handlers.
THEOREM ImplementsBoard == Spec => KeepsPromise
<1>1. Init => Board!Init
  BY JobsAssumption DEF Init, Board!Init, Phase
<1>2. IInv /\ IInv' /\ [Next]_vars => [Board!Next]_<<[j \in Jobs |-> Phase(j)], attempts>>
  BY StepMoves, MovesAreBoards DEF IInv
<1>3. QED
  BY <1>1, <1>2, Invariance, PTL DEF Spec, KeepsPromise, Board!Spec

-----------------------------------------------------------------------------
\* What the proofs use of finite sets.
LEMMA Counting ==
  /\ \A A : IsFiniteSet(A) => Cardinality(A) \in Nat
  /\ \A A : IsFiniteSet(A) => \A B \in SUBSET A : IsFiniteSet(B) /\ Cardinality(B) <= Cardinality(A)
  /\ \A A, x : IsFiniteSet(A) /\ x \notin A =>
       IsFiniteSet(A \union {x}) /\ Cardinality(A \union {x}) = Cardinality(A) + 1
  /\ \A A, x : IsFiniteSet(A) /\ x \in A =>
       IsFiniteSet(A \ {x}) /\ Cardinality(A \ {x}) = Cardinality(A) - 1
  /\ IsFiniteSet({}) /\ Cardinality({}) = 0
  /\ \A a, b \in Int : IsFiniteSet(a..b)
BY FS_CardinalityType, FS_Subset, FS_AddElement, FS_RemoveElement, FS_EmptySet, FS_Interval

-----------------------------------------------------------------------------
(* Presence: who is connected, as it is counted and as it is told.         *)

\* The same of what Presence counts with.
LEMMA PresenceCounting ==
  /\ \A A : P!IsFiniteSet(A) => P!Cardinality(A) \in Nat
  /\ \A A : P!IsFiniteSet(A) => \A B \in SUBSET A : P!IsFiniteSet(B) /\ P!Cardinality(B) <= P!Cardinality(A)
  /\ \A A, x : P!IsFiniteSet(A) /\ x \notin A =>
       P!IsFiniteSet(A \union {x}) /\ P!Cardinality(A \union {x}) = P!Cardinality(A) + 1
  /\ \A A, x : P!IsFiniteSet(A) /\ x \in A =>
       P!IsFiniteSet(A \ {x}) /\ P!Cardinality(A \ {x}) = P!Cardinality(A) - 1
  /\ P!IsFiniteSet({}) /\ P!Cardinality({}) = 0
  /\ \A a, b \in Int : P!IsFiniteSet(a..b)
<1>1. \A A : P!IsFiniteSet(A) <=> IsFiniteSet(A)
  BY DEF P!IsFiniteSet, IsFiniteSet
<1>2. \A A : P!Cardinality(A) = Cardinality(A)
  BY DEF P!Cardinality, Cardinality
<1>3. QED
  BY <1>1, <1>2, Counting

\* The connected sockets of a user, as st says where sockets are.
SocketsOf(u, st) == {s \in Sockets : Owner[s] = u /\ st[s].at = "connected"}

Spots == [at : {"away", "greeted", "connected"}, agent : BOOLEAN]

\* What one step does to one socket, and to the counts of one user.
LEMMA MovesOne ==
  ASSUME P!TypeOK, NEW s \in Sockets, NEW to \in Spots, socket' = [socket EXCEPT ![s] = to],
         P!PresenceAssumption
  PROVE  /\ \A u \in Users : u # Owner[s] => SocketsOf(u, socket') = SocketsOf(u, socket)
         /\ SocketsOf(Owner[s], socket') =
              IF to.at = "connected" THEN SocketsOf(Owner[s], socket) \union {s}
              ELSE SocketsOf(Owner[s], socket) \ {s}
         /\ socket' \in [Sockets -> Spots]
BY DEF P!TypeOK, SocketsOf, P!PresenceAssumption, Spots

LEMMA CountsAre ==
  ASSUME P!PresenceAssumption, NEW u, NEW st
  PROVE  /\ P!IsFiniteSet(SocketsOf(u, st)) /\ P!Cardinality(SocketsOf(u, st)) \in Nat
         /\ P!Cardinality(SocketsOf(u, st)) = 0 <=> SocketsOf(u, st) = {}
         /\ \A s \in Sockets : s \notin SocketsOf(u, st) =>
              P!Cardinality(SocketsOf(u, st) \union {s}) = P!Cardinality(SocketsOf(u, st)) + 1
         /\ \A s \in SocketsOf(u, st) :
              P!Cardinality(SocketsOf(u, st) \ {s}) = P!Cardinality(SocketsOf(u, st)) - 1
<1>1. SocketsOf(u, st) \in SUBSET Sockets
  BY DEF SocketsOf
<1>2. P!IsFiniteSet(SocketsOf(u, st))
  BY <1>1, PresenceCounting DEF P!PresenceAssumption
<1>3. P!Cardinality(SocketsOf(u, st)) = 0 => SocketsOf(u, st) = {}
  <2>1. ASSUME NEW s \in SocketsOf(u, st) PROVE P!Cardinality(SocketsOf(u, st)) # 0
    <3>1. /\ P!IsFiniteSet(SocketsOf(u, st) \ {s})
          /\ P!Cardinality(SocketsOf(u, st) \ {s}) = P!Cardinality(SocketsOf(u, st)) - 1
      BY <1>2, PresenceCounting
    <3>2. P!Cardinality(SocketsOf(u, st) \ {s}) \in Nat
      BY <3>1, PresenceCounting
    <3>3. QED
      BY <3>1, <3>2
  <2>2. QED
    BY <2>1
<1>4. QED
  BY <1>2, <1>3, PresenceCounting

\* The invariant with its counts as sets of sockets.
Counted ==
  /\ \A u \in Users : presence[u] = P!Cardinality(SocketsOf(u, socket))
  /\ \A u \in lost : presence[u] = 0
  /\ \A s \in Sockets : P!Is(s, "connected") /\ socket[s].agent => s \in rooms[P!agents]

Told == \A u \in Users \ lost : told[u] <=> SocketsOf(u, socket) # {}

LEMMA MessageReaches ==
  ASSUME P!PresenceAssumption, P!TypeOK, Counted
  PROVE  \A s \in Sockets, c \in Threads :
           P!Is(s, "connected") /\ socket[s].agent => P!messageCreated(s, c) \in 1..2
<1> SUFFICES ASSUME NEW s \in Sockets, NEW c \in Threads, P!Is(s, "connected"), socket[s].agent
             PROVE  P!messageCreated(s, c) \in 1..2
  OBVIOUS
<1> DEFINE Rooms == {r \in {c, P!agents} : s \in rooms[r]}
<1>1. P!agents \in Rooms /\ Rooms \in SUBSET {c, P!agents} /\ c # P!agents
  BY DEF Counted, P!PresenceAssumption
<1>2. Rooms = {P!agents} \/ Rooms = {P!agents} \union {c}
  BY <1>1
<1> HIDE DEF Rooms
<1>3. P!IsFiniteSet({P!agents}) /\ P!Cardinality({P!agents}) = 1
  <2>1. {P!agents} = {} \union {P!agents}
    OBVIOUS
  <2>2. P!IsFiniteSet({} \union {P!agents}) /\ P!Cardinality({} \union {P!agents}) = 0 + 1
    <3>1. \A x : P!IsFiniteSet({}) /\ x \notin {} =>
            P!IsFiniteSet({} \union {x}) /\ P!Cardinality({} \union {x}) = P!Cardinality({}) + 1
      BY PresenceCounting
    <3>2. QED
      BY <3>1, PresenceCounting
  <2>3. QED
    BY <2>1, <2>2
<1>4. P!Cardinality({P!agents} \union {c}) = 2
  <2>1. c \notin {P!agents}
    BY <1>1
  <2>2. QED
    <3>1. \A A, x : P!IsFiniteSet(A) /\ x \notin A => P!Cardinality(A \union {x}) = P!Cardinality(A) + 1
      BY PresenceCounting
    <3>2. P!Cardinality({P!agents} \union {c}) = 1 + 1
      BY <1>3, <2>1, <3>1
    <3>3. QED
      BY <3>2
<1>5. P!Cardinality(Rooms) \in 1..2
  BY <1>2, <1>3, <1>4
<1>6. QED
  BY <1>5 DEF Rooms, P!messageCreated

LEMMA PresenceSplit == ASSUME P!PresenceAssumption PROVE P!IInv <=> P!TypeOK /\ Counted /\ Told
<1>1. P!CountsSockets <=> Counted
  BY DEF P!CountsSockets, Counted, SocketsOf, P!Is
<1>2. Told <=> \A u \in Users \ lost : told[u] <=> \E s \in Sockets : Owner[s] = u /\ P!Is(s, "connected")
  BY DEF Told, SocketsOf, P!Is
<1>3. QED
  BY <1>1, <1>2, MessageReaches DEF P!IInv, P!PresenceTold


LEMMA PresenceSplitNext == ASSUME P!PresenceAssumption PROVE (P!IInv <=> P!TypeOK /\ Counted /\ Told)'
BY PresenceSplit, PTL

LEMMA ConnectionKeeps ==
  ASSUME P!PresenceAssumption, P!TypeOK, Counted, Told, NEW s \in Sockets, P!Connection(s)
  PROVE  P!TypeOK' /\ Counted' /\ Told'
<1> DEFINE u == Owner[s]
<1>1. PICK to \in Spots : to = [socket[s] EXCEPT !.at = "connected"]
  BY DEF P!TypeOK, Spots
<1>2. to.at = "connected" /\ to.agent = socket[s].agent /\ socket[s].at = "greeted"
  BY <1>1 DEF P!TypeOK, P!Connection, P!Is
<1>3. socket' = [socket EXCEPT ![s] = to]
  BY <1>1 DEF P!Connection
<1>4. /\ \A v \in Users : v # u => SocketsOf(v, socket') = SocketsOf(v, socket)
      /\ SocketsOf(u, socket') = SocketsOf(u, socket) \union {s}
      /\ socket' \in [Sockets -> Spots]
  BY <1>2, <1>3, MovesOne
<1>5. u \in Users /\ s \notin SocketsOf(u, socket)
  BY <1>2 DEF P!PresenceAssumption, SocketsOf
<1>6. P!Cardinality(SocketsOf(u, socket')) = P!Cardinality(SocketsOf(u, socket)) + 1
  BY <1>4, <1>5, CountsAre
<1>7. /\ presence' = [presence EXCEPT ![u] = @ + 1] /\ staff' = staff /\ lost' = lost \ {u}
      /\ told' = IF presence[u] = 0 THEN [told EXCEPT ![u] = TRUE] ELSE told
      /\ rooms' = IF socket[s].agent THEN [rooms EXCEPT ![P!agents] = @ \union {s}] ELSE rooms
  BY DEF P!Connection
<1> HIDE DEF u
<1>8. P!TypeOK'
  BY <1>4, <1>5, <1>7 DEF P!TypeOK, Spots
<1>9. Counted'
  <2>1. \A v \in Users : presence'[v] = P!Cardinality(SocketsOf(v, socket'))
    BY <1>4, <1>5, <1>6, <1>7 DEF Counted, P!TypeOK
  <2>2. \A v \in lost' : presence'[v] = 0
    BY <1>5, <1>7 DEF Counted, P!TypeOK
  <2>3. ASSUME NEW t \in Sockets, socket'[t].at = "connected", socket'[t].agent PROVE t \in rooms'[P!agents]
    <3>1. CASE t = s
      BY <1>2, <1>3, <1>7, <2>3, <3>1 DEF P!TypeOK
    <3>2. CASE t # s
      BY <1>3, <1>7, <2>3, <3>2 DEF P!TypeOK, Counted, P!Is
    <3>3. QED
      BY <3>1, <3>2
  <2>4. QED
    BY <2>1, <2>2, <2>3 DEF Counted, P!Is
<1>10. Told'
  <2>1. ASSUME NEW v \in Users \ lost', v # u PROVE told'[v] <=> SocketsOf(v, socket') # {}
    BY <1>4, <1>7, <2>1 DEF Told, P!TypeOK
  <2>2. told'[u] /\ SocketsOf(u, socket') # {}
    <3>1. CASE presence[u] = 0
      BY <1>4, <1>5, <1>7, <3>1 DEF P!TypeOK
    <3>2. CASE presence[u] # 0
      <4>1. u \notin lost /\ SocketsOf(u, socket) # {}
        BY <1>5, <3>2, CountsAre DEF Counted
      <4>2. QED
        BY <1>4, <1>5, <1>7, <3>2, <4>1 DEF Told
    <3>3. QED
      BY <3>1, <3>2
  <2>3. QED
    BY <2>1, <2>2 DEF Told
<1>11. QED
  BY <1>8, <1>9, <1>10

LEMMA DisconnectKeeps ==
  ASSUME P!PresenceAssumption, P!TypeOK, Counted, Told, NEW s \in Sockets, P!Disconnect(s)
  PROVE  P!TypeOK' /\ Counted' /\ Told'
<1> DEFINE u == Owner[s]
<1>1. PICK to \in Spots : to = P!Away
  BY DEF P!Away, Spots
<1>2. to.at = "away" /\ socket[s].at = "connected"
  BY <1>1 DEF P!Away, P!Disconnect, P!Is
<1>3. socket' = [socket EXCEPT ![s] = to]
  BY <1>1 DEF P!Disconnect
<1>4. /\ \A v \in Users : v # u => SocketsOf(v, socket') = SocketsOf(v, socket)
      /\ SocketsOf(u, socket') = SocketsOf(u, socket) \ {s}
      /\ socket' \in [Sockets -> Spots]
  BY <1>2, <1>3, MovesOne
<1>5. u \in Users /\ s \in SocketsOf(u, socket)
  BY <1>2 DEF P!PresenceAssumption, SocketsOf
<1>6. /\ P!Cardinality(SocketsOf(u, socket')) = P!Cardinality(SocketsOf(u, socket)) - 1
      /\ P!Cardinality(SocketsOf(u, socket')) \in Nat
      /\ P!Cardinality(SocketsOf(u, socket')) = 0 <=> SocketsOf(u, socket') = {}
  BY <1>4, <1>5, CountsAre
<1>7. /\ presence' = [presence EXCEPT ![u] = @ - 1] /\ staff' = staff /\ lost' = lost
      /\ told' = IF presence[u] <= 1 THEN [told EXCEPT ![u] = FALSE] ELSE told
      /\ rooms' = [r \in DOMAIN rooms |-> rooms[r] \ {s}]
  BY DEF P!Disconnect
<1>8. presence[u] = P!Cardinality(SocketsOf(u, socket)) /\ presence[u] \in Nat
  BY <1>5 DEF Counted, P!TypeOK
<1> HIDE DEF u
<1>12. presence'[u] = P!Cardinality(SocketsOf(u, socket')) /\ \A v \in Users : v # u => presence'[v] = presence[v]
  BY <1>5, <1>6, <1>7, <1>8 DEF P!TypeOK
<1>13. u \notin lost
  BY <1>6, <1>8 DEF Counted
<1>9. P!TypeOK'
  <2>1. presence' \in [Users -> Nat]
    BY <1>5, <1>6, <1>7, <1>12 DEF P!TypeOK
  <2>2. QED
    BY <1>4, <1>5, <1>7, <2>1 DEF P!TypeOK, Spots
<1>10. Counted'
  <2>1. \A v \in Users : presence'[v] = P!Cardinality(SocketsOf(v, socket'))
    BY <1>4, <1>12 DEF Counted
  <2>2. \A v \in lost' : presence'[v] = 0
    BY <1>7, <1>12, <1>13 DEF Counted, P!TypeOK
  <2>3. \A t \in Sockets : socket'[t].at = "connected" /\ socket'[t].agent => t \in rooms'[P!agents]
    BY <1>2, <1>3, <1>7 DEF P!TypeOK, Counted, P!Is
  <2>4. QED
    BY <2>1, <2>2, <2>3 DEF Counted, P!Is
<1>11. Told'
  <2>1. ASSUME NEW v \in Users \ lost', v # u PROVE told'[v] <=> SocketsOf(v, socket') # {}
    BY <1>4, <1>7, <2>1 DEF Told, P!TypeOK
  <2>2. told'[u] <=> SocketsOf(u, socket') # {}
    <3>1. SocketsOf(u, socket') = {} <=> presence[u] <= 1
      BY <1>6, <1>8
    <3>2. told[u]
      BY <1>5, <1>13 DEF Told
    <3>3. CASE presence[u] <= 1
      BY <1>5, <1>7, <3>1, <3>3 DEF P!TypeOK
    <3>4. CASE ~(presence[u] <= 1)
      BY <1>7, <3>1, <3>2, <3>4
    <3>5. QED
      BY <3>3, <3>4
  <2>3. QED
    BY <2>1, <2>2 DEF Told
<1>14. QED
  BY <1>9, <1>10, <1>11

\* Who is not connected before and after changes no count.
LEMMA GreetingKeeps ==
  ASSUME P!PresenceAssumption, P!TypeOK, Counted, Told, NEW s \in Sockets, P!Handshake(s) \/ P!GiveUp(s)
  PROVE  P!TypeOK' /\ Counted' /\ Told'
<1>1. PICK to \in Spots : socket' = [socket EXCEPT ![s] = to] /\ to.at # "connected"
  <2>1. CASE P!Handshake(s)
    <3>1. [at |-> "greeted", agent |-> Owner[s] \in staff] \in Spots
      BY DEF Spots
    <3>2. QED
      BY <2>1, <3>1 DEF P!Handshake
  <2>2. CASE P!GiveUp(s)
    <3>1. P!Away \in Spots /\ P!Away.at = "away"
      BY DEF P!Away, Spots
    <3>2. QED
      BY <2>2, <3>1 DEF P!GiveUp
  <2>3. QED
    BY <2>1, <2>2
<1>2. socket[s].at # "connected" /\ UNCHANGED <<staff, presence, told, rooms, lost>>
  BY DEF P!Handshake, P!GiveUp, P!Is
<1>3. s \notin SocketsOf(Owner[s], socket)
  BY <1>2 DEF SocketsOf
<1>4. (\A u \in Users : SocketsOf(u, socket') = SocketsOf(u, socket)) /\ socket' \in [Sockets -> Spots]
  <2>1. SocketsOf(Owner[s], socket) \ {s} = SocketsOf(Owner[s], socket)
    BY <1>3
  <2>2. /\ \A u \in Users : u # Owner[s] => SocketsOf(u, socket') = SocketsOf(u, socket)
        /\ SocketsOf(Owner[s], socket') = SocketsOf(Owner[s], socket)
        /\ socket' \in [Sockets -> Spots]
    BY <1>1, <2>1, MovesOne
  <2>3. QED
    BY <2>2
<1>5. \A t \in Sockets : socket'[t].at = "connected" => socket'[t] = socket[t]
  BY <1>1 DEF P!TypeOK
<1>6. QED
  BY <1>2, <1>4, <1>5 DEF P!TypeOK, Counted, Told, P!Is, Spots

LEMMA RoomsKeep ==
  ASSUME P!PresenceAssumption, P!TypeOK, Counted, Told, NEW s \in Sockets, NEW c \in Threads,
         P!Join(s, c) \/ P!Leave(s, c)
  PROVE  P!TypeOK' /\ Counted' /\ Told'
<1>1. /\ rooms' = [rooms EXCEPT ![c] = @ \union {s}] \/ rooms' = [rooms EXCEPT ![c] = @ \ {s}]
      /\ c # P!agents /\ UNCHANGED <<staff, socket, presence, told, lost>>
  BY DEF P!Join, P!Leave, P!PresenceAssumption
<1>2. rooms' \in [Threads \union {P!agents} -> SUBSET Sockets] /\ rooms'[P!agents] = rooms[P!agents]
  BY <1>1 DEF P!TypeOK
<1>3. QED
  BY <1>1, <1>2 DEF P!TypeOK, Counted, Told, P!Is

LEMMA RestartKeeps ==
  ASSUME P!PresenceAssumption, P!TypeOK, P!Restart
  PROVE  P!TypeOK' /\ Counted' /\ Told'
<1>1. \A s \in Sockets : socket'[s].at = "away"
  BY DEF P!Restart, P!Away
<1>2. \A u \in Users : SocketsOf(u, socket') = {}
  BY <1>1 DEF SocketsOf
<1>3. P!TypeOK'
  BY DEF P!Restart, P!TypeOK, P!Away
<1>4. Counted'
  BY <1>1, <1>2, CountsAre DEF P!Restart, Counted, P!Is, P!TypeOK
<1>5. Told'
  BY <1>2 DEF P!Restart, Told, P!TypeOK
<1>6. QED
  BY <1>3, <1>4, <1>5

\* Clients know who is connected, but for those whom a restart forgot.
LEMMA PresenceSound == ASSUME P!PresenceAssumption PROVE P!Spec => []P!PresenceTold
<1>1. P!Init => P!IInv
  <2> SUFFICES ASSUME P!Init PROVE P!TypeOK /\ Counted /\ Told
    BY PresenceSplit
  <2>1. \A u \in Users : SocketsOf(u, socket) = {}
    BY DEF P!Init, P!Away, SocketsOf
  <2>2. QED
    BY <2>1, CountsAre DEF P!Init, P!Away, P!TypeOK, Counted, Told, P!Is
<1>2. P!IInv /\ [P!Next]_P!vars => P!IInv'
  <2> SUFFICES ASSUME P!TypeOK, Counted, Told, [P!Next]_P!vars PROVE P!TypeOK' /\ Counted' /\ Told'
    BY PresenceSplit, PresenceSplitNext
  <2>1. CASE UNCHANGED P!vars
    BY <2>1 DEF P!vars, P!TypeOK, Counted, Told, P!Is
  <2>2. ASSUME NEW u \in Users, P!RoleChanges(u) PROVE P!TypeOK' /\ Counted' /\ Told'
    BY <2>2 DEF P!RoleChanges, P!TypeOK, Counted, Told, P!Is
  <2>3. QED
    BY <2>1, <2>2, ConnectionKeeps, DisconnectKeeps, GreetingKeeps, RoomsKeep, RestartKeeps DEF P!Next
<1>3. QED
  BY <1>1, <1>2, PTL DEF P!Spec, P!IInv

-----------------------------------------------------------------------------
(* Notices: what is pushed, and the rows behind it.                        *)

\* A step that takes no row back to not being there, and neither notifies nor pushes.
LEMMA RowsStay ==
  ASSUME N!IInv, UNCHANGED <<source, pushed>>,
         notice' \in [Sources -> [Users -> {"none", "unread", "read", "deleted"}]],
         \A s \in Sources, u \in Users : notice[s][u] # "none" => notice'[s][u] # "none"
  PROVE  N!IInv'
<1>1. N!TypeOK'
  BY DEF N!IInv, N!TypeOK
<1>2. \A s \in Sources : source[s].to \subseteq Users
  BY DEF N!IInv, N!TypeOK
<1>3. N!KeptFirst'
  BY <1>2 DEF N!IInv, N!KeptFirst, N!At, N!Told
<1>4. QED
  BY <1>1, <1>3 DEF N!IInv

LEMMA BeginStep ==
  ASSUME N!IInv, NEW s \in Sources, NEW to \in SUBSET Users, N!Begin(s, to)
  PROVE  N!IInv'
<1>1. source' = [source EXCEPT ![s] = [pc |-> "create", to |-> to]] /\ UNCHANGED <<notice, pushed>> /\ N!At(s, "none")
  BY DEF N!Begin
<1>2. N!TypeOK'
  BY <1>1 DEF N!IInv, N!TypeOK
<1>3. ASSUME NEW x \in Sources
      PROVE  /\ N!At(x, "push")' \/ N!Told(x)' => \A u \in source'[x].to : notice'[x][u] # "none"
             /\ N!Told(x)' => N!At(x, "ended")'
  <2>1. CASE x = s
    BY <1>1, <2>1 DEF N!IInv, N!KeptFirst, N!TypeOK, N!At, N!Told
  <2>2. CASE x # s
    BY <1>1, <2>2 DEF N!IInv, N!KeptFirst, N!TypeOK, N!At, N!Told
  <2>3. QED
    BY <2>1, <2>2
<1>4. QED
  BY <1>2, <1>3 DEF N!IInv, N!KeptFirst

LEMMA InsertStep ==
  ASSUME N!IInv, NEW s \in Sources, N!createMany(s)
  PROVE  N!IInv'
<1> DEFINE kept == [u \in Users |-> IF u \in source[s].to THEN "unread" ELSE notice[s][u]]
<1>1. CASE notice' = [notice EXCEPT ![s] = kept] /\ N!Goto(s, "push")
  <2>1. N!TypeOK'
    BY <1>1 DEF N!IInv, N!TypeOK, N!Goto
  <2>2. ASSUME NEW x \in Sources
        PROVE  /\ N!At(x, "push")' \/ N!Told(x)' => \A u \in source'[x].to : notice'[x][u] # "none"
               /\ N!Told(x)' => N!At(x, "ended")'
    <3>1. CASE x = s
      <4>1. source[s].to \subseteq Users /\ source'[s].to = source[s].to /\ notice'[s] = kept
        BY <1>1 DEF N!IInv, N!TypeOK, N!Goto
      <4>2. ~N!Told(s)'
        BY DEF N!createMany, N!IInv, N!KeptFirst, N!At, N!Told
      <4>3. QED
        BY <3>1, <4>1, <4>2
    <3>2. CASE x # s
      BY <1>1, <3>2 DEF N!createMany, N!Goto, N!IInv, N!KeptFirst, N!TypeOK, N!At, N!Told
    <3>3. QED
      BY <3>1, <3>2
  <2>3. QED
    BY <2>1, <2>2 DEF N!IInv, N!KeptFirst
<1>2. CASE UNCHANGED notice /\ N!Goto(s, "ended")
  <2>1. N!TypeOK'
    BY <1>2 DEF N!IInv, N!TypeOK, N!Goto
  <2>2. ASSUME NEW x \in Sources
        PROVE  /\ N!At(x, "push")' \/ N!Told(x)' => \A u \in source'[x].to : notice'[x][u] # "none"
               /\ N!Told(x)' => N!At(x, "ended")'
    BY <1>2 DEF N!createMany, N!Goto, N!IInv, N!KeptFirst, N!TypeOK, N!At, N!Told
  <2>3. QED
    BY <2>1, <2>2 DEF N!IInv, N!KeptFirst
<1>3. QED
  BY <1>1, <1>2 DEF N!createMany

LEMMA PushStep ==
  ASSUME N!IInv, NEW s \in Sources, N!toUser(s)
  PROVE  N!IInv'
<1>1. /\ source' = [source EXCEPT ![s].pc = "ended"] /\ UNCHANGED notice
      /\ pushed' = pushed \cup ({s} \X source[s].to) /\ N!At(s, "push")
  BY DEF N!toUser, N!Goto
<1>2. N!TypeOK'
  BY <1>1 DEF N!IInv, N!TypeOK
<1>3. ASSUME NEW x \in Sources
      PROVE  /\ N!At(x, "push")' \/ N!Told(x)' => \A u \in source'[x].to : notice'[x][u] # "none"
             /\ N!Told(x)' => N!At(x, "ended")'
  <2>1. CASE x = s
    BY <1>1, <2>1 DEF N!IInv, N!KeptFirst, N!TypeOK, N!At
  <2>2. CASE x # s
    <3>1. N!Told(x)' => N!Told(x)
      BY <1>1, <2>2 DEF N!Told
    <3>2. source'[x] = source[x]
      BY <1>1, <2>2 DEF N!IInv, N!TypeOK
    <3>3. QED
      BY <1>1, <3>1, <3>2 DEF N!IInv, N!KeptFirst, N!At
  <2>3. QED
    BY <2>1, <2>2
<1>4. QED
  BY <1>2, <1>3 DEF N!IInv, N!KeptFirst

LEMMA ChangeStep ==
  ASSUME N!IInv, NEW u \in Users, NEW S, NEW v \in {"read", "deleted"}, N!Change(u, S, v)
  PROVE  N!IInv'
<1>1. /\ notice' = [s \in Sources |-> IF s \in S THEN [notice[s] EXCEPT ![u] = v] ELSE notice[s]]
      /\ UNCHANGED <<source, pushed>>
  BY DEF N!Change
<1>2. \A s \in Sources : notice[s] \in [Users -> {"none", "unread", "read", "deleted"}]
  BY DEF N!IInv, N!TypeOK
<1>3. notice' \in [Sources -> [Users -> {"none", "unread", "read", "deleted"}]]
  BY <1>1, <1>2
<1>4. \A s \in Sources, x \in Users : notice[s][x] # "none" => notice'[s][x] # "none"
  BY <1>1, <1>2
<1>5. QED
  BY <1>1, <1>3, <1>4, RowsStay

LEMMA SweepStep ==
  ASSUME N!IInv, NEW t \in N!Tasks, N!deleteMany(t)
  PROVE  N!IInv'
<1>1. UNCHANGED <<source, pushed>>
  BY DEF N!deleteMany
<1>2. CASE UNCHANGED notice
  BY <1>1, <1>2, RowsStay DEF N!IInv, N!TypeOK
<1>3. CASE notice' = [s \in Sources |-> [u \in Users |->
                        IF s \in task[t].spent /\ notice[s][u] = "read" THEN "deleted" ELSE notice[s][u]]]
  <2>1. notice' \in [Sources -> [Users -> {"none", "unread", "read", "deleted"}]]
    BY <1>3 DEF N!IInv, N!TypeOK
  <2>2. \A s \in Sources, x \in Users : notice[s][x] # "none" => notice'[s][x] # "none"
    BY <1>3
  <2>3. QED
    BY <1>1, <2>1, <2>2, RowsStay
<1>4. QED
  BY <1>2, <1>3 DEF N!deleteMany

LEMMA RestartStep ==
  ASSUME N!IInv, N!Restart
  PROVE  N!IInv'
<1>1. /\ source' = [s \in Sources |-> IF source[s].pc = "none" THEN source[s] ELSE [source[s] EXCEPT !.pc = "ended"]]
      /\ UNCHANGED <<notice, pushed>>
  BY DEF N!Restart
<1>2. N!TypeOK'
  BY <1>1 DEF N!IInv, N!TypeOK
<1>3. \A s \in Sources : /\ source'[s].to = source[s].to
                         /\ source'[s].pc = IF source[s].pc = "none" THEN "none" ELSE "ended"
  BY <1>1 DEF N!IInv, N!TypeOK
<1>4. ASSUME NEW s \in Sources
      PROVE  /\ N!At(s, "push")' \/ N!Told(s)' => \A u \in source'[s].to : notice'[s][u] # "none"
             /\ N!Told(s)' => N!At(s, "ended")'
  <2>1. N!Told(s)' <=> N!Told(s)
    BY <1>1 DEF N!Told
  <2>2. N!Told(s) => N!At(s, "ended") /\ \A u \in source[s].to : notice[s][u] # "none"
    BY DEF N!IInv, N!KeptFirst
  <2>3. ~N!At(s, "push")'
    BY <1>3 DEF N!At
  <2>4. N!At(s, "ended") => N!At(s, "ended")'
    BY <1>3 DEF N!At
  <2>5. QED
    BY <1>1, <1>3, <2>1, <2>2, <2>3, <2>4
<1>5. QED
  BY <1>2, <1>4 DEF N!IInv, N!KeptFirst

LEMMA NoticesStep ==
  ASSUME N!IInv, [N!Next]_N!vars
  PROVE  N!IInv'
<1>1. ASSUME NEW s \in Sources, N!notify(s) \/ N!broadcast(s) PROVE N!IInv'
  BY <1>1, BeginStep DEF N!notify, N!broadcast
<1>2. ASSUME NEW s \in Sources, N!createMany(s) PROVE N!IInv'
  BY <1>2, InsertStep
<1>3. ASSUME NEW s \in Sources, N!toUser(s) PROVE N!IInv'
  BY <1>3, PushStep
<1>4. ASSUME NEW u \in Users, N!markRead(u) \/ N!markAllRead(u) \/ N!delete(u) \/ N!deleteAllRead(u) PROVE N!IInv'
  BY <1>4, ChangeStep DEF N!markRead, N!markAllRead, N!delete, N!deleteAllRead
<1>5. CASE UNCHANGED <<notice, source, pushed>>
  BY <1>5, RowsStay DEF N!IInv, N!TypeOK
<1>6. ASSUME NEW t \in N!Tasks, N!deleteMany(t) PROVE N!IInv'
  BY <1>6, SweepStep
<1>7. CASE N!Restart
  BY <1>7, RestartStep
<1>8. \/ \E s \in Sources : N!notify(s) \/ N!broadcast(s) \/ N!createMany(s) \/ N!toUser(s)
      \/ \E u \in Users : N!markRead(u) \/ N!markAllRead(u) \/ N!delete(u) \/ N!deleteAllRead(u)
      \/ \E t \in N!Tasks : N!deleteMany(t)
      \/ N!Restart
      \/ UNCHANGED <<notice, source, pushed>>
  <2>1. \A s \in Sources : N!ThirtyDays(s) => UNCHANGED <<notice, source, pushed>>
    BY DEF N!ThirtyDays
  <2>2. \A k : N!Create(k) \/ N!Expire(k) => UNCHANGED <<notice, source, pushed>>
    BY DEF N!Create, N!Expire
  <2>3. \A t \in N!Tasks : N!Tick(t) \/ N!safeRun(t) => UNCHANGED <<notice, source, pushed>>
    BY DEF N!Tick, N!safeRun
  <2>4. UNCHANGED N!vars => UNCHANGED <<notice, source, pushed>>
    BY DEF N!vars
  <2>5. QED
    BY <2>1, <2>2, <2>3, <2>4 DEF N!Next
<1>9. QED
  BY <1>1, <1>2, <1>3, <1>4, <1>5, <1>6, <1>7, <1>8

LEMMA NoticesInit == N!Init => N!IInv
BY DEF N!Init, N!IInv, N!TypeOK, N!KeptFirst, N!At, N!Told

\* What is pushed was kept: a row for everybody it is for.
LEMMA NoticesSound == N!Init /\ [][N!Next]_N!vars => []N!ToldIsKept
<1>1. N!IInv => N!ToldIsKept
  BY DEF N!IInv, N!KeptFirst, N!ToldIsKept, N!Told
<1>2. QED
  BY <1>1, NoticesInit, NoticesStep, PTL

-----------------------------------------------------------------------------
(* Uploads: what is stored before anything names it.                       *)

Uploaded == [pc : U!InFlight \cup {"none", "refused", "answered", "failed"},
             way : U!Ways, kind : U!Kinds, size : Nat, long : BOOLEAN,
             stored : BOOLEAN, sent : SUBSET {"answered", "made up"},
             catalogued : BOOLEAN]

\* What the invariant says of one file, gone being whether it went with an instance.
Kept(r, gone) ==
  /\ r \in Uploaded
  /\ r.pc = "none" => ~r.stored
  /\ r.pc = "check" => U!LetIn(r.way, r.kind, r.size)
  /\ r.pc = "store" \/ r.stored => U!Fits(r)
  /\ r.pc = "refused" /\ r.way = "files" => ~U!Fits(r)
  /\ r.pc \in {"catalog", "answered"} \/ "answered" \in r.sent \/ r.catalogued => r.stored \/ gone

\* And of the user's avatar.
Avatars ==
  /\ durable \in BOOLEAN /\ wiped \subseteq Files /\ (durable => wiped = {})
  /\ object \in Nat /\ avatar \in Nat /\ avatar <= object
  /\ req \in [Procs -> [pc : {"idle", "image", "row"}, version : Nat]]
  /\ \A p \in Procs : req[p].version <= object

LEMMA FilesSplit ==
  U!IInv <=> Avatars /\ DOMAIN file = Files /\ file = [f \in Files |-> file[f]]
           /\ \A f \in Files : Kept(file[f], f \in wiped)
<1>1. U!TypeOK /\ U!StoredFirst /\ U!NothingDangles /\ U!StoredFits <=>
        /\ Avatars /\ file \in [Files -> Uploaded]
        /\ \A f \in Files : Kept(file[f], f \in wiped)
  BY DEF U!TypeOK, U!StoredFirst, U!NothingDangles, U!StoredFits, Avatars, Kept, U!Fits, Uploaded, U!At
<1>2. file \in [Files -> Uploaded] <=>
        file = [f \in Files |-> file[f]] /\ \A f \in Files : file[f] \in Uploaded
  OBVIOUS
<1>3. QED
  BY <1>1, <1>2 DEF U!IInv, U!UploadsSound, Kept

LEMMA FilesSplitNext ==
  (U!IInv <=> Avatars /\ DOMAIN file = Files /\ file = [f \in Files |-> file[f]]
            /\ \A f \in Files : Kept(file[f], f \in wiped))'
BY FilesSplit, PTL

\* A step of one file that leaves that file as the invariant says.
LEMMA BecomeKeeps ==
  ASSUME U!IInv, NEW f \in Files, NEW r, U!Become(f, r), Kept(r, f \in wiped)
  PROVE  U!IInv'
<1>1. file' = [file EXCEPT ![f] = r] /\ UNCHANGED <<durable, wiped, object, avatar, req>>
  BY DEF U!Become
<1>2. Avatars /\ DOMAIN file = Files /\ \A g \in Files : Kept(file[g], g \in wiped)
  BY FilesSplit
<1>3. Avatars'
  BY <1>1, <1>2 DEF Avatars
<1>4. DOMAIN file' = Files /\ file' = [g \in Files |-> file'[g]] /\ \A g \in Files : Kept(file'[g], g \in wiped')
  BY <1>1, <1>2
<1>5. QED
  BY <1>3, <1>4, FilesSplitNext

LEMMA LimitsAre ==
  /\ \A k \in U!Kinds : U!LimitFor[k] = IF k = "IMAGE" THEN 8 ELSE IF k = "DOCUMENT" THEN 15 ELSE U!LimitFor[k]
  /\ U!LimitFor["IMAGE"] = 8 /\ U!LimitFor["DOCUMENT"] = 15 /\ U!LimitFor["VOICE"] = 10
BY DEF U!LimitFor, U!Kinds

LEMMA FailedKeeps ==
  ASSUME NEW f \in Files, Kept(file[f], f \in wiped), U!Goto(f, "failed")
  PROVE  \E r : U!Become(f, r) /\ Kept(r, f \in wiped)
<1>1. PICK r : U!Become(f, r) /\ r = [file[f] EXCEPT !.pc = "failed"]
  BY DEF U!Goto
<1>2. /\ r \in Uploaded /\ r.pc = "failed" /\ r.stored = file[f].stored /\ r.sent = file[f].sent
      /\ r.catalogued = file[f].catalogued /\ r.kind = file[f].kind /\ r.size = file[f].size
      /\ r.long = file[f].long
  BY <1>1 DEF Kept, Uploaded
<1>3. QED
  BY <1>1, <1>2 DEF Kept, U!Fits

LEMMA multerKeeps == ASSUME U!UploadsAssumption, U!IInv, NEW f \in Files, U!multer(f) PROVE U!IInv'
<1>0. file[f] \in Uploaded /\ Kept(file[f], f \in wiped) /\ file[f].pc = "none"
  BY FilesSplit DEF U!multer, U!At, Kept
<1>1. PICK w \in U!Ways, k \in U!Kinds, s \in Sizes, l \in BOOLEAN :
        U!Become(f, [file[f] EXCEPT !.way = w, !.kind = k, !.size = s, !.long = l,
                                  !.pc = IF U!LetIn(w, k, s) THEN "check" ELSE "refused"])
  BY DEF U!multer
<1>2. PICK r : r = [file[f] EXCEPT !.way = w, !.kind = k, !.size = s, !.long = l,
                                   !.pc = IF U!LetIn(w, k, s) THEN "check" ELSE "refused"]
  OBVIOUS
<1>3. /\ r.way = w /\ r.kind = k /\ r.size = s /\ r.long = l
      /\ r.stored = file[f].stored /\ r.sent = file[f].sent /\ r.catalogued = file[f].catalogued
      /\ r.pc = IF U!LetIn(w, k, s) THEN "check" ELSE "refused"
  BY <1>0, <1>2 DEF Uploaded
<1>4. r \in Uploaded
  BY <1>0, <1>2 DEF Uploaded, U!UploadsAssumption, U!InFlight
<1>5. w = "files" /\ ~U!LetIn(w, k, s) => ~U!Fits(r)
  <2>1. s \in Nat
    BY DEF U!UploadsAssumption
  <2>2. QED
    BY <1>3, <2>1, LimitsAre DEF U!LetIn, U!Fits, U!Kinds
<1>6. Kept(r, f \in wiped)
  BY <1>0, <1>3, <1>4, <1>5 DEF Kept
<1>7. QED
  BY <1>1, <1>2, <1>6, BecomeKeeps

LEMMA FileStepKeeps ==
  ASSUME U!IInv, NEW f \in Files, U!check(f) \/ U!store(f) \/ U!catalog(f) \/ U!sendMessage(f) \/ U!remove(f)
  PROVE  U!IInv'
<1>1. Kept(file[f], f \in wiped)
  BY FilesSplit
<1>2. PICK r : U!Become(f, r) /\ Kept(r, f \in wiped)
  <2>0. file[f] \in Uploaded
    BY <1>1 DEF Kept
  <2>1. CASE U!check(f)
    <3>1. PICK r : U!Become(f, r) /\ r = [file[f] EXCEPT !.pc =
              IF IF file[f].way = "files" THEN U!Fits(file[f]) ELSE durable
              THEN "store" ELSE "refused"]
      BY <2>1 DEF U!check, U!Goto
    <3>2. U!LetIn(file[f].way, file[f].kind, file[f].size) /\ file[f].pc = "check"
      BY <1>1, <2>1 DEF Kept, U!check, U!At
    <3>3. /\ r \in Uploaded /\ r.way = file[f].way /\ r.kind = file[f].kind /\ r.size = file[f].size
          /\ r.long = file[f].long /\ r.stored = file[f].stored /\ r.sent = file[f].sent
          /\ r.catalogued = file[f].catalogued
          /\ r.pc = IF IF file[f].way = "files" THEN U!Fits(file[f]) ELSE durable THEN "store" ELSE "refused"
      BY <2>0, <3>1 DEF Uploaded, U!InFlight
    <3>4. U!Fits(r) <=> U!Fits(file[f])
      BY <3>3 DEF U!Fits
    <3>5. file[f].way # "files" => U!Fits(file[f])
      BY <2>0, <3>2, LimitsAre DEF U!LetIn, U!Fits, U!BANNER_MAX_SIZE, Uploaded
    <3>6. /\ r.pc = "store" \/ r.pc = "refused"
          /\ r.pc = "store" => U!Fits(r)
          /\ r.pc = "refused" /\ r.way = "files" => ~U!Fits(r)
      BY <3>3, <3>4, <3>5
    <3>7. r.stored => U!Fits(r)
      BY <1>1, <3>3, <3>4 DEF Kept
    <3>8. "answered" \in r.sent \/ r.catalogued => r.stored \/ f \in wiped
      BY <1>1, <3>3 DEF Kept
    <3>9. QED
      BY <3>1, <3>3, <3>6, <3>7, <3>8 DEF Kept
  <2>2. CASE U!store(f)
    <3>1. CASE U!Goto(f, "failed")
      BY <1>1, <2>0, <3>1, FailedKeeps
    <3>2. CASE U!Become(f, [file[f] EXCEPT !.stored = TRUE,
                                  !.pc = IF file[f].way = "files" THEN "answered" ELSE "catalog"])
      <4>1. PICK r : r = [file[f] EXCEPT !.stored = TRUE,
                 !.pc = IF file[f].way = "files" THEN "answered" ELSE "catalog"] /\ U!Become(f, r)
        BY <2>2, <3>2
      <4>2. r \in Uploaded /\ r.way = file[f].way /\ r.kind = file[f].kind /\ r.size = file[f].size /\ r.long = file[f].long
             /\ r.stored /\ r.pc \in {"answered", "catalog"}
        BY <2>0, <4>1 DEF Uploaded, U!InFlight
      <4>3. QED
        BY <1>1, <2>2, <3>2, <4>1, <4>2 DEF Kept, U!Fits, U!At, U!store
    <3>3. QED
      BY <2>2, <3>1, <3>2 DEF U!store
  <2>3. CASE U!catalog(f)
    <3>1. CASE U!Goto(f, "failed")
      BY <1>1, <2>0, <3>1, FailedKeeps
    <3>2. CASE U!Become(f, [file[f] EXCEPT !.catalogued = TRUE, !.pc = "answered"])
      <4>1. PICK r : r = [file[f] EXCEPT !.catalogued = TRUE, !.pc = "answered"] /\ U!Become(f, r)
        BY <2>3, <3>2
      <4>2. r \in Uploaded /\ r.way = file[f].way /\ r.kind = file[f].kind /\ r.size = file[f].size /\ r.long = file[f].long
             /\ r.stored = file[f].stored /\ r.pc = "answered"
        BY <2>0, <4>1 DEF Uploaded, U!InFlight
      <4>3. QED
        BY <1>1, <2>3, <3>2, <4>1, <4>2 DEF Kept, U!Fits, U!At, U!catalog
    <3>3. QED
      BY <2>3, <3>1, <3>2 DEF U!catalog
  <2>4. CASE U!sendMessage(f)
    <3>0. PICK url \in {"answered", "made up"} :
            /\ url = "answered" => U!At(f, "answered")
            /\ U!Become(f, [file[f] EXCEPT !.sent = @ \cup {url}])
      BY <2>4 DEF U!sendMessage
    <3>1. PICK r : r = [file[f] EXCEPT !.sent = @ \cup {url}] /\ U!Become(f, r)
      BY <3>0
    <3>2. r \in Uploaded /\ r.way = file[f].way /\ r.kind = file[f].kind /\ r.size = file[f].size /\ r.long = file[f].long
           /\ r.stored = file[f].stored /\ r.pc = file[f].pc /\ r.catalogued = file[f].catalogued
           /\ r.sent = file[f].sent \cup {url}
      BY <2>0, <3>0, <3>1 DEF Uploaded, U!InFlight
    <3>3. QED
      BY <1>1, <3>0, <3>1, <3>2 DEF Kept, U!Fits, U!At
  <2>5. CASE U!remove(f)
    <3>1. PICK r : r = [file[f] EXCEPT !.catalogued = FALSE] /\ U!Become(f, r)
      BY <2>5 DEF U!remove
    <3>2. r \in Uploaded /\ r.way = file[f].way /\ r.kind = file[f].kind /\ r.size = file[f].size /\ r.long = file[f].long
           /\ r.stored = file[f].stored /\ r.pc = file[f].pc /\ r.sent = file[f].sent /\ ~r.catalogued
      BY <2>0, <3>1 DEF Uploaded, U!InFlight
    <3>3. QED
      BY <1>1, <2>5, <3>1, <3>2 DEF Kept, U!Fits, U!At, U!remove
  <2>6. QED
    BY <2>1, <2>2, <2>3, <2>4, <2>5
<1>3. QED
  BY <1>2, BecomeKeeps

LEMMA AvatarKeeps ==
  ASSUME U!IInv, NEW p \in Procs, U!uploadAvatar(p) \/ U!uploadImage(p) \/ U!updateAvatar(p)
  PROVE  U!IInv'
<1>1. UNCHANGED <<durable, file, wiped>>
  BY DEF U!uploadAvatar, U!uploadImage, U!updateAvatar
<1>2. Avatars /\ DOMAIN file = Files /\ file = [f \in Files |-> file[f]] /\ \A f \in Files : Kept(file[f], f \in wiped)
  BY FilesSplit
<1>3. Avatars'
  <2>1. CASE U!uploadAvatar(p)
    BY <1>2, <2>1 DEF U!uploadAvatar, Avatars
  <2>2. CASE U!uploadImage(p)
    BY <1>2, <2>2 DEF U!uploadImage, Avatars, U!Idle
  <2>3. CASE U!updateAvatar(p)
    BY <1>2, <2>3 DEF U!updateAvatar, Avatars, U!Idle
  <2>4. QED
    BY <2>1, <2>2, <2>3
<1>4. QED
  BY <1>1, <1>2, <1>3, FilesSplitNext

LEMMA RestartKeepsFiles == ASSUME U!IInv, U!Restart PROVE U!IInv'
<1>1. Avatars /\ \A f \in Files : Kept(file[f], f \in wiped)
  BY FilesSplit
<1>2. Avatars'
  <2>1. req' \in [Procs -> [pc : {"idle", "image", "row"}, version : Nat]] /\ \A p \in Procs : req'[p].version = 0
    BY DEF U!Restart, U!Idle
  <2>2. durable' = durable /\ wiped' \subseteq Files /\ (durable => wiped' = wiped)
    BY <1>1 DEF U!Restart, Avatars
  <2>3. QED
    <3>1. object' = object /\ avatar' = avatar
      BY DEF U!Restart
    <3>2. \A p \in Procs : req'[p].version <= object
      BY <1>1, <2>1 DEF Avatars
    <3>3. durable \in BOOLEAN /\ (durable => wiped = {}) /\ object \in Nat /\ avatar \in Nat /\ avatar <= object
      BY <1>1 DEF Avatars
    <3>4. QED
      BY <2>1, <2>2, <3>1, <3>2, <3>3 DEF Avatars
<1>3. DOMAIN file' = Files /\ file' = [f \in Files |-> file'[f]]
  BY DEF U!Restart
<1>4. ASSUME NEW f \in Files PROVE Kept(file'[f], f \in wiped')
  <2>1. file'[f] = [file[f] EXCEPT !.pc = IF @ \in U!InFlight THEN "failed" ELSE @, !.stored = durable /\ @]
    BY DEF U!Restart
  <2>2. Kept(file[f], f \in wiped) /\ file[f] \in Uploaded
    BY <1>1 DEF Kept
  <2>3. durable \in BOOLEAN /\ (f \in wiped' <=> f \in wiped \/ (~durable /\ file[f].stored))
    BY <1>1 DEF U!Restart, Avatars
  <2>4. QED
    BY <2>1, <2>2, <2>3 DEF Kept, Uploaded, U!InFlight, U!Fits
<1>5. QED
  BY <1>2, <1>3, <1>4, FilesSplitNext

\* A row's URL is of something stored, and what is stored fits.
LEMMA UploadsAreSound == ASSUME U!UploadsAssumption PROVE U!Spec => []U!UploadsSound
<1>1. U!Init => U!IInv
  <2> SUFFICES ASSUME U!Init
               PROVE  /\ Avatars /\ DOMAIN file = Files /\ file = [f \in Files |-> file[f]]
                      /\ \A f \in Files : Kept(file[f], f \in wiped)
    BY FilesSplit
  <2>1. U!NoFile \in Uploaded /\ U!NoFile.pc = "none" /\ ~U!NoFile.stored /\ U!NoFile.sent = {} /\ ~U!NoFile.catalogued
    BY DEF U!NoFile, Uploaded, U!Ways, U!Kinds
  <2>2. QED
    BY <2>1 DEF U!Init, Avatars, U!Idle, Kept
<1>2. U!IInv /\ [U!Next]_U!vars => U!IInv'
  <2> SUFFICES ASSUME U!IInv, [U!Next]_U!vars PROVE U!IInv'
    OBVIOUS
  <2>1. CASE UNCHANGED U!vars
    BY <2>1 DEF U!vars, U!IInv, U!TypeOK, U!StoredFirst, U!UploadsSound, U!NothingDangles, U!StoredFits, U!At
  <2>2. QED
    BY <2>1, multerKeeps, FileStepKeeps, AvatarKeeps, RestartKeepsFiles DEF U!Next
<1>3. QED
  BY <1>1, <1>2, PTL DEF U!Spec, U!IInv

-----------------------------------------------------------------------------
(* The composition does what each part does on its own.                      *)

LEMMA PartsOfServer == EitherSpec => P!Spec /\ N!Init /\ [][N!Next]_(N!vars) /\ U!Spec
<1>1. EitherInit => P!Init /\ N!Init /\ U!Init
  BY DEF EitherInit
<1>2. [EitherNext]_<<part, vars, online, notices, uploads>> =>
        [P!Next]_(P!vars) /\ [N!Next]_(N!vars) /\ [U!Next]_(U!vars)
  BY DEF EitherNext, online, notices, uploads, P!vars, N!vars, U!vars
<1>3. QED
  BY <1>1, <1>2, PTL DEF EitherSpec, P!Spec, U!Spec

\* For any users and any sockets of theirs: what clients were last told of a user is
\* whether a socket of theirs is connected, unless a restart forgot them.
THEOREM PresenceIsTold == EitherSpec => []PresenceTold
<1>1. P!PresenceTold => PresenceTold
  BY DEF PresenceTold
<1>2. QED
  BY <1>1, PartsOfServer, PresenceSound, ServerAssumption, PTL

\* The first half of HouseKept, for any users, sources and rows: whoever is told of
\* something has a row of it, and so has everybody else it is for.
THEOREM NoticesAreKept == EitherSpec => []N!ToldIsKept
BY PartsOfServer, NoticesSound, PTL

\* For any files, sizes and uploads of avatars: no row has an answered URL of what was
\* never stored, what is stored is within the limits of its kind, and what the chat
\* refused was not.
THEOREM NoRowDangles == EitherSpec => []UploadsSound
<1>1. U!UploadsSound => UploadsSound
  BY DEF UploadsSound
<1>2. QED
  BY <1>1, PartsOfServer, UploadsAreSound, ServerAssumption, PTL

=============================================================================
