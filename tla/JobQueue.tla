------------------------------- MODULE JobQueue -------------------------------
(***************************************************************************)
(* jobs/queue.ts: the in-process job queue with retry.                     *)
(*                                                                         *)
(* JavaScript runs to completion: enqueue, a timer and the continuation of *)
(* an awaited handler each run the process() loop up to its next await,    *)
(* which is the next job that has a handler, or to the end of the queue.   *)
(* Each is one action here, with that whole run of the loop (Drain) in it. *)
(***************************************************************************)
EXTENDS Integers, Sequences

CONSTANTS
  Jobs,         \* the jobs ever enqueued: each has an id of its own
  Names,        \* job names
  NameOf,       \* the name each job is enqueued under
  MaxAttempts,  \* the maxAttempts each job is enqueued with
  NoJob

ASSUME JobsAssumption ==
  /\ NameOf \in [Jobs -> Names]
  /\ MaxAttempts \in [Jobs -> Int]
  /\ NoJob \notin Jobs

VARIABLES
  handlers,   \* the names that have a handler
  queue,      \* jobs to run, oldest first
  processing, \* the flag that keeps a second process() loop out
  current,    \* the job whose handler is awaited
  timers,     \* jobs waiting out their backoff
  attempts,   \* attempts made on each job
  outcome     \* what became of each job

vars == <<handlers, queue, processing, current, timers, attempts, outcome>>

Init ==
  /\ handlers = {}
  /\ queue = <<>>
  /\ processing = FALSE
  /\ current = NoJob
  /\ timers = {}
  /\ attempts = [j \in Jobs |-> 0]
  /\ outcome = [j \in Jobs |-> "none"]

register(name) ==
  /\ handlers' = handlers \union {name}
  /\ UNCHANGED <<queue, processing, current, timers, attempts, outcome>>

HasHandler(j) == NameOf[j] \in handlers

\* The loop over the queue q stops at index k: at the first job that has a
\* handler, or past the end.
StopsAt(q, k) ==
  /\ \A i \in 1..(k - 1) : ~HasHandler(q[i])
  /\ k <= Len(q) => HasHandler(q[k])

Dropped(q, k) == {q[i] : i \in 1..(k - 1)}

\* The jobs before k are dropped with a warning; the one at k is shifted off
\* and its handler called.
Start(q, k, out) ==
  /\ current' = IF k <= Len(q) THEN q[k] ELSE NoJob
  /\ queue' = SubSeq(q, k + 1, Len(q))
  /\ attempts' = IF k <= Len(q) THEN [attempts EXCEPT ![q[k]] = @ + 1] ELSE attempts
  /\ outcome' = [j \in Jobs |-> IF j \in Dropped(q, k) THEN "dropped" ELSE out[j]]

\* Seeded fault: the loop ends without lowering its flag.
Fault_Drain_FlagStaysUp(q, out) ==
  \E k \in 1..(Len(q) + 1) :
    StopsAt(q, k) /\ Start(q, k, out) /\ processing' = TRUE

\* One run of the while loop over the queue q, the outcomes so far being out.
Drain(q, out) ==
  \E k \in 1..(Len(q) + 1) :
    StopsAt(q, k) /\ Start(q, k, out) /\ processing' = (k <= Len(q))

\* queue.push(job) and a call of process(), which returns at once when another
\* run of the loop is awaiting a handler.
PushAndProcess(j, out) ==
  IF processing
  THEN /\ queue' = Append(queue, j)
       /\ outcome' = out
       /\ UNCHANGED <<processing, current, attempts>>
  ELSE Drain(Append(queue, j), out)

enqueue(j) ==
  /\ outcome[j] = "none"
  /\ PushAndProcess(j, [outcome EXCEPT ![j] = "open"])
  /\ UNCHANGED <<handlers, timers>>

HandlerResolves ==
  /\ current # NoJob
  /\ Drain(queue, [outcome EXCEPT ![current] = "done"])
  /\ UNCHANGED <<handlers, timers>>

\* Seeded fault: one attempt too many (<= for <).
Fault_HandlerRejects_OneTooMany ==
  /\ current # NoJob
  /\ IF attempts[current] <= MaxAttempts[current]
     THEN timers' = timers \union {current} /\ Drain(queue, outcome)
     ELSE timers' = timers /\ Drain(queue, [outcome EXCEPT ![current] = "failed"])
  /\ UNCHANGED handlers

HandlerRejects ==
  /\ current # NoJob
  /\ IF attempts[current] < MaxAttempts[current]
     THEN timers' = timers \union {current} /\ Drain(queue, outcome)
     ELSE timers' = timers /\ Drain(queue, [outcome EXCEPT ![current] = "failed"])
  /\ UNCHANGED handlers

\* Seeded fault: the backoff timer pushes the job and does not call process().
Fault_BackoffEnds_NoProcess(j) ==
  /\ j \in timers
  /\ timers' = timers \ {j}
  /\ queue' = Append(queue, j)
  /\ UNCHANGED <<handlers, processing, current, attempts, outcome>>

\* The timer of a retry fires.  Delays differ, so timers fire in any order.
BackoffEnds(j) ==
  /\ j \in timers
  /\ timers' = timers \ {j}
  /\ PushAndProcess(j, outcome)
  /\ UNCHANGED handlers

\* The process ends: the queue, its timers and its handlers were in memory.
Restart ==
  /\ handlers' = {} /\ queue' = <<>> /\ processing' = FALSE
  /\ current' = NoJob /\ timers' = {}
  /\ outcome' = [j \in Jobs |-> IF outcome[j] = "open" THEN "lost" ELSE outcome[j]]
  /\ UNCHANGED attempts

Settle == HandlerResolves \/ HandlerRejects

Next ==
  \/ \E name \in Names : register(name)
  \/ \E j \in Jobs : enqueue(j) \/ BackoffEnds(j)
  \/ HandlerResolves
  \/ HandlerRejects
  \/ Restart

Spec == Init /\ [][Next]_vars

\* Timers fire and handlers settle; nothing makes a producer enqueue.
FairSpec ==
  Spec /\ WF_vars(Settle) /\ \A j \in Jobs : WF_vars(BackoffEnds(j))

-----------------------------------------------------------------------------

Queued == {queue[i] : i \in DOMAIN queue}

Outcomes == {"none", "open", "done", "failed", "dropped", "lost"}

TypeOK ==
  /\ handlers \subseteq Names
  /\ queue \in Seq(Jobs)
  /\ processing \in BOOLEAN
  /\ current \in Jobs \union {NoJob}
  /\ timers \subseteq Jobs
  /\ attempts \in [Jobs -> Nat]
  /\ outcome \in [Jobs -> Outcomes]

\* No wake-up is lost: work in the queue always has a loop that will reach it,
\* and that loop is at an await, whatever the interleaving of enqueues, timers
\* and settling handlers around the processing flag.
QueueAttended == processing = (current # NoJob) /\ (queue # <<>> => processing)

\* An open job is in exactly one place, once: queued, running or backing off;
\* a job that was settled is in none.  A retry never runs a job twice at a time.
InOnePlace ==
  /\ \A i, k \in DOMAIN queue : queue[i] = queue[k] => i = k
  /\ Queued \intersect timers = {}
  /\ current \notin Queued \union timers
  /\ \A j \in Jobs : outcome[j] = "open" <=> j \in Queued \union timers \union {current}

\* A job is attempted at most maxAttempts times, and once even if that is zero
\* or negative; it is given up on only when the attempts are spent.
AttemptsBounded ==
  \A j \in Jobs :
    /\ attempts[j] <= 1 \/ attempts[j] <= MaxAttempts[j]
    /\ outcome[j] = "failed" => attempts[j] >= MaxAttempts[j]
    /\ j \in timers => attempts[j] < MaxAttempts[j]

\* What waits is attended to, what is open is in one place, and nothing is tried
\* more often than it may be.
JobsTended == QueueAttended /\ InOnePlace /\ AttemptsBounded

\* Why AttemptsBounded holds: only a job whose attempts are not spent waits
\* for another one, and a job was attempted if it runs.
AttemptsLeft ==
  \A j \in Jobs :
    /\ j \in Queued \union timers => attempts[j] = 0 \/ attempts[j] < MaxAttempts[j]
    /\ outcome[j] = "none" => attempts[j] = 0

IInv == TypeOK /\ QueueAttended /\ InOnePlace /\ AttemptsBounded /\ AttemptsLeft

\* How a producer sees a job.
Phase(j) == IF j = current THEN "running" ELSE IF outcome[j] = "open" THEN "waiting" ELSE outcome[j]

Board == INSTANCE JobBoard WITH phase <- [j \in Jobs |-> Phase(j)], tries <- attempts

\* The queue, its flag, its loop and its timers are as good as a board on which
\* each job moves by itself: it is run once at a time and so often as it may,
\* and what has come to an end is never taken up again.
KeepsPromise == Board!Spec

\* Every job that is enqueued is run to a result, given up on, dropped for
\* want of a handler, or lost with the process.
JobsSettle == \A j \in Jobs : outcome[j] = "open" ~> outcome[j] # "open"

=============================================================================
