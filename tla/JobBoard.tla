------------------------------- MODULE JobBoard -------------------------------
(***************************************************************************)
(* What a queue of jobs promises those that enqueue, whatever it is made   *)
(* of ("the interface is the same one a distributed queue would expose",   *)
(* jobs/queue.ts): each job waits, is run, and comes to one end for good.  *)
(* One step may move several jobs.                                         *)
(***************************************************************************)
EXTENDS Integers

CONSTANTS Jobs, MaxAttempts

VARIABLES
  phase,  \* of each job
  tries   \* how often each was begun

Init ==
  /\ phase = [j \in Jobs |-> "none"]
  /\ tries = [j \in Jobs |-> 0]

Move(j, from, to) ==
  phase[j] \in from /\ phase'[j] = to

Rest(j) == Move(j, {phase[j]}, phase[j]) /\ tries'[j] = tries[j]
Accept(j) == Move(j, {"none"}, "waiting") /\ tries'[j] = tries[j]

\* Begun at most MaxAttempts times, but once in any case.
Run(j) ==
  /\ Move(j, {"none", "waiting"}, "running")
  /\ tries[j] = 0 \/ tries[j] < MaxAttempts[j]
  /\ tries'[j] = tries[j] + 1

Drop(j) == Move(j, {"none", "waiting"}, "dropped") /\ tries'[j] = tries[j]
Finish(j) == Move(j, {"running"}, "done") /\ tries'[j] = tries[j]
Retry(j) == Move(j, {"running"}, "waiting") /\ tries[j] < MaxAttempts[j] /\ tries'[j] = tries[j]
GiveUp(j) == Move(j, {"running"}, "failed") /\ tries[j] >= MaxAttempts[j] /\ tries'[j] = tries[j]
Lose(j) == Move(j, {"waiting", "running"}, "lost") /\ tries'[j] = tries[j]

\* One job runs at a time.
Next ==
  /\ \A j \in Jobs :
       Rest(j) \/ Accept(j) \/ Run(j) \/ Drop(j) \/ Finish(j) \/ Retry(j) \/ GiveUp(j) \/ Lose(j)
  /\ \A i, j \in Jobs : phase'[i] = "running" /\ phase'[j] = "running" => i = j

Spec == Init /\ [][Next]_<<phase, tries>>

=============================================================================
