------------------------------ MODULE MCServer -------------------------------
(* One server process, for TLC: the queue of jobs (JobQueue) and who is      *)
(* connected (Presence), which it keeps in its memory; what it notifies and  *)
(* the tasks its scheduler runs by their timers (Notices); and the files     *)
(* that are uploaded to it (Uploads).  None looks at another, so a behaviour *)
(* exercises one of them.                                                    *)
EXTENDS JobQueue, TLC

CONSTANTS
  Users, Sockets, Owner, Threads,          \* of Presence
  Sources, Refreshes, Verifications,       \* of Notices
  Files, Procs, Sizes, MaxAvatars          \* of Uploads

VARIABLES
  part,  \* JobQueue, Presence, Notices or Uploads
  staff, socket, presence, told, rooms, lost,        \* of Presence
  notice, old, token, source, pushed, task,          \* of Notices
  durable, file, wiped, object, avatar, req          \* of Uploads

online == <<staff, socket, presence, told, rooms, lost>>
notices == <<notice, old, token, source, pushed, task>>
uploads == <<durable, file, wiped, object, avatar, req>>

P == INSTANCE Presence

N == INSTANCE Notices WITH req <- source, told <- pushed

U == INSTANCE Uploads

\* What each part assumes of its constants.
ASSUME ServerAssumption == P!PresenceAssumption /\ U!UploadsAssumption

EitherInit ==
  /\ part \in {"JobQueue", "Presence", "Notices", "Uploads"}
  /\ Init /\ P!Init /\ N!Init /\ U!Init
  /\ part # "Presence" => staff = {}
  /\ part # "Uploads" => durable

EitherNext ==
  \/ part = "JobQueue" /\ Next /\ UNCHANGED <<part, online, notices, uploads>>
  \/ part = "Presence" /\ P!Next /\ UNCHANGED <<part, vars, notices, uploads>>
  \/ part = "Notices" /\ N!Next /\ UNCHANGED <<part, vars, online, uploads>>
  \/ part = "Uploads" /\ U!Next /\ UNCHANGED <<part, vars, online, notices>>

\* As fair as JobQueue's FairSpec, and as Notices' Fairness where that is what
\* runs: of the others nothing has to happen.
EitherSpec ==
  /\ EitherInit /\ [][EitherNext]_<<part, vars, online, notices, uploads>>
  /\ WF_vars(Settle) /\ \A j \in Jobs : WF_vars(BackoffEnds(j))
  /\ \A t \in N!Tasks :
       /\ WF_notices(part = "Notices" /\ N!Tick(t))
       /\ SF_notices(part = "Notices" /\ N!deleteMany(t))

\* Presence: what clients were told of who is online is so, but for those whom a
\* restart forgot.
PresenceTold == P!PresenceTold

\* Notices: nobody is told of a notification that was not kept, and the rows that
\* expired are deleted in the end.
HouseKept == N!HouseKept

\* Uploads: no row has a URL that was answered for a file never stored; what is stored
\* is within the limits of its kind, and what the chat refused was not.
UploadsSound == U!UploadsSound

-----------------------------------------------------------------------------
(* What TLC is given.                                                        *)

CONSTANTS j1, j2, j3, mail, sweep, ann, bob, s1, s2, s3

NamesOfJobs == j1 :> mail @@ j2 :> sweep @@ j3 :> mail

\* The default, a single attempt, and a limit of zero.
Limits == j1 :> 3 @@ j2 :> 2 @@ j3 :> 0

\* Two tabs of one user, and one of another.
OwnerOfSockets == s1 :> ann @@ s2 :> ann @@ s3 :> bob

=============================================================================
