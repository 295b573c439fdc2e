------------------------------ MODULE MCSupport ------------------------------
(* A customer's conversation and what is kept beside it, for TLC: messages   *)
(* and the state of the thread (Messenger), the customer's file              *)
(* (CustomerFile), what they have read (ReadMarks), and what open screens    *)
(* show of it (Screens).  None decides by another's rows, so a behaviour     *)
(* exercises one of them.                                                    *)
EXTENDS Messenger, TLC

CONSTANTS
  Customers, Agents, Tags, Amounts, None, Take, MaxRows, MaxIds, \* of CustomerFile
  Limit, MaxMessages,                                            \* of ReadMarks
  Writers, Assignees, NoAgent                                    \* of Screens

VARIABLES
  part,  \* Messenger, CustomerFile, ReadMarks or Screens
  tags, assigned, ids, flips, note, ledger, balance, agents,  \* of CustomerFile
  thread, read, cleared, calls,                               \* of ReadMarks
  kind, row, screen, behind, writers                          \* of Screens

file == <<tags, assigned, ids, flips, note, ledger, balance, agents>>
marks == <<thread, read, cleared, calls>>
screens == <<kind, row, screen, behind, writers>>

\* Money in, and money out.
InAndOut == {1, -2}

F == INSTANCE CustomerFile WITH Users <- Customers, req <- agents
R == INSTANCE ReadMarks WITH req <- calls
V == INSTANCE Screens WITH Procs <- Writers, Agents <- Assignees, req <- writers

ASSUME SupportAssumption == F!CustomerFileAssumption /\ R!ReadMarksAssumption

EitherInit ==
  /\ part \in {"Messenger", "CustomerFile", "ReadMarks", "Screens"}
  /\ Init /\ F!Init /\ R!Init /\ V!Init
  /\ part # "Screens" => kind = "ticket"

EitherNext ==
  \/ part = "Messenger" /\ Next /\ UNCHANGED <<part, file, marks, screens>>
  \/ part = "CustomerFile" /\ F!Next /\ UNCHANGED <<part, vars, marks, screens>>
  \/ part = "ReadMarks" /\ R!Next /\ UNCHANGED <<part, vars, file, screens>>
  \/ part = "Screens" /\ V!Next /\ UNCHANGED <<part, vars, file, marks>>

EitherSpec == EitherInit /\ [][EitherNext]_<<part, vars, file, marks, screens>>

Symmetry == Permutations(Procs) \cup Permutations(Ids)

\* CustomerFile: every toggle of a tag that was answered counts, and the summary
\* of the ledger is that of its rows.
FileAgrees == part = "CustomerFile" => F!FileAgrees

\* ReadMarks: reading the thread clears the badge, up to what is listed at most.
ReadClears == part = "ReadMarks" => R!ReadClears

\* Screens: what the events made of an open screen is what is stored, unless two
\* writers overlapped.
ScreensFollow == part = "Screens" => V!ScreensFollow

=============================================================================
