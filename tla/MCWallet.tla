------------------------------- MODULE MCWallet ------------------------------
(* The wallet (Rewards) and the figures staff look at (Reports), for TLC.    *)
(* Neither looks at the other, so a behaviour exercises one of them.         *)
EXTENDS MCRewards

CONSTANTS Reporters, Tickets, Days, Backlog, MaxTime  \* of Reports

VARIABLES
  part,                        \* Rewards or Reports
  ticket, clock, report, moved \* of Reports

reports == <<ticket, clock, report, moved>>

F == INSTANCE Reports WITH Procs <- Reporters, now <- clock, req <- report

\* What Reports assumes of its constants.
ASSUME WalletAssumption == F!ReportsAssumption

EitherInit == part \in {"Rewards", "Reports"} /\ Init /\ F!Init

EitherNext ==
  \/ part = "Rewards" /\ Next /\ UNCHANGED <<part, reports>>
  \/ part = "Reports" /\ F!Next /\ UNCHANGED <<part, vars>>

EitherSpec == EitherInit /\ [][EitherNext]_<<part, vars, reports>>

\* Reports: the figures that are shown are those of the tickets, and add up as far
\* as they were read together.
FiguresHold == part = "Reports" => F!FiguresHold

=============================================================================
