----------------------------- MODULE MCAccounts ------------------------------
(* Accounts for TLC: how they come to be, the lock that guards a login, the *)
(* sessions, tokens and resets behind it (services/auth.service.ts), the    *)
(* history of sign-ins and the agents' links                                *)
(* (services/accountSecurity.service.ts).  None decides by another's rows,  *)
(* so a behaviour exercises one of them.                                    *)
EXTENDS Lockout, TLC

CONSTANTS
  Requests, \* in flight at one time, of Sessions, AgentLinks and Registration
  Tokens, Ids, ResetLinks, NoLink, MaxPasswords,              \* of Sessions
  Users, Addresses, Devices, Unknown, OwnTake, OtherTake, MaxRows, \* of LoginHistory
  Customers, Agents, None,                                    \* of AgentLinks
  Emails, Names, MailedLinks                                  \* of Registration

VARIABLES
  side,  \* Lockout, Sessions, LoginHistory, AgentLinks or Registration
  password, session, token, link, owed, sealed, requests,  \* of Sessions
  log,                                                     \* of LoginHistory
  door, away, agent, raced, claims,                        \* of AgentLinks
  accounts, verified, proof, mailed, opened, welcome, forms \* of Registration

behind == <<password, session, token, link, owed, sealed, requests>>
links == <<door, away, agent, raced, claims>>
newcomers == <<accounts, verified, proof, mailed, opened, welcome, forms>>

S == INSTANCE Sessions WITH Procs <- Requests, Links <- ResetLinks, req <- requests

H == INSTANCE LoginHistory

G == INSTANCE AgentLinks WITH Procs <- Requests, link <- door, req <- claims

R == INSTANCE Registration WITH
  Procs <- Requests, Links <- MailedLinks, link <- proof, req <- forms

ASSUME AccountsAssumption == S!SessionsAssumption

EitherInit ==
  /\ side \in {"Lockout", "Sessions", "LoginHistory", "AgentLinks", "Registration"}
  /\ Init /\ S!Init /\ H!Init /\ G!Init /\ R!Init

EitherNext ==
  \/ side = "Lockout" /\ Next /\ UNCHANGED <<side, behind, log, links, newcomers>>
  \/ side = "Sessions" /\ S!Next /\ UNCHANGED <<side, vars, log, links, newcomers>>
  \/ side = "LoginHistory" /\ H!Next /\ UNCHANGED <<side, vars, behind, links, newcomers>>
  \/ side = "AgentLinks" /\ G!Next /\ UNCHANGED <<side, vars, behind, log, newcomers>>
  \/ side = "Registration" /\ R!Next /\ UNCHANGED <<side, vars, behind, log, links>>

EitherSpec == EitherInit /\ [][EitherNext]_<<side, vars, behind, log, links, newcomers>>

Symmetry == Permutations(Requests)

\* Sessions: a new password logs everybody out but whom the code cannot reach.
OldPasswordOut == side = "Sessions" => S!OldPasswordOut

\* Sessions: a refresh token that was rotated is good for no other rotation.
RotatedOnce == side = "Sessions" => S!RotatedOnce

\* Sessions: a session that was logged out takes no more tokens.
EndedIsSealed == side = "Sessions" => S!EndedIsSealed

\* LoginHistory: accounts are reported as related for no more than they share,
\* and none that does is passed over while neither query is cut off.
SignalsSound == side = "LoginHistory" => H!SignalsSound

\* AgentLinks: an assignment is kept, but for claims that had read there was none.
AssignmentKept == side = "AgentLinks" => G!AssignmentKept

\* Registration: no two accounts share an address or a name, and an address is
\* verified by its own link, in time.
RegisteredSound == side = "Registration" => R!RegisteredSound

=============================================================================
