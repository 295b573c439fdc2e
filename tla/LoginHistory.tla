---------------------------- MODULE LoginHistory ----------------------------
(***************************************************************************)
(* services/accountSecurity.service.ts: the sign-ins that are kept, and    *)
(* the accounts that are reported to an agent for sharing their origins.   *)
(* The two queries behind a report take a limited number of rows in no     *)
(* order: which ones is the database's choice.                             *)
(***************************************************************************)
EXTENDS Integers, FiniteSets, Bags

CONSTANTS
  Users,
  Addresses,
  Devices,   \* the labels of describeDevice
  Unknown,   \* no address, or no user agent
  OwnTake,   \* the 200 rows of the account in question
  OtherTake, \* and the 500 of all others
  MaxRows    \* bound on the sign-ins

VARIABLE log \* the rows: how many there are of each kind

Row == [user : Users, ip : Addresses \cup {Unknown}, device : Devices \cup {Unknown}]

Init == log = EmptyBag

\* Only a login that succeeds is recorded, and only if the database takes the
\* row: the login does not wait for that, and does not fail with it.
recordLogin(r) ==
  \/ BagCardinality(log) < MaxRows /\ log' = log (+) SetToBag({r})
  \/ UNCHANGED log

Next == \E r \in Row : recordLogin(r)

Spec == Init /\ [][Next]_log

-----------------------------------------------------------------------------

\* Those rows of the log that are in the set S, as often as each is there.
RowsOf(S) == [r \in BagToSet(log) \cap S |-> log[r]]

\* The different rows that a query over these, limited to n, may return.
Taken(rows, n) ==
  IF BagCardinality(rows) <= n THEN {DOMAIN rows}
  ELSE {S \in SUBSET DOMAIN rows :
         Cardinality(S) <= n /\ BagCardinality([r \in S |-> rows[r]]) >= n}

OwnRows(u) == RowsOf({r \in Row : r.user = u})

Known(values) == values \ {Unknown}
Ips(rows) == Known({r.ip : r \in rows})
DevicesOf(rows) == Known({r.device : r \in rows})

\* Seeded fault: the account's own rows overlap too.
Fault_Overlapping_Itself(u, own) ==
  RowsOf({r \in Row : r.ip \in Ips(own)})

Overlapping(u, own) ==
  RowsOf({r \in Row : r.user # u /\ r.ip \in Ips(own)})

Confidence(ips, devices) ==
  IF devices > 0 /\ ips >= 2 THEN "high"
  ELSE IF devices > 0 \/ ips >= 3 THEN "medium" ELSE "low"

\* What is reported of each account that has a row among those taken.
Report(own, others) ==
  [v \in {r.user : r \in others} |->
    LET rows == {r \in others : r.user = v}
        ips == Cardinality(Ips(rows))
        devices == Cardinality(DevicesOf(rows) \cap DevicesOf(own))
    IN [ips |-> ips, devices |-> devices, confidence |-> Confidence(ips, devices)]]

\* Every answer there may be, as the rows happen to be taken.
findRelatedAccounts(u) ==
  UNION {{Report(own, others) : others \in Taken(Overlapping(u, own), OtherTake)} :
         own \in Taken(OwnRows(u), OwnTake)}

-----------------------------------------------------------------------------

\* The addresses and devices two accounts really share, over every row.
SharedIps(u, v) == Ips(DOMAIN OwnRows(u)) \cap Ips(DOMAIN OwnRows(v))
SharedDevices(u, v) == DevicesOf(DOMAIN OwnRows(u)) \cap DevicesOf(DOMAIN OwnRows(v))

\* A report on u that has read every row there is.
Uncut(u) ==
  LET own == OwnRows(u) IN
  /\ BagCardinality(own) <= OwnTake
  /\ BagCardinality(Overlapping(u, DOMAIN own)) <= OtherTake

Grade == [low |-> 1, medium |-> 2, high |-> 3]

\* "signals, not verdicts": whatever rows are taken, an account is reported for
\* an address it does share, and with no more of them, of devices and of
\* confidence than every row together would justify.  And while neither query is
\* cut off, every account that shares an address is reported, with all of them.
SignalsSound ==
  \A u \in Users : \A answer \in findRelatedAccounts(u) :
    /\ \A v \in DOMAIN answer :
         LET ips == Cardinality(SharedIps(u, v))
             devices == Cardinality(SharedDevices(u, v)) IN
         /\ v # u /\ answer[v].ips \in 1..ips /\ answer[v].devices <= devices
         /\ Grade[answer[v].confidence] <= Grade[Confidence(ips, devices)]
    /\ Uncut(u) =>
         \A v \in Users \ {u} :
           SharedIps(u, v) # {} => v \in DOMAIN answer /\ answer[v].ips = Cardinality(SharedIps(u, v))

\* What an agent who looks from the other side would expect.
SeenFromBothSides ==
  \A u, v \in Users : \A answer \in findRelatedAccounts(u), back \in findRelatedAccounts(v) :
    v \in DOMAIN answer /\ u \in DOMAIN back => answer[v].confidence = back[u].confidence

(* Why they are sound: a query takes some of the rows there are, and these  *)
(* are from finitely many addresses and devices.                           *)

IInv ==
  /\ DOMAIN log \subseteq Row
  /\ IsFiniteSet(Ips(DOMAIN log)) /\ IsFiniteSet(DevicesOf(DOMAIN log))

=============================================================================
