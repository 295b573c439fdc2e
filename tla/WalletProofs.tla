---------------------------- MODULE WalletProofs ----------------------------
(***************************************************************************)
(* Theorems about Rewards.tla for every set of users, slots and items and  *)
(* every configuration of the wheel, the ladder and the store; and, as     *)
(* MCWallet composes it with them, about the figures of Reports.tla.       *)
(***************************************************************************)
EXTENDS MCWallet, FiniteSetTheorems, NaturalsInduction, WellFoundedInduction, TLAPS

\* A step that only replaces p's record keeps the tables well formed.
LEMMA AdvanceType ==
  ASSUME TypeOK, NEW p \in Procs, NEW r \in {Idle} \union Active, Advance(p, r)
  PROVE  TypeOK' /\ req'[p] = r /\ \A q \in Procs \ {p} : req'[q] = req[q]
BY DEF TypeOK, Advance, Active, Idle

LEMMA BeginType ==
  ASSUME TypeOK, NEW p \in Procs, NEW r \in Active, Begin(p, r)
  PROVE  TypeOK' /\ req'[p] = r /\ \A q \in Procs \ {p} : req'[q] = req[q]
BY DEF TypeOK, Begin, Active, Idle

\* A request in flight has a full record.
LEMMA ActiveRecord ==
  ASSUME TypeOK, NEW p \in Procs, req[p].pc # "idle"
  PROVE  req[p] \in Active
BY DEF TypeOK, Idle

LEMMA RequestType ==
  ASSUME TypeOK, NEW u \in Users, NEW op \in {"spin", "claim", "redeem"}
  PROVE  Request(op, u, "read") \in Active
<1>1. Len(ledger[u]) \in Nat /\ today \in 0..today
  BY ConfigAssumption DEF TypeOK
<1>2. QED
  BY <1>1 DEF Request, Active

LEMMA AppendType ==
  ASSUME NEW S, NEW s \in Seq(S), NEW e \in S
  PROVE  Append(s, e) \in Seq(S)
OBVIOUS

LEMMA LedgerFacts ==
  ASSUME TypeOK, NEW u \in Users
  PROVE  /\ ledger[u] \in Seq(LedgerRow) /\ Len(ledger[u]) \in Nat
         /\ \A k \in 1..Len(ledger[u]) :
              ledger[u][k].balanceAfter \in Nat /\ ledger[u][k].began \in Nat
<1>1. ledger[u] \in Seq(LedgerRow)
  BY DEF TypeOK
<1>2. Len(ledger[u]) \in Nat /\ \A k \in 1..Len(ledger[u]) : ledger[u][k] \in LedgerRow
  BY <1>1
<1>3. \A row \in LedgerRow : row.balanceAfter \in Nat /\ row.began \in Nat
  BY DEF LedgerRow
<1>4. QED
  BY <1>1, <1>2, <1>3

\* A post keeps the wallet and the ledger well formed.
LEMMA PostType ==
  ASSUME TypeOK, NEW u \in Users, NEW b \in Nat, NEW a \in Int,
         NEW reason \in {"WHEEL_SPIN", "DAILY_LOGIN", "STORE_REDEMPTION"},
         NEW ref \in Nat \union Items, NEW g \in Nat, Post(u, g, b, a, reason, ref)
  PROVE  balance' \in [Users -> Nat] /\ ledger' \in [Users -> Seq(LedgerRow)]
<1> DEFINE row == [amount |-> a, balanceAfter |-> b, reason |-> reason, ref |-> ref, began |-> g]
<1>1. row \in LedgerRow
  BY DEF LedgerRow
<1>2. ledger' = [ledger EXCEPT ![u] = Append(@, row)]
  BY DEF Post
<1>3. Append(ledger[u], row) \in Seq(LedgerRow)
  BY <1>1 DEF TypeOK
<1> HIDE DEF row
<1>4. QED
  BY <1>2, <1>3 DEF TypeOK, Post

-----------------------------------------------------------------------------
(* Type correctness. *)

\* The three commits are the only steps that write the tables.
LEMMA CommitSpinType ==
  ASSUME TypeOK, Steps, NEW p \in Procs, CommitSpin(p)
  PROVE  TypeOK'
<1> DEFINE r == req[p]
<1>1. r \in Active /\ StepOK(r)
  BY ActiveRecord DEF CommitSpin, At, Steps
<1>2. r.user \in Users /\ r.segment \in Segments /\ r.amount \in Int /\ r.day \in Nat
      /\ r.amount = r.segment.coins /\ (r.amount > 0 => r.newBalance \in Nat) /\ r.began \in Nat
  BY <1>1, ConfigAssumption DEF CommitSpin, At, StepOK, Active, TypeOK
<1>3. Len(spins[r.user]) + 1 \in Nat
  BY <1>2 DEF TypeOK
<1>4. balance' \in [Users -> Nat] /\ ledger' \in [Users -> Seq(LedgerRow)]
  <2>1. CASE r.amount > 0
    <3>1. Post(r.user, r.began, r.newBalance, r.amount, "WHEEL_SPIN", Len(spins[r.user]) + 1)
      BY <2>1 DEF CommitSpin, Award
    <3>2. QED
      BY <3>1, <2>1, <1>2, <1>3, PostType
  <2>2. CASE ~(r.amount > 0)
    BY <2>2 DEF CommitSpin, Award, TypeOK
  <2>3. QED
    BY <2>1, <2>2
<1>5. spins' \in [Users -> Seq([day : Nat, segment : Segments])]
  <2>1. [day |-> r.day, segment |-> r.segment] \in [day : Nat, segment : Segments]
    BY <1>2
  <2>2. spins[r.user] \in Seq([day : Nat, segment : Segments])
    BY <1>2 DEF TypeOK
  <2>3. Append(spins[r.user], [day |-> r.day, segment |-> r.segment]) \in Seq([day : Nat, segment : Segments])
    BY <2>1, <2>2, AppendType
  <2>4. QED
    BY <2>3, <1>2 DEF CommitSpin, RecordSpin, TypeOK
<1>6. req' \in [Procs -> {Idle} \union Active'] /\ UNCHANGED <<today, claims, redemptions, stock>>
      /\ wallets' \subseteq Users
  BY <1>2 DEF CommitSpin, Opened, TypeOK, Active
<1>7. QED
  BY <1>4, <1>5, <1>6 DEF TypeOK

LEMMA CommitClaimType ==
  ASSUME TypeOK, Steps, NEW p \in Procs, CommitClaim(p)
  PROVE  TypeOK'
<1> DEFINE r == req[p]
<1>1. r \in Active /\ StepOK(r)
  BY ActiveRecord DEF CommitClaim, At, Steps
<1>2. r.user \in Users /\ r.dayNumber \in 1..Len(DailyCoins) /\ r.amount \in Int /\ r.day \in Nat
      /\ (r.amount > 0 => r.newBalance \in Nat) /\ r.began \in Nat
  BY <1>1, ConfigAssumption DEF CommitClaim, At, StepOK, Active, TypeOK
<1>3. Len(claims[r.user]) + 1 \in Nat
  BY <1>2 DEF TypeOK
<1>4. balance' \in [Users -> Nat] /\ ledger' \in [Users -> Seq(LedgerRow)]
  <2>1. CASE r.amount > 0
    <3>1. Post(r.user, r.began, r.newBalance, r.amount, "DAILY_LOGIN", Len(claims[r.user]) + 1)
      BY <2>1 DEF CommitClaim, Award
    <3>2. QED
      BY <3>1, <2>1, <1>2, <1>3, PostType
  <2>2. CASE ~(r.amount > 0)
    BY <2>2 DEF CommitClaim, Award, TypeOK
  <2>3. QED
    BY <2>1, <2>2
<1>5. claims' \in [Users -> Seq([day : Nat, dayNumber : 1..Len(DailyCoins)])]
  <2>1. [day |-> r.day, dayNumber |-> r.dayNumber] \in [day : Nat, dayNumber : 1..Len(DailyCoins)]
    BY <1>2
  <2>2. claims[r.user] \in Seq([day : Nat, dayNumber : 1..Len(DailyCoins)])
    BY <1>2 DEF TypeOK
  <2>3. Append(claims[r.user], [day |-> r.day, dayNumber |-> r.dayNumber]) \in Seq([day : Nat, dayNumber : 1..Len(DailyCoins)])
    BY <2>1, <2>2, AppendType
  <2>4. QED
    BY <2>3, <1>2 DEF CommitClaim, RecordClaim, TypeOK
<1>6. req' \in [Procs -> {Idle} \union Active'] /\ UNCHANGED <<today, spins, redemptions, stock>>
      /\ wallets' \subseteq Users
  BY <1>2 DEF CommitClaim, Opened, TypeOK, Active
<1>7. QED
  BY <1>4, <1>5, <1>6 DEF TypeOK

LEMMA CommitRedeemType ==
  ASSUME TypeOK, Steps, NEW p \in Procs, CommitRedeem(p)
  PROVE  TypeOK'
<1> DEFINE r == req[p]
<1>1. r \in Active /\ StepOK(r)
  BY ActiveRecord DEF CommitRedeem, At, Steps
<1>2. r.user \in Users /\ r.item \in Items /\ r.amount \in Int /\ r.newBalance \in Nat
      /\ Price[r.item] \in Int /\ r.began \in Nat
  BY <1>1, ConfigAssumption DEF CommitRedeem, At, StepOK, Active, TypeOK
<1>3. Post(r.user, r.began, r.newBalance, r.amount, "STORE_REDEMPTION", r.item)
  BY DEF CommitRedeem
<1>4. balance' \in [Users -> Nat] /\ ledger' \in [Users -> Seq(LedgerRow)]
  BY <1>2, <1>3, PostType
<1>5. redemptions' \in [Users -> Seq([item : Items, price : Int])]
  <2>1. [item |-> r.item, price |-> Price[r.item]] \in [item : Items, price : Int]
    BY <1>2
  <2>2. redemptions[r.user] \in Seq([item : Items, price : Int])
    BY <1>2 DEF TypeOK
  <2>3. Append(redemptions[r.user], [item |-> r.item, price |-> Price[r.item]]) \in Seq([item : Items, price : Int])
    BY <2>1, <2>2, AppendType
  <2>4. QED
    BY <2>3, <1>2 DEF CommitRedeem, RecordRedemption, TypeOK
<1>6. req' \in [Procs -> {Idle} \union Active'] /\ UNCHANGED <<today, spins, claims>>
      /\ wallets' \subseteq Users
  BY <1>2 DEF CommitRedeem, Opened, TypeOK, Active
<1>7. stock' \in [DOMAIN InitStock -> Int]
  BY DEF CommitRedeem, TypeOK
<1>8. QED
  BY <1>4, <1>5, <1>6, <1>7 DEF TypeOK

\* What a request's own steps make of its record.
Local(p) == Read(p) \/ Wait(p) \/ Abort(p)

LEMMA LocalStep ==
  ASSUME TypeOK, Steps, NEW p \in Procs, Local(p)
  PROVE  \E r \in {Idle} \union Active : Advance(p, r) /\ (r.pc # "idle" => StepOK(r))
<1> DEFINE q == req[p]
           Good(r) == r \in {Idle} \union Active /\ (r.pc # "idle" => StepOK(r))
<1> SUFFICES \E r : Good(r) /\ Advance(p, r)
  OBVIOUS
<1>1. Good(Idle)
  BY DEF Idle
<1>2. q.pc # "idle" => q \in Active /\ StepOK(q)
  BY ActiveRecord DEF Steps
<1>3. CASE Throw(p)
  BY <1>1, <1>3 DEF Throw
<1>4. CASE PickSegment(p)
  <2>1. CASE \E s \in Segments :
               Advance(p, [req[p] EXCEPT !.pc = "insert", !.segment = s, !.amount = s.coins])
    <3>1. PICK s \in Segments : Advance(p, [q EXCEPT !.pc = "insert", !.segment = s, !.amount = s.coins])
      BY <2>1
    <3>2. Good([q EXCEPT !.pc = "insert", !.segment = s, !.amount = s.coins])
      BY <1>2, <1>4, ConfigAssumption DEF PickSegment, At, Active, StepOK
    <3>3. QED
      BY <3>1, <3>2
  <2>2. QED
    BY <1>3, <1>4, <2>1 DEF PickSegment
<1>5. CASE ReadDailyStatus(p)
  <2> DEFINE n == NextDayNumber(q.user)
  <2>1. CASE ~Throw(p)
    <3>1. n \in DOMAIN DailyCoins /\ Advance(p, [q EXCEPT !.pc = "insert", !.dayNumber = n, !.amount = DailyCoins[n]])
      BY <1>5, <2>1 DEF ReadDailyStatus
    <3>2. n \in 1..Len(DailyCoins) /\ n \in 0..Len(DailyCoins) /\ DailyCoins[n] \in Int
      BY <3>1, ConfigAssumption
    <3> HIDE DEF n
    <3> DEFINE r == [q EXCEPT !.pc = "insert", !.dayNumber = n, !.amount = DailyCoins[n]]
    <3>3. r \in Active
      BY <1>2, <1>5, <3>2 DEF ReadDailyStatus, At, Active
    <3>4. r.op = "claim" /\ r.pc = "insert" /\ r.dayNumber = n /\ r.amount = DailyCoins[n]
          /\ r.newBalance = Unapplied
      BY <1>2, <1>5, <3>2 DEF ReadDailyStatus, At, Active, StepOK
    <3> HIDE DEF r
    <3>5. StepOK(r)
      BY <3>2, <3>4 DEF StepOK
    <3>6. Advance(p, r)
      BY <3>1 DEF r
    <3>7. QED
      BY <3>3, <3>5, <3>6
  <2>2. QED
    BY <1>3, <2>1
<1>6. CASE ReadItem(p)
  <2>1. Good([q EXCEPT !.pc = "count"])
    BY <1>2, <1>6 DEF ReadItem, At, Active, StepOK
  <2>2. QED
    BY <1>3, <1>6, <2>1 DEF ReadItem
<1>7. CASE CountOwned(p)
  <2>1. Good([q EXCEPT !.pc = "wallet"])
    BY <1>2, <1>7 DEF CountOwned, At, Active, StepOK
  <2>2. QED
    BY <1>3, <1>7, <2>1 DEF CountOwned
<1>8. CASE InsertRow(p)
  <2>1. q.op \in {"spin", "claim"}
    BY <1>2, <1>8 DEF InsertRow, Active, StepOK
  <2>2. Good([q EXCEPT !.pc = IF q.amount > 0 THEN "wallet" ELSE "commit"])
    BY <1>2, <1>8, <2>1 DEF InsertRow, Active, StepOK
  <2>3. QED
    BY <1>3, <1>8, <2>2 DEF InsertRow
<1>9. ASSUME Compute(p), q.pc \in {"wallet", "open"}
      PROVE  \E r : Good(r) /\ Advance(p, r)
  <2> DEFINE b == balance[q.user] + q.amount
             r == [q EXCEPT !.newBalance = b, !.pc = "update"]
  <2>1. CASE b >= 0
    <3>1. b \in Nat /\ b # Unapplied
      BY <1>2, <1>9, <2>1, ConfigAssumption DEF Active, TypeOK
    <3>2. Advance(p, r)
      BY <1>9, <3>1 DEF Compute
    <3> HIDE DEF b
    <3>3. q.amount > 0 \/ q.op = "redeem"
      BY <1>2, <1>9 DEF Active, StepOK
    <3>4. Good(r)
      BY <1>2, <1>9, <3>1, <3>3 DEF Active, StepOK
    <3>5. QED
      BY <3>2, <3>4
  <2>2. CASE ~(b >= 0)
    <3>1. b \in Int
      BY <1>2, <1>9 DEF Active, TypeOK
    <3>2. QED
      BY <1>3, <1>9, <2>2, <3>1 DEF Compute
  <2>3. QED
    BY <2>1, <2>2
<1>10. CASE FindWallet(p)
  <2>1. Good([q EXCEPT !.pc = "open"])
    BY <1>2, <1>10 DEF FindWallet, Active, StepOK
  <2>2. QED
    BY <1>9, <1>10, <2>1 DEF FindWallet
<1>11. CASE OpenWallet(p)
  BY <1>3, <1>9, <1>11 DEF OpenWallet
<1>12. CASE UpdateWallet(p)
  <2>1. Good([q EXCEPT !.pc = IF q.op = "redeem" THEN "stock" ELSE "commit"])
    BY <1>2, <1>12 DEF UpdateWallet, Active, StepOK
  <2>2. QED
    BY <1>12, <2>1 DEF UpdateWallet
<1>13. CASE DecrementStock(p)
  <2>1. Good([q EXCEPT !.pc = "commit"])
    BY <1>2, <1>13 DEF DecrementStock, At, Active, StepOK
  <2>2. QED
    BY <1>13, <2>1 DEF DecrementStock
<1>14. QED
  BY <1>3, <1>4, <1>5, <1>6, <1>7, <1>8, <1>13, <1>10, <1>11, <1>12 DEF Local, Read, Wait, Abort

LEMMA ArriveStep ==
  ASSUME TypeOK, NEW p \in Procs, Arrive(p)
  PROVE  \E r \in Active : /\ Begin(p, r) /\ StepOK(r) /\ r.pc = "read"
                           /\ r.began = Len(ledger[r.user]) /\ r.newBalance = Unapplied
<1>1. PICK u \in Users : \/ StartSpin(p, u) \/ StartClaim(p, u)
                         \/ \E i \in Items : StartRedeem(p, u, i)
  BY DEF Arrive
<1>2. \A op \in {"spin", "claim", "redeem"} : Request(op, u, "read") \in Active
  BY RequestType
<1>3. CASE StartSpin(p, u)
  <2>1. StepOK(Request("spin", u, "read"))
    BY DEF Request, StepOK
  <2>2. QED
    BY <1>2, <1>3, <2>1 DEF StartSpin, Request
<1>4. CASE StartClaim(p, u)
  <2>1. StepOK(Request("claim", u, "read"))
    BY DEF Request, StepOK
  <2>2. QED
    BY <1>2, <1>4, <2>1 DEF StartClaim, Request
<1>5. CASE \E i \in Items : StartRedeem(p, u, i)
  <2>1. PICK i \in Items : StartRedeem(p, u, i)
    BY <1>5
  <2> DEFINE r == [Request("redeem", u, "read") EXCEPT !.item = i, !.amount = -Price[i]]
  <2>2. r \in Active
    <3>1. Request("redeem", u, "read") \in Active /\ -Price[i] \in Int
      BY <1>2, ConfigAssumption
    <3>2. QED
      BY <3>1 DEF Active
  <2>3. StepOK(r) /\ r.pc = "read" /\ r.began = Len(ledger[r.user]) /\ r.newBalance = Unapplied
    BY DEF Request, StepOK
  <2>4. Begin(p, r)
    BY <2>1 DEF StartRedeem
  <2>5. QED
    BY <2>2, <2>3, <2>4
<1>6. QED
  BY <1>1, <1>3, <1>4, <1>5

\* A step of the specification is one of these; a wallet that is opened for
\* itself is all that changes then.
StandStill ==
  /\ wallets' \subseteq Users
  /\ UNCHANGED <<today, balance, ledger, spins, claims, redemptions, stock, req>>

LEMMA NextCases ==
  ASSUME TypeOK, [Next]_vars
  PROVE  \/ NewDay \/ Crash \/ StandStill
         \/ \E p \in Procs : Arrive(p) \/ Local(p) \/ Commit(p)
<1>1. CASE UNCHANGED vars \/ \E u \in Users : GetBalance(u)
  BY <1>1 DEF vars, GetBalance, StandStill, TypeOK
<1>2. QED
  BY <1>1 DEF Next, Local

LEMMA TypeStep ==
  ASSUME TypeOK, Steps, [Next]_vars
  PROVE  TypeOK'
<1>1. CASE NewDay
  <2>1. today \in Nat /\ today' = today + 1 /\ today' \in 0..MaxDay
    BY <1>1, ConfigAssumption DEF NewDay, Midnight, TypeOK
  <2>2. Active \subseteq Active'
    BY <1>1, <2>1 DEF Active, NewDay, Midnight
  <2>3. req' \in [Procs -> {Idle} \union Active']
    BY <1>1, <2>2 DEF NewDay, TypeOK
  <2>4. UNCHANGED <<balance, ledger, spins, claims, redemptions, wallets, stock>>
    BY <1>1 DEF NewDay, Midnight
  <2>5. QED
    BY <2>1, <2>3, <2>4 DEF TypeOK
<1>2. CASE Crash
  BY <1>2 DEF Crash, TypeOK, Active
<1>3. CASE StandStill
  BY <1>3 DEF StandStill, TypeOK, Active
<1>4. ASSUME NEW p \in Procs, Arrive(p) PROVE TypeOK'
  BY <1>4, ArriveStep, BeginType
<1>5. ASSUME NEW p \in Procs, Local(p) PROVE TypeOK'
  BY <1>5, LocalStep, AdvanceType
<1>6. ASSUME NEW p \in Procs, Commit(p) PROVE TypeOK'
  BY <1>6, CommitSpinType, CommitClaimType, CommitRedeemType DEF Commit
<1>7. QED
  BY <1>1, <1>2, <1>3, <1>4, <1>5, <1>6, NextCases

\* A commit leaves its slot idle and the other slots alone.
LEMMA CommitFrees ==
  ASSUME TypeOK, NEW p \in Procs, Commit(p)
  PROVE  req'[p] = Idle /\ \A q \in Procs \ {p} : req'[q] = req[q]
BY DEF Commit, CommitSpin, CommitClaim, CommitRedeem, TypeOK

LEMMA StepsStep ==
  ASSUME TypeOK, Steps, [Next]_vars
  PROVE  Steps'
<1>1. CASE NewDay \/ StandStill
  BY <1>1 DEF NewDay, Steps, StepOK, StandStill
<1>2. CASE Crash
  BY <1>2 DEF Crash, Steps, Idle
<1>3. ASSUME NEW p \in Procs, Arrive(p) PROVE Steps'
  <2>1. PICK r \in Active : Begin(p, r) /\ StepOK(r)
    BY <1>3, ArriveStep
  <2>2. req'[p] = r /\ \A q \in Procs \ {p} : req'[q] = req[q]
    BY <2>1, BeginType
  <2>3. QED
    BY <2>1, <2>2 DEF Steps
<1>4. ASSUME NEW p \in Procs, Local(p) PROVE Steps'
  <2>1. PICK r \in {Idle} \union Active : Advance(p, r) /\ (r.pc # "idle" => StepOK(r))
    BY <1>4, LocalStep
  <2>2. req'[p] = r /\ \A q \in Procs \ {p} : req'[q] = req[q]
    BY <2>1, AdvanceType
  <2>3. QED
    BY <2>1, <2>2 DEF Steps
<1>5. ASSUME NEW p \in Procs, Commit(p) PROVE Steps'
  BY <1>5, CommitFrees DEF Steps, Idle
<1>6. QED
  BY <1>1, <1>2, <1>3, <1>4, <1>5, NextCases

LEMMA InitType == Init => TypeOK /\ Steps
<1> SUFFICES ASSUME Init PROVE TypeOK /\ Steps
  OBVIOUS
<1>1. \A S : <<>> \in Seq(S)
  OBVIOUS
<1>2. req \in [Procs -> {Idle} \union Active] /\ Steps
  BY DEF Init, Steps, Idle
<1>3. today \in 0..MaxDay /\ balance \in [Users -> Nat] /\ stock \in [DOMAIN InitStock -> Int]
  BY ConfigAssumption DEF Init, EconInit
<1>4. QED
  BY <1>1, <1>2, <1>3 DEF Init, EconInit, TypeOK

\* Every reachable state of the rewards service is well formed; no wallet is
\* ever overdrawn, whatever the requests and their interleaving.
THEOREM TypeCorrect == Spec => []TypeOK
<1>1. TypeOK /\ Steps /\ [Next]_vars => (TypeOK /\ Steps)'
  BY TypeStep, StepsStep
<1>2. QED
  BY <1>1, InitType, PTL DEF Spec

-----------------------------------------------------------------------------
(* The unique key, and what a request has read of its wallet. *)

\* A request that moves its wallet when it commits.
Moving(p) == req[p].newBalance # Unapplied

\* What a request's own step keeps, and what it may rely on once it owns its key
\* and once it has computed its balance.
LEMMA LocalKeeps ==
  ASSUME TypeOK, Steps, Began, KeyLock, WalletContinues, NEW p \in Procs, Local(p),
         req'[p].pc # "idle"
  PROVE  /\ req[p].pc # "idle"
         /\ req'[p].op = req[p].op /\ req'[p].user = req[p].user /\ req'[p].day = req[p].day
         /\ req'[p].began = req[p].began
         /\ Moving(p)' => \E n \in req[p].began..Len(ledger[req[p].user]) :
                            req'[p].newBalance = After(req[p].user, n) + req'[p].amount
         /\ InsertedKey(p)' => ~KeyHeld(p) /\ ~KeyTaken(p)
<1> DEFINE q == req[p]
<1>1. q.pc # "idle" /\ q \in Active /\ StepOK(q)
  <2>1. q.pc # "idle"
    BY DEF Local, Read, Wait, Abort, PickSegment, ReadDailyStatus, ReadItem, CountOwned, At,
           InsertRow, FindWallet, OpenWallet, UpdateWallet, DecrementStock
  <2>2. QED
    BY <2>1, ActiveRecord DEF Steps
<1>2. ~Throw(p)
  BY DEF Throw, Advance, Idle, TypeOK
<1>3. /\ q.pc \notin {"update", "stock", "commit"} => ~Moving(p)
      /\ Moving(p) => \E n \in q.began..Len(ledger[q.user]) :
                        q.newBalance = After(q.user, n) + q.amount
  BY <1>1 DEF StepOK, Moving, Began, Continuing
<1>4. \A r : Advance(p, r) => req'[p] = r
  BY DEF Advance, TypeOK
<1>5. CASE PickSegment(p)
  <2>1. PICK s \in Segments : Advance(p, [q EXCEPT !.pc = "insert", !.segment = s, !.amount = s.coins])
    BY <1>2, <1>5 DEF PickSegment
  <2>2. req'[p] = [q EXCEPT !.pc = "insert", !.segment = s, !.amount = s.coins]
    BY <2>1, <1>4
  <2>3. ~Moving(p)
    BY <1>3, <1>5 DEF PickSegment, At
  <2>4. QED
    BY <1>1, <2>2, <2>3 DEF Active, Moving, InsertedKey
<1>6. CASE ReadDailyStatus(p)
  <2> DEFINE n == NextDayNumber(q.user)
  <2>1. Advance(p, [q EXCEPT !.pc = "insert", !.dayNumber = n, !.amount = DailyCoins[n]])
    BY <1>2, <1>6 DEF ReadDailyStatus
  <2> HIDE DEF n
  <2>2. req'[p] = [q EXCEPT !.pc = "insert", !.dayNumber = n, !.amount = DailyCoins[n]]
    BY <2>1, <1>4
  <2>3. ~Moving(p)
    BY <1>3, <1>6 DEF ReadDailyStatus, At
  <2>4. QED
    BY <1>1, <2>2, <2>3 DEF Active, Moving, InsertedKey
<1>7. CASE ReadItem(p)
  <2>1. req'[p] = [q EXCEPT !.pc = "count"]
    BY <1>2, <1>4, <1>7 DEF ReadItem
  <2>2. ~Moving(p)
    BY <1>3, <1>7 DEF ReadItem, At
  <2>3. QED
    BY <1>1, <2>1, <2>2 DEF Active, Moving, InsertedKey
<1>8. CASE CountOwned(p)
  <2>1. req'[p] = [q EXCEPT !.pc = "wallet"] /\ q.op = "redeem"
    BY <1>2, <1>4, <1>8 DEF CountOwned, At
  <2>2. ~Moving(p)
    BY <1>3, <1>8 DEF CountOwned, At
  <2>3. QED
    BY <1>1, <2>1, <2>2 DEF Active, Moving, InsertedKey
<1>9. CASE InsertRow(p)
  <2>1. ~KeyHeld(p) /\ ~KeyTaken(p) /\ q.pc = "insert"
    BY <1>2, <1>9 DEF InsertRow
  <2>2. req'[p] = [q EXCEPT !.pc = IF q.amount > 0 THEN "wallet" ELSE "commit"]
    BY <1>2, <1>4, <1>9 DEF InsertRow
  <2>3. QED
    BY <1>1, <1>3, <2>1, <2>2 DEF Active, Moving
<1>10. ASSUME Compute(p), q.pc \in {"wallet", "open"}
       PROVE  /\ req'[p].op = q.op /\ req'[p].user = q.user /\ req'[p].day = q.day
              /\ req'[p].began = q.began
              /\ \E n \in q.began..Len(ledger[q.user]) :
                   req'[p].newBalance = After(q.user, n) + req'[p].amount
              /\ InsertedKey(p)' => InsertedKey(p)
  <2> DEFINE b == balance[q.user] + q.amount
             n == Len(ledger[q.user])
  <2>1. Advance(p, [q EXCEPT !.newBalance = b, !.pc = "update"])
    BY <1>2, <1>10 DEF Compute
  <2>2. b = After(q.user, n) + q.amount
    BY <1>1 DEF WalletContinues, Active
  <2>3. n \in q.began..n
    <3>1. q.user \in Users /\ q.began \in Nat /\ q.began <= n
      BY <1>1 DEF Began, Active
    <3>2. n \in Nat
      BY <3>1, LedgerFacts
    <3>3. QED
      BY <3>1, <3>2
  <2> HIDE DEF b, n
  <2>4. req'[p] = [q EXCEPT !.newBalance = b, !.pc = "update"]
    BY <2>1, <1>4
  <2>5. req'[p].op = q.op /\ req'[p].user = q.user /\ req'[p].day = q.day
        /\ req'[p].amount = q.amount /\ req'[p].newBalance = b /\ req'[p].began = q.began
    BY <1>1, <2>4 DEF Active
  <2>6. QED
    BY <1>10, <2>2, <2>3, <2>5 DEF InsertedKey, n
<1>11. CASE DecrementStock(p)
  <2>1. req'[p] = [q EXCEPT !.pc = "commit"] /\ q.op = "redeem" /\ q.pc = "stock"
    BY <1>2, <1>4, <1>11 DEF DecrementStock, At
  <2>2. QED
    BY <1>1, <1>3, <2>1 DEF Active, Moving, InsertedKey
<1>12. CASE FindWallet(p)
  <2>1. CASE Advance(p, [q EXCEPT !.pc = "open"])
    <3>1. req'[p] = [q EXCEPT !.pc = "open"] /\ q.pc = "wallet"
      BY <1>4, <1>12, <2>1 DEF FindWallet
    <3>2. req'[p].op = q.op /\ req'[p].user = q.user /\ req'[p].day = q.day
          /\ req'[p].newBalance = q.newBalance /\ req'[p].began = q.began
      BY <1>1, <3>1 DEF Active
    <3>3. InsertedKey(p)' => InsertedKey(p)
      BY <3>1, <3>2 DEF InsertedKey
    <3>4. QED
      BY <1>1, <1>3, <3>1, <3>2, <3>3 DEF Moving, KeyLock
  <2>2. QED
    BY <1>1, <1>10, <1>12, <2>1 DEF FindWallet, KeyLock
<1>13. CASE OpenWallet(p)
  BY <1>1, <1>2, <1>10, <1>13 DEF OpenWallet, KeyLock
<1>14. CASE UpdateWallet(p)
  <2> DEFINE next == IF q.op = "redeem" THEN "stock" ELSE "commit"
  <2>1. req'[p] = [q EXCEPT !.pc = next] /\ q.pc = "update"
    BY <1>4, <1>14 DEF UpdateWallet
  <2> HIDE DEF next
  <2>2. /\ req'[p].op = q.op /\ req'[p].user = q.user /\ req'[p].day = q.day
        /\ req'[p].newBalance = q.newBalance /\ req'[p].began = q.began
        /\ req'[p].amount = q.amount
    BY <1>1, <2>1 DEF Active
  <2>3. InsertedKey(p)' => InsertedKey(p)
    BY <2>1, <2>2 DEF InsertedKey
  <2>4. QED
    BY <1>1, <1>3, <2>2, <2>3 DEF Moving, KeyLock
<1>15. QED
  BY <1>2, <1>5, <1>6, <1>7, <1>8, <1>9, <1>11, <1>12, <1>13, <1>14 DEF Local, Read, Wait, Abort

\* The keys of the other requests survive a step of p that leaves the tables
\* alone and gives p no key another holds.
LEMMA KeyLocal ==
  ASSUME TypeOK, Steps, KeyLock, NEW p \in Procs,
         \A q \in Procs \ {p} : req'[q] = req[q],
         UNCHANGED <<spins, claims>>,
         InsertedKey(p)' => ~KeyHeld(p) /\ ~KeyTaken(p) /\ req'[p].op = req[p].op
                             /\ req'[p].user = req[p].user /\ req'[p].day = req[p].day
  PROVE  KeyLock'
<1>1. ASSUME NEW q \in Procs, InsertedKey(q)'
      PROVE  ~KeyHeld(q)' /\ ~KeyTaken(q)'
  <2>1. CASE q = p
    BY <1>1, <2>1 DEF KeyHeld, KeyTaken, InsertedKey, Spun, Claimed
  <2>2. CASE q # p
    <3>1. InsertedKey(q) /\ req'[q] = req[q]
      BY <1>1, <2>2 DEF InsertedKey
    <3>2. ~KeyHeld(q) /\ ~KeyTaken(q)
      BY <3>1 DEF KeyLock
    <3>3. ~KeyTaken(q)'
      BY <3>1, <3>2 DEF KeyTaken, Spun, Claimed
    <3>4. InsertedKey(p)' => ~(req'[p].op = req'[q].op /\ req'[p].user = req'[q].user
                               /\ req'[p].day = req'[q].day)
      BY <2>2, <3>1 DEF KeyHeld, InsertedKey
    <3>5. QED
      BY <2>2, <3>1, <3>2, <3>3, <3>4 DEF KeyHeld, InsertedKey
  <2>3. QED
    BY <2>1, <2>2
<1>2. QED
  BY <1>1 DEF KeyLock

\* What a commit does, whichever operation it ends.
LEMMA CommitCases ==
  ASSUME TypeOK, Steps, NEW p \in Procs, Commit(p)
  PROVE  /\ req[p] \in Active /\ StepOK(req[p]) /\ req[p].pc = "commit"
         /\ \A u \in Users : u # req[p].user =>
              balance'[u] = balance[u] /\ ledger'[u] = ledger[u]
              /\ spins'[u] = spins[u] /\ claims'[u] = claims[u]
         /\ IF Moving(p)
            THEN \E reason \in {"WHEEL_SPIN", "DAILY_LOGIN", "STORE_REDEMPTION"}, ref \in Nat \union Items :
                   Post(req[p].user, req[p].began, req[p].newBalance, req[p].amount, reason, ref)
            ELSE UNCHANGED <<balance, ledger>>
         /\ IF req[p].op = "spin" THEN RecordSpin(req[p].user, req[p].day, req[p].segment)
                                  ELSE spins' = spins
         /\ IF req[p].op = "claim" THEN RecordClaim(req[p].user, req[p].day, req[p].dayNumber)
                                   ELSE claims' = claims
<1> DEFINE r == req[p]
<1>1. r.pc = "commit"
  BY DEF Commit, CommitSpin, CommitClaim, CommitRedeem, At
<1>2. r \in Active /\ StepOK(r)
  BY <1>1, ActiveRecord DEF Steps
<1>3. IF Moving(p)
      THEN \E reason \in {"WHEEL_SPIN", "DAILY_LOGIN", "STORE_REDEMPTION"}, ref \in Nat \union Items :
             Post(r.user, r.began, r.newBalance, r.amount, reason, ref)
      ELSE UNCHANGED <<balance, ledger>>
  <2>1. Moving(p) <=> (r.op = "redeem" \/ r.amount > 0)
    BY <1>1, <1>2 DEF Moving, StepOK
  <2>2. CASE CommitRedeem(p)
    BY <1>2, <2>1, <2>2 DEF CommitRedeem, At, StepOK
  <2>3. CASE CommitSpin(p)
    <3>1. Len(spins[r.user]) + 1 \in Nat
      BY <1>2 DEF TypeOK, Active
    <3>2. QED
      BY <2>1, <2>3, <3>1 DEF CommitSpin, At, Award
  <2>4. CASE CommitClaim(p)
    <3>1. Len(claims[r.user]) + 1 \in Nat
      BY <1>2 DEF TypeOK, Active
    <3>2. QED
      BY <2>1, <2>4, <3>1 DEF CommitClaim, At, Award
  <2>5. QED
    BY <2>2, <2>3, <2>4 DEF Commit
<1>4. /\ IF r.op = "spin" THEN RecordSpin(r.user, r.day, r.segment) ELSE spins' = spins
      /\ IF r.op = "claim" THEN RecordClaim(r.user, r.day, r.dayNumber) ELSE claims' = claims
  BY DEF Commit, CommitSpin, CommitClaim, CommitRedeem, At
<1>5. ASSUME NEW u \in Users, u # r.user
      PROVE  balance'[u] = balance[u] /\ ledger'[u] = ledger[u]
             /\ spins'[u] = spins[u] /\ claims'[u] = claims[u]
  <2>1. spins'[u] = spins[u] /\ claims'[u] = claims[u]
    BY <1>4, <1>5 DEF RecordSpin, RecordClaim, TypeOK
  <2>2. balance'[u] = balance[u] /\ ledger'[u] = ledger[u]
    BY <1>3, <1>5 DEF Post, TypeOK
  <2>3. QED
    BY <2>1, <2>2
<1>6. QED
  BY <1>1, <1>2, <1>3, <1>4, <1>5

LEMMA KeyCommit ==
  ASSUME TypeOK, Steps, KeyLock, NEW p \in Procs, Commit(p)
  PROVE  KeyLock'
<1> DEFINE r == req[p]
<1>1. req'[p].pc = "idle" /\ \A q \in Procs \ {p} : req'[q] = req[q]
  BY CommitFrees DEF Idle
<1>2. r \in Active /\ r.pc = "commit" /\ r.user \in Users
  BY CommitCases DEF Active
<1>3. ASSUME NEW q \in Procs, InsertedKey(q)'
      PROVE  ~KeyHeld(q)' /\ ~KeyTaken(q)'
  <2>1. q # p /\ req'[q] = req[q] /\ InsertedKey(q)
    BY <1>1, <1>3 DEF InsertedKey
  <2>2. ~KeyHeld(q) /\ ~KeyTaken(q)
    BY <2>1 DEF KeyLock
  <2>3. ~KeyHeld(q)'
    BY <1>1, <2>1, <2>2 DEF KeyHeld, InsertedKey
  <2>4. req[q] \in Active /\ req[q].user \in Users /\ req[q].op \in {"spin", "claim"}
    BY <2>1, ActiveRecord DEF InsertedKey, Active
  <2>5. ~(r.op = req[q].op /\ r.user = req[q].user /\ r.day = req[q].day)
    BY <1>2, <2>1, <2>2, <2>4 DEF KeyHeld, InsertedKey
  <2>6. CASE req[q].op = "spin"
    <3>1. ~Spun(req[q].user, req[q].day)
      BY <2>2, <2>6 DEF KeyTaken
    <3>2. ~Spun(req[q].user, req[q].day)'
      <4>1. CASE r.op = "spin" /\ r.user = req[q].user
        <5>1. spins'[r.user] = Append(spins[r.user], [day |-> r.day, segment |-> r.segment])
          BY <1>2, <4>1, CommitCases DEF RecordSpin, TypeOK
        <5>2. r.day # req[q].day
          BY <2>5, <2>6, <4>1
        <5>3. spins[r.user] \in Seq([day : Nat, segment : Segments])
          BY <1>2 DEF TypeOK
        <5>4. req'[q] = req[q]
          BY <2>1
        <5>5. \A k \in DOMAIN spins[r.user] : spins[r.user][k].day # req[q].day
          BY <3>1, <4>1 DEF Spun
        <5>6. /\ DOMAIN spins'[r.user] = 1..(Len(spins[r.user]) + 1)
              /\ DOMAIN spins[r.user] = 1..Len(spins[r.user]) /\ Len(spins[r.user]) \in Nat
              /\ spins'[r.user][Len(spins[r.user]) + 1].day = r.day
              /\ \A k \in 1..Len(spins[r.user]) : spins'[r.user][k] = spins[r.user][k]
          BY <5>1, <5>3
        <5>7. \A k \in DOMAIN spins'[r.user] : spins'[r.user][k].day # req[q].day
          <6>1. TAKE k \in DOMAIN spins'[r.user]
          <6>2. k \in DOMAIN spins[r.user] \/ k = Len(spins[r.user]) + 1
            BY <5>6
          <6>3. QED
            BY <5>2, <5>5, <5>6, <6>2
        <5>8. QED
          BY <4>1, <5>4, <5>7 DEF Spun
      <4>2. CASE ~(r.op = "spin" /\ r.user = req[q].user)
        <5>1. spins'[req[q].user] = spins[req[q].user]
          BY <2>4, <4>2, CommitCases
        <5>2. QED
          BY <2>1, <3>1, <5>1 DEF Spun
      <4>3. QED
        BY <4>1, <4>2
    <3>3. req'[q].op = "spin"
      BY <2>1, <2>6
    <3>4. QED
      BY <2>3, <3>2, <3>3 DEF KeyTaken
  <2>7. CASE req[q].op = "claim"
    <3>1. ~Claimed(req[q].user, req[q].day)
      BY <2>2, <2>7 DEF KeyTaken
    <3>2. ~Claimed(req[q].user, req[q].day)'
      <4>1. CASE r.op = "claim" /\ r.user = req[q].user
        <5>1. claims'[r.user] = Append(claims[r.user], [day |-> r.day, dayNumber |-> r.dayNumber])
          BY <1>2, <4>1, CommitCases DEF RecordClaim, TypeOK
        <5>2. r.day # req[q].day
          BY <2>5, <2>7, <4>1
        <5>3. claims[r.user] \in Seq([day : Nat, dayNumber : 1..Len(DailyCoins)])
          BY <1>2 DEF TypeOK
        <5>4. req'[q] = req[q]
          BY <2>1
        <5>5. \A k \in DOMAIN claims[r.user] : claims[r.user][k].day # req[q].day
          BY <3>1, <4>1 DEF Claimed
        <5>6. /\ DOMAIN claims'[r.user] = 1..(Len(claims[r.user]) + 1)
              /\ DOMAIN claims[r.user] = 1..Len(claims[r.user]) /\ Len(claims[r.user]) \in Nat
              /\ claims'[r.user][Len(claims[r.user]) + 1].day = r.day
              /\ \A k \in 1..Len(claims[r.user]) : claims'[r.user][k] = claims[r.user][k]
          BY <5>1, <5>3
        <5>7. \A k \in DOMAIN claims'[r.user] : claims'[r.user][k].day # req[q].day
          <6>1. TAKE k \in DOMAIN claims'[r.user]
          <6>2. k \in DOMAIN claims[r.user] \/ k = Len(claims[r.user]) + 1
            BY <5>6
          <6>3. QED
            BY <5>2, <5>5, <5>6, <6>2
        <5>8. QED
          BY <4>1, <5>4, <5>7 DEF Claimed
      <4>2. CASE ~(r.op = "claim" /\ r.user = req[q].user)
        <5>1. claims'[req[q].user] = claims[req[q].user]
          BY <2>4, <4>2, CommitCases
        <5>2. QED
          BY <2>1, <3>1, <5>1 DEF Claimed
      <4>3. QED
        BY <4>1, <4>2
    <3>3. req'[q].op # "spin"
      BY <2>1, <2>7
    <3>4. QED
      BY <2>3, <3>2, <3>3 DEF KeyTaken
  <2>8. QED
    BY <2>3, <2>4, <2>6, <2>7
<1>4. QED
  BY <1>3 DEF KeyLock

LEMMA KeyStep ==
  ASSUME IInv, [Next]_vars
  PROVE  KeyLock'
<1> USE DEF IInv
<1>1. CASE NewDay \/ StandStill
  BY <1>1 DEF NewDay, Midnight, StandStill, KeyLock, KeyHeld, KeyTaken, InsertedKey, Spun, Claimed
<1>2. CASE Crash
  BY <1>2 DEF Crash, Idle, KeyLock, InsertedKey
<1>3. ASSUME NEW p \in Procs, Arrive(p) PROVE KeyLock'
  <2>1. PICK r \in Active : Begin(p, r) /\ r.pc = "read"
    BY <1>3, ArriveStep
  <2>2. req'[p].pc = "read" /\ \A q \in Procs \ {p} : req'[q] = req[q]
    BY <2>1, BeginType
  <2>3. UNCHANGED <<spins, claims>>
    BY <2>1 DEF Begin
  <2>4. ~InsertedKey(p)'
    BY <2>2 DEF InsertedKey
  <2>5. QED
    BY <2>2, <2>3, <2>4, KeyLocal
<1>4. ASSUME NEW p \in Procs, Local(p) PROVE KeyLock'
  <2>1. PICK r \in {Idle} \union Active : Advance(p, r)
    BY <1>4, LocalStep
  <2>2. \A q \in Procs \ {p} : req'[q] = req[q]
    BY <2>1, AdvanceType
  <2>3. UNCHANGED <<spins, claims>>
    BY <2>1 DEF Advance
  <2>4. InsertedKey(p)' => req'[p].pc # "idle"
    BY DEF InsertedKey
  <2>5. QED
    BY <1>4, <2>2, <2>3, <2>4, LocalKeeps, KeyLocal
<1>5. ASSUME NEW p \in Procs, Commit(p) PROVE KeyLock'
  BY <1>5, KeyCommit
<1>6. QED
  BY <1>1, <1>2, <1>3, <1>4, <1>5, NextCases

\* A row that is appended leaves the balances after the earlier rows alone.
LEMMA PostedRow ==
  ASSUME TypeOK, Steps, NEW p \in Procs, Commit(p), Moving(p),
         NEW u, u = req[p].user, NEW n, n = Len(ledger[u])
  PROVE  /\ u \in Users /\ n \in Nat /\ Len(ledger'[u]) = n + 1
         /\ \A k \in 1..n : ledger'[u][k] = ledger[u][k]
         /\ \A k \in 0..n : After(u, k)' = After(u, k)
         /\ ledger'[u][n + 1].balanceAfter = req[p].newBalance
         /\ ledger'[u][n + 1].amount = req[p].amount
         /\ ledger'[u][n + 1].began = req[p].began
         /\ balance'[u] = req[p].newBalance /\ After(u, n + 1)' = req[p].newBalance
<1> DEFINE b == req[p].newBalance
           a == req[p].amount
           g == req[p].began
<1>1. u \in Users
  BY CommitCases DEF Active
<1>2. PICK reason, ref : Post(u, g, b, a, reason, ref)
  BY CommitCases
<1> DEFINE row == [amount |-> a, balanceAfter |-> b, reason |-> reason, ref |-> ref, began |-> g]
<1>3. row.balanceAfter = b /\ row.amount = a /\ row.began = g
  OBVIOUS
<1>4. ledger'[u] = Append(ledger[u], row) /\ balance'[u] = b
  BY <1>1, <1>2 DEF Post, TypeOK
<1>5. ledger[u] \in Seq(LedgerRow)
  BY <1>1, LedgerFacts
<1> HIDE DEF row, b, a, g
<1>6. /\ n \in Nat /\ Len(ledger'[u]) = n + 1
      /\ \A k \in 1..n : ledger'[u][k] = ledger[u][k]
      /\ ledger'[u][n + 1] = row
  BY <1>4, <1>5
<1>7. \A k \in 0..n : After(u, k)' = After(u, k)
  BY <1>6 DEF After
<1>8. After(u, n + 1)' = b
  BY <1>3, <1>6 DEF After
<1>9. QED
  BY <1>1, <1>3, <1>4, <1>6, <1>7, <1>8 DEF b, a, g

\* What a request knows of its wallet survives every step: rows are only added.
LEMMA BeganStep ==
  ASSUME IInv, [Next]_vars
  PROVE  Began'
<1> USE DEF IInv
<1> DEFINE Kept(q) == /\ req'[q].began <= Len(ledger'[req'[q].user])
                      /\ req'[q].newBalance # Unapplied => Continuing(q)'
<1>1. CASE NewDay \/ StandStill
  BY <1>1 DEF NewDay, Midnight, StandStill, Began, Continuing, After
<1>2. CASE Crash
  BY <1>2 DEF Crash, Idle, Began
<1>3. ASSUME NEW q \in Procs, req[q].pc # "idle", req'[q] = req[q], UNCHANGED ledger
      PROVE  Kept(q)
  BY <1>3 DEF Began, Continuing, After
<1>4. ASSUME NEW p \in Procs, Arrive(p) PROVE Began'
  <2>1. PICK r \in Active : Begin(p, r) /\ r.began = Len(ledger[r.user]) /\ r.newBalance = Unapplied
    BY <1>4, ArriveStep
  <2>2. req'[p] = r /\ (\A q \in Procs \ {p} : req'[q] = req[q]) /\ UNCHANGED ledger
    BY <2>1, BeginType DEF Begin
  <2>3. r.began <= Len(ledger[r.user])
    BY <2>1 DEF Active
  <2>4. Kept(p)
    BY <2>1, <2>2, <2>3
  <2>5. QED
    BY <1>3, <2>2, <2>4 DEF Began
<1>5. ASSUME NEW p \in Procs, Local(p) PROVE Began'
  <2>1. PICK r \in {Idle} \union Active : Advance(p, r)
    BY <1>5, LocalStep
  <2>2. (\A q \in Procs \ {p} : req'[q] = req[q]) /\ UNCHANGED ledger
    BY <2>1, AdvanceType DEF Advance
  <2>3. req'[p].pc # "idle" => Kept(p)
    BY <1>5, <2>2, LocalKeeps DEF Began, Continuing, Moving, After
  <2>4. QED
    BY <1>3, <2>2, <2>3 DEF Began
<1>6. ASSUME NEW p \in Procs, Commit(p) PROVE Began'
  <2>1. req'[p].pc = "idle" /\ \A q \in Procs \ {p} : req'[q] = req[q]
    BY <1>6, CommitFrees DEF Idle
  <2>2. ASSUME NEW q \in Procs \ {p}, req[q].pc # "idle" PROVE Kept(q)
    <3>1. req[q] \in Active /\ req[q].user \in Users /\ req[q].began \in Nat
      BY <2>2, ActiveRecord DEF Active
    <3>2. CASE Moving(p) /\ req[q].user = req[p].user
      <4>0. PICK u, n : u = req[p].user /\ n = Len(ledger[u])
        OBVIOUS
      <4>1. /\ n \in Nat /\ Len(ledger'[u]) = n + 1
            /\ \A k \in 0..n : After(u, k)' = After(u, k)
        BY <1>6, <3>2, <4>0, PostedRow
      <4>2. req[q].began <= n
            /\ (Moving(q) => \E k \in req[q].began..n : req[q].newBalance = After(u, k) + req[q].amount)
        BY <2>2, <3>2, <4>0 DEF Began, Continuing, Moving
      <4>3. req'[q] = req[q] /\ req'[q].user = u
        BY <2>1, <2>2, <3>2, <4>0
      <4>4. req'[q].began <= Len(ledger'[u])
        BY <3>1, <4>1, <4>2, <4>3
      <4>5. ASSUME Moving(q)
            PROVE  \E k \in req[q].began..Len(ledger'[u]) : req[q].newBalance = After(u, k)' + req[q].amount
        <5>1. PICK k \in req[q].began..n : req[q].newBalance = After(u, k) + req[q].amount
          BY <4>2, <4>5
        <5>2. k \in 0..n /\ k \in req[q].began..Len(ledger'[u])
          BY <3>1, <4>1, <5>1
        <5>3. QED
          BY <4>1, <5>1, <5>2
      <4>6. QED
        BY <4>3, <4>4, <4>5 DEF Continuing, Moving, After
    <3>3. CASE ~(Moving(p) /\ req[q].user = req[p].user)
      <4>1. ledger'[req[q].user] = ledger[req[q].user]
        BY <1>6, <3>1, <3>3, CommitCases
      <4>2. req'[q] = req[q]
        BY <2>1, <2>2
      <4>3. QED
        BY <2>2, <4>1, <4>2 DEF Began, Continuing, After
    <3>4. QED
      BY <3>2, <3>3
  <2>3. QED
    BY <2>1, <2>2 DEF Began
<1>7. QED
  BY <1>1, <1>2, <1>4, <1>5, <1>6, NextCases

-----------------------------------------------------------------------------
(* The wallet, the day, and the refinement. *)

\* Appending a row whose request knew a balance keeps every row's.
LEMMA WalletStep ==
  ASSUME IInv, [Next]_vars
  PROVE  WalletContinues'
<1> USE DEF IInv
<1>1. CASE UNCHANGED <<balance, ledger>>
  BY <1>1 DEF WalletContinues, Continues, After
<1>2. ASSUME NEW p \in Procs, Commit(p), Moving(p)
      PROVE  WalletContinues'
  <2>0. PICK u, n, b, a, g :
          /\ u = req[p].user /\ n = Len(ledger[u])
          /\ b = req[p].newBalance /\ a = req[p].amount /\ g = req[p].began
    OBVIOUS
  <2>1. /\ u \in Users /\ n \in Nat /\ Len(ledger'[u]) = n + 1
        /\ \A k \in 1..n : ledger'[u][k] = ledger[u][k]
        /\ \A k \in 0..n : After(u, k)' = After(u, k)
        /\ ledger'[u][n + 1].balanceAfter = b /\ ledger'[u][n + 1].amount = a
        /\ ledger'[u][n + 1].began = g
        /\ balance'[u] = b /\ After(u, n + 1)' = b
    BY <1>2, <2>0, PostedRow
  <2>2. g \in Nat /\ \E k \in g..n : b = After(u, k) + a
    <3>1. req[p] \in Active /\ req[p].pc = "commit"
      BY <1>2, CommitCases
    <3>2. QED
      BY <1>2, <2>0, <3>1 DEF Active, Began, Continuing, Moving
  <2>3. \A k \in 1..n : ledger[u][k].began \in Nat /\ Continues(u, k)
    BY <2>0, <2>1, LedgerFacts DEF WalletContinues
  <2>4. ASSUME NEW k \in 1..(n + 1) PROVE Continues(u, k)'
    <3>1. CASE k \in 1..n
      <4>1. PICK j \in ledger[u][k].began..(k - 1) :
              ledger[u][k].balanceAfter = After(u, j) + ledger[u][k].amount
        BY <2>3, <3>1 DEF Continues
      <4>2. j \in 0..n
        BY <2>1, <2>3, <3>1, <4>1
      <4>3. QED
        BY <2>1, <3>1, <4>1, <4>2 DEF Continues, After
    <3>2. CASE k = n + 1
      <4>1. PICK j \in g..n : b = After(u, j) + a
        BY <2>2
      <4>2. j \in 0..n /\ n = k - 1
        BY <2>1, <2>2, <3>2, <4>1
      <4>3. After(u, j)' = After(u, j)
        BY <2>1, <4>2
      <4>4. /\ ledger'[u][k].balanceAfter = b /\ ledger'[u][k].amount = a
            /\ ledger'[u][k].began = g
        BY <2>1, <3>2
      <4>5. QED
        BY <4>1, <4>2, <4>3, <4>4 DEF Continues, After
    <3>3. QED
      BY <2>1, <3>1, <3>2
  <2>5. ASSUME NEW v \in Users
        PROVE  /\ balance'[v] = After(v, Len(ledger[v]))'
               /\ \A k \in 1..Len(ledger'[v]) : Continues(v, k)'
    <3>1. CASE v # u
      <4>1. ledger'[v] = ledger[v] /\ balance'[v] = balance[v]
        BY <1>2, <2>0, <3>1, CommitCases
      <4>2. QED
        BY <4>1 DEF WalletContinues, Continues, After
    <3>2. CASE v = u
      BY <2>1, <2>4, <3>2 DEF After
    <3>3. QED
      BY <3>1, <3>2
  <2>6. QED
    BY <2>5 DEF WalletContinues
<1>3. UNCHANGED <<balance, ledger>> \/ \E p \in Procs : Commit(p) /\ Moving(p)
  <2>1. CASE NewDay \/ Crash \/ StandStill
    BY <2>1 DEF NewDay, Midnight, Crash, StandStill
  <2>2. ASSUME NEW p \in Procs, Arrive(p) PROVE UNCHANGED <<balance, ledger>>
    BY <2>2, ArriveStep DEF Begin
  <2>3. ASSUME NEW p \in Procs, Local(p) PROVE UNCHANGED <<balance, ledger>>
    BY <2>3, LocalStep DEF Advance
  <2>4. ASSUME NEW p \in Procs, Commit(p), ~Moving(p) PROVE UNCHANGED <<balance, ledger>>
    BY <2>4, CommitCases
  <2>5. QED
    BY <2>1, <2>2, <2>3, <2>4, NextCases
<1>4. QED
  BY <1>1, <1>2, <1>3

\* A commit adds at most one spin or claim, and of a day that had none.
LEMMA DayStep ==
  ASSUME IInv, [Next]_vars
  PROVE  OneRewardPerDay'
<1> USE DEF IInv
<1>1. CASE UNCHANGED <<spins, claims>>
  BY <1>1 DEF OneRewardPerDay
<1>2. ASSUME NEW p \in Procs, Commit(p)
      PROVE  OneRewardPerDay'
  <2>1. req[p] \in Active /\ req[p].pc = "commit" /\ req[p].user \in Users
    BY <1>2, CommitCases DEF Active
  <2>2. PICK u \in Users, d \in {req[p].day} : u = req[p].user /\ d = req[p].day
    BY <2>1
  <2>3. /\ spins[u] \in Seq([day : Nat, segment : Segments])
        /\ claims[u] \in Seq([day : Nat, dayNumber : 1..Len(DailyCoins)])
    BY DEF TypeOK
  <2>4. CASE req[p].op = "spin"
    <3>1. PICK s : spins' = [spins EXCEPT ![u] = Append(@, [day |-> d, segment |-> s])]
      BY <1>2, <2>2, <2>4, CommitCases DEF RecordSpin
    <3>2. claims' = claims
      BY <1>2, <2>4, CommitCases
    <3>3. ~Spun(u, d)
      BY <2>1, <2>2, <2>4 DEF KeyLock, KeyTaken, InsertedKey
    <3>4. spins'[u] = Append(spins[u], [day |-> d, segment |-> s])
          /\ \A v \in Users \ {u} : spins'[v] = spins[v]
      BY <3>1 DEF TypeOK
    <3>5. \A j, k \in DOMAIN spins'[u] : spins'[u][j].day = spins'[u][k].day => j = k
      BY <2>3, <3>3, <3>4 DEF Spun, OneRewardPerDay
    <3>6. QED
      BY <3>2, <3>4, <3>5 DEF OneRewardPerDay
  <2>5. CASE req[p].op = "claim"
    <3>1. PICK n : claims' = [claims EXCEPT ![u] = Append(@, [day |-> d, dayNumber |-> n])]
      BY <1>2, <2>2, <2>5, CommitCases DEF RecordClaim
    <3>2. spins' = spins
      BY <1>2, <2>5, CommitCases
    <3>3. ~Claimed(u, d)
      BY <2>1, <2>2, <2>5 DEF KeyLock, KeyTaken, InsertedKey
    <3>4. claims'[u] = Append(claims[u], [day |-> d, dayNumber |-> n])
          /\ \A v \in Users \ {u} : claims'[v] = claims[v]
      BY <3>1 DEF TypeOK
    <3>5. \A j, k \in DOMAIN claims'[u] : claims'[u][j].day = claims'[u][k].day => j = k
      <4>1. PICK S : claims[u] \in Seq(S)
        BY <2>3
      <4>2. \A j, k \in DOMAIN claims[u] : claims[u][j].day = claims[u][k].day => j = k
        BY DEF OneRewardPerDay
      <4>3. \A k \in DOMAIN claims[u] : claims[u][k].day # d
        BY <3>3 DEF Claimed
      <4>4. QED
        BY <3>4, <4>1, <4>2, <4>3
    <3>6. QED
      BY <3>2, <3>4, <3>5 DEF OneRewardPerDay
  <2>6. CASE req[p].op = "redeem"
    BY <1>1, <1>2, <2>6, CommitCases
  <2>7. QED
    BY <2>1, <2>4, <2>5, <2>6 DEF Active
<1>3. UNCHANGED <<spins, claims>> \/ \E p \in Procs : Commit(p)
  <2>1. CASE NewDay \/ Crash \/ StandStill
    BY <2>1 DEF NewDay, Midnight, Crash, StandStill
  <2>2. ASSUME NEW p \in Procs, Arrive(p) PROVE UNCHANGED <<spins, claims>>
    BY <2>2, ArriveStep DEF Begin
  <2>3. ASSUME NEW p \in Procs, Local(p) PROVE UNCHANGED <<spins, claims>>
    BY <2>3, LocalStep DEF Advance
  <2>4. QED
    BY <2>1, <2>2, <2>3, NextCases
<1>4. QED
  BY <1>1, <1>2, <1>3

LEMMA InitInv == Init => IInv
<1> SUFFICES ASSUME Init PROVE IInv
  OBVIOUS
<1>1. TypeOK /\ Steps
  BY InitType
<1>2. Began /\ KeyLock
  BY DEF Init, Idle, Began, KeyLock, InsertedKey
<1>3. WalletContinues /\ OneRewardPerDay
  BY DEF Init, EconInit, WalletContinues, After, OneRewardPerDay
<1>4. QED
  BY <1>1, <1>2, <1>3 DEF IInv

\* The inductive invariant: a request owns the key it has inserted, and the
\* balance it has computed continues from one the wallet has had since it began.
THEOREM Invariance == Spec => []IInv
<1>1. IInv /\ [Next]_vars => IInv'
  <2> SUFFICES ASSUME IInv, [Next]_vars PROVE IInv'
    OBVIOUS
  <2>1. TypeOK' /\ Steps'
    BY TypeStep, StepsStep DEF IInv
  <2>2. Began' /\ KeyLock'
    BY BeganStep, KeyStep
  <2>3. QED
    BY <2>1, <2>2, WalletStep, DayStep DEF IInv
<1>2. QED
  BY <1>1, InitInv, PTL DEF Spec

\* Whatever the interleaving, rollbacks and crashes: a wallet shows its ledger's
\* last row, and every row continues from a balance the wallet had while its
\* request was in flight.
THEOREM WalletCorrect == Spec => []WalletContinues
<1>1. IInv => WalletContinues
  BY DEF IInv
<1>2. QED
  BY <1>1, Invariance, PTL

\* No user spins or claims twice on one UTC day.
THEOREM DailyLimitCorrect == Spec => []OneRewardPerDay
<1>1. IInv => OneRewardPerDay
  BY DEF IInv
<1>2. QED
  BY <1>1, Invariance, PTL

\* A balance that was shown is a number that is not negative.
LEMMA SeenType ==
  ASSUME TypeOK, NEW u \in Users, NEW g \in 0..Len(ledger[u])
  PROVE  g \in Nat /\ Seen(u, g) \subseteq Nat
<1>1. Len(ledger[u]) \in Nat /\ \A k \in 1..Len(ledger[u]) : ledger[u][k].balanceAfter \in Nat
  BY LedgerFacts
<1>2. QED
  BY <1>1 DEF Seen, After

\* The interleaved service implements the economy in which every spin, claim
\* and redemption is a single step.
LEMMA EconStep ==
  ASSUME IInv, [Next]_vars
  PROVE  [EconNext]_econ
<1> USE DEF IInv
<1>1. CASE NewDay
  BY <1>1 DEF NewDay, EconNext
<1>2. CASE Crash \/ StandStill
  BY <1>2 DEF Crash, StandStill, econ
<1>3. ASSUME NEW p \in Procs, Arrive(p) PROVE UNCHANGED econ
  BY <1>3, ArriveStep DEF Begin, econ
<1>4. ASSUME NEW p \in Procs, Local(p) PROVE UNCHANGED econ
  BY <1>4, LocalStep DEF Advance, econ
<1>5. ASSUME NEW p \in Procs, Commit(p) PROVE EconNext
  <2> DEFINE r == req[p]
  <2>1. r \in Active /\ StepOK(r) /\ r.pc = "commit" /\ r.user \in Users /\ r.day \in 0..today
    BY <1>5, CommitCases DEF Active
  <2>2. PICK n \in r.began..Len(ledger[r.user]) :
          r.newBalance # Unapplied => r.newBalance = After(r.user, n) + r.amount
    <3>1. r.began \in Nat /\ Len(ledger[r.user]) \in Nat /\ r.began <= Len(ledger[r.user])
      BY <2>1, LedgerFacts DEF Active, Began
    <3>2. Len(ledger[r.user]) \in r.began..Len(ledger[r.user])
      BY <3>1
    <3>3. QED
      BY <2>1, <3>2 DEF Began, Continuing
  <2> DEFINE seen == After(r.user, n)
  <2>3. r.began \in 0..Len(ledger[r.user]) /\ seen \in Seen(r.user, r.began)
    BY <2>1, <2>2 DEF Active, TypeOK, Began, Seen
  <2> HIDE DEF seen
  <2>4. CASE CommitSpin(p)
    <3>1. r.op = "spin" /\ r.segment \in Segments /\ r.amount = r.segment.coins
      BY <2>1, <2>4 DEF CommitSpin, At, StepOK
    <3>2. ~Spun(r.user, r.day)
      BY <2>1, <3>1 DEF KeyLock, KeyTaken, InsertedKey
    <3>3. Award(r.user, r.began, seen + r.segment.coins, r.segment.coins,
                "WHEEL_SPIN", Len(spins[r.user]) + 1)
      BY <2>1, <2>2, <2>4, <3>1 DEF CommitSpin, Award, StepOK, seen
    <3>4. SpinWheel(r.user, r.day, r.segment)
      BY <2>4, <2>3, <3>2, <3>3 DEF CommitSpin, SpinWheel
    <3>5. QED
      BY <2>1, <3>1, <3>4 DEF EconNext
  <2>5. CASE CommitClaim(p)
    <3>1. r.op = "claim" /\ r.dayNumber \in DOMAIN DailyCoins /\ r.amount = DailyCoins[r.dayNumber]
      BY <2>1, <2>5, ConfigAssumption DEF CommitClaim, At, StepOK
    <3>2. ~Claimed(r.user, r.day)
      BY <2>1, <3>1 DEF KeyLock, KeyTaken, InsertedKey
    <3>3. Award(r.user, r.began, seen + DailyCoins[r.dayNumber], DailyCoins[r.dayNumber],
                "DAILY_LOGIN", Len(claims[r.user]) + 1)
      BY <2>1, <2>2, <2>5, <3>1 DEF CommitClaim, Award, StepOK, seen
    <3>4. ClaimReward(r.user, r.day, r.dayNumber)
      BY <2>5, <2>3, <3>2, <3>3 DEF CommitClaim, ClaimReward
    <3>5. QED
      BY <2>1, <3>1, <3>4 DEF EconNext
  <2>6. CASE CommitRedeem(p)
    <3>1. r.op = "redeem" /\ r.item \in Items /\ r.amount = -Price[r.item]
          /\ r.newBalance = seen + r.amount
      BY <2>1, <2>2, <2>6 DEF CommitRedeem, At, StepOK, seen
    <3>2. r.newBalance = seen - Price[r.item]
      BY <2>1, <2>3, <3>1, ConfigAssumption, SeenType
    <3>3. Post(r.user, r.began, seen - Price[r.item], -Price[r.item], "STORE_REDEMPTION", r.item)
      BY <2>6, <3>1, <3>2 DEF CommitRedeem
    <3>4. Purchase(r.user, r.item)
      BY <2>6, <2>3, <3>3 DEF CommitRedeem, Purchase
    <3>5. QED
      BY <2>1, <3>1, <3>4 DEF EconNext
  <2>7. QED
    BY <1>5, <2>4, <2>5, <2>6 DEF Commit
<1>6. QED
  BY <1>1, <1>2, <1>3, <1>4, <1>5, NextCases

\* Interleaved statement by statement, rolled back and crashed, the requests do
\* what the atomic economy allows: a spin, claim or redemption takes effect at
\* its commit, whole, or not at all.
THEOREM ImplementsEconomy == Spec => EconSpec
<1>1. Init => EconInit
  BY DEF Init
<1>2. IInv /\ [Next]_vars => [EconNext]_econ
  BY EconStep
<1>3. QED
  BY <1>1, <1>2, Invariance, PTL DEF Spec, EconSpec

-----------------------------------------------------------------------------
(* The shelf.  A redemption that has read the item's stock, or counted what *)
(* its user owns, may act on it later: these are the requests that can.    *)

Buyer(r) == r.pc \in {"wallet", "open", "update", "stock", "commit"} /\ r.op = "redeem"
Taker(r) == (r.pc = "count" /\ r.op = "redeem") \/ Buyer(r)

Taking(i)    == {p \in Procs : Taker(req[p]) /\ req[p].item = i}
Buying(u, i) == {p \in Procs : Buyer(req[p]) /\ req[p].user = u /\ req[p].item = i}

\* Each of them takes one piece, and found one when it looked.
Counted ==
  \A i \in DOMAIN stock :
    IsFiniteSet(Redeemed(i)) /\ stock[i] + Cardinality(Redeemed(i)) = InitStock[i]

InStock ==
  \A i \in DOMAIN stock : stock[i] - Cardinality(Taking(i)) > -Cardinality(Procs)

InLimit ==
  \A u \in Users, i \in DOMAIN Limit :
    Cardinality(Owned(u, i)) + Cardinality(Buying(u, i)) < Limit[i] + Cardinality(Procs)

Shelf == Counted /\ InStock /\ InLimit

LEMMA Crowds ==
  ASSUME NEW S \in SUBSET Procs
  PROVE  IsFiniteSet(S) /\ Cardinality(S) \in Nat /\ Cardinality(S) <= Cardinality(Procs)
         /\ Cardinality(Procs) \in Nat
BY ConfigAssumption, FS_Subset, FS_CardinalityType

LEMMA OwnedFinite ==
  ASSUME TypeOK, NEW u \in Users, NEW i
  PROVE  IsFiniteSet(Owned(u, i)) /\ Cardinality(Owned(u, i)) \in Nat
<1>1. Len(redemptions[u]) \in Nat /\ DOMAIN redemptions[u] = 1..Len(redemptions[u])
  BY DEF TypeOK
<1>2. Owned(u, i) \in SUBSET (1..Len(redemptions[u]))
  BY <1>1 DEF Owned
<1>3. IsFiniteSet(1..Len(redemptions[u]))
  BY <1>1, FS_Interval
<1>4. IsFiniteSet(Owned(u, i))
  BY <1>2, <1>3, FS_Subset
<1>5. QED
  BY <1>4, FS_CardinalityType

\* Only ReadItem makes a request take a piece, and only CountOwned lets it buy.
Moves(p) ==
  /\ UNCHANGED <<stock, redemptions>>
  /\ \A q \in Procs \ {p} : req'[q] = req[q]
  /\ Taker(req'[p]) =>
       /\ req'[p].user = req[p].user /\ req'[p].item = req[p].item
       /\ Taker(req[p]) \/ (req[p].item \in DOMAIN stock => stock[req[p].item] > 0)
       /\ Buyer(req'[p]) => Buyer(req[p]) \/ WithinLimit(req[p].user, req[p].item)

LEMMA LocalShelf ==
  ASSUME TypeOK, Steps, NEW p \in Procs, Local(p)
  PROVE  Moves(p)
<1> DEFINE r == req[p]
<1>1. r.pc # "idle" => r \in Active /\ StepOK(r)
  BY ActiveRecord DEF Steps
<1>2. \A s : Advance(p, s) =>
        /\ req'[p] = s /\ UNCHANGED <<stock, redemptions>>
        /\ \A q \in Procs \ {p} : req'[q] = req[q]
  BY DEF Advance, TypeOK
<1>3. CASE Throw(p)
  BY <1>2, <1>3 DEF Throw, Idle, Taker, Buyer, Moves
<1>4. CASE PickSegment(p) /\ ~Throw(p)
  <2>1. PICK s \in Segments : Advance(p, [r EXCEPT !.pc = "insert", !.segment = s, !.amount = s.coins])
    BY <1>4 DEF PickSegment
  <2>2. r \in Active
    BY <1>1, <1>4 DEF PickSegment, At
  <2>3. ~Taker([r EXCEPT !.pc = "insert", !.segment = s, !.amount = s.coins])
    BY <2>2 DEF Active, Taker, Buyer
  <2>4. QED
    BY <1>2, <2>1, <2>3 DEF Moves
<1>5. CASE ReadDailyStatus(p) /\ ~Throw(p)
  <2> DEFINE n == NextDayNumber(r.user)
  <2>1. Advance(p, [r EXCEPT !.pc = "insert", !.dayNumber = n, !.amount = DailyCoins[n]])
    BY <1>5 DEF ReadDailyStatus
  <2>2. r \in Active
    BY <1>1, <1>5 DEF ReadDailyStatus, At
  <2> HIDE DEF n
  <2>3. ~Taker([r EXCEPT !.pc = "insert", !.dayNumber = n, !.amount = DailyCoins[n]])
    BY <2>2 DEF Active, Taker, Buyer
  <2>4. QED
    BY <1>2, <2>1, <2>3 DEF Moves
<1>6. CASE InsertRow(p) /\ ~Throw(p)
  <2> DEFINE s == [r EXCEPT !.pc = IF r.amount > 0 THEN "wallet" ELSE "commit"]
  <2>1. Advance(p, s)
    BY <1>6 DEF InsertRow
  <2>2. r \in Active /\ r.op # "redeem"
    BY <1>1, <1>6 DEF InsertRow, StepOK
  <2>3. s.op # "redeem"
    BY <2>2 DEF Active
  <2> HIDE DEF s
  <2>4. QED
    BY <1>2, <2>1, <2>3 DEF Taker, Buyer, Moves
<1>7. CASE ReadItem(p) /\ ~Throw(p)
  <2> DEFINE s == [r EXCEPT !.pc = "count"]
  <2>1. Advance(p, s) /\ (r.item \in DOMAIN stock => stock[r.item] > 0)
    BY <1>7 DEF ReadItem
  <2>2. r \in Active
    BY <1>1, <1>7 DEF ReadItem, At
  <2>3. s.user = r.user /\ s.item = r.item /\ s.pc = "count"
    BY <2>2 DEF Active
  <2> HIDE DEF s
  <2>4. QED
    BY <1>2, <2>1, <2>3 DEF Buyer, Moves
<1>8. CASE CountOwned(p) /\ ~Throw(p)
  <2> DEFINE s == [r EXCEPT !.pc = "wallet"]
  <2>1. Advance(p, s) /\ WithinLimit(r.user, r.item) /\ r.pc = "count" /\ r.op = "redeem"
    BY <1>8 DEF CountOwned, At
  <2>2. r \in Active
    BY <1>1, <2>1
  <2>3. s.user = r.user /\ s.item = r.item
    BY <2>2 DEF Active
  <2> HIDE DEF s
  <2>4. QED
    BY <1>2, <2>1, <2>3 DEF Taker, Moves
<1>9. ASSUME Compute(p), ~Throw(p), r.pc \in {"wallet", "open"}
      PROVE  Moves(p)
  <2> DEFINE b == balance[r.user] + r.amount
             s == [r EXCEPT !.newBalance = b, !.pc = "update"]
  <2>1. Advance(p, s)
    BY <1>9 DEF Compute
  <2>2. r \in Active
    BY <1>1, <1>9
  <2> HIDE DEF b
  <2>3. s.user = r.user /\ s.item = r.item /\ s.op = r.op
    BY <2>2 DEF Active
  <2> HIDE DEF s
  <2>4. QED
    BY <1>2, <1>9, <2>1, <2>3 DEF Taker, Buyer, Moves
<1>10. CASE FindWallet(p) /\ ~Throw(p)
  <2> DEFINE s == [r EXCEPT !.pc = "open"]
  <2>1. r.pc = "wallet" /\ r \in Active
    BY <1>1, <1>10 DEF FindWallet
  <2>2. s.user = r.user /\ s.item = r.item /\ s.op = r.op
    BY <2>1 DEF Active
  <2>3. Compute(p) \/ Advance(p, s)
    BY <1>10 DEF FindWallet
  <2> HIDE DEF s
  <2>4. QED
    BY <1>2, <1>9, <1>10, <2>1, <2>2, <2>3 DEF Taker, Buyer, Moves
<1>11. CASE OpenWallet(p) /\ ~Throw(p)
  BY <1>9, <1>11 DEF OpenWallet, Moves
<1>12. CASE UpdateWallet(p)
  <2> DEFINE s == [r EXCEPT !.pc = IF r.op = "redeem" THEN "stock" ELSE "commit"]
  <2>1. Advance(p, s) /\ r.pc = "update"
    BY <1>12 DEF UpdateWallet
  <2>2. r \in Active
    BY <1>1, <2>1
  <2>3. s.user = r.user /\ s.item = r.item /\ s.op = r.op
    BY <2>2 DEF Active
  <2> HIDE DEF s
  <2>4. QED
    BY <1>2, <2>1, <2>3 DEF Taker, Buyer, Moves
<1>13. CASE DecrementStock(p)
  <2> DEFINE s == [r EXCEPT !.pc = "commit"]
  <2>1. Advance(p, s) /\ r.pc = "stock" /\ r.op = "redeem"
    BY <1>13 DEF DecrementStock, At
  <2>2. r \in Active
    BY <1>1, <2>1
  <2>3. s.user = r.user /\ s.item = r.item /\ s.op = r.op
    BY <2>2 DEF Active
  <2> HIDE DEF s
  <2>4. QED
    BY <1>2, <2>1, <2>3 DEF Taker, Buyer, Moves
<1>14. QED
  BY <1>3, <1>4, <1>5, <1>6, <1>7, <1>8, <1>13, <1>10, <1>11, <1>12 DEF Local, Read, Wait, Abort

\* Any step but the commit of a redemption leaves the shelf as it is, and
\* whoever joins those who take from it has found a piece, or room to own one.
LEMMA QuietShelf ==
  ASSUME TypeOK, Steps, [Next]_vars, \A p \in Procs : ~CommitRedeem(p)
  PROVE  /\ UNCHANGED <<stock, redemptions>>
         /\ \A i \in DOMAIN stock : Taking(i)' \subseteq Taking(i) \/ stock[i] > 0
         /\ \A u \in Users, i \in DOMAIN Limit :
              Buying(u, i)' \subseteq Buying(u, i) \/ Cardinality(Owned(u, i)) < Limit[i]
<1>1. CASE NewDay \/ StandStill
  BY <1>1 DEF NewDay, Midnight, StandStill, Taking, Buying, Taker, Buyer
<1>2. CASE Crash
  BY <1>2 DEF Crash, Idle, Taking, Buying, Taker, Buyer
<1>3. ASSUME NEW p \in Procs, Arrive(p) \/ CommitSpin(p) \/ CommitClaim(p)
      PROVE  /\ UNCHANGED <<stock, redemptions>>
             /\ \A i : Taking(i)' \subseteq Taking(i)
             /\ \A u, i : Buying(u, i)' \subseteq Buying(u, i)
  <2>1. UNCHANGED <<stock, redemptions>> /\ ~Taker(req'[p]) /\ ~Buyer(req'[p])
        /\ \A q \in Procs \ {p} : req'[q] = req[q]
    <3>1. CASE Arrive(p)
      BY <3>1, ArriveStep, BeginType DEF Begin, Taker, Buyer
    <3>2. CASE CommitSpin(p) \/ CommitClaim(p)
      BY <3>2, CommitFrees DEF Commit, CommitSpin, CommitClaim, Idle, Taker, Buyer
    <3>3. QED
      BY <1>3, <3>1, <3>2
  <2>2. QED
    BY <2>1 DEF Taking, Buying, Taker, Buyer
<1>4. ASSUME NEW p \in Procs, Local(p)
      PROVE  /\ UNCHANGED <<stock, redemptions>>
             /\ \A i \in DOMAIN stock : Taking(i)' \subseteq Taking(i) \/ stock[i] > 0
             /\ \A u \in Users, i \in DOMAIN Limit :
                  Buying(u, i)' \subseteq Buying(u, i) \/ Cardinality(Owned(u, i)) < Limit[i]
  <2>1. \A i \in DOMAIN stock : Taking(i)' \subseteq Taking(i) \/ stock[i] > 0
    BY <1>4, LocalShelf DEF Moves, Taking, Taker, Buyer
  <2>2. \A u \in Users, i \in DOMAIN Limit :
          Buying(u, i)' \subseteq Buying(u, i) \/ WithinLimit(u, i)
    BY <1>4, LocalShelf DEF Moves, Buying, Taker, Buyer
  <2>3. QED
    BY <1>4, <2>1, <2>2, LocalShelf DEF Moves, WithinLimit
<1>5. QED
  BY <1>1, <1>2, <1>3, <1>4, NextCases DEF Commit

\* The commit of a redemption takes one piece, for one row, and takes no more.
LEMMA RedeemShelf ==
  ASSUME TypeOK, Steps, NEW p \in Procs, CommitRedeem(p)
  PROVE  LET u == req[p].user
             i == req[p].item
             k == Len(redemptions[u]) + 1
         IN  /\ stock' = [j \in DOMAIN stock |-> IF j = i THEN stock[j] - 1 ELSE stock[j]]
             /\ \A v \in Users : \A j :
                  Owned(v, j)' = Owned(v, j) \union (IF v = u /\ j = i THEN {k} ELSE {})
             /\ k \notin Owned(u, i) /\ u \in Users
             /\ \A j : Redeemed(j)' = Redeemed(j) \union (IF j = i THEN {<<u, k>>} ELSE {})
             /\ <<u, k>> \notin Redeemed(i)
             /\ p \in Taking(i) /\ p \in Buying(u, i)
             /\ \A j : Taking(j)' = Taking(j) \ {p}
             /\ \A v, j : Buying(v, j)' = Buying(v, j) \ {p}
<1> DEFINE u == req[p].user
           i == req[p].item
           k == Len(redemptions[u]) + 1
           row == [item |-> i, price |-> Price[i]]
<1>1. req[p] \in Active /\ u \in Users /\ i \in Items
  BY ActiveRecord DEF CommitRedeem, At, Steps, StepOK, Active
<1>2. /\ redemptions' = [redemptions EXCEPT ![u] = Append(@, row)]
      /\ stock' = [j \in DOMAIN stock |-> IF j = i THEN stock[j] - 1 ELSE stock[j]]
  BY DEF CommitRedeem, RecordRedemption
<1>3. /\ \A v \in Users : DOMAIN redemptions[v] = 1..Len(redemptions[v]) /\ Len(redemptions[v]) \in Nat
      /\ DOMAIN redemptions'[u] = 1..k
      /\ \A n \in 1..Len(redemptions[u]) : redemptions'[u][n] = redemptions[u][n]
      /\ redemptions'[u][k] = row /\ row.item = i
      /\ \A v \in Users : v # u => redemptions'[v] = redemptions[v]
  <2>1. \A v \in Users : redemptions[v] \in Seq([item : Items, price : Int])
    BY DEF TypeOK
  <2>2. redemptions'[u] = Append(redemptions[u], row)
        /\ \A v \in Users : v # u => redemptions'[v] = redemptions[v]
    BY <1>1, <1>2 DEF TypeOK
  <2>3. row \in [item : Items, price : Int]
    BY <1>1, ConfigAssumption
  <2> HIDE DEF row
  <2>4. row.item = i
    BY DEF row
  <2>5. QED
    BY <1>1, <2>1, <2>2, <2>3, <2>4
<1>4. \A v \in Users : \A j : Owned(v, j)' = Owned(v, j) \union (IF v = u /\ j = i THEN {k} ELSE {})
  <2> HIDE DEF row
  <2> TAKE v \in Users
  <2> TAKE j
  <2>1. CASE v # u
    BY <1>3, <2>1 DEF Owned
  <2>2. CASE v = u
    <3>1. 1..k = (1..Len(redemptions[u])) \union {k} /\ k \notin 1..Len(redemptions[u])
      BY <1>1, <1>3
    <3> HIDE DEF k
    <3>2. /\ DOMAIN redemptions[u] = 1..Len(redemptions[u])
          /\ DOMAIN redemptions'[u] = (1..Len(redemptions[u])) \union {k}
          /\ redemptions'[u][k].item = i
          /\ \A n \in 1..Len(redemptions[u]) : redemptions'[u][n] = redemptions[u][n]
      <4>1. u \in Users
        BY <1>1
      <4>2. DOMAIN redemptions[u] = 1..Len(redemptions[u]) /\ redemptions'[u][k].item = i
        BY <1>3, <4>1
      <4>3. DOMAIN redemptions'[u] = 1..k
        BY <1>3
      <4>4. QED
        BY <1>3, <3>1, <4>2, <4>3
    <3>3. /\ Owned(v, j) = {n \in DOMAIN redemptions[u] : redemptions[u][n].item = j}
          /\ Owned(v, j)' = {n \in DOMAIN redemptions'[u] : redemptions'[u][n].item = j}
      BY <2>2 DEF Owned
    <3>4. Owned(v, j)' = Owned(v, j) \union (IF j = i THEN {k} ELSE {})
      BY <3>2, <3>3
    <3>5. QED
      BY <2>2, <3>4
  <2>3. QED
    BY <2>1, <2>2
<1>5. k \notin Owned(u, i)
  BY <1>1, <1>3 DEF Owned
<1> HIDE DEF k
<1>6. /\ \A j : Redeemed(j)' = Redeemed(j) \union (IF j = i THEN {<<u, k>>} ELSE {})
      /\ <<u, k>> \notin Redeemed(i)
  BY <1>1, <1>4, <1>5 DEF Redeemed
<1>7. /\ p \in Taking(i) /\ p \in Buying(u, i)
      /\ \A j : Taking(j)' = Taking(j) \ {p}
      /\ \A v, j : Buying(v, j)' = Buying(v, j) \ {p}
  <2>1. Buyer(req[p]) /\ ~Buyer(req'[p]) /\ ~Taker(req'[p]) /\ \A q \in Procs \ {p} : req'[q] = req[q]
    <3>1. req'[p] = Idle /\ \A q \in Procs \ {p} : req'[q] = req[q]
      BY CommitFrees DEF Commit
    <3>2. Buyer(req[p])
      BY DEF CommitRedeem, At, Buyer
    <3>3. QED
      BY <3>1, <3>2 DEF Idle, Buyer, Taker
  <2>2. QED
    BY <2>1 DEF Taking, Buying, Taker, Buyer
<1>8. QED
  BY <1>1, <1>2, <1>4, <1>5, <1>6, <1>7 DEF k

LEMMA ShelfStep ==
  ASSUME TypeOK, Steps, Shelf, [Next]_vars
  PROVE  Shelf'
<1>1. CASE \A p \in Procs : ~CommitRedeem(p)
  <2>1. UNCHANGED <<stock, redemptions>>
    BY <1>1, QuietShelf
  <2>2. Counted'
    BY <2>1 DEF Shelf, Counted, Redeemed, Owned
  <2>3. ASSUME NEW i \in DOMAIN stock
        PROVE  stock[i] - Cardinality(Taking(i)') > -Cardinality(Procs)
    <3>1. Taking(i) \in SUBSET Procs /\ Taking(i)' \in SUBSET Procs
      BY DEF Taking
    <3>2. stock[i] \in Int
      BY DEF TypeOK
    <3>3. Taking(i)' \subseteq Taking(i) => Cardinality(Taking(i)') <= Cardinality(Taking(i))
      BY <3>1, Crowds, FS_Subset
    <3>4. QED
      BY <1>1, <3>1, <3>2, <3>3, Crowds, QuietShelf DEF Shelf, InStock
  <2>4. ASSUME NEW u \in Users, NEW i \in DOMAIN Limit
        PROVE  Cardinality(Owned(u, i)) + Cardinality(Buying(u, i)') < Limit[i] + Cardinality(Procs)
    <3>1. Buying(u, i) \in SUBSET Procs /\ Buying(u, i)' \in SUBSET Procs
      BY DEF Buying
    <3>2. Limit[i] \in Nat /\ Cardinality(Owned(u, i)) \in Nat
      BY OwnedFinite, ConfigAssumption
    <3>3. Buying(u, i)' \subseteq Buying(u, i) => Cardinality(Buying(u, i)') <= Cardinality(Buying(u, i))
      BY <3>1, Crowds, FS_Subset
    <3>4. QED
      BY <1>1, <3>1, <3>2, <3>3, Crowds, QuietShelf DEF Shelf, InLimit
  <2>5. InStock' /\ InLimit'
    BY <2>1, <2>3, <2>4 DEF InStock, InLimit, Owned
  <2>6. QED
    BY <2>2, <2>5 DEF Shelf
<1>2. ASSUME NEW p \in Procs, CommitRedeem(p) PROVE Shelf'
  <2> DEFINE u == req[p].user
             i == req[p].item
             k == Len(redemptions[u]) + 1
  <2> HIDE DEF u, i, k
  <2>1. /\ stock' = [j \in DOMAIN stock |-> IF j = i THEN stock[j] - 1 ELSE stock[j]]
        /\ \A v \in Users : \A j : Owned(v, j)' = Owned(v, j) \union (IF v = u /\ j = i THEN {k} ELSE {})
        /\ k \notin Owned(u, i) /\ u \in Users
        /\ \A j : Redeemed(j)' = Redeemed(j) \union (IF j = i THEN {<<u, k>>} ELSE {})
        /\ <<u, k>> \notin Redeemed(i)
        /\ p \in Taking(i) /\ p \in Buying(u, i)
        /\ \A j : Taking(j)' = Taking(j) \ {p}
        /\ \A v, j : Buying(v, j)' = Buying(v, j) \ {p}
    BY <1>2, RedeemShelf DEF u, i, k
  <2>2. ASSUME NEW j \in DOMAIN stock
        PROVE  /\ IsFiniteSet(Redeemed(j)') /\ stock'[j] + Cardinality(Redeemed(j)') = InitStock[j]
               /\ stock'[j] - Cardinality(Taking(j)') > -Cardinality(Procs)
    <3>1. stock[j] \in Int /\ InitStock[j] \in Int
      BY ConfigAssumption DEF TypeOK
    <3>2. IsFiniteSet(Redeemed(j)) /\ Cardinality(Redeemed(j)) \in Nat
      BY FS_CardinalityType DEF Shelf, Counted
    <3>3. Taking(j) \in SUBSET Procs
      BY DEF Taking
    <3>4. CASE j = i
      <4>1. stock'[j] = stock[j] - 1
        BY <2>1, <3>4
      <4>2. IsFiniteSet(Redeemed(j)') /\ Cardinality(Redeemed(j)') = Cardinality(Redeemed(j)) + 1
        BY <2>1, <3>2, <3>4, FS_AddElement
      <4>3. Cardinality(Taking(j)') = Cardinality(Taking(j)) - 1
        BY <2>1, <3>3, <3>4, Crowds, FS_RemoveElement
      <4>4. QED
        BY <3>1, <3>2, <3>3, <4>1, <4>2, <4>3, Crowds DEF Shelf, Counted, InStock
    <3>5. CASE j # i
      <4>1. stock'[j] = stock[j] /\ Redeemed(j)' = Redeemed(j)
        BY <2>1, <3>5
      <4>2. Cardinality(Taking(j)') <= Cardinality(Taking(j)) /\ Taking(j)' \in SUBSET Procs
        BY <2>1, <3>3, Crowds, FS_Subset
      <4>3. QED
        BY <3>1, <3>2, <3>3, <4>1, <4>2, Crowds DEF Shelf, Counted, InStock
    <3>6. QED
      BY <3>4, <3>5
  <2>3. ASSUME NEW v \in Users, NEW j \in DOMAIN Limit
        PROVE  Cardinality(Owned(v, j)') + Cardinality(Buying(v, j)') < Limit[j] + Cardinality(Procs)
    <3>1. Limit[j] \in Nat /\ IsFiniteSet(Owned(v, j)) /\ Cardinality(Owned(v, j)) \in Nat
      BY OwnedFinite, ConfigAssumption
    <3>2. Buying(v, j) \in SUBSET Procs
      BY DEF Buying
    <3>3. CASE v = u /\ j = i
      <4>1. Cardinality(Owned(v, j)') = Cardinality(Owned(v, j)) + 1
        BY <2>1, <3>1, <3>3, FS_AddElement
      <4>2. Cardinality(Buying(v, j)') = Cardinality(Buying(v, j)) - 1
        BY <2>1, <3>2, <3>3, Crowds, FS_RemoveElement
      <4>4. /\ Cardinality(Owned(v, j)) + Cardinality(Buying(v, j)) < Limit[j] + Cardinality(Procs)
            /\ Cardinality(Buying(v, j)) \in Nat /\ Cardinality(Procs) \in Nat
        BY <3>2, Crowds DEF Shelf, InLimit
      <4>5. ASSUME NEW o \in Nat, NEW b \in Nat, NEW l \in Nat, NEW m \in Nat, o + b < l + m
            PROVE  (o + 1) + (b - 1) < l + m
        BY <4>5
      <4>6. (Cardinality(Owned(v, j)) + 1) + (Cardinality(Buying(v, j)) - 1) < Limit[j] + Cardinality(Procs)
        BY ONLY <3>1, <4>4, <4>5
      <4>3. QED
        BY ONLY <4>1, <4>2, <4>6
    <3>4. CASE ~(v = u /\ j = i)
      <4>1. Owned(v, j)' = Owned(v, j)
        <5>1. Owned(v, j)' = Owned(v, j) \union (IF v = u /\ j = i THEN {k} ELSE {})
          BY <2>1
        <5>2. QED
          BY <3>4, <5>1
      <4>2. Cardinality(Buying(v, j)') <= Cardinality(Buying(v, j)) /\ Buying(v, j)' \in SUBSET Procs
        BY <2>1, <3>2, Crowds, FS_Subset
      <4>3. QED
        BY <3>1, <3>2, <4>1, <4>2, Crowds DEF Shelf, InLimit
    <3>5. QED
      BY <3>3, <3>4
  <2>4. DOMAIN stock' = DOMAIN stock
    BY <2>1
  <2>5. QED
    BY <2>2, <2>3, <2>4 DEF Shelf, Counted, InStock, InLimit
<1>3. QED
  BY <1>1, <1>2

LEMMA ShelfInit == Init => Shelf
<1> SUFFICES ASSUME Init PROVE Shelf
  OBVIOUS
<1>1. TypeOK
  BY InitType
<1>2. /\ \A u \in Users : \A i : Owned(u, i) = {}
      /\ \A u, i : Taking(i) = {} /\ Buying(u, i) = {}
  BY DEF Init, EconInit, Idle, Owned, Taking, Buying, Taker, Buyer
<1>3. \A i : Redeemed(i) = {}
  BY <1>2 DEF Redeemed
<1>4. IsFiniteSet({}) /\ Cardinality({}) = 0
  BY FS_EmptySet
<1>5. Cardinality(Procs) \in Nat /\ Cardinality(Procs) > 0
  BY ConfigAssumption, FS_EmptySet, FS_CardinalityType
<1>6. \A i \in DOMAIN stock : stock[i] = InitStock[i] /\ stock[i] \in Nat
  BY ConfigAssumption DEF Init
<1>7. \A i \in DOMAIN Limit : Limit[i] \in Nat
  BY ConfigAssumption
<1>8. Counted
  BY <1>3, <1>4, <1>6 DEF Counted
<1>9. InStock
  <2> SUFFICES ASSUME NEW i \in DOMAIN stock
               PROVE  stock[i] - Cardinality(Taking(i)) > -Cardinality(Procs)
    BY DEF InStock
  <2>1. Cardinality(Taking(i)) = 0
    BY <1>2, <1>4
  <2>2. QED
    BY <1>5, <1>6, <2>1
<1>10. InLimit
  <2> SUFFICES ASSUME NEW u \in Users, NEW i \in DOMAIN Limit
               PROVE  Cardinality(Owned(u, i)) + Cardinality(Buying(u, i)) < Limit[i] + Cardinality(Procs)
    BY DEF InLimit
  <2>1. Cardinality(Owned(u, i)) = 0 /\ Cardinality(Buying(u, i)) = 0
    BY <1>2, <1>4
  <2>2. QED
    BY <1>5, <1>7, <2>1
<1>11. QED
  BY <1>8, <1>9, <1>10 DEF Shelf

\* What has left the shelf is what has been redeemed, and the unguarded checks
\* of stock and limit are overrun by fewer pieces than there are slots.
THEOREM ShelfIsSound == Spec => []ShelfSound
<1>1. IInv /\ Shelf /\ [Next]_vars => (IInv /\ Shelf)'
  <2> SUFFICES ASSUME IInv, Shelf, [Next]_vars PROVE (IInv /\ Shelf)'
    OBVIOUS
  <2>1. TypeOK' /\ Steps'
    BY TypeStep, StepsStep DEF IInv
  <2>2. Began' /\ KeyLock'
    BY BeganStep, KeyStep
  <2>3. QED
    BY <2>1, <2>2, WalletStep, DayStep, ShelfStep DEF IInv
<1>2. IInv /\ Shelf => ShelfSound
  <2> SUFFICES ASSUME IInv, Shelf PROVE ShelfSound
    OBVIOUS
  <2>1. TypeOK
    BY DEF IInv
  <2>2. StockAccounting
    BY DEF Shelf, Counted, StockAccounting
  <2>3. ASSUME NEW i \in DOMAIN stock PROVE stock[i] > -Cardinality(Procs)
    <3>1. stock[i] \in Int
      BY <2>1 DEF TypeOK
    <3>2. Taking(i) \in SUBSET Procs
      BY DEF Taking
    <3>3. Cardinality(Taking(i)) \in Nat /\ Cardinality(Procs) \in Nat
      BY <3>2, Crowds
    <3>4. QED
      BY <3>1, <3>3 DEF Shelf, InStock
  <2>4. ASSUME NEW u \in Users, NEW i \in DOMAIN Limit
        PROVE  Cardinality(Owned(u, i)) < Limit[i] + Cardinality(Procs)
    <3>1. Limit[i] \in Nat /\ Cardinality(Owned(u, i)) \in Nat
      BY <2>1, OwnedFinite, ConfigAssumption
    <3>2. Buying(u, i) \in SUBSET Procs
      BY DEF Buying
    <3>3. QED
      BY <3>1, <3>2, Crowds DEF Shelf, InLimit
  <2>5. QED
    BY <2>2, <2>3, <2>4 DEF ShelfSound, OverrunBounded
<1>3. QED
  BY <1>1, <1>2, InitInv, ShelfInit, PTL DEF Spec
-----------------------------------------------------------------------------
(* The ledger tells all.                                                   *)

LEMMA AppendRow ==
  ASSUME NEW S, NEW rows \in Seq(S), NEW row \in S
  PROVE  /\ DOMAIN Append(rows, row) = 1..(Len(rows) + 1) /\ DOMAIN rows = 1..Len(rows)
         /\ Len(rows) \in Nat /\ Len(Append(rows, row)) = Len(rows) + 1
         /\ Append(rows, row)[Len(rows) + 1] = row
         /\ \A k \in 1..Len(rows) : Append(rows, row)[k] = rows[k]
         /\ Append(rows, row) \in Seq(S)
OBVIOUS

LEMMA SeqFacts ==
  ASSUME NEW S, NEW rows \in Seq(S)
  PROVE  /\ DOMAIN rows = 1..Len(rows) /\ Len(rows) \in Nat
         /\ \A k \in 1..Len(rows) : rows[k] \in S
         /\ rows = [k \in DOMAIN rows |-> rows[k]]
OBVIOUS

LEMMA RowsForMore ==
  ASSUME NEW S, NEW rows \in Seq(S), NEW row \in S, NEW reason
  PROVE  RowsFor(Append(rows, row), reason) =
           RowsFor(rows, reason) \union (IF row.reason = reason THEN {Len(rows) + 1} ELSE {})
BY AppendRow DEF RowsFor

LEMMA RowsForElse ==
  ASSUME NEW S, NEW rows \in Seq(S), NEW row \in S, NEW reason, row.reason # reason
  PROVE  RowsFor(Append(rows, row), reason) = RowsFor(rows, reason)
<1>1. \A k \in DOMAIN Append(rows, row) : k = Len(rows) + 1 \/ k \in DOMAIN rows
  BY AppendRow
<1>2. \A k \in DOMAIN rows : k \in DOMAIN Append(rows, row) /\ Append(rows, row)[k] = rows[k]
  BY AppendRow
<1>3. Append(rows, row)[Len(rows) + 1] = row
  BY AppendRow
<1>4. QED
  BY <1>1, <1>2, <1>3 DEF RowsFor

\* Rewarded survives a row for another reason, a reward that paid nothing, and
\* a reward that paid together with its row.
LEMMA RewardedElse ==
  ASSUME NEW S, NEW rows \in Seq(S), NEW row \in S, NEW reason, NEW coins,
         Rewarded(rows, reason, coins), row.reason # reason
  PROVE  Rewarded(Append(rows, row), reason, coins)
<1>1. RowsFor(Append(rows, row), reason) = RowsFor(rows, reason)
  BY RowsForElse
<1>2. \A k \in RowsFor(rows, reason) : Append(rows, row)[k] = rows[k]
  BY AppendRow DEF RowsFor
<1>3. QED
  BY <1>1, <1>2 DEF Rewarded

LEMMA RewardedUnpaid ==
  ASSUME NEW rows, NEW reason, NEW coins \in Seq(Int), NEW c \in Int,
         Rewarded(rows, reason, coins), ~(c > 0)
  PROVE  Rewarded(rows, reason, Append(coins, c))
BY AppendRow DEF Rewarded

LEMMA RewardedPaid ==
  ASSUME NEW S, NEW rows \in Seq(S), NEW row \in S, NEW reason,
         NEW coins \in Seq(Int), NEW c \in Int,
         Rewarded(rows, reason, coins), c > 0,
         row.reason = reason, row.ref = Len(coins) + 1, row.amount = c
  PROVE  Rewarded(Append(rows, row), reason, Append(coins, c))
<1> DEFINE more == Append(rows, row)
           paid == Append(coins, c)
<1>1. /\ DOMAIN paid = 1..(Len(coins) + 1) /\ DOMAIN coins = 1..Len(coins) /\ Len(coins) \in Nat
      /\ paid[Len(coins) + 1] = c /\ \A n \in 1..Len(coins) : paid[n] = coins[n]
  BY AppendRow
<1>2. /\ RowsFor(more, reason) = RowsFor(rows, reason) \union {Len(rows) + 1}
      /\ more[Len(rows) + 1] = row /\ Len(rows) \in Nat
      /\ \A k \in RowsFor(rows, reason) : k \in 1..Len(rows) /\ more[k] = rows[k]
  BY RowsForMore, AppendRow DEF RowsFor
<1> HIDE DEF more, paid
<1>3. \A k \in RowsFor(more, reason) :
        more[k].ref \in DOMAIN paid /\ paid[more[k].ref] > 0 /\ more[k].amount = paid[more[k].ref]
  <2>1. TAKE k \in RowsFor(more, reason)
  <2>2. CASE k \in RowsFor(rows, reason)
    <3>1. rows[k].ref \in 1..Len(coins) /\ coins[rows[k].ref] > 0 /\ rows[k].amount = coins[rows[k].ref]
      BY <1>1, <2>2 DEF Rewarded
    <3>2. more[k] = rows[k]
      BY <1>2, <2>2
    <3>3. rows[k].ref \in DOMAIN paid /\ paid[rows[k].ref] = coins[rows[k].ref]
      BY <1>1, <3>1
    <3>4. QED
      BY <3>1, <3>2, <3>3
  <2>3. CASE k = Len(rows) + 1
    <3>1. more[k].ref = Len(coins) + 1 /\ more[k].amount = c
      BY <1>2, <2>3
    <3>2. Len(coins) + 1 \in DOMAIN paid
      BY <1>1
    <3>3. QED
      BY <1>1, <3>1, <3>2
  <2>4. QED
    BY <1>2, <2>2, <2>3
<1>4. ASSUME NEW n \in DOMAIN paid, paid[n] > 0 PROVE \E k \in RowsFor(more, reason) : more[k].ref = n
  <2>1. CASE n = Len(coins) + 1
    BY <1>2, <2>1
  <2>2. CASE n # Len(coins) + 1
    <3>1. n \in DOMAIN coins /\ coins[n] > 0
      <4>1. n \in 1..Len(coins)
        BY <1>1, <1>4, <2>2
      <4>2. QED
        BY <1>1, <1>4, <4>1
    <3>2. PICK k \in RowsFor(rows, reason) : rows[k].ref = n
      BY <3>1 DEF Rewarded
    <3>3. QED
      BY <1>2, <3>2
  <2>3. QED
    BY <2>1, <2>2
<1>5. ASSUME NEW j \in RowsFor(more, reason), NEW k \in RowsFor(more, reason), j < k
      PROVE  more[j].ref < more[k].ref
  <2>1. j \in RowsFor(rows, reason) /\ (k \in RowsFor(rows, reason) \/ k = Len(rows) + 1)
    BY <1>2, <1>5
  <2>2. rows[j].ref \in 1..Len(coins)
    BY <1>1, <2>1 DEF Rewarded
  <2>3. CASE k = Len(rows) + 1
    <3>1. more[k].ref = Len(coins) + 1
      BY <1>2, <2>3
    <3>2. more[j].ref = rows[j].ref
      BY <1>2, <2>1
    <3>3. Len(coins) \in Nat
      BY <1>1
    <3>4. QED
      BY <2>2, <3>1, <3>2, <3>3
  <2>4. CASE k \in RowsFor(rows, reason)
    <3>1. rows[j].ref < rows[k].ref
      BY <1>5, <2>1, <2>4 DEF Rewarded
    <3>2. QED
      BY <1>2, <2>1, <2>4, <3>1
  <2>5. QED
    BY <2>1, <2>3, <2>4
<1>6. QED
  BY <1>3, <1>4, <1>5 DEF Rewarded, more, paid

LEMMA BoughtFinite ==
  ASSUME NEW S, NEW rows \in Seq(S), NEW k
  PROVE  IsFiniteSet(Bought(rows, k)) /\ Cardinality(Bought(rows, k)) \in Nat
<1>1. Bought(rows, k) \subseteq 1..Len(rows) /\ IsFiniteSet(1..Len(rows))
  <2>1. DOMAIN rows = 1..Len(rows) /\ Len(rows) \in Nat
    OBVIOUS
  <2>2. IsFiniteSet(1..Len(rows))
    BY <2>1, FS_Interval
  <2>3. QED
    BY <2>1, <2>2 DEF Bought, RowsFor
<1>2. QED
  BY <1>1, FS_Subset, FS_CardinalityType

LEMMA DebitedElse ==
  ASSUME NEW S, NEW rows \in Seq(S), NEW row \in S, NEW bought,
         Debited(rows, bought), row.reason # "STORE_REDEMPTION"
  PROVE  Debited(Append(rows, row), bought)
<1>1. RowsFor(Append(rows, row), "STORE_REDEMPTION") = RowsFor(rows, "STORE_REDEMPTION")
  BY RowsForElse
<1>2. /\ \A k \in RowsFor(rows, "STORE_REDEMPTION") :
           k \in 1..Len(rows) /\ Append(rows, row)[k] = rows[k]
      /\ Len(Append(rows, row)) = Len(rows) + 1 /\ Len(rows) \in Nat
  BY AppendRow DEF RowsFor
<1>3. /\ \A k : Bought(Append(rows, row), k) = Bought(rows, k)
      /\ Bought(rows, Len(rows) + 1) = Bought(rows, Len(rows))
  BY <1>1, <1>2 DEF Bought
<1>4. QED
  BY <1>1, <1>2, <1>3 DEF Debited

LEMMA DebitedMore ==
  ASSUME NEW S, NEW rows \in Seq(S), NEW row \in S,
         NEW T, NEW bought \in Seq(T), NEW b \in T,
         Debited(rows, bought),
         row.reason = "STORE_REDEMPTION", row.ref = b.item, row.amount = -b.price
  PROVE  Debited(Append(rows, row), Append(bought, b))
<1> DEFINE more == Append(rows, row)
           all == Append(bought, b)
           last == Len(rows) + 1
<1>1. /\ RowsFor(more, "STORE_REDEMPTION") = RowsFor(rows, "STORE_REDEMPTION") \union {last}
      /\ more[last] = row /\ Len(more) = last /\ Len(rows) \in Nat /\ last \in Nat
      /\ \A k \in RowsFor(rows, "STORE_REDEMPTION") : k \in 1..Len(rows) /\ more[k] = rows[k]
  BY RowsForMore, AppendRow DEF RowsFor
<1>2. /\ Len(all) = Len(bought) + 1 /\ all[Len(bought) + 1] = b /\ Len(bought) \in Nat
      /\ \A n \in 1..Len(bought) : all[n] = bought[n]
  BY AppendRow
<1> HIDE DEF more, all, last
<1>3. Bought(more, last) = Bought(rows, Len(rows)) \union {last} /\ last \notin Bought(rows, Len(rows))
  <2>1. last \in Nat /\ last <= last
    BY <1>1
  <2>2. \A j \in RowsFor(rows, "STORE_REDEMPTION") : j <= Len(rows) /\ j <= last /\ j # last
    BY <1>1 DEF last
  <2>3. QED
    BY <1>1, <2>1, <2>2 DEF Bought
<1>4. Cardinality(Bought(more, last)) = Len(bought) + 1
  <2>1. IsFiniteSet(Bought(rows, Len(rows)))
    BY BoughtFinite
  <2>2. Cardinality(Bought(rows, Len(rows)) \union {last}) = Cardinality(Bought(rows, Len(rows))) + 1
    BY <1>3, <2>1, FS_AddElement
  <2>3. Cardinality(Bought(rows, Len(rows))) = Len(bought)
    BY DEF Debited
  <2>4. QED
    BY <1>3, <2>2, <2>3
<1>5. ASSUME NEW k \in RowsFor(rows, "STORE_REDEMPTION")
      PROVE  LET n == Cardinality(Bought(more, k))
             IN  more[k].ref = all[n].item /\ more[k].amount = -all[n].price
  <2>1. Bought(more, k) = Bought(rows, k)
    BY <1>1 DEF Bought, last
  <2>2. Bought(rows, k) \subseteq Bought(rows, Len(rows)) /\ k \in Bought(rows, k)
    BY <1>1 DEF Bought
  <2>3. Cardinality(Bought(rows, k)) <= Len(bought)
    BY <2>2, BoughtFinite, FS_Subset DEF Debited
  <2>4. Cardinality(Bought(rows, k)) # 0 /\ Cardinality(Bought(rows, k)) \in Nat
    BY <2>2, BoughtFinite, FS_EmptySet
  <2>5. Cardinality(Bought(rows, k)) \in 1..Len(bought)
    BY <1>2, <2>3, <2>4
  <2>6. QED
    BY <1>1, <1>2, <2>1, <2>5 DEF Debited
<1>6. QED
  BY <1>1, <1>2, <1>4, <1>5 DEF Debited, more, all

\* Of one user, what each atomic step of the economy does to the ledger.
LEMMA AwardTells ==
  ASSUME TypeOK, NEW u \in Users, NEW g \in Nat, NEW b \in Int, NEW a \in Int,
         NEW reason \in {"WHEEL_SPIN", "DAILY_LOGIN"}, NEW coins \in Seq(Int),
         Rewarded(ledger[u], reason, coins),
         Award(u, g, b, a, reason, Len(coins) + 1)
  PROVE  /\ Rewarded(ledger'[u], reason, Append(coins, a))
         /\ \A other \in {"WHEEL_SPIN", "DAILY_LOGIN"} \ {reason} : \A theirs :
              Rewarded(ledger[u], other, theirs) => Rewarded(ledger'[u], other, theirs)
         /\ \A bought : Debited(ledger[u], bought) => Debited(ledger'[u], bought)
         /\ \A v \in Users \ {u} : ledger'[v] = ledger[v]
<1>1. CASE a > 0
  <2> DEFINE row == [amount |-> a, balanceAfter |-> b, reason |-> reason,
                     ref |-> Len(coins) + 1, began |-> g]
  <2>1. /\ row.amount = a /\ row.reason = reason /\ row.ref = Len(coins) + 1
        /\ row \in LedgerRow
    BY <1>1 DEF Award, Post, LedgerRow
  <2>2. ledger[u] \in Seq(LedgerRow)
    BY DEF TypeOK
  <2>3. ledger'[u] = Append(ledger[u], row) /\ \A v \in Users \ {u} : ledger'[v] = ledger[v]
    BY <1>1 DEF Award, Post, TypeOK
  <2> HIDE DEF row
  <2>4. QED
    BY <1>1, <2>1, <2>2, <2>3, RewardedPaid, RewardedElse, DebitedElse
<1>2. CASE ~(a > 0)
  BY <1>2, RewardedUnpaid DEF Award
<1>3. QED
  BY <1>1, <1>2

LEMMA TellsStep ==
  ASSUME TypeOK, LedgerTellsAll, [EconNext]_econ
  PROVE  LedgerTellsAll'
<1>1. CASE UNCHANGED econ \/ Midnight
  BY <1>1 DEF econ, Midnight, LedgerTellsAll, SpinCoins, ClaimCoins
<1>2. ASSUME NEW u \in Users, NEW d \in 0..today, NEW s \in Segments, SpinWheel(u, d, s)
      PROVE  LedgerTellsAll'
  <2>1. s.coins \in Int /\ SpinCoins(u) \in Seq(Int) /\ Len(SpinCoins(u)) = Len(spins[u])
    <3>1. \A t \in Segments : t.coins \in Int
      BY ConfigAssumption
    <3>2. spins[u] \in Seq([day : Nat, segment : Segments])
      BY DEF TypeOK
    <3>3. /\ DOMAIN spins[u] = 1..Len(spins[u]) /\ Len(spins[u]) \in Nat
          /\ \A k \in 1..Len(spins[u]) : spins[u][k].segment \in Segments
      <4>1. /\ DOMAIN spins[u] = 1..Len(spins[u]) /\ Len(spins[u]) \in Nat
            /\ \A k \in 1..Len(spins[u]) : spins[u][k] \in [day : Nat, segment : Segments]
        BY <3>2, SeqFacts
      <4>2. QED
        BY <4>1
    <3>4. SpinCoins(u) = [k \in 1..Len(spins[u]) |-> spins[u][k].segment.coins]
      BY <3>3 DEF SpinCoins
    <3>5. \A k \in 1..Len(spins[u]) : spins[u][k].segment.coins \in Int
      BY <3>1, <3>3
    <3>6. QED
      BY <3>1, <3>3, <3>4, <3>5
  <2>2. /\ spins'[u] = Append(spins[u], [day |-> d, segment |-> s])
        /\ \A v \in Users \ {u} : spins'[v] = spins[v]
    BY <1>2 DEF SpinWheel, RecordSpin, TypeOK
  <2>3. SpinCoins(u)' = Append(SpinCoins(u), s.coins)
    <3>1. spins[u] \in Seq([day : Nat, segment : Segments])
          /\ [day |-> d, segment |-> s] \in [day : Nat, segment : Segments]
      <4>1. d \in Nat
        BY DEF TypeOK
      <4>2. spins[u] \in Seq([day : Nat, segment : Segments])
        BY DEF TypeOK
      <4>3. QED
        BY <4>1, <4>2
    <3>2. \A k \in DOMAIN spins'[u] :
            spins'[u][k].segment.coins = Append(SpinCoins(u), s.coins)[k]
      BY <2>1, <2>2, <3>1, AppendRow DEF SpinCoins
    <3>3. DOMAIN spins'[u] = 1..(Len(spins[u]) + 1)
          /\ DOMAIN Append(SpinCoins(u), s.coins) = 1..(Len(spins[u]) + 1)
      BY <2>1, <2>2, <3>1, AppendRow
    <3>4. Append(SpinCoins(u), s.coins) = [k \in DOMAIN spins'[u] |-> Append(SpinCoins(u), s.coins)[k]]
      BY <2>1, <3>3, AppendRow
    <3>5. QED
      BY <3>2, <3>4 DEF SpinCoins
  <2>4. PICK g \in 0..Len(ledger[u]) : \E seen \in Seen(u, g) :
          Award(u, g, seen + s.coins, s.coins, "WHEEL_SPIN", Len(SpinCoins(u)) + 1)
    BY <1>2, <2>1 DEF SpinWheel
  <2>5. PICK seen \in Seen(u, g) :
          Award(u, g, seen + s.coins, s.coins, "WHEEL_SPIN", Len(SpinCoins(u)) + 1)
    BY <2>4
  <2>6. /\ claims' = claims /\ redemptions' = redemptions
        /\ \A v \in Users : ClaimCoins(v)' = ClaimCoins(v)
        /\ \A v \in Users \ {u} : SpinCoins(v)' = SpinCoins(v)
    BY <1>2, <2>2 DEF SpinWheel, ClaimCoins, SpinCoins
  <2>7. g \in Nat /\ seen + s.coins \in Int
    BY <2>1, SeenType
  <2>8. /\ Rewarded(ledger'[u], "WHEEL_SPIN", SpinCoins(u)')
        /\ Rewarded(ledger'[u], "DAILY_LOGIN", ClaimCoins(u)')
        /\ Debited(ledger'[u], redemptions'[u])
        /\ \A v \in Users \ {u} : ledger'[v] = ledger[v]
    BY <2>1, <2>3, <2>5, <2>6, <2>7, AwardTells DEF LedgerTellsAll
  <2>9. QED
    BY <2>6, <2>8 DEF LedgerTellsAll
<1>3. ASSUME NEW u \in Users, NEW d \in 0..today, NEW n \in DOMAIN DailyCoins, ClaimReward(u, d, n)
      PROVE  LedgerTellsAll'
  <2>0. DailyCoins[n] \in Int /\ n \in 1..Len(DailyCoins)
        /\ \A m \in 1..Len(DailyCoins) : DailyCoins[m] \in Int
    BY ConfigAssumption
  <2>1. ClaimCoins(u) \in Seq(Int) /\ Len(ClaimCoins(u)) = Len(claims[u])
    <3>1. claims[u] \in Seq([day : Nat, dayNumber : 1..Len(DailyCoins)])
      BY DEF TypeOK
    <3>2. /\ DOMAIN claims[u] = 1..Len(claims[u]) /\ Len(claims[u]) \in Nat
          /\ \A k \in 1..Len(claims[u]) : claims[u][k].dayNumber \in 1..Len(DailyCoins)
      <4>1. /\ DOMAIN claims[u] = 1..Len(claims[u]) /\ Len(claims[u]) \in Nat
            /\ \A k \in 1..Len(claims[u]) : claims[u][k] \in [day : Nat, dayNumber : 1..Len(DailyCoins)]
        <5>1. PICK S : S = [day : Nat, dayNumber : 1..Len(DailyCoins)]
          OBVIOUS
        <5>2. claims[u] \in Seq(S)
          BY <3>1, <5>1
        <5>3. /\ DOMAIN claims[u] = 1..Len(claims[u]) /\ Len(claims[u]) \in Nat
              /\ \A k \in 1..Len(claims[u]) : claims[u][k] \in S
          BY <5>2, SeqFacts
        <5>4. QED
          BY <5>1, <5>3
      <4>2. QED
        BY <4>1
    <3>3. ClaimCoins(u) = [k \in 1..Len(claims[u]) |-> DailyCoins[claims[u][k].dayNumber]]
      BY <3>2 DEF ClaimCoins
    <3>4. \A k \in 1..Len(claims[u]) : DailyCoins[claims[u][k].dayNumber] \in Int
      BY <2>0, <3>2
    <3>5. QED
      BY <3>2, <3>3, <3>4
  <2>2. /\ claims'[u] = Append(claims[u], [day |-> d, dayNumber |-> n])
        /\ \A v \in Users \ {u} : claims'[v] = claims[v]
    BY <1>3 DEF ClaimReward, RecordClaim, TypeOK
  <2>3. ClaimCoins(u)' = Append(ClaimCoins(u), DailyCoins[n])
    <3>1. claims[u] \in Seq([day : Nat, dayNumber : 1..Len(DailyCoins)])
          /\ [day |-> d, dayNumber |-> n] \in [day : Nat, dayNumber : 1..Len(DailyCoins)]
      <4>1. d \in Nat
        BY DEF TypeOK
      <4>2. claims[u] \in Seq([day : Nat, dayNumber : 1..Len(DailyCoins)])
        BY DEF TypeOK
      <4>3. n \in 1..Len(DailyCoins)
        BY <2>0
      <4>4. QED
        BY <4>1, <4>2, <4>3
    <3>2. \A k \in DOMAIN claims'[u] :
            DailyCoins[claims'[u][k].dayNumber] = Append(ClaimCoins(u), DailyCoins[n])[k]
      <4>1. /\ DOMAIN claims'[u] = 1..(Len(claims[u]) + 1) /\ DOMAIN claims[u] = 1..Len(claims[u])
            /\ Len(claims[u]) \in Nat /\ claims'[u][Len(claims[u]) + 1].dayNumber = n
            /\ \A k \in 1..Len(claims[u]) : claims'[u][k] = claims[u][k]
        BY <2>2, <3>1, AppendRow
      <4>2. /\ Append(ClaimCoins(u), DailyCoins[n])[Len(claims[u]) + 1] = DailyCoins[n]
            /\ \A k \in 1..Len(claims[u]) : Append(ClaimCoins(u), DailyCoins[n])[k] = ClaimCoins(u)[k]
        BY <2>0, <2>1, AppendRow
      <4>3. \A k \in 1..Len(claims[u]) : ClaimCoins(u)[k] = DailyCoins[claims[u][k].dayNumber]
        BY <4>1 DEF ClaimCoins
      <4>4. TAKE k \in DOMAIN claims'[u]
      <4>5. k \in 1..Len(claims[u]) \/ k = Len(claims[u]) + 1
        BY <4>1
      <4>6. QED
        BY <4>1, <4>2, <4>3, <4>5
    <3>3. DOMAIN claims'[u] = 1..(Len(claims[u]) + 1)
          /\ DOMAIN Append(ClaimCoins(u), DailyCoins[n]) = 1..(Len(claims[u]) + 1)
      BY <2>0, <2>1, <2>2, <3>1, AppendRow
    <3>4. Append(ClaimCoins(u), DailyCoins[n]) = [k \in DOMAIN claims'[u] |-> Append(ClaimCoins(u), DailyCoins[n])[k]]
      <4>1. DailyCoins[n] \in Int /\ ClaimCoins(u) \in Seq(Int)
        BY <2>0, <2>1
      <4>2. Append(ClaimCoins(u), DailyCoins[n]) \in Seq(Int)
        BY <4>1, AppendRow
      <4>3. QED
        <5>1. PICK x \in Seq(Int) : x = Append(ClaimCoins(u), DailyCoins[n])
          BY <4>2
        <5>2. x = [k \in DOMAIN x |-> x[k]]
          BY SeqFacts
        <5>3. DOMAIN x = DOMAIN claims'[u]
          BY <3>3, <5>1
        <5>4. QED
          BY <5>1, <5>2, <5>3
    <3>5. QED
      BY <3>2, <3>4 DEF ClaimCoins
  <2>4. PICK g \in 0..Len(ledger[u]) : \E seen \in Seen(u, g) :
          Award(u, g, seen + DailyCoins[n], DailyCoins[n], "DAILY_LOGIN", Len(ClaimCoins(u)) + 1)
    BY <1>3, <2>1 DEF ClaimReward
  <2>5. PICK seen \in Seen(u, g) :
          Award(u, g, seen + DailyCoins[n], DailyCoins[n], "DAILY_LOGIN", Len(ClaimCoins(u)) + 1)
    BY <2>4
  <2>6. /\ spins' = spins /\ redemptions' = redemptions
        /\ \A v \in Users : SpinCoins(v)' = SpinCoins(v)
        /\ \A v \in Users \ {u} : ClaimCoins(v)' = ClaimCoins(v)
    BY <1>3, <2>2 DEF ClaimReward, ClaimCoins, SpinCoins
  <2>7. g \in Nat /\ seen + DailyCoins[n] \in Int
    BY <2>0, SeenType
  <2>8. /\ Rewarded(ledger'[u], "DAILY_LOGIN", ClaimCoins(u)')
        /\ Rewarded(ledger'[u], "WHEEL_SPIN", SpinCoins(u)')
        /\ Debited(ledger'[u], redemptions'[u])
        /\ \A v \in Users \ {u} : ledger'[v] = ledger[v]
    <3>1. /\ Rewarded(ledger[u], "DAILY_LOGIN", ClaimCoins(u))
          /\ Rewarded(ledger[u], "WHEEL_SPIN", SpinCoins(u))
          /\ Debited(ledger[u], redemptions[u])
      BY DEF LedgerTellsAll
    <3>2. PICK coins \in Seq(Int), c \in Int, b \in Int :
            coins = ClaimCoins(u) /\ c = DailyCoins[n] /\ b = seen + DailyCoins[n]
      BY <2>0, <2>1, <2>7
    <3>3. Award(u, g, b, c, "DAILY_LOGIN", Len(coins) + 1)
      BY <2>5, <3>2
    <3>4. /\ Rewarded(ledger'[u], "DAILY_LOGIN", Append(coins, c))
          /\ \A theirs : Rewarded(ledger[u], "WHEEL_SPIN", theirs) => Rewarded(ledger'[u], "WHEEL_SPIN", theirs)
          /\ \A bought : Debited(ledger[u], bought) => Debited(ledger'[u], bought)
          /\ \A v \in Users \ {u} : ledger'[v] = ledger[v]
      BY <2>7, <3>1, <3>2, <3>3, AwardTells
    <3>5. QED
      BY <2>3, <2>6, <3>1, <3>2, <3>4
  <2>9. QED
    BY <2>6, <2>8 DEF LedgerTellsAll
<1>4. ASSUME NEW u \in Users, NEW i \in Items, Purchase(u, i)
      PROVE  LedgerTellsAll'
  <2>9. PICK g \in 0..Len(ledger[u]) : \E seen \in Seen(u, g) :
          Post(u, g, seen - Price[i], -Price[i], "STORE_REDEMPTION", i)
    BY <1>4 DEF Purchase
  <2>0. PICK seen \in Seen(u, g) :
          Post(u, g, seen - Price[i], -Price[i], "STORE_REDEMPTION", i)
    BY <2>9
  <2> DEFINE row == [amount |-> -Price[i], balanceAfter |-> seen - Price[i],
                     reason |-> "STORE_REDEMPTION", ref |-> i, began |-> g]
             b == [item |-> i, price |-> Price[i]]
  <2>1. row.amount = -b.price /\ row.reason = "STORE_REDEMPTION" /\ row.ref = b.item
    OBVIOUS
  <2>2. row \in LedgerRow /\ b \in [item : Items, price : Int]
    <3>1. Price[i] \in Int /\ seen \in Nat /\ g \in Nat /\ seen - Price[i] >= 0
      BY <2>0, ConfigAssumption, SeenType DEF Post
    <3>2. seen - Price[i] \in Nat /\ -Price[i] \in Int
      BY <3>1
    <3>3. QED
      BY <3>1, <3>2 DEF LedgerRow
  <2>3. /\ ledger[u] \in Seq(LedgerRow) /\ redemptions[u] \in Seq([item : Items, price : Int])
        /\ ledger'[u] = Append(ledger[u], row) /\ redemptions'[u] = Append(redemptions[u], b)
        /\ \A v \in Users \ {u} : ledger'[v] = ledger[v] /\ redemptions'[v] = redemptions[v]
    BY <1>4, <2>0 DEF Purchase, Post, RecordRedemption, TypeOK
  <2> HIDE DEF row, b
  <2>4. /\ Debited(ledger'[u], redemptions'[u])
        /\ \A reason \in {"WHEEL_SPIN", "DAILY_LOGIN"} : \A coins :
             Rewarded(ledger[u], reason, coins) => Rewarded(ledger'[u], reason, coins)
    <3>1. Debited(ledger[u], redemptions[u])
      BY DEF LedgerTellsAll
    <3>2. Debited(ledger'[u], redemptions'[u])
      <4>1. PICK rows \in Seq(LedgerRow) : rows = ledger[u]
        BY <2>3
      <4>2. PICK bought \in Seq([item : Items, price : Int]) : bought = redemptions[u]
        BY <2>3
      <4>3. Debited(Append(rows, row), Append(bought, b))
        BY <2>1, <2>2, <3>1, <4>1, <4>2, DebitedMore
      <4>4. QED
        BY <2>3, <4>1, <4>2, <4>3
    <3>3. \A reason \in {"WHEEL_SPIN", "DAILY_LOGIN"} : row.reason # reason
      BY <2>1
    <3>4. ASSUME NEW reason \in {"WHEEL_SPIN", "DAILY_LOGIN"}, NEW coins, Rewarded(ledger[u], reason, coins)
          PROVE  Rewarded(ledger'[u], reason, coins)
      BY <2>2, <2>3, <3>3, <3>4, RewardedElse
    <3>5. QED
      BY <3>2, <3>4
  <2>5. \A v \in Users : SpinCoins(v)' = SpinCoins(v) /\ ClaimCoins(v)' = ClaimCoins(v)
    BY <1>4 DEF Purchase, SpinCoins, ClaimCoins
  <2>6. QED
    BY <2>3, <2>4, <2>5 DEF LedgerTellsAll
<1>5. QED
  BY <1>1, <1>2, <1>3, <1>4 DEF EconNext

\* The ledger has a row for each reward that paid and each redemption, in
\* their order, and no other: nothing is credited or debited twice, and
\* nothing without a record.
THEOREM LedgerIsComplete == Spec => []LedgerTellsAll
<1>1. Init => LedgerTellsAll
  <2> SUFFICES ASSUME Init, NEW u \in Users
               PROVE  /\ Rewarded(ledger[u], "WHEEL_SPIN", SpinCoins(u))
                      /\ Rewarded(ledger[u], "DAILY_LOGIN", ClaimCoins(u))
                      /\ Debited(ledger[u], redemptions[u])
    BY DEF LedgerTellsAll
  <2>1. ledger[u] = <<>> /\ spins[u] = <<>> /\ claims[u] = <<>> /\ redemptions[u] = <<>>
    BY DEF Init, EconInit
  <2>2. \A reason, k : RowsFor(<<>>, reason) = {} /\ Bought(<<>>, k) = {}
    BY DEF RowsFor, Bought
  <2>3. DOMAIN SpinCoins(u) = {} /\ DOMAIN ClaimCoins(u) = {}
    BY <2>1 DEF SpinCoins, ClaimCoins
  <2>4. QED
    BY <2>1, <2>2, <2>3, FS_EmptySet DEF Rewarded, Debited
<1>2. IInv /\ LedgerTellsAll /\ [Next]_vars => LedgerTellsAll'
  BY EconStep, TellsStep DEF IInv
<1>3. QED
  BY <1>1, <1>2, Invariance, PTL DEF Spec

-----------------------------------------------------------------------------
\* What the proofs use of finite sets.
LEMMA Counting ==
  /\ \A A : IsFiniteSet(A) => Cardinality(A) \in Nat
  /\ \A A : IsFiniteSet(A) => \A B \in SUBSET A : IsFiniteSet(B) /\ Cardinality(B) <= Cardinality(A)
  /\ \A A, x : IsFiniteSet(A) /\ x \notin A =>
       IsFiniteSet(A \union {x}) /\ Cardinality(A \union {x}) = Cardinality(A) + 1
  /\ \A A, x : IsFiniteSet(A) /\ x \in A =>
       IsFiniteSet(A \ {x}) /\ Cardinality(A \ {x}) = Cardinality(A) - 1
  /\ IsFiniteSet({}) /\ Cardinality({}) = 0
  /\ \A a, b \in Int : IsFiniteSet(a..b)
BY FS_CardinalityType, FS_Subset, FS_AddElement, FS_RemoveElement, FS_EmptySet, FS_Interval

-----------------------------------------------------------------------------
(* Reports: figures that are what they say, and add up.                    *)

\* The same of what Reports counts with.
LEMMA ReportsCounting ==
  /\ \A A : F!IsFiniteSet(A) => F!Cardinality(A) \in Nat
  /\ \A A : F!IsFiniteSet(A) => \A B \in SUBSET A : F!IsFiniteSet(B) /\ F!Cardinality(B) <= F!Cardinality(A)
  /\ \A A, x : F!IsFiniteSet(A) /\ x \notin A =>
       F!IsFiniteSet(A \union {x}) /\ F!Cardinality(A \union {x}) = F!Cardinality(A) + 1
  /\ \A A, x : F!IsFiniteSet(A) /\ x \in A =>
       F!IsFiniteSet(A \ {x}) /\ F!Cardinality(A \ {x}) = F!Cardinality(A) - 1
  /\ F!IsFiniteSet({}) /\ F!Cardinality({}) = 0
  /\ \A a, b \in Int : F!IsFiniteSet(a..b)
<1>1. \A A : F!IsFiniteSet(A) <=> IsFiniteSet(A)
  BY DEF F!IsFiniteSet, IsFiniteSet
<1>2. \A A : F!Cardinality(A) = Cardinality(A)
  BY DEF F!Cardinality, Cardinality
<1>3. QED
  BY <1>1, <1>2, Counting

LEMMA CountingTwo ==
  \A A, B : F!IsFiniteSet(A) /\ F!IsFiniteSet(B) /\ A \cap B = {} =>
    F!IsFiniteSet(A \union B) /\ F!Cardinality(A \union B) = F!Cardinality(A) + F!Cardinality(B)
<1> SUFFICES ASSUME NEW A, NEW B, F!IsFiniteSet(A), F!IsFiniteSet(B), A \cap B = {}
             PROVE  F!IsFiniteSet(A \union B) /\ F!Cardinality(A \union B) = F!Cardinality(A) + F!Cardinality(B)
  OBVIOUS
<1>1. /\ F!IsFiniteSet(A \union B)
      /\ F!Cardinality(A \union B) = F!Cardinality(A) + F!Cardinality(B) - F!Cardinality(A \cap B)
  <2>1. \A S : F!IsFiniteSet(S) <=> IsFiniteSet(S)
    BY DEF F!IsFiniteSet, IsFiniteSet
  <2>2. \A S : F!Cardinality(S) = Cardinality(S)
    BY DEF F!Cardinality, Cardinality
  <2>3. IsFiniteSet(A) /\ IsFiniteSet(B)
    BY <2>1
  <2>4. /\ IsFiniteSet(A \union B)
        /\ Cardinality(A \union B) = Cardinality(A) + Cardinality(B) - Cardinality(A \cap B)
    BY <2>3, FS_Union
  <2>5. QED
    BY <2>1, <2>2, <2>4
<1>2. F!Cardinality(A \cap B) = 0 /\ F!Cardinality(A) \in Nat /\ F!Cardinality(B) \in Nat
  BY ReportsCounting
<1>3. QED
  BY <1>1, <1>2

\* The states make up the total.
LEMMA StatesMakeTotal ==
  ASSUME F!ReportsAssumption, F!TypeOK
  PROVE  F!Value("total") = F!Value("open") + F!Value("pending") + F!Value("resolved") + F!Value("archived")
<1> DEFINE K(st) == {t \in F!Kept : ticket[t].state \in {st}}
<1>1. F!Kept \in SUBSET Tickets /\ \A st : K(st) \in SUBSET Tickets
  BY DEF F!Kept
<1>2. F!IsFiniteSet(F!Kept) /\ \A st : F!IsFiniteSet(K(st))
  BY <1>1, ReportsCounting DEF F!ReportsAssumption
<1>3. F!Kept = ((K("OPEN") \union K("PENDING")) \union K("RESOLVED")) \union K("ARCHIVED")
  BY DEF F!Kept, F!TypeOK, F!States
<1>4. /\ K("OPEN") \cap K("PENDING") = {}
      /\ (K("OPEN") \union K("PENDING")) \cap K("RESOLVED") = {}
      /\ ((K("OPEN") \union K("PENDING")) \union K("RESOLVED")) \cap K("ARCHIVED") = {}
  OBVIOUS
<1>5. /\ F!Value("total") = F!Cardinality(F!Kept) /\ F!Value("open") = F!Cardinality(K("OPEN"))
      /\ F!Value("pending") = F!Cardinality(K("PENDING"))
      /\ F!Value("resolved") = F!Cardinality(K("RESOLVED"))
      /\ F!Value("archived") = F!Cardinality(K("ARCHIVED"))
  BY DEF F!Value, F!In
<1> HIDE DEF K
<1>6. /\ F!IsFiniteSet(K("OPEN") \union K("PENDING"))
      /\ F!Cardinality(K("OPEN") \union K("PENDING")) = F!Cardinality(K("OPEN")) + F!Cardinality(K("PENDING"))
  BY <1>2, <1>4, CountingTwo
<1>7. /\ F!IsFiniteSet((K("OPEN") \union K("PENDING")) \union K("RESOLVED"))
      /\ F!Cardinality((K("OPEN") \union K("PENDING")) \union K("RESOLVED"))
           = F!Cardinality(K("OPEN") \union K("PENDING")) + F!Cardinality(K("RESOLVED"))
  BY <1>2, <1>4, <1>6, CountingTwo
<1>8. F!Cardinality(((K("OPEN") \union K("PENDING")) \union K("RESOLVED")) \union K("ARCHIVED"))
        = F!Cardinality((K("OPEN") \union K("PENDING")) \union K("RESOLVED")) + F!Cardinality(K("ARCHIVED"))
  BY <1>2, <1>4, <1>7, CountingTwo
<1>9. QED
  BY <1>3, <1>5, <1>6, <1>7, <1>8

\* A set of numbers has a least one: what holds of all numbers below a number and so
\* of the number itself, holds of all.
LEMMA Least ==
  ASSUME NEW T \in SUBSET Nat, T # {} PROVE \E n \in T : \A m \in T : n <= m
<1> DEFINE Below == OpToRel(<, Nat)
<1>1. IsWellFoundedOn(Below, Nat)
  BY NatLessThanWellFounded
<1>2. \A m, n \in Nat : m < n => <<m, n>> \in Below
  BY DEF OpToRel
<1> HIDE DEF Below
<1>3. PICK n \in T : \A m \in T : <<m, n>> \notin Below
  BY <1>1, WFMin
<1>4. \A m \in T : ~(m < n)
  BY <1>2, <1>3
<1>5. QED
  BY <1>4


\* Two ways to add up the same bars come to the same.
LEMMA AddedOnce ==
  ASSUME NEW N \in Nat, NEW x, NEW s, NEW t, s[0] = t[0],
         \A k \in 1..N : s[k] = s[k - 1] + x[k] /\ t[k] = t[k - 1] + x[k]
  PROVE  \A n \in 0..N : s[n] = t[n]
<1> DEFINE T == {n \in 0..N : s[n] # t[n]}
<1>1. ASSUME T # {} PROVE FALSE
  <2>1. PICK n \in T : \A m \in T : n <= m
    <3>1. T \in SUBSET Nat
      OBVIOUS
    <3> HIDE DEF T
    <3>2. QED
      BY <1>1, <3>1, Least
  <2>2. n \in 0..N /\ s[n] # t[n] /\ n # 0
    OBVIOUS
  <2>3. n \in 1..N /\ n - 1 \in 0..N /\ ~(n <= n - 1)
    BY <2>2
  <2>4. s[n - 1] = t[n - 1]
    BY <2>1, <2>3
  <2>5. s[n] = s[n - 1] + x[n] /\ t[n] = t[n - 1] + x[n]
    BY <2>3
  <2>6. QED
    BY <2>2, <2>4, <2>5
<1>2. QED
  BY <1>1

\* The bars of a chart and the day the window begins with make up the card.
LEMMA BarsMakeTotal ==
  ASSUME F!ReportsAssumption, F!TypeOK, F!PastOnly, NEW field \in {"createdAt", "resolvedAt"},
         NEW bars, bars = [d \in F!Buckets |-> F!On(field, d)]
  PROVE  F!Total(bars) = F!Cardinality(F!InRange(field)) - F!On(field, F!FirstDay)
<1> DEFINE O(d) == {t \in F!InRange(field) : F!Day(ticket[t][field]) = d}
           C(i) == {t \in F!InRange(field) : F!Day(ticket[t][field]) \in (F!FirstDay + 1)..(F!FirstDay + i)}
           x == [i \in 1..Days |-> bars[F!FirstDay + i]]
           s == [i \in 0..Days |-> F!Cardinality(C(i))]
           u == CHOOSE u : u = [i \in 0..Days |-> IF i = 0 THEN 0 ELSE u[i - 1] + bars[F!FirstDay + i]]
<1>1. Days \in Nat /\ clock \in Nat /\ F!FirstDay \in Int /\ F!Day(clock) = F!FirstDay + Days
  BY DEF F!ReportsAssumption, F!TypeOK, F!FirstDay, F!Day
<1>2. F!InRange(field) \in SUBSET Tickets
  BY DEF F!InRange, F!Kept
<1>3. (\A d : F!IsFiniteSet(O(d))) /\ (\A i : F!IsFiniteSet(C(i))) /\ \A i : F!Cardinality(C(i)) \in Nat
  <2>1. \A A \in SUBSET Tickets : F!IsFiniteSet(A) /\ F!Cardinality(A) \in Nat
    BY ReportsCounting DEF F!ReportsAssumption
  <2>2. (\A d : O(d) \in SUBSET Tickets) /\ \A i : C(i) \in SUBSET Tickets
    BY <1>2
  <2> HIDE DEF O, C
  <2>3. QED
    BY <2>1, <2>2
<1>4. ASSUME NEW t \in F!InRange(field)
      PROVE  F!Day(ticket[t][field]) \in F!FirstDay..(F!FirstDay + Days)
  <2>1. /\ ticket[t][field] \in -1..clock /\ ticket[t][field] >= clock - 2 * Days
        /\ Days \in Nat /\ clock \in Nat
    BY <1>1, <1>2 DEF F!InRange, F!PastOnly, F!Since
  <2>2. \A a, b, c \in Int : a >= b - 2 * c /\ a <= b => (a \div 2) >= (b \div 2) - c /\ (a \div 2) <= (b \div 2)
    OBVIOUS
  <2>3. ticket[t][field] \in Int /\ ticket[t][field] <= clock
    BY <2>1
  <2>4. /\ (ticket[t][field] \div 2) >= (clock \div 2) - Days
        /\ (ticket[t][field] \div 2) <= (clock \div 2)
    BY <2>1, <2>2, <2>3
  <2>5. ticket[t][field] \div 2 \in Int /\ clock \div 2 \in Int
    BY <2>3, <1>1
  <2>6. QED
    BY <1>1, <2>4, <2>5 DEF F!Day, F!FirstDay
<1>5. ASSUME NEW i \in 1..Days
      PROVE  C(i) = C(i - 1) \union O(F!FirstDay + i) /\ C(i - 1) \cap O(F!FirstDay + i) = {}
  <2>1. \A d \in Int : /\ d \in (F!FirstDay + 1)..(F!FirstDay + i) <=>
                            d \in (F!FirstDay + 1)..(F!FirstDay + (i - 1)) \/ d = F!FirstDay + i
                       /\ F!FirstDay + i \notin (F!FirstDay + 1)..(F!FirstDay + (i - 1))
    BY <1>1
  <2>2. \A t \in F!InRange(field) : F!Day(ticket[t][field]) \in Int
    BY <1>1, <1>4
  <2>3. QED
    BY <2>1, <2>2
<1>6. C(0) = {} /\ F!InRange(field) = C(Days) \union O(F!FirstDay) /\ C(Days) \cap O(F!FirstDay) = {}
  <2>1. \A d \in F!FirstDay..(F!FirstDay + Days) :
          /\ d \in (F!FirstDay + 1)..(F!FirstDay + Days) \/ d = F!FirstDay
          /\ F!FirstDay \notin (F!FirstDay + 1)..(F!FirstDay + Days)
    BY <1>1
  <2>2. (F!FirstDay + 1)..(F!FirstDay + 0) = {}
    BY <1>1
  <2>3. QED
    BY <1>4, <2>1, <2>2
<1>7. \A d : F!On(field, d) = F!Cardinality(O(d))
  BY DEF F!On
<1>8. \A i \in 1..Days : bars[F!FirstDay + i] = F!Cardinality(O(F!FirstDay + i))
  <2>1. \A i \in 1..Days : F!FirstDay + i \in F!Buckets
    BY <1>1 DEF F!Buckets, F!FirstDay
  <2>2. QED
    BY <1>7, <2>1
<1>9. C(0) = {} /\ F!Cardinality(C(0)) = 0
  BY <1>6, ReportsCounting
<1> HIDE DEF C, O
<1>10. \A i \in 1..Days : F!Cardinality(C(i)) = F!Cardinality(C(i - 1)) + bars[F!FirstDay + i]
  BY <1>3, <1>5, <1>8, CountingTwo
<1>11. s = [i \in 0..Days |-> IF i = 0 THEN 0 ELSE s[i - 1] + bars[F!FirstDay + i]]
  <2>1. \A i \in 0..Days : s[i] = IF i = 0 THEN 0 ELSE s[i - 1] + bars[F!FirstDay + i]
    <3>1. ASSUME NEW i \in 1..Days PROVE s[i] = s[i - 1] + bars[F!FirstDay + i]
      <4>1. i \in 0..Days /\ i - 1 \in 0..Days
        BY <1>1
      <4>2. QED
        BY <1>10, <4>1
    <3>2. s[0] = 0
      BY <1>1, <1>9
    <3>3. \A i \in 0..Days : i = 0 \/ (i # 0 /\ i \in 1..Days)
      BY <1>1
    <3> HIDE DEF s
    <3>4. QED
      BY <3>1, <3>2, <3>3
  <2>2. QED
    BY <2>1
<1>12. u = [i \in 0..Days |-> IF i = 0 THEN 0 ELSE u[i - 1] + bars[F!FirstDay + i]]
  BY <1>11
<1>13. F!Total(bars) = u[Days]
  BY DEF F!Total
<1>14. \A k \in 1..Days : s[k] = s[k - 1] + x[k] /\ u[k] = u[k - 1] + x[k]
  <2>1. \A k \in 1..Days : k \in 0..Days /\ k # 0 /\ x[k] = bars[F!FirstDay + k]
    OBVIOUS
  <2> HIDE DEF s, u, x
  <2>2. \A k \in 0..Days : k # 0 => s[k] = s[k - 1] + bars[F!FirstDay + k]
    BY <1>11
  <2>3. \A k \in 0..Days : k # 0 => u[k] = u[k - 1] + bars[F!FirstDay + k]
    BY <1>12
  <2>4. QED
    BY <2>1, <2>2, <2>3
<1>15. s[0] = 0 /\ u[0] = 0 /\ Days \in 0..Days
  <2>1. 0 \in 0..Days /\ Days \in 0..Days
    BY <1>1
  <2> HIDE DEF s, u
  <2>2. QED
    BY <1>11, <1>12, <2>1
<1>16. s[Days] = F!Cardinality(C(Days))
  BY <1>15
<1> HIDE DEF s, u, x
<1>17. u[Days] = F!Cardinality(C(Days))
  BY <1>1, <1>14, <1>15, <1>16, AddedOnce
<1>18. F!Cardinality(F!InRange(field)) = F!Cardinality(C(Days)) + F!Cardinality(O(F!FirstDay))
  BY <1>3, <1>6, CountingTwo
<1>19. F!Cardinality(C(Days)) \in Nat /\ F!Cardinality(O(F!FirstDay)) \in Nat
  BY <1>3, ReportsCounting
<1>20. QED
  BY <1>7, <1>13, <1>17, <1>18, <1>19

LEMMA ChartsAgree ==
  ASSUME F!ReportsAssumption, F!TypeOK, F!PastOnly
  PROVE  /\ F!Total(F!Value("created")) = F!Value("newInRange") - F!On("createdAt", F!FirstDay)
         /\ F!Total(F!Value("resolvedOn")) = F!Value("resolvedInRange") - F!On("resolvedAt", F!FirstDay)
<1>1. /\ F!Value("created") = [d \in F!Buckets |-> F!On("createdAt", d)]
      /\ F!Value("resolvedOn") = [d \in F!Buckets |-> F!On("resolvedAt", d)]
      /\ F!Value("newInRange") = F!Cardinality(F!InRange("createdAt"))
      /\ F!Value("resolvedInRange") = F!Cardinality(F!InRange("resolvedAt"))
  BY DEF F!Value
<1>2. QED
  BY <1>1, BarsMakeTotal

-----------------------------------------------------------------------------
\* The batches of each report, written out.
LEMMA BatchesAre ==
  /\ DOMAIN F!Batches = {"snapshot", "overview", "trends", "agentPerformance"}
  /\ Len(F!Batches["snapshot"]) = 1 /\ Len(F!Batches["overview"]) = 2
  /\ Len(F!Batches["trends"]) = 1 /\ Len(F!Batches["agentPerformance"]) = 1
  /\ F!Batches["snapshot"][1] = {"openConversations", "unassigned", "health"}
  /\ F!Batches["overview"][1] = {"total", "open", "pending", "resolved", "archived", "newInRange",
                               "resolvedInRange"}
  /\ F!Batches["overview"][2] = {"resolvedTickets"}
  /\ F!Batches["trends"][1] = {"created", "resolvedOn"}
  /\ F!Batches["agentPerformance"][1] = {"resolvedByAgent"}
BY DEF F!Batches

LEMMA QueriesOf ==
  ASSUME NEW r \in DOMAIN F!Batches, NEW i \in 1..Len(F!Batches[r])
  PROVE  /\ F!Batches[r][i] \subseteq F!Queries
         /\ "health" \in F!Batches[r][i] => r = "snapshot"
<1>1. i \in DOMAIN F!Batches[r]
  BY BatchesAre DEF F!Batches
<1>2. F!Batches[r][i] \subseteq F!Queries
  BY <1>1 DEF F!Queries
<1>3. "health" \in F!Batches[r][i] => r = "snapshot"
  BY BatchesAre
<1>4. QED
  BY <1>2, <1>3

\* What the invariant says of one report, still being whether nothing has changed.
Fair(r, still) ==
  /\ DOMAIN r = {"report", "batch", "got"}
  /\ r.report # "none" =>
       /\ r.report \in DOMAIN F!Batches /\ r.batch \in 1..Len(F!Batches[r.report])
       /\ DOMAIN r.got \subseteq F!Queries
       /\ \A i \in 1..(r.batch - 1) : F!Batches[r.report][i] \subseteq DOMAIN r.got
       /\ \A q \in DOMAIN r.got :
            /\ r.got[q].ok \in BOOLEAN /\ (r.report # "snapshot" => r.got[q].ok)
            /\ q = "health" => r.got[q].ok /\ r.report = "snapshot"
            /\ r.got[q].ok /\ still =>
                 r.got[q].value = F!Value(q) \/ (q = "health" /\ r.got[q].value = "unhealthy")

Clocked ==
  /\ ticket \in [Tickets -> [state : F!States \cup {"none"}, agent : BOOLEAN,
                            createdAt : Int, resolvedAt : Int]]
  /\ clock \in Nat /\ moved \subseteq Reporters
  /\ F!PastOnly

LEMMA IInvSplit ==
  F!IInv <=> Clocked /\ DOMAIN report = Reporters /\ \A p \in Reporters : Fair(report[p], p \notin moved)
BY DEF F!IInv, F!TypeOK, F!AnswersAreRead, Clocked, Fair, F!Asked

LEMMA IInvSplitNext ==
  (F!IInv <=> Clocked /\ DOMAIN report = Reporters /\ \A p \in Reporters : Fair(report[p], p \notin moved))'
BY IInvSplit, PTL

\* A step that changes tickets or the clock leaves every report unsure.
LEMMA MoveKeeps ==
  ASSUME F!IInv, Clocked', UNCHANGED report, F!Move
  PROVE  F!IInv'
<1>1. DOMAIN report = Reporters /\ \A p \in Reporters : Fair(report[p], p \notin moved)
  BY IInvSplit
<1>2. ASSUME NEW p \in Reporters PROVE Fair(report[p], p \notin moved)'
  <2>1. report'[p] = report[p] /\ Fair(report[p], p \notin moved)
    BY <1>1
  <2>2. report[p].report # "none" => p \in moved'
    BY DEF F!Move
  <2>3. QED
    BY <2>1, <2>2 DEF Fair
<1>3. QED
  BY <1>1, <1>2, IInvSplitNext

\* The figures are those of the tickets and the clock.
LEMMA ValueKept ==
  ASSUME UNCHANGED <<ticket, clock>>, NEW q
  PROVE  F!Value(q)' = F!Value(q)
<1>1. F!Kept' = F!Kept /\ F!Since' = F!Since /\ F!Buckets' = F!Buckets
  BY DEF F!Kept, F!Since, F!Buckets, F!Day
<1>2. \A f : F!InRange(f)' = F!InRange(f)
  BY <1>1 DEF F!InRange
<1>3. \A f, d : F!On(f, d)' = F!On(f, d)
  BY <1>2 DEF F!On, F!Day
<1>4. \A st : F!In(st)' = F!In(st)
  BY <1>1 DEF F!In
<1>5. QED
  BY <1>1, <1>2, <1>3, <1>4 DEF F!Value

\* A step of one report that leaves it fair.
LEMMA ReportKeeps ==
  ASSUME F!IInv, NEW p \in Reporters, NEW r, report' = [report EXCEPT ![p] = r], UNCHANGED <<ticket, clock>>,
         moved' = moved \/ moved' = moved \ {p}, Fair(r, p \notin moved')
  PROVE  F!IInv'
<1>1. Clocked /\ DOMAIN report = Reporters /\ \A x \in Reporters : Fair(report[x], x \notin moved)
  BY IInvSplit
<1>2. Clocked'
  BY <1>1 DEF Clocked, F!PastOnly
<1>3. ASSUME NEW x \in Reporters PROVE Fair(report[x], x \notin moved)'
  <2>1. \A q : F!Value(q)' = F!Value(q)
    BY ValueKept
  <2>2. CASE x = p
    BY <1>1, <2>1, <2>2 DEF Fair
  <2>3. CASE x # p
    <3>1. report'[x] = report[x] /\ (x \in moved' <=> x \in moved)
      BY <1>1, <2>3
    <3>2. QED
      BY <1>1, <2>1, <3>1 DEF Fair
  <2>4. QED
    BY <2>2, <2>3
<1>4. DOMAIN report' = Reporters
  BY <1>1
<1>5. QED
  BY <1>2, <1>3, <1>4, IInvSplitNext

LEMMA TicketKeeps ==
  ASSUME F!ReportsAssumption, F!IInv, NEW t \in Tickets, F!open(t) \/ F!setState(t) \/ F!assign(t)
  PROVE  F!IInv'
<1>1. Clocked
  BY IInvSplit
<1>2. PICK v : F!Set(t, v) /\ v \in [state : F!States \cup {"none"}, agent : BOOLEAN, createdAt : Int, resolvedAt : Int]
               /\ v.createdAt \in -1..clock /\ v.resolvedAt \in -1..clock
  <2>1. /\ ticket[t].createdAt \in -1..clock /\ ticket[t].resolvedAt \in -1..clock
        /\ ticket[t] \in [state : F!States \cup {"none"}, agent : BOOLEAN, createdAt : Int, resolvedAt : Int]
        /\ clock \in Nat /\ clock \in -1..clock
    BY <1>1 DEF Clocked, F!PastOnly
  <2>2. CASE F!open(t)
    <3>1. PICK v : v = [F!NoTicket EXCEPT !.state = "OPEN", !.createdAt = clock] /\ F!Set(t, v)
      BY <2>2 DEF F!open
    <3>2. v = [state |-> "OPEN", agent |-> FALSE, createdAt |-> clock, resolvedAt |-> -1]
      BY <3>1 DEF F!NoTicket
    <3>4. -1 \in -1..clock /\ -1 \in Int
      BY <2>1
    <3>5. /\ v \in [state : F!States \cup {"none"}, agent : BOOLEAN, createdAt : Int, resolvedAt : Int]
          /\ v.createdAt \in -1..clock /\ v.resolvedAt \in -1..clock
      BY <2>1, <3>2, <3>4 DEF F!States
    <3>3. QED
      BY <3>1, <3>5
  <2>3. CASE F!setState(t)
    <3>1. PICK s \in F!States : F!Set(t, [ticket[t] EXCEPT !.state = s, !.resolvedAt = IF s = "RESOLVED" THEN clock ELSE @])
      BY <2>3 DEF F!setState
    <3>2. PICK v : v = [ticket[t] EXCEPT !.state = s, !.resolvedAt = IF s = "RESOLVED" THEN clock ELSE @]
      OBVIOUS
    <3>3. /\ v \in [state : F!States \cup {"none"}, agent : BOOLEAN, createdAt : Int, resolvedAt : Int]
          /\ v.createdAt = ticket[t].createdAt /\ v.resolvedAt \in {clock, ticket[t].resolvedAt}
      <4>1. PICK n : n = (IF s = "RESOLVED" THEN clock ELSE ticket[t].resolvedAt)
        OBVIOUS
      <4>2. n \in Int /\ n \in {clock, ticket[t].resolvedAt} /\ s \in F!States \cup {"none"}
        BY <2>1, <4>1
      <4>3. v = [ticket[t] EXCEPT !.state = s, !.resolvedAt = n]
        BY <3>2, <4>1
      <4>4. QED
        BY <2>1, <4>2, <4>3
    <3>4. QED
      BY <2>1, <3>1, <3>2, <3>3
  <2>4. CASE F!assign(t)
    <3>1. PICK a \in BOOLEAN : F!Set(t, [ticket[t] EXCEPT !.agent = a])
      BY <2>4 DEF F!assign
    <3>2. QED
      BY <2>1, <3>1
  <2>5. QED
    BY <2>2, <2>3, <2>4
<1>3. ticket' = [ticket EXCEPT ![t] = v] /\ clock' = clock /\ report' = report /\ F!Move
  BY <1>2 DEF F!Set
<1>4. Clocked'
  <2>1. moved' \subseteq Reporters
    BY <1>3 DEF F!Move
  <2>2. ticket' \in [Tickets -> [state : F!States \cup {"none"}, agent : BOOLEAN, createdAt : Int, resolvedAt : Int]]
    BY <1>1, <1>2, <1>3 DEF Clocked
  <2>3. ASSUME NEW x \in Tickets PROVE ticket'[x].createdAt \in -1..clock /\ ticket'[x].resolvedAt \in -1..clock
    <3>1. CASE x = t
      BY <1>1, <1>2, <1>3, <3>1 DEF Clocked
    <3>2. CASE x # t
      BY <1>1, <1>3, <3>2 DEF Clocked, F!PastOnly
    <3>3. QED
      BY <3>1, <3>2
  <2>4. F!PastOnly'
    BY <1>1, <1>3, <2>3 DEF Clocked, F!PastOnly
  <2>5. QED
    BY <1>1, <1>3, <2>1, <2>2, <2>4 DEF Clocked
<1>5. QED
  BY <1>3, <1>4, MoveKeeps

LEMMA TickKeeps == ASSUME F!ReportsAssumption, F!IInv, F!Tick PROVE F!IInv'
<1>1. Clocked
  BY IInvSplit
<1>2. clock' = clock + 1 /\ UNCHANGED <<ticket, report>> /\ F!Move
  BY DEF F!Tick
<1>3. Clocked'
  <2>1. clock \in Nat /\ Days \in Nat /\ clock >= 2 * Days
    BY <1>1 DEF Clocked, F!PastOnly, F!ReportsAssumption
  <2>2. clock' \in Nat /\ clock' >= 2 * Days /\ \A n \in Int : n \in -1..clock => n \in -1..clock'
    BY <1>2, <2>1
  <2>3. \A t \in Tickets, field \in {"createdAt", "resolvedAt"} : ticket'[t][field] \in -1..clock'
    BY <1>1, <1>2, <2>2 DEF Clocked, F!PastOnly
  <2>4. QED
    BY <1>1, <1>2, <2>2, <2>3 DEF Clocked, F!PastOnly, F!Move
<1>4. QED
  BY <1>2, <1>3, MoveKeeps

\* One more answer to a report, as the invariant wants it.
LEMMA GotKeeps ==
  ASSUME F!IInv, NEW p \in Reporters, F!Asked(p), NEW q, q \in F!Batch(p), NEW r,
         report' = F!Got(p, q, r), UNCHANGED <<ticket, clock, moved>>,
         r.ok \in BOOLEAN, report[p].report # "snapshot" => r.ok, q = "health" => r.ok,
         r.ok => r.value = F!Value(q) \/ (q = "health" /\ r.value = "unhealthy")
  PROVE  F!IInv'
<1>1. Fair(report[p], p \notin moved) /\ report[p].report # "none" /\ DOMAIN report = Reporters
  BY IInvSplit DEF F!Asked
<1>2. q \in F!Queries /\ (q = "health" => report[p].report = "snapshot")
  BY <1>1, QueriesOf DEF Fair, F!Batch
<1>3. PICK v : v = [report[p] EXCEPT !.got = [x \in DOMAIN @ \cup {q} |-> IF x = q THEN r ELSE @[x]]]
  OBVIOUS
<1>4. /\ DOMAIN v = {"report", "batch", "got"} /\ v.report = report[p].report /\ v.batch = report[p].batch
      /\ v.got = [x \in DOMAIN report[p].got \cup {q} |-> IF x = q THEN r ELSE report[p].got[x]]
  BY <1>1, <1>3 DEF Fair
<1>5. report' = [report EXCEPT ![p] = v]
  BY <1>1, <1>3 DEF F!Got
<1>6. Fair(v, p \notin moved')
  <2>1. /\ DOMAIN v.got = DOMAIN report[p].got \cup {q} /\ v.got[q] = r
        /\ \A x \in DOMAIN report[p].got : x # q => v.got[x] = report[p].got[x]
    BY <1>4
  <2>2. \A x \in DOMAIN v.got : x = q \/ (x # q /\ x \in DOMAIN report[p].got /\ v.got[x] = report[p].got[x])
    BY <2>1
  <2>3. /\ v.report \in DOMAIN F!Batches /\ v.batch \in 1..Len(F!Batches[v.report])
        /\ DOMAIN v.got \subseteq F!Queries
        /\ \A i \in 1..(v.batch - 1) : F!Batches[v.report][i] \subseteq DOMAIN v.got
    BY <1>1, <1>2, <1>4, <2>1 DEF Fair
  <2>4. ASSUME NEW x \in DOMAIN v.got
        PROVE  /\ v.got[x].ok \in BOOLEAN /\ (v.report # "snapshot" => v.got[x].ok)
               /\ x = "health" => v.got[x].ok /\ v.report = "snapshot"
               /\ v.got[x].ok /\ p \notin moved' =>
                    v.got[x].value = F!Value(x) \/ (x = "health" /\ v.got[x].value = "unhealthy")
    <3>1. CASE x = q
      BY <1>2, <1>4, <2>1, <3>1
    <3>2. CASE x # q
      BY <1>1, <1>4, <2>2, <3>2 DEF Fair
    <3>3. QED
      BY <3>1, <3>2
  <2>5. QED
    BY <1>4, <2>3, <2>4 DEF Fair
<1>7. QED
  BY <1>5, <1>6, ReportKeeps

LEMMA EndKeeps == ASSUME F!IInv, NEW p \in Reporters, F!End(p) PROVE F!IInv'
<1>1. Fair(F!Idle, p \notin moved')
  BY DEF Fair, F!Idle
<1>2. report' = [report EXCEPT ![p] = F!Idle] /\ UNCHANGED <<ticket, clock>> /\ moved' = moved \ {p}
  BY DEF F!End
<1>3. QED
  BY <1>1, <1>2, ReportKeeps

LEMMA AskKeeps ==
  ASSUME F!IInv, NEW p \in Reporters, NEW kind \in DOMAIN F!Batches, F!Ask(p, kind) PROVE F!IInv'
<1>1. PICK v : v = [report |-> kind, batch |-> 1, got |-> F!Nothing]
  OBVIOUS
<1>2. /\ DOMAIN v = {"report", "batch", "got"} /\ v.report = kind /\ v.batch = 1
      /\ v.got = F!Nothing /\ DOMAIN F!Nothing = {}
  BY <1>1 DEF F!Nothing
<1>3. 1 \in 1..Len(F!Batches[kind]) /\ 1..(1 - 1) = {}
  BY BatchesAre
<1>4. Fair(v, p \notin moved')
  BY <1>2, <1>3 DEF Fair
<1>5. QED
  BY <1>1, <1>4, ReportKeeps DEF F!Ask

LEMMA NextBatchKeeps == ASSUME F!IInv, NEW p \in Reporters, F!NextBatch(p) PROVE F!IInv'
<1>1. Fair(report[p], p \notin moved) /\ report[p].report # "none" /\ F!Batch(p) \subseteq DOMAIN report[p].got
  BY IInvSplit DEF F!NextBatch, F!Asked
<1>2. PICK n \in Nat : n = Len(F!Batches[report[p].report])
  BY <1>1, BatchesAre DEF Fair
<1>3. report[p].batch \in 1..n /\ report[p].batch # n
  BY <1>1, <1>2 DEF Fair, F!NextBatch, F!Done, F!Asked
<1>4. PICK v : v = [report[p] EXCEPT !.batch = @ + 1]
  OBVIOUS
<1>5. /\ DOMAIN v = {"report", "batch", "got"} /\ v.report = report[p].report
      /\ v.batch = report[p].batch + 1 /\ v.got = report[p].got
  BY <1>1, <1>4 DEF Fair
<1>6. v.batch \in 1..n /\ \A i \in 1..(v.batch - 1) : i = report[p].batch \/ i \in 1..(report[p].batch - 1)
  BY <1>3, <1>5
<1>7. Fair(v, p \notin moved')
  BY <1>1, <1>2, <1>5, <1>6 DEF Fair, F!Batch, F!NextBatch
<1>8. QED
  BY <1>4, <1>7, ReportKeeps DEF F!NextBatch

\* What a complete answer shows is so, or is said not to have been read.
LEMMA ShownHonest == ASSUME F!IInv PROVE F!FiguresHonest
<1> SUFFICES ASSUME NEW p \in Reporters \ moved, F!Done(p), NEW q \in DOMAIN report[p].got
             PROVE  \/ F!Shown(p, q) = F!Value(q)
                    \/ q \in F!degraded(p) /\ "unread" \in F!alerts(p)
                    \/ q = "health" /\ "dependency" \in F!alerts(p)
  BY DEF F!FiguresHonest
<1>1. Fair(report[p], TRUE) /\ report[p].report # "none"
  BY IInvSplit DEF F!Done, F!Asked
<1>2. CASE ~report[p].got[q].ok
  <2>1. q \in F!degraded(p)
    BY <1>2 DEF F!degraded
  <2>2. "unread" \in F!alerts(p)
    BY <2>1 DEF F!alerts
  <2>3. QED
    BY <2>1, <2>2
<1>3. CASE report[p].got[q].ok
  <2>1. F!Shown(p, q) = report[p].got[q].value
    BY <1>3 DEF F!Shown
  <2>2. CASE q = "health" /\ report[p].got[q].value = "unhealthy"
    BY <2>1, <2>2 DEF F!alerts
  <2>3. QED
    BY <1>1, <1>3, <2>1, <2>2 DEF Fair
<1>4. QED
  BY <1>2, <1>3

LEMMA ShownAgree == ASSUME F!ReportsAssumption, F!IInv PROVE F!FiguresAgree
<1>0. F!TypeOK /\ F!PastOnly
  BY DEF F!IInv
<1>1. ASSUME NEW p \in Reporters \ moved, F!Done(p), report[p].report = "overview" PROVE F!AddUp(p)
  <2>1. Fair(report[p], TRUE)
    BY <1>1, IInvSplit
  <2>2. report[p].batch = 2
    BY <1>1, BatchesAre DEF F!Done
  <2>3. F!Batches["overview"][1] \subseteq DOMAIN report[p].got
    BY <1>1, <2>1, <2>2 DEF Fair
  <2>4. \A q \in {"total", "open", "pending", "resolved", "archived"} :
          q \in DOMAIN report[p].got /\ report[p].got[q].value = F!Value(q)
    BY <1>1, <2>1, <2>3, BatchesAre DEF Fair
  <2>5. QED
    BY <1>0, <2>4, StatesMakeTotal DEF F!AddUp
<1>2. QED
  BY <1>0, <1>1, ChartsAgree DEF F!FiguresAgree

\* The figures are honest and add up.
LEMMA FiguresSound == ASSUME F!ReportsAssumption PROVE F!Spec => []F!FiguresHold
<1>1. F!Init => F!IInv
  <2> SUFFICES ASSUME F!Init PROVE Clocked /\ DOMAIN report = Reporters /\ \A p \in Reporters : Fair(report[p], p \notin moved)
    BY IInvSplit
  <2>1. \A b \in BOOLEAN : Fair(F!Idle, b)
    BY DEF Fair, F!Idle
  <2>2. F!NoTicket = [state |-> "none", agent |-> FALSE, createdAt |-> -1, resolvedAt |-> -1]
    BY DEF F!NoTicket
  <2>3. 2 * Days \in Nat /\ -1 \in -1..(2 * Days) /\ -1 \in Int
    BY DEF F!ReportsAssumption
  <2>4. Clocked
    <3>1. \A t \in Tickets : ticket[t].createdAt = -1 /\ ticket[t].resolvedAt = -1
      BY <2>2 DEF F!Init
    <3>2. F!PastOnly
      BY <2>3, <3>1 DEF F!Init, F!PastOnly
    <3>3. QED
      BY <2>2, <2>3, <3>2 DEF F!Init, Clocked
  <2>5. QED
    BY <2>1, <2>4 DEF F!Init
<1>2. F!IInv /\ [F!Next]_F!vars => F!IInv'
  <2> SUFFICES ASSUME F!IInv, [F!Next]_F!vars PROVE F!IInv'
    OBVIOUS
  <2>1. CASE UNCHANGED F!vars
    <3>1. \A q : F!Value(q)' = F!Value(q)
      BY <2>1, ValueKept DEF F!vars
    <3>2. Clocked' /\ DOMAIN report' = Reporters /\ \A p \in Reporters : Fair(report[p], p \notin moved)'
      BY <2>1, <3>1, IInvSplit DEF F!vars, Clocked, F!PastOnly, Fair
    <3>3. QED
      BY <3>2, IInvSplitNext
  <2>2. ASSUME NEW p \in Reporters, NEW q \in F!Queries, F!Answer(p, q) PROVE F!IInv'
    <3>1. PICK r : r = [ok |-> TRUE, value |-> F!Value(q)]
      OBVIOUS
    <3>2. r.ok = TRUE /\ r.value = F!Value(q)
      BY <3>1
    <3>3. F!Asked(p) /\ q \in F!Batch(p) /\ report' = F!Got(p, q, r) /\ UNCHANGED <<ticket, clock, moved>>
      BY <2>2, <3>1 DEF F!Answer
    <3>4. QED
      BY <3>2, <3>3, GotKeeps
  <2>3. ASSUME NEW p \in Reporters, NEW q \in F!Queries, F!Fail(p, q) PROVE F!IInv'
    <3>1. CASE report[p].report = "snapshot"
      <4>1. PICK r : r = IF q = "health" THEN [ok |-> TRUE, value |-> "unhealthy"] ELSE [ok |-> FALSE]
        OBVIOUS
      <4>2. (q = "health" => r.ok = TRUE /\ r.value = "unhealthy") /\ (q # "health" => r.ok = FALSE)
        BY <4>1
      <4>3. F!Asked(p) /\ q \in F!Batch(p) /\ report' = F!Got(p, q, r) /\ UNCHANGED <<ticket, clock, moved>>
        BY <2>3, <3>1, <4>1 DEF F!Fail
      <4>4. QED
        BY <3>1, <4>2, <4>3, GotKeeps
    <3>2. CASE report[p].report # "snapshot"
      BY <2>3, <3>2, EndKeeps DEF F!Fail
    <3>3. QED
      BY <3>1, <3>2
  <2>4. QED
    BY <2>1, <2>2, <2>3, TicketKeeps, TickKeeps, AskKeeps, NextBatchKeeps, EndKeeps DEF F!Next, F!Respond
<1>3. F!ReportsAssumption /\ F!IInv => F!FiguresHold
  BY ShownHonest, ShownAgree DEF F!FiguresHold
<1>4. QED
  BY <1>1, <1>2, <1>3, PTL DEF F!Spec

-----------------------------------------------------------------------------
(* The composition does what each part does on its own.                      *)

LEMMA PartsOfWallet == EitherSpec => F!Spec
<1>1. EitherInit => F!Init
  BY DEF EitherInit
<1>2. [EitherNext]_<<part, vars, reports>> => [F!Next]_(F!vars)
  BY DEF EitherNext, reports, F!vars
<1>3. QED
  BY <1>1, <1>2, PTL DEF EitherSpec, F!Spec

\* For any tickets, window and reports: a figure is the database's, or is said not to
\* have been read; states make up their total, and bars, by induction, their card.
THEOREM FiguresAreSound == EitherSpec => []FiguresHold
<1>1. F!FiguresHold => FiguresHold
  BY DEF FiguresHold
<1>2. QED
  BY <1>1, PartsOfWallet, FiguresSound, WalletAssumption, PTL

=============================================================================
