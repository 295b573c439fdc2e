------------------------------- MODULE Rewards -------------------------------
(***************************************************************************)
(* services/rewards.service.ts: the wheel, the daily ladder, the store and *)
(* the wallet they share, with concurrent requests interleaving at every   *)
(* awaited statement.                                                      *)
(*                                                                         *)
(* A transaction runs at PostgreSQL's READ COMMITTED level.  What it has   *)
(* written lives in its request's record and is applied to the tables by   *)
(* its commit, so nobody else sees it before; the row lock and the unique  *)
(* key it holds until then are read off the request's position.  A crash,  *)
(* a timeout or a failed statement drops the record: the rollback.         *)
(*                                                                         *)
(* Definitions named Fault_... are the seeded faults that show each        *)
(* property can fail; no specification uses them.                          *)
(***************************************************************************)
EXTENDS RewardsEconomy, FiniteSets

CONSTANTS
  Procs,     \* request slots: the requests in flight at one time
  NoItem,    \* the item of a request that is not a redemption
  NoSegment, \* the segment of a request that has not spun
  Unapplied, \* the new balance of a request that has not moved its wallet
  Limit,     \* perUserLimit of the items that have one
  InitStock  \* stock of the items that have one

VARIABLES
  wallets,   \* the users who have a coin_wallets row
  stock,     \* store_items.stock of the items that have one
  req        \* the request in each slot

vars == <<today, balance, ledger, spins, claims, redemptions, wallets, stock, req>>

ASSUME ConfigAssumption ==
  /\ MaxDay \in Nat
  /\ Segments \subseteq [type : {"COINS", "BADGE", "NOTHING"}, coins : Int]
  /\ DOMAIN DailyCoins = 1..Len(DailyCoins) /\ DailyCoins \in Seq(Int)
  /\ Price \in [Items -> Int]
  /\ DOMAIN Limit \subseteq Items /\ Limit \in [DOMAIN Limit -> Nat]
  /\ DOMAIN InitStock \subseteq Items /\ InitStock \in [DOMAIN InitStock -> Nat]
  /\ NoItem \notin Items /\ NoSegment \notin Segments /\ Unapplied \notin Int
  /\ IsFiniteSet(Procs) /\ Procs # {}

Idle == [pc |-> "idle"]

Begin(p, r) ==
  /\ req[p].pc = "idle"
  /\ req' = [req EXCEPT ![p] = r]
  /\ UNCHANGED <<today, balance, ledger, spins, claims, redemptions, wallets, stock>>

\* A step of p's request that changes nothing but its own record.
Advance(p, r) ==
  /\ req' = [req EXCEPT ![p] = r]
  /\ UNCHANGED <<today, balance, ledger, spins, claims, redemptions, wallets, stock>>

At(p, op, pc) == req[p].pc = pc /\ req[p].op = op

\* The request throws: its transaction, if it has one, rolls back.
Throw(p) == Advance(p, Idle)

\* `began' is history: the rows of the user's ledger at that moment.
Request(op, u, pc) ==
  [pc |-> pc, op |-> op, user |-> u, day |-> today, dayNumber |-> 0,
   segment |-> NoSegment, item |-> NoItem, amount |-> 0, newBalance |-> Unapplied,
   began |-> Len(ledger[u])]

-----------------------------------------------------------------------------
(* The wheel. *)

StartSpin(p, u) == Begin(p, Request("spin", u, "read"))

\* The active segments are whatever the admins have made them by now; the
\* weights only decide how likely each of them is.
PickSegment(p) ==
  /\ At(p, "spin", "read")
  /\ \/ \E s \in Segments :
          Advance(p, [req[p] EXCEPT !.pc = "insert", !.segment = s, !.amount = s.coins])
     \/ Throw(p)

-----------------------------------------------------------------------------
(* The daily ladder. *)

StartClaim(p, u) == Begin(p, Request("claim", u, "read"))

\* Consecutive claimed days, counted back from the day d.
Streak(u, d) ==
  CHOOSE k \in 0..Len(DailyCoins) :
    /\ \A j \in 0..(k - 1) : Claimed(u, d - j)
    /\ k = Len(DailyCoins) \/ ~Claimed(u, d - k)

\* getDailyStatus looks for a claim of the day the request began on, and then
\* counts the streak back from the day it is by now.
NextDayNumber(u) ==
  LET length == IF DailyCoins = <<>> THEN 1 ELSE Len(DailyCoins)
  IN  IF Streak(u, today) + 1 <= length THEN Streak(u, today) + 1 ELSE length

ReadDailyStatus(p) ==
  /\ At(p, "claim", "read")
  /\ LET r == req[p]
         n == NextDayNumber(r.user)
     IN  IF Claimed(r.user, r.day) \/ n \notin DOMAIN DailyCoins
         THEN Throw(p)
         ELSE Advance(p, [r EXCEPT !.pc = "insert", !.dayNumber = n, !.amount = DailyCoins[n]])

-----------------------------------------------------------------------------
(* The insert of a spin or a claim, the first statement of their transactions. *)

InsertedKey(q) ==
  req[q].pc \in {"wallet", "open", "update", "commit"} /\ req[q].op \in {"spin", "claim"}

KeyHeld(p) ==
  \E q \in Procs \ {p} :
    /\ InsertedKey(q)
    /\ req[q].op = req[p].op /\ req[q].user = req[p].user /\ req[q].day = req[p].day

KeyTaken(p) ==
  IF req[p].op = "spin" THEN Spun(req[p].user, req[p].day)
                        ELSE Claimed(req[p].user, req[p].day)

\* Seeded fault: no unique index, so nothing refuses the second row of a day.
Fault_InsertRow_NoIndex(p) ==
  /\ req[p].pc = "insert"
  /\ Advance(p, [req[p] EXCEPT !.pc = IF req[p].amount > 0 THEN "wallet" ELSE "commit"])

\* Seeded fault: the P2002 of a second row is swallowed without an answer.
Fault_InsertRow_Silent(p) ==
  /\ req[p].pc = "insert"
  /\ ~KeyHeld(p) /\ ~KeyTaken(p)
  /\ Advance(p, [req[p] EXCEPT !.pc = IF req[p].amount > 0 THEN "wallet" ELSE "commit"])

\* The unique index makes the insert wait for a transaction that holds the
\* key and fail (P2002) once a row has it.
InsertRow(p) ==
  /\ req[p].pc = "insert"
  /\ ~KeyHeld(p)
  /\ IF KeyTaken(p)
     THEN Throw(p)
     ELSE Advance(p, [req[p] EXCEPT !.pc = IF req[p].amount > 0 THEN "wallet" ELSE "commit"])

-----------------------------------------------------------------------------
(* The store. *)

StartRedeem(p, u, i) ==
  Begin(p, [Request("redeem", u, "read") EXCEPT !.item = i, !.amount = -Price[i]])

\* Seeded fault: the stock is not looked at before it is decremented.
Fault_ReadItem_NoStockCheck(p) ==
  At(p, "redeem", "read") /\ Advance(p, [req[p] EXCEPT !.pc = "count"])

\* Refused when the stock read says so, and when the item is gone, inactive
\* or expired by now.
ReadItem(p) ==
  /\ At(p, "redeem", "read")
  /\ \/ /\ req[p].item \in DOMAIN stock => stock[req[p].item] > 0
        /\ Advance(p, [req[p] EXCEPT !.pc = "count"])
     \/ Throw(p)

Owned(u, i) == {k \in DOMAIN redemptions[u] : redemptions[u][k].item = i}

WithinLimit(u, i) == i \in DOMAIN Limit => Cardinality(Owned(u, i)) < Limit[i]

CountOwned(p) ==
  /\ At(p, "redeem", "count")
  /\ IF WithinLimit(req[p].user, req[p].item)
     THEN Advance(p, [req[p] EXCEPT !.pc = "wallet"])
     ELSE Throw(p)

-----------------------------------------------------------------------------
(* The wallet: getOrCreateWallet and applyCoins. *)

\* The upsert of a wallet has nothing to update, so Prisma makes a SELECT of
\* it, and an INSERT when that finds no row.
HasRead(q, u) ==
  /\ req[q].pc \in {"update", "stock", "commit"}
  /\ req[q].user = u /\ req[q].newBalance # Unapplied

\* Another request has inserted u's first wallet row and not committed yet.
RowHeld(p, u) == u \notin wallets /\ \E q \in Procs \ {p} : HasRead(q, u)

\* getBalance and getTransactions open the wallet of a user who has none.
GetBalance(u) ==
  /\ u \notin wallets
  /\ \A p \in Procs : ~HasRead(p, u)
  /\ wallets' = wallets \union {u}
  /\ UNCHANGED <<today, balance, ledger, spins, claims, redemptions, stock, req>>

\* The new balance is computed from the one that was read.
Compute(p) ==
  LET newBalance == balance[req[p].user] + req[p].amount
  IN  IF newBalance < 0
      THEN Throw(p)
      ELSE Advance(p, [req[p] EXCEPT !.newBalance = newBalance, !.pc = "update"])

\* Seeded fault: the upsert resets the balance of the row it finds.
Fault_FindWallet_Resets(p) ==
  /\ req[p].pc = "wallet"
  /\ IF req[p].user \notin wallets
     THEN Advance(p, [req[p] EXCEPT !.pc = "open"])
     ELSE IF req[p].amount < 0
     THEN Throw(p)
     ELSE Advance(p, [req[p] EXCEPT !.newBalance = req[p].amount, !.pc = "update"])

\* The SELECT takes no lock: another request may read the same balance.
FindWallet(p) ==
  /\ req[p].pc = "wallet"
  /\ IF req[p].user \in wallets
     THEN Compute(p)
     ELSE Advance(p, [req[p] EXCEPT !.pc = "open"])

\* The INSERT waits for another of the same user, and fails (P2002) once that
\* has committed.
OpenWallet(p) ==
  /\ req[p].pc = "open"
  /\ ~RowHeld(p, req[p].user)
  /\ IF req[p].user \in wallets THEN Throw(p) ELSE Compute(p)

\* The UPDATE holds the wallet's row until its transaction ends.
HoldsWallet(q, u) ==
  /\ req[q].pc \in {"stock", "commit"}
  /\ req[q].user = u /\ req[q].newBalance # Unapplied

\* The balance is set to the number computed before, whatever it is by now.
UpdateWallet(p) ==
  /\ req[p].pc = "update"
  /\ \A q \in Procs \ {p} : ~HoldsWallet(q, req[p].user)
  /\ Advance(p, [req[p] EXCEPT !.pc = IF req[p].op = "redeem" THEN "stock" ELSE "commit"])

-----------------------------------------------------------------------------
(* The rest of a redemption, and the commits. *)

DecrementedStock(q) ==
  At(q, "redeem", "commit") /\ req[q].item \in DOMAIN stock

\* UPDATE ... SET stock = stock - 1 waits for the item's row.
DecrementStock(p) ==
  /\ At(p, "redeem", "stock")
  /\ \A q \in Procs \ {p} : DecrementedStock(q) => req[q].item # req[p].item
  /\ Advance(p, [req[p] EXCEPT !.pc = "commit"])

\* The wallets there are once r has committed.
Opened(r) == IF r.newBalance = Unapplied THEN wallets ELSE wallets \union {r.user}

CommitSpin(p) ==
  /\ At(p, "spin", "commit")
  /\ LET r == req[p]
     IN  /\ RecordSpin(r.user, r.day, r.segment)
         /\ Award(r.user, r.began, r.newBalance, r.amount, "WHEEL_SPIN", Len(spins[r.user]) + 1)
         /\ wallets' = Opened(r)
  /\ req' = [req EXCEPT ![p] = Idle]
  /\ UNCHANGED <<today, claims, redemptions, stock>>

CommitClaim(p) ==
  /\ At(p, "claim", "commit")
  /\ LET r == req[p]
     IN  /\ RecordClaim(r.user, r.day, r.dayNumber)
         /\ Award(r.user, r.began, r.newBalance, r.amount, "DAILY_LOGIN", Len(claims[r.user]) + 1)
         /\ wallets' = Opened(r)
  /\ req' = [req EXCEPT ![p] = Idle]
  /\ UNCHANGED <<today, spins, redemptions, stock>>

CommitRedeem(p) ==
  /\ At(p, "redeem", "commit")
  /\ LET r == req[p]
     IN  /\ RecordRedemption(r.user, r.item)
         /\ Post(r.user, r.began, r.newBalance, r.amount, "STORE_REDEMPTION", r.item)
         /\ wallets' = Opened(r)
         /\ stock' = [i \in DOMAIN stock |-> IF i = r.item THEN stock[i] - 1 ELSE stock[i]]
  /\ req' = [req EXCEPT ![p] = Idle]
  /\ UNCHANGED <<today, spins, claims>>

-----------------------------------------------------------------------------
(* The environment, and the specification. *)

\* Seeded fault: no transaction around the statements, so a failure late in
\* the request leaves the wallet's movement behind.
Fault_Abort_NoTransaction(p) ==
  /\ req[p].pc # "idle"
  /\ LET r == req[p]
     IN  IF r.pc = "commit" /\ r.newBalance # Unapplied
         THEN Post(r.user, r.began, r.newBalance, r.amount, "STORE_REDEMPTION", r.item)
         ELSE UNCHANGED <<balance, ledger>>
  /\ req' = [req EXCEPT ![p] = Idle]
  /\ UNCHANGED <<today, spins, claims, redemptions, wallets, stock>>

\* A statement fails, or the transaction outlives Prisma's time limit.
Abort(p) == req[p].pc # "idle" /\ Throw(p)

\* The server dies: every open transaction rolls back.
Crash ==
  /\ \E p \in Procs : req[p].pc # "idle"
  /\ req' = [p \in Procs |-> Idle]
  /\ UNCHANGED <<today, balance, ledger, spins, claims, redemptions, wallets, stock>>

NewDay == Midnight /\ UNCHANGED <<wallets, stock, req>>

Init ==
  /\ EconInit
  /\ wallets = {}
  /\ stock = InitStock
  /\ req = [p \in Procs |-> Idle]

Arrive(p) ==
  \E u \in Users : \/ StartSpin(p, u)
                   \/ StartClaim(p, u)
                   \/ \E i \in Items : StartRedeem(p, u, i)

Wait(p)   == InsertRow(p) \/ OpenWallet(p) \/ UpdateWallet(p) \/ DecrementStock(p)
Read(p)   == PickSegment(p) \/ ReadDailyStatus(p) \/ ReadItem(p) \/ CountOwned(p) \/ FindWallet(p)
Commit(p) == CommitSpin(p) \/ CommitClaim(p) \/ CommitRedeem(p)

Next ==
  \/ NewDay
  \/ Crash
  \/ \E u \in Users : GetBalance(u)
  \/ \E p \in Procs : Arrive(p) \/ Read(p) \/ Wait(p) \/ Commit(p) \/ Abort(p)

Spec == Init /\ [][Next]_vars

\* The server runs every statement it can; a statement waiting for a lock is
\* served in turn (PostgreSQL queues the waiters of a row or key).
Fairness == \A p \in Procs : WF_vars(Read(p)) /\ WF_vars(Commit(p)) /\ SF_vars(Wait(p))

FairSpec == Spec /\ Fairness

-----------------------------------------------------------------------------
(* Properties. *)

LedgerRow ==
  [amount : Int, balanceAfter : Nat,
   reason : {"WHEEL_SPIN", "DAILY_LOGIN", "STORE_REDEMPTION"}, ref : Nat \union Items,
   began : Nat]

Active ==
  [pc : {"read", "insert", "count", "wallet", "open", "update", "stock", "commit"},
   op : {"spin", "claim", "redeem"}, user : Users, day : 0..today,
   dayNumber : 0..Len(DailyCoins), segment : Segments \union {NoSegment},
   item : Items \union {NoItem}, amount : Int, newBalance : Nat \union {Unapplied},
   began : Nat]

\* Every table and every request stays well formed; in particular no wallet
\* is ever overdrawn (applyCoins refuses a negative balance).
TypeOK ==
  /\ today \in 0..MaxDay
  /\ balance \in [Users -> Nat]
  /\ ledger \in [Users -> Seq(LedgerRow)]
  /\ spins \in [Users -> Seq([day : Nat, segment : Segments])]
  /\ claims \in [Users -> Seq([day : Nat, dayNumber : 1..Len(DailyCoins)])]
  /\ redemptions \in [Users -> Seq([item : Items, price : Int])]
  /\ wallets \subseteq Users
  /\ stock \in [DOMAIN InitStock -> Int]
  /\ req \in [Procs -> {Idle} \union Active]

\* The wallet shows the balance of its ledger's last row, and every row
\* continues from the balance after an earlier one that its request can have
\* seen: the last of them, unless another of the user's requests committed
\* while this one was in flight.  So a movement is undone only by a request of
\* the user that overlapped with it, though applyCoins reads the wallet
\* unlocked and sets it later.
Continues(u, k) ==
  \E n \in ledger[u][k].began..(k - 1) :
    ledger[u][k].balanceAfter = After(u, n) + ledger[u][k].amount

WalletContinues ==
  \A u \in Users :
    /\ balance[u] = After(u, Len(ledger[u]))
    /\ \A k \in 1..Len(ledger[u]) : Continues(u, k)

\* A user is given one spin and one daily claim per UTC day, however many
\* requests ask and whenever midnight falls.
OneRewardPerDay ==
  \A u \in Users :
    /\ \A j, k \in DOMAIN spins[u]  : spins[u][j].day = spins[u][k].day => j = k
    /\ \A j, k \in DOMAIN claims[u] : claims[u][j].day = claims[u][k].day => j = k

\* The ledger tells exactly what was won and bought, in order: each of its rows
\* for a reward is one that paid, which has that one row only, and its rows for
\* redemptions go along with the redemptions.  Nothing is credited or debited
\* twice, and nothing without a record.
RowsFor(rows, reason) == {k \in DOMAIN rows : rows[k].reason = reason}

Rewarded(rows, reason, coins) ==
  /\ \A k \in RowsFor(rows, reason) :
       /\ rows[k].ref \in DOMAIN coins /\ coins[rows[k].ref] > 0
       /\ rows[k].amount = coins[rows[k].ref]
  /\ \A n \in DOMAIN coins : coins[n] > 0 => \E k \in RowsFor(rows, reason) : rows[k].ref = n
  /\ \A j, k \in RowsFor(rows, reason) : j < k => rows[j].ref < rows[k].ref

\* The rows of redemptions up to the k-th row.
Bought(rows, k) == {j \in RowsFor(rows, "STORE_REDEMPTION") : j <= k}

Debited(rows, bought) ==
  /\ Cardinality(Bought(rows, Len(rows))) = Len(bought)
  /\ \A k \in RowsFor(rows, "STORE_REDEMPTION") :
       LET n == Cardinality(Bought(rows, k))
       IN  rows[k].ref = bought[n].item /\ rows[k].amount = -bought[n].price

SpinCoins(u)  == [n \in DOMAIN spins[u]  |-> spins[u][n].segment.coins]
ClaimCoins(u) == [n \in DOMAIN claims[u] |-> DailyCoins[claims[u][n].dayNumber]]

LedgerTellsAll ==
  \A u \in Users :
    /\ Rewarded(ledger[u], "WHEEL_SPIN", SpinCoins(u))
    /\ Rewarded(ledger[u], "DAILY_LOGIN", ClaimCoins(u))
    /\ Debited(ledger[u], redemptions[u])

\* Why they hold: what every request in flight knows of its own record, ...
StepOK(r) ==
  /\ r.op = "redeem" =>
       /\ r.pc \in {"read", "count", "wallet", "open", "update", "stock", "commit"}
       /\ r.item \in Items /\ r.amount = -Price[r.item]
  /\ r.op = "spin" /\ r.pc # "read" =>
       /\ r.pc \in {"insert", "wallet", "open", "update", "commit"}
       /\ r.segment \in Segments /\ r.amount = r.segment.coins
  /\ r.op = "claim" /\ r.pc # "read" =>
       /\ r.pc \in {"insert", "wallet", "open", "update", "commit"}
       /\ r.dayNumber \in 1..Len(DailyCoins) /\ r.amount = DailyCoins[r.dayNumber]
  /\ r.pc \in {"wallet", "open", "update"} => r.op = "redeem" \/ r.amount > 0
  /\ r.newBalance # Unapplied <=>
       r.pc \in {"update", "stock", "commit"} /\ (r.op = "redeem" \/ r.amount > 0)

Steps == \A p \in Procs : req[p].pc # "idle" => StepOK(req[p])

\* ... that the balance it has computed continues from one the wallet has had
\* since it began, ...
Continuing(p) ==
  LET r == req[p]
  IN  \E n \in r.began..Len(ledger[r.user]) : r.newBalance = After(r.user, n) + r.amount

Began ==
  \A p \in Procs : req[p].pc # "idle" =>
    /\ req[p].began <= Len(ledger[req[p].user])
    /\ req[p].newBalance # Unapplied => Continuing(p)

\* ... and that a request which has inserted its row owns a key no row has.
KeyLock == \A p \in Procs : InsertedKey(p) => ~KeyHeld(p) /\ ~KeyTaken(p)

\* The inductive invariant behind the wallet and the day.
IInv == TypeOK /\ Steps /\ Began /\ KeyLock /\ WalletContinues /\ OneRewardPerDay

\* What has left the shelf is what has been redeemed: no decrement is lost.
Redeemed(i) == UNION {{<<u, k>> : k \in Owned(u, i)} : u \in Users}

StockAccounting ==
  \A i \in DOMAIN stock : stock[i] + Cardinality(Redeemed(i)) = InitStock[i]

\* The checks of stock and limit read before they write, so they can be
\* overrun, but only by the requests that were in flight together with the
\* last rightful one: never by more than the slots allow.
OverrunBounded ==
  /\ \A i \in DOMAIN stock : stock[i] > -Cardinality(Procs)
  /\ \A u \in Users, i \in DOMAIN Limit :
       Cardinality(Owned(u, i)) < Limit[i] + Cardinality(Procs)

\* The shelf: nothing leaves it unrecorded, and it is not emptied much below zero.
ShelfSound == StockAccounting /\ OverrunBounded

\* Every request is answered: no two wait for each other's locks for ever.
RequestsEnd == \A p \in Procs : req[p].pc # "idle" ~> req[p].pc = "idle"

(* What the code says of itself, and does not do: see the README's findings. *)

\* CoinWallet: "`balance` is a cached running total; the authoritative history
\* lives in CoinTransaction": each row continues from the one before it.
WalletMatchesLedger ==
  \A u \in Users :
    /\ balance[u] = After(u, Len(ledger[u]))
    /\ \A k \in 1..Len(ledger[u]) :
         ledger[u][k].balanceAfter = After(u, k - 1) + ledger[u][k].amount

\* redeem: a replayed request can't "oversell stock".
NeverOversold == \A i \in DOMAIN stock : stock[i] >= 0

\* redeem: "a double-click or replayed request can't redeem twice".
LimitRespected ==
  \A u \in Users, i \in DOMAIN Limit : Cardinality(Owned(u, i)) <= Limit[i]

\* getDailyStatus: the streak is the run of consecutive days "ending
\* yesterday", so a claim made the day after a claim is the ladder's next step.
StreakContinues ==
  \A u \in Users : \A j, k \in DOMAIN claims[u] :
    claims[u][k].day = claims[u][j].day + 1 =>
      \/ claims[u][k].dayNumber = claims[u][j].dayNumber + 1
      \/ claims[u][j].dayNumber = Len(DailyCoins)

\* WheelSegment.coinAmount: "Coin amount when rewardType is COINS; ignored
\* otherwise."
OnlyCoinSegmentsPay ==
  \A u \in Users : \A k \in DOMAIN ledger[u] :
    ledger[u][k].reason = "WHEEL_SPIN" => spins[u][ledger[u][k].ref].segment.type = "COINS"
=============================================================================
