--------------------------- MODULE RewardsEconomy ---------------------------
(***************************************************************************)
(* What the rewards economy promises, with every request reduced to the    *)
(* single instant at which its transaction commits: a wallet changes only  *)
(* together with one ledger row, and the row is explained by the spin,     *)
(* claim or redemption that commits with it.  The balance it continues     *)
(* from is one the wallet had while the request was in flight, and need    *)
(* not be the last: the wallet is read, and written later, without a lock  *)
(* in between.  Rewards.tla, in which the requests interleave statement by *)
(* statement, implements this module.                                      *)
(***************************************************************************)
EXTENDS Integers, Sequences

CONSTANTS
  Users,      \* the accounts
  Items,      \* the store items
  Segments,   \* the wheel's segments: [type, coins]
  DailyCoins, \* coins of each step of the daily ladder, indexed by dayNumber
  Price,      \* the price of each item
  MaxDay      \* bound on the days of a behaviour

VARIABLES
  today,       \* the current UTC day, as a number (the code keeps yyyy-mm-dd)
  balance,     \* coin_wallets.balance, 0 where there is no row yet
  ledger,      \* coin_transactions of each user, in commit order
  spins,       \* wheel_spins of each user, in commit order
  claims,      \* daily_reward_claims of each user, in commit order
  redemptions  \* store_redemptions of each user, in commit order

econ == <<today, balance, ledger, spins, claims, redemptions>>

Spun(u, d)    == \E k \in DOMAIN spins[u]  : spins[u][k].day = d
Claimed(u, d) == \E k \in DOMAIN claims[u] : claims[u][k].day = d

EconInit ==
  /\ today = 0
  /\ balance = [u \in Users |-> 0]
  /\ ledger = [u \in Users |-> <<>>]
  /\ spins = [u \in Users |-> <<>>]
  /\ claims = [u \in Users |-> <<>>]
  /\ redemptions = [u \in Users |-> <<>>]

\* The balance after the first n rows of u's ledger.
After(u, n) == IF n = 0 THEN 0 ELSE ledger[u][n].balanceAfter

\* What a request that began when the ledger had `began' rows may have read.
Seen(u, began) == {After(u, n) : n \in began..Len(ledger[u])}

\* Seeded fault: the wallet is incremented, and the row tells what was computed.
Fault_Post_Increments(u, began, newBalance, amount, reason, ref) ==
  /\ newBalance >= 0
  /\ balance' = [balance EXCEPT ![u] = @ + amount]
  /\ ledger' = [ledger EXCEPT ![u] = Append(@,
       [amount |-> amount, balanceAfter |-> newBalance,
        reason |-> reason, ref |-> ref, began |-> began])]

\* A wallet movement and its ledger row, which commit together.  The row's
\* `began' is history, no column: how many rows there were when its request
\* began.
Post(u, began, newBalance, amount, reason, ref) ==
  /\ newBalance >= 0
  /\ balance' = [balance EXCEPT ![u] = newBalance]
  /\ ledger' = [ledger EXCEPT ![u] = Append(@,
       [amount |-> amount, balanceAfter |-> newBalance,
        reason |-> reason, ref |-> ref, began |-> began])]

\* Only a positive prize moves the wallet.
Award(u, began, newBalance, amount, reason, ref) ==
  IF amount > 0 THEN Post(u, began, newBalance, amount, reason, ref)
                ELSE UNCHANGED <<balance, ledger>>

RecordSpin(u, d, s) ==
  spins' = [spins EXCEPT ![u] = Append(@, [day |-> d, segment |-> s])]

RecordClaim(u, d, n) ==
  claims' = [claims EXCEPT ![u] = Append(@, [day |-> d, dayNumber |-> n])]

RecordRedemption(u, i) ==
  redemptions' = [redemptions EXCEPT ![u] = Append(@, [item |-> i, price |-> Price[i]])]

SpinWheel(u, d, s) ==
  /\ ~Spun(u, d)
  /\ RecordSpin(u, d, s)
  /\ \E began \in 0..Len(ledger[u]) : \E seen \in Seen(u, began) :
       Award(u, began, seen + s.coins, s.coins, "WHEEL_SPIN", Len(spins[u]) + 1)
  /\ UNCHANGED <<today, claims, redemptions>>

ClaimReward(u, d, n) ==
  /\ ~Claimed(u, d)
  /\ RecordClaim(u, d, n)
  /\ \E began \in 0..Len(ledger[u]) : \E seen \in Seen(u, began) :
       Award(u, began, seen + DailyCoins[n], DailyCoins[n], "DAILY_LOGIN", Len(claims[u]) + 1)
  /\ UNCHANGED <<today, spins, redemptions>>

\* The item's stock and per-user limit are absent: see the store runs.
Purchase(u, i) ==
  /\ RecordRedemption(u, i)
  /\ \E began \in 0..Len(ledger[u]) : \E seen \in Seen(u, began) :
       Post(u, began, seen - Price[i], -Price[i], "STORE_REDEMPTION", i)
  /\ UNCHANGED <<today, spins, claims>>

Midnight ==
  /\ today < MaxDay
  /\ today' = today + 1
  /\ UNCHANGED <<balance, ledger, spins, claims, redemptions>>

EconNext ==
  \/ Midnight
  \/ \E u \in Users :
       \/ \E d \in 0..today, s \in Segments : SpinWheel(u, d, s)
       \/ \E d \in 0..today, n \in DOMAIN DailyCoins : ClaimReward(u, d, n)
       \/ \E i \in Items : Purchase(u, i)

EconSpec == EconInit /\ [][EconNext]_econ
=============================================================================
