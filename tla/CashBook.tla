------------------------------ MODULE CashBook ------------------------------
(***************************************************************************)
(* The money movements of the games (backend/app/modules/play_money.py):   *)
(* a member's spendable points (the sum of points_ledger), what a member   *)
(* has frozen for a table (play_escrows.amount) and what a table's pot     *)
(* holds (play_funds.amount).  A movement is a function from one book to   *)
(* the next; the transactions of the games are compositions of movements.  *)
(* Movements take a vector of amounts, one per member, because a table     *)
(* usually moves the points of all its members in one transaction.         *)
(***************************************************************************)
EXTENDS Integers, FiniteSets, Functions

CONSTANTS
    Users,  \* emby_user_id of the members
    Tables  \* scope and ref of the rounds and tables

Books == [wallet : [Users -> Int], held : [Tables -> [Users -> Nat]], fund : [Tables -> Nat]]

Opened(wallet) == [wallet |-> wallet,
                   held   |-> [t \in Tables |-> [u \in Users |-> 0]],
                   fund   |-> [t \in Tables |-> 0]]

Each(members, amount) == [u \in Users |-> IF u \in members THEN amount ELSE 0]
Only(user, amount)    == Each({user}, amount)

Plus(f, g)     == [u \in Users |-> f[u] + g[u]]
Minus(f, g)    == [u \in Users |-> f[u] - g[u]]
Covers(f, amt) == \A u \in Users : amt[u] > 0 => f[u] >= amt[u]
Sum(f)         == SumFunction(f)

\* points._apply refuses to take what is not there.
CanReserve(b, amt) == Covers(b.wallet, amt)

\* reserve, top_up: spendable points are frozen for a table.
Reserve(b, t, amt) ==
    [wallet |-> Minus(b.wallet, amt),
     held   |-> [b.held EXCEPT ![t] = Plus(@, amt)],
     fund   |-> b.fund]

Consume(b, t, amt) ==
    [wallet |-> b.wallet,
     held   |-> [b.held EXCEPT ![t] = Minus(@, amt)],
     fund   |-> [b.fund EXCEPT ![t] = @ + Sum(amt)]]

\* payout: the pot pays members.
CanPay(b, t, amt) == Sum(amt) <= b.fund[t]

Pay(b, t, amt) ==
    [wallet |-> Plus(b.wallet, amt),
     held   |-> b.held,
     fund   |-> [b.fund EXCEPT ![t] = @ - Sum(amt)]]

\* points.add, and every other feature that earns or spends.
Earn(b, u, delta) ==
    [wallet |-> [b.wallet EXCEPT ![u] = @ + delta], held |-> b.held, fund |-> b.fund]

\* fair_split (play_rounds.py): equal shares, and the remainder one by one
\* to the winners that come first in an order nobody can predict.
FairSplits(total, winners) ==
    LET n == Cardinality(winners) IN
    {[u \in Users |-> IF u \in winners
                      THEN total \div n + (IF u \in lucky THEN 1 ELSE 0) ELSE 0] :
       lucky \in {s \in SUBSET winners : Cardinality(s) = total % n}}

\* Everything anybody owns.
Wealth(b) == Sum(b.wallet) + Sum([t \in Tables |-> Sum(b.held[t]) + b.fund[t]])
=============================================================================
