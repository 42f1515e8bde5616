----------------------------- MODULE Transfers -----------------------------
(***************************************************************************)
(* Transfers of points between members, and the points a system            *)
(* administrator gives (points.py, plugins_points.py, group_points.py).  In *)
(* a group the command becomes a stored intent with a confirmation card;   *)
(* the card may be posted twice, answered late, or answered after the       *)
(* accounts, the administrators or the fee have changed.                   *)
(***************************************************************************)
EXTENDS Integers, FiniteSets, SequencesExt, FiniteSetsExt

CONSTANTS
  People, Users, Null,  \* Telegram users, and the accounts they may be bound to
  Points,               \* what every account starts with
  Amounts, Fees,        \* amounts that are sent, and fees the operator may set
  Cap,                  \* daily_limit
  Life,                 \* how long a confirmation is valid
  DayLength, MaxTime,
  MaxIntents, MaxCards, MaxDirect, MaxChanges

TransfersAssumption ==
  /\ Null \notin Users /\ {Points, Cap, Life} \subseteq Nat
  /\ Amounts \subseteq Nat \ {0} /\ Fees \subseteq Nat /\ \A f \in Fees, n \in Amounts : f < n
  /\ DayLength \in Nat \ {0} /\ {MaxTime, MaxIntents, MaxCards, MaxDirect, MaxChanges} \subseteq Nat

VARIABLES
  clock,
  balance,   \* the ledger's balances
  direct,    \* transfers made in a private chat or the mini app, by request id, with their receipts
  intents,   \* the group_points_intents rows, by command message
  cards,     \* the confirmation cards posted: the intent each belongs to
  posting,   \* the card posted whose row is not yet bound to it, or Null
  bound,     \* the account each Telegram user is bound to
  admins,    \* accounts of system administrators
  fee,       \* the fee in force, Null when transfers are switched off
  changes
vars == <<clock, balance, direct, intents, cards, posting, bound, admins, fee, changes>>

DayOf(t) == t \div DayLength
Confirmed == {i \in 1..Len(intents) : intents[i].status = "confirmed"}
Sum(S, F(_)) == MapThenSumSet(F, S)

\* spent_since: what has left an account by transfer since midnight.
SpentOn(u, day) ==
  Sum({i \in Confirmed : intents[i].mode = "transfer" /\ intents[i].from = u /\ DayOf(intents[i].at) = day},
      LAMBDA i : intents[i].amount)
  + Sum({i \in 1..Len(direct) : direct[i].from = u /\ DayOf(direct[i].at) = day},
        LAMBDA i : direct[i].amount)

CanTransfer(u, n) == fee # Null /\ balance[u] >= n /\ SpentOn(u, DayOf(clock)) + n <= Cap

\* The fee is destroyed.
Transferred(u, v, n, f) == [balance EXCEPT ![u] = @ - n, ![v] = @ + n - f]

Init ==
  /\ clock = 0 /\ balance = [u \in Users |-> Points]
  /\ direct = <<>> /\ intents = <<>> /\ cards = <<>> /\ posting = Null
  /\ bound = CHOOSE f \in [People -> Users] : IsInjective(f)
  /\ admins \in SUBSET Users /\ fee \in Fees /\ changes = 0

-----------------------------------------------------------------------------
\* transfer with a request id: a request repeated is answered from its receipt.
Transfer(u, v, n, req) ==
  /\ req = Len(direct) + 1 /\ req <= MaxDirect
  /\ u # v /\ CanTransfer(u, n)
  /\ balance' = Transferred(u, v, n, fee)
  /\ direct' = Append(direct, [from |-> u, to |-> v, amount |-> n, fee |-> fee, at |-> clock])
  /\ UNCHANGED <<clock, intents, cards, posting, bound, admins, fee, changes>>

Mode(u) == IF u \in admins THEN "mint" ELSE "transfer"

\* prepare: a command message becomes one intent, whose terms never change.
Prepare(p, q, n) ==
  /\ Len(intents) < MaxIntents /\ {bound[p], bound[q]} \subseteq Users
  /\ LET u == bound[p]
         v == bound[q]
     IN /\ Mode(u) = "transfer" => u # v /\ CanTransfer(u, n)
        /\ intents' = Append(intents,
             [actor |-> p, target |-> q, from |-> u, to |-> v, amount |-> n, mode |-> Mode(u),
              fee |-> IF Mode(u) = "mint" THEN 0 ELSE fee,
              expires |-> clock + Life, card |-> Null, status |-> "pending", at |-> Null])
  /\ UNCHANGED <<clock, balance, direct, cards, posting, bound, admins, fee, changes>>

\* The card is sent outside the transaction: the first delivery, and every redelivery
\* of the command that finds the row without a card, posts one.
PostCard(i) ==
  /\ posting = Null /\ Len(cards) < MaxCards
  /\ intents[i].card = Null /\ intents[i].status = "pending" /\ clock < intents[i].expires
  /\ cards' = Append(cards, i) /\ posting' = Len(cards) + 1
  /\ UNCHANGED <<clock, balance, direct, intents, bound, admins, fee, changes>>

\* Another delivery of the same command posts while the first still waits for its answer.
PostAgain(i) == posting # Null /\ cards[posting] = i /\ Len(cards) < MaxCards
                /\ intents[i].card = Null /\ intents[i].status = "pending"
                /\ cards' = Append(cards, i)
                /\ intents' = [intents EXCEPT ![i].card = Len(cards) + 1]
                /\ UNCHANGED <<clock, balance, direct, posting, bound, admins, fee, changes>>

BindCard ==
  /\ posting # Null /\ posting' = Null
  /\ LET i == cards[posting] IN
     intents' = IF intents[i].card = Null /\ intents[i].status = "pending"
                THEN [intents EXCEPT ![i].card = posting] ELSE intents
  /\ UNCHANGED <<clock, balance, direct, cards, bound, admins, fee, changes>>

\* The process stops, or the answer never comes: the card posted is bound to nothing.
LoseCard == posting # Null /\ posting' = Null
            /\ UNCHANGED <<clock, balance, direct, intents, cards, bound, admins, fee, changes>>

-----------------------------------------------------------------------------
\* resolve: only by the actor, on the bound card, in time, with everything as agreed.
Answerable(p, c) ==
  LET i == cards[c] IN
  /\ intents[i].actor = p /\ intents[i].card = c
  /\ intents[i].status = "pending" /\ clock < intents[i].expires

AsAgreed(row) ==
  /\ bound[row.actor] = row.from /\ bound[row.target] = row.to
  /\ Mode(row.from) = row.mode
  /\ row.mode = "transfer" => CanTransfer(row.from, row.amount) /\ fee = row.fee

Confirm(p, c) ==
  /\ Answerable(p, c) /\ AsAgreed(intents[cards[c]])
  /\ LET row == intents[cards[c]] IN
     balance' = IF row.mode = "mint" THEN [balance EXCEPT ![row.to] = @ + row.amount]
                ELSE Transferred(row.from, row.to, row.amount, row.fee)
  /\ intents' = [intents EXCEPT ![cards[c]].status = "confirmed", ![cards[c]].at = clock]
  /\ UNCHANGED <<clock, direct, cards, posting, bound, admins, fee, changes>>

Cancel(p, c) ==
  /\ Answerable(p, c)
  /\ intents' = [intents EXCEPT ![cards[c]].status = "cancelled"]
  /\ UNCHANGED <<clock, balance, direct, cards, posting, bound, admins, fee, changes>>

-----------------------------------------------------------------------------
\* A member binds another Telegram user, the administrators or the fee change.
Change ==
  /\ changes < MaxChanges /\ changes' = changes + 1
  /\ \/ \E p \in People, u \in Users \cup {Null} :
          /\ bound' = [q \in People |-> IF q = p THEN u ELSE IF bound[q] = u THEN Null ELSE bound[q]]
          /\ UNCHANGED <<admins, fee>>
     \/ \E u \in Users : admins' = (admins \ {u}) \cup ({u} \ admins) /\ UNCHANGED <<bound, fee>>
     \/ \E f \in Fees \cup {Null} : fee' = f /\ UNCHANGED <<bound, admins>>
  /\ UNCHANGED <<clock, balance, direct, intents, cards, posting>>

Tick == /\ clock < MaxTime /\ clock' = clock + 1
        /\ UNCHANGED <<balance, direct, intents, cards, posting, bound, admins, fee, changes>>

Next ==
  \/ \E u, v \in Users, n \in Amounts, req \in 1..Len(direct) + 1 : Transfer(u, v, n, req)
  \/ \E p, q \in People, n \in Amounts : Prepare(p, q, n)
  \/ \E i \in 1..Len(intents) : PostCard(i) \/ PostAgain(i)
  \/ BindCard \/ LoseCard
  \/ \E p \in People, c \in 1..Len(cards) : Confirm(p, c) \/ Cancel(p, c)
  \/ Change \/ Tick

Spec == Init /\ [][Next]_vars

-----------------------------------------------------------------------------
(* Every account holds what the agreed transfers and gifts leave it with:   *)
(* each carried out once, on the terms its card showed, the fee destroyed; *)
(* no account below zero, and nobody sends more in a day than the limit,    *)
(* by whichever way.                                                       *)
Gain(u, r, given) == (IF r.to = u THEN r.amount - r.fee ELSE 0)
                     - (IF r.from = u /\ ~given THEN r.amount ELSE 0)
LedgerExact ==
  /\ \A u \in Users :
       /\ balance[u] = Points
            + Sum(Confirmed, LAMBDA i : Gain(u, intents[i], intents[i].mode = "mint"))
            + Sum(1..Len(direct), LAMBDA i : Gain(u, direct[i], FALSE))
       /\ balance[u] >= 0
       /\ \A day \in 0..DayOf(MaxTime) : SpentOn(u, day) <= Cap

(* A confirmation counts only on the one card bound to its row, whichever    *)
(* of several posted cards that is, and only if who gives, who receives and *)
(* whether points are given or moved are still what the card said.          *)
AsCardSaid ==
     \A i \in 1..Len(intents) :
       intents[i].status # intents'[i].status =>
         /\ intents[i].status = "pending" /\ intents[i].card # Null
         /\ intents'[i].status = "confirmed" =>
              /\ bound[intents[i].actor] = intents[i].from /\ bound[intents[i].target] = intents[i].to
              /\ intents[i].mode = "mint" <=> intents[i].from \in admins
=============================================================================
