----------------------------- MODULE DiceRound -----------------------------
(***************************************************************************)
(* A round of big or small with a player as the bank (backend/app/modules/ *)
(* dice.py, dice_group.py, dice_banker.py, dice_quicknet.py, bot_dice.py,  *)
(* account_deletion.py).  The banker puts up a capital; members bet with   *)
(* messages of the group until the deadline or until the pool is full; the *)
(* dice come from a public beacon round chosen when the betting closes,    *)
(* and when that beacon does not answer in time everyone is refunded.  The *)
(* bot posts a card, then a report, then takes the card away.              *)
(* Only rounds of the current rules; display edits are left out.           *)
(***************************************************************************)
EXTENDS Integers, FiniteSets, FiniteSetsExt, Functions

CONSTANTS
    Users, Accounts, Null,
    Messages,   \* [id, tg, side, amount] of the betting messages; amount 0 is allin
    Points, Capitals,
    Multiple,   \* pool_multiplier
    Window, Wait,     \* window_seconds, and 600
    Period, Safety,   \* of the beacon: 3 and 2
    ErrorsRefuse,     \* TRUE: a 5xx answer means that nothing was posted
    MaxTime, MaxChanges, MaxRetries

DiceAssumption ==
    /\ {Points, MaxTime, MaxChanges, MaxRetries} \subseteq Nat
    /\ Capitals \subseteq Nat \ {0} /\ {Multiple, Window, Wait, Period, Safety} \subseteq Nat \ {0}
    /\ Null \notin Users \cup Accounts /\ ErrorsRefuse \in BOOLEAN
    /\ \A m \in Messages : m.tg \in Accounts /\ m.side \in {"big", "small"} /\ m.amount \in Nat

VARIABLES
    clock,
    wallet,   \* [Users -> Nat]
    link,     \* [Accounts -> the valid member bound to it, or Null]
    account,  \* [Users -> "here", "leaving" (account.self_delete in meta), "gone", "removed"]
    round,    \* the dice_rounds row
    tickets,  \* [Messages -> the accepted ticket, or Null]
    open, report, \* the two dice_messages rows: state and copies in the group
    cleaning, \* the deletion of the card is queued in play_jobs
    cardMid,  \* dice_rounds.card_mid is known
    changes, retries

money == <<wallet, round, tickets>>
people == <<link, account, changes>>
mail == <<open, report, cleaning, cardMid, retries>>
vars == <<clock, money, people, mail>>

NoRound == [state |-> "none", user |-> Null, tg |-> Null, capital |-> 0, deadline |-> 0, closed |-> 0,
            number |-> 0, timeout |-> 0, dice |-> Null, error |-> FALSE]
NoMail  == [state |-> "none", copies |-> 0]

Init ==
    /\ clock \in 0..(Period - 1)
    /\ wallet = [u \in Users |-> Points]
    /\ link = CHOOSE l \in [Accounts -> Users] : IsInjective(l)
    /\ account = [u \in Users |-> "here"]
    /\ round = NoRound /\ tickets = [m \in Messages |-> Null]
    /\ open = NoMail /\ report = NoMail /\ cleaning = FALSE /\ cardMid = FALSE
    /\ changes = 0 /\ retries = 0

----------------------------------------------------------------------------
Terminal == {"settled", "refunded", "empty"}
Live == round.state \in {"opening", "open", "locked", "fixed"}
Accepted == {m \in Messages : tickets[m] # Null}
Staked(ms) == SumFunction([m \in ms |-> tickets[m].amount])
OnSide(s) == Staked({m \in Accepted : m.side = s})
Of(u, s) == Staked({m \in Accepted : tickets[m].user = u /\ m.side = s})
Other(s) == IF s = "big" THEN "small" ELSE "big"

\* future_round and round_time.
LatestRound(at) == at \div Period + 1
FutureRound(at) == (at + Safety) \div Period + 2
RoundTime(n) == (n - 1) * Period

\* actor: a valid member under this Telegram account.
Member(u) == account[u] \in {"here", "leaving"}
Actor(a) == link[a] # Null /\ Member(link[a])

Create(a, capital) ==
    LET u == link[a] IN
    /\ round.state = "none" /\ Actor(a) /\ account[u] # "leaving" /\ wallet[u] >= capital
    /\ round' = [NoRound EXCEPT !.state = "opening", !.user = u, !.tg = a, !.capital = capital,
                                !.deadline = clock + Window, !.timeout = clock + Window + Wait]
    /\ wallet' = [wallet EXCEPT ![u] = @ - capital]
    /\ open' = [NoMail EXCEPT !.state = "pending"]
    /\ UNCHANGED <<clock, tickets, people, report, cleaning, cardMid, retries>>

\* _lock_round: the beacon round is chosen when the betting ends.
Locked(r) == [r EXCEPT !.state = "locked", !.closed = clock, !.number = FutureRound(clock), !.timeout = clock + Wait]

\* What the bank can still answer on a side.
CapacityOfPool(s) == round.capital * Multiple - OnSide(s)
Capacity(s) == round.capital + OnSide(Other(s)) - OnSide(s)

\* group_bet.  A message already accepted is answered from its receipt.
GroupBet(m) ==
    LET u == link[m.tg]
        pool == Staked(Accepted)
        cap == round.capital * Multiple
        capacity == Capacity(m.side)
        amount == IF m.amount > 0 THEN m.amount ELSE Min({wallet[u], capacity, cap - pool}) IN
    /\ tickets[m] = Null /\ Actor(m.tg) /\ account[u] # "leaving"
    /\ round.state = "open" /\ clock < round.deadline
    /\ \A n \in Accepted : tickets[n].user = u <=> n.tg = m.tg
    /\ u # round.user /\ m.tg # round.tg
    /\ amount \in 1..Min({wallet[u], capacity, cap - pool})
    /\ tickets' = [tickets EXCEPT ![m] = [user |-> u, amount |-> amount, at |-> clock]]
    /\ wallet' = [wallet EXCEPT ![u] = @ - amount]
    /\ round' = IF pool + amount = cap THEN Locked(round) ELSE round
    /\ UNCHANGED <<clock, people, mail>>

Close ==
    /\ round.state \in {"opening", "open"} /\ clock >= round.deadline
    /\ round' = Locked(round)
    /\ UNCHANGED <<clock, wallet, tickets, people, mail>>

\* fix, with the answer of the beacon for the chosen round.
Fix(dice) ==
    /\ round.state = "locked" /\ clock >= RoundTime(round.number) /\ clock < round.timeout
    /\ round' = [round EXCEPT !.state = "fixed", !.dice = dice]
    /\ UNCHANGED <<clock, wallet, tickets, people, mail>>

\* settle_banker: a bet that wins is doubled, a triple takes all bets.
Returned(u) ==
    IF round.state = "locked" THEN Of(u, "big") + Of(u, "small")
    ELSE IF round.dice = "triple" THEN 0 ELSE 2 * Of(u, round.dice)
BankReturned == round.capital + Staked(Accepted) - SumFunction([u \in Users |-> Returned(u)])

MaySettle ==
    \/ round.state = "fixed"
    \/ round.state = "locked" /\ (clock >= round.timeout \/ Accepted = {})
Recipients == {round.user} \cup {tickets[m].user : m \in Accepted}

\* settle: one transaction, and nobody is paid while one of them is missing.
Settle ==
    /\ MaySettle /\ \A u \in Recipients : Member(u)
    /\ round' = [round EXCEPT !.error = FALSE, !.state =
          IF Accepted = {} THEN "empty" ELSE IF @ = "locked" THEN "refunded" ELSE "settled"]
    /\ wallet' = [u \in Users |-> wallet[u] + Returned(u) + (IF u = round.user THEN BankReturned ELSE 0)]
    /\ report' = [NoMail EXCEPT !.state = "pending"]
    /\ UNCHANGED <<clock, tickets, people, open, cleaning, cardMid, retries>>

SettleFails ==
    /\ MaySettle /\ ~round.error /\ \E u \in Recipients : ~Member(u)
    /\ round' = [round EXCEPT !.error = TRUE]
    /\ UNCHANGED <<clock, wallet, tickets, people, mail>>

----------------------------------------------------------------------------
\* _dice_deliver, for either message; an opening that is over is not posted.
SendOpen ==
    /\ open.state = "pending"
    /\ open' = [open EXCEPT !.state = IF round.state \in {"opening", "open"} THEN "sending" ELSE "obsolete"]
    /\ UNCHANGED <<clock, money, people, report, cleaning, cardMid, retries>>
SendReport ==
    /\ report.state = "pending" /\ open.state # "pending"
    /\ report' = [report EXCEPT !.state = "sending"]
    /\ UNCHANGED <<clock, money, people, open, cleaning, cardMid, retries>>

\* The card is bound: the betting opens, unless it is over.
Bound ==
    /\ cardMid' = TRUE
    /\ round' = IF round.state = "opening" /\ round.deadline > clock THEN [round EXCEPT !.state = "open"] ELSE round

\* The answer of a send, or none before its lease ends ("unknown").  After a
\* 5xx the row is pending again (report_delivery.failure), posted or not.
Answered(job, state, arrived) ==
    /\ job.state = "sending"
    /\ state = "sent" => arrived
    /\ state = "failed" => ~arrived
    /\ state = "pending" => ~arrived \/ ~ErrorsRefuse
Result(job, state, arrived) == [state |-> state, copies |-> job.copies + (IF arrived THEN 1 ELSE 0)]

OpenAnswered(state, arrived) ==
    /\ Answered(open, state, arrived) /\ open' = Result(open, state, arrived)
    /\ IF state = "sent" THEN Bound ELSE UNCHANGED <<cardMid, round>>
    /\ UNCHANGED <<clock, wallet, tickets, people, report, cleaning, retries>>
ReportAnswered(state, arrived) ==
    /\ Answered(report, state, arrived) /\ report' = Result(report, state, arrived)
    /\ UNCHANGED <<clock, money, people, open, cleaning, cardMid, retries>>

\* group_context: a press on a card whose receipt was lost proves that it is there.
PressOpen ==
    /\ open.state = "unknown" /\ open.copies > 0 /\ report.state # "sent"
    /\ open' = [open EXCEPT !.state = "sent"] /\ Bound /\ cleaning' = FALSE
    /\ UNCHANGED <<clock, wallet, tickets, people, report, retries>>
PressReport ==
    /\ report.state = "unknown" /\ report.copies > 0
    /\ report' = [report EXCEPT !.state = "sent"] /\ cleaning' = FALSE
    /\ UNCHANGED <<clock, money, people, open, cardMid, retries>>

\* recover_delivery: an operator confirms the report, or has a message sent again.
Recover(job, state) ==
    /\ job.state \in {"unknown", "failed"} /\ retries < MaxRetries /\ retries' = retries + 1
    /\ state = "sent" => job.copies > 0
RecoverOpen ==
    /\ Recover(open, "pending") /\ open' = [open EXCEPT !.state = "pending"]
    /\ UNCHANGED <<clock, money, people, report, cleaning, cardMid>>
RecoverReport(state) ==
    /\ Recover(report, state) /\ report' = [report EXCEPT !.state = state]
    /\ cleaning' = (cleaning /\ state # "sent")
    /\ UNCHANGED <<clock, money, people, open, cardMid>>

\* The end of _dice_deliver: the card goes when the report is there.
Clean ==
    /\ round.state \in Terminal /\ report.state = "sent" /\ cardMid /\ ~cleaning
    /\ cleaning' = TRUE
    /\ UNCHANGED <<clock, money, people, open, report, cardMid, retries>>

----------------------------------------------------------------------------
\* self_deletion_guard, and the deletion between its two transactions.
NoStakes(u) == Live => u \notin Recipients
BeginDeletion(u) ==
    /\ account[u] = "here" /\ NoStakes(u) /\ changes < MaxChanges /\ changes' = changes + 1
    /\ account' = [account EXCEPT ![u] = "leaving"]
    /\ UNCHANGED <<clock, money, link, mail>>
EndDeletion(u, gone) ==
    /\ account[u] = "leaving" /\ account' = [account EXCEPT ![u] = IF gone THEN "gone" ELSE "here"]
    /\ UNCHANGED <<clock, money, link, changes, mail>>

\* An operator deletes a member, and asks nobody.
Remove(u) ==
    /\ Member(u) /\ changes < MaxChanges /\ changes' = changes + 1
    /\ account' = [account EXCEPT ![u] = "removed"]
    /\ UNCHANGED <<clock, money, link, mail>>

\* A link changes hands.
Relink(a, u) ==
    /\ changes < MaxChanges /\ changes' = changes + 1
    /\ u # link[a] /\ \A b \in Accounts : u # Null => link[b] # u
    /\ link' = [link EXCEPT ![a] = u]
    /\ UNCHANGED <<clock, money, account, mail>>

\* Time before a round and after it does not matter.  Bound: the betting is
\* closed before the last Wait of the time.
Tick ==
    /\ Live /\ clock < MaxTime
    /\ round.state \in {"opening", "open"} => clock < MaxTime - Wait
    /\ clock' = clock + 1
    /\ UNCHANGED <<money, people, mail>>

Next ==
    \/ \E a \in Accounts, c \in Capitals : Create(a, c)
    \/ \E m \in Messages : GroupBet(m)
    \/ Close \/ Settle \/ SettleFails \/ \E d \in {"big", "small", "triple"} : Fix(d)
    \/ SendOpen \/ SendReport \/ PressOpen \/ PressReport \/ Clean \/ RecoverOpen
    \/ \E s \in {"sent", "pending", "failed", "unknown"}, arrived \in BOOLEAN :
          OpenAnswered(s, arrived) \/ ReportAnswered(s, arrived)
    \/ \E s \in {"sent", "pending"} : RecoverReport(s)
    \/ \E u \in Users : BeginDeletion(u) \/ Remove(u) \/ \E gone \in BOOLEAN : EndDeletion(u, gone)
    \/ \E a \in Accounts, u \in Users \cup {Null} : Relink(a, u)
    \/ Tick

Spec == Init /\ [][Next]_vars

\* The runner of the round wakes up in time, whatever the beacon answers, and
\* the worker comes back to what it left.
FairSpec == Spec /\ WF_vars(Close) /\ WF_vars(Settle) /\ WF_vars(Tick) /\ WF_vars(Clean)

----------------------------------------------------------------------------
\* The bank can pay: what the two sides are apart never exceeds the capital,
\* whatever the dice, and the points of the table are exactly what was put
\* down until they are paid back (dice_group.group_bet, settle_banker).
BankCanPay ==
    Live => /\ OnSide("big") - OnSide("small") \in -round.capital..round.capital
            /\ SumFunction(wallet) + round.capital + Staked(Accepted) = Points * Cardinality(Users)

\* When a bet was accepted, the beacon round that decides it was not yet out,
\* not even for a host whose clock is late by the margin (dice_quicknet.py,
\* "With a synchronized host clock this is always unpublished at selection").
NobodyForesaw ==
    round.number > 0 => \A m \in Accepted : tickets[m].at + Safety < RoundTime(round.number)

\* A member with points on the table does not leave before they are paid
\* (account_deletion.py and the checks of create and group_bet).
StakersStay == Live => \A u \in Recipients : account[u] \in {"here", "removed"}

\* The card is taken away only when the report is in the group, and the group
\* sees two reports only if an operator asked for it (bot_dice._dice_deliver):
\* provided that a 5xx answer means that nothing was posted.
CardUntilReport ==
    /\ (cleaning => report.state = "sent" /\ report.copies > 0)
    /\ report.copies <= 1 + retries

\* The promise of every game with stakes.
Risk == [u \in Users |-> IF ~Live THEN 0 ELSE Of(u, "big") + Of(u, "small") + (IF u = round.user THEN round.capital ELSE 0)]
Table == INSTANCE Wager WITH
    risk  <- Risk,
    phase <- IF round.state = "none" THEN "idle" ELSE IF Live THEN "open" ELSE "over"
ImplementsWager == Table!Spec
=============================================================================
