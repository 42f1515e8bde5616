------------------------------- MODULE MCGames -------------------------------
(* The games that members play in a group for points: black and white, PK   *)
(* duels, niuniu, dice and the scratch card.  Each keeps its own table of   *)
(* the database, and they are checked side by side: one is at work in a     *)
(* behaviour, on the sizes that its own questions need.                     *)
EXTENDS Blackwhite, Sequences, TLC

CONSTANTS u1, u2, u3, u4, u5, a1, a2, a3, a4, a5, r1, r2, q1, q2
(* The games share the members: a duel and the scratch card are played by  *)
(* a pair of them, niuniu and dice by a company, black and white by all.   *)
CONSTANTS
  Pair, Handles, Company, Phones, MaxShifts,
  DuelStakes, Faces, MaxRounds, MaxRetries, MaxRelinks, ErrorsRefuse,           \* of PkDuel
  Purse, Ante, MaxGuests, MaxSends, MaxDeletes,                                 \* of Niuniu
  Messages, Capitals, Multiple, Window, Wait, Period, Safety, LastTick, MaxResends, \* of DiceRound
  Cells, Requests, Slots, Cost, Rewards, PerPerson, Duration, Answer, Grace, MaxAttempts, MaxTime,
  MaxFaults                                                                     \* of Scratch9

VARIABLES part,  \* the component that is at work; the others stand still
  wallet, link, duel, held, call, thrown, relinks, phase, banker, seats, won, card, report,
  cleanup, posted, clock, account, round, tickets, open, cleaning, cardMid, shifts, retries,
  switched, cells, intents, inflight, slots, worker, late, faults

Loss == {-1}
Bet(n, tg, side, amount) == [id |-> n, tg |-> tg, side |-> side, amount |-> amount]
OneBet == {Bet(1, a2, "big", 1)}
Bets == OneBet \cup {Bet(2, a3, "small", 0), Bet(3, a2, "big", 0)}

Duel == INSTANCE PkDuel WITH
  Users <- Pair, Accounts <- Handles, Duels <- Tables, Points <- Start, Stakes <- DuelStakes
Room == INSTANCE Niuniu WITH
  Users <- Company, Accounts <- Phones, Points <- Purse, Stake <- Ante, state <- phase
Dice == INSTANCE DiceRound WITH
  Users <- Company, Accounts <- Phones, Points <- Start, MaxTime <- LastTick, MaxChanges <- MaxShifts,
  MaxRetries <- MaxResends, changes <- shifts
Nine == INSTANCE Scratch9 WITH
  Users <- Pair, Accounts <- Handles, Rounds <- Tables, Points <- Start, MaxChanges <- MaxShifts,
  changes <- shifts, enabled <- switched

others == <<wallet, link, duel, held, call, thrown, relinks, phase, banker, seats, won, card,
            report, cleanup, posted, clock, account, round, tickets, open, cleaning, cardMid,
            shifts, retries, switched, cells, intents, inflight, slots, worker, late, faults>>
allVars == <<vars, part, others>>
notDuel == <<phase, banker, seats, won, card, report, cleanup, posted, clock, account, round,
             tickets, open, cleaning, cardMid, shifts, retries, switched, cells, intents,
             inflight, slots, worker, late, faults>>
notRoom == <<duel, call, thrown, clock, account, round, tickets, open, cleaning, cardMid, shifts,
             retries, switched, cells, intents, inflight, slots, worker, late, faults>>
notDice == <<duel, held, call, thrown, relinks, phase, banker, seats, won, card, cleanup, posted,
             switched, cells, intents, inflight, slots, worker, late, faults>>
notNine == <<duel, held, call, thrown, relinks, phase, banker, seats, won, report, cleanup,
             posted, account, tickets, open, cleaning, cardMid, retries>>

ASSUME Assumptions ==
  /\ Duel!PkAssumption /\ Room!NiuniuAssumption /\ Dice!DiceAssumption /\ Nine!ScratchAssumption

(* Who is linked first, and to which account, makes no difference.         *)
Own == CHOOSE f \in [Users -> Tgs] : IsInjective(f) /\ \A u \in Pair : f[u] \in Handles
LinkedOnly(S) == [u \in Users |-> IF u \in S THEN Own[u] ELSE Null]
Fresh == Init /\ linked \in {LinkedOnly(S) : S \in {{}, {u1}, Pair, Users}}
AtRest == Init /\ linked = LinkedOnly({})
On(p, F) == part = p /\ F

(* Several questions are asked of a game, each on the part of it that it   *)
(* needs.  Tables: two that a pair opens, or one that five members fill.   *)
(* Duels: one with every retry and rounds to the last, or two at once.     *)
(* Dice: one bet, a table of three with all bets, or a report that an      *)
(* operator sends again.  Scratch cards: one press, one round with two     *)
(* presses, or the schedule.                                               *)
Tabled == {"table", "five"}
Duelling == {"duel", "duels"}
Rolls == {"dice", "bank", "resent"}
Scratches == {"scratch", "posts", "schedule"}
TableAsked ==
  /\ part = "table" => /\ Range(linked) \subseteq Handles \cup {Null}
                       /\ \A u \in Users \ Pair : linked[u] = Null /\ u \in active /\ other[u] = Start
  /\ part = "five"  => linked = LinkedOnly(Users) /\ changes = 0 /\ state[r2] = "none"
DuelAsked ==
  /\ part = "duel"  => duel[r2] = Duel!NoRow
  /\ part = "duels" => \A d \in {r1, r2} : /\ duel[d].state # "none" => duel[d].stake = Start
                                           /\ Len(duel[d].rolls) <= 2 /\ duel[d].attempts <= 1
DiceAsked ==
  /\ part \in {"dice", "resent"} =>
       /\ \A m \in Messages \ OneBet : tickets[m] = Null
       /\ round.tg # a3 /\ account[u3] = "here"
  /\ part = "resent" => shifts = 0
  /\ part # "resent" => retries = 0
NineAsked ==
  /\ part = "schedule" => shifts = 0 /\ \A q \in Requests : intents[q] = Null
  /\ part # "schedule" => round[r2].state = "none" /\ \A s \in Slots : slots[s] = "none"
  /\ part = "scratch"  => clock <= 1 /\ intents[q2] = Null
  \* Which request and which cell is the first makes no difference.
  /\ intents[q1] = Null => intents[q2] = Null
  /\ intents[q1] # Null => intents[q1].cell = 1

(* A step of one component leaves the others as they are.                  *)
InTable(A) == part \in Tabled /\ A /\ UNCHANGED <<part, others>> /\ TableAsked'
InDuel(A) == part \in Duelling /\ A /\ UNCHANGED <<part, vars, notDuel>> /\ DuelAsked'
InRoom(A) == part = "room" /\ A /\ UNCHANGED <<part, vars, notRoom>>
InDice(A) == part \in Rolls /\ A /\ UNCHANGED <<part, vars, notDice>> /\ DiceAsked'
InNine(A) == part \in Scratches /\ A /\ UNCHANGED <<part, vars, notNine>> /\ NineAsked'

UnionInit ==
  \/ part \in Tabled /\ Fresh /\ TableAsked
     /\ wallet = Null /\ link = Null /\ duel = Null
     /\ held = Null /\ call = Null /\ thrown = Null /\ relinks = Null /\ phase = Null
     /\ banker = Null /\ seats = Null /\ won = Null /\ card = Null /\ report = Null
     /\ cleanup = Null /\ posted = Null /\ clock = Null /\ account = Null /\ round = Null
     /\ tickets = Null /\ open = Null /\ cleaning = Null /\ cardMid = Null /\ shifts = Null
     /\ retries = Null /\ switched = Null /\ cells = Null /\ intents = Null
     /\ inflight = Null /\ slots = Null /\ worker = Null /\ late = Null /\ faults = Null
  \/ part \in Duelling /\ AtRest /\ Duel!Init
     /\ phase = Null /\ banker = Null /\ seats = Null
     /\ won = Null /\ card = Null /\ report = Null /\ cleanup = Null /\ posted = Null
     /\ clock = Null /\ account = Null /\ round = Null /\ tickets = Null /\ open = Null
     /\ cleaning = Null /\ cardMid = Null /\ shifts = Null /\ retries = Null
     /\ switched = Null /\ cells = Null /\ intents = Null /\ inflight = Null /\ slots = Null
     /\ worker = Null /\ late = Null /\ faults = Null
  \/ part = "room" /\ AtRest /\ Room!Init
     /\ duel = Null /\ call = Null /\ thrown = Null
     /\ clock = Null /\ account = Null /\ round = Null /\ tickets = Null /\ open = Null
     /\ cleaning = Null /\ cardMid = Null /\ shifts = Null /\ retries = Null
     /\ switched = Null /\ cells = Null /\ intents = Null /\ inflight = Null /\ slots = Null
     /\ worker = Null /\ late = Null /\ faults = Null
  \/ part \in Rolls /\ AtRest /\ Dice!Init
     /\ duel = Null /\ held = Null /\ call = Null
     /\ thrown = Null /\ relinks = Null /\ phase = Null /\ banker = Null /\ seats = Null
     /\ won = Null /\ card = Null /\ cleanup = Null /\ posted = Null /\ switched = Null
     /\ cells = Null /\ intents = Null /\ inflight = Null /\ slots = Null /\ worker = Null
     /\ late = Null /\ faults = Null
  \/ part \in Scratches /\ AtRest /\ Nine!Init
     /\ duel = Null /\ held = Null /\ call = Null
     /\ thrown = Null /\ relinks = Null /\ phase = Null /\ banker = Null /\ seats = Null
     /\ won = Null /\ report = Null /\ cleanup = Null /\ posted = Null /\ account = Null
     /\ tickets = Null /\ open = Null /\ cleaning = Null /\ cardMid = Null /\ retries = Null

UnionNext ==
  \/ InTable(Next)
  \/ InDuel(Duel!Next)
  \/ InRoom(Room!Next)
  \/ InDice(Dice!Next)
  \/ InNine(Nine!Next)

(* The fairness of each component, as its own module states it, where an   *)
(* end is promised.                                                        *)
DiceRuns(A) == part = "dice" /\ InDice(A)
CardRuns(A) == part = "scratch" /\ InNine(A)
UnionFairness ==
  /\ WF_allVars(InTable(Tick) \/ DiceRuns(Dice!Tick) \/ CardRuns(Nine!Tick))
  /\ WF_allVars(InTable(Expire(r1)) \/ DiceRuns(Dice!Close) \/ CardRuns(Nine!ExpireDue))
  /\ WF_allVars(InTable(Expire(r2)) \/ DiceRuns(Dice!Settle) \/ CardRuns(Nine!Published))
  /\ WF_allVars(DiceRuns(Dice!Clean) \/ CardRuns(Nine!LeaseEnds(r1)))
  /\ SF_allVars(CardRuns(Nine!BeginPublish(r1)))

UnionSpec == UnionInit /\ [][UnionNext]_allVars /\ UnionFairness

-----------------------------------------------------------------------------
(* The points of every game are exact: what is staked is in the pot, what   *)
(* the rules promise is paid (the smaller side of black and white, one      *)
(* stake between a niuniu guest and the banker, what a dice bank can pay,   *)
(* a fee and a reward for each scratched cell), and nothing else moves.     *)
PotsExact ==
  /\ TypeOK /\ EveryPointAccounted /\ PotIsTheStakes /\ MinorityWins
  /\ part \in Duelling => Duel!StakesComplete /\ Duel!OneDuelEach
  /\ part = "room" => Room!PairsSettled
  /\ part \in Rolls => Dice!BankCanPay
  /\ part \in Scratches => Nine!CellsPaid /\ Nine!PressedTwice

(* What the group sees is what decides: no die of a duel is thrown twice    *)
(* (bot_pk.py), no report is lost, doubled or overtaken by the deletion of  *)
(* the card it replaces (niuniu_delivery.py, bot_dice.py), a scratch card   *)
(* is posted once, never too late, and never shows less than is recorded.   *)
ShownOnce ==
  /\ part \in Duelling => Duel!NeverRerolls
  /\ part = "room" => Room!CardUntilReport
  /\ part \in Rolls => Dice!CardUntilReport
  /\ part \in Scratches => Nine!OneCard /\ Nine!NeverCatchesUp

(* A dice bet is placed before the beacon that decides it is out, and who   *)
(* has points on the table stays until they are paid (dice_quicknet.py,     *)
(* dice_group.py, account_deletion.py).                                    *)
BetsAreBlind == part \in Rolls => Dice!NobodyForesaw /\ Dice!StakersStay

(* Duels, niuniu and dice keep the promise of Wager: stakes go from the     *)
(* wallets to the table, and the one end pays out what is on it.            *)
DuelsInit == \A d \in {r1, r2} : Duel!Table(d)!Init
DuelsNext == \A d \in {r1, r2} : Duel!Table(d)!Next
ImplementsWager ==
  /\ (part \in Duelling => DuelsInit)
  /\ (part = "room" => Room!Table!Init) /\ (part = "bank" => Dice!Table!Init)
  /\ [][(part \in Duelling) => DuelsNext]_others
  /\ [][part = "room" => Room!Table!Next]_others
  /\ [][part = "bank" => Dice!Table!Next]_others

(* No stake stays on a table for ever: a lobby fills or lapses, a dice      *)
(* round ends even if the beacon never answers; and the card of what is     *)
(* over says so or goes.                                                   *)
DiceOver == round.state \in Dice!Terminal \/ \E u \in Company \cap Dice!Recipients : account[u] = "removed"
ScratchOver == round[r1].state = "closed" /\ round[r1].card
GamesEnd ==
  /\ (\/ On("table", state[r1] = "lobby") \/ On("dice", Dice!Live) \/ On("scratch", ScratchOver))
     ~> (\/ On("table", state[r1] \in Ends) \/ On("dice", DiceOver)
         \/ On("scratch", card[r1].shows = round[r1].revision))
  /\ (On("table", state[r2] = "lobby") \/ On("dice", report.state = "sent" /\ cardMid))
     ~> (On("table", state[r2] \in Ends) \/ On("dice", cleaning))
=============================================================================
