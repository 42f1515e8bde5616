----------------------------- MODULE HoldemHand -----------------------------
(***************************************************************************)
(* One hand of no-limit hold'em, as holdem_engine.py plays it: blinds,     *)
(* betting rounds with short all-ins, the refund of an uncalled bet, and   *)
(* main and side pots.  Cards are abstracted to the strength that          *)
(* best_hand gives a player at showdown; the deck is hidden until then, so *)
(* the strengths are chosen when they are first read.                      *)
(***************************************************************************)
EXTENDS Integers, Sequences, FiniteSets, SequencesExt, FiniteSetsExt

CONSTANTS
  Seats,       \* the occupied seat numbers, within 0..5
  Stacks,      \* the chips a player may bring to the hand
  SmallBlind,
  BigBlind,
  Strengths    \* the values best_hand may return

HandAssumption ==
  /\ Seats \subseteq 0..5 /\ Cardinality(Seats) \in 2..6
  /\ Stacks \subseteq Nat \ {0} /\ Strengths \subseteq Nat
  /\ SmallBlind \in Nat \ {0} /\ BigBlind \in Nat /\ BigBlind >= SmallBlind

VARIABLE hand  \* the engine's JSON document; "won" is empty until the end
vars == <<hand>>

River == 3
NotActed == -1

\* Seat numbers run clockwise: every seat once, starting after seat n.
Order == [n \in 0..5 |-> SetToSortSeq(Seats, LAMBDA a, b : (a - n - 1) % 6 < (b - n - 1) % 6)]
Clockwise(n) == Order[n]

Live(h) == Seats \ h.folded
Capable(h) == {s \in Live(h) : h.stack[s] > 0}
MaxBet(h) == Max({h.bet[s] : s \in Seats})
Total(f) == MapThenSumSet(LAMBDA s : f[s], Seats)

Pay(h, s, n) == [h EXCEPT !.stack[s] = @ - n, !.bet[s] = @ + n, !.committed[s] = @ + n]

-----------------------------------------------------------------------------
(* Pots.  A layer of chips is one level of contribution; neighbouring      *)
(* layers with the same players in contention are one pot.                 *)

Levels(h) == {h.committed[s] : s \in Seats} \ {0}
Contributors(h, l) == {s \in Seats : h.committed[s] >= l}
Eligible(h, l) == Contributors(h, l) \ h.folded
Layer(h, l) == (l - Max({0} \cup {m \in Levels(h) : m < l})) * Cardinality(Contributors(h, l))
Pots(h) ==
  {[eligible |-> e, amount |-> MapThenSumSet(LAMBDA l : Layer(h, l),
                                             {l \in Levels(h) : Eligible(h, l) = e})] :
     e \in {Eligible(h, l) : l \in Levels(h)}}

\* Odd chips of a pot go to the first winners left of the button.
Share(pot, winners, order, s) ==
  LET before == Cardinality({w \in winners : (w - order - 1) % 6 < (s - order - 1) % 6})
      n == Cardinality(winners)
  IN (pot.amount \div n) + (IF before < pot.amount % n THEN 1 ELSE 0)

Winners(pot, showdown, strength) ==
  IF showdown
  THEN {s \in pot.eligible : strength[s] = Max({strength[x] : x \in pot.eligible})}
  ELSE pot.eligible

Won(h, pots, showdown, strength) ==
  [s \in Seats |->
     MapThenSumSet(LAMBDA p : Share(p, Winners(p, showdown, strength), h.button, s),
                   {p \in pots : s \in Winners(p, showdown, strength)})]

Paid(h, won, strength) ==
  [h EXCEPT !.stack = [s \in Seats |-> h.stack[s] + won[s]], !.won = won,
            !.pending = <<>>, !.finished = TRUE, !.strength = strength]

\* The ways the hand may end: one player left, or a showdown of any strengths.
Finish(h, showdown) ==
  {Paid(h, Won(h, Pots(h), showdown, strength), strength) :
     strength \in IF showdown THEN [Live(h) -> Strengths] ELSE {<<>>}}

-----------------------------------------------------------------------------
(* Forced events: run up to the next decision of a player.                 *)

\* The part of the highest bet that nobody matched goes back.
Refund(h) ==
  LET leader == CHOOSE s \in Seats : h.bet[s] = MaxBet(h)
      excess == h.bet[leader] - Max({h.bet[s] : s \in Seats \ {leader}})
      back == IF excess > 0 THEN Pay(h, leader, -excess) ELSE h
  IN [back EXCEPT !.currentBet = MaxBet(back)]

NextStreet(h) ==
  [h EXCEPT !.street = @ + 1, !.currentBet = 0, !.minRaise = BigBlind,
            !.bet = [s \in Seats |-> 0], !.actedBet = [s \in Seats |-> NotActed],
            !.pending = SelectSeq(Clockwise(h.button), LAMBDA s : s \in Capable(h))]

\* With at most one player able to bet, only an outstanding call is asked for.
Narrow(h) ==
  IF Cardinality(Capable(h)) > 1 THEN h
  ELSE [h EXCEPT !.currentBet = MaxBet(h),
                 !.pending = SetToSeq({s \in Capable(h) : h.bet[s] < MaxBet(h)})]

\* With nobody left to bet, the streets that remain are dealt at once.
Deal(h) ==
  IF h.street = River \/ Cardinality(Capable(h)) <= 1
  THEN Finish([h EXCEPT !.street = River], TRUE)
  ELSE {NextStreet(h)}

Continue(h) == IF h.pending # <<>> THEN {h} ELSE UNION {Deal(r) : r \in {Refund(h)}}

\* The positions the forced events may lead to; only a showdown leaves a choice.
Progress(h) ==
  IF Cardinality(Live(h)) = 1
  THEN UNION {Finish(r, FALSE) : r \in {Refund(h)}}
  ELSE UNION {Continue(n) : n \in {Narrow(h)}}

-----------------------------------------------------------------------------
(* Actions of the player whose turn it is.                                 *)

Actor(h) == Head(h.pending)
Due(h) == Max({0, h.currentBet - h.bet[Actor(h)]})
Whole(h) == h.bet[Actor(h)] + h.stack[Actor(h)]

\* A short all-in does not reopen the betting for who has already acted.
RaiseAllowed(h) ==
  /\ \E s \in Seats \ {Actor(h)} : s \in Capable(h)
  /\ \/ h.actedBet[Actor(h)] \in {NotActed, 0}
     \/ h.currentBet - h.actedBet[Actor(h)] >= h.minRaise

CanRaise(h) == Whole(h) > h.currentBet /\ RaiseAllowed(h)
RaiseTargets(h) ==
  IF ~CanRaise(h) THEN {}
  ELSE Min({Whole(h), h.currentBet + h.minRaise}) .. Whole(h)

\* The street totals the actor may move to: check, call, bet or raise, all in.
Targets(h) ==
  {h.bet[Actor(h)] + Min({Due(h), h.stack[Actor(h)]})} \cup RaiseTargets(h)
    \cup (IF Whole(h) <= h.currentBet \/ CanRaise(h) THEN {Whole(h)} ELSE {})

\* Who still has to answer once the actor has acted.
Answering(h, s, asked) ==
  SelectSeq(Clockwise(s), LAMBDA o : /\ o # s /\ o \in Capable(h)
                                     /\ o \in asked \/ h.bet[o] < h.currentBet)

AfterAct(h, s) ==
  [h EXCEPT !.actedBet[s] = h.currentBet,
            !.pending = Answering(h, s, ToSet(Tail(h.pending)))]

Bet(h, target) ==
  LET s == Actor(h)
      paid == Pay(h, s, target - h.bet[s])
  IN IF target > h.currentBet
     THEN [paid EXCEPT !.minRaise = Max({target - h.currentBet, h.minRaise}),
                       !.currentBet = target]
     ELSE paid

Folded(h) == [h EXCEPT !.folded = @ \cup {Actor(h)}]

Fold ==
  /\ hand.pending # <<>>
  /\ \E h \in {AfterAct(Folded(hand), Actor(hand))} : hand' \in Progress(h)

Put ==
  /\ hand.pending # <<>>
  /\ \E target \in Targets(hand) :
       \E h \in {AfterAct(Bet(hand, target), Actor(hand))} : hand' \in Progress(h)

-----------------------------------------------------------------------------
\* new_hand: the blinds are posted, short ones as far as they go.
Dealt(stacks, button) ==
  LET order == Clockwise(button)
      heads == Cardinality(Seats) = 2
      small == IF heads THEN button ELSE order[1]
      big == IF heads THEN order[1] ELSE order[2]
      empty == [stack |-> stacks, initial |-> stacks, button |-> button, street |-> 0,
                bet |-> [s \in Seats |-> 0], committed |-> [s \in Seats |-> 0],
                folded |-> {}, actedBet |-> [s \in Seats |-> NotActed],
                currentBet |-> BigBlind, minRaise |-> BigBlind, pending |-> <<>>,
                won |-> <<>>, strength |-> <<>>, finished |-> FALSE]
      posted == Pay(Pay(empty, small, Min({SmallBlind, stacks[small]})),
                    big, Min({BigBlind, stacks[big]}))
  IN [posted EXCEPT !.pending = SelectSeq(Clockwise(big), LAMBDA s : s \in Capable(posted))]

Init == \E stacks \in [Seats -> Stacks], button \in Seats :
  \E h \in {Dealt(stacks, button)} : hand \in Progress(h)

Next == Fold \/ Put
Spec == Init /\ [][Next]_vars
FairSpec == Spec /\ WF_vars(Next)

-----------------------------------------------------------------------------

(* No chip appears or disappears, through refunds, side pots and odd chips. *)
ChipsConserved ==
  Total(hand.initial) = IF hand.finished THEN Total(hand.stack)
                        ELSE Total(hand.stack) + Total(hand.committed)

(* The side pots are just, whatever order the all-ins came in: nobody wins  *)
(* more from an opponent than he put in against him, no pot lacks an owner, *)
(* and a player with the single best hand takes all he was matched for.     *)
Matched(i) == MapThenSumSet(LAMBDA s : Min({hand.committed[i], hand.committed[s]}), Seats)
SidePotsJust == hand.finished =>
  /\ \A p \in Pots(hand) : p.eligible # {}
  /\ \A s \in Seats : hand.won[s] <= Matched(s)
  /\ \A s \in hand.folded : hand.won[s] = 0
  /\ hand.strength # <<>> => \A s \in Live(hand) :
       (\A o \in Live(hand) \ {s} : hand.strength[o] < hand.strength[s])
          => hand.won[s] = Matched(s)

(* The engine stops exactly at decisions: the player asked has chips, and   *)
(* there is a bet to answer or an opponent who could answer his.            *)
DecisionsReal ==
  IF hand.finished THEN hand.pending = <<>>
  ELSE /\ hand.pending # <<>> /\ Actor(hand) \in Capable(hand)
       /\ Due(hand) > 0 \/ \E s \in Capable(hand) : s # Actor(hand)
       /\ IsInjective(hand.pending) /\ ToSet(hand.pending) \subseteq Capable(hand)

PotsRight == ChipsConserved /\ SidePotsJust /\ DecisionsReal

=============================================================================
