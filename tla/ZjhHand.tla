------------------------------ MODULE ZjhHand ------------------------------
(***************************************************************************)
(* One hand of three-card poker at a game-centre table (zjh_engine.py):    *)
(* blind and seen stakes, raises up to five antes, comparisons, an all-in  *)
(* that ends the hand at once, and ten rounds at most.  The cards are a    *)
(* strength per player, equal when they tie.                               *)
(***************************************************************************)
EXTENDS Integers, Sequences, FiniteSets, SequencesExt, FiniteSetsExt

CONSTANTS
  Players,    \* the seats of the hand, numbers in order of play
  Budgets,    \* what a player may have set aside for the hand
  Ante,
  Rounds,     \* ten in the code
  Strengths   \* the values of strength(); 0 is below a pair

ZjhAssumption ==
  /\ Players \subseteq 0..4 /\ Cardinality(Players) \in 2..5
  /\ Ante \in Nat \ {0} /\ \A b \in Budgets : b \in Nat /\ b >= Ante
  /\ Rounds \in Nat \ {0} /\ Strengths \subseteq Nat

VARIABLE game
vars == <<game>>

Nobody == -1
Live(g) == Players \ g.folded
Left(g, p) == g.budget[p] - g.invested[p]
Due(g, p) == g.bet * (IF p \in g.seen THEN 2 ELSE 1)
Raised(g, p) == (g.bet + Ante) * (IF p \in g.seen THEN 2 ELSE 1)
Pot(g) == MapThenSumSet(LAMBDA p : g.invested[p], Players)

Init == \E budget \in [Players -> Budgets], strength \in [Players -> Strengths] :
  game = [budget |-> budget, strength |-> strength, seen |-> {}, folded |-> {},
          invested |-> [p \in Players |-> Ante], bet |-> Ante, round |-> 1, turn |-> 1,
          current |-> Min(Players), acted |-> {}, finished |-> FALSE, awards |-> <<>>]

-----------------------------------------------------------------------------
(* fair_split: every winner gets the quotient, and as many of them as the   *)
(* remainder has points get one more; a secret decides which.              *)
Splits(total, winners) ==
  LET n == Cardinality(winners)
  IN {[p \in Players |-> IF p \in lucky THEN total \div n + 1
                         ELSE IF p \in winners THEN total \div n ELSE 0] :
        lucky \in kSubset(total % n, winners)}

Best(g) == {p \in Live(g) : \A q \in Live(g) : g.strength[q] <= g.strength[p]}

Settle(g) == {[g EXCEPT !.finished = TRUE, !.current = Nobody, !.awards = a] :
                a \in Splits(Pot(g), Best(g))}

\* The next player after p, in the order of the seats, who has not folded.
Following(g, p) ==
  LET later == {q \in Live(g) : q > p} IN Min(IF later # {} THEN later ELSE Live(g))

Advance(g, p) ==
  IF Cardinality(Live(g)) = 1 THEN Settle(g)
  ELSE LET acted == g.acted \cup {p}
           full == Live(g) \subseteq acted
       IN IF full /\ g.round >= Rounds THEN Settle(g)
          ELSE {[g EXCEPT !.acted = IF full THEN {} ELSE acted,
                          !.round = IF full THEN @ + 1 ELSE @,
                          !.current = Following(g, p), !.turn = @ + 1]}

-----------------------------------------------------------------------------
Invest(g, p, n) == [g EXCEPT !.invested[p] = @ + n]
Out(g, p) == [g EXCEPT !.folded = @ \cup {p}]

Look(p) ==
  /\ ~game.finished /\ p \in Live(game) \ game.seen
  /\ game' = [game EXCEPT !.seen = @ \cup {p}]

Turn(p) == ~game.finished /\ game.current = p

Fold(p) == Turn(p) /\ game' \in Advance(Out(game, p), p)

Call(p) ==
  /\ Turn(p) /\ Left(game, p) >= Due(game, p)
  /\ game' \in Advance(Invest(game, p, Due(game, p)), p)

Raise(p) ==
  /\ Turn(p) /\ game.bet < 5 * Ante /\ Raised(game, p) <= Left(game, p)
  /\ game' \in Advance([Invest(game, p, Raised(game, p)) EXCEPT !.bet = @ + Ante], p)

AllIn(p) ==
  /\ Turn(p) /\ Left(game, p) < Due(game, p)
  /\ game' \in Settle(Invest(game, p, Left(game, p)))

\* The one who asks for the comparison loses it when the hands are equal.
Compare(p, q) ==
  /\ Turn(p) /\ p \in game.seen /\ game.round >= 2
  /\ 2 * Due(game, p) <= Left(game, p) /\ q \in Live(game) \ {p}
  /\ LET loser == IF game.strength[p] > game.strength[q] THEN q ELSE p
     IN game' \in Advance(Out(Invest(game, p, 2 * Due(game, p)), loser), p)

\* A player who leaves folds, out of turn if need be; the turn stays as it is.
Leave(p) ==
  /\ ~game.finished /\ p \in Live(game)
  /\ IF game.current = p THEN game' \in Advance(Out(game, p), p)
     ELSE IF Cardinality(Live(game)) = 2 THEN game' \in Settle(Out(game, p))
     ELSE game' = Out(game, p)

\* A player who lets the time run out looks, then calls with a pair or folds.
Auto(p) ==
  /\ Turn(p)
  /\ IF p \notin game.seen THEN Look(p)
     ELSE IF game.strength[p] >= 1 THEN Call(p) \/ AllIn(p)
     ELSE Fold(p)

Next == \E p \in Players :
  \/ Look(p) \/ Fold(p) \/ Call(p) \/ Raise(p) \/ AllIn(p) \/ Leave(p) \/ Auto(p)
  \/ \E q \in Players : Compare(p, q)

Spec == Init /\ [][Next]_vars
FairSpec == Spec /\ WF_vars(\E p \in Players : Auto(p))

-----------------------------------------------------------------------------
(* Whatever the order of leaving, comparing and going all in: the turn is   *)
(* with a player still in the hand, nobody pays more than his budget, and   *)
(* the end pays out exactly the pot, to players still in it who hold the    *)
(* best cards.                                                             *)
HandSound ==
  /\ \A p \in Players : game.invested[p] \in Ante..game.budget[p]
  /\ ~game.finished => game.current \in Live(game) /\ Cardinality(Live(game)) > 1
  /\ game.finished =>
       /\ MapThenSumSet(LAMBDA p : game.awards[p], Players) = Pot(game)
       /\ \A p \in Players : game.awards[p] > 0 => p \in Best(game)
  /\ game.round <= Rounds

=============================================================================
