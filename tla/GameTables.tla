----------------------------- MODULE GameTables -----------------------------
(***************************************************************************)
(* The tables of the game centre (game_center.py with its adapters for     *)
(* zjh, hold'em and the board games): creating and joining, readiness,     *)
(* hands, leaving, the timers, and the escrow of play_money.py under them. *)
(* How a hand is won is left to HoldemHand, ZjhHand and BoardGame; here a  *)
(* move puts chips in and a hand ends with any award of exactly its pot.   *)
(***************************************************************************)
EXTENDS Integers, FiniteSets, FiniteSetsExt, Functions

CONSTANTS
  Users, Robot,     \* members, and the robots of a practice table as one
  Tables,           \* the ids of tables that may be created
  Games,            \* a subset of {"zjh", "holdem", "board"}
  Null,
  Points, Beans,    \* what every member starts with
  Stake,            \* ante cap, board stake and smallest buy-in of the tier
  BuyMax,           \* largest buy-in of the tier
  MaxSeats, AutoHands,
  MaxChips,         \* bound on the chips of a table, whose robots are paid again and again
  MaxTurns,         \* bound on the moves of a hand
  MaxRequests,      \* bound on members' requests
  MaxChanges        \* bound on changes of membership and of the switch

TablesAssumption ==
  /\ Robot \notin Users /\ Null \notin Users \cup Tables
  /\ IsFiniteSet(Users) /\ IsFiniteSet(Tables)
  /\ Games \subseteq {"zjh", "holdem", "board"}
  /\ Stake \in Nat \ {0} /\ BuyMax \in Nat /\ BuyMax >= Stake /\ {Points, Beans} \subseteq Nat
  /\ {MaxSeats, AutoHands, MaxChips, MaxTurns, MaxRequests, MaxChanges} \subseteq Nat

VARIABLES
  wallet,   \* currency -> member -> spendable balance
  held,     \* table -> member -> amount of the play_escrows row of the table or its hand
  pot,      \* table -> amount of the play_funds row of its hand
  rows,     \* the gc_seats rows: currency -> member -> table
  tables,   \* the table documents
  active,   \* members whose account is active
  enabled,  \* the plugin and the game are switched on
  asked, changes
vars == <<wallet, held, pot, rows, tables, active, enabled, asked, changes>>

Currencies == {"points", "beans"}
Players == Users \cup {Robot}
Total(f) == SumFunction(f)
Minus(f, S) == [x \in DOMAIN f \ S |-> f[x]]
Only(x, n) == [y \in {x} |-> n]
Of(f, x) == IF x \in DOMAIN f THEN f[x] ELSE 0
Nobody == [x \in {} |-> Null]

(* The handlers below work on one table and the money under it: a world w   *)
(* has the table's document tb, the wallets in its currency, the escrows,  *)
(* the pot, and the gc_seats rows of its currency.  A handler leads from a  *)
(* world to the set of worlds it may leave behind.                         *)
WorldOf(t, tb) == [id |-> t, tb |-> tb, money |-> wallet[tb.currency], held |-> held[t],
                   pot |-> pot[t], rows |-> rows[tb.currency]]
World(t) == WorldOf(t, tables[t])
Worlds(t) == IF tables[t] = Null THEN {} ELSE {World(t)}

Write(w) ==
  /\ tables' = [tables EXCEPT ![w.id] = w.tb]
  /\ wallet' = [wallet EXCEPT ![w.tb.currency] = w.money]
  /\ rows' = [rows EXCEPT ![w.tb.currency] = w.rows]
  /\ held' = [held EXCEPT ![w.id] = w.held]
  /\ pot' = [pot EXCEPT ![w.id] = w.pot]

Init ==
  /\ wallet = [c \in Currencies |-> [u \in Users |-> IF c = "points" THEN Points ELSE Beans]]
  /\ held = [t \in Tables |-> [u \in Users |-> 0]] /\ pot = [t \in Tables |-> 0]
  /\ rows = [c \in Currencies |-> [u \in Users |-> Null]]
  /\ tables = [t \in Tables |-> Null]
  /\ active = Users /\ enabled = TRUE /\ asked = 0 /\ changes = 0

-----------------------------------------------------------------------------
(* Seats.                                                                  *)

Seated(tb) == DOMAIN tb.seats
Humans(tb) == Seated(tb) \ {Robot}
Staying(tb) == {u \in Humans(tb) : ~tb.seats[u].leaving}
InHand(tb, u) == tb.hand # Null /\ u \in DOMAIN tb.hand.budget

Available(w, u) == IF u = Robot THEN Points ELSE w.money[u]
CanFund(w, u) == (u \in active \/ u = Robot) /\ Available(w, u) >= Stake

InPoints(w) == w.tb.currency = "points"

\* Into escrow: only points make an escrow row, beans just leave the wallet.
Reserve(w, n) ==
  [w EXCEPT !.money = [u \in Users |-> @[u] - Of(n, u)],
            !.held = [u \in Users |-> IF InPoints(w) THEN @[u] + Of(n, u) ELSE @[u]]]

\* Out of escrow: release() pays whatever the rows hold.
Release(w, S, beans) ==
  [w EXCEPT !.money = [u \in Users |->
              @[u] + IF u \notin S THEN 0 ELSE IF InPoints(w) THEN w.held[u] ELSE Of(beans, u)],
            !.held = [u \in Users |-> IF InPoints(w) /\ u \in S THEN 0 ELSE @[u]]]

\* The host's place goes to who has sat longest, or stays, or becomes free.
NextHost(tb) ==
  LET next == Staying(tb) \ {tb.host}
  IN IF next # {} THEN CHOOSE u \in next : \A v \in next : tb.seats[u].since <= tb.seats[v].since
     ELSE IF tb.host \in Staying(tb) THEN tb.host ELSE Null
TransferHost(tb) == [tb EXCEPT !.host = NextHost(tb)]

Closed(tb) == [tb EXCEPT !.phase = "closed", !.seats = Nobody, !.host = Null,
                         !.countdown = FALSE, !.idle = FALSE]

\* Mutant: a table at which only robots are left stays open.
VacateAmongRobots(w, S) ==
  LET left == [w.tb EXCEPT !.seats = Minus(@, S)]
      moved == IF w.tb.host \in S THEN TransferHost(left) ELSE left
      paid == IF w.tb.game # "holdem" THEN w
              ELSE Release(w, S, [u \in S |-> w.tb.seats[u].stack])
  IN [paid EXCEPT !.rows = [u \in Users |-> IF u \in S /\ @[u] = w.id THEN Null ELSE @[u]],
                  !.tb = IF Seated(moved) = {} THEN Closed(moved) ELSE moved]

\* Members get up: a hold'em stack goes back to its owner.
Vacate(w, S) ==
  LET left == [w.tb EXCEPT !.seats = Minus(@, S),
                           !.countdown = IF w.tb.game = "holdem" \/ S = {} THEN @ ELSE FALSE]
      moved == IF w.tb.host \in S THEN TransferHost(left) ELSE left
      paid == IF w.tb.game # "holdem" THEN w
              ELSE Release(w, S, [u \in S |-> w.tb.seats[u].stack])
  IN [paid EXCEPT !.rows = [u \in Users |-> IF u \in S /\ @[u] = w.id THEN Null ELSE @[u]],
                  !.tb = IF Humans(moved) = {} THEN Closed(moved) ELSE moved]

Countdown(tb) ==
  IF tb.game = "holdem" THEN tb
  ELSE [tb EXCEPT !.countdown = /\ tb.phase = "waiting" /\ Cardinality(Seated(tb)) >= 2
                                /\ \A u \in Seated(tb) : tb.seats[u].ready]

-----------------------------------------------------------------------------
(* Hands.  Chips put in stay in the escrow of a hold'em or board hand until *)
(* it is settled; those of a zjh hand move to its pot at once.             *)

Consume(w, n) ==
  LET potted == w.tb.game = "zjh" /\ InPoints(w)
  IN [w EXCEPT !.tb.hand.paid = [u \in DOMAIN @ |-> @[u] + Of(n, u)],
               !.held = [u \in Users |-> IF potted THEN @[u] - Of(n, u) ELSE @[u]],
               !.pot = IF potted THEN @ + Total(n) ELSE @]

\* eligible: who takes part in the next hand; the host's start makes him ready.
Eligible(w, manual) ==
  IF w.tb.game = "holdem"
  THEN LET in == {u \in Seated(w.tb) : /\ w.tb.seats[u].stack > 0 /\ w.tb.seats[u].away = "no"
                                       /\ ~w.tb.seats[u].leaving}
       IN IF w.tb.currency = "beans" /\ in \subseteq {Robot} THEN {} ELSE in
  ELSE {u \in Seated(w.tb) : /\ ~w.tb.seats[u].leaving
                             /\ w.tb.seats[u].ready \/ (manual /\ u = w.tb.host)
                             /\ CanFund(w, u)}

\* What a player stakes on the hand, and what he puts in before the first move.
Budget(w, u) == IF w.tb.game = "holdem" THEN w.tb.seats[u].stack ELSE Stake
Opening(w, in) == [u \in in |-> IF w.tb.game = "board" THEN Stake ELSE 1]

\* Refused players of zjh and the board games are told and lose their readiness.
Refused(w, in) ==
  [w EXCEPT !.tb.countdown = FALSE,
            !.tb.seats = [u \in DOMAIN @ |->
               IF w.tb.game = "holdem" \/ u \in in THEN @[u] ELSE [@[u] EXCEPT !.ready = FALSE]]]

TooFew(w, in) == IF w.tb.game = "board" THEN Cardinality(in) # 2 ELSE Cardinality(in) < 2

NotStarted(w, in) ==
  IF w.tb.game = "holdem"
  THEN [w EXCEPT !.tb.phase = "waiting", !.tb.countdown = FALSE, !.tb.idle = TRUE]
  ELSE Refused(w, in)

Dealt(w, in) ==
  LET staked == IF w.tb.game = "holdem" THEN w ELSE Reserve(w, [u \in in |-> Stake])
      hand == [budget |-> [u \in in |-> Budget(w, u)], paid |-> [u \in in |-> 0],
               live |-> in, turn |-> 1, cur |-> Null]
  IN Consume([staked EXCEPT !.tb.hand = hand, !.tb.phase = "playing", !.tb.begun = TRUE,
                            !.tb.countdown = FALSE, !.tb.idle = FALSE,
                            !.tb.seats = [u \in DOMAIN @ |-> [@[u] EXCEPT !.ready = FALSE]]],
             Opening(w, in))

\* Chips a player of the hand still has in front of him.
Chips(hand, u) == hand.budget[u] - hand.paid[u]

\* Mutant: the escrow of a board hand, whose table keeps no stacks, stays where it is.
SettledUnreleased(w, award) ==
  LET in == DOMAIN award
      after == [u \in in |-> Chips(w.tb.hand, u) + award[u]]
      moved == [w EXCEPT !.held = [u \in Users |->
                  IF InPoints(w) /\ u \in in THEN @[u] + award[u] - w.tb.hand.paid[u] ELSE @[u]]]
  IN [moved EXCEPT !.tb.seats = [u \in DOMAIN @ |->
        IF u \in in THEN [@[u] EXCEPT !.stack = after[u]] ELSE @[u]]]

\* settle: zjh pays the pot out and releases the rest of the escrow; hold'em and
\* the board games move the losers' escrow to the winners', and a board hand, whose
\* table keeps no stacks, then releases it.
Settled(w, award) ==
  LET hand == w.tb.hand
      in == DOMAIN award
      after == [u \in in |-> Chips(hand, u) + award[u]]
      moved == [w EXCEPT !.held = [u \in Users |->
                  IF InPoints(w) /\ u \in in THEN @[u] + award[u] - hand.paid[u] ELSE @[u]]]
      zjh == Release(w, in, after)
  IN CASE w.tb.game = "zjh" ->
            IF InPoints(w)
            THEN [zjh EXCEPT !.money = [u \in Users |-> @[u] + Of(award, u)], !.pot = @ - Total(award)]
            ELSE zjh
       [] w.tb.game = "board" -> Release(moved, in, after)
       [] OTHER -> [moved EXCEPT !.tb.seats = [u \in DOMAIN @ |->
                      IF u \in in THEN [@[u] EXCEPT !.stack = after[u]] ELSE @[u]]]

\* After the hand: count the hands of who is on auto, and let the leavers go.
Counted(tb) ==
  [tb EXCEPT !.phase = "waiting", !.hand = Null, !.idle = TRUE, !.countdown = FALSE,
             !.seats = [u \in DOMAIN @ |->
                IF InHand(tb, u) /\ tb.seats[u].auto /\ u # Robot
                THEN [@[u] EXCEPT !.hands = tb.seats[u].hands + 1] ELSE @[u]]]

Leavers(tb) ==
  {u \in Humans(tb) : tb.seats[u].leaving \/ (tb.game = "zjh" /\ tb.seats[u].hands >= AutoHands)}

ReadyAgain(w) ==
  [w EXCEPT !.tb = Countdown([w.tb EXCEPT !.seats = [u \in DOMAIN @ |->
     [@[u] EXCEPT !.ready = (w.tb.seats[u].auto \/ u = Robot) /\ CanFund(w, u)]]])]

\* hold'em keeps its players: too many hands on auto make them away.
AwayAfter(seat, u) ==
  IF u = Robot THEN [seat EXCEPT !.stack = IF @ = 0 THEN Stake ELSE @]
  ELSE IF seat.auto /\ seat.away = "no" /\ seat.hands >= AutoHands THEN [seat EXCEPT !.away = "timed"]
  ELSE IF seat.away = "hand" THEN [seat EXCEPT !.away = "timed"] ELSE seat

\* schedule: stop for want of players, or go on with the next hand.
Schedule(w) ==
  IF w.tb.game # "holdem" \/ w.tb.phase \notin {"waiting", "between"} THEN w
  ELSE IF Cardinality(Eligible(w, FALSE)) < 2
       THEN [w EXCEPT !.tb.phase = "waiting", !.tb.countdown = FALSE, !.tb.idle = TRUE]
  ELSE IF w.tb.begun
       THEN [w EXCEPT !.tb.phase = "between", !.tb.countdown = TRUE, !.tb.idle = FALSE]
  ELSE IF Cardinality(Seated(w.tb)) = MaxSeats THEN Dealt(w, Eligible(w, FALSE)) ELSE w

KeptOn(w) == Schedule([w EXCEPT !.tb.seats = [u \in DOMAIN @ |-> AwayAfter(@[u], u)]])

\* The one world in which the hand is over; named step by step.
Close(w, award) ==
  UNION {UNION {{IF w.tb.game = "holdem" THEN KeptOn(z) ELSE ReadyAgain(z) :
                   z \in {Vacate(y, Leavers(y.tb))}} :
                y \in {[x EXCEPT !.tb = Counted(@)]}} :
         x \in {Settled(w, award)}}

\* Every way to divide the pot of the hand among the players still in it.
Awards(hand) ==
  {a \in [DOMAIN hand.budget -> 0..Total(hand.paid)] :
     Total(a) = Total(hand.paid) /\ \A u \in DOMAIN a : a[u] > 0 => u \in hand.live}

\* A board hand is won by one side or divided.
BoardAwards(hand) ==
  {a \in Awards(hand) : \A u \in DOMAIN a : a[u] \in {0, hand.paid[u], Total(hand.paid)}}

\* Where the engine may stand after a move: another player's turn, or the end.
\* An all-in player has no turn, and nobody decides anything against all-in players
\* he has already matched.
NextActors(w) ==
  LET h == w.tb.hand
      able == {u \in h.live : w.tb.game = "holdem" => Chips(h, u) > 0}
      ahead == {u \in able : \A x \in h.live \ {u} : h.paid[u] >= h.paid[x]}
  IN IF \/ h.turn > MaxTurns \/ Cardinality(h.live) < 2
        \/ w.tb.game = "holdem" /\ Cardinality(able) = 1 /\ able = ahead
     THEN {} ELSE able

Awarded(w) ==
  UNION {Close(w, a) : a \in IF w.tb.game = "board" THEN BoardAwards(w.tb.hand)
                             ELSE Awards(w.tb.hand)}

Outcomes(w) == {[w EXCEPT !.tb.hand.cur = u] : u \in NextActors(w)} \cup Awarded(w)

\* A dealt hand waits for its first player, in hold'em never the one who opened the
\* last hand; it is played out at once only when the blinds have left no decision.
Opened(w) ==
  LET first == IF w.tb.game = "holdem" /\ NextActors(w) # {w.tb.first}
               THEN NextActors(w) \ {w.tb.first} ELSE NextActors(w)
  IN IF first = {} THEN Awarded(w)
     ELSE {[w EXCEPT !.tb.hand.cur = u, !.tb.first = u] : u \in first}

\* The worlds after a start, and after an operation that may let one start.  A
\* start the host asks for is refused as a whole when there are too few players.
Started(w, manual) ==
  LET in == Eligible(w, manual) IN
  IF ~TooFew(w, in) THEN UNION {Opened(x) : x \in {Dealt(w, in)}}
  ELSE IF manual THEN {} ELSE {NotStarted(w, in)}

Scheduled(w) ==
  UNION {IF s.tb.hand # Null /\ w.tb.hand = Null THEN Opened(s) ELSE {s} : s \in {Schedule(w)}}

-----------------------------------------------------------------------------
(* mutate: one request of a member, applied once under its request id; a    *)
(* repeated request finds its row and changes nothing.                     *)

Request == asked < MaxRequests /\ asked' = asked + 1 /\ UNCHANGED <<active, enabled, changes>>

Done(W) == \E w \in W : \E x \in Scheduled(
  [w EXCEPT !.tb.idle = IF w.tb.phase = "waiting" THEN TRUE ELSE @]) : Write(x)

Amounts == Stake..BuyMax
NewSeat(stack, since) == [stack |-> stack, ready |-> FALSE, auto |-> FALSE, hands |-> 0,
                          away |-> "no", leaving |-> FALSE, since |-> since]

\* joined_at: later than everyone's who sits there.
Clock(tb) == 1 + Max({0} \cup {tb.seats[u].since : u \in Humans(tb)})

MayJoin(w, u) == /\ enabled /\ u \in active /\ u \notin Seated(w.tb)
                 /\ w.tb.phase # "closed" /\ w.rows[u] = Null
                 /\ Cardinality(Seated(w.tb)) < MaxSeats

\* The one or more worlds in which u has sat down, by the amount he brings.
Joined(w, u) ==
  LET hold == w.tb.game = "holdem"
      sit(n) == [(IF hold THEN Reserve(w, Only(u, n)) ELSE w) EXCEPT
                   !.tb.seats = [x \in DOMAIN @ \cup {u} |-> IF x = u THEN NewSeat(n, Clock(w.tb)) ELSE @[x]],
                   !.tb.countdown = IF hold THEN @ ELSE FALSE,
                   !.tb.host = IF @ = Null THEN u ELSE @, !.rows[u] = w.id]
  IN IF hold THEN {sit(n) : n \in {m \in Amounts : /\ m <= Available(w, u)
                                                   /\ w.held[u] = 0}}
     ELSE {sit(0)}

\* A practice table has its places filled with robots from the beginning.
WithRobot(w) ==
  IF w.tb.currency = "points" THEN w
  ELSE [w EXCEPT !.tb.seats = [x \in DOMAIN @ \cup {Robot} |->
          IF x = Robot THEN [NewSeat(Stake, 1) EXCEPT !.ready = TRUE, !.auto = (w.tb.game # "board")]
          ELSE @[x]]]

NewTable(g, c, u) == [game |-> g, currency |-> c, phase |-> "waiting", owner |-> u,
                      seats |-> [x \in {} |-> Null], host |-> Null,
                      hand |-> Null, begun |-> FALSE, first |-> Null, countdown |-> FALSE, idle |-> TRUE]

Create(t, u) == \E g \in Games, c \in Currencies :
  /\ Request /\ tables[t] = Null
  /\ \E w \in {WorldOf(t, NewTable(g, c, u))} :
       MayJoin(w, u) /\ Done({WithRobot(x) : x \in Joined(w, u)})

Sees(t, u) == tables[t] # Null /\ (tables[t].currency = "beans" => tables[t].owner = u)

Seat(t, u) ==
  /\ Request /\ Sees(t, u) /\ MayJoin(World(t), u)
  /\ Done(Joined(World(t), u))

\* quick-start takes a seat at a waiting table, or at a hold'em table in play.
QuickSeat(t, u) ==
  /\ Request /\ tables[t] # Null /\ tables[t].currency = "points"
  /\ tables[t].phase = "waiting" \/ tables[t].game = "holdem"
  /\ MayJoin(World(t), u) /\ Done(Joined(World(t), u))

\* A request about a table by a member who sits at it.
At(t, u) == Request /\ Sees(t, u) /\ tables[t].phase # "closed" /\ u \in Seated(tables[t])
With(w, u, seat) == [w EXCEPT !.tb.seats[u] = seat]
Count(w) == [w EXCEPT !.tb = Countdown(w.tb)]

Ready(t, u) == \E b \in BOOLEAN : \E w \in Worlds(t) :
  /\ At(t, u) /\ w.tb.game # "holdem" /\ w.tb.phase = "waiting" /\ (b => CanFund(w, u))
  /\ Done({Count(With(w, u, [w.tb.seats[u] EXCEPT !.ready = b]))})

Start(t, u) ==
  /\ At(t, u) /\ tables[t].host = u /\ tables[t].phase = "waiting"
  /\ tables[t].game = "holdem" => ~tables[t].begun
  /\ Done(Started(World(t), TRUE))

\* Cancelling auto forgives the hands counted so far.
Auto(t, u) == \E b \in BOOLEAN : \E w \in Worlds(t) :
  LET seat == w.tb.seats[u]
      set == IF b THEN [seat EXCEPT !.auto = TRUE] ELSE [seat EXCEPT !.auto = FALSE, !.hands = 0]
  IN /\ At(t, u) /\ w.tb.game # "board" /\ seat.auto # b
     /\ w.tb.game = "holdem" => ~seat.leaving
     /\ Done({IF w.tb.game = "zjh" /\ w.tb.phase = "waiting" /\ b
              THEN Count(With(w, u, [set EXCEPT !.ready = CanFund(w, u)]))
              ELSE With(w, u, set)})

\* _mark_away: the clock of who is away starts when he is out of the hand.
MarkAway(w, u) ==
  With(w, u, [w.tb.seats[u] EXCEPT !.away = IF InHand(w.tb, u) THEN "hand" ELSE "timed"])

Away(t, u) == \E w \in Worlds(t) :
  /\ At(t, u) /\ w.tb.game = "holdem" /\ ~w.tb.seats[u].leaving
  /\ Done({IF w.tb.seats[u].away = "no" THEN MarkAway(w, u)
           ELSE With(w, u, [w.tb.seats[u] EXCEPT !.away = "no", !.hands = 0])})

TopUp(t, u) == \E w \in Worlds(t), n \in 1..BuyMax :
  /\ At(t, u) /\ w.tb.game = "holdem" /\ ~w.tb.seats[u].leaving /\ w.tb.hand = Null
  /\ u \in active /\ w.tb.seats[u].stack + n <= BuyMax /\ n <= Available(w, u)
  /\ Done({With(Reserve(w, Only(u, n)), u, [w.tb.seats[u] EXCEPT !.stack = @ + n])})

\* A move at the table: chips put in, a fold, or a comparison that folds someone.
Moved(w, u) ==
  LET next == [w EXCEPT !.tb.hand.turn = @ + 1]
      out(x) == [next EXCEPT !.tb.hand.live = @ \ {x}]
      put == IF w.tb.game = "board" THEN {next}
             ELSE {Consume(next, Only(u, n)) : n \in 0..Chips(w.tb.hand, u)}
      fold == IF w.tb.game = "board" \/ Cardinality(w.tb.hand.live) < 2 THEN {} ELSE {out(u)}
      beaten == IF w.tb.game # "zjh" THEN {} ELSE {out(x) : x \in w.tb.hand.live \ {u}}
  IN UNION {Outcomes(x) : x \in put \cup fold \cup beaten}

Act(t, u) == \E w \in Worlds(t) :
  /\ At(t, u) /\ InHand(w.tb, u)
  /\ w.tb.hand.cur = u /\ (w.tb.game = "holdem" => ~w.tb.seats[u].leaving)
  /\ Done(Moved(w, u))

\* Resigning, or agreeing to a draw, when it is not one's turn.
EndBoard(t, u) == \E w \in Worlds(t) :
  /\ At(t, u) /\ w.tb.game = "board" /\ InHand(w.tb, u)
  /\ \E a \in BoardAwards(w.tb.hand) : a[u] < Total(w.tb.hand.paid) /\ Done(Close(w, a))

\* leave: at once between hands; zjh folds and stays seated until the hand ends,
\* hold'em plays on automatically until then, a board game is resigned.
ZjhFolded(w, u) ==
  LET host(x) == IF x.tb.host = u /\ u \in Seated(x.tb) THEN [x EXCEPT !.tb = TransferHost(x.tb)] ELSE x
      hand == [w.tb.hand EXCEPT !.live = @ \ {u}, !.turn = IF w.tb.hand.cur = u THEN @ + 1 ELSE @]
      out == [With(w, u, [w.tb.seats[u] EXCEPT !.leaving = TRUE]) EXCEPT !.tb.hand = hand]
  IN {host(x) : x \in IF u \notin w.tb.hand.live \/ (w.tb.hand.cur # u /\ Cardinality(hand.live) > 1)
                      THEN {out} ELSE Outcomes(out)}

HoldemLeaving(w, u) ==
  LET out == With(w, u, [w.tb.seats[u] EXCEPT !.leaving = TRUE, !.auto = TRUE])
  IN IF w.tb.host = u THEN [out EXCEPT !.tb = TransferHost(out.tb)] ELSE out

Gone(w, u) == Count(Vacate(w, {u}))
Left(w, u) ==
  IF ~InHand(w.tb, u) THEN {Gone(w, u)}
  ELSE CASE w.tb.game = "zjh" -> ZjhFolded(w, u)
         [] w.tb.game = "holdem" -> {HoldemLeaving(w, u)}
         [] OTHER -> {Gone(x, u) : x \in UNION {Close(w, a) : a \in {b \in BoardAwards(w.tb.hand) : b[u] = 0}}}

Leave(t, u) == At(t, u) /\ Done(Left(World(t), u))

-----------------------------------------------------------------------------
(* tick: every armed deadline fires in the end, whatever the members do.    *)

Timer(t) == /\ tables[t] # Null /\ tables[t].phase # "closed"
            /\ UNCHANGED <<active, enabled, asked, changes>>
Wrote(W) == \E w \in W : \E x \in Scheduled(w) : Write(x)

\* The player to move is put on auto and plays; a board hand is lost on time.
TurnDue(t) == \E w \in Worlds(t) :
  /\ Timer(t) /\ w.tb.phase = "playing"
  /\ LET u == w.tb.hand.cur
         auto == With(w, u, [w.tb.seats[u] EXCEPT !.auto = TRUE])
         fold == [auto EXCEPT !.tb.hand.turn = @ + 1, !.tb.hand.live = @ \ {u}]
     IN Wrote(IF w.tb.game = "board"
              THEN UNION {Close(w, a) : a \in {b \in BoardAwards(w.tb.hand) :
                      IF w.tb.hand.turn = 1 THEN b[u] = w.tb.hand.paid[u] ELSE b[u] = 0}}
              ELSE IF w.tb.game = "holdem" /\ w.tb.seats[u].leaving THEN Outcomes(fold)
              ELSE Moved(auto, u))

StackSum(tb) == MapThenSumSet(LAMBDA u : tb.seats[u].stack, Seated(tb))

StartDue(t) ==
  /\ Timer(t) /\ tables[t].phase \in {"waiting", "between"} /\ tables[t].countdown
  /\ StackSum(tables[t]) <= MaxChips
  /\ Wrote(Started(World(t), FALSE))

IdleDue(t) == \E w \in Worlds(t) :
  /\ Timer(t) /\ w.tb.phase \in {"waiting", "between"} /\ w.tb.idle
  /\ Write(IF w.tb.game = "holdem" THEN Vacate(w, Humans(w.tb))
           ELSE [w EXCEPT !.tb = Closed(@),
                          !.rows = [u \in Users |-> IF @[u] = t THEN Null ELSE @[u]]])

HostDue(t) ==
  /\ Timer(t) /\ tables[t].phase = "waiting" /\ Cardinality(Staying(tables[t])) > 1
  /\ Wrote({[World(t) EXCEPT !.tb = TransferHost(@)]})

AwayDue(t, u) == \E w \in Worlds(t) :
  /\ Timer(t) /\ w.tb.game = "holdem" /\ u \in Staying(w.tb)
  /\ \/ w.tb.seats[u].away = "timed" /\ Wrote({Vacate(w, {u})})
     \/ w.tb.seats[u].away = "no" /\ w.tb.seats[u].auto /\ Wrote({MarkAway(w, u)})

\* Who has shown no sign for three minutes leaves a table that is waiting.
Offline(t, u) ==
  /\ Timer(t) /\ tables[t].phase = "waiting" /\ u \in Humans(tables[t])
  /\ Wrote({Gone(World(t), u)})

-----------------------------------------------------------------------------
\* The rest of the program: accounts, the switch, and the daily beans.
Change ==
  /\ changes < MaxChanges /\ changes' = changes + 1
  /\ \/ /\ \E u \in Users : active' = IF u \in active THEN active \ {u} ELSE active \cup {u}
        /\ UNCHANGED <<wallet, enabled>>
     \/ enabled' = ~enabled /\ UNCHANGED <<wallet, active>>
     \/ /\ wallet' = [wallet EXCEPT !["beans"] = [u \in Users |-> IF @[u] < Beans THEN Beans ELSE @[u]]]
        /\ UNCHANGED <<active, enabled>>
  /\ UNCHANGED <<held, pot, rows, tables, asked>>

Next ==
  \/ Change
  \/ \E t \in Tables : TurnDue(t) \/ StartDue(t) \/ IdleDue(t) \/ HostDue(t)
  \/ \E t \in Tables, u \in Users :
       \/ Create(t, u) \/ Seat(t, u) \/ QuickSeat(t, u) \/ Ready(t, u) \/ Start(t, u)
       \/ Auto(t, u) \/ Away(t, u) \/ TopUp(t, u) \/ Act(t, u) \/ EndBoard(t, u) \/ Leave(t, u)
       \/ AwayDue(t, u) \/ Offline(t, u)

Spec == Init /\ [][Next]_vars

\* The timer loop runs for ever, so an armed deadline is served.
Tick(t) == TurnDue(t) \/ StartDue(t) \/ IdleDue(t)
FairSpec == Spec /\ \A t \in Tables : WF_vars(Tick(t))

-----------------------------------------------------------------------------
InUse == {t \in Tables : tables[t] # Null}
PhaseOf(t) == IF t \in InUse THEN tables[t].phase ELSE Null

(* Every point in an escrow is explained by the table it belongs to: a      *)
(* hold'em seat's stack, or what a player of a running hand has not yet    *)
(* put in.  The checks of settle and release therefore never fail.         *)
HeldAt(t, u) ==
  LET tb == tables[t] IN
  IF tb = Null \/ tb.currency = "beans" \/ u \notin Seated(tb) THEN 0
  ELSE IF InHand(tb, u) THEN IF tb.game = "zjh" THEN Chips(tb.hand, u) ELSE tb.hand.budget[u]
  ELSE IF tb.game = "holdem" THEN tb.seats[u].stack ELSE 0
HeldExplained == \A t \in Tables, u \in Users : held[t][u] = HeldAt(t, u)

(* The pot of a zjh hand is what its players have put in.                   *)
PotAt(t) ==
  LET tb == tables[t] IN
  IF tb = Null \/ tb.hand = Null \/ tb.game # "zjh" \/ tb.currency = "beans" THEN 0
  ELSE Total(tb.hand.paid)
PotsExplained == \A t \in Tables : pot[t] = PotAt(t)

(* No points are made or lost by playing.                                   *)
PointsConserved ==
  Total(wallet["points"]) + Total(pot) + Total([t \in Tables |-> Total(held[t])])
     = Points * Cardinality(Users)

(* Nobody stakes, brings to a table or puts in more than he has.            *)
NoOverdraft == \A c \in Currencies, u \in Users : wallet[c][u] >= 0

(* Of the money of the tables nothing is unexplained, lost or overdrawn.    *)
TableMoney == HeldExplained /\ PotsExplained /\ PointsConserved /\ NoOverdraft

(* A member's one seat per currency: its row and the documents agree.       *)
RowsAgree ==
  \A t \in InUse, u \in Users : u \in Seated(tables[t]) <=> rows[tables[t].currency][u] = t

(* The players of a hand stay seated to its end, and who leaves is gone     *)
(* then; exactly a closed table keeps nobody.                               *)
HandsSeated ==
  \A t \in InUse :
    LET tb == tables[t] IN
    /\ tb.phase = "playing" <=> tb.hand # Null
    /\ tb.hand # Null => tb.hand.cur \in tb.hand.live /\ DOMAIN tb.hand.budget \subseteq Seated(tb)
    /\ tb.hand = Null => \A u \in Humans(tb) : ~tb.seats[u].leaving
    /\ tb.phase # "closed" <=> Humans(tb) # {}

(* A table has a host who is going to stay whenever anyone is, and none     *)
(* otherwise; of any two members it knows who came first.                  *)
HostsStay ==
  \A t \in InUse :
    LET tb == tables[t] IN
    /\ IF Staying(tb) = {} THEN tb.host = Null ELSE tb.host \in Staying(tb)
    /\ \A u, v \in Humans(tb) : tb.seats[u].since = tb.seats[v].since => u = v

(* Seats, rows, hands and hosts of the tables agree.                        *)
SeatsAgree == RowsAgree /\ HandsSeated /\ HostsStay

(* The deadlines do their work when the members do nothing any more: every  *)
(* hand ends, which lets go who asked to leave, and a table is closed.  A   *)
(* hold'em table of members who sit there all-in from the blinds and always *)
(* divide the pot could go on; only its hands are sure to end.             *)
Goes(t) == t \in InUse /\ (tables[t].game # "holdem" \/ tables[t].phase = "playing")
AtAnEnd(t) == PhaseOf(t) = "closed" \/ (t \in InUse /\ ~Goes(t))
=============================================================================
