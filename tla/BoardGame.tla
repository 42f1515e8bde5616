----------------------------- MODULE BoardGame -----------------------------
(***************************************************************************)
(* One gomoku or xiangqi hand at a game-centre table                       *)
(* (game_center_board.py): the two clocks, the grace of a player who went  *)
(* offline, draw offers, undo in practice, and a robot whose move is       *)
(* computed by a worker thread while the table goes on.  A position is the *)
(* list of the moves that led to it; a move is named by who made it and a  *)
(* choice, and the rules of the game decide nothing but the outcome.       *)
(***************************************************************************)
EXTENDS Integers, Sequences, FiniteSets, SequencesExt, FiniteSetsExt

CONSTANTS
  Humans, Robot,   \* two humans, or one human and the robot
  Moves,         \* the moves to choose from
  None,
  TotalTime, Step, OfflineStep,  \* seconds per player, per move, and when away
  MaxTime,         \* bound on the clock
  MaxMoves,        \* bound on the moves ever made in the hand
  MaxFlips         \* bound on disconnects and reconnects

Players == IF Cardinality(Humans) = 2 THEN Humans ELSE Humans \cup {Robot}
Practice == Robot \in Players

BoardAssumption ==
  /\ Cardinality(Players) = 2 /\ Robot \notin Humans
  /\ {TotalTime, Step, OfflineStep, MaxTime, MaxMoves, MaxFlips} \subseteq Nat

VARIABLES
  now,      \* seconds since the hand began
  hand,     \* the hand's part of the table document
  jobs,     \* the robot's jobs: position number -> the moves it was given
  ready,    \* the position numbers whose job has returned
  online,   \* who has an event stream open or was seen within 30 seconds
  flips
vars == <<now, hand, jobs, ready, online, flips>>

Other(p) == CHOOSE q \in Players : q # p
Least(a, b) == IF a < b THEN a ELSE b
Most(a, b) == IF a < b THEN b ELSE a

\* charge: the thinking time comes off the clock of the player to move.
Charge(h, t) ==
  [h EXCEPT !.remaining[h.current] = Most(0, @ - Most(0, t - h.started)), !.started = t]

\* arm_turn: the deadline of the player to move, later when he is offline.
ArmTurn(h, t) ==
  LET away == h.current \notin online \cup {Robot}
      step == IF away THEN OfflineStep ELSE Step
  IN [h EXCEPT !.started = t, !.grace = away,
               !.deadline = t + Least(step, h.remaining[h.current])]

Init ==
  /\ now = 0 /\ ready = {} /\ flips = 0
  /\ online \in {Humans} \cup {Humans \ {p} : p \in Humans}
  /\ \E first \in Players :
       hand = ArmTurn([current |-> first, moves |-> <<>>, count |-> 0, position |-> 0,
                       turn |-> 1, offer |-> None, last |-> [p \in Players |-> -3],
                       remaining |-> [p \in Players |-> TotalTime], started |-> 0,
                       grace |-> FALSE, deadline |-> 0, winner |-> None, reason |-> None], 0)
  /\ jobs = [n \in IF hand.current = Robot THEN {0} ELSE {} |-> <<>>]

Playing(h) == h.reason = None

\* settle: the clock is charged once more and the offer is dropped.
Settle(h, winner, reason, t) ==
  [Charge(h, t) EXCEPT !.winner = winner, !.reason = reason, !.offer = None]

-----------------------------------------------------------------------------
(* tick: grace for who went offline, the deadline, offers to the robot.     *)

Graced(h) ==
  IF ~h.grace /\ now < h.deadline /\ h.current \notin online \cup {Robot}
  THEN [h EXCEPT !.grace = TRUE,
                 !.deadline = h.started + Least(OfflineStep, h.remaining[h.current])]
  ELSE h

Expired(h) == now >= h.deadline
TimedOut(h) ==
  IF h.count = 0 THEN Settle(h, None, "aborted", h.deadline)
  ELSE Settle(h, Other(h.current), "timeout", h.deadline)

Declined(h) ==
  IF h.offer # None /\ Other(h.offer) = Robot
  THEN [h EXCEPT !.offer = None, !.turn = @ + 1] ELSE h

Ticked(h) ==
  LET g == Graced(h) IN
  IF ~Playing(h) THEN h ELSE IF Expired(g) THEN TimedOut(g) ELSE Declined(g)

\* schedule: one job per position in which the robot is to move.
Scheduled(h) ==
  IF Playing(h) /\ h.current = Robot /\ h.position \notin DOMAIN jobs
  THEN [n \in DOMAIN jobs \cup {h.position} |->
          IF n = h.position THEN h.moves ELSE jobs[n]]
  ELSE jobs

-----------------------------------------------------------------------------
(* The outcome of a move is the engine's: play on, a win, or a draw.        *)

Played(h, p, c, t) ==
  LET base == Charge(h, t) IN
  [base EXCEPT !.moves = Append(@, [by |-> p, choice |-> c]), !.count = @ + 1,
               !.position = @ + 1, !.turn = @ + 1,
               !.offer = IF @ # None /\ @ # p THEN None ELSE @]

MoveOutcomes(h, p, c, t) ==
  LET m == Played(h, p, c, t) IN
  {ArmTurn([m EXCEPT !.current = Other(p)], t)}
    \cup {Settle(m, w, "outcome", t) : w \in {p, None}}

Commit(h) == hand' = h /\ jobs' = Scheduled(h)

\* A request of member p reads the table after tick has caught up with the clock.
Request(p, Op(_)) ==
  /\ p \in Humans /\ Playing(hand)
  /\ \E h \in {Ticked(hand)} : IF Playing(h) THEN Op(h) ELSE Commit(h)
  /\ UNCHANGED <<now, ready, flips, online>>

Move(p) == \E c \in Moves : Request(p, LAMBDA h :
  /\ h.current = p /\ h.count < MaxMoves
  /\ \E m \in MoveOutcomes(h, p, c, now) : Commit(m))

OfferDraw(p) == Request(p, LAMBDA h :
  /\ h.offer = None /\ h.count - h.last[p] >= 3
  /\ Commit([h EXCEPT !.offer = p, !.last[p] = h.count, !.turn = @ + 1]))

AcceptDraw(p) == Request(p, LAMBDA h :
  /\ h.offer \notin {None, p}
  /\ Commit(Settle([h EXCEPT !.turn = @ + 1], None, "draw_agreed", now)))

RejectDraw(p) == Request(p, LAMBDA h :
  /\ h.offer \notin {None, p}
  /\ Commit([h EXCEPT !.offer = None, !.turn = @ + 1]))

\* Resigning, and leaving the table in the middle of a hand.
Resign(p) == Request(p, LAMBDA h :
  Commit(Settle([h EXCEPT !.turn = @ + 1], Other(p), "resign", now)))

\* Mutant: the position after an undo has the number of the one that was taken back.
UndoSilently(p) == Request(p, LAMBDA h :
  /\ Practice /\ h.current = p /\ Len(h.moves) >= 2
  /\ h.moves[Len(h.moves) - 1].by = p
  /\ Commit(ArmTurn([Charge(h, now) EXCEPT !.moves = SubSeq(@, 1, Len(@) - 2), !.offer = None,
                                           !.position = @ - 2, !.turn = @ + 1], now)))

\* Practice only: the last two moves are taken back and the clocks keep running.
Undo(p) == Request(p, LAMBDA h :
  /\ Practice /\ h.current = p /\ Len(h.moves) >= 2
  /\ h.moves[Len(h.moves) - 1].by = p
  /\ Commit(ArmTurn([Charge(h, now) EXCEPT !.moves = SubSeq(@, 1, Len(@) - 2), !.offer = None,
                                           !.position = @ + 1, !.turn = @ + 1], now)))

-----------------------------------------------------------------------------
\* The worker thread returns a move for the position it was given.
RobotThinks(n) ==
  /\ n \in DOMAIN jobs \ ready
  /\ ready' = ready \cup {n}
  /\ UNCHANGED <<now, hand, jobs, online, flips>>

\* The timer: tick, and the robot's move once its job is done or is too late.
\* Half seconds are below the clock here, so a job that is done may wait a tick.
Tick ==
  /\ Playing(hand)
  /\ \E h \in {Ticked(hand)} :
       \/ Commit(h) /\ (h # hand \/ Scheduled(h) # jobs)
       \/ /\ Playing(h) /\ h.current = Robot /\ h.count < MaxMoves
          /\ h.position \in ready \/ now > h.started
          /\ \E c \in Moves : \E m \in MoveOutcomes(h, Robot, c, now) : Commit(m)
  /\ UNCHANGED <<now, ready, flips, online>>

Flip(p) ==
  /\ flips < MaxFlips /\ flips' = flips + 1
  /\ online' = IF p \in online THEN online \ {p} ELSE online \cup {p}
  /\ UNCHANGED <<now, hand, jobs, ready>>

\* A restart loses the robot's jobs and who is online; the table is in the database.
Restart ==
  /\ flips < MaxFlips /\ flips' = flips + 1
  /\ jobs' = [n \in {} |-> <<>>] /\ ready' = {} /\ online' = {}
  /\ UNCHANGED <<now, hand>>

\* The timer runs twice a second, so a deadline does not pass by more than a tick.
Second ==
  /\ Playing(hand) /\ now < MaxTime /\ now <= hand.deadline
  /\ now' = now + 1 /\ UNCHANGED <<hand, jobs, ready, online, flips>>

Next ==
  \/ Tick \/ Second \/ Restart \/ \E n \in DOMAIN jobs : RobotThinks(n)
  \/ \E p \in Humans : \/ Move(p) \/ OfferDraw(p) \/ AcceptDraw(p) \/ RejectDraw(p)
                       \/ Resign(p) \/ Undo(p) \/ Flip(p)

Spec == Init /\ [][Next]_vars
FairSpec == Spec /\ WF_vars(Tick) /\ WF_vars(Second)

-----------------------------------------------------------------------------
(* A job of the robot that is found under the number of the present         *)
(* position was computed for this very position: an undo or a later hand    *)
(* never lets an old answer through.                                       *)
RobotSeesTheBoard == hand.position \in DOMAIN jobs => jobs[hand.position] = hand.moves

(* A clock never runs below zero, and the deadline of the player to move    *)
(* never lies past the time he has left, however often he reconnects.       *)
ClocksHonest ==
  /\ \A p \in Players : hand.remaining[p] \in 0..TotalTime
  /\ Playing(hand) => hand.deadline <= hand.started + hand.remaining[hand.current]

BoardSound == RobotSeesTheBoard /\ ClocksHonest

(* Time is only taken from the player whose turn it is, and nobody loses on *)
(* time before the deadline he was shown.                                  *)
MoverPays ==
  /\ \A p \in Players : hand'.remaining[p] < hand.remaining[p] => hand.current = p
  /\ (Playing(hand) /\ hand'.reason = "timeout") => now >= hand.deadline

(* The clocks end every hand, whether the players move or not.              *)
Over == ~Playing(hand)
=============================================================================
