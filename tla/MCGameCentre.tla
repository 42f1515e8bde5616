---------------------------- MODULE MCGameCentre -----------------------------
(* The game centre: the tables with their money, the three kinds of game   *)
(* that are played at them, and the cards that announce them to a group.   *)
(* The components are checked side by side: one is at work in a behaviour. *)
EXTENDS GameOutbox, TLC

CONSTANTS
  Users, Robot, Tables, Games, Null, Points, Beans, Stake, BuyMax, MaxSeats, AutoHands,
  MaxChips, MaxTurns, MaxRequests, MaxChanges,
  FewRequests,  \* bound on the requests at tables that are to come to rest
  u1, t1        \* a member, and the table

VARIABLES part,  \* the component that is at work; the others stand still
  hand, now, jobs, ready, online, flips, wallet, held, pot, rows, tables, active, enabled,
  asked, changes

Holdem == INSTANCE HoldemHand WITH
  Seats <- {0, 2, 5}, Stacks <- {1, 2, 4}, SmallBlind <- 1, BigBlind <- 2, Strengths <- {1, 2}
Zjh == INSTANCE ZjhHand WITH
  Players <- {0, 1, 3}, Budgets <- {1, 3}, Ante <- 1, Rounds <- 2, Strengths <- {0, 1}, game <-
  hand
Pair == INSTANCE BoardGame WITH
  Humans <- Users, Moves <- {1}, None <- Null, TotalTime <- 2, Step <- 2,
  OfflineStep <- 3, MaxTime <- 4, MaxMoves <- 2, MaxFlips <- 1
Practice == INSTANCE BoardGame WITH
  Humans <- {u1}, Moves <- {1, 2}, None <- Null, TotalTime <- 2, Step <- 2,
  OfflineStep <- 3, MaxTime <- 4, MaxMoves <- 3, MaxFlips <- 1
Centre == INSTANCE GameTables

others == <<hand, now, jobs, ready, online, flips, wallet, held, pot, rows, tables, active,
            enabled, asked, changes>>
allVars == <<vars, part, others>>
notHoldem == <<now, jobs, ready, online, flips, wallet, held, pot, rows, tables, active,
               enabled, asked, changes>>
notZjh == <<now, jobs, ready, online, flips, wallet, held, pot, rows, tables, active, enabled,
            asked, changes>>
notPair == <<wallet, held, pot, rows, tables, active, enabled, asked, changes>>
notPractice == <<wallet, held, pot, rows, tables, active, enabled, asked, changes>>
notCentre == <<hand, now, jobs, ready, online, flips>>

ASSUME Assumptions ==
  /\ Holdem!HandAssumption /\ Zjh!ZjhAssumption
  /\ Centre!TablesAssumption
  /\ Pair!BoardAssumption /\ Practice!BoardAssumption

AtRest == Init
On(p, F) == part = p /\ F
AtTables == part \in {"tables", "busy"}

(* A step of one component leaves the others as they are.                  *)
InOutbox(A) == part = "outbox" /\ A /\ UNCHANGED <<part, others>>
InHoldem(A) == part = "holdem" /\ A /\ UNCHANGED <<part, vars, notHoldem>>
InZjh(A) == part = "zjh" /\ A /\ UNCHANGED <<part, vars, notZjh>>
InPair(A) == part = "pair" /\ A /\ UNCHANGED <<part, vars, notPair>>
InPractice(A) == part = "practice" /\ A /\ UNCHANGED <<part, vars, notPractice>>
InCentre(A) == part = "tables" /\ A /\ asked' <= FewRequests /\ UNCHANGED <<part, vars, notCentre>>
InBusy(A) == part = "busy" /\ A /\ UNCHANGED <<part, vars, notCentre>>

UnionInit ==
  \/ part = "outbox" /\ Init
     /\ hand = Null /\ now = Null /\ jobs = Null /\ ready = Null /\ online = Null
     /\ flips = Null /\ wallet = Null /\ held = Null /\ pot = Null /\ rows = Null
     /\ tables = Null /\ active = Null /\ enabled = Null /\ asked = Null /\ changes = Null
  \/ part = "holdem" /\ AtRest /\ Holdem!Init
     /\ now = Null /\ jobs = Null /\ ready = Null /\ online = Null /\ flips = Null
     /\ wallet = Null /\ held = Null /\ pot = Null /\ rows = Null /\ tables = Null
     /\ active = Null /\ enabled = Null /\ asked = Null /\ changes = Null
  \/ part = "zjh" /\ AtRest /\ Zjh!Init
     /\ now = Null /\ jobs = Null /\ ready = Null /\ online = Null /\ flips = Null
     /\ wallet = Null /\ held = Null /\ pot = Null /\ rows = Null /\ tables = Null
     /\ active = Null /\ enabled = Null /\ asked = Null /\ changes = Null
  \/ part = "pair" /\ AtRest /\ Pair!Init
     /\ wallet = Null /\ held = Null /\ pot = Null /\ rows = Null /\ tables = Null
     /\ active = Null /\ enabled = Null /\ asked = Null /\ changes = Null
  \/ part = "practice" /\ AtRest /\ Practice!Init
     /\ wallet = Null /\ held = Null /\ pot = Null /\ rows = Null /\ tables = Null
     /\ active = Null /\ enabled = Null /\ asked = Null /\ changes = Null
  \/ part = "tables" /\ AtRest /\ Centre!Init
     /\ hand = Null /\ now = Null /\ jobs = Null /\ ready = Null /\ online = Null
     /\ flips = Null
  \/ part = "busy" /\ AtRest /\ Centre!Init
     /\ hand = Null /\ now = Null /\ jobs = Null /\ ready = Null /\ online = Null
     /\ flips = Null

UnionNext ==
  \/ InOutbox(Next)
  \/ InHoldem(Holdem!Next)
  \/ InZjh(Zjh!Next)
  \/ InPair(Pair!Next)
  \/ InPractice(Practice!Next)
  \/ InCentre(Centre!Next)
  \/ InBusy(Centre!Next)

(* The fairness of each component, as its own module states it.            *)
UnionFairness ==
  /\ WF_allVars(\/ InOutbox(Tick) \/ InPair(Pair!Tick) \/ InPractice(Practice!Tick)
                \/ InHoldem(Holdem!Next) \/ InZjh(\E p \in {0, 1, 3} : Zjh!Auto(p))
                \/ InCentre(Centre!Tick(t1)))
  /\ WF_allVars(\/ InOutbox(\E x \in Workers : Claim(x))
                \/ InPair(Pair!Second) \/ InPractice(Practice!Second))
  /\ \A x \in Workers : WF_allVars(InOutbox(\E outcome \in Outcomes : Done(x, outcome)))
  /\ SF_allVars(InOutbox(\E x \in Workers : Enter(x)))
  /\ SF_allVars(InOutbox(\E x \in Workers : Apply(x)))
  /\ SF_allVars(InOutbox(\E x \in Workers : Done(x, "ok")))

UnionSpec == UnionInit /\ [][UnionNext]_allVars /\ UnionFairness

-----------------------------------------------------------------------------
(* The games themselves: hold'em conserves chips through side pots and asks *)
(* only who can answer (holdem_engine.py); a zjh hand pays exactly its pot  *)
(* to the best cards however players leave (zjh_engine.py); the clock of a  *)
(* board takes time from the player to move only, nobody is timed out early *)
(* and the robot never plays an answer to another position.                *)
EnginesRight ==
  /\ [](part = "holdem" => Holdem!PotsRight)
  /\ [](part = "zjh" => Zjh!HandSound)
  /\ [](part = "pair" => Pair!BoardSound) /\ [](part = "practice" => Practice!BoardSound)
  /\ [][part = "pair" => Pair!MoverPays]_others
  /\ [][part = "practice" => Practice!MoverPays]_others

(* Every point in an escrow is explained by a seat or a hand, and playing   *)
(* makes and loses none (game_center.py, play_money.py).                   *)
TableMoney == AtTables => Centre!TableMoney

(* A member's seat rows and the table documents agree, through hands, hosts *)
(* and departures (game_center.py).                                        *)
SeatsAgree == AtTables => Centre!SeatsAgree

(* The card of a table that has begun or closed is removed or given up;     *)
(* every hand ends by its deadlines; and a table nobody plays at closes.   *)
CentreSettles ==
  (\/ On("outbox", desired = "delete")
   \/ On("holdem", ~hand.finished) \/ On("zjh", ~hand.finished)
   \/ On("pair", ~Pair!Over) \/ On("practice", ~Practice!Over)
   \/ On("tables", Centre!Goes(t1)))
  ~> (\/ On("outbox", pace = "late" \/ state \in {"deleted", "unknown"})
      \/ On("holdem", hand.finished) \/ On("zjh", hand.finished)
      \/ On("pair", Pair!Over) \/ On("practice", Practice!Over)
      \/ On("tables", Centre!AtAnEnd(t1)))
=============================================================================
