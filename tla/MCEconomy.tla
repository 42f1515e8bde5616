------------------------------ MODULE MCEconomy ------------------------------
(* How members come by points and what they spend them on: the shop and    *)
(* the bag, transfers, rewards and check-ins, lotteries.  The ledger and    *)
(* its one lock are in the modules; the parts are checked side by side, one *)
(* at work in a behaviour, on the sizes that its own questions need.        *)
EXTENDS Inventory, TLC

CONSTANTS u1, p1, p2, x1, x2, r1, r2, c1, c2

VARIABLES part,  \* the component that is at work; the others stand still
  clock2, points2, price2, orders2, bag2, group2, due2, exists2, grant2, quota2, remote2, job2,
  faults2, edit2, time, balance, direct, intents, cards, posting, bound, admins, fee, changes,
  since, samples, pending, intervals, paid, booked, growth, checkins, dual, drops, spends,
  switches, state, config, revision, pub, closed, entries, awards, drawn, joins, challenge,
  refunds, channel, admitted, bindings, lost

People == {p1, p2}
Accounts == {x1, x2}
Draws == {-1, 2}

Prize(kind, n) == [kind |-> kind, quantity |-> n, amount |-> 2]
FullHouse == [mode |-> "count", audience |-> "all", fee |-> 0, full |-> 2, gated |-> FALSE, needs |-> 1,
  strict |-> FALSE, device |-> FALSE, prizes |-> <<Prize("points", 1), Prize("registration", 1)>>]
OnTime == [mode |-> "timed", audience |-> "member", fee |-> 1, full |-> 0, gated |-> TRUE, needs |-> 1,
  strict |-> TRUE, device |-> FALSE, prizes |-> <<Prize("points", 1), Prize("manual", 1)>>]
ByHand == [mode |-> "manual", audience |-> "all", fee |-> 1, full |-> 0, gated |-> FALSE, needs |-> 1,
  strict |-> FALSE, device |-> TRUE, prizes |-> <<Prize("points", 2)>>]

Shop == INSTANCE Inventory WITH
  Kinds <- {"boost", "invite"}, MaxRevision <- 1, clock <- clock2, points <- points2, price <-
  price2, orders <- orders2, bag <- bag2, group <- group2, due <- due2, exists <- exists2, grant
  <- grant2, quota <- quota2, remote <- remote2, job <- job2, faults <- faults2, edit <- edit2
Sent == INSTANCE Transfers WITH
  Users <- Accounts, People <- People, Points <- 3, Amounts <- {2}, Fees <- {0, 1}, Cap <- 3,
  Life <- 1, DayLength <- 2, MaxTime <- 2, MaxIntents <- 1, MaxCards <- 2, MaxDirect <- 0,
  MaxChanges <- 1, clock <- time
Capped == INSTANCE Transfers WITH
  Users <- Accounts, People <- People, Points <- 3, Amounts <- {2}, Fees <- {0, 1}, Cap <- 3,
  Life <- 1, DayLength <- 2, MaxTime <- 2, MaxIntents <- 1, MaxCards <- 1, MaxDirect <- 1,
  MaxChanges <- 0, clock <- time
Watch == INSTANCE Earnings WITH
  Runs <- {r1, r2}, DayLength <- 2, MaxTime <- 3, Required <- 1, FullSteps <- 1, MaxSteps <- 2,
  FullRate <- 3, LowRate <- 1, Growth <- 2, Batch <- 1, Base <- Draws, Luck <- {1, 4}, Plain <-
  3, Drops <- {TRUE}, Tier <- 2, TierPercent <- 50, Costs <- {3}, MaxSamples <- 2, MaxSpends <-
  0, MaxSwitches <- 0, clock <- time
Daily == INSTANCE Earnings WITH
  Runs <- {r1}, DayLength <- 2, MaxTime <- 3, Required <- 1, FullSteps <- 1, MaxSteps <- 2,
  FullRate <- 3, LowRate <- 1, Growth <- 2, Batch <- 1, Base <- Draws, Luck <- {1, 4}, Plain <-
  3, Drops <- {TRUE}, Tier <- 2, TierPercent <- 50, Costs <- {3}, MaxSamples <- 1, MaxSpends <-
  1, MaxSwitches <- 1, clock <- time
Draft == INSTANCE Lottery WITH
  People <- People, Accounts <- Accounts, Calls <- {c1}, Configs <- {FullHouse, OnTime}, Linked
  <- {People}, Alike <- {People}, Points <- 1, MaxRevision <- 2, MaxBindings <- 0, MaxFaults <-
  0, faults <- lost
House == INSTANCE Lottery WITH
  People <- People, Accounts <- Accounts, Calls <- {c1, c2}, Configs <- {FullHouse}, Linked <-
  {People}, Alike <- {People}, Points <- 1, MaxRevision <- 1, MaxBindings <- 0, MaxFaults <- 0,
  faults <- lost
Award == INSTANCE Lottery WITH
  People <- People, Accounts <- Accounts, Calls <- {c1}, Configs <- {FullHouse}, Linked <-
  {People}, Alike <- {People}, Points <- 1, MaxRevision <- 1, MaxBindings <- 1, MaxFaults <- 1,
  faults <- lost
Clock == INSTANCE Lottery WITH
  People <- People, Accounts <- Accounts, Calls <- {c1}, Configs <- {OnTime}, Linked <-
  {People}, Alike <- {People}, Points <- 1, MaxRevision <- 1, MaxBindings <- 1, MaxFaults <- 1,
  faults <- lost
Device == INSTANCE Lottery WITH
  People <- People, Accounts <- Accounts, Calls <- {c1}, Configs <- {ByHand}, Linked <-
  {People}, Alike <- {People}, Points <- 1, MaxRevision <- 1, MaxBindings <- 0, MaxFaults <- 0,
  faults <- lost

others == <<clock2, points2, price2, orders2, bag2, group2, due2, exists2, grant2, quota2,
            remote2, job2, faults2, edit2, time, balance, direct, intents, cards, posting, bound,
            admins, fee, changes, since, samples, pending, intervals, paid, booked, growth,
            checkins, dual, drops, spends, switches, state, config, revision, pub, closed,
            entries, awards, drawn, joins, challenge, refunds, channel, admitted, bindings, lost>>
allVars == <<vars, part, others>>
notShop == <<time, balance, direct, intents, cards, posting, bound, admins, fee, changes, since,
             samples, pending, intervals, paid, booked, growth, checkins, dual, drops, spends,
             switches, state, config, revision, pub, closed, entries, awards, drawn, joins,
             challenge, refunds, channel, admitted, bindings, lost>>
notSent == <<clock2, points2, price2, orders2, bag2, group2, due2, exists2, grant2, quota2,
             remote2, job2, faults2, edit2, since, samples, pending, intervals, paid, booked,
             growth, checkins, dual, drops, spends, switches, state, config, revision, pub,
             closed, entries, awards, drawn, joins, challenge, refunds, channel, admitted,
             bindings, lost>>
notCapped == <<clock2, points2, price2, orders2, bag2, group2, due2, exists2, grant2, quota2,
               remote2, job2, faults2, edit2, since, samples, pending, intervals, paid, booked,
               growth, checkins, dual, drops, spends, switches, state, config, revision, pub,
               closed, entries, awards, drawn, joins, challenge, refunds, channel, admitted,
               bindings, lost>>
notWatch == <<clock2, points2, price2, orders2, bag2, group2, due2, exists2, grant2, quota2,
              remote2, job2, faults2, edit2, direct, intents, cards, posting, bound, admins, fee,
              changes, state, config, revision, pub, closed, entries, awards, drawn, joins,
              challenge, refunds, channel, admitted, bindings, lost>>
notDaily == <<clock2, points2, price2, orders2, bag2, group2, due2, exists2, grant2, quota2,
              remote2, job2, faults2, edit2, direct, intents, cards, posting, bound, admins, fee,
              changes, state, config, revision, pub, closed, entries, awards, drawn, joins,
              challenge, refunds, channel, admitted, bindings, lost>>
notDraft == <<clock2, points2, price2, orders2, bag2, group2, due2, exists2, grant2, quota2,
              remote2, job2, faults2, edit2, time, direct, intents, cards, posting, admins, fee,
              changes, since, samples, pending, intervals, booked, growth, checkins, dual, drops,
              spends, switches>>
notHouse == <<clock2, points2, price2, orders2, bag2, group2, due2, exists2, grant2, quota2,
              remote2, job2, faults2, edit2, time, direct, intents, cards, posting, admins, fee,
              changes, since, samples, pending, intervals, booked, growth, checkins, dual, drops,
              spends, switches>>
notAward == <<clock2, points2, price2, orders2, bag2, group2, due2, exists2, grant2, quota2,
              remote2, job2, faults2, edit2, time, direct, intents, cards, posting, admins, fee,
              changes, since, samples, pending, intervals, booked, growth, checkins, dual, drops,
              spends, switches>>
notClock == <<clock2, points2, price2, orders2, bag2, group2, due2, exists2, grant2, quota2,
              remote2, job2, faults2, edit2, time, direct, intents, cards, posting, admins, fee,
              changes, since, samples, pending, intervals, booked, growth, checkins, dual, drops,
              spends, switches>>
notDevice == <<clock2, points2, price2, orders2, bag2, group2, due2, exists2, grant2, quota2,
               remote2, job2, faults2, edit2, time, direct, intents, cards, posting, admins, fee,
               changes, since, samples, pending, intervals, booked, growth, checkins, dual, drops,
               spends, switches>>

ASSUME Assumptions ==
  /\ Shop!InventoryAssumption /\ Sent!TransfersAssumption /\ Capped!TransfersAssumption
  /\ Watch!EarningsAssumption /\ Daily!EarningsAssumption
  /\ Draft!LotteryBounds /\ House!LotteryBounds /\ Award!LotteryBounds /\ Clock!LotteryBounds /\ Device!LotteryBounds

AtRest == Init /\ price \in Prices
On(p, F) == part = p /\ F

(* A step of one component leaves the others as they are.                  *)
InWhite(A) == part = "white" /\ A /\ UNCHANGED <<part, others>>
InShop(A) == part = "shop" /\ A /\ UNCHANGED <<part, vars, notShop>>
InSent(A) == part = "sent" /\ A /\ UNCHANGED <<part, vars, notSent>>
InCapped(A) == part = "capped" /\ A /\ UNCHANGED <<part, vars, notCapped>>
InWatch(A) == part = "watch" /\ A /\ UNCHANGED <<part, vars, notWatch>>
InDaily(A) == part = "daily" /\ A /\ UNCHANGED <<part, vars, notDaily>>
InDraft(A) == part = "draft" /\ A /\ UNCHANGED <<part, vars, notDraft>>
InHouse(A) == part = "house" /\ A /\ UNCHANGED <<part, vars, notHouse>>
InAward(A) == part = "award" /\ A /\ UNCHANGED <<part, vars, notAward>>
InClock(A) == part = "clock" /\ A /\ UNCHANGED <<part, vars, notClock>>
InDevice(A) == part = "device" /\ A /\ UNCHANGED <<part, vars, notDevice>>

UnionInit ==
  \/ part = "white" /\ Init
     /\ clock2 = Null /\ points2 = Null /\ price2 = Null /\ orders2 = Null /\ bag2 = Null
     /\ group2 = Null /\ due2 = Null /\ exists2 = Null /\ grant2 = Null /\ quota2 = Null
     /\ remote2 = Null /\ job2 = Null /\ faults2 = Null /\ edit2 = Null /\ time = Null
     /\ balance = Null /\ direct = Null /\ intents = Null /\ cards = Null /\ posting = Null
     /\ bound = Null /\ admins = Null /\ fee = Null /\ changes = Null /\ since = Null
     /\ samples = Null /\ pending = Null /\ intervals = Null /\ paid = Null /\ booked = Null
     /\ growth = Null /\ checkins = Null /\ dual = Null /\ drops = Null /\ spends = Null
     /\ switches = Null /\ state = Null /\ config = Null /\ revision = Null /\ pub = Null
     /\ closed = Null /\ entries = Null /\ awards = Null /\ drawn = Null /\ joins = Null
     /\ challenge = Null /\ refunds = Null /\ channel = Null /\ admitted = Null
     /\ bindings = Null /\ lost = Null
  \/ part = "shop" /\ AtRest /\ Shop!Init
     /\ time = Null /\ balance = Null /\ direct = Null /\ intents = Null /\ cards = Null
     /\ posting = Null /\ bound = Null /\ admins = Null /\ fee = Null /\ changes = Null
     /\ since = Null /\ samples = Null /\ pending = Null /\ intervals = Null /\ paid = Null
     /\ booked = Null /\ growth = Null /\ checkins = Null /\ dual = Null /\ drops = Null
     /\ spends = Null /\ switches = Null /\ state = Null /\ config = Null /\ revision = Null
     /\ pub = Null /\ closed = Null /\ entries = Null /\ awards = Null /\ drawn = Null
     /\ joins = Null /\ challenge = Null /\ refunds = Null /\ channel = Null
     /\ admitted = Null /\ bindings = Null /\ lost = Null
  \/ part = "sent" /\ AtRest /\ Sent!Init
     /\ clock2 = Null /\ points2 = Null /\ price2 = Null /\ orders2 = Null /\ bag2 = Null
     /\ group2 = Null /\ due2 = Null /\ exists2 = Null /\ grant2 = Null /\ quota2 = Null
     /\ remote2 = Null /\ job2 = Null /\ faults2 = Null /\ edit2 = Null /\ since = Null
     /\ samples = Null /\ pending = Null /\ intervals = Null /\ paid = Null /\ booked = Null
     /\ growth = Null /\ checkins = Null /\ dual = Null /\ drops = Null /\ spends = Null
     /\ switches = Null /\ state = Null /\ config = Null /\ revision = Null /\ pub = Null
     /\ closed = Null /\ entries = Null /\ awards = Null /\ drawn = Null /\ joins = Null
     /\ challenge = Null /\ refunds = Null /\ channel = Null /\ admitted = Null
     /\ bindings = Null /\ lost = Null
  \/ part = "capped" /\ AtRest /\ Capped!Init
     /\ clock2 = Null /\ points2 = Null /\ price2 = Null /\ orders2 = Null /\ bag2 = Null
     /\ group2 = Null /\ due2 = Null /\ exists2 = Null /\ grant2 = Null /\ quota2 = Null
     /\ remote2 = Null /\ job2 = Null /\ faults2 = Null /\ edit2 = Null /\ since = Null
     /\ samples = Null /\ pending = Null /\ intervals = Null /\ paid = Null /\ booked = Null
     /\ growth = Null /\ checkins = Null /\ dual = Null /\ drops = Null /\ spends = Null
     /\ switches = Null /\ state = Null /\ config = Null /\ revision = Null /\ pub = Null
     /\ closed = Null /\ entries = Null /\ awards = Null /\ drawn = Null /\ joins = Null
     /\ challenge = Null /\ refunds = Null /\ channel = Null /\ admitted = Null
     /\ bindings = Null /\ lost = Null
  \/ part = "watch" /\ AtRest /\ Watch!Init
     /\ clock2 = Null /\ points2 = Null /\ price2 = Null /\ orders2 = Null /\ bag2 = Null
     /\ group2 = Null /\ due2 = Null /\ exists2 = Null /\ grant2 = Null /\ quota2 = Null
     /\ remote2 = Null /\ job2 = Null /\ faults2 = Null /\ edit2 = Null /\ direct = Null
     /\ intents = Null /\ cards = Null /\ posting = Null /\ bound = Null /\ admins = Null
     /\ fee = Null /\ changes = Null /\ state = Null /\ config = Null /\ revision = Null
     /\ pub = Null /\ closed = Null /\ entries = Null /\ awards = Null /\ drawn = Null
     /\ joins = Null /\ challenge = Null /\ refunds = Null /\ channel = Null
     /\ admitted = Null /\ bindings = Null /\ lost = Null
  \/ part = "daily" /\ AtRest /\ Daily!Init
     /\ clock2 = Null /\ points2 = Null /\ price2 = Null /\ orders2 = Null /\ bag2 = Null
     /\ group2 = Null /\ due2 = Null /\ exists2 = Null /\ grant2 = Null /\ quota2 = Null
     /\ remote2 = Null /\ job2 = Null /\ faults2 = Null /\ edit2 = Null /\ direct = Null
     /\ intents = Null /\ cards = Null /\ posting = Null /\ bound = Null /\ admins = Null
     /\ fee = Null /\ changes = Null /\ state = Null /\ config = Null /\ revision = Null
     /\ pub = Null /\ closed = Null /\ entries = Null /\ awards = Null /\ drawn = Null
     /\ joins = Null /\ challenge = Null /\ refunds = Null /\ channel = Null
     /\ admitted = Null /\ bindings = Null /\ lost = Null
  \/ part = "draft" /\ AtRest /\ Draft!Init
     /\ clock2 = Null /\ points2 = Null /\ price2 = Null /\ orders2 = Null /\ bag2 = Null
     /\ group2 = Null /\ due2 = Null /\ exists2 = Null /\ grant2 = Null /\ quota2 = Null
     /\ remote2 = Null /\ job2 = Null /\ faults2 = Null /\ edit2 = Null /\ time = Null
     /\ direct = Null /\ intents = Null /\ cards = Null /\ posting = Null /\ admins = Null
     /\ fee = Null /\ changes = Null /\ since = Null /\ samples = Null /\ pending = Null
     /\ intervals = Null /\ booked = Null /\ growth = Null /\ checkins = Null /\ dual = Null
     /\ drops = Null /\ spends = Null /\ switches = Null
  \/ part = "house" /\ AtRest /\ House!Init
     /\ clock2 = Null /\ points2 = Null /\ price2 = Null /\ orders2 = Null /\ bag2 = Null
     /\ group2 = Null /\ due2 = Null /\ exists2 = Null /\ grant2 = Null /\ quota2 = Null
     /\ remote2 = Null /\ job2 = Null /\ faults2 = Null /\ edit2 = Null /\ time = Null
     /\ direct = Null /\ intents = Null /\ cards = Null /\ posting = Null /\ admins = Null
     /\ fee = Null /\ changes = Null /\ since = Null /\ samples = Null /\ pending = Null
     /\ intervals = Null /\ booked = Null /\ growth = Null /\ checkins = Null /\ dual = Null
     /\ drops = Null /\ spends = Null /\ switches = Null
  \/ part = "award" /\ AtRest /\ Award!Init
     /\ clock2 = Null /\ points2 = Null /\ price2 = Null /\ orders2 = Null /\ bag2 = Null
     /\ group2 = Null /\ due2 = Null /\ exists2 = Null /\ grant2 = Null /\ quota2 = Null
     /\ remote2 = Null /\ job2 = Null /\ faults2 = Null /\ edit2 = Null /\ time = Null
     /\ direct = Null /\ intents = Null /\ cards = Null /\ posting = Null /\ admins = Null
     /\ fee = Null /\ changes = Null /\ since = Null /\ samples = Null /\ pending = Null
     /\ intervals = Null /\ booked = Null /\ growth = Null /\ checkins = Null /\ dual = Null
     /\ drops = Null /\ spends = Null /\ switches = Null
  \/ part = "clock" /\ AtRest /\ Clock!Init
     /\ clock2 = Null /\ points2 = Null /\ price2 = Null /\ orders2 = Null /\ bag2 = Null
     /\ group2 = Null /\ due2 = Null /\ exists2 = Null /\ grant2 = Null /\ quota2 = Null
     /\ remote2 = Null /\ job2 = Null /\ faults2 = Null /\ edit2 = Null /\ time = Null
     /\ direct = Null /\ intents = Null /\ cards = Null /\ posting = Null /\ admins = Null
     /\ fee = Null /\ changes = Null /\ since = Null /\ samples = Null /\ pending = Null
     /\ intervals = Null /\ booked = Null /\ growth = Null /\ checkins = Null /\ dual = Null
     /\ drops = Null /\ spends = Null /\ switches = Null
  \/ part = "device" /\ AtRest /\ Device!Init
     /\ clock2 = Null /\ points2 = Null /\ price2 = Null /\ orders2 = Null /\ bag2 = Null
     /\ group2 = Null /\ due2 = Null /\ exists2 = Null /\ grant2 = Null /\ quota2 = Null
     /\ remote2 = Null /\ job2 = Null /\ faults2 = Null /\ edit2 = Null /\ time = Null
     /\ direct = Null /\ intents = Null /\ cards = Null /\ posting = Null /\ admins = Null
     /\ fee = Null /\ changes = Null /\ since = Null /\ samples = Null /\ pending = Null
     /\ intervals = Null /\ booked = Null /\ growth = Null /\ checkins = Null /\ dual = Null
     /\ drops = Null /\ spends = Null /\ switches = Null

UnionNext ==
  \/ InWhite(Next)
  \/ InShop(Shop!Next)
  \/ InSent(Sent!Next)
  \/ InCapped(Capped!Next)
  \/ InWatch(Watch!Next)
  \/ InDaily(Daily!Next)
  \/ InDraft(Draft!Next)
  \/ InHouse(House!Next)
  \/ InAward(Award!Next)
  \/ InClock(Clock!Next)
  \/ InDevice(Device!Next)

(* The fairness of each component, as its own module states it.            *)
UnionFairness ==
  /\ WF_allVars(InWhite(WriteRow) \/ InShop(Shop!WriteRow) \/ InWatch(Watch!Settle) \/ InClock(Clock!TimedDraw))
  /\ WF_allVars(\/ InWhite(\E ok \in BOOLEAN : SyncEffects(ok))
                \/ InShop(\E ok \in BOOLEAN : Shop!SyncEffects(ok))
                \/ InClock(\E a \in awards : a.state \in {"pending", "failed"} /\ Clock!Deliver(a)))
  /\ SF_allVars(InWhite(Mark) \/ InShop(Shop!Mark))
  /\ SF_allVars(InWhite(TakeWhite(u1)) \/ InShop(Shop!TakeBoosts(u1)))

UnionSpec == UnionInit /\ [][UnionNext]_allVars /\ UnionFairness

-----------------------------------------------------------------------------
(* The books are true.  Every balance is what was agreed: a card for each   *)
(* order and no other (shop.py, inventory.py), transfers once and with the  *)
(* fee of their card (group_points.py), the time watched once however it    *)
(* was proved (watch_rewards.py), one award a day (dual_checkin.py), each   *)
(* fee, refund and prize of a lottery once (lottery.py).  And what a table  *)
(* marks as settled is settled: a right taken back at the media server, a   *)
(* proof of watching counted, a lottery drawn fairly or cancelled with its  *)
(* refunds.                                                                 *)
LedgersExact ==
  /\ PaidForOnce /\ SyncedIsRevoked
  /\ part = "shop" => Shop!PaidForOnce /\ Shop!SyncedIsRevoked
  /\ part = "sent" => Sent!LedgerExact
  /\ part = "capped" => Capped!LedgerExact
  /\ part = "watch" => Watch!RewardsExact /\ Watch!CheckinExact /\ Watch!ProofsCounted
  /\ part = "daily" => Daily!RewardsExact /\ Daily!CheckinExact /\ Daily!ProofsCounted
  /\ part = "draft" => Draft!PointsExact /\ Draft!CancelledOrDrawn
  /\ part = "house" => House!PointsExact /\ House!CancelledOrDrawn /\ House!FairDraw
  /\ part = "award" => Award!PointsExact /\ Award!CancelledOrDrawn /\ Award!FairDraw
  /\ part = "clock" => Clock!PointsExact /\ Clock!CancelledOrDrawn /\ Clock!FairDraw
  /\ part = "device" => Device!PointsExact /\ Device!CancelledOrDrawn /\ Device!FairDraw

(* A confirmation moves points only as its card said, only the first        *)
(* check-in of a day takes an account below zero, and a lottery goes out as *)
(* it is stored, not as it was read before Telegram answered.               *)
AgreedAndSolvent ==
  /\ [][part = "sent" => Sent!AsCardSaid]_others
  /\ [][part = "capped" => Capped!AsCardSaid]_others
  /\ [][part = "watch" => Watch!Solvent]_others
  /\ [][part = "daily" => Daily!Solvent]_others
  /\ [][part = "draft" => Draft!AsStored]_others

(* Expired rights are taken back at the media server, proofs of watching    *)
(* are counted, a lottery past its deadline is drawn and its awards reach   *)
(* somebody, whatever fails once.                                           *)
EconomySettles ==
  /\ (\/ On("white", WhiteLapsed(u1)) \/ On("shop", Shop!Lapsed(1)) \/ On("watch", pending # {})
      \/ On("clock", Clock!Waiting))
     ~> (\/ On("white", ~WhiteLapsed(u1)) \/ On("shop", Shop!TakenBack(1)) \/ On("watch", pending = {})
         \/ On("clock", state # "published"))
  /\ (On("shop", Shop!Lapsed(2)) \/ On("clock", state = "settled"))
     ~> (On("shop", Shop!TakenBack(2)) \/ On("clock", Clock!AllAnswered))
=============================================================================
