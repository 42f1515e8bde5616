------------------------------ MODULE MCPackets ------------------------------
(* A red packet in the books and in the group: who may draft, fund and     *)
(* claim it, and the card, pin and receipt that the group is shown.  The   *)
(* components are checked side by side: one is at work in a behaviour.     *)
EXTENDS RedPackets, TLC

(* What the group sees of a packet: PacketDelivery, of which a packet is a *)
(* stage and a number of shares taken.                                     *)
CONSTANTS Tasks, Worker, Nobody, Shares, Messages, Lease, Delay, MaxAttempts, MaxCrashes, Prompt,
          ServerErrorMayAccept

VARIABLES part,  \* the component that is at work; the others stand still
  stage, taken, version, rendered, eff, cursor, lock, task, crashes, face, pinned, log

Small  == [maxTotal |-> 4, maxParts |-> 3, forMembers |-> TRUE]
Closed == [maxTotal |-> 2, maxParts |-> 2, forMembers |-> FALSE]
TwoRules == {Small, Closed}
Loss == {-1}

Courier == INSTANCE PacketDelivery WITH status <- stage, claimed <- taken

others == <<stage, taken, version, rendered, eff, cursor, lock, task, crashes, face, pinned,
            log>>
allVars == <<vars, part, others>>

ASSUME Assumptions == Courier!DeliveryAssumption

(* Which member has which Telegram account, and which of the two is the    *)
(* only administrator, makes no difference.                                *)
Fresh ==
  /\ Init /\ config = Small
  /\ [u \in Users |-> members[u].tg]
       = CHOOSE f \in [Users -> Tgs] : \A u, v \in Users : f[u] = f[v] => u = v
  /\ {u \in Users : members[u].admin} \in {{}, {CHOOSE u \in Users : TRUE}, Users}

(* The packet while a courier is at work.                                  *)
AtRest == Fresh /\ permanent = FALSE /\ \A u \in Users : ~members[u].admin
On(p, F) == part = p /\ F

(* After the process has died the tasks still overlap while no message of  *)
(* the receipt is acknowledged, and then work one at a time.               *)
Working(t) == task[t] # Courier!Idle
Asked == crashes = 1 /\ cursor > 0 => \A s, t \in Tasks : Working(s) /\ Working(t) => s = t

(* A step of one component leaves the others as they are.                  *)
InPacket(A) == part = "packet" /\ A /\ UNCHANGED <<part, others>>
InCourier(A) == part = "courier" /\ A /\ UNCHANGED <<part, vars>> /\ Asked'

UnionInit ==
  \/ part = "packet" /\ Fresh
     /\ stage = Null /\ taken = Null /\ version = Null /\ rendered = Null /\ eff = Null
     /\ cursor = Null /\ lock = Null /\ task = Null /\ crashes = Null /\ face = Null
     /\ pinned = Null /\ log = Null
  \/ part = "courier" /\ AtRest /\ Courier!Init

UnionNext ==
  \/ InPacket(Next)
  \/ InCourier(Courier!Next)

(* The fairness of each component, as its own module states it.            *)
UnionFairness ==
  /\ WF_allVars(InPacket(Expire))
  /\ WF_allVars(InPacket(Tick) \/ InCourier(Courier!Tick))
  /\ \A t \in Tasks : WF_allVars(InCourier(Courier!Advance(t)))
  /\ SF_allVars(InCourier(\E t \in Tasks : Courier!BeginRender(t) /\ rendered < version))
  /\ SF_allVars(InCourier(\E t \in Tasks : Courier!ApplyEdit(t)))
  /\ SF_allVars(InCourier(\E t \in Tasks : Courier!EndRender(t, TRUE)))

UnionSpec == UnionInit /\ [][UnionNext]_allVars /\ UnionFairness

-----------------------------------------------------------------------------
(* What the group sees of a packet: one receipt, in order and after the    *)
(* final card, a card that shows what was recorded, no pin after the unpin *)
(* (packet_delivery.py, bot_packets.py), whatever fails, dies or races.    *)
EffectsInOrder ==
  /\ part = "courier" => /\ Courier!TypeOK /\ Courier!OneReceipt /\ Courier!ReceiptAfterFinalCard
                         /\ Courier!RecordedIsShown /\ Courier!UnpinnedInTheEnd

(* A draft lapses and an old packet is settled, even while the packets are *)
(* switched off; and the effects of an emptied packet come to an end.  An  *)
(* end is an end: a late edit, a second confirmation or a late expiry      *)
(* changes neither the terms of a confirmed packet nor the outcome.        *)
EverythingEnds ==
  /\ SettledIsFinal
  /\ (\/ On("packet", status = "draft" \/ (status = "active" /\ ~permanent))
      \/ part = "courier" /\ stage = "exhausted")
     ~> (\/ On("packet", status \in Finished \/ (status = "active" /\ permanent))
         \/ On("courier", Courier!Settled("unpin") /\ Courier!Settled("receipt")))
=============================================================================
