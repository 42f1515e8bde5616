-------------------------- MODULE GameOutboxProofs --------------------------
(***************************************************************************)
(* For any number of workers, tokens and revisions: a table's card is      *)
(* posted at most once, and a row that calls it deleted has left none in   *)
(* the group.  Nothing is assumed of a 5xx, nor of how long a call takes.  *)
(*                                                                         *)
(* Both need to know who may still be posting.  OutboxInv says that the    *)
(* initial send has one sender at most, that it is the only one who can    *)
(* find the group empty, and that it works on a row that is "sending" or   *)
(* has been given up, so that no other worker can reach "deleted" first.   *)
(***************************************************************************)
EXTENDS MCGameCentre, SequenceTheorems, FiniteSetTheorems, WellFoundedInduction, TLAPS

Sender(w) == job[w].phase # "idle" /\ job[w].op = "send"
Keeper(w) == job[w].phase # "idle" /\ job[w].op # "send"

PendingIsUnsent ==
    state = "pending" => card = 0 /\ posted = <<>> /\ \A w \in Workers : ~Sender(w)

CardMatchesState ==
    /\ state \in {"pending", "sending", "unknown"} => card = 0
    /\ state = "sent" => card = 1
    /\ card # 0 => card = 1 /\ Len(posted) = 1
    /\ card = 0 => gone = {}

SenderIsFirst ==
    \A w \in Workers :
        Sender(w) =>
            /\ card = 0 /\ state \in {"sending", "unknown"}
            /\ \A v \in Workers : Sender(v) => v = w
            /\ IF job[w].phase = "applied" THEN Len(posted) = 1 /\ job[w].card = 1
                                           ELSE posted = <<>>

KeeperHasTheCard ==
    \A w \in Workers :
        Keeper(w) =>
            /\ card = 1 /\ job[w].card = 1
            /\ job[w].phase = "applied" /\ job[w].op = "delete" => 1 \in gone

OutboxInv ==
    /\ TypeOK
    /\ Len(posted) <= 1
    /\ PendingIsUnsent
    /\ CardMatchesState
    /\ SenderIsFirst
    /\ KeeperHasTheCard
    /\ DeletedIsGone

Parts == PendingIsUnsent /\ CardMatchesState /\ SenderIsFirst /\ KeeperHasTheCard /\ DeletedIsGone

-----------------------------------------------------------------------------
LEMMA OutboxInit == Init => OutboxInv
BY OutboxAssumption DEF Init, OutboxInv, TypeOK, PendingIsUnsent, CardMatchesState, SenderIsFirst,
   KeeperHasTheCard, DeletedIsGone, Sender, Keeper, NoJob, Jobs, Ops, States

LEMMA OutboxSave ==
  ASSUME NEW d \in {"live", "delete"}, OutboxInv, Save(d)
  PROVE  OutboxInv'
BY DEF Save, chat, OutboxInv, TypeOK, PendingIsUnsent, CardMatchesState, SenderIsFirst,
   KeeperHasTheCard, DeletedIsGone, Sender, Keeper

LEMMA OutboxLapse == OutboxInv /\ Lapse => OutboxInv'
BY DEF Lapse, LapsedState, chat, OutboxInv, TypeOK, PendingIsUnsent, CardMatchesState,
   SenderIsFirst, KeeperHasTheCard, DeletedIsGone, Sender, Keeper, States

(* Only a row that is pending can be dropped, and nothing was sent for it. *)
LEMMA OutboxDrop == OutboxInv /\ Drop => OutboxInv'
<1> SUFFICES ASSUME OutboxInv, Drop PROVE OutboxInv'
  OBVIOUS
<1>1. state = "pending"
  BY DEF Drop, Claimable, OutboxInv, CardMatchesState, TypeOK, States, DeletedIsGone
<1>2. posted = <<>> /\ gone = {} /\ \A w \in Workers : ~Sender(w)
  BY <1>1 DEF OutboxInv, PendingIsUnsent, CardMatchesState
<1>3. QED
  BY <1>1, <1>2 DEF Drop, chat, OutboxInv, TypeOK, PendingIsUnsent, CardMatchesState, SenderIsFirst,
     KeeperHasTheCard, DeletedIsGone, Sender, Keeper, States

(* A job starts as the only sender of a pending row or with the card.      *)
LEMMA OutboxTake ==
  ASSUME NEW w \in Workers, OutboxInv, job[w] = NoJob, Take(w)
  PROVE  OutboxInv'
<1>1. state \in {"pending", "sent"}
  BY DEF Take, Claimable, OutboxInv, TypeOK, States
<1>2. /\ UNCHANGED <<revision, rendered, desired, card, due, posted, gone, pace>>
      /\ job'[w].phase = "claimed" /\ job'[w].card = card /\ job'[w].op = OpFor
      /\ \A v \in Workers : v # w => job'[v] = job[v]
      /\ job' \in [Workers -> Jobs]
      /\ token' \in Tokens /\ lease' \in Nat
      /\ state' = IF OpFor = "send" THEN "sending" ELSE "sent"
  BY OutboxAssumption DEF Take, OpFor, chat, OutboxInv, TypeOK, Jobs, Ops
<1>3. OpFor \in Ops /\ (OpFor = "send" <=> card = 0 /\ desired # "delete")
  BY DEF OpFor, Ops
<1>4. desired = "delete" => card # 0
  BY DEF Take
<1>5. card = 0 <=> state = "pending"
  BY <1>1 DEF OutboxInv, CardMatchesState
<1>6. TypeOK'
  BY <1>2 DEF OutboxInv, TypeOK, States
<1>7. CASE card = 0
  BY <1>2, <1>3, <1>4, <1>5, <1>6, <1>7 DEF OutboxInv, PendingIsUnsent, CardMatchesState,
     SenderIsFirst, KeeperHasTheCard, DeletedIsGone, Sender, Keeper
<1>8. CASE card # 0
  BY <1>2, <1>3, <1>4, <1>5, <1>6, <1>8 DEF OutboxInv, PendingIsUnsent, CardMatchesState,
     SenderIsFirst, KeeperHasTheCard, DeletedIsGone, Sender, Keeper
<1>9. QED
  BY <1>7, <1>8

LEMMA OutboxEnter ==
  ASSUME NEW w \in Workers, OutboxInv, Enter(w)
  PROVE  OutboxInv'
<1>1. /\ UNCHANGED <<revision, rendered, desired, state, card, token, lease, due, posted, gone, pace>>
      /\ job[w].phase = "claimed" /\ job'[w].phase = "calling"
      /\ job'[w].op = job[w].op /\ job'[w].card = job[w].card
      /\ \A v \in Workers : v # w => job'[v] = job[v]
      /\ job' \in [Workers -> Jobs]
  BY DEF Enter, row, chat, OutboxInv, TypeOK, Jobs
<1>2. QED
  BY <1>1 DEF OutboxInv, TypeOK, PendingIsUnsent, CardMatchesState, SenderIsFirst,
     KeeperHasTheCard, DeletedIsGone, Sender, Keeper

(* The sender finds the group empty; everyone else leaves its size alone.  *)
LEMMA OutboxApply ==
  ASSUME NEW w \in Workers, OutboxInv, Apply(w)
  PROVE  OutboxInv'
<1>1. /\ UNCHANGED <<revision, rendered, desired, state, card, token, lease, due, pace>>
      /\ job[w].phase = "calling" /\ job'[w].phase = "applied" /\ job'[w].op = job[w].op
      /\ job'[w].card = IF job[w].op = "send" THEN Len(posted) + 1 ELSE job[w].card
      /\ \A v \in Workers : v # w => job'[v] = job[v]
      /\ job' \in [Workers -> Jobs]
      /\ job[w] \in Jobs /\ posted \in Seq(Nat) /\ gone \in SUBSET Nat
  <2>1. job[w] \in Jobs /\ posted \in Seq(Nat) /\ gone \in SUBSET Nat
    BY DEF OutboxInv, TypeOK
  <2>2. Len(posted) + 1 \in Nat
    BY <2>1
  <2>3. QED
    BY <2>1, <2>2 DEF Apply, row, OutboxInv, TypeOK, Jobs
<1>2. CASE job[w].op = "send"
  <2>1. Sender(w) /\ posted = <<>>
    BY <1>1, <1>2 DEF OutboxInv, SenderIsFirst, Sender
  <2>2. posted' = Append(posted, job[w].rev) /\ UNCHANGED gone
    BY <1>2 DEF Apply
  <2>3. posted' \in Seq(Nat) /\ Len(posted') = 1 /\ job'[w].card = 1
    BY <1>1, <1>2, <2>1, <2>2 DEF Jobs
  <2>4. card = 0 /\ state \in {"sending", "unknown"} /\ \A v \in Workers : Sender(v) => v = w
    BY <2>1 DEF OutboxInv, SenderIsFirst
  <2>5. TypeOK'
    BY <1>1, <2>2, <2>3 DEF OutboxInv, TypeOK
  <2>6. QED
    BY <1>1, <1>2, <2>2, <2>3, <2>4, <2>5 DEF OutboxInv, PendingIsUnsent, CardMatchesState,
       SenderIsFirst, KeeperHasTheCard, DeletedIsGone, Sender, Keeper
<1>3. CASE job[w].op # "send"
  <2>1. Keeper(w) /\ card = 1 /\ job[w].card = 1 /\ Len(posted) = 1
    BY <1>1, <1>3 DEF OutboxInv, KeeperHasTheCard, CardMatchesState, Keeper
  <2>2. \A v \in Workers : ~Sender(v)
    BY <2>1 DEF OutboxInv, SenderIsFirst
  <2>3. posted' \in Seq(Nat) /\ Len(posted') = 1 /\ DOMAIN posted' = DOMAIN posted
    <3>1. CASE job[w].op = "edit"
      <4>1. 1 \in 1 .. Len(posted) /\ job[w].rev \in Nat /\ posted \in Seq(Nat)
        BY <1>1, <2>1 DEF Jobs
      <4>2. posted' = [posted EXCEPT ![1] = job[w].rev]
        BY <2>1, <3>1 DEF Apply
      <4>3. /\ [posted EXCEPT ![1] = job[w].rev] \in Seq(Nat)
            /\ Len([posted EXCEPT ![1] = job[w].rev]) = Len(posted)
        BY <4>1, ExceptSeq
      <4>4. posted' \in Seq(Nat) /\ Len(posted') = 1
        BY <2>1, <4>2, <4>3, Zenon
      <4>5. QED
        BY <4>4, <4>2
    <3>2. CASE job[w].op # "edit"
      BY <1>1, <1>3, <2>1, <3>2 DEF Apply
    <3>3. QED
      BY <3>1, <3>2
  <2>4. gone \subseteq gone' /\ gone' \subseteq gone \cup {1} /\ (job[w].op = "delete" => 1 \in gone')
    BY <1>3, <2>1 DEF Apply
  <2>5. TypeOK'
    <3>1. gone' \in SUBSET Nat
      BY <1>1, <2>4
    <3>2. QED
      BY <1>1, <2>3, <3>1 DEF OutboxInv, TypeOK
  <2>6. QED
    BY <1>1, <1>3, <2>1, <2>2, <2>3, <2>4, <2>5 DEF OutboxInv, PendingIsUnsent, CardMatchesState,
       SenderIsFirst, KeeperHasTheCard, DeletedIsGone, Sender, Keeper
<1>4. QED
  BY <1>2, <1>3

(* Only a known refusal makes the row pending again.                       *)
LEMMA OutboxDone ==
  ASSUME NEW w \in Workers, NEW outcome \in Outcomes, OutboxInv, Done(w, outcome)
  PROVE  OutboxInv'
<1>1. /\ UNCHANGED <<revision, desired, posted, gone, pace>>
      /\ job[w].phase # "idle" /\ job'[w].phase = "idle" /\ job[w] \in Jobs
      /\ \A v \in Workers : v # w => job'[v] = job[v]
      /\ job' \in [Workers -> Jobs]
  BY OutboxAssumption DEF Done, chat, OutboxInv, TypeOK, Jobs, NoJob, Ops
<1>2. CASE token # job[w].token
  <2>1. UNCHANGED <<state, card, rendered, due, token, lease>>
    BY <1>2 DEF Done, HoldsLease
  <2>2. QED
    BY <1>1, <2>1 DEF OutboxInv, TypeOK, PendingIsUnsent, CardMatchesState, SenderIsFirst,
       KeeperHasTheCard, DeletedIsGone, Sender, Keeper
<1>3. CASE token = job[w].token /\ outcome = "ok"
  <2>1. job[w].phase = "applied" /\ Confirmed(w) /\ token' = NoToken /\ lease' = 0
    BY <1>3 DEF Done, MayReport, HoldsLease
  <2>2. job[w].card = 1 /\ Len(posted) = 1
    BY <2>1 DEF OutboxInv, SenderIsFirst, KeeperHasTheCard, CardMatchesState, Sender, Keeper
  <2>3. TypeOK'
    <3>1. rendered' \in Nat \cup {-1}
      BY <1>1, <2>1 DEF Confirmed, Jobs, OutboxInv, TypeOK
    <3>2. QED
      BY <1>1, <2>1, <2>2, <3>1 DEF Confirmed, OutboxInv, TypeOK, States
  <2>4. CASE job[w].op = "send"
    <3>1. card' = 1 /\ state' = "sent" /\ \A v \in Workers : ~Sender(v)' /\ ~Keeper(v)'
      BY <1>1, <2>1, <2>2, <2>4 DEF Confirmed, OutboxInv, SenderIsFirst, KeeperHasTheCard, Sender, Keeper
    <3>2. QED
      BY <1>1, <2>2, <2>3, <3>1 DEF OutboxInv, PendingIsUnsent, CardMatchesState, SenderIsFirst,
         KeeperHasTheCard, DeletedIsGone
  <2>5. CASE job[w].op # "send"
    <3>1. /\ card = 1 /\ card' = 1 /\ (job[w].op = "delete" => 1 \in gone)
          /\ state' = IF job[w].op = "delete" THEN "deleted" ELSE "sent"
      BY <1>1, <2>1, <2>2, <2>5 DEF Confirmed, OutboxInv, KeeperHasTheCard, Keeper
    <3>2. \A v \in Workers : ~Sender(v) /\ ~Sender(v)'
      BY <1>1, <3>1 DEF OutboxInv, SenderIsFirst, Sender
    <3>3. DOMAIN posted = {1}
      BY <2>2 DEF OutboxInv, TypeOK
    <3>4. QED
      BY <1>1, <2>2, <2>3, <3>1, <3>2, <3>3 DEF OutboxInv, PendingIsUnsent, CardMatchesState,
         SenderIsFirst, KeeperHasTheCard, DeletedIsGone, Sender, Keeper
  <2>6. QED
    BY <2>4, <2>5
<1>4. CASE token = job[w].token /\ outcome # "ok"
  <2>1. Failed(w, outcome) /\ UNCHANGED <<card, rendered>> /\ token' = NoToken /\ lease' = 0
    BY <1>4 DEF Done, Failed, HoldsLease
  <2>2. TypeOK'
    BY <1>1, <2>1, OutboxAssumption DEF Failed, OutboxInv, TypeOK, States
  <2>3. CASE job[w].op = "send"
    <3>1. Sender(w) /\ card = 0 /\ gone = {} /\ \A v \in Workers : Sender(v) => v = w
      BY <1>1, <2>3 DEF OutboxInv, SenderIsFirst, CardMatchesState, Sender
    <3>2. state' \in {"pending", "unknown"}
      BY <2>1, <2>3 DEF Failed
    <3>3. state' = "pending" => posted = <<>>
      <4>1. job[w].phase = "applied" => outcome \in {"server", "unknown"}
        BY <1>4 DEF Done, MayReport
      <4>2. QED
        BY <2>1, <2>3, <3>1, <4>1 DEF Failed, Uncertain, OutboxInv, SenderIsFirst
    <3>4. \A v \in Workers : ~Sender(v)' /\ ~Keeper(v)'
      BY <1>1, <3>1 DEF OutboxInv, KeeperHasTheCard, Sender, Keeper
    <3>5. QED
      BY <1>1, <2>1, <2>2, <3>1, <3>2, <3>3, <3>4 DEF OutboxInv, PendingIsUnsent, CardMatchesState,
         SenderIsFirst, KeeperHasTheCard, DeletedIsGone
  <2>4. CASE job[w].op # "send"
    <3>1. Keeper(w) /\ card = 1 /\ state' = "sent" /\ \A v \in Workers : ~Sender(v) /\ ~Sender(v)'
      BY <1>1, <2>1, <2>4 DEF Failed, OutboxInv, KeeperHasTheCard, SenderIsFirst, Sender, Keeper
    <3>2. QED
      BY <1>1, <2>1, <2>2, <3>1 DEF OutboxInv, PendingIsUnsent, CardMatchesState, SenderIsFirst,
         KeeperHasTheCard, DeletedIsGone, Sender, Keeper
  <2>5. QED
    BY <2>3, <2>4
<1>5. QED
  BY <1>2, <1>3, <1>4

LEMMA OutboxCrash ==
  ASSUME NEW w \in Workers, OutboxInv, Crash(w)
  PROVE  OutboxInv'
<1>1. /\ UNCHANGED <<revision, rendered, desired, state, card, token, lease, due, posted, gone, pace>>
      /\ job'[w].phase = "idle"
      /\ \A v \in Workers : v # w => job'[v] = job[v]
      /\ job' \in [Workers -> Jobs]
  BY OutboxAssumption DEF Crash, row, chat, OutboxInv, TypeOK, Jobs, NoJob, Ops
<1>2. QED
  BY <1>1 DEF OutboxInv, TypeOK, PendingIsUnsent, CardMatchesState, SenderIsFirst,
     KeeperHasTheCard, DeletedIsGone, Sender, Keeper

LEMMA OutboxTick == OutboxInv /\ Tick => OutboxInv'
BY DEF Tick, OneLess, chat, OutboxInv, TypeOK, PendingIsUnsent, CardMatchesState, SenderIsFirst,
   KeeperHasTheCard, DeletedIsGone, Sender, Keeper

LEMMA OutboxStep ==
  ASSUME OutboxInv, [Next]_vars
  PROVE  OutboxInv'
<1>1. CASE UNCHANGED vars
  BY <1>1 DEF vars, row, chat, OutboxInv, TypeOK, PendingIsUnsent, CardMatchesState, SenderIsFirst,
     KeeperHasTheCard, DeletedIsGone, Sender, Keeper
<1>2. CASE Next
  BY <1>2, OutboxSave, OutboxLapse, OutboxDrop, OutboxTake, OutboxEnter, OutboxApply, OutboxDone,
     OutboxCrash, OutboxTick DEF Next, Claim
<1>3. QED
  BY <1>1, <1>2

-----------------------------------------------------------------------------
THEOREM OutboxInvariant == Spec => []OutboxInv
<1>1. OutboxInv /\ [Next]_vars => OutboxInv'
  BY OutboxStep
<1>2. QED
  BY <1>1, OutboxInit, PTL DEF Spec

(* A row that says "deleted" has left no card behind and nobody posts one. *)
THEOREM OutboxDeletedIsGone == Spec => []DeletedIsGone
<1>1. OutboxInv => DeletedIsGone
  BY DEF OutboxInv
<1>2. QED
  BY <1>1, OutboxInvariant, PTL

(* Every step posts the one card, binds it, or does neither.               *)
LEMMA OutboxRefines ==
  ASSUME OutboxInv, OutboxInv', [Next]_vars
  PROVE  [Abstract!Next]_<<Len(posted), card>>
<1> USE DEF Abstract!Next, Abstract!Post, Abstract!Bind
<1>1. ASSUME NEW w \in Workers, Apply(w)
      PROVE  Abstract!Post \/ UNCHANGED <<Len(posted), card>>
  <2>1. UNCHANGED card /\ job[w].phase = "calling"
    BY <1>1 DEF Apply, row
  <2>2. CASE job[w].op = "send"
    <3>1. posted = <<>> /\ posted' = Append(posted, job[w].rev)
      BY <1>1, <2>1, <2>2 DEF Apply, OutboxInv, SenderIsFirst, Sender
    <3>2. QED
      BY <2>1, <3>1
  <2>3. CASE job[w].op # "send"
    <3>1. Keeper(w) /\ card = 1 /\ card' = 1
      BY <2>1, <2>3 DEF OutboxInv, KeeperHasTheCard, Keeper
    <3>2. Len(posted) = 1 /\ Len(posted') = 1
      BY <3>1 DEF OutboxInv, CardMatchesState
    <3>3. QED
      BY <2>1, <3>2
  <2>4. QED
    BY <2>2, <2>3
<1>2. ASSUME NEW w \in Workers, NEW outcome \in Outcomes, Done(w, outcome)
      PROVE  Abstract!Bind \/ UNCHANGED <<Len(posted), card>>
  <2>1. UNCHANGED posted /\ job[w].phase # "idle"
    BY <1>2 DEF Done, chat
  <2>2. card' = card \/ (card = 0 /\ card' = 1)
    BY <1>2 DEF Done, Confirmed, Failed, OutboxInv, CardMatchesState, TypeOK
  <2>3. card' = 1 => Len(posted') = 1
    BY DEF OutboxInv, CardMatchesState
  <2>4. QED
    BY <2>1, <2>2, <2>3
<1>3. QED
  BY <1>1, <1>2 DEF Next, vars, row, chat, Save, Claim, Lapse, Drop, Take, Enter, Crash, Tick

(* GameOutbox implements CardPost.                                         *)
THEOREM OutboxRefinesCardPost == Spec => ImplementsCardPost
<1>1. Init => Abstract!Init
  BY DEF Init, Abstract!Init
<1>2. QED
  BY <1>1, OutboxRefines, OutboxInvariant, PTL DEF Spec, ImplementsCardPost, Abstract!Spec

-----------------------------------------------------------------------------
(***************************************************************************)
(* The tables of the game centre: every escrow is explained by the table   *)
(* it belongs to, a pot holds what has been put in, no wallet is overdrawn *)
(* and no points are made or lost; a member's seat rows and the documents  *)
(* agree, and the players of a hand are seated to its end.                 *)
(*                                                                         *)
(* The argument is about worlds, which the handlers lead from and to: Base *)
(* says that the document, the rows, the escrows and the pot of a table    *)
(* fit one another, and the rest of Good what else is true whenever a request or a *)
(* deadline is done.  A handler may pass through worlds with Base alone:   *)
(* after a hand its leavers are still seated, and a dealt hand waits for   *)
(* its first player.                                                       *)
(***************************************************************************)
IsHand(h) == h = [budget |-> h.budget, paid |-> h.paid, live |-> h.live, turn |-> h.turn, cur |-> h.cur]
IsSeat(s) == s = [stack |-> s.stack, ready |-> s.ready, auto |-> s.auto, hands |-> s.hands,
                  away |-> s.away, leaving |-> s.leaving, since |-> s.since]
IsTable(tb) == tb = [game |-> tb.game, currency |-> tb.currency, phase |-> tb.phase, owner |-> tb.owner,
                     seats |-> tb.seats, host |-> tb.host, hand |-> tb.hand,
                     begun |-> tb.begun, first |-> tb.first, countdown |-> tb.countdown, idle |-> tb.idle]
IsWorld(w) == w = [id |-> w.id, tb |-> w.tb, money |-> w.money, held |-> w.held, pot |-> w.pot, rows |-> w.rows]

Kin(w, x) == /\ IsWorld(x) /\ IsTable(x.tb) /\ x.id = w.id
             /\ x.tb.game = w.tb.game /\ x.tb.currency = w.tb.currency

SameMoney(w, x) == x.money = w.money /\ x.held = w.held /\ x.pot = w.pot

(* Somebody who is going to stay is the host, unless nobody does.          *)
Led(w) == IF Centre!Staying(w.tb) = {} THEN w.tb.host = Null ELSE w.tb.host \in Centre!Staying(w.tb)

(* The same but for marks on the seats, the host and the timers.           *)
Alike(w, x) ==
  /\ Kin(w, x) /\ SameMoney(w, x) /\ x.rows = w.rows /\ x.tb.hand = w.tb.hand /\ x.tb.begun = w.tb.begun
  /\ x.tb.phase = w.tb.phase \/ {x.tb.phase, w.tb.phase} \subseteq {"waiting", "between"}
  /\ x.tb.seats = [u \in DOMAIN w.tb.seats |-> x.tb.seats[u]]
  /\ \A u \in DOMAIN w.tb.seats :
        /\ IsSeat(x.tb.seats[u]) /\ x.tb.seats[u].stack \in Nat
        /\ u # Robot => x.tb.seats[u].stack = w.tb.seats[u].stack
        /\ x.tb.seats[u].away = "timed" => w.tb.seats[u].away = "timed" \/ ~Centre!InHand(w.tb, u)
        /\ x.tb.seats[u].since = w.tb.seats[u].since /\ (w.tb.seats[u].leaving => x.tb.seats[u].leaving)
  /\ x.tb.host = w.tb.host \/ Led(x)

Stays(w, x) == \A u \in DOMAIN w.tb.seats : x.tb.seats[u].leaving = w.tb.seats[u].leaving

HandTyped(h) ==
  /\ IsHand(h) /\ h.budget \in [DOMAIN h.budget -> Nat] /\ h.paid \in [DOMAIN h.budget -> Nat]
  /\ \A u \in DOMAIN h.budget : h.paid[u] <= h.budget[u]
  /\ h.live \subseteq DOMAIN h.budget

Typed(w) ==
  /\ IsWorld(w) /\ IsTable(w.tb) /\ w.id \in Tables
  /\ w.money \in [Users -> Nat] /\ w.held \in [Users -> Nat] /\ w.rows = [u \in Users |-> w.rows[u]]
  /\ w.tb.game \in {"zjh", "holdem", "board"} /\ w.tb.currency \in {"points", "beans"}
  /\ DOMAIN w.tb.seats \subseteq Users \cup {Robot} /\ w.tb.seats = [u \in DOMAIN w.tb.seats |-> w.tb.seats[u]]
  /\ \A u \in DOMAIN w.tb.seats : IsSeat(w.tb.seats[u]) /\ w.tb.seats[u].stack \in Nat
  /\ w.tb.hand # Null => HandTyped(w.tb.hand)

Agreed(w) == \A u \in Users : u \in DOMAIN w.tb.seats <=> w.rows[u] = w.id

Handled(w) ==
  /\ w.tb.phase = "playing" <=> w.tb.hand # Null
  /\ w.tb.hand # Null =>
        /\ DOMAIN w.tb.hand.budget \subseteq DOMAIN w.tb.seats
        /\ \E u \in DOMAIN w.tb.hand.budget : u # Robot
        /\ w.tb.begun = TRUE
        /\ w.tb.game = "holdem" => \A u \in DOMAIN w.tb.hand.budget : w.tb.seats[u].away # "timed"

InEscrow(w, u) ==
  IF w.tb.currency = "beans" \/ u \notin DOMAIN w.tb.seats THEN 0
  ELSE IF Centre!InHand(w.tb, u)
       THEN IF w.tb.game = "zjh" THEN w.tb.hand.budget[u] - w.tb.hand.paid[u] ELSE w.tb.hand.budget[u]
  ELSE IF w.tb.game = "holdem" THEN w.tb.seats[u].stack ELSE 0
Escrowed(w) == \A u \in Users : w.held[u] = InEscrow(w, u)

(* The host sits at the table, and only leavers are without one; of any two *)
(* members it is known who came first.                                     *)
Headed(w) ==
  IF w.tb.host = Null THEN \A u \in DOMAIN w.tb.seats \ {Robot} : w.tb.seats[u].leaving
  ELSE w.tb.host \in DOMAIN w.tb.seats \ {Robot}
Ranked(w) ==
  \A u \in DOMAIN w.tb.seats \ {Robot} :
    /\ w.tb.seats[u].since \in Nat
    /\ \A v \in DOMAIN w.tb.seats \ {Robot} : w.tb.seats[u].since = w.tb.seats[v].since => u = v

(* A pot is what the players of a zjh hand have put in for points, at which *)
(* no robot plays.                                                         *)
Staked(w) ==
  IF w.tb.currency = "points" /\ w.tb.game = "zjh" /\ w.tb.hand # Null THEN Centre!Total(w.tb.hand.paid) ELSE 0
Funded(w) == w.pot = Staked(w) /\ (w.tb.currency = "points" => Robot \notin DOMAIN w.tb.seats)

Base(w) == Typed(w) /\ Agreed(w) /\ Handled(w) /\ Escrowed(w) /\ Headed(w) /\ Ranked(w) /\ Funded(w)

(* The points of a table and its members: in wallets, in escrow, in the pot. *)
Sum(f, S) == Centre!SumFunctionOnSet(f, S)
Put(w, u) == IF w.tb.game = "zjh" /\ Centre!InHand(w.tb, u) THEN w.tb.hand.paid[u] ELSE 0
Share(w, u) == w.money[u] + w.held[u] + Put(w, u)
Worth(w) == Sum([u \in Users |-> Share(w, u)], Users)

Manned(w) == w.tb.phase # "closed" <=> DOMAIN w.tb.seats \ {Robot} # {}
Calm(w) == w.tb.hand = Null => \A u \in DOMAIN w.tb.seats \ {Robot} : ~w.tb.seats[u].leaving
Turned(w) == w.tb.hand # Null => w.tb.hand.cur \in w.tb.hand.live

(* No host is leaving, but for v who is about to be replaced.              *)
Hosted(w, v) == w.tb.host \notin {Null, v} => ~w.tb.seats[w.tb.host].leaving

(* A handler of table t found the record R.  Of the seat rows of currency c, *)
(* which were R.rows, only those of t and those that were free have changed; *)
(* and no points have been made or lost.                                   *)
Ours(w, t, c, R) ==
  /\ w.id = t /\ w.tb.currency = c
  /\ c = "points" => Worth(w) = R.worth
  /\ \A u \in Users : IF R.rows[u] \in {t, Null} THEN w.rows[u] \in {t, Null} ELSE w.rows[u] = R.rows[u]

Good(w, t, c, R) ==
  Base(w) /\ Manned(w) /\ Calm(w) /\ Turned(w) /\ Hosted(w, R.but) /\ Ours(w, t, c, R)

-----------------------------------------------------------------------------
(* A hand or a table is not Null.                                          *)
TablesConstants == Centre!TablesAssumption /\ ~IsHand(Null) /\ ~IsTable(Null)

LEMMA CountPlayers == \A S : Centre!Cardinality(S) = Cardinality(S)
BY Zenon DEF Centre!Cardinality, Cardinality

LEMMA FewPlayers == \A S : Centre!IsFiniteSet(S) <=> IsFiniteSet(S)
BY Zenon DEF Centre!IsFiniteSet, IsFiniteSet

(* A finite set that is not empty has a least element, by any number of its *)
(* elements: a smallest subset without one could lose an element.          *)
LEMMA Smallest ==
  ASSUME NEW S, IsFiniteSet(S), NEW F, F \subseteq SUBSET S, F # {}
  PROVE  \E T \in F : \A U \in F : U \subseteq T => U = T
<1>1. IsWellFoundedOn(StrictSubsetOrdering(S), SUBSET S)
  BY FS_StrictSubsetOrderingWellFounded, FS_FiniteSubsetsOfFinite
<1>2. PICK T \in F : \A U \in F : ~(<<U, T>> \in StrictSubsetOrdering(S))
  BY <1>1, WFMin
<1> QED
  BY <1>2 DEF StrictSubsetOrdering

LEMMA Least ==
  ASSUME NEW S, IsFiniteSet(S), S # {}, NEW f, \A x \in S : f[x] \in Int
  PROVE  \E x \in S : \A y \in S : f[x] <= f[y]
<1> DEFINE F == {U \in SUBSET S : U # {} /\ ~\E x \in U : \A y \in U : f[x] <= f[y]}
<1>1. SUFFICES ASSUME F # {} PROVE FALSE
  OBVIOUS
<1>2. PICK T \in F : \A V \in F : V \subseteq T => V = T
  <2>1. F \subseteq SUBSET S
    OBVIOUS
  <2> HIDE DEF F
  <2> QED
    BY <1>1, <2>1, Smallest
<1>3. PICK a \in T : TRUE
  BY <1>2
<1>4. \A y \in T : f[y] \in Int
  BY <1>2
<1>5. T \ {a} # {}
  <2>1. ASSUME T \ {a} = {} PROVE FALSE
    <3>1. \A y \in T : f[a] <= f[y]
      BY <1>3, <1>4, <2>1
    <3> QED
      BY <1>2, <3>1
  <2> QED
    BY <2>1
<1>6. PICK b \in T \ {a} : \A y \in T \ {a} : f[b] <= f[y]
  <2>1. T \ {a} \notin F
    BY <1>2, <1>3
  <2> QED
    BY <1>2, <1>5, <2>1
<1>7. CASE f[a] <= f[b]
  <2>1. \A y \in T : f[a] <= f[y]
    BY <1>3, <1>4, <1>6, <1>7
  <2> QED
    BY <1>2, <1>3, <2>1
<1>8. CASE f[b] <= f[a]
  <2>1. \A y \in T : f[b] <= f[y]
    BY <1>6, <1>8
  <2> QED
    BY <1>2, <1>6, <2>1
<1> QED
  BY <1>3, <1>4, <1>6, <1>7, <1>8

-----------------------------------------------------------------------------
(***************************************************************************)
(* Sums over finite sets: of the chips of a hand, of the points of the     *)
(* members.  Sum(f, S) takes the terms of S one at a time, and each lemma   *)
(* about it a smallest subset that would contradict it.                    *)
(***************************************************************************)
First(s) == CHOOSE x \in s : TRUE
Adds(g, f, D) ==
  g = [s \in SUBSET D |-> IF s = {} THEN 0 ELSE f[First(s)] + g[s \ {First(s)}]]

LEMMA OneSum ==
    ASSUME NEW S, IsFiniteSet(S), NEW f, NEW D \in SUBSET S, NEW E \in SUBSET S,
           NEW g, Adds(g, f, D), NEW h, Adds(h, f, E), NEW T, T \subseteq D, T \subseteq E
    PROVE  g[T] = h[T]
<1> DEFINE F == {U \in SUBSET S : U \subseteq D /\ U \subseteq E /\ g[U] # h[U]}
<1>1. SUFFICES ASSUME F # {} PROVE FALSE
  BY <1>1
<1>2. PICK U \in F : \A V \in F : V \subseteq U => V = U
  <2> HIDE DEF F
  <2>1. F \subseteq SUBSET S
    BY DEF F
  <2> QED
    BY <1>1, <2>1, Smallest
<1>3. \A V \in SUBSET D : g[V] = IF V = {} THEN 0 ELSE f[First(V)] + g[V \ {First(V)}]
  BY DEF Adds
<1>4. \A V \in SUBSET E : h[V] = IF V = {} THEN 0 ELSE f[First(V)] + h[V \ {First(V)}]
  BY DEF Adds
<1>5. U # {}
  BY <1>2, <1>3, <1>4
<1>6. First(U) \in U
  BY <1>5 DEF First
<1>7. g[U \ {First(U)}] = h[U \ {First(U)}]
  BY <1>2, <1>6
<1> QED
  BY <1>2, <1>3, <1>4, <1>5, <1>7

LEMMA SomeSum ==
    ASSUME NEW S, IsFiniteSet(S), NEW f
    PROVE  \E g : Adds(g, f, S)
<1> DEFINE F == {U \in SUBSET S : ~\E g : Adds(g, f, U)}
<1>1. SUFFICES ASSUME F # {} PROVE FALSE
  OBVIOUS
<1>2. PICK T \in F : \A V \in F : V \subseteq T => V = T
  <2> HIDE DEF F
  <2>1. F \subseteq SUBSET S
    BY DEF F
  <2> QED
    BY <1>1, <2>1, Smallest
<1> DEFINE sums(U) == CHOOSE g : Adds(g, f, U)
           below(s) == sums(s)[s]
           all == [s \in SUBSET T |-> IF s = T THEN (IF T = {} THEN 0 ELSE f[First(T)] + below(T \ {First(T)})) ELSE below(s)]
<1>3. \A U \in SUBSET T : U # T => Adds(sums(U), f, U)
  BY <1>2
<1> HIDE DEF sums
<1>4. \A U \in SUBSET T : U # T /\ U # {} => below(U) = f[First(U)] + below(U \ {First(U)})
  <2>1. SUFFICES ASSUME NEW U \in SUBSET T, U # T, U # {} PROVE below(U) = f[First(U)] + below(U \ {First(U)})
    OBVIOUS
  <2>2. First(U) \in U
    BY <2>1 DEF First
  <2> DEFINE V == U \ {First(U)}
  <2>3. Adds(sums(U), f, U) /\ Adds(sums(V), f, V) /\ V \subseteq U /\ V \in SUBSET T
    BY <2>1, <2>2, <1>3
  <2>4. sums(U)[V] = sums(V)[V]
    BY <2>3, OneSum, IsFiniteSet(S), U \in SUBSET S, V \in SUBSET S
  <2>5. sums(U)[U] = f[First(U)] + sums(U)[V]
    BY <2>1, <2>3 DEF Adds
  <2> QED
    BY <2>4, <2>5
<1>5. {} # T => below({}) = 0
  BY <1>3 DEF Adds
<1> HIDE DEF below
<1>6. Adds(all, f, T)
  <2>1. \A s \in SUBSET T : s # {} => First(s) \in s /\ s \ {First(s)} \in SUBSET T /\ s \ {First(s)} # T
    BY DEF First
  <2>2. \A s \in SUBSET T : all[s] = IF s = {} THEN 0 ELSE f[First(s)] + all[s \ {First(s)}]
    BY <2>1, <1>4, <1>5
  <2>3. all = [s \in SUBSET T |-> all[s]]
    OBVIOUS
  <2> QED
    BY <2>2, <2>3 DEF Adds
<1> QED
  BY <1>2, <1>6

LEMMA SumIs ==
    ASSUME NEW S, IsFiniteSet(S), NEW f
    PROVE  \E g : Adds(g, f, S) /\ Sum(f, S) = g[S]
<1> DEFINE g == CHOOSE g : Adds(g, f, S)
<1>1. Adds(g, f, S)
  BY SomeSum
<1>2. Sum(f, S) = g[S]
  BY DEF Sum, Centre!SumFunctionOnSet, Centre!FoldFunctionOnSet, Centre!MapThenFoldSet, Adds, First
<1> QED
  BY <1>1, <1>2

LEMMA SumStep ==
    ASSUME NEW S, IsFiniteSet(S), NEW f
    PROVE  Sum(f, S) = IF S = {} THEN 0 ELSE f[First(S)] + Sum(f, S \ {First(S)})
<1>1. PICK g : Adds(g, f, S) /\ Sum(f, S) = g[S]
  BY SumIs
<1>2. CASE S = {}
  BY <1>1, <1>2 DEF Adds
<1>3. CASE S # {}
  <2> DEFINE T == S \ {First(S)}
  <2>1. IsFiniteSet(T) /\ T \in SUBSET S /\ S \in SUBSET S
    BY FS_RemoveElement
  <2>2. PICK h : Adds(h, f, T) /\ Sum(f, T) = h[T]
    BY <2>1, SumIs
  <2>3. g[T] = h[T]
    BY <1>1, <2>1, <2>2, OneSum
  <2>4. g[S] = f[First(S)] + g[T]
    BY <1>1, <1>3 DEF Adds
  <2> QED
    BY <1>1, <1>3, <2>2, <2>3, <2>4
<1> QED
  BY <1>2, <1>3

LEMMA NoSum == ASSUME NEW f PROVE Sum(f, {}) = 0
BY FS_EmptySet, SumStep

LEMMA SumInt ==
    ASSUME NEW S, IsFiniteSet(S), NEW f, \A x \in S : f[x] \in Int
    PROVE  Sum(f, S) \in Int
<1> DEFINE F == {U \in SUBSET S : Sum(f, U) \notin Int}
<1>1. SUFFICES ASSUME F # {} PROVE FALSE
  OBVIOUS
<1>2. PICK T \in F : \A V \in F : V \subseteq T => V = T
  <2>1. F \subseteq SUBSET S
    OBVIOUS
  <2> HIDE DEF F
  <2> QED
    BY <1>1, <2>1, Smallest
<1>3. IsFiniteSet(T)
  BY <1>2, FS_Subset
<1>4. T # {} => First(T) \in T
  BY DEF First
<1>5. T # {} => Sum(f, T \ {First(T)}) \in Int
  BY <1>2, <1>4
<1>6. T # {}
  BY <1>2, NoSum
<1>7. Sum(f, T) = f[First(T)] + Sum(f, T \ {First(T)})
  BY <1>3, <1>6, SumStep
<1> QED
  BY <1>2, <1>4, <1>5, <1>6, <1>7

LEMMA SumPick ==
    ASSUME NEW S, IsFiniteSet(S), NEW f, \A x \in S : f[x] \in Int, NEW y \in S
    PROVE  Sum(f, S) = f[y] + Sum(f, S \ {y})
<1> DEFINE Total(U) == Sum(f, U)
           F == {U \in SUBSET S : \E x \in U : Total(U) # f[x] + Total(U \ {x})}
<1>1. SUFFICES ASSUME F # {} PROVE FALSE
  BY <1>1
<1>2. PICK T \in F : \A V \in F : V \subseteq T => V = T
  <2>1. F \subseteq SUBSET S
    OBVIOUS
  <2> HIDE DEF F
  <2> QED
    BY <1>1, <2>1, Smallest
<1>3. PICK x \in T : Total(T) # f[x] + Total(T \ {x})
  BY <1>2
<1>4. \A U \in SUBSET S : IsFiniteSet(U) /\ Total(U) \in Int
  BY FS_Subset, SumInt
<1>5. \A U \in SUBSET S : U # {} => First(U) \in U /\ Total(U) = f[First(U)] + Total(U \ {First(U)})
  BY <1>4, SumStep DEF First
<1> HIDE DEF Total
<1> DEFINE c == First(T)
<1>6. c \in T /\ c # x /\ Total(T) = f[c] + Total(T \ {c})
  BY <1>3, <1>5
<1>7. Total(T \ {c}) = f[x] + Total((T \ {c}) \ {x})
  BY <1>2, <1>3, <1>6
<1>8. Total(T \ {x}) = f[c] + Total((T \ {x}) \ {c})
  BY <1>2, <1>3, <1>6
<1>9. (T \ {c}) \ {x} = (T \ {x}) \ {c} /\ Total((T \ {x}) \ {c}) \in Int
  BY <1>4
<1>10. f[c] \in Int /\ f[x] \in Int
  BY <1>2, <1>6
<1>11. Total(T) = f[x] + Total(T \ {x})
  <2> DEFINE rest == Total((T \ {x}) \ {c})
  <2>1. Total(T) = f[c] + (f[x] + rest) /\ Total(T \ {x}) = f[c] + rest /\ rest \in Int
    BY <1>6, <1>7, <1>8, <1>9
  <2> HIDE DEF rest
  <2> QED
    BY <1>10, <2>1
<1> QED
  BY <1>3, <1>11

LEMMA SumSame ==
    ASSUME NEW S, IsFiniteSet(S), NEW f, NEW g, \A x \in S : f[x] = g[x]
    PROVE  Sum(f, S) = Sum(g, S)
<1>1. PICK h : Adds(h, f, S) /\ Sum(f, S) = h[S]
  BY SumIs
<1>2. PICK i : Adds(i, g, S) /\ Sum(g, S) = i[S]
  BY SumIs
<1>3. Adds(h, g, S)
  BY <1>1 DEF Adds, First
<1>4. S \in SUBSET S
  OBVIOUS
<1> QED
  BY <1>1, <1>2, <1>3, <1>4, OneSum

LEMMA SumChange ==
    ASSUME NEW S, IsFiniteSet(S), NEW f, NEW g, NEW y \in S,
           \A x \in S : f[x] \in Int /\ g[x] \in Int, \A x \in S \ {y} : f[x] = g[x]
    PROVE  Sum(g, S) = Sum(f, S) + g[y] - f[y]
<1>1. IsFiniteSet(S \ {y})
  BY FS_RemoveElement
<1>2. Sum(f, S \ {y}) = Sum(g, S \ {y}) /\ Sum(f, S \ {y}) \in Int
  BY <1>1, SumSame, SumInt
<1>3. /\ Sum(f, S) = f[y] + Sum(f, S \ {y})
      /\ Sum(g, S) = g[y] + Sum(g, S \ {y})
  BY SumPick
<1> QED
  BY <1>2, <1>3

LEMMA SumPlus ==
    ASSUME NEW S, IsFiniteSet(S), NEW f, NEW g, NEW h,
           \A x \in S : f[x] \in Int /\ g[x] \in Int /\ h[x] = f[x] + g[x]
    PROVE  Sum(h, S) = Sum(f, S) + Sum(g, S)
<1> DEFINE F == {U \in SUBSET S : Sum(h, U) # Sum(f, U) + Sum(g, U)}
<1>1. SUFFICES ASSUME F # {} PROVE FALSE
  OBVIOUS
<1>2. PICK T \in F : \A V \in F : V \subseteq T => V = T
  <2>1. F \subseteq SUBSET S
    OBVIOUS
  <2> HIDE DEF F
  <2> QED
    BY <1>1, <2>1, Smallest
<1>3. IsFiniteSet(T) /\ T \subseteq S
  BY <1>2, FS_Subset
<1>4. T # {}
  <2>1. Sum(f, {}) = 0 /\ Sum(g, {}) = 0 /\ Sum(h, {}) = 0
    BY NoSum
  <2>2. ~(0 # 0 + 0)
    OBVIOUS
  <2>3. Sum(h, T) # Sum(f, T) + Sum(g, T)
    BY <1>2
  <2>4. ASSUME T = {} PROVE FALSE
    BY <2>1, <2>2, <2>3, <2>4
  <2> QED
    BY <2>4
<1> DEFINE y == First(T)
<1>5. y \in T
  BY <1>4 DEF First
<1> HIDE DEF y
<1> DEFINE R == T \ {y}
<1>6. /\ Sum(f, T) = f[y] + Sum(f, R)
      /\ Sum(g, T) = g[y] + Sum(g, R)
      /\ Sum(h, T) = h[y] + Sum(h, R)
  BY <1>3, <1>4, SumStep DEF y
<1>7. R \in SUBSET S /\ R # T /\ R \subseteq T /\ IsFiniteSet(R)
  BY <1>3, <1>5, FS_RemoveElement
<1>8. Sum(h, R) = Sum(f, R) + Sum(g, R)
  BY <1>2, <1>7
<1>9. Sum(f, R) \in Int /\ Sum(g, R) \in Int
  BY <1>7, SumInt
<1>10. f[y] \in Int /\ g[y] \in Int /\ h[y] = f[y] + g[y]
  BY <1>3, <1>5
<1>11. Sum(h, T) = Sum(f, T) + Sum(g, T)
  BY <1>6, <1>8, <1>9, <1>10
<1> QED
  BY <1>2, <1>11

LEMMA SumEach ==
    ASSUME NEW S, IsFiniteSet(S), NEW f, NEW n \in Int, NEW T, T \subseteq S,
           \A x \in S : f[x] = IF x \in T THEN n ELSE 0
    PROVE  Sum(f, S) = n * Cardinality(T)
<1> DEFINE Right(U) == Sum(f, U) = n * Cardinality(U \cap T)
           F == {U \in SUBSET S : ~Right(U)}
<1>1. SUFFICES ASSUME F # {} PROVE FALSE
  <2>1. S \cap T = T
    OBVIOUS
  <2> QED
    BY <1>1, <2>1
<1>2. PICK U \in F : \A V \in F : V \subseteq U => V = U
  <2>1. F \subseteq SUBSET S
    OBVIOUS
  <2> HIDE DEF F
  <2> QED
    BY <1>1, <2>1, Smallest
<1>3. IsFiniteSet(U) /\ U \subseteq S /\ IsFiniteSet(U \cap T)
  BY <1>2, FS_Subset, U \cap T \subseteq U
<1>4. U # {}
  <2>1. SUFFICES ASSUME U = {} PROVE FALSE
    OBVIOUS
  <2>2. Cardinality(U \cap T) = 0 /\ Sum(f, U) = 0
    BY <1>3, <2>1, SumStep, FS_EmptySet, U \cap T = {}
  <2> QED
    BY <1>2, <2>2
<1> DEFINE y == First(U)
<1>5. y \in U
  BY <1>4 DEF First
<1> HIDE DEF y
<1> DEFINE R == U \ {y}
<1>6. Sum(f, U) = f[y] + Sum(f, R)
  BY <1>3, <1>4, SumStep DEF y
<1>7. R \in SUBSET S /\ R # U /\ R \subseteq U /\ R \cap T = (U \cap T) \ {y}
  BY <1>3, <1>5
<1>8. Right(R)
  BY <1>2, <1>7
<1>9. Cardinality(R \cap T) = Cardinality(U \cap T) - (IF y \in T THEN 1 ELSE 0)
  <2>1. y \in U \cap T <=> y \in T
    BY <1>5
  <2>2. Cardinality(U \cap T) \in Int
    BY <1>3, FS_CardinalityType
  <2> QED
    <3>1. Cardinality((U \cap T) \ {y}) = IF y \in U \cap T THEN Cardinality(U \cap T) - 1 ELSE Cardinality(U \cap T)
      BY <1>3, FS_RemoveElement
    <3>2. Cardinality(R \cap T) = IF y \in T THEN Cardinality(U \cap T) - 1 ELSE Cardinality(U \cap T)
      BY <1>7, <2>1, <3>1
    <3> HIDE DEF R
    <3> QED
      BY <2>2, <3>2
<1>10. Cardinality(U \cap T) \in Int
  BY <1>3, FS_CardinalityType
<1>11. Sum(f, U) = n * Cardinality(U \cap T)
  <2> DEFINE k == Cardinality(U \cap T)
  <2> HIDE DEF k
  <2>1. k \in Int /\ Cardinality(R \cap T) = k - (IF y \in T THEN 1 ELSE 0)
    BY <1>9, <1>10 DEF k
  <2>2. Sum(f, U) = f[y] + n * (k - (IF y \in T THEN 1 ELSE 0))
    BY <1>6, <1>8, <2>1
  <2>3. f[y] = IF y \in T THEN n ELSE 0
    BY <1>3, <1>5
  <2>4. n * (k - 1) = n * k - n /\ n * (k - 0) = n * k /\ n * k \in Int
    BY <2>1
  <2>5. Sum(f, U) = n * k
    BY <2>1, <2>2, <2>3, <2>4
  <2> QED
    BY <2>5 DEF k
<1> QED
  BY <1>2, <1>11

LEMMA SumWithin ==
    ASSUME NEW S, IsFiniteSet(S), NEW f, NEW T, T \subseteq S,
           \A x \in S : f[x] \in Int, \A x \in S \ T : f[x] = 0
    PROVE  Sum(f, S) = Sum(f, T)
<1> DEFINE F == {U \in SUBSET S : T \subseteq U /\ Sum(f, U) # Sum(f, T)}
<1>1. SUFFICES ASSUME F # {} PROVE FALSE
  BY <1>1
<1>2. PICK U \in F : \A V \in F : V \subseteq U => V = U
  <2>1. F \subseteq SUBSET S
    OBVIOUS
  <2> HIDE DEF F
  <2> QED
    BY <1>1, <2>1, Smallest
<1>3. PICK y \in U : y \notin T
  <2>1. U \in SUBSET S /\ T \subseteq U /\ Sum(f, U) # Sum(f, T)
    BY <1>2
  <2>2. U # T
    BY <2>1
  <2> HIDE DEF F
  <2> QED
    BY <2>1, <2>2
<1>4. IsFiniteSet(U) /\ IsFiniteSet(U \ {y}) /\ U \ {y} \in SUBSET S /\ T \subseteq U \ {y}
  BY <1>2, <1>3, FS_Subset, FS_RemoveElement
<1>5. Sum(f, U) = f[y] + Sum(f, U \ {y}) /\ f[y] = 0
  BY <1>2, <1>3, <1>4, SumPick
<1>6. Sum(f, U \ {y}) \in Int
  BY <1>4, SumInt
<1>7. U \ {y} \notin F
  BY <1>2, <1>3, <1>4
<1> QED
  BY <1>2, <1>4, <1>5, <1>6, <1>7

LEMMA TotalIs == ASSUME NEW f PROVE Centre!Total(f) = Sum(f, DOMAIN f)
BY DEF Centre!Total, Centre!SumFunction, Sum

(* What is spread over more players than have any is the same in total.    *)
LEMMA Spread ==
    ASSUME NEW S, IsFiniteSet(S), NEW f, DOMAIN f \subseteq S, \A x \in DOMAIN f : f[x] \in Int
    PROVE  Sum([u \in S |-> Centre!Of(f, u)], S) = Centre!Total(f)
<1>1. PICK g : g = [u \in S |-> Centre!Of(f, u)]
  OBVIOUS
<1>2. \A x \in S : g[x] = IF x \in DOMAIN f THEN f[x] ELSE 0
  BY <1>1 DEF Centre!Of
<1>3. (\A x \in S : g[x] \in Int) /\ (\A x \in S \ DOMAIN f : g[x] = 0)
  BY <1>2
<1>4. Sum(g, S) = Sum(g, DOMAIN f)
  BY <1>3, SumWithin
<1>5. IsFiniteSet(DOMAIN f) /\ \A x \in DOMAIN f : g[x] = f[x]
  BY <1>2, FS_Subset
<1>6. Sum(g, DOMAIN f) = Sum(f, DOMAIN f)
  BY <1>5, SumSame
<1> QED
  BY <1>1, <1>4, <1>6, TotalIs

LEMMA FewUsers == TablesConstants => IsFiniteSet(Users) /\ IsFiniteSet(Tables)
BY FewPlayers DEF TablesConstants, Centre!TablesAssumption

LEMMA WorthSame == ASSUME NEW w, NEW x, \A u \in Users : Share(x, u) = Share(w, u) PROVE Worth(x) = Worth(w)
<1>1. [u \in Users |-> Share(x, u)] = [u \in Users |-> Share(w, u)]
  OBVIOUS
<1> QED
  BY <1>1 DEF Worth

LEMMA PutIs ==
    ASSUME NEW w, Base(w), NEW u \in Users
    PROVE  Put(w, u) \in Nat /\ (w.tb.hand # Null /\ w.tb.game = "zjh" => Put(w, u) = Centre!Of(w.tb.hand.paid, u))
BY DEF Base, Typed, HandTyped, Put, Centre!InHand, Centre!Of

(* What a table and its members are worth lies in wallets, escrow and pot. *)
LEMMA WorthIs ==
    ASSUME TablesConstants, NEW w, Base(w), w.tb.currency = "points"
    PROVE  Worth(w) = Sum(w.money, Users) + Sum(w.held, Users) + w.pot
<1> IsFiniteSet(Users)
  BY FewUsers
<1>1. PICK p : p = [u \in Users |-> Put(w, u)]
  OBVIOUS
<1>2. PICK d : d = [u \in Users |-> w.money[u] + w.held[u]]
  OBVIOUS
<1>3. PICK s : s = [u \in Users |-> Share(w, u)]
  OBVIOUS
<1>4. \A u \in Users : w.money[u] \in Int /\ w.held[u] \in Int /\ p[u] \in Int
  BY <1>1, PutIs DEF Base, Typed
<1>5. \A u \in Users : d[u] \in Int /\ d[u] = w.money[u] + w.held[u] /\ s[u] = d[u] + p[u]
  BY <1>1, <1>2, <1>3, <1>4 DEF Share
<1>6. Sum(d, Users) = Sum(w.money, Users) + Sum(w.held, Users)
  BY <1>4, <1>5, SumPlus
<1>7. Sum(s, Users) = Sum(d, Users) + Sum(p, Users)
  BY <1>4, <1>5, SumPlus
<1>8. Sum(p, Users) = w.pot
  <2>1. CASE w.tb.game = "zjh" /\ w.tb.hand # Null
    <3>1. PICK f : f = w.tb.hand.paid
      OBVIOUS
    <3>2. p = [u \in Users |-> Centre!Of(f, u)]
      BY <1>1, <2>1, <3>1, PutIs
    <3>3. DOMAIN f \subseteq Users /\ \A u \in DOMAIN f : f[u] \in Int
      BY <2>1, <3>1 DEF Base, Typed, HandTyped, Handled, Funded
    <3>4. Sum(p, Users) = Centre!Total(f)
      BY <3>2, <3>3, Spread
    <3> QED
      BY <2>1, <3>1, <3>4 DEF Base, Funded, Staked
  <2>2. CASE ~(w.tb.game = "zjh" /\ w.tb.hand # Null)
    <3>1. \A u \in Users : p[u] = IF u \in {} THEN 0 ELSE 0
      BY <1>1, <2>2 DEF Put, Centre!InHand
    <3>2. Sum(p, Users) = 0 * Cardinality({})
      BY <3>1, SumEach
    <3>3. Sum(p, Users) = 0
      BY <3>2, FS_EmptySet
    <3> QED
      BY <2>2, <3>3 DEF Base, Funded, Staked
  <2> QED
    BY <2>1, <2>2
<1> QED
  BY <1>3, <1>6, <1>7, <1>8 DEF Worth

-----------------------------------------------------------------------------
(* The host's place goes to somebody who stays, if anybody does.           *)
LEMMA NextStays ==
  ASSUME NEW tb, IsFiniteSet(DOMAIN tb.seats), \A u \in DOMAIN tb.seats \ {Robot} : tb.seats[u].since \in Nat,
         NEW h, h = Centre!NextHost(tb)
  PROVE  IF Centre!Staying(tb) = {} THEN h = Null ELSE h \in Centre!Staying(tb)
<1>1. PICK next : next = Centre!Staying(tb) \ {tb.host}
  OBVIOUS
<1>2. CASE next = {}
  BY <1>1, <1>2 DEF Centre!NextHost
<1>3. CASE next # {}
  <2>1. next \subseteq DOMAIN tb.seats \ {Robot}
    BY <1>1 DEF Centre!Staying, Centre!Humans, Centre!Seated
  <2>2. IsFiniteSet(next)
    BY <2>1, FS_Subset
  <2>3. PICK f : f = [u \in next |-> tb.seats[u].since]
    OBVIOUS
  <2>4. \E x \in next : \A y \in next : f[x] <= f[y]
    <3>1. \A x \in next : f[x] \in Int
      BY <2>1, <2>3
    <3>2. QED
      BY <1>3, <2>2, <3>1, Least
  <2>5. \E u \in next : \A v \in next : tb.seats[u].since <= tb.seats[v].since
    BY <2>3, <2>4
  <2>6. h = CHOOSE u \in next : \A v \in next : tb.seats[u].since <= tb.seats[v].since
    BY <1>1, <1>3, Zenon DEF Centre!NextHost
  <2>7. h \in next
    BY <2>5, <2>6, Zenon
  <2>8. QED
    BY <1>1, <2>7
<1>4. QED
  BY <1>2, <1>3

LEMMA FewSeats ==
  ASSUME TablesConstants, NEW w, Typed(w)
  PROVE  IsFiniteSet(DOMAIN w.tb.seats)
<1>1. IsFiniteSet(Users)
  BY FewPlayers DEF TablesConstants, Centre!TablesAssumption
<1>2. IsFiniteSet(Users \cup {Robot})
  BY <1>1, FS_AddElement
<1>3. QED
  BY <1>2, FS_Subset DEF Typed

(* Who sits down is later than everybody who sits there.                   *)
LEMMA ClockIs ==
  ASSUME TablesConstants, NEW w, Base(w), NEW k, k = Centre!Clock(w.tb)
  PROVE  k \in Nat /\ \A u \in DOMAIN w.tb.seats \ {Robot} : w.tb.seats[u].since < k
<1>1. PICK H : H = DOMAIN w.tb.seats \ {Robot}
  OBVIOUS
<1>2. PICK S : S = {0} \cup {w.tb.seats[u].since : u \in H}
  OBVIOUS
<1>3. \A u \in H : w.tb.seats[u].since \in Nat
  BY <1>1 DEF Base, Ranked
<1>4. S \subseteq Nat
  BY <1>2, <1>3
<1>5. IsFiniteSet(H)
  BY <1>1, FewSeats, FS_Subset DEF Base
<1>6. \E x \in S : \A y \in S : x >= y
  <2>1. CASE H = {}
    <3>1. S = {0}
      BY <1>2, <2>1
    <3>2. QED
      BY <3>1
  <2>2. CASE H # {}
    <3>1. PICK f : f = [u \in H |-> 0 - w.tb.seats[u].since]
      OBVIOUS
    <3>2. \A u \in H : f[u] \in Int /\ f[u] = 0 - w.tb.seats[u].since
      BY <1>3, <3>1
    <3>3. PICK v \in H : \A u \in H : f[v] <= f[u]
      BY <1>5, <2>2, <3>2, Least
    <3>4. \A u \in H : w.tb.seats[v].since >= w.tb.seats[u].since
      BY <1>3, <3>2, <3>3
    <3>5. w.tb.seats[v].since \in S /\ w.tb.seats[v].since >= 0
      BY <1>2, <1>3
    <3>6. QED
      BY <1>2, <3>4, <3>5
  <2>3. QED
    BY <2>1, <2>2
<1>7. PICK m : m = Centre!Max(S)
  OBVIOUS
<1>8. m \in S /\ \A y \in S : m >= y
  BY <1>6, <1>7 DEF Centre!Max
<1>9. k = 1 + m
  BY <1>1, <1>2, <1>7 DEF Centre!Clock, Centre!Humans, Centre!Seated
<1>10. QED
  BY <1>1, <1>2, <1>3, <1>4, <1>8, <1>9

LEMMA AlikeKeeps ==
  ASSUME TablesConstants, NEW w, NEW x, Alike(w, x), Base(w)
  PROVE  /\ Base(x)
         /\ Manned(w) => Manned(x)
         /\ Calm(w) /\ Stays(w, x) => Calm(x)
         /\ Turned(w) => Turned(x)
         /\ \A v : Hosted(w, v) /\ Stays(w, x) => Hosted(x, v)
         /\ \A t, c, R : Ours(w, t, c, R) => Ours(x, t, c, R)
<1>1. DOMAIN x.tb.seats = DOMAIN w.tb.seats
  BY DEF Alike
<1>2. Typed(x)
  BY <1>1 DEF Alike, Kin, SameMoney, Base, Typed
<1>3. Agreed(x)
  BY <1>1 DEF Alike, Kin, Base, Agreed
<1>4. Handled(x)
  BY <1>1 DEF Alike, Kin, Base, Handled, Centre!InHand
<1>5. Escrowed(x)
  BY <1>1 DEF Alike, Kin, SameMoney, Base, Escrowed, InEscrow, Centre!InHand, TablesConstants, Centre!TablesAssumption
<1>6. Manned(w) => Manned(x)
  BY <1>1 DEF Alike, Manned
<1>7. Calm(w) /\ Stays(w, x) => Calm(x)
  BY <1>1 DEF Alike, Calm, Stays
<1>8. Turned(w) => Turned(x)
  BY DEF Alike, Turned
<1> Worth(x) = Worth(w)
  <2>1. \A u \in Users : Share(x, u) = Share(w, u)
    BY DEF Alike, Kin, SameMoney, Share, Put, Centre!InHand
  <2> QED
    BY <2>1, WorthSame
<1> Funded(x)
  BY <1>1 DEF Alike, Kin, SameMoney, Base, Funded, Staked
<1>9. \A t, c, R : Ours(w, t, c, R) => Ours(x, t, c, R)
  BY DEF Alike, Kin, Ours
<1>10. Null \notin DOMAIN w.tb.seats \ {Robot}
  BY DEF Base, Typed, TablesConstants, Centre!TablesAssumption
<1>11. Led(x) => Headed(x) /\ \A v : Hosted(x, v)
  BY <1>1, <1>10 DEF Led, Headed, Hosted, Centre!Staying, Centre!Humans, Centre!Seated
<1>12. Headed(x)
  BY <1>1, <1>11 DEF Alike, Base, Headed
<1>13. Ranked(x)
  BY <1>1 DEF Alike, Base, Ranked
<1>14. \A v : Hosted(w, v) /\ Stays(w, x) => Hosted(x, v)
  <2>1. CASE Led(x)
    BY <1>11, <2>1
  <2>2. CASE x.tb.host = w.tb.host
    BY <2>2 DEF Base, Headed, Hosted, Stays
  <2>3. QED
    BY <2>1, <2>2 DEF Alike
<1>15. QED
  BY <1>2, <1>3, <1>4, <1>5, <1>6, <1>7, <1>8, <1>9, <1>12, <1>13, <1>14 DEF Base

(* A seat gets another mark.                                               *)
Remark(w, u, s) ==
  /\ IsSeat(s) /\ s.stack = w.tb.seats[u].stack /\ s.since = w.tb.seats[u].since
  /\ w.tb.seats[u].leaving => s.leaving
  /\ s.away = "timed" => w.tb.seats[u].away = "timed" \/ ~Centre!InHand(w.tb, u)

LEMMA WithAlike ==
  ASSUME NEW w, Typed(w), NEW u \in DOMAIN w.tb.seats, NEW s, Remark(w, u, s), NEW x, x = Centre!With(w, u, s)
  PROVE  /\ Alike(w, x) /\ (s.leaving = w.tb.seats[u].leaving => Stays(w, x))
         /\ x.tb.host = w.tb.host /\ \A v \in DOMAIN w.tb.seats \ {u} : x.tb.seats[v] = w.tb.seats[v]
<1>1. /\ IsWorld(x) /\ IsTable(x.tb)
      /\ x.id = w.id /\ x.money = w.money /\ x.rows = w.rows /\ x.held = w.held /\ x.pot = w.pot
      /\ x.tb.game = w.tb.game /\ x.tb.currency = w.tb.currency /\ x.tb.phase = w.tb.phase
      /\ x.tb.begun = w.tb.begun /\ x.tb.hand = w.tb.hand /\ x.tb.host = w.tb.host
      /\ x.tb.seats = [w.tb.seats EXCEPT ![u] = s]
  BY DEF Typed, IsWorld, IsTable, Centre!With
<1>2. QED
  BY <1>1 DEF Typed, Alike, Kin, SameMoney, Remark, Stays

(* A player who leaves in the middle of a hand is marked.                  *)
LEMMA LeavingIs ==
  ASSUME NEW w, NEW u, NEW a, a = w.tb.seats[u], IsSeat(a),
         NEW s, s = [a EXCEPT !.leaving = TRUE] \/ s = [a EXCEPT !.leaving = TRUE, !.auto = TRUE]
  PROVE  Remark(w, u, s)
BY DEF Remark, IsSeat

LEMMA CountAlike ==
  ASSUME NEW w, Typed(w), NEW x, x = Centre!Count(w)
  PROVE  Alike(w, x) /\ Stays(w, x)
<1>1. Centre!Countdown(w.tb) = w.tb \/ \E b : Centre!Countdown(w.tb) = [w.tb EXCEPT !.countdown = b]
  BY Zenon DEF Centre!Countdown
<1>2. /\ IsWorld(x) /\ IsTable(x.tb)
      /\ x.id = w.id /\ x.money = w.money /\ x.rows = w.rows /\ x.held = w.held /\ x.pot = w.pot
      /\ x.tb.game = w.tb.game /\ x.tb.currency = w.tb.currency /\ x.tb.phase = w.tb.phase
      /\ x.tb.begun = w.tb.begun /\ x.tb.hand = w.tb.hand /\ x.tb.seats = w.tb.seats
      /\ x.tb.host = w.tb.host
  BY <1>1 DEF Typed, IsWorld, IsTable, Centre!Count
<1>3. QED
  BY <1>2 DEF Typed, Alike, Kin, SameMoney, Stays

LEMMA HostAlike ==
  ASSUME TablesConstants, NEW w, Base(w), NEW x, x = [w EXCEPT !.tb = Centre!TransferHost(w.tb)]
  PROVE  Alike(w, x) /\ Stays(w, x) /\ Led(x)
<1>1. Typed(w)
  BY DEF Base
<1>2. PICK h : h = Centre!NextHost(w.tb)
  OBVIOUS
<1>3. IF Centre!Staying(w.tb) = {} THEN h = Null ELSE h \in Centre!Staying(w.tb)
  <2>1. \A u \in DOMAIN w.tb.seats \ {Robot} : w.tb.seats[u].since \in Nat
    BY DEF Base, Ranked
  <2>2. QED
    BY <1>1, <1>2, <2>1, FewSeats, NextStays
<1>4. PICK v : v = [w.tb EXCEPT !.host = h]
  OBVIOUS
<1>5. x = [w EXCEPT !.tb = v]
  BY <1>2, <1>4 DEF Centre!TransferHost
<1>6. /\ IsWorld(x) /\ IsTable(x.tb)
      /\ x.id = w.id /\ x.money = w.money /\ x.rows = w.rows /\ x.held = w.held /\ x.pot = w.pot
      /\ x.tb.game = w.tb.game /\ x.tb.currency = w.tb.currency /\ x.tb.phase = w.tb.phase
      /\ x.tb.begun = w.tb.begun /\ x.tb.hand = w.tb.hand /\ x.tb.seats = w.tb.seats
      /\ x.tb.host = h
  BY <1>1, <1>4, <1>5 DEF Typed, IsWorld, IsTable
<1>7. Led(x)
  BY <1>3, <1>6 DEF Led, Centre!Staying, Centre!Humans, Centre!Seated
<1>8. QED
  BY <1>1, <1>6, <1>7 DEF Typed, Alike, Kin, SameMoney, Stays

LEMMA IdleAlike ==
  ASSUME NEW w, Typed(w), NEW b, NEW x, x = [w EXCEPT !.tb.idle = b]
  PROVE  Alike(w, x) /\ Stays(w, x)
<1>1. /\ IsWorld(x) /\ IsTable(x.tb)
      /\ x.id = w.id /\ x.money = w.money /\ x.rows = w.rows /\ x.held = w.held /\ x.pot = w.pot
      /\ x.tb.game = w.tb.game /\ x.tb.currency = w.tb.currency /\ x.tb.phase = w.tb.phase
      /\ x.tb.begun = w.tb.begun /\ x.tb.hand = w.tb.hand /\ x.tb.seats = w.tb.seats
      /\ x.tb.host = w.tb.host
  BY DEF Typed, IsWorld, IsTable
<1>2. QED
  BY <1>1 DEF Typed, Alike, Kin, SameMoney, Stays

LEMMA ConsumeIs ==
  ASSUME NEW w, IsWorld(w), IsTable(w.tb), IsHand(w.tb.hand), NEW n, NEW x, x = Centre!Consume(w, n)
  PROVE  /\ IsWorld(x) /\ IsTable(x.tb) /\ IsHand(x.tb.hand)
         /\ x.id = w.id /\ x.money = w.money /\ x.rows = w.rows
         /\ x.tb.game = w.tb.game /\ x.tb.currency = w.tb.currency /\ x.tb.phase = w.tb.phase
         /\ x.tb.seats = w.tb.seats /\ x.tb.begun = w.tb.begun /\ x.tb.host = w.tb.host
         /\ x.tb.hand.budget = w.tb.hand.budget /\ x.tb.hand.live = w.tb.hand.live /\ x.tb.hand.cur = w.tb.hand.cur
         /\ x.tb.hand.paid = [u \in DOMAIN w.tb.hand.paid |-> w.tb.hand.paid[u] + Centre!Of(n, u)]
         /\ x.held = [u \in Users |-> IF w.tb.game = "zjh" /\ w.tb.currency = "points"
                                      THEN w.held[u] - Centre!Of(n, u) ELSE w.held[u]]
         /\ x.pot = IF w.tb.game = "zjh" /\ w.tb.currency = "points" THEN w.pot + Centre!Total(n) ELSE w.pot
BY DEF IsWorld, IsTable, IsHand, Centre!Consume, Centre!InPoints

LEMMA ReserveIs ==
  ASSUME NEW w, IsWorld(w), NEW n, NEW x, x = Centre!Reserve(w, n)
  PROVE  /\ IsWorld(x) /\ x.id = w.id /\ x.tb = w.tb /\ x.pot = w.pot /\ x.rows = w.rows
         /\ x.money = [u \in Users |-> w.money[u] - Centre!Of(n, u)]
         /\ x.held = [u \in Users |-> IF w.tb.currency = "points" THEN w.held[u] + Centre!Of(n, u) ELSE w.held[u]]
BY DEF IsWorld, Centre!Reserve, Centre!InPoints

LEMMA ReleaseIs ==
  ASSUME NEW w, IsWorld(w), NEW S, NEW b, NEW x, x = Centre!Release(w, S, b)
  PROVE  /\ IsWorld(x) /\ x.id = w.id /\ x.tb = w.tb /\ x.pot = w.pot /\ x.rows = w.rows
         /\ x.money = [u \in Users |-> w.money[u] + IF u \notin S THEN 0
                         ELSE IF w.tb.currency = "points" THEN w.held[u] ELSE Centre!Of(b, u)]
         /\ x.held = [u \in Users |-> IF w.tb.currency = "points" /\ u \in S THEN 0 ELSE w.held[u]]
BY DEF IsWorld, Centre!Release, Centre!InPoints

LEMMA ClosedIs ==
  ASSUME NEW tb, IsTable(tb), NEW z, z = Centre!Closed(tb)
  PROVE  /\ IsTable(z) /\ z.game = tb.game /\ z.currency = tb.currency /\ z.phase = "closed"
         /\ z.seats = [u \in {} |-> Null] /\ z.hand = tb.hand /\ z.begun = tb.begun /\ z.host = Null
BY DEF IsTable, Centre!Closed, Centre!Nobody

(* Who gets up is not in a hand, and nobody is left only where there is     *)
(* none.                                                                   *)
Vacated(w, S, x) ==
  /\ IsWorld(x) /\ IsTable(x.tb) /\ x.id = w.id
  /\ x.tb.game = w.tb.game /\ x.tb.currency = w.tb.currency
  /\ x.tb.hand = w.tb.hand /\ x.tb.begun = w.tb.begun
  /\ x.rows = [u \in Users |-> IF u \in S /\ w.rows[u] = w.id THEN Null ELSE w.rows[u]]
  /\ x.pot = w.pot
  /\ w.tb.game # "holdem" => x.money = w.money /\ x.held = w.held
  /\ w.tb.game = "holdem" =>
       /\ x.money = [u \in Users |-> w.money[u] + IF u \notin S THEN 0
             ELSE IF w.tb.currency = "points" THEN w.held[u] ELSE w.tb.seats[u].stack]
       /\ x.held = [u \in Users |-> IF w.tb.currency = "points" /\ u \in S THEN 0 ELSE w.held[u]]
  /\ IF (DOMAIN w.tb.seats \ S) \ {Robot} = {}
     THEN x.tb.phase = "closed" /\ x.tb.seats = [u \in {} |-> Null] /\ x.tb.host = Null
     ELSE /\ x.tb.phase = w.tb.phase /\ x.tb.seats = [u \in DOMAIN w.tb.seats \ S |-> w.tb.seats[u]]
          /\ IF w.tb.host \in S THEN Led(x) ELSE x.tb.host = w.tb.host

LEMMA VacateIs ==
  ASSUME NEW w, IsWorld(w), IsTable(w.tb), IsFiniteSet(DOMAIN w.tb.seats), Ranked(w),
         NEW S, NEW x, x = Centre!Vacate(w, S)
  PROVE  Vacated(w, S, x)
<1> DEFINE left == [w.tb EXCEPT !.seats = Centre!Minus(@, S),
                                !.countdown = IF w.tb.game = "holdem" \/ S = {} THEN @ ELSE FALSE]
           moved == IF w.tb.host \in S THEN Centre!TransferHost(left) ELSE left
           paid == IF w.tb.game # "holdem" THEN w
                   ELSE Centre!Release(w, S, [u \in S |-> w.tb.seats[u].stack])
           end == IF Centre!Humans(moved) = {} THEN Centre!Closed(moved) ELSE moved
<1>1. x = [paid EXCEPT !.rows = [u \in Users |-> IF u \in S /\ @[u] = w.id THEN Null ELSE @[u]], !.tb = end]
  BY DEF Centre!Vacate
<1>2. /\ IsTable(left) /\ left.game = w.tb.game /\ left.currency = w.tb.currency /\ left.phase = w.tb.phase
      /\ left.hand = w.tb.hand /\ left.begun = w.tb.begun /\ left.host = w.tb.host
      /\ left.seats = [u \in DOMAIN w.tb.seats \ S |-> w.tb.seats[u]]
  <2>2. PICK m : m = Centre!Minus(w.tb.seats, S)
    OBVIOUS
  <2>3. PICK b : b = IF w.tb.game = "holdem" \/ S = {} THEN w.tb.countdown ELSE FALSE
    OBVIOUS
  <2>4. left = [w.tb EXCEPT !.seats = m, !.countdown = b]
    BY <2>2, <2>3, Zenon
  <2> HIDE DEF left
  <2>5. m = [u \in DOMAIN w.tb.seats \ S |-> w.tb.seats[u]]
    BY <2>2 DEF Centre!Minus
  <2>6. QED
    BY <2>4, <2>5 DEF IsTable
<1> HIDE DEF left
<1>3. /\ IsTable(moved) /\ moved.game = w.tb.game /\ moved.currency = w.tb.currency /\ moved.phase = w.tb.phase
      /\ moved.hand = w.tb.hand /\ moved.begun = w.tb.begun
      /\ moved.seats = [u \in DOMAIN w.tb.seats \ S |-> w.tb.seats[u]]
      /\ moved.host = IF w.tb.host \in S THEN Centre!NextHost(left) ELSE w.tb.host
  <2>1. PICK h : h = Centre!NextHost(left)
    OBVIOUS
  <2>2. moved = IF w.tb.host \in S THEN [left EXCEPT !.host = h] ELSE left
    BY <2>1 DEF Centre!TransferHost
  <2> HIDE DEF moved
  <2>3. QED
    BY <1>2, <2>1, <2>2 DEF IsTable
<1> HIDE DEF moved
<1>4. IF Centre!Staying(left) = {} THEN Centre!NextHost(left) = Null
      ELSE Centre!NextHost(left) \in Centre!Staying(left)
  <2>1. IsFiniteSet(DOMAIN left.seats)
    BY <1>2, FS_Subset
  <2>2. \A u \in DOMAIN left.seats \ {Robot} : left.seats[u].since \in Nat
    BY <1>2 DEF Ranked
  <2>3. QED
    BY <2>1, <2>2, NextStays
<1>5. Centre!Humans(moved) = (DOMAIN w.tb.seats \ S) \ {Robot}
  BY <1>3 DEF Centre!Humans, Centre!Seated
<1>6. /\ IsTable(end) /\ end.game = w.tb.game /\ end.currency = w.tb.currency
      /\ end.hand = w.tb.hand /\ end.begun = w.tb.begun
      /\ IF (DOMAIN w.tb.seats \ S) \ {Robot} = {}
         THEN end.phase = "closed" /\ end.seats = [u \in {} |-> Null] /\ end.host = Null
         ELSE /\ end.phase = w.tb.phase /\ end.seats = [u \in DOMAIN w.tb.seats \ S |-> w.tb.seats[u]]
              /\ end.host = moved.host
  BY <1>3, <1>5, ClosedIs
<1> HIDE DEF end
<1>7. /\ IsWorld(paid) /\ paid.id = w.id /\ paid.rows = w.rows /\ paid.pot = w.pot
      /\ w.tb.game # "holdem" => paid.money = w.money /\ paid.held = w.held
      /\ w.tb.game = "holdem" =>
           /\ paid.money = [u \in Users |-> w.money[u] + IF u \notin S THEN 0
                 ELSE IF w.tb.currency = "points" THEN w.held[u] ELSE w.tb.seats[u].stack]
           /\ paid.held = [u \in Users |-> IF w.tb.currency = "points" /\ u \in S THEN 0 ELSE w.held[u]]
  <2>1. CASE w.tb.game # "holdem"
    BY <2>1
  <2>2. CASE w.tb.game = "holdem"
    <3>1. PICK b : b = [u \in S |-> w.tb.seats[u].stack]
      OBVIOUS
    <3>2. paid = Centre!Release(w, S, b)
      BY <2>2, <3>1
    <3>3. \A u \in S : Centre!Of(b, u) = w.tb.seats[u].stack
      BY <3>1 DEF Centre!Of
    <3> HIDE DEF paid
    <3>4. /\ IsWorld(paid) /\ paid.id = w.id /\ paid.rows = w.rows /\ paid.pot = w.pot
          /\ paid.money = [u \in Users |-> w.money[u] + IF u \notin S THEN 0
                 ELSE IF w.tb.currency = "points" THEN w.held[u] ELSE Centre!Of(b, u)]
          /\ paid.held = [u \in Users |-> IF w.tb.currency = "points" /\ u \in S THEN 0 ELSE w.held[u]]
      BY <3>2, ReleaseIs
    <3>5. QED
      BY <2>2, <3>3, <3>4
  <2>3. QED
    BY <2>1, <2>2
<1> HIDE DEF paid
<1>8. /\ IsWorld(x) /\ x.id = w.id /\ x.tb = end /\ x.money = paid.money /\ x.held = paid.held /\ x.pot = paid.pot
      /\ x.rows = [u \in Users |-> IF u \in S /\ paid.rows[u] = w.id THEN Null ELSE paid.rows[u]]
  BY <1>1, <1>7 DEF IsWorld
<1>9. /\ IsWorld(x) /\ IsTable(x.tb) /\ x.id = w.id /\ x.pot = w.pot
       /\ x.tb.game = w.tb.game /\ x.tb.currency = w.tb.currency
       /\ x.tb.hand = w.tb.hand /\ x.tb.begun = w.tb.begun
       /\ x.rows = [u \in Users |-> IF u \in S /\ w.rows[u] = w.id THEN Null ELSE w.rows[u]]
  BY <1>6, <1>7, <1>8
<1>10. (DOMAIN w.tb.seats \ S) \ {Robot} # {} =>
          IF w.tb.host \in S THEN Led(x) ELSE x.tb.host = w.tb.host
  <2>1. SUFFICES ASSUME (DOMAIN w.tb.seats \ S) \ {Robot} # {}, w.tb.host \in S PROVE Led(x)
    BY <1>3, <1>6, <1>8
  <2>2. x.tb.seats = left.seats /\ x.tb.host = Centre!NextHost(left)
    BY <1>2, <1>3, <1>6, <1>8, <2>1
  <2>3. Centre!Staying(x.tb) = Centre!Staying(left)
    BY <2>2 DEF Centre!Staying, Centre!Humans, Centre!Seated
  <2>4. QED
    BY <1>4, <2>2, <2>3 DEF Led
<1>11. QED
  BY <1>6, <1>7, <1>8, <1>9, <1>10 DEF Vacated

LEMMA VacateKeeps ==
  ASSUME TablesConstants, NEW w, Base(w), Manned(w), NEW S \in SUBSET Users,
         \A u \in S : ~Centre!InHand(w.tb, u), w.tb.game = "holdem" => S \subseteq DOMAIN w.tb.seats,
         NEW x, x = Centre!Vacate(w, S)
  PROVE  /\ Base(x) /\ Manned(x) /\ x.tb.hand = w.tb.hand /\ x.tb.begun = w.tb.begun
         /\ x.tb.game = w.tb.game
         /\ Calm(w) \/ (\A u \in DOMAIN w.tb.seats \ (S \cup {Robot}) : ~w.tb.seats[u].leaving) => Calm(x)
         /\ Turned(w) => Turned(x)
         /\ \A v : Hosted(w, v) \/ (\A u \in DOMAIN w.tb.seats \ (S \cup {Robot}) : ~w.tb.seats[u].leaving) => Hosted(x, v)
         /\ \A t, c, R : Ours(w, t, c, R) => Ours(x, t, c, R)
<1>1. IsWorld(w) /\ IsTable(w.tb) /\ Typed(w) /\ Ranked(w)
  BY DEF Base, Typed
<1>2. Vacated(w, S, x)
  BY <1>1, VacateIs, FewSeats
<1>3. Robot \notin Users /\ Null \notin Tables
  BY DEF TablesConstants, Centre!TablesAssumption
<1>4. (DOMAIN w.tb.seats \ S) \ {Robot} = {} => w.tb.hand = Null
  BY DEF Base, Handled, Centre!InHand
<1>5. DOMAIN x.tb.seats \subseteq DOMAIN w.tb.seats \ S /\ \A u \in DOMAIN x.tb.seats : x.tb.seats[u] = w.tb.seats[u]
  BY <1>2 DEF Vacated
<1>6. \A u \in Users : u \in DOMAIN x.tb.seats <=> u \in DOMAIN w.tb.seats \ S
  BY <1>2, <1>3 DEF Vacated
<1>7. x.money \in [Users -> Nat] /\ x.held \in [Users -> Nat]
  <2>1. CASE w.tb.game # "holdem"
    BY <2>1, <1>2 DEF Base, Typed, Vacated
  <2>2. CASE w.tb.game = "holdem"
    <3>1. \A u \in S : w.tb.seats[u].stack \in Nat
      BY <2>2 DEF Base, Typed
    <3>2. \A u \in Users : w.money[u] \in Nat /\ w.held[u] \in Nat
      BY DEF Base, Typed
    <3>3. x.held \in [Users -> Nat]
      BY <2>2, <1>2, <3>2 DEF Vacated
    <3>4. /\ x.money = [u \in Users |-> w.money[u] + IF u \notin S THEN 0
                 ELSE IF w.tb.currency = "points" THEN w.held[u] ELSE w.tb.seats[u].stack]
      BY <2>2, <1>2 DEF Vacated
    <3>5. \A u \in Users : (IF u \notin S THEN 0 ELSE IF w.tb.currency = "points" THEN w.held[u]
                             ELSE w.tb.seats[u].stack) \in Nat
      BY <3>1, <3>2
    <3>6. x.money \in [Users -> Nat]
      BY <3>2, <3>4, <3>5
    <3>7. QED
      BY <3>3, <3>6
  <2>3. QED
    BY <2>1, <2>2
<1>8. Typed(x)
  BY <1>2, <1>5, <1>7 DEF Base, Typed, Vacated
<1>9. Agreed(x)
  BY <1>2, <1>3, <1>6 DEF Base, Agreed, Typed, Vacated
<1>10. Handled(x)
  BY <1>2, <1>4, <1>5 DEF Base, Handled, Centre!InHand, Vacated
<1>11. Escrowed(x)
  BY <1>2, <1>3, <1>5, <1>6 DEF Base, Escrowed, InEscrow, Centre!InHand, Typed, Vacated
<1>12. Manned(x)
  BY <1>2 DEF Manned, Vacated
<1>13. Calm(w) \/ (\A u \in DOMAIN w.tb.seats \ (S \cup {Robot}) : ~w.tb.seats[u].leaving) => Calm(x)
  BY <1>2, <1>5 DEF Calm, Vacated
<1>14. Turned(w) => Turned(x)
  BY <1>2 DEF Turned, Vacated
<1> Funded(x)
  <2>1. x.pot = w.pot /\ x.tb.hand = w.tb.hand /\ x.tb.game = w.tb.game /\ x.tb.currency = w.tb.currency
    BY <1>2 DEF Vacated
  <2> QED
    BY <1>5, <2>1 DEF Base, Funded, Staked
<1> w.tb.currency = "points" => Worth(x) = Worth(w)
  <2>1. ASSUME NEW u \in Users, w.tb.currency = "points" PROVE Share(x, u) = Share(w, u)
    <3>1. Put(x, u) = Put(w, u) /\ Put(w, u) \in Nat
      BY <1>2, PutIs DEF Vacated, Put, Centre!InHand
    <3>2. w.money[u] \in Nat /\ w.held[u] \in Nat
      BY <1>1 DEF Typed
    <3>3. x.money[u] + x.held[u] = w.money[u] + w.held[u]
      BY <1>2, <2>1, <3>2 DEF Vacated
    <3> QED
      BY <3>1, <3>3 DEF Share
  <2> QED
    BY <2>1, WorthSame
<1>15. \A t, c, R : Ours(w, t, c, R) => Ours(x, t, c, R)
  BY <1>2 DEF Ours, Vacated
<1>16. Null \notin DOMAIN w.tb.seats \ {Robot}
  BY <1>1 DEF Typed, TablesConstants, Centre!TablesAssumption
<1>17. Led(x) => Headed(x) /\ \A v : Hosted(x, v)
  BY <1>5, <1>16 DEF Led, Headed, Hosted, Centre!Staying, Centre!Humans, Centre!Seated
<1>18. \/ Led(x)
       \/ x.tb.host = w.tb.host /\ w.tb.host \notin S /\ DOMAIN x.tb.seats = DOMAIN w.tb.seats \ S
  <2>1. CASE (DOMAIN w.tb.seats \ S) \ {Robot} = {}
    BY <1>2, <2>1 DEF Vacated, Led, Centre!Staying, Centre!Humans, Centre!Seated
  <2>2. CASE (DOMAIN w.tb.seats \ S) \ {Robot} # {}
    BY <1>2, <2>2 DEF Vacated
  <2>3. QED
    BY <2>1, <2>2
<1>19. Headed(x)
  BY <1>5, <1>17, <1>18 DEF Base, Headed
<1>20. Ranked(x)
  BY <1>1, <1>5 DEF Ranked
<1>21. \A v : Hosted(w, v) \/ (\A u \in DOMAIN w.tb.seats \ (S \cup {Robot}) : ~w.tb.seats[u].leaving) => Hosted(x, v)
  BY <1>5, <1>17, <1>18, <1>19 DEF Headed, Hosted
<1>22. QED
  BY <1>2, <1>8, <1>9, <1>10, <1>11, <1>12, <1>13, <1>14, <1>15, <1>19, <1>20, <1>21 DEF Base, Vacated

-----------------------------------------------------------------------------
(* What a move does: the hand goes on among the same players, and what they *)
(* put into the pot of a zjh hand leaves their escrow.                     *)
Played(w, x) ==
  /\ Kin(w, x) /\ x.rows = w.rows /\ x.money = w.money
  /\ x.tb.phase = w.tb.phase /\ x.tb.begun = w.tb.begun /\ x.tb.seats = w.tb.seats /\ x.tb.host = w.tb.host
  /\ HandTyped(x.tb.hand) /\ x.tb.hand.budget = w.tb.hand.budget
  /\ x.held \in [Users -> Nat]
  /\ \A u \in Users : x.held[u] =
        IF w.tb.game = "zjh" /\ w.tb.currency = "points" /\ u \in DOMAIN w.tb.hand.budget
        THEN w.held[u] - (x.tb.hand.paid[u] - w.tb.hand.paid[u]) ELSE w.held[u]
  /\ x.pot = IF w.tb.game = "zjh" /\ w.tb.currency = "points" THEN Centre!Total(x.tb.hand.paid) ELSE w.pot

LEMMA PlayedKeeps ==
  ASSUME TablesConstants, NEW w, Base(w), w.tb.hand # Null, NEW x, Played(w, x)
  PROVE  /\ Base(x) /\ x.tb.hand # Null /\ Calm(x)
         /\ Manned(w) => Manned(x)
         /\ \A v : Hosted(w, v) => Hosted(x, v)
         /\ \A t, c, R : Ours(w, t, c, R) => Ours(x, t, c, R)
<1>1. x.tb.hand # Null
  BY DEF TablesConstants, Played, HandTyped
<1>2. Typed(x)
  BY DEF Base, Typed, Played, Kin
<1>3. Agreed(x)
  BY DEF Base, Agreed, Played, Kin
<1>4. Handled(x)
  BY <1>1 DEF Base, Handled, Played, Kin
<1>5. Escrowed(x)
  <2>1. ASSUME NEW u \in Users PROVE x.held[u] = InEscrow(x, u)
    <3>1. w.held[u] = InEscrow(w, u)
      BY DEF Base, Escrowed
    <3>2. u \in DOMAIN w.tb.hand.budget =>
            w.tb.hand.budget[u] \in Nat /\ w.tb.hand.paid[u] \in Nat /\ x.tb.hand.paid[u] \in Nat
      BY DEF Base, Typed, HandTyped, Played
    <3>3. w.tb.currency \in {"points", "beans"} /\ w.tb.game \in {"zjh", "holdem", "board"}
      BY DEF Base, Typed
    <3>4. Centre!InHand(w.tb, u) <=> u \in DOMAIN w.tb.hand.budget
      BY DEF Centre!InHand
    <3>5. Centre!InHand(x.tb, u) <=> u \in DOMAIN w.tb.hand.budget
      BY <1>1 DEF Centre!InHand, Played
    <3>6. u \in DOMAIN w.tb.hand.budget => u \in DOMAIN w.tb.seats
      BY DEF Base, Handled
    <3>7. QED
      BY <3>1, <3>2, <3>3, <3>4, <3>5, <3>6 DEF InEscrow, Played, Kin
  <2>2. QED
    BY <2>1 DEF Escrowed
<1>6. Manned(w) => Manned(x)
  BY DEF Manned, Played
<1>7. Calm(x)
  BY <1>1 DEF Calm
<1> Funded(x)
  <2>1. w.tb.currency \in {"points", "beans"} /\ Funded(w)
    BY DEF Base, Typed
  <2> QED
    BY <1>1, <2>1 DEF Funded, Staked, Played, Kin
<1> w.tb.currency = "points" => Worth(x) = Worth(w)
  <2>1. ASSUME NEW u \in Users, w.tb.currency = "points" PROVE Share(x, u) = Share(w, u)
    <3>1. /\ Centre!InHand(w.tb, u) <=> u \in DOMAIN w.tb.hand.budget
          /\ Centre!InHand(x.tb, u) <=> u \in DOMAIN w.tb.hand.budget
      BY <1>1 DEF Centre!InHand, Played
    <3>2. u \in DOMAIN w.tb.hand.budget => w.tb.hand.paid[u] \in Nat /\ x.tb.hand.paid[u] \in Nat
      BY DEF Base, Typed, HandTyped, Played
    <3>3. w.money[u] \in Nat /\ w.held[u] \in Nat
      BY DEF Base, Typed
    <3> QED
      BY <2>1, <3>1, <3>2, <3>3 DEF Share, Put, Played, Kin
  <2> QED
    BY <2>1, WorthSame
<1>8. \A t, c, R : Ours(w, t, c, R) => Ours(x, t, c, R)
  BY DEF Ours, Played, Kin
<1>9. Headed(x) /\ Ranked(x)
  BY DEF Base, Headed, Ranked, Played
<1>10. \A v : Hosted(w, v) => Hosted(x, v)
  BY DEF Hosted, Played
<1>11. QED
  BY <1>1, <1>2, <1>3, <1>4, <1>5, <1>6, <1>7, <1>8, <1>9, <1>10 DEF Base

(* The turn passes, somebody is out, somebody is to move.                  *)
LEMMA HandPlayed ==
  ASSUME NEW w, Base(w), w.tb.hand # Null, NEW x,
         IsWorld(x), IsTable(x.tb), x.id = w.id, x.money = w.money, x.held = w.held, x.pot = w.pot, x.rows = w.rows,
         x.tb.game = w.tb.game, x.tb.currency = w.tb.currency, x.tb.phase = w.tb.phase,
         x.tb.begun = w.tb.begun, x.tb.seats = w.tb.seats, x.tb.host = w.tb.host,
         IsHand(x.tb.hand), x.tb.hand.budget = w.tb.hand.budget, x.tb.hand.paid = w.tb.hand.paid,
         x.tb.hand.live \subseteq w.tb.hand.live
  PROVE  Played(w, x)
<1>1. HandTyped(w.tb.hand) /\ w.held \in [Users -> Nat]
  BY DEF Base, Typed
<1>2. HandTyped(x.tb.hand)
  BY <1>1 DEF HandTyped
<1>3. \A u \in DOMAIN w.tb.hand.budget : w.tb.hand.paid[u] \in Nat
  BY <1>1 DEF HandTyped
<1>4. \A u \in Users : x.held[u] =
        IF w.tb.game = "zjh" /\ w.tb.currency = "points" /\ u \in DOMAIN w.tb.hand.budget
        THEN w.held[u] - (x.tb.hand.paid[u] - w.tb.hand.paid[u]) ELSE w.held[u]
  BY <1>1, <1>3
<1>5. x.pot = IF w.tb.game = "zjh" /\ w.tb.currency = "points" THEN Centre!Total(x.tb.hand.paid) ELSE w.pot
  BY DEF Base, Funded, Staked
<1>6. QED
  BY <1>1, <1>2, <1>4, <1>5 DEF Played, Kin

LEMMA TurnPlayed ==
  ASSUME NEW w, Base(w), w.tb.hand # Null, NEW x, x = [w EXCEPT !.tb.hand.turn = @ + 1]
  PROVE  Played(w, x) /\ x.tb.hand.live = w.tb.hand.live /\ x.tb.hand.paid = w.tb.hand.paid
<1>1. /\ IsWorld(x) /\ IsTable(x.tb) /\ x.id = w.id /\ x.money = w.money /\ x.held = w.held /\ x.pot = w.pot /\ x.rows = w.rows
      /\ x.tb.game = w.tb.game /\ x.tb.currency = w.tb.currency /\ x.tb.phase = w.tb.phase
      /\ x.tb.begun = w.tb.begun /\ x.tb.seats = w.tb.seats /\ x.tb.host = w.tb.host
      /\ IsHand(x.tb.hand) /\ x.tb.hand.budget = w.tb.hand.budget /\ x.tb.hand.paid = w.tb.hand.paid
      /\ x.tb.hand.live = w.tb.hand.live
  BY DEF Base, Typed, HandTyped, IsWorld, IsTable, IsHand
<1>2. QED
  BY <1>1, HandPlayed

LEMMA OutPlayed ==
  ASSUME NEW w, Base(w), w.tb.hand # Null, NEW v, NEW x, x = [w EXCEPT !.tb.hand.live = @ \ {v}]
  PROVE  Played(w, x)
<1>1. /\ IsWorld(x) /\ IsTable(x.tb) /\ x.id = w.id /\ x.money = w.money /\ x.held = w.held /\ x.pot = w.pot /\ x.rows = w.rows
      /\ x.tb.game = w.tb.game /\ x.tb.currency = w.tb.currency /\ x.tb.phase = w.tb.phase
      /\ x.tb.begun = w.tb.begun /\ x.tb.seats = w.tb.seats /\ x.tb.host = w.tb.host
      /\ IsHand(x.tb.hand) /\ x.tb.hand.budget = w.tb.hand.budget /\ x.tb.hand.paid = w.tb.hand.paid
      /\ x.tb.hand.live = w.tb.hand.live \ {v}
  BY DEF Base, Typed, HandTyped, IsWorld, IsTable, IsHand
<1>2. QED
  BY <1>1, HandPlayed

LEMMA CurPlayed ==
  ASSUME NEW w, Base(w), w.tb.hand # Null, NEW u \in w.tb.hand.live, NEW x,
         x = [w EXCEPT !.tb.hand.cur = u] \/ x = [w EXCEPT !.tb.hand.cur = u, !.tb.first = u]
  PROVE  Played(w, x) /\ Turned(x)
<1>1. /\ IsWorld(x) /\ IsTable(x.tb) /\ x.id = w.id /\ x.money = w.money /\ x.held = w.held /\ x.pot = w.pot /\ x.rows = w.rows
      /\ x.tb.game = w.tb.game /\ x.tb.currency = w.tb.currency /\ x.tb.phase = w.tb.phase
      /\ x.tb.begun = w.tb.begun /\ x.tb.seats = w.tb.seats /\ x.tb.host = w.tb.host
      /\ IsHand(x.tb.hand) /\ x.tb.hand.budget = w.tb.hand.budget /\ x.tb.hand.paid = w.tb.hand.paid
      /\ x.tb.hand.live = w.tb.hand.live /\ x.tb.hand.cur = u
  <2>1. IsWorld(w) /\ IsTable(w.tb) /\ IsHand(w.tb.hand)
    BY DEF Base, Typed, HandTyped
  <2>2. CASE x = [w EXCEPT !.tb.hand.cur = u]
    BY <2>1, <2>2 DEF IsWorld, IsTable, IsHand
  <2>3. CASE x = [w EXCEPT !.tb.hand.cur = u, !.tb.first = u]
    BY <2>1, <2>3 DEF IsWorld, IsTable, IsHand
  <2>4. QED
    BY <2>2, <2>3
<1>2. QED
  BY <1>1, HandPlayed DEF Turned

(* Chips are put in by who has them.                                       *)
LEMMA ConsumePlayed ==
  ASSUME TablesConstants, NEW w, Base(w), w.tb.hand # Null, NEW v \in DOMAIN w.tb.hand.budget,
         NEW n \in 0 .. Centre!Chips(w.tb.hand, v), NEW x, x = Centre!Consume(w, Centre!Only(v, n))
  PROVE  Played(w, x) /\ x.tb.hand.live = w.tb.hand.live
<1>1. PICK o : o = Centre!Only(v, n)
  OBVIOUS
<1>2. HandTyped(w.tb.hand) /\ w.held \in [Users -> Nat] /\ IsWorld(w) /\ IsTable(w.tb)
  BY DEF Base, Typed
<1>3. /\ IsWorld(x) /\ IsTable(x.tb) /\ IsHand(x.tb.hand)
      /\ x.id = w.id /\ x.money = w.money /\ x.rows = w.rows
      /\ x.tb.game = w.tb.game /\ x.tb.currency = w.tb.currency /\ x.tb.phase = w.tb.phase
      /\ x.tb.seats = w.tb.seats /\ x.tb.begun = w.tb.begun /\ x.tb.host = w.tb.host
      /\ x.tb.hand.budget = w.tb.hand.budget /\ x.tb.hand.live = w.tb.hand.live
      /\ x.tb.hand.paid = [u \in DOMAIN w.tb.hand.paid |-> w.tb.hand.paid[u] + Centre!Of(o, u)]
      /\ x.held = [u \in Users |-> IF w.tb.game = "zjh" /\ w.tb.currency = "points"
                                   THEN w.held[u] - Centre!Of(o, u) ELSE w.held[u]]
      /\ x.pot = IF w.tb.game = "zjh" /\ w.tb.currency = "points" THEN w.pot + Centre!Total(o) ELSE w.pot
  BY <1>1, <1>2, ConsumeIs DEF HandTyped
<1>4. \A u : Centre!Of(o, u) = IF u = v THEN n ELSE 0
  BY <1>1 DEF Centre!Of, Centre!Only
<1>5. /\ DOMAIN w.tb.hand.paid = DOMAIN w.tb.hand.budget
      /\ \A u \in DOMAIN w.tb.hand.budget : w.tb.hand.budget[u] \in Nat /\ w.tb.hand.paid[u] \in Nat
                                            /\ w.tb.hand.paid[u] <= w.tb.hand.budget[u]
  BY <1>2 DEF HandTyped
<1>6. n \in Nat /\ n <= w.tb.hand.budget[v] - w.tb.hand.paid[v]
  BY <1>5 DEF Centre!Chips
<1>7. \A u \in DOMAIN w.tb.hand.budget : x.tb.hand.paid[u] = IF u = v THEN w.tb.hand.paid[u] + n ELSE w.tb.hand.paid[u]
  BY <1>3, <1>4, <1>5, <1>6
<1>8. HandTyped(x.tb.hand)
  <2>1. x.tb.hand.paid \in [DOMAIN x.tb.hand.budget -> Nat]
    <3>1. DOMAIN x.tb.hand.paid = DOMAIN x.tb.hand.budget /\ x.tb.hand.paid = [u \in DOMAIN x.tb.hand.paid |-> x.tb.hand.paid[u]]
      BY <1>3, <1>5
    <3>2. ASSUME NEW u \in DOMAIN w.tb.hand.budget PROVE x.tb.hand.paid[u] \in Nat
      <4>1. w.tb.hand.paid[u] \in Nat /\ w.tb.hand.paid[u] + n \in Nat
        BY <1>5, <1>6
      <4>2. QED
        BY <1>7, <4>1
    <3>3. QED
      BY <1>3, <3>1, <3>2
  <2>2. \A u \in DOMAIN x.tb.hand.budget : x.tb.hand.paid[u] <= x.tb.hand.budget[u]
    BY <1>3, <1>5, <1>6, <1>7
  <2>3. QED
    BY <1>2, <1>3, <2>1, <2>2 DEF HandTyped
<1>9. \A u \in Users : x.held[u] =
        IF w.tb.game = "zjh" /\ w.tb.currency = "points" /\ u \in DOMAIN w.tb.hand.budget
        THEN w.held[u] - (x.tb.hand.paid[u] - w.tb.hand.paid[u]) ELSE w.held[u]
  <2>1. ASSUME NEW u \in Users, w.tb.game = "zjh", w.tb.currency = "points", u \in DOMAIN w.tb.hand.budget
        PROVE  x.held[u] = w.held[u] - (x.tb.hand.paid[u] - w.tb.hand.paid[u])
    BY <1>2, <1>3, <1>4, <1>5, <1>6, <1>7, <2>1
  <2>2. ASSUME NEW u \in Users, ~(w.tb.game = "zjh" /\ w.tb.currency = "points" /\ u \in DOMAIN w.tb.hand.budget)
        PROVE  x.held[u] = w.held[u]
    BY <1>2, <1>3, <1>4, <2>2
  <2>3. QED
    BY <2>1, <2>2
<1>10. x.held \in [Users -> Nat]
  <2>1. ASSUME NEW u \in Users PROVE x.held[u] \in Nat
    <3>1. CASE w.tb.game = "zjh" /\ w.tb.currency = "points" /\ u = v
      <4>1. w.held[u] = w.tb.hand.budget[u] - w.tb.hand.paid[u]
        BY <3>1 DEF Base, Escrowed, InEscrow, Centre!InHand, Handled
      <4>2. QED
        BY <1>3, <1>4, <1>5, <1>6, <3>1, <4>1
    <3>2. CASE ~(w.tb.game = "zjh" /\ w.tb.currency = "points" /\ u = v)
      BY <1>2, <1>3, <1>4, <3>2
    <3>3. QED
      BY <3>1, <3>2
  <2>2. QED
    BY <1>3, <2>1
<1>11. x.pot = IF w.tb.game = "zjh" /\ w.tb.currency = "points" THEN Centre!Total(x.tb.hand.paid) ELSE w.pot
  <2> SUFFICES ASSUME w.tb.game = "zjh", w.tb.currency = "points" PROVE w.pot + Centre!Total(o) = Centre!Total(x.tb.hand.paid)
    BY <1>3
  <2>1. PICK D : D = DOMAIN w.tb.hand.budget
    OBVIOUS
  <2>2. IsFiniteSet(D) /\ v \in D
    BY <2>1, FewSeats, FS_Subset DEF Base, Handled
  <2>3. DOMAIN o = {v} /\ o[v] = n
    BY <1>1 DEF Centre!Only
  <2>4. Centre!Total(o) = n
    <3>1. IsFiniteSet({v})
      BY FS_Singleton
    <3>2. \A y \in {v} : o[y] \in Int
      BY <1>6, <2>3
    <3>3. Sum(o, {v}) = o[v] + Sum(o, {v} \ {v}) /\ {v} \ {v} = {}
      BY <3>1, <3>2, SumPick
    <3> QED
      BY <1>6, <2>3, <3>3, NoSum, TotalIs
  <2>5. PICK p : p = w.tb.hand.paid
    OBVIOUS
  <2>6. PICK q : q = x.tb.hand.paid
    OBVIOUS
  <2>7. /\ \A u \in D : p[u] \in Int /\ q[u] \in Int
        /\ \A u \in D \ {v} : p[u] = q[u]
        /\ q[v] = p[v] + n /\ DOMAIN p = D /\ DOMAIN q = D
    <3>1. DOMAIN p = D /\ \A u \in D : p[u] \in Nat
      BY <1>5, <2>1, <2>5
    <3>2. DOMAIN q = D
      BY <1>3, <1>5, <2>1, <2>6
    <3>3. \A u \in D : q[u] = IF u = v THEN p[u] + n ELSE p[u]
      BY <1>7, <2>1, <2>5, <2>6
    <3> QED
      BY <1>6, <2>2, <3>1, <3>2, <3>3
  <2>8. Sum(q, D) = Sum(p, D) + q[v] - p[v]
    BY <2>2, <2>7, SumChange
  <2>9. Sum(p, D) \in Int
    BY <2>2, <2>7, SumInt
  <2>10. w.pot = Sum(p, D)
    BY <2>5, <2>7, TotalIs DEF Base, Funded, Staked
  <2> QED
    BY <1>6, <2>2, <2>4, <2>6, <2>7, <2>8, <2>9, <2>10, TotalIs
<1>12. QED
  BY <1>3, <1>8, <1>9, <1>10, <1>11 DEF Played, Kin

-----------------------------------------------------------------------------
(* Two players or more have a member among them, who can pay.              *)
LEMMA WhoPlays ==
  ASSUME NEW w, Typed(w), NEW m, NEW in, in = Centre!Eligible(w, m), ~Centre!TooFew(w, in)
  PROVE  /\ in \subseteq DOMAIN w.tb.seats
         /\ \E u \in in : u # Robot
         /\ w.tb.game = "holdem" => \A u \in in : w.tb.seats[u].stack > 0 /\ w.tb.seats[u].away = "no"
         /\ w.tb.game # "holdem" => \A u \in in : u # Robot => w.money[u] >= Stake
<1>1. in \subseteq DOMAIN w.tb.seats
  BY DEF Centre!Eligible, Centre!Seated
<1>2. w.tb.game = "holdem" => \A u \in in : w.tb.seats[u].stack > 0 /\ w.tb.seats[u].away = "no"
  BY DEF Centre!Eligible
<1>3. w.tb.game # "holdem" => \A u \in in : u # Robot => w.money[u] >= Stake
  BY DEF Centre!Eligible, Centre!CanFund, Centre!Available
<1>4. \E u \in in : u # Robot
  <2> SUFFICES ASSUME in \subseteq {Robot} PROVE FALSE
    OBVIOUS
  <2>1. in = {} \/ in = {Robot}
    OBVIOUS
  <2>2. Cardinality(in) = 0 \/ Cardinality(in) = 1
    BY <2>1, FS_EmptySet, FS_Singleton
  <2>3. QED
    BY <2>2, CountPlayers DEF Centre!TooFew
<1>5. QED
  BY <1>1, <1>2, <1>3, <1>4

DealtTo(w, in, x) ==
  /\ IsWorld(x) /\ IsTable(x.tb) /\ IsHand(x.tb.hand) /\ x.id = w.id /\ x.rows = w.rows
  /\ x.tb.game = w.tb.game /\ x.tb.currency = w.tb.currency /\ x.tb.phase = "playing" /\ x.tb.begun = TRUE
  /\ x.tb.host = w.tb.host
  /\ x.tb.seats = [u \in DOMAIN w.tb.seats |-> [w.tb.seats[u] EXCEPT !.ready = FALSE]]
  /\ x.tb.hand.budget = [u \in in |-> Centre!Budget(w, u)] /\ x.tb.hand.live = in
  /\ x.tb.hand.paid = [u \in in |-> 0 + Centre!Opening(w, in)[u]]
  /\ x.money = [u \in Users |-> IF w.tb.game = "holdem" \/ u \notin in THEN w.money[u] ELSE w.money[u] - Stake]
  /\ \A u \in Users : x.held[u] =
       IF w.tb.currency = "points" /\ w.tb.game # "holdem" /\ u \in in
       THEN IF w.tb.game = "zjh" THEN w.held[u] + Stake - 1 ELSE w.held[u] + Stake
       ELSE w.held[u]
  /\ x.held = [u \in Users |-> x.held[u]]
  /\ x.pot = IF w.tb.game = "zjh" /\ w.tb.currency = "points" THEN w.pot + Centre!Total(Centre!Opening(w, in)) ELSE w.pot

LEMMA DealtIs ==
  ASSUME TablesConstants, NEW w, Typed(w), NEW in, NEW x, x = Centre!Dealt(w, in)
  PROVE  DealtTo(w, in, x)
<1> DEFINE staked == IF w.tb.game = "holdem" THEN w ELSE Centre!Reserve(w, [u \in in |-> Stake])
<1>1. PICK h : h = [budget |-> [u \in in |-> Centre!Budget(w, u)], paid |-> [u \in in |-> 0],
                          live |-> in, turn |-> 1, cur |-> Null]
  OBVIOUS
<1>2. PICK y : y = [staked EXCEPT !.tb.hand = h, !.tb.phase = "playing", !.tb.begun = TRUE,
                            !.tb.countdown = FALSE, !.tb.idle = FALSE,
                            !.tb.seats = [u \in DOMAIN @ |-> [@[u] EXCEPT !.ready = FALSE]]]
  BY Zenon
<1>3. PICK o : o = Centre!Opening(w, in)
  OBVIOUS
<1>4. x = Centre!Consume(y, o)
  BY <1>1, <1>2, <1>3, Zenon DEF Centre!Dealt
<1>5. IsWorld(w) /\ IsTable(w.tb) /\ w.money = [u \in Users |-> w.money[u]] /\ w.held = [u \in Users |-> w.held[u]]
  BY DEF Typed
<1>6. /\ IsWorld(staked) /\ staked.id = w.id /\ staked.tb = w.tb /\ staked.rows = w.rows /\ staked.pot = w.pot
      /\ staked.money = [u \in Users |-> IF w.tb.game = "holdem" \/ u \notin in THEN w.money[u] ELSE w.money[u] - Stake]
      /\ staked.held = [u \in Users |-> IF w.tb.currency = "points" /\ w.tb.game # "holdem" /\ u \in in
                                        THEN w.held[u] + Stake ELSE w.held[u]]
  <2>1. CASE w.tb.game = "holdem"
    BY <1>5, <2>1
  <2>2. CASE w.tb.game # "holdem"
    <3>1. PICK b : b = [u \in in |-> Stake]
      OBVIOUS
    <3>2. \A u : Centre!Of(b, u) = IF u \in in THEN Stake ELSE 0
      BY <3>1 DEF Centre!Of
    <3>3. staked = Centre!Reserve(w, b)
      BY <2>2, <3>1
    <3> HIDE DEF staked
    <3>4. /\ IsWorld(staked) /\ staked.id = w.id /\ staked.tb = w.tb /\ staked.rows = w.rows /\ staked.pot = w.pot
          /\ staked.money = [u \in Users |-> w.money[u] - Centre!Of(b, u)]
          /\ staked.held = [u \in Users |-> IF w.tb.currency = "points" THEN w.held[u] + Centre!Of(b, u) ELSE w.held[u]]
      BY <1>5, <3>3, ReserveIs
    <3>5. \A u \in Users : w.money[u] \in Nat /\ w.held[u] \in Nat
      BY DEF Typed
    <3>6. staked.money = [u \in Users |-> IF w.tb.game = "holdem" \/ u \notin in THEN w.money[u] ELSE w.money[u] - Stake]
      BY <2>2, <3>2, <3>4, <3>5
    <3>7. staked.held = [u \in Users |-> IF w.tb.currency = "points" /\ w.tb.game # "holdem" /\ u \in in
                                        THEN w.held[u] + Stake ELSE w.held[u]]
      BY <2>2, <3>2, <3>4, <3>5
    <3>8. QED
      BY <3>4, <3>6, <3>7
  <2>3. QED
    BY <2>1, <2>2
<1> HIDE DEF staked
<1>7. /\ IsWorld(y) /\ IsTable(y.tb) /\ y.id = w.id /\ y.rows = w.rows /\ y.money = staked.money /\ y.held = staked.held
      /\ y.pot = w.pot
      /\ y.tb.game = w.tb.game /\ y.tb.currency = w.tb.currency /\ y.tb.phase = "playing" /\ y.tb.begun = TRUE
      /\ y.tb.hand = h /\ y.tb.host = w.tb.host
      /\ y.tb.seats = [u \in DOMAIN w.tb.seats |-> [w.tb.seats[u] EXCEPT !.ready = FALSE]]
  <2>1. IsWorld(staked) /\ IsTable(staked.tb)
    BY <1>5, <1>6
  <2>2. PICK s : s = [u \in DOMAIN w.tb.seats |-> [w.tb.seats[u] EXCEPT !.ready = FALSE]]
    OBVIOUS
  <2>3. y = [staked EXCEPT !.tb = [staked.tb EXCEPT !.hand = h, !.phase = "playing", !.begun = TRUE,
                                   !.countdown = FALSE, !.idle = FALSE, !.seats = s]]
    BY <1>2, <1>6, <2>1, <2>2 DEF IsWorld, IsTable
  <2>4. QED
    BY <1>6, <2>1, <2>2, <2>3 DEF IsWorld, IsTable
<1>8. /\ IsHand(h) /\ h.budget = [u \in in |-> Centre!Budget(w, u)] /\ h.paid = [u \in in |-> 0] /\ h.live = in
  BY <1>1 DEF IsHand
<1>9. /\ IsWorld(x) /\ IsTable(x.tb) /\ IsHand(x.tb.hand)
      /\ x.id = y.id /\ x.money = y.money /\ x.rows = y.rows
      /\ x.tb.game = y.tb.game /\ x.tb.currency = y.tb.currency /\ x.tb.phase = y.tb.phase
      /\ x.tb.seats = y.tb.seats /\ x.tb.begun = y.tb.begun /\ x.tb.host = y.tb.host
      /\ x.tb.hand.budget = y.tb.hand.budget /\ x.tb.hand.live = y.tb.hand.live
      /\ x.tb.hand.paid = [u \in DOMAIN y.tb.hand.paid |-> y.tb.hand.paid[u] + Centre!Of(o, u)]
      /\ x.held = [u \in Users |-> IF y.tb.game = "zjh" /\ y.tb.currency = "points"
                                   THEN y.held[u] - Centre!Of(o, u) ELSE y.held[u]]
      /\ x.pot = IF y.tb.game = "zjh" /\ y.tb.currency = "points" THEN y.pot + Centre!Total(o) ELSE y.pot
  <2>1. IsWorld(y) /\ IsTable(y.tb) /\ IsHand(y.tb.hand)
    BY <1>7, <1>8
  <2> QED
    BY <1>4, <2>1, ConsumeIs
<1>10. /\ \A u : Centre!Of(o, u) = IF u \in in THEN Centre!Opening(w, in)[u] ELSE 0
       /\ w.tb.game = "zjh" => \A u : Centre!Of(o, u) = IF u \in in THEN 1 ELSE 0
  BY <1>3 DEF Centre!Of, Centre!Opening
<1>11. x.tb.hand.paid = [u \in in |-> 0 + Centre!Opening(w, in)[u]]
  BY <1>7, <1>8, <1>9, <1>10
<1>12. \A u \in Users : w.held[u] \in Nat
  BY DEF Typed
<1>13. ASSUME NEW u \in Users
       PROVE  x.held[u] = IF w.tb.currency = "points" /\ w.tb.game # "holdem" /\ u \in in
                          THEN IF w.tb.game = "zjh" THEN w.held[u] + Stake - 1 ELSE w.held[u] + Stake
                          ELSE w.held[u]
  <2>1. Stake \in Nat /\ Stake # 0
    BY DEF TablesConstants, Centre!TablesAssumption
  <2>2. x.held[u] = IF w.tb.game = "zjh" /\ w.tb.currency = "points" THEN y.held[u] - Centre!Of(o, u) ELSE y.held[u]
    BY <1>7, <1>9
  <2>3. y.held[u] = IF w.tb.currency = "points" /\ w.tb.game # "holdem" /\ u \in in
                    THEN w.held[u] + Stake ELSE w.held[u]
    BY <1>6, <1>7
  <2>4. w.tb.game = "zjh" => Centre!Of(o, u) = IF u \in in THEN 1 ELSE 0
    BY <1>10
  <2>5. QED
    BY <1>12, <2>1, <2>2, <2>3, <2>4
<1>14. x.pot = IF w.tb.game = "zjh" /\ w.tb.currency = "points" THEN w.pot + Centre!Total(Centre!Opening(w, in)) ELSE w.pot
  BY <1>3, <1>7, <1>9
<1>15. QED
  BY <1>6, <1>7, <1>8, <1>9, <1>11, <1>13, <1>14 DEF DealtTo

LEMMA DealtKeeps ==
  ASSUME TablesConstants, NEW w, Base(w), Manned(w), w.tb.hand = Null, w.tb.phase # "closed",
         NEW m, NEW in, in = Centre!Eligible(w, m), ~Centre!TooFew(w, in), NEW x, x = Centre!Dealt(w, in)
  PROVE  /\ Base(x) /\ Manned(x) /\ x.tb.hand # Null /\ Calm(x)
         /\ \A v : Hosted(w, v) => Hosted(x, v)
         /\ \A t, c, R : Ours(w, t, c, R) => Ours(x, t, c, R)
<1>1. Typed(w)
  BY DEF Base
<1>2. /\ in \subseteq DOMAIN w.tb.seats
      /\ \E u \in in : u # Robot
      /\ w.tb.game = "holdem" => \A u \in in : w.tb.seats[u].stack > 0 /\ w.tb.seats[u].away = "no"
      /\ w.tb.game # "holdem" => \A u \in in : u # Robot => w.money[u] >= Stake
  BY <1>1, WhoPlays
<1>3. DealtTo(w, in, x)
  BY <1>1, DealtIs
<1>4. Stake \in Nat /\ Stake >= 1 /\ Robot \notin Users
  BY DEF TablesConstants, Centre!TablesAssumption
<1>5. x.tb.hand # Null
  BY <1>3 DEF TablesConstants, DealtTo
<1>6. DOMAIN x.tb.seats = DOMAIN w.tb.seats
  BY <1>3 DEF DealtTo
<1>7. \A u \in DOMAIN w.tb.seats :
        /\ IsSeat(x.tb.seats[u]) /\ x.tb.seats[u].stack = w.tb.seats[u].stack
        /\ x.tb.seats[u].away = w.tb.seats[u].away /\ x.tb.seats[u].leaving = w.tb.seats[u].leaving
        /\ x.tb.seats[u].since = w.tb.seats[u].since
  <2>1. ASSUME NEW u \in DOMAIN w.tb.seats
        PROVE  /\ IsSeat(x.tb.seats[u]) /\ x.tb.seats[u].stack = w.tb.seats[u].stack
               /\ x.tb.seats[u].away = w.tb.seats[u].away /\ x.tb.seats[u].leaving = w.tb.seats[u].leaving
               /\ x.tb.seats[u].since = w.tb.seats[u].since
    <3>1. PICK a : a = w.tb.seats[u]
      OBVIOUS
    <3>2. IsSeat(a)
      BY <1>1, <3>1 DEF Typed
    <3>3. x.tb.seats[u] = [a EXCEPT !.ready = FALSE]
      BY <1>3, <3>1 DEF DealtTo
    <3>4. QED
      BY <3>1, <3>2, <3>3 DEF IsSeat
  <2>2. QED
    BY <2>1
<1>8. \A u \in Users : w.money[u] \in Nat /\ w.held[u] \in Nat
  BY <1>1 DEF Typed
<1>9. \A u \in in : /\ w.tb.seats[u].stack \in Nat
                    /\ x.tb.hand.budget[u] = IF w.tb.game = "holdem" THEN w.tb.seats[u].stack ELSE Stake
                    /\ x.tb.hand.paid[u] = IF w.tb.game = "board" THEN Stake ELSE 1
  BY <1>1, <1>2, <1>3, <1>4 DEF Typed, Centre!Budget, Centre!Opening, DealtTo
<1>10. HandTyped(x.tb.hand)
  <2>1. ASSUME NEW u \in in PROVE /\ x.tb.hand.budget[u] \in Nat /\ x.tb.hand.paid[u] \in Nat
                                  /\ x.tb.hand.paid[u] <= x.tb.hand.budget[u]
    BY <1>2, <1>4, <1>9
  <2>2. QED
    BY <1>3, <2>1 DEF HandTyped, DealtTo
<1>11. x.money \in [Users -> Nat]
  <2>1. ASSUME NEW u \in Users PROVE x.money[u] \in Nat
    BY <1>2, <1>3, <1>4, <1>8 DEF DealtTo
  <2>2. QED
    BY <1>3, <2>1 DEF DealtTo
<1>12. x.held \in [Users -> Nat]
  <2>1. ASSUME NEW u \in Users PROVE x.held[u] \in Nat
    BY <1>3, <1>4, <1>8 DEF DealtTo
  <2>2. QED
    BY <1>3, <2>1 DEF DealtTo
<1>13. Typed(x)
  <2>1. /\ IsWorld(x) /\ IsTable(x.tb) /\ x.id \in Tables
        /\ x.rows = [u \in Users |-> x.rows[u]] /\ x.tb.seats = [u \in DOMAIN x.tb.seats |-> x.tb.seats[u]]
        /\ x.tb.game \in {"zjh", "holdem", "board"} /\ x.tb.currency \in {"points", "beans"}
    BY <1>1, <1>3 DEF Typed, DealtTo
  <2>2. /\ DOMAIN x.tb.seats \subseteq Users \cup {Robot}
        /\ \A u \in DOMAIN x.tb.seats : IsSeat(x.tb.seats[u]) /\ x.tb.seats[u].stack \in Nat
    BY <1>1, <1>6, <1>7 DEF Typed
  <2>3. QED
    BY <1>10, <1>11, <1>12, <2>1, <2>2 DEF Typed
<1>14. Agreed(x)
  BY <1>3, <1>6 DEF Base, Agreed, DealtTo
<1>15. Handled(x)
  BY <1>2, <1>3, <1>5, <1>6, <1>7 DEF Handled, DealtTo
<1>16. Escrowed(x)
  <2>1. ASSUME NEW u \in Users PROVE x.held[u] = InEscrow(x, u)
    <3>1. w.held[u] = IF w.tb.currency = "beans" \/ u \notin DOMAIN w.tb.seats THEN 0
                      ELSE IF w.tb.game = "holdem" THEN w.tb.seats[u].stack ELSE 0
      BY DEF Base, Escrowed, InEscrow, Centre!InHand
    <3>2. Centre!InHand(x.tb, u) <=> u \in in
      BY <1>3, <1>5 DEF Centre!InHand, DealtTo
    <3>3. w.tb.currency \in {"points", "beans"} /\ w.tb.game \in {"zjh", "holdem", "board"}
      BY <1>1 DEF Typed
    <3>4. CASE u \in in
      BY <1>2, <1>3, <1>4, <1>6, <1>9, <3>1, <3>2, <3>3, <3>4 DEF InEscrow, DealtTo
    <3>5. CASE u \notin in
      BY <1>3, <1>6, <1>7, <3>1, <3>2, <3>3, <3>5 DEF InEscrow, DealtTo
    <3>6. QED
      BY <3>4, <3>5
  <2>2. QED
    BY <2>1 DEF Escrowed
<1>17. Manned(x)
  BY <1>2, <1>3, <1>6 DEF Manned, DealtTo
<1> Funded(x)
  <2>1. Funded(w) /\ w.pot = 0
    BY DEF Base, Funded, Staked
  <2>2. ASSUME w.tb.game = "zjh", w.tb.currency = "points" PROVE x.pot = Centre!Total(x.tb.hand.paid)
    <3>1. PICK o : o = Centre!Opening(w, in)
      OBVIOUS
    <3>2. DOMAIN o = in /\ \A u \in in : o[u] = 1
      BY <2>2, <3>1 DEF Centre!Opening
    <3>3. PICK p : p = x.tb.hand.paid
      OBVIOUS
    <3>4. DOMAIN p = in /\ \A u \in in : p[u] = 1
      BY <1>3, <1>9, <2>2, <3>3 DEF DealtTo
    <3>5. IsFiniteSet(in)
      BY <1>1, <1>2, FewSeats, FS_Subset
    <3>6. Sum(o, in) = Sum(p, in) /\ Sum(o, in) \in Int
      BY <3>2, <3>4, <3>5, SumSame, SumInt
    <3>7. x.pot = w.pot + Centre!Total(o)
      BY <1>3, <2>2, <3>1 DEF DealtTo
    <3>8. Centre!Total(o) = Sum(o, in) /\ Centre!Total(p) = Sum(p, in)
      BY <3>2, <3>4, TotalIs
    <3> QED
      BY <2>1, <3>3, <3>6, <3>7, <3>8
  <2>3. x.tb.game = w.tb.game /\ x.tb.currency = w.tb.currency
    BY <1>3 DEF DealtTo
  <2>4. ~(w.tb.game = "zjh" /\ w.tb.currency = "points") => x.pot = 0
    BY <1>3, <2>1 DEF DealtTo
  <2> QED
    BY <1>5, <1>6, <2>1, <2>2, <2>3, <2>4 DEF Funded, Staked
<1> w.tb.currency = "points" => Worth(x) = Worth(w)
  <2>1. ASSUME NEW u \in Users, w.tb.currency = "points" PROVE Share(x, u) = Share(w, u)
    <3>1. Put(w, u) = 0
      BY DEF Put, Centre!InHand
    <3>2. Put(x, u) = IF w.tb.game = "zjh" /\ u \in in THEN 1 ELSE 0
      BY <1>3, <1>5, <1>9 DEF DealtTo, Put, Centre!InHand
    <3>3. x.money[u] = IF w.tb.game = "holdem" \/ u \notin in THEN w.money[u] ELSE w.money[u] - Stake
      BY <1>3 DEF DealtTo
    <3>4. x.held[u] = IF w.tb.game # "holdem" /\ u \in in
                      THEN IF w.tb.game = "zjh" THEN w.held[u] + Stake - 1 ELSE w.held[u] + Stake
                      ELSE w.held[u]
      BY <1>3, <2>1 DEF DealtTo
    <3> QED
      BY <1>4, <1>8, <3>1, <3>2, <3>3, <3>4 DEF Share
  <2> QED
    BY <2>1, WorthSame
<1>18. \A t, c, R : Ours(w, t, c, R) => Ours(x, t, c, R)
  BY <1>3 DEF Ours, DealtTo
<1>19. x.tb.host = w.tb.host
  BY <1>3 DEF DealtTo
<1>20. Headed(x) /\ Ranked(x)
  BY <1>6, <1>7, <1>19 DEF Base, Headed, Ranked
<1>21. \A v : Hosted(w, v) => Hosted(x, v)
  BY <1>7, <1>19 DEF Base, Headed, Hosted
<1>22. QED
  BY <1>5, <1>13, <1>14, <1>15, <1>16, <1>17, <1>18, <1>20, <1>21 DEF Base, Calm

-----------------------------------------------------------------------------
(* The end of a hand with award a: everybody has what he had not put in and *)
(* what he has won, in his stack or in his wallet.                         *)
Paid(w, a, x) ==
  /\ IsWorld(x) /\ IsTable(x.tb) /\ x.id = w.id /\ x.rows = w.rows
  /\ x.tb.game = w.tb.game /\ x.tb.currency = w.tb.currency
  /\ x.tb.begun = w.tb.begun /\ x.tb.host = w.tb.host
  /\ x.tb.seats = [u \in DOMAIN w.tb.seats |-> x.tb.seats[u]]
  /\ \A u \in DOMAIN w.tb.seats :
       /\ IsSeat(x.tb.seats[u])
       /\ x.tb.seats[u].since = w.tb.seats[u].since /\ x.tb.seats[u].leaving = w.tb.seats[u].leaving
       /\ x.tb.seats[u].stack = IF w.tb.game = "holdem" /\ u \in DOMAIN a THEN Centre!Chips(w.tb.hand, u) + a[u]
                                ELSE w.tb.seats[u].stack
  /\ x.money = [u \in Users |-> IF w.tb.game # "holdem" /\ u \in DOMAIN a
                                THEN w.money[u] + (Centre!Chips(w.tb.hand, u) + a[u]) ELSE w.money[u]]
  /\ x.held = [u \in Users |-> IF w.tb.currency = "points" /\ u \in DOMAIN a
                               THEN IF w.tb.game = "holdem" THEN Centre!Chips(w.tb.hand, u) + a[u] ELSE 0
                               ELSE w.held[u]]
  /\ x.pot = IF w.tb.game = "zjh" /\ w.tb.currency = "points" THEN w.pot - Centre!Total(a) ELSE w.pot

LEMMA SettledIs ==
  ASSUME TablesConstants, NEW w, Base(w), w.tb.hand # Null, NEW a \in [DOMAIN w.tb.hand.budget -> Nat],
         NEW x, x = Centre!Settled(w, a)
  PROVE  Paid(w, a, x) /\ x.tb.hand = w.tb.hand
<1> DEFINE in == DOMAIN a
           after == [u \in in |-> Centre!Chips(w.tb.hand, u) + a[u]]
           shifted == [w EXCEPT !.held = [u \in Users |->
                  IF Centre!InPoints(w) /\ u \in in THEN @[u] + a[u] - w.tb.hand.paid[u] ELSE @[u]]]
           zjh == Centre!Release(w, in, after)
<1>1. Typed(w) /\ IsWorld(w) /\ IsTable(w.tb)
  BY DEF Base, Typed
<1>2. in = DOMAIN w.tb.hand.budget
  OBVIOUS
<1>3. \A u \in Users : w.money[u] \in Nat /\ w.held[u] \in Nat
  BY <1>1 DEF Typed
<1>4. \A u \in in : a[u] \in Nat /\ w.tb.hand.budget[u] \in Nat /\ w.tb.hand.paid[u] \in Nat
  BY <1>1, <1>2 DEF Typed, HandTyped
<1>5. \A u \in in : after[u] = w.tb.hand.budget[u] - w.tb.hand.paid[u] + a[u] /\ after[u] = Centre!Chips(w.tb.hand, u) + a[u]
  BY <1>2 DEF Centre!Chips
<1>6. \A u \in Users : Centre!Of(after, u) = IF u \in in THEN after[u] ELSE 0
  BY DEF Centre!Of
<1>7. /\ IsWorld(shifted) /\ shifted.id = w.id /\ shifted.tb = w.tb /\ shifted.money = w.money /\ shifted.pot = w.pot
      /\ shifted.rows = w.rows
      /\ shifted.held = [u \in Users |-> IF w.tb.currency = "points" /\ u \in in
                                         THEN w.held[u] + a[u] - w.tb.hand.paid[u] ELSE w.held[u]]
  BY <1>1 DEF IsWorld, Centre!InPoints
<1>8. /\ IsWorld(zjh) /\ zjh.id = w.id /\ zjh.tb = w.tb /\ zjh.rows = w.rows /\ zjh.pot = w.pot
      /\ zjh.money = [u \in Users |-> w.money[u] + IF u \notin in THEN 0
                         ELSE IF w.tb.currency = "points" THEN w.held[u] ELSE Centre!Of(after, u)]
      /\ zjh.held = [u \in Users |-> IF w.tb.currency = "points" /\ u \in in THEN 0 ELSE w.held[u]]
  <2> HIDE DEF after
  <2>1. QED
    BY <1>1, ReleaseIs
<1>9. \A u \in Users : w.held[u] = InEscrow(w, u)
  BY DEF Base, Escrowed
<1>10. \A u \in in : u \in DOMAIN w.tb.seats /\ Centre!InHand(w.tb, u)
  BY <1>2 DEF Base, Handled, Centre!InHand
<1>11. \A u \in in : u \in Users /\ w.tb.currency = "points" =>
          w.held[u] = IF w.tb.game = "zjh" THEN w.tb.hand.budget[u] - w.tb.hand.paid[u] ELSE w.tb.hand.budget[u]
  BY <1>9, <1>10 DEF InEscrow
<1>12. w.tb.currency \in {"points", "beans"} /\ w.tb.game \in {"zjh", "holdem", "board"}
  BY <1>1 DEF Typed
<1>13. /\ w.tb.seats = [u \in DOMAIN w.tb.seats |-> w.tb.seats[u]]
       /\ \A u \in DOMAIN w.tb.seats : IsSeat(w.tb.seats[u]) /\ w.tb.seats[u].stack \in Nat
  BY <1>1 DEF Typed
<1>14. x = CASE w.tb.game = "zjh" ->
                  IF Centre!InPoints(w)
                  THEN [zjh EXCEPT !.money = [u \in Users |-> @[u] + Centre!Of(a, u)], !.pot = @ - Centre!Total(a)]
                  ELSE zjh
             [] w.tb.game = "board" -> Centre!Release(shifted, in, after)
             [] OTHER -> [shifted EXCEPT !.tb.seats = [u \in DOMAIN @ |->
                            IF u \in in THEN [@[u] EXCEPT !.stack = after[u]] ELSE @[u]]]
  BY DEF Centre!Settled
<1> HIDE DEF after, shifted, zjh
<1>15. \A u \in Users : Centre!Of(a, u) = IF u \in in THEN a[u] ELSE 0
  BY DEF Centre!Of
<1>16. CASE w.tb.game = "zjh" /\ w.tb.currency = "points"
  <2>1. x = [zjh EXCEPT !.money = [u \in Users |-> @[u] + Centre!Of(a, u)], !.pot = @ - Centre!Total(a)]
    BY <1>14, <1>16 DEF Centre!InPoints
  <2>2. /\ IsWorld(x) /\ x.id = w.id /\ x.tb = w.tb /\ x.rows = w.rows /\ x.held = zjh.held
        /\ x.money = [u \in Users |-> zjh.money[u] + Centre!Of(a, u)] /\ x.pot = w.pot - Centre!Total(a)
    BY <1>8, <2>1 DEF IsWorld
  <2>3. ASSUME NEW u \in Users
        PROVE  x.money[u] = IF u \in in THEN w.money[u] + (Centre!Chips(w.tb.hand, u) + a[u]) ELSE w.money[u]
    BY <1>3, <1>4, <1>5, <1>8, <1>11, <1>15, <1>16, <2>2
  <2>4. x.money = [u \in Users |-> IF u \in in THEN w.money[u] + (Centre!Chips(w.tb.hand, u) + a[u]) ELSE w.money[u]]
    BY <2>2, <2>3
  <2>5. QED
    BY <1>1, <1>8, <1>13, <1>16, <2>2, <2>4 DEF Paid
<1>17. CASE w.tb.game = "zjh" /\ w.tb.currency = "beans"
  <2>1. x = zjh
    BY <1>14, <1>17 DEF Centre!InPoints
  <2>2. ASSUME NEW u \in Users
        PROVE  x.money[u] = IF u \in in THEN w.money[u] + (Centre!Chips(w.tb.hand, u) + a[u]) ELSE w.money[u]
    BY <1>3, <1>4, <1>5, <1>6, <1>8, <1>17, <2>1
  <2>3. x.money = [u \in Users |-> IF u \in in THEN w.money[u] + (Centre!Chips(w.tb.hand, u) + a[u]) ELSE w.money[u]]
    BY <1>8, <2>1, <2>2
  <2>4. QED
    BY <1>1, <1>8, <1>13, <1>17, <2>1, <2>3 DEF Paid
<1>18. CASE w.tb.game = "board"
  <2>1. x = Centre!Release(shifted, in, after)
    BY <1>14, <1>18
  <2>2. /\ IsWorld(x) /\ x.id = w.id /\ x.tb = w.tb /\ x.rows = w.rows /\ x.pot = w.pot
        /\ x.money = [u \in Users |-> w.money[u] + IF u \notin in THEN 0
                         ELSE IF w.tb.currency = "points" THEN shifted.held[u] ELSE Centre!Of(after, u)]
        /\ x.held = [u \in Users |-> IF w.tb.currency = "points" /\ u \in in THEN 0 ELSE shifted.held[u]]
    BY <1>7, <2>1, ReleaseIs
  <2>3. ASSUME NEW u \in Users
        PROVE  x.money[u] = IF u \in in THEN w.money[u] + (Centre!Chips(w.tb.hand, u) + a[u]) ELSE w.money[u]
    <3>1. CASE u \notin in
      BY <1>3, <2>2, <3>1
    <3>2. CASE u \in in /\ w.tb.currency = "points"
      BY <1>3, <1>4, <1>5, <1>7, <1>11, <1>18, <2>2, <3>2
    <3>3. CASE u \in in /\ w.tb.currency # "points"
      BY <1>3, <1>4, <1>5, <1>6, <2>2, <3>3
    <3>4. QED
      BY <3>1, <3>2, <3>3
  <2>4. x.money = [u \in Users |-> IF u \in in THEN w.money[u] + (Centre!Chips(w.tb.hand, u) + a[u]) ELSE w.money[u]]
    BY <2>2, <2>3
  <2>5. x.held = [u \in Users |-> IF w.tb.currency = "points" /\ u \in in THEN 0 ELSE w.held[u]]
    BY <1>7, <2>2
  <2>6. QED
    BY <1>1, <1>13, <1>18, <2>2, <2>4, <2>5 DEF Paid
<1>19. CASE w.tb.game = "holdem"
  <2>1. PICK s : s = [u \in DOMAIN w.tb.seats |->
                        IF u \in in THEN [w.tb.seats[u] EXCEPT !.stack = after[u]] ELSE w.tb.seats[u]]
    OBVIOUS
  <2>2. x = [shifted EXCEPT !.tb.seats = [u \in DOMAIN @ |->
                            IF u \in in THEN [@[u] EXCEPT !.stack = after[u]] ELSE @[u]]]
    BY <1>14, <1>19
  <2>3. x = [shifted EXCEPT !.tb = [shifted.tb EXCEPT !.seats = s]]
    BY <1>7, <2>1, <2>2
  <2>4. /\ IsWorld(x) /\ IsTable(x.tb) /\ x.id = w.id /\ x.rows = w.rows /\ x.money = w.money
        /\ x.held = shifted.held /\ x.pot = w.pot /\ x.tb.game = w.tb.game /\ x.tb.currency = w.tb.currency
        /\ x.tb.begun = w.tb.begun /\ x.tb.hand = w.tb.hand /\ x.tb.seats = s /\ x.tb.host = w.tb.host
    BY <1>1, <1>7, <2>3 DEF IsWorld, IsTable
  <2>5. ASSUME NEW u \in DOMAIN w.tb.seats
        PROVE  /\ IsSeat(s[u]) /\ s[u].since = w.tb.seats[u].since /\ s[u].leaving = w.tb.seats[u].leaving
               /\ s[u].stack = IF u \in in THEN Centre!Chips(w.tb.hand, u) + a[u] ELSE w.tb.seats[u].stack
    <3>1. PICK b : b = w.tb.seats[u]
      OBVIOUS
    <3>2. IsSeat(b)
      BY <1>13, <3>1
    <3>3. s[u] = IF u \in in THEN [b EXCEPT !.stack = after[u]] ELSE b
      BY <2>1, <3>1
    <3>4. QED
      BY <1>5, <3>1, <3>2, <3>3 DEF IsSeat
  <2>6. ASSUME NEW u \in Users
        PROVE  shifted.held[u] = IF w.tb.currency = "points" /\ u \in in THEN Centre!Chips(w.tb.hand, u) + a[u] ELSE w.held[u]
    BY <1>3, <1>4, <1>5, <1>7, <1>11, <1>19
  <2>7. shifted.held = [u \in Users |-> IF w.tb.currency = "points" /\ u \in in THEN Centre!Chips(w.tb.hand, u) + a[u] ELSE w.held[u]]
    BY <1>7, <2>6
  <2>8. w.money = [u \in Users |-> w.money[u]]
    BY <1>1 DEF Typed
  <2>9. /\ x.tb.seats = [u \in DOMAIN w.tb.seats |-> x.tb.seats[u]]
        /\ \A u \in DOMAIN w.tb.seats :
             /\ IsSeat(x.tb.seats[u])
             /\ x.tb.seats[u].since = w.tb.seats[u].since /\ x.tb.seats[u].leaving = w.tb.seats[u].leaving
             /\ x.tb.seats[u].stack = IF w.tb.game = "holdem" /\ u \in DOMAIN a THEN Centre!Chips(w.tb.hand, u) + a[u]
                                      ELSE w.tb.seats[u].stack
    BY <1>19, <2>1, <2>4, <2>5, ZenonT(40)
  <2>10. /\ x.money = [u \in Users |-> IF w.tb.game # "holdem" /\ u \in DOMAIN a
                                THEN w.money[u] + (Centre!Chips(w.tb.hand, u) + a[u]) ELSE w.money[u]]
         /\ x.held = [u \in Users |-> IF w.tb.currency = "points" /\ u \in DOMAIN a
                               THEN IF w.tb.game = "holdem" THEN Centre!Chips(w.tb.hand, u) + a[u] ELSE 0
                               ELSE w.held[u]]
    BY <1>19, <2>4, <2>7, <2>8
  <2>11. x.pot = IF w.tb.game = "zjh" /\ w.tb.currency = "points" THEN w.pot - Centre!Total(a) ELSE w.pot
    BY <1>19, <2>4
  <2>12. QED
    BY <2>4, <2>9, <2>10, <2>11, Zenon DEF Paid
<1>20. QED
  BY <1>12, <1>16, <1>17, <1>18, <1>19

Over(x, y) ==
  /\ IsWorld(y) /\ IsTable(y.tb) /\ y.id = x.id /\ y.rows = x.rows /\ y.money = x.money /\ y.held = x.held /\ y.pot = x.pot
  /\ y.tb.game = x.tb.game /\ y.tb.currency = x.tb.currency /\ y.tb.begun = x.tb.begun
  /\ y.tb.phase = "waiting" /\ y.tb.hand = Null /\ y.tb.host = x.tb.host
  /\ y.tb.seats = [u \in DOMAIN x.tb.seats |-> y.tb.seats[u]]
  /\ \A u \in DOMAIN x.tb.seats :
       /\ IsSeat(y.tb.seats[u]) /\ y.tb.seats[u].stack = x.tb.seats[u].stack
       /\ y.tb.seats[u].since = x.tb.seats[u].since /\ y.tb.seats[u].leaving = x.tb.seats[u].leaving

LEMMA CountedIs ==
  ASSUME NEW x, IsWorld(x), IsTable(x.tb), \A u \in DOMAIN x.tb.seats : IsSeat(x.tb.seats[u]),
         NEW y, y = [x EXCEPT !.tb = Centre!Counted(x.tb)]
  PROVE  Over(x, y)
<1>1. PICK s : s = [u \in DOMAIN x.tb.seats |->
                      IF Centre!InHand(x.tb, u) /\ x.tb.seats[u].auto /\ u # Robot
                      THEN [x.tb.seats[u] EXCEPT !.hands = x.tb.seats[u].hands + 1] ELSE x.tb.seats[u]]
  OBVIOUS
<1>2. PICK v : v = [x.tb EXCEPT !.phase = "waiting", !.hand = Null, !.idle = TRUE, !.countdown = FALSE, !.seats = s]
  OBVIOUS
<1>3. /\ IsWorld(y) /\ IsTable(y.tb) /\ y.id = x.id /\ y.rows = x.rows /\ y.money = x.money /\ y.held = x.held /\ y.pot = x.pot
      /\ y.tb.game = x.tb.game /\ y.tb.currency = x.tb.currency /\ y.tb.begun = x.tb.begun
      /\ y.tb.phase = "waiting" /\ y.tb.hand = Null /\ y.tb.seats = s /\ y.tb.host = x.tb.host
  <2>1. Centre!Counted(x.tb) = v
    BY <1>1, <1>2, Zenon DEF Centre!Counted
  <2>2. y = [x EXCEPT !.tb = v]
    BY <2>1
  <2>3. /\ IsTable(v) /\ v.game = x.tb.game /\ v.currency = x.tb.currency /\ v.begun = x.tb.begun
        /\ v.phase = "waiting" /\ v.hand = Null /\ v.seats = s /\ v.host = x.tb.host
    BY <1>2 DEF IsTable
  <2>4. QED
    BY <2>2, <2>3 DEF IsWorld
<1>4. ASSUME NEW u \in DOMAIN x.tb.seats
      PROVE  /\ IsSeat(s[u]) /\ s[u].stack = x.tb.seats[u].stack
             /\ s[u].since = x.tb.seats[u].since /\ s[u].leaving = x.tb.seats[u].leaving
  <2>1. PICK b : b = x.tb.seats[u]
    OBVIOUS
  <2>2. s[u] = b \/ s[u] = [b EXCEPT !.hands = b.hands + 1]
    BY <1>1, <2>1
  <2>3. IsSeat(b)
    BY <2>1
  <2>4. QED
    BY <2>1, <2>2, <2>3 DEF IsSeat
<1>5. QED
  BY <1>1, <1>3, <1>4 DEF Over

Ended(w, y) ==
  /\ Base(y) /\ Manned(y) /\ y.tb.hand = Null /\ y.tb.begun = TRUE /\ y.tb.game = w.tb.game
  /\ \A t, c, R : Ours(w, t, c, R) => Ours(y, t, c, R)

LEMMA AwardIs ==
  ASSUME NEW h, NEW a \in Centre!Awards(h)
  PROVE  a \in [DOMAIN h.budget -> Nat] /\ Centre!Total(a) = Centre!Total(h.paid)
<1>1. \A T : 0 .. T \subseteq Nat
  OBVIOUS
<1>2. a \in [DOMAIN h.budget -> 0 .. Centre!Total(h.paid)] /\ Centre!Total(a) = Centre!Total(h.paid)
  BY Zenon DEF Centre!Awards
<1>3. QED
  BY <1>1, <1>2

(* The players of a hand get back together what they brought to it.        *)
Shared(w, a, y) ==
  /\ y.tb.hand = Null
  /\ \A u \in Users : y.money[u] = IF w.tb.game # "holdem" /\ u \in DOMAIN a
                                   THEN w.money[u] + (Centre!Chips(w.tb.hand, u) + a[u]) ELSE w.money[u]
  /\ \A u \in Users : y.held[u] = IF u \in DOMAIN a
                                  THEN IF w.tb.game = "holdem" THEN Centre!Chips(w.tb.hand, u) + a[u] ELSE 0
                                  ELSE w.held[u]

LEMMA AwardWorth ==
  ASSUME TablesConstants, NEW w, Base(w), w.tb.hand # Null, w.tb.currency = "points",
         NEW a \in Centre!Awards(w.tb.hand), NEW y, Shared(w, a, y)
  PROVE  Worth(y) = Worth(w)
<1> IsFiniteSet(Users)
  BY FewUsers
<1>1. PICK paid : paid = w.tb.hand.paid
  OBVIOUS
<1>2. PICK budget : budget = w.tb.hand.budget
  OBVIOUS
<1>3. /\ a \in [DOMAIN budget -> Nat] /\ paid \in [DOMAIN budget -> Nat] /\ budget \in [DOMAIN budget -> Nat]
      /\ Centre!Total(a) = Centre!Total(paid)
  BY <1>1, <1>2, AwardIs DEF Base, Typed, HandTyped
<1>4. DOMAIN budget \subseteq DOMAIN w.tb.seats /\ DOMAIN budget \subseteq Users
  BY <1>2 DEF Base, Handled, Funded, Typed
<1>5. w.tb.game \in {"zjh", "holdem", "board"}
  BY DEF Base, Typed
<1>6. \A u : Centre!InHand(w.tb, u) <=> u \in DOMAIN budget
  BY <1>2 DEF Centre!InHand
<1>7. ASSUME NEW u \in Users
      PROVE  /\ Share(w, u) \in Int /\ Share(y, u) \in Int
             /\ Centre!Of(paid, u) \in Int /\ Centre!Of(a, u) \in Int
             /\ Share(y, u) + Centre!Of(paid, u) = Share(w, u) + Centre!Of(a, u)
  <2>1. w.money[u] \in Nat /\ w.held[u] \in Nat /\ w.held[u] = InEscrow(w, u)
    BY DEF Base, Typed, Escrowed
  <2>2. Share(y, u) = y.money[u] + y.held[u] + 0
    BY DEF Share, Put, Centre!InHand, Shared
  <2>3. CASE u \in DOMAIN budget
    <3>1. a[u] \in Nat /\ paid[u] \in Nat /\ budget[u] \in Nat
      BY <1>3, <2>3
    <3>2. Centre!Of(paid, u) = paid[u] /\ Centre!Of(a, u) = a[u]
      BY <1>3, <2>3 DEF Centre!Of
    <3>3. Centre!Chips(w.tb.hand, u) = budget[u] - paid[u]
      BY <1>1, <1>2 DEF Centre!Chips
    <3>4. /\ w.held[u] = IF w.tb.game = "zjh" THEN budget[u] - paid[u] ELSE budget[u]
          /\ Put(w, u) = IF w.tb.game = "zjh" THEN paid[u] ELSE 0
      BY <1>1, <1>2, <1>4, <1>6, <2>1, <2>3 DEF InEscrow, Put
    <3>5. u \in DOMAIN a
      BY <1>3, <2>3
    <3>6. /\ y.money[u] = IF w.tb.game # "holdem" THEN w.money[u] + (budget[u] - paid[u] + a[u]) ELSE w.money[u]
          /\ y.held[u] = IF w.tb.game = "holdem" THEN budget[u] - paid[u] + a[u] ELSE 0
      BY <3>3, <3>5 DEF Shared
    <3>7. Share(w, u) = w.money[u] + w.held[u] + Put(w, u)
      BY DEF Share
    <3> QED
      BY <2>1, <2>2, <3>1, <3>2, <3>4, <3>6, <3>7
  <2>4. CASE u \notin DOMAIN budget
    <3>1. Centre!Of(paid, u) = 0 /\ Centre!Of(a, u) = 0 /\ u \notin DOMAIN a
      BY <1>3, <2>4 DEF Centre!Of
    <3>2. Share(w, u) = w.money[u] + w.held[u] + 0
      BY <1>6, <2>4 DEF Share, Put
    <3>3. y.money[u] = w.money[u] /\ y.held[u] = w.held[u]
      BY <3>1 DEF Shared
    <3> QED
      BY <2>1, <2>2, <3>1, <3>2, <3>3
  <2> QED
    BY <2>3, <2>4
<1>8. PICK p : p = [u \in Users |-> Centre!Of(paid, u)]
  OBVIOUS
<1>9. PICK q : q = [u \in Users |-> Centre!Of(a, u)]
  OBVIOUS
<1>10. PICK f : f = [u \in Users |-> Share(w, u)]
  OBVIOUS
<1>11. PICK g : g = [u \in Users |-> Share(y, u)]
  OBVIOUS
<1>12. PICK m : m = [u \in Users |-> Share(w, u) + Centre!Of(a, u)]
  OBVIOUS
<1>13. \A u \in Users : /\ f[u] \in Int /\ g[u] \in Int /\ p[u] \in Int /\ q[u] \in Int
                        /\ m[u] = f[u] + q[u] /\ m[u] = g[u] + p[u]
  BY <1>7, <1>8, <1>9, <1>10, <1>11, <1>12
<1>14. Sum(m, Users) = Sum(f, Users) + Sum(q, Users)
  BY <1>13, SumPlus
<1>15. Sum(m, Users) = Sum(g, Users) + Sum(p, Users)
  BY <1>13, SumPlus
<1>16. Sum(p, Users) = Centre!Total(paid)
  BY <1>3, <1>4, <1>8, Spread
<1>17. Sum(q, Users) = Centre!Total(a)
  BY <1>3, <1>4, <1>9, Spread
<1>18. Sum(f, Users) \in Int /\ Sum(g, Users) \in Int /\ Sum(p, Users) \in Int
  BY <1>13, SumInt
<1>19. Sum(f, Users) = Sum(g, Users)
  BY <1>3, <1>14, <1>15, <1>16, <1>17, <1>18
<1> QED
  BY <1>10, <1>11, <1>19 DEF Worth

LEMMA EndKeeps ==
  ASSUME TablesConstants, NEW w, Base(w), w.tb.hand # Null, NEW a \in Centre!Awards(w.tb.hand),
         NEW x, x = Centre!Settled(w, a), NEW y, y = [x EXCEPT !.tb = Centre!Counted(x.tb)]
  PROVE  Ended(w, y)
<1>1. Paid(w, a, x) /\ DOMAIN a = DOMAIN w.tb.hand.budget
  <2>1. a \in [DOMAIN w.tb.hand.budget -> Nat]
    BY AwardIs
  <2> QED
    BY <2>1, SettledIs
<1>2. DOMAIN x.tb.seats = DOMAIN w.tb.seats
  BY <1>1 DEF Paid
<1>3. /\ IsWorld(y) /\ IsTable(y.tb) /\ y.id = w.id /\ y.rows = w.rows /\ y.money = x.money /\ y.held = x.held /\ y.pot = x.pot
      /\ y.tb.game = w.tb.game /\ y.tb.currency = w.tb.currency /\ y.tb.begun = w.tb.begun
      /\ y.tb.phase = "waiting" /\ y.tb.hand = Null /\ y.tb.host = w.tb.host
      /\ y.tb.seats = [u \in DOMAIN w.tb.seats |-> y.tb.seats[u]]
      /\ \A u \in DOMAIN w.tb.seats :
           /\ IsSeat(y.tb.seats[u]) /\ y.tb.seats[u].stack = x.tb.seats[u].stack
           /\ y.tb.seats[u].since = w.tb.seats[u].since /\ y.tb.seats[u].leaving = w.tb.seats[u].leaving
  <2>1. Over(x, y)
    BY <1>1, <1>2, CountedIs DEF Paid
  <2>2. \A u \in DOMAIN w.tb.seats :
           /\ IsSeat(y.tb.seats[u]) /\ y.tb.seats[u].stack = x.tb.seats[u].stack
           /\ y.tb.seats[u].since = w.tb.seats[u].since /\ y.tb.seats[u].leaving = w.tb.seats[u].leaving
    <3>1. \A u \in DOMAIN w.tb.seats :
           /\ IsSeat(y.tb.seats[u]) /\ y.tb.seats[u].stack = x.tb.seats[u].stack
           /\ y.tb.seats[u].since = x.tb.seats[u].since /\ y.tb.seats[u].leaving = x.tb.seats[u].leaving
      BY <1>2, <2>1 DEF Over
    <3>2. \A u \in DOMAIN w.tb.seats :
           x.tb.seats[u].since = w.tb.seats[u].since /\ x.tb.seats[u].leaving = w.tb.seats[u].leaving
      BY <1>1 DEF Paid
    <3>3. QED
      BY <3>1, <3>2
  <2>3. y.tb.seats = [u \in DOMAIN w.tb.seats |-> y.tb.seats[u]]
    BY <1>2, <2>1 DEF Over
  <2>4. QED
    BY <1>1, <2>1, <2>2, <2>3 DEF Paid, Over
<1>4. Typed(w) /\ HandTyped(w.tb.hand)
  BY DEF Base, Typed
<1>5. \A u \in DOMAIN a : Centre!Chips(w.tb.hand, u) + a[u] \in Nat
  BY <1>1, <1>4, AwardIs DEF HandTyped, Centre!Chips
<1>6. y.money \in [Users -> Nat]
  <2>1. ASSUME NEW u \in Users PROVE y.money[u] \in Nat
    <3>1. w.money[u] \in Nat
      BY <1>4 DEF Typed
    <3>2. y.money[u] = IF w.tb.game # "holdem" /\ u \in DOMAIN a
                       THEN w.money[u] + (Centre!Chips(w.tb.hand, u) + a[u]) ELSE w.money[u]
      BY <1>1, <1>3 DEF Paid
    <3>3. QED
      BY <1>5, <3>1, <3>2
  <2>2. y.money = [u \in Users |-> y.money[u]]
    BY <1>1, <1>3 DEF Paid
  <2>3. QED
    BY <2>1, <2>2
<1>7. \A u \in Users : y.held[u] = IF w.tb.currency = "points" /\ u \in DOMAIN a
                               THEN IF w.tb.game = "holdem" THEN Centre!Chips(w.tb.hand, u) + a[u] ELSE 0
                               ELSE w.held[u]
  BY <1>1, <1>3 DEF Paid
<1>8. y.held \in [Users -> Nat]
  <2>1. ASSUME NEW u \in Users PROVE y.held[u] \in Nat
    BY <1>4, <1>5, <1>7 DEF Typed
  <2>2. y.held = [u \in Users |-> y.held[u]]
    BY <1>1, <1>3 DEF Paid
  <2>3. QED
    BY <2>1, <2>2
<1>9. \A u \in DOMAIN w.tb.seats :
        y.tb.seats[u].stack = IF w.tb.game = "holdem" /\ u \in DOMAIN a THEN Centre!Chips(w.tb.hand, u) + a[u]
                              ELSE w.tb.seats[u].stack
  <2>1. ASSUME NEW u \in DOMAIN w.tb.seats
        PROVE  y.tb.seats[u].stack = IF w.tb.game = "holdem" /\ u \in DOMAIN a THEN Centre!Chips(w.tb.hand, u) + a[u]
                                     ELSE w.tb.seats[u].stack
    <3>1. y.tb.seats[u].stack = x.tb.seats[u].stack
      BY <1>3
    <3>2. x.tb.seats[u].stack = IF w.tb.game = "holdem" /\ u \in DOMAIN a THEN Centre!Chips(w.tb.hand, u) + a[u]
                                ELSE w.tb.seats[u].stack
      BY <1>1 DEF Paid
    <3>3. QED
      BY <3>1, <3>2
  <2>2. QED
    BY <2>1
<1>10. DOMAIN y.tb.seats = DOMAIN w.tb.seats
  BY <1>3
<1>11. Typed(y)
  <2>1. \A u \in DOMAIN y.tb.seats : IsSeat(y.tb.seats[u]) /\ y.tb.seats[u].stack \in Nat
    BY <1>3, <1>4, <1>5, <1>9, <1>10 DEF Typed
  <2>2. QED
    BY <1>3, <1>4, <1>6, <1>8, <1>10, <2>1 DEF Typed
<1>12. Agreed(y)
  BY <1>3, <1>10 DEF Base, Agreed
<1>13. Handled(y)
  BY <1>3 DEF Handled
<1>14. Escrowed(y)
  <2>1. ASSUME NEW u \in Users PROVE y.held[u] = InEscrow(y, u)
    <3>1. w.held[u] = InEscrow(w, u)
      BY DEF Base, Escrowed
    <3>2. Centre!InHand(w.tb, u) <=> u \in DOMAIN a
      BY <1>1 DEF Centre!InHand
    <3>3. u \in DOMAIN a => u \in DOMAIN w.tb.seats
      BY <1>1 DEF Base, Handled
    <3>4. ~Centre!InHand(y.tb, u)
      BY <1>3 DEF Centre!InHand
    <3>5. w.tb.currency \in {"points", "beans"}
      BY <1>4 DEF Typed
    <3>6. InEscrow(y, u) = IF w.tb.currency = "beans" \/ u \notin DOMAIN w.tb.seats THEN 0
                           ELSE IF w.tb.game = "holdem" THEN y.tb.seats[u].stack ELSE 0
      BY <1>3, <1>10, <3>4 DEF InEscrow
    <3>7. CASE u \in DOMAIN a
      <4>1. CASE w.tb.currency = "beans"
        BY <1>7, <3>1, <3>6, <4>1 DEF InEscrow
      <4>2. CASE w.tb.currency = "points"
        BY <1>7, <1>9, <3>3, <3>6, <3>7, <4>2
      <4>3. QED
        BY <3>5, <4>1, <4>2
    <3>8. CASE u \notin DOMAIN a
      BY <1>7, <1>9, <3>1, <3>2, <3>6, <3>8 DEF InEscrow
    <3>9. QED
      BY <3>7, <3>8
  <2>2. QED
    BY <2>1 DEF Escrowed
<1>15. Manned(y)
  BY <1>1, <1>3, <1>10 DEF Base, Handled, Manned
<1>16. y.tb.begun = TRUE
  BY <1>3 DEF Base, Handled
<1>17. \A t, c, R : Ours(w, t, c, R) => Ours(y, t, c, R)
  <2>1. ASSUME w.tb.currency = "points" PROVE Worth(y) = Worth(w)
    <3>1. \A u \in Users : y.money[u] = IF w.tb.game # "holdem" /\ u \in DOMAIN a
                                        THEN w.money[u] + (Centre!Chips(w.tb.hand, u) + a[u]) ELSE w.money[u]
      BY <1>1, <1>3 DEF Paid
    <3>2. \A u \in Users : y.held[u] = IF u \in DOMAIN a
                                       THEN IF w.tb.game = "holdem" THEN Centre!Chips(w.tb.hand, u) + a[u] ELSE 0
                                       ELSE w.held[u]
      BY <1>7, <2>1
    <3>3. y.tb.hand = Null
      BY <1>3
    <3>4. Shared(w, a, y)
      BY <3>1, <3>2, <3>3 DEF Shared
    <3> QED
      BY <2>1, <3>4, AwardWorth
  <2> QED
    BY <1>3, <2>1 DEF Ours
<1>18. Headed(y) /\ Ranked(y)
  BY <1>3, <1>10 DEF Base, Headed, Ranked
<1>19. Funded(y)
  <2>1. w.pot = Staked(w) /\ y.pot = IF w.tb.game = "zjh" /\ w.tb.currency = "points" THEN w.pot - Centre!Total(a) ELSE w.pot
    BY <1>1, <1>3 DEF Paid, Base, Funded
  <2>2. CASE w.tb.game = "zjh" /\ w.tb.currency = "points"
    <3>1. PICK f : f = w.tb.hand.paid
      OBVIOUS
    <3>2. w.pot = Sum(f, DOMAIN f) /\ Centre!Total(a) = Sum(f, DOMAIN f)
      BY <2>1, <2>2, <3>1, AwardIs, TotalIs DEF Staked
    <3>3. (\A u \in DOMAIN f : f[u] \in Int) /\ DOMAIN f \subseteq DOMAIN w.tb.seats
      BY <1>4, <3>1 DEF HandTyped, Base, Handled
    <3>4. IsFiniteSet(DOMAIN f)
      BY <1>4, <3>3, FewSeats, FS_Subset
    <3>5. Sum(f, DOMAIN f) \in Int
      BY <3>3, <3>4, SumInt
    <3>6. y.pot = 0
      BY <2>1, <2>2, <3>2, <3>5
    <3> QED
      BY <1>3, <1>10, <3>6 DEF Base, Funded, Staked
  <2>3. CASE ~(w.tb.game = "zjh" /\ w.tb.currency = "points")
    BY <1>3, <1>10, <2>1, <2>3 DEF Base, Funded, Staked
  <2> QED
    BY <2>2, <2>3
<1>20. QED
  BY <1>3, <1>11, <1>12, <1>13, <1>14, <1>15, <1>16, <1>17, <1>18, <1>19 DEF Base, Ended

-----------------------------------------------------------------------------
Timed(w, p, x) ==
  /\ IsWorld(x) /\ IsTable(x.tb)
  /\ x.id = w.id /\ x.money = w.money /\ x.rows = w.rows /\ x.held = w.held /\ x.pot = w.pot
  /\ x.tb.game = w.tb.game /\ x.tb.currency = w.tb.currency /\ x.tb.phase = p
  /\ x.tb.begun = w.tb.begun /\ x.tb.hand = w.tb.hand /\ x.tb.seats = w.tb.seats /\ x.tb.host = w.tb.host

LEMMA TimersIs ==
  ASSUME NEW w, IsWorld(w), IsTable(w.tb), NEW p, NEW b, NEW i,
         NEW x, x = [w EXCEPT !.tb.phase = p, !.tb.countdown = b, !.tb.idle = i]
  PROVE  Timed(w, p, x)
<1>1. PICK v : v = [w.tb EXCEPT !.phase = p, !.countdown = b, !.idle = i]
  OBVIOUS
<1>2. x = [w EXCEPT !.tb = v]
  BY <1>1 DEF IsWorld, IsTable
<1>3. /\ IsTable(v) /\ v.game = w.tb.game /\ v.currency = w.tb.currency /\ v.phase = p
      /\ v.begun = w.tb.begun /\ v.hand = w.tb.hand /\ v.seats = w.tb.seats /\ v.host = w.tb.host
  BY <1>1 DEF IsTable
<1>4. QED
  BY <1>2, <1>3 DEF IsWorld, Timed

(* Between hands only marks are set, or a hand is dealt that was not dealt  *)
(* at this table before.                                                   *)
LEMMA ScheduleIs ==
  ASSUME NEW w, Typed(w), NEW x, x = Centre!Schedule(w)
  PROVE  \/ Alike(w, x) /\ Stays(w, x)
         \/ /\ x = Centre!Dealt(w, Centre!Eligible(w, FALSE)) /\ ~Centre!TooFew(w, Centre!Eligible(w, FALSE))
            /\ ~w.tb.begun /\ w.tb.phase \in {"waiting", "between"}
<1>1. /\ IsWorld(w) /\ IsTable(w.tb) /\ w.tb.seats = [u \in DOMAIN w.tb.seats |-> w.tb.seats[u]]
      /\ \A u \in DOMAIN w.tb.seats : IsSeat(w.tb.seats[u]) /\ w.tb.seats[u].stack \in Nat
  BY DEF Typed
<1>2. CASE x = w
  BY <1>1, <1>2 DEF Alike, Kin, SameMoney, Stays
<1>3. CASE /\ w.tb.phase \in {"waiting", "between"}
           /\ \/ x = [w EXCEPT !.tb.phase = "waiting", !.tb.countdown = FALSE, !.tb.idle = TRUE]
              \/ x = [w EXCEPT !.tb.phase = "between", !.tb.countdown = TRUE, !.tb.idle = FALSE]
  <2>1. /\ IsWorld(x) /\ IsTable(x.tb)
        /\ x.id = w.id /\ x.money = w.money /\ x.rows = w.rows /\ x.held = w.held /\ x.pot = w.pot
        /\ x.tb.game = w.tb.game /\ x.tb.currency = w.tb.currency /\ x.tb.phase \in {"waiting", "between"}
        /\ x.tb.begun = w.tb.begun /\ x.tb.hand = w.tb.hand /\ x.tb.seats = w.tb.seats /\ x.tb.host = w.tb.host
    <3>1. CASE x = [w EXCEPT !.tb.phase = "waiting", !.tb.countdown = FALSE, !.tb.idle = TRUE]
      <4>1. Timed(w, "waiting", x)
        BY <1>1, <3>1, TimersIs, Zenon
      <4>2. QED
        BY <4>1 DEF Timed
    <3>2. CASE x = [w EXCEPT !.tb.phase = "between", !.tb.countdown = TRUE, !.tb.idle = FALSE]
      <4>1. Timed(w, "between", x)
        BY <1>1, <3>2, TimersIs, Zenon
      <4>2. QED
        BY <4>1 DEF Timed
    <3>3. QED
      BY <1>3, <3>1, <3>2
  <2>2. QED
    BY <1>1, <1>3, <2>1 DEF Alike, Kin, SameMoney, Stays
<1>4. \/ x = w
      \/ /\ w.tb.phase \in {"waiting", "between"}
         /\ \/ x = [w EXCEPT !.tb.phase = "waiting", !.tb.countdown = FALSE, !.tb.idle = TRUE]
            \/ x = [w EXCEPT !.tb.phase = "between", !.tb.countdown = TRUE, !.tb.idle = FALSE]
      \/ /\ w.tb.game = "holdem" /\ w.tb.phase \in {"waiting", "between"}
         /\ ~(Centre!Cardinality(Centre!Eligible(w, FALSE)) < 2) /\ ~w.tb.begun /\ x = Centre!Dealt(w, Centre!Eligible(w, FALSE))
  BY Zenon DEF Centre!Schedule
<1>5. QED
  BY <1>2, <1>3, <1>4 DEF Centre!TooFew

LEMMA ReadyAlike ==
  ASSUME NEW w, Typed(w), NEW x, x = Centre!ReadyAgain(w)
  PROVE  Alike(w, x) /\ Stays(w, x)
<1>1. PICK s : s = [u \in DOMAIN w.tb.seats |->
                      [w.tb.seats[u] EXCEPT !.ready = (w.tb.seats[u].auto \/ u = Robot) /\ Centre!CanFund(w, u)]]
  OBVIOUS
<1>2. PICK v : v = [w.tb EXCEPT !.seats = s]
  OBVIOUS
<1>3. x = [w EXCEPT !.tb = Centre!Countdown(v)]
  BY <1>1, <1>2, Zenon DEF Centre!ReadyAgain
<1>4. Centre!Countdown(v) = v \/ \E b : Centre!Countdown(v) = [v EXCEPT !.countdown = b]
  BY Zenon DEF Centre!Countdown
<1>5. /\ IsWorld(w) /\ IsTable(w.tb) /\ w.tb.seats = [u \in DOMAIN w.tb.seats |-> w.tb.seats[u]]
      /\ \A u \in DOMAIN w.tb.seats : IsSeat(w.tb.seats[u]) /\ w.tb.seats[u].stack \in Nat
  BY DEF Typed
<1>6. /\ IsTable(v) /\ v.game = w.tb.game /\ v.currency = w.tb.currency /\ v.phase = w.tb.phase
      /\ v.begun = w.tb.begun /\ v.hand = w.tb.hand /\ v.seats = s /\ v.host = w.tb.host
  BY <1>2, <1>5 DEF IsTable
<1>7. PICK z : z = Centre!Countdown(v)
  OBVIOUS
<1>8. /\ IsTable(z) /\ z.game = w.tb.game /\ z.currency = w.tb.currency /\ z.phase = w.tb.phase
      /\ z.begun = w.tb.begun /\ z.hand = w.tb.hand /\ z.seats = s /\ z.host = w.tb.host
  BY <1>4, <1>6, <1>7 DEF IsTable
<1>9. /\ IsWorld(x) /\ IsTable(x.tb)
      /\ x.id = w.id /\ x.money = w.money /\ x.rows = w.rows /\ x.held = w.held /\ x.pot = w.pot
      /\ x.tb.game = w.tb.game /\ x.tb.currency = w.tb.currency /\ x.tb.phase = w.tb.phase
      /\ x.tb.begun = w.tb.begun /\ x.tb.hand = w.tb.hand /\ x.tb.seats = s /\ x.tb.host = w.tb.host
  BY <1>3, <1>5, <1>7, <1>8 DEF IsWorld
<1>10. ASSUME NEW u \in DOMAIN w.tb.seats
       PROVE  /\ IsSeat(s[u]) /\ s[u].stack = w.tb.seats[u].stack /\ s[u].away = w.tb.seats[u].away
              /\ s[u].leaving = w.tb.seats[u].leaving /\ s[u].since = w.tb.seats[u].since
  <2>1. PICK b : b = w.tb.seats[u]
    OBVIOUS
  <2>2. PICK r : s[u] = [b EXCEPT !.ready = r]
    BY <1>1, <2>1
  <2>3. IsSeat(b)
    BY <1>5, <2>1
  <2>4. QED
    BY <2>1, <2>2, <2>3 DEF IsSeat
<1>11. s = [u \in DOMAIN w.tb.seats |-> s[u]]
  BY <1>1
<1>12. Alike(w, x)
  BY <1>5, <1>9, <1>10, <1>11 DEF Alike, Kin, SameMoney
<1>13. Stays(w, x)
  BY <1>9, <1>10 DEF Stays
<1>14. QED
  BY <1>12, <1>13

LEMMA AwayAlike ==
  ASSUME TablesConstants, NEW w, Typed(w), w.tb.hand = Null,
         NEW x, x = [w EXCEPT !.tb.seats = [u \in DOMAIN @ |-> Centre!AwayAfter(@[u], u)]]
  PROVE  Alike(w, x) /\ Stays(w, x)
<1>1. PICK s : s = [u \in DOMAIN w.tb.seats |-> Centre!AwayAfter(w.tb.seats[u], u)]
  OBVIOUS
<1>2. x = [w EXCEPT !.tb.seats = s]
  BY <1>1
<1>3. /\ IsWorld(w) /\ IsTable(w.tb) /\ w.tb.seats = [u \in DOMAIN w.tb.seats |-> w.tb.seats[u]]
      /\ \A u \in DOMAIN w.tb.seats : IsSeat(w.tb.seats[u]) /\ w.tb.seats[u].stack \in Nat
  BY DEF Typed
<1>4. /\ IsWorld(x) /\ IsTable(x.tb)
      /\ x.id = w.id /\ x.money = w.money /\ x.rows = w.rows /\ x.held = w.held /\ x.pot = w.pot
      /\ x.tb.game = w.tb.game /\ x.tb.currency = w.tb.currency /\ x.tb.phase = w.tb.phase
      /\ x.tb.begun = w.tb.begun /\ x.tb.hand = w.tb.hand /\ x.tb.seats = s /\ x.tb.host = w.tb.host
  BY <1>2, <1>3 DEF IsWorld, IsTable
<1>5. ASSUME NEW u \in DOMAIN w.tb.seats
      PROVE  /\ IsSeat(s[u]) /\ s[u].stack \in Nat /\ (u # Robot => s[u].stack = w.tb.seats[u].stack)
             /\ s[u].leaving = w.tb.seats[u].leaving /\ s[u].since = w.tb.seats[u].since
  <2>1. PICK b : b = w.tb.seats[u]
    OBVIOUS
  <2>2. IsSeat(b) /\ b.stack \in Nat
    BY <1>3, <2>1
  <2>3. /\ s[u] = Centre!AwayAfter(b, u)
        /\ u = Robot => \E n \in {Stake, b.stack} : s[u] = [b EXCEPT !.stack = n]
        /\ u # Robot => s[u] = b \/ s[u] = [b EXCEPT !.away = "timed"]
    BY <1>1, <2>1 DEF Centre!AwayAfter
  <2>4. Stake \in Nat
    BY DEF TablesConstants, Centre!TablesAssumption
  <2>5. QED
    BY <2>1, <2>2, <2>3, <2>4 DEF IsSeat
<1>6. s = [u \in DOMAIN w.tb.seats |-> s[u]]
  BY <1>1
<1>7. Alike(w, x)
  <2>1. \A u : ~Centre!InHand(w.tb, u)
    BY DEF Centre!InHand
  <2>2. Kin(w, x) /\ SameMoney(w, x) /\ x.tb.seats = [u \in DOMAIN w.tb.seats |-> x.tb.seats[u]]
    BY <1>4, <1>6 DEF Kin, SameMoney
  <2>3. \A u \in DOMAIN w.tb.seats :
           /\ IsSeat(x.tb.seats[u]) /\ x.tb.seats[u].stack \in Nat
           /\ u # Robot => x.tb.seats[u].stack = w.tb.seats[u].stack
           /\ x.tb.seats[u].since = w.tb.seats[u].since /\ (w.tb.seats[u].leaving => x.tb.seats[u].leaving)
    BY <1>4, <1>5
  <2>4. QED
    BY <1>4, <2>1, <2>2, <2>3, Zenon DEF Alike
<1>8. Stays(w, x)
  BY <1>4, <1>5 DEF Stays
<1>9. QED
  BY <1>7, <1>8

(* A hand that is over leaves a table in order, with a seat for all who     *)
(* stay and for nobody else.                                               *)
LEMMA CloseKeeps ==
  ASSUME TablesConstants, NEW w, Base(w), w.tb.hand # Null, NEW a \in Centre!Awards(w.tb.hand),
         NEW x \in Centre!Close(w, a), NEW t, NEW c, NEW R, Ours(w, t, c, R)
  PROVE  Good(x, t, c, R) /\ x.tb.hand = Null /\ x.tb.game = w.tb.game
<1>1. PICK v \in {Centre!Settled(w, a)} : x \in
        UNION {{IF w.tb.game = "holdem" THEN Centre!KeptOn(z) ELSE Centre!ReadyAgain(z) : z \in {Centre!Vacate(y, Centre!Leavers(y.tb))}} :
               y \in {[v EXCEPT !.tb = Centre!Counted(@)]}}
  BY Zenon DEF Centre!Close
<1>2. PICK y \in {[v EXCEPT !.tb = Centre!Counted(@)]} :
        x \in {IF w.tb.game = "holdem" THEN Centre!KeptOn(z) ELSE Centre!ReadyAgain(z) : z \in {Centre!Vacate(y, Centre!Leavers(y.tb))}}
  BY <1>1, Zenon
<1>3. PICK z \in {Centre!Vacate(y, Centre!Leavers(y.tb))} : x = IF w.tb.game = "holdem" THEN Centre!KeptOn(z) ELSE Centre!ReadyAgain(z)
  BY <1>2, Zenon
<1>4. x = IF w.tb.game = "holdem" THEN Centre!KeptOn(z) ELSE Centre!ReadyAgain(z)
  BY <1>3
<1>5. /\ Base(y) /\ Manned(y) /\ y.tb.hand = Null /\ y.tb.begun = TRUE /\ y.tb.game = w.tb.game
      /\ Ours(y, t, c, R)
  <2>1. v = Centre!Settled(w, a)
    BY <1>1
  <2>2. y = [v EXCEPT !.tb = Centre!Counted(v.tb)]
    BY <1>2
  <2>3. Ended(w, y)
    BY <2>1, <2>2, EndKeeps, Zenon
  <2>4. QED
    BY <2>3 DEF Ended
<1>6. PICK S : S = Centre!Leavers(y.tb)
  OBVIOUS
<1>7. /\ S \subseteq DOMAIN y.tb.seats /\ S \subseteq Users
      /\ \A u \in DOMAIN y.tb.seats \ (S \cup {Robot}) : ~y.tb.seats[u].leaving
  BY <1>5, <1>6 DEF Centre!Leavers, Centre!Humans, Centre!Seated, Base, Typed
<1>8. \A u \in S : ~Centre!InHand(y.tb, u)
  BY <1>5 DEF Centre!InHand
<1>9. /\ Base(z) /\ Manned(z) /\ z.tb.hand = Null /\ z.tb.begun = TRUE /\ z.tb.game = w.tb.game
      /\ Calm(z) /\ Turned(z) /\ Hosted(z, R.but) /\ Ours(z, t, c, R)
  BY <1>3, <1>5, <1>6, <1>7, <1>8, VacateKeeps DEF Turned
<1>10. Typed(z)
  BY <1>9 DEF Base
<1>11. CASE w.tb.game # "holdem"
  <2>1. Alike(z, x) /\ Stays(z, x)
    BY <1>4, <1>10, <1>11, ReadyAlike
  <2>2. QED
    BY <1>9, <2>1, AlikeKeeps DEF Good, Alike, Kin
<1>12. CASE w.tb.game = "holdem"
  <2>1. PICK k : k = [z EXCEPT !.tb.seats = [u \in DOMAIN @ |-> Centre!AwayAfter(@[u], u)]]
    OBVIOUS
  <2>2. x = Centre!Schedule(k)
    BY <1>4, <1>12, <2>1 DEF Centre!KeptOn
  <2>3. Alike(z, k) /\ Stays(z, k)
    BY <1>9, <1>10, <2>1, AwayAlike
  <2>4. /\ Base(k) /\ Manned(k) /\ Calm(k) /\ Turned(k) /\ Hosted(k, R.but) /\ Ours(k, t, c, R) /\ Typed(k)
        /\ k.tb.hand = Null /\ k.tb.begun = TRUE /\ k.tb.game = w.tb.game
    BY <1>9, <2>3, AlikeKeeps DEF Alike, Kin, Base
  <2>5. Alike(k, x) /\ Stays(k, x)
    BY <2>2, <2>4, ScheduleIs
  <2>6. QED
    BY <2>4, <2>5, AlikeKeeps DEF Good, Alike, Kin
<1>13. QED
  BY <1>11, <1>12

LEMMA AwardedKeeps ==
  ASSUME TablesConstants, NEW w, Base(w), w.tb.hand # Null, NEW t, NEW c, NEW R, Ours(w, t, c, R),
         NEW x \in Centre!Awarded(w)
  PROVE  Good(x, t, c, R)
<1>1. PICK a \in Centre!Awards(w.tb.hand) : x \in Centre!Close(w, a)
  BY DEF Centre!Awarded, Centre!BoardAwards
<1>2. QED
  BY <1>1, CloseKeeps

LEMMA CurKeeps ==
  ASSUME TablesConstants, NEW w, Base(w), Manned(w), w.tb.hand # Null, NEW t, NEW c, NEW R, Ours(w, t, c, R),
         Hosted(w, R.but),
         NEW u \in w.tb.hand.live, NEW x,
         x = [w EXCEPT !.tb.hand.cur = u] \/ x = [w EXCEPT !.tb.hand.cur = u, !.tb.first = u]
  PROVE  Good(x, t, c, R)
<1>1. Played(w, x) /\ Turned(x)
  BY CurPlayed
<1>2. QED
  BY <1>1, PlayedKeeps DEF Good

LEMMA ActorsLive == ASSUME NEW w PROVE Centre!NextActors(w) \subseteq w.tb.hand.live
BY DEF Centre!NextActors

LEMMA OutcomesKeep ==
  ASSUME TablesConstants, NEW w, Base(w), Manned(w), w.tb.hand # Null, NEW t, NEW c, NEW R, Ours(w, t, c, R),
         Hosted(w, R.but),
         NEW x \in Centre!Outcomes(w)
  PROVE  Good(x, t, c, R)
<1>1. CASE x \in Centre!Awarded(w)
  BY <1>1, AwardedKeeps
<1>2. CASE \E u \in Centre!NextActors(w) : x = [w EXCEPT !.tb.hand.cur = u]
  BY <1>2, ActorsLive, CurKeeps
<1>3. QED
  BY <1>1, <1>2 DEF Centre!Outcomes

LEMMA OpenedKeeps ==
  ASSUME TablesConstants, NEW w, Base(w), Manned(w), w.tb.hand # Null, NEW t, NEW c, NEW R, Ours(w, t, c, R),
         Hosted(w, R.but),
         NEW x \in Centre!Opened(w)
  PROVE  Good(x, t, c, R)
<1>1. CASE x \in Centre!Awarded(w)
  BY <1>1, AwardedKeeps
<1>2. CASE \E u \in Centre!NextActors(w) : x = [w EXCEPT !.tb.hand.cur = u, !.tb.first = u]
  BY <1>2, ActorsLive, CurKeeps
<1>3. QED
  BY <1>1, <1>2 DEF Centre!Opened

LEMMA AlikeGood ==
  ASSUME TablesConstants, NEW w, NEW x, Alike(w, x), Stays(w, x), NEW t, NEW c, NEW R, Good(w, t, c, R)
  PROVE  Good(x, t, c, R)
BY AlikeKeeps DEF Good

LEMMA DealtGood ==
  ASSUME TablesConstants, NEW w, NEW t, NEW c, NEW R, Good(w, t, c, R), w.tb.phase \in {"waiting", "between"},
         NEW m, ~Centre!TooFew(w, Centre!Eligible(w, m)), NEW y, y = Centre!Dealt(w, Centre!Eligible(w, m))
  PROVE  /\ y.tb.hand # Null
         /\ \A x \in Centre!Opened(y) : Good(x, t, c, R)
<1>1. w.tb.hand = Null /\ w.tb.phase # "closed"
  BY DEF Good, Base, Handled
<1>2. /\ Base(y) /\ Manned(y) /\ y.tb.hand # Null /\ Hosted(y, R.but) /\ Ours(y, t, c, R)
  BY <1>1, DealtKeeps DEF Good
<1>3. QED
  BY <1>2, OpenedKeeps

LEMMA RefusedAlike ==
  ASSUME NEW w, Typed(w), w.tb.phase \in {"waiting", "between"}, NEW in, NEW x, x = Centre!NotStarted(w, in)
  PROVE  Alike(w, x) /\ Stays(w, x)
<1>1. /\ IsWorld(w) /\ IsTable(w.tb) /\ w.tb.seats = [u \in DOMAIN w.tb.seats |-> w.tb.seats[u]]
      /\ \A u \in DOMAIN w.tb.seats : IsSeat(w.tb.seats[u]) /\ w.tb.seats[u].stack \in Nat
  BY DEF Typed
<1>2. CASE w.tb.game = "holdem"
  <2>1. x = [w EXCEPT !.tb.phase = "waiting", !.tb.countdown = FALSE, !.tb.idle = TRUE]
    BY <1>2 DEF Centre!NotStarted
  <2>2. Timed(w, "waiting", x)
    BY <1>1, <2>1, TimersIs, Zenon
  <2>3. QED
    BY <1>1, <2>2 DEF Timed, Alike, Kin, SameMoney, Stays
<1>3. CASE w.tb.game # "holdem"
  <2>1. PICK s : s = [u \in DOMAIN w.tb.seats |->
                        IF w.tb.game = "holdem" \/ u \in in THEN w.tb.seats[u] ELSE [w.tb.seats[u] EXCEPT !.ready = FALSE]]
    OBVIOUS
  <2>2. x = [w EXCEPT !.tb.countdown = FALSE, !.tb.seats = s]
    BY <1>1, <1>3, <2>1 DEF Centre!NotStarted, Centre!Refused, IsWorld, IsTable
  <2>3. PICK v : v = [w.tb EXCEPT !.countdown = FALSE, !.seats = s]
    OBVIOUS
  <2>4. x = [w EXCEPT !.tb = v]
    BY <1>1, <2>2, <2>3 DEF IsWorld, IsTable
  <2>5. /\ IsTable(v) /\ v.game = w.tb.game /\ v.currency = w.tb.currency /\ v.phase = w.tb.phase
        /\ v.begun = w.tb.begun /\ v.hand = w.tb.hand /\ v.seats = s /\ v.host = w.tb.host
    BY <1>1, <2>3 DEF IsTable
  <2>6. /\ IsWorld(x) /\ IsTable(x.tb)
        /\ x.id = w.id /\ x.money = w.money /\ x.rows = w.rows /\ x.held = w.held /\ x.pot = w.pot
        /\ x.tb.game = w.tb.game /\ x.tb.currency = w.tb.currency /\ x.tb.phase = w.tb.phase
        /\ x.tb.begun = w.tb.begun /\ x.tb.hand = w.tb.hand /\ x.tb.seats = s /\ x.tb.host = w.tb.host
    BY <1>1, <2>4, <2>5 DEF IsWorld
  <2>7. ASSUME NEW u \in DOMAIN w.tb.seats
        PROVE  /\ IsSeat(s[u]) /\ s[u].stack = w.tb.seats[u].stack /\ s[u].away = w.tb.seats[u].away
               /\ s[u].leaving = w.tb.seats[u].leaving /\ s[u].since = w.tb.seats[u].since
    <3>1. PICK b : b = w.tb.seats[u]
      OBVIOUS
    <3>2. s[u] = b \/ s[u] = [b EXCEPT !.ready = FALSE]
      BY <2>1, <3>1
    <3>3. IsSeat(b)
      BY <1>1, <3>1
    <3>4. QED
      BY <3>1, <3>2, <3>3 DEF IsSeat
  <2>8. s = [u \in DOMAIN w.tb.seats |-> s[u]]
    BY <2>1
  <2>9. Alike(w, x)
    BY <1>1, <2>6, <2>7, <2>8 DEF Alike, Kin, SameMoney
  <2>10. Stays(w, x)
    BY <2>6, <2>7 DEF Stays
  <2>11. QED
    BY <2>9, <2>10
<1>4. QED
  BY <1>2, <1>3

LEMMA StartedGood ==
  ASSUME TablesConstants, NEW w, NEW t, NEW c, NEW R, Good(w, t, c, R), w.tb.phase \in {"waiting", "between"},
         NEW m, NEW x \in Centre!Started(w, m)
  PROVE  Good(x, t, c, R)
<1>1. PICK in : in = Centre!Eligible(w, m)
  OBVIOUS
<1>2. CASE ~Centre!TooFew(w, in)
  <2>1. PICK y : y = Centre!Dealt(w, in)
    OBVIOUS
  <2>2. x \in Centre!Opened(y)
    BY <1>1, <1>2, <2>1 DEF Centre!Started
  <2>3. QED
    BY <1>1, <1>2, <2>1, <2>2, DealtGood
<1>3. CASE Centre!TooFew(w, in)
  <2>1. x = Centre!NotStarted(w, in)
    BY <1>1, <1>3 DEF Centre!Started
  <2>2. Typed(w)
    BY DEF Good, Base
  <2>3. QED
    BY <2>1, <2>2, RefusedAlike, AlikeGood
<1>4. QED
  BY <1>2, <1>3

LEMMA ScheduledGood ==
  ASSUME TablesConstants, NEW w, NEW t, NEW c, NEW R, Good(w, t, c, R), NEW x \in Centre!Scheduled(w)
  PROVE  Good(x, t, c, R)
<1>1. PICK y : y = Centre!Schedule(w)
  OBVIOUS
<1>2. x \in IF y.tb.hand # Null /\ w.tb.hand = Null THEN Centre!Opened(y) ELSE {y}
  BY <1>1, Zenon DEF Centre!Scheduled
<1>3. Typed(w) /\ (w.tb.phase = "playing" <=> w.tb.hand # Null)
  BY DEF Good, Base, Handled
<1>4. CASE Alike(w, y) /\ Stays(w, y)
  <2>1. x = y
    BY <1>2, <1>4 DEF Alike
  <2>2. QED
    BY <1>4, <2>1, AlikeGood
<1>5. CASE /\ y = Centre!Dealt(w, Centre!Eligible(w, FALSE)) /\ ~Centre!TooFew(w, Centre!Eligible(w, FALSE))
           /\ w.tb.phase \in {"waiting", "between"}
  <2>1. y.tb.hand # Null /\ w.tb.hand = Null
    BY <1>3, <1>5, DealtGood
  <2>2. QED
    BY <1>2, <1>5, <2>1, DealtGood
<1>6. QED
  BY <1>1, <1>3, <1>4, <1>5, ScheduleIs

-----------------------------------------------------------------------------
(* The requests and the deadlines, one by one.                             *)
LEMMA MovedGood ==
  ASSUME TablesConstants, NEW w, Base(w), Manned(w), w.tb.hand # Null, NEW t, NEW c, NEW R, Ours(w, t, c, R),
         Hosted(w, R.but),
         NEW u \in DOMAIN w.tb.hand.budget, NEW x \in Centre!Moved(w, u)
  PROVE  Good(x, t, c, R)
<1>1. PICK next : next = [w EXCEPT !.tb.hand.turn = @ + 1]
  OBVIOUS
<1>2. Played(w, next) /\ next.tb.hand.paid = w.tb.hand.paid
  BY <1>1, TurnPlayed
<1>3. /\ Base(next) /\ next.tb.hand # Null /\ Manned(next) /\ Hosted(next, R.but) /\ Ours(next, t, c, R)
      /\ next.tb.hand.budget = w.tb.hand.budget
  BY <1>2, PlayedKeeps DEF Played
<1>4. PICK y : /\ x \in Centre!Outcomes(y)
               /\ \/ y = next
                  \/ \E n \in 0 .. Centre!Chips(w.tb.hand, u) : y = Centre!Consume(next, Centre!Only(u, n))
                  \/ \E v : y = [next EXCEPT !.tb.hand.live = @ \ {v}]
  <2>1. x \in UNION {Centre!Outcomes(y) : y \in
            (IF w.tb.game = "board" THEN {next} ELSE {Centre!Consume(next, Centre!Only(u, n)) : n \in 0 .. Centre!Chips(w.tb.hand, u)})
            \cup (IF w.tb.game = "board" \/ Centre!Cardinality(w.tb.hand.live) < 2 THEN {}
                  ELSE {[next EXCEPT !.tb.hand.live = @ \ {u}]})
            \cup (IF w.tb.game # "zjh" THEN {}
                  ELSE {[next EXCEPT !.tb.hand.live = @ \ {v}] : v \in w.tb.hand.live \ {u}})}
    <3> DEFINE N == [w EXCEPT !.tb.hand.turn = @ + 1]
    <3>1. x \in UNION {Centre!Outcomes(y) : y \in
            (IF w.tb.game = "board" THEN {N} ELSE {Centre!Consume(N, Centre!Only(u, n)) : n \in 0 .. Centre!Chips(w.tb.hand, u)})
            \cup (IF w.tb.game = "board" \/ Centre!Cardinality(w.tb.hand.live) < 2 THEN {}
                  ELSE {[N EXCEPT !.tb.hand.live = @ \ {u}]})
            \cup (IF w.tb.game # "zjh" THEN {}
                  ELSE {[N EXCEPT !.tb.hand.live = @ \ {v}] : v \in w.tb.hand.live \ {u}})}
      BY Zenon DEF Centre!Moved
    <3> HIDE DEF N
    <3>2. N = next
      BY <1>1 DEF N
    <3>3. QED
      BY <3>1, <3>2
  <2>2. QED
    BY <2>1
<1>5. CASE y = next
  BY <1>3, <1>4, <1>5, OutcomesKeep
<1>6. CASE Played(next, y)
  <2>1. Base(y) /\ y.tb.hand # Null /\ Manned(y) /\ Hosted(y, R.but) /\ Ours(y, t, c, R)
    BY <1>3, <1>6, PlayedKeeps
  <2>2. QED
    BY <1>4, <2>1, OutcomesKeep
<1>7. CASE \E n \in 0 .. Centre!Chips(w.tb.hand, u) : y = Centre!Consume(next, Centre!Only(u, n))
  <2>1. PICK n \in 0 .. Centre!Chips(w.tb.hand, u) : y = Centre!Consume(next, Centre!Only(u, n))
    BY <1>7
  <2>2. Centre!Chips(next.tb.hand, u) = Centre!Chips(w.tb.hand, u)
    BY <1>2, <1>3 DEF Centre!Chips
  <2>3. Played(next, y)
    BY <1>3, <2>1, <2>2, ConsumePlayed
  <2>4. QED
    BY <1>6, <2>3
<1>8. CASE \E v : y = [next EXCEPT !.tb.hand.live = @ \ {v}]
  BY <1>3, <1>6, <1>8, OutPlayed
<1>9. QED
  BY <1>4, <1>5, <1>7, <1>8

(* A member sits down, at a table that may still be without anybody.       *)
SatDown(w, u, n, k, x) ==
  /\ IsWorld(x) /\ IsTable(x.tb) /\ x.id = w.id /\ x.tb.game = w.tb.game /\ x.tb.currency = w.tb.currency
  /\ x.tb.hand = w.tb.hand /\ x.tb.begun = w.tb.begun /\ x.tb.phase = w.tb.phase
  /\ x.tb.seats = [v \in DOMAIN w.tb.seats \cup {u} |-> IF v = u THEN Centre!NewSeat(n, k) ELSE w.tb.seats[v]]
  /\ x.tb.host = (IF w.tb.host = Null THEN u ELSE w.tb.host)
  /\ x.rows = [w.rows EXCEPT ![u] = w.id]
  /\ x.money = [v \in Users |-> IF v = u THEN w.money[v] - n ELSE w.money[v]]
  /\ x.held = [v \in Users |-> IF v = u /\ w.tb.currency = "points" THEN w.held[v] + n ELSE w.held[v]]
  /\ x.pot = w.pot

LEMMA SeatedIs ==
  ASSUME NEW w, Typed(w), NEW u \in Users, NEW n \in Nat, NEW k, NEW hold, hold.tb = w.tb, hold.rows = w.rows, hold.id = w.id, hold.pot = w.pot,
         IsWorld(hold), hold.money = [v \in Users |-> IF v = u THEN w.money[v] - n ELSE w.money[v]],
         hold.held = [v \in Users |-> IF v = u /\ w.tb.currency = "points" THEN w.held[v] + n ELSE w.held[v]],
         NEW h, h = (IF w.tb.host = Null THEN u ELSE w.tb.host), NEW b,
         NEW x, x = [hold EXCEPT !.tb.seats = [v \in DOMAIN @ \cup {u} |-> IF v = u THEN Centre!NewSeat(n, k) ELSE @[v]],
                                 !.tb.countdown = b, !.tb.host = h, !.rows[u] = w.id]
  PROVE  SatDown(w, u, n, k, x)
<1>1. IsTable(w.tb) /\ IsTable(hold.tb)
  BY DEF Typed
<1>2. PICK s : s = [v \in DOMAIN w.tb.seats \cup {u} |-> IF v = u THEN Centre!NewSeat(n, k) ELSE w.tb.seats[v]]
  OBVIOUS
<1>3. PICK v : v = [w.tb EXCEPT !.seats = s, !.countdown = b, !.host = h]
  OBVIOUS
<1>4. x = [hold EXCEPT !.tb = v, !.rows = [w.rows EXCEPT ![u] = w.id]]
  BY <1>1, <1>2, <1>3 DEF IsWorld, IsTable
<1>5. /\ IsTable(v) /\ v.game = w.tb.game /\ v.currency = w.tb.currency /\ v.phase = w.tb.phase
      /\ v.begun = w.tb.begun /\ v.hand = w.tb.hand /\ v.seats = s /\ v.host = h
  BY <1>1, <1>3 DEF IsTable
<1>6. /\ IsWorld(x) /\ x.id = w.id /\ x.tb = v /\ x.rows = [w.rows EXCEPT ![u] = w.id]
      /\ x.money = hold.money /\ x.held = hold.held /\ x.pot = hold.pot
  BY <1>4 DEF IsWorld
<1>7. QED
  BY <1>2, <1>5, <1>6 DEF SatDown

LEMMA JoinedIs ==
  ASSUME TablesConstants, NEW w, Typed(w), NEW u \in Users, NEW x \in Centre!Joined(w, u)
  PROVE  \E n \in Nat : SatDown(w, u, n, Centre!Clock(w.tb), x) /\ n <= w.money[u] /\ (w.tb.game # "holdem" => n = 0)
<1>1. Robot \notin Users /\ Stake \in Nat /\ BuyMax \in Nat
  BY DEF TablesConstants, Centre!TablesAssumption
<1>2. IsWorld(w) /\ \A v \in Users : w.money[v] \in Nat /\ w.held[v] \in Nat
  BY DEF Typed
<1>3. CASE w.tb.game = "holdem"
  <2>1. PICK n \in Centre!Amounts : /\ n <= Centre!Available(w, u)
            /\ x = [Centre!Reserve(w, Centre!Only(u, n)) EXCEPT
                   !.tb.seats = [v \in DOMAIN @ \cup {u} |-> IF v = u THEN Centre!NewSeat(n, Centre!Clock(w.tb)) ELSE @[v]],
                   !.tb.countdown = @,
                   !.tb.host = IF @ = Null THEN u ELSE @, !.rows[u] = w.id]
    <3>1. PICK n \in {m \in Centre!Amounts : m <= Centre!Available(w, u) /\ w.held[u] = 0} :
              x = [(IF w.tb.game = "holdem" THEN Centre!Reserve(w, Centre!Only(u, n)) ELSE w) EXCEPT
                   !.tb.seats = [v \in DOMAIN @ \cup {u} |-> IF v = u THEN Centre!NewSeat(n, Centre!Clock(w.tb)) ELSE @[v]],
                   !.tb.countdown = IF w.tb.game = "holdem" THEN @ ELSE FALSE,
                   !.tb.host = IF @ = Null THEN u ELSE @, !.rows[u] = w.id]
      BY <1>3, Zenon DEF Centre!Joined
    <3>2. QED
      BY <1>3, <3>1
  <2>2. n \in Nat /\ n <= w.money[u]
    BY <1>1, <2>1 DEF Centre!Amounts, Centre!Available
  <2>3. PICK b : b = Centre!Only(u, n)
    OBVIOUS
  <2>4. \A v : Centre!Of(b, v) = IF v = u THEN n ELSE 0
    BY <2>3 DEF Centre!Of, Centre!Only
  <2>5. PICK hold : hold = Centre!Reserve(w, b)
    OBVIOUS
  <2>6. /\ IsWorld(hold) /\ hold.id = w.id /\ hold.tb = w.tb /\ hold.rows = w.rows /\ hold.pot = w.pot
        /\ hold.money = [v \in Users |-> w.money[v] - Centre!Of(b, v)]
        /\ hold.held = [v \in Users |-> IF w.tb.currency = "points" THEN w.held[v] + Centre!Of(b, v) ELSE w.held[v]]
    BY <1>2, <2>5, ReserveIs
  <2>7. hold.money = [v \in Users |-> IF v = u THEN w.money[v] - n ELSE w.money[v]]
    BY <1>2, <2>2, <2>4, <2>6
  <2>8. hold.held = [v \in Users |-> IF v = u /\ w.tb.currency = "points" THEN w.held[v] + n ELSE w.held[v]]
    BY <1>2, <2>2, <2>4, <2>6
  <2>9. PICK k : k = Centre!Clock(w.tb)
    OBVIOUS
  <2>10. PICK h : h = IF hold.tb.host = Null THEN u ELSE hold.tb.host
    OBVIOUS
  <2>11. x = [hold EXCEPT !.tb.seats = [v \in DOMAIN @ \cup {u} |-> IF v = u THEN Centre!NewSeat(n, k) ELSE @[v]],
                         !.tb.countdown = hold.tb.countdown, !.tb.host = h, !.rows[u] = w.id]
    BY <2>1, <2>3, <2>5, <2>9, <2>10
  <2>12. SatDown(w, u, n, k, x)
    <3>1. h = (IF w.tb.host = Null THEN u ELSE w.tb.host)
      BY <2>6, <2>10
    <3>2. n \in Nat /\ hold.tb = w.tb /\ hold.rows = w.rows /\ hold.id = w.id /\ hold.pot = w.pot /\ IsWorld(hold)
      BY <2>2, <2>6
    <3>3. QED
      BY <2>7, <2>8, <2>11, <3>1, <3>2, SeatedIs, Zenon
  <2>13. QED
    BY <1>3, <2>2, <2>9, <2>12
<1>4. CASE w.tb.game # "holdem"
  <2>1. x = [w EXCEPT
                   !.tb.seats = [v \in DOMAIN @ \cup {u} |-> IF v = u THEN Centre!NewSeat(0, Centre!Clock(w.tb)) ELSE @[v]],
                   !.tb.countdown = FALSE,
                   !.tb.host = IF @ = Null THEN u ELSE @, !.rows[u] = w.id]
    BY <1>4 DEF Centre!Joined
  <2>2. PICK k : k = Centre!Clock(w.tb)
    OBVIOUS
  <2>3. PICK h : h = IF w.tb.host = Null THEN u ELSE w.tb.host
    OBVIOUS
  <2>4. x = [w EXCEPT !.tb.seats = [v \in DOMAIN @ \cup {u} |-> IF v = u THEN Centre!NewSeat(0, k) ELSE @[v]],
                      !.tb.countdown = FALSE, !.tb.host = h, !.rows[u] = w.id]
    BY <2>1, <2>2, <2>3
  <2>5. w.money = [v \in Users |-> IF v = u THEN w.money[v] - 0 ELSE w.money[v]]
    BY <1>2 DEF Typed
  <2>6. w.held = [v \in Users |-> IF v = u /\ w.tb.currency = "points" THEN w.held[v] + 0 ELSE w.held[v]]
    BY <1>2 DEF Typed
  <2>7. SatDown(w, u, 0, k, x)
    BY <1>2, <2>3, <2>4, <2>5, <2>6, SeatedIs, Zenon
  <2>8. 0 <= w.money[u]
    BY <1>2
  <2>9. QED
    BY <2>2, <2>7, <2>8
<1>5. QED
  BY <1>3, <1>4

LEMMA SatDownGood ==
  ASSUME TablesConstants, NEW w, Base(w), Calm(w), Turned(w), NEW t, NEW c, NEW R, Ours(w, t, c, R),
         Hosted(w, R.but),
         NEW u \in Users, u \notin DOMAIN w.tb.seats, w.rows[u] = Null, w.tb.phase # "closed",
         NEW n \in Nat, n <= w.money[u], w.tb.game # "holdem" => n = 0,
         NEW k, k = Centre!Clock(w.tb), NEW x, SatDown(w, u, n, k, x)
  PROVE  Good(x, t, c, R) /\ x.tb.hand = w.tb.hand
<1>1. Typed(w) /\ Robot \notin Users /\ Null \notin Tables
  BY DEF Base, TablesConstants, Centre!TablesAssumption
<1>2. DOMAIN x.tb.seats = DOMAIN w.tb.seats \cup {u}
  BY DEF SatDown
<1>3. \A v \in DOMAIN w.tb.seats : x.tb.seats[v] = w.tb.seats[v]
  BY DEF SatDown
<1>4. /\ IsSeat(x.tb.seats[u]) /\ x.tb.seats[u].stack = n /\ x.tb.seats[u].leaving = FALSE /\ x.tb.seats[u].away = "no"
      /\ x.tb.seats[u].since = k
  BY DEF SatDown, Centre!NewSeat, IsSeat
<1>5. \A v : Centre!InHand(x.tb, v) <=> Centre!InHand(w.tb, v)
  BY DEF SatDown, Centre!InHand
<1>6. ~Centre!InHand(w.tb, u)
  BY DEF Base, Handled, Centre!InHand
<1>7. \A v \in Users : w.money[v] \in Nat /\ w.held[v] \in Nat
  BY <1>1 DEF Typed
<1>8. x.money \in [Users -> Nat]
  BY <1>7 DEF SatDown
<1>9. x.held \in [Users -> Nat]
  BY <1>7 DEF SatDown
<1>10. Typed(x)
  <2>1. /\ IsWorld(x) /\ IsTable(x.tb) /\ x.id \in Tables
        /\ x.rows = [v \in Users |-> x.rows[v]] /\ x.tb.seats = [v \in DOMAIN x.tb.seats |-> x.tb.seats[v]]
        /\ x.tb.game \in {"zjh", "holdem", "board"} /\ x.tb.currency \in {"points", "beans"}
    BY <1>1 DEF SatDown, Typed
  <2>2. /\ DOMAIN x.tb.seats \subseteq Users \cup {Robot}
        /\ \A v \in DOMAIN x.tb.seats : IsSeat(x.tb.seats[v]) /\ x.tb.seats[v].stack \in Nat
    BY <1>1, <1>2, <1>3, <1>4 DEF Typed
  <2>3. x.tb.hand # Null => HandTyped(x.tb.hand)
    BY <1>1 DEF Typed, SatDown
  <2>4. QED
    BY <1>8, <1>9, <2>1, <2>2, <2>3 DEF Typed
<1>11. Agreed(x)
  <2>1. \A v \in Users : x.rows[v] = IF v = u THEN w.id ELSE w.rows[v]
    BY <1>1 DEF SatDown, Typed
  <2>2. QED
    BY <1>2, <2>1 DEF Base, Agreed, SatDown
<1>12. Handled(x)
  BY <1>2, <1>3 DEF Base, Handled, SatDown
<1>13. Escrowed(x)
  <2>1. ASSUME NEW v \in Users PROVE x.held[v] = InEscrow(x, v)
    <3>1. w.held[v] = InEscrow(w, v)
      BY DEF Base, Escrowed
    <3>2. x.held[v] = IF v = u /\ w.tb.currency = "points" THEN w.held[v] + n ELSE w.held[v]
      BY DEF SatDown
    <3>3. w.tb.currency \in {"points", "beans"}
      BY <1>1 DEF Typed
    <3>4. x.tb.game = w.tb.game /\ x.tb.currency = w.tb.currency /\ x.tb.hand = w.tb.hand
      BY DEF SatDown
    <3>5. CASE v = u
      <4>1. w.held[v] = 0
        BY <3>1, <3>5 DEF InEscrow
      <4>2. ~Centre!InHand(x.tb, v)
        BY <1>5, <1>6, <3>5
      <4>3. InEscrow(x, v) = IF w.tb.currency = "beans" THEN 0 ELSE IF w.tb.game = "holdem" THEN n ELSE 0
        BY <1>2, <1>4, <3>4, <3>5, <4>2 DEF InEscrow
      <4>4. QED
        BY <3>2, <3>3, <3>5, <4>1, <4>3
    <3>6. CASE v # u
      <4>1. InEscrow(x, v) = InEscrow(w, v)
        BY <1>2, <1>3, <1>5, <3>4, <3>6 DEF InEscrow
      <4>2. QED
        BY <3>1, <3>2, <3>6, <4>1
    <3>7. QED
      BY <3>5, <3>6
  <2>2. QED
    BY <2>1 DEF Escrowed
<1>14. Manned(x)
  BY <1>1, <1>2 DEF SatDown, Manned
<1> Funded(x)
  <2>1. x.pot = w.pot /\ x.tb.hand = w.tb.hand /\ x.tb.game = w.tb.game /\ x.tb.currency = w.tb.currency
    BY DEF SatDown
  <2> QED
    BY <1>1, <1>2, <2>1 DEF Base, Funded, Staked
<1> w.tb.currency = "points" => Worth(x) = Worth(w)
  <2>1. ASSUME NEW v \in Users, w.tb.currency = "points" PROVE Share(x, v) = Share(w, v)
    <3>1. Put(x, v) = Put(w, v) /\ Put(w, v) \in Nat
      BY <1>5, PutIs DEF SatDown, Put
    <3>2. x.money[v] + x.held[v] = w.money[v] + w.held[v]
      BY <1>7, <2>1 DEF SatDown
    <3> QED
      BY <3>1, <3>2 DEF Share
  <2> QED
    BY <2>1, WorthSame
<1>15. Calm(x) /\ Turned(x)
  BY <1>2, <1>3, <1>4 DEF Calm, Turned, SatDown
<1>16. Ours(x, t, c, R)
  <2>1. \A v \in Users : x.rows[v] = IF v = u THEN w.id ELSE w.rows[v]
    BY <1>1 DEF SatDown, Typed
  <2>2. R.rows[u] \in {t, Null}
    BY DEF Ours
  <2>3. QED
    BY <2>1, <2>2 DEF Ours, SatDown
<1>17. Headed(x) /\ Hosted(x, R.but)
  <2>1. u \in DOMAIN x.tb.seats \ {Robot} /\ u # Null /\ ~x.tb.seats[u].leaving
    BY <1>1, <1>2, <1>4 DEF TablesConstants, Centre!TablesAssumption
  <2>2. CASE w.tb.host = Null
    <3>1. x.tb.host = u
      BY <2>2 DEF SatDown
    <3>2. QED
      BY <2>1, <3>1 DEF Headed, Hosted
  <2>3. CASE w.tb.host # Null
    <3>1. x.tb.host = w.tb.host /\ w.tb.host \in DOMAIN w.tb.seats \ {Robot}
      BY <2>3 DEF SatDown, Base, Headed
    <3>2. QED
      BY <1>2, <1>3, <2>3, <3>1 DEF Headed, Hosted
  <2>4. QED
    BY <2>2, <2>3
<1>18. Ranked(x)
  <2>1. k \in Nat /\ \A v \in DOMAIN w.tb.seats \ {Robot} : w.tb.seats[v].since < k
    BY ClockIs
  <2>2. \A v \in DOMAIN w.tb.seats \ {Robot} : w.tb.seats[v].since \in Nat /\ w.tb.seats[v].since # k
    BY <2>1 DEF Base, Ranked
  <2>3. \A v \in DOMAIN x.tb.seats \ {Robot} : v = u \/ (v \in DOMAIN w.tb.seats \ {Robot} /\ x.tb.seats[v] = w.tb.seats[v])
    BY <1>2, <1>3
  <2>4. x.tb.seats[u].since = k /\ Ranked(w)
    BY <1>4 DEF Base
  <2>5. QED
    BY <2>1, <2>2, <2>3, <2>4 DEF Ranked
<1>19. QED
  BY <1>10, <1>11, <1>12, <1>13, <1>14, <1>15, <1>16, <1>17, <1>18 DEF Good, Base, SatDown

(* The robots of a practice table take their places.                       *)
LEMMA RobotGood ==
  ASSUME TablesConstants, NEW w, NEW t, NEW c, NEW R, Good(w, t, c, R), w.tb.hand = Null,
         NEW x, x = Centre!WithRobot(w)
  PROVE  Good(x, t, c, R)
<1>1. Typed(w) /\ IsWorld(w) /\ IsTable(w.tb) /\ Robot \notin Users /\ Stake \in Nat
  BY DEF Good, Base, Typed, TablesConstants, Centre!TablesAssumption
<1>2. CASE w.tb.currency = "points"
  BY <1>2 DEF Centre!WithRobot
<1>3. CASE w.tb.currency # "points"
  <2>1. PICK r : r = [Centre!NewSeat(Stake, 1) EXCEPT !.ready = TRUE, !.auto = (w.tb.game # "board")]
    OBVIOUS
  <2>2. IsSeat(r) /\ r.stack \in Nat
    BY <1>1, <2>1 DEF Centre!NewSeat, IsSeat
  <2>3. PICK s : s = [v \in DOMAIN w.tb.seats \cup {Robot} |-> IF v = Robot THEN r ELSE w.tb.seats[v]]
    OBVIOUS
  <2>4. x = [w EXCEPT !.tb.seats = s]
    BY <1>3, <2>1, <2>3 DEF Centre!WithRobot
  <2>5. /\ IsWorld(x) /\ IsTable(x.tb)
        /\ x.id = w.id /\ x.money = w.money /\ x.rows = w.rows /\ x.held = w.held /\ x.pot = w.pot
        /\ x.tb.game = w.tb.game /\ x.tb.currency = w.tb.currency /\ x.tb.phase = w.tb.phase
        /\ x.tb.begun = w.tb.begun /\ x.tb.hand = w.tb.hand /\ x.tb.seats = s /\ x.tb.host = w.tb.host
    BY <1>1, <2>4 DEF IsWorld, IsTable
  <2>6. DOMAIN s = DOMAIN w.tb.seats \cup {Robot} /\ s = [v \in DOMAIN s |-> s[v]]
    BY <2>3
  <2>7. s[Robot] = r /\ \A v \in DOMAIN w.tb.seats \ {Robot} : s[v] = w.tb.seats[v]
    BY <2>3
  <2>8. Typed(x)
    <3>1. \A v \in DOMAIN s : IsSeat(s[v]) /\ s[v].stack \in Nat
      BY <1>1, <2>2, <2>6, <2>7 DEF Typed
    <3>2. DOMAIN s \subseteq Users \cup {Robot}
      BY <1>1, <2>6 DEF Typed
    <3>3. QED
      BY <1>1, <2>5, <2>6, <3>1, <3>2 DEF Typed
  <2>9. Agreed(x)
    BY <1>1, <2>5, <2>6 DEF Good, Base, Agreed
  <2>10. Handled(x)
    BY <2>5 DEF Good, Base, Handled
  <2>11. w.tb.currency = "beans"
    BY <1>1, <1>3 DEF Typed
  <2>12. Escrowed(x)
    BY <2>5, <2>11 DEF Good, Base, Escrowed, InEscrow
  <2>13. Manned(x)
    BY <2>5, <2>6 DEF Good, Manned
  <2>14. Calm(x)
    BY <2>5, <2>6, <2>7 DEF Good, Calm
  <2>15. Turned(x) /\ Ours(x, t, c, R) /\ Funded(x)
    <3>1. Turned(x)
      BY <2>5 DEF Good, Turned
    <3>2. Ours(x, t, c, R)
      BY <1>3, <2>5 DEF Good, Ours
    <3>3. Funded(x)
      BY <1>3, <2>5 DEF Good, Base, Funded, Staked
    <3> QED
      BY <3>1, <3>2, <3>3
  <2>16. Headed(x) /\ Ranked(x)
    BY <2>5, <2>6, <2>7 DEF Good, Base, Headed, Ranked
  <2>17. Hosted(x, R.but)
    BY <2>5, <2>7 DEF Good, Base, Headed, Hosted
  <2>18. QED
    BY <2>8, <2>9, <2>10, <2>12, <2>13, <2>14, <2>15, <2>16, <2>17 DEF Good, Base
<1>4. QED
  BY <1>2, <1>3

(* Points or beans are brought to the table between hands.                 *)
LEMMA TopUpGood ==
  ASSUME TablesConstants, NEW w, NEW t, NEW c, NEW R, Good(w, t, c, R), w.tb.hand = Null, w.tb.game = "holdem",
         NEW u \in Users, u \in DOMAIN w.tb.seats, NEW n \in Nat, n <= w.money[u],
         NEW x, x = Centre!With(Centre!Reserve(w, Centre!Only(u, n)), u, [w.tb.seats[u] EXCEPT !.stack = @ + n])
  PROVE  Good(x, t, c, R)
<1>1. Typed(w) /\ IsWorld(w) /\ IsTable(w.tb) /\ Robot \notin Users
  BY DEF Good, Base, Typed, TablesConstants, Centre!TablesAssumption
<1>2. PICK b : b = Centre!Only(u, n)
  OBVIOUS
<1>3. \A v : Centre!Of(b, v) = IF v = u THEN n ELSE 0
  BY <1>2 DEF Centre!Of, Centre!Only
<1>4. PICK hold : hold = Centre!Reserve(w, b)
  OBVIOUS
<1>5. /\ IsWorld(hold) /\ hold.id = w.id /\ hold.tb = w.tb /\ hold.rows = w.rows /\ hold.pot = w.pot
      /\ hold.money = [v \in Users |-> w.money[v] - Centre!Of(b, v)]
      /\ hold.held = [v \in Users |-> IF w.tb.currency = "points" THEN w.held[v] + Centre!Of(b, v) ELSE w.held[v]]
  BY <1>1, <1>4, ReserveIs
<1>6. PICK a : a = w.tb.seats[u]
  OBVIOUS
<1>7. PICK s : s = [a EXCEPT !.stack = a.stack + n]
  OBVIOUS
<1>8. IsSeat(a) /\ a.stack \in Nat
  BY <1>1, <1>6 DEF Typed
<1>9. IsSeat(s) /\ s.stack = a.stack + n /\ s.leaving = a.leaving /\ s.since = a.since
  BY <1>7, <1>8 DEF IsSeat
<1>10. x = [hold EXCEPT !.tb.seats[u] = s]
  BY <1>2, <1>4, <1>6, <1>7 DEF Centre!With
<1>11. /\ IsWorld(x) /\ IsTable(x.tb)
       /\ x.id = w.id /\ x.money = hold.money /\ x.rows = w.rows /\ x.held = hold.held /\ x.pot = hold.pot
       /\ x.tb.game = w.tb.game /\ x.tb.currency = w.tb.currency /\ x.tb.phase = w.tb.phase
       /\ x.tb.begun = w.tb.begun /\ x.tb.hand = w.tb.hand /\ x.tb.seats = [w.tb.seats EXCEPT ![u] = s]
       /\ x.tb.host = w.tb.host
  <2>1. PICK q : q = [w.tb.seats EXCEPT ![u] = s]
    OBVIOUS
  <2>2. PICK v : v = [w.tb EXCEPT !.seats = q]
    OBVIOUS
  <2>3. x = [hold EXCEPT !.tb = v]
    BY <1>5, <1>10, <2>1, <2>2, Zenon
  <2>4. /\ IsTable(v) /\ v.game = w.tb.game /\ v.currency = w.tb.currency /\ v.phase = w.tb.phase
        /\ v.begun = w.tb.begun /\ v.hand = w.tb.hand /\ v.seats = q /\ v.host = w.tb.host
    BY <1>1, <2>2 DEF IsTable
  <2>5. IsWorld(x) /\ x.tb = v /\ x.id = hold.id /\ x.money = hold.money /\ x.rows = hold.rows /\ x.held = hold.held /\ x.pot = hold.pot
    BY <1>5, <2>3 DEF IsWorld
  <2>6. QED
    BY <1>5, <2>1, <2>4, <2>5
<1>a. /\ \A v \in Users : x.money[v] = w.money[v] - Centre!Of(b, v)
      /\ \A v \in Users : x.held[v] = IF w.tb.currency = "points" THEN w.held[v] + Centre!Of(b, v) ELSE w.held[v]
  <2>1. PICK m : m = [v \in Users |-> w.money[v] - Centre!Of(b, v)]
    OBVIOUS
  <2>2. PICK h : h = [v \in Users |-> IF w.tb.currency = "points" THEN w.held[v] + Centre!Of(b, v) ELSE w.held[v]]
    OBVIOUS
  <2>3. x.money = m /\ x.held = h
    BY <1>5, <1>11, <2>1, <2>2, Zenon
  <2> QED
    BY <2>1, <2>2, <2>3
<1>12. /\ DOMAIN x.tb.seats = DOMAIN w.tb.seats /\ x.tb.seats[u] = s
       /\ \A v \in DOMAIN w.tb.seats \ {u} : x.tb.seats[v] = w.tb.seats[v]
  BY <1>1, <1>11 DEF Typed
<1>13. \A v \in Users : w.money[v] \in Nat /\ w.held[v] \in Nat
  BY <1>1 DEF Typed
<1>14. x.money \in [Users -> Nat] /\ x.held \in [Users -> Nat]
  <2>1. ASSUME NEW v \in Users PROVE hold.money[v] \in Nat /\ hold.held[v] \in Nat
    BY <1>3, <1>5, <1>13
  <2>2. QED
    BY <1>5, <1>11, <2>1
<1>15. Typed(x)
  <2>1. \A v \in DOMAIN x.tb.seats : IsSeat(x.tb.seats[v]) /\ x.tb.seats[v].stack \in Nat
    <3>1. \A v \in DOMAIN w.tb.seats : IsSeat(w.tb.seats[v]) /\ w.tb.seats[v].stack \in Nat
      BY <1>1 DEF Typed
    <3>2. IsSeat(s) /\ s.stack \in Nat
      BY <1>8, <1>9
    <3> QED
      BY <1>12, <3>1, <3>2
  <2>2. x.tb.seats = [v \in DOMAIN x.tb.seats |-> x.tb.seats[v]]
    BY <1>1, <1>11 DEF Typed
  <2>3. QED
    BY <1>1, <1>11, <1>12, <1>14, <2>1, <2>2 DEF Typed
<1>16. Agreed(x)
  <2>1. x.rows = w.rows /\ x.id = w.id /\ DOMAIN x.tb.seats = DOMAIN w.tb.seats
    BY <1>11, <1>12
  <2>2. QED
    BY <2>1 DEF Good, Base, Agreed
<1>17. Handled(x)
  BY <1>11 DEF Good, Base, Handled
<1>18. Escrowed(x)
  <2>1. ASSUME NEW v \in Users PROVE x.held[v] = InEscrow(x, v)
    <3>1. w.held[v] = IF w.tb.currency = "beans" \/ v \notin DOMAIN w.tb.seats THEN 0 ELSE w.tb.seats[v].stack
      BY DEF Good, Base, Escrowed, InEscrow, Centre!InHand
    <3>2. InEscrow(x, v) = IF w.tb.currency = "beans" \/ v \notin DOMAIN w.tb.seats THEN 0 ELSE x.tb.seats[v].stack
      BY <1>11, <1>12 DEF InEscrow, Centre!InHand
    <3>3. x.held[v] = IF w.tb.currency = "points" THEN w.held[v] + (IF v = u THEN n ELSE 0) ELSE w.held[v]
      BY <1>3, <1>a
    <3>4. w.tb.currency \in {"points", "beans"}
      BY <1>1 DEF Typed
    <3>5. CASE v = u
      BY <1>6, <1>8, <1>9, <1>12, <3>1, <3>2, <3>3, <3>4, <3>5
    <3>6. CASE v # u
      <4>1. v \in DOMAIN w.tb.seats => x.tb.seats[v] = w.tb.seats[v]
        BY <1>12, <3>6
      <4>2. x.held[v] = w.held[v]
        BY <1>13, <3>3, <3>6
      <4>3. QED
        BY <3>1, <3>2, <4>1, <4>2
    <3>7. QED
      BY <3>5, <3>6
  <2>2. QED
    BY <2>1 DEF Escrowed
<1>19. Manned(x) /\ Turned(x) /\ Ours(x, t, c, R)
  <2>1. Manned(x)
    BY <1>11, <1>12 DEF Good, Manned
  <2>2. Turned(x)
    BY <1>11 DEF Good, Turned
  <2>3. Ours(x, t, c, R)
    <3>1. ASSUME NEW v \in Users, w.tb.currency = "points" PROVE Share(x, v) = Share(w, v)
      <4>1. Put(x, v) = 0 /\ Put(w, v) = 0
        BY <1>11 DEF Put, Centre!InHand
      <4>2. x.money[v] = w.money[v] - Centre!Of(b, v) /\ x.held[v] = w.held[v] + Centre!Of(b, v)
        BY <1>a, <3>1
      <4>3. w.money[v] \in Nat /\ w.held[v] \in Nat /\ Centre!Of(b, v) \in Nat
        BY <1>3, <1>13
      <4> QED
        BY <4>1, <4>2, <4>3 DEF Share
    <3>2. w.tb.currency = "points" => Worth(x) = Worth(w)
      BY <3>1, WorthSame
    <3> QED
      BY <1>11, <3>2 DEF Good, Ours
  <2>4. QED
    BY <2>1, <2>2, <2>3
<1>20. Calm(x)
  BY <1>6, <1>9, <1>11, <1>12 DEF Good, Calm
<1>21. \A v \in DOMAIN w.tb.seats :
         x.tb.seats[v].since = w.tb.seats[v].since /\ x.tb.seats[v].leaving = w.tb.seats[v].leaving
  BY <1>6, <1>9, <1>12
<1>22. Headed(x) /\ Ranked(x)
  <2>1. x.tb.host = w.tb.host /\ DOMAIN x.tb.seats = DOMAIN w.tb.seats /\ Headed(w) /\ Ranked(w)
    BY <1>11, <1>12 DEF Good, Base
  <2>2. Headed(x)
    BY <1>21, <2>1 DEF Headed
  <2>3. Ranked(x)
    BY <1>21, <2>1 DEF Ranked
  <2>4. QED
    BY <2>2, <2>3
<1>23. Hosted(x, R.but)
  <2>1. x.tb.host = w.tb.host /\ Headed(w) /\ Hosted(w, R.but)
    BY <1>11 DEF Good, Base
  <2>2. QED
    BY <1>21, <2>1 DEF Headed, Hosted
<1>24. Funded(x)
  <2>1. x.pot = w.pot /\ x.tb.hand = w.tb.hand /\ x.tb.currency = w.tb.currency /\ DOMAIN x.tb.seats = DOMAIN w.tb.seats
    BY <1>5, <1>11, <1>12
  <2> QED
    BY <2>1 DEF Good, Base, Funded, Staked
<1>25. QED
  BY <1>15, <1>16, <1>17, <1>18, <1>19, <1>20, <1>22, <1>23, <1>24 DEF Good, Base

(* Who is not in a hand can go at once.                                    *)
LEMMA GoneGood ==
  ASSUME TablesConstants, NEW w, NEW t, NEW c, NEW R, Good(w, t, c, R), NEW u \in Users, ~Centre!InHand(w.tb, u),
         w.tb.game = "holdem" => u \in DOMAIN w.tb.seats, NEW x, x = Centre!Gone(w, u)
  PROVE  Good(x, t, c, R)
<1>1. Base(w) /\ Manned(w) /\ Calm(w) /\ Turned(w) /\ Hosted(w, R.but) /\ Ours(w, t, c, R)
  BY DEF Good
<1>2. PICK y : y = Centre!Vacate(w, {u})
  OBVIOUS
<1>3. {u} \in SUBSET Users /\ (\A v \in {u} : ~Centre!InHand(w.tb, v)) /\ (w.tb.game = "holdem" => {u} \subseteq DOMAIN w.tb.seats)
  OBVIOUS
<1>4. Good(y, t, c, R)
  BY <1>1, <1>2, <1>3, VacateKeeps DEF Good
<1>5. x = Centre!Count(y)
  BY <1>2 DEF Centre!Gone
<1>6. QED
  BY <1>4, <1>5, CountAlike, AlikeGood DEF Good, Base

(* Who leaves in the middle of a zjh hand is out of it and stays in his seat. *)
LEMMA LedHosted == ASSUME NEW w, Led(w) PROVE Hosted(w, Null)
BY DEF Led, Hosted, Centre!Staying

LEMMA ZjhFoldedGood ==
  ASSUME TablesConstants, NEW w, NEW t, NEW c, NEW R, Good(w, t, c, R), R.but = Null, w.tb.hand # Null,
         NEW u \in Users, u \in DOMAIN w.tb.seats, NEW x \in Centre!ZjhFolded(w, u)
  PROVE  Good(x, t, c, R)
<1>1. Base(w) /\ Typed(w) /\ Manned(w) /\ Turned(w) /\ Hosted(w, Null) /\ Ours(w, t, c, R)
  BY DEF Good, Base
<1> PICK Q : Q = [rows |-> R.rows, but |-> u, worth |-> R.worth]
  OBVIOUS
<1>2. PICK s : s = [w.tb.seats[u] EXCEPT !.leaving = TRUE]
  OBVIOUS
<1>3. Remark(w, u, s)
  BY <1>1, <1>2, LeavingIs DEF Typed
<1>4. PICK a : a = Centre!With(w, u, s)
  OBVIOUS
<1>5. Alike(w, a) /\ a.tb.host = w.tb.host /\ \A v \in DOMAIN w.tb.seats \ {u} : a.tb.seats[v] = w.tb.seats[v]
  BY <1>1, <1>3, <1>4, WithAlike
<1>6. Base(a) /\ Manned(a) /\ Turned(a) /\ Ours(a, t, c, R) /\ a.tb.hand = w.tb.hand
  BY <1>1, <1>5, AlikeKeeps DEF Alike
<1> Hosted(a, u) /\ Ours(a, t, c, Q)
  BY <1>1, <1>5, <1>6 DEF Base, Headed, Hosted, Ours
<1>7. PICK n : n = IF w.tb.hand.cur = u THEN w.tb.hand.turn + 1 ELSE w.tb.hand.turn
  OBVIOUS
<1>8. PICK h : h = [w.tb.hand EXCEPT !.live = w.tb.hand.live \ {u}, !.turn = n]
  OBVIOUS
<1>9. /\ IsHand(h) /\ h.budget = w.tb.hand.budget /\ h.paid = w.tb.hand.paid
      /\ h.live = w.tb.hand.live \ {u} /\ h.cur = w.tb.hand.cur
  BY <1>1, <1>8 DEF Typed, HandTyped, IsHand
<1>10. PICK out : out = [a EXCEPT !.tb.hand = h]
  OBVIOUS
<1>11. /\ IsWorld(out) /\ IsTable(out.tb) /\ out.id = a.id /\ out.money = a.money /\ out.held = a.held /\ out.pot = a.pot
       /\ out.rows = a.rows /\ out.tb.game = a.tb.game /\ out.tb.currency = a.tb.currency
       /\ out.tb.phase = a.tb.phase /\ out.tb.begun = a.tb.begun /\ out.tb.seats = a.tb.seats /\ out.tb.hand = h
       /\ out.tb.host = a.tb.host
  BY <1>6, <1>10 DEF Base, Typed, IsWorld, IsTable
<1>12. Played(a, out)
  BY <1>6, <1>9, <1>11, HandPlayed
<1>13. Base(out) /\ Manned(out) /\ Calm(out) /\ Hosted(out, u) /\ Ours(out, t, c, Q) /\ out.tb.hand # Null
  BY <1>6, <1>12, PlayedKeeps
<1>14. PICK y \in IF u \notin w.tb.hand.live \/ (w.tb.hand.cur # u /\ Centre!Cardinality(h.live) > 1)
                  THEN {out} ELSE Centre!Outcomes(out) :
         x = IF y.tb.host = u /\ u \in Centre!Seated(y.tb) THEN [y EXCEPT !.tb = Centre!TransferHost(y.tb)] ELSE y
  BY <1>2, <1>4, <1>7, <1>8, <1>10, Zenon DEF Centre!ZjhFolded
<1>15. Good(y, t, c, Q)
  <2>1. CASE u \notin w.tb.hand.live \/ (w.tb.hand.cur # u /\ Centre!Cardinality(h.live) > 1)
    <3>1. y = out
      BY <1>14, <2>1
    <3>2. Turned(out)
      BY <1>1, <1>9, <1>11, <2>1 DEF Turned
    <3>3. QED
      BY <1>13, <3>1, <3>2 DEF Good
  <2>2. CASE ~(u \notin w.tb.hand.live \/ (w.tb.hand.cur # u /\ Centre!Cardinality(h.live) > 1))
    BY <1>13, <1>14, <2>2, OutcomesKeep
  <2>3. QED
    BY <2>1, <2>2
<1>16. Base(y) /\ Manned(y) /\ Calm(y) /\ Turned(y) /\ Hosted(y, u) /\ Ours(y, t, c, R)
  BY <1>15 DEF Good, Ours
<1>17. u \notin {Null, Robot}
  BY DEF TablesConstants, Centre!TablesAssumption
<1>18. CASE y.tb.host = u
  <2>1. u \in Centre!Seated(y.tb)
    BY <1>16, <1>17, <1>18 DEF Base, Headed, Centre!Seated
  <2>2. x = [y EXCEPT !.tb = Centre!TransferHost(y.tb)]
    BY <1>14, <1>18, <2>1
  <2>3. Alike(y, x) /\ Stays(y, x) /\ Led(x)
    BY <1>16, <2>2, HostAlike
  <2>4. QED
    BY <1>16, <2>3, AlikeKeeps, LedHosted DEF Good
<1>19. CASE y.tb.host # u
  <2>1. x = y
    BY <1>14, <1>19
  <2>2. Hosted(y, Null)
    BY <1>16, <1>19 DEF Hosted
  <2>3. QED
    BY <1>16, <2>1, <2>2 DEF Good
<1>20. QED
  BY <1>18, <1>19

(* Who leaves in the middle of a hold'em hand plays on by himself until its end. *)
LEMMA HoldemLeavingGood ==
  ASSUME TablesConstants, NEW w, NEW t, NEW c, NEW R, Good(w, t, c, R), R.but = Null, w.tb.hand # Null,
         NEW u \in Users, u \in DOMAIN w.tb.seats, NEW x, x = Centre!HoldemLeaving(w, u)
  PROVE  Good(x, t, c, R)
<1>1. Base(w) /\ Typed(w) /\ Manned(w) /\ Turned(w) /\ Hosted(w, Null) /\ Ours(w, t, c, R)
  BY DEF Good, Base
<1>2. PICK s : s = [w.tb.seats[u] EXCEPT !.leaving = TRUE, !.auto = TRUE]
  OBVIOUS
<1>3. Remark(w, u, s)
  BY <1>1, <1>2, LeavingIs DEF Typed
<1>4. PICK a : a = Centre!With(w, u, s)
  OBVIOUS
<1>5. Alike(w, a) /\ a.tb.host = w.tb.host /\ \A v \in DOMAIN w.tb.seats \ {u} : a.tb.seats[v] = w.tb.seats[v]
  BY <1>1, <1>3, <1>4, WithAlike
<1>6. Base(a) /\ Manned(a) /\ Turned(a) /\ Ours(a, t, c, R) /\ a.tb.hand = w.tb.hand
  BY <1>1, <1>5, AlikeKeeps DEF Alike
<1>7. Calm(a)
  BY <1>6 DEF Calm
<1>8. CASE w.tb.host = u
  <2>1. x = [a EXCEPT !.tb = Centre!TransferHost(a.tb)]
    BY <1>2, <1>4, <1>8 DEF Centre!HoldemLeaving
  <2>2. Alike(a, x) /\ Stays(a, x) /\ Led(x)
    BY <1>6, <2>1, HostAlike
  <2>3. QED
    BY <1>6, <1>7, <2>2, AlikeKeeps, LedHosted DEF Good
<1>9. CASE w.tb.host # u
  <2>1. x = a
    BY <1>2, <1>4, <1>9 DEF Centre!HoldemLeaving
  <2>2. Hosted(a, Null)
    BY <1>1, <1>5, <1>9 DEF Base, Headed, Hosted
  <2>3. QED
    BY <1>6, <1>7, <2>1, <2>2 DEF Good
<1>10. QED
  BY <1>8, <1>9

LEMMA LeftGood ==
  ASSUME TablesConstants, NEW w, NEW t, NEW c, NEW R, Good(w, t, c, R), R.but = Null, NEW u \in Users, u \in DOMAIN w.tb.seats,
         NEW x \in Centre!Left(w, u)
  PROVE  Good(x, t, c, R)
<1>1. CASE ~Centre!InHand(w.tb, u)
  <2>1. x = Centre!Gone(w, u)
    BY <1>1 DEF Centre!Left
  <2>2. QED
    BY <1>1, <2>1, GoneGood
<1>2. CASE Centre!InHand(w.tb, u)
  <2>1. w.tb.hand # Null /\ Typed(w) /\ Base(w) /\ Ours(w, t, c, R)
    BY <1>2 DEF Centre!InHand, Good, Base
  <2>2. CASE w.tb.game = "zjh"
    BY <1>2, <2>1, <2>2, ZjhFoldedGood DEF Centre!Left
  <2>3. CASE w.tb.game = "holdem"
    BY <1>2, <2>1, <2>3, HoldemLeavingGood DEF Centre!Left
  <2>4. CASE w.tb.game = "board"
    <3>1. x \in {Centre!Gone(y, u) : y \in UNION {Centre!Close(w, a) : a \in {b \in Centre!BoardAwards(w.tb.hand) : b[u] = 0}}}
      BY <1>2, <2>4 DEF Centre!Left
    <3>2. \E a \in Centre!BoardAwards(w.tb.hand) : \E y \in Centre!Close(w, a) : x = Centre!Gone(y, u)
      BY <3>1
    <3> PICK a \in Centre!BoardAwards(w.tb.hand) : \E y \in Centre!Close(w, a) : x = Centre!Gone(y, u)
      BY <3>2
    <3> PICK y \in Centre!Close(w, a) : x = Centre!Gone(y, u)
      OBVIOUS
    <3>3. a \in Centre!Awards(w.tb.hand)
      BY DEF Centre!BoardAwards
    <3>5. Good(y, t, c, R) /\ y.tb.hand = Null /\ y.tb.game = w.tb.game
      BY <2>1, <3>3, CloseKeeps
    <3>6. ~Centre!InHand(y.tb, u) /\ y.tb.game # "holdem"
      BY <2>4, <3>5 DEF Centre!InHand
    <3>7. QED
      BY <3>5, <3>6, GoneGood
  <2>5. QED
    BY <2>1, <2>2, <2>3, <2>4 DEF Typed
<1>3. QED
  BY <1>1, <1>2

(* A mark is set: ready, on auto, away.                                    *)
Marked(w, u, a, s) ==
  \/ s = [a EXCEPT !.auto = TRUE] \/ s = [a EXCEPT !.auto = FALSE, !.hands = 0]
  \/ s = [a EXCEPT !.away = "no", !.hands = 0]
  \/ \E b : s = [a EXCEPT !.ready = b] \/ s = [[a EXCEPT !.auto = TRUE] EXCEPT !.ready = b]
  \/ \E d : s = [a EXCEPT !.away = d] /\ (d = "timed" => ~Centre!InHand(w.tb, u))

LEMMA MarkGood ==
  ASSUME TablesConstants, NEW w, NEW t, NEW c, NEW R, Good(w, t, c, R), NEW u \in DOMAIN w.tb.seats,
         NEW a, a = w.tb.seats[u], NEW s, Marked(w, u, a, s),
         NEW x, x = Centre!With(w, u, s)
  PROVE  Good(x, t, c, R) /\ x.tb.hand = w.tb.hand /\ Alike(w, x)
<1>1. Typed(w) /\ IsSeat(a)
  BY DEF Good, Base, Typed
<1>2. /\ IsSeat(s) /\ s.stack = a.stack /\ s.leaving = a.leaving /\ s.since = a.since
      /\ s.away = "timed" => a.away = "timed" \/ ~Centre!InHand(w.tb, u)
  <2>1. CASE \E b : s = [a EXCEPT !.ready = b] \/ s = [[a EXCEPT !.auto = TRUE] EXCEPT !.ready = b]
    BY <1>1, <2>1 DEF IsSeat
  <2>2. CASE \E d : s = [a EXCEPT !.away = d] /\ (d = "timed" => ~Centre!InHand(w.tb, u))
    BY <1>1, <2>2 DEF IsSeat
  <2>3. CASE \/ s = [a EXCEPT !.auto = TRUE] \/ s = [a EXCEPT !.auto = FALSE, !.hands = 0]
             \/ s = [a EXCEPT !.away = "no", !.hands = 0]
    BY <1>1, <2>3 DEF IsSeat
  <2>4. QED
    BY <2>1, <2>2, <2>3 DEF Marked
<1>3. Remark(w, u, s)
  BY <1>2 DEF Remark
<1>4. Alike(w, x) /\ Stays(w, x)
  BY <1>1, <1>2, <1>3, WithAlike
<1>5. QED
  BY <1>4, AlikeGood, ZenonT(40) DEF Alike

LEMMA CountGood ==
  ASSUME TablesConstants, NEW w, NEW t, NEW c, NEW R, Good(w, t, c, R), NEW x, x = Centre!Count(w)
  PROVE  Good(x, t, c, R)
BY CountAlike, AlikeGood DEF Good, Base

(* The clock of who is to move.                                            *)
TimedOut(w) ==
  LET u == w.tb.hand.cur
      auto == Centre!With(w, u, [w.tb.seats[u] EXCEPT !.auto = TRUE])
      fold == [auto EXCEPT !.tb.hand.turn = @ + 1, !.tb.hand.live = @ \ {u}]
  IN IF w.tb.game = "board"
     THEN UNION {Centre!Close(w, a) : a \in {b \in Centre!BoardAwards(w.tb.hand) :
             IF w.tb.hand.turn = 1 THEN b[u] = w.tb.hand.paid[u] ELSE b[u] = 0}}
     ELSE IF w.tb.game = "holdem" /\ w.tb.seats[u].leaving THEN Centre!Outcomes(fold)
     ELSE Centre!Moved(auto, u)

LEMMA TimedOutGood ==
  ASSUME TablesConstants, NEW w, NEW t, NEW c, NEW R, Good(w, t, c, R), w.tb.hand # Null, NEW x \in TimedOut(w)
  PROVE  Good(x, t, c, R)
<1>1. Base(w) /\ Typed(w) /\ Manned(w) /\ Turned(w) /\ Hosted(w, R.but) /\ Ours(w, t, c, R)
  BY DEF Good, Base
<1>2. PICK u : u = w.tb.hand.cur
  OBVIOUS
<1>3. u \in DOMAIN w.tb.hand.budget /\ u \in DOMAIN w.tb.seats
  BY <1>1, <1>2 DEF Turned, Typed, HandTyped, Base, Handled
<1>4. PICK s : s = [w.tb.seats[u] EXCEPT !.auto = TRUE]
  OBVIOUS
<1>5. PICK auto : auto = Centre!With(w, u, s)
  OBVIOUS
<1>6. Good(auto, t, c, R) /\ auto.tb.hand = w.tb.hand
  <2>1. PICK a : a = w.tb.seats[u]
    OBVIOUS
  <2>2. s = [a EXCEPT !.auto = TRUE]
    BY <1>4, <2>1
  <2>3. u \in DOMAIN w.tb.seats
    BY <1>3
  <2>4. Marked(w, u, a, s)
    BY <2>2 DEF Marked
  <2>5. QED
    BY <1>5, <2>1, <2>3, <2>4, MarkGood
<1>7. Base(auto) /\ Typed(auto) /\ Manned(auto) /\ Hosted(auto, R.but) /\ Ours(auto, t, c, R)
  BY <1>6 DEF Good, Base
<1>8. PICK fold : fold = [auto EXCEPT !.tb.hand.turn = @ + 1, !.tb.hand.live = @ \ {u}]
  OBVIOUS
<1>9. \/ x \in UNION {Centre!Close(w, a) : a \in {b \in Centre!BoardAwards(w.tb.hand) :
                    IF w.tb.hand.turn = 1 THEN b[u] = w.tb.hand.paid[u] ELSE b[u] = 0}}
      \/ x \in Centre!Outcomes(fold)
      \/ x \in Centre!Moved(auto, u)
  BY <1>2, <1>4, <1>5, <1>8, Zenon DEF TimedOut
<1>10. CASE x \in UNION {Centre!Close(w, a) : a \in {b \in Centre!BoardAwards(w.tb.hand) :
                    IF w.tb.hand.turn = 1 THEN b[u] = w.tb.hand.paid[u] ELSE b[u] = 0}}
  <2>1. \E a \in Centre!BoardAwards(w.tb.hand) : x \in Centre!Close(w, a)
    BY <1>10
  <2> PICK a \in Centre!BoardAwards(w.tb.hand) : x \in Centre!Close(w, a)
    BY <2>1
  <2>2. a \in Centre!Awards(w.tb.hand)
    BY DEF Centre!BoardAwards
  <2>3. QED
    BY <1>1, <2>2, CloseKeeps
<1>11. CASE x \in Centre!Outcomes(fold)
  <2>1. PICK h : h = [w.tb.hand EXCEPT !.turn = w.tb.hand.turn + 1, !.live = w.tb.hand.live \ {u}]
    OBVIOUS
  <2>2. IsHand(h) /\ h.budget = w.tb.hand.budget /\ h.paid = w.tb.hand.paid /\ h.live = w.tb.hand.live \ {u}
    BY <1>1, <2>1 DEF Typed, HandTyped, IsHand
  <2>3. PICK v : v = [auto.tb EXCEPT !.hand = h]
    OBVIOUS
  <2>4. fold = [auto EXCEPT !.tb = v]
    <3>1. IsWorld(auto) /\ IsTable(auto.tb) /\ IsHand(auto.tb.hand) /\ IsHand(w.tb.hand)
      BY <1>1, <1>6, <1>7 DEF Typed, HandTyped
    <3>2. QED
      BY <1>6, <1>8, <2>1, <2>3, <3>1 DEF IsWorld, IsTable, IsHand
  <2>5. /\ IsTable(v) /\ v.game = auto.tb.game /\ v.currency = auto.tb.currency /\ v.phase = auto.tb.phase
        /\ v.begun = auto.tb.begun /\ v.seats = auto.tb.seats /\ v.hand = h
        /\ v.host = auto.tb.host
    BY <1>7, <2>3 DEF Typed, IsTable
  <2>6. /\ IsWorld(fold) /\ fold.tb = v /\ fold.id = auto.id /\ fold.money = auto.money /\ fold.held = auto.held /\ fold.pot = auto.pot
        /\ fold.rows = auto.rows
    BY <1>7, <2>4 DEF Typed, IsWorld
  <2>7. /\ IsTable(fold.tb) /\ fold.tb.game = auto.tb.game /\ fold.tb.currency = auto.tb.currency
        /\ fold.tb.phase = auto.tb.phase /\ fold.tb.begun = auto.tb.begun /\ fold.tb.seats = auto.tb.seats
        /\ fold.tb.host = auto.tb.host
        /\ IsHand(fold.tb.hand) /\ fold.tb.hand.budget = auto.tb.hand.budget
        /\ fold.tb.hand.paid = auto.tb.hand.paid /\ fold.tb.hand.live \subseteq auto.tb.hand.live
    BY <1>6, <2>2, <2>5, <2>6
  <2>8. Played(auto, fold)
    BY <1>6, <1>7, <2>6, <2>7, HandPlayed
  <2>9. Base(fold) /\ Manned(fold) /\ Hosted(fold, R.but) /\ Ours(fold, t, c, R) /\ fold.tb.hand # Null
    BY <1>6, <1>7, <2>8, PlayedKeeps
  <2>10. QED
    BY <1>11, <2>9, OutcomesKeep
<1>12. CASE x \in Centre!Moved(auto, u)
  BY <1>3, <1>6, <1>7, <1>12, MovedGood
<1>13. QED
  BY <1>9, <1>10, <1>11, <1>12

(* A table of zjh or of a board game at which nothing has happened is closed. *)
LEMMA IdledGood ==
  ASSUME TablesConstants, NEW w, NEW t, NEW c, NEW R, Good(w, t, c, R), w.tb.hand = Null, w.tb.game # "holdem",
         NEW x, x = [w EXCEPT !.tb = Centre!Closed(w.tb), !.rows = [u \in Users |-> IF w.rows[u] = t THEN Null ELSE w.rows[u]]]
  PROVE  Good(x, t, c, R)
<1>1. Base(w) /\ Typed(w) /\ IsWorld(w) /\ IsTable(w.tb) /\ Null \notin Tables /\ w.id = t
  BY DEF Good, Base, Typed, Ours, TablesConstants, Centre!TablesAssumption
<1>2. PICK z : z = Centre!Closed(w.tb)
  OBVIOUS
<1>3. /\ IsTable(z) /\ z.game = w.tb.game /\ z.currency = w.tb.currency /\ z.phase = "closed"
      /\ z.seats = [u \in {} |-> Null] /\ z.hand = Null /\ z.host = Null
  BY <1>1, <1>2, ClosedIs
<1>4. PICK r : r = [u \in Users |-> IF w.rows[u] = t THEN Null ELSE w.rows[u]]
  OBVIOUS
<1>5. x = [w EXCEPT !.tb = z, !.rows = r]
  BY <1>2, <1>4
<1>6. IsWorld(x) /\ x.id = w.id /\ x.tb = z /\ x.rows = r /\ x.money = w.money /\ x.held = w.held /\ x.pot = w.pot
  BY <1>1, <1>5 DEF IsWorld
<1>7. DOMAIN z.seats = {}
  BY <1>3
<1>8. Typed(x)
  BY <1>1, <1>3, <1>4, <1>6, <1>7 DEF Typed
<1>9. Agreed(x) /\ Handled(x)
  BY <1>1, <1>3, <1>4, <1>6, <1>7 DEF Agreed, Handled, Typed
<1>10. Escrowed(x)
  BY <1>1, <1>3, <1>6, <1>7 DEF Base, Escrowed, InEscrow, Centre!InHand
<1>11. Manned(x) /\ Calm(x) /\ Turned(x)
  BY <1>3, <1>6, <1>7 DEF Manned, Calm, Turned
<1>12. Ours(x, t, c, R)
  <2>1. ASSUME NEW u \in Users PROVE Share(x, u) = Share(w, u)
    BY <1>3, <1>6 DEF Share, Put, Centre!InHand
  <2>2. Worth(x) = Worth(w)
    BY <2>1, WorthSame
  <2> QED
    BY <1>1, <1>3, <1>4, <1>6, <2>2 DEF Good, Ours
<1> Funded(x)
  BY <1>1, <1>3, <1>6, <1>7 DEF Base, Funded, Staked
<1>13. Headed(x) /\ Ranked(x) /\ Hosted(x, R.but)
  BY <1>3, <1>6, <1>7 DEF Headed, Ranked, Hosted
<1>14. QED
  BY <1>8, <1>9, <1>10, <1>11, <1>12, <1>13 DEF Good, Base

(* What a request or a deadline leads to is written after the next hand has *)
(* been scheduled.                                                         *)
LEMMA DoneGood ==
  ASSUME TablesConstants, NEW t, NEW c, NEW R, NEW W, \A w \in W : Good(w, t, c, R), Centre!Done(W)
  PROVE  \E x : Good(x, t, c, R) /\ Centre!Write(x)
<1>1. PICK w \in W : \E x \in Centre!Scheduled([w EXCEPT !.tb.idle = IF w.tb.phase = "waiting" THEN TRUE ELSE @]) : Centre!Write(x)
  BY Zenon DEF Centre!Done
<1>2. PICK b : b = IF w.tb.phase = "waiting" THEN TRUE ELSE w.tb.idle
  OBVIOUS
<1>3. PICK y : y = [w EXCEPT !.tb.idle = b]
  OBVIOUS
<1>4. PICK x \in Centre!Scheduled(y) : Centre!Write(x)
  BY <1>1, <1>2, <1>3
<1>5. Good(y, t, c, R)
  BY <1>3, IdleAlike, AlikeGood DEF Good, Base
<1>6. QED
  BY <1>4, <1>5, ScheduledGood

LEMMA WroteGood ==
  ASSUME TablesConstants, NEW t, NEW c, NEW R, NEW W, \A w \in W : Good(w, t, c, R), Centre!Wrote(W)
  PROVE  \E x : Good(x, t, c, R) /\ Centre!Write(x)
BY ScheduledGood DEF Centre!Wrote

-----------------------------------------------------------------------------
(* All tables are in order, and a seat row leads to a table of its currency. *)
Kept(w) == Base(w) /\ Manned(w) /\ Calm(w) /\ Turned(w) /\ Hosted(w, Null)

(* What a handler of table t finds.                                        *)
Before(t, c) ==
  [rows |-> rows[c], but |-> Null, worth |-> Sum(wallet[c], Users) + Sum(held[t], Users) + pot[t]]

(* The points in wallets, in pots and in escrow.                           *)
Balance(m, p, h) == Sum(m, Users) + Sum(p, Tables) + Sum([t \in Tables |-> Sum(h[t], Users)], Tables)

TablesInv ==
  /\ wallet \in [Centre!Currencies -> [Users -> Nat]] /\ held \in [Tables -> [Users -> Nat]]
  /\ pot = [t \in Tables |-> pot[t]] /\ tables = [t \in Tables |-> tables[t]]
  /\ rows = [c \in Centre!Currencies |-> [u \in Users |-> rows[c][u]]]
  /\ \A t \in Tables : tables[t] # Null => Kept(Centre!World(t))
  /\ \A t \in Tables : tables[t] = Null => pot[t] = 0 /\ \A u \in Users : held[t][u] = 0
  /\ \A c \in Centre!Currencies : \A u \in Users : rows[c][u] # Null =>
        rows[c][u] \in Tables /\ tables[rows[c][u]] # Null /\ tables[rows[c][u]].currency = c
  /\ Balance(wallet["points"], pot, held) = Points * Cardinality(Users)

(* What a table and its members gain one way they lose another.            *)
LEMMA BalanceKeeps ==
    ASSUME TablesConstants, NEW t \in Tables,
           NEW m, NEW n, \A u \in Users : m[u] \in Int /\ n[u] \in Int,
           NEW p \in [Tables -> Int], NEW q \in [Tables -> Int], \A s \in Tables \ {t} : q[s] = p[s],
           NEW h, NEW i, \A s \in Tables : \A u \in Users : h[s][u] \in Int /\ i[s][u] \in Int,
           \A s \in Tables \ {t} : i[s] = h[s],
           Sum(n, Users) + Sum(i[t], Users) + q[t] = Sum(m, Users) + Sum(h[t], Users) + p[t]
    PROVE  Balance(n, q, i) = Balance(m, p, h)
<1> IsFiniteSet(Users) /\ IsFiniteSet(Tables)
  BY FewUsers
<1>1. Sum(q, Tables) = Sum(p, Tables) + q[t] - p[t]
  BY SumChange
<1>2. PICK f : f = [s \in Tables |-> Sum(h[s], Users)]
  OBVIOUS
<1>3. PICK g : g = [s \in Tables |-> Sum(i[s], Users)]
  OBVIOUS
<1>4. ASSUME NEW s \in Tables PROVE Sum(h[s], Users) \in Int /\ Sum(i[s], Users) \in Int
  <2>1. PICK a : a = h[s]
    OBVIOUS
  <2>2. PICK b : b = i[s]
    OBVIOUS
  <2>3. \A u \in Users : a[u] \in Int /\ b[u] \in Int
    BY <2>1, <2>2
  <2>4. Sum(a, Users) \in Int /\ Sum(b, Users) \in Int
    BY <2>3, SumInt
  <2> QED
    BY <2>1, <2>2, <2>4
<1>5. (\A s \in Tables : f[s] \in Int /\ g[s] \in Int) /\ (\A s \in Tables \ {t} : f[s] = g[s])
  BY <1>2, <1>3, <1>4
<1>6. Sum(g, Tables) = Sum(f, Tables) + g[t] - f[t]
  BY <1>5, SumChange
<1>7. f[t] = Sum(h[t], Users) /\ g[t] = Sum(i[t], Users)
  BY <1>2, <1>3
<1>8. /\ Sum(m, Users) \in Int /\ Sum(n, Users) \in Int
      /\ Sum(p, Tables) \in Int /\ Sum(q, Tables) \in Int /\ Sum(f, Tables) \in Int /\ Sum(g, Tables) \in Int
  BY <1>5, SumInt
<1>9. p[t] \in Int /\ q[t] \in Int /\ f[t] \in Int /\ g[t] \in Int
  BY <1>5
<1>10. Sum(n, Users) + g[t] + q[t] = Sum(m, Users) + f[t] + p[t]
  BY <1>7
<1>11. Sum(n, Users) + Sum(q, Tables) + Sum(g, Tables) = Sum(m, Users) + Sum(p, Tables) + Sum(f, Tables)
  BY <1>1, <1>6, <1>8, <1>9, <1>10
<1> QED
  BY <1>2, <1>3, <1>11 DEF Balance

LEMMA PotInt == ASSUME TablesConstants, NEW w, Base(w) PROVE w.pot \in Int
<1>1. CASE w.tb.currency = "points" /\ w.tb.game = "zjh" /\ w.tb.hand # Null
  <2>1. PICK f : f = w.tb.hand.paid
    OBVIOUS
  <2>2. (\A u \in DOMAIN f : f[u] \in Int) /\ DOMAIN f \subseteq DOMAIN w.tb.seats /\ Typed(w)
    BY <1>1, <2>1 DEF Base, Typed, HandTyped, Handled
  <2>3. IsFiniteSet(DOMAIN f)
    BY <2>2, FewSeats, FS_Subset
  <2>4. Sum(f, DOMAIN f) \in Int
    BY <2>2, <2>3, SumInt
  <2> QED
    BY <1>1, <2>1, <2>4, TotalIs DEF Base, Funded, Staked
<1>2. CASE ~(w.tb.currency = "points" /\ w.tb.game = "zjh" /\ w.tb.hand # Null)
  BY <1>2 DEF Base, Funded, Staked
<1> QED
  BY <1>1, <1>2

LEMMA WorldIs ==
  ASSUME NEW t, NEW w, w = Centre!World(t)
  PROVE  /\ IsWorld(w) /\ w.id = t /\ w.tb = tables[t] /\ w.money = wallet[tables[t].currency]
         /\ w.held = held[t] /\ w.pot = pot[t] /\ w.rows = rows[tables[t].currency]
BY DEF Centre!World, Centre!WorldOf, IsWorld

LEMMA PotsInt == ASSUME TablesConstants, TablesInv PROVE pot \in [Tables -> Int]
<1>1. ASSUME NEW t \in Tables PROVE pot[t] \in Int
  <2>1. CASE tables[t] = Null
    BY <2>1 DEF TablesInv
  <2>2. CASE tables[t] # Null
    <3>1. PICK w : w = Centre!World(t)
      OBVIOUS
    <3>2. Base(w) /\ w.pot = pot[t]
      BY <2>2, <3>1, WorldIs DEF TablesInv, Kept
    <3> QED
      BY <3>2, PotInt
  <2> QED
    BY <2>1, <2>2
<1> QED
  BY <1>1 DEF TablesInv

LEMMA HereGood ==
  ASSUME TablesConstants, TablesInv, NEW t \in Tables, tables[t] # Null, NEW w, w = Centre!World(t)
  PROVE  /\ Good(w, t, tables[t].currency, Before(t, tables[t].currency))
         /\ w.tb = tables[t] /\ w.rows = rows[tables[t].currency] /\ w.id = t
         /\ tables[t].currency \in Centre!Currencies
<1>1. Kept(w)
  BY DEF TablesInv
<1>2. /\ w.id = t /\ w.tb = tables[t] /\ w.rows = rows[tables[t].currency]
      /\ w.money = wallet[tables[t].currency] /\ w.held = held[t] /\ w.pot = pot[t]
  BY WorldIs
<1>3. Ours(w, t, tables[t].currency, Before(t, tables[t].currency))
  <2>1. w.tb.currency = "points" => Worth(w) = Sum(w.money, Users) + Sum(w.held, Users) + w.pot
    BY <1>1, WorthIs DEF Kept
  <2> QED
    BY <1>2, <2>1 DEF Ours, Before
<1>4. tables[t].currency \in Centre!Currencies
  BY <1>1, <1>2 DEF Kept, Base, Typed, Centre!Currencies
<1>5. QED
  BY <1>1, <1>2, <1>3, <1>4 DEF Kept, Good, Before

(* A handler that leaves a good world of table t keeps all tables in order. *)
LEMMA WriteKeeps ==
  ASSUME TablesConstants, TablesInv, NEW t \in Tables, NEW c \in Centre!Currencies, tables[t] # Null => tables[t].currency = c,
         NEW x, Good(x, t, c, Before(t, c)), Centre!Write(x)
  PROVE  TablesInv'
<1>1. Base(x) /\ Typed(x) /\ IsWorld(x) /\ IsTable(x.tb) /\ Ours(x, t, c, Before(t, c)) /\ x.id = t /\ x.tb.currency = c
  BY DEF Good, Base, Typed, Ours
<1>2. x.tb # Null /\ Null \notin Tables
  BY <1>1 DEF TablesConstants, Centre!TablesAssumption
<1>3. /\ tables' = [tables EXCEPT ![t] = x.tb] /\ wallet' = [wallet EXCEPT ![c] = x.money]
      /\ rows' = [rows EXCEPT ![c] = x.rows] /\ held' = [held EXCEPT ![t] = x.held]
      /\ pot' = [pot EXCEPT ![t] = x.pot]
  BY <1>1 DEF Centre!Write
<1>4. /\ wallet \in [Centre!Currencies -> [Users -> Nat]] /\ held \in [Tables -> [Users -> Nat]]
      /\ pot = [s \in Tables |-> pot[s]] /\ tables = [s \in Tables |-> tables[s]]
      /\ rows = [d \in Centre!Currencies |-> [u \in Users |-> rows[d][u]]]
  BY DEF TablesInv
<1>5. x.money \in [Users -> Nat] /\ x.held \in [Users -> Nat] /\ x.rows = [u \in Users |-> x.rows[u]]
  BY <1>1 DEF Typed
<1>6. tables'[t] = x.tb /\ wallet'[c] = x.money /\ rows'[c] = x.rows /\ held'[t] = x.held /\ pot'[t] = x.pot
  BY <1>3, <1>4
<1>7. /\ \A s \in Tables \ {t} : tables'[s] = tables[s] /\ held'[s] = held[s] /\ pot'[s] = pot[s]
      /\ \A d \in Centre!Currencies \ {c} : wallet'[d] = wallet[d] /\ rows'[d] = rows[d]
  BY <1>3, <1>4
<1>8. wallet' \in [Centre!Currencies -> [Users -> Nat]] /\ held' \in [Tables -> [Users -> Nat]]
  BY <1>3, <1>4, <1>5
<1>9. pot' = [s \in Tables |-> pot'[s]] /\ tables' = [s \in Tables |-> tables'[s]]
  BY <1>3, <1>4
<1>10. rows' = [d \in Centre!Currencies |-> [u \in Users |-> rows'[d][u]]]
  <2>1. ASSUME NEW d \in Centre!Currencies PROVE rows'[d] = [u \in Users |-> rows'[d][u]]
    <3>1. CASE d = c
      BY <1>5, <1>6, <3>1
    <3>2. CASE d # c
      BY <1>4, <1>7, <3>2
    <3>3. QED
      BY <3>1, <3>2
  <2>2. rows' = [d \in Centre!Currencies |-> rows'[d]]
    BY <1>3, <1>4
  <2>3. QED
    BY <2>1, <2>2
<1>11. \A u \in Users : IF rows[c][u] \in {t, Null} THEN x.rows[u] \in {t, Null} ELSE x.rows[u] = rows[c][u]
  BY <1>1 DEF Ours, Before
<1>12. ASSUME NEW s \in Tables, tables'[s] # Null PROVE Kept(Centre!World(s))'
  <2>1. PICK w : w = Centre!World(s)'
    OBVIOUS
  <2>2. /\ IsWorld(w) /\ w.id = s /\ w.tb = tables'[s] /\ w.money = wallet'[tables'[s].currency]
        /\ w.held = held'[s] /\ w.pot = pot'[s] /\ w.rows = rows'[tables'[s].currency]
    BY <2>1 DEF Centre!World, Centre!WorldOf, IsWorld
  <2>3. CASE s = t
    <3>1. /\ w.id = x.id /\ w.tb = x.tb /\ w.money = x.money /\ w.held = x.held /\ w.pot = x.pot
          /\ w.rows = x.rows
      BY <1>1, <1>6, <2>2, <2>3
    <3>2. w = x
      BY <1>1, <2>2, <3>1 DEF IsWorld
    <3>3. Kept(w)
      BY <3>2 DEF Good, Kept, Before
    <3>4. QED
      BY <2>1, <3>3 DEF Kept, Base, Typed, Agreed, Handled, Escrowed, InEscrow, Headed, Ranked, Funded, Staked, Hosted, Manned, Calm, Turned
  <2>4. CASE s # t
    <3>1. tables'[s] = tables[s] /\ held'[s] = held[s] /\ pot'[s] = pot[s]
      BY <1>7, <2>4
    <3>2. PICK v : v = Centre!World(s)
      OBVIOUS
    <3>3. Kept(v)
      BY <3>1, <3>2, <1>12 DEF TablesInv
    <3>4. /\ IsWorld(v) /\ v.id = s /\ v.tb = tables[s] /\ v.money = wallet[tables[s].currency]
          /\ v.held = held[s] /\ v.pot = pot[s] /\ v.rows = rows[tables[s].currency]
      BY <3>2, WorldIs
    <3>5. tables[s].currency \in Centre!Currencies
      BY <3>3, <3>4 DEF Kept, Base, Typed, Centre!Currencies
    <3>6. w.money \in [Users -> Nat] /\ w.rows = [u \in Users |-> w.rows[u]]
      BY <1>8, <1>10, <2>2, <3>1, <3>5
    <3>7. \A u \in Users : w.rows[u] = s <=> v.rows[u] = s
      BY <1>2, <1>6, <1>7, <1>11, <2>2, <2>4, <3>1, <3>4, <3>5
    <3>8. w.id = v.id /\ w.tb = v.tb /\ w.held = v.held /\ w.pot = v.pot
      BY <2>2, <3>1, <3>4
    <3>9. Typed(w)
      BY <2>2, <3>3, <3>6, <3>8 DEF Kept, Base, Typed
    <3>10. Agreed(w)
      BY <2>2, <3>3, <3>4, <3>7, <3>8 DEF Kept, Base, Agreed
    <3>11. Handled(w) /\ Manned(w) /\ Calm(w) /\ Turned(w)
      BY <3>3, <3>8 DEF Kept, Base, Handled, Manned, Calm, Turned
    <3>12. Escrowed(w)
      BY <3>3, <3>8 DEF Kept, Base, Escrowed, InEscrow
    <3>13. Headed(w) /\ Ranked(w) /\ Hosted(w, Null)
      BY <3>3, <3>8 DEF Kept, Base, Headed, Ranked, Hosted
    <3> Funded(w)
      BY <3>3, <3>8 DEF Kept, Base, Funded, Staked
    <3>14. Kept(w)
      BY <3>9, <3>10, <3>11, <3>12, <3>13 DEF Kept, Base
    <3>15. QED
      BY <2>1, <3>14 DEF Kept, Base, Typed, Agreed, Handled, Escrowed, InEscrow, Headed, Ranked, Funded, Staked, Hosted, Manned, Calm, Turned
  <2>5. QED
    BY <2>3, <2>4
<1>13. ASSUME NEW s \in Tables, tables'[s] = Null PROVE pot'[s] = 0 /\ \A u \in Users : held'[s][u] = 0
  <2>1. s # t
    BY <1>2, <1>6, <1>13
  <2>2. QED
    BY <1>7, <1>13, <2>1 DEF TablesInv
<1>14. ASSUME NEW d \in Centre!Currencies, NEW u \in Users, rows'[d][u] # Null
       PROVE  rows'[d][u] \in Tables /\ tables'[rows'[d][u]] # Null /\ tables'[rows'[d][u]].currency = d
  <2>1. CASE d = c /\ rows[c][u] \in {t, Null}
    <3>1. rows'[d][u] = t
      BY <1>6, <1>11, <1>14, <2>1
    <3>2. QED
      BY <1>1, <1>2, <1>6, <2>1, <3>1
  <2>2. CASE ~(d = c /\ rows[c][u] \in {t, Null})
    <3>1. rows'[d][u] = rows[d][u]
      BY <1>6, <1>7, <1>11, <2>2
    <3>2. rows[d][u] \in Tables /\ tables[rows[d][u]] # Null /\ tables[rows[d][u]].currency = d
      BY <1>14, <3>1 DEF TablesInv
    <3>3. rows[d][u] # t
      BY <2>2, <3>2
    <3>4. tables'[rows[d][u]] = tables[rows[d][u]]
      BY <1>7, <3>2, <3>3
    <3>5. QED
      BY <3>1, <3>2, <3>4
  <2>3. QED
    BY <2>1, <2>2
<1>15. Balance(wallet["points"], pot, held)' = Points * Cardinality(Users)
  <2>1. pot \in [Tables -> Int]
    BY PotsInt
  <2>2. pot' \in [Tables -> Int]
    BY <1>1, <1>3, <2>1, PotInt
  <2>3. "points" \in Centre!Currencies /\ c \in {"points", "beans"}
    BY DEF Centre!Currencies
  <2>4. /\ \A u \in Users : wallet["points"][u] \in Int /\ wallet'["points"][u] \in Int
        /\ \A s \in Tables : \A u \in Users : held[s][u] \in Int /\ held'[s][u] \in Int
    BY <1>4, <1>8, <2>3
  <2>5. Sum(wallet'["points"], Users) + Sum(held'[t], Users) + pot'[t] = Sum(wallet["points"], Users) + Sum(held[t], Users) + pot[t]
    <3>1. CASE c = "points"
      <4>1. Worth(x) = Sum(wallet["points"], Users) + Sum(held[t], Users) + pot[t]
        BY <1>1, <3>1 DEF Ours, Before
      <4>2. Worth(x) = Sum(x.money, Users) + Sum(x.held, Users) + x.pot
        BY <1>1, <3>1, WorthIs
      <4> QED
        BY <1>6, <3>1, <4>1, <4>2
    <3>2. CASE c = "beans"
      <4>1. x.pot = 0 /\ \A u \in Users : x.held[u] = 0
        BY <1>1, <3>2 DEF Base, Funded, Staked, Escrowed, InEscrow
      <4>2. pot[t] = 0 /\ \A u \in Users : held[t][u] = 0
        <5>1. CASE tables[t] = Null
          BY <5>1 DEF TablesInv
        <5>2. CASE tables[t] # Null
          <6>1. PICK w : w = Centre!World(t)
            OBVIOUS
          <6>2. Base(w) /\ w.tb = tables[t] /\ w.held = held[t] /\ w.pot = pot[t]
            BY <5>2, <6>1, WorldIs DEF TablesInv, Kept
          <6>3. w.tb.currency = "beans"
            BY <3>2, <5>2, <6>2
          <6> QED
            BY <6>2, <6>3 DEF Base, Funded, Staked, Escrowed, InEscrow
        <5> QED
          BY <5>1, <5>2
      <4>3. PICK h : h = held[t]
        OBVIOUS
      <4>4. PICK k : k = x.held
        OBVIOUS
      <4>5. Sum(k, Users) = Sum(h, Users)
        BY <4>1, <4>2, <4>3, <4>4, FewUsers, SumSame
      <4>6. wallet'["points"] = wallet["points"]
        BY <1>7, <2>3, <3>2
      <4> QED
        BY <1>6, <4>1, <4>2, <4>3, <4>4, <4>5, <4>6
    <3> QED
      BY <2>3, <3>1, <3>2
  <2>6. /\ \A s \in Tables \ {t} : pot'[s] = pot[s]
        /\ \A s \in Tables \ {t} : held'[s] = held[s]
    BY <1>7
  <2>7. PICK m : m = wallet["points"]
    OBVIOUS
  <2>8. PICK n : n = wallet'["points"]
    OBVIOUS
  <2>9. Balance(n, pot', held') = Balance(m, pot, held)
    <3>1. PICK p : p = pot
      OBVIOUS
    <3>2. PICK q : q = pot'
      OBVIOUS
    <3>3. PICK h : h = held
      OBVIOUS
    <3>4. PICK i : i = held'
      OBVIOUS
    <3>5. p \in [Tables -> Int] /\ q \in [Tables -> Int] /\ \A s \in Tables \ {t} : q[s] = p[s]
      BY <2>1, <2>2, <2>6, <3>1, <3>2
    <3>6. \A u \in Users : m[u] \in Int /\ n[u] \in Int
      BY <2>4, <2>7, <2>8
    <3>7. /\ \A s \in Tables : \A u \in Users : h[s][u] \in Int /\ i[s][u] \in Int
          /\ \A s \in Tables \ {t} : i[s] = h[s]
      BY <2>4, <2>6, <3>3, <3>4
    <3>8. Sum(n, Users) + Sum(i[t], Users) + q[t] = Sum(m, Users) + Sum(h[t], Users) + p[t]
      BY <2>5, <2>7, <2>8, <3>1, <3>2, <3>3, <3>4
    <3>9. Balance(n, q, i) = Balance(m, p, h)
      BY <3>5, <3>6, <3>7, <3>8, BalanceKeeps, SMTT(30)
    <3> QED
      BY <3>1, <3>2, <3>3, <3>4, <3>9
  <2>10. Balance(m, pot, held) = Points * Cardinality(Users)
    BY <2>7 DEF TablesInv
  <2> QED
    BY <2>8, <2>9, <2>10
<1>16. QED
  BY <1>8, <1>9, <1>10, <1>12, <1>13, <1>14, <1>15 DEF TablesInv

LEMMA TablesStart == ASSUME TablesConstants, Centre!Init PROVE TablesInv
<1>1. \A c \in Centre!Currencies : wallet[c] \in [Users -> Nat]
  BY DEF Centre!Init, TablesConstants, Centre!TablesAssumption
<1>2. wallet \in [Centre!Currencies -> [Users -> Nat]]
  BY <1>1 DEF Centre!Init
<1>3. /\ held \in [Tables -> [Users -> Nat]] /\ pot = [t \in Tables |-> pot[t]]
      /\ tables = [t \in Tables |-> tables[t]] /\ rows = [c \in Centre!Currencies |-> [u \in Users |-> rows[c][u]]]
  BY DEF Centre!Init
<1>4. /\ \A t \in Tables : tables[t] = Null /\ \A u \in Users : held[t][u] = 0
      /\ \A c \in Centre!Currencies : \A u \in Users : rows[c][u] = Null
  BY DEF Centre!Init
<1>5. Balance(wallet["points"], pot, held) = Points * Cardinality(Users)
  <2> IsFiniteSet(Users) /\ IsFiniteSet(Tables)
    BY FewUsers
  <2>1. PICK m : m = wallet["points"]
    OBVIOUS
  <2>2. Points \in Int /\ \A u \in Users : m[u] = IF u \in Users THEN Points ELSE 0
    BY <2>1 DEF Centre!Init, Centre!Currencies, TablesConstants, Centre!TablesAssumption
  <2>3. Sum(m, Users) = Points * Cardinality(Users)
    BY <2>2, SumEach
  <2>4. PICK p : p = pot
    OBVIOUS
  <2>5. \A t \in Tables : p[t] = IF t \in {} THEN 0 ELSE 0
    BY <2>4 DEF Centre!Init
  <2>6. Sum(p, Tables) = 0 * Cardinality({})
    BY <2>5, SumEach
  <2>7. ASSUME NEW t \in Tables PROVE Sum(held[t], Users) = 0
    <3>1. PICK h : h = held[t]
      OBVIOUS
    <3>2. \A u \in Users : h[u] = IF u \in {} THEN 0 ELSE 0
      BY <1>4, <3>1
    <3>3. Sum(h, Users) = 0 * Cardinality({})
      BY <3>2, SumEach
    <3> QED
      BY <3>1, <3>3, FS_EmptySet
  <2>8. PICK f : f = [t \in Tables |-> Sum(held[t], Users)]
    OBVIOUS
  <2>9. \A t \in Tables : f[t] = IF t \in {} THEN 0 ELSE 0
    BY <2>7, <2>8
  <2>10. Sum(f, Tables) = 0 * Cardinality({})
    BY <2>9, SumEach
  <2>11. Points * Cardinality(Users) \in Int
    BY <2>2, FS_CardinalityType
  <2>12. Sum(p, Tables) = 0 /\ Sum(f, Tables) = 0
    BY <2>6, <2>10, FS_EmptySet
  <2> QED
    BY <2>1, <2>3, <2>4, <2>8, <2>11, <2>12 DEF Balance
<1>6. \A t \in Tables : pot[t] = 0
  BY DEF Centre!Init
<1>7. QED
  BY <1>2, <1>3, <1>4, <1>5, <1>6 DEF TablesInv

(* A request about a table finds it in order and leaves it so.             *)
LEMMA ReadyGood ==
  ASSUME TablesConstants, NEW w, NEW t, NEW c, NEW R, Good(w, t, c, R), NEW u \in DOMAIN w.tb.seats, NEW b,
         NEW x, x = Centre!Count(Centre!With(w, u, [w.tb.seats[u] EXCEPT !.ready = b]))
  PROVE  Good(x, t, c, R)
<1>1. PICK a : a = w.tb.seats[u]
  OBVIOUS
<1>2. PICK s : s = [a EXCEPT !.ready = b]
  OBVIOUS
<1>3. Marked(w, u, a, s)
  BY <1>2 DEF Marked
<1>4. PICK y : y = Centre!With(w, u, s)
  OBVIOUS
<1>5. Good(y, t, c, R)
  BY <1>1, <1>3, <1>4, MarkGood
<1>6. x = Centre!Count(y)
  BY <1>1, <1>2, <1>4
<1>7. QED
  BY <1>5, <1>6, CountGood

LEMMA AutoGood ==
  ASSUME TablesConstants, NEW w, NEW t, NEW c, NEW R, Good(w, t, c, R), NEW u \in DOMAIN w.tb.seats, NEW b \in BOOLEAN,
         NEW s, s = IF b THEN [w.tb.seats[u] EXCEPT !.auto = TRUE] ELSE [w.tb.seats[u] EXCEPT !.auto = FALSE, !.hands = 0],
         NEW x, x = IF w.tb.game = "zjh" /\ w.tb.phase = "waiting" /\ b
                    THEN Centre!Count(Centre!With(w, u, [s EXCEPT !.ready = Centre!CanFund(w, u)])) ELSE Centre!With(w, u, s)
  PROVE  Good(x, t, c, R)
<1>1. PICK a : a = w.tb.seats[u]
  OBVIOUS
<1>2. CASE w.tb.game = "zjh" /\ w.tb.phase = "waiting" /\ b
  <2>1. PICK d : d = Centre!CanFund(w, u)
    OBVIOUS
  <2>2. PICK r : r = [[a EXCEPT !.auto = TRUE] EXCEPT !.ready = d]
    OBVIOUS
  <2>3. Marked(w, u, a, r)
    BY <2>2 DEF Marked
  <2>4. PICK y : y = Centre!With(w, u, r)
    OBVIOUS
  <2>5. Good(y, t, c, R)
    BY <1>1, <2>3, <2>4, MarkGood
  <2>6. x = Centre!Count(y)
    BY <1>1, <1>2, <2>1, <2>2, <2>4
  <2>7. QED
    BY <2>5, <2>6, CountGood
<1>3. CASE ~(w.tb.game = "zjh" /\ w.tb.phase = "waiting" /\ b)
  <2>1. Marked(w, u, a, s)
    BY <1>1 DEF Marked
  <2>2. QED
    BY <1>1, <1>3, <2>1, MarkGood
<1>4. QED
  BY <1>2, <1>3

LEMMA MarkAwayGood ==
  ASSUME TablesConstants, NEW w, NEW t, NEW c, NEW R, Good(w, t, c, R), NEW u \in DOMAIN w.tb.seats,
         NEW x, x = Centre!MarkAway(w, u)
  PROVE  Good(x, t, c, R)
<1>1. PICK a : a = w.tb.seats[u]
  OBVIOUS
<1>2. PICK d : d = IF Centre!InHand(w.tb, u) THEN "hand" ELSE "timed"
  OBVIOUS
<1>3. PICK s : s = [a EXCEPT !.away = d]
  OBVIOUS
<1>4. Marked(w, u, a, s)
  <2>1. d = "timed" => ~Centre!InHand(w.tb, u)
    BY <1>2
  <2>2. \E e : s = [a EXCEPT !.away = e] /\ (e = "timed" => ~Centre!InHand(w.tb, u))
    BY <1>3, <2>1
  <2>3. QED
    BY <2>2, Zenon DEF Marked
<1>5. x = Centre!With(w, u, s)
  BY <1>1, <1>2, <1>3 DEF Centre!MarkAway
<1>6. QED
  BY <1>1, <1>4, <1>5, MarkGood

LEMMA AwayGood ==
  ASSUME TablesConstants, NEW w, NEW t, NEW c, NEW R, Good(w, t, c, R), NEW u \in DOMAIN w.tb.seats,
         NEW x, x = IF w.tb.seats[u].away = "no" THEN Centre!MarkAway(w, u)
                    ELSE Centre!With(w, u, [w.tb.seats[u] EXCEPT !.away = "no", !.hands = 0])
  PROVE  Good(x, t, c, R)
<1>1. PICK a : a = w.tb.seats[u]
  OBVIOUS
<1>2. PICK s : s = [a EXCEPT !.away = "no", !.hands = 0]
  OBVIOUS
<1>3. Marked(w, u, a, s)
  BY <1>2 DEF Marked
<1>4. x = Centre!MarkAway(w, u) \/ x = Centre!With(w, u, s)
  BY <1>1, <1>2
<1>5. QED
  BY <1>1, <1>3, <1>4, MarkGood, MarkAwayGood

LEMMA SatGood ==
  ASSUME TablesConstants, NEW w, Base(w), Calm(w), Turned(w), NEW t, NEW c, NEW R, Ours(w, t, c, R), Hosted(w, R.but),
         NEW u \in Users, Centre!MayJoin(w, u), NEW x \in Centre!Joined(w, u)
  PROVE  Good(x, t, c, R) /\ x.tb.hand = w.tb.hand
<1>1. PICK n \in Nat : SatDown(w, u, n, Centre!Clock(w.tb), x) /\ n <= w.money[u] /\ (w.tb.game # "holdem" => n = 0)
  BY JoinedIs DEF Base
<1>2. u \notin DOMAIN w.tb.seats /\ w.rows[u] = Null /\ w.tb.phase # "closed"
  BY DEF Centre!MayJoin, Centre!Seated
<1>3. QED
  BY <1>1, <1>2, SatDownGood

-----------------------------------------------------------------------------
(* Every action finds the tables in order and leaves them so.              *)
LEMMA WorldsGood ==
  ASSUME TablesConstants, TablesInv, NEW t \in Tables, NEW w \in Centre!Worlds(t)
  PROVE  /\ tables[t] # Null /\ w = Centre!World(t) /\ w.tb = tables[t]
         /\ Good(w, t, tables[t].currency, Before(t, tables[t].currency))
<1>1. tables[t] # Null /\ w = Centre!World(t)
  BY DEF Centre!Worlds
<1>2. QED
  BY <1>1, HereGood

LEMMA HandlerKeeps ==
  ASSUME TablesConstants, TablesInv, NEW t \in Tables, tables[t] # Null, NEW W,
         \A x \in W : Good(x, t, tables[t].currency, Before(t, tables[t].currency)), Centre!Done(W) \/ Centre!Wrote(W)
  PROVE  TablesInv'
<1>1. \E x : Good(x, t, tables[t].currency, Before(t, tables[t].currency)) /\ Centre!Write(x)
  BY DoneGood, WroteGood
<1>2. tables[t].currency \in Centre!Currencies
  BY HereGood
<1>3. QED
  BY <1>1, <1>2, WriteKeeps

LEMMA ReadyKeeps ==
  ASSUME TablesConstants, TablesInv, NEW t \in Tables, NEW u \in Users, Centre!Ready(t, u)
  PROVE  TablesInv'
<1>1. PICK b \in BOOLEAN : \E w \in Centre!Worlds(t) :
        Centre!At(t, u) /\ Centre!Done({Centre!Count(Centre!With(w, u, [w.tb.seats[u] EXCEPT !.ready = b]))})
  BY DEF Centre!Ready
<1>2. PICK w \in Centre!Worlds(t) :
        Centre!At(t, u) /\ Centre!Done({Centre!Count(Centre!With(w, u, [w.tb.seats[u] EXCEPT !.ready = b]))})
  BY <1>1
<1>3. /\ tables[t] # Null /\ w.tb = tables[t]
      /\ Good(w, t, tables[t].currency, Before(t, tables[t].currency))
  BY WorldsGood
<1>4. u \in DOMAIN w.tb.seats
  BY <1>2, <1>3 DEF Centre!At, Centre!Seated
<1>5. \A x \in {Centre!Count(Centre!With(w, u, [w.tb.seats[u] EXCEPT !.ready = b]))} :
        Good(x, t, tables[t].currency, Before(t, tables[t].currency))
  BY <1>3, <1>4, ReadyGood
<1>6. QED
  BY <1>2, <1>3, <1>5, HandlerKeeps

LEMMA StartKeeps ==
  ASSUME TablesConstants, TablesInv, NEW t \in Tables, NEW u \in Users, Centre!Start(t, u)
  PROVE  TablesInv'
<1>1. tables[t] # Null /\ tables[t].phase = "waiting" /\ Centre!Done(Centre!Started(Centre!World(t), TRUE))
  BY DEF Centre!Start, Centre!At, Centre!Sees
<1>2. PICK w : w = Centre!World(t)
  OBVIOUS
<1>3. Good(w, t, tables[t].currency, Before(t, tables[t].currency)) /\ w.tb = tables[t]
  BY <1>1, <1>2, HereGood
<1>4. \A x \in Centre!Started(w, TRUE) : Good(x, t, tables[t].currency, Before(t, tables[t].currency))
  BY <1>1, <1>3, StartedGood
<1>5. QED
  BY <1>1, <1>2, <1>4, HandlerKeeps

LEMMA AutoKeeps ==
  ASSUME TablesConstants, TablesInv, NEW t \in Tables, NEW u \in Users, Centre!Auto(t, u)
  PROVE  TablesInv'
<1> DEFINE set(w, b) == IF b THEN [w.tb.seats[u] EXCEPT !.auto = TRUE]
                        ELSE [w.tb.seats[u] EXCEPT !.auto = FALSE, !.hands = 0]
           set2(w, b) == IF w.tb.game = "zjh" /\ w.tb.phase = "waiting" /\ b
                         THEN Centre!Count(Centre!With(w, u, [set(w, b) EXCEPT !.ready = Centre!CanFund(w, u)]))
                         ELSE Centre!With(w, u, set(w, b))
<1>1. \E b \in BOOLEAN : \E w \in Centre!Worlds(t) : Centre!At(t, u) /\ Centre!Done({set2(w, b)})
  BY Zenon DEF Centre!Auto
<1>2. PICK b \in BOOLEAN : \E w \in Centre!Worlds(t) : Centre!At(t, u) /\ Centre!Done({set2(w, b)})
  BY <1>1
<1>3. PICK w \in Centre!Worlds(t) : Centre!At(t, u) /\ Centre!Done({set2(w, b)})
  BY <1>2
<1>4. /\ tables[t] # Null /\ w.tb = tables[t]
      /\ Good(w, t, tables[t].currency, Before(t, tables[t].currency))
  BY WorldsGood
<1>5. u \in DOMAIN w.tb.seats
  BY <1>3, <1>4 DEF Centre!At, Centre!Seated
<1>6. Good(set2(w, b), t, tables[t].currency, Before(t, tables[t].currency))
  BY <1>4, <1>5, AutoGood
<1> HIDE DEF set2
<1>7. QED
  BY <1>3, <1>4, <1>6, HandlerKeeps

LEMMA AwayKeeps ==
  ASSUME TablesConstants, TablesInv, NEW t \in Tables, NEW u \in Users, Centre!Away(t, u)
  PROVE  TablesInv'
<1> DEFINE set(w) == IF w.tb.seats[u].away = "no" THEN Centre!MarkAway(w, u)
                     ELSE Centre!With(w, u, [w.tb.seats[u] EXCEPT !.away = "no", !.hands = 0])
<1>1. PICK w \in Centre!Worlds(t) : Centre!At(t, u) /\ Centre!Done({set(w)})
  BY Zenon DEF Centre!Away
<1>2. /\ tables[t] # Null /\ w.tb = tables[t]
      /\ Good(w, t, tables[t].currency, Before(t, tables[t].currency))
  BY WorldsGood
<1>3. u \in DOMAIN w.tb.seats
  BY <1>1, <1>2 DEF Centre!At, Centre!Seated
<1>4. Good(set(w), t, tables[t].currency, Before(t, tables[t].currency))
  BY <1>2, <1>3, AwayGood
<1> HIDE DEF set
<1>5. QED
  BY <1>1, <1>2, <1>4, HandlerKeeps

LEMMA SeatKeeps ==
  ASSUME TablesConstants, TablesInv, NEW t \in Tables, NEW u \in Users, Centre!Seat(t, u) \/ Centre!QuickSeat(t, u)
  PROVE  TablesInv'
<1>1. tables[t] # Null /\ Centre!MayJoin(Centre!World(t), u) /\ Centre!Done(Centre!Joined(Centre!World(t), u))
  BY DEF Centre!Seat, Centre!QuickSeat, Centre!Sees
<1>2. PICK w : w = Centre!World(t)
  OBVIOUS
<1>3. Good(w, t, tables[t].currency, Before(t, tables[t].currency)) /\ w.tb = tables[t]
  BY <1>1, <1>2, HereGood
<1>4. \A x \in Centre!Joined(w, u) : Good(x, t, tables[t].currency, Before(t, tables[t].currency))
  BY <1>1, <1>2, <1>3, SatGood DEF Good
<1>5. QED
  BY <1>1, <1>2, <1>4, HandlerKeeps

LEMMA LeaveKeeps ==
  ASSUME TablesConstants, TablesInv, NEW t \in Tables, NEW u \in Users, Centre!Leave(t, u)
  PROVE  TablesInv'
<1>1. tables[t] # Null /\ u \in DOMAIN tables[t].seats /\ Centre!Done(Centre!Left(Centre!World(t), u))
  BY DEF Centre!Leave, Centre!At, Centre!Sees, Centre!Seated
<1>2. PICK w : w = Centre!World(t)
  OBVIOUS
<1>3. Good(w, t, tables[t].currency, Before(t, tables[t].currency)) /\ w.tb = tables[t]
  BY <1>1, <1>2, HereGood
<1>4. \A x \in Centre!Left(w, u) : Good(x, t, tables[t].currency, Before(t, tables[t].currency))
  BY <1>1, <1>3, LeftGood DEF Before
<1>5. QED
  BY <1>1, <1>2, <1>4, HandlerKeeps

LEMMA ActKeeps ==
  ASSUME TablesConstants, TablesInv, NEW t \in Tables, NEW u \in Users, Centre!Act(t, u)
  PROVE  TablesInv'
<1>1. PICK w \in Centre!Worlds(t) : Centre!InHand(w.tb, u) /\ w.tb.hand.cur = u /\ Centre!Done(Centre!Moved(w, u))
  BY DEF Centre!Act
<1>2. /\ tables[t] # Null /\ w.tb = tables[t]
      /\ Good(w, t, tables[t].currency, Before(t, tables[t].currency))
  BY WorldsGood
<1>3. w.tb.hand # Null /\ u \in DOMAIN w.tb.hand.budget
  BY <1>1 DEF Centre!InHand
<1>4. \A x \in Centre!Moved(w, u) : Good(x, t, tables[t].currency, Before(t, tables[t].currency))
  BY <1>2, <1>3, MovedGood DEF Good
<1>5. QED
  BY <1>1, <1>2, <1>4, HandlerKeeps

LEMMA EndBoardKeeps ==
  ASSUME TablesConstants, TablesInv, NEW t \in Tables, NEW u \in Users, Centre!EndBoard(t, u)
  PROVE  TablesInv'
<1>1. PICK w \in Centre!Worlds(t) : /\ Centre!InHand(w.tb, u)
                               /\ \E a \in Centre!BoardAwards(w.tb.hand) : Centre!Done(Centre!Close(w, a))
  BY DEF Centre!EndBoard
<1>2. PICK a \in Centre!BoardAwards(w.tb.hand) : Centre!Done(Centre!Close(w, a))
  BY <1>1
<1>3. /\ tables[t] # Null /\ w.tb = tables[t]
      /\ Good(w, t, tables[t].currency, Before(t, tables[t].currency))
  BY WorldsGood
<1>4. w.tb.hand # Null /\ a \in Centre!Awards(w.tb.hand)
  BY <1>1 DEF Centre!InHand, Centre!BoardAwards
<1>6. \A x \in Centre!Close(w, a) : Good(x, t, tables[t].currency, Before(t, tables[t].currency))
  BY <1>3, <1>4, CloseKeeps DEF Good
<1>7. QED
  BY <1>2, <1>3, <1>6, HandlerKeeps

LEMMA TopUpKeeps ==
  ASSUME TablesConstants, TablesInv, NEW t \in Tables, NEW u \in Users, Centre!TopUp(t, u)
  PROVE  TablesInv'
<1> DEFINE more(w, n) == Centre!With(Centre!Reserve(w, Centre!Only(u, n)), u, [w.tb.seats[u] EXCEPT !.stack = @ + n])
<1>1. PICK w \in Centre!Worlds(t) : \E n \in 1 .. BuyMax :
        /\ Centre!At(t, u) /\ w.tb.game = "holdem" /\ w.tb.hand = Null /\ n <= Centre!Available(w, u)
        /\ Centre!Done({more(w, n)})
  BY DEF Centre!TopUp
<1>2. PICK n \in 1 .. BuyMax : /\ Centre!At(t, u) /\ w.tb.game = "holdem" /\ w.tb.hand = Null /\ n <= Centre!Available(w, u)
                               /\ Centre!Done({more(w, n)})
  BY <1>1
<1>3. /\ tables[t] # Null /\ w.tb = tables[t]
      /\ Good(w, t, tables[t].currency, Before(t, tables[t].currency))
  BY WorldsGood
<1>4. u \in DOMAIN w.tb.seats
  BY <1>2, <1>3 DEF Centre!At, Centre!Seated
<1>5. n \in Nat /\ n <= w.money[u]
  BY <1>2 DEF Centre!Available, TablesConstants, Centre!TablesAssumption
<1>6. Good(more(w, n), t, tables[t].currency, Before(t, tables[t].currency))
  BY <1>2, <1>3, <1>4, <1>5, TopUpGood
<1> HIDE DEF more
<1>7. QED
  BY <1>2, <1>3, <1>6, HandlerKeeps

LEMMA CreateKeeps ==
  ASSUME TablesConstants, TablesInv, NEW t \in Tables, NEW u \in Users, Centre!Create(t, u)
  PROVE  TablesInv'
<1>1. PICK g \in Games : \E c \in Centre!Currencies :
        /\ tables[t] = Null
        /\ \E w \in {Centre!WorldOf(t, Centre!NewTable(g, c, u))} :
             Centre!MayJoin(w, u) /\ Centre!Done({Centre!WithRobot(x) : x \in Centre!Joined(w, u)})
  BY DEF Centre!Create
<1>2. PICK c \in Centre!Currencies :
        /\ tables[t] = Null
        /\ \E w \in {Centre!WorldOf(t, Centre!NewTable(g, c, u))} :
             Centre!MayJoin(w, u) /\ Centre!Done({Centre!WithRobot(x) : x \in Centre!Joined(w, u)})
  BY <1>1
<1>3. PICK w : w = Centre!WorldOf(t, Centre!NewTable(g, c, u))
  OBVIOUS
<1>4. tables[t] = Null /\ Centre!MayJoin(w, u) /\ Centre!Done({Centre!WithRobot(x) : x \in Centre!Joined(w, u)})
  BY <1>2, <1>3
<1>5. PICK tb : tb = Centre!NewTable(g, c, u)
  OBVIOUS
<1>6. /\ IsTable(tb) /\ tb.game = g /\ tb.currency = c /\ tb.phase = "waiting" /\ tb.hand = Null
      /\ tb.seats = [v \in {} |-> Null] /\ tb.host = Null
  BY <1>5 DEF Centre!NewTable, IsTable
<1>7. /\ IsWorld(w) /\ w.id = t /\ w.tb = tb /\ w.money = wallet[c] /\ w.held = held[t] /\ w.pot = pot[t] /\ w.rows = rows[c]
  BY <1>3, <1>5, <1>6 DEF Centre!WorldOf, IsWorld
<1>8. DOMAIN tb.seats = {}
  BY <1>6
<1>9. Typed(w)
  <2>1. wallet[c] \in [Users -> Nat] /\ held[t] \in [Users -> Nat] /\ rows[c] = [v \in Users |-> rows[c][v]]
    BY DEF TablesInv
  <2>2. g \in {"zjh", "holdem", "board"} /\ c \in {"points", "beans"}
    BY DEF TablesConstants, Centre!TablesAssumption, Centre!Currencies
  <2>3. tb.seats = [v \in DOMAIN tb.seats |-> tb.seats[v]]
    BY <1>6
  <2>4. QED
    BY <1>6, <1>7, <1>8, <2>1, <2>2, <2>3 DEF Typed
<1>10. Agreed(w)
  <2>1. Null \notin Tables
    BY DEF TablesConstants, Centre!TablesAssumption
  <2>2. \A v \in Users : rows[c][v] # t
    BY <1>4, <2>1 DEF TablesInv
  <2>3. QED
    BY <1>7, <1>8, <2>2 DEF Agreed
<1>11. Handled(w) /\ Calm(w) /\ Turned(w)
  BY <1>6, <1>7, <1>8 DEF Handled, Calm, Turned
<1>12. Escrowed(w)
  BY <1>4, <1>7, <1>8 DEF Escrowed, InEscrow, TablesInv
<1> Funded(w)
  BY <1>4, <1>6, <1>7, <1>8 DEF TablesInv, Funded, Staked
<1> Base(w)
  <2>1. Headed(w) /\ Ranked(w)
    BY <1>6, <1>7, <1>8 DEF Headed, Ranked
  <2> QED
    BY <1>9, <1>10, <1>11, <1>12, <2>1 DEF Base
<1>13. Ours(w, t, c, Before(t, c))
  <2>1. c = "points" => Worth(w) = Sum(w.money, Users) + Sum(w.held, Users) + w.pot
    BY <1>6, <1>7, WorthIs
  <2> QED
    BY <1>6, <1>7, <2>1 DEF Ours, Before
<1> Hosted(w, Null) /\ Before(t, c).but = Null
  BY <1>6, <1>7, <1>8 DEF Hosted, Before
<1>14. ASSUME NEW x \in Centre!Joined(w, u) PROVE Good(Centre!WithRobot(x), t, c, Before(t, c))
  <2>1. Good(x, t, c, Before(t, c)) /\ x.tb.hand = w.tb.hand
    BY <1>4, <1>11, <1>13, SatGood
  <2>2. QED
    BY <1>6, <1>7, <2>1, RobotGood
<1>15. \A x \in {Centre!WithRobot(x) : x \in Centre!Joined(w, u)} : Good(x, t, c, Before(t, c))
  BY <1>14
<1>16. \E x : Good(x, t, c, Before(t, c)) /\ Centre!Write(x)
  BY <1>4, <1>15, DoneGood
<1>17. QED
  BY <1>4, <1>16, WriteKeeps

LEMMA TurnDueKeeps ==
  ASSUME TablesConstants, TablesInv, NEW t \in Tables, Centre!TurnDue(t)
  PROVE  TablesInv'
<1>1. PICK w \in Centre!Worlds(t) : w.tb.phase = "playing" /\ Centre!Wrote(TimedOut(w))
  BY Zenon DEF Centre!TurnDue, TimedOut
<1>2. /\ tables[t] # Null /\ w.tb = tables[t]
      /\ Good(w, t, tables[t].currency, Before(t, tables[t].currency))
  BY WorldsGood
<1>3. w.tb.hand # Null
  BY <1>1, <1>2 DEF Good, Base, Handled
<1>4. \A x \in TimedOut(w) : Good(x, t, tables[t].currency, Before(t, tables[t].currency))
  BY <1>2, <1>3, TimedOutGood
<1>5. QED
  BY <1>1, <1>2, <1>4, HandlerKeeps

LEMMA StartDueKeeps ==
  ASSUME TablesConstants, TablesInv, NEW t \in Tables, Centre!StartDue(t)
  PROVE  TablesInv'
<1>1. tables[t] # Null /\ tables[t].phase \in {"waiting", "between"} /\ Centre!Wrote(Centre!Started(Centre!World(t), FALSE))
  BY DEF Centre!StartDue, Centre!Timer
<1>2. PICK w : w = Centre!World(t)
  OBVIOUS
<1>3. Good(w, t, tables[t].currency, Before(t, tables[t].currency)) /\ w.tb = tables[t]
  BY <1>1, <1>2, HereGood
<1>4. \A x \in Centre!Started(w, FALSE) : Good(x, t, tables[t].currency, Before(t, tables[t].currency))
  BY <1>1, <1>3, StartedGood
<1>5. QED
  BY <1>1, <1>2, <1>4, HandlerKeeps

(* Nobody is in a hand when the table is not playing.                      *)
LEMMA NoneInHand ==
  ASSUME NEW w, Base(w), w.tb.phase # "playing"
  PROVE  w.tb.hand = Null /\ \A u : ~Centre!InHand(w.tb, u)
BY DEF Base, Handled, Centre!InHand

LEMMA IdleDueKeeps ==
  ASSUME TablesConstants, TablesInv, NEW t \in Tables, Centre!IdleDue(t)
  PROVE  TablesInv'
<1>1. PICK w \in Centre!Worlds(t) : /\ w.tb.phase \in {"waiting", "between"}
        /\ Centre!Write(IF w.tb.game = "holdem" THEN Centre!Vacate(w, Centre!Humans(w.tb))
                   ELSE [w EXCEPT !.tb = Centre!Closed(@), !.rows = [u \in Users |-> IF @[u] = t THEN Null ELSE @[u]]])
  BY DEF Centre!IdleDue
<1>2. /\ tables[t] # Null /\ w.tb = tables[t] /\ w = Centre!World(t)
      /\ Good(w, t, tables[t].currency, Before(t, tables[t].currency))
  BY WorldsGood
<1>3. Base(w) /\ Typed(w) /\ Manned(w) /\ Calm(w) /\ Turned(w) /\ Hosted(w, Null) /\ Ours(w, t, tables[t].currency, Before(t, tables[t].currency))
  BY <1>2 DEF Good, Base, Before
<1>4. w.tb.hand = Null /\ \A u : ~Centre!InHand(w.tb, u)
  BY <1>1, <1>3, NoneInHand
<1>5. PICK x : x = IF w.tb.game = "holdem" THEN Centre!Vacate(w, Centre!Humans(w.tb))
                   ELSE [w EXCEPT !.tb = Centre!Closed(w.tb), !.rows = [u \in Users |-> IF w.rows[u] = t THEN Null ELSE w.rows[u]]]
  OBVIOUS
<1>6. Centre!Write(x)
  BY <1>1, <1>5
<1>7. Good(x, t, tables[t].currency, Before(t, tables[t].currency))
  <2>1. CASE w.tb.game = "holdem"
    <3>1. PICK S : S = Centre!Humans(w.tb)
      OBVIOUS
    <3>2. S \in SUBSET Users /\ S \subseteq DOMAIN w.tb.seats
      BY <1>3, <3>1 DEF Typed, Centre!Humans, Centre!Seated
    <3>3. x = Centre!Vacate(w, S)
      BY <1>5, <2>1, <3>1
    <3>4. QED
      <4>1. /\ Base(x) /\ Manned(x) /\ Calm(x) /\ Turned(x) /\ Hosted(x, Null)
            /\ Ours(x, t, tables[t].currency, Before(t, tables[t].currency))
        BY <1>3, <1>4, <3>2, <3>3, VacateKeeps
      <4>2. QED
        BY <4>1 DEF Good, Before
  <2>2. CASE w.tb.game # "holdem"
    BY <1>2, <1>4, <1>5, <2>2, IdledGood
  <2>3. QED
    BY <2>1, <2>2
<1>8. tables[t].currency \in Centre!Currencies
  BY <1>2, HereGood
<1>9. QED
  BY <1>6, <1>7, <1>8, WriteKeeps

LEMMA HostDueKeeps ==
  ASSUME TablesConstants, TablesInv, NEW t \in Tables, Centre!HostDue(t)
  PROVE  TablesInv'
<1>1. tables[t] # Null /\ Centre!Wrote({[Centre!World(t) EXCEPT !.tb = Centre!TransferHost(@)]})
  BY DEF Centre!HostDue, Centre!Timer
<1>2. PICK w : w = Centre!World(t)
  OBVIOUS
<1>3. Good(w, t, tables[t].currency, Before(t, tables[t].currency)) /\ w.tb = tables[t]
  BY <1>1, <1>2, HereGood
<1>4. PICK x : x = [w EXCEPT !.tb = Centre!TransferHost(w.tb)]
  OBVIOUS
<1>5. Good(x, t, tables[t].currency, Before(t, tables[t].currency))
  BY <1>3, <1>4, HostAlike, AlikeGood DEF Good, Base
<1>6. Centre!Wrote({x})
  BY <1>1, <1>2, <1>4
<1>7. QED
  BY <1>1, <1>5, <1>6, HandlerKeeps

LEMMA AwayDueKeeps ==
  ASSUME TablesConstants, TablesInv, NEW t \in Tables, NEW u \in Users, Centre!AwayDue(t, u)
  PROVE  TablesInv'
<1>1. PICK w \in Centre!Worlds(t) : /\ w.tb.game = "holdem" /\ u \in Centre!Staying(w.tb)
        /\ \/ w.tb.seats[u].away = "timed" /\ Centre!Wrote({Centre!Vacate(w, {u})})
           \/ Centre!Wrote({Centre!MarkAway(w, u)})
  BY DEF Centre!AwayDue
<1>2. /\ tables[t] # Null /\ w.tb = tables[t]
      /\ Good(w, t, tables[t].currency, Before(t, tables[t].currency))
  BY WorldsGood
<1>3. u \in DOMAIN w.tb.seats
  BY <1>1 DEF Centre!Staying, Centre!Humans, Centre!Seated
<1>4. CASE w.tb.seats[u].away = "timed" /\ Centre!Wrote({Centre!Vacate(w, {u})})
  <2>1. ~Centre!InHand(w.tb, u)
    BY <1>1, <1>2, <1>4 DEF Good, Base, Handled, Centre!InHand
  <2>2. PICK x : x = Centre!Vacate(w, {u})
    OBVIOUS
  <2>3. {u} \in SUBSET Users /\ (\A v \in {u} : ~Centre!InHand(w.tb, v)) /\ {u} \subseteq DOMAIN w.tb.seats
    BY <1>3, <2>1
  <2>4. Good(x, t, tables[t].currency, Before(t, tables[t].currency))
    BY <1>2, <2>2, <2>3, VacateKeeps DEF Good
  <2>5. QED
    BY <1>2, <1>4, <2>2, <2>4, HandlerKeeps
<1>5. CASE Centre!Wrote({Centre!MarkAway(w, u)})
  <2>1. \A x \in {Centre!MarkAway(w, u)} : Good(x, t, tables[t].currency, Before(t, tables[t].currency))
    BY <1>2, <1>3, MarkAwayGood
  <2>2. QED
    BY <1>2, <1>5, <2>1, HandlerKeeps
<1>6. QED
  BY <1>1, <1>4, <1>5

LEMMA OfflineKeeps ==
  ASSUME TablesConstants, TablesInv, NEW t \in Tables, NEW u \in Users, Centre!Offline(t, u)
  PROVE  TablesInv'
<1>1. /\ tables[t] # Null /\ tables[t].phase = "waiting" /\ u \in DOMAIN tables[t].seats
      /\ Centre!Wrote({Centre!Gone(Centre!World(t), u)})
  BY DEF Centre!Offline, Centre!Timer, Centre!Humans, Centre!Seated
<1>2. PICK w : w = Centre!World(t)
  OBVIOUS
<1>3. Good(w, t, tables[t].currency, Before(t, tables[t].currency)) /\ w.tb = tables[t]
  BY <1>1, <1>2, HereGood
<1>4. ~Centre!InHand(w.tb, u)
  BY <1>1, <1>3, NoneInHand DEF Good
<1>5. \A x \in {Centre!Gone(w, u)} : Good(x, t, tables[t].currency, Before(t, tables[t].currency))
  BY <1>1, <1>3, <1>4, GoneGood
<1>6. QED
  BY <1>1, <1>2, <1>5, HandlerKeeps

LEMMA SameTables ==
  ASSUME TablesInv, wallet' \in [Centre!Currencies -> [Users -> Nat]], wallet'["points"] = wallet["points"],
         UNCHANGED <<held, pot, rows, tables>>
  PROVE  TablesInv'
<1>1. ASSUME NEW t \in Tables, tables[t] # Null PROVE Kept(Centre!World(t))'
  <2>1. PICK v : v = Centre!World(t)
    OBVIOUS
  <2>2. Kept(v)
    BY <1>1, <2>1 DEF TablesInv
  <2>3. /\ IsWorld(v) /\ v.id = t /\ v.tb = tables[t] /\ v.held = held[t] /\ v.pot = pot[t] /\ v.rows = rows[tables[t].currency]
    BY <2>1, WorldIs
  <2>4. PICK w : w = Centre!World(t)'
    OBVIOUS
  <2>5. /\ IsWorld(w) /\ w.id = t /\ w.tb = tables[t] /\ w.money = wallet'[tables[t].currency]
        /\ w.held = held[t] /\ w.pot = pot[t] /\ w.rows = rows[tables[t].currency]
    BY <2>4 DEF Centre!World, Centre!WorldOf, IsWorld
  <2>6. tables[t].currency \in Centre!Currencies
    BY <2>2, <2>3 DEF Kept, Base, Typed, Centre!Currencies
  <2>7. w.money \in [Users -> Nat]
    BY <2>5, <2>6
  <2>8. Typed(w)
    BY <2>2, <2>3, <2>5, <2>7 DEF Kept, Base, Typed
  <2>9. Agreed(w) /\ Handled(w) /\ Manned(w) /\ Calm(w) /\ Turned(w)
    BY <2>2, <2>3, <2>5 DEF Kept, Base, Agreed, Handled, Manned, Calm, Turned
  <2>10. Escrowed(w)
    BY <2>2, <2>3, <2>5 DEF Kept, Base, Escrowed, InEscrow
  <2>11. Headed(w) /\ Ranked(w) /\ Hosted(w, Null)
    BY <2>2, <2>3, <2>5 DEF Kept, Base, Headed, Ranked, Hosted
  <2> Funded(w)
    BY <2>2, <2>3, <2>5 DEF Kept, Base, Funded, Staked
  <2>12. Kept(w)
    BY <2>8, <2>9, <2>10, <2>11 DEF Kept, Base
  <2>13. QED
    BY <2>4, <2>12 DEF Kept, Base, Typed, Agreed, Handled, Escrowed, InEscrow, Headed, Ranked, Funded, Staked, Hosted, Manned, Calm, Turned
<1>2. Balance(wallet["points"], pot, held)' = Points * Cardinality(Users)
  BY DEF TablesInv
<1>3. QED
  BY <1>1, <1>2 DEF TablesInv

LEMMA ChangeKeeps ==
  ASSUME TablesConstants, TablesInv, Centre!Change
  PROVE  TablesInv'
<1>1. /\ UNCHANGED <<held, pot, rows, tables>>
      /\ \/ wallet' = wallet
         \/ wallet' = [wallet EXCEPT !["beans"] = [u \in Users |-> IF @[u] < Beans THEN Beans ELSE @[u]]]
  BY DEF Centre!Change
<1>2. wallet' \in [Centre!Currencies -> [Users -> Nat]]
  <2>1. CASE wallet' = wallet
    BY <2>1 DEF TablesInv
  <2>2. CASE wallet' # wallet
    <3>1. PICK m : m = [u \in Users |-> IF wallet["beans"][u] < Beans THEN Beans ELSE wallet["beans"][u]]
      OBVIOUS
    <3>2. wallet' = [wallet EXCEPT !["beans"] = m]
      BY <1>1, <2>2, <3>1
    <3>3. wallet["beans"] \in [Users -> Nat] /\ Beans \in Nat
      BY DEF TablesInv, Centre!Currencies, TablesConstants, Centre!TablesAssumption
    <3>4. m \in [Users -> Nat]
      BY <3>1, <3>3
    <3>5. QED
      BY <3>2, <3>4 DEF TablesInv
  <2>3. QED
    BY <2>1, <2>2
<1>3. wallet'["points"] = wallet["points"]
  BY <1>1 DEF TablesInv, Centre!Currencies
<1>4. QED
  BY <1>1, <1>2, <1>3, SameTables

(* What is in order at the tables has the properties that are checked.     *)
LEMMA TablesSound ==
  ASSUME TablesConstants, TablesInv
  PROVE  Centre!RowsAgree /\ Centre!HandsSeated /\ Centre!HostsStay /\ Centre!HeldExplained /\ Centre!NoOverdraft
         /\ Centre!PotsExplained /\ Centre!PointsConserved
<1>1. ASSUME NEW t \in Tables, tables[t] # Null PROVE Kept(Centre!World(t))
  BY <1>1 DEF TablesInv
<1>2. Centre!RowsAgree
  BY <1>1, WorldIs DEF Centre!RowsAgree, Centre!InUse, Centre!Seated, Kept, Base, Agreed
<1>3. Centre!HandsSeated
  <2>1. ASSUME NEW t \in Tables, tables[t] # Null
        PROVE  LET tb == tables[t] IN
               /\ tb.phase = "playing" <=> tb.hand # Null
               /\ tb.hand # Null => tb.hand.cur \in tb.hand.live /\ DOMAIN tb.hand.budget \subseteq Centre!Seated(tb)
               /\ tb.hand = Null => \A u \in Centre!Humans(tb) : ~tb.seats[u].leaving
               /\ tb.phase # "closed" <=> Centre!Humans(tb) # {}
    <3>1. PICK w : w = Centre!World(t)
      OBVIOUS
    <3>2. Kept(w) /\ w.tb = tables[t]
      BY <1>1, <2>1, <3>1, WorldIs
    <3>3. /\ tables[t].phase = "playing" <=> tables[t].hand # Null
          /\ tables[t].hand # Null => DOMAIN tables[t].hand.budget \subseteq DOMAIN tables[t].seats
      BY <3>2 DEF Kept, Base, Handled
    <3>4. tables[t].hand # Null => tables[t].hand.cur \in tables[t].hand.live
      BY <3>2 DEF Kept, Turned
    <3>5. tables[t].hand = Null => \A u \in DOMAIN tables[t].seats \ {Robot} : ~tables[t].seats[u].leaving
      BY <3>2 DEF Kept, Calm
    <3>6. tables[t].phase # "closed" <=> DOMAIN tables[t].seats \ {Robot} # {}
      BY <3>2 DEF Kept, Manned
    <3>7. QED
      BY <3>3, <3>4, <3>5, <3>6 DEF Centre!Humans, Centre!Seated
  <2>2. QED
    BY <2>1 DEF Centre!HandsSeated, Centre!InUse
<1>4. Centre!HeldExplained
  <2>1. ASSUME NEW t \in Tables, NEW u \in Users PROVE held[t][u] = Centre!HeldAt(t, u)
    <3>1. CASE tables[t] = Null
      BY <3>1 DEF TablesInv, Centre!HeldAt
    <3>2. CASE tables[t] # Null
      <4>1. PICK w : w = Centre!World(t)
        OBVIOUS
      <4>2. Kept(w) /\ w.tb = tables[t] /\ w.held = held[t]
        BY <1>1, <3>2, <4>1, WorldIs
      <4>3. held[t][u] = InEscrow(w, u)
        BY <4>2 DEF Kept, Base, Escrowed
      <4>4. InEscrow(w, u) = Centre!HeldAt(t, u)
        BY <3>2, <4>2 DEF InEscrow, Centre!HeldAt, Centre!Chips, Centre!Seated, Centre!InHand
      <4>5. QED
        BY <4>3, <4>4
    <3>3. QED
      BY <3>1, <3>2
  <2>2. QED
    BY <2>1 DEF Centre!HeldExplained
<1>5. Centre!NoOverdraft
  BY DEF TablesInv, Centre!NoOverdraft
<1>6. Centre!HostsStay
  <2>1. ASSUME NEW t \in Tables, tables[t] # Null
        PROVE  /\ IF Centre!Staying(tables[t]) = {} THEN tables[t].host = Null
                  ELSE tables[t].host \in Centre!Staying(tables[t])
               /\ \A u, v \in Centre!Humans(tables[t]) : tables[t].seats[u].since = tables[t].seats[v].since => u = v
    <3>1. PICK w : w = Centre!World(t)
      OBVIOUS
    <3>2. Headed(w) /\ Ranked(w) /\ Hosted(w, Null) /\ w.tb = tables[t]
      BY <1>1, <2>1, <3>1, WorldIs DEF Kept, Base
    <3>3. QED
      BY <3>2 DEF Headed, Ranked, Hosted, Centre!Staying, Centre!Humans, Centre!Seated
  <2>2. QED
    BY <2>1 DEF Centre!HostsStay, Centre!InUse
<1>7. Centre!PotsExplained
  <2>1. ASSUME NEW t \in Tables PROVE pot[t] = Centre!PotAt(t)
    <3>1. CASE tables[t] = Null
      BY <3>1 DEF TablesInv, Centre!PotAt
    <3>2. CASE tables[t] # Null
      <4>1. PICK w : w = Centre!World(t)
        OBVIOUS
      <4>2. w.tb = tables[t] /\ w.pot = pot[t] /\ w.pot = Staked(w) /\ w.tb.currency \in {"points", "beans"}
        <5>1. Kept(w)
          BY <1>1, <3>2, <4>1
        <5>2. Typed(w) /\ Funded(w)
          BY <5>1 DEF Kept, Base
        <5>3. w.tb = tables[t] /\ w.pot = pot[t]
          BY <4>1, WorldIs
        <5>4. w.tb.currency \in {"points", "beans"}
          BY <5>2 DEF Typed
        <5>5. w.pot = Staked(w)
          BY <5>2 DEF Funded
        <5> QED
          BY <5>3, <5>4, <5>5
      <4>3. Staked(w) = Centre!PotAt(t)
        BY <3>2, <4>2 DEF Staked, Centre!PotAt
      <4> QED
        BY <4>2, <4>3
    <3> QED
      BY <3>1, <3>2
  <2> QED
    BY <2>1 DEF Centre!PotsExplained
<1>8. Centre!PointsConserved
  <2>1. PICK m : m = wallet["points"]
    OBVIOUS
  <2>2. DOMAIN m = Users
    BY <2>1 DEF TablesInv, Centre!Currencies
  <2>3. Centre!Total(m) = Sum(m, Users)
    BY <2>2, TotalIs
  <2>4. PICK p : p = pot
    OBVIOUS
  <2>5. DOMAIN p = Tables
    BY <2>4 DEF TablesInv
  <2>6. Centre!Total(p) = Sum(p, Tables)
    BY <2>5, TotalIs
  <2>7. ASSUME NEW t \in Tables PROVE Centre!Total(held[t]) = Sum(held[t], Users)
    <3>1. PICK h : h = held[t]
      OBVIOUS
    <3>2. DOMAIN h = Users
      BY <3>1 DEF TablesInv
    <3> QED
      BY <3>1, <3>2, TotalIs
  <2>8. PICK f : f = [t \in Tables |-> Centre!Total(held[t])]
    OBVIOUS
  <2>9. f = [t \in Tables |-> Sum(held[t], Users)] /\ DOMAIN f = Tables
    BY <2>7, <2>8
  <2>10. Centre!Total(f) = Sum(f, Tables)
    BY <2>9, TotalIs
  <2>11. Sum(m, Users) + Sum(p, Tables) + Sum(f, Tables) = Points * Cardinality(Users)
    BY <2>1, <2>4, <2>9 DEF TablesInv, Balance
  <2>12. Centre!Total(m) + Centre!Total(p) + Centre!Total(f) = Points * Centre!Cardinality(Users)
    BY <2>3, <2>6, <2>10, <2>11, CountPlayers
  <2> QED
    BY <2>1, <2>4, <2>8, <2>12 DEF Centre!PointsConserved
<1>9. QED
  BY <1>2, <1>3, <1>4, <1>5, <1>6, <1>7, <1>8

LEMMA TablesNext == ASSUME TablesConstants, TablesInv, [Centre!Next]_(Centre!vars) PROVE TablesInv'
<1>1. ASSUME Centre!Change PROVE TablesInv'
  BY <1>1, ChangeKeeps
<1>2. ASSUME NEW t \in Tables, Centre!TurnDue(t) \/ Centre!StartDue(t) \/ Centre!IdleDue(t) \/ Centre!HostDue(t)
      PROVE  TablesInv'
  BY <1>2, TurnDueKeeps, StartDueKeeps, IdleDueKeeps, HostDueKeeps
<1>3. ASSUME NEW t \in Tables, NEW u \in Users,
             \/ Centre!Create(t, u) \/ Centre!Seat(t, u) \/ Centre!QuickSeat(t, u) \/ Centre!Ready(t, u) \/ Centre!Start(t, u)
             \/ Centre!Auto(t, u) \/ Centre!Away(t, u) \/ Centre!TopUp(t, u) \/ Centre!Act(t, u) \/ Centre!EndBoard(t, u)
             \/ Centre!Leave(t, u) \/ Centre!AwayDue(t, u) \/ Centre!Offline(t, u)
      PROVE  TablesInv'
  BY <1>3, CreateKeeps, SeatKeeps, ReadyKeeps, StartKeeps, AutoKeeps, AwayKeeps, TopUpKeeps, ActKeeps,
     EndBoardKeeps, LeaveKeeps, AwayDueKeeps, OfflineKeeps
<1>4. ASSUME UNCHANGED (Centre!vars) PROVE TablesInv'
  <2>1. wallet' = wallet /\ held' = held /\ pot' = pot /\ rows' = rows /\ tables' = tables
    BY <1>4 DEF Centre!vars
  <2>2. QED
    BY <2>1, SameTables DEF TablesInv
<1>5. QED
  BY <1>1, <1>2, <1>3, <1>4 DEF Centre!Next

(* Whatever members ask for and whichever deadline passes, in any order and *)
(* with any hands: a member sits at a table just when his row of its       *)
(* currency says so; the players of a hand are seated until it is over, a  *)
(* leaver goes with it, and a table without members is closed; somebody    *)
(* who stays is the host whenever anyone does; what the escrow rows hold   *)
(* is what the tables' stacks and hands account for, so that no release or *)
(* settlement can fail; the pot of a zjh hand is what its players have put *)
(* in; nobody pays more than he has; and no points are made or lost.       *)
THEOREM TablesKeepTheirBooks ==
  ASSUME TablesConstants
  PROVE  Centre!Spec => [](Centre!SeatsAgree /\ Centre!TableMoney)
<1>1. Centre!Init => TablesInv
  BY TablesStart
<1>2. TablesInv /\ [Centre!Next]_(Centre!vars) => TablesInv'
  BY TablesNext
<1>3. TablesInv => Centre!SeatsAgree /\ Centre!TableMoney
  BY TablesSound DEF Centre!SeatsAgree, Centre!TableMoney
<1>4. QED
  BY <1>1, <1>2, <1>3, PTL DEF Centre!Spec

-----------------------------------------------------------------------------
(* Beside the other components of the game centre the tables are as they   *)
(* are alone.                                                              *)
TablesAtWork == AtTables => TablesInv

LEMMA TablesAtFirst == ASSUME TablesConstants, UnionInit PROVE TablesAtWork
<1>1. AtTables => Centre!Init
  BY DEF UnionInit, AtTables
<1>2. QED
  BY <1>1, TablesStart DEF TablesAtWork

LEMMA TablesStep == ASSUME TablesConstants, TablesAtWork, [UnionNext]_allVars PROVE TablesAtWork'
<1>1. AtTables' => AtTables
  BY DEF UnionNext, InOutbox, InHoldem, InZjh, InPair, InPractice, InCentre, InBusy, AtTables, allVars
<1>2. AtTables => [Centre!Next]_(Centre!vars)
  BY DEF UnionNext, InOutbox, InHoldem, InZjh, InPair, InPractice, InCentre, InBusy, AtTables, allVars,
     others, Centre!vars
<1>3. QED
  BY <1>1, <1>2, TablesNext DEF TablesAtWork

(* A member's row of a currency and the document of the table agree on     *)
(* where he sits; the players of a hand stay seated until it is over and a *)
(* leaver goes with it; and a table has a host who is going to stay        *)
(* whenever anyone is (GameCenter._join, _vacate, _transfer_host).         *)
THEOREM TableSeatsAgree == ASSUME TablesConstants PROVE UnionSpec => []SeatsAgree
<1>1. TablesAtWork => SeatsAgree
  BY TablesSound DEF TablesAtWork, SeatsAgree, Centre!SeatsAgree
<1>2. UnionInit => TablesAtWork
  BY TablesAtFirst
<1>3. TablesAtWork /\ [UnionNext]_allVars => TablesAtWork'
  BY TablesStep
<1>4. QED
  BY <1>1, <1>2, <1>3, PTL DEF UnionSpec

(* Of the money of the tables nothing is unexplained, lost or overdrawn,    *)
(* whatever the games and however their hands end: an escrow holds a stack *)
(* or what a player has not yet put in, a pot what has been put in, and    *)
(* wallets, escrows and pots hold the same points together as at first     *)
(* (CashBook.reserve and release, ZjhGame._consume and settle,             *)
(* GameCenter.finish_hand).                                                *)
THEOREM TablesMoneyKept == ASSUME TablesConstants PROVE UnionSpec => []TableMoney
<1>1. TablesAtWork => TableMoney
  BY TablesSound DEF TablesAtWork, TableMoney, Centre!TableMoney
<1>2. UnionInit => TablesAtWork
  BY TablesAtFirst
<1>3. TablesAtWork /\ [UnionNext]_allVars => TablesAtWork'
  BY TablesStep
<1>4. QED
  BY <1>1, <1>2, <1>3, PTL DEF UnionSpec
=============================================================================
