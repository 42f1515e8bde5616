-------------------------- MODULE RedPacketsProofs --------------------------
(***************************************************************************)
(* For any members, rules, amounts and outside changes, no point of a red  *)
(* packet is created, lost or paid twice; its shares are drawn exactly,    *)
(* its card is posted once, and its end is final.                          *)
(*                                                                         *)
(* The four invariants support each other: a claim is credited with the    *)
(* share of its slot (SharesInOrder), so that what remains is cut[claimed] *)
(* (NothingLost); nobody has an earlier share (OneShareEach), so that the  *)
(* new one explains the whole change of the balance (LedgerBalanced).      *)
(* Shape adds what confirm establishes of the shares, and that the columns *)
(* of a row that was never confirmed still have their defaults.            *)
(*                                                                         *)
(* The last part is about the card and the receipt after that: a version is *)
(* recorded when it is on the card (FaceInv), and while calls end before   *)
(* their lease only the owner of an effect carries it out (Held).          *)
(***************************************************************************)
EXTENDS MCPackets, Sequences, TLAPS

Shape ==
    /\ Confirmed => Exact(offer, cut) /\ offer.parts \in Nat \ {0} /\ claimed <= offer.parts
    /\ ~Confirmed => claimed = 0 /\ claims = {}
    /\ status # "expired" => refunded = 0 /\ voided = 0

MoneyInv == Shape /\ LedgerBalanced /\ NothingLost /\ SharesInOrder /\ OneShareEach

PacketInv == TypeOK /\ MoneyInv

core == <<balance, other, status, origin, offer, cut, claims, claimed, remaining, refunded, voided>>

-----------------------------------------------------------------------------
(* A packet that does not exist yet owes nothing. *)
LEMMA PacketInit == Init => PacketInv
<1> SUFFICES ASSUME Init PROVE PacketInv
  OBVIOUS
<1>1. TypeOK
  <2>1. members \in [Users -> Members] /\ Linked(members)
    BY DEF Init, Members
  <2>2. balance \in [Users -> Int] /\ other \in [Users -> Int]
    BY PacketAssumption DEF Init
  <2>3. QED
    BY <2>1, <2>2 DEF Init, TypeOK
<1>2. MoneyInv
  BY PacketAssumption DEF Init, MoneyInv, Shape, LedgerBalanced, Own, Confirmed, NothingLost,
     SharesInOrder, OneShareEach
<1>3. QED
  BY <1>1, <1>2 DEF PacketInv

(* Cards, members, rules and time do not touch the money. *)
LEMMA MoneyFrame == ASSUME MoneyInv, UNCHANGED core PROVE MoneyInv'
BY DEF core, MoneyInv, Shape, LedgerBalanced, Own, Confirmed, NothingLost, SharesInOrder,
   OneShareEach, Exact

(* Nor does a row that is not confirmed yet, whatever its terms become. *)
LEMMA DraftFrame ==
  ASSUME MoneyInv, status \in {"none", "draft"}, status' \in {"draft", "cancelled"},
         UNCHANGED <<money, other>>
  PROVE  MoneyInv'
<1>1. /\ ~Confirmed /\ ~Confirmed' /\ status' \notin {"none", "active", "exhausted", "expired"}
      /\ claims = {} /\ claimed = 0 /\ refunded = 0 /\ voided = 0 /\ remaining = 0
      /\ UNCHANGED <<balance, other, claims, claimed, remaining, refunded, voided>>
  BY DEF money, MoneyInv, Shape, NothingLost, Confirmed
<1>2. \A v \in Users : balance[v] = Own(v) /\ Own(v)' = Own(v)
  BY <1>1 DEF MoneyInv, LedgerBalanced, Own
<1>3. LedgerBalanced'
  BY <1>1, <1>2 DEF LedgerBalanced
<1>4. QED
  BY <1>1, <1>3 DEF MoneyInv, Shape, NothingLost, SharesInOrder, OneShareEach

(* The columns of a row that exists have values. *)
LEMMA RowType ==
  ASSUME TypeOK, status # "none"
  PROVE  /\ origin.user \in Users /\ origin.tg \in Tgs /\ origin.funding \in {"user", "reward"}
         /\ offer.total \in Nat /\ offer.parts \in Nat
<1>1. origin \in Origins /\ offer \in Offers
  BY DEF TypeOK
<1>2. QED
  BY <1>1, PacketAssumption DEF Origins, Offers

(* confirm moves the whole total out of the sender's balance. *)
LEMMA ConfirmStep ==
  ASSUME PacketInv, NEW tg \in Tgs, NEW u \in Users, Confirm(tg, u)
  PROVE  MoneyInv'
<1> USE DEF PacketInv, MoneyInv
<1>1. /\ status = "draft" /\ status' = "active"
      /\ origin.user = u /\ origin.funding \in {"user", "reward"}
      /\ Exact(offer, cut')
      /\ offer.parts \in Nat \ {0} /\ offer.total \in Nat
      /\ remaining' = offer.total
      /\ UNCHANGED <<origin, offer, other, claims, claimed, refunded, voided>>
  <2>1. status = "draft" /\ status' = "active" /\ Exact(offer, cut') /\ remaining' = offer.total
    BY DEF Confirm, DraftOpen
  <2>2. origin = [user |-> u, tg |-> tg, funding |-> FundingOf(u)]
    BY DEF Confirm, Sender
  <2>3. offer.parts \in 1 .. SqlMax
    BY DEF Confirm, Valid
  <2>4. QED
    BY <2>1, <2>2, <2>3, RowType, PacketAssumption DEF Confirm
<1>2. claims = {} /\ claimed = 0 /\ refunded = 0 /\ voided = 0 /\ \A v \in Users : balance[v] = other[v]
  BY <1>1 DEF Shape, LedgerBalanced, Own, Confirmed, TypeOK
<1>3. Shape'
  BY <1>1, <1>2 DEF Shape, Confirmed
<1>4. LedgerBalanced'
  <2>1. balance' = IF origin.funding = "user" THEN [balance EXCEPT ![u] = @ - offer.total] ELSE balance
    BY DEF Confirm
  <2>2. \A v \in Users : balance'[v] = Own(v)'
    BY <1>1, <1>2, <2>1 DEF Own, Confirmed, TypeOK
  <2>3. QED
    BY <1>1, <1>2, <2>2 DEF LedgerBalanced
<1>5. NothingLost'
  BY <1>1, <1>2 DEF NothingLost, Confirmed, Exact
<1>6. SharesInOrder' /\ OneShareEach'
  BY <1>1, <1>2 DEF SharesInOrder, OneShareEach
<1>7. QED
  BY <1>3, <1>4, <1>5, <1>6

(* What is left after k shares. *)
LEMMA WhatIsLeft ==
  ASSUME NEW o, NEW c, o.parts \in Nat, Exact(o, c), NEW k \in Nat, k < o.parts
  PROVE  /\ c[k] \in Nat /\ c[k + 1] \in Nat /\ c[k] - c[k + 1] \in Nat \ {0}
         /\ c[o.parts] = 0
         /\ k + 1 < o.parts => c[k + 1] > 0
<1>1. c \in [0 .. o.parts -> Nat] /\ c[o.parts] = 0
  BY DEF Exact
<1>2. c[k] \in Nat /\ c[k + 1] \in Nat
  BY <1>1
<1>3. c[k] > c[k + 1]
  BY DEF Exact
<1>4. ASSUME k + 1 < o.parts PROVE c[k + 1] > 0
  <2>1. k + 1 \in 0 .. o.parts - 1 /\ (k + 1) + 1 \in 0 .. o.parts
    BY <1>4
  <2>2. c[k + 1] > c[(k + 1) + 1] /\ c[(k + 1) + 1] \in Nat
    BY <1>1, <2>1 DEF Exact
  <2>3. QED
    BY <1>2, <2>2
<1>5. QED
  BY <1>1, <1>2, <1>3, <1>4

(* claim pays the next share to somebody who has none. *)
LEMMA ClaimStep ==
  ASSUME PacketInv, NEW tg \in Tgs, NEW u \in Users, Claim(tg, u)
  PROVE  MoneyInv'
<1> USE DEF PacketInv, MoneyInv
<1> DEFINE amount == cut[claimed] - cut[claimed + 1]
           new    == [user |-> u, tg |-> tg, amount |-> amount, slot |-> claimed]
<1>1. /\ status = "active" /\ status' \in {"active", "exhausted"}
      /\ status' = "exhausted" <=> claimed + 1 = offer.parts
      /\ \A c \in claims : c.user # u /\ c.tg # tg
      /\ balance' = [balance EXCEPT ![u] = @ + amount]
      /\ claims' = claims \cup {new}
      /\ claimed' = claimed + 1
      /\ remaining' = remaining - amount
      /\ UNCHANGED <<origin, offer, cut, other, refunded, voided>>
  BY DEF Claim, Share, Prior, terms
<1>2. /\ Exact(offer, cut) /\ claimed \in Nat /\ offer.parts \in Nat /\ claimed < offer.parts
      /\ refunded = 0 /\ voided = 0 /\ remaining = cut[claimed]
  BY <1>1 DEF Shape, NothingLost, Confirmed, TypeOK
<1>3. /\ cut[claimed] \in Nat /\ cut[claimed + 1] \in Nat /\ amount > 0 /\ amount \in Int
      /\ cut[offer.parts] = 0
      /\ claimed + 1 < offer.parts => cut[claimed + 1] > 0
  BY <1>2, WhatIsLeft
<1>4. Shape'
  BY <1>1, <1>2 DEF Shape, Confirmed
<1>5. LedgerBalanced'
  <2>1. \A v \in Users : Own(v)' = Own(v)
    BY <1>1 DEF Own, Confirmed
  <2>2. balance[u] = Own(u)
    BY <1>1 DEF LedgerBalanced
  <2>3. balance'[u] = Own(u)' + amount /\ \A v \in Users \ {u} : balance'[v] = balance[v]
    BY <1>1, <2>1, <2>2 DEF TypeOK
  <2>4. \A c \in claims : c.user \in Users \ {u}
    BY <1>1 DEF TypeOK, Claims
  <2>5. new.user = u /\ new.amount = amount
    OBVIOUS
  <2>6. \A v \in Users : (\A c \in claims' : c.user # v) => balance'[v] = Own(v)'
    <3> SUFFICES ASSUME NEW v \in Users, \A c \in claims' : c.user # v
                 PROVE  balance'[v] = Own(v)'
      OBVIOUS
    <3>1. v # u /\ \A c \in claims : c.user # v
      BY <1>1, <2>5
    <3>2. QED
      BY <3>1, <2>1, <2>3 DEF LedgerBalanced
  <2>7. \A c \in claims' : balance'[c.user] = Own(c.user)' + c.amount
    <3> SUFFICES ASSUME NEW c \in claims' PROVE balance'[c.user] = Own(c.user)' + c.amount
      OBVIOUS
    <3>1. CASE c = new
      BY <3>1, <2>3, <2>5
    <3>2. CASE c \in claims
      BY <3>2, <2>1, <2>3, <2>4 DEF LedgerBalanced
    <3>3. QED
      BY <3>1, <3>2, <1>1
  <2>8. QED
    BY <2>6, <2>7 DEF LedgerBalanced
<1>6. NothingLost'
  BY <1>1, <1>2, <1>3 DEF NothingLost, Confirmed
<1>7. SharesInOrder'
  <2>1. \A c \in claims : c.slot \in Nat /\ c.slot < claimed
    BY DEF SharesInOrder, TypeOK, Claims
  <2>2. new.slot = claimed /\ new.amount = amount
    OBVIOUS
  <2>3. \A c \in claims' :
           c.slot < claimed' /\ c.amount = cut'[c.slot] - cut'[c.slot + 1] /\ c.amount > 0
    BY <1>1, <1>2, <1>3, <2>1, <2>2 DEF SharesInOrder
  <2>4. \A c, d \in claims' : c.slot = d.slot => c = d
    BY <1>1, <1>2, <2>1, <2>2 DEF SharesInOrder
  <2>5. \A k \in 0 .. claimed' - 1 : \E c \in claims' : c.slot = k
    <3> SUFFICES ASSUME NEW k \in 0 .. claimed' - 1 PROVE \E c \in claims' : c.slot = k
      OBVIOUS
    <3>1. k = claimed \/ k \in 0 .. claimed - 1
      BY <1>1, <1>2
    <3>2. QED
      BY <3>1, <1>1, <2>2 DEF SharesInOrder
  <2>6. QED
    BY <2>3, <2>4, <2>5 DEF SharesInOrder
<1>8. OneShareEach'
  <2>1. new.user = u /\ new.tg = tg
    OBVIOUS
  <2>2. QED
    BY <1>1, <2>1 DEF OneShareEach
<1>9. QED
  BY <1>4, <1>5, <1>6, <1>7, <1>8

(* expire gives the sender back what nobody took, or voids it. *)
LEMMA ExpireStep == ASSUME PacketInv, Expire PROVE MoneyInv'
<1> USE DEF PacketInv, MoneyInv
<1>1. CASE status = "draft"
  BY <1>1, DraftFrame DEF Expire, Confirmed
<1>2. CASE status # "draft"
  <2>1. /\ status = "active" /\ status' = "expired" /\ remaining' = 0
        /\ UNCHANGED <<origin, offer, cut, other, claims, claimed>>
        /\ IF origin.funding = "user"
           THEN /\ balance' = [balance EXCEPT ![origin.user] = @ + remaining]
                /\ refunded' = remaining /\ voided' = voided
           ELSE voided' = remaining /\ UNCHANGED <<balance, refunded>>
    BY <1>2 DEF Expire, terms
  <2>2. /\ refunded = 0 /\ voided = 0 /\ remaining \in Nat /\ remaining = cut[claimed]
        /\ origin.user \in Users /\ offer.total \in Nat
    BY <2>1, RowType DEF Shape, NothingLost, Confirmed, TypeOK
  <2>3. \A v \in Users : balance'[v] - Own(v)' = balance[v] - Own(v)
    BY <2>1, <2>2 DEF Own, Confirmed, TypeOK
  <2>4. \A v \in Users : Own(v) \in Int /\ Own(v)' \in Int /\ balance[v] \in Int /\ balance'[v] \in Int
    BY <2>1, <2>2 DEF Own, Confirmed, TypeOK
  <2>5. LedgerBalanced'
    <3>1. \A v \in Users : balance[v] = Own(v) => balance'[v] = Own(v)'
      BY <2>3, <2>4
    <3>2. \A c \in claims : c.user \in Users /\ c.amount \in Int
      BY DEF TypeOK, Claims
    <3>3. \A c \in claims : balance[c.user] = Own(c.user) + c.amount
                               => balance'[c.user] = Own(c.user)' + c.amount
      BY <2>3, <2>4, <3>2
    <3>4. QED
      BY <2>1, <3>1, <3>3 DEF LedgerBalanced
  <2>6. Shape' /\ NothingLost'
    BY <2>1, <2>2 DEF Shape, NothingLost, Confirmed, Exact, TypeOK
  <2>7. SharesInOrder' /\ OneShareEach'
    BY <2>1 DEF SharesInOrder, OneShareEach
  <2>8. QED
    BY <2>5, <2>6, <2>7
<1>3. QED
  BY <1>1, <1>2

(* Points earned or spent elsewhere are accounted for elsewhere. *)
LEMMA OtherPointsStep ==
  ASSUME PacketInv, NEW u \in Users, NEW delta \in Deltas, OtherPoints(u, delta)
  PROVE  MoneyInv'
<1> USE DEF PacketInv, MoneyInv
<1>1. /\ delta \in Int
      /\ balance' = [balance EXCEPT ![u] = @ + delta] /\ other' = [other EXCEPT ![u] = @ + delta]
      /\ UNCHANGED <<status, origin, offer, cut, claims, claimed, remaining, refunded, voided>>
  BY PacketAssumption DEF OtherPoints, terms
<1>2. offer.total - refunded \in Int \/ ~Confirmed
  BY RowType DEF TypeOK, Confirmed
<1>3. \A v \in Users : balance'[v] - Own(v)' = balance[v] - Own(v)
  BY <1>1, <1>2 DEF Own, Confirmed, TypeOK
<1>4. \A v \in Users : Own(v) \in Int /\ Own(v)' \in Int /\ balance[v] \in Int /\ balance'[v] \in Int
  BY <1>1, <1>2 DEF Own, Confirmed, TypeOK
<1>5. LedgerBalanced'
  <2>1. \A c \in claims : c.user \in Users /\ c.amount \in Int
    BY DEF TypeOK, Claims
  <2>2. QED
    BY <1>1, <1>3, <1>4, <2>1 DEF LedgerBalanced
<1>6. Shape' /\ NothingLost' /\ SharesInOrder' /\ OneShareEach'
  BY <1>1 DEF Shape, NothingLost, Confirmed, Exact, SharesInOrder, OneShareEach
<1>7. QED
  BY <1>5, <1>6
-----------------------------------------------------------------------------
(* Every step keeps the types. *)
LEMMA PacketType ==
  ASSUME PacketInv, Next
  PROVE  TypeOK'
<1> USE DEF PacketInv
<1>1. ASSUME NEW tg \in Tgs, NEW u \in Users, NEW o \in Offers, Prepare(tg, u, o) \/ EditDraft(tg, u, o)
      PROVE  TypeOK'
  <2>1. CASE Prepare(tg, u, o)
    <3>1. [user |-> u, tg |-> tg, funding |-> FundingOf(u)] \in Origins
      BY DEF Origins, FundingOf
    <3>2. QED
      BY <2>1, <3>1, PacketAssumption DEF Prepare, TypeOK, world, money, posted
  <2>2. CASE EditDraft(tg, u, o)
    BY <2>2 DEF EditDraft, DraftOpen, TypeOK, world, money, posted
  <2>3. QED
    BY <1>1, <2>1, <2>2
<1>2. ASSUME NEW tg \in Tgs, NEW u \in Users, Confirm(tg, u) PROVE TypeOK'
  <2>1. offer.total \in Nat /\ status = "draft"
    BY <1>2, RowType DEF Confirm, DraftOpen
  <2>2. balance' \in [Users -> Int]
    BY <1>2, <2>1 DEF Confirm, TypeOK
  <2>3. QED
    BY <1>2, <2>1, <2>2, PacketAssumption DEF Confirm, TypeOK, world, posted
<1>3. ASSUME NEW tg \in Tgs, NEW u \in Users, Cancel(tg, u) PROVE TypeOK'
  BY <1>3 DEF Cancel, TypeOK, world, money, terms, posted, Finished
<1>4. ASSUME NEW tg \in Tgs, NEW u \in Users, Claim(tg, u) PROVE TypeOK'
  <2> DEFINE amount == cut[claimed] - cut[claimed + 1]
             new    == [user |-> u, tg |-> tg, amount |-> amount, slot |-> claimed]
  <2>1. /\ status = "active" /\ claimed \in Nat /\ claimed < offer.parts /\ offer.parts \in Nat
        /\ remaining = cut[claimed] + 0 /\ Exact(offer, cut)
    BY <1>4 DEF Claim, MoneyInv, Shape, NothingLost, Confirmed, TypeOK
  <2>2. cut[claimed] \in Nat /\ cut[claimed + 1] \in Nat /\ amount \in Int
    BY <2>1, WhatIsLeft
  <2>3. new \in Claims
    BY <2>1, <2>2 DEF Claims
  <2>4. remaining' \in Nat /\ balance' \in [Users -> Int] /\ claims' \subseteq Claims
    BY <1>4, <2>1, <2>2, <2>3 DEF Claim, Share, TypeOK
  <2>5. QED
    BY <1>4, <2>1, <2>4 DEF Claim, TypeOK, world, terms, posted, Finished
<1>5. CASE BeginCardSend \/ Apply \/ Answered \/ Crash \/ Render
  BY <1>5 DEF BeginCardSend, Apply, Answered, Crash, Render, TypeOK, world, money, terms
<1>6. ASSUME NEW outcome \in {"failed", "unknown"}, SendFailed(outcome) PROVE TypeOK'
  BY <1>6 DEF SendFailed, TypeOK, world, money, terms
<1>7. CASE Expire
  <2>1. CASE status = "draft"
    BY <1>7, <2>1 DEF Expire, TypeOK, world, money, terms, posted, Finished
  <2>2. CASE status # "draft"
    <3>1. status = "active" /\ origin.user \in Users
      BY <1>7, <2>2, RowType DEF Expire
    <3>2. balance' \in [Users -> Int]
      BY <1>7, <2>2, <3>1 DEF Expire, TypeOK
    <3>3. refunded' \in Nat /\ voided' \in Nat
      BY <1>7, <2>2 DEF Expire, TypeOK
    <3>4. QED
      BY <1>7, <2>2, <3>1, <3>2, <3>3 DEF Expire, TypeOK, world, terms, posted, Finished
  <2>3. QED
    BY <2>1, <2>2
<1>8. CASE Tick
  BY <1>8 DEF Tick, TypeOK, world, money, terms, posted
<1>9. ASSUME NEW u \in Users, NEW m \in Members, MemberChanges(u, m) PROVE TypeOK'
  <2>1. members' = [v \in Users |-> IF v = u THEN m ELSE Detached(v, m.tg)]
    BY <1>9 DEF MemberChanges
  <2>2. \A v \in Users : Detached(v, m.tg) \in Members
    BY DEF Detached, Members, TypeOK
  <2>3. \A v \in Users : m.tg # Null => Detached(v, m.tg).tg # m.tg
    BY DEF Detached, Members, TypeOK
  <2>4. \A v \in Users : Detached(v, m.tg).tg \in {members[v].tg, Null}
    BY DEF Detached, Members, TypeOK
  <2>5. members' \in [Users -> Members]
    BY <2>1, <2>2
  <2>6. Linked(members')
    <3> SUFFICES ASSUME NEW v \in Users, NEW w \in Users,
                        members'[v].tg = members'[w].tg, members'[v].tg # Null
                 PROVE  v = w
      BY DEF Linked
    <3>1. CASE v = u \/ w = u
      BY <3>1, <2>1, <2>3
    <3>2. CASE v # u /\ w # u
      BY <3>2, <2>1, <2>4 DEF Linked, TypeOK
    <3>3. QED
      BY <3>1, <3>2
  <2>7. QED
    BY <1>9, <2>5, <2>6 DEF MemberChanges, Outside, TypeOK, money, terms, posted
<1>10. ASSUME NEW c \in Configs, NEW on \in BOOLEAN, RulesChange(c, on) PROVE TypeOK'
  BY <1>10 DEF RulesChange, Outside, TypeOK, money, terms, posted, Linked
<1>11. ASSUME NEW u \in Users, NEW delta \in Deltas, OtherPoints(u, delta) PROVE TypeOK'
  <2>1. balance' \in [Users -> Int] /\ other' \in [Users -> Int]
    BY <1>11, PacketAssumption DEF OtherPoints, TypeOK
  <2>2. QED
    BY <1>11, <2>1 DEF OtherPoints, Outside, TypeOK, terms, posted, Linked
<1>12. QED
  BY <1>1, <1>2, <1>3, <1>4, <1>5, <1>6, <1>7, <1>8, <1>9, <1>10, <1>11 DEF Next, Environment

(* Every step keeps the accounts. *)
LEMMA PacketMoney ==
  ASSUME PacketInv, Next
  PROVE  MoneyInv'
<1> USE DEF PacketInv
<1>1. ASSUME NEW tg \in Tgs, NEW u \in Users, NEW o \in Offers,
             Prepare(tg, u, o) \/ EditDraft(tg, u, o) \/ Cancel(tg, u)
      PROVE  MoneyInv'
  BY <1>1, DraftFrame DEF Prepare, EditDraft, DraftOpen, Cancel
<1>2. ASSUME NEW tg \in Tgs, NEW u \in Users, Cancel(tg, u) PROVE MoneyInv'
  BY <1>2, DraftFrame DEF Cancel
<1>3. ASSUME BeginCardSend \/ Apply \/ Answered \/ Crash \/ Render \/ Tick PROVE MoneyInv'
  BY <1>3, MoneyFrame DEF BeginCardSend, Apply, Answered, Crash, Render, Tick, money, terms, core
<1>4. ASSUME NEW outcome \in {"failed", "unknown"}, SendFailed(outcome) PROVE MoneyInv'
  BY <1>4, MoneyFrame DEF SendFailed, money, terms, core
<1>5. ASSUME NEW u \in Users, NEW m \in Members, MemberChanges(u, m) PROVE MoneyInv'
  BY <1>5, MoneyFrame DEF MemberChanges, money, terms, core
<1>6. ASSUME NEW c \in Configs, NEW on \in BOOLEAN, RulesChange(c, on) PROVE MoneyInv'
  BY <1>6, MoneyFrame DEF RulesChange, money, terms, core
<1>7. QED
  BY <1>1, <1>2, <1>3, <1>4, <1>5, <1>6, ConfirmStep, ClaimStep, ExpireStep, OtherPointsStep
     DEF Next, Environment

-----------------------------------------------------------------------------
(* The packet's invariant holds in every reachable state. *)
THEOREM PacketInvariant == Spec => []PacketInv
<1>1. ASSUME PacketInv, [Next]_vars PROVE PacketInv'
  <2>1. CASE Next
    BY <1>1, <2>1, PacketType, PacketMoney DEF PacketInv
  <2>2. CASE UNCHANGED vars
    <3>1. UNCHANGED core
      BY <2>2 DEF vars, money, terms, core
    <3>2. TypeOK'
      BY <1>1, <2>2 DEF PacketInv, TypeOK, vars, world, money, terms, posted, Linked
    <3>3. QED
      BY <1>1, <3>1, <3>2, MoneyFrame DEF PacketInv
  <2>3. QED
    BY <1>1, <2>1, <2>2
<1>2. QED
  BY <1>1, PacketInit, PTL DEF Spec

(* Types. *)
THEOREM PacketTypeCorrect == Spec => []TypeOK
<1>1. PacketInv => TypeOK
  BY DEF PacketInv
<1>2. QED
  BY <1>1, PacketInvariant, PTL

(* No point of a packet is created or destroyed, whoever confirms, claims, *)
(* expires, is rebound or spends in between (red_packets.py:202-310).      *)
THEOREM PacketLedgerBalanced == Spec => [](LedgerBalanced /\ NothingLost)
<1>1. PacketInv => LedgerBalanced /\ NothingLost
  BY DEF PacketInv, MoneyInv
<1>2. QED
  BY <1>1, PacketInvariant, PTL

(* Nobody takes two shares of a packet, under any sequence of rebindings   *)
(* (red_packets.py:265).                                                   *)
THEOREM PacketOneShareEach == Spec => []OneShareEach
<1>1. PacketInv => OneShareEach
  BY DEF PacketInv, MoneyInv
<1>2. QED
  BY <1>1, PacketInvariant, PTL

(* The shares are handed out in order, each to one claim, which records the *)
(* share of its slot (claim, red_packets.py:251-310).                      *)
THEOREM PacketSharesInOrder == Spec => []SharesInOrder
<1>1. PacketInv => SharesInOrder
  BY DEF PacketInv, MoneyInv
<1>2. QED
  BY <1>1, PacketInvariant, PTL

-----------------------------------------------------------------------------
(* The card.  begin_card_send takes the row out of "pending" for good, so   *)
(* there is one call at most, before which nothing is in the group and      *)
(* after which the row is bound to nothing else.                           *)
OneCall ==
    /\ cards \in {0, 1} /\ card \in {0, 1}
    /\ cardState = "pending" => send = "idle" /\ cards = 0 /\ card = 0
    /\ send = "calling" => cards = 0 /\ card = 0
    /\ send = "applied" => cards = 1 /\ card = 0

(* Only the call for the card and its answers touch any of this.           *)
LEMMA CardUntouched ==
  ASSUME NEW tg \in Tgs, NEW u \in Users,
         \/ \E o \in Offers : Prepare(tg, u, o) \/ EditDraft(tg, u, o)
         \/ Confirm(tg, u) \/ Cancel(tg, u) \/ Claim(tg, u)
  PROVE  UNCHANGED posted
BY DEF Prepare, EditDraft, Confirm, Cancel, Claim

LEMMA CardCallStep ==
  ASSUME OneCall, [Next]_vars
  PROVE  OneCall' /\ [Abstract!Next]_<<cards, card>>
<1> USE DEF OneCall, Abstract!Next, Abstract!Post, Abstract!Bind
<1>1. CASE UNCHANGED posted
  BY <1>1 DEF posted
<1>2. CASE BeginCardSend
  BY <1>2 DEF BeginCardSend
<1>3. CASE Apply
  BY <1>3 DEF Apply
<1>4. CASE Answered
  BY <1>4 DEF Answered
<1>5. CASE Crash
  BY <1>5 DEF Crash
<1>6. ASSUME NEW outcome \in {"failed", "unknown"}, SendFailed(outcome)
      PROVE  OneCall' /\ [Abstract!Next]_<<cards, card>>
  BY <1>6 DEF SendFailed
<1>7. CASE Render
  BY <1>7 DEF Render
<1>8. CASE Expire \/ Tick \/ UNCHANGED vars
  BY <1>1, <1>8 DEF Expire, Tick, vars
<1>9. CASE Environment
  BY <1>1, <1>9 DEF Environment, MemberChanges, RulesChange, OtherPoints
<1>10. QED
  BY <1>1, <1>2, <1>3, <1>4, <1>5, <1>6, <1>7, <1>8, <1>9, CardUntouched DEF Next

(* A packet's card is posted and bound at most once, whoever delivers the   *)
(* command again, and whatever is lost or cut short (begin_card_send,       *)
(* bind_card, card_send_failed): RedPackets implements CardPost.           *)
THEOREM PacketRefinesCardPost == Spec => ImplementsCardPost
<1>1. Init => OneCall /\ Abstract!Init
  BY DEF Init, OneCall, Abstract!Init
<1>2. OneCall /\ [Next]_vars => OneCall' /\ [Abstract!Next]_<<cards, card>>
  BY CardCallStep
<1>3. QED
  BY <1>1, <1>2, PTL DEF Spec, ImplementsCardPost, Abstract!Spec

-----------------------------------------------------------------------------
(* A confirmed packet keeps its terms and a finished one its outcome, for   *)
(* any terms and whoever edits, confirms, claims or expires late.          *)
THEOREM PacketEndIsFinal == Spec => SettledIsFinal
<1> DEFINE Final == /\ Confirmed => UNCHANGED <<origin, offer, cut>>
                    /\ status \in Finished =>
                          UNCHANGED <<status, claims, claimed, remaining, refunded, voided>>
<1>1. ASSUME Next PROVE Final
  <2> USE DEF Confirmed, Finished, terms, money
  <2>1. ASSUME NEW tg \in Tgs, NEW u \in Users, NEW o \in Offers, Prepare(tg, u, o) \/ EditDraft(tg, u, o)
        PROVE Final
    BY <2>1 DEF Prepare, EditDraft, DraftOpen
  <2>2. ASSUME NEW tg \in Tgs, NEW u \in Users, Confirm(tg, u) \/ Cancel(tg, u) \/ Claim(tg, u) PROVE Final
    BY <2>2 DEF Confirm, Cancel, Claim, DraftOpen
  <2>3. CASE BeginCardSend \/ Apply \/ Answered \/ Crash \/ Tick
    BY <2>3 DEF BeginCardSend, Apply, Answered, Crash, Tick
  <2>4. CASE Render \/ \E outcome \in {"failed", "unknown"} : SendFailed(outcome)
    BY <2>4 DEF Render, SendFailed
  <2>5. CASE Expire
    BY <2>5 DEF Expire
  <2>6. CASE Environment
    BY <2>6 DEF Environment, MemberChanges, RulesChange, OtherPoints
  <2>7. QED
    BY <1>1, <2>1, <2>2, <2>3, <2>4, <2>5, <2>6 DEF Next
<1>2. [Next]_vars => [Final]_vars
  BY <1>1
<1>3. QED
  BY <1>2, PTL DEF Spec, SettledIsFinal

-----------------------------------------------------------------------------
(* The shares.  Equal shares: what is left after k of n shares of q.        *)
LEMMA EqualShares ==
  ASSUME NEW t \in Nat, NEW n \in Nat \ {0}, t >= n, t % n = 0
  PROVE  /\ t \div n \in Nat \ {0}
         /\ t - n * (t \div n) = 0
<1>1. t = n * (t \div n) + (t % n)
  BY SMT
<1>2. t \div n \in Nat /\ t % n = 0
  OBVIOUS
<1>3. t = n * (t \div n)
  BY <1>1, <1>2
<1>4. t \div n # 0
  BY <1>3
<1>5. QED
  BY <1>2, <1>3, <1>4

LEMMA EqualLeft ==
  ASSUME NEW t \in Nat, NEW n \in Nat, NEW q \in Nat \ {0}, t = n * q, NEW k \in 0 .. n
  PROVE  /\ t - k * q \in Nat
         /\ k < n => t - k * q > t - (k + 1) * q
<1>1. t - k * q = (n - k) * q
  BY Z3
<1>2. (n - k) * q >= 0 /\ t - k * q \in Int
  BY <1>1, Z3
<1>3. (k + 1) * q = k * q + q /\ k * q \in Int
  BY Z3
<1>4. QED
  BY <1>1, <1>2, <1>3

\* What Valid requires of the terms.
Drafted ==
    status = "draft" =>
        /\ offer.parts \in Nat \ {0} /\ offer.total \in Nat /\ offer.total >= offer.parts
        /\ offer.mode \in Modes
        /\ offer.mode = "equal" => offer.total % offer.parts = 0

(* A random share leaves a point for everybody who is still to draw: at     *)
(* least two of them are left whenever one is drawn.                        *)
LEMMA RandomShares ==
  ASSUME NEW o, o.total \in Nat, o.parts \in Nat \ {0}, o.total >= o.parts, o.mode = "random"
  PROVE  Cuts(o) # {} /\ \A c \in Cuts(o) : Exact(o, c)
<1> DEFINE t == o.total
           n == o.parts
<1>1. ASSUME NEW c \in Cuts(o) PROVE Exact(o, c)
  <2>1. /\ c \in [0 .. n -> 0 .. t] /\ c[0] = t /\ c[n] = 0
        /\ \A k \in 0 .. n - 2 : c[k] - c[k + 1] \in 1 .. Upper(c[k], n - k)
    BY <1>1 DEF Cuts
  <2>2. ASSUME NEW k \in 0 .. n - 1 PROVE c[k] > c[k + 1]
    <3>1. CASE k \in 0 .. n - 2
      <4> HIDE DEF t, n
      <4>1. k \in 0 .. n /\ k + 1 \in 0 .. n /\ c \in [0 .. n -> 0 .. t]
        BY <2>1, <3>1 DEF n
      <4>2. c[k] \in 0 .. t /\ c[k + 1] \in 0 .. t
        BY <4>1
      <4>3. c[k] - c[k + 1] >= 1
        BY <2>1, <3>1
      <4>4. t \in Nat
        BY DEF t
      <4>5. QED
        BY <4>2, <4>3, <4>4
    <3>2. CASE k = n - 1 /\ n = 1
      BY <2>1, <3>2
    <3>3. CASE k = n - 1 /\ n > 1
      <4>1. /\ n - 2 \in 0 .. n - 2 /\ (n - 2) + 1 = n - 1 /\ n - (n - 2) = 2
        BY <3>3
      <4>2. c[n - 2] - c[n - 1] \in 1 .. Upper(c[n - 2], 2)
        BY <2>1, <4>1
      <4>3. c[n - 2] \in Nat /\ c[n - 1] \in Nat
        BY <2>1, <3>3
      <4>4. (2 * c[n - 2]) \div 2 \in Int
        BY <4>3
      <4>5. Upper(c[n - 2], 2) <= c[n - 2] - 1
        BY <4>3, <4>4 DEF Upper, LesserOf, LargerOf
      <4>6. Upper(c[n - 2], 2) \in Int
        BY <4>3, <4>4 DEF Upper, LesserOf, LargerOf
      <4>7. c[n - 1] >= 1
        BY <4>2, <4>3, <4>5, <4>6
      <4>8. QED
        BY <2>1, <3>3, <4>3, <4>7
    <3>4. QED
      BY <3>1, <3>2, <3>3
  <2>3. c \in [0 .. n -> Nat]
    BY <2>1
  <2>4. QED
    BY <2>1, <2>2, <2>3 DEF Exact
<1>2. Cuts(o) # {}
  <2> DEFINE d == [k \in 0 .. n |-> IF k = n THEN 0 ELSE t - k]
  <2>1. d \in [0 .. n -> 0 .. t] /\ d[0] = t /\ d[n] = 0
    OBVIOUS
  <2>2. ASSUME NEW k \in 0 .. n - 2 PROVE d[k] - d[k + 1] \in 1 .. Upper(d[k], n - k)
    <3>1. d[k] = t - k /\ d[k + 1] = t - (k + 1)
      BY <2>2
    <3>2. d[k] - d[k + 1] = 1
      BY <3>1
    <3>3. t - k \in Nat /\ n - k \in Nat \ {0} /\ (t - k) - (n - k) + 1 >= 1
      BY <2>2
    <3>4. (2 * (t - k)) \div (n - k) \in Int
      BY <3>3
    <3>5. Upper(t - k, n - k) >= 1 /\ Upper(t - k, n - k) \in Int
      BY <3>3, <3>4 DEF Upper, LesserOf, LargerOf
    <3>6. QED
      BY <3>1, <3>2, <3>5
  <2>3. d \in Cuts(o)
    <3> HIDE DEF d
    <3>1. QED
      BY <2>1, <2>2 DEF Cuts
  <2>4. QED
    BY <2>3
<1>3. QED
  BY <1>1, <1>2

LEMMA WholeShares ==
  ASSUME NEW o, o.total \in Nat, o.parts \in Nat \ {0}, o.total >= o.parts, o.mode = "equal",
         o.total % o.parts = 0
  PROVE  Cuts(o) # {} /\ \A c \in Cuts(o) : Exact(o, c)
<1> DEFINE t == o.total
           n == o.parts
           q == t \div n
           d == [k \in 0 .. n |-> t - k * q]
<1>1. q \in Nat \ {0} /\ t - n * q = 0
  BY EqualShares
<1>2. t = n * q
  <2>1. n * q \in Int
    BY <1>1
  <2>2. QED
    BY <1>1, <2>1
<1> HIDE DEF q
<1>3. \A k \in 0 .. n : t - k * q \in Nat /\ (k < n => t - k * q > t - (k + 1) * q)
  BY <1>1, <1>2, EqualLeft
<1>4. d \in [0 .. n -> Nat] /\ d[0] = t /\ d[n] = 0
  <2>1. t - 0 * q = t /\ t - n * q = 0 /\ 0 \in 0 .. n /\ n \in 0 .. n
    BY <1>1, <1>2
  <2>2. d \in [0 .. n -> Nat]
    BY <1>3
  <2>3. d[0] = t - 0 * q /\ d[n] = t - n * q
    BY <2>1
  <2>4. QED
    BY <2>1, <2>2, <2>3
<1>5. \A k \in 0 .. n - 1 : d[k] > d[k + 1]
  BY <1>3
<1>6. Exact(o, d)
  <2> HIDE DEF d
  <2>1. QED
    BY <1>4, <1>5 DEF Exact
<1>7. Cuts(o) = {d}
  BY DEF Cuts, q
<1>8. QED
  BY <1>6, <1>7

LEMMA DraftedStep ==
  ASSUME PacketInv, Drafted, [Next]_vars
  PROVE  Drafted'
<1> USE DEF Drafted
<1>1. ASSUME NEW o \in Offers, Valid(o, config), offer' = o PROVE Drafted'
  <2>1. o.parts \in Nat \ {0} /\ o.total \in Nat /\ o.total >= o.parts
    BY <1>1, PacketAssumption DEF Valid, Offers
  <2>2. o.mode \in Modes /\ (o.mode = "equal" => o.total % o.parts = 0)
    BY <1>1 DEF Valid, Offers
  <2>3. QED
    BY <1>1, <2>1, <2>2
<1>2. ASSUME NEW tg \in Tgs, NEW u \in Users, NEW o \in Offers, Prepare(tg, u, o) \/ EditDraft(tg, u, o)
      PROVE  Drafted'
  BY <1>1, <1>2 DEF Prepare, EditDraft
<1>3. ASSUME NEW tg \in Tgs, NEW u \in Users, Confirm(tg, u) \/ Cancel(tg, u) \/ Claim(tg, u)
      PROVE  Drafted'
  BY <1>3 DEF Confirm, Cancel, Claim
<1>4. CASE BeginCardSend \/ Apply \/ Answered \/ Crash \/ Tick
  BY <1>4 DEF BeginCardSend, Apply, Answered, Crash, Tick, terms
<1>5. CASE Render \/ \E outcome \in {"failed", "unknown"} : SendFailed(outcome)
  BY <1>5 DEF Render, SendFailed, terms
<1>6. CASE Expire
  BY <1>6 DEF Expire
<1>7. CASE Environment
  BY <1>7 DEF Environment, MemberChanges, RulesChange, OtherPoints, terms
<1>8. CASE UNCHANGED vars
  BY <1>8 DEF vars, terms
<1>9. QED
  BY <1>2, <1>3, <1>4, <1>5, <1>6, <1>7, <1>8 DEF Next

(* The assertion of allocations, sum(values) == total and min(values) >= 1, *)
(* never fires: whatever the terms of a draft have been edited into, there  *)
(* is a draw, and every draw gives out the whole total in positive shares.  *)
THEOREM PacketDrawsExact == Spec => []AllocationsExact
<1>1. Init => Drafted
  BY DEF Init, Drafted
<1>2. PacketInv /\ Drafted /\ [Next]_vars => Drafted'
  BY DraftedStep
<1>3. Drafted => AllocationsExact
  BY RandomShares, WholeShares DEF Drafted, AllocationsExact, Modes
<1>4. QED
  BY <1>1, <1>2, <1>3, PacketInvariant, PTL DEF Spec

(* The shares: drawn exactly, handed out in order, and none of them lost.   *)
THEOREM PacketSharesExact == Spec => []SharesExact
<1>1. AllocationsExact /\ SharesInOrder /\ NothingLost => SharesExact
  BY DEF SharesExact
<1>2. QED
  BY <1>1, PacketDrawsExact, PacketSharesInOrder, PacketLedgerBalanced, PTL

-----------------------------------------------------------------------------
(* What the group sees of a packet: the Courier of MCPackets.              *)

DeliveryRow ==
    /\ stage \in {"draft", "active", "exhausted"} /\ version \in Nat /\ rendered \in Nat \cup {-1}
    /\ eff \in [Courier!Kinds -> Courier!Effects] /\ cursor \in Nat
    /\ lock \in Tasks \cup {Nobody} /\ task \in [Tasks -> Courier!TaskStates]
    /\ face \in Nat /\ pinned \in BOOLEAN

(* An edit holds the lock, carries a version no older than the card, and    *)
(* only what is on the card is recorded.                                   *)
Edits ==
    /\ \A t \in Tasks : task[t].at \in {"edit", "edited"} =>
          lock = t /\ face <= task[t].what /\ task[t].what <= version
    /\ \A t \in Tasks : task[t].at = "edited" => face = task[t].what
    /\ rendered <= face /\ face <= version

(* Whoever unpins or sends the receipt found the final card recorded.      *)
InCall(t) == task[t].at \in {"call", "applied"}
Final ==
    /\ \A t \in Tasks : InCall(t) => task[t].kind \in Courier!Kinds
    /\ \A t \in Tasks : InCall(t) /\ task[t].kind # "pin" => stage = "exhausted" /\ face = version
    /\ Courier!ReceiptAfterFinalCard

(* An effect that nobody has asked for yet.                                *)
Unasked ==
    /\ stage = "draft" => eff["pin"].state = ""
    /\ stage # "exhausted" => eff["unpin"].state = "" /\ eff["receipt"].state = ""

FaceInv == DeliveryRow /\ Edits /\ Final /\ Unasked

LEMMA EffectNames == /\ "pin" \in Courier!Kinds /\ "unpin" \in Courier!Kinds /\ "receipt" \in Courier!Kinds
                     /\ Courier!Kinds = {"pin", "unpin", "receipt"}
  BY DEF Courier!Kinds

LEMMA FreshEffect == ASSUME NEW s \in {"", "pending", "sending", "retry", "sent", "failed", "unknown"}
                     PROVE  Courier!Fresh(s) \in Courier!Effects /\ Courier!Fresh(s).state = s
  BY DEF Courier!Fresh, Courier!Effects

LEMMA TaskDoes == ASSUME NEW at \in {"idle", "edit", "edited", "effects", "call", "applied"},
                         NEW k \in Courier!Kinds \cup {"done"}, NEW n \in Nat
                  PROVE  Courier!Doing(at, k, n) \in Courier!TaskStates /\ Courier!Doing(at, k, n).at = at
                         /\ Courier!Doing(at, k, n).kind = k /\ Courier!Doing(at, k, n).what = n
  BY DEF Courier!Doing, Courier!TaskStates

LEMMA TaskRests == Courier!Idle \in Courier!TaskStates /\ Courier!Idle.at = "idle"
  BY EffectNames DEF Courier!Idle, Courier!TaskStates

LEMMA TaskTyped == DeliveryRow => \A t \in Tasks : /\ task[t] \in Courier!TaskStates /\ task[t].what \in Nat
                                                    /\ task[t].kind \in Courier!Kinds \cup {"done"}
  BY DEF DeliveryRow, Courier!TaskStates

LEMMA FaceInit == ASSUME Courier!DeliveryAssumption, Courier!Init PROVE FaceInv
<1>1. DeliveryRow
  BY EffectNames, FreshEffect, TaskRests DEF Courier!Init, DeliveryRow
<1>2. /\ \A t \in Tasks : task[t].at = "idle"
      /\ \A k \in Courier!Kinds : eff[k].state = ""
      /\ rendered = 0 /\ face = 0 /\ version = 0 /\ log = <<>>
  BY FreshEffect, TaskRests DEF Courier!Init
<1>3. Edits /\ Final /\ Unasked
  <2>1. eff["pin"].state = "" /\ eff["unpin"].state = "" /\ eff["receipt"].state = ""
    BY <1>2, EffectNames
  <2>2. Edits
    <3>1. rendered <= face /\ face <= version
      <4>1. rendered = 0 /\ face = 0 /\ version = 0
        BY <1>2
      <4>2. QED
        BY <4>1
    <3>2. \A t \in Tasks : task[t].at \notin {"edit", "edited"}
      BY <1>2
    <3>3. QED
      BY <3>1, <3>2 DEF Edits
  <2>3. Final
    BY <1>2, <2>1 DEF Final, InCall, Courier!ReceiptAfterFinalCard
  <2>4. Unasked
    BY <2>1 DEF Unasked
  <2>5. QED
    BY <2>2, <2>3, <2>4
<1>4. QED
  BY <1>1, <1>3 DEF FaceInv

(* The packet goes on; nobody is calling for its end before it has come.    *)
LEMMA FaceGoesOn == ASSUME FaceInv, Courier!Confirm \/ Courier!ClaimShare PROVE FaceInv'
<1>1. /\ stage # "exhausted" /\ stage' \in {"active", "exhausted"} /\ version' = version + 1
      /\ UNCHANGED <<rendered, cursor, lock, task, face, pinned, log>>
  BY DEF Courier!Confirm, Courier!ClaimShare, Courier!chat
<1>2. /\ eff' \in [Courier!Kinds -> Courier!Effects]
      /\ stage' # "exhausted" => eff'["unpin"].state = "" /\ eff'["receipt"].state = ""
      /\ eff'["unpin"].state # "sent"
  <2>1. CASE Courier!Confirm
    BY <2>1, EffectNames, FreshEffect DEF Courier!Confirm, FaceInv, DeliveryRow, Unasked
  <2>2. CASE Courier!ClaimShare
    BY <2>2, EffectNames, FreshEffect DEF Courier!ClaimShare, FaceInv, DeliveryRow, Unasked
  <2>3. QED
    BY <1>1, <2>1, <2>2
<1>3. DeliveryRow' /\ Edits'
  <2>1. /\ version \in Nat /\ face \in Nat /\ rendered \in Nat \cup {-1} /\ rendered <= face /\ face <= version
        /\ \A t \in Tasks : task[t].what \in Nat
    BY TaskTyped DEF FaceInv, DeliveryRow, Edits
  <2>2. face <= version' /\ version' \in Nat /\ \A n \in Nat : n <= version => n <= version'
    BY <1>1, <2>1
  <2>3. DeliveryRow'
    BY <1>1, <1>2, <2>2 DEF FaceInv, DeliveryRow
  <2>4. Edits'
    BY <1>1, <2>1, <2>2 DEF FaceInv, Edits
  <2>5. QED
    BY <2>3, <2>4
<1>4. Final' /\ Unasked'
  BY <1>1, <1>2 DEF FaceInv, Final, InCall, Unasked, Courier!ReceiptAfterFinalCard
<1>5. QED
  BY <1>3, <1>4 DEF FaceInv

(* A task goes on, and leaves row and chat alone.                          *)
LEMMA FaceTask ==
    ASSUME Courier!DeliveryAssumption, FaceInv, NEW t \in Tasks, NEW w \in Courier!TaskStates, task' = [task EXCEPT ![t] = w],
           lock' \in Tasks \cup {Nobody},
           UNCHANGED <<stage, version, face, pinned>>, rendered' \in Nat \cup {-1}, rendered' <= face,
           eff' \in [Courier!Kinds -> Courier!Effects], cursor' \in Nat,
           w.at \in {"edit", "edited"} => lock' = t /\ face <= w.what /\ w.what <= version,
           w.at = "edited" => face = w.what,
           w.at \in {"call", "applied"} => w.kind \in Courier!Kinds,
           w.at \in {"call", "applied"} /\ w.kind # "pin" => stage = "exhausted" /\ face = version,
           log' # log \/ (eff'["unpin"].state # eff["unpin"].state /\ eff'["unpin"].state = "sent")
              => stage = "exhausted" /\ face = version,
           stage = "draft" => eff'["pin"].state = "",
           stage # "exhausted" => eff'["unpin"].state = "" /\ eff'["receipt"].state = "",
           lock' # lock => lock \in {t, Nobody}
    PROVE  FaceInv'
<1>1. task' \in [Tasks -> Courier!TaskStates] /\ task'[t] = w /\ \A s \in Tasks \ {t} : task'[s] = task[s]
  BY DEF FaceInv, DeliveryRow
<1>2. Nobody \notin Tasks
  BY DEF Courier!DeliveryAssumption
<1>3. DeliveryRow'
  BY <1>1 DEF FaceInv, DeliveryRow
<1>4. Edits'
  <2>1. ASSUME NEW s \in Tasks, task'[s].at \in {"edit", "edited"}
        PROVE  lock' = s /\ face <= task'[s].what /\ task'[s].what <= version
    BY <1>1, <1>2, <2>1 DEF FaceInv, Edits
  <2>2. ASSUME NEW s \in Tasks, task'[s].at = "edited" PROVE face = task'[s].what
    BY <1>1, <2>2 DEF FaceInv, Edits
  <2>3. QED
    BY <2>1, <2>2 DEF FaceInv, Edits
<1>5. Final' /\ Unasked'
  BY <1>1 DEF FaceInv, Final, InCall, Unasked, Courier!ReceiptAfterFinalCard
<1>6. QED
  BY <1>3, <1>4, <1>5 DEF FaceInv

(* It rests, or goes through the effects.                                  *)
LEMMA FaceRests ==
    ASSUME Courier!DeliveryAssumption, FaceInv, NEW t \in Tasks, NEW w \in Courier!TaskStates, task' = [task EXCEPT ![t] = w],
           w.at \in {"idle", "effects"}, lock' \in {lock, Nobody}, lock' # lock => lock = t,
           UNCHANGED <<stage, version, eff, cursor, face, pinned, log>>, rendered' \in {rendered, -1, face}
    PROVE  FaceInv'
<1>1. /\ lock' \in Tasks \cup {Nobody} /\ rendered' \in Nat \cup {-1} /\ rendered' <= face
      /\ eff' \in [Courier!Kinds -> Courier!Effects] /\ cursor' \in Nat
  BY DEF FaceInv, DeliveryRow, Edits
<1>2. /\ stage = "draft" => eff'["pin"].state = ""
      /\ stage # "exhausted" => eff'["unpin"].state = "" /\ eff'["receipt"].state = ""
  BY DEF FaceInv, Unasked
<1>3. QED
  BY <1>1, <1>2, FaceTask

LEMMA FaceRenders ==
    ASSUME Courier!DeliveryAssumption, FaceInv, NEW t \in Tasks,
           Courier!BeginRender(t) \/ Courier!BeginTick(t) \/ Courier!EndEffects(t) \/ \E success \in BOOLEAN : Courier!EndRender(t, success)
    PROVE  FaceInv'
<1>1. /\ Courier!Doing("effects", "pin", 0) \in Courier!TaskStates /\ Courier!Doing("effects", "pin", 0).at = "effects"
      /\ Courier!Idle \in Courier!TaskStates /\ Courier!Idle.at = "idle"
  BY EffectNames, TaskDoes, TaskRests
<1>2. CASE Courier!BeginRender(t)
  <2>1. /\ lock = Nobody /\ lock' = t
        /\ UNCHANGED <<stage, version, rendered, eff, cursor, face, pinned, log>>
    BY <1>2 DEF Courier!BeginRender, Courier!row, Courier!chat
  <2>2. PICK w \in Courier!TaskStates : /\ task' = [task EXCEPT ![t] = w] /\ w.at \in {"edit", "effects"}
                                        /\ w.at = "edit" => w.what = version
    <3>1. Courier!Doing("edit", "pin", version) \in Courier!TaskStates /\ Courier!Doing("edit", "pin", version).at = "edit"
          /\ Courier!Doing("edit", "pin", version).what = version
      BY EffectNames, TaskDoes DEF FaceInv, DeliveryRow
    <3>2. QED
      BY <1>1, <1>2, <3>1 DEF Courier!BeginRender
  <2>3. /\ rendered \in Nat \cup {-1} /\ eff \in [Courier!Kinds -> Courier!Effects] /\ cursor \in Nat /\ version \in Nat
        /\ rendered <= face /\ face <= version
        /\ stage = "draft" => eff["pin"].state = ""
        /\ stage # "exhausted" => eff["unpin"].state = "" /\ eff["receipt"].state = ""
    BY DEF FaceInv, DeliveryRow, Edits, Unasked
  <2>4. /\ rendered' \in Nat \cup {-1} /\ eff' \in [Courier!Kinds -> Courier!Effects] /\ cursor' \in Nat
        /\ rendered' <= face /\ lock' \in Tasks \cup {Nobody}
        /\ stage = "draft" => eff'["pin"].state = ""
        /\ stage # "exhausted" => eff'["unpin"].state = "" /\ eff'["receipt"].state = ""
        /\ w.at \in {"edit", "edited"} => lock' = t /\ face <= w.what /\ w.what <= version
        /\ w.at \notin {"edited", "call", "applied"} /\ log' = log /\ eff' = eff
    <3>1. /\ rendered' \in Nat \cup {-1} /\ eff' \in [Courier!Kinds -> Courier!Effects] /\ cursor' \in Nat
          /\ rendered' <= face /\ lock' \in Tasks \cup {Nobody} /\ log' = log /\ eff' = eff
      BY <2>1, <2>3
    <3>2. /\ w.at \in {"edit", "edited"} => lock' = t /\ face <= w.what /\ w.what <= version
          /\ w.at \notin {"edited", "call", "applied"}
      <4>1. version <= version
        <5>1. version \in Nat
          BY <2>3
        <5>2. QED
          BY <5>1
      <4>2. QED
        BY <2>1, <2>2, <2>3, <4>1
    <3>3. QED
      BY <2>3, <3>1, <3>2
  <2>5. QED
    BY <2>1, <2>2, <2>4, FaceTask
<1>3. CASE Courier!BeginTick(t)
  BY <1>1, <1>3, FaceRests DEF Courier!BeginTick, Courier!row, Courier!chat
<1>4. CASE Courier!EndEffects(t)
  BY <1>1, <1>4, FaceRests DEF Courier!EndEffects, Courier!row, Courier!chat
<1>5. ASSUME NEW success \in BOOLEAN, Courier!EndRender(t, success) PROVE FaceInv'
  <2>1. /\ task[t].at \in {"edit", "edited"} /\ lock = t /\ UNCHANGED <<stage, version, eff, cursor, face, pinned, log>>
    BY <1>5 DEF Courier!EndRender, Courier!chat, FaceInv, Edits
  <2>2. rendered' \in {rendered, -1, face}
    BY <1>5 DEF Courier!EndRender, Courier!RecordRender, FaceInv, Edits
  <2>3. \/ task' = [task EXCEPT ![t] = Courier!Doing("effects", "pin", 0)] /\ lock' = lock
        \/ task' = [task EXCEPT ![t] = Courier!Idle] /\ lock' = Nobody
    BY <1>5 DEF Courier!EndRender
  <2>4. QED
    BY <1>1, <2>1, <2>2, <2>3, FaceRests
<1>6. QED
  BY <1>2, <1>3, <1>4, <1>5

LEMMA FaceEdited == ASSUME FaceInv, NEW t \in Tasks, Courier!ApplyEdit(t) PROVE FaceInv'
<1>1. /\ task[t].at = "edit" /\ lock = t /\ face' = task[t].what /\ task[t] \in Courier!TaskStates
      /\ task' = [task EXCEPT ![t] = Courier!Doing("edited", "pin", task[t].what)]
      /\ UNCHANGED <<stage, version, rendered, eff, cursor, lock, pinned, log>>
      /\ face <= face' /\ face' <= version /\ face' \in Nat
  BY DEF Courier!ApplyEdit, Courier!row, FaceInv, DeliveryRow, Edits, Courier!TaskStates
<1>2. Courier!Doing("edited", "pin", face') \in Courier!TaskStates /\ Courier!Doing("edited", "pin", face').at = "edited"
      /\ Courier!Doing("edited", "pin", face').what = face'
  BY <1>1, TaskDoes, EffectNames
<1>3. task'[t] = Courier!Doing("edited", "pin", face') /\ (\A s \in Tasks \ {t} : task'[s] = task[s])
      /\ task' \in [Tasks -> Courier!TaskStates]
  BY <1>1, <1>2 DEF FaceInv, DeliveryRow
<1>4. DeliveryRow' /\ Unasked'
  BY <1>1, <1>3 DEF FaceInv, DeliveryRow, Unasked
<1>5. Edits'
  BY <1>1, <1>2, <1>3 DEF FaceInv, DeliveryRow, Edits
<1>6. Final'
  BY <1>1, <1>2, <1>3 DEF FaceInv, DeliveryRow, Final, InCall, Courier!ReceiptAfterFinalCard
<1>7. QED
  BY <1>4, <1>5, <1>6 DEF FaceInv

LEMMA FaceClaims == ASSUME Courier!DeliveryAssumption, FaceInv, NEW t \in Tasks, Courier!Claim(t) PROVE FaceInv'
<1> DEFINE k == task[t].kind
           e == [state |-> "sending", lease |-> Lease, due |-> eff[k].due, attempts |-> eff[k].attempts + 1, owner |-> t]
<1>1. /\ task[t].at = "effects" /\ k \in Courier!Kinds /\ eff[k] \in Courier!Effects /\ cursor \in Nat
      /\ UNCHANGED <<stage, version, rendered, cursor, lock, face, pinned, log>>
  BY DEF Courier!Claim, Courier!chat, FaceInv, DeliveryRow, Courier!TaskStates
<1>2. e \in Courier!Effects /\ e.state = "sending"
  <2>1. eff[k].due \in Nat /\ eff[k].attempts \in Nat
    BY <1>1 DEF Courier!Effects
  <2>3. Lease \in Nat /\ eff[k].attempts + 1 \in Nat
    BY <2>1 DEF Courier!DeliveryAssumption
  <2>2. QED
    BY <2>1, <2>3 DEF Courier!Effects
<1>3. Courier!After(k) \in Courier!Kinds \cup {"done"}
  BY EffectNames DEF Courier!After
<1>4. CASE Courier!Claimable(k)
  <2>1. eff' = [eff EXCEPT ![k] = e] /\ task' = [task EXCEPT ![t] = Courier!Doing("call", k, cursor)]
    BY <1>4 DEF Courier!Claim
  <2>2. /\ stage = IF k = "pin" THEN "active" ELSE "exhausted"
        /\ rendered >= version
    BY <1>4 DEF Courier!Claimable
  <2> HIDE DEF e, k
  <2>3. /\ eff' \in [Courier!Kinds -> Courier!Effects] /\ eff'[k].state = "sending"
        /\ \A j \in Courier!Kinds \ {k} : eff'[j] = eff[j]
    BY <1>1, <1>2, <2>1 DEF FaceInv, DeliveryRow
  <2>4. k # "pin" => stage = "exhausted" /\ face = version
    BY <2>2 DEF FaceInv, DeliveryRow, Edits
  <2>5. PICK w \in Courier!TaskStates : task' = [task EXCEPT ![t] = w] /\ w.at = "call" /\ w.kind = k
    <3>1. /\ Courier!Doing("call", k, cursor) \in Courier!TaskStates /\ Courier!Doing("call", k, cursor).at = "call"
          /\ Courier!Doing("call", k, cursor).kind = k
      BY <1>1, TaskDoes
    <3>2. QED
      BY <2>1, <3>1
  <2>6. /\ rendered \in Nat \cup {-1} /\ rendered <= face /\ lock \in Tasks \cup {Nobody}
        /\ stage = "draft" => eff["pin"].state = "" /\ k # "pin"
        /\ stage # "exhausted" => eff["unpin"].state = "" /\ eff["receipt"].state = "" /\ k = "pin"
    BY <2>2 DEF FaceInv, DeliveryRow, Edits, Unasked
  <2>7. /\ stage = "draft" => FALSE
        /\ stage # "exhausted" => eff'["unpin"].state = "" /\ eff'["receipt"].state = ""
        /\ eff'["unpin"].state # eff["unpin"].state => eff'["unpin"].state = "sending"
    BY <2>2, <2>3, <2>6, EffectNames
  <2>8. QED
    BY <1>1, <2>3, <2>4, <2>5, <2>6, <2>7, FaceTask
<1>5. CASE ~Courier!Claimable(k)
  <2>1. /\ eff' = IF Courier!Lapsed(k) THEN [eff EXCEPT ![k] = Courier!Fresh("unknown")] ELSE eff
        /\ task' = [task EXCEPT ![t] = Courier!Doing("effects", Courier!After(k), 0)]
    BY <1>5 DEF Courier!Claim
  <2> HIDE DEF e, k
  <2>2. /\ eff' \in [Courier!Kinds -> Courier!Effects] /\ \A j \in Courier!Kinds : eff'[j] = eff[j] \/ (eff[j].state = "sending" /\ eff'[j].state = "unknown")
    BY <1>1, <2>1, FreshEffect DEF FaceInv, DeliveryRow, Courier!Lapsed
  <2>3. PICK w \in Courier!TaskStates : task' = [task EXCEPT ![t] = w] /\ w.at = "effects"
    <3>1. Courier!Doing("effects", Courier!After(k), 0) \in Courier!TaskStates /\ Courier!Doing("effects", Courier!After(k), 0).at = "effects"
      BY <1>3, TaskDoes
    <3>2. QED
      BY <2>1, <3>1
  <2>4. /\ rendered \in Nat \cup {-1} /\ rendered <= face /\ lock \in Tasks \cup {Nobody}
        /\ stage = "draft" => eff["pin"].state = ""
        /\ stage # "exhausted" => eff["unpin"].state = "" /\ eff["receipt"].state = ""
    BY DEF FaceInv, DeliveryRow, Edits, Unasked
  <2>5. /\ stage = "draft" => eff'["pin"].state = ""
        /\ stage # "exhausted" => eff'["unpin"].state = "" /\ eff'["receipt"].state = ""
        /\ eff'["unpin"].state # eff["unpin"].state => eff'["unpin"].state = "unknown"
    BY <2>2, <2>4, EffectNames
  <2>6. QED
    BY <1>1, <2>2, <2>3, <2>4, <2>5, FaceTask
<1>6. QED
  BY <1>4, <1>5

LEMMA FaceCalls == ASSUME Courier!DeliveryAssumption, FaceInv, NEW t \in Tasks, Courier!ApplyCall(t) PROVE FaceInv'
<1>1. /\ task[t].at = "call" /\ task[t] \in Courier!TaskStates
      /\ UNCHANGED <<stage, version, rendered, eff, cursor, lock, face>> 
      /\ pinned' \in BOOLEAN /\ (log' # log => task[t].kind \notin {"pin", "unpin"})
      /\ task' = [task EXCEPT ![t] = Courier!Doing("applied", task[t].kind, task[t].what)]
  <2>1. /\ task[t].at = "call" /\ UNCHANGED <<stage, version, rendered, eff, cursor, lock, face>>
        /\ task' = [task EXCEPT ![t] = Courier!Doing("applied", task[t].kind, task[t].what)]
    BY DEF Courier!ApplyCall, Courier!row
  <2>2. task[t] \in Courier!TaskStates /\ pinned \in BOOLEAN
    BY DEF FaceInv, DeliveryRow
  <2>3. CASE task[t].kind = "pin"
    BY <2>1, <2>2, <2>3 DEF Courier!ApplyCall
  <2>4. CASE task[t].kind = "unpin"
    BY <2>1, <2>2, <2>4 DEF Courier!ApplyCall
  <2>5. CASE task[t].kind \notin {"pin", "unpin"}
    BY <2>1, <2>2, <2>5 DEF Courier!ApplyCall
  <2>6. QED
    BY <2>3, <2>4, <2>5
<1>2. task[t].kind # "pin" => stage = "exhausted" /\ face = version
  BY <1>1 DEF FaceInv, Final, InCall
<1>3. Courier!Doing("applied", task[t].kind, task[t].what) \in Courier!TaskStates
      /\ Courier!Doing("applied", task[t].kind, task[t].what).at = "applied"
      /\ Courier!Doing("applied", task[t].kind, task[t].what).kind = task[t].kind
  BY <1>1, TaskDoes DEF Courier!TaskStates
<1>4. task' \in [Tasks -> Courier!TaskStates] /\ task'[t].at = "applied" /\ task'[t].kind = task[t].kind
      /\ \A s \in Tasks \ {t} : task'[s] = task[s]
  BY <1>1, <1>3 DEF FaceInv, DeliveryRow
<1>5. DeliveryRow' /\ Edits' /\ Unasked'
  BY <1>1, <1>4 DEF FaceInv, DeliveryRow, Edits, Unasked
<1>6. Final'
  BY <1>1, <1>2, <1>4 DEF FaceInv, Final, InCall, Courier!ReceiptAfterFinalCard
<1>7. QED
  BY <1>5, <1>6 DEF FaceInv

(* What finish makes of an effect, its own or the unpin.                   *)
LEMMA WrittenEffect ==
    ASSUME Courier!DeliveryAssumption, NEW k \in Courier!Kinds, NEW t \in Tasks, eff[k] \in Courier!Effects,
           NEW outcome \in {"ok", "retry", "failed", "unknown"}
    PROVE  /\ Courier!Written(k, t, outcome) \in Courier!Effects
           /\ Courier!Owned(k, t) => Courier!Written(k, t, outcome).state = Courier!Finished(k, t, outcome)
           /\ ~Courier!Owned(k, t) => Courier!Written(k, t, outcome) = eff[k]
<1>1. Courier!Finished(k, t, outcome) \in {"pending", "sent", "retry", "failed", "unknown"}
  BY DEF Courier!Finished
<1>2. Delay \in Nat /\ eff[k].attempts \in Nat
  BY DEF Courier!Effects, Courier!DeliveryAssumption
<1>3. QED
  BY <1>1, <1>2 DEF Courier!Written, Courier!Effects

LEMMA FinishWrites ==
    ASSUME Courier!DeliveryAssumption, FaceInv, NEW t \in Tasks, NEW outcome \in {"ok", "retry", "failed", "unknown"},
           NEW dies \in BOOLEAN, Courier!Finish(t, outcome, dies)
    PROVE  /\ eff' \in [Courier!Kinds -> Courier!Effects] /\ cursor' \in Nat
           /\ task[t].kind \in Courier!Kinds /\ eff'[task[t].kind] = Courier!Written(task[t].kind, t, outcome)
           /\ \A j \in Courier!Kinds \ {task[t].kind} :
                 \/ eff'[j] = eff[j]
                 \/ j = "unpin" /\ stage = "exhausted" /\ eff[j].state # "sending" /\ eff'[j] = Courier!Fresh("pending")
           /\ cursor' # cursor => cursor' = task[t].what + 1 /\ task[t].kind = "receipt" /\ outcome = "ok"
           /\ UNCHANGED <<stage, version, rendered, face, pinned, log>>
<1> DEFINE k == task[t].kind
<1>1. k \in Courier!Kinds /\ task[t].what \in Nat /\ eff[k] \in Courier!Effects /\ cursor \in Nat
  <2>1. InCall(t)
    BY DEF Courier!Finish, InCall
  <2>2. k \in Courier!Kinds
    BY <2>1 DEF FaceInv, Final
  <2>3. QED
    BY <2>2, TaskTyped DEF FaceInv, DeliveryRow
<1>2. Courier!Written(k, t, outcome) \in Courier!Effects /\ Courier!Fresh("pending") \in Courier!Effects
  BY <1>1, WrittenEffect, FreshEffect
<1>3. /\ eff' = [j \in Courier!Kinds |->
                 IF j = k THEN Courier!Written(k, t, outcome)
                 ELSE IF j = "unpin" /\ Courier!UnpinAgain(k, outcome) /\ ~dies THEN Courier!Fresh("pending")
                 ELSE eff[j]]
      /\ cursor' = IF k = "receipt" /\ outcome = "ok" /\ Courier!Owned(k, t) THEN task[t].what + 1 ELSE cursor
      /\ UNCHANGED <<stage, version, rendered, face, pinned, log>>
  BY DEF Courier!Finish, Courier!chat
<1> HIDE DEF k
<1>4. eff' \in [Courier!Kinds -> Courier!Effects]
  BY <1>2, <1>3 DEF FaceInv, DeliveryRow
<1>5. \A j \in Courier!Kinds \ {k} :
          \/ eff'[j] = eff[j]
          \/ j = "unpin" /\ stage = "exhausted" /\ eff[j].state # "sending" /\ eff'[j] = Courier!Fresh("pending")
  BY <1>3 DEF Courier!UnpinAgain
<1>6. cursor' \in Nat /\ (cursor' # cursor => cursor' = task[t].what + 1 /\ k = "receipt" /\ outcome = "ok")
  BY <1>1, <1>3
<1>7. QED
  BY <1>1, <1>3, <1>4, <1>5, <1>6 DEF k

LEMMA FaceFinishes ==
    ASSUME Courier!DeliveryAssumption, FaceInv, NEW t \in Tasks, NEW outcome \in {"ok", "retry", "failed", "unknown"},
           NEW dies \in BOOLEAN, Courier!Finish(t, outcome, dies)
    PROVE  FaceInv'
<1> DEFINE k == task[t].kind
<1>1. /\ eff' \in [Courier!Kinds -> Courier!Effects] /\ cursor' \in Nat
      /\ k \in Courier!Kinds /\ eff'[k] = Courier!Written(k, t, outcome)
      /\ \A j \in Courier!Kinds \ {k} :
            \/ eff'[j] = eff[j]
            \/ j = "unpin" /\ stage = "exhausted" /\ eff[j].state # "sending" /\ eff'[j] = Courier!Fresh("pending")
      /\ UNCHANGED <<stage, version, rendered, face, pinned, log>>
  BY FinishWrites
<1>2. eff[k] \in Courier!Effects /\ InCall(t) /\ (k # "pin" => stage = "exhausted" /\ face = version)
  BY <1>1 DEF FaceInv, DeliveryRow, Final, InCall, Courier!Finish
<1>3. eff'[k] = eff[k] \/ eff[k].state = "sending"
  BY <1>1, <1>2, WrittenEffect DEF Courier!Owned
<1>4. \/ \E w \in Courier!TaskStates : w.at = "effects" /\ task' = [task EXCEPT ![t] = w] /\ UNCHANGED lock
      \/ task' = [s \in Tasks |-> Courier!Idle] /\ lock' = Nobody
  <2>1. Courier!After(k) \in Courier!Kinds \cup {"done"}
    BY EffectNames DEF Courier!After
  <2>2. \A j \in Courier!Kinds \cup {"done"} : Courier!Doing("effects", j, 0) \in Courier!TaskStates /\ Courier!Doing("effects", j, 0).at = "effects"
    BY TaskDoes
  <2>3. CASE dies
    BY <2>3 DEF Courier!Finish, Courier!Die
  <2>4. CASE ~dies
    BY <1>1, <2>1, <2>2, <2>4 DEF Courier!Finish
  <2>5. QED
    BY <2>3, <2>4
<1> HIDE DEF k
<1>5. Courier!Fresh("pending").state = "pending"
  BY FreshEffect
<1>6. /\ stage = "draft" => eff'["pin"].state = ""
      /\ stage # "exhausted" => eff'["unpin"].state = "" /\ eff'["receipt"].state = ""
      /\ eff'["unpin"].state # eff["unpin"].state /\ eff'["unpin"].state = "sent" => k = "unpin"
  <2>1. /\ stage = "draft" => eff["pin"].state = ""
        /\ stage # "exhausted" => eff["unpin"].state = "" /\ eff["receipt"].state = ""
    BY DEF FaceInv, Unasked
  <2>2. QED
    BY <1>1, <1>2, <1>3, <1>5, <2>1, EffectNames
<1>7. CASE \E w \in Courier!TaskStates : w.at = "effects" /\ task' = [task EXCEPT ![t] = w] /\ UNCHANGED lock
  <2>1. PICK w \in Courier!TaskStates : w.at = "effects" /\ task' = [task EXCEPT ![t] = w] /\ UNCHANGED lock
    BY <1>7
  <2>2. rendered' \in Nat \cup {-1} /\ rendered' <= face /\ lock' \in Tasks \cup {Nobody}
    BY <1>1, <2>1 DEF FaceInv, DeliveryRow, Edits
  <2>3. QED
    BY <1>1, <1>2, <1>6, <2>1, <2>2, FaceTask
<1>8. CASE task' = [s \in Tasks |-> Courier!Idle] /\ lock' = Nobody
  <2>1. \A s \in Tasks : task'[s].at = "idle"
    BY <1>8, TaskRests
  <2>2. DeliveryRow'
    BY <1>1, <1>8, TaskRests DEF FaceInv, DeliveryRow
  <2>3. Edits' /\ Unasked'
    BY <1>1, <1>6, <2>1 DEF FaceInv, Edits, Unasked
  <2>4. Final'
    BY <1>1, <1>2, <1>6, <2>1 DEF FaceInv, Final, InCall, Courier!ReceiptAfterFinalCard
  <2>5. QED
    BY <2>2, <2>3, <2>4 DEF FaceInv
<1>9. QED
  BY <1>4, <1>7, <1>8

(* The process dies, or time passes.                                       *)
LEMMA FaceWaits == ASSUME FaceInv, Courier!Crash \/ Courier!Tick PROVE FaceInv'
<1>1. CASE Courier!Crash
  <2>1. /\ task' = [s \in Tasks |-> Courier!Idle] /\ lock' = Nobody
        /\ UNCHANGED <<stage, version, rendered, eff, cursor, face, pinned, log>>
    BY <1>1 DEF Courier!Crash, Courier!Die, Courier!row, Courier!chat
  <2>2. \A s \in Tasks : task'[s].at = "idle"
    BY <2>1, TaskRests
  <2>3. DeliveryRow'
    BY <2>1, TaskRests DEF FaceInv, DeliveryRow
  <2>4. Edits' /\ Unasked' /\ Final'
    BY <2>1, <2>2 DEF FaceInv, Edits, Unasked, Final, InCall, Courier!ReceiptAfterFinalCard
  <2>5. QED
    BY <2>3, <2>4 DEF FaceInv
<1>2. CASE Courier!Tick
  <2>1. /\ eff' = [k \in Courier!Kinds |-> [eff[k] EXCEPT !.lease = Courier!OneLess(@), !.due = Courier!OneLess(@)]]
        /\ UNCHANGED <<stage, version, rendered, cursor, lock, task, face, pinned, log>>
    BY <1>2 DEF Courier!Tick, Courier!chat
  <2>2. \A n \in Nat : Courier!OneLess(n) \in Nat
    BY DEF Courier!OneLess
  <2>3. ASSUME NEW k \in Courier!Kinds PROVE eff'[k] \in Courier!Effects /\ eff'[k].state = eff[k].state
    <3>1. eff[k] \in Courier!Effects /\ eff'[k] = [eff[k] EXCEPT !.lease = Courier!OneLess(@), !.due = Courier!OneLess(@)]
      BY <2>1 DEF FaceInv, DeliveryRow
    <3>2. QED
      BY <2>2, <3>1 DEF Courier!Effects
  <2>4. eff' \in [Courier!Kinds -> Courier!Effects]
    BY <2>1, <2>3
  <2>5. DeliveryRow' /\ Edits' /\ Unasked' /\ Final'
    BY <2>1, <2>3, <2>4, EffectNames DEF FaceInv, DeliveryRow, Edits, Unasked, Final, InCall, Courier!ReceiptAfterFinalCard
  <2>6. QED
    BY <2>5 DEF FaceInv
<1>3. QED
  BY <1>1, <1>2

LEMMA FaceStep == ASSUME Courier!DeliveryAssumption, FaceInv, [Courier!Next]_(Courier!vars) PROVE FaceInv'
<1>1. CASE UNCHANGED Courier!vars
  BY <1>1 DEF Courier!vars, Courier!row, Courier!chat, FaceInv, DeliveryRow, Edits, Unasked, Final, InCall, Courier!ReceiptAfterFinalCard
<1>2. ASSUME NEW t \in Tasks, Courier!Work(t) PROVE FaceInv'
  BY <1>2, FaceRenders, FaceEdited, FaceClaims, FaceCalls, FaceFinishes DEF Courier!Work
<1>3. QED
  BY <1>1, <1>2, FaceGoesOn, FaceWaits DEF Courier!Next

(* Whatever tasks overlap and however often the process dies: a version is  *)
(* recorded only while the card shows it or a later one, and the receipt    *)
(* and the unpin follow the final card (packet_delivery.py, bot_packets.py).*)
THEOREM PacketReceiptFollowsCard ==
    ASSUME Courier!DeliveryAssumption PROVE Courier!Spec => [](Courier!ReceiptAfterFinalCard /\ Courier!RecordedIsShown)
<1>1. Courier!Init => FaceInv
  BY FaceInit
<1>2. FaceInv /\ [Courier!Next]_(Courier!vars) => FaceInv'
  BY FaceStep
<1>3. FaceInv => Courier!ReceiptAfterFinalCard /\ Courier!RecordedIsShown
  BY DEF FaceInv, Final, Edits, Courier!RecordedIsShown
<1>4. QED
  BY <1>1, <1>2, <1>3, PTL DEF Courier!Spec

(* As long as calls end before their lease: who is calling owns the effect, *)
(* so that nobody else does; who unpins has not been overtaken by a pin.    *)
Held == \A t \in Tasks : InCall(t) => LET e == eff[task[t].kind]
                                      IN e.state = "sending" /\ e.owner = t /\ e.lease > 0
Calls(t, k) == InCall(t) /\ task[t].kind = k
Pinning ==
    /\ eff["unpin"].state = "sent" \/ (\E t \in Tasks : Calls(t, "unpin")) => \A t \in Tasks : ~Calls(t, "pin")
    /\ eff["unpin"].state = "sent" \/ (\E t \in Tasks : Calls(t, "unpin") /\ task[t].at = "applied") => ~pinned

(* The messages of the receipt that are in the group: those acknowledged    *)
(* and perhaps the next.                                                   *)
Sent ==
    /\ log \in Seq(Nat) /\ \A i \in DOMAIN log : log[i] = i
    /\ Len(log) \in {cursor, cursor + 1} /\ cursor <= Messages
    /\ eff["receipt"].state \in {"", "pending", "retry", "sent"} => Len(log) = cursor
    /\ eff["receipt"].state # "sent" => cursor < Messages
    /\ \A t \in Tasks : Calls(t, "receipt") =>
          task[t].what = cursor /\ Len(log) = IF task[t].at = "call" THEN cursor ELSE cursor + 1

(* A step that sends nothing and acknowledges nothing.                     *)
Quiet ==
    /\ UNCHANGED <<pinned, log, cursor>>
    /\ \A t \in Tasks : InCall(t)' => /\ task'[t] = task[t]
                                      /\ eff'[task[t].kind].state = "sending" /\ eff'[task[t].kind].owner = t
                                      /\ eff'[task[t].kind].lease > 0
    /\ \A k \in Courier!Kinds : \/ eff'[k].state = eff[k].state
                                \/ eff[k].state = "" /\ eff'[k].state = "pending"
                                \/ eff[k].state = "sending" /\ eff'[k].state = "unknown"

LEMMA QuietHeld == ASSUME Held, Pinning, Quiet PROVE Held' /\ Pinning'
<1>1. Held'
  <2>1. ASSUME NEW t \in Tasks, InCall(t)'
        PROVE  /\ eff'[task'[t].kind].state = "sending" /\ eff'[task'[t].kind].owner = t
               /\ eff'[task'[t].kind].lease > 0
    BY <2>1 DEF Quiet
  <2>2. QED
    BY <2>1 DEF Held
<1>2. \A t \in Tasks : \A k : Calls(t, k)' => Calls(t, k) /\ task'[t] = task[t]
  BY DEF Calls, InCall, Quiet
<1>3. pinned' = pinned /\ (eff'["unpin"].state = "sent" => eff["unpin"].state = "sent")
  BY EffectNames DEF Quiet
<1>4. Pinning'
  BY <1>2, <1>3 DEF Pinning
<1>5. QED
  BY <1>1, <1>4

LEMMA QuietSent == ASSUME Sent, Quiet PROVE Sent'
<1>1. \A t \in Tasks : Calls(t, "receipt")' => Calls(t, "receipt") /\ task'[t] = task[t]
  BY DEF Calls, InCall, Quiet
<1>2. /\ UNCHANGED <<log, cursor>>
      /\ eff'["receipt"].state \in {"", "pending", "retry", "sent"} => eff["receipt"].state \in {"", "pending", "retry", "sent"}
      /\ eff'["receipt"].state # "sent" => eff["receipt"].state # "sent"
  BY EffectNames DEF Quiet
<1>3. QED
  BY <1>1, <1>2 DEF Sent

LEMMA NobodyCalls ==
    ASSUME Held, NEW k, eff[k].state # "sending" \/ ~(eff[k].lease > 0) PROVE \A t \in Tasks : ~Calls(t, k)
  BY DEF Held, Calls

LEMMA QuietRow == ASSUME FaceInv, Held, Courier!Confirm \/ Courier!ClaimShare PROVE Quiet
<1>1. UNCHANGED <<pinned, log, cursor, task>>
  BY DEF Courier!Confirm, Courier!ClaimShare, Courier!chat
<1>2. Courier!Fresh("pending").state = "pending"
  BY FreshEffect
<1>3. \A k \in Courier!Kinds : eff'[k] = eff[k] \/ (eff[k].state = "" /\ eff'[k].state = "pending")
  BY <1>2 DEF Courier!Confirm, Courier!ClaimShare, FaceInv, DeliveryRow, Unasked
<1>4. ASSUME NEW t \in Tasks, InCall(t)
      PROVE  /\ eff'[task[t].kind].state = "sending" /\ eff'[task[t].kind].owner = t
             /\ eff'[task[t].kind].lease > 0
  <2>1. task[t].kind \in Courier!Kinds /\ eff[task[t].kind].state = "sending"
    BY <1>4 DEF FaceInv, Final, Held
  <2>2. eff'[task[t].kind] = eff[task[t].kind]
    BY <1>3, <2>1
  <2>3. QED
    BY <1>4, <2>2 DEF Held
<1>5. QED
  BY <1>1, <1>3, <1>4 DEF Quiet, InCall

(* A task that is not calling goes on with something else.                 *)
LEMMA QuietTask ==
    ASSUME FaceInv, Held, NEW t \in Tasks, NEW w, task' = [task EXCEPT ![t] = w], w.at \notin {"call", "applied"},
           UNCHANGED <<eff, pinned, log, cursor>>
    PROVE  Quiet
<1>1. task'[t] = w /\ \A s \in Tasks \ {t} : task'[s] = task[s]
  BY DEF FaceInv, DeliveryRow
<1>2. \A s \in Tasks : InCall(s)' => s # t
  BY <1>1 DEF InCall
<1>3. QED
  BY <1>1, <1>2 DEF Quiet, Held, InCall

LEMMA QuietTasks ==
    ASSUME FaceInv, Held, NEW t \in Tasks,
           \/ Courier!BeginRender(t) \/ Courier!BeginTick(t) \/ Courier!EndEffects(t) \/ Courier!ApplyEdit(t)
           \/ \E success \in BOOLEAN : Courier!EndRender(t, success)
    PROVE  Quiet
<1>1. UNCHANGED <<eff, pinned, log, cursor>>
  BY DEF Courier!BeginRender, Courier!BeginTick, Courier!EndEffects, Courier!ApplyEdit, Courier!EndRender, Courier!row, Courier!chat
<1>2. /\ Courier!Doing("effects", "pin", 0).at = "effects" /\ Courier!Doing("edit", "pin", version).at = "edit"
      /\ Courier!Doing("edited", "pin", task[t].what).at = "edited" /\ Courier!Idle.at = "idle"
  BY TaskDoes, TaskRests, TaskTyped, EffectNames DEF FaceInv, DeliveryRow
<1>3. \/ task' = [task EXCEPT ![t] = Courier!Doing("effects", "pin", 0)]
      \/ task' = [task EXCEPT ![t] = Courier!Doing("edit", "pin", version)]
      \/ task' = [task EXCEPT ![t] = Courier!Doing("edited", "pin", task[t].what)]
      \/ task' = [task EXCEPT ![t] = Courier!Idle]
  BY DEF Courier!BeginRender, Courier!BeginTick, Courier!EndEffects, Courier!ApplyEdit, Courier!EndRender
<1>4. QED
  BY <1>1, <1>2, <1>3, QuietTask

(* The process dies, or time passes, which no call outlives.               *)
LEMMA QuietWaits == ASSUME Prompt, FaceInv, Held, Courier!Crash \/ Courier!Tick PROVE Quiet
<1>1. CASE Courier!Crash
  <2>1. task' = [s \in Tasks |-> Courier!Idle] /\ UNCHANGED <<eff, pinned, log, cursor>>
    BY <1>1 DEF Courier!Crash, Courier!Die, Courier!row, Courier!chat
  <2>2. \A s \in Tasks : ~InCall(s)'
    BY <2>1, TaskRests DEF InCall
  <2>3. QED
    BY <2>1, <2>2 DEF Quiet
<1>2. CASE Courier!Tick
  <2>1. /\ eff' = [k \in Courier!Kinds |-> [eff[k] EXCEPT !.lease = Courier!OneLess(@), !.due = Courier!OneLess(@)]]
        /\ UNCHANGED <<pinned, log, cursor, task>>
        /\ \A k \in Courier!Kinds : eff[k].lease = 1 => \A t \in Tasks : ~Courier!Calling(t, k)
    BY <1>2 DEF Courier!Tick, Courier!chat
  <2>2. ASSUME NEW k \in Courier!Kinds
        PROVE  eff'[k].state = eff[k].state /\ eff'[k].owner = eff[k].owner /\ eff'[k].lease = Courier!OneLess(eff[k].lease)
               /\ eff[k].lease \in Nat
    <3>1. eff[k] \in Courier!Effects /\ eff'[k] = [eff[k] EXCEPT !.lease = Courier!OneLess(@), !.due = Courier!OneLess(@)]
      BY <2>1 DEF FaceInv, DeliveryRow
    <3>2. QED
      BY <3>1 DEF Courier!Effects
  <2>3. ASSUME NEW t \in Tasks, InCall(t)
        PROVE  /\ eff'[task[t].kind].state = "sending" /\ eff'[task[t].kind].owner = t
               /\ eff'[task[t].kind].lease > 0
    <3>1. /\ task[t].kind \in Courier!Kinds /\ eff[task[t].kind].state = "sending" /\ eff[task[t].kind].owner = t
          /\ eff[task[t].kind].lease > 0
      BY <2>3 DEF FaceInv, Final, Held
    <3>2. eff[task[t].kind].lease # 1
      BY <2>1, <2>3, <3>1 DEF Courier!Calling, InCall
    <3>3. eff[task[t].kind].lease \in Nat
      BY <2>2, <3>1
    <3>4. Courier!OneLess(eff[task[t].kind].lease) > 0
      BY <3>1, <3>2, <3>3 DEF Courier!OneLess
    <3>5. QED
      BY <2>2, <3>1, <3>4
  <2>4. QED
    BY <2>1, <2>2, <2>3 DEF Quiet, InCall
<1>3. QED
  BY <1>1, <1>2
(* claim: either nobody had the effect, or its lease has run out and nobody *)
(* is calling; an unpin waits for the pin.                                 *)
LEMMA ClaimsOne ==
    ASSUME Courier!DeliveryAssumption, FaceInv, Held, Pinning, Sent, NEW t \in Tasks, Courier!Claim(t)
    PROVE  Held' /\ Pinning' /\ Sent'
<1> DEFINE k == task[t].kind
           e == [state |-> "sending", lease |-> Lease, due |-> eff[k].due, attempts |-> eff[k].attempts + 1, owner |-> t]
<1>1. /\ task[t].at = "effects" /\ k \in Courier!Kinds /\ cursor \in Nat /\ eff \in [Courier!Kinds -> Courier!Effects]
      /\ task \in [Tasks -> Courier!TaskStates] /\ UNCHANGED <<stage, pinned, log, cursor>>
  BY DEF Courier!Claim, Courier!chat, FaceInv, DeliveryRow, Courier!TaskStates
<1>2. CASE Courier!Claimable(k)
  <2>1. eff' = [eff EXCEPT ![k] = e] /\ task' = [task EXCEPT ![t] = Courier!Doing("call", k, cursor)]
    BY <1>2 DEF Courier!Claim
  <2>2. /\ eff[k].state \in {"pending", "retry"} /\ (stage = IF k = "pin" THEN "active" ELSE "exhausted")
        /\ k = "unpin" => eff["pin"].state # "sending" \/ ~(eff["pin"].lease > 0)
    BY <1>2 DEF Courier!Claimable
  <2>3. /\ Courier!Doing("call", k, cursor).at = "call" /\ Courier!Doing("call", k, cursor).kind = k
        /\ Courier!Doing("call", k, cursor).what = cursor
    BY <1>1, TaskDoes
  <2>4. e.state = "sending" /\ e.owner = t /\ e.lease = Lease /\ Lease > 0
    BY DEF Courier!DeliveryAssumption
  <2> HIDE DEF e, k
  <2>5. /\ eff'[k] = e /\ \A j \in Courier!Kinds \ {k} : eff'[j] = eff[j]
        /\ task'[t].at = "call" /\ task'[t].kind = k /\ task'[t].what = cursor
        /\ \A s \in Tasks \ {t} : task'[s] = task[s]
    BY <1>1, <2>1, <2>3
  <2>6. \A s \in Tasks : ~Calls(s, k)
    BY <2>2, NobodyCalls
  <2>7. \A s \in Tasks \ {t} : InCall(s)' => InCall(s) /\ task[s].kind \in Courier!Kinds \ {k}
    BY <2>5, <2>6 DEF FaceInv, Final, InCall, Calls
  <2>8. Held'
    <3>1. ASSUME NEW s \in Tasks, InCall(s)' PROVE eff'[task'[s].kind].state = "sending" /\ eff'[task'[s].kind].owner = s
                                                    /\ eff'[task'[s].kind].lease > 0
      <4>1. CASE s = t
        BY <2>4, <2>5, <4>1
      <4>2. CASE s # t
        BY <2>5, <2>7, <3>1, <4>2 DEF Held
      <4>3. QED
        BY <4>1, <4>2
    <3>2. QED
      BY <3>1 DEF Held
  <2>9. Pinning'
    <3>1. /\ eff'["unpin"].state = "sent" => eff["unpin"].state = "sent" /\ k # "unpin"
          /\ k # "pin" \/ (stage = "active" /\ eff["unpin"].state = "")
      BY <2>2, <2>4, <2>5, EffectNames DEF FaceInv, Unasked
    <3>2. k = "pin" => \A s \in Tasks : ~Calls(s, "unpin")
      BY <3>1, NobodyCalls
    <3>3. k = "unpin" => \A s \in Tasks : ~Calls(s, "pin")
      BY <2>2, NobodyCalls
    <3>4. \A s \in Tasks : \A j : Calls(s, j)' => (s = t /\ j = k) \/ (s # t /\ Calls(s, j) /\ task'[s] = task[s])
      BY <2>5 DEF Calls, InCall
    <3>5. eff'["unpin"].state = "sent" \/ (\E s \in Tasks : Calls(s, "unpin")') => \A s \in Tasks : ~Calls(s, "pin")'
      BY <3>1, <3>2, <3>3, <3>4 DEF Pinning
    <3>6. eff'["unpin"].state = "sent" \/ (\E s \in Tasks : Calls(s, "unpin")' /\ task'[s].at = "applied") => ~pinned'
      BY <1>1, <2>5, <3>1, <3>4 DEF Pinning
    <3>7. QED
      BY <3>5, <3>6 DEF Pinning
  <2>10. Sent'
    <3>1. CASE k = "receipt"
      <4>1. Len(log) = cursor /\ cursor < Messages /\ eff'["receipt"].state = "sending"
        BY <2>2, <2>4, <2>5, <3>1 DEF Sent
      <4>2. \A s \in Tasks : Calls(s, "receipt")' => s = t
        BY <2>5, <2>6, <3>1 DEF Calls, InCall
      <4>3. QED
        BY <1>1, <2>5, <4>1, <4>2 DEF Sent
    <3>2. CASE k # "receipt"
      <4>1. eff'["receipt"] = eff["receipt"] /\ \A s \in Tasks : Calls(s, "receipt")' => Calls(s, "receipt") /\ task'[s] = task[s]
        BY <2>5, <3>2, EffectNames DEF Calls, InCall
      <4>2. QED
        BY <1>1, <4>1 DEF Sent
    <3>3. QED
      BY <3>1, <3>2
  <2>11. QED
    BY <2>8, <2>9, <2>10
<1>3. CASE ~Courier!Claimable(k)
  <2>1. /\ eff' = IF Courier!Lapsed(k) THEN [eff EXCEPT ![k] = Courier!Fresh("unknown")] ELSE eff
        /\ task' = [task EXCEPT ![t] = Courier!Doing("effects", Courier!After(k), 0)]
    BY <1>3 DEF Courier!Claim
  <2> HIDE DEF e, k
  <2>2. Courier!Doing("effects", Courier!After(k), 0).at = "effects"
    BY TaskDoes, EffectNames DEF Courier!After
  <2>3. task'[t].at = "effects" /\ \A s \in Tasks \ {t} : task'[s] = task[s]
    BY <1>1, <2>1, <2>2
  <2>4. \A j \in Courier!Kinds : eff'[j] = eff[j] \/ (eff[j].state = "sending" /\ eff[j].lease = 0 /\ eff'[j].state = "unknown")
    BY <1>1, <2>1, FreshEffect DEF Courier!Lapsed
  <2>5. ASSUME NEW s \in Tasks, InCall(s)'
        PROVE  /\ task'[s] = task[s] /\ eff'[task[s].kind].state = "sending" /\ eff'[task[s].kind].owner = s
               /\ eff'[task[s].kind].lease > 0
    <3>1. s # t /\ task'[s] = task[s] /\ InCall(s)
      BY <2>3, <2>5 DEF InCall
    <3>2. /\ task[s].kind \in Courier!Kinds /\ eff[task[s].kind].lease > 0 /\ eff[task[s].kind].state = "sending"
          /\ eff[task[s].kind].owner = s
      BY <3>1 DEF FaceInv, Final, Held
    <3>3. eff[task[s].kind].lease # 0
      BY <3>2
    <3>4. eff'[task[s].kind] = eff[task[s].kind]
      BY <2>4, <3>2, <3>3
    <3>5. QED
      BY <3>1, <3>2, <3>4
  <2>6. Quiet
    BY <1>1, <2>4, <2>5 DEF Quiet
  <2>7. QED
    BY <2>6, QuietHeld, QuietSent
<1>4. QED
  BY <1>2, <1>3

(* Telegram carries out a call: the pin, the unpin or the next message.    *)
LEMMA CallsOne ==
    ASSUME Courier!DeliveryAssumption, FaceInv, Held, Pinning, Sent, NEW t \in Tasks, Courier!ApplyCall(t)
    PROVE  Held' /\ Pinning' /\ Sent'
<1> DEFINE k == task[t].kind
<1>1. /\ task[t].at = "call" /\ k \in Courier!Kinds /\ task[t].what \in Nat /\ UNCHANGED <<eff, cursor>>
      /\ task \in [Tasks -> Courier!TaskStates]
      /\ task' = [task EXCEPT ![t] = Courier!Doing("applied", k, task[t].what)]
  BY TaskTyped DEF Courier!ApplyCall, Courier!row, FaceInv, DeliveryRow, Final, InCall
<1>2. /\ k = "pin" => pinned' = TRUE /\ log' = log
      /\ k = "unpin" => pinned' = FALSE /\ log' = log
      /\ k = "receipt" => log' = Append(log, task[t].what + 1) /\ pinned' = pinned
  <2>1. CASE k = "pin"
    BY <2>1 DEF Courier!ApplyCall
  <2>2. CASE k = "unpin"
    BY <2>2 DEF Courier!ApplyCall
  <2>3. CASE k = "receipt"
    BY <2>3 DEF Courier!ApplyCall
  <2>4. QED
    BY <1>1, <2>1, <2>2, <2>3, EffectNames
<1>3. /\ Courier!Doing("applied", k, task[t].what).at = "applied" /\ Courier!Doing("applied", k, task[t].what).kind = k
      /\ Courier!Doing("applied", k, task[t].what).what = task[t].what
  BY <1>1, TaskDoes
<1> HIDE DEF k
<1>4. /\ task'[t].at = "applied" /\ task'[t].kind = k /\ task'[t].what = task[t].what
      /\ \A s \in Tasks \ {t} : task'[s] = task[s]
  BY <1>1, <1>3
<1>5. Calls(t, k) /\ \A s \in Tasks : \A j : Calls(s, j)' <=> Calls(s, j)
  BY <1>1, <1>4 DEF Calls, InCall, k
<1>6. Held'
  BY <1>1, <1>4 DEF Held, InCall, k
<1>7. \A s \in Tasks : Calls(s, k) => s = t
  BY <1>5 DEF Held, Calls
<1>8. Pinning'
  <2>1. CASE k = "pin"
    <3>1. eff["unpin"].state # "sent" /\ \A s \in Tasks : ~Calls(s, "unpin")
      BY <1>5, <2>1 DEF Pinning
    <3>2. QED
      BY <1>1, <1>5, <3>1 DEF Pinning
  <2>2. CASE k = "unpin"
    BY <1>1, <1>2, <1>5, <2>2 DEF Pinning
  <2>3. CASE k = "receipt"
    <3>1. \A s \in Tasks : Calls(s, "unpin") => s # t /\ task'[s] = task[s]
      BY <1>4, <1>5, <2>3 DEF Calls, k
    <3>2. QED
      BY <1>1, <1>2, <1>5, <2>3, <3>1 DEF Pinning
  <2>4. QED
    BY <1>1, <2>1, <2>2, <2>3, EffectNames
<1>9. Sent'
  <2>1. CASE k = "receipt"
    <3>1. task[t].what = cursor /\ Len(log) = cursor /\ log \in Seq(Nat) /\ cursor \in Nat /\ Messages \in Nat
          /\ eff["receipt"].state = "sending" /\ \A i \in DOMAIN log : log[i] = i
      <4>1. eff["receipt"].state = "sending"
        BY <1>5, <2>1 DEF Held, Calls
      <4>2. cursor \in Nat /\ Messages \in Nat
        BY DEF FaceInv, DeliveryRow, Courier!DeliveryAssumption
      <4>3. task[t].what = cursor /\ Len(log) = cursor
        BY <1>1, <1>5, <2>1 DEF Sent
      <4>4. log \in Seq(Nat) /\ \A i \in DOMAIN log : log[i] = i
        BY DEF Sent
      <4>5. QED
        BY <4>1, <4>2, <4>3, <4>4
    <3>2. log' = Append(log, Len(log) + 1) /\ Len(log') = cursor + 1 /\ log' \in Seq(Nat)
      BY <1>2, <2>1, <3>1
    <3>3. \A i \in DOMAIN log' : log'[i] = i
      BY <3>1, <3>2
    <3>4. \A s \in Tasks : Calls(s, "receipt")' => s = t
      BY <1>5, <1>7, <2>1
    <3>5. cursor < Messages
      BY <3>1 DEF Sent
    <3>6. QED
      BY <1>1, <1>4, <3>1, <3>2, <3>3, <3>4, <3>5 DEF Sent
  <2>2. CASE k # "receipt"
    <3>1. log' = log
      BY <1>1, <1>2, <2>2, EffectNames
    <3>2. \A s \in Tasks : Calls(s, "receipt")' => Calls(s, "receipt") /\ task'[s] = task[s]
      BY <1>4, <1>5, <2>2 DEF Calls, k
    <3>3. QED
      BY <1>1, <3>1, <3>2 DEF Sent
  <2>3. QED
    BY <2>1, <2>2
<1>10. QED
  BY <1>6, <1>8, <1>9
(* finish: whoever called is the owner still, and writes what came of it.  *)
LEMMA FinishesOne ==
    ASSUME Courier!DeliveryAssumption, ~ServerErrorMayAccept, FaceInv, Held, Pinning, Sent, NEW t \in Tasks,
           NEW outcome \in {"ok", "retry", "failed", "unknown"}, NEW dies \in BOOLEAN, Courier!Finish(t, outcome, dies)
    PROVE  Held' /\ Pinning' /\ Sent'
<1> DEFINE k == task[t].kind
           n == task[t].what
<1>1. /\ k \in Courier!Kinds /\ eff[k] \in Courier!Effects /\ Calls(t, k) /\ Courier!Owned(k, t) /\ Courier!MayReport(t, outcome)
      /\ n \in Nat /\ cursor \in Nat
  BY TaskTyped DEF Courier!Finish, FaceInv, DeliveryRow, Final, InCall, Calls, Held, Courier!Owned
<1>2. /\ eff'[k] = Courier!Written(k, t, outcome)
      /\ \A j \in Courier!Kinds \ {k} :
            \/ eff'[j] = eff[j]
            \/ j = "unpin" /\ stage = "exhausted" /\ eff[j].state # "sending" /\ eff'[j] = Courier!Fresh("pending")
      /\ UNCHANGED <<pinned, log>>
  BY FinishWrites
<1>3. eff'[k].state = Courier!Finished(k, t, outcome)
  BY <1>1, <1>2, WrittenEffect
<1>4. \A s \in Tasks : InCall(s)' => s # t /\ task'[s] = task[s]
  <2>1. /\ \A j : Courier!Doing("effects", j, 0) = [at |-> "effects", kind |-> j, what |-> 0]
        /\ Courier!Idle.at = "idle"
    BY TaskRests DEF Courier!Doing
  <2>2. task \in [Tasks -> Courier!TaskStates]
    BY DEF FaceInv, DeliveryRow
  <2>3. CASE dies
    BY <2>1, <2>3 DEF Courier!Finish, Courier!Die, InCall
  <2>4. CASE ~dies
    <3>1. PICK j : task' = [task EXCEPT ![t] = Courier!Doing("effects", j, 0)]
      BY <2>4 DEF Courier!Finish
    <3>2. QED
      BY <2>1, <2>2, <3>1 DEF InCall
  <2>5. QED
    BY <2>3, <2>4
<1>5. \A s \in Tasks : \A j : Calls(s, j)' => s # t /\ Calls(s, j) /\ task'[s] = task[s] /\ j \in Courier!Kinds \ {k}
  <2>1. ASSUME NEW s \in Tasks, NEW j, Calls(s, j)' PROVE s # t /\ Calls(s, j) /\ task'[s] = task[s] /\ j \in Courier!Kinds \ {k}
    <3>1. s # t /\ task'[s] = task[s] /\ Calls(s, j)
      BY <1>4, <2>1 DEF Calls, InCall
    <3>2. j \in Courier!Kinds
      BY <3>1 DEF FaceInv, Final, Calls
    <3>3. eff[j].owner = s /\ eff[k].owner = t
      BY <1>1, <3>1 DEF Held, Calls
    <3>4. QED
      BY <3>1, <3>2, <3>3
  <2>2. QED
    BY <2>1
<1> HIDE DEF k
<1>6. Courier!Fresh("pending").state = "pending"
  BY FreshEffect
<1>7. Held'
  <2>1. ASSUME NEW s \in Tasks, InCall(s)'
        PROVE  /\ eff'[task'[s].kind].state = "sending" /\ eff'[task'[s].kind].owner = s /\ eff'[task'[s].kind].lease > 0
    <3> DEFINE j == task[s].kind
    <3>1. task'[s] = task[s] /\ InCall(s) /\ Calls(s, j)'
      BY <1>4, <2>1 DEF Calls, InCall
    <3>2. j \in Courier!Kinds \ {k}
      BY <1>5, <3>1
    <3>3. eff[j].state = "sending" /\ eff[j].owner = s /\ eff[j].lease > 0
      BY <3>1 DEF Held
    <3>4. eff'[j] = eff[j]
      BY <1>2, <3>2, <3>3
    <3>5. QED
      BY <3>1, <3>3, <3>4
  <2>2. QED
    BY <2>1 DEF Held
<1>8. Pinning'
  <2>1. CASE k = "unpin"
    <3>1. \A s \in Tasks : ~Calls(s, "pin")' /\ ~Calls(s, "unpin")'
      BY <1>1, <1>5, <2>1 DEF Pinning
    <3>2. ASSUME eff'["unpin"].state = "sent" PROVE ~pinned'
      <4>1. outcome = "ok"
        BY <1>3, <2>1, <3>2 DEF Courier!Finished
      <4>2. task[t].at = "applied"
        BY <1>1, <4>1 DEF Courier!MayReport
      <4>3. QED
        BY <1>1, <1>2, <2>1, <4>2 DEF Pinning
    <3>3. QED
      BY <3>1, <3>2 DEF Pinning
  <2>2. CASE k # "unpin"
    <3>1. eff'["unpin"].state = "sent" => eff["unpin"].state = "sent"
      BY <1>2, <1>6, <2>2, EffectNames
    <3>2. QED
      BY <1>2, <1>5, <3>1 DEF Pinning
  <2>3. QED
    BY <2>1, <2>2
<1>9. Sent'
  <2>1. CASE k = "receipt"
    <3>1. /\ n = cursor /\ cursor < Messages /\ Messages \in Nat
          /\ Len(log) = IF task[t].at = "call" THEN cursor ELSE cursor + 1
      <4>1. eff["receipt"].state = "sending"
        BY <1>1, <2>1 DEF Held, Calls
      <4>2. QED
        BY <1>1, <2>1, <4>1 DEF Sent, Courier!DeliveryAssumption
    <3>2. cursor' = IF outcome = "ok" THEN n + 1 ELSE cursor
      BY <1>1, <2>1 DEF Courier!Finish, k
    <3>3. /\ outcome = "ok" => task[t].at = "applied"
          /\ outcome \in {"retry", "failed"} => task[t].at = "call"
      BY <1>1 DEF Courier!MayReport
    <3>4. /\ outcome = "ok" => eff'["receipt"].state = IF n + 1 < Messages THEN "pending" ELSE "sent"
          /\ outcome \in {"retry", "failed"} => eff'["receipt"].state \in {"retry", "failed"}
          /\ outcome = "unknown" => eff'["receipt"].state = "unknown"
      BY <1>3, <2>1 DEF Courier!Finished
    <3>5. \A s \in Tasks : ~Calls(s, "receipt")'
      BY <1>5, <2>1
    <3>6. log \in Seq(Nat) /\ (\A i \in DOMAIN log : log[i] = i) /\ log' = log /\ Len(log) \in {cursor, cursor + 1}
      BY <1>2 DEF Sent
    <3>7. Len(log) \in {cursor', cursor' + 1} /\ cursor' <= Messages
      BY <1>1, <3>1, <3>2, <3>3, <3>6
    <3>8. eff'["receipt"].state \in {"", "pending", "retry", "sent"} => Len(log) = cursor'
      BY <1>1, <3>1, <3>2, <3>3, <3>4
    <3>9. eff'["receipt"].state # "sent" => cursor' < Messages
      BY <1>1, <3>1, <3>2, <3>4
    <3>10. QED
      BY <3>5, <3>6, <3>7, <3>8, <3>9 DEF Sent
  <2>2. CASE k # "receipt"
    <3>1. cursor' = cursor /\ eff'["receipt"] = eff["receipt"]
      BY <1>2, <2>2, EffectNames DEF Courier!Finish, k
    <3>2. QED
      BY <1>2, <1>5, <3>1 DEF Sent
  <2>3. QED
    BY <2>1, <2>2
<1>10. QED
  BY <1>7, <1>8, <1>9

(* While calls end before their lease and an error is a refusal.           *)
EffectsInv == FaceInv /\ Held /\ Pinning /\ Sent

LEMMA EffectsStart == ASSUME Courier!DeliveryAssumption PROVE Courier!Init => EffectsInv
<1> SUFFICES ASSUME Courier!Init PROVE EffectsInv
  OBVIOUS
<1> USE DEF EffectsInv
<1>1. /\ \A t \in Tasks : task[t].at = "idle"
      /\ \A k \in Courier!Kinds : eff[k].state = ""
      /\ log = <<>> /\ cursor = 0 /\ pinned = FALSE
  BY FreshEffect, TaskRests DEF Courier!Init
<1>2. Held /\ Pinning
  BY <1>1, EffectNames DEF Held, Pinning, Calls, InCall
<1>3. Sent
  <2>1. log \in Seq(Nat) /\ Len(log) = 0 /\ \A i \in DOMAIN log : log[i] = i
    <3>1. log = <<>>
      BY <1>1
    <3>2. QED
      BY <3>1
  <2>2. 0 < Messages /\ 0 <= Messages
    BY DEF Courier!DeliveryAssumption
  <2>3. QED
    BY <1>1, <2>1, <2>2, EffectNames DEF Sent, Calls, InCall
<1>4. QED
  BY <1>2, <1>3, FaceInit

LEMMA EffectsNext ==
    ASSUME Courier!DeliveryAssumption, Prompt, ~ServerErrorMayAccept
    PROVE  EffectsInv /\ [Courier!Next]_(Courier!vars) => EffectsInv'
<1> SUFFICES ASSUME EffectsInv, [Courier!Next]_(Courier!vars) PROVE EffectsInv'
  OBVIOUS
<1> USE DEF EffectsInv
<1>1. FaceInv'
  BY FaceStep
<1>2. Quiet => Held' /\ Pinning' /\ Sent'
  BY QuietHeld, QuietSent
<1>3. CASE UNCHANGED Courier!vars
  <2>1. UNCHANGED <<task, eff, pinned, log, cursor>>
    BY <1>3 DEF Courier!vars, Courier!row, Courier!chat
  <2>2. Quiet
    BY <2>1 DEF Quiet, Held, InCall
  <2>3. QED
    BY <1>1, <1>2, <2>2
<1>4. ASSUME NEW t \in Tasks, Courier!Work(t) PROVE Held' /\ Pinning' /\ Sent'
  BY <1>2, <1>4, QuietTasks, ClaimsOne, CallsOne, FinishesOne DEF Courier!Work
<1>5. QED
  BY <1>1, <1>2, <1>3, <1>4, QuietRow, QuietWaits DEF Courier!Next

LEMMA EffectsTell ==
    ASSUME Courier!DeliveryAssumption PROVE EffectsInv => Courier!OneReceipt /\ Courier!UnpinnedInTheEnd
<1> SUFFICES ASSUME EffectsInv PROVE Courier!OneReceipt /\ Courier!UnpinnedInTheEnd
  OBVIOUS
<1> USE DEF EffectsInv
<1>1. Len(log) <= Messages
  <2>1. cursor \in Nat /\ Messages \in Nat
    BY DEF FaceInv, DeliveryRow, Courier!DeliveryAssumption
  <2>2. CASE eff["receipt"].state = "sent"
    BY <2>1, <2>2 DEF Sent
  <2>3. CASE eff["receipt"].state # "sent"
    <3>1. cursor < Messages /\ Len(log) \in {cursor, cursor + 1}
      BY <2>3 DEF Sent
    <3>2. QED
      BY <2>1, <3>1
  <2>4. QED
    BY <2>2, <2>3
<1>2. QED
  BY <1>1 DEF Courier!OneReceipt, Courier!UnpinnedInTheEnd, Sent, Pinning

(* With calls that end before their lease, nothing stays pinned after the   *)
(* unpin; if a 5xx answer besides means a refusal, every message of the     *)
(* receipt is posted once and in order, however often tasks overlap and the *)
(* process dies (packet_delivery.py: claim, finish).                       *)
THEOREM PacketReceiptOnce ==
    ASSUME Courier!DeliveryAssumption, Prompt, ~ServerErrorMayAccept
    PROVE  Courier!Spec => [](Courier!OneReceipt /\ Courier!UnpinnedInTheEnd)
BY EffectsStart, EffectsNext, EffectsTell, PTL DEF Courier!Spec

-----------------------------------------------------------------------------
(* The books and the effects of packets side by side, as MCPackets has      *)
(* them.  What remains to be known of a courier is how many shares are      *)
(* taken and that nothing is left to take of an empty packet.               *)
Taken ==
    /\ taken \in 0 .. Shares /\ crashes \in Nat
    /\ stage # "exhausted" => taken < Shares

LEMMA TakenStart == ASSUME Courier!DeliveryAssumption PROVE Courier!Init => Taken
<1> SUFFICES ASSUME Courier!Init PROVE Taken
  OBVIOUS
<1>1. stage = "draft" /\ taken = 0 /\ crashes = 0
  BY DEF Courier!Init
<1>2. Shares \in Nat \ {0}
  BY DEF Courier!DeliveryAssumption
<1>3. QED
  BY <1>1, <1>2 DEF Taken

LEMMA TakenNext ==
    ASSUME Courier!DeliveryAssumption PROVE Taken /\ [Courier!Next]_(Courier!vars) => Taken'
<1> SUFFICES ASSUME Taken, [Courier!Next]_(Courier!vars) PROVE Taken'
  OBVIOUS
<1> USE DEF Courier!DeliveryAssumption, Taken
<1>1. CASE Courier!Confirm \/ Courier!ClaimShare
  BY <1>1 DEF Courier!Confirm, Courier!ClaimShare
<1>2. CASE UNCHANGED <<stage, taken>> /\ crashes' \in {crashes, crashes + 1}
  BY <1>2
<1>3. CASE UNCHANGED Courier!vars
  BY <1>2, <1>3 DEF Courier!vars, Courier!row
<1>4. CASE Courier!Crash \/ Courier!Tick
  BY <1>2, <1>4 DEF Courier!Crash, Courier!Tick, Courier!Die, Courier!row
<1>5. ASSUME NEW t \in Tasks, Courier!Work(t) PROVE Taken'
  <2>1. CASE Courier!BeginTick(t) \/ Courier!EndEffects(t) \/ Courier!Claim(t) \/ Courier!ApplyCall(t)
    BY <1>2, <2>1 DEF Courier!BeginTick, Courier!EndEffects, Courier!Claim, Courier!ApplyCall,
         Courier!row, Courier!chat
  <2>2. CASE Courier!BeginRender(t) \/ Courier!ApplyEdit(t) \/ \E success \in BOOLEAN : Courier!EndRender(t, success)
    BY <1>2, <2>2 DEF Courier!BeginRender, Courier!ApplyEdit, Courier!EndRender, Courier!row
  <2>3. ASSUME NEW outcome, NEW dies, Courier!Finish(t, outcome, dies) PROVE Taken'
    BY <1>2, <2>3 DEF Courier!Finish, Courier!Die
  <2>4. QED
    BY <1>5, <2>1, <2>2, <2>3 DEF Courier!Work
<1>6. QED
  BY <1>1, <1>3, <1>4, <1>5 DEF Courier!Next

EffectsAtWork == part = "courier" => EffectsInv /\ Taken

LEMMA EffectsInUnion ==
    ASSUME Prompt, ~ServerErrorMayAccept PROVE UnionSpec => []EffectsAtWork
<1> USE Assumptions
<1>1. UnionInit => EffectsAtWork
  BY EffectsStart, TakenStart DEF UnionInit, EffectsAtWork
<1>2. EffectsAtWork /\ [UnionNext]_allVars => EffectsAtWork'
  <2> SUFFICES ASSUME EffectsAtWork, [UnionNext]_allVars, part' = "courier"
               PROVE  EffectsInv' /\ Taken'
    BY DEF EffectsAtWork
  <2>1. part = "courier" /\ [Courier!Next]_(Courier!vars)
    BY DEF UnionNext, InPacket, InCourier, allVars, others, Courier!vars, Courier!row, Courier!chat
  <2>2. EffectsInv /\ Taken
    BY <2>1 DEF EffectsAtWork
  <2>3. QED
    BY <2>1, <2>2, EffectsNext, TakenNext
<1>3. QED
  BY <1>1, <1>2, PTL DEF UnionSpec

(* Whatever tasks overlap, fail or die, as long as calls end before their   *)
(* lease and an error is a refusal: one receipt, in order and after the     *)
(* final card, a card that shows what was recorded, and no pin after the    *)
(* unpin (packet_delivery.py: claim, rendered, finish; bot_packets.py:      *)
(* _packet_render, _packet_effects).                                        *)
THEOREM PacketEffectsInOrder ==
    ASSUME Prompt, ~ServerErrorMayAccept PROVE UnionSpec => []EffectsInOrder
<1>1. ASSUME EffectsInv, Taken PROVE Courier!TypeOK
  <2>1. DeliveryRow /\ log \in Seq(Nat) /\ cursor <= Messages /\ Messages \in Nat
    BY <1>1, Assumptions DEF EffectsInv, FaceInv, Sent, Courier!DeliveryAssumption
  <2>2. cursor \in 0 .. Messages
    BY <2>1 DEF DeliveryRow
  <2>3. QED
    BY <1>1, <2>1, <2>2 DEF DeliveryRow, Taken, Courier!TypeOK
<1>2. EffectsInv => Courier!ReceiptAfterFinalCard /\ Courier!RecordedIsShown
  BY DEF EffectsInv, FaceInv, Final, Edits, Courier!RecordedIsShown
<1>3. EffectsAtWork => EffectsInOrder
  BY <1>1, <1>2, EffectsTell, Assumptions DEF EffectsAtWork, EffectsInOrder
<1>4. QED
  BY <1>3, EffectsInUnion, PTL
=============================================================================
