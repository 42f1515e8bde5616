-------------------------- MODULE RoundCardsProofs --------------------------
(***************************************************************************)
(* For any number of publishers, tokens and revisions, a round has at most *)
(* one card, provided that a 5xx answer to sendMessage is a refusal.       *)
(*                                                                         *)
(* AtMostOneCard alone is not inductive: one must also know who may still  *)
(* be posting.  Initial(w) says that w is making the initial send; CardInv *)
(* says that there is never more than one such publisher, that the chat is *)
(* empty until it succeeds, and that the row is "pending" only when nobody *)
(* is and nobody has.  At the end the same is shown of a lottery's posts.  *)
(***************************************************************************)
EXTENDS MCCards, SequenceTheorems, TLAPS

Initial(w) == job[w].phase # "idle" /\ job[w].card = 0

PendingMeansNothingSent ==
    sendState = "pending" =>
        card = 0 /\ posted = <<>> /\ \A w \in Workers : ~Initial(w)

OneInitialSend ==
    \A v, w \in Workers : Initial(v) /\ Initial(w) => v = w

InitialSendIsFirst ==
    \A w \in Workers :
        Initial(w) => IF job[w].phase = "calling" THEN posted = <<>>
                                                  ELSE Len(posted) = 1 /\ job[w].mid = 1

CardsAreTheCard ==
    /\ card # 0 => card = 1 /\ Len(posted) = 1
    /\ \A w \in Workers :
          job[w].phase # "idle" /\ job[w].card # 0 => job[w].card = 1 /\ job[w].mid = 1 /\ card = 1

CardInv ==
    /\ TypeOK
    /\ AtMostOneCard
    /\ PendingMeansNothingSent
    /\ OneInitialSend
    /\ InitialSendIsFirst
    /\ CardsAreTheCard

-----------------------------------------------------------------------------
(* The row starts out unpublished. *)
LEMMA CardInit == Init => CardInv
BY CardsAssumption DEF Init, CardInv, TypeOK, AtMostOneCard, PendingMeansNothingSent,
     OneInitialSend, InitialSendIsFirst, CardsAreTheCard, Initial, NoJob, Jobs, SendStates

(* A change of the row alone that keeps what CardInv says of it. *)
LEMMA CardStepBump == CardInv /\ Bump => CardInv'
BY CardsAssumption DEF Bump, CardInv, TypeOK, AtMostOneCard, PendingMeansNothingSent,
     OneInitialSend, InitialSendIsFirst, CardsAreTheCard, Initial, SendStates

(* A chat with at most one message has message number 1 or none. *)
LEMMA OnlyMessage ==
  ASSUME NEW s \in Seq(Nat), NEW m \in DOMAIN s, Len(s) <= 1
  PROVE  m = 1 /\ Len(s) = 1 /\ s # <<>>
<1>1. Len(s) \in Nat /\ m \in 1 .. Len(s)
  BY LenProperties
<1>2. \A n \in Nat : \A i \in 1 .. n : n <= 1 => i = 1 /\ n = 1 /\ n # 0
  OBVIOUS
<1>3. m = 1 /\ Len(s) = 1 /\ Len(s) # 0
  BY <1>1, <1>2, Zenon
<1>4. QED
  BY <1>3, EmptySeq, Zenon

(* A click can only adopt the one message there is. *)
LEMMA CardStepClick ==
  ASSUME NEW m \in DOMAIN posted, NEW changed \in BOOLEAN, CardInv, Click(m, changed)
  PROVE  CardInv'
<1> USE DEF CardInv
<1>1. m = 1 /\ Len(posted) = 1 /\ posted # <<>>
  <2>1. posted \in Seq(Nat) /\ Len(posted) <= 1
    BY Zenon DEF TypeOK, AtMostOneCard
  <2>2. QED
    BY <2>1, OnlyMessage, Zenon
<1>2. sendState' # "pending" \/ UNCHANGED <<sendState, card>>
  BY DEF Click
<1>3. card' = 1
  BY <1>1 DEF Click
<1>4. TypeOK'
  BY <1>1, <1>3 DEF Click, TypeOK, SendStates
<1>5. QED
  BY <1>1, <1>2, <1>3, <1>4 DEF Click, AtMostOneCard, PendingMeansNothingSent,
     OneInitialSend, InitialSendIsFirst, CardsAreTheCard, Initial

(* A publisher starts an initial send only when nobody has and nobody is. *)
LEMMA CardStepBegin ==
  ASSUME NEW w \in Workers, CardInv, BeginPublish(w)
  PROVE  CardInv'
<1> USE DEF CardInv
<1>1. TypeOK'
  BY CardsAssumption DEF BeginPublish, TypeOK, Jobs, SendStates
<1>2. /\ UNCHANGED <<card, posted>>
      /\ sendState' # "pending"
      /\ card = 0 => sendState = "pending"
      /\ job'[w].phase = "calling" /\ job'[w].card = card /\ job'[w].mid = card
      /\ \A v \in Workers : v # w => job'[v] = job[v]
  BY DEF BeginPublish, MayPublish, TypeOK
<1>3. QED
  BY <1>1, <1>2 DEF AtMostOneCard, PendingMeansNothingSent, OneInitialSend,
     InitialSendIsFirst, CardsAreTheCard, Initial

(* The initial send appends to an empty chat; an edit appends nothing. *)
LEMMA CardStepApply ==
  ASSUME NEW w \in Workers, CardInv, Apply(w)
  PROVE  CardInv'
<1> USE DEF CardInv
<1>1. /\ UNCHANGED <<revision, rendered, card, sendState, token, lease, wait, pace>>
      /\ job[w].phase = "calling"
      /\ job'[w].phase = "applied"
      /\ job'[w].card = job[w].card
      /\ job'[w].token = job[w].token /\ job'[w].rev = job[w].rev
      /\ \A v \in Workers : v # w => job'[v] = job[v]
      /\ job' \in [Workers -> Jobs]
  <2>1. job \in [Workers -> Jobs] /\ job[w] \in Jobs /\ posted \in Seq(Nat)
    BY DEF TypeOK
  <2>2. Len(posted) + 1 \in Nat
    BY <2>1
  <2>3. QED
    BY <2>1, <2>2 DEF Apply, row, Jobs
<1>2. CASE job[w].card = 0
  <2>1. posted = <<>> /\ Initial(w)
    BY <1>1, <1>2 DEF InitialSendIsFirst, Initial
  <2>2. posted' = Append(posted, job[w].rev) /\ job'[w].mid = Len(posted) + 1
    BY <1>2, <1>1 DEF Apply, TypeOK
  <2>3. posted' \in Seq(Nat) /\ Len(posted') = 1 /\ job'[w].mid = 1 /\ posted' # <<>>
    BY <2>1, <2>2 DEF TypeOK, Jobs
  <2>4. TypeOK'
    BY <1>1, <2>3 DEF TypeOK
  <2>5. sendState # "pending" /\ card = 0
    BY <2>1 DEF PendingMeansNothingSent, CardsAreTheCard
  <2>6. QED
    BY <1>1, <1>2, <2>1, <2>3, <2>4, <2>5 DEF AtMostOneCard, PendingMeansNothingSent,
       OneInitialSend, InitialSendIsFirst, CardsAreTheCard, Initial
<1>3. CASE job[w].card # 0
  <2>1. job[w].card = 1 /\ card = 1 /\ Len(posted) = 1 /\ job[w].mid = 1
    BY <1>1, <1>3 DEF CardsAreTheCard
  <2>2. posted' = [posted EXCEPT ![1] = job[w].rev] /\ job'[w].mid = 1
    BY <1>3, <2>1 DEF Apply, TypeOK
  <2>3. posted' \in Seq(Nat) /\ Len(posted') = 1
    <3>1. posted \in Seq(Nat) /\ 1 \in 1 .. Len(posted) /\ job[w].rev \in Nat
      BY <2>1 DEF TypeOK, Jobs
    <3>2. /\ [posted EXCEPT ![1] = job[w].rev] \in Seq(Nat)
          /\ Len([posted EXCEPT ![1] = job[w].rev]) = Len(posted)
      BY <3>1, ExceptSeq
    <3>3. QED
      BY <2>1, <2>2, <3>2, Zenon
  <2>4. TypeOK'
    BY <1>1, <2>3 DEF TypeOK
  <2>5. QED
    BY <1>1, <1>3, <2>1, <2>2, <2>3, <2>4 DEF AtMostOneCard, PendingMeansNothingSent,
       OneInitialSend, InitialSendIsFirst, CardsAreTheCard, Initial
<1>4. QED
  BY <1>2, <1>3

(* An answer frees the row for another initial send only after a refusal. *)
LEMMA CardStepReturn ==
  ASSUME ~ServerErrorMayAccept,
         NEW w \in Workers, NEW outcome \in Outcomes, CardInv, Return(w, outcome)
  PROVE  CardInv'
<1> USE DEF CardInv
<1>1. /\ UNCHANGED <<revision, posted, pace>>
      /\ job[w].phase # "idle"
      /\ job'[w].phase = "idle"
      /\ \A v \in Workers : v # w => job'[v] = job[v]
      /\ job' \in [Workers -> Jobs]
  BY CardsAssumption DEF Return, TypeOK, Jobs, NoJob
<1>2. CASE outcome = "ok"
  <2>1. job[w].phase = "applied" /\ Published(w)
    BY <1>2 DEF Return, MayReport
  <2>2. job[w].mid = 1 /\ Len(posted) = 1
    BY <2>1 DEF InitialSendIsFirst, CardsAreTheCard, Initial, TypeOK, Jobs
  <2>3. card' \in {card, 1} /\ (card # 0 => card' # 0)
    BY <2>1, <2>2 DEF Published, CardsAreTheCard
  <2>4. sendState' # "pending" \/ UNCHANGED <<card, sendState>>
    BY <2>1 DEF Published
  <2>5. TypeOK'
    <3>1. rendered' \in Nat \cup {-1}
      BY <2>1 DEF Published, TypeOK, Jobs, LargerOf
    <3>2. QED
      BY <1>1, <2>1, <2>2, <3>1, CardsAssumption DEF Published, TypeOK, SendStates
  <2>6. QED
    BY <1>1, <2>2, <2>3, <2>4, <2>5 DEF AtMostOneCard, PendingMeansNothingSent,
       OneInitialSend, InitialSendIsFirst, CardsAreTheCard, Initial
<1>3. CASE outcome # "ok"
  <2>1. PublishFailed(w, outcome) /\ UNCHANGED card
    BY <1>3 DEF Return, PublishFailed
  <2>2. TypeOK'
    BY <1>1, <2>1, CardsAssumption DEF PublishFailed, StateAfterFailure, TypeOK, SendStates
  <2>3. ASSUME sendState' = "pending", sendState # "pending"
        PROVE  card = 0 /\ posted = <<>> /\ Initial(w)
    <3>1. outcome = "retry" /\ card = 0
      BY <2>1, <2>3 DEF PublishFailed, StateAfterFailure
    <3>2. job[w].phase = "calling"
      BY <3>1, <1>1 DEF Return, MayReport
    <3>3. job[w].card = 0
      BY <3>1, <3>2 DEF CardsAreTheCard
    <3>4. QED
      BY <3>1, <3>2, <3>3 DEF InitialSendIsFirst, Initial
  <2>4. PendingMeansNothingSent'
    BY <1>1, <2>1, <2>3 DEF PendingMeansNothingSent, OneInitialSend, Initial
  <2>5. QED
    BY <1>1, <2>1, <2>2, <2>4 DEF AtMostOneCard,
       OneInitialSend, InitialSendIsFirst, CardsAreTheCard, Initial
<1>4. QED
  BY <1>2, <1>3

(* Sweeping, crashing and waiting never make the row "pending" again. *)
LEMMA CardStepSweep == CardInv /\ Sweep => CardInv'
BY CardsAssumption DEF Sweep, CardInv, TypeOK, AtMostOneCard, PendingMeansNothingSent,
     OneInitialSend, InitialSendIsFirst, CardsAreTheCard, Initial, SendStates

LEMMA CardStepCrash ==
  ASSUME NEW w \in Workers, CardInv, Crash(w)
  PROVE  CardInv'
<1> USE DEF CardInv
<1>1. /\ UNCHANGED <<revision, rendered, card, sendState, token, lease, wait, posted, pace>>
      /\ job'[w].phase = "idle"
      /\ \A v \in Workers : v # w => job'[v] = job[v]
      /\ job' \in [Workers -> Jobs]
  BY CardsAssumption DEF Crash, row, TypeOK, Jobs, NoJob
<1>2. QED
  BY <1>1 DEF TypeOK, AtMostOneCard, PendingMeansNothingSent,
     OneInitialSend, InitialSendIsFirst, CardsAreTheCard, Initial

LEMMA CardStepTick == CardInv /\ Tick => CardInv'
BY CardsAssumption DEF Tick, OneLess, CardInv, TypeOK, AtMostOneCard, PendingMeansNothingSent,
     OneInitialSend, InitialSendIsFirst, CardsAreTheCard, Initial, SendStates

(* Every step keeps CardInv. *)
LEMMA CardStep ==
  ASSUME ~ServerErrorMayAccept, CardInv, [Next]_vars
  PROVE  CardInv'
<1>1. CASE UNCHANGED vars
  BY <1>1 DEF vars, CardInv, TypeOK, AtMostOneCard, PendingMeansNothingSent,
     OneInitialSend, InitialSendIsFirst, CardsAreTheCard, Initial
<1>2. CASE Next
  BY <1>2, CardStepBump, CardStepClick, CardStepBegin, CardStepApply, CardStepReturn,
     CardStepSweep, CardStepCrash, CardStepTick DEF Next
<1>3. QED
  BY <1>1, <1>2

-----------------------------------------------------------------------------
(* The invariant holds in every reachable state. *)
THEOREM CardInvariant == ASSUME ~ServerErrorMayAccept PROVE Spec => []CardInv
<1>1. CardInv /\ [Next]_vars => CardInv'
  BY CardStep
<1>2. QED
  BY <1>1, CardInit, PTL DEF Spec

(* At most one card is ever posted for a round, whichever publishers       *)
(* crash, stall or lose their answers (play_rounds.py:87).                 *)
THEOREM OneCardPerRound == ASSUME ~ServerErrorMayAccept PROVE Spec => []AtMostOneCard
<1>1. CardInv => AtMostOneCard
  BY DEF CardInv
<1>2. QED
  BY <1>1, CardInvariant, PTL

(* Every step of the protocol is a step of the abstract card or none.      *)
LEMMA CardRefines ==
  ASSUME CardInv, CardInv', [Next]_vars
  PROVE  [Abstract!Next]_<<Len(posted), card>>
<1> USE DEF CardInv, Abstract!Next, Abstract!Post, Abstract!Bind
<1>1. ASSUME NEW m \in DOMAIN posted, NEW changed \in BOOLEAN, Click(m, changed)
      PROVE  Abstract!Bind \/ UNCHANGED <<Len(posted), card>>
  BY <1>1 DEF Click, CardsAreTheCard, AtMostOneCard, TypeOK
<1>2. ASSUME NEW w \in Workers, Apply(w)
      PROVE  Abstract!Post \/ UNCHANGED <<Len(posted), card>>
  <2>1. UNCHANGED card
    BY <1>2 DEF Apply, row
  <2>2. CASE job[w].card = 0
    <3>1. posted = <<>> /\ posted' = Append(posted, job[w].rev)
      BY <1>2, <2>2 DEF Apply, InitialSendIsFirst, Initial
    <3>2. QED
      BY <2>1, <3>1
  <2>3. CASE job[w].card # 0
    <3>1. job[w].card = 1 /\ posted \in Seq(Nat) /\ 1 \in 1 .. Len(posted) /\ job[w].rev \in Nat
      BY <1>2, <2>3 DEF Apply, CardsAreTheCard, TypeOK, Jobs
    <3>2. posted' = [posted EXCEPT ![1] = job[w].rev]
      BY <1>2, <2>3, <3>1 DEF Apply
    <3>3. QED
      BY <2>1, <3>1, <3>2, ExceptSeq
  <2>4. QED
    BY <2>2, <2>3
<1>3. ASSUME NEW w \in Workers, NEW outcome \in Outcomes, Return(w, outcome)
      PROVE  Abstract!Bind \/ UNCHANGED <<Len(posted), card>>
  <2>1. outcome # "ok" => UNCHANGED card
    BY <1>3 DEF Return, PublishFailed
  <2>2. outcome = "ok" => job[w].phase = "applied" /\ Published(w)
    BY <1>3 DEF Return, MayReport
  <2>3. outcome = "ok" => job[w].mid = 1 /\ Len(posted) = 1
    BY <2>2 DEF InitialSendIsFirst, CardsAreTheCard, Initial, TypeOK, Jobs
  <2>4. UNCHANGED posted
    BY <1>3 DEF Return
  <2>5. QED
    BY <2>1, <2>2, <2>3, <2>4 DEF Published
<1>4. QED
  BY <1>1, <1>2, <1>3 DEF Next, vars, row, Bump, BeginPublish, Crash, Sweep, Tick

(* RoundCards implements CardPost.                                         *)
THEOREM RoundCardsRefinesCardPost == ASSUME ~ServerErrorMayAccept PROVE Spec => ImplementsCardPost
<1>1. Init => Abstract!Init
  BY DEF Init, Abstract!Init
<1>2. QED
  BY <1>1, CardRefines, CardInvariant, PTL DEF Spec, ImplementsCardPost, Abstract!Spec

-----------------------------------------------------------------------------
(* What the row believes.  With calls that end before their lease a         *)
(* publisher at work holds the lease under the row's token, so there is one *)
(* at a time (AtWork), and what it was told to show is no older than what   *)
(* the row believes is shown (Believed).  This needs no assumption about    *)
(* 5xx answers; numbers of messages are those of the chat (Numbers).        *)
Busy(w) == job[w].phase # "idle"

Numbers ==
    /\ card # 0 => card \in 1 .. Len(posted)
    /\ \A w \in Workers : Busy(w) =>
          /\ job[w].card # 0 => job[w].card \in 1 .. Len(posted) /\ job[w].mid = job[w].card
          /\ job[w].phase = "applied" => job[w].mid \in 1 .. Len(posted)

AtWork ==
    /\ \A w \in Workers : Busy(w) =>
          /\ lease > 0 /\ job[w].token = token /\ rendered <= job[w].rev
          /\ job[w].card # 0 => job[w].card = card
          /\ job[w].phase = "applied" => posted[job[w].mid] = job[w].rev
    /\ \A v, w \in Workers : Busy(v) /\ Busy(w) => v = w

Believed ==
    /\ card # 0 => rendered <= posted[card]
    /\ card = 0 => rendered = -1

ShownInv == TypeOK /\ Numbers /\ (pace = "prompt" => AtWork /\ Believed)

LEMMA ShownInit == Init => ShownInv
BY CardsAssumption DEF Init, ShownInv, TypeOK, Numbers, AtWork, Believed, Busy, NoJob, Jobs, SendStates

LEMMA ShownBump == ShownInv /\ Bump => ShownInv'
BY CardsAssumption DEF Bump, ShownInv, TypeOK, Numbers, AtWork, Believed, Busy

LEMMA ShownClick ==
  ASSUME NEW m \in DOMAIN posted, NEW changed \in BOOLEAN, ShownInv, Click(m, changed)
  PROVE  ShownInv'
<1>1. m \in 1 .. Len(posted) /\ posted[m] \in Nat
  BY DEF ShownInv, TypeOK
<1>2. /\ card' = card \/ (card = 0 /\ card' = m)
      /\ UNCHANGED <<rendered, token, lease, job, posted, pace>>
  BY DEF Click
<1>3. TypeOK'
  BY <1>1 DEF Click, ShownInv, TypeOK, SendStates
<1>4. QED
  BY <1>1, <1>2, <1>3 DEF ShownInv, Numbers, AtWork, Believed, Busy

LEMMA ShownBegin ==
  ASSUME NEW w \in Workers, ShownInv, BeginPublish(w)
  PROVE  ShownInv'
<1>1. TypeOK'
  BY CardsAssumption DEF BeginPublish, ShownInv, TypeOK, Jobs, SendStates
<1>2. /\ UNCHANGED <<revision, rendered, card, posted, pace>>
      /\ lease = 0 /\ lease' > 0 /\ rendered < revision
      /\ job'[w].phase = "calling" /\ job'[w].card = card /\ job'[w].mid = card
      /\ job'[w].rev = revision /\ job'[w].token = token'
      /\ \A v \in Workers : v # w => job'[v] = job[v]
  BY CardsAssumption DEF BeginPublish, MayPublish, ShownInv, TypeOK
<1>3. revision \in Nat /\ rendered \in Nat \cup {-1}
  BY DEF ShownInv, TypeOK
<1>4. Numbers'
  BY <1>2 DEF ShownInv, Numbers, Busy
<1>5. pace' = "prompt" => AtWork' /\ Believed'
  <2>1. pace = "prompt" => \A v \in Workers : ~Busy(v)
    BY <1>2 DEF ShownInv, AtWork
  <2>2. QED
    BY <1>2, <1>3, <2>1 DEF ShownInv, AtWork, Believed, Busy
<1>6. QED
  BY <1>1, <1>4, <1>5 DEF ShownInv

LEMMA ShownApply ==
  ASSUME NEW w \in Workers, ShownInv, Apply(w)
  PROVE  ShownInv'
<1> USE DEF ShownInv
<1>1. posted \in Seq(Nat) /\ job \in [Workers -> Jobs] /\ job[w] \in Jobs /\ Len(posted) \in Nat
  BY DEF TypeOK
<1>2. /\ UNCHANGED <<revision, rendered, card, sendState, token, lease, wait, pace>>
      /\ job[w].phase = "calling" /\ Busy(w)
      /\ job'[w].phase = "applied" /\ job'[w].card = job[w].card
      /\ job'[w].token = job[w].token /\ job'[w].rev = job[w].rev
      /\ job'[w].mid = IF job[w].card = 0 THEN Len(posted) + 1 ELSE job[w].mid
      /\ \A v \in Workers : v # w => job'[v] = job[v]
      /\ job' \in [Workers -> Jobs]
  BY <1>1 DEF Apply, row, Jobs, Busy
<1>3. job[w].rev \in Nat
  BY <1>1 DEF Jobs
<1>4. /\ posted' \in Seq(Nat) /\ Len(posted') >= Len(posted) /\ Len(posted') \in Nat
      /\ job'[w].mid \in 1 .. Len(posted') /\ posted'[job'[w].mid] = job[w].rev
      /\ \A i \in 1 .. Len(posted) : i # job'[w].mid => posted'[i] = posted[i]
  <2>1. CASE job[w].card = 0
    <3>1. posted' = Append(posted, job[w].rev)
      BY <2>1 DEF Apply
    <3>2. QED
      BY <1>1, <1>2, <1>3, <2>1, <3>1
  <2>2. CASE job[w].card # 0
    <3>1. job[w].card \in 1 .. Len(posted) /\ job[w].mid = job[w].card
      BY <1>2, <2>2 DEF Numbers
    <3>2. posted' = [posted EXCEPT ![job[w].card] = job[w].rev]
      BY <2>2 DEF Apply
    <3>3. posted' \in Seq(Nat) /\ Len(posted') = Len(posted) /\ posted'[job[w].card] = job[w].rev
      BY <1>1, <1>3, <3>1, <3>2, ExceptSeq
    <3>4. \A i \in 1 .. Len(posted) : i # job[w].card => posted'[i] = posted[i]
      BY <1>1, <1>3, <3>1, <3>2, ExceptSeq
    <3>5. QED
      BY <1>1, <1>2, <2>2, <3>1, <3>3, <3>4
  <2>3. QED
    BY <2>1, <2>2
<1>5. TypeOK'
  BY <1>2, <1>4 DEF TypeOK
<1>6. Numbers'
  <2>1. card' # 0 => card' \in 1 .. Len(posted')
    BY <1>1, <1>2, <1>4 DEF Numbers, TypeOK
  <2>2. ASSUME NEW v \in Workers, Busy(v)'
        PROVE  /\ job'[v].card # 0 => job'[v].card \in 1 .. Len(posted') /\ job'[v].mid = job'[v].card
               /\ job'[v].phase = "applied" => job'[v].mid \in 1 .. Len(posted')
    <3>1. CASE v = w
      BY <1>1, <1>2, <1>4, <3>1 DEF Numbers
    <3>2. CASE v # w
      BY <1>1, <1>2, <1>4, <2>2, <3>2 DEF Numbers, Busy
    <3>3. QED
      BY <3>1, <3>2
  <2>3. QED
    BY <2>1, <2>2 DEF Numbers
<1>7. ASSUME pace' = "prompt" PROVE AtWork' /\ Believed'
  <2>1. AtWork /\ Believed
    BY <1>2, <1>7
  <2>2. AtWork'
    BY <1>2, <1>4, <2>1 DEF AtWork, Busy
  <2>3. card # 0 => rendered <= posted'[card]
    <3>1. CASE card = job'[w].mid
      BY <1>2, <1>4, <2>1, <3>1 DEF AtWork
    <3>2. CASE card # job'[w].mid
      BY <1>4, <2>1, <3>2 DEF Believed, Numbers
    <3>3. QED
      BY <3>1, <3>2
  <2>4. QED
    BY <1>2, <2>1, <2>2, <2>3 DEF Believed
<1>8. QED
  BY <1>5, <1>6, <1>7

LEMMA ShownReturn ==
  ASSUME NEW w \in Workers, NEW outcome \in Outcomes, ShownInv, Return(w, outcome)
  PROVE  ShownInv'
<1> USE DEF ShownInv
<1>1. /\ UNCHANGED <<revision, posted, pace>>
      /\ Busy(w) /\ job'[w].phase = "idle"
      /\ \A v \in Workers : v # w => job'[v] = job[v]
      /\ job' \in [Workers -> Jobs]
  BY CardsAssumption DEF Return, TypeOK, Jobs, NoJob, Busy
<1>2. CASE outcome = "ok"
  <2>1. job[w].phase = "applied" /\ Published(w) /\ job[w] \in Jobs
    BY <1>2 DEF Return, MayReport, TypeOK
  <2>2. job[w].mid \in 1 .. Len(posted) /\ Len(posted) \in Nat
    <3>1. Len(posted) \in Nat
      BY DEF TypeOK
    <3>2. job[w].phase = "applied" => job[w].mid \in 1 .. Len(posted)
      BY <1>1 DEF Numbers
    <3>3. QED
      BY <2>1, <3>1, <3>2
  <2>3. rendered' \in Nat \cup {-1}
    BY <2>1 DEF Published, TypeOK, Jobs, LargerOf
  <2>4. TypeOK'
    <3>1. card' \in Nat /\ sendState' \in SendStates /\ token' \in Tokens \cup {NoToken}
          /\ lease' \in Nat /\ wait' \in Nat
      BY <2>1, <2>2 DEF Published, TypeOK, SendStates
    <3>2. QED
      BY <1>1, <2>3, <3>1 DEF TypeOK
  <2>5. card' = card \/ (card = 0 /\ card' = job[w].mid)
    BY <2>1 DEF Published
  <2>6. Numbers'
    BY <1>1, <2>2, <2>5 DEF Numbers, Busy
  <2>7. ASSUME pace' = "prompt" PROVE AtWork' /\ Believed'
    <3>1. AtWork /\ Believed /\ \A v \in Workers : ~Busy(v)'
      BY <1>1, <2>7 DEF AtWork, Busy
    <3>2. posted[job[w].mid] = job[w].rev /\ rendered <= job[w].rev
      BY <1>1, <2>1, <3>1 DEF AtWork
    <3>3. Believed'
      <4>1. CASE UNCHANGED <<card, rendered>>
        BY <1>1, <3>1, <4>1 DEF Believed
      <4>2. CASE card' = job[w].mid /\ rendered' = LargerOf(rendered, job[w].rev)
        <5>1. rendered' = job[w].rev
          BY <2>1, <2>2, <3>2, <4>2 DEF LargerOf, TypeOK, Jobs
        <5>2. QED
          BY <1>1, <2>1, <2>2, <3>2, <4>2, <5>1 DEF Believed, Jobs
      <4>3. QED
        BY <2>1, <4>1, <4>2 DEF Published
    <3>4. QED
      BY <3>1, <3>3 DEF AtWork
  <2>8. QED
    BY <2>4, <2>6, <2>7
<1>3. CASE outcome # "ok"
  <2>1. PublishFailed(w, outcome) /\ UNCHANGED <<card, rendered>>
    BY <1>3 DEF Return, PublishFailed
  <2>2. TypeOK'
    BY <1>1, <2>1, CardsAssumption DEF PublishFailed, StateAfterFailure, TypeOK, SendStates
  <2>3. Numbers'
    BY <1>1, <2>1 DEF Numbers, Busy
  <2>4. pace' = "prompt" => AtWork' /\ Believed'
    BY <1>1, <2>1 DEF AtWork, Believed, Busy
  <2>5. QED
    BY <2>2, <2>3, <2>4
<1>4. QED
  BY <1>2, <1>3

LEMMA ShownElse ==
  ASSUME ShownInv, Sweep \/ Tick \/ (\E w \in Workers : Crash(w)) \/ UNCHANGED vars
  PROVE  ShownInv'
<1> USE DEF ShownInv
<1>1. CASE Sweep
  BY <1>1, CardsAssumption DEF Sweep, TypeOK, Numbers, AtWork, Believed, Busy, SendStates
<1>2. CASE Tick
  <2>1. /\ UNCHANGED <<revision, rendered, card, sendState, token, job, posted>>
        /\ lease' \in Nat /\ wait' \in Nat /\ pace' \in {"prompt", "late"}
    BY <1>2 DEF Tick, OneLess, TypeOK
  <2>2. TypeOK' /\ Numbers'
    BY <2>1 DEF TypeOK, Numbers, Busy
  <2>3. ASSUME pace' = "prompt" PROVE AtWork' /\ Believed'
    <3>1. pace = "prompt" /\ (\A w \in Workers : Busy(w) => lease # 1)
      BY <1>2, <2>3 DEF Tick, Busy
    <3>2. \A w \in Workers : Busy(w) => lease' > 0
      BY <1>2, <3>1 DEF Tick, OneLess, AtWork, TypeOK
    <3>3. QED
      BY <2>1, <3>1, <3>2 DEF AtWork, Believed, Busy
  <2>4. QED
    BY <2>2, <2>3
<1>3. ASSUME NEW w \in Workers, Crash(w) PROVE ShownInv'
  <2>1. /\ UNCHANGED <<revision, rendered, card, sendState, token, lease, wait, posted, pace>>
        /\ job'[w].phase = "idle"
        /\ \A v \in Workers : v # w => job'[v] = job[v]
        /\ job' \in [Workers -> Jobs]
    BY <1>3, CardsAssumption DEF Crash, row, TypeOK, Jobs, NoJob
  <2>2. QED
    BY <2>1 DEF TypeOK, Numbers, AtWork, Believed, Busy
<1>4. CASE UNCHANGED vars
  BY <1>4 DEF vars, TypeOK, Numbers, AtWork, Believed, Busy
<1>5. QED
  BY <1>1, <1>2, <1>3, <1>4

(* As long as calls end before their lease, the row never believes in a     *)
(* revision its card does not show (publish_token, play_rounds.py:98), for  *)
(* any number of publishers, tokens and revisions, any lease and delay, and *)
(* whatever a 5xx answer means.                                             *)
THEOREM RowShowsItsCard == Spec => []RenderedIsShown
<1>1. ShownInv /\ [Next]_vars => ShownInv'
  BY ShownBump, ShownClick, ShownBegin, ShownApply, ShownReturn, ShownElse DEF Next
<1>2. ShownInv => RenderedIsShown
  BY DEF ShownInv, Numbers, Believed, RenderedIsShown, TypeOK
<1>3. QED
  BY <1>1, <1>2, ShownInit, PTL DEF Spec

(*-------------------------------------------------------------------------*)
(* The posts of a lottery.                                                 *)
IsPost(x) == x = [state |-> x.state, known |-> x.known, attempts |-> x.attempts, later |-> x.later] /\ x.known \in BOOLEAN
IsOp(x) == x = [state |-> x.state, shown |-> x.shown, target |-> x.target, attempts |-> x.attempts, later |-> x.later]
IsClaim(x) == x = [job |-> x.job, edit |-> x.edit, attempts |-> x.attempts, target |-> x.target]
IsRow(x) == x = [job |-> x.job, known |-> x.known, attempts |-> x.attempts] /\ x.known \in BOOLEAN

PostConstants == Post!PostBounds /\ ~IsPost(Null) /\ ~IsOp(Null) /\ ~IsClaim(Null) /\ ~IsRow(Null)

PostTypes ==
    /\ jobs = [j \in Post!Jobs |-> jobs[j]] /\ ops = [o \in Post!Ops |-> ops[o]]
    /\ work = [s \in Senders |-> work[s]] /\ told = [j \in Post!Jobs |-> told[j]]
    /\ read = [s \in Senders |-> read[s]]
    /\ group = [pinned |-> group.pinned, line |-> group.line]
    /\ \A o \in Post!Ops : ops[o] # Null => IsOp(ops[o])

(* What a job says of its message; one that is to be posted and has no     *)
(* known message has none, unless a stale row has overtaken its recovery.  *)
NoneYet(j) == j \notin overtaken => told[j] = 0
JobTrue(j) ==
    /\ told[j] \in Nat /\ (jobs[j] = Null => told[j] = 0) /\ (j \notin overtaken => told[j] <= 1)
    /\ j \in Winners => j \notin overtaken
    /\ jobs[j] # Null =>
          /\ IsPost(jobs[j])
          /\ jobs[j].known \/ jobs[j].state = "sent" => told[j] > 0
          /\ jobs[j].state \in {"pending", "failed"} /\ ~jobs[j].known => NoneYet(j)
          /\ j \in Winners /\ jobs[j].known => jobs[j].state = "sent"

(* A row was written once, and the message it names is there.              *)
RowTrue(s) ==
    read[s] # Null =>
       /\ IsRow(read[s]) /\ read[s].job \in Post!Jobs /\ jobs[read[s].job] # Null
       /\ read[s].known => told[read[s].job] > 0 /\ read[s].job \notin Winners

(* A claim is of what is being sent, and a new message is the first.       *)
ClaimTrue(s) ==
    work[s] # Null =>
       /\ IsClaim(work[s]) /\ work[s].job \in Post!Jobs \cup Post!Ops
       /\ work[s].job \in Post!Jobs =>
             /\ jobs[work[s].job] # Null /\ jobs[work[s].job].state = "sending"
             /\ work[s].edit \in BOOLEAN
             /\ work[s].edit => told[work[s].job] > 0 /\ work[s].job \notin Winners
             /\ ~work[s].edit => NoneYet(work[s].job)
             /\ work[s].job = "result:2" => told["result"] > 0
       /\ work[s].job \in Post!Ops =>
             /\ ops[work[s].job] # Null /\ ops[work[s].job].state = "sending"
             /\ ops[work[s].job].target = work[s].target

OneClaimEach ==
    \A s, t \in Senders : work[s] # Null /\ work[t] # Null /\ work[s].job = work[t].job => s = t

(* Nothing is done to the launch message before it is there for good, and  *)
(* it is unpinned only once its pin has had its answer.                    *)
LaunchFirst ==
    /\ \A o \in Post!Ops : ops[o] # Null => jobs["launch"] # Null /\ jobs["launch"].state = "sent"
    /\ ops["unpin"] # Null => ops["pin"] # Null /\ ops["pin"].state \in {"sent", "unknown"}
    /\ ops["live"] = Null => group.line = Post!Fresh

(* The launch is written down with the lottery, the parts of a result      *)
(* together.                                                               *)
PartsTogether == jobs["launch"] # Null /\ (jobs["result:2"] # Null => jobs["result"] # Null)

PostInv ==
    /\ PartsTogether /\ PostTypes /\ (\A j \in Post!Jobs : JobTrue(j)) /\ (\A s \in Senders : ClaimTrue(s))
    /\ (\A s \in Senders : RowTrue(s)) /\ OneClaimEach /\ LaunchFirst /\ Post!PartsInOrder /\ Post!BelievedIsShown

LEMMA PostNames ==
  /\ "launch" \in Post!Jobs /\ "reminder" \in Post!Jobs /\ "cancel" \in Post!Jobs /\ "result" \in Post!Jobs /\ "result:2" \in Post!Jobs
  /\ Post!Ops = {"pin", "unpin", "live"}
BY DEF Post!Jobs, Post!Notices, Post!Parts, Post!Ops

LEMMA JobsAreNotOps == ASSUME PostConstants PROVE Post!Jobs \cap Post!Ops = {}
BY DEF PostConstants, Post!PostBounds, Post!Jobs, Post!Notices, Post!Parts, Post!Ops

(*-------------------------------------------------------------------------*)
(* Jobs that change while nobody is at work on them.                       *)
Fresher(x, y) == IsPost(y) /\ y.state = x.state /\ y.known = x.known
Turned(j, y) ==
    /\ IsPost(y) /\ jobs[j] # Null /\ jobs[j].state # "sent" /\ ~Post!Busy(j)
    /\ y.state # "sent" /\ (y.known => told[j] > 0 /\ j \notin Winners)
    /\ y.state \in {"pending", "failed"} /\ ~y.known => NoneYet(j)
Moved(j, y) ==
    \/ y = jobs[j]
    \/ jobs[j] = Null /\ IsPost(y) /\ y.state = "pending" /\ ~y.known
    \/ jobs[j] # Null /\ Fresher(jobs[j], y)
    \/ Turned(j, y)

LEMMA JobsMove ==
  ASSUME PostConstants, PostInv, UNCHANGED <<ops, work, told, group, overtaken>>, jobs' = [j \in Post!Jobs |-> jobs'[j]],
         read' = [t \in Senders |-> read'[t]], \A t \in Senders : read'[t] \in {read[t], Null},
         \A j \in Post!Jobs : Moved(j, jobs'[j]), PartsTogether'
  PROVE  PostInv'
<1>1. PostTypes' /\ OneClaimEach' /\ Post!PartsInOrder' /\ Post!BelievedIsShown'
  BY DEF PostInv, PostTypes, OneClaimEach, Post!PartsInOrder, Post!BelievedIsShown
<1>2. ASSUME NEW j \in Post!Jobs PROVE JobTrue(j)'
  <2>1. JobTrue(j) /\ Moved(j, jobs'[j]) /\ told' = told
    BY DEF PostInv
  <2>2. PICK y : y = jobs'[j]
    OBVIOUS
  <2>3. CASE y = jobs[j]
    BY <2>1, <2>2, <2>3 DEF JobTrue, NoneYet
  <2>4. CASE jobs[j] = Null /\ IsPost(y) /\ y.state = "pending" /\ ~y.known
    BY <2>1, <2>2, <2>4 DEF JobTrue, NoneYet
  <2>5. CASE jobs[j] # Null /\ Fresher(jobs[j], y)
    BY <2>1, <2>2, <2>5 DEF JobTrue, NoneYet, Fresher, PostConstants
  <2>6. CASE Turned(j, y)
    BY <2>1, <2>2, <2>6 DEF JobTrue, NoneYet, Turned, PostConstants
  <2>7. QED
    BY <2>1, <2>2, <2>3, <2>4, <2>5, <2>6 DEF Moved
<1>3. ASSUME NEW s \in Senders PROVE ClaimTrue(s)'
  <2>1. ClaimTrue(s) /\ work' = work /\ told' = told /\ ops' = ops
    BY DEF PostInv
  <2>2. ASSUME work[s] # Null, work[s].job \in Post!Jobs PROVE Fresher(jobs[work[s].job], jobs'[work[s].job])
    <3>1. PICK j \in Post!Jobs : j = work[s].job
      BY <2>2
    <3>2. Post!Busy(j) /\ jobs[j] # Null /\ JobTrue(j)
      BY <2>1, <2>2, <3>1 DEF Post!Busy, ClaimTrue, PostInv
    <3>3. Moved(j, jobs'[j])
      OBVIOUS
    <3>4. QED
      BY <3>1, <3>2, <3>3 DEF Moved, Turned, Fresher, JobTrue
  <2>3. QED
    BY PostConstants, <2>1, <2>2 DEF ClaimTrue, NoneYet, Fresher, PostConstants
<1>6. ASSUME NEW s \in Senders PROVE RowTrue(s)'
  <2>1. RowTrue(s) /\ told' = told
    BY DEF PostInv
  <2>2. \A j \in Post!Jobs : jobs[j] # Null => jobs'[j] # Null
    BY DEF Moved, Fresher, Turned, PostConstants
  <2>3. QED
    BY <2>1, <2>2 DEF RowTrue
<1>4. LaunchFirst'
  <2>1. LaunchFirst /\ ops' = ops /\ group' = group
    BY DEF PostInv
  <2>2. Moved("launch", jobs'["launch"])
    BY PostNames
  <2>3. jobs["launch"] # Null /\ jobs["launch"].state = "sent" => jobs'["launch"] # Null /\ jobs'["launch"].state = "sent"
    BY <2>2, PostConstants DEF Moved, Turned, Fresher, PostConstants
  <2>4. QED
    BY <2>1, <2>3 DEF LaunchFirst
<1>5. QED
  BY <1>1, <1>2, <1>3, <1>4, <1>6, Zenon DEF PostInv

LEMMA StageMoves ==
  ASSUME NEW J, NEW j \in Post!Jobs PROVE Moved(j, Post!Stage(J)[j]) /\ Post!Stage(J) = [k \in Post!Jobs |-> Post!Stage(J)[k]]
BY DEF Post!Stage, Post!Staged, Post!Job, Moved, IsPost

LEMMA PostStart == ASSUME PostConstants, Post!Init PROVE PostInv
<1>1. PICK first : first = Post!Job("pending")
  OBVIOUS
<1>2. IsPost(first) /\ first.state = "pending" /\ first.known = FALSE
  BY <1>1 DEF Post!Job, IsPost
<1>3. /\ jobs = [j \in Post!Jobs |-> IF j = "launch" THEN first ELSE Null] /\ ops = [o \in Post!Ops |-> Null]
      /\ work = [s \in Senders |-> Null] /\ read = [s \in Senders |-> Null] /\ overtaken = {}
      /\ told = [j \in Post!Jobs |-> 0] /\ group = [pinned |-> FALSE, line |-> Post!Fresh]
  BY <1>1 DEF Post!Init
<1>4. PostTypes
  BY <1>3 DEF PostTypes
<1>5. \A j \in Post!Jobs : JobTrue(j)
  BY <1>2, <1>3 DEF JobTrue, NoneYet
<1>6. (\A s \in Senders : ClaimTrue(s) /\ RowTrue(s)) /\ OneClaimEach
  BY <1>3 DEF ClaimTrue, RowTrue, OneClaimEach
<1>7. LaunchFirst /\ Post!PartsInOrder /\ Post!BelievedIsShown
  BY <1>3, PostNames DEF LaunchFirst, Post!PartsInOrder, Post!BelievedIsShown
<1>8. PartsTogether
  BY <1>2, <1>3, PostNames DEF PartsTogether, PostConstants
<1>9. QED
  BY <1>4, <1>5, <1>6, <1>7, <1>8 DEF PostInv

(* A batch is read.                                                        *)
LEMMA PostReads ==
  ASSUME PostConstants, PostInv, NEW s \in Senders, NEW j \in Post!Jobs, Post!ReadJob(s, j) PROVE PostInv'
<1>1. PICK x : x = jobs[j]
  OBVIOUS
<1>2. PICK held : held = [job |-> j, known |-> x.known, attempts |-> x.attempts]
  OBVIOUS
<1>3. /\ x # Null /\ x.state = "pending" /\ IsPost(x) /\ JobTrue(j) /\ read' = [read EXCEPT ![s] = held]
      /\ UNCHANGED <<jobs, ops, work, told, group, overtaken>>
  BY <1>1, <1>2 DEF Post!ReadJob, Post!Due, Post!Staged, PostInv, JobTrue
<1>4. IsRow(held) /\ held.job = j /\ (held.known => told[j] > 0 /\ j \notin Winners)
  BY <1>1, <1>2, <1>3 DEF IsRow, IsPost, JobTrue
<1>5. PostTypes /\ \A t \in Senders : RowTrue(t)
  BY DEF PostInv
<1>6. PostTypes'
  BY <1>3, <1>5 DEF PostTypes
<1>7. ASSUME NEW t \in Senders PROVE RowTrue(t)'
  <2>1. RowTrue(t) /\ read'[t] = IF t = s THEN held ELSE read[t]
    BY <1>3, <1>5 DEF PostTypes
  <2>2. CASE t = s
    BY <1>1, <1>3, <1>4, <2>1, <2>2 DEF RowTrue
  <2>3. CASE t # s
    BY <1>3, <2>1, <2>3 DEF RowTrue
  <2>4. QED
    BY <2>2, <2>3
<1>8. ASSUME NEW k \in Post!Jobs PROVE JobTrue(k)'
  BY <1>3 DEF JobTrue, NoneYet, PostInv
<1>9. ASSUME NEW t \in Senders PROVE ClaimTrue(t)'
  BY <1>3 DEF ClaimTrue, NoneYet, PostInv
<1>10. PartsTogether' /\ OneClaimEach' /\ LaunchFirst' /\ Post!PartsInOrder' /\ Post!BelievedIsShown'
  BY <1>3 DEF PostInv, PartsTogether, OneClaimEach, LaunchFirst, Post!PartsInOrder, Post!BelievedIsShown
<1>11. QED
  BY <1>6, <1>7, <1>8, <1>9, <1>10 DEF PostInv

(* A row that is passed over, forgotten or too late.                       *)
LEMMA PostPasses ==
  ASSUME PostConstants, PostInv, NEW s \in Senders, Post!PassOver(s) \/ Post!GiveUp(s) \/ Post!Forget(s) PROVE PostInv'
<1>1. PostTypes /\ RowTrue(s) /\ jobs = [k \in Post!Jobs |-> jobs[k]] /\ PartsTogether /\ read[s] # Null
  BY DEF PostInv, PostTypes, Post!PassOver, Post!GiveUp, Post!Forget, Post!ComesTo
<1>2. PICK j \in Post!Jobs : j = read[s].job
  BY <1>1 DEF RowTrue
<1>3. /\ read' = [t \in Senders |-> read'[t]] /\ \A t \in Senders : read'[t] \in {read[t], Null}
      /\ UNCHANGED <<ops, work, told, group, overtaken>>
  BY <1>1 DEF Post!PassOver, Post!GiveUp, Post!Forget, Post!ComesTo, PostTypes
<1>4. CASE jobs' = jobs
  <2>1. PartsTogether' /\ \A k \in Post!Jobs : Moved(k, jobs'[k])
    BY <1>1, <1>4 DEF PartsTogether, Moved
  <2>2. QED
    BY <1>1, <1>3, <1>4, <2>1, JobsMove
<1>5. CASE Post!GiveUp(s)
  <2>1. PICK x : x = jobs[j]
    OBVIOUS
  <2>2. PICK e \in {"failed", "skipped"} : e = IF j = "launch" THEN "failed" ELSE "skipped"
    OBVIOUS
  <2>3. PICK y : y = [x EXCEPT !.state = e, !.later = FALSE]
    OBVIOUS
  <2>4. x # Null /\ x.state = "pending" /\ JobTrue(j) /\ IsPost(x)
    BY <1>1, <1>2, <1>5, <2>1 DEF Post!GiveUp, Post!Open, RowTrue, PostInv, JobTrue
  <2>5. IsPost(y) /\ y.state = e /\ y.known = x.known
    BY <2>3, <2>4 DEF IsPost
  <2>6. jobs' = [jobs EXCEPT ![j] = y]
    BY <1>1, <1>2, <1>5, <2>1, <2>2, <2>3 DEF Post!GiveUp
  <2>7. ~Post!Busy(j)
    BY <2>1, <2>4 DEF Post!Busy, PostInv, ClaimTrue
  <2>8. Turned(j, y)
    BY <2>1, <2>4, <2>5, <2>7 DEF Turned, JobTrue
  <2>9. \A k \in Post!Jobs : Moved(k, jobs'[k])
    BY <1>1, <2>6, <2>8 DEF Moved
  <2>10. y # Null
    BY <2>5 DEF PostConstants
  <2>11. PartsTogether'
    <3>1. \A k \in Post!Jobs : jobs[k] # Null => jobs'[k] # Null
      BY <1>1, <2>6, <2>10
    <3>2. jobs'["result:2"] # Null => jobs["result:2"] # Null
      BY <1>1, <2>1, <2>4, <2>6, PostNames
    <3>3. QED
      BY <1>1, <3>1, <3>2, PostNames DEF PartsTogether
  <2>12. jobs' = [k \in Post!Jobs |-> jobs'[k]]
    BY <1>1, <2>6
  <2>13. QED
    BY <1>3, <2>9, <2>11, <2>12, JobsMove
<1>6. QED
  BY <1>4, <1>5 DEF Post!PassOver, Post!Forget

LEMMA PostClaims ==
  ASSUME PostConstants, PostInv, NEW s \in Senders, Post!ClaimJob(s) PROVE PostInv'
<1>1. PICK held : held = read[s]
  OBVIOUS
<1>2. held # Null /\ IsRow(held) /\ held.job \in Post!Jobs /\ jobs[held.job] # Null /\ held.known \in BOOLEAN
      /\ (held.known => told[held.job] > 0 /\ held.job \notin Winners) /\ read' = [read EXCEPT ![s] = Null]
  BY <1>1 DEF Post!ClaimJob, Post!ComesTo, PostInv, RowTrue, IsRow
<1>3. PICK j \in Post!Jobs : j = held.job
  BY <1>2
<1>4. PICK x : x = jobs[j]
  OBVIOUS
<1>5. /\ x # Null /\ x.state = "pending" /\ IsPost(x) /\ JobTrue(j) /\ jobs = [k \in Post!Jobs |-> jobs[k]]
      /\ UNCHANGED <<ops, told, group>> /\ work = [t \in Senders |-> work[t]] /\ read = [t \in Senders |-> read[t]]
  BY <1>1, <1>2, <1>3, <1>4 DEF Post!ClaimJob, Post!Open, PostInv, PostTypes, JobTrue
<1>6. ~Post!Busy(j)
  BY <1>4, <1>5 DEF Post!Busy, PostInv, ClaimTrue
<1>7. PICK y : y = [x EXCEPT !.state = "sending", !.attempts = x.attempts + 1]
  OBVIOUS
<1>8. IsPost(y) /\ y.state = "sending" /\ y.known = x.known /\ y # Null
  BY <1>5, <1>7 DEF IsPost, PostConstants
<1>9. jobs' = [jobs EXCEPT ![j] = y]
  BY <1>1, <1>3, <1>4, <1>5, <1>7 DEF Post!ClaimJob
<1>10. PICK w : w = [job |-> j, edit |-> held.known, attempts |-> held.attempts, target |-> Null]
  OBVIOUS
<1>11. work' = [work EXCEPT ![s] = w]
  BY <1>1, <1>3, <1>10 DEF Post!ClaimJob
<1>12. IsClaim(w) /\ w.job = j /\ w.edit = held.known /\ w # Null
  BY <1>10 DEF IsClaim, PostConstants
<1>13. overtaken' = IF x.known /\ ~held.known THEN overtaken \cup {j} ELSE overtaken
  BY <1>1, <1>3, <1>4 DEF Post!ClaimJob
<1>14. PostTypes' /\ Post!PartsInOrder' /\ Post!BelievedIsShown'
  BY <1>2, <1>5, <1>9, <1>11 DEF PostInv, PostTypes, Post!PartsInOrder, Post!BelievedIsShown
<1>15. ASSUME NEW k \in Post!Jobs PROVE JobTrue(k)'
  <2>1. JobTrue(k) /\ told' = told /\ (k \notin overtaken' => k \notin overtaken)
    BY <1>5, <1>13 DEF PostInv
  <2>2. CASE k = j
    <3>1. jobs'[k] = y
      BY <1>5, <1>9, <2>2
    <3>2. k \in Winners => k \notin overtaken'
      BY <1>4, <1>5, <1>13, <2>2 DEF JobTrue
    <3>3. QED
      BY <1>4, <1>5, <1>8, <2>1, <2>2, <3>1, <3>2 DEF JobTrue
  <2>3. CASE k # j
    <3>1. jobs'[k] = jobs[k] /\ (k \in overtaken' <=> k \in overtaken)
      BY <1>5, <1>9, <1>13, <2>3
    <3>2. QED
      BY <2>1, <3>1 DEF JobTrue, NoneYet
  <2>4. QED
    BY <2>2, <2>3
<1>16. ClaimTrue(s)'
  <2>1. j = "result:2" => told["result"] > 0
    <3>1. j = "result:2" => jobs["result"].state = "sent"
      BY <1>1, <1>3 DEF Post!ClaimJob, Post!Open, Post!Blocked
    <3>2. JobTrue("result") /\ (j = "result:2" => jobs["result"] # Null)
      BY <1>4, <1>5, PostNames DEF PostInv, PartsTogether
    <3>3. QED
      BY <3>1, <3>2 DEF JobTrue
  <2>2. ~held.known => NoneYet(j)'
    <3>1. ASSUME ~held.known, j \notin overtaken' PROVE told'[j] = 0
      <4>1. ~x.known /\ j \notin overtaken
        BY <1>5, <1>13, <3>1 DEF IsPost
      <4>2. QED
        BY <1>4, <1>5, <4>1 DEF JobTrue, NoneYet
    <3>2. QED
      BY <3>1 DEF NoneYet
  <2>3. j \notin Post!Ops
    BY JobsAreNotOps
  <2>4. work'[s] = w /\ jobs'[j] = y /\ told' = told
    BY <1>5, <1>9, <1>11
  <2>5. QED
    BY <1>2, <1>3, <1>8, <1>12, <2>1, <2>2, <2>3, <2>4 DEF ClaimTrue
<1>17. ASSUME NEW t \in Senders, t # s PROVE ClaimTrue(t)'
  <2>1. ClaimTrue(t) /\ work'[t] = work[t] /\ ops' = ops /\ told' = told /\ (work[t] # Null => work[t].job # j)
    BY <1>5, <1>6, <1>11, <1>17 DEF PostInv, Post!Busy
  <2>2. \A k \in Post!Jobs \ {j} : jobs'[k] = jobs[k] /\ (k \in overtaken' <=> k \in overtaken)
    BY <1>5, <1>9, <1>13
  <2>3. QED
    BY <2>1, <2>2 DEF ClaimTrue, NoneYet
<1>18. ASSUME NEW t \in Senders PROVE RowTrue(t)'
  <2>1. RowTrue(t) /\ told' = told /\ read'[t] = IF t = s THEN Null ELSE read[t]
    BY <1>2, <1>5 DEF PostInv
  <2>2. \A k \in Post!Jobs : jobs[k] # Null => jobs'[k] # Null
    BY <1>5, <1>8, <1>9
  <2>3. QED
    BY <2>1, <2>2 DEF RowTrue
<1>19. OneClaimEach'
  BY <1>5, <1>6, <1>11, <1>12 DEF PostInv, OneClaimEach, Post!Busy
<1>20. LaunchFirst'
  BY <1>4, <1>5, <1>9 DEF PostInv, LaunchFirst
<1>21. PartsTogether'
  BY <1>4, <1>5, <1>8, <1>9, PostNames DEF PartsTogether, PostInv
<1>22. QED
  BY <1>14, <1>15, <1>16, <1>17, <1>18, <1>19, <1>20, <1>21 DEF PostInv

(*-------------------------------------------------------------------------*)
(* The end of a sending, of which something may have arrived.              *)
Ends(s, j, y, n) ==
    /\ work[s] # Null /\ j = work[s].job /\ j \in Post!Jobs /\ work' = [work EXCEPT ![s] = Null]
    /\ jobs' = [jobs EXCEPT ![j] = y] /\ ops' = ops
    /\ told' = [told EXCEPT ![j] = n] /\ n \in {told[j], told[j] + 1} /\ UNCHANGED <<read, overtaken>>
    /\ group' = group \/ (j = "launch" /\ group' = [group EXCEPT !.line = Post!Fresh])
    /\ IsPost(y) /\ (y.known \/ y.state = "sent" => n > 0) /\ (j \in Winners /\ y.known => y.state = "sent")
    /\ j \notin overtaken => n <= 1 /\ (y.state \in {"pending", "failed"} /\ ~y.known => n = 0)

LEMMA JobEnds ==
  ASSUME PostConstants, PostInv, NEW s \in Senders, NEW j, NEW y, NEW n, Ends(s, j, y, n) PROVE PostInv'
<1>1. /\ work[s] # Null /\ j = work[s].job /\ j \in Post!Jobs /\ work' = [work EXCEPT ![s] = Null]
      /\ jobs' = [jobs EXCEPT ![j] = y] /\ ops' = ops
      /\ told' = [told EXCEPT ![j] = n] /\ n \in {told[j], told[j] + 1} /\ UNCHANGED <<read, overtaken>>
      /\ group' = group \/ (j = "launch" /\ group' = [group EXCEPT !.line = Post!Fresh])
      /\ IsPost(y) /\ (y.known \/ y.state = "sent" => n > 0) /\ (j \in Winners /\ y.known => y.state = "sent")
      /\ j \notin overtaken => n <= 1 /\ (y.state \in {"pending", "failed"} /\ ~y.known => n = 0)
  BY DEF Ends
<1>2. PostTypes /\ ClaimTrue(s) /\ JobTrue(j) /\ OneClaimEach /\ LaunchFirst /\ y # Null
  BY <1>1 DEF PostInv, PostConstants
<1>3. jobs[j] # Null /\ jobs[j].state = "sending"
  BY <1>1, <1>2 DEF ClaimTrue
<1>4. /\ jobs' = [k \in Post!Jobs |-> jobs'[k]] /\ jobs'[j] = y /\ \A k \in Post!Jobs \ {j} : jobs'[k] = jobs[k]
      /\ told' = [k \in Post!Jobs |-> told'[k]] /\ told'[j] = n /\ \A k \in Post!Jobs \ {j} : told'[k] = told[k]
      /\ work' = [t \in Senders |-> work'[t]] /\ work'[s] = Null /\ \A t \in Senders \ {s} : work'[t] = work[t]
  BY <1>1, <1>2 DEF PostTypes
<1>5. j = "launch" => \A o \in Post!Ops : ops[o] = Null
  BY <1>2, <1>3 DEF LaunchFirst
<1>6. group' = [pinned |-> group'.pinned, line |-> group'.line] /\ group'.pinned = group.pinned
      /\ group'.line = IF group' = group THEN group.line ELSE Post!Fresh
  BY <1>1, <1>2 DEF PostTypes
<1>7. PostTypes'
  BY <1>1, <1>2, <1>4, <1>6 DEF PostTypes
<1>8. ASSUME NEW k \in Post!Jobs PROVE JobTrue(k)'
  <2>1. CASE k = j
    BY <1>1, <1>2, <1>4, <2>1 DEF JobTrue, NoneYet
  <2>2. CASE k # j
    BY <1>1, <1>4, <2>2 DEF JobTrue, NoneYet, PostInv
  <2>3. QED
    BY <2>1, <2>2
<1>9. ASSUME NEW t \in Senders PROVE ClaimTrue(t)'
  <2>1. CASE t = s
    BY <1>4, <2>1 DEF ClaimTrue
  <2>2. CASE t # s
    <3>1. ClaimTrue(t) /\ work'[t] = work[t] /\ ops' = ops /\ (work[t] # Null => work[t].job # j)
      BY <1>1, <1>2, <1>4, <2>2 DEF PostInv, OneClaimEach
    <3>2. told["result"] > 0 => told'["result"] > 0
      <4>1. JobTrue("result")
        BY PostNames DEF PostInv
      <4>2. QED
        BY <1>1, <1>4, <4>1, PostNames DEF JobTrue
    <3>3. QED
      BY <1>1, <1>4, <3>1, <3>2 DEF ClaimTrue, NoneYet
  <2>3. QED
    BY <2>1, <2>2
<1>10. OneClaimEach'
  BY <1>2, <1>4 DEF OneClaimEach
<1>11. LaunchFirst'
  <2>1. CASE j = "launch"
    BY <1>1, <1>2, <1>5, <1>6, <2>1, PostNames DEF LaunchFirst
  <2>2. CASE j # "launch"
    BY <1>1, <1>2, <1>4, <2>2, PostNames DEF LaunchFirst
  <2>3. QED
    BY <2>1, <2>2
<1>12. Post!PartsInOrder'
  <2>2. told["result"] \in Nat /\ told'["result"] \in Nat
    BY <1>8, PostNames DEF PostInv, JobTrue
  <2>1. told["result"] > 0 => told'["result"] > 0
    BY <1>1, <1>4, <2>2, PostNames
  <2>3. CASE j = "result:2"
    BY <1>1, <1>2, <2>1, <2>2, <2>3 DEF ClaimTrue, Post!PartsInOrder
  <2>4. CASE j # "result:2"
    BY <1>4, <2>1, <2>2, <2>4, PostNames DEF PostInv, Post!PartsInOrder
  <2>5. QED
    BY <2>3, <2>4
<1>13. Post!BelievedIsShown'
  <2>1. CASE j = "launch"
    BY <1>1, <1>5, <1>6, <2>1, PostNames DEF Post!BelievedIsShown
  <2>2. CASE j # "launch"
    BY <1>1, <2>2 DEF PostInv, Post!BelievedIsShown
  <2>3. QED
    BY <2>1, <2>2
<1>14. PartsTogether'
  BY <1>2, <1>3, <1>4, PostNames DEF PartsTogether, PostInv
<1>15. ASSUME NEW t \in Senders PROVE RowTrue(t)'
  <2>1. RowTrue(t) /\ read' = read
    BY <1>1 DEF PostInv
  <2>2. \A k \in Post!Jobs : (jobs[k] # Null => jobs'[k] # Null) /\ (told[k] > 0 => told'[k] > 0)
    BY <1>1, <1>2, <1>4 DEF JobTrue
  <2>3. QED
    BY <2>1, <2>2 DEF RowTrue
<1>16. QED
  BY <1>14, <1>15, <1>7, <1>8, <1>9, <1>10, <1>11, <1>12, <1>13 DEF PostInv

LEMMA PostEnds ==
  ASSUME PostConstants, PostInv, NEW s \in Senders,
         \/ Post!Sent(s) \/ Post!Refused(s) \/ Post!Unreached(s) \/ Post!Unconfirmed(s)
         \/ Post!Crash(s) /\ work[s].job \in Post!Jobs
  PROVE  PostInv'
<1>1. PICK j : j = work[s].job
  OBVIOUS
<1>2. PICK x : x = jobs[j]
  OBVIOUS
<1>3. work[s] # Null /\ j \in Post!Jobs /\ work' = [work EXCEPT ![s] = Null]
  BY <1>1 DEF Post!Sent, Post!Refused, Post!Unreached, Post!Unconfirmed, Post!Crash, Post!Doing, Post!Done
<1>4. /\ JobTrue(j) /\ ClaimTrue(s) /\ LaunchFirst /\ PostTypes /\ jobs = [k \in Post!Jobs |-> jobs[k]]
      /\ told = [k \in Post!Jobs |-> told[k]]
  BY <1>3 DEF PostInv, PostTypes
<1>5. /\ x # Null /\ IsPost(x) /\ x.state = "sending" /\ told[j] \in Nat /\ work[s].edit \in BOOLEAN
      /\ work[s].edit => told[j] > 0 /\ j \notin Winners
      /\ j \notin overtaken => told[j] <= 1 /\ (~work[s].edit => told[j] = 0)
  BY <1>1, <1>2, <1>3, <1>4 DEF ClaimTrue, JobTrue, NoneYet, IsPost
<1>6. ASSUME Post!Lands(work[s])
      PROVE  \E n : /\ told' = [told EXCEPT ![j] = n] /\ n \in {told[j], told[j] + 1} /\ n > 0 /\ (j \notin overtaken => n <= 1)
                    /\ group' = group \/ (j = "launch" /\ group' = [group EXCEPT !.line = Post!Fresh])
  <2>1. group' = group \/ (j = "launch" /\ group' = [group EXCEPT !.line = Post!Fresh])
    BY <1>1, <1>6 DEF Post!Lands
  <2>2. CASE work[s].edit
    <3>1. told' = [told EXCEPT ![j] = told[j]]
      BY <1>4, <1>6, <2>2 DEF Post!Lands
    <3>2. QED
      BY <1>5, <2>1, <2>2, <3>1
  <2>3. CASE ~work[s].edit
    <3>1. told' = [told EXCEPT ![j] = told[j] + 1]
      BY <1>1, <1>6, <2>3 DEF Post!Lands
    <3>2. PICK n : n = told[j] + 1
      OBVIOUS
    <3>3. n \in {told[j], told[j] + 1} /\ n > 0 /\ (j \notin overtaken => n <= 1)
      BY <1>5, <2>3, <3>2
    <3>4. told' = [told EXCEPT ![j] = n]
      BY <3>1, <3>2
    <3>5. QED
      BY <2>1, <3>3, <3>4
  <2>4. QED
    BY <2>2, <2>3
<1>7. ASSUME UNCHANGED <<told, group>> PROVE told' = [told EXCEPT ![j] = told[j]] /\ group' = group
  BY <1>4, <1>7
<1>14. ASSUME NEW e, NEW k \in BOOLEAN, Post!Recorded(s, e, k)
       PROVE  \E y : jobs' = [jobs EXCEPT ![j] = y] /\ IsPost(y) /\ y.state = e /\ y.known = k
  <2>1. PICK y : y = [x EXCEPT !.state = e, !.known = k, !.later = (e = "pending")]
    OBVIOUS
  <2>2. IsPost(y) /\ y.state = e /\ y.known = k
    BY <1>5, <2>1 DEF IsPost
  <2>3. jobs' = [jobs EXCEPT ![j] = y]
    BY <1>1, <1>2, <1>3, <1>4, <1>14, <2>1 DEF Post!Recorded
  <2>4. QED
    BY <2>2, <2>3
<1>8. CASE Post!Sent(s)
  <2>1. PICK y : jobs' = [jobs EXCEPT ![j] = y] /\ IsPost(y) /\ y.state = "sent" /\ y.known = TRUE
    BY <1>8, <1>14 DEF Post!Sent
  <2>2. PICK n : /\ told' = [told EXCEPT ![j] = n] /\ n \in {told[j], told[j] + 1} /\ n > 0 /\ (j \notin overtaken => n <= 1)
                 /\ group' = group \/ (j = "launch" /\ group' = [group EXCEPT !.line = Post!Fresh])
    BY <1>6, <1>8 DEF Post!Sent
  <2>4. ops' = ops /\ UNCHANGED <<read, overtaken>>
    <3>1. j = "launch" => ops["live"] = Null
      BY <1>2, <1>4, <1>5, PostNames DEF LaunchFirst
    <3>2. QED
      BY <1>1, <1>8, <3>1 DEF Post!Sent
  <2>5. Ends(s, j, y, n)
    BY <1>1, <1>3, <2>1, <2>2, <2>4 DEF Ends
  <2>6. QED
    BY <2>5, JobEnds
<1>9. ASSUME NEW e \in {"failed", "pending"}, Post!Recorded(s, e, work[s].edit), UNCHANGED <<ops, read, told, group, overtaken>>
      PROVE  PostInv'
  <2>1. PICK y : jobs' = [jobs EXCEPT ![j] = y] /\ IsPost(y) /\ y.state = e /\ y.known = work[s].edit
    BY <1>5, <1>9, <1>14
  <2>2. Ends(s, j, y, told[j])
    BY <1>1, <1>3, <1>5, <1>7, <1>9, <2>1 DEF Ends
  <2>3. QED
    BY <2>2, JobEnds
<1>10. CASE Post!Refused(s) \/ Post!Unreached(s)
  BY <1>9, <1>10 DEF Post!Refused, Post!Unreached
<1>15. ASSUME NEW y, jobs' = [jobs EXCEPT ![j] = y], IsPost(y), y.state \in {"unknown", "sending"}, y.known => told[j] > 0 /\ j \notin Winners,
              Post!Lands(work[s]) \/ UNCHANGED <<told, group>>, UNCHANGED <<ops, read, overtaken>>
       PROVE  PostInv'
  <2>1. CASE Post!Lands(work[s])
    <3>1. PICK n : /\ told' = [told EXCEPT ![j] = n] /\ n \in {told[j], told[j] + 1} /\ n > 0 /\ (j \notin overtaken => n <= 1)
                   /\ group' = group \/ (j = "launch" /\ group' = [group EXCEPT !.line = Post!Fresh])
      BY <1>6, <2>1
    <3>2. Ends(s, j, y, n)
      BY <1>1, <1>3, <1>15, <3>1 DEF Ends
    <3>3. QED
      BY <3>2, JobEnds
  <2>2. CASE UNCHANGED <<told, group>>
    <3>1. Ends(s, j, y, told[j])
      BY <1>1, <1>3, <1>5, <1>7, <1>15, <2>2 DEF Ends
    <3>2. QED
      BY <3>1, JobEnds
  <2>3. QED
    BY <1>15, <2>1, <2>2
<1>11. CASE Post!Unconfirmed(s)
  <2>1. PICK y : jobs' = [jobs EXCEPT ![j] = y] /\ IsPost(y) /\ y.state = "unknown" /\ y.known = work[s].edit
    BY <1>5, <1>11, <1>14 DEF Post!Unconfirmed
  <2>2. QED
    BY <1>5, <1>11, <1>15, <2>1 DEF Post!Unconfirmed
<1>12. CASE Post!Crash(s) /\ work[s].job \in Post!Jobs
  <2>1. jobs' = [jobs EXCEPT ![j] = x] /\ UNCHANGED <<ops, read, overtaken>> /\ (Post!Lands(work[s]) \/ UNCHANGED <<told, group>>)
    BY <1>1, <1>2, <1>4, <1>12 DEF Post!Crash
  <2>2. x.known => told[j] > 0 /\ j \notin Winners
    BY <1>2, <1>4, <1>5 DEF JobTrue
  <2>3. QED
    BY <1>5, <1>15, <2>1, <2>2
<1>13. QED
  BY <1>8, <1>9, <1>10, <1>11, <1>12

LEMMA PostRest ==
  ASSUME PostConstants, PostInv, Prompt,
         \/ Post!Enter \/ Post!TimePasses \/ Post!StageReminder \/ Post!Settle \/ Post!Cancel
         \/ \E j \in Post!Jobs : Post!RetryDue(j) \/ Post!LeaseEnds(j) \/ Post!Recover(j)
         \/ UNCHANGED Post!vars
  PROVE  PostInv'
<1>1. jobs = [j \in Post!Jobs |-> jobs[j]] /\ read = [t \in Senders |-> read[t]]
  BY DEF PostInv, PostTypes
<1>2. CASE UNCHANGED <<jobs, ops, read, work, told, group, overtaken>>
  BY <1>1, <1>2, JobsMove DEF Moved, PostInv, PartsTogether
<1>3. ASSUME NEW J, UNCHANGED <<ops, read, work, told, group, overtaken>>, jobs' = Post!Stage(J), "result:2" \in J => "result" \in J PROVE PostInv'
  <2>1. PartsTogether'
    BY <1>3, PostNames DEF PartsTogether, PostInv, Post!Stage, Post!Staged, Post!Job, IsPost, PostConstants
  <2>2. jobs' = [j \in Post!Jobs |-> jobs'[j]]
    BY <1>3 DEF Post!Stage
  <2>3. ASSUME NEW j \in Post!Jobs PROVE Moved(j, jobs'[j])
    BY <1>3, StageMoves
  <2>4. QED
    BY <1>1, <1>3, <2>1, <2>2, <2>3, JobsMove
<1>4. ASSUME NEW j \in Post!Jobs, NEW y, UNCHANGED <<ops, read, work, told, group, overtaken>>,
             jobs' = [jobs EXCEPT ![j] = y], jobs[j] # Null,
             Moved(j, y) PROVE PostInv'
  <2>1. y # Null
    BY <1>4 DEF Moved, Fresher, Turned, PostConstants
  <2>2. PartsTogether'
    BY <1>1, <1>4, <2>1, PostNames DEF PartsTogether, PostInv
  <2>3. QED
    BY <1>1, <1>4, <2>2, JobsMove DEF Moved
<1>5. CASE Post!Enter \/ Post!TimePasses \/ UNCHANGED Post!vars
  BY <1>2, <1>5 DEF Post!Enter, Post!TimePasses, Post!vars
<1>6. CASE Post!StageReminder
  BY <1>3, <1>6 DEF Post!StageReminder
<1>7. CASE Post!Settle
  BY <1>3, <1>7 DEF Post!Settle, Post!Parts
<1>8. CASE Post!Cancel
  <2>1. jobs' = Post!Stage({"cancel"}) \/ jobs' = jobs
    BY <1>8 DEF Post!Cancel
  <2>2. QED
    BY <1>2, <1>3, <1>8, <2>1 DEF Post!Cancel
<1>9. ASSUME NEW j \in Post!Jobs, Post!RetryDue(j) PROVE PostInv'
  <2>1. PICK y : y = [jobs[j] EXCEPT !.later = FALSE]
    OBVIOUS
  <2>2. jobs[j] # Null /\ IsPost(jobs[j])
    BY <1>9 DEF Post!RetryDue, Post!Staged, PostInv, JobTrue
  <2>3. Fresher(jobs[j], y)
    BY <2>1, <2>2 DEF IsPost, Fresher
  <2>4. QED
    BY <1>4, <1>9, <2>1, <2>2, <2>3 DEF Post!RetryDue, Moved
<1>10. ASSUME NEW j \in Post!Jobs, Post!LeaseEnds(j) PROVE PostInv'
  <2>1. PICK y : y = [jobs[j] EXCEPT !.state = "unknown"]
    OBVIOUS
  <2>2. jobs[j] # Null /\ IsPost(jobs[j]) /\ JobTrue(j) /\ ~Post!Busy(j) /\ jobs[j].state = "sending"
    BY <1>10 DEF Post!LeaseEnds, Post!Staged, PostInv, JobTrue
  <2>3. IsPost(y) /\ y.state = "unknown" /\ y.known = jobs[j].known
    BY <2>1, <2>2 DEF IsPost
  <2>4. Turned(j, y)
    BY <2>2, <2>3 DEF JobTrue, Turned
  <2>5. QED
    BY <1>4, <1>10, <2>1, <2>2, <2>4 DEF Post!LeaseEnds, Moved
<1>11. ASSUME NEW j \in Post!Jobs, Post!Recover(j) PROVE PostInv'
  <2>1. PICK x : x = jobs[j]
    OBVIOUS
  <2>2. x # Null /\ IsPost(x) /\ JobTrue(j) /\ x.state \in {"failed", "unknown"} /\ told[j] \in Nat /\ j \notin Winners
    BY <1>11, <2>1 DEF Post!Recover, Post!Staged, PostInv, JobTrue, PostConstants, Post!PostBounds
  <2>3. PICK named \in BOOLEAN :
          /\ named => told[j] > 0
          /\ x.state = "unknown" => x.known \/ named \/ told[j] = 0
          /\ jobs' = [jobs EXCEPT ![j] = [Post!Job("pending") EXCEPT !.known = x.known \/ named]]
    BY <1>11, <2>1 DEF Post!Recover
  <2>14. PICK seen \in BOOLEAN : seen = (x.known \/ named)
    BY <2>2, <2>3 DEF IsPost
  <2>4. (seen => told[j] > 0) /\ (~seen => NoneYet(j))
    <3>1. x.known => told[j] > 0
      BY <2>1, <2>2 DEF JobTrue
    <3>2. x.state = "failed" /\ ~x.known => NoneYet(j)
      BY <2>1, <2>2 DEF JobTrue
    <3>3. told[j] = 0 => NoneYet(j)
      BY DEF NoneYet
    <3>4. QED
      BY <2>2, <2>3, <2>14, <3>1, <3>2, <3>3
  <2>5. PICK z : z = Post!Job("pending")
    OBVIOUS
  <2>6. PICK y : y = [z EXCEPT !.known = seen]
    OBVIOUS
  <2>7. IsPost(y) /\ y.state = "pending" /\ y.known = seen
    <3>1. z = [state |-> z.state, known |-> z.known, attempts |-> z.attempts, later |-> z.later] /\ z.state = "pending"
      BY <2>5 DEF Post!Job
    <3>2. QED
      BY <2>6, <3>1 DEF IsPost
  <2>8. Turned(j, y)
    <3>1. ~Post!Busy(j)
      BY <2>1, <2>2, JobsAreNotOps DEF Post!Busy, PostInv, ClaimTrue
    <3>2. QED
      BY <2>1, <2>2, <2>4, <2>7, <3>1 DEF Turned
  <2>9. jobs' = [jobs EXCEPT ![j] = y]
    BY <2>3, <2>5, <2>6, <2>14, Zenon
  <2>10. QED
    BY <1>4, <1>11, <2>1, <2>2, <2>8, <2>9 DEF Post!Recover, Moved
<1>12. QED
  BY <1>5, <1>6, <1>7, <1>8, <1>9, <1>10, <1>11

(*-------------------------------------------------------------------------*)
(* The operations on the launch message.                                   *)
Begins(s, o, y, w) ==
    /\ work[s] = Null /\ o \in Post!Ops /\ jobs["launch"] # Null /\ jobs["launch"].state = "sent"
    /\ ops' = [ops EXCEPT ![o] = y] /\ work' = [work EXCEPT ![s] = w] /\ UNCHANGED <<jobs, read, told, group, overtaken>>
    /\ IsOp(y) /\ y.state = "sending" /\ IsClaim(w) /\ w.job = o /\ w.target = y.target
    /\ ops[o] # Null => ops[o].state # "sending" /\ (o = "pin" => ops[o].state = "pending")
    /\ o = "unpin" => ops["pin"] # Null /\ ops["pin"].state \in {"sent", "unknown"}

LEMMA OpBegins ==
  ASSUME PostConstants, PostInv, NEW s \in Senders, NEW o, NEW y, NEW w, Begins(s, o, y, w) PROVE PostInv'
<1>1. /\ work[s] = Null /\ o \in Post!Ops /\ jobs["launch"] # Null /\ jobs["launch"].state = "sent"
      /\ ops' = [ops EXCEPT ![o] = y] /\ work' = [work EXCEPT ![s] = w] /\ UNCHANGED <<jobs, read, told, group, overtaken>>
      /\ IsOp(y) /\ y.state = "sending" /\ IsClaim(w) /\ w.job = o /\ w.target = y.target
      /\ ops[o] # Null => ops[o].state # "sending" /\ (o = "pin" => ops[o].state = "pending")
      /\ o = "unpin" => ops["pin"] # Null /\ ops["pin"].state \in {"sent", "unknown"}
  BY DEF Begins
<1>2. PostTypes /\ OneClaimEach /\ LaunchFirst /\ y # Null /\ w # Null
  BY <1>1 DEF PostInv, PostConstants
<1>3. /\ ops' = [p \in Post!Ops |-> ops'[p]] /\ ops'[o] = y /\ \A p \in Post!Ops \ {o} : ops'[p] = ops[p]
      /\ work' = [t \in Senders |-> work'[t]] /\ work'[s] = w /\ \A t \in Senders \ {s} : work'[t] = work[t]
  BY <1>1, <1>2 DEF PostTypes
<1>4. \A t \in Senders : work[t] # Null => work[t].job # o
  BY <1>1 DEF PostInv, ClaimTrue
<1>5. PostTypes' /\ PartsTogether' /\ Post!PartsInOrder'
  BY <1>1, <1>2, <1>3 DEF PostInv, PostTypes, PartsTogether, Post!PartsInOrder
<1>6. ASSUME NEW j \in Post!Jobs PROVE JobTrue(j)'
  BY <1>1 DEF PostInv, JobTrue, NoneYet
<1>7. ClaimTrue(s)'
  <2>1. o \notin Post!Jobs
    BY <1>1, JobsAreNotOps
  <2>2. QED
    BY <1>1, <1>2, <1>3, <2>1 DEF ClaimTrue
<1>8. ASSUME NEW t \in Senders, t # s PROVE ClaimTrue(t)'
  <2>1. ClaimTrue(t) /\ work'[t] = work[t] /\ UNCHANGED <<jobs, told, overtaken>>
    BY <1>1, <1>3, <1>8 DEF PostInv
  <2>2. QED
    BY <1>3, <1>4, <2>1 DEF ClaimTrue, NoneYet
<1>9. OneClaimEach'
  BY <1>1, <1>2, <1>3, <1>4 DEF OneClaimEach
<1>10. LaunchFirst'
  <2>1. o = "pin" => ops["unpin"] = Null
    BY <1>1, <1>2, PostNames DEF LaunchFirst
  <2>2. QED
    BY <1>1, <1>2, <1>3, <2>1, PostNames DEF LaunchFirst
<1>11. Post!BelievedIsShown'
  <2>1. Post!BelievedIsShown /\ group' = group
    BY <1>1 DEF PostInv
  <2>2. CASE o = "pin"
    BY <1>1, <1>3, <2>1, <2>2, PostNames DEF Post!BelievedIsShown
  <2>3. CASE o = "unpin"
    BY <1>1, <1>2, <1>3, <2>1, <2>3, PostNames DEF Post!BelievedIsShown
  <2>4. CASE o = "live"
    BY <1>1, <1>3, <2>1, <2>4, PostNames DEF Post!BelievedIsShown
  <2>5. QED
    BY <1>1, <2>2, <2>3, <2>4, PostNames
<1>12. ASSUME NEW t \in Senders PROVE RowTrue(t)'
  BY <1>1 DEF PostInv, RowTrue
<1>13. QED
  BY <1>5, <1>6, <1>7, <1>8, <1>9, <1>10, <1>11, <1>12 DEF PostInv

(* What the group shows after an operation that may have been carried out. *)
Shows(o, y) ==
    /\ group' = [pinned |-> group'.pinned, line |-> group'.line]
    /\ IF o = "live" THEN group'.pinned = group.pinned /\ (y.state = "sent" => group'.line = y.shown)
       ELSE /\ group'.line = group.line /\ group'.pinned \in {group.pinned, o = "pin"}
            /\ y.state = "sent" => group'.pinned = (o = "pin")

Finishes(s, o, y) ==
    /\ work[s] # Null /\ o = work[s].job /\ o \in Post!Ops /\ work' = [work EXCEPT ![s] = Null]
    /\ ops' = [ops EXCEPT ![o] = y] /\ UNCHANGED <<jobs, read, told, overtaken>>
    /\ IsOp(y) /\ y.state # "idle" /\ Shows(o, y)

LEMMA OpFinishes ==
  ASSUME PostConstants, PostInv, NEW s \in Senders, NEW o, NEW y, Finishes(s, o, y) PROVE PostInv'
<1>1. /\ work[s] # Null /\ o = work[s].job /\ o \in Post!Ops /\ work' = [work EXCEPT ![s] = Null]
      /\ ops' = [ops EXCEPT ![o] = y] /\ UNCHANGED <<jobs, read, told, overtaken>>
      /\ IsOp(y) /\ y.state # "idle" /\ Shows(o, y)
  BY DEF Finishes
<1>2. PostTypes /\ OneClaimEach /\ LaunchFirst /\ y # Null /\ ClaimTrue(s)
  BY <1>1 DEF PostInv, PostConstants
<1>3. ops[o] # Null /\ ops[o].state = "sending"
  BY <1>1, <1>2 DEF ClaimTrue
<1>4. /\ ops' = [p \in Post!Ops |-> ops'[p]] /\ ops'[o] = y /\ \A p \in Post!Ops \ {o} : ops'[p] = ops[p]
      /\ work' = [t \in Senders |-> work'[t]] /\ work'[s] = Null /\ \A t \in Senders \ {s} : work'[t] = work[t]
  BY <1>1, <1>2 DEF PostTypes
<1>5. PostTypes' /\ PartsTogether' /\ Post!PartsInOrder'
  BY <1>1, <1>2, <1>4 DEF PostInv, PostTypes, PartsTogether, Post!PartsInOrder, Shows
<1>6. ASSUME NEW j \in Post!Jobs PROVE JobTrue(j)'
  BY <1>1 DEF PostInv, JobTrue, NoneYet
<1>7. ASSUME NEW t \in Senders PROVE ClaimTrue(t)'
  <2>1. CASE t = s
    BY <1>4, <2>1 DEF ClaimTrue
  <2>2. CASE t # s
    <3>1. ClaimTrue(t) /\ work'[t] = work[t] /\ UNCHANGED <<jobs, told, overtaken>> /\ (work[t] # Null => work[t].job # o)
      BY <1>1, <1>2, <1>4, <2>2 DEF PostInv, OneClaimEach
    <3>2. QED
      BY <1>4, <3>1 DEF ClaimTrue, NoneYet
  <2>3. QED
    BY <2>1, <2>2
<1>8. OneClaimEach'
  BY <1>2, <1>4 DEF OneClaimEach
<1>9. o = "pin" => ops["unpin"] = Null
  BY <1>2, <1>3, PostNames DEF LaunchFirst
<1>10. LaunchFirst'
  <2>1. CASE o = "live"
    BY <1>1, <1>2, <1>3, <1>4, <2>1, PostNames DEF LaunchFirst
  <2>2. CASE o # "live"
    BY <1>1, <1>2, <1>3, <1>4, <1>9, <2>2, PostNames DEF LaunchFirst, Shows
  <2>3. QED
    BY <2>1, <2>2
<1>11. Post!BelievedIsShown'
  <2>1. Post!BelievedIsShown
    BY DEF PostInv
  <2>2. CASE o = "pin"
    BY <1>1, <1>4, <1>9, <2>1, <2>2, PostNames DEF Post!BelievedIsShown, Shows
  <2>3. CASE o = "unpin"
    BY <1>1, <1>2, <1>4, <2>1, <2>3, PostNames DEF Post!BelievedIsShown, Shows
  <2>4. CASE o = "live"
    BY <1>1, <1>4, <2>1, <2>4, PostNames DEF Post!BelievedIsShown, Shows
  <2>5. QED
    BY <1>1, <2>2, <2>3, <2>4, PostNames
<1>12. ASSUME NEW t \in Senders PROVE RowTrue(t)'
  BY <1>1 DEF PostInv, RowTrue
<1>13. QED
  BY <1>5, <1>6, <1>7, <1>8, <1>10, <1>11, <1>12 DEF PostInv

Turns(o, y) ==
    /\ o \in Post!Ops /\ ops[o] # Null /\ ops' = [ops EXCEPT ![o] = y] /\ UNCHANGED <<jobs, read, work, told, group, overtaken>> /\ IsOp(y)
    /\ \/ y.state = ops[o].state /\ y.shown = ops[o].shown /\ y.target = ops[o].target
       \/ y.state \in {"unknown", "skipped"} /\ ops[o].state \notin {"sent", "unknown"} /\ ~Post!Busy(o)

LEMMA OpTurns ==
  ASSUME PostConstants, PostInv, NEW o, NEW y, Turns(o, y) PROVE PostInv'
<1>1. /\ o \in Post!Ops /\ ops[o] # Null /\ ops' = [ops EXCEPT ![o] = y] /\ UNCHANGED <<jobs, read, work, told, group, overtaken>> /\ IsOp(y)
      /\ \/ y.state = ops[o].state /\ y.shown = ops[o].shown /\ y.target = ops[o].target
         \/ y.state \in {"unknown", "skipped"} /\ ops[o].state \notin {"sent", "unknown"} /\ ~Post!Busy(o)
  BY DEF Turns
<1>2. PostTypes /\ OneClaimEach /\ LaunchFirst /\ y # Null
  BY <1>1 DEF PostInv, PostConstants
<1>3. ops' = [p \in Post!Ops |-> ops'[p]] /\ ops'[o] = y /\ \A p \in Post!Ops \ {o} : ops'[p] = ops[p]
  BY <1>1, <1>2 DEF PostTypes
<1>4. PostTypes' /\ PartsTogether' /\ Post!PartsInOrder' /\ OneClaimEach'
  BY <1>1, <1>2, <1>3 DEF PostInv, PostTypes, PartsTogether, Post!PartsInOrder, OneClaimEach
<1>5. ASSUME NEW j \in Post!Jobs PROVE JobTrue(j)'
  BY <1>1 DEF PostInv, JobTrue, NoneYet
<1>6. ASSUME NEW t \in Senders PROVE ClaimTrue(t)'
  <2>1. ClaimTrue(t) /\ UNCHANGED <<jobs, told, work, overtaken>>
    BY <1>1 DEF PostInv
  <2>2. CASE work[t] # Null /\ work[t].job = o
    BY <1>1, <1>2, <1>3, <2>1, <2>2, JobsAreNotOps DEF ClaimTrue, NoneYet, Post!Busy
  <2>3. CASE ~(work[t] # Null /\ work[t].job = o)
    BY <1>3, <2>1, <2>3 DEF ClaimTrue, NoneYet
  <2>4. QED
    BY <2>2, <2>3
<1>7. LaunchFirst'
  BY <1>1, <1>2, <1>3, PostNames DEF LaunchFirst
<1>8. Post!BelievedIsShown'
  <2>1. Post!BelievedIsShown /\ group' = group
    BY <1>1 DEF PostInv
  <2>2. CASE o = "pin"
    BY <1>1, <1>3, <2>1, <2>2, PostNames DEF Post!BelievedIsShown
  <2>3. CASE o = "unpin"
    BY <1>1, <1>2, <1>3, <2>1, <2>3, PostNames DEF Post!BelievedIsShown
  <2>4. CASE o = "live"
    BY <1>1, <1>3, <2>1, <2>4, PostNames DEF Post!BelievedIsShown
  <2>5. QED
    BY <1>1, <2>2, <2>3, <2>4, PostNames
<1>9. ASSUME NEW t \in Senders PROVE RowTrue(t)'
  BY <1>1 DEF PostInv, RowTrue
<1>10. QED
  BY <1>4, <1>5, <1>6, <1>7, <1>8, <1>9 DEF PostInv

LEMMA LineIsOp ==
  ASSUME PostInv, NEW o \in Post!Ops
  PROVE  IsOp(Post!Line0(o)) /\ (ops[o] # Null => Post!Line0(o) = ops[o])
BY DEF PostInv, PostTypes, Post!Line0, Post!Op, IsOp

LEMMA PostOpClaims ==
  ASSUME PostConstants, PostInv, NEW s \in Senders, Post!ClaimPin(s) \/ Post!ClaimUnpin(s) \/ Post!ClaimLive(s) PROVE PostInv'
<1>1. ASSUME NEW o \in Post!Ops, NEW op, op = Post!Line0(o), NEW target, NEW n, Post!Claims(s, o, op, target, n), work[s] = Null,
             jobs["launch"].state = "sent", jobs["launch"].known, UNCHANGED <<jobs, read, told, group, overtaken>>,
             op.state # "sending", o = "pin" => op.state = "pending",
             o = "unpin" => ops["pin"] # Null /\ ops["pin"].state \in {"sent", "unknown"}
      PROVE  PostInv'
  <2>1. IsOp(op) /\ (ops[o] # Null => op = ops[o])
    BY <1>1, LineIsOp
  <2>2. PICK y : y = [op EXCEPT !.state = "sending", !.target = target, !.attempts = n]
    OBVIOUS
  <2>3. IsOp(y) /\ y.state = "sending" /\ y.target = target
    BY <2>1, <2>2 DEF IsOp
  <2>4. PICK w : w = [job |-> o, edit |-> FALSE, attempts |-> n, target |-> target]
    OBVIOUS
  <2>5. IsClaim(w) /\ w.job = o /\ w.target = target
    BY <2>4 DEF IsClaim
  <2>6. ops' = [ops EXCEPT ![o] = y] /\ work' = [work EXCEPT ![s] = w]
    BY <1>1, <2>2, <2>4 DEF Post!Claims
  <2>7. jobs["launch"] # Null
    BY DEF PostInv, PartsTogether
  <2>8. Begins(s, o, y, w)
    BY <1>1, <2>1, <2>3, <2>5, <2>6, <2>7 DEF Begins
  <2>9. QED
    BY <2>8, OpBegins
<1>2. \A o \in Post!Ops : ops[o] # Null => Post!Line0(o) = ops[o]
  BY LineIsOp
<1>3. \A o \in {"pin", "unpin"} : ops[o] = Null => Post!Line0(o).state = "pending"
  BY DEF Post!Line0, Post!Op
<1>4. CASE Post!ClaimPin(s)
  <2>1. PICK op : op = Post!Line0("pin")
    OBVIOUS
  <2>2. /\ work[s] = Null /\ jobs["launch"].state = "sent" /\ jobs["launch"].known /\ op.state = "pending"
        /\ UNCHANGED <<jobs, read, told, group, overtaken>> /\ (ops["pin"] # Null \/ phase = "published")
        /\ \/ Post!Claims(s, "pin", op, Null, op.attempts + 1)
           \/ phase # "published" /\ ops' = [ops EXCEPT !["pin"].state = "skipped"] /\ work' = work
    BY <1>4, <2>1 DEF Post!ClaimPin, Post!LaunchKnown, Post!Free
  <2>3. CASE Post!Claims(s, "pin", op, Null, op.attempts + 1)
    BY <1>1, <2>1, <2>2, <2>3, PostNames
  <2>4. CASE phase # "published" /\ ops' = [ops EXCEPT !["pin"].state = "skipped"] /\ work' = work
    <3>1. PICK y : y = [op EXCEPT !.state = "skipped"]
      OBVIOUS
    <3>2. ops["pin"] # Null /\ op = ops["pin"] /\ IsOp(op)
      BY <1>2, <2>1, <2>2, <2>4, LineIsOp, PostNames
    <3>3. IsOp(y) /\ y.state = "skipped"
      BY <3>1, <3>2 DEF IsOp
    <3>4. ~Post!Busy("pin")
      BY <2>2, <3>2, PostNames, JobsAreNotOps DEF Post!Busy, PostInv, ClaimTrue
    <3>5. ops' = [ops EXCEPT !["pin"] = y]
      BY <2>4, <3>1, <3>2
    <3>6. Turns("pin", y)
      BY <2>2, <2>4, <3>2, <3>3, <3>4, <3>5, PostNames DEF Turns
    <3>7. QED
      BY <3>6, OpTurns
  <2>5. QED
    BY <2>2, <2>3, <2>4
<1>5. CASE Post!ClaimUnpin(s)
  <2>1. PICK op : op = Post!Line0("unpin")
    OBVIOUS
  <2>2. /\ work[s] = Null /\ jobs["launch"].state = "sent" /\ jobs["launch"].known /\ op.state = "pending"
        /\ UNCHANGED <<jobs, read, told, group, overtaken>> /\ ops["pin"] # Null /\ ops["pin"].state \in {"sent", "unknown"}
        /\ Post!Claims(s, "unpin", op, Null, op.attempts + 1)
    BY <1>5, <2>1 DEF Post!ClaimUnpin, Post!LaunchKnown, Post!Free
  <2>3. QED
    BY <1>1, <2>1, <2>2, PostNames
<1>6. CASE Post!ClaimLive(s)
  <2>1. PICK op : op = Post!Line0("live")
    OBVIOUS
  <2>2. PICK n : Post!Claims(s, "live", op, Post!Now, n)
    BY <1>6, <2>1 DEF Post!ClaimLive
  <2>3. /\ work[s] = Null /\ jobs["launch"].state = "sent" /\ jobs["launch"].known /\ op.state # "sending"
        /\ UNCHANGED <<jobs, read, told, group, overtaken>>
    BY <1>6, <2>1 DEF Post!ClaimLive, Post!LaunchKnown, Post!Free
  <2>4. QED
    BY <1>1, <2>1, <2>2, <2>3, PostNames
<1>7. QED
  BY <1>4, <1>5, <1>6

LEMMA PostOps ==
  ASSUME PostConstants, PostInv, NEW s \in Senders,
         \/ Post!OpSent(s) \/ Post!OpRefused(s) \/ Post!OpUnconfirmed(s)
         \/ Post!Crash(s) /\ work[s].job \in Post!Ops
  PROVE  PostInv'
<1>1. PICK o : o = work[s].job
  OBVIOUS
<1>2. PICK x : x = ops[o]
  OBVIOUS
<1>3. work[s] # Null /\ o \in Post!Ops /\ work' = [work EXCEPT ![s] = Null] /\ UNCHANGED <<jobs, read, told, overtaken>>
  BY <1>1, JobsAreNotOps DEF Post!OpSent, Post!OpRefused, Post!OpUnconfirmed, Post!Crash, Post!Doing, Post!Done
<1>4. ClaimTrue(s) /\ ops = [p \in Post!Ops |-> ops[p]] /\ group = [pinned |-> group.pinned, line |-> group.line]
  BY DEF PostInv, PostTypes
<1>5. x # Null /\ IsOp(x) /\ x.state = "sending" /\ x.target = work[s].target
  BY <1>1, <1>2, <1>3, <1>4 DEF ClaimTrue, PostInv, PostTypes
<1>6. ASSUME NEW e, Post!Outcome(s, e)
      PROVE  \E y : ops' = [ops EXCEPT ![o] = y] /\ IsOp(y) /\ y.state = e /\ (e = "sent" /\ o = "live" => y.shown = x.target)
  <2>1. PICK y : y = [x EXCEPT !.state = e, !.later = (e = "pending"),
                               !.shown = IF e = "sent" /\ o = "live" THEN x.target ELSE x.shown]
    OBVIOUS
  <2>2. IsOp(y) /\ y.state = e /\ (e = "sent" /\ o = "live" => y.shown = x.target)
    BY <1>5, <2>1 DEF IsOp
  <2>3. ops' = [ops EXCEPT ![o] = y]
    BY <1>1, <1>2, <1>3, <1>4, <1>5, <1>6, <2>1 DEF Post!Outcome
  <2>4. QED
    BY <2>2, <2>3
<1>7. ASSUME Post!Effect(work[s])
      PROVE  /\ group' = [pinned |-> group'.pinned, line |-> group'.line]
             /\ IF o = "live" THEN group'.pinned = group.pinned /\ group'.line = x.target
                ELSE group'.line = group.line /\ group'.pinned = (o = "pin")
  BY <1>1, <1>4, <1>5, <1>7 DEF Post!Effect
<1>8. CASE Post!OpSent(s)
  <2>1. PICK y : ops' = [ops EXCEPT ![o] = y] /\ IsOp(y) /\ y.state = "sent" /\ (o = "live" => y.shown = x.target)
    BY <1>6, <1>8 DEF Post!OpSent
  <2>2. Shows(o, y)
    BY <1>7, <1>8, <2>1 DEF Post!OpSent, Shows
  <2>3. Finishes(s, o, y)
    BY <1>1, <1>3, <2>1, <2>2 DEF Finishes
  <2>4. QED
    BY <2>3, OpFinishes
<1>9. CASE Post!OpRefused(s)
  <2>1. PICK e \in {"failed", "pending"} : Post!Outcome(s, e)
    BY <1>9 DEF Post!OpRefused
  <2>2. PICK y : ops' = [ops EXCEPT ![o] = y] /\ IsOp(y) /\ y.state = e
    BY <1>6, <2>1
  <2>3. Shows(o, y)
    BY <1>4, <1>9, <2>1, <2>2 DEF Post!OpRefused, Shows
  <2>4. Finishes(s, o, y)
    BY <1>1, <1>3, <2>1, <2>2, <2>3 DEF Finishes
  <2>5. QED
    BY <2>4, OpFinishes
<1>10. CASE Post!OpUnconfirmed(s)
  <2>1. PICK y : ops' = [ops EXCEPT ![o] = y] /\ IsOp(y) /\ y.state = "unknown"
    BY <1>6, <1>10 DEF Post!OpUnconfirmed
  <2>2. Post!Effect(work[s]) \/ group' = group
    BY <1>10 DEF Post!OpUnconfirmed
  <2>3. Shows(o, y)
    BY <1>4, <1>7, <2>1, <2>2 DEF Shows
  <2>4. Finishes(s, o, y)
    BY <1>1, <1>3, <2>1, <2>3 DEF Finishes
  <2>5. QED
    BY <2>4, OpFinishes
<1>11. CASE Post!Crash(s) /\ work[s].job \in Post!Ops
  <2>1. /\ ops' = ops
        /\ \/ group' = [group EXCEPT !.pinned = IF o = "live" THEN @ ELSE o = "pin",
                                         !.line = IF o = "live" THEN work[s].target ELSE @]
           \/ group' = group
    BY <1>1, <1>3, <1>11, JobsAreNotOps DEF Post!Crash
  <2>2. Shows(o, x)
    BY <1>4, <1>5, <2>1 DEF Shows
  <2>3. Finishes(s, o, x)
    BY <1>1, <1>2, <1>3, <1>4, <1>5, <2>1, <2>2 DEF Finishes
  <2>4. QED
    BY <2>3, OpFinishes
<1>12. QED
  BY <1>8, <1>9, <1>10, <1>11

LEMMA PostWaits == ASSUME PostConstants, PostInv, NEW o \in Post!Ops, Post!OpWaits(o) PROVE PostInv'
<1>1. PICK x : x = ops[o]
  OBVIOUS
<1>2. x # Null /\ IsOp(x) /\ UNCHANGED <<jobs, read, work, told, group, overtaken>>
  BY <1>1 DEF Post!OpWaits, PostInv, PostTypes
<1>3. CASE ops' = [ops EXCEPT ![o].later = FALSE]
  <2>1. PICK y : y = [x EXCEPT !.later = FALSE]
    OBVIOUS
  <2>2. IsOp(y) /\ y.state = x.state /\ y.shown = x.shown /\ y.target = x.target
    BY <1>2, <2>1 DEF IsOp
  <2>3. ops' = [ops EXCEPT ![o] = y]
    BY <1>1, <1>3, <2>1
  <2>4. Turns(o, y)
    BY <1>1, <1>2, <2>2, <2>3 DEF Turns
  <2>5. QED
    BY <2>4, OpTurns
<1>4. CASE x.state = "sending" /\ ~Post!Busy(o) /\ ops' = [ops EXCEPT ![o].state = "unknown"]
  <2>1. PICK y : y = [x EXCEPT !.state = "unknown"]
    OBVIOUS
  <2>2. IsOp(y) /\ y.state = "unknown"
    BY <1>2, <2>1 DEF IsOp
  <2>3. ops' = [ops EXCEPT ![o] = y]
    BY <1>1, <1>4, <2>1
  <2>4. Turns(o, y)
    BY <1>1, <1>2, <1>4, <2>2, <2>3 DEF Turns
  <2>5. QED
    BY <2>4, OpTurns
<1>5. QED
  BY <1>1, <1>3, <1>4 DEF Post!OpWaits

(* Every step of a sender, of time or of the lottery keeps it all. *)
LEMMA PostNext == ASSUME PostConstants, Prompt PROVE PostInv /\ [Post!Next]_(Post!vars) => PostInv'
<1> SUFFICES ASSUME PostInv, [Post!Next]_(Post!vars) PROVE PostInv'
  OBVIOUS
<1>1. ASSUME NEW s \in Senders, Post!Crash(s) PROVE PostInv'
  <2>1. work[s].job \in Post!Jobs \cup Post!Ops
    BY <1>1 DEF Post!Crash, PostInv, ClaimTrue
  <2>2. QED
    BY <1>1, <2>1, PostEnds, PostOps
<1>2. QED
  BY <1>1, PostReads, PostPasses, PostClaims, PostEnds, PostOps, PostOpClaims, PostWaits, PostRest DEF Post!Next

LEMMA PostTells == PostInv => Post!PostedOnce /\ Post!PartsInOrder /\ Post!BelievedIsShown
BY DEF PostInv, JobTrue, Post!PostedOnce, Post!Jobs

(* However sends are refused, lost, crash, are tried again or recovered by *)
(* an administrator, for any number of senders and winners, if batches end *)
(* before their leases: no private message of a lottery is posted twice,   *)
(* and a notice only by a delivery that claimed it on a row it had read    *)
(* before the recovery that named its message (lottery.py, deliver_notices, *)
(* deliver_dms and recover_notice); a later part of a result never         *)
(* precedes the first; and when the row believes that it knows the pin and *)
(* the live line of the launch message, the group shows that (deliver_ops, *)
(* _claim_op and _run_op).                                                 *)
THEOREM LotteryPostsTrue ==
    ASSUME PostConstants, Prompt
    PROVE  Post!Spec => [](Post!PostedOnce /\ Post!PartsInOrder /\ Post!BelievedIsShown)
<1>1. Post!Init => PostInv
  BY PostStart
<1>2. PostInv /\ [Post!Next]_(Post!vars) => PostInv'
  BY PostNext
<1>3. PostInv => Post!PostedOnce /\ Post!PartsInOrder /\ Post!BelievedIsShown
  BY PostTells
<1>4. QED
  BY <1>1, <1>2, <1>3, PTL DEF Post!Spec

-----------------------------------------------------------------------------
(* The cards of rounds and the posts of lotteries side by side, as MCCards *)
(* has them: what is proved of each holds while it is at work.             *)
PostsAtWork == part \in Lotteries => PostInv

LEMMA CardsInUnion == UnionSpec => Spec
<1>1. UnionInit => Init
  BY DEF UnionInit, AtRest
<1>2. [UnionNext]_allVars => [Next]_vars
  BY DEF UnionNext, InCards, InPost, allVars
<1>3. QED
  BY <1>1, <1>2, PTL DEF UnionSpec, Spec

LEMMA PostsInUnion == ASSUME PostConstants, Prompt PROVE UnionSpec => []PostsAtWork
<1>1. UnionInit => PostsAtWork
  BY PostStart DEF UnionInit, PostsAtWork, Lotteries
<1>2. PostsAtWork /\ [UnionNext]_allVars => PostsAtWork'
  <2> SUFFICES ASSUME PostsAtWork, [UnionNext]_allVars, part' \in Lotteries
               PROVE  PostInv'
    BY DEF PostsAtWork
  <2>1. part' = part /\ [Post!Next]_(Post!vars)
    BY DEF UnionNext, InCards, InPost, allVars, others, Post!vars, Lotteries
  <2>2. PostInv
    BY <2>1 DEF PostsAtWork
  <2>3. QED
    BY <2>1, <2>2, PostNext
<1>3. QED
  BY <1>1, <1>2, PTL DEF UnionSpec

(* What the rows say of a message is what the group shows, for the cards   *)
(* of rounds and for a lottery's pin and live line, no post of a lottery   *)
(* is repeated, and its parts keep their order (play_rounds.py, lottery.py *)
(* deliver_notices, deliver_dms, _claim_op, _run_op), with the exception   *)
(* that PostedOnce names, and if batches end before their leases.          *)
THEOREM CardsShownAsRecorded == ASSUME PostConstants, Prompt PROVE UnionSpec => []ShownAsRecorded
<1>1. UnionSpec => []RenderedIsShown
  BY CardsInUnion, RowShowsItsCard
<1>2. RenderedIsShown /\ PostsAtWork => ShownAsRecorded
  BY PostTells DEF PostsAtWork, ShownAsRecorded
<1>3. QED
  BY <1>1, <1>2, PostsInUnion, PTL
=============================================================================
