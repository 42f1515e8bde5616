----------------------------- MODULE RoundCards -----------------------------
(***************************************************************************)
(* The publication of one game round's group card: the columns of          *)
(* play_rounds that RoundCards (backend/app/modules/play_rounds.py) reads  *)
(* and writes, the publishers that call it (_blackwhite_publish and        *)
(* _poker_publish) and the Telegram chat.  A row is independent of every   *)
(* other row: each UPDATE is keyed on the nonce, so one row is modelled.   *)
(*                                                                         *)
(* A publisher claims the row under a fresh token and a lease, calls       *)
(* Telegram outside the transaction, and reports the outcome; a process    *)
(* may die at any point of that sequence.                                  *)
(***************************************************************************)
EXTENDS Integers, Sequences, FiniteSets

CONSTANTS
    Workers,    \* processes that publish (one call each at a time, behind _play_locks)
    Tokens,     \* publish tokens (secrets.token_hex)
    NoToken,    \* publish_token = ''
    Lease,      \* duration of publish_lease, in ticks (90 s)
    Delay,      \* the delay before a failed publication is retried (10 s)
    MaxRev,     \* bound: how often the game changes what the card shows
    ServerErrorMayAccept  \* TRUE: an HTTP 5xx answer may hide an accepted send

ASSUME CardsAssumption ==
    /\ NoToken \notin Tokens
    /\ Lease \in Nat \ {0}
    /\ Delay \in Nat
    /\ MaxRev \in Nat
    /\ ServerErrorMayAccept \in BOOLEAN

VARIABLES
    revision,   \* play_rounds.revision
    rendered,   \* play_rounds.rendered_revision
    card,       \* play_rounds.card_message_id, 0 for NULL
    sendState,  \* play_rounds.card_send_state
    token,      \* play_rounds.publish_token
    lease,      \* publish_lease - now, 0 once the lease has ended
    wait,       \* next_publish_at - now, 0 once due
    job,        \* the call each publisher is making
    posted,     \* the chat: posted[m] is the revision that message m shows
    pace        \* history: "late" once a call has outlived its lease (20 s timeout, 90 s lease)

row  == <<revision, rendered, card, sendState, token, lease, wait>>
vars == <<revision, rendered, card, sendState, token, lease, wait, job, posted, pace>>

SendStates == {"pending", "sending", "sent", "unknown"}
Outcomes   == {"ok", "retry", "failed", "unknown"}

NoJob == [phase |-> "idle", token |-> NoToken, rev |-> 0, card |-> 0, mid |-> 0]

Jobs == [phase : {"idle", "calling", "applied"}, token : Tokens \cup {NoToken},
         rev : Nat, card : Nat, mid : Nat]

TypeOK ==
    /\ revision \in Nat
    /\ rendered \in Nat \cup {-1}
    /\ card \in Nat
    /\ sendState \in SendStates
    /\ token \in Tokens \cup {NoToken}
    /\ lease \in Nat
    /\ wait \in Nat
    /\ job \in [Workers -> Jobs]
    /\ posted \in Seq(Nat)
    /\ pace \in {"prompt", "late"}

Init ==
    /\ revision = 0
    /\ rendered = -1
    /\ card = 0
    /\ sendState = "pending"
    /\ token = NoToken
    /\ lease = 0
    /\ wait = 0
    /\ job = [w \in Workers |-> NoJob]
    /\ posted = <<>>
    /\ pace = "prompt"

LargerOf(a, b) == IF a > b THEN a ELSE b

-----------------------------------------------------------------------------
(* The game changes the row; the card must follow.  A handler that ends in *)
(* UPDATE ... SET revision=revision+1, next_publish_at=0.                  *)
Bump ==
    /\ revision < MaxRev
    /\ revision' = revision + 1
    /\ wait' = 0
    /\ UNCHANGED <<rendered, card, sendState, token, lease, job, posted, pace>>

(* A click on a button of message m, by a handler that commits.  context() *)
(* adopts m when the answer to the initial send is missing; the handler    *)
(* may then change the game.  A handler that raises rolls both back.       *)
Click(m, changed) ==
    /\ \/ card = m /\ UNCHANGED <<card, sendState>>
       \/ /\ card = 0
          /\ sendState \in {"sending", "unknown"}
          /\ card' = m
          /\ sendState' = "sent"
    /\ IF changed
       THEN revision < MaxRev /\ revision' = revision + 1
       ELSE card = 0 /\ UNCHANGED revision
    /\ wait' = 0
    /\ UNCHANGED <<rendered, token, lease, job, posted, pace>>

\* Mutant: a second publisher may take over a row that is being published.
MayPublishUnleased == wait = 0 /\ rendered < revision /\ (card = 0 => sendState = "pending")

(* begin_publish: claim the row for one call. *)
MayPublish ==
    /\ wait = 0
    /\ lease = 0
    /\ rendered < revision
    /\ card = 0 => sendState = "pending"

BeginPublish(w) ==
    /\ job[w] = NoJob
    /\ MayPublish
    /\ \E t \in Tokens \ ({token} \cup {job[v].token : v \in Workers}) :
          /\ token' = t
          /\ job' = [job EXCEPT ![w] =
                       [phase |-> "calling", token |-> t, rev |-> revision,
                        card |-> card, mid |-> card]]
    /\ lease' = Lease
    /\ sendState' = IF card = 0 THEN "sending" ELSE "sent"
    /\ UNCHANGED <<revision, rendered, card, wait, posted, pace>>

(* Telegram carries out the request: sendMessage posts a new message,      *)
(* editMessageText replaces what the bound message shows (an edit that     *)
(* changes nothing is answered "not modified", which counts as success).   *)
Apply(w) ==
    /\ job[w].phase = "calling"
    /\ posted' = IF job[w].card = 0 THEN Append(posted, job[w].rev)
                                   ELSE [posted EXCEPT ![job[w].card] = job[w].rev]
    /\ job' = [job EXCEPT ![w] =
                  [phase |-> "applied", token |-> @.token, rev |-> @.rev, card |-> @.card,
                   mid |-> IF @.card = 0 THEN Len(posted) + 1 ELSE @.mid]]
    /\ UNCHANGED <<row, pace>>

(* The outcomes _call can report.  "ok" needs the request carried out;     *)
(* report_delivery.failure calls a connection error, a 429 and every 5xx   *)
(* "retry", another rejection "failed", and all else "unknown".            *)
MayReport(w, outcome) ==
    \/ job[w].phase = "applied" /\ outcome \in {"ok", "unknown"}
    \/ job[w].phase = "applied" /\ outcome = "retry" /\ ServerErrorMayAccept
    \/ job[w].phase = "calling" /\ outcome \in {"retry", "failed", "unknown"}

\* Mutant: the row takes credit for the revision it has by now.
PublishedCurrent(w) ==
    IF token = job[w].token /\ card \in {0, job[w].mid}
    THEN /\ card' = job[w].mid
         /\ sendState' = "sent"
         /\ rendered' = revision
         /\ token' = NoToken
         /\ lease' = 0
         /\ wait' = 0
    ELSE UNCHANGED <<card, sendState, rendered, token, lease, wait>>

(* published: record the message and the revision it shows. *)
Published(w) ==
    IF token = job[w].token /\ card \in {0, job[w].mid}
    THEN /\ card' = job[w].mid
         /\ sendState' = "sent"
         /\ rendered' = LargerOf(rendered, job[w].rev)
         /\ token' = NoToken
         /\ lease' = 0
         /\ wait' = 0
    ELSE UNCHANGED <<card, sendState, rendered, token, lease, wait>>

\* Mutant: every failure is retried.
StateRetried(outcome) == IF card # 0 THEN "sent" ELSE "pending"

(* publish_failed: a bound card is edited again later; an initial send is  *)
(* repeated only when the failure is known.                                *)
StateAfterFailure(outcome) ==
    IF card # 0 THEN "sent" ELSE IF outcome = "retry" THEN "pending" ELSE "unknown"

PublishFailed(w, outcome) ==
    IF token = job[w].token
    THEN /\ sendState' = StateAfterFailure(outcome)
         /\ token' = NoToken
         /\ lease' = 0
         /\ wait' = Delay
         /\ UNCHANGED <<card, rendered>>
    ELSE UNCHANGED <<card, sendState, rendered, token, lease, wait>>

Return(w, outcome) ==
    /\ job[w].phase # "idle"
    /\ MayReport(w, outcome)
    /\ IF outcome = "ok" THEN Published(w) ELSE PublishFailed(w, outcome)
    /\ job' = [job EXCEPT ![w] = NoJob]
    /\ UNCHANGED <<revision, posted, pace>>

\* Mutant: a restart sends the card again.
SweepResends ==
    /\ card = 0
    /\ sendState = "sending"
    /\ lease = 0
    /\ sendState' = "pending"
    /\ token' = NoToken
    /\ UNCHANGED <<revision, rendered, card, lease, wait, job, posted, pace>>

(* pending_cards: an initial send whose lease ended has an unknown outcome. *)
Sweep ==
    /\ card = 0
    /\ sendState = "sending"
    /\ lease = 0
    /\ sendState' = "unknown"
    /\ token' = NoToken
    /\ UNCHANGED <<revision, rendered, card, lease, wait, job, posted, pace>>

(* A process dies during its call; the row stays as it was. *)
Crash(w) ==
    /\ job[w].phase # "idle"
    /\ job' = [job EXCEPT ![w] = NoJob]
    /\ UNCHANGED <<row, posted, pace>>

OneLess(n) == IF n = 0 THEN 0 ELSE n - 1

Tick ==
    /\ lease > 0 \/ wait > 0
    /\ lease' = OneLess(lease)
    /\ wait' = OneLess(wait)
    /\ pace' = IF lease = 1 /\ (\E w \in Workers : job[w].phase # "idle") THEN "late" ELSE pace
    /\ UNCHANGED <<revision, rendered, card, sendState, token, job, posted>>

Next ==
    \/ Bump
    \/ \E m \in DOMAIN posted, changed \in BOOLEAN : Click(m, changed)
    \/ \E w \in Workers : BeginPublish(w) \/ Apply(w) \/ Crash(w)
    \/ \E w \in Workers, outcome \in Outcomes : Return(w, outcome)
    \/ Sweep
    \/ Tick

Spec == Init /\ [][Next]_vars

(* Every publisher that runs keeps running (_play_worker loops forever),   *)
(* time passes, and Telegram answers a repeated edit in the end.  Games,   *)
(* clicks and crashes are never forced.                                    *)
Fairness ==
    /\ WF_vars(Tick)
    /\ WF_vars(\E w \in Workers : BeginPublish(w))
    /\ \A w \in Workers :
          /\ WF_vars(\E outcome \in Outcomes : Return(w, outcome))
          /\ SF_vars(Apply(w))
          /\ SF_vars(Return(w, "ok"))

FairSpec == Spec /\ Fairness

-----------------------------------------------------------------------------
(* A lost answer, a crash or a late publisher never makes a second card    *)
(* for the same round: "uncertain initial send must not create a second    *)
(* card" (play_rounds.py:87).                                              *)
AtMostOneCard == Len(posted) <= 1

(* As long as calls end before their lease, the row never believes in a    *)
(* revision its card does not show: a slow publisher cannot overwrite a    *)
(* newer card after the row recorded it (publish_token, play_rounds.py:98).*)
RenderedIsShown ==
    pace = "prompt" =>
        /\ card # 0 => card \in DOMAIN posted /\ rendered <= posted[card]
        /\ card = 0 => rendered = -1

(* RoundCards implements the abstract card as long as a 5xx answer means a *)
(* refusal.                                                                *)
Abstract == INSTANCE CardPost WITH posts <- Len(posted), bound <- card
ImplementsCardPost == Abstract!Spec
=============================================================================
