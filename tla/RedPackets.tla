----------------------------- MODULE RedPackets -----------------------------
(***************************************************************************)
(* One red packet: its row in red_packets, its claims and the points       *)
(* ledger (backend/app/modules/red_packets.py).  Every handler is one      *)
(* BEGIN IMMEDIATE transaction, hence one action; between two of them      *)
(* members are rebound, promoted or suspended, rules change, and points    *)
(* are earned and spent elsewhere.  The confirmation card is sent outside  *)
(* of the transactions by _packet_command (bot_packets.py).                *)
(*                                                                         *)
(* allocations_json is kept as `cut': cut[k] points are left once k shares *)
(* have been taken, so share k is cut[k] - cut[k+1].                       *)
(***************************************************************************)
EXTENDS Integers, FiniteSets

CONSTANTS
    Users,      \* emby_user_id of the members
    Tgs,        \* Telegram accounts
    Null,       \* no binding; a column that has no value yet
    Configs,    \* rules the operator may set: [maxTotal, maxParts, forMembers]
    Totals,     \* totals a command or a button may ask for
    Parts,      \* share counts a command or a button may ask for
    ConfirmBy,  \* ticks before a draft lapses (600 s)
    Ttl,        \* ticks before a packet from before the upgrade expires (ttl_hours)
    SqlMax,     \* SQL_MAX, the largest balance that can be stored
    Start,      \* what every member owns at first
    Deltas,     \* amounts other features credit (> 0) or debit (< 0)
    MaxChanges  \* bound: how often anything outside the packet changes

ASSUME PacketAssumption ==
    /\ Null \notin Tgs
    /\ Configs \subseteq [maxTotal : Nat, maxParts : Nat, forMembers : BOOLEAN]
    /\ Totals \subseteq Nat /\ Parts \subseteq Nat
    /\ ConfirmBy \in Nat /\ Ttl \in Nat /\ SqlMax \in Nat /\ Start \in Nat
    /\ Deltas \subseteq Int /\ MaxChanges \in Nat

VARIABLES
    members,    \* per user: Telegram binding, state, system role, whitelist group
    config,     \* the plugin's rules
    enabled,    \* the plugin's switch
    changes,    \* how many outside changes there have been
    balance,    \* points_ledger, summed per user
    other,      \* the part of each balance that other features account for
    status,     \* "none" until the row exists
    permanent,  \* FALSE for a row drafted before the upgrade
    origin,     \* actor_user_id, actor_tg_id and funding
    offer,      \* total, parts, mode and audience
    rules,      \* config_json
    timer,      \* confirm_by - now of a draft, expires_at - now of an active row
    cut,        \* allocations_json
    claims,     \* the rows of red_packet_claims
    claimed,    \* claimed_count
    remaining, refunded, voided,
    send,       \* the command handler: "idle", or its sendMessage "calling" or "applied"
    cards,      \* confirmation cards in the group
    cardState,  \* card_send_state
    card,       \* card_message_id, 0 for NULL
    shown       \* what the bound card offers: "draft", "open" or "ended"

world  == <<members, config, enabled, changes>>
money  == <<balance, claims, claimed, remaining, refunded, voided>>
terms  == <<permanent, origin, offer, rules, cut>>
posted == <<send, cards, cardState, card, shown>>
vars   == <<world, money, terms, posted, other, status, timer>>

Modes     == {"equal", "random"}
Audiences == {"all", "whitelist"}
Offers    == [total : Totals, parts : Parts, mode : Modes, audience : Audiences]
Members   == [tg : Tgs \cup {Null}, active : BOOLEAN, admin : BOOLEAN, white : BOOLEAN]
Origins   == [user : Users, tg : Tgs, funding : {"user", "reward"}]
Claims    == [user : Users, tg : Tgs, amount : Int, slot : Nat]
Finished  == {"cancelled", "exhausted", "expired"}

\* A Telegram account is linked to one member at most.
Linked(ms) == \A u, v \in Users : ms[u].tg = ms[v].tg /\ ms[u].tg # Null => u = v

Init ==
    /\ members \in [Users -> [tg : Tgs, active : {TRUE}, admin : BOOLEAN, white : {FALSE}]]
    /\ Linked(members)
    /\ config \in Configs /\ enabled = TRUE /\ changes = 0
    /\ balance = [u \in Users |-> Start] /\ other = balance
    /\ status = "none" /\ permanent \in BOOLEAN /\ timer = 0
    /\ origin = Null /\ offer = Null /\ rules = Null /\ cut = Null
    /\ claims = {} /\ claimed = 0 /\ remaining = 0 /\ refunded = 0 /\ voided = 0
    /\ send = "idle" /\ cards = 0 /\ cardState = "pending" /\ card = 0 /\ shown = "draft"

-----------------------------------------------------------------------------
(* validate_request. *)
Valid(o, c) ==
    /\ o.total \in 1 .. SqlMax /\ o.parts \in 1 .. SqlMax
    /\ o.total <= c.maxTotal /\ o.parts <= c.maxParts
    /\ o.total >= o.parts
    /\ o.mode = "equal" => o.total % o.parts = 0

LesserOf(a, b)  == IF a < b THEN a ELSE b
LargerOf(a, b)  == IF a > b THEN a ELSE b

\* The largest share that may be drawn when `left' points go to n members.
Upper(left, n) == LesserOf(left - n + 1, LargerOf(1, (2 * left) \div n))

(* allocations: every list of shares the draw can produce. *)
Cuts(o) ==
    IF o.mode = "equal"
    THEN {[k \in 0 .. o.parts |-> o.total - k * (o.total \div o.parts)]}
    ELSE {c \in [0 .. o.parts -> 0 .. o.total] :
            /\ c[0] = o.total
            /\ \A k \in 0 .. o.parts - 2 :
                  c[k] - c[k + 1] \in 1 .. Upper(c[k], o.parts - k)
            /\ c[o.parts] = 0}

\* assert sum(values) == total and min(values) >= 1
Exact(o, c) ==
    /\ c \in [0 .. o.parts -> Nat]
    /\ c[0] = o.total /\ c[o.parts] = 0
    /\ \A k \in 0 .. o.parts - 1 : c[k] > c[k + 1]

\* _actor: the account tg acts for the active member u.
Actor(tg, u) == members[u].tg = tg /\ members[u].active

FundingOf(u) == IF members[u].admin THEN "reward" ELSE "user"

\* _sender: the same person, binding and system role as when the row was drafted.
Sender(tg, u) ==
    Actor(tg, u) /\ origin = [user |-> u, tg |-> tg, funding |-> FundingOf(u)]

MayFund(u, total) == config.forMembers /\ balance[u] >= total

-----------------------------------------------------------------------------
(* prepare.  A command delivered again finds the row and changes nothing. *)
Prepare(tg, u, o) ==
    /\ status = "none" /\ enabled
    /\ Actor(tg, u)
    /\ Valid(o, config)
    /\ FundingOf(u) = "user" => MayFund(u, o.total)
    /\ status' = "draft" /\ timer' = ConfirmBy
    /\ origin' = [user |-> u, tg |-> tg, funding |-> FundingOf(u)]
    /\ offer' = o /\ rules' = config
    /\ UNCHANGED <<world, money, posted, other, permanent, cut>>

\* Mutant: a command delivered again sends the card again.
BeginCardResend ==
    /\ status = "draft" /\ card = 0
    /\ send = "idle"
    /\ send' = "calling" /\ cardState' = "sending"
    /\ UNCHANGED <<world, money, terms, other, status, timer, cards, card, shown>>

(* begin_card_send, by the first command handler that gets there. *)
BeginCardSend ==
    /\ status = "draft" /\ cardState = "pending" /\ card = 0
    /\ send = "idle"
    /\ send' = "calling" /\ cardState' = "sending"
    /\ UNCHANGED <<world, money, terms, other, status, timer, cards, card, shown>>

Apply ==
    /\ send = "calling"
    /\ send' = "applied" /\ cards' = cards + 1
    /\ UNCHANGED <<world, money, terms, other, status, timer, cardState, card, shown>>

(* bind_card with the answer; a row that is no draft any more stays unbound *)
(* and is reported by card_send_failed, whose own guard is the NULL card.   *)
Answered ==
    /\ send = "applied"
    /\ send' = "idle"
    /\ IF status = "draft"
       THEN card' = cards /\ cardState' = "sent"
       ELSE UNCHANGED card /\ cardState' = "unknown"
    /\ UNCHANGED <<world, money, terms, other, status, timer, cards, shown>>

(* card_send_failed: refused, or no answer. *)
SendFailed(outcome) ==
    /\ \/ send = "calling" /\ outcome \in {"failed", "unknown"}
       \/ send = "applied" /\ outcome = "unknown"
    /\ send' = "idle"
    /\ cardState' = outcome
    /\ UNCHANGED <<world, money, terms, other, status, timer, cards, card, shown>>

Crash ==
    /\ send # "idle"
    /\ send' = "idle"
    /\ UNCHANGED <<world, money, terms, other, status, timer, cards, cardState, card, shown>>

(* _packet_render puts the current state on the bound card. *)
Render ==
    /\ card # 0
    /\ shown' = CASE status = "draft" -> "draft"
                  [] status = "active" /\ (permanent \/ timer > 0) -> "open"
                  [] OTHER -> "ended"
    /\ shown' # shown
    /\ UNCHANGED <<world, money, terms, other, status, timer, send, cards, cardState, card>>

\* A draft can be worked on until it lapses or packets are switched off.
DraftOpen == status = "draft" /\ timer > 0 /\ enabled

(* edit_draft changes one field and takes over the current rules. *)
EditDraft(tg, u, o) ==
    /\ card # 0
    /\ DraftOpen /\ Sender(tg, u)
    /\ origin.funding = "user" => config.forMembers
    /\ \E field \in DOMAIN o : \A f \in DOMAIN o \ {field} : o[f] = offer[f]
    /\ Valid(o, config)
    /\ offer' = o /\ rules' = config
    /\ UNCHANGED <<world, money, posted, other, status, timer, permanent, origin, cut>>

(* confirm: the whole amount moves into escrow, or nothing does. *)
Confirm(tg, u) ==
    /\ card # 0
    /\ DraftOpen /\ Sender(tg, u)
    /\ config = rules /\ Valid(offer, config)
    /\ origin.funding = "user" => MayFund(u, offer.total)
    /\ balance' = IF origin.funding = "user"
                  THEN [balance EXCEPT ![u] = @ - offer.total] ELSE balance
    /\ cut' \in Cuts(offer) /\ Exact(offer, cut')
    /\ status' = "active" /\ remaining' = offer.total
    /\ timer' = IF permanent THEN 0 ELSE Ttl
    /\ UNCHANGED <<world, posted, other, permanent, origin, offer, rules,
                   claims, claimed, refunded, voided>>

Cancel(tg, u) ==
    /\ card # 0
    /\ status = "draft" /\ Sender(tg, u)
    /\ status' = "cancelled"
    /\ UNCHANGED <<world, money, terms, posted, other, timer>>

\* Mutants: only one of the two identities is looked up; every share is the mean.
PriorByTg(tg, u)   == \E c \in claims : c.tg = tg
PriorByUser(tg, u) == \E c \in claims : c.user = u
MeanShare(k) == offer.total \div offer.parts

\* Nobody who holds a share may take another, under either identity.
Prior(tg, u) == \E c \in claims : c.user = u \/ c.tg = tg

Share(k) == cut[k] - cut[k + 1]

(* claim: the next share goes to the member behind the click. *)
Claim(tg, u) ==
    LET amount == Share(claimed) IN
    /\ card # 0 /\ shown = "open"
    /\ Actor(tg, u)
    /\ offer.audience = "whitelist" => members[u].white
    /\ ~Prior(tg, u)
    /\ status = "active" /\ (permanent \/ timer > 0)
    /\ balance[u] + amount <= SqlMax
    /\ balance' = [balance EXCEPT ![u] = @ + amount]
    /\ claims' = claims \cup {[user |-> u, tg |-> tg, amount |-> amount, slot |-> claimed]}
    /\ claimed' = claimed + 1
    /\ remaining' = remaining - amount
    /\ status' = IF claimed + 1 = offer.parts THEN "exhausted" ELSE "active"
    /\ UNCHANGED <<world, terms, posted, other, timer, refunded, voided>>

\* Mutant: switching the packets off also stops their settlement.
DueWhileEnabled == timer = 0 /\ enabled

\* expire_due selects by time alone.
Due == timer = 0

(* expire, from expire_due: a lapsed draft is cancelled; an old packet is  *)
(* refunded to its sender, or voided when nobody paid for it.  A refund    *)
(* that would not fit raises, and is tried again a minute later.           *)
Expire ==
    /\ Due
    /\ \/ /\ status = "draft"
          /\ status' = "cancelled"
          /\ UNCHANGED money
       \/ /\ status = "active" /\ ~permanent
          /\ status' = "expired"
          /\ remaining' = 0
          /\ IF origin.funding = "user"
             THEN /\ remaining > 0 => balance[origin.user] + remaining <= SqlMax
                  /\ balance' = [balance EXCEPT ![origin.user] = @ + remaining]
                  /\ refunded' = remaining /\ UNCHANGED voided
             ELSE voided' = remaining /\ UNCHANGED <<balance, refunded>>
          /\ UNCHANGED <<claims, claimed>>
    /\ UNCHANGED <<world, terms, posted, other, timer>>

Tick ==
    /\ timer > 0
    /\ timer' = timer - 1
    /\ UNCHANGED <<world, money, terms, posted, other, status>>

-----------------------------------------------------------------------------
(* What happens around the packet. *)
Outside == changes < MaxChanges /\ changes' = changes + 1

\* bind_telegram takes the account from whoever was linked to it before.
Detached(v, tg) ==
    IF tg # Null /\ members[v].tg = tg THEN [members[v] EXCEPT !.tg = Null] ELSE members[v]

MemberChanges(u, m) ==
    /\ Outside
    /\ members' = [v \in Users |-> IF v = u THEN m ELSE Detached(v, m.tg)]
    /\ UNCHANGED <<config, enabled, money, terms, posted, other, status, timer>>

RulesChange(c, on) ==
    /\ Outside
    /\ config' = c /\ enabled' = on
    /\ UNCHANGED <<members, money, terms, posted, other, status, timer>>

OtherPoints(u, delta) ==
    /\ Outside
    /\ balance' = [balance EXCEPT ![u] = @ + delta]
    /\ other' = [other EXCEPT ![u] = @ + delta]
    /\ UNCHANGED <<members, config, enabled, terms, posted, status, timer,
                   claims, claimed, remaining, refunded, voided>>

Environment ==
    \/ \E u \in Users, m \in Members : MemberChanges(u, m)
    \/ \E c \in Configs, on \in BOOLEAN : RulesChange(c, on)
    \/ \E u \in Users, delta \in Deltas : OtherPoints(u, delta)

Next ==
    \/ \E tg \in Tgs, u \in Users :
          \/ \E o \in Offers : Prepare(tg, u, o) \/ EditDraft(tg, u, o)
          \/ Confirm(tg, u) \/ Cancel(tg, u) \/ Claim(tg, u)
    \/ BeginCardSend \/ Apply \/ Answered \/ Crash
    \/ \E outcome \in {"failed", "unknown"} : SendFailed(outcome)
    \/ Render \/ Expire \/ Tick
    \/ Environment

Spec == Init /\ [][Next]_vars

(* _packet_worker calls expire_due and renders every ten seconds, whether  *)
(* or not the packets are switched on; time passes.                        *)
FairSpec == Spec /\ WF_vars(Expire) /\ WF_vars(Tick)

-----------------------------------------------------------------------------
TypeOK ==
    /\ members \in [Users -> Members] /\ Linked(members)
    /\ config \in Configs /\ enabled \in BOOLEAN /\ changes \in Nat
    /\ balance \in [Users -> Int] /\ other \in [Users -> Int]
    /\ status \in {"none", "draft", "active"} \cup Finished
    /\ permanent \in BOOLEAN /\ timer \in Nat
    /\ status # "none" => origin \in Origins /\ offer \in Offers /\ rules \in Configs
    /\ claims \subseteq Claims
    /\ claimed \in Nat /\ remaining \in Nat /\ refunded \in Nat /\ voided \in Nat
    /\ cards \in Nat /\ card \in Nat
    /\ send \in {"idle", "calling", "applied"}
    /\ cardState \in {"pending", "sending", "sent", "failed", "unknown"}
    /\ shown \in {"draft", "open", "ended"}

Confirmed == status \in {"active", "exhausted", "expired"}

\* What u has without this packet's shares: the sender is out of what was
\* reserved and not refunded.
Own(u) ==
    other[u] - IF Confirmed /\ origin.funding = "user" /\ origin.user = u
               THEN offer.total - refunded ELSE 0

(* The ledger explains every balance: a member holds what other features   *)
(* gave, less the escrow, plus the one share taken.  Rebinding, a change   *)
(* of role and the race of the last claim with the expiry do not create or *)
(* destroy a point (confirm, claim and expire).                            *)
LedgerBalanced ==
    /\ \A u \in Users :
          (\A c \in claims : c.user # u) => balance[u] = Own(u)
    /\ \A c \in claims : balance[c.user] = Own(c.user) + c.amount

(* What has not been taken is still in the packet, was refunded or voided; *)
(* an active packet has something to take and a finished one nothing.      *)
NothingLost ==
    /\ Confirmed => remaining + refunded + voided = cut[claimed]
    /\ status = "active" => claimed < offer.parts /\ remaining > 0
    /\ status = "exhausted" => claimed = offer.parts /\ remaining = 0
    /\ status \in {"none", "draft", "cancelled"} => claims = {} /\ remaining = 0

(* The shares are handed out in order, each to one claim, and each claim   *)
(* records the share of its slot.                                          *)
SharesInOrder ==
    /\ \A c \in claims :
          c.slot < claimed /\ c.amount = cut[c.slot] - cut[c.slot + 1] /\ c.amount > 0
    /\ \A c, d \in claims : c.slot = d.slot => c = d
    /\ \A k \in 0 .. claimed - 1 : \E c \in claims : c.slot = k

(* Nobody takes two shares, neither by moving the account to another       *)
(* Telegram identity nor by moving the identity to another account.        *)
OneShareEach ==
    \A c, d \in claims : c.user = d.user \/ c.tg = d.tg => c = d

(* The assertion of confirm never fires: whatever the draw, the shares of  *)
(* a draft are positive and add up to its total (line 235).                *)
AllocationsExact ==
    status = "draft" => Cuts(offer) # {} /\ \A c \in Cuts(offer) : Exact(offer, c)

(* The shares of a packet: whatever the draw they are positive and add up,  *)
(* and what has not been taken is in the packet, was refunded or voided.   *)
SharesExact == AllocationsExact /\ NothingLost /\ SharesInOrder

(* A confirmed packet keeps its terms, and a finished one its outcome: a   *)
(* late edit, a second confirmation or a late expiry changes neither.      *)
SettledIsFinal ==
    [][/\ Confirmed => UNCHANGED <<origin, offer, cut>>
       /\ status \in Finished =>
             UNCHANGED <<status, claims, claimed, remaining, refunded, voided>>]_vars

(* The confirmation card is posted and bound at most once.                 *)
Abstract == INSTANCE CardPost WITH posts <- cards, bound <- card
ImplementsCardPost == Abstract!Spec
=============================================================================
