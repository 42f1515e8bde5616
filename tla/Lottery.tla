------------------------------ MODULE Lottery -------------------------------
(***************************************************************************)
(* One lottery of a group: its draft, publication, paid entries, the draw  *)
(* (by hand, at a deadline, or by the last entry of a full house), the     *)
(* cancellation with refunds, and the delivery of the awards.  An entry    *)
(* waits for Telegram and for the captcha service before its transaction;  *)
(* accounts may be bound, unbound and moved in between.                    *)
(***************************************************************************)
EXTENDS Integers, FiniteSetsExt

CONSTANTS People,     \* Telegram accounts
          Accounts,   \* media accounts with a points ledger
          Calls,      \* joins that may be under way at the same time
          Configs,    \* what an administrator may save as the draft
          Linked,     \* pairs of people who share an address or an installation
          Alike,      \* pairs of people whose consented device data coincide
          Points,     \* what every account owns at the start
          Null,
          MaxRevision, MaxBindings, MaxFaults

Modes == {"manual", "timed", "count"}
Audiences == {"all", "member", "guest"}
PrizeKinds == {"points", "registration", "manual"}
PrizeType == [kind : PrizeKinds, quantity : Nat \ {0}, amount : Nat]

LotteryBounds ==
  /\ {Points, MaxRevision, MaxBindings, MaxFaults} \subseteq Nat
  /\ \A c \in Configs : /\ c.mode \in Modes /\ c.audience \in Audiences
                        /\ c.fee \in Nat /\ c.full \in Nat
                        /\ \A i \in DOMAIN c.prizes : c.prizes[i] \in PrizeType
  /\ Null \notin Accounts

VARIABLES
  state, config, revision,   \* the row of lotteries
  pub,        \* a publication that waits for Telegram: the row it read
  closed,     \* the deadline has passed
  entries,    \* lottery_entries: person -> Null or whether it is excluded
  awards,     \* lottery_awards
  drawn,      \* history: who was registered when the draw took place
  joins,      \* call -> the join under way
  challenge,  \* person -> its captcha challenge and who reserved it
  bound,      \* members.tg_user_id: person -> account
  balance, paid, refunds,  \* the points, the fee each entry was charged, the refunds
  channel,    \* the admin_grant registration channel is open
  admitted,   \* lottery_admissions: people with a personal registration code
  bindings, faults

vars == <<state, config, revision, pub, closed, entries, awards, drawn, joins, challenge, bound,
          balance, paid, refunds, channel, admitted, bindings, faults>>
rowVars == <<state, config, revision, pub, closed>>
moneyVars == <<balance, paid, refunds>>
worldVars == <<bound, channel, admitted, bindings, faults>>

Registered == {p \in People : bound[p] # Null}
Entrants == {p \in People : entries[p] # Null}
Pair(P, p, q) == p # q /\ {p, q} \in P

Init ==
  /\ state = "draft" /\ config \in Configs /\ revision = 1 /\ pub = Null /\ closed = FALSE
  /\ entries = [p \in People |-> Null] /\ awards = {} /\ drawn = {}
  /\ joins = [c \in Calls |-> Null]
  /\ challenge = [p \in People |-> [state |-> "none", holder |-> Null]]
  /\ bound \in {f \in [People -> Accounts \cup {Null}] :
                  \A p, q \in People : p # q /\ f[p] # Null => f[p] # f[q]}
  /\ balance = [a \in Accounts |-> Points]
  /\ paid = [p \in People |-> Null] /\ refunds = [p \in People |-> Null]
  /\ channel = TRUE /\ admitted = {}
  /\ bindings = 0 /\ faults = 0

-----------------------------------------------------------------------------
(* The draft: saved and deleted under its revision, published after the    *)
(* bot, the group and its rights were confirmed with Telegram.             *)

Save(c) ==
  /\ state = "draft" /\ revision < MaxRevision
  /\ config' = c /\ revision' = revision + 1
  /\ UNCHANGED <<state, pub, closed, entries, awards, drawn, joins, challenge, moneyVars, worldVars>>

Delete ==
  /\ state = "draft" /\ state' = "deleted"
  /\ UNCHANGED <<config, revision, pub, closed, entries, awards, drawn, joins, challenge, moneyVars, worldVars>>

PublishAsks ==
  /\ state = "draft" /\ pub = Null
  /\ pub' = [config |-> config, revision |-> revision]
  /\ UNCHANGED <<state, config, revision, closed, entries, awards, drawn, joins, challenge, moneyVars, worldVars>>

StillDraft(p) == state = "draft"
Unchanged(p) == state = "draft" /\ revision = p.revision

Publish ==
  /\ pub # Null
  /\ pub' = Null
  /\ \/ /\ Unchanged(pub)
        /\ state' = "published" /\ config' = pub.config
     \/ UNCHANGED <<state, config>>
  /\ UNCHANGED <<revision, closed, entries, awards, drawn, joins, challenge, moneyVars, worldVars>>

DeadlinePasses ==
  /\ config.mode = "timed" /\ state \notin {"draft", "deleted"} /\ ~closed
  /\ closed' = TRUE
  /\ UNCHANGED <<state, config, revision, pub, entries, awards, drawn, joins, challenge, moneyVars, worldVars>>

-----------------------------------------------------------------------------
(* The draw.  Registration prizes come first, then the others, each group  *)
(* in a random order; a prize goes to a random sample of the eligible      *)
(* people who have won nothing yet.                                        *)

Eligible(prize, registered) ==
  CASE prize.kind = "registration" -> People \ registered
    [] prize.kind = "points" -> registered
    [] OTHER -> People

(* lottery_device.settle excludes both of two alike before candidates are read *)
Excluded(e, c) ==
  {p \in People : e[p] # Null
     /\ (e[p].excluded \/ (c.device /\ \E q \in People : e[q] # Null /\ Pair(Alike, p, q)))}

Orders(prizes) ==
  {f \in [DOMAIN prizes -> DOMAIN prizes] :
     /\ \A i, j \in DOMAIN prizes : f[i] = f[j] => i = j
     /\ \A i, j \in DOMAIN prizes :
          i < j /\ prizes[f[j]].kind = "registration" => prizes[f[i]].kind = "registration"}

Draws(prizes, candidates, registered) ==
  {W \in [DOMAIN prizes -> SUBSET candidates] :
     \E f \in Orders(prizes) : \A i \in DOMAIN prizes :
       LET prize == prizes[f[i]]
           left == (candidates \cap Eligible(prize, registered))
                     \ UNION {W[f[j]] : j \in {k \in DOMAIN prizes : k < i}}
       IN  /\ W[f[i]] \subseteq left
           /\ Cardinality(W[f[i]]) = Min({prize.quantity, Cardinality(left)})}

Settle(e) ==
  LET out == Excluded(e, config) IN
  /\ state' = "settled"
  /\ drawn' = Registered
  /\ \E W \in Draws(config.prizes, {p \in People : e[p] # Null} \ out, Registered) :
       awards' = UNION {{[person |-> p, prize |-> i, state |-> "pending", to |-> Null] : p \in W[i]} :
                          i \in DOMAIN config.prizes}
  /\ entries' = [p \in People |-> IF p \in out THEN [excluded |-> TRUE] ELSE e[p]]

Full(e) == config.mode = "count" /\ Cardinality({p \in People : e[p] # Null}) >= config.full

(* An administrator may draw at any time, the maintenance tick when due.   *)
Draw ==
  /\ state = "published" /\ Settle(entries)
  /\ UNCHANGED <<config, revision, pub, closed, joins, challenge, moneyVars, worldVars>>

TimedDraw ==
  /\ state = "published" /\ (closed \/ Full(entries)) /\ Settle(entries)
  /\ UNCHANGED <<config, revision, pub, closed, joins, challenge, moneyVars, worldVars>>

(* Cancelling gives every entrant's fee back to the account that paid it.  *)
Owed == {p \in Entrants : paid[p] # Null /\ refunds[p] = Null}

Cancel ==
  /\ state = "published" /\ state' = "cancelled"
  /\ refunds' = [p \in People |-> IF p \in Owed THEN paid[p] ELSE refunds[p]]
  /\ balance' = [a \in Accounts |->
       balance[a] + MapThenSumSet(LAMBDA p : paid[p].fee, {p \in Owed : paid[p].account = a})]
  /\ UNCHANGED <<config, revision, pub, closed, entries, awards, drawn, joins, challenge, paid, worldVars>>

-----------------------------------------------------------------------------
(* A join reads the row, waits for Telegram's word that the person is in   *)
(* the group, reads the thresholds, waits for the captcha, and only then   *)
(* runs its transaction.                                                   *)

Accepting == state = "published" /\ ~closed
Audience(p) ==
  CASE config.audience = "all" -> TRUE
    [] config.audience = "member" -> p \in Registered
    [] OTHER -> p \notin Registered
PrizeFor(p) ==
  \E i \in DOMAIN config.prizes : p \in Eligible(config.prizes[i], Registered)

JoinAsks(c, p) ==
  /\ joins[c] = Null /\ entries[p] = Null /\ Accepting
  /\ joins' = [joins EXCEPT ![c] = [person |-> p, step |-> "member", gate |-> Null]]
  /\ UNCHANGED <<rowVars, entries, awards, drawn, challenge, moneyVars, worldVars>>

(* A challenge is issued, and a new one replaces one that is spent.        *)
Challenge(p) ==
  /\ challenge[p].state \in {"none", "consumed", "verifying"} /\ Accepting /\ entries[p] = Null
  /\ challenge' = [challenge EXCEPT ![p] = [state |-> "issued", holder |-> Null]]
  /\ UNCHANGED <<rowVars, entries, awards, drawn, joins, moneyVars, worldVars>>

(* Telegram answered: the threshold is read for the account bound now and  *)
(* the challenge is reserved for this call alone.                          *)
JoinVerifies(c) ==
  /\ joins[c] # Null /\ joins[c].step = "member"
  /\ LET p == joins[c].person IN
     /\ challenge[p].state = "issued"
     /\ challenge' = [challenge EXCEPT ![p] = [state |-> "verifying", holder |-> c]]
     /\ joins' = [joins EXCEPT ![c] = [@ EXCEPT !.step = "captcha",
                                                !.gate = IF config.gated THEN bound[p] ELSE Null]]
  /\ UNCHANGED <<rowVars, entries, awards, drawn, moneyVars, worldVars>>

Admissible(p, gate) ==
  /\ Accepting /\ entries[p] = Null /\ ~Full(entries)
  /\ Audience(p) /\ PrizeFor(p)
  /\ config.gated => p \in Registered /\ bound[p] = gate /\ balance[bound[p]] >= config.needs
  /\ config.fee > 0 => p \in Registered /\ balance[bound[p]] >= config.fee

Holds(c, p) == challenge[p].state = "verifying" /\ challenge[p].holder = c

(* Entry, debit, consumption of the challenge, exclusion of related people *)
(* and, for the last seat of a full house, the draw: one transaction.      *)
WithEntry(p) ==
  LET kin == {q \in People : entries[q] # Null /\ config.strict /\ Pair(Linked, p, q)}
  IN  [q \in People |-> IF q = p THEN [excluded |-> kin # {}]
                        ELSE IF q \in kin THEN [excluded |-> TRUE] ELSE entries[q]]

JoinCommits(c) ==
  /\ joins[c] # Null /\ joins[c].step = "captcha"
  /\ LET p == joins[c].person  gate == joins[c].gate IN
     /\ Admissible(p, gate) /\ Holds(c, p)
     /\ challenge' = [challenge EXCEPT ![p] = [state |-> "consumed", holder |-> c]]
     /\ IF config.fee > 0
        THEN /\ paid' = [paid EXCEPT ![p] = [account |-> bound[p], fee |-> config.fee]]
             /\ balance' = [balance EXCEPT ![bound[p]] = @ - config.fee]
        ELSE UNCHANGED <<paid, balance>>
     /\ \/ Full(WithEntry(p)) /\ Settle(WithEntry(p))
        \/ /\ ~Full(WithEntry(p))
           /\ entries' = WithEntry(p) /\ UNCHANGED <<state, awards, drawn>>
  /\ joins' = [joins EXCEPT ![c] = Null]
  /\ UNCHANGED <<config, revision, pub, closed, refunds, worldVars>>

(* Any refusal, timeout or lost connection ends the join with nothing.     *)
JoinEnds(c) ==
  /\ joins[c] # Null
  /\ joins' = [joins EXCEPT ![c] = Null]
  /\ UNCHANGED <<rowVars, entries, awards, drawn, challenge, moneyVars, worldVars>>

-----------------------------------------------------------------------------
(* Awards are delivered one by one, each in a transaction of its own.      *)

PrizeOf(a) == config.prizes[a.prize]
Deliverable == {a \in awards : a.state \in {"pending", "binding", "failed"}}
Becomes(a, s, to) == awards' = (awards \ {a}) \cup {[a EXCEPT !.state = s, !.to = to]}

Deliver(a) ==
  LET prize == PrizeOf(a)  account == bound[a.person] IN
  /\ a \in Deliverable
  /\ \/ /\ prize.kind = "manual"
        /\ Becomes(a, "manual", Null) /\ UNCHANGED <<balance, admitted>>
     \/ /\ prize.kind = "registration" /\ account # Null
        /\ Becomes(a, "blocked", Null) /\ UNCHANGED <<balance, admitted>>
     \/ /\ prize.kind = "registration" /\ account = Null /\ channel
        /\ admitted' = admitted \cup {a.person}
        /\ Becomes(a, "delivered", Null) /\ UNCHANGED balance
     \/ /\ prize.kind = "registration" /\ account = Null /\ ~channel
        /\ Becomes(a, "failed", Null) /\ UNCHANGED <<balance, admitted>>
     \/ /\ prize.kind = "points" /\ account = Null
        /\ Becomes(a, "binding", Null) /\ UNCHANGED <<balance, admitted>>
     \/ /\ prize.kind = "points" /\ account # Null
        /\ balance' = [balance EXCEPT ![account] = @ + prize.amount]
        /\ Becomes(a, "delivered", account) /\ UNCHANGED admitted
  /\ UNCHANGED <<rowVars, entries, drawn, joins, challenge, paid, refunds, bound, channel,
                 bindings, faults>>

(* A transaction that raised was rolled back; the award is tried again.    *)
DeliverFails(a) ==
  /\ a \in Deliverable /\ faults < MaxFaults /\ faults' = faults + 1
  /\ Becomes(a, "failed", Null)
  /\ UNCHANGED <<rowVars, entries, drawn, joins, challenge, moneyVars, bound, channel, admitted,
                 bindings>>

ConfirmManual(a) ==
  /\ a \in awards /\ PrizeOf(a).kind = "manual" /\ a.state # "delivered"
  /\ Becomes(a, "delivered", Null)
  /\ UNCHANGED <<rowVars, entries, drawn, joins, challenge, moneyVars, worldVars>>

-----------------------------------------------------------------------------
(* Accounts bind, move and leave; points are spent elsewhere.              *)

Free(a) == \A p \in People : bound[p] # a
Bind(p, a) ==
  /\ a \in Accounts /\ bound[p] = Null /\ Free(a) /\ bindings < MaxBindings
  /\ bound' = [bound EXCEPT ![p] = a] /\ bindings' = bindings + 1
  /\ admitted' = admitted \ {p}
  /\ UNCHANGED <<rowVars, entries, awards, drawn, joins, challenge, moneyVars, channel, faults>>

Unbind(p) ==
  /\ bound[p] # Null /\ bindings < MaxBindings
  /\ bound' = [bound EXCEPT ![p] = Null] /\ bindings' = bindings + 1
  /\ UNCHANGED <<rowVars, entries, awards, drawn, joins, challenge, moneyVars, channel, admitted,
                 faults>>

SwitchChannel ==
  /\ faults < MaxFaults /\ faults' = faults + 1 /\ channel' = ~channel
  /\ UNCHANGED <<rowVars, entries, awards, drawn, joins, challenge, moneyVars, bound, admitted,
                 bindings>>

Next ==
  \/ (\E c \in Configs : Save(c)) \/ Delete \/ PublishAsks \/ Publish \/ DeadlinePasses
  \/ Draw \/ TimedDraw \/ Cancel
  \/ \E c \in Calls : (\E p \in People : JoinAsks(c, p)) \/ JoinVerifies(c) \/ JoinCommits(c) \/ JoinEnds(c)
  \/ \E p \in People : Challenge(p) \/ Unbind(p) \/ (\E a \in Accounts : Bind(p, a))
  \/ \E a \in awards : Deliver(a) \/ DeliverFails(a) \/ ConfirmManual(a)
  \/ SwitchChannel

(* The maintenance tick draws what is due and delivers what is pending.    *)
Fairness ==
  /\ WF_vars(TimedDraw)
  /\ WF_vars(\E a \in awards : a.state \in {"pending", "failed"} /\ Deliver(a))

Spec == Init /\ [][Next]_vars
FairSpec == Spec /\ Fairness

-----------------------------------------------------------------------------
(* Every account owns what it had, less the fees of entries that were not  *)
(* refunded, plus the awards it was delivered: each fee, refund and award  *)
(* is booked once, to the right account, however accounts move.            *)
FeesOf(a) == MapThenSumSet(LAMBDA p : paid[p].fee,
               {p \in People : paid[p] # Null /\ refunds[p] = Null /\ paid[p].account = a})
WonBy(a) == MapThenSumSet(LAMBDA w : PrizeOf(w).amount,
               {w \in awards : w.state = "delivered" /\ w.to = a})
PointsExact == \A a \in Accounts : balance[a] = Points - FeesOf(a) + WonBy(a) /\ balance[a] >= 0

(* A cancelled lottery has no winner and owes nobody; a lottery that was   *)
(* drawn gave nothing back.                                                *)
CancelledOrDrawn ==
  /\ state = "cancelled" => awards = {} /\ Owed = {}
  /\ state = "settled" => \A p \in People : refunds[p] = Null

(* Nobody wins twice, nobody excluded or ineligible wins, no prize is      *)
(* given more often than promised, and a prize is withheld only when       *)
(* nobody was left who could have had it.                                  *)
Winners(i) == {w.person : w \in {x \in awards : x.prize = i}}
FairDraw ==
  state = "settled" =>
    /\ Cardinality({w.person : w \in awards}) = Cardinality(awards)
    /\ \A i \in DOMAIN config.prizes :
         LET prize == config.prizes[i]
             losers == Entrants \ {w.person : w \in awards}
         IN  /\ Cardinality(Winners(i)) <= prize.quantity
             /\ Winners(i) \subseteq {p \in Entrants \cap Eligible(prize, drawn) : ~entries[p].excluded}
             /\ Cardinality(Winners(i)) < prize.quantity =>
                  \A p \in losers \cap Eligible(prize, drawn) : entries[p].excluded
    /\ config.strict => \A p, q \in Entrants : Pair(Linked, p, q) => p \notin {w.person : w \in awards}

(* What is published is the draft as it stands, not as the publication saw *)
(* it before it waited for Telegram.                                       *)
AsStored == state = "draft" /\ state' = "published" => config' = config

(* A lottery past its deadline or full is drawn, and every award ends up   *)
(* delivered or with somebody who has to act.                              *)
Waiting == state = "published" /\ (closed \/ Full(entries))
AllAnswered == \A a \in awards : \/ a.state \notin {"pending", "failed"}
                                 \/ PrizeOf(a).kind = "registration" /\ ~channel
=============================================================================
