----------------------------- MODULE Inventory -----------------------------
(***************************************************************************)
(* The shop and the bag (shop.py, inventory.py, whitelist_cards.py): a     *)
(* purchase charges points and adds a card in one transaction; a used card *)
(* gives a right that expires on its own; the housekeeping loop takes an   *)
(* expired right back, first in the database and then at the media server. *)
(* Of the cards, "boost" stands for bandwidth and streams cards.           *)
(***************************************************************************)
EXTENDS Integers, FiniteSets, SequencesExt, FiniteSetsExt

CONSTANTS
  Users,            \* members
  Groups, White,    \* ordinary groups, and the whitelist group
  Null,
  Kinds,            \* a subset of {"boost", "invite", "white"}
  Prices,           \* what an item may cost
  Limit,            \* purchases of one item per member
  Points,           \* what every member starts with
  BoostCap,         \* how many boosts may run together
  Levels,           \* the level system is on, and edits of a member run in a transaction
  Days,             \* how long a card runs; 0 is for ever (never for a boost)
  MaxTime, MaxCards, MaxRevision,
  MaxFaults         \* bound on the crashes of the process and failures of the media server

\* The rows of whitelist_card_grants.
Grants == [previous : Groups, rev : Nat, status : {"active", "restored", "protected"}, synced : BOOLEAN,
           expires : Nat \cup {Null}]

ASSUME InventoryAssumption ==
  /\ White \notin Groups /\ Null \notin Groups \cup {White} \cup Nat \cup Grants
  /\ Null # TRUE /\ Null # FALSE
  /\ Kinds \subseteq {"boost", "invite", "white"} /\ Prices \subseteq Nat \ {0}
  /\ {Limit, Points, BoostCap, MaxTime, MaxCards, MaxRevision, MaxFaults} \subseteq Nat /\ Days \subseteq Nat
  /\ Levels \in BOOLEAN

VARIABLES
  clock,
  points,    \* the balances
  price,     \* the catalogue: what a card costs at present, Null when none is on sale
  orders,    \* the shop_orders rows, each with its receipt
  bag,       \* the inventory rows
  group,     \* the members' group_id with its revision
  due,       \* history: the group a member has apart from his cards, and until when they lift him
  exists,    \* the ordinary groups there are
  grant,     \* the whitelist_card_grants row of a member
  quota,     \* invitations
  remote,    \* what the media server enforces: the boosts it counts, and the revision it knows
  job,       \* the rights reconcile() is taking back
  faults,    \* failures and crashes so far
  edit       \* the operator's edit of a member that has read his row and not yet written it
vars == <<clock, points, price, orders, bag, group, due, exists, grant, quota, remote, job, edit, faults>>

Rows == 1..Len(bag)
Passed(expires) == expires # Null /\ expires <= clock
Until(from, days) == IF days = 0 THEN Null ELSE from + days

\* contributions: the boosts of a member that have not expired.
Boosts(u) == {i \in Rows : /\ bag[i].owner = u /\ bag[i].kind = "boost"
                           /\ bag[i].used /\ ~Passed(bag[i].expires)}

Init ==
  /\ clock = 0 /\ points = [u \in Users |-> Points]
  /\ price \in Prices
  /\ orders = <<>> /\ bag = <<>>
  /\ \E g \in [Users -> Groups] :
       /\ group = [u \in Users |-> [id |-> g[u], rev |-> 0]]
       /\ due = [u \in Users |-> [group |-> g[u], until |-> 0]]
  /\ exists = Groups /\ grant = [u \in Users |-> Null] /\ quota = [u \in Users |-> 0]
  /\ remote = [u \in Users |-> [boosts |-> {}, rev |-> 0]] /\ job = Null /\ edit = Null /\ faults = 0

-----------------------------------------------------------------------------
(* The shop.                                                               *)

Bought(u, k) == {i \in 1..Len(orders) : orders[i].user = u /\ orders[i].kind = k}

Unlocked == Levels => edit = Null

\* redeem: the member confirmed the price he saw; a request, new or sent again, that has its receipt is
\* answered from it and changes nothing.
Redeem(u, k, req, seen) ==
  /\ Unlocked
  /\ req \notin {orders[i].req : i \in 1..Len(orders)}
  /\ price = seen /\ seen # Null
  /\ Cardinality(Bought(u, k)) < Limit
  /\ points[u] >= seen /\ Len(bag) < MaxCards
  /\ points' = [points EXCEPT ![u] = @ - seen]
  /\ bag' = Append(bag, [owner |-> u, kind |-> k, used |-> FALSE, expires |-> Null, synced |-> FALSE])
  /\ orders' = Append(orders, [user |-> u, kind |-> k, req |-> req, cost |-> seen, card |-> Len(bag) + 1])
  /\ UNCHANGED <<clock, price, group, due, exists, grant, quota, remote, job, edit, faults>>

\* The operator changes, retires or restores an item.
UpdateItem == \E p \in Prices \cup {Null} :
  /\ p # price /\ price' = p
  /\ UNCHANGED <<clock, points, orders, bag, group, due, exists, grant, quota, remote, job, edit, faults>>

-----------------------------------------------------------------------------
(* The whitelist group as a card owns it: only at the revision the card    *)
(* wrote; any later choice of the operator, even of the same group, wins.  *)

OwnedUntilMoved(u) == grant[u] # Null /\ grant[u].status = "active" /\ group[u].id = White
Owned(u) == /\ grant[u] # Null /\ grant[u].status = "active"
            /\ group[u] = [id |-> White, rev |-> grant[u].rev]

\* project_authoritative_group: an expired card gives nothing, restored or not.
Effective(u) == IF Owned(u) /\ Passed(grant[u].expires) THEN grant[u].previous ELSE group[u].id

Restorable(u) == Owned(u) => grant[u].previous \in exists

\* _restore_local, on one member's rows.
RestoredGroup(u) == IF Owned(u) THEN [id |-> grant[u].previous, rev |-> group[u].rev + 1] ELSE group[u]
RestoredGrant(u) == IF Owned(u) THEN [grant[u] EXCEPT !.status = "restored", !.synced = FALSE]
                    ELSE [grant[u] EXCEPT !.status = "protected", !.synced = TRUE]

\* activate: a running card is prolonged and keeps the group it will give back.
Activate(u, i, days) ==
  LET lapsed == grant[u] # Null /\ grant[u].status = "active" /\ Passed(grant[u].expires)
      now == IF lapsed THEN RestoredGroup(u) ELSE group[u]
      running == Owned(u) /\ ~lapsed
  IN /\ lapsed => Restorable(u)
     /\ now.id = White => running /\ grant[u].expires # Null
     /\ group' = [group EXCEPT ![u] = [id |-> White, rev |-> now.rev + 1]]
     /\ grant' = [grant EXCEPT ![u] =
          [previous |-> IF running THEN grant[u].previous ELSE now.id,
           rev |-> now.rev + 1, status |-> "active", synced |-> FALSE,
           expires |-> Until(IF running THEN grant[u].expires ELSE clock, days)]]
     /\ due' = [due EXCEPT ![u].until = Until(IF Passed(@) THEN clock ELSE @, days)]
     /\ bag' = [bag EXCEPT ![i].used = TRUE, ![i].expires = grant'[u].expires]

\* use: a used card answers with its result; what it gives runs from now.
Use(i) == \E days \in Days : LET u == bag[i].owner IN
  /\ Unlocked /\ ~bag[i].used /\ group[u].rev < MaxRevision
  /\ UNCHANGED <<clock, points, price, orders, exists, remote, job, edit, faults>>
  /\ \/ /\ bag[i].kind = "boost" /\ days > 0 /\ Cardinality(Boosts(u)) < BoostCap
        /\ bag' = [bag EXCEPT ![i].used = TRUE, ![i].expires = clock + days]
        /\ UNCHANGED <<group, grant, due, quota>>
     \/ /\ bag[i].kind = "invite" /\ days = 0
        /\ quota' = [quota EXCEPT ![u] = @ + 1]
        /\ bag' = [bag EXCEPT ![i].used = TRUE, ![i].synced = TRUE]
        /\ UNCHANGED <<group, grant, due>>
     \/ bag[i].kind = "white" /\ Activate(u, i, days) /\ UNCHANGED quota

-----------------------------------------------------------------------------
(* reconcile_expired, and reconcile of the whitelist before it: what is due *)
(* is taken back, the media server is asked with no lock held, and the      *)
(* answer is written down.  A failure stays due.                           *)

DueBoostsOnTime(u) == {i \in Rows : /\ bag[i].owner = u /\ bag[i].kind = "boost" /\ bag[i].used
                                    /\ bag[i].expires = clock /\ ~bag[i].synced}
DueBoosts(u) == {i \in Rows : /\ bag[i].owner = u /\ bag[i].kind = "boost" /\ bag[i].used
                              /\ Passed(bag[i].expires) /\ ~bag[i].synced}

TakeBoosts(u) ==
  /\ job = Null /\ DueBoosts(u) # {}
  /\ job' = [user |-> u, cards |-> DueBoosts(u), rev |-> Null, ok |-> Null]
  /\ UNCHANGED <<clock, points, price, orders, bag, group, due, exists, grant, quota, remote, edit, faults>>

WhiteDue(u) == /\ grant[u] # Null
               /\ \/ grant[u].status = "active" /\ Passed(grant[u].expires)
                  \/ grant[u].status = "restored" /\ ~grant[u].synced

\* A group that is gone cannot be given back: the attempt fails and is due again.
TakeWhite(u) ==
  /\ Unlocked /\ job = Null /\ WhiteDue(u) /\ group[u].rev < MaxRevision
  /\ UNCHANGED <<clock, points, price, orders, bag, due, exists, quota, remote, edit, faults>>
  /\ LET work == [user |-> u, cards |-> {}, rev |-> grant[u].rev, ok |-> Null] IN
     \/ /\ grant[u].status = "active" /\ Restorable(u)
        /\ group' = [group EXCEPT ![u] = RestoredGroup(u)]
        /\ grant' = [grant EXCEPT ![u] = RestoredGrant(u)]
        /\ job' = IF Owned(u) THEN work ELSE Null
     \/ /\ grant[u].status = "active" /\ ~Restorable(u)
        /\ job' = [work EXCEPT !.ok = FALSE] /\ UNCHANGED <<group, grant>>
     \/ grant[u].status = "restored" /\ job' = work /\ UNCHANGED <<group, grant>>

\* sync_effects: the media server learns what the member has at this moment, or not.
SyncEffects(ok) ==
  /\ job # Null /\ job.ok = Null
  /\ ok \/ faults < MaxFaults
  /\ faults' = IF ok THEN faults ELSE faults + 1
  /\ remote' = IF ok THEN [remote EXCEPT ![job.user] =
                             [boosts |-> Boosts(job.user), rev |-> group[job.user].rev]]
               ELSE remote
  /\ job' = [job EXCEPT !.ok = ok]
  /\ UNCHANGED <<clock, points, price, orders, bag, group, due, exists, grant, quota, edit>>

\* The grant is marked only if no renewal has replaced it in the meantime.
Mark ==
  /\ Unlocked /\ job # Null /\ job.ok # Null /\ job' = Null
  /\ bag' = [i \in Rows |-> IF i \in job.cards THEN [bag[i] EXCEPT !.synced = job.ok] ELSE bag[i]]
  /\ LET g == grant[job.user] IN
     grant' = IF job.rev # Null /\ g.rev = job.rev /\ g.status \in {"active", "restored"}
              THEN [grant EXCEPT ![job.user].synced = job.ok] ELSE grant
  /\ UNCHANGED <<clock, points, price, orders, group, due, exists, quota, remote, edit, faults>>

Crash ==
  /\ job # Null /\ job' = Null /\ faults < MaxFaults /\ faults' = faults + 1
  /\ UNCHANGED <<clock, points, price, orders, bag, group, due, exists, grant, quota, remote, edit>>

-----------------------------------------------------------------------------
\* The other writers of a member's rights: the bot's own push after a card was used,
\* the operator's choice of a group, and the deletion of a group nobody is in.
Push(u) ==
  /\ remote' = [remote EXCEPT ![u] = [boosts |-> Boosts(u), rev |-> group[u].rev]]
  /\ UNCHANGED <<clock, points, price, orders, bag, group, due, exists, grant, quota, job, edit, faults>>


\* upsert reads the member's row and writes all of it back, under one lock only when
\* the level system is on.  An edit that names a group takes the next revision; one
\* that does not writes the group it has read.
ReadRow(u) == \E g \in exists \cup {White, Null} :
  /\ edit = Null /\ group[u].rev < MaxRevision
  /\ edit' = [user |-> u, named |-> g # Null, group |-> IF g = Null THEN group[u].id ELSE g]
  /\ UNCHANGED <<clock, points, price, orders, bag, group, due, exists, grant, quota, remote, job, faults>>

WriteRow ==
  /\ edit # Null /\ edit' = Null
  /\ LET u == edit.user IN
     /\ group' = [group EXCEPT ![u] = [id |-> edit.group, rev |-> @.rev + IF edit.named THEN 1 ELSE 0]]
     /\ due' = IF edit.named THEN [due EXCEPT ![u] = [group |-> edit.group, until |-> 0]] ELSE due
  /\ UNCHANGED <<clock, points, price, orders, bag, exists, grant, quota, remote, job, faults>>

DeleteGroup(g) ==
  /\ Unlocked /\ g \in exists /\ (\A u \in Users : group[u].id # g) /\ exists' = exists \ {g}
  /\ UNCHANGED <<clock, points, price, orders, bag, group, due, grant, quota, remote, job, edit, faults>>

Tick == /\ clock < MaxTime /\ clock' = clock + 1
        /\ UNCHANGED <<points, price, orders, bag, group, due, exists, grant, quota, remote, job, edit, faults>>

Reconcile == \/ \E u \in Users : TakeBoosts(u) \/ TakeWhite(u)
             \/ \E ok \in BOOLEAN : SyncEffects(ok)
             \/ Mark
Next ==
  \/ Reconcile \/ Crash \/ Tick \/ UpdateItem \/ WriteRow
  \/ \E u \in Users, k \in Kinds, req \in 1..Len(orders) + 1, seen \in Prices : Redeem(u, k, req, seen)
  \/ \E i \in Rows : Use(i)
  \/ \E u \in Users : Push(u) \/ ReadRow(u)
  \/ \E g \in Groups : DeleteGroup(g)

Spec == Init /\ [][Next]_vars

\* The housekeeping loop comes round for ever, after a crash too, and edits are short.
FairSpec == /\ Spec /\ WF_vars(WriteRow) /\ WF_vars(\E ok \in BOOLEAN : SyncEffects(ok)) /\ SF_vars(Mark)
            /\ \A u \in Users : SF_vars(TakeBoosts(u)) /\ SF_vars(TakeWhite(u))

-----------------------------------------------------------------------------
(* Every point spent bought a card, and nobody spends more than he has.    *)
PointsAccounted ==
  \A u \in Users :
     points[u] + MapThenSumSet(LAMBDA i : IF orders[i].user = u THEN orders[i].cost ELSE 0,
                               1..Len(orders)) = Points

(* No member buys more of a kind than the limit or runs more boosts than   *)
(* the cap, and he has an invitation for each card used for one.           *)
Invited(u) == {i \in Rows : bag[i].owner = u /\ bag[i].kind = "invite" /\ bag[i].used}
WithinLimits ==
  \A u \in Users : /\ points[u] >= 0 /\ Cardinality(Boosts(u)) <= BoostCap
                   /\ quota[u] = Cardinality(Invited(u))
                   /\ \A k \in Kinds : Cardinality(Bought(u, k)) <= Limit

(* A request, however often it is sent, bought one card, and every card in *)
(* a bag was bought by one.                                                *)
OneOrderEach ==
  /\ \A i, j \in 1..Len(orders) : i # j => orders[i].req # orders[j].req
  /\ Len(orders) = Len(bag) /\ \A i \in Rows : orders[i].card = i

PaidForOnce == PointsAccounted /\ WithinLimits /\ OneOrderEach

(* Whatever the order of cards, expiries, retries, crashes and choices of  *)
(* the operator, a member counts as whitelisted exactly while he is due to *)
(* be: by an unexpired card, or by the operator; otherwise he has the group *)
(* the operator gave him last.                                             *)
Due(u) == IF Passed(due[u].until) THEN due[u].group ELSE White
WhitelistExact == \A u \in Users : Effective(u) = Due(u)

(* A right marked as taken back really is: the media server has been told  *)
(* since, and no mark of a late answer covers a renewal made meanwhile.    *)
SyncedIsRevoked ==
  /\ \A i \in Rows : bag[i].kind = "boost" /\ bag[i].synced => i \notin remote[bag[i].owner].boosts
  /\ \A u \in Users : grant[u] # Null /\ grant[u].status = "restored" /\ grant[u].synced
                         => remote[u].rev > grant[u].rev

(* An expired boost is taken back at the media server, and a card's group   *)
(* that can be given back is given back.                                   *)
Lapsed(i) == i \in Rows /\ bag[i].kind = "boost" /\ bag[i].used /\ Passed(bag[i].expires)
TakenBack(i) == i \in Rows /\ bag[i].synced /\ i \notin remote[bag[i].owner].boosts
WhiteLapsed(u) == WhiteDue(u) /\ Restorable(u) /\ group[u].rev < MaxRevision
=============================================================================
