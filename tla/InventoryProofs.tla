-------------------------- MODULE InventoryProofs --------------------------
(***************************************************************************)
(* With the level system on, a member counts as whitelisted exactly while  *)
(* he is due to be, for any members, groups, cards, terms and revisions,   *)
(* and however expiries, renewals, late marks, crashes and the operator's  *)
(* choices fall together.                                                  *)
(*                                                                         *)
(* A card owns the group only at the revision it wrote.  While it does,    *)
(* the row agrees with what is due to the member in both the expiry and    *)
(* the group to give back (Lifted); while it does not, his group is the    *)
(* one he has apart from his cards, and no card is due to lift him         *)
(* (Plain).  Two things keep that true: a revision is never used again     *)
(* (Revisions), and an edit that names no group writes back the one the    *)
(* member still has (Current), which holds because nothing else may move   *)
(* him while it is open.                                                   *)
(*                                                                         *)
(* Two more parts follow, with or without the level system: a card that is *)
(* marked as revoked has been taken from the media server (RevokedInv),    *)
(* and the shop keeps its limits and takes one order a request (LimitInv). *)
(***************************************************************************)
EXTENDS Inventory, SequenceTheorems, FiniteSetTheorems, TLAPS

Places == Groups \cup {White}
Expiries == Nat \cup {Null}

Columns ==
  /\ clock \in Nat /\ exists \subseteq Groups
  /\ group \in [Users -> [id : Places, rev : Nat]]
  /\ due \in [Users -> [group : Places, until : Expiries]]
  /\ grant \in [Users -> Grants \cup {Null}]
  /\ edit # Null => edit.user \in Users /\ edit.group \in Places

\* What the media server was asked about a grant is about one there is.
Asked == job # Null => /\ "ok" \in DOMAIN job /\ job.ok \in BOOLEAN \cup {Null}
                       /\ job.rev # Null => job.user \in Users /\ grant[job.user] # Null

Revisions == \A u \in Users : grant[u] # Null => grant[u].rev <= group[u].rev

Lifted == \A u \in Users : Owned(u) => due[u].group = grant[u].previous /\ due[u].until = grant[u].expires

Plain == \A u \in Users : ~Owned(u) => Passed(due[u].until) /\ due[u].group = group[u].id

Current == edit # Null => edit.named \/ edit.group = group[edit.user].id

CardInv == Columns /\ Asked /\ Revisions /\ Lifted /\ Plain /\ Current

-----------------------------------------------------------------------------
(* Nobody has a card at first, and nothing is due that he does not have.   *)
LEMMA NobodyLifted == Init => CardInv
<1> SUFFICES ASSUME Init PROVE CardInv
  OBVIOUS
<1>1. PICK g \in [Users -> Groups] :
        /\ group = [u \in Users |-> [id |-> g[u], rev |-> 0]]
        /\ due = [u \in Users |-> [group |-> g[u], until |-> 0]]
  BY DEF Init
<1>2. clock = 0 /\ exists = Groups /\ grant = [u \in Users |-> Null] /\ job = Null /\ edit = Null
  BY DEF Init
<1>3. Columns
  BY <1>1, <1>2 DEF Columns, Places, Expiries
<1>4. \A u \in Users : Passed(due[u].until) /\ due[u].group = group[u].id
  BY <1>1, <1>2, InventoryAssumption DEF Passed
<1>5. QED
  BY <1>2, <1>3, <1>4 DEF CardInv, Asked, Revisions, Lifted, Plain, Current, Owned

(* With it a member counts for what he is due.                             *)
LEMMA ExactWhenLifted == CardInv => WhitelistExact
<1> SUFFICES ASSUME CardInv, NEW u \in Users PROVE Effective(u) = Due(u)
  BY DEF WhitelistExact
<1>1. CASE Owned(u)
  <2>1. due[u].group = grant[u].previous /\ due[u].until = grant[u].expires /\ group[u].id = White
    BY <1>1 DEF CardInv, Lifted, Owned
  <2>2. QED
    BY <1>1, <2>1 DEF Effective, Due, Passed
<1>2. CASE ~Owned(u)
  BY <1>2 DEF CardInv, Plain, Effective, Due
<1>3. QED
  BY <1>1, <1>2

-----------------------------------------------------------------------------
cards == <<clock, exists, group, due, grant, edit>>

(* Purchases, boosts, invitations and the media server touch none of it.   *)
LEMMA CardFrame ==
  ASSUME CardInv, UNCHANGED cards, Asked'
  PROVE  CardInv'
BY DEF cards, CardInv, Columns, Revisions, Lifted, Plain, Current, Owned, Passed

(* What Owned says of a grant r and a group g.                             *)
Owns(r, g) == r # Null /\ r.status = "active" /\ g = [id |-> White, rev |-> r.rev]

(* One member's rows are replaced; the rest follows for him alone.         *)
LEMMA OneMember ==
  ASSUME CardInv, NEW u \in Users, NEW g \in [id : Places, rev : Nat], NEW r \in Grants \cup {Null},
         NEW d \in [group : Places, until : Expiries],
         group' = [group EXCEPT ![u] = g], grant' = [grant EXCEPT ![u] = r], due' = [due EXCEPT ![u] = d],
         UNCHANGED <<clock, exists>>, edit' = Null,
         Asked',
         r # Null => r.rev <= g.rev,
         Owns(r, g) => d.group = r.previous /\ d.until = r.expires,
         ~Owns(r, g) => Passed(d.until) /\ d.group = g.id
  PROVE  CardInv'
<1>1. /\ group' \in [Users -> [id : Places, rev : Nat]] /\ grant' \in [Users -> Grants \cup {Null}]
      /\ due' \in [Users -> [group : Places, until : Expiries]]
  BY DEF CardInv, Columns
<1>2. Columns'
  BY <1>1 DEF CardInv, Columns
<1>3. /\ group'[u] = g /\ grant'[u] = r /\ due'[u] = d
      /\ \A v \in Users \ {u} : group'[v] = group[v] /\ grant'[v] = grant[v] /\ due'[v] = due[v]
  BY DEF CardInv, Columns
<1>4. \A e : Passed(e)' = Passed(e)
  BY DEF Passed
<1>5. Revisions'
  BY <1>3 DEF CardInv, Revisions
<1>6. \A v \in Users \ {u} : Owned(v)' <=> Owned(v)
  BY <1>3 DEF Owned
<1>7. Owned(u)' <=> Owns(r, g)
  BY <1>3 DEF Owned, Owns
<1>8. Lifted'
  BY <1>3, <1>6, <1>7 DEF CardInv, Lifted
<1>9. Plain'
  BY <1>3, <1>4, <1>6, <1>7 DEF CardInv, Plain
<1>10. QED
  BY <1>2, <1>5, <1>8, <1>9 DEF CardInv, Current

(* What is written on a grant leaves the rest of it.                       *)
LEMMA GrantMarked ==
  ASSUME NEW r \in Grants, NEW b \in BOOLEAN
  PROVE  /\ [r EXCEPT !.synced = b] \in Grants
         /\ [r EXCEPT !.synced = b].status = r.status /\ [r EXCEPT !.synced = b].rev = r.rev
         /\ [r EXCEPT !.synced = b].previous = r.previous /\ [r EXCEPT !.synced = b].expires = r.expires
BY DEF Grants

LEMMA GrantClosed ==
  ASSUME NEW r \in Grants, NEW s \in {"restored", "protected"}, NEW b \in BOOLEAN
  PROVE  /\ [r EXCEPT !.status = s, !.synced = b] \in Grants
         /\ [r EXCEPT !.status = s, !.synced = b].status = s
         /\ [r EXCEPT !.status = s, !.synced = b].rev = r.rev
BY DEF Grants

LEMMA GivenBack ==
  ASSUME NEW u, grant[u] \in Grants
  PROVE  /\ RestoredGrant(u) \in Grants /\ RestoredGrant(u).rev = grant[u].rev
         /\ RestoredGrant(u).status = IF Owned(u) THEN "restored" ELSE "protected"
         /\ Owned(u) => ~RestoredGrant(u).synced
<1>1. CASE Owned(u)
  <2> DEFINE r == [grant[u] EXCEPT !.status = "restored", !.synced = FALSE]
  <2>1. RestoredGrant(u) = r
    BY <1>1 DEF RestoredGrant
  <2>2. r \in Grants /\ r.rev = grant[u].rev /\ r.status = "restored"
    BY GrantClosed
  <2>3. ~r.synced
    BY DEF Grants
  <2> HIDE DEF r
  <2>4. QED
    BY <1>1, <2>1, <2>2, <2>3
<1>2. CASE ~Owned(u)
  <2> DEFINE r == [grant[u] EXCEPT !.status = "protected", !.synced = TRUE]
  <2>1. RestoredGrant(u) = r
    BY <1>2 DEF RestoredGrant
  <2>2. r \in Grants /\ r.rev = grant[u].rev /\ r.status = "protected"
    BY GrantClosed
  <2> HIDE DEF r
  <2>3. QED
    BY <1>2, <2>1, <2>2
<1>3. QED
  BY <1>1, <1>2

(* A row of no member changes nothing.                                     *)
LEMMA Stranger ==
  ASSUME NEW f, NEW S, NEW u, NEW x, f = [v \in S |-> f[v]], u \notin S
  PROVE  [f EXCEPT ![u] = x] = f
OBVIOUS

-----------------------------------------------------------------------------
(* A card is used: a running one is prolonged and keeps the group to give  *)
(* back, otherwise that is the group the member has, or, if a card of his  *)
(* has just run out, the one it owes him.                                  *)
LEMMA ActivateStep ==
  ASSUME CardInv, NEW u, NEW i, NEW days \in Days, Activate(u, i, days), edit = Null,
         UNCHANGED <<clock, exists, job, edit>>
  PROVE  CardInv'
<1> DEFINE lapsed  == grant[u] # Null /\ grant[u].status = "active" /\ Passed(grant[u].expires)
           now     == IF lapsed THEN RestoredGroup(u) ELSE group[u]
           running == Owned(u) /\ ~lapsed
           g == [id |-> White, rev |-> now.rev + 1]
           r == [previous |-> IF running THEN grant[u].previous ELSE now.id,
                 rev |-> now.rev + 1, status |-> "active", synced |-> FALSE,
                 expires |-> Until(IF running THEN grant[u].expires ELSE clock, days)]
           d == [due[u] EXCEPT !.until = Until(IF Passed(@) THEN clock ELSE @, days)]
<1>1. /\ group' = [group EXCEPT ![u] = g] /\ grant' = [grant EXCEPT ![u] = r]
      /\ due' = [due EXCEPT ![u].until = Until(IF Passed(@) THEN clock ELSE @, days)]
      /\ now.id = White => running /\ grant[u].expires # Null
  BY DEF Activate
<1>2. due' = [due EXCEPT ![u] = d]
  BY <1>1
<1>3. CASE u \notin Users
  <2>1. group' = group /\ grant' = grant /\ due' = due
    BY <1>1, <1>2, <1>3, Stranger DEF CardInv, Columns
  <2>2. QED
    BY <2>1, CardFrame DEF cards, CardInv, Asked
<1>4. CASE u \in Users
  <2>1. /\ group[u] \in [id : Places, rev : Nat] /\ grant[u] \in Grants \cup {Null}
        /\ due[u] \in [group : Places, until : Expiries] /\ clock \in Nat /\ days \in Nat
    BY <1>4, InventoryAssumption DEF CardInv, Columns
  <2>2. now \in [id : Places, rev : Nat] /\ (now.id # White => now.id \in Groups)
    BY <2>1 DEF RestoredGroup, Owned, Grants, Places
  <2>3. running => /\ ~Passed(grant[u].expires) /\ due[u].until = grant[u].expires
                   /\ due[u].group = grant[u].previous /\ now = group[u] /\ now.id = White
    BY <1>4 DEF CardInv, Lifted, Owned
  <2>4. ~running => Passed(due[u].until) /\ due[u].group = now.id
    <3>1. CASE Owned(u)
      BY <1>4, <3>1 DEF CardInv, Lifted, RestoredGroup, Owned
    <3>2. CASE ~Owned(u)
      BY <1>4, <3>2 DEF CardInv, Plain, RestoredGroup
    <3>3. QED
      BY <3>1, <3>2
  <2>5. d.until = r.expires /\ d.group = r.previous /\ r.rev <= g.rev
    <3>1. r.rev <= g.rev
      BY <2>2
    <3>2. CASE running
      BY <3>1, <3>2, <2>1, <2>3
    <3>3. CASE ~running
      BY <3>1, <3>3, <2>1, <2>4
    <3>4. QED
      BY <3>2, <3>3
  <2>6. r \in Grants
    <3>1. r.previous \in Groups
      <4>1. running => grant[u].previous \in Groups
        BY <2>1 DEF Grants, Owned
      <4>2. ~running => now.id \in Groups
        BY <1>1, <2>2
      <4>3. QED
        BY <4>1, <4>2
    <3>2. r.expires \in Nat \cup {Null}
      <4>1. running => grant[u].expires \in Nat
        BY <1>1, <2>1, <2>3 DEF Grants, Owned
      <4>2. QED
        BY <2>1, <4>1 DEF Until
    <3>3. QED
      BY <2>2, <3>1, <3>2 DEF Grants
  <2>7. d \in [group : Places, until : Expiries] /\ g \in [id : Places, rev : Nat]
    BY <2>1, <2>2, <2>5, <2>6 DEF Grants, Expiries, Places
  <2>8. Owns(r, g)
    BY <2>6, InventoryAssumption DEF Owns
  <2>9. Asked'
    <3>1. \A v \in Users : grant[v] # Null => grant'[v] # Null
      BY <1>1, <2>6, InventoryAssumption DEF CardInv, Columns
    <3>2. QED
      BY <3>1 DEF CardInv, Asked
  <2> HIDE DEF g, r, d
  <2>10. QED
    BY <1>1, <1>2, <1>4, <2>5, <2>6, <2>7, <2>8, <2>9, OneMember
<1>5. QED
  BY <1>3, <1>4

(* What has run out is given back: at the next revision, or not at all when *)
(* the operator has chosen since.                                          *)
LEMMA TakeWhiteStep ==
  ASSUME CardInv, Levels, NEW u \in Users, TakeWhite(u)
  PROVE  CardInv'
<1> DEFINE work == [user |-> u, cards |-> {}, rev |-> grant[u].rev, ok |-> Null]
<1>1. /\ edit = Null /\ UNCHANGED <<clock, exists, due, edit>> /\ grant[u] # Null
      /\ grant[u].status = "active" => Passed(grant[u].expires)
  BY DEF TakeWhite, WhiteDue, Unlocked
<1>2. CASE /\ grant[u].status = "active" /\ group' = [group EXCEPT ![u] = RestoredGroup(u)]
           /\ grant' = [grant EXCEPT ![u] = RestoredGrant(u)]
           /\ job' = IF Owned(u) THEN work ELSE Null
  <2> DEFINE g == RestoredGroup(u)
             r == RestoredGrant(u)
  <2>1. /\ group[u] \in [id : Places, rev : Nat] /\ grant[u] \in Grants
        /\ due[u] \in [group : Places, until : Expiries]
    BY <1>1 DEF CardInv, Columns
  <2>2. g \in [id : Places, rev : Nat] /\ r \in Grants /\ r.status # "active" /\ r.rev <= g.rev
    <3>1. r \in Grants /\ r.status # "active" /\ r.rev = grant[u].rev
      BY <2>1, GrantClosed DEF RestoredGrant
    <3>2. g \in [id : Places, rev : Nat] /\ group[u].rev <= g.rev
      BY <2>1 DEF RestoredGroup, Grants, Places
    <3>3. grant[u].rev <= group[u].rev
      BY <1>1 DEF CardInv, Revisions
    <3>4. QED
      BY <2>1, <3>1, <3>2, <3>3 DEF Grants
  <2>3. Passed(due[u].until) /\ due[u].group = g.id
    BY <1>1, <1>2 DEF CardInv, Lifted, Plain, RestoredGroup
  <2>4. due' = [due EXCEPT ![u] = due[u]]
    BY <1>1 DEF CardInv, Columns
  <2>5. ~Owns(r, g)
    BY <2>2 DEF Owns
  <2>6. Asked'
    <3>1. grant'[u] # Null
      BY <1>2, <2>2, InventoryAssumption DEF CardInv, Columns
    <3>2. QED
      BY <1>2, <3>1 DEF Asked
  <2> HIDE DEF g, r
  <2>7. QED
    BY <1>1, <1>2, <2>1, <2>2, <2>3, <2>4, <2>5, <2>6, OneMember DEF g, r
<1>3. CASE UNCHANGED <<group, grant>> /\ job' \in {work, [work EXCEPT !.ok = FALSE]}
  <2>1. Asked'
    <3>1. CASE job' = work
      BY <1>1, <1>3, <3>1 DEF Asked
    <3>2. CASE job' = [work EXCEPT !.ok = FALSE]
      <4>1. job'.ok = FALSE
        BY <3>2
      <4>2. QED
        BY <1>1, <1>3, <3>2, <4>1 DEF Asked
    <3>3. QED
      BY <1>3, <3>1, <3>2
  <2>2. QED
    BY <1>1, <1>3, <2>1, CardFrame DEF cards
<1>4. QED
  BY <1>2, <1>3 DEF TakeWhite

(* The answer of the media server is written on the grant, which stays as  *)
(* it is in everything else.                                               *)
LEMMA MarkStep == ASSUME CardInv, Mark PROVE CardInv'
<1> DEFINE w == job.user
<1>1. /\ UNCHANGED <<clock, exists, group, due, edit>> /\ job' = Null /\ job # Null /\ job.ok \in BOOLEAN
  BY DEF Mark, CardInv, Asked
<1>2. \/ grant' = grant
      \/ job.rev # Null /\ grant' = [grant EXCEPT ![w].synced = job.ok]
  BY DEF Mark
<1>3. Asked'
  BY <1>1 DEF Asked
<1>4. CASE grant' = grant
  BY <1>1, <1>3, <1>4, CardFrame DEF cards
<1>5. CASE job.rev # Null /\ grant' = [grant EXCEPT ![w].synced = job.ok]
  <2> DEFINE r == [grant[w] EXCEPT !.synced = job.ok]
  <2>1. w \in Users /\ grant[w] \in Grants
    BY <1>1, <1>5 DEF CardInv, Columns, Asked
  <2>2. /\ r \in Grants /\ r.status = grant[w].status /\ r.rev = grant[w].rev
        /\ r.previous = grant[w].previous /\ r.expires = grant[w].expires
    BY <1>1, <2>1, GrantMarked
  <2>3. /\ grant' \in [Users -> Grants \cup {Null}] /\ grant'[w] = r
        /\ \A v \in Users \ {w} : grant'[v] = grant[v]
    BY <1>5, <2>1, <2>2 DEF CardInv, Columns
  <2> HIDE DEF r, w
  <2>4. r # Null /\ grant[w] # Null
    BY <2>1, <2>2, InventoryAssumption
  <2>5. \A v \in Users : Owned(v)' <=> Owned(v)
    BY <1>1, <2>1, <2>2, <2>3, <2>4 DEF Owned
  <2>6. \A v \in Users : grant'[v] # Null =>
          /\ grant[v] # Null /\ grant'[v].rev = grant[v].rev
          /\ grant'[v].previous = grant[v].previous /\ grant'[v].expires = grant[v].expires
    BY <2>2, <2>3, <2>4
  <2>7. Columns' /\ Revisions'
    BY <1>1, <2>3, <2>6 DEF CardInv, Columns, Revisions
  <2>8. Lifted' /\ Plain'
    BY <1>1, <2>5, <2>6 DEF CardInv, Lifted, Plain, Passed, Owned
  <2>9. QED
    BY <1>1, <1>3, <2>7, <2>8 DEF CardInv, Current
<1>6. QED
  BY <1>2, <1>4, <1>5

-----------------------------------------------------------------------------
(* The operator's edit: what he names replaces what is due and takes the    *)
(* next revision, which no card owns; what he leaves alone is written back. *)
LEMMA WriteStep == ASSUME CardInv, WriteRow PROVE CardInv'
<1> DEFINE u == edit.user
           g == [id |-> edit.group, rev |-> group[u].rev + IF edit.named THEN 1 ELSE 0]
           d == IF edit.named THEN [group |-> edit.group, until |-> 0] ELSE due[u]
<1>1. /\ edit # Null /\ edit' = Null /\ UNCHANGED <<clock, exists, grant, job>>
      /\ group' = [group EXCEPT ![u] = g]
      /\ due' = IF edit.named THEN [due EXCEPT ![u] = [group |-> edit.group, until |-> 0]] ELSE due
  BY DEF WriteRow
<1>2. /\ u \in Users /\ edit.group \in Places /\ group[u] \in [id : Places, rev : Nat]
      /\ due[u] \in [group : Places, until : Expiries] /\ grant[u] \in Grants \cup {Null} /\ clock \in Nat
  BY <1>1 DEF CardInv, Columns
<1>3. g \in [id : Places, rev : Nat] /\ d \in [group : Places, until : Expiries]
  BY <1>2 DEF Expiries
<1>4. due' = [due EXCEPT ![u] = d] /\ grant' = [grant EXCEPT ![u] = grant[u]]
  BY <1>1 DEF CardInv, Columns
<1>5. Asked'
  BY <1>1 DEF CardInv, Asked
<1>6. grant[u] # Null => grant[u].rev \in Nat /\ grant[u].rev <= group[u].rev
  BY <1>2 DEF CardInv, Revisions, Grants
<1>7. CASE edit.named
  <2>1. g.rev = group[u].rev + 1 /\ g.id = edit.group /\ d.group = edit.group /\ d.until = 0
    BY <1>7
  <2>2. ~Owns(grant[u], g) /\ (grant[u] # Null => grant[u].rev <= g.rev) /\ Passed(d.until) /\ d.group = g.id
    BY <1>2, <1>6, <2>1, InventoryAssumption DEF Owns, Passed
  <2> HIDE DEF g, d
  <2>3. QED
    BY <1>1, <1>2, <1>3, <1>4, <1>5, <2>2, OneMember
<1>8. CASE ~edit.named
  <2>1. g = group[u] /\ d = due[u]
    BY <1>1, <1>2, <1>8 DEF CardInv, Current
  <2>2. group' = group /\ due' = due
    BY <1>1, <1>8, <2>1 DEF CardInv, Columns
  <2>3. QED
    BY <1>1, <1>5, <2>2 DEF CardInv, Columns, Revisions, Lifted, Plain, Current, Owned, Passed
<1>9. QED
  BY <1>7, <1>8

(* An edit opens with the group the member has, or the one it names.        *)
LEMMA ReadStep == ASSUME CardInv, NEW u \in Users, ReadRow(u) PROVE CardInv'
<1>1. PICK g \in exists \cup {White, Null} :
        edit' = [user |-> u, named |-> g # Null, group |-> IF g = Null THEN group[u].id ELSE g]
  BY DEF ReadRow
<1>2. UNCHANGED <<clock, exists, group, due, grant, job>>
  BY DEF ReadRow
<1>3. edit'.user = u /\ (edit'.named <=> g # Null) /\ edit'.group = IF g = Null THEN group[u].id ELSE g
  BY <1>1
<1>4. edit'.group \in Places /\ (edit'.named \/ edit'.group = group[u].id)
  BY <1>3 DEF CardInv, Columns, Places
<1>5. QED
  BY <1>2, <1>3, <1>4 DEF CardInv, Columns, Asked, Revisions, Lifted, Plain, Current, Owned, Passed

(* Time only ends what is due: what has passed stays passed.                *)
LEMMA TickStep == ASSUME CardInv, Tick PROVE CardInv'
<1>1. clock \in Nat /\ clock' = clock + 1 /\ UNCHANGED <<exists, group, due, grant, edit, job>>
  BY DEF Tick, CardInv, Columns
<1>2. \A u \in Users : due[u].until \in Expiries
  BY DEF CardInv, Columns
<1>3. \A u \in Users : Passed(due[u].until) => Passed(due[u].until)'
  BY <1>1, <1>2, InventoryAssumption DEF Passed, Expiries
<1>4. Plain'
  BY <1>1, <1>3 DEF CardInv, Plain, Owned
<1>5. QED
  BY <1>1, <1>4 DEF CardInv, Columns, Asked, Revisions, Lifted, Current, Owned

LEMMA UseStep == ASSUME CardInv, Levels, NEW i, Use(i) PROVE CardInv'
<1>1. PICK days \in Days :
        \/ UNCHANGED <<group, grant, due>>
        \/ Activate(bag[i].owner, i, days)
  BY DEF Use
<1>2. edit = Null /\ UNCHANGED <<clock, exists, job, edit>>
  BY DEF Use, Unlocked
<1>3. CASE UNCHANGED <<group, grant, due>>
  BY <1>2, <1>3, CardFrame DEF cards, CardInv, Asked
<1>4. CASE Activate(bag[i].owner, i, days)
  BY <1>2, <1>4, ActivateStep
<1>5. QED
  BY <1>1, <1>3, <1>4

LEMMA ReconcileStep == ASSUME CardInv, Levels, Reconcile PROVE CardInv'
<1>1. ASSUME NEW u \in Users, TakeBoosts(u) PROVE CardInv'
  <2>1. UNCHANGED cards /\ "ok" \in DOMAIN job' /\ job'.ok = Null /\ job'.rev = Null
    BY <1>1 DEF TakeBoosts, cards
  <2>2. QED
    BY <2>1, CardFrame DEF Asked
<1>2. ASSUME NEW ok \in BOOLEAN, SyncEffects(ok) PROVE CardInv'
  <2>1. UNCHANGED cards /\ job # Null /\ job' = [job EXCEPT !.ok = ok]
    BY <1>2 DEF SyncEffects, cards
  <2>2. job'.ok = ok /\ job'.rev = job.rev /\ job'.user = job.user /\ "ok" \in DOMAIN job'
    BY <2>1 DEF CardInv, Asked
  <2>3. Asked'
    BY <2>1, <2>2 DEF CardInv, Asked, cards
  <2>4. QED
    BY <2>1, <2>3, CardFrame
<1>3. QED
  BY <1>1, <1>2, TakeWhiteStep, MarkStep DEF Reconcile

LEMMA CardStep == ASSUME CardInv, Levels, [Next]_vars PROVE CardInv'
<1>1. CASE Crash
  BY <1>1, CardFrame DEF Crash, cards, CardInv, Asked
<1>2. CASE UpdateItem
  BY <1>2, CardFrame DEF UpdateItem, cards, CardInv, Asked
<1>3. ASSUME NEW u \in Users, NEW k \in Kinds, NEW req, NEW seen, Redeem(u, k, req, seen) PROVE CardInv'
  BY <1>3, CardFrame DEF Redeem, cards, CardInv, Asked
<1>4. ASSUME NEW u \in Users, Push(u) PROVE CardInv'
  BY <1>4, CardFrame DEF Push, cards, CardInv, Asked
<1>5. ASSUME NEW g \in Groups, DeleteGroup(g) PROVE CardInv'
  <2>1. exists' = exists \ {g} /\ UNCHANGED <<clock, group, due, grant, edit, job>>
    BY <1>5 DEF DeleteGroup
  <2>2. Columns' /\ Asked'
    BY <2>1 DEF CardInv, Columns, Asked
  <2>3. QED
    BY <2>1, <2>2 DEF CardInv, Revisions, Lifted, Plain, Current, Owned, Passed
<1>6. CASE UNCHANGED vars
  BY <1>6, CardFrame DEF vars, cards, CardInv, Asked
<1>7. QED
  BY <1>1, <1>2, <1>3, <1>4, <1>5, <1>6, ReconcileStep, TickStep, WriteStep, UseStep, ReadStep DEF Next

-----------------------------------------------------------------------------
(* Whatever the order of cards, expiries, renewals, retries, late marks,    *)
(* crashes and choices of the operator (whitelist_card_grants, activate,    *)
(* reconcile and upsert), a member counts as whitelisted exactly while he   *)
(* is due to be: with the level system on, for any members, groups, prices  *)
(* and terms.  Without it upsert takes no transaction and the run           *)
(* inventory_lost_edit shows the claim false.                               *)
THEOREM CardsLiftExactly == Levels => (Spec => []WhitelistExact)
<1> SUFFICES ASSUME Levels PROVE Spec => []WhitelistExact
  OBVIOUS
<1>1. CardInv /\ [Next]_vars => CardInv'
  BY CardStep
<1>2. QED
  BY <1>1, NobodyLifted, ExactWhenLifted, PTL DEF Spec

-----------------------------------------------------------------------------
(* What is marked as taken back.  The media server is told of a member's    *)
(* rights as they are at that moment, so it no longer counts a boost that   *)
(* had passed when it was asked, and knows a revision above that of a grant *)
(* given back before; a used card is never used again, time does not run    *)
(* back, and revisions only grow: the answer is still true when it is       *)
(* written, however late.  None of it needs the level system.               *)

Cards == [owner : Users, kind : Kinds, used : BOOLEAN, expires : Nat \cup {Null}, synced : BOOLEAN]

Slots ==
  /\ clock \in Nat /\ exists \subseteq Groups /\ bag \in Seq(Cards)
  /\ group \in [Users -> [id : Places, rev : Nat]]
  /\ grant \in [Users -> Grants \cup {Null}]
  /\ remote \in [Users -> [boosts : SUBSET Nat, rev : Nat]]
  /\ edit # Null => edit.user \in Users /\ edit.group \in Places

Work == [user : Users, cards : SUBSET Nat, rev : Nat \cup {Null}, ok : BOOLEAN \cup {Null}]
Worked == job = Null \/ job \in Work

Over(i) == bag[i].used /\ Passed(bag[i].expires)
Counted(i) == i \in remote[bag[i].owner].boosts

Marked == \A i \in Rows : bag[i].kind = "boost" /\ bag[i].synced => Over(i) /\ ~Counted(i)

Taken == job # Null =>
  \A i \in job.cards : /\ i \in Rows /\ bag[i].owner = job.user /\ Over(i)
                       /\ job.ok = TRUE => ~Counted(i)

Told == \A u \in Users : grant[u] # Null /\ grant[u].status = "restored" =>
          /\ grant[u].rev < group[u].rev
          /\ grant[u].synced => grant[u].rev < remote[u].rev

Answer == job # Null /\ job.rev # Null =>
            /\ grant[job.user] # Null
            /\ job.ok # FALSE => job.rev < group[job.user].rev
            /\ job.ok = TRUE => job.rev < remote[job.user].rev

RevokedInv == Slots /\ Worked /\ Marked /\ Taken /\ Told /\ Answer

LEMMA NothingMarked == Init => RevokedInv
<1> SUFFICES ASSUME Init PROVE RevokedInv
  OBVIOUS
<1>1. PICK g \in [Users -> Groups] : group = [u \in Users |-> [id |-> g[u], rev |-> 0]]
  BY DEF Init
<1>2. /\ clock = 0 /\ exists = Groups /\ bag = <<>> /\ grant = [u \in Users |-> Null] /\ job = Null /\ edit = Null
      /\ remote = [u \in Users |-> [boosts |-> {}, rev |-> 0]]
  BY DEF Init
<1>3. bag \in Seq(Cards) /\ Rows = {}
  BY <1>2, EmptySeq DEF Rows
<1>4. Slots
  BY <1>1, <1>2, <1>3 DEF Slots, Places
<1>5. QED
  BY <1>2, <1>3, <1>4 DEF RevokedInv, Worked, Marked, Taken, Told, Answer

LEMMA RevokedWhenMarked == RevokedInv => SyncedIsRevoked
BY DEF RevokedInv, Marked, Told, Counted, SyncedIsRevoked

-----------------------------------------------------------------------------
(* The bag: its rows keep their number, and what is over stays over, while *)
(* the media server's counts stay or become those of this moment.          *)

(* The rows of a bag with as many rows are the same.                       *)
LEMMA SameRows ==
  ASSUME NEW s \in Seq(Cards), NEW t \in Seq(Cards), DOMAIN s = DOMAIN t
  PROVE  1..Len(s) = 1..Len(t)
BY LenProperties

LEMMA RowsAreCards == RevokedInv => \A i \in Rows : bag[i] \in Cards
<1> SUFFICES ASSUME RevokedInv, NEW i \in Rows PROVE bag[i] \in Cards
  OBVIOUS
<1>1. bag \in Seq(Cards) /\ i \in 1..Len(bag)
  BY DEF RevokedInv, Slots, Rows
<1>2. QED
  BY <1>1, ElementOfSeq

(* Nothing that is over is counted when the media server is told.          *)
LEMMA BoostsRun == \A u, i : i \in Boosts(u) => i \in Rows /\ ~Over(i)
BY DEF Boosts, Over

(* The bag and the job stay.                                               *)
LEMMA BagFrame ==
  ASSUME RevokedInv, UNCHANGED <<clock, bag, job, remote>> PROVE Marked' /\ Taken'
BY DEF RevokedInv, Marked, Taken, Over, Counted, Passed, Rows

LEMMA GrantFrame ==
  ASSUME RevokedInv, UNCHANGED <<group, grant, job, remote>> PROVE Told' /\ Answer'
BY DEF RevokedInv, Told, Answer

(* The media server is told: by the housekeeping loop or by the bot.       *)
LEMMA TellStep ==
  ASSUME RevokedInv, NEW u \in Users,
         remote' = [remote EXCEPT ![u] = [boosts |-> Boosts(u), rev |-> group[u].rev]],
         UNCHANGED <<clock, exists, bag, group, grant, edit>>,
         Worked',
         job' # Null => /\ job # Null /\ job'.user = job.user /\ job'.cards = job.cards /\ job'.rev = job.rev
                        /\ job'.ok = job.ok \/ (job.ok = Null /\ job'.user = u)
  PROVE  RevokedInv'
<1>1. Boosts(u) \subseteq Nat
  BY LenProperties DEF Boosts, Rows, RevokedInv, Slots
<1>2. group[u].rev \in Nat
  BY DEF RevokedInv, Slots
<1>3. Slots'
  BY <1>1, <1>2 DEF RevokedInv, Slots
<1>4. /\ remote'[u].boosts = Boosts(u) /\ remote'[u].rev = group[u].rev
      /\ \A v \in Users \ {u} : remote'[v] = remote[v]
  BY DEF RevokedInv, Slots
<1>5. \A i : Over(i)' <=> Over(i)
  BY DEF Over, Passed
<1>6. Rows' = Rows
  BY DEF Rows
<1>7. \A i \in Rows : bag[i].owner \in Users
  BY RowsAreCards DEF Cards
<1>8. \A i \in Rows : Over(i) /\ (bag[i].owner = u \/ ~Counted(i)) => ~Counted(i)'
  BY <1>4, <1>7, BoostsRun DEF Counted
<1>9. Marked'
  BY <1>5, <1>6, <1>8 DEF RevokedInv, Marked
<1>10. Taken'
  BY <1>5, <1>6, <1>8 DEF RevokedInv, Taken
<1>11. Told'
  BY <1>4 DEF RevokedInv, Told
<1>12. Answer'
  <2> SUFFICES ASSUME job' # Null, job'.rev # Null PROVE Answer'
    BY DEF Answer
  <2>1. /\ job # Null /\ job.rev # Null /\ job.user \in Users /\ job.rev \in Nat /\ job'.user = job.user /\ job'.rev = job.rev
        /\ job'.ok = job.ok \/ (job.ok = Null /\ job.user = u)
    BY DEF RevokedInv, Worked, Work
  <2>2. CASE job'.ok = job.ok
    BY <1>4, <2>1, <2>2 DEF RevokedInv, Answer
  <2>3. CASE job.ok = Null /\ job.user = u
    <3>1. job.rev < group[u].rev
      BY <2>1, <2>3, InventoryAssumption DEF RevokedInv, Answer
    <3>2. grant[u] # Null
      BY <2>1, <2>3 DEF RevokedInv, Answer
    <3>3. QED
      BY <1>4, <2>1, <2>3, <3>1, <3>2 DEF Answer
  <2>4. QED
    BY <2>1, <2>2, <2>3
<1>13. QED
  BY <1>3, <1>9, <1>10, <1>11, <1>12 DEF RevokedInv

-----------------------------------------------------------------------------
(* A purchase adds a card that is not marked.                              *)
LEMMA RedeemStep ==
  ASSUME RevokedInv, NEW u \in Users, NEW k \in Kinds, NEW req, NEW seen, Redeem(u, k, req, seen)
  PROVE  RevokedInv'
<1> DEFINE c == [owner |-> u, kind |-> k, used |-> FALSE, expires |-> Null, synced |-> FALSE]
<1>1. bag' = Append(bag, c) /\ UNCHANGED <<clock, exists, group, grant, remote, job, edit>>
  BY DEF Redeem
<1>2. bag \in Seq(Cards) /\ c \in Cards
  BY DEF RevokedInv, Slots, Cards
<1>3. /\ bag' \in Seq(Cards) /\ Len(bag') = Len(bag) + 1 /\ Len(bag) \in Nat
      /\ \A i \in Rows : bag'[i] = bag[i]
      /\ bag'[Len(bag) + 1] = c
  BY <1>1, <1>2, AppendProperties, LenProperties DEF Rows
<1>4. Rows' = Rows \cup {Len(bag) + 1}
  BY <1>3 DEF Rows
<1>5. \A i \in Rows : (Over(i)' <=> Over(i)) /\ (Counted(i)' <=> Counted(i))
  BY <1>1, <1>3 DEF Over, Counted, Passed
<1>6. Marked'
  <2>1. ~bag'[Len(bag) + 1].synced
    BY <1>3
  <2>2. QED
    BY <1>3, <1>4, <1>5, <2>1 DEF RevokedInv, Marked
<1>7. Taken'
  BY <1>1, <1>3, <1>4, <1>5 DEF RevokedInv, Taken
<1>8. Slots' /\ Worked'
  BY <1>1, <1>3 DEF RevokedInv, Slots, Worked
<1>9. QED
  BY <1>1, <1>6, <1>7, <1>8, GrantFrame DEF RevokedInv

(* A card is used that was not: nothing is being taken back on it, and no   *)
(* boost of it is marked.                                                  *)
LEMMA BagUsed ==
  ASSUME RevokedInv, NEW i \in Rows, ~bag[i].used, NEW c \in Cards,
         bag' = [bag EXCEPT ![i] = c], c.owner = bag[i].owner,
         c.kind = "boost" => ~c.synced,
         UNCHANGED <<clock, job, remote>>
  PROVE  bag' \in Seq(Cards) /\ Marked' /\ Taken'
<1>1. bag \in Seq(Cards) /\ i \in 1..Len(bag)
  BY DEF RevokedInv, Slots, Rows
<1>2. /\ bag' \in Seq(Cards) /\ Len(bag') = Len(bag)
      /\ \A j \in Rows : bag'[j] = IF j = i THEN c ELSE bag[j]
  BY <1>1, ExceptSeq DEF Rows
<1>3. Rows' = Rows
  BY <1>2 DEF Rows
<1>4. \A j \in Rows : j # i => (Over(j)' <=> Over(j)) /\ (Counted(j)' <=> Counted(j))
  BY <1>2 DEF Over, Counted, Passed
<1>5. Marked'
  BY <1>2, <1>3, <1>4 DEF RevokedInv, Marked
<1>6. job # Null => i \notin job.cards
  BY DEF RevokedInv, Taken, Over
<1>7. Taken'
  BY <1>2, <1>3, <1>4, <1>6 DEF RevokedInv, Taken
<1>8. QED
  BY <1>2, <1>5, <1>7

(* One member's rows are replaced: his revision does not fall, and a grant  *)
(* given back has a lower one.                                             *)
LEMMA GrantStep ==
  ASSUME RevokedInv, NEW u \in Users, NEW g \in [id : Places, rev : Nat], NEW r \in Grants \cup {Null},
         group' = [group EXCEPT ![u] = g], grant' = [grant EXCEPT ![u] = r], UNCHANGED remote,
         group[u].rev <= g.rev,
         grant[u] # Null => r # Null,
         r # Null /\ r.status = "restored" => r.rev < g.rev /\ (r.synced => r.rev < remote[u].rev)
  PROVE  /\ group' \in [Users -> [id : Places, rev : Nat]] /\ grant' \in [Users -> Grants \cup {Null}]
         /\ Told' /\ (job' \in {job, Null} => Answer')
<1>1. /\ group' \in [Users -> [id : Places, rev : Nat]] /\ grant' \in [Users -> Grants \cup {Null}]
      /\ group'[u] = g /\ grant'[u] = r
      /\ \A v \in Users \ {u} : group'[v] = group[v] /\ grant'[v] = grant[v]
  BY DEF RevokedInv, Slots
<1>2. Told'
  BY <1>1 DEF RevokedInv, Told
<1>3. ASSUME job' \in {job, Null} PROVE Answer'
  <2> SUFFICES ASSUME job' # Null, job'.rev # Null PROVE Answer'
    BY DEF Answer
  <2>1. job' = job /\ job.user \in Users /\ job.rev \in Nat
    BY <1>3 DEF RevokedInv, Worked, Work
  <2>2. group[job.user].rev \in Nat /\ group'[job.user].rev \in Nat /\ group[job.user].rev <= group'[job.user].rev
    BY <1>1, <2>1 DEF RevokedInv, Slots
  <2>3. job.ok # FALSE => job.rev < group'[job.user].rev
    <3>1. job.ok # FALSE => job.rev < group[job.user].rev
      BY <2>1 DEF RevokedInv, Answer
    <3>2. QED
      BY <2>1, <2>2, <3>1
  <2>4. job.ok = TRUE => job.rev < remote[job.user].rev
    BY <2>1 DEF RevokedInv, Answer
  <2>5. grant'[job.user] # Null
    BY <1>1, <2>1 DEF RevokedInv, Answer
  <2>6. QED
    BY <2>1, <2>3, <2>4, <2>5 DEF Answer
<1>4. QED
  BY <1>1, <1>2, <1>3

(* The rows a white card writes: a grant that is not given back, and a      *)
(* group at a higher revision.                                             *)
LEMMA ActivatedRows ==
  ASSUME RevokedInv, NEW u \in Users, NEW i, NEW days \in Days, Activate(u, i, days), UNCHANGED <<job, remote>>
  PROVE  /\ group' \in [Users -> [id : Places, rev : Nat]] /\ grant' \in [Users -> Grants \cup {Null}]
         /\ Told' /\ Answer' /\ grant'[u].expires \in Nat \cup {Null}
<1> DEFINE lapsed  == grant[u] # Null /\ grant[u].status = "active" /\ Passed(grant[u].expires)
           now     == IF lapsed THEN RestoredGroup(u) ELSE group[u]
           running == Owned(u) /\ ~lapsed
           g == [id |-> White, rev |-> now.rev + 1]
           r == [previous |-> IF running THEN grant[u].previous ELSE now.id,
                 rev |-> now.rev + 1, status |-> "active", synced |-> FALSE,
                 expires |-> Until(IF running THEN grant[u].expires ELSE clock, days)]
<1>1. /\ group' = [group EXCEPT ![u] = g] /\ grant' = [grant EXCEPT ![u] = r]
      /\ now.id = White => running /\ grant[u].expires # Null
  BY DEF Activate
<1>2. /\ group[u] \in [id : Places, rev : Nat] /\ grant[u] \in Grants \cup {Null}
      /\ clock \in Nat /\ days \in Nat
  BY InventoryAssumption DEF RevokedInv, Slots
<1>3. /\ now \in [id : Places, rev : Nat] /\ (now.id # White => now.id \in Groups)
      /\ group[u].rev <= now.rev
  BY <1>2 DEF RestoredGroup, Owned, Grants, Places
<1>4. r.previous \in Groups
  <2>1. running => grant[u].previous \in Groups
    BY <1>2 DEF Grants, Owned
  <2>2. ~running => now.id \in Groups
    BY <1>1, <1>3
  <2>3. QED
    BY <2>1, <2>2
<1>5. r.expires \in Nat \cup {Null}
  <2>1. running => now.id = White
    BY DEF Owned
  <2>2. running => grant[u].expires \in Nat
    BY <1>1, <1>2, <2>1 DEF Grants, Owned
  <2>3. QED
    BY <1>2, <2>2 DEF Until
<1>6. r \in Grants /\ g \in [id : Places, rev : Nat] /\ group[u].rev <= g.rev /\ r.status = "active"
  <2>1. now.rev + 1 \in Nat /\ group[u].rev <= now.rev + 1
    BY <1>2, <1>3
  <2>2. r \in Grants
    BY <1>4, <1>5, <2>1 DEF Grants
  <2>3. g \in [id : Places, rev : Nat]
    BY <2>1 DEF Places
  <2>4. QED
    BY <2>1, <2>2, <2>3
<1>7. grant'[u] = r
  BY <1>1 DEF RevokedInv, Slots
<1> HIDE DEF g, r
<1>8. r # Null
  BY <1>6, InventoryAssumption
<1>9. QED
  BY <1>1, <1>5, <1>6, <1>7, <1>8, GrantStep

LEMMA UseRevoked == ASSUME RevokedInv, NEW i \in Rows, Use(i) PROVE RevokedInv'
<1> DEFINE u == bag[i].owner
<1>1. PICK days \in Days :
        \/ /\ bag' = [bag EXCEPT ![i].used = TRUE, ![i].expires = clock + days]
           /\ UNCHANGED <<group, grant>>
        \/ /\ bag[i].kind = "invite" /\ UNCHANGED <<group, grant>>
           /\ bag' = [bag EXCEPT ![i].used = TRUE, ![i].synced = TRUE]
        \/ Activate(u, i, days)
  BY DEF Use
<1>2. ~bag[i].used /\ UNCHANGED <<clock, exists, remote, job, edit>>
  BY DEF Use
<1>3. /\ bag[i] \in Cards /\ u \in Users /\ clock \in Nat /\ clock + days \in Nat
      /\ bag[i].kind = "boost" => ~bag[i].synced
  <2>1. bag[i] \in Cards
    BY RowsAreCards
  <2>2. clock + days \in Nat
    BY InventoryAssumption DEF RevokedInv, Slots
  <2>3. QED
    BY <1>2, <2>1, <2>2 DEF Cards, RevokedInv, Slots, Marked, Over
<1>4. DOMAIN bag = Rows
  BY LenProperties DEF RevokedInv, Slots, Rows
<1>5. ASSUME NEW e \in Nat \cup {Null}, bag' = [bag EXCEPT ![i].used = TRUE, ![i].expires = e]
      PROVE  bag' \in Seq(Cards) /\ Marked' /\ Taken'
  <2> DEFINE c == [bag[i] EXCEPT !.used = TRUE, !.expires = e]
  <2>1. bag' = [bag EXCEPT ![i] = c]
    BY <1>4, <1>5
  <2>2. c \in Cards /\ c.owner = bag[i].owner /\ c.kind = bag[i].kind /\ c.synced = bag[i].synced
    BY <1>3 DEF Cards
  <2> HIDE DEF c
  <2>3. QED
    BY <1>2, <1>3, <2>1, <2>2, BagUsed
<1>6. CASE /\ bag' = [bag EXCEPT ![i].used = TRUE, ![i].expires = clock + days]
           /\ UNCHANGED <<group, grant>>
  BY <1>2, <1>3, <1>5, <1>6, GrantFrame DEF RevokedInv, Slots, Worked
<1>7. CASE /\ bag[i].kind = "invite" /\ UNCHANGED <<group, grant>>
           /\ bag' = [bag EXCEPT ![i].used = TRUE, ![i].synced = TRUE]
  <2> DEFINE c == [bag[i] EXCEPT !.used = TRUE, !.synced = TRUE]
  <2>1. bag' = [bag EXCEPT ![i] = c]
    BY <1>4, <1>7
  <2>2. c \in Cards /\ c.owner = bag[i].owner /\ c.kind = "invite"
    BY <1>3, <1>7 DEF Cards
  <2> HIDE DEF c
  <2>3. bag' \in Seq(Cards) /\ Marked' /\ Taken'
    BY <1>2, <2>1, <2>2, BagUsed
  <2>4. QED
    BY <1>2, <1>7, <2>3, GrantFrame DEF RevokedInv, Slots, Worked
<1>8. CASE Activate(u, i, days)
  <2>1. bag' = [bag EXCEPT ![i].used = TRUE, ![i].expires = grant'[u].expires]
    BY <1>8 DEF Activate
  <2>2. /\ group' \in [Users -> [id : Places, rev : Nat]] /\ grant' \in [Users -> Grants \cup {Null}]
        /\ Told' /\ Answer' /\ grant'[u].expires \in Nat \cup {Null}
    BY <1>2, <1>3, <1>8, ActivatedRows
  <2>3. bag' \in Seq(Cards) /\ Marked' /\ Taken'
    BY <1>5, <2>1, <2>2
  <2>4. QED
    BY <1>2, <2>2, <2>3 DEF RevokedInv, Slots, Worked
<1>9. QED
  BY <1>1, <1>6, <1>7, <1>8

-----------------------------------------------------------------------------
(* The housekeeping loop: what it asks for is over, or given back, before   *)
(* it asks.                                                                *)
LEMMA TakeBoostsRevoked == ASSUME RevokedInv, NEW u \in Users, TakeBoosts(u) PROVE RevokedInv'
<1>1. /\ job' = [user |-> u, cards |-> DueBoosts(u), rev |-> Null, ok |-> Null]
      /\ UNCHANGED <<clock, exists, bag, group, grant, remote, edit>>
  BY DEF TakeBoosts
<1>2. DueBoosts(u) \subseteq Nat
  BY LenProperties DEF DueBoosts, Rows, RevokedInv, Slots
<1>3. Slots' /\ Worked'
  BY <1>1, <1>2 DEF RevokedInv, Slots, Worked, Work
<1>4. Marked' /\ Told'
  BY <1>1 DEF RevokedInv, Marked, Told, Over, Counted, Passed, Rows
<1>5. Taken'
  <2>1. job'.cards = DueBoosts(u) /\ job'.user = u /\ job'.ok # TRUE
    BY <1>1, InventoryAssumption
  <2>2. \A i \in DueBoosts(u) : i \in Rows /\ bag[i].owner = u /\ Over(i)
    BY DEF DueBoosts, Over
  <2>3. QED
    BY <1>1, <2>1, <2>2 DEF Taken, Over, Passed, Rows
<1>6. Answer'
  BY <1>1 DEF Answer
<1>7. QED
  BY <1>3, <1>4, <1>5, <1>6 DEF RevokedInv

LEMMA TakeWhiteRevoked == ASSUME RevokedInv, NEW u \in Users, TakeWhite(u) PROVE RevokedInv'
<1> DEFINE work == [user |-> u, cards |-> {}, rev |-> grant[u].rev, ok |-> Null]
<1>1. /\ job = Null /\ grant[u] # Null /\ UNCHANGED <<clock, exists, bag, remote, edit>>
  BY DEF TakeWhite, WhiteDue
<1>2. /\ group[u] \in [id : Places, rev : Nat] /\ grant[u] \in Grants /\ grant[u].rev \in Nat
  BY <1>1 DEF RevokedInv, Slots, Grants
<1>3. Marked'
  BY <1>1 DEF RevokedInv, Marked, Over, Counted, Passed, Rows
<1>4. work \in Work /\ [work EXCEPT !.ok = FALSE] \in Work
  BY <1>2 DEF Work
<1>5. job' \in {work, [work EXCEPT !.ok = FALSE], Null} => Worked' /\ Taken'
  <2>1. job' \in {work, [work EXCEPT !.ok = FALSE]} => job'.cards = {}
    OBVIOUS
  <2>2. QED
    BY <1>4, <2>1 DEF Worked, Taken
<1>6. CASE /\ grant[u].status = "active" /\ group' = [group EXCEPT ![u] = RestoredGroup(u)]
           /\ grant' = [grant EXCEPT ![u] = RestoredGrant(u)]
           /\ job' = IF Owned(u) THEN work ELSE Null
  <2> DEFINE g == RestoredGroup(u)
             r == RestoredGrant(u)
  <2>1. r \in Grants /\ r.rev = grant[u].rev /\ r.status = IF Owned(u) THEN "restored" ELSE "protected"
    BY <1>2, GivenBack
  <2>2. Owned(u) => ~r.synced
    BY <1>2, GivenBack
  <2>3. g \in [id : Places, rev : Nat] /\ group[u].rev <= g.rev
    BY <1>2 DEF RestoredGroup, Grants, Places
  <2>4. Owned(u) => r.rev < g.rev
    BY <1>2, <2>1 DEF RestoredGroup, Owned
  <2>5. r.status = "restored" => Owned(u)
    BY <2>1
  <2>6. r # Null
    BY <2>1, InventoryAssumption
  <2> HIDE DEF g, r
  <2>7. /\ group' \in [Users -> [id : Places, rev : Nat]] /\ grant' \in [Users -> Grants \cup {Null}]
        /\ Told' /\ (job' \in {job, Null} => Answer')
    BY <1>1, <1>6, <2>1, <2>2, <2>3, <2>4, <2>5, <2>6, GrantStep DEF g, r
  <2>8. group'[u] = g
    BY <1>6 DEF g, RevokedInv, Slots
  <2>9. Answer'
    <3>1. CASE Owned(u)
      <4>1. job'.rev < group'[job'.user].rev /\ job'.ok # TRUE
        BY <1>6, <2>1, <2>4, <2>8, <3>1, InventoryAssumption
      <4>2. job'.user = u /\ grant'[u] # Null
        BY <1>1, <1>6, <2>6, <3>1 DEF r, RevokedInv, Slots
      <4>3. QED
        BY <4>1, <4>2 DEF Answer
    <3>2. CASE ~Owned(u)
      BY <1>6, <2>7, <3>2
    <3>3. QED
      BY <3>1, <3>2
  <2>10. QED
    BY <1>1, <1>3, <1>5, <1>6, <2>7, <2>9 DEF RevokedInv, Slots
<1>7. CASE /\ UNCHANGED <<group, grant>>
           /\ \/ job' = [work EXCEPT !.ok = FALSE]
              \/ grant[u].status = "restored" /\ job' = work
  <2>1. Told'
    BY <1>1, <1>7 DEF RevokedInv, Told
  <2>2. Answer'
    <3>1. CASE job' = [work EXCEPT !.ok = FALSE]
      <4>1. job'.ok = FALSE /\ job'.user = u
        BY <3>1
      <4>2. QED
        BY <1>1, <1>7, <4>1 DEF Answer
    <3>2. CASE grant[u].status = "restored" /\ job' = work
      <4>1. grant[u].rev < group[u].rev
        BY <1>1, <3>2 DEF RevokedInv, Told
      <4>2. job'.ok # TRUE /\ job'.rev = grant[u].rev /\ job'.user = u
        BY <3>2, InventoryAssumption
      <4>3. QED
        BY <1>1, <1>7, <4>1, <4>2 DEF Answer
    <3>3. QED
      BY <1>7, <3>1, <3>2
  <2>3. QED
    BY <1>1, <1>3, <1>5, <1>7, <2>1, <2>2 DEF RevokedInv, Slots
<1>8. QED
  BY <1>6, <1>7 DEF TakeWhite

LEMMA SyncRevoked == ASSUME RevokedInv, NEW ok \in BOOLEAN, SyncEffects(ok) PROVE RevokedInv'
<1>1. /\ job # Null /\ job.ok = Null /\ job' = [job EXCEPT !.ok = ok] /\ job \in Work
      /\ UNCHANGED <<clock, exists, bag, group, grant, edit>>
  BY DEF SyncEffects, RevokedInv, Worked
<1>2. /\ job' \in Work /\ job'.user = job.user /\ job'.cards = job.cards /\ job'.rev = job.rev /\ job'.ok = ok
      /\ job.user \in Users
  BY <1>1 DEF Work
<1>3. CASE ok
  <2>1. remote' = [remote EXCEPT ![job.user] = [boosts |-> Boosts(job.user), rev |-> group[job.user].rev]]
    BY <1>3 DEF SyncEffects
  <2>2. QED
    BY <1>1, <1>2, <2>1, TellStep DEF Worked
<1>4. CASE ~ok
  <2>1. UNCHANGED remote /\ job'.ok = FALSE
    BY <1>2, <1>4 DEF SyncEffects
  <2>2. Taken'
    BY <1>1, <1>2, <2>1 DEF RevokedInv, Taken, Over, Counted, Passed, Rows
  <2>3. Answer'
    <3>1. job.rev # Null => grant[job.user] # Null
      BY <1>1 DEF RevokedInv, Answer
    <3>2. QED
      BY <1>1, <1>2, <2>1, <3>1 DEF Answer
  <2>4. Marked' /\ Told' /\ Slots'
    BY <1>1, <2>1 DEF RevokedInv, Marked, Told, Slots, Over, Counted, Passed, Rows
  <2>5. QED
    BY <1>2, <2>2, <2>3, <2>4 DEF RevokedInv, Worked
<1>5. QED
  BY <1>3, <1>4

(* The answer is written: on boosts that are over and, when it was a yes,   *)
(* no longer counted; on the grant only if it is still the one asked about. *)
LEMMA MarkRevoked == ASSUME RevokedInv, Mark PROVE RevokedInv'
<1> DEFINE ok == job.ok
           w == job.user
           b(i) == IF i \in job.cards THEN [bag[i] EXCEPT !.synced = ok] ELSE bag[i]
<1>1. /\ job # Null /\ job.ok # Null /\ job' = Null /\ job \in Work
      /\ bag' = [i \in Rows |-> b(i)]
      /\ UNCHANGED <<clock, exists, group, remote, edit>>
  BY DEF Mark, RevokedInv, Worked
<1>2. ok \in BOOLEAN /\ w \in Users
  BY <1>1 DEF Work
<1>3. \A i \in Rows : /\ b(i) \in Cards
                      /\ b(i).owner = bag[i].owner /\ b(i).kind = bag[i].kind /\ b(i).used = bag[i].used
                      /\ b(i).expires = bag[i].expires
  <2> SUFFICES ASSUME NEW i \in Rows
               PROVE  /\ b(i) \in Cards
                      /\ b(i).owner = bag[i].owner /\ b(i).kind = bag[i].kind /\ b(i).used = bag[i].used
                      /\ b(i).expires = bag[i].expires
    OBVIOUS
  <2>1. bag[i] \in Cards
    BY RowsAreCards
  <2>2. CASE ok = TRUE
    BY <2>1, <2>2 DEF Cards
  <2>3. CASE ok = FALSE
    BY <2>1, <2>3 DEF Cards
  <2>4. QED
    BY <1>2, <2>2, <2>3
<1>4. \A i \in Rows : i \in job.cards => b(i).synced = ok
  BY RowsAreCards DEF Cards
<1>5. \A i \in Rows : i \notin job.cards => b(i).synced = bag[i].synced
  OBVIOUS
<1> HIDE DEF b, ok
<1>6. bag' \in Seq(Cards) /\ Rows' = Rows
  <2>1. Len(bag) \in Nat /\ bag' \in [1..Len(bag) -> Cards]
    BY <1>1, <1>3, LenProperties DEF Rows, RevokedInv, Slots
  <2>2. bag' \in Seq(Cards)
    BY <2>1, SeqDef
  <2>3. QED
    BY <2>1, <2>2, LenProperties DEF Rows
<1>7. \A i \in Rows : bag'[i] = b(i)
  BY <1>1
<1>8. \A i \in Rows : (Over(i)' <=> Over(i)) /\ (Counted(i)' <=> Counted(i))
  BY <1>1, <1>3, <1>7 DEF Over, Counted, Passed
<1>9. Marked'
  <2> SUFFICES ASSUME NEW i \in Rows, bag'[i].kind = "boost", bag'[i].synced PROVE (Over(i) /\ ~Counted(i))'
    BY <1>6 DEF Marked
  <2>1. CASE i \in job.cards
    <3>1. ok = TRUE
      BY <1>2, <1>4, <1>7, <2>1
    <3>2. Over(i) /\ ~Counted(i)
      BY <1>1, <2>1, <3>1 DEF RevokedInv, Taken, ok
    <3>3. QED
      BY <1>8, <3>2
  <2>2. CASE i \notin job.cards
    <3>1. bag[i].kind = "boost" /\ bag[i].synced
      BY <1>3, <1>5, <1>7, <2>2
    <3>2. QED
      BY <1>8, <3>1 DEF RevokedInv, Marked
  <2>3. QED
    BY <2>1, <2>2
<1>10. CASE grant' = grant
  BY <1>1, <1>6, <1>9, <1>10 DEF RevokedInv, Slots, Worked, Taken, Told, Answer
<1>11. CASE job.rev # Null /\ grant[w].rev = job.rev /\ grant[w].status \in {"active", "restored"}
            /\ grant' = [grant EXCEPT ![w].synced = ok]
  <2> DEFINE r == [grant[w] EXCEPT !.synced = ok]
  <2>1. grant[w] \in Grants
    BY <1>1, <1>2, <1>11 DEF RevokedInv, Slots, Answer
  <2>2. r \in Grants /\ r.status = grant[w].status /\ r.rev = grant[w].rev
    BY <1>2, <2>1, GrantMarked
  <2>3. r.synced = ok
    BY <2>1 DEF Grants
  <2>4. grant' = [grant EXCEPT ![w] = r] /\ group' = [group EXCEPT ![w] = group[w]]
    BY <1>1, <1>2, <1>11 DEF RevokedInv, Slots
  <2>5. group[w] \in [id : Places, rev : Nat] /\ group[w].rev <= group[w].rev
    BY <1>2 DEF RevokedInv, Slots
  <2>6. grant[w] # Null /\ r # Null
    BY <2>1, <2>2, InventoryAssumption
  <2>7. grant[w].status = "restored" => grant[w].rev < group[w].rev
    BY <1>2, <2>6 DEF RevokedInv, Told
  <2>8. ok = TRUE => grant[w].rev < remote[w].rev
    BY <1>1, <1>11 DEF RevokedInv, Answer, ok
  <2>9. r.status = "restored" => r.rev < group[w].rev /\ (r.synced => r.rev < remote[w].rev)
    BY <1>2, <2>2, <2>3, <2>7, <2>8
  <2> HIDE DEF r
  <2>10. grant' \in [Users -> Grants \cup {Null}] /\ Told'
    BY <1>1, <1>2, <2>2, <2>4, <2>5, <2>6, <2>9, GrantStep
  <2>11. QED
    BY <1>1, <1>6, <1>9, <2>10 DEF RevokedInv, Slots, Worked, Taken, Answer
<1>12. QED
  BY <1>1, <1>10, <1>11 DEF Mark, ok

-----------------------------------------------------------------------------
(* The rest: the operator's edit raises a revision or leaves it, time makes *)
(* more rights over, and nothing else touches what is marked.              *)
LEMMA WriteRevoked == ASSUME RevokedInv, WriteRow PROVE RevokedInv'
<1> DEFINE u == edit.user
           g == [id |-> edit.group, rev |-> group[u].rev + IF edit.named THEN 1 ELSE 0]
<1>1. /\ edit # Null /\ edit' = Null /\ UNCHANGED <<clock, exists, bag, grant, remote, job>>
      /\ group' = [group EXCEPT ![u] = g]
  BY DEF WriteRow
<1>2. u \in Users /\ edit.group \in Places /\ group[u].rev \in Nat
  BY <1>1 DEF RevokedInv, Slots
<1>3. g \in [id : Places, rev : Nat] /\ group[u].rev <= g.rev
  BY <1>2
<1>4. grant[u] \in Grants \cup {Null} /\ grant' = [grant EXCEPT ![u] = grant[u]]
  BY <1>1, <1>2 DEF RevokedInv, Slots
<1>5. grant[u] # Null /\ grant[u].status = "restored" =>
        grant[u].rev < g.rev /\ (grant[u].synced => grant[u].rev < remote[u].rev)
  <2>1. grant[u] # Null => grant[u].rev \in Nat
    BY <1>4 DEF Grants
  <2>2. QED
    BY <1>2, <1>3, <2>1 DEF RevokedInv, Told
<1> HIDE DEF u, g
<1>6. group' \in [Users -> [id : Places, rev : Nat]] /\ Told' /\ Answer'
  BY <1>1, <1>2, <1>3, <1>4, <1>5, GrantStep
<1>7. QED
  BY <1>1, <1>6, BagFrame DEF RevokedInv, Slots, Worked

LEMMA ReadRevoked == ASSUME RevokedInv, NEW u \in Users, ReadRow(u) PROVE RevokedInv'
<1>1. PICK g \in exists \cup {White, Null} :
        edit' = [user |-> u, named |-> g # Null, group |-> IF g = Null THEN group[u].id ELSE g]
  BY DEF ReadRow
<1>2. UNCHANGED <<clock, exists, bag, group, grant, remote, job>>
  BY DEF ReadRow
<1>3. edit'.user = u /\ edit'.group = IF g = Null THEN group[u].id ELSE g
  BY <1>1
<1>4. edit'.user \in Users /\ edit'.group \in Places
  BY <1>3 DEF RevokedInv, Slots, Places
<1>5. QED
  BY <1>2, <1>4, BagFrame, GrantFrame DEF RevokedInv, Slots, Worked

LEMMA TickRevoked == ASSUME RevokedInv, Tick PROVE RevokedInv'
<1>1. clock \in Nat /\ clock' = clock + 1 /\ UNCHANGED <<exists, bag, group, grant, remote, edit, job>>
  BY DEF Tick, RevokedInv, Slots
<1>2. \A i \in Rows : bag[i].expires \in Nat \cup {Null}
  BY RowsAreCards DEF Cards
<1>3. \A i \in Rows : (Over(i) => Over(i)') /\ (Counted(i)' <=> Counted(i))
  BY <1>1, <1>2, InventoryAssumption DEF Over, Counted, Passed
<1>4. Rows' = Rows
  BY <1>1 DEF Rows
<1>5. Marked' /\ Taken'
  BY <1>1, <1>3, <1>4 DEF RevokedInv, Marked, Taken
<1>6. QED
  BY <1>1, <1>5, GrantFrame DEF RevokedInv, Slots, Worked

LEMMA RevokedStep == ASSUME RevokedInv, [Next]_vars PROVE RevokedInv'
<1>1. ASSUME Crash PROVE RevokedInv'
  <2>1. job' = Null /\ UNCHANGED <<clock, exists, bag, group, grant, remote, edit>>
    BY <1>1 DEF Crash
  <2>2. QED
    BY <2>1 DEF RevokedInv, Slots, Worked, Marked, Taken, Told, Answer, Over, Counted, Passed, Rows
<1>2. ASSUME NEW u \in Users, Push(u) PROVE RevokedInv'
  BY <1>2, TellStep DEF Push, RevokedInv, Worked
<1>3. ASSUME UpdateItem \/ UNCHANGED vars \/ \E g \in Groups : DeleteGroup(g) PROVE RevokedInv'
  <2>1. UNCHANGED <<clock, bag, group, grant, remote, job, edit>> /\ exists' \subseteq exists
    BY <1>3 DEF UpdateItem, vars, DeleteGroup
  <2>2. QED
    BY <2>1, BagFrame, GrantFrame DEF RevokedInv, Slots, Worked
<1>4. ASSUME Reconcile PROVE RevokedInv'
  BY <1>4, TakeBoostsRevoked, TakeWhiteRevoked, SyncRevoked, MarkRevoked DEF Reconcile
<1>5. QED
  BY <1>1, <1>2, <1>3, <1>4, RedeemStep, UseRevoked, WriteRevoked, ReadRevoked, TickRevoked DEF Next

-----------------------------------------------------------------------------
(* A right marked as taken back really is (reconcile_expired, reconcile and *)
(* sync_effects): whatever is bought, used, renewed or edited while the      *)
(* media server is asked, and however late the answer is written, a boost    *)
(* marked so is no longer counted there, and of a grant given back it has    *)
(* been told since.  With or without the level system.                       *)
THEOREM MarksSayWhatWasTaken == Spec => []SyncedIsRevoked
<1>1. RevokedInv /\ [Next]_vars => RevokedInv'
  BY RevokedStep
<1>2. QED
  BY <1>1, NothingMarked, RevokedWhenMarked, PTL DEF Spec

-----------------------------------------------------------------------------
(* The limits.  A purchase and a use count what there is and add one in the *)
(* same transaction; nothing else adds, and time only takes away.          *)

Orders == [user : Users, kind : Kinds, req : Nat, cost : Nat, card : Nat]

Shop == /\ orders \in Seq(Orders) /\ points \in [Users -> Nat] /\ quota \in [Users -> Nat]
        /\ price \in Prices \cup {Null}

Bounded == \A u \in Users, k \in Kinds : Cardinality(Bought(u, k)) <= Limit

Held == \A u \in Users : Cardinality(Boosts(u)) <= BoostCap /\ quota[u] = Cardinality(Invited(u))

LimitInv == RevokedInv /\ Shop /\ Bounded /\ Held /\ OneOrderEach

LEMMA NothingBought == Init => LimitInv
<1> SUFFICES ASSUME Init PROVE LimitInv
  OBVIOUS
<1>1. /\ orders = <<>> /\ bag = <<>> /\ points = [u \in Users |-> Points] /\ quota = [u \in Users |-> 0]
      /\ price \in Prices
  BY DEF Init
<1>2. orders \in Seq(Orders) /\ Len(orders) = 0 /\ Len(bag) = 0 /\ Rows = {}
  BY <1>1, EmptySeq DEF Rows
<1>3. Shop
  BY <1>1, <1>2, InventoryAssumption DEF Shop
<1>4. \A u, k : Bought(u, k) = {} /\ Boosts(u) = {} /\ Invited(u) = {}
  BY <1>2 DEF Bought, Boosts, Invited
<1>5. Bounded /\ Held
  <2>1. Limit \in Nat /\ BoostCap \in Nat /\ Cardinality({}) = 0
    BY InventoryAssumption, FS_EmptySet
  <2>2. Bounded
    BY <1>4, <2>1 DEF Bounded
  <2>3. Held
    <3> SUFFICES ASSUME NEW u \in Users
                 PROVE  Cardinality(Boosts(u)) <= BoostCap /\ quota[u] = Cardinality(Invited(u))
      BY DEF Held
    <3>1. Boosts(u) = {} /\ Invited(u) = {} /\ quota[u] = 0
      BY <1>1, <1>4
    <3>2. QED
      BY <2>1, <3>1
  <2>4. QED
    BY <2>2, <2>3
<1>6. OneOrderEach
  BY <1>2 DEF OneOrderEach
<1>7. QED
  BY <1>3, <1>5, <1>6, NothingMarked DEF LimitInv

LEMMA LimitsKept == LimitInv => WithinLimits /\ OneOrderEach
BY DEF LimitInv, Shop, Bounded, Held, WithinLimits

LEMMA SomeOf == ASSUME NEW n \in Nat, NEW T \in SUBSET (1..n) PROVE IsFiniteSet(T) /\ Cardinality(T) \in Nat
<1>1. IsFiniteSet(1..n)
  BY FS_Interval
<1>2. IsFiniteSet(T)
  BY <1>1, FS_Subset
<1>3. QED
  BY <1>2, FS_CardinalityType

LEMMA RowsFinite == RevokedInv => \A u : /\ IsFiniteSet(Boosts(u)) /\ Cardinality(Boosts(u)) \in Nat
                                         /\ IsFiniteSet(Invited(u)) /\ Cardinality(Invited(u)) \in Nat
<1> SUFFICES ASSUME RevokedInv, NEW u
             PROVE  /\ IsFiniteSet(Boosts(u)) /\ Cardinality(Boosts(u)) \in Nat
                    /\ IsFiniteSet(Invited(u)) /\ Cardinality(Invited(u)) \in Nat
  OBVIOUS
<1>1. Len(bag) \in Nat
  BY LenProperties DEF RevokedInv, Slots
<1>2. Boosts(u) \in SUBSET (1..Len(bag)) /\ Invited(u) \in SUBSET (1..Len(bag))
  BY DEF Boosts, Invited, Rows
<1>3. QED
  BY <1>1, <1>2, SomeOf

(* The bag grows by unused cards at most, and no card changes but in its    *)
(* mark: nobody holds more.                                                *)
LEMMA HeldStep ==
  ASSUME LimitInv, clock' \in Nat, clock <= clock', UNCHANGED quota, Rows \subseteq Rows',
         \A i \in Rows : /\ bag'[i].owner = bag[i].owner /\ bag'[i].kind = bag[i].kind
                         /\ bag'[i].used = bag[i].used /\ bag'[i].expires = bag[i].expires,
         \A i \in Rows' : i \in Rows \/ ~bag'[i].used
  PROVE  Held'
<1>1. clock \in Nat /\ \A i \in Rows : bag[i].expires \in Nat \cup {Null}
  BY RowsAreCards DEF Cards, LimitInv, RevokedInv, Slots
<1>2. \A i \in Rows : Passed(bag[i].expires) => Passed(bag[i].expires)'
  BY <1>1, InventoryAssumption DEF Passed
<1>3. \A u : Boosts(u)' \subseteq Boosts(u)
  BY <1>2 DEF Boosts
<1>4. \A u : Invited(u)' = Invited(u)
  BY DEF Invited
<1>5. \A u : Cardinality(Boosts(u)') <= Cardinality(Boosts(u)) /\ Cardinality(Boosts(u)') \in Nat
  <2> SUFFICES ASSUME NEW u
               PROVE  Cardinality(Boosts(u)') <= Cardinality(Boosts(u)) /\ Cardinality(Boosts(u)') \in Nat
    OBVIOUS
  <2>1. IsFiniteSet(Boosts(u)) /\ Boosts(u)' \in SUBSET Boosts(u)
    BY <1>3, RowsFinite DEF LimitInv
  <2>2. QED
    BY <2>1, FS_Subset, FS_CardinalityType
<1>6. \A u : Cardinality(Boosts(u)) \in Nat
  BY RowsFinite DEF LimitInv
<1>7. QED
  BY <1>4, <1>5, <1>6, InventoryAssumption DEF LimitInv, Held

LEMMA RedeemLimits ==
  ASSUME LimitInv, NEW u \in Users, NEW k \in Kinds, NEW req \in 1..Len(orders) + 1, NEW seen \in Prices,
         Redeem(u, k, req, seen)
  PROVE  LimitInv'
<1> DEFINE o == [user |-> u, kind |-> k, req |-> req, cost |-> seen, card |-> Len(bag) + 1]
           c == [owner |-> u, kind |-> k, used |-> FALSE, expires |-> Null, synced |-> FALSE]
           n == Len(orders)
<1>1. /\ orders' = Append(orders, o) /\ bag' = Append(bag, c) /\ points' = [points EXCEPT ![u] = @ - seen]
      /\ points[u] >= seen /\ Cardinality(Bought(u, k)) < Limit
      /\ \A i \in 1..n : orders[i].req # req
      /\ UNCHANGED <<clock, price, quota>>
  BY DEF Redeem
<1>2. orders \in Seq(Orders) /\ n \in Nat /\ bag \in Seq(Cards) /\ c \in Cards /\ Len(bag) = n
  BY LenProperties DEF LimitInv, Shop, RevokedInv, Slots, Cards, OneOrderEach
<1>3. o \in Orders
  BY <1>2, InventoryAssumption DEF Orders
<1>4. /\ orders' \in Seq(Orders) /\ Len(orders') = n + 1 /\ orders'[n + 1] = o
      /\ \A i \in 1..n : orders'[i] = orders[i]
  BY <1>1, <1>2, <1>3, AppendProperties
<1>5. /\ Len(bag') = n + 1 /\ bag'[n + 1] = c
      /\ \A i \in 1..n : bag'[i] = bag[i]
  BY <1>1, <1>2, AppendProperties
<1>6. Rows = 1..n /\ Rows' = 1..(n + 1) /\ 1..(n + 1) = 1..n \cup {n + 1} /\ n + 1 \notin 1..n
  BY <1>2, <1>5 DEF Rows
<1>7. Held'
  <2>1. clock \in Nat
    BY DEF LimitInv, RevokedInv, Slots
  <2>2. ~bag'[n + 1].used
    BY <1>5
  <2>3. \A i \in Rows : /\ bag'[i].owner = bag[i].owner /\ bag'[i].kind = bag[i].kind
                        /\ bag'[i].used = bag[i].used /\ bag'[i].expires = bag[i].expires
    BY <1>5, <1>6
  <2>4. Rows \subseteq Rows' /\ \A i \in Rows' : i \in Rows \/ ~bag'[i].used
    BY <1>6, <2>2
  <2>5. clock' \in Nat /\ clock <= clock' /\ UNCHANGED quota
    BY <1>1, <2>1
  <2>6. QED
    BY <2>3, <2>4, <2>5, HeldStep
<1>8. Bounded'
  <2> SUFFICES ASSUME NEW v \in Users, NEW l \in Kinds PROVE Cardinality(Bought(v, l)') <= Limit
    BY DEF Bounded
  <2>1. Bought(v, l)' = IF v = u /\ l = k THEN Bought(v, l) \cup {n + 1} ELSE Bought(v, l)
    <3>1. orders'[n + 1].user = u /\ orders'[n + 1].kind = k
      BY <1>4
    <3>2. QED
      BY <1>4, <1>6, <3>1 DEF Bought
  <2>2. IsFiniteSet(Bought(v, l)) /\ Cardinality(Bought(v, l)) \in Nat /\ n + 1 \notin Bought(v, l)
    <3>1. Bought(v, l) \in SUBSET (1..n)
      BY DEF Bought
    <3>2. QED
      BY <1>2, <1>6, <3>1, SomeOf
  <2>3. Cardinality(Bought(v, l) \cup {n + 1}) = Cardinality(Bought(v, l)) + 1
    BY <2>2, FS_AddElement
  <2>4. Cardinality(Bought(v, l)) <= Limit /\ Limit \in Nat
    BY InventoryAssumption DEF LimitInv, Bounded
  <2>5. QED
    BY <1>1, <2>1, <2>2, <2>3, <2>4
<1>9. OneOrderEach'
  <2>1. orders'[n + 1].req = req /\ orders'[n + 1].card = n + 1
    BY <1>2, <1>4
  <2>2. \A i, j \in 1..n : i # j => orders[i].req # orders[j].req
    BY DEF LimitInv, OneOrderEach
  <2>3. \A i \in 1..n : orders[i].card = i
    BY <1>6 DEF LimitInv, OneOrderEach
  <2>4. \A i, j \in 1..(n + 1) : i # j => orders'[i].req # orders'[j].req
    BY <1>1, <1>4, <1>6, <2>1, <2>2
  <2>5. \A i \in 1..(n + 1) : orders'[i].card = i
    BY <1>4, <1>6, <2>1, <2>3
  <2>6. QED
    BY <1>4, <1>5, <1>6, <2>4, <2>5 DEF OneOrderEach
<1>10. Shop'
  <2>1. points' \in [Users -> Nat]
    <3>1. points[u] \in Nat /\ seen \in Nat
      BY InventoryAssumption DEF LimitInv, Shop
    <3>2. points[u] - seen \in Nat
      BY <1>1, <3>1
    <3>3. QED
      BY <1>1, <3>2 DEF LimitInv, Shop
  <2>2. QED
    BY <1>1, <1>4, <2>1 DEF LimitInv, Shop
<1>11. QED
  BY <1>7, <1>8, <1>9, <1>10, RedeemStep DEF LimitInv

(* What a card's use leaves alone, and what it adds.                       *)
LEMMA UseLimits == ASSUME LimitInv, NEW i \in Rows, Use(i) PROVE LimitInv'
<1> DEFINE u == bag[i].owner
<1>1. PICK days \in Days :
        \/ /\ bag[i].kind = "boost" /\ Cardinality(Boosts(u)) < BoostCap /\ UNCHANGED quota
           /\ bag' = [bag EXCEPT ![i].used = TRUE, ![i].expires = clock + days]
        \/ /\ bag[i].kind = "invite" /\ quota' = [quota EXCEPT ![u] = @ + 1]
           /\ bag' = [bag EXCEPT ![i].used = TRUE, ![i].synced = TRUE]
        \/ /\ bag[i].kind = "white" /\ UNCHANGED quota
           /\ bag' = [bag EXCEPT ![i].used = TRUE, ![i].expires = grant'[u].expires]
  BY DEF Use, Activate
<1>2. ~bag[i].used /\ UNCHANGED <<clock, points, price, orders>>
  BY DEF Use
<1>3. /\ bag \in Seq(Cards) /\ Len(bag) \in Nat /\ DOMAIN bag = Rows /\ bag[i] \in Cards /\ u \in Users
  BY LenProperties, RowsAreCards DEF LimitInv, RevokedInv, Slots, Rows, Cards
<1>4. /\ Rows' = Rows /\ Len(bag') = Len(bag) /\ bag'[i].used
      /\ bag'[i].owner = u /\ bag'[i].kind = bag[i].kind
      /\ \A j \in Rows : j # i => bag'[j] = bag[j]
  <2>1. RevokedInv'
    BY UseRevoked DEF LimitInv
  <2>2. DOMAIN bag' = DOMAIN bag
    BY <1>1
  <2>3. Rows' = Rows /\ Len(bag') \in Nat
    BY <1>3, <2>1, <2>2, LenProperties DEF RevokedInv, Slots, Rows
  <2>4. QED
    BY <1>1, <1>3, <2>3 DEF Rows, Cards
<1>5. \A v : Boosts(v)' = IF bag[i].kind = "boost" /\ v = u /\ ~Passed(bag'[i].expires)
                          THEN Boosts(v) \cup {i} ELSE Boosts(v)
  BY <1>2, <1>4 DEF Boosts, Passed
<1>6. \A v : Invited(v)' = IF bag[i].kind = "invite" /\ v = u THEN Invited(v) \cup {i} ELSE Invited(v)
  BY <1>2, <1>4 DEF Invited
<1>7. i \notin Boosts(u) /\ i \notin Invited(u)
  BY <1>2 DEF Boosts, Invited
<1>8. /\ IsFiniteSet(Boosts(u)) /\ Cardinality(Boosts(u)) \in Nat
      /\ IsFiniteSet(Invited(u)) /\ Cardinality(Invited(u)) \in Nat
  BY RowsFinite DEF LimitInv
<1>9. /\ Cardinality(Boosts(u) \cup {i}) = Cardinality(Boosts(u)) + 1
      /\ Cardinality(Invited(u) \cup {i}) = Cardinality(Invited(u)) + 1
  BY <1>7, <1>8, FS_AddElement
<1>10. Held'
  <2> SUFFICES ASSUME NEW v \in Users
               PROVE  Cardinality(Boosts(v)') <= BoostCap /\ quota'[v] = Cardinality(Invited(v)')
    BY DEF Held
  <2>1. /\ Cardinality(Boosts(v)) <= BoostCap /\ quota[v] = Cardinality(Invited(v))
        /\ BoostCap \in Nat /\ quota \in [Users -> Nat]
    BY InventoryAssumption DEF LimitInv, Held, Shop
  <2>2. Cardinality(Boosts(v)') <= BoostCap
    <3>1. CASE Boosts(v)' = Boosts(v)
      BY <2>1, <3>1
    <3>2. CASE bag[i].kind = "boost" /\ v = u /\ Boosts(v)' = Boosts(v) \cup {i}
      <4>1. Cardinality(Boosts(u)) < BoostCap
        BY <1>1, <3>2
      <4>2. QED
        BY <1>8, <1>9, <2>1, <3>2, <4>1
    <3>3. QED
      BY <1>5, <3>1, <3>2
  <2>3. quota'[v] = Cardinality(Invited(v)')
    BY <1>1, <1>6, <1>8, <1>9, <2>1
  <2>4. QED
    BY <2>2, <2>3
<1>11. quota' \in [Users -> Nat]
  BY <1>1 DEF LimitInv, Shop
<1>12. Bounded' /\ OneOrderEach' /\ Shop'
  BY <1>2, <1>4, <1>11 DEF LimitInv, Bounded, Bought, OneOrderEach, Shop
<1>13. QED
  BY <1>10, <1>12, UseRevoked DEF LimitInv

(* The mark on a card is none of what is counted.                          *)
LEMMA MarkLimits == ASSUME LimitInv, Mark PROVE LimitInv'
<1>1. /\ bag' = [i \in Rows |-> IF i \in job.cards THEN [bag[i] EXCEPT !.synced = job.ok] ELSE bag[i]]
      /\ UNCHANGED <<clock, points, price, orders, quota>>
  BY DEF Mark
<1>2. RevokedInv'
  BY MarkRevoked DEF LimitInv
<1>3. \A i \in Rows : /\ bag'[i].owner = bag[i].owner /\ bag'[i].kind = bag[i].kind
                      /\ bag'[i].used = bag[i].used /\ bag'[i].expires = bag[i].expires
  <2> SUFFICES ASSUME NEW i \in Rows
               PROVE  /\ bag'[i].owner = bag[i].owner /\ bag'[i].kind = bag[i].kind
                      /\ bag'[i].used = bag[i].used /\ bag'[i].expires = bag[i].expires
    OBVIOUS
  <2>1. bag[i] \in Cards
    BY RowsAreCards DEF LimitInv
  <2>2. QED
    BY <1>1, <2>1 DEF Cards
<1>4. /\ Rows' = Rows /\ Len(bag) \in Nat /\ Len(bag') \in Nat /\ clock \in Nat
  <2>1. DOMAIN bag' = Rows
    BY <1>1
  <2>2. bag \in Seq(Cards) /\ bag' \in Seq(Cards) /\ clock \in Nat
    BY <1>2 DEF LimitInv, RevokedInv, Slots
  <2>3. QED
    BY <2>1, <2>2, LenProperties DEF Rows
<1>5. Len(bag') = Len(bag)
  BY <1>4 DEF Rows
<1>6. Held'
  BY <1>1, <1>3, <1>4, HeldStep
<1>7. QED
  BY <1>1, <1>2, <1>4, <1>5, <1>6 DEF LimitInv, Shop, Bounded, Bought, OneOrderEach

LEMMA LimitFrame ==
  ASSUME LimitInv, RevokedInv', clock <= clock', UNCHANGED <<points, orders, bag, quota>>, price' \in {price} \cup Prices \cup {Null}
  PROVE  LimitInv'
<1>1. Rows' = Rows /\ clock' \in Nat
  BY DEF Rows, RevokedInv, Slots
<1>2. Held'
  BY <1>1, HeldStep
<1>3. QED
  BY <1>1, <1>2 DEF LimitInv, Shop, Bounded, Bought, OneOrderEach

LEMMA LimitStep == ASSUME LimitInv, [Next]_vars PROVE LimitInv'
<1>1. RevokedInv' /\ clock \in Nat
  BY RevokedStep DEF LimitInv, RevokedInv, Slots
<1> DEFINE Others == \/ Crash \/ Tick \/ UpdateItem \/ WriteRow \/ UNCHANGED vars
                     \/ \E u \in Users : TakeBoosts(u) \/ TakeWhite(u) \/ Push(u) \/ ReadRow(u)
                     \/ \E ok \in BOOLEAN : SyncEffects(ok)
                     \/ \E g \in Groups : DeleteGroup(g)
<1>2. ASSUME Others PROVE LimitInv'
  <2>1. /\ clock' \in {clock, clock + 1} /\ UNCHANGED <<points, orders, bag, quota>>
        /\ price' \in {price} \cup Prices \cup {Null}
    <3>1. CASE Crash \/ Tick \/ UpdateItem \/ WriteRow \/ UNCHANGED vars
      BY <3>1 DEF Crash, Tick, UpdateItem, WriteRow, vars
    <3>2. CASE \E u \in Users : TakeBoosts(u) \/ TakeWhite(u) \/ Push(u) \/ ReadRow(u)
      BY <3>2 DEF TakeBoosts, TakeWhite, Push, ReadRow
    <3>3. CASE (\E ok \in BOOLEAN : SyncEffects(ok)) \/ \E g \in Groups : DeleteGroup(g)
      BY <3>3 DEF SyncEffects, DeleteGroup
    <3>4. QED
      BY <1>2, <3>1, <3>2, <3>3
  <2>2. clock <= clock'
    BY <1>1, <2>1
  <2>3. QED
    BY <1>1, <2>1, <2>2, LimitFrame
<1>3. QED
  BY <1>2, RedeemLimits, UseLimits, MarkLimits DEF Next, Reconcile

(* A member never spends what he does not have, buys no more of a kind than *)
(* the limit and never runs more boosts than the cap, each card used for an  *)
(* invitation gives one, a request buys one card however often it is sent,  *)
(* and no card is in a bag without its order (redeem, use, contributions):  *)
(* for any members, prices, limits, caps and terms.                         *)
THEOREM ShopKeepsItsLimits == Spec => [](WithinLimits /\ OneOrderEach)
<1>1. LimitInv /\ [Next]_vars => LimitInv'
  BY LimitStep
<1>2. QED
  BY <1>1, NothingBought, LimitsKept, PTL DEF Spec
=============================================================================
