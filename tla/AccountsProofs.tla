--------------------------- MODULE AccountsProofs ---------------------------
(***************************************************************************)
(* For any number of accounts, chats, uses and slots: credentials are      *)
(* spent exactly, the members that answer on Telegram are at most Cap and  *)
(* answer for one account each, and no registration that gives up leaves   *)
(* an account nobody knows of.                                             *)
(*                                                                         *)
(* The last part is about what members ask of the request centre: quotas,  *)
(* tickets, and what is told of them (RequestInv).                         *)
(***************************************************************************)
EXTENDS Accounts, SequenceTheorems, FiniteSetTheorems, TLAPS

\* The holder of the lock is a chat, and has an id once Emby has given one.
RegShape ==
  /\ reg.step # "idle" => reg.tg \in Tgs
  /\ reg.step \in {"created", "password", "undo"} => reg.id \in Ids

Answering == {i \in Members : row[i].tg # Null}

\* The two halves of LinksExact.
Unique == \A i, j \in Members : row[i].tg # Null /\ row[i].tg = row[j].tg => i = j
Within == Cardinality(Answering) <= Cap

AInv == TypeOK /\ RegShape /\ CredentialsExact

LEMMA InitAInv == Init => AInv
<1> SUFFICES ASSUME Init PROVE AInv
  OBVIOUS
<1>1. TypeOK
  BY AccountsAssumption DEF Init, TypeOK, Idle
<1>2. RegShape
  BY DEF Init, RegShape, Idle
<1>3. CredentialsExact
  BY AccountsAssumption DEF Init, CredentialsExact
<1>4. QED
  BY <1>1, <1>2, <1>3 DEF AInv

\* What the lists do to the rows keeps the rows' type.
LEMMA ReconciledRows ==
  ASSUME TypeOK, NEW l \in Listers, NEW r \in Reconciled(l)
  PROVE  r \in [Ids -> Rows \cup {Null}]
<1>1. row \in [Ids -> Rows \cup {Null}]
  BY DEF TypeOK, Rows
<1> DEFINE live == listing[l]
<1>2. ASSUME NEW q \in [Ids -> Rows \cup {Null}]
      PROVE  Synced(q, live) \in [Ids -> Rows \cup {Null}]
  <2>1. ASSUME NEW i \in Ids, q[i] # Null
        PROVE  [q[i] EXCEPT !.flag = IF i \in live THEN "clear" ELSE "missing"] \in Rows
    BY <2>1, <1>2 DEF Rows
  <2>2. QED
    BY <2>1, <1>2 DEF Synced
<1>3. ASSUME NEW q \in [Ids -> Rows \cup {Null}]
      PROVE  Enrolled(q, live) \in [Ids -> Rows \cup {Null}]
  BY <1>3 DEF Enrolled, Rows
<1>4. QED
  BY <1>1, <1>2, <1>3 DEF Reconciled

LEMMA CredentialStep ==
  ASSUME AInv, \/ ChangeInvite \/ RevokeCard
               \/ \E t \in Tgs : ChangeGrant(t) \/ Forget(t)
               \/ \E t \in Tgs, c \in {"none", "invite", "redeem"} : Apply(t, c)
  PROVE  AInv'
<1>1. CASE ChangeInvite
  BY <1>1 DEF AInv, TypeOK, RegShape, CredentialsExact, ChangeInvite
<1>2. CASE RevokeCard
  BY <1>2 DEF AInv, TypeOK, RegShape, CredentialsExact, RevokeCard
<1>3. ASSUME NEW t \in Tgs, ChangeGrant(t) PROVE AInv'
  BY <1>3 DEF AInv, TypeOK, RegShape, CredentialsExact, ChangeGrant
<1>4. ASSUME NEW t \in Tgs, NEW c \in {"none", "invite", "redeem"}, Apply(t, c) PROVE AInv'
  BY <1>4 DEF AInv, TypeOK, RegShape, CredentialsExact, Apply, Resolve, credentials
<1>5. ASSUME NEW t \in Tgs, Forget(t) PROVE AInv'
  BY <1>5 DEF AInv, TypeOK, RegShape, CredentialsExact, Forget, credentials
<1>6. QED
  BY <1>1, <1>2, <1>3, <1>4, <1>5

\* The only step that spends: what it spends, it also counts.
LEMMA CommitStep == ASSUME AInv, Commit PROVE AInv'
<1> DEFINE t == reg.tg  via == chat[t]
<1>1. t \in Tgs /\ reg.id \in Ids
  BY DEF AInv, RegShape, Commit
<1>2. /\ via \in {"admin", "invite", "redeem"}
      /\ via = "invite" => invite.left > 0
      /\ via = "redeem" => card = "unused"
  BY <1>1 DEF AInv, TypeOK, Commit, MayRegister, Fresh, Resolve, Usable
<1>3. row' \in [Ids -> Rows \cup {Null}]
  <2>1. row \in [Ids -> Rows \cup {Null}]
    BY DEF AInv, TypeOK, Rows
  <2>2. Registered(row[reg.id], t) \in Rows
    BY <1>1, <2>1 DEF Registered, Rows
  <2>3. QED
    BY <2>1, <2>2 DEF Commit
<1>4. /\ invite' \in [left : Nat, state : {"good", "paused"}]
      /\ card' \in {"unused", "used", "revoked"} /\ grants' \subseteq Tgs
      /\ spent' \in [invite : Nat, redeem : Nat]
  BY <1>2 DEF AInv, TypeOK, Commit, Consume, Recorded
<1>5. reg' = Idle /\ chat' \in [Tgs -> {"none", "admin", "invite", "redeem"}]
  BY DEF Commit, End, AInv, TypeOK
<1>6. CredentialsExact'
  <2>1. CASE via = "invite"
    BY <2>1, <1>2 DEF AInv, TypeOK, CredentialsExact, Commit, Consume, Recorded
  <2>2. CASE via = "redeem"
    BY <2>2, <1>2 DEF AInv, TypeOK, CredentialsExact, Commit, Consume, Recorded
  <2>3. CASE via = "admin"
    BY <2>3 DEF AInv, TypeOK, CredentialsExact, Commit, Consume, Recorded
  <2>4. QED
    BY <1>2, <2>1, <2>2, <2>3
<1>7. TypeOK'
  BY <1>3, <1>4, <1>5 DEF AInv, TypeOK, Commit, Idle, Rows
<1>8. RegShape'
  BY <1>5 DEF RegShape, Idle
<1>9. QED
  BY <1>6, <1>7, <1>8 DEF AInv

\* The rest of the registration task spends nothing.
LEMMA TaskStep ==
  ASSUME AInv, \/ \E t \in Tgs : Begin(t)
               \/ EmbyCreates \/ CreateFailed \/ CreateAnswered \/ PasswordRefused \/ Undo
  PROVE  AInv'
<1> USE DEF AInv, TypeOK, RegShape, CredentialsExact, credentials
<1>1. ASSUME NEW t \in Tgs, Begin(t) PROVE AInv'
  BY <1>1 DEF Begin, Idle
<1>2. CASE EmbyCreates
  <2>1. PICK i \in Ids : /\ emby' = [emby EXCEPT ![i] = "here"]
                         /\ reg' = [reg EXCEPT !.step = "created", !.id = i]
    BY <1>2 DEF EmbyCreates
  <2>2. QED
    BY <1>2, <2>1 DEF EmbyCreates
<1>3. CASE CreateFailed
  BY <1>3 DEF CreateFailed, End, Idle
<1>4. CASE CreateAnswered
  <2>1. CASE row[reg.id] # Null
    BY <1>4, <2>1 DEF CreateAnswered, End, Idle
  <2>2. CASE row[reg.id] = Null
    <3>1. PICK s \in {"password", "undo"} : reg' = [reg EXCEPT !.step = s]
      BY <1>4, <2>2 DEF CreateAnswered
    <3>2. QED
      BY <1>4, <2>2, <3>1 DEF CreateAnswered
  <2>3. QED
    BY <2>1, <2>2
<1>5. CASE PasswordRefused
  BY <1>5 DEF PasswordRefused
<1>6. CASE Undo
  <2>1. PICK done \in BOOLEAN, confirmed \in BOOLEAN :
          /\ emby' = IF done THEN [emby EXCEPT ![reg.id] = "gone"] ELSE emby
          /\ logged' = logged \cup CleanupFailed(reg.id, confirmed)
    BY <1>6 DEF Undo
  <2>2. emby' \in [Ids -> {"unborn", "here", "gone"}] /\ logged' \subseteq Ids
    BY <1>6, <2>1 DEF Undo, CleanupFailed
  <2>3. QED
    BY <1>6, <2>2 DEF Undo, End, Idle
<1>7. QED
  BY <1>1, <1>2, <1>3, <1>4, <1>5, <1>6

LEMMA MemberStep ==
  ASSUME AInv, \/ \E l \in Listers : ListUsers(l) \/ Reconcile(l)
               \/ \E t \in Tgs : Review(t)
               \/ \E t \in Tgs, i \in Ids : AskRebind(t, i)
               \/ \E i \in Ids : Purge(i) \/ Unbind(i) \/ Delete(i) \/ Remove(i) \/ Outside(i)
               \/ Crash
  PROVE  AInv'
<1> USE DEF AInv, RegShape, CredentialsExact, credentials
<1>1. ASSUME NEW l \in Listers, ListUsers(l) PROVE AInv'
  BY <1>1 DEF TypeOK, ListUsers, Here
<1>2. ASSUME NEW l \in Listers, Reconcile(l) PROVE AInv'
  <2>1. row' \in [Ids -> Rows \cup {Null}]
    BY <1>2, ReconciledRows DEF Reconcile
  <2>2. QED
    BY <1>2, <2>1 DEF TypeOK, Rows, Reconcile
<1>3. ASSUME NEW i \in Ids, Purge(i) PROVE AInv'
  BY <1>3 DEF TypeOK, Purge
<1>4. ASSUME NEW i \in Ids, Unbind(i) PROVE AInv'
  <2>1. row \in [Ids -> Rows \cup {Null}] /\ row[i] # Null
    BY <1>4 DEF TypeOK, Rows, Unbind
  <2>2. [row[i] EXCEPT !.tg = Null] \in Rows
    BY <2>1 DEF Rows
  <2>3. row' = [row EXCEPT ![i] = [row[i] EXCEPT !.tg = Null]]
    BY <1>4, <2>1 DEF Unbind
  <2>4. row' \in [Ids -> Rows \cup {Null}]
    BY <2>1, <2>2, <2>3
  <2>5. QED
    BY <1>4, <2>4 DEF TypeOK, Rows, Unbind
<1>5. ASSUME NEW i \in Ids, Delete(i) PROVE AInv'
  <2>1. PICK done \in BOOLEAN, told \in BOOLEAN :
          /\ emby' = IF done THEN [emby EXCEPT ![i] = "gone"] ELSE emby
          /\ row' = IF told THEN [row EXCEPT ![i] = Null] ELSE row
    BY <1>5 DEF Delete
  <2>2. QED
    BY <1>5, <2>1 DEF TypeOK, Delete
<1>6. ASSUME NEW i \in Ids, Outside(i) PROVE AInv'
  BY <1>6 DEF TypeOK, Outside
<1>7. CASE Crash
  BY <1>7 DEF TypeOK, Crash, Idle
<1>8. ASSUME NEW t \in Tgs, Review(t) PROVE AInv'
  <2>1. row' = row \/ (Stands(t) /\ row' = [row EXCEPT ![rebind[t].id].tg = t])
    BY <1>8 DEF Review
  <2>2. CASE row' = row
    BY <1>8, <2>2 DEF Review, TypeOK
  <2>3. CASE Stands(t) /\ row' = [row EXCEPT ![rebind[t].id].tg = t]
    <3>1. row \in [Ids -> Rows \cup {Null}] /\ rebind[t] \in Requests
      BY <1>8 DEF TypeOK, Rows, Review
    <3>2. rebind[t].id \in Ids /\ row[rebind[t].id] \in Rows
      BY <3>1, <2>3 DEF Requests, Stands
    <3>3. [row[rebind[t].id] EXCEPT !.tg = t] \in Rows
      BY <3>2 DEF Rows
    <3>4. row' = [row EXCEPT ![rebind[t].id] = [row[rebind[t].id] EXCEPT !.tg = t]]
      BY <2>3
    <3>5. row' \in [Ids -> Rows \cup {Null}]
      BY <3>1, <3>2, <3>3, <3>4
    <3>6. QED
      BY <1>8, <3>5 DEF Review, TypeOK, Rows
  <2>4. QED
    BY <2>1, <2>2, <2>3
<1>9. ASSUME NEW t \in Tgs, NEW i \in Ids, AskRebind(t, i) PROVE AInv'
  <2>1. [id |-> i, old |-> row[i].tg] \in Requests
    BY <1>9 DEF AskRebind, Requests, TypeOK, Rows
  <2>2. QED
    BY <1>9, <2>1 DEF AskRebind, TypeOK
<1>10. ASSUME NEW i \in Ids, Remove(i) PROVE AInv'
  BY <1>10 DEF TypeOK, Remove
<1>11. QED
  BY <1>1, <1>2, <1>3, <1>4, <1>5, <1>6, <1>7, <1>8, <1>9, <1>10

LEMMA StepAInv == AInv /\ [Next]_vars => AInv'
<1> SUFFICES ASSUME AInv, [Next]_vars PROVE AInv'
  OBVIOUS
<1>1. CASE Next
  BY <1>1, CredentialStep, CommitStep, TaskStep, MemberStep DEF Next
<1>2. CASE UNCHANGED vars
  BY <1>2 DEF vars, AInv, TypeOK, RegShape, CredentialsExact
<1>3. QED
  BY <1>1, <1>2

LEMMA InductiveAInv == Spec => []AInv
BY InitAInv, StepAInv, PTL DEF Spec

\* Types, for all accounts, chats and credentials.
THEOREM AccountsTypeCorrect == Spec => []TypeOK
<1>1. AInv => TypeOK
  BY DEF AInv
<1>2. QED
  BY <1>1, InductiveAInv, PTL

\* Uses that are left and members registered add up, whatever is withdrawn,
\* rolled back or enrolled while a registration waits for Emby.
THEOREM AccountsCredentialsExact == Spec => []CredentialsExact
<1>1. AInv => CredentialsExact
  BY DEF AInv
<1>2. QED
  BY <1>1, InductiveAInv, PTL

-----------------------------------------------------------------------------
(* Links.  Steps write them in four ways only: not at all, away, one that    *)
(* moves to an account which answers for nobody, and the one of a commit.    *)

\* Rows that lose members or links, and gain none, keep both halves.
LEMMA FewerLinks ==
  ASSUME TypeOK, Unique, Within, row' \in [Ids -> Rows \cup {Null}],
         \A i \in Ids : row'[i] # Null /\ row'[i].tg # Null
            => row[i] # Null /\ row[i].tg = row'[i].tg
  PROVE  Unique' /\ Within'
<1>1. Unique'
  BY DEF Unique, Members
<1>2. Answering' \subseteq Answering
  BY DEF Answering, Members
<1>3. IsFiniteSet(Answering)
  BY AccountsAssumption, FS_Subset DEF Answering, Members
<1>4. /\ Cardinality(Answering') <= Cardinality(Answering)
      /\ Cardinality(Answering') \in Nat /\ Cardinality(Answering) \in Nat
  BY <1>2, <1>3, FS_Subset, FS_CardinalityType
<1>5. QED
  BY <1>1, <1>4, AccountsAssumption DEF Within

\* An approved request moves a link to an account that answers for nobody.
LEMMA MovedLink ==
  ASSUME TypeOK, Unique, Within, NEW t \in Tgs, rebind[t] \in Requests, Stands(t),
         row' = [row EXCEPT ![rebind[t].id].tg = t]
  PROVE  Unique' /\ Within'
<1> DEFINE k == rebind[t].id
<1>1. k \in Ids /\ row[k] \in Rows /\ row[k].tg # Null /\ row[k].tg \in Tgs
  BY AccountsAssumption DEF Stands, Requests, TypeOK, Rows
<1>2. /\ row' = [row EXCEPT ![k] = [row[k] EXCEPT !.tg = t]]
      /\ [row[k] EXCEPT !.tg = t] \in Rows
  BY <1>1 DEF Rows
<1>3. /\ row'[k] # Null /\ row'[k].tg = t
      /\ \A i \in Ids \ {k} : row'[i] = row[i]
  BY <1>1, <1>2, AccountsAssumption DEF TypeOK, Rows
<1>4. Members' = Members
  BY <1>1, <1>3, AccountsAssumption DEF Members
<1>5. Unique'
  BY <1>1, <1>3, <1>4 DEF Unique, Members, Stands, Linked
<1>6. Answering' = Answering
  BY <1>1, <1>3, <1>4, AccountsAssumption DEF Answering, Members
<1>7. QED
  BY <1>5, <1>6 DEF Within

\* A commit adds at most one link, of an account that answered for nobody, and
\* finds fewer members than Cap.
LEMMA CommitLink == ASSUME AInv, Unique, Within, Commit PROVE Unique' /\ Within'
<1> DEFINE k == reg.id  t == reg.tg
<1>1. k \in Ids /\ t \in Tgs
  BY DEF AInv, RegShape, Commit
<1>2. Registered(row[k], t) \in Rows /\ Registered(row[k], t).tg = t
  BY <1>1 DEF AInv, TypeOK, Registered, Rows
<1>3. /\ row'[k] # Null /\ row'[k].tg = t
      /\ \A i \in Ids \ {k} : row'[i] = row[i]
  BY <1>1, <1>2, AccountsAssumption DEF Commit, AInv, TypeOK
<1>4. Unique'
  BY <1>1, <1>3 DEF Unique, Members, Linked, Commit, MayRegister, Fresh
<1>5. Answering' \subseteq Answering \cup {k}
  BY <1>3 DEF Answering, Members
<1>6. /\ IsFiniteSet(Members) /\ Cardinality(Members) < Cap
      /\ Answering \ {k} \subseteq Members
  BY AccountsAssumption, FS_Subset DEF Answering, Members, Commit, MayRegister, SlotFree
<1>7. /\ IsFiniteSet(Answering \ {k})
      /\ Cardinality(Answering \ {k}) <= Cardinality(Members)
      /\ Cardinality(Answering \ {k}) \in Nat /\ Cardinality(Members) \in Nat
  BY <1>6, FS_Subset, FS_CardinalityType
<1>8. /\ IsFiniteSet((Answering \ {k}) \cup {k})
      /\ Cardinality((Answering \ {k}) \cup {k}) = Cardinality(Answering \ {k}) + 1
  BY <1>7, FS_AddElement
<1>9. Cardinality(Answering') <= Cardinality(Answering \ {k}) + 1
  <2>1. Answering' \subseteq (Answering \ {k}) \cup {k}
    BY <1>5
  <2>2. QED
    BY <2>1, <1>8, FS_Subset
<1>10. Cardinality(Answering') \in Nat
  BY <1>5, <1>8, FS_Subset, FS_CardinalityType
<1>11. Within'
  BY <1>6, <1>7, <1>9, <1>10, AccountsAssumption DEF Within
<1>12. QED
  BY <1>4, <1>11

LinkInv == AInv /\ Unique /\ Within

LEMMA StepLinkInv == LinkInv /\ [Next]_vars => LinkInv'
<1> SUFFICES ASSUME LinkInv, [Next]_vars PROVE LinkInv'
  OBVIOUS
<1>1. AInv' /\ TypeOK /\ row' \in [Ids -> Rows \cup {Null}] /\ row \in [Ids -> Rows \cup {Null}]
  <2>1. AInv'
    BY StepAInv DEF LinkInv
  <2>2. QED
    BY <2>1 DEF LinkInv, AInv, TypeOK, Rows
<1>2. CASE UNCHANGED row
  BY <1>1, <1>2, FewerLinks DEF LinkInv
<1>3. CASE Commit
  BY <1>1, <1>3, CommitLink DEF LinkInv
<1>4. ASSUME NEW l \in Listers, Reconcile(l) PROVE LinkInv'
  <2> DEFINE live == listing[l]
             Kept(q) == \A i \in Ids : q[i] # Null /\ q[i].tg # Null
                                         => row[i] # Null /\ row[i].tg = q[i].tg
  <2>1. Kept(row) /\ Kept(Synced(row, live))
    <3>1. ASSUME NEW i \in Ids, row[i] # Null,
                 NEW f \in {"clear", "missing"}
          PROVE  [row[i] EXCEPT !.flag = f].tg = row[i].tg
      BY <3>1, <1>1 DEF Rows
    <3>2. QED
      BY <3>1 DEF Synced
  <2>2. ASSUME NEW q \in {row, Synced(row, live)} PROVE Kept(Enrolled(q, live))
    BY <2>1, <2>2 DEF Enrolled
  <2>3. row' \in {row, Synced(row, live), Enrolled(row, live), Enrolled(Synced(row, live), live)}
    BY <1>4 DEF Reconcile, Reconciled
  <2>4. Kept(row')
    BY <2>1, <2>2, <2>3
  <2>5. QED
    BY <1>1, <2>4, FewerLinks DEF LinkInv
<1>5. ASSUME NEW i \in Ids, Purge(i) \/ Delete(i) \/ Remove(i) PROVE LinkInv'
  <2>1. row' = row \/ row' = [row EXCEPT ![i] = Null]
    BY <1>5 DEF Purge, Delete, Remove
  <2>2. \A j \in Ids : row'[j] = row[j] \/ row'[j] = Null
    BY <2>1, <1>1
  <2>3. QED
    BY <1>1, <2>2, FewerLinks DEF LinkInv
<1>6. ASSUME NEW i \in Ids, Unbind(i) PROVE LinkInv'
  <2>1. row' = [row EXCEPT ![i] = [row[i] EXCEPT !.tg = Null]] /\ row[i] \in Rows
    BY <1>6, <1>1 DEF Unbind
  <2>2. row'[i].tg = Null /\ \A j \in Ids \ {i} : row'[j] = row[j]
    BY <2>1, <1>1 DEF Rows
  <2>3. QED
    BY <1>1, <2>2, FewerLinks DEF LinkInv
<1>7. ASSUME NEW t \in Tgs, Review(t) PROVE LinkInv'
  <2>1. CASE row' = row
    BY <2>1, <1>2
  <2>2. CASE Stands(t) /\ row' = [row EXCEPT ![rebind[t].id].tg = t]
    <3>1. rebind[t] \in Requests
      BY <1>1, <1>7 DEF Review, TypeOK
    <3>2. QED
      BY <1>1, <2>2, <3>1, MovedLink DEF LinkInv
  <2>3. QED
    BY <1>7, <2>1, <2>2 DEF Review
<1>8. QED
  <2>1. ASSUME \/ ChangeInvite \/ RevokeCard
               \/ \E t \in Tgs : ChangeGrant(t) \/ Forget(t) \/ Begin(t)
               \/ \E t \in Tgs, c \in {"none", "invite", "redeem"} : Apply(t, c)
               \/ \E t \in Tgs, i \in Ids : AskRebind(t, i)
        PROVE  UNCHANGED row
    BY <2>1 DEF ChangeInvite, RevokeCard, ChangeGrant, Forget, Begin, Apply, AskRebind
  <2>2. ASSUME \/ EmbyCreates \/ CreateFailed \/ CreateAnswered \/ PasswordRefused \/ Undo
               \/ \E l \in Listers : ListUsers(l)
               \/ \E i \in Ids : Outside(i)
               \/ Crash \/ UNCHANGED vars
        PROVE  UNCHANGED row
    BY <2>2 DEF EmbyCreates, CreateFailed, CreateAnswered, PasswordRefused, Undo, ListUsers,
                Outside, Crash, vars
  <2>3. QED
    BY <2>1, <2>2, <1>2, <1>3, <1>4, <1>5, <1>6, <1>7 DEF Next

\* At most Cap members answer on Telegram, and each Telegram account for one.
THEOREM AccountsLinksExact == Spec => []LinksExact
<1>1. Init => LinkInv
  <2> SUFFICES ASSUME Init PROVE LinkInv
    OBVIOUS
  <2>1. Members = {} /\ Answering = {}
    BY DEF Init, Members, Answering
  <2>2. QED
    BY <2>1, InitAInv, FS_EmptySet, AccountsAssumption DEF LinkInv, Unique, Within
<1>2. LinkInv => LinksExact
  BY DEF LinkInv, Unique, Within, Answering, LinksExact
<1>3. QED
  BY <1>1, <1>2, StepLinkInv, PTL DEF Spec

-----------------------------------------------------------------------------
\* A registration that gives up has deleted its account, or has it on record.
LEMMA GivingUp ==
  ASSUME AInv, Next, reg.step \in {"password", "undo"}, reg'.step = "idle", ~Crash
  PROVE  emby'[reg.id] # "here" \/ reg.id \in logged' \/ row'[reg.id] # Null
<1>1. Commit \/ Undo
  <2>1. reg' # reg
    OBVIOUS
  <2>2. /\ ~CreateFailed /\ ~CreateAnswered /\ ~EmbyCreates
        /\ \A t \in Tgs : ~Begin(t)
    <3>1. reg.step \notin {"idle", "creating", "created"}
      OBVIOUS
    <3>2. ASSUME NEW t \in Tgs PROVE ~Begin(t)
      BY <3>1 DEF Begin, Idle
    <3>3. ~CreateFailed
      BY <3>1 DEF CreateFailed
    <3>4. ~CreateAnswered
      BY <3>1 DEF CreateAnswered
    <3>5. ~EmbyCreates
      BY <3>1 DEF EmbyCreates
    <3>6. QED
      BY <3>2, <3>3, <3>4, <3>5
  <2>3. ~PasswordRefused
    BY DEF PasswordRefused, AInv, TypeOK
  <2>4. /\ ~ChangeInvite /\ ~RevokeCard /\ \A t \in Tgs : ~ChangeGrant(t) /\ ~Forget(t) /\ ~Review(t)
        /\ \A t \in Tgs, i \in Ids : ~AskRebind(t, i)
        /\ \A t \in Tgs, c \in {"none", "invite", "redeem"} : ~Apply(t, c)
        /\ \A l \in Listers : ~ListUsers(l) /\ ~Reconcile(l)
        /\ \A i \in Ids : ~Purge(i) /\ ~Unbind(i) /\ ~Delete(i) /\ ~Remove(i) /\ ~Outside(i)
    BY <2>1 DEF ChangeInvite, RevokeCard, ChangeGrant, Forget, Apply, ListUsers, Reconcile,
                Purge, Unbind, Delete, Remove, Outside, Review, AskRebind
  <2>5. QED
    BY <2>2, <2>3, <2>4 DEF Next
<1>2. reg.id \in Ids /\ reg.tg \in Tgs
  BY DEF AInv, RegShape
<1>3. CASE Commit
  <2>1. Registered(row[reg.id], reg.tg) \in Rows
    BY <1>2 DEF AInv, TypeOK, Registered, Rows
  <2>2. row'[reg.id] \in Rows
    BY <1>2, <1>3, <2>1 DEF Commit, AInv, TypeOK
  <2>3. QED
    BY <2>2, AccountsAssumption
<1>4. CASE Undo
  <2>1. PICK done \in BOOLEAN, confirmed \in BOOLEAN :
          /\ confirmed => done
          /\ emby' = IF done THEN [emby EXCEPT ![reg.id] = "gone"] ELSE emby
          /\ logged' = logged \cup CleanupFailed(reg.id, confirmed)
    BY <1>4 DEF Undo
  <2>2. CASE confirmed
    BY <1>2, <2>1, <2>2 DEF AInv, TypeOK
  <2>3. CASE ~confirmed
    BY <2>1, <2>3 DEF CleanupFailed
  <2>4. QED
    BY <2>2, <2>3
<1>5. QED
  BY <1>1, <1>3, <1>4

\* Short of a crash no account is left that nobody knows of.
THEOREM AccountsNoSilentOrphan == Spec => NoSilentOrphan
<1>1. AInv /\ [Next]_vars =>
        [ reg.step \in {"password", "undo"} /\ reg'.step = "idle" /\ ~Crash
          => emby'[reg.id] # "here" \/ reg.id \in logged' \/ row'[reg.id] # Null ]_vars
  BY GivingUp
<1>2. QED
  BY <1>1, InductiveAInv, PTL DEF Spec, NoSilentOrphan
(*-------------------------------------------------------------------------*)
(* The request centre, whose tables are apart from the accounts.           *)
CONSTANTS Askers, Demands, CreateKeys, Callers, Flushers, Quota, Staff, MaxTickets, MaxRevision, MaxRows,
          MaxMonth, MaxChanges, MaxFaults, MaxCards, MaxPolls
VARIABLES tickets, followers, counter, uploaders, askers, drafts, calls, cards, watches, poll, library,
          outbox, flush, word, month, changes, mishaps, polls

R == INSTANCE Requests WITH Users <- Askers, Keys <- CreateKeys, MaxRequests <- MaxTickets, requests <- tickets,
                            members <- askers, told <- word, faults <- mishaps

IsDraft(x) == x = [user |-> x.user, demand |-> x.demand]
IsCard(x) == x = [user |-> x.user, rid |-> x.rid, revision |-> x.revision, view |-> x.view]
IsWatch(x) == x = [state |-> x.state, stage |-> x.stage]
IsHeld(x) == x = [row |-> x.row, status |-> x.status, revision |-> x.revision]

(* The rows of a table are not Null, and there are finitely many accounts. *)
RequestConstants ==
  /\ R!RequestBounds /\ IsFiniteSet(Askers) /\ Null \notin CreateKeys
  /\ ~IsDraft(Null) /\ ~IsWatch(Null) /\ ~IsHeld(Null)

Tickets == [owner : Askers, demand : Demands, status : R!Statuses, revision : Nat, month : Nat, refunded : BOOLEAN,
            key : CreateKeys]
LetterKeys == [kind : {"new", "result", "library"}, rid : 1 .. MaxTickets, n : Nat, to : Askers]
Letters == [key : LetterKeys, body : R!Statuses \cup {""}, state : {"pending", "held", "later", "sent"}]

Tables ==
  /\ tickets \in Seq(Tickets) /\ Len(tickets) <= MaxTickets
  /\ followers \in [R!AllIds -> SUBSET Askers] /\ counter \in [Askers -> [used : Nat, period : Nat]]
  /\ askers \subseteq Askers /\ uploaders \subseteq Askers /\ month \in Nat

Drafting ==
  /\ drafts = [k \in CreateKeys |-> drafts[k]] /\ calls = [c \in Callers |-> calls[c]]
  /\ \A k \in CreateKeys : drafts[k] # Null => IsDraft(drafts[k]) /\ drafts[k].user \in Askers /\ drafts[k].demand \in Demands
  /\ \A c \in Callers : calls[c] # Null => calls[c] \in CreateKeys /\ drafts[calls[c]] # Null

(* Cards and polls are about tickets that exist.                           *)
References ==
  /\ \A paper \in cards : IsCard(paper) /\ paper.rid \in R!Ids
  /\ library \in [Demands -> Nat] /\ poll = [left |-> poll.left, hit |-> poll.hit]
  /\ \A w \in poll.left : w.rid \in R!Ids /\ w.demand \in Demands
  /\ poll.hit # Null => poll.hit.rid \in R!Ids /\ poll.hit.stage \in Nat

Watches ==
  /\ watches = [r \in R!AllIds |-> watches[r]]
  /\ \A r \in R!AllIds : watches[r] # Null => IsWatch(watches[r]) /\ r \in R!Ids
  /\ R!WatchedWhileAccepted

(* A ticket is of a month that its owner's counter has come to.            *)
Counted ==
  /\ R!QuotaExact
  /\ \A u \in Askers : counter[u].period <= month
  /\ \A r \in R!Ids : tickets[r].month <= counter[tickets[r].owner].period

(* A result is queued for who is concerned, and under a revision that the   *)
(* ticket has had.                                                         *)
About(key) ==
  /\ key.rid \in R!Ids
  /\ key.kind = "result" => key.n <= tickets[key.rid].revision /\ key.to \in R!Concerned(key.rid)
Post ==
  /\ outbox \in Seq(Letters)
  /\ \A i \in DOMAIN outbox : About(outbox[i].key)
  /\ flush = [f \in Flushers |-> flush[f]]
  /\ \A f \in Flushers : flush[f] # Null => IsHeld(flush[f]) /\ flush[f].row \in DOMAIN outbox

(* Only who is concerned was told; what he was told last stands, or says    *)
(* itself that it does not, or more is on its way.                         *)
Right(u, r) ==
  \/ R!Undelivered(u, r) \/ word[u][r].outdated \/ word[u][r].raced
  \/ word[u][r].status = tickets[r].status
Words ==
  /\ word = [u \in Askers |-> [r \in R!AllIds |-> word[u][r]]]
  /\ \A u \in Askers, r \in R!AllIds :
       word[u][r] # Null => r \in R!Ids /\ u \in R!Concerned(r) /\ (u \in askers => Right(u, r))

RequestInv == Tables /\ Drafting /\ References /\ Watches /\ R!OneOpenTicket /\ Counted /\ Post /\ Words

LEMMA CountIsCount == \A S : R!Cardinality(S) = Cardinality(S)
BY Zenon DEF R!Cardinality, Cardinality

LEMMA RequestInit == ASSUME RequestConstants, R!Init PROVE RequestInv
<1>0. MaxTickets \in Nat /\ R!AllIds = 1 .. MaxTickets /\ Quota \in Nat /\ Staff \subseteq Askers
  BY DEF RequestConstants, R!RequestBounds, R!AllIds
<1>2. R!Ids = {} /\ tickets = <<>>
  BY DEF R!Ids, R!Init
<1>1. Tables
  BY <1>0, <1>2 DEF R!Init, Tables
<1>3. References /\ Drafting
  BY <1>2 DEF R!Init, References, Drafting
<1>4. Watches /\ R!OneOpenTicket
  BY <1>2 DEF R!Init, Watches, R!WatchedWhileAccepted, R!OneOpenTicket
<1>5. Counted
  <2>1. \A u \in Askers : R!Billed(u) = {}
    BY <1>2 DEF R!Billed
  <2>2. \A u \in Askers : counter[u].used = R!Cardinality(R!Billed(u)) /\ counter[u].period = 0 /\ counter[u].used = 0
    BY <2>1, FS_EmptySet, CountIsCount DEF R!Init
  <2>3. R!QuotaExact
    BY <2>2, <1>0 DEF R!QuotaExact
  <2> QED
    BY <1>2, <2>2, <2>3 DEF Counted, R!Init
<1>6. Post
  BY <1>2 DEF R!Init, Post
<1>7. Words
  BY <1>2 DEF R!Init, Words
<1> QED
  BY <1>1, <1>3, <1>4, <1>5, <1>6, <1>7 DEF RequestInv

(* The outbox.                                                             *)
LEMMA AllOfASet ==
  ASSUME NEW S, IsFiniteSet(S)
  PROVE  R!SetToSeq(S) \in Seq(S) /\ \A x \in S : \E i \in DOMAIN R!SetToSeq(S) : R!SetToSeq(S)[i] = x
<1> DEFINE n == Cardinality(S)
<1> DEFINE s == R!SetToSeq(S)
<1>1. n \in Nat /\ ExistsBijection(1 .. n, S)
  BY FS_CardinalityType
<1>2. PICK b : b \in Bijection(1 .. n, S)
  BY <1>1 DEF ExistsBijection
<1>3. b \in [1 .. n -> S] /\ R!IsInjective(b)
  BY <1>2 DEF Bijection, Injection, IsInjective, R!IsInjective
<1>4. R!Cardinality(S) = n
  BY CountIsCount, Zenon
<1>5. s = CHOOSE f \in [1 .. n -> S] : R!IsInjective(f)
  BY <1>4, Zenon DEF R!SetToSeq
<1> HIDE DEF s, n
<1>6. s \in [1 .. n -> S] /\ R!IsInjective(s)
  BY <1>3, <1>5
<1>7. s \in Injection(1 .. n, S)
  BY <1>6 DEF Injection, IsInjective, R!IsInjective
<1>8. IsFiniteSet(1 .. n) /\ Cardinality(1 .. n) = n
  BY <1>1, FS_Interval
<1>9. s \in Surjection(1 .. n, S)
  BY <1>7, <1>8, FS_Injection DEF n
<1>10. s \in Seq(S) /\ DOMAIN s = 1 .. n
  BY <1>1, <1>6
<1>11. \A x \in S : \E i \in DOMAIN s : s[i] = x
  BY <1>9, <1>10 DEF Surjection
<1> QED
  BY <1>10, <1>11 DEF s

(* What is queued: the old rows stay, and each new one is there unless a    *)
(* letter with its key is.                                                    *)
Queued(rows) ==
  /\ outbox' \in Seq(Letters) /\ DOMAIN outbox \subseteq DOMAIN outbox'
  /\ \A i \in DOMAIN outbox : outbox'[i] = outbox[i]
  /\ \A i \in DOMAIN outbox' \ DOMAIN outbox : outbox'[i] \in rows
  /\ \A letter \in rows : letter.key \in R!KeysIn(outbox) \/ \E i \in DOMAIN outbox' : outbox'[i] = letter

LEMMA Queueing ==
  ASSUME outbox \in Seq(Letters), NEW rows, rows \subseteq Letters, IsFiniteSet(rows), R!Queue(rows)
  PROVE  Queued(rows)
<1> DEFINE new == {letter \in rows : letter.key \notin R!KeysIn(outbox)}
<1> DEFINE s == R!SetToSeq(new)
<1>1. IsFiniteSet(new) /\ new \subseteq rows
  BY FS_Subset
<1>2. outbox' = outbox \o s
  BY DEF R!Queue
<1>3. s \in Seq(new) /\ \A x \in new : \E i \in DOMAIN s : s[i] = x
  BY <1>1, AllOfASet
<1> HIDE DEF s
<1>4. s \in Seq(Letters) /\ DOMAIN s = 1 .. Len(s) /\ Len(s) \in Nat /\ \A i \in DOMAIN s : s[i] \in rows
  BY <1>1, <1>3
<1>5. /\ DOMAIN outbox = 1 .. Len(outbox) /\ Len(outbox) \in Nat
      /\ outbox' \in Seq(Letters) /\ DOMAIN outbox' = 1 .. Len(outbox) + Len(s)
      /\ \A i \in 1 .. Len(outbox) : outbox'[i] = outbox[i]
      /\ \A i \in 1 .. Len(s) : outbox'[Len(outbox) + i] = s[i]
  BY <1>2, <1>4, ConcatProperties
<1>6. \A i \in DOMAIN outbox' \ DOMAIN outbox : outbox'[i] \in rows
  <2> TAKE i \in DOMAIN outbox' \ DOMAIN outbox
  <2>1. i - Len(outbox) \in 1 .. Len(s) /\ i = Len(outbox) + (i - Len(outbox))
    BY <1>4, <1>5
  <2> QED
    BY <1>4, <1>5, <2>1
<1>7. \A letter \in new : \E i \in DOMAIN outbox' : outbox'[i] = letter
  <2> TAKE letter \in new
  <2>1. PICK i \in DOMAIN s : s[i] = letter
    BY <1>3
  <2>2. Len(outbox) + i \in DOMAIN outbox' /\ outbox'[Len(outbox) + i] = letter
    BY <1>4, <1>5, <2>1
  <2> QED
    BY <2>2
<1> QED
  BY <1>5, <1>6, <1>7 DEF Queued

(* What a step leaves alone.                                               *)
(* Tickets are added, and of those there are only the status, the revision, *)
(* the demand and the refund change; who is concerned stays so.            *)
Grown ==
  /\ R!Ids \subseteq R!Ids'
  /\ \A r \in R!Ids : tickets'[r].revision >= tickets[r].revision /\ R!Concerned(r) \subseteq R!Concerned(r)'

LEMMA TicketTypes == ASSUME tickets \in Seq(Tickets), NEW r \in R!Ids PROVE tickets[r] \in Tickets
BY DEF R!Ids

LEMMA LetterTypes ==
  ASSUME outbox \in Seq(Letters), NEW i \in DOMAIN outbox
  PROVE  /\ outbox[i] \in Letters /\ outbox[i].key \in LetterKeys /\ outbox[i].key.n \in Nat
         /\ outbox[i].key.rid \in 1 .. MaxTickets /\ outbox[i].key.to \in Askers
<1>1. outbox[i] \in Letters
  OBVIOUS
<1>2. outbox[i].key \in LetterKeys
  BY <1>1 DEF Letters
<1> QED
  BY <1>1, <1>2 DEF LetterKeys

LEMMA AboutKept ==
  ASSUME Tables, Tables', Grown, NEW key \in LetterKeys, About(key) PROVE About(key)'
<1>1. PICK r : r = key.rid
  OBVIOUS
<1>2. r \in R!Ids /\ r \in R!Ids' /\ R!Concerned(r) \subseteq R!Concerned(r)'
  BY <1>1 DEF Grown, About
<1>3. tickets[r] \in Tickets /\ tickets'[r] \in Tickets
  BY <1>2 DEF Tables, R!Ids
<1>4. tickets[r].revision \in Nat /\ tickets'[r].revision \in Nat /\ tickets'[r].revision >= tickets[r].revision
  BY <1>2, <1>3 DEF Grown, Tickets
<1>5. key.n \in Nat
  BY DEF LetterKeys
<1> QED
  BY <1>1, <1>2, <1>4, <1>5 DEF About

LEMMA PostKept == ASSUME Tables, Tables', Post, Grown, UNCHANGED <<outbox, flush>> PROVE Post'
<1>1. ASSUME NEW i \in DOMAIN outbox' PROVE About(outbox[i].key)'
  <2>1. PICK key : key = outbox[i].key
    OBVIOUS
  <2>2. i \in DOMAIN outbox /\ outbox'[i].key = key
    BY <1>1, <2>1
  <2>3. key \in LetterKeys /\ About(key)
    BY <2>1, <2>2, LetterTypes DEF Post
  <2>4. About(key)'
    BY <2>3, AboutKept
  <2> QED
    BY <2>2, <2>4 DEF About
<1> QED
  BY <1>1 DEF Post

(* What was right stays right while no ticket is decided.                  *)
LEMMA WordsKept ==
  ASSUME Words, Grown, \A r \in R!Ids : tickets'[r].status = tickets[r].status, askers' \subseteq askers,
         word' = word, \A u \in Askers, r \in R!Ids : R!Undelivered(u, r) => R!Undelivered(u, r)'
  PROVE  Words'
<1>1. ASSUME NEW u \in Askers, NEW r \in R!AllIds, word[u][r] # Null
      PROVE  r \in R!Ids' /\ u \in R!Concerned(r)' /\ (u \in askers' => Right(u, r)')
  <2>1. r \in R!Ids /\ u \in R!Concerned(r) /\ (u \in askers => Right(u, r))
    BY <1>1 DEF Words
  <2> QED
    BY <2>1 DEF Right, Grown
<1> QED
  BY <1>1 DEF Words

(* The tickets, the quotas and the mail are as they were.                  *)
Still == /\ UNCHANGED <<tickets, followers, counter, outbox, flush, word>>
         /\ askers' \subseteq askers /\ uploaders' \subseteq Askers /\ month' \in Nat /\ month' >= month

LEMMA StillKeeps ==
  ASSUME RequestInv, Still, Drafting', References', Watches'
  PROVE  RequestInv'
<1>1. R!Ids' = R!Ids /\ R!AllIds' = R!AllIds /\ \A r : R!Concerned(r)' = R!Concerned(r)
  BY DEF Still, R!Ids, R!AllIds, R!Concerned
<1>2. Tables'
  BY <1>1 DEF Still, RequestInv, Tables
<1>3. Grown
  <2>1. \A r \in R!Ids : tickets[r].revision \in Nat
    BY TicketTypes DEF RequestInv, Tables, Tickets
  <2> QED
    BY <1>1, <2>1 DEF Grown, Still
<1>4. Post' /\ Words'
  BY <1>1, <1>2, <1>3, PostKept, WordsKept DEF Still, RequestInv, R!Undelivered
<1>5. R!OneOpenTicket'
  BY <1>1 DEF Still, RequestInv, R!OneOpenTicket
<1>6. \A u \in Askers : R!Billed(u)' = R!Billed(u)
  BY <1>1 DEF R!Billed, Still
<1>7. R!QuotaExact'
  BY <1>6, Zenon DEF Still, RequestInv, Counted, R!QuotaExact
<1>8. \A u \in Askers : counter'[u].period <= month'
  BY DEF Still, RequestInv, Counted, Tables
<1>9. Counted'
  BY <1>1, <1>7, <1>8 DEF Still, RequestInv, Counted
<1> QED
  BY <1>2, <1>4, <1>5, <1>9 DEF RequestInv

LEMMA IdsAreIds == ASSUME RequestConstants, RequestInv PROVE R!Ids \subseteq R!AllIds
BY DEF RequestConstants, R!RequestBounds, RequestInv, Tables, R!Ids, R!AllIds

LEMMA WatchesKept ==
  ASSUME RequestInv, UNCHANGED <<tickets, watches>> PROVE Watches'
BY DEF RequestInv, Watches, R!WatchedWhileAccepted, R!Ids, R!AllIds

LEMMA ReferencesKept ==
  ASSUME RequestInv, R!Ids \subseteq R!Ids', UNCHANGED <<poll, library>>, cards' = cards
  PROVE  References'
BY DEF RequestInv, References

LEMMA DraftingKept == ASSUME RequestInv, UNCHANGED <<drafts, calls>> PROVE Drafting'
BY DEF RequestInv, Drafting

(* Drafts and cards.                                                       *)
LEMMA DraftStep ==
  ASSUME RequestInv,
         \/ \E u \in Askers, k \in CreateKeys, d \in Demands : R!Preview(u, k, d)
         \/ \E c \in Callers, k \in CreateKeys : R!Submit(c, k)
  PROVE  RequestInv'
<1>1. Still /\ UNCHANGED <<cards, poll, library, watches>>
  BY DEF R!Preview, R!Submit, R!ticketVars, R!peopleVars, R!pollVars, R!postVars, Still, RequestInv, Tables
<1>2. References' /\ Watches'
  BY <1>1, ReferencesKept, WatchesKept DEF Still, R!Ids
<1>3. Drafting'
  <2>1. ASSUME NEW u \in Askers, NEW k \in CreateKeys, NEW d \in Demands, R!Preview(u, k, d) PROVE Drafting'
    <3>1. drafts[k] = Null /\ drafts' = [drafts EXCEPT ![k] = [user |-> u, demand |-> d]] /\ calls' = calls
      BY <2>1 DEF R!Preview, R!ticketVars, R!peopleVars, R!pollVars, R!postVars
    <3>2. IsDraft([user |-> u, demand |-> d])
      BY DEF IsDraft
    <3>3. \A j \in CreateKeys : drafts'[j] = IF j = k THEN [user |-> u, demand |-> d] ELSE drafts[j]
      BY <3>1 DEF RequestInv, Drafting
    <3>4. \A j \in CreateKeys : drafts[j] # Null => drafts'[j] = drafts[j]
      BY <3>1, <3>3
    <3>5. drafts' = [j \in CreateKeys |-> drafts'[j]]
      BY <3>1 DEF RequestInv, Drafting
    <3>6. \A c \in Callers : calls'[c] # Null => calls'[c] \in CreateKeys /\ drafts'[calls'[c]] # Null
      BY <3>1, <3>4 DEF RequestInv, Drafting
    <3>7. \A j \in CreateKeys : drafts'[j] # Null => IsDraft(drafts'[j]) /\ drafts'[j].user \in Askers /\ drafts'[j].demand \in Demands
      BY <3>2, <3>3 DEF RequestInv, Drafting
    <3> QED
      BY <3>1, <3>5, <3>6, <3>7 DEF RequestInv, Drafting
  <2>2. ASSUME NEW c \in Callers, NEW k \in CreateKeys, R!Submit(c, k) PROVE Drafting'
    BY <2>2 DEF R!Submit, RequestInv, Drafting
  <2> QED
    BY <2>1, <2>2
<1> QED
  BY <1>1, <1>2, <1>3, StillKeeps

LEMMA CardShown ==
  ASSUME NEW paper, IsCard(paper), NEW n
  PROVE  IsCard([paper EXCEPT !.revision = n]) /\ [paper EXCEPT !.revision = n].rid = paper.rid
<1>1. [paper EXCEPT !.revision = n] = [user |-> paper.user, rid |-> paper.rid, revision |-> n, view |-> paper.view]
  BY DEF IsCard
<1> QED
  BY <1>1 DEF IsCard

(* Cards that are painted are of tickets that exist.                       *)
LEMMA CardsPainted ==
  ASSUME RequestInv, R!Ids \subseteq R!Ids', UNCHANGED <<poll, library>>,
         \A x \in cards' : x \in cards \/ (IsCard(x) /\ x.rid \in R!Ids)
  PROVE  References'
BY DEF RequestInv, References

LEMMA CardStep ==
  ASSUME RequestInv,
         \/ \E u \in Askers, r \in R!Ids, v \in {"staff", "user"} : R!View(u, r, v)
         \/ \E paper \in cards : R!Repaint(paper)
  PROVE  RequestInv'
<1>1. Still /\ UNCHANGED <<poll, library, watches, drafts, calls>>
  BY DEF R!View, R!Repaint, R!ticketVars, R!peopleVars, R!draftVars, R!pollVars, R!postVars, Still, RequestInv, Tables
<1>2. Drafting' /\ Watches' /\ R!Ids' = R!Ids
  BY <1>1, DraftingKept, WatchesKept DEF Still, R!Ids
<1>3. \A x \in cards' : x \in cards \/ (IsCard(x) /\ x.rid \in R!Ids)
  <2>1. ASSUME NEW u \in Askers, NEW r \in R!Ids, NEW v \in {"staff", "user"}, R!View(u, r, v)
        PROVE  \A x \in cards' : x \in cards \/ (IsCard(x) /\ x.rid \in R!Ids)
    <3>1. cards' = cards \cup {[user |-> u, rid |-> r, revision |-> tickets[r].revision, view |-> v]}
      BY <2>1 DEF R!View
    <3> QED
      BY <3>1 DEF IsCard
  <2>2. ASSUME NEW paper \in cards, R!Repaint(paper)
        PROVE  \A x \in cards' : x \in cards \/ (IsCard(x) /\ x.rid \in R!Ids)
    <3>1. \A x \in cards' : x \in cards \/ x = [paper EXCEPT !.revision = tickets[paper.rid].revision]
      BY <2>2 DEF R!Repaint
    <3>2. IsCard(paper) /\ paper.rid \in R!Ids
      BY DEF RequestInv, References
    <3>3. PICK n : n = tickets[paper.rid].revision
      OBVIOUS
    <3>4. PICK y : y = [paper EXCEPT !.revision = n]
      OBVIOUS
    <3>5. IsCard(y) /\ y.rid = paper.rid
      BY <3>2, <3>4, CardShown, Zenon
    <3> QED
      BY <3>1, <3>2, <3>3, <3>4, <3>5
  <2> QED
    BY <2>1, <2>2
<1> QED
  BY <1>1, <1>2, <1>3, CardsPainted, StillKeeps

(* The world and the poll.                                                 *)
LEMMA WorldStep ==
  ASSUME RequestInv,
         \/ \E u \in Askers : R!SetRole(u) \/ R!DeleteMember(u)
         \/ R!NextMonth
  PROVE  RequestInv'
<1>1. UNCHANGED <<tickets, followers, counter, watches, drafts, calls, cards, poll, library, outbox, flush, word>>
  BY DEF R!SetRole, R!DeleteMember, R!NextMonth, R!ticketVars, R!draftVars, R!pollVars, R!postVars
<1>2. month \in Nat /\ uploaders \subseteq Askers
  BY DEF RequestInv, Tables
<1>3. month' \in Nat /\ month' >= month /\ uploaders' \subseteq Askers /\ askers' \subseteq askers
  BY <1>2 DEF R!SetRole, R!DeleteMember, R!NextMonth
<1>4. Still
  BY <1>1, <1>3 DEF Still
<1> QED
  BY <1>1, <1>4, StillKeeps, ReferencesKept, WatchesKept, DraftingKept DEF R!Ids

LEMMA LibraryStep == ASSUME RequestInv, NEW d \in Demands, R!Arrive(d) PROVE RequestInv'
<1>1. Still /\ UNCHANGED <<poll, cards, watches, drafts, calls>> /\ R!Ids' = R!Ids
  BY DEF R!Arrive, R!ticketVars, R!peopleVars, R!draftVars, R!postVars, Still, RequestInv, Tables, R!Ids
<1>2. library' = [library EXCEPT ![d] = library[d] + 1] /\ library \in [Demands -> Nat]
  BY DEF R!Arrive, RequestInv, References
<1>3. library' \in [Demands -> Nat]
  BY <1>2
<1>4. References'
  BY <1>1, <1>3 DEF RequestInv, References
<1> QED
  BY <1>1, <1>4, WatchesKept, DraftingKept, StillKeeps DEF Still

LEMMA LookupStep == ASSUME RequestInv, NEW w \in poll.left, R!Lookup(w) PROVE RequestInv'
<1>1. Still /\ UNCHANGED <<library, cards, watches, drafts, calls>> /\ R!Ids' = R!Ids
  BY DEF R!Lookup, R!ticketVars, R!peopleVars, R!draftVars, R!postVars, Still, RequestInv, Tables, R!Ids
<1>2. References'
  <2>1. w.rid \in R!Ids /\ w.demand \in Demands /\ library[w.demand] \in Nat
    BY DEF RequestInv, References
  <2>2. /\ poll' = [left |-> poll'.left, hit |-> poll'.hit] /\ poll'.left \subseteq poll.left
        /\ \/ poll'.hit = Null
           \/ poll'.hit = [rid |-> w.rid, stage |-> library[w.demand], demand |-> w.demand]
    BY DEF R!Lookup
  <2>3. poll'.hit # Null => poll'.hit.rid \in R!Ids /\ poll'.hit.stage \in Nat
    BY <2>1, <2>2
  <2> QED
    BY <1>1, <2>2, <2>3 DEF RequestInv, References
<1> QED
  BY <1>1, <1>2, WatchesKept, DraftingKept, StillKeeps DEF Still

LEMMA WatchWritten ==
  ASSUME NEW w, IsWatch(w), NEW s PROVE [w EXCEPT !.state = s] = [state |-> s, stage |-> w.stage]
BY DEF IsWatch

LEMMA PollStep ==
  ASSUME RequestConstants, RequestInv, NEW old \in SUBSET R!Ids, NEW targets \in SUBSET R!Ids, R!StartPoll(old, targets)
  PROVE  RequestInv'
<1>1. Still /\ UNCHANGED <<library, cards, drafts, calls>> /\ R!Ids' = R!Ids
  BY DEF R!StartPoll, R!peopleVars, R!draftVars, R!postVars, Still, RequestInv, Tables, R!Ids
<1>2. References'
  <2>1. /\ poll' = [poll EXCEPT !.left = {[rid |-> r, demand |-> tickets[r].demand] : r \in targets}]
        /\ poll = [left |-> poll.left, hit |-> poll.hit]
    BY DEF R!StartPoll, RequestInv, References
  <2>2. /\ poll' = [left |-> poll'.left, hit |-> poll'.hit] /\ poll'.hit = poll.hit
        /\ poll'.left = {[rid |-> r, demand |-> tickets[r].demand] : r \in targets}
    BY <2>1
  <2>3. \A r \in targets : r \in R!Ids /\ tickets[r].demand \in Demands
    BY TicketTypes DEF RequestInv, Tables, Tickets
  <2>4. \A w \in poll'.left : w.rid \in R!Ids /\ w.demand \in Demands
    BY <2>2, <2>3
  <2> QED
    BY <1>1, <2>2, <2>4 DEF RequestInv, References
<1>3. Watches'
  <2>1. watches' = [r \in R!AllIds |-> IF r \in old THEN [watches[r] EXCEPT !.state = "expired"] ELSE watches[r]]
    BY Zenon DEF R!StartPoll
  <2>2. ASSUME NEW r \in R!AllIds, watches'[r] # Null
        PROVE  IsWatch(watches'[r]) /\ r \in R!Ids /\ (watches'[r].state \in R!Active => watches'[r] = watches[r])
    <3>1. CASE r \in old
      <4>1. watches[r] # Null
        BY <3>1 DEF R!StartPoll
      <4>2. watches'[r] = [state |-> "expired", stage |-> watches[r].stage]
        BY <2>1, <3>1, <4>1, WatchWritten DEF RequestInv, Watches
      <4> QED
        BY <4>1, <4>2 DEF IsWatch, R!Active, RequestInv, Watches
    <3>2. CASE r \notin old
      BY <2>1, <2>2, <3>2 DEF RequestInv, Watches
    <3> QED
      BY <3>1, <3>2
  <2>3. watches' = [r \in R!AllIds |-> watches'[r]]
    BY <2>1
  <2>4. R!Ids \subseteq R!AllIds
    BY IdsAreIds
  <2>5. R!WatchedWhileAccepted'
    BY <1>1, <2>2, <2>4 DEF RequestInv, Watches, R!WatchedWhileAccepted, Still, R!Active
  <2> QED
    BY <1>1, <2>2, <2>3, <2>5 DEF Watches, R!AllIds
<1> QED
  BY <1>1, <1>2, <1>3, DraftingKept, StillKeeps

(* Tickets that change.                                                    *)
Rewritten(r, t) ==
  /\ r \in R!Ids /\ t \in Tickets /\ tickets' = [tickets EXCEPT ![r] = t]
  /\ t.owner = tickets[r].owner /\ t.key = tickets[r].key /\ t.month = tickets[r].month
  /\ t.revision >= tickets[r].revision
  /\ t.status = "open" => R!OpenIsFree(t.demand, r)
  /\ UNCHANGED <<followers, askers, uploaders, month, drafts, calls, poll, library>>
  /\ \A x \in cards' : x \in cards \/ (IsCard(x) /\ x.rid \in R!Ids)

LEMMA TicketRewritten ==
  ASSUME RequestConstants, RequestInv, NEW r, NEW t, Rewritten(r, t), counter' \in [Askers -> [used : Nat, period : Nat]]
  PROVE  /\ Tables' /\ Drafting' /\ References' /\ R!OneOpenTicket' /\ Grown /\ R!Ids' = R!Ids
         /\ \A s \in R!Ids : tickets'[s] = IF s = r THEN t ELSE tickets[s]
         /\ \A s : R!Concerned(s)' = {tickets'[s].owner} \cup followers[s]
         /\ \A s \in R!Ids : R!Concerned(s)' = R!Concerned(s)
<1>1. /\ tickets \in Seq(Tickets) /\ r \in DOMAIN tickets /\ t \in Tickets /\ tickets' = [tickets EXCEPT ![r] = t]
      /\ Len(tickets) <= MaxTickets
  BY DEF RequestInv, Tables, Rewritten, R!Ids
<1>2. tickets' \in Seq(Tickets) /\ Len(tickets') = Len(tickets) /\ DOMAIN tickets' = DOMAIN tickets
  BY <1>1
<1>3. R!Ids' = R!Ids /\ \A s \in R!Ids : tickets'[s] = IF s = r THEN t ELSE tickets[s]
  BY <1>1, <1>2 DEF R!Ids
<1>4. Tables'
  BY <1>1, <1>2 DEF RequestInv, Tables, Rewritten, R!AllIds
<1>5. Drafting' /\ References'
  BY <1>3, DraftingKept, CardsPainted DEF Rewritten
<1>6. \A s \in R!Ids : tickets'[s].owner = tickets[s].owner /\ tickets'[s].key = tickets[s].key
  BY <1>3 DEF Rewritten
<1>7. \A s : R!Concerned(s)' = {tickets'[s].owner} \cup followers[s]
  BY DEF R!Concerned, Rewritten
<1>8. \A s \in R!Ids : R!Concerned(s)' = R!Concerned(s)
  BY <1>6, <1>7 DEF R!Concerned
<1>9. Grown
  <2>1. \A s \in R!Ids : tickets[s].revision \in Nat
    BY <1>1, TicketTypes DEF Tickets
  <2> QED
    BY <1>3, <1>8, <2>1 DEF Grown, Rewritten
<1>10. R!OneOpenTicket'
  <2> SUFFICES ASSUME NEW p \in R!Ids, NEW s \in R!Ids, p # s
               PROVE  /\ ~(tickets'[p].status = "open" /\ tickets'[s].status = "open" /\ tickets'[p].demand = tickets'[s].demand)
                      /\ tickets'[p].key # tickets'[s].key
    BY <1>3, Zenon DEF R!OneOpenTicket
  <2>1. tickets'[p].key # tickets'[s].key
    BY <1>6 DEF RequestInv, R!OneOpenTicket
  <2>2. CASE p # r /\ s # r
    BY <2>1, <2>2, <1>3 DEF RequestInv, R!OneOpenTicket
  <2>3. CASE p = r \/ s = r
    BY <2>1, <2>3, <1>3 DEF Rewritten, R!OpenIsFree
  <2> QED
    BY <2>2, <2>3
<1> QED
  BY <1>3, <1>4, <1>5, <1>7, <1>8, <1>9, <1>10

(* No quota is touched while the owner, the month and the refund stay.      *)
LEMMA CountedKept ==
  ASSUME RequestInv, R!Ids' = R!Ids, counter' = counter, month' = month,
         \A r \in R!Ids : /\ tickets'[r].owner = tickets[r].owner /\ tickets'[r].month = tickets[r].month
                          /\ tickets'[r].refunded = tickets[r].refunded
  PROVE  Counted'
<1>1. \A u : R!Billed(u)' = R!Billed(u)
  BY DEF R!Billed
<1>2. R!QuotaExact'
  BY <1>1, Zenon DEF RequestInv, Counted, R!QuotaExact
<1> QED
  BY <1>2 DEF RequestInv, Counted

LEMMA FinitelyMany ==
  ASSUME NEW S, IsFiniteSet(S), NEW f, NEW rows, rows = {f[x] : x \in S}
  PROVE  IsFiniteSet(rows)
<1> DEFINE g == [x \in S |-> f[x]]
<1>1. g \in Surjection(S, rows)
  BY DEF Surjection
<1> QED
  BY <1>1, FS_Surjection

(* More is queued, and what there was is as it was.                        *)
LEMMA QueuedPost ==
  ASSUME RequestInv, Tables', Grown, flush' = flush, NEW rows, Queued(rows), \A letter \in rows : About(letter.key)'
  PROVE  /\ Post' /\ \A u \in Askers, r \in R!Ids : R!Undelivered(u, r) => R!Undelivered(u, r)'
<1>1. ASSUME NEW i \in DOMAIN outbox' PROVE About(outbox[i].key)'
  <2>1. CASE i \in DOMAIN outbox
    <3>1. PICK key : key = outbox[i].key
      OBVIOUS
    <3>2. outbox'[i].key = key
      BY <2>1, <3>1 DEF Queued
    <3>3. key \in LetterKeys /\ About(key)
      BY <2>1, <3>1, LetterTypes DEF Post, RequestInv
    <3>4. About(key)'
      BY <3>3, AboutKept DEF RequestInv
    <3> QED
      BY <3>2, <3>4 DEF About
  <2>2. CASE i \notin DOMAIN outbox
    <3>1. PICK letter \in rows : outbox'[i] = letter
      BY <2>2 DEF Queued
    <3>2. About(letter.key)'
      OBVIOUS
    <3> QED
      BY <3>1, <3>2 DEF About
  <2> QED
    BY <2>1, <2>2
<1>2. flush' = [f \in Flushers |-> flush'[f]] /\ \A f \in Flushers : flush'[f] # Null => IsHeld(flush'[f]) /\ flush'[f].row \in DOMAIN outbox'
  BY DEF RequestInv, Post, Queued
<1>3. Post'
  BY <1>1, <1>2 DEF Queued, Post
<1>4. \A u \in Askers, r \in R!Ids : R!Undelivered(u, r) => R!Undelivered(u, r)'
  BY DEF R!Undelivered, Queued
<1> QED
  BY <1>3, <1>4

(* A decision is queued for everybody concerned, under a new revision, so   *)
(* none of its rows is taken for one that is there.                        *)
LEMMA Decided ==
  ASSUME RequestConstants, RequestInv, NEW r, NEW t, Rewritten(r, t), t.refunded = tickets[r].refunded,
         t.revision = tickets[r].revision + 1,
         R!Queue(R!Results(r, tickets[r].revision + 1, t.status, R!Concerned(r))),
         UNCHANGED <<counter, flush, word>>, Watches'
  PROVE  RequestInv'
<1>1. /\ Tables' /\ Drafting' /\ References' /\ R!OneOpenTicket' /\ Grown /\ R!Ids' = R!Ids
      /\ \A s \in R!Ids : tickets'[s] = IF s = r THEN t ELSE tickets[s]
      /\ \A s \in R!Ids : R!Concerned(s)' = R!Concerned(s)
  <2>1. counter' \in [Askers -> [used : Nat, period : Nat]]
    BY DEF RequestInv, Tables
  <2> QED
    BY <2>1, TicketRewritten
<1>2. r \in R!Ids /\ r \in R!AllIds /\ t \in Tickets /\ tickets[r] \in Tickets
  BY IdsAreIds, TicketTypes DEF Rewritten, RequestInv, Tables
<1>3. PICK n \in Nat : n = tickets[r].revision
  BY <1>2 DEF Tickets
<1> DEFINE key(u) == [kind |-> "result", rid |-> r, n |-> n + 1, to |-> u]
           letter(u) == [key |-> key(u), body |-> t.status, state |-> "pending"]
           f == [u \in Askers |-> letter(u)]
<1>4. PICK rows : rows = {letter(u) : u \in R!Concerned(r)} /\ R!Queue(rows)
  BY <1>3 DEF R!Results, R!ResultKey
<1>5. R!Concerned(r) \subseteq Askers /\ IsFiniteSet(R!Concerned(r))
  <2>1. R!Concerned(r) \subseteq Askers
    BY <1>2 DEF R!Concerned, Tickets, RequestInv, Tables
  <2> QED
    BY <2>1, FS_Subset DEF RequestConstants
<1>6. rows = {f[u] : u \in R!Concerned(r)}
  BY <1>4, <1>5
<1>7. IsFiniteSet(rows)
  <2> HIDE DEF f
  <2> QED
    BY <1>5, <1>6, FinitelyMany
<1>8. rows \subseteq Letters
  <2>1. ASSUME NEW u \in Askers PROVE letter(u) \in Letters
    <3>1. key(u) \in LetterKeys
      BY <1>2, <1>3 DEF LetterKeys, R!AllIds
    <3>2. t.status \in R!Statuses
      BY <1>2 DEF Tickets
    <3> HIDE DEF key
    <3> QED
      BY <3>1, <3>2 DEF Letters
  <2> QED
    BY <2>1, <1>4, <1>5
<1>9. Queued(rows)
  BY <1>4, <1>7, <1>8, Queueing DEF RequestInv, Post
<1>10. \A x \in rows : About(x.key)'
  <2>1. ASSUME NEW u \in R!Concerned(r) PROVE About(key(u))'
    BY <1>1, <1>2, <1>3 DEF About
  <2> QED
    BY <1>4, <2>1 DEF About
<1>11. Post' /\ \A u \in Askers, s \in R!Ids : R!Undelivered(u, s) => R!Undelivered(u, s)'
  BY <1>1, <1>9, <1>10, QueuedPost
<1>12. ASSUME NEW u \in R!Concerned(r) PROVE R!Undelivered(u, r)'
  <2>1. letter(u) \in rows
    BY <1>4
  <2>2. letter(u).key \notin R!KeysIn(outbox)
    <3> SUFFICES ASSUME NEW i \in DOMAIN outbox, outbox[i].key = key(u) PROVE FALSE
      BY DEF R!KeysIn
    <3>1. outbox[i].key.n <= tickets[r].revision
      BY DEF RequestInv, Post, About
    <3> QED
      BY <1>3, <3>1
  <2>3. PICK i \in DOMAIN outbox' : outbox'[i] = letter(u)
    BY <1>9, <2>1, <2>2 DEF Queued
  <2> QED
    BY <2>3 DEF R!Undelivered
<1>13. Words'
  <2>1. ASSUME NEW u \in Askers, NEW s \in R!AllIds, word[u][s] # Null
        PROVE  s \in R!Ids' /\ u \in R!Concerned(s)' /\ (u \in askers' => Right(u, s)')
    <3>1. s \in R!Ids /\ u \in R!Concerned(s) /\ (u \in askers => Right(u, s)) /\ askers' = askers
      BY <2>1 DEF RequestInv, Words, Rewritten
    <3>2. CASE s = r
      BY <3>1, <3>2, <1>1, <1>12 DEF Right
    <3>3. CASE s # r
      BY <3>1, <3>3, <1>1, <1>11 DEF Right
    <3> QED
      BY <3>2, <3>3
  <2> QED
    BY <2>1 DEF RequestInv, Words, R!AllIds
<1>14. Counted'
  BY <1>1, CountedKept DEF Rewritten
<1> QED
  BY <1>1, <1>11, <1>13, <1>14 DEF RequestInv

(* The decisions.                                                          *)
LEMMA TicketEdited ==
  ASSUME NEW t \in Tickets, NEW s \in R!Statuses, NEW d \in Demands
  PROVE  /\ t.revision \in Nat
         /\ [t EXCEPT !.status = s, !.revision = t.revision + 1] \in Tickets
         /\ [t EXCEPT !.demand = d, !.revision = t.revision + 1] \in Tickets
         /\ [t EXCEPT !.refunded = TRUE] \in Tickets
<1>1. t.revision \in Nat /\ t.revision + 1 \in Nat
  BY DEF Tickets
<1>2. PICK n \in Nat : n = t.revision + 1
  BY <1>1
<1>3. [t EXCEPT !.status = s, !.revision = n] \in Tickets /\ [t EXCEPT !.demand = d, !.revision = n] \in Tickets
  BY Zenon DEF Tickets
<1>4. [t EXCEPT !.refunded = TRUE] \in Tickets
  BY DEF Tickets
<1> QED
  BY <1>1, <1>2, <1>3, <1>4, Zenon

LEMMA WatchStarted ==
  ASSUME RequestConstants, RequestInv, NEW r \in R!Ids, R!Ids' = R!Ids, tickets'[r].status = "accepted",
         \A s \in R!Ids \ {r} : tickets'[s].status = tickets[s].status, watches' = R!StartWatch(r)
  PROVE  Watches'
<1>1. r \in R!AllIds
  BY IdsAreIds
<1>2. watches' = [watches EXCEPT ![r] = watches'[r]]
      /\ (watches'[r] = watches[r] \/ watches'[r] = [state |-> "pending", stage |-> ""])
  BY <1>1 DEF R!StartWatch, RequestInv, Watches
<1>3. \A s \in R!AllIds : s # r => watches'[s] = watches[s]
  BY <1>2 DEF RequestInv, Watches
<1>4. watches'[r] # Null => IsWatch(watches'[r])
  BY <1>1, <1>2 DEF RequestInv, Watches, IsWatch
<1>5. watches' = [s \in R!AllIds |-> watches'[s]]
  BY <1>2 DEF RequestInv, Watches
<1>6. R!WatchedWhileAccepted'
  <2> SUFFICES ASSUME NEW s \in R!Ids, watches'[s] # Null, watches'[s].state \in R!Active
               PROVE  tickets'[s].status = "accepted"
    BY DEF R!WatchedWhileAccepted, R!Active
  <2> QED
    BY <1>3, IdsAreIds DEF RequestInv, Watches, R!WatchedWhileAccepted
<1> QED
  BY <1>3, <1>4, <1>5, <1>6 DEF RequestInv, Watches, R!AllIds

LEMMA WatchStopped ==
  ASSUME RequestConstants, RequestInv, NEW r \in R!Ids, R!Ids' = R!Ids,
         \A s \in R!Ids \ {r} : tickets'[s].status = tickets[s].status, watches' = R!StopWatch(r)
  PROVE  Watches'
<1>1. r \in R!AllIds
  BY IdsAreIds
<1>2. CASE watches[r] # Null /\ watches[r].state \in R!Active
  <2>1. watches' = [watches EXCEPT ![r] = [watches[r] EXCEPT !.state = "expired"]]
    BY <1>2 DEF R!StopWatch
  <2>2. [watches[r] EXCEPT !.state = "expired"] = [state |-> "expired", stage |-> watches[r].stage]
    BY <1>1, <1>2, WatchWritten DEF RequestInv, Watches
  <2>3. watches' = [watches EXCEPT ![r] = [state |-> "expired", stage |-> watches[r].stage]]
    BY <2>1, <2>2
  <2>4. \A s \in R!AllIds : watches'[s] = IF s = r THEN [state |-> "expired", stage |-> watches[r].stage] ELSE watches[s]
    BY <2>3 DEF RequestInv, Watches
  <2>5. watches' = [s \in R!AllIds |-> watches'[s]]
    BY <2>3 DEF RequestInv, Watches
  <2>6. R!WatchedWhileAccepted'
    <3> SUFFICES ASSUME NEW s \in R!Ids, watches'[s] # Null, watches'[s].state \in {"pending", "partial"}
                 PROVE  tickets'[s].status = "accepted"
      BY DEF R!WatchedWhileAccepted, R!Active
    <3>1. s # r /\ s \in R!AllIds
      BY <2>4, IdsAreIds
    <3>2. watches'[s] = watches[s] /\ tickets'[s].status = tickets[s].status
      BY <2>4, <3>1
    <3> QED
      BY <3>2 DEF RequestInv, Watches, R!WatchedWhileAccepted, R!Active
  <2> QED
    BY <2>4, <2>5, <2>6 DEF RequestInv, Watches, R!AllIds, IsWatch
<1>3. CASE ~(watches[r] # Null /\ watches[r].state \in R!Active)
  <2>1. watches' = watches
    BY <1>3 DEF R!StopWatch
  <2>2. R!WatchedWhileAccepted'
    <3> SUFFICES ASSUME NEW s \in R!Ids, watches[s] # Null, watches[s].state \in R!Active
                 PROVE  tickets'[s].status = "accepted"
      BY <2>1 DEF R!WatchedWhileAccepted, R!Active
    <3> QED
      BY <1>3 DEF RequestInv, Watches, R!WatchedWhileAccepted
  <2> QED
    BY <2>1, <2>2 DEF RequestInv, Watches, R!AllIds
<1> QED
  BY <1>2, <1>3

(* The ticket, its results and its watch change together.                  *)
LEMMA FinishStep ==
  ASSUME RequestConstants, RequestInv, NEW r \in R!Ids, NEW status \in R!Statuses \ {"open"}, R!FinishTicket(r, status),
         UNCHANGED <<askers, uploaders, month, drafts, calls, poll, library, flush, word>>,
         \A x \in cards' : x \in cards \/ (IsCard(x) /\ x.rid \in R!Ids)
  PROVE  RequestInv'
<1> DEFINE t == [tickets[r] EXCEPT !.status = status, !.revision = tickets[r].revision + 1]
<1>1. tickets[r] \in Tickets /\ t \in Tickets /\ tickets[r].revision \in Nat
  <2>1. PICK k : k = tickets[r]
    OBVIOUS
  <2>2. k \in Tickets
    BY <2>1, TicketTypes DEF RequestInv, Tables
  <2>3. k.demand \in Demands
    BY <2>2 DEF Tickets
  <2>4. k.revision \in Nat /\ [k EXCEPT !.status = status, !.revision = k.revision + 1] \in Tickets
    BY <2>2, <2>3, TicketEdited
  <2> QED
    BY <2>1, <2>2, <2>4
<1>2. /\ t.status = status /\ t.revision = tickets[r].revision + 1 /\ t.refunded = tickets[r].refunded
      /\ t.owner = tickets[r].owner /\ t.key = tickets[r].key /\ t.month = tickets[r].month
  BY <1>1 DEF Tickets
<1>3. tickets' = [tickets EXCEPT ![r] = t]
  BY DEF R!FinishTicket, RequestInv, Tables, R!Ids
<1> HIDE DEF t
<1>4. Rewritten(r, t) /\ tickets[r].status = "open" /\ UNCHANGED <<counter, flush, word>>
  <2>1. tickets[r].status = "open" /\ UNCHANGED <<followers, counter>>
    BY DEF R!FinishTicket
  <2>2. t.status # "open" /\ t.revision >= tickets[r].revision
    BY <1>1, <1>2
  <2> QED
    BY <1>1, <1>2, <1>3, <2>1, <2>2 DEF Rewritten
<1>5. Watches'
  <2>1. R!Ids' = R!Ids /\ \A s \in R!Ids : tickets'[s] = IF s = r THEN t ELSE tickets[s]
    BY <1>4, TicketRewritten DEF RequestInv, Tables
  <2>2. CASE status = "accepted"
    BY <2>1, <2>2, <1>2, WatchStarted DEF R!FinishTicket
  <2>3. CASE status # "accepted"
    <3>1. watches' = watches /\ tickets[r].status # "accepted"
      BY <2>3, <1>4 DEF R!FinishTicket
    <3> QED
      BY <2>1, <3>1 DEF RequestInv, Watches, R!WatchedWhileAccepted, R!AllIds
  <2> QED
    BY <2>2, <2>3
<1>6. R!Queue(R!Results(r, tickets[r].revision + 1, t.status, R!Concerned(r)))
  BY <1>2 DEF R!FinishTicket
<1> QED
  BY <1>2, <1>4, <1>5, <1>6, Decided

LEMMA CorrectStep ==
  ASSUME RequestConstants, RequestInv, NEW r \in R!Ids, NEW status \in R!Statuses, R!Correct(r, status)
  PROVE  RequestInv'
<1> DEFINE t == [tickets[r] EXCEPT !.status = status, !.revision = tickets[r].revision + 1]
<1>1. tickets[r] \in Tickets /\ t \in Tickets /\ tickets[r].revision \in Nat
  <2>1. PICK k : k = tickets[r]
    OBVIOUS
  <2>2. k \in Tickets
    BY <2>1, TicketTypes DEF RequestInv, Tables
  <2>3. k.demand \in Demands
    BY <2>2 DEF Tickets
  <2>4. k.revision \in Nat /\ [k EXCEPT !.status = status, !.revision = k.revision + 1] \in Tickets
    BY <2>2, <2>3, TicketEdited
  <2> QED
    BY <2>1, <2>2, <2>4
<1>2. /\ t.status = status /\ t.revision = tickets[r].revision + 1 /\ t.refunded = tickets[r].refunded
      /\ t.owner = tickets[r].owner /\ t.key = tickets[r].key /\ t.month = tickets[r].month /\ t.demand = tickets[r].demand
  BY <1>1 DEF Tickets
<1>3. tickets' = [tickets EXCEPT ![r] = t]
  BY DEF R!Correct, RequestInv, Tables, R!Ids
<1> HIDE DEF t
<1>4. Rewritten(r, t) /\ UNCHANGED <<counter, flush, word>>
  <2>1. UNCHANGED <<followers, counter, uploaders, askers, month, drafts, calls, cards, poll, library, flush, word>>
    BY DEF R!Correct, R!peopleVars, R!draftVars, R!pollVars, R!postVars
  <2>2. (t.status = "open" => R!OpenIsFree(t.demand, r)) /\ t.revision >= tickets[r].revision
    BY <1>1, <1>2 DEF R!Correct
  <2> QED
    BY <1>1, <1>2, <1>3, <2>1, <2>2 DEF Rewritten
<1>5. Watches'
  <2>1. R!Ids' = R!Ids /\ \A s \in R!Ids : tickets'[s] = IF s = r THEN t ELSE tickets[s]
    BY <1>4, TicketRewritten DEF RequestInv, Tables
  <2>2. CASE status = "accepted"
    BY <2>1, <2>2, <1>2, WatchStarted DEF R!Correct
  <2>3. CASE status # "accepted"
    BY <2>1, <2>3, <1>2, WatchStopped DEF R!Correct
  <2> QED
    BY <2>2, <2>3
<1>6. R!Queue(R!Results(r, tickets[r].revision + 1, t.status, R!Concerned(r)))
  BY <1>2 DEF R!Correct
<1> QED
  BY <1>2, <1>4, <1>5, <1>6, Decided

LEMMA PressStep ==
  ASSUME RequestConstants, RequestInv, NEW paper \in cards,
         R!OwnerCancel(paper) \/ \E s \in R!Statuses : R!StaffPress(paper, s)
  PROVE  RequestInv'
<1>1. IsCard(paper) /\ paper.rid \in R!Ids
  BY DEF RequestInv, References
<1>2. UNCHANGED <<uploaders, askers, month, drafts, calls, poll, library, flush, word>> /\ cards' = R!Shown(paper)
  BY DEF R!OwnerCancel, R!StaffPress, R!peopleVars, R!draftVars, R!pollVars, R!postVars
<1>3. \A x \in cards' : x \in cards \/ (IsCard(x) /\ x.rid \in R!Ids)
  <2>1. PICK n : n = tickets'[paper.rid].revision
    OBVIOUS
  <2>2. PICK y : y = [paper EXCEPT !.revision = n]
    OBVIOUS
  <2>3. IsCard(y) /\ y.rid = paper.rid
    BY <1>1, <2>2, CardShown, Zenon
  <2> QED
    BY <1>1, <1>2, <2>1, <2>2, <2>3 DEF R!Shown
<1>4. \/ \E s \in R!Statuses \ {"open"} : R!FinishTicket(paper.rid, s)
      \/ UNCHANGED <<tickets, followers, counter, watches, outbox>>
  BY DEF R!OwnerCancel, R!StaffPress, R!ticketVars, R!Statuses
<1>5. CASE \E s \in R!Statuses \ {"open"} : R!FinishTicket(paper.rid, s)
  BY <1>1, <1>2, <1>3, <1>5, FinishStep
<1>6. CASE UNCHANGED <<tickets, followers, counter, watches, outbox>>
  <2>1. Still /\ R!Ids' = R!Ids
    BY <1>2, <1>6 DEF Still, RequestInv, Tables, R!Ids
  <2> QED
    BY <2>1, <1>2, <1>3, <1>6, CardsPainted, DraftingKept, WatchesKept, StillKeeps
<1> QED
  BY <1>4, <1>5, <1>6

(* Tickets nobody decides on.                                              *)
LEMMA StatusKept ==
  ASSUME RequestConstants, RequestInv, NEW r, NEW t, Rewritten(r, t), t.status = tickets[r].status,
         counter' \in [Askers -> [used : Nat, period : Nat]], UNCHANGED <<outbox, flush, word, watches>>, Counted'
  PROVE  RequestInv'
<1>1. /\ Tables' /\ Drafting' /\ References' /\ R!OneOpenTicket' /\ Grown /\ R!Ids' = R!Ids
      /\ \A s \in R!Ids : tickets'[s] = IF s = r THEN t ELSE tickets[s]
  BY TicketRewritten
<1>2. \A s \in R!Ids : tickets'[s].status = tickets[s].status
  BY <1>1
<1>3. Post'
  BY <1>1, PostKept DEF RequestInv
<1>4. Words'
  BY <1>1, <1>2, WordsKept DEF RequestInv, Rewritten, R!Undelivered
<1>5. Watches'
  BY <1>1, <1>2 DEF RequestInv, Watches, R!WatchedWhileAccepted, R!AllIds
<1> QED
  BY <1>1, <1>3, <1>4, <1>5 DEF RequestInv

LEMMA ModifyStep ==
  ASSUME RequestConstants, RequestInv, NEW u \in Askers, NEW r \in R!Ids, NEW d \in Demands, R!Modify(u, r, d)
  PROVE  RequestInv'
<1> DEFINE t == [tickets[r] EXCEPT !.demand = d, !.revision = tickets[r].revision + 1]
<1>1. tickets[r] \in Tickets /\ t \in Tickets /\ tickets[r].revision \in Nat
  <2>1. "open" \in R!Statuses /\ tickets[r] \in Tickets
    BY TicketTypes DEF RequestInv, Tables, R!Statuses
  <2> QED
    BY <2>1, TicketEdited
<1>2. /\ t.status = tickets[r].status /\ t.revision = tickets[r].revision + 1 /\ t.refunded = tickets[r].refunded
      /\ t.owner = tickets[r].owner /\ t.key = tickets[r].key /\ t.month = tickets[r].month /\ t.demand = d
  BY <1>1 DEF Tickets
<1>3. tickets' = [tickets EXCEPT ![r] = t]
  BY DEF R!Modify, RequestInv, Tables, R!Ids
<1> HIDE DEF t
<1>4. UNCHANGED <<followers, counter, watches, uploaders, askers, month, drafts, calls, cards,
                  poll, library, outbox, flush, word>>
  BY DEF R!Modify, R!peopleVars, R!draftVars, R!pollVars, R!postVars
<1>5. Rewritten(r, t)
  <2>1. (t.status = "open" => R!OpenIsFree(t.demand, r)) /\ t.revision >= tickets[r].revision
    BY <1>1, <1>2 DEF R!Modify
  <2> QED
    BY <1>1, <1>2, <1>3, <1>4, <2>1 DEF Rewritten
<1>6. counter' \in [Askers -> [used : Nat, period : Nat]]
  BY <1>4 DEF RequestInv, Tables
<1>7. Counted'
  BY <1>2, <1>4, <1>5, <1>6, TicketRewritten, CountedKept
<1> QED
  BY <1>2, <1>4, <1>5, <1>6, <1>7, StatusKept

LEMMA BilledFinite ==
  ASSUME RequestInv, NEW u
  PROVE  IsFiniteSet(R!Billed(u)) /\ Cardinality(R!Billed(u)) \in Nat /\ R!Billed(u) \subseteq R!Ids
<1>1. R!Ids = 1 .. Len(tickets) /\ Len(tickets) \in Nat
  BY DEF R!Ids, RequestInv, Tables
<1>2. IsFiniteSet(R!Ids)
  BY <1>1, FS_Interval
<1>3. R!Billed(u) \subseteq R!Ids
  BY DEF R!Billed
<1> QED
  BY <1>2, <1>3, FS_Subset, FS_CardinalityType

LEMMA RefundStep == ASSUME RequestConstants, RequestInv, NEW r \in R!Ids, R!Refund(r) PROVE RequestInv'
<1>0. PICK o, c : o = tickets[r].owner /\ c = counter[o]
  OBVIOUS
<1> DEFINE t == [tickets[r] EXCEPT !.refunded = TRUE]
<1>1. tickets[r] \in Tickets /\ t \in Tickets /\ o \in Askers /\ tickets[r].revision \in Nat /\ tickets[r].month \in Nat
  <2>1. tickets \in Seq(Tickets)
    BY DEF RequestInv, Tables
  <2>2. PICK k : k = tickets[r]
    OBVIOUS
  <2>3. k \in Tickets
    BY <2>1, <2>2, TicketTypes
  <2>4. [k EXCEPT !.refunded = TRUE] \in Tickets
    BY <2>3 DEF Tickets
  <2>5. k.owner \in Askers /\ k.revision \in Nat /\ k.month \in Nat
    BY <2>3 DEF Tickets
  <2> QED
    BY <1>0, <2>2, <2>3, <2>4, <2>5
<1>2. /\ t.status = tickets[r].status /\ t.revision = tickets[r].revision /\ t.refunded = TRUE
      /\ t.owner = tickets[r].owner /\ t.key = tickets[r].key /\ t.month = tickets[r].month /\ t.demand = tickets[r].demand
  BY <1>1 DEF Tickets
<1>3. tickets' = [tickets EXCEPT ![r] = t]
  BY DEF R!Refund, RequestInv, Tables, R!Ids
<1> HIDE DEF t
<1>4. UNCHANGED <<followers, watches, uploaders, askers, month, drafts, calls, cards, poll,
                  library, outbox, flush, word>>
  BY DEF R!Refund, R!peopleVars, R!draftVars, R!pollVars, R!postVars
<1>5. Rewritten(r, t)
  <2>1. t.status = "open" => R!OpenIsFree(t.demand, r)
    BY <1>2 DEF RequestInv, R!OneOpenTicket, R!OpenIsFree
  <2>2. t.revision >= tickets[r].revision
    BY <1>1, <1>2
  <2> QED
    BY <1>1, <1>2, <1>3, <1>4, <2>1, <2>2 DEF Rewritten
<1>6. /\ counter \in [Askers -> [used : Nat, period : Nat]] /\ c \in [used : Nat, period : Nat]
      /\ c.used \in Nat /\ c.period \in Nat /\ c.used = Cardinality(R!Billed(o))
  <2>1. c \in [used : Nat, period : Nat] /\ counter \in [Askers -> [used : Nat, period : Nat]]
    BY <1>0, <1>1 DEF RequestInv, Tables
  <2>2. c.used = R!Cardinality(R!Billed(o))
    BY <1>0, <1>1 DEF RequestInv, Counted, R!QuotaExact
  <2> QED
    BY <2>1, <2>2, CountIsCount
<1>7. c.period = month /\ tickets[r].month = month /\ tickets[r].refunded = FALSE
  <2>1. tickets[r].month <= c.period /\ c.period <= month /\ month \in Nat
    BY <1>0, <1>1 DEF RequestInv, Counted, Tables
  <2>2. tickets[r].month = month /\ tickets[r].refunded = FALSE
    BY <1>1 DEF R!Refund, Tickets
  <2> QED
    BY <2>1, <2>2, <1>6
<1>8. r \in R!Billed(o)
  BY <1>0, <1>7 DEF R!Billed
<1>9. c.used > 0
  <2>1. Cardinality(R!Billed(o)) # 0
    BY <1>8, BilledFinite, FS_EmptySet
  <2> QED
    BY <2>1, <1>6
<1>10. counter' = [counter EXCEPT ![o] = [used |-> c.used - 1, period |-> month]]
  <2>1. counter' = [counter EXCEPT ![o].used = c.used - 1]
    BY <1>0, <1>7, <1>9 DEF R!Refund
  <2>2. [c EXCEPT !.used = c.used - 1] = [used |-> c.used - 1, period |-> month]
    BY <1>6, <1>7
  <2> QED
    BY <2>1, <2>2, <1>0
<1>11. counter' \in [Askers -> [used : Nat, period : Nat]]
  <2>1. c.used - 1 \in Nat /\ month \in Nat
    BY <1>6, <1>7, <1>9
  <2>2. PICK n \in Nat : n = c.used - 1
    BY <2>1
  <2> QED
    BY <1>6, <1>10, <2>1, <2>2
<1>12. /\ R!Ids' = R!Ids /\ \A s \in R!Ids : tickets'[s] = IF s = r THEN t ELSE tickets[s]
  BY <1>5, <1>11, TicketRewritten
<1>13. Counted'
  <2>1. R!Billed(o)' = R!Billed(o) \ {r}
    BY <1>0, <1>1, <1>2, <1>7, <1>10, <1>12 DEF R!Billed, RequestInv, Tables
  <2>2. ASSUME NEW u \in Askers, u # o PROVE R!Billed(u)' = R!Billed(u) /\ counter'[u] = counter[u]
    BY <1>0, <2>2, <1>1, <1>2, <1>6, <1>10, <1>12 DEF R!Billed
  <2>3. R!Cardinality(R!Billed(o)') = c.used - 1
    <3>1. PICK B : B = R!Billed(o)
      OBVIOUS
    <3>2. IsFiniteSet(B) /\ r \in B /\ Cardinality(B) = c.used
      BY <3>1, <1>6, <1>8, BilledFinite
    <3>3. Cardinality(B \ {r}) = c.used - 1
      BY <3>2, FS_RemoveElement
    <3> QED
      BY <3>1, <3>3, <2>1, CountIsCount
  <2>4. counter'[o].used = c.used - 1 /\ counter'[o].period = month
    BY <1>1, <1>6, <1>10
  <2>5. Quota > 0 => c.used <= Quota
    BY <1>0, <1>1 DEF RequestInv, Counted, R!QuotaExact
  <2>6. Quota \in Nat
    BY DEF RequestConstants, R!RequestBounds
  <2>7. ASSUME NEW u \in Askers
        PROVE  /\ counter'[u].used = R!Cardinality(R!Billed(u)') /\ (Quota > 0 => counter'[u].used <= Quota)
               /\ counter'[u].period = counter[u].period
    <3>1. CASE u = o
      <4>1. c.used - 1 = R!Cardinality(R!Billed(o)') /\ (Quota > 0 => c.used - 1 <= Quota)
        BY <2>3, <2>5, <2>6, <1>6
      <4> QED
        BY <3>1, <4>1, <2>4, <1>7, <1>0
    <3>2. CASE u # o
      BY <3>2, <2>2 DEF RequestInv, Counted, R!QuotaExact
    <3> QED
      BY <3>1, <3>2
  <2>8. R!QuotaExact'
    BY <2>7, Zenon DEF R!QuotaExact
  <2>9. \A s \in R!Ids : tickets'[s].owner = tickets[s].owner /\ tickets'[s].month = tickets[s].month /\ tickets[s].owner \in Askers
    BY <1>2, <1>12, TicketTypes DEF RequestInv, Tables, Tickets
  <2> QED
    BY <1>4, <1>12, <2>7, <2>8, <2>9 DEF RequestInv, Counted
<1> QED
  BY <1>2, <1>4, <1>5, <1>11, <1>13, StatusKept

(* More follow a ticket.                                                   *)
LEMMA FollowersAdded ==
  ASSUME RequestConstants, RequestInv, followers' \in [R!AllIds -> SUBSET Askers],
         \A r \in R!Ids : followers[r] \subseteq followers'[r],
         UNCHANGED <<tickets, counter, watches, uploaders, askers, month, cards, poll, library, outbox,
                     flush, word>>, Drafting'
  PROVE  RequestInv'
<1>1. R!Ids' = R!Ids /\ R!AllIds' = R!AllIds
  BY DEF R!Ids, R!AllIds
<1>2. Grown
  <2>1. \A r \in R!Ids : tickets[r].revision \in Nat
    BY TicketTypes DEF RequestInv, Tables, Tickets
  <2> QED
    BY <1>1, <2>1 DEF Grown, R!Concerned
<1>3. Tables' /\ References' /\ Watches' /\ R!OneOpenTicket'
  BY <1>1, ReferencesKept, WatchesKept DEF RequestInv, Tables, R!OneOpenTicket
<1>4. Counted'
  BY <1>1, CountedKept
<1>5. Post' /\ Words'
  BY <1>2, <1>3, PostKept, WordsKept DEF RequestInv, R!Undelivered
<1> QED
  BY <1>3, <1>4, <1>5 DEF RequestInv

LEMMA FollowStep ==
  ASSUME RequestConstants, RequestInv, NEW u \in Askers, NEW r \in R!Ids, R!Follow(u, r)
  PROVE  RequestInv'
<1>1. followers' = [followers EXCEPT ![r] = followers[r] \cup {u}] /\ followers \in [R!AllIds -> SUBSET Askers]
  BY DEF R!Follow, RequestInv, Tables
<1>2. followers' \in [R!AllIds -> SUBSET Askers] /\ \A s \in R!Ids : followers[s] \subseteq followers'[s]
  BY <1>1, IdsAreIds
<1>3. UNCHANGED <<tickets, counter, watches, uploaders, askers, month, cards, poll, library,
                  outbox, flush, word, drafts, calls>>
  BY DEF R!Follow, R!peopleVars, R!draftVars, R!pollVars, R!postVars
<1> QED
  BY <1>2, <1>3, DraftingKept, FollowersAdded

(* A new ticket.                                                           *)
LEMMA TicketAdded ==
  ASSUME RequestConstants, RequestInv, NEW u \in askers, NEW k \in CreateKeys, NEW d \in Demands, R!NewTicket(u, k, d),
         ~R!KeyUsed(k), R!SameDemand(d, {"open"}) = {}, Drafting',
         UNCHANGED <<uploaders, askers, month, cards, poll, library, flush, word>>
  PROVE  RequestInv'
<1>0. PICK n, t : n = Len(tickets) + 1 /\ t = [owner |-> u, demand |-> d, status |-> "open", revision |-> 1, month |-> month,
                                                refunded |-> FALSE, key |-> k]
  OBVIOUS
<1>1. /\ n \in 1 .. MaxTickets /\ n \notin R!Ids /\ n = Len(tickets) + 1 /\ u \in Askers
      /\ tickets' = Append(tickets, t) /\ UNCHANGED <<followers, watches>>
  <2>1. n \in R!AllIds /\ tickets' = Append(tickets, t) /\ UNCHANGED <<followers, watches>>
    BY <1>0, Zenon DEF R!NewTicket
  <2>2. Len(tickets) \in Nat /\ R!Ids = 1 .. Len(tickets) /\ u \in Askers
    BY DEF R!Ids, RequestInv, Tables
  <2> QED
    BY <1>0, <2>1, <2>2 DEF R!AllIds
<1>2. t \in Tickets
  BY <1>0, <1>1 DEF Tickets, R!Statuses, RequestInv, Tables
<1>3. /\ tickets' \in Seq(Tickets) /\ Len(tickets') = n /\ R!Ids' = R!Ids \cup {n} /\ tickets'[n] = t
      /\ \A r \in R!Ids : tickets'[r] = tickets[r]
  BY <1>1, <1>2, AppendProperties DEF R!Ids, RequestInv, Tables
<1>4. PICK c : c = counter[u]
  OBVIOUS
<1>5. c \in [used : Nat, period : Nat] /\ c.used \in Nat /\ c.period \in Nat /\ month \in Nat /\ c.period <= month
  BY <1>1, <1>4 DEF RequestInv, Tables, Counted
<1>6. PICK m \in Nat : m = IF c.period = month THEN c.used ELSE 0
  BY <1>5
<1>7. counter' = [counter EXCEPT ![u] = [used |-> m + 1, period |-> month]] /\ (Quota = 0 \/ m < Quota)
  BY <1>4, <1>6 DEF R!NewTicket, R!Charge, R!Used, R!QuotaLeft
<1>8. counter' \in [Askers -> [used : Nat, period : Nat]]
  <2>1. counter \in [Askers -> [used : Nat, period : Nat]] /\ m + 1 \in Nat
    BY DEF RequestInv, Tables
  <2>2. PICK l \in Nat : l = m + 1
    BY <2>1
  <2> QED
    BY <1>5, <1>7, <2>1, <2>2
<1>9. Tables'
  BY <1>1, <1>3, <1>8 DEF RequestInv, Tables, R!AllIds
<1>10. References' /\ Grown
  <2>1. \A r \in R!Ids : tickets[r].revision \in Nat
    BY TicketTypes DEF RequestInv, Tables, Tickets
  <2> QED
    <3>1. \A r \in R!Ids : tickets'[r].revision >= tickets[r].revision
      BY <1>3, <2>1
    <3>2. \A r \in R!Ids : R!Concerned(r)' = R!Concerned(r)
      BY <1>1, <1>3 DEF R!Concerned
    <3> QED
      BY <1>3, <3>1, <3>2, ReferencesKept DEF Grown
<1>11. R!OneOpenTicket'
  <2>1. \A r \in R!Ids : tickets[r].key # k /\ ~(tickets[r].status = "open" /\ tickets[r].demand = d)
    BY DEF R!KeyUsed, R!SameDemand
  <2>2. t.key = k /\ t.demand = d
    BY <1>0
  <2> SUFFICES ASSUME NEW p \in R!Ids \cup {n}, NEW s \in R!Ids \cup {n}, p # s
               PROVE  /\ ~(tickets'[p].status = "open" /\ tickets'[s].status = "open" /\ tickets'[p].demand = tickets'[s].demand)
                      /\ tickets'[p].key # tickets'[s].key
    BY <1>3, Zenon DEF R!OneOpenTicket
  <2>3. CASE p \in R!Ids /\ s \in R!Ids
    BY <2>3, <1>3 DEF RequestInv, R!OneOpenTicket
  <2>4. CASE p = n
    BY <2>1, <2>2, <2>4, <1>3
  <2>5. CASE s = n
    BY <2>1, <2>2, <2>5, <1>3
  <2> QED
    BY <2>3, <2>4, <2>5
<1>12. Watches'
  <2>1. n \in R!AllIds /\ watches[n] = Null
    BY <1>1 DEF RequestInv, Watches, R!AllIds
  <2> QED
    BY <1>1, <1>3, <2>1 DEF RequestInv, Watches, R!WatchedWhileAccepted, R!AllIds
<1>13. Counted'
  <2>1. t.owner = u /\ ~t.refunded /\ t.month = month /\ counter'[u].period = month /\ counter'[u].used = m + 1
    BY <1>0, <1>1, <1>7 DEF RequestInv, Tables
  <2>2. R!Billed(u)' = {r \in R!Ids : tickets[r].owner = u /\ ~tickets[r].refunded /\ tickets[r].month = month} \cup {n}
    BY <1>3, <2>1 DEF R!Billed
  <2>3. R!Cardinality(R!Billed(u)') = m + 1
    <3>1. CASE c.period = month
      <4>1. PICK B : B = R!Billed(u)
        OBVIOUS
      <4>2. R!Billed(u)' = B \cup {n} /\ n \notin B /\ IsFiniteSet(B)
        BY <1>1, <1>4, <2>2, <3>1, <4>1, BilledFinite DEF R!Billed
      <4>3. Cardinality(B) = m
        BY <1>1, <1>4, <1>6, <3>1, <4>1, CountIsCount DEF RequestInv, Counted, R!QuotaExact
      <4>4. Cardinality(B \cup {n}) = m + 1
        BY <4>2, <4>3, FS_AddElement
      <4> QED
        BY <4>2, <4>4, CountIsCount
    <3>2. CASE c.period # month
      <4>1. c.period < month
        BY <1>5, <3>2
      <4>2. ASSUME NEW r \in R!Ids, tickets[r].owner = u, tickets[r].month = month PROVE FALSE
        <5>1. month <= c.period
          BY <1>4, <4>2 DEF RequestInv, Counted
        <5> QED
          BY <1>5, <4>1, <5>1
      <4>3. R!Billed(u)' = {n}
        BY <2>2, <4>2
      <4>4. m = 0 /\ Cardinality({n}) = 1
        BY <1>6, <3>2, FS_Singleton
      <4> QED
        BY <4>3, <4>4, CountIsCount
    <3> QED
      BY <3>1, <3>2
  <2>4. ASSUME NEW v \in Askers, v # u PROVE R!Billed(v)' = R!Billed(v) /\ counter'[v] = counter[v]
    BY <2>4, <1>3, <1>7, <2>1 DEF R!Billed, RequestInv, Tables
  <2>5. Quota \in Nat
    BY DEF RequestConstants, R!RequestBounds
  <2>6. ASSUME NEW v \in Askers
        PROVE  /\ counter'[v].used = R!Cardinality(R!Billed(v)') /\ (Quota > 0 => counter'[v].used <= Quota)
               /\ counter'[v].period \in {counter[v].period, month}
    <3>1. CASE v = u
      BY <3>1, <2>1, <2>3, <2>5, <1>7
    <3>2. CASE v # u
      BY <3>2, <2>4 DEF RequestInv, Counted, R!QuotaExact
    <3> QED
      BY <3>1, <3>2
  <2>7. R!QuotaExact'
    BY <2>6, Zenon DEF R!QuotaExact
  <2>8. \A v \in Askers : counter'[v].period <= month
    BY <1>5, <2>6 DEF RequestInv, Counted
  <2>9. ASSUME NEW r \in R!Ids' PROVE tickets'[r].month <= counter'[tickets'[r].owner].period
    <3>1. CASE r = n
      BY <3>1, <1>3, <1>5, <2>1
    <3>2. CASE r \in R!Ids
      <4>1. tickets'[r] = tickets[r] /\ tickets[r].owner \in Askers /\ tickets[r].month \in Nat
        BY <3>2, <1>3, TicketTypes DEF RequestInv, Tables, Tickets
      <4>2. tickets[r].month <= counter[tickets[r].owner].period
        BY <3>2 DEF RequestInv, Counted
      <4>3. CASE tickets[r].owner = u
        <5>1. tickets[r].month <= c.period
          BY <4>2, <4>3, <1>4
        <5> QED
          BY <4>1, <4>3, <5>1, <1>5, <2>1
      <4>4. CASE tickets[r].owner # u
        BY <4>1, <4>2, <4>4, <2>4
      <4> QED
        BY <4>3, <4>4
    <3> QED
      BY <3>1, <3>2, <1>3
  <2> QED
    BY <2>7, <2>8, <2>9 DEF Counted
<1>14. Post' /\ \A v \in Askers, r \in R!Ids : R!Undelivered(v, r) => R!Undelivered(v, r)'
  <2> DEFINE letter(v) == [key |-> [kind |-> "new", rid |-> n, n |-> 0, to |-> v], body |-> "", state |-> "pending"]
             f == [v \in Askers |-> letter(v)]
             S == uploaders \cap askers
  <2>1. PICK rows : rows = {letter(v) : v \in S} /\ R!Queue(rows)
    BY <1>0 DEF R!NewTicket, R!RowOf
  <2>2. S \subseteq Askers /\ IsFiniteSet(S)
    BY FS_Subset DEF RequestInv, Tables, RequestConstants
  <2>3. rows = {f[v] : v \in S}
    BY <2>1, <2>2
  <2>4. IsFiniteSet(rows)
    <3> HIDE DEF f, S
    <3> QED
      BY <2>2, <2>3, FinitelyMany
  <2>5. rows \subseteq Letters
    <3>1. ASSUME NEW v \in Askers PROVE letter(v) \in Letters
      BY <1>1 DEF LetterKeys, Letters
    <3> QED
      BY <3>1, <2>1, <2>2
  <2>6. Queued(rows)
    BY <2>1, <2>4, <2>5, Queueing DEF RequestInv, Post
  <2>7. \A x \in rows : About(x.key)'
    <3>1. ASSUME NEW v \in S PROVE About(letter(v).key)'
      BY <1>3 DEF About
    <3> QED
      BY <2>1, <3>1 DEF About
  <2> QED
    BY <1>9, <1>10, <2>6, <2>7, QueuedPost
<1>15. Words'
  BY <1>3, <1>10, <1>14, WordsKept DEF RequestInv
<1> QED
  BY <1>9, <1>10, <1>11, <1>12, <1>13, <1>14, <1>15 DEF RequestInv

LEMMA CreateStep == ASSUME RequestConstants, RequestInv, NEW c \in Callers, R!Create(c) PROVE RequestInv'
<1>1. PICK k, u, d : k = calls[c] /\ k # Null /\ u = drafts[k].user /\ d = drafts[k].demand
  BY DEF R!Create
<1>2. k \in CreateKeys /\ u \in Askers /\ d \in Demands
  BY <1>1 DEF RequestInv, Drafting
<1>3. /\ UNCHANGED <<uploaders, askers, month, drafts, cards, poll, library, flush, word>>
      /\ calls' = [calls EXCEPT ![c] = Null]
  BY DEF R!Create, R!peopleVars, R!pollVars, R!postVars
<1>4. Drafting'
  BY <1>3 DEF RequestInv, Drafting
<1>5. \/ UNCHANGED <<tickets, followers, counter, watches, outbox>>
      \/ /\ followers' = [r \in R!AllIds |->
                 IF r \in R!SameDemand(d, {"open"}) /\ tickets[r].owner # u THEN followers[r] \cup {u} ELSE followers[r]]
         /\ UNCHANGED <<tickets, counter, watches, outbox>>
      \/ /\ ~R!KeyUsed(k) /\ R!SameDemand(d, {"open"}) = {}
         /\ R!NewTicket(u, k, d)
  BY <1>1, Zenon DEF R!Create, R!ticketVars
<1>6. CASE UNCHANGED <<tickets, followers, counter, watches, outbox>>
  <2>1. Still /\ R!Ids' = R!Ids
    BY <1>3, <1>6 DEF Still, RequestInv, Tables, R!Ids
  <2> QED
    BY <2>1, <1>3, <1>4, <1>6, ReferencesKept, WatchesKept, StillKeeps
<1>7. CASE /\ followers' = [r \in R!AllIds |->
                 IF r \in R!SameDemand(d, {"open"}) /\ tickets[r].owner # u THEN followers[r] \cup {u} ELSE followers[r]]
           /\ UNCHANGED <<tickets, counter, watches, outbox>>
  <2>1. followers \in [R!AllIds -> SUBSET Askers]
    BY DEF RequestInv, Tables
  <2>2. followers' \in [R!AllIds -> SUBSET Askers] /\ \A r \in R!Ids : followers[r] \subseteq followers'[r]
    BY <1>2, <1>7, <2>1, IdsAreIds
  <2> QED
    BY <1>3, <1>4, <1>7, <2>2, FollowersAdded
<1>8. CASE ~R!KeyUsed(k) /\ R!SameDemand(d, {"open"}) = {} /\ R!NewTicket(u, k, d)
  <2>1. u \in askers
    BY <1>8 DEF R!NewTicket
  <2> QED
    BY <1>2, <1>3, <1>4, <1>8, <2>1, TicketAdded
<1> QED
  BY <1>5, <1>6, <1>7, <1>8

(* The library has news.                                                   *)
LEMMA StageStep == ASSUME RequestConstants, RequestInv, R!ApplyStage PROVE RequestInv'
<1>1. PICK r, n : r = poll.hit.rid /\ n = poll.hit.stage /\ r \in R!Ids /\ n \in Nat /\ poll.hit # Null
  BY DEF R!ApplyStage, RequestInv, References
<1>2. UNCHANGED <<tickets, followers, counter, uploaders, askers, month, drafts, calls, cards, library, flush, word>>
  BY DEF R!ApplyStage, R!peopleVars, R!draftVars, R!postVars
<1>3. R!Ids' = R!Ids /\ r \in R!AllIds
  BY <1>1, <1>2, IdsAreIds DEF R!Ids
<1>4. Grown
  <2>1. \A s \in R!Ids : tickets[s].revision \in Nat
    BY TicketTypes DEF RequestInv, Tables, Tickets
  <2> QED
    BY <1>2, <1>3, <2>1 DEF Grown, R!Concerned
<1>5. Tables' /\ Drafting' /\ R!OneOpenTicket' /\ Counted'
  BY <1>2, <1>3, DraftingKept, CountedKept DEF RequestInv, Tables, R!AllIds, R!OneOpenTicket
<1>6. References'
  <2>1. poll' = [poll EXCEPT !.hit = Null]
    BY DEF R!ApplyStage
  <2>2. poll' = [left |-> poll'.left, hit |-> poll'.hit] /\ poll'.left = poll.left /\ poll'.hit = Null
    BY <2>1 DEF RequestInv, References
  <2> QED
    BY <1>2, <1>3, <2>2 DEF RequestInv, References
<1>7. CASE UNCHANGED <<watches, outbox>>
  BY <1>2, <1>3, <1>4, <1>5, <1>6, <1>7, WatchesKept, PostKept, WordsKept DEF RequestInv, R!Undelivered
<1>8. CASE /\ tickets[r].status = "accepted"
           /\ watches' = [watches EXCEPT ![r] = [state |-> IF n = 2 THEN "done" ELSE "partial", stage |-> R!Stages[n]]]
           /\ \E rows : R!Queue(rows) /\ rows = {R!RowOf("library", r, n, u, "") : u \in R!Concerned(r)}
  <2>1. Watches'
    <3>1. PICK w : w = [state |-> IF n = 2 THEN "done" ELSE "partial", stage |-> R!Stages[n]]
      OBVIOUS
    <3>2. IsWatch(w)
      BY <3>1 DEF IsWatch
    <3>3. watches' = [watches EXCEPT ![r] = w]
      BY <1>8, <3>1
    <3>4. /\ watches' = [s \in R!AllIds |-> watches'[s]]
          /\ \A s \in R!AllIds : watches'[s] = IF s = r THEN w ELSE watches[s]
      BY <1>3, <3>3 DEF RequestInv, Watches
    <3>5. R!WatchedWhileAccepted'
      <4> SUFFICES ASSUME NEW s \in R!Ids, watches'[s] # Null, watches'[s].state \in R!Active
                   PROVE  tickets[s].status = "accepted"
        BY <1>2, <1>3 DEF R!WatchedWhileAccepted, R!Active
      <4> QED
        BY <1>8, <3>4, IdsAreIds DEF RequestInv, Watches, R!WatchedWhileAccepted
    <3>6. \A s \in R!AllIds : watches'[s] # Null => IsWatch(watches'[s]) /\ s \in R!Ids
      BY <1>1, <3>2, <3>4 DEF RequestInv, Watches
    <3> QED
      BY <1>3, <3>4, <3>5, <3>6 DEF Watches, R!AllIds
  <2> DEFINE letter(v) == [key |-> [kind |-> "library", rid |-> r, n |-> n, to |-> v], body |-> "", state |-> "pending"]
             f == [v \in Askers |-> letter(v)]
  <2>2. PICK rows : rows = {letter(v) : v \in R!Concerned(r)} /\ R!Queue(rows)
    BY <1>8 DEF R!RowOf
  <2>3. R!Concerned(r) \subseteq Askers /\ IsFiniteSet(R!Concerned(r))
    <3>1. tickets[r].owner \in Askers /\ followers[r] \subseteq Askers
      BY <1>1, <1>3, TicketTypes DEF RequestInv, Tables, Tickets
    <3> QED
      BY <3>1, FS_Subset DEF R!Concerned, RequestConstants
  <2>4. rows = {f[v] : v \in R!Concerned(r)}
    BY <2>2, <2>3
  <2>5. IsFiniteSet(rows)
    <3> HIDE DEF f
    <3> QED
      BY <2>3, <2>4, FinitelyMany
  <2>6. rows \subseteq Letters
    <3>1. ASSUME NEW v \in Askers PROVE letter(v) \in Letters
      BY <1>1, <1>3 DEF LetterKeys, Letters, R!AllIds
    <3> QED
      BY <3>1, <2>2, <2>3
  <2>7. Queued(rows)
    BY <2>2, <2>5, <2>6, Queueing DEF RequestInv, Post
  <2>8. \A x \in rows : About(x.key)'
    <3>1. ASSUME NEW v \in R!Concerned(r) PROVE About(letter(v).key)'
      BY <1>1, <1>3 DEF About
    <3> QED
      BY <2>2, <3>1 DEF About
  <2>9. Post' /\ \A v \in Askers, s \in R!Ids : R!Undelivered(v, s) => R!Undelivered(v, s)'
    BY <1>2, <1>4, <1>5, <2>7, <2>8, QueuedPost
  <2>10. Words'
    BY <1>2, <1>4, <2>9, WordsKept DEF RequestInv
  <2> QED
    BY <1>5, <1>6, <2>1, <2>9, <2>10 DEF RequestInv
<1>9. QED
  <2>1. \/ UNCHANGED <<watches, outbox>>
        \/ /\ tickets[poll.hit.rid].status = "accepted"
           /\ watches' = [watches EXCEPT ![poll.hit.rid] =
                [state |-> IF poll.hit.stage = 2 THEN "done" ELSE "partial", stage |-> R!Stages[poll.hit.stage]]]
           /\ \E rows : /\ R!Queue(rows)
                       /\ rows = {R!RowOf("library", poll.hit.rid, poll.hit.stage, u, "") : u \in R!Concerned(poll.hit.rid)}
    BY Zenon DEF R!ApplyStage
  <2>2. CASE UNCHANGED <<watches, outbox>>
    BY <2>2, <1>7
  <2>3. ASSUME tickets[poll.hit.rid].status = "accepted",
               watches' = [watches EXCEPT ![poll.hit.rid] =
                [state |-> IF poll.hit.stage = 2 THEN "done" ELSE "partial", stage |-> R!Stages[poll.hit.stage]]],
               NEW rows, R!Queue(rows),
               rows = {R!RowOf("library", poll.hit.rid, poll.hit.stage, u, "") : u \in R!Concerned(poll.hit.rid)}
        PROVE  RequestInv'
    <3>1. tickets[r].status = "accepted"
      BY <1>1, <2>3
    <3>2. watches' = [watches EXCEPT ![r] = [state |-> IF n = 2 THEN "done" ELSE "partial", stage |-> R!Stages[n]]]
      BY <1>1, <2>3
    <3>3. rows = {R!RowOf("library", r, n, u, "") : u \in R!Concerned(r)}
      BY <1>1, <2>3
    <3> QED
      BY <1>8, <3>1, <3>2, <3>3, <2>3
  <2> QED
    BY <2>1, <2>2, <2>3, Zenon

(* Delivery.                                                               *)
(* One letter is looked after, and who is sent it hears of the ticket as it is *)
(* or that it has moved on; a result is struck off only when it was sent or *)
(* who was to have it is gone.                                             *)
Heard(i) ==
  \/ /\ word' = word
     /\ outbox'[i].state = "sent" =>
          outbox[i].state = "sent" \/ outbox[i].key.kind # "result" \/ outbox[i].key.to \notin askers
  \/ /\ outbox[i].key.kind = "result"
     /\ \E m : /\ word' = [word EXCEPT ![outbox[i].key.to][outbox[i].key.rid] = m]
               /\ m.outdated \/ m.raced \/ m.status = tickets[outbox[i].key.rid].status

LEMMA LetterWritten ==
  ASSUME NEW l \in Letters, NEW s \in {"pending", "held", "later", "sent"}
  PROVE  [l EXCEPT !.state = s] \in Letters /\ [l EXCEPT !.state = s].key = l.key /\ [l EXCEPT !.state = s].state = s
BY DEF Letters

LEMMA DeliveryStep ==
  ASSUME RequestConstants, RequestInv, NEW i \in DOMAIN outbox,
         outbox' = outbox \/ \E s \in {"pending", "held", "later", "sent"} : outbox' = [outbox EXCEPT ![i].state = s],
         flush' = [f \in Flushers |-> flush'[f]],
         \A f \in Flushers : flush'[f] # Null => flush'[f] = flush[f] \/ (IsHeld(flush'[f]) /\ flush'[f].row = i),
         \A x \in cards' : x \in cards \/ (IsCard(x) /\ x.rid \in R!Ids), Heard(i),
         UNCHANGED <<tickets, followers, counter, watches, uploaders, askers, month, drafts, calls, poll, library>>
  PROVE  RequestInv'
<1>1. R!Ids' = R!Ids /\ R!AllIds' = R!AllIds /\ \A r : R!Concerned(r)' = R!Concerned(r)
  BY DEF R!Ids, R!AllIds, R!Concerned
<1>2. Tables' /\ Drafting' /\ R!OneOpenTicket' /\ Counted' /\ References' /\ Watches'
  BY <1>1, DraftingKept, CountedKept, CardsPainted, WatchesKept DEF RequestInv, Tables, R!OneOpenTicket
<1>3. outbox \in Seq(Letters) /\ outbox[i] \in Letters
  BY DEF RequestInv, Post
<1>4. /\ outbox' \in Seq(Letters) /\ DOMAIN outbox' = DOMAIN outbox
      /\ \A j \in DOMAIN outbox : outbox'[j].key = outbox[j].key /\ (j # i => outbox'[j] = outbox[j])
  <2>1. CASE outbox' = outbox
    BY <2>1, <1>3
  <2>2. ASSUME NEW s \in {"pending", "held", "later", "sent"}, outbox' = [outbox EXCEPT ![i].state = s]
        PROVE  /\ outbox' \in Seq(Letters) /\ DOMAIN outbox' = DOMAIN outbox
               /\ \A j \in DOMAIN outbox : outbox'[j].key = outbox[j].key /\ (j # i => outbox'[j] = outbox[j])
    <3>1. PICK l : l = [outbox[i] EXCEPT !.state = s]
      OBVIOUS
    <3>2. l \in Letters /\ l.key = outbox[i].key
      BY <1>3, <3>1, LetterWritten, Zenon
    <3>3. outbox' = [outbox EXCEPT ![i] = l]
      BY <2>2, <3>1
    <3> QED
      BY <1>3, <3>2, <3>3
  <2> QED
    BY <2>1, <2>2
<1>5. Post'
  <2>1. ASSUME NEW j \in DOMAIN outbox PROVE About(outbox[j].key)'
    BY <1>1, <1>4 DEF RequestInv, Post, About
  <2> QED
    BY <1>4, <2>1 DEF RequestInv, Post
<1>6. Words'
  <2>1. ASSUME NEW u \in Askers, NEW r \in R!AllIds, word'[u][r] # Null, word'[u][r] = word[u][r],
               u \in askers /\ R!Undelivered(u, r) => \/ R!Undelivered(u, r)' \/ word[u][r].outdated \/ word[u][r].raced
                                                      \/ word[u][r].status = tickets[r].status
        PROVE  r \in R!Ids' /\ u \in R!Concerned(r)' /\ (u \in askers' => Right(u, r)')
    <3>1. r \in R!Ids /\ u \in R!Concerned(r) /\ (u \in askers => Right(u, r))
      BY <2>1 DEF RequestInv, Words
    <3> QED
      BY <2>1, <3>1, <1>1 DEF Right
  <2>2. ASSUME NEW u \in Askers, NEW r \in R!Ids, R!Undelivered(u, r),
               ~(outbox'[i].state = "sent" /\ outbox[i].state # "sent" /\ outbox[i].key.kind = "result"
                 /\ outbox[i].key.rid = r /\ outbox[i].key.to = u)
        PROVE  R!Undelivered(u, r)'
    <3>1. PICK j \in DOMAIN outbox : /\ outbox[j].state # "sent" /\ outbox[j].key.kind = "result"
                                     /\ outbox[j].key.rid = r /\ outbox[j].key.to = u
      BY <2>2 DEF R!Undelivered
    <3>2. outbox'[j].state # "sent" /\ outbox'[j].key = outbox[j].key
      BY <2>2, <3>1, <1>4
    <3> QED
      BY <3>1, <3>2, <1>4 DEF R!Undelivered
  <2>3. CASE /\ word' = word
             /\ outbox'[i].state = "sent" =>
                  outbox[i].state = "sent" \/ outbox[i].key.kind # "result" \/ outbox[i].key.to \notin askers
    <3>1. ASSUME NEW u \in Askers, NEW r \in R!AllIds, word[u][r] # Null
          PROVE  r \in R!Ids' /\ u \in R!Concerned(r)' /\ (u \in askers' => Right(u, r)')
      BY <2>1, <2>2, <2>3, <3>1 DEF RequestInv, Words
    <3> QED
      BY <2>3, <3>1, <1>1 DEF RequestInv, Words
  <2>4. ASSUME NEW m, outbox[i].key.kind = "result", word' = [word EXCEPT ![outbox[i].key.to][outbox[i].key.rid] = m],
               m.outdated \/ m.raced \/ m.status = tickets[outbox[i].key.rid].status
        PROVE  Words'
    <3>1. PICK v, s : v = outbox[i].key.to /\ s = outbox[i].key.rid
      OBVIOUS
    <3>2. v \in Askers /\ s \in R!AllIds /\ s \in R!Ids /\ v \in R!Concerned(s)
      BY <3>1, <2>4, <1>3, LetterTypes DEF RequestInv, Post, About, R!AllIds
    <3>3. word' = [word EXCEPT ![v][s] = m] /\ word = [u \in Askers |-> [r \in R!AllIds |-> word[u][r]]]
      BY <2>4, <3>1 DEF RequestInv, Words
    <3>4. /\ word' = [u \in Askers |-> [r \in R!AllIds |-> word'[u][r]]]
          /\ word'[v][s] = m
          /\ \A u \in Askers, r \in R!AllIds : u # v \/ r # s => word'[u][r] = word[u][r]
      BY <3>2, <3>3
    <3>5. ASSUME NEW u \in Askers, NEW r \in R!AllIds, word'[u][r] # Null
          PROVE  r \in R!Ids' /\ u \in R!Concerned(r)' /\ (u \in askers' => Right(u, r)')
      <4>1. CASE u = v /\ r = s
        BY <4>1, <3>1, <3>2, <3>4, <2>4, <1>1 DEF Right
      <4>2. CASE u # v \/ r # s
        BY <4>2, <3>1, <3>4, <3>5, <2>1, <2>2 DEF RequestInv, Words
      <4> QED
        BY <4>1, <4>2
    <3> QED
      BY <3>4, <3>5, <1>1 DEF Words
  <2> QED
    BY <2>3, <2>4 DEF Heard
<1> QED
  BY <1>2, <1>5, <1>6 DEF RequestInv

LEMMA TakeStep == ASSUME RequestConstants, RequestInv, NEW f \in Flushers, R!Take(f) PROVE RequestInv'
<1>1. UNCHANGED <<tickets, followers, counter, watches, uploaders, askers, month, drafts, calls,
                  cards, poll, library, word>>
  BY DEF R!Take, R!ticketVars, R!peopleVars, R!draftVars, R!pollVars
<1>2. PICK i \in DOMAIN outbox :
        /\ outbox[i].state = "pending"
        /\ R!DropsOut(outbox[i].key) => outbox' = [outbox EXCEPT ![i].state = "sent"] /\ flush' = flush
        /\ ~R!DropsOut(outbox[i].key) =>
             /\ outbox' = [outbox EXCEPT ![i].state = "held"]
             /\ flush' = [flush EXCEPT ![f] =
                  [row |-> i, status |-> tickets[outbox[i].key.rid].status,
                   revision |-> IF outbox[i].key.kind = "new" THEN tickets[outbox[i].key.rid].revision ELSE 0]]
  BY Zenon DEF R!Take, R!Due
<1>3. outbox[i] \in Letters /\ outbox \in Seq(Letters) /\ flush = [g \in Flushers |-> flush[g]]
  BY DEF RequestInv, Post
<1>4. CASE R!DropsOut(outbox[i].key)
  <2>1. Heard(i)
    BY <1>1, <1>4 DEF Heard, R!DropsOut
  <2> QED
    BY <1>1, <1>2, <1>3, <1>4, <2>1, DeliveryStep
<1>5. CASE ~R!DropsOut(outbox[i].key)
  <2>1. PICK h : h = [row |-> i, status |-> tickets[outbox[i].key.rid].status,
                      revision |-> IF outbox[i].key.kind = "new" THEN tickets[outbox[i].key.rid].revision ELSE 0]
    OBVIOUS
  <2>2. IsHeld(h) /\ h.row = i
    BY <2>1 DEF IsHeld
  <2>3. outbox' = [outbox EXCEPT ![i].state = "held"] /\ flush' = [flush EXCEPT ![f] = h]
    BY <1>2, <1>5, <2>1
  <2>4. /\ flush' = [g \in Flushers |-> flush'[g]] /\ \A g \in Flushers : flush'[g] = IF g = f THEN h ELSE flush[g]
    BY <1>3, <2>3
  <2>5. outbox'[i] = [outbox[i] EXCEPT !.state = "held"]
    BY <1>3, <2>3
  <2>6. outbox'[i].state # "sent"
    BY <1>3, <2>5, LetterWritten
  <2>7. Heard(i)
    BY <1>1, <2>6 DEF Heard
  <2> QED
    BY <1>1, <2>2, <2>3, <2>4, <2>7, DeliveryStep
<1> QED
  BY <1>4, <1>5

(* The message and the bookkeeping of a flusher.                           *)
LEMMA FlushStep ==
  ASSUME RequestConstants, RequestInv, NEW f \in Flushers, R!Deliver(f) \/ R!DeliverFails(f) \/ R!Crash(f)
  PROVE  RequestInv'
<1>1. PICK i : i = flush[f].row /\ i \in DOMAIN outbox /\ flush[f] # Null
  BY DEF R!Deliver, R!DeliverFails, R!Crash, RequestInv, Post
<1>2. UNCHANGED <<tickets, followers, counter, watches, uploaders, askers, month, drafts, calls, poll, library>>
  BY DEF R!Deliver, R!DeliverFails, R!Crash, R!DeliveryResult, R!ticketVars, R!peopleVars, R!draftVars, R!pollVars
<1>3. /\ flush' = [flush EXCEPT ![f] = Null] /\ flush = [g \in Flushers |-> flush[g]]
      /\ outbox[i] \in Letters /\ outbox \in Seq(Letters) /\ outbox[i].key.rid \in R!Ids
  BY <1>1 DEF R!Deliver, R!DeliverFails, R!Crash, R!DeliveryResult, RequestInv, Post, About
<1>4. flush' = [g \in Flushers |-> flush'[g]] /\ \A g \in Flushers : flush'[g] # Null => flush'[g] = flush[g]
  BY <1>3
<1>5. ASSUME R!Landed(f)
      PROVE  /\ \/ word' = word /\ outbox[i].key.kind # "result"
                \/ /\ outbox[i].key.kind = "result"
                   /\ word' = [word EXCEPT ![outbox[i].key.to][outbox[i].key.rid] = R!Message(f)]
             /\ \A x \in cards' : x \in cards \/ (IsCard(x) /\ x.rid \in R!Ids)
  <2>1. \/ cards' = cards
        \/ \E v : cards' = cards \cup {[user |-> outbox[i].key.to, rid |-> outbox[i].key.rid, revision |-> v, view |-> "staff"]}
    BY <1>1, <1>5 DEF R!Landed
  <2>2. \A v : LET x == [user |-> outbox[i].key.to, rid |-> outbox[i].key.rid, revision |-> v, view |-> "staff"]
               IN  IsCard(x) /\ x.rid = outbox[i].key.rid
    BY DEF IsCard
  <2>3. \A x \in cards' : x \in cards \/ (IsCard(x) /\ x.rid \in R!Ids)
    BY <2>1, <2>2, <1>3
  <2> QED
    BY <1>1, <1>5, <2>3 DEF R!Landed
<1>6. R!Message(f).outdated \/ R!Message(f).raced \/ R!Message(f).status = tickets[outbox[i].key.rid].status
  BY <1>1 DEF R!Message
<1>7. CASE R!Landed(f) /\ (outbox' = outbox \/ \E s \in {"later", "sent"} : outbox' = [outbox EXCEPT ![i].state = s])
  <2>1. Heard(i)
    BY <1>5, <1>6, <1>7 DEF Heard
  <2> QED
    BY <1>1, <1>2, <1>4, <1>5, <1>7, <2>1, DeliveryStep
<1>8. CASE UNCHANGED <<word, cards>> /\ (outbox' = outbox \/ outbox' = [outbox EXCEPT ![i].state = "later"])
  <2>1. outbox'[i].state = "sent" => outbox[i].state = "sent"
    <3>1. CASE outbox' = outbox
      BY <3>1
    <3>2. CASE outbox' = [outbox EXCEPT ![i].state = "later"]
      <4>1. outbox'[i] = [outbox[i] EXCEPT !.state = "later"]
        BY <1>1, <1>3, <3>2
      <4> QED
        BY <1>3, <4>1, LetterWritten
    <3> QED
      BY <1>8, <3>1, <3>2
  <2>2. Heard(i)
    BY <1>8, <2>1 DEF Heard
  <2> QED
    BY <1>1, <1>2, <1>4, <1>8, <2>2, DeliveryStep
<1> QED
  BY <1>1, <1>7, <1>8 DEF R!Deliver, R!DeliverFails, R!Crash, R!DeliveryResult

LEMMA WaitStep == ASSUME RequestConstants, RequestInv, NEW i \in DOMAIN outbox, R!Wait(i) PROVE RequestInv'
<1>1. outbox' = [outbox EXCEPT ![i].state = "pending"] /\ outbox \in Seq(Letters) /\ outbox[i] \in Letters
  BY DEF R!Wait, RequestInv, Post
<1>2. UNCHANGED <<tickets, followers, counter, watches, uploaders, askers, month, drafts, calls,
                  cards, poll, library, flush, word>>
  BY DEF R!Wait, R!ticketVars, R!peopleVars, R!draftVars, R!pollVars, R!postVars
<1>3. outbox'[i] = [outbox[i] EXCEPT !.state = "pending"]
  BY <1>1
<1>4. Heard(i)
  BY <1>1, <1>2, <1>3, LetterWritten DEF Heard
<1> QED
  BY <1>1, <1>2, <1>4, DeliveryStep DEF RequestInv, Post

(* The sum.                                                                *)
(* No member has more requests of a month than his quota, and the counter   *)
(* is what he has had; no demand has two open tickets and no paper makes two; *)
(* the library is watched for who was accepted; and what a member was told  *)
(* last is so, or says that it is not, or more is on its way (create,       *)
(* finish, admin correct and refund, the poll and flush_outbox): for any    *)
(* members, demands, quotas and flushers, and however presses, corrections, *)
(* months, lost answers and crashes fall together.                         *)
THEOREM RequestsInOrder ==
  ASSUME RequestConstants
  PROVE  R!Spec => [](R!QuotaExact /\ R!OneOpenTicket /\ R!WatchedWhileAccepted /\ R!LastWordRight)
<1>1. R!Init => RequestInv
  BY RequestInit
<1>2. RequestInv /\ [R!Next]_(R!vars) => RequestInv'
  <2> SUFFICES ASSUME RequestInv, [R!Next]_(R!vars) PROVE RequestInv'
    OBVIOUS
  <2>1. CASE UNCHANGED R!vars
    <3>1. Still /\ UNCHANGED <<watches, drafts, calls, cards, poll, library>> /\ R!Ids' = R!Ids
      BY <2>1 DEF R!vars, Still, RequestInv, Tables, R!Ids
    <3> QED
      BY <3>1, ReferencesKept, DraftingKept, WatchesKept, StillKeeps DEF Still
  <2>2. CASE R!Next
    BY <2>2, DraftStep, CardStep, WorldStep, LibraryStep, LookupStep, PollStep, PressStep, CorrectStep,
       RefundStep, ModifyStep,
       FollowStep, CreateStep, StageStep, TakeStep, FlushStep, WaitStep DEF R!Next
  <2> QED
    BY <2>1, <2>2
<1>3. RequestInv => R!QuotaExact /\ R!OneOpenTicket /\ R!WatchedWhileAccepted /\ R!LastWordRight
  <2> SUFFICES ASSUME RequestInv PROVE R!LastWordRight
    BY DEF RequestInv, Counted, Watches
  <2> SUFFICES ASSUME NEW u \in askers, NEW r \in R!Ids, word[u][r] # Null
               PROVE  R!Undelivered(u, r) \/ word[u][r].outdated \/ word[u][r].raced \/ word[u][r].status = tickets[r].status
    BY DEF R!LastWordRight
  <2> QED
    BY IdsAreIds DEF RequestInv, Tables, Words, Right
<1>4. QED
  BY <1>1, <1>2, <1>3, PTL DEF R!Spec

=============================================================================
