------------------------------ MODULE Accounts ------------------------------
(* How an Emby account becomes a member: the credentials of registration.py, *)
(* the registration task of telegram.py (_finish_registration_locked) with   *)
(* its awaits, the reconciliation of member rows with Emby's user list       *)
(* (members.py, the loop and the routes of main.py), purging, deletion       *)
(* (member_ops.py) and the transfer of an account to another Telegram        *)
(* account (rebinding.py).  Emby itself answers, loses answers, and is       *)
(* changed behind the panel's back.                                          *)
EXTENDS Integers, FiniteSets

CONSTANTS
  Ids,          \* Emby user ids; Emby never gives one out twice
  Tgs,          \* Telegram accounts
  Null,
  Operators,    \* of the panel, who list Emby's users and reconcile
  Loop,         \* the background loop, which does so every 900 seconds
  Listers,      \* those of them at work in the instance
  Cap,          \* max_users
  Uses,         \* uses of the one invite code
  MaxOutside    \* bound: changes made to Emby without the panel

\* members: tg_user_id, emby_missing_since
Rows == [tg : Tgs \cup {Null}, flag : {"clear", "missing"}]

\* a pending row of tg_requests: emby_user_id, old_tg_user_id
Requests == [id : Ids, old : Tgs]

ASSUME AccountsAssumption ==
  /\ Null \notin Ids \cup Tgs \cup Rows \cup Requests /\ IsFiniteSet(Ids)
  /\ Listers \subseteq Operators \cup {Loop}
  /\ Cap \in Nat \ {0} /\ Uses \in Nat \ {0}
  /\ MaxOutside \in Nat

VARIABLES
  emby,      \* per id: "unborn", "here" or "gone"
  row,       \* members: per id Null or a row
  invite,    \* invite_codes: [left, state] of the one code
  card,      \* redeem_codes: status of the one card
  grants,    \* admin_grants: the Telegram accounts with an unused authorisation
  chat,      \* the admission a chat was promised and may still use, or "none"
  reg,       \* the registration that holds _registration_lock
  listing,   \* per lister the ids list_users answered, or Null
  logged,    \* ids audited as registration.cleanup_failed
  spent,     \* history: members registered with the invite and with the card
  rebind,    \* tg_requests: per Telegram account its pending request, or Null
  outside

vars == <<emby, row, invite, card, grants, chat, reg, listing, logged, spent, rebind, outside>>
credentials == <<invite, card, grants, spent>>

Idle == [step |-> "idle", tg |-> Null, id |-> Null]

Here == {i \in Ids : emby[i] = "here"}
Members == {i \in Ids : row[i] # Null}

Init ==
  /\ emby = [i \in Ids |-> "unborn"]
  /\ row = [i \in Ids |-> Null]
  /\ invite = [left |-> Uses, state |-> "good"]
  /\ card = "unused"
  /\ grants = {}
  /\ chat = [t \in Tgs |-> "none"]
  /\ reg = Idle
  /\ listing = [l \in Listers |-> Null]
  /\ logged = {}
  /\ spent = [invite |-> 0, redeem |-> 0]
  /\ rebind = [t \in Tgs |-> Null]
  /\ outside = 0

-----------------------------------------------------------------------------
(* Credentials and who may use them.                                         *)

\* _invite_usable and the guard of consume; an inviter's suspension pauses the code
Usable == invite.state = "good" /\ invite.left > 0

\* resolve: the kind of admission that a chat holding credential c gets now
Resolve(t, c) ==
  IF t \in grants THEN "admin"
  ELSE IF (c = "invite" /\ Usable) \/ (c = "redeem" /\ card = "unused") THEN c
  ELSE "none"

Linked(t) == \E i \in Members : row[i].tg = t

\* registration_slots and _registration_blocked
SlotFree == Cardinality(Members) < Cap

\* _fresh_admission: still the promised one, and nobody answers for t yet
Fresh(t) == ~Linked(t) /\ chat[t] # "none" /\ Resolve(t, chat[t]) = chat[t]

\* mutant of MayRegister: the slots are not counted again
MayRegisterFresh(t) == Fresh(t)

\* mutant of MayRegister: the admission promised to the chat is still believed
MayRegisterPromised(t) == SlotFree /\ ~Linked(t) /\ chat[t] # "none"

MayRegister(t) == SlotFree /\ Fresh(t)

\* a suspension pauses a code for a while, revoke_invite and expiry for good
ChangeInvite ==
  /\ invite' = [invite EXCEPT !.state = IF @ = "good" THEN "paused" ELSE "good"]
  /\ UNCHANGED <<emby, row, card, grants, chat, reg, listing, logged, spent, rebind, outside>>

\* revoke_redeem
RevokeCard ==
  /\ card # "used"
  /\ card' = "revoked"
  /\ UNCHANGED <<emby, row, invite, grants, chat, reg, listing, logged, spent, rebind, outside>>

\* grant_admin, which arms a spent authorisation again, and revoke_grant
ChangeGrant(t) ==
  /\ grants' \in {grants \cup {t}, grants \ {t}}
  /\ UNCHANGED <<emby, row, invite, card, chat, reg, listing, logged, spent, rebind, outside>>

\* _start_registration, _submit_credential: a verdict, and nothing is spent
Apply(t, c) ==
  /\ reg.tg # t
  /\ c = "none" => ~Linked(t) /\ SlotFree
  /\ Resolve(t, c) # "none"
  /\ chat' = [chat EXCEPT ![t] = Resolve(t, c)]
  /\ UNCHANGED <<emby, row, credentials, reg, listing, logged, rebind, outside>>

\* a cancelled dialogue, or one whose ten minutes are over
Forget(t) ==
  /\ reg.tg # t
  /\ chat' = [chat EXCEPT ![t] = "none"]
  /\ UNCHANGED <<emby, row, credentials, reg, listing, logged, rebind, outside>>

-----------------------------------------------------------------------------
(* One registration at a time, with an await at every call to Emby.          *)

\* consume
Consume(t, via) ==
  /\ invite' = IF via = "invite" THEN [invite EXCEPT !.left = @ - 1] ELSE invite
  /\ card' = IF via = "redeem" THEN "used" ELSE card
  /\ grants' = IF via = "admin" THEN grants \ {t} ELSE grants

\* _finish_registration_locked up to create_user
Begin(t) ==
  /\ reg = Idle /\ chat[t] # "none"
  /\ IF MayRegister(t)
       THEN reg' = [step |-> "creating", tg |-> t, id |-> Null] /\ UNCHANGED chat
       ELSE chat' = [chat EXCEPT ![t] = "none"] /\ UNCHANGED reg
  /\ UNCHANGED <<emby, row, credentials, listing, logged, rebind, outside>>

\* the task took the admission out of the dialogue when it was confirmed
End == reg' = Idle /\ chat' = [chat EXCEPT ![reg.tg] = "none"]

\* Emby carries out create_user
EmbyCreates ==
  /\ reg.step = "creating"
  /\ \E i \in Ids :
       /\ emby[i] = "unborn"
       /\ emby' = [emby EXCEPT ![i] = "here"]
       /\ reg' = [reg EXCEPT !.step = "created", !.id = i]
  /\ UNCHANGED <<row, credentials, chat, listing, logged, rebind, outside>>

\* the name is taken, or the answer never arrives and the id is never learnt
CreateFailed ==
  /\ reg.step \in {"creating", "created"}
  /\ End
  /\ UNCHANGED <<emby, row, credentials, listing, logged, rebind, outside>>

\* the id may already be a member: somebody enrolled the account meanwhile
CreateAnswered ==
  /\ reg.step = "created"
  /\ IF row[reg.id] # Null
       THEN End
       ELSE UNCHANGED chat /\ \E s \in {"password", "undo"} : reg' = [reg EXCEPT !.step = s]
  /\ UNCHANGED <<emby, row, credentials, listing, logged, rebind, outside>>

\* set_user_password failed, the task was cancelled, or the check under the
\* write lock refuses
PasswordRefused ==
  /\ reg.step = "password"
  /\ reg' = [reg EXCEPT !.step = "undo"]
  /\ UNCHANGED <<emby, row, credentials, chat, listing, logged, rebind, outside>>

\* upsert keeps the flag of a row that is there already
Registered(old, t) == [tg |-> t, flag |-> IF old = Null THEN "clear" ELSE old.flag]

Recorded(via) ==
  IF via = "admin" THEN spent ELSE [spent EXCEPT ![via] = @ + 1]

\* the transaction: fresh admission, slots, row, link and credential together
Commit ==
  /\ reg.step = "password"
  /\ MayRegister(reg.tg)
  /\ row' = [row EXCEPT ![reg.id] = Registered(@, reg.tg)]
  /\ Consume(reg.tg, chat[reg.tg])
  /\ spent' = Recorded(chat[reg.tg])
  /\ End
  /\ UNCHANGED <<emby, listing, logged, rebind, outside>>

\* mutant of CleanupFailed: an unconfirmed deletion is taken for one
CleanupAssumed(i, confirmed) == {}

\* ids to audit after delete_user did or did not confirm
CleanupFailed(i, confirmed) == IF confirmed THEN {} ELSE {i}

\* _rollback_registration: the deletion may fail, and so may its answer
Undo ==
  /\ reg.step = "undo"
  /\ \E done, confirmed \in BOOLEAN :
       /\ confirmed => done
       /\ done => emby[reg.id] = "here"
       /\ emby' = IF done THEN [emby EXCEPT ![reg.id] = "gone"] ELSE emby
       /\ logged' = logged \cup CleanupFailed(reg.id, confirmed)
  /\ End
  /\ UNCHANGED <<row, credentials, listing, rebind, outside>>

-----------------------------------------------------------------------------
(* Reconciliation.  The list is read before an await and used after it.      *)

ListUsers(l) ==
  /\ listing[l] = Null
  /\ listing' = [listing EXCEPT ![l] = Here]
  /\ UNCHANGED <<emby, row, credentials, chat, reg, logged, rebind, outside>>

\* sync_emby: an empty list says nothing about anybody
Synced(r, live) ==
  IF live = {} THEN r
  ELSE [i \in Ids |-> IF r[i] = Null THEN Null
                      ELSE [r[i] EXCEPT !.flag = IF i \in live THEN "clear" ELSE "missing"]]

\* enroll_defaults
Enrolled(r, live) ==
  [i \in Ids |-> IF i \in live /\ r[i] = Null
                   THEN [tg |-> Null, flag |-> "clear"] ELSE r[i]]

\* the loop sets flags only; the routes emby-sync, with or without enroll_new,
\* and enroll-defaults are the operators'
Reconciled(l) ==
  LET live == listing[l] IN
  IF l \in Operators
    THEN {Synced(row, live), Enrolled(row, live), Enrolled(Synced(row, live), live)}
    ELSE {Synced(row, live)}

Reconcile(l) ==
  /\ listing[l] # Null
  /\ row' \in Reconciled(l)
  /\ listing' = [listing EXCEPT ![l] = Null]
  /\ UNCHANGED <<emby, credentials, chat, reg, logged, rebind, outside>>

\* purge_orphans, id by id
Purge(i) ==
  /\ row[i] # Null /\ row[i].flag = "missing"
  /\ row' = [row EXCEPT ![i] = Null]
  /\ UNCHANGED <<emby, credentials, chat, reg, listing, logged, rebind, outside>>

\* unbind_telegram
Unbind(i) ==
  /\ row[i] # Null /\ row[i].tg # Null
  /\ row' = [row EXCEPT ![i].tg = Null]
  /\ UNCHANGED <<emby, credentials, chat, reg, listing, logged, rebind, outside>>

\* RebindingService.create, after Emby has verified the password
AskRebind(t, i) ==
  /\ reg.tg # t
  /\ ~Linked(t) /\ row[i] # Null /\ row[i].tg # Null /\ row[i].flag = "clear"
  /\ rebind[t] = Null /\ \A u \in Tgs : rebind[u] # Null => rebind[u].id # i
  /\ rebind' = [rebind EXCEPT ![t] = [id |-> i, old |-> row[i].tg]]
  /\ UNCHANGED <<emby, row, credentials, chat, reg, listing, logged, outside>>

\* review: the account still answers to the old Telegram account, the new one to nobody
Stands(t) ==
  LET i == rebind[t].id IN
  ~Linked(t) /\ row[i] # Null /\ row[i].flag = "clear" /\ row[i].tg = rebind[t].old

\* review, or the request's expiry
Review(t) ==
  /\ rebind[t] # Null
  /\ \E approve \in BOOLEAN :
       row' = IF approve /\ Stands(t) THEN [row EXCEPT ![rebind[t].id].tg = t] ELSE row
  /\ rebind' = [rebind EXCEPT ![t] = Null]
  /\ UNCHANGED <<emby, credentials, chat, reg, listing, logged, outside>>

\* execute_delete: the row goes with a confirmed deletion, or with an account that
\* is absent: the deletion is answered by a 404, or refused though a list that is
\* not empty does not hold the account; any other error keeps the row
Delete(i) ==
  /\ row[i] # Null
  /\ \E done, told \in BOOLEAN :
       /\ done => emby[i] = "here"
       /\ told => done \/ emby[i] # "here"
       /\ emby' = IF done THEN [emby EXCEPT ![i] = "gone"] ELSE emby
       /\ row' = IF told THEN [row EXCEPT ![i] = Null] ELSE row
  /\ UNCHANGED <<credentials, chat, reg, listing, logged, rebind, outside>>

\* members_delete without delete_emby: the membership only
Remove(i) ==
  /\ row[i] # Null
  /\ row' = [row EXCEPT ![i] = Null]
  /\ UNCHANGED <<emby, credentials, chat, reg, listing, logged, rebind, outside>>

-----------------------------------------------------------------------------
(* Emby's own administrator, and the death of the process.                   *)

Outside(i) ==
  /\ outside < MaxOutside /\ outside' = outside + 1
  /\ emby' = [emby EXCEPT ![i] = IF @ = "here" THEN "gone" ELSE "here"]
  /\ UNCHANGED <<row, credentials, chat, reg, listing, logged, rebind>>

Crash ==
  /\ reg' = Idle /\ chat' = [t \in Tgs |-> "none"]
  /\ listing' = [l \in Listers |-> Null]
  /\ UNCHANGED <<emby, row, credentials, logged, rebind, outside>>

Next ==
  \/ ChangeInvite \/ RevokeCard
  \/ \E t \in Tgs : ChangeGrant(t) \/ Forget(t) \/ Begin(t) \/ Review(t)
  \/ \E t \in Tgs, c \in {"none", "invite", "redeem"} : Apply(t, c)
  \/ \E t \in Tgs, i \in Ids : AskRebind(t, i)
  \/ EmbyCreates \/ CreateFailed \/ CreateAnswered \/ PasswordRefused \/ Commit \/ Undo
  \/ \E l \in Listers : ListUsers(l) \/ Reconcile(l)
  \/ \E i \in Ids : Purge(i) \/ Unbind(i) \/ Delete(i) \/ Remove(i) \/ Outside(i)
  \/ Crash

Spec == Init /\ [][Next]_vars

-----------------------------------------------------------------------------
(* Properties.                                                               *)

\* The states of accounts, members, credentials and of the one registration under way.
TypeOK ==
  /\ emby \in [Ids -> {"unborn", "here", "gone"}]
  /\ row \in [Ids -> Rows \cup {Null}]
  /\ invite \in [left : Nat, state : {"good", "paused"}]
  /\ card \in {"unused", "used", "revoked"}
  /\ grants \subseteq Tgs
  /\ chat \in [Tgs -> {"none", "admin", "invite", "redeem"}]
  /\ reg \in [step : {"idle", "creating", "created", "password", "undo"},
              tg : Tgs \cup {Null}, id : Ids \cup {Null}]
  /\ listing \in [Listers -> (SUBSET Ids) \cup {Null}]
  /\ logged \subseteq Ids
  /\ spent \in [invite : Nat, redeem : Nat]
  /\ rebind \in [Tgs -> Requests \cup {Null}]
  /\ outside \in Nat

\* Every credential is spent exactly on the registrations it was good for, and
\* never beyond what it allows: two chats that were promised the last use of an
\* invite or the card, a withdrawal during the creation, a rollback and a crash
\* neither lose a use nor admit one registration too many (registration.py:20,
\* consume).
CredentialsExact ==
  /\ invite.left >= 0 /\ invite.left + spent.invite = Uses
  /\ spent.redeem = IF card = "used" THEN 1 ELSE 0

\* Of the members at most Cap answer on Telegram, and no two of them to the same
\* account: two chats that wait for the last slot, enrolments while a
\* registration waits for Emby, and a request for another Telegram account that
\* is approved after that account has registered (telegram.py:1710,
\* registration_slots; rebinding.py:123, review).
LinksExact ==
  /\ Cardinality({i \in Members : row[i].tg # Null}) <= Cap
  /\ \A i, j \in Members : row[i].tg # Null /\ row[i].tg = row[j].tg => i = j

\* A registration that gives up after it learnt the id of its account leaves
\* none that nobody knows of: the account is gone from Emby or audited as
\* cleanup_failed (_rollback_registration), unless the process died.
NoSilentOrphan ==
  [][ reg.step \in {"password", "undo"} /\ reg'.step = "idle" /\ ~Crash
      => \/ emby'[reg.id] # "here" \/ reg.id \in logged' \/ row'[reg.id] # Null ]_vars

\* members.py:731 "an operator clicking through a stale page must not be able to
\* delete a member whose account is present right now"
PurgeSparesThePresent ==
  [][\A i \in Ids : Purge(i) => emby[i] # "here"]_vars

\* telegram.py:1629 "Only a newly created remote ID reaches this path. Never
\* delete an existing membership"
RollbackSparesMembers ==
  [][\A i \in Ids : Undo /\ row[i] # Null => emby'[i] = emby[i]]_vars

=============================================================================
