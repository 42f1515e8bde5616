----------------------------- MODULE Membership -----------------------------
(* Linked chats (group_membership.py): the bot lets in the members who are  *)
(* in every linked chat and deletes the account of one who has left.  Its   *)
(* handlers of updates run side by side with a scan, each awaits Telegram   *)
(* and Emby, and the bindings, the rules and the chats change meanwhile.    *)
(* One account, the Telegram users it may be bound to, and the chats.       *)
EXTENDS Naturals, Sequences, FiniteSets

CONSTANTS
  Chats,     \* the linked and enabled targets
  Ids,       \* Telegram users
  Handlers,  \* tasks of updates and of messages at the gate
  Null,
  MaxTime, MaxUpdates, MaxChanges, MaxFaults  \* bounds of the instance

MembershipBounds == {MaxTime, MaxUpdates, MaxChanges, MaxFaults} \subseteq Nat

VARIABLES
  clock,      \* seconds
  inside,     \* who is in which chat
  updates,    \* what Telegram has queued for the bot, by update_id
  offset, confirmed,  \* the last update taken; the last that getUpdates confirmed
  row, emby,  \* the member's row and his Emby account
  rules,      \* membership_rules; each save has a generation of its own
  epoch, epochs,  \* _epoch and _member_epochs
  heads,      \* _event_heads: the newest update of each chat and user, in memory
  marks,      \* the same in the table meta
  busy,       \* the task in inspect, under the account's lock
  writing,    \* the task in _write_event, under the lock of its chat and user
  work,       \* the tasks
  verdicts,   \* history: what was decided, and whether by then it was known to be stale
  changes, faults

vars == <<clock, inside, updates, offset, confirmed, row, emby, rules, epoch, epochs, heads, marks,
          busy, writing, work, verdicts, changes, faults>>
outside == <<clock, inside, updates, rules, changes>>
memory == <<offset, confirmed, epoch, epochs, heads>>

Tasks == Handlers \cup {"scan"}
Keys == Chats \X Ids
Presence == {"present", "absent", "unknown"}

Init ==
  /\ clock = 1 /\ inside = Keys /\ updates = <<>> /\ offset = 0 /\ confirmed = 0
  /\ row \in [here : {TRUE}, tg : Ids, bound : {0}, admin : {FALSE}]
  /\ emby = [here |-> TRUE, admin |-> FALSE]
  /\ rules = [generation |-> 0, delete |-> TRUE, since |-> 0]
  /\ epoch = 0 /\ epochs = [i \in Ids |-> 0] /\ heads = [k \in Keys |-> 0] /\ marks = heads
  /\ busy = Null /\ writing = [k \in Keys |-> Null] /\ work = [t \in Tasks |-> Null]
  /\ verdicts = {} /\ changes = 0 /\ faults = 0

-----------------------------------------------------------------------------
fingerprint == <<rules.generation, epoch>>

Fault == faults < MaxFaults /\ faults' = faults + 1
Change == changes < MaxChanges /\ changes' = changes + 1

At(t, pc) == work[t] # Null /\ work[t].pc = pc
To(t, pc) == work' = [work EXCEPT ![t].pc = pc]
Ends(t) == work' = [work EXCEPT ![t] = Null] /\ busy' = IF busy = t THEN Null ELSE busy

(* The tasks that the news makes out of date, of those that asked before.   *)
Outdated(Known(_)) ==
  [t \in Tasks |-> IF work[t] # Null /\ Known(work[t]) THEN [work[t] EXCEPT !.stale = TRUE] ELSE work[t]]

Task(pc, id, bound, update) ==
  [pc |-> pc, id |-> id, bound |-> bound, update |-> update, fingerprint |-> fingerprint,
   observed |-> epochs[id], ask |-> {}, state |-> "present", stale |-> FALSE]

(* -------------------------- what the world does ------------------------ *)
Tick == clock < MaxTime /\ clock' = clock + 1
        /\ UNCHANGED <<inside, updates, rules, changes, memory, row, emby, marks, busy, writing, work, verdicts, faults>>

(* Joining and leaving, which Telegram queues for the bot.                  *)
Move(k) ==
  /\ Len(updates) < MaxUpdates
  /\ inside' = IF k \in inside THEN inside \ {k} ELSE inside \cup {k}
  /\ updates' = Append(updates, [key |-> k, date |-> clock, state |-> IF k \in inside THEN "absent" ELSE "present"])
  /\ UNCHANGED <<clock, rules, changes, memory, row, emby, marks, busy, writing, work, verdicts, faults>>

(* The bot's own rights in a chat change, or a group is migrated.           *)
Demoted ==
  /\ Len(updates) < MaxUpdates
  /\ updates' = Append(updates, [key |-> Null, date |-> clock, state |-> "unknown"])
  /\ UNCHANGED <<clock, inside, rules, changes, memory, row, emby, marks, busy, writing, work, verdicts, faults>>

(* The account is bound to another Telegram user, or made an administrator. *)
Rebind(id) ==
  /\ Change /\ row.here /\ row.tg # id
  /\ row' = [row EXCEPT !.tg = id, !.bound = clock]
  /\ work' = Outdated(LAMBDA w : w.bound # Null)
  /\ UNCHANGED <<clock, inside, updates, rules, memory, emby, marks, busy, writing, verdicts, faults>>

Promote ==
  /\ Change /\ row.here /\ ~row.admin /\ row' = [row EXCEPT !.admin = TRUE]
  /\ work' = Outdated(LAMBDA w : w.bound # Null)
  /\ UNCHANGED <<clock, inside, updates, rules, memory, emby, marks, busy, writing, verdicts, faults>>

(* save_telegram, after prepare_rules has verified the targets and the      *)
(* fingerprint is still the one of the request.                             *)
Save(delete) ==
  /\ Change
  /\ rules' = [generation |-> rules.generation + 1, delete |-> delete, since |-> clock]
  /\ work' = Outdated(LAMBDA w : TRUE)
  /\ UNCHANGED <<clock, inside, updates, memory, row, emby, marks, busy, writing, verdicts, faults>>

(* ------------------------------ updates -------------------------------- *)
(* The handler's steps before it first awaits anything.  getUpdates has     *)
(* confirmed what was taken before it, handled or not.                      *)
Invalidate(u) == epochs' = [epochs EXCEPT ![u.key[2]] = @ + 1]

Fresh(u, n) == u.date > rules.since /\ heads[u.key] < n

handle_update(h) ==
  /\ work[h] = Null /\ offset < Len(updates) /\ offset' = offset + 1
  /\ confirmed' \in {confirmed, offset}
  /\ \E u \in {updates[offset']} :
       IF u.key = Null
       THEN /\ epoch' = epoch + 1 /\ UNCHANGED <<epochs, heads>>
            /\ work' = Outdated(LAMBDA w : TRUE)
       ELSE /\ UNCHANGED epoch
            /\ IF Fresh(u, offset')
               THEN /\ heads' = [heads EXCEPT ![u.key] = offset'] /\ Invalidate(u)
                    /\ work' = [Outdated(LAMBDA w : w.id = u.key[2] /\ (u.state = "absent" <=> w.pc = "gate"))
                                EXCEPT ![h] = Task("write", u.key[2], Null, offset')]
               ELSE UNCHANGED <<heads, epochs, work>>
  /\ UNCHANGED <<outside, row, emby, marks, busy, writing, verdicts, faults>>

key(h) == updates[work[h].update].key

(* _write_event: the stored mark is read and written under the key's lock;  *)
(* an update that is not the newest known stops here.                       *)
NeverSuperseded(h) == FALSE
Superseded(h) == marks[key(h)] >= work[h].update

ReadMark(h) ==
  /\ At(h, "write") /\ writing[key(h)] = Null
  /\ IF Superseded(h)
     THEN /\ heads' = [heads EXCEPT ![key(h)] = IF @ = work[h].update THEN marks[key(h)] ELSE @]
          /\ Ends(h) /\ UNCHANGED writing
     ELSE IF heads[key(h)] # work[h].update
     THEN Ends(h) /\ UNCHANGED <<heads, writing>>
     ELSE To(h, "store") /\ writing' = [writing EXCEPT ![key(h)] = h] /\ UNCHANGED <<busy, heads>>
  /\ UNCHANGED <<outside, offset, confirmed, epoch, epochs, row, emby, marks, verdicts, faults>>

StoreMark(h) ==
  /\ At(h, "store")
  /\ marks' = [marks EXCEPT ![key(h)] = work[h].update]
  /\ writing' = [writing EXCEPT ![key(h)] = Null]
  /\ IF heads[key(h)] = work[h].update /\ updates[work[h].update].state = "absent" /\ rules.delete
     THEN To(h, "find") /\ UNCHANGED busy ELSE Ends(h)
  /\ UNCHANGED <<outside, memory, row, emby, verdicts, faults>>

(* A leave of the second in which the account was bound proves nothing.     *)
FindMember(h) ==
  /\ At(h, "find")
  /\ IF row.here /\ row.tg = work[h].id /\ updates[work[h].update].date > row.bound
     THEN work' = [work EXCEPT ![h].pc = "inspect", ![h].bound = row.bound] /\ UNCHANGED busy
     ELSE Ends(h)
  /\ UNCHANGED <<outside, memory, row, emby, marks, writing, verdicts, faults>>

(* One scan at a time, over the bindings as it reads them at first.         *)
start_scan ==
  /\ work["scan"] = Null /\ row.here
  /\ work' = [work EXCEPT !["scan"] = Task("inspect", row.tg, row.bound, 0)]
  /\ UNCHANGED <<outside, memory, row, emby, marks, busy, writing, verdicts, faults>>

(* ------------------------------ inspect -------------------------------- *)
Bound(w) == row.here /\ row.tg = w.id /\ row.bound = w.bound

_current(w) ==
  /\ rules.delete /\ w.fingerprint = fingerprint /\ Bound(w) /\ ~row.admin
  /\ w.update > 0 => heads[updates[w.update].key] = w.update

(* check asks about one chat after another, each in its own request.        *)
Asking(w) == [w EXCEPT !.ask = Chats, !.state = "present", !.stale = FALSE]

Heard(w, c, answer) ==
  [w EXCEPT !.ask = @ \ {c},
            !.state = IF "unknown" \in {@, answer} THEN "unknown"
                      ELSE IF "absent" \in {@, answer} THEN "absent" ELSE "present"]

Begin(t) ==
  /\ At(t, "inspect") /\ busy = Null
  /\ IF Bound(work[t]) /\ ~row.admin /\ (t = "scan" => work[t].fingerprint = fingerprint)
     THEN To(t, "admin") /\ busy' = t ELSE Ends(t)
  /\ UNCHANGED <<outside, memory, row, emby, marks, writing, verdicts, faults>>

(* The list of Emby's users is read; one that is missing there, or has the  *)
(* administrator's flag, or cannot be read, is kept.                        *)
Ordinary == emby.here /\ ~emby.admin

ReadAdmin(t) ==
  /\ At(t, "admin")
  /\ \/ Ordinary /\ work' = [work EXCEPT ![t] = [Asking(@) EXCEPT !.pc = "check"]] /\ UNCHANGED <<busy, faults>>
     \/ ~Ordinary /\ Ends(t) /\ UNCHANGED faults
     \/ Fault /\ Ends(t)
  /\ UNCHANGED <<outside, memory, row, emby, marks, writing, verdicts>>

Ask(t, c) ==
  /\ \E pc \in {"check", "recheck", "gate"} : At(t, pc)
  /\ c \in work[t].ask
  /\ \/ work' = [work EXCEPT ![t] = Heard(@, c, IF <<c, @.id>> \in inside THEN "present" ELSE "absent")]
        /\ UNCHANGED faults
     \/ Fault /\ work' = [work EXCEPT ![t] = Heard(@, c, "unknown")]
  /\ UNCHANGED <<outside, memory, row, emby, marks, busy, writing, verdicts>>

Judge(t) ==
  /\ At(t, "check") /\ work[t].ask = {}
  /\ IF work[t].state = "absent" /\ _current(work[t]) THEN To(t, "listed") /\ UNCHANGED busy ELSE Ends(t)
  /\ UNCHANGED <<outside, memory, row, emby, marks, writing, verdicts, faults>>

(* execute_delete has listed Emby's users; it is authorized anew, and       *)
(* delete_user starts over with a check of its own.                         *)
Authorize(t) ==
  /\ At(t, "listed")
  /\ IF _current(work[t])
     THEN /\ work' = [work EXCEPT ![t] = [Asking(@) EXCEPT !.pc = "recheck", !.observed = epochs[work[t].id]]]
          /\ UNCHANGED busy
     ELSE Ends(t)
  /\ UNCHANGED <<outside, memory, row, emby, marks, writing, verdicts, faults>>

Recheck(t) ==
  /\ At(t, "recheck") /\ work[t].ask = {}
  /\ IF row.here /\ ~row.admin THEN To(t, "readmin") /\ UNCHANGED busy ELSE Ends(t)
  /\ UNCHANGED <<outside, memory, row, emby, marks, writing, verdicts, faults>>

ReadAdminAgain(t) ==
  /\ At(t, "readmin")
  /\ \/ Ordinary /\ To(t, "fire") /\ UNCHANGED <<busy, faults>>
     \/ ~Ordinary /\ Ends(t) /\ UNCHANGED faults
     \/ Fault /\ Ends(t)
  /\ UNCHANGED <<outside, memory, row, emby, marks, writing, verdicts>>

Unchanged(w) == w.observed = epochs[w.id]

(* The last look and the request follow on each other without an await.     *)
Issue(t) ==
  /\ At(t, "fire")
  /\ IF work[t].state = "absent" /\ _current(work[t]) /\ Unchanged(work[t])
     THEN /\ To(t, "answer") /\ UNCHANGED busy
          /\ verdicts' = verdicts \cup {[what |-> "delete", stale |-> work[t].stale]}
     ELSE Ends(t) /\ UNCHANGED verdicts
  /\ UNCHANGED <<outside, memory, row, emby, marks, writing, faults>>

(* Emby deletes and says so, or says that there is nobody; or its answer is *)
(* lost, whether it has deleted or not, and the row stays.                  *)
Answered(t) ==
  /\ At(t, "answer")
  /\ \/ emby' = [emby EXCEPT !.here = FALSE] /\ To(t, "remove") /\ UNCHANGED <<busy, faults>>
     \/ Fault /\ Ends(t) /\ emby' \in {emby, [emby EXCEPT !.here = FALSE]}
  /\ UNCHANGED <<outside, memory, row, marks, writing, verdicts>>

RemoveRow(t) ==
  /\ At(t, "remove") /\ row' = [row EXCEPT !.here = FALSE] /\ Ends(t)
  /\ UNCHANGED <<outside, memory, emby, marks, writing, verdicts, faults>>

(* -------------------------------- gate --------------------------------- *)
(* A message of a Telegram user who must be in every chat to be served.     *)
Knock(h, id) ==
  /\ work[h] = Null /\ work' = [work EXCEPT ![h] = Asking(Task("gate", id, Null, 0))]
  /\ UNCHANGED <<outside, memory, row, emby, marks, busy, writing, verdicts, faults>>

Open(h) ==
  /\ At(h, "gate") /\ work[h].ask = {} /\ Ends(h)
  /\ verdicts' = IF work[h].state = "present" /\ work[h].fingerprint = fingerprint /\ Unchanged(work[h])
                 THEN verdicts \cup {[what |-> "open", stale |-> work[h].stale]} ELSE verdicts
  /\ UNCHANGED <<outside, memory, row, emby, marks, writing, faults>>

(* The process ends; what it held in memory is gone, and Telegram sends the *)
(* unconfirmed updates again.                                               *)
Crash ==
  /\ Fault /\ work' = [t \in Tasks |-> Null] /\ busy' = Null /\ writing' = [k \in Keys |-> Null]
  /\ heads' = [k \in Keys |-> 0] /\ epochs' = [i \in Ids |-> 0] /\ epoch' = 0 /\ offset' = confirmed
  /\ UNCHANGED <<outside, confirmed, row, emby, marks, verdicts>>

Step(t) ==
  \/ Begin(t) \/ ReadAdmin(t) \/ (\E c \in Chats : Ask(t, c)) \/ Judge(t) \/ Authorize(t)
  \/ Recheck(t) \/ ReadAdminAgain(t) \/ Issue(t) \/ Answered(t) \/ RemoveRow(t)

Next ==
  \/ Tick \/ Demoted \/ Promote \/ start_scan \/ Crash
  \/ \E k \in Keys : Move(k)
  \/ \E id \in Ids : Rebind(id)
  \/ \E d \in BOOLEAN : Save(d)
  \/ \E h \in Handlers : handle_update(h) \/ ReadMark(h) \/ StoreMark(h) \/ FindMember(h) \/ Open(h)
  \/ \E h \in Handlers, id \in Ids : Knock(h, id)
  \/ \E t \in Tasks : Step(t)

-----------------------------------------------------------------------------
MembershipTypes ==
  /\ inside \subseteq Keys /\ offset <= Len(updates) /\ confirmed <= offset
  /\ busy \in Tasks \cup {Null} /\ \A k \in Keys : marks[k] \in 0..Len(updates) /\ heads[k] \in 0..Len(updates)
  /\ \A t \in Tasks : work[t] = Null \/ work[t].state \in Presence

(* An account is deleted, and a member let in, only on a check begun after  *)
(* the last change that the bot has been told of: no rejoining, rebinding,  *)
(* promotion, change of the rules or of the bot's rights has come between   *)
(* (a joining in the very second of a save excepted, which is ignored).     *)
VerdictsFresh == \A v \in verdicts : ~v.stale

(* A row goes only after its account in Emby.                               *)
RowOutlivesAccount == ~row.here => ~emby.here

(* What is stored of a chat and a user never goes back to an older update,  *)
(* though updates are handled side by side and delivered again.             *)
MarksAdvance == \A k \in Keys : marks'[k] >= marks[k]
=============================================================================
