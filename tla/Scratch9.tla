----------------------------- MODULE Scratch9 ------------------------------
(***************************************************************************)
(* The nine cells of a group (backend/app/modules/scratch9.py,             *)
(* bot_scratch9.py): the first press on a cell asks, the second press pays *)
(* and scratches; a round ends when it is complete, out of time or         *)
(* switched off; rounds are opened by an administrator or by the schedule, *)
(* one at a time, and each has one card, which follows it.                 *)
(***************************************************************************)
EXTENDS Integers, FiniteSets, FiniteSetsExt, Functions

CONSTANTS
    Users, Accounts, Null,
    Rounds,     \* the rounds of one group
    Cells,      \* 9
    Requests,   \* callback ids
    Slots,      \* the times of the schedule
    Points, Cost, Rewards, PerPerson,
    Duration, Answer,  \* duration_minutes, and 120 s to press again
    Grace,      \* 30 s: how late the schedule still opens a round
    MaxAttempts,\* 3
    ErrorsRefuse, \* TRUE: a 5xx answer means that nothing was posted
    MaxTime, MaxChanges, MaxFaults

ScratchAssumption ==
    /\ {Points, MaxTime, MaxChanges, MaxFaults, Grace} \cup Slots \cup Rewards \subseteq Nat
    /\ {Cost, PerPerson, Duration, Answer, MaxAttempts} \subseteq Nat \ {0}
    /\ Null \notin Users \cup Accounts \cup Rounds /\ IsFiniteSet(Cells)
    /\ ErrorsRefuse \in BOOLEAN

VARIABLES
    clock, wallet,
    link,     \* [Accounts -> the valid member bound to it, or Null]
    enabled,  \* the plugin is on
    round,    \* [Rounds -> the scratch9_rounds row]
    cells,    \* [Rounds -> [Cells -> who scratched it, and the reward, or Null]]
    intents,  \* [Requests -> the intent its press made, or Null]
    card,     \* [Rounds -> copies in the group, and the revision they show]
    inflight, \* the publication this process is in the middle of: round, revision, first
    slots,    \* [Slots -> "none", "queued", "skipped", "created"]
    worker,   \* scratch9_clock: last_at, and whether it is of this process and setting;
              \* the slots its tick goes through, and when the process came up
    late,     \* slots that created a round but were due before the process came up
    changes, faults

play == <<wallet, round, cells, intents>>
show == <<card, inflight>>
plan == <<slots, worker, late>>
vars == <<clock, play, link, enabled, show, plan, changes, faults>>

NoRound == [state |-> "none", expires |-> 0, revision |-> 0, rendered |-> -1, send |-> "pending",
            leased |-> FALSE, attempts |-> 0, card |-> FALSE]

Init ==
    /\ clock = 0 /\ wallet = [u \in Users |-> Points]
    /\ link = CHOOSE l \in [Accounts -> Users] : IsInjective(l)
    /\ enabled = TRUE
    /\ round = [r \in Rounds |-> NoRound]
    /\ cells = [r \in Rounds |-> [c \in Cells |-> Null]]
    /\ intents = [q \in Requests |-> Null]
    /\ card = [r \in Rounds |-> [copies |-> 0, shows |-> -1]] /\ inflight = Null
    /\ slots = [s \in Slots |-> "none"] /\ worker = [last |-> 0, known |-> FALSE, offer |-> {}, since |-> 0] /\ late = {}
    /\ changes = 0 /\ faults = 0

----------------------------------------------------------------------------
Active == {"pending", "active", "unknown"}
Scratched(r) == {c \in Cells : cells[r][c] # Null}

\* _expire, which every creation runs first.
Expired(r) == round[r].state \in Active /\ round[r].expires <= clock
Closed(row) == [row EXCEPT !.state = "closed", !.revision = @ + 1]
AfterExpire == [r \in Rounds |-> IF Expired(r) THEN Closed(round[r]) ELSE round[r]]

\* _insert, of the next round of the group.
Insert(r) ==
    /\ round[r].state = "none" /\ \A p \in Rounds : AfterExpire[p].state \notin Active
    /\ round' = [AfterExpire EXCEPT ![r].state = "pending", ![r].expires = clock + Duration]

Create(r) ==
    /\ enabled /\ Insert(r)
    /\ UNCHANGED <<clock, wallet, cells, intents, link, enabled, show, plan, changes, faults>>

\* The two identities of a presser, either of which counts.
Same(x, u, a) == x.user = u \/ x.tg = a
Used(r, u, a) == Cardinality({c \in Scratched(r) : Same(cells[r][c], u, a)})

\* _live.
Playing(r) ==
    /\ enabled /\ round[r].state = "active" /\ round[r].card /\ round[r].send = "sent"
    /\ clock < round[r].expires

\* select: the first press of a request; what this person had chosen is dropped.
Select(a, r, c, q) ==
    LET u == link[a] IN
    /\ u # Null /\ intents[q] = Null /\ Playing(r) /\ cells[r][c] = Null
    /\ Used(r, u, a) < PerPerson /\ wallet[u] >= Cost
    /\ LET pending == {p \in Requests : intents[p] # Null /\ intents[p].round = r
                                        /\ intents[p].state = "pending" /\ Same(intents[p], u, a)}
       IN /\ ~\E p \in pending : /\ intents[p].user = u /\ intents[p].tg = a
                                 /\ intents[p].cell = c /\ intents[p].expires > clock
          /\ intents' = [p \in Requests |->
                IF p = q THEN [round |-> r, cell |-> c, user |-> u, tg |-> a, state |-> "pending",
                               expires |-> Min({clock + Answer, round[r].expires})]
                ELSE IF p \in pending THEN [intents[p] EXCEPT !.state = "cancelled"] ELSE intents[p]]
    /\ UNCHANGED <<clock, wallet, round, cells, link, enabled, show, plan, changes, faults>>

\* confirm, by another press: the fee and the reward in one transaction.
Confirm(a, p, reward) ==
    LET i == intents[p]
        r == i.round
        u == link[a] IN
    /\ i # Null /\ i.state = "pending" /\ i.user = u /\ i.tg = a /\ clock < i.expires
    /\ Playing(r) /\ cells[r][i.cell] = Null /\ Used(r, u, a) < PerPerson /\ wallet[u] >= Cost
    /\ wallet' = [wallet EXCEPT ![u] = @ - Cost + reward]
    /\ cells' = [cells EXCEPT ![r][i.cell] = [user |-> u, tg |-> a, reward |-> reward]]
    /\ intents' = [intents EXCEPT ![p].state = "done"]
    /\ round' = [round EXCEPT ![r].revision = @ + 1,
                              ![r].state = IF Scratched(r) \cup {i.cell} = Cells THEN "closed" ELSE "active"]
    /\ UNCHANGED <<clock, link, enabled, show, plan, changes, faults>>

\* expire_due: also ends what was switched off, and gives up sends whose process is gone.
ExpireDue ==
    /\ round' = [r \in Rounds |->
          LET row == IF Expired(r) \/ (~enabled /\ round[r].state \in Active)
                     THEN Closed(round[r]) ELSE round[r] IN
          IF ~row.card /\ row.send = "sending" /\ ~row.leased
          THEN [row EXCEPT !.send = "unknown", !.state = IF @ = "closed" THEN @ ELSE "unknown"] ELSE row]
    /\ round' # round
    /\ UNCHANGED <<clock, wallet, cells, intents, link, enabled, show, plan, changes, faults>>

----------------------------------------------------------------------------
\* begin_publish: the first card once, edits as often as needed, one at a time.
BeginPublish(r) ==
    LET row == round[r] IN
    /\ inflight = Null /\ row.state # "none" /\ ~row.leased /\ row.rendered < row.revision
    /\ row.card \/ (row.send = "pending" /\ row.state = "pending" /\ clock < row.expires)
    /\ round' = [round EXCEPT ![r].leased = TRUE, ![r].attempts = IF row.card THEN @ ELSE @ + 1,
                              ![r].send = IF row.card THEN "sent" ELSE "sending"]
    /\ inflight' = [round |-> r, revision |-> row.revision, first |-> ~row.card]
    /\ UNCHANGED <<clock, wallet, cells, intents, link, enabled, card, plan, changes, faults>>

\* What the group sees of a call that reached Telegram.
Arrives(j) ==
    card' = [card EXCEPT ![j.round] = [copies |-> IF j.first THEN @.copies + 1 ELSE @.copies,
                                       shows |-> j.revision]]

\* published; a lease that ran out meanwhile has ended what was waited for.
Published ==
    /\ inflight # Null /\ Arrives(inflight) /\ inflight' = Null
    /\ LET row == round[inflight.round] IN
       round' = [round EXCEPT ![inflight.round] =
          [row EXCEPT !.card = TRUE, !.send = "sent", !.leased = FALSE,
                      !.state = IF row.state = "pending" THEN "active" ELSE row.state,
                      !.rendered = Max({row.rendered, inflight.revision})]]
    /\ UNCHANGED <<clock, wallet, cells, intents, link, enabled, plan, changes, faults>>

\* publish_failed with a refusal, a request to retry or no answer.  It writes
\* the state of a round without a card anew, whatever became of it meanwhile.
\* A 5xx asks for a retry too (report_delivery.failure), whatever was posted.
PublishFailed(failure, arrived) ==
    /\ inflight # Null /\ faults < MaxFaults /\ faults' = faults + 1
    /\ arrived => failure = "unknown" \/ (failure = "retry" /\ ~ErrorsRefuse)
    /\ IF arrived THEN Arrives(inflight) ELSE UNCHANGED card
    /\ LET row == round[inflight.round]
           retry == failure = "retry" /\ row.attempts < MaxAttempts /\ clock < row.expires
       IN round' = [round EXCEPT ![inflight.round] =
             IF row.card THEN [row EXCEPT !.leased = FALSE]
             ELSE [row EXCEPT !.leased = FALSE,
                     !.state = IF retry THEN "pending" ELSE IF failure = "unknown" THEN "unknown" ELSE "closed",
                     !.send  = IF retry THEN "pending" ELSE IF failure = "unknown" THEN "unknown" ELSE "failed"]]
    /\ inflight' = Null
    /\ UNCHANGED <<clock, wallet, cells, intents, link, enabled, plan, changes>>

\* The process ends, before or after its call; its lease ends later.
Restart(arrived) ==
    /\ faults < MaxFaults /\ faults' = faults + 1
    /\ IF inflight # Null /\ arrived THEN Arrives(inflight) ELSE UNCHANGED card
    /\ inflight' = Null /\ worker' = [worker EXCEPT !.known = FALSE, !.offer = {}, !.since = clock]
    /\ UNCHANGED <<clock, play, link, enabled, slots, late, changes>>
LeaseEnds(r) ==
    /\ round[r].leased /\ (inflight # Null => inflight.round # r)
    /\ round' = [round EXCEPT ![r].leased = FALSE]
    /\ UNCHANGED <<clock, wallet, cells, intents, link, enabled, show, plan, changes, faults>>

----------------------------------------------------------------------------
\* schedule: queues what became due since it last looked, unless the process,
\* a setting or too long a pause lies between.
Schedule ==
    LET follows == worker.known /\ enabled /\ clock - worker.last <= Grace IN
    /\ slots' = [s \in Slots |->
          IF slots[s] = "queued" /\ (IF follows THEN s < clock - Grace ELSE s <= clock) THEN "skipped"
          ELSE IF follows /\ slots[s] = "none" /\ worker.last < s /\ s <= clock THEN "queued" ELSE slots[s]]
    /\ worker' = [worker EXCEPT !.last = clock, !.known = TRUE,
                     !.offer = IF follows THEN {s \in Slots : slots'[s] = "queued"} ELSE {}]
    /\ <<worker', slots'>> # <<worker, slots>>
    /\ UNCHANGED <<clock, play, link, enabled, show, late, changes, faults>>

\* auto_create: a round of the group that is still open is not replaced.
AutoCreate(s, r) ==
    /\ enabled /\ s \in worker.offer /\ slots[s] = "queued" /\ clock - s \in 0..Grace
    /\ IF \E p \in Rounds : AfterExpire[p].state \in Active
       THEN slots' = [slots EXCEPT ![s] = "skipped"] /\ round' = AfterExpire /\ UNCHANGED late
       ELSE /\ slots' = [slots EXCEPT ![s] = "created"] /\ Insert(r)
            /\ late' = IF worker.since < s THEN late ELSE late \cup {s}
    /\ UNCHANGED <<clock, wallet, cells, intents, link, enabled, show, worker, changes, faults>>

\* The operator turns the game on and off; a link changes hands.
Toggle ==
    /\ changes < MaxChanges /\ changes' = changes + 1
    /\ enabled' = ~enabled /\ worker' = [worker EXCEPT !.known = FALSE]
    /\ UNCHANGED <<clock, play, link, show, slots, late, faults>>
Relink(a, u) ==
    /\ changes < MaxChanges /\ changes' = changes + 1
    /\ u # link[a] /\ \A b \in Accounts : u # Null => link[b] # u
    /\ link' = [link EXCEPT ![a] = u]
    /\ UNCHANGED <<clock, play, enabled, show, plan, faults>>
Tick ==
    /\ clock < MaxTime /\ clock' = clock + 1
    /\ UNCHANGED <<play, link, enabled, show, plan, changes, faults>>

Next ==
    \/ \E r \in Rounds : Create(r) \/ BeginPublish(r) \/ LeaseEnds(r)
    \/ \E a \in Accounts, r \in Rounds, c \in Cells, q \in Requests : Select(a, r, c, q)
    \/ \E a \in Accounts, p \in Requests, w \in Rewards : Confirm(a, p, w)
    \/ ExpireDue \/ Published \/ Schedule \/ Toggle \/ Tick
    \/ \E f \in {"retry", "failed", "unknown"}, arrived \in BOOLEAN : PublishFailed(f, arrived)
    \/ \E arrived \in BOOLEAN : Restart(arrived)
    \/ \E s \in Slots, r \in Rounds : AutoCreate(s, r)
    \/ \E a \in Accounts, u \in Users \cup {Null} : Relink(a, u)

Spec == Init /\ [][Next]_vars

\* The worker comes round: it expires, and publishes what changed.
FairSpec ==
    /\ Spec /\ WF_vars(ExpireDue) /\ WF_vars(Published) /\ WF_vars(Tick)
    /\ \A r \in Rounds : SF_vars(BeginPublish(r)) /\ WF_vars(LeaseEnds(r))

----------------------------------------------------------------------------
\* A fee for each cell somebody scratched and its one reward.
FeesAndRewards ==
    \A u \in Users :
       LET own == {rc \in Rounds \X Cells : cells[rc[1]][rc[2]] # Null /\ cells[rc[1]][rc[2]].user = u}
       IN  wallet[u] = Points + SumFunction([rc \in own |-> cells[rc[1]][rc[2]].reward - Cost])

\* Never more cells for a person than allowed, whichever identity they came back with.
FewCellsEach ==
    \A r \in Rounds, u \in Users, a \in Accounts :
       /\ Cardinality({c \in Scratched(r) : cells[r][c].user = u}) <= PerPerson
       /\ Cardinality({c \in Scratched(r) : cells[r][c].tg = a}) <= PerPerson

\* What a cell costs, what it brings, and how many of them a person has.
CellsPaid == FeesAndRewards /\ FewCellsEach

\* A cell is paid for by the second press of who pressed first.
PressedTwice ==
    \A r \in Rounds, c \in Cells : cells[r][c] # Null =>
        Cardinality({q \in Requests : /\ intents[q] # Null /\ intents[q].state = "done" /\ intents[q].round = r
                                      /\ intents[q].cell = c /\ intents[q].user = cells[r][c].user}) = 1

\* One card for a round, and never a card that shows less than the round
\* believes it shows: provided that a 5xx answer means that nothing was posted.
OneCard == \A r \in Rounds : card[r].copies <= 1 /\ card[r].shows >= round[r].rendered

\* A slot that is past, or due before the process came up, opens nothing.
NeverCatchesUp == late = {}

=============================================================================
