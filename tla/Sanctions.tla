------------------------------ MODULE Sanctions ------------------------------
(* Punishment and policy of one account (restrictions.py, enforcement.py):  *)
(* confirmed violations, an operator's disabling and enabling, and the      *)
(* projection of the member's row onto Emby, all of which await Emby under  *)
(* one lock while the row is edited outside it; and the notices of what was *)
(* done.  Emby's policy is read and written in two requests.                *)
EXTENDS Naturals, Sequences, FiniteSets

CONSTANTS
  Calls,       \* tasks of HTTP requests, of the sampler and of the bot
  Rules,       \* subset of {"concurrency", "web_login", "web_play", "client_filter"}
  Actions,     \* subset of {"pause", "disable", "delete"}
  Sessions,    \* Emby sessions of the account
  Requests,    \* identities of an operator's presses
  Window,      \* how long one punishment answers for a session (300 s)
  Rows,        \* what edits make of the row: records [status, lapsed, admin]
  Powers,      \* what else may change: subset of {"native", "lapse", "rules", "trust"}
  ErrorsRefuse,  \* TRUE: a 5xx answer means that nothing was posted
  Null,
  MaxEvents, MaxTime, MaxChanges, MaxFaults  \* bounds of the instance

SanctionBounds ==
  /\ {Window, MaxEvents, MaxTime, MaxChanges, MaxFaults} \subseteq Nat
  /\ "loop" \notin Calls /\ ErrorsRefuse \in BOOLEAN

VARIABLES
  clock,
  row,      \* the member's row
  emby,     \* the account in Emby
  applied,  \* the row's applied_fingerprint: the block it stands for
  rules,    \* the configured action of each rule, or "off"
  live,     \* the sessions that break a rule now
  trusted,  \* the operator who presses is still an administrator
  events,   \* restriction_events
  notices,  \* restriction_notices, one per event
  batch,    \* the notices deliver has read, with the status they tell
  holder,   \* who holds _lock and _apply_lock
  work,     \* the task of each call, and of the housekeeping loop
  agreed,   \* history: nothing has happened since the row was last projected
  changes, faults

vars == <<clock, row, emby, applied, rules, live, trusted, events, notices, batch, holder, work,
          agreed, changes, faults>>
world == <<clock, rules, live, trusted, changes>>
mail == <<notices, batch>>

Tasks == Calls \cup {"loop"}
Statuses == {"active", "suspended", "pending"}
Outcomes == {"pending", "done", "failed", "unknown"}

SanctionTypes ==
  /\ row \in [here : BOOLEAN, status : Statuses, lapsed : BOOLEAN, admin : BOOLEAN]
  /\ emby \in [here : BOOLEAN, disabled : BOOLEAN, admin : BOOLEAN]
  /\ applied \in {TRUE, FALSE, Null} /\ rules \in [Rules -> Actions \cup {"off"}]
  /\ live \subseteq Sessions /\ holder \in Tasks \cup {Null} /\ Len(notices) = Len(events)
  /\ \A e \in DOMAIN events : events[e].status \in Outcomes
  /\ \A c \in Tasks : work[c] = Null \/ work[c].pc = "queue" \/ holder = c

Init ==
  /\ clock = 0 /\ rules \in [Rules -> Actions] /\ live = {} /\ trusted = TRUE
  /\ row = [here |-> TRUE, status |-> "active", lapsed |-> FALSE, admin |-> FALSE]
  /\ emby = [here |-> TRUE, disabled |-> FALSE, admin |-> FALSE] /\ applied = FALSE
  /\ events = <<>> /\ notices = <<>> /\ batch = {} /\ holder = Null
  /\ work = [c \in Tasks |-> Null] /\ agreed = TRUE /\ changes = 0 /\ faults = 0

-----------------------------------------------------------------------------
(* effective_state in BLOCKING_STATES, for an account with a group.         *)
Blocked(r) == r.here /\ (r.status # "active" \/ r.lapsed)

Exempt == emby.admin \/ (row.here /\ row.admin)

Fault == faults < MaxFaults /\ faults' = faults + 1

At(c, kinds, pc) == work[c] # Null /\ work[c].kind \in kinds /\ work[c].pc = pc
Go(c, pc) == work' = [work EXCEPT ![c].pc = pc] /\ holder' = c
Leave(c) == work' = [work EXCEPT ![c] = Null] /\ holder' = Null

Queue(c, job) == work[c] = Null /\ work' = [work EXCEPT ![c] = job]

Job(kind, rule, session) ==
  [kind |-> kind, rule |-> rule, session |-> session, action |-> "none", want |-> TRUE,
   before |-> Null, seen |-> FALSE, event |-> 0, pc |-> "queue"]

(* What an event has set going in Emby, accepted or unanswered, and whether *)
(* it was set going twice.                                                  *)
Sent(ev, what) == [ev EXCEPT !.twice = @ \/ what \in ev.sent, !.sent = @ \cup {what}]

Closed(c, evs, status) ==
  /\ events' = [evs EXCEPT ![work[c].event].status = status, ![work[c].event].updated = clock]
  /\ Leave(c)

Recorded(rule, action, session, status) ==
  Append(events, [rule |-> rule, action |-> action, session |-> session, status |-> status,
                  at |-> clock, updated |-> clock, attempts |-> 1, sent |-> {}, twice |-> FALSE])

(* Bound: the events there are and those on their way.                      *)
Room == Len(events) + Cardinality({c \in Calls : work[c] # Null /\ work[c].kind \in {"sanction", "manual"}
                                                 /\ work[c].event = 0}) < MaxEvents

(* ------------------------------ callers -------------------------------- *)
(* A playback, a login or the sampler finds a session that breaks a rule.   *)
Offend(c, r, s) ==
  /\ s \in live /\ Room /\ Queue(c, Job("sanction", r, s))
  /\ UNCHANGED <<world, row, emby, applied, events, mail, holder, agreed, faults>>

(* An operator presses disable or enable.                                   *)
Order(c, action, id) ==
  /\ changes < MaxChanges /\ changes' = changes + 1
  /\ row.here /\ Room /\ Queue(c, [Job("manual", "manual", id) EXCEPT !.action = action])
  /\ UNCHANGED <<clock, rules, live, trusted, row, emby, applied, events, mail, holder, agreed, faults>>

(* An operator, the shop or a renewal edits the row, and the handler goes   *)
(* on to enforce it.                                                        *)
Edit(c) ==
  /\ changes < MaxChanges /\ changes' = changes + 1
  /\ row.here /\ Queue(c, Job("enforce", "none", Null))
  /\ \E r \in Rows : row' = [row EXCEPT !.status = r.status, !.lapsed = r.lapsed, !.admin = r.admin] /\ row' # row
  /\ agreed' = FALSE
  /\ UNCHANGED <<clock, rules, live, trusted, emby, applied, events, mail, holder, faults>>

(* Every ten minutes the loop compares all rows with Emby.                  *)
Reconcile ==
  /\ Queue("loop", Job("reconcile", "none", Null))
  /\ UNCHANGED <<world, row, emby, applied, events, mail, holder, agreed, faults>>

(* ---------------------------- under the lock --------------------------- *)
Grant(c) == holder = Null

Enter(c) ==
  /\ work[c] # Null /\ work[c].pc = "queue" /\ Grant(c)
  /\ \/ At(c, {"sanction"}, "queue") /\ rules[work[c].rule] # "off"
        /\ work' = [work EXCEPT ![c].pc = "user", ![c].action = rules[work[c].rule]] /\ holder' = c
     \/ At(c, {"sanction"}, "queue") /\ rules[work[c].rule] = "off" /\ Leave(c)
     \/ At(c, {"manual"}, "queue") /\ IF trusted THEN Go(c, "user") ELSE Leave(c)
     \/ At(c, {"enforce"}, "queue") /\ IF row.here THEN Go(c, "user") ELSE Leave(c)
     \/ At(c, {"reconcile"}, "queue") /\ Go(c, "user")
  /\ UNCHANGED <<world, row, emby, applied, events, mail, agreed, faults>>

(* The list of users cannot be read: whatever was wanted is not done.       *)
ListFails(c) ==
  /\ At(c, {"sanction", "manual", "enforce", "reconcile"}, "user") /\ Fault /\ Leave(c)
  /\ UNCHANGED <<world, row, emby, applied, events, mail, agreed>>

KnowOffender(c) ==
  /\ At(c, {"sanction"}, "user")
  /\ IF emby.here /\ ~Exempt /\ (work[c].rule = "client_filter" => row.here)
     THEN Go(c, "confirm") ELSE Leave(c)
  /\ UNCHANGED <<world, row, emby, applied, events, mail, agreed, faults>>

Lifts == {e \in DOMAIN events : events[e].rule = "manual" /\ events[e].action = "enable"
                                /\ events[e].status = "done"}

(* The punishments that already answer for this violation.                  *)
Prior(r, s) ==
  {e \in DOMAIN events :
     /\ events[e].rule = r /\ (events[e].session = s \/ r = "web_login")
     /\ r = "client_filter" \/ events[e].at + Window >= clock
     /\ \A l \in Lifts : l < e}

Newest(E) == {e \in E : \A f \in E : f <= e}

(* A client that was refused its stop for certain may be stopped again,     *)
(* after a growing delay.                                                   *)
MayRepeatUnknown(ev) == ev.status \in {"failed", "unknown"} /\ clock >= ev.updated + ev.attempts
MayRepeat(ev) == ev.status = "failed" /\ clock >= ev.updated + ev.attempts

FirstPc(action) == CASE action = "disable" -> "policy" [] action = "delete" -> "recheck"
                     [] action = "pause" -> "stop"

(* The violation is looked at once more; the intent is stored first, and a  *)
(* suspension too, so that reconciling cannot undo it.                      *)
Confirm(c) ==
  LET w == work[c] P == Prior(w.rule, w.session) action == IF w.rule = "client_filter" THEN "pause" ELSE w.action IN
  /\ At(c, {"sanction"}, "confirm")
  /\ \/ w.session \notin live /\ Leave(c) /\ UNCHANGED <<row, events, notices, agreed>>
     \/ /\ w.session \in live /\ P # {}
        /\ ~(w.rule = "client_filter" /\ \E e \in Newest(P) : MayRepeat(events[e]))
        /\ Leave(c) /\ UNCHANGED <<row, events, notices, agreed>>
     \/ /\ w.session \in live /\ w.rule = "client_filter"
        /\ \E e \in Newest(P) :
             /\ MayRepeat(events[e])
             /\ events' = [events EXCEPT ![e].status = "pending", ![e].updated = clock, ![e].attempts = @ + 1]
             /\ work' = [work EXCEPT ![c].pc = "stop", ![c].event = e]
        /\ UNCHANGED <<row, holder, notices, agreed>>
     \/ /\ w.session \in live /\ P = {}
        /\ events' = Recorded(w.rule, action, w.session, "pending")
        /\ notices' = Append(notices, [state |-> "pending", told |-> "none", posts |-> 0])
        /\ work' = [work EXCEPT ![c].pc = FirstPc(action), ![c].event = Len(events) + 1,
                                ![c].before = row, ![c].want = TRUE]
        /\ IF action = "disable" /\ row.here
           THEN row' = [row EXCEPT !.status = IF @ = "pending" THEN @ ELSE "suspended"] /\ agreed' = TRUE
           ELSE UNCHANGED <<row, agreed>>
        /\ UNCHANGED holder
  /\ UNCHANGED <<world, emby, applied, batch, faults>>

Prospective(r, action) ==
  CASE r.here /\ action = "disable" /\ r.status # "pending" -> [r EXCEPT !.status = "suspended"]
    [] r.here /\ action = "enable" /\ r.status = "suspended" -> [r EXCEPT !.status = "active"]
    [] OTHER -> r
Wanted(r, action) == action = "disable" \/ Blocked(Prospective(r, action))

(* An operator's order is weighed: it may be a press repeated, and what is  *)
(* already so is not done again.                                            *)
Weigh(c) ==
  LET w == work[c] want == Wanted(row, w.action) IN
  /\ At(c, {"manual"}, "user")
  /\ \/ /\ ~emby.here \/ ~trusted \/ Exempt
           \/ \E e \in DOMAIN events : events[e].rule = "manual" /\ events[e].session = w.session
        /\ Leave(c) /\ UNCHANGED <<events, notices>>
     \/ /\ emby.here /\ trusted /\ ~Exempt
        /\ \A e \in DOMAIN events : ~(events[e].rule = "manual" /\ events[e].session = w.session)
        /\ IF /\ Prospective(row, w.action) = row /\ emby.disabled = want /\ events # <<>>
              /\ LET last == events[Len(events)] IN
                 last.rule = "manual" /\ last.action = w.action /\ last.status = "done"
           THEN /\ events' = Recorded("manual", w.action, w.session, "done") /\ Leave(c)
                /\ notices' = Append(notices, [state |-> "none", told |-> "none", posts |-> 0])
           ELSE /\ events' = Recorded("manual", w.action, w.session, "pending")
                /\ notices' = Append(notices, [state |-> "pending", told |-> "none", posts |-> 0])
                /\ work' = [work EXCEPT ![c].pc = "policy", ![c].event = Len(events) + 1,
                                        ![c].before = row, ![c].want = want]
                /\ UNCHANGED holder
  /\ UNCHANGED <<world, row, emby, applied, batch, agreed, faults>>

(* enforce_now projects the row as it is after the list was read.           *)
Project(c) ==
  /\ At(c, {"enforce"}, "user")
  /\ IF row.here /\ emby.here /\ ~emby.admin
     THEN /\ work' = [work EXCEPT ![c].pc = "policy", ![c].want = Blocked(row)] /\ agreed' = TRUE
          /\ UNCHANGED holder
     ELSE Leave(c) /\ UNCHANGED agreed
  /\ UNCHANGED <<world, row, emby, applied, events, mail, faults>>

(* reconcile reads all accounts once, and comes to this row later.          *)
ListAll(c) ==
  /\ At(c, {"reconcile"}, "user")
  /\ IF emby.here /\ ~emby.admin
     THEN work' = [work EXCEPT ![c].pc = "row", ![c].seen = emby.disabled] /\ UNCHANGED holder
     ELSE Leave(c)
  /\ UNCHANGED <<world, row, emby, applied, events, mail, agreed, faults>>

(* A policy already applied is checked for drift all the same.              *)
Differs(c) == work[c].seen # Blocked(row)

Compare(c) ==
  /\ At(c, {"reconcile"}, "row")
  /\ IF row.here /\ Differs(c)
     THEN /\ work' = [work EXCEPT ![c].pc = "policy", ![c].want = Blocked(row)] /\ agreed' = TRUE
          /\ UNCHANGED holder
     ELSE Leave(c) /\ UNCHANGED agreed
  /\ UNCHANGED <<world, row, emby, applied, events, mail, faults>>

(* How a caller of apply_member_policy takes its result.                    *)
Took(c, result, evs) ==
  LET w == work[c] IN
  /\ agreed' = (agreed /\ result = "applied")
  /\ CASE w.kind \in {"enforce", "reconcile"} ->
            /\ applied' = IF result = "applied" THEN w.want ELSE applied
            /\ Leave(c) /\ UNCHANGED <<row, events>>
       [] w.kind = "sanction" ->
            /\ row' = IF result = "admin" /\ row.here /\ w.before.here
                      THEN [row EXCEPT !.status = w.before.status] ELSE row
            /\ IF result = "applied" THEN events' = evs /\ Go(c, "stop")
               ELSE Closed(c, evs, IF result = "admin" THEN "failed" ELSE result)
            /\ UNCHANGED applied
       [] w.kind = "manual" ->
            /\ row' = IF result = "applied" /\ row.here /\ Prospective(w.before, w.action) # w.before
                      THEN [row EXCEPT !.status = Prospective(w.before, w.action).status] ELSE row
            /\ IF result = "applied" THEN events' = evs /\ Go(c, "verify")
               ELSE Closed(c, evs, IF result = "admin" THEN "failed" ELSE result)
            /\ UNCHANGED applied

(* The last look at an operator's authority and the member's rights.        *)
StillWanted(c) ==
  LET w == work[c] IN
  /\ trusted /\ ~(row.here /\ row.admin) /\ row.here = w.before.here
  /\ row.status = w.before.status /\ Wanted(row, w.action) = w.want

(* The GET of _apply_policy.                                                *)
GetPolicy(c) ==
  LET w == work[c] IN
  /\ At(c, {"sanction", "manual", "enforce", "reconcile"}, "policy")
  /\ \/ /\ faults < MaxFaults /\ faults' = faults + 1 /\ Took(c, "unknown", events)
     \/ /\ UNCHANGED faults
        /\ CASE ~emby.here -> Took(c, "failed", events)
             [] emby.here /\ emby.admin -> Took(c, "admin", events)
             [] emby.here /\ ~emby.admin /\ w.kind = "manual" /\ ~StillWanted(c) -> Took(c, "failed", events)
             [] OTHER ->
                IF emby.disabled = w.want THEN Took(c, "applied", events)
                ELSE /\ Go(c, "post") /\ agreed' = (agreed \/ w.kind = "manual")
                     /\ UNCHANGED <<row, applied, events>>
  /\ UNCHANGED <<world, emby, mail>>

Tried(c, what) == IF work[c].event = 0 THEN events
                  ELSE [events EXCEPT ![work[c].event] = Sent(@, what)]

(* Its POST, which writes the whole policy as it was read.                  *)
PostPolicy(c) ==
  LET w == work[c] written == [emby EXCEPT !.disabled = w.want, !.admin = FALSE] IN
  /\ At(c, {"sanction", "manual", "enforce", "reconcile"}, "post")
  /\ \/ emby.here /\ emby' = written /\ Took(c, "applied", Tried(c, "policy")) /\ UNCHANGED faults
     \/ ~emby.here /\ Took(c, "failed", events) /\ UNCHANGED <<emby, faults>>
     \/ Fault /\ UNCHANGED emby /\ Took(c, "failed", events)
     \/ /\ Fault /\ emby' \in {emby, IF emby.here THEN written ELSE emby}
        /\ Took(c, "unknown", Tried(c, "policy"))
  /\ UNCHANGED <<world, mail>>

(* Before a deletion the account is looked at again.                        *)
Recheck(c) ==
  /\ At(c, {"sanction"}, "recheck")
  /\ \/ Fault /\ Closed(c, events, "unknown")
     \/ /\ UNCHANGED faults
        /\ IF emby.here /\ ~Exempt THEN Go(c, "delete") /\ UNCHANGED events
           ELSE Closed(c, events, "failed")
  /\ UNCHANGED <<world, row, emby, applied, mail, agreed>>

Delete(c) ==
  LET tried == Tried(c, "delete") IN
  /\ At(c, {"sanction"}, "delete")
  /\ \/ /\ emby.here /\ emby' = [emby EXCEPT !.here = FALSE] /\ row' = [row EXCEPT !.here = FALSE]
        /\ events' = tried /\ Go(c, "stop") /\ UNCHANGED faults
     \/ /\ (~emby.here /\ UNCHANGED faults) \/ Fault
        /\ Closed(c, events, "failed") /\ UNCHANGED <<emby, row>>
     \/ /\ Fault /\ emby' \in {emby, [emby EXCEPT !.here = FALSE]}
        /\ Closed(c, tried, "unknown") /\ UNCHANGED row
  /\ UNCHANGED <<world, applied, mail, agreed>>

(* The session is told to stop.  A refusal matters to a client rule alone.  *)
Stop(c) ==
  LET tried == Tried(c, "stop") IN
  /\ At(c, {"sanction"}, "stop")
  /\ \/ /\ live' \in {live, live \ {work[c].session}}
        /\ Closed(c, tried, "done") /\ UNCHANGED faults
     \/ /\ Fault /\ UNCHANGED live
        /\ Closed(c, events, IF work[c].rule = "client_filter" THEN "failed" ELSE "done")
     \/ /\ Fault /\ live' \in {live, live \ {work[c].session}} /\ Closed(c, tried, "unknown")
  /\ UNCHANGED <<clock, rules, trusted, changes, row, emby, applied, mail, agreed>>

(* An operator's change is verified, and a disabled member's sessions end.  *)
Verify(c) ==
  /\ At(c, {"manual"}, "verify")
  /\ \/ Fault /\ Closed(c, events, "unknown")
     \/ UNCHANGED faults /\ Closed(c, events, IF emby.here /\ emby.disabled = work[c].want
                                             THEN "done" ELSE "unknown")
  /\ UNCHANGED <<world, row, emby, applied, mail, agreed>>

(* ------------------------------- notices ------------------------------- *)
Due(e) == notices[e].state \in {"pending", "retry"} /\ events[e].status # "pending"

(* deliver reads what is due, and then sends one after another.             *)
Fetch ==
  /\ batch = {} /\ \E e \in DOMAIN events : Due(e)
  /\ batch' = {[event |-> e, tells |-> events[e].status] : e \in {e \in DOMAIN events : Due(e)}}
  /\ UNCHANGED <<world, row, emby, applied, events, notices, holder, work, agreed, faults>>

Take(b) ==
  /\ \A e \in DOMAIN notices : notices[e].state # "sending"
  /\ notices' = [notices EXCEPT ![b.event].state = "sending", ![b.event].told = b.tells]
  /\ UNCHANGED <<world, row, emby, applied, events, batch, holder, work, agreed, faults>>

(* A lost answer is never repeated; a refusal for the moment is, and so is  *)
(* a 5xx, posted or not; the fourth attempt counts as failed.               *)
Answered(b) ==
  LET n == notices[b.event] IN
  /\ n.state = "sending" /\ batch' = batch \ {b}
  /\ \E state \in {"sent", "retry", "failed", "unknown"} :
       /\ IF state = "sent" THEN UNCHANGED faults ELSE Fault
       /\ \E posted \in {0, 1} :
            /\ state = "sent" => posted = 1
            /\ state \in {"retry", "failed"} => posted = 0 \/ ~ErrorsRefuse
            /\ notices' = [notices EXCEPT ![b.event].state = state, ![b.event].posts = @ + posted]
  /\ UNCHANGED <<world, row, emby, applied, events, holder, work, agreed>>

-----------------------------------------------------------------------------
(* The account's sessions, Emby's own administrator, the rules, time, and   *)
(* the authority of the operator.                                           *)
Environment ==
  /\ \/ \E s \in Sessions : live' = (IF s \in live THEN live \ {s} ELSE live \cup {s})
        /\ UNCHANGED <<clock, row, emby, rules, trusted, changes, agreed>>
     \/ /\ changes < MaxChanges /\ changes' = changes + 1
        /\ \/ /\ "native" \in Powers /\ emby.here /\ agreed' = FALSE
              /\ \E d, a \in BOOLEAN : emby' = [emby EXCEPT !.disabled = d, !.admin = a]
              /\ UNCHANGED <<row, rules, trusted>>
           \/ "lapse" \in Powers /\ row.here /\ ~row.lapsed /\ row' = [row EXCEPT !.lapsed = TRUE] /\ agreed' = FALSE
              /\ UNCHANGED <<emby, rules, trusted>>
           \/ "rules" \in Powers /\ rules' \in [Rules -> Actions \cup {"off"}] /\ UNCHANGED <<row, emby, trusted, agreed>>
           \/ "trust" \in Powers /\ trusted' = ~trusted /\ UNCHANGED <<row, emby, rules, agreed>>
        /\ UNCHANGED <<clock, live>>
     \/ clock < MaxTime /\ clock' = clock + 1
        /\ UNCHANGED <<row, emby, rules, live, trusted, changes, agreed>>
  /\ UNCHANGED <<applied, events, mail, holder, work, faults>>

(* The process ends: what was under way may have reached Emby or not, and   *)
(* the next start calls it unknown.                                         *)
Interrupted(ev) == IF ev.status = "pending" THEN [ev EXCEPT !.status = "unknown"] ELSE ev

UnderWay ==
  CASE holder # Null /\ work[holder].pc = "post" -> "policy"
    [] holder # Null /\ work[holder].pc \in {"delete", "stop"} -> work[holder].pc
    [] OTHER -> "none"

Crash ==
  /\ Fault
  /\ LET tried == IF UnderWay = "none" THEN events ELSE Tried(holder, UnderWay) IN
     events' = [e \in DOMAIN events |-> Interrupted(tried[e])]
  /\ emby' \in {emby} \cup (CASE ~emby.here -> {}
                              [] emby.here /\ UnderWay = "policy" ->
                                 {[emby EXCEPT !.disabled = work[holder].want, !.admin = FALSE]}
                              [] emby.here /\ UnderWay = "delete" -> {[emby EXCEPT !.here = FALSE]}
                              [] OTHER -> {})
  /\ \E p \in {0, 1} : notices' = [e \in DOMAIN notices |->
       IF notices[e].state = "sending" THEN [notices[e] EXCEPT !.state = "unknown", !.posts = @ + p]
       ELSE notices[e]]
  /\ batch' = {} /\ holder' = Null /\ work' = [c \in Tasks |-> Null] /\ agreed' = FALSE
  /\ UNCHANGED <<world, row, applied>>

Step(c) ==
  \/ Enter(c) \/ ListFails(c) \/ KnowOffender(c) \/ Confirm(c) \/ Weigh(c) \/ Project(c) \/ ListAll(c)
  \/ Compare(c) \/ GetPolicy(c) \/ PostPolicy(c) \/ Recheck(c) \/ Delete(c) \/ Stop(c) \/ Verify(c)

Deliver == Fetch \/ \E b \in batch : Take(b) \/ Answered(b)

Next ==
  \/ \E c \in Calls, r \in Rules, s \in Sessions : Offend(c, r, s)
  \/ \E c \in Calls, a \in {"disable", "enable"}, id \in Requests : Order(c, a, id)
  \/ \E c \in Calls : Edit(c)
  \/ Reconcile \/ \E c \in Tasks : Step(c)
  \/ Deliver \/ Environment \/ Crash

Spec == Init /\ [][Next]_vars

-----------------------------------------------------------------------------
(* A stop, a block or a deletion that Emby has accepted, or may have, is    *)
(* not sent again for the same event, through retries and crashes.          *)
NoBlindReplay == \A e \in DOMAIN events : ~events[e].twice

(* With nobody at work and nothing new since the row was last projected,    *)
(* Emby blocks the account exactly if the panel does: a slower old block    *)
(* does not overwrite a newer renewal, nor the reverse.                     *)
AsLastProjected == holder = Null /\ agreed /\ row.here /\ emby.here => emby.disabled = Blocked(row)

(* A member is told once, and told what came of it: once, provided that a   *)
(* 5xx answer means that nothing was posted (report_delivery.failure).      *)
NoticesTrue ==
  \A e \in DOMAIN notices :
    /\ notices[e].posts <= 1
    /\ notices[e].posts = 1 /\ events[e].rule # "client_filter" => notices[e].told = events[e].status

(* In the end Emby blocks exactly whom the panel blocks, whatever drifted,  *)
(* failed or crashed before.                                                *)
Projected == row.here /\ emby.here /\ ~emby.admin => emby.disabled = Blocked(row)
=============================================================================
