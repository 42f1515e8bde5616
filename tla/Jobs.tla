-------------------------------- MODULE Jobs --------------------------------
(* Scheduled jobs (plugins.py, plugins_builtin.py, report_delivery.py): the *)
(* registry runs a job that is due, by the minute or by hand, one run at a  *)
(* time, and after a restart from its table of past runs; the job tells     *)
(* members over Telegram and keeps in the settings whom it has told.  One   *)
(* job: a personal report, a daily reminder, or the audit of who has left   *)
(* the group.                                                               *)
EXTENDS Naturals, Sequences, FiniteSets

CONSTANTS
  Job,       \* "report", "remind" or "audit"
  Members,   \* those the job is about, all of them bound to Telegram
  Deaf,      \* those who have blocked the bot
  Null,
  Day,       \* ticks in a day
  Hour,      \* the tick of the day from which the job is due; of the audit, the ticks from a run to the next
  ReportDays,\* the days on which a report is sent
  Backoff,   \* the wait before a report is tried again
  Attempts,  \* how often it is tried (MAX_ATTEMPTS)
  Grace,     \* ticks between the notice and the suspension
  Keep,      \* ticks for which a notice is kept (NOTICE_TTL)
  ErrorsRefuse, \* TRUE: a 5xx answer means that nothing was sent
  MaxTime, MaxManual, MaxChanges, MaxFaults  \* bounds of the instance

JobBounds ==
  /\ Job \in {"report", "remind", "audit"} /\ Deaf \subseteq Members
  /\ {Hour, Backoff, Attempts, Grace, Keep, MaxTime, MaxManual, MaxChanges, MaxFaults} \subseteq Nat
  /\ Day \in Nat \ {0} /\ ErrorsRefuse \in BOOLEAN

VARIABLES
  clock,
  enabled,
  lastDaily, lastRetry,  \* _last_daily and _last_retry, in memory; lastDaily of the audit is _last_run
  history,   \* plugin_runs: the day of the last scheduled success (of the audit: the last run), the last failure
  state,     \* the job's part of plugin_state
  run,       \* the run at work, which _running keeps alone
  bound,     \* the binding of each member
  out,       \* who is out of the group
  suspended,
  heard,     \* history: how often a member was told, of this batch or on this day
  told,      \* history: when a leaver was told of the absence the audits have seen since
  spoiled,   \* history: a reminder of this day was sent and not noted
  asked,     \* history: how often an operator's retry took up a report whose fate was unknown
  manual, changes, faults

vars == <<clock, enabled, lastDaily, lastRetry, history, state, run, bound, out, suspended, heard, told, spoiled, asked,
          manual, changes, faults>>
registry == <<lastDaily, lastRetry, history>>
people == <<bound, out, suspended>>
counts == <<heard, asked>>

Waiting == {"pending", "retry", "sending"}
Fresh(m) == [state |-> "pending", attempts |-> 0, next |-> 0, bound |-> bound[m]]
Nothing == [day |-> Null, created |-> 0, pause |-> 0, rows |-> <<>>, sent |-> {}, since |-> <<>>]

JobTypes ==
  /\ run = Null \/ run.todo \subseteq Members
  /\ DOMAIN state.rows \subseteq Members /\ DOMAIN state.since \subseteq Members
  /\ \A m \in DOMAIN state.rows : state.rows[m].state \in Waiting \cup {"sent", "failed", "unknown"}
  /\ suspended \subseteq Members /\ lastDaily \in Nat \cup {Null} /\ history.ok \in Nat \cup {Null}

Init ==
  /\ clock = Hour /\ enabled = TRUE /\ lastDaily = Null /\ lastRetry = Null
  /\ history = [ok |-> Null, failed |-> Null] /\ state = Nothing /\ run = Null
  /\ bound = [m \in Members |-> 0] /\ out \in IF Job = "audit" THEN {Members} ELSE {{}}
  /\ suspended = {} /\ told = [m \in Members |-> Null] /\ spoiled = FALSE /\ heard = [m \in Members |-> 0] /\ asked = heard
  /\ manual = 0 /\ changes = 0 /\ faults = 0

-----------------------------------------------------------------------------
today == clock \div Day
Fault == faults < MaxFaults /\ faults' = faults + 1
Later(m) == state.rows[m].next > clock

(* report_delivery.is_due: something is waiting and may be tried now; after *)
(* a day whatever waits is due once more, to be given up.                   *)
is_due ==
  /\ state.rows # <<>>
  /\ \E m \in DOMAIN state.rows :
       /\ state.rows[m].state \in Waiting
       /\ clock - state.created >= Day \/ (clock >= state.pause /\ ~Later(m))

due_today ==
  IF Job # "report" THEN TRUE
  ELSE IF state.day = today THEN is_due ELSE today \in ReportDays \/ is_due

_due ==
  /\ enabled /\ run = Null
  /\ \/ Job = "audit" /\ (lastDaily # Null => clock - lastDaily >= Hour)
     \/ /\ Job # "audit"
        /\ lastRetry # Null => clock > lastRetry
        /\ \/ Job = "report" /\ is_due
           \/ lastDaily # today /\ clock % Day >= Hour /\ due_today

(* ------------------------------ a run's end ---------------------------- *)
(* _execute writes the run down, and tick remembers the day or the failure; *)
(* the audit, which has no hour of the day, counts from its last start.     *)
Ended(ok) ==
  /\ run' = Null
  /\ IF Job = "audit"
     THEN lastDaily' = run.now /\ history' = [history EXCEPT !.ok = run.now] /\ UNCHANGED lastRetry
     ELSE IF run.trigger = "schedule"
     THEN IF ok THEN /\ lastDaily' = run.now \div Day /\ lastRetry' = Null
                     /\ history' = [ok |-> run.now \div Day, failed |-> Null]
                ELSE /\ lastRetry' = run.now /\ history' = [history EXCEPT !.failed = run.now]
                     /\ UNCHANGED lastDaily
     ELSE history' = [history EXCEPT !.failed = Null] /\ UNCHANGED <<lastDaily, lastRetry>>

Starts(trigger, batch) ==
  run' = [trigger |-> trigger, batch |-> batch, now |-> clock, at |-> clock, pc |-> "open", todo |-> {}, member |-> Null,
          errors |-> FALSE, sent |-> {}, seen |-> {}, since |-> <<>>]

(* The loop's tick of the minute.                                           *)
tick ==
  /\ _due /\ Starts("schedule", Null)
  /\ UNCHANGED <<clock, enabled, registry, state, people, counts, told, spoiled, manual, changes, faults>>

(* The operator's button, for a report also the one for what has failed.    *)
run_now ==
  /\ run = Null /\ manual < MaxManual /\ manual' = manual + 1
  /\ \/ Starts("manual", Null)
     \/ state.rows # <<>> /\ Starts("retry", state.day)
  /\ UNCHANGED <<clock, enabled, registry, state, people, counts, told, spoiled, changes, faults>>

(* ------------------------------- reports ------------------------------- *)
(* How a recipient's row ends whose time is over.                           *)
GivenUp(r) ==
  IF r.state \notin Waiting THEN r
  ELSE [r EXCEPT !.state = IF r.state = "sending" THEN "unknown" ELSE "failed", !.next = 0]

failed(r, at) == IF r.attempts >= Attempts THEN [r EXCEPT !.state = "failed", !.next = 0]
                 ELSE [r EXCEPT !.state = "retry", !.next = at]

AllSent == \A m \in DOMAIN state'.rows : state'.rows[m].state = "sent"

(* The batch of another day is replaced unless it still has something due.  *)
Replaced == run.trigger # "retry" /\ state.day # today /\ ~is_due

OpenReport ==
  /\ run # Null /\ run.pc = "open" /\ Job = "report"
  /\ LET st == IF Replaced
               THEN [Nothing EXCEPT !.day = today, !.created = clock, !.rows = [m \in Members |-> Fresh(m)]]
               ELSE state
         over == run.trigger # "retry" /\ clock - st.created >= Day
     IN /\ state' = IF over THEN [st EXCEPT !.rows = [m \in DOMAIN st.rows |-> GivenUp(st.rows[m])]] ELSE st
        /\ heard' = IF Replaced THEN [m \in Members |-> 0] ELSE heard
        /\ asked' = IF Replaced THEN [m \in Members |-> 0] ELSE asked
        /\ IF over THEN Ended(AllSent)
           ELSE IF (run.trigger = "retry" /\ run.batch # st.day) \/ clock < st.pause THEN Ended(FALSE)
           ELSE /\ run' = [run EXCEPT !.pc = "each", !.todo = DOMAIN st.rows, !.at = clock]
                /\ UNCHANGED registry
  /\ UNCHANGED <<clock, enabled, people, told, spoiled, manual, changes, faults>>

Eligible(r) ==
  IF run.trigger = "retry" THEN r.state \in {"retry", "failed", "unknown"}
  ELSE r.state \in {"pending", "retry"} /\ r.next <= run.at

Row(m, r) == state' = [state EXCEPT !.rows[m] = r]
Drop(m) == run' = [run EXCEPT !.pc = "each", !.todo = @ \ {m}]

(* A row found "sending" was left by a run that ended in the middle.        *)
Interrupted(r) == [r EXCEPT !.state = "unknown"]

Recipient(m) ==
  /\ run # Null /\ Job = "report" /\ run.pc = "each" /\ m \in run.todo
  /\ \E r \in {state.rows[m]} :
       \/ r.state = "sending" /\ Row(m, Interrupted(r)) /\ Drop(m)
       \/ r.state # "sending" /\ ~Eligible(r) /\ Drop(m) /\ UNCHANGED state
       \/ Eligible(r) /\ bound[m] # r.bound /\ Row(m, [r EXCEPT !.state = "failed"]) /\ Drop(m)
       \/ /\ Eligible(r) /\ bound[m] = r.bound /\ Row(m, [r EXCEPT !.attempts = @ + 1])
          /\ run' = [run EXCEPT !.pc = "draw", !.member = m]
  /\ asked' = IF run'.pc = "draw" /\ state.rows[m].state = "unknown" THEN [asked EXCEPT ![m] = @ + 1] ELSE asked
  /\ UNCHANGED <<clock, enabled, registry, people, heard, told, spoiled, manual, changes, faults>>

(* The report is drawn, which awaits; the row is marked before the sending, *)
(* so that what is uncertain is not taken for unsent.                       *)
Draw ==
  /\ run # Null /\ run.pc = "draw"
  /\ \E m \in {run.member} :
       \/ /\ bound[m] = state.rows[m].bound
          /\ Row(m, [state.rows[m] EXCEPT !.state = "sending"])
          /\ run' = [run EXCEPT !.pc = "send"] /\ UNCHANGED faults
       \/ /\ bound[m] # state.rows[m].bound /\ Row(m, [state.rows[m] EXCEPT !.state = "failed"])
          /\ Drop(m) /\ UNCHANGED faults
       \/ Fault /\ Row(m, failed(state.rows[m], clock + Backoff)) /\ Drop(m)
  /\ UNCHANGED <<clock, enabled, registry, people, counts, told, spoiled, manual, changes>>

(* Telegram takes it and says so; or refuses; or its answer is lost, or is  *)
(* a 5xx, or there was none to be had: then it may have taken it; or it     *)
(* asks for a pause, which ends the run.                                    *)
Arrives(m) == heard' = [heard EXCEPT ![m] = @ + 1]

Send ==
  /\ run # Null /\ run.pc = "send"
  /\ \E m \in {run.member} : \E r \in {state.rows[m]} :
       \/ m \notin Deaf /\ Arrives(m) /\ Row(m, [r EXCEPT !.state = "sent"]) /\ Drop(m) /\ UNCHANGED faults
       \/ m \in Deaf /\ Row(m, [r EXCEPT !.state = "failed"]) /\ Drop(m) /\ UNCHANGED <<heard, faults>>
       \/ /\ Fault /\ Drop(m)
          /\ \E lost, arrived \in BOOLEAN :
               /\ Row(m, IF lost THEN [r EXCEPT !.state = "unknown"] ELSE failed(r, clock + Backoff))
               /\ arrived => m \notin Deaf /\ (lost \/ ~ErrorsRefuse)
               /\ IF arrived THEN Arrives(m) ELSE UNCHANGED heard
       \/ Fault /\ state' = [state EXCEPT !.rows[m] = failed(r, clock + Backoff), !.pause = clock + 1]
                /\ run' = [run EXCEPT !.pc = "each", !.todo = {}] /\ UNCHANGED heard
  /\ UNCHANGED <<clock, enabled, registry, people, asked, told, spoiled, manual, changes>>

CloseReport ==
  /\ run # Null /\ Job = "report" /\ run.pc = "each" /\ run.todo = {}
  /\ UNCHANGED state /\ Ended(AllSent)
  /\ UNCHANGED <<clock, enabled, people, counts, told, spoiled, manual, changes, faults>>

(* ------------------------------ reminders ------------------------------ *)
(* _delivery_state: whom an unfinished run of this day has told.            *)
Told == IF state.day = today THEN state.sent ELSE {}

OpenReminder ==
  /\ run # Null /\ run.pc = "open" /\ Job = "remind"
  /\ run' = [run EXCEPT !.pc = "each", !.todo = Members \ Told, !.sent = Told, !.at = clock]
  /\ UNCHANGED <<clock, enabled, registry, state, people, counts, told, spoiled, manual, changes, faults>>

(* One message after the other, each acknowledged before it is noted; what  *)
(* is lost or refused is tried again in the next run.                       *)
Remind(m) ==
  /\ run # Null /\ run.pc = "each" /\ Job = "remind" /\ m \in run.todo
  /\ \/ /\ m \notin Deaf /\ UNCHANGED faults
        /\ run' = [run EXCEPT !.todo = @ \ {m}, !.sent = @ \cup {m}]
        /\ state' = [state EXCEPT !.day = run.at \div Day, !.sent = run'.sent]
        /\ heard' = IF run.at \div Day = today THEN [heard EXCEPT ![m] = @ + 1] ELSE heard
     \/ /\ (m \in Deaf /\ UNCHANGED faults) \/ Fault
        /\ run' = [run EXCEPT !.todo = @ \ {m}, !.errors = TRUE] /\ UNCHANGED state
        /\ heard' \in {heard, IF m \in Deaf THEN heard ELSE [heard EXCEPT ![m] = @ + 1]}
  /\ spoiled' = (spoiled \/ (heard' # heard /\ m \notin run'.sent))
  /\ UNCHANGED <<clock, enabled, registry, people, asked, told, manual, changes>>

(* The receipts of a finished run are dropped, then the run is written down.*)
CloseReminder ==
  /\ run # Null /\ run.pc = "each" /\ Job = "remind" /\ run.todo = {}
  /\ IF run.errors THEN Ended(FALSE) /\ UNCHANGED state
     ELSE state' = Nothing /\ run' = [run EXCEPT !.pc = "close"] /\ UNCHANGED registry
  /\ UNCHANGED <<clock, enabled, people, counts, told, spoiled, manual, changes, faults>>

WriteDown ==
  /\ run # Null /\ run.pc = "close" /\ Ended(~run.errors)
  /\ UNCHANGED <<clock, enabled, state, people, counts, told, spoiled, manual, changes, faults>>

(* -------------------------------- audit -------------------------------- *)
(* Who is out of the group is asked first, and if Telegram does not say so  *)
(* of anyone the run is given up; then each is told, and after the grace    *)
(* suspended.  A notice is kept at once, a suspension at the end.           *)
Kept == {m \in DOMAIN state.since : clock - state.since[m] < Keep}

NotKnown ==
  /\ run # Null /\ run.pc = "open" /\ Job = "audit" /\ Fault /\ Ended(FALSE)
  /\ UNCHANGED <<clock, enabled, state, people, counts, told, spoiled, manual, changes>>

OpenAudit ==
  /\ run # Null /\ run.pc = "open" /\ Job = "audit"
  /\ run' = [run EXCEPT !.pc = "each", !.at = clock, !.todo = out, !.seen = out,
                        !.since = [m \in Kept |-> state.since[m]]]
  /\ UNCHANGED <<clock, enabled, registry, state, people, counts, told, spoiled, manual, changes, faults>>

Noted(m) == [x \in DOMAIN run.since \cup {m} |-> IF x = m THEN run.at ELSE run.since[x]]
Without(ms) == [x \in DOMAIN run.since \ ms |-> run.since[x]]

TellLeaver(m) ==
  /\ run # Null /\ run.pc = "each" /\ Job = "audit" /\ m \in run.todo /\ m \notin DOMAIN run.since
  /\ \/ /\ m \notin Deaf /\ UNCHANGED faults
        /\ told' = [told EXCEPT ![m] = IF @ = Null THEN run.at ELSE @]
        /\ run' = [run EXCEPT !.todo = IF Grace > 0 THEN @ \ {m} ELSE @, !.since = Noted(m)]
        /\ state' = [state EXCEPT !.since = run'.since]
     \/ /\ (m \in Deaf /\ UNCHANGED faults) \/ Fault
        /\ run' = [run EXCEPT !.todo = @ \ {m}, !.errors = TRUE] /\ UNCHANGED <<state, told>>
  /\ UNCHANGED <<clock, enabled, registry, people, counts, spoiled, manual, changes>>

SuspendLeaver(m) ==
  /\ run # Null /\ run.pc = "each" /\ Job = "audit" /\ m \in run.todo /\ m \in DOMAIN run.since
  /\ IF run.at - run.since[m] >= Grace
     THEN /\ suspended' = suspended \cup {m}
          /\ run' = [run EXCEPT !.todo = @ \ {m}, !.since = Without({m})]
     ELSE run' = [run EXCEPT !.todo = @ \ {m}] /\ UNCHANGED suspended
  /\ UNCHANGED <<clock, enabled, registry, state, bound, out, counts, told, spoiled, manual, changes, faults>>

(* Whoever is back is off the clock.                                        *)
Returned == Without(Members \ run.seen)

CloseAudit ==
  /\ run # Null /\ run.pc = "each" /\ Job = "audit" /\ run.todo = {}
  /\ state' = [state EXCEPT !.since = Returned]
  /\ run' = [run EXCEPT !.pc = "close"]
  /\ told' = [m \in Members |-> IF m \in run.seen THEN told[m] ELSE Null]
  /\ UNCHANGED <<clock, enabled, registry, people, counts, spoiled, manual, changes, faults>>

(* ------------------------ time, people, faults ------------------------- *)
(* A tick is hours: the loop looks far more often, and a run is cancelled   *)
(* after ten minutes, so that it lasts past one tick at most.  Reports and  *)
(* reminders look at the clock before they wait for anything, and so on the *)
(* day whose run it is.                                                     *)
Tick ==
  /\ ~_due /\ (run # Null => clock = run.now /\ (Job = "audit" \/ run.pc # "open"))
  /\ clock < MaxTime /\ clock' = clock + 1
  /\ IF Job = "remind" /\ clock' % Day = 0
     THEN heard' = [m \in Members |-> 0] /\ spoiled' = FALSE ELSE UNCHANGED <<heard, spoiled>>
  /\ UNCHANGED <<enabled, registry, state, run, people, asked, told, manual, changes, faults>>

Change == changes < MaxChanges /\ changes' = changes + 1

Switch ==
  /\ Change /\ enabled' = ~enabled
  /\ UNCHANGED <<clock, registry, state, run, people, counts, told, spoiled, manual, faults>>

Rebind(m) ==
  /\ Job = "report" /\ Change /\ bound' = [bound EXCEPT ![m] = @ + 1]
  /\ UNCHANGED <<clock, enabled, registry, state, run, out, suspended, counts, told, spoiled, manual, faults>>

Move(m) ==
  /\ Job = "audit" /\ Change
  /\ out' = IF m \in out THEN out \ {m} ELSE out \cup {m}
  /\ UNCHANGED <<clock, enabled, registry, state, run, bound, suspended, counts, told, spoiled, manual, faults>>

(* What a run in the middle of a sending leaves behind: the message may     *)
(* have arrived.                                                            *)
MayHaveArrived ==
  \/ UNCHANGED heard
  \/ \E m \in Members \ Deaf :
       /\ \/ run.pc = "send" /\ m = run.member
          \/ run.pc = "each" /\ Job = "remind" /\ m \in run.todo /\ run.at \div Day = today
       /\ heard' = [heard EXCEPT ![m] = @ + 1]

(* A run that takes too long is cancelled, and counts as failed.            *)
TimesOut ==
  /\ run # Null /\ run.pc # "close" /\ Fault /\ MayHaveArrived /\ Ended(FALSE)
  /\ spoiled' = (spoiled \/ heard' # heard)
  /\ UNCHANGED <<clock, enabled, state, people, asked, told, manual, changes>>

(* The process ends and starts again, from what is stored (register).       *)
Restored == history.ok

Crash ==
  /\ Fault /\ (IF run = Null THEN UNCHANGED heard ELSE MayHaveArrived)
  /\ run' = Null /\ lastDaily' = Restored /\ lastRetry' = history.failed
  /\ spoiled' = (spoiled \/ heard' # heard \/ (run # Null /\ run.pc = "close"))
  /\ UNCHANGED <<clock, enabled, history, state, people, asked, told, manual, changes>>

Work ==
  \/ OpenReport \/ (\E m \in Members : Recipient(m)) \/ Draw \/ Send \/ CloseReport
  \/ OpenReminder \/ (\E m \in Members : Remind(m)) \/ CloseReminder \/ WriteDown
  \/ NotKnown \/ OpenAudit \/ (\E m \in Members : TellLeaver(m) \/ SuspendLeaver(m)) \/ CloseAudit

Next ==
  \/ tick \/ run_now \/ Work \/ Tick \/ Switch \/ TimesOut \/ Crash
  \/ \E m \in Members : Rebind(m) \/ Move(m)

-----------------------------------------------------------------------------
(* Nobody hears the same report twice but after an operator had it sent     *)
(* again (provided that a 5xx answer means that it was not sent), and nobody the same reminder twice in a day but after a fault or  *)
(* a run by hand: not because another recipient failed, nor because the     *)
(* process was restarted after a finished run.                              *)
HeardOnce ==
  \A m \in Members :
    /\ Job = "report" => heard[m] <= 1 + asked[m]
    /\ Job = "remind" /\ heard[m] > 1 => manual > 0 \/ spoiled

(* Nobody is suspended who was not told, at least the grace ago and of this *)
(* very absence as far as the audits have seen it.                          *)
GraceKept ==
  \A m \in suspended' \ suspended : told[m] # Null /\ clock - told[m] >= Grace

(* What waits in a batch of reports is sent or given up in the end.         *)
Outstanding ==
  /\ enabled /\ state.created + Day + MaxFaults < MaxTime
  /\ \E m \in DOMAIN state.rows : state.rows[m].state \in Waiting
=============================================================================
