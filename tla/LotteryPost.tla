---------------------------- MODULE LotteryPost -----------------------------
(***************************************************************************)
(* What a published lottery says in the group and to its winners: the      *)
(* launch, a reminder, the cancellation, a result in several parts and the *)
(* winners' private messages, each a durable job whose outcome may remain  *)
(* unknown; and the pin, the unpin and the live entry count of the launch  *)
(* message.  An uncertain post is never repeated by the program itself.    *)
(* A delivery reads a batch of rows and comes to each of them only after   *)
(* the sends before it: it claims a row by its state alone, and goes on    *)
(* with the message id and the attempts it has read.                       *)
(***************************************************************************)
EXTENDS Naturals, FiniteSets

CONSTANTS Senders,      \* deliveries that may be under way at the same time
          Winners,      \* winners who are written to in private
          MaxEntries,   \* entries counted on the launch message
          MaxAttempts,  \* tries of a job that was definitely not delivered
          MaxRecoveries, MaxFaults,
          Prompt,       \* TRUE: a batch ends before the lease of its rows (180 s
                        \* from the start of the batch; 20 s for each call)
          Null

Parts == {"result", "result:2"}
Notices == {"launch", "reminder", "cancel"} \cup Parts
Jobs == Notices \cup Winners
Ops == {"pin", "unpin", "live"}

PostBounds ==
  /\ {MaxEntries, MaxAttempts, MaxRecoveries, MaxFaults} \subseteq Nat
  /\ Prompt \in BOOLEAN
  /\ Winners \cap (Notices \cup Ops) = {}

VARIABLES
  phase,      \* published, settled or cancelled
  clock,      \* early, remind (the reminder's window), late, closed (past the deadline)
  count,      \* entries so far
  jobs,       \* lottery_notices and lottery_dms: state, message id known, attempts
  ops,        \* lottery_ops
  read,       \* sender -> the row of its batch that it has yet to come to
  work,       \* sender -> the job or operation it has claimed
  posted,     \* job -> how many messages of it are really in the chat
  group,      \* what the group really shows: the pin and the live line
  overtaken,  \* jobs claimed on a row older than the recovery that named the message
  recoveries, faults

vars == <<phase, clock, count, jobs, ops, read, work, posted, group, overtaken, recoveries, faults>>
lotteryVars == <<phase, clock, count>>

Job(state) == [state |-> state, known |-> FALSE, attempts |-> 0, later |-> FALSE]
Op(state, shown) == [state |-> state, shown |-> shown, target |-> Null, attempts |-> 0, later |-> FALSE]
Line(p, n) == [phase |-> p, count |-> n]
Fresh == Line("open", 0)

Init ==
  /\ phase = "published" /\ clock = "early" /\ count = 0
  /\ jobs = [j \in Jobs |-> IF j = "launch" THEN Job("pending") ELSE Null]
  /\ ops = [o \in Ops |-> Null]
  /\ read = [s \in Senders |-> Null] /\ work = [s \in Senders |-> Null]
  /\ posted = [j \in Jobs |-> 0]
  /\ group = [pinned |-> FALSE, line |-> Fresh]
  /\ overtaken = {} /\ recoveries = 0 /\ faults = 0

Free(s) == work[s] = Null /\ read[s] = Null
Busy(job) == \E s \in Senders : work[s] # Null /\ work[s].job = job

-----------------------------------------------------------------------------
(* The lottery itself, as far as its messages depend on it.                *)

Enter ==
  /\ phase = "published" /\ clock # "closed" /\ count < MaxEntries
  /\ count' = count + 1
  /\ UNCHANGED <<phase, clock, jobs, ops, read, work, posted, group, overtaken, recoveries, faults>>

TimePasses ==
  /\ clock # "closed"
  /\ clock' = CASE clock = "early" -> "remind" [] clock = "remind" -> "late" [] OTHER -> "closed"
  /\ UNCHANGED <<phase, count, jobs, ops, read, work, posted, group, overtaken, recoveries, faults>>

Staged(j) == jobs[j] # Null
Stage(J) == [j \in Jobs |-> IF j \in J /\ ~Staged(j) THEN Job("pending") ELSE jobs[j]]

StageReminder ==
  /\ phase = "published" /\ clock = "remind" /\ ~Staged("reminder")
  /\ jobs["launch"].state = "sent" /\ jobs["launch"].known
  /\ jobs' = Stage({"reminder"})
  /\ UNCHANGED <<lotteryVars, ops, read, work, posted, group, overtaken, recoveries, faults>>

Settle ==
  /\ phase = "published" /\ phase' = "settled"
  /\ jobs' = Stage(Parts \cup Winners)
  /\ UNCHANGED <<clock, count, ops, read, work, posted, group, overtaken, recoveries, faults>>

(* The cancellation is announced when the group may have seen the launch.  *)
Cancel ==
  /\ phase = "published" /\ phase' = "cancelled"
  /\ jobs' = IF jobs["launch"].state \in {"sent", "unknown", "sending"} THEN Stage({"cancel"}) ELSE jobs
  /\ UNCHANGED <<clock, count, ops, read, work, posted, group, overtaken, recoveries, faults>>

-----------------------------------------------------------------------------
(* A batch is read with what is due.  The row is claimed later, under the  *)
(* writer lock, by its state: it may be somebody else's by then, a result  *)
(* part may have lost the part before it, or it is too late for it.        *)

Due(j) == Staged(j) /\ jobs[j].state = "pending" /\ ~jobs[j].later
TooLate(row) ==
  /\ ~row.known
  /\ \/ row.job = "launch" /\ (phase # "published" \/ clock = "closed")
     \/ row.job = "reminder" /\ (phase # "published" \/ clock \in {"late", "closed"})
Blocked(j) == j = "result:2" /\ jobs["result"].state # "sent"

ReadJob(s, j) ==
  /\ Free(s) /\ Due(j) /\ (Blocked(j) => Due("result"))
  /\ read' = [read EXCEPT ![s] = [job |-> j, known |-> jobs[j].known, attempts |-> jobs[j].attempts]]
  /\ UNCHANGED <<lotteryVars, jobs, ops, work, posted, group, overtaken, recoveries, faults>>

ComesTo(s) == read[s] # Null /\ read' = [read EXCEPT ![s] = Null]
Open(j) == jobs[j].state = "pending" /\ ~Blocked(j)

PassOver(s) ==
  /\ ComesTo(s) /\ ~Open(read[s].job)
  /\ UNCHANGED <<lotteryVars, jobs, ops, work, posted, group, overtaken, recoveries, faults>>

GiveUp(s) ==
  /\ ComesTo(s) /\ Open(read[s].job) /\ TooLate(read[s])
  /\ LET j == read[s].job IN
       jobs' = [jobs EXCEPT ![j].state = IF j = "launch" THEN "failed" ELSE "skipped",
                            ![j].later = FALSE]
  /\ UNCHANGED <<lotteryVars, ops, work, posted, group, overtaken, recoveries, faults>>

(* What is known of the message and how often it was tried come from the   *)
(* row as it was read, not as it is at the claim.                          *)
ClaimJob(s) ==
  /\ ComesTo(s) /\ Open(read[s].job) /\ ~TooLate(read[s])
  /\ LET row == read[s] IN
       /\ jobs' = [jobs EXCEPT ![row.job].state = "sending", ![row.job].attempts = @ + 1]
       /\ work' = [work EXCEPT ![s] = [job |-> row.job, edit |-> row.known,
                                       attempts |-> row.attempts, target |-> Null]]
       /\ overtaken' = IF jobs[row.job].known /\ ~row.known THEN overtaken \cup {row.job} ELSE overtaken
  /\ UNCHANGED <<lotteryVars, ops, posted, group, recoveries, faults>>

(* The message reaches the chat: a new one, or the known one edited anew.  *)
Lands(w) ==
  /\ posted' = IF w.edit THEN posted ELSE [posted EXCEPT ![w.job] = @ + 1]
  /\ group' = IF w.job = "launch" THEN [group EXCEPT !.line = Fresh] ELSE group

Doing(s, J) == work[s] # Null /\ work[s].job \in J
Done(s) == work' = [work EXCEPT ![s] = Null]
Fault == faults < MaxFaults /\ faults' = faults + 1

(* The outcome is written with the message id of the row that was read.    *)
Recorded(s, state, known) ==
  jobs' = [jobs EXCEPT ![work[s].job].state = state, ![work[s].job].known = known,
                       ![work[s].job].later = (state = "pending")]

(* A confirmed launch starts its live line afresh.                         *)
Sent(s) ==
  /\ Doing(s, Jobs)
  /\ Lands(work[s]) /\ Done(s) /\ Recorded(s, "sent", TRUE)
  /\ ops' = IF work[s].job = "launch" /\ ops["live"] # Null
            THEN [ops EXCEPT !["live"] = Op("idle", Fresh)] ELSE ops
  /\ UNCHANGED <<lotteryVars, read, overtaken, recoveries, faults>>

(* Telegram refused for good, or could not be reached at all: only then is *)
(* the job tried again, a bounded number of times.                         *)
Refused(s) ==
  /\ Doing(s, Jobs) /\ Fault /\ Done(s) /\ Recorded(s, "failed", work[s].edit)
  /\ UNCHANGED <<lotteryVars, ops, read, posted, group, overtaken, recoveries>>

Unreached(s) ==
  /\ Doing(s, Jobs) /\ Fault /\ Done(s)
  /\ Recorded(s, IF work[s].attempts + 1 < MaxAttempts THEN "pending" ELSE "failed", work[s].edit)
  /\ UNCHANGED <<lotteryVars, ops, read, posted, group, overtaken, recoveries>>

(* The answer was lost, or was a 5xx: the message may or may not be there. *)
Unconfirmed(s) ==
  /\ Doing(s, Jobs) /\ Fault /\ Done(s) /\ Recorded(s, "unknown", work[s].edit)
  /\ Lands(work[s]) \/ UNCHANGED <<posted, group>>
  /\ UNCHANGED <<lotteryVars, ops, read, overtaken, recoveries>>

RetryDue(j) ==
  /\ Staged(j) /\ jobs[j].later
  /\ jobs' = [jobs EXCEPT ![j].later = FALSE]
  /\ UNCHANGED <<lotteryVars, ops, read, work, posted, group, overtaken, recoveries, faults>>

(* The process died while it was sending, or with a row that it had read.  *)
(* Only a dead sender's job is found expired if every batch is prompt: the *)
(* lease of a row counts from the start of the batch.                      *)
Forget(s) ==
  /\ ComesTo(s) /\ Fault
  /\ UNCHANGED <<lotteryVars, jobs, ops, work, posted, group, overtaken, recoveries>>

Crash(s) ==
  /\ work[s] # Null /\ Fault /\ Done(s)
  /\ IF work[s].job \in Jobs THEN Lands(work[s]) \/ UNCHANGED <<posted, group>>
     ELSE UNCHANGED posted /\ (group' = [group EXCEPT !.pinned = IF work[s].job = "live" THEN @
                                                                 ELSE work[s].job = "pin",
                                                      !.line = IF work[s].job = "live"
                                                               THEN work[s].target ELSE @]
                               \/ UNCHANGED group)
  /\ UNCHANGED <<lotteryVars, jobs, ops, read, overtaken, recoveries>>

LeaseEnds(j) ==
  /\ Staged(j) /\ jobs[j].state = "sending" /\ (Prompt => ~Busy(j))
  /\ jobs' = [jobs EXCEPT ![j].state = "unknown"]
  /\ UNCHANGED <<lotteryVars, ops, read, work, posted, group, overtaken, recoveries, faults>>

(* An administrator looked into the group and either names the message to  *)
(* edit or lets it be posted, of a doubtful one only after he has confirmed *)
(* that it is not there.  Private messages have no recovery.               *)
Recover(j) ==
  /\ j \in Notices /\ Staged(j) /\ jobs[j].state \in {"failed", "unknown"}
  /\ recoveries < MaxRecoveries /\ recoveries' = recoveries + 1
  /\ \E named \in BOOLEAN :
       /\ named => posted[j] > 0
       /\ jobs[j].state = "unknown" => jobs[j].known \/ named \/ posted[j] = 0
       /\ jobs' = [jobs EXCEPT ![j] = [Job("pending") EXCEPT !.known = jobs[j].known \/ named]]
  /\ UNCHANGED <<lotteryVars, ops, read, work, posted, group, overtaken, faults>>

-----------------------------------------------------------------------------
(* Pin, unpin and the live line of a launch that is known to be there.     *)

LaunchKnown == jobs["launch"].state = "sent" /\ jobs["launch"].known
Line0(o) == IF ops[o] # Null THEN ops[o]
            ELSE IF o = "live" THEN Op("idle", Fresh) ELSE Op("pending", Null)
Now == Line(CASE phase = "cancelled" -> "cancelled" [] phase = "settled" -> "settled"
              [] OTHER -> IF clock = "closed" THEN "closed" ELSE "open", count)

Claims(s, o, op, target, attempts) ==
  /\ ops' = [ops EXCEPT ![o] = [op EXCEPT !.state = "sending", !.target = target, !.attempts = attempts]]
  /\ work' = [work EXCEPT ![s] = [job |-> o, edit |-> FALSE, attempts |-> attempts, target |-> target]]

ClaimPin(s) ==
  LET op == Line0("pin") IN
  /\ Free(s) /\ LaunchKnown /\ op.state = "pending" /\ ~op.later
  /\ ops["pin"] # Null \/ phase = "published"
  /\ \/ phase = "published" /\ Claims(s, "pin", op, Null, op.attempts + 1)
     \/ phase # "published" /\ ops' = [ops EXCEPT !["pin"].state = "skipped"] /\ UNCHANGED work
  /\ UNCHANGED <<lotteryVars, jobs, read, posted, group, overtaken, recoveries, faults>>

ClaimUnpin(s) ==
  LET op == Line0("unpin") IN
  /\ Free(s) /\ LaunchKnown /\ phase \in {"settled", "cancelled"}
  /\ ops["pin"] # Null /\ ops["pin"].state \in {"sent", "unknown"}
  /\ op.state = "pending" /\ ~op.later
  /\ Claims(s, "unpin", op, Null, op.attempts + 1)
  /\ UNCHANGED <<lotteryVars, jobs, read, posted, group, overtaken, recoveries, faults>>

ClaimLive(s) ==
  LET op == Line0("live") IN
  /\ Free(s) /\ LaunchKnown
  /\ op.state \notin {"failed", "sending", "skipped"} /\ ~op.later
  /\ Now # op.shown /\ ~(op.state = "unknown" /\ Now = op.target)
  /\ Claims(s, "live", op, Now, IF op.state = "pending" /\ Now = op.target THEN op.attempts + 1 ELSE 1)
  /\ UNCHANGED <<lotteryVars, jobs, read, posted, group, overtaken, recoveries, faults>>

(* What the operation does to the group when Telegram carries it out.      *)
Effect(w) ==
  group' = IF w.job = "live" THEN [group EXCEPT !.line = w.target]
           ELSE [group EXCEPT !.pinned = (w.job = "pin")]

(* The outcome is only written to an operation that is still being sent.   *)
Outcome(s, state) ==
  LET o == work[s].job IN
  ops' = IF ops[o].state # "sending" THEN ops
         ELSE [ops EXCEPT ![o].state = state, ![o].later = (state = "pending"),
                          ![o].shown = IF state = "sent" /\ o = "live" THEN ops[o].target ELSE @]

OpSent(s) ==
  /\ Doing(s, Ops) /\ Effect(work[s]) /\ Outcome(s, "sent") /\ Done(s)
  /\ UNCHANGED <<lotteryVars, jobs, read, posted, overtaken, recoveries, faults>>

OpRefused(s) ==
  /\ Doing(s, Ops) /\ Fault /\ Done(s)
  /\ \/ Outcome(s, "failed")
     \/ Outcome(s, IF ops[work[s].job].attempts >= MaxAttempts THEN "failed" ELSE "pending")
  /\ UNCHANGED <<lotteryVars, jobs, read, posted, group, overtaken, recoveries>>

OpUnconfirmed(s) ==
  /\ Doing(s, Ops) /\ Fault /\ Done(s)
  /\ Effect(work[s]) \/ UNCHANGED group
  /\ Outcome(s, "unknown")
  /\ UNCHANGED <<lotteryVars, jobs, read, posted, overtaken, recoveries>>

OpWaits(o) ==
  /\ ops[o] # Null
  /\ \/ ops[o].later /\ ops' = [ops EXCEPT ![o].later = FALSE]
     \/ /\ ops[o].state = "sending" /\ ~Busy(o)
        /\ ops' = [ops EXCEPT ![o].state = "unknown"]
  /\ UNCHANGED <<lotteryVars, jobs, read, work, posted, group, overtaken, recoveries, faults>>

Next ==
  \/ Enter \/ TimePasses \/ StageReminder \/ Settle \/ Cancel
  \/ \E s \in Senders, j \in Jobs : ReadJob(s, j)
  \/ \E s \in Senders :
       \/ PassOver(s) \/ GiveUp(s) \/ ClaimJob(s) \/ Forget(s)
       \/ Sent(s) \/ Refused(s) \/ Unreached(s) \/ Unconfirmed(s) \/ Crash(s)
       \/ ClaimPin(s) \/ ClaimUnpin(s) \/ ClaimLive(s)
       \/ OpSent(s) \/ OpRefused(s) \/ OpUnconfirmed(s)
  \/ \E j \in Jobs : RetryDue(j) \/ LeaseEnds(j) \/ Recover(j)
  \/ \E o \in Ops : OpWaits(o)

(* A batch is gone through, the tick runs deliver_ops to its end again and *)
(* again, and time passes.                                                 *)
Goes(s) == PassOver(s) \/ GiveUp(s) \/ ClaimJob(s) \/ Sent(s) \/ OpSent(s)

Fairness ==
  /\ \A s \in Senders :
       /\ WF_vars(Goes(s))
       /\ SF_vars(ClaimUnpin(s)) /\ SF_vars(ClaimLive(s))
  /\ \A o \in Ops : WF_vars(OpWaits(o))

Spec == Init /\ [][Next]_vars
FairSpec == Spec /\ Fairness

-----------------------------------------------------------------------------
(* However sends fail, crash or stay unconfirmed, and whatever is retried  *)
(* or recovered, no private message is posted twice, and an announcement   *)
(* only after a delivery has claimed it on a row that it read before an    *)
(* administrator named the message: that one the code does post again.     *)
PostedOnce ==
  /\ \A j \in Jobs : posted[j] > 1 => j \in overtaken
  /\ \A j \in Winners : posted[j] <= 1

(* A later part of a result is never in the group without the earlier one, *)
(* and neither launch nor reminder is claimed too late to be of use.       *)
PartsInOrder == posted["result:2"] > 0 => posted["result"] > 0

(* When the program believes that it knows what the launch message shows,  *)
(* the group really shows that.                                            *)
BelievedIsShown ==
  /\ (ops["live"] # Null /\ ops["live"].state \in {"idle", "sent"}) => group.line = ops["live"].shown
  /\ (ops["pin"] # Null /\ ops["pin"].state = "sent" /\ ops["unpin"] = Null) => group.pinned
  /\ (ops["unpin"] # Null /\ ops["unpin"].state = "sent") => ~group.pinned

(* After the end the message is unpinned and its live line says so, unless *)
(* Telegram refused or left the last attempt in doubt.                     *)
EndShown ==
  \/ ~LaunchKnown
  \/ /\ ~group.pinned \/ (ops["unpin"] # Null /\ ops["unpin"].state \in {"failed", "unknown"})
                      \/ (ops["pin"] # Null /\ ops["pin"].state \in {"failed", "skipped"})
     /\ group.line = Now \/ (ops["live"] # Null /\ ops["live"].state \in {"failed", "unknown"})
=============================================================================
