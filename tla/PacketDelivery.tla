--------------------------- MODULE PacketDelivery ---------------------------
(***************************************************************************)
(* What the group sees of a red packet after its card is bound: the card   *)
(* is edited to every new state, pinned while the packet is open, unpinned *)
(* when it is empty, and followed by a receipt in one or more messages     *)
(* (backend/app/modules/packet_delivery.py and the transport half of       *)
(* bot_packets.py).  RedPackets models the money; here a packet only moves *)
(* from draft through its claims to exhausted.                             *)
(*                                                                         *)
(* Every button starts a task that runs _packet_render, which edits the    *)
(* card under a lock and then runs the effects with the lock held; the one *)
(* worker task does that too, and also runs the effects without the lock.  *)
(* An effect is claimed in one transaction, carried out by Telegram, and   *)
(* finished in another.                                                    *)
(***************************************************************************)
EXTENDS Integers, Sequences

CONSTANTS
    Tasks,      \* concurrent runs of _packet_render
    Worker,     \* the one that runs _packet_tick
    Nobody,     \* no task
    Shares,     \* parts of the packet
    Messages,   \* messages the receipt needs
    Lease,      \* ticks of {kind}_lease (90 s)
    Delay,      \* ticks before a retry ({kind}_due, 10 s)
    MaxAttempts,  \* attempts at one effect (3)
    MaxCrashes, \* bound: how often the process dies
    Prompt,     \* TRUE: a call ends before its lease (20 s timeout, 90 s lease)
    ServerErrorMayAccept  \* TRUE: an HTTP 5xx answer may hide an accepted send

DeliveryAssumption ==
    /\ Worker \in Tasks /\ Nobody \notin Tasks
    /\ {Shares, Messages, Lease, MaxAttempts} \subseteq Nat \ {0} /\ {Delay, MaxCrashes} \subseteq Nat
    /\ {Prompt, ServerErrorMayAccept} \subseteq BOOLEAN

VARIABLES
    status, claimed,  \* red_packets.status and claimed_count
    version,    \* render_version
    rendered,   \* rendered_version
    eff,        \* per effect: {kind}_state, _lease - now, _due - now, _attempts, lease owner
    cursor,     \* messages of the receipt that are acknowledged
    lock,       \* the task that holds _packet_render_locks[nonce]
    task,       \* what each task is doing
    crashes,    \* how often the process has died
    face,       \* the version the card shows in the group
    pinned,     \* whether the card is pinned in the group
    log         \* the receipt messages in the group

row  == <<status, claimed, version, rendered, eff, cursor>>
chat == <<face, pinned, log>>
vars == <<row, lock, task, crashes, chat>>

Kinds   == {"pin", "unpin", "receipt"}   \* EFFECTS, in this order
Effects == [state : {"", "pending", "sending", "retry", "sent", "failed", "unknown"},
            lease : Nat, due : Nat, attempts : Nat, owner : Tasks \cup {Nobody}]
TaskStates == [at : {"idle", "edit", "edited", "effects", "call", "applied"},
               kind : Kinds \cup {"done"}, what : Nat]

Fresh(state) == [state |-> state, lease |-> 0, due |-> 0, attempts |-> 0, owner |-> Nobody]
Idle         == [at |-> "idle", kind |-> "pin", what |-> 0]
After(kind)  == CASE kind = "pin" -> "unpin" [] kind = "unpin" -> "receipt" [] OTHER -> "done"
Doing(at, kind, what) == [at |-> at, kind |-> kind, what |-> what]

Init ==
    /\ status = "draft" /\ claimed = 0 /\ version = 0 /\ rendered = 0
    /\ eff = [k \in Kinds |-> Fresh("")] /\ cursor = 0
    /\ lock = Nobody /\ task = [t \in Tasks |-> Idle] /\ crashes = 0
    /\ face = 0 /\ pinned = FALSE /\ log = <<>>

-----------------------------------------------------------------------------
(* The packet goes on: confirm, then one claim per share.                  *)
Confirm ==
    /\ status = "draft"
    /\ status' = "active" /\ version' = version + 1
    /\ eff' = [eff EXCEPT !["pin"] = Fresh("pending")]
    /\ UNCHANGED <<claimed, rendered, cursor, lock, task, chat, crashes>>

\* The receipt is frozen and the unpin requested by the last claim.
ClaimShare ==
    /\ status = "active"
    /\ claimed' = claimed + 1 /\ version' = version + 1
    /\ IF claimed + 1 = Shares
       THEN /\ status' = "exhausted"
            /\ eff' = [eff EXCEPT !["receipt"] = Fresh("pending"), !["unpin"] = Fresh("pending")]
       ELSE UNCHANGED <<status, eff>>
    /\ UNCHANGED <<rendered, cursor, lock, task, chat, crashes>>

-----------------------------------------------------------------------------
(* _packet_render: under the lock, edit the card to the row just read.     *)
BeginRender(t) ==
    /\ task[t] = Idle /\ lock = Nobody
    /\ lock' = t
    /\ task' = [task EXCEPT ![t] = IF rendered < version THEN Doing("edit", "pin", version)
                                                         ELSE Doing("effects", "pin", 0)]
    /\ UNCHANGED <<row, chat, crashes>>

ApplyEdit(t) ==
    /\ task[t].at = "edit"
    /\ face' = task[t].what
    /\ task' = [task EXCEPT ![t] = Doing("edited", "pin", task[t].what)]
    /\ UNCHANGED <<row, lock, pinned, log, crashes>>

\* rendered: recorded only if nothing has changed since the row was read.
RecordRender(t, success) ==
    rendered' = IF version # task[t].what THEN rendered ELSE IF success THEN version ELSE -1

EndRender(t, success) ==
    /\ task[t].at = "edited" \/ (task[t].at = "edit" /\ ~success)
    /\ RecordRender(t, success)
    /\ IF success
       THEN /\ task' = [task EXCEPT ![t] = Doing("effects", "pin", 0)]
            /\ UNCHANGED lock
       ELSE task' = [task EXCEPT ![t] = Idle] /\ lock' = Nobody
    /\ UNCHANGED <<status, claimed, version, eff, cursor, chat, crashes>>

\* _packet_tick runs the effects of every packet that has one to do.
BeginTick(t) ==
    /\ t = Worker /\ task[t] = Idle
    /\ \E k \in Kinds : eff[k].state \in {"pending", "retry", "sending"}
    /\ task' = [task EXCEPT ![t] = Doing("effects", "pin", 0)]
    /\ UNCHANGED <<row, lock, chat, crashes>>

EndEffects(t) ==
    /\ task[t].at = "effects" /\ task[t].kind = "done"
    /\ task' = [task EXCEPT ![t] = Idle]
    /\ lock' = IF lock = t THEN Nobody ELSE lock
    /\ UNCHANGED <<row, chat, crashes>>

-----------------------------------------------------------------------------
\* Mutant: effects run before the card is up to date.
ClaimableUnrendered(k) ==
    /\ eff[k].state \in {"pending", "retry"} /\ eff[k].due = 0
    /\ status = IF k = "pin" THEN "active" ELSE "exhausted"
    /\ k = "unpin" => ~(eff["pin"].state = "sending" /\ eff["pin"].lease > 0)

(* claim: may this effect be carried out now? *)
Lapsed(k) == eff[k].state = "sending" /\ eff[k].lease = 0

Claimable(k) ==
    /\ eff[k].state \in {"pending", "retry"} /\ eff[k].due = 0
    /\ status = IF k = "pin" THEN "active" ELSE "exhausted"
    /\ rendered >= version
    /\ k = "unpin" => ~(eff["pin"].state = "sending" /\ eff["pin"].lease > 0)

Claim(t) ==
    LET k == task[t].kind IN
    /\ task[t].at = "effects" /\ k # "done"
    /\ IF Claimable(k)
       THEN /\ eff' = [eff EXCEPT ![k] = [state |-> "sending", lease |-> Lease, due |-> @.due,
                                          attempts |-> @.attempts + 1, owner |-> t]]
            /\ task' = [task EXCEPT ![t] = Doing("call", k, cursor)]
       ELSE /\ eff' = IF Lapsed(k) THEN [eff EXCEPT ![k] = Fresh("unknown")] ELSE eff
            /\ task' = [task EXCEPT ![t] = Doing("effects", After(k), 0)]
    /\ UNCHANGED <<status, claimed, version, rendered, cursor, lock, chat, crashes>>

ApplyCall(t) ==
    /\ task[t].at = "call"
    /\ CASE task[t].kind = "pin"   -> pinned' = TRUE  /\ UNCHANGED log
         [] task[t].kind = "unpin" -> pinned' = FALSE /\ UNCHANGED log
         [] OTHER -> log' = Append(log, task[t].what + 1) /\ UNCHANGED pinned
    /\ task' = [task EXCEPT ![t] = Doing("applied", task[t].kind, task[t].what)]
    /\ UNCHANGED <<row, lock, face, crashes>>

(* What _call may report (report_delivery.failure); "ok" needs the call.   *)
MayReport(t, outcome) ==
    \/ task[t].at = "applied" /\ outcome \in {"ok", "unknown"}
    \/ task[t].at = "applied" /\ outcome = "retry" /\ ServerErrorMayAccept
    \/ task[t].at = "call" /\ outcome \in {"retry", "failed", "unknown"}

\* The state finish writes.
Finished(k, t, outcome) ==
    CASE outcome = "ok" -> IF k = "receipt" /\ task[t].what + 1 < Messages THEN "pending" ELSE "sent"
      [] outcome = "retry" /\ eff[k].attempts < MaxAttempts -> "retry"
      [] outcome \in {"retry", "failed"} -> "failed"
      [] OTHER -> "unknown"

\* The row as the first statement of finish leaves it: only the owner of the
\* current lease may write.  (A lease is only read while "sending", a due time
\* only before the next attempt: otherwise they are kept at 0.)
Owned(k, t) == eff[k].state = "sending" /\ eff[k].owner = t

Written(k, t, outcome) ==
    LET state == Finished(k, t, outcome) IN
    IF Owned(k, t)
    THEN [state    |-> state, lease |-> 0, owner |-> Nobody,
          due      |-> IF state = "retry" THEN Delay ELSE 0,
          attempts |-> IF k = "receipt" /\ outcome = "ok" THEN 0 ELSE eff[k].attempts]
    ELSE eff[k]

\* The second statement: a pin acknowledged after the last claim is undone.
UnpinAgain(k, outcome) ==
    k = "pin" /\ outcome = "ok" /\ status = "exhausted" /\ eff["unpin"].state # "sending"

(* The process dies: every task and the lock are gone, the row stays.      *)
Die ==
    /\ crashes < MaxCrashes /\ crashes' = crashes + 1
    /\ task' = [t \in Tasks |-> Idle] /\ lock' = Nobody

Crash == (\E t \in Tasks : task[t] # Idle) /\ Die /\ UNCHANGED <<row, chat>>

(* finish.  After a message of the receipt the same effect is claimed      *)
(* again; otherwise the next one is.  The process may die between the two  *)
(* statements, which are separate transactions.                            *)
Finish(t, outcome, dies) ==
    LET k == task[t].kind IN
    /\ task[t].at \in {"call", "applied"} /\ MayReport(t, outcome)
    /\ eff' = [j \in Kinds |->
                 IF j = k THEN Written(k, t, outcome)
                 ELSE IF j = "unpin" /\ UnpinAgain(k, outcome) /\ ~dies THEN Fresh("pending")
                 ELSE eff[j]]
    /\ cursor' = IF k = "receipt" /\ outcome = "ok" /\ Owned(k, t) THEN task[t].what + 1 ELSE cursor
    /\ IF dies
       THEN Die
       ELSE /\ task' = [task EXCEPT ![t] =
                           Doing("effects", IF k = "receipt" /\ outcome = "ok" THEN k ELSE After(k), 0)]
            /\ UNCHANGED <<lock, crashes>>
    /\ UNCHANGED <<status, claimed, version, rendered, chat>>

OneLess(n) == IF n = 0 THEN 0 ELSE n - 1

Calling(t, k) == task[t].at \in {"call", "applied"} /\ task[t].kind = k

Tick ==
    /\ \E k \in Kinds : eff[k].lease > 0 \/ eff[k].due > 0
    /\ Prompt => \A k \in Kinds : eff[k].lease = 1 => \A t \in Tasks : ~Calling(t, k)
    /\ eff' = [k \in Kinds |-> [eff[k] EXCEPT !.lease = OneLess(@), !.due = OneLess(@)]]
    /\ UNCHANGED <<status, claimed, version, rendered, cursor, lock, task, chat, crashes>>

Work(t) ==
    \/ BeginTick(t) \/ EndEffects(t) \/ Claim(t) \/ ApplyCall(t)
    \/ BeginRender(t) \/ ApplyEdit(t)
    \/ \E success \in BOOLEAN : EndRender(t, success)
    \/ \E outcome \in {"ok", "retry", "failed", "unknown"}, dies \in BOOLEAN : Finish(t, outcome, dies)

Next == Confirm \/ ClaimShare \/ (\E t \in Tasks : Work(t)) \/ Crash \/ Tick

Spec == Init /\ [][Next]_vars

(* The worker runs every ten seconds, calls end, time passes, and an edit  *)
(* repeated for ever succeeds in the end.                                  *)
Advance(t) ==
    \/ BeginTick(t) \/ EndEffects(t) \/ Claim(t)
    \/ \E success \in BOOLEAN : EndRender(t, success)
    \/ \E outcome \in {"ok", "retry", "failed", "unknown"} : Finish(t, outcome, FALSE)

Fairness ==
    /\ WF_vars(Tick)
    /\ \A t \in Tasks : WF_vars(Advance(t))
    /\ SF_vars(\E t \in Tasks : BeginRender(t) /\ rendered < version)
    /\ SF_vars(\E t \in Tasks : ApplyEdit(t))
    /\ SF_vars(\E t \in Tasks : EndRender(t, TRUE))

FairSpec == Spec /\ Fairness

-----------------------------------------------------------------------------
TypeOK ==
    /\ status \in {"draft", "active", "exhausted"} /\ claimed \in 0 .. Shares
    /\ version \in Nat /\ rendered \in Nat \cup {-1}
    /\ eff \in [Kinds -> Effects] /\ cursor \in 0 .. Messages
    /\ lock \in Tasks \cup {Nobody} /\ task \in [Tasks -> TaskStates]
    /\ crashes \in Nat /\ face \in Nat /\ pinned \in BOOLEAN /\ log \in Seq(Nat)

(* Every message of the receipt appears once, and in order: "one           *)
(* independent public receipt" (packet_delivery.py:1).                     *)
OneReceipt == Len(log) <= Messages /\ \A i \in DOMAIN log : log[i] = i

(* The receipt and the unpin follow the final card: nobody reads the       *)
(* result while the card still offers shares.                              *)
ReceiptAfterFinalCard ==
    log # <<>> \/ eff["unpin"].state = "sent" => status = "exhausted" /\ face = version

(* A recorded version is on the card: an old edit cannot overwrite newer   *)
(* progress that was recorded (bot_packets.py:146).                        *)
RecordedIsShown == rendered <= face

(* Once the unpin is confirmed the card is not pinned, although a pin may  *)
(* still be on its way when the last share goes.                           *)
UnpinnedInTheEnd == eff["unpin"].state = "sent" => ~pinned

(* When the packet is empty, its unpin and its receipt come to an end:     *)
(* confirmed, refused, or known to be unknown.                             *)
Settled(k) == eff[k].state \in {"sent", "failed", "unknown"}
=============================================================================
