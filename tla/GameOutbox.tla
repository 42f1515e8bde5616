----------------------------- MODULE GameOutbox -----------------------------
(***************************************************************************)
(* One row of gc_outbox: the card that recruits players for a table of the *)
(* game centre in one group (backend/app/modules/game_center_delivery.py). *)
(* The table saves what the card should show, or that it should go; the    *)
(* outbox loop claims the row under a lease, calls Telegram and reports.   *)
(* Unlike a round of RoundCards the row cannot learn its message from a    *)
(* click, so it never repeats a send that may have succeeded: an HTTP 5xx  *)
(* is no refusal here.                                                     *)
(***************************************************************************)
EXTENDS Integers, Sequences

CONSTANTS
    Workers,    \* runs of deliver(); more than one while a restart overlaps
    Tokens,     \* lease tokens (secrets.token_hex)
    NoToken,    \* lease_token = ''
    Lease,      \* duration of a lease, in ticks (90 s)
    Delay,      \* the delay before a failed call is retried (at least 10 s)
    MaxRev      \* bound: how often the table changes its card

ASSUME OutboxAssumption ==
    /\ NoToken \notin Tokens /\ Lease \in Nat \ {0}
    /\ Delay \in Nat /\ MaxRev \in Nat

VARIABLES
    revision,   \* gc_outbox.revision
    rendered,   \* rendered_revision
    desired,    \* "live" or "delete"
    state,      \* "pending", "sending", "sent", "unknown" or "deleted"
    card,       \* message_id, 0 for NULL
    token,      \* lease_token
    lease,      \* lease_until - now, 0 once it has ended
    due,        \* due_at - now, 0 once due
    job,        \* the call each worker is making
    posted,     \* the group: posted[m] is the revision that message m shows
    gone,       \* the messages that have been deleted
    pace        \* history: "late" once a job has outlived its lease (three calls of 20 s, 90 s)

row  == <<revision, rendered, desired, state, card, token, lease, due>>
chat == <<posted, gone>>
vars == <<row, job, chat, pace>>

Ops    == {"send", "edit", "delete"}
States == {"pending", "sending", "sent", "unknown", "deleted"}
Jobs   == [phase : {"idle", "claimed", "calling", "applied"}, op : Ops,
           token : Tokens \cup {NoToken}, rev : Nat, card : Nat]
NoJob  == [phase |-> "idle", op |-> "send", token |-> NoToken, rev |-> 0, card |-> 0]
Outcomes == {"ok", "retry", "server", "failed", "unknown"}

Init ==
    /\ revision = 0 /\ rendered = -1 /\ desired = "live"
    /\ state = "pending" /\ card = 0 /\ token = NoToken /\ lease = 0 /\ due = 0
    /\ job = [w \in Workers |-> NoJob]
    /\ posted = <<>> /\ gone = {} /\ pace = "prompt"

-----------------------------------------------------------------------------
(* _save: the table has changed.  Once a hand was dealt or the table was   *)
(* closed the card must go, and that is never taken back.                  *)
Save(d) ==
    /\ revision < MaxRev
    /\ state \notin {"deleted", "unknown"}
    /\ desired = "delete" => d = "delete"
    /\ revision' = revision + 1 /\ desired' = d
    /\ UNCHANGED <<rendered, state, card, token, lease, due, job, chat, pace>>

\* Mutants: a lost send is taken up again; it is left alone.
LapsedResends == state' = "pending"
LapsedIgnored == state' = "sending"

\* A crash could have occurred after Telegram accepted sendMessage.
LapsedState == state' = "unknown"

Lapse ==
    /\ state = "sending" /\ card = 0 /\ lease = 0
    /\ LapsedState
    /\ token' = NoToken
    /\ UNCHANGED <<revision, rendered, desired, card, lease, due, job, chat, pace>>

Claimable ==
    /\ state \notin {"unknown", "deleted", "sending"}
    /\ due = 0 /\ lease = 0
    /\ revision > rendered \/ desired = "delete"

\* A card that was never posted needs no deletion.
Drop ==
    /\ Claimable /\ desired = "delete" /\ card = 0
    /\ state' = "deleted" /\ rendered' = revision
    /\ UNCHANGED <<revision, desired, card, token, lease, due, job, chat, pace>>

OpFor == IF desired = "delete" THEN "delete" ELSE IF card # 0 THEN "edit" ELSE "send"

Take(w) ==
    /\ Claimable /\ (desired = "delete" => card # 0)
    /\ \E t \in Tokens \ ({token} \cup {job[v].token : v \in Workers}) :
          /\ token' = t
          /\ job' = [job EXCEPT ![w] = [phase |-> "claimed", op |-> OpFor, token |-> t,
                                        rev |-> revision, card |-> card]]
    /\ state' = IF OpFor = "send" THEN "sending" ELSE "sent"
    /\ lease' = Lease
    /\ UNCHANGED <<revision, rendered, desired, card, due, chat, pace>>

(* claim: one transaction, which ends in one of three ways for this row.   *)
Claim(w) == job[w] = NoJob /\ (Lapse \/ Drop \/ Take(w))

(* deliver goes on to the call, once getChat and getMe have been answered. *)
Enter(w) ==
    /\ job[w].phase = "claimed"
    /\ job' = [job EXCEPT ![w] = [phase |-> "calling", op |-> @.op, token |-> @.token,
                                  rev |-> @.rev, card |-> @.card]]
    /\ UNCHANGED <<row, chat, pace>>

(* Telegram carries out the request; a deleted message stays deleted.      *)
Apply(w) ==
    /\ job[w].phase = "calling"
    /\ \/ job[w].op = "send" /\ posted' = Append(posted, job[w].rev) /\ UNCHANGED gone
       \/ /\ job[w].op = "edit" /\ job[w].card \notin gone
          /\ posted' = [posted EXCEPT ![job[w].card] = job[w].rev] /\ UNCHANGED gone
       \/ job[w].op = "delete" /\ gone' = gone \cup {job[w].card} /\ UNCHANGED posted
    /\ job' = [job EXCEPT ![w] = [phase |-> "applied", op |-> @.op, token |-> @.token, rev |-> @.rev,
                                  card |-> IF @.op = "send" THEN Len(posted) + 1 ELSE @.card]]
    /\ UNCHANGED <<row, pace>>

(* What the call may report.  "server" is a 5xx, with which Telegram may   *)
(* have accepted the request; before the call deliver itself reports       *)
(* "retry" for a group it may not post in, unless it comes to clean up.    *)
MayReport(w, outcome) ==
    \/ job[w].phase = "applied" /\ outcome \in {"ok", "server", "unknown"}
    \/ job[w].phase = "calling" /\ outcome \in {"retry", "server", "failed", "unknown"}
    \/ job[w].phase = "claimed" /\ job[w].op # "delete" /\ outcome = "retry"

\* Mutant: a 5xx is taken for a refusal.
ServerErrorRefuses(outcome) == outcome = "unknown"

Uncertain(outcome) == outcome \in {"unknown", "server"}

Confirmed(w) ==
    /\ state' = IF job[w].op = "delete" THEN "deleted" ELSE "sent"
    /\ card' = IF job[w].op = "delete" THEN card ELSE job[w].card
    /\ rendered' = IF rendered > job[w].rev THEN rendered ELSE job[w].rev
    /\ due' = 0

Failed(w, outcome) ==
    /\ state' = IF job[w].op # "send" THEN "sent"
                ELSE IF Uncertain(outcome) THEN "unknown" ELSE "pending"
    /\ due' = Delay
    /\ UNCHANGED <<card, rendered>>

HoldsLease(w) == token = job[w].token

(* done. *)
Done(w, outcome) ==
    /\ job[w].phase # "idle" /\ MayReport(w, outcome)
    /\ IF HoldsLease(w)
       THEN /\ IF outcome = "ok" THEN Confirmed(w) ELSE Failed(w, outcome)
            /\ token' = NoToken /\ lease' = 0
       ELSE UNCHANGED <<state, card, rendered, due, token, lease>>
    /\ job' = [job EXCEPT ![w] = NoJob]
    /\ UNCHANGED <<revision, desired, chat, pace>>

Crash(w) ==
    /\ job[w].phase # "idle"
    /\ job' = [job EXCEPT ![w] = NoJob]
    /\ UNCHANGED <<row, chat, pace>>

OneLess(n) == IF n = 0 THEN 0 ELSE n - 1

Tick ==
    /\ lease > 0 \/ due > 0
    /\ lease' = OneLess(lease) /\ due' = OneLess(due)
    /\ pace' = IF lease = 1 /\ (\E w \in Workers : job[w].phase # "idle") THEN "late" ELSE pace
    /\ UNCHANGED <<revision, rendered, desired, state, card, token, job, chat>>

Next ==
    \/ \E d \in {"live", "delete"} : Save(d)
    \/ \E w \in Workers : Claim(w) \/ Enter(w) \/ Apply(w) \/ Crash(w)
    \/ \E w \in Workers, outcome \in Outcomes : Done(w, outcome)
    \/ Tick

Spec == Init /\ [][Next]_vars

(* run() calls deliver() every second for ever, a call returns, time       *)
(* passes, and a deletion that is repeated for ever is answered in the end.*)
Fairness ==
    /\ WF_vars(Tick)
    /\ WF_vars(\E w \in Workers : Claim(w))
    /\ \A w \in Workers :
          /\ WF_vars(\E outcome \in Outcomes : Done(w, outcome))
          /\ SF_vars(Enter(w)) /\ SF_vars(Apply(w)) /\ SF_vars(Done(w, "ok"))

FairSpec == Spec /\ Fairness

-----------------------------------------------------------------------------
TypeOK ==
    /\ revision \in Nat /\ rendered \in Nat \cup {-1} /\ desired \in {"live", "delete"}
    /\ state \in States /\ card \in Nat /\ token \in Tokens \cup {NoToken}
    /\ lease \in Nat /\ due \in Nat /\ job \in [Workers -> Jobs]
    /\ posted \in Seq(Nat) /\ gone \in SUBSET Nat /\ pace \in {"prompt", "late"}

(* When the row says that its card is deleted, no card is left in the      *)
(* group: neither one whose sending was interrupted or refused by a 5xx    *)
(* nor one that a slow worker posts afterwards.                            *)
DeletedIsGone ==
    state = "deleted" =>
        /\ DOMAIN posted \subseteq gone
        /\ \A w \in Workers : ~(job[w].phase \in {"claimed", "calling"} /\ job[w].op = "send")

(* At most one card, and the row is only ever bound to it: "Unknown        *)
(* initial sends are never blindly repeated" (game_center_delivery.py:1).  *)
Abstract == INSTANCE CardPost WITH posts <- Len(posted), bound <- card
ImplementsCardPost == Abstract!Spec
=============================================================================
