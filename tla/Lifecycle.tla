----------------------------- MODULE Lifecycle -----------------------------
(***************************************************************************)
(* The end of a membership under the level system: renewal for points      *)
(* (levels.py, bot_activity.py), the automatic renewal and the deletion of *)
(* the expired (level_lifecycle.py, member_ops.execute_delete, the         *)
(* exclusion triggers of activity_schema.py, delete_selfservice_user), and *)
(* the one notice a deletion leaves (expiry_notices.py).  The media server *)
(* answers late, loses answers, and may carry out a request whose sender   *)
(* has given up.  A unit of time is a day; a lease lasts a fraction of it. *)
(***************************************************************************)
EXTENDS Integers, FiniteSets, SequencesExt, FiniteSetsExt

CONSTANTS
  Users, Null,
  Points, Prices,          \* what everyone starts with, and prices a renewal may have
  Dates,                   \* expiries an operator may set
  Window, AutoWindow, Grace, Period,
  Requests,                \* request ids of the mini app
  ErrorsRefuse,            \* TRUE: a 5xx answer means that nothing was posted
  MaxTime, MaxIntents, MaxRenewals, MaxClaims, MaxChanges, MaxFaults

ASSUME LifecycleAssumption ==
  /\ {Points, Window, AutoWindow, Grace} \subseteq Nat /\ Period \in Nat \ {0}
  /\ AutoWindow <= Window /\ Prices \subseteq Nat \ {0} /\ Dates \subseteq Nat
  /\ {MaxTime, MaxIntents, MaxRenewals, MaxClaims, MaxChanges, MaxFaults} \subseteq Nat
  /\ ErrorsRefuse \in BOOLEAN

VARIABLES
  clock,
  member,    \* the members rows: here, expiry, status, white (the exempt group), binding
  life,      \* the activity_members rows: state, auto, token, leased
  remote,    \* accounts the media server has
  inflight,  \* accounts whose DELETE is on its way
  balance, held,
  renewals,  \* economy_receipts of activity.renew, in order
  intents,   \* activity_renew_intents: the previews the bot has shown
  price,     \* the level's price, and
  enabled,   \* delete_enabled
  job,       \* the deletion under way
  mail,      \* the deletion notice of each user in play_jobs
  claims, changes, faults
vars == <<clock, member, life, remote, inflight, balance, held, renewals, intents, price, enabled,
          job, mail, claims, changes, faults>>

Init ==
  /\ clock = 0
  /\ member \in [Users -> [here : {TRUE}, expiry : Dates, status : {"active"}, white : {FALSE}, binding : {0}]]
  /\ life = [u \in Users |-> [state |-> "ready", auto |-> FALSE, token |-> 0, leased |-> FALSE]]
  /\ remote = Users /\ inflight = {}
  /\ balance = [u \in Users |-> Points] /\ held = [u \in Users |-> 0]
  /\ renewals = <<>> /\ intents = <<>> /\ price \in Prices /\ enabled = TRUE
  /\ job = Null /\ mail = [u \in Users |-> Null]
  /\ claims = 0 /\ changes = 0 /\ faults = 0

-----------------------------------------------------------------------------
\* renew.
Later(a, b) == IF a < b THEN b ELSE a
Renewed(u, request) == \E i \in 1..Len(renewals) : renewals[i].user = u /\ renewals[i].request = request

CanRenew(u, window) ==
  /\ member[u].here /\ ~member[u].white /\ life[u].state = "ready"
  /\ member[u].expiry - clock <= window /\ balance[u] >= price

\* A request id already used is answered from its receipt and changes nothing.
Charge(u, request) ==
  /\ Len(renewals) < MaxRenewals /\ ~Renewed(u, request)
  /\ LET to == Later(clock, member[u].expiry) + Period
     IN /\ balance' = [balance EXCEPT ![u] = @ - price]
        /\ member' = [member EXCEPT ![u].expiry = to]
        /\ renewals' = Append(renewals, [user |-> u, request |-> request, cost |-> price,
                                         from |-> member[u].expiry, to |-> to])
  /\ UNCHANGED <<clock, life, remote, inflight, held, price, enabled, job, mail, claims, changes, faults>>

Renew(u, request) == CanRenew(u, Window) /\ Charge(u, request) /\ UNCHANGED intents

\* The job renews who asked for it; its request id is the expiry it renews.
AutoDue(u) == CanRenew(u, AutoWindow) /\ life[u].auto /\ member[u].status = "active"
AutoRenew(u) == AutoDue(u) /\ Charge(u, <<"auto", member[u].expiry>>) /\ UNCHANGED intents

\* The bot shows the terms and waits for a confirmation of exactly these.
Preview(u) ==
  /\ CanRenew(u, Window) /\ Len(intents) < MaxIntents
  /\ intents' = Append(intents, [user |-> u, expiry |-> member[u].expiry, price |-> price,
                                 binding |-> member[u].binding, at |-> clock, open |-> TRUE])
  /\ UNCHANGED <<clock, member, life, remote, inflight, balance, held, renewals, price, enabled, job,
                 mail, claims, changes, faults>>

Confirm(i) ==
  LET row == intents[i]
      u == row.user
  IN /\ row.open /\ row.at = clock /\ member[u].here
     /\ row.binding = member[u].binding /\ row.expiry = member[u].expiry /\ row.price = price
     /\ CanRenew(u, Window) /\ Charge(u, <<"bot", i>>)
     /\ intents' = [intents EXCEPT ![i].open = FALSE]

CancelPreview(i) ==
  /\ intents[i].open /\ intents' = [intents EXCEPT ![i].open = FALSE]
  /\ UNCHANGED <<clock, member, life, remote, inflight, balance, held, renewals, price, enabled, job,
                 mail, claims, changes, faults>>

SetAuto(u) ==
  /\ life[u].state = "ready" /\ ~life[u].auto /\ life' = [life EXCEPT ![u].auto = TRUE]
  /\ UNCHANGED <<clock, member, remote, inflight, balance, held, renewals, intents, price, enabled, job,
                 mail, claims, changes, faults>>

\* Points go into a game and come back; no spending while the account is being deleted.
Hold(u) ==
  /\ held[u] = 0 /\ balance[u] > 0 /\ life[u].state # "deleting"
  /\ balance' = [balance EXCEPT ![u] = @ - 1] /\ held' = [held EXCEPT ![u] = 1]
  /\ UNCHANGED <<clock, member, life, remote, inflight, renewals, intents, price, enabled, job, mail,
                 claims, changes, faults>>
Release(u) ==
  /\ held[u] = 1
  /\ balance' = [balance EXCEPT ![u] = @ + 1] /\ held' = [held EXCEPT ![u] = 0]
  /\ UNCHANGED <<clock, member, life, remote, inflight, renewals, intents, price, enabled, job, mail,
                 claims, changes, faults>>

-----------------------------------------------------------------------------
\* The operator edits a member, unless a deletion is pending; changes prices and switches.
Edit(u) ==
  /\ member[u].here
  /\ \/ \E d \in Dates : member' = [member EXCEPT ![u].expiry = d]
     \/ \E s \in {"active", "suspended"} : member' = [member EXCEPT ![u].status = s]
     \/ member' = [member EXCEPT ![u].white = ~@]
  /\ life[u].state # "deleting" /\ UNCHANGED <<life, price, enabled>>
Rebind(u) == member[u].here /\ member' = [member EXCEPT ![u].binding = @ + 1]
             /\ UNCHANGED <<life, price, enabled>>
Configure == /\ price' \in Prices /\ enabled' \in BOOLEAN /\ UNCHANGED <<member, life>>
\* recover: only when the account is seen to exist, and nobody works on its deletion.
Recover(u) ==
  /\ u \in remote /\ life[u].state = "deleting" /\ ~life[u].leased
  /\ life' = [life EXCEPT ![u].state = "ready", ![u].token = 0]
  /\ UNCHANGED <<member, price, enabled>>
Operate ==
  /\ changes < MaxChanges /\ changes' = changes + 1
  /\ \/ \E u \in Users : Edit(u) \/ Rebind(u) \/ Recover(u)
     \/ Configure
  /\ UNCHANGED <<clock, remote, inflight, balance, held, renewals, intents, job, mail, claims, faults>>

-----------------------------------------------------------------------------
\* The deletion.
Due(u) == /\ member[u].here /\ ~member[u].white /\ member[u].status = "active"
          /\ clock >= member[u].expiry + Grace

Claim(u) ==
  /\ job = Null /\ enabled /\ Due(u) /\ held[u] = 0 /\ ~life[u].leased /\ claims < MaxClaims
  /\ claims' = claims + 1
  /\ life' = [life EXCEPT ![u].state = "deleting", ![u].token = claims + 1, ![u].leased = TRUE]
  /\ job' = [user |-> u, token |-> claims + 1, step |-> "claimed"]
  /\ UNCHANGED <<clock, member, remote, inflight, balance, held, renewals, intents, price, enabled, mail,
                 changes, faults>>

authorizeToken == life[job.user].token = job.token
authorize == /\ life[job.user].token = job.token /\ life[job.user].state = "deleting"
             /\ Due(job.user) /\ enabled

AtStep(s) == job # Null /\ job.step = s
EndJob(state) ==
  /\ job' = Null
  /\ life' = [life EXCEPT ![job.user] = IF @.token = job.token THEN [@ EXCEPT !.leased = FALSE, !.state = state]
                                        ELSE @]

\* The account is looked up once more: gone already, or DELETE is sent.
CheckAgain ==
  /\ AtStep("claimed") /\ authorize
  /\ IF job.user \in remote
     THEN inflight' = inflight \cup {job.user} /\ job' = [job EXCEPT !.step = "posted"]
     ELSE inflight' = inflight /\ job' = [job EXCEPT !.step = "confirmed"]
  /\ UNCHANGED <<clock, member, life, remote, balance, held, renewals, intents, price, enabled, mail,
                 claims, changes, faults>>

\* Unauthorized, or the answer is lost or late: the exclusion stays, the lease goes.
GiveUp ==
  /\ \/ AtStep("claimed") /\ ~authorize /\ UNCHANGED faults
     \/ AtStep("posted") /\ faults < MaxFaults /\ faults' = faults + 1
  /\ EndJob("deleting")
  /\ UNCHANGED <<clock, member, remote, inflight, balance, held, renewals, intents, price, enabled, mail,
                 claims, changes>>

\* The media server carries a DELETE out, awaited or not.
Land(u) ==
  /\ u \in inflight /\ inflight' = inflight \ {u} /\ remote' = remote \ {u}
  /\ UNCHANGED <<clock, member, life, balance, held, renewals, intents, price, enabled, job, mail,
                 claims, changes, faults>>

\* The answer arrives: the notice is staged before anything local is removed.
Answer ==
  /\ AtStep("posted") /\ job.user \notin inflight
  /\ job' = [job EXCEPT !.step = "confirmed"]
  /\ mail' = IF mail[job.user] = Null
             THEN [mail EXCEPT ![job.user] = [state |-> "queued", posted |-> 0]] ELSE mail
  /\ UNCHANGED <<clock, member, life, remote, inflight, balance, held, renewals, intents, price, enabled,
                 claims, changes, faults>>

Forget ==
  /\ AtStep("confirmed")
  /\ member' = [member EXCEPT ![job.user].here = FALSE]
  /\ job' = [job EXCEPT !.step = "removed"]
  /\ UNCHANGED <<clock, life, remote, inflight, balance, held, renewals, intents, price, enabled, mail,
                 claims, changes, faults>>

Record ==
  /\ AtStep("removed") /\ EndJob("deleted")
  /\ UNCHANGED <<clock, member, remote, inflight, balance, held, renewals, intents, price, enabled, mail,
                 claims, changes, faults>>

-----------------------------------------------------------------------------
\* The notice: claimed under a lease, sent once; an answer that is lost is never a reason to resend.
MailIn(u, s) == mail[u] # Null /\ mail[u].state = s
SetMail(u, s, posted) == mail' = [mail EXCEPT ![u] = [state |-> s, posted |-> posted]]
Others == UNCHANGED <<clock, member, life, remote, inflight, balance, held, renewals, intents, price,
                      enabled, job, claims, changes>>
ClaimMail(u) == MailIn(u, "queued") /\ SetMail(u, "sending", mail[u].posted) /\ Others /\ UNCHANGED faults
PostMail(u) == MailIn(u, "sending") /\ SetMail(u, "posted", mail[u].posted + 1) /\ Others /\ UNCHANGED faults
FinishMail(u) == MailIn(u, "posted") /\ SetMail(u, "sent", mail[u].posted) /\ Others /\ UNCHANGED faults
\* Telegram is not reached (retry), or whether it was is not known; after a
\* 5xx the notice is queued again, posted or not (record_failure).
FailMail(u) ==
  /\ faults < MaxFaults /\ faults' = faults + 1
  /\ MailIn(u, "sending") \/ MailIn(u, "posted")
  /\ \E s \in {"queued", "unknown"} :
       /\ MailIn(u, "posted") /\ s = "queued" => ~ErrorsRefuse
       /\ SetMail(u, s, mail[u].posted)
  /\ Others

\* The process stops: the job is gone, what it wrote stays; a claimed notice is found unknown.
Crash ==
  /\ faults < MaxFaults /\ faults' = faults + 1 /\ job' = Null
  /\ mail' = [u \in Users |-> IF MailIn(u, "sending") \/ MailIn(u, "posted")
                              THEN [mail[u] EXCEPT !.state = "unknown"] ELSE mail[u]]
  /\ UNCHANGED <<clock, member, life, remote, inflight, balance, held, renewals, intents, price, enabled,
                 claims, changes>>

\* A lease outlives every step of a deletion, and no crash by a day.
Lapse ==
  /\ job = Null /\ \E u \in Users : life[u].leased
  /\ life' = [u \in Users |-> [life[u] EXCEPT !.leased = FALSE]]
  /\ UNCHANGED <<clock, member, remote, inflight, balance, held, renewals, intents, price, enabled, job,
                 mail, claims, changes, faults>>
Tick ==
  /\ clock < MaxTime /\ clock' = clock + 1
  /\ UNCHANGED <<member, life, remote, inflight, balance, held, renewals, intents, price, enabled, job,
                 mail, claims, changes, faults>>

DeleteStep == CheckAgain \/ GiveUp \/ Answer \/ Forget \/ Record
Next ==
  \/ \E u \in Users :
       \/ \E q \in Requests : Renew(u, <<"app", q>>)
       \/ AutoRenew(u) \/ Preview(u) \/ SetAuto(u) \/ Hold(u) \/ Release(u)
       \/ Claim(u) \/ Land(u)
       \/ ClaimMail(u) \/ PostMail(u) \/ FinishMail(u) \/ FailMail(u)
  \/ \E i \in 1..Len(intents) : Confirm(i) \/ CancelPreview(i)
  \/ Operate \/ DeleteStep \/ Crash \/ Lapse \/ Tick

Spec == Init /\ [][Next]_vars

\* The plugin runs every minute, the media server answers or the call times out.
FairSpec ==
  /\ Spec
  /\ WF_vars(DeleteStep) /\ WF_vars(Lapse) /\ WF_vars(Tick)
  /\ \A u \in Users : WF_vars(Claim(u)) /\ WF_vars(Land(u)) /\ WF_vars(Release(u)) /\ WF_vars(AutoRenew(u))

-----------------------------------------------------------------------------
(* A deletion is asked for only of an account long past its expiry, not     *)
(* exempt and with nothing in a game, and a membership ends only when the   *)
(* media server no longer has the account: renewals, edits and stakes that  *)
(* race the timer either come first and stop it, or are refused.            *)
DeletedOnlyWhenDue ==
  [][\A u \in Users :
       /\ u \in inflight' \ inflight => Due(u) /\ held[u] = 0 /\ enabled
       /\ member[u].here /\ ~member[u].here' => Due(u) /\ held[u] = 0 /\ u \notin remote]_vars

(* Points leave an account by renewals alone.                              *)
PointsKept ==
  \A u \in Users :
     balance[u] + held[u] + MapThenSumSet(LAMBDA i : renewals[i].cost,
                                {i \in 1..Len(renewals) : renewals[i].user = u}) = Points

(* A request, retried or sent twice, renews once: of the mini app, of the   *)
(* bot's preview, or of the automatic renewal of one expiry.                *)
RenewedOnce ==
  \A i, j \in 1..Len(renewals) :
     renewals[i].user = renewals[j].user /\ renewals[i].request = renewals[j].request => i = j

(* A renewal is for a whole period, and one confirmed in the bot is at the  *)
(* price and from the expiry shown, whatever was changed in between.        *)
TermsHonoured ==
  \A i \in 1..Len(renewals) :
     /\ renewals[i].to >= renewals[i].from + Period
     /\ \A k \in 1..Len(intents) : renewals[i].request = <<"bot", k>> =>
          /\ renewals[i].user = intents[k].user /\ ~intents[k].open
          /\ renewals[i].cost = intents[k].price /\ renewals[i].from = intents[k].expiry

RenewalsExact == PointsKept /\ RenewedOnce /\ TermsHonoured

(* The group hears of a deletion only when it has happened and, provided    *)
(* that a 5xx answer means that nothing was posted, at most once.           *)
ToldOnce == \A u \in Users : mail[u] # Null => mail[u].posted <= 1 /\ u \notin remote

(* A member who keeps the automatic renewal on, can pay and is not disabled *)
(* is renewed, unless this expiry was renewed before: then the receipt      *)
(* stands in the way (an operator has set the same expiry again).           *)
AutoOwed(u) == AutoDue(u) /\ ~Renewed(u, <<"auto", member[u].expiry>>) /\ Len(renewals) < MaxRenewals
=============================================================================
