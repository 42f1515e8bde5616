-------------------------- MODULE LifecycleProofs --------------------------
(***************************************************************************)
(* Whom the deletion may touch, for any members, terms and dates, and      *)
(* however renewals, edits, stakes, late answers, crashes and leases that  *)
(* lapse fall together.                                                    *)
(*                                                                         *)
(* From the claim on the member is excluded: his state is "deleting" under *)
(* the job's token and lease (Excluded), so that nobody renews, edits or   *)
(* stakes.  What authorize has seen before DELETE is sent is therefore     *)
(* still so when the answer comes (Authorized).  An answer comes only after *)
(* the media server has carried the request out (Answered), and the notice *)
(* is staged after it and posted once (Notices).                           *)
(*                                                                         *)
(* The next part is about renewals: a recorded one bought what its terms   *)
(* had shown, and at most one was bought for each (RenewInv).  Another is  *)
(* about the cases that a deletion opens for the member's inviter: of any  *)
(* number of administrators who decide one at once a single one proceeds,  *)
(* and what was settled stays so (CasesInv).  Then comes the rule that     *)
(* deletes who leaves a group: a row goes only after its account, and news *)
(* of a chat is never overwritten by older news (MemberInv).  The last     *)
(* part is about the jobs that write to members: nobody is told twice, and *)
(* a grace is kept (JobInv).                                               *)
(***************************************************************************)
EXTENDS Lifecycle, SequenceTheorems, TLAPS

Members == [here : BOOLEAN, expiry : Int, status : {"active", "suspended"}, white : BOOLEAN, binding : Nat]
Lives == [state : {"ready", "deleting", "deleted"}, auto : BOOLEAN, token : Nat, leased : BOOLEAN]
Works == [user : Users, token : Nat, step : {"claimed", "posted", "confirmed", "removed"}]
Mails == [state : {"queued", "sending", "posted", "sent", "unknown"}, posted : Nat]

Columns ==
  /\ clock \in Nat /\ price \in Nat /\ claims \in Nat
  /\ member \in [Users -> Members] /\ life \in [Users -> Lives]
  /\ balance \in [Users -> Int] /\ held \in [Users -> Nat]
  /\ job # Null => job \in Works

Excluded == job # Null =>
  /\ life[job.user].state = "deleting" /\ life[job.user].leased /\ life[job.user].token = job.token
  /\ held[job.user] = 0

Authorized == job # Null /\ job.step \in {"posted", "confirmed"} => Due(job.user)

Answered == job # Null =>
  /\ job.step = "posted" => job.user \in inflight \/ job.user \notin remote
  /\ job.step \in {"confirmed", "removed"} => job.user \notin remote

DeletionInv == Columns /\ Excluded /\ Authorized /\ Answered

Notices ==
  /\ mail = [u \in Users |-> mail[u]]
  /\ \A u \in Users : mail[u] # Null =>
       /\ mail[u] \in Mails /\ u \notin remote /\ mail[u].posted <= 1
       /\ mail[u].state \in {"queued", "sending"} => mail[u].posted = 0

-----------------------------------------------------------------------------
LEMMA NobodyClaimed == Init => DeletionInv
<1> SUFFICES ASSUME Init PROVE DeletionInv
  OBVIOUS
<1>1. member \in [Users -> Members]
  <2> DEFINE First == [here : {TRUE}, expiry : Dates, status : {"active"}, white : {FALSE}, binding : {0}]
  <2>1. ASSUME NEW m \in First PROVE m \in Members
    <3>1. /\ m = [here |-> m.here, expiry |-> m.expiry, status |-> m.status, white |-> m.white, binding |-> m.binding]
          /\ m.here \in {TRUE} /\ m.white \in {FALSE}
      BY Zenon
    <3>2. m.expiry \in Dates /\ m.status \in {"active"} /\ m.binding \in {0}
      BY Zenon
    <3> HIDE DEF First
    <3>3. m.here \in BOOLEAN /\ m.white \in BOOLEAN
      BY <3>1, Zenon
    <3>4. Dates \subseteq Int
      BY LifecycleAssumption
    <3>5. m.expiry \in Int
      BY <3>2, <3>4
    <3>6. m.status \in {"active", "suspended"}
      BY <3>2
    <3>7. m.binding \in Nat
      BY <3>2
    <3>8. QED
      BY <3>1, <3>3, <3>5, <3>6, <3>7, Zenon DEF Members
  <2>2. member \in [Users -> First]
    BY DEF Init
  <2> HIDE DEF First
  <2>3. QED
    BY <2>1, <2>2
<1>2. life \in [Users -> Lives] /\ balance \in [Users -> Int] /\ held \in [Users -> Nat]
  BY LifecycleAssumption DEF Init, Lives
<1>3. clock \in Nat /\ price \in Nat /\ claims \in Nat /\ job = Null
  BY LifecycleAssumption DEF Init
<1>4. QED
  BY <1>1, <1>2, <1>3 DEF DeletionInv, Columns, Excluded, Authorized, Answered

(* The member a job works on is not touched by a step about another.       *)
LEMMA ElsewhereStep ==
  ASSUME DeletionInv, Columns', NEW u \in Users, job # Null => u # job.user,
         \A v \in Users \ {u} : member'[v] = member[v] /\ life'[v] = life[v] /\ held'[v] = held[v],
         UNCHANGED <<clock, remote, inflight, job>>
  PROVE  DeletionInv'
<1>1. job # Null => job.user \in Users \ {u}
  BY DEF DeletionInv, Columns, Works
<1>2. QED
  BY <1>1 DEF DeletionInv, Excluded, Authorized, Answered, Due

(* What is written in one column of a row leaves the others.               *)
LEMMA MemberWritten ==
  ASSUME NEW m \in Members, NEW e \in Int, NEW s \in {"active", "suspended"}, NEW b \in BOOLEAN, NEW n \in Nat
  PROVE  /\ [m EXCEPT !.expiry = e] \in Members /\ [m EXCEPT !.status = s] \in Members
         /\ [m EXCEPT !.white = b] \in Members /\ [m EXCEPT !.here = b] \in Members
         /\ [m EXCEPT !.binding = n] \in Members
         /\ [m EXCEPT !.binding = n].here = m.here /\ [m EXCEPT !.binding = n].white = m.white
         /\ [m EXCEPT !.binding = n].status = m.status /\ [m EXCEPT !.binding = n].expiry = m.expiry
BY DEF Members

LEMMA LifeWritten ==
  ASSUME NEW l \in Lives, NEW s \in {"ready", "deleting", "deleted"}, NEW t \in Nat, NEW b \in BOOLEAN
  PROVE  /\ [l EXCEPT !.auto = b] \in Lives /\ [l EXCEPT !.leased = b] \in Lives
         /\ [l EXCEPT !.state = s, !.token = t] \in Lives
         /\ [l EXCEPT !.leased = b, !.state = s] \in Lives
         /\ [l EXCEPT !.state = s, !.token = t, !.leased = b] \in Lives
BY DEF Lives

LEMMA RowTypes ==
  ASSUME DeletionInv, NEW u \in Users
  PROVE  member[u] \in Members /\ life[u] \in Lives /\ balance[u] \in Int /\ held[u] \in Nat
BY DEF DeletionInv, Columns

-----------------------------------------------------------------------------
(* Renewals and edits find the state they need, so never that of a member  *)
(* whose deletion is under way.                                            *)
LEMMA ChargeStep ==
  ASSUME DeletionInv, NEW u \in Users, NEW window, NEW q, CanRenew(u, window), Charge(u, q)
  PROVE  DeletionInv'
<1> DEFINE to == Later(clock, member[u].expiry) + Period
           m == [member[u] EXCEPT !.expiry = to]
<1>1. job # Null => u # job.user
  BY DEF CanRenew, DeletionInv, Excluded
<1>2. /\ member' = [member EXCEPT ![u] = m] /\ balance' = [balance EXCEPT ![u] = balance[u] - price]
      /\ UNCHANGED <<clock, life, remote, inflight, held, price, claims, job>>
  BY DEF Charge
<1>3. m \in Members /\ balance[u] - price \in Int
  <2>1. member[u].expiry \in Int /\ clock \in Nat /\ price \in Nat /\ Period \in Nat
    BY RowTypes, LifecycleAssumption DEF Members, DeletionInv, Columns
  <2>2. to \in Int
    BY <2>1 DEF Later
  <2> HIDE DEF to
  <2>3. m \in Members
    BY <2>2, RowTypes, MemberWritten
  <2>4. QED
    BY <2>1, <2>3, RowTypes
<1> HIDE DEF m
<1>4. Columns'
  BY <1>2, <1>3 DEF DeletionInv, Columns
<1>5. QED
  BY <1>1, <1>2, <1>4, ElsewhereStep DEF DeletionInv, Columns

LEMMA StakeStep ==
  ASSUME DeletionInv, NEW u \in Users, Hold(u) \/ Release(u)
  PROVE  DeletionInv'
<1>1. job # Null => u # job.user
  BY DEF Hold, Release, DeletionInv, Excluded
<1>2. PICK b \in Int, h \in Nat :
        /\ balance' = [balance EXCEPT ![u] = b] /\ held' = [held EXCEPT ![u] = h]
        /\ UNCHANGED <<clock, member, life, remote, inflight, price, claims, job>>
  <2>1. balance[u] - 1 \in Int /\ balance[u] + 1 \in Int
    BY RowTypes
  <2>2. QED
    BY <2>1 DEF Hold, Release
<1>3. Columns'
  BY <1>2 DEF DeletionInv, Columns
<1>4. QED
  BY <1>1, <1>2, <1>3, ElsewhereStep DEF DeletionInv, Columns

LEMMA EditStep ==
  ASSUME DeletionInv, NEW u \in Users, Edit(u),
         UNCHANGED <<clock, remote, inflight, balance, held, job, claims>>
  PROVE  DeletionInv'
<1>1. job # Null => u # job.user
  BY DEF Edit, DeletionInv, Excluded
<1>2. PICK m \in Members : member' = [member EXCEPT ![u] = m]
  <2>1. ASSUME NEW d \in Dates, member' = [member EXCEPT ![u].expiry = d]
        PROVE \E m \in Members : member' = [member EXCEPT ![u] = m]
    <3>1. d \in Int
      BY LifecycleAssumption
    <3>2. [member[u] EXCEPT !.expiry = d] \in Members
      BY <3>1, RowTypes, MemberWritten
    <3>3. QED
      BY <2>1, <3>2
  <2>2. ASSUME NEW s \in {"active", "suspended"}, member' = [member EXCEPT ![u].status = s]
        PROVE \E m \in Members : member' = [member EXCEPT ![u] = m]
    BY <2>2, RowTypes, MemberWritten
  <2>3. ASSUME member' = [member EXCEPT ![u].white = ~@]
        PROVE \E m \in Members : member' = [member EXCEPT ![u] = m]
    BY <2>3, RowTypes, MemberWritten
  <2>4. QED
    BY <2>1, <2>2, <2>3 DEF Edit
<1>3. UNCHANGED <<life, price>>
  BY DEF Edit
<1>4. Columns'
  BY <1>2, <1>3 DEF DeletionInv, Columns
<1>5. QED
  BY <1>1, <1>2, <1>3, <1>4, ElsewhereStep DEF DeletionInv, Columns

(* A new chat identity changes nothing the deletion looks at.               *)
LEMMA RebindStep ==
  ASSUME DeletionInv, NEW u \in Users, Rebind(u),
         UNCHANGED <<clock, remote, inflight, balance, held, job, claims>>
  PROVE  DeletionInv'
<1> DEFINE m == [member[u] EXCEPT !.binding = member[u].binding + 1]
<1>1. member' = [member EXCEPT ![u] = m] /\ UNCHANGED <<life, price>>
  BY DEF Rebind
<1>2. /\ m \in Members /\ m.here = member[u].here /\ m.white = member[u].white
      /\ m.status = member[u].status /\ m.expiry = member[u].expiry
  <2>1. member[u].binding + 1 \in Nat
    BY RowTypes DEF Members
  <2>2. QED
    BY <2>1, RowTypes, MemberWritten
<1> HIDE DEF m
<1>3. Columns'
  BY <1>1, <1>2 DEF DeletionInv, Columns
<1>4. \A v \in Users : Due(v) => Due(v)'
  BY <1>1, <1>2 DEF Due, DeletionInv, Columns
<1>5. job # Null => job.user \in Users
  BY DEF DeletionInv, Columns, Works
<1>6. QED
  BY <1>1, <1>3, <1>4, <1>5 DEF DeletionInv, Excluded, Authorized, Answered

(* The operator takes an account back only when nobody works on it.         *)
LEMMA LifeStep ==
  ASSUME DeletionInv, NEW u \in Users, Recover(u) \/ SetAuto(u),
         UNCHANGED <<clock, remote, inflight, balance, held, job, claims, price>>
  PROVE  DeletionInv'
<1>1. job # Null => u # job.user
  BY DEF Recover, SetAuto, DeletionInv, Excluded
<1>2. PICK l \in Lives : life' = [life EXCEPT ![u] = l] /\ UNCHANGED member
  <2>1. CASE Recover(u)
    <3>1. [life[u] EXCEPT !.state = "ready", !.token = 0] \in Lives
      BY RowTypes, LifeWritten
    <3>2. life' = [life EXCEPT ![u] = [life[u] EXCEPT !.state = "ready", !.token = 0]] /\ UNCHANGED member
      BY <2>1 DEF Recover, DeletionInv, Columns
    <3>3. QED
      BY <3>1, <3>2
  <2>2. CASE SetAuto(u)
    BY <2>2, RowTypes, LifeWritten DEF SetAuto
  <2>3. QED
    BY <2>1, <2>2
<1>3. Columns'
  BY <1>2 DEF DeletionInv, Columns
<1>4. QED
  BY <1>1, <1>2, <1>3, ElsewhereStep DEF DeletionInv, Columns

-----------------------------------------------------------------------------
(* The steps of the deletion.                                              *)
LEMMA ClaimStep == ASSUME DeletionInv, NEW u \in Users, Claim(u) PROVE DeletionInv'
<1> DEFINE l == [life[u] EXCEPT !.state = "deleting", !.token = claims + 1, !.leased = TRUE]
<1>1. /\ life' = [life EXCEPT ![u] = l] /\ claims' = claims + 1 /\ held[u] = 0
      /\ job' = [user |-> u, token |-> claims + 1, step |-> "claimed"]
      /\ UNCHANGED <<clock, member, remote, inflight, balance, held, price>>
  BY DEF Claim
<1>2. claims + 1 \in Nat
  BY DEF DeletionInv, Columns
<1>3. l \in Lives /\ l.state = "deleting" /\ l.token = claims + 1 /\ l.leased
  <2>1. l \in Lives
    BY <1>2, RowTypes, LifeWritten
  <2>2. life[u] \in Lives
    BY RowTypes
  <2>3. l.state = "deleting" /\ l.token = claims + 1
    BY <2>2 DEF Lives
  <2>4. l.leased = TRUE
    BY <2>2 DEF Lives
  <2>5. QED
    BY <2>1, <2>3, <2>4
<1> HIDE DEF l
<1>4. Columns'
  BY <1>1, <1>2, <1>3 DEF DeletionInv, Columns, Works
<1>5. life'[u] = l
  BY <1>1 DEF DeletionInv, Columns
<1>6. job'.user = u /\ job'.token = claims + 1 /\ job'.step = "claimed"
  BY <1>1
<1>7. QED
  BY <1>1, <1>3, <1>4, <1>5, <1>6 DEF DeletionInv, Excluded, Authorized, Answered

(* DELETE is sent only if all of authorize still holds.                     *)
LEMMA CheckStep == ASSUME DeletionInv, CheckAgain PROVE DeletionInv'
<1>1. /\ job \in Works /\ Due(job.user)
      /\ UNCHANGED <<clock, member, life, remote, balance, held, price, claims>>
  BY DEF CheckAgain, AtStep, authorize, DeletionInv, Columns
<1>2. \/ job.user \in remote /\ job.user \in inflight' /\ job' = [job EXCEPT !.step = "posted"]
      \/ job.user \notin remote /\ job' = [job EXCEPT !.step = "confirmed"]
  BY DEF CheckAgain
<1>3. job' \in Works /\ job'.user = job.user /\ job'.token = job.token
  BY <1>1, <1>2 DEF Works
<1>4. \/ job'.step = "posted" /\ job.user \in inflight'
      \/ job'.step = "confirmed" /\ job.user \notin remote
  BY <1>1, <1>2 DEF Works
<1>5. job # Null
  BY DEF CheckAgain, AtStep
<1>6. Columns' /\ Excluded'
  BY <1>1, <1>3, <1>5 DEF DeletionInv, Columns, Excluded
<1>7. Authorized' /\ Answered'
  BY <1>1, <1>3, <1>4 DEF Authorized, Answered, Due
<1>8. QED
  BY <1>6, <1>7 DEF DeletionInv

(* The job ends, in whatever state it leaves the row.                       *)
LEMMA EndStep ==
  ASSUME DeletionInv, NEW s \in {"deleting", "deleted"}, job # Null, EndJob(s),
         UNCHANGED <<clock, member, balance, held, price, claims>>
  PROVE  DeletionInv'
<1> DEFINE u == job.user
<1>1. u \in Users /\ job' = Null
  BY DEF EndJob, DeletionInv, Columns, Works
<1>2. PICK l \in Lives : life' = [life EXCEPT ![u] = l]
  <2>1. [life[u] EXCEPT !.leased = FALSE, !.state = s] \in Lives /\ life[u] \in Lives
    BY <1>1, RowTypes, LifeWritten
  <2>2. QED
    BY <2>1 DEF EndJob
<1>3. Columns'
  BY <1>1, <1>2 DEF DeletionInv, Columns
<1>4. QED
  BY <1>1, <1>3 DEF DeletionInv, Excluded, Authorized, Answered

(* What the media server has carried out it no longer has.                  *)
LEMMA LandStep == ASSUME DeletionInv, NEW u \in Users, Land(u) PROVE DeletionInv'
BY DEF Land, DeletionInv, Columns, Excluded, Authorized, Answered, Due

LEMMA AnswerStep == ASSUME DeletionInv, Answer PROVE DeletionInv'
<1>1. /\ job \in Works /\ job # Null /\ job.step = "posted" /\ job.user \notin inflight
      /\ UNCHANGED <<clock, member, life, remote, inflight, balance, held, price, claims>>
  BY DEF Answer, AtStep, DeletionInv, Columns
<1>2. job' \in Works /\ job'.user = job.user /\ job'.token = job.token /\ job'.step = "confirmed"
  BY <1>1 DEF Answer, Works
<1>3. QED
  BY <1>1, <1>2 DEF DeletionInv, Columns, Excluded, Authorized, Answered, Due

LEMMA ForgetStep == ASSUME DeletionInv, Forget PROVE DeletionInv'
<1>1. /\ job \in Works /\ job # Null /\ job.step = "confirmed"
      /\ UNCHANGED <<clock, life, remote, inflight, balance, held, price, claims>>
  BY DEF Forget, AtStep, DeletionInv, Columns
<1>2. job' \in Works /\ job'.user = job.user /\ job'.token = job.token /\ job'.step = "removed"
  BY <1>1 DEF Forget, Works
<1>3. member' \in [Users -> Members]
  <2>1. job.user \in Users /\ [member[job.user] EXCEPT !.here = FALSE] \in Members
    BY <1>1, RowTypes, MemberWritten DEF Works
  <2>2. QED
    BY <2>1 DEF Forget, DeletionInv, Columns
<1>4. QED
  BY <1>1, <1>2, <1>3 DEF DeletionInv, Columns, Excluded, Authorized, Answered

LEMMA DeleteStepOK == ASSUME DeletionInv, DeleteStep PROVE DeletionInv'
<1>1. CASE GiveUp
  <2>1. job # Null /\ EndJob("deleting") /\ UNCHANGED <<clock, member, balance, held, price, claims>>
    BY <1>1 DEF GiveUp, AtStep
  <2>2. QED
    BY <2>1, EndStep
<1>2. CASE Record
  <2>1. job # Null /\ EndJob("deleted") /\ UNCHANGED <<clock, member, balance, held, price, claims>>
    BY <1>2 DEF Record, AtStep
  <2>2. QED
    BY <2>1, EndStep
<1>3. QED
  BY <1>1, <1>2, CheckStep, AnswerStep, ForgetStep DEF DeleteStep

-----------------------------------------------------------------------------
facts == <<clock, price, claims, member, life, balance, held, remote, inflight, job>>

(* Previews and notices touch none of it.                                  *)
LEMMA DeletionFrame == DeletionInv /\ UNCHANGED facts => DeletionInv'
BY DEF facts, DeletionInv, Columns, Excluded, Authorized, Answered, Due

LEMMA CrashStep == ASSUME DeletionInv, Crash PROVE DeletionInv'
BY DEF Crash, DeletionInv, Columns, Excluded, Authorized, Answered

(* Leases lapse when nobody works.                                         *)
LEMMA LapseStep == ASSUME DeletionInv, Lapse PROVE DeletionInv'
<1>1. /\ job' = Null /\ life' = [u \in Users |-> [life[u] EXCEPT !.leased = FALSE]]
      /\ UNCHANGED <<clock, price, claims, member, balance, held>>
  BY DEF Lapse
<1>2. \A u \in Users : [life[u] EXCEPT !.leased = FALSE] \in Lives
  BY RowTypes, LifeWritten
<1>3. Columns'
  BY <1>1, <1>2 DEF DeletionInv, Columns
<1>4. QED
  BY <1>1, <1>3 DEF DeletionInv, Excluded, Authorized, Answered

(* What was due stays due.                                                 *)
LEMMA TickStep == ASSUME DeletionInv, Tick PROVE DeletionInv'
<1>1. clock \in Nat /\ clock' = clock + 1 /\ UNCHANGED <<price, claims, member, life, balance, held, remote, inflight, job>>
  BY DEF Tick, DeletionInv, Columns
<1>2. Grace \in Nat /\ \A u \in Users : member[u].expiry \in Int
  BY RowTypes, LifecycleAssumption DEF Members
<1>3. \A u \in Users : Due(u) => Due(u)'
  BY <1>1, <1>2 DEF Due
<1>4. job # Null => job.user \in Users
  BY DEF DeletionInv, Columns, Works
<1>5. QED
  BY <1>1, <1>3, <1>4 DEF DeletionInv, Columns, Excluded, Authorized, Answered

LEMMA OperateStep == ASSUME DeletionInv, Operate PROVE DeletionInv'
<1>1. UNCHANGED <<clock, remote, inflight, balance, held, job, claims>>
  BY DEF Operate
<1>2. CASE Configure
  <2>1. price' \in Nat /\ UNCHANGED <<member, life>>
    BY <1>2, LifecycleAssumption DEF Configure
  <2>2. QED
    BY <1>1, <2>1 DEF DeletionInv, Columns, Excluded, Authorized, Answered, Due
<1>3. ASSUME NEW u \in Users, Recover(u) PROVE DeletionInv'
  BY <1>1, <1>3, LifeStep DEF Recover
<1>4. QED
  BY <1>1, <1>2, <1>3, EditStep, RebindStep DEF Operate

LEMMA MemberStep ==
  ASSUME DeletionInv, NEW u \in Users,
         \/ \E q \in Requests : Renew(u, <<"app", q>>)
         \/ AutoRenew(u) \/ Preview(u) \/ SetAuto(u) \/ Hold(u) \/ Release(u) \/ Claim(u) \/ Land(u)
         \/ ClaimMail(u) \/ PostMail(u) \/ FinishMail(u) \/ FailMail(u)
  PROVE  DeletionInv'
<1>1. ASSUME NEW q \in Requests, Renew(u, <<"app", q>>) PROVE DeletionInv'
  BY <1>1, ChargeStep DEF Renew
<1>2. CASE AutoRenew(u)
  BY <1>2, ChargeStep DEF AutoRenew, AutoDue
<1>3. CASE Preview(u)
  BY <1>3, DeletionFrame DEF Preview, facts
<1>4. CASE SetAuto(u)
  BY <1>4, LifeStep DEF SetAuto
<1>5. CASE ClaimMail(u) \/ PostMail(u) \/ FinishMail(u) \/ FailMail(u)
  BY <1>5, DeletionFrame DEF ClaimMail, PostMail, FinishMail, FailMail, Others, facts
<1>6. QED
  BY <1>1, <1>2, <1>3, <1>4, <1>5, StakeStep, ClaimStep, LandStep

(* A preview of somebody who is no member would renew nobody.               *)
LEMMA Stranger ==
  ASSUME NEW f, NEW S, NEW u, NEW x, f = [v \in S |-> f[v]], u \notin S
  PROVE  [f EXCEPT ![u] = x] = f
OBVIOUS

LEMMA ConfirmStep == ASSUME DeletionInv, NEW i, Confirm(i) PROVE DeletionInv'
<1> DEFINE u == intents[i].user
<1>1. CanRenew(u, Window) /\ Charge(u, <<"bot", i>>)
  BY DEF Confirm
<1>2. CASE u \in Users
  BY <1>1, <1>2, ChargeStep
<1>3. CASE u \notin Users
  <2>1. member' = member /\ balance' = balance
    BY <1>1, <1>3, Stranger DEF Charge, DeletionInv, Columns
  <2>2. QED
    BY <1>1, <2>1, DeletionFrame DEF Charge, facts
<1>4. QED
  BY <1>2, <1>3

LEMMA DeletionStep == DeletionInv /\ [Next]_vars => DeletionInv'
<1> SUFFICES ASSUME DeletionInv, [Next]_vars PROVE DeletionInv'
  OBVIOUS
<1>1. ASSUME NEW i, CancelPreview(i) PROVE DeletionInv'
  BY <1>1, DeletionFrame DEF CancelPreview, facts
<1>2. CASE UNCHANGED vars
  BY <1>2, DeletionFrame DEF vars, facts
<1>3. QED
  BY <1>1, <1>2, MemberStep, ConfirmStep, OperateStep, DeleteStepOK, CrashStep, LapseStep, TickStep DEF Next

-----------------------------------------------------------------------------
(* Who adds to what is on its way, and who ends a membership.               *)
LEMMA OnlyDeletionAsks ==
  ASSUME [Next]_vars, ~CheckAgain
  PROVE  inflight' \subseteq inflight
<1>1. ASSUME NEW u, \/ \E q \in Requests : Renew(u, <<"app", q>>)
                    \/ AutoRenew(u) \/ Preview(u) \/ SetAuto(u) \/ Hold(u) \/ Release(u) \/ Claim(u) \/ Land(u)
      PROVE inflight' \subseteq inflight
  BY <1>1 DEF Renew, AutoRenew, Charge, Preview, SetAuto, Hold, Release, Claim, Land
<1>2. ASSUME NEW u, ClaimMail(u) \/ PostMail(u) \/ FinishMail(u) \/ FailMail(u)
      PROVE inflight' \subseteq inflight
  BY <1>2 DEF ClaimMail, PostMail, FinishMail, FailMail, Others
<1>3. ASSUME NEW i, Confirm(i) \/ CancelPreview(i) PROVE inflight' \subseteq inflight
  BY <1>3 DEF Confirm, Charge, CancelPreview
<1>4. CASE GiveUp \/ Answer \/ Forget \/ Record
  BY <1>4 DEF GiveUp, Answer, Forget, Record
<1>5. CASE Operate \/ Crash \/ Lapse \/ Tick \/ UNCHANGED vars
  BY <1>5 DEF Operate, Crash, Lapse, Tick, vars
<1>6. QED
  BY <1>1, <1>2, <1>3, <1>4, <1>5 DEF Next, DeleteStep

LEMMA HereKept ==
  ASSUME NEW m \in Members, NEW x, m.here
  PROVE  /\ [m EXCEPT !.expiry = x].here /\ [m EXCEPT !.status = x].here
         /\ [m EXCEPT !.white = x].here /\ [m EXCEPT !.binding = x].here
BY DEF Members

LEMMA OnlyDeletionForgets ==
  ASSUME DeletionInv, [Next]_vars, ~Forget, NEW v \in Users, member[v].here
  PROVE  member'[v].here
<1>1. member[v] \in Members
  BY RowTypes
<1>2. ASSUME NEW u, NEW q, Charge(u, q) PROVE member'[v].here
  <2> DEFINE to == Later(clock, member[u].expiry) + Period
  <2>1. member' = [member EXCEPT ![u] = [member[u] EXCEPT !.expiry = to]]
    BY <1>2 DEF Charge
  <2> HIDE DEF to
  <2>2. member'[v] = member[v] \/ member'[v] = [member[v] EXCEPT !.expiry = to]
    BY <2>1 DEF DeletionInv, Columns
  <2>3. QED
    BY <1>1, <2>2, HereKept
<1>3. ASSUME NEW u \in Users, Edit(u) \/ Rebind(u) \/ Recover(u) PROVE member'[v].here
  <2>1. CASE u # v
    BY <1>3, <2>1 DEF Edit, Rebind, Recover, DeletionInv, Columns
  <2>2. ASSUME u = v, NEW x, member' = [member EXCEPT ![u].expiry = x] PROVE member'[v].here
    BY <1>1, <2>2, HereKept DEF DeletionInv, Columns
  <2>3. ASSUME u = v, NEW x, member' = [member EXCEPT ![u].status = x] PROVE member'[v].here
    BY <1>1, <2>3, HereKept DEF DeletionInv, Columns
  <2>4. CASE u = v /\ member' = [member EXCEPT ![u].white = ~@]
    BY <1>1, <2>4, HereKept DEF DeletionInv, Columns
  <2>5. CASE u = v /\ Rebind(u)
    BY <1>1, <2>5, HereKept DEF Rebind, DeletionInv, Columns
  <2>6. CASE u = v /\ Recover(u)
    BY <2>6 DEF Recover
  <2>7. QED
    BY <1>3, <2>1, <2>2, <2>3, <2>4, <2>5, <2>6 DEF Edit
<1>4. ASSUME NEW u, \/ Preview(u) \/ SetAuto(u) \/ Hold(u) \/ Release(u) \/ Claim(u) \/ Land(u)
      PROVE member'[v].here
  BY <1>4 DEF Preview, SetAuto, Hold, Release, Claim, Land
<1>5. ASSUME NEW u, ClaimMail(u) \/ PostMail(u) \/ FinishMail(u) \/ FailMail(u)
      PROVE member'[v].here
  BY <1>5 DEF ClaimMail, PostMail, FinishMail, FailMail, Others
<1>6. ASSUME NEW i, Confirm(i) \/ CancelPreview(i) PROVE member'[v].here
  BY <1>2, <1>6 DEF Confirm, CancelPreview
<1>7. CASE CheckAgain \/ GiveUp \/ Answer \/ Record
  BY <1>7 DEF CheckAgain, GiveUp, Answer, Record
<1>8. CASE Operate
  BY <1>3, <1>8 DEF Operate, Configure
<1>9. CASE Crash \/ Lapse \/ Tick \/ UNCHANGED vars
  BY <1>9 DEF Crash, Lapse, Tick, vars
<1>10. ASSUME NEW u, (\E q \in Requests : Renew(u, <<"app", q>>)) \/ AutoRenew(u) PROVE member'[v].here
  BY <1>2, <1>10 DEF Renew, AutoRenew
<1>11. QED
  BY <1>3, <1>4, <1>5, <1>6, <1>7, <1>8, <1>9, <1>10 DEF Next, DeleteStep

(* A deletion is asked for only of an account long past its expiry, not     *)
(* exempt, with nothing in a game and while deleting is on, and a           *)
(* membership ends only when the media server no longer has the account     *)
(* (execute_delete, authorize and the exclusion triggers): for any members, *)
(* terms, dates and prices, whatever races the timer.                       *)
THEOREM MembersDeletedOnlyWhenDue == Spec => DeletedOnlyWhenDue
<1> DEFINE Allowed == \A u \in Users :
       /\ u \in inflight' \ inflight => Due(u) /\ held[u] = 0 /\ enabled
       /\ member[u].here /\ ~member[u].here' => Due(u) /\ held[u] = 0 /\ u \notin remote
<1>1. ASSUME DeletionInv, [Next]_vars PROVE Allowed
  <2>1. ASSUME NEW u \in Users, u \in inflight' \ inflight PROVE Due(u) /\ held[u] = 0 /\ enabled
    <3>1. CheckAgain
      BY <1>1, <2>1, OnlyDeletionAsks
    <3>2. u = job.user /\ job # Null
      BY <2>1, <3>1 DEF CheckAgain, AtStep
    <3>3. QED
      BY <1>1, <3>1, <3>2 DEF CheckAgain, authorize, DeletionInv, Excluded
  <2>2. ASSUME NEW u \in Users, member[u].here, ~member[u].here'
        PROVE Due(u) /\ held[u] = 0 /\ u \notin remote
    <3>1. Forget
      BY <1>1, <2>2, OnlyDeletionForgets
    <3>2. u = job.user /\ job # Null /\ job.step = "confirmed"
      BY <1>1, <2>2, <3>1 DEF Forget, AtStep, DeletionInv, Columns
    <3>3. QED
      BY <1>1, <3>2 DEF DeletionInv, Excluded, Authorized, Answered
  <2>3. QED
    BY <2>1, <2>2
<1>2. DeletionInv /\ [Next]_vars => [Allowed]_vars
  BY <1>1
<1>3. QED
  BY <1>2, NobodyClaimed, DeletionStep, PTL DEF Spec, DeletedOnlyWhenDue

-----------------------------------------------------------------------------
(* A notice is one that may be: of an account that is gone, posted at most  *)
(* once and, while it waits or is being sent, not yet.                      *)
Truthful(r, u) == r \in Mails /\ u \notin remote /\ r.posted <= 1
              /\ (r.state \in {"queued", "sending"} => r.posted = 0)

LEMMA NoticeWritten ==
  ASSUME Notices, NEW u \in Users, NEW r, mail' = [mail EXCEPT ![u] = r], Truthful(r, u), UNCHANGED remote
  PROVE  Notices'
<1>1. mail' = [v \in Users |-> mail'[v]] /\ mail'[u] = r /\ \A v \in Users \ {u} : mail'[v] = mail[v]
  BY DEF Notices
<1>2. QED
  BY <1>1 DEF Notices, Truthful

LEMMA NoticeStep == ErrorsRefuse /\ DeletionInv /\ Notices /\ [Next]_vars => Notices'
<1> SUFFICES ASSUME ErrorsRefuse, DeletionInv, Notices, [Next]_vars PROVE Notices'
  OBVIOUS
<1>1. CASE mail' = mail /\ remote' \subseteq remote
  BY <1>1 DEF Notices
<1>2. ASSUME NEW u \in Users, ClaimMail(u) \/ PostMail(u) \/ FinishMail(u) \/ FailMail(u) PROVE Notices'
  <2>1. mail[u] # Null /\ UNCHANGED remote
    BY <1>2 DEF ClaimMail, PostMail, FinishMail, FailMail, MailIn, Others
  <2>2. mail[u] \in Mails /\ u \notin remote /\ mail[u].posted <= 1
    BY <2>1 DEF Notices
  <2>3. mail[u].state \in {"queued", "sending"} => mail[u].posted = 0
    BY <2>1 DEF Notices
  <2>4. ASSUME NEW s \in {"queued", "sending", "posted", "sent", "unknown"}, NEW p \in Nat, p <= 1,
               s \in {"queued", "sending"} => p = 0,
               mail' = [mail EXCEPT ![u] = [state |-> s, posted |-> p]]
        PROVE  Notices'
    <3>1. Truthful([state |-> s, posted |-> p], u)
      BY <2>2, <2>4 DEF Truthful, Mails
    <3>2. QED
      BY <2>1, <2>4, <3>1, NoticeWritten
  <2>5. mail[u].posted \in Nat
    BY <2>2 DEF Mails
  <2>6. CASE ClaimMail(u)
    <3>1. mail' = [mail EXCEPT ![u] = [state |-> "sending", posted |-> 0]]
      BY <2>3, <2>6 DEF ClaimMail, MailIn, SetMail
    <3>2. Truthful([state |-> "sending", posted |-> 0], u)
      BY <2>2 DEF Truthful, Mails
    <3>3. QED
      BY <2>1, <3>1, <3>2, NoticeWritten
  <2>7. CASE PostMail(u)
    <3>1. mail[u].posted = 0 /\ mail' = [mail EXCEPT ![u] = [state |-> "posted", posted |-> mail[u].posted + 1]]
      BY <2>3, <2>7 DEF PostMail, MailIn, SetMail
    <3>2. mail' = [mail EXCEPT ![u] = [state |-> "posted", posted |-> 1]]
      BY <3>1
    <3>3. Truthful([state |-> "posted", posted |-> 1], u)
      BY <2>2 DEF Truthful, Mails
    <3>4. QED
      BY <2>1, <3>2, <3>3, NoticeWritten
  <2>8. CASE FinishMail(u)
    BY <2>2, <2>4, <2>5, <2>8 DEF FinishMail, MailIn, SetMail
  <2>9. CASE FailMail(u)
    BY <2>2, <2>3, <2>4, <2>5, <2>9 DEF FailMail, MailIn, SetMail
  <2>10. QED
    BY <1>2, <2>6, <2>7, <2>8, <2>9
<1>3. CASE Answer
  <2>1. job.user \in Users /\ job.user \notin remote /\ UNCHANGED remote
    BY <1>3 DEF Answer, AtStep, DeletionInv, Columns, Works, Answered
  <2>2. CASE mail' = mail
    BY <1>1, <2>1, <2>2
  <2>3. CASE mail' = [mail EXCEPT ![job.user] = [state |-> "queued", posted |-> 0]]
    <3>1. Truthful([state |-> "queued", posted |-> 0], job.user)
      BY <2>1 DEF Truthful, Mails
    <3>2. QED
      BY <2>1, <2>3, <3>1, NoticeWritten
  <2>4. QED
    BY <1>3, <2>2, <2>3 DEF Answer
<1>4. CASE Crash
  <2>1. UNCHANGED remote /\ mail' = [u \in Users |-> IF MailIn(u, "sending") \/ MailIn(u, "posted")
                                                     THEN [mail[u] EXCEPT !.state = "unknown"] ELSE mail[u]]
    BY <1>4 DEF Crash
  <2>2. ASSUME NEW u \in Users, mail'[u] # Null PROVE Truthful(mail'[u], u)
    <3>1. CASE mail'[u] = mail[u]
      BY <2>1, <2>2, <3>1 DEF Truthful, Notices
    <3>2. CASE mail[u] # Null /\ mail'[u] = [mail[u] EXCEPT !.state = "unknown"]
      BY <2>1, <3>2 DEF Truthful, Notices, Mails
    <3>3. QED
      BY <2>1, <3>1, <3>2 DEF MailIn
  <2>3. QED
    BY <2>1, <2>2 DEF Notices, Truthful
<1>5. ASSUME NEW u \in Users,
             \/ \E q \in Requests : Renew(u, <<"app", q>>)
             \/ AutoRenew(u) \/ Preview(u) \/ SetAuto(u) \/ Hold(u) \/ Release(u) \/ Claim(u) \/ Land(u)
      PROVE Notices'
  BY <1>1, <1>5 DEF Renew, AutoRenew, Charge, Preview, SetAuto, Hold, Release, Claim, Land
<1>6. ASSUME NEW i, Confirm(i) \/ CancelPreview(i) PROVE Notices'
  BY <1>1, <1>6 DEF Confirm, Charge, CancelPreview
<1>7. CASE CheckAgain \/ GiveUp \/ Forget \/ Record
  BY <1>1, <1>7 DEF CheckAgain, GiveUp, Forget, Record
<1>8. CASE Operate \/ Lapse \/ Tick \/ UNCHANGED vars
  BY <1>1, <1>8 DEF Operate, Lapse, Tick, vars
<1>9. QED
  BY <1>2, <1>3, <1>4, <1>5, <1>6, <1>7, <1>8 DEF Next, DeleteStep

(* The group hears of a deletion at most once, and only of one that the     *)
(* media server has carried out (expiry_notices: stage, claim, send): for   *)
(* any members, and whatever is lost, retried or cut short by a restart,    *)
(* provided that a 5xx answer means that nothing was posted: the notice is  *)
(* sent again after one (expiry_notices.finish).                            *)
THEOREM DeletionsToldOnce ==
  ASSUME ErrorsRefuse
  PROVE  Spec => []ToldOnce
<1>1. Init => Notices
  BY DEF Init, Notices
<1>2. Notices => ToldOnce
  BY DEF Notices, ToldOnce
<1>3. QED
  BY <1>1, <1>2, NobodyClaimed, DeletionStep, NoticeStep, PTL DEF Spec

-----------------------------------------------------------------------------
(* Renewals.  A receipt is written in the transaction that charges, so its  *)
(* request is never used again; one confirmed in the bot closes the preview *)
(* whose terms it has found unchanged.                                      *)

Requested == ({"app"} \X Requests) \cup ({"auto"} \X Int) \cup ({"bot"} \X Nat)
Receipts == [user : Users, request : Requested, cost : Int, from : Int, to : Int]
Previews == [user : Users, expiry : Int, price : Int, binding : Nat, at : Nat, open : BOOLEAN]

Papers == /\ renewals \in Seq(Receipts) /\ intents \in Seq(Previews)
          /\ \A i \in 1..Len(renewals), k \in Nat : renewals[i].request = <<"bot", k>> => k \in 1..Len(intents)

RenewInv == Papers /\ RenewedOnce /\ TermsHonoured

LEMMA NobodyRenewed == Init => RenewInv
<1> SUFFICES ASSUME Init PROVE RenewInv
  OBVIOUS
<1>1. renewals = <<>> /\ intents = <<>>
  BY DEF Init
<1>2. renewals \in Seq(Receipts) /\ intents \in Seq(Previews) /\ 1..Len(renewals) = {}
  BY <1>1, EmptySeq
<1>3. QED
  BY <1>2 DEF RenewInv, Papers, RenewedOnce, TermsHonoured

LEMMA PapersTyped ==
  ASSUME RenewInv
  PROVE  /\ Len(renewals) \in Nat /\ Len(intents) \in Nat
         /\ \A i \in 1..Len(renewals) : renewals[i] \in Receipts
         /\ \A k \in 1..Len(intents) : intents[k] \in Previews
<1>1. renewals \in Seq(Receipts) /\ intents \in Seq(Previews)
  BY DEF RenewInv, Papers
<1>2. QED
  BY <1>1, LenProperties, ElementOfSeq

(* One renewal more: a new request, for a whole period.                     *)
LEMMA ChargePapers ==
  ASSUME DeletionInv, RenewInv, NEW u \in Users, NEW q \in Requested, Charge(u, q)
  PROVE  /\ renewals' \in Seq(Receipts) /\ Len(renewals') = Len(renewals) + 1
         /\ \A i \in 1..Len(renewals) : renewals'[i] = renewals[i]
         /\ renewals'[Len(renewals) + 1].user = u /\ renewals'[Len(renewals) + 1].request = q
         /\ renewals'[Len(renewals) + 1].cost = price /\ renewals'[Len(renewals) + 1].from = member[u].expiry
         /\ renewals'[Len(renewals) + 1].to >= member[u].expiry + Period
         /\ RenewedOnce'
<1> DEFINE to == Later(clock, member[u].expiry) + Period
           r == [user |-> u, request |-> q, cost |-> price, from |-> member[u].expiry, to |-> to]
           n == Len(renewals)
<1>1. renewals' = Append(renewals, r) /\ ~Renewed(u, q)
  BY DEF Charge
<1>2. member[u].expiry \in Int /\ clock \in Nat /\ price \in Nat /\ Period \in Nat
  BY RowTypes, LifecycleAssumption DEF Members, DeletionInv, Columns
<1>3. to \in Int /\ to >= member[u].expiry + Period
  BY <1>2 DEF Later
<1>4. r \in Receipts
  BY <1>2, <1>3 DEF Receipts
<1>5. renewals \in Seq(Receipts) /\ n \in Nat
  BY PapersTyped DEF RenewInv, Papers
<1>6. /\ renewals' \in Seq(Receipts) /\ Len(renewals') = n + 1 /\ renewals'[n + 1] = r
      /\ \A i \in 1..n : renewals'[i] = renewals[i]
  BY <1>1, <1>4, <1>5, AppendProperties
<1>7. /\ r.user = u /\ r.request = q /\ r.cost = price /\ r.from = member[u].expiry
      /\ r.to >= member[u].expiry + Period
  BY <1>3
<1> HIDE DEF r
<1>8. RenewedOnce'
  <2>1. \A i \in 1..n : ~(renewals[i].user = u /\ renewals[i].request = q)
    BY <1>1 DEF Renewed
  <2>2. \A i \in 1..(n + 1) : i \in 1..n \/ i = n + 1
    BY <1>5
  <2>3. QED
    BY <1>6, <1>7, <2>1, <2>2 DEF RenewInv, RenewedOnce
<1>9. QED
  BY <1>6, <1>7, <1>8

(* A request of the mini app or of the timer is none of a preview.          *)
LEMMA OtherRequest ==
  ASSUME DeletionInv, RenewInv, NEW u \in Users, NEW q \in Requested, \A k \in Nat : q # <<"bot", k>>,
         Charge(u, q), UNCHANGED intents
  PROVE  RenewInv'
<1> DEFINE n == Len(renewals)
<1>1. n \in Nat /\ Len(intents) \in Nat /\ intents \in Seq(Previews)
  BY PapersTyped DEF RenewInv, Papers
<1>2. \A i \in 1..(n + 1) : i \in 1..n \/ i = n + 1
  BY <1>1
<1>3. Papers'
  <2>1. /\ renewals' \in Seq(Receipts) /\ Len(renewals') = n + 1
        /\ \A i \in 1..n : renewals'[i] = renewals[i]
        /\ renewals'[n + 1].request = q
    BY ChargePapers
  <2>2. ASSUME NEW i \in 1..Len(renewals'), NEW k \in Nat, renewals'[i].request = <<"bot", k>>
        PROVE  k \in 1..Len(intents)
    <3>1. i \in 1..n
      BY <1>1, <1>2, <2>1, <2>2
    <3>2. renewals[i].request = <<"bot", k>>
      BY <2>1, <2>2, <3>1
    <3>3. QED
      BY <3>1, <3>2 DEF RenewInv, Papers
  <2>3. QED
    BY <1>1, <2>1, <2>2 DEF Papers
<1>4. TermsHonoured'
  <2> SUFFICES ASSUME NEW i \in 1..(n + 1)
               PROVE  /\ renewals'[i].to >= renewals'[i].from + Period
                      /\ \A j \in 1..Len(intents) : renewals'[i].request = <<"bot", j>> =>
                           /\ renewals'[i].user = intents[j].user /\ ~intents[j].open
                           /\ renewals'[i].cost = intents[j].price /\ renewals'[i].from = intents[j].expiry
    BY ChargePapers DEF TermsHonoured
  <2>1. CASE i \in 1..n
    <3>1. renewals'[i] = renewals[i]
      BY <2>1, ChargePapers
    <3>2. QED
      BY <2>1, <3>1 DEF RenewInv, TermsHonoured
  <2>2. CASE i = n + 1
    <3>1. renewals'[i].to >= renewals'[i].from + Period /\ renewals'[i].request = q
      BY <2>2, ChargePapers
    <3>2. \A j \in 1..Len(intents) : q # <<"bot", j>>
      BY <1>1
    <3>3. QED
      BY <3>1, <3>2
  <2>3. QED
    BY <1>2, <2>1, <2>2
<1>5. QED
  BY <1>3, <1>4, ChargePapers DEF RenewInv

LEMMA Replaced ==
  ASSUME NEW s \in Seq(Previews), NEW k \in 1..Len(s), NEW p \in Previews, NEW t, t = [s EXCEPT ![k] = p]
  PROVE  /\ t \in Seq(Previews) /\ Len(t) = Len(s)
         /\ \A j \in 1..Len(s) : t[j] = IF j = k THEN p ELSE s[j]
BY ExceptSeq

(* A preview is closed, its terms stay.                                     *)
LEMMA Closed ==
  ASSUME RenewInv, NEW k \in 1..Len(intents), intents' = [intents EXCEPT ![k].open = FALSE]
  PROVE  /\ intents' \in Seq(Previews) /\ Len(intents') = Len(intents) /\ ~intents'[k].open
         /\ \A j \in 1..Len(intents) :
              /\ intents'[j].user = intents[j].user /\ intents'[j].price = intents[j].price
              /\ intents'[j].expiry = intents[j].expiry /\ (intents'[j].open => intents[j].open)
<1> DEFINE p == [intents[k] EXCEPT !.open = FALSE]
<1>1. intents \in Seq(Previews) /\ intents[k] \in Previews /\ DOMAIN intents = 1..Len(intents)
  BY PapersTyped, LenProperties DEF RenewInv, Papers
<1>2. /\ p \in Previews /\ p.user = intents[k].user /\ p.price = intents[k].price
      /\ p.expiry = intents[k].expiry /\ ~p.open
  BY <1>1 DEF Previews
<1>3. intents' = [intents EXCEPT ![k] = p]
  BY <1>1
<1> HIDE DEF p
<1>4. /\ intents' \in Seq(Previews) /\ Len(intents') = Len(intents)
      /\ \A j \in 1..Len(intents) : intents'[j] = IF j = k THEN p ELSE intents[j]
  BY <1>1, <1>2, <1>3, Replaced
<1>5. QED
  BY <1>2, <1>4

LEMMA ConfirmPapers ==
  ASSUME DeletionInv, RenewInv, NEW k \in 1..Len(intents), Confirm(k)
  PROVE  RenewInv'
<1> DEFINE n == Len(renewals)
           u == intents[k].user
<1>1. /\ intents' = [intents EXCEPT ![k].open = FALSE] /\ intents[k].open
      /\ intents[k].expiry = member[u].expiry /\ intents[k].price = price /\ Charge(u, <<"bot", k>>)
  BY DEF Confirm
<1>2. /\ n \in Nat /\ Len(intents) \in Nat /\ u \in Users /\ k \in Nat
  BY PapersTyped DEF Previews
<1>3. <<"bot", k>> \in Requested
  BY <1>2 DEF Requested
<1>4. \A i \in 1..(n + 1) : i \in 1..n \/ i = n + 1
  BY <1>2
<1>5. /\ renewals' \in Seq(Receipts) /\ Len(renewals') = n + 1
      /\ \A i \in 1..n : renewals'[i] = renewals[i]
      /\ renewals'[n + 1].user = u /\ renewals'[n + 1].request = <<"bot", k>>
      /\ renewals'[n + 1].cost = price /\ renewals'[n + 1].from = member[u].expiry
      /\ renewals'[n + 1].to >= member[u].expiry + Period
      /\ RenewedOnce'
  BY <1>1, <1>2, <1>3, ChargePapers
<1>6. /\ intents' \in Seq(Previews) /\ Len(intents') = Len(intents) /\ ~intents'[k].open
      /\ \A j \in 1..Len(intents) :
           /\ intents'[j].user = intents[j].user /\ intents'[j].price = intents[j].price
           /\ intents'[j].expiry = intents[j].expiry /\ (intents'[j].open => intents[j].open)
  BY <1>1, Closed
<1>7. \A j \in Nat : <<"bot", k>> = <<"bot", j>> => j = k
  OBVIOUS
<1>8. Papers'
  <2> SUFFICES ASSUME NEW i \in 1..(n + 1), NEW j \in Nat, renewals'[i].request = <<"bot", j>>
               PROVE  j \in 1..Len(intents)
    BY <1>5, <1>6 DEF Papers
  <2>1. CASE i \in 1..n
    <3>1. renewals'[i] = renewals[i]
      BY <1>5, <2>1
    <3>2. QED
      BY <2>1, <3>1 DEF RenewInv, Papers
  <2>2. CASE i = n + 1
    BY <1>5, <1>7, <2>2
  <2>3. QED
    BY <1>4, <2>1, <2>2
<1>9. TermsHonoured'
  <2> SUFFICES ASSUME NEW i \in 1..(n + 1)
               PROVE  /\ renewals'[i].to >= renewals'[i].from + Period
                      /\ \A j \in 1..Len(intents) : renewals'[i].request = <<"bot", j>> =>
                           /\ renewals'[i].user = intents'[j].user /\ ~intents'[j].open
                           /\ renewals'[i].cost = intents'[j].price /\ renewals'[i].from = intents'[j].expiry
    BY <1>5, <1>6 DEF TermsHonoured
  <2>1. CASE i \in 1..n
    <3>1. renewals'[i] = renewals[i]
      BY <1>5, <2>1
    <3>2. /\ renewals[i].to >= renewals[i].from + Period
          /\ \A j \in 1..Len(intents) : renewals[i].request = <<"bot", j>> =>
               /\ renewals[i].user = intents[j].user /\ ~intents[j].open
               /\ renewals[i].cost = intents[j].price /\ renewals[i].from = intents[j].expiry
      BY <2>1 DEF RenewInv, TermsHonoured
    <3>3. QED
      BY <1>6, <3>1, <3>2
  <2>2. CASE i = n + 1
    <3>1. renewals'[i].to >= renewals'[i].from + Period
      BY <1>5, <2>2
    <3>2. ASSUME NEW j \in 1..Len(intents), renewals'[i].request = <<"bot", j>>
          PROVE  /\ renewals'[i].user = intents'[j].user /\ ~intents'[j].open
                 /\ renewals'[i].cost = intents'[j].price /\ renewals'[i].from = intents'[j].expiry
      <4>1. j = k
        BY <1>5, <1>7, <2>2, <3>2
      <4>2. QED
        BY <1>1, <1>5, <1>6, <2>2, <4>1
    <3>3. QED
      BY <3>1, <3>2
  <2>3. QED
    BY <1>4, <2>1, <2>2
<1>10. QED
  BY <1>5, <1>8, <1>9 DEF RenewInv

LEMMA CancelPapers ==
  ASSUME RenewInv, NEW k \in 1..Len(intents), CancelPreview(k)
  PROVE  RenewInv'
<1>1. intents' = [intents EXCEPT ![k].open = FALSE] /\ UNCHANGED renewals
  BY DEF CancelPreview
<1>2. /\ intents' \in Seq(Previews) /\ Len(intents') = Len(intents)
      /\ \A j \in 1..Len(intents) :
           /\ intents'[j].user = intents[j].user /\ intents'[j].price = intents[j].price
           /\ intents'[j].expiry = intents[j].expiry /\ (intents'[j].open => intents[j].open)
  BY <1>1, Closed
<1>3. QED
  BY <1>1, <1>2 DEF RenewInv, Papers, RenewedOnce, TermsHonoured

LEMMA PreviewPapers ==
  ASSUME DeletionInv, RenewInv, NEW u \in Users, Preview(u)
  PROVE  RenewInv'
<1> DEFINE p == [user |-> u, expiry |-> member[u].expiry, price |-> price,
                 binding |-> member[u].binding, at |-> clock, open |-> TRUE]
           n == Len(intents)
<1>1. intents' = Append(intents, p) /\ UNCHANGED renewals
  BY DEF Preview
<1>2. p \in Previews
  BY RowTypes DEF Previews, Members, DeletionInv, Columns
<1>3. intents \in Seq(Previews) /\ n \in Nat
  BY PapersTyped DEF RenewInv, Papers
<1>4. intents' \in Seq(Previews) /\ Len(intents') = n + 1 /\ \A j \in 1..n : intents'[j] = intents[j]
  BY <1>1, <1>2, <1>3, AppendProperties
<1>5. \A j \in 1..(n + 1) : j \in Nat /\ (j \in 1..n \/ j = n + 1)
  BY <1>3
<1>6. \A j \in 1..n : j \in 1..(n + 1) /\ j # n + 1
  BY <1>3
<1>7. Papers' /\ RenewedOnce'
  BY <1>1, <1>4, <1>6 DEF RenewInv, Papers, RenewedOnce
<1>8. TermsHonoured'
  BY <1>1, <1>3, <1>4, <1>5, <1>6 DEF RenewInv, Papers, TermsHonoured
<1>9. QED
  BY <1>7, <1>8 DEF RenewInv

LEMMA PapersStep == DeletionInv /\ RenewInv /\ [Next]_vars => RenewInv'
<1> SUFFICES ASSUME DeletionInv, RenewInv, [Next]_vars PROVE RenewInv'
  OBVIOUS
<1>1. ASSUME UNCHANGED <<renewals, intents>> PROVE RenewInv'
  BY <1>1 DEF RenewInv, Papers, RenewedOnce, TermsHonoured
<1>2. ASSUME NEW u \in Users, NEW q \in Requests, Renew(u, <<"app", q>>) PROVE RenewInv'
  <2>1. <<"app", q>> \in Requested /\ \A k \in Nat : <<"app", q>> # <<"bot", k>>
    BY DEF Requested
  <2>2. QED
    BY <1>2, <2>1, OtherRequest DEF Renew
<1>3. ASSUME NEW u \in Users, AutoRenew(u) PROVE RenewInv'
  <2>1. member[u].expiry \in Int
    BY RowTypes DEF Members
  <2>2. <<"auto", member[u].expiry>> \in Requested /\ \A k \in Nat : <<"auto", member[u].expiry>> # <<"bot", k>>
    BY <2>1 DEF Requested
  <2>3. QED
    BY <1>3, <2>2, OtherRequest DEF AutoRenew
<1>4. ASSUME NEW u \in Users,
             \/ SetAuto(u) \/ Hold(u) \/ Release(u) \/ Claim(u) \/ Land(u)
             \/ ClaimMail(u) \/ PostMail(u) \/ FinishMail(u) \/ FailMail(u)
      PROVE  RenewInv'
  BY <1>1, <1>4 DEF SetAuto, Hold, Release, Claim, Land, ClaimMail, PostMail, FinishMail, FailMail, Others
<1>5. CASE CheckAgain \/ GiveUp \/ Answer \/ Forget \/ Record
  BY <1>1, <1>5 DEF CheckAgain, GiveUp, Answer, Forget, Record
<1>6. CASE Operate \/ Crash \/ Lapse \/ Tick \/ UNCHANGED vars
  BY <1>1, <1>6 DEF Operate, Crash, Lapse, Tick, vars
<1>7. QED
  BY <1>2, <1>3, <1>4, <1>5, <1>6, PreviewPapers, ConfirmPapers, CancelPapers DEF Next, DeleteStep

(* A request renews once, however often it is sent and whoever else renews, *)
(* and what a member confirms in the bot is what he was shown: the price    *)
(* and the expiry of his preview, whatever the operator, the timer or the   *)
(* mini app did meanwhile (levels.renew, confirm_renew, auto_renew): for    *)
(* any members, prices, windows and periods.                                *)
THEOREM RenewedAsShown == Spec => [](RenewedOnce /\ TermsHonoured)
<1>1. RenewInv => RenewedOnce /\ TermsHonoured
  BY DEF RenewInv
<1>2. QED
  BY <1>1, NobodyClaimed, NobodyRenewed, DeletionStep, PapersStep, PTL DEF Spec

(*-------------------------------------------------------------------------*)
(* The cases about an inviter, whose tables are apart from the members'.   *)
CONSTANTS Cases, Deciders, MaxPresses
VARIABLES inviter, account, suspended, trusted, cases, letters, flushing, work, posts, started, presses, mishaps

I == INSTANCE InviteCases WITH member <- inviter, remote <- account, faults <- mishaps

CaseStates == {"none", "pending", "processing"} \cup I!Settled

(* A decision is a row of its own, which is not Null.                      *)
Decision == [case : Cases, action : I!Actions, listed : BOOLEAN,
             pc : {"look", "suspend", "settle", "list", "authorize", "delete", "remove"}]
InviteConstants == Null \notin Decision \cup Cases

CaseRows ==
    /\ inviter \in BOOLEAN /\ account \in BOOLEAN
    /\ cases \in [Cases -> CaseStates]
    /\ letters \in [Cases -> {"none", "pending", "sending", "sent", "failed", "skipped"}]
    /\ work \in [Deciders -> Decision \cup {Null}]
    /\ posts \in [Cases -> Nat]
    /\ flushing \in Cases \cup {Null}

(* A card that is on its way was not posted yet, and one that may have been *)
(* is not sent again; after a crash nothing is under way.                  *)
Letters ==
    /\ \A k \in Cases : letters[k] \in {"none", "pending", "skipped"} \/ flushing = k => posts[k] = 0
    /\ \A k \in Cases : posts[k] <= 1
    /\ \A k \in Cases : cases[k] = "none" => letters[k] = "none" /\ flushing # k
    /\ \A k \in Cases : flushing = k => letters[k] = "sending"
    /\ ~started => flushing = Null /\ \A d \in Deciders : work[d] = Null

CasesInv == CaseRows /\ Letters /\ I!CasesSound

LEMMA CasesInit == ASSUME InviteConstants, I!Init PROVE CasesInv
<1>1. /\ cases = [k \in Cases |-> "none"] /\ letters = [k \in Cases |-> "none"] /\ flushing = Null
      /\ work = [d \in Deciders |-> Null] /\ posts = [k \in Cases |-> 0] /\ started = TRUE
      /\ inviter = TRUE /\ account = TRUE
  BY DEF I!Init
<1>2. CaseRows
  BY <1>1 DEF CaseRows, CaseStates
<1>3. Letters
  BY <1>1 DEF Letters, InviteConstants
<1>4. I!CasesSound
  BY <1>1 DEF I!CasesSound
<1>5. QED
  BY <1>2, <1>3, <1>4 DEF CasesInv

(* A step of one decider about his case: he goes on with it, or ends it.    *)
LEMMA DeciderMoves ==
    ASSUME InviteConstants, CasesInv, NEW d \in Deciders, work[d] # Null,
           UNCHANGED <<letters, flushing, posts, started>>, inviter' \in BOOLEAN, account' \in BOOLEAN,
           inviter' => inviter,
           \/ /\ UNCHANGED cases
              /\ \E w \in Decision : w.case = work[d].case /\ work' = [work EXCEPT ![d] = w]
           \/ /\ work' = [work EXCEPT ![d] = Null]
              /\ \E s \in CaseStates \ {"none"} : /\ cases' = [cases EXCEPT ![work[d].case] = s]
                                                  /\ s \in {"deleted", "gone"} => ~inviter'
    PROVE  CasesInv' /\ I!CasesFinal
<1> DEFINE k == work[d].case
<1>1. work[d] \in Decision /\ k \in Cases /\ cases[k] = "processing" /\ started
  BY DEF CasesInv, CaseRows, Decision, Letters, I!CasesSound, I!Case
<1>2. /\ cases' \in [Cases -> CaseStates] /\ \A c \in Cases \ {k} : cases'[c] = cases[c]
      /\ cases'[k] \in {"deleted", "gone"} => ~inviter'
      /\ cases'[k] # "none"
  <2>1. cases \in [Cases -> CaseStates] /\ (cases[k] \in {"deleted", "gone"} => ~inviter)
    BY <1>1 DEF CasesInv, CaseRows, I!CasesSound
  <2>2. CASE UNCHANGED cases
    BY <1>1, <2>1, <2>2
  <2>3. CASE \E s \in CaseStates \ {"none"} : /\ cases' = [cases EXCEPT ![k] = s]
                                              /\ s \in {"deleted", "gone"} => ~inviter'
    <3>1. PICK s \in CaseStates \ {"none"} : /\ cases' = [cases EXCEPT ![k] = s]
                                             /\ s \in {"deleted", "gone"} => ~inviter'
      BY <2>3
    <3>2. cases'[k] = s /\ cases' \in [Cases -> CaseStates] /\ \A c \in Cases \ {k} : cases'[c] = cases[c]
      BY <1>1, <2>1, <3>1
    <3>3. QED
      BY <3>1, <3>2
  <2>4. QED
    BY <2>2, <2>3
<1>3. /\ work' \in [Deciders -> Decision \cup {Null}]
      /\ \A e \in Deciders \ {d} : work'[e] = work[e]
      /\ work'[d] # Null => work'[d].case = k /\ cases' = cases
  BY <1>1 DEF CasesInv, CaseRows
<1> HIDE DEF k
<1>4. \A e \in Deciders \ {d} : work[e] # Null => work[e].case # k
  BY DEF CasesInv, I!CasesSound, I!Case, k
<1>5. CaseRows' /\ Letters'
  BY <1>1, <1>2, <1>3 DEF CasesInv, CaseRows, Letters
<1>6. I!CasesSound'
  <2>1. \A e, f \in Deciders : work'[e] # Null /\ work'[f] # Null /\ work'[e].case = work'[f].case => e = f
    BY <1>3, <1>4 DEF CasesInv, I!CasesSound, I!Case
  <2>2. \A e \in Deciders : work'[e] # Null => cases'[work'[e].case] = "processing"
    <3> SUFFICES ASSUME NEW e \in Deciders, work'[e] # Null PROVE cases'[work'[e].case] = "processing"
      OBVIOUS
    <3>1. CASE e = d
      BY <1>1, <1>3, <3>1
    <3>2. CASE e # d
      <4>1. work'[e] = work[e] /\ work[e].case # k /\ work[e].case \in Cases /\ cases[work[e].case] = "processing"
        BY <1>3, <1>4, <3>2 DEF CasesInv, CaseRows, Decision, I!CasesSound, I!Case
      <4>2. QED
        BY <1>2, <4>1
    <3>3. QED
      BY <3>1, <3>2
  <2>3. \A c \in Cases : posts'[c] <= 1 /\ (cases'[c] \in {"deleted", "gone"} => ~inviter')
    BY <1>2 DEF CasesInv, I!CasesSound
  <2>4. QED
    BY <2>1, <2>2, <2>3 DEF I!CasesSound, I!Case
<1>7. I!CasesFinal
  BY <1>1, <1>2 DEF I!CasesFinal, I!Settled
<1>8. QED
  BY <1>5, <1>6, <1>7 DEF CasesInv
LEMMA DecideStep ==
    ASSUME InviteConstants, CasesInv, NEW d \in Deciders, I!Decide(d)
    PROVE  CasesInv' /\ I!CasesFinal
<1> DEFINE w(pc) == [work[d] EXCEPT !.pc = pc]
           k == work[d].case
<1>1. /\ work[d] # Null /\ UNCHANGED <<letters, flushing, posts, started>>
  BY DEF I!Decide, I!Look, I!Suspend, I!SettleSuspended, I!List, I!Authorize, I!delete_emby_one, I!RemoveRow, I!At,
         I!world, I!post
<1>2. work[d] \in Decision /\ work \in [Deciders -> Decision \cup {Null}] /\ cases[k] = "processing" /\ k \in Cases
  BY <1>1 DEF CasesInv, CaseRows, Decision, I!CasesSound, I!Case
<1>3. ASSUME NEW pc \in {"look", "suspend", "settle", "list", "authorize", "delete", "remove"}
      PROVE  w(pc) \in Decision /\ w(pc).case = work[d].case /\ [work EXCEPT ![d].pc = pc] = [work EXCEPT ![d] = w(pc)]
  BY <1>2 DEF Decision
<1>4. ASSUME NEW l \in BOOLEAN
      PROVE  /\ [work[d] EXCEPT !.listed = l, !.pc = "authorize"] \in Decision
             /\ [work[d] EXCEPT !.listed = l, !.pc = "authorize"].case = work[d].case
             /\ [work EXCEPT ![d].listed = l, ![d].pc = "authorize"]
                   = [work EXCEPT ![d] = [work[d] EXCEPT !.listed = l, !.pc = "authorize"]]
  BY <1>2 DEF Decision
<1> HIDE DEF w
<1>5. ASSUME NEW pc \in {"look", "suspend", "settle", "list", "authorize", "delete", "remove"}, I!Go(d, pc),
             UNCHANGED cases, inviter' \in BOOLEAN, account' \in BOOLEAN, inviter' => inviter
      PROVE  CasesInv' /\ I!CasesFinal
  BY <1>1, <1>3, <1>5, DeciderMoves DEF I!Go
<1>6. ASSUME NEW s \in CaseStates \ {"none"}, I!settle(d, s), inviter' \in BOOLEAN, account' \in BOOLEAN, inviter' => inviter,
             s \in {"deleted", "gone"} => ~inviter'
      PROVE  CasesInv' /\ I!CasesFinal
  BY <1>1, <1>6, DeciderMoves DEF I!settle, I!Case
<1>7. ASSUME I!release(d), inviter' \in BOOLEAN, account' \in BOOLEAN, inviter' => inviter
      PROVE  CasesInv' /\ I!CasesFinal
  <2>1. cases' = [cases EXCEPT ![k] = "pending"] /\ work' = [work EXCEPT ![d] = Null]
    BY <1>2, <1>7 DEF I!release, I!Case
  <2>2. QED
    <3>1. "pending" \in CaseStates \ {"none"} /\ "pending" \notin {"deleted", "gone"}
      BY DEF CaseStates
    <3>2. \E s \in CaseStates \ {"none"} : /\ cases' = [cases EXCEPT ![k] = s]
                                           /\ s \in {"deleted", "gone"} => ~inviter'
      BY <2>1, <3>1
    <3>3. QED
      BY <1>1, <1>7, <2>1, <3>2, DeciderMoves
<1>8. inviter \in BOOLEAN /\ account \in BOOLEAN
  BY DEF CasesInv, CaseRows
<1> HIDE DEF k
<1>9. CASE I!Look(d)
  <2>1. UNCHANGED <<inviter, account>>
    BY <1>9 DEF I!Look, I!world
  <2>2. QED
    BY <1>5, <1>6, <1>8, <1>9, <2>1 DEF I!Look, CaseStates, I!Settled
<1>10. CASE I!Suspend(d) \/ I!SettleSuspended(d)
  BY <1>5, <1>6, <1>8, <1>10 DEF I!Suspend, I!SettleSuspended, I!world, CaseStates, I!Settled
<1>11. CASE I!List(d)
  <2>1. UNCHANGED <<inviter, account, cases>>
    BY <1>11 DEF I!List, I!world
  <2>2. CASE I!Go(d, "authorize")
    BY <1>5, <1>8, <2>1, <2>2
  <2>3. CASE work' = [work EXCEPT ![d].listed = ~account, ![d].pc = "authorize"]
    <3>1. (~account) \in BOOLEAN
      OBVIOUS
    <3>2. work' = [work EXCEPT ![d] = [work[d] EXCEPT !.listed = ~account, !.pc = "authorize"]]
      BY <1>4, <2>3, <3>1
    <3>3. \E v \in Decision : v.case = work[d].case /\ work' = [work EXCEPT ![d] = v]
      BY <1>4, <3>1, <3>2
    <3>4. QED
      BY <1>1, <1>8, <2>1, <3>3, DeciderMoves
  <2>4. QED
    BY <1>11, <2>2, <2>3 DEF I!List
<1>12. CASE I!Authorize(d)
  BY <1>5, <1>7, <1>8, <1>12 DEF I!Authorize, I!world
<1>13. CASE I!delete_emby_one(d)
  <2>1. UNCHANGED inviter /\ account' \in BOOLEAN
    BY <1>8, <1>13 DEF I!delete_emby_one
  <2>2. (I!Go(d, "remove") /\ UNCHANGED cases) \/ I!release(d)
    BY <1>13 DEF I!delete_emby_one
  <2>3. QED
    BY <1>5, <1>7, <1>8, <2>1, <2>2
<1>14. CASE I!RemoveRow(d)
  <2>1. inviter' = FALSE /\ account' = account /\ I!settle(d, "deleted")
    BY <1>14 DEF I!RemoveRow
  <2>2. QED
    BY <1>6, <1>8, <2>1 DEF CaseStates, I!Settled
<1>15. QED
  BY <1>9, <1>10, <1>11, <1>12, <1>13, <1>14 DEF I!Decide

LEMMA OpenStep ==
    ASSUME InviteConstants, CasesInv,
           \/ \E k \in Cases : I!open_case(k)
           \/ \E d \in Deciders, k \in Cases, a \in I!Actions : started /\ I!decide_case(d, k, a)
    PROVE  CasesInv' /\ I!CasesFinal
<1>1. ASSUME NEW k \in Cases, I!open_case(k) PROVE CasesInv' /\ I!CasesFinal
  <2>1. /\ cases[k] = "none" /\ cases' = [cases EXCEPT ![k] = "pending"] /\ letters' = [letters EXCEPT ![k] = "pending"]
        /\ UNCHANGED <<inviter, account, flushing, work, posts, started>>
    BY <1>1 DEF I!open_case, I!world
  <2>2. CaseRows'
    BY <2>1 DEF CasesInv, CaseRows, CaseStates
  <2>3. Letters'
    <3>1. /\ letters[k] = "none" /\ flushing # k /\ posts[k] = 0
          /\ letters'[k] = "pending" /\ \A c \in Cases \ {k} : letters'[c] = letters[c]
          /\ cases'[k] = "pending" /\ \A c \in Cases \ {k} : cases'[c] = cases[c]
      BY <2>1 DEF CasesInv, CaseRows, Letters
    <3>2. QED
      BY <2>1, <3>1 DEF CasesInv, Letters
  <2>4. I!CasesSound' /\ I!CasesFinal
    BY <2>1 DEF CasesInv, CaseRows, Decision, I!CasesSound, I!CasesFinal, I!Case, I!Settled
  <2>5. QED
    BY <2>2, <2>3, <2>4 DEF CasesInv
<1>2. ASSUME NEW d \in Deciders, NEW k \in Cases, NEW a \in I!Actions, started, I!decide_case(d, k, a)
      PROVE  CasesInv' /\ I!CasesFinal
  <2> DEFINE w == [case |-> k, action |-> a, listed |-> FALSE, pc |-> "look"]
  <2>1. /\ cases[k] = "pending" /\ cases' = [cases EXCEPT ![k] = "processing"] /\ work' = [work EXCEPT ![d] = w]
        /\ UNCHANGED <<inviter, account, letters, flushing, posts, started>>
    BY <1>2 DEF I!decide_case, I!Claimable, I!world, I!post
  <2>2. w \in Decision /\ w.case = k
    BY DEF Decision
  <2> HIDE DEF w
  <2>3. CaseRows'
    BY <2>1, <2>2 DEF CasesInv, CaseRows, CaseStates
  <2>4. Letters'
    BY <1>2, <2>1 DEF CasesInv, CaseRows, Letters
  <2>5. /\ \A e \in Deciders : work[e] # Null => work[e].case # k
        /\ work'[d] = w /\ \A e \in Deciders \ {d} : work'[e] = work[e]
        /\ cases'[k] = "processing" /\ \A c \in Cases \ {k} : cases'[c] = cases[c]
    BY <2>1 DEF CasesInv, CaseRows, I!CasesSound, I!Case
  <2>6. I!CasesSound'
    <3>1. \A e, f \in Deciders : work'[e] # Null /\ work'[f] # Null /\ work'[e].case = work'[f].case => e = f
      BY <2>2, <2>5 DEF CasesInv, I!CasesSound, I!Case
    <3>2. \A e \in Deciders : work'[e] # Null => cases'[work'[e].case] = "processing"
      BY <2>2, <2>5 DEF CasesInv, CaseRows, Decision, I!CasesSound, I!Case
    <3>3. \A c \in Cases : posts'[c] <= 1 /\ (cases'[c] \in {"deleted", "gone"} => ~inviter')
      BY <2>1, <2>5 DEF CasesInv, I!CasesSound
    <3>4. QED
      BY <3>1, <3>2, <3>3 DEF I!CasesSound, I!Case
  <2>7. I!CasesFinal
    BY <2>1, <2>5 DEF I!CasesFinal, I!Settled
  <2>8. QED
    BY <2>3, <2>4, <2>6, <2>7 DEF CasesInv
<1>3. QED
  BY <1>1, <1>2

(* The card of a case, and what happens elsewhere.                         *)
LEMMA CardStep ==
    ASSUME InviteConstants, CasesInv, \E k \in Cases : I!Take(k) \/ I!SendCard(k)
    PROVE  CasesInv' /\ I!CasesFinal
<1>1. PICK k \in Cases : I!Take(k) \/ I!SendCard(k)
  OBVIOUS
<1>2. UNCHANGED <<inviter, account, cases, work, started>> /\ k # Null
  BY <1>1 DEF I!Take, I!SendCard, I!world, InviteConstants
<1>3. CASE I!Take(k)
  <2>1. /\ flushing = Null /\ started /\ letters[k] = "pending" /\ UNCHANGED posts
        /\ \/ letters' = [letters EXCEPT ![k] = "sending"] /\ flushing' = k
           \/ letters' = [letters EXCEPT ![k] = "skipped"] /\ UNCHANGED flushing
    BY <1>3 DEF I!Take, I!Deliverable
  <2>2. CaseRows'
    BY <1>2, <2>1 DEF CasesInv, CaseRows
  <2>3. Letters'
    BY <1>2, <2>1 DEF CasesInv, CaseRows, Letters, InviteConstants
  <2>4. I!CasesSound' /\ I!CasesFinal
    BY <1>2, <2>1 DEF CasesInv, I!CasesSound, I!CasesFinal, I!Case
  <2>5. QED
    BY <2>2, <2>3, <2>4 DEF CasesInv
<1>4. CASE I!SendCard(k)
  <2>1. /\ flushing = k /\ flushing' = Null /\ posts[k] = 0
        /\ letters' \in {[letters EXCEPT ![k] = "sent"], [letters EXCEPT ![k] = "failed"]}
        /\ posts' \in {posts, [posts EXCEPT ![k] = @ + 1]}
    BY <1>4 DEF I!SendCard, CasesInv, Letters
  <2>2. posts' \in [Cases -> Nat] /\ posts'[k] \in {0, 1} /\ \A c \in Cases \ {k} : posts'[c] = posts[c]
    BY <2>1 DEF CasesInv, CaseRows
  <2>3. CaseRows'
    BY <1>2, <2>1, <2>2 DEF CasesInv, CaseRows
  <2>4. Letters'
    BY <1>2, <2>1, <2>2 DEF CasesInv, CaseRows, Letters, InviteConstants
  <2>5. I!CasesSound' /\ I!CasesFinal
    BY <1>2, <2>2 DEF CasesInv, I!CasesSound, I!CasesFinal, I!Case
  <2>6. QED
    BY <2>3, <2>4, <2>5 DEF CasesInv
<1>5. QED
  BY <1>1, <1>3, <1>4

LEMMA WorldStep ==
    ASSUME InviteConstants, CasesInv, I!Distrust \/ I!Elsewhere \/ I!Crash \/ I!recover \/ UNCHANGED I!vars
    PROVE  CasesInv' /\ I!CasesFinal
<1>1. CASE I!Distrust \/ I!Elsewhere \/ UNCHANGED I!vars
  <2>1. /\ UNCHANGED <<cases, letters, flushing, work, posts, started>>
        /\ inviter' \in BOOLEAN /\ account' \in BOOLEAN /\ (inviter' => inviter)
    <3>1. inviter \in BOOLEAN /\ account \in BOOLEAN
      BY DEF CasesInv, CaseRows
    <3>2. CASE I!Distrust
      BY <3>1, <3>2 DEF I!Distrust, I!post
    <3>3. CASE I!Elsewhere
      <4>1. UNCHANGED <<cases, letters, flushing, work, posts, started>>
        BY <3>3 DEF I!Elsewhere, I!post
      <4>2. (inviter' = FALSE /\ account' = FALSE) \/ UNCHANGED <<inviter, account>>
        BY <3>3 DEF I!Elsewhere
      <4>3. CASE inviter' = FALSE /\ account' = FALSE
        BY <4>1, <4>3
      <4>4. CASE UNCHANGED <<inviter, account>>
        BY <3>1, <4>1, <4>4
      <4>5. QED
        BY <4>2, <4>3, <4>4
    <3>4. CASE UNCHANGED I!vars
      BY <3>1, <3>4 DEF I!vars
    <3>5. QED
      BY <1>1, <3>2, <3>3, <3>4
  <2>2. CaseRows' /\ Letters'
    BY <2>1 DEF CasesInv, CaseRows, Letters
  <2>3. I!CasesSound' /\ I!CasesFinal
    BY <2>1 DEF CasesInv, I!CasesSound, I!CasesFinal, I!Case
  <2>4. QED
    BY <2>2, <2>3 DEF CasesInv
<1>2. CASE I!Crash
  <2>1. /\ started' = FALSE /\ flushing' = Null /\ work' = [d \in Deciders |-> Null]
        /\ account' \in {account, FALSE} /\ UNCHANGED <<inviter, cases, letters>>
        /\ posts' \in (IF flushing = Null THEN {posts} ELSE {posts, [posts EXCEPT ![flushing] = @ + 1]})
    BY <1>2 DEF I!Crash
  <2>2. /\ posts' \in [Cases -> Nat]
        /\ \A k \in Cases : posts'[k] = posts[k] \/ (flushing = k /\ posts'[k] = posts[k] + 1)
    BY <2>1 DEF CasesInv, CaseRows
  <2>3. CaseRows'
    BY <2>1, <2>2 DEF CasesInv, CaseRows
  <2>4. \A k \in Cases : /\ posts[k] \in Nat /\ (flushing = k => posts[k] = 0 /\ letters[k] = "sending")
                         /\ posts[k] <= 1 /\ (letters[k] \in {"none", "pending", "skipped"} => posts[k] = 0)
    BY DEF CasesInv, CaseRows, Letters
  <2>5. \A k \in Cases : posts'[k] <= 1 /\ (letters[k] \in {"none", "pending", "skipped"} => posts'[k] = 0)
    BY <2>2, <2>4
  <2>6. Letters'
    BY <2>1, <2>5 DEF CasesInv, Letters, InviteConstants
  <2>7. I!CasesSound' /\ I!CasesFinal
    BY <2>1, <2>5 DEF CasesInv, I!CasesSound, I!CasesFinal, I!Case
  <2>8. QED
    BY <2>3, <2>6, <2>7 DEF CasesInv
<1>3. CASE I!recover
  <2>1. /\ cases' = [k \in Cases |-> I!Recovered(k)] /\ letters' = [k \in Cases |-> I!Unsent(letters[k])]
        /\ UNCHANGED <<inviter, account, flushing, work, posts>> /\ ~started /\ started'
    BY <1>3 DEF I!recover, I!world
  <2>2. flushing = Null /\ \A d \in Deciders : work[d] = Null
    BY <2>1 DEF CasesInv, Letters
  <2>3. CaseRows'
    BY <2>1 DEF CasesInv, CaseRows, CaseStates, I!Recovered, I!Unsent, I!Settled
  <2>4. Letters'
    BY <2>1, <2>2 DEF CasesInv, CaseRows, Letters, I!Unsent, I!Recovered, InviteConstants
  <2>5. I!CasesSound'
    BY <2>1, <2>2 DEF CasesInv, I!CasesSound, I!Recovered
  <2>6. I!CasesFinal
    BY <2>1 DEF I!CasesFinal, I!Recovered, I!Settled
  <2>7. QED
    BY <2>3, <2>4, <2>5, <2>6 DEF CasesInv
<1>4. QED
  BY <1>1, <1>2, <1>3

(* For any number of cases and of administrators who decide at once, with   *)
(* crashes between any two steps: one of them proceeds, the group sees a    *)
(* case at most once, a case says that the inviter is gone only when he is, *)
(* and a settled case stays settled (invite_tree.py, bot_invites.py).       *)
THEOREM InviteCasesSound ==
    ASSUME InviteConstants
    PROVE  I!Init /\ [][I!Next]_(I!vars) => []I!CasesSound /\ [][I!CasesFinal]_(I!vars)
<1>1. I!Init => CasesInv
  BY CasesInit
<1>2. CasesInv /\ [I!Next]_(I!vars) => CasesInv' /\ I!CasesFinal
  BY DecideStep, OpenStep, CardStep, WorldStep DEF I!Next
<1>3. CasesInv => I!CasesSound
  BY DEF CasesInv
<1>4. QED
  BY <1>1, <1>2, <1>3, PTL

(*-------------------------------------------------------------------------*)
(* The linked chats.                                                       *)
CONSTANTS Chats, Ids, Handlers, MaxUpdates
VARIABLES inside, updates, offset, confirmed, row, emby, rules, epoch, epochs, heads, marks,
          busy, writing, verdicts

M == INSTANCE Membership WITH faults <- mishaps

(* A task is not Null.                                                     *)
MemberConstants == Null \notin M!Tasks

Updates == [key : M!Keys \cup {Null}, date : Nat, state : M!Presence]

MemberRows ==
  /\ clock \in Nat /\ updates \in Seq(Updates)
  /\ offset \in Nat /\ confirmed \in Nat /\ confirmed <= offset /\ offset <= Len(updates)
  /\ marks \in [M!Keys -> Nat] /\ writing = [k \in M!Keys |-> writing[k]]
  /\ row = [here |-> row.here, tg |-> row.tg, bound |-> row.bound, admin |-> row.admin]
  /\ emby = [here |-> emby.here, admin |-> emby.admin]
  /\ work = [t \in M!Tasks |-> work[t]]
  /\ \A t \in M!Tasks : work[t] # Null =>
        work[t] = [pc |-> work[t].pc, id |-> work[t].id, bound |-> work[t].bound, update |-> work[t].update,
                   fingerprint |-> work[t].fingerprint, observed |-> work[t].observed, ask |-> work[t].ask,
                   state |-> work[t].state, stale |-> work[t].stale]

(* A task that stores a mark holds the lock of the mark, and its update is  *)
(* newer than what the mark says.                                          *)
Writes ==
  /\ \A t \in M!Tasks : M!At(t, "write") \/ M!At(t, "store") =>
        work[t].update \in 1 .. Len(updates) /\ updates[work[t].update].key \in M!Keys
  /\ \A t \in M!Tasks : M!At(t, "store") =>
        writing[M!key(t)] = t /\ marks[M!key(t)] < work[t].update

(* A row is removed by who has been told that the account is gone.         *)
Told ==
  /\ M!RowOutlivesAccount
  /\ \A t \in M!Tasks : M!At(t, "remove") => ~emby.here

MemberInv == MemberRows /\ Writes /\ Told

(* A step that begins nothing and stores nothing: tasks end, or go on with  *)
(* something else.                                                         *)
Idle(t) ==
  /\ work'[t] # Null => work'[t] = [pc |-> work'[t].pc, id |-> work'[t].id, bound |-> work'[t].bound,
       update |-> work'[t].update, fingerprint |-> work'[t].fingerprint, observed |-> work'[t].observed,
       ask |-> work'[t].ask, state |-> work'[t].state, stale |-> work'[t].stale]
  /\ \/ work'[t] = Null
     \/ work'[t].pc \notin {"write", "store", "remove"}
     \/ M!At(t, work'[t].pc) /\ work'[t].update = work[t].update

Aside ==
  /\ work' = [t \in M!Tasks |-> work'[t]] /\ \A t \in M!Tasks : Idle(t)
  /\ UNCHANGED <<clock, updates, marks, writing, emby>>
  /\ row' = [here |-> row.here, tg |-> row'.tg, bound |-> row'.bound, admin |-> row'.admin]
  /\ offset' \in Nat /\ confirmed' \in Nat /\ confirmed' <= offset' /\ offset' <= Len(updates)

LEMMA AsideKeeps == ASSUME MemberInv, Aside PROVE MemberInv'
<1>1. MemberRows'
  BY DEF MemberInv, MemberRows, Aside, Idle
<1>2. \A t \in M!Tasks : /\ M!At(t, "write")' => M!At(t, "write") /\ work'[t].update = work[t].update
                         /\ M!At(t, "store")' => M!At(t, "store") /\ work'[t].update = work[t].update
                         /\ M!At(t, "remove")' => M!At(t, "remove")
  BY DEF Aside, Idle, M!At
<1>3. Writes'
  BY <1>2 DEF MemberInv, Writes, Aside, M!key
<1>4. Told'
  BY <1>2 DEF MemberInv, Told, Aside, M!RowOutlivesAccount, MemberRows
<1>5. QED
  BY <1>1, <1>3, <1>4 DEF MemberInv

LEMMA AnAnswer ==
  ASSUME NEW w, NEW asked, NEW s,
         w = [pc |-> w.pc, id |-> w.id, bound |-> w.bound, update |-> w.update, fingerprint |-> w.fingerprint,
              observed |-> w.observed, ask |-> w.ask, state |-> w.state, stale |-> w.stale],
         NEW v, v = [w EXCEPT !.ask = asked, !.state = s]
  PROVE  /\ v.pc = w.pc /\ v.update = w.update
         /\ v = [pc |-> v.pc, id |-> v.id, bound |-> v.bound, update |-> v.update, fingerprint |-> v.fingerprint,
                 observed |-> v.observed, ask |-> v.ask, state |-> v.state, stale |-> v.stale]
OBVIOUS

(* A task goes on with another step, or ends.                              *)
LEMMA GoesOn ==
  ASSUME MemberInv, NEW t \in M!Tasks, work[t] # Null,
         NEW pc, pc \notin {"write", "store", "remove"}, M!To(t, pc) \/ M!Ends(t),
         UNCHANGED <<M!outside, M!memory, row, emby, marks, writing>>
  PROVE  Aside
<1>1. UNCHANGED <<clock, updates, offset, confirmed, row, emby, marks, writing>>
  BY DEF M!outside, M!memory
<1>2. /\ work' = [r \in M!Tasks |-> work'[r]] /\ \A r \in M!Tasks \ {t} : work'[r] = work[r]
      /\ work'[t] = Null \/ work'[t] = [work[t] EXCEPT !.pc = pc]
  BY DEF M!To, M!Ends, MemberInv, MemberRows
<1>3. work[t] = [pc |-> work[t].pc, id |-> work[t].id, bound |-> work[t].bound, update |-> work[t].update,
         fingerprint |-> work[t].fingerprint, observed |-> work[t].observed, ask |-> work[t].ask,
         state |-> work[t].state, stale |-> work[t].stale]
  BY DEF MemberInv, MemberRows
<1>4. Idle(t)
  BY <1>2, <1>3 DEF Idle
<1>5. \A r \in M!Tasks \ {t} : Idle(r)
  BY <1>2 DEF Idle, M!At, MemberInv, MemberRows
<1>6. QED
  BY <1>1, <1>2, <1>4, <1>5 DEF Aside, MemberInv, MemberRows

(* The handlers that only go on with a task that is neither storing a mark  *)
(* nor removing the row.                                                   *)
LEMMA Moves ==
  ASSUME MemberInv, NEW t \in M!Tasks,
         \/ M!Begin(t) \/ M!ReadAdmin(t) \/ (\E c \in Chats : M!Ask(t, c)) \/ M!Judge(t) \/ M!Authorize(t)
         \/ M!Recheck(t) \/ M!ReadAdminAgain(t) \/ M!Issue(t)
  PROVE  Aside
<1>1. CASE M!Begin(t)
  BY <1>1, GoesOn DEF M!Begin, M!At
<1>2. CASE M!ReadAdmin(t)
  <2>1. CASE M!Ends(t)
    BY <1>2, <2>1, GoesOn, "listed" \notin {"write", "store", "remove"} DEF M!ReadAdmin, M!At
  <2>2. CASE work' = [work EXCEPT ![t] = [M!Asking(@) EXCEPT !.pc = "check"]]
    <3>1. PICK v : /\ v = [M!Asking(work[t]) EXCEPT !.pc = "check"]
                   /\ work' = [work EXCEPT ![t] = v]
      BY <2>2
    <3>2. work[t] = [pc |-> work[t].pc, id |-> work[t].id, bound |-> work[t].bound, update |-> work[t].update,
             fingerprint |-> work[t].fingerprint, observed |-> work[t].observed, ask |-> work[t].ask,
             state |-> work[t].state, stale |-> work[t].stale]
      BY <1>2 DEF M!ReadAdmin, M!At, MemberInv, MemberRows
    <3>3. /\ v.pc = "check"
          /\ v = [pc |-> v.pc, id |-> v.id, bound |-> v.bound, update |-> v.update, fingerprint |-> v.fingerprint,
                  observed |-> v.observed, ask |-> v.ask, state |-> v.state, stale |-> v.stale]
      BY <3>1, <3>2 DEF M!Asking
    <3>4. \A r \in M!Tasks : Idle(r)
      BY <3>1, <3>3 DEF Idle, M!At, MemberInv, MemberRows
    <3>5. QED
      BY <1>2, <3>1, <3>4 DEF M!ReadAdmin, MemberInv, MemberRows, Aside, M!outside, M!memory
  <2>3. QED
    BY <1>2, <2>1, <2>2 DEF M!ReadAdmin
<1>3. CASE \E c \in Chats : M!Ask(t, c)
  <2> USE DEF MemberInv, MemberRows, Aside, Idle, M!At, M!outside, M!memory
  <2>1. PICK c \in Chats : M!Ask(t, c)
    BY <1>3
  <2>2. PICK a \in M!Presence : work' = [work EXCEPT ![t] = M!Heard(@, c, a)]
    BY <2>1 DEF M!Ask, M!Presence
  <2>3. \E s : work' = [work EXCEPT ![t] = [work[t] EXCEPT !.ask = @ \ {c}, !.state = s]]
    BY <2>2, Zenon DEF M!Heard
  <2>4. work[t] # Null
    BY <2>1 DEF M!Ask
  <2>5. \A s \in M!Tasks : Idle(s)
    <3>1. PICK s : work' = [work EXCEPT ![t] = [work[t] EXCEPT !.ask = @ \ {c}, !.state = s]]
      BY <2>3
    <3>2. work[t] = [pc |-> work[t].pc, id |-> work[t].id, bound |-> work[t].bound, update |-> work[t].update,
             fingerprint |-> work[t].fingerprint, observed |-> work[t].observed, ask |-> work[t].ask,
             state |-> work[t].state, stale |-> work[t].stale]
      BY <2>4
    <3>3. work'[t] = [work[t] EXCEPT !.ask = @ \ {c}, !.state = s] /\ \A r \in M!Tasks \ {t} : work'[r] = work[r]
      BY <3>1
    <3>4. Idle(t)
      BY <2>4, <3>2, <3>3, AnAnswer DEF Idle, M!At
    <3>5. QED
      BY <3>3, <3>4 DEF Idle, M!At
  <2>6. QED
    BY <2>1, <2>3, <2>5 DEF M!Ask
<1>4. CASE M!Judge(t)
  BY <1>4, GoesOn DEF M!Judge, M!At
<1>5. CASE M!Authorize(t)
  <2>1. CASE M!Ends(t)
    BY <1>5, <2>1, GoesOn, "listed" \notin {"write", "store", "remove"} DEF M!Authorize, M!At
  <2>2. CASE work' = [work EXCEPT ![t] = [M!Asking(@) EXCEPT !.pc = "recheck", !.observed = epochs[work[t].id]]]
    <3>1. PICK v : /\ v = [M!Asking(work[t]) EXCEPT !.pc = "recheck", !.observed = epochs[work[t].id]]
                   /\ work' = [work EXCEPT ![t] = v]
      BY <2>2
    <3>2. work[t] = [pc |-> work[t].pc, id |-> work[t].id, bound |-> work[t].bound, update |-> work[t].update,
             fingerprint |-> work[t].fingerprint, observed |-> work[t].observed, ask |-> work[t].ask,
             state |-> work[t].state, stale |-> work[t].stale]
      BY <1>5 DEF M!Authorize, M!At, MemberInv, MemberRows
    <3>3. /\ v.pc = "recheck"
          /\ v = [pc |-> v.pc, id |-> v.id, bound |-> v.bound, update |-> v.update, fingerprint |-> v.fingerprint,
                  observed |-> v.observed, ask |-> v.ask, state |-> v.state, stale |-> v.stale]
      BY <3>1, <3>2 DEF M!Asking
    <3>4. \A r \in M!Tasks : Idle(r)
      BY <3>1, <3>3 DEF Idle, M!At, MemberInv, MemberRows
    <3>5. QED
      BY <1>5, <3>1, <3>4 DEF M!Authorize, MemberInv, MemberRows, Aside, M!outside, M!memory
  <2>3. QED
    BY <1>5, <2>1, <2>2 DEF M!Authorize
<1>6. CASE M!Recheck(t)
  BY <1>6, GoesOn DEF M!Recheck, M!At
<1>7. CASE M!ReadAdminAgain(t)
  BY <1>7, GoesOn DEF M!ReadAdminAgain, M!At
<1>8. CASE M!Issue(t)
  BY <1>8, GoesOn DEF M!Issue, M!At
<1>9. QED
  BY <1>1, <1>2, <1>3, <1>4, <1>5, <1>6, <1>7, <1>8

(* News makes tasks out of date, and does nothing else to them.            *)
Marked(t) == work'[t] \in {work[t], [work[t] EXCEPT !.stale = TRUE]} /\ (work[t] = Null => work'[t] = Null)

LEMMA Changes ==
  ASSUME MemberInv,
         (\E id \in Ids : M!Rebind(id)) \/ M!Promote \/ \E d \in BOOLEAN : M!Save(d)
  PROVE  Aside
<1>1. work' = [t \in M!Tasks |-> work'[t]] /\ \A t \in M!Tasks : Marked(t)
  <2>1. CASE \E id \in Ids : M!Rebind(id)
    <3>1. work' = [t \in M!Tasks |-> IF work[t] # Null /\ work[t].bound # Null
                                      THEN [work[t] EXCEPT !.stale = TRUE] ELSE work[t]]
      BY <2>1, Zenon DEF M!Rebind, M!Outdated
    <3>2. QED
      BY <3>1 DEF Marked
  <2>2. CASE M!Promote
    <3>1. work' = [t \in M!Tasks |-> IF work[t] # Null /\ work[t].bound # Null
                                      THEN [work[t] EXCEPT !.stale = TRUE] ELSE work[t]]
      BY <2>2, Zenon DEF M!Promote, M!Outdated
    <3>2. QED
      BY <3>1 DEF Marked
  <2>3. CASE \E d \in BOOLEAN : M!Save(d)
    <3>1. work' = [t \in M!Tasks |-> IF work[t] # Null /\ TRUE
                                      THEN [work[t] EXCEPT !.stale = TRUE] ELSE work[t]]
      BY <2>3, Zenon DEF M!Save, M!Outdated
    <3>2. QED
      BY <3>1 DEF Marked
  <2>4. QED
    BY <2>1, <2>2, <2>3
<1>2. \A t \in M!Tasks : Idle(t)
  BY <1>1 DEF Marked, Idle, M!At, MemberInv, MemberRows
<1>3. /\ UNCHANGED <<clock, updates, marks, writing, emby, offset, confirmed>>
      /\ row' = row \/ (\E id \in Ids : row' = [row EXCEPT !.tg = id, !.bound = clock]) \/ row' = [row EXCEPT !.admin = TRUE]
  <2>1. CASE \E id \in Ids : M!Rebind(id)
    BY <2>1, Zenon DEF M!Rebind, M!memory
  <2>2. CASE M!Promote
    BY <2>2, Zenon DEF M!Promote, M!memory
  <2>3. CASE \E d \in BOOLEAN : M!Save(d)
    BY <2>3, Zenon DEF M!Save, M!memory
  <2>4. QED
    BY <2>1, <2>2, <2>3
<1>4. QED
  BY <1>1, <1>2, <1>3 DEF Aside, MemberInv, MemberRows

LEMMA Arrivals ==
  ASSUME MemberInv,
         M!Tick \/ (\E k \in M!Keys : M!Move(k)) \/ M!Demoted
  PROVE  MemberInv'
<1>1. /\ UNCHANGED <<offset, confirmed, marks, writing, row, emby, work>> /\ clock' \in Nat
      /\ updates' = updates \/ \E u \in Updates : updates' = Append(updates, u)
  <2>1. CASE M!Tick
    BY <2>1 DEF M!Tick, M!memory, MemberInv, MemberRows
  <2>2. ASSUME NEW k \in M!Keys, M!Move(k) PROVE <1>1!:
    <3>1. /\ UNCHANGED <<offset, confirmed, marks, writing, row, emby, work, clock>>
          /\ updates' = Append(updates, [key |-> k, date |-> clock, state |-> IF k \in inside THEN "absent" ELSE "present"])
      BY <2>2 DEF M!Move, M!memory
    <3>2. [key |-> k, date |-> clock, state |-> IF k \in inside THEN "absent" ELSE "present"] \in Updates
      BY DEF Updates, M!Presence, MemberInv, MemberRows
    <3>3. QED
      BY <3>1, <3>2 DEF MemberInv, MemberRows
  <2>3. CASE M!Demoted
    <3>1. /\ UNCHANGED <<offset, confirmed, marks, writing, row, emby, work, clock>>
          /\ updates' = Append(updates, [key |-> Null, date |-> clock, state |-> "unknown"])
      BY <2>3 DEF M!Demoted, M!memory
    <3>2. [key |-> Null, date |-> clock, state |-> "unknown"] \in Updates
      BY DEF Updates, M!Presence, MemberInv, MemberRows
    <3>3. QED
      BY <3>1, <3>2 DEF MemberInv, MemberRows
  <2>4. QED
    BY <2>1, <2>2, <2>3
<1>2. /\ updates' \in Seq(Updates) /\ Len(updates') \in Nat /\ Len(updates) \in Nat /\ Len(updates) <= Len(updates')
      /\ \A i \in 1 .. Len(updates) : updates'[i] = updates[i]
  <2>1. updates \in Seq(Updates)
    BY DEF MemberInv, MemberRows
  <2>2. CASE updates' = updates
    BY <2>1, <2>2
  <2>3. ASSUME NEW u \in Updates, updates' = Append(updates, u) PROVE <1>2!:
    BY <2>1, <2>3
  <2>4. QED
    BY <1>1, <2>2, <2>3
<1>3. MemberRows'
  BY <1>1, <1>2 DEF MemberInv, MemberRows
<1>4. \A t \in M!Tasks : M!At(t, "write") \/ M!At(t, "store") => M!key(t)' = M!key(t) /\ work[t].update \in 1 .. Len(updates)
  BY <1>1, <1>2 DEF M!key, MemberInv, Writes
<1>5. Writes'
  <2>1. \A t \in M!Tasks : /\ M!At(t, "write")' <=> M!At(t, "write")
                           /\ M!At(t, "store")' <=> M!At(t, "store")
    BY <1>1 DEF M!At
  <2>2. QED
    BY <1>1, <1>2, <1>4, <2>1 DEF Writes, MemberInv, M!key
<1>6. Told'
  BY <1>1 DEF MemberInv, Told, M!RowOutlivesAccount, M!At
<1>7. QED
  BY <1>3, <1>5, <1>6 DEF MemberInv

(* An update is taken: what it makes out of date is marked, and whoever     *)
(* takes it has still to read the mark.                                    *)
LEMMA Taken ==
  ASSUME MemberInv, NEW h \in Handlers, M!handle_update(h)
  PROVE  MemberInv'
<1> DEFINE u == updates[offset']
           first == M!Task("write", u.key[2], Null, offset')
           marking == [t \in M!Tasks |->
              IF work[t] # Null /\ work[t].id = u.key[2] /\ (u.state = "absent" <=> work[t].pc = "gate")
              THEN [work[t] EXCEPT !.stale = TRUE] ELSE work[t]]
           allstale == [t \in M!Tasks |-> IF work[t] # Null /\ TRUE
                                           THEN [work[t] EXCEPT !.stale = TRUE] ELSE work[t]]
<1>1. /\ work[h] = Null /\ offset < Len(updates) /\ offset' = offset + 1 /\ confirmed' \in {confirmed, offset}
      /\ UNCHANGED <<clock, updates, row, emby, marks, writing>>
  BY DEF M!handle_update, M!outside
<1>2. /\ h \in M!Tasks /\ offset' \in 1 .. Len(updates) /\ u \in Updates
  BY <1>1 DEF M!Tasks, MemberInv, MemberRows
<1>3. \/ work' = allstale
      \/ u.key # Null /\ work' = [marking EXCEPT ![h] = first]
      \/ work' = work
  <2>1. PICK v \in {u} :
           IF v.key = Null
           THEN work' = allstale
           ELSE IF M!Fresh(v, offset')
                THEN work' = [[t \in M!Tasks |->
                        IF work[t] # Null /\ work[t].id = v.key[2] /\ (v.state = "absent" <=> work[t].pc = "gate")
                        THEN [work[t] EXCEPT !.stale = TRUE] ELSE work[t]]
                        EXCEPT ![h] = M!Task("write", v.key[2], Null, offset')]
                ELSE work' = work
    BY ZenonT(80) DEF M!handle_update, M!Outdated
  <2>2. v = u
    OBVIOUS
  <2>3. QED
    BY <2>1, <2>2, Zenon
<1>4. /\ work' = [t \in M!Tasks |-> work'[t]]
      /\ \A t \in M!Tasks \ {h} : Marked(t)
      /\ Marked(h) \/ (u.key \in M!Keys /\ work'[h] = first)
  <2>1. u.key \in M!Keys \cup {Null}
    BY <1>2 DEF Updates
  <2> HIDE DEF u, first
  <2>2. QED
    BY <1>2, <1>3, <2>1 DEF Marked, MemberInv, MemberRows
<1>5. first.pc = "write" /\ first.update = offset'
      /\ first = [pc |-> first.pc, id |-> first.id, bound |-> first.bound, update |-> first.update,
            fingerprint |-> first.fingerprint, observed |-> first.observed, ask |-> first.ask,
            state |-> first.state, stale |-> first.stale]
  BY DEF M!Task
<1> HIDE DEF first, marking, allstale
<1>6. MemberRows'
  <2>1. \A t \in M!Tasks : work'[t] # Null =>
           work'[t] = [pc |-> work'[t].pc, id |-> work'[t].id, bound |-> work'[t].bound, update |-> work'[t].update,
                   fingerprint |-> work'[t].fingerprint, observed |-> work'[t].observed, ask |-> work'[t].ask,
                   state |-> work'[t].state, stale |-> work'[t].stale]
    BY <1>2, <1>4, <1>5 DEF Marked, MemberInv, MemberRows
  <2>2. offset' \in Nat /\ confirmed' \in Nat /\ confirmed' <= offset' /\ offset' <= Len(updates)
    BY <1>1 DEF MemberInv, MemberRows
  <2>3. QED
    BY <1>1, <1>4, <2>1, <2>2 DEF MemberInv, MemberRows
<1>7. \A t \in M!Tasks : /\ M!At(t, "store")' => M!At(t, "store") /\ work'[t].update = work[t].update
                         /\ M!At(t, "write")' => \/ M!At(t, "write") /\ work'[t].update = work[t].update
                                                 \/ t = h /\ work'[t].update = offset' /\ u.key \in M!Keys
                         /\ M!At(t, "remove")' => M!At(t, "remove")
  BY <1>2, <1>4, <1>5 DEF Marked, M!At, MemberInv, MemberRows
<1>8. Writes'
  BY <1>1, <1>2, <1>7 DEF MemberInv, Writes, M!key
<1>9. Told'
  BY <1>1, <1>7 DEF MemberInv, Told, M!RowOutlivesAccount
<1>10. QED
  BY <1>6, <1>8, <1>9 DEF MemberInv

LEMMA MarkRead ==
  ASSUME MemberConstants, MemberInv, NEW h \in Handlers, M!ReadMark(h)
  PROVE  MemberInv'
<1> DEFINE k == M!key(h)
<1>1. /\ h \in M!Tasks /\ M!At(h, "write") /\ writing[k] = Null
      /\ UNCHANGED <<clock, updates, offset, confirmed, row, emby, marks>>
  BY DEF M!ReadMark, M!Tasks, M!outside
<1>2. work[h].update \in 1 .. Len(updates) /\ updates[work[h].update].key \in M!Keys /\ k = updates[work[h].update].key
  BY <1>1 DEF MemberInv, Writes, M!key
<1>3. CASE M!Ends(h) /\ UNCHANGED writing
  <2>1. Aside
    BY <1>1, <1>3 DEF Aside, Idle, M!Ends, M!At, MemberInv, MemberRows
  <2>2. QED
    BY <2>1, AsideKeeps
<1>4. CASE ~M!Superseded(h) /\ M!To(h, "store") /\ writing' = [writing EXCEPT ![k] = h]
  <2>1. /\ work' = [work EXCEPT ![h].pc = "store"] /\ work[h] # Null /\ work[h].pc = "write"
    BY <1>1, <1>4 DEF M!To, M!At
  <2>2. work' = [t \in M!Tasks |-> work'[t]]
    BY <2>1 DEF MemberInv, MemberRows
  <2>3. \A t \in M!Tasks \ {h} : work'[t] = work[t]
    BY <2>1 DEF MemberInv, MemberRows
  <2>4. /\ work'[h].pc = "store" /\ work'[h].update = work[h].update
        /\ work'[h] = [pc |-> work'[h].pc, id |-> work'[h].id, bound |-> work'[h].bound, update |-> work'[h].update,
                   fingerprint |-> work'[h].fingerprint, observed |-> work'[h].observed, ask |-> work'[h].ask,
                   state |-> work'[h].state, stale |-> work'[h].stale]
    BY <1>1, <2>1 DEF MemberInv, MemberRows
  <2>5. MemberRows'
    <3>1. \A t \in M!Tasks : work'[t] # Null =>
            work'[t] = [pc |-> work'[t].pc, id |-> work'[t].id, bound |-> work'[t].bound, update |-> work'[t].update,
                   fingerprint |-> work'[t].fingerprint, observed |-> work'[t].observed, ask |-> work'[t].ask,
                   state |-> work'[t].state, stale |-> work'[t].stale]
      BY <2>3, <2>4 DEF MemberInv, MemberRows
    <3>2. writing' = [j \in M!Keys |-> writing'[j]]
      BY <1>4 DEF MemberInv, MemberRows
    <3>3. QED
      BY <1>1, <2>2, <3>1, <3>2 DEF MemberInv, MemberRows
  <2>6. marks[k] < work[h].update
    BY <1>2, <1>4 DEF M!Superseded, MemberInv, MemberRows
  <2>7. \A t \in M!Tasks : M!key(t)' = updates[work'[t].update].key
    BY <1>1 DEF M!key
  <2>8. \A t \in M!Tasks \ {h} : M!At(t, "store") => writing[M!key(t)] = t /\ t # Null /\ M!key(t) # k
    <3>1. ASSUME NEW t \in M!Tasks \ {h}, M!At(t, "store") PROVE writing[M!key(t)] = t
      BY <3>1 DEF MemberInv, Writes
    <3>2. ASSUME NEW t \in M!Tasks \ {h}, M!At(t, "store") PROVE t # Null
      BY <3>2 DEF MemberConstants
    <3>3. QED
      BY <1>1, <3>1, <3>2
  <2>9. Writes'
    <3>1. /\ work'[h].update \in 1 .. Len(updates) /\ M!key(h)' = k /\ k \in M!Keys
          /\ writing'[k] = h /\ marks[k] < work'[h].update
      <4>1. M!key(h)' = k
        BY <1>1, <1>2, <2>4, <2>7
      <4>2. writing'[k] = h
        BY <1>2, <1>4 DEF MemberInv, MemberRows
      <4>3. QED
        BY <1>2, <2>4, <2>6, <4>1, <4>2
    <3>2. ASSUME NEW t \in M!Tasks \ {h}
          PROVE  /\ M!At(t, "write")' <=> M!At(t, "write")
                 /\ M!At(t, "store")' <=> M!At(t, "store")
                 /\ M!key(t)' = M!key(t) /\ work'[t].update = work[t].update
      BY <1>1, <2>3 DEF M!At, M!key
    <3>3. \A t \in M!Tasks \ {h} : M!At(t, "store") => writing'[M!key(t)] = t
      BY <1>4, <2>8 DEF MemberInv, MemberRows, Writes, M!key
    <3>4. QED
      BY <1>1, <3>1, <3>2, <3>3 DEF MemberInv, Writes, M!key
  <2>10. Told'
    BY <1>1, <2>3, <2>4 DEF MemberInv, Told, M!RowOutlivesAccount, M!At
  <2>11. QED
    BY <2>5, <2>9, <2>10 DEF MemberInv
<1>5. QED
  BY <1>3, <1>4 DEF M!ReadMark

LEMMA MarkStored ==
  ASSUME MemberInv, NEW h \in Handlers, M!StoreMark(h)
  PROVE  MemberInv' /\ \A k \in M!Keys : marks'[k] >= marks[k]
<1> DEFINE k == M!key(h)
<1>1. /\ h \in M!Tasks /\ M!At(h, "store")
      /\ UNCHANGED <<clock, updates, offset, confirmed, row, emby>>
      /\ marks' = [marks EXCEPT ![k] = work[h].update] /\ writing' = [writing EXCEPT ![k] = Null]
      /\ M!To(h, "find") \/ M!Ends(h)
  BY DEF M!StoreMark, M!Tasks, M!outside, M!memory
<1>2. /\ work[h].update \in 1 .. Len(updates) /\ updates[work[h].update].key \in M!Keys /\ k \in M!Keys
      /\ writing[k] = h /\ marks[k] < work[h].update
  BY <1>1 DEF MemberInv, Writes, M!key
<1>3. /\ \A t \in M!Tasks : Idle(t) /\ (t # h => work'[t] = work[t])
      /\ ~M!At(h, "store")' /\ ~M!At(h, "write")' /\ work' = [t \in M!Tasks |-> work'[t]]
  BY <1>1 DEF M!To, M!Ends, Idle, M!At, MemberInv, MemberRows
<1>4. MemberRows'
  <2>1. work[h].update \in Nat
    BY <1>2 DEF MemberInv, MemberRows
  <2>2. marks' \in [M!Keys -> Nat] /\ writing' = [j \in M!Keys |-> writing'[j]]
    BY <1>1, <1>2, <2>1 DEF MemberInv, MemberRows
  <2>3. QED
    BY <1>1, <1>3, <2>2 DEF MemberInv, MemberRows, Idle
<1>5. Writes'
  <2>1. \A t \in M!Tasks \ {h} : M!At(t, "store") => M!key(t) # k /\ M!key(t) \in M!Keys
    BY <1>2 DEF MemberInv, Writes, M!key
  <2>2. \A t \in M!Tasks \ {h} : M!key(t)' = M!key(t) /\ (M!At(t, "store")' <=> M!At(t, "store"))
                                                    /\ (M!At(t, "write")' <=> M!At(t, "write"))
    BY <1>1, <1>3 DEF M!key, M!At
  <2>3. QED
    <3>1. \A t \in M!Tasks \ {h} : M!At(t, "store") => writing'[M!key(t)] = writing[M!key(t)] /\ marks'[M!key(t)] = marks[M!key(t)]
      BY <1>1, <2>1 DEF MemberInv, MemberRows
    <3>2. \A t \in M!Tasks \ {h} : work'[t].update = work[t].update
      BY <1>3
    <3>3. QED
      BY <1>1, <1>3, <2>1, <2>2, <3>1, <3>2 DEF MemberInv, Writes, M!key
<1>6. Told'
  BY <1>1, <1>3 DEF MemberInv, Told, M!RowOutlivesAccount, M!At, Idle
<1>7. \A j \in M!Keys : marks'[j] >= marks[j]
  BY <1>1, <1>2 DEF MemberInv, MemberRows
<1>8. QED
  BY <1>4, <1>5, <1>6, <1>7 DEF MemberInv

LEMMA AFinding ==
  ASSUME NEW w, NEW b, NEW p,
         w = [pc |-> w.pc, id |-> w.id, bound |-> w.bound, update |-> w.update, fingerprint |-> w.fingerprint,
              observed |-> w.observed, ask |-> w.ask, state |-> w.state, stale |-> w.stale],
         NEW v, v = [w EXCEPT !.pc = p, !.bound = b]
  PROVE  /\ v.pc = p
         /\ v = [pc |-> v.pc, id |-> v.id, bound |-> v.bound, update |-> v.update, fingerprint |-> v.fingerprint,
                 observed |-> v.observed, ask |-> v.ask, state |-> v.state, stale |-> v.stale]
OBVIOUS

LEMMA Beginnings ==
  ASSUME MemberInv, NEW h \in Handlers,
         M!FindMember(h) \/ M!start_scan \/ M!Open(h) \/ \E id \in Ids : M!Knock(h, id)
  PROVE  Aside
<1>1. CASE M!FindMember(h)
  <2>1. \/ M!Ends(h)
        \/ work' = [work EXCEPT ![h].pc = "inspect", ![h].bound = row.bound]
    BY <1>1 DEF M!FindMember
  <2>2. /\ h \in M!Tasks /\ work[h] # Null
        /\ UNCHANGED <<clock, updates, marks, writing, emby, row, offset, confirmed>>
    BY <1>1 DEF M!FindMember, M!outside, M!memory, M!Tasks, M!At
  <2>3. \A t \in M!Tasks \ {h} : Idle(t)
    BY <2>1, <2>2 DEF Idle, M!At, M!Ends, MemberInv, MemberRows
  <2>4. PICK v : v = [work[h] EXCEPT !.pc = "inspect", !.bound = row.bound]
    OBVIOUS
  <2> DEFINE w == work[h]
  <2>5. w = [pc |-> w.pc, id |-> w.id, bound |-> w.bound, update |-> w.update, fingerprint |-> w.fingerprint,
             observed |-> w.observed, ask |-> w.ask, state |-> w.state, stale |-> w.stale]
    BY <2>2 DEF MemberInv, MemberRows
  <2>6. work'[h] = Null \/ work'[h] = v
    BY <2>1, <2>2, <2>4 DEF M!Ends, MemberInv, MemberRows
  <2>7. /\ v.pc = "inspect"
        /\ v = [pc |-> v.pc, id |-> v.id, bound |-> v.bound, update |-> v.update, fingerprint |-> v.fingerprint,
                observed |-> v.observed, ask |-> v.ask, state |-> v.state, stale |-> v.stale]
    BY <2>4, <2>5, AFinding
  <2>8. Idle(h)
    BY <2>6, <2>7 DEF Idle, M!At
  <2>9. QED
    BY <2>1, <2>2, <2>3, <2>8 DEF Aside, M!Ends, MemberInv, MemberRows
<1>2. CASE M!start_scan
  BY <1>2 DEF M!start_scan, M!Task, Aside, Idle, M!At, M!Tasks, M!outside, M!memory, MemberInv, MemberRows
<1>3. CASE M!Open(h)
  BY <1>3 DEF M!Open, Aside, Idle, M!At, M!Ends, M!Tasks, M!outside, M!memory, MemberInv, MemberRows
<1>4. ASSUME NEW id \in Ids, M!Knock(h, id) PROVE Aside
  BY <1>4 DEF M!Knock, M!Asking, M!Task, Aside, Idle, M!At, M!Tasks, M!outside, M!memory, MemberInv, MemberRows
<1>5. QED
  BY <1>1, <1>2, <1>3, <1>4

LEMMA Deleted ==
  ASSUME MemberInv, NEW t \in M!Tasks, M!Answered(t) \/ M!RemoveRow(t)
  PROVE  MemberInv'
<1>1. /\ UNCHANGED <<clock, updates, offset, confirmed, marks, writing>>
      /\ M!To(t, "remove") \/ M!Ends(t)
      /\ M!At(t, "answer") \/ M!At(t, "remove")
  BY DEF M!Answered, M!RemoveRow, M!outside, M!memory
<1>2. /\ work' = [s \in M!Tasks |-> work'[s]] /\ \A s \in M!Tasks \ {t} : work'[s] = work[s]
      /\ work'[t] # Null => work'[t] = [work[t] EXCEPT !.pc = "remove"]
      /\ work[t] # Null
  BY <1>1 DEF M!To, M!Ends, M!At, MemberInv, MemberRows
<1>3. /\ row' = [here |-> row'.here, tg |-> row'.tg, bound |-> row'.bound, admin |-> row'.admin]
      /\ emby' = [here |-> emby'.here, admin |-> emby'.admin]
  BY DEF M!Answered, M!RemoveRow, MemberInv, MemberRows
<1>4. MemberRows'
  BY <1>1, <1>2, <1>3 DEF MemberInv, MemberRows
<1>5. \A s \in M!Tasks : /\ M!At(s, "write")' => M!At(s, "write") /\ work'[s].update = work[s].update
                         /\ M!At(s, "store")' => M!At(s, "store") /\ work'[s].update = work[s].update
  BY <1>2 DEF M!At, MemberInv, MemberRows
<1>6. Writes'
  BY <1>1, <1>5 DEF MemberInv, Writes, M!key
<1>7. Told'
  <2>1. CASE M!Answered(t)
    <3>1. UNCHANGED row /\ (emby'.here => emby.here) /\ (~emby'.here \/ M!Ends(t))
      BY <2>1 DEF M!Answered, MemberInv, MemberRows
    <3>2. \A s \in M!Tasks : M!At(s, "remove")' => M!At(s, "remove") \/ ~emby'.here
      BY <1>2, <3>1 DEF M!At, M!Ends, MemberInv, MemberRows
    <3>3. QED
      BY <3>1, <3>2 DEF MemberInv, Told, M!RowOutlivesAccount
  <2>2. CASE M!RemoveRow(t)
    <3>1. UNCHANGED emby /\ M!At(t, "remove") /\ M!Ends(t)
      BY <2>2 DEF M!RemoveRow
    <3>2. \A s \in M!Tasks : M!At(s, "remove")' => M!At(s, "remove")
      BY <1>2, <3>1 DEF M!At
    <3>3. QED
      BY <3>1, <3>2 DEF MemberInv, Told, M!RowOutlivesAccount
  <2>3. QED
    BY <2>1, <2>2
<1>8. QED
  BY <1>4, <1>6, <1>7 DEF MemberInv

LEMMA Died == ASSUME MemberInv, M!Crash PROVE MemberInv'
<1>1. /\ UNCHANGED <<clock, updates, confirmed, marks, row, emby>> /\ offset' = confirmed
      /\ work' = [t \in M!Tasks |-> Null] /\ writing' = [k \in M!Keys |-> Null]
  BY DEF M!Crash, M!outside
<1>2. \A t \in M!Tasks : work'[t] = Null
  BY <1>1
<1>3. MemberRows'
  BY <1>1, <1>2 DEF MemberInv, MemberRows
<1>4. Writes' /\ Told'
  BY <1>1, <1>2 DEF MemberInv, Writes, Told, M!RowOutlivesAccount, M!At
<1>5. QED
  BY <1>3, <1>4 DEF MemberInv

MemberSteps == MemberInv' /\ \A k \in M!Keys : marks'[k] >= marks[k]

LEMMA MembershipStep ==
  ASSUME MemberConstants, MemberInv, [M!Next]_(M!vars)
  PROVE  MemberSteps
<1>1. marks' = marks => \A k \in M!Keys : marks'[k] >= marks[k]
  BY DEF MemberInv, MemberRows
<1>2. Aside => MemberSteps
  BY AsideKeeps, <1>1 DEF MemberSteps, Aside
<1>3. CASE UNCHANGED M!vars
  <2>1. UNCHANGED <<clock, updates, offset, confirmed, marks, writing, row, emby, work>>
    BY <1>3 DEF M!vars
  <2>2. MemberInv'
    BY <2>1 DEF MemberInv, MemberRows, Writes, Told, M!RowOutlivesAccount, M!At, M!key
  <2>3. QED
    BY <1>1, <2>1, <2>2 DEF MemberSteps
<1>4. CASE M!Tick \/ (\E k \in M!Keys : M!Move(k)) \/ M!Demoted
  <2>1. UNCHANGED marks
    BY <1>4 DEF M!Tick, M!Move, M!Demoted
  <2>2. QED
    BY <1>1, <1>4, <2>1, Arrivals DEF MemberSteps
<1>5. CASE (\E id \in Ids : M!Rebind(id)) \/ M!Promote \/ \E d \in BOOLEAN : M!Save(d)
  BY <1>2, <1>5, Changes
<1>6. ASSUME NEW h \in Handlers, M!handle_update(h) PROVE MemberSteps
  BY <1>1, <1>6, Taken DEF MemberSteps, M!handle_update
<1>7. ASSUME NEW h \in Handlers, M!ReadMark(h) PROVE MemberSteps
  BY <1>1, <1>7, MarkRead DEF MemberSteps, M!ReadMark
<1>8. ASSUME NEW h \in Handlers, M!StoreMark(h) PROVE MemberSteps
  BY <1>8, MarkStored DEF MemberSteps
<1>9. ASSUME NEW h \in Handlers, M!FindMember(h) \/ M!start_scan \/ M!Open(h) \/ \E id \in Ids : M!Knock(h, id)
      PROVE MemberSteps
  BY <1>2, <1>9, Beginnings
<1>10. ASSUME NEW t \in M!Tasks, M!Answered(t) \/ M!RemoveRow(t) PROVE MemberSteps
  BY <1>1, <1>10, Deleted DEF MemberSteps, M!Answered, M!RemoveRow
<1>11. ASSUME NEW t \in M!Tasks, M!Step(t) PROVE MemberSteps
  BY <1>2, <1>10, <1>11, Moves DEF M!Step
<1>12. CASE M!Crash
  BY <1>1, <1>12, Died DEF MemberSteps, M!Crash
<1>13. CASE M!start_scan
  <2>1. Aside
    BY <1>13 DEF M!start_scan, M!Task, Aside, Idle, M!At, M!Tasks, M!outside, M!memory, MemberInv, MemberRows
  <2>2. QED
    BY <1>2, <2>1
<1>14. QED
  BY <1>3, <1>4, <1>5, <1>6, <1>7, <1>8, <1>9, <1>11, <1>12, <1>13 DEF M!Next

LEMMA MemberInit == M!Init => MemberInv
<1> SUFFICES ASSUME M!Init PROVE MemberInv
  OBVIOUS
<1>1. /\ clock = 1 /\ updates = <<>> /\ offset = 0 /\ confirmed = 0 /\ marks = [k \in M!Keys |-> 0]
      /\ emby = [here |-> TRUE, admin |-> FALSE] /\ row \in [here : {TRUE}, tg : Ids, bound : {0}, admin : {FALSE}]
      /\ writing = [k \in M!Keys |-> Null] /\ work = [t \in M!Tasks |-> Null]
  BY DEF M!Init
<1>2. \A t \in M!Tasks : work[t] = Null
  BY <1>1
<1>3. row.here /\ row = [here |-> row.here, tg |-> row.tg, bound |-> row.bound, admin |-> row.admin]
  BY <1>1
<1>4. MemberRows
  BY <1>1, <1>2, <1>3 DEF MemberRows
<1>5. QED
  BY <1>2, <1>3, <1>4 DEF MemberInv, Writes, Told, M!RowOutlivesAccount, M!At

(* A row goes only after its account in Emby, and what is stored of a chat  *)
(* and a user never goes back to an older update, for any number of chats,  *)
(* users, handlers and updates, and across crashes that deliver updates     *)
(* again (group_membership.py, _write_event and inspect).                   *)
THEOREM MembershipInOrder ==
    ASSUME MemberConstants
    PROVE  M!Init /\ [][M!Next]_(M!vars) => []M!RowOutlivesAccount /\ [][M!MarksAdvance]_(M!vars)
<1>1. MemberInv /\ [M!Next]_(M!vars) => MemberInv' /\ [M!MarksAdvance]_(M!vars)
  BY MembershipStep DEF MemberSteps, M!MarksAdvance
<1>2. MemberInv => M!RowOutlivesAccount
  BY DEF MemberInv, Told
<1>3. QED
  BY <1>1, <1>2, MemberInit, PTL
-----------------------------------------------------------------------------
(***************************************************************************)
(* The jobs that write to members: the monthly report, the reminder before *)
(* an account lapses and the notice before an audit acts.                  *)
(***************************************************************************)
CONSTANTS Job, Subjects, Deaf, Day, Hour, ReportDays, Backoff, Attempts, Delay, Keep, MaxManual
VARIABLES switched, lastDaily, lastRetry, history, state, run, bound, out, barred, heard, told, spoiled,
          asked, manual

J == INSTANCE Jobs WITH Members <- Subjects, Grace <- Delay, enabled <- switched, suspended <- barred,
                        faults <- mishaps

IsRow(x) == /\ x = [state |-> x.state, attempts |-> x.attempts, next |-> x.next, bound |-> x.bound]
            /\ x.bound \in Nat
IsRun(x) == x = [trigger |-> x.trigger, batch |-> x.batch, now |-> x.now, at |-> x.at, pc |-> x.pc, todo |-> x.todo,
                 member |-> x.member, errors |-> x.errors, sent |-> x.sent, seen |-> x.seen, since |-> x.since]
IsStore(x) == x = [day |-> x.day, created |-> x.created, pause |-> x.pause, rows |-> x.rows, sent |-> x.sent,
                   since |-> x.since]

(* A run and a time are not Null.                                          *)
JobConstants == J!JobBounds /\ ~IsRun(Null) /\ Null \notin Nat

JobRows ==
  /\ clock \in Nat /\ manual \in Nat /\ spoiled \in BOOLEAN /\ out \subseteq Subjects
  /\ heard \in [Subjects -> Nat] /\ asked \in [Subjects -> Nat] /\ bound \in [Subjects -> Nat]
  /\ told \in [Subjects -> Nat \cup {Null}]
  /\ IsStore(state) /\ state.rows = [m \in DOMAIN state.rows |-> state.rows[m]] /\ DOMAIN state.rows \subseteq Subjects
  /\ history = [ok |-> history.ok, failed |-> history.failed]
  /\ state.since = [m \in DOMAIN state.since |-> state.since[m]] /\ DOMAIN state.since \subseteq Subjects
  /\ \A m \in DOMAIN state.rows : IsRow(state.rows[m])
  /\ \A m \in DOMAIN state.since : state.since[m] \in Nat
  /\ run # Null =>
       /\ IsRun(run) /\ run.now \in Nat /\ run.at \in Nat
       /\ run.pc \in {"open", "each", "draw", "send", "close"}
       /\ run.pc \in {"draw", "send"} => Job = "report"
       /\ run.pc = "close" => Job # "report"
       /\ Job = "audit" /\ run.pc = "each" =>
            /\ run.todo \subseteq Subjects
            /\ run.since = [m \in DOMAIN run.since |-> run.since[m]] /\ DOMAIN run.since \subseteq Subjects
            /\ \A m \in DOMAIN run.since : run.since[m] \in Nat

(* A report that may be sent without anybody's asking has not been heard:   *)
(* one that failed after its owner had bound another account never is.      *)
Silent(m) == \/ state.rows[m].state \in {"pending", "retry"}
             \/ state.rows[m].state = "failed" /\ state.rows[m].bound = bound[m]

Batch ==
  /\ \A m \in Subjects : heard[m] <= 1 + asked[m]
  /\ \A m \in DOMAIN state.rows :
       /\ state.rows[m].bound <= bound[m]
       /\ Silent(m) => heard[m] <= asked[m]
  /\ run # Null /\ run.pc # "open" => run.todo \subseteq DOMAIN state.rows
  /\ run # Null /\ run.pc \in {"draw", "send"} =>
       /\ run.member \in DOMAIN state.rows /\ heard[run.member] <= asked[run.member]
       /\ run.pc = "send" => state.rows[run.member].state = "sending"
       /\ run.pc = "draw" => state.rows[run.member].state \in {"pending", "retry", "failed", "unknown"}

(* A day on which nobody pressed the button and no answer was lost.  Who    *)
(* was reminded is among the receipts, or the day's run is finished; a run  *)
(* that is under way at midnight reminds nobody of the new day.             *)
Clean == manual = 0 /\ ~spoiled
Finished == lastDaily = J!today \/ (run # Null /\ run.pc = "close")
Reminded(m) == heard[m] = 0 \/ (heard[m] = 1 /\ (m \in J!Told \/ Finished))
Unheard == \A m \in Subjects : heard[m] = 0
OfToday == J!today = run.at \div Day /\ lastDaily # J!today /\ J!Told \subseteq run.sent

InDay ==
  /\ lastDaily = history.ok
  /\ Clean => \A m \in Subjects : Reminded(m)
  /\ run # Null =>
       /\ manual > 0 \/ run.trigger = "schedule"
       /\ run.pc = "open" => clock = run.now /\ (manual > 0 \/ lastDaily # J!today)
       /\ run.pc = "each" =>
            /\ run.at = run.now /\ run.todo \subseteq Subjects \ run.sent
            /\ Clean => OfToday \/ (J!today # run.at \div Day /\ Unheard)
       /\ run.pc = "close" =>
            /\ ~run.errors /\ state.sent = {}
            /\ Clean => J!today = run.now \div Day \/ Unheard

(* A note is no older than the telling.                                    *)
Notes(since) == \A m \in DOMAIN since : told[m] \in Nat /\ told[m] <= since[m]
ToldBy(t) == \A m \in Subjects : told[m] # Null => told[m] <= t

Noticing ==
  /\ Notes(state.since) /\ ToldBy(clock)
  /\ run # Null /\ run.pc = "each" => run.at <= clock /\ Notes(run.since) /\ ToldBy(run.at)

JobInv ==
  /\ JobRows
  /\ Job = "report" => Batch
  /\ Job = "remind" => InDay
  /\ Job = "audit" => Noticing

LEMMA SameDay == ASSUME NEW c \in Nat, NEW d \in Nat \ {0}, (c + 1) % d # 0
                 PROVE  (c + 1) \div d = c \div d
<1> DEFINE q == c \div d
<1> DEFINE r == c % d
<1> DEFINE p == (c + 1) \div d
<1> DEFINE s == (c + 1) % d
<1>1. q \in Nat /\ r \in 0 .. d - 1 /\ c = d * q + r
  OBVIOUS
<1>2. p \in Nat /\ s \in 1 .. d - 1 /\ c + 1 = d * p + s
  OBVIOUS
<1> HIDE DEF q, r, p, s
<1>3. ~(p <= q - 1)
  <2> SUFFICES ASSUME p <= q - 1 PROVE FALSE
    OBVIOUS
  <2>1. d * p <= d * (q - 1)
    BY <1>1, <1>2
  <2>2. d * (q - 1) = d * q - d
    BY <1>1
  <2>3. QED
    BY <2>1, <2>2, <1>1, <1>2
<1>4. ~(p >= q + 1)
  <2> SUFFICES ASSUME p >= q + 1 PROVE FALSE
    OBVIOUS
  <2>1. d * p >= d * (q + 1)
    BY <1>1, <1>2
  <2>2. d * (q + 1) = d * q + d
    BY <1>1
  <2>3. QED
    BY <2>1, <2>2, <1>1, <1>2
<1>5. p = q
  BY <1>1, <1>2, <1>3, <1>4
<1> QED
  BY <1>5 DEF p, q

LEMMA NextDay == ASSUME NEW c \in Nat, NEW d \in Nat \ {0}, (c + 1) % d = 0
                 PROVE  (c + 1) \div d # c \div d
<1> DEFINE q == c \div d
<1> DEFINE r == c % d
<1>1. q \in Nat /\ r \in 0 .. d - 1 /\ c = d * q + r
  OBVIOUS
<1>2. c + 1 = d * ((c + 1) \div d) + 0
  OBVIOUS
<1> HIDE DEF q, r
<1>3. d * q <= c
  BY <1>1
<1>4. d * ((c + 1) \div d) = c + 1
  BY <1>2
<1> QED
  BY <1>3, <1>4 DEF q

LEMMA JobInit == ASSUME JobConstants, J!Init PROVE JobInv
<1>0. Hour \in Nat
  BY DEF JobConstants, J!JobBounds
<1>1. JobRows
  <2>1. IsStore(state) /\ state.rows = <<>> /\ state.since = <<>>
    BY DEF J!Init, J!Nothing, IsStore
  <2>2. /\ state.rows = [m \in DOMAIN state.rows |-> state.rows[m]] /\ DOMAIN state.rows = {}
        /\ state.since = [m \in DOMAIN state.since |-> state.since[m]] /\ DOMAIN state.since = {}
    BY <2>1
  <2>3. out \subseteq Subjects /\ clock \in Nat /\ spoiled \in BOOLEAN /\ manual \in Nat
    BY <1>0 DEF J!Init
  <2>4. heard \in [Subjects -> Nat] /\ asked \in [Subjects -> Nat] /\ bound \in [Subjects -> Nat] /\ told \in [Subjects -> Nat \cup {Null}]
    BY DEF J!Init
  <2>5. history = [ok |-> history.ok, failed |-> history.failed] /\ run = Null
    BY DEF J!Init
  <2> QED
    BY <2>1, <2>2, <2>3, <2>4, <2>5 DEF JobRows
<1>2. Job = "report" => Batch
  BY DEF J!Init, J!Nothing, Batch, Silent
<1>3. Job = "remind" => InDay
  BY DEF J!Init, J!Nothing, InDay, Reminded
<1>4. Job = "audit" => Noticing
  BY DEF J!Init, J!Nothing, Noticing, Notes, ToldBy
<1>5. QED
  BY <1>1, <1>2, <1>3, <1>4 DEF JobInv

(* A run that ends takes nothing with it.                                  *)
LEMMA RunEnds ==
  ASSUME JobRows, NEW ok, J!Ended(ok)
  PROVE  /\ run' = Null /\ history' = [ok |-> history'.ok, failed |-> history'.failed]
         /\ Job = "remind" /\ lastDaily = history.ok =>
              /\ lastDaily' = history'.ok
              /\ ~ok => lastDaily' = lastDaily
              /\ run.trigger = "schedule" /\ ok => lastDaily' = run.now \div Day
BY DEF JobRows, J!Ended

(* --------------------------------- reports ------------------------------- *)
(* What a store says of its recipients.                                    *)
Recipients(st, rows) ==
  /\ IsStore(st) /\ st.rows = rows /\ rows = [m \in DOMAIN rows |-> rows[m]] /\ DOMAIN rows \subseteq Subjects
  /\ st.since = [m \in DOMAIN st.since |-> st.since[m]] /\ DOMAIN st.since \subseteq Subjects
  /\ \A m \in DOMAIN st.since : st.since[m] \in Nat
  /\ \A m \in DOMAIN rows :
       /\ IsRow(rows[m]) /\ rows[m].bound <= bound[m]
       /\ (rows[m].state \in {"pending", "retry"} \/ (rows[m].state = "failed" /\ rows[m].bound = bound[m]))
             => heard'[m] <= asked'[m]

LEMMA GivingUp ==
  ASSUME NEW r, IsRow(r)
  PROVE  LET g == J!GivenUp(r) IN
           /\ IsRow(g) /\ g.bound = r.bound /\ g.state \notin {"pending", "retry"}
           /\ g.state = "failed" => r.state \in {"pending", "retry", "failed"}
<1>1. CASE r.state \notin J!Waiting
  BY <1>1 DEF J!GivenUp, J!Waiting
<1>2. CASE r.state \in J!Waiting
  <2>1. J!GivenUp(r) = [state |-> IF r.state = "sending" THEN "unknown" ELSE "failed", attempts |-> r.attempts, next |-> 0,
                        bound |-> r.bound]
    BY <1>2 DEF IsRow, J!GivenUp
  <2> QED
    BY <2>1, <1>2 DEF IsRow, J!Waiting
<1> QED
  BY <1>1, <1>2

LEMMA ReportOpens == ASSUME JobConstants, JobInv, J!OpenReport PROVE JobInv'
<1> DEFINE fresh == [J!Nothing EXCEPT !.day = J!today, !.created = clock, !.rows = [m \in Subjects |-> J!Fresh(m)]]
<1> DEFINE st == IF J!Replaced THEN fresh ELSE state
<1>1. \/ state' = [st EXCEPT !.rows = [m \in DOMAIN st.rows |-> J!GivenUp(st.rows[m])]] /\ J!Ended(J!AllSent)
      \/ state' = st /\ J!Ended(FALSE)
      \/ state' = st /\ run' = [run EXCEPT !.pc = "each", !.todo = DOMAIN st.rows, !.at = clock]
  BY Zenon DEF J!OpenReport
<1>0. (J!Replaced => st = fresh) /\ (~J!Replaced => st = state)
  BY Zenon
<1> HIDE DEF st
<1>2. JobRows /\ Batch /\ Job = "report" /\ run # Null
  BY DEF JobInv, J!OpenReport
<1>3. /\ \A m \in Subjects : heard'[m] <= 1 + asked'[m]
      /\ heard' \in [Subjects -> Nat] /\ asked' \in [Subjects -> Nat]
  <2>1. CASE J!Replaced
    <3>1. heard' = [m \in Subjects |-> 0] /\ asked' = [m \in Subjects |-> 0]
      BY <2>1 DEF J!OpenReport
    <3> QED
      BY <3>1
  <2>2. CASE ~J!Replaced
    BY <2>2, <1>2 DEF JobRows, Batch, J!OpenReport
  <2> QED
    BY <2>1, <2>2
<1>4. Recipients(st, st.rows)
  <2>1. CASE J!Replaced
    <3>1. st = [day |-> J!today, created |-> clock, pause |-> 0, rows |-> [m \in Subjects |-> J!Fresh(m)], sent |-> {},
                since |-> <<>>]
      BY <1>0, <2>1 DEF J!Nothing
    <3>2. IsStore(st) /\ DOMAIN st.since = {} /\ st.rows = [m \in Subjects |-> J!Fresh(m)] /\ st.since = [m \in DOMAIN st.since |-> st.since[m]]
      BY <3>1 DEF IsStore
    <3>3. \A m \in Subjects : IsRow(J!Fresh(m)) /\ J!Fresh(m).bound = bound[m] /\ J!Fresh(m).state = "pending"
      BY <1>2 DEF J!Fresh, IsRow, JobRows
    <3>4. \A m \in Subjects : heard'[m] = 0 /\ asked'[m] = 0
      BY <2>1 DEF J!OpenReport
    <3> QED
      BY <3>2, <3>3, <3>4, <1>2 DEF Recipients, JobRows
  <2>2. CASE ~J!Replaced
    <3>1. st = state /\ heard' = heard /\ asked' = asked
      BY <1>0, <2>2 DEF J!OpenReport
    <3> QED
      BY <3>1, <1>2 DEF Recipients, JobRows, Batch, Silent
  <2> QED
    BY <2>1, <2>2
<1>5. PICK rows : Recipients(state', rows) /\ DOMAIN rows = DOMAIN st.rows
  <2>1. CASE state' = st
    BY <2>1, <1>4
  <2>2. CASE state' = [st EXCEPT !.rows = [m \in DOMAIN st.rows |-> J!GivenUp(st.rows[m])]]
    <3> DEFINE rows == [m \in DOMAIN st.rows |-> J!GivenUp(st.rows[m])]
    <3>1. IsStore(state') /\ state'.rows = rows /\ state'.since = st.since
      BY <2>2, <1>4 DEF Recipients, IsStore
    <3>2. \A m \in DOMAIN st.rows : /\ IsRow(rows[m]) /\ rows[m].bound = st.rows[m].bound
                                    /\ rows[m].state \notin {"pending", "retry"}
                                    /\ rows[m].state = "failed" => st.rows[m].state \in {"pending", "retry", "failed"}
      BY <1>4, GivingUp DEF Recipients
    <3>3. Recipients(state', rows)
      BY <3>1, <3>2, <1>4 DEF Recipients
    <3> QED
      BY <3>3
  <2> QED
    BY <1>1, <2>1, <2>2
<1>6. \/ run' = Null
      \/ /\ IsRun(run') /\ run'.now = run.now /\ run'.at = clock /\ run'.pc = "each" /\ run'.todo = DOMAIN st.rows /\ state' = st
  BY <1>1, <1>2, RunEnds DEF JobRows, IsRun
<1>7. history' = [ok |-> history'.ok, failed |-> history'.failed]
  BY <1>1, <1>2, RunEnds DEF JobRows, J!OpenReport, J!registry
<1>8. UNCHANGED <<clock, manual, spoiled, out, bound, told>>
  BY DEF J!OpenReport, J!people
<1>9. JobRows'
  BY <1>2, <1>3, <1>5, <1>6, <1>7, <1>8 DEF JobRows, Recipients
<1>10. Batch'
  BY <1>3, <1>5, <1>6, <1>8 DEF Batch, Recipients, Silent
<1> QED
  BY <1>2, <1>9, <1>10 DEF JobInv

(* A step of a run that is about one recipient.                            *)
RowStep(m, r) ==
  /\ IsStore(state') /\ state'.since = state.since /\ state'.rows = [state.rows EXCEPT ![m] = r]
  /\ IsRow(r) /\ r.bound = state.rows[m].bound
  /\ UNCHANGED <<clock, manual, spoiled, out, bound, told, history>>

LEMMA RowWritten ==
  ASSUME JobRows, NEW m \in DOMAIN state.rows, NEW r, IsRow(r), r.bound = state.rows[m].bound, J!Row(m, r),
         UNCHANGED <<clock, manual, spoiled, out, bound, told, history>>
  PROVE  RowStep(m, r)
<1>1. state' = [state EXCEPT !.rows[m] = r]
  BY DEF J!Row
<1>2. IsStore(state') /\ state'.since = state.since /\ state'.rows = [state.rows EXCEPT ![m] = r]
  BY <1>1 DEF JobRows, IsStore
<1> QED
  BY <1>2 DEF RowStep

(* What it leaves of the run.                                              *)
Goes(m, r) ==
  \/ run' = Null
  \/ /\ IsRun(run') /\ run'.now = run.now /\ run'.at = run.at /\ run'.todo \subseteq DOMAIN state.rows
     /\ \/ run'.pc = "each"
        \/ /\ run'.pc = "draw" /\ run'.member = m /\ heard'[m] <= asked'[m]
           /\ r.state \in {"pending", "retry", "failed", "unknown"}
        \/ run'.pc = "send" /\ run'.member = m /\ heard'[m] <= asked'[m] /\ r.state = "sending"

Counted(m) ==
  /\ heard' \in [Subjects -> Nat] /\ asked' \in [Subjects -> Nat] /\ heard'[m] <= 1 + asked'[m]
  /\ \A x \in Subjects \ {m} : heard'[x] = heard[x] /\ asked'[x] = asked[x]

LEMMA RowStepKeeps ==
  ASSUME JobRows, Batch, Job = "report", run # Null, NEW m \in DOMAIN state.rows, NEW r, RowStep(m, r), Goes(m, r),
         Counted(m),
         r.state \in {"pending", "retry"} \/ (r.state = "failed" /\ r.bound = bound[m]) => heard'[m] <= asked'[m]
  PROVE  JobInv'
<1>1. /\ state'.rows = [x \in DOMAIN state'.rows |-> state'.rows[x]] /\ DOMAIN state'.rows = DOMAIN state.rows
      /\ \A x \in DOMAIN state.rows : state'.rows[x] = IF x = m THEN r ELSE state.rows[x]
  BY DEF RowStep, JobRows
<1>2. JobRows'
  <2>1. \A x \in DOMAIN state.rows : IsRow(state'.rows[x])
    BY <1>1 DEF JobRows, RowStep
  <2>2. run' # Null => /\ IsRun(run') /\ run'.now \in Nat /\ run'.at \in Nat /\ run'.pc \in {"each", "draw", "send"}
    BY DEF JobRows, Goes
  <2> QED
    BY <1>1, <2>1, <2>2 DEF JobRows, RowStep, Counted
<1>3. Batch'
  <2>1. \A x \in Subjects : heard'[x] <= 1 + asked'[x]
    BY DEF Counted, Batch
  <2>2. ASSUME NEW x \in DOMAIN state.rows
        PROVE  state'.rows[x].bound <= bound'[x] /\ (Silent(x)' => heard'[x] <= asked'[x])
    <3>1. CASE x = m
      BY <3>1, <1>1 DEF RowStep, Silent, Batch
    <3>2. CASE x # m
      BY <3>2, <1>1 DEF RowStep, Silent, Batch, Counted, JobRows
    <3> QED
      BY <3>1, <3>2
  <2>3. run' # Null => run'.todo \subseteq DOMAIN state'.rows
    BY <1>1 DEF Goes
  <2>4. run' # Null /\ run'.pc \in {"draw", "send"} =>
          /\ run'.member = m /\ heard'[m] <= asked'[m]
          /\ run'.pc = "send" => r.state = "sending"
          /\ run'.pc = "draw" => r.state \in {"pending", "retry", "failed", "unknown"}
    BY DEF Goes
  <2> QED
    BY <1>1, <2>1, <2>2, <2>3, <2>4 DEF Batch
<1> QED
  BY <1>2, <1>3 DEF JobInv

(* A step that only moves the run on.                                      *)
LEMMA RunStepKeeps ==
  ASSUME JobRows, Batch, Job = "report", run # Null,
         UNCHANGED <<clock, state, manual, spoiled, out, bound, told, heard, asked>>,
         history' = [ok |-> history'.ok, failed |-> history'.failed],
         \/ run' = Null
         \/ /\ IsRun(run') /\ run'.now = run.now /\ run'.at = run.at /\ run'.todo \subseteq DOMAIN state.rows
            /\ run'.pc = "each"
  PROVE  JobInv'
<1>1. JobRows'
  BY DEF JobRows
<1>2. Batch'
  BY DEF Batch, Silent
<1> QED
  BY <1>1, <1>2 DEF JobInv

LEMMA Dropped ==
  ASSUME JobRows, Batch, Job = "report", run # Null, run.pc # "open", NEW m, J!Drop(m)
  PROVE  /\ IsRun(run') /\ run'.now = run.now /\ run'.at = run.at /\ run'.pc = "each"
         /\ run'.todo \subseteq DOMAIN state.rows
BY DEF J!Drop, JobRows, Batch, IsRun

LEMMA Failing ==
  ASSUME NEW r, IsRow(r), NEW at
  PROVE  LET f == J!failed(r, at) IN IsRow(f) /\ f.bound = r.bound /\ f.state \in {"failed", "retry"}
<1>1. J!failed(r, at) \in {[state |-> "failed", attempts |-> r.attempts, next |-> 0, bound |-> r.bound],
                           [state |-> "retry", attempts |-> r.attempts, next |-> at, bound |-> r.bound]}
  BY DEF J!failed, IsRow
<1> QED
  BY <1>1 DEF IsRow

LEMMA RecipientStep == ASSUME JobInv, NEW m \in Subjects, J!Recipient(m) PROVE JobInv'
<1> DEFINE r == state.rows[m]
<1>1. /\ JobRows /\ Batch /\ Job = "report" /\ run # Null /\ run.pc = "each" /\ m \in DOMAIN state.rows
      /\ UNCHANGED <<clock, manual, spoiled, out, bound, told, history, heard>>
      /\ IsRow(r)
  BY DEF JobInv, JobRows, Batch, J!Recipient, J!registry, J!people
<1>2. \/ r.state = "sending" /\ J!Row(m, J!Interrupted(r)) /\ J!Drop(m)
      \/ J!Drop(m) /\ UNCHANGED state
      \/ J!Eligible(r) /\ bound[m] # r.bound /\ J!Row(m, [r EXCEPT !.state = "failed"]) /\ J!Drop(m)
      \/ /\ J!Eligible(r) /\ bound[m] = r.bound /\ J!Row(m, [r EXCEPT !.attempts = @ + 1])
         /\ run' = [run EXCEPT !.pc = "draw", !.member = m]
  BY DEF J!Recipient
<1>3. asked' = IF run'.pc = "draw" /\ r.state = "unknown" THEN [asked EXCEPT ![m] = @ + 1] ELSE asked
  BY DEF J!Recipient
<1>4. J!Drop(m) => UNCHANGED asked
  BY <1>1, <1>3, Dropped
<1> HIDE DEF r
<1>5. CASE J!Drop(m) /\ UNCHANGED state
  BY <1>1, <1>4, <1>5, Dropped, RunStepKeeps DEF JobRows
<1>6. ASSUME NEW new, IsRow(new), new.bound = r.bound, J!Row(m, new), J!Drop(m),
             new.state = "unknown" \/ (new.state = "failed" /\ bound[m] # r.bound)
      PROVE  JobInv'
  <2>1. RowStep(m, new)
    BY <1>1, <1>6, RowWritten DEF r
  <2>2. Goes(m, new) /\ Counted(m)
    BY <1>1, <1>4, <1>6, Dropped DEF Goes, Counted, JobRows, Batch
  <2>3. ~(new.state \in {"pending", "retry"} \/ (new.state = "failed" /\ new.bound = bound[m]))
    BY <1>6
  <2> QED
    BY <1>1, <2>1, <2>2, <2>3, RowStepKeeps
<1>7. CASE r.state = "sending" /\ J!Row(m, J!Interrupted(r)) /\ J!Drop(m)
  BY <1>1, <1>6, <1>7 DEF J!Interrupted, IsRow
<1>8. CASE J!Eligible(r) /\ bound[m] # r.bound /\ J!Row(m, [r EXCEPT !.state = "failed"]) /\ J!Drop(m)
  BY <1>1, <1>6, <1>8 DEF IsRow
<1>9. CASE /\ J!Eligible(r) /\ bound[m] = r.bound /\ J!Row(m, [r EXCEPT !.attempts = @ + 1])
           /\ run' = [run EXCEPT !.pc = "draw", !.member = m]
  <2> DEFINE new == [r EXCEPT !.attempts = @ + 1]
  <2>1. IsRow(new) /\ new.bound = r.bound /\ new.state = r.state
    BY <1>1 DEF IsRow
  <2>2. RowStep(m, new)
    BY <1>1, <1>9, <2>1, RowWritten DEF r
  <2>3. /\ IsRun(run') /\ run'.now = run.now /\ run'.at = run.at /\ run'.todo = run.todo /\ run'.pc = "draw"
        /\ run'.member = m
    BY <1>1, <1>9 DEF JobRows, IsRun
  <2>4. r.state \in {"pending", "retry", "failed", "unknown"}
    BY <1>9 DEF J!Eligible
  <2>5. /\ asked' \in [Subjects -> Nat] /\ heard'[m] <= asked'[m]
        /\ \A x \in Subjects \ {m} : asked'[x] = asked[x]
    <3>1. CASE r.state = "unknown"
      BY <1>1, <1>3, <2>3, <3>1 DEF JobRows, Batch
    <3>2. CASE r.state # "unknown"
      BY <1>1, <1>3, <1>9, <2>4, <3>2 DEF JobRows, Batch, Silent, r
    <3> QED
      BY <3>1, <3>2
  <2>6. Goes(m, new) /\ Counted(m)
    BY <1>1, <2>1, <2>3, <2>4, <2>5 DEF Goes, Counted, JobRows, Batch
  <2> HIDE DEF new
  <2> QED
    BY <1>1, <2>2, <2>5, <2>6, RowStepKeeps
<1> QED
  BY <1>2, <1>5, <1>7, <1>8, <1>9

LEMMA DrawStep == ASSUME JobInv, J!Draw PROVE JobInv'
<1> DEFINE m == run.member
<1> DEFINE r == state.rows[m]
<1>1. /\ JobRows /\ Batch /\ Job = "report" /\ run # Null /\ run.pc = "draw" /\ m \in DOMAIN state.rows /\ m \in Subjects
      /\ UNCHANGED <<clock, manual, spoiled, out, bound, told, history, heard, asked>>
      /\ IsRow(r) /\ heard[m] <= asked[m] /\ IsRun(run)
  BY DEF JobInv, JobRows, Batch, J!Draw, J!registry, J!people, J!counts
<1>2. \/ bound[m] = r.bound /\ J!Row(m, [r EXCEPT !.state = "sending"]) /\ run' = [run EXCEPT !.pc = "send"]
      \/ bound[m] # r.bound /\ J!Row(m, [r EXCEPT !.state = "failed"]) /\ J!Drop(m)
      \/ J!Row(m, J!failed(r, clock + Backoff)) /\ J!Drop(m)
  BY DEF J!Draw
<1> HIDE DEF r, m
<1>3. Counted(m)
  BY <1>1 DEF Counted, JobRows
<1>4. ASSUME NEW new, IsRow(new), new.bound = r.bound, J!Row(m, new), J!Drop(m)
      PROVE  JobInv'
  <2>1. RowStep(m, new)
    BY <1>1, <1>4, RowWritten DEF r
  <2>2. Goes(m, new)
    BY <1>1, <1>4, Dropped DEF Goes
  <2> QED
    BY <1>1, <1>3, <2>1, <2>2, RowStepKeeps
<1>5. CASE bound[m] # r.bound /\ J!Row(m, [r EXCEPT !.state = "failed"]) /\ J!Drop(m)
  BY <1>1, <1>4, <1>5 DEF IsRow
<1>6. CASE J!Row(m, J!failed(r, clock + Backoff)) /\ J!Drop(m)
  BY <1>1, <1>4, <1>6, Failing
<1>7. CASE J!Row(m, [r EXCEPT !.state = "sending"]) /\ run' = [run EXCEPT !.pc = "send"]
  <2> DEFINE new == [r EXCEPT !.state = "sending"]
  <2>1. IsRow(new) /\ new.bound = r.bound /\ new.state = "sending"
    BY <1>1 DEF IsRow
  <2>2. RowStep(m, new)
    BY <1>1, <1>7, <2>1, RowWritten DEF r
  <2>3. /\ IsRun(run') /\ run'.now = run.now /\ run'.at = run.at /\ run'.todo = run.todo /\ run'.pc = "send"
        /\ run'.member = run.member
    BY <1>1, <1>7 DEF IsRun
  <2>4. Goes(m, new)
    BY <1>1, <2>1, <2>3 DEF Goes, Batch, m
  <2> HIDE DEF new
  <2> QED
    BY <1>1, <1>3, <2>2, <2>4, RowStepKeeps
<1> QED
  BY <1>2, <1>5, <1>6, <1>7

LEMMA SendStep == ASSUME Job = "report" => ErrorsRefuse, JobInv, J!Send PROVE JobInv'
<1> DEFINE m == run.member
<1> DEFINE r == state.rows[m]
<1> DEFINE later == J!failed(r, clock + Backoff)
<1>1. /\ JobRows /\ Batch /\ Job = "report" /\ run # Null /\ ErrorsRefuse /\ run.pc = "send" /\ m \in DOMAIN state.rows /\ m \in Subjects
      /\ UNCHANGED <<clock, manual, spoiled, out, bound, told, history, asked>>
      /\ IsRow(r) /\ heard[m] <= asked[m] /\ IsRun(run)
  BY DEF JobInv, JobRows, Batch, J!Send, J!registry, J!people
<1>2. \/ J!Arrives(m) /\ J!Row(m, [r EXCEPT !.state = "sent"]) /\ J!Drop(m)
      \/ J!Row(m, [r EXCEPT !.state = "failed"]) /\ J!Drop(m) /\ UNCHANGED heard
      \/ J!Row(m, later) /\ J!Drop(m) /\ UNCHANGED heard
      \/ /\ state' = [state EXCEPT !.rows[m] = later, !.pause = clock + 1]
         /\ run' = [run EXCEPT !.pc = "each", !.todo = {}] /\ UNCHANGED heard
      \/ J!Row(m, [r EXCEPT !.state = "unknown"]) /\ J!Drop(m) /\ (J!Arrives(m) \/ UNCHANGED heard)
  <2>1. \/ J!Arrives(m) /\ J!Row(m, [r EXCEPT !.state = "sent"]) /\ J!Drop(m)
        \/ J!Row(m, [r EXCEPT !.state = "failed"]) /\ J!Drop(m) /\ UNCHANGED heard
        \/ J!Drop(m) /\ \E lost, arrived \in BOOLEAN :
             /\ J!Row(m, IF lost THEN [r EXCEPT !.state = "unknown"] ELSE later)
             /\ arrived => m \notin Deaf /\ (lost \/ ~ErrorsRefuse)
             /\ IF arrived THEN J!Arrives(m) ELSE UNCHANGED heard
        \/ /\ state' = [state EXCEPT !.rows[m] = later, !.pause = clock + 1]
           /\ run' = [run EXCEPT !.pc = "each", !.todo = {}] /\ UNCHANGED heard
    BY Zenon DEF J!Send
  <2> HIDE DEF m, r, later
  <2>2. CASE J!Drop(m) /\ \E lost, arrived \in BOOLEAN :
               /\ J!Row(m, IF lost THEN [r EXCEPT !.state = "unknown"] ELSE later)
               /\ arrived => m \notin Deaf /\ (lost \/ ~ErrorsRefuse)
               /\ IF arrived THEN J!Arrives(m) ELSE UNCHANGED heard
    BY <1>1, <2>2
  <2> QED
    BY <2>1, <2>2
<1>3. IsRow(later) /\ later.bound = r.bound
  BY <1>1, Failing
<1> HIDE DEF r, m, later
<1>4. UNCHANGED heard => Counted(m)
  BY <1>1 DEF Counted, JobRows
<1>5. J!Arrives(m) => Counted(m)
  BY <1>1 DEF Counted, JobRows, J!Arrives
<1>6. ASSUME NEW new, IsRow(new), new.bound = r.bound, J!Row(m, new), J!Drop(m), Counted(m),
             UNCHANGED heard \/ new.state \in {"sent", "unknown"}
      PROVE  JobInv'
  <2>1. RowStep(m, new)
    BY <1>1, <1>6, RowWritten DEF r
  <2>2. Goes(m, new)
    BY <1>1, <1>6, Dropped DEF Goes
  <2>3. new.state \in {"pending", "retry", "failed"} => heard'[m] <= asked'[m]
    BY <1>1, <1>6
  <2> QED
    BY <1>1, <1>6, <2>1, <2>2, <2>3, RowStepKeeps
<1>7. \A s \in {"sent", "failed", "unknown"} : LET n == [r EXCEPT !.state = s] IN IsRow(n) /\ n.bound = r.bound /\ n.state = s
  BY <1>1 DEF IsRow
<1>8. CASE J!Arrives(m) /\ J!Row(m, [r EXCEPT !.state = "sent"]) /\ J!Drop(m)
  BY <1>5, <1>6, <1>7, <1>8
<1>9. CASE J!Row(m, [r EXCEPT !.state = "failed"]) /\ J!Drop(m) /\ UNCHANGED heard
  BY <1>4, <1>6, <1>7, <1>9
<1>10. CASE J!Row(m, later) /\ J!Drop(m) /\ UNCHANGED heard
  BY <1>3, <1>4, <1>6, <1>10
<1>11. CASE J!Row(m, [r EXCEPT !.state = "unknown"]) /\ J!Drop(m) /\ (J!Arrives(m) \/ UNCHANGED heard)
  BY <1>4, <1>5, <1>6, <1>7, <1>11
<1>12. CASE /\ state' = [state EXCEPT !.rows[m] = later, !.pause = clock + 1]
            /\ run' = [run EXCEPT !.pc = "each", !.todo = {}] /\ UNCHANGED heard
  <2>1. RowStep(m, later)
    BY <1>1, <1>3, <1>12 DEF RowStep, JobRows, IsStore, r
  <2>2. Goes(m, later)
    BY <1>1, <1>12 DEF Goes, IsRun
  <2> QED
    BY <1>1, <1>4, <1>12, <2>1, <2>2, RowStepKeeps
<1> QED
  BY <1>2, <1>8, <1>9, <1>10, <1>11, <1>12

LEMMA ReportCloses == ASSUME JobInv, J!CloseReport PROVE JobInv'
<1>1. /\ JobRows /\ Batch /\ Job = "report" /\ run # Null /\ J!Ended(J!AllSent)
      /\ UNCHANGED <<clock, state, manual, spoiled, out, bound, told, heard, asked>>
  BY DEF JobInv, J!CloseReport, J!people, J!counts
<1> QED
  BY <1>1, RunEnds, RunStepKeeps

(* -------------------------------- reminders ------------------------------ *)
LEMMA ReminderOpens == ASSUME JobInv, J!OpenReminder PROVE JobInv'
<1>1. /\ JobRows /\ InDay /\ Job = "remind" /\ run # Null /\ run.pc = "open" /\ IsRun(run)
      /\ UNCHANGED <<clock, state, lastDaily, history, manual, spoiled, out, bound, told, heard, asked>>
      /\ run' = [run EXCEPT !.pc = "each", !.todo = Subjects \ J!Told, !.sent = J!Told, !.at = clock]
  BY DEF JobInv, JobRows, J!OpenReminder, J!registry, J!people, J!counts
<1>2. /\ IsRun(run') /\ run'.now = run.now /\ run'.at = clock /\ run'.pc = "each" /\ run'.todo = Subjects \ J!Told
      /\ run'.sent = J!Told /\ run'.trigger = run.trigger
  BY <1>1 DEF IsRun
<1>3. JobRows'
  BY <1>1, <1>2 DEF JobRows
<1>4. InDay'
  <2>1. J!today' = J!today /\ J!Told' = J!Told
    BY <1>1 DEF J!today, J!Told
  <2>2. Clean' = Clean /\ (Clean' => OfToday')
    BY <1>1, <1>2, <2>1 DEF InDay, Clean, OfToday, J!today
  <2>3. Clean' => \A m \in Subjects : Reminded(m)'
    BY <1>1, <1>2, <2>1, <2>2 DEF InDay, Reminded, Finished
  <2> QED
    BY <1>1, <1>2, <2>1, <2>2, <2>3 DEF InDay
<1> QED
  BY <1>1, <1>3, <1>4 DEF JobInv

(* Hearing more than the receipts say spoils the day.                      *)
LEMMA RemindStep == ASSUME JobInv, NEW m \in Subjects, J!Remind(m) PROVE JobInv'
<1>1. /\ JobRows /\ InDay /\ Job = "remind" /\ run # Null /\ run.pc = "each" /\ IsRun(run) /\ m \in run.todo
      /\ UNCHANGED <<clock, lastDaily, history, manual, out, bound, told, asked>>
  BY DEF JobInv, JobRows, J!Remind, J!registry, J!people
<1>2. PICK noted \in BOOLEAN :
        /\ noted =>
             /\ run' = [run EXCEPT !.todo = @ \ {m}, !.sent = @ \cup {m}]
             /\ state' = [state EXCEPT !.day = run.at \div Day, !.sent = run'.sent]
             /\ heard' = IF run.at \div Day = J!today THEN [heard EXCEPT ![m] = @ + 1] ELSE heard
        /\ ~noted =>
             /\ run' = [run EXCEPT !.todo = @ \ {m}, !.errors = TRUE] /\ UNCHANGED state
             /\ heard' \in {heard, [heard EXCEPT ![m] = @ + 1]}
  BY DEF J!Remind
<1>3. /\ IsRun(run') /\ run'.now = run.now /\ run'.at = run.at /\ run'.pc = "each" /\ run'.todo = run.todo \ {m}
      /\ run'.trigger = run.trigger /\ run'.sent = IF noted THEN run.sent \cup {m} ELSE run.sent
  BY <1>1, <1>2 DEF IsRun
<1>4. /\ IsStore(state') /\ state'.rows = state.rows /\ state'.since = state.since
      /\ state'.day = (IF noted THEN run.at \div Day ELSE state.day) /\ state'.sent = (IF noted THEN run'.sent ELSE state.sent)
  BY <1>1, <1>2 DEF JobRows, IsStore
<1>5. spoiled' = (spoiled \/ (heard' # heard /\ m \notin run'.sent))
  BY DEF J!Remind
<1>6. heard' \in [Subjects -> Nat] /\ spoiled' \in BOOLEAN
  BY <1>1, <1>2, <1>5 DEF JobRows
<1>7. JobRows'
  BY <1>1, <1>3, <1>4, <1>6 DEF JobRows
<1>8. m \notin run.sent /\ run'.todo \subseteq Subjects \ run'.sent /\ run.at = run.now
  BY <1>1, <1>3 DEF InDay
<1>9. J!today' = J!today
  BY <1>1 DEF J!today
<1>10. Clean' => Clean /\ (noted \/ heard' = heard)
  BY <1>1, <1>3, <1>5, <1>8 DEF Clean
<1>11. ASSUME Clean' PROVE (OfToday' \/ (J!today' # run'.at \div Day /\ Unheard')) /\ \A x \in Subjects : Reminded(x)'
  <2>1. CASE noted /\ J!today = run.at \div Day
    <3>1. J!Told' = run.sent \cup {m} /\ run'.sent = run.sent \cup {m}
      BY <1>3, <1>4, <1>9, <2>1 DEF J!Told
    <3>2. OfToday /\ \A x \in Subjects : Reminded(x)
      BY <1>1, <1>10, <1>11, <2>1 DEF InDay
    <3>3. OfToday'
      BY <1>1, <1>3, <1>9, <2>1, <3>1, <3>2 DEF OfToday
    <3>4. heard' = [heard EXCEPT ![m] = @ + 1]
      BY <1>2, <2>1
    <3>5. heard[m] = 0
      BY <1>1, <1>8, <3>2 DEF Reminded, Finished, OfToday
    <3>6. \A x \in Subjects : Reminded(x)'
      BY <1>1, <3>1, <3>2, <3>4, <3>5 DEF Reminded, Finished, OfToday, JobRows
    <3> QED
      BY <3>3, <3>6
  <2>2. CASE ~(noted /\ J!today = run.at \div Day)
    <3>1. heard' = heard
      BY <1>2, <1>10, <1>11, <2>2
    <3>2. (OfToday \/ (J!today # run.at \div Day /\ Unheard)) /\ \A x \in Subjects : Reminded(x)
      BY <1>1, <1>10, <1>11 DEF InDay
    <3>3. CASE noted
      BY <1>3, <1>9, <2>2, <3>1, <3>2, <3>3 DEF OfToday, Unheard, Reminded
    <3>4. CASE ~noted
      <4>1. J!Told' = J!Told /\ run'.sent = run.sent
        BY <1>3, <1>4, <1>9, <3>4 DEF J!Told
      <4> QED
        BY <1>1, <1>3, <1>9, <3>1, <3>2, <4>1 DEF OfToday, Unheard, Reminded, Finished
    <3> QED
      BY <3>3, <3>4
  <2> QED
    BY <2>1, <2>2
<1>12. InDay'
  BY <1>1, <1>3, <1>8, <1>11 DEF InDay
<1> QED
  BY <1>1, <1>7, <1>12 DEF JobInv

LEMMA ReminderCloses == ASSUME JobConstants, JobInv, J!CloseReminder PROVE JobInv'
<1>1. /\ JobRows /\ InDay /\ Job = "remind" /\ run # Null /\ run.pc = "each" /\ IsRun(run)
      /\ UNCHANGED <<clock, manual, spoiled, out, bound, told, heard, asked>>
  BY DEF JobInv, JobRows, J!CloseReminder, J!people, J!counts
<1>2. J!today' = J!today /\ Clean' = Clean
  BY <1>1 DEF J!today, Clean
<1>3. CASE run.errors
  <2>1. J!Ended(FALSE) /\ UNCHANGED state
    BY <1>3 DEF J!CloseReminder
  <2>2. run' = Null /\ lastDaily' = lastDaily /\ lastDaily' = history'.ok /\ history' = [ok |-> history'.ok, failed |-> history'.failed]
    BY <1>1, <2>1, RunEnds DEF InDay
  <2>3. JobRows'
    BY <1>1, <2>1, <2>2 DEF JobRows
  <2>4. \A m \in Subjects : Reminded(m) => Reminded(m)'
    BY <1>1, <1>2, <2>1, <2>2 DEF Reminded, Finished, J!Told
  <2>5. InDay'
    BY <1>1, <1>2, <2>2, <2>4 DEF InDay
  <2> QED
    BY <1>1, <2>3, <2>5 DEF JobInv
<1>4. CASE ~run.errors
  <2>1. state' = J!Nothing /\ run' = [run EXCEPT !.pc = "close"] /\ UNCHANGED <<lastDaily, history>>
    BY <1>4 DEF J!CloseReminder, J!registry
  <2>2. /\ IsRun(run') /\ run'.now = run.now /\ run'.at = run.at /\ run'.pc = "close" /\ run'.trigger = run.trigger
        /\ run'.errors = run.errors
    BY <1>1, <2>1 DEF IsRun
  <2>3. IsStore(state') /\ state'.rows = <<>> /\ state'.since = <<>> /\ state'.sent = {}
    BY <2>1 DEF J!Nothing, IsStore
  <2>4. /\ state'.rows = [m \in DOMAIN state'.rows |-> state'.rows[m]] /\ DOMAIN state'.rows = {}
        /\ state'.since = [m \in DOMAIN state'.since |-> state'.since[m]] /\ DOMAIN state'.since = {}
    BY <2>3
  <2>5. JobRows'
    BY <1>1, <2>1, <2>2, <2>3, <2>4 DEF JobRows
  <2>6. \A m \in Subjects : Reminded(m) => Reminded(m)'
    BY <1>1, <2>2 DEF Reminded, Finished, JobConstants
  <2>7. Clean => J!today = run.now \div Day \/ Unheard
    BY <1>1 DEF InDay, OfToday
  <2>8. Unheard' = Unheard
    BY <1>1 DEF Unheard
  <2>9. InDay'
    BY <1>1, <1>2, <1>4, <2>1, <2>2, <2>3, <2>6, <2>7, <2>8 DEF InDay
  <2> QED
    BY <1>1, <2>5, <2>9 DEF JobInv
<1> QED
  BY <1>3, <1>4

LEMMA WrittenDown == ASSUME JobInv, J!WriteDown PROVE JobInv'
<1>1. /\ JobRows /\ run # Null /\ run.pc = "close" /\ IsRun(run) /\ J!Ended(~run.errors) /\ Job # "report"
      /\ UNCHANGED <<clock, state, manual, spoiled, out, bound, told, heard, asked>>
  BY DEF JobInv, JobRows, J!WriteDown, J!people, J!counts
<1>2. run' = Null /\ history' = [ok |-> history'.ok, failed |-> history'.failed]
  BY <1>1, RunEnds
<1>3. JobRows'
  BY <1>1, <1>2 DEF JobRows
<1>4. Job = "audit" => Noticing'
  BY <1>1, <1>2 DEF JobInv, Noticing, Notes, ToldBy
<1>5. Job = "remind" => InDay'
  <2> SUFFICES ASSUME Job = "remind" PROVE InDay'
    OBVIOUS
  <2>1. InDay /\ ~run.errors /\ lastDaily' = history'.ok
    BY <1>1, RunEnds DEF JobInv, InDay
  <2>2. run.trigger = "schedule" => lastDaily' = run.now \div Day
    BY <1>1, <2>1, RunEnds DEF InDay
  <2>3. Clean' = Clean /\ J!today' = J!today /\ J!Told' = J!Told
    BY <1>1 DEF Clean, J!today, J!Told
  <2>4. ASSUME Clean, NEW m \in Subjects PROVE Reminded(m)'
    <3>1. lastDaily' = run.now \div Day /\ Reminded(m) /\ (J!today = run.now \div Day \/ Unheard)
      BY <1>1, <2>1, <2>2, <2>4 DEF InDay, Clean
    <3> QED
      BY <1>1, <2>3, <3>1 DEF Reminded, Finished, Unheard
  <2> QED
    BY <1>2, <2>1, <2>3, <2>4 DEF InDay
<1> QED
  BY <1>1, <1>3, <1>4, <1>5 DEF JobInv

(* --------------------------------- audit --------------------------------- *)
(* A step of the audit that keeps the store.                               *)
LEMMA AuditGoesOn ==
  ASSUME JobInv, Job = "audit", run # Null,
         UNCHANGED <<clock, state, manual, spoiled, out, bound, told, heard, asked>>,
         history' = [ok |-> history'.ok, failed |-> history'.failed],
         \/ run' = Null
         \/ /\ IsRun(run') /\ run'.now \in Nat /\ run'.at \in Nat /\ run'.pc = "each" /\ run'.todo \subseteq Subjects
            /\ run'.since = [m \in DOMAIN run'.since |-> run'.since[m]] /\ DOMAIN run'.since \subseteq Subjects
            /\ \A m \in DOMAIN run'.since : run'.since[m] \in Nat
            /\ run'.at <= clock /\ Notes(run'.since) /\ ToldBy(run'.at)
  PROVE  JobInv'
<1>1. JobRows'
  BY DEF JobInv, JobRows
<1>2. Noticing'
  BY DEF JobInv, Noticing, Notes, ToldBy
<1> QED
  BY <1>1, <1>2 DEF JobInv

LEMMA NotKnownStep == ASSUME JobInv, J!NotKnown PROVE JobInv'
<1>1. /\ Job = "audit" /\ run # Null /\ J!Ended(FALSE)
      /\ UNCHANGED <<clock, state, manual, spoiled, out, bound, told, heard, asked>>
  BY DEF J!NotKnown, J!people, J!counts
<1>2. run' = Null /\ history' = [ok |-> history'.ok, failed |-> history'.failed]
  BY <1>1, RunEnds DEF JobInv
<1> QED
  BY <1>1, <1>2, AuditGoesOn

LEMMA AuditOpens == ASSUME JobInv, J!OpenAudit PROVE JobInv'
<1>1. /\ Job = "audit" /\ run # Null /\ IsRun(run) /\ JobRows /\ Noticing
      /\ UNCHANGED <<clock, state, manual, spoiled, out, bound, told, heard, asked, history>>
      /\ run' = [run EXCEPT !.pc = "each", !.at = clock, !.todo = out, !.seen = out,
                            !.since = [m \in J!Kept |-> state.since[m]]]
  BY DEF JobInv, JobRows, J!OpenAudit, J!people, J!counts, J!registry
<1>2. /\ IsRun(run') /\ run'.now = run.now /\ run'.at = clock /\ run'.pc = "each" /\ run'.todo = out
      /\ run'.since = [m \in J!Kept |-> state.since[m]]
  BY <1>1 DEF IsRun
<1>3. J!Kept \subseteq DOMAIN state.since
  BY DEF J!Kept
<1>4. /\ DOMAIN run'.since = J!Kept /\ \A m \in J!Kept : run'.since[m] = state.since[m]
      /\ run'.since = [m \in DOMAIN run'.since |-> run'.since[m]]
  BY <1>2
<1>5. Notes(run'.since) /\ ToldBy(run'.at)
  BY <1>1, <1>2, <1>3, <1>4 DEF Noticing, Notes
<1>6. \A m \in DOMAIN run'.since : run'.since[m] \in Nat /\ m \in Subjects
  BY <1>1, <1>3, <1>4 DEF JobRows
<1>7. history' = [ok |-> history'.ok, failed |-> history'.failed] /\ out \subseteq Subjects /\ clock \in Nat /\ run.now \in Nat
  BY <1>1 DEF JobRows
<1>8. /\ IsRun(run') /\ run'.now \in Nat /\ run'.at \in Nat /\ run'.pc = "each" /\ run'.todo \subseteq Subjects /\ run'.at <= clock
  BY <1>2, <1>7
<1> QED
  BY <1>1, <1>4, <1>5, <1>6, <1>7, <1>8, AuditGoesOn

LEMMA TellingStep == ASSUME JobInv, NEW m \in Subjects, J!TellLeaver(m) PROVE JobInv'
<1>1. /\ Job = "audit" /\ run # Null /\ run.pc = "each" /\ IsRun(run) /\ JobRows /\ Noticing /\ m \notin DOMAIN run.since
      /\ UNCHANGED <<clock, manual, spoiled, out, bound, heard, asked, history>>
  BY DEF JobInv, JobRows, J!TellLeaver, J!people, J!counts, J!registry
<1>2. CASE run' = [run EXCEPT !.todo = @ \ {m}, !.errors = TRUE] /\ UNCHANGED <<state, told>>
  <2>1. /\ IsRun(run') /\ run'.now = run.now /\ run'.at = run.at /\ run'.pc = "each" /\ run'.todo \subseteq run.todo
        /\ run'.since = run.since
    BY <1>1, <1>2 DEF IsRun
  <2>2. /\ run.todo \subseteq Subjects /\ run.now \in Nat /\ run.at \in Nat /\ run.at <= clock
        /\ run.since = [x \in DOMAIN run.since |-> run.since[x]] /\ DOMAIN run.since \subseteq Subjects
        /\ \A x \in DOMAIN run.since : run.since[x] \in Nat
        /\ Notes(run.since) /\ ToldBy(run.at) /\ history' = [ok |-> history'.ok, failed |-> history'.failed]
    BY <1>1 DEF JobRows, Noticing
  <2> QED
    BY <1>1, <1>2, <2>1, <2>2, AuditGoesOn
<1>3. CASE /\ told' = [told EXCEPT ![m] = IF @ = Null THEN run.at ELSE @]
           /\ run' = [run EXCEPT !.todo = IF Delay > 0 THEN @ \ {m} ELSE @, !.since = J!Noted(m)]
           /\ state' = [state EXCEPT !.since = run'.since]
  <2>1. /\ IsRun(run') /\ run'.now = run.now /\ run'.at = run.at /\ run'.pc = "each" /\ run'.todo \subseteq run.todo
        /\ run'.since = J!Noted(m)
    BY <1>1, <1>3 DEF IsRun
  <2>2. IsStore(state') /\ state'.rows = state.rows /\ state'.since = J!Noted(m)
    BY <1>1, <1>3, <2>1 DEF JobRows, IsStore
  <2>3. /\ DOMAIN J!Noted(m) = DOMAIN run.since \cup {m}
        /\ J!Noted(m)[m] = run.at /\ \A x \in DOMAIN run.since : J!Noted(m)[x] = run.since[x]
        /\ J!Noted(m) = [x \in DOMAIN J!Noted(m) |-> J!Noted(m)[x]]
    BY <1>1 DEF J!Noted
  <2>4. /\ run.todo \subseteq Subjects /\ run.now \in Nat /\ run.at \in Nat /\ run.at <= clock /\ clock \in Nat
        /\ DOMAIN run.since \subseteq Subjects
        /\ \A x \in DOMAIN run.since : run.since[x] \in Nat
        /\ Notes(run.since) /\ ToldBy(run.at) /\ told \in [Subjects -> Nat \cup {Null}]
    BY <1>1 DEF JobRows, Noticing
  <2>5. /\ told' \in [Subjects -> Nat \cup {Null}] /\ told'[m] \in Nat /\ told'[m] <= run.at
        /\ \A x \in Subjects \ {m} : told'[x] = told[x]
    BY <1>3, <2>4 DEF ToldBy
  <2> DEFINE n == J!Noted(m)
  <2> HIDE DEF n
  <2>6. \A x \in DOMAIN n : x \in Subjects /\ told'[x] \in Nat /\ told'[x] <= n[x] /\ n[x] \in Nat
    BY <2>3, <2>4, <2>5 DEF Notes, n
  <2>7. Notes(run.since)' /\ Notes(state.since)'
    BY <2>1, <2>2, <2>6 DEF Notes, n
  <2>8. ToldBy(run.at)' /\ ToldBy(clock)'
    BY <1>1, <2>1, <2>4, <2>5 DEF ToldBy
  <2>9. JobRows'
    BY <1>1, <2>1, <2>2, <2>3, <2>4, <2>5, <2>6 DEF JobRows, n
  <2>10. Noticing'
    BY <1>1, <2>1, <2>4, <2>7, <2>8 DEF Noticing
  <2> QED
    BY <1>1, <2>9, <2>10 DEF JobInv
<1> QED
  BY <1>2, <1>3 DEF J!TellLeaver

(* A suspension comes no sooner after the telling than after the note.     *)
LEMMA SuspensionStep ==
  ASSUME JobConstants, JobInv, NEW m \in Subjects, J!SuspendLeaver(m)
  PROVE  JobInv' /\ J!GraceKept
<1>1. /\ Job = "audit" /\ run # Null /\ run.pc = "each" /\ IsRun(run) /\ JobRows /\ Noticing /\ m \in DOMAIN run.since
      /\ UNCHANGED <<clock, state, manual, spoiled, out, bound, told, heard, asked, history>>
  BY DEF JobInv, JobRows, J!SuspendLeaver, J!counts, J!registry
<1>2. /\ run.todo \subseteq Subjects /\ run.now \in Nat /\ run.at \in Nat /\ run.at <= clock /\ clock \in Nat
      /\ run.since = [x \in DOMAIN run.since |-> run.since[x]] /\ DOMAIN run.since \subseteq Subjects
      /\ \A x \in DOMAIN run.since : run.since[x] \in Nat
      /\ Notes(run.since) /\ ToldBy(run.at) /\ history' = [ok |-> history'.ok, failed |-> history'.failed]
  BY <1>1 DEF JobRows, Noticing
<1>3. CASE run.at - run.since[m] >= Delay
  <2>1. barred' = barred \cup {m} /\ run' = [run EXCEPT !.todo = @ \ {m}, !.since = J!Without({m})]
    BY <1>3 DEF J!SuspendLeaver
  <2>2. /\ IsRun(run') /\ run'.now = run.now /\ run'.at = run.at /\ run'.pc = "each" /\ run'.todo \subseteq run.todo
        /\ run'.since = J!Without({m})
    BY <1>1, <2>1 DEF IsRun
  <2>3. /\ DOMAIN J!Without({m}) = DOMAIN run.since \ {m} /\ \A x \in DOMAIN run.since \ {m} : J!Without({m})[x] = run.since[x]
        /\ J!Without({m}) = [x \in DOMAIN J!Without({m}) |-> J!Without({m})[x]]
    BY DEF J!Without
  <2>4. Notes(run'.since) /\ \A x \in DOMAIN run'.since : x \in Subjects /\ run'.since[x] \in Nat
    BY <1>2, <2>2, <2>3 DEF Notes
  <2>5. JobInv'
    BY <1>1, <1>2, <2>2, <2>3, <2>4, AuditGoesOn
  <2>6. told[m] \in Nat /\ told[m] <= run.since[m] /\ run.since[m] \in Nat /\ Delay \in Nat
    BY <1>1, <1>2 DEF Notes, JobConstants, J!JobBounds
  <2>7. told[m] # Null /\ clock - told[m] >= Delay
    BY <1>2, <1>3, <2>6 DEF JobConstants
  <2> QED
    BY <2>1, <2>5, <2>7 DEF J!GraceKept
<1>4. CASE ~(run.at - run.since[m] >= Delay)
  <2>1. UNCHANGED barred /\ run' = [run EXCEPT !.todo = @ \ {m}]
    BY <1>4 DEF J!SuspendLeaver
  <2>2. /\ IsRun(run') /\ run'.now = run.now /\ run'.at = run.at /\ run'.pc = "each" /\ run'.todo \subseteq run.todo
        /\ run'.since = run.since
    BY <1>1, <2>1 DEF IsRun
  <2>3. JobInv'
    BY <1>1, <1>2, <2>2, AuditGoesOn
  <2> QED
    BY <2>1, <2>3 DEF J!GraceKept
<1> QED
  BY <1>3, <1>4

LEMMA AuditCloses == ASSUME JobInv, J!CloseAudit PROVE JobInv'
<1>1. /\ Job = "audit" /\ run # Null /\ run.pc = "each" /\ IsRun(run) /\ JobRows /\ Noticing
      /\ UNCHANGED <<clock, manual, spoiled, out, bound, heard, asked, history>>
      /\ state' = [state EXCEPT !.since = J!Returned] /\ run' = [run EXCEPT !.pc = "close"]
      /\ told' = [m \in Subjects |-> IF m \in run.seen THEN told[m] ELSE Null]
  BY DEF JobInv, JobRows, J!CloseAudit, J!people, J!counts, J!registry
<1>2. IsRun(run') /\ run'.now = run.now /\ run'.at = run.at /\ run'.pc = "close"
  BY <1>1 DEF IsRun
<1>3. /\ DOMAIN J!Returned = DOMAIN run.since \ (Subjects \ run.seen)
      /\ \A x \in DOMAIN J!Returned : J!Returned[x] = run.since[x]
      /\ J!Returned = [x \in DOMAIN J!Returned |-> J!Returned[x]]
  BY DEF J!Returned, J!Without
<1>4. /\ DOMAIN run.since \subseteq Subjects /\ (\A x \in DOMAIN run.since : run.since[x] \in Nat)
      /\ Notes(run.since) /\ ToldBy(clock)
  BY <1>1 DEF JobRows, Noticing
<1>5. /\ DOMAIN J!Returned \subseteq Subjects
      /\ \A x \in DOMAIN J!Returned : J!Returned[x] \in Nat /\ told[x] \in Nat /\ told[x] <= J!Returned[x] /\ x \in run.seen
  BY <1>3, <1>4 DEF Notes
<1>6. IsStore(state') /\ state'.rows = state.rows /\ state'.since = J!Returned
  BY <1>1 DEF JobRows, IsStore
<1>7. told' \in [Subjects -> Nat \cup {Null}]
  BY <1>1 DEF JobRows
<1>8. JobRows'
  BY <1>1, <1>2, <1>3, <1>5, <1>6, <1>7 DEF JobRows
<1>9. Notes(state.since)' /\ ToldBy(clock)'
  BY <1>1, <1>4, <1>5, <1>6 DEF Notes, ToldBy
<1>10. Noticing'
  BY <1>2, <1>9 DEF Noticing
<1> QED
  BY <1>1, <1>8, <1>10 DEF JobInv

(* ------------------------ the loop, the people, faults ------------------- *)
LEMMA StartStep == ASSUME JobInv, J!tick \/ J!run_now PROVE JobInv'
<1>1. /\ JobRows /\ run = Null
      /\ UNCHANGED <<clock, state, lastDaily, history, spoiled, out, bound, told, heard, asked>>
  BY DEF JobInv, J!tick, J!run_now, J!_due, J!people, J!counts, J!registry
<1>2. PICK trigger, batch : /\ J!Starts(trigger, batch)
                            /\ \/ trigger = "schedule" /\ manual' = manual /\ (Job = "remind" => lastDaily # J!today)
                               \/ manual' = manual + 1
  <2>1. CASE J!tick
    <3>1. J!Starts("schedule", Null) /\ manual' = manual
      BY <2>1 DEF J!tick
    <3>2. Job = "remind" => lastDaily # J!today
      BY <2>1 DEF J!tick, J!_due
    <3> QED
      BY <3>1, <3>2
  <2>2. CASE J!run_now
    BY <2>2 DEF J!run_now
  <2> QED
    BY <2>1, <2>2
<1>3. /\ IsRun(run') /\ run'.trigger = trigger /\ run'.now = clock /\ run'.at = clock /\ run'.pc = "open"
  BY <1>2 DEF J!Starts, IsRun
<1>4. manual' \in Nat
  BY <1>1, <1>2 DEF JobRows
<1>5. JobRows'
  BY <1>1, <1>3, <1>4 DEF JobRows
<1>6. Job = "report" => Batch'
  BY <1>1, <1>3 DEF JobInv, Batch, Silent
<1>7. Job = "audit" => Noticing'
  BY <1>1, <1>3 DEF JobInv, Noticing, Notes, ToldBy
<1>8. Job = "remind" => InDay'
  <2> SUFFICES ASSUME Job = "remind" PROVE InDay'
    OBVIOUS
  <2>1. InDay /\ manual \in Nat
    BY <1>1 DEF JobInv, JobRows
  <2>2. J!today' = J!today /\ J!Told' = J!Told
    BY <1>1 DEF J!today, J!Told
  <2>3. manual' > 0 \/ (trigger = "schedule" /\ lastDaily # J!today /\ manual' = manual)
    BY <1>2, <2>1
  <2>4. Clean' => Clean
    BY <1>1, <1>4, <2>1, <2>3 DEF Clean
  <2>5. Clean' => \A m \in Subjects : Reminded(m)'
    BY <1>1, <1>3, <2>1, <2>2, <2>4 DEF InDay, Reminded, Finished
  <2> QED
    BY <1>1, <1>3, <2>1, <2>2, <2>3, <2>5 DEF InDay
<1> QED
  BY <1>5, <1>6, <1>7, <1>8 DEF JobInv

LEMMA HoursGo == ASSUME JobConstants, JobInv, J!Tick PROVE JobInv'
<1>1. /\ JobRows /\ clock' = clock + 1
      /\ UNCHANGED <<state, run, lastDaily, history, manual, out, bound, told, asked>>
  BY DEF JobInv, J!Tick, J!people, J!registry
<1>2. heard' \in [Subjects -> Nat] /\ spoiled' \in BOOLEAN
  <2>1. \/ heard' = [m \in Subjects |-> 0] /\ spoiled' = FALSE
        \/ heard' = heard /\ spoiled' = spoiled
    BY DEF J!Tick
  <2>2. CASE heard' = [m \in Subjects |-> 0] /\ spoiled' = FALSE
    BY <2>2
  <2>3. CASE heard' = heard /\ spoiled' = spoiled
    BY <1>1, <2>3 DEF JobRows
  <2> QED
    BY <2>1, <2>2, <2>3
<1>3. JobRows'
  BY <1>1, <1>2 DEF JobRows
<1>4. Job = "report" => Batch'
  <2> SUFFICES ASSUME Job = "report" PROVE Batch'
    OBVIOUS
  <2>1. Batch /\ heard' = heard
    BY DEF JobInv, J!Tick
  <2> QED
    BY <1>1, <2>1 DEF Batch, Silent
<1>5. Job = "audit" => Noticing'
  <2> SUFFICES ASSUME Job = "audit" PROVE Noticing'
    OBVIOUS
  <2>1. Noticing /\ clock \in Nat /\ told \in [Subjects -> Nat \cup {Null}] /\ (run # Null => run.at \in Nat)
    BY <1>1 DEF JobInv, JobRows
  <2>2. ToldBy(clock)'
    BY <1>1, <2>1 DEF Noticing, ToldBy
  <2>3. Notes(state.since)'
    BY <1>1, <2>1 DEF Noticing, Notes
  <2>4. run # Null /\ run.pc = "each" => run.at <= clock' /\ Notes(run.since)' /\ ToldBy(run.at)'
    BY <1>1, <2>1 DEF Noticing, Notes, ToldBy
  <2> QED
    BY <1>1, <2>2, <2>3, <2>4 DEF Noticing
<1>6. Job = "remind" => InDay'
  <2> SUFFICES ASSUME Job = "remind" PROVE InDay'
    OBVIOUS
  <2>1. InDay /\ clock \in Nat /\ Day \in Nat \ {0}
    BY <1>1 DEF JobInv, JobRows, JobConstants, J!JobBounds
  <2>2. run # Null => clock = run.now /\ run.pc # "open"
    BY DEF J!Tick
  <2>3. CASE (clock + 1) % Day # 0
    <3>1. J!today' = J!today /\ heard' = heard /\ spoiled' = spoiled
      BY <1>1, <2>1, <2>3, SameDay DEF J!Tick, J!today
    <3>2. J!Told' = J!Told /\ Clean' = Clean
      BY <1>1, <3>1 DEF J!Told, Clean
    <3>3. \A m \in Subjects : Reminded(m)' = Reminded(m)
      BY <1>1, <3>1, <3>2 DEF Reminded, Finished
    <3>4. Unheard' = Unheard /\ (run # Null => OfToday' = OfToday)
      BY <1>1, <3>1, <3>2 DEF Unheard, OfToday
    <3> QED
      BY <1>1, <2>1, <2>2, <3>1, <3>2, <3>3, <3>4 DEF InDay
  <2>4. CASE (clock + 1) % Day = 0
    <3>1. heard' = [m \in Subjects |-> 0]
      BY <1>1, <2>4 DEF J!Tick
    <3>2. Unheard' /\ \A m \in Subjects : Reminded(m)'
      BY <3>1 DEF Unheard, Reminded
    <3>3. J!today' # clock \div Day
      BY <1>1, <2>1, <2>4, NextDay DEF J!today
    <3>4. run # Null /\ run.pc = "each" => J!today' # run'.at \div Day
      BY <1>1, <2>1, <2>2, <3>3 DEF InDay
    <3> QED
      BY <1>1, <2>1, <2>2, <3>2, <3>4 DEF InDay
  <2> QED
    BY <2>3, <2>4
<1> QED
  BY <1>3, <1>4, <1>5, <1>6 DEF JobInv

LEMMA PeopleStep ==
  ASSUME JobInv, J!Switch \/ (\E m \in Subjects : J!Rebind(m) \/ J!Move(m)) \/ UNCHANGED J!vars PROVE JobInv'
<1>1. /\ JobRows /\ UNCHANGED <<clock, state, run, lastDaily, history, manual, spoiled, told, heard, asked>>
      /\ \/ bound' = bound
         \/ Job = "report" /\ \E m \in Subjects : bound' = [bound EXCEPT ![m] = @ + 1]
      /\ out' = out \/ \E m \in Subjects : out' \in {out \ {m}, out \cup {m}}
  BY DEF JobInv, J!Switch, J!Rebind, J!Move, J!people, J!counts, J!registry, J!vars
<1>2. bound' \in [Subjects -> Nat] /\ (\A m \in Subjects : bound[m] <= bound'[m]) /\ out' \subseteq Subjects
  BY <1>1 DEF JobRows
<1>3. JobRows'
  BY <1>1, <1>2 DEF JobRows
<1>4. Job = "report" => Batch'
  <2> SUFFICES ASSUME Job = "report" PROVE Batch'
    OBVIOUS
  <2>1. Batch
    BY DEF JobInv
  <2>2. ASSUME NEW m \in DOMAIN state.rows
        PROVE  state.rows[m].bound <= bound'[m] /\ (Silent(m)' => Silent(m))
    <3>1. m \in Subjects /\ state.rows[m].bound \in Nat /\ state.rows[m].bound <= bound[m] /\ bound[m] \in Nat /\ bound'[m] \in Nat
      BY <1>1, <1>2, <2>1 DEF JobRows, IsRow, Batch
    <3> QED
      BY <1>1, <1>2, <3>1 DEF Silent
  <2> QED
    BY <1>1, <2>1, <2>2 DEF Batch
<1>5. Job = "audit" => Noticing'
  BY <1>1 DEF JobInv, Noticing, Notes, ToldBy
<1>6. Job = "remind" => InDay'
  BY <1>1 DEF JobInv, InDay, Clean, Reminded, Finished, Unheard, OfToday, J!today, J!Told
<1> QED
  BY <1>3, <1>4, <1>5, <1>6 DEF JobInv

(* A run that is broken off may have had one more message arrive.          *)
LEMMA BrokenOff ==
  ASSUME JobInv, run' = Null,
         UNCHANGED <<clock, state, manual, out, bound, told, asked>>,
         history' = [ok |-> history'.ok, failed |-> history'.failed],
         Job = "remind" => lastDaily' = lastDaily /\ lastDaily' = history'.ok,
         heard' = heard \/ (run # Null /\ J!MayHaveArrived), spoiled' \in BOOLEAN,
         ~spoiled' => ~spoiled /\ heard' = heard /\ ~(run # Null /\ run.pc = "close")
  PROVE  JobInv'
<1>1. JobRows
  BY DEF JobInv
<1>2. \/ heard' = heard
      \/ \E m \in Subjects : /\ heard' = [heard EXCEPT ![m] = @ + 1]
                             /\ Job = "report" => run # Null /\ run.pc = "send" /\ m = run.member
  BY DEF J!MayHaveArrived
<1>3. heard' \in [Subjects -> Nat]
  BY <1>1, <1>2 DEF JobRows
<1>4. JobRows'
  BY <1>1, <1>3 DEF JobRows
<1>5. Job = "report" => Batch'
  <2> SUFFICES ASSUME Job = "report" PROVE Batch'
    OBVIOUS
  <2>1. Batch
    BY DEF JobInv
  <2>2. CASE heard' = heard
    BY <2>1, <2>2 DEF Batch, Silent
  <2>3. ASSUME NEW m \in Subjects, heard' = [heard EXCEPT ![m] = @ + 1], run # Null, run.pc = "send", m = run.member
        PROVE  Batch'
    <3>1. m \in DOMAIN state.rows /\ state.rows[m].state = "sending" /\ heard[m] <= asked[m]
      BY <2>1, <2>3 DEF Batch
    <3>2. \A x \in Subjects : heard'[x] <= 1 + asked'[x]
      BY <1>1, <2>1, <2>3, <3>1 DEF Batch, JobRows
    <3>3. \A x \in DOMAIN state.rows : Silent(x)' => heard'[x] <= asked'[x]
      BY <1>1, <2>1, <2>3, <3>1 DEF Batch, JobRows, Silent
    <3> QED
      BY <2>1, <3>2, <3>3 DEF Batch
  <2> QED
    BY <1>2, <2>2, <2>3
<1>6. Job = "audit" => Noticing'
  BY DEF JobInv, Noticing, Notes, ToldBy
<1>7. Job = "remind" => InDay'
  <2> SUFFICES ASSUME Job = "remind" PROVE InDay'
    OBVIOUS
  <2>1. InDay /\ J!today' = J!today /\ J!Told' = J!Told
    BY DEF JobInv, J!today, J!Told
  <2>2. ASSUME Clean', NEW m \in Subjects PROVE Reminded(m)'
    <3>1. Reminded(m) /\ heard' = heard /\ ~(run # Null /\ run.pc = "close")
      BY <2>1, <2>2 DEF InDay, Clean
    <3> QED
      BY <2>1, <3>1 DEF Reminded, Finished
  <2> QED
    BY <2>1, <2>2 DEF InDay
<1> QED
  BY <1>4, <1>5, <1>6, <1>7 DEF JobInv

LEMMA FaultStep == ASSUME JobInv, J!TimesOut \/ J!Crash PROVE JobInv'
<1>1. CASE J!TimesOut
  <2>1. /\ run # Null /\ run.pc # "close" /\ J!MayHaveArrived /\ J!Ended(FALSE) /\ JobRows
        /\ UNCHANGED <<clock, state, manual, out, bound, told, asked>> /\ spoiled' = (spoiled \/ heard' # heard)
    BY <1>1 DEF JobInv, J!TimesOut, J!people
  <2>2. /\ run' = Null /\ history' = [ok |-> history'.ok, failed |-> history'.failed]
        /\ Job = "remind" => lastDaily' = lastDaily /\ lastDaily' = history'.ok
    BY <2>1, RunEnds DEF JobInv, InDay
  <2>3. spoiled' \in BOOLEAN /\ (~spoiled' => ~spoiled /\ heard' = heard /\ ~(run # Null /\ run.pc = "close"))
    BY <2>1 DEF JobRows
  <2> QED
    BY <2>1, <2>2, <2>3, BrokenOff
<1>2. CASE J!Crash
  <2>1. /\ run' = Null /\ lastDaily' = history.ok /\ history' = history /\ JobRows
        /\ UNCHANGED <<clock, state, manual, out, bound, told, asked>>
        /\ heard' = heard \/ (run # Null /\ J!MayHaveArrived)
        /\ spoiled' = (spoiled \/ heard' # heard \/ (run # Null /\ run.pc = "close"))
    BY <1>2 DEF JobInv, J!Crash, J!people, J!Restored
  <2>2. /\ history' = [ok |-> history'.ok, failed |-> history'.failed]
        /\ Job = "remind" => lastDaily' = lastDaily /\ lastDaily' = history'.ok
    BY <2>1 DEF JobInv, InDay, JobRows
  <2>3. spoiled' \in BOOLEAN /\ (~spoiled' => ~spoiled /\ heard' = heard /\ ~(run # Null /\ run.pc = "close"))
    BY <2>1 DEF JobRows
  <2> QED
    BY <2>1, <2>2, <2>3, BrokenOff
<1> QED
  BY <1>1, <1>2

(* Nobody hears a report twice but after an operator had an uncertain one   *)
(* sent again, nor a reminder twice in a day but after a lost answer, a     *)
(* crash before the run was written down or a run by hand; and nobody is    *)
(* suspended but the grace after he was told (report_delivery,              *)
(* _delivery_state, the audit of who left): for any members, hours, graces  *)
(* and retries, and however runs, restarts and bindings fall together.  Of  *)
(* reports this takes that a 5xx answer means that nothing was sent: after  *)
(* one a report is sent again (report_delivery.failure, record_failure).    *)
THEOREM JobsTellOnce ==
  ASSUME JobConstants, Job = "report" => ErrorsRefuse
  PROVE  J!Init /\ [][J!Next]_(J!vars) => []J!HeardOnce /\ [][J!GraceKept]_(J!vars)
<1>1. J!Init => JobInv
  BY JobInit
<1>2. JobInv /\ [J!Next]_(J!vars) => JobInv' /\ J!GraceKept
  <2> SUFFICES ASSUME JobInv, [J!Next]_(J!vars) PROVE JobInv' /\ J!GraceKept
    OBVIOUS
  <2>1. CASE \E m \in Subjects : J!SuspendLeaver(m)
    BY <2>1, SuspensionStep
  <2>2. CASE barred' = barred
    <3>1. J!GraceKept
      BY <2>2 DEF J!GraceKept
    <3>2. CASE UNCHANGED J!vars
      BY <3>1, <3>2, PeopleStep
    <3>3. CASE J!Work /\ ~\E m \in Subjects : J!SuspendLeaver(m)
      BY <3>1, <3>3, ReportOpens, RecipientStep, DrawStep, SendStep, ReportCloses, ReminderOpens, RemindStep,
         ReminderCloses,
         WrittenDown, NotKnownStep, AuditOpens, TellingStep, AuditCloses DEF J!Work
    <3>4. CASE J!tick \/ J!run_now \/ J!Tick \/ J!Switch \/ J!TimesOut \/ J!Crash \/ \E m \in Subjects : J!Rebind(m) \/ J!Move(m)
      BY <3>1, <3>4, StartStep, HoursGo, PeopleStep, FaultStep
    <3> QED
      BY <2>1, <3>1, <3>2, <3>3, <3>4, SuspensionStep DEF J!Next
  <2>3. QED
    BY <2>1, <2>2 DEF J!Next, J!vars, J!Work, J!people, J!OpenReport, J!Recipient, J!Draw, J!Send,
       J!CloseReport, J!OpenReminder,
       J!Remind, J!CloseReminder, J!WriteDown, J!NotKnown, J!OpenAudit, J!TellLeaver, J!CloseAudit, J!tick, J!run_now, J!Tick,
       J!Switch, J!TimesOut, J!Crash, J!Rebind, J!Move
<1>3. JobInv => J!HeardOnce
  <2> SUFFICES ASSUME JobInv, NEW m \in Subjects
               PROVE  /\ Job = "report" => heard[m] <= 1 + asked[m]
                      /\ Job = "remind" /\ heard[m] > 1 => manual > 0 \/ spoiled
    BY DEF J!HeardOnce
  <2>1. manual \in Nat
    BY DEF JobInv, JobRows
  <2> QED
    BY <2>1 DEF JobInv, Batch, InDay, Clean, Reminded
<1>4. QED
  BY <1>1, <1>2, <1>3, PTL

=============================================================================
