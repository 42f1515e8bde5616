-------------------------- MODULE StreamAdmission --------------------------
(***************************************************************************)
(* How many sessions of one member may play at once                        *)
(* (backend/app/modules/streams.py).  A session that may play holds a seat *)
(* (a row of stream_leases).  Deck never sees the playing itself: it asks  *)
(* Emby for a snapshot of all sessions, and decides on it after Emby may   *)
(* have moved on.  Members do not share locks, leases or snapshots, so one *)
(* member is enough.                                                       *)
(*                                                                         *)
(* inspect, issue_info, report_stopped and confirm_violation hold the      *)
(* member's lock from before the snapshot until they are done; the steps   *)
(* between two awaits are the actions below.  What the caller sent is      *)
(* chosen when it is used, for nothing depends on it before.               *)
(***************************************************************************)
EXTENDS Integers, FiniteSets

CONSTANTS
    Sessions,  \* Emby session Ids of the member
    Devices,
    DeviceOf,  \* the DeviceId of a session
    Plays,     \* PlaySessionIds
    None,      \* no device, session or play was named
    Other,     \* something Deck did not issue is playing
    Policies,  \* what the panel may say of the member
    Grace,     \* ticks an unobserved start keeps its seat (PENDING_START_SECONDS)
    Restarts   \* bound: how often Deck restarts

ASSUME AdmissionAssumption ==
    /\ IsFiniteSet(Sessions) /\ DeviceOf \in [Sessions -> Devices]
    /\ None \notin Sessions \cup Devices \cup Plays /\ Other \notin Plays \cup {None}
    /\ Grace \in Nat \ {0} /\ Restarts \in Nat
    /\ \A p \in Policies : /\ p.member \in BOOLEAN /\ p.admin \in BOOLEAN
                           /\ p.cap \in Nat /\ p.blocked \subseteq Devices

VARIABLES
    there,     \* the sessions Emby knows
    playing,   \* what each session is playing, None when idle; a pause is not idle
    issued,    \* the session each play was issued to (watch_playbacks)
    began,     \* plays that have played, or that the client has reported
    policy,    \* the member's row
    held,      \* the sessions that have a seat
    lease,     \* the columns of their rows
    section,   \* who has the member's lock, and how far it is
    acks,      \* activity reports Emby has accepted and Deck has not recorded
    suspects,  \* refused sessions to look at again after the grace period
    sanctions, \* sessions reported to the restrictions
    restarts

emby == <<there, playing, issued, began>>
vars == <<emby, policy, held, lease, section, acks, suspects, sanctions, restarts>>

Lease == [observed : BOOLEAN, play : Plays \cup {None}, guard : BOOLEAN, age : 0..Grace,
          replaced : BOOLEAN]  \* not a column: the seat had another play before
Blank == [observed |-> FALSE, play |-> None, guard |-> FALSE, age |-> 0, replaced |-> FALSE]

Free == [at |-> "free"]

Init ==
    /\ there = {} /\ playing = [s \in Sessions |-> None]
    /\ issued = [p \in Plays |-> None] /\ began = {}
    /\ policy \in Policies
    /\ held = {} /\ lease = [s \in Sessions |-> Blank]
    /\ section = Free /\ acks = {} /\ suspects = {} /\ sanctions = {} /\ restarts = 0

-----------------------------------------------------------------------------
\* Emby, the members' clients, the panel and the clock.
Live == {s \in there : playing[s] # None}

LogIn(s) ==
    /\ there' = there \cup {s}
    /\ UNCHANGED <<playing, issued, began, policy, held, lease, section, acks, suspects, sanctions,
                   restarts>>

LogOut(s) ==
    /\ there' = there \ {s} /\ playing' = [playing EXCEPT ![s] = None]
    /\ UNCHANGED <<issued, began, policy, held, lease, section, acks, suspects, sanctions, restarts>>

PlayOn(s, p) ==
    /\ s \in there /\ (p \in Plays => issued[p] = s)
    /\ playing' = [playing EXCEPT ![s] = p] /\ began' = began \cup ({p} \cap Plays)
    /\ UNCHANGED <<there, issued, policy, held, lease, section, acks, suspects, sanctions, restarts>>

Stop(s) ==
    /\ playing' = [playing EXCEPT ![s] = None]
    /\ UNCHANGED <<there, issued, began, policy, held, lease, section, acks, suspects, sanctions,
                   restarts>>

\* A client reports Playing or Progress, and Emby accepts it (issue() in
\* report_activity, which is not under the lock).
Report(p, s) ==
    /\ issued[p] # None
    /\ acks' = acks \cup {[play |-> p, sid |-> s]} /\ began' = began \cup {p}
    /\ UNCHANGED <<there, playing, issued, policy, held, lease, section, suspects, sanctions, restarts>>

SetPolicy(p) ==
    /\ policy' = p
    /\ UNCHANGED <<emby, held, lease, section, acks, suspects, sanctions, restarts>>

Tick ==
    /\ \E s \in held : lease[s].age < Grace
    /\ lease' = [s \in Sessions |->
                    IF s \in held /\ lease[s].age < Grace
                    THEN [lease[s] EXCEPT !.age = @ + 1] ELSE lease[s]]
    /\ UNCHANGED <<emby, policy, held, section, acks, suspects, sanctions, restarts>>

-----------------------------------------------------------------------------
(* _snapshot: what Emby answers.  A client need not tell Emby which play   *)
(* it is.                                                                  *)
Snapshot ==
    /\ section = Free
    /\ \E silent \in BOOLEAN :
          section' = [at |-> "asked", there |-> there, live |-> Live,
                      shown |-> [s \in Sessions |->
                                   IF silent \/ playing[s] = Other THEN None ELSE playing[s]]]
    /\ UNCHANGED <<emby, policy, held, lease, acks, suspects, sanctions, restarts>>

(* matching_sessions: a session Id is authoritative, else the device is;   *)
(* the client's profile narrows several sessions of one device.            *)
Matching(dev, sid, fits) ==
    LET matches == {s \in section.there : (dev # None => DeviceOf[s] = dev)
                                          /\ (sid # None => s = sid)}
    IN IF sid # None \/ Cardinality(matches) <= 1 THEN matches ELSE matches \cap fits

\* The seat a play is bound to.
Bearer(play) == {s \in held : play # None /\ lease[s].play = play}

\* The session a play is bound to, by its seat or by the issuance record.
BoundTo(play, dev) ==
    IF play = None THEN {}
    ELSE IF Cardinality(Bearer(play)) = 1 THEN Bearer(play)
    ELSE {s \in Sessions : dev # None /\ issued[play] = s /\ DeviceOf[s] = dev}

(* The sessions the request may be about; it is refused unless there is    *)
(* exactly one.                                                            *)
Resolved(dev, sid, play, fits) ==
    LET bound == BoundTo(play, dev) IN
    IF bound # {} THEN IF sid = None \/ sid \in bound
                       THEN UNION {Matching(dev, s, fits) : s \in bound} ELSE {}
    ELSE IF dev = None THEN {} ELSE Matching(dev, sid, fits)

\* Mutant: a start nobody has seen playing keeps its seat for ever.
LapsedNever(s) == FALSE

\* The seat of a start that was never seen playing has run out.
Lapsed(s) == ~lease[s].observed /\ lease[s].age >= Grace

\* Seats a snapshot ends.
Dropped ==
    {s \in held : \/ s \notin section.there
                  \/ s \notin section.live /\ (lease[s].observed \/ Lapsed(s))}

Kept == held \ Dropped

\* Seats whose play the snapshot shows.
Seen ==
    {s \in Kept \cap section.live :
        ~lease[s].guard \/ (lease[s].play # None /\ section.shown[s] = lease[s].play)}

\* Sessions that play without a seat get one as long as all fit.
Claimed == IF Cardinality(section.live \cup Kept) <= policy.cap THEN section.live \ Kept ELSE {}

Occupied == Kept \cup Claimed

Capped == policy.member /\ ~policy.admin /\ policy.cap > 0

\* Mutant: the seats of starts that do not play yet are not counted.
FullOfLive == Cardinality(section.live) >= policy.cap

\* No seat is left for one more session.
Full == Cardinality(Occupied \cup section.live) >= policy.cap

\* The rows of the seats that are left, with what the snapshot told of them.
Leases ==
    [s \in Sessions |->
        IF s \in Claimed THEN [Blank EXCEPT !.observed = TRUE]
        ELSE IF s \in Seen THEN [lease[s] EXCEPT !.observed = TRUE, !.guard = FALSE]
        ELSE IF s \in Kept THEN lease[s]
        ELSE Blank]

(* The transaction of _admit: the snapshot is applied whatever the answer. *)
Decide(s, granted) ==
    /\ section.at = "asked" /\ Capped
    /\ granted = (s \notin Occupied /\ ~Full)
    /\ held' = IF granted THEN Occupied \cup {s} ELSE Occupied
    /\ lease' = Leases

Refused(s) == s \notin Occupied /\ Full

\* Only a newcomer against seats that are all really played on.
Punishable(s, dev) ==
    /\ dev # None /\ s \notin section.live
    /\ Cardinality(section.live) = policy.cap /\ section.live \subseteq Occupied

(* _restrict_concurrency, once the answer is over-limit: Emby must say     *)
(* that the member is not an administrator of Emby.                        *)
Suspect(s, dev) ==
    IF Refused(s) /\ Punishable(s, dev) /\ ~\E x \in suspects : x.sid = s
    THEN suspects' \in {suspects, suspects \cup {[sid |-> s, cap |-> policy.cap,
                                                  live |-> section.live]}}
    ELSE suspects' = suspects

Refusable(dev) == policy.member /\ dev \in policy.blocked

\* inspect: the gate of every media URL.
Inspect(dev, sid, play, fits) ==
    /\ section.at = "asked"
    /\ \/ /\ \/ ~Capped \/ Refusable(dev)
             \/ \A s \in Sessions : Resolved(dev, sid, play, fits) # {s}
             \/ \E s \in Resolved(dev, sid, play, fits) : Refusable(DeviceOf[s])
          /\ UNCHANGED <<held, lease, suspects>>
       \/ \E s \in Sessions, granted \in BOOLEAN :
             /\ ~Refusable(dev) /\ Resolved(dev, sid, play, fits) = {s} /\ ~Refusable(DeviceOf[s])
             /\ Decide(s, granted) /\ Suspect(s, dev)
    /\ section' = Free
    /\ UNCHANGED <<emby, policy, acks, sanctions, restarts>>

\* issue_info, up to the call that fetches the URLs from Emby.
AskInfo(dev, sid, fits) ==
    LET found == Matching(dev, sid, fits)
        issuing(granted) ==
            [at |-> "issuing", granted |-> granted,
             found |-> IF Cardinality(found) = 1 THEN found ELSE {},
             alive |-> Cardinality(found) = 1 /\ found \subseteq section.live]
    IN  /\ section.at = "asked" /\ ~Refusable(dev)
        /\ \/ /\ ~Capped /\ section' = issuing(FALSE)
              /\ UNCHANGED <<held, lease, suspects>>
           \/ \E s \in Sessions, granted \in BOOLEAN :
                 /\ dev # None /\ found = {s} /\ ~Refusable(DeviceOf[s])
                 /\ Decide(s, granted)
                 /\ IF Refused(s)
                    THEN \/ section' = Free /\ Suspect(s, dev)
                         \/ section' = issuing(FALSE) /\ UNCHANGED suspects  \* Emby's administrator
                    ELSE section' = issuing(granted) /\ UNCHANGED suspects
        /\ UNCHANGED <<emby, policy, acks, sanctions, restarts>>

\* The new play takes over a seat of another one.
Replaces(s) == lease[s].play # None \/ section.alive

Issuance(p, s) == IF issued[p] = None THEN [issued EXCEPT ![p] = s] ELSE issued

\* issue_info, when Emby has issued URLs for a play.
Issued(p) ==
    /\ section.at = "issuing" /\ section' = Free
    /\ IF section.found = {} THEN UNCHANGED <<issued, lease>>
       ELSE \E s \in section.found :
               /\ issued[p] \in {None, s}
               /\ issued' = Issuance(p, s)
               /\ lease' = IF s \in held /\ lease[s].play # p
                           THEN [lease EXCEPT ![s] = [observed |-> FALSE, play |-> p, age |-> 0,
                                                      guard |-> Replaces(s),
                                                      replaced |-> lease[s].play # None]]
                           ELSE lease
    /\ UNCHANGED <<there, playing, began, policy, held, acks, suspects, sanctions, restarts>>

\* release_failed_start: only the seat this request took.
FailedStart == IF section.granted THEN section.found ELSE {}

\* issue_info, when Emby answered without a play, or did not issue.
NotIssued(failed) ==
    /\ section.at = "issuing" /\ section' = Free
    /\ held' = IF failed THEN held \ FailedStart ELSE held
    /\ lease' = [s \in Sessions |-> IF failed /\ s \in FailedStart THEN Blank ELSE lease[s]]
    /\ UNCHANGED <<emby, policy, acks, suspects, sanctions, restarts>>

\* Mutant: the seat a delayed report names may have been given to a later play.
EndsAny(s, play) == s \in held

\* The seat is still the reported play's.
Ends(s, play) == s \in held /\ lease[s].play = play

\* report_stopped, when Emby has accepted the report.
ReportStopped(dev, sid, play, fits) ==
    LET bound == IF sid = None /\ Cardinality(Bearer(play)) = 1 THEN Bearer(play) ELSE {sid}
        found == UNION {Matching(dev, s, fits) : s \in bound}
        freed == {s \in found : Cardinality(found) = 1 /\ Ends(s, play)}
    IN  /\ section.at = "asked" /\ section' = Free
        /\ (play \in Plays => issued[play] # None)
        /\ held' = held \ freed
        /\ lease' = [s \in Sessions |-> IF s \in freed THEN Blank ELSE lease[s]]
        /\ began' = began \cup ({play} \cap Plays)
        /\ UNCHANGED <<there, playing, issued, policy, acks, suspects, sanctions, restarts>>

\* report_activity, when Emby has accepted the report and the lock is free.
RecordActivity(a) ==
    /\ section = Free /\ a \in acks /\ acks' = acks \ {a}
    /\ lease' = [s \in Sessions |->
                    IF Bearer(a.play) = {s} /\ a.sid \in {None, s}
                    THEN [lease[s] EXCEPT !.observed = TRUE, !.guard = FALSE] ELSE lease[s]]
    /\ UNCHANGED <<emby, policy, held, section, suspects, sanctions, restarts>>

\* Mutant: the rows of the seats are taken for what plays, though only an
\* admission brings them up to date.
ProvenByRows(x) ==
    LET others == (section.live \cup held) \ {x.sid} IN
    /\ x.sid \in section.there /\ x.sid \notin held
    /\ Cardinality(others) >= policy.cap /\ x.live \subseteq others

\* confirm_violation: the second snapshot shows the same occupants and more
\* than the cap, and the refused session still has no seat.
Proven(x) ==
    LET others == section.live \ {x.sid} IN
    /\ x.sid \in section.there /\ x.sid \notin held
    /\ Cardinality(others) >= policy.cap /\ x.live \subseteq others

(* The look after the grace period.  Emby may again say administrator, or  *)
(* nothing.  The restrictions store the event without another await, so    *)
(* the look and the sanction are one step; what Emby is then asked for,    *)
(* and a seat given meanwhile, belong to Sanctions.                        *)
Confirm(x) ==
    /\ section.at = "asked" /\ section' = Free
    /\ x \in suspects /\ suspects' = suspects \ {x}
    /\ \/ UNCHANGED sanctions
       \/ /\ Capped /\ policy.cap = x.cap /\ ~Refusable(DeviceOf[x.sid]) /\ Proven(x)
          /\ sanctions' = sanctions \cup {x.sid}
    /\ UNCHANGED <<emby, policy, held, lease, acks, restarts>>

\* No snapshot, a report Emby did not take, or a caller that went away.
Abandon ==
    /\ section.at = "asked" /\ section' = Free
    /\ UNCHANGED <<emby, policy, held, lease, acks, suspects, sanctions, restarts>>

\* Deck restarts: only stream_leases and watch_playbacks are on disk.
Restart ==
    /\ restarts < Restarts /\ restarts' = restarts + 1
    /\ section' = Free /\ acks' = {} /\ suspects' = {}
    /\ UNCHANGED <<emby, policy, held, lease, sanctions>>

-----------------------------------------------------------------------------
Outside ==
    \/ \E s \in Sessions : \/ LogIn(s) \/ LogOut(s) \/ Stop(s)
                           \/ \E p \in Plays \cup {Other} : PlayOn(s, p)
    \/ \E p \in Plays, s \in Sessions \cup {None} : Report(p, s)
    \/ \E p \in Policies : SetPolicy(p)
    \/ Tick

Deck ==
    \/ Snapshot
    \/ \E dev \in Devices \cup {None}, sid \in Sessions \cup {None}, fits \in {f \in SUBSET Sessions : Cardinality(f) <= 1} :
          \/ AskInfo(dev, sid, fits)
          \/ \E play \in Plays \cup {None} :
                Inspect(dev, sid, play, fits) \/ ReportStopped(dev, sid, play, fits)
    \/ \E p \in Plays : Issued(p)
    \/ \E failed \in BOOLEAN : NotIssued(failed)
    \/ \E a \in acks : RecordActivity(a)
    \/ \E x \in suspects : Confirm(x)
    \/ Abandon \/ Restart

Next == Outside \/ Deck

Spec == Init /\ [][Next]_vars

\* Time passes; nothing else is promised.
FairSpec == Spec /\ WF_vars(Tick)

-----------------------------------------------------------------------------

(* Whatever the sessions do and however old a snapshot is, a seat is only  *)
(* given while the member then has at most max_streams of them.            *)
GrantWithinCap ==
    [][\A s \in held' \ held : Cardinality(held') <= policy.cap]_vars

(* A play that takes over a seat keeps it until it has really been played  *)
(* or reported, has run out of time, or its session is gone ("a delayed    *)
(* old Stop must not release a newer PlaybackInfo lease", streams.py:508). *)
ReplacementKept ==
    [][\A s \in held :
          lease[s].replaced /\ lease'[s].play = None =>
             \/ lease[s].play \in began'
             \/ lease[s].age = Grace \/ s \notin section.there]_vars

(* Nobody is sanctioned where there is room for him: if the session asked  *)
(* again instead, on the same snapshot, _admit would refuse it.  The look  *)
(* that proves the violation counts what plays and mends no row, _admit    *)
(* mends the rows, seats what plays without a seat and counts both, and    *)
(* since the refusal the session may have got a seat, an occupant may have *)
(* left his, and the panel may have changed the cap.                       *)
SanctionedBeyondCap ==
    [][\A s \in sanctions' \ sanctions : Capped /\ Refused(s)]_vars

\* The session gets a seat, or a new start on the seat it has.
Starts(s) ==
    s \in held' /\ (s \notin held \/ lease'[s].play # lease[s].play \/ lease'[s].age < lease[s].age)

(* A seat nobody uses is taken back, if only the member's other sessions   *)
(* keep asking for theirs.                                                 *)
AbandonedSeatsLapse ==
    \A s \in Sessions :
        /\ []<><<\E t \in Sessions, granted \in BOOLEAN :
                     Decide(t, granted) /\ section' # section>>_vars
        /\ <>[](playing[s] = None)
        /\ <>[][~Starts(s)]_vars
        => <>[](s \notin held)
=============================================================================
