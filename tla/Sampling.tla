------------------------------ MODULE Sampling ------------------------------
(* Verified viewing (usage.py): how long a member has really watched, taken *)
(* from the sessions that a poll of Emby lists and from the progress that   *)
(* his client reports, both of them late, out of order or lost; with the    *)
(* play's identity, its end, and the restart of the panel.  One session on  *)
(* one device.  A tick stands for several seconds of play, so that the      *)
(* tolerances of the comparison are less than one.                          *)
EXTENDS Integers, Sequences, FiniteSets

CONSTANTS
  Plays,     \* PlaySessionIds of the session
  Items,     \* titles
  Rated,     \* whether the client states its playback rate
  Shown,     \* whether Emby's list of sessions carries the PlaySessionId
  Direct,    \* plays whose client reports to Emby past the panel
  Age,       \* WATCH_HEARTBEAT_MAX_AGE, in ticks
  Gap,       \* MAX_BILLABLE_GAP_SECONDS
  Least,     \* MIN_PLAY_SECONDS
  Null,
  MaxTime, MaxStarts, MaxReports, MaxPolls, MaxFaults  \* bounds of the instance

SamplingBounds ==
  /\ {Age, Gap, Least, MaxTime, MaxStarts, MaxReports, MaxPolls, MaxFaults} \subseteq Nat
  /\ {Rated, Shown} \subseteq BOOLEAN /\ Direct \subseteq Plays /\ MaxTime # 0

VARIABLES
  clock,
  player,     \* what the member watches
  item,       \* the title of each play
  emby,       \* his session as Emby has it
  reports,    \* reports under way
  poll,       \* the list that a tick has read, while it holds _tick_lock
  live,       \* _live: the state of the session
  checkpoint, \* its row in watch_checkpoints
  bound,      \* watch_playbacks
  samples,    \* watch_verified_samples
  finished,   \* play_events
  keys,       \* watch keys given out
  shownAt,    \* history: the ticks in which the title advanced
  downAt,     \* history: when the process last started
  ended,      \* history: the last word of each play was that it stopped
  strange,    \* history: a report was late, the member jumped in the title
  starts, sent, polls, faults

vars == <<clock, player, item, emby, reports, poll, live, checkpoint, bound, samples, finished, keys,
          shownAt, downAt, ended, strange, starts, sent, polls, faults>>
stage == <<clock, player, item, emby, shownAt, downAt, ended, strange, starts, sent>>
store == <<live, checkpoint, bound, samples, finished, keys>>

Larger(a, b) == IF a > b THEN a ELSE b
Fault == faults < MaxFaults /\ faults' = faults + 1

Idle == [here |-> TRUE, play |-> Null, pos |-> 0, paused |-> FALSE, at |-> 0]

Init ==
  /\ clock = 1 /\ player = [play |-> Null, pos |-> 0, on |-> FALSE] /\ item \in [Plays -> Items]
  /\ emby = Idle /\ reports = {} /\ poll = Null /\ live = Null /\ checkpoint = Null
  /\ bound = [p \in Plays |-> Null] /\ samples = {} /\ finished = <<>> /\ keys = 0
  /\ shownAt = {} /\ ended = [p \in Plays |-> FALSE] /\ downAt = 1 /\ strange = FALSE /\ starts = 0 /\ sent = 0 /\ polls = 0 /\ faults = 0

-----------------------------------------------------------------------------
(* ----------------------------- the member ------------------------------ *)
Message(kind, p, pos, paused) ==
  [kind |-> kind, play |-> p, pos |-> pos, paused |-> paused, sentAt |-> clock, at |-> Null]

(* The report arrives and Emby accepts it, which its list then shows, or of *)
(* a Stopped still does not.  An accepted Stopped closes the play at once   *)
(* (streams.report_stopped).                                                *)
Accepted(r) ==
  /\ reports' = (reports \ {r}) \cup (IF r.play \in Direct THEN {} ELSE {[r EXCEPT !.at = clock]})
  /\ emby' \in IF r.kind = "stopped" THEN {emby, IF emby.play = r.play THEN [Idle EXCEPT !.at = clock] ELSE emby}
               ELSE {[here |-> TRUE, play |-> r.play, pos |-> r.pos, paused |-> r.paused, at |-> clock]}

Closing(r) == IF r.play \notin Direct /\ r.kind = "stopped" /\ bound[r.play] # Null
              THEN [bound EXCEPT ![r.play].closed = TRUE] ELSE bound

(* It arrives at once, or is long under way.                                *)
Send(r) ==
  /\ sent < MaxReports /\ sent' = sent + 1
  /\ \/ Accepted(r) /\ UNCHANGED faults
     \/ Fault /\ reports' = reports \cup {r} /\ UNCHANGED emby

Arrive(r) ==
  /\ r.at = Null /\ Accepted(r) /\ bound' = Closing(r)
  /\ strange' = (strange \/ r.sentAt < clock)
  /\ UNCHANGED <<clock, player, item, poll, live, checkpoint, samples, finished, keys, shownAt, downAt,
                 ended, starts, sent, polls, faults>>

(* PlaybackInfo has given the client a play, new or once more, which        *)
(* streams.py writes down when it is new and knows the session.             *)
Play(p) ==
  /\ starts < MaxStarts /\ starts' = starts + 1 /\ player.play = Null
  /\ \/ bound' = [bound EXCEPT ![p] = IF @ = Null THEN [issued |-> clock, closed |-> FALSE] ELSE @]
     \/ bound[p] = Null /\ UNCHANGED bound
  /\ player' = [play |-> p, pos |-> 0, on |-> TRUE] /\ Send(Message("started", p, 0, FALSE))
  /\ UNCHANGED <<clock, item, poll, live, checkpoint, samples, finished, keys, shownAt, downAt, ended,
                 strange, polls>>

Report ==
  /\ player.play # Null /\ Send(Message("progress", player.play, player.pos, ~player.on))
  /\ UNCHANGED <<clock, player, item, poll, store, shownAt, downAt, ended, strange, starts, polls>>

StopPlay ==
  /\ player.play # Null
  /\ \E r \in {Message("stopped", player.play, player.pos, FALSE)} :
       Send(r) /\ bound' = IF r \in reports' THEN bound ELSE Closing(r)
  /\ player' = [play |-> Null, pos |-> 0, on |-> FALSE]
  /\ UNCHANGED <<clock, item, poll, live, checkpoint, samples, finished, keys, shownAt, downAt, ended,
                 strange, starts, polls>>

PauseOrJump ==
  /\ player.play # Null /\ Fault
  /\ \/ player' = [player EXCEPT !.on = ~@] /\ UNCHANGED strange
     \/ \E n \in {0, player.pos + 2} :
          player' = [player EXCEPT !.pos = n] /\ n # player.pos /\ strange' = TRUE
  /\ UNCHANGED <<clock, item, emby, reports, poll, store, shownAt, downAt, ended, starts, sent, polls>>

Tick ==
  /\ clock < MaxTime /\ clock' = clock + 1
  /\ player' = IF player.on THEN [player EXCEPT !.pos = @ + 1] ELSE player
  /\ shownAt' = IF player.on THEN shownAt \cup {clock} ELSE shownAt
  /\ UNCHANGED <<item, emby, reports, poll, store, downAt, ended, strange, starts, sent, polls, faults>>

(* It is lost on the way to Emby or to the panel; the session disappears.   *)
Lose ==
  /\ Fault
  /\ \/ \E r \in reports : reports' = reports \ {r} /\ UNCHANGED emby
     \/ emby.here /\ emby' = [Idle EXCEPT !.here = FALSE] /\ UNCHANGED reports
  /\ UNCHANGED <<clock, player, item, poll, store, shownAt, downAt, ended, strange, starts, sent, polls>>

-----------------------------------------------------------------------------
(* ------------------------------ the proof ------------------------------ *)
watch_observation(p, pos, paused, activity) ==
  [pos |-> pos, at |-> activity, play |-> p, floor |-> clock, recent |-> <<>>,
   bad |-> paused \/ clock - activity > Age]

Advance(before, now) == now.pos - before.pos
Elapsed(before, now) == now.at - before.at

recent_run(before, now) ==
  IF before = Null THEN <<>>
  ELSE IF before.bad \/ now.bad \/ before.play # now.play
       \/ Elapsed(before, now) \notin 1..Age \/ Advance(before, now) \notin 1..(4 * Elapsed(before, now))
  THEN <<>>
  ELSE LET run == Append(before.recent, <<Elapsed(before, now), Advance(before, now)>>) IN
       SubSeq(run, Larger(1, Len(run) - 2), Len(run))

NoTime == [from |-> 0, to |-> 0]

Continuous(before, now, gap) ==
  /\ before # Null /\ ~now.bad /\ ~before.bad /\ gap \in 1..Gap /\ before.play = now.play
  /\ Elapsed(before, now) \in 1..Gap /\ Advance(before, now) > 0

(* What lies between the two observations, but not before the one that the  *)
(* earlier was anchored at.                                                 *)
Since(before, now, length) ==
  LET from == Larger(before.floor, now.at - length) IN
  IF now.at > from THEN [from |-> from, to |-> now.at] ELSE NoTime

verified_watch_interval(before, now, gap) ==
  IF ~Continuous(before, now, gap) THEN NoTime
  ELSE IF ~Rated THEN IF Elapsed(before, now) <= Age /\ Advance(before, now) <= 4 * Elapsed(before, now)
                      THEN Since(before, now, Elapsed(before, now)) ELSE NoTime
  ELSE IF Advance(before, now) = Elapsed(before, now) THEN Since(before, now, Elapsed(before, now)) ELSE NoTime

(* A client that plays slower than it says has watched what it has played;  *)
(* one that plays faster needs an unbroken run of reports.                  *)
cumulative_watch_interval(before, now) ==
  IF Advance(before, now) < Elapsed(before, now) THEN Since(before, now, Advance(before, now))
  ELSE IF Len(now.recent) < 2 THEN NoTime ELSE Since(before, now, Elapsed(before, now))

Before(state, source) == IF state.source = source THEN state.seen ELSE Null

Interval(before, now, gap, source) ==
  LET once == verified_watch_interval(before, now, gap) IN
  IF once = NoTime /\ source = "progress" /\ Rated /\ Continuous(before, now, gap)
     /\ Advance(before, now) # Elapsed(before, now)
  THEN cumulative_watch_interval(before, now) ELSE once

(* _proof: the interval that is credited, if any, and what is remembered.   *)
Unrecorded(state, iv) == IF Larger(iv.from, state.end) < iv.to
                         THEN [iv EXCEPT !.from = Larger(@, state.end)] ELSE NoTime

_proof(state, seen, gap, source) ==
  LET before == Before(state, source)
      now == IF source = "progress" THEN [seen EXCEPT !.recent = recent_run(before, seen)] ELSE seen
      iv == Unrecorded(state, Interval(before, now, gap, source))
  IN [interval |-> iv,
      state |-> [state EXCEPT !.source = source,
                              !.seen = IF iv = NoTime THEN now ELSE [now EXCEPT !.floor = now.at],
                              !.end = IF iv = NoTime THEN @ ELSE iv.to,
                              !.seconds = @ + (iv.to - iv.from)]]

(* The state of a session that is new, or whose title or play is another.   *)
Fresh(p, title, seen, source) ==
  [key |-> keys + 1, play |-> p, item |-> title, seen |-> seen, source |-> source, received |-> 0,
   signature |-> Null, stopped |-> FALSE, end |-> 0, started |-> clock, lastTs |-> clock, seconds |-> 0]

_record_watch(state, iv, evidence) ==
  samples' = IF iv = NoTime THEN samples
             ELSE samples \cup {[key |-> state.key, from |-> iv.from, to |-> iv.to, since |-> evidence.at,
                                 up |-> downAt, ended |-> state.play # Null /\ ended[state.play]]}

(* _finish: the play becomes an event, unless it was too short to count.    *)
_finish(state) == IF state.seconds < Least THEN finished
                  ELSE Append(finished, [key |-> state.key, seconds |-> state.seconds])

Closed(p) == p # Null /\ bound[p] # Null /\ bound[p].closed

-----------------------------------------------------------------------------
(* ------------------------------ reports -------------------------------- *)
Superseded(p) == \E q \in Plays : bound[q] # Null /\ bound[q].issued > bound[p].issued

Reset(state, stopped) ==
  [state EXCEPT !.stopped = stopped, !.seen = Null, !.source = "none", !.received = 0, !.signature = Null]

(* _playback_report: Started and Stopped, of the play that the state is of, *)
(* or of another, which must not touch it.                                  *)
playback_report(r) ==
  LET stops == r.kind = "stopped"
      mine == live # Null /\ live.play = r.play /\ live.item = item[r.play]
  IN /\ r.at # Null /\ r.kind # "progress" /\ poll = Null /\ reports' = reports \ {r}
     /\ bound' = [bound EXCEPT ![r.play] =
           IF @ = Null THEN (IF stops THEN [issued |-> IF mine THEN live.started ELSE 0, closed |-> TRUE] ELSE @)
           ELSE IF stops THEN [@ EXCEPT !.closed = TRUE]
           ELSE IF (@.issued > 0 \/ mine) /\ ~Superseded(r.play) THEN [@ EXCEPT !.closed = FALSE] ELSE @]
     /\ ended' = [ended EXCEPT ![r.play] = stops]
     /\ IF mine THEN live' = Reset(live, stops) /\ checkpoint' = live' ELSE UNCHANGED <<live, checkpoint>>
     /\ UNCHANGED <<clock, player, item, emby, poll, samples, finished, keys, shownAt, downAt, strange,
                    starts, sent, polls, faults>>

(* _report_play_matches, for the state that stands or for a new one that    *)
(* the play's issuance allows.                                              *)
Issued(p) == bound[p] # Null /\ ~bound[p].closed
Matches(p) == IF bound[p] = Null THEN live # Null /\ live.play = p /\ live.item = item[p] ELSE Issued(p)

Replaces(p) == Issued(p) /\ (live = Null \/ live.item # item[p] \/ live.play # p)

Signature(r) == <<r.pos, r.paused>>

(* A report that is older than the last one, or comes after the end.        *)
Late(state, r) == state.stopped \/ r.at <= state.received

(* _progress.                                                               *)
playback_progress(r) ==
  /\ r.at # Null /\ r.kind = "progress" /\ poll = Null /\ reports' = reports \ {r}
  /\ \E state \in {IF Replaces(r.play) THEN Fresh(r.play, item[r.play], Null, "none") ELSE live} :
       IF ~Matches(r.play) \/ state = Null THEN UNCHANGED store
       ELSE IF Late(state, r) THEN UNCHANGED store
       ELSE \E seen \in {watch_observation(r.play, r.pos, r.paused, r.at)} :
            \E proof \in {_proof(state, [seen EXCEPT !.bad = @ \/ Signature(r) = state.signature],
                                 IF state.received = 0 THEN 0 ELSE r.at - state.received, "progress")} :
              /\ live' = [proof.state EXCEPT !.received = r.at, !.signature = Signature(r), !.play = r.play]
              /\ checkpoint' = live' /\ _record_watch(live', proof.interval, Before(state, "progress"))
              /\ bound' = [q \in Plays |-> IF q # r.play /\ bound[q] # Null /\ bound[r.play] # Null
                                              /\ bound[q].issued <= bound[r.play].issued
                                           THEN [bound[q] EXCEPT !.closed = TRUE] ELSE bound[q]]
              /\ finished' = IF Replaces(r.play) /\ live # Null THEN _finish(live) ELSE finished
              /\ keys' = IF Replaces(r.play) THEN keys + 1 ELSE keys
  /\ UNCHANGED <<stage, poll, polls, faults>>

-----------------------------------------------------------------------------
(* ------------------------------- polling ------------------------------- *)
(* A tick asks Emby and waits; nothing else touches the states meanwhile.   *)
AskSessions ==
  /\ poll = Null /\ polls < MaxPolls /\ polls' = polls + 1 /\ poll' = emby
  /\ UNCHANGED <<stage, reports, store, faults>>

ListFails == poll # Null /\ Fault /\ poll' = Null /\ UNCHANGED <<stage, reports, store, polls>>

Title(row) == IF row.play = Null THEN Null ELSE item[row.play]
Named(row) == IF Shown THEN row.play ELSE Null

(* An accepted report of late says more than a list that may be cached.     *)
ReportFresh(state) == state.source = "progress" /\ clock - state.received \in 0..Age

Another(state, row) ==
  /\ ~ReportFresh(state)
  /\ \/ Title(row) # state.item
     \/ state.play # Null /\ Named(row) # Null /\ state.play # Named(row)

Polled(row) == [watch_observation(Named(row), row.pos, row.paused, row.at) EXCEPT !.bad = @ \/ row.play = Null]

(* Checkpoints are of sessions with a title; _finish drops its own.         *)
Kept(old) == IF old # Null /\ checkpoint # Null /\ checkpoint.key = old.key THEN Null ELSE checkpoint
Saved(state, old) == IF state # Null /\ state.item # Null THEN state ELSE Kept(old)

_sample ==
  /\ poll # Null /\ poll' = Null
  /\ \/ /\ ~poll.here /\ UNCHANGED <<keys, bound, samples>>
        /\ IF live = Null \/ (live # Null /\ ReportFresh(live) /\ ~live.stopped)
           THEN UNCHANGED <<live, checkpoint, finished>>
           ELSE live' = Null /\ checkpoint' = Kept(live) /\ finished' = _finish(live)
     \/ /\ poll.here /\ (live = Null \/ (live # Null /\ Another(live, poll)))
        /\ live' = Fresh(Named(poll), Title(poll), Polled(poll), "poll")
        /\ keys' = keys + 1 /\ checkpoint' = Saved(live', live)
        /\ finished' = IF live = Null THEN finished ELSE _finish(live)
        /\ UNCHANGED <<bound, samples>>
     \/ /\ poll.here /\ live # Null /\ ~Another(live, poll) /\ UNCHANGED <<keys, bound, finished>>
        /\ IF ReportFresh(live)
           THEN live' = [live EXCEPT !.lastTs = clock] /\ UNCHANGED samples
           ELSE \E seen \in {[Polled(poll) EXCEPT !.bad = @ \/ live.stopped \/ Closed(live.play)]} :
                \E proof \in {_proof(live, seen, IF live.lastTs = Null THEN 0 ELSE clock - live.lastTs, "poll")} :
                  /\ live' = [proof.state EXCEPT !.lastTs = clock,
                                                 !.play = IF seen.play = Null THEN @ ELSE seen.play]
                  /\ _record_watch(live', proof.interval, Before(live, "poll"))
        /\ checkpoint' = Saved(live', Null)
  /\ UNCHANGED <<stage, reports, polls, faults>>

-----------------------------------------------------------------------------
(* The panel restarts: the sampled time is restored, and the time it was    *)
(* down is nobody's.                                                        *)
RestoredSeen(state) == [state EXCEPT !.lastTs = Null]
Restored(state) == [Reset(state, state.stopped) EXCEPT !.lastTs = Null]

Crash ==
  /\ Fault /\ poll' = Null /\ reports' = {r \in reports : r.at = Null} /\ downAt' = clock
  /\ IF checkpoint = Null THEN live' = Null /\ UNCHANGED bound
     ELSE /\ live' = Restored(checkpoint)
          /\ bound' = IF /\ ~checkpoint.stopped /\ checkpoint.play # Null /\ checkpoint.lastTs # Null
                         /\ clock - checkpoint.lastTs <= Age /\ bound[checkpoint.play] = Null
                      THEN [bound EXCEPT ![checkpoint.play] = [issued |-> checkpoint.started, closed |-> FALSE]] ELSE bound
  /\ UNCHANGED <<clock, player, item, emby, checkpoint, samples, finished, keys, shownAt, ended, strange,
                 starts, sent, polls>>

Next ==
  \/ \E p \in Plays : Play(p)
  \/ Report \/ StopPlay \/ PauseOrJump \/ Tick \/ Lose
  \/ \E r \in reports : Arrive(r) \/ playback_report(r) \/ playback_progress(r)
  \/ AskSessions \/ ListFails \/ _sample \/ Crash

-----------------------------------------------------------------------------
Spec == Init /\ [][Next]_vars

(* The ticks that were credited to a play, each once (NeverTwice).          *)
Ticks(key) == UNION {s.from .. (s.to - 1) : s \in {x \in samples : x.key = key}}
Credited(key) == Cardinality(Ticks(key))

SamplingTypes ==
  /\ clock \in 1..MaxTime /\ player.play \in Plays \cup {Null} /\ (poll # Null => poll.play \in Plays \cup {Null})
  /\ live = Null \/ (live.key <= keys /\ live.source \in {"poll", "progress", "none"})
  /\ \A r \in reports : r.at = Null \/ r.sentAt <= r.at
  /\ \A s \in samples : s.from < s.to /\ s.to <= clock

(* No second is credited twice, whichever of the two sources proved it and  *)
(* under whichever play, nor one in which the panel was down.               *)
NeverTwice ==
  \A s \in samples :
    /\ s.from >= s.up
    /\ \A t \in samples \ {s} : s.to <= t.from \/ t.to <= s.from

(* A play event counts what was credited to its play, once, and what stands *)
(* in memory and in the checkpoint is what the samples say.                 *)
EventsExact ==
  /\ \A i \in DOMAIN finished :
       /\ finished[i].seconds = Credited(finished[i].key)
       /\ \A j \in DOMAIN finished : finished[i].key = finished[j].key => i = j
  /\ \A state \in {live, checkpoint} \ {Null} : state.seconds = Credited(state.key)

(* A play that has stopped earns nothing until it is started again: no late *)
(* report and no list from a cache revives it.                              *)
StopHolds == \A s \in samples : ~s.ended

(* The time credited between two observations is not more than the title    *)
(* advanced between them, as long as reports arrive at once and the member  *)
(* does not jump.                                                           *)
CreditedWasPlayed ==
  Rated /\ ~strange =>
    \A s \in samples : s.to - s.from <= Cardinality({t \in shownAt : s.since <= t /\ t < s.to})
=============================================================================
