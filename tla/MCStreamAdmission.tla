------------------------- MODULE MCStreamAdmission -------------------------
(* Two questions of the admission, each on the part of the instance that   *)
(* it needs: "replace", the plays of one session that take over its seat,  *)
(* and "seats", two sessions of unissued plays that compete for one seat   *)
(* while the panel changes the member's row.  Two more are about what the  *)
(* panel counts of the plays it admitted: "reports", what the player       *)
(* reports of one play, out of order and across a restart, and "polls",    *)
(* what the poll of Emby's sessions adds where no report says more.        *)
EXTENDS StreamAdmission

CONSTANTS d1, s1, s2
(* What is counted of the plays that were admitted: verified viewing.      *)
CONSTANTS Items, Rated, Shown, Direct, Age, Gap, Least, Null, MaxTime, MaxStarts, MaxReports,
          MaxPolls, MaxFaults

VARIABLES question,
  clock, player, item, session, reports, poll, viewing, checkpoint, bound, samples, finished, keys,
  shownAt, downAt, ended, strange, starts, sent, polls, faults

Viewing == INSTANCE Sampling WITH emby <- session, live <- viewing

counting == <<clock, player, item, session, reports, poll, viewing, checkpoint, bound, samples,
              finished, keys, shownAt, downAt, ended, strange, starts, sent, polls, faults>>
allVars == <<vars, question, counting>>

ASSUME Assumptions == Viewing!SamplingBounds

OneDevice == [s \in Sessions |-> d1]

Member(cap) == [member |-> TRUE, admin |-> FALSE, cap |-> cap, blocked |-> {}]

CapOne    == Member(1)
EveryKind == {CapOne, Member(0), [CapOne EXCEPT !.admin = TRUE],
              [CapOne EXCEPT !.member = FALSE], [CapOne EXCEPT !.blocked = {d1}]}

(* What stays out of each question.                                        *)
Asked ==
  /\ question = "replace" => /\ policy = CapOne /\ s2 \notin there
                             /\ \A a \in acks : a.sid # s2
  /\ question = "seats"   => /\ \A p \in Plays : issued[p] = None
                             /\ restarts = 0

(* Of a play that reports through the panel no list is polled; of one that *)
(* reports past it, two reports arrive at once.                            *)
Counted ==
  /\ question = "reports" => player.play \notin Direct /\ polls = 0
  /\ question = "polls" => player.play \in Direct \cup {Null} /\ sent <= 2 /\ faults = 0

AtRest == Init /\ policy = CapOne
Admitting(A) == UNCHANGED <<question, counting>> /\ A /\ Asked'
Counting(A) == UNCHANGED <<question, vars>> /\ A /\ Counted'

QInit ==
  \/ question \in {"replace", "seats"} /\ Init /\ Asked
     /\ clock = None /\ player = None /\ item = None /\ session = None /\ reports = None /\ poll = None
     /\ viewing = None /\ checkpoint = None /\ bound = None /\ samples = None /\ finished = None
     /\ keys = None /\ shownAt = None /\ downAt = None /\ ended = None /\ strange = None
     /\ starts = None /\ sent = None /\ polls = None /\ faults = None
  \/ question \in {"reports", "polls"} /\ AtRest /\ Viewing!Init
QNext ==
  \/ question \in {"replace", "seats"} /\ Admitting(Next)
  \/ question \in {"reports", "polls"} /\ Counting(Viewing!Next)
  \/ question \in {"reports", "polls"} /\ UNCHANGED allVars  \* the bounds are used up
QSpec == QInit /\ [][QNext]_allVars
         /\ WF_allVars(question = "seats" /\ Tick /\ UNCHANGED <<question, counting>>)

(* AbandonedSeatsLapse, where time is promised to pass.                    *)
SeatsLapse == question = "seats" => AbandonedSeatsLapse

(* What is counted as watched was played: no second of a play is counted   *)
(* twice, nothing is credited before the play was shown or after it was    *)
(* stopped, and the plays in the history are those that happened, whatever *)
(* the order in which reports arrive (usage.py, streams.py).               *)
ViewingExact ==
  question \in {"reports", "polls"} =>
    /\ Viewing!SamplingTypes /\ Viewing!NeverTwice /\ Viewing!EventsExact
    /\ Viewing!StopHolds /\ Viewing!CreditedWasPlayed
=============================================================================
