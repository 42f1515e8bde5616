------------------------------- MODULE MCCards -------------------------------
(* The two ways a game speaks to a group: the card of a round, edited as   *)
(* the round goes on, and the posts of a lottery.  The components are      *)
(* checked side by side: one of them is at work in a behaviour.            *)
EXTENDS RoundCards, TLC

(* The posts of a lottery have tables and messages of their own.           *)
CONSTANTS Senders, Winners, MaxEntries, MaxAttempts, MaxRecoveries, MaxFaults, Prompt, Null

VARIABLES part,  \* the component that is at work; the others stand still
  phase, clock, count, jobs, ops, read, work, told, group, overtaken, recoveries, faults

Post == INSTANCE LotteryPost WITH posted <- told

others == <<phase, clock, count, jobs, ops, read, work, told, group, overtaken, recoveries, faults>>
allVars == <<vars, part, others>>

ASSUME Assumptions == Post!PostBounds /\ Senders # {}

AtRest == Init
On(p, F) == part = p /\ F

(* Three questions are asked of a lottery: "post", where one delivery at a *)
(* time meets faults, recoveries and new entries, but no winner is written *)
(* to; "race", where deliveries overlap and nothing fails; and "stale",    *)
(* where they overlap and one of them fails and is recovered.              *)
Lotteries == {"post", "race", "stale"}
Sender == CHOOSE s \in Senders : TRUE
Asked ==
  /\ part = "post" => \A s \in Senders \ {Sender} : Post!Free(s)
  /\ part = "race" => count = 0 /\ recoveries = 0 /\ faults = 0
  /\ part = "stale" => count = 0 /\ \A o \in Post!Ops : ops[o] = Null
  /\ part # "race" => \A s \in Senders : read[s] # Null => read[s].job \notin Winners

(* A step of one component leaves the others as they are.                  *)
InCards(A) == part = "cards" /\ A /\ UNCHANGED <<part, others>>
InPost(A) == part \in Lotteries /\ A /\ UNCHANGED <<part, vars>> /\ Asked'

UnionInit ==
  \/ part = "cards" /\ Init
     /\ phase = Null /\ clock = Null /\ count = Null /\ jobs = Null /\ ops = Null /\ read = Null
     /\ work = Null /\ told = Null /\ group = Null /\ overtaken = Null /\ recoveries = Null /\ faults = Null
  \/ part \in Lotteries /\ AtRest /\ Post!Init

UnionNext ==
  \/ InCards(Next)
  \/ InPost(Post!Next)

(* The fairness of each component, as its own module states it.            *)
UnionFairness ==
  /\ WF_allVars(InCards(Tick) \/ InPost(\E o \in Post!Ops : Post!OpWaits(o)))
  /\ WF_allVars(\/ InCards(\E x \in Workers : BeginPublish(x))
                \/ InPost(Post!Goes(Sender)))
  /\ \A x \in Workers :
       /\ WF_allVars(InCards(\E outcome \in Outcomes : Return(x, outcome)))
       /\ SF_allVars(InCards(Apply(x)) \/ InPost(Post!ClaimUnpin(Sender)))
       /\ SF_allVars(InCards(Return(x, "ok")) \/ InPost(Post!ClaimLive(Sender)))

UnionSpec == UnionInit /\ [][UnionNext]_allVars /\ UnionFairness

-----------------------------------------------------------------------------
(* What the rows say of a message is what the group shows, for round cards *)
(* (play_rounds.py:92-127) and for a lottery's pin and live line           *)
(* (lottery.py _claim_op, _run_op), however calls fail and overtake; and   *)
(* no private message of a lottery is posted twice, no announcement but by *)
(* a delivery that holds a row older than its recovery, and no part of a   *)
(* result before the one it follows, whichever sends fail, stay in doubt,  *)
(* are retried or recovered.                                               *)
ShownAsRecorded ==
  /\ RenderedIsShown
  /\ part \in Lotteries =>
       Post!BelievedIsShown /\ Post!PostedOnce /\ Post!PartsInOrder

(* A bound card catches up with its round, and a lottery that has ended is *)
(* unpinned and says so, unless Telegram refused or left it in doubt.      *)
CardsCatchUp ==
  On("cards", card # 0) \/ On("post", phase # "published")
    ~> \/ pace = "late"
       \/ On("cards", card # 0 /\ rendered = revision /\ posted[card] = revision)
       \/ On("post", Post!EndShown)
=============================================================================
