------------------------------ MODULE Earnings ------------------------------
(***************************************************************************)
(* What a member earns: verified watching (watch_rewards.py, the outbox    *)
(* trigger of activity_schema.py) and the daily check-in in its three      *)
(* rules (plugins_points.py, dual_checkin.py), on the shared points ledger *)
(* (points.py).  Time passes in units; a day is DayLength units.           *)
(***************************************************************************)
EXTENDS Integers, FiniteSets, SequencesExt, FiniteSetsExt

CONSTANTS
  Users, Runs, Null,
  DayLength, MaxTime,
  Required,          \* units of verified watching a check-in asks for (600 s)
  FullSteps, MaxSteps, FullRate, LowRate, Growth,  \* reward_total's steps and rates
  Batch,             \* batch_size
  Base, Luck, Plain, \* possible draws of the weighted base and of luck; the fixed normal award
  Drops,             \* whether a day's draw drops a card
  Tier, TierPercent, \* the day of a streak the bonus starts at, and the bonus
  Costs,             \* what a member may spend at once
  MaxSamples, MaxSpends, MaxSwitches

EarningsAssumption ==
  /\ {DayLength, Required, Batch, FullRate, LowRate, Growth, Plain, Tier} \subseteq Nat \ {0}
  /\ {MaxTime, FullSteps, MaxSteps, TierPercent, MaxSamples, MaxSpends, MaxSwitches} \subseteq Nat
  /\ FullSteps <= MaxSteps /\ Base \subseteq Int \ {0} /\ Luck \subseteq Nat \ {0}
  /\ Costs \subseteq Nat \ {0} /\ Drops \subseteq BOOLEAN

VARIABLES
  clock,
  since,      \* activity_rules.effective_at, Null until activated
  samples,    \* watch_verified_samples
  pending,    \* activity_watch_pending, filled by the trigger
  intervals,  \* activity_watch_intervals: the merged proofs, by user and day
  paid,       \* activity_watch_days: points and growth already paid, by user and day
  balance,    \* the sum of each user's points_ledger rows
  booked,     \* what the rows of each reason amount to, by user, day and reason
  growth,     \* growth_ledger's sum, by user
  checkins,   \* the checkins rows, by user and day
  dual,       \* the dual_checkin switch
  drops,      \* cards a check-in dropped into the bag
  spends, switches
vars == <<clock, since, samples, pending, intervals, paid, balance, booked, growth, checkins, dual,
          drops, spends, switches>>

CalendarDays == 0..(MaxTime \div DayLength)
DayOf(t) == t \div DayLength
UserDays == Users \X CalendarDays
Least(a, b) == IF a < b THEN a ELSE b
Most(a, b) == IF a > b THEN a ELSE b
Total(S, F(_)) == MapThenSumSet(F, S)

Reasons == {"watch.reward", "checkin", "checkin.adjust"}

\* _apply: only a check-in may take an account below zero.
Payable(u, delta, reason) == delta >= 0 \/ balance[u] + delta >= 0 \/ reason = "checkin"

Init ==
  /\ clock = 0 /\ since = Null /\ samples = {} /\ pending = {}
  /\ intervals = [ud \in UserDays |-> {}]
  /\ paid = [ud \in UserDays |-> [points |-> 0, growth |-> 0]]
  /\ balance = [u \in Users |-> 0] /\ growth = [u \in Users |-> 0]
  /\ booked = [ud \in UserDays |-> [r \in Reasons |-> 0]]
  /\ checkins = [ud \in UserDays |-> Null]
  /\ dual \in BOOLEAN
  /\ drops = [ud \in UserDays |-> 0]
  /\ spends = 0 /\ switches = 0

-----------------------------------------------------------------------------
\* Verified watching.
reward_total(units) ==
  LET steps == Least(MaxSteps, units)
  IN [points |-> Least(steps, FullSteps) * FullRate + Most(0, steps - FullSteps) * LowRate,
      growth |-> steps * Growth]

Length(S) == Total(S, LAMBDA i : i[2] - i[1])
Covered(S) == UNION {i[1]..(i[2] - 1) : i \in S}

\* verified_seconds: today's raw proofs, united.
WatchedToday(u) ==
  Cardinality({t \in Covered({<<s.start, s.end>> : s \in {x \in samples : x.user = u}}) :
                 DayOf(t) = DayOf(clock) /\ t < clock})

\* The sampler records the proof of one run up to now; a proof recorded twice is ignored.
\* The trigger copies it to the outbox, clipped to the activation.
Observe(u, run, start, end) ==
  /\ start < end /\ Cardinality(samples) < MaxSamples
  /\ ~\E s \in samples : s.run = run /\ s.end = end
  /\ \A s \in samples : s.run = run => s.user = u /\ s.end <= start
  /\ samples' = samples \cup {[user |-> u, run |-> run, start |-> start, end |-> end]}
  /\ pending' = IF since # Null /\ end > since
                THEN pending \cup {[user |-> u, run |-> run, start |-> Most(start, since), end |-> end]}
                ELSE pending
  /\ UNCHANGED <<clock, since, intervals, paid, balance, booked, growth, checkins, dual, drops, spends, switches>>

Activate ==
  /\ since = Null /\ since' = clock
  /\ UNCHANGED <<clock, samples, pending, intervals, paid, balance, booked, growth, checkins, dual,
                 drops, spends, switches>>

UniteApart(S, start, end) == S \cup {<<start, end>>}

\* _union: the new interval swallows every one it overlaps or touches.
Unite(S, start, end) ==
  LET near == {i \in S : i[2] >= start /\ i[1] <= end}
      all == near \cup {<<start, end>>}
  IN (S \ near) \cup {<<CHOOSE a \in {i[1] : i \in all} : \A i \in all : a <= i[1],
                        CHOOSE b \in {i[2] : i \in all} : \A i \in all : b >= i[2]>>}

\* The part of a sample that falls on each day goes to that day.
Merge(table, s) ==
  [ud \in UserDays |->
     LET start == Most(s.start, ud[2] * DayLength)
         end == Least(s.end, (ud[2] + 1) * DayLength)
     IN IF ud[1] = s.user /\ start < end THEN Unite(table[ud], start, end) ELSE table[ud]]

\* settle: the oldest of the outbox in one transaction, then what each touched day is short of.
Oldest(rows) ==
  /\ Cardinality(rows) = Least(Batch, Cardinality(pending))
  /\ \A s \in rows, t \in pending \ rows : s.end <= t.end

Touched(rows) ==
  {ud \in UserDays : \E s \in rows : s.user = ud[1] /\ DayOf(s.start) <= ud[2] /\ ud[2] <= DayOf(s.end - 1)}

Settle ==
  /\ since # Null /\ pending # {}
  /\ \E rows \in SUBSET pending :
     /\ Oldest(rows)
     /\ \E table \in {FoldSet(LAMBDA s, t : Merge(t, s), intervals, rows)} :
        \E due \in {[ud \in UserDays |-> IF ud \in Touched(rows) THEN reward_total(Length(table[ud]))
                                        ELSE paid[ud]]} :
          /\ intervals' = table /\ paid' = due /\ pending' = pending \ rows
          /\ growth' = [u \in Users |-> growth[u] + Total(CalendarDays, LAMBDA d : due[<<u, d>>].growth - paid[<<u, d>>].growth)]
          /\ balance' = [u \in Users |-> balance[u] + Total(CalendarDays, LAMBDA d : due[<<u, d>>].points - paid[<<u, d>>].points)]
          /\ booked' = [ud \in UserDays |->
                          [booked[ud] EXCEPT !["watch.reward"] = @ + due[ud].points - paid[ud].points]]
  /\ UNCHANGED <<clock, since, samples, checkins, dual, drops, spends, switches>>

\* The sampler's retention deletes old raw proofs; what is settled survives.
Forget ==
  /\ \E s \in samples : DayOf(s.end) < DayOf(clock)
  /\ samples' = {s \in samples : DayOf(s.end) >= DayOf(clock)}
  /\ UNCHANGED <<clock, since, pending, intervals, paid, balance, booked, growth, checkins, dual,
                 drops, spends, switches>>

-----------------------------------------------------------------------------
\* The check-in, one transaction.
Today(u) == checkins[<<u, DayOf(clock)>>]
Streak(u) ==
  1 + IF DayOf(clock) = 0 \/ checkins[<<u, DayOf(clock) - 1>>] = Null THEN 0
      ELSE checkins[<<u, DayOf(clock) - 1>>].streak

Paid(u, row, delta, reason) ==
  /\ Payable(u, delta, reason)
  /\ balance' = [balance EXCEPT ![u] = @ + delta]
  /\ booked' = [booked EXCEPT ![<<u, DayOf(clock)>>][reason] = @ + delta]
  /\ checkins' = [checkins EXCEPT ![<<u, DayOf(clock)>>] = row]
  /\ UNCHANGED <<clock, since, samples, pending, intervals, paid, growth, dual, spends, switches>>

\* Whether the day's draw drops a card into the bag.
Dropped(u, drop) == drops' = [drops EXCEPT ![<<u, DayOf(clock)>>] = @ + IF drop THEN 1 ELSE 0]

\* _checkin: the weighted base, and the streak's bonus on a positive one.
CheckinOld(u, base, drop) ==
  /\ ~dual /\ Today(u) = Null /\ WatchedToday(u) >= Required
  /\ LET percent == IF Streak(u) >= Tier THEN TierPercent ELSE 0
         award == base + (Most(base, 0) * percent) \div 100
     IN Paid(u, [rule |-> "old", mode |-> "normal", points |-> award, streak |-> Streak(u)], award, "checkin")
  /\ Dropped(u, drop)

\* dual_checkin.checkin, the first of the day: normal or luck.
CheckinDual(u, mode, luck, drop) ==
  /\ dual /\ Today(u) = Null /\ WatchedToday(u) >= Required
  /\ LET award == IF mode = "luck" THEN luck ELSE Plain
     IN Paid(u, [rule |-> "dual", mode |-> mode, points |-> award, streak |-> Streak(u)], award, "checkin")
  /\ Dropped(u, drop)

\* Covers: this rule's normal check-in of today may be covered by luck, once, by a member who
\* could give back all but one point of it.
Coverable(u) == dual /\ Today(u) # Null /\ Today(u).rule = "dual" /\ Today(u).mode = "normal"
                /\ WatchedToday(u) >= Required
Recoverable(u) == balance[u] >= Most(0, Today(u).points - 1)
Cover(u, luck) ==
  /\ Coverable(u) /\ Recoverable(u)
  /\ Paid(u, [Today(u) EXCEPT !.mode = "luck", !.points = luck], luck - Today(u).points, "checkin.adjust")
  /\ UNCHANGED drops

-----------------------------------------------------------------------------
\* Spending of any kind: the shop, a game, a renewal.
Spend(u, cost) ==
  /\ spends < MaxSpends /\ Payable(u, -cost, "spend")
  /\ spends' = spends + 1 /\ balance' = [balance EXCEPT ![u] = @ - cost]
  /\ UNCHANGED <<clock, since, samples, pending, intervals, paid, booked, growth, checkins, dual, drops, switches>>

Switch ==
  /\ switches < MaxSwitches /\ switches' = switches + 1 /\ dual' = ~dual
  /\ UNCHANGED <<clock, since, samples, pending, intervals, paid, balance, booked, growth, checkins, drops, spends>>

Tick ==
  /\ clock < MaxTime /\ clock' = clock + 1
  /\ UNCHANGED <<since, samples, pending, intervals, paid, balance, booked, growth, checkins, dual,
                 drops, spends, switches>>

Checkin ==
  \E u \in Users, drop \in Drops :
    \/ \E base \in Base : CheckinOld(u, base, drop)
    \/ \E luck \in Luck : Cover(u, luck) \/ \E mode \in {"normal", "luck"} : CheckinDual(u, mode, luck, drop)
Next ==
  \/ \E u \in Users, run \in Runs, start \in 0..clock : Observe(u, run, start, clock)
  \/ Activate \/ Settle \/ Forget \/ Checkin \/ Switch \/ Tick
  \/ \E u \in Users, c \in Costs : Spend(u, c)

\* The activity job settles a batch at every interval.
FairSpec == Init /\ [][Next]_vars /\ WF_vars(Settle)

-----------------------------------------------------------------------------
(* What watching paid for a day is the reward of the wall-clock time proved *)
(* on it, each moment once: in whatever order and batches the proofs are    *)
(* settled, on however many devices, across midnight and after retention.   *)
RewardsExact ==
  /\ \A ud \in UserDays :
       LET moments == Covered(intervals[ud])
       IN /\ booked[ud]["watch.reward"] = reward_total(Cardinality(moments)).points
          /\ Length(intervals[ud]) = Cardinality(moments)
          /\ \A t \in moments : since # Null /\ t >= since /\ DayOf(t) = ud[2]
  /\ \A u \in Users :
       growth[u] = Total(CalendarDays, LAMBDA d : reward_total(Cardinality(Covered(intervals[<<u, d>>]))).growth)

(* No proof is lost between the sampler and the reward: what was proved     *)
(* after the activation and is not waiting has been counted.                *)
ProofsCounted ==
  \A s \in samples : \A t \in s.start..(s.end - 1) :
    since # Null /\ t >= since /\ ~(\E p \in pending : p.run = s.run /\ p.end = s.end)
      => t \in Covered(intervals[<<s.user, DayOf(t)>>])

(* A day's check-in is worth what its row says however it was reached: one  *)
(* award, at most one correction, at most one dropped card, and the streak  *)
(* the days in a row up to it.                                              *)
CheckinExact ==
  \A ud \in UserDays :
    LET row == checkins[ud]
    IN /\ booked[ud]["checkin"] + booked[ud]["checkin.adjust"] = IF row = Null THEN 0 ELSE row.points
       /\ drops[ud] <= IF row = Null THEN 0 ELSE 1
       /\ row # Null =>
            /\ row.rule = "dual" => row.points \in IF row.mode = "luck" THEN Luck ELSE {Plain}
            /\ row.streak = Cardinality({d \in CalendarDays : d <= ud[2] /\
                              \A e \in d..ud[2] : checkins[<<ud[1], e>>] # Null})

(* Only the first check-in of a day takes an account below zero, and a      *)
(* member let through to the draw is never refused after it: a luck draw    *)
(* never shows a result that is then not booked.                            *)
Solvent ==
     \A u \in Users :
       /\ balance'[u] < balance[u] /\ balance'[u] < 0 => Today(u) = Null /\ Today(u)' # Null
       /\ Coverable(u) /\ Recoverable(u) =>
            \A luck \in Luck : Payable(u, luck - Today(u).points, "checkin.adjust")

=============================================================================
