----------------------- MODULE StreamAdmissionProofs -----------------------
(***************************************************************************)
(* For any number of sessions, plays, devices and restarts, and whatever   *)
(* Emby, the clients and the panel do between two steps of Deck:           *)
(*                                                                         *)
(*   - a seat is given only while the member has at most max_streams;      *)
(*   - a play that takes over a seat keeps it until it has begun;          *)
(*   - a session is sanctioned only where it would be refused again.       *)
(*                                                                         *)
(* The second needs an invariant that relates what Deck has noted of a     *)
(* seat to what it has heard, and this to what has happened: the guard of  *)
(* a replacement is lifted only by news of the replacement itself, and all *)
(* news, in a snapshot or in a report, is of plays that have begun.        *)
(*                                                                         *)
(* The second part is about Sanctions, what follows when a rule is broken: *)
(* what Emby was asked for is not asked for again, and what is told of an  *)
(* event is what came of it.                                               *)
(*                                                                         *)
(* The third is about Sampling, what is counted as watched of the plays    *)
(* that were admitted: each second once, and only seconds that were played *)
(* while the panel was up.                                                 *)
(***************************************************************************)
EXTENDS MCStreamAdmission, Sequences, FiniteSetTheorems, TLAPS

Types ==
    /\ there \subseteq Sessions /\ playing \in [Sessions -> Plays \cup {None, Other}]
    /\ issued \in [Plays -> Sessions \cup {None}] /\ began \subseteq Plays
    /\ policy \in Policies
    /\ held \subseteq Sessions /\ lease \in [Sessions -> Lease]
    /\ acks \subseteq [play : Plays, sid : Sessions \cup {None}]

Sections ==
    /\ section.at \in {"free", "asked", "issuing"}
    /\ section.at = "asked" => /\ section.there \subseteq Sessions
                               /\ section.live \subseteq section.there
                               /\ section.shown \in [Sessions -> Plays \cup {None}]
    /\ section.at = "issuing" => section.found \subseteq Sessions /\ section.granted \in BOOLEAN

\* All news is of plays that have begun.
Heard ==
    /\ \A s \in Sessions : playing[s] \in Plays => playing[s] \in began
    /\ \A a \in acks : a.play \in began
    /\ section.at = "asked" =>
          \A s \in Sessions : section.shown[s] \in Plays => section.shown[s] \in began

\* What a seat says of a replacement is true of the replacement.
Guarded ==
    \A s \in Sessions : lease[s].replaced =>
        /\ lease[s].play \in Plays
        /\ lease[s].guard \/ lease[s].play \in began
        /\ lease[s].observed => lease[s].play \in began

\* The seat of a start that may still fail has no play.
Fresh ==
    section.at = "issuing" =>
        (section.granted => \A s \in section.found : lease[s].play = None)

SInv == Types /\ Sections /\ Heard /\ Guarded /\ Fresh

LEMMA BlankType == Blank \in Lease /\ Blank.replaced = FALSE /\ Blank.play = None
BY AdmissionAssumption DEF Blank, Lease

LEMMA InitSInv == Init => SInv
<1> SUFFICES ASSUME Init PROVE SInv
  OBVIOUS
<1>1. Types
  BY BlankType DEF Init, Types
<1>2. section.at = "free" /\ acks = {} /\ \A s \in Sessions : playing[s] = None
  BY DEF Init, Free
<1>3. Sections /\ Heard /\ Fresh
  BY <1>2, AdmissionAssumption DEF Sections, Heard, Fresh
<1>4. Guarded
  BY BlankType DEF Init, Guarded
<1>5. QED
  BY <1>1, <1>3, <1>4 DEF SInv

-----------------------------------------------------------------------------
(* What a snapshot does to the rows, apart from which seats are left.      *)
LEMMA LeasesFollow ==
    ASSUME SInv, section.at = "asked"
    PROVE  /\ Leases \in [Sessions -> Lease]
           /\ \A s \in Sessions : Leases[s].replaced =>
                 /\ Leases[s].play \in Plays
                 /\ Leases[s].guard \/ Leases[s].play \in began
                 /\ Leases[s].observed => Leases[s].play \in began
           /\ \A s \in held :
                 lease[s].replaced /\ Leases[s].play = None =>
                    \/ lease[s].play \in began
                    \/ lease[s].age = Grace
                    \/ s \notin section.there
<1> SUFFICES ASSUME NEW s \in Sessions
             PROVE  /\ Leases[s] \in Lease
                    /\ Leases[s].replaced =>
                          /\ Leases[s].play \in Plays
                          /\ Leases[s].guard \/ Leases[s].play \in began
                          /\ Leases[s].observed => Leases[s].play \in began
                    /\ s \in held /\ lease[s].replaced /\ Leases[s].play = None =>
                          \/ lease[s].play \in began
                          \/ lease[s].age = Grace
                          \/ s \notin section.there
  BY DEF Leases, SInv, Types
<1>1. /\ lease[s] \in Lease
      /\ lease[s].replaced => /\ lease[s].play \in Plays
                              /\ lease[s].guard \/ lease[s].play \in began
                              /\ lease[s].observed => lease[s].play \in began
      /\ section.shown[s] \in Plays => section.shown[s] \in began
      /\ section.live \subseteq section.there
  BY DEF SInv, Types, Guarded, Heard, Sections
<1>2. s \in Claimed => s \in section.live /\ s \notin Kept
  BY DEF Claimed
<1>3. s \in held /\ s \notin Kept =>
         \/ s \notin section.there
         \/ lease[s].observed
         \/ ~lease[s].observed /\ lease[s].age >= Grace
  BY DEF Kept, Dropped, Lapsed
<1>4. CASE s \in Claimed
  <2>1. Leases[s] = [Blank EXCEPT !.observed = TRUE]
    BY <1>4 DEF Leases
  <2>2. /\ Leases[s] \in Lease /\ Leases[s].replaced = FALSE
    BY <2>1, BlankType DEF Lease
  <2>3. s \in held => s \notin section.there \/ s \in Kept \/ lease[s].observed \/ lease[s].age >= Grace
    BY <1>3
  <2>4. lease[s].age >= Grace => lease[s].age = Grace
    BY <1>1, AdmissionAssumption DEF Lease
  <2>5. QED
    BY <1>1, <1>2, <1>4, <2>2, <2>3, <2>4
<1>5. CASE s \notin Claimed /\ s \in Seen
  <2>1. Leases[s] = [lease[s] EXCEPT !.observed = TRUE, !.guard = FALSE]
    BY <1>5 DEF Leases
  <2>2. /\ Leases[s] \in Lease
        /\ Leases[s].replaced = lease[s].replaced /\ Leases[s].play = lease[s].play
    BY <1>1, <2>1 DEF Lease
  <2>3. lease[s].replaced => lease[s].play \in began
    BY <1>1, <1>5 DEF Seen
  <2>4. QED
    BY <1>1, <2>2, <2>3, AdmissionAssumption
<1>6. CASE s \notin Claimed /\ s \notin Seen /\ s \in Kept
  BY <1>1, <1>6, AdmissionAssumption DEF Leases
<1>7. CASE s \notin Claimed /\ s \notin Seen /\ s \notin Kept
  <2>1. Leases[s] = Blank
    BY <1>7 DEF Leases
  <2>2. lease[s].age >= Grace => lease[s].age = Grace
    BY <1>1, AdmissionAssumption DEF Lease
  <2>3. QED
    BY <1>1, <1>3, <1>7, <2>1, <2>2, BlankType
<1>8. QED
  BY <1>4, <1>5, <1>6, <1>7

(* Seats are counted together with the sessions that play without one.     *)
LEMMA SeatsCounted ==
    ASSUME SInv, NEW s \in Sessions, NEW granted \in BOOLEAN, Decide(s, granted)
    PROVE  /\ held' \subseteq Sessions
           /\ \A t \in held' \ held : Cardinality(held') <= policy.cap
<1>1. /\ section.at = "asked" /\ policy.cap \in Nat /\ held \subseteq Sessions
      /\ section.live \subseteq Sessions /\ IsFiniteSet(Sessions)
  BY AdmissionAssumption DEF SInv, Types, Sections, Decide
<1>2. /\ Kept \subseteq held /\ Claimed \subseteq section.live
      /\ Occupied = Kept \cup Claimed
  BY DEF Kept, Claimed, Occupied
<1>3. /\ Kept \subseteq Sessions /\ Claimed \subseteq Sessions
      /\ Occupied \subseteq Sessions /\ IsFiniteSet(Occupied \cup section.live)
      /\ IsFiniteSet(section.live \cup Kept)
  BY <1>1, <1>2, FS_Subset
<1>4. held' = IF granted THEN Occupied \cup {s} ELSE Occupied
  BY DEF Decide
<1>5. CASE granted
  <2>1. /\ ~(Cardinality(Occupied \cup section.live) >= policy.cap)
        /\ s \notin Occupied /\ held' = Occupied \cup {s}
    BY <1>4, <1>5 DEF Decide, Full
  <2>2. /\ Cardinality(Occupied) <= Cardinality(Occupied \cup section.live)
        /\ Cardinality(Occupied) \in Nat /\ Cardinality(Occupied \cup section.live) \in Nat
    BY <1>3, FS_Subset, FS_CardinalityType
  <2>3. Cardinality(held') = Cardinality(Occupied) + 1
    BY <1>3, <2>1, FS_Subset, FS_AddElement
  <2>4. QED
    BY <1>1, <1>3, <2>1, <2>2, <2>3
<1>6. CASE ~granted
  <2>1. held' = Occupied
    BY <1>4, <1>6
  <2>2. ASSUME NEW t \in held' \ held
        PROVE  Cardinality(held') <= policy.cap
    <3>1. Claimed # {}
      BY <1>2, <2>1, <2>2
    <3>2. Cardinality(section.live \cup Kept) <= policy.cap
      BY <3>1 DEF Claimed
    <3>3. /\ Cardinality(Occupied) <= Cardinality(section.live \cup Kept)
          /\ Cardinality(Occupied) \in Nat /\ Cardinality(section.live \cup Kept) \in Nat
      BY <1>2, <1>3, FS_Subset, FS_CardinalityType
    <3>4. QED
      BY <1>1, <2>1, <3>2, <3>3
  <2>3. QED
    BY <1>3, <2>1, <2>2
<1>7. QED
  BY <1>5, <1>6
-----------------------------------------------------------------------------
(* The three promises as predicates of one step.                           *)
Given    == \A s \in held' \ held : Cardinality(held') <= policy.cap
Replaced == \A s \in held :
               lease[s].replaced /\ lease'[s].play = None =>
                  \/ lease[s].play \in began'
                  \/ lease[s].age = Grace \/ s \notin section.there
Beyond   == \A s \in sanctions' \ sanctions : Capped /\ Refused(s)

Step == SInv' /\ Given /\ Replaced /\ Beyond

\* A step that changes no seat only has to keep the news true.
LEMMA SeatsUnchanged ==
    ASSUME SInv, UNCHANGED <<held, lease, sanctions>>
    PROVE  Given /\ Replaced /\ Beyond
<1>1. \A s \in held : lease[s].replaced => lease[s].play # None
  BY AdmissionAssumption DEF SInv, Guarded, Types
<1>2. QED
  BY <1>1 DEF Given, Replaced, Beyond

LEMMA OutsideStep ==
    ASSUME SInv, Outside \/ UNCHANGED vars
    PROVE  Step
<1>1. /\ UNCHANGED <<held, sanctions>> /\ began \subseteq began'
      /\ section' = section
  BY DEF Outside, LogIn, LogOut, Stop, PlayOn, Report, SetPolicy, Tick, vars, emby
<1>2. CASE Tick
  <2>1. \A s \in Sessions :
           /\ lease'[s] \in Lease
           /\ lease'[s].play = lease[s].play /\ lease'[s].guard = lease[s].guard
           /\ lease'[s].observed = lease[s].observed /\ lease'[s].replaced = lease[s].replaced
    <3> SUFFICES ASSUME NEW s \in Sessions
                 PROVE  /\ lease'[s] \in Lease
                        /\ lease'[s].play = lease[s].play /\ lease'[s].guard = lease[s].guard
                        /\ lease'[s].observed = lease[s].observed
                        /\ lease'[s].replaced = lease[s].replaced
      OBVIOUS
    <3>1. lease[s] \in Lease /\ Grace \in Nat
      BY AdmissionAssumption DEF SInv, Types
    <3>2. CASE s \in held /\ lease[s].age < Grace
      <4>1. lease'[s] = [lease[s] EXCEPT !.age = @ + 1]
        BY <1>2, <3>2 DEF Tick
      <4>2. lease[s].age + 1 \in 0..Grace
        BY <3>1, <3>2 DEF Lease
      <4>3. QED
        BY <3>1, <4>1, <4>2 DEF Lease
    <3>3. CASE ~(s \in held /\ lease[s].age < Grace)
      BY <1>2, <3>1, <3>3 DEF Tick
    <3>4. QED
      BY <3>2, <3>3
  <2>2. /\ lease' = [s \in Sessions |-> lease'[s]]
        /\ UNCHANGED <<emby, policy, held, section, acks, sanctions>>
    BY <1>2 DEF Tick
  <2>3. Types'
    BY <2>1, <2>2 DEF SInv, Types, emby
  <2>4. Sections' /\ Heard' /\ Guarded' /\ Fresh'
    BY <2>1, <2>2 DEF SInv, Sections, Heard, Guarded, Fresh, emby
  <2>5. Replaced
    BY <2>1, AdmissionAssumption DEF SInv, Types, Guarded, Replaced
  <2>6. Given /\ Beyond
    BY <1>1 DEF Given, Beyond
  <2>7. QED
    BY <2>3, <2>4, <2>5, <2>6 DEF Step, SInv
<1>3. CASE lease' = lease
  <2>1. Types'
    BY <1>1, <1>3, AdmissionAssumption
    DEF Outside, LogIn, LogOut, Stop, PlayOn, Report, SetPolicy, Tick, vars, emby, SInv, Types
  <2>2. Heard'
    BY <1>1, AdmissionAssumption
    DEF Outside, LogIn, LogOut, Stop, PlayOn, Report, SetPolicy, Tick, vars, emby, SInv, Types, Heard
  <2>3. Sections' /\ Guarded' /\ Fresh'
    BY <1>1, <1>3 DEF SInv, Sections, Guarded, Fresh
  <2>4. QED
    BY <1>1, <1>3, <2>1, <2>2, <2>3, SeatsUnchanged DEF Step, SInv
<1>4. Tick \/ lease' = lease
  BY DEF Outside, LogIn, LogOut, Stop, PlayOn, Report, SetPolicy, vars
<1>5. QED
  BY <1>2, <1>3, <1>4

\* A decision on a snapshot, whatever the section does next.
LEMMA DecideStep ==
    ASSUME SInv, NEW s \in Sessions, NEW granted \in BOOLEAN, Decide(s, granted),
           UNCHANGED <<emby, policy, acks, sanctions>>
    PROVE  /\ Types' /\ Guarded' /\ Given /\ Replaced /\ Beyond
           /\ granted => lease'[s].play = None
<1>1. section.at = "asked" /\ lease' = Leases
  BY DEF Decide
<1>2. /\ lease' \in [Sessions -> Lease]
      /\ \A t \in Sessions : lease'[t].replaced =>
            /\ lease'[t].play \in Plays
            /\ lease'[t].guard \/ lease'[t].play \in began
            /\ lease'[t].observed => lease'[t].play \in began
      /\ Replaced
  <2>1. began' = began
    BY DEF emby
  <2>2. QED
    BY <1>1, <2>1, LeasesFollow DEF Replaced
<1>3. held' \subseteq Sessions /\ Given
  BY SeatsCounted DEF Given
<1>4. Types' /\ Guarded' /\ Beyond
  BY <1>2, <1>3 DEF SInv, Types, Guarded, Beyond, emby
<1>5. granted => lease'[s].play = None
  <2>1. granted => s \notin Occupied
    BY DEF Decide
  <2>2. s \notin Occupied => s \notin Claimed /\ s \notin Kept /\ s \notin Seen
    BY DEF Occupied, Seen
  <2>3. QED
    BY <1>1, <2>1, <2>2, BlankType DEF Leases
<1>6. QED
  BY <1>2, <1>3, <1>4, <1>5

LEMMA InspectStep ==
    ASSUME SInv, NEW dev, NEW sid, NEW play, NEW fits, Inspect(dev, sid, play, fits)
    PROVE  Step
<1>1. /\ section' = Free /\ UNCHANGED <<emby, policy, acks, sanctions>>
      /\ \/ UNCHANGED <<held, lease>>
         \/ \E s \in Sessions, granted \in BOOLEAN : Decide(s, granted)
  BY DEF Inspect
<1>2. Sections' /\ Heard' /\ Fresh'
  BY <1>1 DEF SInv, Sections, Heard, Fresh, Free, emby
<1>3. CASE UNCHANGED <<held, lease>>
  <2>1. Types' /\ Guarded'
    BY <1>1, <1>3 DEF SInv, Types, Guarded, emby
  <2>2. QED
    BY <1>1, <1>2, <1>3, <2>1, SeatsUnchanged DEF Step, SInv
<1>4. CASE \E s \in Sessions, granted \in BOOLEAN : Decide(s, granted)
  BY <1>1, <1>2, <1>4, DecideStep DEF Step, SInv
<1>5. QED
  BY <1>1, <1>3, <1>4

LEMMA AskInfoStep ==
    ASSUME SInv, NEW dev, NEW sid, NEW fits, AskInfo(dev, sid, fits)
    PROVE  Step
<1> DEFINE found == Matching(dev, sid, fits)
           issuing(g) ==
              [at |-> "issuing", granted |-> g,
               found |-> IF Cardinality(found) = 1 THEN found ELSE {},
               alive |-> Cardinality(found) = 1 /\ found \subseteq section.live]
<1>1. section.at = "asked" /\ UNCHANGED <<emby, policy, acks, sanctions>>
  BY DEF AskInfo
<1>2. found \subseteq Sessions
  BY <1>1 DEF Matching, SInv, Sections
<1>3. /\ \A g \in BOOLEAN : section' = issuing(g) =>
            /\ section'.at = "issuing" /\ section'.granted = g /\ section'.found \subseteq found
      /\ section' = Free => section'.at = "free"
  BY DEF Free
<1> HIDE DEF found, issuing
<1>4. \A g \in BOOLEAN : section' \in {issuing(g), Free} => Sections' /\ Heard'
  BY <1>1, <1>2, <1>3 DEF SInv, Sections, Heard, emby
<1>5. CASE UNCHANGED <<held, lease>> /\ section' = issuing(FALSE)
  <2>1. Types' /\ Guarded'
    BY <1>1, <1>5 DEF SInv, Types, Guarded, emby
  <2>2. Fresh'
    BY <1>3, <1>5 DEF Fresh
  <2>3. QED
    BY <1>1, <1>4, <1>5, <2>1, <2>2, SeatsUnchanged DEF Step, SInv
<1>6. ASSUME NEW s \in Sessions, NEW granted \in BOOLEAN, Decide(s, granted), found = {s},
             section' \in {issuing(granted), issuing(FALSE), Free}
      PROVE  Step
  <2>1. /\ Types' /\ Guarded' /\ Given /\ Replaced /\ Beyond
        /\ granted => lease'[s].play = None
    BY <1>1, <1>6, DecideStep
  <2>2. Fresh'
    BY <1>3, <1>6, <2>1 DEF Fresh
  <2>3. Sections' /\ Heard'
    BY <1>4, <1>6
  <2>4. QED
    BY <2>1, <2>2, <2>3 DEF Step, SInv
<1>7. \/ UNCHANGED <<held, lease>> /\ section' = issuing(FALSE)
      \/ \E s \in Sessions, granted \in BOOLEAN :
            /\ Decide(s, granted) /\ found = {s}
            /\ section' \in {issuing(granted), issuing(FALSE), Free}
  BY DEF AskInfo, found, issuing
<1>8. QED
  BY <1>5, <1>6, <1>7

LEMMA IssuedStep ==
    ASSUME SInv, NEW p \in Plays, Issued(p)
    PROVE  Step
<1>1. /\ section.at = "issuing" /\ section' = Free
      /\ UNCHANGED <<there, playing, began, policy, held, acks, suspects, sanctions>>
  BY DEF Issued
<1>2. Sections' /\ Heard' /\ Fresh'
  BY <1>1 DEF SInv, Sections, Heard, Fresh, Free
<1>3. CASE UNCHANGED <<issued, lease>>
  <2>1. Types' /\ Guarded'
    BY <1>1, <1>3 DEF SInv, Types, Guarded
  <2>2. QED
    BY <1>1, <1>2, <1>3, <2>1, SeatsUnchanged DEF Step, SInv
<1>4. CASE ~UNCHANGED <<issued, lease>>
  <2>1. PICK s \in section.found :
           /\ issued' = Issuance(p, s)
           /\ lease' = IF s \in held /\ lease[s].play # p
                       THEN [lease EXCEPT ![s] = [observed |-> FALSE, play |-> p, age |-> 0,
                                                  guard |-> Replaces(s),
                                                  replaced |-> lease[s].play # None]]
                       ELSE lease
    BY <1>4 DEF Issued
  <2>2. s \in Sessions
    BY <1>1, <2>1 DEF SInv, Sections
  <2>3. issued' \in [Plays -> Sessions \cup {None}]
    BY <2>1, <2>2 DEF Issuance, SInv, Types
  <2>4. CASE ~(s \in held /\ lease[s].play # p)
    <3>1. lease' = lease
      BY <2>1, <2>4
    <3>2. Types' /\ Guarded'
      BY <1>1, <2>3, <3>1 DEF SInv, Types, Guarded
    <3>3. QED
      BY <1>1, <1>2, <3>1, <3>2, SeatsUnchanged DEF Step, SInv
  <2>5. CASE s \in held /\ lease[s].play # p
    <3> DEFINE regained == [observed |-> FALSE, play |-> p, age |-> 0,
                         guard |-> Replaces(s), replaced |-> lease[s].play # None]
    <3>1. lease' = [lease EXCEPT ![s] = regained]
      BY <2>1, <2>5
    <3>2. /\ Replaces(s) \in BOOLEAN /\ (lease[s].play # None => Replaces(s))
      BY DEF Replaces
    <3>3. /\ regained \in Lease /\ regained.play = p /\ regained.observed = FALSE
          /\ regained.replaced => regained.guard
      BY <3>2, AdmissionAssumption DEF Lease
    <3> HIDE DEF regained
    <3>4. Types'
      BY <1>1, <2>2, <2>3, <3>1, <3>3 DEF SInv, Types
    <3>5. Guarded'
      BY <1>1, <2>2, <3>1, <3>3 DEF SInv, Types, Guarded
    <3>6. Replaced
      BY <2>2, <3>1, <3>3, AdmissionAssumption DEF SInv, Types, Guarded, Replaced
    <3>7. Given /\ Beyond
      BY <1>1 DEF Given, Beyond
    <3>8. QED
      BY <1>2, <3>4, <3>5, <3>6, <3>7 DEF Step, SInv
  <2>6. QED
    BY <2>4, <2>5
<1>5. QED
  BY <1>3, <1>4

LEMMA NotIssuedStep ==
    ASSUME SInv, NEW failed \in BOOLEAN, NotIssued(failed)
    PROVE  Step
<1>1. /\ section.at = "issuing" /\ section' = Free
      /\ UNCHANGED <<emby, policy, acks, suspects, sanctions>>
      /\ held' \subseteq held
      /\ lease' = [s \in Sessions |-> IF failed /\ s \in FailedStart THEN Blank ELSE lease[s]]
  BY DEF NotIssued
<1>2. Sections' /\ Heard' /\ Fresh'
  BY <1>1 DEF SInv, Sections, Heard, Fresh, Free, emby
<1>3. \A s \in FailedStart : s \in Sessions => lease[s].play = None
  BY <1>1 DEF FailedStart, SInv, Fresh
<1>4. Types' /\ Guarded'
  BY <1>1, BlankType DEF SInv, Types, Guarded, emby
<1>5. Replaced
  BY <1>1, <1>3, AdmissionAssumption DEF SInv, Types, Guarded, Replaced
<1>6. Given /\ Beyond
  BY <1>1 DEF Given, Beyond
<1>7. QED
  BY <1>2, <1>4, <1>5, <1>6 DEF Step, SInv

LEMMA ReportStoppedStep ==
    ASSUME SInv, NEW dev, NEW sid, NEW play \in Plays \cup {None}, NEW fits,
           ReportStopped(dev, sid, play, fits)
    PROVE  Step
<1>1. /\ section.at = "asked" /\ section' = Free
      /\ UNCHANGED <<there, playing, issued, policy, acks, suspects, sanctions>>
      /\ began' = began \cup ({play} \cap Plays)
      /\ held' \subseteq held
  BY DEF ReportStopped
<1> DEFINE bearers == IF sid = None /\ Cardinality(Bearer(play)) = 1 THEN Bearer(play) ELSE {sid}
           found == UNION {Matching(dev, s, fits) : s \in bearers}
           freed == {s \in found : Cardinality(found) = 1 /\ Ends(s, play)}
<1>2. /\ lease' = [s \in Sessions |-> IF s \in freed THEN Blank ELSE lease[s]]
      /\ \A s \in freed : lease[s].play = play
  BY DEF ReportStopped, Ends
<1> HIDE DEF freed
<1>3. Sections' /\ Heard' /\ Fresh'
  BY <1>1 DEF SInv, Sections, Heard, Fresh, Free
<1>4. Types' /\ Guarded'
  BY <1>1, <1>2, BlankType DEF SInv, Types, Guarded
<1>5. Replaced
  BY <1>1, <1>2, AdmissionAssumption DEF SInv, Types, Guarded, Replaced
<1>6. Given /\ Beyond
  BY <1>1 DEF Given, Beyond
<1>7. QED
  BY <1>3, <1>4, <1>5, <1>6 DEF Step, SInv

LEMMA RecordActivityStep ==
    ASSUME SInv, NEW a \in acks, RecordActivity(a)
    PROVE  Step
<1>1. /\ section = Free /\ acks' \subseteq acks
      /\ UNCHANGED <<emby, policy, held, section, suspects, sanctions>>
      /\ lease' = [s \in Sessions |->
                      IF Bearer(a.play) = {s} /\ a.sid \in {None, s}
                      THEN [lease[s] EXCEPT !.observed = TRUE, !.guard = FALSE] ELSE lease[s]]
  BY DEF RecordActivity
<1>2. a.play \in began
  BY DEF SInv, Heard
<1>3. \A s \in Sessions :
         /\ lease'[s] \in Lease
         /\ lease'[s].play = lease[s].play /\ lease'[s].replaced = lease[s].replaced
         /\ \/ lease'[s] = lease[s]
            \/ lease[s].play \in began
  <2> SUFFICES ASSUME NEW s \in Sessions
               PROVE  /\ lease'[s] \in Lease
                      /\ lease'[s].play = lease[s].play /\ lease'[s].replaced = lease[s].replaced
                      /\ lease'[s] = lease[s] \/ lease[s].play \in began
    OBVIOUS
  <2>1. lease[s] \in Lease
    BY DEF SInv, Types
  <2>2. CASE Bearer(a.play) = {s} /\ a.sid \in {None, s}
    <3>1. lease'[s] = [lease[s] EXCEPT !.observed = TRUE, !.guard = FALSE]
      BY <1>1, <2>2
    <3>2. lease[s].play = a.play
      BY <2>2 DEF Bearer
    <3>3. QED
      BY <1>2, <2>1, <3>1, <3>2 DEF Lease
  <2>3. CASE ~(Bearer(a.play) = {s} /\ a.sid \in {None, s})
    BY <1>1, <2>1, <2>3
  <2>4. QED
    BY <2>2, <2>3
<1>4. Types'
  BY <1>1, <1>3 DEF SInv, Types, emby
<1>5. Sections' /\ Heard' /\ Fresh'
  BY <1>1 DEF SInv, Sections, Heard, Fresh, Free, emby
<1>6. Guarded'
  <2> SUFFICES ASSUME NEW s \in Sessions, lease'[s].replaced
               PROVE  /\ lease'[s].play \in Plays
                      /\ lease'[s].guard \/ lease'[s].play \in began
                      /\ lease'[s].observed => lease'[s].play \in began
    BY <1>1 DEF Guarded, emby
  <2>1. /\ lease[s].play \in Plays
        /\ lease[s].guard \/ lease[s].play \in began
        /\ lease[s].observed => lease[s].play \in began
    BY <1>3 DEF SInv, Guarded
  <2>2. QED
    BY <1>3, <2>1
<1>7. Replaced
  BY <1>3, AdmissionAssumption DEF SInv, Types, Guarded, Replaced
<1>8. Given /\ Beyond
  BY <1>1 DEF Given, Beyond
<1>9. QED
  BY <1>4, <1>5, <1>6, <1>7, <1>8 DEF Step, SInv

(* What the second look counts is enough for _admit to refuse: the others  *)
(* fill the cap, so with the session itself they are too many to be seated *)
(* for playing, and the session has no row that could be kept.             *)
LEMMA ProvenMeansRefused ==
    ASSUME SInv, section.at = "asked", NEW x, Proven(x)
    PROVE  Refused(x.sid)
<1> DEFINE others == section.live \ {x.sid}
<1>1. /\ section.live \subseteq Sessions /\ held \subseteq Sessions /\ policy.cap \in Nat
      /\ IsFiniteSet(Sessions)
  BY AdmissionAssumption DEF SInv, Types, Sections
<1>2. x.sid \notin held /\ Cardinality(others) >= policy.cap
  BY DEF Proven
<1>3. Kept \subseteq held /\ Claimed \subseteq section.live /\ Occupied = Kept \cup Claimed
  BY DEF Kept, Claimed, Occupied
<1>4. /\ IsFiniteSet(others) /\ IsFiniteSet(section.live \cup Kept)
      /\ IsFiniteSet(Occupied \cup section.live)
  BY <1>1, <1>3, FS_Subset
<1>5. /\ Cardinality(others) \in Nat /\ Cardinality(section.live \cup Kept) \in Nat
      /\ Cardinality(Occupied \cup section.live) \in Nat
  BY <1>4, FS_CardinalityType
<1>6. Cardinality(others) <= Cardinality(Occupied \cup section.live)
  BY <1>4, FS_Subset
<1>7. x.sid \notin Claimed
  <2> SUFFICES ASSUME x.sid \in section.live
               PROVE  Claimed = {}
    BY <1>3
  <2>1. IsFiniteSet(others \cup {x.sid}) /\ Cardinality(others \cup {x.sid}) = Cardinality(others) + 1
    BY <1>4, FS_AddElement
  <2>2. others \cup {x.sid} \subseteq section.live \cup Kept
    OBVIOUS
  <2>3. Cardinality(others \cup {x.sid}) <= Cardinality(section.live \cup Kept)
    BY <1>4, <2>2, FS_Subset
  <2>4. ~(Cardinality(section.live \cup Kept) <= policy.cap)
    BY <1>1, <1>2, <1>5, <2>1, <2>3
  <2>5. QED
    BY <2>4 DEF Claimed
<1>8. QED
  BY <1>1, <1>2, <1>3, <1>5, <1>6, <1>7 DEF Refused, Full

LEMMA ConfirmStep ==
    ASSUME SInv, NEW x, Confirm(x)
    PROVE  Step
<1>1. /\ section' = Free /\ UNCHANGED <<emby, policy, held, lease, acks, restarts>>
      /\ \/ UNCHANGED sanctions
         \/ section.at = "asked" /\ Capped /\ Proven(x) /\ sanctions' = sanctions \cup {x.sid}
  BY DEF Confirm
<1>2. SInv'
  BY <1>1 DEF SInv, Types, Sections, Heard, Guarded, Fresh, Free, emby
<1>3. Replaced
  BY <1>1, AdmissionAssumption DEF SInv, Types, Guarded, Replaced
<1>4. Given /\ Beyond
  BY <1>1, ProvenMeansRefused DEF Given, Beyond
<1>5. QED
  BY <1>2, <1>3, <1>4 DEF Step

LEMMA QuietStep ==
    ASSUME SInv, Snapshot \/ Abandon \/ Restart
    PROVE  Step
<1>1. UNCHANGED <<emby, policy, held, lease, sanctions>> /\ acks' \subseteq acks
  BY DEF Snapshot, Abandon, Restart
<1>2. Types' /\ Guarded'
  BY <1>1 DEF SInv, Types, Guarded, emby
<1>3. Sections' /\ Heard' /\ Fresh'
  <2>1. CASE Snapshot
    <3>1. PICK silent \in BOOLEAN :
             section' = [at |-> "asked", there |-> there, live |-> Live,
                         shown |-> [s \in Sessions |->
                                      IF silent \/ playing[s] = Other THEN None ELSE playing[s]]]
      BY <2>1 DEF Snapshot
    <3>2. /\ section'.at = "asked" /\ section'.there = there /\ section'.live = Live
          /\ section'.shown \in [Sessions -> Plays \cup {None}]
          /\ \A s \in Sessions : section'.shown[s] \in {None, playing[s]}
      BY <3>1 DEF SInv, Types
    <3>3. Live \subseteq there
      BY DEF Live
    <3>4. QED
      BY <1>1, <3>2, <3>3, AdmissionAssumption DEF SInv, Types, Sections, Heard, Fresh, emby
  <2>2. CASE section' = Free
    BY <1>1, <2>2 DEF SInv, Sections, Heard, Fresh, Free, emby
  <2>3. QED
    BY <2>1, <2>2 DEF Abandon, Restart
<1>4. QED
  BY <1>1, <1>2, <1>3, SeatsUnchanged DEF Step, SInv

LEMMA EveryStep ==
    ASSUME SInv, [Next]_vars
    PROVE  Step
<1>1. CASE Outside \/ UNCHANGED vars
  BY <1>1, OutsideStep
<1>2. CASE Deck
  BY <1>2, InspectStep, AskInfoStep, IssuedStep, NotIssuedStep, ReportStoppedStep,
     RecordActivityStep, ConfirmStep, QuietStep DEF Deck
<1>3. QED
  BY <1>1, <1>2 DEF Next

-----------------------------------------------------------------------------
(* The invariant holds in every reachable state.                           *)
THEOREM AdmissionInvariant == Spec => []SInv
<1>1. SInv /\ [Next]_vars => SInv'
  BY EveryStep DEF Step
<1>2. QED
  BY <1>1, InitSInv, PTL DEF Spec

(* The cap holds for every seat _admit gives (streams.py:308 and 316).     *)
THEOREM AdmissionWithinCap == Spec => GrantWithinCap
<1>1. SInv /\ [Next]_vars => [Given]_vars
  BY EveryStep DEF Step
<1>2. QED
  BY <1>1, AdmissionInvariant, PTL DEF Spec, GrantWithinCap, Given

(* No stale snapshot, late report or restart takes the seat from a play    *)
(* that replaced another before it has begun (streams.py:305, 454, 509).   *)
THEOREM AdmissionKeepsReplacements == Spec => ReplacementKept
<1>1. SInv /\ [Next]_vars => [Replaced]_vars
  BY EveryStep DEF Step
<1>2. QED
  BY <1>1, AdmissionInvariant, PTL DEF Spec, ReplacementKept, Replaced

(* confirm_violation sanctions nobody whom _admit would let play on the    *)
(* same snapshot (streams.py:369-379 against 296-316), however the seats,  *)
(* the plays and the member's row have changed since the refusal.          *)
THEOREM AdmissionPunishesOnlyBeyondCap == Spec => SanctionedBeyondCap
<1>1. SInv /\ [Next]_vars => [Beyond]_vars
  BY EveryStep DEF Step
<1>2. QED
  BY <1>1, AdmissionInvariant, PTL DEF Spec, SanctionedBeyondCap, Beyond

(*-------------------------------------------------------------------------*)
(* What is done about who breaks a rule, and about his row: restrictions    *)
(* and enforcement, whose tables are apart from the seats.                 *)
CONSTANTS Calls, Rules, Actions, Requests, Window, Rows, Powers, ErrorsRefuse, MaxEvents, MaxChanges
VARIABLES row, remote, applied, rules, live, trusted, events, notices, batch, holder, work, agreed, changes

S == INSTANCE Sanctions WITH emby <- remote

IsWork(w) == w = [kind |-> w.kind, rule |-> w.rule, session |-> w.session, action |-> w.action, want |-> w.want,
                  before |-> w.before, seen |-> w.seen, event |-> w.event, pc |-> w.pc]

SanctionConstants ==
  /\ S!SanctionBounds /\ Actions \subseteq {"pause", "disable", "delete"}
  /\ Rows \subseteq [status : S!Statuses, lapsed : BOOLEAN, admin : BOOLEAN]
  /\ "manual" \notin Rules /\ Null \notin S!Tasks \cup BOOLEAN /\ ~IsWork(Null)

Accounts == [here : BOOLEAN, status : S!Statuses, lapsed : BOOLEAN, admin : BOOLEAN]
Verbs == {"pause", "disable", "delete", "enable"}
Events == [rule : Rules \cup {"manual"}, action : Verbs, session : Sessions \cup Requests, status : S!Outcomes,
           at : Nat, updated : Nat, attempts : Nat, sent : SUBSET {"policy", "delete", "stop"}, twice : BOOLEAN]
Notices == [state : {"none", "pending", "retry", "sending", "sent", "failed", "unknown"},
            told : S!Outcomes \cup {"none"}, posts : Nat]

Ledgers ==
  /\ clock \in Nat /\ row \in Accounts /\ remote \in [here : BOOLEAN, disabled : BOOLEAN, admin : BOOLEAN]
  /\ applied \in BOOLEAN /\ rules \in [Rules -> Actions \cup {"off"}] /\ live \subseteq Sessions
  /\ events \in Seq(Events) /\ agreed \in BOOLEAN

(* Where a task is, and what it carries by then.                           *)
Queued(w) ==
  /\ w.event = 0
  /\ \/ w.kind = "sanction" /\ w.rule \in Rules /\ w.session \in Sessions
     \/ w.kind = "manual" /\ w.action \in {"disable", "enable"} /\ w.session \in Requests
     \/ w.kind \in {"enforce", "reconcile"}
Looking(w) ==
  /\ w.event = 0
  /\ \/ w.kind = "sanction" /\ w.rule \in Rules /\ w.session \in Sessions
        /\ w.action \in Actions /\ w.pc \in {"user", "confirm"}
     \/ w.kind = "manual" /\ w.action \in {"disable", "enable"} /\ w.session \in Requests /\ w.pc = "user"
     \/ w.kind = "enforce" /\ w.pc = "user"
     \/ w.kind = "reconcile" /\ w.pc \in {"user", "row"}
Projecting(w) == w.event = 0 /\ w.kind \in {"enforce", "reconcile"} /\ w.pc \in {"policy", "post"} /\ w.want \in BOOLEAN
Acting(w) ==
  /\ w.event \in DOMAIN events /\ events[w.event].status = "pending"
  /\ \/ w.kind = "sanction" /\ w.pc \in {"policy", "post", "recheck", "delete", "stop"}
        /\ (w.pc \in {"policy", "post"} => w.want)
     \/ w.kind = "manual" /\ w.action \in {"disable", "enable"} /\ w.pc \in {"policy", "post", "verify"}
  /\ w.pc # "stop" => w.want \in BOOLEAN /\ w.before \in Accounts
  /\ events[w.event].rule = "client_filter" => w.pc = "stop"

(* One task has the lock, and the others wait.                             *)
Serial ==
  /\ holder \in S!Tasks \cup {Null} /\ work = [c \in S!Tasks |-> work[c]]
  /\ holder # Null => /\ IsWork(work[holder]) /\ work[holder].pc # "queue"
                      /\ Looking(work[holder]) \/ Projecting(work[holder]) \/ Acting(work[holder])
  /\ \A c \in S!Tasks : c # holder /\ work[c] # Null => IsWork(work[c]) /\ work[c].pc = "queue" /\ Queued(work[c])

(* What an event has not set going, it may.                                *)
NotYet(ev, what) == what \notin ev.sent
Repeatable(ev) ==
  /\ ~ev.twice /\ (ev.status = "pending" => NotYet(ev, "stop"))
  /\ ev.rule = "client_filter" /\ ev.status \in {"pending", "failed"} => ev.sent = {}
Replays ==
  /\ \A e \in DOMAIN events : Repeatable(events[e])
  /\ holder # Null /\ Acting(work[holder]) =>
       /\ work[holder].pc \in {"policy", "post"} => NotYet(events[work[holder].event], "policy")
       /\ work[holder].pc \in {"recheck", "delete"} => NotYet(events[work[holder].event], "delete")

(* What is under way is what the row asks for, until the row changes.      *)
OnTheWay(w) == w.pc = "post" \/ (w.pc = "policy" /\ w.kind # "manual")
Sound(w) == IF w.kind = "manual"
            THEN row.here = w.before.here /\ row.status = w.before.status /\ S!Wanted(row, w.action) = w.want
            ELSE w.want = S!Blocked(row)
Agrees ==
  agreed /\ row.here /\ remote.here =>
    IF holder # Null /\ OnTheWay(work[holder]) THEN Sound(work[holder]) ELSE remote.disabled = S!Blocked(row)

(* A notice says what its event came to; the one that is read and not yet   *)
(* answered may still be sent.                                             *)
Final(e) == events[e].rule # "client_filter" => events[e].status # "pending"
Told(e, status) == Final(e) /\ (events[e].rule # "client_filter" => status = events[e].status)
TrueNotice(e) ==
  LET n == notices[e] IN
  /\ ErrorsRefuse /\ n.state \in {"none", "pending", "retry", "sending"} => n.posts = 0
  /\ ErrorsRefuse => n.posts \in {0, 1}
  /\ n.posts > 0 \/ n.state = "sending" => Told(e, n.told)
Post ==
  /\ notices \in Seq(Notices) /\ Len(notices) = Len(events)
  /\ \A e \in DOMAIN notices : TrueNotice(e)
  /\ batch \subseteq [event : DOMAIN notices, tells : S!Outcomes]
  /\ \A b \in batch : notices[b.event].state \in {"pending", "retry", "sending"} /\ Told(b.event, b.tells)
  /\ \A b, d \in batch : b.event = d.event => b = d

SanctionInv == Ledgers /\ Serial /\ Replays /\ Agrees /\ Post
LEMMA SanctionInit == ASSUME SanctionConstants, S!Init PROVE SanctionInv
<1>1. events = <<>> /\ notices = <<>> /\ batch = {} /\ holder = Null /\ clock = 0
  BY DEF S!Init
<1>2. Ledgers
  <2>1. rules \in [Rules -> Actions \cup {"off"}]
    BY DEF S!Init
  <2>2. row \in Accounts /\ remote \in [here : BOOLEAN, disabled : BOOLEAN, admin : BOOLEAN]
    BY DEF S!Init, Accounts, S!Statuses
  <2>3. applied \in BOOLEAN /\ agreed \in BOOLEAN /\ live \subseteq Sessions
    BY DEF S!Init
  <2> QED
    BY <1>1, <2>1, <2>2, <2>3 DEF Ledgers
<1>3. Serial
  BY <1>1 DEF S!Init, Serial
<1>4. Replays
  BY <1>1 DEF Replays
<1>5. Agrees
  BY <1>1 DEF S!Init, Agrees, S!Blocked
<1>6. Post
  BY <1>1 DEF Post
<1> QED
  BY <1>2, <1>3, <1>4, <1>5, <1>6 DEF SanctionInv

(* Who is past the queue has the lock.                                     *)
LEMMA Busy ==
  ASSUME SanctionConstants, Serial, NEW c \in S!Tasks, work[c] # Null, work[c].pc # "queue"
  PROVE  holder = c /\ IsWork(work[c]) /\ (Looking(work[c]) \/ Projecting(work[c]) \/ Acting(work[c]))
<1>1. holder = c /\ c # Null
  BY DEF Serial, SanctionConstants
<1> QED
  BY <1>1 DEF Serial

LEMMA Left ==
  ASSUME SanctionConstants, Serial, NEW c \in S!Tasks, holder \in {c, Null}, S!Leave(c)
  PROVE  Serial' /\ holder' = Null
<1>1. holder' = Null /\ work' = [work EXCEPT ![c] = Null]
  BY DEF S!Leave
<1>2. \A d \in S!Tasks : work'[d] = IF d = c THEN Null ELSE work[d]
  BY <1>1 DEF Serial
<1>3. work' = [d \in S!Tasks |-> work'[d]]
  BY <1>1 DEF Serial
<1>4. \A d \in S!Tasks : d # c => d # holder
  BY DEF SanctionConstants
<1> QED
  BY <1>1, <1>2, <1>3, <1>4 DEF Serial

LEMMA Went ==
  ASSUME SanctionConstants, Serial, NEW c \in S!Tasks, holder \in {c, Null}, holder' = c,
         NEW w, work' = [work EXCEPT ![c] = w], IsWork(w), w.pc # "queue",
         (Looking(w) \/ Projecting(w) \/ Acting(w))'
  PROVE  Serial' /\ work'[c] = w
<1>1. \A d \in S!Tasks : work'[d] = IF d = c THEN w ELSE work[d]
  BY DEF Serial
<1>2. work' = [d \in S!Tasks |-> work'[d]]
  BY DEF Serial
<1>3. work'[c] = w /\ c # Null
  BY <1>1 DEF SanctionConstants
<1>4. \A d \in S!Tasks : d # c /\ work'[d] # Null => IsWork(work'[d]) /\ work'[d].pc = "queue" /\ Queued(work'[d])
  BY <1>1 DEF Serial, SanctionConstants
<1>5. (Looking(work[holder]) \/ Projecting(work[holder]) \/ Acting(work[holder]))'
  BY <1>3 DEF Looking, Projecting, Acting
<1>6. IsWork(work'[c]) /\ work'[c].pc # "queue"
  BY <1>3
<1>7. Serial'
  BY <1>2, <1>4, <1>5, <1>6 DEF Serial
<1> QED
  BY <1>3, <1>7

(* The next stage of a task.                                               *)
LEMMA Stage ==
  ASSUME SanctionConstants, Serial, NEW c \in S!Tasks, NEW pc, IsWork(work[c]), S!Go(c, pc)
  PROVE  \E w : /\ w = [work[c] EXCEPT !.pc = pc] /\ work' = [work EXCEPT ![c] = w] /\ holder' = c /\ IsWork(w)
                /\ w.kind = work[c].kind /\ w.rule = work[c].rule /\ w.session = work[c].session
                /\ w.action = work[c].action /\ w.want = work[c].want /\ w.before = work[c].before
                /\ w.seen = work[c].seen /\ w.event = work[c].event /\ w.pc = pc
<1> DEFINE w == [work[c] EXCEPT !.pc = pc]
<1>1. work' = [work EXCEPT ![c] = w] /\ holder' = c
  BY DEF S!Go
<1>2. PICK v : v = work[c]
  OBVIOUS
<1>3. v = [kind |-> v.kind, rule |-> v.rule, session |-> v.session, action |-> v.action, want |-> v.want,
           before |-> v.before, seen |-> v.seen, event |-> v.event, pc |-> v.pc]
  BY <1>2 DEF IsWork
<1>4. w = [kind |-> v.kind, rule |-> v.rule, session |-> v.session, action |-> v.action, want |-> v.want,
           before |-> v.before, seen |-> v.seen, event |-> v.event, pc |-> pc]
  BY <1>2, <1>3
<1> HIDE DEF w
<1>5. /\ w.kind = v.kind /\ w.rule = v.rule /\ w.session = v.session
      /\ w.action = v.action /\ w.want = v.want /\ w.before = v.before
      /\ w.seen = v.seen /\ w.event = v.event /\ w.pc = pc /\ IsWork(w)
  BY <1>4 DEF IsWork
<1>6. w = [work[c] EXCEPT !.pc = pc]
  BY DEF w
<1> QED
  BY <1>1, <1>2, <1>5, <1>6

(* A task whose notes are others.                                          *)
Patch(v, action, want, before, seen, event, pc) ==
  [kind |-> v.kind, rule |-> v.rule, session |-> v.session, action |-> action, want |-> want,
   before |-> before, seen |-> seen, event |-> event, pc |-> pc]

LEMMA PatchedOnce ==
  ASSUME NEW v, IsWork(v), NEW x
  PROVE  /\ [v EXCEPT !.action = x] = Patch(v, x, v.want, v.before, v.seen, v.event, v.pc)
         /\ [v EXCEPT !.want = x] = Patch(v, v.action, x, v.before, v.seen, v.event, v.pc)
         /\ [v EXCEPT !.before = x] = Patch(v, v.action, v.want, x, v.seen, v.event, v.pc)
         /\ [v EXCEPT !.seen = x] = Patch(v, v.action, v.want, v.before, x, v.event, v.pc)
         /\ [v EXCEPT !.event = x] = Patch(v, v.action, v.want, v.before, v.seen, x, v.pc)
         /\ [v EXCEPT !.pc = x] = Patch(v, v.action, v.want, v.before, v.seen, v.event, x)
<1>1. [v EXCEPT !.action = x] = Patch(v, x, v.want, v.before, v.seen, v.event, v.pc)
  BY DEF IsWork, Patch
<1>2. [v EXCEPT !.want = x] = Patch(v, v.action, x, v.before, v.seen, v.event, v.pc)
  BY DEF IsWork, Patch
<1>3. [v EXCEPT !.before = x] = Patch(v, v.action, v.want, x, v.seen, v.event, v.pc)
  BY DEF IsWork, Patch
<1>4. [v EXCEPT !.seen = x] = Patch(v, v.action, v.want, v.before, x, v.event, v.pc)
  BY DEF IsWork, Patch
<1>5. [v EXCEPT !.event = x] = Patch(v, v.action, v.want, v.before, v.seen, x, v.pc)
  BY DEF IsWork, Patch
<1>6. [v EXCEPT !.pc = x] = Patch(v, v.action, v.want, v.before, v.seen, v.event, x)
  BY DEF IsWork, Patch
<1> QED
  BY <1>1, <1>2, <1>3, <1>4, <1>5, <1>6

LEMMA PatchShape ==
  ASSUME NEW v, NEW action, NEW want, NEW before, NEW seen, NEW event, NEW pc
  PROVE  LET w == Patch(v, action, want, before, seen, event, pc) IN
         /\ IsWork(w) /\ w.kind = v.kind /\ w.rule = v.rule /\ w.session = v.session /\ w.action = action
         /\ w.want = want /\ w.before = before /\ w.seen = seen /\ w.event = event /\ w.pc = pc
BY DEF IsWork, Patch

LEMMA PatchedActs ==
  ASSUME NEW v, IsWork(v), NEW pc, NEW x
  PROVE  [v EXCEPT !.pc = pc, !.action = x] = Patch(v, x, v.want, v.before, v.seen, v.event, pc)
<1> DEFINE u == [v EXCEPT !.pc = pc]
<1>1. [v EXCEPT !.pc = pc, !.action = x] = [u EXCEPT !.action = x]
  OBVIOUS
<1>2. u = Patch(v, v.action, v.want, v.before, v.seen, v.event, pc)
  BY PatchedOnce, Zenon
<1> HIDE DEF u
<1>3. /\ IsWork(u) /\ u.kind = v.kind /\ u.rule = v.rule /\ u.session = v.session /\ u.action = v.action
      /\ u.want = v.want /\ u.before = v.before /\ u.seen = v.seen /\ u.event = v.event /\ u.pc = pc
  BY <1>2, PatchShape
<1>4. [u EXCEPT !.action = x] = Patch(u, x, u.want, u.before, u.seen, u.event, u.pc)
  BY <1>3, PatchedOnce, Zenon
<1> QED
  BY <1>1, <1>3, <1>4 DEF Patch

LEMMA PatchedWants ==
  ASSUME NEW v, IsWork(v), NEW pc, NEW x
  PROVE  [v EXCEPT !.pc = pc, !.want = x] = Patch(v, v.action, x, v.before, v.seen, v.event, pc)
<1> DEFINE u == [v EXCEPT !.pc = pc]
<1>1. [v EXCEPT !.pc = pc, !.want = x] = [u EXCEPT !.want = x]
  OBVIOUS
<1>2. u = Patch(v, v.action, v.want, v.before, v.seen, v.event, pc)
  BY PatchedOnce, Zenon
<1> HIDE DEF u
<1>3. /\ IsWork(u) /\ u.kind = v.kind /\ u.rule = v.rule /\ u.session = v.session /\ u.action = v.action
      /\ u.want = v.want /\ u.before = v.before /\ u.seen = v.seen /\ u.event = v.event /\ u.pc = pc
  BY <1>2, PatchShape
<1>4. [u EXCEPT !.want = x] = Patch(u, u.action, x, u.before, u.seen, u.event, u.pc)
  BY <1>3, PatchedOnce, Zenon
<1> QED
  BY <1>1, <1>3, <1>4 DEF Patch

LEMMA PatchedSees ==
  ASSUME NEW v, IsWork(v), NEW pc, NEW x
  PROVE  [v EXCEPT !.pc = pc, !.seen = x] = Patch(v, v.action, v.want, v.before, x, v.event, pc)
<1> DEFINE u == [v EXCEPT !.pc = pc]
<1>1. [v EXCEPT !.pc = pc, !.seen = x] = [u EXCEPT !.seen = x]
  OBVIOUS
<1>2. u = Patch(v, v.action, v.want, v.before, v.seen, v.event, pc)
  BY PatchedOnce, Zenon
<1> HIDE DEF u
<1>3. /\ IsWork(u) /\ u.kind = v.kind /\ u.rule = v.rule /\ u.session = v.session /\ u.action = v.action
      /\ u.want = v.want /\ u.before = v.before /\ u.seen = v.seen /\ u.event = v.event /\ u.pc = pc
  BY <1>2, PatchShape
<1>4. [u EXCEPT !.seen = x] = Patch(u, u.action, u.want, u.before, x, u.event, u.pc)
  BY <1>3, PatchedOnce, Zenon
<1> QED
  BY <1>1, <1>3, <1>4 DEF Patch

LEMMA PatchedFiles ==
  ASSUME NEW v, IsWork(v), NEW pc, NEW x
  PROVE  [v EXCEPT !.pc = pc, !.event = x] = Patch(v, v.action, v.want, v.before, v.seen, x, pc)
<1> DEFINE u == [v EXCEPT !.pc = pc]
<1>1. [v EXCEPT !.pc = pc, !.event = x] = [u EXCEPT !.event = x]
  OBVIOUS
<1>2. u = Patch(v, v.action, v.want, v.before, v.seen, v.event, pc)
  BY PatchedOnce, Zenon
<1> HIDE DEF u
<1>3. /\ IsWork(u) /\ u.kind = v.kind /\ u.rule = v.rule /\ u.session = v.session /\ u.action = v.action
      /\ u.want = v.want /\ u.before = v.before /\ u.seen = v.seen /\ u.event = v.event /\ u.pc = pc
  BY <1>2, PatchShape
<1>4. [u EXCEPT !.event = x] = Patch(u, u.action, u.want, u.before, u.seen, x, u.pc)
  BY <1>3, PatchedOnce, Zenon
<1> QED
  BY <1>1, <1>3, <1>4 DEF Patch

Charged(v, pc, event, before, want) == [v EXCEPT !.pc = pc, !.event = event, !.before = before, !.want = want]

LEMMA PatchedMuch ==
  ASSUME NEW v, IsWork(v), NEW pc, NEW event, NEW before, NEW want
  PROVE  Charged(v, pc, event, before, want) = Patch(v, v.action, want, before, v.seen, event, pc)
<1> DEFINE u == [v EXCEPT !.pc = pc, !.event = event]
<1> DEFINE w == [u EXCEPT !.before = before]
<1>1. Charged(v, pc, event, before, want) = [w EXCEPT !.want = want]
  BY DEF Charged
<1>2. u = Patch(v, v.action, v.want, v.before, v.seen, event, pc)
  BY PatchedFiles, Zenon
<1> HIDE DEF u
<1>3. /\ IsWork(u) /\ u.kind = v.kind /\ u.rule = v.rule /\ u.session = v.session /\ u.action = v.action
      /\ u.want = v.want /\ u.before = v.before /\ u.seen = v.seen /\ u.event = event /\ u.pc = pc
  BY <1>2, PatchShape
<1>4. w = Patch(u, u.action, u.want, before, u.seen, u.event, u.pc)
  BY <1>3, PatchedOnce, Zenon
<1> HIDE DEF w
<1>5. /\ IsWork(w) /\ w.kind = v.kind /\ w.rule = v.rule /\ w.session = v.session /\ w.action = v.action
      /\ w.want = v.want /\ w.before = before /\ w.seen = v.seen /\ w.event = event /\ w.pc = pc
  BY <1>3, <1>4, PatchShape
<1>6. [w EXCEPT !.want = want] = Patch(w, w.action, want, w.before, w.seen, w.event, w.pc)
  BY <1>5, PatchedOnce, Zenon
<1> QED
  BY <1>1, <1>5, <1>6 DEF Patch

(* What becomes of an event.                                               *)
LEMMA SentEvent ==
  ASSUME NEW ev \in Events, NEW what \in {"policy", "delete", "stop"}
  PROVE  /\ S!Sent(ev, what) \in Events /\ S!Sent(ev, what).rule = ev.rule /\ S!Sent(ev, what).status = ev.status
         /\ S!Sent(ev, what).sent = ev.sent \cup {what}
         /\ what \notin ev.sent => S!Sent(ev, what).twice = ev.twice
<1> DEFINE t == ev.twice \/ what \in ev.sent
<1> DEFINE s == ev.sent \cup {what}
<1>4. S!Sent(ev, what) = [ev EXCEPT !.twice = t, !.sent = s]
  BY Zenon DEF S!Sent
<1>2. t \in BOOLEAN /\ (what \notin ev.sent => t = ev.twice)
  BY DEF Events
<1>3. s \in SUBSET {"policy", "delete", "stop"} /\ s = ev.sent \cup {what}
  BY DEF Events
<1> HIDE DEF t, s
<1>1. S!Sent(ev, what) =
        [rule |-> ev.rule, action |-> ev.action, session |-> ev.session, status |-> ev.status, at |-> ev.at,
         updated |-> ev.updated, attempts |-> ev.attempts, sent |-> s, twice |-> t]
  BY <1>4 DEF Events
<1> QED
  BY <1>1, <1>2, <1>3 DEF Events

LEMMA ShutEvent ==
  ASSUME NEW ev \in Events, NEW status \in S!Outcomes, NEW t \in Nat
  PROVE  LET x == [ev EXCEPT !.status = status, !.updated = t] IN
         x \in Events /\ x.rule = ev.rule /\ x.sent = ev.sent /\ x.twice = ev.twice /\ x.status = status
BY DEF Events

(* An event may be rewritten while it is pending, or if it is a client's.   *)
Rewritten(e, x) ==
  /\ e \in DOMAIN events /\ x \in Events /\ events' = [events EXCEPT ![e] = x] /\ x.rule = events[e].rule
  /\ events[e].status = "pending" \/ events[e].rule = "client_filter"
  /\ Repeatable(x)
Unposted == UNCHANGED <<notices, batch>>

LEMMA ToldKept ==
  ASSUME NEW e \in DOMAIN events, events'[e].rule = events[e].rule,
         events[e].rule = "client_filter" \/ events[e].status = "pending" \/ events'[e].status = events[e].status,
         NEW status, Told(e, status)
  PROVE  Told(e, status)'
BY DEF Told, Final

LEMMA PostKept ==
  ASSUME Post, Unposted, Len(events') = Len(events), DOMAIN events = DOMAIN notices,
         \A e \in DOMAIN events :
            /\ events'[e].rule = events[e].rule
            /\ events[e].rule = "client_filter" \/ events[e].status = "pending" \/ events'[e].status = events[e].status
  PROVE  Post'
<1>1. \A e \in DOMAIN notices : \A status : Told(e, status) => Told(e, status)'
  BY ToldKept
<1>2. notices' = notices /\ batch' = batch
  BY DEF Unposted
<1>3. \A e \in DOMAIN notices : TrueNotice(e) => TrueNotice(e)'
  BY <1>1, <1>2 DEF TrueNotice
<1>4. \A b \in batch : b.event \in DOMAIN notices
  BY DEF Post
<1> QED
  BY <1>1, <1>2, <1>3, <1>4 DEF Post

LEMMA SameLength == ASSUME Ledgers, Post PROVE DOMAIN events = DOMAIN notices /\ DOMAIN events = 1 .. Len(events)
BY DEF Ledgers, Post

LEMMA EventRewritten ==
  ASSUME Ledgers, Post, Unposted, \A e \in DOMAIN events : Repeatable(events[e]), NEW e, NEW x, Rewritten(e, x)
  PROVE  /\ events' \in Seq(Events) /\ DOMAIN events' = DOMAIN events /\ Post' /\ events'[e] = x
         /\ \A f \in DOMAIN events' : Repeatable(events'[f])
<1>1. events \in Seq(Events)
  BY DEF Ledgers
<1>2. /\ events' \in Seq(Events) /\ DOMAIN events' = DOMAIN events /\ Len(events') = Len(events)
      /\ \A f \in DOMAIN events : events'[f] = IF f = e THEN x ELSE events[f]
  BY <1>1 DEF Rewritten
<1>3. Post'
  BY <1>2, SameLength, PostKept DEF Rewritten
<1> QED
  BY <1>2, <1>3 DEF Rewritten

Untouched == UNCHANGED <<events, notices, batch>>

LEMMA RecordsKept ==
  ASSUME Ledgers, Post, Untouched, \A e \in DOMAIN events : Repeatable(events[e])
  PROVE  Post' /\ \A e \in DOMAIN events' : Repeatable(events'[e])
<1>1. events' = events /\ Unposted
  BY DEF Untouched, Unposted
<1> QED
  BY <1>1, SameLength, PostKept

(* Who comes waits his turn.                                               *)
LEMMA Joined ==
  ASSUME SanctionConstants, Serial, Replays, NEW c \in S!Tasks, NEW job, S!Queue(c, job), UNCHANGED <<holder, events>>,
         IsWork(job), job.pc = "queue", Queued(job)
  PROVE  Serial' /\ (Replays' <=> Replays) /\ (holder # Null => work'[holder] = work[holder])
<1>1. work[c] = Null /\ \A d \in S!Tasks : work'[d] = IF d = c THEN job ELSE work[d]
  BY DEF S!Queue, Serial
<1>2. work' = [d \in S!Tasks |-> work'[d]]
  BY DEF S!Queue, Serial
<1>3. holder # Null => holder # c /\ work'[holder] = work[holder]
  BY <1>1 DEF Serial, SanctionConstants
<1>4. holder # Null => /\ IsWork(work'[holder]) /\ work'[holder].pc # "queue"
                       /\ (Looking(work[holder]) \/ Projecting(work[holder]) \/ Acting(work[holder]))'
  BY <1>3 DEF Serial, Looking, Projecting, Acting
<1>5. \A d \in S!Tasks : d # holder /\ work'[d] # Null => IsWork(work'[d]) /\ work'[d].pc = "queue" /\ Queued(work'[d])
  BY <1>1 DEF Serial
<1>6. Serial'
  BY <1>2, <1>4, <1>5 DEF Serial
<1>7. Replays' <=> Replays
  BY <1>3 DEF Replays, Acting
<1> QED
  BY <1>3, <1>6, <1>7

LEMMA JobIsWork ==
  ASSUME NEW kind, NEW rule, NEW place
  PROVE  LET j == S!Job(kind, rule, place) IN
         IsWork(j) /\ j.kind = kind /\ j.rule = rule /\ j.session = place /\ j.event = 0 /\ j.pc = "queue"
BY DEF S!Job, IsWork

Coming ==
  \E c \in S!Tasks : \E job : S!Queue(c, job) /\ IsWork(job) /\ job.pc = "queue" /\ Queued(job)

LEMMA CallStep ==
  ASSUME SanctionConstants, SanctionInv,
         \/ \E c \in Calls, r \in Rules, s \in Sessions : S!Offend(c, r, s)
         \/ \E c \in Calls, a \in {"disable", "enable"}, id \in Requests : S!Order(c, a, id)
         \/ \E c \in Calls : S!Edit(c)
         \/ S!Reconcile
  PROVE  SanctionInv'
<1>1. Coming
  <2>1. ASSUME NEW c \in Calls, NEW r \in Rules, NEW s \in Sessions, S!Offend(c, r, s) PROVE Coming
    BY <2>1, JobIsWork DEF S!Offend, Queued, S!Tasks, Coming
  <2>2. ASSUME NEW c \in Calls, NEW a \in {"disable", "enable"}, NEW id \in Requests, S!Order(c, a, id) PROVE Coming
    <3> DEFINE job == [S!Job("manual", "manual", id) EXCEPT !.action = a]
    <3>1. S!Queue(c, job)
      BY <2>2 DEF S!Order
    <3>2. PICK j : j = S!Job("manual", "manual", id)
      OBVIOUS
    <3>3. IsWork(j) /\ j.kind = "manual" /\ j.session = id /\ j.event = 0 /\ j.pc = "queue"
      BY <3>2, JobIsWork
    <3>4. job = [j EXCEPT !.action = a]
      BY <3>2
    <3>5. job = Patch(j, a, j.want, j.before, j.seen, j.event, j.pc)
      BY <3>3, <3>4, PatchedOnce, Zenon
    <3> HIDE DEF job
    <3>6. IsWork(job) /\ job.pc = "queue" /\ Queued(job)
      BY <3>3, <3>5, PatchShape DEF Queued
    <3> QED
      BY <3>1, <3>6 DEF S!Tasks, Coming
  <2>3. ASSUME NEW c \in Calls, S!Edit(c) PROVE Coming
    <3>1. S!Queue(c, S!Job("enforce", "none", Null)) /\ c \in S!Tasks
      BY <2>3 DEF S!Edit, S!Tasks
    <3>2. PICK job : job = S!Job("enforce", "none", Null)
      OBVIOUS
    <3>3. IsWork(job) /\ job.pc = "queue" /\ Queued(job)
      BY <3>2, JobIsWork DEF Queued
    <3> QED
      BY <3>1, <3>2, <3>3 DEF Coming
  <2>4. CASE S!Reconcile
    BY <2>4, JobIsWork DEF S!Reconcile, Queued, S!Tasks, Coming
  <2> QED
    BY <2>1, <2>2, <2>3, <2>4
<1>2. /\ Untouched /\ UNCHANGED <<clock, remote, applied, rules, live, holder>>
      /\ \/ UNCHANGED <<row, agreed>>
         \/ agreed' = FALSE /\ \E r \in Rows : row' = [row EXCEPT !.status = r.status, !.lapsed = r.lapsed, !.admin = r.admin]
  BY DEF S!Offend, S!Order, S!Edit, S!Reconcile, S!world, S!mail, Untouched
<1>3. Ledgers'
  <2>1. row' \in Accounts /\ agreed' \in BOOLEAN
    BY <1>2 DEF SanctionInv, Ledgers, Accounts, SanctionConstants
  <2> QED
    BY <1>2, <2>1 DEF SanctionInv, Ledgers, Untouched
<1>4. Serial' /\ Replays' /\ (holder # Null => work'[holder] = work[holder])
  BY <1>1, <1>2, Joined DEF SanctionInv, Untouched, Coming
<1>5. Agrees'
  BY <1>2, <1>4 DEF SanctionInv, Agrees, OnTheWay, Sound, S!Blocked, S!Wanted, S!Prospective
<1>6. Post'
  BY <1>2, RecordsKept DEF SanctionInv, Replays
<1> QED
  BY <1>3, <1>4, <1>5, <1>6 DEF SanctionInv

(* What does not concern the ledgers or the records.                       *)
Aside == Untouched /\ UNCHANGED <<clock, row, remote, applied, rules, live>>

LEMMA AsideKeeps ==
  ASSUME SanctionInv, Aside, agreed' \in BOOLEAN PROVE Ledgers' /\ Post' /\ \A e \in DOMAIN events' : Repeatable(events'[e])
<1>1. Ledgers'
  BY DEF SanctionInv, Ledgers, Aside, Untouched
<1> QED
  BY <1>1, RecordsKept DEF SanctionInv, Aside, Replays

(* Who leaves has the row and Emby as they were.                           *)
LEMMA Resigned ==
  ASSUME SanctionConstants, SanctionInv, NEW c \in S!Tasks, S!Leave(c), Aside, agreed' = agreed,
         holder \in {c, Null}, holder = c => ~OnTheWay(work[c])
  PROVE  SanctionInv'
<1>1. Serial' /\ holder' = Null
  BY Left DEF SanctionInv
<1>2. Agrees'
  BY <1>1 DEF SanctionInv, Agrees, Aside, S!Blocked
<1>3. Replays'
  BY <1>1, AsideKeeps DEF Replays, SanctionInv, Ledgers
<1> QED
  BY <1>1, <1>2, <1>3, AsideKeeps DEF SanctionInv, Ledgers

(* Who goes on to look further.                                            *)
LEMMA LookedOn ==
  ASSUME SanctionConstants, SanctionInv, NEW c \in S!Tasks, holder \in {c, Null}, holder' = c, Aside, agreed' = agreed,
         NEW w, work' = [work EXCEPT ![c] = w], IsWork(w), Looking(w), holder = c => ~OnTheWay(work[c])
  PROVE  SanctionInv'
<1>1. w.pc \notin {"queue", "policy", "post", "recheck", "delete"} /\ w.event = 0
  BY DEF Looking
<1>2. Looking(w)'
  BY DEF Looking
<1>3. Serial' /\ work'[c] = w
  BY <1>1, <1>2, Went DEF SanctionInv
<1>4. Agrees'
  BY <1>1, <1>3 DEF SanctionInv, Agrees, Aside, S!Blocked, OnTheWay, SanctionConstants
<1>5. Replays'
  BY <1>1, <1>3, AsideKeeps DEF SanctionInv, Ledgers, Replays
<1> QED
  BY <1>3, <1>4, <1>5, AsideKeeps DEF SanctionInv, Ledgers

(* Who goes on to project the row.                                         *)
LEMMA Projected ==
  ASSUME SanctionConstants, SanctionInv, NEW c \in S!Tasks, holder = c, holder' = c, Aside, agreed' = TRUE,
         NEW w, work' = [work EXCEPT ![c] = w], IsWork(w), Projecting(w), w.pc = "policy", w.want = S!Blocked(row)
  PROVE  SanctionInv'
<1>1. w.pc # "queue" /\ w.event = 0 /\ w.kind # "manual"
  BY DEF Projecting
<1>2. Projecting(w)'
  BY DEF Projecting
<1>3. Serial' /\ work'[c] = w
  BY <1>1, <1>2, Went DEF SanctionInv
<1>4. Agrees'
  BY <1>1, <1>3 DEF Agrees, Aside, S!Blocked, OnTheWay, Sound, SanctionConstants
<1>5. Replays'
  <2>1. ~Acting(w)'
    BY DEF Acting, Projecting
  <2> QED
    BY <1>3, <2>1, AsideKeeps DEF Replays, Acting
<1> QED
  BY <1>3, <1>4, <1>5, AsideKeeps DEF SanctionInv, Ledgers

LEMMA EnterStep ==
  ASSUME SanctionConstants, SanctionInv, NEW c \in S!Tasks, S!Enter(c) PROVE SanctionInv'
<1>1. /\ holder = Null /\ work[c] # Null /\ IsWork(work[c]) /\ work[c].pc = "queue" /\ Queued(work[c])
      /\ Aside /\ agreed' = agreed /\ c # Null
  BY DEF S!Enter, S!Grant, SanctionInv, Serial, S!world, S!mail, Aside, Untouched, SanctionConstants
<1>2. CASE S!Leave(c)
  BY <1>1, <1>2, Resigned
<1>3. CASE S!Go(c, "user") /\ work[c].kind # "sanction"
  <2>1. PICK w : /\ work' = [work EXCEPT ![c] = w] /\ holder' = c /\ IsWork(w) /\ w.kind = work[c].kind
                 /\ w.session = work[c].session /\ w.action = work[c].action /\ w.event = work[c].event /\ w.pc = "user"
    BY <1>1, <1>3, Stage DEF SanctionInv
  <2>2. Looking(w)
    BY <1>1, <1>3, <2>1 DEF Looking, Queued
  <2> QED
    BY <1>1, <2>1, <2>2, LookedOn
<1>4. CASE /\ work[c].kind = "sanction" /\ rules[work[c].rule] # "off"
           /\ work' = [work EXCEPT ![c].pc = "user", ![c].action = rules[work[c].rule]] /\ holder' = c
  <2>1. PICK v, a : v = work[c] /\ a = rules[v.rule]
    OBVIOUS
  <2>2. work' = [work EXCEPT ![c] = [v EXCEPT !.pc = "user", !.action = a]]
    BY <1>4, <2>1
  <2> DEFINE w == [v EXCEPT !.pc = "user", !.action = a]
  <2>3. v.rule \in Rules /\ v.session \in Sessions /\ v.event = 0 /\ v.kind = "sanction"
    BY <1>1, <1>4, <2>1 DEF Queued
  <2>4. a \in Actions
    BY <1>4, <2>1, <2>3 DEF SanctionInv, Ledgers
  <2>5. w = Patch(v, a, v.want, v.before, v.seen, v.event, "user")
    <3>1. IsWork(v)
      BY <1>1, <2>1
    <3> QED
      BY <3>1, PatchedActs, Zenon
  <2> HIDE DEF w
  <2>6. IsWork(w) /\ Looking(w)
    BY <2>3, <2>4, <2>5, PatchShape DEF Looking
  <2>7. work' = [work EXCEPT ![c] = w] /\ holder' = c
    BY <1>4, <2>2 DEF w
  <2> QED
    BY <1>1, <2>6, <2>7, LookedOn
<1> QED
  BY <1>1, <1>2, <1>3, <1>4 DEF S!Enter, S!At

(* Who looks at Emby's list, the row or the session.                       *)
LEMMA LookStep ==
  ASSUME SanctionConstants, SanctionInv, NEW c \in S!Tasks,
         S!ListFails(c) \/ S!KnowOffender(c) \/ S!Project(c) \/ S!ListAll(c) \/ S!Compare(c)
  PROVE  SanctionInv'
<1>1. work[c] # Null /\ work[c].pc \in {"user", "row"}
  BY DEF S!ListFails, S!KnowOffender, S!Project, S!ListAll, S!Compare, S!At
<1>2. holder = c /\ IsWork(work[c]) /\ Looking(work[c]) /\ ~OnTheWay(work[c])
  BY <1>1, Busy DEF SanctionInv, Looking, Projecting, Acting, OnTheWay
<1>3. Aside
  BY DEF S!ListFails, S!KnowOffender, S!Project, S!ListAll, S!Compare, S!world, S!mail, Aside, Untouched
<1>4. CASE S!Leave(c) /\ agreed' = agreed
  BY <1>2, <1>3, <1>4, Resigned
<1>5. CASE work[c].kind = "sanction" /\ S!Go(c, "confirm") /\ agreed' = agreed
  <2>1. PICK w : /\ work' = [work EXCEPT ![c] = w] /\ holder' = c /\ IsWork(w) /\ w.kind = work[c].kind /\ w.rule = work[c].rule
                 /\ w.session = work[c].session /\ w.action = work[c].action /\ w.event = work[c].event /\ w.pc = "confirm"
    BY <1>2, <1>5, Stage DEF SanctionInv
  <2>2. Looking(w)
    BY <1>2, <1>5, <2>1 DEF Looking
  <2> QED
    BY <1>2, <1>3, <1>5, <2>1, <2>2, LookedOn
<1>6. PICK v : v = work[c]
  OBVIOUS
<1>7. IsWork(v)
  BY <1>2, <1>6
<1>8. CASE /\ work[c].kind = "reconcile" /\ agreed' = agreed /\ UNCHANGED holder
           /\ work' = [work EXCEPT ![c].pc = "row", ![c].seen = remote.disabled]
  <2> DEFINE w == [v EXCEPT !.pc = "row", !.seen = remote.disabled]
  <2>1. work' = [work EXCEPT ![c] = w]
    BY <1>6, <1>8
  <2>2. w = Patch(v, v.action, v.want, v.before, remote.disabled, v.event, "row")
    BY <1>7, PatchedSees, Zenon
  <2> HIDE DEF w
  <2>3. IsWork(w) /\ Looking(w)
    BY <1>2, <1>6, <1>8, <2>2, PatchShape DEF Looking
  <2> QED
    BY <1>2, <1>3, <1>8, <2>1, <2>3, LookedOn
<1>9. CASE /\ work[c].kind \in {"enforce", "reconcile"} /\ agreed' = TRUE /\ UNCHANGED holder
           /\ work' = [work EXCEPT ![c].pc = "policy", ![c].want = S!Blocked(row)]
  <2>1. PICK b : b = S!Blocked(row)
    OBVIOUS
  <2>2. b \in BOOLEAN
    BY <2>1 DEF S!Blocked, SanctionInv, Ledgers, Accounts
  <2> DEFINE w == [v EXCEPT !.pc = "policy", !.want = b]
  <2>3. work' = [work EXCEPT ![c] = w]
    BY <1>6, <1>9, <2>1
  <2>4. w = Patch(v, v.action, b, v.before, v.seen, v.event, "policy")
    BY <1>7, PatchedWants, Zenon
  <2> HIDE DEF w
  <2>5. IsWork(w) /\ Projecting(w) /\ w.pc = "policy" /\ w.want = b
    BY <1>2, <1>6, <1>9, <2>2, <2>4, PatchShape DEF Projecting, Looking
  <2> QED
    BY <1>2, <1>3, <1>9, <2>1, <2>3, <2>5, Projected
<1>10. CASE S!ListFails(c) \/ S!KnowOffender(c)
  BY <1>4, <1>5, <1>10 DEF S!ListFails, S!KnowOffender, S!At
<1>11. CASE S!Project(c) \/ S!ListAll(c) \/ S!Compare(c)
  BY <1>4, <1>8, <1>9, <1>11 DEF S!Project, S!ListAll, S!Compare, S!At
<1> QED
  BY <1>10, <1>11

(* A new record.                                                           *)
LEMMA NewRecord ==
  ASSUME Ledgers, Post, batch' = batch, NEW x \in Events, NEW n \in Notices, Repeatable(x),
         events' = Append(events, x), notices' = Append(notices, n), n.posts = 0, n.state # "sending",
         \A e \in DOMAIN events : Repeatable(events[e])
  PROVE  /\ events' \in Seq(Events) /\ Len(events) + 1 \in DOMAIN events' /\ events'[Len(events) + 1] = x /\ Post'
         /\ \A e \in DOMAIN events' : Repeatable(events'[e])
<1>1. /\ events \in Seq(Events) /\ notices \in Seq(Notices) /\ Len(notices) = Len(events) /\ Len(events) \in Nat
      /\ DOMAIN events = 1 .. Len(events) /\ DOMAIN notices = 1 .. Len(events)
  BY DEF Ledgers, Post
<1>2. /\ events' \in Seq(Events) /\ DOMAIN events' = 1 .. Len(events) + 1 /\ events'[Len(events) + 1] = x
      /\ \A e \in DOMAIN events : events'[e] = events[e]
  BY <1>1
<1>3. /\ notices' \in Seq(Notices) /\ DOMAIN notices' = 1 .. Len(events) + 1 /\ notices'[Len(events) + 1] = n
      /\ \A e \in DOMAIN notices : notices'[e] = notices[e]
  BY <1>1
<1>4. \A e \in DOMAIN notices : \A status : Told(e, status) => Told(e, status)'
  BY <1>1, <1>2 DEF Told, Final
<1>5. \A e \in DOMAIN notices' : TrueNotice(e)'
  <2>0. PICK k : k = Len(events) + 1
    OBVIOUS
  <2>1. \A e \in DOMAIN notices : TrueNotice(e)'
    BY <1>3, <1>4 DEF TrueNotice, Post
  <2>2. TrueNotice(k)'
    BY <1>2, <1>3, <2>0 DEF TrueNotice
  <2> QED
    BY <1>1, <1>3, <2>0, <2>1, <2>2
<1>6. \A b \in batch : b.event \in DOMAIN notices /\ b.event \in DOMAIN notices'
  BY <1>1, <1>3 DEF Post
<1>7. batch' \subseteq [event : DOMAIN notices', tells : S!Outcomes]
  BY <1>6 DEF Post
<1>8. \A b \in batch' : notices'[b.event].state \in {"pending", "retry", "sending"} /\ Told(b.event, b.tells)'
  BY <1>3, <1>4, <1>6 DEF Post
<1>9. Post'
  BY <1>1, <1>2, <1>3, <1>5, <1>7, <1>8 DEF Post
<1> QED
  BY <1>1, <1>2, <1>9

(* What is recorded afresh.                                                *)
Unsent(x, rule, status) == x.rule = rule /\ x.status = status /\ x.sent = {} /\ Repeatable(x)
Afresh(rule, action, place, status) ==
  \E x \in Events : S!Recorded(rule, action, place, status) = Append(events, x) /\ Unsent(x, rule, status)

LEMMA NewEvent ==
  ASSUME Ledgers, NEW rule \in Rules \cup {"manual"}, NEW action \in Verbs, NEW place \in Sessions \cup Requests,
         NEW status \in S!Outcomes
  PROVE  Afresh(rule, action, place, status)
<1> DEFINE x == [rule |-> rule, action |-> action, session |-> place, status |-> status, at |-> clock,
                 updated |-> clock, attempts |-> 1, sent |-> {}, twice |-> FALSE]
<1>1. x \in Events
  BY DEF Events, Ledgers
<1>2. Repeatable(x) /\ x.rule = rule /\ x.status = status /\ x.sent = {}
  BY DEF Repeatable, NotYet
<1>3. S!Recorded(rule, action, place, status) = Append(events, x)
  BY DEF S!Recorded
<1> QED
  BY <1>1, <1>2, <1>3 DEF Afresh, Unsent

LEMMA NewNotice ==
  ASSUME NEW state \in {"none", "pending"}
  PROVE  LET n == [state |-> state, told |-> "none", posts |-> 0] IN n \in Notices /\ n.posts = 0 /\ n.state # "sending"
BY DEF Notices

(* The event that a task has recorded, or takes up again, is its own.      *)
LEMMA TakenUp ==
  ASSUME SanctionConstants, Serial, NEW c \in S!Tasks, holder = c, holder' = c, NEW w, work' = [work EXCEPT ![c] = w],
         IsWork(w), w.pc # "queue", Acting(w)', (events[w.event].sent = {})', \A e \in DOMAIN events' : Repeatable(events'[e])
  PROVE  Serial' /\ Replays' /\ work'[c] = w
<1>1. Serial' /\ work'[c] = w
  BY Went
<1>2. Replays'
  BY <1>1 DEF Replays, NotYet, Acting
<1> QED
  BY <1>1, <1>2

LEMMA WeighStep ==
  ASSUME SanctionConstants, SanctionInv, NEW c \in S!Tasks, S!Weigh(c) PROVE SanctionInv'
<1>1. /\ holder = c /\ IsWork(work[c]) /\ Looking(work[c]) /\ ~OnTheWay(work[c]) /\ work[c].kind = "manual"
      /\ c # Null
  BY Busy DEF S!Weigh, S!At, SanctionInv, Looking, Projecting, Acting, OnTheWay, SanctionConstants
<1>2. /\ UNCHANGED <<clock, row, remote, applied, rules, live, batch>> /\ agreed' = agreed
  BY DEF S!Weigh, S!world
<1>3. PICK v : v = work[c]
  OBVIOUS
<1>4. v.action \in {"disable", "enable"} /\ v.session \in Sessions \cup Requests /\ v.action \in Verbs
  BY <1>1, <1>3 DEF Looking, Verbs
<1>9. IsWork(v)
  BY <1>1, <1>3
<1>10. "manual" \in Rules \cup {"manual"} /\ "done" \in S!Outcomes /\ "pending" \in S!Outcomes /\ Ledgers
  BY DEF S!Outcomes, SanctionInv
<1>5. \A e \in DOMAIN events : Repeatable(events[e])
  BY DEF SanctionInv, Replays
<1>6. CASE S!Leave(c) /\ UNCHANGED <<events, notices>>
  <2>1. Aside
    BY <1>2, <1>6 DEF Aside, Untouched
  <2> QED
    BY <1>1, <1>2, <1>6, <2>1, Resigned
<1>7. CASE /\ events' = S!Recorded("manual", v.action, v.session, "done") /\ S!Leave(c)
           /\ notices' = Append(notices, [state |-> "none", told |-> "none", posts |-> 0])
  <2>1. PICK x \in Events : events' = Append(events, x) /\ Repeatable(x)
    <3>1. Afresh("manual", v.action, v.session, "done")
      BY <1>4, <1>10, NewEvent
    <3> QED
      BY <1>7, <3>1 DEF Afresh, Unsent
  <2>2. /\ events' \in Seq(Events) /\ Post' /\ \A e \in DOMAIN events' : Repeatable(events'[e])
    BY <1>2, <1>5, <1>7, <2>1, NewRecord, NewNotice DEF SanctionInv
  <2>3. Serial' /\ holder' = Null
    BY <1>1, <1>7, Left DEF SanctionInv
  <2>4. Agrees'
    BY <1>1, <1>2, <2>3 DEF SanctionInv, Agrees, S!Blocked
  <2>5. Replays'
    BY <2>2, <2>3 DEF Replays
  <2>6. Ledgers'
    BY <1>2, <2>2 DEF SanctionInv, Ledgers
  <2> QED
    BY <2>2, <2>3, <2>4, <2>5, <2>6 DEF SanctionInv
<1>8. CASE /\ events' = S!Recorded("manual", v.action, v.session, "pending") /\ UNCHANGED holder
           /\ notices' = Append(notices, [state |-> "pending", told |-> "none", posts |-> 0])
           /\ work' = [work EXCEPT ![c].pc = "policy", ![c].event = Len(events) + 1,
                                   ![c].before = row, ![c].want = S!Wanted(row, v.action)]
  <2>1. PICK x \in Events : /\ events' = Append(events, x) /\ Repeatable(x) /\ x.rule = "manual"
                            /\ x.status = "pending" /\ x.sent = {}
    <3>1. Afresh("manual", v.action, v.session, "pending")
      BY <1>4, <1>10, NewEvent
    <3> QED
      BY <1>8, <3>1 DEF Afresh, Unsent
  <2>2. /\ events' \in Seq(Events) /\ Post' /\ \A e \in DOMAIN events' : Repeatable(events'[e])
        /\ Len(events) + 1 \in DOMAIN events' /\ events'[Len(events) + 1] = x
    BY <1>2, <1>5, <1>8, <2>1, NewRecord, NewNotice DEF SanctionInv
  <2>3. PICK n, b, want : n = Len(events) + 1 /\ b = row /\ want = S!Wanted(row, v.action)
    OBVIOUS
  <2>4. want \in BOOLEAN /\ b \in Accounts
    <3>1. row \in Accounts
      BY DEF SanctionInv, Ledgers
    <3>2. S!Wanted(row, v.action) \in BOOLEAN
      BY DEF S!Wanted, S!Blocked
    <3> QED
      BY <2>3, <3>1, <3>2
  <2> DEFINE w == Charged(v, "policy", n, b, want)
  <2>5. work' = [work EXCEPT ![c] = w]
    BY <1>3, <1>8, <2>3 DEF Charged
  <2>6. w = Patch(v, v.action, want, b, v.seen, n, "policy")
    BY <1>9, PatchedMuch
  <2> HIDE DEF w
  <2>7. IsWork(w) /\ w.kind = "manual" /\ w.action = v.action /\ w.want = want /\ w.before = b /\ w.event = n /\ w.pc = "policy"
    BY <1>1, <1>3, <2>6, PatchShape
  <2>8. Acting(w)' /\ (events[w.event].sent = {})'
    BY <1>4, <2>1, <2>2, <2>3, <2>4, <2>7 DEF Acting
  <2>9. Serial' /\ Replays' /\ work'[c] = w
    BY <1>1, <1>8, <2>2, <2>5, <2>7, <2>8, TakenUp DEF SanctionInv
  <2>10. Agrees'
    BY <1>1, <1>2, <1>8, <2>7, <2>9 DEF SanctionInv, Agrees, S!Blocked, OnTheWay
  <2>11. Ledgers'
    BY <1>2, <2>2 DEF SanctionInv, Ledgers
  <2> QED
    BY <2>2, <2>9, <2>10, <2>11 DEF SanctionInv
<1> QED
  BY <1>1, <1>3, <1>6, <1>7, <1>8 DEF S!Weigh

LEMMA RepeatedEvent ==
  ASSUME NEW ev \in Events, ev.rule = "client_filter", ev.sent = {}, Repeatable(ev), NEW t \in Nat
  PROVE  LET x == [ev EXCEPT !.status = "pending", !.updated = t, !.attempts = @ + 1] IN
         x \in Events /\ x.rule = ev.rule /\ x.sent = {} /\ x.status = "pending" /\ Repeatable(x)
<1> DEFINE x == [ev EXCEPT !.status = "pending", !.updated = t, !.attempts = @ + 1]
<1>4. PICK k : k = ev.attempts + 1
  OBVIOUS
<1> DEFINE y == [ev EXCEPT !.status = "pending", !.updated = t]
<1>5. x = [y EXCEPT !.attempts = k]
  BY <1>4
<1>6. y \in Events /\ y.rule = ev.rule /\ y.sent = ev.sent /\ y.twice = ev.twice /\ y.status = "pending"
  BY ShutEvent DEF S!Outcomes
<1> HIDE DEF x, y
<1>7. k \in Nat
  BY <1>4 DEF Events
<1>2. x \in Events /\ x.rule = ev.rule /\ x.sent = {} /\ x.status = "pending" /\ x.twice = ev.twice
  BY <1>5, <1>6, <1>7 DEF Events
<1>3. Repeatable(x)
  BY <1>2 DEF Repeatable, NotYet
<1> QED
  BY <1>2, <1>3 DEF x

(* The second look at a violation: nothing, the repeated stop, or the start. *)
LEMMA ConfirmRepeats ==
  ASSUME SanctionConstants, SanctionInv, NEW c \in S!Tasks, holder = c, IsWork(work[c]), Looking(work[c]),
         UNCHANGED <<clock, remote, applied, rules, live, batch, row, holder, notices, agreed>>,
         ~OnTheWay(work[c]), work[c].kind = "sanction",
         NEW e \in DOMAIN events, events[e].rule = "client_filter", S!MayRepeat(events[e]),
         events' = [events EXCEPT ![e].status = "pending", ![e].updated = clock, ![e].attempts = @ + 1],
         work' = [work EXCEPT ![c].pc = "stop", ![c].event = e]
  PROVE  SanctionInv'
<1>1. PICK v : v = work[c]
  OBVIOUS
<1>2. PICK ev : ev = events[e]
  OBVIOUS
<1> DEFINE x == [ev EXCEPT !.status = "pending", !.updated = clock, !.attempts = @ + 1]
<1> DEFINE w == [v EXCEPT !.pc = "stop", !.event = e]
<1>3. ev \in Events /\ ev.rule = "client_filter" /\ ev.sent = {} /\ Repeatable(ev) /\ clock \in Nat
  BY <1>2 DEF SanctionInv, Ledgers, Replays, Repeatable, S!MayRepeat
<1>4. events' = [events EXCEPT ![e] = x]
  BY <1>2
<1>5. x \in Events /\ x.rule = ev.rule /\ x.sent = {} /\ x.status = "pending" /\ Repeatable(x)
  BY <1>3, RepeatedEvent
<1> HIDE DEF x
<1>6. Rewritten(e, x) /\ Unposted
  BY <1>2, <1>3, <1>4, <1>5 DEF Rewritten, Unposted
<1>7. /\ events' \in Seq(Events) /\ DOMAIN events' = DOMAIN events /\ Post' /\ events'[e] = x
      /\ \A f \in DOMAIN events' : Repeatable(events'[f])
  BY <1>6, EventRewritten DEF SanctionInv, Replays
<1>8. work' = [work EXCEPT ![c] = w]
  BY <1>1
<1>9. w = Patch(v, v.action, v.want, v.before, v.seen, e, "stop")
  <2>1. IsWork(v)
    BY <1>1
  <2> QED
    BY <2>1, PatchedFiles, Zenon
<1> HIDE DEF w
<1>10. IsWork(w) /\ w.kind = "sanction" /\ w.want = v.want /\ w.before = v.before /\ w.event = e /\ w.pc = "stop"
  BY <1>1, <1>9, PatchShape
<1>11. Acting(w)' /\ (events[w.event].sent = {})'
  BY <1>3, <1>5, <1>7, <1>10 DEF Acting
<1>12. Serial' /\ Replays' /\ work'[c] = w
  BY <1>7, <1>8, <1>10, <1>11, TakenUp DEF SanctionInv
<1>13. Agrees'
  BY <1>10, <1>12 DEF SanctionInv, Agrees, S!Blocked, OnTheWay
<1>14. Ledgers'
  BY <1>7 DEF SanctionInv, Ledgers
<1> QED
  BY <1>7, <1>12, <1>13, <1>14 DEF SanctionInv

LEMMA ConfirmOpens ==
  ASSUME SanctionConstants, SanctionInv, NEW c \in S!Tasks, holder = c, IsWork(work[c]), Looking(work[c]),
         UNCHANGED <<clock, remote, applied, rules, live, batch, holder>>,
         ~OnTheWay(work[c]), work[c].kind = "sanction", work[c].pc = "confirm",
         NEW action, action = IF work[c].rule = "client_filter" THEN "pause" ELSE work[c].action,
         events' = S!Recorded(work[c].rule, action, work[c].session, "pending"),
         notices' = Append(notices, [state |-> "pending", told |-> "none", posts |-> 0]),
         work' = [work EXCEPT ![c].pc = S!FirstPc(action), ![c].event = Len(events) + 1,
                              ![c].before = row, ![c].want = TRUE],
         IF action = "disable" /\ row.here
         THEN row' = [row EXCEPT !.status = IF @ = "pending" THEN @ ELSE "suspended"] /\ agreed' = TRUE
         ELSE UNCHANGED <<row, agreed>>
  PROVE  SanctionInv'
<1>1. PICK v, n, b, want, pc : v = work[c] /\ n = Len(events) + 1 /\ b = row /\ want = TRUE /\ pc = S!FirstPc(action)
  OBVIOUS
<1>2. IsWork(v)
  BY <1>1
<1>3. v.rule \in Rules /\ v.session \in Sessions /\ v.action \in Actions /\ v.kind = "sanction"
  BY <1>1 DEF Looking
<1>4. action \in {"pause", "disable", "delete"} /\ (v.rule = "client_filter" => action = "pause")
  BY <1>1, <1>3 DEF SanctionConstants
<1>5. /\ pc \in {"policy", "recheck", "stop"} /\ (pc = "policy" <=> action = "disable")
      /\ (v.rule = "client_filter" => pc = "stop")
  BY <1>1, <1>4 DEF S!FirstPc
<1>6. Afresh(v.rule, action, v.session, "pending")
  BY <1>3, <1>4, NewEvent DEF SanctionInv, Verbs, S!Outcomes
<1>7. PICK x \in Events : /\ events' = Append(events, x) /\ Repeatable(x) /\ x.rule = v.rule
                          /\ x.status = "pending" /\ x.sent = {}
  BY <1>1, <1>6 DEF Afresh, Unsent
<1>8. /\ events' \in Seq(Events) /\ Post' /\ \A e \in DOMAIN events' : Repeatable(events'[e])
      /\ n \in DOMAIN events' /\ events'[n] = x
  BY <1>1, <1>7, NewRecord, NewNotice DEF SanctionInv, Replays
<1> DEFINE w == Charged(v, pc, n, b, want)
<1>9. work' = [work EXCEPT ![c] = w]
  BY <1>1 DEF Charged
<1>10. w = Patch(v, v.action, want, b, v.seen, n, pc)
  BY <1>2, PatchedMuch
<1> HIDE DEF w
<1>11. IsWork(w) /\ w.kind = "sanction" /\ w.want = want /\ w.before = b /\ w.event = n /\ w.pc = pc
  BY <1>3, <1>10, PatchShape
<1>12. b \in Accounts
  BY <1>1 DEF SanctionInv, Ledgers
<1>13. Acting(w)' /\ (events[w.event].sent = {})'
  BY <1>1, <1>5, <1>7, <1>8, <1>11, <1>12 DEF Acting
<1>14. Serial' /\ Replays' /\ work'[c] = w
  BY <1>5, <1>8, <1>9, <1>11, <1>13, TakenUp DEF SanctionInv
<1>15. row' \in Accounts /\ agreed' \in BOOLEAN
  BY DEF SanctionInv, Ledgers, Accounts, S!Statuses
<1>16. Agrees'
  <2>1. CASE pc = "policy"
    <3>1. row.here /\ row'.here => S!Blocked(row)' = TRUE
      BY <1>5, <2>1 DEF SanctionInv, Ledgers, Accounts, S!Blocked
    <3>2. ~row.here => ~row'.here
      OBVIOUS
    <3> QED
      BY <1>1, <1>11, <1>14, <2>1, <3>1, <3>2 DEF Agrees, OnTheWay, Sound, SanctionConstants
  <2>2. CASE pc # "policy"
    BY <1>5, <1>11, <1>14, <2>2 DEF SanctionInv, Agrees, S!Blocked, OnTheWay
  <2> QED
    BY <2>1, <2>2
<1>17. Ledgers'
  BY <1>8, <1>15 DEF SanctionInv, Ledgers
<1> QED
  BY <1>8, <1>14, <1>16, <1>17 DEF SanctionInv

LEMMA SecondLook ==
  ASSUME SanctionConstants, SanctionInv, NEW c \in S!Tasks, S!Confirm(c) PROVE SanctionInv'
<1>1. /\ holder = c /\ IsWork(work[c]) /\ Looking(work[c]) /\ ~OnTheWay(work[c]) /\ work[c].kind = "sanction"
      /\ work[c].pc = "confirm"
  BY Busy DEF S!Confirm, S!At, SanctionInv, Looking, Projecting, Acting, OnTheWay
<1>2. UNCHANGED <<clock, remote, applied, rules, live, batch>>
  BY DEF S!Confirm, S!world
<1>3. CASE S!Leave(c) /\ UNCHANGED <<row, events, notices, agreed>>
  <2>1. Aside
    BY <1>2, <1>3 DEF Aside, Untouched
  <2> QED
    BY <1>1, <1>3, <2>1, Resigned
<1>4. ASSUME NEW e \in S!Newest(S!Prior(work[c].rule, work[c].session)), work[c].rule = "client_filter",
             S!MayRepeat(events[e]), UNCHANGED <<row, holder, notices, agreed>>,
             events' = [events EXCEPT ![e].status = "pending", ![e].updated = clock, ![e].attempts = @ + 1],
             work' = [work EXCEPT ![c].pc = "stop", ![c].event = e]
      PROVE  SanctionInv'
  <2>1. e \in DOMAIN events /\ events[e].rule = "client_filter"
    BY <1>4 DEF S!Newest, S!Prior
  <2> QED
    BY <1>1, <1>2, <1>4, <2>1, ConfirmRepeats
<1>5. PICK action : action = IF work[c].rule = "client_filter" THEN "pause" ELSE work[c].action
  OBVIOUS
<1>6. CASE /\ events' = S!Recorded(work[c].rule, action, work[c].session, "pending")
           /\ notices' = Append(notices, [state |-> "pending", told |-> "none", posts |-> 0])
           /\ work' = [work EXCEPT ![c].pc = S!FirstPc(action), ![c].event = Len(events) + 1,
                                   ![c].before = row, ![c].want = TRUE]
           /\ IF action = "disable" /\ row.here
              THEN row' = [row EXCEPT !.status = IF @ = "pending" THEN @ ELSE "suspended"] /\ agreed' = TRUE
              ELSE UNCHANGED <<row, agreed>>
           /\ UNCHANGED holder
  BY <1>1, <1>2, <1>5, <1>6, ConfirmOpens
<1> QED
  BY <1>3, <1>4, <1>5, <1>6 DEF S!Confirm

ClosedAs(e, y, status) ==
  \E z \in Events : /\ events' = [events EXCEPT ![e] = z] /\ z.rule = y.rule /\ z.status = status
                   /\ z.sent = y.sent /\ z.twice = y.twice

LEMMA ClosedEvent ==
  ASSUME Ledgers, NEW e \in DOMAIN events, NEW y \in Events, NEW evs, evs = [events EXCEPT ![e] = y],
         NEW status \in S!Outcomes, events' = [evs EXCEPT ![e].status = status, ![e].updated = clock]
  PROVE  ClosedAs(e, y, status)
<1> DEFINE z == [y EXCEPT !.status = status, !.updated = clock]
<1>1. z \in Events /\ z.rule = y.rule /\ z.sent = y.sent /\ z.twice = y.twice /\ z.status = status
  <2>1. clock \in Nat
    BY DEF Ledgers
  <2> QED
    BY <2>1, ShutEvent
<1>2. events \in Seq(Events)
  BY DEF Ledgers
<1>3. evs[e] = y
  BY <1>2
<1>4. events' = [evs EXCEPT ![e] = z]
  BY <1>3
<1> HIDE DEF z
<1>5. events' = [events EXCEPT ![e] = z]
  BY <1>2, <1>4
<1> QED
  BY <1>1, <1>5 DEF ClosedAs

(* What a task has tried is put down at its event.                         *)
Noted(c, evs, what) ==
  \E y \in Events : /\ evs = [events EXCEPT ![work[c].event] = y] /\ y.rule = events[work[c].event].rule
                    /\ y.status = "pending" /\ ~y.twice /\ y.sent \subseteq events[work[c].event].sent \cup {what}

LEMMA Tries ==
  ASSUME Ledgers, Replays, NEW c, Acting(work[c]), NEW what \in {"policy", "delete", "stop"},
         NotYet(events[work[c].event], what), NEW evs, evs \in {events, S!Tried(c, what)}
  PROVE  Noted(c, evs, what)
<1>1. PICK e, ev : e = work[c].event /\ ev = events[e]
  OBVIOUS
<1>2. e \in DOMAIN events /\ e # 0 /\ ev \in Events /\ ev.status = "pending" /\ ~ev.twice /\ what \notin ev.sent
  BY <1>1 DEF Acting, Ledgers, Replays, Repeatable, NotYet
<1>3. CASE evs = events
  <2>1. evs = [events EXCEPT ![e] = ev]
    BY <1>1, <1>2, <1>3 DEF Ledgers
  <2> QED
    BY <1>1, <1>2, <2>1 DEF Noted
<1>4. CASE evs = S!Tried(c, what)
  <2> DEFINE y == S!Sent(ev, what)
  <2>1. evs = [events EXCEPT ![e] = y]
    BY <1>1, <1>2, <1>4 DEF S!Tried
  <2>2. y \in Events /\ y.rule = ev.rule /\ y.status = ev.status /\ y.sent = ev.sent \cup {what} /\ y.twice = ev.twice
    BY <1>2, SentEvent
  <2> HIDE DEF y
  <2> QED
    BY <1>1, <1>2, <2>1, <2>2 DEF Noted
<1> QED
  BY <1>3, <1>4

(* A task that closes its event.                                           *)
LEMMA ClosedStep ==
  ASSUME SanctionConstants, SanctionInv, NEW c \in S!Tasks, holder = c, Acting(work[c]), Unposted, NEW what, NEW evs,
         Noted(c, evs, what), NEW status \in S!Outcomes \ {"pending"}, S!Closed(c, evs, status),
         \/ what = "policy" /\ work[c].pc # "stop"
         \/ what = "delete" /\ work[c].pc # "stop"
         \/ status # "failed"
         \/ evs = events
  PROVE  /\ Serial' /\ holder' = Null /\ Replays' /\ Post' /\ events' \in Seq(Events)
<1>1. PICK e : e = work[c].event
  OBVIOUS
<1>2. e \in DOMAIN events /\ events[e].status = "pending" /\ events[e] \in Events /\ Repeatable(events[e])
  BY <1>1 DEF SanctionInv, Acting, Ledgers, Replays
<1>3. PICK y \in Events : /\ evs = [events EXCEPT ![e] = y] /\ y.rule = events[e].rule
                          /\ y.status = "pending" /\ ~y.twice /\ y.sent \subseteq events[e].sent \cup {what}
  BY <1>1 DEF Noted
<1>4. events' = [evs EXCEPT ![e].status = status, ![e].updated = clock] /\ S!Leave(c)
  BY <1>1 DEF S!Closed
<1>5. PICK x \in Events : /\ events' = [events EXCEPT ![e] = x] /\ x.rule = y.rule /\ x.status = status
                          /\ x.sent = y.sent /\ x.twice = y.twice
  <2>1. evs = [events EXCEPT ![e] = y] /\ events' = [evs EXCEPT ![e].status = status, ![e].updated = clock]
    BY <1>3, <1>4
  <2>2. Ledgers /\ e \in DOMAIN events /\ status \in S!Outcomes
    BY <1>2 DEF SanctionInv
  <2>3. ClosedAs(e, y, status)
    BY <2>1, <2>2, ClosedEvent
  <2> QED
    BY <2>3 DEF ClosedAs
<1>6. x.rule = "client_filter" /\ x.status = "failed" => x.sent = {}
  <2>1. x.rule = "client_filter" => work[c].pc = "stop" /\ events[e].sent = {}
    BY <1>1, <1>2, <1>3, <1>5 DEF Acting, Repeatable
  <2>2. evs = events => y = events[e]
    BY <1>2, <1>3 DEF SanctionInv, Ledgers
  <2> QED
    BY <1>5, <2>1, <2>2
<1>7. Repeatable(x)
  BY <1>3, <1>5, <1>6 DEF Repeatable
<1>8. Rewritten(e, x)
  BY <1>2, <1>3, <1>5, <1>7 DEF Rewritten
<1>9. /\ events' \in Seq(Events) /\ Post' /\ \A f \in DOMAIN events' : Repeatable(events'[f])
  BY <1>8, EventRewritten DEF SanctionInv, Replays
<1>10. Serial' /\ holder' = Null
  BY <1>4, Left DEF SanctionInv
<1>11. Replays'
  BY <1>9, <1>10 DEF Replays
<1> QED
  BY <1>9, <1>10, <1>11

(* A task that goes on to act for its event.                               *)
LEMMA ActsOn ==
  ASSUME SanctionConstants, SanctionInv, NEW c \in S!Tasks, holder = c, IsWork(work[c]), Acting(work[c]), Unposted,
         NEW what \in {"policy", "delete"}, NEW evs, Noted(c, evs, what), events' = evs, work[c].pc # "stop",
         NEW pc, S!Go(c, pc),
         \/ work[c].kind = "sanction" /\ pc = "stop"
         \/ work[c].kind = "manual" /\ pc = "verify"
  PROVE  /\ Serial' /\ holder' = c /\ work'[c].pc = pc /\ Replays' /\ Post' /\ events' \in Seq(Events)
<1>1. PICK e : e = work[c].event
  OBVIOUS
<1>2. /\ e \in DOMAIN events /\ events[e].status = "pending" /\ events[e] \in Events /\ Repeatable(events[e])
      /\ events[e].rule # "client_filter" /\ "stop" \notin events[e].sent
  BY <1>1 DEF SanctionInv, Acting, Ledgers, Replays, Repeatable, NotYet
<1>3. PICK y \in Events : /\ events' = [events EXCEPT ![e] = y] /\ y.rule = events[e].rule
                          /\ y.status = "pending" /\ ~y.twice /\ y.sent \subseteq events[e].sent \cup {what}
  BY <1>1 DEF Noted
<1>4. Rewritten(e, y)
  BY <1>2, <1>3 DEF Rewritten, Repeatable, NotYet
<1>5. /\ events' \in Seq(Events) /\ DOMAIN events' = DOMAIN events /\ Post' /\ events'[e] = y
      /\ \A f \in DOMAIN events' : Repeatable(events'[f])
  BY <1>4, EventRewritten DEF SanctionInv, Replays
<1>6. PICK w : /\ work' = [work EXCEPT ![c] = w] /\ holder' = c /\ IsWork(w) /\ w.kind = work[c].kind
               /\ w.action = work[c].action /\ w.want = work[c].want /\ w.before = work[c].before
               /\ w.event = work[c].event /\ w.pc = pc
  BY Stage DEF SanctionInv
<1>7. Acting(w)'
  BY <1>1, <1>2, <1>3, <1>5, <1>6 DEF Acting
<1>8. Serial' /\ work'[c] = w
  BY <1>6, <1>7, Went DEF SanctionInv
<1>9. Replays'
  BY <1>5, <1>6, <1>8 DEF Replays
<1> QED
  BY <1>5, <1>6, <1>8, <1>9

(* The row as an operator's order leaves it, whose projection was from b,  *)
(* is what the order projected.                                            *)
Ordered(r, b, action) ==
  IF S!Prospective(b, action) # b THEN [r EXCEPT !.status = S!Prospective(b, action).status] ELSE r

LEMMA OrderedRow ==
  ASSUME NEW r \in Accounts, NEW b \in Accounts, NEW action \in {"disable", "enable"}, r.here, b.here, r.status = b.status
  PROVE  S!Blocked(Ordered(r, b, action)) = S!Wanted(r, action)
<1>1. CASE action = "disable" /\ b.status # "pending" /\ b.status # "suspended"
  <2>1. S!Prospective(b, action) = [b EXCEPT !.status = "suspended"] /\ S!Wanted(r, action) = TRUE
    BY <1>1 DEF S!Prospective, S!Wanted
  <2>2. S!Prospective(b, action).status = "suspended" /\ S!Prospective(b, action) # b
    BY <1>1, <2>1 DEF Accounts
  <2> QED
    BY <2>1, <2>2 DEF Accounts, S!Blocked, S!Statuses, Ordered
<1>2. CASE action = "disable" /\ b.status \in {"pending", "suspended"}
  <2>1. S!Prospective(b, action) = b /\ S!Wanted(r, action) = TRUE
    BY <1>2 DEF S!Prospective, S!Wanted, Accounts
  <2> QED
    BY <1>2, <2>1 DEF Accounts, S!Blocked, Ordered
<1>3. action = "enable" => S!Wanted(r, action) = S!Blocked(S!Prospective(r, action))
  <2>1. S!Blocked(S!Prospective(r, action)) \in BOOLEAN
    BY DEF S!Blocked
  <2> QED
    BY <2>1 DEF S!Wanted
<1>4. CASE action = "enable" /\ b.status = "suspended"
  <2>1. S!Prospective(b, action) = [b EXCEPT !.status = "active"] /\ S!Prospective(r, action) = [r EXCEPT !.status = "active"]
    BY <1>4 DEF S!Prospective
  <2>2. S!Prospective(b, action).status = "active" /\ S!Prospective(b, action) # b
    BY <1>4, <2>1 DEF Accounts
  <2> QED
    BY <1>3, <1>4, <2>1, <2>2 DEF Accounts, S!Blocked, S!Statuses, Ordered
<1>5. CASE action = "enable" /\ b.status # "suspended"
  <2>1. S!Prospective(b, action) = b /\ S!Prospective(r, action) = r
    BY <1>5 DEF S!Prospective
  <2> QED
    BY <1>3, <1>5, <2>1 DEF Ordered
<1> QED
  BY <1>1, <1>2, <1>4, <1>5 DEF Accounts, S!Statuses

(* How a task takes the answer to its policy.                              *)
Results == {"applied", "admin", "failed", "unknown"}
LEMMA TookStep ==
  ASSUME SanctionConstants, SanctionInv, NEW c \in S!Tasks, holder = c, IsWork(work[c]),
         Projecting(work[c]) \/ Acting(work[c]), work[c].pc \in {"policy", "post"},
         UNCHANGED <<clock, rules, live>>, Unposted, remote' \in [here : BOOLEAN, disabled : BOOLEAN, admin : BOOLEAN],
         NEW result \in Results, NEW evs, evs \in {events, S!Tried(c, "policy")}, S!Took(c, result, evs),
         result = "applied" /\ agreed /\ row.here /\ remote'.here => remote'.disabled = work[c].want /\ Sound(work[c])
  PROVE  SanctionInv'
<1>1. PICK v : v = work[c]
  OBVIOUS
<1>2. agreed' = (agreed /\ result = "applied") /\ agreed \in BOOLEAN /\ agreed' \in BOOLEAN
  BY DEF S!Took, SanctionInv, Ledgers
<1>3. CASE Projecting(v)
  <2>1. v.kind \in {"enforce", "reconcile"} /\ v.event = 0 /\ v.want \in BOOLEAN
    BY <1>3 DEF Projecting
  <2>2. /\ applied' = (IF result = "applied" THEN v.want ELSE applied) /\ S!Leave(c) /\ UNCHANGED <<row, events>>
    BY <1>1, <2>1 DEF S!Took
  <2>3. applied' \in BOOLEAN
    BY <2>1, <2>2 DEF SanctionInv, Ledgers
  <2>4. Serial' /\ holder' = Null
    BY <2>2, Left DEF SanctionInv
  <2>5. Agrees'
    BY <1>1, <1>2, <2>1, <2>2, <2>4 DEF Agrees, Sound, S!Blocked
  <2>6. Post' /\ \A e \in DOMAIN events' : Repeatable(events'[e])
    BY <2>2, RecordsKept DEF SanctionInv, Replays, Untouched, Unposted
  <2>7. Replays'
    BY <2>4, <2>6 DEF Replays
  <2>8. Ledgers'
    BY <1>2, <2>2, <2>3 DEF SanctionInv, Ledgers
  <2> QED
    BY <2>4, <2>5, <2>6, <2>7, <2>8 DEF SanctionInv
<1>4. CASE Acting(v)
  <2>0. Acting(work[c]) /\ v.pc # "stop" /\ v.before \in Accounts /\ v.want \in BOOLEAN /\ row \in Accounts /\ c # Null
    BY <1>1, <1>4 DEF Acting, SanctionInv, Ledgers, SanctionConstants
  <2>1. NotYet(events[v.event], "policy")
    BY <1>1, <2>0 DEF SanctionInv, Replays, SanctionConstants
  <2>2. Noted(c, evs, "policy")
    BY <1>1, <2>0, <2>1, Tries DEF SanctionInv
  <2>3. CASE v.kind = "sanction"
    <3>1. /\ row' = (IF result = "admin" /\ row.here /\ v.before.here THEN [row EXCEPT !.status = v.before.status] ELSE row)
          /\ applied' = applied
          /\ result = "applied" => events' = evs /\ S!Go(c, "stop")
          /\ result # "applied" => S!Closed(c, evs, IF result = "admin" THEN "failed" ELSE result)
      BY <1>1, <2>3 DEF S!Took
    <3>2. row' \in Accounts
      BY <2>0, <3>1 DEF Accounts
    <3>3. CASE result = "applied"
      <4>1. Serial' /\ holder' = c /\ work'[c].pc = "stop" /\ Replays' /\ Post' /\ events' \in Seq(Events)
        BY <1>1, <2>0, <2>2, <2>3, <3>1, <3>3, ActsOn
      <4>2. Agrees'
        BY <1>1, <1>2, <2>0, <2>3, <3>1, <3>3, <4>1 DEF Agrees, Sound, OnTheWay, S!Blocked
      <4>3. Ledgers'
        BY <1>2, <3>1, <3>2, <4>1 DEF SanctionInv, Ledgers
      <4> QED
        BY <4>1, <4>2, <4>3 DEF SanctionInv
    <3>4. CASE result # "applied"
      <4>1. PICK status : status = IF result = "admin" THEN "failed" ELSE result
        OBVIOUS
      <4>2. status \in S!Outcomes \ {"pending"} /\ S!Closed(c, evs, status)
        BY <3>1, <3>4, <4>1 DEF S!Outcomes, Results
      <4>3. Serial' /\ Replays' /\ Post' /\ events' \in Seq(Events)
        BY <1>1, <2>0, <2>2, <4>2, ClosedStep
      <4>4. Agrees'
        BY <1>2, <3>4 DEF Agrees
      <4>5. Ledgers'
        BY <1>2, <3>1, <3>2, <4>3 DEF SanctionInv, Ledgers
      <4> QED
        BY <4>3, <4>4, <4>5 DEF SanctionInv
    <3> QED
      BY <3>3, <3>4
  <2>4. CASE v.kind = "manual"
    <3>1. /\ row' = (IF result = "applied" /\ row.here /\ S!Prospective(v.before, v.action) # v.before
                     THEN [row EXCEPT !.status = S!Prospective(v.before, v.action).status] ELSE row)
          /\ applied' = applied
          /\ result = "applied" => events' = evs /\ S!Go(c, "verify")
          /\ result # "applied" => S!Closed(c, evs, IF result = "admin" THEN "failed" ELSE result)
      BY <1>1, <2>4 DEF S!Took
    <3>2. row' \in Accounts
      <4>1. S!Prospective(v.before, v.action).status \in S!Statuses
        BY <2>0 DEF Accounts, S!Prospective, S!Statuses
      <4> QED
        BY <2>0, <3>1, <4>1 DEF Accounts
    <3>3. CASE result = "applied"
      <4>1. Serial' /\ holder' = c /\ work'[c].pc = "verify" /\ Replays' /\ Post' /\ events' \in Seq(Events)
        BY <1>1, <2>0, <2>2, <2>4, <3>1, <3>3, ActsOn
      <4>2. Agrees'
        <5> SUFFICES ASSUME agreed', row'.here, remote'.here PROVE remote'.disabled = S!Blocked(row')
          BY <2>0, <4>1 DEF Agrees, OnTheWay, S!Blocked
        <5>1. row.here /\ agreed
          BY <1>2, <2>0, <3>1 DEF Accounts
        <5>2. remote'.disabled = v.want /\ v.before.here /\ row.status = v.before.status /\ S!Wanted(row, v.action) = v.want
          BY <1>1, <2>4, <3>3, <5>1 DEF Sound
        <5>3. v.action \in {"disable", "enable"}
          BY <1>4, <2>4 DEF Acting
        <5>4. PICK r, b : r = row /\ b = v.before
          OBVIOUS
        <5>5. S!Blocked(row') = S!Wanted(r, v.action)
          <6>1. row' = Ordered(r, b, v.action)
            BY <3>1, <3>3, <5>1, <5>4 DEF Ordered
          <6>2. r \in Accounts /\ b \in Accounts /\ r.here /\ b.here /\ r.status = b.status
            BY <2>0, <5>1, <5>2, <5>4
          <6> QED
            BY <5>3, <6>1, <6>2, OrderedRow
        <5> QED
          BY <5>2, <5>4, <5>5
      <4>3. Ledgers'
        BY <1>2, <3>1, <3>2, <4>1 DEF SanctionInv, Ledgers
      <4> QED
        BY <4>1, <4>2, <4>3 DEF SanctionInv
    <3>4. CASE result # "applied"
      <4>1. PICK status : status = IF result = "admin" THEN "failed" ELSE result
        OBVIOUS
      <4>2. status \in S!Outcomes \ {"pending"} /\ S!Closed(c, evs, status)
        BY <3>1, <3>4, <4>1 DEF S!Outcomes, Results
      <4>3. Serial' /\ Replays' /\ Post' /\ events' \in Seq(Events)
        BY <1>1, <2>0, <2>2, <4>2, ClosedStep
      <4>4. Agrees'
        BY <1>2, <3>4 DEF Agrees
      <4>5. Ledgers'
        BY <1>2, <3>1, <3>2, <4>3 DEF SanctionInv, Ledgers
      <4> QED
        BY <4>3, <4>4, <4>5 DEF SanctionInv
    <3> QED
      BY <3>3, <3>4
  <2> QED
    BY <1>4, <2>0, <2>3, <2>4 DEF Acting
<1> QED
  BY <1>1, <1>3, <1>4

Remotes == [here : BOOLEAN, disabled : BOOLEAN, admin : BOOLEAN]

LEMMA GetStep ==
  ASSUME SanctionConstants, SanctionInv, NEW c \in S!Tasks, S!GetPolicy(c) PROVE SanctionInv'
<1>1. /\ holder = c /\ IsWork(work[c]) /\ (Projecting(work[c]) \/ Acting(work[c])) /\ work[c].pc = "policy" /\ c # Null
      /\ S!GetPolicy(c)
  BY Busy DEF S!GetPolicy, S!At, SanctionInv, Looking, SanctionConstants
<1>2. UNCHANGED <<clock, rules, live, remote>> /\ Unposted /\ remote' \in Remotes
  BY DEF S!GetPolicy, S!world, S!mail, Unposted, SanctionInv, Ledgers, Remotes
<1>3. CASE \E result \in {"admin", "failed", "unknown"} : S!Took(c, result, events)
  <2>1. PICK result \in {"admin", "failed", "unknown"} : S!Took(c, result, events)
    BY <1>3
  <2> QED
    BY <1>1, <1>2, <2>1, TookStep DEF Results, Remotes
<1>4. CASE S!Took(c, "applied", events) /\ remote.disabled = work[c].want /\ (work[c].kind = "manual" => S!StillWanted(c))
  <2>1. agreed /\ row.here /\ remote.here => Sound(work[c])
    BY <1>1, <1>4 DEF SanctionInv, Agrees, OnTheWay, Sound, S!StillWanted
  <2> QED
    BY <1>1, <1>2, <1>4, <2>1, TookStep DEF Results, Remotes
<1>5. CASE /\ S!Go(c, "post") /\ agreed' = (agreed \/ work[c].kind = "manual") /\ UNCHANGED <<row, applied, events>>
           /\ (work[c].kind = "manual" => S!StillWanted(c))
  <2>1. PICK w : /\ work' = [work EXCEPT ![c] = w] /\ holder' = c /\ IsWork(w) /\ w.kind = work[c].kind
                 /\ w.action = work[c].action /\ w.want = work[c].want /\ w.before = work[c].before
                 /\ w.event = work[c].event /\ w.pc = "post"
    BY <1>1, <1>5, Stage DEF SanctionInv
  <2>2. (Projecting(w) \/ Acting(w))'
    BY <1>1, <1>5, <2>1 DEF Projecting, Acting
  <2>3. Serial' /\ work'[c] = w
    BY <1>1, <2>1, <2>2, Went DEF SanctionInv
  <2>4. Post' /\ \A e \in DOMAIN events' : Repeatable(events'[e])
    BY <1>2, <1>5, RecordsKept DEF SanctionInv, Replays, Unposted, Untouched
  <2>5. Replays'
    <3>1. Acting(w)' => Acting(work[c])
      BY <1>1, <1>5, <2>1 DEF Acting, Projecting
    <3> QED
      BY <1>1, <1>5, <2>1, <2>3, <2>4, <3>1 DEF SanctionInv, Replays
  <2>6. Agrees'
    <3>1. agreed' /\ row.here /\ remote.here => Sound(work[c])
      BY <1>1, <1>5 DEF SanctionInv, Agrees, OnTheWay, Sound, S!StillWanted
    <3>2. Sound(work[c]) => Sound(w)'
      BY <1>5, <2>1 DEF Sound, S!Wanted, S!Blocked, S!Prospective
    <3> QED
      BY <1>1, <1>2, <1>5, <2>1, <2>3, <3>1, <3>2 DEF Agrees, OnTheWay, Sound
  <2>7. Ledgers'
    BY <1>2, <1>5 DEF SanctionInv, Ledgers
  <2> QED
    BY <2>3, <2>4, <2>5, <2>6, <2>7 DEF SanctionInv
<1> QED
  BY <1>1, <1>3, <1>4, <1>5 DEF S!GetPolicy

LEMMA PostStep ==
  ASSUME SanctionConstants, SanctionInv, NEW c \in S!Tasks, S!PostPolicy(c) PROVE SanctionInv'
<1>1. /\ holder = c /\ IsWork(work[c]) /\ (Projecting(work[c]) \/ Acting(work[c])) /\ work[c].pc = "post" /\ c # Null
      /\ work[c].want \in BOOLEAN /\ remote \in Remotes
  BY Busy DEF S!PostPolicy, S!At, SanctionInv, Ledgers, Looking, Projecting, Acting, SanctionConstants, Remotes
<1>2. UNCHANGED <<clock, rules, live>> /\ Unposted
  BY DEF S!PostPolicy, S!world, S!mail, Unposted
<1>3. PICK written, want : want = work[c].want /\ written = [remote EXCEPT !.disabled = want, !.admin = FALSE]
  OBVIOUS
<1>4. written \in Remotes /\ written.disabled = want
  BY <1>1, <1>3 DEF Remotes
<1>5. CASE remote' = written /\ S!Took(c, "applied", S!Tried(c, "policy"))
  <2>1. agreed /\ row.here /\ remote.here => Sound(work[c])
    BY <1>1 DEF SanctionInv, Agrees, OnTheWay
  <2>2. written.here = remote.here
    BY <1>1, <1>3 DEF Remotes
  <2> QED
    BY <1>1, <1>2, <1>3, <1>4, <1>5, <2>1, <2>2, TookStep DEF Results, Remotes
<1>6. CASE remote' \in {remote, written} /\ \E result \in {"failed", "unknown"} :
              S!Took(c, result, events) \/ S!Took(c, result, S!Tried(c, "policy"))
  <2>1. PICK result \in {"failed", "unknown"}, evs \in {events, S!Tried(c, "policy")} : S!Took(c, result, evs)
    BY <1>6
  <2> QED
    BY <1>1, <1>2, <1>4, <1>6, <2>1, TookStep DEF Results, Remotes
<1> QED
  BY <1>3, <1>5, <1>6 DEF S!PostPolicy

LEMMA NotesNothing ==
  ASSUME Ledgers, Replays, NEW c, Acting(work[c]), NEW what PROVE Noted(c, events, what)
<1>1. PICK e, ev : e = work[c].event /\ ev = events[e]
  OBVIOUS
<1>2. e \in DOMAIN events /\ ev \in Events /\ ev.status = "pending" /\ ~ev.twice
  BY <1>1 DEF Acting, Ledgers, Replays, Repeatable
<1>3. events = [events EXCEPT ![e] = ev]
  BY <1>1, <1>2 DEF Ledgers
<1> QED
  BY <1>1, <1>2, <1>3 DEF Noted

(* A task ends with the row and Emby as they stood, or without the account. *)
LEMMA EndsStep ==
  ASSUME SanctionConstants, SanctionInv, NEW c \in S!Tasks, holder = c, Acting(work[c]), ~OnTheWay(work[c]), Unposted,
         UNCHANGED <<clock, row, applied, rules, agreed>>, live' \subseteq Sessions, remote' \in Remotes,
         remote' = remote \/ ~remote'.here,
         NEW what \in {"delete", "stop", "none"}, NEW evs, Noted(c, evs, what), NEW status \in S!Outcomes \ {"pending"},
         S!Closed(c, evs, status), (what = "delete" /\ work[c].pc # "stop") \/ status # "failed" \/ evs = events
  PROVE  SanctionInv'
<1>1. Serial' /\ holder' = Null /\ Replays' /\ Post' /\ events' \in Seq(Events)
  BY ClosedStep
<1>2. Agrees'
  BY <1>1 DEF SanctionInv, Agrees, S!Blocked
<1>3. Ledgers'
  BY <1>1 DEF SanctionInv, Ledgers, Remotes
<1> QED
  BY <1>1, <1>2, <1>3 DEF SanctionInv

LEMMA RecheckStep ==
  ASSUME SanctionConstants, SanctionInv, NEW c \in S!Tasks, S!Recheck(c) PROVE SanctionInv'
<1>1. /\ holder = c /\ IsWork(work[c]) /\ Acting(work[c]) /\ work[c].pc = "recheck" /\ ~OnTheWay(work[c]) /\ c # Null
      /\ work[c].kind = "sanction"
  BY Busy DEF S!Recheck, S!At, SanctionInv, Looking, Projecting, OnTheWay, SanctionConstants
<1>2. UNCHANGED <<clock, rules, live, row, remote, applied, agreed>> /\ Unposted /\ remote' \in Remotes /\ live \subseteq Sessions
  BY DEF S!Recheck, S!world, S!mail, Unposted, SanctionInv, Ledgers, Remotes
<1>3. CASE \E status \in {"unknown", "failed"} : S!Closed(c, events, status)
  <2>1. PICK status \in {"unknown", "failed"} : S!Closed(c, events, status)
    BY <1>3
  <2>2. status \in S!Outcomes \ {"pending"} /\ Noted(c, events, "none")
    BY <1>1, NotesNothing DEF S!Outcomes, SanctionInv
  <2> QED
    BY <1>1, <1>2, <2>1, <2>2, EndsStep
<1>4. CASE S!Go(c, "delete") /\ UNCHANGED events
  <2>1. PICK w : /\ work' = [work EXCEPT ![c] = w] /\ holder' = c /\ IsWork(w) /\ w.kind = work[c].kind
                 /\ w.want = work[c].want /\ w.before = work[c].before
                 /\ w.event = work[c].event /\ w.pc = "delete"
    BY <1>1, <1>4, Stage DEF SanctionInv
  <2>2. Acting(w)'
    BY <1>1, <1>4, <2>1 DEF Acting
  <2>3. Serial' /\ work'[c] = w
    BY <1>1, <2>1, <2>2, Went DEF SanctionInv
  <2>4. Post' /\ \A e \in DOMAIN events' : Repeatable(events'[e])
    BY <1>2, <1>4, RecordsKept DEF SanctionInv, Replays, Unposted, Untouched
  <2>5. Replays'
    BY <1>1, <1>4, <2>1, <2>3, <2>4 DEF SanctionInv, Replays
  <2>6. Agrees'
    BY <1>1, <1>2, <1>4, <2>1, <2>3 DEF SanctionInv, Agrees, OnTheWay, S!Blocked
  <2>7. Ledgers'
    BY <1>2, <1>4 DEF SanctionInv, Ledgers
  <2> QED
    BY <2>3, <2>4, <2>5, <2>6, <2>7 DEF SanctionInv
<1> QED
  BY <1>3, <1>4 DEF S!Recheck

LEMMA DeleteStep ==
  ASSUME SanctionConstants, SanctionInv, NEW c \in S!Tasks, S!Delete(c) PROVE SanctionInv'
<1>1. /\ holder = c /\ IsWork(work[c]) /\ Acting(work[c]) /\ work[c].pc = "delete" /\ ~OnTheWay(work[c]) /\ c # Null
      /\ work[c].kind = "sanction"
  BY Busy DEF S!Delete, S!At, SanctionInv, Looking, Projecting, OnTheWay, SanctionConstants
<1>2. UNCHANGED <<clock, rules, live, applied, agreed>> /\ Unposted /\ remote \in Remotes /\ live \subseteq Sessions
  BY DEF S!Delete, S!world, S!mail, Unposted, SanctionInv, Ledgers, Remotes
<1>3. PICK gone : gone = [remote EXCEPT !.here = FALSE]
  OBVIOUS
<1>4. gone \in Remotes /\ ~gone.here
  BY <1>2, <1>3 DEF Remotes
<1>5. NotYet(events[work[c].event], "delete")
  BY <1>1 DEF SanctionInv, Replays
<1>6. Noted(c, S!Tried(c, "delete"), "delete") /\ Noted(c, events, "delete")
  BY <1>1, <1>5, Tries DEF SanctionInv
<1>7. CASE remote' = gone /\ row' = [row EXCEPT !.here = FALSE] /\ events' = S!Tried(c, "delete") /\ S!Go(c, "stop")
  <2>1. /\ Serial' /\ holder' = c /\ work'[c].pc = "stop" /\ Replays' /\ Post' /\ events' \in Seq(Events)
    BY <1>1, <1>2, <1>6, <1>7, ActsOn
  <2>2. row' \in Accounts
    BY <1>7 DEF SanctionInv, Ledgers, Accounts
  <2>3. Agrees'
    BY <1>4, <1>7 DEF Agrees
  <2>4. Ledgers'
    BY <1>2, <1>4, <1>7, <2>1, <2>2 DEF SanctionInv, Ledgers, Remotes
  <2> QED
    BY <2>1, <2>3, <2>4 DEF SanctionInv
<1>8. CASE remote' \in {remote, gone} /\ row' = row
           /\ (S!Closed(c, events, "failed") \/ S!Closed(c, S!Tried(c, "delete"), "unknown"))
  <2>1. PICK status \in {"failed", "unknown"}, evs \in {events, S!Tried(c, "delete")} : S!Closed(c, evs, status)
    BY <1>8
  <2>2. status \in S!Outcomes \ {"pending"} /\ Noted(c, evs, "delete")
    BY <1>6 DEF S!Outcomes
  <2> QED
    BY <1>1, <1>2, <1>4, <1>8, <2>1, <2>2, EndsStep
<1> QED
  BY <1>3, <1>7, <1>8 DEF S!Delete

LEMMA StopStep ==
  ASSUME SanctionConstants, SanctionInv, NEW c \in S!Tasks, S!Stop(c) PROVE SanctionInv'
<1>1. /\ holder = c /\ IsWork(work[c]) /\ Acting(work[c]) /\ work[c].pc = "stop" /\ ~OnTheWay(work[c])
  BY Busy DEF S!Stop, S!At, SanctionInv, Looking, Projecting, OnTheWay
<1>2. /\ UNCHANGED <<clock, rules, row, remote, applied, agreed>> /\ Unposted /\ remote' \in Remotes
      /\ live' \subseteq Sessions
  BY DEF S!Stop, S!mail, Unposted, SanctionInv, Ledgers, Remotes
<1>3. NotYet(events[work[c].event], "stop")
  BY <1>1 DEF SanctionInv, Replays, Repeatable, Acting
<1>4. Noted(c, S!Tried(c, "stop"), "stop") /\ Noted(c, events, "stop")
  BY <1>1, <1>3, Tries DEF SanctionInv
<1>5. \E status \in {"done", "failed", "unknown"}, evs \in {events, S!Tried(c, "stop")} :
         S!Closed(c, evs, status) /\ (status # "failed" \/ evs = events)
  BY DEF S!Stop
<1>6. PICK status \in {"done", "failed", "unknown"}, evs \in {events, S!Tried(c, "stop")} :
         S!Closed(c, evs, status) /\ (status # "failed" \/ evs = events)
  BY <1>5
<1>7. status \in S!Outcomes \ {"pending"} /\ Noted(c, evs, "stop")
  BY <1>4 DEF S!Outcomes
<1> QED
  BY <1>1, <1>2, <1>6, <1>7, EndsStep

LEMMA VerifyStep ==
  ASSUME SanctionConstants, SanctionInv, NEW c \in S!Tasks, S!Verify(c) PROVE SanctionInv'
<1>1. /\ holder = c /\ IsWork(work[c]) /\ Acting(work[c]) /\ work[c].pc = "verify" /\ ~OnTheWay(work[c])
  BY Busy DEF S!Verify, S!At, SanctionInv, Looking, Projecting, OnTheWay
<1>2. /\ UNCHANGED <<clock, rules, live, row, remote, applied, agreed>> /\ Unposted /\ remote' \in Remotes
      /\ live' \subseteq Sessions
  BY DEF S!Verify, S!world, S!mail, Unposted, SanctionInv, Ledgers, Remotes
<1>3. PICK status \in {"done", "unknown"} : S!Closed(c, events, status)
  BY DEF S!Verify
<1>4. status \in S!Outcomes \ {"pending"} /\ Noted(c, events, "none")
  BY <1>1, NotesNothing DEF S!Outcomes, SanctionInv
<1> QED
  BY <1>1, <1>2, <1>3, <1>4, EndsStep

(* Nothing but the notices moves.                                          *)
LEMMA OnlyPosted ==
  ASSUME SanctionInv, UNCHANGED <<clock, row, remote, applied, rules, live, events, holder, work, agreed>>, Post'
  PROVE  SanctionInv'
<1>1. Ledgers' /\ Agrees' /\ Replays' /\ Serial'
  BY DEF SanctionInv, Ledgers, Agrees, Replays, Serial, Acting, OnTheWay, Sound, S!Blocked, S!Wanted, S!Prospective,
     Looking, Projecting
<1> QED
  BY <1>1 DEF SanctionInv

LEMMA ToldSame == ASSUME UNCHANGED events, NEW e, NEW status PROVE Told(e, status)' <=> Told(e, status)
BY DEF Told, Final

LEMMA DeliverStep ==
  ASSUME SanctionConstants, SanctionInv, S!Deliver PROVE SanctionInv'
<1>1. UNCHANGED <<clock, row, remote, applied, rules, live, events, holder, work, agreed>>
  BY DEF S!Deliver, S!Fetch, S!Take, S!Answered, S!world
<1>2. /\ notices \in Seq(Notices) /\ Len(notices) = Len(events) /\ DOMAIN events = DOMAIN notices /\ Post /\ Ledgers
      /\ \A e \in DOMAIN notices : notices[e] \in Notices /\ TrueNotice(e)
      /\ \A e, status : Told(e, status)' <=> Told(e, status)
  BY <1>1, SameLength, ToldSame DEF SanctionInv, Post
<1>3. CASE S!Fetch
  <2>1. notices' = notices /\ batch' = {[event |-> e, tells |-> events[e].status] : e \in {e \in DOMAIN events : S!Due(e)}}
    BY <1>3 DEF S!Fetch
  <2>2. \A e \in DOMAIN notices : TrueNotice(e)'
    BY <1>2, <2>1 DEF TrueNotice
  <2>3. \A e \in DOMAIN events : events[e].status \in S!Outcomes
    <3>1. \A e \in DOMAIN events : events[e] \in Events
      BY <1>2 DEF Ledgers
    <3> QED
      BY <3>1 DEF Events
  <2>4. ASSUME NEW b \in batch'
        PROVE  /\ b \in [event : DOMAIN notices, tells : S!Outcomes]
               /\ notices[b.event].state \in {"pending", "retry", "sending"} /\ Told(b.event, b.tells)
               /\ b = [event |-> b.event, tells |-> events[b.event].status]
    <3>1. PICK e \in DOMAIN events : S!Due(e) /\ b = [event |-> e, tells |-> events[e].status]
      BY <2>1
    <3>2. b.event = e /\ b.tells = events[e].status
      BY <3>1
    <3>3. Told(e, events[e].status)
      BY <3>1 DEF S!Due, Told, Final
    <3>4. notices[e].state \in {"pending", "retry"}
      BY <3>1 DEF S!Due
    <3> QED
      BY <1>2, <2>3, <3>1, <3>2, <3>3, <3>4
  <2>5. \A b, d \in batch' : b.event = d.event => b = d
    BY <2>4
  <2>6. Post'
    BY <1>1, <1>2, <2>1, <2>2, <2>4, <2>5 DEF Post
  <2> QED
    BY <1>1, <2>6, OnlyPosted
<1>4. ASSUME NEW b \in batch, S!Take(b) PROVE SanctionInv'
  <2>1. PICK e : e = b.event
    OBVIOUS
  <2>2. /\ e \in DOMAIN notices /\ b.tells \in S!Outcomes /\ Told(e, b.tells)
        /\ notices[e].state \in {"pending", "retry", "sending"}
    BY <1>2, <2>1 DEF Post
  <2>3. notices' = [notices EXCEPT ![e].state = "sending", ![e].told = b.tells] /\ batch' = batch
    BY <1>4, <2>1 DEF S!Take
  <2>4. notices' = [notices EXCEPT ![e] = [notices[e] EXCEPT !.state = "sending", !.told = b.tells]]
    BY <2>3
  <2>5. PICK n : n = [notices[e] EXCEPT !.state = "sending", !.told = b.tells]
    OBVIOUS
  <2>6. /\ n \in Notices /\ n.state = "sending" /\ n.told = b.tells /\ n.posts = notices[e].posts
        /\ ErrorsRefuse => n.posts = 0
    BY <1>2, <2>2, <2>5 DEF Notices, TrueNotice
  <2>7. /\ notices' \in Seq(Notices) /\ DOMAIN notices' = DOMAIN notices /\ Len(notices') = Len(notices)
        /\ \A f \in DOMAIN notices : notices'[f] = IF f = e THEN n ELSE notices[f]
    BY <1>2, <2>2, <2>4, <2>5, <2>6
  <2>8. \A f \in DOMAIN notices' : TrueNotice(f)'
    BY <1>2, <2>2, <2>6, <2>7 DEF TrueNotice
  <2>9. \A d \in batch : notices'[d.event].state \in {"pending", "retry", "sending"} /\ Told(d.event, d.tells)'
    BY <1>2, <2>6, <2>7 DEF Post
  <2>10. Post'
    BY <1>1, <1>2, <2>3, <2>7, <2>8, <2>9 DEF Post
  <2> QED
    BY <1>1, <2>10, OnlyPosted
<1>5. ASSUME NEW b \in batch, S!Answered(b) PROVE SanctionInv'
  <2>1. PICK e : e = b.event
    OBVIOUS
  <2>2. /\ e \in DOMAIN notices /\ notices[e].state = "sending" /\ Told(e, notices[e].told)
        /\ ErrorsRefuse => notices[e].posts = 0
    BY <1>2, <1>5, <2>1 DEF Post, S!Answered, TrueNotice
  <2>3. PICK state \in {"sent", "retry", "failed", "unknown"}, posted \in {0, 1} :
           /\ ErrorsRefuse /\ state = "retry" => posted = 0
           /\ notices' = [notices EXCEPT ![e].state = state, ![e].posts = @ + posted]
    BY <1>5, <2>1 DEF S!Answered
  <2>4. batch' = batch \ {b}
    BY <1>5 DEF S!Answered
  <2>5. PICK k : k = notices[e].posts + posted
    OBVIOUS
  <2>6. notices' = [notices EXCEPT ![e] = [notices[e] EXCEPT !.state = state, !.posts = k]]
    BY <2>3, <2>5
  <2>7. PICK n : n = [notices[e] EXCEPT !.state = state, !.posts = k]
    OBVIOUS
  <2>8. n \in Notices /\ n.state = state /\ n.told = notices[e].told /\ (ErrorsRefuse => n.posts = posted)
    <3>1. (ErrorsRefuse => k = posted) /\ k \in Nat /\ notices[e] \in Notices
      <4>1. notices[e] \in Notices
        BY <1>2, <2>2
      <4>2. notices[e].posts \in Nat
        BY <4>1 DEF Notices
      <4> QED
        BY <2>2, <2>5, <4>1, <4>2
    <3> QED
      BY <2>7, <3>1 DEF Notices
  <2>9. /\ notices' \in Seq(Notices) /\ DOMAIN notices' = DOMAIN notices /\ Len(notices') = Len(notices)
        /\ \A f \in DOMAIN notices : notices'[f] = IF f = e THEN n ELSE notices[f]
    BY <1>2, <2>2, <2>6, <2>7, <2>8
  <2>10. \A f \in DOMAIN notices' : TrueNotice(f)'
    BY <1>2, <2>2, <2>3, <2>8, <2>9 DEF TrueNotice
  <2>11. \A d \in batch' : d.event # e /\ d \in batch
    BY <1>2, <2>1, <2>4 DEF Post
  <2>12. \A d \in batch' : notices'[d.event].state \in {"pending", "retry", "sending"} /\ Told(d.event, d.tells)'
    BY <1>2, <2>9, <2>11 DEF Post
  <2>13. Post'
    BY <1>1, <1>2, <2>4, <2>9, <2>10, <2>12 DEF Post
  <2> QED
    BY <1>1, <2>13, OnlyPosted
<1> QED
  BY <1>3, <1>4, <1>5 DEF S!Deliver

LEMMA OutsideWorld ==
  ASSUME SanctionConstants, SanctionInv, S!Environment PROVE SanctionInv'
<1>1. UNCHANGED <<applied, events, notices, batch, holder, work>>
  BY DEF S!Environment, S!mail
<1>2. Serial' /\ Replays'
  BY <1>1 DEF SanctionInv, Serial, Replays, Acting, Looking, Projecting
<1>3. Post'
  BY <1>1, RecordsKept DEF SanctionInv, Replays, Untouched
<1>4. clock' \in Nat /\ live' \subseteq Sessions
  <2>1. live \subseteq Sessions /\ clock \in Nat
    BY DEF SanctionInv, Ledgers
  <2>2. clock' \in {clock, clock + 1}
    BY DEF S!Environment
  <2>3. \A s \in Sessions : (IF s \in live THEN live \ {s} ELSE live \cup {s}) \subseteq Sessions
    BY <2>1
  <2>4. live' = live \/ \E s \in Sessions : live' = (IF s \in live THEN live \ {s} ELSE live \cup {s})
    BY DEF S!Environment
  <2> QED
    BY <2>1, <2>2, <2>3, <2>4
<1>5. row' \in Accounts /\ agreed' \in BOOLEAN
  BY DEF S!Environment, SanctionInv, Ledgers, Accounts
<1>6. remote' \in Remotes
  BY DEF S!Environment, SanctionInv, Ledgers, Remotes
<1>7. rules' \in [Rules -> Actions \cup {"off"}]
  BY DEF S!Environment, SanctionInv, Ledgers
<1>8. Ledgers'
  BY <1>1, <1>4, <1>5, <1>6, <1>7 DEF SanctionInv, Ledgers, Remotes
<1>9. agreed' = FALSE \/ UNCHANGED <<row, remote, agreed>>
  BY DEF S!Environment
<1>10. Agrees'
  BY <1>1, <1>9 DEF SanctionInv, Agrees, OnTheWay, Sound, S!Blocked, S!Wanted, S!Prospective
<1> QED
  BY <1>2, <1>3, <1>8, <1>10 DEF SanctionInv

(* What a crash makes of the records.                                      *)
Survives(e, y) ==
  /\ y \in Events /\ y.rule = events[e].rule /\ y.status = events[e].status /\ ~y.twice
  /\ y.status # "pending" => y.sent = events[e].sent

LEMMA TriedAtCrash ==
  ASSUME SanctionConstants, SanctionInv, NEW tried,
         tried = IF S!UnderWay = "none" THEN events ELSE S!Tried(holder, S!UnderWay)
  PROVE  DOMAIN tried = DOMAIN events /\ \A e \in DOMAIN events : Survives(e, tried[e])
<1>0. events \in Seq(Events) /\ \A e \in DOMAIN events : events[e] \in Events /\ Repeatable(events[e])
  BY DEF SanctionInv, Ledgers, Replays
<1>1. CASE tried = events
  BY <1>0, <1>1 DEF Survives, Repeatable
<1>2. CASE tried # events
  <2>1. holder # Null /\ work[holder].pc \in {"post", "delete", "stop"} /\ tried = S!Tried(holder, S!UnderWay)
    BY <1>2 DEF S!UnderWay
  <2>2. Acting(work[holder])
    BY <1>2, <2>1 DEF SanctionInv, Serial, Looking, Projecting, S!Tried
  <2>3. \/ S!UnderWay = "policy" /\ work[holder].pc = "post"
        \/ S!UnderWay \in {"delete", "stop"} /\ work[holder].pc = S!UnderWay
    BY <2>1 DEF S!UnderWay
  <2>4. S!UnderWay \in {"policy", "delete", "stop"} /\ NotYet(events[work[holder].event], S!UnderWay)
    BY <2>1, <2>2, <2>3 DEF SanctionInv, Replays, Repeatable, Acting
  <2>5. Noted(holder, tried, S!UnderWay)
    BY <2>1, <2>2, <2>4, Tries DEF SanctionInv
  <2>6. PICK y \in Events : /\ tried = [events EXCEPT ![work[holder].event] = y] /\ y.rule = events[work[holder].event].rule
                            /\ y.status = "pending" /\ ~y.twice
    BY <2>5 DEF Noted
  <2>7. work[holder].event \in DOMAIN events /\ events[work[holder].event].status = "pending"
    BY <2>2 DEF Acting
  <2> QED
    BY <1>0, <2>6, <2>7 DEF Survives, Repeatable
<1> QED
  BY <1>1, <1>2

LEMMA InterruptedEvent ==
  ASSUME NEW ev \in Events
  PROVE  /\ S!Interrupted(ev) \in Events /\ S!Interrupted(ev).rule = ev.rule /\ S!Interrupted(ev).twice = ev.twice
         /\ S!Interrupted(ev).sent = ev.sent
         /\ S!Interrupted(ev).status = IF ev.status = "pending" THEN "unknown" ELSE ev.status
BY DEF S!Interrupted, Events, S!Outcomes

LEMMA CrashStep ==
  ASSUME SanctionConstants, SanctionInv, S!Crash PROVE SanctionInv'
<1>1. UNCHANGED <<clock, row, applied, rules, live>> /\ agreed' = FALSE /\ holder' = Null /\ batch' = {}
      /\ work' = [c \in S!Tasks |-> Null]
  BY DEF S!Crash, S!world
<1>2. PICK tried : tried = IF S!UnderWay = "none" THEN events ELSE S!Tried(holder, S!UnderWay)
  OBVIOUS
<1>3. DOMAIN tried = DOMAIN events /\ \A e \in DOMAIN events : Survives(e, tried[e])
  BY <1>2, TriedAtCrash
<1>4. events' = [e \in DOMAIN events |-> S!Interrupted(tried[e])]
  BY <1>2 DEF S!Crash
<1>5. /\ events \in Seq(Events) /\ notices \in Seq(Notices) /\ Len(notices) = Len(events) /\ Len(events) \in Nat
      /\ DOMAIN events = 1 .. Len(events) /\ DOMAIN notices = 1 .. Len(events) /\ Post
      /\ \A e \in DOMAIN events : Repeatable(events[e]) /\ TrueNotice(e) /\ notices[e] \in Notices
  BY DEF SanctionInv, Ledgers, Post, Replays
<1>6. ASSUME NEW e \in DOMAIN events
      PROVE  /\ events'[e] \in Events /\ Repeatable(events'[e]) /\ events'[e].rule = events[e].rule
             /\ events[e].status = "pending" \/ events'[e].status = events[e].status
             /\ events'[e].status # "pending"
  <2>1. PICK y : y = tried[e]
    OBVIOUS
  <2>2. Survives(e, y) /\ events'[e] = S!Interrupted(y)
    BY <1>3, <1>4, <2>1
  <2>3. /\ events'[e] \in Events /\ events'[e].rule = y.rule /\ ~events'[e].twice /\ events'[e].sent = y.sent
        /\ events'[e].status = IF y.status = "pending" THEN "unknown" ELSE y.status
    BY <2>2, InterruptedEvent DEF Survives
  <2>4. events'[e].rule = "client_filter" /\ events'[e].status = "failed" => events'[e].sent = {}
    BY <1>5, <2>2, <2>3 DEF Survives, Repeatable
  <2> QED
    BY <2>2, <2>3, <2>4 DEF Survives, Repeatable
<1>7. DOMAIN events' = 1 .. Len(events) /\ events' \in Seq(Events) /\ Len(events') = Len(events)
  BY <1>4, <1>5, <1>6
<1>8. PICK p \in {0, 1} : notices' = [e \in DOMAIN notices |->
         IF notices[e].state = "sending" THEN [notices[e] EXCEPT !.state = "unknown", !.posts = @ + p] ELSE notices[e]]
  BY DEF S!Crash
<1>9. ASSUME NEW e \in DOMAIN notices PROVE notices'[e] \in Notices /\ TrueNotice(e)'
  <2>1. \A status : Told(e, status) => Told(e, status)'
    BY <1>5, <1>6 DEF Told, Final
  <2>2. PICK n : n = notices[e]
    OBVIOUS
  <2>3. n \in Notices /\ n.posts \in Nat /\ (ErrorsRefuse => n.posts \in {0, 1} /\ (n.state = "sending" => n.posts = 0))
    <3>1. n \in Notices
      BY <1>5, <2>2
    <3> QED
      BY <1>5, <2>2, <3>1 DEF TrueNotice, Notices
  <2>4. CASE n.state = "sending"
    <3>1. PICK k : k = n.posts + p
      OBVIOUS
    <3>2. notices'[e] = [n EXCEPT !.state = "unknown", !.posts = k]
      BY <1>8, <2>2, <2>4, <3>1
    <3>3. (ErrorsRefuse => k \in {0, 1}) /\ k \in Nat
      BY <2>3, <2>4, <3>1
    <3>4. notices'[e] \in Notices /\ notices'[e].state = "unknown" /\ notices'[e].told = n.told /\ notices'[e].posts = k
      BY <2>3, <3>2, <3>3 DEF Notices
    <3> QED
      BY <1>5, <2>1, <2>2, <2>4, <3>3, <3>4 DEF TrueNotice
  <2>5. CASE n.state # "sending"
    BY <1>5, <1>8, <2>1, <2>2, <2>3, <2>5 DEF TrueNotice
  <2> QED
    BY <2>4, <2>5
<1>10. notices' \in Seq(Notices) /\ DOMAIN notices' = DOMAIN notices /\ Len(notices') = Len(events)
  <2>1. DOMAIN notices' = 1 .. Len(events)
    BY <1>5, <1>8
  <2>2. notices' = [e \in 1 .. Len(events) |-> notices'[e]]
    BY <1>5, <1>8
  <2>3. \A e \in 1 .. Len(events) : notices'[e] \in Notices
    BY <1>5, <1>9
  <2>4. notices' \in [1 .. Len(events) -> Notices]
    BY <2>2, <2>3
  <2> QED
    BY <1>5, <2>1, <2>4
<1>11. Post'
  BY <1>1, <1>7, <1>9, <1>10 DEF Post
<1>12. Serial'
  BY <1>1 DEF Serial
<1>13. Replays'
  BY <1>1, <1>5, <1>6, <1>7 DEF Replays
<1>14. remote' \in Remotes
  <2>1. holder # Null /\ work[holder].pc = "post" => work[holder].want \in BOOLEAN
    BY DEF SanctionInv, Serial, Looking, Projecting, Acting
  <2>2. remote \in Remotes
    BY DEF SanctionInv, Ledgers, Remotes
  <2>3. PICK want : want = work[holder].want
    OBVIOUS
  <2>4. [remote EXCEPT !.here = FALSE] \in Remotes /\ (want \in BOOLEAN => [remote EXCEPT !.disabled = want, !.admin = FALSE] \in Remotes)
    BY <2>2 DEF Remotes
  <2>5. \/ remote' = remote \/ remote' = [remote EXCEPT !.here = FALSE]
        \/ S!UnderWay = "policy" /\ remote' = [remote EXCEPT !.disabled = want, !.admin = FALSE]
    BY <2>3 DEF S!Crash
  <2>6. S!UnderWay = "policy" => holder # Null /\ work[holder].pc = "post"
    BY DEF S!UnderWay
  <2> QED
    BY <2>1, <2>2, <2>3, <2>4, <2>5, <2>6
<1>15. Agrees' /\ Ledgers'
  BY <1>1, <1>7, <1>14 DEF SanctionInv, Agrees, Ledgers, Remotes
<1> QED
  BY <1>11, <1>12, <1>13, <1>15 DEF SanctionInv

(* No stop, block or deletion that Emby may have accepted is sent twice for *)
(* an event; when nobody is at work, Emby blocks whom the row blocks unless *)
(* something has happened since the row was projected; and, provided that a *)
(* 5xx answer means that nothing was posted (a notice is sent again after   *)
(* one), each notice goes out at most once and says what came of its event  *)
(* (restrictions.py and enforcement.py): for any callers, rules, sessions,  *)
(* edits and faults.                                                        *)
THEOREM SanctionsInOrder ==
  ASSUME SanctionConstants
  PROVE  S!Spec => [](/\ S!SanctionTypes /\ S!NoBlindReplay /\ S!AsLastProjected
                      /\ ErrorsRefuse => S!NoticesTrue)
<1>1. S!Init => SanctionInv
  BY SanctionInit
<1>2. SanctionInv /\ [S!Next]_(S!vars) => SanctionInv'
  <2> SUFFICES ASSUME SanctionInv, [S!Next]_(S!vars) PROVE SanctionInv'
    OBVIOUS
  <2>1. CASE UNCHANGED S!vars
    <3>1. Untouched /\ UNCHANGED <<clock, row, remote, applied, rules, live, holder, work, agreed>>
      BY <2>1 DEF S!vars, Untouched
    <3>2. Post'
      BY <3>1, RecordsKept DEF SanctionInv, Replays
    <3> QED
      BY <3>1, <3>2, OnlyPosted DEF Untouched
  <2>2. ASSUME NEW c \in S!Tasks, S!Step(c) PROVE SanctionInv'
    BY <2>2, EnterStep, LookStep, SecondLook, WeighStep, GetStep, PostStep, RecheckStep, DeleteStep, StopStep, VerifyStep
       DEF S!Step
  <2>3. CASE S!Next
    BY <2>2, <2>3, CallStep, DeliverStep, OutsideWorld, CrashStep DEF S!Next
  <2> QED
    BY <2>1, <2>3
<1>3. SanctionInv => /\ S!SanctionTypes /\ S!NoBlindReplay /\ S!AsLastProjected
                     /\ ErrorsRefuse => S!NoticesTrue
  <2> SUFFICES ASSUME SanctionInv
               PROVE  /\ S!SanctionTypes /\ S!NoBlindReplay /\ S!AsLastProjected
                      /\ ErrorsRefuse => S!NoticesTrue
    OBVIOUS
  <2>1. S!NoBlindReplay
    BY DEF SanctionInv, Replays, Repeatable, S!NoBlindReplay
  <2>2. S!AsLastProjected
    BY DEF SanctionInv, Agrees, S!AsLastProjected
  <2>3. ErrorsRefuse => S!NoticesTrue
    BY SameLength DEF SanctionInv, Post, TrueNotice, Told, S!NoticesTrue
  <2>4. \A e \in DOMAIN events : events[e].status \in S!Outcomes
    <3>1. \A e \in DOMAIN events : events[e] \in Events
      BY DEF SanctionInv, Ledgers
    <3> QED
      BY <3>1 DEF Events
  <2>5. \A c \in S!Tasks : work[c] = Null \/ work[c].pc = "queue" \/ holder = c
    BY DEF SanctionInv, Serial
  <2>6. S!SanctionTypes
    BY <2>4, <2>5 DEF SanctionInv, Ledgers, Serial, Post, Accounts, S!SanctionTypes
  <2> QED
    BY <2>1, <2>2, <2>3, <2>6
<1>4. QED
  BY <1>1, <1>2, <1>3, PTL DEF S!Spec

(*-------------------------------------------------------------------------*)
(* What is counted of the plays that were admitted: the Viewing of          *)
(* MCStreamAdmission.                                                      *)
SeenFields(o) == o = [pos |-> o.pos, at |-> o.at, play |-> o.play, floor |-> o.floor, recent |-> o.recent,
                      bad |-> o.bad]
StateFields(v) ==
  v = [key |-> v.key, play |-> v.play, item |-> v.item, seen |-> v.seen, source |-> v.source,
       received |-> v.received, signature |-> v.signature, stopped |-> v.stopped, end |-> v.end,
       started |-> v.started, lastTs |-> v.lastTs, seconds |-> v.seconds]

SamplingConstants ==
  /\ Viewing!SamplingBounds /\ Null \notin Nat \cup Items \cup Plays /\ ~StateFields(Null) /\ ~SeenFields(Null)
  /\ Null \notin [here : BOOLEAN, play : Plays \cup {Null}, pos : Nat, paused : BOOLEAN, at : Nat]
  /\ Null \notin [issued : Nat, closed : BOOLEAN]

Observation(o) ==
  /\ SeenFields(o) /\ o.pos \in Nat /\ o.at \in Nat /\ o.at <= clock /\ o.play \in Plays \cup {Null}
  /\ o.floor \in Nat /\ o.floor <= clock /\ o.bad \in BOOLEAN
Content(v) ==
  /\ StateFields(v) /\ v.play \in Plays \cup {Null} /\ v.item \in Items \cup {Null}
  /\ v.seen # Null => Observation(v.seen) /\ (v.seen.play # Null => v.play = v.seen.play)
  /\ v.source \in {"poll", "progress", "none"} /\ v.received \in Nat /\ v.stopped \in BOOLEAN
  /\ v.end \in Nat /\ v.end <= clock /\ v.started \in Nat /\ v.lastTs \in Nat \cup {Null} /\ v.seconds \in Nat
State(v) == Content(v) /\ v.key \in 1..keys

Lists == [here : BOOLEAN, play : Plays \cup {Null}, pos : Nat, paused : BOOLEAN, at : Nat]
Messages == [kind : {"started", "progress", "stopped"}, play : Plays, pos : Nat, paused : BOOLEAN,
             sentAt : Nat, at : Nat \cup {Null}]
Samples == [key : Nat, from : Nat, to : Nat, since : Nat, up : Nat, ended : BOOLEAN]

Watched ==
  /\ clock \in Nat \ {0} /\ clock <= MaxTime /\ downAt \in 1..clock
  /\ player \in [play : Plays \cup {Null}, pos : Nat, on : BOOLEAN]
  /\ player.play = Null => player.pos = 0 /\ ~player.on
  /\ item \in [Plays -> Items] /\ session \in Lists /\ session.at <= clock
  /\ poll # Null => poll \in Lists /\ poll.at <= clock
  /\ reports \subseteq Messages
  /\ \A r \in reports : r.sentAt <= clock /\ (r.at # Null => r.sentAt <= r.at /\ r.at <= clock)
  /\ bound \in [Plays -> [issued : Nat, closed : BOOLEAN] \cup {Null}]
  /\ ended \in [Plays -> BOOLEAN] /\ strange \in BOOLEAN /\ shownAt \subseteq 1..(clock - 1)
  /\ keys \in Nat /\ samples \subseteq Samples /\ finished \in Seq([key : Nat, seconds : Nat])
  /\ viewing # Null => State(viewing)
  /\ checkpoint # Null => State(checkpoint)

(* What is remembered of a session is not before anything credited.         *)
Fronts ==
  /\ \A s \in samples : s.from < s.to /\ s.to <= clock /\ s.up <= s.from
  /\ \A s, t \in samples : s = t \/ s.to <= t.from \/ t.to <= s.from
  /\ viewing # Null /\ viewing.seen # Null =>
       /\ downAt <= viewing.seen.floor
       /\ \A s \in samples : s.to <= viewing.seen.floor \/ s.to <= viewing.end

(* A play that has ended is closed until it starts again.                   *)
Endings ==
  /\ \A p \in Plays : ended[p] => Viewing!Closed(p)
  /\ \A s \in samples : ~s.ended

(* The time of a play is in one place at a time, and is what was credited.  *)
Books ==
  /\ \A s \in samples : s.key \in 1..keys
  /\ \A i \in DOMAIN finished :
       /\ finished[i].key \in 1..keys /\ finished[i].seconds = Viewing!Credited(finished[i].key)
       /\ viewing # Null => finished[i].key # viewing.key
       /\ \A j \in DOMAIN finished : finished[i].key = finished[j].key => i = j
  /\ viewing # Null => viewing.seconds = Viewing!Credited(viewing.key)
  /\ checkpoint # Null => /\ viewing # Null /\ checkpoint.key = viewing.key
                          /\ checkpoint.seconds = viewing.seconds

(* What was observed is how far the title had come: from then on it has     *)
(* advanced by a tick in each tick in which it was shown, or less.          *)
Reached(at, pos) ==
  \/ \E r \in reports : r.sentAt = at /\ r.pos = pos
  \/ session.play # Null /\ session.at = at /\ session.pos = pos
  \/ poll # Null /\ poll.play # Null /\ poll.at = at /\ poll.pos = pos
  \/ viewing # Null /\ viewing.seen # Null /\ ~viewing.seen.bad /\ viewing.seen.at = at /\ viewing.seen.pos = pos
Showings(from, to) == {t \in shownAt : from <= t /\ t < to}
Observed ==
  /\ \A r \in reports : r.at # Null => r.at = r.sentAt
  /\ \A a, x \in Nat : Reached(a, x) => a <= clock /\ player.pos <= x + Cardinality(Showings(a, clock))
  /\ \A a, x, b, y \in Nat : Reached(a, x) /\ Reached(b, y) /\ a < b => y <= x + Cardinality(Showings(a, b))
Played == Rated => \A s \in samples : s.to - s.from <= Cardinality(Showings(s.since, s.to))

ViewingInv == Watched /\ Fronts /\ Endings /\ Books /\ (~strange => Observed /\ Played)

(* What lies between two observations is not before the earlier one's       *)
(* anchor and ends with the later one.                                      *)
Between(iv, b, o) ==
  /\ iv = [from |-> iv.from, to |-> o.at] /\ iv.from \in Nat /\ b.floor <= iv.from /\ iv.from < o.at

LEMMA SinceBetween ==
  ASSUME NEW b, NEW o, NEW length \in Int, Observation(b), Observation(o),
         Viewing!Since(b, o, length) # Viewing!NoTime
  PROVE  Between(Viewing!Since(b, o, length), b, o) /\ o.at - Viewing!Since(b, o, length).from <= length
<1>1. b.floor \in Nat /\ o.at \in Nat
  BY DEF Observation
<1> DEFINE from == Viewing!Larger(b.floor, o.at - length)
<1>2. from \in Nat /\ b.floor <= from /\ o.at - from <= length
  BY <1>1 DEF Viewing!Larger
<1>3. Viewing!Since(b, o, length) = [from |-> from, to |-> o.at] /\ o.at > from
  BY DEF Viewing!Since
<1> QED
  BY <1>1, <1>2, <1>3 DEF Between

(* An interval is credited between two good observations of a play only,    *)
(* and with a rate for no more than the title advanced.                     *)
Earned(iv, b, o) ==
  /\ Between(iv, b, o) /\ ~b.bad /\ ~o.bad /\ b.play = o.play /\ b.at < o.at
  /\ Rated => o.at - iv.from <= o.pos - b.pos

LEMMA IntervalEarned ==
  ASSUME SamplingConstants, NEW b, NEW o, NEW gap, NEW source, Observation(o),
         b # Null => Observation(b), Viewing!Interval(b, o, gap, source) # Viewing!NoTime
  PROVE  b # Null /\ Earned(Viewing!Interval(b, o, gap, source), b, o)
<1> DEFINE iv == Viewing!Interval(b, o, gap, source)
<1>1. Viewing!Continuous(b, o, gap)
  BY DEF Viewing!Interval, Viewing!verified_watch_interval
<1>2. b # Null /\ ~b.bad /\ ~o.bad /\ b.play = o.play
  BY <1>1 DEF Viewing!Continuous
<1>3. Observation(b) /\ b.pos \in Nat /\ b.at \in Nat /\ o.pos \in Nat /\ o.at \in Nat
  BY <1>2 DEF Observation
<1>4. b.at < o.at
  <2>1. Viewing!Elapsed(b, o) \in 1..Gap /\ Gap \in Nat
    BY <1>1 DEF Viewing!Continuous, SamplingConstants, Viewing!SamplingBounds
  <2> QED
    BY <2>1, <1>3 DEF Viewing!Elapsed
<1>5. Viewing!Advance(b, o) = o.pos - b.pos /\ Viewing!Elapsed(b, o) = o.at - b.at
  BY DEF Viewing!Advance, Viewing!Elapsed
<1>6. Viewing!Elapsed(b, o) \in Int /\ Viewing!Advance(b, o) \in Int
  BY <1>3, <1>5
<1>7. CASE iv = Viewing!verified_watch_interval(b, o, gap)
  <2>1. iv = Viewing!Since(b, o, Viewing!Elapsed(b, o)) /\ (Rated => Viewing!Advance(b, o) = Viewing!Elapsed(b, o))
    BY <1>7 DEF Viewing!verified_watch_interval
  <2>2. Between(iv, b, o) /\ o.at - iv.from <= Viewing!Elapsed(b, o)
    BY <2>1, <1>3, <1>6, SinceBetween
  <2> QED
    BY <2>1, <2>2, <1>2, <1>4, <1>5 DEF Earned
<1>8. CASE iv = Viewing!cumulative_watch_interval(b, o) /\ Viewing!Advance(b, o) # Viewing!Elapsed(b, o)
  <2>1. CASE Viewing!Advance(b, o) < Viewing!Elapsed(b, o)
    <3>1. iv = Viewing!Since(b, o, Viewing!Advance(b, o))
      BY <1>8, <2>1 DEF Viewing!cumulative_watch_interval
    <3> QED
      BY <3>1, <1>2, <1>3, <1>4, <1>5, <1>6, SinceBetween DEF Earned
  <2>2. CASE ~(Viewing!Advance(b, o) < Viewing!Elapsed(b, o))
    <3>1. iv = Viewing!Since(b, o, Viewing!Elapsed(b, o))
      BY <1>8, <2>2 DEF Viewing!cumulative_watch_interval
    <3>2. Between(iv, b, o) /\ o.at - iv.from <= Viewing!Elapsed(b, o)
      BY <3>1, <1>3, <1>6, SinceBetween
    <3>3. o.at - iv.from <= o.pos - b.pos
      BY <3>2, <2>2, <1>3, <1>5 DEF Between
    <3> QED
      BY <3>2, <3>3, <1>2, <1>4 DEF Earned
  <2> QED
    BY <2>1, <2>2
<1>9. iv = Viewing!verified_watch_interval(b, o, gap)
      \/ (iv = Viewing!cumulative_watch_interval(b, o) /\ Viewing!Advance(b, o) # Viewing!Elapsed(b, o))
  BY DEF Viewing!Interval
<1> QED
  BY <1>2, <1>7, <1>8, <1>9

(* What _proof makes of the state v and the observation o.                  *)
Proves(v, o, source, r) ==
  /\ StateFields(r.state) /\ r.state.key = v.key /\ r.state.play = v.play /\ r.state.item = v.item
  /\ r.state.received = v.received /\ r.state.stopped = v.stopped /\ r.state.started = v.started
  /\ r.state.lastTs = v.lastTs /\ r.state.source = source
  /\ SeenFields(r.state.seen) /\ r.state.seen.pos = o.pos /\ r.state.seen.at = o.at
  /\ r.state.seen.play = o.play /\ r.state.seen.bad = o.bad
Nothing(v, o, r) ==
  r.interval = Viewing!NoTime /\ r.state.seen.floor = o.floor /\ r.state.end = v.end /\ r.state.seconds = v.seconds
Something(v, o, source, r) ==
  /\ r.interval # Viewing!NoTime /\ v.seen # Null /\ v.source = source /\ Earned(r.interval, v.seen, o)
  /\ v.end <= r.interval.from /\ r.state.seen.floor = o.at /\ r.state.end = o.at
  /\ r.state.seconds = v.seconds + (o.at - r.interval.from)

(* The fields of a state that is changed in one step.                       *)
Patched(w, v, a, b, e, n) ==
  /\ StateFields(w) /\ w.key = v.key /\ w.play = v.play /\ w.item = v.item /\ w.received = v.received
  /\ w.stopped = v.stopped /\ w.started = v.started /\ w.lastTs = v.lastTs
  /\ w.source = a /\ w.seen = b /\ w.end = e /\ w.seconds = n
LEMMA StatePatched ==
  ASSUME NEW v, StateFields(v), NEW a, NEW b, NEW e, NEW n, NEW w,
         w = [v EXCEPT !.source = a, !.seen = b, !.end = e, !.seconds = n]
  PROVE  Patched(w, v, a, b, e, n)
<1>1. StateFields(w)
  BY DEF StateFields
<1>2. w.key = v.key /\ w.play = v.play /\ w.item = v.item
  BY DEF StateFields
<1>3. w.received = v.received /\ w.stopped = v.stopped /\ w.started = v.started
  BY DEF StateFields
<1>4. w.lastTs = v.lastTs /\ w.source = a /\ w.seen = b
  BY DEF StateFields
<1>5. w.end = e /\ w.seconds = n
  BY DEF StateFields
<1> QED
  BY <1>1, <1>2, <1>3, <1>4, <1>5 DEF Patched

LEMMA ProofProves ==
  ASSUME SamplingConstants, NEW v, NEW o, NEW gap, NEW source, Content(v), Observation(o)
  PROVE  LET r == Viewing!_proof(v, o, gap, source) IN
         Proves(v, o, source, r) /\ (Nothing(v, o, r) \/ Something(v, o, source, r))
<1> DEFINE before == Viewing!Before(v, source)
           now == IF source = "progress" THEN [o EXCEPT !.recent = Viewing!recent_run(before, o)] ELSE o
           whole == Viewing!Interval(before, now, gap, source)
           iv == Viewing!Unrecorded(v, whole)
           seen == IF iv = Viewing!NoTime THEN now ELSE [now EXCEPT !.floor = now.at]
           st == [v EXCEPT !.source = source, !.seen = seen, !.end = IF iv = Viewing!NoTime THEN @ ELSE iv.to,
                           !.seconds = @ + (iv.to - iv.from)]
           r == Viewing!_proof(v, o, gap, source)
<1>1. r = [interval |-> iv, state |-> st]
  BY DEF Viewing!_proof
<1>2. SeenFields(now) /\ now.pos = o.pos /\ now.at = o.at /\ now.play = o.play /\ now.bad = o.bad
      /\ now.floor = o.floor
  <2>1. SeenFields(o)
    BY DEF Observation
  <2>2. ASSUME NEW x PROVE SeenFields([o EXCEPT !.recent = x]) /\ [o EXCEPT !.recent = x].pos = o.pos
          /\ [o EXCEPT !.recent = x].at = o.at /\ [o EXCEPT !.recent = x].play = o.play
          /\ [o EXCEPT !.recent = x].bad = o.bad /\ [o EXCEPT !.recent = x].floor = o.floor
    BY <2>1 DEF SeenFields
  <2> QED
    BY <2>1, <2>2
<1>3. Observation(now) /\ o.at \in Nat
  BY <1>2 DEF Observation
<1>4. before # Null => before = v.seen /\ v.source = source /\ v.seen # Null /\ Observation(before)
  BY DEF Viewing!Before, Content
<1>5. SeenFields(seen) /\ seen.pos = o.pos /\ seen.at = o.at /\ seen.play = o.play /\ seen.bad = o.bad
      /\ seen.floor = IF iv = Viewing!NoTime THEN o.floor ELSE o.at
  <2>1. ASSUME NEW x PROVE SeenFields([now EXCEPT !.floor = x]) /\ [now EXCEPT !.floor = x].pos = now.pos
          /\ [now EXCEPT !.floor = x].at = now.at /\ [now EXCEPT !.floor = x].play = now.play
          /\ [now EXCEPT !.floor = x].bad = now.bad /\ [now EXCEPT !.floor = x].floor = x
    BY <1>2 DEF SeenFields
  <2> HIDE DEF now, iv
  <2> QED
    BY <2>1, <1>2
<1>6. /\ StateFields(st) /\ st.key = v.key /\ st.play = v.play /\ st.item = v.item
      /\ st.received = v.received /\ st.stopped = v.stopped /\ st.started = v.started
      /\ st.lastTs = v.lastTs /\ st.source = source /\ st.seen = seen
      /\ st.end = (IF iv = Viewing!NoTime THEN v.end ELSE iv.to)
      /\ st.seconds = v.seconds + (iv.to - iv.from)
  <2>1. StateFields(v)
    BY DEF Content
  <2> DEFINE e == IF iv = Viewing!NoTime THEN v.end ELSE iv.to
             n == v.seconds + (iv.to - iv.from)
  <2>2. st = [v EXCEPT !.source = source, !.seen = seen, !.end = e, !.seconds = n]
    <3> HIDE DEF seen, iv
    <3> QED
      OBVIOUS
  <2>3. e = (IF iv = Viewing!NoTime THEN v.end ELSE iv.to) /\ n = v.seconds + (iv.to - iv.from)
    OBVIOUS
  <2> HIDE DEF seen, iv, e, n, st
  <2>4. Patched(st, v, source, seen, e, n)
    BY <2>1, <2>2, StatePatched
  <2> QED
    BY <2>3, <2>4 DEF Patched
<1>7. Proves(v, o, source, r)
  <2> HIDE DEF seen, iv, st
  <2> QED
    BY <1>1, <1>5, <1>6 DEF Proves
<1>8. v.end \in Nat /\ v.seconds \in Nat
  BY DEF Content
<1>9. CASE iv = Viewing!NoTime
  <2>1. iv.to = 0 /\ iv.from = 0
    BY <1>9 DEF Viewing!NoTime
  <2>2. st.end = v.end /\ st.seconds = v.seconds /\ st.seen.floor = o.floor
    <3> HIDE DEF seen, iv, st
    <3> QED
      BY <2>1, <1>5, <1>6, <1>8, <1>9
  <2>3. Nothing(v, o, r)
    <3> HIDE DEF iv, st
    <3> QED
      BY <2>2, <1>1, <1>9 DEF Nothing
  <2> QED
    BY <1>7, <2>3
<1>10. CASE iv # Viewing!NoTime
  <2>1. whole # Viewing!NoTime
    <3>1. ASSUME whole = Viewing!NoTime PROVE FALSE
      <4>1. whole.from = 0 /\ whole.to = 0
        BY <3>1 DEF Viewing!NoTime
      <4>2. Viewing!Larger(whole.from, v.end) < whole.to
        <5> HIDE DEF whole
        <5> QED
          BY <1>10 DEF Viewing!Unrecorded
      <4>3. v.end < 0
        <5> HIDE DEF whole
        <5> QED
          BY <4>1, <4>2, <1>8 DEF Viewing!Larger
      <4> QED
        BY <4>3, <1>8
    <3> QED
      BY <3>1
  <2>2. before # Null /\ Earned(whole, before, now)
    <3> HIDE DEF before, now
    <3> QED
      BY <2>1, <1>3, <1>4, IntervalEarned
  <2>3. whole = [from |-> whole.from, to |-> now.at] /\ whole.from \in Nat /\ before.floor <= whole.from
    <3> HIDE DEF before, now, whole
    <3> QED
      BY <2>2 DEF Earned, Between
  <2>4. iv = [whole EXCEPT !.from = Viewing!Larger(@, v.end)] /\ Viewing!Larger(whole.from, v.end) < whole.to
    <3> HIDE DEF whole
    <3> QED
      BY <1>10 DEF Viewing!Unrecorded
  <2>5. iv = [from |-> Viewing!Larger(whole.from, v.end), to |-> o.at] /\ Viewing!Larger(whole.from, v.end) < o.at
    <3> HIDE DEF whole, now, iv
    <3> QED
      BY <2>3, <2>4, <1>2
  <2>6. iv.from \in Nat /\ iv.from >= whole.from /\ iv.from >= v.end /\ iv.from < o.at /\ iv.to = o.at
        /\ iv = [from |-> iv.from, to |-> o.at]
    <3> HIDE DEF whole, iv
    <3> QED
      BY <2>3, <2>5, <1>8 DEF Viewing!Larger
  <2>7. before.floor \in Nat /\ before.pos \in Nat /\ o.pos \in Nat
    <3> HIDE DEF before
    <3> QED
      BY <2>2, <1>4 DEF Observation
  <2>8. Between(iv, before, o)
    <3> HIDE DEF whole, iv, before
    <3> QED
      BY <2>3, <2>6, <2>7 DEF Between
  <2>9. Earned(iv, before, o)
    <3> HIDE DEF whole, iv, before, now
    <3> QED
      BY <2>2, <2>3, <2>6, <2>7, <2>8, <1>2, <1>3 DEF Earned
  <2>10. st.end = o.at /\ st.seconds = v.seconds + (o.at - iv.from) /\ st.seen.floor = o.at
    <3> HIDE DEF seen, iv, st
    <3> QED
      BY <2>6, <1>5, <1>6, <1>10
  <2>11. Something(v, o, source, r)
    <3> HIDE DEF seen, iv, st, before
    <3> QED
      BY <2>2, <2>6, <2>9, <2>10, <1>1, <1>4, <1>10 DEF Something
  <2> QED
    BY <1>7, <2>11
<1> QED
  BY <1>9, <1>10

LEMMA ShowingsFinite ==
  ASSUME Watched, NEW a, NEW b
  PROVE  IsFiniteSet(Showings(a, b)) /\ Cardinality(Showings(a, b)) \in Nat
<1>1. shownAt \subseteq 1..(clock - 1) /\ clock \in Nat
  BY DEF Watched
<1>2. IsFiniteSet(1..(clock - 1))
  BY <1>1, FS_Interval
<1>3. IsFiniteSet(shownAt) /\ Showings(a, b) \subseteq shownAt
  BY <1>1, <1>2, FS_Subset DEF Showings
<1>4. IsFiniteSet(Showings(a, b))
  BY <1>3, FS_Subset
<1> QED
  BY <1>4, FS_CardinalityType

(* ---------------------- what a step leaves alone ----------------------- *)
LEMMA CreditedKept ==
  ASSUME samples' = samples, NEW k PROVE Viewing!Credited(k)' = Viewing!Credited(k)
  BY DEF Viewing!Credited, Viewing!Ticks

LEMMA Remembered ==
  ASSUME Watched, clock' \in Nat, clock <= clock', keys' \in Nat, keys <= keys',
         UNCHANGED <<viewing, checkpoint>>
  PROVE  (viewing' # Null => State(viewing)') /\ (checkpoint' # Null => State(checkpoint)')
<1>1. clock \in Nat /\ keys \in Nat /\ (viewing # Null => State(viewing)) /\ (checkpoint # Null => State(checkpoint))
  BY DEF Watched
<1>2. viewing # Null => State(viewing)'
  BY <1>1 DEF State, Content, Observation
<1>3. checkpoint # Null => State(checkpoint)'
  BY <1>1 DEF State, Content, Observation
<1> QED
  BY <1>2, <1>3

LEMMA FrontsKept ==
  ASSUME Watched, Fronts, clock' \in Nat, clock <= clock', UNCHANGED <<downAt, viewing, samples>>
  PROVE  Fronts'
<1>1. clock \in Nat /\ samples \subseteq Samples
  BY DEF Watched
<1>2. \A s \in samples : s.to \in Nat
  BY <1>1 DEF Samples
<1>3. \A s \in samples : s.from < s.to /\ s.to <= clock' /\ s.up <= s.from
  BY <1>1, <1>2 DEF Fronts
<1> QED
  BY <1>3 DEF Fronts

LEMMA BooksKept ==
  ASSUME Books, UNCHANGED <<samples, viewing, checkpoint, finished, keys>> PROVE Books'
<1>1. \A k : Viewing!Credited(k)' = Viewing!Credited(k)
  BY CreditedKept
<1> QED
  BY <1>1 DEF Books

Opened == bound' \in [Plays -> [issued : Nat, closed : BOOLEAN] \cup {Null}]
          /\ \A p \in Plays : Viewing!Closed(p) => Viewing!Closed(p)'

LEMMA EndsKept ==
  ASSUME Endings, Opened, UNCHANGED <<ended, samples>> PROVE Endings'
  BY DEF Endings, Opened

LEMMA ObservedKept ==
  ASSUME Watched, Observed, UNCHANGED <<clock, shownAt>>, player'.pos \in Nat, player'.pos <= player.pos,
         \A r \in reports' : r.at # Null => r.at = r.sentAt,
         \A a, x \in Nat : Reached(a, x)' => Reached(a, x) \/ (a = clock /\ x = player.pos)
  PROVE  Observed'
<1>1. clock \in Nat /\ player.pos \in Nat
  BY DEF Watched
<1>2. \A a, b : Showings(a, b)' = Showings(a, b) /\ Cardinality(Showings(a, b)) \in Nat
  BY ShowingsFinite DEF Showings
<1>3. ASSUME NEW a \in Nat, NEW x \in Nat, Reached(a, x)'
      PROVE a <= clock /\ player'.pos <= x + Cardinality(Showings(a, clock))
  <2>1. Cardinality(Showings(a, clock)) \in Nat
    BY <1>2
  <2>2. CASE Reached(a, x)
    BY <2>1, <2>2, <1>1 DEF Observed
  <2>3. CASE a = clock /\ x = player.pos
    BY <2>1, <2>3, <1>1
  <2> QED
    BY <2>2, <2>3, <1>3
<1>4. ASSUME NEW a \in Nat, NEW x \in Nat, NEW b \in Nat, NEW y \in Nat, Reached(a, x)', Reached(b, y)', a < b
      PROVE y <= x + Cardinality(Showings(a, b))
  <2>1. b <= clock
    BY <1>3, <1>4
  <2>2. Reached(a, x)
    BY <2>1, <1>1, <1>4
  <2>3. CASE Reached(b, y)
    BY <2>2, <2>3, <1>4 DEF Observed
  <2>4. CASE b = clock /\ y = player.pos
    BY <2>2, <2>4 DEF Observed
  <2> QED
    BY <2>3, <2>4, <1>4
<1>5. \A a, x \in Nat : Reached(a, x)' => a <= clock' /\ player'.pos <= x + Cardinality(Showings(a, clock)')
  BY <1>2, <1>3
<1>6. \A a, x, b, y \in Nat : Reached(a, x)' /\ Reached(b, y)' /\ a < b => y <= x + Cardinality(Showings(a, b)')
  BY <1>2, <1>4
<1> QED
  BY <1>5, <1>6 DEF Observed

LEMMA PlayedKept ==
  ASSUME Played, UNCHANGED <<shownAt, samples>> PROVE Played'
  BY DEF Played, Showings

(* ------------------ what reaches Emby and the panel -------------------- *)
Sendable(r) == r \in Messages /\ r.at = Null /\ r.sentAt <= clock
News(r) ==
  /\ session' \in Lists /\ session'.at <= clock /\ reports' \subseteq Messages
  /\ \A q \in reports' : q.sentAt <= clock /\ (q.at # Null => q.sentAt <= q.at /\ q.at <= clock)
  /\ \A q \in reports' : q \in reports \/ (q.sentAt = r.sentAt /\ q.pos = r.pos /\ q.at \in {Null, clock})
  /\ session' = session \/ session'.play = Null \/ (session'.at = clock /\ session'.pos = r.pos)

LEMMA AcceptedNews ==
  ASSUME SamplingConstants, Watched, NEW r, Sendable(r), Viewing!Accepted(r) PROVE News(r)
<1>1. clock \in Nat /\ reports \subseteq Messages /\ r \in Messages /\ r.sentAt \in Nat /\ r.pos \in Nat
  BY DEF Watched, Sendable, Messages
<1> DEFINE q0 == [r EXCEPT !.at = clock]
<1>2. q0 \in Messages /\ q0.sentAt = r.sentAt /\ q0.pos = r.pos /\ q0.at = clock
  BY <1>1 DEF Messages
<1>3. \A q \in reports' : q \in reports \/ q = q0
  BY DEF Viewing!Accepted
<1>4. session' = session \/ session' = [Viewing!Idle EXCEPT !.at = clock]
      \/ session' = [here |-> TRUE, play |-> r.play, pos |-> r.pos, paused |-> r.paused, at |-> clock]
  BY DEF Viewing!Accepted
<1>5. session' \in Lists /\ session'.at <= clock
      /\ (session' = session \/ session'.play = Null \/ (session'.at = clock /\ session'.pos = r.pos))
  <2>1. CASE session' = session
    BY <2>1 DEF Watched
  <2>2. CASE session' = [Viewing!Idle EXCEPT !.at = clock]
    <3>1. session' = [here |-> TRUE, play |-> Null, pos |-> 0, paused |-> FALSE, at |-> clock]
      BY <2>2 DEF Viewing!Idle
    <3> QED
      BY <3>1, <1>1 DEF Lists
  <2>3. CASE session' = [here |-> TRUE, play |-> r.play, pos |-> r.pos, paused |-> r.paused, at |-> clock]
    <3>1. r.play \in Plays /\ r.paused \in BOOLEAN
      BY <1>1 DEF Messages
    <3> QED
      BY <2>3, <3>1, <1>1 DEF Lists
  <2> QED
    BY <1>4, <2>1, <2>2, <2>3
<1>6. ASSUME NEW q \in reports' PROVE q \in Messages /\ q.sentAt <= clock
        /\ (q.at # Null => q.sentAt <= q.at /\ q.at <= clock)
        /\ (q \in reports \/ (q.sentAt = r.sentAt /\ q.pos = r.pos /\ q.at \in {Null, clock}))
  <2> HIDE DEF q0
  <2>1. CASE q \in reports
    BY <2>1, <1>1 DEF Watched
  <2>2. CASE q = q0
    BY <2>2, <1>1, <1>2 DEF Sendable
  <2> QED
    BY <1>3, <2>1, <2>2
<1> QED
  BY <1>5, <1>6 DEF News

LEMMA SentNews ==
  ASSUME SamplingConstants, Watched, NEW r, Sendable(r), Viewing!Send(r) PROVE News(r)
<1>1. CASE Viewing!Accepted(r)
  BY <1>1, AcceptedNews
<1>2. CASE reports' = reports \cup {r} /\ session' = session
  BY <1>2 DEF News, Watched, Sendable
<1> QED
  BY <1>1, <1>2 DEF Viewing!Send

(* Told at once, nothing is noted but where the title is.                   *)
LEMMA NewsNoted ==
  ASSUME Watched, Observed, NEW r, News(r), r.sentAt = clock, r.pos = player.pos,
         UNCHANGED <<poll, viewing>>
  PROVE  /\ \A q \in reports' : q.at # Null => q.at = q.sentAt
         /\ \A a, x \in Nat : Reached(a, x)' => Reached(a, x) \/ (a = clock /\ x = player.pos)
<1>1. \A q \in reports' : q.at # Null => q.at = q.sentAt
  BY DEF News, Observed
<1>2. ASSUME NEW a \in Nat, NEW x \in Nat, Reached(a, x)'
      PROVE Reached(a, x) \/ (a = clock /\ x = player.pos)
  <2>1. CASE \E q \in reports' : q.sentAt = a /\ q.pos = x
    BY <2>1 DEF News, Reached
  <2>2. CASE session'.play # Null /\ session'.at = a /\ session'.pos = x
    BY <2>2 DEF News, Reached
  <2>3. CASE poll # Null /\ poll.play # Null /\ poll.at = a /\ poll.pos = x
    BY <2>3 DEF Reached
  <2>4. CASE viewing # Null /\ viewing.seen # Null /\ ~viewing.seen.bad /\ viewing.seen.at = a /\ viewing.seen.pos = x
    BY <2>4 DEF Reached
  <2> QED
    BY <1>2, <2>1, <2>2, <2>3, <2>4 DEF Reached
<1> QED
  BY <1>1, <1>2

(* ---------------------------- the member ------------------------------- *)
(* He and Emby change nothing of what is kept of his time.                  *)
Standing == UNCHANGED <<downAt, viewing, checkpoint, samples, finished, keys>>

LEMMA MemberKeeps ==
  ASSUME ViewingInv, Standing, UNCHANGED <<poll, ended, item>>, clock' \in Nat \ {0}, clock <= clock', clock' <= MaxTime,
         player' \in [play : Plays \cup {Null}, pos : Nat, on : BOOLEAN],
         player'.play = Null => player'.pos = 0 /\ ~player'.on,
         session' \in Lists, session'.at <= clock', reports' \subseteq Messages,
         \A r \in reports' : r.sentAt <= clock' /\ (r.at # Null => r.sentAt <= r.at /\ r.at <= clock'),
         Opened, strange' \in BOOLEAN, shownAt' \subseteq 1..(clock' - 1), ~strange' => (Observed /\ Played)'
  PROVE  ViewingInv'
<1>1. clock \in Nat /\ clock' \in Nat /\ keys \in Nat
  BY DEF ViewingInv, Watched
<1>2. (viewing' # Null => State(viewing)') /\ (checkpoint' # Null => State(checkpoint)')
  BY <1>1, Remembered DEF ViewingInv, Standing
<1>3. downAt' \in 1..clock' /\ (poll' # Null => poll' \in Lists /\ poll'.at <= clock')
  <2>1. downAt \in 1..clock
    BY DEF ViewingInv, Watched
  <2>2. poll # Null => poll \in Lists /\ poll.at <= clock
    BY DEF ViewingInv, Watched
  <2>3. poll # Null => poll.at \in Nat
    BY <2>2 DEF Lists
  <2> QED
    BY <2>1, <2>2, <2>3, <1>1 DEF Standing
<1>4. item' \in [Plays -> Items] /\ ended' \in [Plays -> BOOLEAN] /\ keys' \in Nat /\ samples' \subseteq Samples
      /\ finished' \in Seq([key : Nat, seconds : Nat])
  BY DEF ViewingInv, Watched, Standing
<1>5. Watched'
  <2> USE <1>2, <1>3, <1>4
  <2> QED
    BY DEF Watched, Opened
<1>6. Fronts'
  BY <1>1, FrontsKept DEF ViewingInv, Standing
<1>7. Books'
  BY BooksKept DEF ViewingInv, Standing
<1>8. Endings'
  BY EndsKept DEF ViewingInv, Standing
<1> QED
  BY <1>5, <1>6, <1>7, <1>8 DEF ViewingInv

LEMMA NothingOpened ==
  ASSUME Watched, UNCHANGED bound PROVE Opened
<1>1. bound' \in [Plays -> [issued : Nat, closed : BOOLEAN] \cup {Null}]
  BY DEF Watched
<1>2. \A p : Viewing!Closed(p)' = Viewing!Closed(p)
  BY DEF Viewing!Closed
<1> QED
  BY <1>1, <1>2 DEF Opened

(* To change rows of the plays, but for what is closed.                     *)
LEMMA ClosedStay ==
  ASSUME SamplingConstants, Watched, NEW b, bound' = b, b \in [Plays -> [issued : Nat, closed : BOOLEAN] \cup {Null}],
         \A p \in Plays : Viewing!Closed(p) => b[p] # Null /\ b[p].closed
  PROVE  Opened
<1>1. \A p \in Plays : p # Null
  BY DEF SamplingConstants
<1> QED
  BY <1>1 DEF Opened, Viewing!Closed

LEMMA ClosingOpens ==
  ASSUME SamplingConstants, Watched, NEW r \in Messages, bound' = Viewing!Closing(r)
  PROVE  Opened
<1>1. bound \in [Plays -> [issued : Nat, closed : BOOLEAN] \cup {Null}] /\ r.play \in Plays
  BY DEF Watched, Messages
<1>2. CASE bound' = bound
  BY <1>2, NothingOpened
<1>3. CASE bound[r.play] # Null /\ bound' = [bound EXCEPT ![r.play].closed = TRUE]
  <2>1. bound[r.play] \in [issued : Nat, closed : BOOLEAN]
    BY <1>1, <1>3
  <2>2. [bound[r.play] EXCEPT !.closed = TRUE] \in [issued : Nat, closed : BOOLEAN]
        /\ [bound[r.play] EXCEPT !.closed = TRUE].closed = TRUE
    BY <2>1
  <2>3. bound' = [bound EXCEPT ![r.play] = [bound[r.play] EXCEPT !.closed = TRUE]]
    BY <1>3
  <2>4. bound' \in [Plays -> [issued : Nat, closed : BOOLEAN] \cup {Null}]
    BY <1>1, <2>2, <2>3
  <2>5. ASSUME NEW p \in Plays, Viewing!Closed(p) PROVE bound'[p] # Null /\ bound'[p].closed
    <3>1. bound'[p] = IF p = r.play THEN [bound[r.play] EXCEPT !.closed = TRUE] ELSE bound[p]
      BY <1>1, <2>3
    <3>2. [bound[r.play] EXCEPT !.closed = TRUE] # Null
      BY <2>2 DEF SamplingConstants
    <3> QED
      BY <2>2, <2>5, <3>1, <3>2 DEF Viewing!Closed
  <2>6. PICK b : b = bound'
    OBVIOUS
  <2> QED
    BY <2>4, <2>5, <2>6, ClosedStay
<1> QED
  BY <1>2, <1>3 DEF Viewing!Closing

Tells(r, pos) == Sendable(r) /\ r.sentAt = clock /\ r.pos = pos
LEMMA MessageTells ==
  ASSUME Watched, NEW kind \in {"started", "progress", "stopped"}, NEW p \in Plays, NEW pos \in Nat,
         NEW paused \in BOOLEAN
  PROVE  Tells(Viewing!Message(kind, p, pos, paused), pos)
<1>1. clock \in Nat
  BY DEF Watched
<1> QED
  BY <1>1 DEF Viewing!Message, Tells, Sendable, Messages

(* What is sent is told of where the title is.                              *)
LEMMA TellingKeeps ==
  ASSUME SamplingConstants, ViewingInv, NEW r, News(r), r.sentAt = clock, r.pos = player.pos,
         Standing, Opened, UNCHANGED <<clock, poll, item, ended, strange, shownAt>>,
         player' \in [play : Plays \cup {Null}, pos : Nat, on : BOOLEAN], player'.pos <= player.pos,
         player'.play = Null => player'.pos = 0 /\ ~player'.on
  PROVE  ViewingInv'
<1>1. Watched /\ clock \in Nat \ {0} /\ clock <= MaxTime /\ strange \in BOOLEAN /\ shownAt \subseteq 1..(clock - 1)
  BY DEF ViewingInv, Watched
<1>2. session' \in Lists /\ session'.at <= clock' /\ reports' \subseteq Messages
      /\ \A q \in reports' : q.sentAt <= clock' /\ (q.at # Null => q.sentAt <= q.at /\ q.at <= clock')
  BY DEF News
<1>3. ASSUME ~strange PROVE (Observed /\ Played)'
  <2>1. Observed /\ Played
    BY <1>3 DEF ViewingInv
  <2>2. Observed'
    BY <2>1, <1>1, NewsNoted, ObservedKept DEF Standing
  <2>3. Played'
    BY <2>1, PlayedKept DEF Standing
  <2> QED
    BY <2>2, <2>3
<1> QED
  BY <1>1, <1>2, <1>3, MemberKeeps

LEMMA PlayKeeps ==
  ASSUME SamplingConstants, ViewingInv, NEW p \in Plays, Viewing!Play(p) PROVE ViewingInv'
<1>1. Watched /\ clock \in Nat
  BY DEF ViewingInv, Watched
<1> DEFINE r == Viewing!Message("started", p, 0, FALSE)
<1>2. Sendable(r) /\ r.sentAt = clock /\ r.pos = 0 /\ player.pos = 0
  <2>1. Tells(r, 0)
    BY <1>1, MessageTells
  <2> QED
    BY <2>1, <1>1 DEF Tells, Watched, Viewing!Play
<1>3. News(r)
  BY <1>1, <1>2, SentNews DEF Viewing!Play
<1>4. Opened
  <2>1. CASE bound' = bound
    BY <2>1, <1>1, NothingOpened
  <2>2. CASE bound' = [bound EXCEPT ![p] = IF @ = Null THEN [issued |-> clock, closed |-> FALSE] ELSE @]
    <3>1. PICK b : b = bound'
      OBVIOUS
    <3>2. bound \in [Plays -> [issued : Nat, closed : BOOLEAN] \cup {Null}]
      BY <1>1 DEF Watched
    <3>3. b = [bound EXCEPT ![p] = IF bound[p] = Null THEN [issued |-> clock, closed |-> FALSE] ELSE bound[p]]
      BY <2>2, <3>1
    <3>4. b \in [Plays -> [issued : Nat, closed : BOOLEAN] \cup {Null}]
      BY <1>1, <3>2, <3>3
    <3>5. \A q \in Plays : Viewing!Closed(q) => b[q] # Null /\ b[q].closed
      BY <3>2, <3>3 DEF Viewing!Closed
    <3> QED
      BY <1>1, <3>1, <3>4, <3>5, ClosedStay
  <2> QED
    BY <2>1, <2>2 DEF Viewing!Play
<1>5. player' = [play |-> p, pos |-> 0, on |-> TRUE] /\ p # Null
  BY DEF Viewing!Play, SamplingConstants
<1>6. Standing /\ UNCHANGED <<clock, poll, item, ended, strange, shownAt>>
  BY DEF Viewing!Play, Standing
<1>7. player' \in [play : Plays \cup {Null}, pos : Nat, on : BOOLEAN] /\ player'.pos = 0 /\ player'.play # Null
  BY <1>5
<1> HIDE DEF r
<1>8. player'.pos <= player.pos /\ r.pos = player.pos
  BY <1>2, <1>7
<1> QED
  BY <1>2, <1>3, <1>4, <1>6, <1>7, <1>8, TellingKeeps

LEMMA ReportKeeps ==
  ASSUME SamplingConstants, ViewingInv, Viewing!Report PROVE ViewingInv'
<1>1. Watched /\ player.play \in Plays /\ player.pos \in Nat /\ player.on \in BOOLEAN
  BY DEF ViewingInv, Watched, Viewing!Report
<1> DEFINE r == Viewing!Message("progress", player.play, player.pos, ~player.on)
<1>2. Sendable(r) /\ r.sentAt = clock /\ r.pos = player.pos
  <2>1. Tells(r, player.pos)
    BY <1>1, MessageTells
  <2> QED
    BY <2>1 DEF Tells
<1>3. News(r)
  BY <1>1, <1>2, SentNews DEF Viewing!Report
<1>4. Standing /\ UNCHANGED <<clock, poll, item, ended, strange, shownAt, bound, player>>
  BY DEF Viewing!Report, Viewing!store, Standing
<1>5. Opened
  BY <1>1, <1>4, NothingOpened
<1>6. player \in [play : Plays \cup {Null}, pos : Nat, on : BOOLEAN]
      /\ (player.play = Null => player.pos = 0 /\ ~player.on)
  BY <1>1 DEF Watched
<1> HIDE DEF r
<1>7. player'.pos <= player.pos
  BY <1>1, <1>4
<1> QED
  BY <1>2, <1>3, <1>4, <1>5, <1>6, <1>7, TellingKeeps

LEMMA StopPlayKeeps ==
  ASSUME SamplingConstants, ViewingInv, Viewing!StopPlay PROVE ViewingInv'
<1>1. Watched /\ player.play \in Plays /\ player.pos \in Nat
  BY DEF ViewingInv, Watched, Viewing!StopPlay
<1> DEFINE r == Viewing!Message("stopped", player.play, player.pos, FALSE)
<1>2. Sendable(r) /\ r.sentAt = clock /\ r.pos = player.pos
  <2>1. Tells(r, player.pos)
    BY <1>1, MessageTells
  <2> QED
    BY <2>1 DEF Tells
<1>3. Viewing!Send(r) /\ (bound' = bound \/ bound' = Viewing!Closing(r))
  BY DEF Viewing!StopPlay
<1>4. News(r)
  BY <1>1, <1>2, <1>3, SentNews
<1>5. Standing /\ UNCHANGED <<clock, poll, item, ended, strange, shownAt>>
      /\ player' = [play |-> Null, pos |-> 0, on |-> FALSE]
  BY DEF Viewing!StopPlay, Standing
<1> HIDE DEF r
<1>6. Opened
  BY <1>1, <1>2, <1>3, NothingOpened, ClosingOpens DEF Sendable
<1>7. player' \in [play : Plays \cup {Null}, pos : Nat, on : BOOLEAN] /\ player'.pos <= player.pos
      /\ (player'.play = Null => player'.pos = 0 /\ ~player'.on)
  BY <1>1, <1>5
<1> QED
  BY <1>2, <1>4, <1>5, <1>6, <1>7, TellingKeeps

LEMMA PauseOrJumpKeeps ==
  ASSUME SamplingConstants, ViewingInv, Viewing!PauseOrJump PROVE ViewingInv'
<1>1. /\ Watched /\ clock \in Nat \ {0} /\ clock <= MaxTime /\ strange \in BOOLEAN
      /\ shownAt \subseteq 1..(clock - 1) /\ player.pos \in Nat /\ player.play # Null
      /\ player \in [play : Plays \cup {Null}, pos : Nat, on : BOOLEAN]
  BY DEF ViewingInv, Watched, Viewing!PauseOrJump
<1>2. Standing /\ UNCHANGED <<clock, session, reports, poll, item, ended, shownAt, bound>>
  BY DEF Viewing!PauseOrJump, Viewing!store, Standing
<1>3. /\ player' \in [play : Plays \cup {Null}, pos : Nat, on : BOOLEAN] /\ player'.play = player.play
      /\ (player'.pos = player.pos /\ strange' = strange) \/ strange' = TRUE
  <2>1. CASE player' = [player EXCEPT !.on = ~@] /\ UNCHANGED strange
    BY <2>1, <1>1
  <2>2. ASSUME NEW n \in {0, player.pos + 2}, player' = [player EXCEPT !.pos = n], strange' = TRUE
        PROVE player' \in [play : Plays \cup {Null}, pos : Nat, on : BOOLEAN] /\ player'.play = player.play
    <3>1. n \in Nat
      BY <1>1
    <3> QED
      BY <2>2, <3>1, <1>1
  <2> QED
    BY <2>1, <2>2 DEF Viewing!PauseOrJump
<1>4. Opened
  BY <1>1, <1>2, NothingOpened
<1>5. ASSUME ~strange' PROVE (Observed /\ Played)'
  <2>1. Observed /\ Played /\ player'.pos = player.pos
    BY <1>1, <1>3, <1>5 DEF ViewingInv
  <2>2. \A a, x \in Nat : Reached(a, x)' => Reached(a, x)
    BY <1>2 DEF Reached, Standing
  <2>3. Observed'
    <3>1. UNCHANGED <<clock, shownAt>> /\ player'.pos \in Nat /\ player'.pos <= player.pos
      BY <2>1, <1>1, <1>2 DEF Watched
    <3>2. \A r \in reports' : r.at # Null => r.at = r.sentAt
      BY <2>1, <1>1, <1>2 DEF Observed
    <3> QED
      BY <2>1, <2>2, <3>1, <3>2, <1>1, ObservedKept
  <2> QED
    BY <2>1, <2>3, <1>2, PlayedKept DEF Standing
<1>6. session' \in Lists /\ session'.at <= clock' /\ reports' \subseteq Messages
      /\ \A q \in reports' : q.sentAt <= clock' /\ (q.at # Null => q.sentAt <= q.at /\ q.at <= clock')
  BY <1>1, <1>2 DEF Watched
<1>7. strange' \in BOOLEAN /\ (player'.play = Null => player'.pos = 0 /\ ~player'.on)
  BY <1>1, <1>3
<1>8. clock' \in Nat \ {0} /\ clock <= clock' /\ clock' <= MaxTime /\ shownAt' \subseteq 1..(clock' - 1)
  BY <1>1, <1>2
<1>9. UNCHANGED <<poll, ended, item>> /\ player' \in [play : Plays \cup {Null}, pos : Nat, on : BOOLEAN]
  BY <1>2, <1>3
<1> QED
  BY <1>2, <1>4, <1>5, <1>6, <1>7, <1>8, <1>9, MemberKeeps

LEMMA LoseKeeps ==
  ASSUME SamplingConstants, ViewingInv, Viewing!Lose PROVE ViewingInv'
<1>1. /\ Watched /\ clock \in Nat \ {0} /\ clock <= MaxTime /\ strange \in BOOLEAN
      /\ shownAt \subseteq 1..(clock - 1) /\ player.pos \in Nat
      /\ player \in [play : Plays \cup {Null}, pos : Nat, on : BOOLEAN]
      /\ (player.play = Null => player.pos = 0 /\ ~player.on)
  BY DEF ViewingInv, Watched
<1>2. Standing /\ UNCHANGED <<clock, player, poll, item, ended, shownAt, bound, strange>>
  BY DEF Viewing!Lose, Viewing!store, Standing
<1>3. /\ reports' \subseteq reports
      /\ session' = session \/ session' = [here |-> FALSE, play |-> Null, pos |-> 0, paused |-> FALSE, at |-> 0]
  BY DEF Viewing!Lose, Viewing!Idle
<1>4. session' \in Lists /\ session'.at <= clock' /\ (session' = session \/ session'.play = Null)
  <2>1. CASE session' = session
    BY <2>1, <1>1, <1>2 DEF Watched
  <2>2. CASE session' = [here |-> FALSE, play |-> Null, pos |-> 0, paused |-> FALSE, at |-> 0]
    <3>1. session'.at = 0 /\ session'.play = Null
      BY <2>2
    <3> QED
      BY <2>2, <3>1, <1>1, <1>2 DEF Lists
  <2> QED
    BY <1>3, <2>1, <2>2
<1>5. reports' \subseteq Messages
      /\ \A q \in reports' : q.sentAt <= clock' /\ (q.at # Null => q.sentAt <= q.at /\ q.at <= clock')
  BY <1>1, <1>2, <1>3 DEF Watched
<1>6. Opened
  BY <1>1, <1>2, NothingOpened
<1>7. ASSUME ~strange' PROVE (Observed /\ Played)'
  <2>1. Observed /\ Played
    BY <1>2, <1>7 DEF ViewingInv
  <2>2. \A a, x \in Nat : Reached(a, x)' => Reached(a, x)
    BY <1>2, <1>3, <1>4 DEF Reached, Standing
  <2>3. \A q \in reports' : q.at # Null => q.at = q.sentAt
    BY <2>1, <1>3 DEF Observed
  <2>4. Observed'
    BY <2>1, <2>2, <2>3, <1>1, <1>2, ObservedKept
  <2> QED
    BY <2>1, <2>4, <1>2, PlayedKept DEF Standing
<1>8. strange' \in BOOLEAN /\ player'.pos <= player.pos
  BY <1>1, <1>2
<1> QED
  BY <1>1, <1>2, <1>4, <1>5, <1>6, <1>7, <1>8, MemberKeeps

LEMMA ArriveKeeps ==
  ASSUME SamplingConstants, ViewingInv, NEW r \in reports, Viewing!Arrive(r) PROVE ViewingInv'
<1>1. /\ Watched /\ clock \in Nat \ {0} /\ clock <= MaxTime /\ strange \in BOOLEAN
      /\ shownAt \subseteq 1..(clock - 1) /\ player.pos \in Nat /\ r \in Messages /\ r.sentAt <= clock
      /\ player \in [play : Plays \cup {Null}, pos : Nat, on : BOOLEAN]
      /\ (player.play = Null => player.pos = 0 /\ ~player.on)
  BY DEF ViewingInv, Watched
<1>2. Standing /\ UNCHANGED <<clock, player, poll, item, ended, shownAt>> /\ r.at = Null
      /\ Viewing!Accepted(r) /\ bound' = Viewing!Closing(r) /\ strange' = (strange \/ r.sentAt < clock)
  BY DEF Viewing!Arrive, Standing
<1>3. News(r)
  BY <1>1, <1>2, AcceptedNews DEF Sendable
<1>4. Opened
  BY <1>1, <1>2, ClosingOpens
<1>5. r.sentAt \in Nat /\ r.pos \in Nat
  BY <1>1 DEF Messages
<1>6. ASSUME ~strange' PROVE (Observed /\ Played)'
  <2>a. ~strange /\ ~(r.sentAt < clock)
    BY <1>2, <1>6
  <2>b. r.sentAt = clock
    BY <2>a, <1>1, <1>5
  <2>1. Observed /\ Played /\ r.sentAt = clock
    BY <2>a, <2>b DEF ViewingInv
  <2>2. ASSUME NEW a \in Nat, NEW x \in Nat, Reached(a, x)' PROVE Reached(a, x)
    <3>1. CASE \E q \in reports' : q.sentAt = a /\ q.pos = x
      BY <3>1, <1>3 DEF News, Reached
    <3>2. CASE session'.play # Null /\ session'.at = a /\ session'.pos = x
      BY <3>2, <1>3, <2>1 DEF News, Reached
    <3>3. CASE poll # Null /\ poll.play # Null /\ poll.at = a /\ poll.pos = x
      BY <3>3 DEF Reached
    <3>4. CASE viewing # Null /\ viewing.seen # Null /\ ~viewing.seen.bad /\ viewing.seen.at = a /\ viewing.seen.pos = x
      BY <3>4 DEF Reached
    <3> QED
      BY <2>2, <3>1, <3>2, <3>3, <3>4, <1>2 DEF Reached, Standing
  <2>3. \A q \in reports' : q.at # Null => q.at = q.sentAt
    BY <2>1, <1>3 DEF News, Observed
  <2>4. player'.pos \in Nat /\ player'.pos <= player.pos
    BY <1>1, <1>2
  <2>5. Observed'
    BY <2>1, <2>2, <2>3, <2>4, <1>1, <1>2, ObservedKept
  <2> QED
    BY <2>1, <2>5, <1>2, PlayedKept DEF Standing
<1>7. strange' \in BOOLEAN
  BY <1>1, <1>2
<1>8. session' \in Lists /\ session'.at <= clock' /\ reports' \subseteq Messages
      /\ \A q \in reports' : q.sentAt <= clock' /\ (q.at # Null => q.sentAt <= q.at /\ q.at <= clock')
  BY <1>2, <1>3 DEF News
<1> QED
  BY <1>1, <1>2, <1>4, <1>6, <1>7, <1>8, MemberKeeps

LEMMA TickKeeps ==
  ASSUME SamplingConstants, ViewingInv, Viewing!Tick PROVE ViewingInv'
<1>1. /\ Watched /\ clock \in Nat \ {0} /\ clock <= MaxTime /\ strange \in BOOLEAN
      /\ shownAt \subseteq 1..(clock - 1) /\ player.pos \in Nat /\ player.on \in BOOLEAN /\ player.play \in Plays \cup {Null}
      /\ player \in [play : Plays \cup {Null}, pos : Nat, on : BOOLEAN]
      /\ (player.play = Null => player.pos = 0 /\ ~player.on)
  BY DEF ViewingInv, Watched
<1>2. Standing /\ UNCHANGED <<session, reports, poll, item, ended, bound, strange>> /\ clock' = clock + 1
      /\ clock < MaxTime
  BY DEF Viewing!Tick, Viewing!store, Standing
<1>3. MaxTime \in Nat
  BY DEF SamplingConstants, Viewing!SamplingBounds
<1>4. clock' \in Nat \ {0} /\ clock <= clock' /\ clock' <= MaxTime
  BY <1>1, <1>2, <1>3
<1>7. Opened
  BY <1>1, <1>2, NothingOpened
<1>8. session' \in Lists /\ session'.at <= clock' /\ reports' \subseteq Messages
      /\ \A q \in reports' : q.sentAt <= clock' /\ (q.at # Null => q.sentAt <= q.at /\ q.at <= clock')
  <2>1. session \in Lists /\ session.at <= clock /\ session.at \in Nat
    BY <1>1 DEF Watched, Lists
  <2>2. session' \in Lists /\ session'.at <= clock'
    BY <2>1, <1>1, <1>2
  <2>3. reports' \subseteq Messages
    BY <1>1, <1>2 DEF Watched
  <2>4. ASSUME NEW q \in reports
        PROVE q.sentAt <= clock' /\ (q.at # Null => q.sentAt <= q.at /\ q.at <= clock')
    <3>1. q.sentAt \in Nat /\ q.at \in Nat \cup {Null} /\ q.sentAt <= clock
          /\ (q.at # Null => q.sentAt <= q.at /\ q.at <= clock)
      BY <1>1 DEF Watched, Messages
    <3> QED
      BY <3>1, <1>1, <1>2
  <2> QED
    BY <2>2, <2>3, <2>4, <1>2
<1>9. strange' \in BOOLEAN /\ UNCHANGED <<poll, ended, item>>
  BY <1>1, <1>2
<1>5. CASE player.on
  <2>1. player' = [player EXCEPT !.pos = @ + 1] /\ shownAt' = shownAt \cup {clock}
    BY <1>5 DEF Viewing!Tick
  <2>2. player' \in [play : Plays \cup {Null}, pos : Nat, on : BOOLEAN] /\ player'.pos = player.pos + 1
        /\ player'.play = player.play /\ player'.play # Null
    BY <1>1, <1>5, <2>1
  <2>3. shownAt' \subseteq 1..(clock' - 1) /\ clock \notin shownAt
    BY <1>1, <1>2, <2>1
  <2>4. ASSUME NEW a, NEW b \in Nat, b <= clock PROVE Showings(a, b)' = Showings(a, b)
    BY <1>1, <2>1, <2>4 DEF Showings
  <2>5. ASSUME NEW a \in Nat, a <= clock
        PROVE Cardinality(Showings(a, clock)') = Cardinality(Showings(a, clock)) + 1
    <3>1. Showings(a, clock)' = Showings(a, clock) \cup {clock}
      BY <1>1, <1>2, <2>1, <2>5 DEF Showings
    <3>2. clock \notin Showings(a, clock) /\ IsFiniteSet(Showings(a, clock))
      BY <1>1, <2>3, ShowingsFinite DEF Showings
    <3> QED
      BY <3>1, <3>2, FS_AddElement
  <2>6. ASSUME ~strange' PROVE (Observed /\ Played)'
    <3>1. Observed /\ Played
      BY <1>2, <2>6 DEF ViewingInv
    <3>2. \A a, x : Reached(a, x)' = Reached(a, x)
      BY <1>2 DEF Reached, Standing
    <3>3. ASSUME NEW a \in Nat, NEW x \in Nat, Reached(a, x)
          PROVE a <= clock /\ a <= clock' /\ player'.pos <= x + Cardinality(Showings(a, clock)')
      <4>1. a <= clock /\ player.pos <= x + Cardinality(Showings(a, clock))
        BY <3>1, <3>3 DEF Observed
      <4>2. Cardinality(Showings(a, clock)) \in Nat
        BY <1>1, ShowingsFinite
      <4> QED
        BY <4>1, <4>2, <2>2, <2>5, <1>1, <1>2
    <3>4. ASSUME NEW a \in Nat, NEW x \in Nat, NEW b \in Nat, NEW y \in Nat, Reached(a, x), Reached(b, y), a < b
          PROVE y <= x + Cardinality(Showings(a, b)')
      BY <3>1, <3>3, <3>4, <2>4 DEF Observed
    <3>5. Observed'
      BY <3>1, <3>2, <3>3, <3>4, <1>2 DEF Observed
    <3>6. Played'
      <4>1. \A s \in samples : s.to \in Nat /\ s.to <= clock
        BY <1>1 DEF ViewingInv, Fronts, Watched, Samples
      <4>2. \A s \in samples : Showings(s.since, s.to)' = Showings(s.since, s.to)
        BY <4>1, <2>4, <1>2 DEF Standing
      <4> QED
        BY <4>2, <3>1, <1>2 DEF Played, Standing
    <3> QED
      BY <3>5, <3>6
  <2> QED
    BY <1>2, <1>4, <2>2, <2>3, <2>6, <1>7, <1>8, <1>9, MemberKeeps
<1>6. CASE ~player.on
  <2>1. player' = player /\ shownAt' = shownAt
    BY <1>6 DEF Viewing!Tick
  <2>2. shownAt' \subseteq 1..(clock' - 1)
    BY <1>1, <1>2, <2>1
  <2>5. ASSUME NEW a, NEW b PROVE Showings(a, b)' = Showings(a, b)
    BY <2>1 DEF Showings
  <2>6. ASSUME ~strange' PROVE (Observed /\ Played)'
    <3>1. Observed /\ Played
      BY <1>2, <2>6 DEF ViewingInv
    <3>2. \A a, x : Reached(a, x)' = Reached(a, x)
      BY <1>2 DEF Reached, Standing
    <3>3. ASSUME NEW a \in Nat, NEW x \in Nat, Reached(a, x)
          PROVE a <= clock' /\ player'.pos <= x + Cardinality(Showings(a, clock)')
      <4>1. a <= clock /\ player.pos <= x + Cardinality(Showings(a, clock))
        BY <3>1, <3>3 DEF Observed
      <4>a. \A t \in shownAt : t < clock /\ t < clock'
        BY <1>1, <1>2
      <4>2. Showings(a, clock)' = Showings(a, clock)
        BY <4>a, <2>1 DEF Showings
      <4> QED
        BY <4>1, <4>2, <2>1, <1>1, <1>2
    <3>5. Observed'
      BY <3>1, <3>2, <3>3, <2>5, <1>2 DEF Observed
    <3>6. Played'
      BY <3>1, <2>1, <1>2, PlayedKept DEF Standing
    <3> QED
      BY <3>5, <3>6
  <2> QED
    BY <1>1, <1>2, <1>4, <2>1, <2>2, <2>6, <1>7, <1>8, <1>9, MemberKeeps
<1> QED
  BY <1>1, <1>5, <1>6

(* ------------------------- what is kept of him ------------------------- *)
Kind == [issued : Nat, closed : BOOLEAN]
LEMMA StoreKeeps ==
  ASSUME ViewingInv, UNCHANGED <<clock, player, item, session, shownAt, strange>>, reports' \subseteq reports,
         poll' \in {poll, Null, session}, downAt' \in 1..clock, bound' \in [Plays -> Kind \cup {Null}],
         ended' \in [Plays -> BOOLEAN], keys' \in Nat, samples' \subseteq Samples,
         finished' \in Seq([key : Nat, seconds : Nat]), viewing' # Null => State(viewing)',
         checkpoint' # Null => State(checkpoint)', Fronts', Endings', Books',
         ~strange => Played',
         ~strange /\ viewing' # Null /\ viewing'.seen # Null /\ ~viewing'.seen.bad =>
            Reached(viewing'.seen.at, viewing'.seen.pos)
  PROVE  ViewingInv'
<1>1. Watched /\ player.pos \in Nat
  BY DEF ViewingInv, Watched
<1>2. poll' # Null => poll' \in Lists /\ poll'.at <= clock
  BY <1>1 DEF Watched
<1>3. Watched'
  <2>1. reports' \subseteq Messages
        /\ \A q \in reports' : q.sentAt <= clock' /\ (q.at # Null => q.sentAt <= q.at /\ q.at <= clock')
    BY <1>1 DEF Watched
  <2>2. clock' \in Nat \ {0} /\ clock' <= MaxTime /\ downAt' \in 1..clock'
        /\ player' \in [play : Plays \cup {Null}, pos : Nat, on : BOOLEAN]
        /\ (player'.play = Null => player'.pos = 0 /\ ~player'.on)
        /\ item' \in [Plays -> Items] /\ session' \in Lists /\ session'.at <= clock'
        /\ strange' \in BOOLEAN /\ shownAt' \subseteq 1..(clock' - 1)
    BY <1>1 DEF Watched
  <2> QED
    BY <2>1, <2>2, <1>2 DEF Watched, Kind
<1>4. ASSUME ~strange PROVE Observed'
  <2>1. Observed
    BY <1>4 DEF ViewingInv
  <2>2. ASSUME NEW a \in Nat, NEW x \in Nat, Reached(a, x)' PROVE Reached(a, x)
    <3>1. CASE \E q \in reports' : q.sentAt = a /\ q.pos = x
      BY <3>1 DEF Reached
    <3>2. CASE session'.play # Null /\ session'.at = a /\ session'.pos = x
      BY <3>2 DEF Reached
    <3>3. CASE poll' # Null /\ poll'.play # Null /\ poll'.at = a /\ poll'.pos = x
      BY <3>3 DEF Reached
    <3>4. CASE viewing' # Null /\ viewing'.seen # Null /\ ~viewing'.seen.bad /\ viewing'.seen.at = a /\ viewing'.seen.pos = x
      BY <3>4, <1>4
    <3> QED
      BY <2>2, <3>1, <3>2, <3>3, <3>4 DEF Reached
  <2>3. \A q \in reports' : q.at # Null => q.at = q.sentAt
    BY <2>1 DEF Observed
  <2> QED
    BY <1>1, <2>1, <2>2, <2>3, ObservedKept
<1> QED
  BY <1>3, <1>4 DEF ViewingInv

LEMMA StoreStands ==
  ASSUME SamplingConstants, ViewingInv, reports' \subseteq reports, poll' \in {poll, Null, session},
         UNCHANGED <<clock, player, item, session, shownAt, strange, downAt, bound, ended, keys, samples, finished,
                     viewing, checkpoint>>
  PROVE  ViewingInv'
<1>1. UNCHANGED <<clock, player, item, session, shownAt, strange, downAt, bound, ended, keys, samples, finished,
                  viewing, checkpoint>> /\ poll' \in {poll, Null, session}
  OBVIOUS
<1>2. Watched /\ clock \in Nat /\ keys \in Nat
  BY DEF ViewingInv, Watched
<1>3. (viewing' # Null => State(viewing)') /\ (checkpoint' # Null => State(checkpoint)')
  BY <1>1, <1>2, Remembered
<1>4. Fronts'
  BY <1>1, <1>2, FrontsKept DEF ViewingInv
<1>5. Books'
  BY <1>1, BooksKept DEF ViewingInv
<1>6. Endings'
  BY <1>1, <1>2, NothingOpened, EndsKept DEF ViewingInv
<1>7. ~strange => Played'
  BY <1>1, PlayedKept DEF ViewingInv
<1>8. viewing # Null => State(viewing)
  BY <1>2 DEF Watched
<1>9. viewing' # Null /\ viewing'.seen # Null /\ ~viewing'.seen.bad => Reached(viewing'.seen.at, viewing'.seen.pos)
  BY <1>1 DEF Reached
<1>10. /\ downAt' \in 1..clock /\ bound' \in [Plays -> Kind \cup {Null}] /\ ended' \in [Plays -> BOOLEAN]
       /\ keys' \in Nat /\ samples' \subseteq Samples /\ finished' \in Seq([key : Nat, seconds : Nat])
  BY <1>1, <1>2 DEF Watched, Kind
<1> QED
  BY <1>1, <1>3, <1>4, <1>5, <1>6, <1>7, <1>9, <1>10, StoreKeeps

LEMMA AskingKeeps ==
  ASSUME SamplingConstants, ViewingInv, Viewing!AskSessions \/ Viewing!ListFails PROVE ViewingInv'
<1>1. UNCHANGED <<clock, player, item, session, shownAt, strange, reports, downAt, bound, ended, keys, samples, finished,
                  viewing, checkpoint>> /\ poll' \in {Null, session}
  BY DEF Viewing!AskSessions, Viewing!ListFails, Viewing!stage, Viewing!store
<1> QED
  BY <1>1, StoreStands

(* A state whose observations are dropped.                                  *)
Clear(w, v) ==
  /\ State(w) /\ w.key = v.key /\ w.seen = Null /\ w.item = v.item /\ w.seconds = v.seconds /\ w.play = v.play

LEMMA ResetClears ==
  ASSUME NEW v, State(v), NEW x \in BOOLEAN, NEW w, w = Viewing!Reset(v, x) PROVE Clear(w, v)
<1>1. StateFields(v) /\ w = [v EXCEPT !.stopped = x, !.seen = Null, !.source = "none", !.received = 0,
                                      !.signature = Null]
  BY DEF State, Content, Viewing!Reset
<1>2. StateFields(w)
  BY <1>1 DEF StateFields
<1>3. w.key = v.key /\ w.play = v.play /\ w.item = v.item
  BY <1>1 DEF StateFields
<1>4. w.seen = Null /\ w.source = "none" /\ w.received = 0
  BY <1>1 DEF StateFields
<1>5. w.stopped = x /\ w.end = v.end /\ w.started = v.started
  BY <1>1 DEF StateFields
<1>6. w.lastTs = v.lastTs /\ w.seconds = v.seconds
  BY <1>1 DEF StateFields
<1> QED
  BY <1>2, <1>3, <1>4, <1>5, <1>6 DEF Clear, State, Content

LEMMA RestoredClears ==
  ASSUME NEW v, State(v), NEW w, w = Viewing!Restored(v) PROVE Clear(w, v)
<1>1. v.stopped \in BOOLEAN
  BY DEF State, Content
<1>2. PICK u : u = Viewing!Reset(v, v.stopped)
  OBVIOUS
<1>3. Clear(u, v)
  BY <1>1, <1>2, ResetClears
<1>4. w = [u EXCEPT !.lastTs = Null] /\ StateFields(u)
  BY <1>2, <1>3 DEF Viewing!Restored, Clear, State, Content
<1>5. StateFields(w)
  BY <1>4 DEF StateFields
<1>6. w.key = u.key /\ w.play = u.play /\ w.item = u.item
  BY <1>4 DEF StateFields
<1>7. w.seen = u.seen /\ w.source = u.source /\ w.received = u.received
  BY <1>4 DEF StateFields
<1>8. w.stopped = u.stopped /\ w.end = u.end /\ w.started = u.started
  BY <1>4 DEF StateFields
<1>9. w.lastTs = Null /\ w.seconds = u.seconds
  BY <1>4 DEF StateFields
<1> QED
  BY <1>3, <1>5, <1>6, <1>7, <1>8, <1>9 DEF Clear, State, Content

LEMMA ClearSteps ==
  ASSUME SamplingConstants, ViewingInv, UNCHANGED <<clock, samples, finished, keys>>, NEW v, NEW w, viewing' = w, checkpoint' # Null => checkpoint' = w \/ checkpoint' = v,
         Clear(w, v), State(v), viewing # Null, v.key = viewing.key, v.seconds = viewing.seconds
  PROVE  State(viewing)' /\ (checkpoint' # Null => State(checkpoint)') /\ Books' /\ Fronts'
<1>1. State(viewing)'
  BY DEF Clear, State, Content, Observation
<1>2. checkpoint' # Null => State(checkpoint)'
  <2>1. CASE checkpoint' = w
    BY <2>1, <1>1 DEF State, Content, Observation
  <2>2. CASE checkpoint' = v
    BY <2>2 DEF State, Content, Observation
  <2> QED
    BY <2>1, <2>2
<1>3. w.key = viewing.key /\ w.seconds = viewing.seconds /\ w.seen = Null
  BY DEF Clear
<1>4. Books'
  <2>1. \A k : Viewing!Credited(k)' = Viewing!Credited(k)
    BY CreditedKept
  <2>2. \A i \in DOMAIN finished :
       /\ finished[i].key \in 1..keys /\ finished[i].seconds = Viewing!Credited(finished[i].key)
       /\ finished[i].key # w.key
       /\ \A j \in DOMAIN finished : finished[i].key = finished[j].key => i = j
    BY <1>3 DEF ViewingInv, Books
  <2>3. w.seconds = Viewing!Credited(w.key)
    BY <1>3 DEF ViewingInv, Books
  <2>4. w # Null /\ (checkpoint' # Null => checkpoint'.key = w.key /\ checkpoint'.seconds = w.seconds)
    BY <1>3 DEF Clear, State, Content, SamplingConstants
  <2>5. \A s \in samples' : s.key \in 1..keys'
    BY DEF ViewingInv, Books
  <2> QED
    BY <2>1, <2>2, <2>3, <2>4, <2>5 DEF Books
<1>5. Fronts'
  BY <1>3 DEF ViewingInv, Fronts
<1> QED
  BY <1>1, <1>2, <1>4, <1>5

LEMMA PlaybackReportKeeps ==
  ASSUME SamplingConstants, ViewingInv, NEW r \in reports, Viewing!playback_report(r) PROVE ViewingInv'
<1> DEFINE stops == r.kind = "stopped"
           mine == viewing # Null /\ viewing.play = r.play /\ viewing.item = item[r.play]
<1>1. /\ Watched /\ clock \in Nat /\ keys \in Nat /\ r.play \in Plays /\ ended \in [Plays -> BOOLEAN]
      /\ bound \in [Plays -> Kind \cup {Null}] /\ (viewing # Null => State(viewing)) /\ downAt \in 1..clock
  BY DEF ViewingInv, Watched, Messages, Kind
<1>2. /\ UNCHANGED <<clock, player, item, session, poll, samples, finished, keys, shownAt, downAt, strange>>
      /\ reports' \subseteq reports /\ ended' = [ended EXCEPT ![r.play] = stops]
      /\ IF mine THEN viewing' = Viewing!Reset(viewing, stops) /\ checkpoint' = viewing'
                 ELSE UNCHANGED <<viewing, checkpoint>>
  BY DEF Viewing!playback_report
<1>3. PICK b : b = bound'
  OBVIOUS
<1>4. \A p \in Plays : p # r.play => b[p] = bound[p]
  BY <1>1, <1>3 DEF Viewing!playback_report
<1>5. b \in [Plays -> Kind \cup {Null}] /\ (stops => b[r.play] # Null /\ b[r.play].closed)
  <2> DEFINE new == [issued |-> IF mine THEN viewing.started ELSE 0, closed |-> TRUE]
             x == bound[r.play]
  <2>1. new \in Kind /\ new.closed /\ Null \notin Kind
    BY <1>1 DEF Kind, State, Content, SamplingConstants
  <2>2. x \in Kind \cup {Null}
    BY <1>1
  <2>3. x # Null => [x EXCEPT !.closed = TRUE] \in Kind /\ [x EXCEPT !.closed = TRUE].closed
                    /\ [x EXCEPT !.closed = FALSE] \in Kind
    BY <2>2 DEF Kind
  <2>4. PICK y : b = [bound EXCEPT ![r.play] = y] /\
           y = (IF x = Null THEN (IF stops THEN new ELSE x)
                ELSE IF stops THEN [x EXCEPT !.closed = TRUE]
                ELSE IF (x.issued > 0 \/ mine) /\ ~Viewing!Superseded(r.play) THEN [x EXCEPT !.closed = FALSE] ELSE x)
    BY <1>3 DEF Viewing!playback_report
  <2> HIDE DEF new, x, mine
  <2>5. y \in Kind \cup {Null} /\ (stops => y # Null /\ y.closed)
    BY <2>1, <2>2, <2>3, <2>4
  <2> QED
    BY <1>1, <2>4, <2>5
<1>6. Endings'
  <2>1. ASSUME NEW p \in Plays, ended'[p] PROVE b[p] # Null /\ b[p].closed
    <3>1. CASE p = r.play
      BY <3>1, <2>1, <1>1, <1>2, <1>5
    <3>2. CASE p # r.play
      BY <3>2, <2>1, <1>1, <1>2, <1>4 DEF ViewingInv, Endings, Viewing!Closed
    <3> QED
      BY <3>1, <3>2
  <2>2. \A p \in Plays : p # Null
    BY DEF SamplingConstants
  <2> QED
    BY <2>1, <2>2, <1>2, <1>3 DEF ViewingInv, Endings, Viewing!Closed
<1>7. /\ (viewing' # Null => State(viewing)') /\ (checkpoint' # Null => State(checkpoint)') /\ Fronts' /\ Books'
      /\ viewing' # Null /\ viewing'.seen # Null => viewing' = viewing
  <2>1. CASE mine
    <3>1. PICK w : w = viewing' /\ w = Viewing!Reset(viewing, stops) /\ checkpoint' = w
      BY <2>1, <1>2
    <3>2. Clear(w, viewing) /\ viewing # Null
      BY <3>1, <2>1, <1>1, ResetClears
    <3>3. w.seen = Null
      BY <3>2 DEF Clear
    <3> HIDE DEF mine, stops
    <3>4. State(viewing)' /\ (checkpoint' # Null => State(checkpoint)') /\ Books' /\ Fronts'
      BY <3>1, <3>2, <1>1, <1>2, ClearSteps
    <3> QED
      BY <3>1, <3>3, <3>4
  <2>2. CASE ~mine
    <3>1. UNCHANGED <<viewing, checkpoint>>
      BY <2>2, <1>2
    <3> HIDE DEF mine, stops
    <3>2. (viewing' # Null => State(viewing)') /\ (checkpoint' # Null => State(checkpoint)')
      BY <3>1, <1>1, <1>2, Remembered
    <3>3. Fronts' /\ Books'
      BY <3>1, <1>1, <1>2, FrontsKept, BooksKept DEF ViewingInv
    <3> QED
      BY <3>1, <3>2, <3>3
  <2> QED
    BY <2>1, <2>2
<1>8. ~strange => Played'
  BY <1>2, PlayedKept DEF ViewingInv
<1>9. viewing' # Null /\ viewing'.seen # Null /\ ~viewing'.seen.bad => Reached(viewing'.seen.at, viewing'.seen.pos)
  BY <1>7 DEF Reached
<1>10. /\ downAt' \in 1..clock /\ bound' \in [Plays -> Kind \cup {Null}] /\ ended' \in [Plays -> BOOLEAN]
       /\ keys' \in Nat /\ samples' \subseteq Samples /\ finished' \in Seq([key : Nat, seconds : Nat])
  BY <1>1, <1>2, <1>3, <1>5 DEF Watched
<1> QED
  BY <1>2, <1>6, <1>7, <1>8, <1>9, <1>10, StoreKeeps

LEMMA CrashKeeps ==
  ASSUME SamplingConstants, ViewingInv, Viewing!Crash PROVE ViewingInv'
<1>1. /\ Watched /\ clock \in Nat \ {0} /\ keys \in Nat /\ ended \in [Plays -> BOOLEAN]
      /\ bound \in [Plays -> Kind \cup {Null}] /\ (checkpoint # Null => State(checkpoint))
  BY DEF ViewingInv, Watched, Kind
<1>2. /\ UNCHANGED <<clock, player, item, session, checkpoint, samples, finished, keys, shownAt, strange, ended>>
      /\ reports' \subseteq reports /\ poll' = Null /\ downAt' = clock
      /\ IF checkpoint = Null THEN viewing' = Null ELSE viewing' = Viewing!Restored(checkpoint)
  BY DEF Viewing!Crash
<1>3. Opened
  <2>1. CASE bound' = bound
    BY <2>1, <1>1, NothingOpened
  <2>2. CASE /\ checkpoint # Null /\ checkpoint.play # Null /\ bound[checkpoint.play] = Null
             /\ bound' = [bound EXCEPT ![checkpoint.play] = [issued |-> checkpoint.started, closed |-> FALSE]]
    <3>1. PICK b : b = bound'
      OBVIOUS
    <3>2. checkpoint.play \in Plays /\ checkpoint.started \in Nat
      BY <2>2, <1>1 DEF State, Content
    <3>3. b \in [Plays -> [issued : Nat, closed : BOOLEAN] \cup {Null}]
      BY <3>1, <3>2, <2>2, <1>1 DEF Kind
    <3>4. \A q \in Plays : Viewing!Closed(q) => b[q] # Null /\ b[q].closed
      BY <3>1, <2>2, <1>1 DEF Viewing!Closed
    <3> QED
      BY <1>1, <3>1, <3>3, <3>4, ClosedStay
  <2> QED
    BY <2>1, <2>2 DEF Viewing!Crash
<1>4. Endings'
  BY <1>2, <1>3, EndsKept DEF ViewingInv
<1>5. /\ (viewing' # Null => State(viewing)') /\ (checkpoint' # Null => State(checkpoint)') /\ Fronts' /\ Books'
      /\ viewing' # Null => viewing'.seen = Null
  <2>1. CASE checkpoint # Null
    <3>1. PICK w : w = viewing' /\ w = Viewing!Restored(checkpoint)
      BY <2>1, <1>2
    <3>2. PICK v : v = checkpoint
      OBVIOUS
    <3>3. Clear(w, v) /\ State(v)
      BY <3>1, <3>2, <2>1, <1>1, RestoredClears
    <3>4. viewing # Null /\ v.key = viewing.key /\ v.seconds = viewing.seconds
      BY <2>1, <3>2 DEF ViewingInv, Books
    <3>5. State(viewing)' /\ (checkpoint' # Null => State(checkpoint)') /\ Books' /\ Fronts'
      BY <3>1, <3>2, <3>3, <3>4, <1>2, ClearSteps
    <3> QED
      BY <3>1, <3>3, <3>5 DEF Clear
  <2>2. CASE checkpoint = Null
    <3>1. viewing' = Null /\ checkpoint' = Null
      BY <2>2, <1>2
    <3>2. \A k : Viewing!Credited(k)' = Viewing!Credited(k)
      BY <1>2, CreditedKept
    <3> QED
      BY <3>1, <3>2, <1>2 DEF ViewingInv, Fronts, Books
  <2> QED
    BY <2>1, <2>2
<1>6. ~strange => Played'
  BY <1>2, PlayedKept DEF ViewingInv
<1>7. /\ downAt' \in 1..clock /\ bound' \in [Plays -> Kind \cup {Null}] /\ ended' \in [Plays -> BOOLEAN]
      /\ keys' \in Nat /\ samples' \subseteq Samples /\ finished' \in Seq([key : Nat, seconds : Nat])
  BY <1>1, <1>2, <1>3 DEF Watched, Opened, Kind
<1> QED
  BY <1>2, <1>4, <1>5, <1>6, <1>7, StoreKeeps

(* ------------------------- what is credited ---------------------------- *)
LEMMA CountIsCount == \A T : Viewing!Cardinality(T) = Cardinality(T)
BY Zenon DEF Viewing!Cardinality, Cardinality

LEMMA TicksFinite ==
  ASSUME Watched, Fronts, NEW k
  PROVE  IsFiniteSet(Viewing!Ticks(k)) /\ Viewing!Credited(k) = Cardinality(Viewing!Ticks(k)) /\ Viewing!Credited(k) \in Nat
<1>1. \A s \in samples : s.from \in Nat /\ s.to \in Nat /\ s.to <= clock
  BY DEF Watched, Fronts, Samples
<1>2. clock \in Nat
  BY DEF Watched
<1>3. ASSUME NEW t \in Viewing!Ticks(k) PROVE t \in 0..clock
  <2>1. PICK s \in samples : t \in s.from .. (s.to - 1)
    BY DEF Viewing!Ticks
  <2> QED
    BY <2>1, <1>1, <1>2
<1>4. IsFiniteSet(0..clock)
  BY <1>2, FS_Interval
<1>5. IsFiniteSet(Viewing!Ticks(k))
  BY <1>3, <1>4, FS_Subset
<1>6. Viewing!Credited(k) = Cardinality(Viewing!Ticks(k))
  BY CountIsCount DEF Viewing!Credited
<1> QED
  BY <1>5, <1>6, FS_CardinalityType

(* A sample after all others counts its length, for its play alone.         *)
LEMMA CreditedMore ==
  ASSUME Watched, Fronts, NEW z, samples' = samples \cup {z}, z.from \in Nat, z.to \in Nat, z.from < z.to,
         \A s \in samples : s.to <= z.from
  PROVE  /\ \A k : k # z.key => Viewing!Credited(k)' = Viewing!Credited(k)
         /\ Viewing!Credited(z.key)' = Viewing!Credited(z.key) + (z.to - z.from)
<1>1. \A s \in samples : s.from \in Nat /\ s.to \in Nat
  BY DEF Watched, Samples
<1>2. ASSUME NEW k, k # z.key PROVE Viewing!Credited(k)' = Viewing!Credited(k)
  <2>1. {x \in samples' : x.key = k} = {x \in samples : x.key = k}
    BY <1>2
  <2> QED
    BY <2>1 DEF Viewing!Credited, Viewing!Ticks
<1> DEFINE k == z.key
           more == z.from .. (z.to - 1)
<1>3. Viewing!Ticks(k)' = Viewing!Ticks(k) \cup more
  BY DEF Viewing!Ticks
<1>4. Viewing!Ticks(k) \cap more = {}
  <2>1. ASSUME NEW t \in Viewing!Ticks(k), t \in more PROVE FALSE
    <3>1. PICK s \in samples : t \in s.from .. (s.to - 1)
      BY DEF Viewing!Ticks
    <3>2. t <= s.to - 1 /\ t >= z.from /\ t \in Int /\ s.to \in Nat /\ s.to <= z.from
      BY <2>1, <3>1, <1>1
    <3> QED
      BY <3>2
  <2> QED
    BY <2>1
<1>5. IsFiniteSet(more) /\ Cardinality(more) = z.to - z.from
  <2>1. z.to - 1 \in Int /\ z.from \in Int /\ ~(z.from > z.to - 1) /\ z.to - 1 - z.from + 1 = z.to - z.from
    OBVIOUS
  <2> QED
    BY <2>1, FS_Interval
<1>6. IsFiniteSet(Viewing!Ticks(k)) /\ Viewing!Credited(k) = Cardinality(Viewing!Ticks(k)) /\ Viewing!Credited(k) \in Nat
  BY TicksFinite
<1>7. Cardinality(Viewing!Ticks(k) \cup more) = Cardinality(Viewing!Ticks(k)) + (z.to - z.from)
  <2> HIDE DEF more
  <2>1. Cardinality(Viewing!Ticks(k) \cup more) = Cardinality(Viewing!Ticks(k)) + Cardinality(more) - Cardinality({})
    BY <1>4, <1>5, <1>6, FS_Union
  <2> QED
    BY <2>1, <1>5, <1>6, FS_EmptySet
<1>8. Viewing!Credited(k)' = Cardinality(Viewing!Ticks(k)')
  BY CountIsCount DEF Viewing!Credited
<1>9. Viewing!Credited(k)' = Viewing!Credited(k) + (z.to - z.from)
  BY <1>3, <1>6, <1>7, <1>8
<1> QED
  BY <1>2, <1>9

(* What is made of the state after the proof: the rest of it may be set.    *)
Made(w, v, o, source, r) ==
  /\ StateFields(w) /\ w.key = v.key /\ w.item = v.item /\ w.seen = r.state.seen /\ w.end = r.state.end
  /\ w.seconds = r.state.seconds /\ w.started = v.started /\ w.stopped = v.stopped /\ w.source = source
  /\ w.received \in Nat /\ w.lastTs \in Nat \cup {Null} /\ w.play \in Plays \cup {Null}
  /\ o.play # Null => w.play = o.play

LEMMA MadeContent ==
  ASSUME SamplingConstants, clock \in Nat, NEW v, NEW o, NEW source \in {"poll", "progress"}, NEW r, NEW w, Content(v),
         Observation(o), o.floor = clock, Proves(v, o, source, r), Nothing(v, o, r) \/ Something(v, o, source, r),
         Made(w, v, o, source, r)
  PROVE  /\ Content(w) /\ w.seen # Null
         /\ w.seen.pos = o.pos /\ w.seen.at = o.at /\ w.seen.bad = o.bad
         /\ w.seen.floor \in Nat
<1>1. /\ SeenFields(w.seen) /\ w.seen.pos = o.pos /\ w.seen.at = o.at /\ w.seen.play = o.play /\ w.seen.bad = o.bad
  BY DEF Proves, Made
<1>2. o.at \in Nat /\ o.at <= clock /\ v.end \in Nat /\ v.seconds \in Nat /\ v.end <= clock
  BY DEF Observation, Content
<1>3. /\ w.seen.floor \in Nat /\ w.seen.floor <= clock
      /\ w.end \in Nat /\ w.end <= clock /\ w.seconds \in Nat
  <2>1. CASE Nothing(v, o, r)
    BY <2>1, <1>2 DEF Nothing, Made
  <2>2. CASE Something(v, o, source, r)
    <3>1. r.interval.from \in Nat /\ r.interval.from < o.at
      BY <2>2 DEF Something, Earned, Between
    <3> QED
      BY <2>2, <3>1, <1>2 DEF Something, Made
  <2> QED
    BY <2>1, <2>2
<1>4. Observation(w.seen)
  BY <1>1, <1>3 DEF Observation
<1>5. w.seen # Null
  BY <1>1 DEF SamplingConstants
<1> QED
  BY <1>1, <1>3, <1>4, <1>5 DEF Content, Made

(* Plays that are over: each counted once, and not the play k.              *)
Over(f, k) ==
  \A i \in DOMAIN f :
    /\ f[i].key \in 1..keys /\ f[i].key # k /\ f[i].seconds = Viewing!Credited(f[i].key)
    /\ \A j \in DOMAIN f : f[i].key = f[j].key => i = j

LEMMA Booked ==
  ASSUME NEW f, NEW k, NEW w, f = finished', w = viewing', w # Null, w.key = k, Over(f, k), keys \in Nat, keys' \in Nat, keys <= keys',
         \A j : j # k => Viewing!Credited(j)' = Viewing!Credited(j), w.seconds = Viewing!Credited(k)',
         \A s \in samples' : s.key \in 1..keys',
         checkpoint' # Null => checkpoint'.key = k /\ checkpoint'.seconds = w.seconds
  PROVE  Books'
<1>1. \A i \in DOMAIN f : Viewing!Credited(f[i].key)' = Viewing!Credited(f[i].key) /\ f[i].key \in 1..keys'
  BY DEF Over
<1>2. \A i \in DOMAIN finished' :
       /\ f[i].key \in 1..keys' /\ f[i].seconds = Viewing!Credited(f[i].key)' /\ f[i].key # w.key
       /\ \A j \in DOMAIN finished' : f[i].key = f[j].key => i = j
  BY <1>1 DEF Over
<1> QED
  BY <1>2 DEF Books

LEMMA Crediting ==
  ASSUME SamplingConstants, ViewingInv, UNCHANGED <<clock, shownAt, downAt, ended>>, Opened,
         NEW v, NEW o, NEW source \in {"poll", "progress"}, NEW r, NEW w, NEW z, NEW f,
         Content(v), Observation(o), o.floor = clock, Proves(v, o, source, r),
         Nothing(v, o, r) \/ Something(v, o, source, r), Made(w, v, o, source, r), viewing' = w,
         v.seen # Null => viewing # Null /\ v = viewing,
         keys' \in Nat, keys <= keys', v.key \in 1..keys',
         z = [key |-> w.key, from |-> r.interval.from, to |-> r.interval.to, since |-> v.seen.at, up |-> downAt,
              ended |-> (w.play # Null /\ ended[w.play])],
         samples' = IF r.interval = Viewing!NoTime THEN samples ELSE samples \cup {z},
         Something(v, o, source, r) => ~(w.play # Null /\ ended[w.play]),
         ~strange /\ ~o.bad => Reached(o.at, o.pos),
         v.seconds = Viewing!Credited(v.key), f = finished', Over(f, v.key),
         checkpoint' # Null => checkpoint' = w \/ (checkpoint' = checkpoint /\ viewing # Null /\ v = viewing /\ Nothing(v, o, r))
  PROVE  /\ State(viewing)' /\ (checkpoint' # Null => State(checkpoint)') /\ samples' \subseteq Samples
         /\ Fronts' /\ Endings' /\ Books' /\ (~strange => Played')
         /\ ~strange /\ ~w.seen.bad => Reached(w.seen.at, w.seen.pos)
<1>1. /\ Watched /\ clock \in Nat /\ keys \in Nat /\ downAt \in Nat /\ downAt <= clock /\ samples \subseteq Samples
      /\ Fronts /\ Endings /\ Books /\ (checkpoint # Null => State(checkpoint))
  BY DEF ViewingInv, Watched
<1>2. /\ Content(w) /\ w.seen # Null /\ w.seen.pos = o.pos /\ w.seen.at = o.at /\ w.seen.bad = o.bad
      /\ w.seen.floor \in Nat
  BY <1>1, MadeContent
<1>3. w # Null /\ w.key = v.key
  BY <1>2 DEF Content, Made, SamplingConstants
<1>4. State(viewing)'
  BY <1>2, <1>3 DEF State, Content, Observation
<1>5. checkpoint' # Null => State(checkpoint)'
  <2>1. CASE checkpoint' = w
    BY <2>1, <1>2, <1>3 DEF State, Content, Observation
  <2>2. CASE checkpoint' = checkpoint
    <3>1. PICK c : c = checkpoint
      OBVIOUS
    <3>2. c # Null => Content(c) /\ c.key \in 1..keys
      BY <3>1, <1>1 DEF State
    <3>3. c # Null => c.key \in 1..keys'
      BY <3>2, <1>1
    <3> QED
      BY <2>2, <3>1, <3>2, <3>3 DEF State, Content, Observation
  <2> QED
    BY <2>1, <2>2
<1>6. \A s \in samples : s.from \in Nat /\ s.to \in Nat /\ s.up \in Nat /\ s.key \in Nat
  BY <1>1 DEF Samples
<1>7. o.at \in Nat /\ o.at <= clock /\ o.pos \in Nat
  BY DEF Observation
<1>8. CASE Nothing(v, o, r)
  <2>1. samples' = samples /\ w.seen.floor = clock /\ w.seconds = v.seconds
    BY <1>8 DEF Nothing, Made
  <2>2. Fronts'
    BY <2>1, <1>1 DEF Fronts
  <2>3. Endings'
    BY <2>1, <1>1, EndsKept
  <2>4. checkpoint' # Null => checkpoint'.key = v.key /\ checkpoint'.seconds = w.seconds
    BY <2>1, <1>1, <1>3 DEF Books
  <2>5. \A k : Viewing!Credited(k)' = Viewing!Credited(k)
    BY <2>1, CreditedKept
  <2>6. \A s \in samples' : s.key \in 1..keys'
    <3>1. \A s \in samples : s.key \in 1..keys
      BY <1>1 DEF Books
    <3> QED
      BY <3>1, <2>1, <1>1
  <2>7. Books'
    BY <2>1, <2>4, <2>5, <2>6, <1>1, <1>3, Booked
  <2>8. ~strange => Played'
    BY <2>1, PlayedKept DEF ViewingInv
  <2> QED
    BY <2>1, <2>2, <2>3, <2>7, <2>8, <1>1, <1>2, <1>4, <1>5
<1>9. CASE Something(v, o, source, r)
  <2>1. samples' = samples \cup {z} /\ v = viewing /\ viewing # Null /\ viewing.seen # Null
    BY <1>9 DEF Something
  <2>2. /\ r.interval.from \in Nat /\ r.interval.to = o.at /\ v.seen.floor <= r.interval.from
        /\ r.interval.from < o.at /\ v.end <= r.interval.from /\ ~v.seen.bad /\ ~o.bad /\ v.seen.at < o.at
        /\ Rated => o.at - r.interval.from <= o.pos - v.seen.pos
    BY <1>9 DEF Something, Earned, Between
  <2>3. w.seen.floor = o.at /\ w.end = o.at /\ w.seconds = v.seconds + (o.at - r.interval.from)
    BY <1>9 DEF Something, Made
  <2>4. v.seen.floor \in Nat /\ v.seen.at \in Nat /\ v.seen.pos \in Nat /\ v.end \in Nat /\ v.seconds \in Nat
    BY <2>1 DEF Content, Observation
  <2>5. z.key = v.key /\ z.from = r.interval.from /\ z.to = o.at /\ z.since = v.seen.at /\ z.up = downAt /\ z.ended = FALSE
    BY <2>2, <1>3, <1>9
  <2>6. z \in Samples
    <3>1. z = [key |-> v.key, from |-> r.interval.from, to |-> o.at, since |-> v.seen.at, up |-> downAt, ended |-> FALSE]
      BY <2>2, <1>3, <1>9
    <3>2. v.key \in Nat
      OBVIOUS
    <3> QED
      BY <3>1, <3>2, <2>2, <2>4, <1>1, <1>7 DEF Samples
  <2>7. downAt <= v.seen.floor /\ \A s \in samples : s.to <= v.seen.floor \/ s.to <= v.end
    BY <2>1, <1>1 DEF Fronts
  <2>8. \A s \in samples : s.to <= z.from
    BY <2>2, <2>4, <2>5, <2>7, <1>6
  <2>9. Fronts'
    <3>1. \A s \in samples : s.from < s.to /\ s.to <= clock /\ s.up <= s.from /\ s.to <= o.at
      BY <2>2, <2>5, <2>8, <1>1, <1>6, <1>7 DEF Fronts
    <3>2. z.from < z.to /\ z.to <= clock /\ z.up <= z.from /\ z.to <= o.at
      BY <2>2, <2>4, <2>5, <2>7, <1>1, <1>7
    <3>3. \A s, t \in samples' : s = t \/ s.to <= t.from \/ t.to <= s.from
      BY <2>1, <2>8, <1>1 DEF Fronts
    <3>4. downAt <= w.seen.floor
      BY <2>2, <2>3, <2>4, <2>7, <1>1, <1>7
    <3> QED
      BY <3>1, <3>2, <3>3, <3>4, <2>1, <2>3 DEF Fronts
  <2>10. Endings'
    <3>1. \A p \in Plays : ended'[p] => Viewing!Closed(p)'
      BY <1>1 DEF Endings, Opened
    <3> QED
      BY <3>1, <2>1, <2>5, <1>1 DEF Endings
  <2>11. /\ \A k : k # v.key => Viewing!Credited(k)' = Viewing!Credited(k)
         /\ Viewing!Credited(v.key)' = Viewing!Credited(v.key) + (o.at - r.interval.from)
    BY <2>1, <2>2, <2>5, <2>8, <1>1, <1>7, CreditedMore
  <2>12. checkpoint' # Null => checkpoint'.key = v.key /\ checkpoint'.seconds = w.seconds
    BY <1>3, <1>9, <2>1 DEF Something, Nothing
  <2>13. \A s \in samples' : s.key \in 1..keys'
    <3>1. \A s \in samples : s.key \in 1..keys
      BY <1>1 DEF Books
    <3> QED
      BY <3>1, <2>1, <2>5, <1>1
  <2>14. Books'
    BY <2>3, <2>11, <2>12, <2>13, <1>1, <1>3, Booked
  <2>15. ASSUME ~strange PROVE Played'
    <3>1. Observed /\ Played
      BY <2>15 DEF ViewingInv
    <3>2. Reached(v.seen.at, v.seen.pos)
      BY <2>1, <2>2 DEF Reached
    <3>3. o.pos <= v.seen.pos + Cardinality(Showings(v.seen.at, o.at))
      BY <3>1, <3>2, <2>2, <2>4, <2>15, <1>7 DEF Observed
    <3>4. Cardinality(Showings(v.seen.at, o.at)) \in Nat
      BY <1>1, ShowingsFinite
    <3>5. Rated => z.to - z.from <= Cardinality(Showings(z.since, z.to))
      BY <3>3, <3>4, <2>2, <2>4, <2>5, <1>7
    <3>6. \A a, b : Showings(a, b)' = Showings(a, b)
      BY DEF Showings
    <3>7. \A s \in samples' : s \in samples \/ s = z
      BY <2>1
    <3> QED
      BY <3>1, <3>5, <3>6, <3>7 DEF Played
  <2>16. samples' \subseteq Samples
    BY <2>1, <2>6, <1>1
  <2> QED
    BY <2>9, <2>10, <2>14, <2>15, <2>16, <1>2, <1>4, <1>5
<1> QED
  BY <1>8, <1>9

(* What a step finds that credits a play, and what it leaves.             *)
Credits(v, o, source, r, w, z, f) ==
  /\ UNCHANGED <<clock, shownAt, downAt, ended>> /\ Opened /\ Content(v) /\ Observation(o) /\ o.floor = clock
  /\ Proves(v, o, source, r) /\ (Nothing(v, o, r) \/ Something(v, o, source, r)) /\ Made(w, v, o, source, r)
  /\ w = viewing' /\ (v.seen # Null => viewing # Null /\ v = viewing)
  /\ keys' \in Nat /\ keys <= keys' /\ v.key \in 1..keys'
  /\ z = [key |-> w.key, from |-> r.interval.from, to |-> r.interval.to, since |-> v.seen.at, up |-> downAt,
          ended |-> (w.play # Null /\ ended[w.play])]
  /\ samples' = IF r.interval = Viewing!NoTime THEN samples ELSE samples \cup {z}
  /\ Something(v, o, source, r) => ~(w.play # Null /\ ended[w.play])
  /\ ~strange /\ ~o.bad => Reached(o.at, o.pos)
  /\ v.seconds = Viewing!Credited(v.key) /\ f = finished' /\ Over(f, v.key)
  /\ checkpoint' # Null => checkpoint' = w \/ (checkpoint' = checkpoint /\ viewing # Null /\ v = viewing /\ Nothing(v, o, r))
CreditsKeep(w) ==
  /\ State(viewing)' /\ (checkpoint' # Null => State(checkpoint)') /\ samples' \subseteq Samples
  /\ Fronts' /\ Endings' /\ Books' /\ (~strange => Played')
  /\ ~strange /\ ~w.seen.bad => Reached(w.seen.at, w.seen.pos)

LEMMA CreditsKept ==
  ASSUME SamplingConstants, ViewingInv, NEW v, NEW o, NEW source \in {"poll", "progress"}, NEW r, NEW w, NEW z, NEW f,
         Credits(v, o, source, r, w, z, f)
  PROVE  CreditsKeep(w)
<1>1. UNCHANGED <<clock, shownAt, downAt, ended>> /\ Opened /\ Content(v) /\ Observation(o) /\ o.floor = clock
  BY DEF Credits
<1>2. Proves(v, o, source, r) /\ (Nothing(v, o, r) \/ Something(v, o, source, r)) /\ Made(w, v, o, source, r)
  BY DEF Credits
<1>3. viewing' = w /\ (v.seen # Null => viewing # Null /\ v = viewing) /\ keys' \in Nat /\ keys <= keys' /\ v.key \in 1..keys'
  BY DEF Credits
<1>4. z = [key |-> w.key, from |-> r.interval.from, to |-> r.interval.to, since |-> v.seen.at, up |-> downAt,
           ended |-> (w.play # Null /\ ended[w.play])]
  BY DEF Credits
<1>5. samples' = IF r.interval = Viewing!NoTime THEN samples ELSE samples \cup {z}
  BY DEF Credits
<1>6. /\ Something(v, o, source, r) => ~(w.play # Null /\ ended[w.play])
      /\ ~strange /\ ~o.bad => Reached(o.at, o.pos)
      /\ v.seconds = Viewing!Credited(v.key) /\ f = finished' /\ Over(f, v.key)
  BY DEF Credits
<1>7. checkpoint' # Null => checkpoint' = w \/ (checkpoint' = checkpoint /\ viewing # Null /\ v = viewing /\ Nothing(v, o, r))
  BY DEF Credits
<1>8. /\ State(viewing)' /\ (checkpoint' # Null => State(checkpoint)') /\ samples' \subseteq Samples
      /\ Fronts' /\ Endings' /\ Books' /\ (~strange => Played')
      /\ ~strange /\ ~w.seen.bad => Reached(w.seen.at, w.seen.pos)
  BY <1>1, <1>2, <1>3, <1>4, <1>5, <1>6, <1>7, Crediting
<1> QED
  BY <1>8 DEF CreditsKeep

Observes(o, p, pos, at, x) ==
  Observation(o) /\ o.floor = clock /\ o.pos = pos /\ o.at = at /\ o.play = p /\ (x => o.bad)

LEMMA ObservationMade ==
  ASSUME SamplingConstants, clock \in Nat, NEW p \in Plays \cup {Null}, NEW pos \in Nat, NEW paused \in BOOLEAN, NEW at \in Nat,
         at <= clock, NEW x \in BOOLEAN, NEW o, o = [Viewing!watch_observation(p, pos, paused, at) EXCEPT !.bad = @ \/ x]
  PROVE  Observes(o, p, pos, at, x)
<1>1. Age \in Nat
  BY DEF SamplingConstants, Viewing!SamplingBounds
<1>2. (paused \/ clock - at > Age) \in BOOLEAN
  OBVIOUS
<1>3. PICK y \in BOOLEAN : y = (paused \/ clock - at > Age)
  BY <1>2
<1>4. Viewing!watch_observation(p, pos, paused, at) = [pos |-> pos, at |-> at, play |-> p, floor |-> clock, recent |-> <<>>, bad |-> y]
  BY <1>3 DEF Viewing!watch_observation
<1>5. PICK q : q = Viewing!watch_observation(p, pos, paused, at)
  OBVIOUS
<1>6. q.bad = y /\ o = [q EXCEPT !.bad = q.bad \/ x]
  BY <1>4, <1>5
<1>7. o = [pos |-> pos, at |-> at, play |-> p, floor |-> clock, recent |-> <<>>, bad |-> (y \/ x)]
  BY <1>4, <1>5, <1>6
<1>8. o.bad = (y \/ x)
  BY <1>7
<1>9. o.bad \in BOOLEAN /\ (x => o.bad)
  BY <1>8
<1>10. o.pos = pos /\ o.at = at /\ o.play = p /\ o.floor = clock /\ o.recent = <<>>
  BY <1>7
<1>11. SeenFields(o)
  BY <1>7, <1>8, <1>10 DEF SeenFields
<1> QED
  BY <1>9, <1>10, <1>11 DEF Observation, Observes

LEMMA FreshContent ==
  ASSUME SamplingConstants, Watched, NEW p \in Plays \cup {Null}, NEW title \in Items \cup {Null}, NEW source \in {"poll", "none"},
         NEW o, o # Null => Observation(o) /\ o.play = p, NEW v, v = Viewing!Fresh(p, title, o, source)
  PROVE  Content(v) /\ v.key = keys + 1 /\ v.seen = o /\ v.seconds = 0 /\ v.play = p /\ v.item = title
         /\ v.end = 0 /\ StateFields(v)
<1>1. clock \in Nat /\ keys \in Nat
  BY DEF Watched
<1>2. StateFields(v)
  BY DEF Viewing!Fresh, StateFields
<1>3. v.key = keys + 1 /\ v.play = p /\ v.item = title /\ v.seen = o /\ v.source = source
  BY DEF Viewing!Fresh
<1>4. v.received = 0 /\ v.stopped = FALSE /\ v.end = 0 /\ v.started = clock /\ v.lastTs = clock /\ v.seconds = 0
  BY DEF Viewing!Fresh
<1>a. v.stopped \in BOOLEAN
  BY <1>4
<1>5. v.received \in Nat /\ v.end \in Nat /\ v.end <= clock /\ v.started \in Nat
      /\ v.lastTs \in Nat \cup {Null} /\ v.seconds \in Nat
  BY <1>1, <1>4
<1>6. v.seen # Null => Observation(v.seen) /\ (v.seen.play # Null => v.play = v.seen.play)
  BY <1>3
<1>7. Content(v)
  BY <1>2, <1>3, <1>5, <1>6, <1>a DEF Content
<1> QED
  BY <1>2, <1>3, <1>4, <1>7

LEMMA FinishOver ==
  ASSUME ViewingInv, NEW f, NEW k, k \notin 1..keys,
         f = finished \/ (viewing # Null /\ f = Viewing!_finish(viewing))
  PROVE  Over(f, k) /\ f \in Seq([key : Nat, seconds : Nat])
<1>1. finished \in Seq([key : Nat, seconds : Nat]) /\ keys \in Nat /\ (viewing # Null => State(viewing)) /\ Books
  BY DEF ViewingInv, Watched
<1>2. CASE f = finished
  BY <1>1, <1>2 DEF Books, Over
<1>3. CASE viewing # Null /\ f # finished /\ f = Viewing!_finish(viewing)
  <2> DEFINE e == [key |-> viewing.key, seconds |-> viewing.seconds]
  <2>1. f = Append(finished, e)
    BY <1>3 DEF Viewing!_finish
  <2>2. viewing.key \in 1..keys /\ viewing.seconds \in Nat /\ viewing.seconds = Viewing!Credited(viewing.key)
    BY <1>1, <1>3 DEF State, Content, Books
  <2>3. e \in [key : Nat, seconds : Nat] /\ e.key = viewing.key /\ e.seconds = viewing.seconds
    BY <2>2, <1>1
  <2> HIDE DEF e
  <2>4. f \in Seq([key : Nat, seconds : Nat]) /\ DOMAIN f = 1..(Len(finished) + 1) /\ Len(finished) \in Nat
        /\ f[Len(finished) + 1] = e /\ \A i \in 1..Len(finished) : f[i] = finished[i]
    BY <2>1, <2>3, <1>1
  <2>5. DOMAIN finished = 1..Len(finished)
    BY <1>1
  <2>6. ASSUME NEW i \in DOMAIN f PROVE f[i].key \in 1..keys /\ f[i].seconds = Viewing!Credited(f[i].key)
    <3>1. CASE i \in 1..Len(finished)
      BY <3>1, <2>4, <2>5, <1>1 DEF Books
    <3>2. CASE i = Len(finished) + 1
      BY <3>2, <2>2, <2>3, <2>4
    <3> QED
      BY <3>1, <3>2, <2>4, <2>6
  <2>7. ASSUME NEW i \in DOMAIN f, NEW j \in DOMAIN f, f[i].key = f[j].key PROVE i = j
    <3>1. \A m \in 1..Len(finished) : f[m].key # e.key
      <4>1. \A m \in DOMAIN finished : finished[m].key # viewing.key
        BY <1>1, <1>3 DEF Books
      <4> QED
        BY <4>1, <2>3, <2>4, <2>5
    <3>2. CASE i \in 1..Len(finished) /\ j \in 1..Len(finished)
      BY <3>2, <2>4, <2>5, <2>7, <1>1 DEF Books
    <3>3. CASE i = Len(finished) + 1
      BY <3>1, <3>3, <2>4, <2>7
    <3>4. CASE j = Len(finished) + 1
      BY <3>1, <3>4, <2>4, <2>7
    <3> QED
      BY <3>2, <3>3, <3>4, <2>4, <2>7
  <2> QED
    BY <2>4, <2>6, <2>7 DEF Over
<1> QED
  BY <1>2, <1>3

LEMMA NothingYet ==
  ASSUME SamplingConstants, ViewingInv PROVE Viewing!Credited(keys + 1) = 0
<1>1. keys \in Nat /\ \A s \in samples : s.key # keys + 1
  BY DEF ViewingInv, Watched, Books
<1>2. {x \in samples : x.key = keys + 1} = {}
  BY <1>1
<1>3. Viewing!Ticks(keys + 1) = {}
  BY <1>2 DEF Viewing!Ticks
<1> QED
  BY <1>3, CountIsCount, FS_EmptySet DEF Viewing!Credited

(* The rest of the state is set.                                            *)
Carried(w, u) ==
  /\ StateFields(w) /\ w.key = u.key /\ w.item = u.item /\ w.stopped = u.stopped /\ w.started = u.started
  /\ w.source = u.source /\ w.seen = u.seen /\ w.end = u.end /\ w.seconds = u.seconds

KeptBut(w, u, received, play, lastTs) ==
  Carried(w, u) /\ w.received = received /\ w.play = play /\ w.lastTs = lastTs

LEMMA Progressed ==
  ASSUME NEW u, StateFields(u), NEW a, NEW b, NEW p, NEW w,
         w = [u EXCEPT !.received = a, !.signature = b, !.play = p]
  PROVE  KeptBut(w, u, a, p, u.lastTs)
<1>1. StateFields(w)
  BY DEF StateFields
<1>2. w.key = u.key /\ w.item = u.item /\ w.stopped = u.stopped
  BY DEF StateFields
<1>3. w.started = u.started /\ w.lastTs = u.lastTs /\ w.source = u.source
  BY DEF StateFields
<1>4. w.seen = u.seen /\ w.end = u.end /\ w.seconds = u.seconds
  BY DEF StateFields
<1>5. w.received = a /\ w.play = p
  BY DEF StateFields
<1> QED
  BY <1>1, <1>2, <1>3, <1>4, <1>5 DEF Carried, KeptBut

LEMMA Timed ==
  ASSUME NEW u, StateFields(u), NEW a, NEW p, NEW w, w = [u EXCEPT !.lastTs = a, !.play = p]
  PROVE  KeptBut(w, u, u.received, p, a)
<1>1. StateFields(w)
  BY DEF StateFields
<1>2. w.key = u.key /\ w.item = u.item /\ w.stopped = u.stopped
  BY DEF StateFields
<1>3. w.started = u.started /\ w.lastTs = a /\ w.source = u.source
  BY DEF StateFields
<1>4. w.seen = u.seen /\ w.end = u.end /\ w.seconds = u.seconds
  BY DEF StateFields
<1>5. w.received = u.received /\ w.play = p
  BY DEF StateFields
<1> QED
  BY <1>1, <1>2, <1>3, <1>4, <1>5 DEF Carried, KeptBut

LEMMA KeptMade ==
  ASSUME NEW v, NEW o, NEW source, NEW r, NEW w, Proves(v, o, source, r), Carried(w, r.state),
         w.received \in Nat, w.lastTs \in Nat \cup {Null}, w.play \in Plays \cup {Null}, o.play # Null => w.play = o.play
  PROVE  Made(w, v, o, source, r)
  BY DEF Made, Proves, Carried

(* ------------------------------ a report ------------------------------- *)
Advanced(r, v, p) ==
  /\ viewing' = [p.state EXCEPT !.received = r.at, !.signature = Viewing!Signature(r), !.play = r.play]
  /\ checkpoint' = viewing' /\ Viewing!_record_watch(viewing', p.interval, Viewing!Before(v, "progress"))
  /\ bound' = [q \in Plays |-> IF q # r.play /\ bound[q] # Null /\ bound[r.play] # Null
                                     /\ bound[q].issued <= bound[r.play].issued
                               THEN [bound[q] EXCEPT !.closed = TRUE] ELSE bound[q]]
  /\ finished' = IF Viewing!Replaces(r.play) /\ viewing # Null THEN Viewing!_finish(viewing) ELSE finished
  /\ keys' = IF Viewing!Replaces(r.play) THEN keys + 1 ELSE keys

LEMMA PlaybackProgressKeeps ==
  ASSUME SamplingConstants, ViewingInv, NEW r \in reports, Viewing!playback_progress(r) PROVE ViewingInv'
<1>1. /\ Watched /\ clock \in Nat /\ keys \in Nat /\ r \in Messages /\ r.play \in Plays /\ r.at \in Nat /\ r.at <= clock
      /\ ended \in [Plays -> BOOLEAN] /\ bound \in [Plays -> Kind \cup {Null}] /\ (viewing # Null => State(viewing))
      /\ downAt \in 1..clock /\ r.pos \in Nat /\ r.paused \in BOOLEAN /\ item[r.play] \in Items /\ r.sentAt \in Nat
  BY DEF ViewingInv, Watched, Messages, Kind, Viewing!playback_progress
<1>2. /\ UNCHANGED <<clock, player, item, session, shownAt, downAt, ended, strange, poll>> /\ reports' \subseteq reports
  BY DEF Viewing!playback_progress, Viewing!stage
<1> DEFINE new == Viewing!Replaces(r.play)
<1>3. PICK v : /\ v = IF new THEN Viewing!Fresh(r.play, item[r.play], Null, "none") ELSE viewing
               /\ IF ~Viewing!Matches(r.play) \/ v = Null THEN UNCHANGED Viewing!store
                  ELSE IF Viewing!Late(v, r) THEN UNCHANGED Viewing!store
                  ELSE \E seen \in {Viewing!watch_observation(r.play, r.pos, r.paused, r.at)} :
                       \E proof \in {Viewing!_proof(v, [seen EXCEPT !.bad = @ \/ Viewing!Signature(r) = v.signature],
                                       IF v.received = 0 THEN 0 ELSE r.at - v.received, "progress")} :
                          Advanced(r, v, proof)
  BY DEF Viewing!playback_progress, Advanced
<1>4. CASE UNCHANGED Viewing!store
  BY <1>2, <1>4, StoreStands DEF Viewing!store
<1>5. CASE ~UNCHANGED Viewing!store
  <2>1. Viewing!Matches(r.play) /\ v # Null
    BY <1>3, <1>5
  <2>2. PICK x \in BOOLEAN : x = (Viewing!Signature(r) = v.signature)
    OBVIOUS
  <2>3. PICK o : o = [Viewing!watch_observation(r.play, r.pos, r.paused, r.at) EXCEPT !.bad = @ \/ x]
    OBVIOUS
  <2>b. Observes(o, r.play, r.pos, r.at, x)
    BY <2>3, <1>1, ObservationMade
  <2>4. Observation(o) /\ o.floor = clock /\ o.pos = r.pos /\ o.at = r.at /\ o.play = r.play
    BY <2>b DEF Observes
  <2>a. PICK gap, p : p = Viewing!_proof(v, o, gap, "progress") /\ Advanced(r, v, p)
    BY <1>3, <1>5, <2>2, <2>3
  <2>5. /\ p = Viewing!_proof(v, o, gap, "progress")
        /\ viewing' = [p.state EXCEPT !.received = r.at, !.signature = Viewing!Signature(r), !.play = r.play]
        /\ checkpoint' = viewing' /\ Viewing!_record_watch(viewing', p.interval, Viewing!Before(v, "progress"))
        /\ finished' = IF Viewing!Replaces(r.play) /\ viewing # Null THEN Viewing!_finish(viewing) ELSE finished
        /\ keys' = IF Viewing!Replaces(r.play) THEN keys + 1 ELSE keys
    BY <2>a DEF Advanced
  <2> HIDE DEF new
  <2>6. Content(v) /\ keys' \in Nat /\ keys <= keys' /\ v.key \in 1..keys'
        /\ v.seconds = Viewing!Credited(v.key) /\ (v.seen # Null => viewing # Null /\ v = viewing /\ ~new)
        /\ Over(finished', v.key) /\ finished' \in Seq([key : Nat, seconds : Nat])
    <3>1. CASE new
      <4>1. Content(v) /\ v.key = keys + 1 /\ v.seen = Null /\ v.seconds = 0
        BY <3>1, <1>1, <1>3, FreshContent
      <4>2. keys' = keys + 1
        BY <3>1, <2>5 DEF new
      <4>3. PICK f : f = finished'
        OBVIOUS
      <4>4. f = finished \/ (viewing # Null /\ f = Viewing!_finish(viewing))
        BY <4>3, <2>5
      <4>5. Over(f, v.key) /\ f \in Seq([key : Nat, seconds : Nat])
        BY <4>1, <4>4, <1>1, FinishOver
      <4>6. Viewing!Credited(v.key) = 0
        BY <4>1, NothingYet
      <4> QED
        BY <4>1, <4>2, <4>3, <4>5, <4>6, <1>1
    <3>2. CASE ~new
      <4>1. v = viewing /\ keys' = keys /\ finished' = finished
        BY <3>2, <1>3, <2>5 DEF new
      <4>2. State(v)
        BY <4>1, <2>1, <1>1
      <4>3. Over(finished, v.key) /\ v.seconds = Viewing!Credited(v.key)
        BY <4>1, <2>1 DEF ViewingInv, Books, Over
      <4> QED
        BY <3>2, <4>1, <4>2, <4>3, <2>1, <1>1 DEF State, Watched
    <3> QED
      BY <3>1, <3>2
  <2>7. Proves(v, o, "progress", p) /\ (Nothing(v, o, p) \/ Something(v, o, "progress", p))
    BY <2>4, <2>5, <2>6, ProofProves
  <2>8. PICK w : w = viewing' /\ w = [p.state EXCEPT !.received = r.at, !.signature = Viewing!Signature(r), !.play = r.play]
    BY <2>5
  <2>9. Carried(w, p.state) /\ w.received = r.at /\ w.play = r.play /\ w.lastTs = v.lastTs
    <3>1. PICK u : u = p.state
      OBVIOUS
    <3>2. StateFields(u) /\ u.lastTs = v.lastTs
      BY <2>7, <3>1 DEF Proves
    <3>3. PICK a, b, q : a = r.at /\ b = Viewing!Signature(r) /\ q = r.play
      OBVIOUS
    <3>4. w = [u EXCEPT !.received = a, !.signature = b, !.play = q]
      BY <2>8, <3>1, <3>3
    <3>5. KeptBut(w, u, a, q, u.lastTs)
      BY <3>2, <3>4, Progressed
    <3> QED
      BY <3>1, <3>2, <3>3, <3>5 DEF KeptBut
  <2>10. Made(w, v, o, "progress", p)
    BY <2>4, <2>6, <2>7, <2>9, <1>1, KeptMade DEF Content
  <2>11. Opened
    <3>1. PICK b : b = bound'
      OBVIOUS
    <3>2. \A q \in Plays : b[q] = bound[q] \/ (bound[q] # Null /\ b[q] = [bound[q] EXCEPT !.closed = TRUE])
      BY <3>1, <2>a DEF Advanced
    <3>3. ASSUME NEW q \in Plays PROVE b[q] \in Kind \cup {Null} /\ (Viewing!Closed(q) => b[q] # Null /\ b[q].closed)
      <4>1. bound[q] \in Kind \cup {Null}
        BY <1>1
      <4>2. bound[q] # Null => [bound[q] EXCEPT !.closed = TRUE] \in Kind /\ [bound[q] EXCEPT !.closed = TRUE].closed
        BY <4>1 DEF Kind
      <4>3. Null \notin Kind
        BY DEF SamplingConstants, Kind
      <4> QED
        BY <4>1, <4>2, <4>3, <3>2 DEF Viewing!Closed
    <3>4. b = [q \in Plays |-> b[q]]
      BY <3>1, <2>a DEF Advanced
    <3>5. b \in [Plays -> Kind \cup {Null}]
      BY <3>3, <3>4
    <3> QED
      BY <3>1, <3>3, <3>5, <1>1, ClosedStay DEF Kind
  <2>12. Something(v, o, "progress", p) => ~ended[r.play]
    <3>1. ASSUME Something(v, o, "progress", p) PROVE ~Viewing!Closed(r.play)
      <4>1. Viewing!Matches(r.play)
        BY <2>1
      <4> QED
        BY <4>1 DEF Viewing!Matches, Viewing!Issued, Viewing!Closed
    <3> QED
      BY <3>1, <1>1 DEF ViewingInv, Endings
  <2>13. PICK z : z = [key |-> w.key, from |-> p.interval.from, to |-> p.interval.to, since |-> v.seen.at, up |-> downAt,
                       ended |-> (w.play # Null /\ ended[w.play])]
    OBVIOUS
  <2>14. samples' = IF p.interval = Viewing!NoTime THEN samples ELSE samples \cup {z}
    <3>1. CASE Nothing(v, o, p)
      BY <3>1, <2>5 DEF Nothing, Viewing!_record_watch
    <3>2. CASE Something(v, o, "progress", p)
      <4>1. Viewing!Before(v, "progress") = v.seen
        BY <3>2 DEF Something, Viewing!Before
      <4> QED
        BY <3>2, <4>1, <2>5, <2>8, <2>13 DEF Something, Viewing!_record_watch
    <3> QED
      BY <2>7, <3>1, <3>2
  <2>15. ASSUME ~strange PROVE Reached(o.at, o.pos)
    <3>1. r.at = r.sentAt
      BY <2>15, <1>1, Viewing!playback_progress(r) DEF ViewingInv, Observed, Viewing!playback_progress
    <3> QED
      BY <3>1, <2>4 DEF Reached
  <2>16. PICK f : f = finished'
    OBVIOUS
  <2>17. /\ State(viewing)' /\ (checkpoint' # Null => State(checkpoint)') /\ samples' \subseteq Samples
         /\ Fronts' /\ Endings' /\ Books' /\ (~strange => Played')
         /\ ~strange /\ ~w.seen.bad => Reached(w.seen.at, w.seen.pos)
    <3>1. checkpoint' # Null => checkpoint' = w
      BY <2>5, <2>8
    <3>2. Something(v, o, "progress", p) => ~(w.play # Null /\ ended[w.play])
      BY <2>9, <2>12
    <3>3. w = viewing' /\ UNCHANGED <<clock, shownAt, downAt, ended>> /\ Over(f, v.key)
          /\ (v.seen # Null => viewing # Null /\ v = viewing)
      BY <2>8, <2>16, <2>6, <1>2
    <3>4. Credits(v, o, "progress", p, w, z, f)
      BY <3>1, <3>2, <3>3, <2>4, <2>6, <2>7, <2>10, <2>11, <2>13, <2>14, <2>15, <2>16 DEF Credits
    <3>5. CreditsKeep(w)
      BY <3>4, CreditsKept
    <3> QED
      BY <3>5 DEF CreditsKeep
  <2>18. /\ downAt' \in 1..clock /\ bound' \in [Plays -> Kind \cup {Null}] /\ ended' \in [Plays -> BOOLEAN]
         /\ poll' \in {poll, Null, session}
    BY <2>11, <1>1, <1>2 DEF Opened, Kind
  <2> QED
    BY <2>6, <2>8, <2>17, <2>18, <1>2, StoreKeeps
<1> QED
  BY <1>4, <1>5

(* ------------------------------ a poll --------------------------------- *)
LEMMA TitleTypes ==
  ASSUME SamplingConstants, Watched, NEW w \in Lists
  PROVE  Viewing!Title(w) \in Items \cup {Null} /\ Viewing!Named(w) \in Plays \cup {Null}
         /\ (w.play = Null => Viewing!Named(w) = Null)
<1>1. w.play \in Plays \cup {Null} /\ item \in [Plays -> Items]
  BY DEF Lists, Watched
<1> QED
  BY <1>1 DEF Viewing!Title, Viewing!Named

LEMMA PolledMade ==
  ASSUME SamplingConstants, Watched, poll # Null, NEW o, o = Viewing!Polled(poll)
  PROVE  Observes(o, Viewing!Named(poll), poll.pos, poll.at, poll.play = Null)
<1>1. clock \in Nat /\ poll \in Lists /\ poll.at <= clock
  BY DEF Watched
<1>2. poll.pos \in Nat /\ poll.paused \in BOOLEAN /\ poll.at \in Nat /\ Viewing!Named(poll) \in Plays \cup {Null}
  BY <1>1, TitleTypes DEF Lists
<1>3. PICK x \in BOOLEAN : x = (poll.play = Null)
  OBVIOUS
<1>4. PICK p, pos, paused, at : p = Viewing!Named(poll) /\ pos = poll.pos /\ paused = poll.paused /\ at = poll.at
  OBVIOUS
<1>5. o = [Viewing!watch_observation(p, pos, paused, at) EXCEPT !.bad = @ \/ x]
  BY <1>3, <1>4 DEF Viewing!Polled
<1>6. Observes(o, p, pos, at, x)
  BY <1>1, <1>2, <1>4, <1>5, ObservationMade
<1> QED
  BY <1>3, <1>4, <1>6

\* What no sample of it changes.
PollStep ==
  /\ poll # Null /\ poll' = Null
  /\ UNCHANGED <<clock, player, item, session, reports, shownAt, downAt, ended, strange>>

LEMMA SavedIs ==
  ASSUME NEW w, NEW old, NEW c, c = Viewing!Saved(w, old)
  PROVE  c = w \/ c = Null \/ (c = checkpoint /\ ~(old # Null /\ checkpoint # Null /\ checkpoint.key = old.key)
                              /\ ~(w # Null /\ w.item # Null))
  BY DEF Viewing!Saved, Viewing!Kept

(* The session is gone, or is of another title or play.                     *)
LEMMA GoneKeeps ==
  ASSUME SamplingConstants, ViewingInv, PollStep, UNCHANGED <<keys, bound, samples>>,
         \/ UNCHANGED <<viewing, checkpoint, finished>>
         \/ viewing # Null /\ viewing' = Null /\ checkpoint' = Viewing!Kept(viewing) /\ finished' = Viewing!_finish(viewing)
  PROVE  ViewingInv'
<1>1. CASE UNCHANGED <<viewing, checkpoint, finished>>
  BY <1>1, StoreStands DEF PollStep
<1>2. CASE viewing # Null /\ viewing' = Null /\ checkpoint' = Viewing!Kept(viewing) /\ finished' = Viewing!_finish(viewing)
  <2>1. /\ Watched /\ keys \in Nat /\ clock \in Nat /\ Fronts /\ Endings /\ Books
    BY DEF ViewingInv, Watched
  <2>2. checkpoint' = Null
    BY <1>2, <2>1 DEF Viewing!Kept, Books
  <2>3. PICK f : f = finished'
    OBVIOUS
  <2>4. keys + 1 \notin 1..keys
    BY <2>1
  <2>5. Over(f, keys + 1) /\ f \in Seq([key : Nat, seconds : Nat])
    BY <1>2, <2>3, <2>4, FinishOver
  <2>6. \A k : Viewing!Credited(k)' = Viewing!Credited(k)
    BY CreditedKept
  <2>7. Books'
    <3>1. \A i \in DOMAIN finished' :
            /\ f[i].key \in 1..keys' /\ f[i].seconds = Viewing!Credited(f[i].key)'
            /\ \A j \in DOMAIN finished' : f[i].key = f[j].key => i = j
      BY <2>3, <2>5, <2>6 DEF Over
    <3>2. \A s \in samples' : s.key \in 1..keys'
      BY <2>1 DEF Books
    <3> QED
      BY <1>2, <2>2, <2>3, <3>1, <3>2 DEF Books
  <2>8. Fronts'
    BY <1>2, <2>1 DEF Fronts, PollStep
  <2>9. Endings'
    BY <2>1, NothingOpened, EndsKept DEF PollStep
  <2>10. ~strange => Played'
    BY PlayedKept DEF ViewingInv, PollStep
  <2>11. /\ downAt' \in 1..clock /\ bound' \in [Plays -> Kind \cup {Null}] /\ ended' \in [Plays -> BOOLEAN]
         /\ keys' \in Nat /\ samples' \subseteq Samples /\ finished' \in Seq([key : Nat, seconds : Nat])
    BY <2>1, <2>3, <2>5 DEF Watched, Kind, PollStep
  <2> QED
    BY <1>2, <2>2, <2>7, <2>8, <2>9, <2>10, <2>11, StoreKeeps DEF PollStep
<1> QED
  BY <1>1, <1>2

LEMMA AnotherKeeps ==
  ASSUME SamplingConstants, ViewingInv, PollStep, UNCHANGED <<bound, samples>>,
         viewing' = Viewing!Fresh(Viewing!Named(poll), Viewing!Title(poll), Viewing!Polled(poll), "poll"), keys' = keys + 1,
         checkpoint' = Viewing!Saved(viewing', viewing),
         finished' = IF viewing = Null THEN finished ELSE Viewing!_finish(viewing)
  PROVE  ViewingInv'
<1>1. /\ Watched /\ keys \in Nat /\ clock \in Nat /\ Fronts /\ Endings /\ Books /\ downAt \in 1..clock /\ poll \in Lists
  BY DEF ViewingInv, Watched, PollStep
<1>2. PICK o : o = Viewing!Polled(poll)
  OBVIOUS
<1>3. Observes(o, Viewing!Named(poll), poll.pos, poll.at, poll.play = Null)
  BY <1>1, <1>2, PolledMade DEF PollStep
<1>4. Observation(o) /\ o.floor = clock /\ o.pos = poll.pos /\ o.at = poll.at /\ (poll.play = Null => o.bad)
      /\ o.play = Viewing!Named(poll)
  BY <1>3 DEF Observes
<1>5. PICK w : w = viewing'
  OBVIOUS
<1>6. PICK p, t : p = Viewing!Named(poll) /\ t = Viewing!Title(poll) /\ p \in Plays \cup {Null} /\ t \in Items \cup {Null}
  BY <1>1, TitleTypes
<1>7. w = Viewing!Fresh(p, t, o, "poll")
  BY <1>2, <1>5, <1>6
<1>8. Content(w) /\ w.key = keys + 1 /\ w.seen = o /\ w.seconds = 0 /\ StateFields(w)
  <2>1. Observation(o) /\ o.play = p /\ p \in Plays \cup {Null} /\ t \in Items \cup {Null}
    BY <1>4, <1>6
  <2> QED
    BY <2>1, <1>1, <1>7, FreshContent
<1>9. w # Null /\ o # Null
  BY <1>4, <1>8 DEF SamplingConstants, Observation
<1>10. checkpoint' # Null => checkpoint' = w
  <2>1. PICK c : c = checkpoint' /\ c = Viewing!Saved(w, viewing)
    BY <1>5
  <2> QED
    BY <2>1, <1>1, SavedIs DEF Books
<1>11. State(viewing)' /\ (checkpoint' # Null => State(checkpoint)')
  BY <1>1, <1>5, <1>8, <1>10 DEF State, Content, Observation, PollStep
<1>12. Fronts'
  <2>1. \A s \in samples : s.to <= clock
    BY <1>1 DEF Fronts
  <2> QED
    BY <2>1, <1>1, <1>4, <1>5, <1>8 DEF Fronts, PollStep
<1>13. Books'
  <2>1. PICK f : f = finished'
    OBVIOUS
  <2>2. keys + 1 \notin 1..keys
    BY <1>1
  <2>3. f = finished \/ (viewing # Null /\ f = Viewing!_finish(viewing))
    BY <2>1
  <2>4. Over(f, keys + 1)
    BY <2>2, <2>3, FinishOver
  <2>5. \A k : Viewing!Credited(k)' = Viewing!Credited(k)
    BY CreditedKept
  <2>6. Viewing!Credited(keys + 1) = 0
    BY NothingYet
  <2>7. \A s \in samples : s.key \in 1..keys
    BY <1>1 DEF Books
  <2>8. \A s \in samples' : s.key \in 1..keys'
    BY <2>7, <1>1
  <2>9. PICK k : k = keys + 1
    OBVIOUS
  <2>10. w.seconds = Viewing!Credited(k)' /\ w.key = k /\ Over(f, k)
    BY <2>4, <2>5, <2>6, <2>9, <1>8
  <2> QED
    BY <2>1, <2>5, <2>8, <2>10, <1>1, <1>5, <1>9, <1>10, Booked
<1>14. Endings'
  BY <1>1, NothingOpened, EndsKept DEF PollStep
<1>15. ~strange => Played'
  BY PlayedKept DEF ViewingInv, PollStep
<1>16. ~w.seen.bad => Reached(w.seen.at, w.seen.pos)
  BY <1>4, <1>8 DEF Reached, PollStep
<1>17. finished' \in Seq([key : Nat, seconds : Nat])
  <2>1. PICK f : f = finished'
    OBVIOUS
  <2>2. keys + 1 \notin 1..keys
    BY <1>1
  <2>3. f = finished \/ (viewing # Null /\ f = Viewing!_finish(viewing))
    BY <2>1
  <2> QED
    BY <2>1, <2>2, <2>3, FinishOver
<1>18. /\ downAt' \in 1..clock /\ bound' \in [Plays -> Kind \cup {Null}] /\ ended' \in [Plays -> BOOLEAN]
       /\ keys' \in Nat /\ samples' \subseteq Samples
  BY <1>1 DEF Watched, Kind, PollStep
<1> QED
  BY <1>5, <1>11, <1>12, <1>13, <1>14, <1>15, <1>16, <1>17, <1>18, StoreKeeps DEF PollStep

(* The session goes on, and no report says more than the list.              *)
LEMMA SampledKeeps ==
  ASSUME SamplingConstants, ViewingInv, PollStep, UNCHANGED <<keys, bound, finished>>, viewing # Null, NEW gap, NEW x \in BOOLEAN,
         NEW o, o = [Viewing!Polled(poll) EXCEPT !.bad = @ \/ x], Viewing!Closed(viewing.play) => x,
         Viewing!Title(poll) = viewing.item, NEW p, p = Viewing!_proof(viewing, o, gap, "poll"),
         viewing' = [p.state EXCEPT !.lastTs = clock, !.play = IF o.play = Null THEN @ ELSE o.play],
         Viewing!_record_watch(viewing', p.interval, Viewing!Before(viewing, "poll")), checkpoint' = Viewing!Saved(viewing', Null)
  PROVE  ViewingInv'
<1>1. /\ Watched /\ keys \in Nat /\ clock \in Nat /\ Fronts /\ Endings /\ Books /\ downAt \in 1..clock /\ poll \in Lists
      /\ State(viewing) /\ ended \in [Plays -> BOOLEAN] /\ item \in [Plays -> Items]
  BY DEF ViewingInv, Watched, PollStep
<1>2. PICK q : q = Viewing!Polled(poll)
  OBVIOUS
<1>3. Observes(q, Viewing!Named(poll), poll.pos, poll.at, poll.play = Null)
  BY <1>1, <1>2, PolledMade DEF PollStep
<1>4. PICK b \in BOOLEAN : b = q.bad
  BY <1>3 DEF Observes, Observation
<1>5. o = [q EXCEPT !.bad = b \/ x] /\ SeenFields(q)
  BY <1>2, <1>3, <1>4 DEF Observes, Observation
<1>6. SeenFields(o) /\ o.pos = q.pos /\ o.at = q.at /\ o.play = q.play /\ o.floor = q.floor /\ o.bad = (b \/ x)
  <2>1. PICK y \in BOOLEAN : y = (b \/ x)
    OBVIOUS
  <2>2. o = [q EXCEPT !.bad = y]
    BY <1>5, <2>1
  <2>3. o.bad = y
    BY <1>5, <2>2 DEF SeenFields
  <2>4. SeenFields(o) /\ o.pos = q.pos /\ o.at = q.at /\ o.play = q.play /\ o.floor = q.floor
    BY <1>5, <2>2 DEF SeenFields
  <2> QED
    BY <2>1, <2>3, <2>4
<1>7. Observation(o) /\ o.floor = clock /\ o.pos = poll.pos /\ o.at = poll.at /\ o.play = Viewing!Named(poll)
  BY <1>3, <1>4, <1>6 DEF Observes, Observation
<1>8. ~o.bad => ~x /\ poll.play # Null
  BY <1>3, <1>4, <1>6 DEF Observes
<1>9. PICK v : v = viewing
  OBVIOUS
<1>10. Content(v) /\ v.key \in 1..keys
  BY <1>1, <1>9 DEF State
<1>11. p = Viewing!_proof(v, o, gap, "poll")
  BY <1>9
<1>12. Proves(v, o, "poll", p) /\ (Nothing(v, o, p) \/ Something(v, o, "poll", p))
  BY <1>7, <1>10, <1>11, ProofProves
<1>13. PICK u : u = p.state
  OBVIOUS
<1>14. PICK w : w = viewing'
  OBVIOUS
<1>15. PICK a, n : a = clock /\ n = IF o.play = Null THEN u.play ELSE o.play
  OBVIOUS
<1>16. StateFields(u) /\ u.play = v.play /\ u.received = v.received
  BY <1>12, <1>13 DEF Proves
<1>17. w = [u EXCEPT !.lastTs = a, !.play = n]
  BY <1>13, <1>14, <1>15
<1>18. KeptBut(w, u, u.received, n, a)
  BY <1>16, <1>17, Timed
<1>19. w.play = (IF o.play = Null THEN v.play ELSE o.play) /\ w.lastTs = clock /\ w.received = v.received /\ Carried(w, p.state)
  BY <1>13, <1>15, <1>16, <1>18 DEF KeptBut
<1>20. w.play \in Plays \cup {Null}
  BY <1>7, <1>10, <1>19 DEF Content, Observation
<1>21. Made(w, v, o, "poll", p)
  BY <1>1, <1>10, <1>12, <1>19, <1>20, KeptMade DEF Content
<1>22. Something(v, o, "poll", p) => w.play = v.play /\ ~Viewing!Closed(v.play) /\ poll.play # Null
  <2>1. ASSUME Something(v, o, "poll", p) PROVE w.play = v.play /\ ~o.bad
    <3>1. v.seen # Null /\ v.seen.play = o.play /\ ~o.bad
      BY <2>1 DEF Something, Earned
    <3>2. o.play # Null => v.play = o.play
      BY <3>1, <1>10 DEF Content
    <3> QED
      BY <3>1, <3>2, <1>19
  <2> QED
    BY <2>1, <1>8, <1>9
<1>23. Something(v, o, "poll", p) => ~(w.play # Null /\ ended[w.play])
  BY <1>1, <1>20, <1>22 DEF Endings
<1>24. PICK z : z = [key |-> w.key, from |-> p.interval.from, to |-> p.interval.to, since |-> v.seen.at, up |-> downAt,
                     ended |-> (w.play # Null /\ ended[w.play])]
  OBVIOUS
<1>25. samples' = IF p.interval = Viewing!NoTime THEN samples ELSE samples \cup {z}
  <2>1. CASE Nothing(v, o, p)
    BY <2>1 DEF Nothing, Viewing!_record_watch
  <2>2. CASE Something(v, o, "poll", p)
    <3>1. Viewing!Before(viewing, "poll") = v.seen
      BY <2>2, <1>9 DEF Something, Viewing!Before
    <3> QED
      BY <2>2, <3>1, <1>14, <1>24 DEF Something, Viewing!_record_watch
  <2> QED
    BY <1>12, <2>1, <2>2
<1>26. ~strange /\ ~o.bad => Reached(o.at, o.pos)
  BY <1>7, <1>8 DEF Reached, PollStep
<1>27. checkpoint' # Null => checkpoint' = w \/ (checkpoint' = checkpoint /\ viewing # Null /\ v = viewing /\ Nothing(v, o, p))
  <2>1. PICK c : c = checkpoint' /\ c = Viewing!Saved(w, Null)
    BY <1>14
  <2>2. c = w \/ c = Null \/ (c = checkpoint /\ ~(w # Null /\ w.item # Null))
    BY <2>1, SavedIs
  <2>3. w # Null
    BY <1>21 DEF Made, SamplingConstants
  <2>4. ASSUME w.item = Null PROVE Nothing(v, o, p)
    <3>1. poll.play = Null
      <4>1. Viewing!Title(poll) = Null
        BY <2>4, <1>9, <1>21 DEF Made
      <4>2. \A i \in Items : i # Null
        BY DEF SamplingConstants
      <4> QED
        BY <4>1, <4>2, <1>1 DEF Viewing!Title, Lists
    <3> QED
      BY <3>1, <1>12, <1>22
  <2> QED
    BY <2>1, <2>2, <2>3, <2>4, <1>9
<1>28. PICK f : f = finished'
  OBVIOUS
<1>29. Over(f, v.key) /\ v.seconds = Viewing!Credited(v.key) /\ f \in Seq([key : Nat, seconds : Nat])
  BY <1>1, <1>9, <1>28 DEF Books, Over, Watched
<1>30. Opened /\ UNCHANGED <<clock, shownAt, downAt, ended>>
  BY <1>1, NothingOpened DEF PollStep
<1>31. keys' \in Nat /\ keys <= keys' /\ v.key \in 1..keys'
  BY <1>1, <1>10
<1>34. w = viewing' /\ UNCHANGED <<clock, shownAt, downAt, ended>> /\ Over(f, v.key)
       /\ (v.seen # Null => viewing # Null /\ v = viewing)
  BY <1>9, <1>14, <1>29, <1>30
<1>35. v.seconds = Viewing!Credited(v.key) /\ Opened /\ Observation(o) /\ o.floor = clock /\ Content(v)
  BY <1>7, <1>10, <1>29, <1>30
<1>36. Credits(v, o, "poll", p, w, z, f)
  BY <1>12, <1>21, <1>23, <1>24, <1>25, <1>26, <1>27, <1>28, <1>31, <1>34, <1>35 DEF Credits
<1>37. CreditsKeep(w)
  BY <1>36, CreditsKept
<1>32. /\ State(viewing)' /\ (checkpoint' # Null => State(checkpoint)') /\ samples' \subseteq Samples
       /\ Fronts' /\ Endings' /\ Books' /\ (~strange => Played')
       /\ ~strange /\ ~w.seen.bad => Reached(w.seen.at, w.seen.pos)
  BY <1>37 DEF CreditsKeep
<1>33. /\ downAt' \in 1..clock /\ bound' \in [Plays -> Kind \cup {Null}] /\ ended' \in [Plays -> BOOLEAN]
  BY <1>1 DEF Watched, Kind, PollStep
<1> QED
  BY <1>14, <1>28, <1>29, <1>31, <1>32, <1>33, <1>34, StoreKeeps DEF PollStep

(* A report of late said more.                                              *)
LEMMA PassedKeeps ==
  ASSUME SamplingConstants, ViewingInv, PollStep, UNCHANGED <<keys, bound, finished, samples>>, viewing # Null,
         viewing' = [viewing EXCEPT !.lastTs = clock], checkpoint' = Viewing!Saved(viewing', Null)
  PROVE  ViewingInv'
<1>1. /\ Watched /\ keys \in Nat /\ clock \in Nat /\ Fronts /\ Endings /\ Books /\ downAt \in 1..clock /\ State(viewing)
      /\ (checkpoint # Null => State(checkpoint))
  BY DEF ViewingInv, Watched
<1>2. PICK v, w, a : v = viewing /\ w = viewing' /\ a = clock
  OBVIOUS
<1>3. w = [v EXCEPT !.lastTs = a] /\ StateFields(v)
  BY <1>1, <1>2 DEF State, Content
<1>4. StateFields(w)
  BY <1>3 DEF StateFields
<1>5. w.key = v.key /\ w.item = v.item /\ w.play = v.play
  BY <1>3 DEF StateFields
<1>6. w.seen = v.seen /\ w.end = v.end /\ w.seconds = v.seconds
  BY <1>3 DEF StateFields
<1>7. w.received = v.received /\ w.source = v.source /\ w.stopped = v.stopped
  BY <1>3 DEF StateFields
<1>8. w.started = v.started /\ w.lastTs = clock
  BY <1>2, <1>3 DEF StateFields
<1>9. Content(v) /\ v.key \in 1..keys
  BY <1>1, <1>2 DEF State
<1>10. Content(w) /\ w # Null
  BY <1>1, <1>4, <1>5, <1>6, <1>7, <1>8, <1>9 DEF Content, SamplingConstants
<1>11. State(viewing)'
  BY <1>2, <1>5, <1>9, <1>10 DEF State, Content, Observation, PollStep
<1>12. checkpoint' # Null => checkpoint' = w \/ checkpoint' = checkpoint
  <2>1. PICK c : c = checkpoint' /\ c = Viewing!Saved(w, Null)
    BY <1>2
  <2> QED
    BY <2>1, SavedIs
<1>13. checkpoint' # Null => State(checkpoint)'
  <2>1. CASE checkpoint' = w
    BY <2>1, <1>2, <1>11 DEF State, Content, Observation
  <2>2. CASE checkpoint' = checkpoint
    BY <2>2, <1>1 DEF State, Content, Observation, PollStep
  <2> QED
    BY <2>1, <2>2, <1>12
<1>14. Fronts'
  BY <1>1, <1>2, <1>6, <1>10 DEF Fronts, PollStep
<1>15. Books'
  <2>1. PICK f, k : f = finished' /\ k = v.key
    OBVIOUS
  <2>2. Over(f, k) /\ w.seconds = Viewing!Credited(k) /\ w.key = k
    BY <1>1, <1>2, <1>5, <1>6, <2>1 DEF Books, Over
  <2>3. \A j : Viewing!Credited(j)' = Viewing!Credited(j)
    BY CreditedKept
  <2>4. checkpoint' # Null => checkpoint'.key = k /\ checkpoint'.seconds = w.seconds
    BY <1>1, <1>2, <1>5, <1>6, <1>12, <2>1 DEF Books
  <2>5. \A s \in samples' : s.key \in 1..keys'
    BY <1>1 DEF Books
  <2>6. keys' \in Nat /\ keys <= keys' /\ w = viewing' /\ w # Null /\ keys \in Nat
    BY <1>1, <1>2, <1>10
  <2>7. (\A j : j # k => Viewing!Credited(j)' = Viewing!Credited(j)) /\ w.seconds = Viewing!Credited(k)'
    BY <2>2, <2>3
  <2> QED
    BY <2>1, <2>2, <2>4, <2>5, <2>6, <2>7, Booked
<1>16. Endings'
  BY <1>1, NothingOpened, EndsKept DEF PollStep
<1>17. ~strange => Played'
  BY PlayedKept DEF ViewingInv, PollStep
<1>18. viewing' # Null /\ viewing'.seen # Null /\ ~viewing'.seen.bad => Reached(viewing'.seen.at, viewing'.seen.pos)
  BY <1>2, <1>6 DEF Reached
<1>19. /\ downAt' \in 1..clock /\ bound' \in [Plays -> Kind \cup {Null}] /\ ended' \in [Plays -> BOOLEAN]
       /\ keys' \in Nat /\ samples' \subseteq Samples /\ finished' \in Seq([key : Nat, seconds : Nat])
  BY <1>1 DEF Watched, Kind, PollStep
<1> QED
  BY <1>11, <1>13, <1>14, <1>15, <1>16, <1>17, <1>18, <1>19, StoreKeeps DEF PollStep

LEMMA SampleKeeps ==
  ASSUME SamplingConstants, ViewingInv, Viewing!_sample PROVE ViewingInv'
<1>1. PollStep
  BY DEF Viewing!_sample, Viewing!stage, PollStep
<1>2. CASE /\ ~poll.here /\ UNCHANGED <<keys, bound, samples>>
           /\ IF viewing = Null \/ (viewing # Null /\ Viewing!ReportFresh(viewing) /\ ~viewing.stopped)
              THEN UNCHANGED <<viewing, checkpoint, finished>>
              ELSE viewing' = Null /\ checkpoint' = Viewing!Kept(viewing) /\ finished' = Viewing!_finish(viewing)
  <2>1. \/ UNCHANGED <<viewing, checkpoint, finished>>
        \/ viewing # Null /\ viewing' = Null /\ checkpoint' = Viewing!Kept(viewing) /\ finished' = Viewing!_finish(viewing)
    BY <1>2
  <2> QED
    BY <1>1, <1>2, <2>1, GoneKeeps
<1>3. CASE /\ poll.here /\ (viewing = Null \/ (viewing # Null /\ Viewing!Another(viewing, poll)))
           /\ viewing' = Viewing!Fresh(Viewing!Named(poll), Viewing!Title(poll), Viewing!Polled(poll), "poll")
           /\ keys' = keys + 1 /\ checkpoint' = Viewing!Saved(viewing', viewing)
           /\ finished' = IF viewing = Null THEN finished ELSE Viewing!_finish(viewing)
           /\ UNCHANGED <<bound, samples>>
  BY <1>1, <1>3, AnotherKeeps
<1>4. CASE /\ poll.here /\ viewing # Null /\ ~Viewing!Another(viewing, poll) /\ UNCHANGED <<keys, bound, finished>>
           /\ IF Viewing!ReportFresh(viewing)
              THEN viewing' = [viewing EXCEPT !.lastTs = clock] /\ UNCHANGED samples
              ELSE \E seen \in {[Viewing!Polled(poll) EXCEPT !.bad = @ \/ viewing.stopped \/ Viewing!Closed(viewing.play)]} :
                   \E proof \in {Viewing!_proof(viewing, seen, IF viewing.lastTs = Null THEN 0 ELSE clock - viewing.lastTs, "poll")} :
                     /\ viewing' = [proof.state EXCEPT !.lastTs = clock,
                                                       !.play = IF seen.play = Null THEN @ ELSE seen.play]
                     /\ Viewing!_record_watch(viewing', proof.interval, Viewing!Before(viewing, "poll"))
           /\ checkpoint' = Viewing!Saved(viewing', Null)
  <2>1. CASE Viewing!ReportFresh(viewing)
    BY <1>1, <1>4, <2>1, PassedKeeps
  <2>2. CASE ~Viewing!ReportFresh(viewing)
    <3>1. PICK x \in BOOLEAN : x = (viewing.stopped \/ Viewing!Closed(viewing.play))
      OBVIOUS
    <3>2. PICK o : o = [Viewing!Polled(poll) EXCEPT !.bad = (@ \/ viewing.stopped) \/ Viewing!Closed(viewing.play)]
      OBVIOUS
    <3>3. o = [Viewing!Polled(poll) EXCEPT !.bad = @ \/ x]
      BY <3>1, <3>2
    <3>4. PICK gap : gap = IF viewing.lastTs = Null THEN 0 ELSE clock - viewing.lastTs
      OBVIOUS
    <3>5. PICK p : /\ p = Viewing!_proof(viewing, o, gap, "poll")
                   /\ viewing' = [p.state EXCEPT !.lastTs = clock, !.play = IF o.play = Null THEN @ ELSE o.play]
                   /\ Viewing!_record_watch(viewing', p.interval, Viewing!Before(viewing, "poll"))
      BY <1>4, <2>2, <3>2, <3>4
    <3>6. Viewing!Title(poll) = viewing.item
      BY <1>4, <2>2 DEF Viewing!Another
    <3>7. Viewing!Closed(viewing.play) => x
      BY <3>1
    <3> QED
      BY <1>1, <1>4, <3>3, <3>5, <3>6, <3>7, SampledKeeps
  <2> QED
    BY <2>1, <2>2
<1> QED
  BY <1>2, <1>3, <1>4 DEF Viewing!_sample

(* At the beginning nothing is watched, remembered or counted.              *)
LEMMA ViewingInit ==
  ASSUME SamplingConstants, Viewing!Init PROVE ViewingInv
<1>1. /\ clock = 1 /\ player = [play |-> Null, pos |-> 0, on |-> FALSE] /\ item \in [Plays -> Items]
      /\ session = Viewing!Idle /\ reports = {} /\ poll = Null /\ viewing = Null /\ checkpoint = Null
      /\ bound = [p \in Plays |-> Null] /\ samples = {} /\ finished = <<>> /\ keys = 0
      /\ shownAt = {} /\ ended = [p \in Plays |-> FALSE] /\ downAt = 1 /\ strange = FALSE
  BY DEF Viewing!Init
<1>2. 1 <= MaxTime
  BY DEF SamplingConstants, Viewing!SamplingBounds
<1>3. session \in Lists /\ session.at = 0 /\ session.play = Null
  BY <1>1 DEF Viewing!Idle, Lists
<1>4. player \in [play : Plays \cup {Null}, pos : Nat, on : BOOLEAN] /\ player.pos = 0 /\ ~player.on
  BY <1>1
<1>5. Watched
  <2>1. clock \in Nat \ {0} /\ clock <= MaxTime /\ downAt \in 1..clock
    BY <1>1, <1>2
  <2>2. bound \in [Plays -> [issued : Nat, closed : BOOLEAN] \cup {Null}] /\ ended \in [Plays -> BOOLEAN]
    BY <1>1
  <2>3. strange \in BOOLEAN /\ shownAt \subseteq 1..(clock - 1) /\ keys \in Nat /\ samples \subseteq Samples
    BY <1>1
  <2>4. finished \in Seq([key : Nat, seconds : Nat])
    BY <1>1
  <2>5. reports \subseteq Messages /\ session.at <= clock /\ poll = Null /\ viewing = Null /\ checkpoint = Null
        /\ (\A r \in reports : r.sentAt <= clock /\ (r.at # Null => r.sentAt <= r.at /\ r.at <= clock))
    BY <1>1, <1>3
  <2> QED
    BY <2>1, <2>2, <2>3, <2>4, <2>5, <1>1, <1>3, <1>4 DEF Watched
<1>6. Fronts /\ Books
  BY <1>1 DEF Fronts, Books
<1>7. Endings
  BY <1>1 DEF Endings
<1>8. \A a, x : ~Reached(a, x)
  BY <1>1, <1>3 DEF Reached
<1>9. Observed /\ Played
  BY <1>1, <1>8 DEF Observed, Played
<1> QED
  BY <1>5, <1>6, <1>7, <1>9 DEF ViewingInv

LEMMA ViewingNext ==
  ASSUME SamplingConstants, ViewingInv, [Viewing!Next]_(Viewing!vars) PROVE ViewingInv'
<1>1. CASE \E p \in Plays : Viewing!Play(p)
  BY <1>1, PlayKeeps
<1>2. CASE Viewing!Report
  BY <1>2, ReportKeeps
<1>3. CASE Viewing!StopPlay
  BY <1>3, StopPlayKeeps
<1>4. CASE Viewing!PauseOrJump
  BY <1>4, PauseOrJumpKeeps
<1>5. CASE Viewing!Tick
  BY <1>5, TickKeeps
<1>6. CASE Viewing!Lose
  BY <1>6, LoseKeeps
<1>7. CASE \E r \in reports : Viewing!Arrive(r)
  BY <1>7, ArriveKeeps
<1>8. CASE \E r \in reports : Viewing!playback_report(r)
  BY <1>8, PlaybackReportKeeps
<1>9. CASE \E r \in reports : Viewing!playback_progress(r)
  BY <1>9, PlaybackProgressKeeps
<1>10. CASE Viewing!AskSessions \/ Viewing!ListFails
  BY <1>10, AskingKeeps
<1>11. CASE Viewing!_sample
  BY <1>11, SampleKeeps
<1>12. CASE Viewing!Crash
  BY <1>12, CrashKeeps
<1>13. CASE UNCHANGED Viewing!vars
  <2>1. UNCHANGED <<clock, player, item, session, shownAt, strange, downAt, bound, ended, keys, samples, finished,
                    viewing, checkpoint>> /\ reports' \subseteq reports /\ poll' = poll
    BY <1>13 DEF Viewing!vars
  <2> QED
    BY <2>1, StoreStands
<1> QED
  BY <1>1, <1>2, <1>3, <1>4, <1>5, <1>6, <1>7, <1>8, <1>9, <1>10, <1>11, <1>12, <1>13 DEF Viewing!Next

LEMMA ViewingTells ==
  ASSUME SamplingConstants, ViewingInv
  PROVE  Viewing!SamplingTypes /\ Viewing!NeverTwice /\ Viewing!EventsExact /\ Viewing!StopHolds /\ Viewing!CreditedWasPlayed
<1>1. Watched /\ Fronts /\ Endings /\ Books
  BY DEF ViewingInv
<1>2. Viewing!SamplingTypes
  <2>1. clock \in 1..MaxTime /\ player.play \in Plays \cup {Null} /\ (poll # Null => poll.play \in Plays \cup {Null})
    BY <1>1 DEF Watched, Lists, SamplingConstants, Viewing!SamplingBounds
  <2>2. viewing = Null \/ (viewing.key <= keys /\ viewing.source \in {"poll", "progress", "none"})
    BY <1>1 DEF Watched, State, Content
  <2>3. \A r \in reports : r.at = Null \/ r.sentAt <= r.at
    BY <1>1 DEF Watched
  <2>4. \A s \in samples : s.from < s.to /\ s.to <= clock
    BY <1>1 DEF Fronts
  <2> QED
    BY <2>1, <2>2, <2>3, <2>4 DEF Viewing!SamplingTypes
<1>3. Viewing!NeverTwice
  <2>1. \A s \in samples : s.from \in Nat /\ s.up \in Nat
    BY <1>1 DEF Watched, Samples
  <2> QED
    BY <2>1, <1>1 DEF Fronts, Viewing!NeverTwice
<1>4. Viewing!EventsExact
  BY <1>1 DEF Books, Viewing!EventsExact
<1>5. Viewing!StopHolds
  BY <1>1 DEF Endings, Viewing!StopHolds
<1>6. Viewing!CreditedWasPlayed
  <2>1. ASSUME Rated /\ ~strange, NEW s \in samples
        PROVE s.to - s.from <= Viewing!Cardinality({t \in shownAt : s.since <= t /\ t < s.to})
    <3>1. s.to - s.from <= Cardinality(Showings(s.since, s.to))
      BY <2>1 DEF ViewingInv, Played
    <3>2. Viewing!Cardinality(Showings(s.since, s.to)) = Cardinality(Showings(s.since, s.to))
      BY CountIsCount
    <3>3. s.to - s.from <= Viewing!Cardinality(Showings(s.since, s.to))
      BY <3>1, <3>2
    <3> QED
      BY <3>3 DEF Showings
  <2> QED
    BY <2>1 DEF Viewing!CreditedWasPlayed
<1> QED
  BY <1>2, <1>3, <1>4, <1>5, <1>6

(* What members are credited with is what they watched (usage.py _proof,    *)
(* _sample, _progress, _playback_report, restore; streams.py): no second is *)
(* credited twice, whichever source proved it, nor one in which the panel   *)
(* was down; a play that has stopped earns nothing until it starts again;   *)
(* while reports arrive at once and nobody jumps, no more is credited than  *)
(* the title advanced; and every play event, the state in memory and its    *)
(* checkpoint count what was credited to their play, once.                  *)
THEOREM ViewingCounted ==
  ASSUME SamplingConstants
  PROVE  Viewing!Spec => [](Viewing!SamplingTypes /\ Viewing!NeverTwice /\ Viewing!EventsExact /\ Viewing!StopHolds /\ Viewing!CreditedWasPlayed)
<1>1. Viewing!Init => ViewingInv
  BY ViewingInit
<1>2. ViewingInv /\ [Viewing!Next]_(Viewing!vars) => ViewingInv'
  BY ViewingNext
<1>3. ViewingInv => Viewing!SamplingTypes /\ Viewing!NeverTwice /\ Viewing!EventsExact /\ Viewing!StopHolds /\ Viewing!CreditedWasPlayed
  BY ViewingTells
<1> QED
  BY <1>1, <1>2, <1>3, PTL DEF Viewing!Spec

(* In MCStreamAdmission the viewing is at work in two of the questions; so  *)
(* it counts there what it counts alone.                                   *)
ViewingAtWork == question \in {"reports", "polls"} => ViewingInv

LEMMA ViewingInUnion == ASSUME SamplingConstants PROVE QSpec => []ViewingAtWork
<1>1. QInit => ViewingAtWork
  BY ViewingInit DEF QInit, ViewingAtWork
<1>2. ViewingAtWork /\ [QNext]_allVars => ViewingAtWork'
  <2> SUFFICES ASSUME ViewingAtWork, [QNext]_allVars, question' \in {"reports", "polls"} PROVE ViewingInv'
    BY DEF ViewingAtWork
  <2>1. question' = question /\ [Viewing!Next]_(Viewing!vars)
    BY DEF QNext, Admitting, Counting, allVars, counting, Viewing!vars
  <2>2. ViewingInv
    BY <2>1 DEF ViewingAtWork
  <2> QED
    BY <2>1, <2>2, ViewingNext
<1> QED
  BY <1>1, <1>2, PTL DEF QSpec

(* The same of the questions that are asked of it: each second once, none  *)
(* after a stop, no more than was played, and all accounts agree, in       *)
(* whatever order reports and polls arrive (usage.py, streams.py).         *)
THEOREM ViewingStaysExact == ASSUME SamplingConstants PROVE QSpec => []ViewingExact
<1>1. ViewingAtWork => ViewingExact
  BY ViewingTells DEF ViewingAtWork, ViewingExact
<1> QED
  BY <1>1, ViewingInUnion, PTL
=============================================================================
