------------------------------- MODULE Niuniu -------------------------------
(***************************************************************************)
(* A room of niuniu (backend/app/modules/niuniu.py, niuniu_delivery.py,    *)
(* bot_niuniu.py): the member who opens it is the banker and guarantees    *)
(* four stakes, up to four guests pay one each, and each guest plays the   *)
(* banker alone.  When it is over the bot posts the report and only then   *)
(* takes away the card of the room.                                        *)
(***************************************************************************)
EXTENDS Integers, FiniteSets, Functions

CONSTANTS
    Users, Accounts,
    Points,     \* what each member has at first
    Stake,      \* stake of a guest
    MaxGuests,  \* 4
    MaxSends,   \* result_attempts allowed, 3
    MaxDeletes, \* card_delete_attempts allowed, 8
    MaxRelinks, \* bound: how often a link changes meanwhile
    ErrorsRefuse, \* TRUE: a 5xx answer means that nothing was posted
    Null

NiuniuAssumption ==
    /\ Points \in Nat /\ Stake \in Nat \ {0} /\ MaxGuests \in Nat \ {0}
    /\ MaxSends \in Nat \ {0} /\ MaxDeletes \in Nat \ {0} /\ MaxRelinks \in Nat
    /\ ErrorsRefuse \in BOOLEAN /\ Null \notin Users \cup Accounts

VARIABLES
    wallet,  \* [Users -> Nat]
    link,    \* [Accounts -> valid member bound to it, or Null]
    state,   \* "none", "lobby", "settled", "cancelled"
    banker,  \* member and account of the banker
    seats,   \* [Users -> account a member joined with, or Null]
    held,    \* [Users -> points frozen for the room]
    won,     \* the guests who beat the banker
    card,    \* what the card shows: "none", "lobby", "final", "gone"
    report,  \* niuniu_rounds.result_state, with the attempts so far
    cleanup, \* niuniu_rounds.card_delete_state, with the attempts so far
    posted,  \* reports the group has seen
    relinks

room == <<wallet, state, banker, seats, held, won>>
post == <<card, report, cleanup, posted>>
vars == <<room, link, post, relinks>>

Nobody == [tg |-> Null, uid |-> Null]
Job(s) == [state |-> s, attempts |-> 0]

Init ==
    /\ wallet = [u \in Users |-> Points]
    /\ link \in {l \in [Accounts -> Users] : \A a, b \in Accounts : l[a] = l[b] => a = b}
    /\ state = "none" /\ banker = Nobody /\ won = {}
    /\ seats = [u \in Users |-> Null]
    /\ held = [u \in Users |-> 0]
    /\ card = "none" /\ report = Job("") /\ cleanup = Job("") /\ posted = 0
    /\ relinks = 0

----------------------------------------------------------------------------
Players == {u \in Users : seats[u] # Null}
Required(u) == IF u = banker.uid THEN 4 * Stake ELSE Stake

\* create: the command of a member opens the room and seats the banker.
Create(a) ==
    LET u == link[a] IN
    /\ state = "none" /\ u # Null /\ wallet[u] >= 4 * Stake
    /\ state' = "lobby" /\ banker' = [tg |-> a, uid |-> u]
    /\ seats' = [seats EXCEPT ![u] = a]
    /\ wallet' = [wallet EXCEPT ![u] = @ - 4 * Stake]
    /\ held' = [held EXCEPT ![u] = 4 * Stake]
    /\ UNCHANGED <<link, won, post, relinks>>

\* queue_result, in the transaction that ends the room.
Queue == report' = Job("pending") /\ cleanup' = Job("waiting")

\* _refund: everything frozen goes back.
Refund ==
    /\ state' = "cancelled"
    /\ wallet' = [u \in Users |-> wallet[u] + held[u]]
    /\ held' = [u \in Users |-> 0]
    /\ Queue
    /\ UNCHANGED <<banker, seats, won>>

\* _finish with these seats: every player must still be who joined, with the
\* whole share frozen.  The hands decide which guests beat the banker; what
\* the banker did not need for the guests there are goes back at once.
Finish(seated, wallets, shares) ==
    LET players == {u \in Users : seated[u] # Null}
        guests  == players \ {banker.uid}
        unused  == (4 - Cardinality(guests)) * Stake
        safe    == \A u \in players : link[seated[u]] = u /\ shares[u] = Required(u) IN
    IF ~safe THEN Refund
    ELSE \E beat \in SUBSET guests :
            /\ state' = "settled" /\ won' = beat /\ seats' = seated
            /\ held' = [u \in Users |-> 0]
            /\ wallet' = [u \in Users |->
                  wallets[u] + (IF u \in beat THEN 2 * Stake
                                ELSE IF u = banker.uid
                                THEN unused + 2 * Stake * Cardinality(guests \ beat) ELSE 0)]
            /\ Queue
            /\ UNCHANGED banker

\* lobby, join.  The last seat starts the game; when it cannot start the
\* joining is rolled back with it and the room is refunded.
Join(a) ==
    LET u == link[a] IN
    /\ state = "lobby" /\ card # "none" /\ u # Null
    /\ seats[u] = Null /\ \A v \in Users : seats[v] # a
    /\ Cardinality(Players) <= MaxGuests
    /\ wallet[u] >= Stake
    /\ LET seated  == [seats EXCEPT ![u] = a]
           wallets == [wallet EXCEPT ![u] = @ - Stake]
           shares  == [held EXCEPT ![u] = Stake] IN
       IF Cardinality(Players) = MaxGuests
       THEN Finish(seated, wallets, shares)
       ELSE /\ seats' = seated /\ wallet' = wallets /\ held' = shares
            /\ UNCHANGED <<state, banker, won, report, cleanup>>
    /\ UNCHANGED <<link, card, posted, relinks>>

\* lobby, start, by the banker under both identities.
Launch(a) ==
    /\ state = "lobby" /\ card # "none"
    /\ banker = [tg |-> a, uid |-> link[a]] /\ Cardinality(Players) >= 2
    /\ Finish(seats, wallet, held)
    /\ UNCHANGED <<link, card, posted, relinks>>

\* expire: the wait is over or the game was switched off.
Expire ==
    /\ state = "lobby"
    /\ Refund
    /\ UNCHANGED <<link, card, posted, relinks>>

----------------------------------------------------------------------------
\* _niuniu_publish.  Without its first card a room cannot be entered.
Publish(answer) ==
    /\ state # "none" /\ report.state # "sending"
    /\ card = "none" \/ (card = "lobby" /\ state # "lobby")
    /\ IF answer = "sent"
       THEN card' = (IF state = "lobby" THEN "lobby" ELSE "final") /\ UNCHANGED <<room, report, cleanup>>
       ELSE card = "none" /\ state = "lobby" /\ Refund /\ UNCHANGED card
    /\ UNCHANGED <<link, posted, relinks>>

\* NiuniuDelivery.claim: the report follows the final card.
ClaimReport ==
    /\ report.state \in {"pending", "retry"} /\ card = "final"
    /\ report' = [state |-> "sending", attempts |-> report.attempts + 1]
    /\ UNCHANGED <<room, link, card, cleanup, posted, relinks>>

\* finish, and the release of the card's deletion with it.
AfterReportRepeats(answer) ==
    report' = [report EXCEPT !.state =
        IF answer = "ok" THEN "sent"
        ELSE IF answer # "refused" /\ report.attempts < MaxSends THEN "retry" ELSE "failed"]
AfterReport(answer) ==
    report' = [report EXCEPT !.state =
        CASE answer = "ok"                                -> "sent"
          [] answer = "retry" /\ report.attempts < MaxSends -> "retry"
          [] answer \in {"retry", "refused"}              -> "failed"
          [] OTHER                                        -> "unknown"]

ReportAnswered(answer, seen) ==
    /\ report.state = "sending"
    /\ answer = "ok" => seen
    /\ answer = "refused" => ~seen
    /\ answer = "retry" => ~seen \/ ~ErrorsRefuse
    /\ AfterReport(answer)
    /\ cleanup' = IF answer = "ok" /\ cleanup.state = "waiting" THEN Job("pending") ELSE cleanup
    /\ posted' = posted + (IF seen THEN 1 ELSE 0)
    /\ UNCHANGED <<room, link, card, relinks>>

\* The process ended during the send, and the lease ran out: claim says unknown.
ReportLost(seen) ==
    /\ report.state = "sending"
    /\ report' = [report EXCEPT !.state = "unknown"]
    /\ posted' = posted + (IF seen THEN 1 ELSE 0)
    /\ UNCHANGED <<room, link, card, cleanup, relinks>>

\* claim_delete and finish_delete; a deletion whose process ended is claimed
\* again after its lease.
MayDelete == report.state = "sent" /\ card # "none"

ClaimDelete ==
    /\ MayDelete /\ cleanup.state \in {"pending", "retry"}
    /\ cleanup' = IF cleanup.attempts >= MaxDeletes THEN [cleanup EXCEPT !.state = "failed"]
                  ELSE [state |-> "deleting", attempts |-> cleanup.attempts + 1]
    /\ UNCHANGED <<room, link, card, report, posted, relinks>>

Deleted(answer, gone) ==
    /\ cleanup.state = "deleting"
    /\ answer = "ok" => gone \/ card = "gone"
    /\ answer = "refused" => ~gone
    /\ cleanup' = [cleanup EXCEPT !.state =
          IF answer = "ok" THEN "deleted"
          ELSE IF answer = "refused" \/ cleanup.attempts >= MaxDeletes THEN "failed" ELSE "retry"]
    /\ card' = IF gone THEN "gone" ELSE card
    /\ UNCHANGED <<room, link, report, posted, relinks>>

DeleteLost(gone) ==
    /\ cleanup.state = "deleting"
    /\ cleanup' = IF cleanup.attempts >= MaxDeletes THEN [cleanup EXCEPT !.state = "failed"]
                  ELSE [cleanup EXCEPT !.attempts = @ + 1]
    /\ card' = IF gone THEN "gone" ELSE card
    /\ UNCHANGED <<room, link, report, posted, relinks>>

Relink(a, u) ==
    /\ relinks < MaxRelinks /\ u # link[a]
    /\ \A b \in Accounts : u # Null => link[b] # u
    /\ link' = [link EXCEPT ![a] = u]
    /\ relinks' = relinks + 1
    /\ UNCHANGED <<room, post>>

Next ==
    \/ \E a \in Accounts : Create(a) \/ Join(a) \/ Launch(a)
    \/ Expire
    \/ \E answer \in {"sent", "failed"} : Publish(answer)
    \/ ClaimReport
    \/ \E answer \in {"ok", "retry", "refused", "lost"}, seen \in BOOLEAN : ReportAnswered(answer, seen)
    \/ \E seen \in BOOLEAN : ReportLost(seen)
    \/ ClaimDelete
    \/ \E answer \in {"ok", "retry", "refused"}, gone \in BOOLEAN : Deleted(answer, gone)
    \/ \E gone \in BOOLEAN : DeleteLost(gone)
    \/ \E a \in Accounts, u \in Users \cup {Null} : Relink(a, u)

Spec == Init /\ [][Next]_vars

----------------------------------------------------------------------------
\* Each guest has won or lost one stake against the banker and nobody else,
\* whatever the room had frozen; a room that ended otherwise costs nobody
\* anything (niuniu.py, _finish and _refund).
PairsSettled ==
    LET guests == Players \ {banker.uid} IN
    /\ state = "settled" =>
          \A u \in Users : wallet[u] - Points =
              IF u \in guests THEN (IF u \in won THEN Stake ELSE -Stake)
              ELSE IF u = banker.uid THEN Stake * (Cardinality(guests \ won) - Cardinality(won)) ELSE 0
    /\ state = "cancelled" => \A u \in Users : wallet[u] = Points

\* The card of a room is not taken away before the report that replaces it is
\* in the group, and there is one report (niuniu_delivery.py).
CardUntilReport == posted <= 1 /\ (card = "gone" => posted = 1)

\* A room keeps what every game promises about the points.
Table == INSTANCE Wager WITH
    risk  <- held,
    phase <- IF state = "none" THEN "idle" ELSE IF state = "lobby" THEN "open" ELSE "over"
ImplementsWager == Table!Spec
=============================================================================
