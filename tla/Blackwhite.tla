----------------------------- MODULE Blackwhite -----------------------------
(***************************************************************************)
(* The game of black and white (backend/app/modules/blackwhite.py): Seats  *)
(* members put in the same stake and pick a side in secret; when the table *)
(* is full the smaller side shares the pot.  A table that does not fill up *)
(* in time, or while the game is switched off, is refunded.  Every handler *)
(* is one write transaction; a button press on a table that is due first   *)
(* closes it, which is the action Expire.  That a table has one card only, *)
(* and that a press is on it, is the subject of RoundCards.                *)
(***************************************************************************)
EXTENDS CashBook

CONSTANTS
    Tgs,        \* Telegram accounts
    Null,       \* no account linked
    Topics,     \* the groups' topics
    Seats,      \* seats of a table (5)
    Stakes,     \* stakes a command may ask for
    Start,      \* what every member owns at first
    Deltas,     \* what other features credit (> 0) or debit (< 0)
    Lobby,      \* ticks until a table that is not full lapses (lobby_seconds)
    MaxChanges  \* bound: how often anything outside the game changes

ASSUME BlackwhiteAssumption ==
    /\ Null \notin Tgs
    /\ Seats \in Nat /\ Seats % 2 = 1
    /\ Stakes \subseteq Nat \ {0} /\ Start \in Nat /\ Deltas \subseteq Int
    /\ Lobby \in Nat /\ MaxChanges \in Nat

VARIABLES
    book,       \* points, frozen points and pots
    other,      \* the part of each balance that other features account for
    linked,     \* the Telegram account of each member
    active,     \* the members whose account is valid
    enabled,    \* the plugin's switch
    changes,    \* how many outside changes there have been
    state,      \* per table: play_rounds.state, "none" until it is created
    topic, stake, timer,
    players,    \* per table: the rows of play_players
    mode        \* per table: how it ended (result_json)

world  == <<linked, active, enabled, changes, other>>
tables == <<state, topic, stake, timer, players, mode>>
vars   == <<book, world, tables>>

Sides  == {"black", "white"}
Ends   == {"settled", "expired", "cancelled"}
Player == [user : Users, tg : Tgs, choice : Sides, award : Nat]

Linked(l) == \A u, v \in Users : l[u] = l[v] /\ l[u] # Null => u = v

Init ==
    /\ other = [u \in Users |-> Start] /\ book = Opened(other)
    /\ linked \in [Users -> Tgs \cup {Null}] /\ Linked(linked)
    /\ active = Users /\ enabled = TRUE /\ changes = 0
    /\ state = [t \in Tables |-> "none"] /\ topic = [t \in Tables |-> Null]
    /\ stake \in [Tables -> Stakes] /\ timer = [t \in Tables |-> 0]
    /\ players = [t \in Tables |-> {}] /\ mode = [t \in Tables |-> ""]

-----------------------------------------------------------------------------
\* actor: the valid member behind a Telegram account.
Actor(tg, u) == linked[u] = tg /\ u \in active

\* Mutant: what is due is looked for only while the game is switched on.
DueWhileOn(t) == state[t] = "lobby" /\ timer[t] = 0 /\ enabled

\* The lobby's time is over, or the game has been switched off.
Due(t) == state[t] = "lobby" /\ (timer[t] = 0 \/ ~enabled)

(* create.  It first closes what is due, which is Expire; a command that   *)
(* is delivered again finds its table and changes nothing.                 *)
Create(t, tg, u, place) ==
    /\ \A s \in Tables : ~Due(s)
    /\ state[t] = "none" /\ enabled
    /\ Actor(tg, u)
    /\ ~\E s \in Tables : state[s] = "lobby" /\ topic[s] = place
    /\ book.wallet[u] >= stake[t]
    /\ state' = [state EXCEPT ![t] = "lobby"]
    /\ topic' = [topic EXCEPT ![t] = place]
    /\ timer' = [timer EXCEPT ![t] = Lobby]
    /\ UNCHANGED <<book, world, stake, players, mode>>

\* Mutant: a click on a table that has ended is not refused.
OpenStill(t) == state[t] # "none"

\* The table takes choices.
Open(t) == state[t] = "lobby"

\* The choice that was just locked was the last one.
Fills(seated) == Cardinality(seated) = Seats

Pick(t, side) == {p.user : p \in {q \in players[t] : q.choice = side}}

\* What a full table may pay: everybody's stake when all agree, otherwise
\* the pot to the smaller side.
Awards(everyone, black, white, pot) ==
    IF black = {} \/ white = {} THEN {Each(everyone, pot \div Cardinality(everyone))}
    ELSE LET winners == IF Cardinality(black) < Cardinality(white) THEN black ELSE white
         IN FairSplits(pot, winners)

\* Every row records what its member was paid.
Awarded(ps, awards) ==
    {[user |-> p.user, tg |-> p.tg, choice |-> p.choice, award |-> awards[p.user]] : p \in ps}

\* Mutant: only the Telegram account is looked up at the other tables.
OccupiedTg(u, tg) == \E t \in Tables : state[t] = "lobby" /\ \E p \in players[t] : p.tg = tg

\* Somebody with one of the two identities sits at a table.
Occupied(u, tg) ==
    \E t \in Tables : state[t] = "lobby" /\ \E p \in players[t] : p.user = u \/ p.tg = tg

(* join, and _settle when it fills the table: the stake is frozen, goes    *)
(* into the pot, and the last member's click pays the pot out.             *)
Join(t, tg, u, side) ==
    LET amt    == Only(u, stake[t])
        staked == Consume(Reserve(book, t, amt), t, amt)
        seated == players[t] \cup {[user |-> u, tg |-> tg, choice |-> side, award |-> 0]}
        on(s)  == {p.user : p \in {q \in seated : q.choice = s}}
    IN  /\ ~Due(t) /\ Open(t) /\ enabled
        /\ Actor(tg, u) /\ ~Occupied(u, tg)
        /\ CanReserve(book, amt)
        /\ IF ~Fills(seated)
           THEN /\ book' = staked
                /\ players' = [players EXCEPT ![t] = seated]
                /\ UNCHANGED <<state, mode>>
           ELSE \E awards \in Awards({p.user : p \in seated}, on("black"), on("white"),
                                     stake[t] * Seats) :
                   /\ CanPay(staked, t, awards)
                   /\ book' = Pay(staked, t, awards)
                   /\ players' = [players EXCEPT ![t] = Awarded(seated, awards)]
                   /\ state' = [state EXCEPT ![t] = "settled"]
                   /\ mode' = [mode EXCEPT ![t] =
                        IF on("black") = {} \/ on("white") = {} THEN "same"
                        ELSE IF Cardinality(on("black")) < Cardinality(on("white"))
                             THEN "black" ELSE "white"]
        /\ UNCHANGED <<world, topic, stake, timer>>

\* Whom a closing table pays back.
Refunded(t) == {p.user : p \in players[t]}

(* expire, from a button, from a command or from _blackwhite_tick.         *)
Expire(t) ==
    LET refunds == Each(Refunded(t), stake[t]) IN
    /\ Due(t)
    /\ CanPay(book, t, refunds)
    /\ book' = Pay(book, t, refunds)
    /\ players' = [players EXCEPT ![t] = Awarded(@, refunds)]
    /\ state' = [state EXCEPT ![t] = IF timer[t] = 0 THEN "expired" ELSE "cancelled"]
    /\ mode' = [mode EXCEPT ![t] = IF timer[t] = 0 THEN "timeout" ELSE "disabled"]
    /\ UNCHANGED <<world, topic, stake, timer>>

Tick ==
    /\ \E t \in Tables : state[t] = "lobby" /\ timer[t] > 0
    /\ timer' = [t \in Tables |-> IF state[t] = "lobby" /\ timer[t] > 0 THEN timer[t] - 1 ELSE timer[t]]
    /\ UNCHANGED <<book, world, state, topic, stake, players, mode>>

-----------------------------------------------------------------------------
Outside == changes < MaxChanges /\ changes' = changes + 1

\* bind_telegram takes the account from whoever was linked to it before.
Rebind(u, tg) ==
    /\ Outside
    /\ linked' = [v \in Users |-> IF v = u THEN tg ELSE IF linked[v] = tg THEN Null ELSE linked[v]]
    /\ UNCHANGED <<book, other, active, enabled, tables>>

Suspend(u) ==
    /\ Outside
    /\ active' = active \ {u}
    /\ UNCHANGED <<book, other, linked, enabled, tables>>

Switch ==
    /\ Outside
    /\ enabled' = ~enabled
    /\ UNCHANGED <<book, other, linked, active, tables>>

OtherPoints(u, delta) ==
    /\ Outside
    /\ book.wallet[u] + delta >= 0
    /\ book' = Earn(book, u, delta)
    /\ other' = [other EXCEPT ![u] = @ + delta]
    /\ UNCHANGED <<linked, active, enabled, tables>>

Environment ==
    \/ \E u \in Users, tg \in Tgs \cup {Null} : Rebind(u, tg)
    \/ \E u \in Users : Suspend(u)
    \/ Switch
    \/ \E u \in Users, delta \in Deltas : OtherPoints(u, delta)

Next ==
    \/ \E t \in Tables, tg \in Tgs, u \in Users :
          \/ \E place \in Topics : Create(t, tg, u, place)
          \/ \E side \in Sides : Join(t, tg, u, side)
    \/ \E t \in Tables : Expire(t)
    \/ Tick
    \/ Environment

Spec == Init /\ [][Next]_vars

(* _blackwhite_tick closes what is due whether or not the bot can reach    *)
(* Telegram and whether or not the game is switched on; time passes.       *)
FairSpec == Spec /\ WF_vars(Tick) /\ \A t \in Tables : WF_vars(Expire(t))

-----------------------------------------------------------------------------
TypeOK ==
    /\ book \in Books /\ other \in [Users -> Int]
    /\ linked \in [Users -> Tgs \cup {Null}] /\ Linked(linked)
    /\ active \subseteq Users /\ enabled \in BOOLEAN /\ changes \in Nat
    /\ state \in [Tables -> {"none", "lobby"} \cup Ends]
    /\ topic \in [Tables -> Topics \cup {Null}] /\ stake \in [Tables -> Stakes] /\ timer \in [Tables -> Nat]
    /\ players \in [Tables -> SUBSET Player]
    /\ \A t \in Tables : state[t] = "lobby" => Cardinality(players[t]) < Seats
    /\ mode \in [Tables -> Sides \cup {"", "same", "timeout", "disabled"}]

(* Every point is accounted for: what a member owns besides what other     *)
(* features gave is what the tables have paid less what was staked.        *)
AwardOf(t, u) == LET p == CHOOSE q \in players[t] : q.user = u IN p.award - stake[t]
SatAt(u) == {t \in Tables : \E p \in players[t] : p.user = u}
EveryPointAccounted ==
    \A u \in Users : book.wallet[u] = other[u] + SumFunction([t \in SatAt(u) |-> AwardOf(t, u)])

(* No rake and nothing minted ("no rake and no administrator exemption",   *)
(* blackwhite.py:1): the pot holds the stakes until it pays all of them.   *)
PotIsTheStakes ==
    /\ \A t \in Tables :
          book.fund[t] = IF state[t] = "lobby" THEN stake[t] * Cardinality(players[t]) ELSE 0
    /\ Wealth(book) = Sum(other)

(* Nobody sits at two open tables, under either identity, although links   *)
(* change while the tables are open.                                       *)
OneOpenTableEach ==
    \A s, t \in Tables : \A p \in players[s], q \in players[t] :
        state[s] = "lobby" /\ state[t] = "lobby" /\ (p.user = q.user \/ p.tg = q.tg) => s = t /\ p = q

(* A full table pays the smaller side, equally but for one point; any      *)
(* other end returns everybody's stake.                                    *)
MinorityWins ==
    \A t \in Tables : \A p, q \in players[t] :
        /\ mode[t] \in {"same", "timeout", "disabled"} => p.award = stake[t]
        /\ mode[t] \in Sides =>
              /\ p.award > 0 <=> p.choice = mode[t]
              /\ 2 * Cardinality(Pick(t, mode[t])) < Seats
              /\ p.choice = q.choice => p.award - q.award \in {-1, 0, 1}

(* A result is final, whatever clicks and ticks come later.                *)
ResultIsFinal ==
    [][\A t \in Tables : state[t] \in Ends =>
          UNCHANGED <<state[t], players[t], mode[t], book.fund[t]>>]_vars

=============================================================================
