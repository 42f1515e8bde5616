------------------------------- MODULE PkDuel -------------------------------
(***************************************************************************)
(* The dice duel of the groups (backend/app/modules/pk.py, bot_pk.py): a   *)
(* challenge with a stake, its answer, and dice that Telegram throws.  A   *)
(* die is thrown for everybody to see before the bot learns its value, so  *)
(* an answer that is lost, late or followed by a restart must not lead to  *)
(* a second throw.                                                         *)
(***************************************************************************)
EXTENDS Integers, Sequences, FiniteSets

CONSTANTS
    Users,     \* emby_user_id of the members
    Accounts,  \* Telegram accounts
    Duels,     \* nonces
    Points,    \* what each member has at first
    Stakes,    \* stakes of a command, 0 for a friendly duel
    Faces,     \* values of a die
    MaxRounds, \* MAX_ROUNDS
    MaxRetries,\* ROLL_RETRIES
    MaxRelinks,\* bound: how often a link or a wallet changes meanwhile
    ErrorsRefuse, \* TRUE: a 5xx answer means that no die was thrown
    Null

PkAssumption ==
    /\ Points \in Nat /\ MaxRounds \in Nat \ {0} /\ MaxRetries \in Nat /\ MaxRelinks \in Nat
    /\ Stakes \subseteq Nat /\ Faces \subseteq 1 .. 6 /\ ErrorsRefuse \in BOOLEAN
    /\ Null \notin Users \cup Accounts

VARIABLES
    wallet,  \* [Users -> Nat]
    link,    \* [Accounts -> member that is bound to it and valid, or Null]
    duel,    \* [Duels -> pk_rounds row]
    held,    \* [Duels -> [Sides -> points in the escrow]]
    call,    \* [Duels -> the slot _pk_roll is throwing for, 0 when it is not]
    thrown,  \* [Duels -> the dice the group has seen, with their slots]
    relinks  \* counter behind MaxRelinks

vars == <<wallet, link, duel, held, call, thrown, relinks>>

Sides == {"actor", "target"}
Active == {"pending", "rolling"}

NoRow == [state |-> "none", actor |-> [tg |-> Null, uid |-> Null], target |-> [tg |-> Null, uid |-> Null],
          stake |-> 0, card |-> "none", roll |-> "", rolls |-> <<>>, attempts |-> 0, winner |-> Null]

Init ==
    /\ wallet = [u \in Users |-> Points]
    /\ link \in {l \in [Accounts -> Users] : \A a, b \in Accounts : l[a] = l[b] => a = b}
    /\ duel = [d \in Duels |-> NoRow]
    /\ held = [d \in Duels |-> [s \in Sides |-> 0]]
    /\ call = [d \in Duels |-> 0]
    /\ thrown = [d \in Duels |-> <<>>]
    /\ relinks = 0

----------------------------------------------------------------------------
\* PlayAccess.actor: the valid member behind an account.
Valid(tg) == link[tg] # Null

\* _busy asks for the member only.
Busy(u) == \E d \in Duels : duel[d].state \in Active /\ u \in {duel[d].actor.uid, duel[d].target.uid}

\* The side that throws next, and the number of its throw.
Slot(rolls) == Len(rolls) + 1
RoundOf(slot) == (slot + 1) \div 2

\* CashBook.release of what a side still has in its escrow.
BackAsAgreed(d) == [u \in Users |-> wallet[u] + (IF u \in {duel[d].actor.uid, duel[d].target.uid} THEN duel[d].stake ELSE 0)]
Back(d) == [u \in Users |-> wallet[u] + (IF u = duel[d].actor.uid THEN held[d]["actor"] ELSE 0)
                                      + (IF u = duel[d].target.uid THEN held[d]["target"] ELSE 0)]
Nothing == [s \in Sides |-> 0]

\* _close: both stakes go back.
Close(d, state) ==
    /\ wallet' = Back(d)
    /\ held' = [held EXCEPT ![d] = Nothing]
    /\ duel' = [duel EXCEPT ![d].state = state, ![d].roll = ""]

\* create: both are asked, only the challenger pays.
Create(d, a, b, stake) ==
    LET u == link[a]
        v == link[b] IN
    /\ duel[d].state = "none" /\ Valid(a) /\ Valid(b) /\ a # b /\ u # v
    /\ ~Busy(u) /\ ~Busy(v)
    /\ wallet[u] >= stake /\ wallet[v] >= stake
    /\ wallet' = [wallet EXCEPT ![u] = @ - stake]
    /\ held' = [held EXCEPT ![d]["actor"] = stake]
    /\ duel' = [duel EXCEPT ![d] = [NoRow EXCEPT !.state = "pending", !.actor = [tg |-> a, uid |-> u],
                                    !.target = [tg |-> b, uid |-> v], !.stake = stake]]
    /\ UNCHANGED <<link, call, thrown, relinks>>

\* The card of the duel comes to the group, or Telegram refuses it and
\* cancel_unsent gives the stake back.
Publish(d, answer) ==
    /\ duel[d].state \in Active /\ duel[d].card = "none"
    /\ IF answer = "sent"
       THEN duel' = [duel EXCEPT ![d].card = "shown"] /\ UNCHANGED <<wallet, held>>
       ELSE Close(d, "cancelled")
    /\ UNCHANGED <<link, call, thrown, relinks>>

IsSide(d, a, side) == duel[d][side] = [tg |-> a, uid |-> link[a]]

\* respond, decline.
Decline(d, a) ==
    /\ duel[d].state = "pending" /\ duel[d].card = "shown" /\ Valid(a)
    /\ IsSide(d, a, "target") \/ IsSide(d, a, "actor")
    /\ Close(d, IF IsSide(d, a, "target") THEN "declined" ELSE "withdrawn")
    /\ UNCHANGED <<link, call, thrown, relinks>>

\* respond, accept: the challenger must still be who challenged; the target
\* pays now.
Accept(d, a) ==
    /\ duel[d].state = "pending" /\ duel[d].card = "shown" /\ Valid(a) /\ IsSide(d, a, "target")
    /\ IF IsSide(d, duel[d].actor.tg, "actor")
       THEN /\ wallet[link[a]] >= duel[d].stake
            /\ wallet' = [wallet EXCEPT ![link[a]] = @ - duel[d].stake]
            /\ held' = [held EXCEPT ![d]["target"] = duel[d].stake]
            /\ duel' = [duel EXCEPT ![d].state = "rolling", ![d].roll = "ready"]
       ELSE Close(d, "cancelled")
    /\ UNCHANGED <<link, call, thrown, relinks>>

----------------------------------------------------------------------------
\* begin_roll, from _pk_roll.  The lock of bot_pk.py keeps one call per duel;
\* a claim that outlived its process voids the duel.
BeginRoll(d) ==
    /\ duel[d].state = "rolling" /\ call[d] = 0 /\ duel[d].card = "shown"
    /\ IF duel[d].roll = "sending"
       THEN Close(d, "cancelled") /\ UNCHANGED call
       ELSE /\ duel[d].roll = "ready"
            /\ duel' = [duel EXCEPT ![d].roll = "sending", ![d].attempts = @ + 1]
            /\ call' = [call EXCEPT ![d] = Slot(duel[d].rolls)]
            /\ UNCHANGED <<wallet, held>>
    /\ UNCHANGED <<link, thrown, relinks>>

Shown(d, face) == thrown' = [thrown EXCEPT ![d] = Append(@, [slot |-> call[d], face |-> face])]

\* The claim still stands when the answer comes.
Standing(d) == duel[d].state = "rolling" /\ duel[d].roll = "sending" /\ Slot(duel[d].rolls) = call[d]

\* _finish: the winner takes both stakes, a draw gives them back.
Finish(d, rolls, winner) ==
    /\ wallet' = IF winner = Null THEN Back(d)
                 ELSE [wallet EXCEPT ![duel[d][winner].uid] = @ + 2 * duel[d].stake]
    /\ held' = [held EXCEPT ![d] = Nothing]
    /\ duel' = [duel EXCEPT ![d].state = "settled", ![d].roll = "", ![d].rolls = rolls,
                            ![d].attempts = 0, ![d].winner = winner]

\* record_roll.
Record(d, rolls) ==
    LET n == Len(rolls)
        decided == n % 2 = 0 /\ (rolls[n] # rolls[n - 1] \/ RoundOf(n) >= MaxRounds) IN
    IF decided
    THEN Finish(d, rolls, IF rolls[n - 1] > rolls[n] THEN "actor"
                          ELSE IF rolls[n - 1] < rolls[n] THEN "target" ELSE Null)
    ELSE /\ duel' = [duel EXCEPT ![d].roll = "ready", ![d].rolls = rolls, ![d].attempts = 0]
         /\ UNCHANGED <<wallet, held>>

\* sendDice is answered with the die.
Rolled(d, face) ==
    /\ call[d] # 0
    /\ Shown(d, face)
    /\ IF Standing(d) THEN Record(d, Append(duel[d].rolls, face)) ELSE UNCHANGED <<wallet, held, duel>>
    /\ call' = [call EXCEPT ![d] = 0]
    /\ UNCHANGED <<link, relinks>>

\* roll_failed: a refusal that may be repeated, or the end of the duel.
RollFailed(d, retry) ==
    IF ~Standing(d) THEN UNCHANGED <<wallet, held, duel>>
    ELSE IF retry /\ duel[d].attempts < MaxRetries
         THEN duel' = [duel EXCEPT ![d].roll = "ready"] /\ UNCHANGED <<wallet, held>>
         ELSE Close(d, "cancelled")

\* sendDice is refused ("retry": 429 or 5xx), or its answer is lost.
NotRolled(d, answer, seen) ==
    /\ call[d] # 0
    /\ answer = "retry" => ~seen \/ ~ErrorsRefuse
    /\ IF seen THEN \E f \in Faces : Shown(d, f) ELSE UNCHANGED thrown
    /\ RollFailed(d, answer = "retry")
    /\ call' = [call EXCEPT ![d] = 0]
    /\ UNCHANGED <<link, relinks>>

\* The process ends during the call: the row keeps its claim.
Crash(d, seen) ==
    /\ call[d] # 0
    /\ IF seen THEN \E f \in Faces : Shown(d, f) ELSE UNCHANGED thrown
    /\ call' = [call EXCEPT ![d] = 0]
    /\ UNCHANGED <<wallet, link, duel, held, relinks>>

\* expire: the wait for an answer, the lease of a throw or the whole duel has
\* run out, or the game is switched off before the answer.
Expire(d) ==
    /\ duel[d].state \in Active
    /\ Close(d, IF duel[d].state = "pending" THEN "expired" ELSE "cancelled")
    /\ UNCHANGED <<link, call, thrown, relinks>>

\* The account is bound to another member, or to none.
Relink(a, u) ==
    /\ relinks < MaxRelinks /\ u # link[a]
    /\ \A b \in Accounts : u # Null => link[b] # u
    /\ link' = [link EXCEPT ![a] = u]
    /\ relinks' = relinks + 1
    /\ UNCHANGED <<wallet, duel, held, call, thrown>>

Next ==
    \E d \in Duels :
        \/ \E a, b \in Accounts, stake \in Stakes : Create(d, a, b, stake)
        \/ \E answer \in {"sent", "failed"} : Publish(d, answer)
        \/ \E a \in Accounts : Decline(d, a) \/ Accept(d, a)
        \/ BeginRoll(d)
        \/ \E face \in Faces : Rolled(d, face)
        \/ \E answer \in {"retry", "lost"}, seen \in BOOLEAN : NotRolled(d, answer, seen)
        \/ \E seen \in BOOLEAN : Crash(d, seen)
        \/ Expire(d)
        \/ \E a \in Accounts, u \in Users \cup {Null} : Relink(a, u)

Spec == Init /\ [][Next]_vars

----------------------------------------------------------------------------
\* Nobody is in two open duels, whoever challenged whom and whatever links
\* changed in between (pk.py, _busy).
OneDuelEach ==
    \A d, e \in Duels : duel[d].state \in Active /\ duel[e].state \in Active /\ d # e =>
        {duel[d].actor.uid, duel[d].target.uid} \cap {duel[e].actor.uid, duel[e].target.uid} = {}

\* The group has seen at most one die for every throw, and a duel that was
\* settled was settled by the dice the group has seen, all of them: "an
\* unconfirmed throw voids the duel, never re-rolls" (bot_pk.py, _pk_roll).
NeverRerolls ==
    \A d \in Duels :
        /\ \A i, j \in DOMAIN thrown[d] : thrown[d][i].slot = thrown[d][j].slot => i = j
        /\ duel[d].state = "settled" =>
              duel[d].rolls = [i \in DOMAIN thrown[d] |-> thrown[d][i].face]

\* The stakes of a duel that rolls are complete, and once a duel has ended
\* nothing is left in its escrows (pk.py, _accept, _close, _finish).
StakesComplete ==
    \A d \in Duels : LET r == duel[d] IN
        held[d] = [s \in Sides |-> IF r.state = "rolling" \/ (r.state = "pending" /\ s = "actor")
                                   THEN r.stake ELSE 0]

\* A duel keeps what every game promises about the points.
Table(d) == INSTANCE Wager WITH
    risk  <- [u \in Users |-> IF u = duel[d].actor.uid THEN held[d]["actor"]
                              ELSE IF u = duel[d].target.uid THEN held[d]["target"] ELSE 0],
    phase <- IF duel[d].state = "none" THEN "idle" ELSE IF duel[d].state \in Active THEN "open" ELSE "over"
ImplementsWager ==
    /\ \A d \in Duels : Table(d)!Init
    /\ [][\A d \in Duels : Table(d)!Next]_vars
=============================================================================
