------------------------------- MODULE Wager -------------------------------
(***************************************************************************)
(* What every game with stakes promises about the members' points: a stake *)
(* moves points from a wallet to the table, nothing leaves the table while *)
(* the game is open, and the end, which comes once, pays out exactly what  *)
(* is on the table.  It does not say who is paid.                          *)
(***************************************************************************)
EXTENDS Integers, Functions

CONSTANT Users
VARIABLES wallet, \* spendable points of each member
          risk,   \* what each member has on the table
          phase   \* "idle", "open", "over"

vars == <<wallet, risk, phase>>

Total(f) == SumFunction(f)

Init == phase = "idle" /\ risk = [u \in Users |-> 0]

Open == phase = "idle" /\ phase' = "open"

\* Points go from the wallets to the table, never back before the end.
Stake ==
    /\ phase' = "open"
    /\ \A u \in Users : risk'[u] >= risk[u] /\ wallet'[u] + risk'[u] = wallet[u] + risk[u]

\* The end distributes all that is on the table, with the stake of at most
\* one member, whose seat completes the table.
Settle ==
    /\ phase = "open" /\ phase' = "over"
    /\ \A u \in Users : risk'[u] = 0
    /\ \A u, v \in Users : wallet'[u] < wallet[u] /\ wallet'[v] < wallet[v] => u = v
    /\ Total(wallet') = Total(wallet) + Total(risk)

\* The members earn and spend elsewhere meanwhile.
Elsewhere == UNCHANGED <<risk, phase>>

Next == (Open /\ UNCHANGED <<wallet, risk>>) \/ (phase # "over" /\ Stake) \/ Settle \/ Elsewhere

Spec == Init /\ [][Next]_vars
=============================================================================
