----------------------------- MODULE InviteCases -----------------------------
(* Who answers for a deleted member (invite_tree.py, bot_invites.py): each  *)
(* deletion by an administrator or a rule opens a case about the one who    *)
(* had invited him, which an administrator settles from the group's card or *)
(* from the Deck, while others decide too, the inviter's account goes or    *)
(* stays, and the process may end.  One inviter and the cases about him.    *)
EXTENDS Naturals, FiniteSets

CONSTANTS
  Cases,     \* departures of those he had invited
  Deciders,  \* tasks of the card's buttons and of the Deck's
  Null,
  MaxPresses, MaxFaults  \* bounds of the instance

CaseBounds == {MaxPresses, MaxFaults} \subseteq Nat

VARIABLES
  member,     \* the inviter has a row
  remote,     \* he has an account in Emby
  suspended,  \* his invitations are suspended
  trusted,    \* the deciders are administrators still
  cases,      \* invite_cases
  letters,    \* the delivery of each case's card to the group
  flushing,   \* the case that _flush_invite_cases is at, under its lock
  work,       \* the decisions under way
  posts,      \* history: how often a case was posted
  started,    \* the worker's first steps after a start are done
  presses, faults

vars == <<member, remote, suspended, trusted, cases, letters, flushing, work, posts, started, presses, faults>>
world == <<member, remote, suspended, trusted>>
post == <<letters, flushing, posts>>

Actions == {"delete", "suspend", "ignore"}
Settled == {"deleted", "suspended", "ignored", "gone"}

CaseTypes ==
  /\ cases \in [Cases -> {"none", "pending", "processing"} \cup Settled]
  /\ letters \in [Cases -> {"none", "pending", "sending", "sent", "failed", "skipped"}]
  /\ \A d \in Deciders : work[d] = Null \/ work[d].case \in Cases

Init ==
  /\ member = TRUE /\ remote = TRUE /\ suspended = FALSE /\ trusted = TRUE
  /\ cases = [k \in Cases |-> "none"] /\ letters = cases /\ flushing = Null
  /\ work = [d \in Deciders |-> Null] /\ posts = [k \in Cases |-> 0]
  /\ started = TRUE /\ presses = 0 /\ faults = 0

-----------------------------------------------------------------------------
Fault == faults < MaxFaults /\ faults' = faults + 1
At(d, pc) == work[d] # Null /\ work[d].pc = pc
Go(d, pc) == work' = [work EXCEPT ![d].pc = pc]
Case(d) == work[d].case

(* One whom he invited is deleted; if he is a member there is a case.       *)
open_case(k) ==
  /\ cases[k] = "none" /\ member
  /\ cases' = [cases EXCEPT ![k] = "pending"] /\ letters' = [letters EXCEPT ![k] = "pending"]
  /\ UNCHANGED <<world, flushing, work, posts, started, presses, faults>>

(* claim: one decider goes on, and the others are shown how it stands.      *)
Claimable(k) == cases[k] = "pending"

decide_case(d, k, action) ==
  /\ work[d] = Null /\ presses < MaxPresses /\ presses' = presses + 1 /\ trusted
  /\ Claimable(k) /\ cases' = [cases EXCEPT ![k] = "processing"]
  /\ work' = [work EXCEPT ![d] = [case |-> k, action |-> action, listed |-> FALSE, pc |-> "look"]]
  /\ UNCHANGED <<world, post, started, faults>>

settle(d, status) == cases' = [cases EXCEPT ![Case(d)] = status] /\ work' = [work EXCEPT ![d] = Null]

(* What failed may be decided again.                                        *)
release(d) ==
  /\ cases' = [cases EXCEPT ![Case(d)] = IF @ = "processing" THEN "pending" ELSE @]
  /\ work' = [work EXCEPT ![d] = Null]

Look(d) ==
  /\ At(d, "look")
  /\ \/ ~member /\ settle(d, "gone")
     \/ member /\ work[d].action = "ignore" /\ settle(d, "ignored")
     \/ member /\ work[d].action = "suspend" /\ Go(d, "suspend") /\ UNCHANGED cases
     \/ member /\ work[d].action = "delete" /\ Go(d, "list") /\ UNCHANGED cases
  /\ UNCHANGED <<world, post, started, presses, faults>>

(* The suspension and the settlement are two transactions.                  *)
Suspend(d) ==
  /\ At(d, "suspend") /\ suspended' = TRUE /\ Go(d, "settle")
  /\ UNCHANGED <<member, remote, trusted, cases, post, started, presses, faults>>

SettleSuspended(d) ==
  /\ At(d, "settle") /\ settle(d, "suspended")
  /\ UNCHANGED <<world, post, started, presses, faults>>

(* execute_delete: Emby's list, the authority, the account, then the row.   *)
List(d) ==
  /\ At(d, "list")
  /\ \/ work' = [work EXCEPT ![d].listed = ~remote, ![d].pc = "authorize"] /\ UNCHANGED faults
     \/ Fault /\ Go(d, "authorize")
  /\ UNCHANGED <<world, cases, post, started, presses>>

Authorize(d) ==
  /\ At(d, "authorize")
  /\ IF trusted THEN Go(d, "delete") /\ UNCHANGED cases ELSE release(d)
  /\ UNCHANGED <<world, post, started, presses, faults>>

(* Emby deletes, or has no such account; or refuses, which an earlier list  *)
(* without the account outweighs; or does not answer.                       *)
delete_emby_one(d) ==
  /\ At(d, "delete")
  /\ \/ remote' = FALSE /\ Go(d, "remove") /\ UNCHANGED <<cases, faults>>
     \/ /\ Fault /\ UNCHANGED remote
        /\ IF work[d].listed THEN Go(d, "remove") /\ UNCHANGED cases ELSE release(d)
     \/ Fault /\ remote' \in {remote, FALSE} /\ release(d)
  /\ UNCHANGED <<member, suspended, trusted, post, started, presses>>

(* With the row goes what depends on it; his own inviter has no case.       *)
RemoveRow(d) ==
  /\ At(d, "remove") /\ member' = FALSE /\ settle(d, "deleted")
  /\ UNCHANGED <<remote, suspended, trusted, post, started, presses, faults>>

(* ------------------------------- the card ------------------------------ *)
Deliverable(k) == letters[k] = "pending"

(* A case that is settled, or has no group to go to, is not announced; the  *)
(* list of cases may be older than the settlement.                          *)
Take(k) ==
  /\ flushing = Null /\ started /\ Deliverable(k)
  /\ \/ letters' = [letters EXCEPT ![k] = "sending"] /\ flushing' = k
     \/ letters' = [letters EXCEPT ![k] = "skipped"] /\ UNCHANGED flushing
  /\ UNCHANGED <<world, cases, work, posts, started, presses, faults>>

SendCard(k) ==
  /\ flushing = k /\ flushing' = Null
  /\ \/ posts' = [posts EXCEPT ![k] = @ + 1] /\ letters' = [letters EXCEPT ![k] = "sent"] /\ UNCHANGED faults
     \/ /\ Fault /\ letters' = [letters EXCEPT ![k] = "failed"]
        /\ posts' \in {posts, [posts EXCEPT ![k] = @ + 1]}
  /\ UNCHANGED <<world, cases, work, started, presses>>

(* --------------------------- faults, restart --------------------------- *)
Distrust == trusted' = ~trusted /\ Fault
            /\ UNCHANGED <<member, remote, suspended, cases, post, work, started, presses>>

(* The inviter is deleted otherwise; a suspension is lifted or runs out.    *)
Elsewhere ==
  /\ Fault
  /\ \/ member /\ member' = FALSE /\ remote' = FALSE /\ UNCHANGED suspended
     \/ suspended /\ suspended' = FALSE /\ UNCHANGED <<member, remote>>
  /\ UNCHANGED <<trusted, cases, post, work, started, presses>>

Crash ==
  /\ Fault /\ started' = FALSE /\ flushing' = Null /\ work' = [d \in Deciders |-> Null]
  /\ remote' \in (IF \E d \in Deciders : At(d, "delete") THEN {remote, FALSE} ELSE {remote})
  /\ posts' \in (IF flushing = Null THEN {posts} ELSE {posts, [posts EXCEPT ![flushing] = @ + 1]})
  /\ UNCHANGED <<member, suspended, trusted, cases, letters, presses>>

(* The worker's start: a decision that was interrupted is settled if the    *)
(* inviter is gone and opened again if not; a sending is not repeated.      *)
RecoveredNothing(k) == cases[k]
Recovered(k) == IF cases[k] # "processing" THEN cases[k] ELSE IF member THEN "pending" ELSE "deleted"
Unsent(state) == IF state = "sending" THEN "failed" ELSE state

recover ==
  /\ ~started /\ started' = TRUE
  /\ cases' = [k \in Cases |-> Recovered(k)] /\ letters' = [k \in Cases |-> Unsent(letters[k])]
  /\ UNCHANGED <<world, flushing, work, posts, presses, faults>>

Decide(d) ==
  Look(d) \/ Suspend(d) \/ SettleSuspended(d) \/ List(d) \/ Authorize(d) \/ delete_emby_one(d) \/ RemoveRow(d)

Next ==
  \/ \E k \in Cases : open_case(k) \/ Take(k) \/ SendCard(k)
  \/ \E d \in Deciders, k \in Cases, a \in Actions : started /\ decide_case(d, k, a)
  \/ \E d \in Deciders : Decide(d)
  \/ Distrust \/ Elsewhere \/ Crash \/ recover

-----------------------------------------------------------------------------
(* Exactly one decider proceeds, the group sees a case once at most, and a  *)
(* case says that the inviter is deleted or gone only when he is.           *)
CasesSound ==
  /\ \A d, e \in Deciders : work[d] # Null /\ work[e] # Null /\ Case(d) = Case(e) => d = e
  /\ \A d \in Deciders : work[d] # Null => cases[Case(d)] = "processing"
  /\ \A k \in Cases : posts[k] <= 1 /\ (cases[k] \in {"deleted", "gone"} => ~member)

(* A case that is settled stays so.                                         *)
CasesFinal == \A k \in Cases : cases[k] \in Settled => cases'[k] = cases[k]

(* A case does not stay in the state of a decision that nobody is making.   *)
Stuck(k) == cases[k] = "processing"
=============================================================================
