------------------------------ MODULE Requests ------------------------------
(***************************************************************************)
(* The request centre: a member asks for a film or a series, the uploaders *)
(* accept or reject it, an administrator may correct the decision, and a   *)
(* poll of the library tells when it arrived.  One transaction changes the *)
(* ticket, the monthly quota, the library watch and the outbox; the outbox *)
(* is then delivered by any number of concurrent flushers, at least once   *)
(* and in any order.                                                       *)
(***************************************************************************)
EXTENDS Naturals, SequencesExt

CONSTANTS Users,        \* Emby accounts, each bound to one Telegram account
          Demands,      \* a work together with the seasons or version wanted
          Keys,         \* create keys: one for each preview card
          Callers,      \* submissions that may wait for TMDB at the same time
          Flushers,     \* deliveries of the outbox that may run at the same time
          Quota,        \* requests per calendar month, 0 when unlimited
          Staff,        \* the uploaders at the start
          Null,
          MaxRequests, MaxRevision, MaxRows, MaxMonth, MaxChanges, MaxFaults, MaxCards, MaxPolls

RequestBounds ==
  /\ {Quota, MaxRequests, MaxRevision, MaxRows, MaxMonth, MaxChanges, MaxFaults, MaxCards, MaxPolls}
       \subseteq Nat
  /\ Staff \subseteq Users

VARIABLES
  requests,   \* media_requests: the sequence of tickets, a ticket's id is its index
  followers,  \* request_followers: ticket -> the users who follow it
  counter,    \* request_used and request_period of each member
  uploaders,  \* the members who hold the uploader or admin role
  members,    \* the accounts that still exist
  drafts,     \* create key -> the user and the demand of its preview card
  calls,      \* caller -> the create key it waits for TMDB with
  cards,      \* request_cards: whom a card serves, its ticket, revision and view
  watches,    \* request_library_watch: ticket -> state and notified stage
  poll,       \* the round of the poll: the watches left, and the answer in hand
  library,    \* demand -> how much of it the library holds
  outbox,     \* request_outbox
  flush,      \* flusher -> the row it holds and what it read
  told,       \* user -> ticket -> the last result message it received
  month, changes, faults, polls

vars == <<requests, followers, counter, uploaders, members, drafts, calls, cards, watches,
          poll, library, outbox, flush, told, month, changes, faults, polls>>
ticketVars == <<requests, followers, counter, watches>>
peopleVars == <<uploaders, members, month, changes>>
draftVars == <<drafts, calls>>
postVars == <<flush, told, faults>>
pollVars == <<poll, library, polls>>

Ids == DOMAIN requests
AllIds == 1 .. MaxRequests
Statuses == {"open", "accepted", "rejected", "cancelled"}
Active == {"pending", "partial"}
Stages == <<"partial", "complete">>
Concerned(r) == {requests[r].owner} \cup followers[r]

Init ==
  /\ requests = <<>> /\ followers = [r \in AllIds |-> {}]
  /\ counter = [u \in Users |-> [used |-> 0, period |-> 0]]
  /\ uploaders = Staff /\ members = Users
  /\ drafts = [k \in Keys |-> Null] /\ calls = [c \in Callers |-> Null]
  /\ cards = {}
  /\ watches = [r \in AllIds |-> Null]
  /\ poll = [left |-> {}, hit |-> Null] /\ library = [d \in Demands |-> 0]
  /\ outbox = <<>> /\ flush = [f \in Flushers |-> Null]
  /\ told = [u \in Users |-> [r \in AllIds |-> Null]]
  /\ month = 1 /\ changes = 0 /\ faults = 0 /\ polls = 0

-----------------------------------------------------------------------------
(* The rows a transaction queues; a key that is already there is ignored.  *)
(* Rows that only repaint cards (refresh) or post a bulletin in the group  *)
(* (announce) change nothing told to a member and are left out: Repaint    *)
(* below lets a card be repainted at any time.                             *)

RowOf(kind, r, n, to, body) ==
  [key |-> [kind |-> kind, rid |-> r, n |-> n, to |-> to], body |-> body, state |-> "pending"]

KeysIn(box) == {box[i].key : i \in DOMAIN box}

Queue(rows) == /\ outbox' = outbox \o SetToSeq({row \in rows : row.key \notin KeysIn(outbox)})
               /\ Len(outbox') <= MaxRows

ResultKeyOnce(r, revision, u) == [kind |-> "result", rid |-> r, n |-> 0, to |-> u]
ResultKey(r, revision, u) == [kind |-> "result", rid |-> r, n |-> revision, to |-> u]
Results(r, revision, status, concerned) ==
  {[key |-> ResultKey(r, revision, u), body |-> status, state |-> "pending"] : u \in concerned}

(* _start_watch leaves a running watch alone and arms any other afresh.     *)
StartWatch(r) ==
  IF watches[r] # Null /\ watches[r].state \in Active THEN watches
  ELSE [watches EXCEPT ![r] = [state |-> "pending", stage |-> ""]]

StopWatch(r) ==
  IF watches[r] # Null /\ watches[r].state \in Active
  THEN [watches EXCEPT ![r].state = "expired"] ELSE watches

(* The partial unique index of the open tickets of one demand.             *)
OpenIsFree(d, but) == \A r \in Ids : requests[r].status = "open" /\ requests[r].demand = d => r = but

-----------------------------------------------------------------------------
(* A preview card carries its create key; pressing submit waits for TMDB   *)
(* and only then runs the transaction.                                     *)

Preview(u, k, d) ==
  /\ u \in members /\ drafts[k] = Null
  /\ drafts' = [drafts EXCEPT ![k] = [user |-> u, demand |-> d]]
  /\ UNCHANGED <<ticketVars, peopleVars, calls, cards, pollVars, outbox, postVars>>

Submit(c, k) ==
  /\ calls[c] = Null /\ drafts[k] # Null
  /\ calls' = [calls EXCEPT ![c] = k]
  /\ UNCHANGED <<ticketVars, peopleVars, drafts, cards, pollVars, outbox, postVars>>

Used(u) == IF counter[u].period = month THEN counter[u].used ELSE 0
QuotaLeft(u) == Quota = 0 \/ Used(u) < Quota
SameDemand(d, statuses) == {r \in Ids : requests[r].demand = d /\ requests[r].status \in statuses}
KeyUsed(k) == \E r \in Ids : requests[r].key = k

Charge(u) == [counter EXCEPT ![u] = [used |-> Used(u) + 1, period |-> month]]

NewTicket(u, k, d) ==
  LET r == Len(requests) + 1 IN
  /\ u \in members /\ QuotaLeft(u) /\ r \in AllIds
  /\ OpenIsFree(d, Null)
  /\ requests' = Append(requests, [owner |-> u, demand |-> d, status |-> "open", revision |-> 1,
                                   month |-> month, refunded |-> FALSE, key |-> k])
  /\ counter' = Charge(u)
  /\ Queue({RowOf("new", r, 0, to, "") : to \in uploaders \cap members})
  /\ UNCHANGED <<followers, watches>>

Create(c) ==
  LET k == calls[c] IN
  /\ k # Null
  /\ LET u == drafts[k].user  d == drafts[k].demand
         same == SameDemand(d, {"open"})
     IN  \/ /\ KeyUsed(k) \/ u \notin members
            /\ UNCHANGED <<ticketVars, outbox>>
         \/ /\ ~KeyUsed(k) /\ u \in members /\ same # {}
            /\ followers' = [r \in AllIds |->
                 IF r \in same /\ requests[r].owner # u THEN followers[r] \cup {u} ELSE followers[r]]
            /\ UNCHANGED <<requests, counter, watches, outbox>>
         \/ /\ ~KeyUsed(k) /\ same = {}
            /\ SameDemand(d, {"accepted"}) # {} \/ ~QuotaLeft(u)
            /\ UNCHANGED <<ticketVars, outbox>>
         \/ /\ ~KeyUsed(k) /\ same = {} /\ SameDemand(d, {"accepted"}) = {}
            /\ NewTicket(u, k, d)
  /\ calls' = [calls EXCEPT ![c] = Null]
  /\ UNCHANGED <<peopleVars, drafts, cards, pollVars, postVars>>

-----------------------------------------------------------------------------
(* Cards: a button acts on the revision its card was rendered with.        *)

View(u, r, view) ==
  /\ u \in members /\ r \in Ids
  /\ IF view = "staff" THEN u \in uploaders ELSE u \in Concerned(r)
  /\ cards' = cards \cup {[user |-> u, rid |-> r, revision |-> requests[r].revision, view |-> view]}
  /\ Cardinality(cards') <= MaxCards
  /\ UNCHANGED <<ticketVars, peopleVars, draftVars, pollVars, outbox, postVars>>

(* _rq_refresh repaints a card its user may still see and drops it else.   *)
Repaint(card) ==
  /\ card \in cards
  /\ cards' = (cards \ {card}) \cup
       (IF card.user \in members /\ (card.view = "staff" => card.user \in uploaders)
        THEN {[card EXCEPT !.revision = requests[card.rid].revision]} ELSE {})
  /\ UNCHANGED <<ticketVars, peopleVars, draftVars, pollVars, outbox, postVars>>

(* finish: the ticket, its event, its results and its watch, in one go.    *)
FinishTicket(r, status) ==
  /\ requests[r].status = "open" /\ requests[r].revision < MaxRevision
  /\ requests' = [requests EXCEPT ![r].status = status, ![r].revision = @ + 1]
  /\ Queue(Results(r, requests[r].revision + 1, status, Concerned(r)))
  /\ watches' = IF status = "accepted" THEN StartWatch(r) ELSE watches
  /\ UNCHANGED <<followers, counter>>

(* A press renders the ticket anew whether or not it acted.                *)
Shown(card) == (cards \ {card}) \cup {[card EXCEPT !.revision = requests'[card.rid].revision]}

StaffPress(card, status) ==
  /\ card \in cards /\ card.view = "staff" /\ status \in {"accepted", "rejected"}
  /\ card.user \in uploaders \cap members
  /\ \/ /\ requests[card.rid].revision = card.revision
        /\ FinishTicket(card.rid, status)
     \/ /\ requests[card.rid].status # "open" \/ requests[card.rid].revision # card.revision
        /\ UNCHANGED <<ticketVars, outbox>>
  /\ cards' = Shown(card)
  /\ UNCHANGED <<peopleVars, draftVars, pollVars, postVars>>

OwnerCancel(card) ==
  /\ card \in cards /\ card.view = "user" /\ card.user \in members
  /\ card.user = requests[card.rid].owner
  /\ \/ /\ requests[card.rid].revision = card.revision
        /\ FinishTicket(card.rid, "cancelled")
     \/ /\ requests[card.rid].status # "open" \/ requests[card.rid].revision # card.revision
        /\ UNCHANGED <<ticketVars, outbox>>
  /\ cards' = Shown(card)
  /\ UNCHANGED <<peopleVars, draftVars, pollVars, postVars>>

Follow(u, r) ==
  /\ u \in members /\ r \in Ids /\ requests[r].status = "open" /\ requests[r].owner # u
  /\ followers' = [followers EXCEPT ![r] = @ \cup {u}]
  /\ UNCHANGED <<requests, counter, watches, peopleVars, draftVars, cards, pollVars, outbox, postVars>>

Modify(u, r, d) ==
  /\ u \in members /\ r \in Ids /\ requests[r].owner = u
  /\ requests[r].status = "open" /\ requests[r].revision < MaxRevision
  /\ SameDemand(d, {"open", "accepted"}) \subseteq {r} /\ OpenIsFree(d, r)
  /\ requests' = [requests EXCEPT ![r].demand = d, ![r].revision = @ + 1]
  /\ UNCHANGED <<followers, counter, watches, peopleVars, draftVars, cards, pollVars, outbox, postVars>>

(* The administrator's correction, which may reopen a ticket, and refund.  *)
Correct(r, status) ==
  /\ r \in Ids /\ requests[r].status # status /\ requests[r].revision < MaxRevision
  /\ status = "open" => OpenIsFree(requests[r].demand, r)
  /\ requests' = [requests EXCEPT ![r].status = status, ![r].revision = @ + 1]
  /\ Queue(Results(r, requests[r].revision + 1, status, Concerned(r)))
  /\ watches' = IF status = "accepted" THEN StartWatch(r) ELSE StopWatch(r)
  /\ UNCHANGED <<followers, counter, peopleVars, draftVars, cards, pollVars, postVars>>

Refund(r) ==
  /\ r \in Ids /\ ~requests[r].refunded /\ requests[r].month = month
  /\ requests[r].owner \in members
  /\ LET c == counter[requests[r].owner] IN
       counter' = IF c.period = month /\ c.used > 0
                  THEN [counter EXCEPT ![requests[r].owner].used = @ - 1] ELSE counter
  /\ requests' = [requests EXCEPT ![r].refunded = TRUE]
  /\ UNCHANGED <<followers, watches, peopleVars, draftVars, cards, pollVars, outbox, postVars>>

-----------------------------------------------------------------------------
(* The library poll works on the watches and demands it read at its start. *)

ActiveWatches(w) ==
  {r \in Ids : w[r] # Null /\ w[r].state \in Active /\ requests[r].status = "accepted"}

StartPoll(old, targets) ==
  LET kept == [r \in AllIds |-> IF r \in old THEN [watches[r] EXCEPT !.state = "expired"]
                                ELSE watches[r]] IN
  /\ poll.left = {} /\ poll.hit = Null /\ polls < MaxPolls /\ polls' = polls + 1
  /\ \A r \in old : watches[r] # Null /\ watches[r].state \in Active
  /\ targets \subseteq ActiveWatches(kept) /\ old \cup targets # {}
  /\ watches' = kept
  /\ poll' = [poll EXCEPT !.left = {[rid |-> r, demand |-> requests[r].demand] : r \in targets}]
  /\ UNCHANGED <<requests, followers, counter, peopleVars, draftVars, cards, library, outbox, postVars>>

(* request_lookup answered; the season catalogue is still awaited.         *)
Lookup(w) ==
  /\ poll.hit = Null /\ w \in poll.left
  /\ poll' = [left |-> poll.left \ {w},
              hit |-> IF library[w.demand] = 0 THEN Null
                      ELSE [rid |-> w.rid, stage |-> library[w.demand], demand |-> w.demand]]
  /\ UNCHANGED <<ticketVars, peopleVars, draftVars, cards, library, polls, outbox, postVars>>

NewStage(w, stage) ==
  /\ w.state \in Active /\ w.stage # "complete"
  /\ Stages[stage] = "partial" => w.stage # "partial"

ApplyStage ==
  LET h == poll.hit IN
  /\ h # Null
  /\ \/ /\ requests[h.rid].status = "accepted" /\ NewStage(watches[h.rid], h.stage)
        /\ watches' = [watches EXCEPT ![h.rid] =
             [state |-> IF h.stage = 2 THEN "done" ELSE "partial", stage |-> Stages[h.stage]]]
        /\ Queue({RowOf("library", h.rid, h.stage, u, "") : u \in Concerned(h.rid)})
     \/ /\ requests[h.rid].status # "accepted" \/ ~NewStage(watches[h.rid], h.stage)
        /\ UNCHANGED <<watches, outbox>>
  /\ poll' = [poll EXCEPT !.hit = Null]
  /\ UNCHANGED <<requests, followers, counter, peopleVars, draftVars, cards, library, polls, postVars>>

Arrive(d) ==
  /\ library[d] < 2
  /\ library' = [library EXCEPT ![d] = @ + 1]
  /\ UNCHANGED <<ticketVars, peopleVars, draftVars, cards, poll, polls, outbox, postVars>>

-----------------------------------------------------------------------------
(* Delivery: the lowest row that is due is leased and the ticket read; the *)
(* message lands while others may act; the outcome is then written down.   *)

Due(i) == outbox[i].state = "pending"

DropsOut(key) ==
  \/ key.to \notin members
  \/ key.kind = "new" /\ key.to \notin uploaders

Take(f) ==
  /\ flush[f] = Null
  /\ \E i \in DOMAIN outbox :
       /\ Due(i) /\ \A j \in 1 .. i - 1 : ~Due(j)
       /\ IF DropsOut(outbox[i].key)
          THEN outbox' = [outbox EXCEPT ![i].state = "sent"] /\ UNCHANGED flush
          ELSE /\ outbox' = [outbox EXCEPT ![i].state = "held"]
               /\ flush' = [flush EXCEPT ![f] =
                    [row |-> i, status |-> requests[outbox[i].key.rid].status,
                     revision |-> IF outbox[i].key.kind = "new"
                                  THEN requests[outbox[i].key.rid].revision ELSE 0]]
  /\ UNCHANGED <<ticketVars, peopleVars, draftVars, cards, pollVars, told, faults>>

(* A result carries the decision it was queued for; when the ticket has    *)
(* moved on it says so.                                                    *)
Message(f) ==
  LET row == outbox[flush[f].row]  now == requests[row.key.rid].status
  IN  [status |-> row.body, outdated |-> row.body # flush[f].status, raced |-> now # flush[f].status]

Landed(f) ==
  LET key == outbox[flush[f].row].key IN
  /\ told' = IF key.kind = "result" THEN [told EXCEPT ![key.to][key.rid] = Message(f)] ELSE told
  /\ cards' = IF key.kind = "new" /\ Cardinality(cards) < MaxCards
              THEN cards \cup {[user |-> key.to, rid |-> key.rid, revision |-> flush[f].revision,
                                view |-> "staff"]}
              ELSE cards

DeliveryResult(f, ok) ==
  /\ outbox' = [outbox EXCEPT ![flush[f].row].state = IF ok THEN "sent" ELSE "later"]
  /\ flush' = [flush EXCEPT ![f] = Null]
  /\ UNCHANGED <<ticketVars, peopleVars, draftVars, pollVars>>

Deliver(f) == flush[f] # Null /\ Landed(f) /\ DeliveryResult(f, TRUE) /\ UNCHANGED faults

(* Telegram refused, or took the message and its answer was lost.          *)
DeliverFails(f) ==
  /\ flush[f] # Null /\ faults < MaxFaults /\ faults' = faults + 1
  /\ \/ Landed(f)
     \/ UNCHANGED <<told, cards>>
  /\ DeliveryResult(f, FALSE)

(* The process stops while it holds a row, before or after it landed.      *)
Crash(f) ==
  /\ flush[f] # Null /\ faults < MaxFaults /\ faults' = faults + 1
  /\ \/ Landed(f)
     \/ UNCHANGED <<told, cards>>
  /\ flush' = [flush EXCEPT ![f] = Null]
  /\ UNCHANGED <<ticketVars, peopleVars, draftVars, pollVars, outbox>>

Passed(i) == outbox[i].state \in {"held", "later"}
Wait(i) ==
  /\ i \in DOMAIN outbox /\ Passed(i)
  /\ outbox' = [outbox EXCEPT ![i].state = "pending"]
  /\ UNCHANGED <<ticketVars, peopleVars, draftVars, cards, pollVars, postVars>>

-----------------------------------------------------------------------------
(* The world around: roles, deletions and the calendar.                    *)

SetRole(u) ==
  /\ changes < MaxChanges /\ changes' = changes + 1
  /\ uploaders' = IF u \in uploaders THEN uploaders \ {u} ELSE uploaders \cup {u}
  /\ UNCHANGED <<ticketVars, members, month, draftVars, cards, pollVars, outbox, postVars>>

DeleteMember(u) ==
  /\ u \in members /\ changes < MaxChanges /\ changes' = changes + 1
  /\ members' = members \ {u}
  /\ UNCHANGED <<ticketVars, uploaders, month, draftVars, cards, pollVars, outbox, postVars>>

NextMonth ==
  /\ month < MaxMonth /\ month' = month + 1
  /\ UNCHANGED <<ticketVars, uploaders, members, changes, draftVars, cards, pollVars, outbox, postVars>>

Next ==
  \/ \E u \in Users, k \in Keys, d \in Demands : Preview(u, k, d)
  \/ \E c \in Callers : (\E k \in Keys : Submit(c, k)) \/ Create(c)
  \/ \E u \in Users, r \in Ids : Follow(u, r) \/ (\E v \in {"staff", "user"} : View(u, r, v))
                                 \/ (\E d \in Demands : Modify(u, r, d))
  \/ \E card \in cards : OwnerCancel(card) \/ Repaint(card) \/ (\E s \in Statuses : StaffPress(card, s))
  \/ \E r \in Ids : Refund(r) \/ (\E s \in Statuses : Correct(r, s))
  \/ \E old, targets \in SUBSET Ids : StartPoll(old, targets)
  \/ (\E w \in poll.left : Lookup(w)) \/ ApplyStage
  \/ \E d \in Demands : Arrive(d)
  \/ \E f \in Flushers : Take(f) \/ Deliver(f) \/ DeliverFails(f) \/ Crash(f)
  \/ \E i \in DOMAIN outbox : Wait(i)
  \/ \E u \in Users : SetRole(u) \/ DeleteMember(u)
  \/ NextMonth

(* The flushers are kept going by the polling loop and rows become due     *)
(* with time; what people and Telegram's failures do is left to them.      *)
Fairness ==
  /\ \A f \in Flushers : WF_vars(Take(f)) /\ WF_vars(Deliver(f))
  /\ \A i \in 1 .. MaxRows : WF_vars(Wait(i))

Spec == Init /\ [][Next]_vars
FairSpec == Spec /\ Fairness

-----------------------------------------------------------------------------
(* Each member's counter is exactly the requests of its period that were   *)
(* not refunded, and never more than the quota, whatever double presses,   *)
(* months, refunds and corrections came between.                           *)
Billed(u) == {r \in Ids : /\ requests[r].owner = u /\ ~requests[r].refunded
                          /\ requests[r].month = counter[u].period}
QuotaExact ==
  \A u \in Users : /\ counter[u].used = Cardinality(Billed(u))
                   /\ Quota > 0 => counter[u].used <= Quota

(* Two tickets of one demand are never open together, and one preview card *)
(* makes at most one ticket.                                               *)
OneOpenTicket ==
  \A r, s \in Ids : r # s =>
    /\ ~(requests[r].status = "open" /\ requests[s].status = "open"
         /\ requests[r].demand = requests[s].demand)
    /\ requests[r].key # requests[s].key

(* The library is only watched for tickets that stand accepted.            *)
WatchedWhileAccepted ==
  \A r \in Ids : watches[r] # Null /\ watches[r].state \in Active => requests[r].status = "accepted"

(* Once nothing is left to deliver, the last result a member was sent is   *)
(* the ticket's status, or it said that the status had moved on, or the    *)
(* status moved while that very message was on its way: retries and        *)
(* concurrent flushers may reorder the messages, not falsify them.         *)
Undelivered(u, r) ==
  \E i \in DOMAIN outbox : /\ outbox[i].state # "sent"
                           /\ outbox[i].key.kind = "result"
                           /\ outbox[i].key.rid = r /\ outbox[i].key.to = u
LastWordRight ==
  \A u \in members, r \in Ids :
    told[u][r] = Null \/ Undelivered(u, r) \/ told[u][r].outdated \/ told[u][r].raced
    \/ told[u][r].status = requests[r].status

=============================================================================
