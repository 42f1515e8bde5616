------------------------------ MODULE MCPeople -------------------------------
(* What a member asks the operators for, and the end of his membership: the *)
(* request centre, renewals and the deletion of the expired; and what is    *)
(* done about him without his asking: sanctions, the rule about leaving a   *)
(* group, audits, notices, reports, and the tree of invitations.  The parts *)
(* are checked side by side, one at work in a behaviour, on the sizes that  *)
(* their own questions need.                                                     *)
EXTENDS Lifecycle, TLC

CONSTANTS u1, u2, d1, d2, k1, k2, c1, c2, f1, f2, q1, s1, g1, g2, h1, a1, a2, e1, e2

VARIABLES part,  \* the component that is at work; the others stand still
  clock2, member2, life2, remote2, inflight2, balance2, held2, renewals2, intents2, price2,
  enabled2, job2, mail2, claims2, changes2, faults2, requests, followers, counter, uploaders,
  accounts, drafts, calls, cards, watches, poll, library, outbox, flush, told, month, shifts,
  lost, polls, time, row, emby, applied, rules, live, trusted, events, notices, batch, holder,
  work, agreed, inside, updates, offset, confirmed, epoch, epochs, heads, marks, busy, writing,
  verdicts, on, lastDaily, lastRetry, history, state, run, bound, out, suspended, heard, spoiled,
  asked, manual, invitees, there, cases, letters, flushing, posts, started, presses

Active    == [status |-> "active", lapsed |-> FALSE, admin |-> FALSE]
Suspended == [Active EXCEPT !.status = "suspended"]
Pending   == [Active EXCEPT !.status = "pending"]
Admin     == [Active EXCEPT !.admin = TRUE]

Renewal == INSTANCE Lifecycle WITH
  Requests <- {q1}, Prices <- {1, 2}, MaxIntents <- 1, MaxRenewals <- 2, MaxTime <- 3, MaxClaims
  <- 0, MaxFaults <- 0, MaxChanges <- 1, clock <- clock2, member <- member2, life <- life2,
  remote <- remote2, inflight <- inflight2, balance <- balance2, held <- held2, renewals <-
  renewals2, intents <- intents2, price <- price2, enabled <- enabled2, job <- job2, mail <-
  mail2, claims <- claims2, changes <- changes2, faults <- faults2
Desk == INSTANCE Requests WITH
  Users <- {u1}, Demands <- {d1, d2}, Keys <- {k1, k2}, Callers <- {c1}, Flushers <- {}, Quota
  <- 1, Staff <- {}, MaxRequests <- 2, MaxRevision <- 2, MaxRows <- 12, MaxMonth <- 1,
  MaxChanges <- 0, MaxFaults <- 0, MaxCards <- 0, MaxPolls <- 0, members <- accounts, changes <-
  shifts, faults <- lost
Months == INSTANCE Requests WITH
  Users <- {u1, u2}, Demands <- {d1}, Keys <- {k1, k2}, Callers <- {c1}, Flushers <- {}, Quota
  <- 1, Staff <- {}, MaxRequests <- 2, MaxRevision <- 2, MaxRows <- 12, MaxMonth <- 2,
  MaxChanges <- 0, MaxFaults <- 0, MaxCards <- 0, MaxPolls <- 0, members <- accounts, changes <-
  shifts, faults <- lost
Press == INSTANCE Requests WITH
  Users <- {u1, u2}, Demands <- {d1}, Keys <- {k1}, Callers <- {c1}, Flushers <- {}, Quota <- 1,
  Staff <- {u2}, MaxRequests <- 1, MaxRevision <- 3, MaxRows <- 12, MaxMonth <- 1, MaxChanges <-
  0, MaxFaults <- 0, MaxCards <- 1, MaxPolls <- 2, members <- accounts, changes <- shifts,
  faults <- lost
Mail == INSTANCE Requests WITH
  Users <- {u1}, Demands <- {d1}, Keys <- {k1}, Callers <- {c1}, Flushers <- {f1, f2}, Quota <-
  1, Staff <- {}, MaxRequests <- 1, MaxRevision <- 3, MaxRows <- 2, MaxMonth <- 1, MaxChanges <-
  0, MaxFaults <- 1, MaxCards <- 0, MaxPolls <- 0, members <- accounts, changes <- shifts,
  faults <- lost
Post == INSTANCE Requests WITH
  Users <- {u1}, Demands <- {d1}, Keys <- {k1}, Callers <- {c1}, Flushers <- {f1}, Quota <- 1,
  Staff <- {u1}, MaxRequests <- 1, MaxRevision <- 2, MaxRows <- 2, MaxMonth <- 1, MaxChanges <-
  1, MaxFaults <- 1, MaxCards <- 1, MaxPolls <- 0, members <- accounts, changes <- shifts,
  faults <- lost
Orders == INSTANCE Sanctions WITH
  Calls <- {c1, c2}, Rules <- {}, Actions <- {}, Sessions <- {s1}, Requests <- {q1}, Rows <-
  {Active, Suspended}, Powers <- {"trust"}, Window <- 1, MaxEvents <- 1, MaxTime <- 0,
  MaxChanges <- 2, MaxFaults <- 1, clock <- time, changes <- shifts, faults <- lost
Punish == INSTANCE Sanctions WITH
  Calls <- {c1, c2}, Rules <- {"web_play"}, Actions <- {"disable", "delete"}, Sessions <- {s1},
  Requests <- {}, Rows <- {Active, Pending, Admin}, Powers <- {"native"}, Window <- 1, MaxEvents
  <- 1, MaxTime <- 0, MaxChanges <- 1, MaxFaults <- 1, clock <- time, changes <- shifts, faults
  <- lost
Clients == INSTANCE Sanctions WITH
  Calls <- {c1}, Rules <- {"client_filter"}, Actions <- {"pause"}, Sessions <- {s1}, Requests <-
  {}, Rows <- {Active}, Powers <- {}, Window <- 1, MaxEvents <- 2, MaxTime <- 2, MaxChanges <-
  0, MaxFaults <- 1, clock <- time, changes <- shifts, faults <- lost
Windows == INSTANCE Sanctions WITH
  Calls <- {c1}, Rules <- {"web_play"}, Actions <- {"disable"}, Sessions <- {s1}, Requests <-
  {q1}, Rows <- {Active, Suspended}, Powers <- {}, Window <- 1, MaxEvents <- 3, MaxTime <- 2,
  MaxChanges <- 1, MaxFaults <- 0, clock <- time, changes <- shifts, faults <- lost
Drift == INSTANCE Sanctions WITH
  Calls <- {c1}, Rules <- {}, Actions <- {}, Sessions <- {s1}, Requests <- {}, Rows <- {Active,
  Suspended}, Powers <- {"native"}, Window <- 1, MaxEvents <- 0, MaxTime <- 0, MaxChanges <- 2,
  MaxFaults <- 1, clock <- time, changes <- shifts, faults <- lost
Rejoin == INSTANCE Membership WITH
  Chats <- {g1}, Ids <- {a1}, Handlers <- {h1}, MaxTime <- 1, MaxUpdates <- 2, MaxChanges <- 1,
  MaxFaults <- 1, clock <- time, changes <- shifts, faults <- lost
Groups == INSTANCE Membership WITH
  Chats <- {g1, g2}, Ids <- {a1}, Handlers <- {h1}, MaxTime <- 2, MaxUpdates <- 2, MaxChanges <-
  0, MaxFaults <- 0, clock <- time, changes <- shifts, faults <- lost
Report == INSTANCE Jobs WITH
  Job <- "report", Members <- {a1}, Deaf <- {}, Day <- 3, Hour <- 1, ReportDays <- {0}, Backoff
  <- 1, Attempts <- 2, Grace <- 2, Keep <- 9, MaxTime <- 7, MaxManual <- 1, MaxChanges <- 0,
  MaxFaults <- 2, clock <- time, changes <- shifts, faults <- lost, enabled <- on
Remind == INSTANCE Jobs WITH
  Job <- "remind", Members <- {a1, a2}, Deaf <- {}, Day <- 3, Hour <- 1, ReportDays <- {0},
  Backoff <- 1, Attempts <- 2, Grace <- 2, Keep <- 9, MaxTime <- 5, MaxManual <- 0, MaxChanges
  <- 0, MaxFaults <- 2, clock <- time, changes <- shifts, faults <- lost, enabled <- on
Audit == INSTANCE Jobs WITH
  Job <- "audit", Members <- {a1}, Deaf <- {}, Day <- 3, Hour <- 1, ReportDays <- {0}, Backoff
  <- 1, Attempts <- 2, Grace <- 2, Keep <- 9, MaxTime <- 7, MaxManual <- 0, MaxChanges <- 2,
  MaxFaults <- 1, clock <- time, changes <- shifts, faults <- lost, enabled <- on
Cases == INSTANCE InviteCases WITH
  Cases <- {k1}, Deciders <- {e1, e2}, MaxPresses <- 3, MaxFaults <- 2, member <- invitees,
  remote <- there, faults <- lost

others == <<clock2, member2, life2, remote2, inflight2, balance2, held2, renewals2, intents2,
            price2, enabled2, job2, mail2, claims2, changes2, faults2, requests, followers,
            counter, uploaders, accounts, drafts, calls, cards, watches, poll, library, outbox,
            flush, told, month, shifts, lost, polls, time, row, emby, applied, rules, live,
            trusted, events, notices, batch, holder, work, agreed, inside, updates, offset,
            confirmed, epoch, epochs, heads, marks, busy, writing, verdicts, on, lastDaily,
            lastRetry, history, state, run, bound, out, suspended, heard, spoiled, asked, manual,
            invitees, there, cases, letters, flushing, posts, started, presses>>
allVars == <<vars, part, others>>
notRenewal == <<requests, followers, counter, uploaders, accounts, drafts, calls, cards,
                watches, poll, library, outbox, flush, told, month, shifts, lost, polls, time,
                row, emby, applied, rules, live, trusted, events, notices, batch, holder, work,
                agreed, inside, updates, offset, confirmed, epoch, epochs, heads, marks, busy,
                writing, verdicts, on, lastDaily, lastRetry, history, state, run, bound, out,
                suspended, heard, spoiled, asked, manual, invitees, there, cases, letters,
                flushing, posts, started, presses>>
notDesk == <<clock2, member2, life2, remote2, inflight2, balance2, held2, renewals2, intents2,
             price2, enabled2, job2, mail2, claims2, changes2, faults2, time, row, emby, applied,
             rules, live, trusted, events, notices, batch, holder, work, agreed, inside, updates,
             offset, confirmed, epoch, epochs, heads, marks, busy, writing, verdicts, on,
             lastDaily, lastRetry, history, state, run, bound, out, suspended, heard, spoiled,
             asked, manual, invitees, there, cases, letters, flushing, posts, started, presses>>
notMonths == <<clock2, member2, life2, remote2, inflight2, balance2, held2, renewals2, intents2,
               price2, enabled2, job2, mail2, claims2, changes2, faults2, time, row, emby,
               applied, rules, live, trusted, events, notices, batch, holder, work, agreed,
               inside, updates, offset, confirmed, epoch, epochs, heads, marks, busy, writing,
               verdicts, on, lastDaily, lastRetry, history, state, run, bound, out, suspended,
               heard, spoiled, asked, manual, invitees, there, cases, letters, flushing, posts,
               started, presses>>
notPress == <<clock2, member2, life2, remote2, inflight2, balance2, held2, renewals2, intents2,
              price2, enabled2, job2, mail2, claims2, changes2, faults2, time, row, emby, applied,
              rules, live, trusted, events, notices, batch, holder, work, agreed, inside, updates,
              offset, confirmed, epoch, epochs, heads, marks, busy, writing, verdicts, on,
              lastDaily, lastRetry, history, state, run, bound, out, suspended, heard, spoiled,
              asked, manual, invitees, there, cases, letters, flushing, posts, started, presses>>
notMail == <<clock2, member2, life2, remote2, inflight2, balance2, held2, renewals2, intents2,
             price2, enabled2, job2, mail2, claims2, changes2, faults2, time, row, emby, applied,
             rules, live, trusted, events, notices, batch, holder, work, agreed, inside, updates,
             offset, confirmed, epoch, epochs, heads, marks, busy, writing, verdicts, on,
             lastDaily, lastRetry, history, state, run, bound, out, suspended, heard, spoiled,
             asked, manual, invitees, there, cases, letters, flushing, posts, started, presses>>
notPost == <<clock2, member2, life2, remote2, inflight2, balance2, held2, renewals2, intents2,
             price2, enabled2, job2, mail2, claims2, changes2, faults2, time, row, emby, applied,
             rules, live, trusted, events, notices, batch, holder, work, agreed, inside, updates,
             offset, confirmed, epoch, epochs, heads, marks, busy, writing, verdicts, on,
             lastDaily, lastRetry, history, state, run, bound, out, suspended, heard, spoiled,
             asked, manual, invitees, there, cases, letters, flushing, posts, started, presses>>
notOrders == <<clock2, member2, life2, remote2, inflight2, balance2, held2, renewals2, intents2,
               price2, enabled2, job2, mail2, claims2, changes2, faults2, requests, followers,
               counter, uploaders, accounts, drafts, calls, cards, watches, poll, library, outbox,
               flush, told, month, polls, inside, updates, offset, confirmed, epoch, epochs,
               heads, marks, busy, writing, verdicts, on, lastDaily, lastRetry, history, state,
               run, bound, out, suspended, heard, spoiled, asked, manual, invitees, there, cases,
               letters, flushing, posts, started, presses>>
notPunish == <<clock2, member2, life2, remote2, inflight2, balance2, held2, renewals2, intents2,
               price2, enabled2, job2, mail2, claims2, changes2, faults2, requests, followers,
               counter, uploaders, accounts, drafts, calls, cards, watches, poll, library, outbox,
               flush, told, month, polls, inside, updates, offset, confirmed, epoch, epochs,
               heads, marks, busy, writing, verdicts, on, lastDaily, lastRetry, history, state,
               run, bound, out, suspended, heard, spoiled, asked, manual, invitees, there, cases,
               letters, flushing, posts, started, presses>>
notClients == <<clock2, member2, life2, remote2, inflight2, balance2, held2, renewals2,
                intents2, price2, enabled2, job2, mail2, claims2, changes2, faults2, requests,
                followers, counter, uploaders, accounts, drafts, calls, cards, watches, poll,
                library, outbox, flush, told, month, polls, inside, updates, offset, confirmed,
                epoch, epochs, heads, marks, busy, writing, verdicts, on, lastDaily, lastRetry,
                history, state, run, bound, out, suspended, heard, spoiled, asked, manual,
                invitees, there, cases, letters, flushing, posts, started, presses>>
notWindows == <<clock2, member2, life2, remote2, inflight2, balance2, held2, renewals2,
                intents2, price2, enabled2, job2, mail2, claims2, changes2, faults2, requests,
                followers, counter, uploaders, accounts, drafts, calls, cards, watches, poll,
                library, outbox, flush, told, month, polls, inside, updates, offset, confirmed,
                epoch, epochs, heads, marks, busy, writing, verdicts, on, lastDaily, lastRetry,
                history, state, run, bound, out, suspended, heard, spoiled, asked, manual,
                invitees, there, cases, letters, flushing, posts, started, presses>>
notDrift == <<clock2, member2, life2, remote2, inflight2, balance2, held2, renewals2, intents2,
              price2, enabled2, job2, mail2, claims2, changes2, faults2, requests, followers,
              counter, uploaders, accounts, drafts, calls, cards, watches, poll, library, outbox,
              flush, told, month, polls, inside, updates, offset, confirmed, epoch, epochs, heads,
              marks, busy, writing, verdicts, on, lastDaily, lastRetry, history, state, run,
              bound, out, suspended, heard, spoiled, asked, manual, invitees, there, cases,
              letters, flushing, posts, started, presses>>
notRejoin == <<clock2, member2, life2, remote2, inflight2, balance2, held2, renewals2, intents2,
               price2, enabled2, job2, mail2, claims2, changes2, faults2, requests, followers,
               counter, uploaders, accounts, drafts, calls, cards, watches, poll, library, outbox,
               flush, told, month, polls, applied, live, trusted, events, notices, batch, holder,
               agreed, on, lastDaily, lastRetry, history, state, run, bound, out, suspended,
               heard, spoiled, asked, manual, invitees, there, cases, letters, flushing, posts,
               started, presses>>
notGroups == <<clock2, member2, life2, remote2, inflight2, balance2, held2, renewals2, intents2,
               price2, enabled2, job2, mail2, claims2, changes2, faults2, requests, followers,
               counter, uploaders, accounts, drafts, calls, cards, watches, poll, library, outbox,
               flush, told, month, polls, applied, live, trusted, events, notices, batch, holder,
               agreed, on, lastDaily, lastRetry, history, state, run, bound, out, suspended,
               heard, spoiled, asked, manual, invitees, there, cases, letters, flushing, posts,
               started, presses>>
notReport == <<clock2, member2, life2, remote2, inflight2, balance2, held2, renewals2, intents2,
               price2, enabled2, job2, mail2, claims2, changes2, faults2, requests, followers,
               counter, uploaders, accounts, drafts, calls, cards, watches, poll, library, outbox,
               flush, month, polls, row, emby, applied, rules, live, trusted, events, notices,
               batch, holder, work, agreed, inside, updates, offset, confirmed, epoch, epochs,
               heads, marks, busy, writing, verdicts, invitees, there, cases, letters, flushing,
               posts, started, presses>>
notRemind == <<clock2, member2, life2, remote2, inflight2, balance2, held2, renewals2, intents2,
               price2, enabled2, job2, mail2, claims2, changes2, faults2, requests, followers,
               counter, uploaders, accounts, drafts, calls, cards, watches, poll, library, outbox,
               flush, month, polls, row, emby, applied, rules, live, trusted, events, notices,
               batch, holder, work, agreed, inside, updates, offset, confirmed, epoch, epochs,
               heads, marks, busy, writing, verdicts, invitees, there, cases, letters, flushing,
               posts, started, presses>>
notAudit == <<clock2, member2, life2, remote2, inflight2, balance2, held2, renewals2, intents2,
              price2, enabled2, job2, mail2, claims2, changes2, faults2, requests, followers,
              counter, uploaders, accounts, drafts, calls, cards, watches, poll, library, outbox,
              flush, month, polls, row, emby, applied, rules, live, trusted, events, notices,
              batch, holder, work, agreed, inside, updates, offset, confirmed, epoch, epochs,
              heads, marks, busy, writing, verdicts, invitees, there, cases, letters, flushing,
              posts, started, presses>>
notCases == <<clock2, member2, life2, remote2, inflight2, balance2, held2, renewals2, intents2,
              price2, enabled2, job2, mail2, claims2, changes2, faults2, requests, followers,
              counter, uploaders, accounts, drafts, calls, cards, watches, poll, library, outbox,
              flush, told, month, shifts, polls, time, row, emby, applied, rules, live, events,
              notices, batch, holder, agreed, inside, updates, offset, confirmed, epoch, epochs,
              heads, marks, busy, writing, verdicts, on, lastDaily, lastRetry, history, state,
              run, bound, out, heard, spoiled, asked, manual>>

ASSUME Assumptions ==
  /\ Renewal!LifecycleAssumption /\ Desk!RequestBounds /\ Months!RequestBounds
  /\ Press!RequestBounds /\ Mail!RequestBounds /\ Post!RequestBounds
  /\ Orders!SanctionBounds /\ Punish!SanctionBounds /\ Clients!SanctionBounds
  /\ Windows!SanctionBounds /\ Drift!SanctionBounds
  /\ Rejoin!MembershipBounds /\ Groups!MembershipBounds
  /\ Report!JobBounds /\ Remind!JobBounds /\ Audit!JobBounds /\ Cases!CaseBounds

AtRest == Init
On(p, F) == part = p /\ F

(* A step of one component leaves the others as they are.                  *)
InExpiry(A) == part = "expiry" /\ A /\ UNCHANGED <<part, others>>
InRenewal(A) == part = "renewal" /\ A /\ UNCHANGED <<part, vars, notRenewal>>
InDesk(A) == part = "desk" /\ A /\ UNCHANGED <<part, vars, notDesk>>
InMonths(A) == part = "months" /\ A /\ UNCHANGED <<part, vars, notMonths>>
InPress(A) == part = "press" /\ A /\ UNCHANGED <<part, vars, notPress>>
InMail(A) == part = "mail" /\ A /\ UNCHANGED <<part, vars, notMail>>
InPost(A) == part = "post" /\ A /\ UNCHANGED <<part, vars, notPost>>
InOrders(A) == part = "orders" /\ A /\ UNCHANGED <<part, vars, notOrders>>
InPunish(A) == part = "punish" /\ A /\ UNCHANGED <<part, vars, notPunish>>
InClients(A) == part = "clients" /\ A /\ UNCHANGED <<part, vars, notClients>>
InWindows(A) == part = "windows" /\ A /\ UNCHANGED <<part, vars, notWindows>>
InDrift(A) == part = "drift" /\ A /\ UNCHANGED <<part, vars, notDrift>>
InRejoin(A) == part = "rejoin" /\ A /\ UNCHANGED <<part, vars, notRejoin>>
InGroups(A) == part = "groups" /\ A /\ UNCHANGED <<part, vars, notGroups>>
InReport(A) == part = "report" /\ A /\ UNCHANGED <<part, vars, notReport>>
InRemind(A) == part = "remind" /\ A /\ UNCHANGED <<part, vars, notRemind>>
InAudit(A) == part = "audit" /\ A /\ UNCHANGED <<part, vars, notAudit>>
InCases(A) == part = "cases" /\ A /\ UNCHANGED <<part, vars, notCases>>

UnionInit ==
  \/ part = "expiry" /\ Init
     /\ clock2 = Null /\ member2 = Null /\ life2 = Null /\ remote2 = Null /\ inflight2 = Null
     /\ balance2 = Null /\ held2 = Null /\ renewals2 = Null /\ intents2 = Null
     /\ price2 = Null /\ enabled2 = Null /\ job2 = Null /\ mail2 = Null /\ claims2 = Null
     /\ changes2 = Null /\ faults2 = Null /\ requests = Null /\ followers = Null
     /\ counter = Null /\ uploaders = Null /\ accounts = Null /\ drafts = Null
     /\ calls = Null /\ cards = Null /\ watches = Null /\ poll = Null /\ library = Null
     /\ outbox = Null /\ flush = Null /\ told = Null /\ month = Null /\ shifts = Null
     /\ lost = Null /\ polls = Null /\ time = Null /\ row = Null /\ emby = Null
     /\ applied = Null /\ rules = Null /\ live = Null /\ trusted = Null /\ events = Null
     /\ notices = Null /\ batch = Null /\ holder = Null /\ work = Null /\ agreed = Null
     /\ inside = Null /\ updates = Null /\ offset = Null /\ confirmed = Null /\ epoch = Null
     /\ epochs = Null /\ heads = Null /\ marks = Null /\ busy = Null /\ writing = Null
     /\ verdicts = Null /\ on = Null /\ lastDaily = Null /\ lastRetry = Null
     /\ history = Null /\ state = Null /\ run = Null /\ bound = Null /\ out = Null
     /\ suspended = Null /\ heard = Null /\ spoiled = Null /\ asked = Null /\ manual = Null
     /\ invitees = Null /\ there = Null /\ cases = Null /\ letters = Null /\ flushing = Null
     /\ posts = Null /\ started = Null /\ presses = Null
  \/ part = "renewal" /\ AtRest /\ Renewal!Init
     /\ requests = Null /\ followers = Null /\ counter = Null /\ uploaders = Null
     /\ accounts = Null /\ drafts = Null /\ calls = Null /\ cards = Null /\ watches = Null
     /\ poll = Null /\ library = Null /\ outbox = Null /\ flush = Null /\ told = Null
     /\ month = Null /\ shifts = Null /\ lost = Null /\ polls = Null /\ time = Null
     /\ row = Null /\ emby = Null /\ applied = Null /\ rules = Null /\ live = Null
     /\ trusted = Null /\ events = Null /\ notices = Null /\ batch = Null /\ holder = Null
     /\ work = Null /\ agreed = Null /\ inside = Null /\ updates = Null /\ offset = Null
     /\ confirmed = Null /\ epoch = Null /\ epochs = Null /\ heads = Null /\ marks = Null
     /\ busy = Null /\ writing = Null /\ verdicts = Null /\ on = Null /\ lastDaily = Null
     /\ lastRetry = Null /\ history = Null /\ state = Null /\ run = Null /\ bound = Null
     /\ out = Null /\ suspended = Null /\ heard = Null /\ spoiled = Null /\ asked = Null
     /\ manual = Null /\ invitees = Null /\ there = Null /\ cases = Null /\ letters = Null
     /\ flushing = Null /\ posts = Null /\ started = Null /\ presses = Null
  \/ part = "desk" /\ AtRest /\ Desk!Init
     /\ clock2 = Null /\ member2 = Null /\ life2 = Null /\ remote2 = Null /\ inflight2 = Null
     /\ balance2 = Null /\ held2 = Null /\ renewals2 = Null /\ intents2 = Null
     /\ price2 = Null /\ enabled2 = Null /\ job2 = Null /\ mail2 = Null /\ claims2 = Null
     /\ changes2 = Null /\ faults2 = Null /\ time = Null /\ row = Null /\ emby = Null
     /\ applied = Null /\ rules = Null /\ live = Null /\ trusted = Null /\ events = Null
     /\ notices = Null /\ batch = Null /\ holder = Null /\ work = Null /\ agreed = Null
     /\ inside = Null /\ updates = Null /\ offset = Null /\ confirmed = Null /\ epoch = Null
     /\ epochs = Null /\ heads = Null /\ marks = Null /\ busy = Null /\ writing = Null
     /\ verdicts = Null /\ on = Null /\ lastDaily = Null /\ lastRetry = Null
     /\ history = Null /\ state = Null /\ run = Null /\ bound = Null /\ out = Null
     /\ suspended = Null /\ heard = Null /\ spoiled = Null /\ asked = Null /\ manual = Null
     /\ invitees = Null /\ there = Null /\ cases = Null /\ letters = Null /\ flushing = Null
     /\ posts = Null /\ started = Null /\ presses = Null
  \/ part = "months" /\ AtRest /\ Months!Init
     /\ clock2 = Null /\ member2 = Null /\ life2 = Null /\ remote2 = Null /\ inflight2 = Null
     /\ balance2 = Null /\ held2 = Null /\ renewals2 = Null /\ intents2 = Null
     /\ price2 = Null /\ enabled2 = Null /\ job2 = Null /\ mail2 = Null /\ claims2 = Null
     /\ changes2 = Null /\ faults2 = Null /\ time = Null /\ row = Null /\ emby = Null
     /\ applied = Null /\ rules = Null /\ live = Null /\ trusted = Null /\ events = Null
     /\ notices = Null /\ batch = Null /\ holder = Null /\ work = Null /\ agreed = Null
     /\ inside = Null /\ updates = Null /\ offset = Null /\ confirmed = Null /\ epoch = Null
     /\ epochs = Null /\ heads = Null /\ marks = Null /\ busy = Null /\ writing = Null
     /\ verdicts = Null /\ on = Null /\ lastDaily = Null /\ lastRetry = Null
     /\ history = Null /\ state = Null /\ run = Null /\ bound = Null /\ out = Null
     /\ suspended = Null /\ heard = Null /\ spoiled = Null /\ asked = Null /\ manual = Null
     /\ invitees = Null /\ there = Null /\ cases = Null /\ letters = Null /\ flushing = Null
     /\ posts = Null /\ started = Null /\ presses = Null
  \/ part = "press" /\ AtRest /\ Press!Init
     /\ clock2 = Null /\ member2 = Null /\ life2 = Null /\ remote2 = Null /\ inflight2 = Null
     /\ balance2 = Null /\ held2 = Null /\ renewals2 = Null /\ intents2 = Null
     /\ price2 = Null /\ enabled2 = Null /\ job2 = Null /\ mail2 = Null /\ claims2 = Null
     /\ changes2 = Null /\ faults2 = Null /\ time = Null /\ row = Null /\ emby = Null
     /\ applied = Null /\ rules = Null /\ live = Null /\ trusted = Null /\ events = Null
     /\ notices = Null /\ batch = Null /\ holder = Null /\ work = Null /\ agreed = Null
     /\ inside = Null /\ updates = Null /\ offset = Null /\ confirmed = Null /\ epoch = Null
     /\ epochs = Null /\ heads = Null /\ marks = Null /\ busy = Null /\ writing = Null
     /\ verdicts = Null /\ on = Null /\ lastDaily = Null /\ lastRetry = Null
     /\ history = Null /\ state = Null /\ run = Null /\ bound = Null /\ out = Null
     /\ suspended = Null /\ heard = Null /\ spoiled = Null /\ asked = Null /\ manual = Null
     /\ invitees = Null /\ there = Null /\ cases = Null /\ letters = Null /\ flushing = Null
     /\ posts = Null /\ started = Null /\ presses = Null
  \/ part = "mail" /\ AtRest /\ Mail!Init
     /\ clock2 = Null /\ member2 = Null /\ life2 = Null /\ remote2 = Null /\ inflight2 = Null
     /\ balance2 = Null /\ held2 = Null /\ renewals2 = Null /\ intents2 = Null
     /\ price2 = Null /\ enabled2 = Null /\ job2 = Null /\ mail2 = Null /\ claims2 = Null
     /\ changes2 = Null /\ faults2 = Null /\ time = Null /\ row = Null /\ emby = Null
     /\ applied = Null /\ rules = Null /\ live = Null /\ trusted = Null /\ events = Null
     /\ notices = Null /\ batch = Null /\ holder = Null /\ work = Null /\ agreed = Null
     /\ inside = Null /\ updates = Null /\ offset = Null /\ confirmed = Null /\ epoch = Null
     /\ epochs = Null /\ heads = Null /\ marks = Null /\ busy = Null /\ writing = Null
     /\ verdicts = Null /\ on = Null /\ lastDaily = Null /\ lastRetry = Null
     /\ history = Null /\ state = Null /\ run = Null /\ bound = Null /\ out = Null
     /\ suspended = Null /\ heard = Null /\ spoiled = Null /\ asked = Null /\ manual = Null
     /\ invitees = Null /\ there = Null /\ cases = Null /\ letters = Null /\ flushing = Null
     /\ posts = Null /\ started = Null /\ presses = Null
  \/ part = "post" /\ AtRest /\ Post!Init
     /\ clock2 = Null /\ member2 = Null /\ life2 = Null /\ remote2 = Null /\ inflight2 = Null
     /\ balance2 = Null /\ held2 = Null /\ renewals2 = Null /\ intents2 = Null
     /\ price2 = Null /\ enabled2 = Null /\ job2 = Null /\ mail2 = Null /\ claims2 = Null
     /\ changes2 = Null /\ faults2 = Null /\ time = Null /\ row = Null /\ emby = Null
     /\ applied = Null /\ rules = Null /\ live = Null /\ trusted = Null /\ events = Null
     /\ notices = Null /\ batch = Null /\ holder = Null /\ work = Null /\ agreed = Null
     /\ inside = Null /\ updates = Null /\ offset = Null /\ confirmed = Null /\ epoch = Null
     /\ epochs = Null /\ heads = Null /\ marks = Null /\ busy = Null /\ writing = Null
     /\ verdicts = Null /\ on = Null /\ lastDaily = Null /\ lastRetry = Null
     /\ history = Null /\ state = Null /\ run = Null /\ bound = Null /\ out = Null
     /\ suspended = Null /\ heard = Null /\ spoiled = Null /\ asked = Null /\ manual = Null
     /\ invitees = Null /\ there = Null /\ cases = Null /\ letters = Null /\ flushing = Null
     /\ posts = Null /\ started = Null /\ presses = Null
  \/ part = "orders" /\ AtRest /\ Orders!Init
     /\ clock2 = Null /\ member2 = Null /\ life2 = Null /\ remote2 = Null /\ inflight2 = Null
     /\ balance2 = Null /\ held2 = Null /\ renewals2 = Null /\ intents2 = Null
     /\ price2 = Null /\ enabled2 = Null /\ job2 = Null /\ mail2 = Null /\ claims2 = Null
     /\ changes2 = Null /\ faults2 = Null /\ requests = Null /\ followers = Null
     /\ counter = Null /\ uploaders = Null /\ accounts = Null /\ drafts = Null
     /\ calls = Null /\ cards = Null /\ watches = Null /\ poll = Null /\ library = Null
     /\ outbox = Null /\ flush = Null /\ told = Null /\ month = Null /\ polls = Null
     /\ inside = Null /\ updates = Null /\ offset = Null /\ confirmed = Null /\ epoch = Null
     /\ epochs = Null /\ heads = Null /\ marks = Null /\ busy = Null /\ writing = Null
     /\ verdicts = Null /\ on = Null /\ lastDaily = Null /\ lastRetry = Null
     /\ history = Null /\ state = Null /\ run = Null /\ bound = Null /\ out = Null
     /\ suspended = Null /\ heard = Null /\ spoiled = Null /\ asked = Null /\ manual = Null
     /\ invitees = Null /\ there = Null /\ cases = Null /\ letters = Null /\ flushing = Null
     /\ posts = Null /\ started = Null /\ presses = Null
  \/ part = "punish" /\ AtRest /\ Punish!Init
     /\ clock2 = Null /\ member2 = Null /\ life2 = Null /\ remote2 = Null /\ inflight2 = Null
     /\ balance2 = Null /\ held2 = Null /\ renewals2 = Null /\ intents2 = Null
     /\ price2 = Null /\ enabled2 = Null /\ job2 = Null /\ mail2 = Null /\ claims2 = Null
     /\ changes2 = Null /\ faults2 = Null /\ requests = Null /\ followers = Null
     /\ counter = Null /\ uploaders = Null /\ accounts = Null /\ drafts = Null
     /\ calls = Null /\ cards = Null /\ watches = Null /\ poll = Null /\ library = Null
     /\ outbox = Null /\ flush = Null /\ told = Null /\ month = Null /\ polls = Null
     /\ inside = Null /\ updates = Null /\ offset = Null /\ confirmed = Null /\ epoch = Null
     /\ epochs = Null /\ heads = Null /\ marks = Null /\ busy = Null /\ writing = Null
     /\ verdicts = Null /\ on = Null /\ lastDaily = Null /\ lastRetry = Null
     /\ history = Null /\ state = Null /\ run = Null /\ bound = Null /\ out = Null
     /\ suspended = Null /\ heard = Null /\ spoiled = Null /\ asked = Null /\ manual = Null
     /\ invitees = Null /\ there = Null /\ cases = Null /\ letters = Null /\ flushing = Null
     /\ posts = Null /\ started = Null /\ presses = Null
  \/ part = "clients" /\ AtRest /\ Clients!Init
     /\ clock2 = Null /\ member2 = Null /\ life2 = Null /\ remote2 = Null /\ inflight2 = Null
     /\ balance2 = Null /\ held2 = Null /\ renewals2 = Null /\ intents2 = Null
     /\ price2 = Null /\ enabled2 = Null /\ job2 = Null /\ mail2 = Null /\ claims2 = Null
     /\ changes2 = Null /\ faults2 = Null /\ requests = Null /\ followers = Null
     /\ counter = Null /\ uploaders = Null /\ accounts = Null /\ drafts = Null
     /\ calls = Null /\ cards = Null /\ watches = Null /\ poll = Null /\ library = Null
     /\ outbox = Null /\ flush = Null /\ told = Null /\ month = Null /\ polls = Null
     /\ inside = Null /\ updates = Null /\ offset = Null /\ confirmed = Null /\ epoch = Null
     /\ epochs = Null /\ heads = Null /\ marks = Null /\ busy = Null /\ writing = Null
     /\ verdicts = Null /\ on = Null /\ lastDaily = Null /\ lastRetry = Null
     /\ history = Null /\ state = Null /\ run = Null /\ bound = Null /\ out = Null
     /\ suspended = Null /\ heard = Null /\ spoiled = Null /\ asked = Null /\ manual = Null
     /\ invitees = Null /\ there = Null /\ cases = Null /\ letters = Null /\ flushing = Null
     /\ posts = Null /\ started = Null /\ presses = Null
  \/ part = "windows" /\ AtRest /\ Windows!Init
     /\ clock2 = Null /\ member2 = Null /\ life2 = Null /\ remote2 = Null /\ inflight2 = Null
     /\ balance2 = Null /\ held2 = Null /\ renewals2 = Null /\ intents2 = Null
     /\ price2 = Null /\ enabled2 = Null /\ job2 = Null /\ mail2 = Null /\ claims2 = Null
     /\ changes2 = Null /\ faults2 = Null /\ requests = Null /\ followers = Null
     /\ counter = Null /\ uploaders = Null /\ accounts = Null /\ drafts = Null
     /\ calls = Null /\ cards = Null /\ watches = Null /\ poll = Null /\ library = Null
     /\ outbox = Null /\ flush = Null /\ told = Null /\ month = Null /\ polls = Null
     /\ inside = Null /\ updates = Null /\ offset = Null /\ confirmed = Null /\ epoch = Null
     /\ epochs = Null /\ heads = Null /\ marks = Null /\ busy = Null /\ writing = Null
     /\ verdicts = Null /\ on = Null /\ lastDaily = Null /\ lastRetry = Null
     /\ history = Null /\ state = Null /\ run = Null /\ bound = Null /\ out = Null
     /\ suspended = Null /\ heard = Null /\ spoiled = Null /\ asked = Null /\ manual = Null
     /\ invitees = Null /\ there = Null /\ cases = Null /\ letters = Null /\ flushing = Null
     /\ posts = Null /\ started = Null /\ presses = Null
  \/ part = "drift" /\ AtRest /\ Drift!Init
     /\ clock2 = Null /\ member2 = Null /\ life2 = Null /\ remote2 = Null /\ inflight2 = Null
     /\ balance2 = Null /\ held2 = Null /\ renewals2 = Null /\ intents2 = Null
     /\ price2 = Null /\ enabled2 = Null /\ job2 = Null /\ mail2 = Null /\ claims2 = Null
     /\ changes2 = Null /\ faults2 = Null /\ requests = Null /\ followers = Null
     /\ counter = Null /\ uploaders = Null /\ accounts = Null /\ drafts = Null
     /\ calls = Null /\ cards = Null /\ watches = Null /\ poll = Null /\ library = Null
     /\ outbox = Null /\ flush = Null /\ told = Null /\ month = Null /\ polls = Null
     /\ inside = Null /\ updates = Null /\ offset = Null /\ confirmed = Null /\ epoch = Null
     /\ epochs = Null /\ heads = Null /\ marks = Null /\ busy = Null /\ writing = Null
     /\ verdicts = Null /\ on = Null /\ lastDaily = Null /\ lastRetry = Null
     /\ history = Null /\ state = Null /\ run = Null /\ bound = Null /\ out = Null
     /\ suspended = Null /\ heard = Null /\ spoiled = Null /\ asked = Null /\ manual = Null
     /\ invitees = Null /\ there = Null /\ cases = Null /\ letters = Null /\ flushing = Null
     /\ posts = Null /\ started = Null /\ presses = Null
  \/ part = "rejoin" /\ AtRest /\ Rejoin!Init
     /\ clock2 = Null /\ member2 = Null /\ life2 = Null /\ remote2 = Null /\ inflight2 = Null
     /\ balance2 = Null /\ held2 = Null /\ renewals2 = Null /\ intents2 = Null
     /\ price2 = Null /\ enabled2 = Null /\ job2 = Null /\ mail2 = Null /\ claims2 = Null
     /\ changes2 = Null /\ faults2 = Null /\ requests = Null /\ followers = Null
     /\ counter = Null /\ uploaders = Null /\ accounts = Null /\ drafts = Null
     /\ calls = Null /\ cards = Null /\ watches = Null /\ poll = Null /\ library = Null
     /\ outbox = Null /\ flush = Null /\ told = Null /\ month = Null /\ polls = Null
     /\ applied = Null /\ live = Null /\ trusted = Null /\ events = Null /\ notices = Null
     /\ batch = Null /\ holder = Null /\ agreed = Null /\ on = Null /\ lastDaily = Null
     /\ lastRetry = Null /\ history = Null /\ state = Null /\ run = Null /\ bound = Null
     /\ out = Null /\ suspended = Null /\ heard = Null /\ spoiled = Null /\ asked = Null
     /\ manual = Null /\ invitees = Null /\ there = Null /\ cases = Null /\ letters = Null
     /\ flushing = Null /\ posts = Null /\ started = Null /\ presses = Null
  \/ part = "groups" /\ AtRest /\ Groups!Init
     /\ clock2 = Null /\ member2 = Null /\ life2 = Null /\ remote2 = Null /\ inflight2 = Null
     /\ balance2 = Null /\ held2 = Null /\ renewals2 = Null /\ intents2 = Null
     /\ price2 = Null /\ enabled2 = Null /\ job2 = Null /\ mail2 = Null /\ claims2 = Null
     /\ changes2 = Null /\ faults2 = Null /\ requests = Null /\ followers = Null
     /\ counter = Null /\ uploaders = Null /\ accounts = Null /\ drafts = Null
     /\ calls = Null /\ cards = Null /\ watches = Null /\ poll = Null /\ library = Null
     /\ outbox = Null /\ flush = Null /\ told = Null /\ month = Null /\ polls = Null
     /\ applied = Null /\ live = Null /\ trusted = Null /\ events = Null /\ notices = Null
     /\ batch = Null /\ holder = Null /\ agreed = Null /\ on = Null /\ lastDaily = Null
     /\ lastRetry = Null /\ history = Null /\ state = Null /\ run = Null /\ bound = Null
     /\ out = Null /\ suspended = Null /\ heard = Null /\ spoiled = Null /\ asked = Null
     /\ manual = Null /\ invitees = Null /\ there = Null /\ cases = Null /\ letters = Null
     /\ flushing = Null /\ posts = Null /\ started = Null /\ presses = Null
  \/ part = "report" /\ AtRest /\ Report!Init
     /\ clock2 = Null /\ member2 = Null /\ life2 = Null /\ remote2 = Null /\ inflight2 = Null
     /\ balance2 = Null /\ held2 = Null /\ renewals2 = Null /\ intents2 = Null
     /\ price2 = Null /\ enabled2 = Null /\ job2 = Null /\ mail2 = Null /\ claims2 = Null
     /\ changes2 = Null /\ faults2 = Null /\ requests = Null /\ followers = Null
     /\ counter = Null /\ uploaders = Null /\ accounts = Null /\ drafts = Null
     /\ calls = Null /\ cards = Null /\ watches = Null /\ poll = Null /\ library = Null
     /\ outbox = Null /\ flush = Null /\ month = Null /\ polls = Null /\ row = Null
     /\ emby = Null /\ applied = Null /\ rules = Null /\ live = Null /\ trusted = Null
     /\ events = Null /\ notices = Null /\ batch = Null /\ holder = Null /\ work = Null
     /\ agreed = Null /\ inside = Null /\ updates = Null /\ offset = Null /\ confirmed = Null
     /\ epoch = Null /\ epochs = Null /\ heads = Null /\ marks = Null /\ busy = Null
     /\ writing = Null /\ verdicts = Null /\ invitees = Null /\ there = Null /\ cases = Null
     /\ letters = Null /\ flushing = Null /\ posts = Null /\ started = Null /\ presses = Null
  \/ part = "remind" /\ AtRest /\ Remind!Init
     /\ clock2 = Null /\ member2 = Null /\ life2 = Null /\ remote2 = Null /\ inflight2 = Null
     /\ balance2 = Null /\ held2 = Null /\ renewals2 = Null /\ intents2 = Null
     /\ price2 = Null /\ enabled2 = Null /\ job2 = Null /\ mail2 = Null /\ claims2 = Null
     /\ changes2 = Null /\ faults2 = Null /\ requests = Null /\ followers = Null
     /\ counter = Null /\ uploaders = Null /\ accounts = Null /\ drafts = Null
     /\ calls = Null /\ cards = Null /\ watches = Null /\ poll = Null /\ library = Null
     /\ outbox = Null /\ flush = Null /\ month = Null /\ polls = Null /\ row = Null
     /\ emby = Null /\ applied = Null /\ rules = Null /\ live = Null /\ trusted = Null
     /\ events = Null /\ notices = Null /\ batch = Null /\ holder = Null /\ work = Null
     /\ agreed = Null /\ inside = Null /\ updates = Null /\ offset = Null /\ confirmed = Null
     /\ epoch = Null /\ epochs = Null /\ heads = Null /\ marks = Null /\ busy = Null
     /\ writing = Null /\ verdicts = Null /\ invitees = Null /\ there = Null /\ cases = Null
     /\ letters = Null /\ flushing = Null /\ posts = Null /\ started = Null /\ presses = Null
  \/ part = "audit" /\ AtRest /\ Audit!Init
     /\ clock2 = Null /\ member2 = Null /\ life2 = Null /\ remote2 = Null /\ inflight2 = Null
     /\ balance2 = Null /\ held2 = Null /\ renewals2 = Null /\ intents2 = Null
     /\ price2 = Null /\ enabled2 = Null /\ job2 = Null /\ mail2 = Null /\ claims2 = Null
     /\ changes2 = Null /\ faults2 = Null /\ requests = Null /\ followers = Null
     /\ counter = Null /\ uploaders = Null /\ accounts = Null /\ drafts = Null
     /\ calls = Null /\ cards = Null /\ watches = Null /\ poll = Null /\ library = Null
     /\ outbox = Null /\ flush = Null /\ month = Null /\ polls = Null /\ row = Null
     /\ emby = Null /\ applied = Null /\ rules = Null /\ live = Null /\ trusted = Null
     /\ events = Null /\ notices = Null /\ batch = Null /\ holder = Null /\ work = Null
     /\ agreed = Null /\ inside = Null /\ updates = Null /\ offset = Null /\ confirmed = Null
     /\ epoch = Null /\ epochs = Null /\ heads = Null /\ marks = Null /\ busy = Null
     /\ writing = Null /\ verdicts = Null /\ invitees = Null /\ there = Null /\ cases = Null
     /\ letters = Null /\ flushing = Null /\ posts = Null /\ started = Null /\ presses = Null
  \/ part = "cases" /\ AtRest /\ Cases!Init
     /\ clock2 = Null /\ member2 = Null /\ life2 = Null /\ remote2 = Null /\ inflight2 = Null
     /\ balance2 = Null /\ held2 = Null /\ renewals2 = Null /\ intents2 = Null
     /\ price2 = Null /\ enabled2 = Null /\ job2 = Null /\ mail2 = Null /\ claims2 = Null
     /\ changes2 = Null /\ faults2 = Null /\ requests = Null /\ followers = Null
     /\ counter = Null /\ uploaders = Null /\ accounts = Null /\ drafts = Null
     /\ calls = Null /\ cards = Null /\ watches = Null /\ poll = Null /\ library = Null
     /\ outbox = Null /\ flush = Null /\ told = Null /\ month = Null /\ shifts = Null
     /\ polls = Null /\ time = Null /\ row = Null /\ emby = Null /\ applied = Null
     /\ rules = Null /\ live = Null /\ events = Null /\ notices = Null /\ batch = Null
     /\ holder = Null /\ agreed = Null /\ inside = Null /\ updates = Null /\ offset = Null
     /\ confirmed = Null /\ epoch = Null /\ epochs = Null /\ heads = Null /\ marks = Null
     /\ busy = Null /\ writing = Null /\ verdicts = Null /\ on = Null /\ lastDaily = Null
     /\ lastRetry = Null /\ history = Null /\ state = Null /\ run = Null /\ bound = Null
     /\ out = Null /\ heard = Null /\ spoiled = Null /\ asked = Null /\ manual = Null

UnionNext ==
  \/ InExpiry(Next)
  \/ InRenewal(Renewal!Next)
  \/ InDesk(Desk!Next)
  \/ InMonths(Months!Next)
  \/ InPress(Press!Next)
  \/ InMail(Mail!Next)
  \/ InPost(Post!Next)
  \/ InOrders(Orders!Next)
  \/ InPunish(Punish!Next)
  \/ InClients(Clients!Next)
  \/ InWindows(Windows!Next)
  \/ InDrift(Drift!Next)
  \/ InRejoin(Rejoin!Next)
  \/ InGroups(Groups!Next)
  \/ InReport(Report!Next)
  \/ InRemind(Remind!Next)
  \/ InAudit(Audit!Next)
  \/ InCases(Cases!Next)

(* The fairness of each component, as its own module states it.            *)
UnionFairness ==
  /\ WF_allVars(\/ InExpiry(DeleteStep) \/ InPost(Post!Take(f1)) \/ InReport(Report!tick)
                \/ InDrift(Drift!Reconcile) \/ InCases(Cases!recover))
  /\ WF_allVars(\/ InExpiry(Lapse) \/ InPost(Post!Deliver(f1)) \/ InReport(Report!Work)
                \/ InDrift(Drift!Step(c1)) \/ InCases(Cases!Decide(e1)))
  /\ WF_allVars(\/ InExpiry(Tick) \/ InPost(Post!Wait(1)) \/ InReport(Report!Tick)
                \/ InDrift(Drift!Step("loop")) \/ InCases(Cases!Decide(e2)))
  /\ WF_allVars(InExpiry(Claim(u1)) \/ InPost(Post!Wait(2)))
  /\ WF_allVars(InExpiry(Land(u1))) /\ WF_allVars(InExpiry(Release(u1)))
  /\ WF_allVars(InExpiry(AutoRenew(u1)))
  /\ SF_allVars(InDrift(Drift!Enter("loop")))

UnionSpec == UnionInit /\ [][UnionNext]_allVars /\ UnionFairness

-----------------------------------------------------------------------------
(* A member pays for what he gets: each renewal once and at the price he    *)
(* was shown (levels.py), each request once in the month it was made        *)
(* (requests.py), whatever presses, refunds and corrections come between;   *)
(* there is one open ticket for a demand and one for a preview card, the    *)
(* library is watched only for what stands accepted, and the last result a  *)
(* member was sent is true to his ticket; and the group hears of a deletion *)
(* once (expiry_notices.py).                                                *)
TermsAndTickets ==
  /\ RenewalsExact /\ ToldOnce
  /\ part = "renewal" => Renewal!RenewalsExact
  /\ part = "desk" => Desk!QuotaExact /\ Desk!OneOpenTicket
  /\ part = "months" => Months!QuotaExact /\ Months!OneOpenTicket
  /\ part = "press" => Press!OneOpenTicket /\ Press!WatchedWhileAccepted
  /\ part = "mail" => Mail!LastWordRight
  /\ part = "post" => Post!LastWordRight

(* What is done to a member without his asking is called for and done once: *)
(* no sanction is repeated while it is unknown what came of it, Emby's      *)
(* policy is the one that was last decided, and a notice says what happened *)
(* (restrictions.py, enforcement.py); an account is deleted for leaving a   *)
(* group only on a verdict that still stands, and its row outlives it       *)
(* (group_membership.py, member_ops.py); nobody hears the same report or    *)
(* reminder twice (plugins_builtin.py, report_delivery.py); and a case of   *)
(* the invitation tree acts on those it names, once (invite_tree.py).       *)
ActsJustified ==
  /\ part = "orders" => Orders!SanctionTypes /\ Orders!AsLastProjected /\ Orders!NoticesTrue
  /\ part = "punish" => Punish!NoBlindReplay /\ Punish!AsLastProjected /\ Punish!NoticesTrue
  /\ part = "clients" => Clients!NoBlindReplay /\ Clients!NoticesTrue
  /\ part = "windows" => Windows!NoBlindReplay /\ Windows!AsLastProjected /\ Windows!NoticesTrue
  /\ part = "drift" => Drift!SanctionTypes /\ Drift!AsLastProjected
  /\ part = "rejoin" => Rejoin!MembershipTypes /\ Rejoin!VerdictsFresh /\ Rejoin!RowOutlivesAccount
  /\ part = "groups" => Groups!MembershipTypes /\ Groups!VerdictsFresh /\ Groups!RowOutlivesAccount
  /\ part = "report" => Report!JobTypes /\ Report!HeardOnce
  /\ part = "remind" => Remind!JobTypes /\ Remind!HeardOnce
  /\ part = "audit" => Audit!JobTypes
  /\ part = "cases" => Cases!CaseTypes /\ Cases!CasesSound

(* What is known of a member's chats only moves forward, whichever handler  *)
(* writes last (group_membership.py); the audit suspends nobody before his  *)
(* grace is over (plugins_builtin.py); a decided case stays decided         *)
(* (invite_tree.py).                                                        *)
StepsInOrder == [][
  /\ part = "rejoin" => Rejoin!MarksAdvance
  /\ part = "groups" => Groups!MarksAdvance
  /\ part = "audit" => Audit!GraceKept
  /\ part = "cases" => Cases!CasesFinal]_allVars

(* An account that is gone loses its membership, an automatic renewal that  *)
(* is due is done, every notice of a ticket is delivered or moot, and so is *)
(* every report; Emby comes to agree with the rows again and again; and a   *)
(* case of the invitation tree that a crash left half decided is decided.   *)
PeopleSettle ==
  /\ (\/ On("expiry", u1 \notin remote /\ life[u1].state = "deleting")
      \/ On("post", 1 \in DOMAIN outbox) \/ On("report", Report!Outstanding)
      \/ part = "drift" \/ On("cases", Cases!Stuck(k1)))
     ~> (\/ On("expiry", ~member[u1].here \/ ~enabled \/ claims = MaxClaims)
         \/ On("post", 1 \in DOMAIN outbox /\ outbox[1].state = "sent")
         \/ On("report", ~Report!Outstanding) \/ On("drift", Drift!Projected)
         \/ On("cases", ~Cases!Stuck(k1)))
  /\ (On("expiry", AutoOwed(u1)) \/ On("post", 2 \in DOMAIN outbox))
     ~> (On("expiry", ~AutoOwed(u1)) \/ On("post", 2 \in DOMAIN outbox /\ outbox[2].state = "sent"))
=============================================================================
