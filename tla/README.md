# Verification of mediadeck

mediadeck is a panel for an Emby media server: one FastAPI process with one SQLite
database, a Telegram bot, a Mini App and a set of background loops. This
directory holds TLA+ models of the parts whose correctness depends on the order in
which several actors run, the TLC configurations that check them on small
instances, and TLAPS proofs of what can be proved for every value of the constants.

Paths of source files are below `backend/app/modules/` unless they begin with
another directory. `PROJECT.json` says which lines each definition stands for, which
part of the program each module covers, and where each hazard is.

Contents: 1 inventory, 2 modules, 3 runs, 4 fairness, 5 proofs, 6 assumptions and
abstractions, 7 where code and documentation disagree, 8 what is not modelled, and
the plan.

## 1. Inventory

### 1.1 What everything rests on

One process runs one asyncio loop. A handler that does not await is atomic with
respect to every other handler; a write transaction (`core/db.py`, `write()`:
one lock and `BEGIN IMMEDIATE`) is atomic for the threads as well. Everything
between two awaits is therefore one action of a model, and everything that waits
for Telegram or Emby is at least three: the call begins, the server carries it out,
the answer arrives or does not. A few routes run in a worker thread; where one does
(`inventory.use`), a transaction of it may fall between two statements of a handler.

| Component | State | What is hard | What makes it correct |
| --- | --- | --- | --- |
| Points ledger `points.py`, `economy_rules.py` | `points_ledger`, a balance is a sum; receipts of requests | replays of a reference, overdraft | points neither appear nor vanish |
| Escrow `play_money.py` | `play_escrows`, `play_funds`, `play_moves` | a stake that is neither in a pot nor returned | wallet, frozen points and pots add up |

### 1.2 Group cards, games and money

| Component | State | What is hard | What makes it correct |
| --- | --- | --- | --- |
| Cards of game rounds `play_rounds.py`, `report_delivery.py` | `play_rounds` | two publishers, lost answers, 5xx, a death in mid-call, a lease that runs out | at most one card; no belief in a card that is not shown; the card catches up |
| Game centre outbox `game_center_delivery.py` | `gc_outbox` | as above, and a delete that crosses a send | a deleted card is gone; a closed table's card goes |
| Red packets `red_packets.py`, `packet_delivery.py`, `bot_packets.py` | packet, claims, effect columns | links, roles and rules that change; the last claim against the expiry; the order of card, pin and receipt | every point accounted for; one share each; one receipt, after the final card |
| Black and white `blackwhite.py` | `play_rounds`, players, pot | two identities of one person, a remainder, a timeout against the last choice | stakes equal pot, the minority is paid, every lobby closes |
| PK duels, niuniu, dice, scratch cards | rounds, stakes, beacon, schedule | dice thrown before their value is known; a report that overtakes the deletion of its card; bets after the draw; a press counted twice | stakes are paid exactly; nothing is shown twice; bets are blind |
| Game centre `game_center.py`, engines of hold'em, three-card poker and the board games | table documents, seats, hands, clocks | hosts who leave, replayed requests, side pots, a robot's answer to another position | seats and documents agree; pots are exact; every hand ends |
| Lottery `lottery.py` | draft, entries, awards, notices, pin and live line | an entry that waits for Telegram and captcha while the last place goes; a draw twice; posts in doubt | fees and refunds once; a fair draw; no post twice |

### 1.3 Economy

| Component | State | What is hard | What makes it correct |
| --- | --- | --- | --- |
| Shop and bag `shop.py`, `inventory.py`, `whitelist_cards.py` | orders, cards, grants | an expiry against a renewal, a late mark, an operator's edit across a card | what is paid is given, and for its term only |
| Transfers `group_points.py`, `plugins_points.py` | transfer intents | a confirmation twice, a fee or an account that changed | points move once, as the card said |
| Watch rewards, check-in `watch_rewards.py`, `dual_checkin.py` | proofs, intervals, receipts | the same minute proved twice, a replay, a switch in mid-day | a minute counts once, one award a day |

### 1.4 Accounts and membership

| Component | State | What is hard | What makes it correct |
| --- | --- | --- | --- |
| Registration `registration.py`, `telegram.py`, `bot_passwords.py` | codes, cards, dialogues in memory | awaits on Emby between check and use, lost answers | credentials are spent exactly; the slots hold; no orphan is silent |
| Members, rebinding `members.py`, `member_ops.py`, `rebinding.py` | `members`, `tg_requests` | lists of users older than their use; a request that is old when approved | only accounts that are gone are purged; one member per Telegram account |
| Levels and expiry `levels.py`, `level_lifecycle.py`, `expiry_notices.py` | terms, previews, deletion jobs, notices | a renewal across a deletion, a DELETE whose answer is lost | only who is due is deleted; a renewal as shown and once |
| Restrictions and enforcement `restrictions.py`, `enforcement.py` | bans, policies, notices | a row edited while it is projected; an unknown outcome | the policy is the last decision's; nothing is repeated blindly |
| Group membership `group_membership.py` | marks, epochs, verdicts | a verdict that a new event makes stale while it is carried out | deletion on a fresh verdict only |
| Invite tree `invite_tree.py` | cases, letters | two deciders, a crash in mid-decision | a case is decided once |
| Plugins `plugins.py`, `plugins_builtin.py` | past runs, state of jobs | a crash between telling and noting | nobody is told twice; a grace is kept |
| Media requests `requests.py`, `bot_requests.py` | tickets, quotas, outbox | notices out of order, corrections across months | quota per month exact; the last word is true |

### 1.5 Playback

| Component | State | What is hard | What makes it correct |
| --- | --- | --- | --- |
| Stream admission `streams.py` | `stream_leases`, a lock per member | a snapshot of Emby is old when it is used, reports come late or never | the cap; a replacement keeps its seat; a seat nobody uses lapses |
| Viewing `usage.py` | live sessions, checkpoints, samples | reports and polls out of order, twice, across a restart | what is counted was played, once |

## 2. Modules

| Module | Models | Run |
| --- | --- | --- |
| `CardPost` | the abstract promise of a durable card: posted once, bound once | |
| `RoundCards` | `play_rounds.py`: publication of one round's card; implements `CardPost` | `cards` |
| `LotteryPost` | what a published lottery says: notices, result parts, private messages, pin, live line | `cards` |
| `RedPackets` | `red_packets.py`: one packet, its members, the ledger, its confirmation card; implements `CardPost` | `packets` |
| `PacketDelivery` | `packet_delivery.py` and the renderer of `bot_packets.py` | `packets` |
| `GameOutbox` | `game_center_delivery.py`: one row of the outbox and its workers; implements `CardPost` | `game_centre` |
| `GameTables` | `game_center.py` with its adapters: tables, seats, requests, deadlines, escrow | `game_centre` |
| `HoldemHand`, `ZjhHand`, `BoardGame` | the engines: one hand each | `game_centre` |
| `CashBook` | `play_money.py`: wallets, frozen points, pots, as operators on one record | `games` |
| `Wager` | the abstract promise of a game with stakes | `games` |
| `Blackwhite` | `blackwhite.py`: tables, members, the switch, the timeout | `games` |
| `PkDuel`, `Niuniu`, `DiceRound` | the games, their cards and reports; implement `Wager` | `games` |
| `Scratch9` | rounds, presses, card, schedule | `games` |
| `StreamAdmission` | `streams.py`: seats of one member's sessions, Emby and the clients around it | `admission` |
| `Sampling` | `usage.py`: one session on one device | `admission` |
| `Accounts` | registration, member rows, rebinding, deletion, Emby's list of users | `accounts` |
| `Inventory` | shop, bag, whitelist cards, the housekeeping loop | `economy` |
| `Transfers`, `Earnings`, `Lottery` | points: group transfers, watching and check-ins, one lottery | `economy` |
| `Lifecycle` | renewal, expiry, deletion and its notice | `people` |
| `Requests` | the request centre | `people` |
| `Sanctions`, `Membership`, `Jobs`, `InviteCases` | what is done to a member without his asking | `people` |

`XProofs` holds what is proved of `X`; `GroupGamesProofs` has black and white, the duel, dice,
niuniu and the scratch card, `GameOutboxProofs` also `GameTables`, `RedPacketsProofs` also
`PacketDelivery`, `RoundCardsProofs` also `LotteryPost`, `AccountsProofs` also `Requests`,
`LifecycleProofs` also `InviteCases`, `Membership` and `Jobs`, `StreamAdmissionProofs` also
`Sanctions` and `Sampling`.
Constants are declared with a named `ASSUME`
in the module and given values in the `.cfg` (those of the component a run is built
on, and those an MC module declares) or in the `INSTANCE` of the MC module (all others).

**How a run holds several components.** An MC module EXTENDS one component and
INSTANCEs the others, some of them several times with different constants. The
variable `part` (in `MCStreamAdmission` `question`) says which instance is at work; the
others stand still, so the state
space is the sum of theirs and not the product. Where a proof module EXTENDS the MC module
(`MCCards`, `MCPackets`, `MCGames`, `MCStreamAdmission`), there is one instance of a component
that is proved about, its constants are declared and have their values in the `.cfg`, and a
part that needs less of the component keeps to the states that a formula named `Asked` or
the like (`DuelAsked`, `Counted`) allows. A property of such a module is a
conjunction, one part per instance, each part a property stated in its own module:
`SharesExact` of `RedPackets` is an example in one component, `LedgersExact` of
`MCEconomy` one over four. Where components really interact they are in one module
(`GameTables` has its escrow, `Blackwhite` its `CashBook`, `RedPackets` the ledger).

### 2.1 Correspondence with the code

*RoundCards.* A row is independent of every other row, for each UPDATE is keyed on
the nonce, so one row is modelled. `BeginPublish` is `claim_publish` and the start
of the call, `Apply` is Telegram carrying it out, `Return` is `published` or
`publish_failed` with the state `report_delivery.failure` chooses. `Sweep` is
`pending_cards` closing a send whose lease ended; `Click` is a button that binds the
card it is on. Tokens are never used twice. `pace` records that a call outlived its
lease: calls time out after 20 seconds and a lease is 90, so this takes a stalled
process.

*LotteryPost.* Jobs (`lottery_notices`, `lottery_dms`) and operations (`lottery_ops`)
are claimed by senders; a part of a result waits for the one before it; an operator
may recover a post in doubt. `ReadJob` is a row of the batch that a delivery selects before
it sends anything; `ClaimJob` comes later, looks at the state only and goes on with the
message id and the attempts of the row as it was read. `posted` and `group` are what the chat
really has; `overtaken` is history: what was claimed on a row older than its recovery.

*GameOutbox.* `Claim`, `Enter`, `Apply`, `Done` are the four phases of `deliver`;
`Save` stands for every writer of `gc_outbox` in `game_center.py`, each of which
raises the revision and sets the desired state. A worker may die at any phase. All
5xx answers may mean either outcome.

*GameTables.* One action per request (`Create`, `Seat`, `QuickSeat`, `Ready`, `Start`,
`Auto`, `Away`, `TopUp`, `Act`, `EndBoard`, `Leave`) and per timer (`TurnDue`, `StartDue`,
`IdleDue`, `HostDue`, `AwayDue`), each a function from one world (wallets, escrow,
seat rows, document) to the next, composed as the code's transaction is. A hand is any
sequence of payments that ends by awarding exactly its pot; `HoldemHand`, `ZjhHand` and
`BoardGame` say how it is won. Cards are strengths, positions are lists of moves.

*RedPackets.* One action per entry point of the service, each a transaction.
`Environment` moves what the packet reads and does not own: who answers for which
Telegram account, roles, states, the rules, the switch, other income. `other`
remembers what other features did to a balance, so that `LedgerBalanced` is an
equation between the ledger and the packet. The draw of random shares is any result
that `allocations` can produce (`Cuts`).

*PacketDelivery.* Two tasks, the worker and a button, follow `_packet_tick` and
`_packet_effects` step by step; `Claim` and `Finish` are the transactions of
`PacketDelivery`. A crash is that of the process: all tasks die and the render
lock is free again.

*Blackwhite.* `Create`, `Join`, `Expire` with `_settle` inlined, each a
transaction on `CashBook`. A handler's clock is the instant at which it holds the
write lock.

*PkDuel, Niuniu, DiceRound, Scratch9.* A round is its row; the card, the report and the
deletion of the card are calls with lost answers. A die is thrown for all to see
before the bot learns its value; the dice of a banked round are a public beacon
round, chosen when the betting closes and revealed by time. The first press on a
scratch cell makes an intent, the second pays.

*StreamAdmission.* Deck's steps between two awaits are actions (`Snapshot`,
`Inspect`, `AskInfo`, `Issued`, `NotIssued`, `ReportStopped`, `RecordActivity`,
`Confirm`), all under the member's lock as in the code; Emby, the clients and the
panel move between them. `Decide` is `_admit`, `Confirm` the second look at a session that was
refused, which stores the sanction in the same step; what is done about it is in `Sanctions`. Members share neither lock nor
leases, so one is modelled. `began` and `replaced` are history.

*Sampling.* The poll reads Emby's sessions and works through them later, under
`_tick_lock`; reports arrive at any time. A tick is several seconds of play, so that the
tolerances of the comparison are below one. `shownAt`, `downAt`, `ended` and `strange`
are history.

*Accounts.* `Begin` to `Commit` or `Undo` are the registration task between its
awaits: creation, its answer, the password, the transaction, the rollback.
`_registration_lock` is `reg`, a single record. `ListUsers` and `Reconcile` are
split because `list_users` is awaited and the result used afterwards. `AskRebind`
and `Review` are the two transactions of `rebinding.py`; requests outlive a crash,
dialogues and lists do not. `spent` is history.

*Inventory.* `Redeem` is a purchase, `Use` a card, `TakeBoosts` and `TakeWhite` the
first transaction of the housekeeping loop, `SyncEffects` what Emby is told, `Mark` the
transaction after its answer. `ReadRow` and `WriteRow` are an operator's edit: `upsert`
reads a member and writes the whole row later, which excludes a card in between
only when the level system is on (`Levels`). `due` is history: the group a member has
apart from his cards, and until when they lift him; it says something only while
`Levels` holds, for without it the two may overtake each other (section 7, 4).

*Transfers, Earnings, Lottery.* A transfer is drafted, its card posted (perhaps
twice), confirmed or expired. `Earnings` merges proofs of watching into intervals and
pays a day by what they cover. `Lottery` splits an entry at its awaits (Telegram,
captcha) from its transaction; bindings move in between.

*Lifecycle.* `Claim`, `CheckAgain`, `Answer`, `Forget`, `Record` are the steps of a
deletion job, whose lease may lapse (`Lapse`) or be given up (`GiveUp`); `Land` is the
media server carrying out a DELETE, perhaps after its sender has given up. `Renew`,
`Preview` with `Confirm`, and `AutoRenew` are the three ways to renew. The notice is staged when the member is forgotten and posted once.

*Requests.* One transaction changes ticket, quota, library watch and outbox; any
number of flushers deliver the outbox, at least once and in any order; the poll of the
library reads its list and asks for each ticket later. `told` is history.

*Sanctions, Membership, Jobs, InviteCases.* `Sanctions` has one task per call and one for
the loop, all of which await Emby under one lock while the row is edited outside it.
`Membership` has the handlers of updates, the scan, and Telegram's queue with its
offset; `verdicts` is history. `Jobs` is one job with `plugin_runs` and the settings; the
process may die after each message. `InviteCases` is one inviter, the cases about him
and the people who decide them.

## 3. Runs

Eight runs must pass; each checks one union of components. Four look for a violation
(section 7).

| Run | Instances | Properties |
| --- | --- | --- |
| `cards` | a round card: 2 publishers, 4 tokens, 2 revisions, lease 2, retry 1. A lottery's posts: one sender with a fault and a recovery; two racing senders and a winner | `AtMostOneCard`, `ImplementsCardPost` (if a 5xx means refusal); `ShownAsRecorded` (`RenderedIsShown`, `BelievedIsShown`, `PartsInOrder`, and `PostedOnce`, which excepts a notice in `overtaken`); `CardsCatchUp` |
| `packets` | a packet: 2 members, 2 accounts, 3 points in 2 or 3 parts, two rule sets, 1 change. Its effects: 2 tasks, 2 receipt pages, 1 crash | `LedgerBalanced`, `OneShareEach`, `SharesExact` (`AllocationsExact`, `NothingLost`, `SharesInOrder`), `ImplementsCardPost`; `EffectsInOrder` (`OneReceipt`, `ReceiptAfterFinalCard`, `RecordedIsShown`, `UnpinnedInTheEnd`); `EverythingEnds` (`SettledIsFinal` and termination) |
| `game_centre` | the outbox: 2 workers, 4 tokens. Tables: 2 members and a robot, 3 games, 3 and 4 requests. Hold'em with 3 unequal stacks; zjh with 3 players; a board for two, and practice with undo | `DeletedIsGone`, `ImplementsCardPost`; `TableMoney` (`HeldExplained`, `PotsExplained`, `PointsConserved`, `NoOverdraft`), `SeatsAgree` (`RowsAgree`, `HandsSeated`, `HostsStay`); `EnginesRight` (`PotsRight`, `HandSound`, `BoardSound`, `MoverPays`); `CentreSettles` |
| `games` | black and white: 2 tables and the two accounts of a pair; one table of five seats that five members fill. Duels: one with retries, two at once. Niuniu with 2 guests. Dice: one bet, several bets, a resent report. Scratch cards: a lost answer, presses, posts, the schedule | `OneOpenTableEach`, `ResultIsFinal`; `PotsExact` (`EveryPointAccounted`, `PotIsTheStakes`, `MinorityWins`, `StakesComplete`, `OneDuelEach`, `PairsSettled`, `BankCanPay`, `CellsPaid`, `PressedTwice`); `ShownOnce` (`NeverRerolls`, `CardUntilReport`, `OneCard`, all three if a 5xx means refusal; `NeverCatchesUp`); `BetsAreBlind` (`NobodyForesaw`, `StakersStay`); `ImplementsWager`; `GamesEnd` |
| `admission` | "replace": 1 session, 2 plays, 1 restart. "seats": 2 sessions, cap 1, five kinds of policy. Viewing by reports with a restart, and by polls | `GrantWithinCap`, `ReplacementKept`, `SanctionedBeyondCap`, `SeatsLapse`; `ViewingExact` (`NeverTwice`, `EventsExact`, `StopHolds`, `CreditedWasPlayed`) |
| `accounts` | 2 Emby ids, 2 chats, 1 slot, 1 invite use, 1 card, 1 operator, 1 change from outside, symmetric | `CredentialsExact`, `LinksExact`, `NoSilentOrphan` |
| `economy` | a whitelist card with operator and failures; a shop of boosts and invitations; transfers with a second card, and under a cap; watching and check-ins; five lotteries (draft, full house, awards, deadline, device) | `WhitelistExact`; `LedgersExact` (`PaidForOnce`, `SyncedIsRevoked`, `LedgerExact`, `RewardsExact`, `CheckinExact`, `ProofsCounted`, `PointsExact`, `CancelledOrDrawn`, `FairDraw`); `AgreedAndSolvent` (`AsCardSaid`, `Solvent`, `AsStored`); `EconomySettles` |
| `people` | expiry with automatic renewal, faults and edits; renewals of all three kinds; five views of the request centre; five of sanctions; two of group membership; a report, a reminder and an audit; an invite case with two deciders | `DeletedOnlyWhenDue`; `TermsAndTickets` (`RenewalsExact`, `ToldOnce`, `QuotaExact`, `OneOpenTicket`, `WatchedWhileAccepted`, `LastWordRight`); `ActsJustified` (`NoBlindReplay`, `AsLastProjected`, `NoticesTrue`, `VerdictsFresh`, `RowOutlivesAccount`, `HeardOnce`, `CasesSound`); `StepsInOrder` (`MarksAdvance`, `GraceKept`, `CasesFinal`); `PeopleSettle`. `ToldOnce`, `NoticesTrue` and `HeardOnce` hold if a 5xx means refusal |

Why these bounds are enough for the interesting cases to happen:

- *Two publishers* are what a race needs; four tokens give each two attempts, so
  that a late first attempt meets a finished second one. With one more revision
  than attempts, a revision can arrive during a publication.
- *Leases of two ticks and retries of one* are the smallest that order differently:
  a retry may come before a lease ends, and a lease may end in mid-call.
- *Red packets:* three points in two parts make the random shares unequal; the
  second rule set refuses what the first allowed, and 6 as the largest integer of
  SQLite lets an overflow of a balance raise in the middle of a settlement.
- *Packet effects:* one crash at any moment. After it both tasks may overlap until a page of
  the receipt is acknowledged, and then take turns.
- *Lottery posts:* one sender meets a fault, a recovery and a late entry; two senders race
  with none of these, one of them for a winner's private message.
- *Tables:* two members and a robot in two seats fill a table, leave a host behind and
  let a robot inherit one; four requests are create, join, play and leave. Hold'em stacks
  of 1, 2 and 4 make a main pot, a side pot and an uncalled bet.
- *Black and white:* on two tables a pair with two accounts can be at the same table, at
  different ones, and change identity between two choices; five seats, all taken on one table,
  are the fewest that allow two winners of an odd pot.
- *Dice and duels:* two members and a banker; the beacon's wait is one more than the
  window and the safety margin together, so that it may answer early, late or never.
- *Admission:* a cap of one with two sessions is the smallest contention; two plays
  on one session are predecessor and replacement.
- *Viewing:* four reports of one play are the start, two of progress and the end, and so
  a late, a doubled and an overtaken one. The polls are of a second play, whose client
  reports past the panel.
- *Accounts:* one slot, one use and two chats are the last slot and the last use. The
  two runs that look for a violation have room for both accounts.
- *Inventory:* two cards of a kind are an expiry against a renewal; one fault is a lost
  answer or a crash; three revisions let an operator come before and after a card.
- *Expiry:* three claims are one that crashes, one whose answer is lost, one that
  succeeds.
- *Requests, sanctions, membership, jobs, cases:* each view takes the constants of one
  conflict (two callers, two months, two flushers, two orders, two chats, two deciders) and
  keeps the others small.

Bounds that only make an instance finite begin with `Max` (`MaxRev`, `MaxChanges`,
`MaxFaults`, `MaxTime`, `MaxRequests`, ...), with `Restarts` and the numbers of tokens,
tables, plays and ids beside them. Guards named for them stop the environment, never
the code. Because of them most instances reach states without a successor, and the
configurations of the unions say `CHECK_DEADLOCK FALSE`; deadlock is checked in
`accounts` and `admission`.

## 4. Fairness

Properties of the form `~>` are checked under what the code's scheduling provides; each
component states it in its `FairSpec` or the MC module's `UnionFairness`.

- *Time passes* (`WF(Tick)`).
- *Loops run for ever*: `_play_worker`, `deliver` once a second, the packet worker
  every ten seconds, the timers of the game centre, the housekeeping and deletion loops
  catch every exception and continue, so claiming a row, expiring a packet, a table or a
  term is weakly fair.
- *A call ends*, by an answer or by its timeout: weak fairness of the return.
- *Telegram and Emby answer in the end* what is repeated for ever (edits, deletions, the
  synchronisation of rights): strong fairness of success, only where the code repeats
  without limit. The initial send, the effects of a packet and a lottery's posts are not
  repeated without limit, and nothing is assumed of their success; the properties
  therefore allow an end as `unknown` or `failed`.
- *A lock that is freed again and again is obtained* (`SF(Enter)`): asyncio's locks are
  fair queues.
- *Players, members, administrators, clients and crashes* are never forced.
  `AbandonedSeatsLapse` states its own premises: sessions keep asking, and the
  silent one does not start anew.

`CardsCatchUp` and `CentreSettles` excuse a call that outlives its lease
(`pace = "late"`): then two processes act on one row and the older edit may come last.
The fairness of a union is a disjunction over its instances, of which one is at work in
a behaviour; it promises no more than each instance's own.

## 5. Proofs

`tlapm` checks every proof from nothing; the constants are arbitrary but for the named
assumptions of each module, which only say what kind of value each is (and that `Null` and
the like are none of the others). The exceptions are stated in the theorems: "a 5xx, or any
error, is a refusal" (`~ServerErrorMayAccept`, `ErrorsRefuse`), "calls end before their lease"
(`Prompt`; of a lottery, a whole batch of them), "with the level system" (`Levels`). The model shows the first and the last to be
necessary (`cards_server_error`, `inventory_lost_edit`); section 6 says what the others mean.
A component that a proof module INSTANCEs instead of extending it has its assumption in
the theorem too (`DiceConstants` and the like). Theorems about sums add that what is summed
over is finite (`Finite`, `FeeConstants`, `BankConstants`; the last also says that `Null` is no
ticket), as every table of a database is.

| Module | Theorem | States |
| --- | --- | --- |
| `RoundCardsProofs` | `OneCardPerRound`, `RoundCardsRefinesCardPost` | at most one card; the protocol implements `CardPost` (both if a 5xx is a refusal) |
| | `RowShowsItsCard` | `RenderedIsShown`, whatever a 5xx is |
| | `LotteryPostsTrue` | no post twice but a notice claimed on a row older than its recovery; parts in order; what the row believes of pin and live line is shown (`Prompt`) |
| | `CardsShownAsRecorded` | `ShownAsRecorded` of the union `MCCards` (`Prompt`) |
| `GameOutboxProofs` | `OutboxDeletedIsGone`, `OutboxRefinesCardPost` | the same promises for the outbox, with nothing assumed of 5xx |
| | `TablesKeepTheirBooks` | escrows and pots are explained by stacks and hands, points are conserved, no wallet is overdrawn, seat rows agree with the tables, players are seated to the end of a hand, hosts stay |
| | `TableSeatsAgree`, `TablesMoneyKept` | `SeatsAgree` and `TableMoney` of the union `MCGameCentre` |
| `RedPacketsProofs` | `PacketTypeCorrect`, `PacketLedgerBalanced`, `PacketOneShareEach` | the types; the ledger explains every balance; one share each |
| | `PacketDrawsExact`, `PacketSharesInOrder`, `PacketSharesExact` | every draw is exact; shares go out in order; together with `NothingLost`, `SharesExact` |
| | `PacketRefinesCardPost`, `PacketEndIsFinal` | the card is posted and bound once; terms and ends are final |
| | `PacketReceiptFollowsCard` | receipt and unpin follow the final card; a recorded version is on the card |
| | `PacketReceiptOnce` | each line of the receipt once and in order; unpinned in the end (`Prompt`, errors refuse) |
| | `PacketEffectsInOrder` | `EffectsInOrder` of the union `MCPackets` (`Prompt`, errors refuse) |
| `GroupGamesProofs` | `BlackwhiteOneTableEach`, `BlackwhiteResultIsFinal`, `BlackwhiteMinorityWins` | nobody sits twice; results are final; the smaller side is paid, equally but for a point |
| | `DiceBetsAreBlind`, `DiceCardUntilReport` | no bet after the draw is public; nobody leaves with points down; the card stays until its one report (the last if errors refuse) |
| | `DuelNeverRerolls` | one die for a throw, one duel each, stakes complete (errors refuse) |
| | `NiuniuPairsSettled` | one stake between each guest and the banker; the card stays until its report (errors refuse) |
| | `ScratchCardSound` | one card a round, which shows what the row believes (errors refuse) |
| | `ScratchPressesSound` | two presses a cell, few cells a person, nothing opened late |
| | `BlackwhitePointsExact` | `EveryPointAccounted` and `PotIsTheStakes`: wallets explained by tables, pots by stakes, nothing lost |
| | `DiceBankCanPay`, `ScratchCellsPaid` | a bank can pay what is thrown; a cell costs its fee and brings one reward |
| | `GamesPotsExact` | `PotsExact` of the union `MCGames` |
| | `GamesShownOnce`, `GamesBetsAreBlind` | `ShownOnce` (errors refuse) and `BetsAreBlind` of the union `MCGames` |
| `StreamAdmissionProofs` | `AdmissionWithinCap`, `AdmissionKeepsReplacements`, `AdmissionPunishesOnlyBeyondCap` | the cap; the replacement's seat; a sanction only of whom `_admit` would refuse again |
| | `SanctionsInOrder` | nothing that may have taken effect is repeated; the row is in force; a notice is true and goes out once (if errors refuse) |
| | `ViewingCounted` | no second is credited twice, none of downtime, none after a stop, no more than was played; all accounts agree |
| | `ViewingStaysExact` | `ViewingExact` of the union `MCStreamAdmission` |
| `AccountsProofs` | `AccountsTypeCorrect`, `AccountsCredentialsExact`, `AccountsLinksExact`, `AccountsNoSilentOrphan` | the types; credentials and members add up and no use is spent twice; links within the slots; no silent orphan |
| | `RequestsInOrder` | quotas exact; one open ticket each; watched while accepted; the last word is right |
| `InventoryProofs` | `CardsLiftExactly` | `WhitelistExact` (with the level system) |
| | `MarksSayWhatWasTaken`, `ShopKeepsItsLimits` | a mark is true; limits, invitations, one order for one card |
| `LifecycleProofs` | `MembersDeletedOnlyWhenDue`, `DeletionsToldOnce`, `RenewedAsShown` | only the due are deleted; one notice (if errors refuse); renewals once and as shown |
| | `InviteCasesSound` | one decider at a case, one card, no untrue outcome; a settled case stays so |
| | `MembershipInOrder` | a row goes only after its account; a mark never goes back to an older update |
| | `JobsTellOnce` | a report or a reminder is heard once, but for what an operator asked again or a lost answer hid (a report, if errors refuse); a grace is kept |

### 5.1 The arguments

*Round cards.* `AtMostOneCard` is not inductive: `CardInv` adds who may still be posting.
At most one publisher makes an initial send, the chat is empty until it succeeds, and the
row is `pending` only when nobody is sending and nobody has. For `RenderedIsShown` the
invariant is another one, `ShownInv`: while calls end before their lease, the publisher at
work holds the lease under the row's token, so there is one (`AtWork`), and what it was
told to show is no older than what the row believes (`Believed`).

*Outbox.* `OutboxInv`: the initial send has one sender, who works on a row that is
`sending` or has been given up, so that nobody else can reach `deleted` first.

*Tables.* The argument follows the worlds that a handler composes: `Base` says that document,
seat rows, escrows and pot of one table fit one another and is kept by every step inside a
handler; `Manned`, `Calm` and `Turned` (`Good`) hold again when it is done. In between they
fail: a hand that is over still seats its leavers, and a dealt one has nobody to move. What a
step may change is classed once: marks and timers (`Alike`), a move (`Played`), a deal
(`DealtTo`), a payout (`Paid`), a departure (`Vacated`). A vacated table is closed only
without a hand because every hand has a member in it (`WhoPlays`), and a member may be sent
away by his clock in the middle of a hand only if he is not in it, so `Handled` says that no
player of a hand has his clock running. `HostsStay` needs `Headed` and `Hosted`: within a
handler the host may be a leaver who is about to be replaced, and the place is only empty when
nobody stays. Whoever replaces him is the least of a finite set by the time of sitting down
(`Least`, from `Smallest`), and times differ because a newcomer's is later than all (`Ranked`,
`ClockIs`). The money has two parts. `Funded`: a pot holds what the players of a hand have put
in, and no robot sits at a points table. `Worth`: the members' shares in wallets, escrows and pot
keep their sum; every handler keeps each share as it is but an award, which moves points between
players and adds up to the pot (`AwardWorth`); over all tables the balance follows (`BalanceKeeps`),
with the sums of *Points of the games* below. `Ours` says that a handler touches no row of another
table and changes nothing of that worth, and with it `TablesInv`, all tables and rows together, is inductive.

*Red packets.* Four invariants support each other: a claim is credited with the share of
its slot (`SharesInOrder`), so that what remains is `cut[claimed]` (`NothingLost`); nobody
has an earlier share (`OneShareEach`), so that the new one explains the whole change
(`LedgerBalanced`). For the draw, `Drafted` carries what `Valid` checked at the last edit,
and two lemmas on `Cuts` do the rest: equal parts divide the total (`WholeShares`), and a
random share leaves a point for everybody still to draw, since two or more are left
whenever one is drawn (`RandomShares`). For the card, `OneCall`: `begin_card_send` takes
the row out of `pending` for good.

*Black and white.* What a handler does to the columns is factored into lemmas;
`OneOpenTableEach` is inductive with the shape of the columns and the emptiness of
tables not yet created. Who wins follows with `ResultInv`: nobody is seated twice, so a
full table has as many members as seats, an odd number, and one side is the smaller
(`TwoSides`); the pot holds a point for each winner, and the remainder is less than their
number (`SplitIsFair`).

*The packet's delivery.* `FaceInv` is about the card: who edits holds the lock and carries
a version between that of the card and that of the row (`Edits`), and who is about to unpin
or to send the receipt found the last version recorded (`Final`), which stays true, for
an empty packet gets no new version. It needs no assumption about time. `Held` does: a
call that ends before its lease is made by the owner of an effect that is `sending`, so there
is one caller for each effect; no pin is on its way once an unpin is (`Pinning`), and the
receipt in the group is as long as the cursor, or one line longer while the answer is
on its way (`Sent`).

*Dice.* `DiceInv`: bets are accepted while the round collects them, at their time or before,
and the beacon's round is chosen at the closing, far enough ahead (`Times`); who stakes has
an account that a deletion would have found in a live round. `ReportInv` counts the copies
of a report by its state.

*Duel.* `DuelInv` with `SeenDice`: the dice in the group are those of the row, and at
most one more, whose answer was lost and which is never thrown again.

*Niuniu.* `RoomInv` says what each seat has frozen and that a wallet lacks just that
(`RoomMoney`). Points move at the end only, all at once, so that no sum over the seats is
needed but two cardinalities, of the guests who won and who lost (`BankersShare`).

*Scratch card.* `CardsInv`: what is on its way is newer than what the row has shown, and a
first card belongs to a leased row that has none. `PressInv`: a scratched cell has exactly
one intent that is done. `FewCellsEach` is inductive with it, because the count that
`confirm` makes covers both identities. `SlotsInv`: while the worker knows
when it last looked, that was after the process came up, and so is whatever is queued.

*Lottery posts.* `PostInv`: a claim is of what is being sent and alone (`ClaimTrue`,
`OneClaimEach`), and a pending job whose message is not known has none (`JobTrue`). Nothing
is done to the launch message before it is there for good, and it is unpinned only after
its pin had an answer (`LaunchFirst`). The message that a row
in a batch names is there (`RowTrue`); a pending job whose message is there is known to be, so
that who claims it on a row that knows of none has been overtaken by a recovery.

*Admission.* The guard of a replacement is lifted only by news of the replacement itself,
and all news, in a snapshot or a report, is of plays that have begun; `SInv` says so of
the snapshot, the reports and the seats. For a sanction, `ProvenMeansRefused`: the others
that play fill the cap, so `_admit` finds no room for the session; and if it plays itself they
are more than the cap, so that none of them is seated for playing.

*Sanctions.* `SanctionInv`: one task holds the lock, and what it carries fits its place
(`Serial`). What an event has not set going it may (`Replays`): who is about to send a block
or a deletion has an event that has sent none, and a client's event that is pending or
failed has sent nothing. While nothing has happened since the last projection, what is
under way is what the row asks for, and otherwise Emby has it (`Agrees`). The outcome of
an event whose notice has been read is final (`Post`), so the answer, or its loss, still tells it.

*Accounts.* `AInv` adds to the types that the holder of the lock is a chat and that its id
is known from the creation on. For the links: every step leaves the rows' links alone,
removes some, moves one to an account that answers for nobody, or is a commit, which
found fewer members than `Cap`.

*Inventory, the whitelist.* A card owns the group only at the revision it wrote. While it
does, the row agrees with what is due to the member in both the expiry and the group to
give back (`Lifted`); while it does not, his group is the one he has apart from his cards
(`Plain`). Two things keep that true: a revision is never used again (`Revisions`), and an
edit that names no group writes back the one the member still has (`Current`), which holds
because nothing else may move him while it is open. This last part is what the level
system's lock adds, and what fails without it.

*Inventory, the marks.* `SyncedIsRevoked` is about an answer that is written down later than
it was true. `RevokedInv` says why it is still true: Emby was told of a member's rights as
they were when it was asked, so it no longer counts a boost that had passed by then
(`Taken`, `Marked`) and knows a revision above that of the grant (`Answer`, `Told`); a used
card is never used again, time does not run back, and revisions only grow.

*Inventory, the limits.* A purchase and a use count and add in one transaction.
`LimitInv` is `RevokedInv` (for the rows' types) with the counts as bounds on
cardinalities, of boosts that run, cards bought of a kind, and invitations used.

*Lifecycle, the deletion.* From the claim on the member is excluded: his state is
`deleting` under the job's token and lease (`Excluded`), so nobody renews, edits or
stakes. What was checked before DELETE was sent is therefore still so when the answer
comes (`Authorized`), and an answer comes only after the media server has carried the
request out (`Answered`). `Notices` says the notice is staged after it and posted once.

*Lifecycle, the renewals.* `RenewInv` carries the types of receipts and previews (`Papers`),
that a receipt of the bot names a preview that exists, and the two properties: a request
that has a receipt is never used again, and a confirmation closes the preview whose
terms it has just found unchanged, which no later step reopens or rewrites.

*Invite tree.* `CasesInv`: a decision is in a decider's hands only while its case is
`processing`, and each case that is `processing` after a crash is put back or settled before
anybody decides; a card is sent from `sending` only, which one loop at a time can reach.

*Membership.* `MemberInv`: a task that is about to remove the row has been told that the
account is gone (`Told`), and an account that is gone is not made again; a task that is
about to store a mark holds the lock of the mark since before it read it, and its update is
newer than what it read (`Writes`). A crash delivers updates again, and drops the tasks.

*Jobs.* `JobInv` has a part for each job. Of a report: what may be sent without anybody's
asking has not been heard (`Silent`), so that each hearing is matched by the first sending
or by an operator's retry (`Batch`). Of a reminder: on a day without a run by hand
and without a lost answer, who was reminded is among the receipts, or the run of the day is
finished (`Reminded`); a run that is under way at midnight reminds nobody of the new day
(`OfToday`). Of an audit: a note is no older than the telling (`Notes`). The first attempts
at this proof failed for a good reason twice: an operator's retry counted only if the
drawing succeeded, and time could pass between the start of a run and the opening of its
batch, where the code has no await. Both were wrong in the model.

*Requests.* For the quota, a ticket is of a month its owner's counter has come to
(`Counted`): a request of a new month finds nothing billed, and a refund of this month's
ticket finds something. For the last word, a result carries a revision the ticket has had
and is for who is concerned (`Post`); a decision makes a new revision, so that its results
are queued whatever is in the outbox (`Decided`), and from then on they are undelivered
until a member hears of the ticket as it is, or that it has moved on (`Words`).

*Viewing.* `ViewingInv`: what the panel remembers of a play is not before anything it
has credited of it (`Fronts`), so that a report that comes late credits nothing old; an
ended play is closed until it starts (`Endings`); the time of a play is at any moment in one
place, in memory or in the checkpoint a restart reads (`Books`); and how far the
title has come is bounded by the ticks in which it was shown (`Observed`, `Played`).
`EventsExact` compares sums of samples with counters; it is proved because samples do not
overlap, so that credited time is the number of ticks they cover (`Ticks`) and no fold is
needed.

*Points of the games.* A sum over a finite set is the community modules' fold, and nothing
about it can be had by induction. Each lemma (`SumInt`, `SumStep`, `SumChange`, `SumPlus`,
`SumWithin`, `SumEach`) is proved by contradiction instead: among the finitely many subsets
that refute it there is a smallest, and one element less refutes it too (`Smallest`, from the
well-foundedness of strict inclusion). With these, `TableInv` of black and white is inductive: a step touches
one table, and there the wallet gains what the row does (`OneTablePays`), while what is
owned is moved and not made (`Moved`). That a full table pays exactly its pot is `SplitIsWhole`: quotient
and remainder of the split add up to the pot. `Seated` is what the type
lacks: nobody has two rows at a table, and an open one has paid nobody. In `BankInv` a bet is one
more term on its side and on the table (`PlacedMore`), and in `FeeInv` a confirmed cell one more term of who
scratched it.

*Unions.* A step of a union is a step of the component at work or leaves it alone, and what
a question leaves out only takes steps away, so a component's invariant is one of the union
while its part is at work (`CardsInUnion`, `PostsInUnion`, `EffectsInUnion`, `GamesAtWork`, `TablesAtWork`, `ViewingInUnion`).

Each of these invariants was checked with TLC, as an invariant of a run of its component,
before it was proved.

### 5.2 Only model-checked

- *Liveness*, and everything that needs `ENABLED`: beyond the prover.
- *Sums*: `PointsAccounted` and `PointsKept` (points spent and left add up to those given),
  the pots inside the engines of hold'em and zjh (`PotsRight`), the `Wager` refinements, and
  the ledgers of `Transfers`, `Earnings` and `Lottery`. The library's theorems on folds take an
  operator as a parameter. The sums of `MCGames`
  and of the tables of the game centre are proved all the same, from a smallest counterexample
  (5.1); these are not yet done that way.
  `LedgerBalanced` of `RedPackets` needs no sum, because shares are written as what is left
  (`cut`).
- *The other unions*: there a theorem is about a component, and the conjunction of the MC
  module is checked as such. Of the components without a theorem (the engines,
  `Transfers`, `Earnings`, `Lottery`) everything is model-checked only.

## 6. Assumptions and abstractions

- A request that reaches Telegram or Emby is carried out, or not, before its caller
  learns the outcome or dies; `Lifecycle` and `Sanctions` also let it be carried out after
  the caller gave up. In `Lifecycle` such a late DELETE may still land on an account that an
  operator has recovered meanwhile: `DeletedOnlyWhenDue` judges the moment of sending.
- In `RoundCards`, `GameOutbox` and `LotteryPost` a crash is that of one publisher, which
  includes the death of the process; elsewhere it is that of the process.
- Several parts take a 5xx answer for a refusal and send again after it, through
  `report_delivery.failure` (`report_delivery.py:43`): besides the round cards the packets'
  effects (`PacketDelivery`), the dice of a duel (`PkDuel`), the reports of niuniu and dice
  (`Niuniu`; `DiceRound`, `bot_dice.py:374`), the scratch card (`Scratch9`, `scratch9.py:354-366`),
  the notice of a deletion (`Lifecycle`, `expiry_notices.py:97`), the notices of sanctions
  (`Sanctions`, `restrictions.py:467-476`) and the monthly reports (`Jobs`,
  `plugins_builtin.py:507`). The models have both outcomes; in the runs, and in the theorems that
  say "errors refuse", the constants `ErrorsRefuse` and `~ServerErrorMayAccept` leave out a 5xx
  that hides an accepted message. With it that message appears twice, for the same
  reason as in `cards_server_error`. `GameOutbox` and `LotteryPost` need no such proviso.
- `LotteryPost`: `Prompt` says that a batch of notices ends before the lease of its rows, which
  counts from the start of the batch: 180 seconds for up to 20 calls of up to 20 seconds each.
  A slower batch may find its own row closed as `unknown` and recovered while it sends.
- `confirm_violation` stores the event of a sanction without an await after its look
  (`restrictions.py:158-198`). Emby is called afterwards, and a seat that the session gets
  meanwhile is not looked at again (`restrictions.py:198-238`): `SanctionedBeyondCap` is about the
  look.
- Black and white: the bound of 2^63 that `points._apply` enforces is not reached.
- Admission: the two reads of the policy in `confirm_violation` are one, the
  native administrator's flag is read with the policy, a paused session counts as
  live, a client without a session id matches at most one session, and
  `watch_playbacks.closed_at` is not used.
- Viewing: the binding of a play to a lease, changes of the rate, seeking, shared addresses,
  kicks, and a crash between the record of a watch and its finish are left out.
- Accounts: one invite code and one card stand for all; the terms, group and days
  whose equality `_fresh_admission` demands are one value per kind of credential. A
  suspension of an inviter and a revocation are one switch, for a revocation is a
  suspension that never ends. `execute_delete`'s list of users is read in the
  step that deletes. A list keeps no names. The account of a creation whose answer is
  lost, or whose task dies, remains in Emby without a record; `NoSilentOrphan` is about
  the registrations that learnt the id. The unique index on `members.tg_user_id` is
  not in the model: `LinksExact` shows that the code never depends on it.
- `RedPackets` and `Blackwhite` let a link move or disappear at any time, which is
  more than `unbind_telegram`, `bind_telegram` and `rebinding.review` do.
- Two members never sit down at the same instant (`since` stands for `joined_at`); the code
  settles such a tie by the seat.
- Zjh leaves out the rule by which 2-3-5 beats three of a kind; strengths are a total
  preorder. The rules of gomoku and xiangqi are one choice of an outcome.
- Jobs: no time passes between the start of a report or reminder run and the opening of its
  batch, for the code awaits nothing there.
- Dice: legacy pools, private sessions and edits of the display are left out.
- Inventory: `enforce_account_expiry` for whitelist grants is left out.

## 7. Where code and documentation disagree

1. `cards_server_error`. `report_delivery.failure` calls each 5xx `retry`, and
   `publish_failed` then sends the initial card again, although `play_rounds.py:87` says that
   an "uncertain initial send must not create a second card" and
   `game_center_delivery.py:57` that a "5xx or a lost ACK cannot prove sendMessage failed".
2. `accounts_purge`. `purge_orphans` trusts `emby_missing_since`. A sync that read its
   list before a registration created and committed its account flags the new member,
   and until the next sync, 900 seconds later, a purge deletes a member whose account
   is there, which `members.py:731` says must not be possible.
3. `accounts_rollback`. A registration asks once whether the new id is already a
   member, before it awaits the password. If an operator enrols the account during the
   await and the registration then fails, the rollback deletes it, although
   `telegram.py:1629` says "Never delete an existing membership".
4. `inventory_lost_edit`. With the level system off (the default, `levels.py:33`) an edit
   of a member takes no lock between reading and writing his row, and `inventory.use` runs
   in a worker thread. An edit that names no group writes the group it read over that of a
   card used in between, although `whitelist_cards.py:3` says that ownership by revision
   lets an administrator win who is "explicitly selecting" a group.

Also noticed, without a run of their own:

- The interleaving of 3 has a milder form: when the registration succeeds, `upsert` updates
  the enrolled row and leaves `inviter_id` and `register_via` as they are
  (`members.py:589`), so the inviter is not recorded although the code is spent.
- `deliver_notices` goes on with rows that it selected before its sends. A notice that became
  `unknown` and that an administrator recovered by naming its message in between is claimed by its
  state and posted again instead of edited (`lottery.py:1255-1302` against 1349-1360), although
  the recovery is there to repair that very message.
- `PENDING_START_SECONDS` is 45 (`streams.py:23`), and `docs/PLAYBACK_ADMISSION.md:116`
  documents a grace period of 120 seconds.
- Emby's policy is read and written back as a whole: an administrator's flag that is
  granted between the GET and the POST is overwritten. The raw policy route and Emby's own
  pages change it without the row's knowledge; the loop puts it back. After a member was
  skipped as an administrator his status is restored from a copy read before.
- A member who joins in the same second as a save of the rules is ignored
  (`group_membership.py:509`) and does not invalidate a deletion under way, other than the
  comment at `telegram.py:5292` has it; `VerdictsFresh` excepts that second.
- The cleanup of the inactive suspends from a list that it read before its awaits.
- One scheduled job does not fire twice, but for a kill between the removal of its receipts
  and the record of its run.
- `InviteTree.recover` runs in the bot's worker only: with the bot off, a case that a crash
  left in `processing` stays there; and its message that the result did not take effect
  may be untrue.
- Of the guards of `usage.py` against counting twice some are redundant: taking away one
  alone changes nothing that is counted.

## 8. What is not modelled, and the plan

Texts, images, layouts, HTTP routing and the Mini App carry no property of their own.
Board robots and image generation are pure computation. Edge agents, gateway
and watchdog are separate programs. Intake, downloads, storage and mounts are jobs over
external programs. The login throttle, the settings file and the caches are small
and sequential within one loop. Three-card poker in groups is hidden legacy, and shares
its card with black and white. `PROJECT.json` lists every part with what is left out of it.

What is left to do, in order of what it would show:

1. Proofs of components that have none: the engines, `BoardGame` first, whose payments involve no sum.
2. The remaining sums, with the lemmas of `GroupGamesProofs`: the ledgers of `Transfers` and
   `Earnings` first, then the `Wager` refinements.
3. `Store` and `Cache`: the rollback of a failed save, a fill that is overtaken by an
   invalidation.
