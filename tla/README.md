# Opinia / FDP: a TLA+ verification of the coordination core

The repository is a NestJS API over PostgreSQL (`apps/api`), a Next.js site, a browser
extension and Telegram bots. Most of it is CRUD. The parts whose correctness depends on
interleavings, retries, deadlines and long histories are the Dota tournaments, the rewards
program and the party search. This project models those: the tournaments from the first
application to the podium, wallets, giveaways and tag checks, and temporary parties with the
timer that merges them.

Paths below are relative to `src/`; `tournaments/` stands for
`apps/api/src/modules/tournaments/`, and so on.

## 1. Inventory

| Component | State | Operations | Interacts with | Hard part |
| --- | --- | --- | --- | --- |
| Tournament bracket (`tournament-bracket.ts`, `tournament-bracket.service.ts`) | seeds frozen at the start, bracket size; everything else is derived from match rows | `startLocked`, `reconcileLocked`, `scan` every 30 s | reads and inserts match rows; called from every handler that settles a match | two kinds of locks; decisions overtaken by managed confirmations; advancement missed by concurrent confirmations; byes; reserves taking over seeds |
| Tournament match (`tournaments.service.ts`, `tournament-series.ts`, `tournament-plans.service.ts`) | one row per series and one per game: stage, lobby, readiness, report, five timestamps | player handlers, staff handlers, moderator decisions, plans, deadline scan | bracket, tournament status, entries | stages repeated for every game; deadlines shifted by rescheduling; late answers; half-cleared state after replay |
| Entries, participation, recruitment (`tournaments.service.ts`, `tournament-participation.service.ts`, `tournament-recruitment.service.ts`, `tournament-company.ts`) | entries, rosters, applications, consents, solo queue, the matcher's lease | create, register, join, apply, decide, leave, remove, withdraw, enable and confirm a company, search, match, scan | bracket start, recruitment | one player in two teams; consents given for an older roster; searches restarted under a running matcher; the last place |
| Rooms and match chat | Discord voice rooms, messages | create, join, clean up | entries, matches | I/O mostly |
| Rewards (`rewards/`, `dota-bot/bot/services/rewards_sync.py`) | wallet, ledger, events, giveaways, purchases, tickets, tag checks, notices | ingest, process, purchase, cancel, refund, draw, check, claim and deliver | bot journals, Telegram | exactly-once accounting over retried batches and crashes; leases; stale settings |
| Parties and search (`social/services/game-parties.service.ts`, `social/repositories/game-parties.repository.ts`, `social/lib/dota-party-merge.ts`, `dota/services/dota-profile.service.ts`) | parties, members, join blocks, invitations, recruiting cards | create, join, invite, apply, accept, decline, leave, kick, promote, choose a position, recruit, extend, disband; timers that merge and clean up | bot, Telegram rooms, Discord | calls that read first and write later, while a merger retires the party; kicks overtaken by joins; cleanup of invitations and cards after the transaction |
| Bot queues and ready checks (`apps/dota-bot`) | SQLite queues and timers | match, ready check, sync | API | crash between the API call and the local commit |
| Auth sessions (`auth/`) | refresh sessions | login, rotate, revoke | everything | concurrent rotation of one token |
| Contributions, entity merge | proposals, votes, entities | propose, review, merge | entities | references moved while they change |
| Reputation, tops, ratings, entities, analytics, UI | rows and aggregates | CRUD | - | none of their own |


### What makes each component correct

* **Bracket.** A tournament is its frozen seeds and a growing set of results; everything else
  follows from them, as long as no stale decision rewrites a settled match (section 7, 2). No team
  has two open series, none is matched again right after the same
  opponent, byes never strand a node, a settled series keeps its winner and loser, the podium is
  made of different registered teams, and lost advancement is recovered.
* **Match.** A game is played only in a lobby both sides confirmed; a series ends exactly by a
  majority; recorded games survive replays and replacements; no stage is left without the time it
  promises; a stalled stage ends. Two people deciding at once record a game once, and a dispute
  is settled by staff only.
* **Participation, recruitment.** A player is in at most one entry of a tournament; a team is
  registered exactly while its roster is complete and a place is left; a company is admitted whole
  and only with the consent of everyone to the roster they saw; the matcher places only who still
  searches for what it read; who is enrolled no longer searches or applies elsewhere.
* **Rewards.** A balance is the sum of its ledger; every ledger key is credited once; tickets
  are the paid ones; a draw is final; a cancelled giveaway pays back; a verification rests on
  what was seen of the present tag, and people overrule late answers; a notice is sent at least
  once and a first-task notice at most once.
* **Parties, search.** A roster fits, with one player per position; a live party is led by one
  member; who was kicked does not come back through a call that was under way, nor through a
  merger; parties merge only if each captain asks for everyone who comes; nobody waits at a party
  that was retired.
* **Sessions.** A refresh token is used once.

Interactions: every handler of a match that settles it calls `reconcileLocked`; the bracket
start waits for participation; purchases and event processing share wallets; the worker runs
processing, refunds and tag checks one after another; bots call the API and keep their own
SQLite journals, which they upload again until acknowledged.

## 2. Plan

Done, in this order: the bracket and its abstract specification; the scheduler around it; one
match; the transactions of a match; wallets and giveaways; tag checks; the entries of a tournament
with companies, solo queue and matcher; parties, their invitations and the merge timer; proofs
about all of them (section 6).

Left, in this order:

1. `RewardEvents`: the bot's journal and cursor, `ingest`, `processBatch`, tasks and periods,
   with the ledger as the abstract specification (each period of a task credited at most once);
   then notices with their leases and acknowledgements.
2. Composition of `TournamentEntries` with `Start` of `TournamentBracket`: today the first stops
   at the status `STARTED` and the second begins with a fixed list of registered teams.
3. `Sessions`, `SpotlightCredits`: small modules on rotation and balances.

Runs are few and each asks one question of one component; related instances are merged into one
run by making the parameter a variable: the format of a bracket, the length of a series, the
`scope` of `MCTournamentEntries` and `MCParties`.

## 3. Modules

| Module | Models | State ↔ code |
| --- | --- | --- |
| `Bracket` | `buildBracket` as operators | nodes keyed `<<side, round, position>>`; computed layer by layer from seeds, size and match rows |
| `BracketResults` | the abstract specification of a bracket | `format`, `frozen` seeds, `size`, `results`: a result is only added, for a node whose two sides are known; a seed changes hands only before its team's first result |
| `TournamentBracket` | `startLocked`, `reconcileLocked`, `scan`, and the handlers that settle, replay, replace or cancel | `matches` is the table of match rows; `confirming`, `deciding` and `cancelling` are transactions with what they have read; `overwritten` remembers rewritten matches. Implements `BracketResults` |
| `TournamentMatch` | every handler of one match | one variable per column (or group) of `DotaTournamentMatch`; `due` is the time left until each timestamp; `submitting` and `rescheduling` are requests with what they have read |
| `MatchTransactions` | the handlers of one match split where they read and where they commit | `match` row, `recorded` games, open requests with what each has read; locks by kind |
| `Rewards` | `grant`, `purchase`, `action`, `editGiveaway`, `refundBatch` and the switch of the program | `giveaway`, `tickets`, `purchases`, `ledger`, `balance` are tables; `buying` are purchases that hold the giveaway's row |
| `RewardTagChecks` | `checkBatch`, `enroll`, `retry`, `reviewTag`, the tag in `settings` | `row` is the verification row, `check[w]` the pass of instance `w` with the tag it has read, its lease and Telegram's answer |
| `TournamentEntries` | the handlers of entries before the start, companies, the solo queue and `match` | `entry`, `roster`, `consent`, `requests`, `queue` are tables; `lease` and `pass[i]` are the matcher's lease and what instance `i` has listed |
| `Parties` | temporary parties: every service call that changes a roster, an invitation or a card, and the two timers | `party`, `member`, `block`, `invite`, `looking` are tables; `request[u]` is the call in flight of player `u` with what it has read; `pass` is a plan of the merge timer, `sweep` the list of the cleanup |
| `MC*` | small instances | ratings with a tie and an unknown one; all brackets of up to eight teams; scopes of entries and parties (section 4) |
| `*_proofs` | theorems | see section 6 |

How code becomes actions:

* A handler that runs under one lock from its first read to its commit is one action. A handler
  is split where the code lets another one in: `confirmManagedStage` and `update` (different
  locks), `confirmResult` and `resolveAdminMatch` (they read the match under the advisory lock alone
  and update it by id: `BeginDecision` and `CommitDecision`), `findMatchForWorkflow` (two
  statements under READ COMMITTED), `submitLobby` and `plans.apply` (a deadline computed from an
  earlier reading: `ReadForLobby` and `SubmitLobby`, `BeginReschedule` and `Reschedule`), `purchase`
  (waits for the wallet while it holds the giveaway), the merger of parties (`ReadForMerge` and
  `CommitMerge`) and `checkBatch` (asks Telegram with no lock).
* A managed confirmation that leaves its series open changes no row of the match that the bracket
  reads, and creates at most, as the scan does, what lost advancement has left behind:
  `TournamentBracket` leaves it out. `MatchTransactions` has it.
* In `TournamentMatch` decisions about results are whole, since they write every field of the
  lobby cycle; what happens when they overtake each other is in `MatchTransactions` (one series) and
  `TournamentBracket` (what follows from it).
* A conditional `updateMany` is an action with its condition as guard. Rolled-back transactions
  are the `Abort` actions; unique keys and CHECK constraints are guards of the commit.
* Every handler of `TournamentEntries` repeats its checks under the tournament's advisory lock
  (`SELECT pg_advisory_xact_lock`), so each is one action; the matcher alone reads outside it.
* A call in `Parties` reads the party without a lock and then runs one or more transactions, so it
  is a request with a step per transaction. A transaction that holds the party's row is one step.
  Closing invitations, `clearLookingForUser` and `refreshRecruitLookingAttributes` come after the
  commit and are steps of their own (`Settle`, `Refresh`, `Clear`, `Close`); `GiveUp` may end a call
  between any two.
* Time in `TournamentMatch` is what is left until each timestamp, so that the state space is
  finite without a bound on the clock; a request there takes no time on the scale of the windows
  (milliseconds against ten minutes and more), so time passes only while none is half done. `Rewards` and `RewardTagChecks` keep only comparisons
  (before, during or after the window; due; matured).
* In the bracket and match modules rosters are taken as complete; Dota match IDs, chat, audit, notices and formatting are left out.
* `MatchTransactions` assumes that one request takes less time than a whole game, so an old
  request never meets the next game's report (a Dota game takes tens of minutes).
* In `Rewards`, a request or pass that has read the program goes on after the switch (`"fading"`:
  the API caches the program for 30 seconds).
* In `RewardTagChecks`, two different writes of `nextCheckAt` are taken to differ, as they do at
  millisecond resolution.

What `TournamentEntries` abstracts: `slots` is the limit less the places of all other entries, which
come and go (`OtherEntryRegisters`, `OtherEntryLeaves`); drafts of tournaments and reopening a
started one by hand are left out; accepting a recruitment invitation is `JoinEntry` with
`viaInvitation`, whose further checks only narrow it; the matcher's order of candidates is any
order, and its reading of the queue is one step; accounts, sponsors and notices are left out.

What `Parties` abstracts: permanent teams (`TEAM`), Discord voice, chat, readiness, ratings,
servers and friendship are left out, and so is the time at which a search card lapses; a player
has one call in flight; an invitation is told apart by its kind and position; reading and
writing the invitations to close, or a card, is one step, except for the withdrawal of a
captain's card, where `Refresh` reads and `Clear` writes; the cleanup deletes rows and clears
cards in one step; the conditional write of an extension succeeds if the row exists; a link is not
used again by a later party. A merger reads the members and writes them later: its locks keep the
rosters, blocks and cards it has read, so `CommitMerge` asks for them again, but a change of
position takes none of these locks and may come in between. The unique index on party and position
refuses such a merger when a position would be taken twice, and lets it through otherwise.

History variables (`everStarted`, `crossed`, `overwritten`, `late`, `overruled`, `streak`) are read by properties only. `calm` in
`RewardTagChecks` may turn true at any point and then stops interruptions: it is how
`RequestsSettle` says "once nothing interrupts any more", and every behaviour without it is there.

## 4. Runs

Run any of them with `tlc -config <cfg> <module>`. "violation" runs each check one promise of the
documentation that the code does not keep (section 7).

| Run | Module, config | Asks | Instance, and why it is enough |
| --- | --- | --- | --- |
| `bracket` | `MCTournamentBracket`, `TournamentBracket` | Do concurrent confirmations, reserves, scans and cancellation keep rows and bracket consistent, does each step implement `BracketResults`, is lost advancement recovered, until a decision overtaken by a managed confirmation rewrites a settled match (`Intact`)? Is every bracket right: seeds apart, podium, no rematch after a drop, never stuck? | Both formats. All behaviours of up to four teams, including three (a bye) and reserves, and of five in single elimination; six teams from the middle of the bracket on, the smallest place where two transactions can create the same row; every combination of results of 2 to 8 teams (the larger ones played in one order, a decision being one step), where 8 has two crossings and every number of byes, and the construction repeats from there (the code allows 256). Ratings hold a tie and an unknown one |
| `entries` | `MCTournamentEntries`, `TournamentEntries` | Is a player in one team only, is a status what its roster deserves, are limits kept, are companies moved whole and by consent, does the matcher take only who searches for what it read, does an enrolment end a search? | Three players, a permanent team and a squad, rosters of three, in three scopes: *companies* (two applications pending at once), *matching* (two instances, three searches started in all, two per player) and *limits* (two places, closings, limits and staff). Two instances are what a lapsed lease needs; a third player is who is taken while the others agree |
| `parties` | `MCParties`, `Parties` | Do rosters fit and captains lead, do kicks hold against joins under way and mergers, is a merger what both captains ask for, does nobody wait at a retired party? | Four players (one only passive), rosters of three, three parties, in three scopes: *merging* (three captains who recruit, two calls begun while mergers are planned and carried out), *exclusion* (one party, two calls at once, four in all, two letters pending, by every way in) and *administration* (one party from its creation to its deletion, two calls at once, three in all, extension, expiry and search) |
| `match_workflow` | `TournamentMatch`, `MatchWorkflow` | Is a game always supported by a confirmed lobby, does a majority decide, do results survive, do they end, and do they have their time, unless a reschedule or a submission was crossed by another step (`crossed`)? | Three lineups (one can replace), BO1 and BO3, windows of one or two ticks and a start moved by at most one tick: each timestamp may come before, with or after the others |
| `match_transactions` | `MatchTransactions`, `TransactionsLocked` | With the two locks the handlers really take, does anything but a decision overtaken by a managed confirmation count a game twice or rewrite a settled series? | Three requests at once in a BO3: players, moderators and managed confirmations, with reports, timeouts, disputes, replays and rollbacks between their statements |
| `rewards_giveaways` | `Rewards`, `RewardsGiveaways` | Do balance and ledger, tickets and purchases, draw and tickets agree, is a cancelled giveaway repaid? | Two players, two giveaways (so one player can hold two giveaway rows and one wallet), two request IDs (a retry and a new one), purchases of one or two tickets with a limit of two per player and four in all, two prizes |
| `tag_checks` | `RewardTagChecks`, `TagChecks` | Does a verification rest on what was seen since the period began, do people overrule late answers, is a request settled? | Two tags, two API instances: a lease can be taken over while its first holder is still asking Telegram |
| `cancellation_race` | `MCTournamentBracket`, `BracketCancellation` | violation: a cancelled tournament has no unfinished match | Four entries |
| `match_replacement` | `TournamentMatch`, `MatchReplacement` | violation: a started match keeps its lineups | BO1 |
| `match_dispute_overruled` | `MatchTransactions`, `TransactionsDispute` | violation: a player's confirmation does not settle a disputed game | One confirmation, BO1 |
| `match_overwritten` | `MCTournamentBracket`, `BracketOverwritten` | violation: a completed match is never rewritten | Two entries, one series |
| `tag_changed` | `RewardTagChecks`, `TagChanged` | violation: a new tag starts from nothing | One instance, two tags |

Bounds: the bracket modules have none but the number of entries; `TournamentMatch` keeps time as
what is left, never longer than the windows; `MaxDelay` bounds how far a start is moved;
`TicketLimit` stands for 100,000 tickets and `RefundLimit` for the batch of refunds;
`Requests` bounds the requests open at once (`MatchTransactions`) and the request IDs of a player
(`Rewards`).

`TournamentEntries` bounds places and searches per player (`MaxSlots`, `MaxGeneration`);
`MCTournamentEntries` adds `MaxPending` applications and `MaxSearches` searches. `Parties` bounds
the parties ever created (`MaxParties`); `MCParties` bounds, by scope, the calls begun, the calls in
flight and the letters pending (`MaxBegun`, `MaxCalls`, `MaxLetters`). A scope leaves out what the
other two explore and starts where its question begins: *merging* from parties that recruit,
*exclusion* from a party with a guest. What needs two mergers and two calls of two captains at once
is not explored.

`bracket` takes six teams to the middle of the bracket by letting the better seed win the first two
upper rounds: those states are reached by starts and decisions alone, and from there every action is free
again. Six teams with upsets or reserves in the opening rounds are explored for their results,
without the concurrency.

Runs that finish use `CHECK_DEADLOCK FALSE` since tournaments, matches, giveaways and bounded
numbers of calls do end.

## 5. Fairness

No player, captain, moderator or administrator is ever assumed to act. Assumed are:

* `SchedulerFairness` (`TournamentBracket`): the scheduler reconciles tournaments in progress every
  30 seconds, and an open transaction commits or is rolled back (PostgreSQL ends deadlocks and
  Prisma ends long transactions).
* `FairSpec` of `TournamentMatch`: time passes, strongly, because requests that are half done hold it
  up again and again and take no time themselves; requests end; `expireOverdueMatches` runs every
  `MATCH_TIMEOUT_SCAN_MS`; admission ends at its time, which any reader or starter applies.
* `FairSpec` of `Rewards`: the worker's pass every 30 seconds reaches `refundBatch`. A pass ends at
  the first part that throws (`rewards/rewards.worker.ts:42`), so this assumes that the processing
  before it succeeds now and then.
* `FairSpec` of `RewardTagChecks`: rows become due as time passes, and a running instance's timer
  runs its passes. `Stop` may still interrupt an instance at any point until `calm`.

All but the passing of time are weak: nothing the processes do needs to be enabled by chance again and
again.

## 6. Proofs

`tlapm <module>_proofs.tla` checks each. A theorem named here holds for every value of the
constants that satisfies the named assumptions.

| Module | Theorem | Says |
| --- | --- | --- |
| `TournamentMatch_proofs` | `TypeCorrect` | `Spec => []TypeOK` |
| | `GamesAreSupported` | `Spec => []GameIsSupported` |
| | `MajorityAlwaysDecides` | `Spec => []MajorityDecides` |
| | `DeadlinesAlwaysLeaveTime` | `Spec => []DeadlinesLeaveTime` |
| | `ResultsStayPermanent` | `Spec => ResultsArePermanent` |
| `Rewards_proofs` | `TypeCorrect` | `Spec => []TypeOK` |
| | `TicketsAreAlwaysPaidFor` | `Spec => []TicketsArePaidFor` |
| | `DrawsStayFinal` | `Spec => DrawIsFinal` |
| | `PrizesAreAlwaysShared` | `Spec => []PrizesAreShared` |
| | `BalancesAreTheLedger` | `Spec => []BalanceIsLedger` |
| `RewardTagChecks_proofs` | `TypeCorrect` | `Spec => []TypeOK` |
| | `PeriodsAreEvidenced` | `Spec => []PeriodIsEvidenced` |
| | `DecisionsAlwaysStand` | `Spec => DecisionsStand` |
| `Parties_proofs` | `TypeCorrect` | `Spec => []TypeOK` |
| | `RostersAlwaysFit` | `Spec => []RostersFit` |
| | `CaptainsLead` | `Spec => []CaptainLeads` |
| | `KicksHold` | `Spec => []KickedStayOut` |
| | `RetiredPartiesAreEmpty` | `Spec => []NobodyWaitsAtAMergedParty` |
| | `KicksLast` | `Spec => KicksOutliveMergers` |
| | `MergersAreMutual` | `Spec => MergesAreMutual` |
| `MatchTransactions_proofs` | `GamesCountOnce` | `Spec => []EveryGameCountsOnce` |
| | `OneLockCountsOnce` | with one kind of lock, `Spec => [](Cardinality(Recorded(games)) <= played)` |
| | `FinishedStaysFinal` | `Spec => OnlyOvertakenDecisionsRewrite` |
| `TournamentEntries_proofs` | `TypeCorrect` | `Spec => []TypeOK` |
| | `RostersStayExclusive` | `Spec => []RostersAreExclusive` |
| | `StatusesMatchRosters` | `Spec => []StatusMatchesRoster` |
| | `TeamsAlwaysFit` | `Spec => []TeamsFit` |
| | `ConsentsAreGiven` | `Spec => ConsentIsGiven` |
| | `CompaniesMoveWhole` | `Spec => CompanyMovesWhole` |
| | `EnrolmentsEndSearches` | `Spec => EnrolmentEndsSearch` |
| | `MatcherTakesOnlySearchers` | `Spec => MatcherTakesSearchers` |
| `TournamentBracket_proofs` | `Invariance` | `Spec => []Sound` |
| | `RowsStayNodes` | `Spec => []RowsMatchNodes` |
| | `SettledSeriesAreKept` | `Spec => SettledSeriesStay` |
| | `SeriesComeOneByOne` | `Spec => []OneUnresolvedSeries` |
| | `EliminatedTeamsAreOut` | `Spec => []EliminatedTeamsStopPlaying` |
| | `TournamentsAreTheirResults` | `Spec => ImplementsBracketResults` |
| | `TournamentsAreNeverStuck` | `Spec => []NeverStuck` |
| | `CompletedTournamentsAreDecided` | `Spec => []CompletedIsDecided` |
| | `SeedingAlwaysWorks` | `Spec => []SeedingWorks` |

`Bracket_proofs` holds the lemmas about brackets that the last group rests on.

**TournamentMatch** (`LineupsAssumption`, `WindowsAssumption`, `BestOfsAssumption`: the absent
lineup is no lineup, windows are natural numbers, a series has 1, 3 or 5 games). The three
invariants are inductive over `TypeOK`, one proof per action, with `FreshCycleType` and
`RecordGameType` for what the handlers share. `MajorityDecides` needs that a recorded game adds
exactly one win (`WinsAppend`, `RecordedWins`), which rests on the cardinality of the set of
won games and not on a recursion over the series. `DeadlinesLeaveTime` leaves out a stage whose
deadline was computed by a reschedule, or by a submission of the lobby, from a match that had changed when the deadline
was written (`crossed`): `plans.apply` writes the window of the stage it read, `submitLobby` that of the start
it read. Such a stage may get less time than promised, until the next deadline is armed from the match as it
is; `StalledStagesEnd` holds of it all the same, since it has a
deadline. `ResultsArePermanent` is about games, lineups and format; winner and status of a settled match are
the subject of `OnlyOvertakenDecisionsRewrite` and `match_overwritten`. The theorems hold for every number of lineups,
every window and every `MaxDelay`, and for tournaments with a bracket as well as manual ones
(`BracketKind`), where the run takes the manual one.

**Rewards** (`AmountsAssumption`: amounts and limits are natural numbers, prices and quantities
positive). `TicketsArePaidFor` is not inductive: an open purchase commits later with the numbers
it read. What closes it is the lock on the giveaway's row, stated as an invariant: while a
purchase is open, its giveaway is as it was read and no other purchase of it is open
(`BuyersInv`). With `RowsInv`, `NumbersInv` (tickets are numbered without gaps), `CountsInv`
(a purchase owns as many as it paid for) and `RefundsInv` this makes `Inv`; the lemmas
`RowStep`, `MoneyStep`, `LifeStep`, `BeginStep`, `AbortStep`, `RefundStep` and `CommitStep` take
the actions by what they touch. `LimitsInv` adds the ranges that `TypeOK` speaks of. `DrawIsFinal`
follows from `Inv`: whoever holds the row of a drawn giveaway does not exist. `BalanceIsLedger`
needs in `MoneyInv` that the ledger books tickets for committed purchases only, so that every key a
commit, an award or a refund books is new, and that ledger and purchases are finite. How one
more entry, or a whole batch of refunds, changes the sum is shown from a smallest set of entries for which it would fail
(`PartsInduction`, `TotalGrows`, `RefundsAddUp`). `PrizesAreShared` follows from `DrawnInv`: what was
drawn stays one of the outcomes of the draw over the tickets as they are, since those no longer change.

**RewardTagChecks** (`TagsAssumption`). The strengthening is `LeasesInv`: a pass that was overtaken
(in `overruled`) holds no lease any more, and a pass looks for a real tag. Every step of a pass only
weakens what it holds (`PassStep`), and every step of a person takes the lease away.

**Parties** (`ConstantsAssumption`: players and positions are finite, a party has room for one;
`NoneAssumption`: no row is the absent one). `TypeInv` adds to the types what each step of a call
relies on: a call that removes has a target, a plan of the timer names two parties (`Formed`,
`TimersType`). On it rest, each inductive by itself, `RostersFit` (a roster is a finite set;
`EntryFits`, `ShrunkFits` and `UnionFits` say what may happen to it), `KickedStayOut`, and
`NobodyWaitsAtAMergedParty` with `LinksLead` (`LettersStay`: only a live party takes a new letter).
`CaptainLeads` is not inductive: a kick or a change of rank that began earlier could hit whoever has
become captain. What closes it is `CallsInv`: the player such a call is about is no captain, and is
still a member or kept out by a block. A merger plans only with parties that have no blocks against
each other's members (`Compatible`), so it makes nobody captain whom a call is about.
`QuietSteps` and `CallSteps` sort the actions once by what they write. The two action properties
follow from the invariants: only `CommitMerge` retires a party (`OnlyMergersRetire`), and it finds the
plan standing with the positions it has read. `MergesAreMutual` says so of every position that has not been
changed since, and that each is kept. The theorems hold for every number of players, positions and parties and
every roster size, where the runs take scopes of four players and three parties.

**MatchTransactions** (`HandlersAssumption`, `BestOfAssumption`, `RequestsAssumption`: no request is
called nobody). The handlers take the locks they take in the code: the advisory lock, the row lock or
none. The invariant `Exclusive` says that at most one decision holds each lock (`LocksExclude`) and
that whoever was not overtaken has read the games and the start that are stored, of a match that is
not completed: disputes and the deadline scan, which take no lock, change the status only, and a
replay finds nobody at the match (`ReplayExcludes`). `Counted` adds that a game under way is not among
those recorded, where each overtaken decision that commits (`late`) may record one more. So a completed match
is left alone by everybody but an overtaken decision (`FinalNext`), and `OneLockCountsOnce` says that with
one kind of lock there would be none: the mixture of locks, and nothing else about the
handlers, is what makes one report two games.

**TournamentEntries** (`ConstantsAssumption`; `MarkersAssumption`: the marks of a roster, such as
"unassigned", are no positions; `RosterSizeAssumption`: a full roster has at least three players, as
the five of Dota do, so that the pair the matcher puts together is not complete). The actions
are sorted once: `AllSteps` shows that each changes no roster (`Quiet`) or is one of six (a player
joins, a roster is reshaped, an entry is created, registered or withdrawn, or two are merged), and says what
`syncEntryRegistrationStatus` leaves behind (`SyncEffect`). Over `TypeInv` the three invariants are
inductive by themselves. `ConsentIsGiven` also needs that an entry nobody has made holds
no consent (`FreshConsents`): otherwise a fresh squad could revive one. The action properties
follow step by step; `MatcherTakesSearchers` holds for any number of instances because a ticket carries
the generation of the search it was read from, which only grows.

**Brackets.** `Bracket_proofs` is about the operators of `Bracket`, for 2 to 256 entries
(`MaxRounds`) and both formats. `Nodes` is a recursive function over layers; `SomeBuilt` and
`NodesAreBuilt` show that it has a value, and `NodesRule` then describes every node by its row and the
nodes that feed it, which is all that later proofs use. `SeedOrder` places every seed once
(`SeedOrderPlacesAll`). Induction over the nodes of a bracket is done from a smallest
counterexample (`NodeInduction`), since the library's induction theorems cannot be used here. On this rest:

* `NodesAreKept`: results that are added change no node that had its sides; a row that agrees with
  its node still does;
* `NodesAreRenamed`: if a seed changes hands and neither of the two has a result, the bracket
  is the same with one name for the other;
* `OneThread` and `OneFrontier`: from its slot on, a team is at one node after another and
  leaves each once, so at most one node waits for it. This is where the crossing of the lower
  bracket and its byes come in: no feed is used twice (`OneTaker`);
* `NeverStuckBracket`: if no node waits for its match, everything is resolved (`IdleResolves`), and if
  the final and the third-place match are, everything is (`CompleteResolves`, from `FedOn`: each
  other node feeds a later one);
* `SeriesPlayed`: when everything is resolved (`Played`), the series of the main bracket and the teams
  that have not won it are one to one, by the loser of each (`MainSeries`); in double elimination
  so are the remaining series and the teams that have not won the grand final (`OtherSeries`). `LosersLeave`
  (who has lost is only seen after the main bracket) makes this injective, `AllButOneLose` and
  `Climbing` (who always goes on reaches the last node) onto. `PodiumPlaces` follows the losers of the
  last rounds: there is a third place exactly for three teams or more, byes in the semifinals included;
* `SeedsApart`, `MainOrigins`, `SecondSides`: a node of round r unites a block of 2^r slots, and in the
  second half of it no seed is among the first 2^(rounds - r). The order of a larger bracket is that of
  the smaller one with a worse seed after each (`NextOrder`), so this goes from round to round;
* `NoRematch`: the two blocks from which a node of the second lower round draws its teams differ,
  because the drop-ins are crossed;
* `FavouritesPodium`: when the better seed wins every series, one of the first 2^(rounds - r) seeds is
  at a first side up to round r, and wins (`BestWin`, `BestReach`). The best two so meet in the
  last node of the main bracket and in the grand final; the third can only lose to one of them, and
  in double elimination these are not seen before the lower final (`FinalistsWait`).

**TournamentBracket** (`RankingAssumption`: no two entries are created at the same moment;
`EntriesAssumption`: entries are finitely many, and none is the empty side). `RowsMatchNodes` is not inductive: a confirmation under way
has read older rows and inserts what followed from them. The invariant `Inv` says in `BracketFits` that
besides the rows, what each open confirmation will insert are nodes of the bracket its own result
makes, with their sides; every other step only adds results (`FitLater`) or renames a seed that has none, and so keeps that
true. `SeedsAreRegistered` says that the seeds are exactly the registered teams, through every
replacement, and `Phases` that a bracket exists from the start on. Each action has its lemma, which
also shows `SettledStay`. What is proved is `Sound`: `Inv` and `DecidingFits` (an open decision is about a match
with its sides) until a decision writes a match that a managed confirmation has settled since it was read
(`Intact`). Up to then every decision commits on a match that is still open (`DecisionFits`), and the theorems
say that this one step, which the code allows and `match_overwritten` reaches, is all that can break the
bracket. `OneUnresolvedSeries` and `EliminatedTeamsStopPlaying` follow from `OneThread`.
The refinement maps the start to `Freeze`, a settled match to `Settle`, a replacement to `HandOver` and the
rest to stutters; since `BracketResults` has its own instance of the builder, `SameBuilder` shows
the two to be equal. `NeverStuck` adds `SeedsFill`, that more than half of the slots are taken, which is what
the start computes the size for. `CompletedIsDecided` rests on `Phases`, which says of a completed tournament
that its bracket is complete (`CompletedIsPlayed`): the status is only written with the result that
completes the bracket or by a scan that has found it complete, and no replacement or replay reaches it
afterwards. The three parts of `SeedingWorks` are shown of the bracket that the results alone
determine (`SettledBracket`), whose sides are those of the rows. The theorems hold for every set of entries, while the run explores up
to six with the concurrency and eight for the results.

Only model-checked:

* liveness (`AdvancementRecovers`, `StalledStagesEnd`, `CancelledPurchasesReturn`,
  `RequestsSettle`), since the prover does not do fairness and `ENABLED`;
* the violation runs, of course.

Types of `TournamentMatch` and `RewardTagChecks` are proved, and no longer checked by a run.

## 7. What the runs found

Each has a run that reaches it; the trace is TLC's.

1. **A cancelled tournament keeps a scheduled match** (`cancellation_race`,
   `tournaments/tournaments.service.ts:1544`). `confirmManagedStage(RESULT)` advances the bracket
   under the match row lock only. While it inserts the next match, the cancelling `UPDATE` waits
   for the row it locks and does not see the inserted one. `docs/adr/0004` promises that
   cancellation cancels the unfinished matches and that advancement holds the tournament lock.
2. **A completed match is rewritten** (`match_overwritten`, `tournaments.service.ts:2187`). An award
   and a player's confirmation hold the tournament's advisory lock, read the match by a plain SELECT
   and update it by id. `confirmManagedStage` holds the row only. A decision that reads the match
   before the managed one commits waits for the row and then writes what it decided over the completed
   match: another winner, or the next game of the series. The next series already exists, so a
   team may then have two open series, a beaten team one more, a row sides that its node no longer has,
   a completed tournament an open final (the trace), and a final won by a side its node has lost is never
   resolved. `Intact` marks where these begin, and the other properties of the bracket hold up to there.
   Since `findMatchForWorkflow` reads the match and its games in two statements, the two confirmations can
   also record one report as two games (`late` in `MatchTransactions`). `CONTEXT.md:31` says that
   completed matches and lineups are immutable.
3. **A confirmation erases a dispute** (`match_dispute_overruled`, `tournaments.service.ts:1926`).
   `confirmResult` checks the status and then updates by ID alone, while `disputeMatch` takes no
   lock; a dispute in between is overwritten by the result it disputes.
4. **A replayed match accepts a reserve** (`match_replacement`, `tournaments.service.ts:2017`).
   "Not started" is read from fields that a replay clears; `docs/adr/0007:17` says that a started
   match prevents substitution.
5. **The old tag verifies the new one** (`tag_changed`, `rewards/rewards.verification.ts:77`).
   A pass reads the settings and leases the rows later. A tag changed in between resets the row,
   which the pass then leases, and it compares the name with the tag it read before.

Read off the code, without a run of their own:

* A reschedule (`tournament-plans.service.ts:89-111`) and a submission of the lobby
  (`tournaments.service.ts:1694`) compute the deadline of the stage from a match they read earlier. A
  lobby step or another reschedule in between leaves a deadline before the start or short of the
  promised window (`crossed` in `TournamentMatch`).
* A position changed while two parties are being merged brings a player in at a position that the other
  captain does not look for (`game-parties.repository.ts:1860`, under no lock; `MergesAreMutual` names it).
* Double elimination ends after one grand final (`tournament-bracket.ts:206`, and its unit test
  says so), while `CONTEXT.md:50` still describes a reset final. `Bracket` follows the code.
* Editing the rules before the start rewrites what scheduled matches hold
  (`tournaments.service.ts:2707`), while `docs/adr/0002` line 8 speaks of a snapshot. `UpdateRules`
  follows the code.
* `registerTeam` (`tournaments.service.ts:2208`) enrols the players of a permanent team without
  ending their searches and applications, as `joinEntry` does. Each is refused when it is used.
* The application of a company stays pending when its captain changes
  (`tournaments.service.ts:574`): nobody can accept it, and the former captain's next application
  is answered as if it were made.
* Lowering `maxTeams` to the number of registered teams, or reopening a full tournament, leaves the
  registration open, while `docs/adr/0007` line 13 speaks of a registration that closes at its limit.
* `disbandParty` and `leaveParty` (`game-parties.service.ts:2220`, `:2184`) judge who owns the party, or
  that the owner is alone, and then delete it by its id: a merger or a join in between is deleted
  with it. The cleanup (`game-parties.repository.ts:2134`) likewise deletes the ids it has listed,
  even if a call under way has extended one of them. `Dissolve` and `FinishSweep` do the same.
* A kick or a departure under way while its party is retired finds no membership there and
  reports success; the player stays in the survivor (`Remove`).
* `refreshRecruitLookingAttributes` with a party that is gone withdraws the captain's card
  whatever party it is for (`game-parties.service.ts:3373`; `Refresh` follows it).
* Choosing a position closes the invitations to it as `DECLINED` (`game-parties.service.ts:2125`),
  after which the invited player counts as having refused the party (`MarkedDeclined`).

## 8. Not modelled, and why

In the plan (section 2): reward events, task submissions, notices and their delivery by the bot,
delivery marks of prizes, refresh sessions, spotlight credits.

Out of the plan: the bot's own queue, matcher and ready checks (a second implementation in Python
over SQLite, which reaches parties only through the calls modelled here) and Telegram party rooms
(state of an external service); contributions and entity merge.

Left out: voice rooms, match chat and Telegram calls (I/O at external services); reputation, tops,
ratings, reviews, entities, search, analytics and notifications (queries and single-row updates
with no control of their own); the web application and the extension (user interface); shared
packages (types and translations). That compatible parties meet in the end is not stated: it would
say no more than that the merge timer runs.

Within the modelled parts: the order in which a draw picks is any order (the random source is
external); a draw's payload, audit records and notices are not kept; a tournament's entries are
registered before `Init` of `TournamentBracket`, and `TournamentEntries` ends where it starts; one match is modelled on its own in `TournamentMatch`, so that the status of its
tournament moves freely there (`UpdateTournament`).
