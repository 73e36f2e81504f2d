--------------------------- MODULE TournamentMatch ---------------------------
(***************************************************************************)
(* The workflow of one tournament match (a best-of series), from its       *)
(* scheduling to its result: lobby, readiness of both sides, spectator     *)
(* admission, start, report, confirmation or dispute, moderator decisions, *)
(* rescheduling, replacement by a reserve, and the deadline scan           *)
(* (apps/api/src/modules/tournaments/tournaments.service.ts).  A handler   *)
(* that reads the match under the lock of its row, or writes on the        *)
(* condition of what it read, is one atomic action.  The two that compute  *)
(* a deadline from what they read and then write it whatever the match has *)
(* become are split: submitLobby, which takes no lock, and a reschedule,   *)
(* which takes the tournament's advisory lock alone.  Staff decisions write *)
(* every field of the lobby cycle, so that a lobby step they overtake is   *)
(* lost whole.  Decisions about results that share no lock are in          *)
(* MatchTransactions and in TournamentBracket.                             *)
(*                                                                         *)
(* Time is the time left until each timestamp of the match: 0 once it has  *)
(* passed, Off when it is null.  The windows are constants in any unit;    *)
(* a request takes no time on their scale.                                 *)
(* Rosters are taken as complete; Dota match IDs are left out.             *)
(***************************************************************************)
EXTENDS Integers, Sequences, FiniteSets

CONSTANTS
    Lineups,            \* tournament entries that may play this match
    NoLineup,           \* null
    BracketKind,        \* "MANUAL" or a node of an automatic bracket
    LobbyGrace,         \* LOBBY_SETUP_GRACE_MS
    ConfirmWindow,      \* LOBBY_CONFIRMATION_MS
    AdmissionWindow,    \* SPECTATOR_ADMISSION_MS
    ResultWindow,       \* MATCH_RESULT_CONFIRMATION_MS
    DurationLimit,      \* MATCH_DURATION_LIMIT_MS
    MaxDelay,           \* bound: how far ahead a match is (re)scheduled
    BestOfs             \* series formats

ASSUME LineupsAssumption == NoLineup \notin Lineups
ASSUME WindowsAssumption ==
    /\ LobbyGrace \in Nat \ {0} /\ ConfirmWindow \in Nat \ {0} /\ AdmissionWindow \in Nat \ {0}
    /\ ResultWindow \in Nat \ {0} /\ DurationLimit \in Nat \ {0} /\ MaxDelay \in Nat
ASSUME BestOfsAssumption == BestOfs \subseteq {1, 3, 5}

VARIABLES
    status,             \* DotaTournamentMatchStatus
    sides,              \* entryAId and entryBId
    bestOf,
    allowSpectators,
    lobby,              \* lobbyName and lobbyPassword are set
    ready,              \* sides whose captainReadyAt is set
    started,            \* startedAt is set
    gameOpen,           \* the current game has a row without a winner
    games,              \* winners of the recorded games, in order
    reporter,           \* side of resultReportedByUserId, or NoSide
    reported,           \* reportedWinnerEntryId
    winner,             \* winnerEntryId
    due,                \* time left until each of the match's timestamps
    tournament,         \* the tournament's status
    everStarted,        \* history: some game of the match has been started
    submitting,         \* the schedule a submitLobby has read, Off outside one
    rescheduling,       \* the stage and the admission a reschedule has read
    crossed             \* history: the deadline of the stage was computed from a
                        \* match that had changed by the time it was written

lobbyVars == <<allowSpectators, lobby, ready>>
resultVars == <<reporter, reported, winner>>
requests == <<submitting, rescheduling>>
vars == <<status, sides, bestOf, lobbyVars, started, gameOpen, games, resultVars, due,
          tournament, everStarted, requests, crossed>>

Sides == {"A", "B"}
NoSide == "none"
Opposite(side) == IF side = "A" THEN "B" ELSE "A"
Off == -1
Timers == {"scheduled", "lobby", "confirm", "admission", "result"}
Later(t, u) == IF t >= u THEN t ELSE u

Settled == {"COMPLETED", "CANCELLED"}
TimedStages == {"LOBBY_CONFIRMATION", "SPECTATOR_ADMISSION", "READY"}
LobbyStages == {"SCHEDULED"} \cup TimedStages
Statuses == LobbyStages \cup {"IN_PROGRESS", "RESULT_CONFIRMATION", "DISPUTED"} \cup Settled
\* A tournament whose registration is open stands for a draft, too.
TournamentStatuses == {"REGISTRATION_OPEN", "REGISTRATION_CLOSED", "IN_PROGRESS"} \cup Settled
Playing == {sides[s] : s \in Sides}

Wins(e) == Cardinality({i \in DOMAIN games : games[i] = e})
Needed == bestOf \div 2 + 1

NoReschedule == [stage |-> "NONE", admission |-> Off]

\* The tournament's advisory lock, which a reschedule holds from its read to
\* its write.
AdvisoryLockFree == rescheduling = NoReschedule

\* The timestamps of a match scheduled "at" from now.
FreshDeadlines(at) ==
    [[t \in Timers |-> Off] EXCEPT !["scheduled"] = at, !["lobby"] = at + LobbyGrace]

-----------------------------------------------------------------------------
\* createAdminMatch, or a ready node of reconcileLocked.
Init ==
    /\ status = "SCHEDULED"
    /\ sides \in [Sides -> Lineups] /\ sides["A"] # sides["B"]
    /\ bestOf \in BestOfs /\ allowSpectators \in BOOLEAN
    /\ lobby = FALSE /\ ready = {} /\ started = FALSE /\ gameOpen = FALSE /\ games = <<>>
    /\ reporter = NoSide /\ reported = NoLineup /\ winner = NoLineup
    /\ \E delay \in 0..MaxDelay : due = FreshDeadlines(delay)
    /\ tournament \in {"REGISTRATION_CLOSED", "IN_PROGRESS"}
    /\ everStarted = FALSE /\ submitting = Off /\ rescheduling = NoReschedule /\ crossed = FALSE

-----------------------------------------------------------------------------
\* Lobby stage

\* submitLobby, by the host captain: the match is read, and the deadline of the
\* confirmation is computed from the schedule as it was read.
MaySubmitLobby == status = "SCHEDULED" /\ due["lobby"] > 0
ReadForLobby ==
    /\ submitting = Off /\ MaySubmitLobby
    /\ submitting' = due["scheduled"]
    /\ UNCHANGED <<status, sides, bestOf, lobbyVars, started, gameOpen, games, resultVars, due,
                   tournament, everStarted, rescheduling, crossed>>

\* The write is conditional on the status and on the lobby's deadline only.
SubmitLobby ==
    /\ submitting # Off /\ MaySubmitLobby
    /\ status' = "LOBBY_CONFIRMATION" /\ lobby' = TRUE
    /\ due' = [due EXCEPT !["confirm"] = submitting + ConfirmWindow]
    /\ submitting' = Off /\ crossed' = (submitting # due["scheduled"])
    /\ UNCHANGED <<sides, bestOf, allowSpectators, ready, started, gameOpen, games, resultVars,
                   tournament, everStarted, rescheduling>>

RefuseLobby ==
    /\ submitting # Off /\ ~MaySubmitLobby
    /\ submitting' = Off
    /\ UNCHANGED <<status, sides, bestOf, lobbyVars, started, gameOpen, games, resultVars, due,
                   tournament, everStarted, rescheduling, crossed>>

\* submitManagedLobby: staff set or correct the lobby, which clears readiness.
SubmitManagedLobby ==
    /\ tournament \in {"REGISTRATION_CLOSED", "IN_PROGRESS"}
    /\ status \in LobbyStages
    /\ status' = "LOBBY_CONFIRMATION" /\ lobby' = TRUE /\ ready' = {}
    /\ allowSpectators' \in BOOLEAN
    /\ due' = [due EXCEPT !["confirm"] = due["scheduled"] + ConfirmWindow,
                          !["admission"] = Off, !["result"] = Off]
    /\ crossed' = FALSE
    /\ UNCHANGED <<sides, bestOf, started, gameOpen, games, resultVars, tournament, everStarted,
                   requests>>

\* The second confirmation opens the spectators' admission, or readiness.
Admitted == IF allowSpectators THEN AdmissionWindow ELSE Off
LobbyConfirmedBy(side) ==
    /\ status = "LOBBY_CONFIRMATION" /\ side \notin ready
    /\ ready' = ready \cup {side}
    /\ IF Opposite(side) \in ready
       THEN /\ status' = IF allowSpectators THEN "SPECTATOR_ADMISSION" ELSE "READY"
            /\ due' = [due EXCEPT
                         !["admission"] = Admitted,
                         !["confirm"] = Later(Later(Admitted, 0), due["scheduled"]) + LobbyGrace]
            /\ crossed' = FALSE
       ELSE UNCHANGED <<status, due, crossed>>
    /\ UNCHANGED <<sides, bestOf, allowSpectators, lobby, started, gameOpen, games, resultVars,
                   tournament, everStarted, requests>>

\* confirmLobby, by a captain in time, and confirmManagedStage(LOBBY), by staff
\* on a captain's behalf at any time.
ConfirmLobby(side) == due["confirm"] > 0 /\ LobbyConfirmedBy(side)
ConfirmManagedLobby(side) == LobbyConfirmedBy(side)

-----------------------------------------------------------------------------
\* Start

Started ==
    /\ AdvisoryLockFree
    /\ status \in {"READY", "SPECTATOR_ADMISSION"} /\ ready = Sides
    /\ status' = "IN_PROGRESS" /\ started' = TRUE /\ gameOpen' = TRUE /\ everStarted' = TRUE
    /\ crossed' = FALSE
    /\ due' = [due EXCEPT !["result"] = DurationLimit]
    /\ tournament' = IF tournament = "REGISTRATION_CLOSED" THEN "IN_PROGRESS" ELSE tournament
    /\ UNCHANGED <<sides, bestOf, lobbyVars, games, resultVars, requests>>

\* startMatch, by the host captain: not before the schedule, nor during the
\* admission, nor after the start deadline.
StartMatch ==
    /\ due["scheduled"] = 0 /\ due["confirm"] > 0 /\ due["admission"] \in {Off, 0}
    /\ Started

\* startManagedMatch, by staff.
StartManagedMatch ==
    /\ tournament \in {"REGISTRATION_CLOSED", "IN_PROGRESS"} /\ lobby
    /\ Started

-----------------------------------------------------------------------------
\* Result

\* submitResult, by a player of either side.
SubmitResult(side, e) ==
    /\ status = "IN_PROGRESS" /\ due["result"] > 0 /\ e \in Playing
    /\ status' = "RESULT_CONFIRMATION" /\ reporter' = side /\ reported' = e
    /\ due' = [due EXCEPT !["confirm"] = ResultWindow, !["result"] = ResultWindow]
    /\ UNCHANGED <<sides, bestOf, lobbyVars, started, gameOpen, games, winner, tournament,
                   everStarted, requests, crossed>>

\* Mutant: the start of the last game is not cleared.
FreshCycleStarted(at) ==
    /\ status' = "SCHEDULED" /\ lobby' = FALSE /\ ready' = {} /\ started' = started
    /\ reporter' = NoSide /\ reported' = NoLineup /\ winner' = NoLineup
    /\ due' = FreshDeadlines(at) /\ crossed' = FALSE

\* nextGameState(at): a fresh lobby cycle, scheduled "at" from now.
FreshCycle(at) ==
    /\ status' = "SCHEDULED" /\ lobby' = FALSE /\ ready' = {} /\ started' = FALSE
    /\ reporter' = NoSide /\ reported' = NoLineup /\ winner' = NoLineup
    /\ due' = FreshDeadlines(at) /\ crossed' = FALSE

\* Mutant: the series goes on until every game has been played.
RecordGamePlayAll(e) ==
    /\ e \in Playing /\ Len(games) < bestOf
    /\ games' = Append(games, e) /\ gameOpen' = FALSE
    /\ IF Len(games) + 1 = bestOf
       THEN /\ status' = "COMPLETED" /\ winner' = e
            /\ UNCHANGED <<lobby, ready, started, reporter, reported, due, crossed>>
       ELSE FreshCycle(0)

\* recordSeriesGame: the game's winner is recorded; the series is completed by
\* a majority and otherwise goes on with the next game.
RecordGame(e) ==
    /\ e \in Playing /\ Len(games) < bestOf
    /\ games' = Append(games, e) /\ gameOpen' = FALSE
    /\ IF Wins(e) + 1 >= Needed
       THEN /\ status' = "COMPLETED" /\ winner' = e
            /\ UNCHANGED <<lobby, ready, started, reporter, reported, due, crossed>>
       ELSE FreshCycle(0)

Reported == status = "RESULT_CONFIRMATION" /\ reporter # NoSide /\ reported # NoLineup

\* confirmResult, by a player of the opposing side in time.
ConfirmResult ==
    /\ AdvisoryLockFree
    /\ Reported /\ due["result"] > 0
    /\ RecordGame(reported)
    /\ UNCHANGED <<sides, bestOf, allowSpectators, tournament, everStarted, requests>>

\* confirmManagedStage(RESULT), by staff for the opposing side.
ConfirmManagedResult ==
    /\ Reported
    /\ RecordGame(reported)
    /\ UNCHANGED <<sides, bestOf, allowSpectators, tournament, everStarted, requests>>

\* disputeMatch, by a player: lobby details, or the other side's report.
DisputeMatch(side) ==
    /\ \/ status \in TimedStages
       \/ status = "RESULT_CONFIRMATION" /\ side # reporter
    /\ status' = "DISPUTED" /\ crossed' = FALSE
    /\ UNCHANGED <<sides, bestOf, lobbyVars, started, gameOpen, games, resultVars, due, tournament,
                   everStarted, requests>>

-----------------------------------------------------------------------------
\* Staff decisions: resolveAdminMatch

Decidable(live) == status = "DISPUTED" \/ (live /\ status \in {"IN_PROGRESS", "RESULT_CONFIRMATION"})

\* ENTRY_A, ENTRY_B: the current game is awarded.
AwardGame(side) ==
    /\ AdvisoryLockFree /\ Decidable(TRUE)
    /\ RecordGame(sides[side])
    /\ UNCHANGED <<sides, bestOf, allowSpectators, tournament, everStarted, requests>>

\* ENTRY_A_SERIES, ENTRY_B_SERIES: a technical victory of an unfinished match.
AwardSeries(side) ==
    /\ AdvisoryLockFree /\ status \notin Settled
    /\ status' = "COMPLETED" /\ winner' = sides[side] /\ crossed' = FALSE
    /\ UNCHANGED <<sides, bestOf, lobbyVars, started, gameOpen, games, reporter, reported, due,
                   tournament, everStarted, requests>>

\* REPLAY: the unfinished game's row is deleted, recorded games stay.
Replay ==
    /\ AdvisoryLockFree /\ Decidable(FALSE)
    /\ gameOpen' = FALSE
    /\ FreshCycle(IF games = <<>> /\ ~gameOpen THEN due["scheduled"] ELSE 0)
    /\ UNCHANGED <<sides, bestOf, allowSpectators, games, tournament, everStarted, requests>>

\* CANCEL, for manually scheduled matches only.
CancelMatch ==
    /\ AdvisoryLockFree /\ Decidable(FALSE) /\ BracketKind = "MANUAL"
    /\ status' = "CANCELLED" /\ crossed' = FALSE
    /\ UNCHANGED <<sides, bestOf, lobbyVars, started, gameOpen, games, resultVars, due, tournament,
                   everStarted, requests>>

\* update(status): a finished tournament is not reopened; a bracket that was
\* generated can only be cancelled, which cancels its unfinished matches.
UpdateTournament(next) ==
    /\ AdvisoryLockFree /\ tournament \notin Settled
    /\ BracketKind # "MANUAL" => next = "CANCELLED"
    /\ tournament' = next
    /\ status' = IF BracketKind # "MANUAL" /\ status \notin Settled THEN "CANCELLED" ELSE status
    /\ crossed' = (crossed /\ status' \in TimedStages)
    /\ UNCHANGED <<sides, bestOf, lobbyVars, started, gameOpen, games, resultVars, due, everStarted,
                   requests>>

\* update(allowSpectators): before the tournament starts, matches that are
\* still SCHEDULED take over its new settings.
UpdateRules(spectators) ==
    /\ AdvisoryLockFree
    /\ tournament \in {"REGISTRATION_OPEN", "REGISTRATION_CLOSED"} /\ BracketKind = "MANUAL"
    /\ status = "SCHEDULED"
    /\ allowSpectators' = spectators
    /\ UNCHANGED <<status, sides, bestOf, lobby, ready, started, gameOpen, games, resultVars, due,
                   tournament, everStarted, requests, crossed>>

Reserves == Lineups \ Playing

\* replaceMatchSideWithReserve: the match has not started and has no games.
Untouched == ~started /\ games = <<>> /\ ~gameOpen
ReplaceSide(side, reserve) ==
    /\ AdvisoryLockFree
    /\ tournament \in {"REGISTRATION_CLOSED", "IN_PROGRESS"}
    /\ status \in {"SCHEDULED", "DISPUTED"} /\ Untouched /\ due["scheduled"] = 0
    /\ reserve \in Reserves
    /\ sides' = [sides EXCEPT ![side] = reserve]
    /\ FreshCycle(0)
    /\ UNCHANGED <<bestOf, allowSpectators, gameOpen, games, tournament, everStarted, requests>>

\* apply(scheduledAt), its read: the match has not started.
Reschedulable == status \in LobbyStages \cup {"DISPUTED"} /\ ~started /\ ~gameOpen
BeginReschedule ==
    /\ AdvisoryLockFree /\ tournament \notin Settled /\ Reschedulable
    /\ rescheduling' = [stage |-> status, admission |-> due["admission"]]
    /\ UNCHANGED <<status, sides, bestOf, lobbyVars, started, gameOpen, games, resultVars, due,
                   tournament, everStarted, submitting, crossed>>

\* Mutant: the deadline of the stage stays.
StageDeadlineKept(at, stage, admission) == due["confirm"]

\* The deadline of a stage of a match scheduled "at" from now.
StageDeadline(at, stage, admission) ==
    IF stage = "LOBBY_CONFIRMATION" THEN at + ConfirmWindow
    ELSE IF stage \in {"READY", "SPECTATOR_ADMISSION"}
    THEN Later(at, Later(admission, 0)) + LobbyGrace
    ELSE due["confirm"]

\* Its write, by the match's identity alone: the match is moved, and the deadline
\* of the stage that was read is armed again.
Reschedule(at) ==
    LET read == rescheduling IN
    /\ ~AdvisoryLockFree
    /\ due' = [due EXCEPT !["scheduled"] = at, !["lobby"] = at + LobbyGrace,
                          !["confirm"] = StageDeadline(at, read.stage, read.admission)]
    /\ rescheduling' = NoReschedule
    /\ crossed' = (status \in TimedStages
                    /\ <<read.stage, read.admission>> # <<status, due["admission"]>>)
    /\ UNCHANGED <<status, sides, bestOf, lobbyVars, started, gameOpen, games, resultVars,
                   tournament, everStarted, submitting>>

\* Mutant: the format may change between the games of a series.
FormatOpenBetweenGames == ~started /\ ~gameOpen

\* apply(bestOf): before the first game starts.
FormatOpen == ~started /\ games = <<>> /\ ~gameOpen
ChangeFormat(format) ==
    /\ AdvisoryLockFree /\ tournament \notin Settled /\ status \notin Settled
    /\ format # bestOf /\ FormatOpen
    /\ bestOf' = format
    /\ UNCHANGED <<status, sides, lobbyVars, started, gameOpen, games, resultVars, due, tournament,
                   everStarted, requests, crossed>>

-----------------------------------------------------------------------------
\* Deadlines: expireOverdueMatches and the transition of getParticipantMatch

AdmissionEnds ==
    /\ status = "SPECTATOR_ADMISSION" /\ due["admission"] = 0
    /\ status' = "READY"
    /\ UNCHANGED <<sides, bestOf, lobbyVars, started, gameOpen, games, resultVars, due, tournament,
                   everStarted, requests, crossed>>

\* Mutant: a running or reported game has no deadline.
OverdueLobbyOnly ==
    \/ status = "SCHEDULED" /\ due["lobby"] = 0
    \/ status \in {"LOBBY_CONFIRMATION", "READY", "SPECTATOR_ADMISSION"} /\ due["confirm"] = 0

Overdue ==
    \/ status = "SCHEDULED" /\ due["lobby"] = 0
    \/ status \in {"LOBBY_CONFIRMATION", "READY", "SPECTATOR_ADMISSION"} /\ due["confirm"] = 0
    \/ status \in {"IN_PROGRESS", "RESULT_CONFIRMATION"} /\ due["result"] = 0
Expire ==
    /\ Overdue
    /\ status' = "DISPUTED" /\ crossed' = FALSE
    /\ UNCHANGED <<sides, bestOf, lobbyVars, started, gameOpen, games, resultVars, due, tournament,
                   everStarted, requests>>

Tick ==
    /\ submitting = Off /\ AdvisoryLockFree
    /\ due' = [t \in Timers |-> IF due[t] > 0 THEN due[t] - 1 ELSE due[t]]
    /\ UNCHANGED <<status, sides, bestOf, lobbyVars, started, gameOpen, games, resultVars, tournament,
                   everStarted, requests, crossed>>

-----------------------------------------------------------------------------
Next ==
    \/ ReadForLobby \/ SubmitLobby \/ RefuseLobby \/ SubmitManagedLobby
    \/ \E side \in Sides : ConfirmLobby(side) \/ ConfirmManagedLobby(side)
    \/ StartMatch \/ StartManagedMatch
    \/ \E side \in Sides, e \in Lineups : SubmitResult(side, e)
    \/ ConfirmResult \/ ConfirmManagedResult
    \/ \E side \in Sides : DisputeMatch(side) \/ AwardGame(side) \/ AwardSeries(side)
    \/ Replay \/ CancelMatch
    \/ \E next \in TournamentStatuses : UpdateTournament(next)
    \/ \E spectators \in BOOLEAN : UpdateRules(spectators)
    \/ \E side \in Sides, e \in Lineups : ReplaceSide(side, e)
    \/ BeginReschedule \/ \E at \in 0..MaxDelay : Reschedule(at)
    \/ \E format \in BestOfs : ChangeFormat(format)
    \/ AdmissionEnds \/ Expire \/ Tick

Spec == Init /\ [][Next]_vars

\* Time passes whatever people do, a request that has read the match finishes,
\* and the scan runs every MATCH_TIMEOUT_SCAN_MS; people may not act.
FairSpec ==
    /\ Spec
    /\ SF_vars(Tick) /\ WF_vars(SubmitLobby \/ RefuseLobby) /\ WF_vars(\E at \in 0..MaxDelay : Reschedule(at))
    /\ WF_vars(AdmissionEnds) /\ WF_vars(Expire)

-----------------------------------------------------------------------------
\* Properties

RequestsTyped ==
    /\ submitting \in Nat \cup {Off}
    /\ rescheduling \in [stage : Statuses \cup {"NONE"}, admission : Nat \cup {Off}]

\* Every variable has its type.
TypeOK ==
    /\ status \in Statuses
    /\ sides \in [Sides -> Lineups] /\ sides["A"] # sides["B"]
    /\ bestOf \in BestOfs /\ allowSpectators \in BOOLEAN
    /\ lobby \in BOOLEAN /\ ready \in SUBSET Sides
    /\ started \in BOOLEAN /\ gameOpen \in BOOLEAN /\ games \in Seq(Lineups)
    /\ reporter \in Sides \cup {NoSide} /\ reported \in Lineups \cup {NoLineup}
    /\ winner \in Lineups \cup {NoLineup}
    /\ due \in [Timers -> Nat \cup {Off}] /\ due["scheduled"] # Off /\ due["lobby"] # Off
    /\ tournament \in TournamentStatuses
    /\ everStarted \in BOOLEAN /\ crossed \in BOOLEAN
    /\ RequestsTyped

\* A game is played or reported only in a lobby both sides confirmed, under a
\* running result deadline; a reported winner is one of the two lineups.  No
\* correction of the lobby, replay or replacement leaves half of it behind.
GameIsSupported ==
    /\ status \in {"LOBBY_CONFIRMATION", "READY", "SPECTATOR_ADMISSION", "IN_PROGRESS",
                    "RESULT_CONFIRMATION"} => lobby
    /\ status \in {"READY", "SPECTATOR_ADMISSION", "IN_PROGRESS", "RESULT_CONFIRMATION"} =>
         ready = Sides
    /\ status \in {"IN_PROGRESS", "RESULT_CONFIRMATION"} =>
         started /\ gameOpen /\ due["result"] # Off
    /\ status = "RESULT_CONFIRMATION" => reporter # NoSide /\ reported \in Playing
    /\ status \in LobbyStages => ~started /\ ~gameOpen

\* A series ends exactly when an entry has its majority: recorded games are the
\* lineups' own, nobody reaches the majority in an unfinished series, and a
\* technical result never goes against a majority.
MajorityDecides ==
    /\ \A i \in DOMAIN games : games[i] \in Playing
    /\ \A e \in Playing : Wins(e) >= Needed => status = "COMPLETED" /\ winner = e
    /\ status = "COMPLETED" => winner \in Playing

\* No deadline disputes a match before its scheduled time, and both the lobby
\* confirmation and the start keep their full window after that time and after
\* the spectators' admission (adr/0002, "reserves a separate 15-minute start
\* deadline after admission"), through reschedules, corrections of the lobby and
\* replays.  The one exception is a stage whose deadline a reschedule or a lobby
\* submission computed from a match that another request had changed before it
\* was written; the next deadline armed from the match as it is ends it.
DeadlinesLeaveTime ==
    /\ due["scheduled"] > 0 => due["lobby"] >= due["scheduled"] + LobbyGrace
    /\ status \in TimedStages => due["confirm"] # Off
    /\ status = "SPECTATOR_ADMISSION" => due["admission"] # Off
    /\ ~crossed =>
         /\ status = "LOBBY_CONFIRMATION" /\ due["scheduled"] > 0 =>
              due["confirm"] >= due["scheduled"] + ConfirmWindow
         /\ status \in {"READY", "SPECTATOR_ADMISSION"} /\ due["scheduled"] > 0 =>
              due["confirm"] >= due["scheduled"] + LobbyGrace
         /\ status = "SPECTATOR_ADMISSION" /\ due["admission"] > 0 =>
              due["confirm"] >= due["admission"] + LobbyGrace

\* "Replaying an unconfirmed game preserves results of earlier confirmed games
\* in the series" (CONTEXT.md): recorded games are never changed or removed, and
\* from the first one on the two lineups and the format stay.
KeepsResults ==
    /\ Len(games') >= Len(games) /\ \A i \in DOMAIN games : games'[i] = games[i]
    /\ games # <<>> => sides' = sides /\ bestOf' = bestOf
ResultsArePermanent == [][KeepsResults]_vars

\* Deadlines move stalled matches on (adr/0002): without any action of players
\* or staff a running or reported game, and an admission, do not last forever.
StalledStagesEnd ==
    /\ status = "IN_PROGRESS" ~> status # "IN_PROGRESS"
    /\ status = "RESULT_CONFIRMATION" ~> status # "RESULT_CONFIRMATION"
    /\ status = "SPECTATOR_ADMISSION" ~> status # "SPECTATOR_ADMISSION"

\* adr/0007: "A started match, prior match result, or previously scheduled match
\* prevents substitution, preserving bracket history."
StartedMatchKeepsLineups == [][everStarted => sides' = sides]_vars
=============================================================================
