-------------------------- MODULE MatchTransactions --------------------------
(***************************************************************************)
(* The decisions about one series as the database transactions they are    *)
(* (apps/api/src/modules/tournaments/tournaments.service.ts).              *)
(*                                                                         *)
(* Each decision locks something, reads the match row, reads its game rows *)
(* with a further statement (READ COMMITTED: each statement sees what was  *)
(* committed before it) and writes both rows from what it read, without    *)
(* looking at the status again.  The locks differ:                         *)
(*   confirmResult, resolveAdminMatch: the tournament advisory lock;       *)
(*   confirmManagedStage(RESULT):      the match row only;                 *)
(*   submitResult, disputeMatch, the deadline scan: none, but their single *)
(*   UPDATE repeats the condition on the status.                           *)
(* So an advisory-locked decision that has read the row can be overtaken   *)
(* by a managed confirmation, and its UPDATE, which waits for the row,     *)
(* then goes through by id.  "overtaken" remembers it for the properties.  *)
(* A transaction may be rolled back at any time before its commit (client  *)
(* timeout, deadlock victim, crash).  A game and its lobby take minutes, a *)
(* transaction seconds: a new game starts only when none is open.          *)
(***************************************************************************)
EXTENDS Integers, FiniteSets

CONSTANTS
    Requests,           \* requests served at the same time
    Handlers,           \* decisions taken: a subset of Decisions
    Scan,               \* the deadline scan may find the match overdue
    BestOf

Decisions == {"confirm", "managed", "award", "series"}
ASSUME HandlersAssumption == Handlers \subseteq Decisions
ASSUME ScanAssumption == Scan \in BOOLEAN
ASSUME BestOfAssumption == BestOf \in {1, 3, 5}

VARIABLES
    match,              \* the match row
    games,              \* the game rows, by number
    open,               \* the open transactions
    played,             \* history: games started and not replayed, or awarded before their start
    late                \* history: decisions committed although they had been overtaken

vars == <<match, games, open, played, late>>

Sides == {"A", "B"}
Opposite(side) == IF side = "A" THEN "B" ELSE "A"
Nobody == "nobody"
ASSUME RequestsAssumption == Nobody \notin Requests
Absent == "absent"      \* no such row
Undecided == "undecided"
Numbers == 1..BestOf

Live == {"IN_PROGRESS", "RESULT_CONFIRMATION"}
Unfinished == {"SCHEDULED", "DISPUTED"} \cup Live
FreshMatch == [status |-> "SCHEDULED", started |-> FALSE, reporter |-> Nobody, reported |-> Nobody,
               winner |-> Nobody]
Recorded(rows) == {n \in Numbers : rows[n] \in Sides}
Score(rows, side) == Cardinality({n \in Numbers : rows[n] = side})
Needed == BestOf \div 2 + 1

\* Mutants: confirmResult takes no lock; the managed confirmation reads without FOR UPDATE.
AdvisoryLockedForStaff(r) == open[r].decision \in {"award", "series"}
NeverRowLocked(r) == FALSE

\* Who excludes whom.
AdvisoryLocked(r) == open[r].decision \in {"confirm", "award", "series"}
RowLocked(r) == open[r].decision = "managed"
AdvisoryFree == \A r \in DOMAIN open : ~AdvisoryLocked(r)
RowFree(r) == \A s \in DOMAIN open \ {r} : ~RowLocked(s)

Init == match = FreshMatch /\ games = [n \in Numbers |-> Absent] /\ open = <<>> /\ played = 0 /\ late = 0

-----------------------------------------------------------------------------
\* Lobby and start (startMatch), with no decision open.
StartGame ==
    /\ open = <<>> /\ match.status = "SCHEDULED"
    /\ match' = [match EXCEPT !.status = "IN_PROGRESS", !.started = TRUE]
    /\ games' = [games EXCEPT ![Cardinality(Recorded(games)) + 1] = Undecided]
    /\ played' = played + 1
    /\ UNCHANGED <<open, late>>

\* submitResult: one conditional UPDATE.
SubmitResult(side, e) ==
    /\ match.status = "IN_PROGRESS" /\ RowFree(Nobody)
    /\ match' = [match EXCEPT !.status = "RESULT_CONFIRMATION", !.reporter = side, !.reported = e]
    /\ UNCHANGED <<games, open, played, late>>

\* disputeMatch, by the side that did not report.
DisputeMatch(side) ==
    /\ match.status = "RESULT_CONFIRMATION" /\ side # match.reporter /\ RowFree(Nobody)
    /\ match' = [match EXCEPT !.status = "DISPUTED"]
    /\ UNCHANGED <<games, open, played, late>>

\* expireOverdueMatches.
Expire ==
    /\ Scan /\ match.status \in Unfinished \ {"DISPUTED"} /\ RowFree(Nobody)
    /\ match' = [match EXCEPT !.status = "DISPUTED"]
    /\ UNCHANGED <<games, open, played, late>>

\* resolveAdminMatch REPLAY: nobody else may touch a disputed match.
Replay ==
    /\ AdvisoryFree /\ match.status = "DISPUTED" /\ RowFree(Nobody)
    /\ match' = FreshMatch
    /\ games' = [n \in Numbers |-> IF games[n] \in Sides THEN games[n] ELSE Absent]
    /\ played' = IF match.started THEN played - 1 ELSE played
    /\ UNCHANGED <<open, late>>

-----------------------------------------------------------------------------
\* Decisions

\* The match row each decision needs, and the winner it stands for.
Allows(decision, row) ==
    CASE decision \in {"confirm", "managed"} -> row.status = "RESULT_CONFIRMATION"
      [] decision = "award" -> row.status = "DISPUTED" \/ row.status \in Live
      [] decision = "series" -> row.status \in Unfinished
Winners(decision, row) == IF decision \in {"confirm", "managed"} THEN {row.reported} ELSE Sides

\* The locks are taken and the match row is read and checked.
Begin(r, decision) ==
    /\ r \notin DOMAIN open
    /\ IF decision = "managed" THEN RowFree(r) ELSE AdvisoryFree
    /\ Allows(decision, match)
    /\ \E e \in Winners(decision, match) :
         open' = [s \in DOMAIN open \cup {r} |->
                    IF s = r THEN [decision |-> decision, winner |-> e, started |-> match.started,
                                   read |-> FALSE, rows |-> games, overtaken |-> FALSE]
                    ELSE open[s]]
    /\ UNCHANGED <<match, games, played, late>>

\* The game rows are read.
ReadGames(r) ==
    /\ ~open[r].read
    /\ open' = [open EXCEPT ![r].read = TRUE, ![r].rows = games]
    /\ UNCHANGED <<match, games, played, late>>

Close(r) == open' = [s \in DOMAIN open \ {r} |-> open[s]]

\* A managed confirmation has committed since the row was read.
Overtaken(r) == open[r].decision # "managed" /\ open[r].overtaken

\* The end of a commit: what is open in the meantime has been overtaken by a managed one.
Committed(r) ==
    /\ open' = [s \in DOMAIN open \ {r} |-> [open[s] EXCEPT !.overtaken = @ \/ open[r].decision = "managed"]]
    /\ late' = IF Overtaken(r) THEN late + 1 ELSE late

\* recordSeriesGame and the commit.
CommitGame(r) ==
    LET rows == open[r].rows
        e == open[r].winner
        number == Cardinality(Recorded(rows)) + 1
    IN  /\ open[r].decision # "series" /\ open[r].read /\ RowFree(r)
        /\ number <= BestOf
        /\ games' = [games EXCEPT ![number] = e]
        /\ match' = IF Score(rows, e) + 1 >= Needed \/ Score(rows, Opposite(e)) >= Needed
                    THEN [match EXCEPT !.status = "COMPLETED", !.winner = e]
                    ELSE FreshMatch
        /\ played' = IF open[r].started THEN played ELSE played + 1
        /\ Committed(r)

\* ENTRY_A_SERIES and ENTRY_B_SERIES.
CommitSeries(r) ==
    /\ open[r].decision = "series" /\ open[r].read /\ RowFree(r)
    /\ match' = [match EXCEPT !.status = "COMPLETED", !.winner = open[r].winner]
    /\ Committed(r) /\ UNCHANGED <<games, played>>

\* Too many games, a timeout, a deadlock: everything is undone.
Abort(r) == Close(r) /\ UNCHANGED <<match, games, played, late>>

Next ==
    \/ StartGame \/ Expire \/ Replay
    \/ \E side \in Sides, e \in Sides : SubmitResult(side, e)
    \/ \E side \in Sides : DisputeMatch(side)
    \/ \E r \in Requests, decision \in Handlers : Begin(r, decision)
    \/ \E r \in DOMAIN open : ReadGames(r) \/ CommitGame(r) \/ CommitSeries(r) \/ Abort(r)

Spec == Init /\ [][Next]_vars

-----------------------------------------------------------------------------
\* Properties

\* "Games retain independent [...] confirmed results" (adr/0006): however many
\* people decide a game at the same time, it is recorded once, and once more
\* only for each decision that was overtaken by a managed confirmation and
\* committed all the same.
EveryGameCountsOnce == Cardinality(Recorded(games)) <= played + late

\* "Completed matches and lineups are immutable" (CONTEXT.md): the bracket has
\* already advanced on the result.  Nothing touches a completed match and its
\* games but the commit of a decision that a managed confirmation overtook.
OnlyOvertakenDecisionsRewrite ==
    [][match.status = "COMPLETED" /\ <<match, games>>' # <<match, games>> =>
          \E r \in DOMAIN open : Overtaken(r) /\ (CommitGame(r) \/ CommitSeries(r))]_vars

\* "A player on the opposing lineup confirms it or opens a dispute.  Only an
\* administrator can resolve a dispute" (adr/0002): once the dispute is
\* recorded, a player's confirmation no longer settles the game.
DisputesAreForStaff ==
    [][\A r \in DOMAIN open : match.status = "DISPUTED" /\ open[r].decision = "confirm" =>
          ~CommitGame(r)]_vars
=============================================================================
