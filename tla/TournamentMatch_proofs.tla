------------------------ MODULE TournamentMatch_proofs ------------------------
(***************************************************************************)
(* Proofs that every behaviour of TournamentMatch, for any lineups, windows *)
(* and formats, is type correct, supports each played game, is decided by  *)
(* majorities only, leaves the documented time, and keeps recorded games.  *)
(***************************************************************************)
EXTENDS TournamentMatch, FiniteSetTheorems, TLAPS

\* A fresh lobby cycle sets the fields of one game to values of their types.
LEMMA FreshCycleType ==
    ASSUME NEW at \in Nat, FreshCycle(at)
    PROVE  /\ status' = "SCHEDULED" /\ lobby' = FALSE /\ ready' = {} /\ started' = FALSE
           /\ reporter' = NoSide /\ reported' = NoLineup /\ winner' = NoLineup
           /\ due' \in [Timers -> Nat \cup {Off}]
           /\ due'["scheduled"] = at /\ due'["lobby"] = at + LobbyGrace
           /\ due'["confirm"] = Off /\ due'["admission"] = Off /\ due'["result"] = Off
           /\ crossed' = FALSE
<1>1. at + LobbyGrace \in Nat
  BY WindowsAssumption
<1> QED
  BY <1>1 DEF FreshCycle, FreshDeadlines, Timers

\* Recording a game appends its winner to the recorded games and moves the
\* match to COMPLETED or to a fresh cycle.
LEMMA RecordGameType ==
    ASSUME TypeOK, NEW e, RecordGame(e)
    PROVE  /\ status' \in {"COMPLETED", "SCHEDULED"} /\ e \in Playing /\ e \in Lineups
           /\ games' = Append(games, e) /\ games' \in Seq(Lineups) /\ gameOpen' = FALSE
           /\ lobby' \in BOOLEAN /\ ready' \in SUBSET Sides /\ started' \in BOOLEAN
           /\ reporter' \in Sides \cup {NoSide} /\ reported' \in Lineups \cup {NoLineup}
           /\ winner' \in Lineups \cup {NoLineup}
           /\ due' \in [Timers -> Nat \cup {Off}] /\ crossed' \in BOOLEAN
           /\ due'["scheduled"] # Off /\ due'["lobby"] # Off
<1>1. e \in Playing /\ e \in Lineups /\ games' = Append(games, e) /\ gameOpen' = FALSE
  BY DEF RecordGame, TypeOK, Playing
<1>2. games' \in Seq(Lineups)
  BY <1>1 DEF TypeOK
<1>3. CASE Wins(e) + 1 >= Needed
  BY <1>1, <1>2, <1>3 DEF RecordGame, TypeOK
<1>4. CASE ~(Wins(e) + 1 >= Needed)
  <2>1. FreshCycle(0)
    BY <1>4 DEF RecordGame
  <2>2. 0 + LobbyGrace # Off /\ 0 # Off /\ 0 \in Nat
    BY WindowsAssumption DEF Off
  <2> QED
    BY <2>1, <2>2, <1>1, <1>2, FreshCycleType DEF Sides
<1> QED
  BY <1>3, <1>4

\* The initial states have their types.
LEMMA TypeInit == Init => TypeOK
<1> USE LineupsAssumption, WindowsAssumption, BestOfsAssumption
<1> SUFFICES ASSUME Init PROVE TypeOK
  OBVIOUS
<1>1. PICK delay \in 0..MaxDelay : due = FreshDeadlines(delay)
  BY DEF Init
<1>2. delay + LobbyGrace \in Nat /\ delay \in Nat
  OBVIOUS
<1>3. due \in [Timers -> Nat \cup {Off}] /\ due["scheduled"] # Off /\ due["lobby"] # Off
  BY <1>1, <1>2 DEF FreshDeadlines, Timers, Off
<1>4. /\ status \in Statuses /\ games \in Seq(Lineups) /\ ready \in SUBSET Sides
      /\ reporter \in Sides \cup {NoSide} /\ reported \in Lineups \cup {NoLineup}
      /\ winner \in Lineups \cup {NoLineup}
  BY DEF Init, Statuses, LobbyStages
<1>5. /\ sides \in [Sides -> Lineups] /\ sides["A"] # sides["B"] /\ bestOf \in BestOfs
      /\ allowSpectators \in BOOLEAN /\ lobby \in BOOLEAN /\ started \in BOOLEAN
      /\ gameOpen \in BOOLEAN /\ everStarted \in BOOLEAN
      /\ tournament \in TournamentStatuses /\ crossed \in BOOLEAN
  BY DEF Init, TournamentStatuses
<1>6. RequestsTyped
  BY DEF Init, RequestsTyped, NoReschedule, Off
<1> QED
  BY <1>3, <1>4, <1>5, <1>6 DEF TypeOK

\* Every step keeps the types.
LEMMA TypeStep == TypeOK /\ [Next]_vars => TypeOK'
<1> USE LineupsAssumption, WindowsAssumption, BestOfsAssumption
<1> SUFFICES ASSUME TypeOK, [Next]_vars PROVE TypeOK'
  OBVIOUS
<1> USE DEF TournamentStatuses, Playing, Statuses, LobbyStages, TimedStages, Settled, Sides, Timers, Off
<1>22. UNCHANGED requests => RequestsTyped'
  BY DEF TypeOK, RequestsTyped, requests
<1>1. CASE ReadForLobby \/ SubmitLobby \/ RefuseLobby
  <2>1. RequestsTyped'
    BY <1>1 DEF ReadForLobby, SubmitLobby, RefuseLobby, RequestsTyped, TypeOK
  <2>2. CASE SubmitLobby
    <3>1. submitting + ConfirmWindow \in Nat
      BY <2>2 DEF SubmitLobby, TypeOK, RequestsTyped
    <3> DEFINE deadline == submitting + ConfirmWindow
    <3>2. due' = [due EXCEPT !["confirm"] = deadline]
      BY <2>2 DEF SubmitLobby
    <3> HIDE DEF deadline
    <3>3. /\ due' \in [Timers -> Nat \cup {Off}]
          /\ due'["scheduled"] = due["scheduled"] /\ due'["lobby"] = due["lobby"]
      BY <3>1, <3>2 DEF TypeOK, deadline
    <3>4. status' = "LOBBY_CONFIRMATION" /\ lobby' = TRUE /\ crossed' \in BOOLEAN
      BY <2>2 DEF SubmitLobby
    <3> QED
      BY <2>1, <2>2, <3>3, <3>4 DEF SubmitLobby, TypeOK, lobbyVars, resultVars
  <2>3. CASE ReadForLobby \/ RefuseLobby
    <3>1. UNCHANGED <<status, sides, bestOf, lobbyVars, started, gameOpen, games, resultVars, due,
                      tournament, everStarted, crossed>>
      BY <2>3 DEF ReadForLobby, RefuseLobby
    <3> QED
      BY <2>1, <3>1 DEF TypeOK, lobbyVars, resultVars
  <2> QED
    BY <1>1, <2>2, <2>3
<1>2. CASE SubmitManagedLobby
  <2>1. due["scheduled"] + ConfirmWindow \in Nat
    BY DEF TypeOK
  <2>2. /\ due' \in [Timers -> Nat \cup {Off}]
        /\ due'["scheduled"] = due["scheduled"] /\ due'["lobby"] = due["lobby"]
    BY <1>2, <2>1 DEF SubmitManagedLobby, TypeOK
  <2> QED
    BY <1>2, <1>22, <2>2 DEF SubmitManagedLobby, TypeOK, lobbyVars, resultVars
<1>3. ASSUME NEW side \in Sides, LobbyConfirmedBy(side) PROVE TypeOK'
  <2>1. Admitted \in Nat \cup {Off}
    BY DEF Admitted
  <2> DEFINE deadline == Later(Later(Admitted, 0), due["scheduled"]) + LobbyGrace
  <2>2. deadline \in Nat
    BY <2>1 DEF Later, TypeOK
  <2>3. due' = due \/ due' = [due EXCEPT !["admission"] = Admitted, !["confirm"] = deadline]
    BY <1>3 DEF LobbyConfirmedBy
  <2> HIDE DEF deadline
  <2>4. /\ due' \in [Timers -> Nat \cup {Off}]
        /\ due'["scheduled"] = due["scheduled"] /\ due'["lobby"] = due["lobby"]
    BY <2>1, <2>2, <2>3 DEF TypeOK
  <2>5. /\ status' \in Statuses /\ crossed' \in BOOLEAN /\ ready' \in SUBSET Sides
        /\ UNCHANGED <<sides, bestOf, allowSpectators, lobby, started, gameOpen, games, resultVars,
                       tournament, everStarted, requests>>
    BY <1>3 DEF LobbyConfirmedBy, TypeOK
  <2> QED
    BY <1>22, <2>4, <2>5 DEF TypeOK, resultVars
<1>4. CASE Started
  BY <1>4, <1>22 DEF Started, TypeOK, lobbyVars, resultVars
<1>5. ASSUME NEW side \in Sides, NEW e \in Lineups, SubmitResult(side, e) PROVE TypeOK'
  BY <1>5, <1>22 DEF SubmitResult, TypeOK, lobbyVars, resultVars
<1>6. ASSUME NEW e, RecordGame(e),
             UNCHANGED <<sides, bestOf, allowSpectators, tournament, everStarted, requests>>
      PROVE TypeOK'
  BY <1>6, <1>22, RecordGameType DEF TypeOK
<1>7. ASSUME NEW side \in Sides, DisputeMatch(side) PROVE TypeOK'
  BY <1>7, <1>22 DEF DisputeMatch, TypeOK, lobbyVars, resultVars
<1>8. ASSUME NEW side \in Sides, AwardSeries(side) PROVE TypeOK'
  BY <1>8, <1>22 DEF AwardSeries, TypeOK, lobbyVars, resultVars
<1>9. ASSUME NEW at \in Nat, FreshCycle(at), sides' \in [Sides -> Lineups], sides'["A"] # sides'["B"],
             gameOpen' \in BOOLEAN,
             UNCHANGED <<bestOf, allowSpectators, games, tournament, everStarted, requests>>
      PROVE TypeOK'
  <2>1. at # Off /\ at + LobbyGrace # Off
    OBVIOUS
  <2>2. due' \in [Timers -> Nat \cup {Off}] /\ due'["scheduled"] # Off /\ due'["lobby"] # Off
    BY <1>9, <2>1, FreshCycleType
  <2>3. /\ status' = "SCHEDULED" /\ lobby' = FALSE /\ ready' = {} /\ started' = FALSE
        /\ reporter' = NoSide /\ reported' = NoLineup /\ winner' = NoLineup /\ crossed' = FALSE
    BY <1>9 DEF FreshCycle
  <2> QED
    BY <1>9, <1>22, <2>2, <2>3 DEF TypeOK
<1>10. CASE Replay
  <2> DEFINE at == IF games = <<>> /\ ~gameOpen THEN due["scheduled"] ELSE 0
  <2>1. at \in Nat
    BY DEF TypeOK
  <2>2. FreshCycle(at) /\ gameOpen' \in BOOLEAN
        /\ UNCHANGED <<sides, bestOf, allowSpectators, games, tournament, everStarted, requests>>
    BY <1>10 DEF Replay
  <2> HIDE DEF at
  <2> QED
    BY <2>1, <2>2, <1>9 DEF TypeOK
<1>11. CASE CancelMatch
  BY <1>11, <1>22 DEF CancelMatch, TypeOK, lobbyVars, resultVars
<1>12. ASSUME NEW next \in TournamentStatuses, UpdateTournament(next) PROVE TypeOK'
  BY <1>12, <1>22 DEF UpdateTournament, TypeOK, lobbyVars, resultVars
<1>13. ASSUME NEW spectators \in BOOLEAN, UpdateRules(spectators) PROVE TypeOK'
  BY <1>13, <1>22 DEF UpdateRules, TypeOK, resultVars
<1>14. ASSUME NEW side \in Sides, NEW e \in Lineups, ReplaceSide(side, e) PROVE TypeOK'
  <2>1. sides' \in [Sides -> Lineups] /\ sides'["A"] # sides'["B"]
    BY <1>14 DEF ReplaceSide, Reserves, Playing, TypeOK
  <2> QED
    BY <2>1, <1>14, <1>9 DEF ReplaceSide, TypeOK
<1>15. CASE BeginReschedule
  <2>1. RequestsTyped'
    BY <1>15 DEF BeginReschedule, RequestsTyped, TypeOK
  <2> QED
    BY <1>15, <2>1 DEF BeginReschedule, TypeOK, lobbyVars, resultVars
<1>21. ASSUME NEW at \in 0..MaxDelay, Reschedule(at) PROVE TypeOK'
  <2>1. StageDeadline(at, rescheduling.stage, rescheduling.admission) \in Nat \cup {Off}
    BY <1>21 DEF Reschedule, StageDeadline, Later, TypeOK, RequestsTyped
  <2>2. RequestsTyped'
    BY <1>21 DEF Reschedule, RequestsTyped, NoReschedule, TypeOK
  <2> QED
    BY <2>1, <2>2, <1>21 DEF Reschedule, TypeOK, lobbyVars, resultVars
<1>16. ASSUME NEW format \in BestOfs, ChangeFormat(format) PROVE TypeOK'
  BY <1>16, <1>22 DEF ChangeFormat, TypeOK, lobbyVars, resultVars
<1>17. CASE AdmissionEnds
  BY <1>17, <1>22 DEF AdmissionEnds, TypeOK, lobbyVars, resultVars
<1>18. CASE Expire
  BY <1>18, <1>22 DEF Expire, TypeOK, lobbyVars, resultVars
<1>19. CASE Tick
  BY <1>19, <1>22, SMTT(20) DEF Tick, TypeOK, lobbyVars, resultVars
<1>20. CASE UNCHANGED vars
  BY <1>20, <1>22 DEF vars, TypeOK, lobbyVars, resultVars
<1> QED
  BY <1>1, <1>2, <1>3, <1>4, <1>5, <1>6, <1>7, <1>8, <1>10, <1>11, <1>12, <1>13, <1>14,
     <1>15, <1>16, <1>17, <1>18, <1>19, <1>20, <1>21
     DEF Next, ConfirmLobby, ConfirmManagedLobby, StartMatch, StartManagedMatch, ConfirmResult,
         ConfirmManagedResult, AwardGame

\* Every variable of a match keeps its type.
THEOREM TypeCorrect == Spec => []TypeOK
BY TypeInit, TypeStep, PTL DEF Spec

-----------------------------------------------------------------------------
\* Counting wins

\* The number of games of g that f won.
Won(g, f) == Cardinality({i \in DOMAIN g : g[i] = f})

\* Appending a game raises its winner's count by one and no other count.
LEMMA WinsAppend ==
    ASSUME NEW g \in Seq(Lineups), NEW e \in Lineups, NEW f
    PROVE  /\ Won(g, f) \in Nat
           /\ Won(Append(g, e), f) = IF f = e THEN Won(g, f) + 1 ELSE Won(g, f)
<1> USE DEF Won
<1> DEFINE won(h) == {i \in DOMAIN h : h[i] = f}
           g2 == Append(g, e)
<1>1. DOMAIN g = 1..Len(g) /\ Len(g) \in Nat
  OBVIOUS
<1>2. DOMAIN g2 = 1..(Len(g) + 1) /\ g2[Len(g) + 1] = e /\ \A i \in 1..Len(g) : g2[i] = g[i]
  OBVIOUS
<1>3. IsFiniteSet(1..Len(g))
  BY <1>1, FS_Interval
<1>4. won(g) \subseteq 1..Len(g)
  BY <1>1
<1>5. IsFiniteSet(won(g))
  BY <1>3, <1>4, FS_Subset
<1>6. Cardinality(won(g)) \in Nat
  BY <1>5, FS_CardinalityType
<1>7. CASE f = e
  <2>1. won(g2) = won(g) \cup {Len(g) + 1}
    BY <1>1, <1>2, <1>7
  <2>2. Len(g) + 1 \notin won(g)
    BY <1>1
  <2>3. Cardinality(won(g) \cup {Len(g) + 1}) = Cardinality(won(g)) + 1
    <3> HIDE DEF won
    <3> QED
      BY <1>5, <2>2, FS_AddElement
  <2> QED
    BY <1>6, <1>7, <2>1, <2>3
<1>8. CASE f # e
  <2>1. won(g2) = won(g)
    BY <1>1, <1>2, <1>8
  <2> QED
    BY <1>6, <1>8, <2>1
<1> QED
  BY <1>7, <1>8

\* A recorded game counts for its winner only.
LEMMA RecordedWins ==
    ASSUME TypeOK, NEW e, RecordGame(e), NEW f
    PROVE  Wins(f) \in Nat /\ Wins(f)' = IF f = e THEN Wins(f) + 1 ELSE Wins(f)
<1>1. e \in Lineups /\ games' = Append(games, e) /\ games \in Seq(Lineups)
  BY RecordGameType DEF TypeOK
<1>2. Wins(f) = Won(games, f) /\ Wins(f)' = Won(games', f)
  BY DEF Wins, Won
<1>3. /\ Won(games, f) \in Nat
      /\ Won(games', f) = IF f = e THEN Won(games, f) + 1 ELSE Won(games, f)
  BY <1>1, WinsAppend
<1> QED
  BY <1>2, <1>3

\* A lineup without games has no wins.
LEMMA NoWins == ASSUME games = <<>>, NEW f PROVE Wins(f) = 0
<1>1. {i \in DOMAIN games : games[i] = f} = {}
  OBVIOUS
<1> QED
  BY <1>1, FS_EmptySet DEF Wins

\* The majority of a format is positive.
LEMMA NeededPositive == ASSUME TypeOK PROVE Needed \in Nat \ {0}
BY BestOfsAssumption DEF TypeOK, Needed

-----------------------------------------------------------------------------
\* Inductive steps.  Each invariant is inductive relative to TypeOK.

\* No step breaks the support of a game.
LEMMA GameSupportStep == TypeOK /\ GameIsSupported /\ [Next]_vars => GameIsSupported'
<1> SUFFICES ASSUME TypeOK, GameIsSupported, [Next]_vars PROVE GameIsSupported'
  OBVIOUS
<1> USE DEF GameIsSupported, LobbyStages, TimedStages, Playing
<1>1. CASE ReadForLobby \/ SubmitLobby \/ RefuseLobby
  BY <1>1 DEF ReadForLobby, SubmitLobby, RefuseLobby, MaySubmitLobby, lobbyVars, resultVars
<1>2. CASE SubmitManagedLobby
  BY <1>2 DEF SubmitManagedLobby, resultVars
<1>3. ASSUME NEW side \in Sides, LobbyConfirmedBy(side) PROVE GameIsSupported'
  <2>1. status' # "LOBBY_CONFIRMATION" => ready' = Sides
    BY <1>3 DEF LobbyConfirmedBy, Sides, Opposite, TypeOK
  <2>2. status' \in {"LOBBY_CONFIRMATION", "SPECTATOR_ADMISSION", "READY"}
    BY <1>3 DEF LobbyConfirmedBy
  <2> QED
    BY <1>3, <2>1, <2>2 DEF LobbyConfirmedBy, resultVars
<1>4. CASE Started
  BY <1>4, WindowsAssumption DEF Started, lobbyVars, resultVars, TypeOK, Timers, Off
<1>5. ASSUME NEW side \in Sides, NEW e \in Lineups, SubmitResult(side, e) PROVE GameIsSupported'
  <2>1. due'["result"] # Off
    BY <1>5, WindowsAssumption DEF SubmitResult, TypeOK, Timers, Off
  <2> QED
    BY <1>5, <2>1 DEF SubmitResult, lobbyVars, Sides, NoSide
<1>6. ASSUME NEW e, RecordGame(e) PROVE GameIsSupported'
  <2>1. status' \in {"COMPLETED", "SCHEDULED"} /\ gameOpen' = FALSE
    BY <1>6, RecordGameType
  <2>2. status' = "SCHEDULED" => started' = FALSE
    BY <1>6 DEF RecordGame, FreshCycle, TypeOK
  <2> QED
    BY <2>1, <2>2
<1>7. ASSUME NEW side \in Sides, DisputeMatch(side) PROVE GameIsSupported'
  BY <1>7 DEF DisputeMatch, lobbyVars, resultVars
<1>8. ASSUME NEW side \in Sides, AwardSeries(side) PROVE GameIsSupported'
  BY <1>8 DEF AwardSeries, lobbyVars, resultVars
<1>9. CASE Replay
  BY <1>9 DEF Replay, FreshCycle
<1>10. CASE CancelMatch
  BY <1>10 DEF CancelMatch, lobbyVars, resultVars
<1>11. ASSUME NEW next \in TournamentStatuses, UpdateTournament(next) PROVE GameIsSupported'
  BY <1>11 DEF UpdateTournament, lobbyVars, resultVars
<1>12. ASSUME NEW spectators \in BOOLEAN, UpdateRules(spectators) PROVE GameIsSupported'
  BY <1>12 DEF UpdateRules, resultVars
<1>13. ASSUME NEW side \in Sides, NEW e \in Lineups, ReplaceSide(side, e) PROVE GameIsSupported'
  BY <1>13 DEF ReplaceSide, FreshCycle, Untouched
<1>14. ASSUME NEW at \in 0..MaxDelay, Reschedule(at) PROVE GameIsSupported'
  BY <1>14 DEF Reschedule, lobbyVars, resultVars, TypeOK, Timers
<1>15. ASSUME NEW format \in BestOfs, ChangeFormat(format) PROVE GameIsSupported'
  BY <1>15 DEF ChangeFormat, lobbyVars, resultVars
<1>16. CASE AdmissionEnds
  BY <1>16 DEF AdmissionEnds, lobbyVars, resultVars
<1>17. CASE BeginReschedule \/ Expire
  BY <1>17 DEF BeginReschedule, Expire, lobbyVars, resultVars
<1>18. CASE Tick
  <2>1. due["result"] # Off => due'["result"] # Off
    BY <1>18 DEF Tick, TypeOK, Timers, Off
  <2> QED
    BY <1>18, <2>1 DEF Tick, lobbyVars, resultVars
<1>19. CASE UNCHANGED vars
  BY <1>19 DEF vars, lobbyVars, resultVars
<1> QED
  BY <1>1, <1>2, <1>3, <1>4, <1>5, <1>6, <1>7, <1>8, <1>9, <1>10, <1>11, <1>12, <1>13,
     <1>14, <1>15, <1>16, <1>17, <1>18, <1>19
     DEF Next, ConfirmLobby, ConfirmManagedLobby, StartMatch, StartManagedMatch, ConfirmResult,
         ConfirmManagedResult, AwardGame

\* No step decides a series against its majority.
LEMMA MajorityStep == TypeOK /\ MajorityDecides /\ [Next]_vars => MajorityDecides'
<1> SUFFICES ASSUME TypeOK, MajorityDecides, [Next]_vars PROVE MajorityDecides'
  OBVIOUS
<1>1. ASSUME UNCHANGED <<sides, games, bestOf>>,
             status = "COMPLETED" => status' = status /\ winner' = winner,
             status' = "COMPLETED" => winner' \in Playing
      PROVE  MajorityDecides'
  BY <1>1 DEF MajorityDecides, Playing, Wins, Needed
<1>2. ASSUME NEW e, RecordGame(e), status \notin Settled, UNCHANGED <<sides, bestOf>>
      PROVE  MajorityDecides'
  <2>1. /\ games' = Append(games, e) /\ games \in Seq(Lineups)
        /\ e \in Lineups /\ e \in Playing /\ Playing' = Playing /\ Needed' = Needed
    BY <1>2, RecordGameType DEF TypeOK, Playing, Needed
  <2>2. \A i \in DOMAIN games' : games'[i] \in Playing'
    BY <2>1 DEF MajorityDecides
  <2>3. \A f : Wins(f) \in Nat /\ Wins(f)' = IF f = e THEN Wins(f) + 1 ELSE Wins(f)
    BY <1>2, RecordedWins
  <2>4. \A f \in Playing : ~(Wins(f) >= Needed)
    BY <1>2 DEF MajorityDecides, Settled
  <2>5. CASE Wins(e) + 1 >= Needed
    <3>1. status' = "COMPLETED" /\ winner' = e
      BY <1>2, <2>5 DEF RecordGame
    <3> QED
      BY <3>1, <2>1, <2>2, <2>3, <2>4 DEF MajorityDecides
  <2>6. CASE ~(Wins(e) + 1 >= Needed)
    <3>1. status' = "SCHEDULED"
      BY <1>2, <2>6 DEF RecordGame, FreshCycle
    <3> QED
      BY <3>1, <2>1, <2>2, <2>3, <2>4, <2>6 DEF MajorityDecides
  <2> QED
    BY <2>5, <2>6
<1>3. ASSUME games = <<>>, games' = games, status \notin Settled, status' \notin Settled,
             TypeOK'
      PROVE  MajorityDecides'
  <2>1. \A f : Wins(f)' = 0
    BY <1>3, NoWins DEF Wins
  <2>2. Needed' \in Nat \ {0}
    <3>1. bestOf' \in {1, 3, 5}
      BY <1>3, BestOfsAssumption DEF TypeOK
    <3>2. Needed' = bestOf' \div 2 + 1
      BY DEF Needed
    <3>3. \A n \in {1, 3, 5} : n \div 2 + 1 \in Nat \ {0}
      OBVIOUS
    <3> QED
      BY <3>1, <3>2, <3>3
  <2> QED
    BY <1>3, <2>1, <2>2 DEF MajorityDecides, Settled
<1>4. CASE ReadForLobby \/ SubmitLobby \/ RefuseLobby \/ SubmitManagedLobby \/ BeginReschedule
           \/ Started \/ CancelMatch \/ AdmissionEnds \/ Expire \/ Tick \/ UNCHANGED vars
  BY <1>1, <1>4 DEF ReadForLobby, SubmitLobby, RefuseLobby, MaySubmitLobby, BeginReschedule,
     TimedStages, SubmitManagedLobby, Started, CancelMatch, AdmissionEnds, Expire,
     Tick, vars, resultVars, MajorityDecides, LobbyStages, Decidable, Overdue
<1>5. ASSUME NEW side \in Sides, LobbyConfirmedBy(side) \/ DisputeMatch(side) \/ AwardSeries(side)
      PROVE  MajorityDecides'
  BY <1>1, <1>5 DEF LobbyConfirmedBy, DisputeMatch, AwardSeries, resultVars, MajorityDecides,
     LobbyStages, TimedStages, Settled, Playing
<1>6. ASSUME NEW side \in Sides, NEW e \in Lineups, SubmitResult(side, e) PROVE MajorityDecides'
  BY <1>1, <1>6 DEF SubmitResult, MajorityDecides
<1>7. CASE ConfirmResult \/ ConfirmManagedResult
  BY <1>2, <1>7 DEF ConfirmResult, ConfirmManagedResult, Reported, Settled
<1>8. ASSUME NEW side \in Sides, AwardGame(side) PROVE MajorityDecides'
  BY <1>2, <1>8 DEF AwardGame, Decidable, Settled
<1>9. CASE Replay
  BY <1>1, <1>9 DEF Replay, FreshCycle, Decidable
<1>10. ASSUME NEW next \in TournamentStatuses, UpdateTournament(next) PROVE MajorityDecides'
  BY <1>1, <1>10 DEF UpdateTournament, resultVars, MajorityDecides, Settled
<1>11. ASSUME NEW spectators \in BOOLEAN, UpdateRules(spectators) PROVE MajorityDecides'
  BY <1>1, <1>11 DEF UpdateRules, resultVars, MajorityDecides
<1>12. ASSUME NEW side \in Sides, NEW e \in Lineups, ReplaceSide(side, e) PROVE MajorityDecides'
  BY <1>3, <1>12, TypeStep DEF ReplaceSide, FreshCycle, Untouched, Settled
<1>13. ASSUME NEW at \in 0..MaxDelay, Reschedule(at) PROVE MajorityDecides'
  BY <1>1, <1>13 DEF Reschedule, resultVars, MajorityDecides
<1>14. ASSUME NEW format \in BestOfs, ChangeFormat(format) PROVE MajorityDecides'
  BY <1>3, <1>14, TypeStep DEF ChangeFormat, FormatOpen
<1> QED
  BY <1>4, <1>5, <1>6, <1>7, <1>8, <1>9, <1>10, <1>11, <1>12, <1>13, <1>14
     DEF Next, ConfirmLobby, ConfirmManagedLobby, StartMatch, StartManagedMatch

\* No step arms a deadline earlier than the documented windows allow.
LEMMA DeadlinesStep == TypeOK /\ DeadlinesLeaveTime /\ [Next]_vars => DeadlinesLeaveTime'
<1> SUFFICES ASSUME TypeOK, DeadlinesLeaveTime, [Next]_vars PROVE DeadlinesLeaveTime'
  OBVIOUS
<1> USE WindowsAssumption DEF Timers, Off, TimedStages
<1>1. due \in [Timers -> Nat \cup {Off}] /\ due["scheduled"] \in Nat /\ due["lobby"] \in Nat
  BY DEF TypeOK
<1>2. ASSUME due' = due, status' \in TimedStages => crossed' = crossed,
             \/ status' = status
             \/ status' \notin LobbyStages
             \/ (status = "SPECTATOR_ADMISSION" /\ status' = "READY")
      PROVE  DeadlinesLeaveTime'
  BY <1>2 DEF DeadlinesLeaveTime, LobbyStages
<1>3. ASSUME NEW at \in Nat, FreshCycle(at) PROVE DeadlinesLeaveTime'
  <2>1. /\ status' = "SCHEDULED" /\ due'["scheduled"] = at
        /\ due'["lobby"] = at + LobbyGrace
    BY <1>3, FreshCycleType
  <2> QED
    BY <2>1 DEF DeadlinesLeaveTime
<1>4. ASSUME NEW e, RecordGame(e) PROVE DeadlinesLeaveTime'
  <2>1. CASE Wins(e) + 1 >= Needed
    BY <1>2, <1>4, <2>1 DEF RecordGame, LobbyStages
  <2>2. CASE ~(Wins(e) + 1 >= Needed)
    BY <1>3, <1>4, <2>2 DEF RecordGame
  <2> QED
    BY <2>1, <2>2
<1>5. CASE SubmitLobby
  <2>1. /\ due' = [due EXCEPT !["confirm"] = submitting + ConfirmWindow] /\ submitting \in Nat
        /\ status' = "LOBBY_CONFIRMATION" /\ (~crossed' => submitting = due["scheduled"])
    BY <1>5 DEF SubmitLobby, TypeOK, RequestsTyped
  <2> QED
    BY <1>1, <2>1 DEF DeadlinesLeaveTime
<1>6. CASE SubmitManagedLobby
  BY <1>1, <1>6 DEF SubmitManagedLobby, DeadlinesLeaveTime
<1>7. ASSUME NEW side \in Sides, LobbyConfirmedBy(side) PROVE DeadlinesLeaveTime'
  <2> DEFINE from == Later(Later(Admitted, 0), due["scheduled"])
  <2>1. /\ Admitted \in Nat \cup {Off} /\ (allowSpectators => Admitted # Off)
        /\ from \in Nat /\ from >= Admitted /\ from >= due["scheduled"]
    BY <1>1 DEF Admitted, Later
  <2>2. CASE Opposite(side) \in ready
    <3>1. /\ due' = [due EXCEPT !["admission"] = Admitted, !["confirm"] = from + LobbyGrace]
          /\ status' = IF allowSpectators THEN "SPECTATOR_ADMISSION" ELSE "READY"
      BY <1>7, <2>2 DEF LobbyConfirmedBy
    <3> HIDE DEF from
    <3>2. /\ due'["scheduled"] = due["scheduled"] /\ due'["lobby"] = due["lobby"]
          /\ due'["admission"] = Admitted /\ due'["confirm"] = from + LobbyGrace
      BY <1>1, <3>1
    <3> QED
      BY <1>1, <2>1, <3>1, <3>2 DEF DeadlinesLeaveTime
  <2>3. CASE Opposite(side) \notin ready
    BY <1>2, <1>7, <2>3 DEF LobbyConfirmedBy
  <2> QED
    BY <2>2, <2>3
<1>8. CASE Started
  BY <1>1, <1>8 DEF Started, DeadlinesLeaveTime
<1>9. ASSUME NEW side \in Sides, NEW e \in Lineups, SubmitResult(side, e)
      PROVE  DeadlinesLeaveTime'
  BY <1>1, <1>9 DEF SubmitResult, DeadlinesLeaveTime
<1>10. CASE Replay
  <2> DEFINE at == IF games = <<>> /\ ~gameOpen THEN due["scheduled"] ELSE 0
  <2>1. at \in Nat /\ FreshCycle(at)
    BY <1>1, <1>10 DEF Replay
  <2> HIDE DEF at
  <2> QED
    BY <1>3, <2>1
<1>11. ASSUME NEW side \in Sides, NEW e \in Lineups, ReplaceSide(side, e)
       PROVE  DeadlinesLeaveTime'
  BY <1>3, <1>11 DEF ReplaceSide
<1>12. ASSUME NEW at \in 0..MaxDelay, Reschedule(at) PROVE DeadlinesLeaveTime'
  <2> DEFINE deadline == StageDeadline(at, rescheduling.stage, rescheduling.admission)
  <2>1. /\ due'["scheduled"] = at /\ due'["lobby"] = at + LobbyGrace
        /\ due'["confirm"] = deadline /\ due'["admission"] = due["admission"]
        /\ status' = status
    BY <1>1, <1>12 DEF Reschedule
  <2>2. rescheduling.admission \in Nat \cup {Off}
    BY DEF TypeOK, RequestsTyped
  <2>3. deadline \in Nat \/ deadline = due["confirm"]
    BY <2>2 DEF StageDeadline, Later
  <2>4. ASSUME ~crossed', status \in TimedStages
        PROVE  rescheduling.stage = status /\ rescheduling.admission = due["admission"]
    BY <1>12, <2>4 DEF Reschedule
  <2>5. ASSUME ~crossed', status = "LOBBY_CONFIRMATION" PROVE deadline = at + ConfirmWindow
    BY <2>4, <2>5 DEF StageDeadline
  <2>6. ASSUME ~crossed', status \in {"READY", "SPECTATOR_ADMISSION"}
        PROVE  deadline >= at + LobbyGrace /\ deadline >= due["admission"] + LobbyGrace
    BY <1>1, <2>4, <2>6 DEF StageDeadline, Later
  <2> HIDE DEF deadline
  <2> QED
    BY <1>1, <2>1, <2>3, <2>5, <2>6 DEF DeadlinesLeaveTime
<1>13. CASE ReadForLobby \/ RefuseLobby \/ BeginReschedule \/ CancelMatch \/ AdmissionEnds \/ Expire
            \/ UNCHANGED vars
  BY <1>2, <1>13 DEF ReadForLobby, RefuseLobby, BeginReschedule, CancelMatch, AdmissionEnds, Expire,
     vars, LobbyStages
<1>14. ASSUME NEW next \in TournamentStatuses, UpdateTournament(next) PROVE DeadlinesLeaveTime'
  <2>1. status' \in TimedStages => crossed' = crossed
    <3>1. crossed \in BOOLEAN
      BY DEF TypeOK
    <3>2. crossed' = (crossed /\ status' \in TimedStages)
      BY <1>14 DEF UpdateTournament
    <3> QED
      BY <3>1, <3>2
  <2> QED
    BY <1>2, <1>14, <2>1 DEF UpdateTournament, LobbyStages
<1>15. ASSUME NEW spectators \in BOOLEAN, UpdateRules(spectators) PROVE DeadlinesLeaveTime'
  BY <1>2, <1>15 DEF UpdateRules
<1>16. ASSUME NEW side \in Sides, DisputeMatch(side) \/ AwardSeries(side)
       PROVE  DeadlinesLeaveTime'
  BY <1>2, <1>16 DEF DisputeMatch, AwardSeries, LobbyStages
<1>17. ASSUME NEW format \in BestOfs, ChangeFormat(format) PROVE DeadlinesLeaveTime'
  BY <1>2, <1>17 DEF ChangeFormat
<1>18. CASE Tick
  <2>1. \A t \in Timers : due'[t] = IF due[t] > 0 THEN due[t] - 1 ELSE due[t]
    BY <1>18 DEF Tick
  <2>2. status' = status /\ crossed' = crossed
    BY <1>18 DEF Tick
  <2>3. \A t \in Timers : due[t] \in Nat \cup {Off}
    BY <1>1
  <2>4. \A t, u \in Timers, n \in Nat \ {0} : due[t] > 0 /\ due[u] >= due[t] + n => due'[u] >= due'[t] + n
    BY <2>1, <2>3
  <2>5. \A t \in Timers : (due'[t] > 0 => due[t] > 0) /\ (due'[t] = Off <=> due[t] = Off)
    BY <2>1, <2>3
  <2> QED
    BY <2>2, <2>4, <2>5 DEF DeadlinesLeaveTime
<1> QED
  BY <1>4, <1>5, <1>6, <1>7, <1>8, <1>9, <1>10, <1>11, <1>12, <1>13, <1>14, <1>15, <1>16,
     <1>17, <1>18
     DEF Next, ConfirmLobby, ConfirmManagedLobby, StartMatch, StartManagedMatch, ConfirmResult,
         ConfirmManagedResult, AwardGame

\* Recorded games are only ever appended to.
LEMMA ResultsStep == TypeOK /\ [Next]_vars => [KeepsResults]_vars
<1> SUFFICES ASSUME TypeOK, Next PROVE KeepsResults
  OBVIOUS
<1>1. games \in Seq(Lineups)
  BY DEF TypeOK
<1>2. ASSUME games' = games, games # <<>> => sides' = sides /\ bestOf' = bestOf
      PROVE  KeepsResults
  BY <1>1, <1>2 DEF KeepsResults
<1>3. ASSUME NEW e, RecordGame(e), UNCHANGED <<sides, bestOf>> PROVE KeepsResults
  <2>1. games' = Append(games, e)
    BY <1>3 DEF RecordGame
  <2> QED
    BY <1>1, <1>3, <2>1 DEF KeepsResults
<1>4. CASE ReadForLobby \/ SubmitLobby \/ RefuseLobby \/ SubmitManagedLobby \/ BeginReschedule
           \/ Started \/ Replay \/ CancelMatch \/ AdmissionEnds \/ Expire \/ Tick
  BY <1>2, <1>4 DEF ReadForLobby, SubmitLobby, RefuseLobby, BeginReschedule, SubmitManagedLobby, Started, Replay, CancelMatch,
     AdmissionEnds, Expire, Tick
<1>5. ASSUME NEW next \in TournamentStatuses, UpdateTournament(next) PROVE KeepsResults
  BY <1>2, <1>5 DEF UpdateTournament
<1>6. ASSUME NEW spectators \in BOOLEAN, UpdateRules(spectators) PROVE KeepsResults
  BY <1>2, <1>6 DEF UpdateRules
<1>7. ASSUME NEW side \in Sides, LobbyConfirmedBy(side) \/ DisputeMatch(side) \/ AwardSeries(side)
      PROVE  KeepsResults
  BY <1>2, <1>7 DEF LobbyConfirmedBy, DisputeMatch, AwardSeries
<1>8. ASSUME NEW side \in Sides, NEW e \in Lineups, SubmitResult(side, e) \/ ReplaceSide(side, e)
      PROVE  KeepsResults
  BY <1>2, <1>8 DEF SubmitResult, ReplaceSide, Untouched
<1>9. ASSUME NEW side \in Sides, AwardGame(side) PROVE KeepsResults
  BY <1>3, <1>9 DEF AwardGame
<1>10. CASE ConfirmResult \/ ConfirmManagedResult
  BY <1>3, <1>10 DEF ConfirmResult, ConfirmManagedResult
<1>11. ASSUME NEW at \in 0..MaxDelay, Reschedule(at) PROVE KeepsResults
  BY <1>2, <1>11 DEF Reschedule
<1>12. ASSUME NEW format \in BestOfs, ChangeFormat(format) PROVE KeepsResults
  BY <1>2, <1>12 DEF ChangeFormat, FormatOpen
<1> QED
  BY <1>4, <1>5, <1>6, <1>7, <1>8, <1>9, <1>10, <1>11, <1>12
     DEF Next, ConfirmLobby, ConfirmManagedLobby, StartMatch, StartManagedMatch

-----------------------------------------------------------------------------
\* Theorems

\* The initial states satisfy the invariants.
LEMMA SafeInit == Init => GameIsSupported /\ MajorityDecides /\ DeadlinesLeaveTime
<1> SUFFICES ASSUME Init PROVE GameIsSupported /\ MajorityDecides /\ DeadlinesLeaveTime
  OBVIOUS
<1>1. TypeOK
  BY TypeInit
<1>2. GameIsSupported
  BY DEF Init, GameIsSupported, LobbyStages, TimedStages
<1>3. MajorityDecides
  <2>1. games = <<>> /\ status = "SCHEDULED"
    BY DEF Init
  <2>2. \A e : Wins(e) = 0
    BY <2>1, NoWins
  <2> QED
    BY <1>1, <2>1, <2>2, NeededPositive DEF MajorityDecides
<1>4. DeadlinesLeaveTime
  <2>1. PICK delay \in 0..MaxDelay : due = FreshDeadlines(delay)
    BY DEF Init
  <2>2. due["scheduled"] = delay /\ due["lobby"] = delay + LobbyGrace /\ status = "SCHEDULED"
    BY <2>1 DEF FreshDeadlines, Timers, Init
  <2> QED
    BY <2>2, WindowsAssumption DEF DeadlinesLeaveTime, TimedStages
<1> QED
  BY <1>2, <1>3, <1>4

\* A game is always played in a lobby both sides confirmed, and a confirmation
\* always has a report of one of the two lineups.
THEOREM GamesAreSupported == Spec => []GameIsSupported
BY TypeInit, TypeStep, SafeInit, GameSupportStep, PTL DEF Spec

\* A series is decided exactly by its majority or by a technical result.
THEOREM MajorityAlwaysDecides == Spec => []MajorityDecides
BY TypeInit, TypeStep, SafeInit, MajorityStep, PTL DEF Spec

\* Every stage keeps its full window after the scheduled time and the admission,
\* unless its deadline was computed from a match that changed before the write.
THEOREM DeadlinesAlwaysLeaveTime == Spec => []DeadlinesLeaveTime
BY TypeInit, TypeStep, SafeInit, DeadlinesStep, PTL DEF Spec

\* Recorded games, and the lineups and format they were played under, stay
\* through replays, replacements, reschedules and changes of format.  Decisions
\* about a result are whole here; the status and the winner are not covered.
THEOREM ResultsStayPermanent == Spec => ResultsArePermanent
BY TypeInit, TypeStep, ResultsStep, PTL DEF Spec, ResultsArePermanent
=============================================================================
