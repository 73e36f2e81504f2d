----------------------- MODULE MatchTransactions_proofs -----------------------
(***************************************************************************)
(* Proofs about decisions under different locks, for any set of handlers,  *)
(* any number of requests and any length of a series: a game is recorded   *)
(* once, and a completed match left alone, but for decisions that a        *)
(* managed confirmation has overtaken.  Where all decisions take the same  *)
(* lock there is no such decision.                                         *)
(***************************************************************************)
EXTENDS MatchTransactions, FiniteSetTheorems, TLAPS

-----------------------------------------------------------------------------
(* Types *)

Statuses == {"SCHEDULED", "DISPUTED", "IN_PROGRESS", "RESULT_CONFIRMATION", "COMPLETED"}
Matches == [status : Statuses, started : BOOLEAN, reporter : Sides \cup {Nobody},
            reported : Sides \cup {Nobody}, winner : Sides \cup {Nobody}]
GameRows == [Numbers -> Sides \cup {Absent, Undecided}]
Calls == [decision : Handlers, winner : Sides, started : BOOLEAN, read : BOOLEAN, rows : GameRows,
          overtaken : BOOLEAN]

\* A result that waits for its confirmation is somebody's victory.
TypeInv ==
    /\ match \in Matches
    /\ match.status = "RESULT_CONFIRMATION" => match.reported \in Sides
    /\ games \in GameRows
    /\ played \in Int /\ late \in Int

\* Who has read a match and was not overtaken has it to himself: it is open, with the games he
\* read.  At most one decision holds each of the locks, and nobody overtakes the row's.
Exclusive ==
    /\ DOMAIN open \subseteq Requests
    /\ \A r, s \in DOMAIN open : (open[r].decision = "managed" <=> open[s].decision = "managed") => r = s
    /\ \A r \in DOMAIN open :
          /\ open[r] \in Calls
          /\ open[r].decision = "managed" => ~open[r].overtaken
          /\ ~open[r].overtaken => /\ open[r].started = match.started /\ open[r].rows = games
                                   /\ match.status # "COMPLETED"

\* A game under way is not among those that count.
Counted ==
    /\ Cardinality(Recorded(games)) <= played + late
    /\ match.started /\ match.status # "COMPLETED" => Cardinality(Recorded(games)) + 1 <= played + late

Inv == TypeInv /\ Exclusive /\ Counted

-----------------------------------------------------------------------------
(* Games and their number *)

LEMMA RecordedCounts ==
    ASSUME NEW rows
    PROVE  IsFiniteSet(Recorded(rows)) /\ Cardinality(Recorded(rows)) \in Nat
<1>1. IsFiniteSet(Numbers)
  BY BestOfAssumption, FS_Interval DEF Numbers
<1>2. Recorded(rows) \subseteq Numbers
  BY DEF Recorded
<1> QED
  BY <1>1, <1>2, FS_Subset, FS_CardinalityType

\* Writing one game row records one game more at most.
LEMMA RecordedGrows ==
    ASSUME NEW rows, NEW after, NEW n, Recorded(after) \subseteq Recorded(rows) \cup {n}
    PROVE  Cardinality(Recorded(after)) <= Cardinality(Recorded(rows)) + 1
<1> DEFINE more == Recorded(rows) \cup {n}
<1>1. IsFiniteSet(Recorded(rows)) /\ Cardinality(Recorded(rows)) \in Nat
  BY RecordedCounts
<1>2. /\ IsFiniteSet(more)
      /\ Cardinality(more) = IF n \in Recorded(rows) THEN Cardinality(Recorded(rows))
                             ELSE Cardinality(Recorded(rows)) + 1
  BY <1>1, FS_AddElement
<1>3. Cardinality(Recorded(after)) <= Cardinality(more)
  BY <1>2, FS_Subset
<1> QED
  BY <1>1, <1>2, <1>3, RecordedCounts

LEMMA RecordedShrinks ==
    ASSUME NEW rows, NEW after, Recorded(after) \subseteq Recorded(rows)
    PROVE  Cardinality(Recorded(after)) <= Cardinality(Recorded(rows))
BY RecordedCounts, FS_Subset

-----------------------------------------------------------------------------
(* The locks *)

\* A decision begins only when none of its lock is open.
LEMMA LocksExclude ==
    ASSUME Exclusive, NEW r, NEW decision \in Handlers, Begin(r, decision), NEW s \in DOMAIN open
    PROVE  ~(open[s].decision = "managed" <=> decision = "managed")
<1>1. open[s].decision \in Decisions
  BY HandlersAssumption DEF Exclusive, Calls
<1>2. CASE decision = "managed"
  BY <1>2, <1>1 DEF Begin, RowFree, RowLocked
<1>3. CASE decision # "managed"
  BY <1>3, <1>1 DEF Begin, AdvisoryFree, AdvisoryLocked, Decisions
<1> QED
  BY <1>2, <1>3

\* A replay finds nobody at the match.
LEMMA ReplayExcludes ==
    ASSUME Exclusive, Replay
    PROVE  DOMAIN open = {}
<1>1. ASSUME NEW s \in DOMAIN open
      PROVE  AdvisoryLocked(s) \/ RowLocked(s)
  BY <1>1, HandlersAssumption DEF Exclusive, Calls, AdvisoryLocked, RowLocked, Decisions
<1> QED
  BY <1>1, RequestsAssumption DEF Replay, AdvisoryFree, RowFree, Exclusive

-----------------------------------------------------------------------------
(* The invariant *)

\* The match goes on, no game is written.
Passes ==
    /\ match' \in Matches /\ match'.status # "COMPLETED" /\ match'.started = match.started
    /\ match'.status = "RESULT_CONFIRMATION" => match'.reported \in Sides
    /\ match.status # "COMPLETED"
    /\ UNCHANGED <<games, open, played, late>>

LEMMA PassesKeeps ==
    ASSUME Inv, Passes
    PROVE  Inv'
<1>1. TypeInv'
  BY DEF Inv, TypeInv, Passes
<1>2. Exclusive'
  BY DEF Inv, Exclusive, Passes
<1>3. Counted'
  BY DEF Inv, Counted, Passes, Recorded
<1> QED
  BY <1>1, <1>2, <1>3 DEF Inv

LEMMA PassesSteps ==
    ASSUME Inv
    PROVE  /\ \A side, e \in Sides : SubmitResult(side, e) => Passes
           /\ \A side \in Sides : DisputeMatch(side) => Passes
           /\ Expire => Passes
<1> USE DEF Inv, TypeInv
<1>1. ASSUME NEW side \in Sides, NEW e \in Sides, SubmitResult(side, e)
      PROVE  Passes
  <2> DEFINE after == [match EXCEPT !.status = "RESULT_CONFIRMATION", !.reporter = side, !.reported = e]
  <2>1. /\ after.status = "RESULT_CONFIRMATION" /\ after.started = match.started /\ after.reported = e
        /\ after \in Matches
    BY DEF Matches, Statuses
  <2>2. match' = after
    BY <1>1 DEF SubmitResult
  <2> HIDE DEF after
  <2> QED
    BY <1>1, <2>1, <2>2 DEF SubmitResult, Passes, Statuses
<1>2. ASSUME match' = [match EXCEPT !.status = "DISPUTED"], match.status # "COMPLETED",
             UNCHANGED <<games, open, played, late>>
      PROVE  Passes
  <2>1. /\ match'.status = "DISPUTED" /\ match'.started = match.started /\ match' \in Matches
    BY <1>2 DEF Matches, Statuses
  <2> QED
    BY <1>2, <2>1 DEF Passes
<1>3. ASSUME NEW side \in Sides, DisputeMatch(side)
      PROVE  Passes
  BY <1>2, <1>3 DEF DisputeMatch
<1>4. ASSUME Expire
      PROVE  Passes
  BY <1>2, <1>4 DEF Expire, Unfinished, Live
<1> QED
  BY <1>1, <1>3, <1>4

LEMMA FreshType == FreshMatch \in Matches
BY DEF FreshMatch, Matches, Statuses

LEMMA InvInit == Init => Inv
<1> SUFFICES ASSUME Init PROVE Inv
  OBVIOUS
<1>1. TypeInv
  BY FreshType DEF Init, TypeInv, FreshMatch, GameRows
<1>2. Exclusive
  BY DEF Init, Exclusive
<1>3. Counted
  <2>1. Recorded(games) = {}
    BY DEF Init, Recorded, Sides, Absent
  <2>2. Cardinality(Recorded(games)) = 0
    BY <2>1, FS_EmptySet
  <2> QED
    BY <2>2 DEF Init, Counted, FreshMatch
<1> QED
  BY <1>1, <1>2, <1>3 DEF Inv

LEMMA StartKeeps ==
    ASSUME Inv, StartGame
    PROVE  Inv'
<1> USE DEF Inv, TypeInv
<1> DEFINE number == Cardinality(Recorded(games)) + 1
<1>1. games' = [games EXCEPT ![number] = Undecided] /\ open = <<>> /\ open' = open
      /\ played' = played + 1 /\ late' = late
  BY DEF StartGame
<1> HIDE DEF number
<1>2. /\ match' \in Matches /\ match'.status = "IN_PROGRESS"
  BY DEF StartGame, Matches, Statuses
<1>3. games' \in GameRows
  BY <1>1 DEF GameRows
<1>4. Recorded(games') \subseteq Recorded(games)
  BY <1>1 DEF GameRows, Recorded, Sides, Undecided
<1>5. Cardinality(Recorded(games')) <= Cardinality(Recorded(games))
  BY <1>4, RecordedShrinks
<1>6. Exclusive'
  BY <1>1 DEF Exclusive
<1>7. Counted'
  BY <1>1, <1>5, RecordedCounts DEF Counted
<1> QED
  BY <1>1, <1>2, <1>3, <1>6, <1>7

LEMMA ReplayKeeps ==
    ASSUME Inv, Replay
    PROVE  Inv'
<1> USE DEF Inv, TypeInv
<1>1. DOMAIN open = {} /\ open' = open
  BY ReplayExcludes DEF Replay
<1>2. match' = FreshMatch /\ match.status = "DISPUTED"
  BY DEF Replay
<1>3. games' \in GameRows
  BY DEF Replay, GameRows
<1>4. Recorded(games') = Recorded(games)
  BY DEF Replay, Recorded, Sides, Absent
<1>5. Counted'
  BY <1>2, <1>4, RecordedCounts DEF Replay, Counted, FreshMatch, Matches
<1>6. Exclusive'
  BY <1>1 DEF Exclusive
<1>7. played' \in Int /\ late' = late
  BY DEF Replay
<1> QED
  BY <1>2, <1>3, <1>5, <1>6, <1>7, FreshType DEF FreshMatch

LEMMA BeginKeeps ==
    ASSUME Inv, NEW r \in Requests, NEW decision \in Handlers, Begin(r, decision)
    PROVE  Inv'
<1> USE DEF Inv, TypeInv
<1>1. PICK e \in Winners(decision, match) :
         open' = [s \in DOMAIN open \cup {r} |->
                    IF s = r THEN [decision |-> decision, winner |-> e, started |-> match.started,
                                   read |-> FALSE, rows |-> games, overtaken |-> FALSE]
                    ELSE open[s]]
  BY DEF Begin
<1> DEFINE call == [decision |-> decision, winner |-> e, started |-> match.started,
                    read |-> FALSE, rows |-> games, overtaken |-> FALSE]
<1>2. /\ DOMAIN open' = DOMAIN open \cup {r} /\ open'[r] = call
      /\ \A s \in DOMAIN open : open'[s] = open[s]
  BY <1>1 DEF Begin
<1>3. decision \in {"confirm", "managed", "award", "series"}
  BY HandlersAssumption DEF Decisions
<1>4. /\ Allows(decision, match) /\ match' = match /\ games' = games /\ played' = played /\ late' = late
      /\ r \notin DOMAIN open
  BY DEF Begin
<1>5. e \in Sides /\ match.status # "COMPLETED"
  BY <1>1, <1>3, <1>4 DEF Allows, Winners, Unfinished, Live
<1>6. /\ call \in Calls /\ call.started = match.started /\ call.rows = games
      /\ call.decision = decision /\ ~call.overtaken
  BY <1>5 DEF Calls, Matches
<1> HIDE DEF call
<1>7. ASSUME NEW s \in DOMAIN open', NEW t \in DOMAIN open',
             open'[s].decision = "managed" <=> open'[t].decision = "managed"
      PROVE  s = t
  BY <1>2, <1>6, <1>7, LocksExclude DEF Exclusive
<1>8. ASSUME NEW s \in DOMAIN open'
      PROVE  /\ open'[s] \in Calls
             /\ open'[s].decision = "managed" => ~open'[s].overtaken
             /\ ~open'[s].overtaken => /\ open'[s].started = match'.started /\ open'[s].rows = games'
                                       /\ match'.status # "COMPLETED"
  <2>1. CASE s = r
    BY <2>1, <1>2, <1>4, <1>5, <1>6
  <2>2. CASE s # r
    BY <2>2, <1>2, <1>4 DEF Exclusive
  <2> QED
    BY <2>1, <2>2
<1>9. Exclusive'
  BY <1>2, <1>7, <1>8 DEF Exclusive
<1>10. Counted'
  BY <1>4 DEF Counted, Recorded
<1> QED
  BY <1>4, <1>9, <1>10

LEMMA ReadKeeps ==
    ASSUME Inv, NEW r \in DOMAIN open, ReadGames(r)
    PROVE  Inv'
<1> USE DEF Inv, TypeInv
<1>1. /\ open' = [open EXCEPT ![r].read = TRUE, ![r].rows = games]
      /\ match' = match /\ games' = games /\ played' = played /\ late' = late
  BY DEF ReadGames
<1> DEFINE first == [open[r] EXCEPT !.read = TRUE]
           call == [first EXCEPT !.rows = games]
<1>2. first \in Calls /\ first.started = open[r].started
      /\ first.decision = open[r].decision /\ first.overtaken = open[r].overtaken
  BY DEF Exclusive, Calls
<1>3. call \in Calls /\ call.started = open[r].started /\ call.rows = games
      /\ call.decision = open[r].decision /\ call.overtaken = open[r].overtaken
  BY <1>2 DEF Calls
<1>4. /\ DOMAIN open' = DOMAIN open /\ \A s \in DOMAIN open : s # r => open'[s] = open[s]
      /\ open'[r] = call
  BY <1>1
<1> HIDE DEF first, call
<1>5. \A s \in DOMAIN open : /\ open'[s] \in Calls /\ open'[s].decision = open[s].decision
                              /\ open'[s].overtaken = open[s].overtaken
                              /\ open'[s].started = open[s].started
                              /\ open'[s].rows \in {open[s].rows, games}
  BY <1>3, <1>4 DEF Exclusive
<1>6. Exclusive'
  BY <1>1, <1>4, <1>5 DEF Exclusive
<1>7. Counted'
  BY <1>1 DEF Counted, Recorded
<1> QED
  BY <1>1, <1>6, <1>7

\* A rolled back decision leaves the others as they are.
LEMMA AbortKeeps ==
    ASSUME Inv, NEW r \in DOMAIN open, Abort(r)
    PROVE  Inv'
<1> USE DEF Inv, TypeInv
<1>1. /\ match' = match /\ games' = games /\ played' = played /\ late' = late
      /\ DOMAIN open' = DOMAIN open \ {r} /\ \A s \in DOMAIN open' : open'[s] = open[s]
  BY DEF Abort, Close
<1>2. Exclusive'
  BY <1>1 DEF Exclusive
<1>3. Counted'
  BY <1>1 DEF Counted, Recorded
<1> QED
  BY <1>1, <1>2, <1>3

\* Whoever is left behind by a commit was overtaken by it.
LEMMA CommittedKeeps ==
    ASSUME Inv, NEW r \in DOMAIN open, Committed(r), RowFree(r)
    PROVE  /\ Exclusive'
           /\ late' \in Int /\ late' = IF open[r].overtaken THEN late + 1 ELSE late
<1> USE DEF Inv, TypeInv
<1>1. /\ DOMAIN open' = DOMAIN open \ {r}
      /\ \A s \in DOMAIN open' :
            open'[s] = [open[s] EXCEPT !.overtaken = @ \/ open[r].decision = "managed"]
      /\ late' = IF Overtaken(r) THEN late + 1 ELSE late
  BY DEF Committed
<1>2. ASSUME NEW s \in DOMAIN open'
      PROVE  open[s].decision # "managed" /\ open[r].decision = "managed"
  BY <1>1, <1>2 DEF RowFree, RowLocked, Exclusive
<1>3. ASSUME NEW s \in DOMAIN open'
      PROVE  open'[s] \in Calls /\ open'[s].overtaken /\ open'[s].decision = open[s].decision
  <2> DEFINE call == open[s]
             more == call.overtaken \/ open[r].decision = "managed"
             after == [call EXCEPT !.overtaken = more]
  <2>1. call \in Calls /\ more = TRUE
    BY <1>1, <1>2, <1>3 DEF Exclusive
  <2>2. open'[s] = after
    BY <1>1, <1>3
  <2> HIDE DEF call, more
  <2>3. after \in Calls /\ after.overtaken /\ after.decision = call.decision
    BY <2>1 DEF Calls
  <2> QED
    BY <2>2, <2>3 DEF call
<1>4. Exclusive'
  BY <1>1, <1>2, <1>3 DEF Exclusive
<1>5. Overtaken(r) <=> open[r].overtaken
  BY DEF Overtaken, Exclusive
<1> QED
  BY <1>1, <1>4, <1>5

LEMMA CommitGameKeeps ==
    ASSUME Inv, NEW r \in DOMAIN open, CommitGame(r)
    PROVE  Inv'
<1> USE DEF Inv, TypeInv
<1> DEFINE number == Cardinality(Recorded(open[r].rows)) + 1
           e == open[r].winner
<1>1. /\ e \in Sides /\ open[r].rows \in GameRows
      /\ ~open[r].overtaken => open[r].started = match.started /\ match.status # "COMPLETED"
  BY DEF Exclusive, Calls
<1>2. /\ games' = [games EXCEPT ![number] = e] /\ number <= BestOf
      /\ match' = FreshMatch \/ match' = [match EXCEPT !.status = "COMPLETED", !.winner = e]
      /\ played' = IF open[r].started THEN played ELSE played + 1
      /\ Committed(r) /\ RowFree(r)
  BY DEF CommitGame
<1> HIDE DEF number, e
<1>3. /\ match' \in Matches /\ match'.status # "RESULT_CONFIRMATION"
      /\ match'.started => match'.status = "COMPLETED"
  <2>1. CASE match' = FreshMatch
    BY <2>1, FreshType DEF FreshMatch
  <2>2. CASE match' = [match EXCEPT !.status = "COMPLETED", !.winner = e]
    BY <1>1, <2>2 DEF Matches, Statuses
  <2> QED
    BY <1>2, <2>1, <2>2
<1>4. games' \in GameRows
  BY <1>1, <1>2 DEF GameRows
<1>5. Recorded(games') \subseteq Recorded(games) \cup {number}
  BY <1>2 DEF GameRows, Recorded
<1>6. Cardinality(Recorded(games')) <= Cardinality(Recorded(games)) + 1
  BY <1>5, RecordedGrows
<1>7. Exclusive' /\ late' \in Int /\ late' = IF open[r].overtaken THEN late + 1 ELSE late
  BY <1>2, CommittedKeeps
<1>8. played' \in Int /\ played' >= played
  BY <1>2
<1>9. Cardinality(Recorded(games')) <= played' + late'
  <2>1. CASE open[r].overtaken
    BY <2>1, <1>6, <1>7, <1>8, RecordedCounts DEF Counted
  <2>2. CASE ~open[r].overtaken
    BY <2>2, <1>1, <1>2, <1>6, <1>7, <1>8, RecordedCounts DEF Counted, Matches
  <2> QED
    BY <2>1, <2>2
<1>10. Counted'
  BY <1>3, <1>9 DEF Counted
<1> QED
  BY <1>3, <1>4, <1>7, <1>8, <1>10

LEMMA CommitSeriesKeeps ==
    ASSUME Inv, NEW r \in DOMAIN open, CommitSeries(r)
    PROVE  Inv'
<1> USE DEF Inv, TypeInv
<1>1. /\ games' = games /\ played' = played /\ open[r].winner \in Sides
      /\ match' = [match EXCEPT !.status = "COMPLETED", !.winner = open[r].winner]
      /\ Committed(r) /\ RowFree(r)
  BY DEF CommitSeries, Exclusive, Calls
<1>2. match' \in Matches /\ match'.status = "COMPLETED"
  BY <1>1 DEF Matches, Statuses
<1>3. Exclusive' /\ late' \in Int /\ late' >= late
  BY <1>1, CommittedKeeps
<1>4. Counted'
  BY <1>1, <1>2, <1>3, RecordedCounts DEF Counted
<1> QED
  BY <1>1, <1>2, <1>3, <1>4

LEMMA InvNext ==
    ASSUME Inv, [Next]_vars
    PROVE  Inv'
<1>1. CASE UNCHANGED vars
  BY <1>1 DEF vars, Inv, TypeInv, Exclusive, Counted, Recorded
<1>2. ASSUME NEW r \in Requests, NEW decision \in Handlers, Begin(r, decision)
      PROVE  Inv'
  BY <1>2, BeginKeeps
<1>3. ASSUME NEW r \in DOMAIN open, ReadGames(r) \/ CommitGame(r) \/ CommitSeries(r) \/ Abort(r)
      PROVE  Inv'
  BY <1>3, ReadKeeps, CommitGameKeeps, CommitSeriesKeeps, AbortKeeps
<1>4. ASSUME \/ Expire \/ \E side \in Sides, e \in Sides : SubmitResult(side, e)
             \/ \E side \in Sides : DisputeMatch(side)
      PROVE  Inv'
  BY <1>4, PassesSteps, PassesKeeps
<1>5. CASE StartGame \/ Replay
  BY <1>5, StartKeeps, ReplayKeeps
<1> QED
  BY <1>1, <1>2, <1>3, <1>4, <1>5, Zenon DEF Next

\* A match that is finished is left alone by whoever was not overtaken.
FinalStep ==
    match.status = "COMPLETED" /\ <<match, games>>' # <<match, games>> =>
        \E r \in DOMAIN open : Overtaken(r) /\ (CommitGame(r) \/ CommitSeries(r))

LEMMA FinalNext == Inv /\ [Next]_vars => FinalStep
<1> SUFFICES ASSUME Inv, [Next]_vars, match.status = "COMPLETED", <<match, games>>' # <<match, games>>
             PROVE  \E r \in DOMAIN open : Overtaken(r) /\ (CommitGame(r) \/ CommitSeries(r))
  BY DEF FinalStep
<1>1. \E r \in DOMAIN open : CommitGame(r) \/ CommitSeries(r)
  BY DEF Next, vars, StartGame, Expire, Unfinished, Live, Replay, SubmitResult, DisputeMatch, Begin,
         ReadGames, Abort
<1>2. \A r \in DOMAIN open : Overtaken(r)
  BY DEF Inv, Exclusive, Overtaken
<1> QED
  BY <1>1, <1>2

\* Decisions that all take the tournament's advisory lock, or all the lock of the match row,
\* are never overtaken.
OneLock == "managed" \notin Handlers \/ Handlers \subseteq {"managed"}

LEMMA NeverLate ==
    ASSUME OneLock
    PROVE  Spec => [](late = 0)
<1> DEFINE Alone == late = 0 /\ \A r \in DOMAIN open : ~open[r].overtaken
<1>1. Init => Alone
  BY DEF Init
<1>2. ASSUME Inv, Alone, [Next]_vars
      PROVE  Alone'
  <2>1. CASE UNCHANGED <<open, late>>
    BY <1>2, <2>1
  <2>2. ASSUME NEW r \in Requests, NEW decision \in Handlers, Begin(r, decision)
        PROVE  Alone'
    <3>1. PICK e : open' = [s \in DOMAIN open \cup {r} |->
                    IF s = r THEN [decision |-> decision, winner |-> e, started |-> match.started,
                                   read |-> FALSE, rows |-> games, overtaken |-> FALSE]
                    ELSE open[s]]
      BY <2>2 DEF Begin
    <3> QED
      BY <1>2, <2>2, <3>1 DEF Begin
  <2>3. ASSUME NEW r \in DOMAIN open, ReadGames(r)
        PROVE  Alone'
    <3>1. \A s \in DOMAIN open : open[s] \in Calls
      BY <1>2 DEF Inv, Exclusive
    <3>2. \A s \in DOMAIN open : open'[s].overtaken = open[s].overtaken
      BY <2>3, <3>1 DEF ReadGames, Calls
    <3> QED
      BY <1>2, <2>3, <3>2 DEF ReadGames
  <2>4. ASSUME NEW r \in DOMAIN open, CommitGame(r) \/ CommitSeries(r)
        PROVE  Alone'
    <3>1. DOMAIN open = {r}
      <4>1. \A s \in DOMAIN open : open[s].decision = "managed" <=> open[r].decision = "managed"
        BY <1>2 DEF Inv, Exclusive, Calls, OneLock
      <4> QED
        BY <4>1, <1>2 DEF Inv, Exclusive
    <3> QED
      BY <1>2, <2>4, <3>1 DEF CommitGame, CommitSeries, Committed, Overtaken
  <2>5. ASSUME NEW r \in DOMAIN open, Abort(r)
        PROVE  Alone'
    BY <1>2, <2>5 DEF Abort, Close
  <2> QED
    BY <1>2, <2>1, <2>2, <2>3, <2>4, <2>5
    DEF Next, vars, StartGame, Expire, Replay, SubmitResult, DisputeMatch
<1>3. Inv /\ [Next]_vars => Inv'
  BY InvNext
<1> QED
  BY <1>1, <1>2, <1>3, InvInit, PTL DEF Spec

-----------------------------------------------------------------------------
(* What the locks are worth *)

\* However many people decide a game at the same time, and under whichever of the two locks, it
\* is recorded once, and once more only for each decision that a managed confirmation overtook.
THEOREM GamesCountOnce == Spec => []EveryGameCountsOnce
<1>1. Inv /\ [Next]_vars => Inv'
  BY InvNext
<1>2. Inv => EveryGameCountsOnce
  BY DEF Inv, Counted, EveryGameCountsOnce
<1> QED
  BY <1>1, <1>2, InvInit, PTL DEF Spec

\* Where the decisions share a lock, every game counts once.
THEOREM OneLockCountsOnce ==
    ASSUME OneLock
    PROVE  Spec => [](Cardinality(Recorded(games)) <= played)
<1>1. EveryGameCountsOnce /\ late = 0 /\ played \in Int => Cardinality(Recorded(games)) <= played
  BY RecordedCounts DEF EveryGameCountsOnce
<1>2. Inv /\ [Next]_vars => Inv'
  BY InvNext
<1>3. Inv => EveryGameCountsOnce /\ played \in Int
  BY DEF Inv, TypeInv, Counted, EveryGameCountsOnce
<1> QED
  BY <1>1, <1>2, <1>3, InvInit, NeverLate, PTL DEF Spec

\* No decision, replay or deadline touches a completed match or its games, but for a decision
\* that a managed confirmation overtook.
THEOREM FinishedStaysFinal == Spec => OnlyOvertakenDecisionsRewrite
<1>1. Inv /\ [Next]_vars => Inv'
  BY InvNext
<1>2. Spec => [][FinalStep]_vars
  BY <1>1, InvInit, FinalNext, PTL DEF Spec
<1>3. OnlyOvertakenDecisionsRewrite <=> [][FinalStep]_vars
  BY DEF OnlyOvertakenDecisionsRewrite, FinalStep
<1> QED
  BY <1>2, <1>3

=============================================================================
