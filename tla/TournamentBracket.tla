-------------------------- MODULE TournamentBracket --------------------------
(***************************************************************************)
(* The life of one automatic-bracket tournament: closing registration,     *)
(* freezing the seeds, scheduling ready matches, recording series results, *)
(* replacing a side by a reserve squad, cancellation, and the 30 second    *)
(* scheduler (apps/api/src/modules/tournaments).                           *)
(*                                                                         *)
(* Handlers that hold the tournament advisory lock are one atomic action,  *)
(* except where the code leaves other transactions room:                   *)
(*  - confirmResult and resolveAdminMatch read the match by a plain SELECT *)
(*    and then update it by its id alone: their UPDATE waits for the row   *)
(*    but does not look at its status again;                               *)
(*  - confirmManagedStage records a result under the match ROW lock only   *)
(*    and reconciles the bracket from what it read; the rows it creates    *)
(*    become visible at its commit;                                        *)
(*  - update(status = CANCELLED) holds the advisory lock but waits for the *)
(*    row locks of the matches its UPDATE selected.                        *)
(* A match is SCHEDULED (never started), IN_PROGRESS (started and not      *)
(* settled, all the stages of the match workflow), COMPLETED or CANCELLED. *)
(* Time is left out: a scheduler step may happen whenever it is due.       *)
(***************************************************************************)
EXTENDS Bracket, SequencesExt

CONSTANTS
    Entries,        \* tournament entries (squads)
    Mmr,            \* average MMR of an entry's roster, NoMmr when one is unknown
    CreatedAt,      \* creation order of the entries (createdAt, then id)
    NoMmr

ASSUME RankingAssumption ==
    /\ Mmr \in [Entries -> Nat \cup {NoMmr}] /\ NoMmr \notin Nat
    /\ CreatedAt \in [Entries -> Nat]
    /\ \A e, f \in Entries : CreatedAt[e] = CreatedAt[f] => e = f
ASSUME EntriesAssumption == IsFiniteSet(Entries) /\ NoEntry \notin Entries

VARIABLES
    format,         \* bracketFormat, fixed when the tournament is created
    status,         \* the tournament's status
    entryStatus,    \* status of each entry
    fullRoster,     \* entries with five players in five different roles
    rounds,         \* log2 of bracketSize, 0 until bracketGeneratedAt is set
    seeds,          \* dotaTournamentBracketSeed rows, in seed order
    matches,        \* dotaTournamentMatch rows by node key
    confirming,     \* open confirmManagedStage transactions, by the key whose row they lock
    deciding,       \* the open decision of a player or moderator: its match and outcome
    cancelling,     \* match keys the pending cancellation's UPDATE waits for, or NotCancelling
    overwritten     \* history: matches that were rewritten after they were settled

registration == <<format, entryStatus, fullRoster, rounds, seeds>>
vars == <<registration, status, matches, confirming, deciding, cancelling, overwritten>>

Unresolved == {"SCHEDULED", "IN_PROGRESS"}
NotCancelling == {<<>>}     \* not a set of keys
AdvisoryLockFree == cancelling = NotCancelling /\ DOMAIN deciding = {}
RowLocked(k) == k \in DOMAIN confirming

Current == BuildBracket(rounds, seeds, matches, format)

-----------------------------------------------------------------------------
\* rankEntries: known MMR first, higher first, then the earlier entry.
RankedBefore(e, f) ==
    \/ Mmr[e] # NoMmr /\ Mmr[f] = NoMmr
    \/ Mmr[e] # NoMmr /\ Mmr[f] # NoMmr /\ Mmr[e] > Mmr[f]
    \/ Mmr[e] = Mmr[f] /\ CreatedAt[e] < CreatedAt[f]
RankEntries(S) ==
    [i \in 1..Cardinality(S) |-> CHOOSE e \in S : Cardinality({f \in S : RankedBefore(f, e)}) = i - 1]

\* Registration closing turns the squads still recruiting into reserves.
RecruitsToReserve ==
    [e \in Entries |-> IF entryStatus[e] = "RECRUITING" THEN "RESERVE" ELSE entryStatus[e]]

\* reconcileLocked on a snapshot of the tournament: the rows to insert and
\* whether the tournament is complete.
NewMatch(n) == [a |-> n.entryA, b |-> n.entryB, status |-> "SCHEDULED", winner |-> NoEntry]
ReadyMatches(bracket) == [k \in bracket.ready |-> NewMatch(bracket.nodes[k])]
Reconcile(ms, sds, rnds) ==
    \E rows \in {ms} : \E bracket \in {BuildBracket(rnds, sds, rows, format)} :
        /\ matches' = Over(ReadyMatches(bracket), rows)
        /\ status' = IF bracket.complete THEN "COMPLETED" ELSE "IN_PROGRESS"

-----------------------------------------------------------------------------
Init ==
    /\ format \in Formats
    /\ status = "REGISTRATION_OPEN"
    /\ entryStatus \in [Entries -> {"REGISTERED", "RECRUITING", "RESERVE"}]
    /\ fullRoster \in SUBSET Entries
    /\ \A e \in Entries : /\ entryStatus[e] = "REGISTERED" => e \in fullRoster
                          /\ entryStatus[e] = "RECRUITING" => e \notin fullRoster
    /\ rounds = 0 /\ seeds = <<>>
    /\ matches = <<>> /\ confirming = <<>>
    /\ deciding = <<>> /\ cancelling = NotCancelling /\ overwritten = {}

\* scan: registration whose closing time has passed.
CloseRegistration ==
    /\ AdvisoryLockFree
    /\ status = "REGISTRATION_OPEN"
    /\ status' = "REGISTRATION_CLOSED"
    /\ entryStatus' = RecruitsToReserve
    /\ UNCHANGED <<format, fullRoster, rounds, seeds, matches, confirming, deciding, cancelling, overwritten>>

\* startLocked, from the scheduler or from an organizer's IN_PROGRESS.
Registered == {e \in Entries : entryStatus[e] = "REGISTERED"}
Start ==
    /\ AdvisoryLockFree
    /\ status \in {"REGISTRATION_OPEN", "REGISTRATION_CLOSED"}
    /\ rounds = 0
    /\ Registered \subseteq fullRoster /\ Cardinality(Registered) \in 2..256
    /\ entryStatus' = RecruitsToReserve
    /\ seeds' = RankEntries(Registered)
    /\ rounds' = Log2Ceil(Cardinality(Registered))
    /\ Reconcile(matches, seeds', rounds')
    /\ UNCHANGED <<format, fullRoster, confirming, deciding, cancelling, overwritten>>

\* startLocked(strict = false) with too few teams only closes registration.
StartTooFew ==
    /\ AdvisoryLockFree
    /\ status = "REGISTRATION_OPEN"
    /\ Cardinality(Registered) < 2
    /\ status' = "REGISTRATION_CLOSED"
    /\ entryStatus' = RecruitsToReserve
    /\ UNCHANGED <<format, fullRoster, rounds, seeds, matches, confirming, deciding, cancelling, overwritten>>

-----------------------------------------------------------------------------
\* Mutant: a settled match can be decided again.
NotCancelled(k) == k \in DOMAIN matches /\ matches[k].status # "CANCELLED"

\* The match workflow, as far as the bracket sees it.
Unsettled(k) == k \in DOMAIN matches /\ matches[k].status \in Unresolved

\* A status that nobody can change under a handler that has read it.
Playable(k) == Unsettled(k) /\ ~RowLocked(k)

\* startMatch and startManagedMatch, under the advisory lock.
StartMatch(k) ==
    /\ AdvisoryLockFree
    /\ Playable(k) /\ matches[k].status = "SCHEDULED"
    /\ matches' = [matches EXCEPT ![k].status = "IN_PROGRESS"]
    /\ UNCHANGED <<registration, status, confirming, deciding, cancelling, overwritten>>

\* resolveAdminMatch REPLAY: the game is dropped and the match not yet started.
ReplayMatch(k) ==
    /\ AdvisoryLockFree
    /\ Playable(k) /\ matches[k].status = "IN_PROGRESS"
    /\ LET replayed == [matches EXCEPT ![k].status = "SCHEDULED"]
       IN  IF status = "IN_PROGRESS" THEN Reconcile(replayed, seeds, rounds)
           ELSE matches' = replayed /\ UNCHANGED status
    /\ UNCHANGED <<registration, confirming, deciding, cancelling, overwritten>>

\* A series that goes on (NoEntry) has its next game ahead.
Decided(k, outcome) ==
    IF outcome = NoEntry THEN [matches EXCEPT ![k].status = "IN_PROGRESS", ![k].winner = NoEntry]
    ELSE [matches EXCEPT ![k].status = "COMPLETED", ![k].winner = outcome]

\* confirmResult, and resolveAdminMatch awarding the game or the series: the
\* match is read under the advisory lock alone.
BeginDecision(k, outcome) ==
    /\ AdvisoryLockFree
    /\ Unsettled(k) /\ outcome \in {matches[k].a, matches[k].b, NoEntry}
    /\ deciding' = [c \in {k} |-> outcome]
    /\ UNCHANGED <<registration, status, matches, confirming, cancelling, overwritten>>

\* The UPDATE by id goes through once the row is free, whatever a managed
\* confirmation has made of it, and reconcileLocked follows.
CommitDecision(k) ==
    /\ k \in DOMAIN deciding /\ ~RowLocked(k)
    /\ IF status = "IN_PROGRESS" THEN Reconcile(Decided(k, deciding[k]), seeds, rounds)
       ELSE matches' = Decided(k, deciding[k]) /\ UNCHANGED status
    /\ overwritten' = IF Unsettled(k) THEN overwritten ELSE overwritten \cup {k}
    /\ deciding' = <<>>
    /\ UNCHANGED <<registration, confirming, cancelling>>

\* Too many games, a conflicting row or a timeout: it is rolled back.
AbortDecision(k) ==
    /\ k \in DOMAIN deciding /\ deciding' = <<>>
    /\ UNCHANGED <<registration, status, matches, confirming, cancelling, overwritten>>

\* confirmManagedStage(RESULT), first half: the row is locked, the result
\* recorded in the transaction, and reconcileLocked reads the other rows.  One
\* that leaves the series open changes no row the bracket reads: left out.
ConfirmManagedResult(k, winner) ==
    /\ Playable(k) /\ matches[k].status = "IN_PROGRESS"
    /\ winner \in {matches[k].a, matches[k].b}
    /\ \E bracket \in {BuildBracket(rounds, seeds, Decided(k, winner), format)} :
         LET active == status = "IN_PROGRESS" IN
         confirming' = Over([c \in {k} |-> [winner |-> winner, completes |-> active /\ bracket.complete,
                                            create |-> IF active THEN ReadyMatches(bracket) ELSE <<>>]],
                            confirming)
    /\ UNCHANGED <<registration, status, matches, deciding, cancelling, overwritten>>

\* Second half: the ready rows it saw are inserted and everything commits.
\* The tournament row it updates when complete is locked by a cancellation.
CommitManagedResult(k) ==
    /\ RowLocked(k)
    /\ DOMAIN confirming[k].create \cap DOMAIN matches = {}
    /\ confirming[k].completes => cancelling = NotCancelling
    /\ matches' = Over(confirming[k].create, Decided(k, confirming[k].winner))
    /\ status' = IF confirming[k].completes THEN "COMPLETED" ELSE status
    /\ confirming' = [c \in DOMAIN confirming \ {k} |-> confirming[c]]
    /\ UNCHANGED <<registration, deciding, cancelling, overwritten>>

\* A row it wants to insert already exists (the unique constraint), or the
\* cancellation and the completing confirmation wait for each other and
\* PostgreSQL picks it as the deadlock's victim: everything is rolled back.
AbortManagedResult(k) ==
    /\ RowLocked(k)
    /\ \/ DOMAIN confirming[k].create \cap DOMAIN matches # {}
       \/ confirming[k].completes /\ cancelling # NotCancelling
    /\ confirming' = [c \in DOMAIN confirming \ {k} |-> confirming[c]]
    /\ UNCHANGED <<registration, status, matches, deciding, cancelling, overwritten>>

-----------------------------------------------------------------------------
\* Mutant: the scheduler never looks at active tournaments again.
NoScan == FALSE /\ UNCHANGED vars

\* scan: reconcile(tournamentId) for an active tournament.
ScanReconcile ==
    /\ AdvisoryLockFree
    /\ status = "IN_PROGRESS" /\ rounds > 0
    /\ Reconcile(matches, seeds, rounds)
    /\ UNCHANGED <<registration, confirming, deciding, cancelling, overwritten>>

\* Mutant: the incumbent's played matches are not counted.
OnlyAssignmentIgnoringPlayed(e, k) ==
    \A m \in DOMAIN matches \ {k} : e \in {matches[m].a, matches[m].b} => matches[m].status \notin Unresolved

\* The entry has no other match that was played or is still assigned to it.
OnlyAssignment(e, k) ==
    \A m \in DOMAIN matches \ {k} : e \in {matches[m].a, matches[m].b} => matches[m].status = "CANCELLED"

\* Mutant: the replacement does not take the seed over.
SeedsKept(incumbent, reserve) == seeds

\* The incumbent's bracket seed, if it has one, becomes the reserve's.
SeedsHandedOver(incumbent, reserve) ==
    [i \in DOMAIN seeds |-> IF seeds[i] = incumbent THEN reserve ELSE seeds[i]]

\* replaceMatchSideWithReserve: before its first match, a registered entry is
\* disqualified and a complete reserve squad takes its side and its seed.
InMatch(e, k) == e \in {matches[k].a, matches[k].b}
ReplaceSide(k, incumbent, reserve) ==
    /\ AdvisoryLockFree
    /\ status = "IN_PROGRESS"
    /\ Playable(k) /\ matches[k].status = "SCHEDULED" /\ InMatch(incumbent, k)
    /\ entryStatus[reserve] = "RESERVE" /\ reserve \in fullRoster
    /\ \A m \in DOMAIN matches : ~InMatch(reserve, m)
    /\ OnlyAssignment(incumbent, k)
    /\ entryStatus[incumbent] = "REGISTERED"
    /\ entryStatus' = [entryStatus EXCEPT ![incumbent] = "DISQUALIFIED", ![reserve] = "REGISTERED"]
    /\ matches' = [matches EXCEPT
                     ![k] = IF incumbent = @.a THEN [@ EXCEPT !.a = reserve] ELSE [@ EXCEPT !.b = reserve]]
    /\ seeds' = SeedsHandedOver(incumbent, reserve)
    /\ UNCHANGED <<format, status, fullRoster, rounds, confirming, deciding, cancelling, overwritten>>

\* update(status = CANCELLED): the tournament row is updated and the UPDATE of
\* its unfinished matches selects the rows committed so far.
BeginCancel ==
    /\ AdvisoryLockFree
    /\ status \in {"REGISTRATION_OPEN", "REGISTRATION_CLOSED", "IN_PROGRESS"}
    /\ cancelling' = {k \in DOMAIN matches : matches[k].status \in Unresolved}
    /\ UNCHANGED <<registration, status, matches, confirming, deciding, overwritten>>

\* Once no selected row is locked, those still unfinished are cancelled.
CommitCancel ==
    /\ cancelling # NotCancelling
    /\ \A k \in cancelling : ~RowLocked(k)
    /\ status' = "CANCELLED"
    /\ matches' = [k \in DOMAIN matches |->
                     IF k \in cancelling /\ matches[k].status \in Unresolved
                     THEN [matches[k] EXCEPT !.status = "CANCELLED"] ELSE matches[k]]
    /\ cancelling' = NotCancelling
    /\ UNCHANGED <<registration, confirming, deciding, overwritten>>

\* The cancellation is the deadlock's victim instead.
AbortCancel ==
    /\ cancelling # NotCancelling
    /\ \E k \in cancelling : RowLocked(k) /\ confirming[k].completes
    /\ cancelling' = NotCancelling
    /\ UNCHANGED <<registration, status, matches, confirming, deciding, overwritten>>

-----------------------------------------------------------------------------
Next ==
    \/ CloseRegistration \/ Start \/ StartTooFew \/ ScanReconcile
    \/ \E k \in DOMAIN matches :
          \/ StartMatch(k) \/ ReplayMatch(k)
          \/ \E w \in {matches[k].a, matches[k].b} : ConfirmManagedResult(k, w)
          \/ \E w \in {matches[k].a, matches[k].b, NoEntry} : BeginDecision(k, w)
          \/ \E i, r \in Entries : ReplaceSide(k, i, r)
    \/ \E k \in DOMAIN confirming : CommitManagedResult(k) \/ AbortManagedResult(k)
    \/ \E k \in DOMAIN deciding : CommitDecision(k) \/ AbortDecision(k)
    \/ BeginCancel \/ CommitCancel \/ AbortCancel

Spec == Init /\ [][Next]_vars

\* What the process itself drives: the scheduler runs every 30 seconds, and an
\* open transaction commits or is rolled back.  Results are the players' and
\* the moderators' doing: no fairness is assumed of them.
SchedulerFairness ==
    /\ WF_vars(ScanReconcile) /\ WF_vars(CommitCancel \/ AbortCancel)
    /\ WF_vars(\E k \in DOMAIN confirming : CommitManagedResult(k) \/ AbortManagedResult(k))
    /\ WF_vars(\E k \in DOMAIN deciding : CommitDecision(k) \/ AbortDecision(k))
FairSpec == Spec /\ SchedulerFairness

-----------------------------------------------------------------------------
\* Properties

\* "Completed matches and lineups are immutable" (CONTEXT.md, "Tournament
\* reserve squad"): the bracket has already advanced on the result.
CompletedMatchesAreImmutable ==
    [][\A k \in DOMAIN matches : matches[k].status = "COMPLETED" => matches'[k] = matches[k]]_vars

\* A decision that read its match before a managed confirmation settled it
\* breaks that promise, and with it every other about the bracket.  They hold
\* until the first such decision commits.
Intact == overwritten = {}

\* An entry never has two unresolved series at once (CONTEXT.md, "Tournament
\* match"), although matches are created by several transactions from
\* different snapshots of the bracket.
OneUnresolvedSeries ==
    Intact => \A e \in Entries :
        Cardinality({k \in DOMAIN matches : InMatch(e, k) /\ matches[k].status \in Unresolved}) <= 1

\* Every match row is a node of the bracket derived from the seeds and the
\* results, with that node's two sides: no row is left behind by a
\* replacement or by a result recorded elsewhere in the bracket.
RowsMatchNodes ==
    Intact /\ rounds > 0 =>
      LET nodes == Current.nodes
      IN  /\ DOMAIN matches \subseteq DOMAIN nodes
          /\ \A k \in DOMAIN matches :
                matches[k].a = nodes[k].entryA /\ matches[k].b = nodes[k].entryB

Losses(e) == Cardinality({k \in DOMAIN matches : InMatch(e, k) /\ matches[k].status = "COMPLETED"
                                                             /\ matches[k].winner # e})
\* A team that has lost its last chance is given no further series: one loss
\* leaves only the third-place match in single elimination, two losses leave
\* nothing in double elimination.
EliminatedTeamsStopPlaying ==
    Intact => \A k \in DOMAIN matches : matches[k].status \in Unresolved =>
      \A e \in {matches[k].a, matches[k].b} :
        Losses(e) <= IF format = "DOUBLE_ELIMINATION" \/ k[1] = "BRONZE" THEN 1 ELSE 0

\* A completed tournament has played the right number of series (n - 1 and the
\* third-place match, or 2n - 2), has none left open, and its podium names
\* different registered teams: two, and a third when three or more played.
CompletedIsDecided ==
    Intact /\ status = "COMPLETED" =>
      LET n == Len(seeds)
          bracket == Current
          podium == bracket.podium
          places == {i \in 1..3 : podium[i] # NoEntry}
      IN  /\ bracket.complete
          /\ \A k \in DOMAIN matches : matches[k].status = "COMPLETED"
          /\ Cardinality(DOMAIN matches) =
                IF format = "DOUBLE_ELIMINATION" THEN 2 * n - 2 ELSE IF n >= 4 THEN n ELSE n - 1
          /\ places = 1..(IF n >= 3 THEN 3 ELSE 2)
          /\ \A i, j \in places : podium[i] = podium[j] => i = j
          /\ \A i \in places : entryStatus[podium[i]] = "REGISTERED"

\* A settled series keeps its winner and its loser in the bracket, whatever is
\* replaced, replayed or recorded elsewhere later.
SettledSeriesStay ==
    [][Intact' /\ rounds > 0 =>
         \E before \in {Current.nodes}, after \in {Current'.nodes} :
             \A k \in DOMAIN before : before[k].hasMatch /\ before[k].resolved =>
               after[k].winner = before[k].winner /\ after[k].loser = before[k].loser]_vars

\* Whatever the interleaving of confirmations, replacements, replays, scans and
\* cancellation, the tournament is its frozen seeds and a growing set of
\* results, each for a node of the bracket they determine.
SettledRows == [k \in {m \in DOMAIN matches : matches[m].status = "COMPLETED"} |-> matches[k]]
SeedLists == {s \in Seq(Entries) : IsInjective(s)}
Results == INSTANCE BracketResults WITH
    SeedLists <- SeedLists, Substitutes <- Entries, format <- format,
    frozen <- seeds, size <- rounds, results <- SettledRows
ImplementsBracketResults == Results!Init /\ [][Intact' => Results!Next]_(Results!vars)

\* The promises of BracketResults about seeding and progress.
SeedingWorks == Intact => Results!SeedingWorks
NeverStuck == Intact => Results!NeverStuck

\* When every created series is settled the tournament moves on: the scheduler
\* creates the next matches or completes it, even when concurrent confirmations
\* each missed the other's result and created nothing (adr/0004: "The scheduler
\* reconciles active events to recover advancement").
AllSettled == status = "IN_PROGRESS" /\ \A k \in DOMAIN matches : matches[k].status = "COMPLETED"
AdvancementRecovers == AllSettled ~> ~AllSettled \/ ~Intact

\* adr/0004: "cancellation applies to the whole tournament and cancels its
\* unfinished matches".
CancellationSettlesMatches ==
    status = "CANCELLED" => \A k \in DOMAIN matches : matches[k].status \notin Unresolved
=============================================================================
