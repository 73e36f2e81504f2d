------------------------- MODULE MCTournamentBracket -------------------------
(* Small instances of TournamentBracket: the entries' ratings include a tie   *)
(* and an unknown one, so that every branch of the ranking is used.           *)
EXTENDS TournamentBracket

MCMmr == [e \in Entries |-> IF e = 3 THEN NoMmr ELSE IF e \in {1, 2} THEN 2 ELSE 1]
MCCreatedAt == [e \in Entries |-> e]

-----------------------------------------------------------------------------
\* Small tournaments play everything: four entries in double elimination,
\* five in single elimination, the others being spectators without a team.
\* Beyond that the first n entries, up to eight, are registered.
Small == IF format = "DOUBLE_ELIMINATION" THEN 4 ELSE 5
MCStatuses ==
    {[e \in Entries |-> IF e <= Small THEN s[e] ELSE "RECRUITING"] :
        s \in [1..Small -> {"REGISTERED", "RECRUITING", "RESERVE"}]}
    \cup {[e \in Entries |-> IF e <= n THEN "REGISTERED" ELSE "RECRUITING"] : n \in Small + 1..Cardinality(Entries)}
MCInit == format \in Formats /\ entryStatus \in MCStatuses /\ Init

\* Larger brackets play their series in one fixed order, which reaches every
\* combination of results, with both steps of a decision taken as one.
Kind(k) == IF k[1] = "MAIN" THEN 1 ELSE 2
Precedes(k, m) ==
    \/ Kind(k) < Kind(m)
    \/ Kind(k) = Kind(m) /\ (k[2] < m[2] \/ (k[2] = m[2] /\ k[3] < m[3]))
Open == {k \in DOMAIN matches : matches[k].status # "COMPLETED"}
NextInOrder ==
    \E k \in Open : \E w \in {matches[k].a, matches[k].b} :
        /\ \A m \in Open \ {k} : Precedes(k, m)
        /\ Reconcile(Decided(k, w), seeds, rounds)
        /\ UNCHANGED <<registration, confirming, deciding, cancelling, overwritten>>

\* Six teams in double elimination are free again once the better seeds have
\* won the first two upper rounds: from there three series are open at once,
\* so that the scheduler can create a match that an open confirmation is about
\* to create.
Opening == {<<"MAIN", r, i>> : r \in 1..2, i \in 1..4} \cap DOMAIN matches
BetterSeedWon(k) ==
    /\ matches[k].status = "COMPLETED"
    /\ \A e \in {matches[k].a, matches[k].b} :
         Results!SeedOf(matches[k].winner) <= Results!SeedOf(e)
Free ==
    \/ Len(seeds) <= Small
    \/ /\ Len(seeds) = 6 /\ format = "DOUBLE_ELIMINATION"
       /\ Cardinality(Opening) = 4 /\ \A k \in Opening : BetterSeedWon(k)
\* Nothing is promised of a bracket whose results were rewritten.
MCNext == Intact /\ IF Free THEN Next ELSE NextInOrder
MCSpec == MCInit /\ [][MCNext]_vars /\ SchedulerFairness
=============================================================================
