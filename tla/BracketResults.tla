---------------------------- MODULE BracketResults ----------------------------
(***************************************************************************)
(* What an automatic bracket promises, apart from how its matches are      *)
(* scheduled: a tournament is its frozen seeds and the confirmed results.  *)
(* A result is only ever added, for a node of the bracket whose two sides  *)
(* are known, and a seed changes hands only before its team's first        *)
(* result.  TournamentBracket implements this specification.               *)
(***************************************************************************)
EXTENDS Bracket

CONSTANTS
    SeedLists,      \* the seed sequences a start may freeze
    Substitutes     \* entries that may take over a seed

VARIABLES
    format,         \* bracketFormat
    frozen,         \* the seeds, <<>> before the start
    size,           \* log2 of the bracket size
    results         \* completed series by node key

vars == <<format, frozen, size, results>>

Derived == With(results, LAMBDA rows : BuildBracket(size, frozen, rows, format))

Init == format \in Formats /\ frozen = <<>> /\ size = 0 /\ results = <<>>

\* startLocked: 2 to 256 teams, the next power of two.
Freeze ==
    /\ size = 0
    /\ frozen' \in SeedLists /\ Len(frozen') \in 2..256
    /\ size' = Log2Ceil(Len(frozen'))
    /\ UNCHANGED <<format, results>>

\* A series of the bracket is settled.
Playable(nodes, key) == ~nodes[key].hasMatch /\ NoEntry \notin {nodes[key].entryA, nodes[key].entryB}
Settle ==
    /\ size > 0
    /\ \E nodes \in {Derived.nodes} : \E key \in DOMAIN nodes :
         /\ Playable(nodes, key)
         /\ \E w \in {nodes[key].entryA, nodes[key].entryB} :
              results' = Over([k \in {key} |-> [a |-> nodes[key].entryA, b |-> nodes[key].entryB,
                                                 status |-> "COMPLETED", winner |-> w]], results)
    /\ UNCHANGED <<format, frozen, size>>

\* A team without a result hands its seed to a substitute.
HandOver ==
    /\ \E i \in DOMAIN frozen, s \in Substitutes :
         /\ \A j \in DOMAIN frozen : frozen[j] # s
         /\ \A key \in DOMAIN results : frozen[i] \notin {results[key].a, results[key].b}
         /\ frozen' = [frozen EXCEPT ![i] = s]
    /\ UNCHANGED <<format, size, results>>

Next == Freeze \/ Settle \/ HandOver
Spec == Init /\ [][Next]_vars

-----------------------------------------------------------------------------
\* Properties of every bracket

SeedOf(e) == CHOOSE i \in DOMAIN frozen : frozen[i] = e

\* Standard placement (adr/0004): the best 2^j teams cannot meet in the upper
\* bracket while more than 2^j teams are in it.
SeedSeparation ==
    \A k \in DOMAIN results : k[1] = "MAIN" =>
        \E side \in {results[k].a, results[k].b} : SeedOf(side) > 2^(size - k[2])

\* When the better seed wins every series the podium is the three best seeds
\* (tournament-bracket.test.ts, "all team counts advance to one final").
FavouritesWinPodium ==
    size > 0 /\ (\A k \in DOMAIN results : \A s \in {results[k].a, results[k].b} : SeedOf(results[k].winner) <= SeedOf(s)) =>
        LET bracket == Derived
        IN  bracket.complete => bracket.podium = <<frozen[1], frozen[2], IF Len(frozen) > 2 THEN frozen[3] ELSE NoEntry>>

\* "Cross the drop-ins when possible to postpone immediate rematches": a team
\* that drops from upper round 2 does not meet in lower round 2 the team it
\* sent down in upper round 1.
NoImmediateRematch ==
    size > 2 => \A k \in DOMAIN results : k[1] = "LOWER" /\ k[2] = 2 =>
        \A m \in DOMAIN results : m[1] = "MAIN" =>
            {results[m].a, results[m].b} # {results[k].a, results[k].b}

\* Seeding does what it is for, whatever the results: the best are kept apart, win when they
\* are favourites, and nobody is sent straight back against the same opponent.
SeedingWorks == SeedSeparation /\ FavouritesWinPodium /\ NoImmediateRematch

\* Some series can always be settled until the bracket is complete, and none
\* afterwards: byes and missing losers never leave a bracket stuck.
NeverStuck ==
    size > 0 =>
      LET bracket == Derived
      IN  bracket.complete <=> \A k \in DOMAIN bracket.nodes : ~Playable(bracket.nodes, k)
=============================================================================
