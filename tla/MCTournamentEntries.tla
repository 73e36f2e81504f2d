------------------------ MODULE MCTournamentEntries ------------------------
(***************************************************************************)
(* Small instances of TournamentEntries, in three scopes that each leave   *)
(* out what the others explore: companies and their applications; searches *)
(* and the matcher; limits, deadlines, staff and permanent teams.          *)
(***************************************************************************)
EXTENDS TournamentEntries, FiniteSetsExt, TLC

CONSTANTS
    MaxPending,     \* bound on the applications pending at once
    MaxSearches     \* bound on the searches started and cancelled in all

VARIABLE scope

MCInit ==
    /\ Init /\ scope \in {"companies", "matching", "limits"}
    /\ scope # "limits" => slots = 1

Applications ==
    MapThenSumSet(LAMBDA e : Cardinality({u \in Users : requests[e][u] # NoRequest}), Entries)
Searched == MapThenSumSet(LAMBDA u : queue[u].generation, Users)
Running == Cardinality({i \in Instances : pass[i].running})

AllOpen == \A e \in Entries : entry[e].joinMode = "OPEN"
AllAssigned == \A e \in Entries, u \in Users : roster[e][u] # "unassigned"

\* A team registers with its captain alone: the others can only join.
FoundersOnly == \A e \in Entries : ~Active(e) /\ Active(e)' => Cardinality(Members(roster[e])') = 1

\* Players keep the positions they joined for and captains the mode they chose.
Settled ==
    \A e \in Entries : Active(e) =>
        /\ entry'[e].joinMode = entry[e].joinMode
        /\ \A u \in Members(roster[e]) : roster'[e][u] \in {roster[e][u], "out"}

InCompanies ==
    /\ PlayerStep \/ TeamStep \/ CompaniesStep \/ UpdateTournament("CLOSED", slots)
    /\ registration' # "LATE" /\ AllOpen' /\ AllAssigned' /\ FoundersOnly
    /\ Applications' <= MaxPending

InMatching ==
    /\ PlayerStep \/ SearchStep \/ MatcherStep
    /\ \A e \in Entries : ~entry'[e].company
    /\ Settled /\ registration' # "LATE"
    /\ Applications' <= 1 /\ Searched' <= MaxSearches /\ Searched' + Running' <= 4

InLimits ==
    /\ PlayerStep \/ TeamStep \/ SearchStep \/ MatcherStep \/ TournamentStep
    /\ \A e \in Entries : ~entry'[e].company
    /\ AllOpen' /\ Searched' <= 1 /\ Running' <= 1 /\ ~lease'.lapsed
    /\ \A i \in Instances : pass'[i].tickets = {}
    /\ Searched' > 0 => slots' = 1

MCNext ==
    /\ \/ scope = "companies" /\ InCompanies
       \/ scope = "matching" /\ InMatching
       \/ scope = "limits" /\ InLimits
    /\ UNCHANGED scope

MCSpec == MCInit /\ [][MCNext]_<<vars, scope>>

OneRole == {{r} : r \in Roles}
Symmetry == Permutations(Users) \cup Permutations(Roles)
=============================================================================
