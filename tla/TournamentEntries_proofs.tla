------------------------ MODULE TournamentEntries_proofs ------------------------
(***************************************************************************)
(* Proofs that, for any players, positions, entries and matcher processes, *)
(* rosters are exclusive, statuses match rosters, the limit of teams holds *)
(* and players enter, move and agree only as they were promised.           *)
(***************************************************************************)
EXTENDS TournamentEntries, FiniteSetTheorems, TLAPS

-----------------------------------------------------------------------------
(* Types, by table *)

Records == [status : Statuses, captain : Users \cup {None},
            joinMode : {"OPEN", "CONFIRM"}, company : BOOLEAN]
EntryTables == [Entries -> Records]
RosterTables == [Entries -> Rosters]
ConsentTables == [Entries -> [Users -> Rosters \cup {None}]]

\* A request that is pending asks for a position.
Formed == {q \in Requests : q = NoRequest \/ q.role \in Roles}
RequestTables == [Entries -> [Users -> Formed]]
Queues == [Users -> Searches]

TournamentType == registration \in {"OPEN", "LATE", "CLOSED", "STARTED"} /\ slots \in 0..MaxSlots
LineupsType == entry \in EntryTables /\ roster \in RosterTables /\ consent \in ConsentTables
WaitingType == requests \in RequestTables /\ queue \in Queues
MatcherType ==
    /\ lease \in [holder : Instances \cup {None}, lapsed : BOOLEAN]
    /\ pass \in [Instances -> [running : BOOLEAN, tickets : SUBSET Tickets]]

\* Type correctness, with what the acceptance of a request relies on.
TypeInv == TournamentType /\ LineupsType /\ WaitingType /\ MatcherType

LEMMA TypeInvTypes == TypeInv => TypeOK
<1> SUFFICES ASSUME TypeInv PROVE TypeOK
  OBVIOUS
<1>1. requests \in [Entries -> [Users -> Requests]]
  BY DEF TypeInv, WaitingType, RequestTables, Formed
<1> QED
  BY <1>1 DEF TypeInv, TypeOK, TournamentType, LineupsType, WaitingType, MatcherType, Records, EntryTables,
              RosterTables, ConsentTables, Queues

LEMMA NoRosterType == NoRoster \in Rosters /\ NoConsents \in [Users -> Rosters \cup {None}]
BY DEF NoRoster, Rosters, NoConsents

LEMMA NoRequestType == NoRequest \in Formed
BY NoRosterType DEF NoRequest, Formed, Requests

\* The initial states have their types.
LEMMA TypeInit == Init => TypeInv
<1> SUFFICES ASSUME Init PROVE TypeInv
  OBVIOUS
<1>1. TournamentType
  BY ConstantsAssumption DEF Init, TournamentType
<1>2. LineupsType
  BY NoRosterType DEF Init, LineupsType, EntryTables, RosterTables, ConsentTables, Records, Statuses
<1>3. WaitingType
  BY NoRequestType DEF Init, WaitingType, RequestTables, Queues, Searches
<1>4. MatcherType
  BY DEF Init, MatcherType
<1> QED
  BY <1>1, <1>2, <1>3, <1>4 DEF TypeInv

-----------------------------------------------------------------------------
(* Sets of players and entries *)

LEMMA Countable ==
    /\ \A lineup : IsFiniteSet(Members(lineup)) /\ Cardinality(Members(lineup)) \in Nat
    /\ \A table : IsFiniteSet(Registered(table)) /\ Cardinality(Registered(table)) \in Nat
<1>1. IsFiniteSet(Users) /\ IsFiniteSet(Entries)
  BY ConstantsAssumption DEF Entries
<1>2. \A lineup : Members(lineup) \subseteq Users
  BY DEF Members
<1>3. \A table : Registered(table) \subseteq Entries
  BY DEF Registered
<1> QED
  BY <1>1, <1>2, <1>3, FS_Subset, FS_CardinalityType

\* Fewer entries are registered, or one more.
LEMMA RegisteredGrows ==
    ASSUME NEW before, NEW after
    PROVE  /\ Registered(after) \subseteq Registered(before) =>
                  Cardinality(Registered(after)) <= Cardinality(Registered(before))
           /\ \A e : Registered(after) \subseteq Registered(before) \cup {e} =>
                  Cardinality(Registered(after)) <= Cardinality(Registered(before)) + 1
<1>1. ASSUME Registered(after) \subseteq Registered(before)
      PROVE  Cardinality(Registered(after)) <= Cardinality(Registered(before))
  BY <1>1, Countable, FS_Subset
<1>2. ASSUME NEW e, Registered(after) \subseteq Registered(before) \cup {e}
      PROVE  Cardinality(Registered(after)) <= Cardinality(Registered(before)) + 1
  <2> DEFINE more == Registered(before) \cup {e}
  <2>1. IsFiniteSet(more) /\ Cardinality(more) <= Cardinality(Registered(before)) + 1
                          /\ Cardinality(more) \in Nat
    <3>1. IsFiniteSet(Registered(before)) /\ Cardinality(Registered(before)) \in Nat
      BY Countable
    <3>2. /\ IsFiniteSet(more)
          /\ Cardinality(more) = IF e \in Registered(before) THEN Cardinality(Registered(before))
                                 ELSE Cardinality(Registered(before)) + 1
      BY <3>1, FS_AddElement
    <3> QED
      BY <3>1, <3>2
  <2>2. Cardinality(Registered(after)) <= Cardinality(more)
    BY <1>2, <2>1, FS_Subset
  <2> QED
    BY <2>1, <2>2, Countable
<1> QED
  BY <1>1, <1>2

\* One player or two are no full roster.
LEMMA PairIsNoRoster ==
    ASSUME NEW lineup, NEW u, NEW v, Members(lineup) \subseteq {u, v}
    PROVE  ~Complete(lineup)
<1>1. IsFiniteSet({u, v}) /\ Cardinality({u, v}) <= 2 /\ Cardinality({u, v}) \in Nat
  <2>1. IsFiniteSet({}) /\ Cardinality({}) = 0
    BY FS_EmptySet
  <2>2. IsFiniteSet({u}) /\ Cardinality({u}) = 1
    BY FS_Singleton
  <2>3. {u, v} = {u} \cup {v}
    OBVIOUS
  <2> QED
    BY <2>2, <2>3, FS_AddElement, FS_CardinalityType
<1>2. Cardinality(Members(lineup)) <= 2 /\ Cardinality(Members(lineup)) \in Nat
  <2>1. Cardinality(Members(lineup)) <= Cardinality({u, v})
    BY <1>1, FS_Subset
  <2> QED
    BY <1>1, <2>1, Countable
<1>3. Cardinality(Roles) \in Nat /\ Cardinality(Roles) >= 3
  BY ConstantsAssumption, FS_CardinalityType, RosterSizeAssumption
<1> QED
  BY <1>2, <1>3 DEF Complete

-----------------------------------------------------------------------------
(* What the handlers share *)

Clocks == {"OPEN", "LATE", "CLOSED", "STARTED"}

\* An entry keeps its captain and its flag, and its status but for a recruiting one that
\* registration has closed on.
Kept(before, after, f) ==
    /\ after[f].captain = before[f].captain /\ after[f].company = before[f].company
    /\ \/ after[f].status = before[f].status
       \/ before[f].status = "RECRUITING" /\ after[f].status = "RESERVE"

LEMMA ToReserveKeeps ==
    ASSUME NEW table \in EntryTables
    PROVE  /\ ToReserve(table) \in EntryTables
           /\ \A f \in Entries : Kept(table, ToReserve(table), f) /\ ToReserve(table)[f].status # "RECRUITING"
           /\ Registered(ToReserve(table)) = Registered(table)
<1>1. ASSUME NEW row \in Records
      PROVE  [row EXCEPT !.status = "RESERVE"] \in Records
  BY <1>1 DEF Records, Statuses
<1>2. ToReserve(table) \in EntryTables
  BY <1>1 DEF ToReserve, EntryTables
<1>3. ASSUME NEW f \in Entries
      PROVE  Kept(table, ToReserve(table), f) /\ ToReserve(table)[f].status # "RECRUITING"
  BY DEF ToReserve, EntryTables, Records, Kept
<1> QED
  BY <1>2, <1>3 DEF Registered, Kept

LEMMA SyncedStatusRange ==
    ASSUME NEW table, NEW e, NEW lineup, NEW now
    PROVE  SyncedStatus(table, e, lineup, now) \in {"RECRUITING", "REGISTERED", "RESERVE"}
BY DEF SyncedStatus

\* What syncEntryRegistrationStatus leaves behind at the entry it is called for.
Synced(table, agreed, e, lineup) ==
    /\ entry'[e].captain = table[e].captain /\ entry'[e].company = table[e].company
    /\ table[e].status \in ActiveStatuses => entry'[e].status \in ActiveStatuses
    /\ table[e].status \notin ActiveStatuses => entry'[e].status = table[e].status
    /\ entry'[e].status = "REGISTERED" =>
          Complete(lineup) /\ (table[e].status = "REGISTERED" \/ PlaceLeft(table))
    /\ entry'[e].status = "RECRUITING" => ~Complete(lineup) /\ registration' = "OPEN"
    /\ table[e].status \in ActiveStatuses /\ table[e].company => consent'[e] = NoConsents
    /\ table[e].company = FALSE => consent'[e] = agreed[e]

\* What it leaves behind at the others.
SyncedAround(table, agreed, e) ==
    /\ registration' \in Clocks
    /\ \A f \in Entries \ {e} : Kept(table, entry', f) /\ consent'[f] = agreed[f]
    /\ registration' = "STARTED" => registration = "STARTED"
    /\ registration' = "CLOSED" /\ registration # "CLOSED" =>
          \A f \in Entries : entry'[f].status # "RECRUITING"

LEMMA SyncEffect ==
    ASSUME registration \in Clocks, NEW table \in EntryTables, NEW agreed \in ConsentTables,
           NEW e \in Entries, NEW lineup, NEW now \in ClockMoves,
           Sync(table, agreed, e, lineup, now)
    PROVE  /\ entry' \in EntryTables /\ consent' \in ConsentTables
           /\ Synced(table, agreed, e, lineup) /\ SyncedAround(table, agreed, e)
<1>1. CASE table[e].status \notin ActiveStatuses
  BY <1>1 DEF Sync, Synced, SyncedAround, Kept, ActiveStatuses, EntryTables, Records, ConsentTables
<1>2. CASE table[e].status \in ActiveStatuses
  <2> DEFINE status == SyncedStatus(table, e, lineup, now)
             row == [table[e] EXCEPT !.status = status]
             synced == [table EXCEPT ![e].status = status]
             full == now = "OPEN" /\ Cardinality(Registered(synced)) >= slots
  <2>1. row \in Records /\ row.status = status /\ row.captain = table[e].captain /\ row.company = table[e].company
    BY SyncedStatusRange DEF EntryTables, Records, Statuses
  <2>2. synced[e] = row /\ \A f \in Entries \ {e} : synced[f] = table[f]
    BY DEF EntryTables
  <2>3. synced \in EntryTables
    BY <2>1 DEF EntryTables
  <2>4. /\ registration' = IF full THEN "CLOSED" ELSE now
        /\ entry' = IF full THEN ToReserve(synced) ELSE synced
        /\ consent' = ConsentsAfterChange(table, agreed, e)
    BY <1>2 DEF Sync
  <2>5. /\ consent' \in ConsentTables /\ \A f \in Entries \ {e} : consent'[f] = agreed[f]
        /\ table[e].company => consent'[e] = NoConsents
        /\ table[e].company = FALSE => consent'[e] = agreed[e]
    BY <2>4, NoRosterType DEF ConsentsAfterChange, ConsentTables
  <2>6. status = "REGISTERED" => Complete(lineup) /\ (table[e].status = "REGISTERED" \/ PlaceLeft(table))
    BY DEF SyncedStatus
  <2>7. status = "RECRUITING" => ~Complete(lineup) /\ now = "OPEN"
    BY DEF SyncedStatus
  <2>8. status \in {"RECRUITING", "REGISTERED", "RESERVE"}
    BY SyncedStatusRange
  <2> HIDE DEF status, row, synced
  <2>9. CASE full
    <3>1. /\ entry' \in EntryTables
          /\ \A f \in Entries : Kept(synced, entry', f) /\ entry'[f].status # "RECRUITING"
      BY <2>3, <2>4, <2>9, ToReserveKeeps
    <3>2. Synced(table, agreed, e, lineup)
      BY <1>2, <2>1, <2>2, <2>5, <2>6, <2>8, <3>1 DEF Synced, Kept, ActiveStatuses
    <3>3. SyncedAround(table, agreed, e)
      BY <2>2, <2>4, <2>5, <2>9, <3>1 DEF SyncedAround, Kept, Clocks
    <3> QED
      BY <2>5, <3>1, <3>2, <3>3
  <2>10. CASE ~full
    <3>1. entry' = synced /\ registration' = now
      BY <2>4, <2>10
    <3>2. Synced(table, agreed, e, lineup)
      BY <1>2, <2>1, <2>2, <2>5, <2>6, <2>7, <2>8, <3>1 DEF Synced, ActiveStatuses
    <3>3. SyncedAround(table, agreed, e)
      BY <2>2, <2>5, <3>1 DEF SyncedAround, Kept, Clocks, ClockMoves
    <3> QED
      BY <2>3, <2>5, <3>1, <3>2, <3>3
  <2> QED
    BY <2>9, <2>10
<1> QED
  BY <1>1, <1>2

\* Rows of the entries the handlers write.
LEMMA RowTypes ==
    ASSUME NEW row \in Records
    PROVE  /\ \A joinMode \in {"OPEN", "CONFIRM"} : [row EXCEPT !.joinMode = joinMode] \in Records
           /\ \A captain \in Users : [row EXCEPT !.captain = captain] \in Records
           /\ \A status \in Statuses : [row EXCEPT !.status = status] \in Records
           /\ \A company \in BOOLEAN : [row EXCEPT !.company = company] \in Records
BY DEF Records

\* Searches and applications end; nothing else happens to them.
Ended(players) ==
    /\ queue' \in Queues
    /\ \A u \in Users : u \in players => ~queue'[u].waiting
    /\ \A u \in Users : queue'[u] = queue[u]
                        \/ (queue'[u].generation = queue[u].generation /\ ~queue'[u].waiting)

LEMMA SearchEndedEnds ==
    ASSUME queue \in Queues, NEW players, queue' = SearchEnded(players)
    PROVE  Ended(players)
<1> DEFINE Done(u) == [queue[u] EXCEPT !.waiting = FALSE, !.auto = FALSE, !.roles = {}]
<1>1. ASSUME NEW u \in Users
      PROVE  /\ Done(u) \in Searches /\ Done(u).generation = queue[u].generation
             /\ Done(u).waiting = FALSE
  BY DEF Queues, Searches
<1>2. \A u \in Users : queue'[u] = IF u \in players /\ queue[u].waiting THEN Done(u) ELSE queue[u]
  BY DEF SearchEnded
<1>3. queue' \in Queues
  BY <1>1 DEF SearchEnded, Queues
<1> HIDE DEF Done
<1>4. ASSUME NEW u \in Users
      PROVE  /\ u \in players => ~queue'[u].waiting
             /\ queue'[u] = queue[u] \/ (queue'[u].generation = queue[u].generation /\ ~queue'[u].waiting)
  <2>1. CASE u \in players /\ queue[u].waiting
    <3>1. queue'[u] = Done(u)
      BY <1>2, <2>1
    <3>2. queue'[u].waiting = FALSE /\ queue'[u].generation = queue[u].generation
      BY <1>1, <3>1
    <3> QED
      BY <3>2
  <2>2. CASE ~(u \in players /\ queue[u].waiting)
    BY <1>2, <2>2
  <2> QED
    BY <2>1, <2>2
<1> QED
  BY <1>3, <1>4 DEF Ended

\* Applications of players who are in e now end elsewhere.
Finished(table, e, players) ==
    /\ requests' \in RequestTables
    /\ \A f \in Entries, u \in Users : requests'[f][u] \in {table[f][u], NoRequest}
    /\ \A f \in Entries \ {e}, u \in Users : u \in players => requests'[f][u] = NoRequest

LEMMA FinishSearchFinishes ==
    ASSUME queue \in Queues, NEW table \in RequestTables, NEW e, NEW players,
           FinishSearch(table, e, players)
    PROVE  Finished(table, e, players) /\ Ended(players)
<1>1. Ended(players)
  BY SearchEndedEnds DEF FinishSearch
<1>2. Finished(table, e, players)
  BY NoRequestType DEF FinishSearch, WithdrawnElsewhere, Finished, RequestTables
<1> QED
  BY <1>1, <1>2

-----------------------------------------------------------------------------
(* What the actions do, entry by entry *)

\* The roster of e becomes what it is now; the others stay.
OnlyRoster(e) == \A f \in Entries \ {e} : roster'[f] = roster[f]

\* A player takes a position of e, the others keep theirs.
Seats(e, u, r) ==
    /\ roster' \in RosterTables /\ OnlyRoster(e)
    /\ roster'[e][u] = r /\ \A v \in Users \ {u} : roster'[e][v] = roster[e][v]

LEMMA SeatsTakes ==
    ASSUME roster \in RosterTables, NEW e \in Entries, NEW u \in Users, NEW r \in Roles \cup {"out"},
           roster' = [roster EXCEPT ![e][u] = r]
    PROVE  Seats(e, u, r) /\ [roster[e] EXCEPT ![u] = r] = roster'[e]
<1> DEFINE lineup == [roster[e] EXCEPT ![u] = r]
<1>1. lineup \in Rosters /\ lineup[u] = r /\ \A v \in Users \ {u} : lineup[v] = roster[e][v]
  BY DEF RosterTables, Rosters
<1>2. roster' = [roster EXCEPT ![e] = lineup]
  BY DEF RosterTables
<1> HIDE DEF lineup
<1>3. roster' \in RosterTables /\ roster'[e] = lineup /\ OnlyRoster(e)
  BY <1>1, <1>2 DEF RosterTables, OnlyRoster
<1>4. Seats(e, u, r)
  BY <1>1, <1>3 DEF Seats
<1> QED
  BY <1>3, <1>4 DEF lineup

\* The entries and the consents after a change of the roster of e.
Settles(table, agreed, e) ==
    /\ entry' \in EntryTables /\ consent' \in ConsentTables
    /\ Synced(table, agreed, e, roster'[e]) /\ SyncedAround(table, agreed, e)

\* One player enters, by an invitation, an open roster, an application or the matcher.
Joins(e, u, r) ==
    /\ Seats(e, u, r) /\ Settles(entry, consent, e)
    /\ Finished(requests, e, {u}) /\ Ended({u}) /\ slots' = slots

LEMMA EnrolEffect ==
    ASSUME TypeInv, NEW e \in Entries, NEW u \in Users, NEW r \in Roles, Enrol(e, u, r)
    PROVE  Joins(e, u, r)
<1> USE DEF TypeInv, LineupsType, WaitingType, TournamentType
<1>1. Seats(e, u, r) /\ [roster[e] EXCEPT ![u] = r] = roster'[e]
  BY SeatsTakes DEF Enrol
<1>2. PICK now \in ClockMoves : Sync(entry, consent, e, roster'[e], now)
  BY <1>1 DEF Enrol
<1>3. Settles(entry, consent, e)
  BY <1>2, SyncEffect DEF Clocks, Settles
<1> DEFINE table == [requests EXCEPT ![e][u] = NoRequest]
<1>4. /\ table \in RequestTables
      /\ \A f \in Entries, v \in Users : table[f][v] \in {requests[f][v], NoRequest}
  BY NoRequestType DEF RequestTables
<1>5. Finished(table, e, {u}) /\ Ended({u})
  BY <1>4, FinishSearchFinishes DEF Enrol
<1> HIDE DEF table
<1>6. Finished(requests, e, {u})
  BY <1>4, <1>5 DEF Finished
<1> QED
  BY <1>1, <1>3, <1>5, <1>6 DEF Joins, Enrol

\* What assigning a position, leaving and removing a member do.
Reseats(u, e, r) ==
    /\ Seats(e, u, r) /\ roster[e][u] # "out" /\ Active(e)
    /\ requests' \in RequestTables
    /\ \A f \in Entries, v \in Users : requests'[f][v] \in {requests[f][v], NoRequest}
    /\ UNCHANGED <<slots, queue, lease, pass>>

\* When a captain leaves, another member becomes captain or the entry is withdrawn.
Hands(after, e) ==
    /\ \A f \in Entries \ {e} : after[f] = entry[f]
    /\ after[e].company = entry[e].company
    /\ \/ /\ after[e].status = entry[e].status
          /\ \/ after[e].captain \in Members(roster'[e])
             \/ /\ after[e].captain = entry[e].captain
                /\ entry[e].captain \in Members(roster[e]) => entry[e].captain \in Members(roster'[e])
       \/ /\ after[e].status = "WITHDRAWN" /\ Members(roster'[e]) = {}
          /\ \A v \in Users : requests'[e][v] = NoRequest

\* A member of e gets a place nobody has, or none.
Reshapes(e) ==
    \E u \in Users, r \in Roles \cup {"out"}, after \in EntryTables :
        /\ Reseats(u, e, r) /\ \A v \in Users : r # "out" => roster[e][v] # r
        /\ Hands(after, e) /\ Settles(after, consent, e)

LEMMA AssignEffect ==
    ASSUME TypeInv, NEW u \in Users, NEW e \in Entries, NEW r \in Roles, AssignEntryPosition(u, e, r)
    PROVE  Reshapes(e)
<1> USE DEF TypeInv, LineupsType, WaitingType, TournamentType
<1>1. Seats(e, u, r) /\ [roster[e] EXCEPT ![u] = r] = roster'[e]
  BY SeatsTakes DEF AssignEntryPosition
<1>2. PICK now \in ClockMoves : Sync(entry, consent, e, roster'[e], now)
  BY <1>1 DEF AssignEntryPosition
<1>3. Settles(entry, consent, e)
  BY <1>2, SyncEffect DEF Clocks, Settles
<1>4. Reseats(u, e, r) /\ \A v \in Users : roster[e][v] # r
  BY <1>1 DEF Reseats, AssignEntryPosition, Members, matcher
<1>5. Hands(entry, e)
  BY <1>1, MarkersAssumption DEF Hands, Seats, Members
<1> QED
  BY <1>3, <1>4, <1>5 DEF Reshapes

LEMMA RemoveEffect ==
    ASSUME TypeInv, NEW u \in Users, NEW e \in Entries, NEW v \in Users, RemoveEntryMember(u, e, v)
    PROVE  Reshapes(e)
<1> USE DEF TypeInv, LineupsType, WaitingType, TournamentType
<1>1. Seats(e, v, "out") /\ [roster[e] EXCEPT ![v] = "out"] = roster'[e]
  BY SeatsTakes DEF RemoveEntryMember
<1>2. PICK now \in ClockMoves : Sync(entry, consent, e, roster'[e], now)
  BY <1>1 DEF RemoveEntryMember
<1>3. Settles(entry, consent, e)
  BY <1>2, SyncEffect DEF Clocks, Settles
<1>4. /\ requests' \in RequestTables
      /\ \A f \in Entries, w \in Users : requests'[f][w] \in {requests[f][w], NoRequest}
  BY NoRequestType DEF RemoveEntryMember, RequestTables
<1>5. Reseats(v, e, "out") /\ entry[e].captain # v
  BY <1>1, <1>4 DEF Reseats, RemoveEntryMember, Members, Manages, matcher
<1>6. Hands(entry, e)
  BY <1>1, <1>5 DEF Hands, Seats, Members
<1> QED
  BY <1>3, <1>5, <1>6 DEF Reshapes

LEMMA LeaveEffect ==
    ASSUME TypeInv, NEW u \in Users, NEW e \in Entries, LeaveEntry(u, e)
    PROVE  Reshapes(e)
<1> USE DEF TypeInv, LineupsType, WaitingType, TournamentType
<1> DEFINE lineup == [roster[e] EXCEPT ![u] = "out"]
           Left(table) ==
               /\ roster' = [roster EXCEPT ![e] = lineup]
               /\ \E now \in ClockMoves : Sync(table, consent, e, lineup, now)
<1>1. /\ Active(e) /\ u \in Members(roster[e]) /\ slots' = slots /\ queue' = queue
      /\ lease' = lease /\ pass' = pass
  BY DEF LeaveEntry, matcher
<1>2. \/ entry[e].captain # u /\ Left(entry) /\ UNCHANGED requests
      \/ \E next \in Members(lineup) :
            Left([entry EXCEPT ![e].captain = next]) /\ UNCHANGED requests
      \/ /\ Members(lineup) = {} /\ Left([entry EXCEPT ![e].status = "WITHDRAWN"])
         /\ requests' = ApplicationsClosed(e)
  BY DEF LeaveEntry
<1>3. roster' = [roster EXCEPT ![e] = lineup]
  BY <1>2
<1>4. Seats(e, u, "out") /\ lineup = roster'[e]
  <2>1. roster' = [roster EXCEPT ![e][u] = "out"]
    BY <1>3
  <2> QED
    BY <2>1, SeatsTakes
<1>5. /\ requests' \in RequestTables
      /\ \A f \in Entries, w \in Users : requests'[f][w] \in {requests[f][w], NoRequest}
  <2>1. CASE UNCHANGED requests
    BY <2>1
  <2>2. CASE requests' = ApplicationsClosed(e)
    BY <2>2, NoRequestType DEF ApplicationsClosed, RequestTables
  <2> QED
    BY <1>2, <2>1, <2>2
<1>6. Reseats(u, e, "out")
  BY <1>1, <1>4, <1>5 DEF Reseats, Members
<1> HIDE DEF lineup
<1>7. ASSUME NEW table \in EntryTables, Left(table)
      PROVE  Settles(table, consent, e)
  <2>1. PICK now \in ClockMoves : Sync(table, consent, e, roster'[e], now)
    BY <1>4, <1>7
  <2> QED
    BY <2>1, SyncEffect DEF Clocks, Settles
<1>8. ASSUME entry[e].captain # u, Left(entry)
      PROVE  \E after \in EntryTables : Hands(after, e) /\ Settles(after, consent, e)
  <2>1. Settles(entry, consent, e)
    BY <1>7, <1>8
  <2>2. Hands(entry, e)
    BY <1>4, <1>8 DEF Hands, Seats, Members
  <2> QED
    BY <2>1, <2>2
<1>9. ASSUME NEW next \in Members(lineup), Left([entry EXCEPT ![e].captain = next])
      PROVE  \E after \in EntryTables : Hands(after, e) /\ Settles(after, consent, e)
  <2> DEFINE after == [entry EXCEPT ![e].captain = next]
  <2>1. /\ after \in EntryTables /\ \A f \in Entries \ {e} : after[f] = entry[f]
        /\ after[e].captain = next /\ after[e].status = entry[e].status
        /\ after[e].company = entry[e].company
    BY RowTypes DEF EntryTables, Records, Members
  <2>2. Settles(after, consent, e)
    BY <1>7, <1>9, <2>1
  <2> HIDE DEF after
  <2>3. Hands(after, e)
    BY <1>4, <2>1 DEF Hands
  <2> QED
    BY <2>1, <2>2, <2>3
<1>10. ASSUME Members(lineup) = {}, Left([entry EXCEPT ![e].status = "WITHDRAWN"]),
              requests' = ApplicationsClosed(e)
       PROVE  \E after \in EntryTables : Hands(after, e) /\ Settles(after, consent, e)
  <2> DEFINE after == [entry EXCEPT ![e].status = "WITHDRAWN"]
  <2>1. /\ after \in EntryTables /\ \A f \in Entries \ {e} : after[f] = entry[f]
        /\ after[e].status = "WITHDRAWN" /\ after[e].company = entry[e].company
    <3>1. [entry[e] EXCEPT !.status = "WITHDRAWN"] \in Records
      BY RowTypes DEF EntryTables, Statuses
    <3> QED
      BY <3>1 DEF EntryTables, Records
  <2>2. Settles(after, consent, e)
    BY <1>7, <1>10, <2>1
  <2>3. \A v \in Users : requests'[e][v] = NoRequest
    BY <1>10 DEF ApplicationsClosed, RequestTables
  <2> HIDE DEF after
  <2>4. Hands(after, e)
    BY <1>4, <1>10, <2>1, <2>3 DEF Hands
  <2> QED
    BY <2>1, <2>2, <2>4
<1> QED
  BY <1>2, <1>6, <1>8, <1>9, <1>10 DEF Reshapes

\* A roster of players who are in none is written at e.
Founds(e, lineup) ==
    /\ lineup \in Rosters /\ \A v \in Members(lineup) : ~Enrolled(v)
    /\ roster' \in RosterTables /\ roster'[e] = lineup /\ OnlyRoster(e)

\* A roster where a position is held once.
Injective(lineup) ==
    \A v, w \in Members(lineup) : v # w /\ lineup[v] = lineup[w] => lineup[v] = "unassigned"

\* A captain makes a squad, alone or with a companion the matcher found.
Creates(e, u) ==
    /\ Founds(e, roster'[e]) /\ entry[e].status = "NONE" /\ e \in Squads
    /\ u \in Members(roster'[e]) /\ Injective(roster'[e])
    /\ \E v \in Users : Members(roster'[e]) \subseteq {u, v}
    /\ entry' \in EntryTables /\ \A f \in Entries \ {e} : entry'[f] = entry[f]
    /\ entry'[e].captain = u
    /\ \/ entry'[e].status = "RESERVE"
       \/ entry'[e].status = "RECRUITING" /\ registration = "OPEN"
    /\ Finished(requests, e, Members(roster'[e])) /\ Ended(Members(roster'[e]))
    /\ UNCHANGED <<registration, slots, consent>>

LEMMA CreateEffect ==
    ASSUME TypeInv, NEW e \in Entries, NEW u \in Users, NEW lineup \in Rosters, NEW company \in BOOLEAN,
           NEW joinMode \in {"OPEN", "CONFIRM"}, CreateSquadWith(e, u, lineup, joinMode, company),
           u \in Members(lineup), Injective(lineup), \E v \in Users : Members(lineup) \subseteq {u, v}
    PROVE  Creates(e, u) /\ roster'[e] = lineup
<1> USE DEF TypeInv, LineupsType, WaitingType, TournamentType
<1>1. Founds(e, lineup) /\ roster'[e] = lineup
  BY DEF CreateSquadWith, Founds, RosterTables, OnlyRoster
<1> DEFINE row == NewEntry(u, joinMode, company)
<1>2. /\ row \in Records /\ row.captain = u
      /\ row.status = IF registration = "CLOSED" THEN "RESERVE" ELSE "RECRUITING"
  BY DEF NewEntry, Records, Statuses
<1>3. entry' = [entry EXCEPT ![e] = row]
  BY DEF CreateSquadWith
<1> HIDE DEF row
<1>4. entry' \in EntryTables /\ entry'[e] = row /\ \A f \in Entries \ {e} : entry'[f] = entry[f]
  BY <1>2, <1>3 DEF EntryTables
<1>5. Finished(requests, e, Members(lineup)) /\ Ended(Members(lineup))
  BY FinishSearchFinishes DEF CreateSquadWith
<1>6. registration \in {"OPEN", "CLOSED"} /\ entry[e].status = "NONE" /\ e \in Squads
  BY DEF CreateSquadWith, CanRecruit
<1> QED
  BY <1>1, <1>2, <1>4, <1>5, <1>6 DEF CreateSquadWith, Creates

\* A permanent team registers, perhaps again.
Registers(u, e) ==
    /\ Founds(e, roster'[e]) /\ u \in Members(roster'[e]) /\ Injective(roster'[e])
    /\ ~Active(e) /\ e \in Teams
    /\ UNCHANGED <<slots, requests, queue, lease, pass>>
    /\ \E table \in EntryTables :
          /\ table[e].status = "RECRUITING" /\ table[e].captain = u
          /\ \A f \in Entries \ {e} : table[f] = entry[f]
          /\ Settles(table, consent, e)

LEMMA RegisterEffect ==
    ASSUME TypeInv, NEW e \in Entries, NEW u \in Users, RegisterTeam(u, e)
    PROVE  Registers(u, e)
<1> USE DEF TypeInv, LineupsType, WaitingType, TournamentType
<1>1. PICK lineup \in TeamLineups(u), joinMode \in {"OPEN", "CONFIRM"}, now \in ClockMoves :
           /\ \A v \in Members(lineup) : ~Enrolled(v)
           /\ roster' = [roster EXCEPT ![e] = lineup]
           /\ Sync([entry EXCEPT ![e].status = "RECRUITING", ![e].captain = u, ![e].joinMode = joinMode],
                   consent, e, lineup, now)
  BY DEF RegisterTeam
<1>2. lineup \in Rosters /\ u \in Members(lineup) /\ Injective(lineup)
  BY DEF TeamLineups, Injective
<1>3. roster' \in RosterTables /\ roster'[e] = lineup /\ OnlyRoster(e)
  BY <1>1, <1>2 DEF RosterTables, OnlyRoster
<1> DEFINE first == [entry EXCEPT ![e].status = "RECRUITING"]
           second == [first EXCEPT ![e].captain = u]
           table == [second EXCEPT ![e].joinMode = joinMode]
<1>4. /\ first \in EntryTables /\ \A f \in Entries \ {e} : first[f] = entry[f]
      /\ first[e].status = "RECRUITING"
  <2>1. [entry[e] EXCEPT !.status = "RECRUITING"] \in Records
    BY RowTypes DEF EntryTables, Statuses
  <2> QED
    BY <2>1 DEF EntryTables, Records
<1> HIDE DEF first
<1>5. /\ second \in EntryTables /\ \A f \in Entries \ {e} : second[f] = first[f]
      /\ second[e].status = first[e].status /\ second[e].captain = u
  <2>1. [first[e] EXCEPT !.captain = u] \in Records
    BY <1>4, RowTypes DEF EntryTables
  <2> QED
    BY <1>4, <2>1 DEF EntryTables, Records
<1> HIDE DEF second
<1>6. /\ table \in EntryTables /\ \A f \in Entries \ {e} : table[f] = second[f]
      /\ table[e].status = second[e].status /\ table[e].captain = second[e].captain
  BY <1>5, RowTypes DEF EntryTables, Records
<1>7. Sync(table, consent, e, roster'[e], now)
  BY <1>1, <1>3 DEF first, second
<1> HIDE DEF table
<1>8. Settles(table, consent, e)
  BY <1>6, <1>7, SyncEffect DEF Clocks, Settles
<1>9. Founds(e, roster'[e])
  BY <1>1, <1>2, <1>3 DEF Founds
<1> QED
  BY <1>2, <1>3, <1>4, <1>5, <1>6, <1>8, <1>9 DEF RegisterTeam, Registers, matcher

\* An entry is withdrawn with its roster and the applications to it.
Withdraws(e) ==
    /\ Active(e)
    /\ roster' \in RosterTables /\ roster'[e] = NoRoster /\ OnlyRoster(e)
    /\ entry' \in EntryTables /\ \A f \in Entries \ {e} : entry'[f] = entry[f]
    /\ entry'[e].status = "WITHDRAWN" /\ requests' \in RequestTables
    /\ \A f \in Entries, v \in Users : requests'[f][v] \in {requests[f][v], NoRequest}
    /\ \A v \in Users : requests'[e][v] = NoRequest
    /\ UNCHANGED <<registration, slots, consent, queue, lease, pass>>

LEMMA WithdrawEffect ==
    ASSUME TypeInv, NEW e \in Entries, NEW u \in Users, WithdrawTeam(u, e)
    PROVE  Withdraws(e)
<1> USE DEF TypeInv, LineupsType, WaitingType, TournamentType
<1>1. roster' \in RosterTables /\ roster'[e] = NoRoster /\ OnlyRoster(e)
  BY NoRosterType DEF WithdrawTeam, RosterTables, OnlyRoster
<1>2. /\ entry' \in EntryTables /\ \A f \in Entries \ {e} : entry'[f] = entry[f]
      /\ entry'[e].status = "WITHDRAWN"
  <2>1. [entry[e] EXCEPT !.status = "WITHDRAWN"] \in Records
    BY RowTypes DEF EntryTables, Statuses
  <2> QED
    BY <2>1 DEF WithdrawTeam, EntryTables, Records
<1>3. /\ requests' \in RequestTables /\ \A v \in Users : requests'[e][v] = NoRequest
      /\ \A f \in Entries, v \in Users : requests'[f][v] \in {requests[f][v], NoRequest}
  BY NoRequestType DEF WithdrawTeam, ApplicationsClosed, RequestTables
<1> QED
  BY <1>1, <1>2, <1>3 DEF WithdrawTeam, Withdraws, Manages, tournament, matcher

\* A whole company moves from source to e.
Merges(captain, e, leader, source) ==
    /\ source # e /\ Manages(captain, e) /\ requests[e][leader].source = source
    /\ CompanyAvailable(source, leader, requests[e][leader].snapshot)
    /\ Fits(roster[source], roster[e])
    /\ roster' \in RosterTables /\ roster'[source] = NoRoster
    /\ \A f \in Entries \ {source, e} : roster'[f] = roster[f]
    /\ \A u \in Users :
          roster'[e][u] = IF u \in Members(roster[source]) THEN roster[source][u] ELSE roster[e][u]
    /\ Finished(requests, e, Members(roster[source])) /\ Ended(Members(roster[source]))
    /\ \A u \in Users : requests'[source][u] = NoRequest
    /\ \E table \in EntryTables, agreed \in ConsentTables :
          /\ table[source].status = "WITHDRAWN" /\ table[source].company = FALSE
          /\ \A f \in Entries \ {source} : table[f] = entry[f]
          /\ \A f \in Entries \ {e} : agreed[f] = consent[f]
          /\ \A u \in Users : agreed[e][u] \in {consent[e][u], None}
          /\ Settles(table, agreed, e)
    /\ UNCHANGED <<slots, lease, pass>>

LEMMA AcceptCompanyEffect ==
    ASSUME TypeInv, NEW e \in Entries, NEW captain \in Users, NEW leader \in Users,
           AcceptCompany(captain, e, leader)
    PROVE  \E source \in Entries : Merges(captain, e, leader, source)
<1> USE DEF TypeInv, LineupsType, WaitingType, TournamentType
<1> DEFINE source == requests[e][leader].source
           company == Members(roster[source])
           joined == [u \in Users |-> IF u \in company THEN roster[source][u] ELSE roster[e][u]]
           applications == [f \in Entries |-> [u \in Users |->
                               IF f = source \/ requests[f][u].source = source THEN NoRequest
                               ELSE requests[f][u]]]
           agreed == [consent EXCEPT ![e] = [u \in Users |-> IF u \in company THEN None ELSE consent[e][u]]]
           first == [entry EXCEPT ![source].status = "WITHDRAWN"]
           table == [first EXCEPT ![source].company = FALSE]
<1>1. source \in Entries /\ source # e
  BY SMTT(20) DEF AcceptCompany, RequestTables, Formed, Requests
<1>2. /\ CompanyAvailable(source, leader, requests[e][leader].snapshot) /\ Manages(captain, e)
      /\ Fits(roster[source], roster[e])
  BY DEF AcceptCompany
<1>3. joined \in Rosters
  BY <1>1, SMTT(20) DEF RosterTables, Rosters
<1>4. roster' = [roster EXCEPT ![source] = NoRoster, ![e] = joined]
  BY DEF AcceptCompany
<1>5. /\ applications \in RequestTables
      /\ \A f \in Entries, v \in Users : applications[f][v] \in {requests[f][v], NoRequest}
      /\ \A v \in Users : applications[source][v] = NoRequest
  BY <1>1, NoRequestType, SMTT(20) DEF RequestTables
<1>6. FinishSearch(applications, e, company)
  BY DEF AcceptCompany
<1>7. /\ agreed \in ConsentTables /\ \A f \in Entries \ {e} : agreed[f] = consent[f]
      /\ \A u \in Users : agreed[e][u] \in {consent[e][u], None}
  BY SMTT(20) DEF ConsentTables
<1>8. PICK now \in ClockMoves : Sync(table, agreed, e, joined, now)
  BY DEF AcceptCompany
<1>9. \A u \in Users : joined[u] = IF u \in company THEN roster[source][u] ELSE roster[e][u]
  BY SMTT(20)
<1>10. slots' = slots /\ lease' = lease /\ pass' = pass
  BY DEF AcceptCompany, matcher
<1>11. requests[e][leader].source = source
  OBVIOUS
<1> HIDE DEF source, joined, applications, agreed
<1>12. /\ roster' \in RosterTables /\ roster'[source] = NoRoster /\ roster'[e] = joined
       /\ \A f \in Entries \ {source, e} : roster'[f] = roster[f]
  BY <1>1, <1>3, <1>4, NoRosterType DEF RosterTables
<1>13. Finished(applications, e, company) /\ Ended(company)
  BY <1>5, <1>6, FinishSearchFinishes
<1>14. Finished(requests, e, company) /\ \A u \in Users : requests'[source][u] = NoRequest
  BY <1>1, <1>5, <1>13 DEF Finished
<1>15. /\ first \in EntryTables /\ \A f \in Entries \ {source} : first[f] = entry[f]
       /\ first[source].status = "WITHDRAWN"
  <2>1. [entry[source] EXCEPT !.status = "WITHDRAWN"] \in Records
    BY <1>1, RowTypes DEF EntryTables, Statuses
  <2> QED
    BY <1>1, <2>1 DEF EntryTables, Records
<1> HIDE DEF first
<1>16. /\ table \in EntryTables /\ \A f \in Entries \ {source} : table[f] = first[f]
       /\ table[source].status = first[source].status /\ table[source].company = FALSE
  <2>1. [first[source] EXCEPT !.company = FALSE] \in Records
    BY <1>1, <1>15, RowTypes DEF EntryTables
  <2> QED
    BY <1>1, <1>15, <2>1 DEF EntryTables, Records
<1> HIDE DEF table
<1>17. Settles(table, agreed, e)
  BY <1>7, <1>8, <1>12, <1>16, SyncEffect DEF Clocks, Settles
<1>18. \E t \in EntryTables, a \in ConsentTables :
          /\ t[source].status = "WITHDRAWN" /\ t[source].company = FALSE
          /\ \A f \in Entries \ {source} : t[f] = entry[f]
          /\ \A f \in Entries \ {e} : a[f] = consent[f]
          /\ \A u \in Users : a[e][u] \in {consent[e][u], None}
          /\ Settles(t, a, e)
  BY <1>7, <1>15, <1>16, <1>17
<1>19. Merges(captain, e, leader, source)
  BY <1>1, <1>2, <1>9, <1>10, <1>11, <1>12, <1>13, <1>14, <1>18 DEF Merges
<1> QED
  BY <1>1, <1>19

-----------------------------------------------------------------------------
(* The steps that touch no roster *)

\* A search is left alone, ends, or is followed by a later one.
SearchesMove ==
    \A u \in Users : \/ queue'[u] = queue[u]
                     \/ /\ queue'[u].generation >= queue[u].generation
                        /\ queue'[u].waiting => queue'[u].generation > queue[u].generation
TicketsStay == \A i \in Instances : pass'[i].tickets \subseteq pass[i].tickets
CompaniesStay == consent' = consent /\ \A f \in Entries : entry'[f].company = entry[f].company

\* The entries stay as they are.
SameEntries == entry' = entry /\ registration' = registration /\ slots' = slots

Quiet ==
    /\ roster' = roster /\ TypeInv' /\ SearchesMove
    /\ \A f \in Entries : /\ entry'[f].captain = entry[f].captain
                          /\ \/ entry'[f].status = entry[f].status
                             \/ entry[f].status = "RECRUITING" /\ entry'[f].status = "RESERVE"
                          /\ consent'[f] = consent[f] \/ Active(f)
    /\ \A f \in Entries, u \in Users : requests'[f][u] \in {requests[f][u], NoRequest} \/ Active(f)
    /\ registration' \in {"CLOSED", "STARTED"} =>
          \/ registration \in {"CLOSED", "STARTED"}
          \/ \A f \in Entries : entry'[f].status # "RECRUITING"
    /\ TeamsFit => TeamsFit'

\* Nothing happens to the entries, the rosters and the consents.
LEMMA QuietWhenSame ==
    ASSUME TypeInv, SameEntries, roster' = roster, consent' = consent,
           WaitingType', MatcherType', SearchesMove,
           \A f \in Entries, u \in Users : requests'[f][u] \in {requests[f][u], NoRequest} \/ Active(f)
    PROVE  Quiet /\ CompaniesStay
<1>1. TypeInv'
  BY DEF TypeInv, TournamentType, LineupsType, SameEntries
<1>2. TeamsFit => TeamsFit'
  BY DEF TeamsFit, SameEntries, Registered
<1> QED
  BY <1>1, <1>2 DEF Quiet, CompaniesStay, SameEntries

LEMMA ApplyQuiet ==
    ASSUME TypeInv, NEW u \in Users, NEW e \in Entries, NEW r \in Roles, ApplyToEntry(u, e, r)
    PROVE  Quiet /\ CompaniesStay /\ TicketsStay
<1> USE DEF TypeInv, WaitingType
<1>1. Ended({u}) /\ Active(e)
  BY SearchEndedEnds DEF ApplyToEntry, MayJoin
<1>2. SearchesMove
  BY <1>1 DEF Ended, SearchesMove, Queues, Searches
<1>3. requests' \in RequestTables
      /\ \A f \in Entries, v \in Users : requests'[f][v] = requests[f][v] \/ Active(f)
  <2>1. CASE requests' = requests
    BY <2>1
  <2>2. CASE requests' = [requests EXCEPT ![e][u] = [NoRequest EXCEPT !.role = r]]
    <3> DEFINE q == [NoRequest EXCEPT !.role = r]
    <3>1. q \in Formed
      BY NoRosterType DEF NoRequest, Formed, Requests
    <3>2. requests' = [requests EXCEPT ![e][u] = q]
      BY <2>2
    <3> HIDE DEF q
    <3> QED
      BY <1>1, <3>1, <3>2 DEF RequestTables
  <2> QED
    BY <2>1, <2>2 DEF ApplyToEntry
<1>4. SameEntries /\ roster' = roster /\ consent' = consent /\ WaitingType' /\ MatcherType' /\ TicketsStay
  BY <1>1, <1>3 DEF Ended, ApplyToEntry, tournament, lineups, matcher, SameEntries, MatcherType, TicketsStay
<1> QED
  BY <1>2, <1>3, <1>4, QuietWhenSame

LEMMA SubmitQuiet ==
    ASSUME TypeInv, NEW u \in Users, NEW e \in Entries, NEW source \in Entries,
           SubmitCompanyApplication(u, source, e)
    PROVE  Quiet /\ CompaniesStay /\ TicketsStay
<1> USE DEF TypeInv, WaitingType
<1> DEFINE q == [role |-> roster[source][u], source |-> source, snapshot |-> roster[source]]
<1>1. q \in Formed /\ Active(e)
  BY DEF SubmitCompanyApplication, CompanyAvailable, Confirmed, Formed, Requests, LineupsType, RosterTables
<1>2. requests' = [requests EXCEPT ![e][u] = q]
  BY DEF SubmitCompanyApplication
<1> HIDE DEF q
<1>3. requests' \in RequestTables
      /\ \A f \in Entries, v \in Users : requests'[f][v] = requests[f][v] \/ Active(f)
  BY <1>1, <1>2 DEF RequestTables
<1>4. SameEntries /\ roster' = roster /\ consent' = consent /\ WaitingType' /\ MatcherType' /\ TicketsStay
      /\ SearchesMove
  BY <1>3 DEF SubmitCompanyApplication, tournament, lineups, matcher, SameEntries, MatcherType, TicketsStay,
              SearchesMove
<1> QED
  BY <1>3, <1>4, QuietWhenSame

LEMMA DeclineQuiet ==
    ASSUME TypeInv, NEW captain, NEW u \in Users, NEW e \in Entries,
           DeclineRequest(captain, e, u) \/ CancelRequest(u, e)
    PROVE  Quiet /\ CompaniesStay /\ TicketsStay
<1> USE DEF TypeInv, WaitingType
<1>1. requests' = [requests EXCEPT ![e][u] = NoRequest]
  BY DEF DeclineRequest, CancelRequest
<1>2. requests' \in RequestTables
      /\ \A f \in Entries, v \in Users : requests'[f][v] \in {requests[f][v], NoRequest}
  BY <1>1, NoRequestType DEF RequestTables
<1>3. SameEntries /\ roster' = roster /\ consent' = consent /\ WaitingType' /\ MatcherType' /\ TicketsStay
      /\ SearchesMove
  BY <1>2 DEF DeclineRequest, CancelRequest, tournament, lineups, matcher, SameEntries, MatcherType, TicketsStay,
              SearchesMove
<1> QED
  BY <1>2, <1>3, QuietWhenSame

LEMMA SearchQuiet ==
    ASSUME TypeInv, SearchStep
    PROVE  Quiet /\ CompaniesStay /\ TicketsStay
<1> USE DEF TypeInv, WaitingType
<1>1. ASSUME NEW u \in Users, NEW roles \in SearchRoles, NEW auto \in BOOLEAN, StartSearch(u, roles, auto)
      PROVE  queue' \in Queues /\ SearchesMove /\ requests' = requests
  <2>1. [waiting |-> TRUE, auto |-> auto, roles |-> roles, generation |-> queue[u].generation + 1] \in Searches
    BY ConstantsAssumption DEF Queues, Searches
  <2> QED
    BY <1>1, <2>1 DEF StartSearch, Queues, Searches, SearchesMove
<1>2. ASSUME NEW u \in Users, CancelSearch(u)
      PROVE  /\ queue' \in Queues /\ SearchesMove /\ requests' \in RequestTables
             /\ \A f \in Entries, v \in Users : requests'[f][v] \in {requests[f][v], NoRequest}
  <2> DEFINE ended == [queue[u] EXCEPT !.waiting = FALSE, !.auto = FALSE, !.roles = {}]
             after == [ended EXCEPT !.generation = @ + 1]
  <2>1. ended \in Searches /\ ended.waiting = FALSE /\ ended.generation = queue[u].generation
    BY DEF Queues, Searches
  <2>2. queue[u].waiting => SearchEnded({u})[u] = ended
    BY DEF SearchEnded
  <2> HIDE DEF ended
  <2>3. after \in Searches /\ after.waiting = FALSE /\ after.generation = queue[u].generation + 1
    BY <2>1 DEF Searches
  <2>4. queue' = [v \in Users |-> IF v = u /\ queue[u].waiting THEN after ELSE queue[v]]
    BY <1>2, <2>2 DEF CancelSearch
  <2> HIDE DEF after
  <2>5. queue' \in Queues /\ SearchesMove
    BY <2>1, <2>3, <2>4 DEF Queues, Searches, SearchesMove
  <2>6. requests' \in RequestTables
        /\ \A f \in Entries, v \in Users : requests'[f][v] \in {requests[f][v], NoRequest}
    BY <1>2, NoRequestType DEF CancelSearch, RequestTables
  <2> QED
    BY <2>5, <2>6
<1>3. SameEntries /\ roster' = roster /\ consent' = consent /\ MatcherType' /\ TicketsStay
  BY DEF SearchStep, StartSearch, CancelSearch, tournament, lineups, matcher, SameEntries, MatcherType, TicketsStay
<1>4. /\ WaitingType' /\ SearchesMove
      /\ \A f \in Entries, v \in Users : requests'[f][v] \in {requests[f][v], NoRequest}
  BY <1>1, <1>2 DEF SearchStep
<1> QED
  BY <1>3, <1>4, QuietWhenSame

LEMMA PassQuiet ==
    ASSUME TypeInv, NEW i \in Instances,
           BeginPass(i) \/ EndPass(i) \/ Crash(i) \/ \E ticket \in pass[i].tickets : SkipCandidate(i, ticket)
    PROVE  Quiet /\ CompaniesStay
<1> USE DEF TypeInv, WaitingType, MatcherType
<1>1. ASSUME NEW players, queue' = SearchEnded(players) \/ queue' = queue
      PROVE  queue' \in Queues /\ SearchesMove
  <2>1. CASE queue' = SearchEnded(players)
    BY <2>1, SearchEndedEnds DEF Ended, SearchesMove, Queues, Searches
  <2>2. CASE queue' = queue
    BY <2>2 DEF SearchesMove
  <2> QED
    BY <1>1, <2>1, <2>2
<1>2. queue' \in Queues /\ SearchesMove
  BY <1>1 DEF BeginPass, EndPass, Crash, SkipCandidate
<1>3. MatcherType'
  <2>1. ASSUME BeginPass(i)
        PROVE  MatcherType'
    <3> DEFINE tickets == {[user |-> u, generation |-> queue[u].generation, roles |-> queue[u].roles] :
                              u \in {v \in {w \in Users : queue[w].waiting /\ queue[w].auto} : ~Enrolled(v)}}
    <3>1. tickets \subseteq Tickets
      BY DEF Queues, Searches, Tickets
    <3>2. CASE CanRecruit("RESERVE")
      <4>1. pass' = [pass EXCEPT ![i] = [running |-> TRUE, tickets |-> tickets]]
            /\ lease' = [holder |-> i, lapsed |-> FALSE]
        BY <2>1, <3>2 DEF BeginPass
      <4> HIDE DEF tickets
      <4> QED
        BY <3>1, <4>1
    <3>3. CASE ~CanRecruit("RESERVE")
      <4>1. pass' = pass /\ lease' = [holder |-> None, lapsed |-> FALSE]
        BY <2>1, <3>3 DEF BeginPass
      <4> QED
        BY <4>1
    <3> QED
      BY <3>2, <3>3
  <2>2. ASSUME EndPass(i) \/ Crash(i)
        PROVE  MatcherType'
    <3>1. /\ pass' = [pass EXCEPT ![i] = [running |-> FALSE, tickets |-> {}]]
          /\ lease' = lease \/ lease' = [holder |-> None, lapsed |-> FALSE]
      BY <2>2 DEF EndPass, Crash
    <3>2. lease' \in [holder : Instances \cup {None}, lapsed : BOOLEAN]
      <4>1. [holder |-> None, lapsed |-> FALSE] \in [holder : Instances \cup {None}, lapsed : BOOLEAN]
        OBVIOUS
      <4> QED
        BY <3>1, <4>1
    <3>3. pass' \in [Instances -> [running : BOOLEAN, tickets : SUBSET Tickets]]
      <4>1. [running |-> FALSE, tickets |-> {}] \in [running : BOOLEAN, tickets : SUBSET Tickets]
        OBVIOUS
      <4> QED
        BY <3>1, <4>1
    <3> QED
      BY <3>2, <3>3
  <2>3. ASSUME NEW ticket \in pass[i].tickets, SkipCandidate(i, ticket)
        PROVE  MatcherType'
    <3>1. [pass[i] EXCEPT !.tickets = @ \ {ticket}] \in [running : BOOLEAN, tickets : SUBSET Tickets]
      OBVIOUS
    <3> QED
      BY <2>3, <3>1 DEF SkipCandidate, Leave
  <2> QED
    BY <2>1, <2>2, <2>3
<1>4. SameEntries /\ roster' = roster /\ consent' = consent /\ requests' = requests
  BY DEF BeginPass, EndPass, Crash, SkipCandidate, tournament, lineups, SameEntries
<1> QED
  BY <1>2, <1>3, <1>4, QuietWhenSame

LEMMA LapseQuiet ==
    ASSUME TypeInv, LeaseLapses
    PROVE  Quiet /\ CompaniesStay /\ TicketsStay
<1> USE DEF TypeInv, WaitingType, MatcherType
<1>1. SameEntries /\ roster' = roster /\ consent' = consent /\ WaitingType' /\ MatcherType' /\ TicketsStay
      /\ SearchesMove /\ requests' = requests
  BY DEF LeaseLapses, tournament, lineups, SameEntries, TicketsStay, SearchesMove
<1> QED
  BY <1>1, QuietWhenSame

\* What captains set about their entries.
LEMMA SettingsQuiet ==
    ASSUME TypeInv, NEW u \in Users, NEW e \in Entries,
           \/ SetEntryJoinMode(u, e) \/ EnableCompany(u, e)
           \/ ConfirmCompany(u, e, TRUE) \/ ConfirmCompany(u, e, FALSE)
    PROVE  /\ Quiet /\ TicketsStay
           /\ SetEntryJoinMode(u, e) => CompaniesStay
<1> USE DEF TypeInv
<1>1. Active(e)
  BY DEF SetEntryJoinMode, EnableCompany, ConfirmCompany, Manages
<1>2. /\ entry' \in EntryTables
      /\ \A f \in Entries : /\ entry'[f].captain = entry[f].captain /\ entry'[f].status = entry[f].status
                            /\ SetEntryJoinMode(u, e) => entry'[f].company = entry[f].company
  <2>1. ASSUME NEW joinMode \in {"OPEN", "CONFIRM"}, entry' = [entry EXCEPT ![e].joinMode = joinMode]
        PROVE  /\ entry' \in EntryTables
               /\ \A f \in Entries : /\ entry'[f].captain = entry[f].captain
                                     /\ entry'[f].status = entry[f].status
                                     /\ entry'[f].company = entry[f].company
    <3>1. [entry[e] EXCEPT !.joinMode = joinMode] \in Records
      BY RowTypes DEF LineupsType, EntryTables
    <3> QED
      BY <2>1, <3>1 DEF LineupsType, EntryTables, Records
  <2>2. ASSUME entry' = [entry EXCEPT ![e].company = TRUE]
        PROVE  /\ entry' \in EntryTables
               /\ \A f \in Entries : entry'[f].captain = entry[f].captain /\ entry'[f].status = entry[f].status
    <3>1. [entry[e] EXCEPT !.company = TRUE] \in Records
      BY RowTypes DEF LineupsType, EntryTables
    <3> QED
      BY <2>2, <3>1 DEF LineupsType, EntryTables, Records
  <2>3. CASE SetEntryJoinMode(u, e)
    BY <2>1, <2>3 DEF SetEntryJoinMode
  <2>4. CASE EnableCompany(u, e) /\ ~SetEntryJoinMode(u, e)
    BY <2>2, <2>4 DEF EnableCompany
  <2>5. CASE /\ ConfirmCompany(u, e, TRUE) \/ ConfirmCompany(u, e, FALSE)
             /\ ~SetEntryJoinMode(u, e)
    BY <2>5 DEF ConfirmCompany, LineupsType
  <2> QED
    BY <2>3, <2>4, <2>5
<1>3. consent' \in ConsentTables /\ \A f \in Entries \ {e} : consent'[f] = consent[f]
  BY NoRosterType DEF SetEntryJoinMode, EnableCompany, ConfirmCompany, LineupsType, RosterTables, ConsentTables
<1>4. /\ TournamentType' /\ WaitingType' /\ MatcherType' /\ SearchesMove /\ TicketsStay
      /\ roster' = roster /\ requests' = requests /\ registration' = registration /\ slots' = slots
      /\ SetEntryJoinMode(u, e) => consent' = consent
  BY DEF SetEntryJoinMode, EnableCompany, ConfirmCompany, tournament, matcher, TournamentType, WaitingType,
         MatcherType, SearchesMove, TicketsStay
<1>5. TypeInv'
  BY <1>2, <1>3, <1>4 DEF LineupsType
<1>6. Registered(entry') = Registered(entry)
  BY <1>2 DEF Registered
<1>7. TeamsFit => TeamsFit'
  BY <1>4, <1>6 DEF TeamsFit
<1> QED
  BY <1>1, <1>2, <1>3, <1>4, <1>5, <1>7 DEF Quiet, CompaniesStay

\* Closing parks the recruiting entries, or leaves the table as it is.
LEMMA TournamentQuiet ==
    ASSUME TypeInv, TournamentStep
    PROVE  Quiet /\ CompaniesStay /\ TicketsStay
<1> USE DEF TypeInv, TournamentType
<1>1. /\ roster' = roster /\ consent' = consent /\ requests' = requests /\ queue' = queue
      /\ lease' = lease /\ pass' = pass
  BY DEF TournamentStep, ClosingTimePasses, CloseRegistration, OtherEntryRegisters, OtherEntryLeaves,
         UpdateTournament, lineups, matcher
<1>2. entry' = entry \/ entry' = ToReserve(entry)
  BY DEF TournamentStep, ClosingTimePasses, CloseRegistration, OtherEntryRegisters, OtherEntryLeaves,
         UpdateTournament, lineups, matcher
<1>3. /\ entry' \in EntryTables /\ \A f \in Entries : Kept(entry, entry', f)
      /\ Registered(entry') = Registered(entry)
  BY <1>2, ToReserveKeeps DEF LineupsType, Kept
<1>4. MaxSlots \in Nat /\ Cardinality(Registered(entry)) \in Nat
  BY ConstantsAssumption, Countable
<1>5. /\ registration' \in Clocks /\ slots' \in 0..MaxSlots
      /\ TeamsFit => Cardinality(Registered(entry)) <= slots'
      /\ registration' \in {"CLOSED", "STARTED"} =>
            registration \in {"CLOSED", "STARTED"} \/ entry' = ToReserve(entry)
  <2>1. CASE ClosingTimePasses \/ CloseRegistration
    BY <2>1, <1>4 DEF ClosingTimePasses, CloseRegistration, Clocks, TeamsFit
  <2>2. CASE OtherEntryRegisters
    BY <2>2, <1>4 DEF OtherEntryRegisters, PlaceLeft, Clocks, TeamsFit
  <2>3. CASE OtherEntryLeaves
    BY <2>3, <1>4 DEF OtherEntryLeaves, Clocks, TeamsFit
  <2>4. ASSUME NEW next \in Clocks, NEW places \in 0..MaxSlots, UpdateTournament(next, places)
        PROVE  /\ registration' \in Clocks /\ slots' \in 0..MaxSlots
               /\ TeamsFit => Cardinality(Registered(entry)) <= slots'
               /\ registration' \in {"CLOSED", "STARTED"} =>
                     registration \in {"CLOSED", "STARTED"} \/ entry' = ToReserve(entry)
    BY <2>4, <1>4 DEF UpdateTournament, LimitAllowed, Clocks, TeamsFit
  <2> QED
    BY <2>1, <2>2, <2>3, <2>4 DEF TournamentStep, Clocks
<1>6. \A f \in Entries : ToReserve(entry)[f].status # "RECRUITING"
  BY ToReserveKeeps DEF LineupsType
<1>7. TypeInv'
  BY <1>1, <1>3, <1>5 DEF LineupsType, WaitingType, MatcherType, Clocks
<1>8. TeamsFit => TeamsFit'
  BY <1>3, <1>5 DEF TeamsFit
<1> QED
  BY <1>1, <1>3, <1>5, <1>6, <1>7, <1>8 DEF Quiet, CompaniesStay, TicketsStay, SearchesMove, Kept, LineupsType, ConsentTables

\* A step that changes no roster, whichever it is.
QuietStep ==
    \/ SearchStep \/ LeaseLapses \/ TournamentStep
    \/ \E u \in Users, e \in Entries :
          \/ SetEntryJoinMode(u, e) \/ EnableCompany(u, e)
          \/ ConfirmCompany(u, e, TRUE) \/ ConfirmCompany(u, e, FALSE)
          \/ \E r \in Roles : ApplyToEntry(u, e, r)
          \/ \E v \in Users : DeclineRequest(u, e, v)
          \/ CancelRequest(u, e)
          \/ \E source \in Entries : SubmitCompanyApplication(u, source, e)
    \/ \E i \in Instances :
          \/ BeginPass(i) \/ EndPass(i) \/ Crash(i)
          \/ \E ticket \in pass[i].tickets : SkipCandidate(i, ticket)

LEMMA QuietSteps ==
    ASSUME TypeInv, QuietStep
    PROVE  Quiet
<1>1. CASE SearchStep \/ LeaseLapses \/ TournamentStep
  BY <1>1, SearchQuiet, LapseQuiet, TournamentQuiet
<1>2. ASSUME NEW u \in Users, NEW e \in Entries,
             \/ SetEntryJoinMode(u, e) \/ EnableCompany(u, e)
             \/ ConfirmCompany(u, e, TRUE) \/ ConfirmCompany(u, e, FALSE)
      PROVE  Quiet
  BY <1>2, SettingsQuiet
<1>3. ASSUME NEW u \in Users, NEW e \in Entries, NEW r \in Roles, ApplyToEntry(u, e, r)
      PROVE  Quiet
  BY <1>3, ApplyQuiet
<1>4. ASSUME NEW u \in Users, NEW e \in Entries, NEW v \in Users, DeclineRequest(u, e, v) \/ CancelRequest(v, e)
      PROVE  Quiet
  BY <1>4, DeclineQuiet
<1>5. ASSUME NEW u \in Users, NEW e \in Entries, NEW source \in Entries, SubmitCompanyApplication(u, source, e)
      PROVE  Quiet
  BY <1>5, SubmitQuiet
<1>6. ASSUME NEW i \in Instances,
             BeginPass(i) \/ EndPass(i) \/ Crash(i) \/ \E ticket \in pass[i].tickets : SkipCandidate(i, ticket)
      PROVE  Quiet
  BY <1>6, PassQuiet
<1> QED
  BY <1>1, <1>2, <1>3, <1>4, <1>5, <1>6, Zenon DEF QuietStep

-----------------------------------------------------------------------------
(* Every step that touches a roster is one of six *)

MatcherMoves == MatcherType' /\ TicketsStay

LineupStep ==
    /\ MatcherMoves
    /\ \/ \E e \in Entries, u \in Users, r \in Roles :
              Active(e) /\ SlotAvailable(e, u, r) /\ Joins(e, u, r)
       \/ \E e \in Entries : Reshapes(e) \/ Withdraws(e)
       \/ \E e \in Entries, u \in Users : Creates(e, u) \/ Registers(u, e)
       \/ \E e, source \in Entries, captain, leader \in Users : Merges(captain, e, leader, source)

\* A squad of one, or of the two the matcher found.
LEMMA LoneLineup ==
    ASSUME NEW u \in Users, NEW r \in Roles
    PROVE  LET lineup == [NoRoster EXCEPT ![u] = r]
           IN  lineup \in Rosters /\ u \in Members(lineup) /\ Injective(lineup) /\ Members(lineup) \subseteq {u}
BY MarkersAssumption DEF NoRoster, Rosters, Members, Injective

Pair(u, r, v, s) == [NoRoster EXCEPT ![u] = r, ![v] = s]

LEMMA PairLineup ==
    ASSUME NEW u \in Users, NEW v \in Users, u # v, NEW r \in Roles, NEW s \in Roles, r # s
    PROVE  /\ Pair(u, r, v, s) \in Rosters /\ u \in Members(Pair(u, r, v, s)) /\ Injective(Pair(u, r, v, s))
           /\ Members(Pair(u, r, v, s)) \subseteq {u, v}
           /\ Pair(u, r, v, s)[u] = r /\ Pair(u, r, v, s)[v] = s
<1>1. Pair(u, r, v, s) = [w \in Users |-> IF w = u THEN r ELSE IF w = v THEN s ELSE "out"]
  BY DEF NoRoster, Pair
<1> QED
  BY <1>1, MarkersAssumption DEF Rosters, Members, Injective

LEMMA MatcherRests ==
    ASSUME MatcherType, UNCHANGED matcher
    PROVE  MatcherMoves
BY DEF MatcherType, matcher, MatcherMoves, TicketsStay

LEMMA MatcherLeaves ==
    ASSUME MatcherType, NEW i \in Instances, NEW ticket, pass' = Leave(i, ticket), lease' = lease
    PROVE  MatcherMoves
<1>1. [pass[i] EXCEPT !.tickets = @ \ {ticket}] \in [running : BOOLEAN, tickets : SUBSET Tickets]
  BY DEF MatcherType
<1> QED
  BY <1>1 DEF MatcherType, MatcherMoves, TicketsStay, Leave

LEMMA CreateSteps ==
    ASSUME TypeInv, NEW u \in Users, CreateSquad(u)
    PROVE  LineupStep
<1>1. PICK e \in Squads, r \in Roles, joinMode \in {"OPEN", "CONFIRM"}, company \in BOOLEAN :
           CreateSquadWith(e, u, [NoRoster EXCEPT ![u] = r], joinMode, company)
  BY DEF CreateSquad
<1> DEFINE lineup == [NoRoster EXCEPT ![u] = r]
<1>2. lineup \in Rosters /\ u \in Members(lineup) /\ Injective(lineup) /\ Members(lineup) \subseteq {u, u}
  BY LoneLineup
<1>3. CreateSquadWith(e, u, lineup, joinMode, company)
  BY <1>1
<1> HIDE DEF lineup
<1>4. e \in Entries
  BY DEF Entries
<1>5. Creates(e, u)
  BY <1>2, <1>3, <1>4, CreateEffect
<1> QED
  BY <1>4, <1>5, MatcherRests DEF LineupStep, CreateSquad, TypeInv

\* Both tickets name players, who take the positions they were matched for.
Paired(first, second, e, r, s) ==
    /\ Creates(e, first.user) /\ Members(roster'[e]) \subseteq {first.user, second.user}
    /\ roster'[e][first.user] = r /\ roster'[e][second.user] = s

LEMMA PairSteps ==
    ASSUME TypeInv, NEW i \in Instances, NEW first \in pass[i].tickets, NEW second \in pass[i].tickets,
           NEW e \in Squads, NEW r \in Roles, NEW s \in Roles, MatchPair(i, first, second, e, r, s)
    PROVE  LineupStep /\ Paired(first, second, e, r, s)
<1>1. first.user \in Users /\ second.user \in Users /\ first.user # second.user /\ r # s /\ e \in Entries
  BY DEF MatchPair, TypeInv, MatcherType, Tickets, Entries
<1> DEFINE lineup == Pair(first.user, r, second.user, s)
<1>2. /\ lineup \in Rosters /\ first.user \in Members(lineup) /\ Injective(lineup)
      /\ Members(lineup) \subseteq {first.user, second.user}
      /\ lineup[first.user] = r /\ lineup[second.user] = s
  BY <1>1, PairLineup
<1>3. CreateSquadWith(e, first.user, lineup, "OPEN", FALSE)
  BY DEF MatchPair, Pair
<1> HIDE DEF lineup
<1>4. Creates(e, first.user) /\ roster'[e] = lineup
  BY <1>1, <1>2, <1>3, CreateEffect
<1>5. MatcherMoves
  BY MatcherLeaves DEF MatchPair, TypeInv
<1> QED
  BY <1>1, <1>2, <1>4, <1>5 DEF LineupStep, Paired

LEMMA JoinSteps ==
    ASSUME TypeInv, NEW e \in Entries, NEW u \in Users
    PROVE  /\ \A r \in Roles, viaInvitation \in BOOLEAN : JoinEntry(u, e, r, viaInvitation) => LineupStep
           /\ \A v \in Users : AcceptRequest(u, e, v) => LineupStep
<1>1. ASSUME NEW r \in Roles, NEW viaInvitation \in BOOLEAN, JoinEntry(u, e, r, viaInvitation)
      PROVE  LineupStep
  <2>1. Joins(e, u, r) /\ Active(e) /\ SlotAvailable(e, u, r)
    BY <1>1, EnrolEffect DEF JoinEntry, MayJoin
  <2>2. MatcherMoves
    BY <1>1, MatcherRests DEF JoinEntry, TypeInv
  <2> QED
    BY <2>1, <2>2 DEF LineupStep
<1>2. ASSUME NEW v \in Users, AcceptRequest(u, e, v)
      PROVE  LineupStep
  <2> DEFINE r == requests[e][v].role
  <2>1. r \in Roles /\ Active(e) /\ SlotAvailable(e, v, r) /\ Enrol(e, v, r)
    BY <1>2 DEF AcceptRequest, Manages, TypeInv, WaitingType, RequestTables, Formed
  <2> HIDE DEF r
  <2>2. Joins(e, v, r)
    BY <2>1, EnrolEffect
  <2>3. MatcherMoves
    BY <1>2, MatcherRests DEF AcceptRequest, TypeInv
  <2> QED
    BY <2>1, <2>2, <2>3 DEF LineupStep
<1> QED
  BY <1>1, <1>2

LEMMA MatchSteps ==
    ASSUME TypeInv, NEW i \in Instances, NEW ticket \in pass[i].tickets, NEW e \in Entries, NEW r \in Roles,
           MatchIntoEntry(i, ticket, e, r)
    PROVE  LineupStep /\ ticket.user \in Users /\ Joins(e, ticket.user, r)
<1>1. ticket.user \in Users
  BY DEF TypeInv, MatcherType, Tickets
<1>2. Joins(e, ticket.user, r) /\ Active(e) /\ SlotAvailable(e, ticket.user, r)
  BY <1>1, EnrolEffect DEF MatchIntoEntry, MayJoin
<1>3. MatcherMoves
  BY MatcherLeaves DEF MatchIntoEntry, TypeInv
<1> QED
  BY <1>1, <1>2, <1>3 DEF LineupStep

LEMMA RosterSteps ==
    ASSUME TypeInv, NEW e \in Entries, NEW u \in Users
    PROVE  /\ \A r \in Roles : AssignEntryPosition(u, e, r) => LineupStep
           /\ \A v \in Users : RemoveEntryMember(u, e, v) => LineupStep
           /\ LeaveEntry(u, e) => LineupStep
           /\ WithdrawTeam(u, e) => LineupStep
           /\ RegisterTeam(u, e) => LineupStep
           /\ \A leader \in Users : AcceptCompany(u, e, leader) => LineupStep
<1>1. UNCHANGED matcher => MatcherMoves
  BY MatcherRests DEF TypeInv
<1>2. ASSUME NEW r \in Roles, AssignEntryPosition(u, e, r)
      PROVE  LineupStep
  BY <1>1, <1>2, AssignEffect DEF LineupStep, AssignEntryPosition
<1>3. ASSUME NEW v \in Users, RemoveEntryMember(u, e, v)
      PROVE  LineupStep
  BY <1>1, <1>3, RemoveEffect DEF LineupStep, RemoveEntryMember
<1>4. ASSUME LeaveEntry(u, e)
      PROVE  LineupStep
  BY <1>1, <1>4, LeaveEffect DEF LineupStep, LeaveEntry
<1>5. ASSUME WithdrawTeam(u, e)
      PROVE  LineupStep
  BY <1>1, <1>5, WithdrawEffect DEF LineupStep, WithdrawTeam
<1>6. ASSUME RegisterTeam(u, e)
      PROVE  LineupStep
  BY <1>1, <1>6, RegisterEffect, ZenonT(60) DEF LineupStep, RegisterTeam
<1>7. ASSUME NEW leader \in Users, AcceptCompany(u, e, leader)
      PROVE  LineupStep
  BY <1>1, <1>7, AcceptCompanyEffect DEF LineupStep, AcceptCompany
<1> QED
  BY <1>2, <1>3, <1>4, <1>5, <1>6, <1>7

\* Every step touches no roster, or is one of the six.
LEMMA AllSteps ==
    ASSUME TypeInv, Next
    PROVE  QuietStep \/ LineupStep
<1>1. ASSUME NEW u \in Users, NEW e \in Entries, RosterStep(u, e)
      PROVE  QuietStep \/ LineupStep
  BY <1>1, RosterSteps DEF RosterStep, QuietStep
<1>2. ASSUME NEW u \in Users, NEW e \in Entries, ApplicationStep(u, e)
      PROVE  QuietStep \/ LineupStep
  BY <1>2, JoinSteps DEF ApplicationStep, QuietStep
<1>3. ASSUME NEW u \in Users, NEW e \in Entries, CompanyStep(u, e)
      PROVE  QuietStep \/ LineupStep
  BY <1>3, RosterSteps DEF CompanyStep, QuietStep
<1>4. ASSUME NEW u \in Users, NEW e \in Teams, RegisterTeam(u, e)
      PROVE  LineupStep
  BY <1>4, RosterSteps DEF Entries
<1>5. ASSUME NEW i \in Instances, PassStep(i)
      PROVE  QuietStep \/ LineupStep
  BY <1>5, MatchSteps, PairSteps, Zenon DEF PassStep, QuietStep
<1>6. ASSUME NEW u \in Users, CreateSquad(u)
      PROVE  LineupStep
  BY <1>6, CreateSteps
<1> QED
  BY <1>1, <1>2, <1>3, <1>4, <1>5, <1>6, Zenon
     DEF Next, PlayerStep, TeamStep, CompaniesStep, MatcherStep, QuietStep

-----------------------------------------------------------------------------
(* Type correctness *)

LEMMA LineupTypes ==
    ASSUME TypeInv, LineupStep
    PROVE  TypeInv'
<1> USE DEF TypeInv
<1>1. ASSUME NEW e \in Entries, NEW u \in Users, NEW r \in Roles, Joins(e, u, r)
      PROVE  TournamentType' /\ LineupsType' /\ WaitingType'
  BY <1>1 DEF Joins, Settles, SyncedAround, Clocks, Seats, Finished, Ended, TournamentType, LineupsType, WaitingType
<1>2. ASSUME NEW e \in Entries, Reshapes(e)
      PROVE  TournamentType' /\ LineupsType' /\ WaitingType'
  BY <1>2 DEF Reshapes, Reseats, Settles, SyncedAround, Clocks, Seats, TournamentType, LineupsType, WaitingType
<1>3. ASSUME NEW e \in Entries, Withdraws(e)
      PROVE  TournamentType' /\ LineupsType' /\ WaitingType'
  BY <1>3 DEF Withdraws, TournamentType, LineupsType, WaitingType
<1>4. ASSUME NEW e \in Entries, NEW u \in Users, Creates(e, u)
      PROVE  TournamentType' /\ LineupsType' /\ WaitingType'
  BY <1>4 DEF Creates, Founds, Finished, Ended, TournamentType, LineupsType, WaitingType
<1>5. ASSUME NEW e \in Entries, NEW u \in Users, Registers(u, e)
      PROVE  TournamentType' /\ LineupsType' /\ WaitingType'
  BY <1>5 DEF Registers, Founds, Settles, SyncedAround, Clocks, TournamentType, LineupsType, WaitingType
<1>6. ASSUME NEW e \in Entries, NEW source \in Entries, NEW captain \in Users, NEW leader \in Users,
             Merges(captain, e, leader, source)
      PROVE  TournamentType' /\ LineupsType' /\ WaitingType'
  BY <1>6 DEF Merges, Settles, SyncedAround, Clocks, Finished, Ended, TournamentType, LineupsType, WaitingType
<1> QED
  BY <1>1, <1>2, <1>3, <1>4, <1>5, <1>6 DEF LineupStep, MatcherMoves

LEMMA TypeNext == TypeInv /\ [Next]_vars => TypeInv'
<1>1. ASSUME TypeInv, UNCHANGED vars
      PROVE  TypeInv'
  BY <1>1 DEF vars, TypeInv, TournamentType, LineupsType, WaitingType, MatcherType
<1>2. ASSUME TypeInv, Next
      PROVE  TypeInv'
  BY <1>2, AllSteps, QuietSteps, LineupTypes DEF Quiet
<1> QED
  BY <1>1, <1>2

LEMMA TypesHold == Spec => []TypeInv
BY TypeInit, TypeNext, PTL DEF Spec

\* Every variable keeps its type, whatever the handlers and the matcher do.
THEOREM TypeCorrect == Spec => []TypeOK
BY TypesHold, TypeInvTypes, PTL

-----------------------------------------------------------------------------
(* Rosters are exclusive *)

LEMMA RostersQuiet ==
    ASSUME RostersAreExclusive, roster' = roster
    PROVE  RostersAreExclusive'
BY DEF RostersAreExclusive, Members

\* A roster of players who are in none, each in a position of its own.
LEMMA RostersFounded ==
    ASSUME RostersAreExclusive, NEW e \in Entries, Founds(e, roster'[e]), Injective(roster'[e])
    PROVE  RostersAreExclusive'
<1>1. ASSUME NEW f \in Entries, NEW g \in Entries, NEW u \in Users,
             u \in Members(roster'[f]) \cap Members(roster'[g])
      PROVE  f = g
  BY <1>1 DEF RostersAreExclusive, Founds, OnlyRoster, Enrolled
<1>2. ASSUME NEW f \in Entries, NEW u \in Members(roster'[f]), NEW v \in Members(roster'[f]),
             u # v, roster'[f][u] = roster'[f][v]
      PROVE  roster'[f][u] = "unassigned"
  BY <1>2 DEF RostersAreExclusive, Founds, OnlyRoster, Injective
<1> QED
  BY <1>1, <1>2 DEF RostersAreExclusive, Members

\* A player enters, changes position or leaves.
LEMMA RostersSeated ==
    ASSUME RostersAreExclusive, roster \in RosterTables, NEW e \in Entries, NEW u \in Users,
           NEW r \in Roles \cup {"out"}, Seats(e, u, r),
           u \in Members(roster[e]) \/ ~Enrolled(u),
           r # "out" => \A v \in Users : roster[e][v] # r
    PROVE  RostersAreExclusive'
<1>1. \A f \in Entries \ {e}, v \in Users : v \in Members(roster'[f]) <=> v \in Members(roster[f])
  BY DEF Seats, OnlyRoster, Members
<1>2. \A v \in Users \ {u} : v \in Members(roster'[e]) <=> v \in Members(roster[e])
  BY DEF Seats, Members
<1>3. ASSUME NEW f \in Entries, NEW g \in Entries, NEW v \in Users,
             v \in Members(roster'[f]) \cap Members(roster'[g])
      PROVE  f = g
  <2>1. CASE v # u
    BY <1>1, <1>2, <1>3, <2>1 DEF RostersAreExclusive
  <2>2. CASE v = u
    BY <1>1, <1>3, <2>2 DEF RostersAreExclusive, Enrolled
  <2> QED
    BY <2>1, <2>2
<1>4. ASSUME NEW f \in Entries, NEW v \in Members(roster'[f]), NEW w \in Members(roster'[f]),
             v # w, roster'[f][v] = roster'[f][w]
      PROVE  roster'[f][v] = "unassigned"
  <2>1. CASE f # e
    BY <1>4, <2>1 DEF RostersAreExclusive, Seats, OnlyRoster
  <2>2. CASE f = e
    BY <1>4, <2>2 DEF RostersAreExclusive, Seats, Members
  <2> QED
    BY <2>1, <2>2
<1> QED
  BY <1>3, <1>4 DEF RostersAreExclusive, Members

LEMMA RostersMerged ==
    ASSUME RostersAreExclusive, NEW e \in Entries, NEW source \in Entries, NEW captain, NEW leader,
           Merges(captain, e, leader, source)
    PROVE  RostersAreExclusive'
<1>1. /\ source # e /\ Members(roster'[source]) = {}
      /\ \A f \in Entries \ {source, e} : roster'[f] = roster[f]
      /\ \A u \in Users :
            roster'[e][u] = IF u \in Members(roster[source]) THEN roster[source][u] ELSE roster[e][u]
  BY DEF Merges, NoRoster, Members
<1>2. \A u \in Members(roster[source]), v \in Members(roster[e]) : roster[source][u] # roster[e][v]
  BY DEF Merges, Fits
<1>3. \A u \in Users : u \in Members(roster'[e]) => u \in Members(roster[source]) \/ u \in Members(roster[e])
  BY <1>1 DEF Members
<1>4. ASSUME NEW f \in Entries, NEW g \in Entries, NEW u \in Users,
             u \in Members(roster'[f]) \cap Members(roster'[g])
      PROVE  f = g
  BY <1>1, <1>3, <1>4 DEF RostersAreExclusive
<1>5. ASSUME NEW f \in Entries, NEW u \in Members(roster'[f]), NEW v \in Members(roster'[f]),
             u # v, roster'[f][u] = roster'[f][v]
      PROVE  roster'[f][u] = "unassigned"
  <2>1. CASE f = e
    BY <1>1, <1>2, <1>3, <1>5, <2>1 DEF RostersAreExclusive, Members
  <2>2. CASE f # e
    BY <1>1, <1>5, <2>2 DEF RostersAreExclusive
  <2> QED
    BY <2>1, <2>2
<1> QED
  BY <1>4, <1>5 DEF RostersAreExclusive, Members

LEMMA RostersNext == TypeInv /\ RostersAreExclusive /\ [Next]_vars => RostersAreExclusive'
<1> SUFFICES ASSUME TypeInv, RostersAreExclusive, [Next]_vars PROVE RostersAreExclusive'
  OBVIOUS
<1>1. CASE UNCHANGED vars
  BY <1>1, RostersQuiet DEF vars
<1>2. CASE QuietStep
  BY <1>2, QuietSteps, RostersQuiet DEF Quiet
<1>3. ASSUME NEW e \in Entries, NEW u \in Users, NEW r \in Roles,
             Active(e), SlotAvailable(e, u, r), Joins(e, u, r)
      PROVE  RostersAreExclusive'
  BY <1>3, RostersSeated DEF Joins, SlotAvailable, TypeInv, LineupsType
<1>4. ASSUME NEW e \in Entries, Reshapes(e)
      PROVE  RostersAreExclusive'
  BY <1>4, RostersSeated DEF Reshapes, Reseats, Members, TypeInv, LineupsType
<1>5. ASSUME NEW e \in Entries, Withdraws(e)
      PROVE  RostersAreExclusive'
  <2>1. Founds(e, roster'[e]) /\ Injective(roster'[e])
    BY <1>5, NoRosterType DEF Withdraws, Founds, Injective, NoRoster, Members
  <2> QED
    BY <2>1, RostersFounded
<1>6. ASSUME NEW e \in Entries, NEW u \in Users, Creates(e, u) \/ Registers(u, e)
      PROVE  RostersAreExclusive'
  BY <1>6, RostersFounded DEF Creates, Registers
<1>7. ASSUME NEW e \in Entries, NEW source \in Entries, NEW captain \in Users, NEW leader \in Users,
             Merges(captain, e, leader, source)
      PROVE  RostersAreExclusive'
  BY <1>7, RostersMerged
<1> QED
  BY <1>1, <1>2, <1>3, <1>4, <1>5, <1>6, <1>7, AllSteps, Zenon DEF LineupStep

\* Whatever the order of joins, acceptances, mergers and matches, nobody is in two rosters
\* and no position is held twice.
THEOREM RostersStayExclusive == Spec => []RostersAreExclusive
<1>1. Init => RostersAreExclusive
  BY DEF Init, RostersAreExclusive, NoRoster, Members
<1> QED
  BY <1>1, TypesHold, RostersNext, PTL DEF Spec

-----------------------------------------------------------------------------
(* Statuses match rosters *)

StatusAt(e) ==
    /\ entry[e].status = "REGISTERED" => Complete(roster[e])
    /\ entry[e].status = "RECRUITING" => ~Complete(roster[e]) /\ registration \notin {"CLOSED", "STARTED"}
    /\ IF Active(e) THEN entry[e].captain \in Members(roster[e])
       ELSE Members(roster[e]) = {} /\ \A u \in Users : requests[e][u] = NoRequest

\* An entry that keeps its roster and its captain, whose applications at most disappear.
LEMMA StatusBeside ==
    ASSUME NEW f \in Entries, StatusAt(f), roster'[f] = roster[f],
           entry'[f].captain = entry[f].captain,
           \/ entry'[f].status = entry[f].status
           \/ entry[f].status = "RECRUITING" /\ entry'[f].status = "RESERVE",
           \A u \in Users : requests'[f][u] \in {requests[f][u], NoRequest} \/ Active(f),
           \/ registration' \notin {"CLOSED", "STARTED"} \/ registration \in {"CLOSED", "STARTED"}
           \/ entry'[f].status # "RECRUITING"
    PROVE  StatusAt(f)'
<1>1. Active(f)' <=> Active(f)
  BY DEF Active, ActiveStatuses
<1> QED
  BY <1>1 DEF StatusAt, Members, Complete, Active

\* The entry whose roster has changed.
LEMMA StatusSettled ==
    ASSUME NEW e \in Entries, NEW table, NEW agreed, Settles(table, agreed, e),
           table[e].status \in ActiveStatuses => table[e].captain \in Members(roster'[e]),
           table[e].status \notin ActiveStatuses =>
               Members(roster'[e]) = {} /\ \A u \in Users : requests'[e][u] = NoRequest
    PROVE  StatusAt(e)'
<1>1. Synced(table, agreed, e, roster'[e])
  BY DEF Settles
<1>2. Active(e)' <=> table[e].status \in ActiveStatuses
  BY <1>1 DEF Synced, Active
<1>3. /\ entry'[e].status = "REGISTERED" => Complete(roster'[e])
      /\ entry'[e].status = "RECRUITING" =>
            ~Complete(roster'[e]) /\ registration' \notin {"CLOSED", "STARTED"}
  BY <1>1 DEF Synced
<1>4. IF Active(e)' THEN entry'[e].captain \in Members(roster'[e])
      ELSE Members(roster'[e]) = {} /\ \A u \in Users : requests'[e][u] = NoRequest
  BY <1>1, <1>2 DEF Synced
<1> QED
  BY <1>3, <1>4 DEF StatusAt, Complete, Members

\* The others, when one roster has changed.
LEMMA StatusAround ==
    ASSUME StatusMatchesRoster, NEW table, NEW agreed, NEW e \in Entries, Settles(table, agreed, e),
           NEW f \in Entries \ {e}, table[f] = entry[f], roster'[f] = roster[f],
           \A u \in Users : requests'[f][u] \in {requests[f][u], NoRequest}
    PROVE  StatusAt(f)'
<1>1. Kept(table, entry', f)
  BY DEF Settles, SyncedAround
<1>2. \/ registration' \notin {"CLOSED", "STARTED"} \/ registration \in {"CLOSED", "STARTED"}
      \/ entry'[f].status # "RECRUITING"
  BY DEF Settles, SyncedAround
<1>3. StatusAt(f)
  BY DEF StatusMatchesRoster, StatusAt
<1> QED
  BY <1>1, <1>2, <1>3, StatusBeside DEF Kept

LEMMA StatusQuiet ==
    ASSUME StatusMatchesRoster, Quiet
    PROVE  StatusMatchesRoster'
<1>1. ASSUME NEW f \in Entries
      PROVE  StatusAt(f)'
  <2>1. StatusAt(f)
    BY DEF StatusMatchesRoster, StatusAt
  <2> QED
    BY <2>1, StatusBeside DEF Quiet
<1> QED
  BY <1>1 DEF StatusMatchesRoster, StatusAt

LEMMA StatusJoins ==
    ASSUME TypeInv, StatusMatchesRoster, NEW e \in Entries, NEW u \in Users, NEW r \in Roles,
           Active(e), Joins(e, u, r)
    PROVE  \A f \in Entries : StatusAt(f)'
<1>1. Settles(entry, consent, e)
  BY DEF Joins
<1>2. entry[e].captain \in Members(roster[e])
  BY DEF StatusMatchesRoster
<1>3. entry[e].captain \in Members(roster'[e])
  BY <1>2, MarkersAssumption DEF Joins, Seats, Members
<1>4. StatusAt(e)'
  BY <1>1, <1>3, StatusSettled DEF Active
<1>5. ASSUME NEW f \in Entries \ {e}
      PROVE  StatusAt(f)'
  BY <1>1, StatusAround DEF Joins, Seats, OnlyRoster, Finished
<1> QED
  BY <1>4, <1>5

LEMMA StatusReshapes ==
    ASSUME TypeInv, StatusMatchesRoster, NEW e \in Entries, Reshapes(e)
    PROVE  \A f \in Entries : StatusAt(f)'
<1>1. PICK u \in Users, r \in Roles \cup {"out"}, after \in EntryTables :
           Reseats(u, e, r) /\ Hands(after, e) /\ Settles(after, consent, e)
  BY DEF Reshapes
<1>2. Active(e) /\ entry[e].captain \in Members(roster[e])
  BY <1>1 DEF Reseats, StatusMatchesRoster
<1>3. after[e].status \in ActiveStatuses => after[e].captain \in Members(roster'[e])
  BY <1>1, <1>2 DEF Hands, ActiveStatuses
<1>4. after[e].status \notin ActiveStatuses =>
          Members(roster'[e]) = {} /\ \A v \in Users : requests'[e][v] = NoRequest
  BY <1>1, <1>2 DEF Hands, Active
<1>5. StatusAt(e)'
  BY <1>1, <1>3, <1>4, StatusSettled
<1>6. ASSUME NEW f \in Entries \ {e}
      PROVE  StatusAt(f)'
  <2>1. /\ after[f] = entry[f] /\ roster'[f] = roster[f]
        /\ \A v \in Users : requests'[f][v] \in {requests[f][v], NoRequest}
    BY <1>1 DEF Hands, Reseats, Seats, OnlyRoster
  <2> QED
    BY <1>1, <2>1, StatusAround
<1> QED
  BY <1>5, <1>6

LEMMA StatusFounds ==
    ASSUME TypeInv, StatusMatchesRoster, NEW e \in Entries, NEW u \in Users
    PROVE  /\ Creates(e, u) => \A f \in Entries : StatusAt(f)'
           /\ Registers(u, e) => \A f \in Entries : StatusAt(f)'
<1>1. ASSUME Creates(e, u)
      PROVE  \A f \in Entries : StatusAt(f)'
  <2>1. ~Complete(roster'[e])
    BY <1>1, PairIsNoRoster DEF Creates
  <2>2. entry'[e].captain \in Members(roster'[e])
    BY <1>1 DEF Creates
  <2>3. entry'[e].status \in {"RESERVE", "RECRUITING"}
    BY <1>1 DEF Creates
  <2>4. entry'[e].status = "RECRUITING" => registration' = "OPEN"
    BY <1>1 DEF Creates
  <2>5. StatusAt(e)'
    BY <2>1, <2>2, <2>3, <2>4 DEF StatusAt, Active, ActiveStatuses, Complete, Members
  <2>6. ASSUME NEW f \in Entries \ {e}
        PROVE  StatusAt(f)'
    <3>1. StatusAt(f)
      BY DEF StatusMatchesRoster, StatusAt
    <3> QED
      BY <1>1, <3>1, StatusBeside DEF Creates, Founds, OnlyRoster, Finished, StatusAt
  <2> QED
    BY <2>5, <2>6
<1>2. ASSUME Registers(u, e)
      PROVE  \A f \in Entries : StatusAt(f)'
  <2>1. PICK table \in EntryTables :
           /\ table[e].status = "RECRUITING" /\ table[e].captain = u
           /\ \A f \in Entries \ {e} : table[f] = entry[f]
           /\ Settles(table, consent, e)
    BY <1>2 DEF Registers
  <2>2. StatusAt(e)'
    BY <1>2, <2>1, StatusSettled DEF Registers, ActiveStatuses
  <2>3. ASSUME NEW f \in Entries \ {e}
        PROVE  StatusAt(f)'
    BY <1>2, <2>1, StatusAround DEF Registers, Founds, OnlyRoster
  <2> QED
    BY <2>2, <2>3
<1> QED
  BY <1>1, <1>2

LEMMA StatusWithdraws ==
    ASSUME TypeInv, StatusMatchesRoster, NEW e \in Entries, Withdraws(e)
    PROVE  \A f \in Entries : StatusAt(f)'
<1>1. StatusAt(e)'
  BY DEF Withdraws, StatusAt, Active, ActiveStatuses, NoRoster, Members
<1>2. ASSUME NEW f \in Entries \ {e}
      PROVE  StatusAt(f)'
  <2>1. StatusAt(f)
    BY DEF StatusMatchesRoster, StatusAt
  <2> QED
    BY <2>1, StatusBeside DEF Withdraws, OnlyRoster, StatusAt
<1> QED
  BY <1>1, <1>2

LEMMA StatusMerges ==
    ASSUME TypeInv, StatusMatchesRoster, NEW e \in Entries, NEW source \in Entries, NEW captain \in Users,
           NEW leader \in Users, Merges(captain, e, leader, source)
    PROVE  \A f \in Entries : StatusAt(f)'
<1>1. PICK table \in EntryTables, agreed \in ConsentTables :
          /\ table[source].status = "WITHDRAWN"
          /\ \A f \in Entries \ {source} : table[f] = entry[f]
          /\ Settles(table, agreed, e)
  BY DEF Merges
<1>2. source # e /\ Active(e) /\ entry[e].captain \in Members(roster[e]) /\ table[e] = entry[e]
  BY <1>1 DEF Merges, Manages, StatusMatchesRoster
<1>3. entry[e].captain \in Members(roster'[e])
  BY <1>2 DEF Merges, Members
<1>4. StatusAt(e)'
  BY <1>1, <1>2, <1>3, StatusSettled DEF Active
<1>5. StatusAt(source)'
  <2>1. entry'[source].status = "WITHDRAWN"
    BY <1>1, <1>2 DEF Settles, SyncedAround, Kept
  <2>2. Members(roster'[source]) = {} /\ \A u \in Users : requests'[source][u] = NoRequest
    BY DEF Merges, NoRoster, Members
  <2> QED
    BY <2>1, <2>2 DEF StatusAt, Active, ActiveStatuses, Members
<1>6. ASSUME NEW f \in Entries \ {source, e}
      PROVE  StatusAt(f)'
  <2>1. /\ table[f] = entry[f] /\ roster'[f] = roster[f]
        /\ \A v \in Users : requests'[f][v] \in {requests[f][v], NoRequest}
    BY <1>1 DEF Merges, Finished
  <2> QED
    BY <1>1, <2>1, StatusAround
<1> QED
  BY <1>4, <1>5, <1>6

LEMMA StatusNext == TypeInv /\ StatusMatchesRoster /\ [Next]_vars => StatusMatchesRoster'
<1> SUFFICES ASSUME TypeInv, StatusMatchesRoster, [Next]_vars PROVE StatusMatchesRoster'
  OBVIOUS
<1>1. CASE UNCHANGED vars
  BY <1>1 DEF vars, StatusMatchesRoster, Active, Members, Complete
<1>2. CASE QuietStep
  BY <1>2, QuietSteps, StatusQuiet
<1>3. CASE LineupStep
  <2>1. \A f \in Entries : StatusAt(f)'
    BY <1>3, StatusJoins, StatusReshapes, StatusFounds, StatusWithdraws, StatusMerges, Zenon DEF LineupStep
  <2> QED
    BY <2>1 DEF StatusMatchesRoster, StatusAt
<1> QED
  BY <1>1, <1>2, <1>3, AllSteps

\* At every moment a status says what the roster is, an active entry has its captain in it,
\* and nobody waits at an entry that is gone.
THEOREM StatusesMatchRosters == Spec => []StatusMatchesRoster
<1>1. Init => StatusMatchesRoster
  BY DEF Init, StatusMatchesRoster, Active, ActiveStatuses, NoRoster, Members
<1> QED
  BY <1>1, TypesHold, StatusNext, PTL DEF Spec

-----------------------------------------------------------------------------
(* The limit of teams *)

LEMMA TeamsSettled ==
    ASSUME TypeInv, TeamsFit, NEW table, NEW agreed, NEW e \in Entries, Settles(table, agreed, e),
           Registered(table) \subseteq Registered(entry), slots' = slots
    PROVE  TeamsFit'
<1>1. \A f \in Entries \ {e} : entry'[f].status = "REGISTERED" => table[f].status = "REGISTERED"
  BY DEF Settles, SyncedAround, Kept
<1>2. entry'[e].status = "REGISTERED" => table[e].status = "REGISTERED" \/ PlaceLeft(table)
  BY DEF Settles, Synced
<1>3. Cardinality(Registered(table)) <= slots
  BY RegisteredGrows, Countable DEF TeamsFit, TypeInv, TournamentType
<1>4. CASE e \in Registered(entry') /\ e \notin Registered(table)
  <2>1. Registered(entry') \subseteq Registered(table) \cup {e}
    BY <1>1 DEF Registered
  <2>2. Cardinality(Registered(entry')) <= Cardinality(Registered(table)) + 1
    BY <2>1, RegisteredGrows
  <2>3. Cardinality(Registered(table)) < slots
    BY <1>2, <1>4 DEF Registered, PlaceLeft
  <2> QED
    BY <2>2, <2>3, Countable, ConstantsAssumption DEF TeamsFit, TypeInv, TournamentType
<1>5. CASE ~(e \in Registered(entry') /\ e \notin Registered(table))
  <2>1. Registered(entry') \subseteq Registered(table)
    BY <1>1, <1>5 DEF Registered
  <2>2. Cardinality(Registered(entry')) <= Cardinality(Registered(table))
    BY <2>1, RegisteredGrows
  <2> QED
    BY <1>3, <2>2, Countable, ConstantsAssumption DEF TeamsFit, TypeInv, TournamentType
<1> QED
  BY <1>4, <1>5

LEMMA TeamsShrink ==
    ASSUME TypeInv, TeamsFit, Registered(entry') \subseteq Registered(entry), slots' = slots
    PROVE  TeamsFit'
<1>1. Cardinality(Registered(entry')) <= Cardinality(Registered(entry))
  BY RegisteredGrows
<1> QED
  BY <1>1, Countable, ConstantsAssumption DEF TeamsFit, TypeInv, TournamentType

LEMMA TeamsNext == TypeInv /\ TeamsFit /\ [Next]_vars => TeamsFit'
<1> SUFFICES ASSUME TypeInv, TeamsFit, [Next]_vars PROVE TeamsFit'
  OBVIOUS
<1>1. CASE UNCHANGED vars
  BY <1>1 DEF vars, TeamsFit, Registered
<1>2. CASE QuietStep
  BY <1>2, QuietSteps DEF Quiet
<1>3. ASSUME NEW e \in Entries, NEW u \in Users, NEW r \in Roles, Joins(e, u, r)
      PROVE  TeamsFit'
  BY <1>3, TeamsSettled DEF Joins
<1>4. ASSUME NEW e \in Entries, Reshapes(e)
      PROVE  TeamsFit'
  <2>1. PICK u \in Users, r \in Roles \cup {"out"}, after \in EntryTables :
             Reseats(u, e, r) /\ Hands(after, e) /\ Settles(after, consent, e)
    BY <1>4 DEF Reshapes
  <2>2. Registered(after) \subseteq Registered(entry)
    BY <2>1 DEF Hands, Registered
  <2> QED
    BY <2>1, <2>2, TeamsSettled DEF Reseats
<1>5. ASSUME NEW e \in Entries, Withdraws(e)
      PROVE  TeamsFit'
  <2>1. Registered(entry') \subseteq Registered(entry) /\ slots' = slots
    BY <1>5 DEF Withdraws, Registered
  <2> QED
    BY <2>1, TeamsShrink
<1>6. ASSUME NEW e \in Entries, NEW u \in Users, Creates(e, u)
      PROVE  TeamsFit'
  <2>1. Registered(entry') \subseteq Registered(entry) /\ slots' = slots
    BY <1>6 DEF Creates, Registered
  <2> QED
    BY <2>1, TeamsShrink
<1>7. ASSUME NEW e \in Entries, NEW u \in Users, Registers(u, e)
      PROVE  TeamsFit'
  <2>1. PICK table \in EntryTables :
           /\ table[e].status = "RECRUITING" /\ \A f \in Entries \ {e} : table[f] = entry[f]
           /\ Settles(table, consent, e)
    BY <1>7 DEF Registers
  <2>2. Registered(table) \subseteq Registered(entry)
    BY <2>1 DEF Registered
  <2> QED
    BY <1>7, <2>1, <2>2, TeamsSettled DEF Registers
<1>8. ASSUME NEW e \in Entries, NEW source \in Entries, NEW captain \in Users, NEW leader \in Users,
             Merges(captain, e, leader, source)
      PROVE  TeamsFit'
  <2>1. PICK table \in EntryTables, agreed \in ConsentTables :
            /\ table[source].status = "WITHDRAWN"
            /\ \A f \in Entries \ {source} : table[f] = entry[f]
            /\ Settles(table, agreed, e)
    BY <1>8 DEF Merges
  <2>2. Registered(table) \subseteq Registered(entry)
    BY <2>1 DEF Registered
  <2> QED
    BY <1>8, <2>1, <2>2, TeamsSettled DEF Merges
<1> QED
  BY <1>1, <1>2, <1>3, <1>4, <1>5, <1>6, <1>7, <1>8, AllSteps, Zenon DEF LineupStep

\* Registered entries never exceed the limit, whoever completes, merges or returns while
\* staff and other entries move the limit.
THEOREM TeamsAlwaysFit == Spec => []TeamsFit
<1>1. Init => TeamsFit
  <2> SUFFICES ASSUME Init PROVE TeamsFit
    OBVIOUS
  <2>1. Registered(entry) = {}
    BY DEF Init, Registered
  <2>2. Cardinality(Registered(entry)) = 0
    BY <2>1, FS_EmptySet
  <2>3. slots \in 1..MaxSlots /\ MaxSlots \in Nat
    BY ConstantsAssumption DEF Init
  <2> QED
    BY <2>2, <2>3 DEF TeamsFit
<1> QED
  BY <1>1, TypesHold, TeamsNext, PTL DEF Spec

-----------------------------------------------------------------------------
(* What a company has agreed to *)

\* Nobody has agreed to anything at an entry nobody has made yet.
FreshConsents == \A e \in Entries : entry[e].status = "NONE" => consent[e] = NoConsents

LEMMA FreshLineups ==
    ASSUME TypeInv, FreshConsents, LineupStep
    PROVE  FreshConsents'
<1>1. ASSUME NEW table \in EntryTables, NEW agreed \in ConsentTables, NEW e \in Entries,
             Settles(table, agreed, e), table[e].status # "NONE",
             \A f \in Entries \ {e} : /\ table[f].status = "NONE" => entry[f].status = "NONE"
                                      /\ agreed[f] = consent[f]
      PROVE  FreshConsents'
  <2>1. entry'[e].status # "NONE"
    BY <1>1 DEF Settles, Synced, ActiveStatuses, EntryTables, Records, Statuses
  <2>2. \A f \in Entries \ {e} : consent'[f] = consent[f] /\ (entry'[f].status = "NONE" => entry[f].status = "NONE")
    BY <1>1 DEF Settles, SyncedAround, Kept
  <2> QED
    BY <2>1, <2>2 DEF FreshConsents
<1>2. consent \in ConsentTables /\ entry \in EntryTables
  BY DEF TypeInv, LineupsType
<1>3. ASSUME NEW e \in Entries, NEW u \in Users, NEW r \in Roles, Active(e), Joins(e, u, r)
      PROVE  FreshConsents'
  BY <1>1, <1>2, <1>3 DEF Joins, Active, ActiveStatuses
<1>4. ASSUME NEW e \in Entries, Reshapes(e)
      PROVE  FreshConsents'
  <2>1. PICK u \in Users, r \in Roles \cup {"out"}, after \in EntryTables :
             Reseats(u, e, r) /\ Hands(after, e) /\ Settles(after, consent, e)
    BY <1>4 DEF Reshapes
  <2>2. after[e].status # "NONE" /\ \A f \in Entries \ {e} : after[f] = entry[f]
    BY <2>1 DEF Hands, Reseats, Active, ActiveStatuses
  <2> QED
    BY <1>1, <1>2, <2>1, <2>2
<1>5. ASSUME NEW e \in Entries, Withdraws(e)
      PROVE  FreshConsents'
  BY <1>5 DEF Withdraws, FreshConsents
<1>6. ASSUME NEW e \in Entries, NEW u \in Users, Creates(e, u)
      PROVE  FreshConsents'
  BY <1>6 DEF Creates, FreshConsents
<1>7. ASSUME NEW e \in Entries, NEW u \in Users, Registers(u, e)
      PROVE  FreshConsents'
  <2>1. PICK table \in EntryTables :
           /\ table[e].status = "RECRUITING" /\ \A f \in Entries \ {e} : table[f] = entry[f]
           /\ Settles(table, consent, e)
    BY <1>7 DEF Registers
  <2> QED
    BY <1>1, <1>2, <2>1
<1>8. ASSUME NEW e \in Entries, NEW source \in Entries, NEW captain \in Users, NEW leader \in Users,
             Merges(captain, e, leader, source)
      PROVE  FreshConsents'
  <2>1. PICK table \in EntryTables, agreed \in ConsentTables :
            /\ table[source].status = "WITHDRAWN"
            /\ \A f \in Entries \ {source} : table[f] = entry[f]
            /\ \A f \in Entries \ {e} : agreed[f] = consent[f]
            /\ Settles(table, agreed, e)
    BY <1>8 DEF Merges
  <2>2. table[e].status # "NONE"
    BY <1>8, <2>1 DEF Merges, Manages, Active, ActiveStatuses
  <2>3. \A f \in Entries \ {e} : (table[f].status = "NONE" => entry[f].status = "NONE") /\ agreed[f] = consent[f]
    BY <2>1
  <2> QED
    BY <1>1, <2>1, <2>2, <2>3
<1> QED
  BY <1>3, <1>4, <1>5, <1>6, <1>7, <1>8, Zenon DEF LineupStep

LEMMA FreshHold == Spec => []FreshConsents
<1>1. Init => FreshConsents
  BY DEF Init, FreshConsents
<1>2. TypeInv /\ FreshConsents /\ [Next]_vars => FreshConsents'
  <2>1. ASSUME FreshConsents, UNCHANGED vars
        PROVE  FreshConsents'
    BY <2>1 DEF vars, FreshConsents
  <2>2. ASSUME TypeInv, FreshConsents, QuietStep
        PROVE  FreshConsents'
    BY <2>2, QuietSteps DEF Quiet, FreshConsents, Active, ActiveStatuses
  <2> QED
    BY <2>1, <2>2, AllSteps, FreshLineups
<1> QED
  BY <1>1, <1>2, TypesHold, PTL DEF Spec

\* The consents of an entry count as they did, or none of them does.
SilentAt(e) ==
    \/ \A u \in Users : ~Counts(e, u)'
    \/ \A u \in Users : Counts(e, u)' <=> Counts(e, u)

\* A change of its roster silences a company.
LEMMA ConsentsSettled ==
    ASSUME NEW table \in EntryTables, NEW agreed, NEW e \in Entries, Settles(table, agreed, e),
           table[e].status \in ActiveStatuses \/ Members(roster'[e]) = {}, roster' \in RosterTables
    PROVE  \A u \in Users : ~Counts(e, u)'
<1>1. CASE Members(roster'[e]) = {}
  BY <1>1 DEF Counts, Members
<1>2. CASE table[e].status \in ActiveStatuses /\ table[e].company
  <2>1. consent'[e] = NoConsents /\ roster'[e] \in Rosters
    BY <1>2 DEF Settles, Synced, RosterTables
  <2>2. \A u \in Users : consent'[e][u] # roster'[e]
    BY <2>1, MarkersAssumption DEF NoConsents
  <2> QED
    BY <2>2 DEF Counts
<1>3. CASE ~table[e].company
  BY <1>3 DEF Settles, Synced, Counts
<1> QED
  BY <1>1, <1>2, <1>3

LEMMA ConsentsAround ==
    ASSUME NEW f \in Entries, roster'[f] = roster[f], consent'[f] = consent[f],
           entry'[f].company = entry[f].company
    PROVE  SilentAt(f)
BY DEF SilentAt, Counts, Members

LEMMA LineupSilent ==
    ASSUME TypeInv, FreshConsents, LineupStep
    PROVE  \A f \in Entries : SilentAt(f)
<1> DEFINE Goal == \A f \in Entries : SilentAt(f)
<1>1. roster' \in RosterTables
  BY LineupTypes DEF TypeInv, LineupsType
<1>2. ASSUME NEW table \in EntryTables, NEW agreed \in ConsentTables, NEW e \in Entries,
             Settles(table, agreed, e), table[e].status \in ActiveStatuses \/ Members(roster'[e]) = {},
             NEW f \in Entries,
             f # e => \/ table[f].company = entry[f].company /\ agreed[f] = consent[f] /\ roster'[f] = roster[f]
                      \/ Members(roster'[f]) = {}
      PROVE  SilentAt(f)
  <2>1. CASE f = e
    BY <1>1, <1>2, <2>1, ConsentsSettled DEF SilentAt
  <2>2. CASE f # e /\ Members(roster'[f]) = {}
    BY <2>2 DEF SilentAt, Counts, Members
  <2>3. CASE f # e /\ Members(roster'[f]) # {}
    BY <1>2, <2>3, ConsentsAround DEF Settles, SyncedAround, Kept
  <2> QED
    BY <2>1, <2>2, <2>3
<1>3. consent \in ConsentTables /\ entry \in EntryTables
  BY DEF TypeInv, LineupsType
<1>4. ASSUME NEW e \in Entries, NEW u \in Users, NEW r \in Roles, Active(e), Joins(e, u, r)
      PROVE  Goal
  BY <1>2, <1>3, <1>4 DEF Joins, Seats, OnlyRoster, Active
<1>5. ASSUME NEW e \in Entries, Reshapes(e)
      PROVE  Goal
  <2>1. PICK u \in Users, r \in Roles \cup {"out"}, after \in EntryTables :
             Reseats(u, e, r) /\ Hands(after, e) /\ Settles(after, consent, e)
    BY <1>5 DEF Reshapes
  <2>2. /\ after[e].status \in ActiveStatuses \/ Members(roster'[e]) = {}
        /\ \A f \in Entries \ {e} : after[f] = entry[f] /\ roster'[f] = roster[f]
    BY <2>1 DEF Hands, Reseats, Seats, OnlyRoster, Active
  <2> QED
    BY <1>2, <1>3, <2>1, <2>2
<1>6. ASSUME NEW e \in Entries, Withdraws(e)
      PROVE  Goal
  <2>1. SilentAt(e)
    BY <1>6 DEF Withdraws, SilentAt, Counts, NoRoster, Members
  <2>2. ASSUME NEW f \in Entries \ {e}
        PROVE  SilentAt(f)
    BY <1>6, ConsentsAround DEF Withdraws, OnlyRoster
  <2> QED
    BY <2>1, <2>2
<1>7. ASSUME NEW e \in Entries, NEW u \in Users, Creates(e, u)
      PROVE  Goal
  <2>1. consent'[e] = NoConsents /\ roster'[e] \in Rosters
    BY <1>1, <1>7 DEF Creates, FreshConsents, RosterTables
  <2>2. \A v \in Users : consent'[e][v] # roster'[e]
    BY <2>1, MarkersAssumption DEF NoConsents
  <2>3. SilentAt(e)
    BY <2>2 DEF SilentAt, Counts
  <2>4. ASSUME NEW f \in Entries \ {e}
        PROVE  SilentAt(f)
    BY <1>7, ConsentsAround DEF Creates, Founds, OnlyRoster
  <2> QED
    BY <2>3, <2>4
<1>8. ASSUME NEW e \in Entries, NEW u \in Users, Registers(u, e)
      PROVE  Goal
  <2>1. PICK table \in EntryTables :
           /\ table[e].status = "RECRUITING" /\ \A f \in Entries \ {e} : table[f] = entry[f]
           /\ Settles(table, consent, e)
    BY <1>8 DEF Registers
  <2>2. table[e].status \in ActiveStatuses /\ \A f \in Entries \ {e} : roster'[f] = roster[f]
    BY <1>8, <2>1 DEF Registers, Founds, OnlyRoster, ActiveStatuses
  <2> QED
    BY <1>2, <1>3, <2>1, <2>2
<1>9. ASSUME NEW e \in Entries, NEW source \in Entries, NEW captain \in Users, NEW leader \in Users,
             Merges(captain, e, leader, source)
      PROVE  Goal
  <2>1. PICK table \in EntryTables, agreed \in ConsentTables :
            /\ \A f \in Entries \ {source} : table[f] = entry[f]
            /\ \A f \in Entries \ {e} : agreed[f] = consent[f]
            /\ Settles(table, agreed, e)
    BY <1>9 DEF Merges
  <2>2. /\ table[e].status \in ActiveStatuses /\ Members(roster'[source]) = {}
        /\ \A f \in Entries \ {source, e} : roster'[f] = roster[f]
    BY <1>9, <2>1 DEF Merges, Manages, Active, NoRoster, Members
  <2> QED
    BY <1>2, <2>1, <2>2
<1> QED
  BY <1>4, <1>5, <1>6, <1>7, <1>8, <1>9, Zenon DEF LineupStep

\* The step the property speaks of.
GivesConsent ==
    \A e \in Entries, u \in Users :
        Counts(e, u)' /\ ~Counts(e, u) =>
            /\ entry[e].company /\ roster'[e] = roster[e]
            /\ \A v \in Users \ {u} : Counts(e, v)' = Counts(e, v)

\* Whoever enables a company starts from nothing.
LEMMA EnableSilent ==
    ASSUME TypeInv, NEW u \in Users, NEW e \in Entries, EnableCompany(u, e)
    PROVE  \A f \in Entries : SilentAt(f)
<1>1. /\ roster' = roster /\ \A f \in Entries \ {e} : consent'[f] = consent[f]
      /\ \A f \in Entries \ {e} : entry'[f].company = entry[f].company
  BY DEF EnableCompany, TypeInv, LineupsType, EntryTables, ConsentTables
<1>2. CASE entry[e].company
  <2>1. consent' = consent /\ entry'[e].company = entry[e].company
    BY <1>2 DEF EnableCompany, TypeInv, LineupsType, EntryTables, Records
  <2> QED
    BY <1>1, <2>1, ConsentsAround
<1>3. CASE ~entry[e].company
  <2>1. consent'[e] = NoConsents /\ roster'[e] \in Rosters
    BY <1>1, <1>3 DEF EnableCompany, TypeInv, LineupsType, RosterTables, ConsentTables
  <2>2. \A v \in Users : consent'[e][v] # roster'[e]
    BY <2>1, MarkersAssumption DEF NoConsents
  <2>3. SilentAt(e)
    BY <2>2 DEF SilentAt, Counts
  <2> QED
    BY <1>1, <2>3, ConsentsAround
<1> QED
  BY <1>2, <1>3

LEMMA ConfirmGives ==
    ASSUME TypeInv, NEW u \in Users, NEW e \in Entries, NEW confirmed \in BOOLEAN,
           ConfirmCompany(u, e, confirmed)
    PROVE  GivesConsent
<1>1. /\ entry' = entry /\ roster' = roster /\ entry[e].company
      /\ \A f \in Entries, v \in Users : f # e \/ v # u => consent'[f][v] = consent[f][v]
  BY DEF ConfirmCompany, TypeInv, LineupsType, ConsentTables
<1>2. \A f \in Entries, v \in Users : f # e \/ v # u => (Counts(f, v)' = Counts(f, v))
  BY <1>1 DEF Counts, Members
<1> QED
  BY <1>1, <1>2 DEF GivesConsent

LEMMA SilentGives ==
    ASSUME \A f \in Entries : SilentAt(f)
    PROVE  GivesConsent
BY DEF SilentAt, GivesConsent

LEMMA ConsentNext == TypeInv /\ FreshConsents /\ [Next]_vars => GivesConsent
<1> SUFFICES ASSUME TypeInv, FreshConsents, [Next]_vars PROVE GivesConsent
  OBVIOUS
<1>1. CASE LineupStep
  BY <1>1, LineupSilent, SilentGives
<1>2. ASSUME roster' = roster, CompaniesStay
      PROVE  GivesConsent
  BY <1>2, ConsentsAround, SilentGives DEF CompaniesStay
<1>3. CASE UNCHANGED vars
  BY <1>2, <1>3 DEF vars, CompaniesStay
<1>4. CASE SearchStep \/ LeaseLapses \/ TournamentStep
  BY <1>2, <1>4, SearchQuiet, LapseQuiet, TournamentQuiet DEF Quiet
<1>5. ASSUME NEW u \in Users, NEW e \in Entries, EnableCompany(u, e)
      PROVE  GivesConsent
  BY <1>5, EnableSilent, SilentGives
<1>6. ASSUME NEW u \in Users, NEW e \in Entries, ConfirmCompany(u, e, TRUE) \/ ConfirmCompany(u, e, FALSE)
      PROVE  GivesConsent
  BY <1>6, ConfirmGives
<1>7. ASSUME NEW u \in Users, NEW e \in Entries, SetEntryJoinMode(u, e)
      PROVE  GivesConsent
  BY <1>2, <1>7, SettingsQuiet DEF Quiet
<1>8. ASSUME NEW u \in Users, NEW e \in Entries, NEW r \in Roles, ApplyToEntry(u, e, r)
      PROVE  GivesConsent
  BY <1>2, <1>8, ApplyQuiet DEF Quiet
<1>9. ASSUME NEW u \in Users, NEW e \in Entries, NEW v \in Users, DeclineRequest(u, e, v) \/ CancelRequest(v, e)
      PROVE  GivesConsent
  BY <1>2, <1>9, DeclineQuiet DEF Quiet
<1>10. ASSUME NEW u \in Users, NEW e \in Entries, NEW source \in Entries, SubmitCompanyApplication(u, source, e)
       PROVE  GivesConsent
  BY <1>2, <1>10, SubmitQuiet DEF Quiet
<1>11. ASSUME NEW i \in Instances,
              BeginPass(i) \/ EndPass(i) \/ Crash(i) \/ \E ticket \in pass[i].tickets : SkipCandidate(i, ticket)
       PROVE  GivesConsent
  BY <1>2, <1>11, PassQuiet DEF Quiet
<1>12. CASE QuietStep
  BY <1>4, <1>5, <1>6, <1>7, <1>8, <1>9, <1>10, <1>11, <1>12, Zenon DEF QuietStep
<1> QED
  BY <1>1, <1>3, <1>12, AllSteps

\* A consent counts only from a step in which its player gives it, for the roster as it is.
THEOREM ConsentsAreGiven == Spec => ConsentIsGiven
<1>1. Spec => [][GivesConsent]_vars
  BY TypesHold, FreshHold, ConsentNext, PTL DEF Spec
<1>2. ConsentIsGiven <=> [][GivesConsent]_vars
  BY DEF ConsentIsGiven, GivesConsent
<1> QED
  BY <1>1, <1>2

-----------------------------------------------------------------------------
(* How players come to a roster *)

\* Nobody comes from another roster, but in a company.
LEMMA NobodyElseMoves ==
    ASSUME TypeInv, LineupStep,
           ~ \E e, source \in Entries, captain, leader \in Users : Merges(captain, e, leader, source)
    PROVE  \A f \in Entries, u \in Users :
               u \in Members(roster'[f]) => u \in Members(roster[f]) \/ ~Enrolled(u)
<1> DEFINE Goal == \A f \in Entries, u \in Users :
                       u \in Members(roster'[f]) => u \in Members(roster[f]) \/ ~Enrolled(u)
<1>1. ASSUME NEW e \in Entries, NEW v \in Users, NEW r \in Roles, SlotAvailable(e, v, r), Joins(e, v, r)
      PROVE  Goal
  BY <1>1 DEF Joins, SlotAvailable, Seats, OnlyRoster, Members
<1>2. ASSUME NEW e \in Entries, Reshapes(e)
      PROVE  Goal
  BY <1>2 DEF Reshapes, Reseats, Seats, OnlyRoster, Members
<1>3. ASSUME NEW e \in Entries, Withdraws(e)
      PROVE  Goal
  BY <1>3 DEF Withdraws, OnlyRoster, NoRoster, Members
<1>4. ASSUME NEW e \in Entries, NEW v \in Users, Creates(e, v) \/ Registers(v, e)
      PROVE  Goal
  BY <1>4 DEF Creates, Registers, Founds, OnlyRoster
<1> QED
  BY <1>1, <1>2, <1>3, <1>4, Zenon DEF LineupStep

\* The steps the property speaks of.
MovesWhole ==
    \A e, f \in Entries, u \in Users :
        e # f /\ u \in Members(roster[e]) /\ u \in Members(roster[f])' =>
            /\ \A v \in Members(roster[e]) : Counts(e, v) /\ roster'[f][v] = roster[e][v]
            /\ entry'[e].status = "WITHDRAWN"
            /\ requests[f][entry[e].captain].source = e

LEMMA MergersMoveWhole ==
    ASSUME TypeInv, RostersAreExclusive, NEW e \in Entries, NEW source \in Entries, NEW captain \in Users,
           NEW leader \in Users, Merges(captain, e, leader, source)
    PROVE  MovesWhole
<1>1. /\ source # e /\ Members(roster'[source]) = {}
      /\ \A f \in Entries \ {source, e} : roster'[f] = roster[f]
      /\ \A u \in Users :
            roster'[e][u] = IF u \in Members(roster[source]) THEN roster[source][u] ELSE roster[e][u]
  BY DEF Merges, NoRoster, Members
<1>2. \A v \in Members(roster[source]) : Counts(source, v) /\ roster'[e][v] = roster[source][v]
  BY <1>1 DEF Merges, CompanyAvailable, Confirmed, Counts, Members
<1>3. requests[e][entry[source].captain].source = source
  BY DEF Merges, CompanyAvailable
<1>4. entry'[source].status = "WITHDRAWN"
  <2>1. PICK table \in EntryTables, agreed \in ConsentTables :
            table[source].status = "WITHDRAWN" /\ Settles(table, agreed, e)
    BY DEF Merges
  <2> QED
    BY <1>1, <2>1 DEF Settles, SyncedAround, Kept
<1>5. ASSUME NEW d \in Entries, NEW f \in Entries, NEW u \in Users, d # f,
             u \in Members(roster[d]), u \in Members(roster'[f])
      PROVE  f = e /\ d = source
  <2>1. u \notin Members(roster[f])
    BY <1>5 DEF RostersAreExclusive
  <2>2. f = e
    BY <1>1, <1>5, <2>1
  <2>3. u \in Members(roster[source])
    BY <1>1, <1>5, <2>1, <2>2 DEF Members
  <2> QED
    BY <1>5, <2>2, <2>3 DEF RostersAreExclusive
<1>6. \A f \in Entries : Members(roster[f])' = Members(roster'[f])
  BY DEF Members
<1> QED
  BY <1>2, <1>3, <1>4, <1>5, <1>6 DEF MovesWhole

LEMMA MovesNext == TypeInv /\ RostersAreExclusive /\ [Next]_vars => MovesWhole
<1> SUFFICES ASSUME TypeInv, RostersAreExclusive, [Next]_vars PROVE MovesWhole
  OBVIOUS
<1>1. ASSUME \A f \in Entries, u \in Users : u \in Members(roster'[f]) => u \in Members(roster[f]) \/ ~Enrolled(u)
      PROVE  MovesWhole
  BY <1>1 DEF MovesWhole, RostersAreExclusive, Enrolled, Members
<1>2. CASE roster' = roster
  BY <1>1, <1>2
<1>3. CASE LineupStep
  BY <1>1, <1>3, NobodyElseMoves, MergersMoveWhole
<1> QED
  BY <1>2, <1>3, AllSteps, QuietSteps DEF vars, Quiet

\* Players change entries only with their whole company, as everyone in it has agreed.
THEOREM CompaniesMoveWhole == Spec => CompanyMovesWhole
<1>1. Spec => [][MovesWhole]_vars
  BY TypesHold, RostersStayExclusive, MovesNext, PTL DEF Spec
<1>2. CompanyMovesWhole <=> [][MovesWhole]_vars
  BY DEF CompanyMovesWhole, MovesWhole
<1> QED
  BY <1>1, <1>2

\* The step the property speaks of.
EndsSearch ==
    \A e \in Entries, u \in Users :
        u \notin Members(roster[e]) /\ u \in Members(roster[e])' /\ (Active(e) \/ e \in Squads) =>
            /\ ~queue'[u].waiting
            /\ \A f \in Entries \ {e} : requests'[f][u] = NoRequest

LEMMA EndsNext == TypeInv /\ [Next]_vars => EndsSearch
<1> SUFFICES ASSUME TypeInv, [Next]_vars PROVE EndsSearch
  OBVIOUS
<1> USE DEF EndsSearch
<1>1. \A f \in Entries : Members(roster[f])' = Members(roster'[f])
  BY DEF Members
<1>2. CASE roster' = roster
  BY <1>1, <1>2
<1>3. ASSUME NEW e \in Entries, NEW players,
             \A f \in Entries, u \in Users :
                 u \in Members(roster'[f]) => u \in Members(roster[f]) \/ (f = e /\ u \in players),
             Finished(requests, e, players), Ended(players)
      PROVE  EndsSearch
  BY <1>1, <1>3 DEF Finished, Ended
<1>4. ASSUME NEW e \in Entries, NEW u \in Users, NEW r \in Roles, Joins(e, u, r)
      PROVE  EndsSearch
  BY <1>3, <1>4 DEF Joins, Seats, OnlyRoster, Members
<1>5. ASSUME NEW e \in Entries, Reshapes(e) \/ Withdraws(e)
      PROVE  EndsSearch
  BY <1>1, <1>5 DEF Reshapes, Reseats, Withdraws, NoRoster, Seats, OnlyRoster, Members
<1>6. ASSUME NEW e \in Entries, NEW u \in Users, Creates(e, u)
      PROVE  EndsSearch
  BY <1>3, <1>6 DEF Creates, Founds, OnlyRoster
<1>7. ASSUME NEW e \in Entries, NEW u \in Users, Registers(u, e)
      PROVE  EndsSearch
  BY <1>1, <1>7, ConstantsAssumption DEF Registers, Founds, OnlyRoster
<1>8. ASSUME NEW e \in Entries, NEW source \in Entries, NEW captain \in Users, NEW leader \in Users,
             Merges(captain, e, leader, source)
      PROVE  EndsSearch
  <2>1. \A f \in Entries, u \in Users :
            u \in Members(roster'[f]) => u \in Members(roster[f]) \/ (f = e /\ u \in Members(roster[source]))
    BY <1>8 DEF Merges, NoRoster, Members
  <2> QED
    BY <1>3, <1>8, <2>1 DEF Merges
<1>9. CASE LineupStep
  <2> HIDE DEF EndsSearch
  <2> QED
    BY <1>4, <1>5, <1>6, <1>7, <1>8, <1>9, Zenon DEF LineupStep
<1> QED
  BY <1>2, <1>9, AllSteps, QuietSteps DEF vars, Quiet

\* Entering an entry ends the search and the applications elsewhere in the same step.
THEOREM EnrolmentsEndSearches == Spec => EnrolmentEndsSearch
<1>1. Spec => [][EndsSearch]_vars
  BY TypesHold, EndsNext, PTL DEF Spec
<1>2. EnrolmentEndsSearch <=> [][EndsSearch]_vars
  BY DEF EnrolmentEndsSearch, EndsSearch
<1> QED
  BY <1>1, <1>2

-----------------------------------------------------------------------------
(* Whom the matcher takes *)

\* A ticket is of the player's current search, which is automatic, or of an earlier one.
TicketsAreOld ==
    \A i \in Instances : \A ticket \in pass[i].tickets :
        /\ ticket.generation <= queue[ticket.user].generation
        /\ ticket.generation = queue[ticket.user].generation /\ queue[ticket.user].waiting =>
               queue[ticket.user].auto

LEMMA LineupSearches ==
    ASSUME TypeInv, LineupStep
    PROVE  SearchesMove
<1>1. ASSUME NEW players, Ended(players)
      PROVE  SearchesMove
  BY <1>1 DEF Ended, SearchesMove, TypeInv, WaitingType, Queues, Searches
<1>2. ASSUME queue' = queue
      PROVE  SearchesMove
  BY <1>2 DEF SearchesMove
<1>3. (\E players : Ended(players)) \/ queue' = queue
  BY ZenonT(60) DEF LineupStep, Joins, Reshapes, Reseats, Withdraws, Creates, Registers, Merges
<1> QED
  BY <1>1, <1>2, <1>3

LEMMA TicketsAge ==
    ASSUME TypeInv, TicketsAreOld, TypeInv', SearchesMove, TicketsStay
    PROVE  TicketsAreOld'
<1>1. ASSUME NEW i \in Instances, NEW ticket \in pass'[i].tickets
      PROVE  /\ ticket.generation <= queue'[ticket.user].generation
             /\ ticket.generation = queue'[ticket.user].generation /\ queue'[ticket.user].waiting =>
                    queue'[ticket.user].auto
  <2>1. ticket \in pass[i].tickets
    BY <1>1 DEF TicketsStay
  <2>2. /\ ticket.user \in Users /\ ticket.generation \in Nat
        /\ queue[ticket.user].generation \in Nat /\ queue'[ticket.user].generation \in Nat
    BY <2>1 DEF TypeInv, MatcherType, WaitingType, Tickets, Queues, Searches
  <2>3. /\ ticket.generation <= queue[ticket.user].generation
        /\ ticket.generation = queue[ticket.user].generation /\ queue[ticket.user].waiting =>
               queue[ticket.user].auto
    BY <2>1 DEF TicketsAreOld
  <2> QED
    BY <2>2, <2>3 DEF SearchesMove
<1> QED
  BY <1>1 DEF TicketsAreOld

\* The tickets a pass begins with are of automatic searches under way.
LEMMA TicketsBegin ==
    ASSUME TypeInv, TicketsAreOld, TypeInv', SearchesMove, NEW i \in Instances, BeginPass(i)
    PROVE  TicketsAreOld'
<1>1. CASE CanRecruit("RESERVE")
  <2> DEFINE found == {u \in Users : queue[u].waiting /\ queue[u].auto}
             tickets == {[user |-> u, generation |-> queue[u].generation, roles |-> queue[u].roles] :
                            u \in {v \in found : ~Enrolled(v)}}
  <2>1. /\ pass' = [pass EXCEPT ![i] = [running |-> TRUE, tickets |-> tickets]]
        /\ queue' = SearchEnded({u \in found : Enrolled(u)})
    BY <1>1 DEF BeginPass
  <2>2. \A u \in Users : ~Enrolled(u) => queue'[u] = queue[u]
    BY <2>1 DEF SearchEnded
  <2>3. ASSUME NEW ticket \in tickets
        PROVE  /\ ticket.generation <= queue'[ticket.user].generation
               /\ queue'[ticket.user].auto
    BY <2>2 DEF TypeInv, WaitingType, Queues, Searches
  <2> HIDE DEF tickets
  <2>4. pass'[i].tickets = tickets /\ \A j \in Instances \ {i} : pass'[j] = pass[j]
    BY <2>1 DEF TypeInv, MatcherType
  <2>5. ASSUME NEW j \in Instances \ {i}, NEW ticket \in pass'[j].tickets
        PROVE  /\ ticket.generation <= queue'[ticket.user].generation
               /\ ticket.generation = queue'[ticket.user].generation /\ queue'[ticket.user].waiting =>
                      queue'[ticket.user].auto
    <3>1. ticket \in pass[j].tickets
      BY <2>4, <2>5
    <3>2. /\ ticket.user \in Users /\ ticket.generation \in Nat
          /\ queue[ticket.user].generation \in Nat /\ queue'[ticket.user].generation \in Nat
      BY <3>1 DEF TypeInv, MatcherType, WaitingType, Tickets, Queues, Searches
    <3>3. /\ ticket.generation <= queue[ticket.user].generation
          /\ ticket.generation = queue[ticket.user].generation /\ queue[ticket.user].waiting =>
                 queue[ticket.user].auto
      BY <3>1 DEF TicketsAreOld
    <3> QED
      BY <3>2, <3>3 DEF SearchesMove
  <2> QED
    BY <2>3, <2>4, <2>5 DEF TicketsAreOld
<1>2. CASE ~CanRecruit("RESERVE")
  <2>1. TicketsStay
    BY <1>2 DEF BeginPass, TicketsStay
  <2> QED
    BY <2>1, TicketsAge
<1> QED
  BY <1>1, <1>2

LEMMA TicketsNext == TypeInv /\ TicketsAreOld /\ [Next]_vars => TicketsAreOld'
<1> SUFFICES ASSUME TypeInv, TicketsAreOld, [Next]_vars PROVE TicketsAreOld'
  OBVIOUS
<1>1. TypeInv'
  BY TypeNext
<1>2. CASE UNCHANGED vars
  BY <1>2 DEF vars, TicketsAreOld
<1>3. CASE LineupStep
  BY <1>1, <1>3, LineupSearches, TicketsAge DEF LineupStep, MatcherMoves
<1>4. ASSUME TicketsStay, SearchesMove
      PROVE  TicketsAreOld'
  BY <1>1, <1>4, TicketsAge
<1>5. CASE SearchStep \/ LeaseLapses \/ TournamentStep
  BY <1>4, <1>5, SearchQuiet, LapseQuiet, TournamentQuiet DEF Quiet
<1>6. ASSUME NEW u \in Users, NEW e \in Entries,
             \/ SetEntryJoinMode(u, e) \/ EnableCompany(u, e)
             \/ ConfirmCompany(u, e, TRUE) \/ ConfirmCompany(u, e, FALSE)
      PROVE  TicketsAreOld'
  BY <1>4, <1>6, SettingsQuiet DEF Quiet
<1>7. ASSUME NEW u \in Users, NEW e \in Entries, NEW r \in Roles, ApplyToEntry(u, e, r)
      PROVE  TicketsAreOld'
  BY <1>4, <1>7, ApplyQuiet DEF Quiet
<1>8. ASSUME NEW u \in Users, NEW e \in Entries, NEW v \in Users, DeclineRequest(u, e, v) \/ CancelRequest(v, e)
      PROVE  TicketsAreOld'
  BY <1>4, <1>8, DeclineQuiet DEF Quiet
<1>9. ASSUME NEW u \in Users, NEW e \in Entries, NEW source \in Entries, SubmitCompanyApplication(u, source, e)
      PROVE  TicketsAreOld'
  BY <1>4, <1>9, SubmitQuiet DEF Quiet
<1>10. ASSUME NEW i \in Instances, BeginPass(i)
       PROVE  TicketsAreOld'
  BY <1>1, <1>10, PassQuiet, TicketsBegin DEF Quiet
<1>11. ASSUME NEW i \in Instances, EndPass(i) \/ Crash(i) \/ \E ticket \in pass[i].tickets : SkipCandidate(i, ticket)
       PROVE  TicketsAreOld'
  <2>1. TicketsStay
    BY <1>11 DEF EndPass, Crash, SkipCandidate, Leave, TicketsStay, TypeInv, MatcherType
  <2> QED
    BY <1>4, <1>11, <2>1, PassQuiet DEF Quiet
<1>12. CASE QuietStep
  BY <1>5, <1>6, <1>7, <1>8, <1>9, <1>10, <1>11, <1>12, Zenon DEF QuietStep
<1> QED
  BY <1>2, <1>3, <1>12, AllSteps

LEMMA TicketsHold == Spec => []TicketsAreOld
<1>1. Init => TicketsAreOld
  BY DEF Init, TicketsAreOld
<1> QED
  BY <1>1, TypesHold, TicketsNext, PTL DEF Spec

\* The step the property speaks of.
TakesSearchers ==
    pass' # pass => \A e \in Entries, u \in Users :
        Enters(u, e) => /\ queue[u].waiting /\ queue[u].auto
                        /\ roster'[e][u] \in queue[u].roles /\ ~Pending(u)

\* A valid ticket is of a player who still searches automatically.
LEMMA ValidTickets ==
    ASSUME TypeInv, TicketsAreOld, NEW i \in Instances, NEW ticket \in pass[i].tickets, NEW r,
           TicketValid(i, ticket, r)
    PROVE  /\ queue[ticket.user].waiting /\ queue[ticket.user].auto
           /\ r \in queue[ticket.user].roles /\ ~Pending(ticket.user)
BY DEF TicketsAreOld, TicketValid

\* The steps in which the matcher enrols somebody.
LEMMA MatcherTakes ==
    ASSUME TypeInv, TicketsAreOld, NEW i \in Instances
    PROVE  /\ \A ticket \in pass[i].tickets, e \in Entries, r \in Roles :
                 MatchIntoEntry(i, ticket, e, r) => TakesSearchers
           /\ \A first, second \in pass[i].tickets, e \in Squads, r, s \in Roles :
                 MatchPair(i, first, second, e, r, s) => TakesSearchers
<1>1. ASSUME NEW ticket \in pass[i].tickets, NEW e \in Entries, NEW r \in Roles,
             MatchIntoEntry(i, ticket, e, r)
      PROVE  TakesSearchers
  <2>1. ticket.user \in Users /\ Joins(e, ticket.user, r)
    BY <1>1, MatchSteps
  <2>2. /\ queue[ticket.user].waiting /\ queue[ticket.user].auto
        /\ r \in queue[ticket.user].roles /\ ~Pending(ticket.user)
    BY <1>1, ValidTickets DEF MatchIntoEntry
  <2>3. \A f \in Entries, u \in Users : Enters(u, f) => f = e /\ u = ticket.user
    BY <2>1 DEF Joins, Seats, OnlyRoster, Enters, Enrolled, Members
  <2> QED
    BY <2>1, <2>2, <2>3 DEF TakesSearchers, Joins, Seats
<1>2. ASSUME NEW first \in pass[i].tickets, NEW second \in pass[i].tickets, NEW e \in Squads,
             NEW r \in Roles, NEW s \in Roles, MatchPair(i, first, second, e, r, s)
      PROVE  TakesSearchers
  <2>1. Paired(first, second, e, r, s)
    BY <1>2, PairSteps
  <2>2. /\ queue[first.user].waiting /\ queue[first.user].auto
        /\ r \in queue[first.user].roles /\ ~Pending(first.user)
    BY <1>2, ValidTickets DEF MatchPair
  <2>3. /\ queue[second.user].waiting /\ queue[second.user].auto
        /\ s \in queue[second.user].roles /\ ~Pending(second.user)
    BY <1>2, ValidTickets DEF MatchPair
  <2>4. \A f \in Entries, u \in Users : Enters(u, f) => f = e /\ u \in {first.user, second.user}
    BY <2>1 DEF Paired, Creates, Founds, OnlyRoster, Enters, Enrolled, Members
  <2>5. roster'[e][first.user] = r /\ roster'[e][second.user] = s
    BY <2>1 DEF Paired
  <2> QED
    BY <2>2, <2>3, <2>4, <2>5 DEF TakesSearchers
<1> QED
  BY <1>1, <1>2

LEMMA TakesNext == TypeInv /\ TicketsAreOld /\ [Next]_vars => TakesSearchers
<1> SUFFICES ASSUME TypeInv, TicketsAreOld, [Next]_vars PROVE TakesSearchers
  OBVIOUS
<1>1. ASSUME roster' = roster
      PROVE  TakesSearchers
  BY <1>1 DEF TakesSearchers, Enters, Enrolled, Members
<1>2. ASSUME pass' = pass
      PROVE  TakesSearchers
  BY <1>2 DEF TakesSearchers
<1>3. ASSUME NEW i \in Instances, PassStep(i)
      PROVE  TakesSearchers
  <2>1. CASE BeginPass(i) \/ EndPass(i) \/ Crash(i) \/ \E ticket \in pass[i].tickets : SkipCandidate(i, ticket)
    BY <1>1, <2>1, PassQuiet DEF Quiet
  <2> QED
    BY <1>3, <2>1, MatcherTakes, Zenon DEF PassStep
<1>4. CASE UNCHANGED vars
  BY <1>2, <1>4 DEF vars
<1>5. CASE PlayerStep \/ TeamStep
  <2>1. ASSUME NEW u \in Users, NEW e \in Entries, RosterStep(u, e)
        PROVE  pass' = pass
    BY <2>1, Zenon DEF RosterStep, SetEntryJoinMode, LeaveEntry, WithdrawTeam, AssignEntryPosition, RemoveEntryMember, matcher
  <2>2. ASSUME NEW u \in Users, NEW e \in Entries, ApplicationStep(u, e)
        PROVE  pass' = pass
    BY <2>2, Zenon DEF ApplicationStep, ApplyToEntry, JoinEntry, AcceptRequest, DeclineRequest, CancelRequest, matcher
  <2>3. ASSUME NEW u \in Users, CreateSquad(u) \/ \E e \in Teams : RegisterTeam(u, e)
        PROVE  pass' = pass
    BY <2>3, Zenon DEF CreateSquad, RegisterTeam, matcher
  <2>4. pass' = pass
    BY <1>5, <2>1, <2>2, <2>3, Zenon DEF PlayerStep, TeamStep
  <2> QED
    BY <1>2, <2>4
<1>6. CASE CompaniesStep
  <2>1. ASSUME NEW u \in Users, NEW e \in Entries, CompanyStep(u, e)
        PROVE  pass' = pass
    BY <2>1, Zenon DEF CompanyStep, EnableCompany, ConfirmCompany, SubmitCompanyApplication, AcceptCompany, matcher
  <2> QED
    BY <1>2, <1>6, <2>1 DEF CompaniesStep
<1>7. CASE SearchStep \/ TournamentStep \/ LeaseLapses
  BY <1>1, <1>7, SearchQuiet, TournamentQuiet, LapseQuiet DEF Quiet
<1> QED
  BY <1>3, <1>4, <1>5, <1>6, <1>7 DEF Next, MatcherStep

\* The matcher enrols only players who still search automatically, for a position they still
\* want, however old the tickets of its pass are and whatever instances run beside it.
THEOREM MatcherTakesOnlySearchers == Spec => MatcherTakesSearchers
<1>1. Spec => [][TakesSearchers]_vars
  BY TypesHold, TicketsHold, TakesNext, PTL DEF Spec
<1>2. MatcherTakesSearchers <=> [][TakesSearchers]_vars
  BY DEF MatcherTakesSearchers, TakesSearchers
<1> QED
  BY <1>1, <1>2

=============================================================================
