------------------------- MODULE TournamentEntries -------------------------
(***************************************************************************)
(* The entries of one Dota tournament before its start: squads and teams,  *)
(* their rosters, applications, companies (small squads that look for a    *)
(* team together), the solo queue and the matcher that serves it.          *)
(*                                                                         *)
(* Every handler takes the tournament's advisory lock and repeats under it *)
(* the checks it made before, so each is one action.  Only the matcher     *)
(* reads outside the lock: it keeps tickets, which the handlers check.     *)
(***************************************************************************)
EXTENDS Integers, FiniteSets

CONSTANTS
    Users,          \* players
    Roles,          \* the positions of a full roster
    Teams,          \* entries of permanent teams, which may register again
    Squads,         \* entries of squads made for the tournament, used once
    SearchRoles,    \* what a player may look for in the solo queue
    Instances,      \* API processes that run the matcher
    MaxSlots,       \* bound on the places of the tournament
    MaxGeneration,  \* bound on the searches one player starts
    None            \* no user, no entry, no position

ASSUME ConstantsAssumption ==
    /\ Teams \cap Squads = {} /\ SearchRoles \subseteq SUBSET Roles
    /\ None \notin Users \cup Teams \cup Squads \cup Roles
    /\ MaxSlots \in Nat /\ MaxGeneration \in Nat
    /\ IsFiniteSet(Teams \cup Squads) /\ IsFiniteSet(Users) /\ IsFiniteSet(Roles)

VARIABLES
    registration,   \* "OPEN", "LATE" (open, but past its closing time), "CLOSED", "STARTED"
    slots,          \* maxTeams less the places held by all other entries
    entry,          \* DotaTournamentEntry
    roster,         \* active members and their positions
    consent,        \* companyConsentVersion: the roster a member agreed to
    requests,       \* the pending rows of DotaTournamentEntryRequest
    queue,          \* DotaTournamentSoloSearch
    lease,          \* soloMatchLeaseToken and soloMatchLeaseUntil
    pass            \* the matcher's pass of each instance

tournament == <<registration, slots>>
lineups == <<entry, roster, consent>>
matcher == <<lease, pass>>
vars == <<registration, slots, entry, roster, consent, requests, queue, lease, pass>>

Entries == Teams \cup Squads
Statuses == {"NONE", "RECRUITING", "REGISTERED", "RESERVE", "WITHDRAWN"}
ActiveStatuses == {"RECRUITING", "REGISTERED", "RESERVE"}

\* A player is out of a roster, in it without a position, or in it with one.
Rosters == [Users -> Roles \cup {"out", "unassigned"}]
NoRoster == [u \in Users |-> "out"]
NoConsents == [u \in Users |-> None]

\* A position is no marker, a roster no player's silence.
ASSUME MarkersAssumption == {"out", "unassigned"} \cap Roles = {} /\ None \notin Rosters

\* A pair of players does not fill a roster (the five positions of a Dota team).
ASSUME RosterSizeAssumption == Cardinality(Roles) >= 3

NoRequest == [role |-> None, source |-> None, snapshot |-> NoRoster]
Requests == [role : Roles \cup {None}, source : Entries \cup {None}, snapshot : Rosters]

Searches == [waiting : BOOLEAN, auto : BOOLEAN, roles : SUBSET Roles, generation : Nat]
Tickets == [user : Users, generation : Nat, roles : SUBSET Roles]

TypeOK ==
    /\ registration \in {"OPEN", "LATE", "CLOSED", "STARTED"}
    /\ slots \in 0..MaxSlots
    /\ entry \in [Entries -> [status : Statuses, captain : Users \cup {None},
                              joinMode : {"OPEN", "CONFIRM"}, company : BOOLEAN]]
    /\ roster \in [Entries -> Rosters]
    /\ consent \in [Entries -> [Users -> Rosters \cup {None}]]
    /\ requests \in [Entries -> [Users -> Requests]]
    /\ queue \in [Users -> Searches]
    /\ lease \in [holder : Instances \cup {None}, lapsed : BOOLEAN]
    /\ pass \in [Instances -> [running : BOOLEAN, tickets : SUBSET Tickets]]

Init ==
    /\ registration = "OPEN"
    /\ slots \in 1..MaxSlots
    /\ entry = [e \in Entries |-> [status |-> "NONE", captain |-> None,
                                   joinMode |-> "OPEN", company |-> FALSE]]
    /\ roster = [e \in Entries |-> NoRoster]
    /\ consent = [e \in Entries |-> NoConsents]
    /\ requests = [e \in Entries |-> [u \in Users |-> NoRequest]]
    /\ queue = [u \in Users |-> [waiting |-> FALSE, auto |-> FALSE,
                                 roles |-> {}, generation |-> 0]]
    /\ lease = [holder |-> None, lapsed |-> FALSE]
    /\ pass = [i \in Instances |-> [running |-> FALSE, tickets |-> {}]]

-----------------------------------------------------------------------------
(* What the handlers ask *)

Active(e) == entry[e].status \in ActiveStatuses
Members(lineup) == {u \in Users : lineup[u] # "out"}
Enrolled(u) == \E e \in Entries : u \in Members(roster[e])
Pending(u) == \E e \in Entries : requests[e][u] # NoRequest
Registered(table) == {e \in Entries : table[e].status = "REGISTERED"}

\* hasCompleteRoleLineup
Complete(lineup) ==
    /\ Cardinality(Members(lineup)) = Cardinality(Roles)
    /\ \A r \in Roles : \E u \in Users : lineup[u] = r

\* assertEntryCanRecruit
CanRecruit(status) ==
    \/ registration = "OPEN"
    \/ registration = "CLOSED" /\ status = "RESERVE"

\* Whether the entry admits players and the user commands it.
Manages(u, e) == Active(e) /\ entry[e].captain = u /\ CanRecruit(entry[e].status)

\* Mutant: membership elsewhere is not looked up again.
SlotAvailableHere(e, u, r) ==
    Cardinality(Members(roster[e])) < Cardinality(Roles) /\ \A v \in Users : roster[e][v] # r

\* assertTournamentSlotAvailable
SlotAvailable(e, u, r) ==
    /\ Cardinality(Members(roster[e])) < Cardinality(Roles)
    /\ \A v \in Users : roster[e][v] # r
    /\ ~Enrolled(u)

RequiresApproval(e) == entry[e].joinMode = "CONFIRM" \/ entry[e].company

\* Mutant: the captain agrees for everyone.
ConfirmedByCaptain(e) ==
    LET company == Members(roster[e])
    IN  /\ Cardinality(company) >= 2 /\ Cardinality(company) < Cardinality(Roles)
        /\ consent[e][entry[e].captain] = roster[e]
        /\ \A u \in company : roster[e][u] \in Roles

\* companyConfirmed: two players or more, a place left, and everyone agreed to this roster.
Confirmed(e) ==
    LET company == Members(roster[e])
    IN  /\ Cardinality(company) >= 2 /\ Cardinality(company) < Cardinality(Roles)
        /\ \A u \in company : roster[e][u] \in Roles /\ consent[e][u] = roster[e]
        /\ \A u, v \in company : u # v => roster[e][u] # roster[e][v]

\* availableCompany
CompanyAvailable(e, leader, snapshot) ==
    /\ entry[e].company /\ Active(e) /\ entry[e].captain = leader
    /\ Confirmed(e) /\ roster[e] = snapshot
    /\ CanRecruit(entry[e].status)

\* The whole company finds room in the roster.
Fits(company, lineup) ==
    /\ Cardinality(Members(company)) + Cardinality(Members(lineup)) <= Cardinality(Roles)
    /\ \A u \in Members(company), v \in Members(lineup) : company[u] # lineup[v]

-----------------------------------------------------------------------------
(* What the handlers share *)

\* The clock may pass the closing time between a handler's check and its last step.
ClockMoves == IF registration = "OPEN" THEN {"OPEN", "LATE"} ELSE {registration}

ToReserve(table) ==
    [e \in Entries |-> IF table[e].status = "RECRUITING"
                       THEN [table[e] EXCEPT !.status = "RESERVE"] ELSE table[e]]

\* Mutant: the last place is given once more.
OnePlaceMore(table) == Cardinality(Registered(table)) <= slots

PlaceLeft(table) == Cardinality(Registered(table)) < slots

\* Mutant: a registered entry stays registered.
SyncedStatusKept(table, e, lineup, now) ==
    IF table[e].status = "REGISTERED" THEN "REGISTERED"
    ELSE IF now # "OPEN" THEN "RESERVE"
    ELSE IF Complete(lineup) /\ PlaceLeft(table) THEN "REGISTERED"
    ELSE IF Complete(lineup) THEN "RESERVE" ELSE "RECRUITING"

SyncedStatus(table, e, lineup, now) ==
    IF now # "OPEN"
    THEN IF table[e].status = "REGISTERED" /\ Complete(lineup) THEN "REGISTERED" ELSE "RESERVE"
    ELSE IF ~Complete(lineup) THEN "RECRUITING"
    ELSE IF table[e].status = "REGISTERED" \/ PlaceLeft(table)
    THEN "REGISTERED" ELSE "RESERVE"

\* Mutant: the version of the roster is taken to be enough.
ConsentsKept(table, agreed, e) == agreed

\* A company whose roster has changed has to agree anew.
ConsentsAfterChange(table, agreed, e) ==
    IF table[e].company THEN [agreed EXCEPT ![e] = NoConsents] ELSE agreed

\* syncEntryRegistrationStatus, after every change of a roster: table holds the entries as
\* the handler has left them, agreed the consents, now the registration at the time of this
\* step.
Sync(table, agreed, e, lineup, now) ==
    IF table[e].status \notin ActiveStatuses
    THEN /\ entry' = table /\ consent' = agreed
         /\ UNCHANGED registration
    ELSE LET synced == [table EXCEPT ![e].status = SyncedStatus(table, e, lineup, now)]
             full == now = "OPEN" /\ Cardinality(Registered(synced)) >= slots
         IN  /\ registration' = IF full THEN "CLOSED" ELSE now
             /\ entry' = IF full THEN ToReserve(synced) ELSE synced
             /\ consent' = ConsentsAfterChange(table, agreed, e)

\* Mutant: other captains have to decline.
WithdrawnNowhere(table, e, players) == table

\* finishSoloQueue for players who are in e now: a search ends, and so do their applications
\* elsewhere.
WithdrawnElsewhere(table, e, players) ==
    [f \in Entries |-> [u \in Users |-> IF u \in players /\ f # e THEN NoRequest
                                        ELSE table[f][u]]]
SearchEnded(players) ==
    [u \in Users |-> IF u \in players /\ queue[u].waiting
                     THEN [queue[u] EXCEPT !.waiting = FALSE, !.auto = FALSE, !.roles = {}]
                     ELSE queue[u]]
FinishSearch(table, e, players) ==
    /\ requests' = WithdrawnElsewhere(table, e, players)
    /\ queue' = SearchEnded(players)

\* The applications to an entry that is withdrawn.
ApplicationsClosed(e) == [requests EXCEPT ![e] = [u \in Users |-> NoRequest]]

\* One player enters the roster of e.
Enrol(e, u, r) ==
    /\ roster' = [roster EXCEPT ![e][u] = r]
    /\ \E now \in ClockMoves : Sync(entry, consent, e, [roster[e] EXCEPT ![u] = r], now)
    /\ FinishSearch([requests EXCEPT ![e][u] = NoRequest], e, {u})
    /\ UNCHANGED slots

-----------------------------------------------------------------------------
(* Squads and teams *)

NewEntry(u, joinMode, company) ==
    [status |-> IF registration = "CLOSED" THEN "RESERVE" ELSE "RECRUITING",
     captain |-> u, joinMode |-> joinMode, company |-> company]

\* createSquad: lineup holds the captain, and the companion when the matcher calls it.
CreateSquadWith(e, u, lineup, joinMode, company) ==
    /\ e \in Squads /\ entry[e].status = "NONE"
    /\ CanRecruit("RESERVE")
    /\ \A v \in Members(lineup) : ~Enrolled(v)
    /\ entry' = [entry EXCEPT ![e] = NewEntry(u, joinMode, company)]
    /\ roster' = [roster EXCEPT ![e] = lineup]
    /\ FinishSearch(requests, e, Members(lineup))
    /\ UNCHANGED <<registration, slots, consent>>

CreateSquad(u) ==
    /\ \E e \in Squads, r \in Roles, joinMode \in {"OPEN", "CONFIRM"}, company \in BOOLEAN :
           CreateSquadWith(e, u, [NoRoster EXCEPT ![u] = r], joinMode, company)
    /\ UNCHANGED matcher

\* The rosters a permanent team of this captain may register with.
TeamLineups(u) ==
    {lineup \in Rosters : /\ u \in Members(lineup)
                          /\ \A v, w \in Members(lineup) :
                                v # w /\ lineup[v] = lineup[w] => lineup[v] = "unassigned"}

\* registerTeam, for the first time or again.
RegisterTeam(u, e) ==
    /\ e \in Teams /\ ~Active(e) /\ registration = "OPEN"
    /\ \E lineup \in TeamLineups(u), joinMode \in {"OPEN", "CONFIRM"}, now \in ClockMoves :
           /\ \A v \in Members(lineup) : ~Enrolled(v)
           /\ roster' = [roster EXCEPT ![e] = lineup]
           /\ Sync([entry EXCEPT ![e].status = "RECRUITING", ![e].captain = u,
                                 ![e].joinMode = joinMode],
                   consent, e, lineup, now)
    /\ UNCHANGED <<slots, requests, queue, matcher>>

SetEntryJoinMode(u, e) ==
    /\ Manages(u, e)
    /\ \E joinMode \in {"OPEN", "CONFIRM"} : entry' = [entry EXCEPT ![e].joinMode = joinMode]
    /\ UNCHANGED <<tournament, roster, consent, requests, queue, matcher>>

AssignEntryPosition(u, e, r) ==
    /\ Active(e) /\ CanRecruit(entry[e].status)
    /\ u \in Members(roster[e]) /\ \A v \in Users : roster[e][v] # r
    /\ roster' = [roster EXCEPT ![e][u] = r]
    /\ \E now \in ClockMoves : Sync(entry, consent, e, [roster[e] EXCEPT ![u] = r], now)
    /\ UNCHANGED <<slots, requests, queue, matcher>>

\* leaveEntry: the next member becomes captain; without one the entry is withdrawn with the
\* applications to it.
LeaveEntry(u, e) ==
    LET lineup == [roster[e] EXCEPT ![u] = "out"]
        Left(table) ==
            /\ roster' = [roster EXCEPT ![e] = lineup]
            /\ \E now \in ClockMoves : Sync(table, consent, e, lineup, now)
    IN  /\ Active(e) /\ CanRecruit(entry[e].status) /\ u \in Members(roster[e])
        /\ \/ entry[e].captain # u /\ Left(entry) /\ UNCHANGED requests
           \/ /\ entry[e].captain = u
              /\ \E next \in Members(lineup) : Left([entry EXCEPT ![e].captain = next])
              /\ UNCHANGED requests
           \/ /\ entry[e].captain = u /\ Members(lineup) = {}
              /\ Left([entry EXCEPT ![e].status = "WITHDRAWN"])
              /\ requests' = ApplicationsClosed(e)
        /\ UNCHANGED <<slots, queue, matcher>>

RemoveEntryMember(u, e, v) ==
    LET lineup == [roster[e] EXCEPT ![v] = "out"]
    IN  /\ Manages(u, e) /\ v # u /\ v \in Members(roster[e])
        /\ roster' = [roster EXCEPT ![e] = lineup]
        /\ requests' = [requests EXCEPT ![e][v] = NoRequest]
        /\ \E now \in ClockMoves : Sync(entry, consent, e, lineup, now)
        /\ UNCHANGED <<slots, queue, matcher>>

WithdrawTeam(u, e) ==
    /\ Manages(u, e)
    /\ entry' = [entry EXCEPT ![e].status = "WITHDRAWN"]
    /\ roster' = [roster EXCEPT ![e] = NoRoster]
    /\ requests' = ApplicationsClosed(e)
    /\ UNCHANGED <<tournament, consent, queue, matcher>>

-----------------------------------------------------------------------------
(* Applications *)

MayJoin(u, e) == Active(e) /\ CanRecruit(entry[e].status) /\ ~Enrolled(u)

\* joinEntry without approval: an open roster, an invitation link, or a recruitment invitation.
JoinEntry(u, e, r, viaInvitation) ==
    /\ MayJoin(u, e) /\ SlotAvailable(e, u, r)
    /\ viaInvitation \/ ~RequiresApproval(e)
    /\ Enrol(e, u, r)
    /\ UNCHANGED matcher

\* joinEntry with approval.  A pending application stays as it is; either way the search ends.
ApplyToEntry(u, e, r) ==
    /\ MayJoin(u, e) /\ RequiresApproval(e)
    /\ \/ requests[e][u] # NoRequest /\ UNCHANGED requests
       \/ /\ requests[e][u] = NoRequest /\ SlotAvailable(e, u, r)
          /\ requests' = [requests EXCEPT ![e][u] = [NoRequest EXCEPT !.role = r]]
    /\ queue' = SearchEnded({u})
    /\ UNCHANGED <<tournament, lineups, matcher>>

\* submitCompanyApplication
SubmitCompanyApplication(u, source, e) ==
    /\ u \in Members(roster[source]) /\ CompanyAvailable(source, u, roster[source])
    /\ e # source /\ Active(e) /\ CanRecruit(entry[e].status)
    /\ Fits(roster[source], roster[e])
    /\ requests' = [requests EXCEPT ![e][u] = [role |-> roster[source][u], source |-> source,
                                              snapshot |-> roster[source]]]
    /\ UNCHANGED <<tournament, lineups, queue, matcher>>

\* decideJoinRequest, accepting one player.
AcceptRequest(captain, e, u) ==
    /\ Manages(captain, e)
    /\ requests[e][u] # NoRequest /\ requests[e][u].source = None
    /\ SlotAvailable(e, u, requests[e][u].role)
    /\ Enrol(e, u, requests[e][u].role)
    /\ UNCHANGED matcher

\* decideJoinRequest, accepting a company: all of it moves, and its entry is withdrawn with
\* every application to it and from it.
AcceptCompany(captain, e, leader) ==
    LET source == requests[e][leader].source
        company == Members(roster[source])
        joined == [u \in Users |-> IF u \in company THEN roster[source][u] ELSE roster[e][u]]
        applications ==
            [f \in Entries |-> [u \in Users |->
                IF f = source \/ requests[f][u].source = source THEN NoRequest
                ELSE requests[f][u]]]
    IN  /\ Manages(captain, e)
        /\ requests[e][leader] # NoRequest /\ source \notin {None, e}
        /\ CompanyAvailable(source, leader, requests[e][leader].snapshot)
        /\ Fits(roster[source], roster[e])
        /\ roster' = [roster EXCEPT ![source] = NoRoster, ![e] = joined]
        /\ FinishSearch(applications, e, company)
        /\ \E now \in ClockMoves :
              Sync([entry EXCEPT ![source].status = "WITHDRAWN", ![source].company = FALSE],
                   [consent EXCEPT ![e] = [u \in Users |-> IF u \in company THEN None
                                                           ELSE consent[e][u]]],
                   e, joined, now)
        /\ UNCHANGED <<slots, matcher>>

DeclineRequest(captain, e, u) ==
    /\ Manages(captain, e) /\ requests[e][u] # NoRequest
    /\ requests' = [requests EXCEPT ![e][u] = NoRequest]
    /\ UNCHANGED <<tournament, lineups, queue, matcher>>

CancelRequest(u, e) ==
    /\ requests[e][u] # NoRequest
    /\ requests' = [requests EXCEPT ![e][u] = NoRequest]
    /\ UNCHANGED <<tournament, lineups, queue, matcher>>

-----------------------------------------------------------------------------
(* Companies *)

EnableCompany(u, e) ==
    /\ Active(e) /\ entry[e].captain = u /\ u \in Members(roster[e])
    /\ Cardinality(Members(roster[e])) < Cardinality(Roles)
    /\ CanRecruit("RESERVE")
    /\ entry' = [entry EXCEPT ![e].company = TRUE]
    /\ consent' = IF entry[e].company THEN consent ELSE [consent EXCEPT ![e] = NoConsents]
    /\ UNCHANGED <<tournament, roster, requests, queue, matcher>>

\* confirmCompany: the member has seen this roster, and confirms the search or pauses it.
ConfirmCompany(u, e, confirmed) ==
    /\ Active(e) /\ entry[e].company /\ u \in Members(roster[e])
    /\ Cardinality(Members(roster[e])) < Cardinality(Roles)
    /\ CanRecruit("RESERVE")
    /\ consent' = [consent EXCEPT ![e][u] = IF confirmed THEN roster[e] ELSE None]
    /\ UNCHANGED <<tournament, entry, roster, requests, queue, matcher>>

-----------------------------------------------------------------------------
(* The solo queue *)

StartSearch(u, roles, auto) ==
    /\ CanRecruit("RESERVE") /\ ~Enrolled(u) /\ ~Pending(u)
    /\ queue[u].generation < MaxGeneration
    /\ ~(queue[u].waiting /\ queue[u].auto = auto /\ queue[u].roles = roles)
    /\ queue' = [queue EXCEPT ![u] = [waiting |-> TRUE, auto |-> auto, roles |-> roles,
                                     generation |-> queue[u].generation + 1]]
    /\ UNCHANGED <<tournament, lineups, requests, matcher>>

\* cancel ends the search and every application.
CancelSearch(u) ==
    /\ queue[u].waiting \/ Pending(u)
    /\ queue' = [v \in Users |-> IF v = u /\ queue[u].waiting
                                 THEN [SearchEnded({u})[u] EXCEPT !.generation = @ + 1]
                                 ELSE queue[v]]
    /\ requests' = [e \in Entries |-> [requests[e] EXCEPT ![u] = NoRequest]]
    /\ UNCHANGED <<tournament, lineups, matcher>>

\* match claims the lease.  It expires every search once nobody can take part any more;
\* otherwise it repairs the rows of players who are in a roster and keeps tickets of the rest.
BeginPass(i) ==
    /\ ~pass[i].running /\ (lease.holder = None \/ lease.lapsed)
    /\ \E u \in Users : queue[u].waiting
    /\ IF CanRecruit("RESERVE")
       THEN LET found == {u \in Users : queue[u].waiting /\ queue[u].auto}
            IN  /\ lease' = [holder |-> i, lapsed |-> FALSE]
                /\ pass' = [pass EXCEPT ![i] =
                        [running |-> TRUE,
                         tickets |-> {[user |-> u, generation |-> queue[u].generation,
                                       roles |-> queue[u].roles] :
                                         u \in {v \in found : ~Enrolled(v)}}]]
                /\ queue' = SearchEnded({u \in found : Enrolled(u)})
       ELSE /\ queue' = SearchEnded(Users)
            /\ lease' = [holder |-> None, lapsed |-> FALSE]
            /\ UNCHANGED pass
    /\ UNCHANGED <<tournament, lineups, requests>>

\* Mutant: any search of the player will do.
TicketValidForLaterSearch(i, ticket, r) ==
    LET search == queue[ticket.user]
    IN  /\ search.waiting /\ r \in search.roles
        /\ ~Pending(ticket.user)
        /\ lease.holder = i /\ ~lease.lapsed

\* assertSoloTicket
TicketValid(i, ticket, r) ==
    LET search == queue[ticket.user]
    IN  /\ search.waiting /\ search.generation = ticket.generation /\ r \in search.roles
        /\ ~Pending(ticket.user)
        /\ lease.holder = i /\ ~lease.lapsed

\* The pass leaves a candidate, whatever came of it.
Leave(i, ticket) == [pass EXCEPT ![i].tickets = @ \ {ticket}]

\* joinEntry with a ticket
MatchIntoEntry(i, ticket, e, r) ==
    /\ ticket \in pass[i].tickets /\ r \in ticket.roles
    /\ TicketValid(i, ticket, r)
    /\ entry[e].joinMode = "OPEN" /\ ~entry[e].company
    /\ MayJoin(ticket.user, e) /\ SlotAvailable(e, ticket.user, r)
    /\ Enrol(e, ticket.user, r)
    /\ pass' = Leave(i, ticket)
    /\ UNCHANGED lease

\* createSquad with two tickets
MatchPair(i, first, second, e, r, s) ==
    /\ {first, second} \subseteq pass[i].tickets /\ first.user # second.user /\ r # s
    /\ r \in first.roles /\ s \in second.roles
    /\ TicketValid(i, first, r) /\ TicketValid(i, second, s)
    /\ CreateSquadWith(e, first.user, [NoRoster EXCEPT ![first.user] = r, ![second.user] = s],
                       "OPEN", FALSE)
    /\ pass' = Leave(i, first)
    /\ UNCHANGED lease

SkipCandidate(i, ticket) ==
    /\ ticket \in pass[i].tickets
    /\ pass' = Leave(i, ticket)
    /\ UNCHANGED <<tournament, lineups, requests, queue, lease>>

\* The pass is over, or an exception ends it: its finally block gives its lease back.
EndPass(i) ==
    /\ pass[i].running
    /\ pass' = [pass EXCEPT ![i] = [running |-> FALSE, tickets |-> {}]]
    /\ lease' = IF lease.holder = i THEN [holder |-> None, lapsed |-> FALSE] ELSE lease
    /\ UNCHANGED <<tournament, lineups, requests, queue>>

\* The process dies; its lease stays until it lapses.
Crash(i) ==
    /\ pass[i].running
    /\ pass' = [pass EXCEPT ![i] = [running |-> FALSE, tickets |-> {}]]
    /\ UNCHANGED <<tournament, lineups, requests, queue, lease>>

LeaseLapses ==
    /\ lease.holder # None /\ ~lease.lapsed
    /\ lease' = [lease EXCEPT !.lapsed = TRUE]
    /\ UNCHANGED <<tournament, lineups, requests, queue, pass>>

-----------------------------------------------------------------------------
(* The tournament *)

ClosingTimePasses ==
    /\ registration = "OPEN"
    /\ registration' = "LATE"
    /\ UNCHANGED <<slots, lineups, requests, queue, matcher>>

\* The bracket service's scan closes a registration whose time has come.
CloseRegistration ==
    /\ registration = "LATE"
    /\ registration' = "CLOSED"
    /\ entry' = ToReserve(entry)
    /\ UNCHANGED <<slots, roster, consent, requests, queue, matcher>>

\* Mutant: any limit.
AnyLimit(places) == places \in 0..MaxSlots

LimitAllowed(places) == places >= Cardinality(Registered(entry))

\* update: staff set the limit, the closing time and the status.
UpdateTournament(next, places) ==
    /\ registration # "STARTED"
    /\ LimitAllowed(places)
    /\ registration' = next /\ slots' = places
    /\ entry' = IF next \in {"CLOSED", "STARTED"} /\ registration # "CLOSED"
                THEN ToReserve(entry) ELSE entry
    /\ UNCHANGED <<roster, consent, requests, queue, matcher>>

\* An entry of other players is registered, or gives its place back.
OtherEntryRegisters ==
    /\ registration = "OPEN" /\ PlaceLeft(entry)
    /\ slots' = slots - 1
    /\ registration' = IF Cardinality(Registered(entry)) >= slots' THEN "CLOSED" ELSE "OPEN"
    /\ entry' = IF registration' = "CLOSED" THEN ToReserve(entry) ELSE entry
    /\ UNCHANGED <<roster, consent, requests, queue, matcher>>

OtherEntryLeaves ==
    /\ registration = "OPEN" /\ slots < MaxSlots
    /\ slots' = slots + 1
    /\ UNCHANGED <<registration, lineups, requests, queue, matcher>>

-----------------------------------------------------------------------------

RosterStep(u, e) ==
    \/ SetEntryJoinMode(u, e) \/ LeaveEntry(u, e) \/ WithdrawTeam(u, e)
    \/ \E r \in Roles : AssignEntryPosition(u, e, r)
    \/ \E v \in Users : RemoveEntryMember(u, e, v)

ApplicationStep(u, e) ==
    \/ \E r \in Roles : ApplyToEntry(u, e, r) \/ JoinEntry(u, e, r, TRUE) \/ JoinEntry(u, e, r, FALSE)
    \/ \E v \in Users : AcceptRequest(u, e, v) \/ DeclineRequest(u, e, v)
    \/ CancelRequest(u, e)

CompanyStep(u, e) ==
    \/ EnableCompany(u, e) \/ ConfirmCompany(u, e, TRUE) \/ ConfirmCompany(u, e, FALSE)
    \/ \E source \in Entries : SubmitCompanyApplication(u, source, e)
    \/ \E leader \in Users : AcceptCompany(u, e, leader)

\* What players and captains do about entries.
PlayerStep ==
    \E u \in Users :
        \/ CreateSquad(u)
        \/ \E e \in Entries : RosterStep(u, e) \/ ApplicationStep(u, e)

TeamStep == \E u \in Users, e \in Teams : RegisterTeam(u, e)

CompaniesStep == \E u \in Users, e \in Entries : CompanyStep(u, e)

SearchStep ==
    \E u \in Users :
        \/ \E roles \in SearchRoles, auto \in BOOLEAN : StartSearch(u, roles, auto)
        \/ CancelSearch(u)

PassStep(i) ==
    \/ BeginPass(i) \/ EndPass(i) \/ Crash(i)
    \/ \E ticket \in pass[i].tickets : SkipCandidate(i, ticket)
    \/ \E ticket \in pass[i].tickets, e \in Entries, r \in Roles : MatchIntoEntry(i, ticket, e, r)
    \/ \E first, second \in pass[i].tickets, e \in Squads, r, s \in Roles :
           MatchPair(i, first, second, e, r, s)

MatcherStep == LeaseLapses \/ \E i \in Instances : PassStep(i)

TournamentStep ==
    \/ ClosingTimePasses \/ CloseRegistration \/ OtherEntryRegisters \/ OtherEntryLeaves
    \/ \E next \in {"OPEN", "LATE", "CLOSED", "STARTED"}, places \in 0..MaxSlots :
           UpdateTournament(next, places)

Next ==
    PlayerStep \/ TeamStep \/ CompaniesStep \/ SearchStep \/ MatcherStep \/ TournamentStep

Spec == Init /\ [][Next]_vars

-----------------------------------------------------------------------------
(* Safety *)

\* A player is in one roster only and a position is held once, whatever the order of joins,
\* acceptances and mergers (tournaments.service.ts:538-590; the unique indexes are never hit).
RostersAreExclusive ==
    /\ \A e, f \in Entries, u \in Users :
          u \in Members(roster[e]) \cap Members(roster[f]) => e = f
    /\ \A e \in Entries : \A u, v \in Members(roster[e]) :
          u # v /\ roster[e][u] = roster[e][v] => roster[e][u] = "unassigned"

\* A status says what the roster is (docs/features/fdp-tournament-participation.md:52):
\* registered entries are complete, recruiting ones are not, active ones have their captain
\* among them and those withdrawn have nobody, not even an applicant who waits for an answer
\* that no one can give (tournaments.service.ts:1165, 2440 and 871).  Once registration is closed no entry is left
\* recruiting, however it was closed (docs/adr/0007-tournament-reserve-squads.md:13).
StatusMatchesRoster ==
    \A e \in Entries :
        /\ entry[e].status = "REGISTERED" => Complete(roster[e])
        /\ entry[e].status = "RECRUITING" =>
              ~Complete(roster[e]) /\ registration \notin {"CLOSED", "STARTED"}
        /\ IF Active(e) THEN entry[e].captain \in Members(roster[e])
           ELSE Members(roster[e]) = {} /\ \A u \in Users : requests[e][u] = NoRequest

\* Registered entries never exceed the limit of the tournament, whichever entries complete,
\* leave or return while staff change the limit (tournaments.service.ts:3288-3292).
TeamsFit == Cardinality(Registered(entry)) <= slots

(* What a step may do *)

\* The agreement of a member to look for a team together.
Counts(e, u) == entry[e].company /\ u \in Members(roster[e]) /\ consent[e][u] = roster[e]

\* A consent counts from the moment its player gives it, for a roster everyone can see, and
\* is never revived by the roster's return to an earlier form (tournaments.service.ts:3258).
ConsentIsGiven ==
    [][\A e \in Entries, u \in Users :
          Counts(e, u)' /\ ~Counts(e, u) =>
              /\ entry[e].company /\ roster'[e] = roster[e]
              /\ \A v \in Users \ {u} : Counts(e, v)' = Counts(e, v)]_vars

\* Nobody is moved from one entry to another except with a whole company, in its positions,
\* everyone in it agreeing, led by the captain who applied (tournaments.service.ts:862-906).
CompanyMovesWhole ==
    [][\A e, f \in Entries, u \in Users :
          e # f /\ u \in Members(roster[e]) /\ u \in Members(roster[f])' =>
              /\ \A v \in Members(roster[e]) : Counts(e, v) /\ roster'[f][v] = roster[e][v]
              /\ entry'[e].status = "WITHDRAWN"
              /\ requests[f][entry[e].captain].source = e]_vars

Enters(u, e) == ~Enrolled(u) /\ u \in Members(roster[e])'

\* The matcher enrols only players who are still looking for automatic matching, for a
\* position they still want, with no application of their own
\* (docs/features/fdp-tournament-participation.md:20; tournaments.service.ts:3143-3150).
MatcherTakesSearchers ==
    [][pass' # pass => \A e \in Entries, u \in Users :
          Enters(u, e) => /\ queue[u].waiting /\ queue[u].auto
                          /\ roster'[e][u] \in queue[u].roles /\ ~Pending(u)]_vars

\* Whoever enters an active entry, or makes a squad, is done with searching and with the
\* applications elsewhere in the same step (docs/features/fdp-tournament-participation.md:58).
\* Registering a permanent team is not among the promised ways.
EnrolmentEndsSearch ==
    [][\A e \in Entries, u \in Users :
          u \notin Members(roster[e]) /\ u \in Members(roster[e])' /\ (Active(e) \/ e \in Squads) =>
              /\ ~queue'[u].waiting
              /\ \A f \in Entries \ {e} : requests'[f][u] = NoRequest]_vars

=============================================================================
