----------------------------- MODULE MCParties -----------------------------
(***************************************************************************)
(* Small instances of Parties, in three scopes that each leave out what    *)
(* the others explore: mergers of three recruiting parties; kicks,         *)
(* departures and the ways back into one party; administration, expiry and *)
(* deletion from the first party on.                                       *)
(***************************************************************************)
EXTENDS Parties, FiniteSetsExt, TLC

CONSTANTS
    Passive,        \* a player who makes no calls
    MaxBegun,       \* bound on the calls begun in all, by scope
    MaxCalls,       \* bound on the calls in flight at once, by scope
    MaxLetters      \* bound on the pending invitations and applications, by scope

VARIABLES scope, begun

\* The first n parties are led by a captain who has a position and recruits; the player
\* guest is with the first one.
Recruiting(n, captain, mode, guest) ==
    LET led(p) == p \in 1..n
        seatOf(p) == CHOOSE s \in Positions : s = captain[p].seat
    IN  /\ party = [p \in Parties |->
              IF led(p) THEN [state |-> "live", owner |-> captain[p].user, joinMode |-> mode,
                              into |-> None, due |-> FALSE]
              ELSE [state |-> "new", owner |-> None, joinMode |-> "OPEN", into |-> None,
                    due |-> FALSE]]
        /\ member = [p \in Parties |-> [u \in Users |->
              IF led(p) /\ captain[p].user = u THEN [rank |-> "OWNER", seat |-> seatOf(p)]
              ELSE IF p = 1 /\ u = guest THEN [rank |-> "MEMBER", seat |-> None]
              ELSE None]]
        /\ looking = [u \in Users |->
              IF \E p \in 1..n : captain[p].user = u
              THEN LET p == CHOOSE q \in 1..n : captain[q].user = u
                   IN  [for |-> p, roles |-> Positions \ {seatOf(p)}]
              ELSE NotLooking]
        /\ block = [p \in Parties |-> Nobody]
        /\ invite = [p \in Parties |-> Nobody]
        /\ declined = [p \in Parties |-> [u \in Users |-> {}]]
        /\ request = [u \in Users |-> Idle]
        /\ pass = NoPass
        /\ sweep = [p \in Parties |-> None]

Captains(n) ==
    {c \in [1..n -> [user : Users \ {Passive}, seat : Positions]] :
        \A p, q \in 1..n : p # q => c[p].user # c[q].user /\ c[p].seat # c[q].seat}

MCInit ==
    /\ begun = 0
    /\ \/ scope = "merging" /\ \E c \in Captains(MaxParties) :
                                   Recruiting(MaxParties, c, "OPEN", None)
       \/ scope = "exclusion" /\ \E c \in Captains(1), mode \in Modes :
                                   Recruiting(1, c, mode, Passive)
       \/ scope = "administration" /\ Init

Calls == Cardinality({u \in Users : request[u] # Idle})
Letters ==
    MapThenSumSet(LAMBDA p : Cardinality({u \in Users : invite[p][u] # None}), Parties)
Created == Cardinality({p \in Parties : party[p].state # "new"})

\* Calls that end with their first step count as well.
Bounded ==
    /\ Calls' <= MaxCalls[scope] /\ Letters' <= MaxLetters[scope]
    /\ request'[Passive] = Idle
    /\ begun' = IF \E u \in Users : request[u] = Idle /\ request'[u] # Idle
                THEN begun + 1 ELSE begun
    /\ begun' <= MaxBegun[scope]

\* Another call may begin.
MayBegin == begun < MaxBegun[scope] /\ Calls < MaxCalls[scope]

LinkStep ==
    \E u \in Users, p \in Parties, s \in Positions :
        \/ BeginJoin(u, p, s, "link")
        \/ \E v \in Users : BeginInvite(u, p, v, s, "link")

CaptainStep ==
    \E u \in Users, p \in Parties :
        \/ BeginMode(u, p, "CONFIRM") \/ BeginDisband(u, p)
        \/ \E chosen \in {Positions} \cup {{s} : s \in Positions} : BeginRecruit(u, p, chosen, TRUE)
        \/ \E s \in Positions \cup {None} : BeginSeat(u, p, s)

LeavingStep ==
    \E u \in Users, p \in Parties :
        BeginLeave(u, p) \/ \E v \in Users : BeginKick(u, p, v)

Alone(u) ==
    /\ looking'[u] = NotLooking
    /\ \A p \in Parties : member'[p][u] = None /\ invite'[p][u] = None

InMerging ==
    /\ \/ MayBegin /\ (LinkStep \/ LeavingStep \/ CaptainStep)
       \/ RequestStep \/ TimerStep
    /\ \A p \in Parties : ~party'[p].due
    /\ Alone(Passive) /\ Bounded

InExclusion ==
    /\ \/ EntryStep \/ RequestStep
       \/ MayBegin /\ LeavingStep
    /\ Bounded

InAdministration ==
    /\ \/ RosterStep \/ SearchStep \/ RequestStep \/ TimerStep
       \/ MayBegin /\ SettingStep
    /\ Created' <= 1
    /\ Alone(Passive) /\ Bounded

MCNext ==
    /\ \/ scope = "merging" /\ InMerging
       \/ scope = "exclusion" /\ InExclusion
       \/ scope = "administration" /\ InAdministration
    /\ UNCHANGED scope

MCSpec == MCInit /\ [][MCNext]_<<vars, scope, begun>>

CallsBegun == [merging |-> 2, exclusion |-> 4, administration |-> 3]
CallsAtOnce == [merging |-> 1, exclusion |-> 2, administration |-> 2]
LettersAtOnce == [merging |-> 1, exclusion |-> 2, administration |-> 0]
Symmetry == Permutations(Users \ {Passive}) \cup Permutations(Positions)
=============================================================================
