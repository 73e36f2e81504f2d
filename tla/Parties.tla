------------------------------ MODULE Parties ------------------------------
(***************************************************************************)
(* Temporary parties: rosters, join blocks, invitations and applications,  *)
(* recruiting cards, and the timer that merges recruiting parties.         *)
(*                                                                         *)
(* A service call reads the party first and writes later, so every call is *)
(* a request with a step per write; a database transaction is one step, as *)
(* it holds the party's row.  A merger is a read and a write, because a    *)
(* change of position takes none of its locks.  Only the last part of a    *)
(* call, which tidies invitations and cards, may be seen half done.        *)
(***************************************************************************)
EXTENDS Integers, FiniteSets

CONSTANTS
    Users,          \* players
    Positions,      \* the positions of a roster
    MaxParties,     \* bound on the parties ever created
    MaxMembers,     \* DOTA_PARTY_SIZE
    Solo,           \* a search card for no party
    None            \* no player, no party, no position, nothing else

ASSUME ConstantsAssumption ==
    /\ MaxParties \in Nat /\ MaxMembers \in Nat \ {0}
    /\ IsFiniteSet(Users) /\ IsFiniteSet(Positions)
    /\ {Solo, None} \cap (Users \cup Positions \cup Nat) = {} /\ Solo # None

VARIABLES
    party,      \* GameParty
    member,     \* GamePartyMember: rank and position, or None
    block,      \* GamePartyJoinBlock: "left" may come back on purpose, "kicked" may not
    invite,     \* the PENDING GamePartyInvite of a party and a player, or None
    declined,   \* the kinds of invitation that were declined
    looking,    \* the search attributes of a profile
    request,    \* the service call in flight of each player
    pass,       \* the pass of the merge timer
    sweep       \* the expired parties a cleanup has listed

rosters == <<party, member, block>>
letters == <<invite, declined>>
timers == <<pass, sweep>>
vars == <<party, member, block, invite, declined, looking, request, pass, sweep>>

\* Rows in the order of their creation.
Parties == 1..MaxParties

Ranks == {"OWNER", "OFFICER", "MEMBER"}
Kinds == {"INVITE", "APPLICATION"}
Modes == {"OPEN", "CONFIRM"}
Memberships == [rank : Ranks, seat : Positions \cup {None}]
Invites == [kind : Kinds, seat : Positions \cup {None}]
Nobody == [u \in Users |-> None]

NotLooking == [for |-> None, roles |-> {}]
NoPass == [survivor |-> None, retired |-> None, leader |-> None, fresh |-> {}, seats |-> Nobody]

\* A call: its next step, the party and the captain it has read, the player, position or
\* roles it is about, what it writes, and how it was made.
Idle == [step |-> "idle", party |-> None, captain |-> None, target |-> None, seat |-> None,
         roles |-> {}, what |-> None, how |-> None]
Steps == {"idle", "join", "accept", "invite", "remove", "rank", "seat", "close", "mode",
          "extend", "recruit", "disband", "dissolve", "settle", "refresh", "clear"}
Requests == [step : Steps, party : Parties \cup {None}, captain : Users \cup {None},
             target : Users \cup {None}, seat : Positions \cup {None},
             roles : SUBSET Positions,
             what : Kinds \cup Ranks \cup Modes \cup {"left", "kicked", None},
             how : {"automatic", "card", "link", None}]

ASSUME NoneAssumption == None \notin Memberships \cup Invites \cup {"left", "kicked"}

TypeOK ==
    /\ party \in [Parties -> [state : {"new", "live", "merged", "deleted"},
                              owner : Users \cup {None}, joinMode : Modes,
                              into : Parties \cup {None}, due : BOOLEAN]]
    /\ member \in [Parties -> [Users -> Memberships \cup {None}]]
    /\ block \in [Parties -> [Users -> {"left", "kicked", None}]]
    /\ invite \in [Parties -> [Users -> Invites \cup {None}]]
    /\ declined \in [Parties -> [Users -> SUBSET Kinds]]
    /\ looking \in [Users -> [for : Parties \cup {Solo, None}, roles : SUBSET Positions]]
    /\ request \in [Users -> Requests]
    /\ pass \in [survivor : Parties \cup {None}, retired : Parties \cup {None},
                 leader : Users \cup {None}, fresh : SUBSET Parties,
                 seats : [Users -> Positions \cup {None}]]
    /\ sweep \in [Parties -> Users \cup {None}]
    /\ \A p \in Parties : party[p].state \in {"new", "deleted"} =>
          party[p].owner = None /\ member[p] = Nobody /\ block[p] = Nobody /\ invite[p] = Nobody

Init ==
    /\ party = [p \in Parties |-> [state |-> "new", owner |-> None, joinMode |-> "OPEN",
                                   into |-> None, due |-> FALSE]]
    /\ member = [p \in Parties |-> Nobody]
    /\ block = [p \in Parties |-> Nobody]
    /\ invite = [p \in Parties |-> Nobody]
    /\ declined = [p \in Parties |-> [u \in Users |-> {}]]
    /\ looking = [u \in Users |-> NotLooking]
    /\ request = [u \in Users |-> Idle]
    /\ pass = NoPass
    /\ sweep = [p \in Parties |-> None]

-----------------------------------------------------------------------------
(* What the calls ask *)

Members(p) == {u \in Users : member[p][u] # None}
Seats(p) == {member[p][u].seat : u \in Members(p)} \ {None}
Full(p) == Cardinality(Members(p)) >= MaxMembers
Free(p, s) == s = None \/ s \notin Seats(p)

Live(p) == party[p].state = "live"
Exists(p) == party[p].state \in {"live", "merged"}

\* What a call finds by a party's link: links follow mergers, expired parties are refused.
Found(p) == Live(p) /\ ~party[p].due

Captain(p, u) == party[p].owner = u

\* isPartyManager
Manager(p, u) == Captain(p, u) \/ (u \in Members(p) /\ member[p][u].rank = "OFFICER")

\* assertNotJoinBlocked
MayEnter(p, u, how) ==
    block[p][u] = None \/ (how # "automatic" /\ block[p][u] = "left")

\* The card of p's captain still asks for the position.
Recruits(p, s) ==
    looking[party[p].owner].for = p /\ s \in looking[party[p].owner].roles

Begin(u, r) ==
    /\ request[u] = Idle
    /\ request' = [request EXCEPT ![u] = r]

At(u, step) == request[u].step = step
Continue(u, step) == request' = [request EXCEPT ![u].step = step]
Finish(u) == request' = [request EXCEPT ![u] = Idle]

-----------------------------------------------------------------------------
(* What the transactions write *)

\* Invitations of p end, except those of the players in kept.
Cancelled(table, p, kept) ==
    [table EXCEPT ![p] = [v \in Users |-> IF v \in kept THEN @[v] ELSE None]]

\* cancelPendingInvitesForParty
AllCancelled(table, p) == Cancelled(table, p, {})

\* closePendingInvitesForPosition
ForSeat(p, s) == {v \in Users : s # None /\ invite[p][v] # None /\ invite[p][v].seat = s}
SeatClosed(table, p, s) == Cancelled(table, p, Users \ ForSeat(p, s))

\* cancelOtherPendingApplicationsForInvitee
ApplicationsCancelled(table, u) ==
    [p \in Parties |-> [table[p] EXCEPT
        ![u] = IF @ # None /\ @.kind = "APPLICATION" THEN None ELSE @]]

\* The invitations of the players in vs count as declined.
MarkedDeclined(p, vs) ==
    [declined EXCEPT ![p] = [v \in Users |->
        IF v \in vs THEN @[v] \cup {invite[p][v].kind} ELSE @[v]]]

\* deleteParty and deletePartiesByIds: members, invitations and blocks go with the row.
Delete(ps) ==
    /\ party' = [p \in Parties |-> IF p \in ps
                                   THEN [state |-> "deleted", owner |-> None, joinMode |-> "OPEN",
                                         into |-> None, due |-> FALSE]
                                   ELSE party[p]]
    /\ member' = [p \in Parties |-> IF p \in ps THEN Nobody ELSE member[p]]
    /\ block' = [p \in Parties |-> IF p \in ps THEN Nobody ELSE block[p]]
    /\ invite' = [p \in Parties |-> IF p \in ps THEN Nobody ELSE invite[p]]
    /\ declined' = [p \in Parties |-> IF p \in ps THEN [u \in Users |-> {}] ELSE declined[p]]

-----------------------------------------------------------------------------
(* Creation and solo search *)

NextParty(p) == party[p].state = "new" /\ \A q \in 1..(p - 1) : party[q].state # "new"

NewParty(p, u) == party' = [party EXCEPT ![p].state = "live", ![p].owner = u]

CreateParty(u, p) ==
    /\ NextParty(p) /\ NewParty(p, u)
    /\ member' = [member EXCEPT ![p][u] = [rank |-> "OWNER", seat |-> None]]
    /\ Begin(u, [Idle EXCEPT !.step = "settle", !.party = p, !.captain = u, !.target = u])
    /\ UNCHANGED <<block, letters, looking, timers>>

InSomeParty(u) == \E p \in Parties : u \in Members(p) /\ ~party[p].due

\* setLooking without a party: memberships are looked up under the player's lock.
LookForParty(u) ==
    /\ ~InSomeParty(u) /\ looking[u].for # Solo
    /\ looking' = [looking EXCEPT ![u] = [for |-> Solo, roles |-> {}]]
    /\ UNCHANGED <<rosters, letters, request, timers>>

StopLooking(u) ==
    /\ looking[u] # NotLooking
    /\ looking' = [looking EXCEPT ![u] = NotLooking]
    /\ UNCHANGED <<rosters, letters, request, timers>>

\* createAutoMatchedPartyAtomically: players who search alone become a recruiting party.
AutoMatch(p, group, lineup, leader) ==
    LET wanted == Positions \ {lineup[u] : u \in group}
    IN  /\ NextParty(p) /\ NewParty(p, leader)
        /\ Cardinality(group) \in 2..MaxMembers
        /\ \A u, v \in group : u # v => lineup[u] # lineup[v]
        /\ \A u \in group : ~InSomeParty(u)
        /\ member' = [member EXCEPT ![p] = [u \in Users |->
               IF u \notin group THEN None
               ELSE [rank |-> IF u = leader THEN "OWNER" ELSE "MEMBER", seat |-> lineup[u]]]]
        /\ looking' = [u \in Users |->
               IF u = leader /\ wanted # {} THEN [for |-> p, roles |-> wanted]
               ELSE IF u \in group THEN NotLooking ELSE looking[u]]
        /\ UNCHANGED <<block, letters, request, timers>>

-----------------------------------------------------------------------------
(* Joining *)

\* joinPartyAsApplicant on a link or a seat, and joining from a recruiting card, by hand or
\* as the automatic search does it.
BeginJoin(u, p, s, how) ==
    /\ Found(p) /\ u \notin Members(p) /\ Free(p, s) /\ MayEnter(p, u, how)
    /\ how = "link" => ~Full(p)
    /\ how \in {"automatic", "card"} => party[p].joinMode = "OPEN" /\ Recruits(p, s)
    /\ Begin(u, [Idle EXCEPT !.step = "join", !.party = p, !.captain = party[p].owner,
                             !.target = u, !.seat = s, !.how = how])
    /\ UNCHANGED <<rosters, letters, looking, timers>>

\* A full party that someone tries to enter withdraws its invitations.
TurnAway(u, p) ==
    /\ Found(p) /\ Full(p) /\ u \notin Members(p) /\ request[u] = Idle
    /\ invite' = AllCancelled(invite, p)
    /\ UNCHANGED <<rosters, declined, looking, request, timers>>

\* Mutant: the party has as much room as the call read.
RoomAsRead(p, s) == TRUE

\* What addMemberAtomically and acceptInviteAtomically look up again under the party's row.
Room(p, s) == ~Full(p) /\ Free(p, s)

\* Mutant: blocks were checked when the call began.
NotBlockedAsRead(u) == TRUE

NotBlocked(u) == MayEnter(request[u].party, u, request[u].how)

\* addMemberAtomically, and the invitations that its failure closes.
Join(u) ==
    LET p == request[u].party
        s == request[u].seat
        enters == u \notin Members(p) /\ Room(p, s)
    IN  /\ At(u, "join") /\ Live(p) /\ NotBlocked(u)
        /\ member' = IF enters
                     THEN [member EXCEPT ![p][u] = [rank |-> "MEMBER", seat |-> s]] ELSE member
        /\ IF enters \/ (u \in Members(p) /\ ~Full(p))
           THEN /\ invite' = ApplicationsCancelled(invite, u)
                /\ Continue(u, "settle")
           ELSE /\ invite' = IF Full(p) THEN AllCancelled(invite, p)
                             ELSE IF request[u].how = "link" THEN invite
                             ELSE SeatClosed(invite, p, s)
                /\ Finish(u)
        /\ UNCHANGED <<party, block, declined, looking, timers>>

\* clearLookingForUser for the one who came in or founded the party; a full party invites no
\* longer, nor does one whose card gave the position away.
Settle(u) ==
    LET p == request[u].party
    IN  /\ At(u, "settle")
        /\ looking' = [looking EXCEPT ![request[u].target] = NotLooking]
        /\ invite' = IF Full(p) THEN AllCancelled(invite, p)
                     ELSE IF request[u].how \in {"automatic", "card"}
                     THEN SeatClosed(invite, p, request[u].seat)
                     ELSE invite
        /\ IF request[u].target = request[u].captain \/ (request[u].how = "link" /\ ~Exists(p))
           THEN Finish(u)
           ELSE request' = [request EXCEPT ![u] = [Idle EXCEPT
                    !.step = "refresh", !.party = p,
                    !.captain = IF request[u].how = "link" THEN party[p].owner
                                ELSE request[u].captain]]
        /\ UNCHANGED <<rosters, declined, timers>>

\* refreshRecruitLookingAttributes: a card that asks for nothing more is to be withdrawn.
Refresh(u) ==
    LET p == request[u].party
        card == looking[request[u].captain]
        over == party[p].due \/ Full(p) \/ card.roles \subseteq Seats(p)
    IN  /\ At(u, "refresh")
        /\ IF card.for \notin Parties \/ (Exists(p) /\ ~over) THEN Finish(u)
           ELSE request' = [request EXCEPT ![u].step = "clear",
                                           ![u].party = IF Exists(p) THEN p ELSE card.for]
        /\ UNCHANGED <<rosters, letters, looking, timers>>

CardCleared(u, p) == IF looking[u].for = p THEN NotLooking ELSE looking[u]

\* clearLookingForUser for a captain, if the card is still that of the party.
Clear(u) ==
    LET captain == request[u].captain
    IN  /\ At(u, "clear")
        /\ looking' = [looking EXCEPT ![captain] = CardCleared(captain, request[u].party)]
        /\ Finish(u)
        /\ UNCHANGED <<rosters, letters, timers>>

-----------------------------------------------------------------------------
(* Invitations and applications *)

\* inviteFriend, and the invitations a manager's automatic search sends.
BeginInvite(u, p, v, s, how) ==
    /\ Found(p) /\ u \in Members(p) /\ v \notin Members(p) /\ ~Full(p) /\ Free(p, s)
    /\ how = "automatic" => Manager(p, u) /\ MayEnter(p, v, how)
    /\ invite[p][v] = None /\ "INVITE" \notin declined[p][v]
    /\ Begin(u, [Idle EXCEPT !.step = "invite", !.party = p, !.target = v, !.seat = s,
                             !.captain = IF how = "automatic" THEN party[p].owner ELSE None,
                             !.what = "INVITE", !.how = how])
    /\ UNCHANGED <<rosters, letters, looking, timers>>

\* Joining a party that asks for approval applies instead.
BeginApply(u, p, s, how) ==
    /\ Found(p) /\ party[p].joinMode = "CONFIRM"
    /\ u \notin Members(p) /\ ~Full(p) /\ Free(p, s) /\ MayEnter(p, u, how)
    /\ how \in {"automatic", "card"} => Recruits(p, s)
    /\ invite[p][u] = None /\ "APPLICATION" \notin declined[p][u]
    /\ Begin(u, [Idle EXCEPT !.step = "invite", !.party = p, !.target = u, !.seat = s,
                             !.what = "APPLICATION", !.how = how])
    /\ UNCHANGED <<rosters, letters, looking, timers>>

\* Mutant: the row is written whatever became of the party.
InvitableAsRead(p) == TRUE

\* Mutant: a retired party takes invitations.
InvitableWhileListed(p) == Exists(p)

\* A retired party takes no invitations.
Invitable(p) == Live(p)

\* createInvite
CreateInvite(u) ==
    LET p == request[u].party
        v == request[u].target
    IN  /\ At(u, "invite") /\ Invitable(p) /\ invite[p][v] = None
        /\ request[u].how = "automatic" \/ request[u].what = "APPLICATION" =>
              MayEnter(p, v, request[u].how)
        /\ invite' = [invite EXCEPT ![p][v] = [kind |-> request[u].what,
                                               seat |-> request[u].seat]]
        /\ IF request[u].captain = None THEN Finish(u) ELSE Continue(u, "refresh")
        /\ UNCHANGED <<rosters, declined, looking, timers>>

\* acceptInvite up to its transaction: an invitation that came too late is closed at once.
BeginAccept(u, p, v) ==
    /\ invite[p][v] # None /\ Found(p)
    /\ IF invite[p][v].kind = "INVITE" THEN u = v
       ELSE Manager(p, u) /\ block[p][v] # "kicked"
    /\ IF Room(p, invite[p][v].seat)
       THEN /\ Begin(u, [Idle EXCEPT !.step = "accept", !.party = p,
                                     !.captain = party[p].owner, !.target = v,
                                     !.seat = invite[p][v].seat, !.what = invite[p][v].kind])
            /\ UNCHANGED invite
       ELSE /\ request[u] = Idle
            /\ invite' = IF Full(p) THEN AllCancelled(invite, p)
                         ELSE SeatClosed(invite, p, invite[p][v].seat)
            /\ UNCHANGED request
    /\ UNCHANGED <<rosters, declined, looking, timers>>

\* Once v is in, the others invited to the same position are declined, everyone is when the
\* party is full, and v applies nowhere else.
InvitesAfter(p, v, s) ==
    LET others == IF Cardinality(Members(p)) + 1 >= MaxMembers THEN {}
                  ELSE Users \ (ForSeat(p, s) \cup {v})
    IN  ApplicationsCancelled(Cancelled(invite, p, others), v)

\* acceptInviteAtomically
Accept(u) ==
    LET p == request[u].party
        v == request[u].target
        s == request[u].seat
    IN  /\ At(u, "accept") /\ Live(p)
        /\ invite[p][v] = [kind |-> request[u].what, seat |-> s]
        /\ request[u].what = "APPLICATION" => block[p][v] # "kicked"
        /\ \/ /\ Room(p, s) /\ v \notin Members(p)
              /\ member' = [member EXCEPT ![p][v] = [rank |-> "MEMBER", seat |-> s]]
              /\ block' = [block EXCEPT ![p][v] = None]
              /\ invite' = InvitesAfter(p, v, s)
              /\ declined' = MarkedDeclined(p, ForSeat(p, s) \ {v})
              /\ Continue(u, "settle")
           \/ /\ ~Full(p) /\ v \in Members(p)
              /\ invite' = ApplicationsCancelled(Cancelled(invite, p, Users \ {v}), v)
              /\ Continue(u, "settle")
              /\ UNCHANGED <<member, block, declined>>
           \/ /\ Full(p) \/ (v \notin Members(p) /\ ~Free(p, s))
              /\ invite' = IF Full(p) THEN AllCancelled(invite, p) ELSE SeatClosed(invite, p, s)
              /\ Finish(u)
              /\ UNCHANGED <<member, block, declined>>
        /\ UNCHANGED <<party, looking, timers>>

\* declineInvite: the applicant takes an application back, everyone else declines.
DeclineInvite(u, p, v) ==
    /\ invite[p][v] # None
    /\ u = v \/ (invite[p][v].kind = "APPLICATION" /\ Manager(p, u))
    /\ invite' = [invite EXCEPT ![p][v] = None]
    /\ declined' = IF u = v /\ invite[p][v].kind = "APPLICATION" THEN declined
                   ELSE MarkedDeclined(p, {v})
    /\ UNCHANGED <<rosters, looking, request, timers>>

\* cancelStalePendingInvites
InviteLapses(p, v) ==
    /\ invite[p][v] # None
    /\ invite' = [invite EXCEPT ![p][v] = None]
    /\ UNCHANGED <<rosters, declined, looking, request, timers>>

-----------------------------------------------------------------------------
(* Leaving, kicks, ranks, positions and settings *)

\* leaveParty: an owner left alone takes the party along, as the cleanup does with an
\* expired one; anyone else may leave that, too.
BeginLeave(u, p) ==
    /\ Live(p) /\ u \in Members(p)
    /\ IF member[p][u].rank = "OWNER"
       THEN /\ ~party[p].due /\ Members(p) = {u}
            /\ Begin(u, [Idle EXCEPT !.step = "dissolve", !.party = p, !.captain = u])
       ELSE Begin(u, [Idle EXCEPT !.step = "remove", !.party = p, !.captain = party[p].owner,
                                  !.target = u, !.what = "left"])
    /\ UNCHANGED <<rosters, letters, looking, timers>>

\* kickMember
BeginKick(u, p, v) ==
    /\ Found(p) /\ Manager(p, u) /\ v \in Members(p) \ {u}
    /\ member[p][v].rank # "OWNER"
    /\ member[p][v].rank = "OFFICER" => Captain(p, u)
    /\ Begin(u, [Idle EXCEPT !.step = "remove", !.party = p, !.captain = party[p].owner,
                             !.target = v, !.what = "kicked"])
    /\ UNCHANGED <<rosters, letters, looking, timers>>

\* removeMemberAndBlockJoinAtomically: nothing is written for a player who is gone.
Remove(u) ==
    LET p == request[u].party
        v == request[u].target
    IN  /\ At(u, "remove")
        /\ IF v \in Members(p)
           THEN /\ member' = [member EXCEPT ![p][v] = None]
                /\ block' = [block EXCEPT ![p][v] = request[u].what]
                /\ invite' = [invite EXCEPT ![p][v] = None]
           ELSE UNCHANGED <<member, block, invite>>
        /\ IF request[u].what = "left" /\ party[p].due THEN Finish(u) ELSE Continue(u, "refresh")
        /\ UNCHANGED <<party, declined, looking, timers>>

\* updateMemberRole
BeginRank(u, p, v, rank) ==
    /\ Found(p) /\ Captain(p, u) /\ u \in Members(p) /\ v \in Members(p) \ {u}
    /\ member[p][v].rank # "OWNER" /\ rank # "OWNER"
    /\ Begin(u, [Idle EXCEPT !.step = "rank", !.party = p, !.target = v, !.what = rank])
    /\ UNCHANGED <<rosters, letters, looking, timers>>

ChangeRank(u) ==
    LET p == request[u].party
    IN  /\ At(u, "rank") /\ request[u].target \in Members(p)
        /\ member' = [member EXCEPT ![p][request[u].target].rank = request[u].what]
        /\ Finish(u)
        /\ UNCHANGED <<party, block, letters, looking, timers>>

\* updateMyPosition
BeginSeat(u, p, s) ==
    /\ Found(p) /\ u \in Members(p) /\ member[p][u].seat # s /\ Free(p, s)
    /\ Begin(u, [Idle EXCEPT !.step = "seat", !.party = p, !.captain = party[p].owner,
                             !.seat = s])
    /\ UNCHANGED <<rosters, letters, looking, timers>>

\* The position is unique in the party by an index.
Seat(u) ==
    LET p == request[u].party
    IN  /\ At(u, "seat") /\ u \in Members(p) /\ Free(p, request[u].seat)
        /\ member' = [member EXCEPT ![p][u].seat = request[u].seat]
        /\ Continue(u, IF request[u].seat = None THEN "refresh" ELSE "close")
        /\ UNCHANGED <<party, block, letters, looking, timers>>

\* closePendingInvitesForPosition, as declined
Close(u) ==
    LET p == request[u].party
    IN  /\ At(u, "close")
        /\ invite' = SeatClosed(invite, p, request[u].seat)
        /\ declined' = MarkedDeclined(p, ForSeat(p, request[u].seat))
        /\ Continue(u, "refresh")
        /\ UNCHANGED <<rosters, looking, timers>>

\* updateJoinMode
BeginMode(u, p, mode) ==
    /\ Found(p) /\ u \in Members(p) /\ Manager(p, u) /\ party[p].joinMode # mode
    /\ Begin(u, [Idle EXCEPT !.step = "mode", !.party = p, !.what = mode])
    /\ UNCHANGED <<rosters, letters, looking, timers>>

SetMode(u) ==
    /\ At(u, "mode") /\ Exists(request[u].party)
    /\ party' = [party EXCEPT ![request[u].party].joinMode = request[u].what]
    /\ Finish(u)
    /\ UNCHANGED <<member, block, letters, looking, timers>>

\* extendParty: the write is conditional on the expiry that was read, passed or not.
BeginExtend(u, p) ==
    /\ Found(p) /\ u \in Members(p) /\ Manager(p, u)
    /\ Begin(u, [Idle EXCEPT !.step = "extend", !.party = p])
    /\ UNCHANGED <<rosters, letters, looking, timers>>

Extend(u) ==
    /\ At(u, "extend") /\ Exists(request[u].party)
    /\ party' = [p \in Parties |->
           IF request[u].party \in {p, party[p].into} THEN [party[p] EXCEPT !.due = FALSE]
           ELSE party[p]]
    /\ Finish(u)
    /\ UNCHANGED <<member, block, letters, looking, timers>>

\* setPartyRecruitLooking: the captain's card asks for the chosen free positions, for all
\* of them if none is chosen, or is withdrawn.
BeginRecruit(u, p, chosen, on) ==
    LET open == Positions \ Seats(p)
        roles == IF chosen \cap open # {} THEN chosen \cap open ELSE open
    IN  /\ Found(p) /\ Manager(p, u)
        /\ on => ~Full(p) /\ open # {}
        /\ Begin(u, [Idle EXCEPT !.step = "recruit", !.party = p, !.captain = party[p].owner,
                                 !.roles = IF on THEN roles ELSE {}])
        /\ UNCHANGED <<rosters, letters, looking, timers>>

Recruit(u) ==
    LET p == request[u].party
        c == request[u].captain
    IN  /\ At(u, "recruit") /\ Found(p)
        /\ c \in Members(p) /\ member[p][c].rank # "MEMBER"
        /\ looking' = [looking EXCEPT ![c] =
               IF request[u].roles = {} THEN NotLooking
               ELSE [for |-> p, roles |-> request[u].roles]]
        /\ Finish(u)
        /\ UNCHANGED <<rosters, letters, timers>>

\* disbandParty
BeginDisband(u, p) ==
    /\ Found(p) /\ Captain(p, u)
    /\ Begin(u, [Idle EXCEPT !.step = "disband", !.party = p, !.captain = u])
    /\ UNCHANGED <<rosters, letters, looking, timers>>

Disband(u) ==
    /\ At(u, "disband")
    /\ invite' = AllCancelled(invite, request[u].party)
    /\ Continue(u, "dissolve")
    /\ UNCHANGED <<rosters, declined, looking, timers>>

\* deleteParty, of whatever the row has become
Dissolve(u) ==
    /\ At(u, "dissolve") /\ Exists(request[u].party)
    /\ Delete({request[u].party})
    /\ Continue(u, "clear")
    /\ UNCHANGED <<looking, timers>>

\* A check of a later step refuses, or the server stops: what was written stays.
GiveUp(u) ==
    /\ request[u] # Idle /\ Finish(u)
    /\ UNCHANGED <<rosters, letters, looking, timers>>

-----------------------------------------------------------------------------
(* The merge timer *)

Card(p) == looking[party[p].owner]

\* The positions held in s and in r.
SeatsNow(s, r) ==
    [u \in Users |-> IF u \in Members(s) THEN member[s][u].seat
                     ELSE IF u \in Members(r) THEN member[r][u].seat ELSE None]

\* Everyone in q has a position, as it was read, that p's captain asks for.
Wants(p, q, seats) ==
    /\ Card(p).for = p
    /\ \A u \in Members(q) : seats[u] \in Card(p).roles

Open(p, fresh) ==
    /\ Live(p) /\ party[p].joinMode = "OPEN" /\ (~party[p].due \/ p \in fresh)
    /\ invite[p] = Nobody /\ party[p].owner \in Members(p)

\* planDotaPartyMerge: the older party survives.  Expiry is judged by the time of listing.
Compatible(s, r, fresh, seats) ==
    /\ s < r /\ Open(s, fresh) /\ Open(r, fresh)
    /\ Members(s) \cap Members(r) = {}
    /\ Cardinality(Members(s) \cup Members(r)) <= MaxMembers
    /\ \A u \in Members(s) : block[r][u] = None
    /\ \A u \in Members(r) : block[s][u] = None
    /\ Wants(s, r, seats) /\ Wants(r, s, seats)
    /\ \A u \in Members(s), v \in Members(r) : seats[u] # seats[v]

Fresh == {p \in Parties : ~party[p].due}

\* runRecruitPartyMergeSafely plans on what it has listed and draws a captain.
BeginMerge(s, r, leader) ==
    /\ pass = NoPass
    /\ Compatible(s, r, Fresh, SeatsNow(s, r)) /\ leader \in {party[s].owner, party[r].owner}
    /\ pass' = [NoPass EXCEPT !.survivor = s, !.retired = r, !.leader = leader, !.fresh = Fresh]
    /\ UNCHANGED <<rosters, letters, looking, request, sweep>>

\* Mutant: the plan is carried out as it was drawn up.
PlanStandsAsRead(seats) == Live(pass.survivor) /\ Live(pass.retired)

\* mergeRecruitingPartiesAtomically plans again under the locks of the players and of the
\* parties' rows.
PlanStands(seats) ==
    /\ Compatible(pass.survivor, pass.retired, pass.fresh, seats)
    /\ pass.leader \in {party[pass.survivor].owner, party[pass.retired].owner}

ReadForMerge ==
    LET seats == SeatsNow(pass.survivor, pass.retired)
    IN  /\ pass # NoPass /\ pass.seats = Nobody
        /\ PlanStands(seats)
        /\ pass' = [pass EXCEPT !.seats = seats]
        /\ UNCHANGED <<rosters, letters, looking, request, sweep>>

\* Mutant: the survivor's captain is not demoted.
MergedRostersTwoCaptains(s, r, leader) ==
    [member EXCEPT ![r] = Nobody, ![s] = [u \in Users |->
        LET m == IF member[r][u] # None THEN [member[r][u] EXCEPT !.rank = "MEMBER"]
                 ELSE member[s][u]
        IN  IF u = leader THEN [m EXCEPT !.rank = "OWNER"] ELSE m]]

MergedRosters(s, r, leader) ==
    [member EXCEPT ![r] = Nobody, ![s] = [u \in Users |->
        LET m == IF member[r][u] # None THEN [member[r][u] EXCEPT !.rank = "MEMBER"]
                 ELSE member[s][u]
        IN  IF m = None THEN None
            ELSE IF u = leader THEN [m EXCEPT !.rank = "OWNER"]
            ELSE IF m.rank = "OWNER" THEN [m EXCEPT !.rank = "MEMBER"]
            ELSE m]]

\* Mutant: the retired party's blocks go with it.
BlocksDropped(s, r) == [block EXCEPT ![r] = Nobody]

\* The blocks of outsiders move to the survivor, where a kick outweighs a departure.
MergedBlocks(s, r) ==
    [block EXCEPT ![r] = Nobody, ![s] = [u \in Users |->
        IF u \in Members(s) \cup Members(r) THEN None
        ELSE IF "kicked" \in {block[s][u], block[r][u]} THEN "kicked"
        ELSE IF block[s][u] # None THEN block[s][u] ELSE block[r][u]]]

Redirected(s, r) == {r} \cup {p \in Parties : party[p].into = r}

MergedRows(s, r, leader) ==
    LET due == party[s].due /\ party[r].due
    IN  [p \in Parties |->
           LET row == IF p = s THEN [party[s] EXCEPT !.owner = leader, !.due = due]
                      ELSE IF p = r THEN [party[r] EXCEPT !.state = "merged", !.due = due,
                                                          !.joinMode = "CONFIRM"]
                      ELSE party[p]
           IN  IF p \in Redirected(s, r) THEN [row EXCEPT !.into = s] ELSE row]

\* The merger writes.  The locks keep all that it has read but the positions, which
\* updateMemberPositionRole writes under no lock: what they keep is looked up here, the
\* positions are as read.  The index refuses a position taken twice.
CommitMerge ==
    LET s == pass.survivor
        r == pass.retired
        wanted == (Card(s).roles \cup Card(r).roles)
                     \ {pass.seats[u] : u \in Members(s) \cup Members(r)}
    IN  /\ pass # NoPass /\ pass.seats # Nobody /\ PlanStands(pass.seats)
        /\ Seats(s) \cap Seats(r) = {}
        /\ party' = MergedRows(s, r, pass.leader)
        /\ member' = MergedRosters(s, r, pass.leader)
        /\ block' = MergedBlocks(s, r)
        /\ looking' = [u \in Users |->
               IF u = pass.leader /\ wanted # {} THEN [for |-> s, roles |-> wanted]
               ELSE IF u \in {party[s].owner, party[r].owner} THEN NotLooking
               ELSE looking[u]]
        /\ pass' = NoPass
        /\ UNCHANGED <<letters, request, sweep>>

\* The plan has changed, another instance holds the lock, or the server stops.
PassEnds ==
    /\ pass # NoPass /\ pass' = NoPass
    /\ UNCHANGED <<rosters, letters, looking, request, sweep>>

-----------------------------------------------------------------------------
(* Expiry *)

Expire(p) ==
    /\ Exists(p) /\ ~party[p].due
    /\ party' = [party EXCEPT ![p].due = TRUE]
    /\ UNCHANGED <<member, block, letters, looking, request, timers>>

\* runCleanupSafely and purgeExpiredParty find parties that have expired ...
ListExpired(ps) ==
    /\ ps # {} /\ \A p \in Parties : sweep[p] = None
    /\ \A p \in ps : Exists(p) /\ party[p].due
    /\ sweep' = [p \in Parties |-> IF p \in ps THEN party[p].owner ELSE None]
    /\ UNCHANGED <<rosters, letters, looking, request, pass>>

\* ... and delete the rows, whatever they have become, and their owners' cards.
FinishSweep ==
    LET ps == {p \in Parties : sweep[p] # None}
    IN  /\ ps # {}
        /\ Delete({p \in ps : Exists(p)})
        /\ looking' = [u \in Users |->
               IF \E p \in ps : sweep[p] = u /\ looking[u].for = p THEN NotLooking
               ELSE looking[u]]
        /\ sweep' = [p \in Parties |-> None]
        /\ UNCHANGED <<request, pass>>

-----------------------------------------------------------------------------

RosterStep ==
    \E u \in Users, p \in Parties :
        \/ CreateParty(u, p) \/ BeginLeave(u, p)
        \/ \E v \in Users : BeginKick(u, p, v) \/ \E rank \in Ranks : BeginRank(u, p, v, rank)
        \/ \E s \in Positions \cup {None} : BeginSeat(u, p, s)

EntryStep ==
    \E u \in Users, p \in Parties :
        \/ \E s \in Positions \cup {None}, how \in {"automatic", "card", "link"} :
              BeginJoin(u, p, s, how) \/ BeginApply(u, p, s, how)
        \/ \E v \in Users, s \in Positions \cup {None}, how \in {"automatic", "link"} :
              BeginInvite(u, p, v, s, how)
        \/ TurnAway(u, p)
        \/ \E v \in Users : BeginAccept(u, p, v) \/ DeclineInvite(u, p, v)
        \/ InviteLapses(p, u)

SettingStep ==
    \E u \in Users, p \in Parties :
        \/ \E mode \in Modes : BeginMode(u, p, mode)
        \/ BeginExtend(u, p) \/ BeginDisband(u, p)
        \/ \E chosen \in SUBSET Positions, on \in BOOLEAN : BeginRecruit(u, p, chosen, on)

SearchStep ==
    \/ \E u \in Users : LookForParty(u) \/ StopLooking(u)
    \/ \E p \in Parties, group \in SUBSET {u \in Users : looking[u].for = Solo} :
          \E lineup \in [group -> Positions], leader \in group :
              AutoMatch(p, group, lineup, leader)

RequestStep ==
    \E u \in Users :
        \/ Join(u) \/ Accept(u) \/ Settle(u) \/ Refresh(u) \/ Clear(u) \/ CreateInvite(u)
        \/ Remove(u) \/ ChangeRank(u) \/ Seat(u) \/ Close(u) \/ SetMode(u) \/ Extend(u)
        \/ Recruit(u) \/ Disband(u) \/ Dissolve(u) \/ GiveUp(u)

TimerStep ==
    \/ \E s, r \in Parties, leader \in Users : BeginMerge(s, r, leader)
    \/ ReadForMerge \/ CommitMerge \/ PassEnds \/ FinishSweep
    \/ \E p \in Parties : Expire(p)
    \/ \E ps \in SUBSET Parties : ListExpired(ps)

Next == RosterStep \/ EntryStep \/ SettingStep \/ SearchStep \/ RequestStep \/ TimerStep

Spec == Init /\ [][Next]_vars

-----------------------------------------------------------------------------
(* Correctness *)

\* However joins, acceptances, seat changes and mergers interleave, a roster stays within
\* its size and nobody shares a position (addMemberAtomically, acceptInviteAtomically,
\* updateMyPosition, mergeRecruitingPartiesAtomically).
RostersFit ==
    \A p \in Parties :
        /\ Cardinality(Members(p)) <= MaxMembers
        /\ \A u, v \in Members(p) :
              u # v /\ member[p][u].seat # None => member[p][u].seat # member[p][v].seat

\* A live party is led by a member and by nobody else, whatever leaves, kicks, promotions
\* and mergers were decided on older rosters (leaveParty, kickMember, updateMemberRole).
CaptainLeads ==
    \A p \in Parties : Live(p) =>
        \A u \in Users :
            Captain(p, u) <=> u \in Members(p) /\ member[p][u].rank = "OWNER"

\* A player who was kicked is not back inside through a call that began before the kick
\* (removeMemberAndBlockJoinAtomically against addMemberAtomically and a merger).
KickedStayOut ==
    \A p \in Parties, u \in Users : block[p][u] = "kicked" => u \notin Members(p)

\* The party that a link to p leads to after this step.
Heir(p) == IF party'[p].state = "merged" THEN party'[p].into ELSE p

\* A kick holds until an invitation takes the player back, also in the party that a merger
\* turns this one into (game_party_join_blocks in mergeRecruitingPartiesAtomically).
KicksOutliveMergers ==
    [][\A p \in Parties, u \in Users : block[p][u] = "kicked" =>
         \/ block'[Heir(p)][u] = "kicked" \/ party'[Heir(p)].state = "deleted"
         \/ invite[p][u] # None /\ invite[p][u].kind = "INVITE" /\ u \in Members(p)']_vars

\* The captain of p asks for the position of everyone in q who has kept it since it was read.
Asks(p, q) ==
    \A u \in Members(q) : \/ Card(p).for = p /\ member[q][u].seat \in Card(p).roles
                         \/ member[q][u].seat # pass.seats[u]

\* When parties merge, at that moment no invitation is pending and both are open, one of
\* the two captains leads, and everyone keeps the position held.  Each captain asks for
\* every incoming position, unless its holder has changed it since the merger read it
\* under its locks (planDotaPartyMerge; updateMemberPositionRole takes none of them).
MergesAreMutual ==
    [][\A r \in Parties : Live(r) /\ party'[r].state = "merged" =>
         LET s == party'[r].into
         IN  /\ party[s].owner # party[r].owner /\ Asks(s, r) /\ Asks(r, s)
             /\ \A p \in {s, r} : party[p].joinMode = "OPEN" /\ invite[p] = Nobody
             /\ party'[s].owner \in {party[s].owner, party[r].owner}
             /\ \A p \in {s, r} : \A u \in Members(p) :
                   member'[s][u] # None /\ member'[s][u].seat = member[p][u].seat]_vars

\* A retired party holds nobody back: no member, no pending letter, no block, and its
\* link leads to a party that has not been merged itself (createInvite, acceptInvite,
\* findByVerticalAndSlugFollowingMerges).
NobodyWaitsAtAMergedParty ==
    \A p \in Parties : party[p].state = "merged" =>
        /\ member[p] = Nobody /\ invite[p] = Nobody /\ block[p] = Nobody
        /\ party[party[p].into].state # "merged"
=============================================================================
