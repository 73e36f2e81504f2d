---------------------------- MODULE Parties_proofs ----------------------------
(***************************************************************************)
(* Proofs that, for any number of players, positions and parties and for   *)
(* any roster size, rosters fit, captains lead, kicks hold against calls   *)
(* under way and against mergers, and nobody waits at a retired party.     *)
(***************************************************************************)
EXTENDS Parties, FiniteSetTheorems, TLAPS

-----------------------------------------------------------------------------
(* Types, by table *)

Rows == [state : {"new", "live", "merged", "deleted"}, owner : Users \cup {None},
         joinMode : Modes, into : Parties \cup {None}, due : BOOLEAN]
Cards == [for : Parties \cup {Solo, None}, roles : SUBSET Positions]

RostersType ==
    /\ party \in [Parties -> Rows]
    /\ member \in [Parties -> [Users -> Memberships \cup {None}]]
    /\ block \in [Parties -> [Users -> {"left", "kicked", None}]]
InviteTables == [Parties -> [Users -> Invites \cup {None}]]

LettersType ==
    /\ invite \in InviteTables
    /\ declined \in [Parties -> [Users -> SUBSET Kinds]]
LookingType == looking \in [Users -> Cards]

\* What a call is about, by its next step.
Formed ==
    {r \in Requests :
        /\ r.step # "idle" => r.party \in Parties
        /\ r.step \in {"join", "accept", "invite", "remove", "rank", "settle"} => r.target \in Users
        /\ r.step \in {"accept", "invite"} => r.what \in Kinds
        /\ r.step = "remove" => r.what \in {"left", "kicked"}
        /\ r.step = "rank" => r.what \in {"OFFICER", "MEMBER"}
        /\ r.step = "mode" => r.what \in Modes}
RequestType == request \in [Users -> Formed]
TimersType ==
    /\ pass # NoPass =>
          pass \in [survivor : Parties, retired : Parties, leader : Users,
                    fresh : SUBSET Parties, seats : [Users -> Positions \cup {None}]]
    /\ sweep \in [Parties -> Users \cup {None}]

\* A party that is not yet or no longer there has no rows.
AbsentIsEmpty ==
    \A p \in Parties : party[p].state \in {"new", "deleted"} =>
        party[p].owner = None /\ member[p] = Nobody /\ block[p] = Nobody /\ invite[p] = Nobody

\* Type correctness, with what the steps of a call rely on.
TypeInv ==
    RostersType /\ LettersType /\ LookingType /\ RequestType /\ TimersType /\ AbsentIsEmpty

LEMMA TypeInvTypes == TypeInv => TypeOK
<1> SUFFICES ASSUME TypeInv PROVE TypeOK
  OBVIOUS
<1>1. pass \in [survivor : Parties \cup {None}, retired : Parties \cup {None},
               leader : Users \cup {None}, fresh : SUBSET Parties,
               seats : [Users -> Positions \cup {None}]]
  <2>1. CASE pass = NoPass
    BY <2>1 DEF NoPass, Nobody
  <2>2. CASE pass # NoPass
    BY <2>2 DEF TypeInv, TimersType
  <2> QED
    BY <2>1, <2>2
<1>2. request \in [Users -> Requests]
  BY DEF TypeInv, RequestType, Formed
<1> QED
  BY <1>1, <1>2 DEF TypeInv, TypeOK, RostersType, InviteTables, LettersType, LookingType,
                    TimersType, AbsentIsEmpty, Rows, Cards

\* The initial states have their types.
LEMMA TypeInit == Init => TypeInv
<1> SUFFICES ASSUME Init PROVE TypeInv
  OBVIOUS
<1>1. RostersType
  BY DEF Init, RostersType, Rows, Modes, Nobody
<1>2. LettersType /\ LookingType /\ TimersType
  BY DEF Init, LettersType, InviteTables, LookingType, TimersType, Nobody, Cards, NotLooking, NoPass
<1>3. RequestType
  BY DEF Init, RequestType, Formed, Requests, Idle, Steps
<1>4. AbsentIsEmpty
  BY DEF Init, AbsentIsEmpty
<1> QED
  BY <1>1, <1>2, <1>3, <1>4 DEF TypeInv

\* A call moves on, ends or begins as a call.
LEMMA RequestMoves ==
    ASSUME RequestType, NEW u \in Users
    PROVE  /\ Finish(u) => RequestType'
           /\ \A step \in {"refresh", "clear", "close", "dissolve"} :
                 request[u].step # "idle" /\ Continue(u, step) => RequestType'
           /\ request[u].step \in {"join", "accept"} /\ Continue(u, "settle") => RequestType'
           /\ \A r \in Formed : Begin(u, r) => RequestType'
<1>1. Idle \in Formed
  BY DEF Idle, Formed, Requests, Steps
<1>2. ASSUME NEW r \in Formed, request' = [request EXCEPT ![u] = r]
      PROVE  RequestType'
  BY <1>2 DEF RequestType
<1>3. ASSUME NEW step \in {"refresh", "clear", "close", "dissolve"}, request[u].step # "idle"
      PROVE  [request[u] EXCEPT !.step = step] \in Formed
  BY <1>3 DEF RequestType, Formed, Requests, Steps
<1>4. ASSUME request[u].step \in {"join", "accept"}
      PROVE  [request[u] EXCEPT !.step = "settle"] \in Formed
  BY <1>4 DEF RequestType, Formed, Requests, Steps
<1> QED
  BY <1>1, <1>2, <1>3, <1>4 DEF Finish, Continue, Begin

\* Closing invitations keeps the table, and closes none at a party that has none.
Empties(before, after) == \A q \in Parties : before[q] = Nobody => after[q] = Nobody

LEMMA CancelledType ==
    ASSUME NEW table \in InviteTables, NEW p \in Parties, NEW kept
    PROVE  Cancelled(table, p, kept) \in InviteTables /\ Empties(table, Cancelled(table, p, kept))
BY DEF Cancelled, Nobody, InviteTables, Empties

LEMMA AllCancelledType ==
    ASSUME NEW table \in InviteTables, NEW p \in Parties
    PROVE  AllCancelled(table, p) \in InviteTables /\ Empties(table, AllCancelled(table, p))
BY CancelledType DEF AllCancelled

LEMMA SeatClosedType ==
    ASSUME NEW table \in InviteTables, NEW p \in Parties, NEW s
    PROVE  SeatClosed(table, p, s) \in InviteTables /\ Empties(table, SeatClosed(table, p, s))
BY CancelledType DEF SeatClosed

LEMMA ApplicationsCancelledType ==
    ASSUME NEW table \in InviteTables, NEW u
    PROVE  /\ ApplicationsCancelled(table, u) \in InviteTables
           /\ Empties(table, ApplicationsCancelled(table, u))
BY DEF ApplicationsCancelled, Nobody, InviteTables, Empties

\* Declined invitations keep their table.
LEMMA DeclinesType ==
    ASSUME LettersType, NEW p \in Parties, NEW vs,
           \A v \in vs \cap Users : invite[p][v] # None
    PROVE  MarkedDeclined(p, vs) \in [Parties -> [Users -> SUBSET Kinds]]
<1>1. \A v \in vs \cap Users : invite[p][v].kind \in Kinds
  BY DEF LettersType, Invites, InviteTables
<1> QED
  BY <1>1 DEF LettersType, MarkedDeclined

\* Deleting rows keeps the tables and empties them.
LEMMA DeleteType ==
    ASSUME RostersType, LettersType, AbsentIsEmpty, NEW ps, Delete(ps)
    PROVE  RostersType' /\ LettersType' /\ AbsentIsEmpty'
<1>1. RostersType'
  BY DEF RostersType, Delete, Rows, Modes, Nobody
<1>2. LettersType'
  BY DEF LettersType, InviteTables, Delete, Nobody
<1>3. AbsentIsEmpty'
  BY DEF AbsentIsEmpty, Delete, Nobody
<1> QED
  BY <1>1, <1>2, <1>3

-----------------------------------------------------------------------------
(* Type correctness, step by step *)

\* Calls that have only begun: they write at most what closes invitations.
LEMMA BeginType ==
    ASSUME TypeInv, NEW u \in Users, NEW p \in Parties,
           NEW v \in Users, NEW s \in Positions \cup {None}
    PROVE  /\ \A how \in {"automatic", "card", "link"} :
                 BeginJoin(u, p, s, how) \/ BeginApply(u, p, s, how) => TypeInv'
           /\ \A how \in {"automatic", "link"} : BeginInvite(u, p, v, s, how) => TypeInv'
           /\ BeginLeave(u, p) \/ BeginKick(u, p, v) \/ BeginSeat(u, p, s) => TypeInv'
           /\ \A rank \in Ranks : BeginRank(u, p, v, rank) => TypeInv'
           /\ \A mode \in Modes : BeginMode(u, p, mode) => TypeInv'
           /\ BeginExtend(u, p) \/ BeginDisband(u, p) => TypeInv'
           /\ \A chosen \in SUBSET Positions, on \in BOOLEAN :
                 BeginRecruit(u, p, chosen, on) => TypeInv'
<1>0. RostersType /\ LettersType /\ LookingType /\ RequestType /\ TimersType /\ AbsentIsEmpty
  BY DEF TypeInv
<1> DEFINE Starts == /\ UNCHANGED <<rosters, letters, looking, timers>>
                     /\ \E r \in Formed : Begin(u, r)
<1>1. Starts => TypeInv'
  <2> SUFFICES ASSUME Starts PROVE TypeInv'
    OBVIOUS
  <2>1. RequestType'
    BY <1>0, RequestMoves
  <2>2. RostersType' /\ LettersType' /\ LookingType' /\ TimersType' /\ AbsentIsEmpty'
    BY <1>0 DEF rosters, letters, timers, RostersType, LettersType, LookingType, TimersType,
           AbsentIsEmpty
  <2> QED
    BY <1>0, <2>1, <2>2 DEF TypeInv
<1>2. party[p].owner \in Users \cup {None}
  BY <1>0 DEF RostersType, Rows
<1>3. ASSUME NEW how \in {"automatic", "card", "link"}
      PROVE  BeginJoin(u, p, s, how) \/ BeginApply(u, p, s, how) => Starts
  BY <1>2 DEF BeginJoin, BeginApply, Idle, Formed, Requests, Steps, Kinds
<1>4. ASSUME NEW how \in {"automatic", "link"}
      PROVE  BeginInvite(u, p, v, s, how) => Starts
  BY <1>2 DEF BeginInvite, Idle, Formed, Requests, Steps, Kinds, Members
<1>5. BeginLeave(u, p) \/ BeginKick(u, p, v) \/ BeginSeat(u, p, s) => Starts
  BY <1>2 DEF BeginLeave, BeginKick, BeginSeat, Idle, Formed, Requests, Steps
<1>6. \A rank \in Ranks : BeginRank(u, p, v, rank) => Starts
  BY DEF BeginRank, Idle, Formed, Requests, Steps, Ranks
<1>7. \A mode \in Modes : BeginMode(u, p, mode) => Starts
  BY DEF BeginMode, Idle, Formed, Requests, Steps
<1>8. BeginExtend(u, p) \/ BeginDisband(u, p) => Starts
  BY DEF BeginExtend, BeginDisband, Idle, Formed, Requests, Steps
<1>9. ASSUME NEW chosen \in SUBSET Positions, NEW on \in BOOLEAN
      PROVE  BeginRecruit(u, p, chosen, on) => Starts
  BY <1>2 DEF BeginRecruit, Idle, Formed, Requests, Steps
<1> HIDE DEF Starts
<1> QED
  BY <1>1, <1>3, <1>4, <1>5, <1>6, <1>7, <1>8, <1>9

\* The calls that begin or go on with what was just read.
LEMMA AcceptCall ==
    ASSUME NEW p \in Parties, NEW v \in Users, NEW c \in Users \cup {None},
           NEW s \in Positions \cup {None}, NEW k \in Kinds
    PROVE  [Idle EXCEPT !.step = "accept", !.party = p, !.captain = c, !.target = v,
                        !.seat = s, !.what = k] \in Formed
BY DEF Idle, Formed, Requests, Steps

LEMMA RefreshCall ==
    ASSUME NEW p \in Parties, NEW c \in Users \cup {None}
    PROVE  [Idle EXCEPT !.step = "refresh", !.party = p, !.captain = c] \in Formed
BY DEF Idle, Formed, Requests, Steps

\* Invitations are turned away, answered, or lapse.
LEMMA LetterStepType ==
    ASSUME TypeInv, NEW u \in Users, NEW p \in Parties, NEW v \in Users
    PROVE  /\ TurnAway(u, p) \/ BeginAccept(u, p, v) \/ DeclineInvite(u, p, v) => TypeInv'
           /\ InviteLapses(p, v) => TypeInv'
<1>0. RostersType /\ LettersType /\ LookingType /\ RequestType /\ TimersType /\ AbsentIsEmpty
  BY DEF TypeInv
<1>a. party[p].owner \in Users \cup {None}
  BY <1>0 DEF RostersType, Rows
<1>1. ASSUME UNCHANGED rosters, UNCHANGED letters
      PROVE  RostersType' /\ LettersType' /\ AbsentIsEmpty'
  BY <1>0, <1>1 DEF rosters, letters, RostersType, LettersType, AbsentIsEmpty
<1>2. UNCHANGED timers => TimersType'
  BY <1>0 DEF timers, TimersType
<1>3. UNCHANGED looking => LookingType'
  BY <1>0 DEF LookingType
<1>4. UNCHANGED request => RequestType'
  BY <1>0 DEF RequestType
<1>5. ASSUME UNCHANGED rosters, UNCHANGED declined,
             invite' \in InviteTables, Empties(invite, invite')
      PROVE  RostersType' /\ LettersType' /\ AbsentIsEmpty'
  BY <1>0, <1>5 DEF rosters, RostersType, LettersType, AbsentIsEmpty, Empties
<1>6. ASSUME TurnAway(u, p) PROVE TypeInv'
  <2>1. invite' = AllCancelled(invite, p) /\ UNCHANGED <<rosters, declined, looking, request, timers>>
    BY <1>6 DEF TurnAway
  <2>2. RostersType' /\ LettersType' /\ AbsentIsEmpty'
    BY <2>1, <1>0, <1>5, AllCancelledType DEF LettersType
  <2> QED
    BY <2>1, <2>2, <1>2, <1>3, <1>4 DEF TypeInv
<1>7. ASSUME BeginAccept(u, p, v) PROVE TypeInv'
  <2>1. UNCHANGED <<rosters, declined, looking, timers>> /\ invite[p][v] # None
    BY <1>7 DEF BeginAccept
  <2>2. \/ UNCHANGED invite
        \/ invite' = AllCancelled(invite, p) /\ UNCHANGED request
        \/ invite' = SeatClosed(invite, p, invite[p][v].seat) /\ UNCHANGED request
    BY <1>7 DEF BeginAccept
  <2>3. RostersType' /\ LettersType' /\ AbsentIsEmpty'
    <3>1. UNCHANGED rosters /\ UNCHANGED declined
      BY <2>1
    <3>2. CASE UNCHANGED invite
      BY <3>1, <3>2, <1>1 DEF letters
    <3>3. CASE invite' = AllCancelled(invite, p)
      BY <3>1, <3>3, <1>0, <1>5, AllCancelledType DEF LettersType
    <3>4. CASE invite' = SeatClosed(invite, p, invite[p][v].seat)
      BY <3>1, <3>4, <1>0, <1>5, SeatClosedType DEF LettersType
    <3> QED
      BY <2>2, <3>2, <3>3, <3>4
  <2>4. invite[p][v].seat \in Positions \cup {None} /\ invite[p][v].kind \in Kinds
    BY <2>1, <1>0 DEF LettersType, Invites, InviteTables
  <2>5. RequestType'
    <3>1. CASE Room(p, invite[p][v].seat)
      <4> DEFINE r == [Idle EXCEPT !.step = "accept", !.party = p,
                                   !.captain = party[p].owner, !.target = v,
                                   !.seat = invite[p][v].seat, !.what = invite[p][v].kind]
      <4>1. Begin(u, r)
        BY <1>7, <3>1 DEF BeginAccept
      <4>2. r \in Formed
        BY <2>4, <1>a, AcceptCall
      <4> QED
        BY <4>1, <4>2, <1>0, RequestMoves
    <3>2. CASE ~Room(p, invite[p][v].seat)
      BY <1>7, <3>2, <1>4 DEF BeginAccept
    <3> QED
      BY <3>1, <3>2
  <2> QED
    BY <2>1, <2>3, <2>5, <1>2, <1>3 DEF TypeInv
<1>8. ASSUME DeclineInvite(u, p, v) \/ InviteLapses(p, v) PROVE TypeInv'
  <2>1. /\ invite' = [invite EXCEPT ![p][v] = None] /\ invite[p][v] # None
        /\ UNCHANGED <<rosters, looking, request, timers>>
    BY <1>8 DEF DeclineInvite, InviteLapses
  <2>2. declined' \in [Parties -> [Users -> SUBSET Kinds]]
    <3>1. declined' = declined \/ declined' = MarkedDeclined(p, {v})
      BY <1>8 DEF DeclineInvite, InviteLapses
    <3> QED
      BY <3>1, <2>1, <1>0, DeclinesType DEF LettersType
  <2>3. LettersType'
    BY <2>1, <2>2, <1>0 DEF LettersType, InviteTables
  <2>4. RostersType' /\ AbsentIsEmpty'
    BY <2>1, <1>0 DEF RostersType, AbsentIsEmpty, rosters, LettersType, Nobody
  <2> QED
    BY <2>1, <2>3, <2>4, <1>2, <1>3, <1>4 DEF TypeInv
<1> QED
  BY <1>6, <1>7, <1>8

\* A call writes invitations or cards.
LEMMA CallType ==
    ASSUME TypeInv, NEW u \in Users
    PROVE  /\ LookForParty(u) \/ StopLooking(u) => TypeInv'
           /\ CreateInvite(u) \/ Close(u) \/ Disband(u) => TypeInv'
           /\ Settle(u) \/ Refresh(u) \/ Clear(u) \/ Recruit(u) \/ GiveUp(u) => TypeInv'
<1>0. RostersType /\ LettersType /\ LookingType /\ RequestType /\ TimersType /\ AbsentIsEmpty
  BY DEF TypeInv
<1> DEFINE q == request[u].party
<1>a. /\ request[u] \in Formed /\ q \in Parties \cup {None} /\ NotLooking \in Cards
      /\ \A r \in Parties : party[r].owner \in Users \cup {None}
  BY <1>0 DEF RequestType, Formed, Requests, NotLooking, Cards, RostersType, Rows
<1>1. ASSUME UNCHANGED rosters, UNCHANGED letters
      PROVE  RostersType' /\ LettersType' /\ AbsentIsEmpty'
  BY <1>0, <1>1 DEF rosters, letters, RostersType, LettersType, AbsentIsEmpty
<1>2. UNCHANGED timers => TimersType'
  BY <1>0 DEF timers, TimersType
<1>3. UNCHANGED looking => LookingType'
  BY <1>0 DEF LookingType
<1>4. UNCHANGED request => RequestType'
  BY <1>0 DEF RequestType
<1>5. ASSUME LookForParty(u) \/ StopLooking(u) PROVE TypeInv'
  <2>1. LookingType'
    BY <1>0, <1>5 DEF LookForParty, StopLooking, LookingType, NotLooking, Cards
  <2> QED
    BY <2>1, <1>1, <1>2, <1>4, <1>5 DEF TypeInv, LookForParty, StopLooking
<1>6. ASSUME UNCHANGED rosters, UNCHANGED declined,
             invite' \in InviteTables, Empties(invite, invite')
      PROVE  RostersType' /\ LettersType' /\ AbsentIsEmpty'
  BY <1>0, <1>6 DEF rosters, RostersType, LettersType, AbsentIsEmpty, Empties
<1>7. ASSUME CreateInvite(u) PROVE TypeInv'
  <2>1. /\ invite' = [invite EXCEPT ![q][request[u].target] =
                        [kind |-> request[u].what, seat |-> request[u].seat]]
        /\ UNCHANGED <<rosters, declined, looking, timers>>
        /\ Finish(u) \/ Continue(u, "refresh")
    BY <1>7 DEF CreateInvite, Invitable
  <2>2. request[u].step = "invite" /\ Live(q)
    BY <1>7 DEF CreateInvite, Invitable, At
  <2>3. q \in Parties /\ request[u].what \in Kinds /\ request[u].seat \in Positions \cup {None}
    BY <2>2, <1>a DEF Formed, Requests
  <2>4. RequestType'
    BY <2>1, <2>2, <1>0, RequestMoves
  <2>5. LettersType'
    BY <2>1, <2>3, <1>0 DEF LettersType, Invites, InviteTables
  <2>6. RostersType' /\ AbsentIsEmpty'
    BY <2>1, <2>2, <2>3, <1>0 DEF RostersType, AbsentIsEmpty, rosters, LettersType, Live
  <2> QED
    BY <2>1, <2>4, <2>5, <2>6, <1>2, <1>3 DEF TypeInv
<1>8. ASSUME Close(u) PROVE TypeInv'
  <2>1. /\ invite' = SeatClosed(invite, q, request[u].seat)
        /\ declined' = MarkedDeclined(q, ForSeat(q, request[u].seat))
        /\ request[u].step = "close" /\ Continue(u, "refresh")
        /\ UNCHANGED <<rosters, looking, timers>>
    BY <1>8 DEF Close, At
  <2>2. q \in Parties
    BY <2>1, <1>a DEF Formed
  <2>3. declined' \in [Parties -> [Users -> SUBSET Kinds]]
    BY <2>1, <2>2, <1>0, DeclinesType DEF ForSeat
  <2>4. invite' \in InviteTables /\ Empties(invite, invite')
    BY <2>1, <2>2, <1>0, SeatClosedType DEF LettersType
  <2>5. RequestType'
    BY <2>1, <1>0, RequestMoves
  <2>6. RostersType' /\ LettersType' /\ AbsentIsEmpty'
    BY <2>1, <2>3, <2>4, <1>0 DEF RostersType, LettersType, AbsentIsEmpty, rosters, Empties
  <2> QED
    BY <2>1, <2>5, <2>6, <1>2, <1>3 DEF TypeInv
<1>9. ASSUME Disband(u) PROVE TypeInv'
  <2>1. /\ invite' = AllCancelled(invite, q)
        /\ request[u].step = "disband" /\ Continue(u, "dissolve")
        /\ UNCHANGED <<rosters, declined, looking, timers>>
    BY <1>9 DEF Disband, At
  <2>2. q \in Parties
    BY <2>1, <1>a DEF Formed
  <2>3. RequestType'
    BY <2>1, <1>0, RequestMoves
  <2>4. RostersType' /\ LettersType' /\ AbsentIsEmpty'
    BY <2>1, <2>2, <1>0, <1>6, AllCancelledType DEF LettersType
  <2> QED
    BY <2>1, <2>3, <2>4, <1>2, <1>3 DEF TypeInv
<1>10. ASSUME Settle(u) PROVE TypeInv'
  <2>1. /\ request[u].step = "settle"
        /\ looking' = [looking EXCEPT ![request[u].target] = NotLooking]
        /\ UNCHANGED <<rosters, declined, timers>>
    BY <1>10 DEF Settle, At
  <2>2. q \in Parties
    BY <2>1, <1>a DEF Formed
  <2>3. \/ UNCHANGED invite
        \/ invite' = AllCancelled(invite, q)
        \/ invite' = SeatClosed(invite, q, request[u].seat)
    BY <1>10 DEF Settle
  <2>4. RostersType' /\ LettersType' /\ AbsentIsEmpty'
    <3>1. UNCHANGED rosters /\ UNCHANGED declined
      BY <2>1
    <3>2. CASE UNCHANGED invite
      BY <3>1, <3>2, <1>1 DEF letters
    <3>3. CASE invite' = AllCancelled(invite, q)
      BY <3>1, <3>3, <2>2, <1>0, <1>6, AllCancelledType DEF LettersType
    <3>4. CASE invite' = SeatClosed(invite, q, request[u].seat)
      BY <3>1, <3>4, <2>2, <1>0, <1>6, SeatClosedType DEF LettersType
    <3> QED
      BY <2>3, <3>2, <3>3, <3>4
  <2>5. LookingType'
    BY <2>1, <1>0, <1>a DEF LookingType
  <2>6. RequestType'
    <3> DEFINE r == [Idle EXCEPT !.step = "refresh", !.party = q,
                        !.captain = IF request[u].how = "link" THEN party[q].owner
                                    ELSE request[u].captain]
    <3>1. Finish(u) \/ request' = [request EXCEPT ![u] = r]
      BY <1>10 DEF Settle
    <3>2. request[u].captain \in Users \cup {None} /\ party[q].owner \in Users \cup {None}
      BY <2>2, <1>a DEF Formed, Requests
    <3>3. r \in Formed
      BY <3>2, <2>2, RefreshCall
    <3> QED
      BY <3>1, <3>3, <1>0, RequestMoves DEF RequestType
  <2> QED
    BY <2>1, <2>4, <2>5, <2>6, <1>2 DEF TypeInv
<1>11. ASSUME Refresh(u) PROVE TypeInv'
  <2> DEFINE card == looking[request[u].captain]
             r == [request[u] EXCEPT !.step = "clear",
                                     !.party = IF Exists(q) THEN q ELSE card.for]
  <2>1. request[u].step = "refresh" /\ UNCHANGED <<rosters, letters, looking, timers>>
    BY <1>11 DEF Refresh, At
  <2>2. q \in Parties
    BY <2>1, <1>a DEF Formed
  <2>3. \/ Finish(u)
        \/ /\ card.for \in Parties
           /\ request' = [request EXCEPT ![u].step = "clear",
                                         ![u].party = IF Exists(q) THEN q ELSE card.for]
    BY <1>11 DEF Refresh
  <2>4. RequestType'
    <3>1. ASSUME NEW to \in Parties
          PROVE  [request[u] EXCEPT !.step = "clear", !.party = to] \in Formed
      BY <2>1, <1>a DEF Formed, Requests, Steps
    <3>2. card.for \in Parties => r \in Formed
      BY <3>1, <2>2
    <3> QED
      BY <2>3, <3>2, <1>0, RequestMoves DEF RequestType
  <2> QED
    BY <2>1, <2>4, <1>1, <1>2, <1>3 DEF TypeInv
<1>12. ASSUME Clear(u) \/ Recruit(u) PROVE TypeInv'
  <2>1. Finish(u) /\ UNCHANGED <<rosters, letters, timers>>
    BY <1>12 DEF Clear, Recruit
  <2>2. LookingType'
    <3>1. CASE Clear(u)
      BY <3>1, <1>0, <1>a DEF Clear, CardCleared, LookingType
    <3>2. CASE Recruit(u)
      <4>1. q \in Parties /\ request[u].roles \in SUBSET Positions
        BY <3>2, <1>a DEF Recruit, At, Formed, Requests
      <4>2. [for |-> q, roles |-> request[u].roles] \in Cards
        BY <4>1 DEF Cards
      <4> QED
        BY <3>2, <4>2, <1>0, <1>a DEF Recruit, LookingType
    <3> QED
      BY <1>12, <3>1, <3>2
  <2>3. RequestType'
    BY <2>1, <1>0, RequestMoves
  <2> QED
    BY <2>1, <2>2, <2>3, <1>1, <1>2 DEF TypeInv
<1>13. ASSUME GiveUp(u) PROVE TypeInv'
  <2>1. RequestType'
    BY <1>13, <1>0, RequestMoves DEF GiveUp
  <2> QED
    BY <2>1, <1>1, <1>2, <1>3, <1>13 DEF TypeInv, GiveUp
<1> QED
  BY <1>5, <1>7, <1>8, <1>9, <1>10, <1>11, <1>12, <1>13

LEMMA RankedMembership ==
    ASSUME NEW m \in Memberships, NEW rank \in Ranks
    PROVE  [m EXCEPT !.rank = rank] \in Memberships
BY DEF Memberships

LEMMA SeatedMembership ==
    ASSUME NEW m \in Memberships, NEW s \in Positions \cup {None}
    PROVE  [m EXCEPT !.seat = s] \in Memberships
BY DEF Memberships

\* A call writes rosters.
LEMMA RosterCallType ==
    ASSUME TypeInv, NEW u \in Users
    PROVE  /\ \A p \in Parties : CreateParty(u, p) => TypeInv'
           /\ Remove(u) \/ ChangeRank(u) \/ Seat(u) \/ SetMode(u) \/ Extend(u) => TypeInv'
           /\ Dissolve(u) => TypeInv'
<1>0. RostersType /\ LettersType /\ LookingType /\ RequestType /\ TimersType /\ AbsentIsEmpty
  BY DEF TypeInv
<1> DEFINE q == request[u].party
<1>a. request[u] \in Formed
  BY <1>0 DEF RequestType
<1>1. UNCHANGED timers => TimersType'
  BY <1>0 DEF timers, TimersType
<1>2. UNCHANGED looking => LookingType'
  BY <1>0 DEF LookingType
<1>3. UNCHANGED request => RequestType'
  BY <1>0 DEF RequestType
<1>4. UNCHANGED letters => LettersType'
  BY <1>0 DEF letters, LettersType
<1>5. ASSUME NEW p \in Parties, CreateParty(u, p) PROVE TypeInv'
  <2>1. /\ party' = [party EXCEPT ![p].state = "live", ![p].owner = u]
        /\ member' = [member EXCEPT ![p][u] = [rank |-> "OWNER", seat |-> None]]
        /\ UNCHANGED <<block, letters, looking, timers>>
    BY <1>5 DEF CreateParty, NewParty
  <2>2. RostersType'
    <3>1. [rank |-> "OWNER", seat |-> None] \in Memberships
      BY DEF Memberships, Ranks
    <3> QED
      BY <2>1, <3>1, <1>0, ZenonT(60) DEF RostersType, Rows
  <2>3. AbsentIsEmpty'
    BY <2>1, <1>0 DEF AbsentIsEmpty, RostersType, Rows, letters
  <2>4. [Idle EXCEPT !.step = "settle", !.party = p, !.captain = u, !.target = u] \in Formed
    BY DEF Idle, Formed, Requests, Steps
  <2>5. RequestType'
    BY <2>4, <1>5, <1>0, RequestMoves DEF CreateParty
  <2> QED
    BY <2>1, <2>2, <2>3, <2>5, <1>1, <1>2, <1>4 DEF TypeInv
<1>6. ASSUME SetMode(u) PROVE TypeInv'
  <2>1. request[u].step = "mode"
    BY <1>6 DEF SetMode, At
  <2>2. q \in Parties /\ request[u].what \in Modes
    BY <2>1, <1>a DEF Formed
  <2>3. RostersType'
    BY <1>6, <2>2, <1>0, ZenonT(60) DEF SetMode, RostersType, Rows
  <2>4. AbsentIsEmpty'
    BY <1>6, <2>2, <1>0 DEF SetMode, AbsentIsEmpty, RostersType, Rows, letters
  <2>5. RequestType'
    BY <1>6, <1>0, RequestMoves DEF SetMode
  <2> QED
    BY <2>3, <2>4, <2>5, <1>1, <1>2, <1>4, <1>6 DEF TypeInv, SetMode
<1>7. ASSUME Extend(u) PROVE TypeInv'
  <2>1. RostersType'
    BY <1>7, <1>0, ZenonT(60) DEF Extend, RostersType, Rows
  <2>2. \A x \in Parties : party'[x].state = party[x].state /\ party'[x].owner = party[x].owner
    BY <1>7, <1>0 DEF Extend, RostersType, Rows
  <2>3. AbsentIsEmpty'
    BY <1>7, <2>2, <1>0 DEF Extend, AbsentIsEmpty, letters
  <2>4. RequestType'
    BY <1>7, <1>0, RequestMoves DEF Extend
  <2> QED
    BY <2>1, <2>3, <2>4, <1>1, <1>2, <1>4, <1>7 DEF TypeInv, Extend
<1>8. ASSUME ChangeRank(u) \/ Seat(u) PROVE TypeInv'
  <2> DEFINE v == IF ChangeRank(u) THEN request[u].target ELSE u
  <2>1. request[u].step \in {"rank", "seat"} /\ UNCHANGED <<party, block, letters, looking, timers>>
    BY <1>8 DEF ChangeRank, Seat, At
  <2>2. q \in Parties /\ request[u].seat \in Positions \cup {None}
    BY <2>1, <1>a DEF Formed, Requests
  <2>3. PICK w \in Users, m \in Memberships :
           w \in Members(q) /\ member' = [member EXCEPT ![q][w] = m]
    <3>1. CASE ChangeRank(u)
      <4>1. request[u].target \in Members(q) /\ request[u].what \in Ranks
        BY <3>1, <1>a DEF ChangeRank, At, Formed, Ranks
      <4>2. [member[q][request[u].target] EXCEPT !.rank = request[u].what] \in Memberships
        BY <4>1, <2>2, <1>0, RankedMembership DEF RostersType, Members
      <4> QED
        BY <3>1, <4>1, <4>2 DEF ChangeRank, Members
    <3>2. CASE Seat(u)
      <4>1. u \in Members(q) /\ member[q][u] \in Memberships
        BY <3>2, <2>2, <1>0 DEF Seat, RostersType, Members
      <4>2. [member[q][u] EXCEPT !.seat = request[u].seat] \in Memberships
        BY <4>1, <2>2, SeatedMembership
      <4> QED
        BY <3>2, <4>1, <4>2 DEF Seat
    <3> QED
      BY <1>8, <3>1, <3>2
  <2>4. RostersType'
    BY <2>1, <2>2, <2>3, <1>0 DEF RostersType
  <2>5. AbsentIsEmpty'
    BY <2>1, <2>2, <2>3, <1>0 DEF AbsentIsEmpty, RostersType, letters, Members, Nobody
  <2>6. RequestType'
    <3>1. Finish(u) \/ Continue(u, "refresh") \/ Continue(u, "close")
      BY <1>8 DEF ChangeRank, Seat
    <3> QED
      BY <3>1, <2>1, <1>0, RequestMoves
  <2> QED
    BY <2>1, <2>4, <2>5, <2>6, <1>1, <1>2, <1>4 DEF TypeInv
<1>9. ASSUME Remove(u) PROVE TypeInv'
  <2>1. /\ request[u].step = "remove" /\ (Continue(u, "refresh") \/ Finish(u))
        /\ UNCHANGED <<party, declined, looking, timers>>
    BY <1>9 DEF Remove, At
  <2>2. q \in Parties /\ request[u].target \in Users /\ request[u].what \in {"left", "kicked"}
    BY <2>1, <1>a DEF Formed
  <2>3. RostersType' /\ LettersType' /\ AbsentIsEmpty'
    <3>1. CASE request[u].target \in Members(q)
      <4>1. /\ member' = [member EXCEPT ![q][request[u].target] = None]
            /\ block' = [block EXCEPT ![q][request[u].target] = request[u].what]
            /\ invite' = [invite EXCEPT ![q][request[u].target] = None]
        BY <1>9, <3>1 DEF Remove
      <4>2. RostersType' /\ LettersType'
        BY <4>1, <2>1, <2>2, <1>0 DEF RostersType, LettersType, InviteTables
      <4>3. party[q].state \notin {"new", "deleted"}
        BY <3>1, <2>2, <1>0 DEF AbsentIsEmpty, Members, Nobody
      <4>4. AbsentIsEmpty'
        BY <4>1, <4>3, <2>1, <1>0 DEF AbsentIsEmpty, RostersType, LettersType, InviteTables
      <4> QED
        BY <4>2, <4>4
    <3>2. CASE request[u].target \notin Members(q)
      BY <1>9, <3>2, <2>1, <1>0
         DEF Remove, RostersType, LettersType, AbsentIsEmpty
    <3> QED
      BY <3>1, <3>2
  <2>6. RequestType'
    BY <2>1, <1>0, RequestMoves
  <2> QED
    BY <2>1, <2>3, <2>6, <1>1, <1>2 DEF TypeInv
<1>10. ASSUME Dissolve(u) PROVE TypeInv'
  <2>1. RequestType'
    BY <1>10, <1>0, RequestMoves DEF Dissolve, At
  <2> QED
    BY <2>1, <1>10, <1>0, <1>1, <1>2, DeleteType DEF TypeInv, Dissolve
<1> QED
  BY <1>5, <1>6, <1>7, <1>8, <1>9, <1>10

\* The timers list, plan and end, and parties expire and go.
LEMMA TimerType ==
    ASSUME TypeInv
    PROVE  /\ ReadForMerge \/ PassEnds \/ FinishSweep => TypeInv'
           /\ \A ps \in SUBSET Parties : ListExpired(ps) => TypeInv'
           /\ \A p, r \in Parties, leader \in Users : BeginMerge(p, r, leader) => TypeInv'
           /\ \A p \in Parties : Expire(p) => TypeInv'
<1>0. RostersType /\ LettersType /\ LookingType /\ RequestType /\ TimersType /\ AbsentIsEmpty
  BY DEF TypeInv
<1>1. ASSUME UNCHANGED rosters, UNCHANGED letters
      PROVE  RostersType' /\ LettersType' /\ AbsentIsEmpty'
  BY <1>0, <1>1 DEF rosters, letters, RostersType, LettersType, AbsentIsEmpty
<1>2. UNCHANGED timers => TimersType'
  BY <1>0 DEF timers, TimersType
<1>3. UNCHANGED looking => LookingType'
  BY <1>0 DEF LookingType
<1>4. UNCHANGED request => RequestType'
  BY <1>0 DEF RequestType
<1>5. UNCHANGED letters => LettersType'
  BY <1>0 DEF letters, LettersType
<1>6. ASSUME PassEnds PROVE TypeInv'
  <2>1. TimersType'
    BY <1>6, <1>0 DEF PassEnds, TimersType, NoPass
  <2> QED
    BY <2>1, <1>1, <1>3, <1>4, <1>6 DEF TypeInv, PassEnds
<1>7. ASSUME NEW ps \in SUBSET Parties, ListExpired(ps) PROVE TypeInv'
  <2>1. TimersType'
    BY <1>7, <1>0 DEF ListExpired, TimersType, RostersType, Rows
  <2> QED
    BY <2>1, <1>1, <1>3, <1>4, <1>7 DEF TypeInv, ListExpired
<1>8. ASSUME NEW p \in Parties, NEW r \in Parties, NEW leader \in Users, BeginMerge(p, r, leader) PROVE TypeInv'
  <2>1. Fresh \in SUBSET Parties
    BY DEF Fresh
  <2>2. TimersType'
    BY <2>1, <1>8, <1>0 DEF BeginMerge, TimersType, NoPass, Nobody
  <2> QED
    BY <2>2, <1>1, <1>3, <1>4, <1>8 DEF TypeInv, BeginMerge
<1>9. ASSUME NEW p \in Parties, Expire(p) PROVE TypeInv'
  <2>1. RostersType'
    BY <1>9, <1>0, ZenonT(60) DEF Expire, RostersType, Rows
  <2>2. AbsentIsEmpty'
    BY <1>9, <1>0 DEF Expire, AbsentIsEmpty, RostersType, Rows, letters
  <2> QED
    BY <2>1, <2>2, <1>2, <1>3, <1>4, <1>5, <1>9 DEF TypeInv, Expire
<1>10. ASSUME FinishSweep PROVE TypeInv'
  <2>1. LookingType'
    BY <1>10, <1>0 DEF FinishSweep, LookingType, NotLooking, Cards
  <2>2. TimersType'
    BY <1>10, <1>0 DEF FinishSweep, TimersType
  <2>3. RostersType' /\ LettersType' /\ AbsentIsEmpty'
    BY <1>10, <1>0, DeleteType DEF FinishSweep
  <2> QED
    BY <2>1, <2>2, <2>3, <1>4, <1>10 DEF TypeInv, FinishSweep
<1>11. ASSUME ReadForMerge PROVE TypeInv'
  <2> DEFINE seats == SeatsNow(pass.survivor, pass.retired)
  <2>1. /\ pass # NoPass /\ pass' = [pass EXCEPT !.seats = seats] /\ UNCHANGED sweep
    BY <1>11 DEF ReadForMerge
  <2>2. pass.survivor \in Parties /\ pass.retired \in Parties
    BY <2>1, <1>0 DEF TimersType
  <2>3. seats \in [Users -> Positions \cup {None}]
    BY <2>2, <1>0 DEF SeatsNow, RostersType, Memberships, Members
  <2> HIDE DEF seats
  <2>4. TimersType'
    BY <2>1, <2>3, <1>0 DEF TimersType
  <2> QED
    BY <2>4, <1>1, <1>3, <1>4, <1>11 DEF TypeInv, ReadForMerge
<1> QED
  BY <1>9, <1>10, <1>11, <1>6, <1>7, <1>8

\* Somebody comes in: alone, by an invitation, or with others.
LEMMA EntryType ==
    ASSUME TypeInv, NEW u \in Users
    PROVE  Join(u) \/ Accept(u) => TypeInv'
<1>0. RostersType /\ LettersType /\ LookingType /\ RequestType /\ TimersType /\ AbsentIsEmpty
  BY DEF TypeInv
<1> DEFINE q == request[u].party
           s == request[u].seat
           v == request[u].target
<1>a. request[u] \in Formed /\ s \in Positions \cup {None}
  BY <1>0 DEF RequestType, Formed, Requests
<1>1. [rank |-> "MEMBER", seat |-> s] \in Memberships
  BY <1>a DEF Memberships, Ranks
<1>2. UNCHANGED timers => TimersType'
  BY <1>0 DEF timers, TimersType
<1>3. UNCHANGED looking => LookingType'
  BY <1>0 DEF LookingType
<1>4. ASSUME q \in Parties, Live(q), UNCHANGED party,
             NEW w \in Users,
             UNCHANGED member \/ member' = [member EXCEPT ![q][w] = [rank |-> "MEMBER", seat |-> s]],
             UNCHANGED block \/ block' = [block EXCEPT ![q][w] = None],
             invite' \in InviteTables, Empties(invite, invite'),
             declined' \in [Parties -> [Users -> SUBSET Kinds]]
      PROVE  RostersType' /\ LettersType' /\ AbsentIsEmpty'
  <2>1. RostersType' /\ LettersType'
    <3>1. member' \in [Parties -> [Users -> Memberships \cup {None}]]
      <4>1. CASE UNCHANGED member
        BY <4>1, <1>0 DEF RostersType
      <4>2. CASE member' = [member EXCEPT ![q][w] = [rank |-> "MEMBER", seat |-> s]]
        BY <4>2, <1>4, <1>0, <1>1 DEF RostersType
      <4> QED
        BY <1>4, <4>1, <4>2
    <3>2. block' \in [Parties -> [Users -> {"left", "kicked", None}]]
      <4>1. CASE UNCHANGED block
        BY <4>1, <1>0 DEF RostersType
      <4>2. CASE block' = [block EXCEPT ![q][w] = None]
        BY <4>2, <1>4, <1>0 DEF RostersType
      <4> QED
        BY <1>4, <4>1, <4>2
    <3>3. party' \in [Parties -> Rows]
      BY <1>4, <1>0 DEF RostersType
    <3> QED
      BY <1>4, <3>1, <3>2, <3>3 DEF RostersType, LettersType
  <2>2. \A r \in Parties : party[r].state \in {"new", "deleted"} =>
           member'[r] = member[r] /\ block'[r] = block[r]
    BY <1>4, <1>0 DEF Live, RostersType
  <2>3. AbsentIsEmpty'
    BY <2>2, <1>4, <1>0 DEF AbsentIsEmpty, Empties
  <2> QED
    BY <2>1, <2>3
<1>5. ASSUME Join(u) PROVE TypeInv'
  <2>1. /\ request[u].step = "join" /\ Live(q)
        /\ UNCHANGED <<party, block, declined, looking, timers>>
    BY <1>5 DEF Join, At
  <2>2. q \in Parties
    BY <2>1, <1>a DEF Formed
  <2>3. UNCHANGED member \/ member' = [member EXCEPT ![q][u] = [rank |-> "MEMBER", seat |-> s]]
    BY <1>5 DEF Join
  <2>4. /\ \/ UNCHANGED invite
           \/ invite' = ApplicationsCancelled(invite, u)
           \/ invite' = AllCancelled(invite, q)
           \/ invite' = SeatClosed(invite, q, s)
        /\ Continue(u, "settle") \/ Finish(u)
    BY <1>5 DEF Join
  <2>5. invite' \in InviteTables /\ Empties(invite, invite')
    <3>1. CASE UNCHANGED invite
      BY <3>1, <1>0 DEF LettersType, Empties
    <3>2. CASE invite' = ApplicationsCancelled(invite, u)
      BY <3>2, <1>0, ApplicationsCancelledType DEF LettersType
    <3>3. CASE invite' = AllCancelled(invite, q)
      BY <3>3, <2>2, <1>0, AllCancelledType DEF LettersType
    <3>4. CASE invite' = SeatClosed(invite, q, s)
      BY <3>4, <2>2, <1>0, SeatClosedType DEF LettersType
    <3> QED
      BY <2>4, <3>1, <3>2, <3>3, <3>4
  <2>6. RequestType'
    BY <2>1, <2>4, <1>0, RequestMoves
  <2>7. declined' \in [Parties -> [Users -> SUBSET Kinds]]
    BY <2>1, <1>0 DEF LettersType
  <2>8. RostersType' /\ LettersType' /\ AbsentIsEmpty'
    BY <2>1, <2>2, <2>3, <2>5, <2>7, <1>4
  <2> QED
    BY <2>1, <2>6, <2>8, <1>2, <1>3 DEF TypeInv
<1>6. ASSUME Accept(u) PROVE TypeInv'
  <2>1. request[u].step = "accept" /\ Live(q) /\ UNCHANGED <<party, looking, timers>>
    BY <1>6 DEF Accept, At
  <2>2. q \in Parties /\ v \in Users
    BY <2>1, <1>a DEF Formed
  <2>3. UNCHANGED member \/ member' = [member EXCEPT ![q][v] = [rank |-> "MEMBER", seat |-> s]]
    BY <1>6 DEF Accept
  <2>4. UNCHANGED block \/ block' = [block EXCEPT ![q][v] = None]
    BY <1>6 DEF Accept
  <2>5. \E kept : \/ invite' = ApplicationsCancelled(Cancelled(invite, q, kept), v)
                  \/ invite' = AllCancelled(invite, q)
                  \/ invite' = SeatClosed(invite, q, s)
    BY <1>6 DEF Accept, InvitesAfter
  <2>6. invite' \in InviteTables /\ Empties(invite, invite')
    <3>1. PICK kept : \/ invite' = ApplicationsCancelled(Cancelled(invite, q, kept), v)
                      \/ invite' = AllCancelled(invite, q)
                      \/ invite' = SeatClosed(invite, q, s)
      BY <2>5
    <3> DEFINE table == Cancelled(invite, q, kept)
    <3>2. table \in InviteTables /\ Empties(invite, table)
      BY <2>2, <1>0, CancelledType DEF LettersType
    <3>3. /\ ApplicationsCancelled(table, v) \in InviteTables
          /\ Empties(table, ApplicationsCancelled(table, v))
      BY <3>2, ApplicationsCancelledType
    <3>4. Empties(invite, ApplicationsCancelled(table, v))
      BY <3>2, <3>3 DEF Empties
    <3>5. /\ AllCancelled(invite, q) \in InviteTables
          /\ Empties(invite, AllCancelled(invite, q))
      BY <2>2, <1>0, AllCancelledType DEF LettersType
    <3>6. /\ SeatClosed(invite, q, s) \in InviteTables
          /\ Empties(invite, SeatClosed(invite, q, s))
      BY <2>2, <1>0, SeatClosedType DEF LettersType
    <3> QED
      BY <3>1, <3>3, <3>4, <3>5, <3>6
  <2>7. declined' \in [Parties -> [Users -> SUBSET Kinds]]
    <3>1. UNCHANGED declined \/ declined' = MarkedDeclined(q, ForSeat(q, s) \ {v})
      BY <1>6 DEF Accept
    <3> QED
      BY <3>1, <2>2, <1>0, DeclinesType DEF LettersType, ForSeat
  <2>8. RequestType'
    <3>1. Continue(u, "settle") \/ Finish(u)
      BY <1>6 DEF Accept
    <3> QED
      BY <3>1, <2>1, <1>0, RequestMoves
  <2>9. RostersType' /\ LettersType' /\ AbsentIsEmpty'
    BY <2>1, <2>2, <2>3, <2>4, <2>6, <2>7, <1>4
  <2> QED
    BY <2>1, <2>8, <2>9, <1>2, <1>3 DEF TypeInv
<1> QED
  BY <1>5, <1>6

\* Players who search alone become a party.
LEMMA AutoMatchType ==
    ASSUME TypeInv, NEW p \in Parties, NEW group \in SUBSET Users,
           NEW lineup \in [group -> Positions], NEW leader \in group,
           AutoMatch(p, group, lineup, leader)
    PROVE  TypeInv'
<1>0. RostersType /\ LettersType /\ LookingType /\ RequestType /\ TimersType /\ AbsentIsEmpty
  BY DEF TypeInv
<1>1. /\ party' = [party EXCEPT ![p].state = "live", ![p].owner = leader]
      /\ UNCHANGED <<block, letters, request, timers>>
  BY DEF AutoMatch, NewParty
<1>2. /\ member' = [member EXCEPT ![p] = [u \in Users |->
            IF u \notin group THEN None
            ELSE [rank |-> IF u = leader THEN "OWNER" ELSE "MEMBER", seat |-> lineup[u]]]]
      /\ looking' = [u \in Users |->
            IF u = leader /\ Positions \ {lineup[w] : w \in group} # {}
            THEN [for |-> p, roles |-> Positions \ {lineup[w] : w \in group}]
            ELSE IF u \in group THEN NotLooking ELSE looking[u]]
  BY DEF AutoMatch
<1>3. \A u \in group : [rank |-> IF u = leader THEN "OWNER" ELSE "MEMBER", seat |-> lineup[u]]
                          \in Memberships
  BY DEF Memberships, Ranks
<1>4. RostersType'
  BY <1>0, <1>1, <1>2, <1>3, ZenonT(60) DEF RostersType, Rows
<1>5. LookingType'
  BY <1>0, <1>2 DEF LookingType, Cards, NotLooking
<1>6. AbsentIsEmpty'
  BY <1>0, <1>1, <1>2 DEF AbsentIsEmpty, RostersType, Rows, letters
<1> QED
  BY <1>0, <1>1, <1>4, <1>5, <1>6
     DEF TypeInv, letters, LettersType, RequestType, timers, TimersType

LEMMA MergeType ==
    ASSUME TypeInv, CommitMerge
    PROVE  TypeInv'
<1> DEFINE s == pass.survivor
           r == pass.retired
           l == pass.leader
<1>0. RostersType /\ LettersType /\ LookingType /\ RequestType /\ TimersType /\ AbsentIsEmpty
  BY DEF TypeInv
<1>1. /\ pass # NoPass /\ PlanStands(pass.seats)
      /\ party' = MergedRows(s, r, l)
      /\ member' = MergedRosters(s, r, l)
      /\ block' = MergedBlocks(s, r)
      /\ pass' = NoPass
      /\ UNCHANGED <<letters, request, sweep>>
  BY DEF CommitMerge
<1>2. s \in Parties /\ r \in Parties /\ l \in Users
  BY <1>0, <1>1 DEF TimersType
<1>3. Live(s) /\ Live(r) /\ s # r
  BY <1>1, <1>2 DEF PlanStands, Compatible, Open, Parties
<1>4. party' \in [Parties -> Rows]
  <2> DEFINE due == party[s].due /\ party[r].due
             Row(p) == IF p = s THEN [party[s] EXCEPT !.owner = l, !.due = due]
                       ELSE IF p = r THEN [party[r] EXCEPT !.state = "merged", !.due = due,
                                                           !.joinMode = "CONFIRM"]
                       ELSE party[p]
  <2>1. party[s] \in Rows /\ party[r] \in Rows /\ due \in BOOLEAN
    BY <1>0, <1>2 DEF RostersType, Rows
  <2> HIDE DEF due
  <2>2. [party[s] EXCEPT !.owner = l, !.due = due] \in Rows
    BY <2>1, <1>2 DEF Rows
  <2>3. [party[r] EXCEPT !.state = "merged", !.due = due, !.joinMode = "CONFIRM"] \in Rows
    BY <2>1 DEF Rows, Modes
  <2>4. \A p \in Parties : Row(p) \in Rows
    BY <2>2, <2>3, <1>0 DEF RostersType
  <2> HIDE DEF Row
  <2>5. \A p \in Parties : [Row(p) EXCEPT !.into = s] \in Rows
    BY <2>4, <1>2 DEF Rows
  <2>6. party' = [p \in Parties |->
                     IF p \in Redirected(s, r) THEN [Row(p) EXCEPT !.into = s] ELSE Row(p)]
    BY <1>1 DEF MergedRows, Row, due
  <2> QED
    BY <2>4, <2>5, <2>6
<1>5. member' \in [Parties -> [Users -> Memberships \cup {None}]]
  <2> DEFINE Merged(u) == IF member[r][u] # None THEN [member[r][u] EXCEPT !.rank = "MEMBER"]
                          ELSE member[s][u]
             Ranked(u) == IF Merged(u) = None THEN None
                          ELSE IF u = l THEN [Merged(u) EXCEPT !.rank = "OWNER"]
                          ELSE IF Merged(u).rank = "OWNER" THEN [Merged(u) EXCEPT !.rank = "MEMBER"]
                          ELSE Merged(u)
  <2>1. \A m \in Memberships : /\ [m EXCEPT !.rank = "MEMBER"] \in Memberships
                               /\ [m EXCEPT !.rank = "OWNER"] \in Memberships
    BY RankedMembership DEF Ranks
  <2>2. \A u \in Users : Merged(u) \in Memberships \cup {None}
    <3> SUFFICES ASSUME NEW u \in Users PROVE Merged(u) \in Memberships \cup {None}
      OBVIOUS
    <3>1. member[r][u] \in Memberships \cup {None} /\ member[s][u] \in Memberships \cup {None}
      BY <1>0, <1>2 DEF RostersType
    <3>2. CASE member[r][u] # None
      <4>1. [member[r][u] EXCEPT !.rank = "MEMBER"] \in Memberships
        BY <2>1, <3>1, <3>2
      <4> QED
        BY <4>1, <3>2
    <3>3. CASE member[r][u] = None
      BY <3>1, <3>3
    <3> QED
      BY <3>2, <3>3
  <2> HIDE DEF Merged
  <2>3. \A u \in Users : Ranked(u) \in Memberships \cup {None}
    BY <2>1, <2>2
  <2>4. member' = [member EXCEPT ![r] = Nobody, ![s] = [u \in Users |-> Ranked(u)]]
    BY <1>1 DEF MergedRosters, Merged
  <2> HIDE DEF Ranked
  <2> QED
    BY <2>3, <2>4, <1>0 DEF RostersType, Nobody
<1>6. block' \in [Parties -> [Users -> {"left", "kicked", None}]]
  BY <1>0, <1>1, <1>2 DEF MergedBlocks, RostersType, Nobody
<1>7. LookingType'
  <2>1. Card(s).roles \subseteq Positions /\ Card(r).roles \subseteq Positions
    <3>1. party[s].owner \in Users /\ party[r].owner \in Users
      BY <1>1 DEF PlanStands, Compatible, Open, Members
    <3> QED
      BY <3>1, <1>0 DEF Card, LookingType, Cards
  <2> DEFINE wanted == (Card(s).roles \cup Card(r).roles)
                          \ {pass.seats[u] : u \in Members(s) \cup Members(r)}
  <2>2. looking' = [u \in Users |->
               IF u = l /\ wanted # {} THEN [for |-> s, roles |-> wanted]
               ELSE IF u \in {party[s].owner, party[r].owner} THEN NotLooking
               ELSE looking[u]]
    BY DEF CommitMerge
  <2>3. wanted \in SUBSET Positions
    BY <2>1
  <2> HIDE DEF wanted
  <2>4. [for |-> s, roles |-> wanted] \in Cards /\ NotLooking \in Cards
    BY <2>3, <1>2 DEF Cards, NotLooking
  <2> QED
    BY <2>2, <2>4, <1>0 DEF LookingType
<1>8. AbsentIsEmpty'
  <2>1. ASSUME NEW p \in Parties, party'[p].state \in {"new", "deleted"}
        PROVE  /\ p # s /\ p # r /\ party[p].state = party'[p].state
               /\ party'[p].owner = party[p].owner
    BY <2>1, <1>0, <1>1, <1>2, <1>3 DEF MergedRows, RostersType, Rows, Live
  <2>2. ASSUME NEW p \in Parties, p # s, p # r
        PROVE  member'[p] = member[p] /\ block'[p] = block[p]
    BY <2>2, <1>0, <1>1, <1>2 DEF MergedRosters, MergedBlocks, RostersType
  <2> QED
    BY <2>1, <2>2, <1>0, <1>1 DEF AbsentIsEmpty, letters
<1>9. LettersType' /\ RequestType' /\ TimersType'
  BY <1>0, <1>1 DEF letters, LettersType, RequestType, TimersType
<1>10. RostersType'
  BY <1>4, <1>5, <1>6 DEF RostersType
<1> QED
  BY <1>7, <1>8, <1>9, <1>10 DEF TypeInv

\* Every step keeps the types.
LEMMA TypeStep == TypeInv /\ [Next]_vars => TypeInv'
<1> SUFFICES ASSUME TypeInv, [Next]_vars PROVE TypeInv'
  OBVIOUS
<1>1. CASE RosterStep
  BY <1>1, BeginType, RosterCallType DEF RosterStep
<1>2. CASE EntryStep
  BY <1>2, BeginType, LetterStepType DEF EntryStep
<1>3. CASE SettingStep
  BY <1>3, BeginType DEF SettingStep
<1>4. CASE SearchStep
  BY <1>4, CallType, AutoMatchType DEF SearchStep
<1>5. CASE RequestStep
  BY <1>5, EntryType, CallType, RosterCallType DEF RequestStep
<1>6. CASE TimerStep
  BY <1>6, TimerType, MergeType DEF TimerStep
<1>7. CASE UNCHANGED vars
  BY <1>7 DEF vars, TypeInv, RostersType, LettersType, LookingType, RequestType, TimersType,
     AbsentIsEmpty
<1> QED
  BY <1>1, <1>2, <1>3, <1>4, <1>5, <1>6, <1>7 DEF Next

\* The state of the parties' service is well typed, and parties that are gone leave nothing
\* behind (game-parties.repository.ts), for any number of players, positions and parties.
THEOREM TypeCorrect == Spec => []TypeOK
<1>1. Spec => []TypeInv
  BY TypeInit, TypeStep, PTL DEF Spec
<1> QED
  BY <1>1, TypeInvTypes, PTL

-----------------------------------------------------------------------------
(* Kicks *)

\* The steps that write parties, rosters or blocks.
RosterWrites ==
    \/ \E u \in Users, p \in Parties : CreateParty(u, p)
    \/ \E p \in Parties, group \in SUBSET Users :
          \E lineup \in [group -> Positions], leader \in group : AutoMatch(p, group, lineup, leader)
    \/ \E u \in Users : Join(u) \/ Accept(u) \/ Remove(u) \/ ChangeRank(u) \/ Seat(u)
                       \/ SetMode(u) \/ Extend(u) \/ Dissolve(u)
    \/ CommitMerge \/ FinishSweep
    \/ \E p \in Parties : Expire(p)

LEMMA QuietSteps == [Next]_vars => UNCHANGED rosters \/ RosterWrites
<1> SUFFICES ASSUME [Next]_vars PROVE UNCHANGED rosters \/ RosterWrites
  BY SMTT(20)
<1>1. CASE RosterStep
  BY <1>1, ZenonT(60) DEF RosterStep, RosterWrites, BeginLeave, BeginKick, BeginRank, BeginSeat
<1>2. CASE EntryStep
  <2>1. ASSUME NEW u, NEW p, NEW v, NEW s, NEW how
        PROVE  /\ BeginJoin(u, p, s, how) \/ BeginApply(u, p, s, how) => UNCHANGED rosters
               /\ BeginInvite(u, p, v, s, how) => UNCHANGED rosters
    BY DEF BeginJoin, BeginApply, BeginInvite
  <2>2. ASSUME NEW u, NEW p, NEW v
        PROVE  /\ TurnAway(u, p) \/ InviteLapses(p, u) => UNCHANGED rosters
               /\ BeginAccept(u, p, v) \/ DeclineInvite(u, p, v) => UNCHANGED rosters
    BY DEF TurnAway, BeginAccept, DeclineInvite, InviteLapses
  <2> QED
    BY <1>2, <2>1, <2>2, Zenon DEF EntryStep
<1>3. CASE SettingStep
  BY <1>3 DEF SettingStep, BeginMode, BeginExtend, BeginDisband, BeginRecruit
<1>4. CASE SearchStep
  <2>1. CASE \E u \in Users : LookForParty(u) \/ StopLooking(u)
    BY <2>1 DEF LookForParty, StopLooking
  <2>2. CASE \E p \in Parties, group \in SUBSET {u \in Users : looking[u].for = Solo} :
                \E lineup \in [group -> Positions], leader \in group :
                    AutoMatch(p, group, lineup, leader)
    BY <2>2 DEF RosterWrites
  <2> QED
    BY <1>4, <2>1, <2>2 DEF SearchStep
<1>5. CASE RequestStep
  BY <1>5 DEF RequestStep, RosterWrites, Settle, Refresh, Clear, CreateInvite, Close, Recruit,
     Disband, GiveUp
<1>6. CASE TimerStep
  BY <1>6 DEF TimerStep, RosterWrites, BeginMerge, ReadForMerge, PassEnds, ListExpired
<1>7. CASE UNCHANGED vars
  BY <1>7 DEF vars, rosters
<1> QED
  BY <1>1, <1>2, <1>3, <1>4, <1>5, <1>6, <1>7 DEF Next

\* What a merger reads and writes, at any player.
LEMMA MergeWrites ==
    ASSUME TypeInv, CommitMerge
    PROVE  LET s == pass.survivor
               r == pass.retired
               l == pass.leader
           IN  /\ s \in Parties /\ r \in Parties /\ s # r /\ Live(s) /\ Live(r)
               /\ l \in {party[s].owner, party[r].owner} /\ l \in Members(s) \cup Members(r)
               /\ party[s].owner \in Members(s) /\ party[r].owner \in Members(r)
               /\ invite[s] = Nobody /\ invite[r] = Nobody
               /\ Members(s) \cap Members(r) = {}
               /\ Cardinality(Members(s) \cup Members(r)) <= MaxMembers
               /\ \A u \in Members(s) : block[r][u] = None
               /\ \A u \in Members(r) : block[s][u] = None
               /\ Seats(s) \cap Seats(r) = {}
<1>1. /\ pass.survivor \in Parties /\ pass.retired \in Parties /\ pass.leader \in Users
      /\ PlanStands(pass.seats)
      /\ Seats(pass.survivor) \cap Seats(pass.retired) = {}
  BY DEF TypeInv, TimersType, CommitMerge
<1> QED
  BY <1>1 DEF PlanStands, Compatible, Open, Parties

\* A player is in a party or has been kicked out of it, never both.
LEMMA KickStep == TypeInv /\ KickedStayOut /\ [Next]_vars => KickedStayOut'
<1> SUFFICES ASSUME TypeInv, KickedStayOut, [Next]_vars PROVE KickedStayOut'
  OBVIOUS
<1>0. RostersType /\ AbsentIsEmpty
  BY DEF TypeInv
<1>1. CASE UNCHANGED rosters
  BY <1>1 DEF rosters, KickedStayOut, Members
<1>2. ASSUME NEW u \in Users, NEW p \in Parties, CreateParty(u, p) PROVE KickedStayOut'
  <2>1. block[p] = Nobody /\ UNCHANGED block
    BY <1>2, <1>0 DEF CreateParty, NextParty, AbsentIsEmpty
  <2>2. \A x \in Parties : x # p => member'[x] = member[x]
    BY <1>2, <1>0 DEF CreateParty, RostersType
  <2> QED
    BY <2>1, <2>2, NoneAssumption DEF KickedStayOut, Members, Nobody
<1>3. ASSUME NEW p \in Parties, NEW group \in SUBSET Users,
             NEW lineup \in [group -> Positions], NEW leader \in group,
             AutoMatch(p, group, lineup, leader)
      PROVE  KickedStayOut'
  <2>1. block[p] = Nobody /\ UNCHANGED block
    BY <1>3, <1>0 DEF AutoMatch, NextParty, AbsentIsEmpty
  <2>2. \A x \in Parties : x # p => member'[x] = member[x]
    BY <1>3, <1>0 DEF AutoMatch, RostersType
  <2> QED
    BY <2>1, <2>2, NoneAssumption DEF KickedStayOut, Members, Nobody
<1>4. ASSUME NEW u \in Users, Join(u) PROVE KickedStayOut'
  <2> DEFINE q == request[u].party
  <2>1. UNCHANGED block /\ block[q][u] # "kicked"
    BY <1>4, NoneAssumption DEF Join, NotBlocked, MayEnter
  <2>2. \A x \in Parties, w \in Users : member'[x][w] # member[x][w] => x = q /\ w = u
    BY <1>4, <1>0 DEF Join, RostersType
  <2> QED
    BY <2>1, <2>2 DEF KickedStayOut, Members
<1>5. ASSUME NEW u \in Users, Accept(u) PROVE KickedStayOut'
  <2> DEFINE q == request[u].party
             v == request[u].target
  <2>1. CASE UNCHANGED <<member, block>>
    BY <2>1 DEF KickedStayOut, Members
  <2>2. CASE /\ member' = [member EXCEPT ![q][v] = [rank |-> "MEMBER", seat |-> request[u].seat]]
             /\ block' = [block EXCEPT ![q][v] = None]
    <3>1. \A x \in Parties, w \in Users :
             IF x = q /\ w = v THEN block'[x][w] = None
             ELSE block'[x][w] = block[x][w] /\ member'[x][w] = member[x][w]
      BY <2>2, <1>0 DEF RostersType
    <3> QED
      BY <3>1, NoneAssumption DEF KickedStayOut, Members
  <2> QED
    BY <1>5, <2>1, <2>2 DEF Accept
<1>6. ASSUME NEW u \in Users, Remove(u) PROVE KickedStayOut'
  <2> DEFINE q == request[u].party
             v == request[u].target
  <2>1. CASE UNCHANGED <<member, block>>
    BY <2>1 DEF KickedStayOut, Members
  <2>2. CASE /\ member' = [member EXCEPT ![q][v] = None]
             /\ block' = [block EXCEPT ![q][v] = request[u].what]
    <3>1. \A x \in Parties, w \in Users :
             IF x = q /\ w = v THEN member'[x][w] = None
             ELSE block'[x][w] = block[x][w] /\ member'[x][w] = member[x][w]
      BY <2>2, <1>0 DEF RostersType
    <3> QED
      BY <3>1 DEF KickedStayOut, Members
  <2> QED
    BY <1>6, <2>1, <2>2 DEF Remove
<1>7. ASSUME NEW u \in Users, ChangeRank(u) \/ Seat(u) PROVE KickedStayOut'
  <2>1. UNCHANGED block
    BY <1>7 DEF ChangeRank, Seat
  <2>2. \A x \in Parties, w \in Users : member'[x][w] # member[x][w] => w \in Members(x)
    <3>1. CASE ChangeRank(u)
      <4> DEFINE q == request[u].party
                 v == request[u].target
      <4>1. v \in Members(q)
        BY <3>1 DEF ChangeRank
      <4>2. \A x \in Parties, w \in Users : ~(x = q /\ w = v) => member'[x][w] = member[x][w]
        BY <3>1, <1>0 DEF ChangeRank, RostersType
      <4> QED
        BY <4>1, <4>2
    <3>2. CASE Seat(u)
      <4> DEFINE q == request[u].party
      <4>1. u \in Members(q)
        BY <3>2 DEF Seat
      <4>2. \A x \in Parties, w \in Users : ~(x = q /\ w = u) => member'[x][w] = member[x][w]
        BY <3>2, <1>0 DEF Seat, RostersType
      <4> QED
        BY <4>1, <4>2
    <3> QED
      BY <1>7, <3>1, <3>2
  <2> QED
    BY <2>1, <2>2 DEF KickedStayOut, Members
<1>8. ASSUME NEW u \in Users, SetMode(u) \/ Extend(u) PROVE KickedStayOut'
  BY <1>8 DEF SetMode, Extend, KickedStayOut, Members
<1>9. ASSUME NEW p \in Parties, Expire(p) PROVE KickedStayOut'
  BY <1>9 DEF Expire, KickedStayOut, Members
<1>10. ASSUME NEW ps, Delete(ps) PROVE KickedStayOut'
  BY <1>10 DEF Delete, KickedStayOut, Members, Nobody
<1>11. CASE CommitMerge
  <2> DEFINE s == pass.survivor
             r == pass.retired
  <2>1. s \in Parties /\ r \in Parties /\ s # r
    BY <1>11, MergeWrites
  <2>2. block' = MergedBlocks(s, r) /\ member' = MergedRosters(s, r, pass.leader)
    BY <1>11 DEF CommitMerge
  <2>3. \A u \in Users : u \in Members(s) \cup Members(r) => block'[s][u] = None
    BY <2>1, <2>2, <1>0 DEF MergedBlocks, RostersType
  <2>4. \A u \in Users : u \notin Members(s) \cup Members(r) => member'[s][u] = None
    BY <2>1, <2>2, <1>0 DEF MergedRosters, RostersType, Members
  <2>5. \A u \in Users : member'[r][u] = None
    BY <2>1, <2>2, <1>0 DEF MergedRosters, RostersType, Nobody
  <2>6. \A x \in Parties : x # s /\ x # r => member'[x] = member[x] /\ block'[x] = block[x]
    BY <2>1, <2>2, <1>0 DEF MergedBlocks, MergedRosters, RostersType
  <2> QED
    BY <2>3, <2>4, <2>5, <2>6, NoneAssumption DEF KickedStayOut, Members
<1> QED
  BY <1>1, <1>2, <1>3, <1>4, <1>5, <1>6, <1>7, <1>8, <1>9, <1>10, <1>11, QuietSteps
     DEF RosterWrites, Dissolve, FinishSweep

\* A player who was kicked is not inside, whatever joins, acceptances and mergers were under
\* way (removeMemberAndBlockJoinAtomically, addMemberAtomically, acceptInviteAtomically).
THEOREM KicksHold == Spec => []KickedStayOut
<1>1. Init => KickedStayOut
  BY DEF Init, KickedStayOut, Members, Nobody
<1>2. Init => TypeInv
  BY TypeInit
<1> QED
  BY <1>1, <1>2, TypeStep, KickStep, PTL DEF Spec

-----------------------------------------------------------------------------
(* Rosters *)

\* One roster within its size, with one player to a position.
Inside(m) == {u \in Users : m[u] # None}
Fits(m) ==
    /\ Cardinality(Inside(m)) <= MaxMembers
    /\ \A u, v \in Inside(m) : u # v /\ m[u].seat # None => m[u].seat # m[v].seat

LEMMA FitsEach == RostersFit <=> \A p \in Parties : Fits(member[p])
BY DEF RostersFit, Fits, Inside, Members

\* Players and their rosters can be counted.
LEMMA Countable ==
    ASSUME NEW m
    PROVE  /\ IsFiniteSet(Inside(m)) /\ Cardinality(Inside(m)) \in Nat
           /\ \A n : Inside(n) \subseteq Inside(m) =>
                 Cardinality(Inside(n)) \in Nat /\ Cardinality(Inside(n)) <= Cardinality(Inside(m))
BY ConstantsAssumption, FS_Subset, FS_CardinalityType DEF Inside

\* A roster fits when it is empty, when a player comes to a free position, and when it
\* shrinks or changes ranks only.
LEMMA EmptyFits == Fits(Nobody)
<1>1. Inside(Nobody) = {}
  BY DEF Inside, Nobody
<1> QED
  BY <1>1, FS_EmptySet, ConstantsAssumption DEF Fits

LEMMA EntryFits ==
    ASSUME NEW m \in [Users -> Memberships \cup {None}], Fits(m), NEW v \in Users, m[v] = None,
           ~(Cardinality(Inside(m)) >= MaxMembers), NEW e \in Memberships,
           e.seat = None \/ \A u \in Inside(m) : m[u].seat # e.seat
    PROVE  Fits([m EXCEPT ![v] = e])
<1> DEFINE n == [m EXCEPT ![v] = e]
<1>1. e # None
  BY NoneAssumption
<1>2. Inside(n) = Inside(m) \cup {v} /\ v \notin Inside(m)
  BY <1>1 DEF Inside
<1>3. Cardinality(Inside(n)) = Cardinality(Inside(m)) + 1
  BY <1>2, Countable, FS_AddElement
<1>4. Cardinality(Inside(n)) <= MaxMembers
  BY <1>3, Countable, ConstantsAssumption
<1>5. ASSUME NEW a \in Inside(n), NEW b \in Inside(n), a # b, n[a].seat # None
      PROVE  n[a].seat # n[b].seat
  BY <1>2, <1>5 DEF Fits, Inside
<1> QED
  BY <1>4, <1>5 DEF Fits

LEMMA ShrunkFits ==
    ASSUME NEW m, Fits(m), NEW n, Inside(n) \subseteq Inside(m),
           \A u \in Inside(n) : n[u].seat = m[u].seat
    PROVE  Fits(n)
<1>1. Cardinality(Inside(n)) <= MaxMembers
  BY Countable, ConstantsAssumption DEF Fits
<1> QED
  BY <1>1 DEF Fits

\* Two rosters that fit together fit as one.
LEMMA UnionFits ==
    ASSUME NEW m, Fits(m), NEW k, Fits(k), NEW n, Inside(n) = Inside(m) \cup Inside(k),
           Cardinality(Inside(m) \cup Inside(k)) <= MaxMembers,
           \A u \in Inside(m) : n[u].seat = m[u].seat,
           \A u \in Inside(k) : n[u].seat = k[u].seat,
           \A u \in Inside(m), v \in Inside(k) : m[u].seat # None => m[u].seat # k[v].seat,
           \A u \in Inside(m), v \in Inside(k) : k[v].seat # None => m[u].seat # k[v].seat
    PROVE  Fits(n)
BY DEF Fits

\* A merger keeps everyone's position.
LEMMA MergedSeats ==
    ASSUME RostersType, NEW s \in Parties, NEW r \in Parties, s # r, NEW l,
           Members(s) \cap Members(r) = {}, member' = MergedRosters(s, r, l)
    PROVE  \A u \in Users : IF u \in Members(s) \cup Members(r)
                          THEN /\ member'[s][u] # None
                               /\ u \in Members(r) => member'[s][u].seat = member[r][u].seat
                               /\ u \in Members(s) => member'[s][u].seat = member[s][u].seat
                          ELSE member'[s][u] = None
<1> SUFFICES ASSUME NEW u \in Users
             PROVE  IF u \in Members(s) \cup Members(r)
                    THEN /\ member'[s][u] # None
                         /\ u \in Members(r) => member'[s][u].seat = member[r][u].seat
                         /\ u \in Members(s) => member'[s][u].seat = member[s][u].seat
                    ELSE member'[s][u] = None
  OBVIOUS
<1>1. \A m \in Memberships :
         /\ [m EXCEPT !.rank = "MEMBER"] \in Memberships
         /\ [m EXCEPT !.rank = "MEMBER"].seat = m.seat
         /\ [m EXCEPT !.rank = "OWNER"] \in Memberships
         /\ [m EXCEPT !.rank = "OWNER"].seat = m.seat
  BY RankedMembership DEF Ranks, Memberships
<1> DEFINE m == IF member[r][u] # None THEN [member[r][u] EXCEPT !.rank = "MEMBER"]
                ELSE member[s][u]
<1>2. member'[s][u] = IF m = None THEN None
                      ELSE IF u = l THEN [m EXCEPT !.rank = "OWNER"]
                      ELSE IF m.rank = "OWNER" THEN [m EXCEPT !.rank = "MEMBER"]
                      ELSE m
  BY DEF MergedRosters, RostersType
<1>3. member[r][u] \in Memberships \cup {None} /\ member[s][u] \in Memberships \cup {None}
  BY DEF RostersType
<1>4. CASE u \in Members(r)
  <2>1. /\ m = [member[r][u] EXCEPT !.rank = "MEMBER"] /\ member[r][u] \in Memberships
        /\ u \notin Members(s)
    BY <1>3, <1>4 DEF Members
  <2>2. m \in Memberships /\ m.seat = member[r][u].seat
    BY <1>1, <2>1
  <2> HIDE DEF m
  <2> QED
    BY <1>1, <1>2, <1>4, <2>1, <2>2, NoneAssumption, ZenonT(60)
<1>5. CASE u \notin Members(r) /\ u \in Members(s)
  <2>1. m = member[s][u] /\ m \in Memberships
    BY <1>3, <1>5 DEF Members
  <2> HIDE DEF m
  <2> QED
    BY <1>1, <1>2, <1>5, <2>1, NoneAssumption
<1>6. CASE u \notin Members(r) /\ u \notin Members(s)
  BY <1>2, <1>6 DEF Members
<1> QED
  BY <1>4, <1>5, <1>6

\* Rosters fit after every step.
LEMMA FitStep == TypeInv /\ RostersFit /\ [Next]_vars => RostersFit'
<1> SUFFICES ASSUME TypeInv, RostersFit, [Next]_vars
             PROVE  \A p \in Parties : Fits(member'[p])
  BY DEF RostersFit, Fits, Inside, Members
<1>0. RostersType /\ AbsentIsEmpty /\ \A p \in Parties : Fits(member[p])
  BY FitsEach DEF TypeInv
<1>1. CASE UNCHANGED rosters
  BY <1>0, <1>1 DEF rosters
<1>2. ASSUME NEW u \in Users, NEW p \in Parties, CreateParty(u, p)
      PROVE  \A x \in Parties : Fits(member'[x])
  <2> DEFINE e == [rank |-> "OWNER", seat |-> None]
  <2>1. member[p] = Nobody /\ member' = [member EXCEPT ![p][u] = e]
    BY <1>2, <1>0 DEF CreateParty, NextParty, AbsentIsEmpty
  <2>2. Cardinality(Inside(Nobody)) = 0
    <3>1. Inside(Nobody) = {}
      BY DEF Inside, Nobody
    <3> QED
      BY <3>1, FS_EmptySet
  <2>3. e \in Memberships /\ Nobody \in [Users -> Memberships \cup {None}] /\ Nobody[u] = None
    BY DEF Memberships, Ranks, Nobody
  <2>4. Fits([Nobody EXCEPT ![u] = e])
    <3>1. e.seat = None /\ ~(Cardinality(Inside(Nobody)) >= MaxMembers)
      BY <2>2, ConstantsAssumption
    <3> HIDE DEF e
    <3> QED
      BY <2>3, <3>1, EmptyFits, EntryFits
  <2>5. member'[p] = [Nobody EXCEPT ![u] = e] /\ \A x \in Parties : x # p => member'[x] = member[x]
    BY <2>1, <1>0 DEF RostersType
  <2> QED
    BY <2>4, <2>5, <1>0
<1>3. ASSUME NEW p \in Parties, NEW group \in SUBSET Users,
             NEW lineup \in [group -> Positions], NEW leader \in group,
             AutoMatch(p, group, lineup, leader)
      PROVE  \A x \in Parties : Fits(member'[x])
  <2>1. /\ Cardinality(group) \in 2..MaxMembers
        /\ \A a, b \in group : a # b => lineup[a] # lineup[b]
        /\ member' = [member EXCEPT ![p] = [w \in Users |->
               IF w \notin group THEN None
               ELSE [rank |-> IF w = leader THEN "OWNER" ELSE "MEMBER", seat |-> lineup[w]]]]
    BY <1>3 DEF AutoMatch
  <2>2. \A w \in group : [rank |-> IF w = leader THEN "OWNER" ELSE "MEMBER", seat |-> lineup[w]]
                            \in Memberships
    BY DEF Memberships, Ranks
  <2>3. \A w \in Users : member'[p][w] # None <=> w \in group
    BY <2>1, <2>2, <1>0, NoneAssumption DEF RostersType
  <2>4. \A w \in group : member'[p][w].seat = lineup[w]
    BY <2>1, <1>0 DEF RostersType
  <2>5. Inside(member'[p]) = group
    BY <2>3 DEF Inside
  <2>6. Fits(member'[p])
    BY <2>1, <2>4, <2>5, ConstantsAssumption DEF Fits
  <2>7. \A x \in Parties : x # p => member'[x] = member[x]
    BY <2>1, <1>0 DEF RostersType
  <2> QED
    BY <2>6, <2>7, <1>0
<1>4. ASSUME NEW q \in Parties, NEW v \in Users, v \notin Members(q),
             NEW s \in Positions \cup {None}, Room(q, s),
             member' = [member EXCEPT ![q][v] = [rank |-> "MEMBER", seat |-> s]]
      PROVE  \A x \in Parties : Fits(member'[x])
  <2> DEFINE e == [rank |-> "MEMBER", seat |-> s]
  <2>1. e \in Memberships
    BY DEF Memberships, Ranks
  <2>2. Members(q) = Inside(member[q])
    BY DEF Members, Inside
  <2>3. s = None \/ \A u \in Inside(member[q]) : member[q][u].seat # s
    BY <1>4, <2>2 DEF Room, Free, Seats
  <2>4. member[q][v] = None /\ ~(Cardinality(Inside(member[q])) >= MaxMembers)
    BY <1>4, <2>2 DEF Members, Room, Full
  <2>5. Fits([member[q] EXCEPT ![v] = e])
    <3>1. member[q] \in [Users -> Memberships \cup {None}] /\ Fits(member[q])
      BY <1>0 DEF RostersType
    <3> HIDE DEF e
    <3>2. e.seat = s
      BY DEF e
    <3> QED
      BY <3>1, <3>2, <2>1, <2>3, <2>4, EntryFits
  <2>6. /\ member'[q] = [member[q] EXCEPT ![v] = e]
        /\ \A x \in Parties : x # q => member'[x] = member[x]
    BY <1>4, <1>0 DEF RostersType
  <2> QED
    BY <2>5, <2>6, <1>0
<1>5. ASSUME NEW u \in Users, Join(u) PROVE \A x \in Parties : Fits(member'[x])
  <2>1. request[u].party \in Parties /\ request[u].seat \in Positions \cup {None}
    BY <1>5 DEF TypeInv, RequestType, Formed, Requests, Join, At
  <2>2. CASE UNCHANGED member
    BY <2>2, <1>0
  <2> QED
    BY <1>5, <1>4, <2>1, <2>2 DEF Join
<1>6. ASSUME NEW u \in Users, Accept(u) PROVE \A x \in Parties : Fits(member'[x])
  <2>1. /\ request[u].party \in Parties /\ request[u].seat \in Positions \cup {None}
        /\ request[u].target \in Users
    BY <1>6 DEF TypeInv, RequestType, Formed, Requests, Accept, At
  <2>2. CASE UNCHANGED member
    BY <2>2, <1>0
  <2> QED
    BY <1>6, <1>4, <2>1, <2>2 DEF Accept
<1>7. ASSUME NEW u \in Users, Remove(u) PROVE \A x \in Parties : Fits(member'[x])
  <2> DEFINE q == request[u].party
             v == request[u].target
  <2>1. CASE UNCHANGED member
    BY <2>1, <1>0
  <2>2. CASE member' = [member EXCEPT ![q][v] = None]
    <3>1. q \in Parties
      BY <1>7 DEF TypeInv, RequestType, Formed, Remove, At
    <3>2. \A w \in Users : member'[q][w] # None => w # v /\ member'[q][w] = member[q][w]
      BY <2>2, <3>1, <1>0 DEF RostersType
    <3>3. Fits(member'[q])
      BY <3>1, <3>2, <1>0, ShrunkFits DEF Inside
    <3>4. \A x \in Parties : x # q => member'[x] = member[x]
      BY <2>2, <1>0 DEF RostersType
    <3> QED
      BY <3>3, <3>4, <1>0
  <2> QED
    BY <1>7, <2>1, <2>2 DEF Remove
<1>8. ASSUME NEW u \in Users, ChangeRank(u) PROVE \A x \in Parties : Fits(member'[x])
  <2> DEFINE q == request[u].party
             v == request[u].target
  <2>1. q \in Parties /\ v \in Members(q) /\ member' = [member EXCEPT ![q][v].rank = request[u].what]
    BY <1>8 DEF TypeInv, RequestType, Formed, ChangeRank, At
  <2>2. member[q][v] \in Memberships
    BY <2>1, <1>0 DEF RostersType, Members
  <2>3. \A w \in Users : IF w = v THEN member'[q][w].seat = member[q][w].seat
                         ELSE member'[q][w] = member[q][w]
    BY <2>1, <2>2, <1>0 DEF RostersType, Memberships
  <2>4. Fits(member'[q])
    <3>1. Inside(member'[q]) \subseteq Inside(member[q])
      BY <2>1, <2>3 DEF Inside, Members
    <3>2. \A w \in Inside(member'[q]) : member'[q][w].seat = member[q][w].seat
      BY <2>3 DEF Inside
    <3> QED
      BY <2>1, <3>1, <3>2, <1>0, ShrunkFits
  <2>5. \A x \in Parties : x # q => member'[x] = member[x]
    BY <2>1, <1>0 DEF RostersType
  <2> QED
    BY <2>4, <2>5, <1>0
<1>9. ASSUME NEW u \in Users, Seat(u) PROVE \A x \in Parties : Fits(member'[x])
  <2> DEFINE q == request[u].party
             s == request[u].seat
  <2>1. /\ q \in Parties /\ u \in Members(q) /\ Free(q, s)
        /\ member' = [member EXCEPT ![q][u].seat = s]
    BY <1>9 DEF TypeInv, RequestType, Formed, Seat, At
  <2>2. member[q][u] \in Memberships
    BY <2>1, <1>0 DEF RostersType, Members
  <2>3. \A w \in Users : IF w = u THEN member'[q][w].seat = s
                         ELSE member'[q][w] = member[q][w]
    BY <2>1, <2>2, <1>0 DEF RostersType, Memberships
  <2>4. \A w \in Members(q) : s = None \/ member[q][w].seat # s
    BY <2>1 DEF Free, Seats
  <2>5. Inside(member'[q]) \subseteq Members(q)
    BY <2>1, <2>3 DEF Inside, Members
  <2>6. Cardinality(Inside(member'[q])) <= MaxMembers
    <3>1. Members(q) = Inside(member[q])
      BY DEF Members, Inside
    <3> QED
      BY <3>1, <2>1, <2>5, <1>0, Countable, ConstantsAssumption DEF Fits
  <2>7. Fits(member'[q])
    <3>1. ASSUME NEW a \in Inside(member'[q]), NEW b \in Inside(member'[q]), a # b,
                 member'[q][a].seat # None
          PROVE  member'[q][a].seat # member'[q][b].seat
      <4>1. a \in Members(q) /\ b \in Members(q) /\ a \in Users /\ b \in Users
        BY <2>5 DEF Members
      <4>2. CASE a # u /\ b # u
        <5>1. a \in Inside(member[q]) /\ b \in Inside(member[q]) /\ Fits(member[q])
          BY <4>1, <2>1, <1>0 DEF Inside, Members
        <5> QED
          BY <5>1, <4>1, <4>2, <2>3, <3>1 DEF Fits
      <4>3. CASE a = u
        BY <4>1, <4>3, <2>3, <2>4, <3>1
      <4>4. CASE b = u
        BY <4>1, <4>4, <2>3, <2>4, <3>1
      <4> QED
        BY <4>2, <4>3, <4>4
    <3> QED
      BY <3>1, <2>6 DEF Fits
  <2>8. \A x \in Parties : x # q => member'[x] = member[x]
    BY <2>1, <1>0 DEF RostersType
  <2> QED
    BY <2>7, <2>8, <1>0
<1>10. ASSUME NEW u \in Users, SetMode(u) \/ Extend(u) PROVE \A x \in Parties : Fits(member'[x])
  BY <1>10, <1>0 DEF SetMode, Extend
<1>11. ASSUME NEW p \in Parties, Expire(p) PROVE \A x \in Parties : Fits(member'[x])
  BY <1>11, <1>0 DEF Expire
<1>12. ASSUME NEW ps, Delete(ps) PROVE \A x \in Parties : Fits(member'[x])
  BY <1>12, <1>0, EmptyFits DEF Delete
<1>13. CASE CommitMerge
  <2> DEFINE s == pass.survivor
             r == pass.retired
  <2>1. /\ s \in Parties /\ r \in Parties /\ s # r
        /\ Cardinality(Members(s) \cup Members(r)) <= MaxMembers
        /\ Members(s) \cap Members(r) = {} /\ Seats(s) \cap Seats(r) = {}
    BY <1>13, MergeWrites
  <2>2. member' = MergedRosters(s, r, pass.leader)
    BY <1>13 DEF CommitMerge
  <2>3. \A x \in Parties : x # s => member'[x] = member[x] \/ member'[x] = Nobody
    BY <2>1, <2>2, <1>0 DEF MergedRosters, RostersType
  <2>4. \A u \in Users : IF u \in Members(s) \cup Members(r)
                         THEN /\ member'[s][u] # None
                              /\ u \in Members(r) => member'[s][u].seat = member[r][u].seat
                              /\ u \in Members(s) => member'[s][u].seat = member[s][u].seat
                         ELSE member'[s][u] = None
    BY <2>1, <2>2, <1>0, MergedSeats
  <2>5. /\ Members(s) = Inside(member[s]) /\ Members(r) = Inside(member[r])
        /\ Inside(member'[s]) = Members(s) \cup Members(r)
    BY <2>4 DEF Members, Inside
  <2>6. Fits(member'[s])
    <3>1. \A u \in Members(s), v \in Members(r) :
             member[s][u].seat # None \/ member[r][v].seat # None =>
                 member[s][u].seat # member[r][v].seat
      BY <2>1 DEF Seats
    <3>2. /\ \A u \in Inside(member[s]) : member'[s][u].seat = member[s][u].seat
          /\ \A u \in Inside(member[r]) : member'[s][u].seat = member[r][u].seat
      BY <2>4, <2>5 DEF Members
    <3>3. Fits(member[s]) /\ Fits(member[r])
      BY <2>1, <1>0
    <3>4. Inside(member'[s]) = Inside(member[s]) \cup Inside(member[r])
      BY <2>5
    <3>5. Cardinality(Inside(member[s]) \cup Inside(member[r])) <= MaxMembers
      BY <2>1, <2>5
    <3>6. \A u \in Inside(member[s]), v \in Inside(member[r]) :
             /\ member[s][u].seat # None => member[s][u].seat # member[r][v].seat
             /\ member[r][v].seat # None => member[s][u].seat # member[r][v].seat
      BY <3>1, <2>5
    <3> QED
      BY <3>2, <3>3, <3>4, <3>5, <3>6, UnionFits
  <2> QED
    BY <2>3, <2>6, <1>0, EmptyFits
<1> QED
  BY <1>1, <1>2, <1>3, <1>5, <1>6, <1>7, <1>8, <1>9, <1>10, <1>11, <1>12, <1>13, QuietSteps
     DEF RosterWrites, Dissolve, FinishSweep

\* However joins, acceptances, seat changes and mergers interleave, a roster stays within
\* its size and nobody shares a position (addMemberAtomically, acceptInviteAtomically,
\* updateMyPosition, mergeRecruitingPartiesAtomically).
THEOREM RostersAlwaysFit == Spec => []RostersFit
<1>1. Init => RostersFit
  BY EmptyFits, FitsEach DEF Init
<1>2. Init => TypeInv
  BY TypeInit
<1> QED
  BY <1>1, <1>2, TypeStep, FitStep, PTL DEF Spec

-----------------------------------------------------------------------------
(* Captains *)

\* A player whom a removal or a change of rank is about is not the captain, and cannot become
\* one by a merger: the player is a member, or is kept out by a block.
Subject(p, v) ==
    /\ party[p].state # "new"
    /\ Live(p) => ~Captain(p, v) /\ (v \in Members(p) \/ block[p][v] # None)
CallsInv ==
    \A u \in Users : request[u].step \in {"remove", "rank"} =>
        Subject(request[u].party, request[u].target)

\* No removal and no change of rank begins.
CallsGoOn ==
    \A u \in Users : request'[u] = request[u] \/ request'[u].step \notin {"remove", "rank"}

LEMMA CallSteps ==
    ASSUME TypeInv, [Next]_vars
    PROVE  CallsGoOn \/ \E u, v \in Users, p \in Parties, rank \in Ranks :
                            BeginLeave(u, p) \/ BeginKick(u, p, v) \/ BeginRank(u, p, v, rank)
<1> DEFINE Others == {"idle", "join", "accept", "invite", "seat", "close", "mode", "extend",
                      "recruit", "disband", "dissolve", "settle", "refresh", "clear"}
<1>0. request \in [Users -> Formed]
  BY DEF TypeInv, RequestType
<1>1. ASSUME NEW u \in Users, NEW r, r.step \in Others, request' = [request EXCEPT ![u] = r]
      PROVE  CallsGoOn
  BY <1>0, <1>1 DEF CallsGoOn
<1>2. ASSUME NEW u \in Users, NEW step \in Others, Continue(u, step) PROVE CallsGoOn
  <2>1. request[u] \in Requests
    BY <1>0 DEF Formed
  <2>2. request'[u].step = step /\ \A w \in Users \ {u} : request'[w] = request[w]
    BY <2>1, <1>0, <1>2 DEF Continue, Requests
  <2> QED
    BY <2>2 DEF CallsGoOn
<1>3. ASSUME NEW u \in Users, Finish(u) PROVE CallsGoOn
  BY <1>0, <1>3 DEF Finish, Idle, CallsGoOn
<1>4. UNCHANGED request => CallsGoOn
  BY DEF CallsGoOn
<1>5. CASE RosterStep
  <2>1. ASSUME NEW u \in Users, NEW p \in Parties, CreateParty(u, p) PROVE CallsGoOn
    BY <2>1, <1>0 DEF CreateParty, Begin, Idle, CallsGoOn
  <2>2. ASSUME NEW u \in Users, NEW p \in Parties, NEW s, BeginSeat(u, p, s) PROVE CallsGoOn
    BY <2>2, <1>0 DEF BeginSeat, Begin, Idle, CallsGoOn
  <2>3. \E rank : rank \in Ranks
    BY DEF Ranks
  <2> QED
    BY <1>5, <2>1, <2>2, <2>3 DEF RosterStep
<1>6. CASE EntryStep
  <2>1. ASSUME NEW u \in Users, NEW p \in Parties, NEW s, NEW how,
               BeginJoin(u, p, s, how) \/ BeginApply(u, p, s, how)
        PROVE  CallsGoOn
    BY <2>1, <1>0 DEF BeginJoin, BeginApply, Begin, Idle, CallsGoOn
  <2>2. ASSUME NEW u \in Users, NEW p \in Parties, NEW v, NEW s, NEW how,
               BeginInvite(u, p, v, s, how)
        PROVE  CallsGoOn
    BY <2>2, <1>0 DEF BeginInvite, Begin, Idle, CallsGoOn
  <2>3. ASSUME NEW u \in Users, NEW p \in Parties, NEW v, BeginAccept(u, p, v) PROVE CallsGoOn
    <3>1. CASE UNCHANGED request
      BY <3>1, <1>4
    <3>2. CASE ~UNCHANGED request
      BY <2>3, <3>2, <1>0, ZenonT(60) DEF BeginAccept, Begin, Idle, CallsGoOn
    <3> QED
      BY <3>1, <3>2
  <2>4. ASSUME NEW u, NEW p, NEW v, TurnAway(u, p) \/ DeclineInvite(u, p, v) \/ InviteLapses(p, u)
        PROVE  CallsGoOn
    BY <2>4, <1>4 DEF TurnAway, DeclineInvite, InviteLapses
  <2> QED
    BY <1>6, <2>1, <2>2, <2>3, <2>4, Zenon DEF EntryStep
<1>7. CASE SettingStep
  <2>1. ASSUME NEW u \in Users, NEW p \in Parties, NEW mode, BeginMode(u, p, mode) PROVE CallsGoOn
    BY <2>1, <1>0 DEF BeginMode, Begin, Idle, CallsGoOn
  <2>2. ASSUME NEW u \in Users, NEW p \in Parties, BeginExtend(u, p) \/ BeginDisband(u, p)
        PROVE  CallsGoOn
    BY <2>2, <1>0, ZenonT(60) DEF BeginExtend, BeginDisband, Begin, Idle, CallsGoOn
  <2>3. ASSUME NEW u \in Users, NEW p \in Parties, NEW chosen, NEW on, BeginRecruit(u, p, chosen, on)
        PROVE  CallsGoOn
    BY <2>3, <1>0 DEF BeginRecruit, Begin, Idle, CallsGoOn
  <2> QED
    BY <1>7, <2>1, <2>2, <2>3 DEF SettingStep
<1>8. CASE SearchStep
  BY <1>8, <1>4 DEF SearchStep, LookForParty, StopLooking, AutoMatch
<1>9. CASE RequestStep
  <2>1. PICK u \in Users :
           \/ Join(u) \/ Accept(u) \/ Settle(u) \/ Refresh(u) \/ Clear(u) \/ CreateInvite(u)
           \/ Remove(u) \/ ChangeRank(u) \/ Seat(u) \/ Close(u) \/ SetMode(u) \/ Extend(u)
           \/ Recruit(u) \/ Disband(u) \/ Dissolve(u) \/ GiveUp(u)
    BY <1>9 DEF RequestStep
  <2>2. Join(u) \/ Accept(u) \/ CreateInvite(u) \/ Remove(u) => CallsGoOn
    BY <1>2, <1>3 DEF Join, Accept, CreateInvite, Remove
  <2>3. Clear(u) \/ ChangeRank(u) \/ Seat(u) \/ Close(u) \/ SetMode(u) => CallsGoOn
    BY <1>2, <1>3 DEF Clear, ChangeRank, Seat, Close, SetMode
  <2>4. Extend(u) \/ Recruit(u) \/ Disband(u) \/ Dissolve(u) \/ GiveUp(u) => CallsGoOn
    BY <1>2, <1>3 DEF Extend, Recruit, Disband, Dissolve, GiveUp
  <2>5. ASSUME Settle(u) PROVE CallsGoOn
    <3>1. CASE Finish(u)
      BY <3>1, <1>3
    <3>2. CASE ~Finish(u)
      BY <2>5, <3>2, <1>0, ZenonT(60) DEF Settle, Idle, CallsGoOn
    <3> QED
      BY <3>1, <3>2
  <2>6. ASSUME Refresh(u) PROVE CallsGoOn
    <3>1. CASE Finish(u)
      BY <3>1, <1>3
    <3>2. CASE ~Finish(u)
      <4>1. request[u] \in Requests
        BY <1>0 DEF Formed
      <4>2. PICK to : request' = [request EXCEPT ![u].step = "clear", ![u].party = to]
        BY <2>6, <3>2 DEF Refresh
      <4>3. request'[u].step = "clear" /\ \A w \in Users \ {u} : request'[w] = request[w]
        BY <4>1, <4>2, <1>0 DEF Requests
      <4> QED
        BY <4>3 DEF CallsGoOn
    <3> QED
      BY <3>1, <3>2
  <2> QED
    BY <2>1, <2>2, <2>3, <2>4, <2>5, <2>6
<1>10. CASE TimerStep
  BY <1>10, <1>4 DEF TimerStep, BeginMerge, ReadForMerge, CommitMerge, PassEnds, FinishSweep,
     Expire, ListExpired
<1>11. CASE UNCHANGED vars
  BY <1>11, <1>4 DEF vars
<1> QED
  BY <1>5, <1>6, <1>7, <1>8, <1>9, <1>10, <1>11 DEF Next

\* Players stay whom calls are about, as long as their party lives.
SubjectsStay == \A p \in Parties, v \in Users : Subject(p, v) => Subject(p, v)'

LEMMA CallsKept ==
    ASSUME TypeInv, CallsInv, CallsGoOn, SubjectsStay
    PROVE  CallsInv'
<1>1. ASSUME NEW u \in Users, request'[u].step \in {"remove", "rank"}
      PROVE  Subject(request[u].party, request[u].target)'
  <2>1. request'[u] = request[u]
    BY <1>1 DEF CallsGoOn
  <2>2. request[u].party \in Parties /\ request[u].target \in Users
    BY <1>1, <2>1 DEF TypeInv, RequestType, Formed
  <2>3. Subject(request[u].party, request[u].target)
    BY <1>1, <2>1 DEF CallsInv
  <2> DEFINE p == request[u].party
             v == request[u].target
  <2>4. Subject(p, v)'
    <3> SUFFICES ASSUME NEW q \in Parties, NEW w \in Users, Subject(q, w) PROVE Subject(q, w)'
      BY <2>1, <2>2, <2>3 DEF Subject, Live, Captain, Members
    <3> QED
      BY DEF SubjectsStay
  <2> QED
    BY <2>4
<1> QED
  BY <1>1 DEF CallsInv

\* A roster led by its captain.
Led(p) == \A u \in Users : Captain(p, u) <=> u \in Members(p) /\ member[p][u].rank = "OWNER"

\* What leaves captains and the subjects of calls as they are.
LEMMA SameLeads ==
    ASSUME CaptainLeads, NEW p \in Parties, Live(p)' => Live(p),
           party'[p].owner = party[p].owner \/ ~Live(p)',
           \A u \in Users : Live(p)' =>
               ((u \in Members(p) /\ member[p][u].rank = "OWNER") <=>
                   (member'[p][u] # None /\ member'[p][u].rank = "OWNER"))
    PROVE  Live(p)' => Led(p)'
BY DEF CaptainLeads, Led, Live, Captain, Members

LEMMA LeadStep ==
    ASSUME TypeInv, CaptainLeads, CallsInv, RosterWrites
    PROVE  CaptainLeads' /\ SubjectsStay
<1>0. RostersType /\ AbsentIsEmpty
  BY DEF TypeInv
<1>1. SUFFICES ASSUME NEW p \in Parties
               PROVE  /\ Live(p)' => Led(p)'
                      /\ \A v \in Users : Subject(p, v) => Subject(p, v)'
  BY DEF CaptainLeads, Led, SubjectsStay
<1>2. UNCHANGED <<party[p], member[p], block[p]>> =>
         (Live(p)' => Led(p)') /\ \A v \in Users : Subject(p, v) => Subject(p, v)'
  BY DEF CaptainLeads, Led, Subject, Live, Captain, Members
<1>3. ASSUME NEW u \in Users, NEW q \in Parties, CreateParty(u, q)
      PROVE  (Live(p)' => Led(p)') /\ \A v \in Users : Subject(p, v) => Subject(p, v)'
  <2>1. /\ party[q].state = "new" /\ member[q] = Nobody
        /\ party' = [party EXCEPT ![q].state = "live", ![q].owner = u]
        /\ member' = [member EXCEPT ![q][u] = [rank |-> "OWNER", seat |-> None]]
        /\ UNCHANGED block
    BY <1>3, <1>0 DEF CreateParty, NextParty, NewParty, AbsentIsEmpty
  <2>2. CASE p # q
    BY <2>1, <2>2, <1>0, <1>2 DEF RostersType
  <2>3. CASE p = q
    <3>1. party'[p].owner = u
      BY <2>1, <2>3, <1>0 DEF RostersType, Rows
    <3>2. [rank |-> "OWNER", seat |-> None] # None
      BY NoneAssumption DEF Memberships, Ranks
    <3>3. \A v \in Users : IF v = u THEN member'[p][v] # None /\ member'[p][v].rank = "OWNER"
                           ELSE member'[p][v] = None
      BY <2>1, <2>3, <3>2, <1>0 DEF RostersType, Nobody
    <3> QED
      BY <2>1, <2>3, <3>1, <3>3 DEF Led, Captain, Members, Subject
  <2> QED
    BY <2>2, <2>3
<1>4. ASSUME NEW q \in Parties, NEW group \in SUBSET Users,
             NEW lineup \in [group -> Positions], NEW leader \in group,
             AutoMatch(q, group, lineup, leader)
      PROVE  (Live(p)' => Led(p)') /\ \A v \in Users : Subject(p, v) => Subject(p, v)'
  <2>1. /\ party[q].state = "new"
        /\ party' = [party EXCEPT ![q].state = "live", ![q].owner = leader]
        /\ member' = [member EXCEPT ![q] = [w \in Users |->
               IF w \notin group THEN None
               ELSE [rank |-> IF w = leader THEN "OWNER" ELSE "MEMBER", seat |-> lineup[w]]]]
        /\ UNCHANGED block
    BY <1>4 DEF AutoMatch, NextParty, NewParty
  <2>2. CASE p # q
    BY <2>1, <2>2, <1>0, <1>2 DEF RostersType
  <2>3. CASE p = q
    <3>1. party'[p].owner = leader
      BY <2>1, <2>3, <1>0 DEF RostersType, Rows
    <3>2. \A w \in group : [rank |-> IF w = leader THEN "OWNER" ELSE "MEMBER", seat |-> lineup[w]]
                              # None
      BY NoneAssumption DEF Memberships, Ranks
    <3>3. \A v \in Users : IF v \in group
                           THEN /\ member'[p][v] # None
                                /\ member'[p][v].rank = "OWNER" <=> v = leader
                           ELSE member'[p][v] = None
      BY <2>1, <2>3, <3>2, <1>0 DEF RostersType
    <3> QED
      BY <2>1, <2>3, <3>1, <3>3 DEF Led, Captain, Members, Subject
  <2> QED
    BY <2>2, <2>3
\* Somebody comes in as a member.
<1>5. ASSUME NEW q \in Parties, NEW w \in Users, Live(q), w \notin Members(q), UNCHANGED party,
             NEW s \in Positions \cup {None},
             member' = [member EXCEPT ![q][w] = [rank |-> "MEMBER", seat |-> s]],
             UNCHANGED block \/ block' = [block EXCEPT ![q][w] = None]
      PROVE  (Live(p)' => Led(p)') /\ \A v \in Users : Subject(p, v) => Subject(p, v)'
  <2>1. CASE p # q
    <3>1. member'[p] = member[p] /\ block'[p] = block[p]
      BY <2>1, <1>5, <1>0 DEF RostersType
    <3> QED
      BY <3>1, <1>2, <1>5
  <2>2. CASE p = q
    <3>1. [rank |-> "MEMBER", seat |-> s] # None
      BY NoneAssumption DEF Memberships, Ranks
    <3>2. \A v \in Users : IF v = w THEN member'[p][v] # None /\ member'[p][v].rank = "MEMBER"
                           ELSE member'[p][v] = member[p][v]
      BY <2>2, <3>1, <1>5, <1>0 DEF RostersType
    <3>3. \A v \in Users : v # w => block'[p][v] = block[p][v]
      BY <2>2, <1>5, <1>0 DEF RostersType
    <3>4. Live(p)' => Led(p)'
      BY <2>2, <3>2, <1>5, SameLeads DEF Live, Members
    <3>5. \A v \in Users : Subject(p, v) => Subject(p, v)'
      BY <2>2, <3>2, <3>3, <1>5 DEF Subject, Live, Captain, Members
    <3> QED
      BY <3>4, <3>5
  <2> QED
    BY <2>1, <2>2
<1>6. ASSUME NEW u \in Users, Join(u) \/ Accept(u)
      PROVE  (Live(p)' => Led(p)') /\ \A v \in Users : Subject(p, v) => Subject(p, v)'
  <2> DEFINE q == request[u].party
             s == request[u].seat
             w == IF Join(u) THEN u ELSE request[u].target
  <2>1. q \in Parties /\ w \in Users /\ s \in Positions \cup {None}
    BY <1>6 DEF TypeInv, RequestType, Formed, Requests, Join, Accept, At
  <2>2. UNCHANGED party /\ Live(q)
    BY <1>6 DEF Join, Accept
  <2>3. \/ UNCHANGED <<member, block>>
        \/ /\ w \notin Members(q)
           /\ member' = [member EXCEPT ![q][w] = [rank |-> "MEMBER", seat |-> s]]
           /\ UNCHANGED block \/ block' = [block EXCEPT ![q][w] = None]
    BY <1>6 DEF Join, Accept
  <2> HIDE DEF q, s, w
  <2>4. CASE UNCHANGED <<member, block>>
    BY <2>2, <2>4, <1>2
  <2> QED
    BY <2>1, <2>2, <2>3, <2>4, <1>5
<1>7. ASSUME NEW u \in Users, Remove(u)
      PROVE  (Live(p)' => Led(p)') /\ \A v \in Users : Subject(p, v) => Subject(p, v)'
  <2> DEFINE q == request[u].party
             w == request[u].target
  <2>1. /\ q \in Parties /\ w \in Users /\ request[u].what \in {"left", "kicked"}
        /\ request[u].step = "remove" /\ UNCHANGED party
    BY <1>7 DEF TypeInv, RequestType, Formed, Remove, At
  <2>2. Live(q) => ~Captain(q, w)
    BY <2>1 DEF CallsInv, Subject
  <2>3. CASE UNCHANGED <<member, block>>
    BY <2>1, <2>3, <1>2
  <2>4. CASE /\ member' = [member EXCEPT ![q][w] = None]
             /\ block' = [block EXCEPT ![q][w] = request[u].what]
    <3>1. CASE p # q
      <4>1. member'[p] = member[p] /\ block'[p] = block[p]
        BY <2>4, <3>1, <1>0 DEF RostersType
      <4> QED
        BY <4>1, <2>1, <1>2
    <3>2. CASE p = q
      <4>1. \A v \in Users : IF v = w THEN member'[p][v] = None /\ block'[p][v] # None
                             ELSE member'[p][v] = member[p][v] /\ block'[p][v] = block[p][v]
        BY <2>1, <2>4, <3>2, <1>0, NoneAssumption DEF RostersType
      <4>2. Live(p)' => Led(p)'
        BY <2>1, <2>2, <3>2, <4>1 DEF CaptainLeads, Led, Live, Captain, Members
      <4>3. \A v \in Users : Subject(p, v) => Subject(p, v)'
        BY <2>1, <3>2, <4>1 DEF Subject, Live, Captain, Members
      <4> QED
        BY <4>2, <4>3
    <3> QED
      BY <3>1, <3>2
  <2> QED
    BY <1>7, <2>3, <2>4 DEF Remove
<1>8. ASSUME NEW u \in Users, ChangeRank(u)
      PROVE  (Live(p)' => Led(p)') /\ \A v \in Users : Subject(p, v) => Subject(p, v)'
  <2> DEFINE q == request[u].party
             w == request[u].target
  <2>1. /\ q \in Parties /\ w \in Members(q) /\ request[u].what \in {"OFFICER", "MEMBER"}
        /\ request[u].step = "rank" /\ UNCHANGED <<party, block>>
        /\ member' = [member EXCEPT ![q][w].rank = request[u].what]
    BY <1>8 DEF TypeInv, RequestType, Formed, ChangeRank, At
  <2>2. Live(q) => ~Captain(q, w)
    BY <2>1 DEF CallsInv, Subject
  <2>3. CASE p # q
    <3>1. member'[p] = member[p]
      BY <2>1, <2>3, <1>0 DEF RostersType
    <3> QED
      BY <3>1, <2>1, <1>2
  <2>4. CASE p = q
    <3>1. member[q][w] \in Memberships /\ w \in Users
      BY <2>1, <1>0 DEF RostersType, Members
    <3>2. [member[q][w] EXCEPT !.rank = request[u].what] \in Memberships
      BY <3>1, <2>1, RankedMembership DEF Ranks
    <3>3. \A v \in Users : IF v = w THEN member'[p][v] # None /\ member'[p][v].rank # "OWNER"
                           ELSE member'[p][v] = member[p][v]
      <4>1. member'[p][w] = [member[q][w] EXCEPT !.rank = request[u].what]
        BY <2>1, <2>4, <3>1, <1>0 DEF RostersType
      <4>2. member'[p][w].rank # "OWNER"
        BY <4>1, <2>1, <3>1 DEF Memberships
      <4>3. \A v \in Users \ {w} : member'[p][v] = member[p][v]
        BY <2>1, <2>4, <1>0 DEF RostersType
      <4> QED
        BY <4>1, <4>2, <4>3, <3>2, NoneAssumption
    <3>4. Live(p)' => Led(p)'
      BY <2>1, <2>2, <2>4, <3>1, <3>3 DEF CaptainLeads, Led, Live, Captain, Members
    <3>5. \A v \in Users : Subject(p, v) => Subject(p, v)'
      BY <2>1, <3>3 DEF Subject, Live, Captain, Members
    <3> QED
      BY <3>4, <3>5
  <2> QED
    BY <2>3, <2>4
<1>9. ASSUME NEW u \in Users, Seat(u)
      PROVE  (Live(p)' => Led(p)') /\ \A v \in Users : Subject(p, v) => Subject(p, v)'
  <2> DEFINE q == request[u].party
  <2>1. /\ q \in Parties /\ u \in Members(q) /\ UNCHANGED <<party, block>>
        /\ member' = [member EXCEPT ![q][u].seat = request[u].seat]
        /\ request[u].seat \in Positions \cup {None}
    BY <1>9 DEF TypeInv, RequestType, Formed, Requests, Seat, At
  <2>2. CASE p # q
    <3>1. member'[p] = member[p]
      BY <2>1, <2>2, <1>0 DEF RostersType
    <3> QED
      BY <3>1, <2>1, <1>2
  <2>3. CASE p = q
    <3>1. member[q][u] \in Memberships
      BY <2>1, <1>0 DEF RostersType, Members
    <3>2. [member[q][u] EXCEPT !.seat = request[u].seat] \in Memberships
      BY <3>1, <2>1, SeatedMembership
    <3>3. member'[p][u] # None /\ member'[p][u].rank = member[p][u].rank
      <4>1. member'[p][u] = [member[q][u] EXCEPT !.seat = request[u].seat]
        BY <2>1, <2>3, <3>1, <1>0 DEF RostersType
      <4>2. member'[p][u].rank = member[p][u].rank
        BY <4>1, <2>3, <3>1 DEF Memberships
      <4> QED
        BY <4>1, <4>2, <3>2, NoneAssumption
    <3>4. \A v \in Users \ {u} : member'[p][v] = member[p][v]
      BY <2>1, <2>3, <1>0 DEF RostersType
    <3>5. Live(p)' => Led(p)'
      BY <2>1, <2>3, <3>3, <3>4, SameLeads DEF Live, Members
    <3>6. \A v \in Users : Subject(p, v) => Subject(p, v)'
      BY <2>1, <2>3, <3>3, <3>4 DEF Subject, Live, Captain, Members
    <3> QED
      BY <3>5, <3>6
  <2> QED
    BY <2>2, <2>3
<1>10. ASSUME UNCHANGED <<member, block>>,
              party'[p].state = party[p].state, party'[p].owner = party[p].owner
       PROVE  (Live(p)' => Led(p)') /\ \A v \in Users : Subject(p, v) => Subject(p, v)'
  BY <1>10 DEF CaptainLeads, Led, Subject, Live, Captain, Members
<1>11. ASSUME NEW u \in Users, SetMode(u) \/ Extend(u)
       PROVE  (Live(p)' => Led(p)') /\ \A v \in Users : Subject(p, v) => Subject(p, v)'
  <2>1. UNCHANGED <<member, block>>
    BY <1>11 DEF SetMode, Extend
  <2>2. party'[p].state = party[p].state /\ party'[p].owner = party[p].owner
    <3>1. CASE SetMode(u)
      BY <3>1, <1>0 DEF SetMode, RostersType, Rows
    <3>2. CASE Extend(u)
      BY <3>2, <1>0 DEF Extend, RostersType, Rows
    <3> QED
      BY <1>11, <3>1, <3>2
  <2> QED
    BY <2>1, <2>2, <1>10
<1>12. ASSUME NEW q \in Parties, Expire(q)
       PROVE  (Live(p)' => Led(p)') /\ \A v \in Users : Subject(p, v) => Subject(p, v)'
  <2>1. party'[p].state = party[p].state /\ party'[p].owner = party[p].owner
    BY <1>12, <1>0 DEF Expire, RostersType, Rows
  <2> QED
    BY <2>1, <1>10, <1>12 DEF Expire
<1>13. ASSUME NEW ps, Delete(ps)
       PROVE  (Live(p)' => Led(p)') /\ \A v \in Users : Subject(p, v) => Subject(p, v)'
  <2>1. CASE p \in ps
    BY <2>1, <1>13 DEF Delete, Live, Subject
  <2>2. CASE p \notin ps
    BY <2>2, <1>13, <1>2 DEF Delete
  <2> QED
    BY <2>1, <2>2
<1>14. ASSUME CommitMerge
       PROVE  (Live(p)' => Led(p)') /\ \A v \in Users : Subject(p, v) => Subject(p, v)'
  <2> DEFINE s == pass.survivor
             r == pass.retired
             l == pass.leader
  <2>1. /\ s \in Parties /\ r \in Parties /\ s # r /\ Live(s) /\ Live(r)
        /\ l \in {party[s].owner, party[r].owner} /\ l \in Members(s) \cup Members(r)
        /\ party[r].owner \in Members(r) /\ Members(s) \cap Members(r) = {}
        /\ \A u \in Members(r) : block[s][u] = None
    BY <1>14, MergeWrites
  <2>2. /\ party' = MergedRows(s, r, l) /\ member' = MergedRosters(s, r, l)
        /\ block' = MergedBlocks(s, r)
    BY <1>14 DEF CommitMerge
  <2>3. CASE p = r
    <3>1. party'[r].state = "merged"
      BY <2>1, <2>2, <1>0 DEF MergedRows, RostersType, Rows
    <3> QED
      BY <2>3, <3>1 DEF Live, Subject
  <2>4. CASE p # r /\ p # s
    <3>1. /\ member'[p] = member[p] /\ block'[p] = block[p]
          /\ party'[p].state = party[p].state /\ party'[p].owner = party[p].owner
      BY <2>2, <2>4, <1>0 DEF MergedRows, MergedRosters, MergedBlocks, RostersType, Rows
    <3> QED
      BY <3>1 DEF CaptainLeads, Led, Subject, Live, Captain, Members
  <2>5. CASE p = s
    <3>1. party'[p].owner = l
      BY <2>1, <2>2, <2>5, <1>0 DEF MergedRows, RostersType, Rows
    <3>2. \A m \in Memberships :
             /\ [m EXCEPT !.rank = "MEMBER"] \in Memberships
             /\ [m EXCEPT !.rank = "MEMBER"].rank = "MEMBER"
             /\ [m EXCEPT !.rank = "OWNER"] \in Memberships
             /\ [m EXCEPT !.rank = "OWNER"].rank = "OWNER"
      BY RankedMembership DEF Ranks, Memberships
    <3>3. \A u \in Users : IF u \in Members(s) \cup Members(r)
                           THEN /\ member'[s][u] # None
                                /\ member'[s][u].rank = "OWNER" <=> u = l
                           ELSE member'[s][u] = None
      <4> SUFFICES ASSUME NEW u \in Users
                   PROVE  IF u \in Members(s) \cup Members(r)
                          THEN /\ member'[s][u] # None
                               /\ member'[s][u].rank = "OWNER" <=> u = l
                          ELSE member'[s][u] = None
        BY SMTT(20)
      <4> DEFINE m == IF member[r][u] # None THEN [member[r][u] EXCEPT !.rank = "MEMBER"]
                      ELSE member[s][u]
      <4>1. member'[s][u] = IF m = None THEN None
                            ELSE IF u = l THEN [m EXCEPT !.rank = "OWNER"]
                            ELSE IF m.rank = "OWNER" THEN [m EXCEPT !.rank = "MEMBER"]
                            ELSE m
        BY <2>1, <2>2, <1>0 DEF MergedRosters, RostersType
      <4>2. member[r][u] \in Memberships \cup {None} /\ member[s][u] \in Memberships \cup {None}
        BY <2>1, <1>0 DEF RostersType
      <4>3. IF u \in Members(s) \cup Members(r) THEN m \in Memberships ELSE m = None
        <5>1. CASE u \in Members(r)
          <6>1. [member[r][u] EXCEPT !.rank = "MEMBER"] \in Memberships
            BY <3>2, <4>2, <5>1 DEF Members
          <6> QED
            BY <5>1, <6>1 DEF Members
        <5>2. CASE u \notin Members(r)
          BY <4>2, <5>2 DEF Members
        <5> QED
          BY <5>1, <5>2
      <4> HIDE DEF m
      <4> QED
        BY <3>2, <4>1, <4>3, NoneAssumption
    <3>4. Led(p)'
      <4>1. \A u \in Users : u = l <=> (member'[p][u] # None /\ member'[p][u].rank = "OWNER")
        BY <2>1, <2>5, <3>3
      <4> QED
        BY <3>1, <4>1 DEF Led, Captain, Members
    <3>5. ASSUME NEW v \in Users, Subject(p, v) PROVE Subject(p, v)'
      <4>1. ~Captain(s, v) /\ (v \in Members(s) \/ block[s][v] # None)
        BY <3>5, <2>1, <2>5 DEF Subject
      <4>2. v \notin Members(r) /\ v # l
        BY <4>1, <2>1 DEF Captain
      <4>3. v \notin Members(s) => block'[s][v] # None
        BY <4>1, <4>2, <2>1, <2>2, <1>0, NoneAssumption DEF MergedBlocks, RostersType
      <4>4. v \in Members(s) => member'[s][v] # None
        BY <3>3
      <4>5. party'[s].state # "new"
        BY <2>1, <2>2, <1>0 DEF MergedRows, RostersType, Rows, Live
      <4> QED
        BY <2>5, <3>1, <4>2, <4>1, <4>3, <4>4, <4>5 DEF Subject, Captain, Members
    <3> QED
      BY <3>4, <3>5
  <2> QED
    BY <2>3, <2>4, <2>5
<1> QED
  BY <1>3, <1>4, <1>6, <1>7, <1>8, <1>9, <1>11, <1>12, <1>13, <1>14
     DEF RosterWrites, Dissolve, FinishSweep

\* Captains keep leading, and calls never come to be about a captain.
LEMMA CaptainStep ==
    TypeInv /\ CaptainLeads /\ CallsInv /\ [Next]_vars => CaptainLeads' /\ CallsInv'
<1> SUFFICES ASSUME TypeInv, CaptainLeads, CallsInv, [Next]_vars PROVE CaptainLeads' /\ CallsInv'
  OBVIOUS
<1>1. CaptainLeads' /\ SubjectsStay
  <2>1. CASE UNCHANGED rosters
    BY <2>1 DEF rosters, CaptainLeads, SubjectsStay, Subject, Live, Captain, Members
  <2> QED
    BY <2>1, QuietSteps, LeadStep
<1>2. ASSUME NEW u \in Users, NEW v \in Users, NEW p \in Parties, NEW rank \in Ranks,
             BeginLeave(u, p) \/ BeginKick(u, p, v) \/ BeginRank(u, p, v, rank)
      PROVE  CallsInv'
  <2>1. /\ UNCHANGED rosters /\ Live(p) /\ \A w \in Users \ {u} : request'[w] = request[w]
        /\ request \in [Users -> Formed]
    BY <1>2 DEF BeginLeave, BeginKick, BeginRank, Found, Begin, TypeInv, RequestType
  <2>2. request'[u].step \in {"remove", "rank"} =>
           \E w \in {u, v} : /\ request'[u].party = p /\ request'[u].target = w
                             /\ w \in Members(p) /\ member[p][w].rank # "OWNER"
    BY <1>2, <2>1, ZenonT(60) DEF BeginLeave, BeginKick, BeginRank, Begin, Idle
  <2>3. \A w \in Users : w \in Members(p) /\ member[p][w].rank # "OWNER" => Subject(p, w)
    BY <2>1 DEF Subject, CaptainLeads, Live
  <2>4. \A q, w : Subject(q, w)' <=> Subject(q, w)
    BY <2>1 DEF rosters, Subject, Live, Captain, Members
  <2> QED
    BY <2>1, <2>2, <2>3, <2>4 DEF CallsInv
<1>3. CallsInv'
  BY <1>1, <1>2, CallSteps, CallsKept
<1> QED
  BY <1>1, <1>3

\* A live party is led by a member and by nobody else, whatever leaves, kicks, promotions and
\* mergers were decided on older rosters (leaveParty, kickMember, updateMemberRole).
THEOREM CaptainsLead == Spec => []CaptainLeads
<1>1. Init => CaptainLeads /\ CallsInv
  BY DEF Init, CaptainLeads, CallsInv, Live, Idle
<1>2. Init => TypeInv
  BY TypeInit
<1> QED
  BY <1>1, <1>2, TypeStep, CaptainStep, PTL DEF Spec

-----------------------------------------------------------------------------
(* Retired parties *)

\* Only a live party takes its first invitation or application.
LEMMA LettersStay ==
    ASSUME TypeInv, [Next]_vars, NEW p \in Parties, invite[p] = Nobody, ~Live(p)
    PROVE  invite'[p] = Nobody
<1>0. invite \in InviteTables /\ request \in [Users -> Formed]
  BY DEF TypeInv, LettersType, RequestType
<1> DEFINE Stays == invite'[p] = Nobody
<1>1. UNCHANGED invite => Stays
  OBVIOUS
<1>2. \A q \in Parties : invite' = AllCancelled(invite, q) => Stays
  BY <1>0, AllCancelledType DEF Empties
<1>3. ASSUME NEW q \in Parties, NEW s, invite' = SeatClosed(invite, q, s) PROVE Stays
  BY <1>0, <1>3, SeatClosedType DEF Empties
<1>4. ASSUME NEW q, NEW v, invite' = [invite EXCEPT ![q][v] = None] PROVE Stays
  BY <1>0, <1>4 DEF InviteTables, Nobody
<1>5. CASE RosterStep
  <2>1. ASSUME NEW u, NEW q, NEW v, NEW s, NEW rank
        PROVE  /\ CreateParty(u, q) \/ BeginLeave(u, q) \/ BeginKick(u, q, v) => Stays
               /\ BeginRank(u, q, v, rank) \/ BeginSeat(u, q, s) => Stays
    BY <1>1 DEF CreateParty, BeginLeave, BeginKick, BeginRank, BeginSeat, letters
  <2> QED
    BY <1>5, <2>1, Zenon DEF RosterStep
<1>6. CASE EntryStep
  <2>1. ASSUME NEW u, NEW q, NEW v, NEW s, NEW how
        PROVE  /\ BeginJoin(u, q, s, how) \/ BeginApply(u, q, s, how) => Stays
               /\ BeginInvite(u, q, v, s, how) => Stays
    BY <1>1 DEF BeginJoin, BeginApply, BeginInvite, letters
  <2>2. ASSUME NEW u, NEW q \in Parties, NEW v
        PROVE  /\ TurnAway(u, q) \/ InviteLapses(q, u) => Stays
               /\ DeclineInvite(u, q, v) => Stays
    BY <1>2, <1>4 DEF TurnAway, DeclineInvite, InviteLapses
  <2>3. ASSUME NEW u, NEW q \in Parties, NEW v
        PROVE  BeginAccept(u, q, v) => Stays
    BY <1>1, <1>2, <1>3 DEF BeginAccept
  <2> QED
    BY <1>6, <2>1, <2>2, <2>3, Zenon DEF EntryStep
<1>7. CASE SettingStep
  BY <1>1, <1>7 DEF SettingStep, BeginMode, BeginExtend, BeginDisband, BeginRecruit, letters
<1>8. CASE SearchStep
  BY <1>1, <1>8 DEF SearchStep, LookForParty, StopLooking, AutoMatch, letters
<1>9. CASE RequestStep
  <2>1. PICK u \in Users :
           \/ Join(u) \/ Accept(u) \/ Settle(u) \/ Refresh(u) \/ Clear(u) \/ CreateInvite(u)
           \/ Remove(u) \/ ChangeRank(u) \/ Seat(u) \/ Close(u) \/ SetMode(u) \/ Extend(u)
           \/ Recruit(u) \/ Disband(u) \/ Dissolve(u) \/ GiveUp(u)
    BY <1>9 DEF RequestStep
  <2> DEFINE q == request[u].party
  <2>2. request[u].step # "idle" => q \in Parties
    BY <1>0 DEF Formed
  <2>3. Join(u) => Stays
    <3>1. \A v : invite' = ApplicationsCancelled(invite, v) => Stays
      BY <1>0, ApplicationsCancelledType DEF Empties
    <3> QED
      BY <1>1, <1>2, <1>3, <2>2, <3>1 DEF Join, At
  <2>4. ASSUME Accept(u) PROVE Stays
    <3>1. Live(q) /\ q \in Parties /\ q # p
      BY <2>2, <2>4 DEF Accept, At
    <3>2. ASSUME NEW kept, NEW v, invite' = ApplicationsCancelled(Cancelled(invite, q, kept), v)
          PROVE  Stays
      <4>1. /\ Cancelled(invite, q, kept) \in InviteTables
            /\ Empties(invite, Cancelled(invite, q, kept))
        BY <1>0, <3>1, CancelledType
      <4> HIDE DEF Stays
      <4>2. Empties(Cancelled(invite, q, kept), invite')
        BY <3>2, <4>1, ApplicationsCancelledType
      <4> QED
        BY <4>1, <4>2 DEF Empties, Stays
    <3>3. \/ \E kept, v : invite' = ApplicationsCancelled(Cancelled(invite, q, kept), v)
          \/ invite' = AllCancelled(invite, q)
          \/ invite' = SeatClosed(invite, q, request[u].seat)
      BY <2>4 DEF Accept, InvitesAfter
    <3> QED
      BY <1>2, <1>3, <3>1, <3>2, <3>3
  <2>5. CreateInvite(u) => Stays
    BY <1>0 DEF CreateInvite, Invitable, InviteTables
  <2>6. Settle(u) \/ Close(u) \/ Disband(u) => Stays
    BY <1>1, <1>2, <1>3, <2>2 DEF Settle, Close, Disband, At
  <2>7. Remove(u) => Stays
    BY <1>1, <1>4 DEF Remove
  <2>8. Dissolve(u) => Stays
    BY <1>0 DEF Dissolve, Delete
  <2>9. Refresh(u) \/ Clear(u) \/ ChangeRank(u) \/ Seat(u) \/ SetMode(u) => Stays
    BY <1>1 DEF Refresh, Clear, ChangeRank, Seat, SetMode, letters
  <2>10. Extend(u) \/ Recruit(u) \/ GiveUp(u) => Stays
    BY <1>1 DEF Extend, Recruit, GiveUp, letters
  <2> QED
    BY <2>1, <2>3, <2>4, <2>5, <2>6, <2>7, <2>8, <2>9, <2>10
<1>10. CASE TimerStep
  BY <1>1, <1>10 DEF TimerStep, BeginMerge, ReadForMerge, CommitMerge, PassEnds, FinishSweep,
     Expire, ListExpired, Delete, letters
<1>11. CASE UNCHANGED vars
  BY <1>1, <1>11 DEF vars
<1> QED
  BY <1>5, <1>6, <1>7, <1>8, <1>9, <1>10, <1>11 DEF Next

\* Links of retired parties lead somewhere.
LinksLead == \A p \in Parties : party[p].state = "merged" => party[p].into \in Parties

\* A step that leaves rows' states and links alone, and writes no roster of a retired party.
LEMMA RetiredKept ==
    ASSUME NobodyWaitsAtAMergedParty, LinksLead,
           \A p \in Parties : party[p].state = "merged" => invite'[p] = Nobody,
           \A p \in Parties : party[p].state = "merged" /\ member[p] = Nobody /\ block[p] = Nobody =>
                                member'[p] = Nobody /\ block'[p] = Nobody,
           \A p \in Parties : /\ party'[p].state = "merged" <=> party[p].state = "merged"
                              /\ party[p].state = "merged" => party'[p].into = party[p].into
    PROVE  NobodyWaitsAtAMergedParty' /\ LinksLead'
BY DEF NobodyWaitsAtAMergedParty, LinksLead

\* Nothing comes back to a retired party.
LEMMA RetiredStep ==
    TypeInv /\ NobodyWaitsAtAMergedParty /\ LinksLead /\ [Next]_vars =>
        NobodyWaitsAtAMergedParty' /\ LinksLead'
<1> SUFFICES ASSUME TypeInv, NobodyWaitsAtAMergedParty, LinksLead, [Next]_vars
             PROVE  NobodyWaitsAtAMergedParty' /\ LinksLead'
  OBVIOUS
<1>0. RostersType /\ AbsentIsEmpty
  BY DEF TypeInv
<1>1. \A p \in Parties : party[p].state = "merged" =>
         /\ member[p] = Nobody /\ block[p] = Nobody /\ Members(p) = {} /\ ~Live(p)
         /\ invite'[p] = Nobody
  BY LettersStay DEF NobodyWaitsAtAMergedParty, Live, Members, Nobody
<1>2. CASE UNCHANGED rosters
  BY <1>1, <1>2, RetiredKept DEF rosters
\* A step that writes the rosters of a party with members, or of one that lives.
<1>3. ASSUME NEW q \in Parties, party[q].state # "merged", party'[q].state # "merged",
             \A x \in Parties : x # q => UNCHANGED <<party[x], member[x], block[x]>>
      PROVE  NobodyWaitsAtAMergedParty' /\ LinksLead'
  BY <1>1, <1>3, RetiredKept
<1>4. ASSUME NEW u \in Users, NEW q \in Parties, CreateParty(u, q)
      PROVE  NobodyWaitsAtAMergedParty' /\ LinksLead'
  <2>1. /\ party[q].state = "new" /\ party'[q].state = "live"
        /\ \A x \in Parties : x # q => UNCHANGED <<party[x], member[x], block[x]>>
    BY <1>4, <1>0 DEF CreateParty, NextParty, NewParty, RostersType, Rows
  <2> QED
    BY <2>1, <1>3
<1>5. ASSUME NEW q \in Parties, NEW group \in SUBSET Users,
             NEW lineup \in [group -> Positions], NEW leader \in group,
             AutoMatch(q, group, lineup, leader)
      PROVE  NobodyWaitsAtAMergedParty' /\ LinksLead'
  <2>1. /\ party[q].state = "new" /\ party'[q].state = "live"
        /\ \A x \in Parties : x # q => UNCHANGED <<party[x], member[x], block[x]>>
    BY <1>5, <1>0 DEF AutoMatch, NextParty, NewParty, RostersType, Rows
  <2> QED
    BY <2>1, <1>3
<1>6. ASSUME NEW u \in Users,
             Join(u) \/ Accept(u) \/ Remove(u) \/ ChangeRank(u) \/ Seat(u)
      PROVE  NobodyWaitsAtAMergedParty' /\ LinksLead'
  <2> DEFINE q == request[u].party
  <2>1. q \in Parties
    BY <1>6 DEF TypeInv, RequestType, Formed, Join, Accept, Remove, ChangeRank, Seat, At
  <2>2. UNCHANGED party
    BY <1>6 DEF Join, Accept, Remove, ChangeRank, Seat
  <2>3. Live(q) \/ Members(q) # {} \/ UNCHANGED <<member, block>>
    BY <1>6 DEF Join, Accept, Remove, ChangeRank, Seat
  <2>4. \A x \in Parties : x # q => member'[x] = member[x] /\ block'[x] = block[x]
    <3>1. CASE Join(u)
      BY <3>1, <1>0 DEF Join, RostersType
    <3>2. CASE Accept(u)
      BY <3>2, <1>0 DEF Accept, RostersType
    <3>3. CASE Remove(u)
      BY <3>3, <1>0 DEF Remove, RostersType
    <3>4. CASE ChangeRank(u) \/ Seat(u)
      BY <3>4, <1>0 DEF ChangeRank, Seat, RostersType
    <3> QED
      BY <1>6, <3>1, <3>2, <3>3, <3>4
  <2>5. CASE UNCHANGED <<member, block>>
    BY <1>1, <2>2, <2>5, RetiredKept
  <2>6. CASE Live(q) \/ Members(q) # {}
    <3>1. party[q].state # "merged"
      BY <2>1, <2>6, <1>1
    <3> QED
      BY <2>1, <2>2, <2>4, <3>1, <1>3
  <2> QED
    BY <2>3, <2>5, <2>6
<1>7. ASSUME UNCHANGED <<member, block>>,
             \A x \in Parties : party'[x].state = party[x].state /\ party'[x].into = party[x].into
      PROVE  NobodyWaitsAtAMergedParty' /\ LinksLead'
  BY <1>1, <1>7, RetiredKept
<1>8. ASSUME NEW u \in Users, SetMode(u) \/ Extend(u)
      PROVE  NobodyWaitsAtAMergedParty' /\ LinksLead'
  <2>1. UNCHANGED <<member, block>>
    BY <1>8 DEF SetMode, Extend
  <2>2. \A x \in Parties : party'[x].state = party[x].state /\ party'[x].into = party[x].into
    <3>1. CASE SetMode(u)
      BY <3>1, <1>0 DEF SetMode, RostersType, Rows
    <3>2. CASE Extend(u)
      BY <3>2, <1>0 DEF Extend, RostersType, Rows
    <3> QED
      BY <1>8, <3>1, <3>2
  <2> QED
    BY <2>1, <2>2, <1>7
<1>9. ASSUME NEW q \in Parties, Expire(q) PROVE NobodyWaitsAtAMergedParty' /\ LinksLead'
  <2>1. \A x \in Parties : party'[x].state = party[x].state /\ party'[x].into = party[x].into
    BY <1>9, <1>0 DEF Expire, RostersType, Rows
  <2> QED
    BY <2>1, <1>7, <1>9 DEF Expire
<1>10. ASSUME NEW ps, Delete(ps) PROVE NobodyWaitsAtAMergedParty' /\ LinksLead'
  <2>1. \A x \in Parties : party'[x].state = "merged" => x \notin ps /\ party'[x] = party[x]
    BY <1>10 DEF Delete
  <2>2. \A x \in Parties : x \notin ps => UNCHANGED <<member[x], block[x]>>
    BY <1>10 DEF Delete
  <2> QED
    BY <2>1, <2>2, <1>1 DEF NobodyWaitsAtAMergedParty, LinksLead
<1>11. ASSUME CommitMerge PROVE NobodyWaitsAtAMergedParty' /\ LinksLead'
  <2> DEFINE s == pass.survivor
             r == pass.retired
             l == pass.leader
  <2>1. /\ s \in Parties /\ r \in Parties /\ s # r /\ Live(s) /\ Live(r)
        /\ invite[r] = Nobody
    BY <1>11, MergeWrites
  <2>2. /\ party' = MergedRows(s, r, l) /\ member' = MergedRosters(s, r, l)
        /\ block' = MergedBlocks(s, r) /\ UNCHANGED invite
    BY <1>11 DEF CommitMerge, letters
  <2>3. /\ party'[s].state = "live" /\ party'[r].state = "merged" /\ party'[r].into = s
        /\ \A x \in Parties : x # s /\ x # r =>
              /\ party'[x].state = party[x].state
              /\ party'[x].into = IF party[x].into = r THEN s ELSE party[x].into
    BY <2>1, <2>2, <1>0 DEF MergedRows, Redirected, RostersType, Rows, Live
  <2>4. \A x \in Parties : x # s /\ x # r => UNCHANGED <<member[x], block[x]>>
    BY <2>2, <1>0 DEF MergedRosters, MergedBlocks, RostersType
  <2>5. member'[r] = Nobody /\ block'[r] = Nobody /\ invite'[r] = Nobody
    BY <2>1, <2>2, <1>0 DEF MergedRosters, MergedBlocks, RostersType
  <2>6. ASSUME NEW x \in Parties, party'[x].state = "merged", x # r
        PROVE  /\ member'[x] = Nobody /\ block'[x] = Nobody /\ invite'[x] = Nobody
               /\ party'[x].into \in Parties /\ party'[party'[x].into].state # "merged"
    <3>1. x # s /\ party[x].state = "merged" /\ party[x].into \in Parties
      BY <2>3, <2>6 DEF LinksLead
    <3>2. party[party[x].into].state # "merged"
      BY <3>1 DEF NobodyWaitsAtAMergedParty
    <3> QED
      BY <2>1, <2>3, <2>4, <2>6, <3>1, <3>2, <1>1
  <2> QED
    BY <2>1, <2>3, <2>5, <2>6 DEF NobodyWaitsAtAMergedParty, LinksLead
<1> QED
  BY <1>2, <1>4, <1>5, <1>6, <1>8, <1>9, <1>10, <1>11, QuietSteps
     DEF RosterWrites, Dissolve, FinishSweep

\* A retired party holds nobody back, and its link leads to a party that has not been merged
\* itself (mergeRecruitingPartiesAtomically, createInvite, findByVerticalAndSlugFollowingMerges).
THEOREM RetiredPartiesAreEmpty == Spec => []NobodyWaitsAtAMergedParty
<1>1. Init => NobodyWaitsAtAMergedParty /\ LinksLead
  BY DEF Init, NobodyWaitsAtAMergedParty, LinksLead
<1>2. Init => TypeInv
  BY TypeInit
<1> QED
  BY <1>1, <1>2, TypeStep, RetiredStep, PTL DEF Spec

-----------------------------------------------------------------------------
(* What a step may do to kicks and to merging parties *)

\* One step of KicksOutliveMergers.
KickLasts ==
    \A p \in Parties, u \in Users : block[p][u] = "kicked" =>
        \/ block'[Heir(p)][u] = "kicked" \/ party'[Heir(p)].state = "deleted"
        \/ invite[p][u] # None /\ invite[p][u].kind = "INVITE" /\ u \in Members(p)'

LEMMA KickLastsStep ==
    TypeInv /\ KickedStayOut /\ NobodyWaitsAtAMergedParty /\ [Next]_vars => KickLasts
<1> SUFFICES ASSUME TypeInv, KickedStayOut, NobodyWaitsAtAMergedParty, [Next]_vars,
                    NEW p \in Parties, NEW u \in Users, block[p][u] = "kicked"
             PROVE  \/ block'[Heir(p)][u] = "kicked" \/ party'[Heir(p)].state = "deleted"
                    \/ invite[p][u] # None /\ invite[p][u].kind = "INVITE" /\ u \in Members(p)'
  BY DEF KickLasts
<1> DEFINE Lasts == block'[Heir(p)][u] = "kicked" \/ party'[Heir(p)].state = "deleted"
<1>0. RostersType
  BY DEF TypeInv
<1>1. party[p].state # "merged" /\ u \notin Members(p)
  BY NoneAssumption DEF NobodyWaitsAtAMergedParty, KickedStayOut, Nobody
<1>2. party'[p].state # "merged" /\ block'[p][u] = block[p][u] => Lasts
  BY DEF Heir
<1>3. CASE UNCHANGED rosters
  BY <1>1, <1>2, <1>3 DEF rosters
<1>4. ASSUME NEW v \in Users, NEW q \in Parties, CreateParty(v, q) PROVE Lasts
  BY <1>1, <1>2, <1>4, <1>0 DEF CreateParty, NewParty, RostersType, Rows
<1>5. ASSUME NEW q \in Parties, NEW group, NEW lineup, NEW leader, AutoMatch(q, group, lineup, leader)
      PROVE  Lasts
  BY <1>1, <1>2, <1>5, <1>0 DEF AutoMatch, NewParty, RostersType, Rows
<1>6. ASSUME NEW v \in Users, Join(v) \/ ChangeRank(v) \/ Seat(v) PROVE Lasts
  BY <1>1, <1>2, <1>6 DEF Join, ChangeRank, Seat
<1>7. ASSUME NEW v \in Users, Accept(v)
      PROVE  Lasts \/ (invite[p][u] # None /\ invite[p][u].kind = "INVITE" /\ u \in Members(p)')
  <2> DEFINE q == request[v].party
             w == request[v].target
             s == request[v].seat
  <2>1. UNCHANGED party
    BY <1>7 DEF Accept
  <2>2. CASE UNCHANGED block
    BY <2>1, <2>2, <1>1, <1>2
  <2>3. CASE /\ block' = [block EXCEPT ![q][w] = None]
             /\ member' = [member EXCEPT ![q][w] = [rank |-> "MEMBER", seat |-> s]]
    <3>1. CASE p = q /\ u = w
      <4>1. /\ invite[p][u] = [kind |-> request[v].what, seat |-> s]
            /\ request[v].what # "APPLICATION" /\ request[v].what \in Kinds
            /\ s \in Positions \cup {None}
        BY <1>7, <3>1 DEF Accept, At, TypeInv, RequestType, Formed, Requests
      <4>2. invite[p][u].kind = "INVITE" /\ invite[p][u] # None
        BY <4>1, NoneAssumption DEF Kinds, Invites
      <4>3. [rank |-> "MEMBER", seat |-> s] # None
        BY <4>1, NoneAssumption DEF Memberships, Ranks
      <4>4. u \in Members(p)'
        BY <2>3, <3>1, <4>3, <1>0 DEF RostersType, Members
      <4> QED
        BY <4>2, <4>4
    <3>2. CASE ~(p = q /\ u = w)
      <4>1. block'[p][u] = block[p][u]
        BY <2>3, <3>2, <1>0 DEF RostersType
      <4> QED
        BY <4>1, <2>1, <1>1, <1>2
    <3> QED
      BY <3>1, <3>2
  <2> QED
    BY <1>7, <2>2, <2>3 DEF Accept
<1>8. ASSUME NEW v \in Users, Remove(v) PROVE Lasts
  <2>1. block'[p][u] = block[p][u]
    BY <1>8, <1>1, <1>0 DEF Remove, RostersType
  <2> QED
    BY <2>1, <1>1, <1>2, <1>8 DEF Remove
<1>9. ASSUME NEW v \in Users, SetMode(v) \/ Extend(v) PROVE Lasts
  <2>1. UNCHANGED block
    BY <1>9 DEF SetMode, Extend
  <2>2. party'[p].state = party[p].state
    <3>1. CASE SetMode(v)
      BY <3>1, <1>0 DEF SetMode, RostersType, Rows
    <3>2. CASE Extend(v)
      BY <3>2, <1>0 DEF Extend, RostersType, Rows
    <3> QED
      BY <1>9, <3>1, <3>2
  <2> QED
    BY <2>1, <2>2, <1>1, <1>2
<1>10. ASSUME NEW q \in Parties, Expire(q) PROVE Lasts
  <2>1. UNCHANGED block /\ party'[p].state = party[p].state
    BY <1>10, <1>0 DEF Expire, RostersType, Rows
  <2> QED
    BY <2>1, <1>1, <1>2
<1>11. ASSUME NEW ps, Delete(ps) PROVE Lasts
  <2>1. CASE p \in ps
    BY <2>1, <1>11 DEF Delete, Heir
  <2>2. CASE p \notin ps
    BY <2>2, <1>1, <1>2, <1>11 DEF Delete
  <2> QED
    BY <2>1, <2>2
<1>12. ASSUME CommitMerge PROVE Lasts
  <2> DEFINE s == pass.survivor
             r == pass.retired
  <2>1. /\ s \in Parties /\ r \in Parties /\ s # r /\ Live(s) /\ Live(r)
        /\ \A w \in Members(s) : block[r][w] = None
        /\ \A w \in Members(r) : block[s][w] = None
    BY <1>12, MergeWrites
  <2>2. party' = MergedRows(s, r, pass.leader) /\ block' = MergedBlocks(s, r)
    BY <1>12 DEF CommitMerge
  <2>3. /\ party'[s].state = "live" /\ party'[r].state = "merged" /\ party'[r].into = s
        /\ \A x \in Parties : x # s /\ x # r => party'[x].state = party[x].state
    BY <2>1, <2>2, <1>0 DEF MergedRows, Redirected, RostersType, Rows, Live
  <2>4. CASE p # s /\ p # r
    <3>1. block'[p][u] = block[p][u]
      BY <2>2, <2>4, <1>0 DEF MergedBlocks, RostersType
    <3> QED
      BY <3>1, <2>3, <2>4, <1>1, <1>2
  <2>5. CASE p = s \/ p = r
    <3>1. Heir(p) = s
      BY <2>1, <2>3, <2>5 DEF Heir
    <3>2. u \notin Members(s) \cup Members(r)
      BY <2>1, <2>5, <1>1, NoneAssumption
    <3>3. block'[s][u] = "kicked"
      BY <2>1, <2>2, <2>5, <3>2, <1>0 DEF MergedBlocks, RostersType
    <3> QED
      BY <3>1, <3>3
  <2> QED
    BY <2>4, <2>5
<1> QED
  BY <1>3, <1>4, <1>5, <1>6, <1>7, <1>8, <1>9, <1>10, <1>11, <1>12, QuietSteps
     DEF RosterWrites, Dissolve, FinishSweep

\* A kick holds until an invitation takes the player back, also in the party that a merger
\* turns this one into (game_party_join_blocks in mergeRecruitingPartiesAtomically).
THEOREM KicksLast == Spec => KicksOutliveMergers
<1>1. Spec => [](TypeInv /\ KickedStayOut /\ NobodyWaitsAtAMergedParty)
  <2>1. Spec => []TypeInv
    BY TypeInit, TypeStep, PTL DEF Spec
  <2> QED
    BY <2>1, KicksHold, RetiredPartiesAreEmpty, PTL
<1>2. TypeInv /\ KickedStayOut /\ NobodyWaitsAtAMergedParty /\ [Next]_vars => [KickLasts]_vars
  BY KickLastsStep
<1>3. KicksOutliveMergers <=> [][KickLasts]_vars
  BY DEF KicksOutliveMergers, KickLasts
<1> QED
  BY <1>1, <1>2, <1>3, PTL DEF Spec

\* One step of MergesAreMutual.
MergeIsMutual ==
    \A r \in Parties : Live(r) /\ party'[r].state = "merged" =>
        LET s == party'[r].into
        IN  /\ party[s].owner # party[r].owner /\ Asks(s, r) /\ Asks(r, s)
            /\ \A p \in {s, r} : party[p].joinMode = "OPEN" /\ invite[p] = Nobody
            /\ party'[s].owner \in {party[s].owner, party[r].owner}
            /\ \A p \in {s, r} : \A u \in Members(p) :
                  member'[s][u] # None /\ member'[s][u].seat = member[p][u].seat

LEMMA OnlyMergersRetire ==
    ASSUME TypeInv, [Next]_vars, NEW x \in Parties, Live(x), party'[x].state = "merged"
    PROVE  CommitMerge
<1>0. RostersType
  BY DEF TypeInv
<1>1. UNCHANGED party => FALSE
  BY DEF Live
<1>2. ASSUME NEW v \in Users, NEW q \in Parties, CreateParty(v, q) PROVE FALSE
  BY <1>2, <1>0 DEF CreateParty, NewParty, Live, RostersType, Rows
<1>3. ASSUME NEW q \in Parties, NEW group, NEW lineup, NEW leader, AutoMatch(q, group, lineup, leader)
      PROVE  FALSE
  BY <1>3, <1>0 DEF AutoMatch, NewParty, Live, RostersType, Rows
<1>4. ASSUME NEW v \in Users, SetMode(v) PROVE FALSE
  BY <1>4, <1>0 DEF SetMode, Live, RostersType, Rows
<1>5. ASSUME NEW v \in Users, Extend(v) PROVE FALSE
  BY <1>5, <1>0 DEF Extend, Live, RostersType, Rows
<1>6. ASSUME NEW q \in Parties, Expire(q) PROVE FALSE
  BY <1>6, <1>0 DEF Expire, Live, RostersType, Rows
<1>7. ASSUME NEW ps, Delete(ps) PROVE FALSE
  BY <1>7 DEF Delete, Live
<1>8. ASSUME NEW v \in Users, Join(v) \/ Accept(v) \/ Remove(v) \/ ChangeRank(v) \/ Seat(v)
      PROVE  FALSE
  BY <1>1, <1>8 DEF Join, Accept, Remove, ChangeRank, Seat
<1> QED
  BY <1>1, <1>2, <1>3, <1>4, <1>5, <1>6, <1>7, <1>8, QuietSteps
     DEF rosters, RosterWrites, Dissolve, FinishSweep

LEMMA MutualStep == TypeInv /\ [Next]_vars => MergeIsMutual
<1> SUFFICES ASSUME TypeInv, [Next]_vars, NEW x \in Parties, Live(x), party'[x].state = "merged"
             PROVE  LET s == party'[x].into
                    IN  /\ party[s].owner # party[x].owner /\ Asks(s, x) /\ Asks(x, s)
                        /\ \A p \in {s, x} : party[p].joinMode = "OPEN" /\ invite[p] = Nobody
                        /\ party'[s].owner \in {party[s].owner, party[x].owner}
                        /\ \A p \in {s, x} : \A u \in Members(p) :
                              member'[s][u] # None /\ member'[s][u].seat = member[p][u].seat
  BY DEF MergeIsMutual
<1> DEFINE s == pass.survivor
           r == pass.retired
<1>0. RostersType
  BY DEF TypeInv
<1>1. CommitMerge
  BY OnlyMergersRetire
<1>2. /\ s \in Parties /\ r \in Parties /\ s # r /\ Live(s) /\ Live(r)
      /\ Members(s) \cap Members(r) = {} /\ invite[s] = Nobody /\ invite[r] = Nobody
      /\ party[s].owner \in Members(s) /\ party[r].owner \in Members(r)
      /\ pass.leader \in {party[s].owner, party[r].owner}
  BY <1>1, MergeWrites
<1>3. /\ party' = MergedRows(s, r, pass.leader) /\ member' = MergedRosters(s, r, pass.leader)
  BY <1>1 DEF CommitMerge
<1>4. /\ party'[s].state = "live" /\ party'[r].into = s /\ party'[s].owner = pass.leader
      /\ \A y \in Parties : y # s /\ y # r => party'[y].state = party[y].state
  BY <1>2, <1>3, <1>0 DEF MergedRows, Redirected, RostersType, Rows, Live
<1>5. x = r
  BY <1>4 DEF Live
<1>6. /\ party[s].joinMode = "OPEN" /\ party[r].joinMode = "OPEN"
      /\ Wants(s, r, pass.seats) /\ Wants(r, s, pass.seats)
  BY <1>1 DEF CommitMerge, PlanStands, Compatible, Open
<1>7. \A u \in Users :
         /\ u \in Members(r) => member'[s][u] # None /\ member'[s][u].seat = member[r][u].seat
         /\ u \in Members(s) => member'[s][u] # None /\ member'[s][u].seat = member[s][u].seat
  BY <1>2, <1>3, <1>0, MergedSeats DEF Members
<1>8. Asks(s, r) /\ Asks(r, s)
  BY <1>6 DEF Wants, Asks
<1> QED
  BY <1>2, <1>4, <1>5, <1>6, <1>7, <1>8 DEF Members

\* When parties merge, at that moment no invitation is pending and both are open, one of
\* the two captains leads, and everyone keeps the position held.  Each captain asks for
\* every incoming position, unless its holder has changed it since the merger read it
\* under its locks (planDotaPartyMerge; updateMemberPositionRole takes none of them).
THEOREM MergersAreMutual == Spec => MergesAreMutual
<1>1. Spec => []TypeInv
  BY TypeInit, TypeStep, PTL DEF Spec
<1>2. TypeInv /\ [Next]_vars => [MergeIsMutual]_vars
  BY MutualStep
<1>3. MergesAreMutual <=> [][MergeIsMutual]_vars
  BY DEF MergesAreMutual, MergeIsMutual
<1> QED
  BY <1>1, <1>2, <1>3, PTL DEF Spec
=============================================================================
