------------------------------- MODULE Rewards -------------------------------
(***************************************************************************)
(* Wallets, giveaways and refunds of the rewards program                   *)
(* (apps/api/src/modules/rewards/rewards.service.ts).                      *)
(*                                                                         *)
(* A purchase is split where it waits for a second lock: it locks and      *)
(* checks the giveaway, then locks the wallet, checks the balance, writes  *)
(* and commits.  Everything else takes one lock and is one action.  An     *)
(* open purchase may be rolled back; a client that saw no answer repeats   *)
(* the request with its requestId.                                         *)
(*                                                                         *)
(* Time is the position of each giveaway's selling window.  What earns a   *)
(* reward is left out: an award is a ledger key (task and period).         *)
(***************************************************************************)
EXTENDS Integers, Sequences, FiniteSets, FiniteSetsExt

CONSTANTS
    Users,              \* telegramId
    Giveaways,
    Requests,           \* requestId, chosen by the client
    Awards,             \* task and period
    Prices,             \* ticketPrice
    Quantities,         \* tickets per request
    Amount,             \* worth of an award
    MaxTickets,         \* tickets per user
    TicketLimit,        \* 100001: the ticket number no giveaway reaches
    Prizes,             \* number of prizes
    UniqueWinners,
    RefundLimit         \* purchases refunded by one pass

ASSUME AmountsAssumption ==
    /\ Prices \subseteq Nat \ {0} /\ Quantities \subseteq Nat \ {0} /\ Amount \in Nat
    /\ MaxTickets \in Nat /\ TicketLimit \in Nat \ {0} /\ Prizes \in Nat \ {0}
    /\ UniqueWinners \in BOOLEAN /\ RefundLimit \in Nat \ {0}

VARIABLES
    program,            \* "on", "off", or "fading": off, but not to all who have read it
    giveaway,           \* status, window, price and next ticket of each giveaway
    winners,            \* the winning tickets of each giveaway, by prize
    tickets,            \* the owner of each sold ticket, by giveaway and number
    purchases,          \* committed purchases by user and request
    buying,             \* open purchases
    balance,            \* wallets
    ledger              \* signed amounts by key

moneyVars == <<balance, ledger>>
vars == <<program, giveaway, winners, tickets, purchases, buying, balance, ledger>>

Keys == Users \X Requests
Ended(g) == giveaway[g].window = "after"

\* Mutant: the giveaway row is not locked.
NeverLocked(g) == FALSE

\* An open purchase holds the giveaway row.
Locked(g) == \E p \in buying : p.giveaway = g

Sold(owner, u) == {n \in DOMAIN owner : owner[n][1] = u}

Init ==
    /\ program \in {"on", "off"}
    /\ giveaway \in [Giveaways -> [status : {"DRAFT"}, window : {"before", "during"}, price : Prices,
                                   next : {1}]]
    /\ tickets = [g \in Giveaways |-> <<>>] /\ winners = [g \in Giveaways |-> <<>>]
    /\ purchases = <<>> /\ buying = {}
    /\ balance = [u \in Users |-> 0] /\ ledger = <<>>

-----------------------------------------------------------------------------
\* Wallets

\* settings: the program is switched; requests of the last 30 seconds, and a
\* pass under way, go on with what they have read.
Switch ==
    /\ program' \in CASE program = "on" -> {"fading"} [] program = "fading" -> {"on", "off"} [] OTHER -> {"on"}
    /\ UNCHANGED <<giveaway, winners, tickets, purchases, buying, moneyVars>>

\* Mutant: the wallet is credited although the key is in the ledger.
AlwaysFresh(key) == TRUE

\* The ledger's keys are unique, and grant credits only a key it inserted.
Fresh(key) == key \notin DOMAIN ledger

\* grant, for an award: a task is granted once for its period, however often.
Award(u, a) ==
    /\ program # "off" /\ Fresh(<<"award", u, a>>)
    /\ ledger' = [k \in DOMAIN ledger \cup {<<"award", u, a>>} |->
                    IF k \in DOMAIN ledger THEN ledger[k] ELSE Amount]
    /\ balance' = [balance EXCEPT ![u] = @ + Amount]
    /\ UNCHANGED <<program, giveaway, winners, tickets, purchases, buying>>

-----------------------------------------------------------------------------
\* The life of a giveaway

Change(g, to) == giveaway' = [giveaway EXCEPT ![g] = to]
Free(g) == ~Locked(g) /\ UNCHANGED <<program, purchases, buying, moneyVars>>

\* Time passes.
WindowMoves(g) ==
    /\ \/ giveaway[g].window = "before" /\ Change(g, [giveaway[g] EXCEPT !.window = "during"])
       \/ giveaway[g].window = "during" /\ Change(g, [giveaway[g] EXCEPT !.window = "after"])
    /\ UNCHANGED <<program, winners, tickets, purchases, buying, moneyVars>>

\* editGiveaway: only a draft, and only to a window that has not ended.
Edit(g, price, window) ==
    /\ Free(g) /\ giveaway[g].status = "DRAFT"
    /\ Change(g, [giveaway[g] EXCEPT !.price = price, !.window = window])
    /\ UNCHANGED <<winners, tickets>>

Publish(g) ==
    /\ Free(g) /\ giveaway[g].status = "DRAFT" /\ ~Ended(g)
    /\ Change(g, [giveaway[g] EXCEPT !.status = "OPEN"])
    /\ UNCHANGED <<winners, tickets>>

\* The close action, and processBatch for every giveaway whose time is over.
CloseGiveaway(g) ==
    /\ Free(g) /\ giveaway[g].status = "OPEN" /\ Ended(g)
    /\ Change(g, [giveaway[g] EXCEPT !.status = "CLOSED"])
    /\ UNCHANGED <<winners, tickets>>

\* Mutant: results do not stop a cancellation.
CancellableAnyway(g) == giveaway[g].status # "CANCELLED"

Cancellable(g) == giveaway[g].status \notin {"DRAWN", "CANCELLED"}
Cancel(g) ==
    /\ Free(g) /\ Cancellable(g)
    /\ Change(g, [giveaway[g] EXCEPT !.status = "CANCELLED"])
    /\ UNCHANGED <<winners, tickets>>

\* Mutant: the winner's other tickets stay in the pool.
WinnersWithRepeats(g) ==
    LET owner == tickets[g]
        places == IF Cardinality(DOMAIN owner) < Prizes THEN Cardinality(DOMAIN owner) ELSE Prizes
    IN  {w \in [1..places -> DOMAIN owner] : \A i, j \in 1..places : w[i] = w[j] => i = j}

\* chooseWinners: tickets drawn one by one, without the ticket or without the
\* user drawn before, until prizes or tickets run out.
Winners(g) ==
    LET owner == tickets[g]
        pool == IF UniqueWinners THEN {owner[n][1] : n \in DOMAIN owner} ELSE DOMAIN owner
        places == IF Cardinality(pool) < Prizes THEN Cardinality(pool) ELSE Prizes
    IN  {w \in [1..places -> DOMAIN owner] : \A i, j \in 1..places :
           (w[i] = w[j] \/ (UniqueWinners /\ owner[w[i]][1] = owner[w[j]][1])) => i = j}
Draw(g) ==
    /\ Free(g) /\ giveaway[g].status \in {"OPEN", "CLOSED"} /\ Ended(g)
    /\ Change(g, [giveaway[g] EXCEPT !.status = "DRAWN"])
    /\ \E w \in Winners(g) : winners' = [winners EXCEPT ![g] = w]
    /\ UNCHANGED tickets

-----------------------------------------------------------------------------
\* Purchases

\* Mutant: the limit is compared with the last new ticket.
RoomForLast(g, quantity) == giveaway[g].next + quantity - 1 <= TicketLimit

RoomLeft(g, quantity) == giveaway[g].next + quantity <= TicketLimit

\* Mutant: the limit is applied to one request.
MayHoldPerRequest(g, u, quantity) == quantity <= MaxTickets

MayHold(g, u, quantity) == Cardinality(Sold(tickets[g], u)) + quantity <= MaxTickets

\* The giveaway is locked and checked: the window, the price the player saw,
\* and the limits.  A request already committed is answered from its row.
BeginPurchase(u, r, g, quantity, expected) ==
    /\ program # "off" /\ ~Locked(g) /\ <<u, r>> \notin DOMAIN purchases
    /\ giveaway[g].status = "OPEN" /\ giveaway[g].window = "during" /\ expected = giveaway[g].price
    /\ MayHold(g, u, quantity) /\ RoomLeft(g, quantity)
    /\ buying' = buying \cup {[key |-> <<u, r>>, giveaway |-> g, quantity |-> quantity, next |-> giveaway[g].next]}
    /\ UNCHANGED <<program, giveaway, winners, tickets, purchases, moneyVars>>

Cost(p) == giveaway[p.giveaway].price * p.quantity
\* Checked by purchase, and by the wallet's CHECK constraint.
Affordable(p) == balance[p.key[1]] >= Cost(p)

\* Requests are unique over all giveaways, ticket numbers in each.
CommitPurchase(p) ==
    LET g == p.giveaway
        cost == Cost(p)
        entry == <<"tickets", p.key[1], p.key[2]>>
        numbers == p.next..(p.next + p.quantity - 1)
    IN  /\ p.key \notin DOMAIN purchases /\ Affordable(p) /\ numbers \cap DOMAIN tickets[g] = {}
        /\ purchases' = [k \in DOMAIN purchases \cup {p.key} |->
                           IF k = p.key THEN [giveaway |-> g, quantity |-> p.quantity, cost |-> cost, refunded |-> FALSE]
                           ELSE purchases[k]]
        /\ ledger' = [j \in DOMAIN ledger \cup {entry} |-> IF j = entry THEN -cost ELSE ledger[j]]
        /\ balance' = [balance EXCEPT ![p.key[1]] = @ - cost]
        /\ tickets' = [tickets EXCEPT ![g] = [n \in DOMAIN tickets[g] \cup numbers |->
                                                IF n \in numbers THEN p.key ELSE tickets[g][n]]]
        /\ giveaway' = [giveaway EXCEPT ![g].next = @ + p.quantity]
        /\ buying' = buying \ {p}
        /\ UNCHANGED <<program, winners>>

\* Not enough on the wallet, a unique key is taken, or the transaction is
\* lost.
AbortPurchase(p) ==
    /\ buying' = buying \ {p}
    /\ UNCHANGED <<program, giveaway, winners, tickets, purchases, moneyVars>>

-----------------------------------------------------------------------------
\* Refunds

Unrefunded == {k \in DOMAIN purchases : giveaway[purchases[k].giveaway].status = "CANCELLED"
                                        /\ ~purchases[k].refunded}

\* Mutant: refunds wait for the program like the other rewards do.
RefundsWhenEnabled == program # "off"

\* The worker pays refunds whether the program is enabled or not.
RefundsRun == TRUE

CostOf(keys) == MapThenSumSet(LAMBDA k : purchases[k].cost, keys)

\* refundBatch, up to RefundLimit purchases; grant writes each key once.
RefundBatch ==
    /\ RefundsRun /\ Unrefunded # {}
    /\ \E batch \in SUBSET Unrefunded :
         LET fresh == {k \in batch : Fresh(<<"refund", k[1], k[2]>>)}
             keys == {<<"refund", k[1], k[2]>> : k \in fresh}
         IN  /\ Cardinality(batch) = IF Cardinality(Unrefunded) < RefundLimit
                                     THEN Cardinality(Unrefunded) ELSE RefundLimit
             /\ ledger' = [j \in DOMAIN ledger \cup keys |->
                             IF j \in keys THEN purchases[<<j[2], j[3]>>].cost ELSE ledger[j]]
             /\ balance' = [u \in Users |-> balance[u] + CostOf({k \in fresh : k[1] = u})]
             /\ purchases' = [k \in DOMAIN purchases |->
                                IF k \in batch THEN [purchases[k] EXCEPT !.refunded = TRUE] ELSE purchases[k]]
    /\ UNCHANGED <<program, giveaway, winners, tickets, buying>>

-----------------------------------------------------------------------------
Next ==
    \/ Switch
    \/ \E u \in Users, a \in Awards : Award(u, a)
    \/ \E g \in Giveaways :
          \/ WindowMoves(g) \/ Publish(g) \/ CloseGiveaway(g) \/ Cancel(g) \/ Draw(g)
          \/ \E price \in Prices, window \in {"before", "during"} : Edit(g, price, window)
          \/ \E u \in Users, r \in Requests, quantity \in Quantities, expected \in Prices :
                BeginPurchase(u, r, g, quantity, expected)
    \/ \E p \in buying : CommitPurchase(p) \/ AbortPurchase(p)
    \/ RefundBatch

Spec == Init /\ [][Next]_vars

\* The worker passes every 30 seconds; players and staff may never act.
FairSpec == Spec /\ WF_vars(RefundBatch)

-----------------------------------------------------------------------------
\* Properties

\* Every variable has its type.
TypeOK ==
    /\ program \in {"on", "fading", "off"}
    /\ \A g \in Giveaways :
         /\ giveaway[g].status \in {"DRAFT", "OPEN", "CLOSED", "DRAWN", "CANCELLED"}
         /\ giveaway[g].window \in {"before", "during", "after"}
         /\ giveaway[g].price \in Prices /\ giveaway[g].next \in 1..TicketLimit
         /\ \A i \in DOMAIN winners[g] : winners[g][i] \in DOMAIN tickets[g]
         /\ \A n \in DOMAIN tickets[g] : tickets[g][n] \in DOMAIN purchases
    /\ DOMAIN purchases \subseteq Keys /\ \A p \in buying : p.key \in Keys /\ p.giveaway \in Giveaways
    /\ \A k \in DOMAIN purchases : purchases[k].giveaway \in Giveaways /\ purchases[k].quantity \in Quantities
    /\ DOMAIN balance = Users

\* "The balance is a non-negative integer" (fdp-rewards.md) and is the sum of
\* the ledger, although purchases of one player in two giveaways, awards and
\* refunds overlap.
BalanceIsLedger ==
    \A u \in Users :
        /\ balance[u] >= 0
        /\ balance[u] = MapThenSumSet(LAMBDA k : ledger[k], {k \in DOMAIN ledger : k[2] = u})

\* A giveaway's tickets are numbered without gaps or repetitions, a purchase
\* owns as many as it paid for whatever was retried, nobody holds more than
\* the limit, and only the tickets of a cancelled giveaway are refunded.
TicketsArePaidFor ==
    /\ \A g \in Giveaways :
         /\ DOMAIN tickets[g] = 1..(giveaway[g].next - 1)
         /\ \A u \in Users : Cardinality(Sold(tickets[g], u)) <= MaxTickets
    /\ \A k \in DOMAIN purchases, g \in Giveaways :
         Cardinality({n \in DOMAIN tickets[g] : tickets[g][n] = k}) =
            IF g = purchases[k].giveaway THEN purchases[k].quantity ELSE 0
    /\ \A k \in DOMAIN purchases : purchases[k].refunded => giveaway[purchases[k].giveaway].status = "CANCELLED"

\* "The result is saved once" (fdp-rewards.md): after the draw its winners, its
\* tickets and its status never change, whoever was still buying or cancelling.
DrawIsFinal ==
    [][\A g \in Giveaways : giveaway[g].status = "DRAWN" =>
          /\ giveaway'[g].status = "DRAWN" /\ winners'[g] = winners[g] /\ tickets'[g] = tickets[g]]_vars

\* A user wins at most one prize of a giveaway with unique winners, and no
\* prize is kept while a ticket could still win it.
PrizesAreShared ==
    \A g \in Giveaways : giveaway[g].status = "DRAWN" =>
        LET w == winners[g]
            players == {tickets[g][n][1] : n \in DOMAIN tickets[g]}
            winning == {tickets[g][w[i]][1] : i \in DOMAIN w}
        IN  UniqueWinners => /\ Cardinality(winning) = Len(w)
                             /\ Len(w) = Prizes \/ winning = players

\* "Cancelling returns the amount actually charged exactly once": every
\* purchase of a cancelled giveaway is eventually paid back in full.
PaidBack(k) == <<"refund", k[1], k[2]>> \in DOMAIN ledger /\ ledger[<<"refund", k[1], k[2]>>] = purchases[k].cost
CancelledPurchasesReturn == \A k \in Keys : (k \in Unrefunded) ~> (k \in DOMAIN purchases /\ PaidBack(k))
=============================================================================
