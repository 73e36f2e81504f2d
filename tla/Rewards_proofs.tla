---------------------------- MODULE Rewards_proofs ----------------------------
(***************************************************************************)
(* Proofs that, for any users, giveaways, requests, prices and limits,     *)
(* tickets are numbered and counted correctly, only cancelled purchases    *)
(* are refunded, a draw is final and shares its prizes, and every balance  *)
(* is the sum of the ledger.  All rest on one inductive invariant: who is  *)
(* buying holds the giveaway's row, so that the row is still as the        *)
(* purchase has read it.                                                   *)
(***************************************************************************)
EXTENDS Rewards, FiniteSetTheorems, TLAPS

Statuses == {"DRAFT", "OPEN", "CLOSED", "DRAWN", "CANCELLED"}
Windows == {"before", "during", "after"}
Rows == [status : Statuses, window : Windows, price : Prices, next : Nat \ {0}]
Sales == [key : Keys, giveaway : Giveaways, quantity : Quantities, next : Nat \ {0}]
Owned(owner, k) == {n \in DOMAIN owner : owner[n] = k}

\* Rows, functions and open purchases have their types.
RowsInv ==
    /\ giveaway \in [Giveaways -> Rows]
    /\ tickets = [g \in Giveaways |-> tickets[g]] /\ winners = [g \in Giveaways |-> winners[g]]
    /\ buying \subseteq Sales
    /\ DOMAIN purchases \subseteq Keys

\* At most one open purchase holds a giveaway's row; it read the row as it is.
BuyersInv ==
    /\ \A p, q \in buying : p.giveaway = q.giveaway => p = q
    /\ \A p \in buying :
         /\ giveaway[p.giveaway].status = "OPEN" /\ p.next = giveaway[p.giveaway].next
         /\ Cardinality(Sold(tickets[p.giveaway], p.key[1])) + p.quantity <= MaxTickets

\* Tickets are numbered without gaps and belong to purchases of their giveaway.
NumbersInv ==
    \A g \in Giveaways :
        /\ DOMAIN tickets[g] = 1..(giveaway[g].next - 1)
        /\ \A n \in DOMAIN tickets[g] :
             tickets[g][n] \in DOMAIN purchases /\ purchases[tickets[g][n]].giveaway = g

\* Nobody holds more tickets than the limit, or than were paid for.
CountsInv ==
    /\ \A g \in Giveaways, u \in Users : Cardinality(Sold(tickets[g], u)) <= MaxTickets
    /\ \A k \in DOMAIN purchases, g \in Giveaways :
         Cardinality(Owned(tickets[g], k)) =
            IF g = purchases[k].giveaway THEN purchases[k].quantity ELSE 0

RefundsInv ==
    \A k \in DOMAIN purchases :
        /\ purchases[k].giveaway \in Giveaways
        /\ purchases[k].refunded => giveaway[purchases[k].giveaway].status = "CANCELLED"

Inv == RowsInv /\ BuyersInv /\ NumbersInv /\ CountsInv /\ RefundsInv

-----------------------------------------------------------------------------
\* The invariant holds initially: no giveaway has a ticket or a buyer.
LEMMA InvInit == Init => Inv
<1> SUFFICES ASSUME Init PROVE Inv
  OBVIOUS
<1> USE AmountsAssumption
<1>1. RowsInv
  BY DEF Init, RowsInv, Rows, Statuses, Windows
<1>2. BuyersInv /\ RefundsInv
  BY DEF Init, BuyersInv, RefundsInv
<1>3. NumbersInv
  BY <1>1 DEF Init, NumbersInv, RowsInv
<1>4. \A g \in Giveaways, u \in Users : Sold(tickets[g], u) = {}
  BY DEF Init, Sold
<1>5. CountsInv
  <2>1. DOMAIN purchases = {}
    BY DEF Init
  <2>2. \A g \in Giveaways, u \in Users : Cardinality(Sold(tickets[g], u)) = 0
    BY <1>4, FS_EmptySet
  <2> QED
    BY <2>1, <2>2 DEF CountsInv
<1> QED
  BY <1>1, <1>2, <1>3, <1>5 DEF Inv

\* A change of a giveaway's row that nobody is buying from, or of its window
\* only, disturbs neither its buyers nor its tickets.
LEMMA RowStep ==
    ASSUME Inv, NEW g \in Giveaways, NEW to \in Rows,
           Change(g, to), to.next = giveaway[g].next,
           Locked(g) => to.status = giveaway[g].status,
           giveaway[g].status = "CANCELLED" => to.status = "CANCELLED",
           winners' = [h \in Giveaways |-> winners'[h]],
           UNCHANGED <<tickets, purchases, buying>>
    PROVE  Inv'
<1> USE DEF Inv
<1>1. /\ giveaway' \in [Giveaways -> Rows]
      /\ \A h \in Giveaways : giveaway'[h].next = giveaway[h].next
      /\ \A h \in Giveaways : h # g => giveaway'[h] = giveaway[h]
      /\ giveaway'[g] = to
  BY DEF Change, RowsInv, Rows
<1>2. RowsInv'
  BY <1>1 DEF RowsInv
<1>3. BuyersInv'
  BY <1>1 DEF BuyersInv, RowsInv, Sales, Locked
<1>4. NumbersInv' /\ CountsInv' /\ RefundsInv'
  BY <1>1 DEF NumbersInv, CountsInv, RefundsInv, Owned
<1> QED
  BY <1>2, <1>3, <1>4

\* Steps on wallets and the program leave the invariant's variables alone.
LEMMA MoneyStep ==
    ASSUME Inv, UNCHANGED <<giveaway, winners, tickets, purchases, buying>>
    PROVE  Inv'
<1>1. RowsInv'
  BY DEF Inv, RowsInv
<1>2. BuyersInv' /\ NumbersInv' /\ RefundsInv'
  BY DEF Inv, BuyersInv, NumbersInv, RefundsInv, Sold
<1>3. CountsInv'
  BY DEF Inv, CountsInv, Owned, Sold
<1> QED
  BY <1>1, <1>2, <1>3 DEF Inv

\* Publishing, closing, editing, cancelling and drawing wait for the row.
LEMMA LifeStep ==
    ASSUME Inv, NEW g \in Giveaways,
           \/ WindowMoves(g) \/ Publish(g) \/ CloseGiveaway(g) \/ Cancel(g) \/ Draw(g)
           \/ \E price \in Prices, window \in {"before", "during"} : Edit(g, price, window)
    PROVE  Inv'
<1>1. giveaway[g] \in Rows
  BY DEF Inv, RowsInv
<1>2. CASE WindowMoves(g)
  <2>1. PICK window \in Windows : Change(g, [giveaway[g] EXCEPT !.window = window])
    BY <1>2 DEF WindowMoves, Windows
  <2> DEFINE to == [giveaway[g] EXCEPT !.window = window]
  <2>2. to \in Rows /\ to.next = giveaway[g].next /\ to.status = giveaway[g].status
    BY <1>1 DEF Rows
  <2>3. winners' = [h \in Giveaways |-> winners'[h]] /\ UNCHANGED <<tickets, purchases, buying>>
    BY <1>2 DEF WindowMoves, moneyVars, Inv, RowsInv
  <2> HIDE DEF to
  <2> QED
    BY <2>1, <2>2, <2>3, RowStep DEF to
<1>3. ASSUME NEW status \in Statuses, Free(g), giveaway[g].status # "CANCELLED",
             Change(g, [giveaway[g] EXCEPT !.status = status]), UNCHANGED tickets,
             winners' = [h \in Giveaways |-> winners'[h]]
      PROVE  Inv'
  <2> DEFINE to == [giveaway[g] EXCEPT !.status = status]
  <2>1. to \in Rows /\ to.next = giveaway[g].next
    BY <1>1 DEF Rows
  <2>2. ~Locked(g) /\ UNCHANGED <<tickets, purchases, buying>>
    BY <1>3 DEF Free
  <2> HIDE DEF to
  <2> QED
    BY <1>3, <2>1, <2>2, RowStep DEF to
<1>4. winners = [h \in Giveaways |-> winners[h]]
  BY DEF Inv, RowsInv
<1>5. CASE Publish(g) \/ CloseGiveaway(g) \/ Cancel(g)
  BY <1>3, <1>4, <1>5 DEF Publish, CloseGiveaway, Cancel, Cancellable, Statuses
<1>6. CASE Draw(g)
  <2>1. winners' = [h \in Giveaways |-> winners'[h]]
    BY <1>4, <1>6 DEF Draw
  <2> QED
    BY <1>3, <1>6, <2>1 DEF Draw, Statuses
<1>7. ASSUME NEW price \in Prices, NEW window \in {"before", "during"}, Edit(g, price, window)
      PROVE  Inv'
  <2> DEFINE to == [giveaway[g] EXCEPT !.price = price, !.window = window]
  <2>1. to \in Rows /\ to.next = giveaway[g].next /\ to.status = giveaway[g].status
    BY <1>1 DEF Rows, Windows
  <2>2. /\ Change(g, to) /\ ~Locked(g) /\ UNCHANGED <<tickets, purchases, buying>>
        /\ winners' = [h \in Giveaways |-> winners'[h]]
    BY <1>4, <1>7 DEF Edit, Free
  <2> HIDE DEF to
  <2> QED
    BY <2>1, <2>2, RowStep
<1> QED
  BY <1>2, <1>5, <1>6, <1>7

\* A purchase that begins is the only one of its giveaway.
LEMMA BeginStep ==
    ASSUME Inv, NEW u \in Users, NEW r \in Requests, NEW g \in Giveaways,
           NEW quantity \in Quantities, NEW expected \in Prices,
           BeginPurchase(u, r, g, quantity, expected)
    PROVE  Inv'
<1> DEFINE p == [key |-> <<u, r>>, giveaway |-> g, quantity |-> quantity, next |-> giveaway[g].next]
<1>1. /\ buying' = buying \cup {p} /\ ~Locked(g)
      /\ UNCHANGED <<giveaway, winners, tickets, purchases>>
      /\ giveaway[g].status = "OPEN" /\ Cardinality(Sold(tickets[g], u)) + quantity <= MaxTickets
  BY DEF BeginPurchase, MayHold
<1>2. p \in Sales
  BY DEF Sales, Keys, Inv, RowsInv, Rows
<1>3. p.giveaway = g /\ p.key[1] = u /\ p.quantity = quantity /\ p.next = giveaway[g].next
  OBVIOUS
<1> HIDE DEF p
<1>4. RowsInv'
  BY <1>1, <1>2 DEF Inv, RowsInv
<1>5. \A q \in buying : q.giveaway # g
  BY <1>1 DEF Locked
<1>6. BuyersInv'
  BY <1>1, <1>3, <1>5 DEF Inv, BuyersInv, Sold
<1>7. NumbersInv' /\ CountsInv' /\ RefundsInv'
  BY <1>1 DEF Inv, NumbersInv, CountsInv, RefundsInv, Sold, Owned
<1> QED
  BY <1>4, <1>6, <1>7 DEF Inv

\* A purchase that is rolled back leaves nothing.
LEMMA AbortStep ==
    ASSUME Inv, NEW p \in buying, AbortPurchase(p)
    PROVE  Inv'
<1>1. buying' \subseteq buying /\ UNCHANGED <<giveaway, winners, tickets, purchases>>
  BY DEF AbortPurchase
<1>2. RowsInv' /\ BuyersInv'
  BY <1>1 DEF Inv, RowsInv, BuyersInv, Sold
<1>3. NumbersInv' /\ CountsInv' /\ RefundsInv'
  BY <1>1 DEF Inv, NumbersInv, CountsInv, RefundsInv, Sold, Owned
<1> QED
  BY <1>2, <1>3 DEF Inv

\* Refunds touch the purchases of cancelled giveaways only, and only mark them.
LEMMA RefundStep == Inv /\ RefundBatch => Inv'
<1> SUFFICES ASSUME Inv, RefundBatch PROVE Inv'
  OBVIOUS
<1>1. PICK batch \in SUBSET Unrefunded :
        purchases' = [k \in DOMAIN purchases |->
                        IF k \in batch THEN [purchases[k] EXCEPT !.refunded = TRUE] ELSE purchases[k]]
  BY DEF RefundBatch
<1>2. UNCHANGED <<giveaway, winners, tickets, buying>>
  BY DEF RefundBatch
<1>3. /\ DOMAIN purchases' = DOMAIN purchases
      /\ \A k \in DOMAIN purchases : k \notin batch => purchases'[k] = purchases[k]
  BY <1>1
<1>4. \A k \in DOMAIN purchases : /\ purchases'[k].giveaway = purchases[k].giveaway
                                 /\ purchases'[k].quantity = purchases[k].quantity
  BY <1>1
<1>5. \A k \in batch : giveaway[purchases[k].giveaway].status = "CANCELLED"
  BY DEF Unrefunded
<1>6. RowsInv' /\ BuyersInv'
  BY <1>2, <1>3 DEF Inv, RowsInv, BuyersInv, Sold
<1>7. NumbersInv' /\ CountsInv'
  BY <1>2, <1>3, <1>4 DEF Inv, NumbersInv, CountsInv, Sold, Owned
<1>8. RefundsInv'
  BY <1>2, <1>3, <1>4, <1>5 DEF Inv, RefundsInv
<1> QED
  BY <1>6, <1>7, <1>8 DEF Inv

\* A committed purchase appends its own tickets to the giveaway's, and those
\* are all it owns.
LEMMA CommitStep ==
    ASSUME Inv, NEW p \in buying, CommitPurchase(p)
    PROVE  Inv'
<1> DEFINE g == p.giveaway
           m == p.next
           q == p.quantity
           numbers == m..(m + q - 1)
<1>1. /\ p.key \in Keys /\ g \in Giveaways /\ q \in Quantities /\ q \in Nat \ {0} /\ m \in Nat \ {0}
      /\ g = p.giveaway /\ q = p.quantity /\ m = p.next /\ m = giveaway[g].next
      /\ giveaway[g].status = "OPEN" /\ Cardinality(Sold(tickets[g], p.key[1])) + q <= MaxTickets
  BY AmountsAssumption DEF Inv, RowsInv, BuyersInv, Sales
<1>2. /\ p.key \notin DOMAIN purchases
      /\ DOMAIN purchases' = DOMAIN purchases \cup {p.key}
      /\ purchases'[p.key].giveaway = g /\ purchases'[p.key].quantity = q
      /\ purchases'[p.key].refunded = FALSE
      /\ \A k \in DOMAIN purchases : purchases'[k] = purchases[k]
  BY DEF CommitPurchase
<1>3. /\ giveaway' = [giveaway EXCEPT ![g].next = @ + q] /\ buying' = buying \ {p} /\ winners' = winners
      /\ tickets' = [tickets EXCEPT ![g] = [n \in DOMAIN tickets[g] \cup numbers |->
                                            IF n \in numbers THEN p.key ELSE tickets[g][n]]]
  BY DEF CommitPurchase
<1>4. DOMAIN tickets[g] = 1..(m - 1) /\ numbers \cap DOMAIN tickets[g] = {}
  BY <1>1 DEF Inv, NumbersInv
<1>5. /\ DOMAIN tickets'[g] = DOMAIN tickets[g] \cup numbers
      /\ \A n \in numbers : tickets'[g][n] = p.key
      /\ \A n \in DOMAIN tickets[g] : tickets'[g][n] = tickets[g][n]
      /\ \A h \in Giveaways : h # g => tickets'[h] = tickets[h]
  <2>1. g \in DOMAIN tickets
    BY <1>1 DEF Inv, RowsInv
  <2> HIDE DEF g, numbers
  <2> QED
    BY <1>3, <1>4, <2>1 DEF Inv, RowsInv
<1>6. /\ giveaway' \in [Giveaways -> Rows]
      /\ \A h \in Giveaways : /\ giveaway'[h].status = giveaway[h].status
                             /\ giveaway'[h].next = IF h = g THEN m + q ELSE giveaway[h].next
  BY <1>1, <1>3, SMTT(20) DEF Inv, RowsInv, Rows
<1> HIDE DEF g, m, q, numbers
<1>7. RowsInv'
  <2>1. DOMAIN purchases' \subseteq Keys /\ buying' \subseteq Sales
    BY <1>1, <1>2, <1>3 DEF Inv, RowsInv
  <2>2. tickets' = [h \in Giveaways |-> tickets'[h]] /\ winners' = [h \in Giveaways |-> winners'[h]]
    BY <1>3 DEF Inv, RowsInv
  <2> QED
    BY <1>6, <2>1, <2>2 DEF RowsInv
<1>8. \A b \in buying' : b \in buying /\ b.giveaway # g /\ b.giveaway \in Giveaways
  BY <1>1, <1>3 DEF Inv, BuyersInv, RowsInv, Sales
<1>9. BuyersInv'
  BY <1>1, <1>5, <1>6, <1>8 DEF Inv, BuyersInv
<1>10. NumbersInv'
  <2>1. DOMAIN tickets'[g] = 1..(giveaway'[g].next - 1)
    <3>1. m \in Nat \ {0} /\ q \in Nat \ {0}
      BY <1>1
    <3>2. (1..(m - 1)) \cup numbers = 1..(m + q - 1)
      BY <3>1 DEF numbers
    <3>3. giveaway'[g].next = m + q
      BY <1>1, <1>6
    <3>4. DOMAIN tickets'[g] = 1..(m + q - 1)
      BY <1>4, <1>5, <3>2
    <3>5. giveaway'[g].next \in Int /\ giveaway'[g].next - 1 = m + q - 1
      BY <3>1, <3>3
    <3> QED
      BY <3>4, <3>5
  <2>2. \A n \in DOMAIN tickets'[g] : tickets'[g][n] \in DOMAIN purchases'
                                     /\ purchases'[tickets'[g][n]].giveaway = g
    BY <1>1, <1>2, <1>5 DEF Inv, NumbersInv
  <2>3. \A h \in Giveaways : h # g =>
          /\ DOMAIN tickets'[h] = 1..(giveaway'[h].next - 1)
          /\ \A n \in DOMAIN tickets'[h] : tickets'[h][n] \in DOMAIN purchases'
                                         /\ purchases'[tickets'[h][n]].giveaway = h
    BY <1>2, <1>5, <1>6 DEF Inv, NumbersInv
  <2> QED
    BY <2>1, <2>2, <2>3 DEF NumbersInv
<1>11. IsFiniteSet(numbers) /\ Cardinality(numbers) = q
  <2>1. m \in Int /\ m + q - 1 \in Int /\ ~(m > m + q - 1) /\ (m + q - 1) - m + 1 = q
    BY <1>1
  <2> QED
    BY <2>1, FS_Interval DEF numbers
<1>12. IsFiniteSet(DOMAIN tickets[g])
  BY <1>1, <1>4, FS_Interval
<1>13. \A h \in Giveaways, u \in Users : Cardinality(Sold(tickets'[h], u)) <= MaxTickets
  <2>1. SUFFICES ASSUME NEW u \in Users PROVE Cardinality(Sold(tickets'[g], u)) <= MaxTickets
    BY <1>5 DEF Inv, CountsInv
  <2>2. CASE u # p.key[1]
    <3>1. Sold(tickets'[g], u) = Sold(tickets[g], u)
      BY <1>5, <2>2 DEF Sold
    <3> QED
      BY <1>1, <3>1 DEF Inv, CountsInv
  <2>3. CASE u = p.key[1]
    <3>1. Sold(tickets'[g], u) = Sold(tickets[g], u) \cup numbers
      BY <1>5, <2>3 DEF Sold
    <3>2. IsFiniteSet(Sold(tickets[g], u)) /\ Sold(tickets[g], u) \cap numbers = {}
      BY <1>4, <1>12, FS_Subset DEF Sold
    <3>3. Cardinality(Sold(tickets'[g], u)) = Cardinality(Sold(tickets[g], u)) + q
      <4>1. Cardinality(Sold(tickets'[g], u)) = Cardinality(Sold(tickets[g], u)) + q - Cardinality({})
        BY <1>11, <3>1, <3>2, FS_Union
      <4>2. Cardinality({}) = 0 /\ Cardinality(Sold(tickets[g], u)) \in Nat /\ q \in Nat
        BY <1>1, <3>2, FS_EmptySet, FS_CardinalityType
      <4> QED
        BY <4>1, <4>2
    <3> QED
      BY <1>1, <2>3, <3>3
  <2> QED
    BY <2>2, <2>3
<1>14. \A k \in DOMAIN purchases', h \in Giveaways :
          Cardinality(Owned(tickets'[h], k)) =
             IF h = purchases'[k].giveaway THEN purchases'[k].quantity ELSE 0
  <2>1. \A h \in Giveaways : Owned(tickets[h], p.key) = {}
    BY <1>2 DEF Inv, NumbersInv, Owned
  <2>2. \A h \in Giveaways : Owned(tickets'[h], p.key) = IF h = g THEN numbers ELSE {}
    <3>1. Owned(tickets'[g], p.key) = numbers
      BY <1>1, <1>4, <1>5, <2>1 DEF Owned
    <3>2. \A h \in Giveaways : h # g => Owned(tickets'[h], p.key) = {}
      BY <1>5, <2>1
    <3> QED
      BY <3>1, <3>2
  <2>3. \A h \in Giveaways : Cardinality(Owned(tickets'[h], p.key)) = IF h = g THEN q ELSE 0
    BY <1>11, <2>2, FS_EmptySet
  <2>4. \A k \in DOMAIN purchases, h \in Giveaways : Owned(tickets'[h], k) = Owned(tickets[h], k)
    BY <1>2, <1>5 DEF Owned
  <2>5. \A k \in DOMAIN purchases, h \in Giveaways :
          Cardinality(Owned(tickets'[h], k)) =
             IF h = purchases'[k].giveaway THEN purchases'[k].quantity ELSE 0
    BY <1>2, <2>4 DEF Inv, CountsInv
  <2> QED
    BY <1>2, <2>3, <2>5
<1>15. RefundsInv'
  BY <1>1, <1>2, <1>6 DEF Inv, RefundsInv
<1> QED
  BY <1>7, <1>9, <1>10, <1>13, <1>14, <1>15 DEF Inv, CountsInv

\* Every step keeps the invariant.
LEMMA InvStep == Inv /\ [Next]_vars => Inv'
<1> SUFFICES ASSUME Inv, [Next]_vars PROVE Inv'
  OBVIOUS
<1>1. CASE Switch \/ (\E u \in Users, a \in Awards : Award(u, a)) \/ UNCHANGED vars
  <2>1. UNCHANGED <<giveaway, winners, tickets, purchases, buying>>
    BY <1>1 DEF Switch, Award, vars
  <2> QED
    BY <2>1, MoneyStep
<1>2. ASSUME NEW g \in Giveaways,
             \/ WindowMoves(g) \/ Publish(g) \/ CloseGiveaway(g) \/ Cancel(g) \/ Draw(g)
             \/ \E price \in Prices, window \in {"before", "during"} : Edit(g, price, window)
      PROVE  Inv'
  BY <1>2, LifeStep
<1>3. ASSUME NEW g \in Giveaways, NEW u \in Users, NEW r \in Requests, NEW quantity \in Quantities,
             NEW expected \in Prices, BeginPurchase(u, r, g, quantity, expected)
      PROVE  Inv'
  BY <1>3, BeginStep
<1>4. ASSUME NEW p \in buying, CommitPurchase(p) \/ AbortPurchase(p) PROVE Inv'
  BY <1>4, CommitStep, AbortStep
<1>5. CASE RefundBatch
  BY <1>5, RefundStep
<1> QED
  BY <1>1, <1>2, <1>3, <1>4, <1>5 DEF Next

LEMMA Safety == Spec => []Inv
<1> QED
  BY InvInit, InvStep, PTL DEF Spec

-----------------------------------------------------------------------------
\* What the types need besides Inv: the limit of ticket numbers, which an open
\* purchase has tested and the row lock keeps true, and drawn tickets that exist.
LimitsInv ==
    /\ program \in {"on", "fading", "off"} /\ DOMAIN balance = Users
    /\ \A g \in Giveaways : giveaway[g].next <= TicketLimit
    /\ \A g \in Giveaways : \A i \in DOMAIN winners[g] : winners[g][i] \in DOMAIN tickets[g]
    /\ \A p \in buying : p.next + p.quantity <= TicketLimit
    /\ \A k \in DOMAIN purchases : purchases[k].quantity \in Quantities

LEMMA LimitsInit == Init => LimitsInv
<1> SUFFICES ASSUME Init PROVE LimitsInv
  OBVIOUS
<1>1. \A g \in Giveaways : giveaway[g].next = 1 /\ DOMAIN winners[g] = {}
  BY DEF Init
<1>2. DOMAIN purchases = {} /\ buying = {} /\ DOMAIN balance = Users
  BY DEF Init
<1> QED
  BY <1>1, <1>2, AmountsAssumption DEF Init, LimitsInv

LEMMA LimitsStep == Inv /\ LimitsInv /\ [Next]_vars => LimitsInv'
<1> SUFFICES ASSUME Inv, LimitsInv, [Next]_vars PROVE LimitsInv'
  OBVIOUS
<1>1. /\ giveaway \in [Giveaways -> Rows] /\ DOMAIN winners = Giveaways /\ DOMAIN tickets = Giveaways
      /\ buying \subseteq Sales
  BY DEF Inv, RowsInv
<1>2. CASE Switch \/ (\E u \in Users, a \in Awards : Award(u, a)) \/ UNCHANGED vars
  <2>1. UNCHANGED <<giveaway, winners, tickets, purchases, buying>>
    BY <1>2 DEF Switch, Award, vars
  <2>2. program' \in {"on", "fading", "off"} /\ DOMAIN balance' = Users
    BY <1>2 DEF Switch, Award, vars, moneyVars, LimitsInv
  <2> QED
    BY <2>1, <2>2 DEF LimitsInv
<1>3. ASSUME NEW g \in Giveaways,
             \/ WindowMoves(g) \/ Publish(g) \/ CloseGiveaway(g) \/ Cancel(g) \/ Draw(g)
             \/ \E price \in Prices, window \in {"before", "during"} : Edit(g, price, window)
      PROVE  LimitsInv'
  <2>1. UNCHANGED <<program, tickets, purchases, buying, balance>>
    BY <1>3 DEF WindowMoves, Publish, CloseGiveaway, Cancel, Draw, Edit, Free, moneyVars
  <2>2. \A h \in Giveaways : giveaway'[h].next = giveaway[h].next
    <3>1. CASE WindowMoves(g)
      BY <1>1, <3>1 DEF WindowMoves, Change, Rows
    <3>2. CASE Publish(g) \/ CloseGiveaway(g) \/ Cancel(g) \/ Draw(g)
      BY <1>1, <3>2 DEF Publish, CloseGiveaway, Cancel, Draw, Change, Rows
    <3>3. ASSUME NEW price \in Prices, NEW window \in {"before", "during"}, Edit(g, price, window)
          PROVE  \A h \in Giveaways : giveaway'[h].next = giveaway[h].next
      BY <1>1, <3>3 DEF Edit, Change, Rows
    <3> QED
      BY <1>3, <3>1, <3>2, <3>3
  <2>3. \A h \in Giveaways : \A i \in DOMAIN winners'[h] : winners'[h][i] \in DOMAIN tickets[h]
    <3>1. CASE Draw(g)
      <4>1. PICK w \in Winners(g) : winners' = [winners EXCEPT ![g] = w]
        BY <3>1 DEF Draw
      <4>2. \A i \in DOMAIN w : w[i] \in DOMAIN tickets[g]
        BY DEF Winners
      <4> QED
        BY <1>1, <4>1, <4>2 DEF LimitsInv
    <3>2. CASE ~Draw(g)
      BY <1>3, <3>2 DEF LimitsInv, WindowMoves, Publish, CloseGiveaway, Cancel, Edit
    <3> QED
      BY <3>1, <3>2
  <2> QED
    BY <2>1, <2>2, <2>3, SMTT(20) DEF LimitsInv
<1>4. ASSUME NEW g \in Giveaways, NEW u \in Users, NEW r \in Requests, NEW quantity \in Quantities,
             NEW expected \in Prices, BeginPurchase(u, r, g, quantity, expected)
      PROVE  LimitsInv'
  <2>1. UNCHANGED <<program, giveaway, winners, tickets, purchases, balance>>
    BY <1>4 DEF BeginPurchase, moneyVars
  <2>2. \A p \in buying' : p.next + p.quantity <= TicketLimit
    BY <1>4 DEF BeginPurchase, RoomLeft, LimitsInv
  <2> QED
    BY <2>1, <2>2 DEF LimitsInv
<1>5. ASSUME NEW p \in buying, CommitPurchase(p) PROVE LimitsInv'
  <2> DEFINE g == p.giveaway
  <2>1. g \in Giveaways /\ p.next = giveaway[g].next /\ p.quantity \in Quantities
    BY <1>1 DEF Inv, BuyersInv, Sales
  <2>2. giveaway' = [giveaway EXCEPT ![g].next = @ + p.quantity] /\ buying' \subseteq buying
        /\ UNCHANGED <<program, winners>>
    BY <1>5 DEF CommitPurchase
  <2>3. \A h \in Giveaways : giveaway'[h].next <= TicketLimit
    BY <1>1, <2>1, <2>2 DEF LimitsInv, Rows
  <2>4. \A h \in Giveaways : DOMAIN tickets[h] \subseteq DOMAIN tickets'[h]
    BY <1>1, <1>5 DEF CommitPurchase
  <2>5. \A k \in DOMAIN purchases' : purchases'[k].quantity \in Quantities
    BY <1>5, <2>1 DEF CommitPurchase, LimitsInv
  <2>6. DOMAIN balance' = Users
    BY <1>5 DEF CommitPurchase, LimitsInv
  <2> QED
    BY <2>2, <2>3, <2>4, <2>5, <2>6 DEF LimitsInv
<1>6. ASSUME NEW p \in buying, AbortPurchase(p) PROVE LimitsInv'
  BY <1>6 DEF AbortPurchase, LimitsInv, moneyVars
<1>7. CASE RefundBatch
  <2>1. UNCHANGED <<program, giveaway, winners, tickets, buying>> /\ DOMAIN balance' = Users
    BY <1>7 DEF RefundBatch
  <2>2. \A k \in DOMAIN purchases' : k \in DOMAIN purchases /\ purchases'[k].quantity = purchases[k].quantity
    BY <1>7 DEF RefundBatch
  <2> QED
    BY <2>1, <2>2 DEF LimitsInv
<1> QED
  BY <1>2, <1>3, <1>4, <1>5, <1>6, <1>7 DEF Next

\* Every variable keeps its type: ticket numbers stay under the limit, and a
\* draw names sold tickets of committed purchases.
THEOREM TypeCorrect == Spec => []TypeOK
<1>1. Spec => []LimitsInv
  BY LimitsInit, LimitsStep, Safety, PTL DEF Spec
<1>2. Inv /\ LimitsInv => TypeOK
  BY DEF Inv, RowsInv, NumbersInv, RefundsInv, LimitsInv, TypeOK, Rows, Statuses, Windows, Sales
<1> QED
  BY <1>1, <1>2, Safety, PTL

-----------------------------------------------------------------------------
\* Tickets are numbered without gaps, are exactly those that were paid for,
\* never exceed a player's limit, and are refunded only after a cancellation
\* (purchase and refundBatch of rewards.service.ts).
THEOREM TicketsAreAlwaysPaidFor == Spec => []TicketsArePaidFor
<1>1. Inv => TicketsArePaidFor
  BY DEF Inv, NumbersInv, CountsInv, RefundsInv, Owned, TicketsArePaidFor
<1> QED
  BY <1>1, Safety, PTL

\* A step leaves a drawn giveaway, its winners and its tickets as they are:
\* nobody can still be buying in it.
LEMMA DrawnStays ==
    ASSUME Inv, [Next]_vars, NEW g \in Giveaways, giveaway[g].status = "DRAWN"
    PROVE  giveaway'[g].status = "DRAWN" /\ winners'[g] = winners[g] /\ tickets'[g] = tickets[g]
<1> DEFINE Kept == giveaway'[g].status = "DRAWN" /\ winners'[g] = winners[g] /\ tickets'[g] = tickets[g]
<1> SUFFICES Kept
  OBVIOUS
<1>1. giveaway \in [Giveaways -> Rows] /\ DOMAIN winners = Giveaways /\ DOMAIN tickets = Giveaways
  BY DEF Inv, RowsInv
<1>2. CASE UNCHANGED <<giveaway, winners, tickets>>
  BY <1>2
<1>3. ASSUME NEW h \in Giveaways,
             \/ WindowMoves(h) \/ Publish(h) \/ CloseGiveaway(h) \/ Cancel(h) \/ Draw(h)
             \/ \E price \in Prices, window \in {"before", "during"} : Edit(h, price, window)
      PROVE  Kept
  <2>1. CASE WindowMoves(h)
    BY <1>1, <2>1 DEF WindowMoves, Change, Rows
  <2>2. CASE Draw(h)
    BY <1>1, <2>2 DEF Draw, Change
  <2>3. CASE Publish(h) \/ CloseGiveaway(h) \/ Cancel(h)
    BY <1>1, <2>3 DEF Publish, CloseGiveaway, Cancel, Cancellable, Change
  <2>4. CASE \E price \in Prices, window \in {"before", "during"} : Edit(h, price, window)
    BY <1>1, <2>4 DEF Edit, Change
  <2> QED
    BY <1>3, <2>1, <2>2, <2>3, <2>4
<1>4. ASSUME NEW p \in buying, CommitPurchase(p) PROVE Kept
  <2>1. p.giveaway # g /\ p.giveaway \in Giveaways
    BY DEF Inv, BuyersInv, RowsInv, Sales
  <2>2. giveaway'[g] = giveaway[g] /\ tickets'[g] = tickets[g] /\ winners' = winners
    BY <1>1, <1>4, <2>1 DEF CommitPurchase
  <2> QED
    BY <2>2
<1>5. CASE \/ Switch \/ (\E u \in Users, a \in Awards : Award(u, a)) \/ RefundBatch \/ UNCHANGED vars
          \/ (\E p \in buying : AbortPurchase(p))
          \/ (\E h \in Giveaways, u \in Users, r \in Requests, quantity \in Quantities, expected \in Prices :
                 BeginPurchase(u, r, h, quantity, expected))
  <2>1. UNCHANGED <<giveaway, winners, tickets>>
    BY <1>5 DEF Switch, Award, RefundBatch, vars, AbortPurchase, BeginPurchase
  <2> QED
    BY <1>2, <2>1
<1> QED
  BY <1>3, <1>4, <1>5 DEF Next

\* A saved draw never changes, whoever is buying, cancelling or drawing again.
THEOREM DrawsStayFinal == Spec => DrawIsFinal
<1>1. Inv /\ [Next]_vars =>
        [\A g \in Giveaways : giveaway[g].status = "DRAWN" =>
           /\ giveaway'[g].status = "DRAWN" /\ winners'[g] = winners[g] /\ tickets'[g] = tickets[g]]_vars
  BY DrawnStays
<1> QED
  BY <1>1, Safety, PTL DEF Spec, DrawIsFinal

-----------------------------------------------------------------------------
(* Prizes *)

\* The winners of a giveaway that is drawn were drawn from the tickets it has.
DrawnInv == \A g \in Giveaways : giveaway[g].status = "DRAWN" => winners[g] \in Winners(g)

\* The same, said of the tickets alone.
WinnersOf(owner) ==
    LET pool == IF UniqueWinners THEN {owner[n][1] : n \in DOMAIN owner} ELSE DOMAIN owner
        places == IF Cardinality(pool) < Prizes THEN Cardinality(pool) ELSE Prizes
    IN  {w \in [1..places -> DOMAIN owner] : \A i, j \in 1..places :
           (w[i] = w[j] \/ (UniqueWinners /\ owner[w[i]][1] = owner[w[j]][1])) => i = j}

LEMMA DrawnStep == Inv /\ DrawnInv /\ [Next]_vars => DrawnInv'
<1> SUFFICES ASSUME Inv, DrawnInv, [Next]_vars, NEW g \in Giveaways, giveaway'[g].status = "DRAWN"
             PROVE  winners'[g] \in Winners(g)'
  BY DEF DrawnInv
<1>1. giveaway \in [Giveaways -> Rows] /\ DOMAIN winners = Giveaways /\ DOMAIN tickets = Giveaways
  BY DEF Inv, RowsInv
<1>2. ASSUME tickets'[g] = tickets[g], winners'[g] \in Winners(g)
      PROVE  winners'[g] \in Winners(g)'
  <2>1. Winners(g) = WinnersOf(tickets[g]) /\ Winners(g)' = WinnersOf(tickets'[g])
    BY DEF Winners, WinnersOf
  <2> QED
    BY <1>2, <2>1
<1>3. CASE giveaway[g].status = "DRAWN"
  BY <1>2, <1>3, DrawnStays DEF DrawnInv
<1>4. ASSUME NEW h \in Giveaways, Draw(h)
      PROVE  winners'[g] \in Winners(g)' \/ giveaway[g].status = "DRAWN"
  <2>1. CASE h = g
    <3>1. tickets'[g] = tickets[g] /\ winners'[g] \in Winners(g)
      BY <1>1, <1>4, <2>1 DEF Draw
    <3> QED
      BY <1>2, <3>1
  <2>2. CASE h # g
    BY <1>1, <1>4, <2>2 DEF Draw, Change
  <2> QED
    BY <2>1, <2>2
<1>5. ASSUME NEW h \in Giveaways,
             \/ WindowMoves(h) \/ Publish(h) \/ CloseGiveaway(h) \/ Cancel(h)
             \/ \E price \in Prices, window \in {"before", "during"} : Edit(h, price, window)
      PROVE  giveaway[g].status = "DRAWN"
  <2>1. CASE WindowMoves(h)
    BY <1>1, <2>1 DEF WindowMoves, Change, Rows
  <2>2. CASE Publish(h) \/ CloseGiveaway(h) \/ Cancel(h)
    BY <1>1, <2>2 DEF Publish, CloseGiveaway, Cancel, Change, Rows
  <2>3. ASSUME NEW price \in Prices, NEW window \in {"before", "during"}, Edit(h, price, window)
        PROVE  giveaway[g].status = "DRAWN"
    BY <1>1, <2>3 DEF Edit, Change, Rows
  <2> QED
    BY <1>5, <2>1, <2>2, <2>3
<1>6. ASSUME NEW p \in buying, CommitPurchase(p)
      PROVE  giveaway[g].status = "DRAWN"
  BY <1>1, <1>6 DEF CommitPurchase, Rows
<1>7. CASE \/ Switch \/ (\E u \in Users, a \in Awards : Award(u, a)) \/ RefundBatch \/ UNCHANGED vars
           \/ (\E p \in buying : AbortPurchase(p))
           \/ (\E h \in Giveaways, u \in Users, r \in Requests, quantity \in Quantities, expected \in Prices :
                  BeginPurchase(u, r, h, quantity, expected))
  <2>1. UNCHANGED giveaway
    BY <1>7 DEF Switch, Award, RefundBatch, vars, AbortPurchase, BeginPurchase
  <2> QED
    BY <1>3, <2>1
<1> QED
  BY <1>3, <1>4, <1>5, <1>6, <1>7 DEF Next

\* What was drawn is shared among the players: one prize for each, and all that can be had.
LEMMA WinnersShare ==
    ASSUME Inv, UniqueWinners, NEW g \in Giveaways, NEW w \in Winners(g)
    PROVE  LET players == {tickets[g][n][1] : n \in DOMAIN tickets[g]}
               winning == {tickets[g][w[i]][1] : i \in DOMAIN w}
           IN  /\ Cardinality(winning) = Len(w)
               /\ Len(w) = Prizes \/ winning = players
<1> USE AmountsAssumption
<1> DEFINE sold == DOMAIN tickets[g]
           user == [n \in sold |-> tickets[g][n][1]]
           players == {tickets[g][n][1] : n \in sold}
           winning == {tickets[g][w[i]][1] : i \in DOMAIN w}
           places == IF Cardinality(players) < Prizes THEN Cardinality(players) ELSE Prizes
           winner == [i \in 1..places |-> tickets[g][w[i]][1]]
<1>1. IsFiniteSet(sold)
  <2>1. 1 \in Int /\ giveaway[g].next - 1 \in Int
    BY DEF Inv, RowsInv, Rows
  <2>2. IsFiniteSet(1..(giveaway[g].next - 1))
    BY <2>1, FS_Interval
  <2>3. sold = 1..(giveaway[g].next - 1)
    BY DEF Inv, NumbersInv
  <2> QED
    BY <2>2, <2>3
<1>2. IsFiniteSet(players) /\ Cardinality(players) \in Nat
  <2>1. user \in Surjection(sold, players)
    BY DEF Surjection
  <2>2. IsFiniteSet(players)
    BY <1>1, <2>1, FS_Surjection
  <2> QED
    BY <2>2, FS_CardinalityType
<1>3. /\ w \in [1..places -> sold]
      /\ \A i, j \in 1..places : tickets[g][w[i]][1] = tickets[g][w[j]][1] => i = j
  BY DEF Winners
<1>4. places \in Nat /\ DOMAIN w = 1..places /\ IsFiniteSet(1..places) /\ Cardinality(1..places) = places
  <2>1. (IF 1 > places THEN 0 ELSE places - 1 + 1) = places
    BY <1>2
  <2>2. 1 \in Int /\ places \in Int
    BY <1>2
  <2>3. /\ IsFiniteSet(1..places)
        /\ Cardinality(1..places) = IF 1 > places THEN 0 ELSE places - 1 + 1
    BY <2>2, FS_Interval
  <2> HIDE DEF places
  <2> QED
    BY <1>3, <2>1, <2>2, <2>3
<1>5. Len(w) = places
  <2> HIDE DEF places, sold
  <2> QED
    BY <1>3, <1>4
<1>6. Cardinality(winning) = places
  <2>1. winner \in Surjection(1..places, winning) /\ winner \in Injection(1..places, winning)
    <3>1. winning = {tickets[g][w[i]][1] : i \in 1..places}
      BY <1>4
    <3> HIDE DEF places, winning
    <3> QED
      BY <1>3, <3>1 DEF Surjection, Injection, IsInjective
  <2> HIDE DEF winner, winning, places
  <2> QED
    BY <1>4, <2>1, FS_Surjection
<1>7. winning \subseteq players
  BY <1>3, <1>4
<1>8. places = Prizes \/ winning = players
  <2>1. Cardinality(winning) = Cardinality(players) => winning = players
    <3> HIDE DEF winning, players
    <3> QED
      BY <1>2, <1>7, FS_Subset
  <2> QED
    BY <1>6, <2>1
<1> QED
  BY <1>5, <1>6, <1>8

\* A player wins one prize at most where winners are unique, and no prize is kept while a
\* player without one still holds a ticket (chooseWinners of rewards.service.ts).
THEOREM PrizesAreAlwaysShared == Spec => []PrizesAreShared
<1>1. Init => DrawnInv
  <2> SUFFICES ASSUME Init PROVE DrawnInv
    OBVIOUS
  <2>1. \A g \in Giveaways : giveaway[g].status = "DRAFT"
    BY DEF Init
  <2> QED
    BY <2>1 DEF DrawnInv
<1>2. Inv /\ DrawnInv => PrizesAreShared
  BY WinnersShare DEF DrawnInv, PrizesAreShared
<1> QED
  BY <1>1, <1>2, DrawnStep, Safety, PTL DEF Spec

-----------------------------------------------------------------------------
(* Sums.  The community modules define the sum of a function's values over a  *)
(* finite set by taking the elements out one by one in some order: there is   *)
(* such a sum, and the order does not matter.  Induction over finite sets is  *)
(* had from a smallest counterexample.                                        *)

Total(f, S) == MapThenSumSet(LAMBDA x : f[x], S)

\* The element that is taken out first, and the equation of the sum of every part of S.
First(S) == CHOOSE x \in S : TRUE
SumsParts(sum, f, S) ==
    sum = [s \in SUBSET S |-> IF s = {} THEN 0 ELSE f[First(s)] + sum[s \ {First(s)}]]

\* What holds of a finite set as soon as it holds of all its smaller parts holds of it.
LEMMA PartsInduction ==
    ASSUME NEW S, IsFiniteSet(S), NEW Good,
           \A s \in SUBSET S : (\A r \in SUBSET s : r # s => r \in Good) => s \in Good
    PROVE  SUBSET S \subseteq Good
<1> DEFINE Bad == (SUBSET S) \ Good
           Smaller == StrictSubsetOrdering(S)
<1>1. IsWellFoundedOn(Smaller, SUBSET S)
  BY FS_FiniteSubsetsOfFinite, FS_StrictSubsetOrderingWellFounded
<1>2. \A r, s \in SUBSET S : r \subseteq s /\ r # s => <<r, s>> \in Smaller
  BY DEF StrictSubsetOrdering
<1> HIDE DEF Smaller
<1>3. ASSUME Bad # {}
      PROVE  FALSE
  <2>1. PICK s \in Bad : \A r \in Bad : <<r, s>> \notin Smaller
    <3> HIDE DEF Bad
    <3>1. Bad \subseteq SUBSET S
      BY DEF Bad
    <3> QED
      BY <1>1, <1>3, <3>1, WFMin
  <2>2. ASSUME NEW r \in SUBSET s, r # s
        PROVE  r \in Good
    <3>1. r \in SUBSET S /\ s \in SUBSET S /\ r \subseteq s
      OBVIOUS
    <3>2. <<r, s>> \in Smaller
      BY <1>2, <2>2, <3>1
    <3> QED
      BY <2>1, <3>1, <3>2
  <2> QED
    BY <2>1, <2>2
<1> QED
  BY <1>3

LEMMA FirstIsOne == \A S : S # {} => First(S) \in S
BY DEF First

LEMMA OneSum ==
    ASSUME NEW f, NEW S, IsFiniteSet(S), NEW g, NEW h, SumsParts(g, f, S), SumsParts(h, f, S)
    PROVE  g = h
<1> DEFINE Good == {s \in SUBSET S : g[s] = h[s]}
<1>1. \A s \in SUBSET S : (\A r \in SUBSET s : r # s => r \in Good) => s \in Good
  <2> SUFFICES ASSUME NEW s \in SUBSET S, \A r \in SUBSET s : r # s => r \in Good
               PROVE  g[s] = h[s]
    OBVIOUS
  <2> DEFINE rest == s \ {First(s)}
  <2>1. s # {} => rest \in SUBSET s /\ rest # s
    BY FirstIsOne
  <2>2. /\ g[s] = IF s = {} THEN 0 ELSE f[First(s)] + g[rest]
        /\ h[s] = IF s = {} THEN 0 ELSE f[First(s)] + h[rest]
    BY DEF SumsParts
  <2> HIDE DEF rest
  <2> QED
    BY <2>1, <2>2
<1>2. SUBSET S \subseteq Good
  <2> HIDE DEF Good
  <2> QED
    BY <1>1, PartsInduction
<1> QED
  BY <1>2 DEF SumsParts

LEMMA SumOfPart ==
    ASSUME NEW f, NEW S, NEW g, SumsParts(g, f, S), NEW T \in SUBSET S
    PROVE  SumsParts([s \in SUBSET T |-> g[s]], f, T)
BY FirstIsOne DEF SumsParts

LEMMA SomeSum ==
    ASSUME NEW f, NEW S, IsFiniteSet(S)
    PROVE  \E g : SumsParts(g, f, S)
<1> DEFINE Good == {s \in SUBSET S : \E g : SumsParts(g, f, s)}
           sum(s) == CHOOSE g : SumsParts(g, f, s)
<1>1. ASSUME NEW s \in SUBSET S, \A r \in SUBSET s : r # s => r \in Good
      PROVE  \E g : SumsParts(g, f, s)
  <2> DEFINE rest(r) == r \ {First(r)}
             g == [r \in SUBSET s |-> IF r = {} THEN 0 ELSE f[First(r)] + sum(rest(r))[rest(r)]]
  <2>1. ASSUME NEW r \in SUBSET s, r # s
        PROVE  SumsParts(sum(r), f, r)
    BY <1>1, <2>1
  <2>2. ASSUME NEW r \in SUBSET s, r # s
        PROVE  g[r] = sum(r)[r]
    <3> HIDE DEF sum
    <3>1. CASE r = {}
      BY <2>1, <2>2, <3>1 DEF SumsParts
    <3>2. CASE r # {}
      <4> DEFINE q == rest(r)
                 part == [t \in SUBSET q |-> sum(r)[t]]
      <4>1. q \in SUBSET r /\ q \in SUBSET s /\ q # s /\ IsFiniteSet(q)
        BY <2>2, <3>2, FirstIsOne, FS_Subset
      <4>2. SumsParts(part, f, q)
        BY <2>1, <2>2, <4>1, SumOfPart
      <4>3. part = sum(q)
        <5> HIDE DEF q, part
        <5> QED
          BY <2>1, <4>1, <4>2, OneSum
      <4>4. sum(r)[r] = f[First(r)] + sum(r)[q]
        BY <2>1, <2>2, <3>2 DEF SumsParts
      <4>5. part[q] = sum(r)[q]
        OBVIOUS
      <4> QED
        BY <2>2, <3>2, <4>3, <4>4, <4>5
    <3> QED
      BY <3>1, <3>2
  <2>3. \A r \in SUBSET s : r # {} => rest(r) \in SUBSET s /\ rest(r) # s
    BY FirstIsOne
  <2>4. SumsParts(g, f, s)
    <3> DEFINE other == [r \in SUBSET s |-> IF r = {} THEN 0 ELSE f[First(r)] + g[rest(r)]]
    <3>1. \A r \in SUBSET s : g[r] = other[r]
      <4> HIDE DEF sum, rest
      <4> QED
        BY <2>2, <2>3
    <3>2. g = other
      <4> HIDE DEF sum, rest
      <4> QED
        BY <3>1
    <3> QED
      BY <3>2 DEF SumsParts
  <2> QED
    BY <2>4
<1>2. \A s \in SUBSET S : (\A r \in SUBSET s : r # s => r \in Good) => s \in Good
  <2> SUFFICES ASSUME NEW s \in SUBSET S, \A r \in SUBSET s : r # s => r \in Good
               PROVE  \E g : SumsParts(g, f, s)
    OBVIOUS
  <2> QED
    BY <1>1
<1>3. SUBSET S \subseteq Good
  <2> HIDE DEF Good
  <2> QED
    BY <1>2, PartsInduction
<1> QED
  BY <1>3
\* The community modules' sum is that one sum.
LEMMA TotalIsSum ==
    ASSUME NEW f, NEW S, IsFiniteSet(S), NEW g, SumsParts(g, f, S)
    PROVE  Total(f, S) = g[S]
<1> DEFINE iter == CHOOSE h : SumsParts(h, f, S)
<1>1. Total(f, S) = iter[S]
  BY DEF Total, SumsParts, First, MapThenSumSet, MapThenFoldSet
<1>2. SumsParts(iter, f, S)
  OBVIOUS
<1>3. iter = g
  <2> HIDE DEF iter
  <2> QED
    BY <1>2, OneSum
<1> QED
  BY <1>1, <1>3

LEMMA TotalOfNothing == ASSUME NEW f PROVE Total(f, {}) = 0
<1> DEFINE g == [s \in SUBSET {} |-> 0]
<1>1. SumsParts(g, f, {})
  BY DEF SumsParts
<1>2. IsFiniteSet({})
  BY FS_EmptySet
<1>3. Total(f, {}) = g[{}]
  <2> HIDE DEF g
  <2> QED
    BY <1>1, <1>2, TotalIsSum
<1> QED
  BY <1>3

LEMMA TotalTakesFirst ==
    ASSUME NEW f, NEW S, IsFiniteSet(S), S # {}
    PROVE  Total(f, S) = f[First(S)] + Total(f, S \ {First(S)})
<1>1. PICK g : SumsParts(g, f, S)
  BY SomeSum
<1> DEFINE T == S \ {First(S)}
           part == [s \in SUBSET T |-> g[s]]
<1>2. T \in SUBSET S /\ IsFiniteSet(T)
  BY FS_Subset
<1>3. SumsParts(part, f, T)
  BY <1>1, <1>2, SumOfPart
<1>4. Total(f, T) = part[T]
  <2> HIDE DEF T, part
  <2> QED
    BY <1>2, <1>3, TotalIsSum
<1>5. Total(f, S) = g[S] /\ g[S] = f[First(S)] + g[T]
  <2>1. Total(f, S) = g[S]
    BY <1>1, TotalIsSum
  <2>2. g[S] = f[First(S)] + g[T]
    BY <1>1 DEF SumsParts
  <2> QED
    BY <2>1, <2>2
<1>6. part[T] = g[T]
  OBVIOUS
<1> QED
  BY <1>4, <1>5, <1>6

\* Sums of integers are integers, and do not depend on what lies outside.
LEMMA TotalType ==
    ASSUME NEW f, NEW S, IsFiniteSet(S), \A x \in S : f[x] \in Int
    PROVE  Total(f, S) \in Int
<1> DEFINE Good == {s \in SUBSET S : Total(f, s) \in Int}
<1>1. \A s \in SUBSET S : (\A r \in SUBSET s : r # s => r \in Good) => s \in Good
  <2> SUFFICES ASSUME NEW s \in SUBSET S, \A r \in SUBSET s : r # s => r \in Good
               PROVE  Total(f, s) \in Int
    OBVIOUS
  <2>1. CASE s = {}
    BY <2>1, TotalOfNothing
  <2>2. CASE s # {}
    <3>1. First(s) \in s /\ IsFiniteSet(s)
      BY <2>2, FirstIsOne, FS_Subset
    <3>2. Total(f, s \ {First(s)}) \in Int /\ f[First(s)] \in Int
      BY <3>1
    <3> QED
      BY <2>2, <3>1, <3>2, TotalTakesFirst
  <2> QED
    BY <2>1, <2>2
<1>2. SUBSET S \subseteq Good
  <2> HIDE DEF Good
  <2> QED
    BY <1>1, PartsInduction
<1> QED
  BY <1>2

LEMMA TotalDepends ==
    ASSUME NEW f, NEW h, NEW S, IsFiniteSet(S), \A x \in S : f[x] = h[x]
    PROVE  Total(f, S) = Total(h, S)
<1> DEFINE Good == {s \in SUBSET S : Total(f, s) = Total(h, s)}
<1>1. \A s \in SUBSET S : (\A r \in SUBSET s : r # s => r \in Good) => s \in Good
  <2> SUFFICES ASSUME NEW s \in SUBSET S, \A r \in SUBSET s : r # s => r \in Good
               PROVE  Total(f, s) = Total(h, s)
    OBVIOUS
  <2>1. CASE s = {}
    BY <2>1, TotalOfNothing
  <2>2. CASE s # {}
    <3>1. First(s) \in s /\ IsFiniteSet(s)
      BY <2>2, FirstIsOne, FS_Subset
    <3>2. /\ Total(f, s \ {First(s)}) = Total(h, s \ {First(s)})
          /\ f[First(s)] = h[First(s)]
      BY <3>1
    <3>3. /\ Total(f, s) = f[First(s)] + Total(f, s \ {First(s)})
          /\ Total(h, s) = h[First(s)] + Total(h, s \ {First(s)})
      BY <2>2, <3>1, TotalTakesFirst
    <3> QED
      BY <3>2, <3>3
  <2> QED
    BY <2>1, <2>2
<1>2. SUBSET S \subseteq Good
  <2> HIDE DEF Good
  <2> QED
    BY <1>1, PartsInduction
<1> QED
  BY <1>2

\* Whichever element is taken out first, the sum is the same.
LEMMA TotalTakesAny ==
    ASSUME NEW f, NEW S, IsFiniteSet(S), \A x \in S : f[x] \in Int, NEW y \in S
    PROVE  Total(f, S) = f[y] + Total(f, S \ {y})
<1> DEFINE Good == {s \in SUBSET S : \A x \in s : Total(f, s) = f[x] + Total(f, s \ {x})}
<1>1. \A s \in SUBSET S : (\A r \in SUBSET s : r # s => r \in Good) => s \in Good
  <2> SUFFICES ASSUME NEW s \in SUBSET S, \A r \in SUBSET s : r # s => r \in Good, NEW x \in s
               PROVE  Total(f, s) = f[x] + Total(f, s \ {x})
    OBVIOUS
  <2> DEFINE z == First(s)
  <2>1. /\ z \in s /\ IsFiniteSet(s)
        /\ Total(f, s) = f[z] + Total(f, s \ {z})
    <3>1. First(s) \in s /\ IsFiniteSet(s) /\ s # {}
      BY FirstIsOne, FS_Subset
    <3> QED
      BY <3>1, TotalTakesFirst
  <2> HIDE DEF z
  <2>2. CASE x = z
    BY <2>1, <2>2
  <2>3. CASE x # z
    <3> DEFINE rest == s \ {x, z}
    <3>1. (s \ {z}) \ {x} = rest /\ (s \ {x}) \ {z} = rest /\ IsFiniteSet(rest)
      BY <2>1, FS_Subset
    <3>2. /\ Total(f, s \ {z}) = f[x] + Total(f, (s \ {z}) \ {x})
          /\ Total(f, s \ {x}) = f[z] + Total(f, (s \ {x}) \ {z})
      BY <2>1, <2>3
    <3>3. Total(f, s \ {z}) = f[x] + Total(f, rest) /\ Total(f, s \ {x}) = f[z] + Total(f, rest)
      BY <3>1, <3>2
    <3>4. f[x] \in Int /\ f[z] \in Int /\ Total(f, rest) \in Int
      <4>1. \A t \in rest : f[t] \in Int
        OBVIOUS
      <4> QED
        BY <2>1, <3>1, <4>1, TotalType
    <3> HIDE DEF rest
    <3> QED
      BY <2>1, <3>3, <3>4
  <2> QED
    BY <2>2, <2>3
<1>2. SUBSET S \subseteq Good
  <2> HIDE DEF Good
  <2> QED
    BY <1>1, PartsInduction
<1> QED
  BY <1>2

LEMMA TotalGrows ==
    ASSUME NEW f, NEW S, IsFiniteSet(S), NEW y, y \notin S, \A x \in S \cup {y} : f[x] \in Int
    PROVE  Total(f, S \cup {y}) = Total(f, S) + f[y]
<1> DEFINE more == S \cup {y}
<1>1. IsFiniteSet(more) /\ y \in more /\ more \ {y} = S /\ \A x \in more : f[x] \in Int
  BY FS_AddElement
<1>2. Total(f, more) = f[y] + Total(f, more \ {y})
  <2> HIDE DEF more
  <2> QED
    BY <1>1, TotalTakesAny
<1>3. Total(f, S) \in Int /\ f[y] \in Int
  BY TotalType
<1>4. Total(f, more) = f[y] + Total(f, S)
  BY <1>1, <1>2
<1> QED
  BY <1>3, <1>4

\* A sum of natural numbers is one.
LEMMA TotalNatural ==
    ASSUME NEW f, NEW S, IsFiniteSet(S), \A x \in S : f[x] \in Nat
    PROVE  Total(f, S) \in Nat
<1> DEFINE Good == {s \in SUBSET S : Total(f, s) \in Nat}
<1>1. \A s \in SUBSET S : (\A r \in SUBSET s : r # s => r \in Good) => s \in Good
  <2> SUFFICES ASSUME NEW s \in SUBSET S, \A r \in SUBSET s : r # s => r \in Good
               PROVE  Total(f, s) \in Nat
    OBVIOUS
  <2>1. CASE s = {}
    BY <2>1, TotalOfNothing
  <2>2. CASE s # {}
    <3>1. First(s) \in s /\ IsFiniteSet(s)
      BY <2>2, FirstIsOne, FS_Subset
    <3>2. Total(f, s \ {First(s)}) \in Nat /\ f[First(s)] \in Nat
      BY <3>1
    <3> QED
      BY <2>2, <3>1, <3>2, TotalTakesFirst
  <2> QED
    BY <2>1, <2>2
<1>2. SUBSET S \subseteq Good
  <2> HIDE DEF Good
  <2> QED
    BY <1>1, PartsInduction
<1> QED
  BY <1>2

-----------------------------------------------------------------------------
(* Wallets *)

\* What the ledger holds of a user.
Entries(book, u) == {k \in DOMAIN book : k[2] = u}
RefundKey(k) == <<"refund", k[1], k[2]>>
RefundKeys(some) == {RefundKey(k) : k \in some}

\* A balance is never negative and is the sum of the user's entries; amounts are numbers, and
\* tickets are booked only for committed purchases.
MoneyInv ==
    /\ balance \in [Users -> Nat]
    /\ IsFiniteSet(DOMAIN ledger) /\ IsFiniteSet(DOMAIN purchases)
    /\ \A j \in DOMAIN ledger : ledger[j] \in Int
    /\ \A k \in DOMAIN purchases : purchases[k].cost \in Nat
    /\ \A k \in Keys : <<"tickets", k[1], k[2]>> \in DOMAIN ledger => k \in DOMAIN purchases
    /\ \A u \in Users : balance[u] = Total(ledger, Entries(ledger, u))

LEMMA EntriesFinite ==
    ASSUME NEW book, NEW u, IsFiniteSet(DOMAIN book)
    PROVE  IsFiniteSet(Entries(book, u))
<1>1. Entries(book, u) \in SUBSET DOMAIN book
  BY DEF Entries
<1> QED
  BY <1>1, FS_Subset

\* One entry more changes its user's sum by its amount and nobody else's.
LEMMA Booked ==
    ASSUME NEW book, IsFiniteSet(DOMAIN book), \A j \in DOMAIN book : book[j] \in Int,
           NEW after, NEW entry, entry \notin DOMAIN book, DOMAIN after = DOMAIN book \cup {entry},
           \A j \in DOMAIN book : after[j] = book[j], after[entry] \in Int, NEW u
    PROVE  Total(after, Entries(after, u)) =
              Total(book, Entries(book, u)) + (IF entry[2] = u THEN after[entry] ELSE 0)
<1> DEFINE old == Entries(book, u)
<1>1. IsFiniteSet(old) /\ old \subseteq DOMAIN book
  BY EntriesFinite DEF Entries
<1>2. Total(after, old) = Total(book, old) /\ Total(book, old) \in Int
  <2>1. \A j \in old : after[j] = book[j] /\ book[j] \in Int
    BY <1>1
  <2> HIDE DEF old
  <2> QED
    BY <1>1, <2>1, TotalDepends, TotalType
<1>3. Entries(after, u) = IF entry[2] = u THEN old \cup {entry} ELSE old
  BY DEF Entries
<1>4. CASE entry[2] = u
  <2>1. entry \notin old /\ \A j \in old \cup {entry} : after[j] \in Int
    BY <1>1
  <2>2. Total(after, old \cup {entry}) = Total(after, old) + after[entry]
    <3> HIDE DEF old
    <3> QED
      BY <1>1, <2>1, TotalGrows
  <2> HIDE DEF old
  <2> QED
    BY <1>2, <1>3, <1>4, <2>2 DEF old
<1>5. CASE entry[2] # u
  BY <1>2, <1>3, <1>5
<1> QED
  BY <1>4, <1>5

\* Entries for refunds of different purchases add up to what those cost.
LEMMA RefundsAddUp ==
    ASSUME NEW book, NEW after, NEW old, IsFiniteSet(old),
           \A j \in old : after[j] = book[j] /\ book[j] \in Int,
           NEW paid \in SUBSET Keys, IsFiniteSet(paid), NEW cost,
           \A k \in paid : RefundKey(k) \notin old /\ after[RefundKey(k)] = cost[k] /\ cost[k] \in Nat
    PROVE  Total(after, old \cup RefundKeys(paid)) = Total(book, old) + Total(cost, paid)
<1> DEFINE all(s) == old \cup RefundKeys(s)
           Good == {s \in SUBSET paid :
                      IsFiniteSet(all(s)) /\ Total(after, all(s)) = Total(book, old) + Total(cost, s)}
<1>1. Total(after, old) = Total(book, old) /\ Total(book, old) \in Int
  BY TotalDepends, TotalType
<1>2. \A s \in SUBSET paid : (\A r \in SUBSET s : r # s => r \in Good) => s \in Good
  <2> SUFFICES ASSUME NEW s \in SUBSET paid, \A r \in SUBSET s : r # s => r \in Good
               PROVE  IsFiniteSet(all(s)) /\ Total(after, all(s)) = Total(book, old) + Total(cost, s)
    OBVIOUS
  <2>1. CASE s = {}
    <3>1. all(s) = old /\ Total(cost, s) = 0
      BY <2>1, TotalOfNothing DEF RefundKeys
    <3> HIDE DEF all
    <3> QED
      BY <1>1, <3>1
  <2>2. CASE s # {}
    <3>1. PICK y \in s : TRUE
      BY <2>2
    <3> DEFINE r == s \ {y}
               key == RefundKey(y)
    <3>2. IsFiniteSet(all(r)) /\ Total(after, all(r)) = Total(book, old) + Total(cost, r)
      BY <3>1
    <3>3. key \notin all(r) /\ all(s) = all(r) \cup {key}
      <4>1. \A k \in r : k # y /\ k \in Keys /\ y \in Keys
        BY <3>1
      <4>2. \A k \in r : RefundKey(k) # key
        BY <4>1 DEF RefundKey, Keys
      <4> QED
        BY <3>1, <4>2 DEF RefundKeys
    <3>4. \A j \in all(r) \cup {key} : after[j] \in Int
      BY <3>1 DEF RefundKeys
    <3>5. Total(after, all(s)) = Total(after, all(r)) + after[key] /\ IsFiniteSet(all(s))
      <4> HIDE DEF r, key, all
      <4> QED
        BY <3>2, <3>3, <3>4, TotalGrows, FS_AddElement
    <3>6. Total(cost, s) = cost[y] + Total(cost, r) /\ Total(cost, r) \in Int /\ cost[y] \in Int
      <4>1. IsFiniteSet(s) /\ IsFiniteSet(r) /\ \A k \in s : cost[k] \in Int
        BY FS_Subset
      <4>2. Total(cost, s) = cost[y] + Total(cost, r)
        BY <3>1, <4>1, TotalTakesAny
      <4>3. \A k \in r : cost[k] \in Int
        BY <4>1
      <4> QED
        BY <3>1, <4>1, <4>2, <4>3, TotalType
    <3>7. after[key] = cost[y]
      BY <3>1
    <3> HIDE DEF r, key, all
    <3> QED
      BY <1>1, <3>2, <3>5, <3>6, <3>7
  <2> QED
    BY <2>1, <2>2
<1>3. SUBSET paid \subseteq Good
  <2> HIDE DEF Good
  <2> QED
    BY <1>2, PartsInduction
<1> QED
  BY <1>3

\* What a pass pays a user is the total of the costs of his purchases in it.
LEMMA CostIsTotal ==
    ASSUME NEW keys \in SUBSET DOMAIN purchases, IsFiniteSet(keys)
    PROVE  CostOf(keys) = Total([k \in DOMAIN purchases |-> purchases[k].cost], keys)
<1> DEFINE cost == [k \in DOMAIN purchases |-> purchases[k].cost]
           Solves(g) == g = [s \in SUBSET keys |-> IF s = {} THEN 0
                                ELSE purchases[CHOOSE x \in s : TRUE].cost + g[s \ {CHOOSE x \in s : TRUE}]]
           iter == CHOOSE g : Solves(g)
<1>1. CostOf(keys) = iter[keys]
  BY DEF CostOf, MapThenSumSet, MapThenFoldSet
<1>2. ASSUME NEW g
      PROVE  Solves(g) <=> SumsParts(g, cost, keys)
  <2> DEFINE one == [s \in SUBSET keys |-> IF s = {} THEN 0
                       ELSE purchases[First(s)].cost + g[s \ {First(s)}]]
             two == [s \in SUBSET keys |-> IF s = {} THEN 0 ELSE cost[First(s)] + g[s \ {First(s)}]]
  <2>1. one = two
    BY FirstIsOne
  <2>2. Solves(g) <=> g = one
    BY DEF First
  <2>3. SumsParts(g, cost, keys) <=> g = two
    BY DEF SumsParts
  <2> QED
    BY <2>1, <2>2, <2>3
<1>3. PICK g : SumsParts(g, cost, keys)
  BY SomeSum
<1>4. Solves(iter)
  <2>1. Solves(g)
    BY <1>2, <1>3
  <2> QED
    BY <2>1
<1>5. SumsParts(iter, cost, keys)
  BY <1>2, <1>4
<1>6. Total(cost, keys) = iter[keys]
  <2> HIDE DEF iter, cost
  <2> QED
    BY <1>5, TotalIsSum
<1> QED
  BY <1>1, <1>6

LEMMA MoneyInit == Init => MoneyInv
<1> SUFFICES ASSUME Init PROVE MoneyInv
  OBVIOUS
<1>1. balance \in [Users -> Nat] /\ \A u \in Users : balance[u] = 0
  BY DEF Init
<1>2. DOMAIN ledger = {} /\ DOMAIN purchases = {}
  BY DEF Init
<1>3. \A u \in Users : Entries(ledger, u) = {} /\ Total(ledger, {}) = 0
  BY <1>2, TotalOfNothing DEF Entries
<1> QED
  BY <1>1, <1>2, <1>3, FS_EmptySet DEF MoneyInv

LEMMA MoneyAward ==
    ASSUME MoneyInv, NEW u \in Users, NEW a \in Awards, Award(u, a)
    PROVE  MoneyInv'
<1> USE AmountsAssumption DEF MoneyInv
<1> DEFINE entry == <<"award", u, a>>
<1>1. /\ entry \notin DOMAIN ledger /\ DOMAIN ledger' = DOMAIN ledger \cup {entry}
      /\ \A j \in DOMAIN ledger : ledger'[j] = ledger[j]
      /\ ledger'[entry] = Amount
  BY DEF Award, Fresh
<1>2. balance' = [balance EXCEPT ![u] = @ + Amount] /\ purchases' = purchases
  BY DEF Award
<1>3. entry[2] = u /\ \A k \in Keys : <<"tickets", k[1], k[2]>> # entry
  OBVIOUS
<1> HIDE DEF entry
<1>4. ASSUME NEW v \in Users
      PROVE  balance'[v] = Total(ledger', Entries(ledger', v))
  <2>1. Total(ledger', Entries(ledger', v)) =
           Total(ledger, Entries(ledger, v)) + (IF entry[2] = v THEN ledger'[entry] ELSE 0)
    BY <1>1, Booked
  <2>2. balance[v] = Total(ledger, Entries(ledger, v)) /\ balance[v] \in Nat
    OBVIOUS
  <2>3. balance'[v] = balance[v] + (IF u = v THEN Amount ELSE 0)
    BY <1>2
  <2> QED
    BY <1>1, <1>3, <2>1, <2>2, <2>3
<1>5. balance' \in [Users -> Nat]
  BY <1>2
<1>6. IsFiniteSet(DOMAIN ledger')
  BY <1>1, FS_AddElement
<1>7. \A j \in DOMAIN ledger' : ledger'[j] \in Int
  BY <1>1
<1>8. \A k \in Keys : <<"tickets", k[1], k[2]>> \in DOMAIN ledger' => k \in DOMAIN purchases'
  BY <1>1, <1>2, <1>3
<1> QED
  BY <1>2, <1>4, <1>5, <1>6, <1>7, <1>8

LEMMA MoneyCommit ==
    ASSUME Inv, MoneyInv, NEW p \in buying, CommitPurchase(p)
    PROVE  MoneyInv'
<1> USE AmountsAssumption DEF MoneyInv
<1> DEFINE u == p.key[1]
           cost == Cost(p)
           entry == <<"tickets", p.key[1], p.key[2]>>
<1>1. p.key \in Keys /\ u \in Users
  BY DEF Inv, RowsInv, Sales, Keys
<1>2. cost \in Nat
  <2>1. giveaway[p.giveaway].price \in Nat /\ p.quantity \in Nat
    BY DEF Inv, RowsInv, Sales, Rows
  <2> QED
    BY <2>1 DEF Cost
<1>3. /\ p.key \notin DOMAIN purchases /\ balance[u] >= cost
      /\ DOMAIN purchases' = DOMAIN purchases \cup {p.key}
      /\ \A k \in DOMAIN purchases : purchases'[k] = purchases[k]
      /\ purchases'[p.key].cost = cost
  BY DEF CommitPurchase, Affordable
<1>4. entry \notin DOMAIN ledger
  BY <1>1, <1>3
<1>5. /\ DOMAIN ledger' = DOMAIN ledger \cup {entry}
      /\ \A j \in DOMAIN ledger : ledger'[j] = ledger[j]
      /\ ledger'[entry] = -cost
  BY <1>4 DEF CommitPurchase
<1>6. balance' = [balance EXCEPT ![u] = @ - cost]
  BY DEF CommitPurchase
<1>7. entry[2] = u /\ \A k \in Keys : <<"tickets", k[1], k[2]>> = entry => k = p.key
  BY <1>1 DEF Keys
<1> HIDE DEF entry, cost, u
<1>8. ASSUME NEW v \in Users
      PROVE  balance'[v] = Total(ledger', Entries(ledger', v))
  <2>1. -cost \in Int
    BY <1>2
  <2>2. Total(ledger', Entries(ledger', v)) =
           Total(ledger, Entries(ledger, v)) + (IF entry[2] = v THEN ledger'[entry] ELSE 0)
    BY <1>4, <1>5, <2>1, Booked
  <2>3. balance[v] = Total(ledger, Entries(ledger, v)) /\ balance[v] \in Nat
    OBVIOUS
  <2>4. balance'[v] = balance[v] + (IF u = v THEN -cost ELSE 0)
    BY <1>1, <1>2, <1>6, <2>3
  <2> QED
    BY <1>5, <1>7, <2>2, <2>3, <2>4
<1>9. balance' \in [Users -> Nat]
  <2>1. balance[u] - cost \in Nat
    BY <1>1, <1>2, <1>3
  <2> QED
    BY <1>1, <1>6, <2>1
<1>10. IsFiniteSet(DOMAIN ledger') /\ IsFiniteSet(DOMAIN purchases')
  BY <1>3, <1>5, FS_AddElement
<1>11. \A j \in DOMAIN ledger' : ledger'[j] \in Int
  BY <1>2, <1>5
<1>12. \A k \in Keys : <<"tickets", k[1], k[2]>> \in DOMAIN ledger' => k \in DOMAIN purchases'
  BY <1>3, <1>5, <1>7
<1>13. \A k \in DOMAIN purchases' : purchases'[k].cost \in Nat
  BY <1>2, <1>3
<1> QED
  BY <1>8, <1>9, <1>10, <1>11, <1>12, <1>13

LEMMA MoneyRefund ==
    ASSUME Inv, MoneyInv, RefundBatch
    PROVE  MoneyInv'
<1> USE DEF MoneyInv
<1>1. PICK batch \in SUBSET Unrefunded :
        LET fresh == {k \in batch : Fresh(<<"refund", k[1], k[2]>>)}
            keys == {<<"refund", k[1], k[2]>> : k \in fresh}
        IN  /\ ledger' = [j \in DOMAIN ledger \cup keys |->
                            IF j \in keys THEN purchases[<<j[2], j[3]>>].cost ELSE ledger[j]]
            /\ balance' = [u \in Users |-> balance[u] + CostOf({k \in fresh : k[1] = u})]
            /\ purchases' = [k \in DOMAIN purchases |->
                               IF k \in batch THEN [purchases[k] EXCEPT !.refunded = TRUE] ELSE purchases[k]]
  BY DEF RefundBatch
<1> DEFINE fresh == {k \in batch : RefundKey(k) \notin DOMAIN ledger}
           keys == RefundKeys(fresh)
           cost == [k \in DOMAIN purchases |-> purchases[k].cost]
           paid(u) == {k \in fresh : k[1] = u}
<1>2. /\ ledger' = [j \in DOMAIN ledger \cup keys |->
                      IF j \in keys THEN purchases[<<j[2], j[3]>>].cost ELSE ledger[j]]
      /\ balance' = [u \in Users |-> balance[u] + CostOf(paid(u))]
  BY <1>1 DEF Fresh, RefundKey, RefundKeys
<1>3. fresh \subseteq DOMAIN purchases /\ fresh \subseteq Keys
  BY DEF Unrefunded, Inv, RowsInv
<1>4. keys \cap DOMAIN ledger = {}
  BY DEF RefundKeys
<1>5. /\ DOMAIN ledger' = DOMAIN ledger \cup keys
      /\ \A j \in DOMAIN ledger : ledger'[j] = ledger[j]
      /\ \A k \in fresh : ledger'[RefundKey(k)] = cost[k] /\ cost[k] \in Nat
  <2>1. \A j \in DOMAIN ledger : ledger'[j] = ledger[j]
    BY <1>2, <1>4
  <2>2. ASSUME NEW k \in fresh
        PROVE  ledger'[RefundKey(k)] = cost[k] /\ cost[k] \in Nat
    <3>1. k \in Keys /\ k \in DOMAIN purchases /\ RefundKey(k) \in keys
      BY <1>3 DEF RefundKeys
    <3>2. k = <<RefundKey(k)[2], RefundKey(k)[3]>>
      BY <3>1 DEF Keys, RefundKey
    <3> HIDE DEF keys
    <3> QED
      BY <1>2, <3>1, <3>2
  <2>3. DOMAIN ledger' = DOMAIN ledger \cup keys
    BY <1>2
  <2> QED
    BY <2>1, <2>2, <2>3
<1>6. /\ DOMAIN purchases' = DOMAIN purchases
      /\ \A k \in DOMAIN purchases : purchases'[k].cost = purchases[k].cost
  <2>1. purchases' = [k \in DOMAIN purchases |->
                       IF k \in batch THEN [purchases[k] EXCEPT !.refunded = TRUE] ELSE purchases[k]]
    BY <1>1
  <2> QED
    BY <2>1
<1>7. ASSUME NEW u \in Users
      PROVE  /\ balance'[u] = Total(ledger', Entries(ledger', u))
             /\ balance'[u] \in Nat
  <2> DEFINE mine == paid(u)
             old == Entries(ledger, u)
  <2>1. mine \in SUBSET DOMAIN purchases /\ mine \in SUBSET Keys /\ IsFiniteSet(mine) /\ IsFiniteSet(old)
    <3>1. mine \in SUBSET DOMAIN purchases /\ mine \in SUBSET Keys
      BY <1>3
    <3> HIDE DEF mine
    <3> QED
      BY <3>1, EntriesFinite, FS_Subset
  <2>2. CostOf(mine) = Total(cost, mine) /\ Total(cost, mine) \in Nat
    <3>1. \A k \in mine : cost[k] \in Nat
      BY <1>3
    <3> HIDE DEF mine
    <3>2. CostOf(mine) = Total(cost, mine)
      BY <2>1, CostIsTotal
    <3> HIDE DEF cost
    <3> QED
      BY <2>1, <3>1, <3>2, TotalNatural
  <2>3. Entries(ledger', u) = old \cup RefundKeys(mine)
    <3>1. \A k \in fresh : RefundKey(k)[2] = k[1]
      BY DEF RefundKey
    <3>2. \A j : j \in Entries(ledger', u) <=> (j \in DOMAIN ledger \/ j \in keys) /\ j[2] = u
      BY <1>5 DEF Entries
    <3> QED
      BY <3>1, <3>2 DEF Entries, RefundKeys
  <2>4. \A j \in old : ledger'[j] = ledger[j] /\ ledger[j] \in Int
    BY <1>5 DEF Entries
  <2>5. \A k \in mine : RefundKey(k) \notin old /\ ledger'[RefundKey(k)] = cost[k] /\ cost[k] \in Nat
    BY <1>5 DEF Entries
  <2>6. Total(ledger', old \cup RefundKeys(mine)) = Total(ledger, old) + Total(cost, mine)
    <3> HIDE DEF old, mine, cost
    <3> QED
      BY <2>1, <2>4, <2>5, RefundsAddUp
  <2>7. balance'[u] = balance[u] + CostOf(mine) /\ balance[u] = Total(ledger, old) /\ balance[u] \in Nat
    BY <1>2
  <2> HIDE DEF old, mine, cost
  <2> QED
    BY <2>2, <2>3, <2>6, <2>7
<1>8. balance' \in [Users -> Nat]
  <2>1. balance' = [u \in Users |-> balance'[u]]
    BY <1>2
  <2> QED
    BY <1>7, <2>1
<1>9. IsFiniteSet(DOMAIN ledger')
  <2>1. IsFiniteSet(fresh)
    <3> HIDE DEF fresh
    <3> QED
      BY <1>3, FS_Subset
  <2>2. IsFiniteSet(keys)
    <3> DEFINE key == [k \in fresh |-> RefundKey(k)]
    <3>1. key \in Surjection(fresh, keys)
      BY DEF Surjection, RefundKeys
    <3> HIDE DEF key, keys, fresh
    <3> QED
      BY <2>1, <3>1, FS_Surjection
  <2>3. IsFiniteSet(DOMAIN ledger) /\ DOMAIN ledger' = DOMAIN ledger \cup keys
    BY <1>5
  <2> HIDE DEF keys, MoneyInv
  <2>4. IsFiniteSet(DOMAIN ledger \cup keys)
    BY <2>2, <2>3, FS_Union
  <2> QED
    BY <2>3, <2>4, Zenon
<1>10. \A j \in DOMAIN ledger' : ledger'[j] \in Int
  <2>1. \A j \in DOMAIN ledger : ledger[j] \in Int
    OBVIOUS
  <2>2. \A j \in keys : ledger'[j] \in Int
    <3>1. \A k \in fresh : ledger'[RefundKey(k)] \in Int
      <4> HIDE DEF fresh, cost, MoneyInv
      <4> QED
        BY <1>5
    <3> HIDE DEF fresh
    <3> QED
      BY <3>1 DEF RefundKeys
  <2> HIDE DEF keys, MoneyInv
  <2> QED
    BY <1>5, <2>1, <2>2
<1>11. \A k \in Keys : <<"tickets", k[1], k[2]>> \in DOMAIN ledger' => k \in DOMAIN purchases'
  <2>1. \A k \in Keys : <<"tickets", k[1], k[2]>> \notin keys
    BY DEF RefundKey, RefundKeys
  <2> HIDE DEF keys
  <2> QED
    BY <1>5, <1>6, <2>1
<1> QED
  BY <1>6, <1>7, <1>8, <1>9, <1>10, <1>11

LEMMA MoneyStays == MoneyInv /\ UNCHANGED <<purchases, balance, ledger>> => MoneyInv'
BY DEF MoneyInv, Entries

LEMMA MoneyNext == Inv /\ MoneyInv /\ [Next]_vars => MoneyInv'
<1> SUFFICES ASSUME Inv, MoneyInv, [Next]_vars PROVE MoneyInv'
  OBVIOUS
<1>1. ASSUME NEW u \in Users, NEW a \in Awards, Award(u, a) PROVE MoneyInv'
  BY <1>1, MoneyAward
<1>2. ASSUME NEW p \in buying, CommitPurchase(p) PROVE MoneyInv'
  BY <1>2, MoneyCommit
<1>3. CASE RefundBatch
  BY <1>3, MoneyRefund
<1>4. CASE \/ Switch \/ UNCHANGED vars \/ (\E p \in buying : AbortPurchase(p))
           \/ (\E g \in Giveaways : \/ WindowMoves(g) \/ Publish(g) \/ CloseGiveaway(g) \/ Cancel(g) \/ Draw(g)
                 \/ \E price \in Prices, window \in {"before", "during"} : Edit(g, price, window)
                 \/ \E u \in Users, r \in Requests, quantity \in Quantities, expected \in Prices :
                       BeginPurchase(u, r, g, quantity, expected))
  <2>1. UNCHANGED <<purchases, balance, ledger>>
    BY <1>4, ZenonT(60) DEF Switch, vars, moneyVars, AbortPurchase, WindowMoves, Publish, CloseGiveaway, Cancel, Draw,
                Edit, Free, BeginPurchase
  <2> QED
    BY <2>1, MoneyStays
<1> QED
  BY <1>1, <1>2, <1>3, <1>4 DEF Next

\* A balance is never negative and always the sum of the ledger (grant, purchase and refundBatch
\* of rewards.service.ts), whatever overlaps, is repeated or is rolled back.
THEOREM BalancesAreTheLedger == Spec => []BalanceIsLedger
<1>1. MoneyInv => BalanceIsLedger
  <2> SUFFICES ASSUME MoneyInv, NEW u \in Users
               PROVE  /\ balance[u] >= 0
                      /\ balance[u] = MapThenSumSet(LAMBDA k : ledger[k], {k \in DOMAIN ledger : k[2] = u})
    BY DEF BalanceIsLedger
  <2>1. balance[u] \in Nat /\ balance[u] = Total(ledger, {k \in DOMAIN ledger : k[2] = u})
    BY DEF MoneyInv, Entries
  <2> QED
    BY <2>1 DEF Total
<1> QED
  BY <1>1, MoneyInit, MoneyNext, Safety, PTL DEF Spec

=============================================================================
