CONSTANTS
    Users = {u1, u2}
    Giveaways = {g1, g2}
    Requests = {r1, r2}
    Awards = {a1}
    Prices = {1}
    Quantities = {1, 2}
    Amount = 3
    MaxTickets = 2
    TicketLimit = 4
    Prizes = 2
    UniqueWinners = TRUE
    RefundLimit = 2
SPECIFICATION FairSpec
INVARIANT TypeOK
INVARIANT BalanceIsLedger
INVARIANT TicketsArePaidFor
INVARIANT PrizesAreShared
PROPERTY DrawIsFinal
PROPERTY CancelledPurchasesReturn
CHECK_DEADLOCK FALSE
