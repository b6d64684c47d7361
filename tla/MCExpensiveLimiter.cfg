CONSTANTS
    c1 = c1
    Requests = {r1, r2}
    Clients = {c1}
    ClientOf <- MCClientOf
    Workers = {w1, w2}
    Limit = 2
    ObserveWouldRefuse = FALSE
    MaxAsks = 2
    NoTicket = NoTicket
SPECIFICATION FairSpec
INVARIANTS ClientAccounting ClientBound TicketAccounting AllowedIsHeld
PROPERTIES RefusedByOthers RequestsEnd
