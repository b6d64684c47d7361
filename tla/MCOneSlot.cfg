CONSTANTS
    c1 = c1
    Requests = {r1}
    Clients = {c1}
    ClientOf <- MCClientOf
    Workers = {w1, w2}
    Limit = 2
    ObserveWouldRefuse = FALSE
    MaxAsks = 2
    NoTicket = NoTicket
SPECIFICATION Spec
INVARIANT OneSlotPerRequest
