SPECIFICATION FairSpec

CONSTANTS
    Tickets = {t1}
    Requests = {r1, r2}
    NoTicket = NoTicket
    NoRequest = NoRequest
    MaxFiles = 2
    MaxFileBytes = 2
    Budgets = {1, 4}
    Asked = {0, 2}
    FileSizes = {0, 2}
    Framing = 1
    Packed = 1
    MaxParts = 2

INVARIANTS
    TypeOK
    TicketNeverOverspent
    StaleTicketCarriesNothing
    SpoolAsAnswered

PROPERTIES
    OutwornRowsGo

CHECK_DEADLOCK FALSE
