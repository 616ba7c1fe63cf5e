SPECIFICATION Spec
CONSTANTS
    Entries = {x1}
    Models <- MCModels
    Stages <- MCStages
    StagesOf <- MCStagesOf
    Statuses <- MCStatuses
    a1 = a1
    a2 = a2
    w1 = w1
    w2 = w2
    Admins <- MCAdmins
    Operators = {o1}
    MaxTickets = 2
    Workers <- MCWorkers
    Unborn = Unborn
    Deleted = Deleted
    NoTicket = NoTicket
    NoEntry = NoEntry
    NoStage = NoStage
    Nobody = Nobody
    Engagements = {e1}
    Home = {}
    Operations <- AllOps
SYMMETRY Symmetric
INVARIANT TypeOK
INVARIANT NoOrphans
INVARIANT StagesFitUnlessRaced
INVARIANT ArchivedAsLogged
INVARIANT StatusAsLoggedUnlessRaced
PROPERTY DeletionIsAgreed
