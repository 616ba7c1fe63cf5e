SPECIFICATION FairSpec
CONSTANTS
    u1 = u1
    u2 = u2
    w1 = w1
    w2 = w2
    e1 = e1
    NoUser = NoUser
    Users <- MCUsers
    Workers <- MCWorkers
    Engagements <- MCEngagements
    Roles <- StaffRoles
    Operations <- ReturnOps
PROPERTIES ForcedUserReturns
