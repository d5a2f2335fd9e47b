SPECIFICATION Spec
CONSTANTS
    s1 = s1
    s2 = s2
    l1 = l1
    l2 = l2
    r1 = r1
    r2 = r2
    q1 = q1
    q2 = q2
    Slots <- MCSlots
    Leaves <- MCLeaves
    ClientIds = {1}
    Questions <- MCQuestions
    Resolvers <- MCResolvers
    Malformed = Malformed
    Free = Free
    Ids <- MCIds
    ZeroId = 0
    NoId = 3
    TTL = 1
    SocketBuffer = 1
    MaxQueries = 3
SYMMETRY MCSymmetry
INVARIANTS
    IdsAreUnique
PROPERTIES
    ImplementsRelay
    ReuseChangesId
    OnlyTheOldestGivesWay
