SPECIFICATION Spec
CONSTANTS
    c1 = c1
    c2 = c2
    p1 = p1
    p2 = p2
    s1 = s1
    s2 = s2
    Clients <- MCClients
    Passwords <- MCPasswords
    SessionSlots <- MCSlots
    ChallengeSlots <- MCSlots
    Threshold = 1
    LockBase = 1
    LockMax = 2
    FailMax = 2
    ChallengeTTL = 1
    SaltTTL = 1
    Idle = 1
    Absolute = 2
    NoCredential = NoCredential
    Free = Free
    MaxNonces = 1
    MaxTokens = 2
    MaxSalts = 3
SYMMETRY MCSymmetry
INVARIANT PasswordWorks
