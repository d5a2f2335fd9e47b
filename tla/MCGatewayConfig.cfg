SPECIFICATION Spec
CONSTANTS
    s0 = s0
    s1 = s1
    Settings <- MCSettings
    DefaultSettings = s0
    Budget = 2
    NoBlob = NoBlob
    BadBlob = BadBlob
    MaxBoots = 4
    MaxCreds = 1
    MaxIdentities = 1
    MaxRevision = 2
INVARIANTS
    CredentialIsDurable
    ExhaustedStaysClosed
    WindowIsBounded
PROPERTIES
    RecoveryKeepsBlob
    PostKeepsCommits
