SPECIFICATION Spec
CONSTANTS
    httpd = httpd
    console = console
    reconnect = reconnect
    Callers <- MCCallers
    Shared <- MCShared
    Sole <- MCSole
    MaxRequests = 3
INVARIANTS
    TypeOK
    DoneIsAlive
    OkReadsOwnResult
PROPERTIES
    ImplementsService
    CallsReturn
    AcceptedRuns
