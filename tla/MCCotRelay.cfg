SPECIFICATION Spec
CONSTANTS
    Up = Up
    Down = Down
    Task = Task
    Console = Console
    Httpd = Httpd
    Foreign = Foreign
    Nobody = Nobody
    MaxAddresses = 1
    MaxLosses = 1
    MaxAir = 1
    MaxHops = 3
    MaxPackets = 2
INVARIANTS
    OneRelay
    EgressIsRight
    EchoesAreBounded
PROPERTIES
    ImplementsBridge
