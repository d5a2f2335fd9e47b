-------------------------------- MODULE Node --------------------------------
(***************************************************************************)
(* The parts of a node that share no state with each other or with those   *)
(* that have a run of their own: the uplink, of the role app_main() booted *)
(* the node in, "never active on the same node at once"; the HaLow scan;   *)
(* the two rings the web interface reads; the DNS forwarder, for its       *)
(* liveness; and the addresses of the configuration.  A behaviour is one   *)
(* of one part, the others stay as they began: a product would add their   *)
(* interleavings, and nothing they do.                                     *)
(***************************************************************************)
EXTENDS Naturals, Sequences, FiniteSets

CONSTANTS
    QueueDepth, MaxEvents,                                               \* uplinks
    Console, Httpd, None, Aps, Capacity, ScanQueueDepth, MaxGeneration,  \* scan
    Bytes, Zero, RingSize, LineMax, Room,                                \* log
    Rssi, NoReading, Samples,                                            \* history
    Slots, Ids, MaxQueries,                                              \* forwarder
    Width, Off, DefaultSubnet, FactorySoftap, Uplinks, Softaps, HalowAps \* addresses

VARIABLES
    part,
    associated, hasIp, pc, sta, address, dhcpc, lostTimer, events, calm, \* of both uplinks
    useStaticIp, connectSem, attempt, requests,                         \* of a client's
    configured, timer, notified, apAddress, apLostTimer, mistaken, refused, \* of a relay's
    lock, running, due, generation, results, done, args, cache,         \* of the scan
    scanRequests, scanning, callback, scanPc, outcome, late, panic,
    ring, head, count, shown,                                           \* of the log
    rssiRing, rssiHead, rssiCount, rssiShown, signal, sample, latest,   \* of the history
    dnsPc, ready, pending, upstreamId, age, listenQ, upstreamQ, asked, answers, queries,
    loaded, uplink, softap, halowAp                                     \* addresses

uplinks == <<associated, hasIp, pc, sta, address, dhcpc, lostTimer, events, calm>>
client == <<useStaticIp, connectSem, attempt, requests>>
relay == <<configured, timer, notified, apAddress, apLostTimer, mistaken, refused>>
scan == <<lock, running, due, generation, results, done, args, cache,
          scanRequests, scanning, callback, scanPc, outcome, late, panic>>
log == <<ring, head, count, shown>>
history == <<rssiRing, rssiHead, rssiCount, rssiShown, signal, sample, latest>>
dns == <<dnsPc, ready, pending, upstreamId, age, listenQ, upstreamQ, asked, answers, queries>>
addresses == <<loaded, uplink, softap, halowAp>>
vars == <<part, uplinks, client, relay, scan, log, history, dns, addresses>>

Halow == INSTANCE HalowUplink
Wifi == INSTANCE WifiUplink
Scan == INSTANCE HalowScan
    WITH QueueDepth <- ScanQueueDepth, requests <- scanRequests, pc <- scanPc
Log == INSTANCE LogRing
History == INSTANCE LinkHistory
    WITH ring <- rssiRing, head <- rssiHead, count <- rssiCount, shown <- rssiShown
\* One leaf, one question and one resolver: what is never freed is a slot.
Dns == INSTANCE DnsForward
    WITH pc <- dnsPc, Leaves <- {Console}, ClientIds <- {1}, Questions <- {Console},
         Resolvers <- {Httpd}, Malformed <- None, Free <- None, ZeroId <- 0,
         NoId <- Cardinality(Ids) - 1, TTL <- 1, SocketBuffer <- 1
Plan == INSTANCE AddressPlan

\* What the parts assume of their constants.
ASSUME NodeAssumption ==
    /\ Halow!UplinkAssumption /\ Wifi!WifiAssumption /\ Scan!ScanAssumption
    /\ Log!RingAssumption /\ Log!Kept!SizeAssumption
    /\ History!SamplesAssumption /\ History!Kept!SizeAssumption
    /\ Plan!WidthAssumption /\ Plan!SubnetsAssumption /\ Plan!BuiltInAssumption

NoClient == useStaticIp = FALSE /\ connectSem = FALSE /\ attempt = 1 /\ requests = <<>>
NoRelay ==
    /\ configured = FALSE /\ timer = FALSE /\ notified = FALSE /\ refused = FALSE
    /\ apAddress = FALSE /\ apLostTimer = FALSE /\ mistaken = FALSE

Init ==
    /\ part \in {"client", "relay", "scan", "log", "history", "dns", "addresses"}
    /\ \/ part # "relay" /\ Halow!Init /\ NoRelay
       \/ part = "relay" /\ Wifi!Init /\ NoClient
    /\ part # "client" => ~useStaticIp
    /\ Scan!Init /\ Log!Init /\ History!Init /\ Dns!Init /\ Plan!Init

ClientStep ==
    /\ part = "client" /\ Halow!Next
    /\ UNCHANGED <<part, relay, scan, log, history, dns, addresses>>
RelayStep ==
    /\ part = "relay" /\ Wifi!Next
    /\ UNCHANGED <<part, client, scan, log, history, dns, addresses>>
ScanStep ==
    /\ part = "scan" /\ Scan!Next
    /\ UNCHANGED <<part, uplinks, client, relay, log, history, dns, addresses>>
LogStep ==
    /\ part = "log" /\ Log!Next
    /\ UNCHANGED <<part, uplinks, client, relay, scan, history, dns, addresses>>
HistoryStep ==
    /\ part = "history" /\ History!Next
    /\ UNCHANGED <<part, uplinks, client, relay, scan, log, dns, addresses>>
DnsStep ==
    /\ part = "dns" /\ Dns!Next
    /\ UNCHANGED <<part, uplinks, client, relay, scan, log, history, addresses>>
AddressesStep ==
    /\ part = "addresses" /\ Plan!Next
    /\ UNCHANGED <<part, uplinks, client, relay, scan, log, history, dns>>

Next ==
    \/ ClientStep \/ RelayStep \/ ScanStep \/ LogStep \/ HistoryStep \/ DnsStep
    \/ AddressesStep

clientVars == <<uplinks, client>>
relayVars == <<uplinks, relay>>

\* The fairness of each part, stated there.
ClientFairness ==
    /\ WF_clientVars(part = "client" /\ Halow!Task)
    /\ WF_clientVars(part = "client" /\ Halow!Radio)
    /\ WF_clientVars(part = "client" /\ Halow!Deliver)
    /\ WF_clientVars(part = "client" /\ Halow!LeaseArrives)
    /\ WF_clientVars(part = "client" /\ Halow!LostTimerFires)
    /\ WF_clientVars(part = "client" /\ Halow!Associate)
    /\ SF_clientVars(part = "client" /\ Halow!Associate /\ pc \in {"await", "backoff"})
RelayFairness ==
    /\ WF_relayVars(part = "relay" /\ Wifi!Task)
    /\ WF_relayVars(part = "relay" /\ Wifi!TimerFires)
    /\ WF_relayVars(part = "relay" /\ Wifi!Deliver)
    /\ WF_relayVars(part = "relay" /\ Wifi!Joins)
    /\ WF_relayVars(part = "relay" /\ Wifi!LeaseArrives)
    /\ SF_relayVars(part = "relay" /\ Wifi!LostTimerFires)
ScanFairness ==
    /\ WF_scan(part = "scan" /\ Scan!ConsoleRuns)
    /\ WF_scan(part = "scan" /\ Scan!HttpdRuns)
    /\ WF_scan(part = "scan" /\ Scan!TimePasses)
DnsFairness == WF_dns(part = "dns" /\ Dns!Task) /\ WF_dns(part = "dns" /\ Dns!Tick)

Spec ==
    /\ Init /\ [][Next]_vars
    /\ ClientFairness /\ RelayFairness /\ ScanFairness /\ DnsFairness

-----------------------------------------------------------------------------
(* Properties, those of the parts.                                         *)

Client == part = "client"
Relay == part = "relay"

\* A node gets an address, keeps it and reports it, once its surroundings behave:
\* a client whatever failed before (HalowUplink), a relay unless the driver refused
\* an attempt, or a loss of its HaLow access point's address was taken for one of
\* the uplink's, which leaves the address unreported (WifiUplink).
Recovers == (Client => Halow!Recovers) /\ (Relay => Wifi!WifiRecovers)

\* A lost link is reported lost, also when an event of the old link is
\* delivered after it (uplink_halow.c:264-300, uplink_wifi.c:66-158).
LossIsReported == (Client => Halow!LossIsReported) /\ (Relay => Wifi!WifiLossIsReported)

\* A static address is never put under DHCP (uplink_halow.c:553-571).
StaticStaysStatic == Client => Halow!StaticStaysStatic

\* A relay has one retry on its way, never none, never two (uplink_wifi.c).
OneRetry == Relay => Wifi!OneRetry

\* A scan shown as complete is complete and of one scan (HalowScan).
CompleteIsWhole == Scan!CompleteIsWhole

\* The console's scan ends whatever the driver does (HalowScan).
ConsoleReturns == Scan!ConsoleReturns

\* /api/log is given the most recent bytes logged, in order (LogRing).
LogIsRecent == Log!LogIsRecent

\* The graph is given the most recent samples, in order (LinkHistory).
HistoryIsRecent == History!HistoryIsRecent

\* No query is held for ever, whatever the network loses (DnsForward).
NoneHeldForEver == Dns!NoneHeldForEver

\* Whatever is loaded, set and posted, the addresses in force are usable, and NAT
\* has two networks (AddressPlan).
PlanIsSound == Plan!PlanIsSound
=============================================================================
