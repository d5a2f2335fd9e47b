---------------------------- MODULE AddressPlan ----------------------------
(***************************************************************************)
(* The addresses of a configuration and the validator every way into it    *)
(* goes through: the console's setters, the web interface's POST, and the  *)
(* load of a stored blob, of this build or an older one                    *)
(* (provisioning_validate(), net_validate.c).  Addresses and masks are     *)
(* words of Width bits; a word is the set of the positions, 0 the lowest,  *)
(* at which it has a 1.                                                    *)
(*                                                                         *)
(* A section that is off is Off.  The strings it is left with are looked   *)
(* at when it is turned on, and validated then like those that come with   *)
(* the request.  The other checks of the validator reject an edit whole,   *)
(* which leaves everything as it was.                                      *)
(***************************************************************************)
EXTENDS Naturals, FiniteSets

CONSTANTS
    Width,
    Off,
    DefaultSubnet,  \* 192.168.4.1/24, of a SoftAP without one of its own
    FactorySoftap,  \* 172.16.50.1/24, of a configuration never edited
    Uplinks,        \* static addresses that are tried
    Softaps,        \* subnets a stored SoftAP section may have
    HalowAps        \* subnets of a relay's HaLow AP that are tried

\* Assumed, like those that follow, by Node.
WidthAssumption == Width \in Nat \ {0}

Positions == 0..(Width - 1)
Addresses == SUBSET Positions
Subnet == [ip : Addresses, mask : Addresses, gateway : Addresses]

SubnetsAssumption ==
    {DefaultSubnet, FactorySoftap} \cup Uplinks \cup Softaps \cup HalowAps \subseteq Subnet

VARIABLES
    loaded, \* provisioning_load() has run
    uplink, \* static address of a client's uplink, Off with DHCP
    softap, \* subnet of its SoftAP, Off for the default
    halowAp \* of a relay's HaLow AP, Off while it has no SSID

vars == <<loaded, uplink, softap, halowAp>>

Not(word) == Positions \ word

\* A word and 1: the carry clears the ones up to the lowest 0; there is none in
\* a word of ones, whose sum wraps.
LowestZero(word) == CHOOSE i \in Not(word) : \A j \in Not(word) : i <= j
Increment(word) ==
    IF word = Positions THEN {}
    ELSE (word \ 0..LowestZero(word)) \cup {LowestZero(word)}

Network(s) == s.ip \cap s.mask
Host(s) == s.ip \cap Not(s.mask)

-----------------------------------------------------------------------------
\* inverted & (inverted + 1) is zero.
Contiguous(mask) == Not(mask) \cap Increment(Not(mask)) = {}

\* validate_host_subnet() without a gateway: neither the network address nor
\* the broadcast address.
HostAddress(s) ==
    s.mask # {} /\ Contiguous(s.mask) /\ Host(s) # {} /\ Host(s) # Not(s.mask)

ReachesGateway(s) == s.gateway # {} /\ s.gateway \cap s.mask = Network(s)

HostSubnet(s) == HostAddress(s) /\ ReachesGateway(s)

\* subnets_overlap(): one of the two networks is within the other.
OverlapsOneWay(a, b) == Network(a) \cap b.mask = Network(b)
Overlap(a, b) ==
    Network(a) \cap b.mask = Network(b) \/ Network(b) \cap a.mask = Network(a)

Effective(ap) == IF ap = Off THEN DefaultSubnet ELSE ap

\* Those the firmware is built with are sound.
BuiltInAssumption == HostSubnet(DefaultSubnet) /\ HostSubnet(FactorySoftap)

\* provisioning_validate()
Valid(up, ap, leaves) ==
    /\ up # Off => HostSubnet(up)
    /\ ap # Off => HostSubnet(ap)
    /\ up # Off => ~Overlap(up, Effective(ap))
    /\ leaves # Off => HostAddress(leaves)

-----------------------------------------------------------------------------
Init == loaded = FALSE /\ uplink = Off /\ softap = FactorySoftap /\ halowAp = Off

\* provisioning_load(): any blob, of whatever build; one that does not validate
\* is left for the defaults.
Load ==
    /\ ~loaded /\ loaded' = TRUE
    /\ \E up \in Uplinks \cup {Off}, ap \in Softaps \cup {Off}, leaves \in HalowAps \cup {Off} :
        IF Valid(up, ap, leaves) THEN uplink' = up /\ softap' = ap /\ halowAp' = leaves
        ELSE uplink' = Off /\ softap' = FactorySoftap /\ halowAp' = Off

\* An edit of a scratch copy, which replaces the configuration if it is valid.
Edit(up, leaves) ==
    /\ loaded /\ Valid(up, softap, leaves)
    /\ uplink' = up /\ halowAp' = leaves
    /\ UNCHANGED <<loaded, softap>>

\* gwcfg-set-uplink-static-ip
SetUplinkStaticIp == \E up \in Uplinks \cup {Off} : Edit(up, halowAp)

\* gwcfg-set-halow-ap, which turns the section on or off by its SSID and leaves
\* the subnet it was left with.
SetHalowAp == \E leaves \in IF halowAp = Off THEN HalowAps ELSE {Off} : Edit(uplink, leaves)

\* POST /api/config may edit both, and the subnet of either.
PostConfig == \E up \in Uplinks \cup {Off}, leaves \in HalowAps \cup {Off} : Edit(up, leaves)

Next == Load \/ SetUplinkStaticIp \/ SetHalowAp \/ PostConfig

Spec == Init /\ [][Next]_vars

-----------------------------------------------------------------------------
\* A subnet by the length of its prefix, and neither by its bits nor by masking:
\* the hosts have the lowest bits, as many as the mask has zeros, and a block is
\* the addresses that agree above them.
HostBits(s) == Cardinality(Not(s.mask))
Prefix(s) == HostBits(s)..(Width - 1)
Block(s) == {a \in Addresses : \A i \in Prefix(s) : i \in a <=> i \in s.ip}

\* The order of the numbers the words stand for: the highest bit they differ in.
Below(a, b) == \E i \in b \ a : \A j \in Positions : j > i => (j \in a <=> j \in b)

\* An address that is neither the first of its block nor the last, in a subnet
\* that has a prefix.
UsableHost(s) ==
    /\ s.mask = Prefix(s) /\ s.mask # {}
    /\ \E low, high \in Block(s) : Below(low, s.ip) /\ Below(s.ip, high)

\* Whatever was edited, posted or loaded, and in whatever order: an address in
\* force is one a host of its subnet can have, its gateway is within reach, and
\* a client's uplink and SoftAP share no address, of whatever size their subnets
\* are, so that NAT has two networks to translate between.
PlanIsSound ==
    /\ uplink # Off =>
        /\ UsableHost(uplink) /\ uplink.gateway \in Block(uplink)
        /\ Block(uplink) \cap Block(Effective(softap)) = {}
    /\ softap # Off => UsableHost(softap) /\ softap.gateway \in Block(softap)
    /\ halowAp # Off => UsableHost(halowAp)
=============================================================================
