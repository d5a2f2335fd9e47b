------------------------------ MODULE Datapath ------------------------------
(***************************************************************************)
(* What makes a node forward: datapath_task() of app_main.c, started at    *)
(* boot for the role the node booted in, woken by the uplink and by its    *)
(* own timer until NAT and the CoT relay are up, when it exits;            *)
(* ip_forward_nat_init(), whose propagate_dns() stops the SoftAP's DHCP    *)
(* server to change its options; and the heap guard, which stops and       *)
(* starts the same server from the timer task as memory runs short.        *)
(*                                                                         *)
(* cot_relay_start() and dns_forward_start() are one step each: refused    *)
(* when already running, else they succeed or undo what they did (module   *)
(* CotRelay is the first of them in full).  The radios, the leases and the *)
(* memory are the environment, and so is whoever sets the role of the live *)
(* configuration, which the task reads afresh at every attempt.            *)
(***************************************************************************)
EXTENDS Naturals

CONSTANTS
    \* free internal heap, and the thresholds of heap_guard.h
    HeapTop, CotEnter, CotExit, NodeEnter, NodeExit

Roles == {"client", "relay"}
Heaps == 0..HeapTop

ASSUME HeapAssumption ==
    /\ {HeapTop, CotEnter, CotExit, NodeEnter, NodeExit} \subseteq Nat
    /\ NodeEnter <= NodeExit /\ NodeExit <= CotEnter /\ CotEnter <= CotExit

VARIABLES
    bootedRole, \* the role app_main() brought up
    role,       \* s_cfg.role
    radioOk,    \* the netif of the downlink exists: its init did not fail
    uplinkIp, uplinkDns,    \* the uplink has an address; it knows a DNS server
    uplinkSeen, \* the uplink has had an address since boot
    downlinkUp, \* the netif of the downlink is up for lwIP
    wake,       \* s_datapath_wake is available
    pc,         \* of datapath_task(): see Steps
    picked,     \* the role read at the start of this attempt
    natOk, cotOk,   \* nat_err and cot_err of this attempt are ESP_OK
    datapathUp, \* s_datapath_up
    napt, defaultRoute, cotRelay, forwarder,    \* what is brought up
    dhcp,       \* the SoftAP's DHCP server runs
    offersDns,  \* its DNS option is enabled
    startFailed,\* propagate_dns() could not start it again
    heap,       \* free internal heap
    sampled,    \* as the heap guard last saw it
    shedCot, dhcpPaused     \* s_shed_cot, s_dhcp_paused

env == <<bootedRole, role, radioOk, uplinkIp, uplinkDns, uplinkSeen, downlinkUp, heap>>
attempt == <<picked, natOk, cotOk>>
up == <<datapathUp, napt, defaultRoute, cotRelay, forwarder>>
server == <<dhcp, offersDns, startFailed>>
guard == <<sampled, shedCot, dhcpPaused>>
vars == <<env, wake, pc, attempt, up, server, guard>>

\* wait for a wake-up; downlink: wait_for_downlink_up(); dns .. start:
\* propagate_dns(); route and napt: the rest of ip_forward_nat_init(); cot,
\* forwarder, verdict: the rest of bring_up_datapath(); exited.
Steps == {"wait", "downlink", "dns", "stop", "option", "start", "route",
          "napt", "cot", "forwarder", "verdict", "exited"}
Propagating == pc \in {"option", "start"}

TypeOK ==
    /\ {bootedRole, role, picked} \subseteq Roles
    /\ {radioOk, uplinkIp, uplinkDns, uplinkSeen, downlinkUp, wake, natOk, cotOk,
        datapathUp, napt, defaultRoute, cotRelay, forwarder, dhcp, offersDns,
        startFailed, shedCot, dhcpPaused} \subseteq BOOLEAN
    /\ pc \in Steps
    /\ {heap, sampled} \subseteq Heaps

Init ==
    /\ bootedRole \in Roles /\ role = bootedRole /\ picked = bootedRole
    /\ radioOk \in BOOLEAN
    /\ uplinkIp = FALSE /\ uplinkDns = FALSE /\ uplinkSeen = FALSE
    /\ downlinkUp = FALSE
    /\ wake = FALSE /\ pc = "wait" /\ natOk = FALSE /\ cotOk = FALSE
    /\ datapathUp = FALSE /\ napt = FALSE /\ defaultRoute = FALSE
    /\ cotRelay = FALSE /\ forwarder = FALSE
    /\ dhcp \in BOOLEAN /\ (dhcp <=> bootedRole = "client")
    /\ offersDns = FALSE /\ startFailed = FALSE
    /\ heap = HeapTop /\ sampled = HeapTop
    /\ shedCot = FALSE /\ dhcpPaused = FALSE

-----------------------------------------------------------------------------
(* datapath_task().                                                        *)

\* The netifs the role read picks exist only if it is the role booted: the
\* other role's are NULL.  A radio that failed has left the downlink's NULL.
NetifsOfBoth(r) == radioOk
NetifsExist(r) == r = bootedRole /\ radioOk

\* A wait ends with the semaphore or with DATAPATH_RETRY_INTERVAL_MS.
WakeOnly == wake
WakeOrTimer == TRUE

WakeUp ==
    /\ pc = "wait" /\ WakeOrTimer
    /\ wake' = FALSE
    /\ picked' = role
    /\ pc' = IF NetifsExist(picked') THEN "downlink" ELSE "cot"
    /\ natOk' = FALSE /\ cotOk' = FALSE
    /\ UNCHANGED <<env, up, server, guard>>

DownlinkIsUp ==
    /\ pc = "downlink" /\ downlinkUp
    /\ pc' = IF picked = "client" THEN "dns" ELSE "route"
    /\ UNCHANGED <<env, wake, attempt, up, server, guard>>

\* DOWNLINK_UP_TIMEOUT_MS passed: "will retry".
DownlinkTimeout ==
    /\ pc = "downlink" /\ ~downlinkUp
    /\ pc' = "wait"
    /\ UNCHANGED <<env, wake, attempt, up, server, guard>>

\* propagate_dns(): with no server to offer, the DHCP server is left alone.
ReadDns ==
    /\ pc = "dns"
    /\ pc' = IF uplinkDns THEN "stop" ELSE "route"
    /\ UNCHANGED <<env, wake, attempt, up, server, guard>>

StopServer ==
    /\ pc = "stop"
    /\ dhcp' = FALSE
    /\ pc' = "option"
    /\ UNCHANGED <<env, wake, attempt, up, offersDns, startFailed, guard>>

\* esp_netif refuses the option while the server runs, and may refuse it for
\* reasons of its own.  Whatever the result, the server is started again.
AfterRefusalReturns == "route"
AfterRefusal == "start"

SetOption ==
    /\ pc = "option"
    /\ \/ /\ ~dhcp /\ offersDns' = TRUE /\ pc' = "start"
       \/ /\ pc' = AfterRefusal /\ UNCHANGED offersDns
    /\ UNCHANGED <<env, wake, attempt, up, dhcp, startFailed, guard>>

\* "Already started" is no error; what is, is logged and nothing more.
StartServer ==
    /\ pc = "start"
    /\ \/ dhcp' = TRUE /\ startFailed' = FALSE
       \/ ~dhcp /\ dhcp' = FALSE /\ startFailed' = TRUE
    /\ pc' = "route"
    /\ UNCHANGED <<env, wake, attempt, up, offersDns, guard>>

SetRoute ==
    /\ pc = "route"
    /\ \/ defaultRoute' = TRUE
       \/ UNCHANGED defaultRoute
    /\ pc' = "napt"
    /\ UNCHANGED <<env, wake, attempt, datapathUp, napt, cotRelay, forwarder, server, guard>>

EnableNapt ==
    /\ pc = "napt"
    /\ \/ downlinkUp /\ natOk' = TRUE /\ napt' = TRUE
       \/ ~downlinkUp /\ natOk' = FALSE /\ UNCHANGED napt
    /\ pc' = "cot"
    /\ UNCHANGED <<env, wake, picked, cotOk, datapathUp, defaultRoute, cotRelay, forwarder,
                   server, guard>>

\* cot_relay_start(): an attempt with a NULL netif fails; one that finds the
\* relay running counts as a success.
CotStarts ==
    /\ pc = "cot" /\ NetifsExist(picked)
    /\ cotRelay' = TRUE /\ cotOk' = TRUE
    /\ pc' = IF picked = "relay" THEN "forwarder" ELSE "verdict"
    /\ UNCHANGED <<env, wake, picked, natOk, datapathUp, napt, defaultRoute, forwarder,
                   server, guard>>

CotFails ==
    /\ pc = "cot" /\ (NetifsExist(picked) => ~cotRelay)
    /\ cotOk' = FALSE
    /\ pc' = IF picked = "relay" THEN "forwarder" ELSE "verdict"
    /\ UNCHANGED <<env, wake, picked, natOk, up, server, guard>>

\* dns_forward_start(), on a relay: a failure is logged and nothing more.
StartForwarder ==
    /\ pc = "forwarder"
    /\ \/ NetifsExist(picked) /\ forwarder' = TRUE
       \/ UNCHANGED forwarder
    /\ pc' = "verdict"
    /\ UNCHANGED <<env, wake, attempt, datapathUp, napt, defaultRoute, cotRelay, server, guard>>

\* Half of it is not enough: s_datapath_up stays false and the task retries.
EitherSucceeded == natOk \/ cotOk
BothSucceeded == natOk /\ cotOk

Verdict ==
    /\ pc = "verdict"
    /\ datapathUp' = BothSucceeded
    /\ pc' = IF BothSucceeded THEN "exited" ELSE "wait"
    /\ UNCHANGED <<env, wake, attempt, napt, defaultRoute, cotRelay, forwarder, server, guard>>

-----------------------------------------------------------------------------
(* sample_timer_cb() of heap_guard.c, on the esp_timer task.               *)

\* What is read is the internal heap, not that and the PSRAM together.
InternalHeap == heap

\* Two thresholds: one to start shedding, a higher one to stop.
ShedFromOneLine(on, enter, exit) == InternalHeap < enter
ShedFrom(on, enter, exit) == InternalHeap < (IF on THEN exit ELSE enter)

CotShedLate == sampled < (IF shedCot THEN CotExit ELSE CotEnter)
CotShed == ShedFrom(shedCot, CotEnter, CotExit)
NodeShed == ShedFrom(dhcpPaused, NodeEnter, NodeExit)

\* apply_node_shed(): an error of the call leaves the flag for the next
\* sample.  A relay has no SoftAP, hence no server to pause.
Pause ==
    \/ /\ bootedRole = "client" /\ NodeShed # dhcpPaused
       /\ dhcpPaused' = NodeShed
       /\ dhcp' = ~NodeShed
       /\ startFailed' = (startFailed /\ NodeShed)
    \/ UNCHANGED <<dhcpPaused, dhcp, startFailed>>

Sample ==
    /\ sampled' = InternalHeap
    /\ shedCot' = CotShed
    /\ Pause
    /\ UNCHANGED <<env, wake, pc, attempt, up, offersDns>>

-----------------------------------------------------------------------------
(* Everything around it.                                                   *)

\* on_uplink_state(TRUE) gives the semaphore; a loss of the uplink gives none.
UplinkUp ==
    /\ ~uplinkIp /\ uplinkIp' = TRUE /\ uplinkSeen' = TRUE
    /\ uplinkDns' \in BOOLEAN
    /\ wake' = TRUE
    /\ UNCHANGED <<bootedRole, role, radioOk, downlinkUp, heap, pc, attempt, up, server, guard>>

UplinkDown ==
    /\ uplinkIp /\ uplinkIp' = FALSE
    /\ uplinkDns' \in {FALSE, uplinkDns}
    /\ UNCHANGED <<bootedRole, role, radioOk, uplinkSeen, downlinkUp, heap, wake, pc,
                   attempt, up, server, guard>>

\* The SoftAP stays up once it is; a HaLow AP comes and goes.
DownlinkChanges ==
    /\ radioOk
    /\ downlinkUp' \in IF bootedRole = "client" THEN {TRUE} ELSE {~downlinkUp}
    /\ UNCHANGED <<bootedRole, role, radioOk, uplinkIp, uplinkDns, uplinkSeen, heap, wake, pc,
                   attempt, up, server, guard>>

\* gwcfg-set-role, a POST or gwcfg-reset.
RoleChanges ==
    /\ role' \in Roles \ {role}
    /\ UNCHANGED <<bootedRole, radioOk, uplinkIp, uplinkDns, uplinkSeen, downlinkUp, heap,
                   wake, pc, attempt, up, server, guard>>

HeapChanges ==
    /\ heap' \in Heaps \ {heap}
    /\ UNCHANGED <<bootedRole, role, radioOk, uplinkIp, uplinkDns, uplinkSeen, downlinkUp,
                   wake, pc, attempt, up, server, guard>>

Task ==
    \/ WakeUp \/ DownlinkIsUp \/ DownlinkTimeout
    \/ ReadDns \/ StopServer \/ SetOption \/ StartServer \/ SetRoute \/ EnableNapt
    \/ CotStarts \/ CotFails \/ StartForwarder \/ Verdict

Environment == UplinkUp \/ UplinkDown \/ DownlinkChanges \/ RoleChanges \/ HeapChanges

Next == Task \/ Sample \/ Environment

\* The task is scheduled and its waits are bounded; a relay that could start
\* at every attempt does not fail at every attempt.
Fairness == WF_vars(Task) /\ SF_vars(CotStarts)

Spec == Init /\ [][Next]_vars /\ Fairness

-----------------------------------------------------------------------------
(* Properties.                                                             *)

\* A node that says its datapath is up translates and relays, and the task
\* that would retry is gone only then.
DatapathIsComplete ==
    /\ datapathUp => napt /\ cotRelay
    /\ pc = "exited" <=> datapathUp

\* Whatever role the live configuration changes to, only pieces of the role
\* booted come up.
OneRoleOnly ==
    /\ forwarder => bootedRole = "relay"
    /\ offersDns => bootedRole = "client"

\* propagate_dns() and the heap guard stop and start one DHCP server from two
\* tasks: clients are without it only while it is paused, while its options
\* change, or after starting it failed.
ServerRuns ==
    bootedRole = "client" /\ ~dhcp => dhcpPaused \/ Propagating \/ startFailed

\* New clients are turned away only when CoT is being shed already.
CotGivesWayFirst == dhcpPaused /\ sampled < NodeExit => shedCot

\* Neither flag flaps: no sample changes it within the gap between the
\* thresholds it is entered and left at.
NoFlapping ==
    [][ /\ shedCot' # shedCot => sampled' \notin CotEnter..(CotExit - 1)
        /\ dhcpPaused' # dhcpPaused => sampled' \notin NodeEnter..(NodeExit - 1) ]_guard

\* Once the downlink stays up and the role stays the one booted, the datapath
\* comes up, whether or not the uplink ever reconnects.
ComesUp == <>[](downlinkUp /\ role = bootedRole) => <>datapathUp

\* NAT and the CoT relay are brought up the first time the uplink gets an IP.
DatapathFollowsUplink == napt \/ cotRelay => uplinkSeen
=============================================================================
