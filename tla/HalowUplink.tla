----------------------------- MODULE HalowUplink -----------------------------
(***************************************************************************)
(* The uplink of a client node, uplink_halow.c: reconnect_task(), which    *)
(* associates, waits for an address, holds the link and starts again; the  *)
(* driver's state callback; and the IP events, handled by the event loop.  *)
(* The three run on three tasks and share flags without a lock.            *)
(*                                                                         *)
(* The driver's calls go through radio_control, of which RadioService says *)
(* what is used here: requests run one at a time and in order, and a call  *)
(* that timed out leaves its request behind to run later.  The driver, the *)
(* DHCP client and the netif are the environment, as the comments of the   *)
(* code describe them.  Time is not modelled: a wait with a timeout may    *)
(* end at any moment, and the growing backoff is a wait like any other.    *)
(***************************************************************************)
EXTENDS Naturals, Sequences

CONSTANTS
    QueueDepth, \* requests radio_control holds: one running and one queued
    MaxEvents   \* bound: events the event loop has yet to deliver

\* Assumed by Node.
UplinkAssumption == {QueueDepth, MaxEvents} \subseteq Nat \ {0}

DHCP_RESTART_ATTEMPTS == 2

VARIABLES
    useStaticIp,    \* s_cfg.use_static_ip
    associated,     \* s_associated
    hasIp,          \* s_has_ip
    connectSem,     \* s_connect_sem is available
    pc, attempt,    \* reconnect_task(): its step; the wait for an address
    requests,       \* what radio_control has yet to run, in order
    sta,            \* the driver's station: disabled, connecting, connected
    address, dhcpc, \* the netif has an address; its DHCP client runs
    lostTimer,      \* the netif's timer that reports a lost address
    events,         \* IP events posted and not delivered
    calm            \* the AP, the driver and the DHCP server misbehave no more

net == <<address, dhcpc, lostTimer>>
world == <<useStaticIp, sta, net, events, calm>>
vars == <<world, associated, hasIp, connectSem, pc, attempt, requests>>

\* drain, check, call, await: halow_sta_connect(); backoff: its wait; lease:
\* wait_for_dhcp_lease(); judge: after the loop around that; drop, dropping:
\* disconnecting; hold: leased and healthy.
Steps == {"drain", "check", "call", "await", "backoff", "lease", "judge",
          "drop", "dropping", "hold"}

TypeOK ==
    /\ {useStaticIp, associated, hasIp, connectSem, address, dhcpc, lostTimer, calm}
           \subseteq BOOLEAN
    /\ pc \in Steps /\ attempt \in 1..DHCP_RESTART_ATTEMPTS
    /\ requests \in Seq({"connect", "disconnect"}) /\ Len(requests) <= QueueDepth
    /\ sta \in {"disabled", "connecting", "connected"}
    /\ events \in Seq({"got", "lost"}) /\ Len(events) <= MaxEvents

\* uplink_halow_start(): the radio is up and an SSID is configured.
Init ==
    /\ useStaticIp \in BOOLEAN
    /\ associated = FALSE /\ hasIp = FALSE /\ connectSem = FALSE
    /\ pc = "drain" /\ attempt = 1
    /\ requests = <<>> /\ sta = "disabled"
    /\ address = FALSE /\ dhcpc = FALSE /\ lostTimer = FALSE /\ events = <<>>
    /\ calm = FALSE

-----------------------------------------------------------------------------
(* reconnect_task(), from halow_sta_connect() on.                          *)

Drain ==
    /\ pc = "drain" /\ pc' = "check"
    /\ connectSem' = FALSE
    /\ UNCHANGED <<world, associated, hasIp, attempt, requests>>

AlreadyAssociated ==
    /\ pc = "check" /\ associated
    /\ pc' = "lease" /\ attempt' = 1
    /\ UNCHANGED <<world, associated, hasIp, connectSem, requests>>

QueueFull == Len(requests) = QueueDepth

CallConnect ==
    /\ pc = "check" /\ ~associated
    /\ pc' = IF QueueFull THEN "backoff" ELSE "call"
    /\ requests' = IF QueueFull THEN requests ELSE Append(requests, "connect")
    /\ UNCHANGED <<world, associated, hasIp, connectSem, attempt>>

\* radio_control_run() gives up on the request, which stays.
CallTimesOut ==
    /\ pc = "call" /\ ~calm
    /\ pc' = "backoff"
    /\ UNCHANGED <<world, associated, hasIp, connectSem, attempt, requests>>

\* The callback signals both outcomes and the wait for it is bounded by
\* HALOW_CONNECT_TIMEOUT_MS: whichever ends it, the flag decides.
Await ==
    /\ pc = "await"
    /\ connectSem' = FALSE
    /\ pc' = IF associated THEN "lease" ELSE "backoff"
    /\ attempt' = 1
    /\ UNCHANGED <<world, associated, hasIp, requests>>

\* A second at least, in which the event loop catches up once all is calm.
BackoffEnds ==
    /\ pc = "backoff" /\ (calm => events = <<>>)
    /\ pc' = "drain"
    /\ UNCHANGED <<world, associated, hasIp, connectSem, attempt, requests>>

Leased ==
    /\ pc = "lease" /\ hasIp
    /\ pc' = "hold"
    /\ UNCHANGED <<world, associated, hasIp, connectSem, attempt, requests>>

LinkDropsWaiting ==
    /\ pc = "lease" /\ ~hasIp /\ ~associated
    /\ pc' = "judge"
    /\ UNCHANGED <<world, associated, hasIp, connectSem, attempt, requests>>

\* A static address "gets exactly one attempt": there is nothing to restart.
AnyAttempts == DHCP_RESTART_ATTEMPTS
Attempts == IF useStaticIp THEN 1 ELSE DHCP_RESTART_ATTEMPTS

\* DHCP_LEASE_TIMEOUT_MS passes.  It is long enough for a lease that comes.
AddressIsDue == calm /\ sta = "connected" /\ (dhcpc \/ address)
TimesOut == pc = "lease" /\ ~hasIp /\ associated /\ ~AddressIsDue

\* Stop the DHCP client, which gives its lease back, and start it again, which
\* may fail.
RestartDhcp ==
    /\ TimesOut /\ attempt < Attempts
    /\ attempt' = attempt + 1
    /\ address' = FALSE /\ lostTimer' = (lostTimer \/ address)
    /\ dhcpc' \in {sta = "connected", FALSE}
    /\ UNCHANGED <<useStaticIp, sta, events, calm, associated, hasIp, connectSem, pc, requests>>

LeaseTimesOut ==
    /\ TimesOut /\ attempt = Attempts
    /\ pc' = "judge"
    /\ UNCHANGED <<world, associated, hasIp, connectSem, attempt, requests>>

\* "Still associated but unusable": drop the association.  A link that is
\* down already goes through "hold", whose loop ends at once.
Judge ==
    /\ pc = "judge"
    /\ pc' = IF associated THEN "drop" ELSE "hold"
    /\ hasIp' = (hasIp /\ ~associated)
    /\ UNCHANGED <<world, associated, connectSem, attempt, requests>>

CallDisconnect ==
    /\ pc = "drop"
    /\ pc' = IF QueueFull THEN "drain" ELSE "dropping"
    /\ requests' = IF QueueFull THEN requests ELSE Append(requests, "disconnect")
    /\ associated' = (associated /\ ~QueueFull)
    /\ UNCHANGED <<world, hasIp, connectSem, attempt>>

DisconnectTimesOut ==
    /\ pc = "dropping" /\ ~calm
    /\ pc' = "drain" /\ associated' = FALSE
    /\ UNCHANGED <<world, hasIp, connectSem, attempt, requests>>

\* The poll of every LINK_POLL_INTERVAL_MS.
NoticeDrop ==
    /\ pc = "hold" /\ ~associated
    /\ pc' = "drain" /\ hasIp' = FALSE
    /\ UNCHANGED <<world, associated, connectSem, attempt, requests>>

Task ==
    \/ Drain \/ AlreadyAssociated \/ CallConnect \/ CallTimesOut \/ Await \/ BackoffEnds
    \/ Leased \/ LinkDropsWaiting \/ RestartDhcp \/ LeaseTimesOut \/ Judge
    \/ CallDisconnect \/ DisconnectTimesOut \/ NoticeDrop

-----------------------------------------------------------------------------
(* The driver, calling mm_sta_state_cb() at every transition.              *)

CallbackConnected == associated' = TRUE /\ connectSem' = TRUE
CallbackDisabledSignals == UNCHANGED associated /\ connectSem' = TRUE
CallbackDisabled == associated' = FALSE /\ connectSem' = TRUE
\* MMWLAN_STA_CONNECTING sets s_associating alone, which is only displayed.
CallbackConnecting == UNCHANGED <<associated, connectSem>>

\* The caller waiting is the one whose request is last.
Answers(step, next) == pc' = IF pc = step /\ Len(requests) = 1 THEN next ELSE pc

\* The netif follows the link, and reports the loss of its address late.
LinkDown == address' = FALSE /\ dhcpc' = FALSE /\ lostTimer' = (lostTimer \/ address)

\* mmwlan_sta_enable(): "if station mode is already enabled then it will
\* disconnect from (if already connected) and initiate connection".
RunConnect ==
    /\ requests # <<>> /\ Head(requests) = "connect"
    /\ requests' = Tail(requests)
    /\ sta' = "connecting" /\ LinkDown
    /\ \/ CallbackConnecting
       \/ sta = "connected" /\ CallbackDisabled
    /\ Answers("call", "await")
    /\ UNCHANGED <<useStaticIp, events, calm, hasIp, attempt>>

ConnectFails ==
    /\ requests # <<>> /\ Head(requests) = "connect" /\ ~calm
    /\ requests' = Tail(requests)
    /\ Answers("call", "backoff")
    /\ UNCHANGED <<world, associated, hasIp, connectSem, attempt>>

\* The task clears s_associated as well, whatever the call returned.
RunDisconnect ==
    /\ requests # <<>> /\ Head(requests) = "disconnect"
    /\ requests' = Tail(requests)
    /\ sta' = "disabled" /\ LinkDown
    /\ associated' = FALSE /\ connectSem' = (connectSem \/ sta # "disabled")
    /\ Answers("dropping", "drain")
    /\ UNCHANGED <<useStaticIp, events, calm, hasIp, attempt>>

DisconnectFails ==
    /\ requests # <<>> /\ Head(requests) = "disconnect" /\ ~calm
    /\ requests' = Tail(requests)
    /\ Answers("dropping", "drain")
    /\ associated' = (associated /\ pc' = pc)
    /\ UNCHANGED <<world, hasIp, connectSem, attempt>>

\* The link comes up.  The netif starts its DHCP client; or it reapplies the
\* static address, if it could take it, and posts that it has it.
Associate ==
    /\ sta = "connecting" /\ sta' = "connected"
    /\ CallbackConnected
    /\ dhcpc' = ~useStaticIp
    /\ \/ /\ useStaticIp /\ Len(events) < MaxEvents
          /\ address' = TRUE /\ events' = Append(events, "got")
       \/ (useStaticIp => ~calm) /\ UNCHANGED <<address, events>>
    /\ UNCHANGED <<useStaticIp, lostTimer, calm, hasIp, pc, attempt, requests>>

\* The attempt fails, or the link is lost and the driver stops or tries again.
Drops ==
    /\ ~calm /\ sta # "disabled" /\ LinkDown
    /\ \/ sta' = "disabled" /\ CallbackDisabled
       \/ sta = "connected" /\ sta' = "connecting" /\ CallbackConnecting
    /\ UNCHANGED <<useStaticIp, events, calm, hasIp, pc, attempt, requests>>

LeaseArrives ==
    /\ dhcpc /\ ~address /\ Len(events) < MaxEvents
    /\ address' = TRUE /\ events' = Append(events, "got")
    /\ UNCHANGED <<useStaticIp, sta, dhcpc, lostTimer, calm, associated, hasIp, connectSem, pc,
                   attempt, requests>>

\* The lease runs out on a link that stays up.
LeaseExpires ==
    /\ ~calm /\ dhcpc /\ address
    /\ address' = FALSE /\ lostTimer' = TRUE
    /\ UNCHANGED <<useStaticIp, sta, dhcpc, events, calm, associated, hasIp, connectSem, pc,
                   attempt, requests>>

LostTimerFires ==
    /\ lostTimer /\ lostTimer' = FALSE
    /\ \/ address /\ UNCHANGED events
       \/ ~address /\ Len(events) < MaxEvents /\ events' = Append(events, "lost")
    /\ UNCHANGED <<useStaticIp, sta, address, dhcpc, calm, associated, hasIp, connectSem, pc,
                   attempt, requests>>

\* ip_event_handler(), on the event loop.
GotOnly == hasIp \/ Head(events) = "got"
GotOrLost == Head(events) = "got"

Deliver ==
    /\ events # <<>>
    /\ events' = Tail(events)
    /\ hasIp' = GotOrLost
    /\ UNCHANGED <<useStaticIp, sta, net, calm, associated, connectSem, pc, attempt, requests>>

\* From some moment on the environment behaves.
Settle ==
    /\ ~calm /\ calm' = TRUE
    /\ UNCHANGED <<useStaticIp, sta, net, events, associated, hasIp, connectSem, pc, attempt,
                   requests>>

Radio == RunConnect \/ ConnectFails \/ RunDisconnect \/ DisconnectFails
Netif == LeaseArrives \/ LeaseExpires \/ LostTimerFires
Environment == Radio \/ Associate \/ Drops \/ Netif \/ Deliver \/ Settle

Next == Task \/ Environment

\* Tasks are scheduled, and their waits end.  The radio answers in the end,
\* which is what AcceptedRuns of RadioControl comes to.  Associations that
\* complete again and again complete now and then while the task waits, not
\* always between its check of s_associated and the run of its request.
Fairness ==
    /\ WF_vars(Task) /\ WF_vars(Radio) /\ WF_vars(Deliver)
    /\ WF_vars(LeaseArrives) /\ WF_vars(LostTimerFires)
    /\ WF_vars(Associate) /\ SF_vars(Associate /\ pc \in {"await", "backoff"})

Spec == Init /\ [][Next]_vars /\ Fairness

-----------------------------------------------------------------------------
(* Properties.                                                             *)

\* However the driver, the radio queue and the DHCP server failed before,
\* once they behave the node gets an address and keeps it.  Except that the
\* task, once it has seen an address, holds the link whatever becomes of the
\* address: with no client that would ask for another, it holds for ever.
HoldsNothing == pc = "hold" /\ sta = "connected" /\ ~address /\ ~dhcpc
Recovers == <>calm /\ <>[]~HoldsNothing => <>[]hasIp

\* A link that is gone is reported gone, by the poll or by the netif, even
\* when an event of the old link is delivered after the task noticed.
LossIsReported == sta = "disabled" /\ hasIp ~> ~hasIp \/ sta # "disabled"

\* A static address is never put under DHCP, which would discard it.
StaticStaysStatic == useStaticIp => ~dhcpc

\* mmhalow_connect() is not issued on a working link.
ConnectSparesTheLink == [][RunConnect => sta # "connected"]_vars

\* "Bound the wait so a silent DHCP failure can't strand the task".
NotStranded == associated /\ ~hasIp ~> hasIp \/ ~associated
=============================================================================
