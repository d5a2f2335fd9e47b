----------------------------- MODULE WifiUplink -----------------------------
(***************************************************************************)
(* The uplink of a relay node, uplink_wifi.c.  Nobody owns the retry: it   *)
(* is handed on, from the event loop's handler to the one-shot timer, to   *)
(* the notification of wifi_reconnect_task(), to the driver, and back in   *)
(* an event.  The four run on four tasks.                                  *)
(*                                                                         *)
(* The driver, the netif and the DHCP client are the environment.  Events  *)
(* are delivered one at a time, in the order they were posted, the netif's *)
(* own handlers first.  The HaLow access point of the same relay is a      *)
(* netif of the same shape (downlink_halow_ap.c): its link's comings and   *)
(* goings post the same events of an address.  s_associating, which is     *)
(* only displayed, and the length of the backoff are left out.             *)
(***************************************************************************)
EXTENDS Naturals, Sequences, FiniteSets

CONSTANT MaxEvents \* bound: events the event loop has yet to deliver

\* Assumed by Node.
WifiAssumption == MaxEvents \in Nat \ {0}

VARIABLES
    configured,  \* s_configured: the driver was given an SSID
    associated,  \* s_associated
    hasIp,       \* s_has_ip
    timer,       \* s_reconnect_timer is armed
    notified,    \* the task has a notification pending
    pc,          \* wifi_reconnect_task(): wait, check, connect
    sta,         \* the driver: idle, connecting, connected
    address, dhcpc, lostTimer, \* the netif, as in HalowUplink
    apAddress, apLostTimer,    \* the same of the HaLow access point's netif
    mistaken,    \* ghost: what made hasIp FALSE was that netif's loss
    events,      \* posted and not delivered
    refused,     \* esp_wifi_connect() failed at once
    calm         \* the AP, the driver and the DHCP server misbehave no more

net == <<address, dhcpc, lostTimer>>
other == <<apAddress, apLostTimer>>
vars == <<configured, associated, hasIp, timer, notified, pc, sta, net, other, mistaken, events,
          refused, calm>>

Kinds == {"start", "connected", "disconnected", "got", "lost", "got other", "lost other"}

TypeOK ==
    /\ {configured, associated, hasIp, timer, notified, address, dhcpc, lostTimer,
        apAddress, apLostTimer, mistaken, refused, calm} \subseteq BOOLEAN
    /\ pc \in {"wait", "check", "connect"}
    /\ sta \in {"idle", "connecting", "connected"}
    /\ events \in Seq(Kinds) /\ Len(events) <= MaxEvents

\* uplink_wifi_init() has created the timer and the task, and started the
\* driver, which posts WIFI_EVENT_STA_START whether or not it has an SSID.
Init ==
    /\ configured \in BOOLEAN
    /\ associated = FALSE /\ hasIp = FALSE
    /\ timer = FALSE /\ notified = FALSE /\ pc = "wait"
    /\ sta = "idle"
    /\ address = FALSE /\ dhcpc = FALSE /\ lostTimer = FALSE
    /\ apAddress = FALSE /\ apLostTimer = FALSE /\ mistaken = FALSE
    /\ events = <<"start">>
    /\ refused = FALSE /\ calm = FALSE

Post(kind) == Len(events) < MaxEvents /\ events' = Append(events, kind)

-----------------------------------------------------------------------------
(* wifi_reconnect_task() and the timer's callback.                         *)

TakeNotify ==
    /\ pc = "wait" /\ notified
    /\ notified' = FALSE /\ pc' = "check"
    /\ UNCHANGED <<configured, associated, hasIp, timer, sta, net, other, mistaken, events,
                   refused, calm>>

Check ==
    /\ pc = "check"
    /\ pc' = IF associated THEN "wait" ELSE "connect"
    /\ UNCHANGED <<configured, associated, hasIp, timer, notified, sta, net, other, mistaken,
                   events, refused, calm>>

\* esp_wifi_connect(); an error is logged and nothing else is done.
Connect ==
    /\ pc = "connect" /\ pc' = "wait"
    /\ \/ configured /\ sta = "idle" /\ sta' = "connecting" /\ UNCHANGED refused
       \/ ~(configured /\ calm) /\ refused' = TRUE /\ UNCHANGED sta
    /\ UNCHANGED <<configured, associated, hasIp, timer, notified, net, other, mistaken, events,
                   calm>>

TimerFires ==
    /\ timer /\ timer' = FALSE
    /\ notified' = TRUE
    /\ UNCHANGED <<configured, associated, hasIp, pc, sta, net, other, mistaken, events, refused,
                   calm>>

-----------------------------------------------------------------------------
(* wifi_event_handler(), after the netif's own.                            *)

Handle(kind) ==
    /\ events # <<>> /\ Head(events) = kind
    /\ events' = Tail(events)
    /\ UNCHANGED <<configured, pc, sta, other, refused, calm>>

OnStart ==
    /\ Handle("start")
    /\ notified' = TRUE
    /\ UNCHANGED <<associated, hasIp, timer, net, mistaken>>

OnConnected ==
    /\ Handle("connected")
    /\ associated' = TRUE
    /\ dhcpc' = TRUE
    /\ UNCHANGED <<hasIp, timer, notified, address, lostTimer, mistaken>>

\* schedule_reconnect() stops a timer that runs, and starts it.
ScheduleAfterALink == timer' = (timer \/ associated)
ScheduleReconnect == timer' = TRUE

OnDisconnected ==
    /\ Handle("disconnected")
    /\ associated' = FALSE /\ hasIp' = FALSE /\ mistaken' = FALSE
    /\ ScheduleReconnect
    /\ dhcpc' = FALSE /\ address' = FALSE /\ lostTimer' = (lostTimer \/ address)
    /\ UNCHANGED notified

\* An address of the uplink's own netif only.
OwnNetif(kind) == hasIp' = (hasIp \/ kind = "got")

OnGotIp ==
    \E kind \in {"got", "got other"} :
        /\ Handle(kind) /\ OwnNetif(kind)
        /\ mistaken' = (mistaken /\ kind # "got")
        /\ UNCHANGED <<associated, timer, notified, net>>

\* The loss of an address, whichever netif's: this branch does not compare.
OnLostIp ==
    \E kind \in {"lost", "lost other"} :
        /\ Handle(kind) /\ hasIp' = FALSE
        /\ mistaken' = (kind = "lost other" /\ (hasIp \/ mistaken))
        /\ UNCHANGED <<associated, timer, notified, net>>

-----------------------------------------------------------------------------
(* The driver and the netif.                                               *)

Joins ==
    /\ sta = "connecting" /\ sta' = "connected" /\ Post("connected")
    /\ UNCHANGED <<configured, associated, hasIp, timer, notified, pc, net, other, mistaken,
                   refused, calm>>

\* The attempt fails, or the link is lost.
Drops ==
    /\ ~calm /\ sta # "idle" /\ sta' = "idle" /\ Post("disconnected")
    /\ UNCHANGED <<configured, associated, hasIp, timer, notified, pc, net, other, mistaken,
                   refused, calm>>

LeaseArrives ==
    /\ dhcpc /\ sta = "connected" /\ ~address
    /\ address' = TRUE /\ Post("got")
    /\ UNCHANGED <<configured, associated, hasIp, timer, notified, pc, sta, dhcpc, lostTimer,
                   other, mistaken, refused, calm>>

LeaseExpires ==
    /\ ~calm /\ dhcpc /\ address
    /\ address' = FALSE /\ lostTimer' = TRUE
    /\ UNCHANGED <<configured, associated, hasIp, timer, notified, pc, sta, dhcpc, other,
                   mistaken, events, refused, calm>>

LostTimerFires ==
    /\ lostTimer /\ lostTimer' = FALSE
    /\ \/ address /\ UNCHANGED events
       \/ ~address /\ Post("lost")
    /\ UNCHANGED <<configured, associated, hasIp, timer, notified, pc, sta, address, dhcpc,
                   other, mistaken, refused, calm>>

\* ap_vif_state_cb(): the netif of the relay's HaLow access point follows its
\* link, under a static address.
DownlinkComesUp ==
    /\ ~calm /\ ~apAddress
    /\ apAddress' = TRUE /\ Post("got other")
    /\ UNCHANGED <<configured, associated, hasIp, timer, notified, pc, sta, net, apLostTimer,
                   mistaken, refused, calm>>

DownlinkGoesDown ==
    /\ ~calm /\ apAddress
    /\ apAddress' = FALSE /\ apLostTimer' = TRUE
    /\ UNCHANGED <<configured, associated, hasIp, timer, notified, pc, sta, net, mistaken, events,
                   refused, calm>>

DownlinkLostTimerFires ==
    /\ apLostTimer /\ apLostTimer' = FALSE
    /\ \/ apAddress /\ UNCHANGED events
       \/ ~apAddress /\ Post("lost other")
    /\ UNCHANGED <<configured, associated, hasIp, timer, notified, pc, sta, net, apAddress,
                   mistaken, refused, calm>>

Settle ==
    /\ ~calm /\ calm' = TRUE
    /\ UNCHANGED <<configured, associated, hasIp, timer, notified, pc, sta, net, other, mistaken,
                   events, refused>>

Task == TakeNotify \/ Check \/ Connect
Deliver == OnStart \/ OnConnected \/ OnDisconnected \/ OnGotIp \/ OnLostIp
Environment ==
    \/ Joins \/ Drops \/ LeaseArrives \/ LeaseExpires \/ LostTimerFires
    \/ DownlinkComesUp \/ DownlinkGoesDown \/ DownlinkLostTimerFires \/ Settle

Next == Task \/ TimerFires \/ Deliver \/ Environment

\* Tasks, timers and the event loop are scheduled; an attempt that may
\* succeed, and nothing stops, succeeds.  The netif's timer waits for room in
\* the queue of events, and gets it.
Fairness ==
    /\ WF_vars(Task) /\ WF_vars(TimerFires) /\ WF_vars(Deliver)
    /\ WF_vars(Joins) /\ WF_vars(LeaseArrives) /\ SF_vars(LostTimerFires)

Spec == Init /\ [][Next]_vars /\ Fairness

-----------------------------------------------------------------------------
(* Properties.                                                             *)

\* Who holds the retry: the driver, the timer, the notification, the task
\* between its check and the call, or an event whose handler starts one.
Held == [driver |-> sta # "idle", timer |-> timer, notification |-> notified, task |-> pc # "wait"]
Retries ==
    Cardinality({h \in DOMAIN Held : Held[h]})
    + Cardinality({i \in DOMAIN events : events[i] \in {"start", "disconnected"}})

\* The retry is never lost between two tasks, and never doubled: two would
\* connect at once, or one on top of the link the other brought up.
OneRetry == Retries = IF refused THEN 0 ELSE 1

\* The uplink is reported gone after it is, even when the event of a lease is
\* delivered after the event of the disconnection.
WifiLossIsReported == ~address /\ hasIp ~> ~hasIp \/ address

\* An address in force is reported, in the end.  The code does not do it, and
\* no run checks it: the loss of the HaLow access point's address, which
\* OnLostIp takes for the uplink's, is corrected by nothing before the next
\* lease or link.
AddressIsReported == address /\ ~hasIp ~> hasIp \/ ~address

\* Once the environment behaves the relay gets an address and keeps it, and
\* says so, unless the driver refused an attempt: nothing schedules another
\* then.  The one thing that may leave the address unreported is the loss
\* taken for the uplink's.
WifiRecovers ==
    configured /\ <>calm /\ []~refused => <>[](address /\ (hasIp \/ mistaken))
=============================================================================
