---------------------------- MODULE Node_proofs ----------------------------
(***************************************************************************)
(* The safety of the uplinks and of the HaLow scan, for queues of any      *)
(* depth, any number of access points and a buffer of any size.  The two   *)
(* rings and addresses are in NodeData_proofs, the forwarder in            *)
(* DnsForward_proofs.                                                      *)
(***************************************************************************)
EXTENDS Node, Integers, FiniteSetTheorems, SequenceTheorems, TLAPS

-----------------------------------------------------------------------------
(* The uplink of a client.                                                 *)

\* A static address has one attempt, so that nothing restarts a DHCP client.
\* The rest is the type invariant, one flag at a time.
ClientTypes ==
    /\ useStaticIp \in BOOLEAN /\ associated \in BOOLEAN /\ hasIp \in BOOLEAN
    /\ connectSem \in BOOLEAN /\ address \in BOOLEAN /\ dhcpc \in BOOLEAN
    /\ lostTimer \in BOOLEAN /\ calm \in BOOLEAN
    /\ pc \in Halow!Steps /\ attempt \in {1, 2}
    /\ requests \in Seq({"connect", "disconnect"}) /\ Len(requests) <= QueueDepth
    /\ sta \in {"disabled", "connecting", "connected"}
    /\ events \in Seq({"got", "lost"}) /\ Len(events) <= MaxEvents

ClientInv == Client => ClientTypes /\ Halow!StaticStaysStatic

\* A step of a client is one of its uplink, and a node keeps its role.
LEMMA ClientSteps ==
    ASSUME Client', [Next]_vars
    PROVE  Client /\ (Halow!Next \/ UNCHANGED Halow!vars)
<1>1. CASE ClientStep
  BY <1>1 DEF ClientStep, Client
<1>2. CASE RelayStep
  BY <1>2 DEF RelayStep, Client
<1>3. CASE ScanStep \/ LogStep \/ HistoryStep \/ DnsStep \/ AddressesStep
  BY <1>3 DEF ScanStep, LogStep, HistoryStep, DnsStep, AddressesStep, Client
<1>4. CASE UNCHANGED vars
  BY <1>4 DEF vars, uplinks, client, Client, Halow!vars, Halow!world, Halow!net
<1> QED BY <1>1, <1>2, <1>3, <1>4 DEF Next

LEMMA ClientBegins == Init => ClientInv
<1> SUFFICES ASSUME Init, Client PROVE ClientTypes /\ Halow!StaticStaysStatic
  BY DEF ClientInv
<1>1. Halow!Init
  BY DEF Init, Client
<1>2. Len(requests) <= QueueDepth /\ Len(events) <= MaxEvents
  BY <1>1, NodeAssumption DEF NodeAssumption, Halow!UplinkAssumption, Halow!Init
<1>3. requests \in Seq({"connect", "disconnect"}) /\ events \in Seq({"got", "lost"})
  BY <1>1 DEF Halow!Init
<1> QED BY <1>1, <1>2, <1>3
        DEF Halow!Init, ClientTypes, Halow!Steps, Halow!DHCP_RESTART_ATTEMPTS,
            Halow!StaticStaysStatic

\* The steps of reconnect_task().
LEMMA TaskKeepsTheAddress ==
    ASSUME ClientTypes, Halow!StaticStaysStatic, Halow!Task
    PROVE  ClientTypes' /\ Halow!StaticStaysStatic'
<1>0. QueueDepth \in Nat \ {0} /\ MaxEvents \in Nat \ {0}
  BY NodeAssumption DEF NodeAssumption, Halow!UplinkAssumption
<1> USE DEF ClientTypes, Halow!Steps, Halow!StaticStaysStatic, Halow!DHCP_RESTART_ATTEMPTS, Halow!Attempts,
            Halow!world, Halow!net
<1>1. CASE Halow!Drain
  BY <1>1 DEF Halow!Drain
<1>2. CASE Halow!AlreadyAssociated
  BY <1>2 DEF Halow!AlreadyAssociated
<1>3. CASE Halow!CallConnect
  <2>1. requests' \in Seq({"connect", "disconnect"}) /\ Len(requests') <= QueueDepth
    BY <1>0, <1>3 DEF Halow!CallConnect, Halow!QueueFull
  <2> QED BY <1>3, <2>1 DEF Halow!CallConnect
<1>4. CASE Halow!CallTimesOut
  BY <1>4 DEF Halow!CallTimesOut
<1>5. CASE Halow!Await
  <2>1. pc' \in {"lease", "backoff"} /\ attempt' = 1 /\ connectSem' = FALSE
    BY <1>5 DEF Halow!Await
  <2>2. UNCHANGED <<Halow!world, associated, hasIp, requests>>
    BY <1>5 DEF Halow!Await
  <2> QED BY <2>1, <2>2
<1>6. CASE Halow!BackoffEnds
  BY <1>6 DEF Halow!BackoffEnds
<1>7. CASE Halow!Leased
  BY <1>7 DEF Halow!Leased
<1>8. CASE Halow!LinkDropsWaiting
  BY <1>8 DEF Halow!LinkDropsWaiting
<1>9. CASE Halow!RestartDhcp
  <2>1. ~useStaticIp /\ attempt = 1
    BY <1>9 DEF Halow!RestartDhcp
  <2>a. attempt' = attempt + 1 /\ address' = FALSE /\ lostTimer' = (lostTimer \/ address)
    BY <1>9 DEF Halow!RestartDhcp
  <2>b. dhcpc' \in {sta = "connected", FALSE}
    BY <1>9 DEF Halow!RestartDhcp
  <2>c. dhcpc' \in BOOLEAN
    BY <2>b, Zenon
  <2>2. attempt' = 2 /\ address' = FALSE /\ lostTimer' \in BOOLEAN /\ dhcpc' \in BOOLEAN
    BY <2>1, <2>a, <2>c
  <2>3. UNCHANGED <<useStaticIp, sta, events, calm, associated, hasIp, connectSem, pc, requests>>
    BY <1>9 DEF Halow!RestartDhcp
  <2> QED BY <2>1, <2>2, <2>3
<1>10. CASE Halow!LeaseTimesOut
  BY <1>10 DEF Halow!LeaseTimesOut
<1>11. CASE Halow!Judge
  BY <1>11 DEF Halow!Judge
<1>12. CASE Halow!CallDisconnect
  <2>1. requests' \in Seq({"connect", "disconnect"}) /\ Len(requests') <= QueueDepth
    BY <1>0, <1>12 DEF Halow!CallDisconnect, Halow!QueueFull
  <2> QED BY <1>12, <2>1 DEF Halow!CallDisconnect
<1>13. CASE Halow!DisconnectTimesOut
  BY <1>13 DEF Halow!DisconnectTimesOut
<1>14. CASE Halow!NoticeDrop
  BY <1>14 DEF Halow!NoticeDrop
<1> QED BY <1>1, <1>2, <1>3, <1>4, <1>5, <1>6, <1>7, <1>8, <1>9, <1>10, <1>11, <1>12, <1>13,
           <1>14
        DEF Halow!Task

\* Those of the radio, the netif and the event loop.
LEMMA EnvironmentKeepsTheAddress ==
    ASSUME ClientTypes, Halow!StaticStaysStatic, Halow!Environment
    PROVE  ClientTypes' /\ Halow!StaticStaysStatic'
<1>0. QueueDepth \in Nat \ {0} /\ MaxEvents \in Nat \ {0}
  BY NodeAssumption DEF NodeAssumption, Halow!UplinkAssumption
<1>a. ASSUME requests # <<>>, requests' = Tail(requests)
      PROVE  requests' \in Seq({"connect", "disconnect"}) /\ Len(requests') <= QueueDepth
  BY <1>0, <1>a DEF ClientTypes
<1>b. ASSUME NEW kind \in {"got", "lost"}, Len(events) < MaxEvents,
             events' = Append(events, kind)
      PROVE  events' \in Seq({"got", "lost"}) /\ Len(events') <= MaxEvents
  BY <1>0, <1>b DEF ClientTypes
<1>c. ASSUME events # <<>>, events' = Tail(events)
      PROVE  events' \in Seq({"got", "lost"}) /\ Len(events') <= MaxEvents
  BY <1>0, <1>c DEF ClientTypes
<1> USE DEF ClientTypes, Halow!Steps, Halow!StaticStaysStatic, Halow!DHCP_RESTART_ATTEMPTS, Halow!Attempts,
            Halow!world, Halow!net, Halow!LinkDown, Halow!Answers
<1>1. CASE Halow!RunConnect
  BY <1>1, <1>a DEF Halow!RunConnect, Halow!CallbackConnecting, Halow!CallbackDisabled
<1>2. CASE Halow!ConnectFails
  BY <1>2, <1>a DEF Halow!ConnectFails
<1>3. CASE Halow!RunDisconnect
  BY <1>3, <1>a DEF Halow!RunDisconnect
<1>4. CASE Halow!DisconnectFails
  BY <1>4, <1>a DEF Halow!DisconnectFails
<1>5. CASE Halow!Associate
  BY <1>5, <1>b DEF Halow!Associate, Halow!CallbackConnected
<1>6. CASE Halow!Drops
  BY <1>6 DEF Halow!Drops, Halow!CallbackConnecting, Halow!CallbackDisabled
<1>7. CASE Halow!LeaseArrives
  BY <1>7, <1>b DEF Halow!LeaseArrives
<1>8. CASE Halow!LeaseExpires
  BY <1>8 DEF Halow!LeaseExpires
<1>9. CASE Halow!LostTimerFires
  <2>1. /\ lostTimer' = FALSE
        /\ UNCHANGED <<useStaticIp, sta, address, dhcpc, calm, associated, hasIp, connectSem,
                       pc, attempt, requests>>
    BY <1>9 DEF Halow!LostTimerFires
  <2>2. events' \in Seq({"got", "lost"}) /\ Len(events') <= MaxEvents
    BY <1>9, <1>b DEF Halow!LostTimerFires
  <2>3. Halow!StaticStaysStatic'
    BY <2>1
  <2>4. /\ useStaticIp' \in BOOLEAN /\ associated' \in BOOLEAN /\ hasIp' \in BOOLEAN
        /\ connectSem' \in BOOLEAN /\ address' \in BOOLEAN /\ dhcpc' \in BOOLEAN
        /\ lostTimer' \in BOOLEAN /\ calm' \in BOOLEAN
    BY <2>1
  <2>5. /\ pc' \in Halow!Steps /\ attempt' \in {1, 2}
        /\ requests' \in Seq({"connect", "disconnect"}) /\ Len(requests') <= QueueDepth
        /\ sta' \in {"disabled", "connecting", "connected"}
    BY <2>1
  <2> QED BY <2>2, <2>3, <2>4, <2>5
<1>10. CASE Halow!Deliver
  BY <1>10, <1>c DEF Halow!Deliver, Halow!GotOrLost
<1>11. CASE Halow!Settle
  BY <1>11 DEF Halow!Settle
<1> QED BY <1>1, <1>2, <1>3, <1>4, <1>5, <1>6, <1>7, <1>8, <1>9, <1>10, <1>11
        DEF Halow!Environment, Halow!Radio, Halow!Netif

LEMMA ClientInvHolds == Spec => []ClientInv
<1>1. Init => ClientInv
  BY ClientBegins
<1>2. ClientInv /\ [Next]_vars => ClientInv'
  <2> SUFFICES ASSUME ClientInv, [Next]_vars, Client'
               PROVE  ClientTypes' /\ Halow!StaticStaysStatic'
    BY DEF ClientInv
  <2>1. ClientTypes /\ Halow!StaticStaysStatic /\ (Halow!Next \/ UNCHANGED Halow!vars)
    BY ClientSteps DEF ClientInv
  <2>2. CASE Halow!Next
    BY <2>1, <2>2, TaskKeepsTheAddress, EnvironmentKeepsTheAddress DEF Halow!Next
  <2>3. CASE UNCHANGED Halow!vars
    BY <2>1, <2>3
       DEF ClientTypes, Halow!StaticStaysStatic, Halow!vars, Halow!world, Halow!net
  <2> QED BY <2>1, <2>2, <2>3
<1> QED BY <1>1, <1>2, PTL DEF Spec

\* The variables of a client's uplink have their types: the radio's queue never holds
\* more than it has room for, and there is no third wait for an address.
THEOREM ClientTypeCorrect == Spec => [](Client => Halow!TypeOK)
<1>1. ClientTypes => Halow!TypeOK
  <2> SUFFICES ASSUME ClientTypes PROVE Halow!TypeOK
    OBVIOUS
  <2>1. {useStaticIp, associated, hasIp, connectSem, address, dhcpc, lostTimer, calm}
           \subseteq BOOLEAN
    BY DEF ClientTypes
  <2>2. attempt \in 1..Halow!DHCP_RESTART_ATTEMPTS
    BY DEF ClientTypes, Halow!DHCP_RESTART_ATTEMPTS
  <2> QED BY <2>1, <2>2 DEF ClientTypes, Halow!TypeOK
<1>2. ClientInv => (Client => Halow!TypeOK)
  BY <1>1 DEF ClientInv
<1> QED BY <1>2, ClientInvHolds, PTL

\* A client's static address is never put under DHCP, however the link comes and
\* goes, whatever the radio refuses and whichever wait runs out
\* (uplink_halow.c:553-571).
THEOREM StaticAddressesStay == Spec => []StaticStaysStatic
<1>1. ClientInv => StaticStaysStatic
  BY DEF ClientInv, StaticStaysStatic
<1> QED BY <1>1, ClientInvHolds, PTL

-----------------------------------------------------------------------------
(* The uplink of a relay.  Who holds the retry is counted.                 *)

Bit(b) == IF b THEN 1 ELSE 0

\* The events whose handler starts a retry.
Begins(kind) == IF kind \in {"start", "disconnected"} THEN 1 ELSE 0
Starting(s) == {i \in DOMAIN s : s[i] \in {"start", "disconnected"}}
Starts(s) == Cardinality(Starting(s))

LEMMA StartingFinite ==
    ASSUME NEW s \in Seq(Wifi!Kinds)
    PROVE  IsFiniteSet(Starting(s)) /\ Starts(s) \in Nat /\ Starting(s) \subseteq 1..Len(s)
<1>1. Starting(s) \subseteq 1..Len(s)
  BY DEF Starting
<1>2. IsFiniteSet(1..Len(s))
  BY FS_Interval
<1> QED BY <1>1, <1>2, FS_Subset, FS_CardinalityType DEF Starts

LEMMA AddZero == \A n \in Nat : n + 0 = n
  OBVIOUS

\* An event posted, and one delivered.
LEMMA StartsPosted ==
    ASSUME NEW s \in Seq(Wifi!Kinds), NEW kind \in Wifi!Kinds
    PROVE  Starts(Append(s, kind)) = Starts(s) + Begins(kind)
<1> DEFINE n == Len(s) + 1
           more == Append(s, kind)
<1>1. n \in Nat /\ n \notin 1..Len(s) /\ more \in Seq(Wifi!Kinds) /\ Len(more) = n
      /\ more[n] = kind /\ \A i \in 1..Len(s) : more[i] = s[i]
  BY AppendProperties
<1>2. CASE kind \in {"start", "disconnected"}
  <2>1. Starting(more) = Starting(s) \cup {n}
    BY <1>1, <1>2 DEF Starting
  <2>2. n \notin Starting(s)
    BY <1>1, StartingFinite
  <2> QED BY <1>2, <2>1, <2>2, StartingFinite, FS_AddElement DEF Starts, Begins
<1>3. CASE kind \notin {"start", "disconnected"}
  <2>1. Starting(more) = Starting(s)
    BY <1>1, <1>3 DEF Starting
  <2> QED BY <1>3, <2>1, StartingFinite DEF Starts, Begins
<1> QED BY <1>2, <1>3

LEMMA StartsDelivered ==
    ASSUME NEW s \in Seq(Wifi!Kinds), s # <<>>
    PROVE  Starts(s) = Starts(Tail(s)) + Begins(Head(s))
<1> DEFINE rest == Tail(s)
           moved == {i + 1 : i \in Starting(rest)}
<1>1. rest \in Seq(Wifi!Kinds) /\ Len(s) \in Nat /\ Len(rest) = Len(s) - 1 /\ Len(s) > 0
      /\ Head(s) = s[1] /\ \A i \in 1..Len(rest) : rest[i] = s[i + 1]
  BY HeadTailProperties, EmptySeq
<1>a. IsFiniteSet(Starting(rest)) /\ Starting(rest) \subseteq 1..Len(rest)
  <2> HIDE DEF rest
  <2> QED BY <1>1, StartingFinite
<1>b. Starting(rest) \subseteq Nat \ {0}
  <2> HIDE DEF rest
  <2> QED BY <1>1, <1>a
<1>2. IsFiniteSet(moved) /\ Cardinality(moved) = Starts(rest)
  <2> DEFINE f == [i \in Starting(rest) |-> i + 1]
  <2>1. Starting(rest) \subseteq Nat
    BY <1>b
  <2>2. f \in Bijection(Starting(rest), moved)
    BY <2>1 DEF Bijection, Injection, Surjection, IsInjective
  <2>3. ExistsBijection(Starting(rest), moved)
    BY <2>2 DEF ExistsBijection
  <2> QED BY <1>1, <2>3, StartingFinite, FS_Bijection DEF Starts
<1>3. 1 \notin moved
  BY <1>b
<1>4. CASE Head(s) \in {"start", "disconnected"}
  <2>1. Starting(s) = moved \cup {1}
    <3>1. ASSUME NEW i \in Starting(s) PROVE i \in moved \cup {1}
      <4>1. i \in 1..Len(s) /\ s[i] \in {"start", "disconnected"}
        BY DEF Starting
      <4>2. CASE i # 1
        <5>1. i - 1 \in 1..Len(rest) /\ rest[i - 1] = s[i] /\ i = (i - 1) + 1
          BY <1>1, <4>1, <4>2
        <5>2. i - 1 \in Starting(rest)
          BY <1>1, <4>1, <5>1 DEF Starting
        <5> QED BY <5>1, <5>2
      <4> QED BY <4>2
    <3>2. ASSUME NEW i \in Starting(rest) PROVE i + 1 \in Starting(s)
      <4>1. i \in 1..Len(rest) /\ rest[i] \in {"start", "disconnected"}
        BY <1>1 DEF Starting
      <4> QED BY <1>1, <4>1 DEF Starting
    <3>3. 1 \in Starting(s)
      BY <1>1, <1>4 DEF Starting
    <3> QED BY <3>1, <3>2, <3>3
  <2>2. Cardinality(moved \cup {1}) = Cardinality(moved) + 1
    <3> HIDE DEF moved
    <3> QED BY <1>2, <1>3, FS_AddElement
  <2>3. Starts(s) = Starts(rest) + 1
    BY <1>2, <2>1, <2>2 DEF Starts
  <2> QED BY <1>4, <2>3 DEF Begins
<1>5. CASE Head(s) \notin {"start", "disconnected"}
  <2>1. Starting(s) = moved
    <3>1. ASSUME NEW i \in Starting(s) PROVE i \in moved
      <4>1. i \in 1..Len(s) /\ s[i] \in {"start", "disconnected"}
        BY DEF Starting
      <4>2. i # 1
        BY <1>1, <1>5, <4>1
      <4>3. i - 1 \in 1..Len(rest) /\ rest[i - 1] = s[i] /\ i = (i - 1) + 1
        BY <1>1, <4>1, <4>2
      <4>4. i - 1 \in Starting(rest)
        BY <1>1, <4>1, <4>3 DEF Starting
      <4> QED BY <4>3, <4>4
    <3>2. ASSUME NEW i \in Starting(rest) PROVE i + 1 \in Starting(s)
      <4>1. i \in 1..Len(rest) /\ rest[i] \in {"start", "disconnected"}
        BY <1>1 DEF Starting
      <4> QED BY <1>1, <4>1 DEF Starting
    <3> QED BY <3>1, <3>2
  <2>2. Starts(s) = Starts(rest)
    BY <1>2, <2>1 DEF Starts
  <2>3. Starts(rest) \in Nat
    BY <1>1, StartingFinite
  <2> QED BY <1>5, <2>2, <2>3 DEF Begins
<1> QED BY <1>4, <1>5

LEMMA SomeStart ==
    ASSUME NEW s \in Seq(Wifi!Kinds), NEW i \in 1..Len(s), s[i] \in {"start", "disconnected"}
    PROVE  Starts(s) >= 1
<1>1. i \in Starting(s)
  BY DEF Starting
<1> QED BY <1>1, StartingFinite, FS_EmptySet DEF Starts

\* A set that a holder may belong to.
Only(b, x) == IF b THEN {x} ELSE {}

LEMMA OneMore ==
    ASSUME NEW S, IsFiniteSet(S), NEW x, x \notin S, NEW b
    PROVE  /\ IsFiniteSet(S \cup Only(b, x))
           /\ Cardinality(S \cup Only(b, x)) = Cardinality(S) + Bit(b)
<1>1. Cardinality(S) \in Nat
  BY FS_CardinalityType
<1>2. CASE b
  BY <1>2, FS_AddElement DEF Only, Bit
<1>3. CASE ~b
  <2>1. S \cup Only(b, x) = S
    BY <1>3 DEF Only
  <2>2. Bit(b) = 0
    BY <1>3 DEF Bit
  <2>3. Cardinality(S) + 0 = Cardinality(S)
    BY <1>1
  <2> QED BY <2>1, <2>2, <2>3, Zenon
<1> QED BY <1>2, <1>3

\* The retries, one holder at a time.
Holders ==
    Bit(sta # "idle") + Bit(timer) + Bit(notified) + Bit(pc # "wait") + Starts(events)

RetriesAreHolders == Wifi!Retries = Holders

LEMMA HoldersAre == RetriesAreHolders
<1> DEFINE H1 == {} \cup Only(sta # "idle", "driver")
           H2 == H1 \cup Only(timer, "timer")
           H3 == H2 \cup Only(notified, "notification")
           H4 == H3 \cup Only(pc # "wait", "task")
<1>1. {h \in DOMAIN Wifi!Held : Wifi!Held[h]} = H4
  <2>1. DOMAIN Wifi!Held = {"driver", "timer", "notification", "task"}
    BY DEF Wifi!Held
  <2>2. /\ Wifi!Held["driver"] = (sta # "idle") /\ Wifi!Held["timer"] = timer
        /\ Wifi!Held["notification"] = notified /\ Wifi!Held["task"] = (pc # "wait")
    BY DEF Wifi!Held
  <2> QED BY <2>1, <2>2, Zenon DEF Only
<1>2. "driver" \notin {} /\ "timer" \notin H1 /\ "notification" \notin H2 /\ "task" \notin H3
  BY DEF Only
<1>3. IsFiniteSet({}) /\ Cardinality({}) = 0
  BY FS_EmptySet
<1>4. IsFiniteSet(H1) /\ Cardinality(H1) = 0 + Bit(sta # "idle")
  BY <1>2, <1>3, OneMore
<1> HIDE DEF H1
<1>5. IsFiniteSet(H2) /\ Cardinality(H2) = Cardinality(H1) + Bit(timer)
  BY <1>2, <1>4, OneMore
<1> HIDE DEF H2
<1>6. IsFiniteSet(H3) /\ Cardinality(H3) = Cardinality(H2) + Bit(notified)
  BY <1>2, <1>5, OneMore
<1> HIDE DEF H3
<1>7. Cardinality(H4) = Cardinality(H3) + Bit(pc # "wait")
  BY <1>2, <1>6, OneMore
<1>8. Wifi!Retries = Cardinality({h \in DOMAIN Wifi!Held : Wifi!Held[h]}) + Starts(events)
  BY DEF Wifi!Retries, Starts, Starting, Wifi!Cardinality, Cardinality
<1>9. 0 + Bit(sta # "idle") = Bit(sta # "idle")
  BY DEF Bit
<1> QED BY <1>1, <1>4, <1>5, <1>6, <1>7, <1>8, <1>9 DEF RetriesAreHolders, Holders

LEMMA HoldersWillBe == RetriesAreHolders'
  BY HoldersAre, PTL

\* The type invariant, one flag at a time.
ApTypes == apAddress \in BOOLEAN /\ apLostTimer \in BOOLEAN /\ mistaken \in BOOLEAN
RelayTypes ==
    /\ configured \in BOOLEAN /\ associated \in BOOLEAN /\ hasIp \in BOOLEAN
    /\ timer \in BOOLEAN /\ notified \in BOOLEAN /\ address \in BOOLEAN
    /\ dhcpc \in BOOLEAN /\ lostTimer \in BOOLEAN /\ refused \in BOOLEAN
    /\ calm \in BOOLEAN /\ ApTypes
    /\ pc \in {"wait", "check", "connect"}
    /\ sta \in {"idle", "connecting", "connected"}
    /\ events \in Seq(Wifi!Kinds) /\ Len(events) <= MaxEvents

\* A link that s_associated, or an event on its way to set it, tells of is up; or
\* the event that tells of its end is on its way, behind.  Without this the task
\* could meet s_associated set when it checks, and drop the retry it holds.
LinkIsHeld ==
    \A i \in 0..Len(events) :
        (IF i = 0 THEN associated ELSE events[i] = "connected") =>
            sta # "idle" \/ \E j \in (i + 1)..Len(events) : events[j] = "disconnected"

RelayInv == Relay => RelayTypes /\ LinkIsHeld /\ Wifi!OneRetry

\* A step of a relay is one of its uplink, and a node keeps its role.
LEMMA RelaySteps ==
    ASSUME Relay', [Next]_vars
    PROVE  Relay /\ (Wifi!Next \/ UNCHANGED Wifi!vars)
<1>1. CASE ClientStep
  BY <1>1 DEF ClientStep, Relay
<1>2. CASE RelayStep
  BY <1>2 DEF RelayStep, Relay
<1>3. CASE ScanStep \/ LogStep \/ HistoryStep \/ DnsStep \/ AddressesStep
  BY <1>3 DEF ScanStep, LogStep, HistoryStep, DnsStep, AddressesStep, Relay
<1>4. CASE UNCHANGED vars
  BY <1>4 DEF vars, uplinks, relay, Relay, Wifi!vars, Wifi!net, Wifi!other
<1> QED BY <1>1, <1>2, <1>3, <1>4 DEF Next

\* uplink_wifi_init() leaves one retry, in the event of the driver's start.
LEMMA RelayBegins == Init => RelayInv
<1> SUFFICES ASSUME Init, Relay PROVE RelayTypes /\ LinkIsHeld /\ Wifi!OneRetry
  BY DEF RelayInv
<1>1. Wifi!Init
  BY DEF Init, Relay
<1>2. events \in Seq(Wifi!Kinds) /\ Len(events) = 1 /\ events[1] = "start"
  BY <1>1 DEF Wifi!Init, Wifi!Kinds
<1>3. Len(events) <= MaxEvents
  BY <1>2, NodeAssumption DEF NodeAssumption, Wifi!WifiAssumption
<1>4. RelayTypes
  BY <1>1, <1>2, <1>3 DEF RelayTypes, ApTypes, Wifi!Init
<1>5. LinkIsHeld
  BY <1>1, <1>2 DEF LinkIsHeld, Wifi!Init
<1>6. Starts(events) = 1
  <2>1. Starting(events) = {1}
    BY <1>2 DEF Starting
  <2>2. Starting(events) = {} \cup {1}
    BY <2>1
  <2> QED BY <2>2, FS_EmptySet, FS_AddElement DEF Starts
<1>7. Wifi!Retries = 1
  BY <1>1, <1>6, HoldersAre DEF Wifi!Init, Bit, RetriesAreHolders, Holders
<1> QED BY <1>1, <1>4, <1>5, <1>7 DEF Wifi!OneRetry, Wifi!Init

\* What keeps LinkIsHeld: a step that posts and delivers nothing, one that posts,
\* and one that delivers.
LEMMA LinkUntouched ==
    ASSUME RelayTypes, LinkIsHeld, UNCHANGED <<associated, events>>,
           sta # "idle" => sta' # "idle"
    PROVE  LinkIsHeld'
  BY DEF LinkIsHeld

LEMMA LinkPosted ==
    ASSUME RelayTypes, LinkIsHeld, UNCHANGED associated,
           NEW kind \in Wifi!Kinds, events' = Append(events, kind),
           kind = "connected" => sta' # "idle",
           sta # "idle" => sta' # "idle" \/ kind = "disconnected"
    PROVE  LinkIsHeld'
<1> DEFINE n == Len(events)
<1>1. n \in Nat /\ Len(events') = n + 1 /\ events'[n + 1] = kind
      /\ \A i \in 1..n : events'[i] = events[i]
  BY AppendProperties DEF RelayTypes
<1> SUFFICES ASSUME NEW i \in 0..(n + 1),
                    IF i = 0 THEN associated' ELSE events'[i] = "connected",
                    sta' = "idle"
             PROVE  \E j \in (i + 1)..(n + 1) : events'[j] = "disconnected"
  BY <1>1 DEF LinkIsHeld
<1>2. i <= n
  BY <1>1
<1>3. IF i = 0 THEN associated ELSE events[i] = "connected"
  BY <1>1, <1>2
<1>4. CASE sta # "idle"
  BY <1>1, <1>2, <1>4
<1>5. CASE sta = "idle"
  <2>1. PICK j \in (i + 1)..n : events[j] = "disconnected"
    BY <1>1, <1>2, <1>3, <1>5 DEF LinkIsHeld
  <2> QED BY <1>1, <2>1
<1> QED BY <1>4, <1>5

LEMMA LinkDelivered ==
    ASSUME RelayTypes, LinkIsHeld, UNCHANGED sta, events # <<>>, events' = Tail(events),
           associated' => Head(events) = "connected"
                          \/ (associated /\ Head(events) # "disconnected")
    PROVE  LinkIsHeld'
<1> DEFINE n == Len(events)
<1>1. n \in Nat /\ n > 0 /\ Len(events') = n - 1 /\ Head(events) = events[1]
      /\ \A i \in 1..(n - 1) : events'[i] = events[i + 1]
  BY HeadTailProperties, EmptySeq DEF RelayTypes
<1> SUFFICES ASSUME NEW i \in 0..(n - 1),
                    IF i = 0 THEN associated' ELSE events'[i] = "connected",
                    sta = "idle"
             PROVE  \E j \in (i + 1)..(n - 1) : events'[j] = "disconnected"
  BY <1>1 DEF LinkIsHeld
<1>2. PICK j \in 1..n : j > i + 1 /\ events[j] = "disconnected"
  <2>1. CASE i = 0 /\ Head(events) # "connected"
    <3>1. PICK j \in 1..n : events[j] = "disconnected"
      BY <1>1, <2>1 DEF LinkIsHeld
    <3>2. j # 1
      BY <1>1, <2>1, <3>1
    <3> QED BY <1>1, <2>1, <3>1, <3>2
  <2>2. CASE i # 0 \/ Head(events) = "connected"
    <3>1. i + 1 \in 1..n /\ events[i + 1] = "connected"
      BY <1>1, <2>2
    <3> QED BY <1>1, <3>1 DEF LinkIsHeld
  <2> QED BY <2>1, <2>2
<1>3. j - 1 \in (i + 1)..(n - 1) /\ events'[j - 1] = events[j]
  BY <1>1, <1>2
<1> QED BY <1>2, <1>3

\* An event posted, and one delivered, with what they do to the count.
LEMMA PostingCounts ==
    ASSUME RelayTypes, NEW kind \in Wifi!Kinds, Wifi!Post(kind)
    PROVE  /\ events' = Append(events, kind)
           /\ events' \in Seq(Wifi!Kinds) /\ Len(events') <= MaxEvents
           /\ Starts(events') = Starts(events) + Begins(kind)
<1>1. events \in Seq(Wifi!Kinds) /\ Len(events) < MaxEvents /\ events' = Append(events, kind)
  BY DEF RelayTypes, Wifi!Post
<1>2. MaxEvents \in Nat
  BY NodeAssumption DEF NodeAssumption, Wifi!WifiAssumption
<1>3. events' \in Seq(Wifi!Kinds) /\ Len(events') <= MaxEvents
  BY <1>1, <1>2
<1> QED BY <1>1, <1>3, StartsPosted

LEMMA DeliveryCounts ==
    ASSUME RelayTypes, NEW kind, Wifi!Handle(kind)
    PROVE  /\ events # <<>> /\ events' = Tail(events) /\ Head(events) = kind
           /\ events' \in Seq(Wifi!Kinds) /\ Len(events') <= MaxEvents
           /\ Starts(events) = Starts(events') + Begins(kind)
           /\ Starts(events') \in Nat
           /\ UNCHANGED <<configured, pc, sta, apAddress, apLostTimer, refused, calm>>
<1>1. /\ events \in Seq(Wifi!Kinds) /\ Len(events) <= MaxEvents
      /\ events # <<>> /\ events' = Tail(events) /\ Head(events) = kind
      /\ UNCHANGED <<configured, pc, sta, apAddress, apLostTimer, refused, calm>>
  BY DEF RelayTypes, Wifi!Handle, Wifi!other
<1>2. MaxEvents \in Nat
  BY NodeAssumption DEF NodeAssumption, Wifi!WifiAssumption
<1>3. events' \in Seq(Wifi!Kinds) /\ Len(events') <= MaxEvents
  BY <1>1, <1>2
<1> QED BY <1>1, <1>3, StartsDelivered, StartingFinite

\* The steps of wifi_reconnect_task(), and of the timer.
LEMMA TaskHandsOn ==
    ASSUME RelayTypes, LinkIsHeld, Holders = (IF refused THEN 0 ELSE 1),
           Wifi!Task \/ Wifi!TimerFires
    PROVE  RelayTypes' /\ LinkIsHeld' /\ Holders' = (IF refused' THEN 0 ELSE 1)
<1>0. Starts(events) \in Nat
  BY StartingFinite DEF RelayTypes
<1> DEFINE n == Starts(events)
<1> USE DEF Bit, Holders
<1>1. CASE Wifi!TakeNotify
  <2>1. /\ pc = "wait" /\ notified /\ notified' = FALSE /\ pc' = "check"
        /\ UNCHANGED <<configured, associated, hasIp, timer, sta, address, dhcpc, lostTimer,
                       apAddress, apLostTimer, mistaken, events, refused, calm>>
    BY <1>1 DEF Wifi!TakeNotify, Wifi!net, Wifi!other
  <2>2. RelayTypes'
    <3>1. ApTypes'
      BY <2>1 DEF RelayTypes, ApTypes
    <3> QED BY <2>1, <3>1 DEF RelayTypes
  <2>3. LinkIsHeld'
    BY <2>1, LinkUntouched
  <2> QED BY <1>0, <2>1, <2>2, <2>3
<1>2. CASE Wifi!Check
  <2>1. /\ pc = "check" /\ pc' = IF associated THEN "wait" ELSE "connect"
        /\ UNCHANGED <<configured, associated, hasIp, timer, notified, sta, address, dhcpc,
                       lostTimer, apAddress, apLostTimer, mistaken, events, refused, calm>>
    BY <1>2 DEF Wifi!Check, Wifi!net, Wifi!other
  <2>2. RelayTypes'
    BY <2>1 DEF RelayTypes, ApTypes
  <2>3. LinkIsHeld'
    BY <2>1, LinkUntouched
  <2>4. sta = "idle" /\ Starts(events) = 0
    BY <1>0, <2>1
  <2>5. ~associated
    <3> SUFFICES ASSUME associated PROVE FALSE
      OBVIOUS
    <3>1. PICK j \in 1..Len(events) : events[j] = "disconnected"
      BY <2>4 DEF LinkIsHeld, RelayTypes
    <3> QED BY <2>4, <3>1, SomeStart DEF RelayTypes
  <2> QED BY <1>0, <2>1, <2>2, <2>3, <2>5
<1>3. CASE Wifi!Connect
  <2>1. /\ pc = "connect" /\ pc' = "wait"
        /\ \/ (sta = "idle" /\ sta' = "connecting" /\ refused' = refused)
           \/ (refused' = TRUE /\ sta' = sta)
        /\ UNCHANGED <<configured, associated, hasIp, timer, notified, address, dhcpc,
                       lostTimer, apAddress, apLostTimer, mistaken, events, calm>>
    BY <1>3 DEF Wifi!Connect, Wifi!net, Wifi!other
  <2>2. RelayTypes'
    <3>1. ApTypes'
      BY <2>1 DEF RelayTypes, ApTypes
    <3> QED BY <2>1, <3>1 DEF RelayTypes
  <2>3. LinkIsHeld'
    BY <2>1, LinkUntouched
  <2> QED BY <1>0, <2>1, <2>2, <2>3
<1>4. CASE Wifi!TimerFires
  <2>1. /\ timer /\ timer' = FALSE /\ notified' = TRUE
        /\ UNCHANGED <<configured, associated, hasIp, pc, sta, address, dhcpc, lostTimer,
                       apAddress, apLostTimer, mistaken, events, refused, calm>>
    BY <1>4 DEF Wifi!TimerFires, Wifi!net, Wifi!other
  <2>2. RelayTypes'
    <3>1. ApTypes'
      BY <2>1 DEF RelayTypes, ApTypes
    <3> QED BY <2>1, <3>1 DEF RelayTypes
  <2>3. LinkIsHeld'
    BY <2>1, LinkUntouched
  <2> QED BY <1>0, <2>1, <2>2, <2>3
<1> QED BY <1>1, <1>2, <1>3, <1>4 DEF Wifi!Task

\* Those of the event loop.
LEMMA HandlersHandOn ==
    ASSUME RelayTypes, LinkIsHeld, Holders = (IF refused THEN 0 ELSE 1), Wifi!Deliver
    PROVE  RelayTypes' /\ LinkIsHeld' /\ Holders' = (IF refused' THEN 0 ELSE 1)
<1> USE DEF Holders
<1>1. CASE Wifi!OnStart
  <2>1. /\ Wifi!Handle("start") /\ notified' = TRUE
        /\ UNCHANGED <<associated, hasIp, timer, address, dhcpc, lostTimer, mistaken>>
    BY <1>1 DEF Wifi!OnStart, Wifi!net
  <2>d. /\ Starts(events) = Starts(events') + 1 /\ Starts(events') \in Nat
        /\ events # <<>> /\ events' = Tail(events)
        /\ events' \in Seq(Wifi!Kinds) /\ Len(events') <= MaxEvents
        /\ UNCHANGED <<configured, pc, sta, apAddress, apLostTimer, refused, calm>>
    BY <2>1, DeliveryCounts DEF Begins
  <2>2. RelayTypes'
    BY <2>1, <2>d DEF RelayTypes, ApTypes
  <2>3. LinkIsHeld'
    BY <2>1, <2>d, DeliveryCounts, LinkDelivered
  <2> QED BY <2>1, <2>2, <2>3, <2>d DEF Bit
<1>2. CASE Wifi!OnConnected
  <2>1. /\ Wifi!Handle("connected") /\ associated' = TRUE /\ dhcpc' = TRUE
        /\ UNCHANGED <<hasIp, timer, notified, address, lostTimer, mistaken>>
    BY <1>2 DEF Wifi!OnConnected
  <2>d. /\ Starts(events) = Starts(events') /\ Starts(events') \in Nat
        /\ events # <<>> /\ events' = Tail(events)
        /\ events' \in Seq(Wifi!Kinds) /\ Len(events') <= MaxEvents
        /\ UNCHANGED <<configured, pc, sta, apAddress, apLostTimer, refused, calm>>
    BY <2>1, DeliveryCounts DEF Begins
  <2>2. RelayTypes'
    BY <2>1, <2>d DEF RelayTypes, ApTypes
  <2>3. LinkIsHeld'
    BY <2>1, <2>d, DeliveryCounts, LinkDelivered
  <2> QED BY <2>1, <2>2, <2>3, <2>d DEF Bit
<1>3. CASE Wifi!OnDisconnected
  <2>1. /\ Wifi!Handle("disconnected") /\ associated' = FALSE /\ hasIp' = FALSE
        /\ timer' = TRUE /\ dhcpc' = FALSE /\ address' = FALSE
        /\ lostTimer' = (lostTimer \/ address) /\ notified' = notified /\ mistaken' = FALSE
    BY <1>3 DEF Wifi!OnDisconnected, Wifi!ScheduleReconnect
  <2>d. /\ Starts(events) = Starts(events') + 1 /\ Starts(events') \in Nat
        /\ events # <<>> /\ events' = Tail(events)
        /\ events' \in Seq(Wifi!Kinds) /\ Len(events') <= MaxEvents
        /\ UNCHANGED <<configured, pc, sta, apAddress, apLostTimer, refused, calm>>
    BY <2>1, DeliveryCounts DEF Begins
  <2>2. RelayTypes'
    BY <2>1, <2>d DEF RelayTypes, ApTypes
  <2>3. LinkIsHeld'
    BY <2>1, <2>d, DeliveryCounts, LinkDelivered
  <2> QED BY <2>1, <2>2, <2>3, <2>d DEF Bit
<1>4. CASE Wifi!OnGotIp
  <2>1. PICK kind \in {"got", "got other"} :
          /\ Wifi!Handle(kind) /\ Wifi!OwnNetif(kind)
          /\ mistaken' = (mistaken /\ kind # "got")
    BY <1>4 DEF Wifi!OnGotIp
  <2>2. hasIp' = (hasIp \/ kind = "got") /\ mistaken' \in BOOLEAN
        /\ UNCHANGED <<associated, timer, notified, address, dhcpc, lostTimer>>
    BY <1>4, <2>1 DEF Wifi!OnGotIp, Wifi!OwnNetif, Wifi!net, RelayTypes, ApTypes
  <2>a. Begins(kind) = 0
    BY <2>1 DEF Begins
  <2>d. /\ Starts(events) = Starts(events') /\ Starts(events') \in Nat
        /\ events # <<>> /\ events' = Tail(events)
        /\ events' \in Seq(Wifi!Kinds) /\ Len(events') <= MaxEvents
        /\ UNCHANGED <<configured, pc, sta, apAddress, apLostTimer, refused, calm>>
    <3>1. /\ Starts(events) = Starts(events') + Begins(kind) /\ Starts(events') \in Nat
          /\ events # <<>> /\ events' = Tail(events)
          /\ events' \in Seq(Wifi!Kinds) /\ Len(events') <= MaxEvents
          /\ UNCHANGED <<configured, pc, sta, apAddress, apLostTimer, refused, calm>>
      BY <2>1, DeliveryCounts
    <3>2. Starts(events') + 0 = Starts(events')
      BY <3>1, AddZero, Zenon
    <3>3. Starts(events) = Starts(events')
      BY <2>a, <3>1, <3>2, Zenon
    <3> QED BY <3>1, <3>3
  <2>3. RelayTypes'
    <3>1. ApTypes'
      BY <2>1, <2>2, <2>d DEF RelayTypes, ApTypes
    <3> QED BY <2>1, <2>2, <2>d, <3>1 DEF RelayTypes
  <2>4. LinkIsHeld'
    BY <2>1, <2>2, <2>d, DeliveryCounts, LinkDelivered
  <2> QED BY <2>1, <2>2, <2>3, <2>4, <2>d DEF Bit
<1>5. CASE Wifi!OnLostIp
  <2>1. PICK kind \in {"lost", "lost other"} :
          /\ Wifi!Handle(kind)
          /\ mistaken' = (kind = "lost other" /\ (hasIp \/ mistaken))
    BY <1>5 DEF Wifi!OnLostIp
  <2>2. hasIp' = FALSE /\ mistaken' \in BOOLEAN
        /\ UNCHANGED <<associated, timer, notified, address, dhcpc, lostTimer>>
    BY <1>5, <2>1 DEF Wifi!OnLostIp, Wifi!net
  <2>a. Begins(kind) = 0
    BY <2>1 DEF Begins
  <2>d. /\ Starts(events) = Starts(events') /\ Starts(events') \in Nat
        /\ events # <<>> /\ events' = Tail(events)
        /\ events' \in Seq(Wifi!Kinds) /\ Len(events') <= MaxEvents
        /\ UNCHANGED <<configured, pc, sta, apAddress, apLostTimer, refused, calm>>
    <3>1. /\ Starts(events) = Starts(events') + Begins(kind) /\ Starts(events') \in Nat
          /\ events # <<>> /\ events' = Tail(events)
          /\ events' \in Seq(Wifi!Kinds) /\ Len(events') <= MaxEvents
          /\ UNCHANGED <<configured, pc, sta, apAddress, apLostTimer, refused, calm>>
      BY <2>1, DeliveryCounts
    <3>2. Starts(events') + 0 = Starts(events')
      BY <3>1, AddZero, Zenon
    <3>3. Starts(events) = Starts(events')
      BY <2>a, <3>1, <3>2, Zenon
    <3> QED BY <3>1, <3>3
  <2>3. RelayTypes'
    <3>1. ApTypes'
      BY <2>1, <2>2, <2>d DEF RelayTypes, ApTypes
    <3> QED BY <2>1, <2>2, <2>d, <3>1 DEF RelayTypes
  <2>4. LinkIsHeld'
    BY <2>1, <2>2, <2>d, DeliveryCounts, LinkDelivered
  <2> QED BY <2>1, <2>2, <2>3, <2>4, <2>d DEF Bit
<1> QED BY <1>1, <1>2, <1>3, <1>4, <1>5 DEF Wifi!Deliver

\* A step that posts, if at all, an event that starts nothing, and leaves the driver
\* as it is, or joins.
Quiet ==
    /\ UNCHANGED <<configured, associated, hasIp, timer, notified, pc, mistaken, refused>>
    /\ (sta' = sta \/ (sta = "connecting" /\ sta' = "connected"))
    /\ address' \in BOOLEAN /\ dhcpc' \in BOOLEAN /\ lostTimer' \in BOOLEAN /\ calm' \in BOOLEAN
    /\ apAddress' \in BOOLEAN /\ apLostTimer' \in BOOLEAN
    /\ \/ events' = events
       \/ \E kind \in {"connected", "got", "lost", "got other", "lost other"} :
             Wifi!Post(kind) /\ (kind = "connected" => sta' = "connected")

LEMMA QuietSteps ==
    ASSUME RelayTypes, LinkIsHeld, Holders = (IF refused THEN 0 ELSE 1), Quiet
    PROVE  RelayTypes' /\ LinkIsHeld' /\ Holders' = (IF refused' THEN 0 ELSE 1)
<1>0. Starts(events) \in Nat
  BY StartingFinite DEF RelayTypes
<1> USE DEF Holders
<1>1. CASE events' = events
  <2>1. RelayTypes'
    BY <1>1 DEF RelayTypes, ApTypes, Quiet
  <2>2. LinkIsHeld'
    BY <1>1, LinkUntouched DEF Quiet
  <2> QED BY <1>0, <1>1, <2>1, <2>2 DEF Bit, Quiet
<1>2. CASE events' # events
  <2>1. PICK kind \in {"connected", "got", "lost", "got other", "lost other"} :
          Wifi!Post(kind) /\ (kind = "connected" => sta' = "connected")
    BY <1>2 DEF Quiet
  <2>2. kind \in Wifi!Kinds
    BY DEF Wifi!Kinds
  <2>3. /\ events' = Append(events, kind)
        /\ events' \in Seq(Wifi!Kinds) /\ Len(events') <= MaxEvents
        /\ Starts(events') = Starts(events) + Begins(kind)
    BY <2>1, <2>2, PostingCounts
  <2>4. Begins(kind) = 0
    BY DEF Begins
  <2>5. Starts(events') = Starts(events)
    <3>1. Starts(events) + 0 = Starts(events)
      BY <1>0, AddZero, Zenon
    <3> QED BY <2>3, <2>4, <3>1, Zenon
  <2>6. RelayTypes'
    BY <2>3 DEF RelayTypes, ApTypes, Quiet
  <2>7. LinkIsHeld'
    <3>1. UNCHANGED associated /\ (sta # "idle" => sta' # "idle")
          /\ (kind = "connected" => sta' # "idle")
      BY <2>1 DEF Quiet
    <3> QED BY <2>2, <2>3, <3>1, LinkPosted
  <2> QED BY <1>0, <2>5, <2>6, <2>7 DEF Bit, Quiet
<1> QED BY <1>1, <1>2

\* Those of the driver and the netif.
LEMMA DriverHandsOn ==
    ASSUME RelayTypes, LinkIsHeld, Holders = (IF refused THEN 0 ELSE 1), Wifi!Environment
    PROVE  RelayTypes' /\ LinkIsHeld' /\ Holders' = (IF refused' THEN 0 ELSE 1)
<1>0. Starts(events) \in Nat
  BY StartingFinite DEF RelayTypes
<1>k. Wifi!Kinds = {"start", "connected", "disconnected", "got", "lost", "got other",
                    "lost other"}
  BY DEF Wifi!Kinds
<1> USE DEF Holders
<1>1. CASE Wifi!Joins
  BY <1>1, QuietSteps DEF Wifi!Joins, Wifi!net, Wifi!other, RelayTypes, ApTypes, Quiet
<1>2. CASE Wifi!Drops
  <2>1. /\ sta # "idle" /\ sta' = "idle" /\ Wifi!Post("disconnected")
        /\ UNCHANGED <<configured, associated, hasIp, timer, notified, pc, address, dhcpc,
                       lostTimer, apAddress, apLostTimer, mistaken, refused, calm>>
    BY <1>2 DEF Wifi!Drops, Wifi!net, Wifi!other
  <2>2. "disconnected" \in Wifi!Kinds /\ Begins("disconnected") = 1
    BY <1>k DEF Begins
  <2>3. /\ events' = Append(events, "disconnected") /\ Starts(events') = Starts(events) + 1
        /\ events' \in Seq(Wifi!Kinds) /\ Len(events') <= MaxEvents
    BY <2>1, <2>2, PostingCounts
  <2>4. RelayTypes'
    BY <2>1, <2>3 DEF RelayTypes, ApTypes
  <2>5. LinkIsHeld'
    BY <2>1, <2>2, <2>3, LinkPosted
  <2> QED BY <1>0, <2>1, <2>3, <2>4, <2>5 DEF Bit
<1>3. CASE Wifi!LeaseArrives
  BY <1>3, QuietSteps DEF Wifi!LeaseArrives, Wifi!other, RelayTypes, ApTypes, Quiet
<1>4. CASE Wifi!LeaseExpires
  <2>1. /\ address' = FALSE /\ lostTimer' = TRUE
        /\ UNCHANGED <<configured, associated, hasIp, timer, notified, pc, sta, dhcpc, events,
                       apAddress, apLostTimer, mistaken, refused, calm>>
    BY <1>4 DEF Wifi!LeaseExpires, Wifi!other
  <2>2. Quiet
    BY <2>1 DEF RelayTypes, ApTypes, Quiet
  <2> QED BY <2>2, QuietSteps
<1>5. CASE Wifi!LostTimerFires
  <2>1. /\ lostTimer' = FALSE /\ (events' = events \/ Wifi!Post("lost"))
        /\ UNCHANGED <<configured, associated, hasIp, timer, notified, pc, sta, address, dhcpc,
                       apAddress, apLostTimer, mistaken, refused, calm>>
    BY <1>5 DEF Wifi!LostTimerFires, Wifi!other
  <2>2. Quiet
    BY <2>1 DEF RelayTypes, ApTypes, Quiet
  <2> QED BY <2>2, QuietSteps
<1>6. CASE Wifi!DownlinkComesUp
  <2>1. /\ Wifi!Post("got other") /\ apAddress' = TRUE
        /\ UNCHANGED <<configured, associated, hasIp, timer, notified, pc, sta, address, dhcpc,
                       lostTimer, apLostTimer, mistaken, refused, calm>>
    BY <1>6 DEF Wifi!DownlinkComesUp, Wifi!net
  <2>2. Quiet
    BY <2>1 DEF RelayTypes, ApTypes, Quiet
  <2> QED BY <2>2, QuietSteps
<1>7. CASE Wifi!DownlinkGoesDown
  <2>1. /\ apAddress' = FALSE /\ apLostTimer' = TRUE
        /\ UNCHANGED <<configured, associated, hasIp, timer, notified, pc, sta, address, dhcpc,
                       lostTimer, mistaken, events, refused, calm>>
    BY <1>7 DEF Wifi!DownlinkGoesDown, Wifi!net
  <2>2. Quiet
    BY <2>1 DEF RelayTypes, ApTypes, Quiet
  <2> QED BY <2>2, QuietSteps
<1>8. CASE Wifi!DownlinkLostTimerFires
  <2>1. /\ apLostTimer' = FALSE /\ (events' = events \/ Wifi!Post("lost other"))
        /\ UNCHANGED <<configured, associated, hasIp, timer, notified, pc, sta, address, dhcpc,
                       lostTimer, apAddress, mistaken, refused, calm>>
    BY <1>8 DEF Wifi!DownlinkLostTimerFires, Wifi!net
  <2>2. Quiet
    BY <2>1 DEF RelayTypes, ApTypes, Quiet
  <2> QED BY <2>2, QuietSteps
<1>9. CASE Wifi!Settle
  <2>1. /\ calm' = TRUE
        /\ UNCHANGED <<configured, associated, hasIp, timer, notified, pc, sta, address, dhcpc,
                       lostTimer, apAddress, apLostTimer, mistaken, events, refused>>
    BY <1>9 DEF Wifi!Settle, Wifi!net, Wifi!other
  <2>2. Quiet
    BY <2>1 DEF RelayTypes, ApTypes, Quiet
  <2> QED BY <2>2, QuietSteps
<1> QED BY <1>1, <1>2, <1>3, <1>4, <1>5, <1>6, <1>7, <1>8, <1>9 DEF Wifi!Environment

LEMMA RelayInvHolds == Spec => []RelayInv
<1>1. Init => RelayInv
  BY RelayBegins
<1>2. RelayInv /\ [Next]_vars => RelayInv'
  <2> SUFFICES ASSUME RelayInv, [Next]_vars, Relay'
               PROVE  RelayTypes' /\ LinkIsHeld' /\ Wifi!OneRetry'
    BY DEF RelayInv
  <2>1. /\ RelayTypes /\ LinkIsHeld /\ Wifi!OneRetry
        /\ Wifi!Next \/ UNCHANGED Wifi!vars
    BY RelaySteps DEF RelayInv
  <2>2. Holders = (IF refused THEN 0 ELSE 1)
    BY <2>1, HoldersAre DEF Wifi!OneRetry, RetriesAreHolders
  <2>3. CASE Wifi!Next
    <3>1. RelayTypes' /\ LinkIsHeld' /\ Holders' = (IF refused' THEN 0 ELSE 1)
      BY <2>1, <2>2, <2>3, TaskHandsOn, HandlersHandOn, DriverHandsOn DEF Wifi!Next
    <3> QED BY <3>1, HoldersWillBe DEF Wifi!OneRetry, RetriesAreHolders
  <2>4. CASE UNCHANGED Wifi!vars
    <3>1. RelayTypes' /\ LinkIsHeld' /\ Holders' = (IF refused' THEN 0 ELSE 1)
      BY <2>1, <2>2, <2>4, LinkUntouched
         DEF RelayTypes, ApTypes, Wifi!vars, Wifi!net, Wifi!other, Holders
    <3> QED BY <3>1, HoldersWillBe DEF Wifi!OneRetry, RetriesAreHolders
  <2> QED BY <2>1, <2>3, <2>4
<1> QED BY <1>1, <1>2, PTL DEF Spec

\* A relay has one retry on its way, never none and never two, for an event queue of
\* any length, whatever the access point, the driver and the DHCP server do; none
\* after the driver refused an attempt at once (uplink_wifi.c:66-158).
THEOREM RelayRetriesOnce == Spec => []OneRetry
<1>1. RelayInv => OneRetry
  BY DEF RelayInv, OneRetry
<1> QED BY <1>1, RelayInvHolds, PTL

-----------------------------------------------------------------------------
(* The scan.                                                               *)

Taken(n) == IF n < Capacity THEN n ELSE Capacity
Enough == Taken(Aps)

ScanTypes ==
    /\ generation \in Nat /\ args \in Nat /\ args <= generation
    /\ results \in Seq(Nat) /\ done \in BOOLEAN /\ late \in BOOLEAN
    /\ scanning = None \/ scanning \in [for : Nat, left : 0..Aps]
    /\ callback = None \/ callback \in [does : {"store", "signal"}, checked : Nat]
    /\ scanPc \in [Scan!Tasks -> Scan!Steps] /\ outcome \in [Scan!Tasks -> BOOLEAN]

\* The driver's scan was started with arguments it read then, and a callback that
\* passed its check is one of that scan.
CallbackOfScan ==
    /\ scanning # None => scanning.for <= args
    /\ callback # None => /\ scanning # None /\ scanning.for = callback.checked
                          /\ callback.does = "signal" => scanning.left = 0

\* A task between its start and the driver's answer holds the lock.
StarterHolds == \A t \in Scan!Tasks : scanPc[t] \in {"start", "call"} => lock = t

\* As long as nothing was written for a scan that was over: what is stored is of the
\* scan started last; of a scan of the driver that can still store, nothing it found
\* is missing; and what says that a scan is complete says it of a whole one.
OneScan == \A i \in DOMAIN results : results[i] = args
Underway == IF callback # None /\ callback.does = "store" THEN 1 ELSE 0
NothingMissed ==
    scanning # None /\ scanning.for = args /\ (callback # None \/ scanning.for = generation)
        => Len(results) >= Taken(Aps - scanning.left - Underway)
DoneIsWhole == done => Len(results) >= Enough
OutcomeIsWhole ==
    \A t \in Scan!Tasks :
        scanPc[t] \in {"finalize", "publish"} /\ outcome[t] /\ lock = t
            => Len(results) >= Enough
CacheIsWhole ==
    cache.complete => /\ Len(cache.results) >= Enough
                      /\ \A i, j \in DOMAIN cache.results : cache.results[i] = cache.results[j]
InTime == OneScan /\ NothingMissed /\ DoneIsWhole /\ OutcomeIsWhole /\ CacheIsWhole

ScanInv == ScanTypes /\ CallbackOfScan /\ StarterHolds /\ (~late => InTime)

LEMMA ScanConstants ==
    /\ Aps \in Nat \ {0} /\ Capacity \in Nat \ {0} /\ Enough \in Nat
    /\ None \notin Scan!Tasks /\ None \notin [for : Nat, left : Nat]
    /\ None \notin [does : {"store", "signal"}, checked : Nat]
  BY NodeAssumption DEF NodeAssumption, Scan!ScanAssumption, Scan!Tasks, Enough, Taken

LEMMA ScanBegins == Init => ScanInv
<1> SUFFICES ASSUME Init PROVE ScanInv
  OBVIOUS
<1>1. Scan!Init
  BY DEF Init
<1>2. ScanTypes
  <2>1. scanPc = [t \in Scan!Tasks |-> "idle"] /\ outcome = [t \in Scan!Tasks |-> FALSE]
    BY <1>1 DEF Scan!Init
  <2>2. scanPc \in [Scan!Tasks -> Scan!Steps] /\ outcome \in [Scan!Tasks -> BOOLEAN]
    BY <2>1 DEF Scan!Steps
  <2>3. /\ generation = 0 /\ args = 0 /\ results = <<>> /\ done = FALSE /\ late = FALSE
        /\ scanning = None /\ callback = None
    BY <1>1 DEF Scan!Init
  <2>4. results \in Seq(Nat) /\ 0 \in Nat /\ 0 <= 0
    BY <2>3
  <2>5. generation \in Nat /\ args \in Nat /\ args <= generation
    BY <2>3
  <2> QED BY <2>2, <2>3, <2>4, <2>5 DEF ScanTypes
<1>3. CallbackOfScan /\ StarterHolds
  BY <1>1 DEF Scan!Init, CallbackOfScan, StarterHolds
<1>4. OneScan /\ NothingMissed /\ DoneIsWhole
  BY <1>1 DEF Scan!Init, OneScan, NothingMissed, DoneIsWhole
<1>5. OutcomeIsWhole /\ CacheIsWhole
  BY <1>1 DEF Scan!Init, OutcomeIsWhole, CacheIsWhole
<1> QED BY <1>2, <1>3, <1>4, <1>5 DEF ScanInv, InTime

\* A step of a node is one of its scan, or leaves the scan alone.
LEMMA ScanSteps == [Next]_vars => Scan!Next \/ UNCHANGED scan
  BY DEF Next, ClientStep, RelayStep, ScanStep, LogStep, HistoryStep, DnsStep, AddressesStep, vars, scan

\* A task goes to its next step, and a task is given an outcome.
LEMMA GoesTo ==
    ASSUME ScanTypes, NEW t \in Scan!Tasks, NEW step \in Scan!Steps, Scan!Goto(t, step)
    PROVE  /\ scanPc' \in [Scan!Tasks -> Scan!Steps] /\ scanPc'[t] = step
           /\ \A u \in Scan!Tasks : u # t => scanPc'[u] = scanPc[u]
  BY DEF ScanTypes, Scan!Goto

LEMMA IsGiven ==
    ASSUME ScanTypes, NEW t \in Scan!Tasks, NEW b \in BOOLEAN,
           outcome' = [outcome EXCEPT ![t] = b]
    PROVE  /\ outcome' \in [Scan!Tasks -> BOOLEAN] /\ outcome'[t] = b
           /\ \A u \in Scan!Tasks : u # t => outcome'[u] = outcome[u]
  BY DEF ScanTypes

\* A step of a task that touches neither what was stored nor what the driver does:
\* it keeps the invariant if it gives nobody else the lock while one starts, and no
\* task a scan to finalise that is not whole.
TaskGoesOn(t) ==
    /\ UNCHANGED <<generation, results, args, cache, scanning, callback, late>>
    /\ done' \in BOOLEAN /\ (done' => done)
    /\ scanPc' \in [Scan!Tasks -> Scan!Steps] /\ outcome' \in [Scan!Tasks -> BOOLEAN]
    /\ \A u \in Scan!Tasks : u # t => scanPc'[u] = scanPc[u] /\ outcome'[u] = outcome[u]
    /\ \A u \in Scan!Tasks : lock = u /\ u # t => lock' = u
    /\ \A u \in Scan!Tasks : lock' = u /\ u # t => lock = u
    /\ scanPc'[t] \in {"start", "call"} => lock' = t
    /\ scanPc'[t] \in {"finalize", "publish"} /\ outcome'[t] /\ lock' = t
         => \/ done
            \/ scanPc[t] \in {"finalize", "publish"} /\ outcome[t] /\ lock = t

LEMMA TaskGoesOnSafely ==
    ASSUME ScanInv, NEW t \in Scan!Tasks, TaskGoesOn(t)
    PROVE  ScanInv'
<1>1. ScanTypes'
  BY DEF ScanInv, ScanTypes, TaskGoesOn
<1>2. CallbackOfScan'
  BY DEF ScanInv, CallbackOfScan, TaskGoesOn
<1>3. StarterHolds'
  BY DEF ScanInv, StarterHolds, TaskGoesOn
<1>4. ASSUME ~late' PROVE InTime'
  <2>1. InTime
    BY <1>4 DEF ScanInv, TaskGoesOn
  <2>2. OneScan' /\ NothingMissed' /\ CacheIsWhole'
    BY <2>1 DEF InTime, OneScan, NothingMissed, Underway, CacheIsWhole, TaskGoesOn
  <2>3. DoneIsWhole'
    BY <2>1 DEF InTime, DoneIsWhole, TaskGoesOn
  <2>4. OutcomeIsWhole'
    BY <2>1 DEF InTime, OutcomeIsWhole, DoneIsWhole, TaskGoesOn
  <2> QED BY <2>2, <2>3, <2>4 DEF InTime
<1> QED BY <1>1, <1>2, <1>3, <1>4 DEF ScanInv

\* The steps of that kind.
LEMMA TasksGoOn ==
    ASSUME ScanInv, NEW t \in Scan!Tasks,
           \/ Scan!TakeLock(t) \/ Scan!SubmitTimesOut(t) \/ Scan!Poll(t) \/ Scan!Check(t)
           \/ Scan!Give(t) \/ (t = Httpd /\ Scan!Get)
    PROVE  ScanInv'
<1>0. ScanTypes /\ done \in BOOLEAN /\ outcome \in [Scan!Tasks -> BOOLEAN]
      /\ {"start", "poll", "check", "idle", "finalize"} \subseteq Scan!Steps
  BY DEF ScanInv, ScanTypes, Scan!Steps
<1>1. CASE Scan!TakeLock(t)
  <2>1. /\ lock = None /\ lock' = t /\ Scan!Goto(t, "start")
        /\ UNCHANGED <<generation, results, args, cache, scanning, callback, late, done, outcome>>
    BY <1>1 DEF Scan!TakeLock, Scan!driver
  <2>2. TaskGoesOn(t)
    BY <1>0, <2>1, GoesTo, ScanConstants DEF TaskGoesOn
  <2> QED BY <2>2, TaskGoesOnSafely
<1>2. CASE Scan!SubmitTimesOut(t)
  <2>1. /\ outcome' = [outcome EXCEPT ![t] = FALSE] /\ Scan!Goto(t, "finalize")
        /\ UNCHANGED <<lock, generation, results, args, cache, scanning, callback, late, done>>
    BY <1>2 DEF Scan!SubmitTimesOut, Scan!job, Scan!driver
  <2>2. TaskGoesOn(t)
    BY <1>0, <2>1, GoesTo, IsGiven DEF TaskGoesOn
  <2> QED BY <2>2, TaskGoesOnSafely
<1>3. CASE Scan!Poll(t)
  <2>1. /\ Scan!Goto(t, IF running THEN "check" ELSE "idle")
        /\ UNCHANGED <<lock, generation, results, args, cache, scanning, callback, late, done,
                       outcome>>
    BY <1>3 DEF Scan!Poll, Scan!job, Scan!driver
  <2>2. PICK step \in {"check", "idle"} : Scan!Goto(t, step)
    BY <2>1
  <2>3. TaskGoesOn(t)
    BY <1>0, <2>1, <2>2, GoesTo DEF TaskGoesOn
  <2> QED BY <2>3, TaskGoesOnSafely
<1>4. CASE Scan!Check(t)
  <2>1. /\ Scan!Goto(t, IF Scan!EndsInTime THEN "finalize" ELSE Scan!Again(t))
        /\ outcome' = [outcome EXCEPT ![t] = done] /\ done' = FALSE
        /\ UNCHANGED <<lock, generation, results, args, cache, scanning, callback, late>>
    BY <1>4 DEF Scan!Check, Scan!job, Scan!driver
  <2>2. PICK step \in {"finalize", "poll", "idle"} : Scan!Goto(t, step)
    BY <2>1 DEF Scan!Again
  <2>3. /\ outcome' \in [Scan!Tasks -> BOOLEAN] /\ outcome'[t] = done
        /\ \A u \in Scan!Tasks : u # t => outcome'[u] = outcome[u]
    BY <1>0, <2>1, IsGiven
  <2>4. /\ scanPc' \in [Scan!Tasks -> Scan!Steps] /\ scanPc'[t] = step
        /\ \A u \in Scan!Tasks : u # t => scanPc'[u] = scanPc[u]
    BY <1>0, <2>2, GoesTo
  <2>5. TaskGoesOn(t)
    BY <1>0, <2>1, <2>3, <2>4 DEF TaskGoesOn
  <2> QED BY <2>5, TaskGoesOnSafely
<1>5. CASE Scan!Give(t)
  <2>1. /\ Scan!Goto(t, "idle")
        /\ panic' = (lock \notin {t, None}) /\ lock' = IF panic' THEN lock ELSE None
        /\ UNCHANGED <<generation, results, args, cache, scanning, callback, late, done, outcome>>
    BY <1>5 DEF Scan!Give, Scan!driver
  <2>2. \A u \in Scan!Tasks : u # t => (lock = u => lock' = u) /\ (lock' = u => lock = u)
    BY <2>1, ScanConstants
  <2>3. TaskGoesOn(t)
    BY <1>0, <2>1, <2>2, GoesTo DEF TaskGoesOn
  <2> QED BY <2>3, TaskGoesOnSafely
<1>6. CASE t = Httpd /\ Scan!Get
  <2>1. /\ Scan!Goto(t, "poll")
        /\ UNCHANGED <<lock, generation, results, args, cache, scanning, callback, late, done,
                       outcome>>
    BY <1>6 DEF Scan!Get, Scan!job, Scan!driver
  <2>2. TaskGoesOn(t)
    BY <1>0, <2>1, GoesTo DEF TaskGoesOn
  <2> QED BY <2>2, TaskGoesOnSafely
<1> QED BY <1>1, <1>2, <1>3, <1>4, <1>5, <1>6

\* A scan starts: what is stored of others is dropped, and what the driver has to
\* call back for is of an earlier generation.
LEMMA SubmitStartsAfresh ==
    ASSUME ScanInv, NEW t \in Scan!Tasks, Scan!Submit(t)
    PROVE  ScanInv'
<1>0. ScanTypes
  BY DEF ScanInv
<1>1. /\ scanPc[t] = "start" /\ lock = t
      /\ generation' = generation + 1 /\ args' = generation + 1
      /\ results' = <<>> /\ done' = FALSE
      /\ UNCHANGED <<lock, cache, scanning, callback, late>>
  BY DEF Scan!Submit, ScanInv, StarterHolds
<1>2. /\ scanPc' \in [Scan!Tasks -> Scan!Steps] /\ scanPc'[t] \in {"call", "finalize"}
      /\ outcome' \in [Scan!Tasks -> BOOLEAN] /\ (scanPc'[t] = "finalize" => ~outcome'[t])
      /\ \A u \in Scan!Tasks : u # t => scanPc'[u] = scanPc[u] /\ outcome'[u] = outcome[u]
  <2>1. "call" \in Scan!Steps /\ "finalize" \in Scan!Steps
    BY DEF Scan!Steps
  <2>2. CASE scanRequests < ScanQueueDepth
    <3>1. Scan!Goto(t, "call") /\ UNCHANGED outcome
      BY <2>2 DEF Scan!Submit
    <3> QED BY <1>0, <2>1, <3>1, GoesTo DEF ScanTypes
  <2>3. CASE ~(scanRequests < ScanQueueDepth)
    <3>1. Scan!Goto(t, "finalize") /\ outcome' = [outcome EXCEPT ![t] = FALSE]
      BY <2>3 DEF Scan!Submit
    <3> QED BY <1>0, <2>1, <3>1, GoesTo, IsGiven
  <2> QED BY <2>2, <2>3
<1>3. generation \in Nat /\ args \in Nat /\ args <= generation
  BY <1>0 DEF ScanTypes
<1>4. ScanTypes'
  <2>1. results' \in Seq(Nat)
    BY <1>1
  <2>2. generation' \in Nat /\ args' \in Nat /\ args' <= generation'
    BY <1>1, <1>3
  <2> QED BY <1>0, <1>1, <1>2, <2>1, <2>2 DEF ScanTypes
<1>5. scanning # None => scanning.for \in Nat /\ scanning.for < args'
  BY <1>0, <1>1, <1>3 DEF ScanInv, ScanTypes, CallbackOfScan
<1>6. CallbackOfScan'
  <2>1. scanning # None => scanning.for <= args'
    BY <1>1, <1>3, <1>5
  <2> QED BY <1>1, <2>1 DEF ScanInv, CallbackOfScan
<1>7. StarterHolds'
  BY <1>1, <1>2 DEF ScanInv, StarterHolds
<1>8. ASSUME ~late' PROVE InTime'
  <2>1. InTime
    BY <1>1, <1>8 DEF ScanInv
  <2>2. OneScan' /\ DoneIsWhole' /\ CacheIsWhole'
    BY <1>1, <2>1 DEF InTime, OneScan, DoneIsWhole, CacheIsWhole
  <2>3. NothingMissed'
    BY <1>1, <1>3, <1>5 DEF NothingMissed
  <2>4. OutcomeIsWhole'
    BY <1>1, <1>2 DEF OutcomeIsWhole
  <2> QED BY <2>2, <2>3, <2>4 DEF InTime
<1> QED BY <1>4, <1>6, <1>7, <1>8 DEF ScanInv

\* The owner task passes a request to the driver, which has nothing to call back for.
LEMMA RunRequestStores ==
    ASSUME ScanInv, Scan!RunRequest
    PROVE  ScanInv'
<1>0. ScanTypes
  BY DEF ScanInv
<1>1. UNCHANGED <<lock, args, cache, generation, results, done, callback, late>>
  BY DEF Scan!RunRequest
<1>2. PICK accepted \in {scanning = None, FALSE} :
        /\ scanning' = IF accepted THEN [for |-> args, left |-> Aps] ELSE scanning
        /\ scanPc' = [t \in Scan!Tasks |->
                        IF t \notin Scan!Waiting THEN scanPc[t]
                        ELSE IF accepted THEN Scan!Again(t) ELSE "finalize"]
        /\ outcome' = [t \in Scan!Tasks |-> outcome[t] /\ t \notin Scan!Waiting]
  BY Zenon DEF Scan!RunRequest
<1>3. \/ scanning = None /\ callback = None /\ scanning' = [for |-> args, left |-> Aps]
      \/ scanning' = scanning
  BY <1>2 DEF ScanInv, CallbackOfScan
<1>4. /\ scanPc' \in [Scan!Tasks -> Scan!Steps] /\ outcome' \in [Scan!Tasks -> BOOLEAN]
      /\ \A t \in Scan!Tasks :
            /\ scanPc'[t] \in {"start", "call"} => scanPc[t] \in {"start", "call"}
            /\ scanPc'[t] \in {"finalize", "publish"} /\ outcome'[t]
                 => scanPc[t] \in {"finalize", "publish"} /\ outcome[t]
  <2>1. ASSUME NEW t \in Scan!Tasks
        PROVE  /\ scanPc'[t] \in Scan!Steps /\ outcome'[t] \in BOOLEAN
               /\ scanPc'[t] \in {"start", "call"} => scanPc[t] \in {"start", "call"}
               /\ scanPc'[t] \in {"finalize", "publish"} /\ outcome'[t]
                    => scanPc[t] \in {"finalize", "publish"} /\ outcome[t]
    <3>1. scanPc'[t] = IF t \notin Scan!Waiting THEN scanPc[t]
                       ELSE IF accepted THEN Scan!Again(t) ELSE "finalize"
      BY <1>2
    <3>2. outcome'[t] = (outcome[t] /\ t \notin Scan!Waiting)
      BY <1>2
    <3>3. scanPc[t] \in Scan!Steps /\ outcome[t] \in BOOLEAN
      BY <1>0 DEF ScanTypes
    <3>4. CASE t \in Scan!Waiting
      BY <3>1, <3>2, <3>4 DEF Scan!Again, Scan!Steps
    <3>5. CASE t \notin Scan!Waiting
      <4>1. scanPc'[t] = scanPc[t] /\ outcome'[t] = outcome[t]
        BY <3>1, <3>2, <3>3, <3>5
      <4> QED BY <3>3, <4>1
    <3> QED BY <3>4, <3>5
  <2>2. /\ scanPc' = [t \in Scan!Tasks |-> scanPc'[t]]
        /\ outcome' = [t \in Scan!Tasks |-> outcome'[t]]
    BY <1>2
  <2> QED BY <2>1, <2>2
<1>5. generation \in Nat /\ args \in Nat /\ args <= generation
  BY <1>0 DEF ScanTypes
<1>6. ScanTypes'
  BY <1>0, <1>1, <1>3, <1>4, <1>5, ScanConstants DEF ScanTypes
<1>7. CallbackOfScan'
  BY <1>1, <1>3, <1>5 DEF ScanInv, CallbackOfScan
<1>8. StarterHolds'
  BY <1>1, <1>4 DEF ScanInv, StarterHolds
<1>9. ASSUME ~late' PROVE InTime'
  <2>1. InTime
    BY <1>1, <1>9 DEF ScanInv
  <2>2. OneScan' /\ DoneIsWhole' /\ CacheIsWhole'
    BY <1>1, <2>1 DEF InTime, OneScan, DoneIsWhole, CacheIsWhole
  <2>3. NothingMissed'
    <3>1. CASE scanning' = scanning
      BY <1>1, <2>1, <3>1 DEF InTime, NothingMissed, Underway
    <3>2. CASE callback = None /\ scanning' = [for |-> args, left |-> Aps]
      <4>1. Len(results) \in Nat
        BY <1>0 DEF ScanTypes
      <4>2. Taken(Aps - scanning'.left - 0) = 0
        BY <3>2, ScanConstants DEF Taken
      <4>3. Underway' = 0
        BY <1>1, <3>2 DEF Underway
      <4> QED BY <1>1, <4>1, <4>2, <4>3 DEF NothingMissed
    <3> QED BY <1>3, <3>1, <3>2
  <2>4. OutcomeIsWhole'
    BY <1>1, <1>4, <2>1 DEF InTime, OutcomeIsWhole
  <2> QED BY <2>2, <2>3, <2>4 DEF InTime
<1> QED BY <1>6, <1>7, <1>8, <1>9 DEF ScanInv

\* The first half of finalize_scan(): what the driver has left is of a generation
\* that is over.
LEMMA RetireStaysWhole ==
    ASSUME ScanInv, NEW t \in Scan!Tasks, Scan!Retire(t)
    PROVE  ScanInv'
<1>0. ScanTypes /\ generation \in Nat /\ args \in Nat /\ args <= generation
  BY DEF ScanInv, ScanTypes
<1>1. /\ scanPc[t] = "finalize" /\ generation' = generation + 1 /\ Scan!Goto(t, "publish")
      /\ UNCHANGED <<lock, args, cache, results, done, scanning, callback, outcome, late>>
  BY DEF Scan!Retire, Scan!job, Scan!driver
<1>2. /\ scanPc' \in [Scan!Tasks -> Scan!Steps] /\ scanPc'[t] = "publish"
      /\ \A u \in Scan!Tasks : u # t => scanPc'[u] = scanPc[u]
  <2>1. "publish" \in Scan!Steps
    BY DEF Scan!Steps
  <2> QED BY <1>0, <1>1, <2>1, GoesTo
<1>3. ScanTypes'
  <2>1. generation' \in Nat /\ args' <= generation'
    BY <1>0, <1>1
  <2> QED BY <1>0, <1>1, <1>2, <2>1 DEF ScanTypes
<1>4. CallbackOfScan'
  BY <1>1 DEF ScanInv, CallbackOfScan
<1>5. StarterHolds'
  BY <1>1, <1>2 DEF ScanInv, StarterHolds
<1>6. ASSUME ~late' PROVE InTime'
  <2>1. InTime
    BY <1>1, <1>6 DEF ScanInv
  <2>2. OneScan' /\ DoneIsWhole' /\ CacheIsWhole'
    BY <1>1, <2>1 DEF InTime, OneScan, DoneIsWhole, CacheIsWhole
  <2>3. NothingMissed'
    <3>1. args # generation'
      BY <1>0, <1>1
    <3>2. Underway' = Underway
      BY <1>1 DEF Underway
    <3> QED BY <1>1, <2>1, <3>1, <3>2 DEF InTime, NothingMissed
  <2>4. OutcomeIsWhole'
    BY <1>1, <1>2, <2>1 DEF InTime, OutcomeIsWhole
  <2> QED BY <2>2, <2>3, <2>4 DEF InTime
<1> QED BY <1>3, <1>4, <1>5, <1>6 DEF ScanInv

\* The second half: the holder of the lock publishes what is stored, of one scan, and
\* whole if it says so.
LEMMA PublishIsWhole ==
    ASSUME ScanInv, NEW t \in Scan!Tasks, Scan!Publish(t)
    PROVE  ScanInv'
<1>0. ScanTypes
  BY DEF ScanInv
<1>1. /\ scanPc[t] = "publish" /\ cache' = [complete |-> outcome[t], results |-> results]
      /\ Scan!Goto(t, "give") /\ late' = (late \/ lock # t)
      /\ UNCHANGED <<lock, args, generation, results, done, scanning, callback, outcome>>
  BY DEF Scan!Publish, Scan!driver
<1>2. /\ scanPc' \in [Scan!Tasks -> Scan!Steps] /\ scanPc'[t] = "give"
      /\ \A u \in Scan!Tasks : u # t => scanPc'[u] = scanPc[u]
  <2>1. "give" \in Scan!Steps
    BY DEF Scan!Steps
  <2> QED BY <1>0, <1>1, <2>1, GoesTo
<1>3. ScanTypes'
  <2>1. late' \in BOOLEAN
    BY <1>1
  <2> QED BY <1>0, <1>1, <1>2, <2>1 DEF ScanTypes
<1>4. CallbackOfScan'
  BY <1>1 DEF ScanInv, CallbackOfScan
<1>5. StarterHolds'
  BY <1>1, <1>2 DEF ScanInv, StarterHolds
<1>6. ASSUME ~late' PROVE InTime'
  <2>1. InTime /\ lock = t
    BY <1>1, <1>6 DEF ScanInv
  <2>2. OneScan' /\ DoneIsWhole' /\ NothingMissed'
    BY <1>1, <2>1 DEF InTime, OneScan, DoneIsWhole, NothingMissed, Underway
  <2>3. OutcomeIsWhole'
    BY <1>1, <1>2, <2>1 DEF InTime, OutcomeIsWhole
  <2>4. CacheIsWhole'
    <3>1. outcome[t] => Len(results) >= Enough
      BY <1>1, <2>1 DEF InTime, OutcomeIsWhole
    <3>2. \A i, j \in DOMAIN results : results[i] = results[j]
      BY <2>1 DEF InTime, OneScan
    <3> QED BY <1>1, <3>1, <3>2 DEF CacheIsWhole
  <2> QED BY <2>2, <2>3, <2>4 DEF InTime
<1> QED BY <1>3, <1>4, <1>5, <1>6 DEF ScanInv

\* The driver reaches its next access point, or its end, and a callback passes its
\* check if the scan is of the current generation.
LEMMA CallBackMissesNothing ==
    ASSUME ScanInv, Scan!CallBack
    PROVE  ScanInv'
<1>0. ScanTypes
  BY DEF ScanInv
<1>1. /\ scanning # None /\ callback = None
      /\ UNCHANGED <<lock, args, cache, generation, results, done, scanPc, outcome, late>>
  BY DEF Scan!CallBack, Scan!job
<1>2. /\ scanning \in [for : Nat, left : 0..Aps] /\ scanning.for <= args
      /\ args \in Nat /\ generation \in Nat /\ args <= generation
  BY <1>1 DEF ScanInv, ScanTypes, CallbackOfScan
<1>3. \/ /\ scanning.left > 0 /\ scanning.for = generation
         /\ callback' = [does |-> "store", checked |-> generation]
         /\ scanning' = [scanning EXCEPT !.left = @ - 1]
      \/ /\ scanning.left > 0 /\ scanning.for # generation
         /\ callback' = None
         /\ scanning' = [scanning EXCEPT !.left = @ - 1]
      \/ /\ scanning.left = 0 /\ scanning.for = generation
         /\ callback' = [does |-> "signal", checked |-> generation]
         /\ scanning' = scanning
      \/ /\ scanning.left = 0 /\ scanning.for # generation
         /\ callback' = None /\ scanning' = None
  BY <1>2 DEF Scan!CallBack, Scan!OwnGeneration
<1>4. \/ scanning' = None
      \/ /\ scanning' \in [for : Nat, left : 0..Aps] /\ scanning' # None
         /\ scanning'.for = scanning.for
         /\ scanning'.left = (IF scanning.left > 0 THEN scanning.left - 1 ELSE 0)
  <2>1. CASE scanning' = [scanning EXCEPT !.left = @ - 1] /\ scanning.left > 0
    <3>1. scanning' \in [for : Nat, left : 0..Aps]
      BY <1>2, <2>1, ScanConstants
    <3>2. scanning' # None
      BY <3>1, ScanConstants
    <3> QED BY <1>2, <2>1, <3>1, <3>2
  <2>2. CASE scanning' = scanning /\ scanning.left = 0
    BY <1>1, <1>2, <2>2
  <2> QED BY <1>3, <2>1, <2>2
<1>5. /\ callback' = None \/ callback' \in [does : {"store", "signal"}, checked : Nat]
      /\ callback' # None => /\ scanning' # None /\ scanning'.for = callback'.checked
                             /\ scanning.for = generation /\ callback'.checked = generation
                             /\ callback'.does = "signal" => scanning'.left = 0
  <2>1. CASE callback' = None
    BY <2>1
  <2>2. CASE callback' = [does |-> "store", checked |-> generation] /\ scanning.for = generation
             /\ scanning' = [scanning EXCEPT !.left = @ - 1] /\ scanning.left > 0
    <3>1. scanning' \in [for : Nat, left : 0..Aps]
      BY <1>2, <2>2, ScanConstants
    <3>2. scanning' # None
      BY <3>1, ScanConstants
    <3>3. scanning'.for = scanning.for
      BY <1>2, <2>2
    <3> QED BY <1>2, <2>2, <3>2, <3>3
  <2>3. CASE callback' = [does |-> "signal", checked |-> generation] /\ scanning.for = generation
             /\ scanning' = scanning /\ scanning.left = 0
    BY <1>1, <1>2, <2>3
  <2> QED BY <1>3, <2>1, <2>2, <2>3
<1>6. ScanTypes'
  BY <1>0, <1>1, <1>4, <1>5 DEF ScanTypes
<1>7. CallbackOfScan'
  <2>1. scanning' # None => scanning'.for <= args'
    BY <1>1, <1>2, <1>4
  <2> QED BY <1>5, <2>1 DEF CallbackOfScan
<1>8. StarterHolds'
  BY <1>1 DEF ScanInv, StarterHolds
<1>9. ASSUME ~late' PROVE InTime'
  <2>1. InTime
    BY <1>1, <1>9 DEF ScanInv
  <2>2. OneScan' /\ DoneIsWhole' /\ OutcomeIsWhole' /\ CacheIsWhole'
    BY <1>1, <2>1 DEF InTime, OneScan, DoneIsWhole, OutcomeIsWhole, CacheIsWhole
  <2>3. NothingMissed'
    <3> SUFFICES ASSUME scanning' # None, scanning'.for = args,
                        callback' # None \/ scanning'.for = generation
                 PROVE  Len(results) >= Taken(Aps - scanning'.left - Underway')
      BY <1>1 DEF NothingMissed
    <3>1. scanning.for = args /\ scanning.for = generation
      BY <1>4, <1>5
    <3>2. Underway = 0
      BY <1>1 DEF Underway
    <3>3. Len(results) >= Taken(Aps - scanning.left - 0)
      BY <1>1, <2>1, <3>1, <3>2 DEF InTime, NothingMissed
    <3>4. CASE scanning.left > 0
      <4>1. callback' = [does |-> "store", checked |-> generation]
        BY <1>2, <1>3, <3>1, <3>4
      <4>2. callback' \in [does : {"store", "signal"}, checked : Nat]
        BY <1>2, <4>1
      <4>3. Underway' = 1
        BY <4>1, <4>2, ScanConstants DEF Underway
      <4>4. Aps - scanning'.left - 1 = Aps - scanning.left - 0
        BY <1>2, <1>4, <3>4, ScanConstants
      <4> QED BY <3>3, <4>3, <4>4
    <3>5. CASE scanning.left = 0
      <4>1. callback' = [does |-> "signal", checked |-> generation]
        BY <1>2, <1>3, <3>1, <3>5
      <4>2. Underway' = 0
        BY <4>1 DEF Underway
      <4>3. scanning'.left = scanning.left
        BY <1>2, <1>4, <3>5
      <4> QED BY <3>3, <4>2, <4>3
    <3> QED BY <1>2, <3>4, <3>5
  <2> QED BY <2>2, <2>3 DEF InTime
<1> QED BY <1>6, <1>7, <1>8, <1>9 DEF ScanInv

\* A result is stored, of the current generation unless the callback was preempted.
LEMMA StoreMissesNothing ==
    ASSUME ScanInv, Scan!Store
    PROVE  ScanInv'
<1>0. /\ ScanTypes /\ args \in Nat /\ generation \in Nat /\ args <= generation
      /\ results \in Seq(Nat) /\ Len(results) \in Nat
  BY DEF ScanInv, ScanTypes
<1>1. /\ callback # None /\ callback.does = "store" /\ callback' = None
      /\ results' = IF Len(results) < Capacity THEN Append(results, scanning.for) ELSE results
      /\ late' = (late \/ callback.checked # generation)
      /\ UNCHANGED <<lock, args, cache, generation, done, scanning, scanPc, outcome>>
  BY DEF Scan!Store, Scan!Doing, Scan!job
<1>2. /\ scanning # None /\ scanning \in [for : Nat, left : 0..Aps]
      /\ scanning.for = callback.checked /\ scanning.for <= args
  BY <1>1 DEF ScanInv, ScanTypes, CallbackOfScan
<1>3. /\ results' \in Seq(Nat) /\ Len(results') \in Nat /\ Len(results') >= Len(results)
      /\ Len(results') >= Taken(Len(results) + 1)
      /\ \A i \in DOMAIN results' : results'[i] = scanning.for
                                    \/ (i \in DOMAIN results /\ results'[i] = results[i])
  <2>1. CASE Len(results) < Capacity
    BY <1>0, <1>1, <1>2, <2>1, ScanConstants DEF Taken
  <2>2. CASE ~(Len(results) < Capacity)
    BY <1>0, <1>1, <2>2, ScanConstants DEF Taken
  <2> QED BY <2>1, <2>2
<1>4. ScanTypes'
  <2>1. late' \in BOOLEAN
    BY <1>1
  <2> QED BY <1>0, <1>1, <1>3, <2>1 DEF ScanTypes
<1>5. CallbackOfScan'
  BY <1>1, <1>2 DEF CallbackOfScan
<1>6. StarterHolds'
  BY <1>1 DEF ScanInv, StarterHolds
<1>7. ASSUME ~late' PROVE InTime'
  <2>1. InTime /\ scanning.for = generation
    BY <1>1, <1>2, <1>7 DEF ScanInv
  <2>2. scanning.for = args
    BY <1>0, <1>2, <2>1
  <2>3. OneScan'
    BY <1>1, <1>3, <2>1, <2>2 DEF InTime, OneScan
  <2>4. Enough \in Nat
    BY ScanConstants
  <2>5. DoneIsWhole' /\ OutcomeIsWhole' /\ CacheIsWhole'
    BY <1>0, <1>1, <1>3, <2>1, <2>4 DEF InTime, DoneIsWhole, OutcomeIsWhole, CacheIsWhole
  <2>6. NothingMissed'
    <3>1. Underway = 1 /\ Underway' = 0
      BY <1>1 DEF Underway
    <3>2. Len(results) >= Taken(Aps - scanning.left - 1)
      BY <1>2, <2>1, <2>2, <3>1 DEF InTime, NothingMissed
    <3>3. Len(results') >= Taken(Aps - scanning.left - 0)
      BY <1>0, <1>2, <1>3, <3>2, ScanConstants DEF Taken
    <3> QED BY <1>1, <3>1, <3>3 DEF NothingMissed
  <2> QED BY <2>3, <2>5, <2>6 DEF InTime
<1> QED BY <1>4, <1>5, <1>6, <1>7 DEF ScanInv

\* The completion is signalled, of the scan started last unless the callback was
\* preempted.
LEMMA SignalIsWhole ==
    ASSUME ScanInv, Scan!Signal
    PROVE  ScanInv'
<1>0. /\ ScanTypes /\ args \in Nat /\ generation \in Nat /\ args <= generation
  BY DEF ScanInv, ScanTypes
<1>1. /\ callback # None /\ callback.does = "signal" /\ callback' = None
      /\ done' = TRUE /\ scanning' = None
      /\ late' = (late \/ callback.checked < args)
      /\ UNCHANGED <<lock, args, cache, generation, results, scanPc, outcome>>
  BY DEF Scan!Signal, Scan!Doing, Scan!job
<1>2. /\ scanning # None /\ scanning \in [for : Nat, left : 0..Aps]
      /\ scanning.for = callback.checked /\ scanning.for <= args /\ scanning.left = 0
  BY <1>1 DEF ScanInv, ScanTypes, CallbackOfScan
<1>3. ScanTypes'
  <2>1. late' \in BOOLEAN
    BY <1>1
  <2> QED BY <1>0, <1>1, <2>1 DEF ScanTypes
<1>4. CallbackOfScan'
  BY <1>1 DEF CallbackOfScan
<1>5. StarterHolds'
  BY <1>1 DEF ScanInv, StarterHolds
<1>6. ASSUME ~late' PROVE InTime'
  <2>1. InTime /\ ~(callback.checked < args)
    BY <1>1, <1>6 DEF ScanInv
  <2>2. scanning.for = args
    BY <1>0, <1>2, <2>1
  <2>3. Underway = 0
    BY <1>1 DEF Underway
  <2>4. Len(results) >= Enough
    <3>1. Len(results) >= Taken(Aps - scanning.left - 0)
      BY <1>1, <1>2, <2>1, <2>2, <2>3 DEF InTime, NothingMissed
    <3>2. Aps - scanning.left - 0 = Aps
      BY <1>2, ScanConstants
    <3> QED BY <3>1, <3>2 DEF Enough
  <2>5. OneScan' /\ OutcomeIsWhole' /\ CacheIsWhole' /\ NothingMissed'
    BY <1>1, <2>1 DEF InTime, OneScan, OutcomeIsWhole, CacheIsWhole, NothingMissed
  <2>6. DoneIsWhole'
    BY <1>1, <2>4 DEF DoneIsWhole
  <2> QED BY <2>5, <2>6 DEF InTime
<1> QED BY <1>3, <1>4, <1>5, <1>6 DEF ScanInv

LEMMA ScanInvHolds == Spec => []ScanInv
<1>1. Init => ScanInv
  BY ScanBegins
<1>2. ScanInv /\ [Next]_vars => ScanInv'
  <2> SUFFICES ASSUME ScanInv, [Next]_vars PROVE ScanInv'
    OBVIOUS
  <2>1. ASSUME NEW t \in Scan!Tasks, Scan!TakeLock(t) \/ Scan!TaskStep(t) PROVE ScanInv'
    BY <2>1, TasksGoOn, SubmitStartsAfresh, RetireStaysWhole, PublishIsWhole DEF Scan!TaskStep
  <2>2. CASE Scan!Get
    <3>1. Httpd \in Scan!Tasks
      BY DEF Scan!Tasks
    <3> QED BY <2>2, <3>1, TasksGoOn
  <2>3. CASE Scan!RunRequest
    BY <2>3, RunRequestStores
  <2>4. CASE Scan!Driver
    BY <2>4, CallBackMissesNothing, StoreMissesNothing, SignalIsWhole DEF Scan!Driver
  <2>5. ASSUME UNCHANGED <<lock, args, cache, generation, results, done, scanning, callback,
                           scanPc, outcome, late>>
        PROVE  ScanInv'
    BY <2>5 DEF ScanInv, ScanTypes, CallbackOfScan, StarterHolds, InTime, OneScan,
                NothingMissed, Underway, DoneIsWhole, OutcomeIsWhole, CacheIsWhole
  <2>6. CASE Scan!DeadlinePasses
    BY <2>5, <2>6 DEF Scan!DeadlinePasses, Scan!driver
  <2>7. CASE UNCHANGED scan
    BY <2>5, <2>7 DEF scan
  <2> QED BY <2>1, <2>2, <2>3, <2>4, <2>6, <2>7, ScanSteps DEF Scan!Next
<1> QED BY <1>1, <1>2, PTL DEF Spec

\* A HaLow scan shown as complete holds all the driver found, as far as there is room,
\* and of one scan: for any number of access points, a buffer and a queue of any
\* size and any number of scans abandoned; unless a callback was preempted until its
\* scan was over, or a task finalised the scan of another (uplink_halow.c).
THEOREM CompleteScansAreWhole == Spec => []CompleteIsWhole
<1>1. ScanInv => CompleteIsWhole
  BY DEF ScanInv, InTime, CacheIsWhole, Enough, Taken, CompleteIsWhole, Scan!CompleteIsWhole
<1> QED BY <1>1, ScanInvHolds, PTL
=============================================================================
