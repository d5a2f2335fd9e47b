------------------------------ MODULE CotRelay ------------------------------
(***************************************************************************)
(* The CoT relay (cot_relay.c): one socket joined to the multicast group   *)
(* on both interfaces, a task that forwards each datagram to the other     *)
(* side, a console command that injects datagrams and an HTTP handler that *)
(* reads the counters.  cot_relay_start() runs on the datapath task, which *)
(* calls it again and again, so it is interleaved with all of them; a      *)
(* start that fails undoes what it did in relay_cleanup().                 *)
(*                                                                         *)
(* The network is the environment.  `air' holds datagrams the relay sent   *)
(* that may still come back from a device that reflects the group; any of  *)
(* them is lost at any moment.  A source address is <<interface, n>>: the  *)
(* n-th address that interface has had is n, and 0 is no address.          *)
(* What a datagram says is not modelled, nor are byte counts.              *)
(***************************************************************************)
EXTENDS Naturals, FiniteSets

CONSTANTS
    Up, Down,       \* netif_a and netif_b, the uplink and the downlink
    Task, Console, Httpd,
    Foreign,        \* a source address that is no interface's
    Nobody,
    MaxAddresses, MaxLosses, MaxAir, MaxHops, MaxPackets    \* bounds

Interfaces == {Up, Down}
Users == {Task, Console, Httpd}
Senders == {Task, Console}
Addresses == Interfaces \X (1..MaxAddresses)

ASSUME NamesAssumption ==
    /\ Up # Down
    /\ Cardinality(Users) = 3 /\ Nobody \notin Users
    /\ Foreign \notin Addresses
ASSUME BoundsAssumption ==
    /\ {MaxAddresses, MaxLosses, MaxAir, MaxPackets} \subseteq Nat
    /\ MaxHops \in Nat \ {0}

\* A datagram on its way: the interface it left by and the one it was meant
\* for, its source, and how often this node has sent it.
Datagram == [out : Interfaces, meant : Interfaces, from : Addresses,
             hops : 1..MaxHops]

VARIABLES
    address,    \* of each interface now; 0 is none
    losses,     \* addresses lost since boot
    startPc,    \* of cot_relay_start(): idle, locked, opened, closed
    sockOpen,   \* s_sock >= 0
    destSet,    \* s_group_dest is filled in
    sendLock,   \* s_send_lock is not NULL
    holder,     \* who holds it
    orphans,    \* who held it when relay_cleanup() deleted it
    relayTasks, \* how many relay_task()s there are
    pc,         \* where each user of the lock is
    egress,     \* the interface each sender's send_via() is for
    source,     \* iface_addr, as send_via() read it
    carried,    \* times the datagram in each sender's hands has been sent
    mcastIf,    \* IP_MULTICAST_IF of the socket: the address it egresses by
    rx, tx,     \* s_counters_a and s_counters_b
    injected,   \* send_via()s begun by cot_relay_inject()
    air         \* datagrams sent and not yet lost

start == <<startPc, sockOpen, destSet, relayTasks>>
sending == <<egress, source, carried>>
counters == <<rx, tx, injected>>
net == <<address, losses>>
lock == <<sendLock, holder, orphans>>
vars == <<net, start, lock, pc, sending, mcastIf, counters, air>>

Other(i) == CHOOSE j \in Interfaces : j # i

TypeOK ==
    /\ address \in [Interfaces -> 0..MaxAddresses] /\ losses \in 0..MaxLosses
    /\ startPc \in {"idle", "locked", "opened", "closed"}
    /\ {sockOpen, destSet, sendLock} \subseteq BOOLEAN
    /\ holder \in Users \cup {Nobody} /\ orphans \subseteq Users
    /\ relayTasks \in Nat
    /\ pc \in [Users -> {"idle", "send", "take", "aim", "sendto", "read", "give"}]
    /\ egress \in [Senders -> Interfaces]
    /\ source \in [Senders -> 0..MaxAddresses]
    /\ carried \in [Senders -> 0..MaxHops]
    /\ mcastIf \in Addresses \cup {Foreign}
    /\ rx \in [Interfaces -> 0..MaxPackets] /\ tx \in [Interfaces -> Nat]
    /\ injected \in 0..MaxPackets
    /\ air \subseteq Datagram

-----------------------------------------------------------------------------
Init ==
    /\ address = [i \in Interfaces |-> 0] /\ losses = 0
    /\ startPc = "idle" /\ sockOpen = FALSE /\ destSet = FALSE /\ relayTasks = 0
    /\ sendLock = FALSE /\ holder = Nobody /\ orphans = {}
    /\ pc = [u \in Users |-> "idle"]
    /\ egress = [u \in Senders |-> Up]
    /\ source = [u \in Senders |-> 0] /\ carried = source
    /\ mcastIf = Foreign
    /\ rx = [i \in Interfaces |-> 0] /\ tx = rx /\ injected = 0
    /\ air = {}

\* What FreeRTOS does with a semaphore that is not there: configASSERT(), and
\* the node starts again.
Panic ==
    /\ address' = [i \in Interfaces |-> 0] /\ losses' = 0
    /\ startPc' = "idle" /\ sockOpen' = FALSE /\ destSet' = FALSE /\ relayTasks' = 0
    /\ sendLock' = FALSE /\ holder' = Nobody /\ orphans' = {}
    /\ pc' = [u \in Users |-> "idle"]
    /\ egress' = [u \in Senders |-> Up]
    /\ source' = [u \in Senders |-> 0] /\ carried' = source'
    /\ mcastIf' = Foreign
    /\ rx' = [i \in Interfaces |-> 0] /\ tx' = rx' /\ injected' = 0
    /\ air' = {}

-----------------------------------------------------------------------------
(* cot_relay_start(), on the datapath task.                                *)

\* A defect to check against: the check that it is running is dropped.
NeverAlreadyRunning == FALSE

AlreadyRunning == sockOpen

StartLocked ==
    /\ startPc = "idle" /\ ~AlreadyRunning
    /\ startPc' = "locked" /\ sendLock' = TRUE
    /\ UNCHANGED <<net, holder, orphans, sockOpen, destSet, relayTasks, pc, sending, mcastIf, counters, air>>

StartOpens ==
    /\ startPc = "locked"
    /\ startPc' = "opened" /\ sockOpen' = TRUE
    /\ mcastIf' = Foreign
    /\ UNCHANGED <<net, destSet, lock, relayTasks, pc, sending, counters, air>>

\* bind(), both joins and the options succeeded, and the task is created.
StartSucceeds ==
    /\ startPc = "opened"
    /\ startPc' = "idle" /\ destSet' = TRUE /\ relayTasks' = relayTasks + 1
    /\ UNCHANGED <<net, sockOpen, lock, pc, sending, mcastIf, counters, air>>

\* Any of them fails, the creation of the task after the destination is set
\* being the last: relay_cleanup() closes the socket if there is one.
StartFails ==
    /\ startPc \in {"locked", "opened"}
    /\ startPc' = "closed" /\ sockOpen' = FALSE
    /\ destSet' \in {destSet, destSet \/ startPc = "opened"}
    /\ UNCHANGED <<net, lock, relayTasks, pc, sending, mcastIf, counters, air>>

\* relay_cleanup() goes on to delete the lock.
CleanupLock ==
    /\ startPc = "closed"
    /\ startPc' = "idle" /\ sendLock' = FALSE /\ holder' = Nobody
    /\ orphans' = orphans \cup (Users \cap {holder})
    /\ UNCHANGED <<net, sockOpen, destSet, relayTasks, pc, sending, mcastIf, counters, air>>

-----------------------------------------------------------------------------
(* Who sends.                                                              *)

\* A defect to check against: no second line of defence against loops.
NoOwnAddress(from) == FALSE

\* relay_task() got a datagram on interface i; what it keeps was sent to the
\* group, fits its buffer and is no own transmission that came back.
OwnAddress(from) == from \in Addresses /\ address[from[1]] = from[2]

Arrives(i, from, hops) ==
    /\ relayTasks > 0 /\ pc[Task] = "idle"
    /\ ~OwnAddress(from)
    /\ rx[i] < MaxPackets
    /\ rx' = [rx EXCEPT ![i] = @ + 1]
    /\ pc' = [pc EXCEPT ![Task] = "send"]
    /\ egress' = [egress EXCEPT ![Task] = Other(i)]
    /\ carried' = [carried EXCEPT ![Task] = hops]
    /\ UNCHANGED <<net, start, lock, source, mcastIf, tx, injected, air>>

\* A datagram that is truncated, not for the group, of unknown interface or
\* shed is dropped before any counter moves: receiving it changes nothing.
FromPeer == \E i \in Interfaces : Arrives(i, Foreign, 0)

Reflected == \E d \in air : d.hops < MaxHops /\ Arrives(d.out, d.from, d.hops)

\* cot_relay_inject(): first towards one side, then towards the other.
Inject ==
    /\ pc[Console] = "idle" /\ sockOpen
    /\ injected < MaxPackets - 1
    /\ injected' = injected + 2
    /\ pc' = [pc EXCEPT ![Console] = "send"]
    /\ egress' = [egress EXCEPT ![Console] = Up]
    /\ carried' = [carried EXCEPT ![Console] = 0]
    /\ UNCHANGED <<net, start, lock, source, mcastIf, rx, tx, air>>

\* A defect to check against: what came in is also sent back where it came from.
ReturnedToBoth(u) ==
    IF pc[u] = "give" /\ egress[u] = Up
    THEN /\ pc' = [pc EXCEPT ![u] = "send"]
         /\ egress' = [egress EXCEPT ![u] = Down]
    ELSE /\ pc' = [pc EXCEPT ![u] = "idle"]
         /\ UNCHANGED egress

\* One send_via() has returned: cot_relay_inject() has another to do.
Returned(u) ==
    IF u = Console /\ egress[u] = Up
    THEN /\ pc' = [pc EXCEPT ![u] = "send"]
         /\ egress' = [egress EXCEPT ![u] = Down]
    ELSE /\ pc' = [pc EXCEPT ![u] = "idle"]
         /\ UNCHANGED egress

\* send_via(): the interface's address, read outside the lock.
Sourced(u) == address[egress[u]] # 0

HasAddress(u) ==
    /\ pc[u] = "send" /\ Sourced(u)
    /\ pc' = [pc EXCEPT ![u] = "take"]
    /\ source' = [source EXCEPT ![u] = address[egress[u]]]
    /\ UNCHANGED <<net, start, lock, egress, carried, mcastIf, counters, air>>

NoAddress(u) ==
    /\ pc[u] = "send" /\ ~Sourced(u)
    /\ Returned(u)
    /\ UNCHANGED <<net, start, lock, source, carried, mcastIf, counters, air>>

-----------------------------------------------------------------------------
(* The lock and what it protects.                                          *)

\* A defect to check against: send_via() takes no lock.
LockIgnored == TRUE

LockFree == holder = Nobody

Take(u) ==
    /\ pc[u] = "take" /\ sendLock /\ LockFree
    /\ holder' = u
    /\ pc' = [pc EXCEPT ![u] = IF u \in Senders THEN "aim" ELSE "read"]
    /\ UNCHANGED <<net, start, sendLock, orphans, sending, mcastIf, counters, air>>

TakeDead(u) == pc[u] = "take" /\ ~sendLock /\ Panic

\* setsockopt(IP_MULTICAST_IF): nothing left to set if the socket was closed.
Aim(u) ==
    /\ pc[u] = "aim"
    /\ \/ /\ sockOpen
          /\ mcastIf' = <<egress[u], source[u]>>
          /\ pc' = [pc EXCEPT ![u] = "sendto"]
       \/ /\ mcastIf' = mcastIf
          /\ pc' = [pc EXCEPT ![u] = "give"]
    /\ UNCHANGED <<net, start, lock, sending, counters, air>>

Counted(u) == egress[u]

\* sendto(): it goes by the interface the socket is aimed at now.
SendTo(u) ==
    /\ pc[u] = "sendto"
    /\ pc' = [pc EXCEPT ![u] = "give"]
    /\ \/ /\ sockOpen /\ destSet /\ mcastIf \in Addresses
          /\ tx' = [tx EXCEPT ![Counted(u)] = @ + 1]
          /\ \E still \in SUBSET air :
                /\ Cardinality(still) < MaxAir
                /\ air' = still \cup
                     {[out |-> mcastIf[1], meant |-> egress[u], from |-> mcastIf,
                       hops |-> carried[u] + 1]}
       \/ UNCHANGED <<tx, air>>
    /\ UNCHANGED <<net, start, lock, sending, mcastIf, rx, injected>>

\* Giving back; if the lock was deleted meanwhile the handle is freed memory,
\* and the node panics or goes on.
Give(u) ==
    /\ pc[u] = "give" /\ u \in Senders
    /\ Returned(u)
    /\ holder' = IF holder = u THEN Nobody ELSE holder
    /\ UNCHANGED <<net, start, sendLock, orphans, source, carried, mcastIf, counters, air>>

GiveDead(u) == pc[u] = "give" /\ holder # u /\ Panic

\* cot_relay_get_counters(), by the status handler or gwcfg-status, which asks
\* cot_relay_is_running() first.
ReadCounters ==
    /\ pc[Httpd] = "idle" /\ sendLock
    /\ pc' = [pc EXCEPT ![Httpd] = "take"]
    /\ UNCHANGED <<net, start, lock, sending, mcastIf, counters, air>>

CopyCounters ==
    /\ pc[Httpd] = "read"
    /\ pc' = [pc EXCEPT ![Httpd] = "idle"]
    /\ holder' = IF holder = Httpd THEN Nobody ELSE holder
    /\ UNCHANGED <<net, start, sendLock, orphans, sending, mcastIf, counters, air>>

-----------------------------------------------------------------------------
(* The interfaces.                                                         *)

GainAddress(i) ==
    /\ address[i] = 0
    /\ \E n \in 1..MaxAddresses : address' = [address EXCEPT ![i] = n]
    /\ UNCHANGED <<losses, start, lock, pc, sending, mcastIf, counters, air>>

LoseAddress(i) ==
    /\ address[i] # 0 /\ losses < MaxLosses
    /\ losses' = losses + 1
    /\ address' = [address EXCEPT ![i] = 0]
    /\ UNCHANGED <<start, lock, pc, sending, mcastIf, counters, air>>

Start == StartLocked \/ StartOpens \/ StartSucceeds \/ StartFails \/ CleanupLock
Send(u) == HasAddress(u) \/ NoAddress(u) \/ Aim(u) \/ SendTo(u)
Lock(u) == Take(u) \/ TakeDead(u) \/ Give(u) \/ GiveDead(u)
Next ==
    \/ Start
    \/ FromPeer \/ Reflected \/ Inject \/ ReadCounters \/ CopyCounters
    \/ \E u \in Senders : Send(u)
    \/ \E u \in Users : Lock(u)
    \/ \E i \in Interfaces : GainAddress(i) \/ LoseAddress(i)

Spec == Init /\ [][Next]_vars

-----------------------------------------------------------------------------
(* Properties.                                                             *)

\* However often the datapath task calls cot_relay_start() and however its
\* steps fail, there is at most one relay_task() and it never runs on a socket
\* or a lock that relay_cleanup() has taken away.
OneRelay ==
    /\ relayTasks <= 1
    /\ relayTasks = 1 => sockOpen /\ sendLock

\* Two senders share one socket and aim it before each send: every datagram
\* leaves by the interface its sender meant, unless relay_cleanup() deleted
\* the lock under a sender, which CheckedLockIsTaken shows it can.
EgressIsRight == orphans = {} => \A d \in air : d.out = d.meant

\* Loops end: a datagram that comes back is sent again only if the address it
\* was sent from has been lost in between (and EgressIsRight applies).
EchoesAreBounded == orphans = {} => \A d \in air : d.hops <= 1 + losses

\* What is counted as sent on one side was received on the other, or injected.
CountersBalance == \A i \in Interfaces : tx[i] <= rx[Other(i)] + injected

\* The sides a sender has still to send on: the one its send_via() is for, until
\* sendto() was called or cannot be, and the one after it.
SidesLeft(u) ==
    {i \in Interfaces :
        \/ pc[u] \in {"send", "take", "aim", "sendto"} /\ egress[u] = i
        \/ u = Console /\ pc[u] # "idle" /\ egress[u] = Up /\ i = Down}

\* Seen from the two networks, the relay with its lock, its starts and failures
\* is a bridge that sends what it was given at most once per side (cot_relay.h).
Bridge == INSTANCE CotBridge
    WITH running <- relayTasks > 0, toSend <- [u \in Senders |-> SidesLeft(u)]
ImplementsBridge == Bridge!Spec

\* cot_relay_get_counters() checks the lock for NULL before it takes it, so
\* as not to panic: what it then takes is a lock.
CheckedLockIsTaken == pc[Httpd] = "take" => sendLock
=============================================================================
