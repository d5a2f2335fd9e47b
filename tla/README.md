# A formal model of the XIAO HaLow gateway firmware

TLA+ specifications of the firmware in `src/main/`, TLC configurations that check
them on small instances, and TLAPS proofs that hold for every instance. The firmware
runs on one ESP32-S3 under FreeRTOS: about twenty tasks and timer callbacks on two
cores share one configuration, two radios and a little memory, and the device is
expected to survive power cuts. What its unit tests can hardly reach is the order in
which those tasks step on each other; that is what is modelled here.

Run a check with `tlc -workers 2 -config MCRadioControl.cfg MCRadioControl` and a proof
with `tlapm RadioControl_proofs.tla`.

## 1. The system

A node boots in one of two roles. A *client* node has a SoftAP for phones and a HaLow
station as its uplink; a *relay* node has a HaLow access point for other nodes and a
Wi-Fi station as its uplink. Either way it routes with NAT from downlink to uplink, relays
the CoT multicast group between the two, and is configured over a web page and a serial
console.

| Part | State it keeps | Operations | Talks to |
|---|---|---|---|
| Radio control (`radio_control.c`) | queue of depth 1, owner task, one semaphore per call | `radio_control_run()` | the driver; wrappers in `uplink_halow.c`, `downlink_halow_ap.c` call it from three tasks |
| Configuration (`provisioning.c`) | `s_cfg` in RAM, one NVS blob, revision, recovery flag | load, save, commit, the `gwcfg-*` commands | every other part reads or writes it under `s_cfg_lock` |
| Admin credential and sessions (`auth.c`) | challenges, lockout, sessions, the salt on offer, onboarding window | login, logout, password change, window over boots | the web server and the console |
| Web server (`web_ui.c`) | one task, one request at a time | configuration POST, authentication endpoints, status | configuration, auth, CoT counters, scan |
| TLS identity (`tls_identity.c`) | a worker task and its copy of the configuration | generate at boot or on command | configuration |
| Factory reset (`factory_reset.c`) | a counter of button samples | defaults, save, restart | configuration |
| DNS forwarder (`dns_forward.c`) | table of pending queries, two sockets | one `select()` loop | leaves, resolvers, uplink's DHCP |
| CoT relay (`cot_relay.c`) | socket, send lock, counters | start, relay, inject, read counters | datapath, console, web server, heap guard |
| Boot and datapath (`app_main.c`) | `s_datapath_up`, a wake-up semaphore, a task that exits | bring-up with retries | uplink callbacks, NAT, CoT relay, DNS forwarder |
| NAT and DNS propagation (`ip_forward_nat.c`) | the netifs' flags | DHCP option, default route, NAPT | the SoftAP's DHCP server |
| Heap guard (`heap_guard.c`) | two hysteresis flags | a sample every 5 s | the same DHCP server; the CoT relay |
| HaLow uplink (`uplink_halow.c`) | flags shared by three tasks; scan lock, generation, results and cache | reconnect task, driver callbacks, IP events, scan | radio control, console, web server |
| Wi-Fi uplink (`uplink_wifi.c`) | flags, a one-shot timer and a notified task | event handler, timer, reconnect task | the event loop |
| Log ring, link history (`log_buffer.c`, `link_history.c`) | ring buffers | append, sample, read | every task that logs; radio control; web server |
| Address validation (`net_validate.c`) | none; the addresses are the configuration's | subnet arithmetic | console, web server, load |
| SoftAP, HaLow AP, LED, temperature, task statistics | none that others read | vendor calls, read-only indicators | |

Where the difficulty is, and what makes each part right:

- **Radio control.** Two waits with timeouts. A call whose wait timed out is still queued,
  runs later, and writes a static result area some other caller may be waiting on; its
  semaphore must outlive it. *Right*: no deleted semaphore is signalled, ESP_OK comes with
  the caller's own result, every call returns even if the driver does not.
- **Configuration.** Six writers; the POST handler and the TLS worker work on copies taken
  outside the lock; saves fail; a blob may be unreadable; power goes at any point. *Right*:
  nothing committed is silently overwritten, a credential in RAM is one in flash, the
  onboarding window ends, a boot that cannot read the configuration does not destroy it.
- **Authentication.** Full tables evict, timers expire, replies repeat, and the password
  change lets go of its locks three times while the console may reset everything. *Right*:
  guesses are slowed, nonces are used once, eviction picks the right entry, sessions end.
- **DNS forwarder.** Replies are late, repeated, misdirected, or for a query whose slot has
  been reused. *Right*: one answer, to who asked, for what was asked; nothing is held for ever.
- **CoT relay.** A start that fails takes its socket and lock down while other tasks use
  them; two senders aim one socket; datagrams come back. *Right*: one relay, right egress,
  no loops.
- **Datapath.** Uplink, downlink, role and memory change in the middle of an attempt; half
  of an attempt fails; two tasks stop and start one DHCP server. *Right*: it comes up, whole,
  and leaves the server running.
- **Uplinks.** Flags without locks between the reconnect task, the driver's callback and the event
  loop; requests that run after their caller gave up; events of the old link delivered after the
  new one. On a relay nobody owns the retry, which is handed on. *Right*: once its surroundings
  behave the node has an address and keeps it, a loss is reported, one retry is on its way, a static
  address is left alone.
- **HaLow scan.** Two callers, a lock held across calls, deadlines, and callbacks of scans that were
  abandoned. *Right*: results shown as complete are complete and of one scan; the console returns.
- **Rings.** Laps that end at the ring's end, readers smaller than the ring. *Right*: the most recent
  items, in order.
- **Addresses.** Masks at the extremes, subnets inside one another, edits of one section at a
  time. *Right*: every address in force is usable, and NAT has two networks.

## 2. The modules

| Module | Models | Abstract or composed |
|---|---|---|
| `RadioService` | what `radio_control.h` promises | abstract specification of `RadioControl` |
| `RadioControl` | `radio_control.c` with the wrappers that call it | implements `RadioService` (`ImplementsService`) |
| `RadioControl_proofs` | its theorems | |
| `GatewayConfig` | `provisioning.c` and everybody who writes the configuration: boot, `auth.c`, POST, console, TLS worker, button | composes the writers on one configuration |
| `GatewayConfig_proofs` | its theorems | |
| `AuthSessions` | the RAM side of `auth.c` and its HTTP handlers | |
| `AuthSessions_proofs` | its theorems | |
| `DnsRelay` | what `dns_forward.h` promises a leaf | abstract specification of `DnsForward` |
| `DnsForward` | `dns_forward.c` | implements `DnsRelay` (`ImplementsRelay`) |
| `DnsForward_proofs` | its theorems | |
| `CotBridge` | what `cot_relay.h` promises the two networks | abstract specification of `CotRelay` |
| `CotRelay` | `cot_relay.c`, with `cot_relay_start()` step by step | implements `CotBridge` (`ImplementsBridge`) |
| `CotRelay_proofs` | its theorems | |
| `Datapath` | `datapath_task()`, `ip_forward_nat.c`, `heap_guard.c` | composes the task, the heap guard and the uplink's callback; `CotRelay`'s start is one step of it |
| `Datapath_proofs` | its theorems | |
| `HalowUplink` | `reconnect_task()`, the driver's callback and the IP events of `uplink_halow.c` | uses what `RadioService` says of the driver's calls |
| `WifiUplink` | `uplink_wifi.c` | |
| `HalowScan` | the scan of `uplink_halow.c` with the console and the web server as its callers | uses what `RadioService` says |
| `Recent` | what a ring buffer promises | abstract specification of the next two |
| `LogRing` | `log_buffer.c` | implements `Recent` (`LogIsRecent`) |
| `LinkHistory` | `link_history.c` | implements `Recent` (`HistoryIsRecent`) |
| `AddressPlan` | `net_validate.c`, the subnets of `provisioning_validate()`, and every way into the configuration | |
| `Node` | the choice of role, with the uplinks, the scan, the rings, the addresses and the forwarder, which share no state | one behaviour is one of one part |
| `Node_proofs` | theorems of the uplinks and the scan | |
| `NodeData_proofs` | theorems of the rings and the addresses | |

Each has an `MC...` module and `.cfg` files for TLC. Definitions keep the source's names
where they have one, and the comment on a property gives the lines it is about. In every module a
region under one lock is one step, a handler that lets go of its lock is several, and a
blocking call with a timeout may return at any time.

**RadioControl.** `slot` is the queue, `running` what the owner dequeued, `sem` the
semaphore of each call, `ctx` the static result areas. A call goes lock - create - send -
wait - read - release, each an action with its failures: no memory, queue full, timeout. The owner dequeues,
runs (`RunFn`, which may never happen) and gives. Requests are numbered and a number is
never reused, so a deleted semaphore stays recognisable.

**GatewayConfig.** `live` and `nvs` are records of settings, auth and tls sections;
`revision`, `recovery` and the boot phase are as in the code; `http` is the request in
progress with its snapshot, `worker` the TLS worker's copy. `ghosts` record what the
properties compare with: how many boots a window has been open, who wrote since a snapshot
was taken. `Restart` is a crash at any step.

**AuthSessions.** A key is the pair of password and salt it was derived from, so a login
is right when both are the credential's. Nonces, tokens and salts are serial numbers. Ages
and the lockout count `Tick`s, up to the first value past each limit.

**DnsForward.** Its task goes select - listen - upstream. The network may deliver any reply to any query ever sent, with any source
and question, or damaged. 16-bit identifiers become a small set that still holds `0` and
`0xFFFF`.

**CotBridge**, **CotRelay.** The bridge has, of each sender, the sides it has still to send on; `SidesLeft` computes them from where
`send_via()` is. `startPc` is where `cot_relay_start()` is, `pc` where each user of the lock is; `air` holds what was sent
and may be reflected; an address is `<<interface, n>>`, so an address that was lost is told
from the next. Taking a NULL semaphore is a panic, and a panic a reboot. `orphans` records
who held the lock when a failed start deleted it: two properties are about behaviours in which that has not
happened, and the run `cot_lock` shows that the lock can vanish.

**Datapath.** `pc` walks through `bring_up_datapath()` call by call, so that the heap
guard's sample, the uplink's callback and changes of role fall between any two of its calls.
Memory is counted in units in which the four thresholds of `heap_guard.h` differ.

**HalowUplink.** `pc` walks through `halow_sta_connect()`, `wait_for_dhcp_lease()` and the loop around
them; `requests` is what `radio_control` has yet to run, each with or without a caller that still
waits; `sta`, `address`, `dhcpc` and `lostTimer` are the driver and the netif as the code's comments
describe them, `events` what the event loop has yet to deliver. `Settle` is the moment from which access point,
driver and DHCP server behave: before it anything may fail, in any order.

**WifiUplink.** The same netif, with the driver posting events instead of calling back. `Held` counts
who has the retry: timer, notification, task, driver, or an event whose handler starts one.
`apAddress` and `apLostTimer` are the netif of the relay's own HaLow access point, which `ap_vif_state_cb()`
(`downlink_halow_ap.c`) takes up and down: of the same shape, it posts the same events of an address. The handler compares
the netif when an address is got (`OnGotIp`) and not when one is lost (`OnLostIp`); `mistaken` records that such a loss
is why the uplink counts as down.

**HalowScan.** A scan is its generation. `args` is the static argument block, read only when the
request runs; a callback is two steps, its check of the generation and its write, because it may be preempted
in between. `late` records that such a write, or the finalisation of another task's scan, has happened.

**LogRing**, **LinkHistory.** The ring as an array with `head` and `count`, and a `window` computed from
them that `Recent` keeps as a sequence. A sample of the link is two readings, between which the signal changes.

**AddressPlan.** An address is a word, and a word is the set of the positions of its 1 bits: `&`, `|` and `~` are
intersection, union and complement, and `+ 1` flips the lowest zero and what is below it. Words are four bits wide in the run,
with every mask there is. The validator is the code's bit arithmetic; `PlanIsSound` is stated by the length of the prefix, the addresses
that share it and the order of the numbers, and masks nothing.

**Node.** `part` says which part the behaviour is one of, and the variables of the rest stay as they began.
The parts share nothing, so their interleavings would add states and no behaviour of any of them.

## 3. The runs

| Run | States | What it shows |
|---|---|---|
| `radio` | 88 500 | 3 tasks, 2 wrappers, 3 calls: safety, refinement of `RadioService`, and that calls return and accepted requests run |
| `config` | 1.5 M | 4 boots, failing saves, unreadable blobs, all writers |
| `config_stale` | violated | a POST overwrites what `gwcfg-set-uplink-mgmt` wrote meanwhile: that write leaves the revision alone |
| `config_tls` | violated | regenerating the HTTPS identity undoes a reset or POST saved while the key was made |
| `dns` | 2.8 M | 3 queries through 2 slots: unique identifiers, refinement of `DnsRelay`, slot reuse, eviction |
| `auth` | 2.4 M | 2 clients, tables of 2, lockout, expiry, password changes, the console |
| `auth_salt` | violated | two clients that set a password at once leave one no password matches |
| `cot` | 870 000 | starts that fail, two senders, a reader, lost addresses, reflections; refinement of `CotBridge` |
| `cot_lock` | violated | a counter reader takes a lock that a failed start has deleted |
| `datapath` | 580 000 | both roles from boot; safety, hysteresis, and that the datapath comes up |
| `datapath_uplink` | violated | the retry timer brings NAT up before the uplink ever had an address |
| `node` | 67 000 | both uplinks, the scan, the rings, the addresses and, without symmetry, the DNS forwarder: recovery, reports of loss, the single retry, whole scans, the two refinements of `Recent`, the address plan |

**Bounds.** Every bound is a named constant of its module. They are the least with which the
interesting cases occur: three radio calls give one running, one queued and one waiting;
two slots and three queries, sessions or challenges force an eviction; four boots open an
onboarding window of two, spend it, close it and come back; one lost address and three hops
let an echo through once and would let it through again; two packets per side make
two senders meet. `CotRelay` was also run with two lost addresses, four hops and three packets
(7.2 million states), the uplinks of `node` with three undelivered events. In `node`, two events let the lease of
one link be delivered after the loss of the next; two queued requests are one abandoned and one waited for; two
access points and room for one overflow a scan; six generations are three scans; a ring of four
bytes and lines of one or two end laps on the ring's end and across it. Four-bit addresses have every mask
and subnets of one inside another. Timers count one or two ticks, since only which side of a limit an age is
on matters.

**Fairness.** `RadioControl`: a task that can run is scheduled, and a wait with a timeout
ends; the vendor's functions are not assumed to return, except in `AcceptedRuns`, which
says so. `DnsForward`: its task runs because `select()` times out every second, and time passes;
nothing is assumed of the network. `Datapath`: its task runs and its waits are bounded, and a
relay that could start at every attempt does not fail at every attempt (strong fairness of
`CotStarts`); nothing is assumed of radios, leases or memory, and `ComesUp` says of the
downlink and the role only that they settle. `HalowUplink`: tasks run and their waits end, the radio answers in
the end (what `AcceptedRuns` comes to), and an association that may complete does so, now and then also while the task waits
rather than always between its check and its request; `Recovers` asks nothing before `calm`. `WifiUplink`: the same
of the timer, the event loop and the driver; nothing of the access point's netif. `HalowScan`: tasks run and deadlines pass; nobody has to
scan, and the driver need never answer. The other modules state no fairness: their properties are safety.

**Deadlock** is checked in every run but `node`, where a connected node in calm surroundings, a finished scan
or a console that wants nothing more has no step to take.

## 4. What the runs found

Five statements in the code's comments do not hold. Each is a run of its own.

1. *The revision counts every write* (`web_ui.c:893`): `gwcfg-set-uplink-mgmt` and others write
   without it, and a concurrent POST silently undoes them.
2. *gwcfg-reset-tls-identity keeps every other setting* (`provisioning.c:1232`): the worker
   saves the copy it took seconds earlier.
3. *The salt on offer has no concurrent users* (`auth.c:101`): the change of an existing password uses
   it too, and two browsers can leave a credential nobody knows.
4. *The send lock is NULL until the relay has started* (`cot_relay.c:405`): it exists while a
   start is under way and is deleted when that start fails, so checking it for NULL does not make taking it safe.
5. *NAT and the relay come up the first time the uplink gets an IP* (`app_main.c:139`): the
   3 s retry timer does not look at the uplink. On a client node DNS propagation then finds no
   server and is not tried again, so phones are not offered one.

More disagreements were seen while modelling and have no run of their own. Those with a name are definitions of
the module, to be added to the run's configuration to see the behaviour.

- `HolderFinalizes` (`HalowScan`): `finalize_scan()` is "always called with s_scan_lock held" (`uplink_halow.c:860`).
  `GET /api/scan` polls the console's scan and finalises it: two tasks may do so at once, and the mutex is given by a task that does not hold it, on
  which FreeRTOS asserts (`panic`).
- The generation makes a late callback "a no-op" (`uplink_halow.c:58-60`): one preempted after its check writes after
  it, possibly into the next scan's results. `CompleteIsWhole` excludes both of these by `late`, and holds otherwise.
- `ConnectSparesTheLink` (`HalowUplink`): the connect "must not be re-issued" on a link that is up (`uplink_halow.c:502-508`). A
  request that timed out in the queue runs later, on the link the attempt after it made.
- `NotStranded` (`HalowUplink`): the wait for an address is bounded so that its failure cannot "strand the task" (`uplink_halow.c:584-586`).
  Once an address was seen the task holds the link whatever becomes of the address; with the DHCP client stopped
  by a restart that failed it holds for ever (`HoldsNothing`, which `Recovers` excludes).
- A refusal of `esp_wifi_connect()` is logged and schedules nothing (`uplink_wifi.c:76-79`): no event follows it, and the relay stays without an uplink
  (`refused`, which `OneRetry` and `Recovers` name).
- `AddressIsReported` (`WifiUplink`): the Wi-Fi uplink's callback is to have the "same contract" (`uplink_wifi.h:26`) as the HaLow one's,
  `IP_EVENT_STA_GOT_IP/LOST_IP` "on this netif" (`uplink_halow.h:17`). The handler takes the loss of any netif's address for the uplink's
  (`uplink_wifi.c:154-156`), and the HaLow access point of the same relay has a netif that posts one when its link goes down
  (`downlink_halow_ap.c:150-154`). The uplink is then reported down with link and lease intact, and nothing corrects it before the next lease or link.
  `Recovers` names it (`mistaken`): the relay still gets its address and keeps it, and no other way leaves it unreported. The HaLow uplink has no
  such filter either, which a client, with one station netif, does not need (`uplink_halow.c:293-296`).
- A scan the page started ends only with the page's next poll: if it is closed, the lock stays taken.
- `LatestIsOfTheSample` (`LinkHistory`): the readings kept beside the ring are "from the same sample" (`link_history.c:19`). They
  are read again, and may differ from the one in the ring.
- `0xFFFF` stands for "no valid response" in `dns_forward.c` and can be drawn as an identifier: the query that gets it is
  never answered.
- `gwcfg-reset-auth` issued inside a password change drops the sessions before the change opens its own, which outlives the reset.

## 5. What is proved

Every safety property the passing runs check is a theorem of its module's specification, and so are the five
refinements that are checked. A theorem holds for every value of the constants that satisfies the
assumptions the module names, and TLC evaluates those assumptions for the values of the runs. The bounds (`MaxBoots`,
`MaxQueries`, ...) are constants too, and the theorems hold for each of their
values: what goes wrong in a safety property goes wrong after finitely many steps, so within some bound.

The argument is the same everywhere: a property is seldom inductive, so an inductive invariant adds what it rests
on; it was checked with TLC, then proved to hold initially and to be kept by each action. What each adds is what is worth knowing.

**`RadioControl_proofs`**: `OwnerGivesLiveSemaphores`, `ResultsAreNotMixed`, `Implements` (the initial states map to those of
`RadioService`, and every step to a step or a stutter), `TypeCorrect`. Assumed: the names of tasks and wrappers are
distinct and a wrapper without a mutex has one calling task. Each wrapper is inside at most one task, which holds its mutex or is its
only caller; what is in the slot or with the owner has not been signalled; each caller's request is where its
program counter says. `OkReadsOwnResult` needs one thing more, `NoneOvertakes`: because the queue is first
in first out, once a caller's request is accepted, no older request of the same wrapper can still be
behind it, so nothing abandoned writes the result between the caller's answer and its read.

**`GatewayConfig_proofs`**: `CredentialSurvives`, `ShutForGood`, `WindowEnds`, and the action properties `RecoveryIsReadOnly` and
`CommitsAreKept`, for any settings, budget, number of boots and revisions. `TasksAreSound`: until the boot task is done nobody else
writes, and a window it finds open was read from flash and not made up. `CopiesAreSound` says of *every* copy of the
auth section, live, in flash, with a POST or with the TLS worker, that a claimed device has no window and that an open one has not had more boots
than its budget paid for but for the saves that were lost: a copy taken earlier and written back later cannot reopen a window. `RecoveryIsShut`: a boot on recovery
defaults that nobody attended to at the console can be neither logged in to nor claimed, so no POST writes over the blob.
`SeenIsPast`: a POST that read the revision before a setter committed read a smaller one.

**`AuthSessions_proofs`**: `GuessesCostTime`, `NoncesAreOneTime`, `EvictionIsFair`, `SessionsEnd`, `OneSessionIsLeft`, for any clients, tables, life times
and lockout schedule with 0 < base <= maximum and 0 < threshold <= full counter. The nonces pending are distinct, issued, and not
answered; every guess uses one up; the failure counter is the number of guesses until it is full; from the threshold on, the time
waited and the lockout that runs together pay for one guess *more* than were made (`WaitIsCovered`), which is what the next guess
needs. That the doubling schedule never falls below its base is proved by induction, by way of a set
that contains 0 and is closed under successor (`SetInduction`): the library's own induction theorem takes an operator and cannot be used.

**`DnsForward_proofs`**: `IdsDiffer`, `OldRepliesMiss`, `TheOldestGivesWay`, `Implements` (`DnsRelay`). Assumed: a finite table, and more
identifiers than slots. Queries are numbered as they arrive and no two slots hold one, so that an answered query cannot be answered again from
another slot; a socket reported as readable stays so until the task, the only one that reads it, has read it.

**`CotRelay_proofs`**: `RelayIsOne`, `EgressAsMeant`, `EchoesEnd`, `CountersAgree`, `Implements` (`CotBridge`). `StartIsSound` says what exists at each step of a start.
`LockProtects`: the holder of the lock is whoever is inside, and the socket's interface is the one the sender about to send aimed it at,
as long as no lock was deleted under its holder. `HopsAreCounted` bounds how often a datagram was sent by the addresses
lost, with one less while its source is an own address no more. `DueIsCovered` counts the sends not yet in a counter.
`CountersAgree` (`CountersBalance`) follows from it; no run checks that beside the refinement, which says more.
The refinement is about what the relay counts; that what is counted on a side also left by it is `EgressIsRight`. It covers failed starts and deleted
locks too: whoever has a datagram in hand when they happen drops it, sends it, or restarts the node with everything else. It rests on `StartIsSound`, by
which a relay starts only when none runs, and on every way out of `send_via()` being done with one side and with no other.

**`Datapath_proofs`**: `UpMeansComplete`, `OnlyTheBootedRole`, `DhcpServerRuns`, `CotIsShedFirst`, `HysteresisHolds`, `TypeCorrect`, for any four
thresholds in the order of `heap_guard.h`. `AttemptIsSound`: results an attempt took for successes stand,
and past the check for NULL netifs the role it read is the one booted. `CotIsShedFirst` needs the
assumption that the node's upper threshold is not above CoT's lower one (48 KB and 64 KB in the code): a pause
whose resume failed while memory was plentiful would otherwise outlive the shedding.

**`Node_proofs`**: `StaticAddressesStay` and `ClientTypeCorrect` (`HalowUplink`), `RelayRetriesOnce` (`WifiUplink`), `CompleteScansAreWhole`
(`HalowScan`), for queues of any depth, any access points and any buffer. `OneRetry` is not inductive: the task drops the retry it holds if
`s_associated` is set when it checks. `LinkIsHeld` says it cannot be: a link that the flag, or an event on its way to set it, tells
of is up, or the event of its end is queued behind; either holds a retry, and then the task does not. `CompleteIsWhole` needs an invariant of every stage a result passes.
While nothing was written late: what is stored is of the scan started last; of a scan of the driver that can still store, as many results are
stored as it has reported, up to the buffer, less the one a callback holds; and the semaphore,
the outcome a holder of the lock is about to publish, and the cache say "complete" only of a whole one. The lock is held from the
start of a scan until the driver's answer (`StarterHolds`), so no other start empties the buffer under a task that publishes.

**`NodeData_proofs`**: `LogImplementsRecent`, `HistoryImplementsRecent`. Both rest on one fact, that a ring that is not full was never wrapped;
with it, the window after a lap of any length that the code accepts is the end of the old window followed by what was written. That arithmetic is done once, for both rings.
`AddressesAreUsable` and `ValidatorIsExact`, for words of any width: the first is `PlanIsSound`, whatever way the addresses came into the configuration;
the second says that the validator accepts a pair of address and mask exactly if the address is one a host can have, and that its test for overlap is exactly that two
subnets have an address in common. The zeros of a mask the validator takes for contiguous are its lowest positions: the least zero
of the mask is the carry of its complement plus one, and what is above it has to be ones. Two such masks are therefore one inside the other, and a
network compared under the shorter one is compared where both count. What is inductive is that the configuration passed the validator. Assumed: the two
subnets compiled in are subnets of hosts.

Only model-checked: every liveness property (`CallsReturn`, `AcceptedRuns`, `NoneHeldForEver`,
`ComesUp`, `Recovers`, `LossIsReported`, `ConsoleReturns`), since fairness and ENABLED are beyond the proof system. Of the type
invariants, that of the relay and of the scan are proved as parts of the invariants above.

The proofs asked for some changes of the models. The constants have assumptions
of their own (bounds are numbers, a value that stands for "none" is none of the things it stands in for), and the sets the variables range over have names.
The words of `AddressPlan` are sets of positions rather than numbers, because the library defines its bitwise operators by a recursion no prover
expands; the four-bit instance is the same.

## 6. What is not modelled, and the plan

Abstracted everywhere: parsing of fields, cryptography (a hash is its inputs), page layout, the content of log
lines, byte counts, the length of backoffs. Of the validator, checks other than those on addresses reject an edit
whole (`PostInvalid`) and are not spelled out. SoftAP and HaLow AP bring-up, LED, temperature and task statistics are straight
lines of vendor calls or indicators that keep no state another part depends on. The web server's guards on subnet and Host
header decide on one request alone. Partly modelled parts lack: the read-only status and channel endpoints and the reboot
timer of the web server; certificate generation; the debouncing of the button; the order in which
`app_main()` starts the parts, which the initial states assume. The firmware's vendor code is the environment.

What could be added: the radio's queue as `HalowUplink` and `HalowScan` see it, which today repeat what `RadioService` says, as instances of
it; and the read-only endpoints of the web server.
