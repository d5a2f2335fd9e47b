--------------------------- MODULE CotRelay_proofs ---------------------------
(***************************************************************************)
(* Proofs of the safety properties of CotRelay, for any number of          *)
(* addresses, losses, datagrams and packets.                               *)
(***************************************************************************)
EXTENDS CotRelay, FiniteSetTheorems, TLAPS

(* A user in these states holds s_send_lock, if the lock it took is there. *)
Inside(u) == pc[u] \in {"aim", "sendto", "give", "read"}

(* A sender in these states has yet to send what it has in hand.           *)
Sending(u) == pc[u] \in {"send", "take", "aim", "sendto"}

(* A sender in these states has read the address it will send from.        *)
HasSource(u) == pc[u] \in {"take", "aim", "sendto"}

(* Each user goes through its own states, and what a sender has in hand    *)
(* can be sent once more.                                                  *)
UsersAreSound ==
    /\ pc[Httpd] \in {"idle", "take", "read"}
    /\ \A u \in Senders :
        /\ pc[u] # "read"
        /\ carried[u] < MaxHops
        /\ HasSource(u) => source[u] # 0

(* What exists at each step of cot_relay_start().                          *)
StartIsSound ==
    /\ startPc = "idle" => /\ sockOpen <=> sendLock
                           /\ relayTasks = IF sockOpen THEN 1 ELSE 0
    /\ startPc # "idle" => relayTasks = 0
    /\ startPc = "locked" => ~sockOpen /\ sendLock
    /\ startPc = "opened" => sockOpen /\ sendLock
    /\ startPc = "closed" => ~sockOpen

(* While no lock was deleted under its holder: the holder is who is inside, *)
(* and the socket a sender is about to send on is the one it aimed.        *)
LockProtects ==
    orphans = {} =>
        /\ \A u \in Users : Inside(u) <=> holder = u
        /\ \A u \in Senders : pc[u] = "sendto" =>
            /\ mcastIf = <<egress[u], source[u]>>
            /\ sockOpen \/ startPc = "closed"

(* A datagram was sent once more than addresses were lost, and only if its *)
(* source is an own address still; one in hand is not sent yet.            *)
HopsAreCounted ==
    orphans = {} =>
        /\ \A d \in air :
            /\ d.hops <= 1 + losses
            /\ ~OwnAddress(d.from) => d.hops <= losses
        /\ \A u \in Senders :
            /\ pc[u] # "idle" => carried[u] <= losses
            /\ HasSource(u) /\ address[egress[u]] # source[u] => carried[u] < losses

(* Sends not yet counted, of each sender towards each interface.           *)
Due(u, i) ==
    IF \/ Sending(u) /\ egress[u] = i
       \/ u = Console /\ pc[u] # "idle" /\ egress[u] = Up /\ i = Down
    THEN 1 ELSE 0

DueIsCovered ==
    \A i \in Interfaces :
        tx[i] + Due(Task, i) + Due(Console, i) <= rx[Other(i)] + injected

(* The inductive invariant.                                                *)
IInv ==
    /\ TypeOK
    /\ UsersAreSound
    /\ StartIsSound
    /\ LockProtects
    /\ EgressIsRight
    /\ HopsAreCounted
    /\ DueIsCovered

-----------------------------------------------------------------------------
(* The three users are different tasks.                                    *)
LEMMA UsersDiffer == Task # Console /\ Task # Httpd /\ Console # Httpd
<1>1. \A x, y : IsFiniteSet({x, y}) /\ Cardinality({x, y}) <= 2
  <2> TAKE x, y
  <2>1. IsFiniteSet({x}) /\ Cardinality({x}) = 1
    BY FS_Singleton
  <2>2. {x, y} = {x} \cup {y}
    OBVIOUS
  <2> QED
    BY <2>1, <2>2, FS_AddElement
<1>2. Cardinality({Task, Console, Httpd}) = 3
  BY NamesAssumption DEF Users
<1>3. CASE Task = Console
  <2>1. Cardinality({Task, Httpd}) = 3
    BY <1>2, <1>3
  <2>2. Cardinality({Task, Httpd}) <= 2
    BY <1>1
  <2> QED
    BY <2>1, <2>2
<1>4. CASE Task = Httpd \/ Console = Httpd
  <2>1. {Task, Console, Httpd} = {Task, Console}
    BY <1>4
  <2>2. Cardinality({Task, Console}) = 3
    BY <1>2, <2>1
  <2>3. Cardinality({Task, Console}) <= 2
    BY <1>1
  <2> QED
    BY <2>2, <2>3
<1> QED
  BY <1>3, <1>4

(* The other interface.                                                    *)
LEMMA OtherSide ==
    /\ Other(Up) = Down /\ Other(Down) = Up
    /\ \A i \in Interfaces : Other(i) \in Interfaces /\ Other(Other(i)) = i
<1>1. \A j \in Interfaces : (j # Up <=> j = Down) /\ (j # Down <=> j = Up)
  BY NamesAssumption DEF Interfaces
<1>2. Other(Up) = Down /\ Other(Down) = Up
  BY <1>1 DEF Other, Interfaces
<1> QED
  BY <1>2 DEF Interfaces

(* The invariant holds at boot, the first one and the one after a panic.   *)
LEMMA BootIsSound == (Init => IInv) /\ (Panic => IInv')
<1> USE NamesAssumption, BoundsAssumption, UsersDiffer, OtherSide
    DEF Interfaces, Users, Senders
<1>1. ASSUME Init PROVE IInv
  <2> USE <1>1 DEF Init
  <2>1. TypeOK
    <3>1. ({sockOpen, destSet, sendLock} \subseteq BOOLEAN)
      OBVIOUS
    <3>2. (/\ rx \in [Interfaces -> 0..MaxPackets] /\ tx \in [Interfaces -> Nat])
      OBVIOUS
    <3>3. (/\ carried \in [Senders -> 0..MaxHops] /\ source \in [Senders -> 0..MaxAddresses])
      OBVIOUS
    <3>4. (/\ pc \in [Users -> {"idle", "send", "take", "aim", "sendto", "read", "give"}])
      OBVIOUS
    <3> QED
      BY <3>1, <3>2, <3>3, <3>4 DEF TypeOK
  <2>2. UsersAreSound /\ StartIsSound
    BY DEF UsersAreSound, StartIsSound, HasSource
  <2>3. LockProtects /\ EgressIsRight /\ HopsAreCounted
    BY DEF LockProtects, Inside, EgressIsRight, HopsAreCounted, HasSource
  <2>4. DueIsCovered
    BY DEF DueIsCovered, Due, Sending
  <2> QED
    BY <2>1, <2>2, <2>3, <2>4 DEF IInv
<1>2. ASSUME Panic PROVE IInv'
  <2> USE <1>2 DEF Panic
  <2>1. TypeOK'
    <3>1. ({sockOpen, destSet, sendLock} \subseteq BOOLEAN)'
      OBVIOUS
    <3>2. (/\ rx \in [Interfaces -> 0..MaxPackets] /\ tx \in [Interfaces -> Nat])'
      OBVIOUS
    <3>3. (/\ carried \in [Senders -> 0..MaxHops] /\ source \in [Senders -> 0..MaxAddresses])'
      OBVIOUS
    <3>4. (/\ pc \in [Users -> {"idle", "send", "take", "aim", "sendto", "read", "give"}])'
      OBVIOUS
    <3> QED
      BY <3>1, <3>2, <3>3, <3>4 DEF TypeOK
  <2>2. UsersAreSound' /\ StartIsSound'
    BY DEF UsersAreSound, StartIsSound, HasSource
  <2>3. LockProtects' /\ EgressIsRight' /\ HopsAreCounted'
    BY DEF LockProtects, Inside, EgressIsRight, HopsAreCounted, HasSource
  <2>4. DueIsCovered'
    BY DEF DueIsCovered, Due, Sending
  <2> QED
    BY <2>1, <2>2, <2>3, <2>4 DEF IInv
<1> QED
  BY <1>1, <1>2

(* When send_via() has returned: cot_relay_inject() has the other side to  *)
(* do, or the sender is done.                                              *)
LEMMA WhenReturned ==
    ASSUME TypeOK, NEW u \in Senders, Returned(u)
    PROVE  /\ pc' \in [Users -> {"idle", "send", "take", "aim", "sendto", "read", "give"}]
           /\ egress' \in [Senders -> Interfaces]
           /\ \A v \in Users : v # u => pc'[v] = pc[v]
           /\ \A v \in Senders : v # u => egress'[v] = egress[v]
           /\ \/ /\ u = Console /\ egress[u] = Up
                 /\ pc'[u] = "send" /\ egress'[u] = Down
              \/ /\ u = Console => egress[u] # Up
                 /\ pc'[u] = "idle" /\ egress'[u] = egress[u]
<1> USE NamesAssumption, UsersDiffer DEF TypeOK, Returned, Users, Senders, Interfaces
<1>1. CASE u = Console /\ egress[u] = Up
  BY <1>1
<1>2. CASE ~(u = Console /\ egress[u] = Up)
  BY <1>2
<1> QED
  BY <1>1, <1>2

(* cot_relay_start().                                                      *)
LEMMA StartKeeps == IInv /\ Start => IInv'
<1> USE NamesAssumption, BoundsAssumption, UsersDiffer, OtherSide
    DEF IInv, Interfaces, Users, Senders, net, start, lock, sending, counters
<1>1. ASSUME IInv, StartLocked PROVE IInv'
  <2> USE <1>1 DEF StartLocked
  <2>1. TypeOK'
    BY DEF TypeOK
  <2>2. (UsersAreSound /\ StartIsSound)'
    BY DEF UsersAreSound, StartIsSound, HasSource, AlreadyRunning
  <2>3. LockProtects'
    BY DEF LockProtects, Inside
  <2>4. EgressIsRight'
    BY DEF EgressIsRight
  <2>5. HopsAreCounted'
    BY DEF HopsAreCounted, HasSource, OwnAddress
  <2>6. DueIsCovered'
    BY DEF DueIsCovered, Due, Sending
  <2> QED
    BY <2>1, <2>2, <2>3, <2>4, <2>5, <2>6
<1>2. ASSUME IInv, StartOpens PROVE IInv'
  <2> USE <1>2 DEF StartOpens
  <2>1. TypeOK'
    BY DEF TypeOK
  <2>2. (UsersAreSound /\ StartIsSound)'
    BY DEF UsersAreSound, StartIsSound, HasSource
  <2>3. LockProtects'
    BY DEF LockProtects, Inside, StartIsSound
  <2>4. EgressIsRight'
    BY DEF EgressIsRight
  <2>5. HopsAreCounted'
    BY DEF HopsAreCounted, HasSource, OwnAddress
  <2>6. DueIsCovered'
    BY DEF DueIsCovered, Due, Sending
  <2> QED
    BY <2>1, <2>2, <2>3, <2>4, <2>5, <2>6
<1>3. ASSUME IInv, StartSucceeds PROVE IInv'
  <2> USE <1>3 DEF StartSucceeds
  <2>1. TypeOK'
    BY DEF TypeOK
  <2>2. (UsersAreSound /\ StartIsSound)'
    BY DEF UsersAreSound, StartIsSound, HasSource
  <2>3. LockProtects'
    BY DEF LockProtects, Inside
  <2>4. EgressIsRight'
    BY DEF EgressIsRight
  <2>5. HopsAreCounted'
    BY DEF HopsAreCounted, HasSource, OwnAddress
  <2>6. DueIsCovered'
    BY DEF DueIsCovered, Due, Sending
  <2> QED
    BY <2>1, <2>2, <2>3, <2>4, <2>5, <2>6
<1>4. ASSUME IInv, StartFails PROVE IInv'
  <2> USE <1>4 DEF StartFails
  <2>1. TypeOK'
    BY DEF TypeOK
  <2>2. (UsersAreSound /\ StartIsSound)'
    BY DEF UsersAreSound, StartIsSound, HasSource
  <2>3. LockProtects'
    BY DEF LockProtects, Inside
  <2>4. EgressIsRight'
    BY DEF EgressIsRight
  <2>5. HopsAreCounted'
    BY DEF HopsAreCounted, HasSource, OwnAddress
  <2>6. DueIsCovered'
    BY DEF DueIsCovered, Due, Sending
  <2> QED
    BY <2>1, <2>2, <2>3, <2>4, <2>5, <2>6
<1>5. ASSUME IInv, CleanupLock PROVE IInv'
  <2> USE <1>5 DEF CleanupLock
  <2>1. TypeOK'
    BY DEF TypeOK
  <2>2. (UsersAreSound /\ StartIsSound)'
    BY DEF UsersAreSound, StartIsSound, HasSource
  <2>3. LockProtects'
    BY DEF LockProtects, Inside
  <2>4. EgressIsRight'
    BY DEF EgressIsRight
  <2>5. HopsAreCounted'
    BY DEF HopsAreCounted, HasSource, OwnAddress
  <2>6. DueIsCovered'
    BY DEF DueIsCovered, Due, Sending
  <2> QED
    BY <2>1, <2>2, <2>3, <2>4, <2>5, <2>6
<1> QED
  BY <1>1, <1>2, <1>3, <1>4, <1>5 DEF Start

(* send_via() of a sender.                                                 *)
LEMMA SendKeeps == IInv /\ (\E u \in Senders : Send(u)) => IInv'
<1> USE NamesAssumption, BoundsAssumption, UsersDiffer, OtherSide
    DEF IInv, Interfaces, Users, Senders, net, start, lock, sending, counters
<1>1. ASSUME IInv, NEW u \in Senders, HasAddress(u) PROVE IInv'
  <2> USE <1>1 DEF HasAddress
  <2>1. TypeOK'
    BY DEF TypeOK
  <2>2. (UsersAreSound /\ StartIsSound)'
    BY DEF UsersAreSound, StartIsSound, HasSource, Sourced, TypeOK
  <2>3. LockProtects'
    BY DEF LockProtects, Inside
  <2>4. EgressIsRight'
    BY DEF EgressIsRight
  <2>5. HopsAreCounted'
    BY DEF HopsAreCounted, HasSource, OwnAddress, Sourced, TypeOK, UsersAreSound
  <2>6. DueIsCovered'
    BY DEF DueIsCovered, Due, Sending
  <2> QED
    BY <2>1, <2>2, <2>3, <2>4, <2>5, <2>6
<1>2. ASSUME IInv, NEW u \in Senders, NoAddress(u) PROVE IInv'
  <2> USE <1>2 DEF NoAddress
  <2>1. TypeOK'
    BY WhenReturned DEF TypeOK
  <2>2. (UsersAreSound /\ StartIsSound)'
    BY WhenReturned DEF UsersAreSound, StartIsSound, HasSource, TypeOK
  <2>3. LockProtects'
    BY WhenReturned DEF LockProtects, Inside, TypeOK
  <2>4. EgressIsRight'
    BY DEF EgressIsRight
  <2>5. HopsAreCounted'
    BY WhenReturned DEF HopsAreCounted, HasSource, OwnAddress, TypeOK
  <2>6. DueIsCovered'
    BY WhenReturned DEF DueIsCovered, Due, Sending, TypeOK
  <2> QED
    BY <2>1, <2>2, <2>3, <2>4, <2>5, <2>6
<1>3. ASSUME IInv, NEW u \in Senders, Aim(u) PROVE IInv'
  <2> USE <1>3 DEF Aim
  <2>1. TypeOK'
    <3>1. CASE /\ sockOpen /\ mcastIf' = <<egress[u], source[u]>>
                 /\ pc' = [pc EXCEPT ![u] = "sendto"]
      BY <3>1 DEF TypeOK, UsersAreSound, HasSource, Addresses
    <3>2. CASE mcastIf' = mcastIf /\ pc' = [pc EXCEPT ![u] = "give"]
      BY <3>2 DEF TypeOK, UsersAreSound, HasSource, Addresses
    <3> QED
      BY <3>1, <3>2
  <2>2. (UsersAreSound /\ StartIsSound)'
    <3>1. CASE /\ sockOpen /\ mcastIf' = <<egress[u], source[u]>>
                 /\ pc' = [pc EXCEPT ![u] = "sendto"]
      BY <3>1 DEF UsersAreSound, StartIsSound, HasSource
    <3>2. CASE mcastIf' = mcastIf /\ pc' = [pc EXCEPT ![u] = "give"]
      BY <3>2 DEF UsersAreSound, StartIsSound, HasSource
    <3> QED
      BY <3>1, <3>2
  <2>3. LockProtects'
    <3>1. CASE /\ sockOpen /\ mcastIf' = <<egress[u], source[u]>>
                 /\ pc' = [pc EXCEPT ![u] = "sendto"]
      BY <3>1 DEF LockProtects, Inside, TypeOK
    <3>2. CASE mcastIf' = mcastIf /\ pc' = [pc EXCEPT ![u] = "give"]
      BY <3>2 DEF LockProtects, Inside, TypeOK
    <3> QED
      BY <3>1, <3>2
  <2>4. EgressIsRight'
    BY DEF EgressIsRight
  <2>5. HopsAreCounted'
    <3>1. CASE /\ sockOpen /\ mcastIf' = <<egress[u], source[u]>>
                 /\ pc' = [pc EXCEPT ![u] = "sendto"]
      BY <3>1 DEF HopsAreCounted, HasSource, OwnAddress
    <3>2. CASE mcastIf' = mcastIf /\ pc' = [pc EXCEPT ![u] = "give"]
      BY <3>2 DEF HopsAreCounted, HasSource, OwnAddress
    <3> QED
      BY <3>1, <3>2
  <2>6. DueIsCovered'
    <3>1. CASE /\ sockOpen /\ mcastIf' = <<egress[u], source[u]>>
                 /\ pc' = [pc EXCEPT ![u] = "sendto"]
      BY <3>1 DEF DueIsCovered, Due, Sending, TypeOK
    <3>2. CASE mcastIf' = mcastIf /\ pc' = [pc EXCEPT ![u] = "give"]
      BY <3>2 DEF DueIsCovered, Due, Sending, TypeOK
    <3> QED
      BY <3>1, <3>2
  <2> QED
    BY <2>1, <2>2, <2>3, <2>4, <2>5, <2>6
<1>4. ASSUME IInv, NEW u \in Senders, SendTo(u) PROVE IInv'
  <2> USE <1>4 DEF SendTo
  <2> DEFINE sent == [out |-> mcastIf[1], meant |-> egress[u], from |-> mcastIf,
                      hops |-> carried[u] + 1]
  <2>0. /\ pc \in [Users -> {"idle", "send", "take", "aim", "sendto", "read", "give"}]
        /\ egress[u] \in Interfaces
        /\ carried[u] \in Nat /\ losses \in Nat
        /\ tx \in [Interfaces -> Nat] /\ rx \in [Interfaces -> Nat] /\ injected \in Nat
    BY DEF TypeOK
  <2>1. (UsersAreSound /\ StartIsSound)'
    BY <2>0 DEF UsersAreSound, StartIsSound, HasSource
  <2>2. LockProtects'
    BY <2>0 DEF LockProtects, Inside
  <2>3. CASE UNCHANGED <<tx, air>>
    <3>1. TypeOK'
      BY <2>3 DEF TypeOK
    <3>2. EgressIsRight' /\ HopsAreCounted'
      BY <2>0, <2>3 DEF EgressIsRight, HopsAreCounted, HasSource, OwnAddress
    <3>3. DueIsCovered'
      BY <2>0, <2>3 DEF DueIsCovered, Due, Sending
    <3> QED
      BY <2>1, <2>2, <3>1, <3>2, <3>3
  <2>4. CASE /\ mcastIf \in Addresses
             /\ tx' = [tx EXCEPT ![Counted(u)] = @ + 1]
             /\ \E still \in SUBSET air : air' = still \cup {sent}
    <3>1. PICK still \in SUBSET air : air' = still \cup {sent}
      BY <2>4
    <3>2. TypeOK'
      <4>1. mcastIf[1] \in Interfaces /\ carried[u] + 1 \in 1..MaxHops
        BY <2>4, <2>0 DEF Addresses, UsersAreSound, TypeOK
      <4>2. sent \in Datagram
        BY <2>4, <2>0, <4>1 DEF Datagram
      <4>3. air' \subseteq Datagram
      BY <3>1, <4>2 DEF TypeOK
      <4>4. tx' \in [Interfaces -> Nat]
        BY <2>0, <2>4 DEF Counted
      <4> QED
        BY <4>3, <4>4 DEF TypeOK
    <3>3. ASSUME orphans = {}
          PROVE  /\ mcastIf = <<egress[u], source[u]>>
                 /\ mcastIf[1] = egress[u] /\ mcastIf[2] = source[u]
      BY <3>3 DEF LockProtects
    <3>4. EgressIsRight'
      BY <3>1, <3>3 DEF EgressIsRight
    <3>5. HopsAreCounted'
      <4> SUFFICES ASSUME orphans = {} PROVE HopsAreCounted'
        BY DEF HopsAreCounted
      <4>1. carried[u] <= losses /\ (address[egress[u]] # source[u] => carried[u] < losses)
        BY DEF HopsAreCounted, HasSource
      <4>2. sent.hops <= 1 + losses /\ (~OwnAddress(sent.from) => sent.hops <= losses)
        BY <2>0, <2>4, <3>3, <4>1 DEF OwnAddress
      <4> QED
        BY <2>0, <3>1, <4>2 DEF HopsAreCounted, HasSource, OwnAddress
    <3>6. DueIsCovered'
      BY <2>0, <2>4 DEF DueIsCovered, Due, Sending, Counted
    <3> QED
      BY <2>1, <2>2, <3>2, <3>4, <3>5, <3>6
  <2> QED
    BY <2>3, <2>4
<1> QED
  BY <1>1, <1>2, <1>3, <1>4 DEF Send

(* The lock.                                                               *)
LEMMA LockKeeps == IInv /\ (\E u \in Users : Lock(u)) => IInv'
<1> USE NamesAssumption, BoundsAssumption, UsersDiffer, OtherSide
    DEF IInv, Interfaces, Users, Senders, net, start, lock, sending, counters
<1>1. ASSUME IInv, NEW u \in Users, Take(u) PROVE IInv'
  <2> USE <1>1 DEF Take
  <2>1. TypeOK'
    BY DEF TypeOK
  <2>2. (UsersAreSound /\ StartIsSound)'
    BY DEF UsersAreSound, StartIsSound, HasSource
  <2>3. LockProtects'
    BY DEF LockProtects, Inside, LockFree, TypeOK
  <2>4. EgressIsRight'
    BY DEF EgressIsRight
  <2>5. HopsAreCounted'
    BY DEF HopsAreCounted, HasSource, OwnAddress
  <2>6. DueIsCovered'
    BY DEF DueIsCovered, Due, Sending
  <2> QED
    BY <2>1, <2>2, <2>3, <2>4, <2>5, <2>6
<1>2. ASSUME IInv, NEW u \in Users, TakeDead(u) PROVE IInv'
  BY <1>2, BootIsSound DEF TakeDead
<1>3. ASSUME IInv, NEW u \in Users, Give(u) PROVE IInv'
  <2> USE <1>3 DEF Give
  <2>1. TypeOK'
    BY WhenReturned DEF TypeOK
  <2>2. (UsersAreSound /\ StartIsSound)'
    BY WhenReturned DEF UsersAreSound, StartIsSound, HasSource, TypeOK
  <2>3. LockProtects'
    BY WhenReturned DEF LockProtects, Inside, TypeOK
  <2>4. EgressIsRight'
    BY DEF EgressIsRight
  <2>5. HopsAreCounted'
    BY WhenReturned DEF HopsAreCounted, HasSource, OwnAddress, TypeOK
  <2>6. DueIsCovered'
    BY WhenReturned DEF DueIsCovered, Due, Sending, TypeOK
  <2> QED
    BY <2>1, <2>2, <2>3, <2>4, <2>5, <2>6
<1>4. ASSUME IInv, NEW u \in Users, GiveDead(u) PROVE IInv'
  BY <1>4, BootIsSound DEF GiveDead
<1> QED
  BY <1>1, <1>2, <1>3, <1>4 DEF Lock

(* The console and the web server.                                         *)
LEMMA ReadersKeep == IInv /\ (Inject \/ ReadCounters \/ CopyCounters) => IInv'
<1> USE NamesAssumption, BoundsAssumption, UsersDiffer, OtherSide
    DEF IInv, Interfaces, Users, Senders, net, start, lock, sending, counters
<1>1. ASSUME IInv, Inject PROVE IInv'
  <2> USE <1>1 DEF Inject
  <2>1. TypeOK'
    BY DEF TypeOK
  <2>2. (UsersAreSound /\ StartIsSound)'
    BY DEF UsersAreSound, StartIsSound, HasSource
  <2>3. LockProtects'
    BY DEF LockProtects, Inside
  <2>4. EgressIsRight'
    BY DEF EgressIsRight
  <2>5. HopsAreCounted'
    BY DEF HopsAreCounted, HasSource, OwnAddress, TypeOK
  <2>6. DueIsCovered'
    BY DEF DueIsCovered, Due, Sending, TypeOK
  <2> QED
    BY <2>1, <2>2, <2>3, <2>4, <2>5, <2>6
<1>2. ASSUME IInv, ReadCounters PROVE IInv'
  <2> USE <1>2 DEF ReadCounters
  <2>1. TypeOK'
    BY DEF TypeOK
  <2>2. (UsersAreSound /\ StartIsSound)'
    BY DEF UsersAreSound, StartIsSound, HasSource
  <2>3. LockProtects'
    BY DEF LockProtects, Inside
  <2>4. EgressIsRight'
    BY DEF EgressIsRight
  <2>5. HopsAreCounted'
    BY DEF HopsAreCounted, HasSource, OwnAddress
  <2>6. DueIsCovered'
    BY DEF DueIsCovered, Due, Sending
  <2> QED
    BY <2>1, <2>2, <2>3, <2>4, <2>5, <2>6
<1>3. ASSUME IInv, CopyCounters PROVE IInv'
  <2> USE <1>3 DEF CopyCounters
  <2>1. TypeOK'
    BY DEF TypeOK
  <2>2. (UsersAreSound /\ StartIsSound)'
    BY DEF UsersAreSound, StartIsSound, HasSource
  <2>3. LockProtects'
    BY DEF LockProtects, Inside, UsersAreSound, TypeOK
  <2>4. EgressIsRight'
    BY DEF EgressIsRight
  <2>5. HopsAreCounted'
    BY DEF HopsAreCounted, HasSource, OwnAddress
  <2>6. DueIsCovered'
    BY DEF DueIsCovered, Due, Sending
  <2> QED
    BY <2>1, <2>2, <2>3, <2>4, <2>5, <2>6
<1> QED
  BY <1>1, <1>2, <1>3

(* The interfaces.                                                         *)
LEMMA AddressesKeep == IInv /\ (\E i \in Interfaces : GainAddress(i) \/ LoseAddress(i)) => IInv'
<1> USE NamesAssumption, BoundsAssumption, UsersDiffer, OtherSide
    DEF IInv, Interfaces, Users, Senders, net, start, lock, sending, counters
<1>1. ASSUME IInv, NEW i \in Interfaces, GainAddress(i) PROVE IInv'
  <2> USE <1>1 DEF GainAddress
  <2>1. TypeOK'
    BY DEF TypeOK
  <2>2. (UsersAreSound /\ StartIsSound)'
    BY DEF UsersAreSound, StartIsSound, HasSource
  <2>3. LockProtects'
    BY DEF LockProtects, Inside
  <2>4. EgressIsRight'
    BY DEF EgressIsRight
  <2>5. HopsAreCounted'
    BY DEF HopsAreCounted, HasSource, OwnAddress, TypeOK, UsersAreSound, Datagram, Addresses
  <2>6. DueIsCovered'
    BY DEF DueIsCovered, Due, Sending
  <2> QED
    BY <2>1, <2>2, <2>3, <2>4, <2>5, <2>6
<1>2. ASSUME IInv, NEW i \in Interfaces, LoseAddress(i) PROVE IInv'
  <2> USE <1>2 DEF LoseAddress
  <2>1. TypeOK'
    BY DEF TypeOK
  <2>2. (UsersAreSound /\ StartIsSound)'
    BY DEF UsersAreSound, StartIsSound, HasSource
  <2>3. LockProtects'
    BY DEF LockProtects, Inside
  <2>4. EgressIsRight'
    BY DEF EgressIsRight
  <2>5. HopsAreCounted'
    BY DEF HopsAreCounted, HasSource, OwnAddress, TypeOK, UsersAreSound, Datagram, Addresses
  <2>6. DueIsCovered'
    BY DEF DueIsCovered, Due, Sending
  <2> QED
    BY <2>1, <2>2, <2>3, <2>4, <2>5, <2>6
<1> QED
  BY <1>1, <1>2

(* relay_task() takes a datagram in: from a peer, or one of its own that   *)
(* came back after its source address was lost.                            *)
LEMMA ArrivalsKeep == IInv /\ (FromPeer \/ Reflected) => IInv'
<1> USE NamesAssumption, BoundsAssumption, UsersDiffer, OtherSide
    DEF IInv, Interfaces, Users, Senders, net, start, lock, sending, counters
<1>1. ASSUME IInv, NEW i \in Interfaces, NEW from, NEW hops \in 0..(MaxHops - 1),
             Arrives(i, from, hops), orphans = {} => hops <= losses
      PROVE  IInv'
  <2> USE <1>1 DEF Arrives
  <2>1. TypeOK'
    BY DEF TypeOK
  <2>2. (UsersAreSound /\ StartIsSound)'
    BY DEF UsersAreSound, StartIsSound, HasSource, TypeOK
  <2>3. LockProtects'
    BY DEF LockProtects, Inside, TypeOK
  <2>4. EgressIsRight'
    BY DEF EgressIsRight
  <2>5. HopsAreCounted'
    BY DEF HopsAreCounted, HasSource, OwnAddress, TypeOK
  <2>6. DueIsCovered'
    BY DEF DueIsCovered, Due, Sending, TypeOK
  <2> QED
    BY <2>1, <2>2, <2>3, <2>4, <2>5, <2>6
<1>2. ASSUME IInv, FromPeer PROVE IInv'
  <2>1. PICK i \in Interfaces : Arrives(i, Foreign, 0)
    BY <1>2 DEF FromPeer
  <2>2. 0 \in 0..(MaxHops - 1) /\ (orphans = {} => 0 <= losses)
    BY <1>2 DEF TypeOK
  <2> QED
    BY <1>1, <1>2, <2>1, <2>2
<1>3. ASSUME IInv, Reflected PROVE IInv'
  <2>1. PICK d \in air : d.hops < MaxHops /\ Arrives(d.out, d.from, d.hops)
    BY <1>3 DEF Reflected
  <2>2. d.out \in Interfaces /\ d.hops \in 0..(MaxHops - 1)
    BY <1>3, <2>1 DEF TypeOK, Datagram
  <2>3. orphans = {} => d.hops <= losses
    BY <1>3, <2>1 DEF Arrives, HopsAreCounted
  <2> QED
    BY <1>1, <1>3, <2>1, <2>2, <2>3
<1> QED
  BY <1>2, <1>3

-----------------------------------------------------------------------------
(* The invariant holds whatever the interfaces, the network, the failures  *)
(* of cot_relay_start() and the callers of the relay do.                   *)
THEOREM Inductive == Spec => []IInv
<1>1. IInv /\ [Next]_vars => IInv'
  <2> SUFFICES ASSUME IInv, [Next]_vars PROVE IInv'
    OBVIOUS
  <2>1. CASE Next
    BY <2>1, StartKeeps, SendKeeps, LockKeeps, ReadersKeep, ArrivalsKeep, AddressesKeep
    DEF Next
  <2>2. CASE UNCHANGED vars
    BY <2>2
    DEF vars, net, start, lock, sending, counters, IInv, TypeOK, UsersAreSound, StartIsSound,
        LockProtects, EgressIsRight, HopsAreCounted, DueIsCovered, HasSource, Inside,
        OwnAddress, Due, Sending
  <2> QED
    BY <2>1, <2>2
<1> QED
  BY <1>1, BootIsSound, PTL DEF Spec

(* Starting the relay again and again never makes a second relay_task(),   *)
(* and the one there is has a socket and a lock.                           *)
THEOREM RelayIsOne == Spec => []OneRelay
<1>1. IInv => OneRelay
  BY DEF IInv, StartIsSound, OneRelay
<1> QED
  BY <1>1, Inductive, PTL

(* No datagram leaves by another interface than its sender meant, as long  *)
(* as relay_cleanup() has deleted no lock under its holder.                *)
THEOREM EgressAsMeant == Spec => []EgressIsRight
<1>1. IInv => EgressIsRight
  BY DEF IInv
<1> QED
  BY <1>1, Inductive, PTL

(* A datagram goes round once more at most for every address lost.         *)
THEOREM EchoesEnd == Spec => []EchoesAreBounded
<1>1. IInv => EchoesAreBounded
  BY DEF IInv, HopsAreCounted, EchoesAreBounded
<1> QED
  BY <1>1, Inductive, PTL

(* Nothing is counted as sent that was not received or injected.           *)
THEOREM CountersAgree == Spec => []CountersBalance
<1>1. IInv => CountersBalance
  <2> SUFFICES ASSUME IInv, NEW i \in Interfaces PROVE tx[i] <= rx[Other(i)] + injected
    BY DEF CountersBalance
  <2>1. tx[i] \in Nat /\ rx[Other(i)] \in Nat /\ injected \in Nat
    BY OtherSide, BoundsAssumption DEF IInv, TypeOK
  <2>2. tx[i] + Due(Task, i) + Due(Console, i) <= rx[Other(i)] + injected
    BY DEF IInv, DueIsCovered
  <2> QED
    BY <2>1, <2>2 DEF Due
<1> QED
  BY <1>1, Inductive, PTL

-----------------------------------------------------------------------------
(* The relay as a bridge.                                                  *)

LEMMA Names == Bridge!Sides = Interfaces /\ Bridge!Senders = Senders
  BY DEF Bridge!Sides, Bridge!Senders, Interfaces, Senders

(* A step after which every sender has the same to do, and that neither    *)
(* counts a datagram nor starts a relay_task(), is none of the bridge's.   *)
LEMMA NothingSent ==
    ASSUME \A u \in Senders : SidesLeft(u)' = SidesLeft(u),
           UNCHANGED <<relayTasks, rx, tx, injected>>
    PROVE  UNCHANGED Bridge!vars
<1>1. [u \in Senders |-> SidesLeft(u)]' = [u \in Senders |-> SidesLeft(u)]
  OBVIOUS
<1> QED
  BY <1>1 DEF Bridge!vars

(* A sender that has less to do by one side is done with that side.        *)
LEMMA SideDone ==
    ASSUME NEW u \in Senders, NEW i \in SidesLeft(u),
           SidesLeft(u)' = SidesLeft(u) \ {i},
           \A v \in Senders : v # u => SidesLeft(v)' = SidesLeft(v)
    PROVE  Bridge!Done(u, i)
<1>1. [v \in Senders |-> SidesLeft(v)]' =
      [[v \in Senders |-> SidesLeft(v)] EXCEPT ![u] = SidesLeft(u) \ {i}]
  OBVIOUS
<1>2. i \in [v \in Senders |-> SidesLeft(v)][u]
  OBVIOUS
<1> QED
  BY <1>1, <1>2 DEF Bridge!Done

(* A sender that drops its datagram for one side, and one that sends it.   *)
LEMMA Dropped ==
    ASSUME NEW u \in Senders, NEW i \in SidesLeft(u),
           SidesLeft(u)' = SidesLeft(u) \ {i},
           \A v \in Senders : v # u => SidesLeft(v)' = SidesLeft(v),
           UNCHANGED <<relayTasks, rx, tx, injected>>
    PROVE  Bridge!Next
<1>1. Bridge!Done(u, i)
  BY SideDone
<1>2. i \in Interfaces
  BY DEF SidesLeft
<1> QED
  BY <1>1, <1>2, Names DEF Bridge!Next, Bridge!Drop

(* cot_relay_start(): a relay_task() is created when there is none.        *)
LEMMA StartBridges == IInv /\ Start => [Bridge!Next]_(Bridge!vars)
<1> SUFFICES ASSUME IInv, Start PROVE [Bridge!Next]_(Bridge!vars)
  OBVIOUS
<1>1. /\ \A u \in Senders : SidesLeft(u)' = SidesLeft(u)
      /\ UNCHANGED <<rx, tx, injected>>
  BY DEF Start, StartLocked, StartOpens, StartSucceeds, StartFails, CleanupLock,
         sending, counters, SidesLeft
<1>2. CASE StartSucceeds
  <2>1. relayTasks = 0 /\ relayTasks' = 1
    BY <1>2 DEF StartSucceeds, IInv, StartIsSound
  <2>2. [u \in Senders |-> SidesLeft(u)]' = [u \in Senders |-> SidesLeft(u)]
    BY <1>1
  <2>3. ~(relayTasks > 0) /\ (relayTasks > 0)' = TRUE
    BY <2>1
  <2> QED
    BY <1>1, <2>2, <2>3 DEF Bridge!Next, Bridge!Start
<1>3. CASE relayTasks' = relayTasks
  BY <1>1, <1>3, NothingSent
<1> QED
  BY <1>2, <1>3 DEF Start, StartLocked, StartOpens, StartFails, CleanupLock, start

(* What comes in on one side is to be sent on the other.                   *)
LEMMA ArrivalBridges ==
    ASSUME IInv, NEW i \in Interfaces, NEW from, NEW hops, Arrives(i, from, hops)
    PROVE  Bridge!Next
<1> USE UsersDiffer, OtherSide DEF Arrives, Interfaces, Users, Senders
<1>1. SidesLeft(Task) = {} /\ SidesLeft(Task)' = Interfaces \ {i}
  <2>1. pc'[Task] = "send" /\ egress'[Task] = Other(i)
    BY DEF IInv, TypeOK
  <2>2. Other(i) \in Interfaces /\ Interfaces \ {i} = {Other(i)}
    BY NamesAssumption
  <2>3. SidesLeft(Task)' = {Other(i)}
    BY <2>1, <2>2 DEF SidesLeft
  <2>4. SidesLeft(Task) = {}
    BY DEF SidesLeft
  <2> QED
    BY <2>2, <2>3, <2>4
<1>2. SidesLeft(Console)' = SidesLeft(Console)
  BY DEF SidesLeft, IInv, TypeOK
<1>3. [u \in Senders |-> SidesLeft(u)]' =
      [[u \in Senders |-> SidesLeft(u)] EXCEPT ![Task] = Interfaces \ {i}]
  BY <1>1, <1>2
<1>4. [u \in Senders |-> SidesLeft(u)][Task] = {}
  BY <1>1
<1>5. relayTasks > 0 /\ (relayTasks > 0)' = (relayTasks > 0)
  BY DEF start
<1>6. rx' = [rx EXCEPT ![i] = @ + 1] /\ UNCHANGED <<tx, injected>>
  OBVIOUS
<1>7. Bridge!Receive(i)
  BY <1>3, <1>4, <1>5, <1>6, Names DEF Bridge!Receive
<1> QED
  BY <1>7, Names DEF Bridge!Next

(* What is injected is to be sent on both sides.                           *)
LEMMA InjectionBridges == IInv /\ Inject => Bridge!Next
<1> SUFFICES ASSUME IInv, Inject PROVE Bridge!Next
  OBVIOUS
<1> USE NamesAssumption, UsersDiffer DEF Inject, Interfaces, Users, Senders
<1>1. SidesLeft(Console) = {} /\ SidesLeft(Console)' = Interfaces
  BY DEF SidesLeft, IInv, TypeOK
<1>2. SidesLeft(Task)' = SidesLeft(Task)
  BY DEF SidesLeft, IInv, TypeOK
<1>3. [u \in Senders |-> SidesLeft(u)]' =
      [[u \in Senders |-> SidesLeft(u)] EXCEPT ![Console] = Interfaces]
  BY <1>1, <1>2
<1>4. [u \in Senders |-> SidesLeft(u)][Console] = {}
  BY <1>1
<1>5. UNCHANGED <<relayTasks, rx, tx>> /\ injected' = injected + 2
  BY DEF start
<1> QED
  BY <1>3, <1>4, <1>5, Names DEF Bridge!Next, Bridge!Inject

(* When send_via() has returned, the side it was for is done with, if it   *)
(* was not yet.                                                            *)
LEMMA SidesWhenReturned ==
    ASSUME IInv, NEW u \in Senders, pc[u] \in {"send", "give"}, Returned(u)
    PROVE  /\ SidesLeft(u)' = SidesLeft(u) \ {egress[u]}
           /\ pc[u] = "give" => egress[u] \notin SidesLeft(u)
           /\ pc[u] = "send" => egress[u] \in SidesLeft(u)
           /\ \A v \in Senders : v # u => SidesLeft(v)' = SidesLeft(v)
<1> USE NamesAssumption, UsersDiffer DEF Interfaces, Users, Senders
<1>1. /\ egress[u] \in {Up, Down}
      /\ pc \in [Users -> {"idle", "send", "take", "aim", "sendto", "read", "give"}]
  BY DEF IInv, TypeOK
<1>2. SidesLeft(u)' = SidesLeft(u) \ {egress[u]}
  BY <1>1, WhenReturned DEF IInv, SidesLeft
<1>3. (pc[u] = "give" => egress[u] \notin SidesLeft(u))
      /\ (pc[u] = "send" => egress[u] \in SidesLeft(u))
  BY <1>1 DEF SidesLeft
<1>4. \A v \in Senders : v # u => SidesLeft(v)' = SidesLeft(v)
  BY WhenReturned DEF IInv, SidesLeft
<1> QED
  BY <1>2, <1>3, <1>4

(* send_via(): the datagram leaves, or is dropped, when its side is done.  *)
LEMMA SendBridges ==
    ASSUME IInv, NEW u \in Senders, Send(u)
    PROVE  [Bridge!Next]_(Bridge!vars)
<1> USE UsersDiffer, NamesAssumption DEF Interfaces, Users, Senders
<1>0. /\ egress[u] \in Interfaces
      /\ pc \in [Users -> {"idle", "send", "take", "aim", "sendto", "read", "give"}]
  BY DEF IInv, TypeOK
<1>1. CASE HasAddress(u)
  <2>1. \A v \in Senders : SidesLeft(v)' = SidesLeft(v)
    BY <1>0, <1>1 DEF HasAddress, SidesLeft
  <2> QED
    BY <1>1, <2>1, NothingSent DEF HasAddress, start, counters
<1>2. CASE NoAddress(u)
  BY <1>2, SidesWhenReturned, Dropped DEF NoAddress, start, counters
<1>3. CASE Aim(u)
  <2>1. UNCHANGED <<relayTasks, rx, tx, injected, egress>>
    BY <1>3 DEF Aim, start, counters, sending
  <2>2. CASE pc' = [pc EXCEPT ![u] = "sendto"]
    <3>1. \A v \in Senders : SidesLeft(v)' = SidesLeft(v)
      BY <1>0, <1>3, <2>1, <2>2 DEF Aim, SidesLeft
    <3> QED
      BY <2>1, <3>1, NothingSent
  <2>3. CASE pc' = [pc EXCEPT ![u] = "give"]
    <3>1. /\ egress[u] \in SidesLeft(u)
          /\ SidesLeft(u)' = SidesLeft(u) \ {egress[u]}
      BY <1>0, <1>3, <2>1, <2>3 DEF Aim, SidesLeft
    <3>2. \A v \in Senders : v # u => SidesLeft(v)' = SidesLeft(v)
      BY <1>0, <2>1, <2>3 DEF SidesLeft
    <3> QED
      BY <2>1, <3>1, <3>2, Dropped
  <2> QED
    BY <1>3, <2>2, <2>3 DEF Aim
<1>4. CASE SendTo(u)
  <2>1. UNCHANGED <<relayTasks, rx, injected, egress>> /\ pc' = [pc EXCEPT ![u] = "give"]
    BY <1>4 DEF SendTo, start, sending
  <2>2. /\ egress[u] \in SidesLeft(u)
        /\ SidesLeft(u)' = SidesLeft(u) \ {egress[u]}
    BY <1>0, <1>4, <2>1 DEF SendTo, SidesLeft
  <2>3. \A v \in Senders : v # u => SidesLeft(v)' = SidesLeft(v)
    BY <1>0, <2>1 DEF SidesLeft
  <2>4. CASE tx' = [tx EXCEPT ![egress[u]] = @ + 1]
    <3>1. Bridge!Done(u, egress[u])
      BY <2>2, <2>3, SideDone
    <3> QED
      BY <1>0, <2>1, <2>4, <3>1, Names DEF Bridge!Next, Bridge!Send
  <2>5. CASE tx' = tx
    BY <2>1, <2>2, <2>3, <2>5, Dropped
  <2> QED
    BY <1>4, <2>4, <2>5 DEF SendTo, Counted
<1> QED
  BY <1>1, <1>2, <1>3, <1>4 DEF Send

(* A node that starts again has nothing to send.                           *)
LEMMA PanicRestarts == Panic => Bridge!Next
<1> SUFFICES ASSUME Panic PROVE Bridge!Next
  OBVIOUS
<1>1. \A u \in Senders : SidesLeft(u)' = {}
  BY DEF Panic, SidesLeft, Senders, Users
<1>2. [u \in Senders |-> SidesLeft(u)]' = [u \in Senders |-> {}]
  BY <1>1
<1>3. (relayTasks > 0)' = FALSE
  BY DEF Panic
<1>4. rx' = [i \in Interfaces |-> 0] /\ tx' = rx' /\ injected' = 0
  BY DEF Panic
<1> QED
  BY <1>2, <1>3, <1>4, Names DEF Bridge!Next, Bridge!Restart

(* The lock is given when the side is done with; a dead lock restarts.     *)
LEMMA LockBridges ==
    ASSUME IInv, NEW u \in Users, Lock(u)
    PROVE  [Bridge!Next]_(Bridge!vars)
<1> USE UsersDiffer, NamesAssumption DEF Interfaces, Users, Senders
<1>1. CASE Take(u)
  <2>1. \A v \in Senders : SidesLeft(v)' = SidesLeft(v)
    BY <1>1 DEF Take, SidesLeft, IInv, TypeOK, sending
  <2> QED
    BY <1>1, <2>1, NothingSent DEF Take, start, counters
<1>2. CASE TakeDead(u) \/ GiveDead(u)
  BY <1>2, PanicRestarts DEF TakeDead, GiveDead
<1>3. CASE Give(u)
  <2>1. u \in Senders /\ UNCHANGED <<relayTasks, rx, tx, injected>>
    BY <1>3 DEF Give, start, counters
  <2>2. \A v \in Senders : SidesLeft(v)' = SidesLeft(v)
    BY <1>3, <2>1, SidesWhenReturned DEF Give
  <2> QED
    BY <2>1, <2>2, NothingSent
<1> QED
  BY <1>1, <1>2, <1>3 DEF Lock

(* Every step of the relay is a step of the bridge, or none.               *)
LEMMA BridgeStep == ASSUME IInv, [Next]_vars PROVE [Bridge!Next]_(Bridge!vars)
<1>1. CASE FromPeer \/ Reflected
  BY <1>1, ArrivalBridges DEF FromPeer, Reflected, IInv, TypeOK, Datagram
<1>2. CASE Inject
  BY <1>2, InjectionBridges
<1>3. CASE ReadCounters \/ CopyCounters
  <2>1. \A u \in Senders : SidesLeft(u)' = SidesLeft(u)
    BY <1>3, UsersDiffer
    DEF ReadCounters, CopyCounters, SidesLeft, IInv, TypeOK, sending, Users, Senders
  <2> QED
    BY <1>3, <2>1, NothingSent DEF ReadCounters, CopyCounters, start, counters
<1>4. CASE \E i \in Interfaces : GainAddress(i) \/ LoseAddress(i)
  <2>1. \A u \in Senders : SidesLeft(u)' = SidesLeft(u)
    BY <1>4 DEF GainAddress, LoseAddress, SidesLeft, sending
  <2> QED
    BY <1>4, <2>1, NothingSent DEF GainAddress, LoseAddress, start, counters
<1>5. CASE UNCHANGED vars
  <2>1. \A u \in Senders : SidesLeft(u)' = SidesLeft(u)
    BY <1>5 DEF vars, SidesLeft, sending
  <2> QED
    BY <1>5, <2>1, NothingSent DEF vars, start, counters
<1> QED
  BY <1>1, <1>2, <1>3, <1>4, <1>5, StartBridges, SendBridges, LockBridges DEF Next

(* Whatever interleaves with it and fails, the relay sends what it was     *)
(* given and no more: each datagram it received at most once on the other  *)
(* side, each one injected at most once on both; and a relay that was      *)
(* started runs until the node starts again.                               *)
THEOREM Implements == Spec => ImplementsBridge
<1>1. Init => Bridge!Init
  <2> SUFFICES ASSUME Init PROVE Bridge!Init
    OBVIOUS
  <2>1. [u \in Senders |-> SidesLeft(u)] = [u \in Senders |-> {}]
    BY DEF Init, SidesLeft, Senders, Users
  <2>2. (relayTasks > 0) = FALSE
    BY DEF Init
  <2> QED
    BY <2>1, <2>2, Names DEF Init, Bridge!Init
<1> QED
  BY <1>1, BridgeStep, Inductive, PTL DEF Spec, ImplementsBridge, Bridge!Spec
=============================================================================
