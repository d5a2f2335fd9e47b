--------------------------- MODULE Datapath_proofs ---------------------------
(***************************************************************************)
(* Proofs of the safety properties of Datapath, for any thresholds of the  *)
(* heap guard in the order HeapAssumption gives them.                      *)
(***************************************************************************)
EXTENDS Datapath, TLAPS

\* What an attempt of datapath_task() knows at each of its steps: results it
\* took for successes stand, and past the check for NULL netifs the role it
\* read is the role booted.
AttemptIsSound ==
    /\ natOk => napt
    /\ cotOk => cotRelay
    /\ pc \in {"downlink", "route", "napt"} => picked = bootedRole
    /\ pc \in {"dns", "stop", "option", "start"} =>
           picked = "client" /\ bootedRole = "client"
    /\ pc = "forwarder" => picked = "relay"

\* The inductive invariant.
IInv ==
    /\ TypeOK
    /\ AttemptIsSound
    /\ DatapathIsComplete
    /\ OneRoleOnly
    /\ ServerRuns
    /\ CotGivesWayFirst

\* What the environment changes, none of the invariant's parts reads, except
\* for the types.
LEMMA EnvironmentKeeps == IInv /\ Environment => IInv'
<1> SUFFICES ASSUME IInv, Environment PROVE IInv'
  OBVIOUS
<1> USE DEF IInv, TypeOK, Roles, Heaps
<1>1. /\ UNCHANGED <<wake, pc, attempt, up, server, guard>> \/ UplinkUp
      /\ UNCHANGED <<pc, attempt, up, server, guard, bootedRole>>
  BY DEF Environment, UplinkUp, UplinkDown, DownlinkChanges, RoleChanges, HeapChanges
<1>2. TypeOK'
  BY DEF Environment, UplinkUp, UplinkDown, DownlinkChanges, RoleChanges, HeapChanges,
         attempt, up, server, guard
<1>3. AttemptIsSound' /\ DatapathIsComplete' /\ OneRoleOnly'
  BY <1>1 DEF AttemptIsSound, DatapathIsComplete, OneRoleOnly, attempt, up, server
<1>4. ServerRuns' /\ CotGivesWayFirst'
  BY <1>1 DEF ServerRuns, CotGivesWayFirst, Propagating, server, guard
<1> QED
  BY <1>2, <1>3, <1>4

\* A sample of the heap guard: the CoT threshold lies above the node's at
\* both ends, so whoever is paused is past the other one too.
LEMMA SampleKeeps == IInv /\ Sample => IInv'
<1> SUFFICES ASSUME IInv, Sample PROVE IInv'
  OBVIOUS
<1> USE DEF Sample
<1>1. /\ heap \in Nat /\ sampled \in Nat
      /\ NodeEnter \in Nat /\ NodeExit \in Nat /\ CotEnter \in Nat /\ CotExit \in Nat
      /\ NodeEnter <= NodeExit /\ NodeExit <= CotEnter /\ CotEnter <= CotExit
  BY HeapAssumption DEF IInv, TypeOK, Heaps
<1>2. TypeOK'
  <2>1. CotShed \in BOOLEAN /\ NodeShed \in BOOLEAN
    BY DEF CotShed, NodeShed, ShedFrom
  <2>2. {dhcp, dhcpPaused, startFailed}' \subseteq BOOLEAN
    BY <2>1 DEF IInv, TypeOK, Pause
  <2> QED
    BY <2>1, <2>2 DEF IInv, TypeOK, env, attempt, up, InternalHeap
<1>3. AttemptIsSound' /\ DatapathIsComplete' /\ OneRoleOnly'
  BY DEF IInv, AttemptIsSound, DatapathIsComplete, OneRoleOnly, env, attempt, up
<1>4. ServerRuns'
  <2>1. CASE UNCHANGED <<dhcpPaused, dhcp, startFailed>>
    BY <2>1 DEF IInv, ServerRuns, Propagating, env
  <2>2. CASE dhcpPaused' = NodeShed /\ dhcp' = ~NodeShed
    BY <2>2 DEF ServerRuns
  <2> QED
    BY <2>1, <2>2 DEF Pause
<1>5. CotGivesWayFirst'
  <2> SUFFICES ASSUME dhcpPaused', sampled' < NodeExit PROVE shedCot'
    BY DEF CotGivesWayFirst
  <2>1. heap < NodeExit /\ shedCot' = (heap < IF shedCot THEN CotExit ELSE CotEnter)
    BY DEF CotShed, ShedFrom, InternalHeap
  <2>2. heap < CotEnter /\ heap < CotExit
    BY <1>1, <2>1
  <2> QED
    BY <2>1, <2>2
<1> QED
  BY <1>2, <1>3, <1>4, <1>5 DEF IInv

\* A step of datapath_task(): its types.
LEMMA TaskKeepsTypes == TypeOK /\ Task => TypeOK'
<1> SUFFICES ASSUME TypeOK, Task PROVE TypeOK'
  OBVIOUS
<1>0. {napt, defaultRoute, forwarder, offersDns, natOk, cotOk} \subseteq BOOLEAN
  BY DEF TypeOK
<1> USE DEF Steps, env, attempt, up, server, guard
<1>1. CASE WakeUp
  BY <1>1 DEF WakeUp, TypeOK
<1>2. CASE DownlinkIsUp \/ DownlinkTimeout
  BY <1>2 DEF DownlinkIsUp, DownlinkTimeout, TypeOK
<1>3. CASE ReadDns
  BY <1>3 DEF ReadDns, TypeOK
<1>4. CASE StopServer
  BY <1>4 DEF StopServer, TypeOK
<1>5. CASE SetOption
  <2>1. pc' \in Steps /\ offersDns' \in BOOLEAN
    BY <1>0, <1>5 DEF SetOption, AfterRefusal
  <2>2. UNCHANGED <<env, wake, attempt, up, dhcp, startFailed, guard>>
    BY <1>5 DEF SetOption
  <2> QED
    BY <2>1, <2>2 DEF TypeOK
<1>6. CASE StartServer
  <2>1. pc' \in Steps /\ {dhcp', startFailed'} \subseteq BOOLEAN
    BY <1>6 DEF StartServer
  <2>2. UNCHANGED <<env, wake, attempt, up, offersDns, guard>>
    BY <1>6 DEF StartServer
  <2> QED
    BY <2>1, <2>2 DEF TypeOK
<1>7. CASE SetRoute
  <2>1. pc' \in Steps /\ defaultRoute' \in BOOLEAN
    BY <1>0, <1>7 DEF SetRoute
  <2>2. UNCHANGED <<env, wake, attempt, datapathUp, napt, cotRelay, forwarder, server, guard>>
    BY <1>7 DEF SetRoute
  <2> QED
    BY <2>1, <2>2 DEF TypeOK
<1>8. CASE EnableNapt
  <2>1. pc' \in Steps /\ {natOk', napt'} \subseteq BOOLEAN
    BY <1>0, <1>8 DEF EnableNapt
  <2>2. UNCHANGED <<env, wake, picked, cotOk, datapathUp, defaultRoute, cotRelay, forwarder,
                    server, guard>>
    BY <1>8 DEF EnableNapt
  <2> QED
    BY <2>1, <2>2 DEF TypeOK
<1>9. CASE CotStarts \/ CotFails
  BY <1>9 DEF CotStarts, CotFails, TypeOK
<1>10. CASE StartForwarder
  <2>1. pc' \in Steps /\ forwarder' \in BOOLEAN
    BY <1>0, <1>10 DEF StartForwarder
  <2>2. UNCHANGED <<env, wake, attempt, datapathUp, napt, defaultRoute, cotRelay, server, guard>>
    BY <1>10 DEF StartForwarder
  <2> QED
    BY <2>1, <2>2 DEF TypeOK
<1>11. CASE Verdict
  <2>1. pc' \in Steps /\ datapathUp' \in BOOLEAN
    BY <1>11 DEF Verdict, BothSucceeded
  <2>2. UNCHANGED <<env, wake, attempt, napt, defaultRoute, cotRelay, forwarder, server, guard>>
    BY <1>11 DEF Verdict
  <2> QED
    BY <2>1, <2>2 DEF TypeOK
<1> QED
  BY <1>1, <1>2, <1>3, <1>4, <1>5, <1>6, <1>7, <1>8, <1>9, <1>10, <1>11 DEF Task

\* And the rest of the invariant.
LEMMA TaskKeepsRest ==
    ASSUME IInv, Task
    PROVE  AttemptIsSound' /\ DatapathIsComplete' /\ OneRoleOnly' /\ ServerRuns'
           /\ CotGivesWayFirst'
<1> USE DEF IInv, AttemptIsSound, DatapathIsComplete, OneRoleOnly, ServerRuns,
                 Propagating, CotGivesWayFirst, env, attempt, up, server, guard
<1>1. CASE WakeUp
  <2>1. /\ wake' = FALSE /\ natOk' = FALSE /\ cotOk' = FALSE /\ picked' = role
        /\ pc' \in {"downlink", "cot"} /\ UNCHANGED <<env, up, server, guard>>
    BY <1>1 DEF WakeUp
  <2>2. pc' = "downlink" => picked' = bootedRole /\ radioOk
    BY <1>1 DEF WakeUp, NetifsExist
  <2> QED
    BY <1>1, <2>1, <2>2 DEF WakeUp
<1>2. CASE DownlinkIsUp
  BY <1>2 DEF DownlinkIsUp, Roles
<1>3. CASE DownlinkTimeout
  BY <1>3 DEF DownlinkTimeout
<1>4. CASE ReadDns
  BY <1>4 DEF ReadDns
<1>5. CASE StopServer
  BY <1>5 DEF StopServer
<1>6. CASE SetOption
  BY <1>6 DEF SetOption, AfterRefusal
<1>7. CASE StartServer
  BY <1>7 DEF StartServer
<1>8. CASE SetRoute
  BY <1>8 DEF SetRoute
<1>9. CASE EnableNapt
  BY <1>9 DEF EnableNapt
<1>10. CASE CotStarts
  BY <1>10 DEF CotStarts, Roles
<1>11. CASE CotFails
  BY <1>11 DEF CotFails, Roles
<1>12. CASE StartForwarder
  <2>1. picked = "relay" /\ UNCHANGED <<datapathUp, napt, cotRelay, attempt, offersDns, env>>
    BY <1>12 DEF StartForwarder
  <2>2. forwarder' => bootedRole = "relay"
    <3>1. CASE NetifsExist(picked)
      BY <2>1, <3>1 DEF NetifsExist
    <3>2. CASE UNCHANGED forwarder
      BY <3>2
    <3> QED
      BY <1>12, <3>1, <3>2 DEF StartForwarder
  <2> QED
    BY <1>12, <2>1, <2>2 DEF StartForwarder
<1>13. CASE Verdict
  BY <1>13 DEF Verdict, BothSucceeded
<1> QED
  BY <1>1, <1>2, <1>3, <1>4, <1>5, <1>6, <1>7, <1>8, <1>9, <1>10, <1>11, <1>12, <1>13
  DEF Task

LEMMA TaskKeeps == IInv /\ Task => IInv'
BY TaskKeepsTypes, TaskKeepsRest DEF IInv

\* The invariant holds from boot on, whatever the radios, the leases, the
\* memory and the configuration do.
THEOREM Inductive == Spec => []IInv
<1>1. Init => IInv
  <2> SUFFICES ASSUME Init PROVE IInv
    OBVIOUS
  <2>1. TypeOK
    <3>1. {heap, sampled} \subseteq Heaps
      BY HeapAssumption DEF Init, Heaps
    <3>2. radioOk \in BOOLEAN /\ dhcp \in BOOLEAN
      BY DEF Init
    <3> QED
      BY <3>1, <3>2 DEF Init, TypeOK, Roles, Steps
  <2>2. AttemptIsSound /\ DatapathIsComplete /\ OneRoleOnly
    BY DEF Init, AttemptIsSound, DatapathIsComplete, OneRoleOnly
  <2>3. ServerRuns /\ CotGivesWayFirst
    BY DEF Init, ServerRuns, CotGivesWayFirst
  <2> QED
    BY <2>1, <2>2, <2>3 DEF IInv
<1>2. IInv /\ [Next]_vars => IInv'
  <2> SUFFICES ASSUME IInv, [Next]_vars PROVE IInv'
    OBVIOUS
  <2>1. CASE UNCHANGED vars
    BY <2>1
    DEF vars, env, attempt, up, server, guard, IInv, TypeOK, Propagating, AttemptIsSound,
        DatapathIsComplete, OneRoleOnly, ServerRuns, CotGivesWayFirst
  <2>2. CASE Next
    BY <2>2, TaskKeeps, SampleKeeps, EnvironmentKeeps DEF Next
  <2> QED
    BY <2>1, <2>2
<1> QED
  BY <1>1, <1>2, PTL DEF Spec

\* Every variable of the datapath and the heap guard keeps its type.
THEOREM TypeCorrect == Spec => []TypeOK
<1>1. IInv => TypeOK
  BY DEF IInv
<1> QED
  BY <1>1, Inductive, PTL

\* s_datapath_up is set, and the task that would retry gone, only with NAT
\* and the CoT relay up.
THEOREM UpMeansComplete == Spec => []DatapathIsComplete
<1>1. IInv => DatapathIsComplete
  BY DEF IInv
<1> QED
  BY <1>1, Inductive, PTL

\* A role set while the node runs brings up no piece of the role not booted.
THEOREM OnlyTheBootedRole == Spec => []OneRoleOnly
<1>1. IInv => OneRoleOnly
  BY DEF IInv
<1> QED
  BY <1>1, Inductive, PTL

\* propagate_dns() and the heap guard leave the SoftAP's clients without a
\* DHCP server only when they should.
THEOREM DhcpServerRuns == Spec => []ServerRuns
<1>1. IInv => ServerRuns
  BY DEF IInv
<1> QED
  BY <1>1, Inductive, PTL

\* CoT is shed before new clients are turned away, at any four thresholds in
\* the order of heap_guard.h.
THEOREM CotIsShedFirst == Spec => []CotGivesWayFirst
<1>1. IInv => CotGivesWayFirst
  BY DEF IInv
<1> QED
  BY <1>1, Inductive, PTL

\* No sample in the gap between two thresholds changes a flag.
THEOREM HysteresisHolds == Spec => NoFlapping
<1> DEFINE Steady ==
      /\ shedCot' # shedCot => sampled' \notin CotEnter..(CotExit - 1)
      /\ dhcpPaused' # dhcpPaused => sampled' \notin NodeEnter..(NodeExit - 1)
<1>1. IInv /\ [Next]_vars => [Steady]_guard
  <2> SUFFICES ASSUME IInv, Next, ~UNCHANGED guard PROVE Steady
    BY DEF vars
  <2>1. Sample
    BY DEF Next, Task, WakeUp, DownlinkIsUp, DownlinkTimeout, ReadDns, StopServer, SetOption,
           StartServer, SetRoute, EnableNapt, CotStarts, CotFails, StartForwarder, Verdict,
           Environment, UplinkUp, UplinkDown, DownlinkChanges, RoleChanges, HeapChanges
  <2>2. heap \in Nat /\ {shedCot, dhcpPaused} \subseteq BOOLEAN
    BY HeapAssumption DEF IInv, TypeOK, Heaps
  <2>3. shedCot' # shedCot => sampled' \notin CotEnter..(CotExit - 1)
    BY <2>1, <2>2, HeapAssumption DEF Sample, CotShed, ShedFrom, InternalHeap
  <2>4. dhcpPaused' # dhcpPaused => sampled' \notin NodeEnter..(NodeExit - 1)
    BY <2>1, <2>2, HeapAssumption DEF Sample, Pause, NodeShed, ShedFrom, InternalHeap
  <2> QED
    BY <2>3, <2>4
<1> QED
  BY <1>1, Inductive, PTL DEF Spec, NoFlapping
=============================================================================
