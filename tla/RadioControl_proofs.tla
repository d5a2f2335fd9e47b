------------------------ MODULE RadioControl_proofs ------------------------
(***************************************************************************)
(* Proofs about RadioControl for any number of tasks, wrappers and         *)
(* requests: the owner never signals a deleted semaphore, ESP_OK always    *)
(* comes with the caller's own result, and the code implements the service *)
(* its header promises.                                                    *)
(***************************************************************************)
EXTENDS RadioControl, SequenceTheorems, TLAPS

(* A caller in these states has made a request it has not returned from.   *)
Calling(c) == pc[c] \in {"send", "wait", "read"}

(* A caller in these states is inside its wrapper's critical section.      *)
Inside(c) == pc[c] \in {"create", "send", "wait", "read", "release"}

(* Each wrapper is in use by at most one task, the holder of its mutex or  *)
(* the only task that ever calls it.                                       *)
WrapperOwned ==
    \A c \in Callers :
        /\ pc[c] # "idle" => wrapper[c] \in CallableBy(c)
        /\ pc[c] = "lock" => wrapper[c] \in Shared
        /\ Inside(c) /\ wrapper[c] \in Shared => mutex[wrapper[c]] = c

(* What the slot and the owner hold are requests nobody signalled yet.     *)
InFlight ==
    /\ ran \subseteq 1..used
    /\ \A r \in Requests : sem[r] = "given" => r \in ran
    /\ \A r \in Requests : r > used => sem[r] = "unused" /\ answer[r] = "none"
    /\ slot # NoRequest =>
          /\ slot \in 1..used
          /\ slot # running
          /\ slot \notin ran
          /\ sem[slot] = "empty"
          /\ ctxOf[slot] \in Wrappers
    /\ running # NoRequest =>
          /\ running \in 1..used
          /\ sem[running] = "empty"
          /\ ctxOf[running] \in Wrappers

(* Every caller's own request is where its program counter says it is.     *)
CallerKnows ==
    /\ \A c \in Callers : Calling(c) =>
          /\ req[c] \in 1..used
          /\ ctxOf[req[c]] = wrapper[c]
    /\ \A c \in Callers : pc[c] = "send" =>
          /\ req[c] \notin ran \cup {slot, running}
          /\ sem[req[c]] = "empty"
          /\ answer[req[c]] = "none"
    /\ \A c \in Callers : pc[c] = "wait" =>
          /\ req[c] \in ran \cup {slot, running}
          /\ answer[req[c]] = "none"
    /\ \A c \in Callers : pc[c] = "read" => req[c] \in ran
    /\ \A c, d \in Callers : Calling(c) /\ Calling(d) /\ c # d => req[c] # req[d]

(* The queue is first in, first out: once a caller's request is accepted,  *)
(* what is still to run for its wrapper is that request, or an older one   *)
(* the owner has already dequeued.                                         *)
NoneOvertakes ==
    \A c \in Callers : pc[c] \in {"wait", "read"} =>
        /\ slot # NoRequest /\ ctxOf[slot] = wrapper[c] => slot = req[c]
        /\ running \notin ran \cup {NoRequest} /\ ctxOf[running] = wrapper[c]
              => req[c] \in {running, slot}
        /\ req[c] \in ran => ctx[wrapper[c]] = req[c]

IInv == TypeOK /\ WrapperOwned /\ InFlight /\ CallerKnows /\ NoneOvertakes

-----------------------------------------------------------------------------
USE CallersAssumption, WrappersAssumption, MaxRequestsAssumption
USE DEF Wrappers, Requests, NoRequest, MaybeRequest

LEMMA InitIInv == Init => IInv
BY DEF Init, IInv, TypeOK, WrapperOwned, InFlight, CallerKnows, NoneOvertakes,
       Calling, Inside

LEMMA TypeStep == TypeOK /\ [Next]_vars => TypeOK'
<1> SUFFICES ASSUME TypeOK, [Next]_vars PROVE TypeOK'
  OBVIOUS
<1> USE DEF TypeOK, Goto, owner
<1>1. ASSUME NEW c \in Callers, NEW w \in Wrappers, Begin(c, w)
      PROVE  TypeOK'
  BY <1>1 DEF Begin, CallableBy
<1>2. ASSUME NEW c \in Callers, TakeMutex(c)
      PROVE  TypeOK'
  BY <1>2 DEF TakeMutex, MutexFree
<1>3. ASSUME NEW c \in Callers, MutexTimeout(c)
      PROVE  TypeOK'
  BY <1>3 DEF MutexTimeout
<1>4. ASSUME NEW c \in Callers, CreateDone(c)
      PROVE  TypeOK'
  BY <1>4 DEF CreateDone
<1>5. ASSUME NEW c \in Callers, CreateFails(c)
      PROVE  TypeOK'
  BY <1>5 DEF CreateFails
<1>6. ASSUME NEW c \in Callers, Send(c)
      PROVE  TypeOK'
  BY <1>6 DEF Send
<1>7. ASSUME NEW c \in Callers, SendTimeout(c)
      PROVE  TypeOK'
  BY <1>7 DEF SendTimeout
<1>8. ASSUME NEW c \in Callers, TakeDone(c)
      PROVE  TypeOK'
  BY <1>8 DEF TakeDone
<1>9. ASSUME NEW c \in Callers, TakeTimeout(c)
      PROVE  TypeOK'
  BY <1>9 DEF TakeTimeout, WaitIsBounded, LeakOnTimeout, TimeoutCode
<1>10. ASSUME NEW c \in Callers, ReadResult(c)
      PROVE  TypeOK'
  BY <1>10 DEF ReadResult
<1>11. ASSUME NEW c \in Callers, Release(c)
      PROVE  TypeOK'
  BY <1>11 DEF Release
<1>12. CASE Dequeue
  BY <1>12 DEF Dequeue
<1>13. CASE RunFn
  BY <1>13 DEF RunFn
<1>14. CASE GiveDone
  BY <1>14 DEF GiveDone, FnCalled
<1>15. CASE UNCHANGED vars
  BY <1>15 DEF vars
<1>16. QED
  BY <1>1, <1>2, <1>3, <1>4, <1>5, <1>6, <1>7, <1>8, <1>9, <1>10, <1>11, <1>12, <1>13, <1>14, <1>15 DEF Next, CallerStep

LEMMA WrapperOwnedStep == IInv /\ TypeOK' /\ [Next]_vars => WrapperOwned'
<1> SUFFICES ASSUME IInv, TypeOK', [Next]_vars PROVE WrapperOwned'
  OBVIOUS
<1> USE DEF IInv, TypeOK, Goto, owner, WrapperOwned, Inside, CallableBy
<1>1. ASSUME NEW c \in Callers, NEW w \in Wrappers, Begin(c, w)
      PROVE  WrapperOwned'
  BY <1>1 DEF Begin, CallableBy
<1>2. ASSUME NEW c \in Callers, TakeMutex(c)
      PROVE  WrapperOwned'
  BY <1>2 DEF TakeMutex, MutexFree
<1>3. ASSUME NEW c \in Callers, MutexTimeout(c)
      PROVE  WrapperOwned'
  BY <1>3 DEF MutexTimeout
<1>4. ASSUME NEW c \in Callers, CreateDone(c)
      PROVE  WrapperOwned'
  BY <1>4 DEF CreateDone
<1>5. ASSUME NEW c \in Callers, CreateFails(c)
      PROVE  WrapperOwned'
  BY <1>5 DEF CreateFails
<1>6. ASSUME NEW c \in Callers, Send(c)
      PROVE  WrapperOwned'
  BY <1>6 DEF Send
<1>7. ASSUME NEW c \in Callers, SendTimeout(c)
      PROVE  WrapperOwned'
  BY <1>7 DEF SendTimeout
<1>8. ASSUME NEW c \in Callers, TakeDone(c)
      PROVE  WrapperOwned'
  BY <1>8 DEF TakeDone
<1>9. ASSUME NEW c \in Callers, TakeTimeout(c)
      PROVE  WrapperOwned'
  BY <1>9 DEF TakeTimeout, WaitIsBounded, LeakOnTimeout, TimeoutCode
<1>10. ASSUME NEW c \in Callers, ReadResult(c)
      PROVE  WrapperOwned'
  BY <1>10 DEF ReadResult
<1>11. ASSUME NEW c \in Callers, Release(c)
      PROVE  WrapperOwned'
  BY <1>11 DEF Release
<1>12. CASE Dequeue
  BY <1>12 DEF Dequeue
<1>13. CASE RunFn
  BY <1>13 DEF RunFn
<1>14. CASE GiveDone
  BY <1>14 DEF GiveDone, FnCalled
<1>15. CASE UNCHANGED vars
  BY <1>15 DEF vars
<1>16. QED
  BY <1>1, <1>2, <1>3, <1>4, <1>5, <1>6, <1>7, <1>8, <1>9, <1>10, <1>11, <1>12, <1>13, <1>14, <1>15 DEF Next, CallerStep

LEMMA InFlightStep == IInv /\ TypeOK' /\ [Next]_vars => InFlight'
<1> SUFFICES ASSUME IInv, TypeOK', [Next]_vars PROVE InFlight'
  OBVIOUS
<1> USE DEF IInv, TypeOK, Goto, owner, WrapperOwned, InFlight, CallerKnows, Calling, CallableBy
<1>1. ASSUME NEW c \in Callers, NEW w \in Wrappers, Begin(c, w)
      PROVE  InFlight'
  BY <1>1 DEF Begin, CallableBy
<1>2. ASSUME NEW c \in Callers, TakeMutex(c)
      PROVE  InFlight'
  BY <1>2 DEF TakeMutex, MutexFree
<1>3. ASSUME NEW c \in Callers, MutexTimeout(c)
      PROVE  InFlight'
  BY <1>3 DEF MutexTimeout
<1>4. ASSUME NEW c \in Callers, CreateDone(c)
      PROVE  InFlight'
  BY <1>4 DEF CreateDone
<1>5. ASSUME NEW c \in Callers, CreateFails(c)
      PROVE  InFlight'
  BY <1>5 DEF CreateFails
<1>6. ASSUME NEW c \in Callers, Send(c)
      PROVE  InFlight'
  BY <1>6 DEF Send
<1>7. ASSUME NEW c \in Callers, SendTimeout(c)
      PROVE  InFlight'
  BY <1>7 DEF SendTimeout
<1>8. ASSUME NEW c \in Callers, TakeDone(c)
      PROVE  InFlight'
  BY <1>8 DEF TakeDone
<1>9. ASSUME NEW c \in Callers, TakeTimeout(c)
      PROVE  InFlight'
  BY <1>9 DEF TakeTimeout, WaitIsBounded, LeakOnTimeout, TimeoutCode
<1>10. ASSUME NEW c \in Callers, ReadResult(c)
      PROVE  InFlight'
  BY <1>10 DEF ReadResult
<1>11. ASSUME NEW c \in Callers, Release(c)
      PROVE  InFlight'
  BY <1>11 DEF Release
<1>12. CASE Dequeue
  BY <1>12 DEF Dequeue
<1>13. CASE RunFn
  BY <1>13 DEF RunFn
<1>14. CASE GiveDone
  BY <1>14 DEF GiveDone, FnCalled
<1>15. CASE UNCHANGED vars
  BY <1>15 DEF vars
<1>16. QED
  BY <1>1, <1>2, <1>3, <1>4, <1>5, <1>6, <1>7, <1>8, <1>9, <1>10, <1>11, <1>12, <1>13, <1>14, <1>15 DEF Next, CallerStep

LEMMA CallerKnowsStep == IInv /\ TypeOK' /\ [Next]_vars => CallerKnows'
<1> SUFFICES ASSUME IInv, TypeOK', [Next]_vars PROVE CallerKnows'
  OBVIOUS
<1> USE DEF IInv, TypeOK, Goto, owner, InFlight, CallerKnows, Calling
<1>1. ASSUME NEW c \in Callers, NEW w \in Wrappers, Begin(c, w)
      PROVE  CallerKnows'
  BY <1>1 DEF Begin, CallableBy
<1>2. ASSUME NEW c \in Callers, TakeMutex(c)
      PROVE  CallerKnows'
  BY <1>2 DEF TakeMutex, MutexFree
<1>3. ASSUME NEW c \in Callers, MutexTimeout(c)
      PROVE  CallerKnows'
  BY <1>3 DEF MutexTimeout
<1>4. ASSUME NEW c \in Callers, CreateDone(c)
      PROVE  CallerKnows'
  BY <1>4 DEF CreateDone
<1>5. ASSUME NEW c \in Callers, CreateFails(c)
      PROVE  CallerKnows'
  BY <1>5 DEF CreateFails
<1>6. ASSUME NEW c \in Callers, Send(c)
      PROVE  CallerKnows'
  BY <1>6 DEF Send
<1>7. ASSUME NEW c \in Callers, SendTimeout(c)
      PROVE  CallerKnows'
  BY <1>7 DEF SendTimeout
<1>8. ASSUME NEW c \in Callers, TakeDone(c)
      PROVE  CallerKnows'
  BY <1>8 DEF TakeDone
<1>9. ASSUME NEW c \in Callers, TakeTimeout(c)
      PROVE  CallerKnows'
  BY <1>9 DEF TakeTimeout, WaitIsBounded, LeakOnTimeout, TimeoutCode
<1>10. ASSUME NEW c \in Callers, ReadResult(c)
      PROVE  CallerKnows'
  BY <1>10 DEF ReadResult
<1>11. ASSUME NEW c \in Callers, Release(c)
      PROVE  CallerKnows'
  BY <1>11 DEF Release
<1>12. CASE Dequeue
  BY <1>12 DEF Dequeue
<1>13. CASE RunFn
  BY <1>13 DEF RunFn
<1>14. CASE GiveDone
  BY <1>14 DEF GiveDone, FnCalled
<1>15. CASE UNCHANGED vars
  BY <1>15 DEF vars
<1>16. QED
  BY <1>1, <1>2, <1>3, <1>4, <1>5, <1>6, <1>7, <1>8, <1>9, <1>10, <1>11, <1>12, <1>13, <1>14, <1>15 DEF Next, CallerStep

LEMMA NoneOvertakesStep == IInv /\ TypeOK' /\ [Next]_vars => NoneOvertakes'
<1> SUFFICES ASSUME IInv, TypeOK', [Next]_vars PROVE NoneOvertakes'
  OBVIOUS
<1> USE DEF IInv, TypeOK, Goto, owner, WrapperOwned, Inside, CallableBy, InFlight, CallerKnows, Calling, NoneOvertakes
<1>1. ASSUME NEW c \in Callers, NEW w \in Wrappers, Begin(c, w)
      PROVE  NoneOvertakes'
  BY <1>1 DEF Begin, CallableBy
<1>2. ASSUME NEW c \in Callers, TakeMutex(c)
      PROVE  NoneOvertakes'
  BY <1>2 DEF TakeMutex, MutexFree
<1>3. ASSUME NEW c \in Callers, MutexTimeout(c)
      PROVE  NoneOvertakes'
  BY <1>3 DEF MutexTimeout
<1>4. ASSUME NEW c \in Callers, CreateDone(c)
      PROVE  NoneOvertakes'
  BY <1>4 DEF CreateDone
<1>5. ASSUME NEW c \in Callers, CreateFails(c)
      PROVE  NoneOvertakes'
  BY <1>5 DEF CreateFails
<1>6. ASSUME NEW c \in Callers, Send(c)
      PROVE  NoneOvertakes'
  BY <1>6 DEF Send
<1>7. ASSUME NEW c \in Callers, SendTimeout(c)
      PROVE  NoneOvertakes'
  BY <1>7 DEF SendTimeout
<1>8. ASSUME NEW c \in Callers, TakeDone(c)
      PROVE  NoneOvertakes'
  BY <1>8 DEF TakeDone
<1>9. ASSUME NEW c \in Callers, TakeTimeout(c)
      PROVE  NoneOvertakes'
  BY <1>9 DEF TakeTimeout, WaitIsBounded, LeakOnTimeout, TimeoutCode
<1>10. ASSUME NEW c \in Callers, ReadResult(c)
      PROVE  NoneOvertakes'
  BY <1>10 DEF ReadResult
<1>11. ASSUME NEW c \in Callers, Release(c)
      PROVE  NoneOvertakes'
  BY <1>11 DEF Release
<1>12. CASE Dequeue
  BY <1>12 DEF Dequeue
<1>13. CASE RunFn
  BY <1>13 DEF RunFn
<1>14. CASE GiveDone
  BY <1>14 DEF GiveDone, FnCalled
<1>15. CASE UNCHANGED vars
  BY <1>15 DEF vars
<1>16. QED
  BY <1>1, <1>2, <1>3, <1>4, <1>5, <1>6, <1>7, <1>8, <1>9, <1>10, <1>11, <1>12, <1>13, <1>14, <1>15 DEF Next, CallerStep


(* The inductive invariant holds in every state of every behaviour.        *)
THEOREM Inductive == Spec => []IInv
<1>1. IInv /\ [Next]_vars => IInv'
  BY TypeStep, WrapperOwnedStep, InFlightStep, CallerKnowsStep,
     NoneOvertakesStep DEF IInv
<1>2. QED
  BY InitIInv, <1>1, PTL DEF Spec

(* Every variable keeps its type.                                          *)
THEOREM TypeCorrect == Spec => []TypeOK
<1>1. IInv => TypeOK
  BY DEF IInv
<1>2. QED
  BY <1>1, Inductive, PTL

(* The owner never gives a semaphore its caller has deleted.               *)
THEOREM OwnerGivesLiveSemaphores == Spec => []DoneIsAlive
<1>1. IInv => DoneIsAlive
  BY DEF IInv, InFlight, DoneIsAlive
<1>2. QED
  BY <1>1, Inductive, PTL

(* A wrapper that was told ESP_OK returns the result of its own request.   *)
THEOREM ResultsAreNotMixed == Spec => []OkReadsOwnResult
<1>1. IInv => OkReadsOwnResult
  BY DEF IInv, CallerKnows, NoneOvertakes, OkReadsOwnResult
<1>2. QED
  BY <1>1, Inductive, PTL

-----------------------------------------------------------------------------
(* The refinement: each step is a step of the service, or invisible to it. *)

LEMMA ShortLines ==
  ASSUME NEW p, NEW q
  PROVE  /\ <<>> \o <<>> = <<>>
         /\ <<p>> \o <<>> = <<p>>
         /\ <<>> \o <<q>> = <<q>>
         /\ <<p>> \o <<q>> = <<p, q>>
<1> DEFINE S == {p, q}
<1>1. <<>> \in Seq(S) /\ <<p>> \in Seq(S) /\ <<q>> \in Seq(S)
  OBVIOUS
<1>2. <<>> \o <<>> = <<>> /\ <<p>> \o <<>> = <<p>> /\ <<>> \o <<q>> = <<q>>
  <2> HIDE DEF S
  <2> QED BY <1>1, ConcatEmptySeq
<1>3. <<p>> \o <<q>> = Append(<<p>>, q)
  BY <1>1, AppendIsConcat
<1>4. Append(<<p>>, q) = <<p, q>>
  <2>1. Append(<<p>>, q) \in Seq(S) /\ <<p, q>> \in Seq(S)
    OBVIOUS
  <2>2. /\ Len(Append(<<p>>, q)) = Len(<<p, q>>)
        /\ \A i \in 1..Len(Append(<<p>>, q)) : Append(<<p>>, q)[i] = <<p, q>>[i]
    OBVIOUS
  <2>3. QED
    BY <2>1, <2>2, SeqEqual
<1>5. QED
  BY <1>2, <1>3, <1>4, Zenon

LEMMA WaitingLine ==
  ASSUME IInv
  PROVE  Service!Waiting = ({slot, running} \ ran) \ {NoRequest}
<1> DEFINE L == Pending \o Queued
<1>1. Service!Waiting = {L[i] : i \in DOMAIN L}
  BY DEF Service!Waiting
<1>2. slot \notin ran
  BY DEF IInv, InFlight, TypeOK
<1>3. CASE Pending = <<>> /\ Queued = <<>>
  <2>1. L = <<>>
    BY <1>3, ShortLines
  <2>2. Service!Waiting = {}
    BY <2>1, <1>1
  <2>3. QED
    BY <2>2, <1>3, <1>2 DEF Pending, Queued
<1>4. CASE Pending = <<running>> /\ Queued = <<>>
  <2>1. L = <<running>>
    BY <1>4, ShortLines
  <2>2. Service!Waiting = {running}
    BY <2>1, <1>1
  <2>3. QED
    BY <2>2, <1>4, <1>2 DEF Pending, Queued
<1>5. CASE Pending = <<>> /\ Queued = <<slot>>
  <2>1. L = <<slot>>
    BY <1>5, ShortLines
  <2>2. Service!Waiting = {slot}
    BY <2>1, <1>1
  <2>3. QED
    BY <2>2, <1>5, <1>2 DEF Pending, Queued
<1>6. CASE Pending = <<running>> /\ Queued = <<slot>>
  <2>1. L = <<running, slot>>
    BY <1>6, ShortLines
  <2>2. Service!Waiting = {running, slot}
    BY <2>1, <1>1
  <2>3. QED
    BY <2>2, <1>6, <1>2 DEF Pending, Queued
<1>7. QED
  BY <1>3, <1>4, <1>5, <1>6 DEF Pending, Queued

LEMMA ServiceStep == IInv /\ [Next]_vars => [Service!Next]_(Service!vars)
<1> SUFFICES ASSUME IInv, [Next]_vars PROVE [Service!Next]_(Service!vars)
  OBVIOUS
<1>t. Service!Waiting = ({slot, running} \ ran) \ {NoRequest}
  BY WaitingLine
<1> USE DEF owner, Goto, Service!vars
<1>1. ASSUME NEW c \in Callers, Send(c) PROVE Service!Accept(req[c])
  <2>1. Pending' \o Queued' = Append(Pending \o Queued, req[c])
    BY <1>1 DEF Send, Pending, Queued, IInv, TypeOK, CallerKnows, Calling
  <2>2. QED
    BY <1>1, <1>t, <2>1 DEF Send, Service!Accept, IInv, TypeOK, CallerKnows
<1>2. ASSUME NEW c \in Callers, SendTimeout(c) PROVE Service!Refuse(req[c])
  BY <1>2, <1>t DEF SendTimeout, Service!Refuse, Service!Answer, Pending, Queued,
                    IInv, CallerKnows
<1>3. ASSUME NEW c \in Callers, TakeDone(c) PROVE Service!AnswerOk(req[c])
  BY <1>3 DEF TakeDone, Service!AnswerOk, Service!Answer, Pending, Queued,
              IInv, TypeOK, InFlight, CallerKnows, Calling
<1>4. ASSUME NEW c \in Callers, TakeTimeout(c) PROVE Service!AnswerTimeout(req[c])
  BY <1>4, <1>t DEF TakeTimeout, TimeoutCode, Service!AnswerTimeout,
                    Service!Answer, Pending, Queued, IInv, TypeOK, CallerKnows, Calling
<1>5. CASE RunFn
  <2>1. /\ Pending \o Queued # <<>>
        /\ Head(Pending \o Queued) = running
        /\ Pending' \o Queued' = Tail(Pending \o Queued)
    <3>1. Pending = <<running>> /\ Pending' = <<>> /\ Queued' = Queued
      BY <1>5 DEF RunFn, Pending, Queued, IInv, TypeOK
    <3>2. Queued \in {<<>>, <<slot>>}
      BY DEF Queued
    <3>3. QED
      <4>1. CASE Queued = <<>>
        BY <3>1, <4>1, ShortLines
      <4>2. CASE Queued = <<slot>>
        <5>1. Pending \o Queued = <<running, slot>> /\ Pending' \o Queued' = <<slot>>
          BY <3>1, <4>2, ShortLines
        <5>2. QED
          BY <5>1
      <4>3. QED
        BY <3>2, <4>1, <4>2
  <2>2. QED
    BY <1>5, <2>1 DEF RunFn, Service!Next, Service!Execute
<1>6. CASE Dequeue
  BY <1>6 DEF Dequeue, Pending, Queued, IInv, InFlight
<1>7. CASE GiveDone
  BY <1>7 DEF GiveDone, FnCalled, Pending, Queued
<1>8. ASSUME NEW c \in Callers,
             \/ \E w \in Wrappers : Begin(c, w)
             \/ TakeMutex(c) \/ MutexTimeout(c) \/ CreateDone(c)
             \/ CreateFails(c) \/ ReadResult(c) \/ Release(c)
      PROVE  UNCHANGED Service!vars
  BY <1>8 DEF Begin, TakeMutex, MutexTimeout, CreateDone, CreateFails,
              ReadResult, Release, Pending, Queued
<1>9. CASE UNCHANGED vars
  BY <1>9 DEF vars, Pending, Queued
<1>10. ASSUME NEW c \in Callers PROVE Calling(c) => req[c] \in Requests
  BY DEF IInv, TypeOK, CallerKnows
<1>11. QED
  BY <1>1, <1>2, <1>3, <1>4, <1>5, <1>6, <1>7, <1>8, <1>9, <1>10
     DEF Next, CallerStep, Service!Next, Calling, Send, SendTimeout, TakeDone,
         TakeTimeout

(* radio_control.c implements the contract of radio_control.h.             *)
THEOREM Implements == Spec => ImplementsService
<1>1. Init => Service!Init
  BY DEF Init, Service!Init, Pending, Queued
<1>2. QED
  BY <1>1, ServiceStep, Inductive, PTL DEF Spec, ImplementsService, Service!Spec

=============================================================================
