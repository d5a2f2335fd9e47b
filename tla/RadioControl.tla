---------------------------- MODULE RadioControl ----------------------------
(***************************************************************************)
(* src/main/radio_control.c with the wrappers that call it.                *)
(*                                                                         *)
(* Every non-TX driver call of the firmware is shipped to one owner task   *)
(* through a queue of depth one.  The calling task waits, with a timeout,  *)
(* first for room in the queue and then on a semaphore made for this call. *)
(* When the second wait times out the request stays where it is: the owner *)
(* runs it later, and it writes its static ctx then.                       *)
(*                                                                         *)
(* Shared wrappers (uplink_halow_get_rssi, downlink_halow_ap_list_channels)*)
(* have one static ctx for all their callers and a mutex around it.  The   *)
(* other wrappers (connect, disconnect, set_config) have one calling task  *)
(* each and no mutex; Sole gives that task.                                *)
(*                                                                         *)
(* A request is named by the serial number of its call, 1..MaxRequests: a  *)
(* number is never reused, so a semaphore that was deleted stays           *)
(* recognisable where the real heap may hand its address out again.  A     *)
(* timeout is a step a blocked task may take at any time.                  *)
(***************************************************************************)
EXTENDS Naturals, Sequences

CONSTANTS
    Callers,        \* tasks that make driver calls
    Shared,         \* wrappers with a mutex around their ctx
    Sole,           \* [single-caller wrappers -> Callers]
    MaxRequests     \* bound on the number of requests in a behaviour

ASSUME CallersAssumption == "none" \notin Callers
ASSUME WrappersAssumption ==
    /\ Shared \cap DOMAIN Sole = {}
    /\ "none" \notin Shared \cup DOMAIN Sole
    /\ Sole \in [DOMAIN Sole -> Callers]
ASSUME MaxRequestsAssumption == MaxRequests \in Nat

Wrappers == Shared \cup DOMAIN Sole
Requests == 1..MaxRequests
NoRequest == 0
MaybeRequest == Requests \cup {NoRequest}

VARIABLES
    ready,      \* radio_control_init() created the queue and the owner task
    slot,       \* the queue: the request in its only slot, or NoRequest
    running,    \* the request the owner dequeued and has not signalled
    sem,        \* per request: its done semaphore
    ctxOf,      \* per request: the wrapper whose ctx it carries
    ctx,        \* per wrapper: the last request whose fn wrote its ctx
    mutex,      \* per shared wrapper: the task holding its mutex, or "none"
    pc, wrapper, req,   \* per caller: where it is, in which call
    used,       \* serial number of the last request made
    ran,        \* requests whose fn has been called
    answer      \* per request: what radio_control_run() returned for it

owner == <<slot, running, ctx, ran>>
vars == <<ready, slot, running, sem, ctxOf, ctx, mutex, pc, wrapper, req,
          used, ran, answer>>

TypeOK ==
    /\ ready \in BOOLEAN
    /\ slot \in MaybeRequest
    /\ running \in MaybeRequest
    /\ sem \in [Requests -> {"unused", "empty", "given", "deleted"}]
    /\ ctxOf \in [Requests -> Wrappers \cup {"none"}]
    /\ ctx \in [Wrappers -> MaybeRequest]
    /\ mutex \in [Shared -> Callers \cup {"none"}]
    /\ pc \in [Callers -> {"idle", "lock", "create", "send", "wait",
                           "read", "release"}]
    /\ wrapper \in [Callers -> Wrappers \cup {"none"}]
    /\ req \in [Callers -> MaybeRequest]
    /\ used \in 0..MaxRequests
    /\ ran \in SUBSET Requests
    /\ answer \in [Requests -> {"none", "ok", "timeout", "no_mem"}]

Init ==
    /\ ready \in BOOLEAN
    /\ slot = NoRequest
    /\ running = NoRequest
    /\ sem = [r \in Requests |-> "unused"]
    /\ ctxOf = [r \in Requests |-> "none"]
    /\ ctx = [w \in Wrappers |-> NoRequest]
    /\ mutex = [w \in Shared |-> "none"]
    /\ pc = [c \in Callers |-> "idle"]
    /\ wrapper = [c \in Callers |-> "none"]
    /\ req = [c \in Callers |-> NoRequest]
    /\ used = 0
    /\ ran = {}
    /\ answer = [r \in Requests |-> "none"]

Goto(c, label) == pc' = [pc EXCEPT ![c] = label]

-----------------------------------------------------------------------------
(* The calling task: one wrapper call, from its mutex to its return.       *)

CallableBy(c) == Shared \cup {w \in DOMAIN Sole : Sole[w] = c}

Begin(c, w) ==
    /\ pc[c] = "idle"
    /\ w \in CallableBy(c)
    /\ wrapper' = [wrapper EXCEPT ![c] = w]
    /\ Goto(c, IF w \in Shared THEN "lock" ELSE "create")
    /\ UNCHANGED <<ready, owner, sem, ctxOf, mutex, req, used, answer>>

\* Taking s_rssi_lock / s_channels_lock, and the mutant that forgot to.
MutexIgnored(w) == TRUE
MutexFree(w) == mutex[w] = "none"

TakeMutex(c) ==
    /\ pc[c] = "lock"
    /\ MutexFree(wrapper[c])
    /\ mutex' = [mutex EXCEPT ![wrapper[c]] = c]
    /\ Goto(c, "create")
    /\ UNCHANGED <<ready, owner, sem, ctxOf, wrapper, req, used, answer>>

MutexTimeout(c) ==
    /\ pc[c] = "lock"
    /\ ~MutexFree(wrapper[c])
    /\ wrapper' = [wrapper EXCEPT ![c] = "none"]
    /\ Goto(c, "idle")
    /\ UNCHANGED <<ready, owner, sem, ctxOf, mutex, req, used, answer>>

(* xSemaphoreCreateBinary() for a call that found the owner task running.  *)
CreateDone(c) ==
    /\ pc[c] = "create"
    /\ ready
    /\ used < MaxRequests
    /\ used' = used + 1
    /\ sem' = [sem EXCEPT ![used + 1] = "empty"]
    /\ ctxOf' = [ctxOf EXCEPT ![used + 1] = wrapper[c]]
    /\ req' = [req EXCEPT ![c] = used + 1]
    /\ Goto(c, "send")
    /\ UNCHANGED <<ready, owner, mutex, wrapper, answer>>

(* ESP_ERR_INVALID_STATE before radio_control_init(), or ESP_ERR_NO_MEM    *)
(* because no semaphore could be made: no request ever exists.             *)
CreateFails(c) ==
    /\ pc[c] = "create"
    /\ Goto(c, "release")
    /\ UNCHANGED <<ready, owner, sem, ctxOf, mutex, wrapper, req, used, answer>>

Send(c) ==
    /\ pc[c] = "send"
    /\ slot = NoRequest
    /\ slot' = req[c]
    /\ Goto(c, "wait")
    /\ UNCHANGED <<ready, running, ctx, ran, sem, ctxOf, mutex, wrapper, req,
                   used, answer>>

SendTimeout(c) ==
    /\ pc[c] = "send"
    /\ slot # NoRequest
    /\ sem' = [sem EXCEPT ![req[c]] = "deleted"]
    /\ answer' = [answer EXCEPT ![req[c]] = "no_mem"]
    /\ Goto(c, "release")
    /\ UNCHANGED <<ready, owner, ctxOf, mutex, wrapper, req, used>>

(* The take succeeds and the semaphore is deleted: ESP_OK.                 *)
TakeDone(c) ==
    /\ pc[c] = "wait"
    /\ sem[req[c]] = "given"
    /\ sem' = [sem EXCEPT ![req[c]] = "deleted"]
    /\ answer' = [answer EXCEPT ![req[c]] = "ok"]
    /\ Goto(c, "read")
    /\ UNCHANGED <<ready, owner, ctxOf, mutex, wrapper, req, used>>

\* When the take may time out, what becomes of the semaphore, and the code
\* returned; each with the mutant that gets it wrong.
WaitsForever(c) == FALSE
WaitIsBounded(c) == sem[req[c]] # "given"
DeleteOnTimeout(r) == [sem EXCEPT ![r] = "deleted"]
LeakOnTimeout(r) == sem
UndocumentedCode == "fail"
TimeoutCode == "timeout"

(* ESP_ERR_TIMEOUT: the semaphore is left to the owner, which still has it.*)
TakeTimeout(c) ==
    /\ pc[c] = "wait"
    /\ WaitIsBounded(c)
    /\ sem' = LeakOnTimeout(req[c])
    /\ answer' = [answer EXCEPT ![req[c]] = TimeoutCode]
    /\ Goto(c, "release")
    /\ UNCHANGED <<ready, owner, ctxOf, mutex, wrapper, req, used>>

(* After ESP_OK, and only then, the wrapper reads the result from its ctx. *)
ReadResult(c) ==
    /\ pc[c] = "read"
    /\ Goto(c, "release")
    /\ UNCHANGED <<ready, owner, sem, ctxOf, mutex, wrapper, req, used, answer>>

Release(c) ==
    /\ pc[c] = "release"
    /\ mutex' = [w \in Shared |-> IF w = wrapper[c] THEN "none" ELSE mutex[w]]
    /\ wrapper' = [wrapper EXCEPT ![c] = "none"]
    /\ req' = [req EXCEPT ![c] = NoRequest]
    /\ Goto(c, "idle")
    /\ UNCHANGED <<ready, owner, sem, ctxOf, used, answer>>

-----------------------------------------------------------------------------
(* The owner task: dequeue, call fn, signal.                               *)

Dequeue ==
    /\ running = NoRequest
    /\ slot # NoRequest
    /\ running' = slot
    /\ slot' = NoRequest
    /\ UNCHANGED <<ready, ctx, ran, sem, ctxOf, mutex, pc, wrapper, req, used,
                   answer>>

RunFn ==
    /\ running # NoRequest
    /\ running \notin ran
    /\ ctx' = [ctx EXCEPT ![ctxOf[running]] = running]
    /\ ran' = ran \cup {running}
    /\ UNCHANGED <<ready, slot, running, sem, ctxOf, mutex, pc, wrapper, req,
                   used, answer>>

\* fn is called before the semaphore is given, and the mutant that is not.
FnSkipped == TRUE
FnCalled == running \in ran

GiveDone ==
    /\ running # NoRequest
    /\ FnCalled
    /\ sem' = [sem EXCEPT ![running] = "given"]
    /\ running' = NoRequest
    /\ UNCHANGED <<ready, slot, ctx, ran, ctxOf, mutex, pc, wrapper, req,
                   used, answer>>

-----------------------------------------------------------------------------
CallerStep(c) ==
    \/ TakeMutex(c) \/ MutexTimeout(c)
    \/ CreateDone(c) \/ CreateFails(c)
    \/ Send(c) \/ SendTimeout(c)
    \/ TakeDone(c) \/ TakeTimeout(c)
    \/ ReadResult(c) \/ Release(c)

Next ==
    \/ \E c \in Callers : CallerStep(c) \/ \E w \in Wrappers : Begin(c, w)
    \/ Dequeue
    \/ RunFn
    \/ GiveDone

(* A task that can run is scheduled, and a blocking call with a timeout    *)
(* returns.  Nothing makes a task begin a call, and nothing is assumed of  *)
(* the vendor's functions: RunFn may never happen.                         *)
Spec ==
    /\ Init /\ [][Next]_vars
    /\ \A c \in Callers : WF_vars(CallerStep(c))
    /\ WF_vars(Dequeue)
    /\ WF_vars(GiveDone)

-----------------------------------------------------------------------------
(* The owner never signals a semaphore that its creator already deleted:   *)
(* the request in the slot and the one being run have a live semaphore,    *)
(* whoever timed out in the meantime (radio_control.c:116-126).            *)
DoneIsAlive ==
    \A r \in {slot, running} \ {NoRequest} : sem[r] \in {"empty", "given"}

(* A caller that was told ESP_OK reads the result of its own request from  *)
(* the shared ctx, even when requests abandoned by earlier callers of the  *)
(* same wrapper ran late (uplink_halow_get_rssi, list_channels).           *)
OkReadsOwnResult ==
    \A c \in Callers : pc[c] = "read" => ctx[wrapper[c]] = req[c]

(* The refinement: what the callers see is the service of RadioService.    *)
Pending == IF running = NoRequest \/ running \in ran THEN <<>> ELSE <<running>>
Queued == IF slot = NoRequest THEN <<>> ELSE <<slot>>

Service == INSTANCE RadioService WITH
    line <- Pending \o Queued, executed <- ran

ImplementsService == Service!Spec

(* Even against a driver that never returns, every wrapper call returns.   *)
CallsReturn == \A c \in Callers : pc[c] # "idle" ~> pc[c] = "idle"

(* When the driver does return, every accepted request is run, whether or  *)
(* not its caller gave up on it.                                           *)
AcceptedRuns ==
    WF_vars(RunFn) => \A r \in Requests : slot = r ~> r \in ran

=============================================================================
