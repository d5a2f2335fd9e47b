----------------------------- MODULE HalowScan -----------------------------
(***************************************************************************)
(* The HaLow scan, uplink_halow.c: a scan is started and polled by the     *)
(* console, which waits for it (gwcfg-scan), and by the web server's task, *)
(* whose POST starts one and whose GET polls whatever scan runs.  The      *)
(* driver calls back on a task of its own, and may be preempted between    *)
(* its check of the generation and its write.                              *)
(*                                                                         *)
(* A result found is reduced to the generation its scan was started for.   *)
(* The request to the driver goes through radio_control, as in             *)
(* HalowUplink: its arguments are static, and read when it runs.           *)
(***************************************************************************)
EXTENDS Naturals, Sequences

CONSTANTS
    Console, Httpd, \* the tasks
    None,           \* no task, no scan, no callback
    Aps,            \* access points one scan of the driver finds
    Capacity,       \* UPLINK_HALOW_SCAN_MAX_RESULTS
    QueueDepth,     \* requests radio_control holds
    MaxGeneration   \* bound: scans started and finalised

\* Assumed by Node.
ScanAssumption ==
    /\ {Aps, Capacity, QueueDepth, MaxGeneration} \subseteq Nat \ {0}
    /\ None \notin {Console, Httpd} \cup [for : Nat, left : Nat]
    /\ None \notin [does : {"store", "signal"}, checked : Nat]

Tasks == {Console, Httpd}

VARIABLES
    lock,        \* s_scan_lock: the task that holds it
    running,     \* s_scan_state is RUNNING
    due,         \* s_scan_deadline_us has passed
    generation,  \* s_scan.generation
    results,     \* s_scan.result, as far as s_scan.count and the array go
    done,        \* s_scan_done is available
    args,        \* s_scan_args.cb_arg
    cache,       \* s_scan_cache
    requests,    \* scans radio_control has yet to submit
    scanning,    \* the driver's scan, and the access points it has left
    callback,    \* a callback that passed its check, and of what generation
    pc,          \* where each task is
    outcome,     \* the argument of its finalize_scan(): ESP_OK or not
    late,        \* a callback or a task wrote for a scan that was over
    panic        \* an assertion of FreeRTOS failed: the node restarts

job == <<lock, running, due, args, cache>>
driver == <<requests, scanning, callback>>
vars == <<job, generation, results, done, driver, pc, outcome, late, panic>>

Steps == {"idle", "start", "call", "poll", "check", "finalize", "publish", "give"}
Generations == 0..MaxGeneration

TypeOK ==
    /\ lock \in Tasks \cup {None}
    /\ {running, due, done, late, panic} \subseteq BOOLEAN
    /\ {generation, args} \subseteq Generations
    /\ {results, cache.results} \subseteq Seq(Generations) /\ Len(results) <= Capacity
    /\ cache.complete \in BOOLEAN
    /\ requests \in 0..QueueDepth
    /\ scanning = None \/ scanning \in [for : Generations, left : 0..Aps]
    /\ callback = None \/ callback \in [does : {"store", "signal"}, checked : Generations]
    /\ pc \in [Tasks -> Steps] /\ outcome \in [Tasks -> BOOLEAN]

Init ==
    /\ lock = None /\ running = FALSE /\ due = FALSE
    /\ generation = 0 /\ results = <<>> /\ done = FALSE /\ args = 0
    /\ cache = [complete |-> FALSE, results |-> <<>>]
    /\ requests = 0 /\ scanning = None /\ callback = None
    /\ pc = [t \in Tasks |-> "idle"] /\ outcome = [t \in Tasks |-> FALSE]
    /\ late = FALSE /\ panic = FALSE

Goto(t, step) == pc' = [pc EXCEPT ![t] = step]
\* The console polls again, or prints what the cache holds; a handler answers.
Again(t) == IF t = Console THEN "poll" ELSE "idle"

-----------------------------------------------------------------------------
(* uplink_halow_scan_start().                                              *)

TakeLock(t) ==
    /\ pc[t] = "idle" /\ lock = None /\ generation + 4 <= MaxGeneration
    /\ lock' = t /\ Goto(t, "start")
    /\ UNCHANGED <<running, due, args, cache, generation, results, done, driver, outcome,
                   late, panic>>

Submit(t) ==
    /\ pc[t] = "start"
    /\ generation' = generation + 1
    /\ results' = <<>> /\ done' = FALSE
    /\ args' = generation + 1
    /\ IF requests < QueueDepth
       THEN requests' = requests + 1 /\ Goto(t, "call") /\ UNCHANGED outcome
       ELSE outcome' = [outcome EXCEPT ![t] = FALSE] /\ Goto(t, "finalize") /\ UNCHANGED requests
    /\ UNCHANGED <<lock, running, due, cache, scanning, callback, late, panic>>

\* radio_control_run() times out; the request stays.
SubmitTimesOut(t) ==
    /\ pc[t] = "call"
    /\ outcome' = [outcome EXCEPT ![t] = FALSE] /\ Goto(t, "finalize")
    /\ UNCHANGED <<job, generation, results, done, driver, late, panic>>

\* do_mmhalow_scan(), on the owner task: the driver refuses a second scan, or
\* any.  The caller that waits is the one whose request is last.
Waiting == {t \in Tasks : pc[t] = "call" /\ requests = 1}

RunRequest ==
    /\ requests > 0 /\ requests' = requests - 1
    /\ \E accepted \in {scanning = None, FALSE} :
        /\ scanning' = IF accepted THEN [for |-> args, left |-> Aps] ELSE scanning
        /\ pc' = [t \in Tasks |->
                    IF t \notin Waiting THEN pc[t] ELSE IF accepted THEN Again(t) ELSE "finalize"]
        /\ outcome' = [t \in Tasks |-> outcome[t] /\ t \notin Waiting]
        /\ running' = (running \/ (accepted /\ Waiting # {}))
    /\ due' = (due /\ Waiting = {})
    /\ UNCHANGED <<lock, args, cache, generation, results, done, callback, late, panic>>

-----------------------------------------------------------------------------
(* uplink_halow_scan_poll(), by the console's loop and by GET /api/scan.   *)

Get ==
    /\ pc[Httpd] = "idle" /\ Goto(Httpd, "poll")
    /\ UNCHANGED <<job, generation, results, done, driver, outcome, late, panic>>

Poll(t) ==
    /\ pc[t] = "poll"
    /\ Goto(t, IF running THEN "check" ELSE "idle")
    /\ UNCHANGED <<job, generation, results, done, driver, outcome, late, panic>>

WaitsOutTheDriver == done
EndsInTime == done \/ due

Check(t) ==
    /\ pc[t] = "check"
    /\ Goto(t, IF EndsInTime THEN "finalize" ELSE Again(t))
    /\ outcome' = [outcome EXCEPT ![t] = done] /\ done' = FALSE
    /\ UNCHANGED <<job, generation, results, driver, late, panic>>

-----------------------------------------------------------------------------
(* finalize_scan(), "always called with s_scan_lock held".                 *)

Retire(t) ==
    /\ pc[t] = "finalize"
    /\ generation' = generation + 1 /\ Goto(t, "publish")
    /\ UNCHANGED <<job, results, done, driver, outcome, late, panic>>

Publish(t) ==
    /\ pc[t] = "publish"
    /\ cache' = [complete |-> outcome[t], results |-> results]
    /\ running' = FALSE /\ Goto(t, "give")
    /\ late' = (late \/ lock # t)
    /\ UNCHANGED <<lock, due, args, generation, results, done, driver, outcome, panic>>

\* Giving a mutex another task holds is an assertion; giving one that nobody
\* holds does nothing.
Give(t) ==
    /\ pc[t] = "give" /\ Goto(t, "idle")
    /\ panic' = (lock \notin {t, None})
    /\ lock' = IF panic' THEN lock ELSE None
    /\ UNCHANGED <<running, due, args, cache, generation, results, done, driver, outcome, late>>

-----------------------------------------------------------------------------
(* The driver, with scan_rx_cb() and scan_complete_cb().                   *)

AnyGeneration == TRUE
OwnGeneration == scanning.for = generation

\* The result of an access point, and after the last the completion.
CallBack ==
    /\ scanning # None /\ callback = None
    /\ LET more == scanning.left > 0 IN
        /\ callback' = IF OwnGeneration
                       THEN [does |-> IF more THEN "store" ELSE "signal", checked |-> generation]
                       ELSE None
        /\ scanning' = IF more THEN [scanning EXCEPT !.left = @ - 1]
                       ELSE IF OwnGeneration THEN scanning ELSE None
    /\ UNCHANGED <<job, generation, results, done, requests, pc, outcome, late, panic>>

Doing(what) == callback # None /\ callback.does = what /\ callback' = None

Store ==
    /\ Doing("store")
    /\ results' = IF Len(results) < Capacity THEN Append(results, scanning.for) ELSE results
    /\ late' = (late \/ callback.checked # generation)
    /\ UNCHANGED <<job, generation, done, requests, scanning, pc, outcome, panic>>

Signal ==
    /\ Doing("signal")
    /\ done' = TRUE /\ scanning' = None
    /\ late' = (late \/ callback.checked < args)
    /\ UNCHANGED <<job, generation, results, requests, pc, outcome, panic>>

DeadlinePasses ==
    /\ running /\ ~due /\ due' = TRUE
    /\ UNCHANGED <<lock, running, args, cache, generation, results, done, driver, pc, outcome,
                   late, panic>>

-----------------------------------------------------------------------------
TaskStep(t) ==
    \/ Submit(t) \/ SubmitTimesOut(t) \/ Poll(t) \/ Check(t)
    \/ Retire(t) \/ Publish(t) \/ Give(t)

Driver == CallBack \/ Store \/ Signal

\* A panic ends the run: the node restarts from Init.
Next ==
    /\ ~panic
    /\ \/ \E t \in Tasks : TakeLock(t) \/ TaskStep(t)
       \/ Get \/ RunRequest \/ Driver \/ DeadlinePasses

\* Tasks run and deadlines pass; nobody has to scan, and the driver may take
\* its time.
ConsoleRuns == ~panic /\ TaskStep(Console)
HttpdRuns == ~panic /\ TaskStep(Httpd)
TimePasses == ~panic /\ DeadlinePasses

Fairness == WF_vars(ConsoleRuns) /\ WF_vars(HttpdRuns) /\ WF_vars(TimePasses)

Spec == Init /\ [][Next]_vars /\ Fairness

-----------------------------------------------------------------------------
(* Properties.                                                             *)

\* A scan shown as complete is complete, and is one scan: no signal or result
\* of another, abandoned at its deadline or at a timeout of radio_control, is
\* taken for its own; unless a callback was preempted until its scan was over, or
\* a task finalised the scan of another.
CompleteIsWhole ==
    cache.complete /\ ~late =>
        /\ Len(cache.results) >= (IF Aps < Capacity THEN Aps ELSE Capacity)
        /\ \A i, j \in DOMAIN cache.results : cache.results[i] = cache.results[j]

\* gwcfg-scan returns, whatever the driver does.
ConsoleReturns == pc[Console] # "idle" ~> pc[Console] = "idle" \/ panic

\* "Always called with s_scan_lock held".
HolderFinalizes == \A t \in Tasks : pc[t] \in {"finalize", "publish"} => lock = t
=============================================================================
