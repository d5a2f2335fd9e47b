------------------------------ MODULE CotBridge ------------------------------
(***************************************************************************)
(* What the CoT relay promises the two networks it joins (cot_relay.h): a  *)
(* datagram received on one side is sent on the other, one injected is     *)
(* sent on each, each at most once and only by who has it in hand, and     *)
(* nothing else is sent; and a relay that runs does so until the node      *)
(* starts again.  Nothing is promised to arrive: any datagram may be       *)
(* dropped.                                                                *)
(***************************************************************************)
EXTENDS Naturals

CONSTANTS Up, Down, Task, Console

Sides == {Up, Down}
Senders == {Task, Console}

VARIABLES
    running,    \* datagrams are received
    toSend,     \* the sides each sender has still to send its datagram on
    rx, tx,     \* datagrams received and sent, as each side counts them
    injected    \* sends an injection asked for

vars == <<running, toSend, rx, tx, injected>>

Init ==
    /\ running = FALSE
    /\ toSend = [u \in Senders |-> {}]
    /\ rx = [i \in Sides |-> 0] /\ tx = rx /\ injected = 0

Start ==
    /\ ~running /\ running' = TRUE
    /\ UNCHANGED <<toSend, rx, tx, injected>>

Receive(i) ==
    /\ running /\ toSend[Task] = {}
    /\ rx' = [rx EXCEPT ![i] = @ + 1]
    /\ toSend' = [toSend EXCEPT ![Task] = Sides \ {i}]
    /\ UNCHANGED <<running, tx, injected>>

Inject ==
    /\ toSend[Console] = {}
    /\ injected' = injected + 2
    /\ toSend' = [toSend EXCEPT ![Console] = Sides]
    /\ UNCHANGED <<running, rx, tx>>

\* The sender is done with a side, whether or not the datagram left by it.
Done(u, i) == i \in toSend[u] /\ toSend' = [toSend EXCEPT ![u] = @ \ {i}]

Send(u, i) ==
    /\ Done(u, i)
    /\ tx' = [tx EXCEPT ![i] = @ + 1]
    /\ UNCHANGED <<running, rx, injected>>

Drop(u, i) == Done(u, i) /\ UNCHANGED <<running, rx, tx, injected>>

\* The node starts again, and forgets.
Restart ==
    /\ running' = FALSE
    /\ toSend' = [u \in Senders |-> {}]
    /\ rx' = [i \in Sides |-> 0] /\ tx' = rx' /\ injected' = 0

Next ==
    \/ Start \/ Inject \/ Restart
    \/ \E i \in Sides : Receive(i)
    \/ \E u \in Senders, i \in Sides : Send(u, i) \/ Drop(u, i)

Spec == Init /\ [][Next]_vars
=============================================================================
