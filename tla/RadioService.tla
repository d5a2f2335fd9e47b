---------------------------- MODULE RadioService ----------------------------
(***************************************************************************)
(* What radio_control_run() promises its callers (radio_control.h): an     *)
(* accepted request runs exactly once, in the order of acceptance, whether *)
(* or not its caller is still waiting; ESP_OK is only returned for a       *)
(* request that ran; a request refused with ESP_ERR_NO_MEM never runs.     *)
(***************************************************************************)
EXTENDS Naturals, Sequences

CONSTANT Requests

VARIABLES
    line,       \* accepted requests that have not run, oldest first
    executed,   \* requests whose fn(ctx) has run
    answer      \* what each call returned: "none" while it has not

vars == <<line, executed, answer>>

Waiting == {line[i] : i \in DOMAIN line}

Init ==
    /\ line = <<>>
    /\ executed = {}
    /\ answer = [r \in Requests |-> "none"]

Accept(r) ==
    /\ answer[r] = "none"
    /\ r \notin executed \cup Waiting
    /\ line' = Append(line, r)
    /\ UNCHANGED <<executed, answer>>

Execute ==
    /\ line # <<>>
    /\ executed' = executed \cup {Head(line)}
    /\ line' = Tail(line)
    /\ UNCHANGED answer

Answer(r, code) ==
    /\ answer[r] = "none"
    /\ answer' = [answer EXCEPT ![r] = code]
    /\ UNCHANGED <<line, executed>>

AnswerOk(r) == r \in executed /\ Answer(r, "ok")

AnswerTimeout(r) == r \in executed \cup Waiting /\ Answer(r, "timeout")

Refuse(r) == r \notin executed \cup Waiting /\ Answer(r, "no_mem")

Next ==
    \/ Execute
    \/ \E r \in Requests :
        Accept(r) \/ AnswerOk(r) \/ AnswerTimeout(r) \/ Refuse(r)

Spec == Init /\ [][Next]_vars

=============================================================================
