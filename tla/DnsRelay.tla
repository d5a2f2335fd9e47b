------------------------------ MODULE DnsRelay ------------------------------
(***************************************************************************)
(* What dns_forward.h promises a leaf: a query is held until the resolver  *)
(* it was sent to answers that very question, and the answer goes to the   *)
(* leaf that asked, under the identifier it asked with, once.  A query may *)
(* be given up silently at any time; no more than Capacity are held.       *)
(***************************************************************************)
EXTENDS Naturals, FiniteSets

CONSTANTS Leaves, ClientIds, Questions, Resolvers, Capacity, MaxQueries

VARIABLES
    open,       \* queries held
    answers     \* what leaves have been sent, tagged with the query

Query == [n : 1..MaxQueries, leaf : Leaves, id : ClientIds,
          question : Questions, resolver : Resolvers]
Answer == [n : 1..MaxQueries, leaf : Leaves, id : ClientIds,
           question : Questions, from : Resolvers]

AnswerTo(q) == [n |-> q.n, leaf |-> q.leaf, id |-> q.id,
                question |-> q.question, from |-> q.resolver]

Init == open = {} /\ answers = {}

GiveUp ==
    /\ \E given \in SUBSET open : open' = open \ given
    /\ UNCHANGED answers

(* Taking a query in may cost an older one its place.                      *)
Accept ==
    /\ \E q \in Query :
        /\ q.n \notin {a.n : a \in answers} \cup {p.n : p \in open}
        /\ \E given \in SUBSET open : open' = (open \ given) \cup {q}
    /\ Cardinality(open') <= Capacity
    /\ UNCHANGED answers

Answered ==
    \E q \in open :
        /\ open' = open \ {q}
        /\ answers' = answers \cup {AnswerTo(q)}

Next == GiveUp \/ Accept \/ Answered

Spec == Init /\ [][Next]_<<open, answers>>
=============================================================================
