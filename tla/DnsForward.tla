----------------------------- MODULE DnsForward -----------------------------
(***************************************************************************)
(* The relay's DNS forwarder (dns_forward.c): one task, a select() loop    *)
(* over the socket leaves query and the socket resolvers answer on, and a  *)
(* table of pending queries matched by a transaction identifier chosen     *)
(* here.  Leaves, the network, the resolvers and DHCP on the uplink are    *)
(* the environment: datagrams are lost, delayed, duplicated and reordered, *)
(* and the uplink's DNS server changes at any moment.                      *)
(*                                                                         *)
(* A datagram is what the code reads of it: its identifier and question,   *)
(* or Malformed if its length, its QR bit or its question section is not   *)
(* as it should be.  Which DNS server the uplink has is read afresh for    *)
(* every query, so it is any at all, or none.  A slot is the query in it   *)
(* and the identifier it last had.  Ages count time since a query was      *)
(* sent, up to the first that is past DNS_PENDING_TTL_US.                  *)
(***************************************************************************)
EXTENDS Naturals, FiniteSets, Sequences

CONSTANTS
    Slots,          \* indices of s_pending
    Leaves, ClientIds, Questions, Resolvers,
    Malformed, Free,
    Ids,            \* 16-bit transaction identifiers
    ZeroId,         \* 0, what memset() leaves in a slot
    NoId,           \* 0xFFFF
    TTL,
    SocketBuffer, MaxQueries    \* bounds

ASSUME SlotsAssumption == IsFiniteSet(Slots) /\ Slots # {}
ASSUME IdsAssumption ==
    /\ {ZeroId, NoId} \subseteq Ids
    /\ \A used \in SUBSET Ids : Cardinality(used) <= Cardinality(Slots) => used # Ids
ASSUME BoundsAssumption == {TTL, SocketBuffer, MaxQueries} \subseteq Nat

Datagram == [leaf : Leaves, id : ClientIds, question : Questions]
Reply == [from : Resolvers, id : Ids, question : Questions]
Pending == [n : 1..MaxQueries, leaf : Leaves, id : ClientIds,
            question : Questions, resolver : Resolvers]

ASSUME ValuesAssumption ==
    Malformed \notin Datagram \cup Reply /\ Free \notin Pending

VARIABLES
    pc,         \* of the task: select, listen, upstream
    ready,      \* the sockets select() reported and are not yet read
    pending,    \* s_pending: the query in each slot, or Free
    upstreamId, \* the identifier each slot has, or last had
    age,        \* since the query in each slot was sent; 0 if Free
    listenQ,    \* queries in the listening socket
    upstreamQ,  \* replies in the upstream socket
    asked,      \* every query ever sent upstream
    answers,    \* every reply ever sent to a leaf
    queries     \* queries taken in so far

table == <<pending, upstreamId, age>>
vars == <<pc, ready, table, listenQ, upstreamQ, asked, answers, queries>>

InUse == {s \in Slots : pending[s] # Free}

TypeOK ==
    /\ pc \in {"select", "listen", "upstream"}
    /\ ready \subseteq {"listen", "upstream"}
    /\ pending \in [Slots -> Pending \cup {Free}]
    /\ upstreamId \in [Slots -> Ids]
    /\ age \in [Slots -> 0..(TTL + 1)]
    /\ listenQ \in Seq(Datagram \cup {Malformed}) /\ Len(listenQ) <= SocketBuffer
    /\ upstreamQ \in Seq(Reply \cup {Malformed}) /\ Len(upstreamQ) <= SocketBuffer
    /\ asked \subseteq [to : Resolvers, id : Ids, question : Questions]
    /\ answers \subseteq [n : 1..MaxQueries, leaf : Leaves, id : ClientIds,
                          question : Questions, from : Resolvers]
    /\ queries \in 0..MaxQueries

Init ==
    /\ pc = "select"
    /\ ready = {}
    /\ pending = [s \in Slots |-> Free]
    /\ upstreamId = [s \in Slots |-> ZeroId]
    /\ age = [s \in Slots |-> 0]
    /\ listenQ = <<>> /\ upstreamQ = <<>>
    /\ asked = {} /\ answers = {}
    /\ queries = 0

-----------------------------------------------------------------------------
(* The task.                                                               *)

Readable == {k \in {"listen", "upstream"} :
                IF k = "listen" THEN listenQ # <<>> ELSE upstreamQ # <<>>}

(* pending_expire_stale()                                                  *)
StaleLate == {s \in InUse : age[s] > TTL + 1}
Stale == {s \in InUse : age[s] > TTL}

(* select() returned, with sockets or after a second without any.          *)
Select ==
    /\ pc = "select"
    /\ pending' = [s \in Slots |-> IF s \in Stale THEN Free ELSE pending[s]]
    /\ age' = [s \in Slots |-> IF s \in Stale THEN 0 ELSE age[s]]
    /\ ready' = Readable
    /\ pc' = IF Readable = {} THEN "select" ELSE "listen"
    /\ UNCHANGED <<upstreamId, listenQ, upstreamQ, asked, answers, queries>>

(* pending_alloc(): a free slot if there is one, else the oldest.  Queries *)
(* of one age are not told apart, so any of them may go.                   *)
AllocatesYoungest == {s \in Slots : \A t \in Slots : age[s] <= age[t]}
Allocates ==
    IF InUse # Slots THEN Slots \ InUse
    ELSE {s \in Slots : \A t \in Slots : age[t] <= age[s]}

(* alloc_upstream_txn_id(): drawn again until no slot in use has it.  The  *)
(* slot being filled is marked in use already, so the identifier it last   *)
(* had is excluded too.                                                    *)
FreshUnchecked(s) == Ids
FreshForOthers(s) == Ids \ {upstreamId[t] : t \in InUse \ {s}}
Fresh(s) == Ids \ {upstreamId[t] : t \in InUse \cup {s}}

(* Forwarding a query; if sendto() fails its slot is free again.           *)
Forward(d, r) ==
    \E s \in Allocates : \E id \in Fresh(s) : \E sent \in BOOLEAN :
        /\ queries' = queries + 1
        /\ upstreamId' = [upstreamId EXCEPT ![s] = id]
        /\ age' = [age EXCEPT ![s] = 0]
        /\ pending' = [pending EXCEPT ![s] =
                IF ~sent THEN Free
                ELSE [n |-> queries + 1, leaf |-> d.leaf, id |-> d.id,
                      question |-> d.question, resolver |-> r]]
        /\ asked' = IF ~sent THEN asked
                    ELSE asked \cup {[to |-> r, id |-> id, question |-> d.question]}

(* A query is dropped if it is malformed or no DNS server is known.        *)
Listen ==
    /\ pc = "listen"
    /\ pc' = "upstream"
    /\ \/ /\ "listen" \notin ready
          /\ UNCHANGED <<listenQ, table, asked, queries>>
       \/ /\ "listen" \in ready
          /\ listenQ' = Tail(listenQ)
          /\ \/ UNCHANGED <<table, asked, queries>>
             \/ /\ Head(listenQ) # Malformed
                /\ \E r \in Resolvers : Forward(Head(listenQ), r)
    /\ ready' = ready \ {"listen"}
    /\ UNCHANGED <<upstreamQ, answers>>

(* pending_find() on the identifier of a well-formed response; NoId stands *)
(* for a response that was not.                                            *)
Found(d) ==
    LET id == IF d = Malformed THEN NoId ELSE d.id
    IN  {s \in InUse : id # NoId /\ upstreamId[s] = id}

MatchesAnySource(s, d) == pending[s].question = d.question
Matches(s, d) == pending[s].resolver = d.from /\ pending[s].question = d.question

(* A matching reply goes to the leaf and frees the slot; any other is      *)
(* dropped and leaves the slot as it is.                                   *)
Upstream ==
    /\ pc = "upstream"
    /\ pc' = "select"
    /\ \/ /\ "upstream" \notin ready
          /\ UNCHANGED <<upstreamQ, pending, age, answers>>
       \/ /\ "upstream" \in ready
          /\ upstreamQ' = Tail(upstreamQ)
          /\ LET d == Head(upstreamQ) IN
             \/ \E s \in Found(d) :
                    /\ Matches(s, d)
                    /\ answers' = answers \cup
                        {[n |-> pending[s].n, leaf |-> pending[s].leaf,
                          id |-> pending[s].id, question |-> d.question,
                          from |-> d.from]}
                    /\ pending' = [pending EXCEPT ![s] = Free]
                    /\ age' = [age EXCEPT ![s] = 0]
             \/ /\ \A s \in Found(d) : ~Matches(s, d)
                /\ UNCHANGED <<pending, age, answers>>
    /\ ready' = {}
    /\ UNCHANGED <<upstreamId, listenQ, asked, queries>>

-----------------------------------------------------------------------------
(* The environment.                                                        *)

(* A leaf's datagram reaches the socket.                                   *)
LeafSends ==
    /\ Len(listenQ) < SocketBuffer
    /\ queries + Len(listenQ) < MaxQueries
    /\ \E d \in Datagram \cup {Malformed} : listenQ' = Append(listenQ, d)
    /\ UNCHANGED <<pc, ready, table, upstreamQ, asked, answers, queries>>

(* A reply to a query some resolver was sent, however long ago and however *)
(* often it was answered before: from the address it was sent to or        *)
(* another the resolver has, its question echoed or not, whole or damaged. *)
ReplyArrives ==
    /\ Len(upstreamQ) < SocketBuffer
    /\ \E q \in asked :
        \E d \in {Malformed} \cup [from : Resolvers, id : {q.id}, question : Questions] :
            upstreamQ' = Append(upstreamQ, d)
    /\ UNCHANGED <<pc, ready, table, listenQ, asked, answers, queries>>

Tick ==
    /\ age' = [s \in Slots |-> IF s \in InUse /\ age[s] <= TTL THEN age[s] + 1
                               ELSE age[s]]
    /\ UNCHANGED <<pc, ready, pending, upstreamId, listenQ, upstreamQ, asked,
                   answers, queries>>

-----------------------------------------------------------------------------
Task == Select \/ Listen \/ Upstream
Next == Task \/ LeafSends \/ ReplyArrives \/ Tick

(* The task runs, since select() times out after a second, and time        *)
(* passes.  Nothing is assumed of leaves, resolvers or the network.        *)
Spec == Init /\ [][Next]_vars /\ WF_vars(Task) /\ WF_vars(Tick)

-----------------------------------------------------------------------------
(* Two queries in flight never share an upstream identifier, so a reply    *)
(* has at most one slot to match (dns_forward.c:122-136).                  *)
IdsAreUnique ==
    \A s, t \in InUse : s # t => upstreamId[s] # upstreamId[t]

Held == {pending[s] : s \in InUse}

Relay == INSTANCE DnsRelay
    WITH open <- Held, Capacity <- Cardinality(Slots)

(* The table, the matching on identifier, source and question and the      *)
(* restored identifier give every leaf the abstract relay: an answer goes  *)
(* once, to who asked, for what was asked, from who was asked.             *)
ImplementsRelay == Relay!Spec

(* A late reply to a query that was evicted is not taken for an answer to  *)
(* the query that took its slot: reusing a slot changes its identifier     *)
(* (alloc_upstream_txn_id() sees the slot's old one, dns_forward.c:305-307).*)
ReuseChangesId ==
    [][\A s \in Slots : pending'[s] \notin {pending[s], Free} =>
            upstreamId'[s] # upstreamId[s]]_vars

(* A query gives way to another only when every slot is taken and none has *)
(* waited longer (pending_alloc(), dns_forward.c:210-230).                 *)
OnlyTheOldestGivesWay ==
    [][\A s \in InUse : pending'[s] \notin {pending[s], Free} =>
            /\ InUse = Slots
            /\ \A t \in Slots : age[t] <= age[s]]_vars

(* No query is held for ever, whatever the network loses                   *)
(* (pending_expire_stale(), dns_forward.c:232-240).                        *)
NoneHeldForEver ==
    \A n \in 1..MaxQueries :
        (\E s \in InUse : pending[s].n = n) ~> (\A s \in InUse : pending[s].n # n)
=============================================================================
