------------------------- MODULE DnsForward_proofs -------------------------
(***************************************************************************)
(* Proofs about the DNS forwarder, for any number of slots, leaves,        *)
(* resolvers, identifiers and queries: identifiers in use are distinct, a  *)
(* reused slot changes its identifier, only the oldest query gives way,    *)
(* and the table implements the abstract relay.                            *)
(***************************************************************************)
EXTENDS DnsForward, FiniteSetTheorems, SequenceTheorems, TLAPS

(* Queries are numbered as they come in, and no two slots hold one.        *)
QueriesAreNumbered ==
    /\ \A s \in InUse : pending[s].n <= queries
    /\ \A s, t \in InUse : s # t => pending[s].n # pending[t].n
    /\ \A a \in answers : a.n <= queries

(* A socket reported as readable has something to read until it is read,   *)
(* for the task alone reads it.                                            *)
ReadyIsReadable ==
    /\ "listen" \in ready => listenQ # <<>>
    /\ "upstream" \in ready => upstreamQ # <<>>

(* A query in the socket is one the bound on queries has room for.         *)
RoomForQueries == queries + Len(listenQ) <= MaxQueries

(* The inductive invariant.                                                *)
IInv ==
    /\ TypeOK
    /\ IdsAreUnique
    /\ QueriesAreNumbered
    /\ ReadyIsReadable
    /\ RoomForQueries

-----------------------------------------------------------------------------
(* What a slot in use holds is a query.                                    *)
LEMMA InUseHolds ==
    ASSUME TypeOK
    PROVE  \A s \in InUse : /\ s \in Slots /\ pending[s] \in Pending
                            /\ upstreamId[s] \in Ids /\ age[s] \in Nat
  BY BoundsAssumption DEF TypeOK, InUse

(* Reading a socket that has something shortens it by what was read.       *)
LEMMA Reading ==
    ASSUME NEW S, NEW q \in Seq(S), q # <<>>
    PROVE  Head(q) \in S /\ Tail(q) \in Seq(S) /\ Len(Tail(q)) = Len(q) - 1 /\ Len(q) \in Nat
  BY HeadTailProperties

LEMMA Arriving ==
    ASSUME NEW S, NEW q \in Seq(S), NEW d \in S
    PROVE  /\ Append(q, d) \in Seq(S) /\ Append(q, d) # <<>>
           /\ Len(Append(q, d)) = Len(q) + 1 /\ Len(q) \in Nat
  BY AppendProperties

(* What forwarding a query does: one slot changes its identifier, and      *)
(* holds the new query or, if the datagram could not be sent, none.        *)
Forwarded(d, r, s, id, sent) ==
    /\ s \in Allocates /\ id \in Fresh(s)
    /\ queries' = queries + 1
    /\ upstreamId' = [upstreamId EXCEPT ![s] = id]
    /\ age' = [age EXCEPT ![s] = 0]
    /\ pending' = [pending EXCEPT ![s] =
            IF ~sent THEN Free
            ELSE [n |-> queries + 1, leaf |-> d.leaf, id |-> d.id,
                  question |-> d.question, resolver |-> r]]
    /\ asked' = IF ~sent THEN asked
                ELSE asked \cup {[to |-> r, id |-> id, question |-> d.question]}

LEMMA ForwardEffect ==
    ASSUME IInv, NEW d \in Datagram, NEW r \in Resolvers, NEW s \in Slots, NEW id \in Ids,
           NEW sent \in BOOLEAN, Forwarded(d, r, s, id, sent), queries < MaxQueries
    PROVE  /\ pending' \in [Slots -> Pending \cup {Free}]
           /\ \A t \in Slots \ {s} : pending'[t] = pending[t]
           /\ pending'[s] = Free \/ (pending'[s] \in Pending /\ pending'[s].n = queries + 1)
           /\ upstreamId' \in [Slots -> Ids]
           /\ \A t \in Slots \ {s} : upstreamId'[t] = upstreamId[t]
           /\ upstreamId'[s] = id
           /\ age' \in [Slots -> 0..(TTL + 1)]
           /\ asked' \subseteq [to : Resolvers, id : Ids, question : Questions]
           /\ queries' = queries + 1 /\ queries' \in 0..MaxQueries
<1> USE BoundsAssumption
<1> DEFINE q == [n |-> queries + 1, leaf |-> d.leaf, id |-> d.id,
                 question |-> d.question, resolver |-> r]
           new == IF ~sent THEN Free ELSE q
<1>1. queries \in 0..MaxQueries /\ queries + 1 \in 1..MaxQueries
  BY DEF IInv, TypeOK
<1>2. q \in Pending /\ q.n = queries + 1
  BY <1>1 DEF Pending, Datagram
<1>3. new \in Pending \cup {Free} /\ (new = Free \/ (new \in Pending /\ new.n = queries + 1))
  BY <1>2
<1>4. pending' = [pending EXCEPT ![s] = new]
  BY DEF Forwarded
<1> HIDE DEF q, new
<1>5. /\ pending' \in [Slots -> Pending \cup {Free}]
      /\ \A t \in Slots \ {s} : pending'[t] = pending[t]
      /\ pending'[s] = new
  BY <1>3, <1>4 DEF IInv, TypeOK
<1>6. /\ upstreamId' \in [Slots -> Ids]
      /\ \A t \in Slots \ {s} : upstreamId'[t] = upstreamId[t]
      /\ upstreamId'[s] = id
  BY DEF IInv, TypeOK, Forwarded
<1>7. age' \in [Slots -> 0..(TTL + 1)]
  <2>1. 0 \in 0..(TTL + 1)
    OBVIOUS
  <2> QED
    BY <2>1 DEF IInv, TypeOK, Forwarded
<1>8. asked' \subseteq [to : Resolvers, id : Ids, question : Questions]
  <2>1. [to |-> r, id |-> id, question |-> d.question]
           \in [to : Resolvers, id : Ids, question : Questions]
    BY DEF Datagram
  <2> QED
    BY <2>1 DEF IInv, TypeOK, Forwarded
<1> QED
  BY <1>1, <1>3, <1>5, <1>6, <1>7, <1>8 DEF Forwarded

(* What Listen does to the table, if it does anything.                     *)
LEMMA ListenEffect ==
    ASSUME IInv, Listen
    PROVE  \/ UNCHANGED <<table, asked, queries>>
           \/ /\ "listen" \in ready /\ queries < MaxQueries
              /\ \E d \in Datagram, r \in Resolvers, s \in Slots, id \in Ids, sent \in BOOLEAN :
                    Forwarded(d, r, s, id, sent)
<1>1. CASE "listen" \notin ready
  BY <1>1 DEF Listen
<1>2. CASE "listen" \in ready
  <2>1. listenQ # <<>> /\ listenQ \in Seq(Datagram \cup {Malformed})
    BY <1>2 DEF IInv, ReadyIsReadable, TypeOK
  <2>2. Head(listenQ) \in Datagram \cup {Malformed} /\ Len(listenQ) \in Nat /\ Len(listenQ) > 0
    BY <2>1, Reading
  <2>3. queries < MaxQueries
    BY <2>2, BoundsAssumption DEF IInv, RoomForQueries, TypeOK
  <2>4. CASE UNCHANGED <<table, asked, queries>>
    BY <2>4
  <2>5. CASE Head(listenQ) # Malformed /\ \E r \in Resolvers : Forward(Head(listenQ), r)
    <3>1. PICK r \in Resolvers : Forward(Head(listenQ), r)
      BY <2>5
    <3>2. PICK s \in Allocates : \E id \in Fresh(s) : \E sent \in BOOLEAN :
                Forwarded(Head(listenQ), r, s, id, sent)
      BY <3>1 DEF Forward, Forwarded
    <3>3. s \in Slots /\ Fresh(s) \subseteq Ids
      BY DEF Allocates, Fresh
    <3> QED
      BY <1>2, <2>2, <2>3, <2>5, <3>2, <3>3
  <2> QED
    BY <1>2, <2>4, <2>5 DEF Listen
<1> QED
  BY <1>1, <1>2

(* What Upstream does: nothing to the table, or one slot it answers.       *)
AnsweredSlot(s, d) ==
    /\ s \in InUse /\ d \in Reply /\ Matches(s, d)
    /\ answers' = answers \cup
          {[n |-> pending[s].n, leaf |-> pending[s].leaf, id |-> pending[s].id,
            question |-> d.question, from |-> d.from]}
    /\ pending' = [pending EXCEPT ![s] = Free]
    /\ age' = [age EXCEPT ![s] = 0]

LEMMA UpstreamEffect ==
    ASSUME IInv, Upstream
    PROVE  \/ UNCHANGED <<pending, age, answers>>
           \/ \E s \in InUse : \E d \in Reply : AnsweredSlot(s, d)
<1>1. CASE "upstream" \notin ready
  BY <1>1 DEF Upstream
<1>2. CASE "upstream" \in ready
  <2> DEFINE d == Head(upstreamQ)
  <2>1. d \in Reply \cup {Malformed}
    BY <1>2, Reading DEF IInv, ReadyIsReadable, TypeOK
  <2>2. \A s \in Found(d) : s \in InUse /\ d \in Reply
    BY <2>1 DEF Found
  <2> QED
    BY <1>2, <2>2 DEF Upstream, AnsweredSlot
<1> QED
  BY <1>1, <1>2

-----------------------------------------------------------------------------
LEMMA InitIsSound == Init => IInv
<1> SUFFICES ASSUME Init PROVE IInv
  OBVIOUS
<1> USE BoundsAssumption
<1>1. InUse = {}
  BY DEF Init, InUse
<1>2. TypeOK
  <2>1. 0 \in 0..(TTL + 1) /\ ZeroId \in Ids
    BY IdsAssumption
  <2>2. Len(<<>>) = 0 /\ <<>> \in Seq(Datagram \cup {Malformed}) /\ <<>> \in Seq(Reply \cup {Malformed})
    BY EmptySeq
  <2> QED
    BY <2>1, <2>2 DEF Init, TypeOK
<1> QED
  BY <1>1, <1>2, EmptySeq
  DEF IInv, Init, IdsAreUnique, QueriesAreNumbered, ReadyIsReadable, RoomForQueries

(* Slots in use that keep what they hold keep the table sound.             *)
LEMMA FewerInUse ==
    ASSUME IInv, TypeOK', queries' = queries, answers' = answers,
           \A s \in Slots : pending'[s] # Free =>
                pending'[s] = pending[s] /\ upstreamId'[s] = upstreamId[s]
    PROVE  IdsAreUnique' /\ QueriesAreNumbered'
<1>1. \A s \in InUse' : s \in InUse /\ pending'[s] = pending[s] /\ upstreamId'[s] = upstreamId[s]
  BY DEF InUse
<1> QED
  BY <1>1 DEF IInv, IdsAreUnique, QueriesAreNumbered

LEMMA SelectKeeps == IInv /\ Select => IInv'
<1> SUFFICES ASSUME IInv, Select PROVE IInv'
  OBVIOUS
<1>1. TypeOK'
  <2>1. 0 \in 0..(TTL + 1)
    BY BoundsAssumption
  <2>2. age' \in [Slots -> 0..(TTL + 1)] /\ pending' \in [Slots -> Pending \cup {Free}]
    BY <2>1 DEF IInv, TypeOK, Select
  <2>3. ready' \subseteq {"listen", "upstream"}
    BY DEF Select, Readable
  <2> QED
    BY <2>2, <2>3 DEF IInv, TypeOK, Select
<1>2. \A s \in Slots : pending'[s] # Free =>
            pending'[s] = pending[s] /\ upstreamId'[s] = upstreamId[s]
  BY DEF Select
<1>3. IdsAreUnique' /\ QueriesAreNumbered'
  BY <1>1, <1>2, FewerInUse DEF Select
<1>4. ReadyIsReadable' /\ RoomForQueries'
  BY DEF Select, Readable, ReadyIsReadable, RoomForQueries, IInv
<1> QED
  BY <1>1, <1>3, <1>4 DEF IInv

LEMMA ListenKeeps == IInv /\ Listen => IInv'
<1> SUFFICES ASSUME IInv, Listen PROVE IInv'
  OBVIOUS
<1> USE BoundsAssumption
<1>1. /\ listenQ' \in Seq(Datagram \cup {Malformed}) /\ Len(listenQ') <= SocketBuffer
      /\ Len(listenQ) \in Nat /\ Len(listenQ') \in Nat
      /\ Len(listenQ') <= Len(listenQ)
      /\ "listen" \in ready => Len(listenQ') + 1 = Len(listenQ)
  <2>1. CASE "listen" \in ready
    <3>1. listenQ \in Seq(Datagram \cup {Malformed}) /\ listenQ # <<>> /\ listenQ' = Tail(listenQ)
          /\ Len(listenQ) <= SocketBuffer
      BY <2>1 DEF Listen, IInv, ReadyIsReadable, TypeOK
    <3> QED
      BY <3>1, Reading
  <2>2. CASE "listen" \notin ready
    <3>1. listenQ' = listenQ /\ Len(listenQ) \in Nat
      BY <2>2 DEF Listen, IInv, TypeOK
    <3> QED
      BY <2>2, <3>1 DEF IInv, TypeOK
  <2> QED
    BY <2>1, <2>2
<1>2. /\ pc' = "upstream" /\ ready' = ready \ {"listen"}
      /\ UNCHANGED <<upstreamQ, answers>>
  BY DEF Listen
<1>3. ReadyIsReadable'
  BY <1>2 DEF IInv, ReadyIsReadable
<1>4. CASE UNCHANGED <<table, asked, queries>>
  <2>1. TypeOK'
    BY <1>1, <1>2, <1>4 DEF IInv, TypeOK, table
  <2>2. IdsAreUnique' /\ QueriesAreNumbered'
    BY <1>2, <1>4 DEF IInv, IdsAreUnique, QueriesAreNumbered, InUse, table
  <2>3. RoomForQueries'
    BY <1>1, <1>4 DEF IInv, RoomForQueries, TypeOK
  <2> QED
    BY <1>3, <2>1, <2>2, <2>3 DEF IInv
<1>5. ASSUME "listen" \in ready, queries < MaxQueries, NEW d \in Datagram, NEW r \in Resolvers,
             NEW s \in Slots, NEW id \in Ids, NEW sent \in BOOLEAN, Forwarded(d, r, s, id, sent)
      PROVE  IInv'
  <2>1. /\ pending' \in [Slots -> Pending \cup {Free}]
        /\ \A t \in Slots \ {s} : pending'[t] = pending[t]
        /\ pending'[s] = Free \/ (pending'[s] \in Pending /\ pending'[s].n = queries + 1)
        /\ upstreamId' \in [Slots -> Ids]
        /\ \A t \in Slots \ {s} : upstreamId'[t] = upstreamId[t]
        /\ upstreamId'[s] = id
        /\ age' \in [Slots -> 0..(TTL + 1)]
        /\ asked' \subseteq [to : Resolvers, id : Ids, question : Questions]
        /\ queries' = queries + 1 /\ queries' \in 0..MaxQueries
    BY <1>5, ForwardEffect
  <2>2. TypeOK'
    BY <1>1, <1>2, <2>1 DEF IInv, TypeOK
  <2>3. \A t \in InUse' \ {s} : /\ t \in InUse /\ pending'[t] = pending[t]
                                /\ upstreamId'[t] = upstreamId[t]
    BY <2>1 DEF InUse
  <2>4. IdsAreUnique'
    <3>1. \A t \in InUse \ {s} : upstreamId[t] # id
      BY <1>5 DEF Forwarded, Fresh
    <3> QED
      BY <2>1, <2>3, <3>1 DEF IInv, IdsAreUnique
  <2>5. QueriesAreNumbered'
    <3>1. queries \in Nat /\ (s \in InUse' => pending'[s].n = queries + 1)
      BY <2>1 DEF IInv, TypeOK, InUse
    <3>2. \A t \in InUse : pending[t].n \in Nat /\ pending[t].n <= queries
      BY InUseHolds DEF IInv, QueriesAreNumbered, Pending
    <3>3. \A t \in InUse' : pending'[t].n <= queries'
      BY <2>1, <2>3, <3>1, <3>2
    <3>4. \A t, u \in InUse' : t # u => pending'[t].n # pending'[u].n
      BY <2>3, <3>1, <3>2 DEF IInv, QueriesAreNumbered
    <3>5. \A a \in answers' : a.n <= queries'
      <4>1. \A a \in answers : a.n \in Nat
        BY DEF IInv, TypeOK
      <4> QED
        BY <1>2, <2>1, <3>1, <4>1 DEF IInv, QueriesAreNumbered
    <3> QED
      BY <3>3, <3>4, <3>5 DEF QueriesAreNumbered
  <2>6. RoomForQueries'
    BY <1>1, <1>5, <2>1 DEF IInv, RoomForQueries, TypeOK
  <2> QED
    BY <1>3, <2>2, <2>4, <2>5, <2>6 DEF IInv
<1> QED
  BY <1>4, <1>5, ListenEffect

LEMMA UpstreamKeeps == IInv /\ Upstream => IInv'
<1> SUFFICES ASSUME IInv, Upstream PROVE IInv'
  OBVIOUS
<1> USE BoundsAssumption
<1>1. /\ pc' = "select" /\ ready' = {}
      /\ UNCHANGED <<upstreamId, listenQ, asked, queries>>
  BY DEF Upstream
<1>2. upstreamQ' \in Seq(Reply \cup {Malformed}) /\ Len(upstreamQ') <= SocketBuffer
  <2>1. CASE "upstream" \in ready
    <3>1. upstreamQ \in Seq(Reply \cup {Malformed}) /\ upstreamQ # <<>>
          /\ upstreamQ' = Tail(upstreamQ) /\ Len(upstreamQ) <= SocketBuffer
      BY <2>1 DEF Upstream, IInv, ReadyIsReadable, TypeOK
    <3> QED
      BY <3>1, Reading
  <2>2. CASE "upstream" \notin ready
    BY <2>2 DEF Upstream, IInv, TypeOK
  <2> QED
    BY <2>1, <2>2
<1>3. ReadyIsReadable' /\ RoomForQueries'
  BY <1>1 DEF IInv, ReadyIsReadable, RoomForQueries
<1>4. CASE UNCHANGED <<pending, age, answers>>
  <2>1. TypeOK'
    BY <1>1, <1>2, <1>4 DEF IInv, TypeOK
  <2> QED
    BY <1>1, <1>3, <1>4, <2>1, FewerInUse DEF IInv
<1>5. ASSUME NEW s \in InUse, NEW d \in Reply, AnsweredSlot(s, d) PROVE IInv'
  <2> DEFINE a == [n |-> pending[s].n, leaf |-> pending[s].leaf, id |-> pending[s].id,
                   question |-> d.question, from |-> d.from]
  <2>1. s \in Slots /\ pending[s] \in Pending /\ pending[s].n <= queries
    BY InUseHolds DEF IInv, QueriesAreNumbered
  <2>2. a \in [n : 1..MaxQueries, leaf : Leaves, id : ClientIds,
               question : Questions, from : Resolvers] /\ a.n = pending[s].n
    BY <2>1 DEF Pending, Reply
  <2>3. answers' = answers \cup {a}
    BY <1>5 DEF AnsweredSlot
  <2> HIDE DEF a
  <2>4. /\ pending' \in [Slots -> Pending \cup {Free}] /\ age' \in [Slots -> 0..(TTL + 1)]
        /\ \A t \in Slots : pending'[t] # Free => pending'[t] = pending[t]
    <3>1. 0 \in 0..(TTL + 1)
      OBVIOUS
    <3> QED
      BY <1>5, <3>1 DEF AnsweredSlot, IInv, TypeOK
  <2>5. TypeOK'
    BY <1>1, <1>2, <2>2, <2>3, <2>4 DEF IInv, TypeOK
  <2>6. \A t \in InUse' : /\ t \in InUse /\ pending'[t] = pending[t]
                          /\ upstreamId'[t] = upstreamId[t]
    BY <1>1, <2>4 DEF InUse
  <2>7. IdsAreUnique'
    BY <2>6 DEF IInv, IdsAreUnique
  <2>8. QueriesAreNumbered'
    BY <1>1, <2>1, <2>2, <2>3, <2>6 DEF IInv, QueriesAreNumbered
  <2> QED
    BY <1>3, <2>5, <2>7, <2>8 DEF IInv
<1> QED
  BY <1>4, <1>5, UpstreamEffect

LEMMA EnvironmentKeeps == IInv /\ (LeafSends \/ ReplyArrives \/ Tick \/ UNCHANGED vars) => IInv'
<1> SUFFICES ASSUME IInv PROVE (LeafSends \/ ReplyArrives \/ Tick \/ UNCHANGED vars) => IInv'
  OBVIOUS
<1> USE BoundsAssumption
<1>1. ASSUME LeafSends PROVE IInv'
  <2>1. PICK d \in Datagram \cup {Malformed} : listenQ' = Append(listenQ, d)
    BY <1>1 DEF LeafSends
  <2>2. /\ listenQ' \in Seq(Datagram \cup {Malformed}) /\ listenQ' # <<>>
        /\ Len(listenQ') = Len(listenQ) + 1 /\ Len(listenQ) \in Nat
    BY <2>1, Arriving DEF IInv, TypeOK
  <2>3. Len(listenQ') <= SocketBuffer /\ queries + Len(listenQ') <= MaxQueries
    BY <1>1, <2>2 DEF LeafSends, IInv, TypeOK
  <2>4. UNCHANGED <<pc, ready, pending, upstreamId, age, upstreamQ, asked, answers, queries>>
    BY <1>1 DEF LeafSends, table
  <2>5. TypeOK' /\ ReadyIsReadable' /\ RoomForQueries'
    BY <2>2, <2>3, <2>4 DEF IInv, TypeOK, ReadyIsReadable, RoomForQueries
  <2> QED
    BY <2>4, <2>5, FewerInUse DEF IInv
<1>2. ASSUME ReplyArrives PROVE IInv'
  <2>1. PICK q \in asked : \E d \in {Malformed} \cup
                [from : Resolvers, id : {q.id}, question : Questions] :
                    upstreamQ' = Append(upstreamQ, d)
    BY <1>2 DEF ReplyArrives
  <2>2. PICK d \in {Malformed} \cup [from : Resolvers, id : {q.id}, question : Questions] :
                upstreamQ' = Append(upstreamQ, d)
    BY <2>1
  <2>3. d \in Reply \cup {Malformed}
    <3>1. q.id \in Ids
      BY DEF IInv, TypeOK
    <3> QED
      BY <3>1 DEF Reply
  <2>4. /\ upstreamQ' \in Seq(Reply \cup {Malformed}) /\ upstreamQ' # <<>>
        /\ Len(upstreamQ') = Len(upstreamQ) + 1 /\ Len(upstreamQ) \in Nat
    BY <2>2, <2>3, Arriving DEF IInv, TypeOK
  <2>5. Len(upstreamQ') <= SocketBuffer
    BY <1>2, <2>4 DEF ReplyArrives
  <2>6. UNCHANGED <<pc, ready, pending, upstreamId, age, listenQ, asked, answers, queries>>
    BY <1>2 DEF ReplyArrives, table
  <2>7. TypeOK' /\ ReadyIsReadable' /\ RoomForQueries'
    BY <2>4, <2>5, <2>6 DEF IInv, TypeOK, ReadyIsReadable, RoomForQueries
  <2> QED
    BY <2>6, <2>7, FewerInUse DEF IInv
<1>3. ASSUME Tick PROVE IInv'
  <2>1. age' \in [Slots -> 0..(TTL + 1)]
    <3>1. \A s \in Slots : age[s] \in 0..(TTL + 1)
      BY DEF IInv, TypeOK
    <3>2. \A s \in Slots : (IF s \in InUse /\ age[s] <= TTL THEN age[s] + 1 ELSE age[s])
                               \in 0..(TTL + 1)
      BY <3>1
    <3> QED
      BY <1>3, <3>2 DEF Tick
  <2>2. UNCHANGED <<pc, ready, pending, upstreamId, listenQ, upstreamQ, asked, answers, queries>>
    BY <1>3 DEF Tick
  <2>3. TypeOK' /\ ReadyIsReadable' /\ RoomForQueries'
    BY <2>1, <2>2 DEF IInv, TypeOK, ReadyIsReadable, RoomForQueries
  <2> QED
    BY <2>2, <2>3, FewerInUse DEF IInv
<1>4. ASSUME UNCHANGED vars PROVE IInv'
  <2>1. UNCHANGED <<pc, ready, pending, upstreamId, age, listenQ, upstreamQ, asked, answers, queries>>
    BY <1>4 DEF vars, table
  <2>2. TypeOK' /\ ReadyIsReadable' /\ RoomForQueries'
    BY <2>1 DEF IInv, TypeOK, ReadyIsReadable, RoomForQueries
  <2> QED
    BY <2>1, <2>2, FewerInUse DEF IInv
<1> QED
  BY <1>1, <1>2, <1>3, <1>4

(* The invariant holds of every reachable state.                           *)
THEOREM Inductive == Spec => []IInv
<1>1. IInv /\ [Next]_vars => IInv'
  BY SelectKeeps, ListenKeeps, UpstreamKeeps, EnvironmentKeeps DEF Next, Task
<1> QED
  BY <1>1, InitIsSound, PTL DEF Spec

(* Two queries in flight never share an upstream identifier                *)
(* (dns_forward.c:122-136).                                                *)
THEOREM IdsDiffer == Spec => []IdsAreUnique
<1>1. IInv => IdsAreUnique
  BY DEF IInv
<1> QED
  BY <1>1, Inductive, PTL

-----------------------------------------------------------------------------
(* Only forwarding a query fills a slot.                                   *)
LEMMA OnlyForwardFills ==
    ASSUME IInv, Next, NEW s \in Slots, pending'[s] \notin {pending[s], Free}
    PROVE  \E d \in Datagram, r \in Resolvers, id \in Ids, sent \in BOOLEAN :
              Forwarded(d, r, s, id, sent)
<1>1. CASE Select
  BY <1>1 DEF Select
<1>2. CASE Listen
  <2>1. PICK d \in Datagram, r \in Resolvers, t \in Slots, id \in Ids, sent \in BOOLEAN :
            Forwarded(d, r, t, id, sent) /\ queries < MaxQueries
    BY <1>2, ListenEffect DEF table
  <2>2. t = s
    BY <2>1, ForwardEffect
  <2> QED
    BY <2>1, <2>2
<1>3. CASE Upstream
  <2>1. PICK t \in InUse : pending' = [pending EXCEPT ![t] = Free]
    BY <1>3, UpstreamEffect DEF AnsweredSlot
  <2> QED
    BY <2>1 DEF IInv, TypeOK
<1>4. CASE LeafSends \/ ReplyArrives \/ Tick
  BY <1>4 DEF LeafSends, ReplyArrives, Tick, table
<1> QED
  BY <1>1, <1>2, <1>3, <1>4 DEF Next, Task

(* A slot that takes a new query changes its identifier, so a late reply   *)
(* to the query it held before is not taken for an answer                  *)
(* (dns_forward.c:305-307).                                                *)
THEOREM OldRepliesMiss == Spec => ReuseChangesId
<1> DEFINE Changed == \A s \in Slots : pending'[s] \notin {pending[s], Free} =>
                            upstreamId'[s] # upstreamId[s]
<1>1. IInv /\ [Next]_vars => [Changed]_vars
  <2> SUFFICES ASSUME IInv, Next, NEW s \in Slots, pending'[s] \notin {pending[s], Free}
               PROVE  upstreamId'[s] # upstreamId[s]
    OBVIOUS
  <2>1. PICK d \in Datagram, r \in Resolvers, id \in Ids, sent \in BOOLEAN :
            Forwarded(d, r, s, id, sent)
    BY OnlyForwardFills
  <2>2. upstreamId'[s] = id /\ id \in Fresh(s)
    BY <2>1 DEF Forwarded, IInv, TypeOK
  <2> QED
    BY <2>2 DEF Fresh
<1> QED
  BY <1>1, Inductive, PTL DEF Spec, ReuseChangesId

(* A query gives way to another only when every slot is taken and none has *)
(* waited longer (pending_alloc(), dns_forward.c:210-230).                 *)
THEOREM TheOldestGivesWay == Spec => OnlyTheOldestGivesWay
<1> DEFINE Oldest == \A s \in InUse : pending'[s] \notin {pending[s], Free} =>
                        /\ InUse = Slots
                        /\ \A t \in Slots : age[t] <= age[s]
<1>1. IInv /\ [Next]_vars => [Oldest]_vars
  <2> SUFFICES ASSUME IInv, Next, NEW s \in InUse, pending'[s] \notin {pending[s], Free}
               PROVE  InUse = Slots /\ \A t \in Slots : age[t] <= age[s]
    OBVIOUS
  <2>1. s \in Slots /\ InUse \subseteq Slots
    BY DEF InUse
  <2>2. s \in Allocates
    BY <2>1, OnlyForwardFills DEF Forwarded
  <2> QED
    BY <2>1, <2>2 DEF Allocates
<1> QED
  BY <1>1, Inductive, PTL DEF Spec, OnlyTheOldestGivesWay

-----------------------------------------------------------------------------
(* The forwarder implements the relay: the queries held are those in the   *)
(* table.                                                                  *)

(* No more queries are held than there are slots.                          *)
LEMMA HeldFits ==
    ASSUME NEW holds, NEW U \in SUBSET Slots
    PROVE  Cardinality({holds[s] : s \in U}) <= Cardinality(Slots)
<1> DEFINE H == {holds[s] : s \in U}
           f == [s \in U |-> holds[s]]
<1>1. f \in Surjection(U, H)
  BY DEF Surjection
<1>2. IsFiniteSet(U) /\ Cardinality(U) <= Cardinality(Slots)
  BY SlotsAssumption, FS_Subset
<1>3. Cardinality(H) <= Cardinality(U) /\ IsFiniteSet(H)
  BY <1>1, <1>2, FS_Surjection
<1>4. Cardinality(H) \in Nat /\ Cardinality(U) \in Nat /\ Cardinality(Slots) \in Nat
  BY <1>2, <1>3, SlotsAssumption, FS_CardinalityType
<1> QED
  BY <1>2, <1>3, <1>4

(* A step that adds no query and no answer gives up some, or none.         *)
LEMMA GivingUp ==
    ASSUME answers' = answers,
           \A s \in Slots : pending'[s] # Free => pending'[s] = pending[s]
    PROVE  Relay!GiveUp
<1>1. Held' \subseteq Held
  BY DEF Held, InUse
<1>2. Held' = Held \ (Held \ Held') /\ (Held \ Held') \in SUBSET Held
  BY <1>1
<1> QED
  BY <1>2 DEF Relay!GiveUp

(* Every step of the forwarder is a step of the relay, or none.            *)
LEMMA RelayStep ==
    ASSUME IInv, IInv', [Next]_vars
    PROVE  [Relay!Next]_<<Held, answers>>
<1>1. CASE Select
  BY <1>1, GivingUp DEF Select, Relay!Next
<1>2. CASE Listen
  <2>1. answers' = answers
    BY <1>2 DEF Listen
  <2>2. CASE UNCHANGED <<table, asked, queries>>
    BY <2>1, <2>2, GivingUp DEF table, Relay!Next
  <2>3. ASSUME NEW d \in Datagram, NEW r \in Resolvers, NEW s \in Slots, NEW id \in Ids,
               NEW sent \in BOOLEAN, Forwarded(d, r, s, id, sent), queries < MaxQueries
        PROVE  Relay!Next
    <3>1. /\ \A t \in Slots \ {s} : pending'[t] = pending[t]
          /\ pending'[s] = Free \/ (pending'[s] \in Pending /\ pending'[s].n = queries + 1)
      BY <2>3, ForwardEffect
    <3>2. CASE pending'[s] = Free
      BY <2>1, <3>1, <3>2, GivingUp DEF Relay!Next
    <3>3. CASE pending'[s] \in Pending /\ pending'[s].n = queries + 1
      <4> DEFINE q == pending'[s]
                 given == Held \ Held'
      <4>1. q \in Relay!Query
        BY <3>3 DEF Relay!Query, Pending
      <4>2. q.n \notin {a.n : a \in answers} \cup {p.n : p \in Held}
        <5>1. queries \in Nat
          BY DEF IInv, TypeOK
        <5>2. \A a \in answers : a.n \in Nat /\ a.n <= queries
          BY DEF IInv, TypeOK, QueriesAreNumbered
        <5>3. \A p \in Held : p.n \in Nat /\ p.n <= queries
          BY InUseHolds DEF Held, IInv, QueriesAreNumbered, Pending
        <5> QED
          BY <3>3, <5>1, <5>2, <5>3
      <4>3. Held' = (Held \ given) \cup {q} /\ given \in SUBSET Held
        <5>1. Held' \subseteq Held \cup {q}
          BY <3>1 DEF Held, InUse
        <5>2. q \in Held'
          BY <3>3, ValuesAssumption DEF Held, InUse
        <5> QED
          BY <5>1, <5>2
      <4>4. Cardinality(Held') <= Cardinality(Slots)
        <5>1. InUse' \in SUBSET Slots
          BY DEF InUse
        <5> QED
          BY <5>1, HeldFits DEF Held
      <4> HIDE DEF q, given
      <4>5. \E p \in Relay!Query :
                /\ p.n \notin {a.n : a \in answers} \cup {o.n : o \in Held}
                /\ \E g \in SUBSET Held : Held' = (Held \ g) \cup {p}
        BY <4>1, <4>2, <4>3, Zenon
      <4>6. Relay!Cardinality(Held') = Cardinality(Held')
        BY DEF Relay!Cardinality, Cardinality
      <4> QED
        BY <2>1, <4>4, <4>5, <4>6 DEF Relay!Next, Relay!Accept
    <3> QED
      BY <3>1, <3>2, <3>3
  <2> QED
    BY <1>2, <2>2, <2>3, ListenEffect
<1>3. CASE Upstream
  <2>1. CASE UNCHANGED <<pending, age, answers>>
    BY <2>1, GivingUp DEF Relay!Next
  <2>2. ASSUME NEW s \in InUse, NEW d \in Reply, AnsweredSlot(s, d)
        PROVE  Relay!Answered
    <3> DEFINE q == pending[s]
    <3>1. q \in Held /\ q \in Pending /\ s \in Slots
      BY InUseHolds DEF Held, IInv
    <3>2. answers' = answers \cup {Relay!AnswerTo(q)}
      BY <2>2 DEF AnsweredSlot, Matches, Relay!AnswerTo
    <3>3. \A t \in Slots : t \in InUse' <=> (t \in InUse /\ t # s)
      BY <2>2, <3>1 DEF AnsweredSlot, InUse, IInv, TypeOK
    <3>4. \A t \in InUse' : pending'[t] = pending[t]
      BY <2>2, <3>3 DEF AnsweredSlot, InUse, IInv, TypeOK
    <3>5. \A t \in InUse : t # s => pending[t] # q
      BY DEF IInv, QueriesAreNumbered
    <3>6. Held' = Held \ {q}
      BY <3>3, <3>4, <3>5 DEF Held, InUse
    <3> QED
      BY <3>1, <3>2, <3>6 DEF Relay!Answered
  <2> QED
    BY <1>3, <2>1, <2>2, UpstreamEffect DEF Relay!Next
<1>4. CASE LeafSends \/ ReplyArrives \/ Tick
  BY <1>4, GivingUp DEF LeafSends, ReplyArrives, Tick, table, Relay!Next
<1>5. CASE UNCHANGED vars
  BY <1>5 DEF vars, table, Held, InUse
<1> QED
  BY <1>1, <1>2, <1>3, <1>4, <1>5 DEF Next, Task

(* The table, the matching and the restored identifier give every leaf     *)
(* the abstract relay.                                                     *)
THEOREM Implements == Spec => ImplementsRelay
<1>1. Init => Relay!Init
  BY DEF Init, Relay!Init, Held, InUse
<1> QED
  BY <1>1, RelayStep, Inductive, PTL DEF Spec, ImplementsRelay, Relay!Spec

=============================================================================
