------------------------------ MODULE LogRing ------------------------------
(***************************************************************************)
(* The log ring (log_buffer.c): every ESP_LOGx of every task also goes     *)
(* into a ring of bytes that GET /api/log reads back.  The lock makes an   *)
(* append and a read one step each; a line logged while it is held is left *)
(* out of the ring, and a read that waits 100 ms for it returns nothing.   *)
(* A line is formatted into a buffer of LineMax bytes, with its NUL.       *)
(***************************************************************************)
EXTENDS Naturals, Sequences

CONSTANTS
    Bytes,      \* what a line is made of
    Zero,       \* what the ring holds before any line
    RingSize,   \* LOG_RING_SIZE
    LineMax,    \* LOG_LINE_MAX
    Room        \* out_size - 1 of a reader: bound

\* Assumed by Node.  A line is never as long as the ring, so ring_append() never has to cut one.
RingAssumption == RingSize \in Nat /\ LineMax \in 2..RingSize /\ Room \in Nat

VARIABLES ring, head, count, shown

vars == <<ring, head, count, shown>>

Index == 0..(RingSize - 1)
Line == UNION {[1..n -> Bytes] : n \in 1..(LineMax - 1)}

TypeOK ==
    /\ ring \in [Index -> Bytes \cup {Zero}]
    /\ head \in Index
    /\ count \in 0..RingSize

Init ==
    /\ ring = [i \in Index |-> Zero] /\ head = 0 /\ count = 0
    /\ shown = <<>>

\* ring_append(), its two memcpy()s seen as one.
RingAppend(line) ==
    LET at(i) == ((i + RingSize - head) % RingSize) + 1 IN
    /\ ring' = [i \in Index |-> IF at(i) <= Len(line) THEN line[at(i)] ELSE ring[i]]
    /\ head' = (head + Len(line)) % RingSize
    /\ count' = IF count + Len(line) > RingSize THEN RingSize ELSE count + Len(line)

Log == (\E line \in Line : RingAppend(line)) /\ UNCHANGED shown

\* The oldest byte is the next to be written over, once the ring is full.
OldestOfPartial == 0
Oldest == IF count = RingSize THEN head ELSE 0

\* log_buffer_read(): the oldest are dropped if out is too small.
Copied(start, available) == [i \in 1..available |-> ring[(start + i - 1) % RingSize]]

Read ==
    /\ \E room \in 0..Room :
        LET drop == IF count > room THEN count - room ELSE 0
        IN  shown' = Copied((Oldest + drop) % RingSize, count - drop)
    /\ UNCHANGED <<ring, head, count>>

Next == Log \/ Read

Spec == Init /\ [][Next]_vars

-----------------------------------------------------------------------------
\* The bytes in the ring, from the next to be written over to the last written.
Window == [i \in 1..count |-> ring[(head + RingSize - count + i - 1) % RingSize]]

Kept == INSTANCE Recent WITH Items <- Bytes, Size <- RingSize, window <- Window

\* A reader is given the most recent bytes logged, in order and without a gap,
\* wherever the last lap of the ring ended: also when an append filled it to its
\* last byte and none ever crossed its end (the ring that once read back empty).
LogIsRecent == Kept!Spec
=============================================================================
