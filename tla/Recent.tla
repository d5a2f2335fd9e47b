------------------------------- MODULE Recent -------------------------------
(***************************************************************************)
(* What a ring buffer promises: it keeps the most recent Size items of all *)
(* that were recorded, and a reader is shown the most recent of those, as  *)
(* many as it has room for, oldest first (log_buffer.h, link_history.h).   *)
(***************************************************************************)
EXTENDS Naturals, Sequences

CONSTANTS Items, Size

\* Assumed by Node.
SizeAssumption == Size \in Nat \ {0}

VARIABLES
    window, \* the items kept, oldest first
    shown   \* what the last reader was given

vars == <<window, shown>>

Least(m, n) == IF m < n THEN m ELSE n

\* The last n of a sequence, or all of it.
Last(n, s) == SubSeq(s, Len(s) - Least(n, Len(s)) + 1, Len(s))

Init == window = <<>> /\ shown = <<>>

\* At most Size items at a time; which ones is up to whoever records them.
Record ==
    /\ \E n \in 1..Size : \E items \in [1..n -> Items] : window' = Last(Size, window \o items)
    /\ UNCHANGED shown

Show ==
    /\ \E room \in 0..Size : shown' = Last(room, window)
    /\ UNCHANGED window

Spec == Init /\ [][Record \/ Show]_vars
=============================================================================
