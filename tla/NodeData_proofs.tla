--------------------------- MODULE NodeData_proofs ---------------------------
(***************************************************************************)
(* What a node keeps.  Its two rings implement Recent, for any size, lines *)
(* of any length below it and any readings.  Both rest on one invariant of *)
(* their own, that a ring that is not full was never wrapped: its next     *)
(* item goes right after its last.  What is left is arithmetic on indices, *)
(* which is done once for both.  Its addresses are usable, for words of    *)
(* any width: the validator's bit tricks come to what they are there for.  *)
(***************************************************************************)
EXTENDS Node, Integers, SequenceTheorems, FiniteSetTheorems, WellFoundedInduction, TLAPS

-----------------------------------------------------------------------------
(* Indices of a ring of R items with its next at h and c of them kept.     *)

\* A remainder within two laps.
LEMMA Wrap ==
    ASSUME NEW R \in Nat \ {0}, NEW x \in Nat, x < 2 * R
    PROVE  x % R = IF x < R THEN x ELSE x - R
  OBVIOUS

\* The index n items further.
Advance(R, h, n) == (h + n) % R

LEMMA NextIndex ==
    ASSUME NEW R \in Nat \ {0}, NEW h \in 0..(R - 1), NEW n \in 1..R
    PROVE  /\ Advance(R, h, n) \in 0..(R - 1)
           /\ Advance(R, h, n) = IF h + n < R THEN h + n ELSE h + n - R
<1> DEFINE x == h + n
<1>1. x \in Nat /\ x < 2 * R /\ x = h + n
  OBVIOUS
<1> HIDE DEF x
<1>2. x % R = IF x < R THEN x ELSE x - R
  BY <1>1, Wrap
<1> QED BY <1>1, <1>2 DEF Advance

\* After n items are written at h, d are kept; the i-th of them is at index j, and
\* is the k-th of those written.  It is where the k-th was written; or, if k is not
\* of them, it was there before.
LEMMA LapArithmetic ==
    ASSUME NEW R \in Nat \ {0}, NEW h \in 0..(R - 1), NEW c \in 0..R, NEW n \in 1..R,
           NEW d \in 0..R, d = (IF c + n > R THEN R ELSE c + n), NEW i \in 1..d,
           NEW j, j = (((h + n) % R) + R - d + i - 1) % R,
           NEW k, k = n - d + i
    PROVE  /\ j \in 0..(R - 1)
           /\ k > 0 => k <= n /\ ((j + R - h) % R) + 1 = k
           /\ k <= 0 => /\ ((j + R - h) % R) + 1 > n
                        /\ c + k \in 1..c
                        /\ j = (h + R - c + (c + k) - 1) % R
<1>1. /\ R \in Nat \ {0} /\ R \in Nat /\ h \in Nat /\ c \in Nat /\ n \in Nat
      /\ d \in Nat /\ i \in Nat /\ k \in Int
      /\ 0 < R /\ h < R /\ c <= R /\ 1 <= n /\ n <= R /\ 1 <= i /\ i <= d /\ d <= R
      /\ d <= c + n /\ d = (IF c + n > R THEN R ELSE c + n)
      /\ j = (((h + n) % R) + R - d + i - 1) % R /\ k = n - d + i
  OBVIOUS
<1> DEFINE g == (h + n) % R
<1>2. g = IF h + n < R THEN h + n ELSE h + n - R
  <2>1. h + n \in Nat /\ h + n < 2 * R
    BY <1>1
  <2> QED BY <1>1, <2>1, Wrap
<1>3. g \in Nat /\ g < R
  BY <1>1, <1>2
<1> HIDE DEF g
<1>4. j = IF g + R - d + i - 1 < R THEN g + R - d + i - 1 ELSE g - d + i - 1
  <2>1. g + R - d + i - 1 \in Nat /\ g + R - d + i - 1 < 2 * R
    BY <1>1, <1>3
  <2>2. j = (g + R - d + i - 1) % R
    BY <1>1 DEF g
  <2> QED BY <1>1, <1>3, <2>1, <2>2, Wrap
<1>5. j \in 0..(R - 1)
  BY <1>1, <1>3, <1>4
<1>6. (j + R - h) % R = IF j + R - h < R THEN j + R - h ELSE j - h
  <2>1. j + R - h \in Nat /\ j + R - h < 2 * R
    BY <1>1, <1>5
  <2> QED BY <1>1, <1>5, <2>1, Wrap
<1>7. ASSUME k > 0 PROVE k <= n /\ ((j + R - h) % R) + 1 = k
  BY <1>1, <1>2, <1>3, <1>4, <1>5, <1>6, <1>7
<1>8. ASSUME k <= 0
      PROVE  /\ ((j + R - h) % R) + 1 > n
             /\ c + k \in 1..c
             /\ j = (h + R - c + (c + k) - 1) % R
  <2>1. c + k \in 1..c
    BY <1>1, <1>8
  <2>2. ((j + R - h) % R) + 1 > n
    BY <1>1, <1>2, <1>3, <1>4, <1>5, <1>6, <1>8
  <2>3. h + R - c + (c + k) - 1 = h + R + k - 1
    BY <1>1
  <2>4. h + R + k - 1 \in Nat /\ h + R + k - 1 < 2 * R
    BY <1>1, <2>1, <1>8
  <2>5. j = IF h + R + k - 1 < R THEN h + R + k - 1 ELSE h + k - 1
    BY <1>1, <1>2, <1>3, <1>4, <1>5, <1>8
  <2> QED BY <1>1, <2>1, <2>2, <2>3, <2>4, <2>5, Wrap
<1> QED BY <1>5, <1>7, <1>8

\* The same under one name.
Lap(R, h, c, n, d, i, j, k) ==
    /\ R \in Nat \ {0} /\ h \in 0..(R - 1) /\ c \in 0..R /\ n \in 1..R
    /\ d \in 0..R /\ d = (IF c + n > R THEN R ELSE c + n)
    /\ i \in 1..d /\ j = (((h + n) % R) + R - d + i - 1) % R /\ k = n - d + i

LEMMA LapOf ==
    ASSUME NEW R, NEW h, NEW c, NEW n, NEW d, NEW i, NEW j, NEW k, Lap(R, h, c, n, d, i, j, k)
    PROVE  /\ j \in 0..(R - 1)
           /\ k > 0 => k <= n /\ ((j + R - h) % R) + 1 = k
           /\ k <= 0 => /\ ((j + R - h) % R) + 1 > n
                        /\ c + k \in 1..c
                        /\ j = (h + R - c + (c + k) - 1) % R
  BY LapArithmetic, SMTT(60) DEF Lap

\* Where a reader that has room for m finds the i-th of them.
LEMMA ReadArithmetic ==
    ASSUME NEW R \in Nat \ {0}, NEW h \in 0..(R - 1), NEW c \in 0..R, c < R => h = c,
           NEW o, o = (IF c = R THEN h ELSE 0), NEW m \in 0..c, NEW i \in 1..m
    PROVE  /\ (o + (c - m) + i - 1) % R = (h + R - c + (c - m + i) - 1) % R
           /\ (((o + (c - m)) % R) + i - 1) % R = (h + R - c + (c - m + i) - 1) % R
<1>1. /\ R \in Nat /\ h \in Nat /\ c \in Nat /\ m \in Nat /\ i \in Nat /\ o \in Nat
      /\ 0 < R /\ h < R /\ c <= R /\ 1 <= i /\ i <= m /\ m <= c /\ o < R
  OBVIOUS
<1>2. (h + R - c + (c - m + i) - 1) % R
        = IF h + R - m + i - 1 < R THEN h + R - m + i - 1 ELSE h - m + i - 1
  <2>1. h + R - c + (c - m + i) - 1 = h + R - m + i - 1
    BY <1>1
  <2>2. h + R - m + i - 1 \in Nat /\ h + R - m + i - 1 < 2 * R
    BY <1>1
  <2> QED BY <1>1, <2>1, <2>2, Wrap
<1>3. CASE c = R
  <2>1. o = h
    BY <1>3
  <2>2. (o + (c - m) + i - 1) % R = (h + R - c + (c - m + i) - 1) % R
    <3>1. o + (c - m) + i - 1 = h + R - c + (c - m + i) - 1
      BY <1>1, <1>3, <2>1
    <3> QED BY <3>1
  <2> DEFINE g == (o + (c - m)) % R
  <2>3. g = IF h + R - m < R THEN h + R - m ELSE h - m
    <3>1. o + (c - m) = h + R - m /\ h + R - m \in Nat /\ h + R - m < 2 * R
      BY <1>1, <1>3, <2>1
    <3> QED BY <1>1, <3>1, Wrap
  <2>4. g \in Nat /\ g < R
    BY <1>1, <2>3
  <2> HIDE DEF g
  <2>5. g + i - 1 \in Nat /\ g + i - 1 < 2 * R
    BY <1>1, <2>4
  <2>6. (g + i - 1) % R = IF g + i - 1 < R THEN g + i - 1 ELSE g + i - 1 - R
    BY <1>1, <2>4, <2>5, Wrap
  <2>7. (g + i - 1) % R = (h + R - c + (c - m + i) - 1) % R
    BY <1>1, <1>2, <2>3, <2>4, <2>6
  <2> QED BY <2>2, <2>7 DEF g
<1>4. CASE c < R
  <2>1. o = 0 /\ h = c
    BY <1>1, <1>4
  <2>2. (c - m) % R = c - m /\ (c - m + i - 1) % R = c - m + i - 1
    <3>1. /\ c - m \in Nat /\ c - m < R /\ c - m < 2 * R
          /\ c - m + i - 1 \in Nat /\ c - m + i - 1 < R /\ c - m + i - 1 < 2 * R
      BY <1>1, <1>4
    <3> QED BY <1>1, <3>1, Wrap
  <2>3. o + (c - m) = c - m /\ o + (c - m) + i - 1 = c - m + i - 1
    BY <1>1, <2>1
  <2>4. (h + R - c + (c - m + i) - 1) % R = c - m + i - 1
    BY <1>1, <1>2, <1>4, <2>1
  <2> QED BY <2>2, <2>3, <2>4
<1> QED BY <1>1, <1>3, <1>4

-----------------------------------------------------------------------------
(* What a ring keeps, as a sequence.                                       *)

\* Function of a prefix of the numbers, and sequence.
LEMMA FunctionIsSequence ==
    ASSUME NEW S, NEW n \in Nat, NEW s \in [1..n -> S]
    PROVE  s \in Seq(S) /\ Len(s) = n
  OBVIOUS

\* The last m of a sequence.
Ending(m, s) == SubSeq(s, Len(s) - m + 1, Len(s))
EndsIn(S, s, m) == s \in Seq(S) /\ m \in 0..Len(s)

LEMMA LastOf ==
    ASSUME NEW S, NEW s, NEW m, EndsIn(S, s, m)
    PROVE  /\ Ending(m, s) \in Seq(S) /\ Len(Ending(m, s)) = m
           /\ \A i \in 1..m : Ending(m, s)[i] = s[Len(s) - m + i]
<1> DEFINE l == Len(s)
           last == SubSeq(s, l - m + 1, l)
<1>1. l \in Nat /\ l - m + 1 \in Int /\ m \in Nat /\ s \in [1..l -> S] /\ m <= l
  BY LenProperties DEF EndsIn
<1>2. last = Ending(m, s)
  BY DEF Ending
<1> HIDE DEF l
<1>3. \A i \in (l - m + 1)..l : s[i] \in S
  BY <1>1
<1>4. /\ last \in Seq(S)
      /\ Len(last) = IF l - m + 1 <= l THEN l - (l - m + 1) + 1 ELSE 0
      /\ \A i \in 1..(l - (l - m + 1) + 1) : last[i] = s[(l - m + 1) + i - 1]
  BY <1>1, <1>3, SubSeqProperties
<1> HIDE DEF last
<1>5. l - (l - m + 1) + 1 = m
  BY <1>1
<1>6. \A i \in 1..m : (l - m + 1) + i - 1 = l - m + i
  BY <1>1
<1>7. Len(last) = m
  BY <1>1, <1>4, <1>5
<1>8. \A i \in 1..m : last[i] = s[l - m + i]
  BY <1>4, <1>5, <1>6
<1> QED BY <1>2, <1>4, <1>7, <1>8 DEF l

\* Where the ring keeps the items, from the next to be written over to the last.
RingWindow(R, h, c, array) == [i \in 1..c |-> array[(h + R - c + i - 1) % R]]

LEMMA WindowIsSequence ==
    ASSUME NEW S, NEW R \in Nat \ {0}, NEW h \in 0..(R - 1), NEW c \in 0..R,
           NEW array \in [0..(R - 1) -> S]
    PROVE  RingWindow(R, h, c, array) \in Seq(S) /\ Len(RingWindow(R, h, c, array)) = c
<1>1. ASSUME NEW i \in 1..c PROVE (h + R - c + i - 1) % R \in 0..(R - 1)
  <2>1. h + R - c + i - 1 \in Nat /\ h + R - c + i - 1 < 2 * R
    OBVIOUS
  <2> QED BY <2>1, Wrap
<1>2. RingWindow(R, h, c, array) \in [1..c -> S]
  BY <1>1 DEF RingWindow
<1> QED BY <1>2, FunctionIsSequence

\* The same under one name.
Ring(S, R, h, c, array) ==
    /\ R \in Nat \ {0} /\ h \in 0..(R - 1) /\ c \in 0..R
    /\ array \in [0..(R - 1) -> S]

LEMMA WindowOf ==
    ASSUME NEW S, NEW R, NEW h, NEW c, NEW array, Ring(S, R, h, c, array)
    PROVE  RingWindow(R, h, c, array) \in Seq(S) /\ Len(RingWindow(R, h, c, array)) = c
  BY WindowIsSequence DEF Ring

\* The ring after n items are written at h.
Written(R, h, n, items, old, new) ==
    \A j \in 0..(R - 1) :
        new[j] = IF ((j + R - h) % R) + 1 <= n THEN items[((j + R - h) % R) + 1] ELSE old[j]

\* The ring (h, c, old) becomes (g, d, new) as n items are written.
Writing(S, R, h, c, n, items, old, new, d, g) ==
    /\ Ring(S, R, h, c, old) /\ Ring(S, R, g, d, new)
    /\ n \in 1..R /\ items \in [1..n -> S]
    /\ Written(R, h, n, items, old, new)
    /\ d = (IF c + n > R THEN R ELSE c + n)
    /\ g = Advance(R, h, n)

\* It is left with the last of what it held and they, in order.
LEMMA WritingKeepsTheLast ==
    ASSUME NEW S, NEW R, NEW h, NEW c, NEW n, NEW items, NEW old, NEW new, NEW d, NEW g,
           Writing(S, R, h, c, n, items, old, new, d, g)
    PROVE  RingWindow(R, g, d, new) = Ending(d, RingWindow(R, h, c, old) \o items)
<1> DEFINE kept == RingWindow(R, h, c, old)
           all == kept \o items
           at(i) == (g + R - d + i - 1) % R
           last == Ending(d, all)
           window == RingWindow(R, g, d, new)
<1>1. /\ R \in Nat /\ h \in Nat /\ c \in Nat /\ n \in Nat /\ d \in Nat
      /\ 0 < R /\ h < R /\ c <= R /\ 1 <= n /\ n <= R /\ d <= R /\ d <= c + n
  BY DEF Writing, Ring
<1>2. kept \in Seq(S) /\ Len(kept) = c /\ items \in Seq(S) /\ Len(items) = n
  <2>1. kept \in Seq(S) /\ Len(kept) = c
    BY WindowOf DEF Writing
  <2>2. items \in [1..n -> S]
    BY DEF Writing
  <2> QED BY <1>1, <2>1, <2>2, FunctionIsSequence
<1>3. \A i \in 1..c : kept[i] = old[(h + R - c + i - 1) % R]
  BY DEF RingWindow
<1>4. /\ all \in Seq(S) /\ Len(all) = c + n
      /\ \A i \in 1..(c + n) : all[i] = IF i <= c THEN kept[i] ELSE items[i - c]
  <2> HIDE DEF kept
  <2> QED BY <1>2, ConcatProperties
<1>5. last \in Seq(S) /\ Len(last) = d /\ \A i \in 1..d : last[i] = all[c + n - d + i]
  <2>1. EndsIn(S, all, d) /\ Len(all) = c + n
    BY <1>1, <1>4 DEF EndsIn
  <2> HIDE DEF all
  <2>2. last \in Seq(S) /\ Len(last) = d /\ \A i \in 1..d : last[i] = all[Len(all) - d + i]
    BY <2>1, LastOf
  <2> HIDE DEF last
  <2>3. ASSUME NEW i \in 1..d PROVE last[i] = all[c + n - d + i]
    <3>1. Len(all) - d + i = c + n - d + i
      BY <1>1, <2>1
    <3> QED BY <2>2, <3>1
  <2> QED BY <2>2, <2>3
<1>6. ASSUME NEW i \in 1..d, NEW j, j = at(i), NEW k, k = n - d + i
      PROVE  new[j] = all[c + k]
  <2>1. /\ j \in 0..(R - 1)
        /\ k > 0 => k <= n /\ ((j + R - h) % R) + 1 = k
        /\ k <= 0 => /\ ((j + R - h) % R) + 1 > n
                     /\ c + k \in 1..c
                     /\ j = (h + R - c + (c + k) - 1) % R
    <3>1. Lap(R, h, c, n, d, i, j, k)
      BY <1>6 DEF Lap, Advance, Writing, Ring
    <3> HIDE DEF at, all
    <3> QED BY <3>1, LapOf
  <2>2. k \in Int /\ c + k \in 1..(c + n)
    BY <1>1, <1>6
  <2>3. new[j] = IF ((j + R - h) % R) + 1 <= n THEN items[((j + R - h) % R) + 1] ELSE old[j]
    BY <2>1 DEF Writing, Written
  <2> HIDE DEF at, all, kept
  <2>4. CASE k > 0
    <3>1. new[j] = items[k]
      BY <2>1, <2>3, <2>4
    <3>2. all[c + k] = items[k]
      <4>1. ~(c + k <= c) /\ (c + k) - c = k
        BY <1>1, <2>2, <2>4
      <4> QED BY <1>4, <2>2, <4>1
    <3> QED BY <3>1, <3>2
  <2>5. CASE k <= 0
    <3>1. new[j] = old[(h + R - c + (c + k) - 1) % R]
      <4>1. ~(((j + R - h) % R) + 1 <= n)
        <5>1. (j + R - h) % R \in Int
          BY <1>1, <2>1
        <5> QED BY <1>1, <2>1, <2>5, <5>1
      <4> QED BY <2>1, <2>3, <2>5, <4>1
    <3>2. all[c + k] = kept[c + k]
      <4>1. c + k <= c
        BY <1>1, <2>2, <2>5
      <4> QED BY <1>4, <2>2, <4>1
    <3>3. kept[c + k] = old[(h + R - c + (c + k) - 1) % R]
      BY <1>3, <2>1, <2>5
    <3> QED BY <3>1, <3>2, <3>3
  <2> QED BY <2>2, <2>4, <2>5
<1>7. \A i \in 1..d : new[at(i)] = all[c + n - d + i]
  <2> HIDE DEF at, all
  <2> SUFFICES ASSUME NEW i \in 1..d PROVE new[at(i)] = all[c + n - d + i]
    OBVIOUS
  <2>1. new[at(i)] = all[c + (n - d + i)]
    BY <1>6
  <2> QED BY <1>1, <2>1
<1>8. \A i \in 1..d : window[i] = new[at(i)]
  BY DEF RingWindow
<1>9. window \in Seq(S) /\ Len(window) = d
  BY WindowOf DEF Writing
<1>10. window = last
  <2> HIDE DEF window, last, at, all
  <2> QED BY <1>5, <1>7, <1>8, <1>9, SeqEqual
<1> QED BY <1>10

\* What a reader that has room for m is given: it starts at the oldest, past those
\* it has no room for.  One of the two rings wraps the start, the other does not.
Oldest(R, h, c) == IF c = R THEN h ELSE 0
Reading(S, R, h, c, array, m, given) ==
    /\ Ring(S, R, h, c, array) /\ (c < R => h = c) /\ m \in 0..c
    /\ \/ given = [i \in 1..m |-> array[(((Oldest(R, h, c) + (c - m)) % R) + i - 1) % R]]
       \/ given = [i \in 1..m |-> array[(Oldest(R, h, c) + (c - m) + i - 1) % R]]

Place(R, h, c, m, i) ==
    /\ R \in Nat \ {0} /\ h \in 0..(R - 1) /\ c \in 0..R /\ (c < R => h = c)
    /\ m \in 0..c /\ i \in 1..m

LEMMA PlaceOf ==
    ASSUME NEW R, NEW h, NEW c, NEW m, NEW i, Place(R, h, c, m, i)
    PROVE  /\ (Oldest(R, h, c) + (c - m) + i - 1) % R = (h + R - c + (c - m + i) - 1) % R
           /\ (((Oldest(R, h, c) + (c - m)) % R) + i - 1) % R
                = (h + R - c + (c - m + i) - 1) % R
  BY ReadArithmetic DEF Place, Oldest

LEMMA ReadingShowsTheLast ==
    ASSUME NEW S, NEW R, NEW h, NEW c, NEW array, NEW m, NEW given,
           Reading(S, R, h, c, array, m, given)
    PROVE  given = Ending(m, RingWindow(R, h, c, array))
<1> DEFINE kept == RingWindow(R, h, c, array)
           at(i) == (h + R - c + (c - m + i) - 1) % R
<1>1. /\ R \in Nat /\ h \in Nat /\ c \in Nat /\ m \in Nat /\ m <= c /\ c <= R /\ h < R
      /\ Ring(S, R, h, c, array)
  BY DEF Reading, Ring
<1>2. kept \in Seq(S) /\ Len(kept) = c
  BY <1>1, WindowOf
<1>3. /\ Ending(m, kept) \in Seq(S) /\ Len(Ending(m, kept)) = m
      /\ \A i \in 1..m : Ending(m, kept)[i] = kept[c - m + i]
  <2> HIDE DEF kept
  <2>1. EndsIn(S, kept, m)
    BY <1>1, <1>2 DEF EndsIn
  <2>2. /\ Ending(m, kept) \in Seq(S) /\ Len(Ending(m, kept)) = m
        /\ \A i \in 1..m : Ending(m, kept)[i] = kept[Len(kept) - m + i]
    BY <2>1, LastOf
  <2> QED BY <1>2, <2>2
<1>4. \A i \in 1..m : kept[c - m + i] = array[at(i)]
  <2> SUFFICES ASSUME NEW i \in 1..m PROVE kept[c - m + i] = array[at(i)]
    OBVIOUS
  <2>1. c - m + i \in 1..c
    BY <1>1
  <2> QED BY <2>1 DEF RingWindow
<1>5. given = [i \in 1..m |-> array[at(i)]]
  <2>1. ASSUME NEW i \in 1..m
        PROVE  /\ (Oldest(R, h, c) + (c - m) + i - 1) % R = at(i)
               /\ (((Oldest(R, h, c) + (c - m)) % R) + i - 1) % R = at(i)
    <3>1. Place(R, h, c, m, i)
      BY DEF Place, Reading, Ring
    <3> QED BY <3>1, PlaceOf
  <2> HIDE DEF at
  <2> QED BY <2>1 DEF Reading
<1>6. given \in Seq(S) /\ Len(given) = m
  <2>1. \A i \in 1..m : array[at(i)] \in S
    <3> SUFFICES ASSUME NEW i \in 1..m PROVE array[at(i)] \in S
      OBVIOUS
    <3>1. c - m + i \in 1..Len(kept)
      BY <1>1, <1>2
    <3>2. kept[c - m + i] \in S
      <4> HIDE DEF kept
      <4> QED BY <1>2, <3>1, LenProperties
    <3> QED BY <1>4, <3>2
  <2> HIDE DEF at
  <2>2. given \in [1..m -> S]
    BY <1>5, <2>1
  <2> QED BY <1>1, <2>2, FunctionIsSequence
<1>7. \A i \in 1..m : given[i] = Ending(m, kept)[i]
  <2> HIDE DEF at, kept
  <2> QED BY <1>3, <1>4, <1>5
<1> HIDE DEF kept
<1>8. given = Ending(m, kept)
  BY <1>3, <1>6, <1>7, SeqEqual
<1> QED BY <1>8 DEF kept

-----------------------------------------------------------------------------
(* The log ring.                                                           *)

\* Until it is full, the ring has never been wrapped.
LogInv == Log!TypeOK /\ (count < RingSize => head = count)

\* What the ring's constants are.
LEMMA LogSizes ==
    /\ RingSize \in Nat \ {0} /\ LineMax \in 2..RingSize /\ Room \in Nat
    /\ Log!Index = 0..(RingSize - 1)
  BY NodeAssumption DEF NodeAssumption, Log!RingAssumption, Log!Kept!SizeAssumption, Log!Index

\* A step of a node is one of its log, or leaves the log alone.
LEMMA LogSteps == [Next]_vars => Log!Log \/ Log!Read \/ UNCHANGED log
  BY DEF Next, ClientStep, RelayStep, ScanStep, LogStep, HistoryStep, DnsStep, AddressesStep, vars, log, Log!Next

LEMMA LogBegins == Init => LogInv /\ Log!Kept!Init
<1> SUFFICES ASSUME Init PROVE LogInv /\ Log!Kept!Init
  OBVIOUS
<1>1. /\ ring = [i \in Log!Index |-> Zero] /\ head = 0 /\ count = 0 /\ shown = <<>>
  BY DEF Init, Log!Init
<1>2. LogInv
  BY <1>1, LogSizes DEF LogInv, Log!TypeOK
<1>3. Log!Window = <<>>
  BY <1>1, LogSizes DEF Log!Window
<1> QED BY <1>1, <1>2, <1>3 DEF Log!Kept!Init

\* A line goes into the ring as Record of Recent says.
LEMMA AppendRecords ==
    ASSUME LogInv, NEW line \in Log!Line, Log!RingAppend(line)
    PROVE  /\ LogInv'
           /\ \E n \in 1..RingSize : \E items \in [1..n -> Bytes] :
                Log!Window' = Log!Kept!Last(RingSize, Log!Window \o items)
<1>1. PICK n \in 1..(LineMax - 1) : line \in [1..n -> Bytes]
  BY DEF Log!Line
<1> DEFINE S == Bytes \cup {Zero}
           R == RingSize
           d == IF count + n > R THEN R ELSE count + n
           kept == Log!Window
           all == kept \o line
<1>2. n \in 1..R /\ n < R /\ R \in Nat \ {0} /\ R \in Nat /\ n \in Nat
  BY LogSizes
<1>3. line \in Seq(Bytes) /\ Len(line) = n /\ line \in [1..n -> S]
  BY <1>1, <1>2, FunctionIsSequence
<1>4. /\ ring \in [0..(R - 1) -> S] /\ head \in 0..(R - 1) /\ count \in 0..R
      /\ count < R => head = count
  BY LogSizes DEF LogInv, Log!TypeOK
<1>5. /\ ring' \in [0..(R - 1) -> S]
      /\ \A j \in 0..(R - 1) :
           ring'[j] = IF ((j + R - head) % R) + 1 <= n
                      THEN line[((j + R - head) % R) + 1] ELSE ring[j]
  <2>1. ring' = [j \in 0..(R - 1) |-> IF ((j + R - head) % R) + 1 <= n
                                      THEN line[((j + R - head) % R) + 1] ELSE ring[j]]
    BY <1>3, LogSizes DEF Log!RingAppend
  <2>2. ASSUME NEW j \in 0..(R - 1), ((j + R - head) % R) + 1 <= n
        PROVE  line[((j + R - head) % R) + 1] \in S
    <3>1. j + R - head \in Nat /\ j + R - head < 2 * R
      BY <1>2, <1>4
    <3>2. (j + R - head) % R \in Nat
      BY <1>2, <1>4, <3>1, Wrap
    <3>3. ((j + R - head) % R) + 1 \in 1..n
      BY <1>2, <2>2, <3>2
    <3> QED BY <1>3, <3>3
  <2> QED BY <1>4, <2>1, <2>2
<1>6. /\ head' = Advance(R, head, n)
      /\ count' = d
  BY <1>3 DEF Log!RingAppend, Advance
<1>7. d \in 0..R
  BY <1>2, <1>4
<1>8. head' \in 0..(R - 1) /\ (count' < R => head' = count')
  <2>2. head' = IF head + n < R THEN head + n ELSE head + n - R
    BY <1>2, <1>4, <1>6, NextIndex
  <2> QED BY <1>2, <1>4, <1>6, <2>2
<1>9. LogInv'
  BY <1>5, <1>6, <1>7, <1>8, LogSizes DEF LogInv, Log!TypeOK, Log!Index
<1>10. Log!Window' = Ending(d, all)
  <2>1. kept = RingWindow(R, head, count, ring)
    BY DEF Log!Window, RingWindow
  <2>2. Log!Window' = RingWindow(R, head', d, ring')
    BY <1>6 DEF Log!Window, RingWindow
  <2>3. d = (IF count + n > R THEN R ELSE count + n)
    OBVIOUS
  <2>4. Written(R, head, n, line, ring, ring')
    BY <1>5 DEF Written
  <2> HIDE DEF d, S, R, kept
  <2>5. Writing(S, R, head, count, n, line, ring, ring', d, head')
    BY <1>2, <1>3, <1>4, <1>5, <1>6, <1>7, <1>8, <2>3, <2>4 DEF Writing, Ring
  <2>6. RingWindow(R, head', d, ring') = Ending(d, RingWindow(R, head, count, ring) \o line)
    BY <2>5, WritingKeepsTheLast
  <2> QED BY <2>1, <2>2, <2>6
<1>11. Len(all) = count + n
  <2>1. Ring(S, R, head, count, ring) /\ kept = RingWindow(R, head, count, ring)
    BY <1>2, <1>4 DEF Ring, Log!Window, RingWindow
  <2>2. kept \in Seq(S) /\ Len(kept) = count
    BY <2>1, WindowOf
  <2>3. line \in Seq(S)
    BY <1>2, <1>3, FunctionIsSequence
  <2> HIDE DEF kept, S
  <2> QED BY <1>3, <2>2, <2>3, ConcatProperties
<1>12. Log!Window' = Log!Kept!Last(R, Log!Window \o line)
  <2>1. Log!Kept!Least(R, Len(all)) = d
    BY <1>2, <1>4, <1>11 DEF Log!Kept!Least
  <2> HIDE DEF d
  <2> QED BY <1>10, <2>1 DEF Log!Kept!Last, Ending
<1> QED BY <1>1, <1>2, <1>9, <1>12

\* A reader is shown what Show of Recent says.
LEMMA ReadShows == ASSUME LogInv, Log!Read PROVE LogInv' /\ Log!Kept!Show
<1> DEFINE R == RingSize
           S == Bytes \cup {Zero}
<1>1. UNCHANGED <<ring, head, count>>
  BY DEF Log!Read
<1>2. LogInv'
  BY <1>1 DEF LogInv, Log!TypeOK
<1>3. UNCHANGED Log!Window
  BY <1>1 DEF Log!Window
<1>4. R \in Nat \ {0} /\ R \in Nat /\ Ring(S, R, head, count, ring) /\ (count < R => head = count)
  BY LogSizes DEF LogInv, Log!TypeOK, Ring
<1>5. Log!Window = RingWindow(R, head, count, ring)
  BY DEF Log!Window, RingWindow
<1>6. PICK room \in 0..Room :
        LET drop == IF count > room THEN count - room ELSE 0
        IN  shown' = Log!Copied((Log!Oldest + drop) % R, count - drop)
  BY DEF Log!Read
<1> DEFINE m == IF count > room THEN room ELSE count
<1>7. count \in 0..R /\ room \in Nat
  BY <1>4, LogSizes DEF Ring
<1>8. m \in 0..count /\ m \in 0..R
  BY <1>4, <1>7
<1>9. shown' = [i \in 1..m |-> ring[(((Oldest(R, head, count) + (count - m)) % R) + i - 1) % R]]
  <2>1. CASE count > room
    BY <1>6, <1>7, <2>1 DEF Log!Copied, Log!Oldest, Oldest
  <2>2. CASE ~(count > room)
    BY <1>6, <1>7, <2>2 DEF Log!Copied, Log!Oldest, Oldest
  <2> QED BY <2>1, <2>2
<1> HIDE DEF m
<1>10. shown' = Ending(m, Log!Window)
  <2>1. Reading(S, R, head, count, ring, m, shown')
    BY <1>4, <1>8, <1>9 DEF Reading
  <2>2. shown' = Ending(m, RingWindow(R, head, count, ring))
    <3> HIDE DEF R, S
    <3> QED BY <2>1, ReadingShowsTheLast
  <2> QED BY <1>5, <2>2
<1>11. Len(Log!Window) = count
  BY <1>4, <1>5, WindowOf
<1>12. shown' = Log!Kept!Last(m, Log!Window)
  <2>1. Log!Kept!Least(m, Len(Log!Window)) = m
    BY <1>7, <1>8, <1>11 DEF Log!Kept!Least
  <2> QED BY <1>10, <2>1 DEF Log!Kept!Last, Ending
<1> QED BY <1>2, <1>3, <1>8, <1>12 DEF Log!Kept!Show

\* What a node can do to its log, Recent can.
LEMMA LogStepsAreRecent ==
    ASSUME LogInv, [Next]_vars
    PROVE  LogInv' /\ [Log!Kept!Record \/ Log!Kept!Show]_(Log!Kept!vars)
<1>1. CASE Log!Log
  <2>1. PICK line \in Log!Line : Log!RingAppend(line)
    BY <1>1 DEF Log!Log
  <2>2. /\ LogInv'
        /\ \E n \in 1..RingSize : \E items \in [1..n -> Bytes] :
             Log!Window' = Log!Kept!Last(RingSize, Log!Window \o items)
    BY <2>1, AppendRecords
  <2>3. UNCHANGED shown
    BY <1>1 DEF Log!Log
  <2> QED BY <2>2, <2>3 DEF Log!Kept!Record
<1>2. CASE Log!Read
  BY <1>2, ReadShows
<1>3. CASE UNCHANGED log
  <2>1. UNCHANGED <<ring, head, count, shown>>
    BY <1>3 DEF log
  <2>2. LogInv'
    BY <2>1 DEF LogInv, Log!TypeOK
  <2>3. UNCHANGED Log!Kept!vars
    BY <2>1 DEF Log!Kept!vars, Log!Window
  <2> QED BY <2>2, <2>3
<1> QED BY <1>1, <1>2, <1>3, LogSteps

\* /api/log is given the most recent bytes logged, in order and without a gap, of a
\* ring of any size, lines of any length below it and a reader with any room
\* (log_buffer.c).
THEOREM LogImplementsRecent == Spec => LogIsRecent
<1>1. Init => LogInv /\ Log!Kept!Init
  BY LogBegins
<1>2. LogInv /\ [Next]_vars => LogInv' /\ [Log!Kept!Record \/ Log!Kept!Show]_(Log!Kept!vars)
  BY LogStepsAreRecent
<1> QED BY <1>1, <1>2, PTL DEF Spec, LogIsRecent, Log!LogIsRecent, Log!Kept!Spec

-----------------------------------------------------------------------------
(* The history of the signal.                                              *)

\* Until it is full, this ring has never been wrapped either.
HistoryInv == History!TypeOK /\ (rssiCount < Samples => rssiHead = rssiCount)

LEMMA HistorySizes ==
    /\ Samples \in Nat \ {0} /\ History!Index = 0..(Samples - 1)
  BY NodeAssumption DEF NodeAssumption, History!SamplesAssumption, History!Index

\* A step of a node is one of its history, or leaves the history alone.
LEMMA HistorySteps ==
    [Next]_vars =>
        \/ History!SignalChanges \/ History!TakeReading \/ History!Store \/ History!GetRssi
        \/ UNCHANGED history
  BY DEF Next, ClientStep, RelayStep, ScanStep, LogStep, HistoryStep, DnsStep, AddressesStep, vars, history,
         History!Next

LEMMA HistoryBegins == Init => HistoryInv /\ History!Kept!Init
<1> SUFFICES ASSUME Init PROVE HistoryInv /\ History!Kept!Init
  OBVIOUS
<1>1. /\ rssiRing = [i \in History!Index |-> NoReading] /\ rssiHead = 0 /\ rssiCount = 0
      /\ rssiShown = <<>>
      /\ signal = NoReading /\ sample = <<>> /\ latest = NoReading
  BY DEF Init, History!Init
<1>2. HistoryInv
  <2>1. sample \in [1..0 -> History!Readings]
    BY <1>1
  <2>2. NoReading \in History!Readings
    BY DEF History!Readings
  <2>3. sample \in UNION {[1..n -> History!Readings] : n \in 0..2}
    BY <2>1
  <2> QED BY <1>1, <2>2, <2>3, HistorySizes DEF HistoryInv, History!TypeOK
<1>3. History!Window = <<>>
  BY <1>1, HistorySizes DEF History!Window
<1> QED BY <1>1, <1>2, <1>3 DEF History!Kept!Init

\* A sample goes into the ring as Record of Recent says, as one item.
LEMMA StoreRecords ==
    ASSUME HistoryInv, History!Store
    PROVE  /\ HistoryInv'
           /\ \E n \in 1..Samples : \E items \in [1..n -> History!Readings] :
                History!Window' = History!Kept!Last(Samples, History!Window \o items)
<1> DEFINE S == History!Readings
           R == Samples
           c == rssiCount
           h == rssiHead
           items == [i \in 1..1 |-> sample[1]]
           d == IF c + 1 > R THEN R ELSE c + 1
           kept == History!Window
           all == kept \o items
<1>1. /\ R \in Nat \ {0} /\ R \in Nat /\ 1 \in 1..R
      /\ rssiRing \in [0..(R - 1) -> S] /\ h \in 0..(R - 1) /\ c \in 0..R
      /\ (c < R => h = c)
  BY HistorySizes DEF HistoryInv, History!TypeOK
<1>2. sample[1] \in S
  <2>1. PICK n \in 0..2 : sample \in [1..n -> S]
    BY DEF HistoryInv, History!TypeOK
  <2>2. Len(sample) = n
    BY <2>1, FunctionIsSequence
  <2>3. n = 2
    BY <2>2 DEF History!Store
  <2> QED BY <2>1, <2>3
<1>3. items \in [1..1 -> S] /\ items[1] = sample[1]
  BY <1>2
<1>4. /\ rssiRing' = [rssiRing EXCEPT ![h] = sample[1]]
      /\ rssiHead' = Advance(R, h, 1)
      /\ rssiCount' = d
      /\ latest' = sample[2] /\ sample' = <<>>
      /\ UNCHANGED <<rssiShown, signal>>
  <2>1. rssiCount' = IF c < R THEN c + 1 ELSE c
    BY DEF History!Store, History!Filled
  <2>2. rssiCount' = d
    BY <1>1, <2>1
  <2> QED BY <2>2 DEF History!Store, Advance
<1>5. d \in 0..R
  BY <1>1
<1>6. rssiHead' \in 0..(R - 1) /\ (rssiCount' < R => rssiHead' = rssiCount')
  <2>1. rssiHead' = IF h + 1 < R THEN h + 1 ELSE h + 1 - R
    BY <1>1, <1>4, NextIndex
  <2> QED BY <1>1, <1>4, <2>1
<1>7. rssiRing' \in [0..(R - 1) -> S]
  BY <1>1, <1>2, <1>4
<1>8. sample[2] \in S
  <2>1. PICK n \in 0..2 : sample \in [1..n -> S]
    BY DEF HistoryInv, History!TypeOK
  <2>2. Len(sample) = n
    BY <2>1, FunctionIsSequence
  <2>3. n = 2
    BY <2>2 DEF History!Store
  <2> QED BY <2>1, <2>3
<1>9. HistoryInv'
  <2>1. sample' \in UNION {[1..n -> S] : n \in 0..2}
    <3>1. sample' \in [1..0 -> S]
      BY <1>4
    <3> QED BY <3>1
  <2>2. signal' \in S
    BY <1>4 DEF HistoryInv, History!TypeOK
  <2> QED BY <1>4, <1>5, <1>6, <1>7, <1>8, <2>1, <2>2, HistorySizes
          DEF HistoryInv, History!TypeOK, History!Index, History!Readings
<1>10. History!Window' = Ending(d, all)
  <2>1. kept = RingWindow(R, h, c, rssiRing)
    BY DEF History!Window, RingWindow
  <2>2. History!Window' = RingWindow(R, rssiHead', d, rssiRing')
    BY <1>4 DEF History!Window, RingWindow
  <2>3. Written(R, h, 1, items, rssiRing, rssiRing')
    <3> SUFFICES ASSUME NEW j \in 0..(R - 1)
                 PROVE  rssiRing'[j] = IF ((j + R - h) % R) + 1 <= 1
                                       THEN items[((j + R - h) % R) + 1] ELSE rssiRing[j]
      BY DEF Written
    <3> DEFINE x == j + R - h
    <3>1. /\ R \in Nat /\ h \in Nat /\ h < R /\ j \in Nat /\ j < R
          /\ x \in Nat /\ x < 2 * R /\ x = j + R - h
      BY <1>1
    <3> HIDE DEF x
    <3>2. x % R = IF x < R THEN x ELSE x - R
      BY <1>1, <3>1, Wrap
    <3>3. CASE j = h
      <4>1. (x % R) + 1 = 1
        BY <3>1, <3>2, <3>3
      <4>2. rssiRing'[j] = sample[1]
        BY <1>1, <1>4, <3>3
      <4> QED BY <1>3, <4>1, <4>2 DEF x
    <3>4. CASE j # h
      <4>1. ~((x % R) + 1 <= 1)
        BY <3>1, <3>2, <3>4
      <4>2. rssiRing'[j] = rssiRing[j]
        BY <1>1, <1>4, <3>4
      <4> QED BY <4>1, <4>2 DEF x
    <3> QED BY <3>3, <3>4
  <2>4. Writing(S, R, h, c, 1, items, rssiRing, rssiRing', d, rssiHead')
    BY <1>1, <1>3, <1>4, <1>5, <1>6, <1>7, <2>3 DEF Writing, Ring
  <2> HIDE DEF d, S, R, kept, items
  <2>5. RingWindow(R, rssiHead', d, rssiRing') = Ending(d, RingWindow(R, h, c, rssiRing) \o items)
    BY <2>4, WritingKeepsTheLast
  <2> QED BY <2>1, <2>2, <2>5
<1>11. Len(all) = c + 1
  <2>1. Ring(S, R, h, c, rssiRing) /\ kept = RingWindow(R, h, c, rssiRing)
    BY <1>1 DEF Ring, History!Window, RingWindow
  <2>2. kept \in Seq(S) /\ Len(kept) = c
    BY <2>1, WindowOf
  <2>3. items \in Seq(S) /\ Len(items) = 1
    BY <1>3, FunctionIsSequence
  <2> HIDE DEF kept, S, items
  <2> QED BY <2>2, <2>3, ConcatProperties
<1>12. History!Window' = History!Kept!Last(R, History!Window \o items)
  <2>1. History!Kept!Least(R, Len(all)) = d
    BY <1>1, <1>11 DEF History!Kept!Least
  <2> HIDE DEF d
  <2> QED BY <1>10, <2>1 DEF History!Kept!Last, Ending
<1> QED BY <1>1, <1>3, <1>9, <1>12

\* A reader is shown what Show of Recent says.
LEMMA GetRssiShows == ASSUME HistoryInv, History!GetRssi PROVE HistoryInv' /\ History!Kept!Show
<1> DEFINE R == Samples
           S == History!Readings
           c == rssiCount
           h == rssiHead
<1>1. UNCHANGED <<rssiRing, rssiHead, rssiCount, signal, sample, latest>>
  BY DEF History!GetRssi
<1>2. HistoryInv'
  BY <1>1 DEF HistoryInv, History!TypeOK
<1>3. UNCHANGED History!Window
  BY <1>1 DEF History!Window
<1>4. R \in Nat \ {0} /\ R \in Nat /\ Ring(S, R, h, c, rssiRing) /\ (c < R => h = c)
  BY HistorySizes DEF HistoryInv, History!TypeOK, Ring
<1>5. History!Window = RingWindow(R, h, c, rssiRing)
  BY DEF History!Window, RingWindow
<1>6. PICK capacity \in 1..R :
        LET n == IF c > capacity THEN capacity ELSE c
            oldest == IF c < R THEN 0 ELSE h
        IN  rssiShown' = [i \in 1..n |-> rssiRing[(oldest + (c - n) + i - 1) % R]]
  BY DEF History!GetRssi
<1> DEFINE m == IF c > capacity THEN capacity ELSE c
<1>7. c \in 0..R /\ capacity \in Nat
  BY <1>4 DEF Ring
<1>8. m \in 0..c /\ m \in 0..R
  BY <1>4, <1>7
<1>9. rssiShown' = [i \in 1..m |-> rssiRing[(Oldest(R, h, c) + (c - m) + i - 1) % R]]
  <2>1. Oldest(R, h, c) = IF c < R THEN 0 ELSE h
    BY <1>4, <1>7 DEF Oldest
  <2> QED BY <1>6, <2>1
<1> HIDE DEF m
<1>10. rssiShown' = Ending(m, History!Window)
  <2>1. Reading(S, R, h, c, rssiRing, m, rssiShown')
    BY <1>4, <1>8, <1>9 DEF Reading
  <2>2. rssiShown' = Ending(m, RingWindow(R, h, c, rssiRing))
    <3> HIDE DEF R, S
    <3> QED BY <2>1, ReadingShowsTheLast
  <2> QED BY <1>5, <2>2
<1>11. Len(History!Window) = c
  BY <1>4, <1>5, WindowOf
<1>12. rssiShown' = History!Kept!Last(m, History!Window)
  <2>1. History!Kept!Least(m, Len(History!Window)) = m
    BY <1>7, <1>8, <1>11 DEF History!Kept!Least
  <2> QED BY <1>10, <2>1 DEF History!Kept!Last, Ending
<1> QED BY <1>2, <1>3, <1>8, <1>12 DEF History!Kept!Show

\* What a node can do to its history, Recent can.
LEMMA HistoryStepsAreRecent ==
    ASSUME HistoryInv, [Next]_vars
    PROVE  HistoryInv' /\ [History!Kept!Record \/ History!Kept!Show]_(History!Kept!vars)
<1>1. CASE History!Store
  <2>1. UNCHANGED rssiShown
    BY <1>1 DEF History!Store
  <2> QED BY <1>1, <2>1, StoreRecords DEF History!Kept!Record
<1>2. CASE History!GetRssi
  BY <1>2, GetRssiShows
<1>3. ASSUME UNCHANGED <<rssiRing, rssiHead, rssiCount, rssiShown>>,
             /\ signal' \in History!Readings /\ latest' \in History!Readings
             /\ sample' \in UNION {[1..n -> History!Readings] : n \in 0..2}
      PROVE  HistoryInv' /\ UNCHANGED History!Kept!vars
  <2>1. HistoryInv'
    BY <1>3 DEF HistoryInv, History!TypeOK
  <2>2. UNCHANGED History!Kept!vars
    BY <1>3 DEF History!Kept!vars, History!Window
  <2> QED BY <2>1, <2>2
<1>4. CASE History!SignalChanges
  BY <1>3, <1>4 DEF History!SignalChanges, HistoryInv, History!TypeOK
<1>5. CASE History!TakeReading
  <2>1. PICK reading \in {signal, NoReading} : sample' = Append(sample, reading)
    BY <1>5 DEF History!TakeReading
  <2>2. PICK n \in 0..2 : sample \in [1..n -> History!Readings]
    BY DEF HistoryInv, History!TypeOK
  <2>3. sample \in Seq(History!Readings) /\ Len(sample) = n
    BY <2>2, FunctionIsSequence
  <2>4. reading \in History!Readings
    BY <2>1 DEF HistoryInv, History!TypeOK, History!Readings
  <2>5. n + 1 \in 0..2
    BY <1>5, <2>3 DEF History!TakeReading
  <2>6. sample' \in Seq(History!Readings) /\ Len(sample') = n + 1
    BY <2>1, <2>3, <2>4
  <2>7. sample' \in [1..(n + 1) -> History!Readings]
    BY <2>6, LenProperties
  <2>8. sample' \in UNION {[1..k -> History!Readings] : k \in 0..2}
    BY <2>5, <2>7
  <2> QED BY <1>3, <1>5, <2>8 DEF History!TakeReading, HistoryInv, History!TypeOK
<1>6. CASE UNCHANGED history
  BY <1>3, <1>6 DEF history, HistoryInv, History!TypeOK
<1> QED BY <1>1, <1>2, <1>4, <1>5, <1>6, HistorySteps

\* The graph is given the most recent samples, oldest first, of a ring of any size
\* and any readings, however often it went round (link_history.c).
THEOREM HistoryImplementsRecent == Spec => HistoryIsRecent
<1>1. Init => HistoryInv /\ History!Kept!Init
  BY HistoryBegins
<1>2. HistoryInv /\ [Next]_vars
        => HistoryInv' /\ [History!Kept!Record \/ History!Kept!Show]_(History!Kept!vars)
  BY HistoryStepsAreRecent
<1> QED BY <1>1, <1>2, PTL DEF Spec, HistoryIsRecent, History!HistoryIsRecent, History!Kept!Spec
-----------------------------------------------------------------------------
(* Words as the validator computes with them.                              *)

\* A set of numbers has a least one.
LEMMA LeastOf ==
    ASSUME NEW T, T \subseteq Nat, T # {}
    PROVE  \E k \in T : \A j \in T : k <= j
<1> DEFINE R == OpToRel(<, Nat)
<1>1. IsWellFoundedOn(R, Nat)
  BY NatLessThanWellFounded
<1>2. \A x, y \in Nat : x < y => <<x, y>> \in R
  BY DEF OpToRel
<1> HIDE DEF R
<1>3. PICK k \in T : \A j \in T : <<j, k>> \notin R
  BY <1>1, WFMin
<1>4. ASSUME NEW j \in T PROVE k <= j
  <2>1. j \in Nat /\ k \in Nat /\ ~(j < k)
    BY <1>2, <1>3
  <2> QED
    BY <2>1
<1> QED
  BY <1>4

\* What inverted & (inverted + 1) tells: the zeros of a contiguous mask are its
\* lowest bits, as many as there are.
LEMMA ContiguousIsPrefix ==
    ASSUME Width \in Nat \ {0}, NEW mask \in Plan!Addresses
    PROVE  /\ Cardinality(Plan!Not(mask)) \in 0..Width
           /\ Plan!Contiguous(mask) <=> mask = Cardinality(Plan!Not(mask))..(Width - 1)
<1> DEFINE zeros == Plan!Not(mask)
           n == Cardinality(zeros)
<1>1. /\ zeros \subseteq 0..(Width - 1) /\ mask \subseteq 0..(Width - 1)
      /\ zeros = 0..(Width - 1) \ mask /\ mask = 0..(Width - 1) \ zeros
  BY DEF Plan!Not, Plan!Addresses, Plan!Positions
<1>2. IsFiniteSet(zeros) /\ n \in 0..Width
  <2>1. IsFiniteSet(0..(Width - 1)) /\ Cardinality(0..(Width - 1)) = Width
    BY FS_Interval
  <2>2. IsFiniteSet(zeros) /\ n <= Width
    BY <1>1, <2>1, FS_Subset
  <2> HIDE DEF zeros
  <2> QED
    BY <2>2, FS_CardinalityType
<1>3. CASE zeros = Plan!Positions
  <2>1. n = Width /\ mask = {}
    <3>1. Cardinality(0..(Width - 1)) = Width
      BY FS_Interval
    <3>2. zeros = 0..(Width - 1)
      BY <1>3 DEF Plan!Positions
    <3> HIDE DEF zeros
    <3> QED
      BY <1>1, <3>1, <3>2
  <2>2. Plan!Contiguous(mask)
    BY <1>3 DEF Plan!Contiguous, Plan!Increment
  <2> QED
    BY <1>2, <2>1, <2>2
<1>4. CASE zeros # Plan!Positions
  <2> DEFINE k == Plan!LowestZero(zeros)
  <2>1. Plan!Not(zeros) = mask
    BY <1>1 DEF Plan!Not, Plan!Positions
  <2>2. mask \subseteq Nat /\ mask # {}
    BY <1>1, <1>4 DEF Plan!Positions
  <2>3. k \in mask /\ \A j \in mask : k <= j
    BY <2>1, <2>2, LeastOf DEF Plan!LowestZero
  <2>4. k \in 0..(Width - 1) /\ k \notin zeros
    BY <1>1, <2>3
  <2>5. Plan!Contiguous(mask) <=> zeros \cap ((zeros \ 0..k) \cup {k}) = {}
    BY <1>4 DEF Plan!Contiguous, Plan!Increment
  <2> HIDE DEF zeros, k
  <2>6. 0..(k - 1) \subseteq zeros
    BY <1>1, <2>3, <2>4
  <2>7. ASSUME Plan!Contiguous(mask) PROVE mask = n..(Width - 1)
    <3>1. zeros \subseteq 0..(k - 1)
      BY <1>1, <2>4, <2>5, <2>7
    <3>2. zeros = 0..(k - 1)
      BY <2>6, <3>1
    <3>3. n = k
      BY <2>4, <3>2, FS_Interval
    <3> QED
      BY <1>1, <2>4, <3>2, <3>3
  <2>8. ASSUME mask = n..(Width - 1) PROVE Plan!Contiguous(mask)
    <3>1. n <= k
      BY <1>2, <2>3, <2>8
    <3>2. zeros \subseteq 0..(n - 1)
      BY <1>1, <1>2, <2>8
    <3> QED
      BY <1>2, <2>4, <2>5, <3>1, <3>2
  <2> QED
    BY <1>2, <2>7, <2>8 DEF zeros
<1> QED
  BY <1>3, <1>4

\* In a subnet with a prefix, the mask is the prefix, and the zeros what is below.
LEMMA PrefixIsMask ==
    ASSUME Width \in Nat \ {0}, NEW s \in Plan!Subnet
    PROVE  /\ Plan!Contiguous(s.mask) <=> s.mask = Plan!Prefix(s)
           /\ Plan!Contiguous(s.mask) =>
                  /\ Plan!Not(s.mask) = 0..(Plan!HostBits(s) - 1)
                  /\ Plan!HostBits(s) \in 0..Width
<1>1. s.mask \in Plan!Addresses
  BY DEF Plan!Subnet
<1>2. /\ Plan!HostBits(s) \in 0..Width
      /\ Plan!Contiguous(s.mask) <=> s.mask = Plan!Prefix(s)
  <2>1. Plan!HostBits(s) = Cardinality(Plan!Not(s.mask))
    BY DEF Plan!HostBits, Plan!Cardinality, Cardinality
  <2>2. Plan!Prefix(s) = Plan!HostBits(s)..(Width - 1)
    BY DEF Plan!Prefix
  <2> DEFINE mask == s.mask
  <2> HIDE DEF mask
  <2>3. mask \in Plan!Addresses
    BY <1>1 DEF mask
  <2>4. /\ Cardinality(Plan!Not(mask)) \in 0..Width
        /\ Plan!Contiguous(mask) <=> mask = Cardinality(Plan!Not(mask))..(Width - 1)
    BY <2>3, ContiguousIsPrefix
  <2> QED
    BY <2>1, <2>2, <2>4 DEF mask
<1>3. ASSUME Plan!Contiguous(s.mask) PROVE Plan!Not(s.mask) = 0..(Plan!HostBits(s) - 1)
  BY <1>2, <1>3 DEF Plan!Not, Plan!Positions, Plan!Prefix
<1> QED
  BY <1>2, <1>3

\* A host passes exactly if it can be used: another address of its block is below
\* it and another above, by the one bit that is not a network's or a broadcast's.
LEMMA HostIsUsable ==
    ASSUME Width \in Nat \ {0}, NEW s \in Plan!Subnet
    PROVE  Plan!HostAddress(s) <=> Plan!UsableHost(s)
<1>1. /\ s.ip \in SUBSET (0..(Width - 1)) /\ s.mask \in SUBSET (0..(Width - 1))
      /\ Plan!Host(s) = s.ip \ s.mask /\ Plan!Not(s.mask) = 0..(Width - 1) \ s.mask
  BY DEF Plan!Subnet, Plan!Addresses, Plan!Positions, Plan!Host, Plan!Not
<1>2. ASSUME Plan!HostAddress(s) PROVE Plan!UsableHost(s)
  <2>1. s.mask = Plan!Prefix(s) /\ s.mask # {}
    BY <1>2, PrefixIsMask DEF Plan!HostAddress
  <2>2. PICK i \in Plan!Host(s) : TRUE
    BY <1>2 DEF Plan!HostAddress
  <2>3. PICK k \in Plan!Not(s.mask) : k \notin s.ip
    BY <1>1, <1>2 DEF Plan!HostAddress
  <2>4. s.ip \ {i} \in Plan!Block(s) /\ s.ip \cup {k} \in Plan!Block(s)
    BY <1>1, <2>1, <2>2, <2>3 DEF Plan!Block, Plan!Addresses, Plan!Positions
  <2>5. Plan!Below(s.ip \ {i}, s.ip)
    BY <1>1, <2>2 DEF Plan!Below, Plan!Positions
  <2>6. Plan!Below(s.ip, s.ip \cup {k})
    BY <1>1, <2>3 DEF Plan!Below, Plan!Positions
  <2> QED
    BY <2>1, <2>4, <2>5, <2>6 DEF Plan!UsableHost
<1>3. ASSUME Plan!UsableHost(s) PROVE Plan!HostAddress(s)
  <2>1. s.mask = Plan!Prefix(s) /\ s.mask # {} /\ Plan!Contiguous(s.mask)
    BY <1>3, PrefixIsMask DEF Plan!UsableHost
  <2>2. PICK low \in Plan!Block(s), high \in Plan!Block(s) :
            Plan!Below(low, s.ip) /\ Plan!Below(s.ip, high)
    BY <1>3 DEF Plan!UsableHost
  <2>3. PICK i \in s.ip : i \notin low
    BY <2>2 DEF Plan!Below
  <2>4. PICK k \in high : k \notin s.ip
    BY <2>2 DEF Plan!Below
  <2>5. /\ high \subseteq 0..(Width - 1)
        /\ \A j \in s.mask : (j \in low <=> j \in s.ip) /\ (j \in high <=> j \in s.ip)
    BY <2>1 DEF Plan!Block, Plan!Addresses, Plan!Positions
  <2>6. i \in Plan!Host(s)
    BY <1>1, <2>3, <2>5
  <2>7. k \in Plan!Not(s.mask) /\ k \notin Plan!Host(s)
    BY <1>1, <2>4, <2>5
  <2> QED
    BY <2>1, <2>6, <2>7 DEF Plan!HostAddress
<1> QED
  BY <1>2, <1>3

\* A gateway is in reach exactly if it is in the block.
LEMMA GatewayIsInBlock ==
    ASSUME Width \in Nat \ {0}, NEW s \in Plan!Subnet, Plan!Contiguous(s.mask)
    PROVE  s.gateway \cap s.mask = Plan!Network(s) <=> s.gateway \in Plan!Block(s)
<1>1. s.gateway \in Plan!Addresses /\ Plan!Network(s) = s.ip \cap s.mask /\ s.mask = Plan!Prefix(s)
  BY PrefixIsMask DEF Plan!Subnet, Plan!Network
<1> QED
  BY <1>1 DEF Plan!Block

\* Of two masks that are prefixes, one is within the other.
LEMMA PrefixesNest ==
    ASSUME Width \in Nat \ {0}, NEW a \in Plan!Subnet, NEW b \in Plan!Subnet,
           Plan!Contiguous(a.mask), Plan!Contiguous(b.mask)
    PROVE  a.mask \subseteq b.mask \/ b.mask \subseteq a.mask
<1>1. /\ a.mask = Plan!HostBits(a)..(Width - 1) /\ Plan!HostBits(a) \in 0..Width
      /\ b.mask = Plan!HostBits(b)..(Width - 1) /\ Plan!HostBits(b) \in 0..Width
  BY PrefixIsMask DEF Plan!Prefix
<1> QED
  BY <1>1

\* Two networks overlap for the validator exactly if they share an address.
LEMMA OverlapIsSharing ==
    ASSUME Width \in Nat \ {0}, NEW a \in Plan!Subnet, NEW b \in Plan!Subnet,
           Plan!Contiguous(a.mask), Plan!Contiguous(b.mask)
    PROVE  Plan!Overlap(a, b) <=> Plan!Block(a) \cap Plan!Block(b) # {}
<1>1. /\ a.ip \in Plan!Addresses /\ a.mask = Plan!Prefix(a)
      /\ b.ip \in Plan!Addresses /\ b.mask = Plan!Prefix(b)
      /\ Plan!Network(a) = a.ip \cap a.mask /\ Plan!Network(b) = b.ip \cap b.mask
  BY PrefixIsMask DEF Plan!Subnet, Plan!Network
<1>2. a.mask \subseteq b.mask \/ b.mask \subseteq a.mask
  BY PrefixesNest
<1>3. ASSUME Plan!Block(a) \cap Plan!Block(b) # {} PROVE Plan!Overlap(a, b)
  <2>1. PICK c \in Plan!Addresses :
            /\ \A i \in a.mask : i \in c <=> i \in a.ip
            /\ \A i \in b.mask : i \in c <=> i \in b.ip
    BY <1>1, <1>3 DEF Plan!Block
  <2>2. CASE a.mask \subseteq b.mask
    BY <1>1, <2>1, <2>2 DEF Plan!Overlap
  <2>3. CASE b.mask \subseteq a.mask
    BY <1>1, <2>1, <2>3 DEF Plan!Overlap
  <2> QED
    BY <1>2, <2>2, <2>3
<1>4. a.ip \in Plan!Block(a) /\ b.ip \in Plan!Block(b)
  BY <1>1 DEF Plan!Block
<1>5. ASSUME Plan!Overlap(a, b) PROVE a.ip \in Plan!Block(b) \/ b.ip \in Plan!Block(a)
  <2>1. CASE a.mask \subseteq b.mask
    <3>1. \A i \in a.mask : i \in b.ip <=> i \in a.ip
      BY <1>1, <1>5, <2>1 DEF Plan!Overlap
    <3> QED
      BY <1>1, <3>1 DEF Plan!Block
  <2>2. CASE b.mask \subseteq a.mask
    <3>1. \A i \in b.mask : i \in a.ip <=> i \in b.ip
      BY <1>1, <1>5, <2>2 DEF Plan!Overlap
    <3> QED
      BY <1>1, <3>1 DEF Plan!Block
  <2> QED
    BY <1>2, <2>1, <2>2
<1> QED
  BY <1>3, <1>4, <1>5
\* validate_host_subnet() and subnets_overlap(), on words of any width: the bit
\* tricks accept a host of a subnet with a prefix, beside a gateway other than 0
\* in its block, and nothing else; and they refuse two networks that share an
\* address, and no others, whichever of the two is the larger.
THEOREM ValidatorIsExact ==
    /\ \A s \in Plan!Subnet :
        /\ Plan!HostAddress(s) <=> Plan!UsableHost(s)
        /\ Plan!HostSubnet(s) <=>
               Plan!UsableHost(s) /\ s.gateway # {} /\ s.gateway \in Plan!Block(s)
    /\ \A a, b \in Plan!Subnet :
        Plan!UsableHost(a) /\ Plan!UsableHost(b) =>
            (Plan!Overlap(a, b) <=> Plan!Block(a) \cap Plan!Block(b) # {})
<1>1. Width \in Nat \ {0}
  BY NodeAssumption DEF NodeAssumption, Plan!WidthAssumption
<1>2. ASSUME NEW s \in Plan!Subnet
      PROVE  /\ Plan!HostAddress(s) <=> Plan!UsableHost(s)
             /\ Plan!HostAddress(s) => Plan!Contiguous(s.mask)
             /\ Plan!HostSubnet(s) <=>
                    Plan!UsableHost(s) /\ s.gateway # {} /\ s.gateway \in Plan!Block(s)
  <2>1. Plan!HostAddress(s) <=> Plan!UsableHost(s)
    BY <1>1, HostIsUsable
  <2>2. Plan!HostAddress(s) => Plan!Contiguous(s.mask)
    BY DEF Plan!HostAddress
  <2>3. Plan!HostAddress(s) =>
            (s.gateway \cap s.mask = Plan!Network(s) <=> s.gateway \in Plan!Block(s))
    BY <1>1, <2>2, GatewayIsInBlock
  <2> QED
    BY <2>1, <2>2, <2>3 DEF Plan!HostSubnet, Plan!ReachesGateway
<1>3. ASSUME NEW a \in Plan!Subnet, NEW b \in Plan!Subnet, Plan!UsableHost(a), Plan!UsableHost(b)
      PROVE  Plan!Overlap(a, b) <=> Plan!Block(a) \cap Plan!Block(b) # {}
  BY <1>1, <1>2, <1>3, OverlapIsSharing
<1> QED
  BY <1>2, <1>3

-----------------------------------------------------------------------------
(* The configuration.                                                      *)

\* What validates, in force or not, is sound.
LEMMA ValidatedIsSound ==
    ASSUME NEW s \in Plan!Subnet, Width \in Nat \ {0}, Plan!HostSubnet(s)
    PROVE  Plan!UsableHost(s) /\ s.gateway \in Plan!Block(s) /\ Plan!Contiguous(s.mask)
<1>1. Plan!HostAddress(s) /\ Plan!Contiguous(s.mask)
  BY DEF Plan!HostSubnet, Plan!HostAddress
<1>2. s.gateway \cap s.mask = Plan!Network(s)
  BY DEF Plan!HostSubnet, Plan!ReachesGateway
<1> QED
  BY <1>1, <1>2, HostIsUsable, GatewayIsInBlock

\* What is in force validates, with whatever was turned off beside it.
PlanInv ==
    /\ {uplink, softap, halowAp} \subseteq Plan!Subnet \cup {Off}
    /\ Plan!Valid(uplink, softap, halowAp)

\* Every way into the configuration goes through the validator.
LEMMA PlanIsKept == ASSUME PlanInv, Plan!Next PROVE PlanInv'
<1>1. /\ {DefaultSubnet, FactorySoftap} \cup Uplinks \cup Softaps \cup HalowAps \subseteq Plan!Subnet
      /\ Plan!HostSubnet(FactorySoftap)
  BY NodeAssumption DEF NodeAssumption, Plan!SubnetsAssumption, Plan!BuiltInAssumption
<1>2. ASSUME NEW up \in Uplinks \cup {Off}, NEW leaves \in HalowAps \cup {Off},
             Plan!Edit(up, leaves)
      PROVE  PlanInv'
  BY <1>1, <1>2 DEF Plan!Edit, PlanInv
<1>3. CASE Plan!Load
  <2>1. PICK up \in Uplinks \cup {Off}, ap \in Softaps \cup {Off}, leaves \in HalowAps \cup {Off} :
            IF Plan!Valid(up, ap, leaves)
            THEN uplink' = up /\ softap' = ap /\ halowAp' = leaves
            ELSE uplink' = Off /\ softap' = FactorySoftap /\ halowAp' = Off
    BY <1>3 DEF Plan!Load
  <2>2. CASE Plan!Valid(up, ap, leaves)
    BY <1>1, <2>1, <2>2 DEF PlanInv
  <2>3. CASE ~Plan!Valid(up, ap, leaves)
    BY <1>1, <2>1, <2>3 DEF PlanInv, Plan!Valid
  <2> QED
    BY <2>2, <2>3
<1>4. CASE Plan!SetUplinkStaticIp
  <2>1. PICK up \in Uplinks \cup {Off} : Plan!Edit(up, halowAp)
    BY <1>4 DEF Plan!SetUplinkStaticIp
  <2> QED
    BY <1>1, <2>1 DEF Plan!Edit, PlanInv
<1>5. CASE Plan!SetHalowAp
  <2>1. PICK leaves \in HalowAps \cup {Off} : Plan!Edit(uplink, leaves)
    BY <1>5 DEF Plan!SetHalowAp
  <2> QED
    BY <1>1, <2>1 DEF Plan!Edit, PlanInv
<1>6. CASE Plan!PostConfig
  BY <1>2, <1>6 DEF Plan!PostConfig
<1> QED
  BY <1>3, <1>4, <1>5, <1>6 DEF Plan!Next

\* Words of any width, any subnets tried: whatever was loaded, set and posted
\* (provisioning_validate()), the addresses in force can be used and NAT has two
\* networks to translate between.
THEOREM AddressesAreUsable == Spec => []PlanIsSound
<1>0. /\ Width \in Nat \ {0} /\ DefaultSubnet \in Plan!Subnet /\ Plan!HostSubnet(DefaultSubnet)
      /\ FactorySoftap \in Plan!Subnet /\ Plan!HostSubnet(FactorySoftap)
  BY NodeAssumption
  DEF NodeAssumption, Plan!WidthAssumption, Plan!SubnetsAssumption, Plan!BuiltInAssumption
<1>1. Init => PlanInv
  BY <1>0 DEF Init, Plan!Init, PlanInv, Plan!Valid
<1>2. PlanInv /\ [Next]_vars => PlanInv'
  <2> SUFFICES ASSUME PlanInv, [Next]_vars PROVE PlanInv'
    OBVIOUS
  <2>1. CASE AddressesStep
    BY <2>1, PlanIsKept DEF AddressesStep
  <2>2. CASE UNCHANGED addresses
    BY <2>2 DEF addresses, PlanInv
  <2> QED
    BY <2>1, <2>2 DEF Next, ClientStep, RelayStep, ScanStep, LogStep, HistoryStep, DnsStep, vars
<1>3. PlanInv => PlanIsSound
  <2> SUFFICES ASSUME PlanInv PROVE PlanIsSound
    OBVIOUS
  <2>1. ASSUME softap # Off PROVE Plan!UsableHost(softap) /\ softap.gateway \in Plan!Block(softap)
    BY <1>0, <2>1, ValidatedIsSound DEF PlanInv, Plan!Valid
  <2>2. ASSUME halowAp # Off PROVE Plan!UsableHost(halowAp)
    BY <1>0, <2>2, HostIsUsable DEF PlanInv, Plan!Valid
  <2>3. ASSUME uplink # Off
        PROVE  /\ Plan!UsableHost(uplink) /\ uplink.gateway \in Plan!Block(uplink)
               /\ Plan!Block(uplink) \cap Plan!Block(Plan!Effective(softap)) = {}
    <3>1. uplink \in Plan!Subnet /\ Plan!HostSubnet(uplink)
      BY <2>3 DEF PlanInv, Plan!Valid
    <3>2. Plan!Effective(softap) \in Plan!Subnet /\ Plan!HostSubnet(Plan!Effective(softap))
      BY <1>0 DEF PlanInv, Plan!Valid, Plan!Effective
    <3>3. ~Plan!Overlap(uplink, Plan!Effective(softap))
      BY <2>3 DEF PlanInv, Plan!Valid
    <3> QED
      BY <1>0, <3>1, <3>2, <3>3, ValidatedIsSound, OverlapIsSharing
  <2> QED
    BY <2>1, <2>2, <2>3 DEF PlanIsSound, Plan!PlanIsSound
<1> QED
  BY <1>1, <1>2, <1>3, PTL DEF Spec
=============================================================================
