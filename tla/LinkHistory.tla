---------------------------- MODULE LinkHistory ----------------------------
(***************************************************************************)
(* The history of the uplink's signal (link_history.c): a timer samples it *)
(* into a ring, with the latest reading kept on the side, for the console  *)
(* and the web interface.  Taking a sample is several calls of             *)
(* radio_control, one after the other, and the signal changes meanwhile.   *)
(* Only the uplink of the node's role has a signal, so of the four         *)
(* readings of a sample the two of that uplink are kept here.              *)
(***************************************************************************)
EXTENDS Naturals, Sequences

CONSTANTS
    Rssi,       \* readings
    NoReading,  \* INT32_MIN, INT8_MIN and, in the ring, INT16_MIN
    Samples     \* LINK_HISTORY_SAMPLES

\* Assumed by Node.
SamplesAssumption == Samples \in Nat \ {0} /\ NoReading \notin Rssi

VARIABLES
    ring, head, count,
    shown,
    signal,     \* of the uplink now
    sample,     \* rssi, then the reading the getters are to have, of a sample being taken
    latest      \* s_latest_halow_rssi or s_latest_wifi_rssi

vars == <<ring, head, count, shown, signal, sample, latest>>

Readings == Rssi \cup {NoReading}
Index == 0..(Samples - 1)

TypeOK ==
    /\ ring \in [Index -> Readings] /\ head \in Index /\ count \in 0..Samples
    /\ signal \in Readings /\ latest \in Readings
    /\ sample \in UNION {[1..n -> Readings] : n \in 0..2}

Init ==
    /\ ring = [i \in Index |-> NoReading] /\ head = 0 /\ count = 0
    /\ shown = <<>>
    /\ signal = NoReading /\ sample = <<>> /\ latest = NoReading

SignalChanges ==
    /\ signal' \in Readings \ {signal}
    /\ UNCHANGED <<ring, head, count, shown, sample, latest>>

\* sample_uplink_rssi(), then the getter of the uplink again; NoReading also
\* when radio_control times out.
TakeReading ==
    /\ Len(sample) < 2
    /\ \E reading \in {signal, NoReading} : sample' = Append(sample, reading)
    /\ UNCHANGED <<ring, head, count, shown, signal, latest>>

StaysUnfilled == IF count + 1 < Samples THEN count + 1 ELSE count
Filled == IF count < Samples THEN count + 1 ELSE count

\* sample_timer_cb(), from xSemaphoreTake() on.
Store ==
    /\ Len(sample) = 2
    /\ ring' = [ring EXCEPT ![head] = sample[1]]
    /\ head' = (head + 1) % Samples
    /\ count' = Filled
    /\ latest' = sample[2]
    /\ sample' = <<>>
    /\ UNCHANGED <<shown, signal>>

\* link_history_get_rssi()
GetRssi ==
    /\ \E capacity \in 1..Samples :
        LET n == IF count > capacity THEN capacity ELSE count
            oldest == IF count < Samples THEN 0 ELSE head
        IN  shown' = [i \in 1..n |-> ring[(oldest + (count - n) + i - 1) % Samples]]
    /\ UNCHANGED <<ring, head, count, signal, sample, latest>>

Next == SignalChanges \/ TakeReading \/ Store \/ GetRssi

Spec == Init /\ [][Next]_vars

-----------------------------------------------------------------------------
Window == [i \in 1..count |-> ring[(head + Samples - count + i - 1) % Samples]]

Kept == INSTANCE Recent WITH Items <- Readings, Size <- Samples, window <- Window

\* The graph shows the most recent samples, oldest first, before the ring has
\* filled, when it just has and after any number of laps.
HistoryIsRecent == Kept!Spec

\* "Raw per-source readings from the same sample the ring above collapses".
LatestIsOfTheSample == count > 0 => latest = Window[count]
=============================================================================
