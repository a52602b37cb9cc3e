----------------------------- MODULE Telemetry -----------------------------
(***************************************************************************)
(* Telemetry (telemetry/__init__.py): counters, and for each timer the     *)
(* latest samples, of which a snapshot reports percentiles.  Every         *)
(* operation holds the lock from its beginning to its end.  Gauges and the *)
(* uptime, which nothing else depends on, are left out.                    *)
(***************************************************************************)
EXTENDS Integers, Sequences, FiniteSets

CONSTANTS
  Counters,   \* names given to increment()
  Timers,     \* names given to record_latency()
  Samples,    \* latencies
  WindowMax   \* 1000 in the code: maxlen of a tracker's deque

ASSUME TelemetryConstants == Samples \subseteq Nat /\ WindowMax \in Nat \ {0}

VARIABLES
  counters,   \* _counters; a name it does not have counts 0
  latencies   \* _latencies; a name it does not have has no samples

telemetryVars == <<counters, latencies>>

TelemetryInit ==
  /\ counters = [n \in Counters |-> 0]
  /\ latencies = [n \in Timers |-> <<>>]

Increment(name) == counters' = [counters EXCEPT ![name] = @ + 1]

\* Mutant: a deque without maxlen.
PushedUnbounded(buf, ms) == Append(buf, ms)

\* append() to a deque of maxlen WindowMax
Pushed(buf, ms) == IF Len(buf) < WindowMax THEN Append(buf, ms) ELSE Append(Tail(buf), ms)

RecordLatency(name, ms) == latencies' = [latencies EXCEPT ![name] = Pushed(@, ms)]

\* Mutant: reset() forgets the windows.
ResetCounters ==
  /\ counters' = [n \in Counters |-> 0]
  /\ UNCHANGED latencies

\* reset()
TelemetryReset ==
  /\ counters' = [n \in Counters |-> 0]
  /\ latencies' = [n \in Timers |-> <<>>]

-----------------------------------------------------------------------------
Below(buf, v) == Cardinality({i \in DOMAIN buf : buf[i] < v})
UpTo(buf, v) == Cardinality({i \in DOMAIN buf : buf[i] <= v})

\* Mutant: the rank without the correction by one, as for p below 100.
RankAbove(n, p) == (n * p) \div 100 + 1

\* The place, from 1, of the p-th percentile among n samples in order.
Rank(n, p) == IF (n * p) \div 100 > 1 THEN (n * p) \div 100 ELSE 1

\* percentile(p) of a window that is not empty: the sample at its rank.
Percentile(buf, p) ==
  CHOOSE v \in Samples : Below(buf, v) < Rank(Len(buf), p) /\ Rank(Len(buf), p) <= UpTo(buf, v)

Percents == {50, 95, 99}   \* those of a snapshot

-----------------------------------------------------------------------------
(* Properties.                                                             *)

TelemetryTypeOK ==
  /\ counters \in [Counters -> Nat]
  /\ latencies \in [Timers -> Seq(Samples)]
  /\ \A n \in Timers : Len(latencies[n]) <= WindowMax

\* A percentile is never above that of the nearest-rank definition, and no
\* more than one sample below it, also of a window that is short or has
\* dropped samples.
PercentilesNear ==
  \A n \in Timers, p \in Percents :
    LET buf == latencies[n]
        v   == Percentile(buf, p)
    IN buf # <<>> =>
         /\ Below(buf, v) * 100 < p * Len(buf)
         /\ (UpTo(buf, v) + 1) * 100 >= p * Len(buf)
=============================================================================
