---------------------------- MODULE SystemHealth ----------------------------
(***************************************************************************)
(* The system health agent (agents/agent_19_system_health.py): metrics     *)
(* smoothed over a window, the commands that follow from them, and the bus *)
(* latency, which only a CLOCK_TICK renews.                                *)
(***************************************************************************)
EXTENDS Naturals, Sequences

CONSTANTS
  Dims,              \* health dimensions that are smoothed; "bus" is one
  Percent,           \* those measured in per cent: CPU, memory, disk
  Full,              \* the end of their scale
  Warning, Critical, \* thresholds by dimension
  Readings,          \* dimension -> values it may show
  Latencies,         \* bus latencies a tick may show
  Smoothing          \* SMOOTHING_WINDOW

ASSUME HealthAssumption ==
  /\ Warning \in [Dims -> Nat] /\ Critical \in [Dims -> Nat]
  /\ Readings \in [Dims -> SUBSET Nat] /\ Latencies \subseteq Nat
  /\ Percent \subseteq Dims \ {"bus"} /\ Full \in Nat /\ \A d \in Percent : Readings[d] \subseteq 0 .. Full
  /\ Smoothing \in Nat \ {0, 1}

\* DEFAULT_THRESHOLDS and the window of three are such that one sample of full
\* scale among warnings is not critical on average: 100 + 2 * 70 <= 3 * 90 for
\* the CPU, 100 + 2 * 75 <= 3 * 90 for memory, 100 + 2 * 80 <= 3 * 95 for disk.
ASSUME ThresholdAssumption ==
  \A d \in Percent : Full + (Smoothing - 1) * Warning[d] <= Critical[d] * Smoothing

VARIABLES
  busLatency,  \* _last_bus_latency_ms
  samples,     \* dimension -> _samples
  command      \* what the last poll published

healthVars == <<busLatency, samples, command>>

HealthInit ==
  /\ busLatency = 0
  /\ samples = [d \in Dims |-> <<>>] /\ command = "none"

\* _on_clock_tick.
ClockTick(latency) ==
  /\ busLatency' = latency
  /\ UNCHANGED <<samples, command>>

Latest(d, value) ==
  IF Len(samples[d]) = Smoothing THEN Append(Tail(samples[d]), value) ELSE Append(samples[d], value)

SampleSum(s) ==
  LET sum[i \in 0 .. Len(s)] == IF i = 0 THEN 0 ELSE sum[i - 1] + s[i]
  IN  sum[Len(s)]

\* Mutant: the latest value counts.
ReachesUnsmoothed(s, limit) == s[Len(s)] >= limit

\* _MetricState.update compares the mean of the window.
Reaches(s, limit) == SampleSum(s) >= limit * Len(s)

\* _escalate_if_needed: critical beats warning.
CommandFor(readings, connected) ==
  CASE ~connected -> "HALT_DISCONNECTED"
    [] connected /\ (\E d \in Dims : Reaches(readings[d], Critical[d])) -> "HALT_COMMAND"
    [] connected /\ (\A d \in Dims : ~Reaches(readings[d], Critical[d])) ->
         IF \E d \in Dims : Reaches(readings[d], Warning[d]) THEN "PSA_ALERT" ELSE "none"

\* _poll_loop: the metrics are collected and published, and the
\* command follows.  The web socket is not smoothed, and the dimension
\* "bus" repeats the latency of the last tick.
Poll(reading, connected) ==
  /\ samples' = [d \in Dims |-> Latest(d, IF d = "bus" THEN busLatency ELSE reading[d])]
  /\ command' = CommandFor(samples', connected)
  /\ UNCHANGED busLatency

\* What a round of measurements may find.
Measurements ==
  {m \in [Dims -> UNION {Readings[d] : d \in Dims}] : \A d \in Dims : m[d] \in Readings[d]}

HealthNext ==
  \/ \E latency \in Latencies : ClockTick(latency)
  \/ \E reading \in Measurements, connected \in BOOLEAN : Poll(reading, connected)

HealthSpec == HealthInit /\ [][HealthNext]_healthVars

-----------------------------------------------------------------------------
(* Properties. *)

\* "Tracks moving averages to avoid flapping on transient spikes": once the
\* window is full, a halt on a percentage (CPU, memory, disk) means that at
\* least two of its samples were at the warning threshold or above, whatever
\* the third one was.  Lags, latencies and drifts have no upper end, and one
\* sample of them may halt.
SpikeDoesNotHalt ==
  command = "HALT_COMMAND" =>
    \/ \E d \in Dims \ Percent : Reaches(samples[d], Critical[d])
    \/ \E d \in Dims : Len(samples[d]) < Smoothing
    \/ \E d \in Percent : \E i, j \in 1 .. Smoothing :
         i # j /\ samples[d][i] >= Warning[d] /\ samples[d][j] >= Warning[d]

=============================================================================
