---------------------------- MODULE TimingChecker ----------------------------
(***************************************************************************)
(* timing_checker: how long the alarm LED takes to be driven after the     *)
(* temperature has crossed the alarm threshold.  It is told of sensor and  *)
(* LED events with the simulated time published when they were pushed, cut *)
(* to 32 bits.                                                             *)
(*                                                                         *)
(* dut_bridge publishes the clock and drains the queue once per poll, so   *)
(* an event carries the clock of this poll or of the one before, and the   *)
(* events keep the order in which they were stamped: TimingNext says so,   *)
(* and Supervised shows it of the testbench.                               *)
(***************************************************************************)
EXTENDS SimClock, Climate, Sequences

CONSTANT Temperatures   \* temperatures the sensor may read

alarm_threshold_c == 35 * Eighths
hysteresis == Eighths

ASSUME TimingAssumption == Temperatures \subseteq Int

VARIABLES
  previous,             \* the clock one period ago
  last_stamp,           \* the clock of the last event delivered
  threshold_crossed, cross_timestamp_ns, pending_crossings,
  samples, max_latency_ms,
  crossings             \* history: the clock at each crossing, in full

clockVars == <<time, previous, last_stamp>>
checkerVars == <<threshold_crossed, cross_timestamp_ns, pending_crossings,
                 samples, max_latency_ms>>
timingVars == <<clockVars, checkerVars, crossings>>

TimingTypeOK ==
  /\ time \in Nat /\ previous \in Nat /\ last_stamp \in Nat
  /\ threshold_crossed \in BOOLEAN
  /\ cross_timestamp_ns \in 0 .. UINT_UNITS - 1
  /\ pending_crossings \in Nat
  /\ samples \in Nat
  /\ max_latency_ms \in 0 .. UINT_UNITS - 1
  /\ crossings \in Seq(Nat)

TimingInit ==
  /\ time = 0 /\ previous = 0 /\ last_stamp = 0
  /\ threshold_crossed = FALSE
  /\ cross_timestamp_ns = 0
  /\ pending_crossings = 0
  /\ samples = 0
  /\ max_latency_ms = 0
  /\ crossings = <<>>

-----------------------------------------------------------------------------
(* The poll loop's wait.                                                   *)
NextPoll ==
  /\ Wait
  /\ previous' = time
  /\ UNCHANGED <<last_stamp, checkerVars, crossings>>

Stamps == {stamp \in {previous, time} : stamp >= last_stamp}

(* Above the threshold, with a degree less to go back below it.            *)
Crossed(temperature) ==
  temperature >= alarm_threshold_c - (IF threshold_crossed THEN hysteresis ELSE 0)

(* Mutant: falling below the threshold forgets the pending crossings.      *)
OnSensorForgets(temperature, stamp) ==
  /\ IF ~threshold_crossed /\ Crossed(temperature)
     THEN /\ cross_timestamp_ns' = Unsigned(stamp)
          /\ pending_crossings' = pending_crossings + 1
          /\ crossings' = Append(crossings, stamp)
     ELSE /\ pending_crossings' = IF Crossed(temperature) THEN pending_crossings ELSE 0
          /\ UNCHANGED <<cross_timestamp_ns, crossings>>
  /\ threshold_crossed' = Crossed(temperature)
  /\ last_stamp' = stamp
  /\ UNCHANGED <<time, previous, samples, max_latency_ms>>

(* on_sensor: a crossing arms the checker, one degree less disarms it.     *)
OnSensor(temperature, stamp) ==
  /\ IF ~threshold_crossed /\ Crossed(temperature)
     THEN /\ cross_timestamp_ns' = Unsigned(stamp)
          /\ pending_crossings' = pending_crossings + 1
          /\ crossings' = Append(crossings, stamp)
     ELSE UNCHANGED <<cross_timestamp_ns, pending_crossings, crossings>>
  /\ threshold_crossed' = Crossed(temperature)
  /\ last_stamp' = stamp
  /\ UNCHANGED <<time, previous, samples, max_latency_ms>>

(* A zero timestamp stands for the simulated time of the delivery.         *)
Reaction(stamp) == IF Unsigned(stamp) = 0 THEN Unsigned(time) ELSE Unsigned(stamp)

(* Mutant: the larger timestamp is taken for the later one.                *)
OnActuatorReactionUnordered(stamp) ==
  /\ IF pending_crossings > 0
     THEN LET ahead == Reaction(stamp) - cross_timestamp_ns
              latency == IF ahead < 0 THEN -ahead ELSE ahead IN
          /\ samples' = samples + 1
          /\ max_latency_ms' =
               IF latency > max_latency_ms THEN latency ELSE max_latency_ms
          /\ pending_crossings' = pending_crossings - 1
     ELSE UNCHANGED <<samples, max_latency_ms, pending_crossings>>
  /\ last_stamp' = stamp
  /\ UNCHANGED <<time, previous, threshold_crossed, cross_timestamp_ns, crossings>>

(* on_actuator_reaction, whatever the LED is set to.                       *)
OnActuatorReaction(stamp) ==
  /\ IF pending_crossings > 0 /\ Reaction(stamp) >= cross_timestamp_ns
     THEN LET latency == Reaction(stamp) - cross_timestamp_ns IN
          /\ samples' = samples + 1
          /\ max_latency_ms' =
               IF latency > max_latency_ms THEN latency ELSE max_latency_ms
          /\ pending_crossings' = pending_crossings - 1
     ELSE UNCHANGED <<samples, max_latency_ms, pending_crossings>>
  /\ last_stamp' = stamp
  /\ UNCHANGED <<time, previous, threshold_crossed, cross_timestamp_ns, crossings>>

TimingNext ==
  \/ NextPoll
  \/ \E stamp \in Stamps :
       \/ \E temperature \in Temperatures : OnSensor(temperature, stamp)
       \/ OnActuatorReaction(stamp)

TimingSpec == TimingInit /\ [][TimingNext]_timingVars

-----------------------------------------------------------------------------
(* Every crossing is either answered by one reaction or still pending: the *)
(* report's samples and pending_unmatched add up.                          *)
CrossingsAccounted == samples + pending_crossings = Len(crossings)

(* The reported latency is never more than the time that really passed     *)
(* since the first crossing, though the clock wraps at 4.29 s.             *)
NoExaggeratedLatency ==
  max_latency_ms > 0 => max_latency_ms <= time - crossings[1]

(* timing_checker.h: "Measures time from temperature threshold crossing to *)
(* first actuator reaction": the maximum covers the time from the n-th     *)
(* crossing to the n-th reaction.                                          *)
MaxCoversEachCrossing ==
  [][samples' > samples =>
       max_latency_ms' >= last_stamp' - crossings[samples']]_timingVars
=============================================================================
