------------------------------ MODULE Scoreboard ------------------------------
(***************************************************************************)
(* concurrency_sb: the reference model that judges the event stream.  Its  *)
(* checkers (timing, deadlock, priority inversion, data integrity) are     *)
(* components of their own; here is the scoreboard's own state, one        *)
(* handler per kind of event, each a whole write() method.                 *)
(***************************************************************************)
EXTENDS Climate, Sequences, FiniteSets

CONSTANTS
  kWindowSize,       \* sensor snapshots kept for the output check (5)
  kCoherenceWarmup   \* control inputs let through before judging (20)

ASSUME ScoreboardAssumption ==
  /\ kWindowSize \in Nat \ {0}
  /\ kCoherenceWarmup \in Nat

VARIABLES
  recent_snapshots,         \* the last kWindowSize readings, oldest first
  modeled_target_temp,      \* the setpoint as the COMM events tell it
  seen_pairs,               \* every pair a SENSOR event has carried
  coherence_warmup_seen,
  torn_reads, mismatches,   \* the verdict
  pending_fan,              \* fan duties waiting for their pump: at most one
  pending_pump              \* pump states waiting for their fan: at most one

scoreboardVars == <<recent_snapshots, modeled_target_temp, seen_pairs,
                    coherence_warmup_seen, torn_reads, mismatches,
                    pending_fan, pending_pump>>

(* Mutant: seen_pairs is not seeded.                                    *)
ScoreboardInitUnseeded ==
  /\ recent_snapshots = <<>>
  /\ modeled_target_temp = TEMP_TARGET_DEFAULT
  /\ seen_pairs = {}
  /\ coherence_warmup_seen = 0
  /\ torn_reads = 0
  /\ mismatches = 0
  /\ pending_fan = {}
  /\ pending_pump = {}

(* The constructor seeds seen_pairs with the firmware's reset state.       *)
ScoreboardInit ==
  /\ recent_snapshots = <<>>
  /\ modeled_target_temp = TEMP_TARGET_DEFAULT
  /\ seen_pairs = {[temperature |-> 0, humidity |-> 0]}
  /\ coherence_warmup_seen = 0
  /\ torn_reads = 0
  /\ mismatches = 0
  /\ pending_fan = {}
  /\ pending_pump = {}

ScoreboardTypeOK ==
  /\ recent_snapshots \in Seq([temperature : Int, humidity : Int])
  /\ modeled_target_temp \in Int
  /\ seen_pairs \subseteq [temperature : Int, humidity : Int]
  /\ coherence_warmup_seen \in 0 .. kCoherenceWarmup
  /\ torn_reads \in Nat
  /\ mismatches \in Nat
  /\ pending_fan \subseteq 0 .. FAN_SPEED_MAX
  /\ pending_pump \subseteq {0, 1}
  /\ Cardinality(pending_fan) + Cardinality(pending_pump) <= 1

-----------------------------------------------------------------------------
(* Mutant: the window is one reading short.                             *)
WriteSensorShortWindow(pair) ==
  /\ LET longer == Append(recent_snapshots, pair) IN
     recent_snapshots' =
       IF Len(longer) >= kWindowSize THEN Tail(longer) ELSE longer
  /\ seen_pairs' = seen_pairs \cup {pair}
  /\ UNCHANGED <<modeled_target_temp, coherence_warmup_seen, torn_reads,
                 mismatches, pending_fan, pending_pump>>

(* push_snapshot: the window forgets the oldest, seen_pairs nothing.       *)
WriteSensor(pair) ==
  /\ LET longer == Append(recent_snapshots, pair) IN
     recent_snapshots' =
       IF Len(longer) > kWindowSize THEN Tail(longer) ELSE longer
  /\ seen_pairs' = seen_pairs \cup {pair}
  /\ UNCHANGED <<modeled_target_temp, coherence_warmup_seen, torn_reads,
                 mismatches, pending_fan, pending_pump>>

Snapshots == {recent_snapshots[i] : i \in 1 .. Len(recent_snapshots)}

(* One recent reading must explain both outputs of an iteration.           *)
Explained(fan, pump) ==
  \/ Snapshots = {}
  \/ \E s \in Snapshots :
       /\ ExpectedFanDuty(s.temperature, modeled_target_temp) = fan
       /\ ExpectedPumpState(s.humidity) = (pump = 1)

(* The write() of an actuator item, for the fan: a duty above 100 counts,  *)
(* then the duty is judged with a pump state that is already there, or     *)
(* waits for one (replacing a duty that waited).                           *)
WritePwm(duty) ==
  /\ mismatches' = mismatches
       + (IF duty > 100 THEN 1 ELSE 0)
       + (IF \A p \in pending_pump : Explained(duty, p) THEN 0 ELSE 1)
  /\ pending_fan' = IF pending_pump = {} THEN {duty} ELSE {}
  /\ pending_pump' = {}
  /\ UNCHANGED <<recent_snapshots, modeled_target_temp, seen_pairs,
                 coherence_warmup_seen, torn_reads>>

WriteGpioPump(state) ==
  /\ mismatches' = mismatches
       + (IF \A d \in pending_fan : Explained(d, state) THEN 0 ELSE 1)
  /\ pending_pump' = IF pending_fan = {} THEN {state} ELSE {}
  /\ pending_fan' = {}
  /\ UNCHANGED <<recent_snapshots, modeled_target_temp, seen_pairs,
                 coherence_warmup_seen, torn_reads>>

(* check_alarm_pair: one recent reading must explain the LED.              *)
WriteGpioLed(state) ==
  /\ mismatches' =
       IF \/ Snapshots = {}
          \/ \E s \in Snapshots :
               ExpectedAlarmLed(s.temperature, s.humidity) = (state = 1)
       THEN mismatches ELSE mismatches + 1
  /\ UNCHANGED <<recent_snapshots, modeled_target_temp, seen_pairs,
                 coherence_warmup_seen, torn_reads, pending_fan, pending_pump>>

WriteComm(type, value) ==
  /\ modeled_target_temp' =
       CASE type = "RESET" -> TEMP_TARGET_DEFAULT
         [] type = "TARGET" -> value
         [] OTHER -> modeled_target_temp
  /\ UNCHANGED <<recent_snapshots, seen_pairs, coherence_warmup_seen,
                 torn_reads, mismatches, pending_fan, pending_pump>>

(* Mutant: the warm-up is one control input too long.                   *)
WriteControlInputLate(pair) ==
  /\ IF coherence_warmup_seen <= kCoherenceWarmup
     THEN /\ coherence_warmup_seen' = coherence_warmup_seen + 1
          /\ UNCHANGED <<torn_reads, mismatches>>
     ELSE /\ UNCHANGED coherence_warmup_seen
          /\ IF pair \in seen_pairs
             THEN UNCHANGED <<torn_reads, mismatches>>
             ELSE torn_reads' = torn_reads + 1 /\ mismatches' = mismatches + 1
  /\ UNCHANGED <<recent_snapshots, modeled_target_temp, seen_pairs,
                 pending_fan, pending_pump>>

(* check_control_coherence: the pair control_task consumed was read        *)
(* together by some sensor reading that has been delivered.                *)
WriteControlInput(pair) ==
  /\ IF coherence_warmup_seen < kCoherenceWarmup
     THEN /\ coherence_warmup_seen' = coherence_warmup_seen + 1
          /\ UNCHANGED <<torn_reads, mismatches>>
     ELSE /\ UNCHANGED coherence_warmup_seen
          /\ IF pair \in seen_pairs
             THEN UNCHANGED <<torn_reads, mismatches>>
             ELSE torn_reads' = torn_reads + 1 /\ mismatches' = mismatches + 1
  /\ UNCHANGED <<recent_snapshots, modeled_target_temp, seen_pairs,
                 pending_fan, pending_pump>>

(* MUTEX_WAIT, LOG, HEARTBEAT and TASK_DONE go to the checkers alone.      *)
WriteOther == UNCHANGED scoreboardVars

(***************************************************************************)
(* The drain's switch: the monitor of the event's type hands it to write().*)
(***************************************************************************)
WriteEvent(event) ==
  CASE event.type = "SENSOR" -> WriteSensor(event.pair)
    [] event.type = "CONTROL_IN" -> WriteControlInput(event.pair)
    [] event.type = "PWM" -> WritePwm(event.value)
    [] event.type = "GPIO" /\ event.of = "PUMP" -> WriteGpioPump(event.value)
    [] event.type = "GPIO" /\ event.of = "LED" -> WriteGpioLed(event.value)
    [] event.type = "COMM" -> WriteComm(event.of, event.value)
    [] OTHER -> WriteOther
=============================================================================
