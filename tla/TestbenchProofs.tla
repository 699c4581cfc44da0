---------------------------- MODULE TestbenchProofs ----------------------------
(***************************************************************************)
(* What the two checkers that keep time can and cannot do, for every       *)
(* timeout, period, set of tasks and range of temperatures, over any       *)
(* number of wraps of their clock; and what reaches the firmware of the    *)
(* stimulus, for every sequence of items and any number of readings; and   *)
(* that the scoreboard's control law is the firmware's.                    *)
(***************************************************************************)
EXTENDS DeadlockDetector, TimingChecker, Stimulus, ClimateMC, TLAPS

LEMMA MillisRange ==
  ASSUME NEW now \in Nat
  PROVE  Millis(now) \in 0 .. MS_MAX
<1> DEFINE n == now % UINT_UNITS
<1>1. n \in Nat /\ n < UINT_UNITS
  BY SMT DEF UINT_UNITS
<1> HIDE DEF n
<1>2. n \div MS_UNITS \in Nat /\ n \div MS_UNITS <= MS_MAX
  BY SMT, <1>1 DEF UINT_UNITS, MS_UNITS, MS_MAX
<1>3. n \div MS_UNITS \in 0 .. MS_MAX
  BY SMT, <1>2 DEF MS_MAX
<1> QED
  BY <1>3 DEF n, Millis, Unsigned

(* The wrapped clock never makes an interval longer than it is.            *)
LEMMA WrapShortens ==
  ASSUME NEW now \in Nat, NEW past \in Nat, past <= now, NEW span \in Nat,
         Millis(now) - Millis(past) > span
  PROVE  now - past > span * MS_UNITS
<1> DEFINE n == now % UINT_UNITS
           p == past % UINT_UNITS
<1>1. n \in Nat /\ p \in Nat /\ n < UINT_UNITS /\ p < UINT_UNITS
  BY SMT DEF UINT_UNITS
<1>2. n - p <= now - past
  BY SMT DEF UINT_UNITS
<1>3. n \div MS_UNITS - p \div MS_UNITS > span
  BY DEF Millis, Unsigned
<1> HIDE DEF n, p
<1>4. n - p > span * MS_UNITS
  BY SMT, <1>1, <1>3 DEF MS_UNITS
<1> QED
  BY SMT, <1>1, <1>2, <1>4 DEF MS_UNITS

(* Within one turn of the clock it measures an interval to the millisecond.*)
LEMMA WithinOneTurn ==
  ASSUME NEW now \in Nat, NEW past \in Nat, past <= now, NEW span \in Nat,
         (past % UINT_UNITS) + (now - past) < UINT_UNITS,
         now - past >= (span + 1) * MS_UNITS
  PROVE  Millis(now) >= Millis(past) /\ Millis(now) - Millis(past) > span
<1> DEFINE n == now % UINT_UNITS
           p == past % UINT_UNITS
<1>1. n \in Nat /\ p \in Nat
  BY SMT DEF UINT_UNITS
<1>2. n = p + (now - past)
  BY SMT DEF UINT_UNITS
<1> HIDE DEF n, p
<1>3. n - p >= (span + 1) * MS_UNITS
  BY SMT, <1>1, <1>2 DEF MS_UNITS
<1>4. n \div MS_UNITS - p \div MS_UNITS > span
  BY SMT, <1>1, <1>3 DEF MS_UNITS
<1>5. n \div MS_UNITS >= p \div MS_UNITS
  BY SMT, <1>1, <1>4 DEF MS_UNITS
<1> QED
  BY <1>4, <1>5 DEF n, p, Millis, Unsigned

(***************************************************************************)
(* The inductive invariant: what the detector stores is the wrapped image  *)
(* of when the task was heard last, and every silence it can see is        *)
(* flagged.                                                                *)
(***************************************************************************)
DetectorInv ==
  /\ DetectorTypeOK
  /\ \A t \in Monitored : alive_at[t] <= time
  /\ \A t \in tracked : last_heartbeat_ms[t] = Millis(alive_at[t])
  /\ stalled_tasks \subseteq tracked
  /\ NoFalseStall
  /\ FinishedIsNotStalled
  /\ probed => Idle(tracked, last_heartbeat_ms) \subseteq stalled_tasks
  /\ verdict # "deadlock"

LEMMA DetectorInvInit == DetectorInit => DetectorInv
BY SMT DEF DetectorInit, DetectorInv, DetectorTypeOK, NoFalseStall,
   FinishedIsNotStalled, Idle, MS_MAX

(* check only flags tasks that have been silent for longer than timeout.   *)
LEMMA IdleIsSilent ==
  ASSUME DetectorInv
  PROVE  \A t \in Idle(tracked, last_heartbeat_ms) :
           Silent(t) > timeout_ms * MS_UNITS
<1> TAKE t \in Idle(tracked, last_heartbeat_ms)
<1>1. /\ alive_at[t] \in Nat /\ alive_at[t] <= time /\ time \in Nat
      /\ Millis(time) - Millis(alive_at[t]) > timeout_ms
  BY DEF Idle, DetectorInv, DetectorTypeOK
<1> QED
  BY <1>1, WrapShortens, DetectorAssumption DEF Silent

LEMMA HeardKeeps ==
  ASSUME DetectorInv, NEW t \in Monitored, Heard(t)
  PROVE  /\ time' \in Nat /\ tracked' \in SUBSET Monitored
         /\ last_heartbeat_ms' \in [Monitored -> 0 .. MS_MAX]
         /\ alive_at' \in [Monitored -> Nat]
         /\ \A u \in Monitored : alive_at'[u] <= time'
         /\ \A u \in tracked' : last_heartbeat_ms'[u] = Millis(alive_at'[u])
         /\ t \notin Idle(tracked', last_heartbeat_ms')
         /\ \A u \in Idle(tracked', last_heartbeat_ms') :
              u # t /\ u \in Idle(tracked, last_heartbeat_ms)
<1>1. Millis(time) \in 0 .. MS_MAX /\ timeout_ms \in Nat
  BY MillisRange, DetectorAssumption DEF DetectorInv, DetectorTypeOK
<1>2. last_heartbeat_ms'[t] = Millis(time) /\ alive_at'[t] = time
  BY DEF Heard, DetectorInv, DetectorTypeOK
<1>3. t \notin Idle(tracked', last_heartbeat_ms')
  <2> SUFFICES ASSUME t \in Idle(tracked', last_heartbeat_ms')
               PROVE  FALSE
    OBVIOUS
  <2>1. Millis(time) - Millis(time) > timeout_ms
    BY <1>2 DEF Idle
  <2>2. Millis(time) \in Int
    BY <1>1
  <2> QED
    BY <1>1, <2>1, <2>2
<1>4. \A u \in Monitored : u # t =>
        /\ last_heartbeat_ms'[u] = last_heartbeat_ms[u]
        /\ alive_at'[u] = alive_at[u]
        /\ u \in tracked' <=> u \in tracked
  BY DEF Heard, DetectorInv, DetectorTypeOK
<1>5. \A u \in Idle(tracked', last_heartbeat_ms') :
        u # t /\ u \in Idle(tracked, last_heartbeat_ms)
  BY <1>3, <1>4 DEF Idle, Heard, DetectorInv, DetectorTypeOK
<1>6. /\ time' \in Nat /\ tracked' \in SUBSET Monitored
      /\ last_heartbeat_ms' \in [Monitored -> 0 .. MS_MAX]
      /\ alive_at' \in [Monitored -> Nat]
  BY <1>1 DEF Heard, DetectorInv, DetectorTypeOK
<1>7. \A u \in Monitored : alive_at'[u] <= time'
  <2> TAKE u \in Monitored
  <2>1. CASE u = t
    <3>1. time' = time /\ time \in Nat
      BY DEF Heard, DetectorInv, DetectorTypeOK
    <3> QED
      BY <1>2, <2>1, <3>1
  <2>2. CASE u # t
    BY <1>4, <2>2 DEF Heard, DetectorInv
  <2> QED
    BY <2>1, <2>2
<1>8. \A u \in tracked' : last_heartbeat_ms'[u] = Millis(alive_at'[u])
  <2> TAKE u \in tracked'
  <2>1. CASE u = t
    BY <1>2, <2>1
  <2>2. CASE u # t
    BY <1>4, <1>6, <2>2 DEF DetectorInv
  <2> QED
    BY <2>1, <2>2
<1> QED
  BY <1>3, <1>5, <1>6, <1>7, <1>8

LEMMA DetectorInvNext == DetectorInv /\ [DetectorNext]_detectorVars => DetectorInv'
<1> SUFFICES ASSUME DetectorInv, [DetectorNext]_detectorVars
             PROVE  DetectorInv'
  OBVIOUS
<1> USE DEF DetectorInv
<1>1. ASSUME NEW t \in Monitored, Observe(t) \/ ObserveControlInput(t)
      PROVE  DetectorInv'
  <2>1. Heard(t)
    BY <1>1 DEF Observe, ObserveControlInput
  <2> DEFINE idle == Idle(tracked, last_heartbeat_ms)
             later == Idle(tracked', last_heartbeat_ms')
  <2>2. /\ \A u \in later : u # t /\ u \in idle
        /\ \A u \in idle : u \in tracked \ finished_tasks
    BY <2>1, HeardKeeps DEF Idle
  <2>3. /\ stalled_tasks \ {t} \subseteq stalled_tasks'
        /\ stalled_tasks' \subseteq (stalled_tasks \ {t}) \cup later
        /\ flagged' = flagged \cup stalled_tasks'
        /\ probed => later \subseteq stalled_tasks'
    BY <1>1, <2>2 DEF Observe, ObserveControlInput, Flag
  <2>4. \A u \in stalled_tasks' : /\ u # t /\ u \in tracked \ finished_tasks
                                  /\ alive_at'[u] = alive_at[u]
                                  /\ Silent(u) > timeout_ms * MS_UNITS
    <3>1. \A u \in stalled_tasks' : u # t /\ (u \in stalled_tasks \/ u \in idle)
      BY <2>2, <2>3
    <3>2. \A u \in idle : Silent(u) > timeout_ms * MS_UNITS
      BY IdleIsSilent
    <3> QED
      BY <2>1, <2>2, <3>1, <3>2
         DEF Heard, DetectorTypeOK, NoFalseStall, FinishedIsNotStalled
  <2>5. /\ stalled_tasks' \subseteq Monitored /\ stalled_tasks' \subseteq tracked'
        /\ flagged' \subseteq Monitored
    BY <2>1, <2>3, <2>4 DEF Heard, DetectorTypeOK
  <2>6. NoFalseStall' /\ FinishedIsNotStalled'
    BY <2>1, <2>4 DEF Heard, NoFalseStall, FinishedIsNotStalled, Silent
  <2>7. probed' => Idle(tracked, last_heartbeat_ms)' \subseteq stalled_tasks'
    BY <2>1, <2>3 DEF Heard, Idle
  <2> QED
    BY <2>1, <2>5, <2>6, <2>7, HeardKeeps DEF Heard, DetectorTypeOK
<1>2. ASSUME NEW t \in Monitored, MarkFinished(t)
      PROVE  DetectorInv'
  BY <1>2 DEF MarkFinished, DetectorTypeOK, NoFalseStall, FinishedIsNotStalled,
     Silent, Idle
<1>3. CASE NextPeriod
  <2>1. time \in Nat /\ time' \in Nat /\ time' >= time
    BY SMT, <1>3, ClockAssumption DEF NextPeriod, Wait, DetectorTypeOK, MS_UNITS
  <2>2. /\ ~probed'
        /\ tracked' = tracked /\ last_heartbeat_ms' = last_heartbeat_ms
        /\ stalled_tasks' = stalled_tasks /\ finished_tasks' = finished_tasks
        /\ verdict' = verdict /\ alive_at' = alive_at /\ flagged' = flagged
    BY <1>3 DEF NextPeriod
  <2>3. \A u \in Monitored : alive_at'[u] <= time'
    <3> SUFFICES ASSUME NEW u \in Monitored
                 PROVE  alive_at[u] <= time'
      BY <2>2
    <3>1. alive_at[u] \in Nat /\ alive_at[u] <= time
      BY DEF DetectorTypeOK
    <3> QED
      BY <2>1, <3>1
  <2>4. NoFalseStall'
    <3> SUFFICES ASSUME NEW u \in stalled_tasks
                 PROVE  time' - alive_at[u] > timeout_ms * MS_UNITS
      BY <2>2 DEF NoFalseStall, Silent
    <3>1. time - alive_at[u] > timeout_ms * MS_UNITS /\ alive_at[u] \in Nat
      BY DEF NoFalseStall, Silent, DetectorTypeOK
    <3> QED
      BY <2>1, <3>1, DetectorAssumption DEF MS_UNITS
  <2>5. DetectorTypeOK'
    <3>1. probed' = FALSE
      BY <1>3 DEF NextPeriod
    <3> QED
      BY <2>1, <2>2, <3>1 DEF DetectorTypeOK
  <2>6. /\ \A u \in tracked' : last_heartbeat_ms'[u] = Millis(alive_at'[u])
        /\ stalled_tasks' \subseteq tracked' /\ FinishedIsNotStalled'
    BY <2>2 DEF FinishedIsNotStalled
  <2>7. verdict' # "deadlock" /\ ~probed'
    BY <2>2
  <2> QED
    BY <2>3, <2>4, <2>5, <2>6, <2>7
<1>4. CASE Probe
  <2>1. Idle(tracked, last_heartbeat_ms) \subseteq tracked \ finished_tasks
    BY DEF Idle
  <2>2. /\ stalled_tasks' = stalled_tasks \cup Idle(tracked, last_heartbeat_ms)
        /\ flagged' \subseteq Monitored /\ probed'
        /\ UNCHANGED <<time, tracked, last_heartbeat_ms, finished_tasks,
                       verdict, alive_at>>
    BY <1>4, <2>1 DEF Probe, Flag, DetectorTypeOK
  <2>3. NoFalseStall'
    BY <2>2, IdleIsSilent DEF NoFalseStall, Silent
  <2>4. Idle(tracked, last_heartbeat_ms)' \subseteq stalled_tasks'
    BY <2>2 DEF Idle
  <2> QED
    BY <2>1, <2>2, <2>3, <2>4 DEF DetectorTypeOK, FinishedIsNotStalled
<1>5. CASE finished_tasks = Monitored /\ Report
  <2>1. stalled_tasks = {}
    BY <1>5 DEF Report, DetectorTypeOK, FinishedIsNotStalled
  <2> QED
    BY <1>5, <2>1 DEF Report, DetectorTypeOK, NoFalseStall, FinishedIsNotStalled,
       Silent, Idle
<1>6. CASE UNCHANGED detectorVars
  BY <1>6 DEF detectorVars, DetectorTypeOK, NoFalseStall, FinishedIsNotStalled,
     Silent, Idle
<1> QED
  BY <1>1, <1>2, <1>3, <1>4, <1>5, <1>6 DEF DetectorNext

THEOREM DetectorInvHolds == DetectorSpec => []DetectorInv
BY DetectorInvInit, DetectorInvNext, PTL DEF DetectorSpec

(***************************************************************************)
(* The detector's state has its type, milliseconds within one turn of the  *)
(* clock among them.                                                       *)
(***************************************************************************)
THEOREM DetectorTyped == DetectorSpec => []DetectorTypeOK
<1>1. DetectorInv => DetectorTypeOK
  BY DEF DetectorInv
<1> QED
  BY <1>1, DetectorInvHolds, PTL

(***************************************************************************)
(* A flagged task has been silent for longer than the timeout, whatever    *)
(* the wraps of the clock in between.                                      *)
(***************************************************************************)
THEOREM NoFalseAlarms == DetectorSpec => []NoFalseStall
<1>1. DetectorInv => NoFalseStall
  BY DEF DetectorInv
<1> QED
  BY <1>1, DetectorInvHolds, PTL

(***************************************************************************)
(* Before the clock wraps, a task that falls silent is flagged.            *)
(***************************************************************************)
THEOREM StallsNoticed == DetectorSpec => []StallNoticed
<1>1. DetectorInv => StallNoticed
  <2> SUFFICES ASSUME DetectorInv, NEW t \in tracked \ finished_tasks, probed,
                      (alive_at[t] % UINT_UNITS) + Silent(t) < UINT_UNITS,
                      Silent(t) >= (timeout_ms + 1) * MS_UNITS
               PROVE  t \in stalled_tasks
    BY DEF StallNoticed
  <2>1. /\ time \in Nat /\ alive_at[t] \in Nat /\ alive_at[t] <= time
        /\ last_heartbeat_ms[t] = Millis(alive_at[t])
    BY DEF DetectorInv, DetectorTypeOK
  <2>2. /\ Millis(time) >= Millis(alive_at[t])
        /\ Millis(time) - Millis(alive_at[t]) > timeout_ms
    BY <2>1, WithinOneTurn, DetectorAssumption DEF Silent
  <2> QED
    BY <2>1, <2>2 DEF DetectorInv, Idle
<1> QED
  BY <1>1, DetectorInvHolds, PTL

(***************************************************************************)
(* report_phase never prints a deadlock: it comes after the last           *)
(* TASK_DONE, and that takes every flag away.                              *)
(***************************************************************************)
THEOREM NothingToReport ==
  DetectorSpec => [](FinishedIsNotStalled /\ verdict # "deadlock")
<1>1. DetectorInv => FinishedIsNotStalled /\ verdict # "deadlock"
  BY DEF DetectorInv
<1> QED
  BY <1>1, DetectorInvHolds, PTL

(***************************************************************************)
(* With a timeout of 4294 ms or more - the default is 5000 and nothing in  *)
(* the testbench sets another - no task is ever flagged: the wrapped clock *)
(* cannot measure an interval that long.                                   *)
(***************************************************************************)
THEOREM DefaultNeverFlags ==
  ASSUME timeout_ms >= MS_MAX
  PROVE  DetectorSpec => [](flagged = {} /\ stalled_tasks = {})
<1> DEFINE Quiet == flagged = {} /\ stalled_tasks = {}
<1>1. DetectorInit => Quiet
  BY DEF DetectorInit
<1>2. ASSUME time \in Nat, NEW known \in SUBSET Monitored,
             NEW heard \in [Monitored -> 0 .. MS_MAX]
      PROVE  Idle(known, heard) = {}
  <2> SUFFICES ASSUME NEW t \in Idle(known, heard)
               PROVE  FALSE
    OBVIOUS
  <2>1. /\ heard[t] \in 0 .. MS_MAX
        /\ Millis(time) - heard[t] > timeout_ms
    BY <1>2 DEF Idle
  <2>2. Millis(time) \in 0 .. MS_MAX /\ timeout_ms \in Nat
    BY <1>2, MillisRange, DetectorAssumption
  <2>3. MS_MAX \in Int
    BY DEF MS_MAX
  <2> QED
    BY <2>1, <2>2, <2>3
<1>3. DetectorInv /\ Quiet /\ [DetectorNext]_detectorVars => Quiet'
  <2> SUFFICES ASSUME DetectorInv, Quiet, [DetectorNext]_detectorVars
               PROVE  Quiet'
    OBVIOUS
  <2>1. ASSUME NEW t \in Monitored, Observe(t) \/ ObserveControlInput(t)
        PROVE  Quiet'
    <3>1. Heard(t) /\ time \in Nat
      BY <2>1 DEF Observe, ObserveControlInput, DetectorInv, DetectorTypeOK
    <3>2. Idle(tracked', last_heartbeat_ms') = {}
      BY <1>2, <3>1, HeardKeeps
    <3> QED
      BY <2>1, <3>2 DEF Observe, ObserveControlInput, Flag
  <2>2. ASSUME NEW t \in Monitored, MarkFinished(t)
        PROVE  Quiet'
    BY <2>2 DEF MarkFinished
  <2>3. CASE Probe
    <3>1. Idle(tracked, last_heartbeat_ms) = {}
      BY <1>2 DEF DetectorInv, DetectorTypeOK
    <3> QED
      BY <2>3, <3>1 DEF Probe, Flag
  <2>4. CASE NextPeriod \/ Report \/ UNCHANGED detectorVars
    BY <2>4 DEF NextPeriod, Report, detectorVars
  <2> QED
    BY <2>1, <2>2, <2>3, <2>4 DEF DetectorNext
<1> QED
  BY <1>1, <1>3, DetectorInvHolds, PTL DEF DetectorSpec

-----------------------------------------------------------------------------
LEMMA UnitsPositive == UINT_UNITS \in Nat \ {0}
BY SMT DEF UINT_UNITS

LEMMA UnsignedRange ==
  ASSUME NEW clock \in Nat
  PROVE  Unsigned(clock) \in 0 .. UINT_UNITS - 1
BY SMT, UnitsPositive DEF Unsigned

LEMMA DifferenceRange ==
  ASSUME NEW a \in 0 .. UINT_UNITS - 1, NEW b \in 0 .. UINT_UNITS - 1, a >= b
  PROVE  a - b \in 0 .. UINT_UNITS - 1
<1>1. ASSUME NEW m \in Int, NEW c \in 0 .. m, NEW d \in 0 .. m, c >= d
      PROVE  c - d \in 0 .. m
  BY <1>1
<1>2. UINT_UNITS - 1 \in Int
  BY UnitsPositive
<1> QED
  BY <1>1, <1>2

(* A difference of two timestamps is at most the difference of the clocks. *)
LEMMA UnsignedShortens ==
  ASSUME NEW now \in Nat, NEW past \in Nat, past <= now
  PROVE  Unsigned(now) - Unsigned(past) <= now - past
<1> DEFINE n == now % UINT_UNITS
           p == past % UINT_UNITS
           j == now \div UINT_UNITS
           k == past \div UINT_UNITS
<1>1. /\ n \in Nat /\ p \in Nat /\ n < UINT_UNITS /\ p < UINT_UNITS
      /\ j \in Nat /\ k \in Nat
  BY SMT DEF UINT_UNITS
<1>2. now = UINT_UNITS * j + n /\ past = UINT_UNITS * k + p
  BY SMT DEF UINT_UNITS
<1> HIDE DEF n, p, j, k
<1>3. n - p <= now - past
  <2>1. CASE j >= k
    BY SMT, <1>1, <1>2, <2>1 DEF UINT_UNITS
  <2>2. CASE j < k
    BY SMT, <1>1, <1>2, <2>2 DEF UINT_UNITS
  <2> QED
    BY <1>1, <2>1, <2>2
<1> QED
  BY <1>3 DEF Unsigned, n, p

(***************************************************************************)
(* The inductive invariant: the crossings are in order and not later than  *)
(* the last event, which is not later than the clock, and what the checker *)
(* stores is the timestamp of the last crossing.                           *)
(***************************************************************************)
TimingInv ==
  /\ TimingTypeOK
  /\ previous <= time /\ last_stamp <= time
  /\ CrossingsAccounted
  /\ \A i \in 1 .. Len(crossings) :
       crossings[1] <= crossings[i] /\ crossings[i] <= last_stamp
  /\ Len(crossings) > 0 => cross_timestamp_ns = Unsigned(crossings[Len(crossings)])
  /\ NoExaggeratedLatency
  /\ Len(crossings) = 0 => max_latency_ms = 0

LEMMA TimingInvInit == TimingInit => TimingInv
<1> SUFFICES ASSUME TimingInit
             PROVE  TimingInv
  OBVIOUS
<1>1. crossings = <<>> /\ crossings \in Seq(Nat) /\ Len(crossings) = 0
  BY DEF TimingInit
<1>2. 0 \in 0 .. UINT_UNITS - 1
  BY UnitsPositive
<1>3. TimingTypeOK
  BY <1>1, <1>2 DEF TimingInit, TimingTypeOK
<1>4. CrossingsAccounted /\ NoExaggeratedLatency
  BY <1>1 DEF TimingInit, CrossingsAccounted, NoExaggeratedLatency
<1> QED
  BY <1>1, <1>3, <1>4 DEF TimingInit, TimingInv

LEMMA StampsInOrder ==
  ASSUME TimingInv, NEW stamp \in Stamps
  PROVE  stamp \in Nat /\ stamp >= last_stamp /\ stamp <= time
BY SMT DEF Stamps, TimingInv, TimingTypeOK

(* A reaction is measured from a crossing that really came before it.      *)
LEMMA ReactionKeeps ==
  ASSUME TimingInv, NEW stamp \in Stamps, OnActuatorReaction(stamp)
  PROVE  TimingInv'
<1>1. /\ stamp \in Nat /\ stamp >= last_stamp /\ stamp <= time
      /\ time \in Nat /\ previous \in Nat /\ last_stamp \in Nat
  BY StampsInOrder DEF TimingInv, TimingTypeOK
<1>2. /\ last_stamp' = stamp /\ time' = time /\ previous' = previous
      /\ threshold_crossed' = threshold_crossed
      /\ cross_timestamp_ns' = cross_timestamp_ns /\ crossings' = crossings
  BY DEF OnActuatorReaction
<1>3. \A i \in 1 .. Len(crossings) :
        /\ crossings[i] \in Nat /\ crossings[1] <= crossings[i]
        /\ crossings[i] <= last_stamp
  BY DEF TimingInv, TimingTypeOK
<1>4. \A i \in 1 .. Len(crossings) : crossings[i] <= stamp
  BY SMT, <1>1, <1>3
<1>5. CASE pending_crossings > 0 /\ Reaction(stamp) >= cross_timestamp_ns
  <2> DEFINE latency == Reaction(stamp) - cross_timestamp_ns
             n == Len(crossings)
  <2>1. n \in Nat /\ n > 0 /\ samples \in Nat /\ pending_crossings \in Nat
        /\ samples + pending_crossings = n /\ max_latency_ms \in 0 .. UINT_UNITS - 1
    BY SMT, <1>5 DEF TimingInv, TimingTypeOK, CrossingsAccounted
  <2>2. /\ crossings[n] \in Nat /\ crossings[n] <= stamp
        /\ crossings[1] \in Nat /\ crossings[1] <= crossings[n]
        /\ cross_timestamp_ns = Unsigned(crossings[n])
    BY <1>3, <1>4, <2>1 DEF TimingInv
  <2>3. PICK clock \in {stamp, time} : Reaction(stamp) = Unsigned(clock)
    BY DEF Reaction
  <2>4. /\ Reaction(stamp) \in 0 .. UINT_UNITS - 1
        /\ cross_timestamp_ns \in 0 .. UINT_UNITS - 1
    BY <1>1, <2>2, <2>3, UnsignedRange
  <2> HIDE DEF n
  <2>5. latency <= time - crossings[1]
    <3>1. clock \in Nat /\ clock >= crossings[n] /\ clock <= time
      BY <1>1, <2>2
    <3>2. Unsigned(clock) - Unsigned(crossings[n]) <= clock - crossings[n]
      BY <2>2, <3>1, UnsignedShortens
    <3>3. clock - crossings[n] <= time - crossings[1]
      BY <1>1, <2>2, <3>1
    <3>4. Unsigned(clock) \in Int /\ Unsigned(crossings[n]) \in Int
      BY SMT, <2>2, <3>1 DEF Unsigned, UINT_UNITS
    <3>5. Unsigned(clock) - Unsigned(crossings[n]) <= time - crossings[1]
      BY <1>1, <2>2, <3>1, <3>2, <3>3, <3>4
    <3> QED
      BY <2>2, <2>3, <3>5
  <2>6. latency \in 0 .. UINT_UNITS - 1
    BY <1>5, <2>4, DifferenceRange
  <2> HIDE DEF latency
  <2> USE DEF n
  <2>7. /\ samples' = samples + 1 /\ pending_crossings' = pending_crossings - 1
        /\ max_latency_ms' = max_latency_ms \/ max_latency_ms' = latency
    BY <1>5 DEF OnActuatorReaction, latency
  <2>8. max_latency_ms' \in 0 .. UINT_UNITS - 1
    BY <2>1, <2>6, <2>7
  <2>9. NoExaggeratedLatency'
    BY <1>2, <2>5, <2>7 DEF NoExaggeratedLatency, TimingInv
  <2>10. samples' \in Nat /\ pending_crossings' \in Nat /\ CrossingsAccounted'
    BY SMT, <1>2, <1>5, <2>1, <2>7 DEF CrossingsAccounted
  <2>11. TimingTypeOK'
    BY <1>1, <1>2, <2>8, <2>10 DEF TimingInv, TimingTypeOK
  <2> QED
    BY <1>1, <1>2, <1>3, <1>4, <2>1, <2>9, <2>10, <2>11 DEF TimingInv
<1>6. CASE ~(pending_crossings > 0 /\ Reaction(stamp) >= cross_timestamp_ns)
  <2>1. UNCHANGED <<samples, max_latency_ms, pending_crossings>>
    BY <1>6 DEF OnActuatorReaction
  <2>2. TimingTypeOK' /\ CrossingsAccounted' /\ NoExaggeratedLatency'
    BY <1>1, <1>2, <2>1
       DEF TimingInv, TimingTypeOK, CrossingsAccounted, NoExaggeratedLatency
  <2> QED
    BY <1>1, <1>2, <1>3, <1>4, <2>1, <2>2 DEF TimingInv
<1> QED
  BY <1>5, <1>6

(* A crossing is appended behind the ones before it.                       *)
LEMMA SensorKeeps ==
  ASSUME TimingInv, NEW stamp \in Stamps, NEW degrees,
         OnSensor(degrees, stamp)
  PROVE  TimingInv'
<1>1. /\ stamp \in Nat /\ stamp >= last_stamp /\ stamp <= time
      /\ time \in Nat /\ previous \in Nat /\ last_stamp \in Nat
  BY StampsInOrder DEF TimingInv, TimingTypeOK
<1>2. /\ last_stamp' = stamp /\ time' = time /\ previous' = previous
      /\ threshold_crossed' = Crossed(degrees)
      /\ samples' = samples /\ max_latency_ms' = max_latency_ms
  BY DEF OnSensor
<1>3. Crossed(degrees) \in BOOLEAN
  BY DEF Crossed
<1>4. \A i \in 1 .. Len(crossings) :
        /\ crossings[i] \in Nat /\ crossings[1] <= crossings[i]
        /\ crossings[i] <= last_stamp /\ crossings[i] <= stamp
  BY SMT, <1>1 DEF TimingInv, TimingTypeOK
<1>5. CASE ~threshold_crossed /\ Crossed(degrees)
  <2> DEFINE n == Len(crossings)
  <2>1. /\ cross_timestamp_ns' = Unsigned(stamp)
        /\ pending_crossings' = pending_crossings + 1
        /\ crossings' = Append(crossings, stamp)
    BY <1>5 DEF OnSensor
  <2>2. crossings \in Seq(Nat) /\ n \in Nat /\ samples \in Nat
        /\ pending_crossings \in Nat /\ samples + pending_crossings = n
    BY DEF TimingInv, TimingTypeOK, CrossingsAccounted
  <2>3. /\ crossings' \in Seq(Nat) /\ Len(crossings') = n + 1
        /\ crossings'[n + 1] = stamp
        /\ \A i \in 1 .. n : crossings'[i] = crossings[i]
    BY <1>1, <2>1, <2>2
  <2>4. crossings'[1] = IF n = 0 THEN stamp ELSE crossings[1]
    BY <2>2, <2>3
  <2>5. \A i \in 1 .. Len(crossings') :
          crossings'[1] <= crossings'[i] /\ crossings'[i] <= stamp
    <3> SUFFICES ASSUME NEW i \in 1 .. n + 1
                 PROVE  crossings'[1] <= crossings'[i] /\ crossings'[i] <= stamp
      BY <2>3
    <3>1. CASE i = n + 1
      <4>1. CASE n = 0
        BY <1>1, <2>3, <2>4, <3>1, <4>1
      <4>2. CASE n # 0
        BY <1>1, <1>4, <2>2, <2>3, <2>4, <3>1, <4>2
      <4> QED
        BY <4>1, <4>2
    <3>2. CASE i # n + 1
      BY <1>4, <2>2, <2>3, <2>4, <3>2
    <3> QED
      BY <3>1, <3>2
  <2>6. NoExaggeratedLatency'
    BY <1>2, <2>2, <2>4 DEF NoExaggeratedLatency, TimingInv
  <2>7. CrossingsAccounted' /\ pending_crossings' \in Nat
    BY SMT, <1>2, <2>1, <2>2, <2>3 DEF CrossingsAccounted
  <2>8. cross_timestamp_ns' \in 0 .. UINT_UNITS - 1
    BY <1>1, <2>1, UnsignedRange
  <2>9. TimingTypeOK'
    BY <1>1, <1>2, <1>3, <2>3, <2>7, <2>8 DEF TimingInv, TimingTypeOK
  <2> QED
    BY <1>1, <1>2, <2>1, <2>2, <2>3, <2>5, <2>6, <2>7, <2>9 DEF TimingInv
<1>6. CASE ~(~threshold_crossed /\ Crossed(degrees))
  <2>1. /\ cross_timestamp_ns' = cross_timestamp_ns
        /\ pending_crossings' = pending_crossings /\ crossings' = crossings
    BY <1>6 DEF OnSensor
  <2>2. TimingTypeOK'
    BY <1>1, <1>2, <1>3, <2>1 DEF TimingInv, TimingTypeOK
  <2>3. CrossingsAccounted' /\ NoExaggeratedLatency'
    BY <1>2, <2>1 DEF TimingInv, CrossingsAccounted, NoExaggeratedLatency
  <2> QED
    BY <1>1, <1>2, <1>4, <2>1, <2>2, <2>3 DEF TimingInv
<1> QED
  BY <1>5, <1>6

LEMMA NextPollKeeps ==
  ASSUME TimingInv, NextPoll
  PROVE  TimingInv'
<1>1. /\ time \in Nat /\ time' \in Nat /\ time' >= time /\ previous' = time
  BY SMT, ClockAssumption DEF NextPoll, Wait, TimingInv, TimingTypeOK, MS_UNITS
<1>2. UNCHANGED <<last_stamp, checkerVars, crossings>>
  BY DEF NextPoll
<1>3. TimingTypeOK' /\ CrossingsAccounted'
  BY <1>1, <1>2 DEF TimingInv, TimingTypeOK, CrossingsAccounted, checkerVars
<1>4. Len(crossings) > 0 => crossings[1] \in Nat
  BY DEF TimingInv, TimingTypeOK
<1>5. NoExaggeratedLatency'
  BY <1>1, <1>2, <1>4
     DEF TimingInv, TimingTypeOK, NoExaggeratedLatency, checkerVars
<1> QED
  BY <1>1, <1>2, <1>3, <1>5 DEF TimingInv, TimingTypeOK, checkerVars

LEMMA TimingInvNext == TimingInv /\ [TimingNext]_timingVars => TimingInv'
<1> SUFFICES ASSUME TimingInv, [TimingNext]_timingVars
             PROVE  TimingInv'
  OBVIOUS
<1>1. CASE NextPoll
  BY <1>1, NextPollKeeps
<1>2. ASSUME NEW stamp \in Stamps, NEW degrees \in Temperatures,
             OnSensor(degrees, stamp)
      PROVE  TimingInv'
  BY <1>2, SensorKeeps
<1>3. ASSUME NEW stamp \in Stamps, OnActuatorReaction(stamp)
      PROVE  TimingInv'
  BY <1>3, ReactionKeeps
<1>4. CASE UNCHANGED timingVars
  BY <1>4 DEF timingVars, clockVars, checkerVars, TimingInv, TimingTypeOK,
     CrossingsAccounted, NoExaggeratedLatency
<1> QED
  BY <1>1, <1>2, <1>3, <1>4 DEF TimingNext

THEOREM TimingInvHolds == TimingSpec => []TimingInv
BY TimingInvInit, TimingInvNext, PTL DEF TimingSpec

(***************************************************************************)
(* The timing checker's state has its type: timestamps and latencies fit   *)
(* in 32 bits.                                                             *)
(***************************************************************************)
THEOREM TimingTyped == TimingSpec => []TimingTypeOK
<1>1. TimingInv => TimingTypeOK
  BY DEF TimingInv
<1> QED
  BY <1>1, TimingInvHolds, PTL

(***************************************************************************)
(* Every crossing is answered once or still pending.                       *)
(***************************************************************************)
THEOREM CrossingsAddUp == TimingSpec => []CrossingsAccounted
<1>1. TimingInv => CrossingsAccounted
  BY DEF TimingInv
<1> QED
  BY <1>1, TimingInvHolds, PTL

(***************************************************************************)
(* The reported latency is never more than the time since the first        *)
(* crossing, over any number of wraps of the clock.                        *)
(***************************************************************************)
THEOREM LatencyNotExaggerated == TimingSpec => []NoExaggeratedLatency
<1>1. TimingInv => NoExaggeratedLatency
  BY DEF TimingInv
<1> QED
  BY <1>1, TimingInvHolds, PTL

-----------------------------------------------------------------------------
(***************************************************************************)
(* The stimulus.  How far the driver's two globals have come: the item     *)
(* each of them was stored from.                                           *)
(***************************************************************************)
PairType == [temperature : Int, humidity : Int]

TemperatureOf == IF driver = "temperature" THEN driven ELSE driven + 1
HumidityOf == IF driver = "enqueue" THEN driven + 1 ELSE driven

(* A pair whose humidity is at most one item older than its temperature.   *)
Mixed(p) == \E m, n \in 0 .. Len(Items) :
  /\ n >= m - 1
  /\ p = [temperature |-> Item(m).temperature, humidity |-> Item(n).humidity]

DriverInv ==
  /\ TemperatureOf \in 0 .. Len(Items) /\ HumidityOf \in 0 .. Len(Items)
  /\ drv_temperature = Item(TemperatureOf).temperature
  /\ drv_humidity = Item(HumidityOf).humidity

HeldInv ==
  /\ adc = "hold_humidity" => \E m \in 0 .. TemperatureOf :
       last.temperature = Item(m).temperature
  /\ adc = "humidity" => Mixed(last)

SampledInv ==
  /\ sampled \in Seq(PairType) /\ popped \in Seq(PairType)
  /\ adc # "pop" => Len(sampled) < Reads
  /\ \A n \in 1 .. Len(sampled) : Mixed(sampled[n])

StimulusInv ==
  /\ StimulusTypeOK /\ EachItemOnce
  /\ DriverInv /\ HeldInv /\ SampledInv

LEMMA ItemType ==
  ASSUME NEW n \in 0 .. Len(Items)
  PROVE  Item(n) \in PairType
<1>1. Items \in Seq(PairType) /\ Len(Items) \in Nat
  BY StimulusAssumption DEF PairType
<1>2. Default \in PairType
  BY DEF Default, PairType
<1>3. CASE n = 0
  BY <1>2, <1>3 DEF Item
<1>4. CASE n # 0
  <2>1. n \in 1 .. Len(Items)
    BY <1>1, <1>4
  <2> QED
    BY <1>1, <1>4, <2>1 DEF Item
<1> QED
  BY <1>3, <1>4

LEMMA WholeIsMixed ==
  ASSUME NEW n \in 0 .. Len(Items)
  PROVE  Mixed(Item(n))
<1>1. Item(n) = [temperature |-> Item(n).temperature, humidity |-> Item(n).humidity]
  BY ItemType DEF PairType
<1>2. n >= n - 1
  BY StimulusAssumption
<1> QED
  BY <1>1, <1>2 DEF Mixed

LEMMA StimulusInvInit == StimulusInit => StimulusInv
<1> SUFFICES ASSUME StimulusInit PROVE StimulusInv
  OBVIOUS
<1>1. Len(Items) \in Nat /\ Default \in PairType /\ Reads \in Nat
  BY StimulusAssumption DEF Default, PairType
<1>2. StimulusTypeOK
  BY <1>1 DEF StimulusInit, StimulusTypeOK, PairType
<1>3. EachItemOnce
  BY StimulusAssumption DEF StimulusInit, EachItemOnce
<1>4. DriverInv /\ HeldInv /\ SampledInv
  BY <1>1 DEF StimulusInit, DriverInv, HeldInv, SampledInv, TemperatureOf,
     HumidityOf, Item
<1> QED
  BY <1>2, <1>3, <1>4 DEF StimulusInv

(* What is in the FIFO, and the next item behind it.                       *)
LEMMA PushedOnce ==
  ASSUME NEW s \in Seq(PairType), NEW p \in Seq(PairType), NEW n \in 0 .. Len(Items),
         n < Len(Items), p \o s = SubSeq(Items, 1, n)
  PROVE  p \o Append(s, Items[n + 1]) = SubSeq(Items, 1, n + 1)
<1>1. Items \in Seq(PairType) /\ Len(Items) \in Nat
  BY StimulusAssumption DEF PairType
<1>2. Items[n + 1] \in PairType
  BY <1>1
<1>3. p \o Append(s, Items[n + 1]) = Append(p \o s, Items[n + 1])
  BY <1>2
<1>4. Append(SubSeq(Items, 1, n), Items[n + 1]) = SubSeq(Items, 1, n + 1)
  BY <1>1
<1> QED
  BY <1>3, <1>4

LEMMA PoppedOnce ==
  ASSUME NEW s \in Seq(PairType), NEW p \in Seq(PairType), s # <<>>
  PROVE  Append(p, Head(s)) \o Tail(s) = p \o s
OBVIOUS

(* The front of the FIFO is an item.                                       *)
LEMMA FrontIsItem ==
  ASSUME StimulusInv, stim_queue # <<>>
  PROVE  \E n \in 0 .. Len(Items) : Head(stim_queue) = Item(n)
<1>1. /\ Items \in Seq(PairType) /\ popped \in Seq(PairType)
      /\ stim_queue \in Seq(PairType) /\ driven \in 0 .. Len(Items)
  BY StimulusAssumption DEF StimulusInv, StimulusTypeOK, SampledInv, PairType
<1>2. popped \o stim_queue = SubSeq(Items, 1, driven)
  BY DEF StimulusInv, EachItemOnce
<1> DEFINE n == Len(popped) + 1
<1>3. Len(popped) \in Nat /\ n \in 1 .. Len(popped \o stim_queue)
  BY <1>1
<1>4. Head(stim_queue) = (popped \o stim_queue)[n]
  BY <1>1
<1>5. n \in 1 .. driven
  BY <1>1, <1>2, <1>3
<1>6. Head(stim_queue) = Items[n]
  BY <1>1, <1>2, <1>4, <1>5
<1>7. n \in 0 .. Len(Items) /\ n # 0
  BY <1>1, <1>5
<1> HIDE DEF n
<1> QED
  BY <1>6, <1>7 DEF Item

LEMMA DriverKeepsStimulus ==
  ASSUME StimulusInv, Driver
  PROVE  StimulusInv'
<1>1. /\ Items \in Seq(PairType) /\ Len(Items) \in Nat /\ driven \in 0 .. Len(Items)
      /\ stim_queue \in Seq(PairType) /\ popped \in Seq(PairType)
      /\ StimulusTypeOK
  BY StimulusAssumption DEF StimulusInv, StimulusTypeOK, SampledInv, PairType
<1>2. driver # "temperature" => driven < Len(Items)
  BY <1>1 DEF StimulusInv, DriverInv, TemperatureOf
<1>3. driven < Len(Items)
  BY <1>2 DEF Driver, DriveTemperature, DriveHumidity, PushStimulus
<1>4. Items[driven + 1] \in PairType /\ Item(driven + 1) = Items[driven + 1]
  BY <1>1, <1>3 DEF Item
<1>5. UNCHANGED adcVars
  BY DEF Driver, DriveTemperature, DriveHumidity, PushStimulus
<1>6. TemperatureOf' >= TemperatureOf /\ TemperatureOf \in Nat /\ TemperatureOf' \in Nat
  BY <1>1 DEF Driver, DriveTemperature, DriveHumidity, PushStimulus, TemperatureOf
<1>7. StimulusTypeOK'
  <2>1. CASE DriveTemperature
    BY <1>1, <1>4, <2>1 DEF DriveTemperature, StimulusTypeOK, adcVars, PairType
  <2>2. CASE DriveHumidity
    BY <1>1, <1>4, <2>2 DEF DriveHumidity, StimulusTypeOK, adcVars, PairType
  <2>3. CASE PushStimulus
    <3>1. stim_queue' \in Seq(PairType) /\ driven' \in 0 .. Len(Items)
      BY <1>1, <1>3, <1>4, <2>3 DEF PushStimulus
    <3> QED
      BY <1>1, <2>3, <3>1 DEF PushStimulus, StimulusTypeOK, adcVars, PairType
  <2> QED
    BY <2>1, <2>2, <2>3 DEF Driver
<1>8. EachItemOnce'
  <2>1. CASE DriveTemperature \/ DriveHumidity
    BY <2>1 DEF StimulusInv, EachItemOnce, DriveTemperature, DriveHumidity, adcVars
  <2>2. CASE PushStimulus
    BY <1>1, <1>3, <1>5, <2>2, PushedOnce
    DEF StimulusInv, EachItemOnce, PushStimulus, adcVars
  <2> QED
    BY <2>1, <2>2 DEF Driver
<1>9. DriverInv'
  BY <1>1, <1>3, <1>4
  DEF StimulusInv, DriverInv, TemperatureOf, HumidityOf, Driver, DriveTemperature,
      DriveHumidity, PushStimulus
<1>10. HeldInv'
  BY <1>5, <1>6 DEF StimulusInv, HeldInv, Mixed, adcVars
<1>11. SampledInv'
  BY <1>5 DEF StimulusInv, SampledInv, adcVars, Mixed
<1> QED
  BY <1>7, <1>8, <1>9, <1>10, <1>11 DEF StimulusInv

LEMMA AdcKeepsStimulus ==
  ASSUME StimulusInv, Adc
  PROVE  StimulusInv'
<1>1. /\ StimulusTypeOK /\ Reads \in Nat /\ Len(Items) \in Nat
      /\ stim_queue \in Seq(PairType) /\ popped \in Seq(PairType)
      /\ last \in PairType /\ sampled \in Seq(PairType)
  BY StimulusAssumption DEF StimulusInv, StimulusTypeOK, SampledInv, PairType
<1>2. UNCHANGED driverVars
  BY DEF Adc, PopStimulus, HoldTemperature, HoldHumidity, ReadHumidity
<1>3. DriverInv' /\ TemperatureOf' = TemperatureOf
  BY <1>2 DEF StimulusInv, DriverInv, TemperatureOf, HumidityOf, driverVars
<1>4. TemperatureOf \in 0 .. Len(Items) /\ HumidityOf \in 0 .. Len(Items)
      /\ HumidityOf >= TemperatureOf - 1
  BY <1>1 DEF StimulusInv, DriverInv, TemperatureOf, HumidityOf, StimulusTypeOK
<1>5. CASE PopStimulus
  <2>1. CASE stim_queue # <<>>
    <3>1. /\ last' = Head(stim_queue) /\ popped' = Append(popped, Head(stim_queue))
          /\ stim_queue' = Tail(stim_queue) /\ adc' = "humidity"
          /\ sampled' = sampled /\ Len(sampled) < Reads
      BY <1>5, <2>1 DEF PopStimulus
    <3>2. Head(stim_queue) \in PairType /\ Tail(stim_queue) \in Seq(PairType)
      BY <1>1, <2>1
    <3>3. StimulusTypeOK'
      BY <1>1, <1>2, <3>1, <3>2 DEF StimulusTypeOK, driverVars, PairType
    <3>4. EachItemOnce'
      BY <1>1, <1>2, <2>1, <3>1, PoppedOnce DEF StimulusInv, EachItemOnce, driverVars
    <3>5. Mixed(last')
      BY <2>1, <3>1, FrontIsItem, WholeIsMixed
    <3>6. HeldInv'
      BY <3>1, <3>5 DEF HeldInv
    <3>7. popped' \in Seq(PairType)
      BY <1>1, <3>1, <3>2
    <3>8. SampledInv'
      BY <3>1, <3>7 DEF StimulusInv, SampledInv, Mixed
    <3> QED
      BY <1>3, <3>3, <3>4, <3>6, <3>8 DEF StimulusInv
  <2>2. CASE stim_queue = <<>>
    <3>1. /\ UNCHANGED <<last, popped, stim_queue, sampled>> /\ adc' = "hold_temperature"
          /\ Len(sampled) < Reads
      BY <1>5, <2>2 DEF PopStimulus
    <3>2. StimulusTypeOK' /\ EachItemOnce'
      BY <1>1, <1>2, <3>1 DEF StimulusInv, StimulusTypeOK, EachItemOnce, driverVars
    <3>3. HeldInv' /\ SampledInv'
      BY <3>1 DEF StimulusInv, HeldInv, SampledInv, Mixed
    <3> QED
      BY <1>3, <3>2, <3>3 DEF StimulusInv
  <2> QED
    BY <2>1, <2>2
<1>6. CASE HoldTemperature
  <2>1. /\ last' = [last EXCEPT !.temperature = drv_temperature] /\ adc' = "hold_humidity"
        /\ adc = "hold_temperature"
        /\ UNCHANGED <<popped, stim_queue, sampled>>
    BY <1>6 DEF HoldTemperature
  <2>2. last'.temperature = Item(TemperatureOf).temperature /\ last' \in PairType
    BY <1>1, <2>1 DEF StimulusInv, DriverInv, StimulusTypeOK, PairType
  <2>3. StimulusTypeOK' /\ EachItemOnce'
    BY <1>1, <1>2, <2>1, <2>2
    DEF StimulusInv, StimulusTypeOK, EachItemOnce, driverVars, PairType
  <2>4. HeldInv'
    <3>1. TemperatureOf \in 0 .. TemperatureOf'
      BY <1>3, <1>4
    <3> QED
      BY <2>1, <2>2, <3>1 DEF HeldInv, Item
  <2>5. SampledInv'
    BY <2>1 DEF StimulusInv, SampledInv, Mixed
  <2> QED
    BY <1>3, <2>3, <2>4, <2>5 DEF StimulusInv
<1>7. CASE HoldHumidity
  <2>1. /\ last' = [last EXCEPT !.humidity = drv_humidity] /\ adc' = "humidity"
        /\ adc = "hold_humidity"
        /\ UNCHANGED <<popped, stim_queue, sampled>>
    BY <1>7 DEF HoldHumidity
  <2>2. PICK m \in 0 .. TemperatureOf : last.temperature = Item(m).temperature
    BY <2>1 DEF StimulusInv, HeldInv
  <2>3. /\ last' = [temperature |-> Item(m).temperature,
                    humidity |-> Item(HumidityOf).humidity]
        /\ last' \in PairType
    BY <1>1, <2>1, <2>2 DEF StimulusInv, DriverInv, StimulusTypeOK, PairType
  <2>4. m \in 0 .. Len(Items) /\ HumidityOf >= m - 1
    BY <1>1, <1>4
  <2>5. Mixed(last')
    BY <1>4, <2>3, <2>4 DEF Mixed
  <2>6. StimulusTypeOK' /\ EachItemOnce'
    BY <1>1, <1>2, <2>1, <2>3
    DEF StimulusInv, StimulusTypeOK, EachItemOnce, driverVars, PairType
  <2>7. HeldInv' /\ SampledInv'
    BY <2>1, <2>5 DEF StimulusInv, HeldInv, SampledInv, Mixed
  <2> QED
    BY <1>3, <2>6, <2>7 DEF StimulusInv
<1>8. CASE ReadHumidity
  <2>1. /\ sampled' = Append(sampled, last) /\ adc' = "pop" /\ adc = "humidity"
        /\ UNCHANGED <<last, popped, stim_queue>>
    BY <1>8 DEF ReadHumidity
  <2>2. Mixed(last) /\ Len(sampled) < Reads
        /\ \A n \in 1 .. Len(sampled) : Mixed(sampled[n])
    BY <2>1 DEF StimulusInv, HeldInv, SampledInv
  <2>3. /\ sampled' \in Seq(PairType) /\ Len(sampled') = Len(sampled) + 1
        /\ \A n \in 1 .. Len(sampled') :
             sampled'[n] = IF n \in 1 .. Len(sampled) THEN sampled[n] ELSE last
    BY <1>1, <2>1
  <2>4. \A n \in 1 .. Len(sampled') : Mixed(sampled'[n])
    BY <2>2, <2>3
  <2>5. StimulusTypeOK' /\ EachItemOnce'
    BY <1>1, <1>2, <2>1, <2>2, <2>3
    DEF StimulusInv, StimulusTypeOK, EachItemOnce, driverVars, PairType
  <2>6. HeldInv' /\ SampledInv'
    BY <2>1, <2>3, <2>4 DEF StimulusInv, HeldInv, SampledInv, Mixed
  <2> QED
    BY <1>3, <2>5, <2>6 DEF StimulusInv
<1> QED
  BY <1>5, <1>6, <1>7, <1>8 DEF Adc

LEMMA StimulusStutters ==
  ASSUME StimulusInv, UNCHANGED stimulusVars
  PROVE  StimulusInv'
BY DEF StimulusInv, stimulusVars, driverVars, adcVars, StimulusTypeOK, EachItemOnce,
   DriverInv, HeldInv, SampledInv, TemperatureOf, HumidityOf, Mixed

(* The invariant of the driver and the callback.                           *)
THEOREM StimulusInvHolds == StimulusSpec => []StimulusInv
<1>1. StimulusInv /\ [StimulusNext]_stimulusVars => StimulusInv'
  BY DriverKeepsStimulus, AdcKeepsStimulus, StimulusStutters
  DEF StimulusNext, StimulusDone
<1> QED
  BY StimulusInvInit, <1>1, PTL DEF StimulusSpec

(* The task never reads more often than its loop count allows.             *)
THEOREM StimulusTyped == StimulusSpec => []StimulusTypeOK
<1>1. StimulusInv => StimulusTypeOK
  BY DEF StimulusInv
<1> QED
  BY StimulusInvHolds, <1>1, PTL

(* Whatever the sequence, the FIFO loses, repeats and reorders nothing.    *)
THEOREM FifoIsFaithful == StimulusSpec => []EachItemOnce
<1>1. StimulusInv => EachItemOnce
  BY DEF StimulusInv
<1> QED
  BY StimulusInvHolds, <1>1, PTL

(* Whatever the sequence, a reading's humidity is at most one item older   *)
(* than its temperature, although the two threads share no lock for the    *)
(* globals: both go through them in the same order.                        *)
THEOREM HumidityIsFresh == StimulusSpec => []HumidityKeepsUp
<1>1. StimulusInv => HumidityKeepsUp
  BY DEF StimulusInv, SampledInv, Mixed, HumidityKeepsUp
<1> QED
  BY StimulusInvHolds, <1>1, PTL

-----------------------------------------------------------------------------
(***************************************************************************)
(* The control law.                                                        *)
(***************************************************************************)
ClimateTypeOK == temperature \in Int /\ humidity \in Int /\ target \in Int

LEMMA ClimateTyped == ClimateSpec => []ClimateTypeOK
<1>1. ClimateInit => ClimateTypeOK
  BY ClimateAssumption DEF ClimateInit, ClimateTypeOK, Eighths, Humidities, Around,
     HUMIDITY_MIN_LIMIT, HUMIDITY_MAX_LIMIT
<1>2. ClimateTypeOK /\ [Drift]_climateVars => ClimateTypeOK'
  BY DEF ClimateTypeOK, Drift, climateVars
<1> QED
  BY <1>1, <1>2, PTL DEF ClimateSpec

(* Inside the band the duty is the truncated product and nothing is cut.   *)
LEMMA DutyInBand ==
  ASSUME NEW t \in Int, target \in Int, InBand(t)
  PROVE  /\ Magnitude(t - target) \in 0 .. 16
         /\ CalculatedFanDuty(t, target) = (Magnitude(t - target) * 5) \div 8
<1> DEFINE error == t - target
<1>1. error \in -16 .. 16
  BY DEF InBand, FAN_TEMP_TOLERANCE, Eighths
<1>2. Magnitude(error) \in 0 .. 16
  BY <1>1 DEF Magnitude
<1>3. (Magnitude(error) * 5) \div 8 \in 0 .. 10
  BY <1>2
<1>4. CalculatedFanDuty(t, target) = Truncate((Magnitude(error) * 5) \div 8)
  BY <1>1 DEF CalculatedFanDuty, FAN_TEMP_TOLERANCE, Eighths
<1> HIDE DEF error
<1>5. Truncate((Magnitude(error) * 5) \div 8) = (Magnitude(error) * 5) \div 8
  BY <1>3 DEF Truncate, FAN_SPEED_MAX
<1> QED
  BY <1>2, <1>4, <1>5 DEF error

(* At every temperature, humidity and setpoint the reference model of the  *)
(* scoreboard computes what the firmware computes.                         *)
THEOREM ReferenceModelIsFaithful == ClimateSpec => []ReferenceModelAgrees
<1>1. ClimateTypeOK => ReferenceModelAgrees
  BY DEF ClimateTypeOK, ReferenceModelAgrees, ExpectedFanDuty, CalculatedFanDuty,
     ExpectedPumpState, ShouldPumpOn, ExpectedAlarmLed, AlarmLedActive, NewAlarmState,
     ALARM_NORMAL, ALARM_WARNING, ALARM_CRITICAL, HUMIDITY_MIN_LIMIT, HUMIDITY_MAX_LIMIT,
     TEMP_ALARM_LIMIT, TEMP_CRITICAL_LIMIT, Eighths
<1> QED
  BY ClimateTyped, <1>1, PTL

(* At every temperature and humidity air that is watered is alarmed.       *)
THEOREM WateredAirIsAlarmed == ClimateSpec => []PumpIsAlarmed
<1>1. ClimateTypeOK => PumpIsAlarmed
  BY DEF ClimateTypeOK, PumpIsAlarmed, ShouldPumpOn, AlarmLedActive, NewAlarmState,
     ALARM_NORMAL, ALARM_WARNING, ALARM_CRITICAL, HUMIDITY_MIN_LIMIT, Eighths
<1> QED
  BY ClimateTyped, <1>1, PTL

(* A step of one eighth moves the distance to the setpoint by one eighth.  *)
LEMMA DistanceMovesByOne ==
  ASSUME NEW a \in Int, NEW b \in {a - 1, a + 1}, NEW c \in Int
  PROVE  Magnitude(b - c) \in {Magnitude(a - c) - 1, Magnitude(a - c) + 1}
BY DEF Magnitude

(* At every setpoint an eighth of a degree inside the band moves the fan   *)
(* by at most one per cent, truncation included.                           *)
THEOREM FanIsSmooth == ClimateSpec => FanMovesSmoothly
<1>1. ASSUME NEW m \in 0 .. 16, NEW n \in {m - 1, m + 1}
      PROVE  ((n * 5) \div 8) - ((m * 5) \div 8) \in -1 .. 1
  BY <1>1
<1>2. ASSUME ClimateTypeOK, ClimateTypeOK', Drift, InBand(temperature), InBand(temperature')
      PROVE  CalculatedFanDuty(temperature', target) - CalculatedFanDuty(temperature, target)
               \in -1 .. 1
  <2> DEFINE m == Magnitude(temperature - target)
             n == Magnitude(temperature' - target)
  <2>1. /\ m \in 0 .. 16 /\ n \in 0 .. 16
        /\ CalculatedFanDuty(temperature, target) = (m * 5) \div 8
        /\ CalculatedFanDuty(temperature', target) = (n * 5) \div 8
    BY <1>2, DutyInBand DEF ClimateTypeOK
  <2>2. n \in {m - 1, m + 1}
    BY <1>2, DistanceMovesByOne DEF Drift, ClimateTypeOK
  <2> HIDE DEF m, n
  <2> QED
    BY <1>1, <2>1, <2>2
<1>3. ClimateTypeOK /\ ClimateTypeOK' /\ [Drift]_climateVars
        => [InBand(temperature) /\ InBand(temperature') =>
              CalculatedFanDuty(temperature', target)
                - CalculatedFanDuty(temperature, target) \in -1 .. 1]_climateVars
  BY <1>2
<1> QED
  BY ClimateTyped, <1>3, PTL DEF ClimateSpec, FanMovesSmoothly
=============================================================================
