# Models of the FreeRTOS / UVM-SystemC concurrency testbench

The repository builds one climate controller twice, once with unprotected
shared variables (Group A) and once with a mutex around every access (Group B),
runs it as five POSIX threads inside a UVM-SystemC testbench, and compares what
the testbench sees. These modules model the two firmware builds, the hand-off
between their threads and the SystemC world, the scoreboard that gives the
verdict, and the checkers beside it. Source paths below are relative to the
repository root.

## 1. The system

| Component | State it keeps | Operations | Talks to |
|---|---|---|---|
| Firmware, Group A and B (`src/dut/group_a`, `group_b`) | five globals (`sensor_data`, `target_temp`, `actuators`, `alarm_state`, `system_enabled`), locals of five task functions; Group B: one mutex per global | `sensor_task`, `control_task`, `alarm_task`, `comm_task`, `logger_task`, each a loop of `LOOPS_PER_TASK` iterations | the HAL, by calls |
| HAL (`src/hal/hal.c`) | registered callbacks, the mutex holder table | `hal_adc_read`, `hal_uart_rx`, `hal_pwm_set`, `hal_gpio_write`, `hal_log_write`, `hal_report_*`, `hal_mutex_mark_*` | the bridge, by callbacks; its own stubs when none is registered |
| HAL bridge (`tb/hal_bridge/hal_bridge.h`) | event queue, stimulus FIFO, count of live threads, published clock | `push`, `drain_to_monitors`, `push_stimulus`, `pop_stimulus`, the callbacks | firmware threads on one side, the SystemC thread on the other |
| Drivers (`tb/agents/*_driver.h`) | `dvr_*` globals | one item of a sequence at a time | the callbacks, through the globals and the FIFO |
| DUT bridge (`tb/hal_bridge/dut_bridge.h`) | the threads | create, poll and drain once per simulated millisecond, join | everything |
| Scoreboard (`tb/scoreboard/concurrency_sb.h`) | window of readings, set of all pairs seen, setpoint, half of an output pair, verdict | six `write` methods | the monitors; the four checkers |
| Deadlock detector (`tb/checker/deadlock_detector.h`) | last heartbeat per task, flagged and finished tasks | `heartbeat`, `check`, `mark_finished`, silence probe, report | scoreboard |
| Timing checker (`tb/checker/timing_checker.h`) | one crossing timestamp, count of pending crossings, maximum | `on_sensor`, `on_actuator_reaction` | scoreboard |
| Priority-inversion checker | wait counters, maximum per task | `record_wait` | scoreboard |
| Data-integrity checker, coverage bins | counters | sample | scoreboard |
| Benchmarks (`src/bench`) | one shared counter and a mutex, or a counter per thread | runs of several threads, each reset, joined and reported | stand alone |
| Sequences, tests, monitors, environment, scripts | none that the above depends on | | |

### What is hard here

* **Interleaving.** Five threads, a poller and two drivers. In Group A every
  pair of statements may be separated by another thread; in Group B the locks,
  written out by hand in five files, must make that invisible. The holder table
  is kept outside the mutexes it describes. The UART mailbox and the ADC
  fallback are plain globals shared with a driver.
* **Ordering.** The scoreboard judges at delivery what the firmware computed
  earlier. It is only right if a SENSOR event is always delivered before a
  CONTROL_IN event that used the reading, if fan and pump events stay in step,
  and if the last drain comes after the last push.
* **Time.** Checkers are given 32 bits of a nanosecond clock: it wraps every
  4.29 s. Latencies and idle times are differences of such numbers. Waits are
  measured in microseconds and judged in milliseconds.
  The clock itself is published by the poller and read by the threads, so a
  stamp may be a poll old when it is put on an event.
* **Ending.** `run_phase` ends when every thread has counted itself out. The
  result of `pthread_create` is ignored: a thread that was never created is
  counted, and never counted out.

### What makes each component correct

* Group B: no data race, no hold-and-wait, a holder table that never names a
  task that does not own the mutex, every thread ends, and the whole behaves as
  if each shared variable were read and written atomically.
* Group A with the scoreboard: a torn read is counted exactly when one is
  delivered.
* Bridge: a reliable ordered channel: nothing is lost, repeated or overtaken,
  and nothing is left at the join; `run_phase` ends when every thread could be
  created; a command is taken at most once and never empty.
* Scoreboard over Group B: no torn reads, and no mismatch whose cause is not
  the reset state.
* Detector: flags exactly the silent tasks. Timing checker: every crossing is
  accounted for and no latency exceeds real time. Inversion checker: who is
  blamed can have held the mutex. The first two are right only about events that
  come in order, none after the task's completion: the bridge has to see to that.
* Benchmarks: the numbers they print as correct are correct, and the number of
  lost updates is never negative.

## 2. Modules

| Module | Models | Built on |
|---|---|---|
| `Climate` | the control law of `control_task` and `alarm_task`, and the scoreboard's own copy of it; degrees in eighths, so the float product and its truncation are exact | |
| `HalBridge` | event queue, thread count, UART mailbox and its driver | |
| `Firmware` | what the builds share: globals, locals, one action per statement, HAL calls, thread life | `Climate`, `HalBridge` |
| `GroupA` | the task functions bare | `Firmware` |
| `GroupB` | the task functions with their critical sections, the holder table, safety properties | `Firmware` |
| `AtomicController` | what Group B promises: a controller without locks whose tasks read and write whole variables | `Climate` |
| `GroupBRefinement` | the mapping from `GroupB` to `AtomicController` | `GroupB` |
| `Scoreboard` | `concurrency_sb`, one operator per `write` | `Climate` |
| `EventChannel` | what the hand-off of events promises: a reliable ordered channel that closes when every writer has left | |
| `DutBridge` | creation of the threads, which may fail, polling loop, drain, final drain, join; the mapping to `EventChannel` | `Firmware`, `Scoreboard` |
| `SystemA`, `SystemB` | firmware, drivers, polling loop and scoreboard composed | `GroupA` / `GroupB`, `DutBridge` |
| `SimClock` | simulated time, its 32-bit cut, one period of it | |
| `DeadlockDetector`, `TimingChecker` | those checkers, fed by any events in the order the queue can deliver | `SimClock` |
| `Supervised` | firmware, published clock, stamps, drains, scoreboard, watchdog and timing checker composed | `SystemA`, `DeadlockDetector`, `TimingChecker` |
| `PriorityInversion` | that checker over the waits `GroupB` reports | `GroupB` |
| `Stimulus` | sensor driver, stimulus FIFO, ADC callback with its fallback | |
| `Benchmarks` | both microbenchmarks: main, its runs, the threads, counters and mutex | |
| `*MC` | the values of the runs | |
| `FirmwareProofs`, `ChannelProofs` | lemmas on the steps of the firmware and of the bridge | `Firmware`, `DutBridge` |
| `GroupBProofs`, `SystemBProofs`, `SystemAProofs`, `TestbenchProofs`, `InversionProofs`, `BenchProofs` | theorems | the modules they are about |

### How state and actions correspond to the code

* **Threads.** `place[t]` is the shared variable or HAL call task `t` is at,
  `stage[t]` the statement there, `iter[t]` its loop counter. Tasks are their
  priorities 0..4 (logger, comm, control, sensor, alarm), as the event queue
  names them. An action is one load, one store or one call; the random delays
  between statements are the interleaving itself. In Group B a critical section
  is `holder` (look at the table), `lock`, `mark`, `report` (the wait),
  the accesses, `unmark`, `unlock`; each holder-table call has the table's own
  lock and is one step.
* **Why one load or store is one step.** Group A's globals are `volatile`, so the
  compiler keeps each access and their order even at `-O2`; each is an aligned
  scalar, and x86-64 reorders neither loads with loads nor stores with stores. A
  store that is delayed past a later load of its thread changes nothing: no task
  stores one shared variable and then loads another that some task stores in the
  opposite order. In Group B only accesses under one mutex meet, which is what
  `MutualExclusion` is about. The testbench's own globals are neither volatile
  nor guarded, but that code is built with `-O0`, with each access where the
  source has it.
* **Locals before they are written** hold stack contents in the program; no
  task reads one before it writes it, so the model gives them a fixed value.
* **ADC.** `StoreTemperature` takes any pair of `Readings` and holds it for the
  humidity read, which pushes the SENSOR event *before* the humidity is stored.
  Where the pair comes from is `Stimulus`: with an empty FIFO the callback
  loads the driver's two globals one at a time, so a reading may mix two items;
  the firmware models allow for that, since a mixture is just another pair.
* **UART.** `hal_bridge_uart_rx` is six steps: poll (and heartbeat every 64th
  call), test, copy type, copy value, load both again for the event, clear.
  When COMM has no callback the stub of `hal.c` makes up a command or none.
* **Queue.** One sequence for the three structures of the code (the deque, its
  sequence numbers and timestamps): position is the sequence number.
  `DrainSwap` takes the whole queue under its mutex, `Deliver` hands over one
  event with the mutex free, through the monitor, which only copies fields.
  `Registered` is the set of event types a run lets through; a type that is
  left out changes no other event's relative place, so a run registers the
  types its properties speak about.
* **Threads that are not created.** `Spawn` and `SpawnFails` are the two outcomes
  of `pthread_create`; both count the thread, as the code does, and the second
  leaves it in the place `failed`, from which it never moves.
* **Scheduling of the SystemC side.** SystemC processes are cooperative; the
  models let driver and poller steps interleave freely with each other as well
  as with the threads. That only adds behaviours. `Supervised` adds the rule
  that the clock only moves when all processes wait: the poller after its
  drain, the probe after its check, in either order within a period.
* **Stamps.** In `Supervised` the two sequences `stamps` and `batch_stamps` run
  beside `queue` and `batch`; `CheckAndPublish` is the loop test and the
  publication after it (a thread's step between the two commutes with one of
  them). The clock is published before the last drain too.
* **Scoreboard.** The two optional halves of an output pair are sets of at most
  one element. Warm-up, seeding of `seen_pairs` with 0/0, window and the
  duty-above-100 check are as in the code. `TellCheckers` is what each `write`
  tells watchdog and timing checker; the inversion checker is composed with its
  events in `PriorityInversion`. `actuator_checks`, `coherence_checks`, `heartbeat_count`
  and the like are printed and read by nothing; they are left out.
* **Clocks.** Detector and timing checker count in units of 64 ns, the largest
  in which a millisecond is whole (15625) and the 32-bit wrap too (2^26). The
  cast of a double beyond 32 bits to `unsigned int` is undefined in C++; on the
  x86-64 build it keeps the low 32 bits, and that is what the models do.
* **Benchmarks.** An increment of a `volatile long` is a load and a store. A run
  is a record: who increments, with the mutex or not, each its own counter or
  all one, how often. `Create(Main)` stands for main entering its own loop.
* **Operators called mutants** stand beside the operator they would replace.
  They are wrong variants, used by no specification; a property is worth having
  only if one of them breaks it.

## 3. Runs

All runs finish in under five minutes with two workers; `supervised`, with 7.4
million states, takes about three minutes, `inversion`, with 4.4 million, one and
a half, the others seconds to a minute.
Types are checked by a run where they bound something the code cuts or counts
(`GroupBTypeOK`, `DutBridgeTypeOK`, `DetectorTypeOK`, `TimingTypeOK`); all type
invariants are proved.

| Run | Instance | What it shows |
|---|---|---|
| `control_law` | 18..42 degrees in eighths, setpoints 22, 25, 28, humidities at limit-1, limit, limit+1 | firmware and scoreboard compute the same outputs; the pump only runs when the alarm LED is on; the fan moves by at most 1 % per eighth of a degree inside the band. Every edge of every comparison, on both sides, is among the inputs |
| `protected_b` | sensor, control, comm; 2 loops; stubs | types, mutual exclusion, owner is inside, holder table, termination, refinement of `AtomicController` |
| `system_b` | sensor, control; 2 loops; SENSOR, CONTROL_IN, PWM, GPIO; no warm-up; window 2 | no torn reads; fan before pump; the output check only rejects outputs of the reset state |
| `polling_b` | comm, alarm; 2 loops; TARGET 28 then RESET 22; creations may fail | mailbox and polling loop: nothing taken twice, nothing empty, the value of a mixed command at most one command older than its type; `run_phase` ends unless a creation fails; `EventChannel` is implemented |
| `coherence_a` | sensor, control of Group A; 2 loops; warm-up 1 | torn reads are counted exactly after the warm-up |
| `polling_a` | logger, comm of Group A; 2 loops; TARGET 28 then RESET 22; creations may fail | the scoreboard follows the firmware's setpoint to the target and back to the default, as long as the driver stores nothing while the callback loads (`SetpointFollowed`); at the join nothing is left and every thread was created and has returned |
| `supervised` | sensor, alarm of Group A; 2 loops; 20 and 36 degrees; timeout 2000 ms, period 1500 ms, 3 periods (4.5 s: past the wrap) | watchdog and timing checker are fed as their specifications assume (`FeedsDetector`, `FeedsTimingChecker`); no early flag, none on a finished task, every stall noticed before the wrap, every task heard of; crossings add up, no latency exceeds real time |
| `stimulus` | 4 items, 6 reads | FIFO exactly once and in order; a mixed reading lags by at most one item |
| `inversion` | logger, sensor, alarm of Group B; 1 loop; waits of 51 at threshold 50 | who is blamed uses the mutex: sensor and logger meet the alarm task at `sensor_data`, only the logger at `alarm_state` |
| `benchmarks` | 3 threads, 3 increments each, 4 by main alone | the mutex loses nothing; without it between 2 and all increments are left; a thread alone with its counter loses none; both programs end |
| `reset_b` | comm of Group B, one RESET with a value | **violated**: `SetpointTracked` |
| `stall_default` | 2 tasks, timeout 5000 ms | **violated**: `StallFlagged` |

### Bounds and why they are enough

* *Tasks.* A property about a pair of tasks needs the two and whoever shares
  their variables. Sensor and control share `sensor_data`, control and comm
  `target_temp`, logger and alarm `alarm_state`, logger and control
  `actuators`. Over all runs every task of both builds runs. The safety
  properties and the refinement of Group B are proved for all five.
  `system_b` has no alarm task and a window that forgets nothing: that LED events
  and readings that left the window are judged as claimed rests on the theorems
  `OnlyForgottenIsRejected` and `OnlyTheColdStartIsRejected`.
* *Loops.* Two iterations let a task meet the state another left in the
  iteration before, and let two readings differ; `inversion` needs
  one, since its question is about a single wait. In `polling_a` two let
  `comm_task` take the target and then the reset, or mix them.
* *Readings.* Two pairs that differ in both components and, with the reset
  pair, drive every output to both of its values. `protected_b` uses one, which
  differs from the reset pair in both components, so a torn pair is visible.
* *Window and warm-up.* A window of 2 holds all readings of 2 loops;
  warm-up 0 and 1 put judging at its earliest and make the switch happen.
  (Defaults: 5 and 20.)
* *Time.* `supervised` goes past the wrap of the 32-bit clock. `period_ms` is
  coarser than the code's millisecond so that this is three periods;
  `MaxPeriods` bounds the clock, which then stands still while the rest goes on.
  What the run shows of the checkers by themselves is proved for every period,
  timeout and number of periods.
* *Benchmarks.* Three threads with three increments: the smallest instance with
  a store that is older than a whole loop of another thread, while a third runs.
* `CHECK_DEADLOCK FALSE` is given only where a run stops at such a bound
  (`stall_default`). The firmware and the systems never stop without having
  ended: `AllReturned`, `Joined`, `StimulusDone` and `Finished` are explicit
  stuttering steps, and deadlock is checked. A failed creation leaves the poller
  polling for good, which is what the code does.

### Fairness

`GroupBSpec` and the systems assume weak fairness of each thread (the operating
system schedules it; the code never relies on more), of `Main`, and of
`Bridge` (the SystemC kernel keeps running `run_phase`). A mutex may be taken
again and again by others while a thread waits, but every loop is finite, so
weak fairness is enough. The drivers have no fairness: nothing obliges a
sequence to send another item, and nothing waits for one. `RunPhaseEnds` is
conditional: it says nothing of a run in which a thread could not be created,
which does not end. `Benchmarks` assumes weak fairness of main and of each thread.

### The two violated properties

* `reset_b`: Group B's `CMD_RESET` stores `command.value` in `target_temp`
  (`src/dut/group_b/comm_task_safe.c:85`), Group A and the scoreboard go back to
  the default. The stub's reset carries 0, so the protected build then
  regulates to 0 degrees. One reset and no other command: no race is needed.
  Group A follows a reset (`polling_a`); it loses track only by the mailbox
  race, which a single TARGET is enough for: the driver stores the type before
  the value (`tb/agents/comm_agent/comm_driver.h:35-36`), so the callback may
  copy the old value for the firmware and load the new one for the event.
* `stall_default`: the watchdog's clock wraps at 4294 ms and its timeout is
  5000 ms, so the difference it tests never exceeds the timeout
  (`tb/checker/deadlock_detector.h:65`). The theorem `DefaultNeverFlags` says so
  for every such timeout. `supervised` shows it works with a shorter one.

### Other statements that the code does not keep

These definitions state what a document or comment says. They are in the
modules with that comment, and TLC refutes each when it takes the place of the
properties in the named configuration; they are not runs of the project.

| Definition | Configuration | What happens |
|---|---|---|
| `SystemB!NoMismatches` | `system_b.cfg` | an output of the reset state is judged against readings that came after; the protected build gets mismatches |
| `SystemA!SetpointTracked` | `polling_a.cfg` | the driver stores a value between the callback's two loads of it; the scoreboard takes another setpoint than the firmware, until the next command |
| `SystemB!MonitorSeesCommand` | `polling_b.cfg` | the mailbox is loaded twice; the event may carry another command than the firmware got |
| `DeadlockDetector!StickyUntilReset` | `supervised.cfg` | a late heartbeat or completion takes the flag back |
| `DeadlockDetector!FlagIsReported` | `supervised.cfg` | at the report every task has finished, so no flag is left |
| `Stimulus!CoherentAtSource` | `stimulus.cfg` | the fallback can return a pair that no item has |
| `Stimulus!AllStimulusDelivered` | `stimulus.cfg`, `Reads = 4` | a read on an empty FIFO uses up an iteration, items are left over |
| `TimingChecker!MaxCoversEachCrossing` | `TimingSpec`, period 1 ms, 3 periods, 264 and 288 eighths | a second crossing overwrites the first one's timestamp |
| `PriorityInversion!SuspiciousWaitsAreLong` | `inversion.cfg` | 51 microseconds are reported as more than 50 ms |

## 4. Proofs

Checked by TLAPS for every value of the constants that the named assumptions
allow.

| Theorem | States |
|---|---|
| `GroupBProofs!GroupBTypes` | `GroupBTypeOK` |
| `GroupBProofs!ProtectedAccesses`, `NoHoldAndWait` | `MutualExclusion`, `OwnerIsInside` |
| `GroupBProofs!HolderTableSound`, `NoSelfBlame` | `HolderOwnsMutex`, `HolderIsAnother` |
| `GroupBProofs!Refinement` | `ImplementsAtomic` |
| `SystemBProofs!NoTornReadReported` | `NoTornReads`, when SENSOR events are registered |
| `SystemBProofs!PairsAreOfOneIteration` | `FanComesFirst`, when PWM and GPIO events are registered |
| `SystemBProofs!RaceInventsNoCommand` | `NoEmptyCommand`, when the script holds no empty command |
| `SystemBProofs!OnlyForgottenIsRejected` | an output the scoreboard rejects is the right one for a pair it knows (a reading it was told, or the reset state) that is not in its window; when SENSOR, PWM and GPIO events, and COMM events if `comm_task` runs, are registered, and the script moves no setpoint |
| `SystemBProofs!OnlyTheColdStartIsRejected` | `OnlyColdStartRejected`, when besides the window holds as many readings as there are loops |
| `SystemBProofs!CommandsAreNotRepeated`, `MixedCommandKeepsUp` | `CommandTakenOnce`, `CommandKeepsUp` |
| `SystemBProofs!SetpointIsTracked` | `SetpointTracked` of every run in which the monitor sees each command as `comm_task` got it, when COMM events are registered and the script has no reset |
| `SystemBProofs!TestbenchTyped`, `SystemAProofs!TestbenchTyped` | `DutBridgeTypeOK` |
| `SystemBProofs!EverythingIsDelivered`, `ChannelIsImplemented` | `NothingLeftBehind`, `ImplementsChannel` |
| `SystemAProofs!FirmwareTyped` | `FirmwareTypeOK` |
| `SystemAProofs!NoFalseTornRead` | `OnlyTornReadsCounted`, when SENSOR events are registered and no two readings share a humidity |
| `SystemAProofs!NoTornReadMissed` | `EveryTornReadCounted` |
| `SystemAProofs!EverythingIsDelivered`, `ChannelIsImplemented` | `NothingLeftBehind`, `ImplementsChannel` |
| `SystemAProofs!OnlyTheRaceLosesTrack` | `SetpointTracked` of every run in which each COMM event tells the command that `comm_task` was given, when COMM events are registered |
| `SystemAProofs!SetpointIsFollowed` | `SetpointFollowed`, when COMM events are registered |
| `SystemAProofs!WatchdogIsFed` | `FeedsDetector`, when TASK_DONE events are registered |
| `SystemAProofs!TimingCheckerIsFed` | `FeedsTimingChecker` |
| `SystemAProofs!AllAreTracked` | `AllTracked`, when SENSOR, GPIO, LOG, HEARTBEAT and TASK_DONE events are registered |
| `TestbenchProofs!DetectorTyped`, `NoFalseAlarms`, `StallsNoticed`, `NothingToReport` | `DetectorTypeOK`, `NoFalseStall`, `StallNoticed`, `FinishedIsNotStalled` |
| `TestbenchProofs!DefaultNeverFlags` | no task is ever flagged when the timeout is at least 4294 ms |
| `TestbenchProofs!TimingTyped`, `CrossingsAddUp`, `LatencyNotExaggerated` | `TimingTypeOK`, `CrossingsAccounted`, `NoExaggeratedLatency` |
| `TestbenchProofs!StimulusTyped`, `FifoIsFaithful`, `HumidityIsFresh` | `StimulusTypeOK`, `EachItemOnce`, `HumidityKeepsUp` |
| `TestbenchProofs!ReferenceModelIsFaithful`, `WateredAirIsAlarmed`, `FanIsSmooth` | `ReferenceModelAgrees`, `PumpIsAlarmed`, `FanMovesSmoothly` |
| `InversionProofs!InversionTyped`, `BlameIsPlausible` | `InversionTypeOK`, `BlamedTaskUsesMutex` |
| `BenchProofs!BenchmarkTyped`, `MutexLosesNothing`, `LossesAreBounded`, `AloneIsExact` | `BenchmarkTypeOK`, `ProtectedIsExact`, `LossIsBounded`, `OnlySharingLoses` |

**Assumptions.** `FirmwareAssumption` (tasks are among the five, at least one
loop, readings are pairs of integers), `BridgeAssumption` (COMM and HEARTBEAT
are registered together, as one callback makes both), `GroupAAssumption` and
`GroupBAssumption` (the build), `ScoreboardAssumption`, `DutBridgeAssumption`
(creations may fail or not), `ClockAssumption` (a period is at least a
millisecond), `DetectorAssumption`, `TimingAssumption`, `StimulusAssumption`,
`InversionAssumption`, `ClimateAssumption`, `BenchmarkAssumption`. They type the
constants; TLC evaluates all of them. The conditions in the table's second
column are hypotheses of the theorems themselves.

**Locks.** Mutual exclusion is not inductive: it says nothing of the owner. The
invariant `LockInv` adds that a task owns a mutex exactly while it is between
`lock` and `unlock` on it, that the holder table names a task only from `mark`
to `unmark`, and that a task's remembered holder is not itself. Lemmas in
`FirmwareProofs` say once how each form of step changes places and stages, and
that no statement touches a lock; what is left per action is one case of
`Section` or `Unlock`.

**Refinement.** A section with two accesses takes effect at the first. While the
task is between the two, the mapped variable already has what the second will
give it. `HalfInv` says what the first access has done, and the lock invariant
that nobody else has touched the variable since.

**The event channel.** `ChannelInv` says that `active` is the number of threads
that were created, or should have been, and have not counted themselves out,
and what each place of the poller implies: no thread is uncreated once polling
has begun, all have returned once the loop is left, the queue is empty after the
last swap. Every step of a thread either says nothing, or appends one event of
its own, or is `SignalDone` or `Exit` (`ThreadIsChannelStep`, proved for each
build); that is all `ChannelProofs` needs to know of the firmware. Both
`NothingLeftBehind` and the refinement of `EventChannel`, in which `Stream`, the
batch followed by the queue, is the transit, follow. A thread that was not
created keeps its phase "talking" for ever, so that the channel never closes.

**No torn reads (B).** The queue, the batch and the two tasks in their sections
form one stream of events. `FullInv` and `CoherenceInv` say that every pair
control can have loaded, holds or has reported is 0/0, or a pair that has been
delivered, or has a SENSOR event standing before the CONTROL_IN event in that
stream. Delivery takes from the front, a push adds to the back, a drain moves
the boundary; none reverses an order. The mutex makes control load a whole pair,
and the SENSOR event is pushed inside the sensor's section, before the humidity
is stored, hence before control can load that pair.

**Torn reads (A).** Without the mutex a pair is anything, but its humidity is
that of some reading whose SENSOR event was pushed before the humidity was
stored (`TornInv`). So a pair that is a reading is the one with that humidity,
and its event stands before the control input in the stream: it is known when
it is judged. Conversely the scoreboard only ever knows readings and 0/0
(`OnlyReadingsKnown`), so a torn pair is always counted.

**Fan and pump.** Along the stream fan and pump events take turns, from the
scoreboard's end (does a fan wait for its pump) to the firmware's (is
`control_task` at the pump): `FanInv` is that there is such a colouring of the
stream, which a push extends and a delivery shortens.

**Mailbox.** Only `comm_task` empties the mailbox and only at its last step, so
from its test on the type is a command, whichever; each later load of it is one
too (`MailInv`). That no command is taken twice needs counting (`TakenInv`): the
COMM events in the stream are no more than the commands injected, and fewer
while one is in the mailbox or read from it but not yet reported (`Unposted`).
`CommandTakenOnce` counts the events in the batch and the queue, not those that
have been delivered: a drain may be delayed at will, so a run in which none has
been delivered is among those it speaks of. What a mixed command can be is
`KeepInv`: the driver's two globals hold the type of one command and the value of
that or the one before, and the callback, which goes to the type first, only
finds the value newer.

**The setpoint.** What is due is the firmware's setpoint, or what `comm_task` will
make of a command that has been reported and not yet stored (`Due`). `Tracks`
says that the last event in the stream that tells a setpoint tells that one, or
that there is none and the scoreboard is there. A delivery moves the front and
the scoreboard together, a push the back. Two things break
it, and the theorems name each: the event was built from a second load of the
mailbox, which the driver may have refilled (a hypothesis on the run, the only
one for Group A), and Group B stores a reset's value where the scoreboard takes
the default (no reset in the script). When all is delivered the stream is empty.

**Rejected outputs (B).** The output check judges an output against the readings
in the window, not against the one it was computed from. `Judgeable` colours the
stream with the duty that waits at each point, as `FanInv` does with whether one
waits: each pump event, with its duty, and each LED event is what the control
law makes of a pair that the scoreboard will know by then. The colouring starts
at the scoreboard's `pending_fan` and ends with the duty of `control_task`'s
present iteration. It is extended because a task that computes outputs has a
pair that is known or on its way (`InformedInv`, from the order argument of the
torn reads), and because firmware and scoreboard stay at the default setpoint
(`SettledInv`); the reference model gives a pair's own outputs. So what is
rejected is stale, never wrong: the pair has left the window, or is the reset
state, which is in `seen_pairs` but in no window. This holds with the real
constants (a window of 5, 10000 loops), where the output of a task that lags by
five readings or more may be rejected too. For the property as `system_b` checks it, `WindowInv`
counts: the readings in the window and in the stream are no more than the
sensor's loops, so a window of that size forgets none. TLC refutes it with a
window of 1 and 2 loops, so that hypothesis is needed.

**Types of the testbench.** That a drained duty is at most 100 and a pin 0 or 1
is about `control_task` and `alarm_task`: `BoardInv` gives each event in the
stream the range of the value it was made from.

**Feeding the checkers.** A supervised step is a step of `SystemA` or leaves it
alone, so what is proved of the firmware and the bridge holds here too. For the
watchdog, `FeedInv` is about the stream: none of its events is of a task marked
finished, none stands behind its task's TASK_DONE, and each task past its
TASK_DONE is marked or has it in the stream; when the run phase has ended the
stream is empty, so all are marked. For the timing checker, `StampInv` pairs
each event with its stamp: ascending, between the last one delivered and the
clock published last, of two clocks only, and all of the present clock while a
batch is delivered, since the clock was published before the swap. For
`AllTracked`, `HeardInv` says that a task past its first HAL call is tracked or
has a heartbeat in the stream. `FeedsDetector` and `FeedsTimingChecker` say that
the checkers' own specifications are implemented, so the theorems below, proved
of those, hold of the composition for any constants.

**Detector and timing checker.** The last heartbeat is the wrapped millisecond of
the full time the task was heard at; a difference of two wrapped clocks that is
positive is never more than the real one, and equal to it until the wrap. For
the timing checker the stamp of the last crossing is the cut of a time between
the first crossing and the last stamp.

**Stimulus.** `DriverInv`, `HeldInv` and `SampledInv` follow the two globals: the
humidity global is never older than the item before the temperature's, at each
of the driver's and the callback's steps.

**Inversion.** A holder that was looked up is a task that was in the section of
that mutex; `Routes` says which tasks go through which sections, `WaitsQueued`
carries it through the queue.

**Benchmarks.** The increments stored so far are a set (`Done`). With the mutex
the counter is its cardinality; without, a loaded value is at most the
cardinality, which only grows. With several increments each the counter is at
least 2 once every thread is past its first: it can only be 1 while some thread
is at its first increment or has just stored it (`NotFarBehind`). The
cardinality at the result is threads times increments.

**Only model-checked.** Liveness (`Termination`, `RunPhaseEnds`,
`BenchmarksEnd`), which needs fairness and ENABLED; the quoted claims whose runs
expect a violation.

## 5. What is not modelled

* Of the watchdog: `reset`, which nothing calls, and a tick that differs from the
  poll's millisecond, which no test configures.
* The data-integrity checker: two range comparisons and two counters that
  nothing depends on.
* Coverage bins: counters that only the report reads. Their delay is a difference
  of event sequence numbers (`drain_to_monitors` passes `sequence_id` where the
  item has `timestamp_ns`) and their critical corner asks for a priority of at
  most 1, where every SENSOR item is given `PRIORITY_SENSOR`, which is 3; a
  property of them would be a constant.
* Of `main_b.c`: that it ignores the result of `pthread_create` and would set the
  priority of, and join, an unset `pthread_t`. In `protected_b` and `inversion`,
  which run the build stand-alone, every creation succeeds; `Termination` is
  about such runs. (`main_a.c` tests the result and exits. Under the testbench
  `SpawnFails` is modelled.)
* The length of the event queue, which the code does not limit: threads push at
  the speed of the processor, the bridge drains once per simulated millisecond.
* Of the benchmarks: times, cache lines, pinning, and a thread that cannot be
  created (ignored there too: the run would join an unset `pthread_t`).
* Items, monitors, sequencers, tests, environment: they copy fields, choose
  numbers and connect components. Their effect is `Script`, `Items`, `Readings`.
* Core pinning and priorities: the models allow every schedule.
* Campaign scripts, build rules, generated results.
* Wording and number formats of reports. Where a report's verdict matters
  (detector) its condition is modelled.

## 6. Plan

Order: the protected firmware first, because every other claim leans on its
locks; then the testbench around it, the contrast with Group A, the checkers.

Done: all modules of section 2 and the theorems of section 4.

Left, in this order:

1. `Stimulus` composed with `GroupA` and the scoreboard: which torn pairs come
   from the source and which from the firmware.
2. `Supervised` over Group B, where waiting for a mutex delays a heartbeat.
3. The rejections of the actuator and comm monitors.
4. Theorems: rejected outputs when commands move the setpoint, which needs the
   setpoint in the colouring of the stream.
