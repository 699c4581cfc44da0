--------------------------- MODULE DeadlockDetector ---------------------------
(***************************************************************************)
(* deadlock_detector: the watchdog the scoreboard feeds with one heartbeat *)
(* per delivered event, and a probe of its own that looks for silence.     *)
(* The handlers are those of the class; DetectorNext calls them the way    *)
(* the scoreboard may: nothing comes from a task after its TASK_DONE, and  *)
(* the report after the TASK_DONE of all.  Supervised shows that this is   *)
(* what the testbench does.                                                *)
(***************************************************************************)
EXTENDS SimClock

CONSTANTS
  Monitored,   \* the task ids that send events
  timeout_ms

ASSUME DetectorAssumption == timeout_ms \in Nat

VARIABLES
  probed,              \* the probe has checked since the clock moved
  tracked,             \* the keys of last_heartbeat_ms
  last_heartbeat_ms,
  stalled_tasks,
  finished_tasks,
  verdict,             \* what report_phase prints
  alive_at,            \* history: when each task was heard last, in full
  flagged              \* history: the tasks that were ever flagged

detectorVars == <<time, probed, tracked, last_heartbeat_ms, stalled_tasks,
                  finished_tasks, verdict, alive_at, flagged>>

DetectorTypeOK ==
  /\ time \in Nat /\ probed \in BOOLEAN
  /\ tracked \subseteq Monitored
  /\ last_heartbeat_ms \in [Monitored -> 0 .. MS_MAX]
  /\ stalled_tasks \subseteq Monitored
  /\ finished_tasks \subseteq Monitored
  /\ verdict \in {"running", "no deadlock", "deadlock"}
  /\ alive_at \in [Monitored -> Nat]
  /\ flagged \subseteq Monitored

(* The probe begins by waiting: there is nothing to check at time 0.       *)
DetectorInit ==
  /\ time = 0 /\ probed = TRUE
  /\ tracked = {}
  /\ last_heartbeat_ms = [t \in Monitored |-> 0]
  /\ stalled_tasks = {}
  /\ finished_tasks = {}
  /\ verdict = "running"
  /\ alive_at = [t \in Monitored |-> 0]
  /\ flagged = {}

(* Mutant: an inverted timestamp wraps to a huge difference.               *)
IdleInverted(known, last) ==
  {t \in known \ finished_tasks :
     Millis(time) < last[t] \/ Millis(time) - last[t] > timeout_ms}

(* What check finds: tasks heard of, not finished and silent for too long. *)
(* An inverted timestamp is ignored.                                       *)
Idle(known, last) ==
  {t \in known \ finished_tasks :
     /\ Millis(time) >= last[t]
     /\ Millis(time) - last[t] > timeout_ms}

Flag(stalled) ==
  /\ stalled_tasks' = stalled
  /\ flagged' = flagged \cup stalled

-----------------------------------------------------------------------------
Heard(t) ==
  /\ tracked' = tracked \cup {t}
  /\ last_heartbeat_ms' = [last_heartbeat_ms EXCEPT ![t] = Millis(time)]
  /\ alive_at' = [alive_at EXCEPT ![t] = time]
  /\ UNCHANGED <<time, probed, finished_tasks, verdict>>

(* An event is delivered: heartbeat, which unflags the task, then check.   *)
Observe(t) ==
  /\ Heard(t)
  /\ Flag((stalled_tasks \ {t}) \cup Idle(tracked', last_heartbeat_ms'))

(* A control input is a heartbeat with no check.                           *)
ObserveControlInput(t) ==
  /\ Heard(t)
  /\ Flag(stalled_tasks \ {t})

(* Mutant: a finished task keeps its flag.                                 *)
MarkFinishedFlagged(t) ==
  /\ finished_tasks' = finished_tasks \cup {t}
  /\ UNCHANGED <<time, probed, tracked, last_heartbeat_ms, stalled_tasks, verdict,
                 alive_at, flagged>>

(* The task's thread has returned: its TASK_DONE event, its last one.      *)
MarkFinished(t) ==
  /\ finished_tasks' = finished_tasks \cup {t}
  /\ stalled_tasks' = stalled_tasks \ {t}
  /\ UNCHANGED <<time, probed, tracked, last_heartbeat_ms, verdict, alive_at,
                 flagged>>

(* The clock moves when every SystemC process waits: the probe has checked.*)
NextPeriod ==
  /\ probed /\ verdict = "running"
  /\ Wait
  /\ probed' = FALSE
  /\ UNCHANGED <<tracked, last_heartbeat_ms, stalled_tasks, finished_tasks,
                 verdict, alive_at, flagged>>

(* Mutant: the probe does not check.                                       *)
ProbeUnchecked ==
  /\ ~probed /\ verdict = "running"
  /\ probed' = TRUE
  /\ UNCHANGED <<time, tracked, last_heartbeat_ms, stalled_tasks, finished_tasks,
                 verdict, alive_at, flagged>>

(* The silence probe, after its wait: check.                               *)
Probe ==
  /\ ~probed /\ verdict = "running"
  /\ probed' = TRUE
  /\ Flag(stalled_tasks \cup Idle(tracked, last_heartbeat_ms))
  /\ UNCHANGED <<time, tracked, last_heartbeat_ms, finished_tasks, verdict,
                 alive_at>>

Report ==
  /\ verdict = "running"
  /\ verdict' = IF stalled_tasks # {} THEN "deadlock" ELSE "no deadlock"
  /\ UNCHANGED <<time, probed, tracked, last_heartbeat_ms, stalled_tasks,
                 finished_tasks, alive_at, flagged>>

DetectorNext ==
  \/ \E t \in Monitored \ finished_tasks :
       /\ verdict = "running"
       /\ Observe(t) \/ ObserveControlInput(t) \/ MarkFinished(t)
  \/ NextPeriod
  \/ Probe
  \/ finished_tasks = Monitored /\ Report

DetectorSpec == DetectorInit /\ [][DetectorNext]_detectorVars

-----------------------------------------------------------------------------
Silent(t) == time - alive_at[t]

(* A flag is never raised early: a flagged task has really been silent for *)
(* longer than the timeout, wrapped clock or not.                          *)
NoFalseStall ==
  \A t \in stalled_tasks : Silent(t) > timeout_ms * MS_UNITS

(* A finished task is not flagged, so nothing is left to report.           *)
FinishedIsNotStalled == stalled_tasks \cap finished_tasks = {}

(* As long as the clock does not wrap, a task that is heard once and then  *)
(* silent for longer than the timeout is flagged by the next probe, though *)
(* some of the handlers do not call check.                                 *)
StallNoticed ==
  \A t \in tracked \ finished_tasks :
    /\ probed
    /\ (alive_at[t] % UINT_UNITS) + Silent(t) < UINT_UNITS
    /\ Silent(t) >= (timeout_ms + 1) * MS_UNITS
    => t \in stalled_tasks

(* defect_log.md D4: a genuine mid-run stall is flagged.                   *)
StallFlagged ==
  \A t \in tracked \ finished_tasks :
    probed /\ Silent(t) >= (timeout_ms + 1) * MS_UNITS => t \in stalled_tasks

(* deadlock_detector.h: the flagged tasks are "sticky until reset", and    *)
(* nothing calls reset.                                                    *)
StickyUntilReset == flagged \subseteq stalled_tasks

(* collect_results.py: "1 if the detector flagged a stall, else 0", read   *)
(* off what report_phase prints.                                           *)
FlagIsReported == verdict = "no deadlock" => flagged = {}
=============================================================================
