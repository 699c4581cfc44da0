------------------------------ MODULE DutBridge ------------------------------
(***************************************************************************)
(* dut_bridge::run_phase: create the firmware's threads, while one of them *)
(* is alive drain the event queue into the monitors, then drain it once    *)
(* more and join.  A drain swaps the whole queue into a local deque under  *)
(* the queue's mutex and delivers the events with the mutex free, so that  *)
(* the firmware goes on pushing.                                           *)
(***************************************************************************)
EXTENDS Firmware, Scoreboard

CONSTANT CreationMayFail   \* whether pthread_create may return an error

ASSUME DutBridgeAssumption == CreationMayFail \in BOOLEAN

VARIABLES
  poller,   \* where run_phase is
  batch     \* drain_to_monitors' local deque, the delivered ones removed

PollerStates == {"spawn", "check", "swap", "deliver", "final_swap",
                 "final_deliver", "joined"}

dutBridgeVars == <<poller, batch, scoreboardVars>>

DutBridgeTypeOK ==
  /\ poller \in PollerStates
  /\ batch \in Seq(Events)
  /\ ScoreboardTypeOK

DutBridgeInit == poller = "spawn" /\ batch = <<>> /\ ScoreboardInit

(* The for loop over the five tasks is over.                               *)
StartPolling ==
  /\ poller = "spawn"
  /\ poller' = "check"
  /\ UNCHANGED <<bridgeVars, batch, scoreboardVars>>

(* Mutant: no drain after the last thread.                              *)
CheckActiveAndLeave ==
  /\ poller = "check"
  /\ poller' = IF active > 0 THEN "swap" ELSE "joined"
  /\ UNCHANGED <<bridgeVars, batch, scoreboardVars>>

(* Mutant: the loop also runs when no thread is left.                   *)
CheckActiveForever ==
  /\ poller = "check"
  /\ poller' = IF active >= 0 THEN "swap" ELSE "final_swap"
  /\ UNCHANGED <<bridgeVars, batch, scoreboardVars>>

(* while (active_dut_threads() > 0), once per simulated millisecond.       *)
CheckActive ==
  /\ poller = "check"
  /\ poller' = IF active > 0 THEN "swap" ELSE "final_swap"
  /\ UNCHANGED <<bridgeVars, batch, scoreboardVars>>

DrainSwap ==
  /\ poller \in {"swap", "final_swap"}
  /\ batch' = queue
  /\ queue' = <<>>
  /\ poller' = IF poller = "swap" THEN "deliver" ELSE "final_deliver"
  /\ UNCHANGED <<active, mailbox, scoreboardVars>>

Deliver ==
  /\ poller \in {"deliver", "final_deliver"}
  /\ batch # <<>>
  /\ WriteEvent(Head(batch))
  /\ batch' = Tail(batch)
  /\ UNCHANGED <<bridgeVars, poller>>

EndDrain ==
  /\ poller \in {"deliver", "final_deliver"}
  /\ batch = <<>>
  /\ poller' = IF poller = "deliver" THEN "check" ELSE "joined"
  /\ UNCHANGED <<bridgeVars, batch, scoreboardVars>>

Poller == CheckActive \/ DrainSwap \/ Deliver \/ EndDrain

(* run_phase creates the threads, then polls; the ones created first run.  *)
CreateThreads ==
  /\ poller = "spawn"
  /\ \/ \E t \in Tasks : Spawn(t) /\ UNCHANGED dutBridgeVars
     \/ \E t \in Tasks : CreationMayFail /\ SpawnFails(t) /\ UNCHANGED dutBridgeVars
     \/ Unspawned = {} /\ StartPolling /\ UNCHANGED <<where, globals, locals>>

RunPhase ==
  \/ CreateThreads
  \/ Poller /\ UNCHANGED <<where, globals, locals>>

(* The events on their way to the scoreboard, in the order of delivery.    *)
Stream == batch \o queue

-----------------------------------------------------------------------------
(* When run_phase joins the threads every event they pushed has been       *)
(* delivered - the last drain comes after the last TASK_DONE - and each of *)
(* them was created and has returned: no unset pthread_t is ever joined.   *)
NothingLeftBehind == poller = "joined" => queue = <<>> /\ AllReturned

(* run_phase gets to its end and the objection is dropped, unless a thread *)
(* could not be created.                                                   *)
RunPhaseEnds == [](Failed = {}) => <>(poller = "joined")

(* Between the firmware's pushes and the monitors' writes the queue, the   *)
(* drains and the count of live threads make one reliable ordered channel, *)
(* which is closed when run_phase joins the threads.                       *)
PhaseOf(t) == CASE place[t] = "returned" -> "left"
                [] place[t] = "exit" -> "silent"
                [] OTHER -> "talking"

Channel == INSTANCE EventChannel WITH
  Writers <- Tasks,
  transit <- Stream,
  phase <- [t \in Tasks |-> PhaseOf(t)],
  closed <- (poller = "joined")

ImplementsChannel == Channel!Spec
=============================================================================
