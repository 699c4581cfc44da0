---------------------------- MODULE ChannelProofs ----------------------------
(***************************************************************************)
(* The bridge implements the event channel, whatever the firmware: a proof *)
(* from what a step of a firmware thread may do to the queue.              *)
(***************************************************************************)
EXTENDS DutBridge, FirmwareProofs, SequenceTheorems, FiniteSetTheorems

(* Pushing appends to the stream, delivering takes its head, and a swap    *)
(* leaves it as it is.                                                     *)
LEMMA StreamOf ==
  ASSUME NEW b \in Seq(Events), NEW q \in Seq(Events)
  PROVE  /\ b \o q \in Seq(Events)
         /\ \A e \in Events : b \o Append(q, e) = Append(b \o q, e)
         /\ b # <<>> => /\ b \o q # <<>>
                        /\ Head(b \o q) = Head(b)
                        /\ Tail(b \o q) = Tail(b) \o q
         /\ b = <<>> => b \o q = q /\ q \o <<>> = q
<1>1. b \o q \in Seq(Events)
  BY ConcatProperties
<1>2. ASSUME NEW e \in Events
      PROVE  b \o Append(q, e) = Append(b \o q, e)
  <2>1. /\ Append(q, e) = q \o <<e>> /\ <<e>> \in Seq(Events)
        /\ Append(b \o q, e) = (b \o q) \o <<e>>
    BY <1>1, AppendIsConcat
  <2> QED
    BY <2>1, ConcatAssociative
<1>3. ASSUME b # <<>>
      PROVE  /\ b \o q # <<>>
             /\ Head(b \o q) = Head(b)
             /\ Tail(b \o q) = Tail(b) \o q
  <2>1. Len(b) \in Nat /\ Len(b) >= 1 /\ Len(q) \in Nat
    BY <1>3, EmptySeq, LenProperties
  <2>2. /\ Len(b \o q) = Len(b) + Len(q)
        /\ \A i \in 1 .. Len(b) + Len(q) :
             (b \o q)[i] = IF i <= Len(b) THEN b[i] ELSE q[i - Len(b)]
    BY ConcatProperties
  <2>3. b \o q # <<>>
    BY <2>1, <2>2
  <2>4. Head(b \o q) = Head(b)
    BY <1>1, <1>3, <2>1, <2>2, <2>3
  <2>5. /\ Tail(b \o q) \in Seq(Events) /\ Len(Tail(b \o q)) = Len(b) + Len(q) - 1
        /\ \A i \in 1 .. Len(b) + Len(q) - 1 : Tail(b \o q)[i] = (b \o q)[i + 1]
    BY <1>1, <2>2, <2>3, HeadTailProperties
  <2>6. /\ Tail(b) \in Seq(Events) /\ Len(Tail(b)) = Len(b) - 1
        /\ \A i \in 1 .. Len(b) - 1 : Tail(b)[i] = b[i + 1]
    BY <1>3, HeadTailProperties
  <2>7. /\ Tail(b) \o q \in Seq(Events)
        /\ Len(Tail(b) \o q) = Len(b) - 1 + Len(q)
        /\ \A i \in 1 .. Len(b) - 1 + Len(q) : (Tail(b) \o q)[i] =
             IF i <= Len(b) - 1 THEN Tail(b)[i] ELSE q[i - (Len(b) - 1)]
    BY <2>6, ConcatProperties
  <2>8. \A i \in 1 .. Len(b) + Len(q) - 1 : Tail(b \o q)[i] = (Tail(b) \o q)[i]
    BY <2>1, <2>2, <2>5, <2>6, <2>7
  <2>9. Tail(b \o q) = Tail(b) \o q
    BY <2>1, <2>5, <2>7, <2>8, SeqEqual
  <2> QED
    BY <2>3, <2>4, <2>9
<1>4. b = <<>> => b \o q = q /\ q \o <<>> = q
  BY ConcatEmptySeq
<1> QED
  BY <1>1, <1>2, <1>3, <1>4

LEMMA PushedIsEvent ==
  ASSUME queue \in Seq(Events), queue' \in Seq(Events),
         NEW e, Push(e), e.type \in Registered
  PROVE  e \in Events /\ queue' = Append(queue, e)
<1> DEFINE Any == Events \cup {e}
<1>1. queue' = Append(queue, e)
  BY DEF Push
<1>2. queue \in Seq(Any) /\ e \in Any
  OBVIOUS
<1> HIDE DEF Any
<1>3. Len(queue') = Len(queue) + 1 /\ queue'[Len(queue) + 1] = e
  BY <1>1, <1>2, AppendProperties
<1>4. Len(queue) \in Nat
  BY LenProperties
<1>5. Len(queue) + 1 \in 1 .. Len(queue')
  BY <1>3, <1>4
<1>6. queue'[Len(queue) + 1] \in Events
  BY <1>5, ElementOfSeq
<1> QED
  BY <1>1, <1>3, <1>6

-----------------------------------------------------------------------------
(***************************************************************************)
(* What a step of a thread does to the channel: while its task function    *)
(* runs it sends at most one event, in its own name and not TASK_DONE;     *)
(* then it signs off and leaves.                                           *)
(***************************************************************************)
Running == Places \ {"unspawned", "exit", "returned", "failed"}

Speaks(t) ==
  /\ place[t] \in Running \ {"done"}
  /\ \E p \in Running : place' = [place EXCEPT ![t] = p]
  /\ active' = active
  /\ \/ queue' = queue
     \/ \E e : e.task_id = t /\ e.type # "TASK_DONE" /\ Push(e)

ChannelStep(t) == Speaks(t) \/ SignalDone(t) \/ Exit(t)

(* The steps of a task function that speak.                                *)
Keeps(t) == \E p \in Running : place' = [place EXCEPT ![t] = p]

LEMMA StayKeeps ==
  ASSUME WhereTypeOK, NEW t \in Tasks, place[t] \in Running, NEW s, Stay(t, s)
  PROVE  Keeps(t)
BY DEF Keeps, Stay, WhereTypeOK

LEMMA GotoKeeps ==
  ASSUME NEW t, NEW p \in Running, Goto(t, p)
  PROVE  Keeps(t)
BY DEF Keeps, Goto

LEMMA EndIterationKeeps ==
  ASSUME NEW t, EndIteration(t)
  PROVE  Keeps(t)
<1> DEFINE p == IF iter[t] + 1 < Loops THEN Start(t) ELSE "done"
<1>1. p \in Running
  BY DEF Start, Running, Places, Shared
<1>2. place' = [place EXCEPT ![t] = p]
  BY DEF EndIteration
<1> QED
  BY <1>1, <1>2 DEF Keeps

LEMMA SharedIsRunning == Shared \subseteq Running \ {"done"}
BY DEF Shared, Running, Places

LEMMA CallSpeaks ==
  ASSUME NEW t \in Tasks, place[t] \in Running \ {"done"}, Keeps(t),
         NEW e, e.task_id = t, e.type # "TASK_DONE", Call(e)
  PROVE  Speaks(t)
BY DEF Speaks, Keeps, Call

(* hal_uart_rx sends a heartbeat, a COMM event or nothing.                 *)
LEMMA UartSpeaks ==
  ASSUME WhereTypeOK, COMM \in Tasks, UartRx
  PROVE  Speaks(COMM)
<1>1. {"uart", "target_temp", "system_enabled"} \subseteq Running \ {"done"}
  BY DEF Running, Places, Shared
<1>2. place[COMM] = "uart" /\ Keeps(COMM)
  BY <1>1, StayKeeps, GotoKeeps, EndIterationKeeps
     DEF UartRx, UartStub, UartPoll, UartCheck, UartCopyType,
     UartCopyValue, UartEventType, UartEvent, UartConsume, Dispatch, At
<1>3. /\ active' = active
      /\ \/ queue' = queue
         \/ Push(SignalEvent("HEARTBEAT", COMM))
         \/ Push(ValueEvent("COMM", COMM, event_type, dvr_command_value))
  BY DEF UartRx, UartStub, UartPoll, UartCheck, UartCopyType,
     UartCopyValue, UartEventType, UartEvent, UartConsume, Call, bridgeVars
<1>4. /\ SignalEvent("HEARTBEAT", COMM).task_id = COMM
      /\ SignalEvent("HEARTBEAT", COMM).type # "TASK_DONE"
      /\ ValueEvent("COMM", COMM, event_type, dvr_command_value).task_id = COMM
      /\ ValueEvent("COMM", COMM, event_type, dvr_command_value).type # "TASK_DONE"
  BY DEF SignalEvent, ValueEvent
<1> QED
  BY <1>1, <1>2, <1>3, <1>4 DEF Speaks, Keeps

(***************************************************************************)
(* The inductive invariant: active counts the threads that were created or *)
(* should have been and have not returned, and where the poller is tells   *)
(* which of them are left and what is still to be delivered.               *)
(***************************************************************************)
Counted == {t \in AllTasks : place[t] \notin {"unspawned", "returned"}}

ChannelTypes == WhereTypeOK /\ BridgeTypeOK

ChannelInv ==
  /\ batch \in Seq(Events)
  /\ poller \in PollerStates
  /\ \A t \in AllTasks \ Tasks : place[t] = "returned"
  /\ active = Cardinality(Counted)
  /\ poller \notin {"deliver", "final_deliver"} => batch = <<>>
  /\ poller # "spawn" => Unspawned = {}
  /\ poller \in {"final_swap", "final_deliver", "joined"} => AllReturned
  /\ poller \in {"final_deliver", "joined"} => queue = <<>>

LEMMA CountedIsFinite == IsFiniteSet(Counted)
<1>1. LOGGER \in Int /\ ALARM \in Int
  BY DEF LOGGER, ALARM
<1>2. IsFiniteSet(AllTasks)
  BY <1>1, FS_Interval DEF AllTasks
<1> QED
  BY <1>2, FS_Subset DEF Counted

LEMMA ChannelInvInit ==
  ASSUME FirmwareInit, DutBridgeInit
  PROVE  ChannelInv
<1>1. Counted = {}
  BY FirmwareAssumption DEF FirmwareInit, Counted
<1>2. active = Cardinality(Counted)
  BY <1>1, FS_EmptySet DEF FirmwareInit, BridgeInit
<1> QED
  BY <1>2 DEF FirmwareInit, BridgeInit, DutBridgeInit, ChannelInv, PollerStates

(* A step of a thread is a step of the channel.                            *)
LEMMA ThreadKeepsChannel ==
  ASSUME ChannelTypes, ChannelTypes', ChannelInv, NEW t \in Tasks,
         ChannelStep(t), UNCHANGED dutBridgeVars
  PROVE  ChannelInv'
<1>1. /\ t \in AllTasks /\ place \in [AllTasks -> Places]
      /\ UNCHANGED <<batch, poller>>
  BY FirmwareAssumption DEF ChannelTypes, WhereTypeOK, dutBridgeVars
<1>2. place[t] \notin {"unspawned", "returned"} /\ ~AllReturned /\ t \in Counted
  BY <1>1 DEF ChannelStep, Speaks, SignalDone, Exit, At, Running, AllReturned, Counted
<1>3. PICK p \in Running \cup {"exit", "returned"} :
        /\ place' = [place EXCEPT ![t] = p]
        /\ active' = IF p = "returned" THEN active - 1 ELSE active
  <2>1. CASE Speaks(t)
    <3>1. PICK p \in Running : place' = [place EXCEPT ![t] = p]
      BY <2>1 DEF Speaks
    <3>2. p # "returned" /\ active' = active
      BY <2>1, <3>1 DEF Speaks, Running
    <3> QED
      BY <3>1, <3>2
  <2>2. CASE SignalDone(t)
    <3>1. place' = [place EXCEPT ![t] = "exit"] /\ active' = active
      BY <2>2 DEF SignalDone, Goto, Call
    <3> WITNESS "exit" \in Running \cup {"exit", "returned"}
    <3> QED
      BY <3>1
  <2>3. CASE Exit(t)
    BY <2>3 DEF Exit, Goto
  <2> QED
    BY <2>1, <2>2, <2>3 DEF ChannelStep
<1>4. active' = Cardinality(Counted')
  <2>1. CASE p = "returned"
    <3>1. Counted' = Counted \ {t}
      BY <1>1, <1>3, <2>1 DEF Counted
    <3> QED
      BY <1>2, <1>3, <2>1, <3>1, CountedIsFinite, FS_RemoveElement DEF ChannelInv
  <2>2. CASE p # "returned"
    <3>1. Counted' = Counted
      BY <1>1, <1>2, <1>3, <2>2 DEF Counted, Running
    <3> QED
      BY <1>3, <2>2, <3>1 DEF ChannelInv
  <2> QED
    BY <2>1, <2>2
<1>5. Unspawned' = Unspawned
  BY <1>1, <1>2, <1>3 DEF Unspawned, Running
<1>6. \A u \in AllTasks \ Tasks : place'[u] = "returned"
  BY <1>1, <1>3 DEF ChannelInv
<1> QED
  BY <1>1, <1>2, <1>4, <1>5, <1>6 DEF ChannelInv

(* The creation of a thread, successful or not.                            *)
LEMMA CreationKeepsChannel ==
  ASSUME ChannelTypes, ChannelTypes', ChannelInv, CreateThreads
  PROVE  ChannelInv'
<1>1. CASE StartPolling /\ Unspawned = {} /\ UNCHANGED <<where, globals, locals>>
  BY <1>1 DEF StartPolling, ChannelInv, PollerStates, bridgeVars, where, Counted,
     Unspawned
<1>2. ASSUME NEW t \in Tasks, Spawn(t) \/ SpawnFails(t), UNCHANGED dutBridgeVars,
             poller = "spawn"
      PROVE  ChannelInv'
  <2>1. PICK p \in Places \ {"unspawned", "returned"} :
          /\ place[t] = "unspawned" /\ place' = [place EXCEPT ![t] = p]
          /\ active' = active + 1 /\ queue' = queue
    BY <1>2 DEF Spawn, SpawnFails, Creation, Goto, Start, Places, Shared
  <2>2. /\ t \in AllTasks /\ place \in [AllTasks -> Places]
        /\ UNCHANGED <<batch, poller>>
    BY <1>2, FirmwareAssumption DEF ChannelTypes, WhereTypeOK, dutBridgeVars
  <2>3. Counted' = Counted \cup {t} /\ t \notin Counted
    BY <2>1, <2>2 DEF Counted
  <2>4. active' = Cardinality(Counted')
    BY <2>1, <2>3, CountedIsFinite, FS_AddElement DEF ChannelInv
  <2>5. \A u \in AllTasks \ Tasks : place'[u] = "returned"
    BY <2>1, <2>2 DEF ChannelInv
  <2> QED
    BY <1>2, <2>1, <2>2, <2>4, <2>5 DEF ChannelInv
<1> QED
  BY <1>1, <1>2 DEF CreateThreads

(* The poller leaves its loop when it finds active at zero: then no thread *)
(* is left that could push.                                                *)
LEMMA PollerKeepsChannel ==
  ASSUME ChannelTypes, ChannelTypes', ChannelInv, Poller,
         UNCHANGED <<where, globals, locals>>
  PROVE  ChannelInv'
<1>1. place' = place /\ Counted' = Counted /\ Unspawned' = Unspawned
      /\ (AllReturned' <=> AllReturned)
  BY DEF where, Counted, Unspawned, AllReturned
<1>2. CASE CheckActive
  <2>1. Unspawned = {} /\ batch = <<>> /\ UNCHANGED <<bridgeVars, batch>>
    BY <1>2 DEF CheckActive, ChannelInv
  <2>2. CASE active > 0
    BY <1>1, <1>2, <2>1, <2>2 DEF CheckActive, ChannelInv, PollerStates, bridgeVars
  <2>3. CASE ~(active > 0)
    <3>1. Cardinality(Counted) \in Nat
      BY CountedIsFinite, FS_CardinalityType
    <3>2. Counted = {}
      BY <2>3, <3>1, CountedIsFinite, FS_EmptySet DEF ChannelInv
    <3>3. AllReturned
      BY <2>1, <3>2 DEF Counted, Unspawned, AllReturned
    <3> QED
      BY <1>1, <1>2, <2>1, <2>3, <3>3
         DEF CheckActive, ChannelInv, PollerStates, bridgeVars
  <2> QED
    BY <2>2, <2>3
<1>3. CASE DrainSwap
  BY <1>1, <1>3 DEF DrainSwap, ChannelInv, ChannelTypes, BridgeTypeOK,
     PollerStates
<1>4. CASE Deliver
  <2>1. Tail(batch) \in Seq(Events)
    BY <1>4, HeadTailProperties DEF Deliver, ChannelInv
  <2> QED
    BY <1>1, <1>4, <2>1 DEF Deliver, ChannelInv, PollerStates, bridgeVars
<1>5. CASE EndDrain
  BY <1>1, <1>5 DEF EndDrain, ChannelInv, PollerStates, bridgeVars
<1> QED
  BY <1>2, <1>3, <1>4, <1>5 DEF Poller

LEMMA PollerKeepsBridge ==
  ASSUME BridgeTypeOK, StartPolling \/ Poller
  PROVE  BridgeTypeOK'
<1>1. CASE DrainSwap
  <2>1. queue' \in Seq(Events)
    BY <1>1 DEF DrainSwap
  <2> QED
    BY <1>1, <2>1 DEF BridgeTypeOK, DrainSwap, mailbox
<1>2. CASE UNCHANGED bridgeVars
  BY <1>2 DEF BridgeTypeOK, bridgeVars
<1> QED
  BY <1>1, <1>2 DEF StartPolling, Poller, CheckActive, Deliver, EndDrain

LEMMA IdleKeepsChannel ==
  ASSUME ChannelInv, UNCHANGED <<where, queue, active, batch, poller>>
  PROVE  ChannelInv'
BY DEF ChannelInv, where, Counted, Unspawned, AllReturned

LEMMA ChannelInvImplies == ChannelInv => NothingLeftBehind
BY DEF ChannelInv, NothingLeftBehind

-----------------------------------------------------------------------------
(***************************************************************************)
(* Refinement: the steps of the bridge are steps of the channel.           *)
(***************************************************************************)
Phases == [t \in Tasks |-> PhaseOf(t)]

LEMMA ChannelInit ==
  ASSUME FirmwareInit, DutBridgeInit
  PROVE  Channel!Init
<1>1. batch \o queue = <<>>
  BY StreamOf DEF FirmwareInit, BridgeInit, DutBridgeInit
<1>2. \A t \in Tasks : PhaseOf(t) = "talking"
  BY FirmwareAssumption DEF FirmwareInit, PhaseOf
<1>3. poller # "joined"
  BY DEF DutBridgeInit
<1> QED
  BY <1>1, <1>2, <1>3 DEF Channel!Init, Stream

(* A pushed event goes to the end of what is on its way, if its type has a *)
(* callback.                                                               *)
LEMMA PushCarries ==
  ASSUME ChannelTypes, ChannelTypes', ChannelInv, UNCHANGED batch,
         NEW t, NEW e, Push(e), e.task_id = t, NEW farewell \in BOOLEAN,
         (e.type = "TASK_DONE") = farewell
  PROVE  Stream' = Stream \/ Channel!Carries(t, farewell)
<1>1. queue \in Seq(Events) /\ queue' \in Seq(Events) /\ batch \in Seq(Events)
  BY DEF ChannelTypes, BridgeTypeOK, ChannelInv
<1>2. CASE e.type \notin Registered
  BY <1>2 DEF Push, Stream
<1>3. CASE e.type \in Registered
  <2>1. e \in Events /\ queue' = Append(queue, e)
    BY <1>1, <1>3, PushedIsEvent
  <2>2. Stream \in Seq(Events) /\ Stream' = Append(Stream, e)
    BY <1>1, <2>1, StreamOf DEF Stream
  <2> HIDE DEF Stream
  <2>3. /\ Len(Stream) \in Nat /\ Len(Stream') = Len(Stream) + 1
        /\ Stream'[Len(Stream')] = e
    BY <2>1, <2>2, AppendProperties, LenProperties
  <2>4. /\ Len(Stream') > 0 /\ Stream' = Append(Stream, Stream'[Len(Stream')])
        /\ Stream'[Len(Stream')].task_id = t
        /\ (Stream'[Len(Stream')].type = "TASK_DONE") = farewell
    BY <2>2, <2>3
  <2> QED
    BY <2>4 DEF Channel!Carries, Stream
<1> QED
  BY <1>2, <1>3

LEMMA ThreadIsChannelNext ==
  ASSUME ChannelTypes, ChannelTypes', ChannelInv, NEW t \in Tasks,
         ChannelStep(t), UNCHANGED dutBridgeVars
  PROVE  [Channel!Next]_(Channel!vars)
<1>1. /\ t \in AllTasks /\ Tasks \subseteq AllTasks
      /\ place \in [AllTasks -> Places] /\ UNCHANGED <<batch, poller>>
  BY FirmwareAssumption DEF ChannelTypes, WhereTypeOK, dutBridgeVars
<1>2. CASE Speaks(t)
  <2>1. PICK p \in Running : place' = [place EXCEPT ![t] = p]
    BY <1>2 DEF Speaks
  <2>2. PhaseOf(t) = "talking" /\ \A u \in Tasks : PhaseOf(u)' = PhaseOf(u)
    BY <1>1, <1>2, <2>1 DEF Speaks, Running, PhaseOf
  <2>3. Phases' = Phases /\ Phases[t] = "talking"
    BY <2>2 DEF Phases
  <2>4. Stream' = Stream \/ Channel!Carries(t, FALSE)
    <3>1. CASE queue' = queue
      BY <1>1, <3>1 DEF Stream
    <3>2. ASSUME NEW e, e.task_id = t, e.type # "TASK_DONE", Push(e)
          PROVE  Stream' = Stream \/ Channel!Carries(t, FALSE)
      BY <1>1, <3>2, PushCarries
    <3> QED
      BY <1>2, <3>1, <3>2 DEF Speaks
  <2>5. CASE Stream' = Stream
    BY <1>1, <2>3, <2>5 DEF Channel!vars, Phases, Stream
  <2>6. CASE Channel!Carries(t, FALSE)
    <3>1. Channel!Send(t)
      BY <1>1, <2>3, <2>6 DEF Channel!Send, Phases
    <3> QED
      BY <3>1 DEF Channel!Next
  <2> QED
    BY <2>4, <2>5, <2>6
<1>3. CASE SignalDone(t)
  <2>1. /\ place[t] = "done" /\ place' = [place EXCEPT ![t] = "exit"]
        /\ Push(SignalEvent("TASK_DONE", t))
    BY <1>3 DEF SignalDone, At, Goto, Call
  <2>2. /\ PhaseOf(t) = "talking" /\ PhaseOf(t)' = "silent"
        /\ \A u \in Tasks : u # t => PhaseOf(u)' = PhaseOf(u)
    BY <1>1, <2>1 DEF PhaseOf
  <2>3. Phases[t] = "talking" /\ Phases' = [Phases EXCEPT ![t] = "silent"]
    BY <2>2 DEF Phases
  <2>4. Stream' = Stream \/ Channel!Carries(t, TRUE)
    <3>1. /\ SignalEvent("TASK_DONE", t).task_id = t
          /\ SignalEvent("TASK_DONE", t).type = "TASK_DONE"
      BY DEF SignalEvent, ValueEvent
    <3> QED
      BY <1>1, <2>1, <3>1, PushCarries
  <2>5. Channel!SignOff(t)
    BY <1>1, <2>3, <2>4 DEF Channel!SignOff, Phases, Stream
  <2> QED
    BY <2>5 DEF Channel!Next
<1>4. CASE Exit(t)
  <2>1. /\ place[t] = "exit" /\ place' = [place EXCEPT ![t] = "returned"]
        /\ queue' = queue
    BY <1>4 DEF Exit, At, Goto
  <2>2. /\ PhaseOf(t) = "silent" /\ PhaseOf(t)' = "left"
        /\ \A u \in Tasks : u # t => PhaseOf(u)' = PhaseOf(u)
    BY <1>1, <2>1 DEF PhaseOf
  <2>3. Phases[t] = "silent" /\ Phases' = [Phases EXCEPT ![t] = "left"]
    BY <2>2 DEF Phases
  <2>4. Channel!Leave(t)
    BY <1>1, <2>1, <2>3 DEF Channel!Leave, Phases, Stream
  <2> QED
    BY <2>4 DEF Channel!Next
<1> QED
  BY <1>2, <1>3, <1>4 DEF ChannelStep

LEMMA SamePhases ==
  ASSUME place' = place
  PROVE  Phases' = Phases
BY DEF Phases, PhaseOf

LEMMA IdleIsStutter ==
  ASSUME UNCHANGED <<where, queue, batch, poller>>
  PROVE  UNCHANGED Channel!vars
BY SamePhases DEF where, Channel!vars, Phases, Stream

LEMMA CreationIsStutter ==
  ASSUME ChannelTypes, CreateThreads
  PROVE  UNCHANGED Channel!vars
<1>1. CASE StartPolling /\ UNCHANGED where
  <2>1. UNCHANGED <<queue, batch>> /\ Phases' = Phases
    BY <1>1, SamePhases DEF StartPolling, bridgeVars, where
  <2>2. (poller' = "joined") = (poller = "joined")
    BY <1>1 DEF StartPolling
  <2> QED
    BY <2>1, <2>2 DEF Channel!vars, Phases, Stream
<1>2. ASSUME NEW t \in Tasks, Spawn(t) \/ SpawnFails(t), UNCHANGED dutBridgeVars
      PROVE  UNCHANGED Channel!vars
  <2>1. PICK p \in Places \ {"exit", "returned"} :
          place[t] = "unspawned" /\ place' = [place EXCEPT ![t] = p]
    BY <1>2 DEF Spawn, SpawnFails, Creation, Goto, Start, Places, Shared
  <2>2. \A u \in Tasks : PhaseOf(u)' = PhaseOf(u)
    BY <2>1, FirmwareAssumption DEF ChannelTypes, WhereTypeOK, PhaseOf
  <2>3. Phases' = Phases
    BY <2>2 DEF Phases
  <2> QED
    BY <1>2, <2>3 DEF Spawn, SpawnFails, Creation, dutBridgeVars, Channel!vars,
       Phases, Stream
<1> QED
  BY <1>1, <1>2 DEF CreateThreads

LEMMA PollerIsChannelNext ==
  ASSUME ChannelTypes, ChannelInv, Poller, UNCHANGED <<where, globals, locals>>
  PROVE  [Channel!Next]_(Channel!vars)
<1>1. Phases' = Phases
  BY SamePhases DEF where
<1>2. queue \in Seq(Events) /\ batch \in Seq(Events)
  BY DEF ChannelTypes, BridgeTypeOK, ChannelInv
<1>3. CASE CheckActive
  <2>1. UNCHANGED <<queue, batch>> /\ (poller' = "joined") = (poller = "joined")
    BY <1>3 DEF CheckActive, bridgeVars
  <2> QED
    BY <1>1, <2>1 DEF Channel!vars, Phases, Stream
<1>4. CASE DrainSwap
  <2>1. Stream' = Stream
    BY <1>2, <1>4, StreamOf DEF DrainSwap, Stream, ChannelInv
  <2>2. (poller' = "joined") = (poller = "joined")
    BY <1>4 DEF DrainSwap
  <2> QED
    BY <1>1, <2>1, <2>2 DEF Channel!vars, Phases, Stream
<1>5. CASE Deliver
  <2>1. /\ batch # <<>> /\ batch' = Tail(batch) /\ queue' = queue
        /\ poller' = poller
    BY <1>5 DEF Deliver, bridgeVars
  <2>2. Stream # <<>> /\ Stream' = Tail(Stream)
    BY <1>2, <2>1, StreamOf DEF Stream
  <2>3. Channel!Receive
    BY <1>1, <2>1, <2>2 DEF Channel!Receive, Phases, Stream
  <2> QED
    BY <2>3 DEF Channel!Next
<1>6. CASE EndDrain
  <2>1. batch = <<>> /\ UNCHANGED <<queue, batch>>
    BY <1>6 DEF EndDrain, bridgeVars
  <2>2. CASE poller = "deliver"
    <3>1. (poller' = "joined") = (poller = "joined")
      BY <1>6, <2>2 DEF EndDrain
    <3> QED
      BY <1>1, <2>1, <3>1 DEF Channel!vars, Phases, Stream
  <2>3. CASE poller = "final_deliver"
    <3>1. queue = <<>> /\ \A t \in Tasks : Phases[t] = "left"
      BY <2>3, FirmwareAssumption DEF ChannelInv, AllReturned, Phases, PhaseOf
    <3>2. batch \o queue = <<>>
      BY <2>1, <3>1, StreamOf, <1>2
    <3>3. poller # "joined" /\ poller' = "joined"
      BY <1>6, <2>3 DEF EndDrain
    <3>4. Channel!Close
      BY <1>1, <2>1, <3>1, <3>2, <3>3 DEF Channel!Close, Phases, Stream
    <3> QED
      BY <3>4 DEF Channel!Next
  <2> QED
    BY <1>6, <2>2, <2>3 DEF EndDrain
<1> QED
  BY <1>3, <1>4, <1>5, <1>6 DEF Poller

-----------------------------------------------------------------------------
(***************************************************************************)
(* What the scoreboard knows when a control input is delivered.            *)
(***************************************************************************)
(***************************************************************************)
(* Stream holds the events on their way, in the order of delivery.          *)
(* A pair is known at position k of a stream when the scoreboard will have *)
(* seen it by the time the event at k is delivered; a stream is in order   *)
(* when every control input in it whose pair is in scope is known at its   *)
(* place.                                                                  *)
(***************************************************************************)
KnownAt(s, seen, pair, k) ==
  pair \in seen \/ \E i \in 1 .. k : s[i].type = "SENSOR" /\ s[i].pair = pair

Known(pair) == KnownAt(Stream, seen_pairs, pair, Len(Stream))

InOrder(s, seen, scope) ==
  \A k \in 1 .. Len(s) :
    s[k].type = "CONTROL_IN" /\ s[k].pair \in scope
      => KnownAt(s, seen, s[k].pair, k - 1)

LEMMA AppendedEvent ==
  ASSUME NEW s \in Seq(Events), NEW seen, NEW scope, NEW e \in Events
  PROVE  /\ \A pair : KnownAt(s, seen, pair, Len(s))
              => KnownAt(Append(s, e), seen, pair, Len(Append(s, e)))
         /\ e.type = "SENSOR"
              => KnownAt(Append(s, e), seen, e.pair, Len(Append(s, e)))
         /\ /\ InOrder(s, seen, scope)
            /\ e.type = "CONTROL_IN" /\ e.pair \in scope => KnownAt(s, seen, e.pair, Len(s))
            => InOrder(Append(s, e), seen, scope)
<1> DEFINE a == Append(s, e)
<1>1. /\ Len(s) \in Nat /\ Len(a) = Len(s) + 1 /\ a[Len(s) + 1] = e
      /\ \A i \in 1 .. Len(s) : a[i] = s[i]
  BY AppendProperties, LenProperties
<1> HIDE DEF a
<1>2. \A pair, k : k \in 0 .. Len(s) /\ KnownAt(s, seen, pair, k)
        => KnownAt(a, seen, pair, k)
  BY <1>1 DEF KnownAt
<1>3. \A pair : KnownAt(a, seen, pair, Len(s)) => KnownAt(a, seen, pair, Len(a))
  BY <1>1 DEF KnownAt
<1>4. e.type = "SENSOR" => KnownAt(a, seen, e.pair, Len(a))
  BY <1>1 DEF KnownAt
<1>5. ASSUME InOrder(s, seen, scope),
             e.type = "CONTROL_IN" /\ e.pair \in scope => KnownAt(s, seen, e.pair, Len(s))
      PROVE  InOrder(a, seen, scope)
  <2> SUFFICES ASSUME NEW k \in 1 .. Len(a), a[k].type = "CONTROL_IN",
                      a[k].pair \in scope
               PROVE  KnownAt(a, seen, a[k].pair, k - 1)
    BY DEF InOrder
  <2>1. CASE k = Len(s) + 1
    <3>1. KnownAt(s, seen, e.pair, Len(s))
      BY <1>1, <1>5, <2>1
    <3>2. KnownAt(a, seen, e.pair, Len(s))
      BY <1>1, <1>2, <3>1
    <3> QED
      BY <1>1, <2>1, <3>2
  <2>2. CASE k # Len(s) + 1
    <3>1. k \in 1 .. Len(s) /\ a[k] = s[k] /\ k - 1 \in 0 .. Len(s)
      BY <1>1, <2>2
    <3>2. KnownAt(s, seen, s[k].pair, k - 1)
      BY <1>5, <3>1 DEF InOrder
    <3> QED
      BY <1>2, <3>1, <3>2
  <2> QED
    BY <2>1, <2>2
<1> QED
  BY <1>1, <1>2, <1>3, <1>4, <1>5 DEF a

LEMMA DeliveredEvent ==
  ASSUME NEW s \in Seq(Events), s # <<>>, NEW seen, NEW now, NEW scope,
         seen \subseteq now,
         Head(s).type = "SENSOR" => Head(s).pair \in now
  PROVE  /\ \A pair : KnownAt(s, seen, pair, Len(s))
              => KnownAt(Tail(s), now, pair, Len(Tail(s)))
         /\ InOrder(s, seen, scope) => InOrder(Tail(s), now, scope)
         /\ InOrder(s, seen, scope) /\ Head(s).type = "CONTROL_IN"
              /\ Head(s).pair \in scope => Head(s).pair \in seen
<1> DEFINE r == Tail(s)
<1>1. /\ Len(s) \in Nat /\ Len(s) >= 1 /\ Len(r) = Len(s) - 1
      /\ Head(s) = s[1]
      /\ \A i \in 1 .. Len(r) : r[i] = s[i + 1]
  BY HeadTailProperties, LenProperties, EmptySeq
<1> HIDE DEF r
<1>2. ASSUME NEW pair, NEW k \in 1 .. Len(s), KnownAt(s, seen, pair, k)
      PROVE  KnownAt(r, now, pair, k - 1)
  <2>1. CASE pair \in seen
    BY <2>1 DEF KnownAt
  <2>2. ASSUME NEW i \in 1 .. k, s[i].type = "SENSOR", s[i].pair = pair
        PROVE  KnownAt(r, now, pair, k - 1)
    <3>1. CASE i = 1
      BY <1>1, <2>2, <3>1 DEF KnownAt
    <3>2. CASE i # 1
      <4>1. i - 1 \in 1 .. k - 1 /\ r[i - 1] = s[i]
        BY <1>1, <3>2
      <4> QED
        BY <2>2, <4>1 DEF KnownAt
    <3> QED
      BY <3>1, <3>2
  <2> QED
    BY <1>2, <2>1, <2>2 DEF KnownAt
<1>3. \A pair : KnownAt(s, seen, pair, Len(s)) => KnownAt(r, now, pair, Len(r))
  BY <1>1, <1>2
<1>4. ASSUME InOrder(s, seen, scope)
      PROVE  InOrder(r, now, scope)
  <2> SUFFICES ASSUME NEW k \in 1 .. Len(r), r[k].type = "CONTROL_IN",
                      r[k].pair \in scope
               PROVE  KnownAt(r, now, r[k].pair, k - 1)
    BY DEF InOrder
  <2>1. k + 1 \in 1 .. Len(s) /\ r[k] = s[k + 1] /\ k \in 1 .. Len(s)
    BY <1>1
  <2>2. KnownAt(s, seen, r[k].pair, k)
    BY <1>4, <2>1 DEF InOrder
  <2> QED
    BY <1>2, <2>1, <2>2
<1>5. InOrder(s, seen, scope) /\ Head(s).type = "CONTROL_IN"
       /\ Head(s).pair \in scope => Head(s).pair \in seen
  BY <1>1 DEF InOrder, KnownAt
<1> QED
  BY <1>3, <1>4, <1>5 DEF r

(* What a push does to the stream, in the words of KnownAt and InOrder.    *)
LEMMA PushedEvent ==
  ASSUME batch \in Seq(Events), queue \in Seq(Events), queue' \in Seq(Events),
         UNCHANGED <<batch, seen_pairs>>, NEW scope, InOrder(Stream, seen_pairs, scope),
         NEW e, Push(e),
         e.type = "CONTROL_IN" /\ e.pair \in scope => Known(e.pair)
  PROVE  /\ InOrder(Stream', seen_pairs', scope)
         /\ \A pair : Known(pair)
              => KnownAt(Stream', seen_pairs', pair, Len(Stream'))
         /\ e.type = "SENSOR" /\ "SENSOR" \in Registered
              => KnownAt(Stream', seen_pairs', e.pair, Len(Stream'))
<1>1. CASE e.type \notin Registered
  <2>1. Stream' = Stream /\ seen_pairs' = seen_pairs
    BY <1>1 DEF Push, Stream
  <2> QED
    BY <1>1, <2>1 DEF Known
<1>2. CASE e.type \in Registered
  <2>1. queue' = Append(queue, e) /\ e \in Events
    BY <1>2, PushedIsEvent
  <2>3. Stream \in Seq(Events) /\ Stream' = Append(Stream, e)
    BY <2>1, StreamOf DEF Stream
  <2>4. seen_pairs' = seen_pairs
    OBVIOUS
  <2> HIDE DEF Stream
  <2> QED
    BY <2>1, <2>3, <2>4, AppendedEvent DEF Known
<1> QED
  BY <1>1, <1>2

-----------------------------------------------------------------------------
(* A write() method adds a delivered reading to seen_pairs, forgets none,  *)
(* and counts a torn read only for a pair that is not there.               *)
LEMMA WriteSeen ==
  ASSUME NEW event, WriteEvent(event)
  PROVE  /\ seen_pairs \subseteq seen_pairs'
         /\ event.type = "SENSOR" => event.pair \in seen_pairs'
         /\ \A p \in seen_pairs' :
              p \in seen_pairs \/ (event.type = "SENSOR" /\ p = event.pair)
         /\ \/ torn_reads' = torn_reads
            \/ event.type = "CONTROL_IN" /\ event.pair \notin seen_pairs
<1>1. \/ event.type = "SENSOR" /\ WriteSensor(event.pair)
      \/ event.type = "CONTROL_IN" /\ WriteControlInput(event.pair)
      \/ /\ event.type \notin {"SENSOR", "CONTROL_IN"}
         /\ \/ WritePwm(event.value)
            \/ WriteGpioPump(event.value)
            \/ WriteGpioLed(event.value)
            \/ WriteComm(event.of, event.value)
            \/ WriteOther
  BY Zenon DEF WriteEvent
<1>2. CASE WriteSensor(event.pair) /\ event.type = "SENSOR"
  BY <1>2 DEF WriteSensor
<1>3. CASE WriteControlInput(event.pair) /\ event.type = "CONTROL_IN"
  BY <1>3 DEF WriteControlInput
<1>4. CASE /\ event.type \notin {"SENSOR", "CONTROL_IN"}
           /\ \/ WritePwm(event.value)
              \/ WriteGpioPump(event.value)
              \/ WriteGpioLed(event.value)
              \/ WriteComm(event.of, event.value)
              \/ WriteOther
  BY <1>4 DEF WritePwm, WriteGpioPump, WriteGpioLed, WriteComm, WriteOther,
     scoreboardVars
<1> QED
  BY <1>1, <1>2, <1>3, <1>4

(* Conversely, only readings on their way or delivered are known.          *)
LEMMA AppendedKnown ==
  ASSUME NEW s \in Seq(Events), NEW seen, NEW e \in Events, NEW pair,
         KnownAt(Append(s, e), seen, pair, Len(Append(s, e)))
  PROVE  KnownAt(s, seen, pair, Len(s)) \/ (e.type = "SENSOR" /\ pair = e.pair)
<1> DEFINE a == Append(s, e)
<1>1. /\ Len(s) \in Nat /\ Len(a) = Len(s) + 1 /\ a[Len(s) + 1] = e
      /\ \A i \in 1 .. Len(s) : a[i] = s[i]
  BY AppendProperties, LenProperties
<1>2. KnownAt(a, seen, pair, Len(a))
  OBVIOUS
<1> HIDE DEF a
<1> QED
  BY <1>1, <1>2 DEF KnownAt

LEMMA DeliveredKnown ==
  ASSUME NEW s \in Seq(Events), s # <<>>, NEW seen, NEW now, NEW pair,
         \A p \in now : p \in seen \/ (Head(s).type = "SENSOR" /\ p = Head(s).pair),
         KnownAt(Tail(s), now, pair, Len(Tail(s)))
  PROVE  KnownAt(s, seen, pair, Len(s))
<1> DEFINE r == Tail(s)
<1>1. /\ Len(s) \in Nat /\ Len(s) >= 1 /\ Len(r) = Len(s) - 1
      /\ Head(s) = s[1]
      /\ \A i \in 1 .. Len(r) : r[i] = s[i + 1]
  BY HeadTailProperties, LenProperties, EmptySeq
<1>2. KnownAt(r, now, pair, Len(r))
  OBVIOUS
<1> HIDE DEF r
<1>3. CASE pair \in now
  BY <1>1, <1>3 DEF KnownAt
<1>4. ASSUME NEW i \in 1 .. Len(r), r[i].type = "SENSOR", r[i].pair = pair
      PROVE  KnownAt(s, seen, pair, Len(s))
  <2>1. i + 1 \in 1 .. Len(s) /\ r[i] = s[i + 1]
    BY <1>1
  <2> QED
    BY <1>4, <2>1 DEF KnownAt
<1> QED
  BY <1>2, <1>3, <1>4 DEF KnownAt

-----------------------------------------------------------------------------
(***************************************************************************)
(* The number of events of one type in a stream.                           *)
(***************************************************************************)
Sent(type, s) == {k \in 1 .. Len(s) : s[k].type = type}

LEMMA SentFinite ==
  ASSUME NEW type, NEW s \in Seq(Events)
  PROVE  /\ IsFiniteSet(Sent(type, s))
         /\ Cardinality(Sent(type, s)) \in Nat
<1>1. Len(s) \in Nat
  BY LenProperties
<1>2. IsFiniteSet(1 .. Len(s)) /\ Sent(type, s) \in SUBSET (1 .. Len(s))
  BY <1>1, FS_Interval DEF Sent
<1>3. IsFiniteSet(Sent(type, s))
  BY <1>2, FS_Subset
<1> QED
  BY <1>3, FS_CardinalityType

LEMMA SentAppend ==
  ASSUME NEW type, NEW s \in Seq(Events), NEW e \in Events
  PROVE  Cardinality(Sent(type, Append(s, e)))
           = Cardinality(Sent(type, s)) + (IF e.type = type THEN 1 ELSE 0)
<1>1. /\ Len(s) \in Nat /\ Len(Append(s, e)) = Len(s) + 1
      /\ Append(s, e)[Len(s) + 1] = e
      /\ \A k \in 1 .. Len(s) : Append(s, e)[k] = s[k]
  BY AppendProperties, LenProperties
<1>2. Len(s) + 1 \notin Sent(type, s)
  BY <1>1 DEF Sent
<1>3. IsFiniteSet(Sent(type, s)) /\ Cardinality(Sent(type, s)) \in Nat
  BY SentFinite
<1>4. CASE e.type = type
  <2>1. Sent(type, Append(s, e)) = Sent(type, s) \cup {Len(s) + 1}
    BY <1>1, <1>4 DEF Sent
  <2> QED
    BY <1>2, <1>3, <1>4, <2>1, FS_AddElement
<1>5. CASE e.type # type
  <2>1. Sent(type, Append(s, e)) = Sent(type, s)
    BY <1>1, <1>5 DEF Sent
  <2> QED
    BY <1>3, <1>5, <2>1
<1> QED
  BY <1>4, <1>5

(* Taking the head leaves one event less, if it was of that type.          *)
LEMMA SentTail ==
  ASSUME NEW type, NEW s \in Seq(Events), s # <<>>
  PROVE  /\ Cardinality(Sent(type, Tail(s))) <= Cardinality(Sent(type, s))
         /\ Head(s).type = type =>
              Cardinality(Sent(type, Tail(s))) + 1 <= Cardinality(Sent(type, s))
<1> DEFINE shift == [k \in Sent(type, Tail(s)) |-> k + 1]
           later == Sent(type, s) \ {1}
<1>1. /\ Len(s) \in Nat \ {0} /\ Len(Tail(s)) = Len(s) - 1 /\ Head(s) = s[1]
      /\ \A k \in 1 .. Len(s) - 1 : Tail(s)[k] = s[k + 1]
  BY HeadTailProperties, LenProperties, EmptySeq
<1>2. \A k \in Sent(type, Tail(s)) : k \in Nat /\ k + 1 \in later
  BY <1>1 DEF Sent
<1>3. shift \in Injection(Sent(type, Tail(s)), later)
  <2>1. shift \in [Sent(type, Tail(s)) -> later]
    BY <1>2
  <2>2. \A j, k \in Sent(type, Tail(s)) : shift[j] = shift[k] => j = k
    BY <1>2
  <2> HIDE DEF shift, later
  <2> QED
    BY <2>1, <2>2 DEF Injection, IsInjective
<1>4. /\ IsFiniteSet(Sent(type, s)) /\ Cardinality(Sent(type, s)) \in Nat
      /\ IsFiniteSet(later) /\ Cardinality(later) \in Nat
      /\ Cardinality(later) =
           IF 1 \in Sent(type, s) THEN Cardinality(Sent(type, s)) - 1
           ELSE Cardinality(Sent(type, s))
  BY SentFinite, FS_RemoveElement, FS_CardinalityType
<1> HIDE DEF shift
<1>5. /\ Cardinality(Sent(type, Tail(s))) <= Cardinality(later)
      /\ Cardinality(Sent(type, Tail(s))) \in Nat
  <2>1. Tail(s) \in Seq(Events)
    BY HeadTailProperties
  <2> HIDE DEF later
  <2> QED
    BY <1>3, <1>4, <2>1, SentFinite, FS_Injection
<1>6. Head(s).type = type => 1 \in Sent(type, s)
  BY <1>1 DEF Sent
<1> QED
  BY <1>4, <1>5, <1>6

-----------------------------------------------------------------------------
(***************************************************************************)
(* The types of the testbench's variables.  A duty on its way is one the   *)
(* actuator has, and a pin is high or low, so that what waits at the       *)
(* scoreboard is one of these.                                             *)
(***************************************************************************)
Valued(e) ==
  /\ e.type = "PWM" => e.value \in 0 .. FAN_SPEED_MAX
  /\ e.type = "GPIO" => e.value \in {0, 1}

AllValued(s) == \A k \in 1 .. Len(s) : Valued(s[k])

Utters == UNCHANGED queue \/ \E e : Push(e) /\ Valued(e)

BoardInv == ScoreboardTypeOK /\ AllValued(Stream)

LEMMA OnlyOutputsHaveRange ==
  /\ \A type, task, pair : type \notin {"PWM", "GPIO"} => Valued(PairEvent(type, task, pair))
  /\ \A type, task, of, v : type \notin {"PWM", "GPIO"} => Valued(ValueEvent(type, task, of, v))
  /\ \A type, task : type \notin {"PWM", "GPIO"} => Valued(SignalEvent(type, task))
BY DEF Valued, PairEvent, ValueEvent, SignalEvent

LEMMA BridgeIsQuiet ==
  ASSUME UNCHANGED bridgeVars
  PROVE  Utters
BY DEF bridgeVars, Utters

(* What the two builds share: the HAL calls outside the shared variables.  *)
LEMMA HalCallsUtter ==
  ASSUME DataInv,
         ReportControlInputs \/ PwmSet \/ GpioWritePump \/ GpioWriteLed \/ LogWrite
  PROVE  Utters
<1>1. FanOutput \in 0 .. FAN_SPEED_MAX
  BY Outputs
<1>2. \A b : Bit(b) \in {0, 1}
  BY DEF Bit
<1>3. CASE ReportControlInputs
  BY <1>3, OnlyOutputsHaveRange DEF ReportControlInputs, Call, Utters
<1>4. CASE PwmSet
  <2>1. Valued(ValueEvent("PWM", CONTROL, "FAN", FanOutput))
    BY <1>1 DEF Valued, ValueEvent
  <2> QED
    BY <1>4, <2>1 DEF PwmSet, Call, Utters
<1>5. CASE GpioWritePump
  <2>1. Valued(ValueEvent("GPIO", CONTROL, "PUMP", Bit(PumpOutput)))
    BY <1>2 DEF Valued, ValueEvent
  <2> QED
    BY <1>5, <2>1 DEF GpioWritePump, Call, Utters
<1>6. CASE GpioWriteLed
  <2> DEFINE lit == AlarmLedActive(view[ALARM].temperature, view[ALARM].humidity)
  <2>1. Valued(ValueEvent("GPIO", ALARM, "LED", Bit(lit)))
    BY <1>2 DEF Valued, ValueEvent
  <2> QED
    BY <1>6, <2>1 DEF GpioWriteLed, Call, Utters
<1>7. CASE LogWrite
  BY <1>7, BridgeIsQuiet, OnlyOutputsHaveRange DEF LogWrite, Call, Utters
<1> QED
  BY <1>3, <1>4, <1>5, <1>6, <1>7

LEMMA UartUtters ==
  ASSUME UartRx
  PROVE  Utters
<1>1. CASE UartPoll \/ UartEvent
  BY <1>1, BridgeIsQuiet, OnlyOutputsHaveRange DEF UartPoll, UartEvent, Call, Utters
<1>2. CASE ~(UartPoll \/ UartEvent)
  BY <1>2, BridgeIsQuiet DEF UartRx, UartStub, UartCheck, UartCopyType, UartCopyValue,
     UartEventType, UartConsume, Utters
<1> QED
  BY <1>1, <1>2

LEMMA LifeUtters ==
  ASSUME NEW t \in Tasks, Spawn(t) \/ SpawnFails(t) \/ Finish(t)
  PROVE  Utters
BY OnlyOutputsHaveRange DEF Spawn, SpawnFails, Creation, Finish, SignalDone, Exit, Call, Utters

(* Appending keeps the range of every event, and so does taking the head.  *)
LEMMA ValuedStream ==
  ASSUME NEW s \in Seq(Events), AllValued(s)
  PROVE  /\ \A e \in Events : Valued(e) => AllValued(Append(s, e))
         /\ s # <<>> => Valued(Head(s)) /\ AllValued(Tail(s))
<1>1. ASSUME NEW e \in Events, Valued(e)
      PROVE  AllValued(Append(s, e))
  <2> DEFINE a == Append(s, e)
  <2>1. /\ Len(s) \in Nat /\ Len(a) = Len(s) + 1 /\ a[Len(s) + 1] = e
        /\ \A i \in 1 .. Len(s) : a[i] = s[i]
    BY AppendProperties, LenProperties
  <2> HIDE DEF a
  <2>2. AllValued(a)
    BY <1>1, <2>1 DEF AllValued
  <2> QED
    BY <2>2 DEF a
<1>2. ASSUME s # <<>>
      PROVE  Valued(Head(s)) /\ AllValued(Tail(s))
  <2>1. /\ Len(s) \in Nat /\ Len(s) >= 1 /\ Len(Tail(s)) = Len(s) - 1
        /\ Head(s) = s[1]
        /\ \A i \in 1 .. Len(Tail(s)) : Tail(s)[i] = s[i + 1]
    BY <1>2, HeadTailProperties, LenProperties, EmptySeq
  <2>2. \A i \in 1 .. Len(s) - 1 : i + 1 \in 1 .. Len(s)
    BY <2>1
  <2> QED
    BY <2>1, <2>2 DEF AllValued
<1> QED
  BY <1>1, <1>2

LEMMA UtteranceKeepsBoard ==
  ASSUME ChannelInv, BoardInv, queue \in Seq(Events), queue' \in Seq(Events),
         Utters, UNCHANGED dutBridgeVars
  PROVE  BoardInv'
<1>1. UNCHANGED <<batch, scoreboardVars>> /\ batch \in Seq(Events)
  BY DEF dutBridgeVars, ChannelInv
<1>2. ScoreboardTypeOK'
  BY <1>1 DEF BoardInv, ScoreboardTypeOK, scoreboardVars
<1>3. CASE UNCHANGED queue
  <2>1. Stream' = Stream
    BY <1>1, <1>3 DEF Stream
  <2> QED
    BY <1>2, <2>1 DEF BoardInv, AllValued
<1>4. ASSUME NEW e, Push(e), Valued(e)
      PROVE  BoardInv'
  <2>1. CASE e.type \notin Registered
    BY <1>3, <1>4, <2>1 DEF Push
  <2>2. CASE e.type \in Registered
    <3>1. e \in Events /\ queue' = Append(queue, e)
      BY <1>4, <2>2, PushedIsEvent
    <3>2. Stream \in Seq(Events) /\ Stream' = Append(Stream, e)
      BY <1>1, <3>1, StreamOf DEF Stream
    <3>3. AllValued(Stream)
      BY DEF BoardInv
    <3> HIDE DEF Stream
    <3>4. AllValued(Append(Stream, e))
      BY <1>4, <3>1, <3>2, <3>3, ValuedStream
    <3>5. AllValued(Stream)'
      BY <3>2, <3>4 DEF AllValued
    <3> QED
      BY <1>2, <3>5 DEF BoardInv
  <2> QED
    BY <2>1, <2>2
<1> QED
  BY <1>3, <1>4 DEF Utters

(* The write() methods keep the scoreboard's types; at most one duty or    *)
(* one pump state waits.                                                   *)
LEMMA WriteKeepsType ==
  ASSUME ScoreboardTypeOK, NEW e \in Events, Valued(e), WriteEvent(e)
  PROVE  ScoreboardTypeOK'
<1>1. e.pair \in [temperature : Int, humidity : Int] /\ e.value \in Int
  BY DEF Events, Pairs
<1>2. Cardinality({}) = 0 /\ \A x : Cardinality({x}) = 1
  BY FS_EmptySet, FS_Singleton
<1>3. CASE WriteSensor(e.pair)
  <2>1. Append(recent_snapshots, e.pair) \in Seq([temperature : Int, humidity : Int])
        /\ Append(recent_snapshots, e.pair) # <<>>
    BY <1>1, AppendProperties DEF ScoreboardTypeOK
  <2>2. recent_snapshots' \in Seq([temperature : Int, humidity : Int])
    BY <1>3, <2>1, HeadTailProperties DEF WriteSensor
  <2> QED
    BY <1>1, <1>3, <2>2 DEF WriteSensor, ScoreboardTypeOK
<1>4. CASE WriteControlInput(e.pair)
  BY <1>4, ScoreboardAssumption DEF WriteControlInput, ScoreboardTypeOK
<1>5. CASE WritePwm(e.value) /\ e.type = "PWM"
  <2>1. mismatches' \in Nat
    BY <1>5 DEF WritePwm, ScoreboardTypeOK
  <2>2. \E d \in 0 .. FAN_SPEED_MAX : pending_fan' \in {{}, {d}}
    BY <1>5 DEF WritePwm, Valued
  <2>3. pending_pump' = {}
    BY <1>5 DEF WritePwm
  <2>4. Cardinality(pending_fan') \in {0, 1} /\ Cardinality(pending_pump') = 0
    BY <1>2, <2>2, <2>3
  <2>5. /\ pending_fan' \subseteq 0 .. FAN_SPEED_MAX /\ pending_pump' \subseteq {0, 1}
        /\ Cardinality(pending_fan') + Cardinality(pending_pump') <= 1
    BY <2>2, <2>3, <2>4
  <2>6. UNCHANGED <<recent_snapshots, modeled_target_temp, seen_pairs,
                    coherence_warmup_seen, torn_reads>>
    BY <1>5 DEF WritePwm
  <2> QED
    BY <2>1, <2>5, <2>6 DEF ScoreboardTypeOK
<1>6. CASE WriteGpioPump(e.value) /\ e.type = "GPIO"
  <2>1. mismatches' \in Nat
    BY <1>6 DEF WriteGpioPump, ScoreboardTypeOK
  <2>2. \E b \in {0, 1} : pending_pump' \in {{}, {b}}
    BY <1>6 DEF WriteGpioPump, Valued
  <2>3. pending_fan' = {}
    BY <1>6 DEF WriteGpioPump
  <2>4. Cardinality(pending_pump') \in {0, 1} /\ Cardinality(pending_fan') = 0
    BY <1>2, <2>2, <2>3
  <2>5. /\ pending_fan' \subseteq 0 .. FAN_SPEED_MAX /\ pending_pump' \subseteq {0, 1}
        /\ Cardinality(pending_fan') + Cardinality(pending_pump') <= 1
    BY <2>2, <2>3, <2>4
  <2>6. UNCHANGED <<recent_snapshots, modeled_target_temp, seen_pairs,
                    coherence_warmup_seen, torn_reads>>
    BY <1>6 DEF WriteGpioPump
  <2> QED
    BY <2>1, <2>5, <2>6 DEF ScoreboardTypeOK
<1>7. CASE WriteGpioLed(e.value)
  <2>1. mismatches' \in Nat
    BY <1>7 DEF WriteGpioLed, ScoreboardTypeOK
  <2> QED
    BY <1>7, <2>1 DEF WriteGpioLed, ScoreboardTypeOK
<1>8. CASE WriteComm(e.of, e.value)
  <2>1. modeled_target_temp' \in Int
    BY <1>1, <1>8 DEF WriteComm, ScoreboardTypeOK, TEMP_TARGET_DEFAULT, Eighths
  <2> QED
    BY <1>8, <2>1 DEF WriteComm, ScoreboardTypeOK
<1>9. CASE WriteOther
  BY <1>9 DEF WriteOther, scoreboardVars, ScoreboardTypeOK
<1>10. \/ WriteSensor(e.pair) \/ WriteControlInput(e.pair)
       \/ WritePwm(e.value) /\ e.type = "PWM"
       \/ WriteGpioPump(e.value) /\ e.type = "GPIO"
       \/ WriteGpioLed(e.value) \/ WriteComm(e.of, e.value) \/ WriteOther
  BY Zenon DEF WriteEvent
<1> QED
  BY <1>3, <1>4, <1>5, <1>6, <1>7, <1>8, <1>9, <1>10

(* The steps of the poller, and every other step outside the threads.      *)
LEMMA PollerKeepsBoard ==
  ASSUME ChannelInv, BoardInv, queue \in Seq(Events), StartPolling \/ Poller
  PROVE  BoardInv'
<1>0. batch \in Seq(Events) /\ Stream \in Seq(Events) /\ AllValued(Stream)
  BY StreamOf DEF ChannelInv, BoardInv, Stream
<1>1. CASE Deliver
  <2>1. /\ Stream # <<>> /\ Head(Stream) = Head(batch) /\ Stream' = Tail(Stream)
        /\ WriteEvent(Head(batch)) /\ Head(batch) \in Events
    BY <1>0, <1>1, StreamOf, HeadTailProperties DEF Deliver, Stream, bridgeVars
  <2> HIDE DEF Stream
  <2>2. Valued(Head(batch)) /\ AllValued(Tail(Stream))
    BY <1>0, <2>1, ValuedStream
  <2>3. ScoreboardTypeOK'
    BY <2>1, <2>2, WriteKeepsType DEF BoardInv
  <2> QED
    BY <2>1, <2>2, <2>3 DEF BoardInv, AllValued
<1>2. CASE DrainSwap
  <2>1. Stream' = Stream /\ UNCHANGED scoreboardVars
    BY <1>0, <1>2, StreamOf DEF DrainSwap, Stream, ChannelInv
  <2> QED
    BY <2>1 DEF BoardInv, AllValued, ScoreboardTypeOK, scoreboardVars
<1>3. CASE StartPolling \/ CheckActive \/ EndDrain
  <2>1. Stream' = Stream /\ UNCHANGED scoreboardVars
    BY <1>3 DEF StartPolling, CheckActive, EndDrain, Stream, bridgeVars
  <2> QED
    BY <2>1 DEF BoardInv, AllValued, ScoreboardTypeOK, scoreboardVars
<1> QED
  BY <1>1, <1>2, <1>3 DEF Poller

LEMMA IdleKeepsBoard ==
  ASSUME BoardInv, UNCHANGED <<queue, batch, scoreboardVars>>
  PROVE  BoardInv'
<1>1. Stream' = Stream /\ UNCHANGED scoreboardVars
  BY DEF Stream
<1> QED
  BY <1>1 DEF BoardInv, AllValued, ScoreboardTypeOK, scoreboardVars

LEMMA BoardInvInit ==
  ASSUME FirmwareInit, DutBridgeInit
  PROVE  BoardInv
<1>1. queue = <<>> /\ batch = <<>> /\ ScoreboardInit
  BY DEF FirmwareInit, BridgeInit, DutBridgeInit
<1>2. Stream = <<>> /\ 1 .. Len(<<>>) = {}
  BY <1>1, StreamOf DEF Stream
<1>3. Cardinality({}) = 0
  BY FS_EmptySet
<1>4. ScoreboardTypeOK
  BY <1>1, <1>3, ScoreboardAssumption
     DEF ScoreboardInit, ScoreboardTypeOK, TEMP_TARGET_DEFAULT, Eighths
<1> QED
  BY <1>2, <1>4 DEF BoardInv, AllValued

LEMMA BoardInvImplies ==
  ASSUME ChannelInv, BoardInv
  PROVE  DutBridgeTypeOK
BY DEF ChannelInv, BoardInv, DutBridgeTypeOK

-----------------------------------------------------------------------------
(***************************************************************************)
(* The setpoint.  The last COMM event on its way that sets the scoreboard's *)
(* setpoint, or that setpoint itself when there is none, is the value that *)
(* comm_task has stored, or owes to a command it has reported.             *)
(***************************************************************************)
Tells(e) == e.type = "COMM" /\ e.of \in {"TARGET", "RESET"}
Setpoint(type, value) == IF type = "RESET" THEN TEMP_TARGET_DEFAULT ELSE value

Tracks(s, model, v) ==
  \/ model = v /\ \A k \in 1 .. Len(s) : ~Tells(s[k])
  \/ \E k \in 1 .. Len(s) :
       /\ Tells(s[k]) /\ Setpoint(s[k].of, s[k].value) = v
       /\ \A j \in k + 1 .. Len(s) : ~Tells(s[j])

LEMMA TracksNothing ==
  ASSUME NEW s, NEW v, \A k \in 1 .. Len(s) : ~Tells(s[k])
  PROVE  Tracks(s, v, v)
BY DEF Tracks

LEMMA TracksQuietly ==
  ASSUME NEW s \in Seq(Events), NEW e \in Events, ~Tells(e), NEW model, NEW v,
         Tracks(s, model, v)
  PROVE  Tracks(Append(s, e), model, v)
<1> DEFINE longer == Append(s, e)
<1>1. /\ Len(s) \in Nat /\ Len(longer) = Len(s) + 1 /\ longer[Len(s) + 1] = e
      /\ \A k \in 1 .. Len(s) : longer[k] = s[k]
  BY AppendProperties, LenProperties
<1> HIDE DEF longer
<1>2. ASSUME model = v, \A k \in 1 .. Len(s) : ~Tells(s[k])
      PROVE  Tracks(longer, model, v)
  <2>1. ASSUME NEW k \in 1 .. Len(longer)
        PROVE  ~Tells(longer[k])
    <3>1. k \in 1 .. Len(s) \/ k = Len(s) + 1
      BY <1>1
    <3> QED
      BY <1>1, <1>2, <3>1
  <2> QED
    BY <1>2, <2>1, TracksNothing
<1>3. ASSUME NEW k \in 1 .. Len(s), Tells(s[k]), Setpoint(s[k].of, s[k].value) = v,
             \A j \in k + 1 .. Len(s) : ~Tells(s[j])
      PROVE  Tracks(longer, model, v)
  <2>1. ASSUME NEW j \in k + 1 .. Len(longer)
        PROVE  ~Tells(longer[j])
    <3>1. j \in k + 1 .. Len(s) \/ j = Len(s) + 1
      BY <1>1
    <3> QED
      BY <1>1, <1>3, <3>1
  <2>2. k \in 1 .. Len(longer) /\ longer[k] = s[k]
    BY <1>1
  <2>3. Tells(longer[k]) /\ Setpoint(longer[k].of, longer[k].value) = v
    BY <1>3, <2>2
  <2> QED
    BY <2>1, <2>2, <2>3 DEF Tracks
<1>4. Tracks(longer, model, v)
  BY <1>2, <1>3 DEF Tracks
<1> QED
  BY <1>4 DEF longer

LEMMA TracksLoudly ==
  ASSUME NEW s \in Seq(Events), NEW e \in Events, Tells(e), NEW model
  PROVE  Tracks(Append(s, e), model, Setpoint(e.of, e.value))
<1> DEFINE longer == Append(s, e)
<1>1. /\ Len(s) \in Nat /\ Len(longer) = Len(s) + 1 /\ longer[Len(s) + 1] = e
  BY AppendProperties, LenProperties
<1> HIDE DEF longer
<1>2. /\ Len(s) + 1 \in 1 .. Len(longer)
      /\ \A j \in (Len(s) + 1) + 1 .. Len(longer) : ~Tells(longer[j])
  BY <1>1
<1>3. Tells(longer[Len(s) + 1])
      /\ Setpoint(longer[Len(s) + 1].of, longer[Len(s) + 1].value) = Setpoint(e.of, e.value)
  BY <1>1
<1>4. Tracks(longer, model, Setpoint(e.of, e.value))
  BY <1>2, <1>3 DEF Tracks
<1> QED
  BY <1>4 DEF longer

LEMMA TracksOnward ==
  ASSUME NEW s \in Seq(Events), s # <<>>, NEW model, NEW v, Tracks(s, model, v),
         NEW next,
         next = IF Tells(Head(s)) THEN Setpoint(Head(s).of, Head(s).value) ELSE model
  PROVE  Tracks(Tail(s), next, v)
<1> DEFINE rest == Tail(s)
<1>1. /\ Len(s) \in Nat \ {0} /\ Len(rest) = Len(s) - 1 /\ Head(s) = s[1]
      /\ \A k \in 1 .. Len(s) - 1 : rest[k] = s[k + 1]
  BY HeadTailProperties, LenProperties, EmptySeq
<1> HIDE DEF rest
<1>2. ASSUME \A j \in 2 .. Len(s) : ~Tells(s[j])
      PROVE  \A k \in 1 .. Len(rest) : ~Tells(rest[k])
  BY <1>1, <1>2
<1>3. ASSUME model = v, \A k \in 1 .. Len(s) : ~Tells(s[k])
      PROVE  Tracks(rest, next, v)
  <2>1. next = v /\ \A j \in 2 .. Len(s) : ~Tells(s[j])
    BY <1>1, <1>3
  <2> QED
    BY <1>2, <2>1, TracksNothing
<1>4. ASSUME NEW k \in 1 .. Len(s), Tells(s[k]), Setpoint(s[k].of, s[k].value) = v,
             \A j \in k + 1 .. Len(s) : ~Tells(s[j])
      PROVE  Tracks(rest, next, v)
  <2>1. CASE k = 1
    <3>1. next = v /\ \A j \in 2 .. Len(s) : ~Tells(s[j])
      BY <1>1, <1>4, <2>1
    <3> QED
      BY <1>2, <3>1, TracksNothing
  <2>2. CASE k # 1
    <3>1. k - 1 \in 1 .. Len(rest) /\ rest[k - 1] = s[k]
      BY <1>1, <2>2
    <3>2. ASSUME NEW j \in (k - 1) + 1 .. Len(rest)
          PROVE  ~Tells(rest[j])
      <4>1. rest[j] = s[j + 1] /\ j + 1 \in k + 1 .. Len(s)
        BY <1>1, <2>2
      <4> QED
        BY <1>4, <4>1
    <3>3. Tells(rest[k - 1]) /\ Setpoint(rest[k - 1].of, rest[k - 1].value) = v
      BY <1>4, <3>1
    <3> QED
      BY <3>1, <3>2, <3>3 DEF Tracks
  <2> QED
    BY <2>1, <2>2
<1>5. Tracks(rest, next, v)
  BY <1>3, <1>4 DEF Tracks
<1> QED
  BY <1>5 DEF rest

(* What comm_task owes: the value of a command it has reported and not yet *)
(* stored.                                                                 *)
Owing ==
  \/ place[COMM] = "target_temp" /\ stage[COMM] \notin {"unmark", "unlock"}
  \/ /\ place[COMM] = "uart" /\ stage[COMM] = "consume"
     /\ command.type \in {"TARGET", "RESET"}

Due == IF Owing THEN Setpoint(command.type, command.value) ELSE target_temp

TrackInv == Tracks(Stream, modeled_target_temp, Due)

(* The event that the callback pushes tells the command it gave comm_task: *)
(* the driver has stored nothing between the callback's loads.             *)
CommandHeard ==
  At(COMM, "uart", "push") /\ stage'[COMM] = "consume" =>
    event_type = command.type /\ dvr_command_value = command.value

(* What a thread does to it: nothing, or comm_task reports what it owes.   *)
TrackStep ==
  \/ /\ Due' = Due
     /\ UNCHANGED queue \/ \E e : Push(e) /\ ~Tells(e)
  \/ \E e : /\ Push(e) /\ e.type \in Registered /\ Tells(e)
            /\ Due' = Setpoint(e.of, e.value)

LEMMA TrackStepTracks ==
  ASSUME TrackInv, TrackStep, UNCHANGED dutBridgeVars, batch \in Seq(Events),
         queue \in Seq(Events), queue' \in Seq(Events)
  PROVE  TrackInv'
<1>1. /\ batch' = batch /\ modeled_target_temp' = modeled_target_temp
      /\ Stream \in Seq(Events)
  BY StreamOf DEF dutBridgeVars, scoreboardVars, Stream
<1>2. ASSUME UNCHANGED queue, Due' = Due
      PROVE  TrackInv'
  BY <1>1, <1>2 DEF TrackInv, Stream
<1>3. ASSUME NEW e, Push(e), e.type \in Registered
      PROVE  e \in Events /\ Stream' = Append(Stream, e)
  <2>1. e \in Events /\ queue' = Append(queue, e)
    BY <1>3, PushedIsEvent
  <2> QED
    BY <1>1, <2>1, StreamOf DEF Stream
<1> HIDE DEF Stream
<1>4. ASSUME NEW e, Push(e), ~Tells(e), Due' = Due
      PROVE  TrackInv'
  <2>1. CASE e.type \in Registered
    <3>1. e \in Events /\ Stream' = Append(Stream, e)
      BY <1>3, <1>4, <2>1
    <3>2. Tracks(Append(Stream, e), modeled_target_temp, Due)
      BY <1>1, <1>4, <3>1, TracksQuietly DEF TrackInv
    <3> QED
      BY <1>1, <1>4, <3>1, <3>2 DEF TrackInv
  <2>2. CASE e.type \notin Registered
    BY <1>2, <1>4, <2>2 DEF Push
  <2> QED
    BY <2>1, <2>2
<1>5. ASSUME NEW e, Push(e), e.type \in Registered, Tells(e),
             Due' = Setpoint(e.of, e.value)
      PROVE  TrackInv'
  <2>1. e \in Events /\ Stream' = Append(Stream, e)
    BY <1>3, <1>5
  <2>2. Tracks(Append(Stream, e), modeled_target_temp, Setpoint(e.of, e.value))
    BY <1>1, <1>5, <2>1, TracksLoudly
  <2> QED
    BY <1>1, <1>5, <2>1, <2>2 DEF TrackInv
<1> QED
  BY <1>2, <1>4, <1>5 DEF TrackStep

(* A step of comm_task that neither stores nor reports anything: it goes   *)
(* on to a place where it owes nothing, as before.                         *)
LEMMA NothingOwed ==
  ASSUME WhereTypeOK, UNCHANGED target_temp, ~Owing,
         \/ EndIteration(COMM)
         \/ \E p \in Places \ {"target_temp"} : Goto(COMM, p)
         \/ place[COMM] # "target_temp" /\ \E s \in Stages \ {"consume"} : Stay(COMM, s)
  PROVE  Due' = Due
<1>1. COMM \in AllTasks /\ place \in [AllTasks -> Places] /\ stage \in [AllTasks -> Stages]
  BY DEF WhereTypeOK, AllTasks, COMM, LOGGER, ALARM
<1>2. ~Owing'
  BY <1>1 DEF Owing, EndIteration, Goto, Stay, Entry, Start, Shared
<1> QED
  BY <1>2 DEF Due

LEMMA UartTracks ==
  ASSUME WhereTypeOK, DataTypeOK, "COMM" \in Registered, UartRx, CommandHeard
  PROVE  TrackStep
<1>0. COMM \in AllTasks /\ place \in [AllTasks -> Places] /\ stage \in [AllTasks -> Stages]
      /\ "uart" \notin Shared /\ command \in [type : CommandTypes, value : Int]
  BY DEF WhereTypeOK, DataTypeOK, AllTasks, COMM, LOGGER, ALARM, Shared, Commands
<1>1. ASSUME Due' = Due, UNCHANGED queue \/ \E e : Push(e) /\ e.type # "COMM"
      PROVE  TrackStep
  BY <1>1 DEF TrackStep, Tells
<1>2. CASE UartPoll
  <2>1. SignalEvent("HEARTBEAT", COMM).type # "COMM"
    BY DEF SignalEvent, ValueEvent
  <2>2. UNCHANGED queue \/ \E e : Push(e) /\ e.type # "COMM"
    BY <1>2, <2>1 DEF UartPoll, Call, bridgeVars
  <2>3. Due' = Due
    BY <1>2, NothingOwed DEF UartPoll, At, Owing, Call, globals, Stages
  <2> QED
    BY <1>1, <2>2, <2>3
<1>3. CASE UartCheck \/ UartCopyType \/ UartCopyValue \/ UartEventType
  <2>1. Due' = Due
    BY <1>3, NothingOwed DEF UartCheck, UartCopyType, UartCopyValue, UartEventType, At, Owing,
       globals, Stages
  <2> QED
    BY <1>1, <1>3, <2>1 DEF UartCheck, UartCopyType, UartCopyValue, UartEventType, bridgeVars
<1>4. CASE UartEvent
  <2> DEFINE e == ValueEvent("COMM", COMM, event_type, dvr_command_value)
  <2>1. /\ place'[COMM] = "uart" /\ stage'[COMM] = "consume" /\ command' = command
        /\ target_temp' = target_temp /\ Push(e) /\ ~Owing
    BY <1>0, <1>4 DEF UartEvent, Stay, At, Call, globals, locals, Owing
  <2>2. /\ e.type = "COMM" /\ e.of = command.type /\ e.value = command.value
    BY <1>4, <2>1 DEF UartEvent, CommandHeard, ValueEvent
  <2> HIDE DEF e
  <2>3. CASE command.type \in {"TARGET", "RESET"}
    <3>1. Due' = Setpoint(command.type, command.value)
      BY <2>1, <2>3 DEF Due, Owing
    <3> QED
      BY <2>1, <2>2, <2>3, <3>1 DEF TrackStep, Tells
  <2>4. CASE command.type \notin {"TARGET", "RESET"}
    <3>1. Due' = Due
      BY <2>1, <2>4 DEF Due, Owing
    <3> QED
      BY <2>1, <2>2, <2>4, <3>1 DEF TrackStep, Tells
  <2> QED
    BY <2>3, <2>4
<1>5. CASE UartConsume
  <2>1. /\ place[COMM] = "uart" /\ stage[COMM] = "consume" /\ command' = command
        /\ target_temp' = target_temp /\ queue' = queue
    BY <1>5 DEF UartConsume, At, globals, locals
  <2>2. CASE command.type \in {"TARGET", "RESET"}
    <3>1. Owing /\ Owing'
      BY <1>0, <1>5, <2>1, <2>2 DEF UartConsume, Dispatch, Goto, Owing, Entry
    <3> QED
      BY <1>1, <2>1, <3>1 DEF Due
  <2>3. CASE command.type \notin {"TARGET", "RESET"}
    <3>1. ~Owing /\ (EndIteration(COMM) \/ Goto(COMM, "system_enabled"))
      BY <1>5, <2>1, <2>3 DEF UartConsume, Dispatch, Owing
    <3>2. Due' = Due
      BY <2>1, <3>1, NothingOwed DEF Places, Shared
    <3> QED
      BY <1>1, <2>1, <3>2
  <2> QED
    BY <2>2, <2>3
<1> QED
  BY <1>2, <1>3, <1>4, <1>5 DEF UartRx, UartStub

(* A thread's life, and the steps of another task.                         *)
LEMMA LifeTracks ==
  ASSUME WhereTypeOK, NEW t \in Tasks, Spawn(t) \/ SpawnFails(t) \/ Finish(t)
  PROVE  TrackStep
<1>1. /\ UNCHANGED <<target_temp, command>>
      /\ UNCHANGED queue \/ \E e : Push(e) /\ ~Tells(e)
  <2>1. ~Tells(SignalEvent("TASK_DONE", t))
    BY DEF SignalEvent, ValueEvent, Tells
  <2> QED
    BY <2>1 DEF Spawn, SpawnFails, Creation, Finish, SignalDone, Exit, Call, globals, locals
<1>2. PICK p \in {"uart", "sensor_data", "failed", "exit", "returned"} :
        /\ place[t] \in {"unspawned", "done", "exit"}
        /\ place' = [place EXCEPT ![t] = p] /\ stage' = [stage EXCEPT ![t] = Entry(p)]
  BY DEF Spawn, SpawnFails, Creation, Finish, SignalDone, Exit, Goto, Start, At
<1>3. t \in AllTasks /\ COMM \in AllTasks
      /\ place \in [AllTasks -> Places] /\ stage \in [AllTasks -> Stages]
  BY FirmwareAssumption DEF WhereTypeOK, AllTasks, COMM, LOGGER, ALARM
<1>4. Owing' <=> Owing
  BY <1>1, <1>2, <1>3 DEF Owing, Entry, Shared
<1> QED
  BY <1>1, <1>4 DEF TrackStep, Due

LEMMA ElsewhereTracks ==
  ASSUME UNCHANGED <<place[COMM], stage[COMM], command, target_temp>>,
         UNCHANGED queue \/ \E e : Push(e) /\ e.type # "COMM"
  PROVE  TrackStep
<1>1. Due' = Due
  BY DEF Due, Owing
<1> QED
  BY <1>1 DEF TrackStep, Tells

(* The bridge: a delivery sets the scoreboard's setpoint as the event says. *)
LEMMA BridgeTracks ==
  ASSUME TrackInv, ChannelInv, queue \in Seq(Events), StartPolling \/ Poller,
         UNCHANGED <<where, globals, locals>>
  PROVE  TrackInv'
<1>0. Due' = Due
  BY DEF Due, Owing, where, globals, locals
<1>1. CASE StartPolling \/ CheckActive \/ EndDrain
  <2>1. Stream' = Stream /\ modeled_target_temp' = modeled_target_temp
    BY <1>1 DEF StartPolling, CheckActive, EndDrain, Stream, bridgeVars, scoreboardVars
  <2> QED
    BY <1>0, <2>1 DEF TrackInv
<1>2. CASE DrainSwap
  <2>1. batch = <<>> /\ modeled_target_temp' = modeled_target_temp
    BY <1>2 DEF DrainSwap, ChannelInv, scoreboardVars
  <2>2. Stream' = Stream
    BY <1>2, <2>1, StreamOf DEF DrainSwap, Stream
  <2> QED
    BY <1>0, <2>1, <2>2 DEF TrackInv
<1>3. CASE Deliver
  <2>1. batch \in Seq(Events)
    BY DEF ChannelInv
  <2>2. /\ Stream \in Seq(Events) /\ Stream # <<>> /\ Stream' = Tail(Stream)
        /\ Head(Stream) = Head(batch)
    BY <1>3, <2>1, StreamOf DEF Deliver, Stream, bridgeVars
  <2> DEFINE e == Head(Stream)
  <2>3. WriteEvent(e)
    BY <1>3, <2>2 DEF Deliver
  <2> HIDE DEF Stream, e
  <2>4. modeled_target_temp' = IF Tells(e) THEN Setpoint(e.of, e.value)
                                           ELSE modeled_target_temp
    <3>1. CASE e.type = "COMM"
      BY <2>3, <3>1 DEF WriteEvent, WriteComm, Tells, Setpoint
    <3>2. CASE e.type # "COMM"
      BY <2>3, <3>2 DEF WriteEvent, WriteSensor, WriteControlInput, WritePwm, WriteGpioPump,
         WriteGpioLed, WriteOther, scoreboardVars, Tells
    <3> QED
      BY <3>1, <3>2
  <2>5. Tracks(Tail(Stream), modeled_target_temp', Due)
    BY <2>2, <2>4, TracksOnward DEF TrackInv, e
  <2> QED
    BY <1>0, <2>2, <2>5 DEF TrackInv
<1> QED
  BY <1>1, <1>2, <1>3 DEF Poller

LEMMA IdleTracks ==
  ASSUME TrackInv, UNCHANGED <<where, target_temp, command, queue, batch,
                               modeled_target_temp>>
  PROVE  TrackInv'
BY DEF TrackInv, Due, Owing, where, Stream

LEMMA TrackInvInit ==
  ASSUME FirmwareInit, DutBridgeInit
  PROVE  TrackInv
<1>1. Stream = <<>>
  BY StreamOf DEF FirmwareInit, BridgeInit, DutBridgeInit, Stream
<1>2. ~Owing
  BY DEF FirmwareInit, Owing, AllTasks, COMM, LOGGER, ALARM
<1>3. Due = modeled_target_temp
  BY <1>2 DEF FirmwareInit, DutBridgeInit, ScoreboardInit, Due
<1>4. \A k \in 1 .. Len(<<>>) : ~Tells(<<>>[k])
  BY EmptySeq
<1> QED
  BY <1>1, <1>3, <1>4, TracksNothing DEF TrackInv

LEMMA TrackedAtTheEnd ==
  ASSUME TrackInv, ChannelInv, poller = "joined"
  PROVE  modeled_target_temp = target_temp
<1>1. queue = <<>> /\ batch = <<>> /\ place[COMM] = "returned"
  BY ChannelInvImplies DEF ChannelInv, NothingLeftBehind, AllReturned, AllTasks, COMM, LOGGER,
     ALARM
<1>2. Stream = <<>> /\ Due = target_temp
  BY <1>1, StreamOf DEF Stream, Due, Owing
<1>3. 1 .. Len(<<>>) = {}
  BY EmptySeq
<1> QED
  BY <1>2, <1>3 DEF TrackInv, Tracks
=============================================================================
