----------------------------- MODULE EventChannel -----------------------------
(***************************************************************************)
(* What the hand-off of events promises, whatever threads, mutexes, drains *)
(* and counters it is made of: nothing that is sent is lost, repeated or   *)
(* overtaken, the TASK_DONE of a writer is the last thing it sends, and    *)
(* the channel closes when every writer has left and everything has been   *)
(* received.                                                               *)
(***************************************************************************)
EXTENDS Naturals, Sequences

CONSTANT Writers

VARIABLES
  transit,   \* the messages on their way, oldest first
  phase,     \* each writer: "talking", then "silent", then "left"
  closed

vars == <<transit, phase, closed>>

Init ==
  /\ transit = <<>>
  /\ phase = [w \in Writers |-> "talking"]
  /\ closed = FALSE

(* One message of w's is put behind those on their way.                    *)
Carries(w, farewell) ==
  LET message == transit'[Len(transit')] IN
  /\ Len(transit') > 0
  /\ transit' = Append(transit, message)
  /\ message.task_id = w
  /\ (message.type = "TASK_DONE") = farewell

Send(w) ==
  /\ phase[w] = "talking"
  /\ Carries(w, FALSE)
  /\ UNCHANGED <<phase, closed>>

(* The last message, unless nobody listens to that type.                   *)
SignOff(w) ==
  /\ phase[w] = "talking"
  /\ Carries(w, TRUE) \/ UNCHANGED transit
  /\ phase' = [phase EXCEPT ![w] = "silent"]
  /\ UNCHANGED closed

Leave(w) ==
  /\ phase[w] = "silent"
  /\ phase' = [phase EXCEPT ![w] = "left"]
  /\ UNCHANGED <<transit, closed>>

Receive ==
  /\ transit # <<>>
  /\ transit' = Tail(transit)
  /\ UNCHANGED <<phase, closed>>

Close ==
  /\ ~closed
  /\ \A w \in Writers : phase[w] = "left"
  /\ transit = <<>>
  /\ closed' = TRUE
  /\ UNCHANGED <<transit, phase>>

Next ==
  \/ \E w \in Writers : Send(w) \/ SignOff(w) \/ Leave(w)
  \/ Receive
  \/ Close

Spec == Init /\ [][Next]_vars
=============================================================================
