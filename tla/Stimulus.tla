------------------------------- MODULE Stimulus -------------------------------
(***************************************************************************)
(* Where the readings come from: sensor_driver writes each item of the     *)
(* sequence into two globals and then into a FIFO; the ADC callback of the *)
(* sensor task takes a pair from the FIFO or, when it is empty, loads the  *)
(* two globals.  The driver runs in the SystemC thread, the callback in    *)
(* the sensor task's thread: only the FIFO is guarded by a mutex.          *)
(***************************************************************************)
EXTENDS Integers, Sequences

CONSTANTS
  Items,   \* the pairs the UVM sequence drives, in order
  Reads    \* how often the sensor task reads the ADC (LOOPS_PER_TASK)

ASSUME StimulusAssumption ==
  /\ Items \in Seq([temperature : Int, humidity : Int])
  /\ Reads \in Nat

(* Units are whole degrees and per cent: no property looks inside them.    *)
Default == [temperature |-> 25, humidity |-> 50]

VARIABLES
  drv_temperature, drv_humidity,   \* the driver's globals
  stim_queue,                      \* hal_bridge::stim_queue()
  driver, driven,                  \* the driver's next store, items done
  adc,                             \* the callback's next statement
  last,                            \* last_temp and last_humidity
  popped, sampled                  \* history: pairs from the FIFO, SENSOR events

driverVars == <<drv_temperature, drv_humidity, driver, driven>>
adcVars == <<adc, last, popped, sampled>>
stimulusVars == <<driverVars, stim_queue, adcVars>>

StimulusTypeOK ==
  /\ drv_temperature \in Int /\ drv_humidity \in Int
  /\ stim_queue \in Seq([temperature : Int, humidity : Int])
  /\ driver \in {"temperature", "humidity", "enqueue"}
  /\ driven \in 0 .. Len(Items)
  /\ adc \in {"pop", "hold_temperature", "hold_humidity", "humidity"}
  /\ last \in [temperature : Int, humidity : Int]
  /\ Len(sampled) <= Reads

StimulusInit ==
  /\ drv_temperature = Default.temperature
  /\ drv_humidity = Default.humidity
  /\ stim_queue = <<>>
  /\ driver = "temperature"
  /\ driven = 0
  /\ adc = "pop"
  /\ last = Default
  /\ popped = <<>>
  /\ sampled = <<>>

-----------------------------------------------------------------------------
(***************************************************************************)
(* sensor_driver::run_phase, one item.                                     *)
(***************************************************************************)
DriveTemperature ==
  /\ driver = "temperature"
  /\ driven < Len(Items)
  /\ drv_temperature' = Items[driven + 1].temperature
  /\ driver' = "humidity"
  /\ UNCHANGED <<drv_humidity, driven, stim_queue, adcVars>>

DriveHumidity ==
  /\ driver = "humidity"
  /\ drv_humidity' = Items[driven + 1].humidity
  /\ driver' = "enqueue"
  /\ UNCHANGED <<drv_temperature, driven, stim_queue, adcVars>>

PushStimulus ==
  /\ driver = "enqueue"
  /\ stim_queue' = Append(stim_queue, Items[driven + 1])
  /\ driven' = driven + 1
  /\ driver' = "temperature"
  /\ UNCHANGED <<drv_temperature, drv_humidity, adcVars>>

Driver == DriveTemperature \/ DriveHumidity \/ PushStimulus

(***************************************************************************)
(* hal_bridge_adc_read: the temperature read, then the humidity read.      *)
(***************************************************************************)
(* Mutant: the front of the FIFO is read and left there.                   *)
PopStimulusAndKeep ==
  /\ adc = "pop"
  /\ Len(sampled) < Reads
  /\ IF stim_queue # <<>>
     THEN /\ last' = Head(stim_queue)
          /\ popped' = Append(popped, Head(stim_queue))
          /\ adc' = "humidity"
     ELSE adc' = "hold_temperature" /\ UNCHANGED <<last, popped>>
  /\ UNCHANGED <<driverVars, stim_queue, sampled>>

PopStimulus ==
  /\ adc = "pop"
  /\ Len(sampled) < Reads
  /\ IF stim_queue # <<>>
     THEN /\ last' = Head(stim_queue)
          /\ popped' = Append(popped, Head(stim_queue))
          /\ stim_queue' = Tail(stim_queue)
          /\ adc' = "humidity"
     ELSE adc' = "hold_temperature" /\ UNCHANGED <<last, popped, stim_queue>>
  /\ UNCHANGED <<driverVars, sampled>>

HoldTemperature ==
  /\ adc = "hold_temperature"
  /\ last' = [last EXCEPT !.temperature = drv_temperature]
  /\ adc' = "hold_humidity"
  /\ UNCHANGED <<driverVars, stim_queue, popped, sampled>>

(* Mutant: the humidity of the pair held before is kept.                   *)
HoldOldHumidity ==
  /\ adc = "hold_humidity"
  /\ adc' = "humidity"
  /\ UNCHANGED <<driverVars, stim_queue, last, popped, sampled>>

HoldHumidity ==
  /\ adc = "hold_humidity"
  /\ last' = [last EXCEPT !.humidity = drv_humidity]
  /\ adc' = "humidity"
  /\ UNCHANGED <<driverVars, stim_queue, popped, sampled>>

(* The SENSOR event carries the held pair.                                 *)
ReadHumidity ==
  /\ adc = "humidity"
  /\ sampled' = Append(sampled, last)
  /\ adc' = "pop"
  /\ UNCHANGED <<driverVars, stim_queue, last, popped>>

Adc == PopStimulus \/ HoldTemperature \/ HoldHumidity \/ ReadHumidity

StimulusDone ==
  /\ driven = Len(Items) /\ Len(sampled) = Reads
  /\ UNCHANGED stimulusVars

StimulusNext == Driver \/ Adc \/ StimulusDone

StimulusSpec == StimulusInit /\ [][StimulusNext]_stimulusVars

-----------------------------------------------------------------------------
(* The FIFO loses, repeats and reorders nothing: what was taken from it,   *)
(* then what is still in it, are the items driven so far.                  *)
EachItemOnce == popped \o stim_queue = SubSeq(Items, 1, driven)

(* Item 0 is the pair the globals start with.                              *)
Item(i) == IF i = 0 THEN Default ELSE Items[i]

(* A reading may mix two items, but its humidity is at most one item older *)
(* than its temperature: the driver stores, and the callback loads, the    *)
(* temperature first.                                                      *)
HumidityKeepsUp ==
  \A n \in 1 .. Len(sampled) :
    \E i, j \in 0 .. Len(Items) :
      /\ j >= i - 1
      /\ sampled[n] = [temperature |-> Item(i).temperature,
                       humidity |-> Item(j).humidity]

(* hal_bridge.h: the callback "keeps the pair coherent at the source".     *)
CoherentAtSource ==
  \A n \in 1 .. Len(sampled) : \E i \in 0 .. Len(Items) : sampled[n] = Item(i)

(* hal_bridge.h: "all stimulus variance actually reaches sensor_data"; the *)
(* race sequence drives as many items as the task reads (10000).           *)
AllStimulusDelivered ==
  driven = Len(Items) /\ Len(sampled) = Reads => stim_queue = <<>>
=============================================================================
