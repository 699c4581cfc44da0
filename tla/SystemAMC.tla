------------------------------ MODULE SystemAMC ------------------------------
(***************************************************************************)
(* Small instances of the vulnerable system.                               *)
(***************************************************************************)
EXTENDS SystemA

CoolAndMild == [temperature |-> 20 * Eighths, humidity |-> 50 * Eighths]
HotAndDry == [temperature |-> 41 * Eighths, humidity |-> 20 * Eighths]
TwoReadings == {CoolAndMild, HotAndDry}
NoScript == <<>>
TargetThenReset ==
  << [type |-> "TARGET", value |-> 28 * Eighths],
     [type |-> "RESET", value |-> 22 * Eighths] >>
OneTarget == {28 * Eighths}
=============================================================================
