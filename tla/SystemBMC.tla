------------------------------ MODULE SystemBMC ------------------------------
(***************************************************************************)
(* Small instances of the protected system.                                *)
(***************************************************************************)
EXTENDS SystemB

CoolAndMild == [temperature |-> 20 * Eighths, humidity |-> 50 * Eighths]
HotAndDry == [temperature |-> 41 * Eighths, humidity |-> 20 * Eighths]
TwoReadings == {CoolAndMild, HotAndDry}
NoScript == <<>>
OneTarget == {28 * Eighths}
OneReset == << [type |-> "RESET", value |-> 28 * Eighths] >>
TargetThenReset ==
  << [type |-> "TARGET", value |-> 28 * Eighths],
     [type |-> "RESET", value |-> 22 * Eighths] >>
=============================================================================
