----------------------------- MODULE SupervisedMC -----------------------------
(***************************************************************************)
(* A small instance: readings on both sides of the alarm threshold.        *)
(***************************************************************************)
EXTENDS Supervised

Cool == [temperature |-> 20 * Eighths, humidity |-> 20 * Eighths]
Hot == [temperature |-> 36 * Eighths, humidity |-> 20 * Eighths]
TwoReadings == {Cool, Hot}
BothTemperatures == {20 * Eighths, 36 * Eighths}
NoScript == <<>>
OneTarget == {28 * Eighths}
=============================================================================
