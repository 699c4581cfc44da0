------------------------- MODULE PriorityInversionMC -------------------------
(***************************************************************************)
(* A small instance: one reading, no commands.                             *)
(***************************************************************************)
EXTENDS PriorityInversion

CoolAndMild == [temperature |-> 20 * Eighths, humidity |-> 50 * Eighths]
OneReading == {CoolAndMild}
OneTarget == {28 * Eighths}
NoScript == <<>>
=============================================================================
