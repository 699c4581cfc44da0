------------------------------- MODULE GroupBMC -------------------------------
(***************************************************************************)
(* A small instance of the protected firmware in its stand-alone POSIX     *)
(* build: no callback is registered, the UART stub makes up the commands,  *)
(* and the ADC stub returns one fixed pair, here one that asks for other   *)
(* outputs than the reset pair does.                                       *)
(***************************************************************************)
EXTENDS GroupBRefinement

HotAndWet == [temperature |-> 41 * Eighths, humidity |-> 75 * Eighths]
OneReading == {HotAndWet}
NoScript == <<>>
OneTarget == {28 * Eighths}
=============================================================================
