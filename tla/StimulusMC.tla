------------------------------ MODULE StimulusMC ------------------------------
(***************************************************************************)
(* Four items that differ in both components, from each other and from the *)
(* pair the globals start with.                                            *)
(***************************************************************************)
EXTENDS Stimulus

FourItems == << [temperature |-> 34, humidity |-> 28],
                [temperature |-> 26, humidity |-> 61],
                [temperature |-> 40, humidity |-> 31],
                [temperature |-> 21, humidity |-> 69] >>
=============================================================================
