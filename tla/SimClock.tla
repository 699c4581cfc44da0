------------------------------- MODULE SimClock -------------------------------
(***************************************************************************)
(* The simulated time that the watchdog and the timing checker are given.  *)
(*                                                                         *)
(* time is the SystemC clock in units of 64 ns.  What the checkers see of  *)
(* it is static_cast<unsigned int> of the nanoseconds, which on the x86-64 *)
(* build keeps the low 32 bits: their clock starts again every 2^26 units  *)
(* (4.29 s).  dut_bridge's poll and the watchdog's probe have the same     *)
(* period, 1 ms unless a test configures another tick.                     *)
(***************************************************************************)
EXTENDS Integers

CONSTANTS
  period_ms,   \* simulated time between two polls and between two probes
  MaxPeriods   \* bound of the runs: periods until the clock stands still

UINT_UNITS == 67108864   \* 2^32 ns
MS_UNITS == 15625        \* 1000000 ns
MS_MAX == 4294           \* the last millisecond before the clock wraps

ASSUME ClockAssumption == period_ms \in Nat \ {0} /\ MaxPeriods \in Nat

VARIABLE time

Bounded == time >= MaxPeriods * period_ms * MS_UNITS

(* wait(period_ms, SC_MS)                                                  *)
Wait == ~Bounded /\ time' = time + period_ms * MS_UNITS

(* Mutant: the timestamp keeps all its bits.                               *)
UnsignedFull(clock) == clock

Unsigned(clock) == clock % UINT_UNITS

(* Mutant: the milliseconds are taken of the full clock.                   *)
MillisFull(clock) == clock \div MS_UNITS

(* timestamp_ns / 1000000u                                                 *)
Millis(clock) == Unsigned(clock) \div MS_UNITS
=============================================================================
