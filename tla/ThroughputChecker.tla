------------------------- MODULE ThroughputChecker --------------------------
(***************************************************************************)
(* throughput_checker_t (cuti/cuti/throughput_checker.hpp): whether a peer *)
(* transfers too few bytes for too many ticks of a clock.                  *)
(*                                                                         *)
(* Times are relative to the clock, so that the states of a checker are    *)
(* finitely many: left is next_tick_ minus now.                            *)
(***************************************************************************)
EXTENDS Integers, FiniteSetsExt

CONSTANTS
  MinBytes,       \* min_bytes_per_tick_
  LowTicksLimit,  \* low_ticks_limit_
  TickLength      \* tick_length_

ASSUME ThroughputAssumption ==
  /\ MinBytes \in Nat \ {0}       \* with 0, no tick is ever low
  /\ LowTicksLimit \in Nat
  /\ TickLength \in Nat \ {0}

(***************************************************************************)
(* A checker that is this much behind has every tick of the limit to count *)
(* as a low one: longer makes no difference.                               *)
(***************************************************************************)
MaxOverdue == TickLength * LowTicksLimit

Checkers ==
  [left : -MaxOverdue .. TickLength, bytes : 0 .. MinBytes, low : 0 .. LowTicksLimit]

NewChecker == [left |-> TickLength, bytes |-> 0, low |-> 0]

TimePasses(c) == [c EXCEPT !.left = Max({@ - 1, -MaxOverdue})]

\* The ticks that record_transfer() finds have passed.
PassedTicks(c) == IF c.left > 0 THEN 0 ELSE (-c.left) \div TickLength + 1

\* The low ticks among them: the bytes recorded count for the first.
LowTicks(c) ==
  CASE PassedTicks(c) = 0 \/ c.low = LowTicksLimit -> c.low
    [] OTHER -> LET first == IF c.bytes < MinBytes THEN c.low + 1 ELSE 0
                IN  Min({first + PassedTicks(c) - 1, LowTicksLimit})

\* Mutant of RecordTransfer: the low ticks are forgotten at the next tick.
RecordTransferForgets(c, n) ==
  [left  |-> c.left + PassedTicks(c) * TickLength,
   bytes |-> Min({(IF PassedTicks(c) = 0 THEN c.bytes ELSE 0) + n, MinBytes}),
   low   |-> IF PassedTicks(c) = 0 THEN c.low ELSE 0]

RecordTransfer(c, n) ==
  [left  |-> c.left + PassedTicks(c) * TickLength,
   bytes |-> Min({(IF PassedTicks(c) = 0 THEN c.bytes ELSE 0) + n, MinBytes}),
   low   |-> LowTicks(c)]

TooSlow(c) == c.low = LowTicksLimit

=============================================================================
