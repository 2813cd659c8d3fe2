------------------------------- MODULE Timer --------------------------------
(***************************************************************************)
(* The timer, kernel/src/timer.c: a tick counter that the tick interrupt   *)
(* moves on and that a delay of the main program reads twice.              *)
(***************************************************************************)
EXTENDS Naturals

CONSTANT TickValues      \* values of the counter (2^32)

ASSUME TimerAssumption == TickValues \in Nat \ {0}

VARIABLES
  ticks,                 \* _ticks
  start                  \* start in timer_delay_ticks

tvars == <<ticks, start>>

TimerInit == ticks = 0 /\ start = 0

(* Mutant: the counter does not wrap.                                      *)
TickUnwrapped == ticks' = ticks + 1 /\ UNCHANGED start
TickHandler == ticks' = (ticks + 1) % TickValues /\ UNCHANGED start

(* timer_delay_ticks(n): the loop halts the processor while start + n is   *)
(* below the counter, and so ends at once unless more than n ticks came    *)
(* since start was read, or start + n wraps.                               *)
DelayStart   == start' = ticks /\ UNCHANGED ticks
DelayHalts(n) == (start + n) % TickValues < ticks
DelayEnd(n)  == ~DelayHalts(n) /\ start' = 0 /\ UNCHANGED ticks
=============================================================================
