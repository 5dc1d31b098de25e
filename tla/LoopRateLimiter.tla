-------------------------- MODULE LoopRateLimiter --------------------------
(***************************************************************************)
(* curuntime.rs: the limiter of the run loop.  Deadlines are absolute, so  *)
(* that a late iteration neither shifts the phase nor is made up for.      *)
(* Time is counted in units of the clock.                                  *)
(***************************************************************************)
EXTENDS Integers

CONSTANTS
  Period,    \* rate_target_period: one second over the rate
  MaxTime    \* bound: the clock stops there

ASSUME LimiterAssumption == Period \in Nat \ {0} /\ MaxTime \in Nat

VARIABLES
  now,             \* clock.now()
  next_deadline,
  \* history
  phase,           \* when the limiter was made
  last_tick        \* when mark_tick was called last

limiter_vars == <<now, next_deadline, phase, last_tick>>

LimiterInit ==
  now = 0 /\ next_deadline = 0 /\ phase = 0 /\ last_tick = 0

Tick ==
  /\ now < MaxTime
  /\ now' = now + 1
  /\ UNCHANGED <<next_deadline, phase, last_tick>>

FromRateTarget ==
  /\ next_deadline' = now + Period
  /\ phase' = now
  /\ last_tick' = now
  /\ UNCHANGED now

is_ready(deadline) == now >= deadline

advance_from_now(time, deadline) == time + Period
advance_from(time, deadline) ==
  LET steps == IF time < deadline
                 THEN 1
                 ELSE (time - deadline) \div Period + 1
  IN  deadline + steps * Period

\* limit(): wait_until_ready sleeps as long as it must; then mark_tick
Limit ==
  /\ is_ready(next_deadline)
  /\ next_deadline' = advance_from(now, next_deadline)
  /\ last_tick' = now
  /\ UNCHANGED <<now, phase>>

\* The deadline keeps the phase the limiter started with, and is the first
\* such time after the last tick: no drift, and no two ticks in one period.
PhaseKept ==
  /\ (next_deadline - phase) % Period = 0
  /\ next_deadline # phase =>
       next_deadline \in (last_tick + 1)..(last_tick + Period)
=============================================================================
