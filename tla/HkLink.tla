-------------------------------- MODULE HkLink --------------------------------
(***************************************************************************)
(* Periodic housekeeping over the RS485 link,                              *)
(* src/src/comm/comm_rs485_hk.c: a frame is staged when the interval since *)
(* the last attempt has passed, and handed to the link in the next cycle.  *)
(* What is in the frame is left out; the status reports that carry faults  *)
(* are Escalate of Fdir.                                                   *)
(***************************************************************************)
EXTENDS Integers

CONSTANT AgeBound   \* bound of the model: no legal interval is longer

VARIABLES
    attempted,   \* s_attempted
    age,         \* now - s_last_attempt_ms, in minor cycles, up to AgeBound
    staged       \* s_staged # 0

hkVars == <<attempted, age, staged>>

HkInit == attempted = FALSE /\ age = 0 /\ staged = FALSE

\* comm_rs485_hk_init() after a processor reset.
HkRestart == attempted' = FALSE /\ age' = 0 /\ staged' = FALSE

\* Seeded fault: an interval that has just passed is not taken as passed.
IntervalExceeded(period) == ~attempted \/ age > period

IntervalPassed(period) == ~attempted \/ age >= period

\* comm_rs485_hk_stage(): marked before building, and a frame whose readings could
\* not be taken goes out all the same.
Stage(period) ==
    IF IntervalPassed(period)
    THEN attempted' = TRUE /\ age' = 0 /\ staged' = TRUE
    ELSE UNCHANGED hkVars

\* comm_rs485_hk_transmit(): the frame is dropped whether or not the link took it.
Transmit == staged' = FALSE /\ UNCHANGED <<attempted, age>>

AgeBy(cycles) ==
    /\ age' = IF age + cycles > AgeBound THEN AgeBound ELSE age + cycles
    /\ UNCHANGED <<attempted, staged>>
=============================================================================
