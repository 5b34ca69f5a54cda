------------------------------ MODULE Interval ------------------------------
(***************************************************************************)
(* interval_func.go: a function called again and again, d after its last   *)
(* return, until Stop.  The timer starts run on a goroutine of its own;    *)
(* run looks at stopped under the interval's mutex, releases it, calls the *)
(* function, and takes the mutex again to arm the timer.  Stop may come    *)
(* between any two of these.                                               *)
(*                                                                         *)
(* The function belongs to the user of the interval, who composes Call     *)
(* with what it does; it is one step, the critical section of the sweep.   *)
(***************************************************************************)
VARIABLES
    phase,      \* of the timer and of run
    stopped     \* Interval.stopped

intervalVars == <<phase, stopped>>

IntervalTypeOK ==
    /\ phase \in {"armed", "fired", "checked", "returned", "idle"}
    /\ stopped \in BOOLEAN

\* IntervalFunc
IntervalInit == phase = "armed" /\ stopped = FALSE

Fire ==
    /\ phase = "armed"
    /\ phase' = "fired"
    /\ UNCHANGED stopped

\* The look at stopped, after which the mutex is free again.
Check ==
    /\ phase = "fired"
    /\ phase' = IF stopped THEN "idle" ELSE "checked"
    /\ UNCHANGED stopped

\* f(i), whatever has happened to stopped by now.
Call ==
    /\ phase = "checked"
    /\ phase' = "returned"
    /\ UNCHANGED stopped

\* Fault: the condition is the wrong way round.
RearmInverted ==
    /\ phase = "returned"
    /\ phase' = IF stopped THEN "armed" ELSE "idle"
    /\ UNCHANGED stopped

\* Fault: stopped is not looked at after the call.
RearmAnyway ==
    /\ phase = "returned"
    /\ phase' = "armed"
    /\ UNCHANGED stopped

\* The timer is armed again unless Stop came during the call.
Rearm ==
    /\ phase = "returned"
    /\ phase' = IF stopped THEN "idle" ELSE "armed"
    /\ UNCHANGED stopped

\* Stop; a timer that has fired already is not taken back.
Stop ==
    /\ stopped' = TRUE
    /\ phase' = IF phase = "armed" /\ ~stopped THEN "idle" ELSE phase

=============================================================================
