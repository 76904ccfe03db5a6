------------------------------- MODULE Alarms -------------------------------
(* What a set of timers promises: each goes off when its time has come, not    *)
(* before, all that are due together, and is then due again after its period.  *)
EXTENDS Naturals

CONSTANTS Timers, Periods, Slack
VARIABLES time,
          period,  \* the period of each timer that is set, 0 of the others
          due,     \* when each timer that is set goes off next, 0 of the others
          ringing  \* the timers that went off last, until somebody waits again

vars == <<time, period, due, ringing>>

Init == /\ time \in Nat
        /\ period = [t \in Timers |-> 0] /\ due = [t \in Timers |-> 0] /\ ringing = {}

Set(t, p) == /\ period' = [period EXCEPT ![t] = p]
             /\ due' = [due EXCEPT ![t] = time + p]
             /\ UNCHANGED <<time, ringing>>

Clear(t) == /\ period' = [period EXCEPT ![t] = 0]
            /\ due' = [due EXCEPT ![t] = 0]
            /\ UNCHANGED <<time, ringing>>

Ripe == {t \in Timers : period[t] # 0 /\ due[t] <= time + Slack}

GoOff == /\ ringing = {} /\ ringing' = Ripe
         /\ due' = [t \in Timers |-> IF t \in Ripe THEN time + period[t] ELSE due[t]]
         /\ UNCHANGED <<time, period>>

Wait == ringing' = {} /\ UNCHANGED <<time, period, due>>

Tick == time' = time + 1 /\ UNCHANGED <<period, due, ringing>>

Next == \/ Tick \/ Wait \/ GoOff
        \/ \E t \in Timers : Clear(t) \/ \E p \in Periods : Set(t, p)

Spec == Init /\ [][Next]_vars
=============================================================================
