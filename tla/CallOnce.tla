------------------------------- MODULE CallOnce -------------------------------
(***************************************************************************)
(* What flight_call promises (rtos/rtos_tasks.h): a call runs at most once,  *)
(* in the flight task, one at a time; its caller is told TRUE when it has    *)
(* run to its end, and FALSE when it did not run and will not.               *)
(***************************************************************************)
CONSTANT Callers

\* What became of each caller's newest call.
VARIABLE call

Answers == {"NONE", "TRUE", "FALSE"}

TypeOK == call \in [Callers -> Answers \cup {"ASKED", "RUNNING", "RAN"}]

Init == call = [c \in Callers |-> "NONE"]

Ask(c) == call[c] \in Answers /\ call' = [call EXCEPT ![c] = "ASKED"]

Run(c) ==
    /\ call[c] = "ASKED"
    /\ \A d \in Callers : call[d] # "RUNNING"
    /\ call' = [call EXCEPT ![c] = "RUNNING"]

Finish(c) == call[c] = "RUNNING" /\ call' = [call EXCEPT ![c] = "RAN"]

TellRan(c) == call[c] = "RAN" /\ call' = [call EXCEPT ![c] = "TRUE"]

TellNot(c) == call[c] = "ASKED" /\ call' = [call EXCEPT ![c] = "FALSE"]

Next == \E c \in Callers : Ask(c) \/ Run(c) \/ Finish(c) \/ TellRan(c) \/ TellNot(c)

Spec == Init /\ [][Next]_call
=============================================================================
