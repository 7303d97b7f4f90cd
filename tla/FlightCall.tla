------------------------------ MODULE FlightCall ------------------------------
(***************************************************************************)
(* The flight task's mailbox: flight_call and flight_call_service            *)
(* (rtos/rtos_tasks.c).  Tasks of the other core hand the flight task one     *)
(* call at a time; a call not yet taken may be withdrawn on a timeout, and    *)
(* one that lives in flash is refused while the flight task runs from RAM.    *)
(*                                                                         *)
(* Each access of the mailbox's state is a step of its own, except the two    *)
(* the spin lock makes whole.  A timeout may come at any look at the state.   *)
(***************************************************************************)
EXTENDS Naturals

CONSTANTS
    Callers,   \* the tasks that call
    InRam,     \* those whose call's code is in SRAM
    Nobody     \* call_fn before the first call

ASSUME FlightCallConstants == InRam \subseteq Callers /\ Nobody \notin Callers

VARIABLES
    pc,          \* where each caller is in flight_call
    ran,         \* its local of that name
    call_mutex,  \* who holds it, Nobody for none
    call_state, call_fn,
    flight,      \* where the flight task is in its period
    in_flight,   \* flash_op_in_flight()
    \* What really became of each caller's newest call, for CallOnce.
    call

caller == <<pc, ran>>
mailbox == <<call_mutex, call_state, call_fn>>
callVars == <<caller, mailbox, flight, in_flight, call>>

Goto(c, label) == pc' = [pc EXCEPT ![c] = label]

-----------------------------------------------------------------------------
\* flight_call, from another task than the flight task with the scheduler
\* running: otherwise the call is a plain one.
Enter(c) ==
    /\ pc[c] = "OUT"
    /\ Goto(c, "TAKE")
    /\ call' = [call EXCEPT ![c] = "ASKED"]
    /\ UNCHANGED <<ran, mailbox, flight, in_flight>>

Return(c, answer) ==
    /\ Goto(c, "OUT")
    /\ call' = [call EXCEPT ![c] = answer]

TakeMutex(c) ==
    /\ pc[c] = "TAKE"
    /\ call_mutex = Nobody
    /\ call_mutex' = c
    /\ Goto(c, "POST")
    /\ UNCHANGED <<ran, call_state, call_fn, flight, in_flight, call>>

MutexTimeout(c) ==
    /\ pc[c] = "TAKE"
    /\ Return(c, "FALSE")
    /\ UNCHANGED <<ran, mailbox, flight, in_flight>>

\* The function and its argument, and only then the state.
Post(c) ==
    /\ pc[c] = "POST"
    /\ call_fn' = c
    /\ Goto(c, "PEND")
    /\ UNCHANGED <<ran, call_mutex, call_state, flight, in_flight, call>>

Pend(c) ==
    /\ pc[c] = "PEND"
    /\ call_state' = "PENDING"
    /\ Goto(c, "WAIT")
    /\ UNCHANGED <<ran, call_mutex, call_fn, flight, in_flight, call>>

\* The loop is left on an answer or on the timeout.
StopWaiting(c) ==
    /\ pc[c] = "WAIT"
    /\ Goto(c, "SETTLE")
    /\ UNCHANGED <<ran, mailbox, flight, in_flight, call>>

\* Mutant: a caller whose time is up withdraws whatever is not done.
SettleOnDone(c) ==
    LET done == call_state = "DONE"
    IN  /\ pc[c] = "SETTLE"
        /\ ran' = [ran EXCEPT ![c] = done]
        /\ call_state' = IF done THEN call_state ELSE "NONE"
        /\ Goto(c, IF done THEN "UNTIL_DONE" ELSE "CLEAR")
        /\ UNCHANGED <<call_mutex, call_fn, flight, in_flight, call>>

\* Under the lock: withdrawn while pending, or refused; else it runs.
Settle(c) ==
    LET runs == call_state \notin {"PENDING", "REFUSED"}
    IN  /\ pc[c] = "SETTLE"
        /\ ran' = [ran EXCEPT ![c] = runs]
        /\ call_state' = IF runs THEN call_state ELSE "NONE"
        /\ Goto(c, IF runs THEN "UNTIL_DONE" ELSE "CLEAR")
        /\ UNCHANGED <<call_mutex, call_fn, flight, in_flight, call>>

UntilDone(c) ==
    /\ pc[c] = "UNTIL_DONE"
    /\ call_state = "DONE"
    /\ Goto(c, "CLEAR")
    /\ UNCHANGED <<ran, mailbox, flight, in_flight, call>>

Clear(c) ==
    /\ pc[c] = "CLEAR"
    /\ call_state' = "NONE"
    /\ Goto(c, "GIVE")
    /\ UNCHANGED <<ran, call_mutex, call_fn, flight, in_flight, call>>

GiveMutex(c) ==
    /\ pc[c] = "GIVE"
    /\ call_mutex' = Nobody
    /\ Return(c, IF ran[c] THEN "TRUE" ELSE "FALSE")
    /\ UNCHANGED <<ran, call_state, call_fn, flight, in_flight>>

\* Every step flight_call has left to take once it holds the mutex.
Proceed(c) ==
    \/ Post(c) \/ Pend(c) \/ StopWaiting(c) \/ Settle(c)
    \/ UntilDone(c) \/ Clear(c) \/ GiveMutex(c)

-----------------------------------------------------------------------------
\* Mutant: whatever is asked may run.
MayRunAnything(fn) == TRUE

MayRun(fn) == ~in_flight \/ fn \in InRam

\* The head of a period: the flight task enters or leaves RAM-only running,
\* as the state it is in then asks.
Period ==
    /\ flight = "IDLE"
    /\ in_flight' \in BOOLEAN
    /\ flight' = "SERVE"
    /\ UNCHANGED <<caller, mailbox, call>>

\* flight_call_service, under the lock.
Take ==
    /\ flight = "SERVE"
    /\ call_state = "PENDING" /\ MayRun(call_fn)
    /\ call_state' = "RUNNING"
    /\ flight' = "CALL"
    /\ UNCHANGED <<caller, call_mutex, call_fn, in_flight, call>>

\* Mutant: a refused call is left where it is.
RefuseSilently ==
    /\ flight = "SERVE"
    /\ ~(call_state = "PENDING" /\ MayRun(call_fn))
    /\ flight' = "IDLE"
    /\ call_state' = IF call_state = "PENDING" THEN "RUNNING" ELSE call_state
    /\ UNCHANGED <<caller, call_mutex, call_fn, in_flight, call>>

Refuse ==
    /\ flight = "SERVE"
    /\ ~(call_state = "PENDING" /\ MayRun(call_fn))
    /\ flight' = "IDLE"
    /\ call_state' = IF call_state = "PENDING" THEN "REFUSED" ELSE call_state
    /\ UNCHANGED <<caller, call_mutex, call_fn, in_flight, call>>

\* call_fn(call_arg): what it names now is what runs.
CallFn ==
    /\ flight = "CALL"
    /\ call' = [call EXCEPT ![call_fn] = "RUNNING"]
    /\ flight' = "IN_CALL"
    /\ UNCHANGED <<caller, mailbox, in_flight>>

\* The function returns, and only then is the call done.
FnReturns ==
    /\ flight = "IN_CALL"
    /\ call' = [call EXCEPT ![call_fn] = "RAN"]
    /\ flight' = "DONE"
    /\ UNCHANGED <<caller, mailbox, in_flight>>

Done ==
    /\ flight = "DONE"
    /\ call_state' = "DONE"
    /\ flight' = "IDLE"
    /\ UNCHANGED <<caller, call_mutex, call_fn, in_flight, call>>

Serve == Period \/ Take \/ Refuse \/ CallFn \/ FnReturns \/ Done

-----------------------------------------------------------------------------
CallInit ==
    /\ pc = [c \in Callers |-> "OUT"]
    /\ ran = [c \in Callers |-> FALSE]
    /\ call_mutex = Nobody
    /\ call_state = "NONE"
    /\ call_fn = Nobody
    /\ flight = "IDLE"
    /\ in_flight = FALSE
    /\ call = [c \in Callers |-> "NONE"]

CallNext == Serve \/ \E c \in Callers : Enter(c) \/ TakeMutex(c) \/ MutexTimeout(c) \/ Proceed(c)

\* The flight task's loop and the callers' tasks are scheduled; a wait for the
\* mutex ends at its timeout at the latest.
CallFairness ==
    /\ WF_callVars(Serve)
    /\ \A c \in Callers : WF_callVars(Proceed(c)) /\ WF_callVars(TakeMutex(c) \/ MutexTimeout(c))

CallSpec == CallInit /\ [][CallNext]_callVars /\ CallFairness

-----------------------------------------------------------------------------
Labels == {"OUT", "TAKE", "POST", "PEND", "WAIT", "SETTLE", "UNTIL_DONE", "CLEAR", "GIVE"}
CallStates == {"NONE", "PENDING", "RUNNING", "DONE", "REFUSED"}
FlightSteps == {"IDLE", "SERVE", "CALL", "IN_CALL", "DONE"}

CallTypeOK ==
    /\ pc \in [Callers -> Labels]
    /\ ran \in [Callers -> BOOLEAN]
    /\ call_mutex \in Callers \cup {Nobody} /\ call_fn \in Callers \cup {Nobody}
    /\ call_state \in CallStates
    /\ flight \in FlightSteps /\ in_flight \in BOOLEAN
    /\ call \in [Callers -> {"NONE", "TRUE", "FALSE", "ASKED", "RUNNING", "RAN"}]

\* The mailbox keeps the promise of its header: a call runs at most once, and
\* never after its caller was told it would not, when the caller's stack, which
\* the argument points into, is another function's.
Promise == INSTANCE CallOnce
KeepsPromise == Promise!Init /\ [][Promise!Next]_call

\* FLT-RT-02: from the first period airborne until landing the flight task runs
\* nothing that lives in flash.
FlashCodeGrounded ==
    flight \in {"CALL", "IN_CALL"} /\ call_fn \notin InRam => ~in_flight

\* A caller always gets its answer: the wait is bounded by the timeout and by
\* the call's own run.
Answered == \A c \in Callers : pc[c] # "OUT" ~> pc[c] = "OUT"
=============================================================================
