-------------------------- MODULE MCDispatcherRest --------------------------
(***************************************************************************)
(* The liveness of Dispatcher on two instances of one saga with two steps: *)
(* "crash" has two faults, a budget of one attempt and three claims;       *)
(* "retry" has no faults, a budget of two attempts and two claims.         *)
(***************************************************************************)
EXTENDS Naturals

CONSTANTS s1, e1

VARIABLES mode, saga, step, inverse, dispatch, timer, granted, attempts,
          call, request, faults

state == <<saga, step, inverse, dispatch, timer, granted, attempts, call, request, faults>>

\* The first step declares a sink-guaranteed destination, the other does not.
FirstStepRetries == {s1} \X {1} \X {"forward", "compensation"}

Crash == INSTANCE Dispatcher WITH
    Saga <- {s1}, Execution <- {e1}, ExecutionOf <- [s \in {s1} |-> e1],
    RetryUnknown <- FirstStepRetries, MaxSteps <- 2,
    MaxClaims <- 3, MaxAttempts <- 1, MaxFaults <- 2

Retry == INSTANCE Dispatcher WITH
    Saga <- {s1}, Execution <- {e1}, ExecutionOf <- [s \in {s1} |-> e1],
    RetryUnknown <- FirstStepRetries, MaxSteps <- 2,
    MaxClaims <- 2, MaxAttempts <- 2, MaxFaults <- 0

RestInit ==
    \/ mode = "crash" /\ Crash!DispatcherInit
    \/ mode = "retry" /\ Retry!DispatcherInit

RestNext ==
    \/ mode = "crash" /\ Crash!DispatcherNext /\ UNCHANGED mode
    \/ mode = "retry" /\ Retry!DispatcherNext /\ UNCHANGED mode

\* The fairness of Dispatcher, for the instance that runs.
Claims(d) ==
    /\ \/ mode = "crash" /\ Crash!Claims(d)
       \/ mode = "retry" /\ Retry!Claims(d)
    /\ UNCHANGED mode

Elapse(d) ==
    /\ \/ mode = "crash" /\ Crash!Elapse(d)
       \/ mode = "retry" /\ Retry!Elapse(d)
    /\ UNCHANGED mode

Proceed(d, a) ==
    /\ \/ mode = "crash" /\ Crash!Proceed(d, a)
       \/ mode = "retry" /\ a \in Retry!Claim /\ Retry!Proceed(d, a)
    /\ UNCHANGED mode

RestFairness ==
    \A d \in Crash!Dispatch :
        /\ WF_<<mode, state>>(Claims(d))
        /\ WF_<<mode, state>>(Elapse(d))
        /\ \A a \in Crash!Claim : WF_<<mode, state>>(Proceed(d, a))

RestSpec == RestInit /\ [][RestNext]_<<mode, state>> /\ RestFairness

-----------------------------------------------------------------------------
\* Every saga with work to do comes to rest, whether its workers crash and
\* outlive their leases or its steps and inverses are retried (Dispatcher).
EventuallyAtRest ==
    (saga[s1] \in {"running", "compensating"})
        ~> \/ saga[s1] \in Crash!TerminalSaga
           \/ \A d \in Crash!Dispatch : dispatch[d] \in {"absent", "succeeded"}
=============================================================================
