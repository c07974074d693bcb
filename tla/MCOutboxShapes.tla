--------------------------- MODULE MCOutboxShapes ---------------------------
(***************************************************************************)
(* SagaOutbox on two shapes of an execution: "order" has one saga of three *)
(* steps whose dispatches are claimed once; "stop" has two sagas of one    *)
(* step, claimed twice, in variables of its own.  A behaviour is one of    *)
(* the shape in focus.                                                     *)
(***************************************************************************)
EXTENDS MCSagaOutbox

VARIABLES shape, saga2, step2, inverse2, dispatch2, timer2, granted2, attempts2

rows2 == <<saga2, step2, inverse2, dispatch2, timer2, granted2, attempts2>>

Stop == INSTANCE SagaOutbox WITH
    Saga <- {s1, s2}, ExecutionOf <- [s \in {s1, s2} |-> e1],
    MaxSteps <- 1, MaxClaims <- 2,
    saga <- saga2, step <- step2, inverse <- inverse2, dispatch <- dispatch2,
    timer <- timer2, granted <- granted2, attempts <- attempts2

ShapesInit == shape \in {"order", "stop"} /\ Init /\ Stop!Init

ShapesNext ==
    \/ shape = "order" /\ Next /\ UNCHANGED <<shape, rows2>>
    \/ shape = "stop" /\ Stop!Next /\ UNCHANGED <<shape, vars>>

ShapesSpec == ShapesInit /\ [][ShapesNext]_<<shape, vars, rows2>>

-----------------------------------------------------------------------------
\* The sagas of an execution stop together: in the step that cancels a forward
\* dispatch, every saga of the execution is or becomes terminal
\* (ExecutionStopsTogether of SagaOutbox, on two sagas).
SagasStopTogether ==
    [][\A d \in Stop!Dispatch, s \in {s1, s2} :
          /\ Stop!DirectionOf(d) = "forward"
          /\ dispatch2[d] # "canceled" /\ dispatch2'[d] = "canceled"
          => saga2'[s] \in Stop!TerminalSaga \cup {"absent"}]_rows2
=============================================================================
