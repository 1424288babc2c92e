---------------------------- MODULE SyncTraining ----------------------------
(***************************************************************************)
(* What train_data_parallel promises (onnxsim/distributed.py, docstring    *)
(* and docs/distributed-data-parallel-plan.md), without processes or       *)
(* pipes: training is a sequence of steps, each step averages one gradient *)
(* of every worker, all computed from the parameters the step started      *)
(* with, and the call returns after NumSteps of them or raises.            *)
(***************************************************************************)
EXTENDS Naturals, Sequences

CONSTANTS Workers, NumSteps

VARIABLES
    averaged,  \* averaged[k][w]: the version of the parameters w's gradient
               \* of step k was computed from
    status     \* of the call

Init == averaged = <<>> /\ status = "training"

\* The parameters are at version Len(averaged): one Adam update per step.
Step == /\ status = "training" /\ Len(averaged) < NumSteps
        /\ averaged' = Append(averaged, [w \in Workers |-> Len(averaged)])
        /\ UNCHANGED status

Return == /\ status = "training" /\ Len(averaged) = NumSteps
          /\ status' = "returned" /\ UNCHANGED averaged

Raise == /\ status = "training"
         /\ status' = "raised" /\ UNCHANGED averaged

Next == Step \/ Return \/ Raise

Spec == Init /\ [][Next]_<<averaged, status>>
=============================================================================
