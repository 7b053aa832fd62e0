------------------------------ MODULE MCAnchor ------------------------------
(* Values of the constants of Anchor for TLC.                              *)
EXTENDS Anchor, TLC

\* An L1 slot may be missed.
MissedEnv == [missed |-> TRUE, late |-> FALSE, restarts |-> FALSE]

\* Headers may come a slot late.
LateEnv == [missed |-> FALSE, late |-> TRUE, restarts |-> FALSE]

\* Processes may be started again.
RestartsEnv == [missed |-> FALSE, late |-> FALSE, restarts |-> TRUE]

UsualEnvironments == {MissedEnv, LateEnv, RestartsEnv}

\* Nothing distinguishes the operators but what they did.
OperatorSymmetry == Permutations(Operators)
=============================================================================
