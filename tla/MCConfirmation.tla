---------------------------- MODULE MCConfirmation ----------------------------
(* Values of the constants of Confirmation for TLC.                        *)
EXTENDS Confirmation

CalmEnv == [rpcFails |-> FALSE, losesAnswers |-> FALSE, slowThread |-> FALSE,
            slowTracker |-> FALSE, congested |-> FALSE, crash |-> "never",
            missed |-> -1]

\* Calls may fail.
FailingEnv == [CalmEnv EXCEPT !.rpcFails = TRUE]

\* Calls may fail although L1 has got the proposal.
LosingEnv == [CalmEnv EXCEPT !.losesAnswers = TRUE]

\* The proposing thread may be slow.
SlowEnv == [CalmEnv EXCEPT !.slowThread = TRUE]

\* Proposals may stay pending and be given up.
CongestedEnv == [CalmEnv EXCEPT !.congested = TRUE]

\* Batches may be handled late.
LaggingEnv == [CalmEnv EXCEPT !.slowTracker = TRUE]

\* The process may end and start again.
CrashEnv == [CalmEnv EXCEPT !.crash = "idle"]

\* An iteration may be missed.
MissedEnvs == {[CalmEnv EXCEPT !.missed = n] : n \in Slots}

CalmEnvironments == {CalmEnv}
UsualEnvironments ==
    {CalmEnv, FailingEnv, LosingEnv, SlowEnv, LaggingEnv, CrashEnv} \cup MissedEnvs
CongestedEnvironments == {CongestedEnv}
=============================================================================
