------------------------------- MODULE MCL2Head -------------------------------
(* Values of the constants of L2Head for TLC.                              *)
EXTENDS L2Head

CalmEnv == [keepsUp |-> TRUE, settled |-> TRUE, spaced |-> TRUE,
            fails |-> FALSE, forks |-> 2, own |-> 1..MaxNumber,
            confirms |-> FALSE]

\* This preconfer confirms meanwhile; the first block is another's.
ConfirmsEnv == [CalmEnv EXCEPT !.confirms = TRUE, !.forks = 1,
                               !.own = 2..MaxNumber]

\* A poll may be late, and calls may fail.
LatePollEnv == [CalmEnv EXCEPT !.keepsUp = FALSE, !.spaced = FALSE,
                               !.fails = TRUE, !.forks = 1]

\* The subscription may be late, and calls may fail.
LateBlocksEnv == [CalmEnv EXCEPT !.settled = FALSE, !.spaced = FALSE,
                                 !.fails = TRUE, !.forks = 1]

\* No block is replaced, and this preconfer confirms meanwhile.
LateConfirmsEnv == [LateBlocksEnv EXCEPT !.forks = 0, !.confirms = TRUE]

\* Batches may follow each other before the first of them is verified.
CrowdedEnv == [CalmEnv EXCEPT !.spaced = FALSE, !.forks = 0]

UsualEnvironments ==
    {CalmEnv, ConfirmsEnv, LatePollEnv, LateBlocksEnv, LateConfirmsEnv}
CrowdedEnvironments == {CrowdedEnv}
=============================================================================
