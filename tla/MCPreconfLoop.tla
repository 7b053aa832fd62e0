---------------------------- MODULE MCPreconfLoop ----------------------------
(* Values of the constants of PreconfLoop for TLC.                         *)
EXTENDS PreconfLoop

\* Nothing late; calls may fail.
TimelyEnv == [bootLag |-> 0, maxLag |-> 0, rpcFails |-> TRUE]

\* Nothing late, nothing fails.
CleanEnv == [bootLag |-> 0, maxLag |-> 0, rpcFails |-> FALSE]

\* An iteration may miss L2 slots, not a whole L1 slot; nothing fails.
PromptEnv ==
    [bootLag |-> 0, maxLag |-> SubslotsPerSlot - 1, rpcFails |-> FALSE]

\* An iteration may miss an L2 slot, and calls may fail.
FaultyEnv == [bootLag |-> 0, maxLag |-> 1, rpcFails |-> TRUE]

\* Startup may take so long that the first L2 slots of an epoch pass meanwhile.
SlowBootEnv == [bootLag |-> SubslotsPerSlot, maxLag |-> 0, rpcFails |-> TRUE]

TolerableEnvironments == {TimelyEnv, CleanEnv, PromptEnv}
UsualEnvironments == TolerableEnvironments \cup {SlowBootEnv}
TimelyEnvironments == {TimelyEnv, CleanEnv}
FaultyEnvironments == {FaultyEnv}
=============================================================================
