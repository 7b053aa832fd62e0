---------------------------- MODULE WhitelistSpec ----------------------------
(***************************************************************************)
(* What a WhitelistMonitor promises its loop: it knows the operator of     *)
(* each of some epochs, one per epoch, and the calls of                    *)
(* taiko-preconfer/src/util.rs change them as WhitelistView says.          *)
(***************************************************************************)
EXTENDS WhitelistView

CONSTANTS
    Operators,  \* the addresses the whitelist may elect
    LastEpoch   \* BOUND: the last epoch a loop passes to its monitor

VARIABLES
    known,      \* the epochs the monitor knows of, with their operators
    lastCall    \* the last epoch the loop has passed to it

vars == <<known, lastCall>>

Nothing == [e \in {} |-> CHOOSE o \in Operators : TRUE]

Init ==
    /\ known = Nothing
    /\ lastCall \in 0..LastEpoch

\* A loop reads the epoch from the clock, so that it never decreases.
Later == lastCall..LastEpoch

\* At startup, before any other call.
UpdateCurrent ==
    /\ known = Nothing
    /\ \E operator \in Operators :
          known' = UpdateCurrentOperator(known, lastCall, operator)
    /\ UNCHANGED lastCall

UpdateNext ==
    \E epoch \in Later, operator \in Operators :
        /\ known' = UpdateNextOperator(known, epoch, operator)
        /\ lastCall' = epoch

Change ==
    \E epoch \in Later :
        /\ known' = ChangeEpoch(known, epoch)
        /\ lastCall' = epoch

Next == UpdateCurrent \/ UpdateNext \/ Change

Spec == Init /\ [][Next]_vars
=============================================================================
