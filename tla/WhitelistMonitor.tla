--------------------------- MODULE WhitelistMonitor ---------------------------
(***************************************************************************)
(* The list of operators a loop keeps, as the code keeps it: the Vec of    *)
(* (epoch, operator) pairs of taiko-preconfer/src/util.rs.  It implements  *)
(* WhitelistSpec, whose operators the loops are modelled with.             *)
(*                                                                         *)
(* A call of the contract that fails changes nothing: that is a stuttering *)
(* step here.                                                              *)
(***************************************************************************)
EXTENDS Integers, Sequences

CONSTANTS
    Operators,  \* the addresses the whitelist may elect
    NoOperator, \* Address::ZERO, the operator of the default entry
    LastEpoch   \* BOUND: the last epoch a loop passes to its monitor

ASSUME MonitorAssumption == LastEpoch \in Nat /\ NoOperator \notin Operators

VARIABLES
    operators,  \* the Vec
    lastCall    \* the last epoch the loop has passed to the monitor

vars == <<operators, lastCall>>

\* The epochs the contract is asked about.
Epochs == 0..(LastEpoch + 1)

ActiveOperator == [epoch : Epochs, operator : Operators]

Default == [epoch |-> 0, operator |-> NoOperator]

Init ==
    /\ operators = <<>>
    /\ lastCall \in 0..LastEpoch

-----------------------------------------------------------------------------
(* Reading the list.                                                       *)

IsActiveIn(preconfer, epoch) ==
    \E i \in DOMAIN operators :
        operators[i] = [epoch |-> epoch, operator |-> preconfer]

\* Mistake: the entries are not counted.
IsCurrentAndNextUncounted(preconfer) ==
    \A i \in DOMAIN operators : operators[i].operator = preconfer

IsCurrentAndNext(preconfer) ==
    /\ Len(operators) = 2
    /\ \A i \in DOMAIN operators : operators[i].operator = preconfer

-----------------------------------------------------------------------------
(* The calls of a loop.                                                    *)

\* Vec::retain: the entries of `list' that are in `kept', in their order.
Retain(list, kept) ==
    LET retained[n \in 0..Len(list)] ==
            IF n = 0 THEN <<>>
            ELSE IF list[n] \in kept THEN Append(retained[n - 1], list[n])
            ELSE retained[n - 1]
    IN  retained[Len(list)]

EntriesOf(epochs) == {entry \in ActiveOperator : entry.epoch \in epochs}

\* A loop reads the epoch from the clock, so that it never decreases.
Later == lastCall..LastEpoch

\* Both branches of the code put the entry first.
UpdateCurrentOperator(epoch, operator) ==
    operators' = <<[epoch |-> epoch, operator |-> operator]>>
                   \o Retain(operators, EntriesOf({e \in Epochs : e > epoch}))

\* Mistake: the entry of the next epoch is not looked for.
UpdateNextOperatorPushes(epoch, operator) ==
    operators' = Append(Retain(operators, EntriesOf({epoch, epoch + 1})),
                        [epoch |-> epoch + 1, operator |-> operator])

\* Mistake: the next epoch is counted from the next one.
UpdateNextOperatorLater(epoch, operator) ==
    operators' = Append(Retain(operators, EntriesOf({epoch, epoch + 1})),
                        [epoch |-> epoch + 2, operator |-> operator])

\* The entry of the next epoch is replaced if it is there, the last one of
\* those that are kept.
UpdateNextOperator(epoch, operator) ==
    LET kept == Retain(operators, EntriesOf({epoch, epoch + 1}))
        last == IF kept = <<>> THEN Default ELSE kept[Len(kept)]
    IN  operators' =
            IF last.epoch < epoch + 1
            THEN Append(kept, [epoch |-> epoch + 1, operator |-> operator])
            ELSE [kept EXCEPT ![Len(kept)].operator = operator]

\* Mistake: the epoch that begins is dropped with those before it.
ChangeEpochEarly(epoch) ==
    operators' = Retain(operators, EntriesOf({e \in Epochs : e > epoch}))

ChangeEpoch(epoch) ==
    operators' = Retain(operators, EntriesOf({e \in Epochs : e >= epoch}))

\* At startup, before any other call.
UpdateCurrent ==
    /\ operators = <<>>
    /\ \E operator \in Operators : UpdateCurrentOperator(lastCall, operator)
    /\ UNCHANGED lastCall

UpdateNext ==
    \E epoch \in Later, operator \in Operators :
        UpdateNextOperator(epoch, operator) /\ lastCall' = epoch

Change ==
    \E epoch \in Later : ChangeEpoch(epoch) /\ lastCall' = epoch

Next == UpdateCurrent \/ UpdateNext \/ Change

Spec == Init /\ [][Next]_vars

-----------------------------------------------------------------------------
(* Properties.                                                             *)

TypeOK ==
    /\ operators \in Seq(ActiveOperator)
    /\ lastCall \in 0..LastEpoch

\* The entries are in the order of their epochs, one per epoch: `last' is the
\* latest epoch, and `contains' finds no second operator of an epoch, although
\* entries are inserted, pushed and overwritten in place.
OnePerEpoch ==
    \A i, j \in DOMAIN operators :
        i < j => operators[i].epoch < operators[j].epoch

\* The list as a function of the epoch.
Known ==
    [e \in {operators[i].epoch : i \in DOMAIN operators} |->
        LET i == CHOOSE j \in DOMAIN operators : operators[j].epoch = e
        IN  operators[i].operator]

Abstract == INSTANCE WhitelistSpec WITH known <- Known

\* Every call changes the list as WhitelistSpec says.
ImplementsSpec == Abstract!Spec

\* What a loop reads from the list is what it would read from the function.
ReadsAgree ==
    \A o \in Operators :
        /\ IsCurrentAndNext(o) <=> Abstract!IsCurrentAndNext(Known, o)
        /\ \A e \in Epochs :
              IsActiveIn(o, e) <=> Abstract!IsActiveIn(Known, o, e)
=============================================================================
