---------------------------- MODULE WhitelistView ----------------------------
(***************************************************************************)
(* What a loop knows of the whitelist: taiko-preconfer/src/util.rs.        *)
(*                                                                         *)
(* The code keeps a Vec of (epoch, operator) pairs.  It is sorted by epoch *)
(* and names an epoch once (WhitelistMonitor.tla checks that), so here it  *)
(* is a function from the known epochs to their operators.                 *)
(***************************************************************************)
EXTENDS Integers, FiniteSets

\* The part of `known' whose epochs are in `kept'.
RetainEpochs(known, kept) == [e \in DOMAIN known \cap kept |-> known[e]]

WithOperator(known, epoch, operator) ==
    [e \in DOMAIN known \cup {epoch} |->
        IF e = epoch THEN operator ELSE known[e]]

\* Mistake: one epoch too many is kept.
ChangeEpochLate(known, epoch) ==
    RetainEpochs(known, {e \in DOMAIN known : e + 1 >= epoch})

\* change_epoch
ChangeEpoch(known, epoch) ==
    RetainEpochs(known, {e \in DOMAIN known : e >= epoch})

\* update_current_operator, once the contract has answered with `operator'
UpdateCurrentOperator(known, epoch, operator) ==
    WithOperator(RetainEpochs(known, {e \in DOMAIN known : e > epoch}),
                 epoch, operator)

\* Mistake: no entry is dropped.
UpdateNextOperatorKeepsAll(known, epoch, operator) ==
    WithOperator(known, epoch + 1, operator)

\* Mistake: the operator is filed under the current epoch.
UpdateNextOperatorAsCurrent(known, epoch, operator) ==
    WithOperator(RetainEpochs(known, {epoch, epoch + 1}), epoch, operator)

\* update_next_operator, once the contract has answered with `operator'
UpdateNextOperator(known, epoch, operator) ==
    WithOperator(RetainEpochs(known, {epoch, epoch + 1}), epoch + 1, operator)

IsActiveIn(known, preconfer, epoch) ==
    epoch \in DOMAIN known /\ known[epoch] = preconfer

\* Mistake: the entries are not counted.
IsCurrentAndNextUncounted(known, preconfer) ==
    \A e \in DOMAIN known : known[e] = preconfer

\* The code counts two entries and compares their operators; it does not ask
\* which two epochs they are of.
IsCurrentAndNext(known, preconfer) ==
    /\ Cardinality(DOMAIN known) = 2
    /\ \A e \in DOMAIN known : known[e] = preconfer
=============================================================================
