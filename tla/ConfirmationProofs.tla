-------------------------- MODULE ConfirmationProofs --------------------------
(***************************************************************************)
(* Theorems about Confirmation, for every layout of epochs and every       *)
(* environment: the types; that a batch is chosen only in an epoch this    *)
(* preconfer was elected for; and that the batches of the inbox hold the   *)
(* blocks in their order, none twice and none left out before it was too   *)
(* late for it.  Calls may fail, an iteration may be missed and the        *)
(* process may end and start again, all in one behaviour.  Where nothing   *)
(* fails and the layout leaves time for the batches, no block is left out: *)
(* L1 has all of this preconfer's when another operator's epoch begins.    *)
(***************************************************************************)
EXTENDS Confirmation, FiniteSetTheorems, SequenceTheorems, WellFoundedInduction, TLAPS

-----------------------------------------------------------------------------
(* The invariant.                                                          *)

\* What the loop has stored is what the whitelist has elected.
IsTrue(list) == \A e \in DOMAIN list : list[e] = schedule[e]

StoredIsTrue ==
    /\ IsTrue(operators)
    /\ \A e \in activeEpoch : schedule[e] = Me

\* A process that is down or starting knows nothing.
KnowsNothing == pc \in {"down", "boot"} => DOMAIN operators = {}

ListAbout(e) == DOMAIN operators \subseteq {e, e + 1}
FirstSlot == now - Here.slot

\* The list is about this epoch and the next one.  It is about an epoch before
\* at the beginning of an epoch, and longer where the iteration that changes
\* the epoch is missed: there may be one such iteration in a behaviour.
ListOfItsTime ==
    \/ ListAbout(Here.epoch)
    \/ /\ ListAbout(Here.epoch - 1)
       /\ env.missed = FirstSlot \/ (now = FirstSlot /\ ~iterated)
    \/ /\ ListAbout(Here.epoch - 2)
       /\ env.missed = now - SlotsPerEpoch /\ now = FirstSlot /\ ~iterated

TurnInv == now \in Nat /\ StoredIsTrue /\ KnowsNothing /\ ListOfItsTime

-----------------------------------------------------------------------------
(* Slots and epochs.                                                       *)

\* A slot has one position.
LEMMA Position ==
    ASSUME NEW n \in Nat, NEW e \in Nat, NEW s \in 0..(SlotsPerEpoch - 1),
           n = e * SlotsPerEpoch + s
    PROVE  At(n) = [epoch |-> e, slot |-> s]
  <1> DEFINE q == n \div SlotsPerEpoch
             r == n % SlotsPerEpoch
             S == SlotsPerEpoch
  <1>1. S \in Nat /\ S > 0
    BY SlotsAssumption
  <1>2. q \in Int /\ r \in 0..(S - 1) /\ n = q * S + r
    BY <1>1
  <1> HIDE DEF q, r, S
  <1>3. e * S + s = q * S + r /\ s \in 0..(S - 1)
    BY <1>2 DEF S
  <1>4. (q - e) * S = s - r
    BY <1>1, <1>2, <1>3
  <1>5. q - e < 1
    <2>1. SUFFICES ASSUME q - e >= 1 PROVE FALSE
      BY <1>2
    <2>2. (q - e) * S >= S
      BY <1>1, <1>2, <2>1
    <2> QED
      BY <1>1, <1>2, <1>3, <1>4, <2>2
  <1>6. q - e > -1
    <2>1. SUFFICES ASSUME q - e <= -1 PROVE FALSE
      BY <1>2
    <2>2. (q - e) * S <= -S
      BY <1>1, <1>2, <2>1
    <2> QED
      BY <1>1, <1>2, <1>3, <1>4, <2>2
  <1>7. q = e
    BY <1>2, <1>5, <1>6
  <1>8. r = s
    BY <1>1, <1>2, <1>3, <1>7
  <1> QED
    BY <1>7, <1>8 DEF At, q, r, S

\* The epoch and slot of a position.
LEMMA PositionType ==
    ASSUME NEW n \in Nat
    PROVE  /\ At(n).epoch \in Nat /\ At(n).slot \in 0..(SlotsPerEpoch - 1)
           /\ n = At(n).epoch * SlotsPerEpoch + At(n).slot
  <1>1. SlotsPerEpoch \in Nat /\ SlotsPerEpoch > 0
    BY SlotsAssumption
  <1>2. /\ n \div SlotsPerEpoch \in Int /\ n % SlotsPerEpoch \in 0..(SlotsPerEpoch - 1)
        /\ n = (n \div SlotsPerEpoch) * SlotsPerEpoch + (n % SlotsPerEpoch)
    BY <1>1
  <1>3. n \div SlotsPerEpoch >= 0
    BY <1>1, <1>2
  <1>4. At(n).epoch = n \div SlotsPerEpoch /\ At(n).slot = n % SlotsPerEpoch
    BY DEF At
  <1> HIDE DEF At
  <1>5. n \div SlotsPerEpoch \in Nat
    BY <1>2, <1>3
  <1> QED
    BY <1>2, <1>4, <1>5

\* The slot after the last one of an epoch is the first of the next.
LEMMA NextPosition ==
    ASSUME NEW n \in Nat
    PROVE  At(n + 1) = IF At(n).slot = SlotsPerEpoch - 1
                       THEN [epoch |-> At(n).epoch + 1, slot |-> 0]
                       ELSE [epoch |-> At(n).epoch, slot |-> At(n).slot + 1]
  <1> DEFINE e == At(n).epoch
             s == At(n).slot
             S == SlotsPerEpoch
  <1>1. S \in Nat /\ S > 0
    BY SlotsAssumption
  <1>2. e \in Nat /\ s \in 0..(S - 1) /\ n = e * S + s
    BY PositionType
  <1> HIDE DEF e, s, S
  <1>3. CASE s = S - 1
    <2>1. n + 1 = (e + 1) * S + 0
      BY <1>1, <1>2, <1>3
    <2>2. At(n + 1) = [epoch |-> e + 1, slot |-> 0]
      BY <1>1, <1>2, <2>1, Position DEF S
    <2> QED
      BY <1>3, <2>2 DEF e, s, S
  <1>4. CASE s # S - 1
    <2>1. n + 1 = e * S + (s + 1) /\ s + 1 \in 0..(S - 1)
      BY <1>1, <1>2, <1>4
    <2>2. At(n + 1) = [epoch |-> e, slot |-> s + 1]
      BY <1>1, <1>2, <2>1, Position DEF S
    <2> QED
      BY <1>4, <2>2 DEF e, s, S
  <1> QED
    BY <1>3, <1>4

\* The position of now.
LEMMA HereType ==
    ASSUME now \in Nat
    PROVE  Here.epoch \in Nat /\ Here.slot \in 0..(SlotsPerEpoch - 1)
  BY PositionType DEF Here

-----------------------------------------------------------------------------
(* The list of operators.                                                  *)

\* change_epoch leaves a part of a true list.
LEMMA ChangeEpochTrue ==
    ASSUME NEW list, IsTrue(list), NEW epoch
    PROVE  /\ DOMAIN ChangeEpoch(list, epoch) = {e \in DOMAIN list : e >= epoch}
           /\ IsTrue(ChangeEpoch(list, epoch))
  BY DEF ChangeEpoch, RetainEpochs, IsTrue

\* update_next_operator files a true answer.
LEMMA UpdateNextTrue ==
    ASSUME NEW list, IsTrue(list), NEW epoch
    PROVE  LET new == UpdateNextOperator(list, epoch, schedule[epoch + 1])
           IN  /\ DOMAIN new \subseteq {epoch, epoch + 1}
               /\ IsTrue(new)
  BY DEF UpdateNextOperator, WithOperator, RetainEpochs, IsTrue

\* So does update_current_operator.
LEMMA UpdateCurrentTrue ==
    ASSUME NEW list, IsTrue(list), NEW epoch
    PROVE  LET new == UpdateCurrentOperator(list, epoch, schedule[epoch])
           IN  /\ DOMAIN new \subseteq DOMAIN list \cup {epoch}
               /\ IsTrue(new)
  BY DEF UpdateCurrentOperator, WithOperator, RetainEpochs, IsTrue

\* A list of two entries, all of them true and about no epochs but e and another
\* one, says that the preconfer was elected for e, if it was for all in it.
LEMMA TwoEntries ==
    ASSUME NEW list, IsTrue(list),
           NEW e, NEW other, DOMAIN list \subseteq {e, other},
           IsCurrentAndNext(list, Me)
    PROVE  schedule[e] = Me
  <1>1. Cardinality(DOMAIN list) = 2 /\ \A x \in DOMAIN list : list[x] = Me
    BY DEF IsCurrentAndNext
  <1>2. SUFFICES e \in DOMAIN list
    BY <1>1 DEF IsTrue
  <1>3. SUFFICES ASSUME e \notin DOMAIN list PROVE FALSE
    OBVIOUS
  <1>4. DOMAIN list = {} \/ DOMAIN list = {other}
    BY <1>3
  <1>5. Cardinality({}) = 0 /\ Cardinality({other}) = 1
    BY FS_EmptySet, FS_Singleton
  <1> QED
    BY <1>1, <1>4, <1>5

-----------------------------------------------------------------------------
(* The steps.                                                              *)

\* Initially nothing is known.
LEMMA TurnInit == Init => TurnInv
  <1> SUFFICES ASSUME Init PROVE TurnInv
    OBVIOUS
  <1>1. now \in Nat
    BY ConfirmationAssumption, SlotsAssumption DEF Init
  <1>2. DOMAIN operators = {} /\ activeEpoch = {}
    BY DEF Init
  <1> QED
    BY <1>1, <1>2 DEF TurnInv, StoredIsTrue, IsTrue, KnowsNothing, ListOfItsTime, ListAbout

\* Nothing that the invariant is about changes in the steps of the others.
LEMMA OtherStep ==
    ASSUME TurnInv,
           UNCHANGED <<now, schedule, env, pc, iterated, operators, activeEpoch>>
    PROVE  TurnInv'
  BY DEF TurnInv, StoredIsTrue, IsTrue, KnowsNothing, ListOfItsTime, ListAbout, FirstSlot,
         Here, At

\* A step within a slot that leaves a true list of this epoch and the next one.
LEMMA ListStep ==
    ASSUME TurnInv, UNCHANGED <<now, schedule>>,
           StoredIsTrue', KnowsNothing', DOMAIN operators' \subseteq {Here.epoch, Here.epoch + 1}
    PROVE  TurnInv'
  <1>1. Here' = Here
    BY DEF Here, At
  <1> QED
    BY <1>1 DEF TurnInv, ListOfItsTime, ListAbout

\* Time goes on: the list gets older when an epoch ends.
LEMMA TickStep ==
    ASSUME TurnInv, Tick
    PROVE  TurnInv'
  <1> DEFINE e == Here.epoch
             s == Here.slot
  <1>1. /\ now \in Nat /\ now' = now + 1 /\ iterated' = FALSE
        /\ UNCHANGED <<schedule, env, pc, operators, activeEpoch>>
    BY DEF TurnInv, Tick
  <1>2. /\ pc = "down" => DOMAIN operators = {}
        /\ pc # "down" => iterated \/ now = env.missed
    BY DEF Tick, SlotIsOver, TurnInv, KnowsNothing
  <1>3. StoredIsTrue' /\ KnowsNothing'
    BY <1>1 DEF TurnInv, StoredIsTrue, IsTrue, KnowsNothing
  <1>4. /\ e \in Nat /\ s \in 0..(SlotsPerEpoch - 1)
        /\ Here' = IF s = SlotsPerEpoch - 1 THEN [epoch |-> e + 1, slot |-> 0]
                                            ELSE [epoch |-> e, slot |-> s + 1]
    BY <1>1, HereType, NextPosition DEF Here
  <1>5. SlotsPerEpoch \in Nat /\ SlotsPerEpoch > 0
    BY SlotsAssumption
  <1>6. CASE DOMAIN operators = {}
    BY <1>1, <1>3, <1>6 DEF TurnInv, ListOfItsTime, ListAbout
  <1>7. CASE DOMAIN operators # {}
    <2>1. iterated \/ now = env.missed
      BY <1>2, <1>7
    <2>2. \/ ListAbout(e)
          \/ ListAbout(e - 1) /\ env.missed = now - s
      <3>1. CASE ListAbout(e)
        BY <3>1
      <3>2. CASE ListAbout(e - 1) /\ (env.missed = now - s \/ (now = now - s /\ ~iterated))
        BY <2>1, <3>2
      <3>3. CASE env.missed = now - SlotsPerEpoch /\ ~iterated
        BY <1>1, <1>5, <2>1, <3>3
      <3> QED
        BY <3>1, <3>2, <3>3 DEF TurnInv, ListOfItsTime, FirstSlot
    <2>3. DOMAIN operators' = DOMAIN operators /\ env' = env
      BY <1>1
    <2> HIDE DEF e, s
    <2>4. CASE s = SlotsPerEpoch - 1
      <3>1. Here'.epoch = e + 1 /\ Here'.slot = 0
        BY <1>4, <2>4
      <3>2. (FirstSlot)' = now' /\ ~iterated'
        BY <1>1, <3>1 DEF FirstSlot
      <3>3. CASE ListAbout(e)
        <4>1. ListAbout(Here.epoch - 1)'
          BY <1>4, <2>3, <3>1, <3>3 DEF ListAbout
        <4> QED
          BY <1>1, <1>3, <3>2, <4>1 DEF TurnInv, ListOfItsTime
      <3>4. CASE ListAbout(e - 1) /\ env.missed = now - s
        <4>1. ListAbout(Here.epoch - 2)'
          BY <1>4, <2>3, <3>1, <3>4 DEF ListAbout
        <4>2. env'.missed = now' - SlotsPerEpoch
          BY <1>1, <1>5, <2>3, <2>4, <3>4
        <4> QED
          BY <1>1, <1>3, <3>2, <4>1, <4>2 DEF TurnInv, ListOfItsTime
      <3> QED
        BY <2>2, <3>3, <3>4
    <2>5. CASE s # SlotsPerEpoch - 1
      <3>1. Here'.epoch = e /\ Here'.slot = s + 1
        BY <1>4, <2>5
      <3>2. (FirstSlot)' = now - s
        BY <1>1, <1>4, <3>1 DEF FirstSlot
      <3>3. CASE ListAbout(e)
        <4>1. ListAbout(Here.epoch)'
          BY <2>3, <3>1, <3>3 DEF ListAbout
        <4> QED
          BY <1>1, <1>3, <4>1 DEF TurnInv, ListOfItsTime
      <3>4. CASE ListAbout(e - 1) /\ env.missed = now - s
        <4>1. ListAbout(Here.epoch - 1)'
          BY <2>3, <3>1, <3>4 DEF ListAbout
        <4> QED
          BY <1>1, <1>3, <2>3, <3>2, <3>4, <4>1 DEF TurnInv, ListOfItsTime
      <3> QED
        BY <2>2, <3>3, <3>4
    <2> QED
      BY <2>4, <2>5
  <1> QED
    BY <1>6, <1>7

\* The process ends, and nothing is known.
LEMMA CrashStep ==
    ASSUME TurnInv, Crash
    PROVE  TurnInv'
  <1>1. DOMAIN operators' = {} /\ activeEpoch' = {} /\ UNCHANGED <<now, schedule>>
    BY DEF Crash
  <1>2. StoredIsTrue' /\ KnowsNothing'
    BY <1>1 DEF StoredIsTrue, IsTrue, KnowsNothing
  <1> QED
    BY <1>1, <1>2, ListStep

\* The process starts.
LEMMA StartStep ==
    ASSUME TurnInv, Start
    PROVE  TurnInv'
  <1>1. DOMAIN operators = {} /\ UNCHANGED <<now, schedule, operators, activeEpoch>>
    BY DEF Start, TurnInv, KnowsNothing
  <1>2. StoredIsTrue' /\ KnowsNothing'
    BY <1>1 DEF StoredIsTrue, IsTrue, KnowsNothing, TurnInv
  <1> QED
    BY <1>1, <1>2, ListStep

\* The answers at startup are filed in the slot they are about.
LEMMA BootStep ==
    ASSUME TurnInv, Boot
    PROVE  TurnInv'
  <1> DEFINE e == Here.epoch
             current == UpdateCurrentOperator(operators, e, schedule[e])
             True(list) == IsTrue(list) /\ DOMAIN list \subseteq {e, e + 1}
  <1>1. DOMAIN operators = {} /\ UNCHANGED <<now, schedule>> /\ pc' = "top"
    BY DEF Boot, TurnInv, KnowsNothing
  <1>2. True(operators)
    BY <1>1 DEF IsTrue
  <1>3. True(current)
    BY <1>1, <1>2, UpdateCurrentTrue
  <1>4. ASSUME NEW list, True(list)
        PROVE  True(UpdateNextOperator(list, e, schedule[e + 1]))
    BY <1>4, UpdateNextTrue
  <1>5. True(operators')
    <2> HIDE DEF True, e
    <2>1. operators' \in {operators, current,
                          UpdateNextOperator(operators, e, schedule[e + 1]),
                          UpdateNextOperator(current, e, schedule[e + 1])}
      BY DEF Boot, e
    <2> QED
      BY <2>1, <1>2, <1>3, <1>4
  <1>6. \A x \in activeEpoch' : schedule[x] = Me
    BY <1>5 DEF Boot, IsActiveIn, TurnInv, StoredIsTrue, IsTrue
  <1>7. StoredIsTrue' /\ KnowsNothing'
    BY <1>1, <1>5, <1>6 DEF StoredIsTrue, IsTrue, KnowsNothing
  <1> QED
    BY <1>1, <1>5, <1>7, ListStep

\* The answer to the loop's own query is filed in the slot it is about, too.
LEMMA QueryStep ==
    ASSUME TurnInv, QueryNext
    PROVE  TurnInv'
  <1>1. /\ UNCHANGED <<now, schedule, env, iterated, activeEpoch>>
        /\ pc = "next" /\ pc' = "top"
    BY DEF QueryNext
  <1>2. CASE operators' = operators
    <2>1. StoredIsTrue' /\ KnowsNothing'
      BY <1>1, <1>2 DEF TurnInv, StoredIsTrue, IsTrue, KnowsNothing
    <2> QED
      BY <1>1, <1>2, <2>1 DEF TurnInv, ListOfItsTime, ListAbout, FirstSlot, Here, At
  <1>3. CASE operators' = UpdateNextOperator(operators, Here.epoch, schedule[Here.epoch + 1])
    <2>1. DOMAIN operators' \subseteq {Here.epoch, Here.epoch + 1} /\ IsTrue(operators')
      BY <1>3, UpdateNextTrue DEF TurnInv, StoredIsTrue
    <2>2. StoredIsTrue' /\ KnowsNothing'
      BY <1>1, <2>1 DEF TurnInv, StoredIsTrue, IsTrue, KnowsNothing
    <2> QED
      BY <1>1, <2>1, <2>2, ListStep
  <1> QED
    BY <1>2, <1>3 DEF QueryNext

\* After change_epoch the list is about this epoch and the next one, or about
\* this one and the one before.
LEMMA ListInIteration ==
    ASSUME TurnInv, Iterate
    PROVE  /\ IsTrue(operators')
           /\ \/ DOMAIN operators' \subseteq {Here.epoch, Here.epoch + 1}
              \/ /\ DOMAIN operators' \subseteq {Here.epoch, Here.epoch - 1}
                 /\ env.missed = FirstSlot /\ operators' = operators
  <1> DEFINE e == Here.epoch
  <1>1. now \in Nat /\ e \in Nat /\ Here.slot \in Nat /\ ~iterated /\ now # env.missed
    BY HereType, SlotsAssumption DEF TurnInv, Iterate
  <1>2. CASE Here.slot = 0
    <2>1. operators' = ChangeEpoch(operators, e)
      BY <1>2 DEF Iterate
    <2>2. /\ DOMAIN operators' = {x \in DOMAIN operators : x >= e}
          /\ IsTrue(operators')
      BY <2>1, ChangeEpochTrue DEF TurnInv, StoredIsTrue
    <2>3. DOMAIN operators \subseteq {e - 2, (e - 2) + 1, e - 1, (e - 1) + 1, e, e + 1}
      BY DEF TurnInv, ListOfItsTime, ListAbout
    <2> HIDE DEF e
    <2>4. DOMAIN operators' \subseteq {e, e + 1}
      BY <1>1, <2>2, <2>3
    <2> QED
      BY <2>2, <2>4 DEF e
  <1>3. CASE Here.slot # 0
    <2>1. operators' = operators
      BY <1>3 DEF Iterate
    <2>2. now # FirstSlot
      BY <1>1, <1>3 DEF FirstSlot
    <2>3. ListAbout(e) \/ (ListAbout(e - 1) /\ env.missed = FirstSlot)
      BY <2>2 DEF TurnInv, ListOfItsTime
    <2>4. (e - 1) + 1 = e
      BY <1>1
    <2> HIDE DEF e
    <2>5. \/ DOMAIN operators' \subseteq {e, e + 1}
          \/ DOMAIN operators' \subseteq {e, e - 1} /\ env.missed = FirstSlot
      BY <2>1, <2>3, <2>4 DEF ListAbout
    <2> QED
      BY <2>1, <2>5 DEF TurnInv, StoredIsTrue, e
  <1> QED
    BY <1>2, <1>3

\* What the loop takes itself for active in is true.
LEMMA ActiveInIteration ==
    ASSUME TurnInv, Iterate
    PROVE  \A x \in activeEpoch' : schedule[x] = Me
  BY ListInIteration DEF Iterate, IsActiveIn, TurnInv, StoredIsTrue, IsTrue

\* An iteration keeps the invariant.
LEMMA IterateStep ==
    ASSUME TurnInv, Iterate
    PROVE  TurnInv'
  <1>1. UNCHANGED <<now, schedule, env>> /\ pc' \in {"next", "top"}
    BY DEF Iterate
  <1>2. StoredIsTrue' /\ KnowsNothing'
    BY <1>1, ListInIteration, ActiveInIteration DEF StoredIsTrue, IsTrue, KnowsNothing
  <1>3. CASE DOMAIN operators' \subseteq {Here.epoch, Here.epoch + 1}
    BY <1>1, <1>2, <1>3, ListStep
  <1>4. CASE DOMAIN operators' \subseteq {Here.epoch, Here.epoch - 1} /\ env.missed = FirstSlot
    <2>1. Here' = Here /\ (FirstSlot)' = FirstSlot
      BY <1>1 DEF Here, At, FirstSlot
    <2>2. (Here.epoch - 1) + 1 = Here.epoch
      BY HereType DEF TurnInv
    <2>3. ListAbout(Here.epoch - 1)'
      BY <1>4, <2>1, <2>2 DEF ListAbout
    <2> QED
      BY <1>1, <1>2, <1>4, <2>1, <2>3 DEF TurnInv, ListOfItsTime
  <1> QED
    BY <1>3, <1>4, ListInIteration

\* Every step keeps the invariant: one step of the proof per action.
LEMMA TurnStep == TurnInv /\ [Next]_vars => TurnInv'
  <1> SUFFICES ASSUME TurnInv, [Next]_vars PROVE TurnInv'
    OBVIOUS
  <1> USE OtherStep DEF l2, tracker, loop, l1
  <1>1. CASE Tick
    BY <1>1, TickStep
  <1>2. CASE Over
    BY <1>2 DEF Over, vars
  <1>3. CASE Build
    BY <1>3 DEF Build
  <1>4. CASE HandleBatch
    BY <1>4 DEF HandleBatch
  <1>5. CASE Crash
    BY <1>5, CrashStep
  <1>6. CASE Start
    BY <1>6, StartStep
  <1>7. CASE Boot
    BY <1>7, BootStep
  <1>8. CASE Iterate
    BY <1>8, IterateStep
  <1>9. CASE QueryNext
    BY <1>9, QueryStep
  <1>10. CASE ReadParent
    BY <1>10 DEF ReadParent
  <1>11. CASE ReadNonce
    BY <1>11 DEF ReadNonce
  <1>12. CASE EstimateGas
    BY <1>12 DEF EstimateGas
  <1>13. CASE CallFails
    BY <1>13 DEF CallFails
  <1>14. CASE Submit
    BY <1>14 DEF Submit
  <1>15. CASE Receipt
    BY <1>15 DEF Receipt
  <1>16. CASE TimesOut
    BY <1>16 DEF TimesOut
  <1>17. CASE L1Block
    BY <1>17 DEF L1Block
  <1>18. CASE UNCHANGED vars
    BY <1>18 DEF vars
  <1>19. CASE SendFails
    BY <1>19 DEF SendFails
  <1>20. CASE ReceiptFails
    BY <1>20 DEF ReceiptFails
  <1> QED
    BY <1>1, <1>2, <1>3, <1>4, <1>5, <1>6, <1>7, <1>8, <1>9, <1>10, <1>11, <1>12,
       <1>13, <1>14, <1>15, <1>16, <1>17, <1>18, <1>19, <1>20 DEF Next

-----------------------------------------------------------------------------
(* The choice of a batch.                                                  *)

\* An iteration that may send is in an epoch of this preconfer.
LEMMA MaySendInTurn ==
    ASSUME TurnInv, Iterate, MaySend
    PROVE  InTurn
  <1>1. CASE CanConfirm(activeEpoch', Here)
    BY <1>1, ActiveInIteration DEF CanConfirm, InTurn
  <1>2. CASE IsCurrentAndNext(operators', Me)
    <2>1. \E other : DOMAIN operators' \subseteq {Here.epoch, other}
      BY ListInIteration
    <2> QED
      BY <1>2, <2>1, ListInIteration, TwoEntries DEF InTurn
  <1> QED
    BY <1>1, <1>2 DEF MaySend

\* Nothing but an iteration starts a thread.
LEMMA StartsInTurn ==
    ASSUME TurnInv, Next, thread = Ended, thread'.at = "started"
    PROVE  InTurn
  <1>1. thread.at = "ended" /\ thread' # thread
    BY DEF Ended
  <1>2. Iterate
    BY <1>1 DEF Next, Tick, Over, vars, Build, HandleBatch, Crash, Start, Boot, QueryNext,
                ReadParent, ReadNonce, EstimateGas, CallFails, Submit, SendFails, Receipt, ReceiptFails, TimesOut,
                L1Block, Include, LeaveOut, Ended
  <1>3. MaySend
    BY <1>1, <1>2 DEF Iterate
  <1> QED
    BY <1>2, <1>3, MaySendInTurn

\* A batch is chosen only in an epoch this preconfer was elected for, although
\* an iteration may be missed, queries may fail and the process may start again
\* (confirmation_loop.rs, lines 63-103).
THEOREM ProposesInTurnCorrect == Spec => ProposesInTurn
  <1>1. Spec => []TurnInv
    BY TurnInit, TurnStep, PTL DEF Spec
  <1>2. TurnInv /\ [Next]_vars =>
          [thread = Ended /\ thread'.at = "started" => InTurn]_vars
    BY StartsInTurn DEF vars, Ended
  <1> QED
    BY <1>1, <1>2, PTL DEF Spec, ProposesInTurn

-----------------------------------------------------------------------------
(* Types.                                                                  *)

BlockType == [slot : Slots, anchor : Slots, operator : Operators]
BatchType == [blocks : SUBSET Nat, last : Nat]

\* What the proposing thread knows where it is.
ThreadType ==
    {Ended}
        \cup [at : {"started"}, blocks : SUBSET Nat]
        \cup [at : {"pricing"}, blocks : SUBSET Nat, parent : Int, nonce : Int,
              estimated : BOOLEAN]
        \cup [at : {"waiting"}, nonce : Nat, since : Int, until : Int]

TimeOK ==
    now \in Slots /\ schedule \in [Epochs -> Operators] /\ env \in Environments

ChainOK == chain \in Seq(BlockType) /\ anchor \in Slots /\ built \in BOOLEAN

TrackerOK ==
    /\ cache \subseteq DOMAIN chain
    /\ lastConfirmed \in Nat /\ first \in BOOLEAN
    /\ handled \in 0..Len(inbox) /\ alarmed \in BOOLEAN

\* Where the loop asks for the next operator, there is a next epoch.
LoopOK ==
    /\ pc \in {"down", "boot", "top", "next"} /\ iterated \in BOOLEAN
    /\ DOMAIN operators \subseteq Epochs
    /\ operators \in [DOMAIN operators -> Operators]
    /\ activeEpoch \in SUBSET Epochs
    /\ crashes \in 0..MaxCrashes
    /\ pc = "boot" => Here.epoch + 1 \in Epochs
    /\ pc = "next" => IsLastSlotBeforeHandoverWindow(Here.slot)

ThreadOK ==
    /\ thread \in ThreadType
    /\ thread.at \in {"started", "pricing"} =>
          thread.blocks \in (SUBSET DOMAIN chain) \ {{}}

L1OK ==
    /\ pool \in SUBSET [blocks : SUBSET Nat, parent : Int]
    /\ \A tx \in pool : tx.blocks \subseteq DOMAIN chain
    /\ nonce \in Nat /\ included \in BOOLEAN
    /\ inbox \in Seq(BatchType)
    /\ \A i \in DOMAIN inbox : inbox[i].blocks \subseteq DOMAIN chain

TypeInv == TimeOK /\ ChainOK /\ TrackerOK /\ LoopOK /\ ThreadOK /\ L1OK

\* Every set of natural numbers has a least one.
LEMMA LeastNumber ==
    ASSUME NEW T \in SUBSET Nat, T # {}
    PROVE  Min(T) \in T /\ \A y \in T : Min(T) <= y
  <1> DEFINE R == {p \in Nat \X Nat : p[1] < p[2]}
  <1>1. IsWellFoundedOn(R, Nat)
    BY NatLessThanWellFounded DEF OpToRel
  <1>2. PICK x \in T : \A y \in T : ~(<<y, x>> \in R)
    <2> HIDE DEF R
    <2> QED
      BY <1>1, WFMin
  <1>3. ASSUME NEW y \in T PROVE x <= y
    <2>1. <<y, x>> \in Nat \X Nat /\ <<y, x>>[1] = y /\ <<y, x>>[2] = x
      OBVIOUS
    <2>2. ~(y < x)
      BY <1>2, <2>1
    <2> QED
      BY <2>2
  <1> QED
    BY <1>3 DEF Min

\* A sequence that equal elements are put at the end of.
LEMMA Grown ==
    ASSUME NEW S, NEW s \in Seq(S), NEW r \in S, NEW n \in Nat
    PROVE  LET t == s \o [i \in 1..n |-> r]
           IN  /\ t \in Seq(S) /\ Len(t) = Len(s) + n
               /\ \A k \in 1..Len(s) : t[k] = s[k]
               /\ \A k \in (Len(s) + 1)..(Len(s) + n) : t[k] = r
  <1> DEFINE u == [i \in 1..n |-> r]
  <1>1. u \in Seq(S) /\ Len(u) = n /\ \A i \in 1..n : u[i] = r
    OBVIOUS
  <1> HIDE DEF u
  <1>2. /\ s \o u \in Seq(S) /\ Len(s \o u) = Len(s) + n
        /\ \A k \in 1..(Len(s) + n) :
              (s \o u)[k] = IF k <= Len(s) THEN s[k] ELSE u[k - Len(s)]
    BY <1>1, ConcatProperties
  <1>3. Len(s) \in Nat
    OBVIOUS
  <1>4. \A k \in 1..Len(s) : (s \o u)[k] = s[k]
    BY <1>2, <1>3
  <1>5. ASSUME NEW k \in (Len(s) + 1)..(Len(s) + n) PROVE (s \o u)[k] = r
    <2>1. k \in 1..(Len(s) + n) /\ ~(k <= Len(s)) /\ k - Len(s) \in 1..n
      BY <1>3
    <2> QED
      BY <1>1, <1>2, <2>1
  <1> QED
    BY <1>2, <1>4, <1>5 DEF u

\* Later slots are of later epochs.
LEMMA LaterEpoch ==
    ASSUME NEW m \in Nat, NEW n \in Nat, m <= n
    PROVE  At(m).epoch <= At(n).epoch
  <1> DEFINE S == SlotsPerEpoch
             d == At(m).epoch
             e == At(n).epoch
  <1>1. S \in Nat /\ S > 0
    BY SlotsAssumption
  <1>2. /\ d \in Nat /\ e \in Nat /\ At(m).slot \in 0..(S - 1) /\ At(n).slot \in 0..(S - 1)
        /\ m = d * S + At(m).slot /\ n = e * S + At(n).slot
    BY PositionType
  <1> HIDE DEF S, d, e
  <1>3. SUFFICES ASSUME d >= e + 1 PROVE FALSE
    BY <1>2 DEF d, e
  <1>4. d * S >= (e + 1) * S /\ (e + 1) * S = e * S + S
    BY <1>1, <1>2, <1>3
  <1> QED
    BY <1>1, <1>2, <1>4

\* The epoch of a position's window is the one HandoverSlots later.
LEMMA WindowIsLater ==
    ASSUME NEW n \in Nat
    PROVE  WindowEpoch(At(n)) = At(n + HandoverSlots).epoch
  <1> DEFINE S == SlotsPerEpoch
             e == At(n).epoch
             s == At(n).slot
  <1>1. S \in Nat /\ S > 0 /\ HandoverSlots \in 0..S
    BY SlotsAssumption
  <1>2. e \in Nat /\ s \in 0..(S - 1) /\ n = e * S + s
    BY PositionType
  <1>3. HandoverSlots < S
    BY ConfirmationAssumption
  <1> HIDE DEF S, e, s
  <1>4. CASE s >= S - HandoverSlots
    <2>1. n + HandoverSlots = (e + 1) * S + (s + HandoverSlots - S)
      BY <1>1, <1>2
    <2>2. s + HandoverSlots - S \in 0..(S - 1) /\ n + HandoverSlots \in Nat
      BY <1>1, <1>2, <1>3, <1>4
    <2>3. At(n + HandoverSlots).epoch = e + 1
      BY <1>1, <1>2, <2>1, <2>2, Position DEF S
    <2> QED
      BY <1>4, <2>3 DEF WindowEpoch, WithinHandoverPeriod, e, s, S
  <1>5. CASE ~(s >= S - HandoverSlots)
    <2>1. n + HandoverSlots = e * S + (s + HandoverSlots)
      BY <1>1, <1>2
    <2>2. s + HandoverSlots \in 0..(S - 1) /\ n + HandoverSlots \in Nat
      BY <1>1, <1>2, <1>3, <1>5
    <2>3. At(n + HandoverSlots).epoch = e
      BY <1>1, <1>2, <2>1, <2>2, Position DEF S
    <2> QED
      BY <1>5, <2>3 DEF WindowEpoch, WithinHandoverPeriod, e, s, S
  <1> QED
    BY <1>4, <1>5

\* The slots' own epochs, and the ones of their windows, are among the epochs.
LEMMA EpochsOfSlots ==
    ASSUME NEW n \in Slots
    PROVE  At(n).epoch \in Epochs /\ WindowEpoch(At(n)) \in Epochs
  <1>1. /\ n \in Nat /\ HandoverSlots \in Nat /\ LastSlot \in Nat /\ n <= LastSlot
        /\ n + HandoverSlots \in Nat /\ LastSlot + HandoverSlots + 1 \in Nat
        /\ n <= LastSlot + HandoverSlots + 1
        /\ n + HandoverSlots <= LastSlot + HandoverSlots + 1
    BY SlotsAssumption, ConfirmationAssumption DEF Slots
  <1>2. /\ At(n).epoch \in Nat /\ At(n + HandoverSlots).epoch \in Nat
        /\ At(LastSlot + HandoverSlots + 1).epoch \in Nat
    BY <1>1, PositionType
  <1>3. /\ At(n).epoch <= At(LastSlot + HandoverSlots + 1).epoch
        /\ At(n + HandoverSlots).epoch <= At(LastSlot + HandoverSlots + 1).epoch
    BY <1>1, LaterEpoch
  <1>4. WindowEpoch(At(n)) = At(n + HandoverSlots).epoch
    BY <1>1, WindowIsLater
  <1> HIDE DEF At
  <1> QED
    BY <1>2, <1>3, <1>4 DEF Epochs

\* So is the next epoch in the last slot before the handover window.
LEMMA NextEpochOfSlots ==
    ASSUME NEW n \in Slots, IsLastSlotBeforeHandoverWindow(At(n).slot)
    PROVE  At(n).epoch + 1 \in Epochs
  <1> DEFINE S == SlotsPerEpoch
             e == At(n).epoch
             L == LastSlot + HandoverSlots + 1
  <1>1. /\ n \in Nat /\ HandoverSlots \in Nat /\ L \in Nat /\ n + HandoverSlots + 1 \in Nat
        /\ n + HandoverSlots + 1 <= L /\ S \in Nat /\ S > 0
    BY SlotsAssumption, ConfirmationAssumption DEF Slots
  <1>2. e \in Nat /\ n = e * S + At(n).slot /\ At(n).slot = S - HandoverSlots - 1
    BY <1>1, PositionType DEF IsLastSlotBeforeHandoverWindow
  <1>3. n + HandoverSlots + 1 = (e + 1) * S + 0 /\ 0 \in 0..(S - 1) /\ e + 1 \in Nat
    <2> HIDE DEF S, e, L
    <2>1. (e + 1) * S = e * S + S
      BY <1>1, <1>2
    <2> QED
      BY <1>1, <1>2, <2>1
  <1>4. At(n + HandoverSlots + 1).epoch = e + 1
    <2> HIDE DEF e
    <2>1. At(n + HandoverSlots + 1) = [epoch |-> e + 1, slot |-> 0]
      BY <1>1, <1>3, Position
    <2> QED
      BY <2>1
  <1>5. At(n + HandoverSlots + 1).epoch <= At(L).epoch /\ At(L).epoch \in Nat
    BY <1>1, LaterEpoch, PositionType
  <1>6. e + 1 \in 0..At(L).epoch
    <2> HIDE DEF e, L
    <2> QED
      BY <1>2, <1>4, <1>5
  <1> QED
    BY <1>6 DEF Epochs
\* Initially all is of its type.
LEMMA TypeInit == Init => TypeInv
  <1> SUFFICES ASSUME Init PROVE TypeInv
    OBVIOUS
  <1>1. now \in Slots /\ now \in 0..(SlotsPerEpoch - 1)
    BY ConfirmationAssumption DEF Init, Slots
  <1>2. TimeOK
    BY <1>1 DEF Init, TimeOK
  <1>9. /\ chain = <<>> /\ inbox = <<>> /\ DOMAIN operators = {} /\ pool = {} /\ thread = Ended
        /\ anchor = now /\ built = FALSE /\ cache = {} /\ lastConfirmed = 0 /\ first = TRUE
        /\ handled = 0 /\ alarmed = FALSE /\ nonce = 0 /\ included = FALSE
    BY DEF Init
  <1>10. /\ <<>> \in Seq(BlockType) /\ <<>> \in Seq(BatchType)
         /\ Len(<<>>) = 0 /\ DOMAIN <<>> = {}
    OBVIOUS
  <1>3. ChainOK
    BY <1>1, <1>9, <1>10 DEF ChainOK
  <1>11. cache \subseteq DOMAIN chain /\ 0 \in 0..Len(inbox)
    BY <1>9, <1>10
  <1>4. TrackerOK
    BY <1>9, <1>11 DEF TrackerOK
  <1>5. Here.epoch + 1 \in Epochs
    <2> DEFINE L == LastSlot + HandoverSlots + 1
    <2>1. /\ SlotsPerEpoch \in Nat /\ SlotsPerEpoch > 0 /\ L \in Nat /\ SlotsPerEpoch <= L
          /\ 0 \in 0..(SlotsPerEpoch - 1)
      BY SlotsAssumption, ConfirmationAssumption
    <2>2. now \in Nat /\ now = 0 * SlotsPerEpoch + now
      BY <1>1, <2>1
    <2>3. At(now) = [epoch |-> 0, slot |-> now]
      BY <1>1, <2>2, Position
    <2>4. SlotsPerEpoch = 1 * SlotsPerEpoch + 0
      BY <2>1
    <2>5. At(SlotsPerEpoch) = [epoch |-> 1, slot |-> 0]
      BY <2>1, <2>4, Position
    <2>6. At(SlotsPerEpoch).epoch <= At(L).epoch /\ At(L).epoch \in Nat
      BY <2>1, LaterEpoch, PositionType
    <2>7. 1 \in 0..At(L).epoch
      <3> HIDE DEF L
      <3> QED
        BY <2>5, <2>6
    <2>8. Here.epoch + 1 = 1
      BY <2>3 DEF Here
    <2> QED
      BY <2>7, <2>8 DEF Epochs
  <1>6. LoopOK
    <2>1. /\ pc = "boot" /\ iterated = FALSE /\ activeEpoch = {} /\ crashes = 0
          /\ operators = [e \in {} |-> Me]
      BY DEF Init
    <2>2. operators \in [DOMAIN operators -> Operators]
      BY <2>1
    <2>3. 0 \in 0..MaxCrashes
      BY ConfirmationAssumption
    <2> QED
      BY <1>5, <1>9, <2>1, <2>2, <2>3 DEF LoopOK
  <1>7. ThreadOK
    BY DEF Init, ThreadOK, ThreadType, Ended
  <1>8. L1OK
    BY <1>9, <1>10 DEF L1OK
  <1> QED
    BY <1>2, <1>3, <1>4, <1>6, <1>7, <1>8 DEF TypeInv

\* What the types say of the current position.
LEMMA HereNow ==
    ASSUME TypeInv
    PROVE  /\ now \in Nat /\ now \in Slots
           /\ Here.epoch \in Nat /\ Here.epoch \in Epochs
           /\ Here.slot \in 0..(SlotsPerEpoch - 1)
           /\ WindowEpoch(Here) \in Epochs
           /\ schedule[Here.epoch] \in Operators /\ schedule[WindowEpoch(Here)] \in Operators
  <1>1. now \in Slots /\ now \in Nat /\ schedule \in [Epochs -> Operators]
    BY DEF TypeInv, TimeOK, Slots
  <1>2. Here.epoch \in Epochs /\ WindowEpoch(Here) \in Epochs
    BY <1>1, EpochsOfSlots DEF Here
  <1> QED
    BY <1>1, <1>2, HereType

\* An operator builds: the chain grows at its end, by blocks of this slot and of
\* the operator whose window it is, with the anchor of this preconfer.
LEMMA BuildGrows ==
    ASSUME TypeInv, Build
    PROVE  /\ chain' \in Seq(BlockType) /\ anchor' \in Slots /\ built' \in BOOLEAN
           /\ Len(chain) \in Nat /\ Len(chain') \in Nat /\ Len(chain) <= Len(chain')
           /\ \A k \in DOMAIN chain : chain'[k] = chain[k]
           /\ \A k \in DOMAIN chain' \ DOMAIN chain :
                 chain'[k] = [slot |-> now, operator |-> schedule[WindowEpoch(Here)],
                              anchor |-> anchor']
           /\ schedule[WindowEpoch(Here)] = Me /\ pc = "down" => DOMAIN chain' = DOMAIN chain
  <1> DEFINE operator == schedule[WindowEpoch(Here)]
             r == [slot |-> now, operator |-> operator, anchor |-> anchor']
  <1>1. now \in Slots /\ operator \in Operators /\ chain \in Seq(BlockType)
    BY HereNow DEF TypeInv, ChainOK
  <1>2. built' = TRUE /\ (anchor' = now \/ anchor' = anchor)
    BY DEF Build
  <1>3. anchor' \in Slots
    BY <1>1, <1>2 DEF TypeInv, ChainOK
  <1>4. r \in BlockType
    BY <1>1, <1>3 DEF BlockType
  <1>5. PICK n \in 0..BlocksPerSlot :
           /\ operator = Me /\ pc = "down" => n = 0
           /\ chain' = chain \o [i \in 1..n |-> r]
    BY DEF Build
  <1>6. n \in Nat
    BY <1>5, ConfirmationAssumption
  <1> HIDE DEF r, operator
  <1>7. /\ chain' \in Seq(BlockType) /\ Len(chain') = Len(chain) + n
        /\ \A k \in 1..Len(chain) : chain'[k] = chain[k]
        /\ \A k \in (Len(chain) + 1)..(Len(chain) + n) : chain'[k] = r
    BY <1>1, <1>4, <1>5, <1>6, Grown
  <1>8. Len(chain) \in Nat /\ DOMAIN chain = 1..Len(chain) /\ DOMAIN chain' = 1..(Len(chain) + n)
    BY <1>1, <1>7
  <1>9. \A k \in DOMAIN chain' \ DOMAIN chain : chain'[k] = r
    BY <1>6, <1>7, <1>8
  <1>10. operator = Me /\ pc = "down" => DOMAIN chain' = DOMAIN chain
    BY <1>5, <1>8
  <1>11. Len(chain') \in Nat /\ Len(chain) <= Len(chain') /\ built' \in BOOLEAN
    BY <1>2, <1>6, <1>7, <1>8
  <1>12. DOMAIN chain = 1..Len(chain)
    BY <1>8
  <1> QED
    BY <1>3, <1>7, <1>8, <1>9, <1>10, <1>11 DEF r, operator

\* Building keeps the types.
LEMMA BuildTypes ==
    ASSUME TypeInv, Build
    PROVE  TypeInv'
  <1>1. ChainOK'
    BY BuildGrows DEF ChainOK
  <1>2. DOMAIN chain \subseteq DOMAIN chain'
    <2>1. chain \in Seq(BlockType)
      BY DEF TypeInv, ChainOK
    <2> QED
      BY <2>1, BuildGrows
  <1>3. UNCHANGED <<now, schedule, env, tracker, loop, thread, l1>>
    BY DEF Build
  <1>4. TimeOK' /\ LoopOK'
    BY <1>3 DEF TypeInv, TimeOK, LoopOK, Here, At, loop
  <1>5. TrackerOK'
    <2>1. cache' \subseteq DOMAIN chain'
      BY <1>2 DEF Build, TypeInv, TrackerOK
    <2> QED
      BY <1>3, <2>1 DEF TypeInv, TrackerOK, tracker, l1
  <1>6. ThreadOK' /\ L1OK'
    BY <1>2, <1>3 DEF TypeInv, ThreadOK, L1OK, l1
  <1> QED
    BY <1>1, <1>4, <1>5, <1>6 DEF TypeInv

\* The last block of a prefix of the inbox is a number.
LEMMA LastIdType ==
    ASSUME NEW batches \in Seq(BatchType)
    PROVE  LastId(batches) \in Nat
  <1>1. CASE batches = <<>>
    BY <1>1 DEF LastId
  <1>2. CASE batches # <<>>
    <2>1. Len(batches) \in DOMAIN batches
      BY <1>2, EmptySeq, LenProperties
    <2>2. batches[Len(batches)] \in BatchType
      BY <2>1
    <2> QED
      BY <1>2, <2>2 DEF LastId, BatchType
  <1> QED
    BY <1>1, <1>2

\* What is read of the cache and proposed is a set of blocks of the chain, and
\* it is not empty if the cache is not.
LEMMA ChosenBlocks ==
    ASSUME TypeInv, Ready # {}
    PROVE  /\ WithinTimeShift(SameAnchor(Ready)) \subseteq Ready
           /\ WithinTimeShift(SameAnchor(Ready)) # {}
           /\ Ready \subseteq DOMAIN chain
  <1> DEFINE B == SameAnchor(Ready)
  <1>1. Ready \subseteq DOMAIN chain /\ DOMAIN chain \subseteq Nat
    <2>1. chain \in Seq(BlockType) /\ cache \subseteq DOMAIN chain
      BY DEF TypeInv, ChainOK, TrackerOK
    <2> QED
      BY <2>1 DEF Ready, Kept
  <1>2. Min(Ready) \in Ready /\ \A n \in Ready : Min(Ready) <= n
    BY <1>1, LeastNumber
  <1>3. \A m \in Ready : m <= Min(Ready) => m = Min(Ready)
    BY <1>1, <1>2
  <1>4. B \subseteq Ready /\ Min(Ready) \in B
    BY <1>2, <1>3 DEF SameAnchor
  <1> HIDE DEF B
  <1>5. Min(B) \in B /\ \A n \in B : Min(B) <= n
    BY <1>1, <1>4, LeastNumber
  <1>6. \A m \in B : m <= Min(B) => m = Min(B)
    BY <1>1, <1>4, <1>5
  <1>7. WithinTimeShift(B) \subseteq B /\ Min(B) \in WithinTimeShift(B)
    BY <1>5, <1>6 DEF WithinTimeShift
  <1> QED
    BY <1>1, <1>4, <1>7 DEF B

\* Choosing a batch keeps the types of the cache and the thread.
LEMMA SendTypes ==
    ASSUME TypeInv, NEW force \in BOOLEAN, Send(force), UNCHANGED chain
    PROVE  cache' \subseteq DOMAIN chain' /\ ThreadOK'
  <1>1. cache' \subseteq DOMAIN chain'
    BY DEF Send, Kept, TypeInv, TrackerOK
  <1>2. CASE thread' = thread
    BY <1>1, <1>2 DEF TypeInv, ThreadOK
  <1>3. CASE thread' # thread
    <2> DEFINE B == WithinTimeShift(SameAnchor(Ready))
    <2>1. Ready # {} /\ thread' = [at |-> "started", blocks |-> B]
      BY <1>3 DEF Send, WantsToSend
    <2>2. B \subseteq DOMAIN chain /\ B # {}
      BY <2>1, ChosenBlocks
    <2>3. DOMAIN chain \subseteq Nat
      BY DEF TypeInv, ChainOK
    <2> HIDE DEF B
    <2>4. thread' \in ThreadType
      BY <2>1, <2>2, <2>3 DEF ThreadType
    <2>5. thread'.blocks = B
      BY <2>1
    <2>6. thread'.blocks \in (SUBSET DOMAIN chain') \ {{}}
      BY <2>2, <2>5
    <2>7. ThreadOK'
      BY <2>4, <2>6 DEF ThreadOK
    <2> QED
      BY <1>1, <2>7
  <1> QED
    BY <1>1, <1>2, <1>3

\* Time keeps the types: a loop that asks for something has no slot end.
LEMMA TickTypes ==
    ASSUME TypeInv, Tick
    PROVE  TypeInv'
  <1>1. UNCHANGED <<schedule, env, chain, anchor, cache, tracker, pc, operators, activeEpoch,
                    crashes, thread, pool, nonce, inbox>>
    BY DEF Tick
  <1>2. now' \in Slots
    BY ConfirmationAssumption DEF Tick, TypeInv, TimeOK, Slots
  <1>3. pc \in {"down", "top"}
    BY DEF Tick, SlotIsOver
  <1>4. TimeOK' /\ ChainOK' /\ TrackerOK'
    BY <1>1, <1>2 DEF Tick, TypeInv, TimeOK, ChainOK, TrackerOK, tracker
  <1>5. LoopOK'
    BY <1>1, <1>3 DEF Tick, TypeInv, LoopOK
  <1>6. ThreadOK' /\ L1OK'
    BY <1>1 DEF Tick, TypeInv, ThreadOK, L1OK
  <1> QED
    BY <1>4, <1>5, <1>6 DEF TypeInv

\* So does the handling of a batch.
LEMMA HandleTypes ==
    ASSUME TypeInv, HandleBatch
    PROVE  TypeInv'
  <1>1. UNCHANGED <<now, schedule, env, l2, loop, thread, l1>>
    BY DEF HandleBatch
  <1>2. inbox \in Seq(BatchType) /\ handled \in 0..Len(inbox) /\ handled < Len(inbox)
    BY DEF HandleBatch, TypeInv, TrackerOK, L1OK
  <1>3. handled + 1 \in DOMAIN inbox /\ handled' = handled + 1 /\ handled' \in 0..Len(inbox)
    BY <1>2 DEF HandleBatch
  <1>4. inbox[handled + 1] \in BatchType
    BY <1>2, <1>3
  <1>5. inbox[handled + 1].last \in Nat
    BY <1>4 DEF BatchType
  <1>6. /\ lastConfirmed' \in {lastConfirmed, inbox[handled + 1].last}
        /\ first' \in {first, FALSE} /\ alarmed' \in {alarmed, TRUE} /\ cache' \subseteq cache
    BY DEF HandleBatch
  <1>7. TrackerOK'
    BY <1>1, <1>3, <1>5, <1>6 DEF TypeInv, TrackerOK, l2, l1
  <1>8. TimeOK' /\ ChainOK' /\ LoopOK' /\ ThreadOK' /\ L1OK'
    BY <1>1 DEF TypeInv, TimeOK, ChainOK, LoopOK, ThreadOK, L1OK, Here, At, l2, loop, l1
  <1> QED
    BY <1>7, <1>8 DEF TypeInv

\* So does the end of the process.
LEMMA CrashTypes ==
    ASSUME TypeInv, Crash
    PROVE  TypeInv'
  <1>1. UNCHANGED <<now, schedule, env, chain, built, alarmed, l1>>
    BY DEF Crash
  <1>2. 0 \in Slots /\ 0 \in 0..Len(inbox)
    BY ConfirmationAssumption DEF Slots, TypeInv, L1OK
  <1>3. TimeOK' /\ ChainOK' /\ TrackerOK'
    BY <1>1, <1>2 DEF Crash, TypeInv, TimeOK, ChainOK, TrackerOK, l1
  <1>4. LoopOK'
    <2>1. /\ pc' = "down" /\ iterated' = FALSE /\ activeEpoch' = {} /\ crashes' = crashes + 1
          /\ crashes < MaxCrashes /\ operators' = [e \in {} |-> Me]
      BY DEF Crash
    <2>2. DOMAIN operators' = {} /\ operators' \in [DOMAIN operators' -> Operators]
      BY <2>1
    <2>3. crashes' \in 0..MaxCrashes
      BY <2>1, ConfirmationAssumption DEF TypeInv, LoopOK
    <2> QED
      BY <2>1, <2>2, <2>3 DEF LoopOK
  <1>5. ThreadOK'
    BY DEF Crash, ThreadOK, ThreadType, Ended
  <1>6. L1OK'
    BY <1>1 DEF TypeInv, L1OK, l1
  <1> QED
    BY <1>3, <1>4, <1>5, <1>6 DEF TypeInv

\* And its start.
LEMMA StartTypes ==
    ASSUME TypeInv, Start
    PROVE  TypeInv'
  <1>1. UNCHANGED <<now, schedule, env, chain, built, first, alarmed, iterated, operators,
                    activeEpoch, crashes, thread, l1>>
    BY DEF Start
  <1>2. LastId(inbox) \in Nat /\ Len(inbox) \in 0..Len(inbox)
    BY LastIdType DEF TypeInv, L1OK
  <1>3. cache' \subseteq DOMAIN chain
    BY DEF Start, Recovered
  <1>4. TimeOK' /\ ChainOK'
    BY <1>1 DEF Start, TypeInv, TimeOK, ChainOK
  <1>5. TrackerOK'
    BY <1>1, <1>2, <1>3 DEF Start, TypeInv, TrackerOK, l1
  <1>6. LoopOK'
    BY <1>1 DEF Start, TypeInv, LoopOK, Here, At
  <1>7. ThreadOK' /\ L1OK'
    BY <1>1 DEF TypeInv, ThreadOK, L1OK, l1
  <1> QED
    BY <1>4, <1>5, <1>6, <1>7 DEF TypeInv
\* A list of operators by epochs.
IsList(list) == DOMAIN list \subseteq Epochs /\ list \in [DOMAIN list -> Operators]

\* The three updates of the list keep its type.
LEMMA ListTypes ==
    ASSUME NEW list, IsList(list), NEW epoch, NEW operator \in Operators
    PROVE  /\ IsList(ChangeEpoch(list, epoch))
           /\ epoch \in Epochs => IsList(UpdateCurrentOperator(list, epoch, operator))
           /\ epoch + 1 \in Epochs => IsList(UpdateNextOperator(list, epoch, operator))
  BY DEF IsList, ChangeEpoch, UpdateCurrentOperator, UpdateNextOperator, WithOperator,
         RetainEpochs

\* The startup of the loop keeps the types.
LEMMA BootTypes ==
    ASSUME TypeInv, Boot
    PROVE  TypeInv'
  <1> DEFINE e == Here.epoch
             current == UpdateCurrentOperator(operators, e, schedule[e])
             Next2(list) == UpdateNextOperator(list, e, schedule[e + 1])
  <1>1. UNCHANGED <<now, schedule, env, l2, cache, tracker, crashes, thread, l1>>
    BY DEF Boot
  <1>2. /\ e \in Epochs /\ e + 1 \in Epochs
        /\ schedule[e] \in Operators /\ schedule[e + 1] \in Operators
    BY HereNow DEF Boot, TypeInv, TimeOK, LoopOK
  <1>3. IsList(operators)
    BY DEF TypeInv, LoopOK, IsList
  <1>4. operators' \in {operators, current, Next2(operators), Next2(current)}
    BY DEF Boot
  <1>5. IsList(operators')
    <2>1. IsList(current)
      BY <1>2, <1>3, ListTypes
    <2> HIDE DEF current, e
    <2>2. IsList(Next2(operators)) /\ IsList(Next2(current))
      BY <1>2, <1>3, <2>1, ListTypes
    <2> QED
      BY <1>3, <1>4, <2>1, <2>2
  <1>6. activeEpoch' \in SUBSET Epochs
    BY <1>2 DEF Boot, TypeInv, LoopOK
  <1>7. LoopOK'
    <2>1. pc' = "top" /\ iterated' = TRUE /\ crashes' = crashes
      BY DEF Boot
    <2> QED
      BY <1>5, <1>6, <2>1 DEF TypeInv, LoopOK, IsList
  <1>8. TimeOK' /\ ChainOK' /\ TrackerOK' /\ ThreadOK' /\ L1OK'
    BY <1>1 DEF TypeInv, TimeOK, ChainOK, TrackerOK, ThreadOK, L1OK, l2, tracker, l1
  <1> QED
    BY <1>7, <1>8 DEF TypeInv

\* So does an iteration.
LEMMA IterateTypes ==
    ASSUME TypeInv, Iterate
    PROVE  TypeInv'
  <1>1. UNCHANGED <<now, schedule, env, l2, tracker, crashes, l1>>
    BY DEF Iterate
  <1>2. cache' \subseteq DOMAIN chain' /\ ThreadOK'
    <2>1. CASE UNCHANGED <<cache, thread>>
      BY <1>1, <2>1 DEF TypeInv, TrackerOK, ThreadOK, l2
    <2>2. CASE Send(WithinHandoverPeriod(Here.slot))
      <3>1. WithinHandoverPeriod(Here.slot) \in BOOLEAN
        BY DEF WithinHandoverPeriod
      <3>2. UNCHANGED chain
        BY <1>1 DEF l2
      <3> QED
        BY <2>2, <3>1, <3>2, SendTypes
    <2> QED
      BY <2>1, <2>2 DEF Iterate
  <1>3. IsList(operators')
    <2>1. IsList(operators) /\ schedule[Here.epoch] \in Operators
      BY HereNow DEF TypeInv, LoopOK, IsList
    <2>2. operators' \in {operators, ChangeEpoch(operators, Here.epoch)}
      BY DEF Iterate
    <2> QED
      BY <2>1, <2>2, ListTypes
  <1>4. activeEpoch' \in SUBSET Epochs
    <2>1. CASE activeEpoch' = activeEpoch
      BY <2>1 DEF TypeInv, LoopOK
    <2>2. CASE activeEpoch' = {Here.epoch + 1} /\ IsActiveIn(operators', Me, Here.epoch + 1)
      BY <1>3, <2>2 DEF IsActiveIn, IsList
    <2> QED
      BY <2>1, <2>2 DEF Iterate
  <1>5. LoopOK'
    <2>1. /\ iterated' = TRUE /\ crashes' = crashes /\ now' = now /\ pc' \in {"top", "next"}
          /\ pc' = "next" => IsLastSlotBeforeHandoverWindow(Here.slot)
      BY DEF Iterate
    <2>2. Here' = Here
      BY <2>1 DEF Here, At
    <2> QED
      BY <1>3, <1>4, <2>1, <2>2 DEF TypeInv, LoopOK, IsList
  <1>6. TrackerOK'
    BY <1>1, <1>2 DEF TypeInv, TrackerOK, tracker, l1
  <1>7. TimeOK' /\ ChainOK' /\ L1OK'
    BY <1>1 DEF TypeInv, TimeOK, ChainOK, L1OK, l2, l1
  <1> QED
    BY <1>2, <1>5, <1>6, <1>7 DEF TypeInv

\* So does the answer to its query.
LEMMA QueryTypes ==
    ASSUME TypeInv, QueryNext
    PROVE  TypeInv'
  <1>1. UNCHANGED <<now, schedule, env, l2, cache, tracker, iterated, activeEpoch, crashes,
                    thread, l1>>
    BY DEF QueryNext
  <1>2. Here.epoch + 1 \in Epochs /\ schedule[Here.epoch + 1] \in Operators
    <2>1. now \in Slots /\ IsLastSlotBeforeHandoverWindow(Here.slot)
      BY DEF QueryNext, TypeInv, TimeOK, LoopOK
    <2> QED
      BY <2>1, NextEpochOfSlots DEF Here, TypeInv, TimeOK
  <1>3. IsList(operators')
    <2>1. IsList(operators)
      BY DEF TypeInv, LoopOK, IsList
    <2>2. operators' \in {operators, UpdateNextOperator(operators, Here.epoch,
                                                        schedule[Here.epoch + 1])}
      BY DEF QueryNext
    <2> QED
      BY <1>2, <2>1, <2>2, ListTypes
  <1>4. LoopOK'
    BY <1>1, <1>3 DEF QueryNext, TypeInv, LoopOK, IsList
  <1>5. TimeOK' /\ ChainOK' /\ TrackerOK' /\ ThreadOK' /\ L1OK'
    BY <1>1 DEF TypeInv, TimeOK, ChainOK, TrackerOK, ThreadOK, L1OK, l2, tracker, l1
  <1> QED
    BY <1>4, <1>5 DEF TypeInv

\* A step of the thread that leaves its blocks and L1's own state alone.
LEMMA ThreadTypes ==
    ASSUME TypeInv, UNCHANGED <<now, schedule, env, l2, cache, tracker, loop, nonce, included,
                                inbox>>,
           thread' \in ThreadType,
           thread'.at \in {"started", "pricing"} =>
              thread.at \in {"started", "pricing"} /\ thread'.blocks = thread.blocks,
           pool' \in SUBSET [blocks : SUBSET Nat, parent : Int],
           \A tx \in pool' : tx.blocks \subseteq DOMAIN chain
    PROVE  TypeInv'
  <1>1. TimeOK' /\ ChainOK' /\ TrackerOK' /\ LoopOK'
    BY DEF TypeInv, TimeOK, ChainOK, TrackerOK, LoopOK, Here, At, l2, tracker, loop
  <1>2. ThreadOK'
    BY DEF TypeInv, ThreadOK, l2
  <1>3. L1OK'
    BY DEF TypeInv, L1OK, l2
  <1> QED
    BY <1>1, <1>2, <1>3 DEF TypeInv

\* What is known of a thread that is started, and of one that is pricing.
LEMMA ThreadFields ==
    ASSUME TypeInv
    PROVE  /\ thread.at \in {"ended", "started", "pricing", "waiting"}
           /\ thread.at = "started" => thread.blocks \in SUBSET Nat
           /\ thread.at = "pricing" =>
                 thread \in [at : {"pricing"}, blocks : SUBSET Nat, parent : Int, nonce : Int,
                             estimated : BOOLEAN]
           /\ thread.at = "waiting" =>
                 thread \in [at : {"waiting"}, nonce : Nat, since : Int, until : Int]
  BY DEF TypeInv, ThreadOK, ThreadType, Ended

\* The steps of the thread keep the types.
LEMMA ProposingTypes ==
    ASSUME TypeInv,
           \/ ReadParent \/ ReadNonce \/ EstimateGas \/ CallFails
           \/ Receipt \/ ReceiptFails \/ TimesOut
    PROVE  TypeInv'
  <1>1. Ended \in ThreadType /\ Ended.at = "ended"
    BY DEF ThreadType, Ended
  <1>2. /\ pool \in SUBSET [blocks : SUBSET Nat, parent : Int]
        /\ \A tx \in pool : tx.blocks \subseteq DOMAIN chain
        /\ nonce \in Int /\ Len(inbox) \in Int
    BY DEF TypeInv, L1OK
  <1>3. CASE ReadParent
    <2>1. PICK parent \in {Len(inbox), -1} :
             thread' = [at |-> "pricing", blocks |-> thread.blocks, parent |-> parent,
                        nonce |-> -1, estimated |-> FALSE]
      BY <1>3 DEF ReadParent
    <2>2. thread.at = "started" /\ thread.blocks \in SUBSET Nat /\ parent \in Int
      BY <1>2, <1>3, ThreadFields DEF ReadParent
    <2>3. thread' \in ThreadType
      BY <2>1, <2>2 DEF ThreadType
    <2>4. UNCHANGED <<now, schedule, env, l2, cache, tracker, loop, pool, nonce, included, inbox>>
      BY <1>3 DEF ReadParent, l1
    <2>5. thread'.blocks = thread.blocks
      BY <2>1
    <2> QED
      BY <1>2, <2>2, <2>3, <2>4, <2>5, ThreadTypes
  <1>4. CASE ReadNonce
    <2>1. thread.at = "pricing" /\ thread' = [thread EXCEPT !.nonce = nonce]
      BY <1>4 DEF ReadNonce
    <2>2. thread' \in [at : {"pricing"}, blocks : SUBSET Nat, parent : Int, nonce : Int,
                       estimated : BOOLEAN] /\ thread'.blocks = thread.blocks
      BY <1>2, <2>1, ThreadFields
    <2>3. UNCHANGED <<now, schedule, env, l2, cache, tracker, loop, pool, nonce, included, inbox>>
      BY <1>4 DEF ReadNonce, l1
    <2>4. thread' \in ThreadType
      BY <2>2 DEF ThreadType
    <2> QED
      BY <1>2, <2>1, <2>2, <2>3, <2>4, ThreadTypes
  <1>5. CASE EstimateGas /\ thread' # Ended
    <2>1. thread.at = "pricing" /\ thread' = [thread EXCEPT !.estimated = TRUE]
      BY <1>5 DEF EstimateGas
    <2>2. thread' \in [at : {"pricing"}, blocks : SUBSET Nat, parent : Int, nonce : Int,
                       estimated : BOOLEAN] /\ thread'.blocks = thread.blocks
      BY <2>1, ThreadFields
    <2>3. UNCHANGED <<now, schedule, env, l2, cache, tracker, loop, pool, nonce, included, inbox>>
      BY <1>5 DEF EstimateGas, l1
    <2>4. thread' \in ThreadType
      BY <2>2 DEF ThreadType
    <2> QED
      BY <1>2, <2>1, <2>2, <2>3, <2>4, ThreadTypes
  <1>6. CASE thread' = Ended
    <2>1. UNCHANGED <<now, schedule, env, l2, cache, tracker, loop, pool, nonce, included, inbox>>
      BY DEF ReadParent, ReadNonce, EstimateGas, CallFails, Receipt, ReceiptFails, TimesOut, l1
    <2> QED
      BY <1>1, <1>2, <1>6, <2>1, ThreadTypes
  <1> QED
    BY <1>3, <1>4, <1>5, <1>6 DEF CallFails, Receipt, ReceiptFails, TimesOut

\* So does the submission, whether its answer comes or not.
LEMMA SubmitTypes ==
    ASSUME TypeInv, Submit \/ SendFails
    PROVE  TypeInv'
  <1>1. /\ pool \in SUBSET [blocks : SUBSET Nat, parent : Int]
        /\ \A tx \in pool : tx.blocks \subseteq DOMAIN chain
        /\ nonce \in Nat /\ now + ProposeTimeout \in Int
    BY HereNow, ConfirmationAssumption DEF TypeInv, L1OK
  <1>2. /\ UNCHANGED <<now, schedule, env, l2, cache, tracker, loop, nonce, included, inbox>>
        /\ thread.at = "pricing"
    BY DEF Submit, SendFails
  <1>3. /\ thread.blocks \in SUBSET Nat /\ thread.parent \in Int
        /\ thread.blocks \subseteq DOMAIN chain
    BY <1>2, ThreadFields DEF TypeInv, ThreadOK
  <1>4. pool' \in {pool, {[blocks |-> thread.blocks, parent |-> thread.parent]}}
    BY DEF Submit, SendFails
  <1>5. /\ pool' \in SUBSET [blocks : SUBSET Nat, parent : Int]
        /\ \A tx \in pool' : tx.blocks \subseteq DOMAIN chain
    BY <1>1, <1>3, <1>4
  <1>6. CASE thread' = Ended
    <2>1. Ended \in ThreadType /\ Ended.at = "ended"
      BY DEF ThreadType, Ended
    <2> QED
      BY <1>1, <1>2, <1>5, <1>6, <2>1, ThreadTypes
  <1>7. CASE thread' = [at |-> "waiting", nonce |-> nonce, since |-> -1,
                        until |-> now + ProposeTimeout]
    <2>1. thread' \in ThreadType /\ thread'.at = "waiting"
      BY <1>1, <1>7 DEF ThreadType
    <2> QED
      BY <1>1, <1>2, <1>5, <2>1, ThreadTypes
  <1> QED
    BY <1>6, <1>7 DEF Submit, SendFails

\* A batch in the inbox.
LEMMA BatchAppended ==
    ASSUME TypeInv, NEW blocks, blocks \subseteq DOMAIN chain
    PROVE  /\ WithBatch(blocks) \in Seq(BatchType)
           /\ Len(WithBatch(blocks)) = Len(inbox) + 1
           /\ \A i \in DOMAIN inbox : WithBatch(blocks)[i] = inbox[i]
           /\ WithBatch(blocks)[Len(inbox) + 1].blocks = blocks
           /\ LastId(inbox) \in Nat /\ Cardinality(blocks) \in Nat /\ IsFiniteSet(blocks)
           /\ LastId(WithBatch(blocks)) = LastId(inbox) + Cardinality(blocks)
           /\ WithBatch(blocks)[Len(inbox) + 1].last = LastId(inbox) + Cardinality(blocks)
  <1> DEFINE b == [blocks |-> blocks, last |-> LastId(inbox) + Cardinality(blocks)]
             n == Len(inbox) + 1
  <1>1. inbox \in Seq(BatchType) /\ chain \in Seq(BlockType)
    BY DEF TypeInv, L1OK, ChainOK
  <1>2. DOMAIN chain = 1..Len(chain) /\ Len(chain) \in Nat
    BY <1>1
  <1>3. IsFiniteSet(blocks) /\ Cardinality(blocks) \in Nat /\ blocks \in SUBSET Nat
    <2>1. IsFiniteSet(1..Len(chain))
      BY <1>2, FS_Interval
    <2>2. IsFiniteSet(blocks)
      BY <1>2, <2>1, FS_Subset
    <2> QED
      BY <1>2, <2>2, FS_CardinalityType
  <1>4. LastId(inbox) \in Nat
    BY <1>1, LastIdType
  <1>5. b \in BatchType
    BY <1>3, <1>4 DEF BatchType
  <1>6. b.blocks = blocks /\ b.last = LastId(inbox) + Cardinality(blocks)
    OBVIOUS
  <1>7. WithBatch(blocks) = Append(inbox, b)
    BY DEF WithBatch
  <1> HIDE DEF b
  <1>8. /\ WithBatch(blocks) \in Seq(BatchType) /\ Len(WithBatch(blocks)) = n
        /\ \A i \in 1..Len(inbox) : WithBatch(blocks)[i] = inbox[i]
        /\ WithBatch(blocks)[n] = b
    BY <1>1, <1>5, <1>7, AppendProperties
  <1>9. WithBatch(blocks) # <<>>
    BY <1>1, <1>8
  <1>10. LastId(WithBatch(blocks)) = b.last
    BY <1>8, <1>9 DEF LastId
  <1> QED
    BY <1>1, <1>3, <1>4, <1>6, <1>8, <1>10

\* The blocks of the other operators' batches are the next ones.
LEMMA OthersBlocks ==
    ASSUME TypeInv, NEW last \in OthersBatches
    PROVE  /\ last \in Nat /\ LastId(inbox) < last /\ last <= Len(chain)
           /\ (LastId(inbox) + 1)..last \subseteq DOMAIN chain
           /\ \A n \in (LastId(inbox) + 1)..last : chain[n].operator = schedule[Here.epoch]
  <1>1. inbox \in Seq(BatchType) /\ chain \in Seq(BlockType)
    BY DEF TypeInv, L1OK, ChainOK
  <1>2. LastId(inbox) \in Nat /\ Len(chain) \in Nat /\ DOMAIN chain = 1..Len(chain)
    BY <1>1, LastIdType
  <1>3. last \in (LastId(inbox) + 1)..Len(chain)
    BY DEF OthersBatches
  <1>4. last \in Nat /\ LastId(inbox) < last /\ last <= Len(chain)
    BY <1>2, <1>3
  <1>5. (LastId(inbox) + 1)..last \subseteq DOMAIN chain
    BY <1>2, <1>4
  <1> QED
    BY <1>4, <1>5 DEF OthersBatches

\* What an L1 block does to the inbox: nothing, or it appends a batch of this
\* preconfer's pending transaction or one of the other operators.
LEMMA InboxGrows ==
    ASSUME TypeInv, L1Block
    PROVE  \/ inbox' = inbox
           \/ InTurn /\ \E tx \in pool : inbox' = WithBatch(tx.blocks)
           \/ ~InTurn /\ \E last \in OthersBatches :
                 inbox' = WithBatch((LastId(inbox) + 1)..last)
  BY DEF L1Block, Include, LeaveOut, ProposeOthers

\* An L1 block keeps the types.
LEMMA L1BlockTypes ==
    ASSUME TypeInv, L1Block
    PROVE  TypeInv'
  <1>1. UNCHANGED <<now, schedule, env, l2, cache, tracker, loop>> /\ included' = TRUE
    BY DEF L1Block
  <1>2. \/ inbox' = inbox
        \/ \E blocks \in SUBSET DOMAIN chain : inbox' = WithBatch(blocks)
    <2>1. CASE inbox' = inbox
      BY <2>1
    <2>2. ASSUME NEW tx \in pool, inbox' = WithBatch(tx.blocks)
          PROVE  \E blocks \in SUBSET DOMAIN chain : inbox' = WithBatch(blocks)
      BY <2>2 DEF TypeInv, L1OK
    <2>3. ASSUME NEW last \in OthersBatches, inbox' = WithBatch((LastId(inbox) + 1)..last)
          PROVE  \E blocks \in SUBSET DOMAIN chain : inbox' = WithBatch(blocks)
      BY <2>3, OthersBlocks
    <2> QED
      BY <2>1, <2>2, <2>3, InboxGrows
  <1>3. /\ inbox' \in Seq(BatchType) /\ Len(inbox') \in Nat /\ Len(inbox) \in Nat
        /\ Len(inbox) <= Len(inbox')
        /\ \A i \in DOMAIN inbox' : inbox'[i].blocks \subseteq DOMAIN chain
    <2>1. CASE inbox' = inbox
      BY <2>1 DEF TypeInv, L1OK
    <2>2. ASSUME NEW blocks \in SUBSET DOMAIN chain, inbox' = WithBatch(blocks)
          PROVE  /\ inbox' \in Seq(BatchType) /\ Len(inbox') \in Nat /\ Len(inbox) \in Nat
                 /\ Len(inbox) <= Len(inbox')
                 /\ \A i \in DOMAIN inbox' : inbox'[i].blocks \subseteq DOMAIN chain
      <3>1. /\ inbox' \in Seq(BatchType) /\ Len(inbox') = Len(inbox) + 1
            /\ \A i \in DOMAIN inbox : inbox'[i] = inbox[i]
            /\ inbox'[Len(inbox) + 1].blocks = blocks
        BY <2>2, BatchAppended
      <3>2. /\ inbox \in Seq(BatchType)
            /\ \A i \in DOMAIN inbox : inbox[i].blocks \subseteq DOMAIN chain
        BY DEF TypeInv, L1OK
      <3>3. /\ Len(inbox) \in Nat /\ DOMAIN inbox = 1..Len(inbox)
            /\ DOMAIN inbox' = 1..(Len(inbox) + 1)
        BY <3>1, <3>2
      <3>4. \A i \in DOMAIN inbox' : i \in DOMAIN inbox \/ i = Len(inbox) + 1
        BY <3>3
      <3>5. \A i \in DOMAIN inbox' : inbox'[i].blocks \subseteq DOMAIN chain
        BY <3>1, <3>2, <3>4
      <3> QED
        BY <3>1, <3>3, <3>5
    <2> QED
      BY <1>2, <2>1, <2>2
  <1>4. /\ pool' \subseteq pool /\ nonce' \in {nonce, nonce + 1}
        /\ \/ thread' = thread
           \/ thread.at = "waiting" /\ thread' = [thread EXCEPT !.since = now]
    BY DEF L1Block, Include, LeaveOut
  <1>5. L1OK'
    <2>1. UNCHANGED chain
      BY <1>1 DEF l2
    <2> QED
      BY <1>1, <1>3, <1>4, <2>1 DEF TypeInv, L1OK
  <1>6. ThreadOK'
    <2>1. CASE thread' = thread
      BY <1>1, <2>1 DEF TypeInv, ThreadOK, l2
    <2>2. CASE thread.at = "waiting" /\ thread' = [thread EXCEPT !.since = now]
      <3>1. thread' \in [at : {"waiting"}, nonce : Nat, since : Int, until : Int]
        BY <2>2, ThreadFields, HereNow
      <3> QED
        BY <3>1 DEF ThreadOK, ThreadType
    <2> QED
      BY <1>4, <2>1, <2>2
  <1>7. TrackerOK'
    BY <1>1, <1>3 DEF TypeInv, TrackerOK, l2, tracker
  <1>8. TimeOK' /\ ChainOK' /\ LoopOK'
    BY <1>1 DEF TypeInv, TimeOK, ChainOK, LoopOK, Here, At, l2, loop
  <1> QED
    BY <1>5, <1>6, <1>7, <1>8 DEF TypeInv

\* Every step keeps the types.
LEMMA TypeStep == TypeInv /\ [Next]_vars => TypeInv'
  <1> SUFFICES ASSUME TypeInv, [Next]_vars PROVE TypeInv'
    OBVIOUS
  <1>1. CASE UNCHANGED vars
    BY <1>1 DEF vars, TypeInv, TimeOK, ChainOK, TrackerOK, LoopOK, ThreadOK, L1OK, Here, At,
                l2, tracker, loop, l1
  <1>2. CASE Over
    BY <1>1, <1>2 DEF Over
  <1> QED
    BY <1>1, <1>2, TickTypes, BuildTypes, HandleTypes, CrashTypes, StartTypes, BootTypes,
       IterateTypes, QueryTypes, ProposingTypes, SubmitTypes, L1BlockTypes DEF Next

\* All variables are of their types: the next operator is asked for only where
\* there is a next epoch, what the thread proposes are blocks of the chain, and
\* no batch is empty (confirmation_strategy.rs, lines 91-94 and 127-130).
THEOREM TypeCorrect == Spec => []TypeOK
  <1>1. Spec => []TypeInv
    BY TypeInit, TypeStep, PTL DEF Spec
  <1>2. TypeInv => TypeOK
    BY ThreadFields DEF TypeInv, TimeOK, ChainOK, TrackerOK, LoopOK, ThreadOK, L1OK, TypeOK,
                        BlockType
  <1> QED
    BY <1>1, <1>2, PTL
-----------------------------------------------------------------------------
(* The blocks of the chain.                                                *)

\* Every block is of a slot that has begun and of the operator whose window that
\* slot is in, and its slot is not before that of the block before.
ChainInv ==
    /\ \A n \in DOMAIN chain :
          /\ chain[n].slot <= now
          /\ chain[n].operator = schedule[WindowEpoch(At(chain[n].slot))]
    /\ \A m, n \in DOMAIN chain : m <= n => chain[m].slot <= chain[n].slot

\* No block of this preconfer has an older anchor than a block before it.
AnchorInv ==
    /\ anchor <= now
    /\ \A n \in DOMAIN chain :
          chain[n].anchor <= now /\ (pc # "down" => chain[n].anchor <= anchor)
    /\ \A m, n \in DOMAIN chain :
          m <= n /\ chain[n].operator = Me => chain[m].anchor <= chain[n].anchor

\* What is known of a block of the chain.
LEMMA BlockFields ==
    ASSUME TypeInv
    PROVE  /\ Len(chain) \in Nat /\ DOMAIN chain = 1..Len(chain) /\ anchor \in Nat
           /\ \A n \in DOMAIN chain : n \in Nat /\ chain[n].slot \in Nat /\ chain[n].slot \in Slots
                                      /\ chain[n].anchor \in Nat
  <1>1. chain \in Seq(BlockType) /\ anchor \in Slots
    BY DEF TypeInv, ChainOK
  <1>2. Len(chain) \in Nat /\ DOMAIN chain = 1..Len(chain) /\ \A n \in DOMAIN chain : chain[n] \in BlockType
    BY <1>1
  <1>3. Slots \subseteq Nat
    BY DEF Slots
  <1>4. \A n \in DOMAIN chain : chain[n].slot \in Slots /\ chain[n].anchor \in Slots
    BY <1>2 DEF BlockType
  <1>5. \A n \in DOMAIN chain : chain[n].slot \in Nat /\ chain[n].anchor \in Nat
    BY <1>3, <1>4
  <1>6. anchor \in Nat /\ \A n \in DOMAIN chain : n \in Nat
    BY <1>1, <1>2, <1>3
  <1> QED
    BY <1>2, <1>4, <1>5, <1>6

\* Nothing is before the beginning.
LEMMA ChainInit == Init => ChainInv /\ AnchorInv
  <1> SUFFICES ASSUME Init PROVE ChainInv /\ AnchorInv
    OBVIOUS
  <1>1. chain = <<>> /\ anchor = now /\ now \in Nat
    BY ConfirmationAssumption, SlotsAssumption DEF Init
  <1>2. DOMAIN chain = {}
    BY <1>1
  <1> QED
    BY <1>1, <1>2 DEF ChainInv, AnchorInv

\* A block that is built is of this slot, and has the latest anchor.
LEMMA BuildChain ==
    ASSUME TypeInv, ChainInv, AnchorInv, Build
    PROVE  ChainInv' /\ AnchorInv'
  <1> DEFINE old == DOMAIN chain
             new == DOMAIN chain' \ DOMAIN chain
             operator == schedule[WindowEpoch(Here)]
  <1>1. UNCHANGED <<now, schedule, pc>> /\ now \in Nat
    BY HereNow DEF Build, loop
  <1>2. /\ Len(chain) \in Nat /\ old = 1..Len(chain) /\ anchor \in Nat
        /\ \A n \in old : n \in Nat /\ chain[n].slot \in Nat /\ chain[n].anchor \in Nat
    BY BlockFields
  <1>3. /\ Len(chain') \in Nat /\ Len(chain) <= Len(chain') /\ DOMAIN chain' = 1..Len(chain')
        /\ anchor' \in Nat
    BY BuildGrows DEF Slots
  <1>4. \A n \in old : chain'[n] = chain[n]
    BY BuildGrows
  <1>5. \A n \in new : chain'[n].slot = now /\ chain'[n].operator = operator
                       /\ chain'[n].anchor = anchor'
    BY BuildGrows
  <1>6. DOMAIN chain' = old \cup new /\ \A m \in old, n \in new : m < n
    BY <1>2, <1>3
  <1>7. operator = Me /\ pc = "down" => new = {}
    BY BuildGrows
  <1>8. anchor' \in {anchor, now} /\ anchor <= anchor' /\ anchor' <= now
    BY <1>1, <1>2 DEF Build, AnchorInv
  <1>9. \A n \in new : chain'[n].operator = schedule[WindowEpoch(At(chain'[n].slot))]
    BY <1>5 DEF Here
  <1>10. \A n \in old : chain[n].anchor <= now /\ chain[n].slot <= now
                        /\ (pc # "down" => chain[n].anchor <= anchor')
    BY <1>1, <1>2, <1>3, <1>8 DEF ChainInv, AnchorInv
  <1> HIDE DEF old, new, operator
  <1>11. ChainInv'
    <2>1. ASSUME NEW n \in DOMAIN chain'
          PROVE  /\ chain'[n].slot <= now'
                 /\ chain'[n].operator = schedule'[WindowEpoch(At(chain'[n].slot))]
      <3>1. CASE n \in old
        BY <1>1, <1>4, <3>1 DEF ChainInv, old
      <3>2. CASE n \in new
        BY <1>1, <1>5, <1>9, <3>2
      <3> QED
        BY <1>6, <3>1, <3>2
    <2>2. ASSUME NEW m \in DOMAIN chain', NEW n \in DOMAIN chain', m <= n
          PROVE  chain'[m].slot <= chain'[n].slot
      <3>1. CASE m \in old /\ n \in old
        BY <1>4, <2>2, <3>1 DEF ChainInv, old
      <3>2. CASE m \in old /\ n \in new
        BY <1>4, <1>5, <1>10, <3>2
      <3>3. CASE m \in new /\ n \in new
        BY <1>1, <1>5, <3>3
      <3>4. ~(m \in new /\ n \in old)
        BY <1>2, <1>3, <1>6, <2>2
      <3> QED
        BY <1>6, <3>1, <3>2, <3>3, <3>4
    <2> QED
      BY <2>1, <2>2 DEF ChainInv
  <1>12. AnchorInv'
    <2>1. ASSUME NEW n \in DOMAIN chain'
          PROVE  chain'[n].anchor <= now' /\ (pc' # "down" => chain'[n].anchor <= anchor')
      <3>1. CASE n \in old
        BY <1>1, <1>4, <1>10, <3>1
      <3>2. CASE n \in new
        BY <1>1, <1>3, <1>5, <1>8, <3>2
      <3> QED
        BY <1>6, <3>1, <3>2
    <2>2. ASSUME NEW m \in DOMAIN chain', NEW n \in DOMAIN chain', m <= n,
                 chain'[n].operator = Me
          PROVE  chain'[m].anchor <= chain'[n].anchor
      <3>1. CASE m \in old /\ n \in old
        BY <1>4, <2>2, <3>1 DEF AnchorInv, old
      <3>2. CASE m \in old /\ n \in new
        <4>1. pc # "down"
          BY <1>5, <1>7, <2>2, <3>2
        <4> QED
          BY <1>4, <1>5, <1>10, <3>2, <4>1
      <3>3. CASE m \in new /\ n \in new
        BY <1>3, <1>5, <3>3
      <3>4. ~(m \in new /\ n \in old)
        BY <1>2, <1>3, <1>6, <2>2
      <3> QED
        BY <1>6, <3>1, <3>2, <3>3, <3>4
    <2> QED
      BY <1>1, <1>8, <2>1, <2>2 DEF AnchorInv
  <1> QED
    BY <1>11, <1>12

\* Every step keeps both invariants.
LEMMA ChainStep ==
    ASSUME TypeInv, ChainInv, AnchorInv, [Next]_vars
    PROVE  ChainInv' /\ AnchorInv'
  <1>1. /\ now \in Nat /\ anchor \in Nat
        /\ \A n \in DOMAIN chain : chain[n].slot \in Nat /\ chain[n].anchor \in Nat
    BY BlockFields, HereNow
  <1>2. CASE Build
    BY <1>2, BuildChain
  <1>3. CASE Tick
    BY <1>1, <1>3 DEF Tick, ChainInv, AnchorInv
  <1>4. CASE Crash
    BY <1>1, <1>4 DEF Crash, ChainInv, AnchorInv
  <1>5. CASE Start
    BY <1>1, <1>5 DEF Start, ChainInv, AnchorInv
  <1>6. CASE UNCHANGED <<now, schedule, chain, anchor>> /\ (pc' # "down" => pc # "down")
    BY <1>6 DEF ChainInv, AnchorInv
  <1> QED
    BY <1>2, <1>3, <1>4, <1>5, <1>6
    DEF Next, Over, vars, HandleBatch, Boot, Iterate, QueryNext, ReadParent, ReadNonce,
        EstimateGas, CallFails, Submit, SendFails, Receipt, ReceiptFails, TimesOut, L1Block, l2, loop
-----------------------------------------------------------------------------
(* The batches and the chain.                                              *)

LastBlock == LastId(inbox)

\* A block before the ones that are proposed is left to nobody: this
\* preconfer's has expired, another operator's is of an epoch that is over.
Left(n) ==
    IF chain[n].operator = Me THEN Expired(n, SendSlot)
    ELSE WindowEpoch(At(chain[n].slot)) < Here.epoch

\* The cache holds this preconfer's blocks that L1 does not have, unless they
\* have expired.
Cached ==
    pc # "down" =>
       \A n \in DOMAIN chain :
          n > LastBlock /\ chain[n].operator = Me => n \in cache \/ Expired(n, SendSlot)

\* It holds no block that L1 has, once every batch is handled.
OnlyOpen ==
    pc # "down" /\ handled = Len(inbox) => \A n \in cache : n > LastBlock

CacheInv ==
    /\ Cached /\ OnlyOpen
    /\ \A n \in cache : n > lastConfirmed
    /\ lastConfirmed <= LastBlock
    /\ LastBlock <= Len(chain)

\* Only the batch of this slot may be unhandled, and while it is, the thread
\* waits for its receipt in the epochs of this preconfer.
BehindInv ==
    pc # "down" /\ handled < Len(inbox) =>
       /\ handled + 1 = Len(inbox)
       /\ included
       /\ InTurn => thread.at = "waiting" /\ thread.since = now /\ now < thread.until

\* The thread waits for the transaction that is pending, which the next L1
\* block includes before the thread gives up.
PoolInv ==
    pool # {} =>
       /\ thread.at = "waiting" /\ thread.nonce = nonce /\ thread.since = -1
       /\ now + (IF included THEN 2 ELSE 1) <= thread.until

\* The batches that are on their way to L1.
InFlight ==
    (IF thread.at \in {"started", "pricing"} THEN {thread.blocks} ELSE {})
        \cup {tx.blocks : tx \in pool}

\* They hold the next blocks of this preconfer.
IsNext(blocks) ==
    /\ blocks \subseteq DOMAIN chain
    /\ \A n \in blocks : n > LastBlock /\ chain[n].operator = Me
    /\ \A n \in DOMAIN chain \ blocks, m \in blocks : LastBlock < n /\ n < m => Left(n)

FlightInv == \A blocks \in InFlight : IsNext(blocks)

\* A block that is left out is left out for good.
InboxInv ==
    /\ \A i \in DOMAIN inbox : inbox[i].last <= LastBlock
    /\ \/ InSequence
       \/ \E n \in DOMAIN chain : n <= LastBlock /\ TooLate(n) /\ ~Proposed(n)

SeqInv == CacheInv /\ BehindInv /\ PoolInv /\ FlightInv /\ InboxInv

\* A proposal that L1 takes at once is included before its thread gives up.
TimeToInclude == ProposeTimeout >= 2

\* What L1 knows of the blocks of the inbox.
LEMMA LastBlockType ==
    ASSUME TypeInv
    PROVE  /\ LastBlock \in Nat /\ Len(inbox) \in Nat /\ DOMAIN inbox = 1..Len(inbox)
           /\ handled \in Nat /\ handled <= Len(inbox) /\ lastConfirmed \in Nat /\ nonce \in Nat
           /\ included \in BOOLEAN /\ SendSlot = IF included THEN now + 1 ELSE now
           /\ inbox # <<>> => LastBlock = inbox[Len(inbox)].last
  <1>1. inbox \in Seq(BatchType) /\ handled \in 0..Len(inbox) /\ included \in BOOLEAN
    BY DEF TypeInv, L1OK, TrackerOK
  <1>2. LastBlock \in Nat
    BY <1>1, LastIdType DEF LastBlock
  <1>3. SendSlot = IF included THEN now + 1 ELSE now
    BY HereNow DEF SendSlot, LatestL1
  <1>4. Len(inbox) \in Nat /\ DOMAIN inbox = 1..Len(inbox)
    BY <1>1
  <1>5. handled \in Nat /\ handled <= Len(inbox)
    BY <1>1, <1>4
  <1>6. lastConfirmed \in Nat /\ nonce \in Nat
    BY DEF TypeInv, L1OK, TrackerOK
  <1>7. inbox # <<>> => LastBlock = inbox[Len(inbox)].last
    BY DEF LastBlock, LastId
  <1> QED
    BY <1>1, <1>2, <1>3, <1>4, <1>5, <1>6, <1>7

\* The same after a step.
LEMMA PrimedTypes ==
    ASSUME TypeInv'
    PROVE  /\ now' \in Nat /\ now' \in Slots
           /\ (Here.epoch)' \in Nat /\ (Here.epoch)' = At(now').epoch
           /\ SendSlot' = (IF included' THEN now' + 1 ELSE now') /\ SendSlot' \in Nat
           /\ Len(chain') \in Nat /\ DOMAIN chain' = 1..Len(chain')
           /\ LastBlock' \in Nat
  <1>1. /\ now' \in Slots /\ included' \in BOOLEAN
        /\ inbox' \in Seq(BatchType) /\ chain' \in Seq(BlockType)
    BY DEF TypeInv, TimeOK, ChainOK, L1OK
  <1>2. now' \in Nat
    BY <1>1 DEF Slots
  <1>3. At(now').epoch \in Nat
    BY <1>2, PositionType
  <1>4. (Here.epoch)' = At(now').epoch
    BY DEF Here
  <1>5. SendSlot' = IF included' THEN now' + 1 ELSE now'
    <2>1. SendSlot' = (IF included' THEN now' ELSE now' - 1) + 1
      BY DEF SendSlot, LatestL1
    <2>2. PICK n \in Nat : now' = n
      BY <1>2
    <2> QED
      BY <2>1, <2>2
  <1>6. LastBlock' \in Nat
    BY <1>1, LastIdType DEF LastBlock
  <1>7. Len(chain') \in Nat /\ DOMAIN chain' = 1..Len(chain')
    BY <1>1
  <1>8. SendSlot' \in Nat
    <2>1. PICK n \in Nat : now' = n
      BY <1>2
    <2> QED
      BY <1>5, <2>1
  <1> QED
    BY <1>1, <1>2, <1>3, <1>4, <1>5, <1>6, <1>7, <1>8

\* No step goes back: time goes on, blocks are only added to the chain and
\* batches to the inbox.
LEMMA NoStepBack ==
    ASSUME TypeInv, TypeInv', [Next]_vars
    PROVE  /\ now <= now' /\ SendSlot <= SendSlot' /\ Here.epoch <= (Here.epoch)'
           /\ DOMAIN chain \subseteq DOMAIN chain' /\ Len(chain) <= Len(chain')
           /\ \A n \in DOMAIN chain : chain'[n] = chain[n]
           /\ schedule' = schedule /\ env' = env /\ (alarmed => alarmed')
  <1>1. /\ now \in Nat /\ now' \in Nat
        /\ Len(chain) \in Nat /\ DOMAIN chain = 1..Len(chain)
        /\ Len(chain') \in Nat /\ DOMAIN chain' = 1..Len(chain')
    BY HereNow, BlockFields, PrimedTypes
  <1>2. SendSlot = (IF included THEN now + 1 ELSE now)
    BY LastBlockType
  <1>3. SendSlot' = (IF included' THEN now' + 1 ELSE now')
    BY PrimedTypes
  <1>4. SUFFICES /\ now <= now' /\ SendSlot <= SendSlot' /\ Len(chain) <= Len(chain')
                 /\ \A n \in DOMAIN chain : chain'[n] = chain[n]
                 /\ schedule' = schedule /\ env' = env /\ (alarmed => alarmed')
    <2>1. SUFFICES ASSUME now <= now' PROVE Here.epoch <= (Here.epoch)'
      BY <1>1
    <2>2. At(now).epoch <= At(now').epoch
      BY <1>1, <2>1, LaterEpoch
    <2> QED
      BY <2>2, PrimedTypes DEF Here
  <1>5. included \in BOOLEAN
    BY DEF TypeInv, L1OK
  <1>6. CASE Tick
    <2>1. /\ UNCHANGED <<schedule, env, chain, alarmed>> /\ now' = now + 1
          /\ included = TRUE /\ included' = FALSE
      BY <1>5, <1>6 DEF Tick, SlotIsOver, tracker
    <2>2. SendSlot = now + 1 /\ SendSlot' = now'
      BY <1>2, <1>3, <2>1
    <2> QED
      BY <1>1, <2>1, <2>2
  <1>7. CASE ~Tick
    <2>1. UNCHANGED <<now, schedule, env>> /\ (included => included') /\ (alarmed => alarmed')
      BY <1>7 DEF Next, vars, Over, Build, HandleBatch, Crash, Start, Boot, Iterate, QueryNext,
                  ReadParent, ReadNonce, EstimateGas, CallFails, Submit, SendFails, Receipt, ReceiptFails, TimesOut,
                  L1Block, tracker, l1
    <2>2. UNCHANGED chain \/ Build
      BY <1>7 DEF Next, vars, Over, HandleBatch, Crash, Start, Boot, Iterate, QueryNext,
                  ReadParent, ReadNonce, EstimateGas, CallFails, Submit, SendFails, Receipt, ReceiptFails, TimesOut,
                  L1Block, l2
    <2>3. /\ Len(chain) <= Len(chain') /\ \A n \in DOMAIN chain : chain'[n] = chain[n]
      <3>1. CASE chain' = chain
        BY <1>1, <3>1
      <3>2. CASE Build
        BY <3>2, BuildGrows
      <3> QED
        BY <2>2, <3>1, <3>2
    <2>4. SendSlot <= SendSlot' /\ now <= now'
      BY <1>1, <1>2, <1>3, <1>5, <2>1
    <2> QED
      BY <2>1, <2>3, <2>4
  <1> QED
    BY <1>6, <1>7

\* What it is too late for stays so.
LEMMA StaysLate ==
    ASSUME TypeInv, TypeInv', [Next]_vars, NEW n \in DOMAIN chain
    PROVE  /\ Expired(n, SendSlot) => Expired(n, SendSlot)'
           /\ Left(n) => Left(n)'
           /\ TooLate(n) => TooLate(n)'
  <1>1. /\ now \in Nat /\ now' \in Nat /\ Here.epoch \in Nat /\ (Here.epoch)' \in Nat
        /\ chain[n].slot \in Nat /\ MaxOffset \in Nat
    BY HereNow, BlockFields, PrimedTypes, ConfirmationAssumption
  <1>2. SendSlot \in Nat
    BY <1>1, LastBlockType
  <1>3. SendSlot' \in Nat
    BY PrimedTypes
  <1>4. /\ now <= now' /\ SendSlot <= SendSlot' /\ Here.epoch <= (Here.epoch)'
        /\ chain'[n] = chain[n]
    BY NoStepBack
  <1>5. Expired(n, SendSlot) => Expired(n, SendSlot)'
    BY <1>1, <1>2, <1>3, <1>4 DEF Expired
  <1>6. Expired(n, now) => Expired(n, now)'
    BY <1>1, <1>4 DEF Expired
  <1>7. WindowEpoch(At(chain[n].slot)) \in Nat
    BY <1>1, PositionType DEF WindowEpoch
  <1>8. WindowEpoch(At(chain[n].slot)) < Here.epoch =>
          WindowEpoch(At(chain'[n].slot)) < (Here.epoch)'
    BY <1>1, <1>4, <1>7
  <1>9. Left(n) => Left(n)'
    BY <1>4, <1>5, <1>8 DEF Left
  <1> QED
    BY <1>4, <1>5, <1>6, <1>8, <1>9 DEF TooLate

\* A batch on its way holds the next blocks as long as the inbox gets none of
\* them.
LEMMA StaysNext ==
    ASSUME TypeInv, TypeInv', [Next]_vars, NEW blocks, IsNext(blocks),
           LastBlock <= LastBlock', \A n \in blocks : n > LastBlock'
    PROVE  IsNext(blocks)'
  <1>1. /\ DOMAIN chain \subseteq DOMAIN chain' /\ \A n \in DOMAIN chain : chain'[n] = chain[n]
    BY NoStepBack
  <1>2. blocks \subseteq DOMAIN chain' /\ \A n \in blocks : n > LastBlock' /\ chain'[n].operator = Me
    BY <1>1 DEF IsNext
  <1>3. ASSUME NEW n \in DOMAIN chain' \ blocks, NEW m \in blocks, LastBlock' < n, n < m
        PROVE  Left(n)'
    <2>1. /\ Len(chain) \in Nat /\ DOMAIN chain = 1..Len(chain) /\ n \in Nat
          /\ m \in DOMAIN chain
      BY BlockFields, PrimedTypes DEF IsNext
    <2>2. n \in DOMAIN chain
      BY <1>3, <2>1, LastBlockType, PrimedTypes
    <2>3. LastBlock \in Nat
      BY LastBlockType
    <2>4. LastBlock' \in Nat
      BY PrimedTypes
    <2>5. LastBlock < n
      BY <1>3, <2>1, <2>3, <2>4
    <2>6. Left(n)
      BY <1>3, <2>2, <2>5 DEF IsNext
    <2> QED
      BY <2>2, <2>6, StaysLate
  <1> QED
    BY <1>2, <1>3 DEF IsNext
\* What the steps below start from.
SeqContext == TypeInv /\ TurnInv /\ ChainInv /\ AnchorInv /\ SeqInv

\* As long as the inbox stays the same, no batch on its way gets worse.
LEMMA SameFlight ==
    ASSUME TypeInv, TypeInv', [Next]_vars, FlightInv, InFlight' \subseteq InFlight,
           UNCHANGED inbox
    PROVE  FlightInv'
  <1>1. LastBlock' = LastBlock /\ LastBlock \in Nat
    BY LastBlockType DEF LastBlock
  <1>2. SUFFICES ASSUME NEW blocks \in InFlight' PROVE IsNext(blocks)'
    BY DEF FlightInv
  <1>3. IsNext(blocks)
    BY <1>2 DEF FlightInv
  <1>4. LastBlock <= LastBlock' /\ \A n \in blocks : n > LastBlock'
    BY <1>1, <1>3 DEF IsNext
  <1> QED
    BY <1>3, <1>4, StaysNext

\* Nor does the inbox itself.
LEMMA SameInbox ==
    ASSUME TypeInv, TypeInv', [Next]_vars, InboxInv, UNCHANGED inbox
    PROVE  InboxInv'
  <1>1. LastBlock' = LastBlock
    BY DEF LastBlock
  <1>2. \A i \in DOMAIN inbox' : inbox'[i].last <= LastBlock'
    BY <1>1 DEF InboxInv
  <1>3. CASE InSequence
    <2>1. InSequence'
      BY <1>3 DEF InSequence
    <2> QED
      BY <1>2, <2>1 DEF InboxInv
  <1>4. CASE \E n \in DOMAIN chain : n <= LastBlock /\ TooLate(n) /\ ~Proposed(n)
    <2>1. PICK n \in DOMAIN chain : n <= LastBlock /\ TooLate(n) /\ ~Proposed(n)
      BY <1>4
    <2>2. TooLate(n)' /\ n \in DOMAIN chain'
      BY <2>1, StaysLate, NoStepBack
    <2>3. ~Proposed(n)'
      BY <2>1 DEF Proposed
    <2>4. n <= LastBlock'
      BY <1>1, <2>1
    <2> QED
      BY <1>2, <2>2, <2>3, <2>4 DEF InboxInv
  <1> QED
    BY <1>3, <1>4 DEF InboxInv

\* The cache stays complete if it loses only blocks that L1 has or that are too
\* old.
LEMMA StaysCached ==
    ASSUME TypeInv, TypeInv', [Next]_vars, Cached, UNCHANGED chain,
           LastBlock <= LastBlock', pc' # "down" => pc # "down",
           \A n \in cache : n > LastBlock' /\ chain[n].operator = Me =>
                               n \in cache' \/ Expired(n, SendSlot)
    PROVE  Cached'
  <1>1. SUFFICES ASSUME pc' # "down", NEW n \in DOMAIN chain, n > LastBlock',
                        chain[n].operator = Me, ~Expired(n, SendSlot)'
                 PROVE  n \in cache'
    BY DEF Cached
  <1>2. LastBlock \in Nat /\ LastBlock' \in Nat /\ n \in Nat
    BY LastBlockType, PrimedTypes, BlockFields
  <1>3. n > LastBlock
    BY <1>1, <1>2
  <1>4. ~Expired(n, SendSlot)
    BY <1>1, StaysLate
  <1>5. n \in cache
    BY <1>1, <1>3, <1>4 DEF Cached
  <1> QED
    BY <1>1, <1>4, <1>5

\* A step that changes neither the chain nor the cache, the thread or L1.
LEMMA LoopSeq ==
    ASSUME SeqContext, TypeInv', [Next]_vars,
           UNCHANGED <<now, schedule, chain, cache, lastConfirmed, handled, thread, pool, nonce,
                       included, inbox>>,
           pc' # "down" => pc # "down"
    PROVE  SeqInv'
  <1>1. /\ TypeInv /\ FlightInv /\ InboxInv /\ BehindInv /\ PoolInv /\ CacheInv
    BY DEF SeqContext, SeqInv
  <1>2. LastBlock' = LastBlock /\ LastBlock \in Nat
    BY <1>1, LastBlockType DEF LastBlock
  <1>3. InFlight' = InFlight
    BY DEF InFlight
  <1>4. Cached'
    BY <1>1, <1>2, StaysCached DEF CacheInv
  <1>5. CacheInv'
    BY <1>1, <1>2, <1>4 DEF CacheInv, OnlyOpen
  <1>6. BehindInv' /\ PoolInv'
    BY <1>1 DEF BehindInv, PoolInv, InTurn, Here, At
  <1> QED
    BY <1>1, <1>3, <1>5, <1>6, SameFlight, SameInbox DEF SeqInv

\* A step of the thread before it submits, or after it is through.
LEMMA ProposingSeq ==
    ASSUME SeqContext, TypeInv', Next,
           UNCHANGED <<now, schedule, chain, cache, lastConfirmed, handled, pc, nonce, included,
                       inbox>>,
           UNCHANGED pool, thread.at # "waiting",
           thread'.at \in {"started", "pricing"} =>
              thread.at \in {"started", "pricing"} /\ thread'.blocks = thread.blocks
    PROVE  SeqInv'
  <1>1. /\ TypeInv /\ FlightInv /\ InboxInv /\ BehindInv /\ PoolInv /\ CacheInv
    BY DEF SeqContext, SeqInv
  <1>2. LastBlock' = LastBlock /\ LastBlock \in Nat
    BY <1>1, LastBlockType DEF LastBlock
  <1>3. InFlight' \subseteq InFlight
    BY DEF InFlight
  <1>4. Cached'
    BY <1>1, <1>2, StaysCached DEF CacheInv
  <1>5. CacheInv'
    BY <1>1, <1>2, <1>4 DEF CacheInv, OnlyOpen
  <1>6. BehindInv' /\ PoolInv'
    BY <1>1 DEF BehindInv, PoolInv, InTurn, Here, At
  <1> QED
    BY <1>1, <1>3, <1>5, <1>6, SameFlight, SameInbox DEF SeqInv

\* The thread's wait ends only when its transaction is included, and not in the
\* slot whose block includes it.
LEMMA WaitEndsSeq ==
    ASSUME SeqContext, TypeInv', Receipt \/ TimesOut
    PROVE  SeqInv'
  <1>1. /\ TypeInv /\ FlightInv /\ InboxInv /\ BehindInv /\ PoolInv /\ CacheInv
    BY DEF SeqContext, SeqInv
  <1>2. /\ UNCHANGED <<now, schedule, chain, cache, lastConfirmed, handled, pc, nonce, included,
                       inbox, pool>>
        /\ thread.at = "waiting" /\ thread' = Ended /\ [Next]_vars
    BY DEF Receipt, TimesOut, Next, l2, tracker, loop, l1
  <1>3. thread \in [at : {"waiting"}, nonce : Nat, since : Int, until : Int] /\ now \in Nat
    BY <1>1, <1>2, ThreadFields, HereNow
  <1>4. LastBlock' = LastBlock /\ LastBlock \in Nat
    BY <1>1, <1>2, LastBlockType DEF LastBlock
  <1>5. pool = {}
    <2>1. CASE Receipt
      BY <1>1, <2>1 DEF Receipt, HasReceipt, PoolInv
    <2>2. CASE TimesOut
      BY <1>1, <1>3, <2>2 DEF TimesOut, PoolInv
    <2> QED
      BY <2>1, <2>2
  <1>6. ~(pc # "down" /\ handled < Len(inbox) /\ InTurn)
    <2>1. SUFFICES ASSUME included, thread.since = now, now < thread.until PROVE FALSE
      BY <1>1 DEF BehindInv
    <2>2. CASE Receipt
      BY <1>3, <2>1, <2>2 DEF Receipt, HasReceipt, LatestL1
    <2>3. CASE TimesOut
      BY <1>3, <2>1, <2>3 DEF TimesOut
    <2> QED
      BY <2>2, <2>3
  <1>7. InFlight' \subseteq InFlight
    BY <1>2 DEF InFlight, Ended
  <1>8. Cached'
    BY <1>1, <1>2, <1>4, StaysCached DEF CacheInv
  <1>9. CacheInv'
    BY <1>1, <1>2, <1>4, <1>8 DEF CacheInv, OnlyOpen
  <1>10. BehindInv' /\ PoolInv'
    BY <1>1, <1>2, <1>5, <1>6 DEF BehindInv, PoolInv, InTurn, Here, At
  <1> QED
    BY <1>1, <1>2, <1>7, <1>9, <1>10, SameFlight, SameInbox DEF SeqInv

\* The thread submits its batch, and will wait long enough for it.
LEMMA SubmitSeq ==
    ASSUME SeqContext, TypeInv', Submit, TimeToInclude
    PROVE  SeqInv'
  <1>1. /\ TypeInv /\ FlightInv /\ InboxInv /\ BehindInv /\ PoolInv /\ CacheInv
    BY DEF SeqContext, SeqInv
  <1>2. /\ UNCHANGED <<now, schedule, chain, cache, lastConfirmed, handled, pc, nonce, included,
                       inbox>>
        /\ thread.at = "pricing" /\ Next
    BY DEF Submit, Next, l2, tracker, loop
  <1>3. CASE thread' = Ended /\ UNCHANGED pool
    <2>1. thread'.at = "ended"
      BY <1>3 DEF Ended
    <2> QED
      BY <1>2, <1>3, <2>1, ProposingSeq
  <1>4. CASE /\ pool' = {[blocks |-> thread.blocks, parent |-> thread.parent]}
             /\ thread' = [at |-> "waiting", nonce |-> nonce, since |-> -1,
                           until |-> now + ProposeTimeout]
    <2>1. LastBlock' = LastBlock /\ LastBlock \in Nat
      BY <1>1, <1>2, LastBlockType DEF LastBlock
    <2>2. InFlight' \subseteq InFlight
      BY <1>2, <1>4 DEF InFlight
    <2>3. Cached'
      BY <1>1, <1>2, <2>1, StaysCached DEF CacheInv
    <2>4. CacheInv'
      BY <1>1, <1>2, <2>1, <2>3 DEF CacheInv, OnlyOpen
    <2>5. BehindInv'
      BY <1>1, <1>2 DEF BehindInv, InTurn, Here, At
    <2>6. PoolInv'
      <3>1. now \in Nat /\ ProposeTimeout \in Nat
        BY <1>1, HereNow, ConfirmationAssumption
      <3>2. /\ thread'.at = "waiting" /\ thread'.nonce = nonce /\ thread'.since = -1
            /\ thread'.until = now + ProposeTimeout
        BY <1>4
      <3>3. now + (IF included THEN 2 ELSE 1) <= now + ProposeTimeout
        BY <3>1 DEF TimeToInclude
      <3> QED
        BY <1>2, <3>2, <3>3 DEF PoolInv
    <2> QED
      BY <1>1, <1>2, <2>2, <2>4, <2>5, <2>6, SameFlight, SameInbox DEF SeqInv
  <1> QED
    BY <1>3, <1>4 DEF Submit
\* Later slots are of later windows.
LEMMA LaterWindow ==
    ASSUME NEW m \in Nat, NEW n \in Nat, m <= n
    PROVE  WindowEpoch(At(m)) <= WindowEpoch(At(n))
  <1>1. HandoverSlots \in Nat
    BY SlotsAssumption
  <1>2. m + HandoverSlots \in Nat /\ n + HandoverSlots \in Nat /\ m + HandoverSlots <= n + HandoverSlots
    BY <1>1
  <1> QED
    BY <1>2, LaterEpoch, WindowIsLater

\* A block that is not ready is left to nobody if one after it is, in an epoch
\* of this preconfer: were it another operator's and of this window or the next
\* one, the one after it would be, too.
LEMMA OnlyLeftBefore ==
    ASSUME TypeInv, ChainInv, Cached, pc # "down", InTurn,
           NEW m \in Ready, NEW n \in DOMAIN chain, n < m, n > LastBlock, n \notin Ready
    PROVE  Left(n)
  <1> DEFINE d == chain[n].slot
             e == chain[m].slot
  <1>1. m \in DOMAIN chain /\ m \in Kept /\ e < SendSlot
    BY DEF Ready, Kept, TypeInv, TrackerOK
  <1>2. /\ m \in Nat /\ n \in Nat /\ d \in Nat /\ e \in Nat /\ now \in Nat
        /\ Here.epoch \in Nat
    BY <1>1, BlockFields, HereNow
  <1>3. SendSlot \in Nat /\ SendSlot <= now + 1
    BY <1>2, LastBlockType
  <1>4. d <= e /\ d < SendSlot /\ e <= now
    <2>1. d <= e
      BY <1>1, <1>2 DEF ChainInv
    <2> HIDE DEF d, e
    <2> QED
      BY <1>1, <1>2, <1>3, <2>1
  <1>5. CASE chain[n].operator = Me
    <2>1. n \in cache \/ Expired(n, SendSlot)
      BY <1>5 DEF Cached
    <2>2. n \in cache /\ ~Expired(n, SendSlot) => n \in Ready
      BY <1>4, <1>5 DEF Ready, Kept
    <2> QED
      BY <1>5, <2>1, <2>2 DEF Left
  <1>6. CASE chain[n].operator # Me
    <2> DEFINE v == WindowEpoch(At(d))
               w == WindowEpoch(At(e))
    <2>1. v <= w /\ w <= WindowEpoch(Here)
      <3>1. WindowEpoch(Here) = WindowEpoch(At(now))
        BY DEF Here
      <3> HIDE DEF d, e
      <3> QED
        BY <1>2, <1>4, <3>1, LaterWindow
    <2>2. WindowEpoch(Here) <= Here.epoch + 1
      BY <1>2 DEF WindowEpoch
    <2>3. v \in Nat /\ w \in Nat /\ WindowEpoch(Here) \in Nat
      <3>1. At(d).epoch \in Nat /\ At(e).epoch \in Nat
        BY <1>2, PositionType
      <3> QED
        BY <1>2, <3>1 DEF WindowEpoch
    <2>4. chain[n].operator = schedule[v] /\ chain[m].operator = schedule[w]
      BY <1>1 DEF ChainInv
    <2>5. chain[m].operator = Me /\ schedule[Here.epoch] = Me
      BY <1>1 DEF Kept, InTurn
    <2>6. v # Here.epoch /\ v # w
      BY <1>6, <2>4, <2>5
    <2> HIDE DEF v, w
    <2>7. v < Here.epoch
      BY <1>2, <2>1, <2>2, <2>3, <2>6
    <2> QED
      BY <1>6, <2>7 DEF Left, v
  <1> QED
    BY <1>5, <1>6

\* What is chosen of the ready blocks is all up to some block.
LEMMA ChosenFirst ==
    ASSUME NEW m \in WithinTimeShift(SameAnchor(Ready)), NEW n \in Ready, n < m,
           Ready \subseteq Nat
    PROVE  n \in WithinTimeShift(SameAnchor(Ready))
  <1> DEFINE B == SameAnchor(Ready)
  <1>1. m \in B /\ B \subseteq Ready /\ m \in Nat /\ n \in Nat
    BY DEF WithinTimeShift, SameAnchor
  <1>2. \A k \in Ready : k <= n => k <= m
    BY <1>1
  <1>3. n \in B
    BY <1>1, <1>2 DEF SameAnchor
  <1>4. \A k \in B \ {Min(B)} : k <= n => k <= m
    BY <1>1, <1>2
  <1> HIDE DEF B
  <1> QED
    BY <1>3, <1>4 DEF WithinTimeShift, B

\* An iteration forms a batch of the next blocks.
LEMMA IterateSeq ==
    ASSUME SeqContext, TypeInv', Iterate
    PROVE  SeqInv'
  <1>1. /\ TypeInv /\ TurnInv /\ ChainInv
        /\ FlightInv /\ InboxInv /\ BehindInv /\ PoolInv /\ CacheInv
    BY DEF SeqContext, SeqInv
  <1>2. /\ UNCHANGED <<now, schedule, chain, lastConfirmed, handled, pool, nonce, included, inbox>>
        /\ pc # "down" /\ [Next]_vars
    BY DEF Iterate, Next, l2, tracker, l1
  <1>3. CASE UNCHANGED <<cache, thread>>
    BY <1>2, <1>3, LoopSeq
  <1>4. CASE MaySend /\ Send(WithinHandoverPeriod(Here.slot))
    <2>1. InTurn
      BY <1>1, <1>4, MaySendInTurn
    <2>2. LastBlock' = LastBlock /\ LastBlock \in Nat /\ LastBlock <= LastBlock'
      BY <1>1, <1>2, LastBlockType DEF LastBlock
    <2>3. cache' = Kept /\ Kept \subseteq cache
      BY <1>4 DEF Send, Kept
    <2>4. Cached'
      <3>1. \A n \in cache : n > LastBlock' /\ chain[n].operator = Me =>
                                n \in cache' \/ Expired(n, SendSlot)
        BY <2>3 DEF Kept
      <3> QED
        BY <1>1, <1>2, <2>2, <3>1, StaysCached DEF CacheInv
    <2>5. CacheInv'
      BY <1>1, <1>2, <2>2, <2>3, <2>4 DEF CacheInv, OnlyOpen
    <2>6. CASE thread' = thread
      <3>1. BehindInv' /\ PoolInv'
        BY <1>1, <1>2, <2>6 DEF BehindInv, PoolInv, InTurn, Here, At
      <3>2. InFlight' = InFlight
        BY <1>2, <2>6 DEF InFlight
      <3> QED
        BY <1>1, <1>2, <2>5, <3>1, <3>2, SameFlight, SameInbox DEF SeqInv
    <2>7. CASE thread' # thread
      <3> DEFINE B == WithinTimeShift(SameAnchor(Ready))
      <3>1. /\ thread = Ended /\ Ready # {} /\ thread' = [at |-> "started", blocks |-> B]
        BY <1>4, <2>7 DEF Send, WantsToSend
      <3>2. thread.at # "waiting"
        BY <3>1 DEF Ended
      <3>3. pool = {}
        BY <1>1, <3>2 DEF PoolInv
      <3>4. handled = Len(inbox)
        BY <1>1, <1>2, <2>1, <3>2, LastBlockType DEF BehindInv
      <3>5. BehindInv'
        BY <1>1, <1>2, <3>4, LastBlockType DEF BehindInv
      <3>6. PoolInv'
        BY <1>2, <3>3 DEF PoolInv
      <3>7. B \subseteq Ready /\ Ready \subseteq DOMAIN chain
        BY <1>1, <3>1, ChosenBlocks
      <3>8. DOMAIN chain \subseteq Nat
        BY <1>1, BlockFields
      <3>9. \A n \in Ready : n > LastBlock /\ chain[n].operator = Me
        BY <1>1, <1>2, <3>4 DEF CacheInv, OnlyOpen, Ready, Kept
      <3>10. ASSUME NEW n \in DOMAIN chain \ B, NEW m \in B, LastBlock < n, n < m
             PROVE  Left(n)
        <4>1. m \in Ready /\ Ready \subseteq Nat
          BY <3>7, <3>8
        <4>2. n \notin Ready
          BY <3>10, <4>1, ChosenFirst
        <4>3. n > LastBlock
          BY <3>10, <2>2, <3>8
        <4> QED
          BY <1>1, <1>2, <2>1, <3>10, <4>1, <4>2, <4>3, OnlyLeftBefore DEF CacheInv
      <3>11. IsNext(B)
        <4> HIDE DEF B
        <4> QED
          BY <3>7, <3>9, <3>10 DEF IsNext
      <3>12. FlightInv'
        <4>1. SUFFICES ASSUME NEW blocks \in InFlight' PROVE IsNext(blocks)'
          BY DEF FlightInv
        <4>2. InFlight' = {B}
          <5> HIDE DEF B
          <5> QED
            BY <1>2, <3>1, <3>3 DEF InFlight
        <4>3. blocks = B
          BY <4>1, <4>2
        <4>4. IsNext(blocks)
          BY <3>11, <4>3
        <4>5. \A n \in blocks : n > LastBlock'
          BY <2>2, <4>4 DEF IsNext
        <4> HIDE DEF B
        <4> QED
          BY <1>1, <1>2, <2>2, <4>4, <4>5, StaysNext
      <3> QED
        BY <1>1, <1>2, <2>5, <3>5, <3>6, <3>12, SameInbox DEF SeqInv
    <2> QED
      BY <2>6, <2>7
  <1> QED
    BY <1>3, <1>4 DEF Iterate
\* A block that is built is cached.
LEMMA BuildSeq ==
    ASSUME SeqContext, TypeInv', Build
    PROVE  SeqInv'
  <1>1. /\ TypeInv /\ FlightInv /\ InboxInv /\ BehindInv /\ PoolInv /\ CacheInv
    BY DEF SeqContext, SeqInv
  <1>2. /\ UNCHANGED <<now, schedule, lastConfirmed, handled, pc, thread, pool, nonce, included,
                       inbox>>
        /\ [Next]_vars
    BY DEF Build, Next, tracker, loop, l1
  <1>3. /\ LastBlock' = LastBlock /\ LastBlock \in Nat /\ lastConfirmed \in Nat
        /\ LastBlock <= Len(chain) /\ lastConfirmed <= LastBlock
    BY <1>1, <1>2, LastBlockType DEF LastBlock, CacheInv
  <1>4. /\ Len(chain) \in Nat /\ Len(chain') \in Nat /\ Len(chain) <= Len(chain')
        /\ DOMAIN chain = 1..Len(chain) /\ DOMAIN chain' = 1..Len(chain')
        /\ \A n \in DOMAIN chain : chain'[n] = chain[n]
    BY <1>1, BuildGrows, BlockFields, PrimedTypes
  <1>5. \A n \in DOMAIN chain' \ DOMAIN chain : n > LastBlock /\ n > lastConfirmed
    BY <1>3, <1>4
  <1>6. cache' = IF pc = "down" THEN cache ELSE cache \cup (DOMAIN chain' \ DOMAIN chain)
    BY <1>5 DEF Build
  <1>7. Cached'
    <2>1. SUFFICES ASSUME pc # "down", NEW n \in DOMAIN chain', n > LastBlock',
                          chain'[n].operator = Me, ~Expired(n, SendSlot)'
                   PROVE  n \in cache'
      BY <1>2 DEF Cached
    <2>2. CASE n \in DOMAIN chain
      <3>1. ~Expired(n, SendSlot)
        BY <1>1, <1>2, <2>1, <2>2, StaysLate
      <3>2. n > LastBlock /\ chain[n].operator = Me
        BY <1>3, <1>4, <2>1, <2>2
      <3> QED
        BY <1>1, <1>6, <2>1, <2>2, <3>1, <3>2 DEF CacheInv, Cached
    <2>3. CASE n \notin DOMAIN chain
      BY <1>6, <2>1, <2>3
    <2> QED
      BY <2>2, <2>3
  <1>8. OnlyOpen'
    BY <1>1, <1>2, <1>3, <1>5, <1>6 DEF CacheInv, OnlyOpen
  <1>9. \A n \in cache' : n > lastConfirmed'
    BY <1>1, <1>2, <1>5, <1>6 DEF CacheInv
  <1>10. lastConfirmed' <= LastBlock' /\ LastBlock' <= Len(chain')
    BY <1>2, <1>3, <1>4
  <1>11. CacheInv'
    BY <1>7, <1>8, <1>9, <1>10 DEF CacheInv
  <1>12. BehindInv' /\ PoolInv'
    BY <1>1, <1>2 DEF BehindInv, PoolInv, InTurn, Here, At
  <1>13. InFlight' = InFlight
    BY <1>2 DEF InFlight
  <1> QED
    BY <1>1, <1>2, <1>11, <1>12, <1>13, SameFlight, SameInbox DEF SeqInv

\* The latest batch is handled: its blocks leave the cache, unless an alarm
\* empties it.
LEMMA HandleSeq ==
    ASSUME SeqContext, TypeInv', HandleBatch, ~alarmed'
    PROVE  SeqInv'
  <1>1. /\ TypeInv /\ FlightInv /\ InboxInv /\ BehindInv /\ PoolInv /\ CacheInv
    BY DEF SeqContext, SeqInv
  <1>2. /\ UNCHANGED <<now, schedule, chain, pc, thread, pool, nonce, included, inbox>>
        /\ [Next]_vars /\ pc # "down" /\ handled < Len(inbox) /\ handled' = handled + 1
    BY DEF HandleBatch, Next, l2, loop, l1
  <1>3. /\ LastBlock' = LastBlock /\ LastBlock \in Nat /\ lastConfirmed \in Nat
        /\ Len(inbox) \in Nat /\ lastConfirmed <= LastBlock /\ LastBlock <= Len(chain)
    BY <1>1, <1>2, LastBlockType DEF LastBlock, CacheInv
  <1>4. handled + 1 = Len(inbox) /\ handled' = Len(inbox')
    BY <1>1, <1>2 DEF BehindInv
  <1>5. inbox[handled + 1].last = LastBlock
    <2>1. inbox # <<>>
      BY <1>1, <1>2, LastBlockType
    <2> QED
      BY <1>1, <1>4, <2>1, LastBlockType
  <1>6. /\ cache' \subseteq cache /\ lastConfirmed' \in {lastConfirmed, LastBlock}
        /\ \A n \in cache' : n > LastBlock
        /\ \A n \in cache : n > LastBlock => n \in cache'
        /\ \A n \in cache' : n > lastConfirmed'
    <2>1. CASE LastBlock <= lastConfirmed
      <3>1. UNCHANGED <<cache, lastConfirmed>>
        BY <1>5, <2>1 DEF HandleBatch
      <3>2. lastConfirmed = LastBlock
        BY <1>3, <2>1
      <3> QED
        BY <1>1, <3>1, <3>2 DEF CacheInv
    <2>2. CASE ~(LastBlock <= lastConfirmed)
      <3>1. lastConfirmed' = LastBlock
        BY <1>5, <2>2 DEF HandleBatch
      <3>2. cache' = {n \in cache : n > LastBlock}
        BY <1>5, <2>2 DEF HandleBatch
      <3> QED
        BY <3>1, <3>2
    <2> QED
      BY <2>1, <2>2
  <1>7. Cached'
    <2>1. \A n \in cache : n > LastBlock' /\ chain[n].operator = Me =>
                              n \in cache' \/ Expired(n, SendSlot)
      BY <1>3, <1>6
    <2>2. LastBlock <= LastBlock'
      BY <1>3
    <2> QED
      BY <1>1, <1>2, <2>1, <2>2, StaysCached DEF CacheInv
  <1>8. OnlyOpen'
    BY <1>3, <1>6 DEF OnlyOpen
  <1>9. lastConfirmed' <= LastBlock' /\ LastBlock' <= Len(chain')
    BY <1>2, <1>3, <1>6
  <1>10. CacheInv'
    BY <1>6, <1>7, <1>8, <1>9 DEF CacheInv
  <1>11. BehindInv' /\ PoolInv'
    <2>1. ~(handled' < Len(inbox'))
      BY <1>2, <1>3, <1>4
    <2> QED
      BY <1>1, <1>2, <2>1 DEF BehindInv, PoolInv
  <1>12. InFlight' = InFlight
    BY <1>2 DEF InFlight
  <1> QED
    BY <1>1, <1>2, <1>10, <1>11, <1>12, SameFlight, SameInbox DEF SeqInv

\* The process ends when nothing is pending: what its thread was about to
\* propose is forgotten.
LEMMA CrashSeq ==
    ASSUME SeqContext, TypeInv', Crash, env.crash # "any"
    PROVE  SeqInv'
  <1>1. /\ TypeInv /\ FlightInv /\ InboxInv /\ BehindInv /\ PoolInv /\ CacheInv
    BY DEF SeqContext, SeqInv
  <1>2. /\ UNCHANGED <<now, schedule, chain, pool, nonce, included, inbox>> /\ [Next]_vars
        /\ pool = {} /\ pc' = "down" /\ cache' = {} /\ lastConfirmed' = 0 /\ thread' = Ended
    BY DEF Crash, Next, l1
  <1>3. LastBlock' = LastBlock /\ LastBlock \in Nat
    BY <1>1, <1>2, LastBlockType DEF LastBlock
  <1>4. 0 <= LastBlock' /\ LastBlock' <= Len(chain')
    BY <1>1, <1>2, <1>3 DEF CacheInv
  <1>5. CacheInv'
    BY <1>2, <1>4 DEF CacheInv, Cached, OnlyOpen
  <1>6. BehindInv' /\ PoolInv'
    BY <1>2 DEF BehindInv, PoolInv
  <1>7. InFlight' \subseteq InFlight
    BY <1>2 DEF InFlight, Ended
  <1> QED
    BY <1>1, <1>2, <1>5, <1>6, <1>7, SameFlight, SameInbox DEF SeqInv

\* A process that starts finds its blocks again: their anchors are not older
\* than the one of the last confirmed block.
LEMMA StartSeq ==
    ASSUME SeqContext, TypeInv', Start
    PROVE  SeqInv'
  <1>1. /\ TypeInv /\ FlightInv /\ InboxInv /\ BehindInv /\ PoolInv /\ CacheInv /\ AnchorInv
    BY DEF SeqContext, SeqInv
  <1>2. /\ UNCHANGED <<now, schedule, chain, thread, pool, nonce, included, inbox>> /\ [Next]_vars
        /\ cache' = Recovered /\ lastConfirmed' = LastBlock /\ handled' = Len(inbox)
    BY DEF Start, Next, l1, LastBlock
  <1>3. /\ LastBlock' = LastBlock /\ LastBlock \in Nat /\ LastBlock <= Len(chain)
        /\ Len(inbox) \in Nat
    BY <1>1, <1>2, LastBlockType DEF LastBlock, CacheInv
  <1>4. \A n \in Recovered : n > LastBlock
    BY DEF Recovered, LastBlock
  <1>5. ASSUME NEW n \in DOMAIN chain, n > LastBlock, chain[n].operator = Me
        PROVE  n \in Recovered
    <2>1. LastBlock > 0 => chain[n].anchor >= chain[LastBlock].anchor
      <3>1. SUFFICES ASSUME LastBlock > 0 PROVE chain[n].anchor >= chain[LastBlock].anchor
        OBVIOUS
      <3>2. /\ Len(chain) \in Nat /\ DOMAIN chain = 1..Len(chain)
            /\ \A k \in DOMAIN chain : k \in Nat /\ chain[k].anchor \in Nat
        BY <1>1, BlockFields
      <3>3. LastBlock \in DOMAIN chain /\ LastBlock <= n
        BY <1>3, <1>5, <3>1, <3>2
      <3>4. chain[LastBlock].anchor <= chain[n].anchor
        BY <1>1, <1>5, <3>3 DEF AnchorInv
      <3> QED
        BY <3>2, <3>3, <3>4
    <2> QED
      BY <1>5, <2>1 DEF Recovered, LastBlock
  <1>6. Cached'
    BY <1>2, <1>3, <1>5 DEF Cached
  <1>7. OnlyOpen'
    BY <1>2, <1>3, <1>4 DEF OnlyOpen
  <1>8. CacheInv'
    BY <1>2, <1>3, <1>4, <1>6, <1>7 DEF CacheInv
  <1>9. BehindInv' /\ PoolInv'
    BY <1>1, <1>2, <1>3 DEF BehindInv, PoolInv
  <1>10. InFlight' = InFlight
    BY <1>2 DEF InFlight
  <1> QED
    BY <1>1, <1>2, <1>8, <1>9, <1>10, SameFlight, SameInbox DEF SeqInv

\* A slot ends with every batch handled and its L1 block there.
LEMMA TickSeq ==
    ASSUME SeqContext, TypeInv', Tick, ~env.slowTracker
    PROVE  SeqInv'
  <1>1. /\ TypeInv /\ FlightInv /\ InboxInv /\ BehindInv /\ PoolInv /\ CacheInv
    BY DEF SeqContext, SeqInv
  <1>2. /\ UNCHANGED <<schedule, chain, cache, lastConfirmed, handled, pc, thread, pool, nonce,
                       inbox>>
        /\ now' = now + 1 /\ included /\ included' = FALSE /\ [Next]_vars
        /\ pc # "down" => handled = Len(inbox)
    BY DEF Tick, SlotIsOver, Next, tracker
  <1>3. LastBlock' = LastBlock /\ LastBlock \in Nat /\ LastBlock <= LastBlock'
    BY <1>1, <1>2, LastBlockType DEF LastBlock
  <1>4. Cached'
    BY <1>1, <1>2, <1>3, StaysCached DEF CacheInv
  <1>5. CacheInv'
    BY <1>1, <1>2, <1>3, <1>4 DEF CacheInv, OnlyOpen
  <1>6. BehindInv'
    BY <1>1, <1>2, LastBlockType DEF BehindInv
  <1>7. PoolInv'
    <2>1. SUFFICES ASSUME pool # {} PROVE (now + 1) + 1 <= thread.until
      BY <1>1, <1>2 DEF PoolInv
    <2>2. now + 2 <= thread.until /\ now \in Nat
      BY <1>1, <1>2, <2>1, HereNow DEF PoolInv
    <2> QED
      BY <2>2
  <1>8. InFlight' = InFlight
    BY <1>2 DEF InFlight
  <1> QED
    BY <1>1, <1>2, <1>5, <1>6, <1>7, <1>8, SameFlight, SameInbox DEF SeqInv
\* The last block of the batches before one.
LEMMA PrefixLast ==
    ASSUME NEW batches \in Seq(BatchType), NEW i \in 1..(Len(batches) + 1)
    PROVE  LastId(SubSeq(batches, 1, i - 1)) = IF i = 1 THEN 0 ELSE batches[i - 1].last
  <1> DEFINE s == SubSeq(batches, 1, i - 1)
  <1>1. Len(batches) \in Nat /\ i \in Nat /\ 1 <= i /\ i <= Len(batches) + 1
    OBVIOUS
  <1>2. CASE i = 1
    <2>1. s = <<>>
      BY <1>2, SubSeqEmpty
    <2> QED
      BY <1>2, <2>1 DEF LastId
  <1>3. CASE i # 1
    <2>1. i - 1 \in Nat /\ 1 <= i - 1 /\ i - 1 <= Len(batches)
      BY <1>1, <1>3
    <2>2. \A k \in 1..(i - 1) : batches[k] \in BatchType
      BY <2>1
    <2>3. /\ s \in Seq(BatchType) /\ Len(s) = i - 1
          /\ \A k \in 1..(i - 1) : s[k] = batches[k]
      <3> HIDE DEF s
      <3>1. /\ s \in Seq(BatchType)
            /\ Len(s) = IF 1 <= i - 1 THEN i - 1 - 1 + 1 ELSE 0
            /\ \A k \in 1..(i - 1 - 1 + 1) : s[k] = batches[1 + k - 1]
        BY <2>1, <2>2, SubSeqProperties DEF s
      <3>2. \A k \in 1..(i - 1) : 1 + k - 1 = k
        OBVIOUS
      <3>3. i - 1 - 1 + 1 = i - 1
        BY <2>1
      <3> QED
        BY <2>1, <3>1, <3>2, <3>3
    <2> HIDE DEF s
    <2>4. s # <<>>
      BY <2>1, <2>3
    <2>5. LastId(s) = s[i - 1].last
      BY <2>3, <2>4 DEF LastId
    <2>6. s[i - 1] = batches[i - 1]
      BY <2>1, <2>3
    <2> QED
      BY <1>3, <2>5, <2>6 DEF s
  <1> QED
    BY <1>2, <1>3

\* If numbers after a bound are not the next ones, one is left out before them.
LEMMA LeavesOut ==
    ASSUME NEW low \in Nat, NEW B \in SUBSET Nat, IsFiniteSet(B),
           \A n \in B : n > low,
           B # (low + 1)..(low + Cardinality(B))
    PROVE  \E n \in (low + 1)..(low + Cardinality(B)) : n \notin B /\ \E m \in B : n < m
  <1> DEFINE c == Cardinality(B)
             I == (low + 1)..(low + c)
  <1>1. c \in Nat
    BY FS_CardinalityType
  <1>2. IsFiniteSet(I) /\ Cardinality(I) = c
    <2> HIDE DEF c
    <2>1. low + 1 \in Int /\ low + c \in Int
      BY <1>1
    <2>2. /\ IsFiniteSet(I)
          /\ Cardinality(I) = IF low + 1 > low + c THEN 0 ELSE (low + c) - (low + 1) + 1
      BY <2>1, FS_Interval
    <2> QED
      BY <1>1, <2>2
  <1>3. PICK m \in B : m \notin I
    <2>1. SUFFICES ASSUME B \subseteq I PROVE FALSE
      OBVIOUS
    <2>2. I = B
      BY <1>2, <2>1, FS_Subset
    <2> QED
      BY <2>2
  <1>4. PICK n \in I : n \notin B
    <2>1. SUFFICES ASSUME I \subseteq B PROVE FALSE
      OBVIOUS
    <2>2. B = I
      BY <1>2, <2>1, FS_Subset
    <2> QED
      BY <2>2
  <1>5. n < m
    <2> HIDE DEF c
    <2>1. m \in Nat /\ m > low
      BY <1>3
    <2>2. m > low + c
      BY <1>1, <1>3, <2>1
    <2>3. n \in Nat /\ n <= low + c
      BY <1>1, <1>4
    <2> QED
      BY <1>1, <2>1, <2>2, <2>3
  <1> QED
    BY <1>3, <1>4, <1>5

\* Numbers after a bound and up to another are not more than fit between them.
LEMMA FitBetween ==
    ASSUME NEW low \in Nat, NEW high \in Nat, low <= high, NEW B \in SUBSET (1..high),
           \A n \in B : n > low
    PROVE  Cardinality(B) \in Nat /\ low + Cardinality(B) <= high
  <1>1. B \subseteq (low + 1)..high
    OBVIOUS
  <1>2. low + 1 \in Int /\ high \in Int
    OBVIOUS
  <1>3. /\ IsFiniteSet((low + 1)..high)
        /\ Cardinality((low + 1)..high) = IF low + 1 > high THEN 0 ELSE high - (low + 1) + 1
    BY <1>2, FS_Interval
  <1>4. Cardinality((low + 1)..high) = high - low
    BY <1>3
  <1>5. IsFiniteSet(B) /\ Cardinality(B) <= high - low
    BY <1>1, <1>3, <1>4, FS_Subset
  <1>6. Cardinality(B) \in Nat
    BY <1>5, FS_CardinalityType
  <1> QED
    BY <1>5, <1>6
\* What is known of a batch of the inbox.
LEMMA BatchFields ==
    ASSUME TypeInv
    PROVE  inbox \in Seq(BatchType) /\ \A i \in DOMAIN inbox : inbox[i].last \in Nat
  <1>1. inbox \in Seq(BatchType)
    BY DEF TypeInv, L1OK
  <1>2. \A i \in DOMAIN inbox : inbox[i] \in BatchType
    BY <1>1
  <1> QED
    BY <1>1, <1>2 DEF BatchType

\* A batch of blocks after the ones that L1 has makes the inbox longer, and tells
\* nothing of those before.
LEMMA InboxWithBatch ==
    ASSUME TypeInv, TypeInv', InboxInv, NEW B, B \subseteq DOMAIN chain,
           \A n \in B : n > LastBlock, LastBlock <= Len(chain), inbox' = WithBatch(B)
    PROVE  /\ Len(inbox') = Len(inbox) + 1
           /\ LastBlock' = LastBlock + Cardinality(B) /\ Cardinality(B) \in Nat
           /\ LastBlock <= LastBlock' /\ LastBlock' <= Len(chain)
           /\ \A i \in DOMAIN inbox' : inbox'[i].last <= LastBlock'
           /\ \A n : n <= LastBlock /\ ~Proposed(n) => ~Proposed(n)'
  <1>1. /\ inbox' \in Seq(BatchType) /\ Len(inbox') = Len(inbox) + 1
        /\ \A i \in DOMAIN inbox : inbox'[i] = inbox[i]
        /\ inbox'[Len(inbox) + 1].blocks = B
        /\ inbox'[Len(inbox) + 1].last = LastBlock + Cardinality(B)
        /\ LastBlock' = LastBlock + Cardinality(B) /\ LastBlock \in Nat
    BY BatchAppended DEF LastBlock
  <1>2. /\ Len(inbox) \in Nat /\ DOMAIN inbox = 1..Len(inbox)
        /\ DOMAIN inbox' = 1..(Len(inbox) + 1)
    BY <1>1, LastBlockType
  <1>3. \A i \in DOMAIN inbox' : i \in DOMAIN inbox \/ i = Len(inbox) + 1
    BY <1>2
  <1>4. Cardinality(B) \in Nat /\ LastBlock + Cardinality(B) <= Len(chain)
    BY <1>1, BlockFields, FitBetween
  <1>5. \A i \in DOMAIN inbox : inbox[i].last \in Nat /\ inbox[i].last <= LastBlock
    BY BatchFields DEF InboxInv
  <1>6. ASSUME NEW i \in DOMAIN inbox' PROVE inbox'[i].last <= LastBlock'
    <2>1. CASE i \in DOMAIN inbox
      <3>1. inbox'[i].last \in Nat /\ inbox'[i].last <= LastBlock
        BY <1>1, <1>5, <2>1
      <3> QED
        BY <1>1, <1>4, <3>1
    <2>2. CASE i = Len(inbox) + 1
      <3>1. inbox'[i].last = LastBlock'
        BY <1>1, <2>2
      <3>2. LastBlock' \in Nat
        BY <1>1, <1>4
      <3> QED
        BY <3>1, <3>2
    <2> QED
      BY <1>3, <2>1, <2>2
  <1>7. ASSUME NEW n, n <= LastBlock, ~Proposed(n) PROVE ~Proposed(n)'
    <2>1. n \notin B
      <3>1. SUFFICES ASSUME n \in B PROVE FALSE
        OBVIOUS
      <3>2. n \in Nat /\ n > LastBlock
        BY <3>1, BlockFields
      <3> QED
        BY <1>1, <1>7, <3>2
    <2>2. \A i \in DOMAIN inbox' : n \notin inbox'[i].blocks
      BY <1>1, <1>3, <1>7, <2>1 DEF Proposed
    <2> QED
      BY <2>2 DEF Proposed
  <1> QED
    BY <1>1, <1>4, <1>6, <1>7

\* The batch keeps the sequence if its blocks are the next ones.
LEMMA StaysInSequence ==
    ASSUME TypeInv, InSequence, NEW B, B \subseteq DOMAIN chain,
           B = (LastBlock + 1)..(LastBlock + Cardinality(B)), inbox' = WithBatch(B)
    PROVE  InSequence'
  <1> DEFINE k == Len(inbox)
  <1>1. /\ inbox' \in Seq(BatchType) /\ Len(inbox') = k + 1
        /\ \A i \in DOMAIN inbox : inbox'[i] = inbox[i]
        /\ inbox'[k + 1].blocks = B
        /\ inbox'[k + 1].last = LastBlock + Cardinality(B)
    BY BatchAppended DEF LastBlock
  <1>2. k \in Nat /\ DOMAIN inbox = 1..k /\ DOMAIN inbox' = 1..(k + 1) /\ inbox \in Seq(BatchType)
    BY <1>1 DEF TypeInv, L1OK
  <1> HIDE DEF k
  <1>3. SUFFICES ASSUME NEW i \in DOMAIN inbox'
                 PROVE  inbox'[i].blocks = (LastId(SubSeq(inbox', 1, i - 1)) + 1)..inbox'[i].last
    BY DEF InSequence
  <1>4. LastId(SubSeq(inbox', 1, i - 1)) = IF i = 1 THEN 0 ELSE inbox'[i - 1].last
    <2>1. i \in 1..(Len(inbox') + 1)
      BY <1>1, <1>2
    <2> QED
      BY <1>1, <2>1, PrefixLast
  <1>5. LastId(SubSeq(inbox, 1, i - 1)) = IF i = 1 THEN 0 ELSE inbox[i - 1].last
    <2>1. i \in 1..(Len(inbox) + 1)
      BY <1>2 DEF k
    <2> QED
      BY <1>2, <2>1, PrefixLast
  <1>6. LastId(SubSeq(inbox', 1, i - 1)) = LastId(SubSeq(inbox, 1, i - 1))
    <2>1. i # 1 => i - 1 \in DOMAIN inbox
      BY <1>2
    <2> QED
      BY <1>1, <1>4, <1>5, <2>1
  <1>7. CASE i \in DOMAIN inbox
    <2>1. inbox[i].blocks = (LastId(SubSeq(inbox, 1, i - 1)) + 1)..inbox[i].last
      BY <1>7 DEF InSequence
    <2> QED
      BY <1>1, <1>6, <1>7, <2>1
  <1>8. CASE i \notin DOMAIN inbox
    <2>1. i = k + 1
      BY <1>2, <1>8
    <2>2. LastId(SubSeq(inbox, 1, i - 1)) = LastBlock
      <3>1. CASE k = 0
        <4>1. inbox = <<>>
          BY <1>2, <3>1 DEF k
        <4> QED
          BY <1>5, <2>1, <3>1, <4>1 DEF LastBlock, LastId
      <3>2. CASE k # 0
        <4>1. inbox # <<>>
          BY <3>2 DEF k
        <4>2. i # 1 /\ i - 1 = Len(inbox)
          BY <1>2, <2>1, <3>2 DEF k
        <4> QED
          BY <1>5, <4>1, <4>2, LastBlockType
      <3> QED
        BY <3>1, <3>2
    <2> QED
      BY <1>1, <1>6, <2>1, <2>2
  <1> QED
    BY <1>7, <1>8

\* No later block is in a batch.
LEMMA LaterNotProposed ==
    ASSUME TypeInv, InboxInv, InSequence, NEW n \in Nat, n > LastBlock
    PROVE  ~Proposed(n)
  <1>1. SUFFICES ASSUME NEW i \in DOMAIN inbox, n \in inbox[i].blocks PROVE FALSE
    BY DEF Proposed
  <1>2. inbox \in Seq(BatchType) /\ inbox[i].last \in Nat /\ LastBlock \in Nat
    BY LastBlockType, BatchFields
  <1>3. inbox[i].last <= LastBlock
    BY DEF InboxInv
  <1> DEFINE p == LastId(SubSeq(inbox, 1, i - 1))
  <1>4. n \in (p + 1)..inbox[i].last
    BY <1>1 DEF InSequence
  <1> HIDE DEF p
  <1>5. n <= inbox[i].last
    BY <1>4
  <1> QED
    BY <1>2, <1>3, <1>5

\* A batch of the next blocks keeps what is known of the inbox.
LEMMA NextBatchKeeps ==
    ASSUME TypeInv, TypeInv', [Next]_vars, InboxInv, LastBlock <= Len(chain), ~included,
           now' = now, NEW B, inbox' = WithBatch(B),
           B \subseteq DOMAIN chain, \A n \in B : n > LastBlock,
           \A n \in DOMAIN chain \ B, m \in B : LastBlock < n /\ n < m => Left(n)
    PROVE  InboxInv'
  <1>1. /\ B \subseteq DOMAIN chain /\ \A n \in B : n > LastBlock
        /\ DOMAIN chain = 1..Len(chain) /\ Len(chain) \in Nat /\ LastBlock \in Nat
    BY BlockFields, LastBlockType
  <1>2. /\ LastBlock' = LastBlock + Cardinality(B) /\ Cardinality(B) \in Nat
        /\ LastBlock <= LastBlock' /\ LastBlock' <= Len(chain)
        /\ \A i \in DOMAIN inbox' : inbox'[i].last <= LastBlock'
        /\ \A n : n <= LastBlock /\ ~Proposed(n) => ~Proposed(n)'
    BY <1>1, InboxWithBatch
  <1>3. CASE ~InSequence
    <2>1. PICK n \in DOMAIN chain : n <= LastBlock /\ TooLate(n) /\ ~Proposed(n)
      BY <1>3 DEF InboxInv
    <2>2. n \in DOMAIN chain' /\ TooLate(n)'
      BY <2>1, NoStepBack, StaysLate
    <2>3. n <= LastBlock'
      <3>1. n \in Nat /\ LastBlock' \in Nat
        BY <1>1, PrimedTypes
      <3> QED
        BY <1>1, <1>2, <2>1, <3>1
    <2>4. ~Proposed(n)'
      BY <1>2, <2>1
    <2> QED
      BY <1>2, <2>2, <2>3, <2>4 DEF InboxInv
  <1>4. CASE InSequence /\ B = (LastBlock + 1)..(LastBlock + Cardinality(B))
    <2>1. InSequence'
      BY <1>1, <1>4, StaysInSequence
    <2> QED
      BY <1>2, <2>1 DEF InboxInv
  <1>5. CASE InSequence /\ B # (LastBlock + 1)..(LastBlock + Cardinality(B))
    <2>1. B \in SUBSET Nat /\ IsFiniteSet(B)
      BY <1>1, BatchAppended
    <2>2. PICK n \in (LastBlock + 1)..(LastBlock + Cardinality(B)) :
             n \notin B /\ \E m \in B : n < m
      BY <1>1, <1>5, <2>1, LeavesOut
    <2>3. PICK m \in B : n < m
      BY <2>2
    <2>4. n \in Nat /\ LastBlock < n /\ n <= LastBlock'
      BY <1>1, <1>2, <2>2
    <2>5. n \in DOMAIN chain
      BY <1>1, <1>2, <2>4
    <2>6. Left(n)
      BY <2>2, <2>3, <2>4, <2>5
    <2>7. TooLate(n)
      <3>1. SendSlot = now
        BY LastBlockType
      <3> QED
        BY <2>6, <3>1 DEF Left, TooLate
    <2>8. ~Proposed(n)'
      <3>1. \A i \in DOMAIN inbox' : i \in DOMAIN inbox \/ i = Len(inbox) + 1
        <4>1. /\ inbox' \in Seq(BatchType) /\ Len(inbox') = Len(inbox) + 1
          BY <1>1, BatchAppended
        <4> QED
          BY <4>1, LastBlockType
      <3>2. \A i \in DOMAIN inbox : n \notin inbox'[i].blocks
        <4>1. ~Proposed(n)
          BY <1>5, <2>4, LaterNotProposed
        <4>2. \A i \in DOMAIN inbox : inbox'[i] = inbox[i]
          BY <1>1, BatchAppended
        <4> QED
          BY <4>1, <4>2 DEF Proposed
      <3>3. inbox'[Len(inbox) + 1].blocks = B
        BY <1>1, BatchAppended
      <3> QED
        BY <2>2, <3>1, <3>2, <3>3 DEF Proposed
    <2>9. n \in DOMAIN chain' /\ TooLate(n)'
      BY <2>5, <2>7, NoStepBack, StaysLate
    <2> QED
      BY <1>2, <2>4, <2>8, <2>9 DEF InboxInv
  <1> QED
    BY <1>3, <1>4, <1>5
\* The batch of another operator holds the next blocks, and none of this
\* preconfer's.
LEMMA OthersAreNext ==
    ASSUME TypeInv, NEW last \in OthersBatches, ~InTurn
    PROVE  /\ (LastBlock + 1)..last \subseteq DOMAIN chain
           /\ \A n \in (LastBlock + 1)..last : n > LastBlock
           /\ \A n \in DOMAIN chain : n > LastBlock /\ chain[n].operator = Me => n > last
           /\ LastBlock + Cardinality((LastBlock + 1)..last) = last
  <1>1. /\ last \in Nat /\ LastBlock < last /\ last <= Len(chain)
        /\ (LastBlock + 1)..last \subseteq DOMAIN chain
        /\ \A n \in (LastBlock + 1)..last : chain[n].operator = schedule[Here.epoch]
    BY OthersBlocks DEF LastBlock
  <1>2. LastBlock \in Nat
    BY LastBlockType
  <1>3. \A n \in (LastBlock + 1)..last : n > LastBlock
    BY <1>1, <1>2
  <1>4. ASSUME NEW n \in DOMAIN chain, n > LastBlock, chain[n].operator = Me
        PROVE  n > last
    <2>1. n \notin (LastBlock + 1)..last
      BY <1>1, <1>4 DEF InTurn
    <2>2. n \in Nat
      BY BlockFields
    <2> QED
      BY <1>1, <1>2, <1>4, <2>1, <2>2
  <1>5. Cardinality((LastBlock + 1)..last) = last - LastBlock
    <2>1. LastBlock + 1 \in Int /\ last \in Int
      BY <1>1, <1>2
    <2>2. Cardinality((LastBlock + 1)..last) =
             IF LastBlock + 1 > last THEN 0 ELSE last - (LastBlock + 1) + 1
      BY <2>1, FS_Interval
    <2> QED
      BY <1>1, <1>2, <2>2
  <1>6. LastBlock + Cardinality((LastBlock + 1)..last) = last
    BY <1>1, <1>2, <1>5
  <1> QED
    BY <1>1, <1>3, <1>4, <1>6

\* An L1 block includes the pending proposal, which holds the next blocks, or
\* batches of others, which leave those of this preconfer alone.
LEMMA L1BlockSeq ==
    ASSUME SeqContext, TypeInv', L1Block, ~env.congested
    PROVE  SeqInv'
  <1>1. /\ TypeInv /\ FlightInv /\ InboxInv /\ BehindInv /\ PoolInv /\ CacheInv
    BY DEF SeqContext, SeqInv
  <1>2. /\ UNCHANGED <<now, schedule, chain, cache, lastConfirmed, handled, pc>> /\ [Next]_vars
        /\ ~included /\ included' = TRUE
    BY DEF L1Block, Next, l2, tracker, loop
  <1>3. /\ LastBlock \in Nat /\ LastBlock <= Len(chain) /\ Len(inbox) \in Nat
        /\ lastConfirmed \in Nat /\ lastConfirmed <= LastBlock
        /\ handled \in Nat /\ handled <= Len(inbox)
        /\ Len(chain) \in Nat /\ DOMAIN chain = 1..Len(chain)
    BY <1>1, LastBlockType, BlockFields DEF CacheInv
  <1>4. pool' = {}
    BY DEF L1Block, Include, LeaveOut
  <1>5. pc # "down" => handled = Len(inbox)
    BY <1>1, <1>2, <1>3 DEF BehindInv
  <1>6. \/ inbox' = inbox
        \/ InTurn /\ \E tx \in pool : inbox' = WithBatch(tx.blocks)
        \/ ~InTurn /\ \E last \in OthersBatches : inbox' = WithBatch((LastBlock + 1)..last)
    BY <1>1, InboxGrows DEF LastBlock
  <1>7. ASSUME NEW B, B \subseteq DOMAIN chain, \A n \in B : n > LastBlock,
               \A n \in DOMAIN chain \ B, m \in B : LastBlock < n /\ n < m => Left(n),
               inbox' = WithBatch(B)
        PROVE  /\ LastBlock' = LastBlock + Cardinality(B)
               /\ LastBlock <= LastBlock' /\ LastBlock' <= Len(chain)
               /\ Len(inbox') = Len(inbox) + 1 /\ InboxInv'
    <2>1. InboxInv'
      BY <1>1, <1>2, <1>3, <1>7, NextBatchKeeps
    <2> QED
      BY <1>1, <1>3, <1>7, <2>1, InboxWithBatch
  <1>8. ASSUME NEW tx \in pool
        PROVE  IsNext(tx.blocks)
    <2>1. tx.blocks \in InFlight
      BY DEF InFlight
    <2> QED
      BY <1>1, <2>1 DEF FlightInv
  <1>9. /\ LastBlock <= LastBlock' /\ LastBlock' <= Len(chain) /\ InboxInv'
        /\ Len(inbox') = Len(inbox) \/ Len(inbox') = Len(inbox) + 1
        /\ Len(inbox') = Len(inbox) => LastBlock' = LastBlock
        /\ ~InTurn => \A n \in DOMAIN chain :
                         n > LastBlock /\ chain[n].operator = Me => n > LastBlock'
    <2>1. CASE inbox' = inbox
      <3>1. LastBlock' = LastBlock
        BY <2>1 DEF LastBlock
      <3> QED
        BY <1>1, <1>2, <1>3, <2>1, <3>1, SameInbox
    <2>2. ASSUME InTurn, NEW tx \in pool, inbox' = WithBatch(tx.blocks)
          PROVE  /\ LastBlock <= LastBlock' /\ LastBlock' <= Len(chain) /\ InboxInv'
                 /\ Len(inbox') = Len(inbox) + 1
      <3>1. IsNext(tx.blocks)
        BY <1>8
      <3> QED
        BY <1>7, <2>2, <3>1 DEF IsNext
    <2>3. ASSUME ~InTurn, NEW last \in OthersBatches,
                 inbox' = WithBatch((LastBlock + 1)..last)
          PROVE  /\ LastBlock <= LastBlock' /\ LastBlock' <= Len(chain) /\ InboxInv'
                 /\ Len(inbox') = Len(inbox) + 1
                 /\ \A n \in DOMAIN chain :
                       n > LastBlock /\ chain[n].operator = Me => n > LastBlock'
      <3> DEFINE B == (LastBlock + 1)..last
      <3>1. /\ B \subseteq DOMAIN chain /\ \A n \in B : n > LastBlock
            /\ \A n \in DOMAIN chain : n > LastBlock /\ chain[n].operator = Me => n > last
            /\ LastBlock + Cardinality(B) = last
        BY <1>1, <2>3, OthersAreNext
      <3>2. ASSUME NEW n \in DOMAIN chain \ B, NEW m \in B, LastBlock < n, n < m
            PROVE  Left(n)
        <4>1. n \in Nat /\ last \in Nat
          BY <1>1, <1>3, <2>3, OthersBlocks
        <4>2. n \in B
          BY <1>3, <3>2, <4>1
        <4> QED
          BY <3>2, <4>2
      <3> HIDE DEF B
      <3>3. inbox' = WithBatch(B)
        BY <2>3 DEF B
      <3> QED
        BY <1>7, <3>1, <3>2, <3>3
    <2> QED
      BY <1>3, <1>6, <2>1, <2>2, <2>3
  <1>10. Cached'
    BY <1>1, <1>2, <1>9, StaysCached DEF CacheInv
  <1>11. OnlyOpen'
    <2>1. SUFFICES ASSUME pc # "down", handled = Len(inbox')
                   PROVE  \A n \in cache : n > LastBlock'
      BY <1>2 DEF OnlyOpen
    <2>2. Len(inbox') = Len(inbox)
      BY <1>3, <1>5, <1>9, <2>1
    <2>3. LastBlock' = LastBlock /\ handled = Len(inbox)
      BY <1>9, <2>1, <2>2
    <2> QED
      BY <1>1, <2>1, <2>3 DEF CacheInv, OnlyOpen
  <1>12. CacheInv'
    <2>1. LastBlock' \in Nat
      BY PrimedTypes
    <2>2. lastConfirmed' <= LastBlock'
      BY <1>2, <1>3, <1>9, <2>1
    <2> QED
      BY <1>1, <1>2, <1>9, <1>10, <1>11, <2>2 DEF CacheInv
  <1>13. PoolInv'
    BY <1>4 DEF PoolInv
  <1>14. BehindInv'
    <2>1. SUFFICES ASSUME pc # "down", handled < Len(inbox')
                   PROVE  /\ handled + 1 = Len(inbox')
                          /\ InTurn => /\ thread'.at = "waiting" /\ thread'.since = now
                                       /\ now < thread'.until
      BY <1>2 DEF BehindInv, InTurn, Here, At
    <2>2. handled + 1 = Len(inbox') /\ inbox' # inbox
      BY <1>3, <1>5, <1>9, <2>1
    <2>3. ASSUME InTurn
          PROVE  thread'.at = "waiting" /\ thread'.since = now /\ now < thread'.until
      <3>1. pool # {}
        BY <1>6, <2>2, <2>3
      <3>2. /\ thread.at = "waiting" /\ thread.nonce = nonce /\ now + 1 <= thread.until
        BY <1>1, <1>2, <3>1 DEF PoolInv
      <3>3. thread' = [thread EXCEPT !.since = now]
        BY <2>2, <2>3, <3>2 DEF L1Block, Include, LeaveOut
      <3>4. /\ thread \in [at : {"waiting"}, nonce : Nat, since : Int, until : Int]
            /\ now \in Nat
        BY <1>1, <3>2, ThreadFields, HereNow
      <3>5. thread'.at = "waiting" /\ thread'.since = now /\ thread'.until = thread.until
        BY <3>3, <3>4
      <3>6. thread.until \in Int
        BY <3>4
      <3> QED
        BY <3>2, <3>4, <3>5, <3>6
    <2> QED
      BY <2>2, <2>3
  <1>15. FlightInv'
    <2>1. SUFFICES ASSUME NEW blocks \in InFlight' PROVE IsNext(blocks)'
      BY DEF FlightInv
    <2>2. thread'.at \in {"started", "pricing"} /\ blocks = thread'.blocks
      BY <1>4, <2>1 DEF InFlight
    <2>3. thread' = thread \/ (thread.at = "waiting" /\ thread' = [thread EXCEPT !.since = now])
      BY DEF L1Block, Include, LeaveOut
    <2>4. thread' = thread
      <3>1. SUFFICES ASSUME thread.at = "waiting", thread' = [thread EXCEPT !.since = now]
                     PROVE  FALSE
        BY <2>3
      <3>2. thread \in [at : {"waiting"}, nonce : Nat, since : Int, until : Int]
        BY <1>1, <3>1, ThreadFields
      <3>3. thread'.at = "waiting"
        BY <3>1, <3>2
      <3> QED
        BY <2>2, <3>3
    <2>5. pool = {}
      BY <1>1, <2>2, <2>4 DEF PoolInv
    <2>6. blocks \in InFlight
      BY <2>2, <2>4 DEF InFlight
    <2>7. IsNext(blocks)
      BY <1>1, <2>6 DEF FlightInv
    <2>8. \A n \in blocks : n > LastBlock'
      <3>1. CASE InTurn
        <4>1. inbox' = inbox
          BY <1>6, <2>5, <3>1
        <4>2. LastBlock' = LastBlock
          BY <4>1 DEF LastBlock
        <4> QED
          BY <2>7, <4>2 DEF IsNext
      <3>2. CASE ~InTurn
        BY <1>9, <2>7, <3>2 DEF IsNext
      <3> QED
        BY <3>1, <3>2
    <2> QED
      BY <1>1, <1>2, <1>9, <2>7, <2>8, StaysNext
  <1> QED
    BY <1>9, <1>12, <1>13, <1>14, <1>15 DEF SeqInv

\* Nothing is cached, proposed or in the inbox to begin with.
LEMMA SeqInit == Init => SeqInv
  <1> SUFFICES ASSUME Init PROVE SeqInv
    OBVIOUS
  <1>1. /\ chain = <<>> /\ inbox = <<>> /\ cache = {} /\ lastConfirmed = 0 /\ handled = 0
        /\ pool = {} /\ thread = Ended
    BY DEF Init
  <1>2. LastBlock = 0 /\ Len(chain) = 0 /\ Len(inbox) = 0 /\ DOMAIN chain = {} /\ DOMAIN inbox = {}
    BY <1>1 DEF LastBlock, LastId
  <1>3. CacheInv
    BY <1>1, <1>2 DEF CacheInv, Cached, OnlyOpen
  <1>4. BehindInv /\ PoolInv
    BY <1>1, <1>2 DEF BehindInv, PoolInv
  <1>5. InFlight = {}
    BY <1>1 DEF InFlight, Ended
  <1>6. InboxInv
    BY <1>2 DEF InboxInv, InSequence
  <1> QED
    BY <1>3, <1>4, <1>5, <1>6 DEF SeqInv, FlightInv

\* Every step keeps the batches in sequence, in an environment that L1 and the
\* tracking keep up in.
LEMMA SeqStep ==
    ASSUME SeqContext, TypeInv', [Next]_vars, Tracked', TimeToInclude
    PROVE  SeqInv'
  <1>1. /\ ~env.losesAnswers /\ ~env.slowTracker /\ ~env.congested
        /\ env.crash # "any" /\ ~alarmed'
    BY NoStepBack DEF Tracked, SeqContext
  <1>2. CASE Tick
    BY <1>1, <1>2, TickSeq
  <1>3. CASE Build
    BY <1>3, BuildSeq
  <1>4. CASE HandleBatch
    BY <1>1, <1>4, HandleSeq
  <1>5. CASE Crash
    BY <1>1, <1>5, CrashSeq
  <1>6. CASE Start
    BY <1>6, StartSeq
  <1>7. CASE Boot \/ QueryNext
    <2>1. /\ UNCHANGED <<now, schedule, chain, cache, lastConfirmed, handled, thread, pool, nonce,
                         included, inbox>>
          /\ pc # "down"
      BY <1>7 DEF Boot, QueryNext, l2, tracker, l1
    <2> QED
      BY <2>1, LoopSeq
  <1>8. CASE Over \/ UNCHANGED vars
    <2>1. UNCHANGED <<now, schedule, chain, cache, lastConfirmed, handled, thread, pool, nonce,
                      included, inbox, pc>>
      BY <1>8 DEF Over, vars, l2, tracker, loop, l1
    <2> QED
      BY <2>1, LoopSeq
  <1>9. CASE Iterate
    BY <1>9, IterateSeq
  <1>10. CASE ReadParent \/ ReadNonce \/ EstimateGas \/ CallFails
    <2>1. /\ UNCHANGED <<now, schedule, chain, cache, lastConfirmed, handled, pc, nonce, included,
                         inbox, pool>>
          /\ Next
      BY <1>10 DEF ReadParent, ReadNonce, EstimateGas, CallFails, Next, l2, tracker, loop, l1
    <2>2. thread.at \in {"started", "pricing"}
      BY <1>10 DEF ReadParent, ReadNonce, EstimateGas, CallFails
    <2>3. thread'.at \in {"started", "pricing"} => thread'.blocks = thread.blocks
      <3>1. CASE ReadParent
        BY <3>1 DEF ReadParent
      <3>2. CASE ReadNonce \/ EstimateGas \/ CallFails
        <4>1. thread \in [at : {"pricing"}, blocks : SUBSET Nat, parent : Int, nonce : Int,
                          estimated : BOOLEAN]
          BY <3>2, ThreadFields DEF ReadNonce, EstimateGas, CallFails, SeqContext
        <4> QED
          BY <3>2, <4>1 DEF ReadNonce, EstimateGas, CallFails, Ended
      <3> QED
        BY <1>10, <3>1, <3>2
    <2> QED
      BY <2>1, <2>2, <2>3, ProposingSeq
  <1>11. CASE Submit
    BY <1>11, SubmitSeq
  <1>12. CASE Receipt \/ TimesOut
    BY <1>12, WaitEndsSeq
  <1>13. CASE L1Block
    BY <1>1, <1>13, L1BlockSeq
  <1>14. ~SendFails /\ ~ReceiptFails
    BY <1>1 DEF SendFails, ReceiptFails
  <1> QED
    BY <1>2, <1>3, <1>4, <1>5, <1>6, <1>7, <1>8, <1>9, <1>10, <1>11, <1>12, <1>13, <1>14
       DEF Next

\* While nothing has gone wrong, all of it holds.
TrackedInv ==
    TypeInv /\ TurnInv /\ ChainInv /\ AnchorInv /\ (Tracked => SeqInv)

\* Every step keeps it.
LEMMA TrackedStep ==
    ASSUME TimeToInclude, TrackedInv, [Next]_vars
    PROVE  TrackedInv'
  <1>1. TypeInv' /\ TurnInv'
    BY TypeStep, TurnStep DEF TrackedInv
  <1>2. ChainInv' /\ AnchorInv'
    BY ChainStep DEF TrackedInv
  <1>3. ASSUME Tracked' PROVE SeqInv'
    <2>1. Tracked
      BY <1>1, <1>3, NoStepBack DEF TrackedInv, Tracked
    <2> QED
      BY <1>1, <1>3, <2>1, SeqStep DEF TrackedInv, SeqContext
  <1> QED
    BY <1>1, <1>2, <1>3 DEF TrackedInv

\* If L1 takes proposals at once, no error of a call hides from the thread that it
\* did, the timeout leaves time for it, batches are handled in their slot, the
\* process ends only while nothing is pending and no alarm was raised, then every
\* batch in the inbox holds the blocks that the inbox gives the next numbers to,
\* unless some block was left until it was too late for it (the choice of a batch,
\* confirmation_strategy.rs, lines 71-138, and its proposal, taiko_l1_client.rs,
\* lines 124-245).
THEOREM InSequenceCorrect == TimeToInclude => (Spec => []InSequenceIfTracked)
  <1> SUFFICES ASSUME TimeToInclude PROVE Spec => []InSequenceIfTracked
    OBVIOUS
  <1>1. Init => TrackedInv
    BY TypeInit, TurnInit, ChainInit, SeqInit DEF TrackedInv
  <1>2. TrackedInv /\ [Next]_vars => TrackedInv'
    BY TrackedStep
  <1>3. TrackedInv => InSequenceIfTracked
    BY DEF TrackedInv, SeqInv, InboxInv, InSequenceIfTracked
  <1> QED
    BY <1>1, <1>2, <1>3, PTL DEF Spec

-----------------------------------------------------------------------------
(* Nothing is left at the end of a turn.                                   *)

\* Layouts that leave time for all batches: an anchor is current for so long that
\* the batch of the blocks with the one before it is started by then, the handover
\* window begins with a new anchor and gets no other one, it is long enough for
\* the thread to end and include the last batch, and no block expires earlier.
RoomForBatches ==
    /\ AnchorIdLag >= 4 /\ SlotsPerEpoch % AnchorIdLag = 0
    /\ 3 <= HandoverSlots /\ HandoverSlots <= AnchorIdLag
    /\ ProposeTimeout >= 2
    /\ MaxOffset >= SlotsPerEpoch + HandoverSlots

\* The first slot of this epoch's handover window.
HandoverStart == now - Here.slot + SlotsPerEpoch - HandoverSlots

WindowOf(n) == WindowEpoch(At(chain[n].slot))

\* What is known of the whitelist: this epoch's operator always, the next one's
\* once it was asked for, and the epochs of this preconfer in time to act in them.
KnowsTurn ==
    LET e == Here.epoch
        end == SlotsPerEpoch - HandoverSlots - 1
    IN  pc # "boot" =>
          /\ e \in DOMAIN operators
          /\ Here.slot > end \/ (Here.slot = end /\ iterated /\ pc # "next") =>
                e + 1 \in DOMAIN operators
          /\ InTurn => \/ e \in activeEpoch
                       \/ e + 1 \in activeEpoch /\ e + 1 \in DOMAIN operators
          /\ Here.slot > end + 1 \/ (Here.slot = end + 1 /\ iterated) =>
                (schedule[e + 1] = Me => e + 1 \in activeEpoch)

\* The slot in which the thread's batch was chosen.
StartedIn == IF thread.at = "waiting" THEN thread.until - ProposeTimeout ELSE now

\* The slot by which an iteration finds the thread ended.
NextChance ==
    IF thread.at = "ended" THEN (IF iterated THEN now + 1 ELSE now) ELSE StartedIn + 3

\* A proposal gets through within three slots and in an epoch of this preconfer.
LoopPace ==
    /\ pc # "down"
    /\ pc = "boot" => thread.at = "ended"
    /\ pc = "next" => iterated

PoolPace ==
    /\ \A tx \in pool : pool = {tx} /\ tx.parent = Len(inbox) /\ tx.blocks # {}
    /\ InFlight # {} => InTurn

ThreadPace ==
    /\ thread.at \in {"started", "pricing"} => pool = {} /\ iterated
    /\ thread.at = "pricing" => thread.parent = Len(inbox) /\ thread.nonce \in {-1, nonce}
    /\ thread.at = "waiting" =>
          /\ StartedIn <= now /\ now <= StartedIn + 2 /\ (now = StartedIn => iterated)
          /\ IF thread.since = -1
             THEN pool # {} /\ now <= StartedIn + 1 /\ (now = StartedIn + 1 => ~included)
             ELSE pool = {} /\ thread.since <= now /\ thread.since <= StartedIn + 1
    /\ IsLastSlotBeforeHandoverWindow(Here.slot) /\ thread.at # "ended" => StartedIn < now

\* This preconfer's blocks that do not have the current anchor were built before
\* it was refreshed, and those of the window that begins in this epoch have it.
BlocksOfAnchor ==
    /\ ~built => \A n \in DOMAIN chain : chain[n].slot < now
    /\ pc = "boot" => \A n \in DOMAIN chain : chain[n].slot = now
    /\ \A n \in DOMAIN chain : chain[n].operator = Me =>
          /\ chain[n].anchor # anchor => chain[n].slot < anchor
          /\ WindowOf(n) = Here.epoch + 1 => chain[n].anchor = anchor

\* L1 has all blocks of the windows before.
NothingLeft ==
    /\ \A n \in 1..LastBlock : Proposed(n)
    /\ \A n \in DOMAIN chain : n > LastBlock =>
          /\ WindowOf(n) >= Here.epoch
          /\ ~InTurn /\ LastSlotOfEpoch /\ included => WindowOf(n) > Here.epoch

\* The blocks of the window whose epoch it is that are on no way to L1.
Unsent ==
    {n \in DOMAIN chain : n > LastBlock /\ WindowOf(n) = Here.epoch /\ n \notin UNION InFlight}
OldUnsent == {n \in Unsent : chain[n].anchor # anchor}

\* Before the handover window, blocks with the anchor before the current one are
\* sent within two slots after the refresh, all in one batch.
BeforeHandover ==
    /\ OldUnsent # {} =>
          /\ AnchorIsDue(At(anchor).slot)
          /\ NextChance <= anchor + 2
          /\ ~built => anchor < now
    /\ \A m, n \in OldUnsent : chain[m].anchor = chain[n].anchor
    /\ thread.at # "ended" /\ StartedIn = now /\ ~built /\ AnchorIsDue(Here.slot) =>
          Unsent = {}

\* Within it, the last of them are sent in its first or second slot, all in one
\* batch, too.
WithinHandover ==
    /\ \A m, n \in Unsent : chain[m].anchor = chain[n].anchor
    /\ Unsent # {} => NextChance <= HandoverStart + 1
    /\ \A n \in UNION InFlight : WindowOf(n) = Here.epoch => StartedIn <= HandoverStart + 1

Deadline ==
    InTurn => IF WithinHandoverPeriod(Here.slot) THEN WithinHandover ELSE BeforeHandover

RoomInv ==
    KnowsTurn /\ LoopPace /\ PoolPace /\ ThreadPace /\ BlocksOfAnchor /\ NothingLeft /\ Deadline

-----------------------------------------------------------------------------
(* Slots, anchors and windows.                                             *)

\* The layout's numbers.
LEMMA LayoutTypes ==
    ASSUME RoomForBatches
    PROVE  /\ SlotsPerEpoch \in Nat /\ HandoverSlots \in Nat /\ AnchorIdLag \in Nat
           /\ ProposeTimeout \in Nat /\ MaxOffset \in Nat
           /\ 3 <= HandoverSlots /\ HandoverSlots < SlotsPerEpoch /\ 4 <= AnchorIdLag
           /\ HandoverSlots <= AnchorIdLag
  BY SlotsAssumption, ConfirmationAssumption DEF RoomForBatches

\* What a number is a multiple of.
LEMMA Multiple ==
    ASSUME NEW n \in Nat, NEW d \in Nat, d > 0, n % d = 0
    PROVE  \E k \in Nat : n = k * d
  <1> DEFINE q == n \div d
             r == n % d
  <1>1. q \in Int /\ r \in 0..(d - 1) /\ n = q * d + r
    OBVIOUS
  <1> HIDE DEF q, r
  <1>2. r = 0
    BY DEF r
  <1>3. n = q * d
    BY <1>1, <1>2
  <1>4. q >= 0
    <2>1. SUFFICES ASSUME q <= -1 PROVE FALSE
      BY <1>1
    <2>2. q * d <= -d
      BY <1>1, <2>1
    <2> QED
      BY <1>3, <2>2
  <1> QED
    BY <1>1, <1>3, <1>4

\* Multiples are as far apart as the number.
LEMMA MultiplesApart ==
    ASSUME NEW a \in Int, NEW b \in Int, NEW d \in Nat, d > 0, a * d < b * d
    PROVE  a * d + d <= b * d
  <1>1. a < b
    <2>1. SUFFICES ASSUME a >= b PROVE FALSE
      OBVIOUS
    <2>2. a * d >= b * d
      BY <2>1
    <2> QED
      BY <2>2
  <1>2. (a + 1) * d <= b * d
    BY <1>1
  <1> QED
    BY <1>2

\* A slot in which the anchor is due, counted from the beginning.
LEMMA DueIsMultiple ==
    ASSUME RoomForBatches, NEW n \in Nat, AnchorIsDue(At(n).slot)
    PROVE  \E k \in Nat : n + HandoverSlots = k * AnchorIdLag
  <1> DEFINE S == SlotsPerEpoch
             L == AnchorIdLag
             e == At(n).epoch
             s == At(n).slot
             H == HandoverSlots
  <1>1. S \in Nat /\ L \in Nat /\ L > 0 /\ H \in Nat
    BY LayoutTypes
  <1>2. e \in Nat /\ s \in 0..(S - 1) /\ n = e * S + s
    BY PositionType
  <1>3. S % L = 0 /\ (s + H) % L = 0
    BY DEF RoomForBatches, AnchorIsDue
  <1> HIDE DEF S, L, e, s, H
  <1>4. s \in Nat /\ s + H \in Nat
    BY <1>1, <1>2
  <1>5. PICK i \in Nat : S = i * L
    BY <1>1, <1>3, Multiple
  <1>6. PICK j \in Nat : s + H = j * L
    BY <1>1, <1>3, <1>4, Multiple
  <1>7. e * S = (e * i) * L
    BY <1>1, <1>2, <1>5
  <1>8. n + H = (e * i) * L + j * L
    BY <1>1, <1>2, <1>4, <1>6, <1>7
  <1>9. e * i \in Nat
    BY <1>2, <1>5
  <1>10. n + H = (e * i + j) * L
    BY <1>1, <1>6, <1>8, <1>9
  <1> QED
    BY <1>6, <1>9, <1>10 DEF H, L

\* Such slots are as far apart as the period of the anchor.
LEMMA DueApart ==
    ASSUME RoomForBatches, NEW m \in Nat, NEW n \in Nat, m < n,
           AnchorIsDue(At(m).slot), AnchorIsDue(At(n).slot)
    PROVE  m + AnchorIdLag <= n
  <1>1. /\ HandoverSlots \in Nat /\ AnchorIdLag \in Nat /\ AnchorIdLag > 0
    BY LayoutTypes
  <1>2. PICK j \in Nat : m + HandoverSlots = j * AnchorIdLag
    BY DueIsMultiple
  <1>3. PICK k \in Nat : n + HandoverSlots = k * AnchorIdLag
    BY DueIsMultiple
  <1>4. j * AnchorIdLag + AnchorIdLag <= k * AnchorIdLag
    BY <1>1, <1>2, <1>3, MultiplesApart
  <1> QED
    BY <1>1, <1>2, <1>3, <1>4

\* The first slot of a handover window is such a slot.
LEMMA DueAtHandover ==
    ASSUME RoomForBatches
    PROVE  AnchorIsDue(SlotsPerEpoch - HandoverSlots)
  <1>1. (SlotsPerEpoch - HandoverSlots) + HandoverSlots = SlotsPerEpoch
    BY LayoutTypes
  <1> QED
    BY <1>1 DEF AnchorIsDue, RoomForBatches

\* There is no other one in the window.
LEMMA DueInHandover ==
    ASSUME RoomForBatches, NEW s \in 0..(SlotsPerEpoch - 1),
           s > SlotsPerEpoch - HandoverSlots
    PROVE  ~AnchorIsDue(s)
  <1>1. SUFFICES ASSUME AnchorIsDue(s) PROVE FALSE
    OBVIOUS
  <1>2. /\ SlotsPerEpoch \in Nat /\ HandoverSlots \in Nat /\ AnchorIdLag \in Nat
        /\ AnchorIdLag > 0 /\ HandoverSlots <= AnchorIdLag
    BY LayoutTypes
  <1>3. PICK i \in Nat : SlotsPerEpoch = i * AnchorIdLag
    BY <1>2, Multiple DEF RoomForBatches
  <1>4. s + HandoverSlots \in Nat /\ (s + HandoverSlots) % AnchorIdLag = 0
    BY <1>1, <1>2 DEF AnchorIsDue
  <1>5. PICK j \in Nat : s + HandoverSlots = j * AnchorIdLag
    BY <1>2, <1>4, Multiple
  <1>6. i * AnchorIdLag + AnchorIdLag <= j * AnchorIdLag
    BY <1>2, <1>3, <1>5, MultiplesApart
  <1> QED
    BY <1>2, <1>3, <1>5, <1>6

\* Where this epoch's handover window begins.
LEMMA HandoverPosition ==
    ASSUME TypeInv, RoomForBatches
    PROVE  /\ now = Here.epoch * SlotsPerEpoch + Here.slot
           /\ HandoverStart = Here.epoch * SlotsPerEpoch + SlotsPerEpoch - HandoverSlots
           /\ HandoverStart \in Nat
           /\ At(HandoverStart) = [epoch |-> Here.epoch, slot |-> SlotsPerEpoch - HandoverSlots]
  <1> DEFINE S == SlotsPerEpoch
             H == HandoverSlots
             e == Here.epoch
             s == Here.slot
  <1>1. S \in Nat /\ H \in Nat /\ 3 <= H /\ H < S
    BY LayoutTypes
  <1>2. now \in Nat /\ e \in Nat /\ s \in 0..(S - 1) /\ now = e * S + s
    BY HereNow, PositionType DEF Here
  <1>3. HandoverStart = now - s + S - H
    BY DEF HandoverStart
  <1> HIDE DEF S, H, e, s
  <1>4. e * S \in Nat
    BY <1>1, <1>2
  <1>5. HandoverStart = e * S + S - H
    BY <1>1, <1>2, <1>3, <1>4
  <1>6. HandoverStart = e * S + (S - H) /\ HandoverStart \in Nat /\ S - H \in 0..(S - 1)
    BY <1>1, <1>4, <1>5
  <1>7. At(HandoverStart) = [epoch |-> e, slot |-> S - H]
    BY <1>2, <1>6, Position DEF S
  <1> QED
    BY <1>2, <1>5, <1>6, <1>7 DEF S, H, e, s

\* What is known of the window of a block.
LEMMA WindowFacts ==
    ASSUME TypeInv, ChainInv, NEW n \in DOMAIN chain
    PROVE  /\ WindowOf(n) \in Nat /\ WindowOf(n) <= Here.epoch + 1
           /\ chain[n].slot \in Nat /\ chain[n].slot <= now
           /\ chain[n].operator = schedule[WindowOf(n)]
           /\ ~WithinHandoverPeriod(Here.slot) => WindowOf(n) <= Here.epoch
           /\ chain[n].slot = now => WindowOf(n) = WindowEpoch(Here)
  <1>1. /\ chain[n].slot \in Nat /\ now \in Nat /\ chain[n].slot <= now
        /\ chain[n].operator = schedule[WindowOf(n)] /\ Here.epoch \in Nat
    BY BlockFields, HereNow DEF ChainInv, WindowOf
  <1>2. WindowOf(n) <= WindowEpoch(Here)
    BY <1>1, LaterWindow DEF WindowOf, Here
  <1>3. WindowOf(n) \in Nat
    BY <1>1, PositionType DEF WindowOf, WindowEpoch
  <1>4. WindowEpoch(Here) = Here.epoch + 1 \/ WindowEpoch(Here) = Here.epoch
    BY DEF WindowEpoch
  <1>5. ~WithinHandoverPeriod(Here.slot) => WindowEpoch(Here) = Here.epoch
    BY DEF WindowEpoch
  <1>6. chain[n].slot = now => WindowOf(n) = WindowEpoch(Here)
    BY DEF WindowOf, Here
  <1> QED
    BY <1>1, <1>2, <1>3, <1>4, <1>5, <1>6

\* Later blocks are of later windows.
LEMMA WindowOrder ==
    ASSUME TypeInv, ChainInv, NEW m \in DOMAIN chain, NEW n \in DOMAIN chain, m <= n
    PROVE  WindowOf(m) <= WindowOf(n)
  <1>1. chain[m].slot \in Nat /\ chain[n].slot \in Nat /\ chain[m].slot <= chain[n].slot
    BY BlockFields DEF ChainInv
  <1> QED
    BY <1>1, LaterWindow DEF WindowOf

\* A slot whose window is some epoch's is not before the window begins.
LEMMA WindowBegins ==
    ASSUME NEW d \in Nat, NEW w \in Nat, w <= WindowEpoch(At(d))
    PROVE  w * SlotsPerEpoch <= d + HandoverSlots
  <1> DEFINE S == SlotsPerEpoch
             m == d + HandoverSlots
             f == At(m).epoch
  <1>1. S \in Nat /\ m \in Nat
    BY SlotsAssumption
  <1>2. WindowEpoch(At(d)) = f
    BY WindowIsLater
  <1>3. f \in Nat /\ At(m).slot \in 0..(S - 1) /\ m = f * S + At(m).slot
    BY <1>1, PositionType
  <1> HIDE DEF S, m, f
  <1>4. w <= f
    BY <1>2
  <1>5. w * S <= f * S
    BY <1>1, <1>3, <1>4
  <1>6. f * S <= m
    BY <1>1, <1>3
  <1>7. w * S \in Nat /\ f * S \in Nat
    BY <1>1, <1>3
  <1> QED
    BY <1>1, <1>5, <1>6, <1>7 DEF S, m

\* No block that L1 does not have is left to nobody.
LEMMA NoneLeft ==
    ASSUME TypeInv, ChainInv, NothingLeft, RoomForBatches,
           NEW n \in DOMAIN chain, n > LastBlock
    PROVE  ~Expired(n, SendSlot) /\ ~Left(n)
  <1> DEFINE S == SlotsPerEpoch
             H == HandoverSlots
             e == Here.epoch
             s == Here.slot
             d == chain[n].slot
  <1>1. S \in Nat /\ H \in Nat /\ MaxOffset \in Nat /\ MaxOffset >= S + H
    BY LayoutTypes DEF RoomForBatches
  <1>2. /\ now \in Nat /\ e \in Nat /\ s \in 0..(S - 1) /\ now = e * S + s
    BY HereNow, HandoverPosition
  <1>3. d \in Nat /\ WindowOf(n) \in Nat /\ e <= WindowOf(n)
    BY <1>2, WindowFacts DEF NothingLeft
  <1>4. e * S <= d + H
    BY <1>2, <1>3, WindowBegins DEF WindowOf
  <1>5. SendSlot \in Nat /\ SendSlot <= now + 1
    BY <1>2, LastBlockType
  <1>6. ~(WindowOf(n) < e)
    BY <1>2, <1>3
  <1>7. ~(d + MaxOffset < SendSlot)
    <2> HIDE DEF S, H, e, s, d
    <2>1. e * S \in Nat
      BY <1>1, <1>2
    <2> QED
      BY <1>1, <1>2, <1>3, <1>4, <1>5, <2>1
  <1> QED
    BY <1>6, <1>7 DEF Expired, Left, WindowOf

\* What the steps below start from, and what they may use of the state after.
RoomContext == SeqContext /\ Calm /\ NoGap /\ ~alarmed /\ RoomForBatches /\ RoomInv

\* What a calm environment does not do.
LEMMA CalmFields ==
    ASSUME Calm
    PROVE  /\ ~env.rpcFails /\ ~env.losesAnswers /\ ~env.slowThread
           /\ ~env.slowTracker /\ ~env.congested
           /\ env.crash = "never" /\ env.missed = -1
  BY DEF Calm

\* Two numbers around a slot's beginning.
LEMMA PaceTypes ==
    ASSUME TypeInv, ThreadPace, RoomForBatches
    PROVE  /\ StartedIn \in Int /\ StartedIn <= now /\ NextChance \in Int /\ now <= NextChance
           /\ thread.at = "ended" => /\ NextChance = IF iterated THEN now + 1 ELSE now
                                     /\ thread = Ended
           /\ thread.at # "ended" => NextChance = StartedIn + 3
           /\ iterated => now < NextChance
  <1>1. now \in Nat /\ ProposeTimeout \in Nat
    BY HereNow, LayoutTypes
  <1>2. thread.at \in {"ended", "started", "pricing", "waiting"}
    BY ThreadFields
  <1>3. thread.at = "ended" => thread = Ended
    BY DEF TypeInv, ThreadOK, ThreadType
  <1>4. CASE thread.at = "waiting"
    <2>1. thread.until \in Int
      BY <1>4, ThreadFields
    <2>2. StartedIn = thread.until - ProposeTimeout /\ NextChance = StartedIn + 3
      BY <1>4 DEF StartedIn, NextChance
    <2>3. StartedIn <= now /\ now <= StartedIn + 2
      BY <1>4 DEF ThreadPace
    <2> QED
      BY <1>1, <1>4, <2>1, <2>2, <2>3
  <1>5. CASE thread.at # "waiting"
    BY <1>1, <1>2, <1>3, <1>5 DEF StartedIn, NextChance
  <1> QED
    BY <1>4, <1>5

\* A thread that waits for its transaction.
LEMMA Pending ==
    ASSUME TypeInv, PoolInv, PoolPace, ThreadPace, RoomForBatches, pool # {}
    PROVE  /\ thread.at = "waiting" /\ thread.nonce = nonce /\ thread.since = -1
           /\ StartedIn \in Int /\ now <= StartedIn + 1
           /\ included => now <= StartedIn
           /\ InTurn
           /\ \E tx \in pool : pool = {tx} /\ InFlight = {tx.blocks} /\ tx.parent = Len(inbox)
                               /\ tx.blocks # {}
  <1>1. thread.at = "waiting" /\ thread.nonce = nonce /\ thread.since = -1
    BY DEF PoolInv
  <1>2. StartedIn \in Int /\ now \in Nat
    BY PaceTypes, HereNow
  <1>3. now <= StartedIn + 1 /\ (now = StartedIn + 1 => ~included)
    BY <1>1 DEF ThreadPace
  <1>4. PICK tx \in pool : TRUE
    OBVIOUS
  <1>5. pool = {tx} /\ tx.parent = Len(inbox) /\ tx.blocks # {}
    BY DEF PoolPace
  <1>6. InFlight = {tx.blocks}
    BY <1>1, <1>5 DEF InFlight
  <1>7. InTurn
    BY <1>6 DEF PoolPace
  <1> QED
    BY <1>1, <1>2, <1>3, <1>5, <1>6, <1>7

\* Nothing is on its way where neither the thread nor the pool has a batch.
LEMMA NothingInFlight ==
    ASSUME pool = {}, thread.at \notin {"started", "pricing"}
    PROVE  InFlight = {}
  BY DEF InFlight

\* A batch on its way holds exactly the next blocks.
LEMMA FlightIsNext ==
    ASSUME TypeInv, ChainInv, FlightInv, NothingLeft, RoomForBatches, NEW B \in InFlight
    PROVE  /\ B = (LastBlock + 1)..(LastBlock + Cardinality(B))
           /\ B \subseteq DOMAIN chain
           /\ \A n \in B : n > LastBlock /\ chain[n].operator = Me
           /\ Cardinality(B) \in Nat
  <1>1. B \subseteq DOMAIN chain /\ \A n \in B : n > LastBlock /\ chain[n].operator = Me
    BY DEF FlightInv, IsNext
  <1>2. \A n \in DOMAIN chain \ B, m \in B : LastBlock < n /\ n < m => Left(n)
    BY DEF FlightInv, IsNext
  <1>3. /\ LastBlock \in Nat /\ Len(chain) \in Nat /\ DOMAIN chain = 1..Len(chain)
    BY LastBlockType, BlockFields
  <1>4. IsFiniteSet(B) /\ Cardinality(B) \in Nat /\ B \in SUBSET Nat
    BY <1>1, <1>3, BatchAppended
  <1>5. SUFFICES ASSUME B # (LastBlock + 1)..(LastBlock + Cardinality(B)) PROVE FALSE
    BY <1>1, <1>4
  <1>6. PICK n \in (LastBlock + 1)..(LastBlock + Cardinality(B)) :
           n \notin B /\ \E m \in B : n < m
    BY <1>1, <1>3, <1>4, <1>5, LeavesOut
  <1>7. PICK m \in B : n < m
    BY <1>6
  <1>8. n \in Nat /\ LastBlock < n /\ n > LastBlock /\ m \in DOMAIN chain
    BY <1>1, <1>3, <1>4, <1>6, <1>7
  <1>9. n \in DOMAIN chain
    BY <1>3, <1>7, <1>8
  <1>10. Left(n)
    BY <1>2, <1>6, <1>7, <1>8, <1>9
  <1> QED
    BY <1>8, <1>9, <1>10, NoneLeft

-----------------------------------------------------------------------------
(* Knowing whose turn it is.                                               *)

\* A step that does not touch what the loop knows.
LEMMA KnowsSame ==
    ASSUME KnowsTurn, UNCHANGED <<now, schedule, pc, iterated, operators, activeEpoch>>
    PROVE  KnowsTurn'
  BY DEF KnowsTurn, Here, At, InTurn

\* A slot that is over has had its iteration, and what belongs to it has ended.
LEMMA SlotEnds ==
    ASSUME RoomContext, Tick
    PROVE  /\ now' = now + 1 /\ built /\ included /\ iterated /\ pc = "top"
           /\ handled = Len(inbox)
           /\ thread.at = "ended" \/ (thread.at = "waiting" /\ ~HasReceipt)
           /\ built' = FALSE /\ included' = FALSE /\ iterated' = FALSE
           /\ UNCHANGED <<schedule, env, chain, anchor, cache, pc, operators, activeEpoch, thread,
                          pool, nonce, inbox>>
  <1>1. pc # "down" /\ env.missed = -1 /\ ~env.slowTracker /\ ~env.slowThread /\ now \in Nat
    BY CalmFields, HereNow DEF RoomContext, RoomInv, LoopPace, SeqContext
  <1>2. now # env.missed
    BY <1>1
  <1> QED
    BY <1>1, <1>2 DEF Tick, SlotIsOver

\* The positions before and after.
LEMMA PositionAfter ==
    ASSUME TypeInv, now' = now + 1
    PROVE  /\ Here.slot = SlotsPerEpoch - 1 =>
                 (Here.epoch)' = Here.epoch + 1 /\ (Here.slot)' = 0
           /\ Here.slot # SlotsPerEpoch - 1 =>
                 (Here.epoch)' = Here.epoch /\ (Here.slot)' = Here.slot + 1
  <1>1. now \in Nat
    BY HereNow
  <1>2. Here' = At(now + 1)
    BY DEF Here
  <1>3. At(now + 1) = IF At(now).slot = SlotsPerEpoch - 1
                      THEN [epoch |-> At(now).epoch + 1, slot |-> 0]
                      ELSE [epoch |-> At(now).epoch, slot |-> At(now).slot + 1]
    BY <1>1, NextPosition
  <1>4. (Here.epoch)' = Here'.epoch /\ (Here.slot)' = Here'.slot
    OBVIOUS
  <1> HIDE DEF At
  <1> QED
    BY <1>2, <1>3, <1>4 DEF Here

\* The next epoch begins with what was learned at the end of this one.
LEMMA KnowsTick ==
    ASSUME RoomContext, Tick
    PROVE  KnowsTurn'
  <1> DEFINE e == Here.epoch
             s == Here.slot
             end == SlotsPerEpoch - HandoverSlots - 1
  <1>1. /\ iterated /\ pc = "top" /\ iterated' = FALSE
        /\ UNCHANGED <<schedule, pc, operators, activeEpoch>>
    BY SlotEnds
  <1>2. /\ SlotsPerEpoch \in Nat /\ HandoverSlots \in Nat /\ 3 <= HandoverSlots
        /\ HandoverSlots < SlotsPerEpoch
        /\ e \in Nat /\ s \in 0..(SlotsPerEpoch - 1)
    BY LayoutTypes, HereNow DEF RoomContext, SeqContext
  <1>3. /\ e \in DOMAIN operators
        /\ s >= end => e + 1 \in DOMAIN operators
        /\ InTurn => e \in activeEpoch \/ (e + 1 \in activeEpoch /\ e + 1 \in DOMAIN operators)
        /\ s >= end + 1 => (schedule[e + 1] = Me => e + 1 \in activeEpoch)
    BY <1>1, <1>2 DEF RoomContext, RoomInv, KnowsTurn
  <1>4. /\ s = SlotsPerEpoch - 1 => (Here.epoch)' = e + 1 /\ (Here.slot)' = 0
        /\ s # SlotsPerEpoch - 1 => (Here.epoch)' = e /\ (Here.slot)' = s + 1
    BY SlotEnds, PositionAfter DEF RoomContext, SeqContext
  <1>5. InTurn' <=> schedule[(Here.epoch)'] = Me
    BY <1>1 DEF InTurn
  <1> HIDE DEF e, s
  <1>6. CASE s = SlotsPerEpoch - 1
    <2>1. (Here.epoch)' = e + 1 /\ (Here.slot)' = 0
      BY <1>4, <1>6
    <2>2. e + 1 \in DOMAIN operators /\ (schedule[e + 1] = Me => e + 1 \in activeEpoch)
      BY <1>2, <1>3, <1>6
    <2>3. ~((Here.slot)' > end) /\ ~((Here.slot)' > end + 1) /\ (Here.slot)' # end + 1
      BY <1>2, <2>1
    <2> QED
      BY <1>1, <1>5, <2>1, <2>2, <2>3 DEF KnowsTurn
  <1>7. CASE s # SlotsPerEpoch - 1
    <2>1. (Here.epoch)' = e /\ (Here.slot)' = s + 1
      BY <1>4, <1>7
    <2>2. ((Here.slot)' > end => s >= end) /\ ((Here.slot)' > end + 1 => s >= end + 1)
      BY <1>2, <2>1
    <2>3. InTurn' <=> InTurn
      BY <1>5, <2>1 DEF InTurn, e
    <2> QED
      BY <1>1, <1>3, <2>1, <2>2, <2>3 DEF KnowsTurn
  <1> QED
    BY <1>6, <1>7

\* Both answers at startup are true.
LEMMA KnowsBoot ==
    ASSUME RoomContext, TurnInv', Boot
    PROVE  KnowsTurn'
  <1> DEFINE e == Here.epoch
             current == UpdateCurrentOperator(operators, e, schedule[e])
             all == UpdateNextOperator(current, e, schedule[e + 1])
  <1>1. UNCHANGED <<now, schedule>> /\ pc' = "top" /\ ~env.rpcFails
    BY CalmFields DEF Boot, RoomContext
  <1>2. operators' = all
    BY <1>1 DEF Boot
  <1>3. e \in DOMAIN operators' /\ e + 1 \in DOMAIN operators'
    <2>1. e \in DOMAIN current
      BY DEF UpdateCurrentOperator, WithOperator
    <2> HIDE DEF current, e
    <2> QED
      BY <1>2, <2>1 DEF UpdateNextOperator, WithOperator, RetainEpochs
  <1>4. \A x \in DOMAIN operators' : operators'[x] = schedule[x]
    BY <1>1 DEF TurnInv, StoredIsTrue, IsTrue
  <1>5. activeEpoch' = IF IsActiveIn(operators', Me, e + 1) THEN {e + 1}
                       ELSE IF IsActiveIn(operators', Me, e) THEN {e} ELSE activeEpoch
    BY DEF Boot
  <1>6. /\ schedule[e + 1] = Me => activeEpoch' = {e + 1}
        /\ schedule[e] = Me => activeEpoch' = {e + 1} \/ activeEpoch' = {e}
    <2> HIDE DEF e, all
    <2> QED
      BY <1>3, <1>4, <1>5 DEF IsActiveIn
  <1>7. (Here.epoch)' = e /\ (InTurn' <=> schedule[e] = Me)
    BY <1>1 DEF Here, At, InTurn
  <1> HIDE DEF e, all
  <1> QED
    BY <1>1, <1>3, <1>6, <1>7 DEF KnowsTurn

\* An iteration keeps what it needs.
LEMMA KnowsIterate ==
    ASSUME RoomContext, TurnInv', Iterate
    PROVE  KnowsTurn'
  <1> DEFINE e == Here.epoch
             s == Here.slot
             end == SlotsPerEpoch - HandoverSlots - 1
  <1>1. /\ UNCHANGED <<now, schedule>> /\ pc = "top" /\ iterated' = TRUE /\ pc' # "boot"
        /\ s = end => pc' = "next"
    BY DEF Iterate, IsLastSlotBeforeHandoverWindow
  <1>2. e \in Nat /\ s \in Nat /\ SlotsPerEpoch \in Nat /\ HandoverSlots \in Nat
    BY HereNow, LayoutTypes DEF RoomContext, SeqContext
  <1>3. /\ e \in DOMAIN operators
        /\ s > end => e + 1 \in DOMAIN operators
        /\ InTurn => e \in activeEpoch \/ (e + 1 \in activeEpoch /\ e + 1 \in DOMAIN operators)
        /\ s > end + 1 => (schedule[e + 1] = Me => e + 1 \in activeEpoch)
    BY <1>1 DEF RoomContext, RoomInv, KnowsTurn
  <1>4. \A x \in DOMAIN operators : x \in {e, e + 1} => x \in DOMAIN operators'
    <2>1. operators' = operators \/ operators' = ChangeEpoch(operators, e)
      BY DEF Iterate
    <2>2. e >= e /\ e + 1 >= e
      BY <1>2
    <2> HIDE DEF e
    <2> QED
      BY <2>1, <2>2 DEF ChangeEpoch, RetainEpochs
  <1>5. \A x \in DOMAIN operators' : operators'[x] = schedule[x]
    BY <1>1 DEF TurnInv, StoredIsTrue, IsTrue
  <1>6. activeEpoch' = IF IsHandoverStartSlot(s) /\ IsActiveIn(operators', Me, e + 1)
                       THEN {e + 1} ELSE activeEpoch
    BY DEF Iterate
  <1>7. IsHandoverStartSlot(s) <=> s = end + 1
    BY <1>2 DEF IsHandoverStartSlot
  <1>8. (Here.epoch)' = e /\ (Here.slot)' = s /\ (InTurn' <=> InTurn)
    BY <1>1 DEF Here, At, InTurn
  <1> HIDE DEF e, s
  <1>9. e \in DOMAIN operators' /\ (s > end => e + 1 \in DOMAIN operators')
    BY <1>3, <1>4
  <1>10. InTurn => e \in activeEpoch' \/ (e + 1 \in activeEpoch' /\ e + 1 \in DOMAIN operators')
    <2>1. CASE activeEpoch' = activeEpoch
      BY <1>3, <1>4, <2>1
    <2>2. CASE IsActiveIn(operators', Me, e + 1) /\ activeEpoch' = {e + 1}
      BY <2>2 DEF IsActiveIn
    <2> QED
      BY <1>6, <2>1, <2>2
  <1>11. s > end + 1 => (schedule[e + 1] = Me => e + 1 \in activeEpoch')
    <2>1. s > end + 1 => s # end + 1
      BY <1>2
    <2> QED
      BY <1>3, <1>6, <1>7, <2>1
  <1>12. s = end + 1 => (schedule[e + 1] = Me => e + 1 \in activeEpoch')
    <2>1. SUFFICES ASSUME s = end + 1, schedule[e + 1] = Me PROVE e + 1 \in activeEpoch'
      OBVIOUS
    <2>2. e + 1 \in DOMAIN operators'
      BY <1>2, <1>9, <2>1
    <2>3. IsActiveIn(operators', Me, e + 1)
      BY <1>5, <2>1, <2>2 DEF IsActiveIn
    <2> QED
      BY <1>6, <1>7, <2>1, <2>3
  <1> QED
    BY <1>1, <1>8, <1>9, <1>10, <1>11, <1>12 DEF KnowsTurn

\* The answer about the next epoch is true, too.
LEMMA KnowsQuery ==
    ASSUME RoomContext, QueryNext
    PROVE  KnowsTurn'
  <1> DEFINE e == Here.epoch
             s == Here.slot
             end == SlotsPerEpoch - HandoverSlots - 1
  <1>1. /\ UNCHANGED <<now, schedule, activeEpoch, iterated>> /\ pc = "next" /\ pc' = "top"
        /\ operators' = UpdateNextOperator(operators, e, schedule[e + 1])
    BY CalmFields DEF QueryNext, RoomContext
  <1>2. s = end
    BY <1>1 DEF RoomContext, SeqContext, TypeInv, LoopOK, IsLastSlotBeforeHandoverWindow
  <1>3. SlotsPerEpoch \in Nat /\ HandoverSlots \in Nat
    BY LayoutTypes DEF RoomContext
  <1>4. /\ e \in DOMAIN operators
        /\ InTurn => e \in activeEpoch \/ (e + 1 \in activeEpoch /\ e + 1 \in DOMAIN operators)
    BY <1>1 DEF RoomContext, RoomInv, KnowsTurn
  <1>5. (Here.epoch)' = e /\ (Here.slot)' = s /\ (InTurn' <=> InTurn)
    BY <1>1 DEF Here, At, InTurn
  <1> HIDE DEF e, s
  <1>6. e \in DOMAIN operators' /\ e + 1 \in DOMAIN operators'
    BY <1>1, <1>4 DEF UpdateNextOperator, WithOperator, RetainEpochs
  <1>7. ~(s > end + 1) /\ s # end + 1
    BY <1>2, <1>3
  <1> QED
    BY <1>1, <1>4, <1>5, <1>6, <1>7 DEF KnowsTurn

\* In its epochs the preconfer sends batches in every slot but the last one before
\* the handover window.
LEMMA SendsInTurn ==
    ASSUME RoomContext, TurnInv', Iterate, InTurn,
           ~IsLastSlotBeforeHandoverWindow(Here.slot)
    PROVE  MaySend
  <1> DEFINE e == Here.epoch
  <1>1. TypeInv /\ TurnInv /\ pc' # "boot" /\ UNCHANGED <<now, schedule>> /\ e \in Nat
    BY HereNow DEF RoomContext, SeqContext, Iterate
  <1>2. (Here.epoch)' = e /\ InTurn'
    BY <1>1 DEF Here, At, InTurn
  <1>3. /\ e \in DOMAIN operators'
        /\ e \in activeEpoch' \/ (e + 1 \in activeEpoch' /\ e + 1 \in DOMAIN operators')
    BY <1>1, <1>2, KnowsIterate DEF KnowsTurn
  <1>4. CASE e \in activeEpoch'
    BY <1>4 DEF MaySend, CanConfirm
  <1>5. CASE e + 1 \in activeEpoch' /\ e + 1 \in DOMAIN operators'
    <2>1. env.missed # FirstSlot
      <3>1. env.missed = -1 /\ now \in Nat
        BY <1>1, CalmFields, HereNow DEF RoomContext
      <3>2. FirstSlot = e * SlotsPerEpoch
        <4>1. now = e * SlotsPerEpoch + Here.slot
          BY <1>1, HandoverPosition DEF RoomContext
        <4>2. e * SlotsPerEpoch \in Nat /\ Here.slot \in Nat
          BY <1>1, HereNow, SlotsAssumption
        <4> QED
          BY <4>1, <4>2 DEF FirstSlot
      <3>3. e * SlotsPerEpoch \in Nat
        BY <1>1, SlotsAssumption
      <3> QED
        BY <3>1, <3>2, <3>3
    <2>2. DOMAIN operators' = {e, e + 1} /\ IsTrue(operators')
      BY <1>1, <1>3, <1>5, <2>1, ListInIteration
    <2>3. schedule[e] = Me /\ schedule[e + 1] = Me
      BY <1>1, <1>5, ActiveInIteration DEF InTurn
    <2>4. Cardinality({e, e + 1}) = 2
      <3>1. {e, e + 1} = e..(e + 1) /\ e \in Int /\ e + 1 \in Int
        BY <1>1
      <3>2. Cardinality(e..(e + 1)) = IF e > e + 1 THEN 0 ELSE (e + 1) - e + 1
        BY <3>1, FS_Interval
      <3>3. ~(e > e + 1) /\ (e + 1) - e + 1 = 2
        BY <1>1
      <3> HIDE DEF e
      <3> QED
        BY <3>1, <3>2, <3>3
    <2>5. \A x \in DOMAIN operators' : operators'[x] = Me
      BY <2>2, <2>3 DEF IsTrue
    <2>6. IsCurrentAndNext(operators', Me)
      BY <2>2, <2>4, <2>5 DEF IsCurrentAndNext
    <2> QED
      BY <2>6 DEF MaySend
  <1> QED
    BY <1>3, <1>4, <1>5

-----------------------------------------------------------------------------
(* How long a proposal takes.                                              *)

PaceInv == LoopPace /\ PoolPace /\ ThreadPace

\* A step that touches none of what the proposal depends on.
LEMMA PaceSame ==
    ASSUME PaceInv,
           UNCHANGED <<now, schedule, pc, iterated, thread, pool, nonce, included, inbox>>
    PROVE  PaceInv'
  BY DEF PaceInv, LoopPace, PoolPace, ThreadPace, InFlight, InTurn, Here, At, StartedIn

\* What the context says, part by part.
LEMMA RoomFacts ==
    ASSUME RoomContext
    PROVE  /\ TypeInv /\ TurnInv /\ ChainInv /\ AnchorInv
           /\ CacheInv /\ BehindInv /\ PoolInv /\ FlightInv /\ InboxInv
           /\ Calm /\ NoGap /\ ~alarmed /\ RoomForBatches
           /\ KnowsTurn /\ PaceInv /\ LoopPace /\ PoolPace /\ ThreadPace
           /\ BlocksOfAnchor /\ NothingLeft /\ Deadline
  BY DEF RoomContext, SeqContext, SeqInv, RoomInv, PaceInv

\* A slot that ends sees a pending proposal only in the slot that it was started
\* in, and another slot of an epoch of this preconfer follows.
LEMMA PaceTick ==
    ASSUME RoomContext, Tick
    PROVE  PaceInv'
  <1> DEFINE S == SlotsPerEpoch
             H == HandoverSlots
             e == Here.epoch
             s == Here.slot
             start == StartedIn
  <1>1. /\ now' = now + 1 /\ included /\ iterated /\ pc = "top"
        /\ thread.at = "ended" \/ (thread.at = "waiting" /\ ~HasReceipt)
        /\ included' = FALSE /\ iterated' = FALSE
        /\ UNCHANGED <<schedule, pc, thread, pool, nonce, inbox>>
    BY SlotEnds
  <1>2. /\ S \in Nat /\ H \in Nat /\ 3 <= H /\ H < S
        /\ now \in Nat /\ e \in Nat /\ s \in 0..(S - 1)
    BY LayoutTypes, HereNow, RoomFacts
  <1>3. start \in Int /\ start <= now
    BY PaceTypes, RoomFacts
  <1>4. ASSUME pool # {}
        PROVE  now <= start /\ InTurn'
    <2>1. /\ now <= start /\ InTurn
          /\ \E tx \in pool : InFlight = {tx.blocks} /\ tx.blocks # {}
      BY <1>1, <1>4, Pending, RoomFacts
    <2>2. PICK tx \in pool : InFlight = {tx.blocks} /\ tx.blocks # {}
      BY <2>1
    <2>3. PICK n \in tx.blocks : TRUE
      BY <2>2
    <2>4. n \in DOMAIN chain /\ n > LastBlock /\ chain[n].operator = Me
      BY <2>2, FlightIsNext, RoomFacts
    <2>5. /\ WindowOf(n) \in Nat /\ WindowOf(n) <= e + 1 /\ WindowOf(n) >= e
          /\ schedule[WindowOf(n)] = Me
      BY <2>4, WindowFacts, RoomFacts DEF NothingLeft
    <2>6. CASE s = S - 1
      <3>1. (Here.epoch)' = e + 1
        BY <1>1, <2>6, PositionAfter, RoomFacts
      <3>2. HandoverStart = now - s + S - H /\ WithinHandoverPeriod(s)
        BY <1>2, <2>6 DEF HandoverStart, WithinHandoverPeriod
      <3>3. WindowOf(n) = e => start <= HandoverStart + 1
        BY <2>1, <2>2, <3>2, RoomFacts DEF Deadline, WithinHandover
      <3> HIDE DEF S, H, e, s, start
      <3>4. HandoverStart + 1 = now + 2 - H
        BY <1>2, <2>6, <3>2
      <3>5. WindowOf(n) # e
        BY <1>2, <1>3, <2>1, <3>3, <3>4
      <3>6. WindowOf(n) = e + 1
        BY <1>2, <2>5, <3>5
      <3> QED
        BY <1>1, <2>1, <2>5, <3>1, <3>6 DEF InTurn
    <2>7. CASE s # S - 1
      <3>1. (Here.epoch)' = e
        BY <1>1, <2>7, PositionAfter, RoomFacts
      <3> QED
        BY <1>1, <2>1, <3>1 DEF InTurn
    <2> QED
      BY <2>6, <2>7
  <1>5. PoolPace'
    <2>1. InFlight' # {} => pool # {}
      BY <1>1 DEF InFlight
    <2> QED
      BY <1>1, <1>4, <2>1, RoomFacts DEF PoolPace
  <1>6. ASSUME thread.at = "waiting"
        PROVE  /\ start' = start /\ start < now' /\ now' <= start + 2 /\ now' # start
               /\ IF thread.since = -1 THEN pool # {} /\ now' <= start + 1
                  ELSE pool = {} /\ thread.since <= now' /\ thread.since <= start + 1
    <2>1. start' = start
      BY <1>1, <1>6 DEF StartedIn
    <2>2. /\ IF thread.since = -1
             THEN pool # {} /\ now <= start + 1 /\ (now = start + 1 => ~included)
             ELSE pool = {} /\ thread.since <= now /\ thread.since <= start + 1
          /\ thread.since \in Int
      BY <1>6, RoomFacts, ThreadFields DEF ThreadPace
    <2>3. thread.since # -1 => now <= thread.since
      <3>1. LatestL1 = now /\ ~HasReceipt
        BY <1>1, <1>6 DEF LatestL1
      <3> QED
        BY <1>2, <2>2, <3>1 DEF HasReceipt
    <2>4. thread.since = -1 => now <= start
      BY <1>4, <2>2
    <2> HIDE DEF S, H, e, s, start
    <2>5. start < now' /\ now' # start
      BY <1>1, <1>2, <1>3
    <2>6. CASE thread.since = -1
      BY <1>1, <1>2, <1>3, <2>1, <2>2, <2>4, <2>5, <2>6
    <2>7. CASE thread.since # -1
      BY <1>1, <1>2, <1>3, <2>1, <2>2, <2>3, <2>5, <2>7
    <2> QED
      BY <2>6, <2>7
  <1>7. ThreadPace'
    <2>1. CASE thread.at = "ended"
      BY <1>1, <2>1 DEF ThreadPace
    <2>2. CASE thread.at = "waiting"
      <3> HIDE DEF S, H, e, s
      <3>1. /\ start' = start /\ start < now' /\ now' <= start + 2 /\ now' # start
            /\ IF thread.since = -1 THEN pool # {} /\ now' <= start + 1
               ELSE pool = {} /\ thread.since <= now' /\ thread.since <= start + 1
        BY <1>6, <2>2
      <3>2. StartedIn' = start
        BY <3>1
      <3>3. PICK m \in Nat : now' = m
        BY <1>1, <1>2
      <3> HIDE DEF start
      <3>4. start <= m /\ start < m
        BY <1>3, <3>1, <3>3
      <3> QED
        BY <1>1, <2>2, <3>1, <3>2, <3>3, <3>4 DEF ThreadPace
    <2> QED
      BY <1>1, <2>1, <2>2
  <1> QED
    BY <1>1, <1>5, <1>7 DEF PaceInv, LoopPace

\* Nothing is proposed while the process starts.
LEMMA PaceBoot ==
    ASSUME RoomContext, Boot
    PROVE  PaceInv'
  <1>1. /\ UNCHANGED <<thread, pool, inbox>> /\ pc = "boot" /\ pc' = "top"
    BY DEF Boot, l1
  <1>2. thread.at = "ended" /\ pool = {}
    BY <1>1, RoomFacts DEF LoopPace, PoolInv
  <1> QED
    BY <1>1, <1>2 DEF PaceInv, LoopPace, PoolPace, ThreadPace, InFlight

\* A thread is started in an epoch of this preconfer, while nothing is pending.
LEMMA PaceIterate ==
    ASSUME RoomContext, Iterate
    PROVE  PaceInv'
  <1>1. /\ UNCHANGED <<now, schedule, pool, nonce, included, inbox>> /\ iterated' = TRUE
        /\ pc' \in {"top", "next"} /\ ~iterated
    BY DEF Iterate, l1
  <1>2. LoopPace'
    BY <1>1 DEF LoopPace
  <1>3. CASE thread' = thread
    <2>1. InFlight' = InFlight /\ (InTurn' <=> InTurn) /\ StartedIn' = StartedIn
          /\ (Here.slot)' = Here.slot
      BY <1>1, <1>3 DEF InFlight, InTurn, Here, At, StartedIn
    <2> QED
      BY <1>1, <1>2, <1>3, <2>1, RoomFacts DEF PaceInv, PoolPace, ThreadPace
  <1>4. CASE thread' # thread
    <2>1. /\ MaySend /\ thread = Ended /\ thread'.at = "started"
      BY <1>4 DEF Iterate, Send
    <2>2. InTurn /\ ~IsLastSlotBeforeHandoverWindow(Here.slot)
      BY <2>1, MaySendInTurn, RoomFacts DEF MaySend
    <2>3. InTurn' /\ (Here.slot)' = Here.slot
      BY <1>1, <2>2 DEF InTurn, Here, At
    <2>4. pool = {}
      BY <2>1, RoomFacts DEF PoolInv, Ended
    <2> QED
      BY <1>1, <1>2, <2>1, <2>2, <2>3, <2>4 DEF PaceInv, PoolPace, ThreadPace
  <1> QED
    BY <1>3, <1>4

\* The query does not touch it.
LEMMA PaceQuery ==
    ASSUME RoomContext, QueryNext
    PROVE  PaceInv'
  <1>1. /\ UNCHANGED <<now, schedule, iterated, thread, pool, nonce, included, inbox>>
        /\ pc' = "top"
    BY DEF QueryNext, l1
  <1> QED
    BY <1>1, RoomFacts
    DEF PaceInv, LoopPace, PoolPace, ThreadPace, InFlight, InTurn, Here, At, StartedIn

\* Before it submits, the thread has the number of the latest batch and then
\* this preconfer's nonce, and L1 would take its batch.
LEMMA PaceProposing ==
    ASSUME RoomContext, ReadParent \/ ReadNonce \/ EstimateGas
    PROVE  PaceInv' /\ InFlight' = InFlight /\ thread'.at = "pricing"
  <1>1. UNCHANGED <<now, schedule, pc, iterated, pool, nonce, included, inbox>>
    BY DEF ReadParent, ReadNonce, EstimateGas, loop, l1
  <1>2. /\ thread.at \in {"started", "pricing"} /\ pool = {} /\ iterated
        /\ ~IsLastSlotBeforeHandoverWindow(Here.slot) /\ Len(inbox) \in Nat /\ nonce \in Nat
    <2>1. /\ thread.at \in {"started", "pricing"} /\ pool = {} /\ iterated
      BY RoomFacts DEF ReadParent, ReadNonce, EstimateGas, ThreadPace
    <2>2. StartedIn = now /\ now \in Nat
      BY <2>1, RoomFacts, HereNow DEF StartedIn
    <2>3. ~IsLastSlotBeforeHandoverWindow(Here.slot)
      BY <2>1, <2>2, RoomFacts DEF ThreadPace
    <2> QED
      BY <2>1, <2>3, RoomFacts, LastBlockType
  <1>3. InFlight = {thread.blocks}
    BY <1>2 DEF InFlight
  <1>4. InTurn
    BY <1>3, RoomFacts DEF PoolPace
  <1>5. /\ thread'.at = "pricing" /\ thread'.blocks = thread.blocks
        /\ thread'.parent = Len(inbox) /\ thread'.nonce \in {-1, nonce}
    <2>1. CASE ReadParent
      BY <2>1, RoomFacts, CalmFields DEF ReadParent
    <2>2. CASE ReadNonce \/ EstimateGas
      <3>1. thread.at = "pricing"
        BY <2>2 DEF ReadNonce, EstimateGas
      <3>2. /\ thread \in [at : {"pricing"}, blocks : SUBSET Nat, parent : Int, nonce : Int,
                           estimated : BOOLEAN]
            /\ thread.parent = Len(inbox) /\ thread.nonce \in {-1, nonce}
        BY <3>1, RoomFacts, ThreadFields DEF ThreadPace
      <3>3. CASE ReadNonce
        BY <3>2, <3>3 DEF ReadNonce
      <3>4. CASE EstimateGas
        <4>1. thread' = [thread EXCEPT !.estimated = TRUE]
          BY <1>4, <3>2, <3>4 DEF EstimateGas, Accepts
        <4> QED
          BY <3>2, <4>1
      <3> QED
        BY <2>2, <3>3, <3>4
    <2> QED
      BY <2>1, <2>2
  <1>6. InFlight' = InFlight
    BY <1>1, <1>2, <1>3, <1>5 DEF InFlight
  <1>7. InTurn' /\ (Here.slot)' = Here.slot
    BY <1>1, <1>4 DEF InTurn, Here, At
  <1>8. PoolPace'
    BY <1>1, <1>2, <1>7 DEF PoolPace
  <1>9. ThreadPace'
    BY <1>1, <1>2, <1>5, <1>7 DEF ThreadPace
  <1> QED
    BY <1>1, <1>2, <1>5, <1>6, <1>8, <1>9, RoomFacts DEF PaceInv, LoopPace

\* What it submits has the next nonce, so L1 takes it.
LEMMA PaceSubmit ==
    ASSUME RoomContext, Submit
    PROVE  /\ PaceInv' /\ InFlight' = InFlight
           /\ thread.at = "pricing" /\ thread'.at = "waiting" /\ StartedIn' = now
  <1>1. /\ UNCHANGED <<now, schedule, pc, iterated, nonce, included, inbox>>
        /\ thread.at = "pricing" /\ thread.nonce # -1
    BY DEF Submit, loop
  <1>2. /\ pool = {} /\ iterated /\ thread.parent = Len(inbox) /\ thread.nonce = nonce
        /\ thread.blocks # {}
    BY <1>1, RoomFacts DEF ThreadPace, TypeInv, ThreadOK
  <1>3. now \in Nat /\ ProposeTimeout \in Nat
    BY RoomFacts, HereNow, LayoutTypes
  <1>4. /\ pool' = {[blocks |-> thread.blocks, parent |-> Len(inbox)]}
        /\ thread' = [at |-> "waiting", nonce |-> nonce, since |-> -1,
                      until |-> now + ProposeTimeout]
    BY <1>2 DEF Submit
  <1>5. InFlight = {thread.blocks} /\ InFlight' = {thread.blocks}
    BY <1>1, <1>2, <1>4 DEF InFlight
  <1>6. InTurn /\ ~IsLastSlotBeforeHandoverWindow(Here.slot)
    <2>1. StartedIn = now
      BY <1>1 DEF StartedIn
    <2> QED
      BY <1>1, <1>3, <1>5, <2>1, RoomFacts DEF PoolPace, ThreadPace
  <1>7. InTurn' /\ (Here.slot)' = Here.slot
    BY <1>1, <1>6 DEF InTurn, Here, At
  <1>8. StartedIn' = now
    BY <1>1, <1>3, <1>4 DEF StartedIn
  <1>9. PoolPace'
    BY <1>1, <1>2, <1>4, <1>7 DEF PoolPace
  <1>10. ThreadPace'
    <2>1. now <= now + 2 /\ now <= now + 1 /\ now # now + 1
      BY <1>3
    <2>2. thread'.at = "waiting" /\ thread'.since = -1 /\ pool' # {}
      BY <1>4
    <2>3. IF thread'.since = -1
          THEN pool' # {} /\ now' <= StartedIn' + 1 /\ (now' = StartedIn' + 1 => ~included')
          ELSE pool' = {} /\ thread'.since <= now' /\ thread'.since <= StartedIn' + 1
      BY <1>1, <1>8, <2>1, <2>2
    <2>4. /\ StartedIn' <= now' /\ now' <= StartedIn' + 2
          /\ (now' = StartedIn' => iterated')
      BY <1>1, <1>2, <1>3, <1>8, <2>1
    <2>5. ~IsLastSlotBeforeHandoverWindow((Here.slot)')
      BY <1>6, <1>7
    <2> QED
      BY <2>2, <2>3, <2>4, <2>5 DEF ThreadPace
  <1> QED
    BY <1>1, <1>4, <1>5, <1>8, <1>9, <1>10, RoomFacts DEF PaceInv, LoopPace

\* The wait ends when nothing is pending any more.
LEMMA PaceWaitEnds ==
    ASSUME RoomContext, Receipt \/ TimesOut
    PROVE  PaceInv' /\ pool = {} /\ thread'.at = "ended" /\ thread.at = "waiting"
  <1>1. /\ UNCHANGED <<now, schedule, pc, iterated, pool, nonce, included, inbox>>
        /\ thread.at = "waiting" /\ thread' = Ended
    BY DEF Receipt, TimesOut, loop, l1
  <1>2. pool = {}
    <2>1. SUFFICES ASSUME pool # {} PROVE FALSE
      OBVIOUS
    <2>2. thread.since = -1 /\ now + (IF included THEN 2 ELSE 1) <= thread.until
      BY <2>1, RoomFacts DEF PoolInv
    <2>3. now \in Nat /\ thread.until \in Int
      BY <1>1, RoomFacts, HereNow, ThreadFields
    <2>4. ~(now >= thread.until)
      BY <2>2, <2>3
    <2>5. ~HasReceipt
      BY <2>2 DEF HasReceipt
    <2> QED
      BY <2>4, <2>5 DEF Receipt, TimesOut
  <1> QED
    BY <1>1, <1>2, RoomFacts DEF PaceInv, LoopPace, PoolPace, ThreadPace, InFlight, Ended

\* An L1 block includes what is pending.
LEMMA TakesPending ==
    ASSUME RoomContext, L1Block
    PROVE  /\ pool' = {}
           /\ pool = {} => thread' = thread /\ nonce' = nonce /\ (InTurn => inbox' = inbox)
           /\ pool # {} => /\ InTurn /\ thread.at = "waiting" /\ thread'.at = "waiting"
                           /\ thread' = [thread EXCEPT !.since = now]
                           /\ \E tx \in pool : InFlight = {tx.blocks} /\ tx.blocks # {}
                                               /\ inbox' = WithBatch(tx.blocks)
  <1>1. pool = {} => LeaveOut
    BY DEF L1Block, Include
  <1>2. ~env.congested
    BY RoomFacts, CalmFields
  <1>3. ASSUME pool # {}
        PROVE  /\ InTurn /\ thread.at = "waiting" /\ thread'.at = "waiting" /\ pool' = {}
               /\ thread' = [thread EXCEPT !.since = now]
               /\ \E tx \in pool : InFlight = {tx.blocks} /\ tx.blocks # {}
                                   /\ inbox' = WithBatch(tx.blocks)
    <2>1. Include
      BY <1>2, <1>3 DEF L1Block, LeaveOut
    <2>2. /\ thread.at = "waiting" /\ thread.nonce = nonce /\ InTurn
          /\ \E tx \in pool : pool = {tx} /\ InFlight = {tx.blocks} /\ tx.parent = Len(inbox)
                              /\ tx.blocks # {}
      BY <1>3, RoomFacts, Pending
    <2>3. PICK tx \in pool : pool = {tx} /\ InFlight = {tx.blocks} /\ tx.parent = Len(inbox)
                             /\ tx.blocks # {}
      BY <2>2
    <2>4. /\ pool' = {} /\ thread' = [thread EXCEPT !.since = now]
          /\ inbox' = WithBatch(tx.blocks)
      BY <2>1, <2>2, <2>3 DEF Include, Accepts
    <2>5. thread \in [at : {"waiting"}, nonce : Nat, since : Int, until : Int]
      BY <2>2, RoomFacts, ThreadFields
    <2>6. thread'.at = "waiting"
      BY <2>4, <2>5
    <2> QED
      BY <2>2, <2>3, <2>4, <2>6
  <1> QED
    BY <1>1, <1>3 DEF LeaveOut

\* The thread knows of it in this slot.
LEMMA PaceL1 ==
    ASSUME RoomContext, L1Block
    PROVE  PaceInv' /\ UNION InFlight' \subseteq UNION InFlight /\ StartedIn' = StartedIn
  <1>1. UNCHANGED <<now, schedule, pc, iterated>> /\ pool' = {} /\ included' = TRUE
    BY TakesPending DEF L1Block, loop
  <1>2. (InTurn' <=> InTurn) /\ (Here.slot)' = Here.slot
    BY <1>1 DEF InTurn, Here, At
  <1>3. CASE pool = {}
    <2>1. thread' = thread /\ nonce' = nonce /\ (InTurn => inbox' = inbox)
      BY <1>3, TakesPending
    <2>2. InFlight' = InFlight /\ StartedIn' = StartedIn
      BY <1>1, <1>3, <2>1 DEF InFlight, StartedIn
    <2>3. PoolPace'
      BY <1>1, <1>2, <2>2, RoomFacts DEF PoolPace
    <2>4. thread.at = "pricing" => InTurn
      BY RoomFacts DEF InFlight, PoolPace
    <2>5. ThreadPace'
      BY <1>1, <1>2, <1>3, <2>1, <2>2, <2>4, RoomFacts DEF ThreadPace
    <2> QED
      BY <1>1, <2>1, <2>2, <2>3, <2>5, RoomFacts DEF PaceInv, LoopPace
  <1>4. CASE pool # {}
    <2>1. /\ thread.at = "waiting" /\ thread'.at = "waiting"
          /\ thread' = [thread EXCEPT !.since = now]
      BY <1>4, TakesPending
    <2>2. /\ thread \in [at : {"waiting"}, nonce : Nat, since : Int, until : Int]
          /\ now \in Nat
      BY <2>1, RoomFacts, ThreadFields, HereNow
    <2>3. thread'.since = now /\ thread'.until = thread.until /\ now # -1
      BY <2>1, <2>2
    <2>4. StartedIn' = StartedIn
      BY <2>1, <2>3 DEF StartedIn
    <2>5. now <= StartedIn + 1 /\ StartedIn <= now /\ now <= StartedIn + 2
      BY <1>4, <2>1, RoomFacts, Pending DEF ThreadPace
    <2>6. InFlight' = {}
      BY <1>1, <2>1 DEF InFlight
    <2>7. PoolPace'
      BY <1>1, <2>6 DEF PoolPace
    <2>8. ThreadPace'
      <3>1. /\ now = StartedIn => iterated
            /\ IsLastSlotBeforeHandoverWindow(Here.slot) => StartedIn < now
        BY <2>1, RoomFacts DEF ThreadPace
      <3> QED
        BY <1>1, <1>2, <2>1, <2>2, <2>3, <2>4, <2>5, <3>1 DEF ThreadPace
    <2> QED
      BY <1>1, <2>1, <2>4, <2>6, <2>7, <2>8, RoomFacts DEF PaceInv, LoopPace
  <1> QED
    BY <1>3, <1>4

-----------------------------------------------------------------------------
(* Blocks and anchors.                                                     *)

\* A block of the next epoch's window is of this handover window.
LEMMA NextWindow ==
    ASSUME TypeInv, ChainInv, RoomForBatches, NEW n \in DOMAIN chain,
           WindowOf(n) = Here.epoch + 1
    PROVE  WithinHandoverPeriod(Here.slot) /\ HandoverStart <= chain[n].slot
  <1> DEFINE S == SlotsPerEpoch
             H == HandoverSlots
             e == Here.epoch
             d == chain[n].slot
  <1>1. /\ S \in Nat /\ H \in Nat /\ e \in Nat /\ d \in Nat
        /\ HandoverStart = e * S + S - H /\ HandoverStart \in Nat
    BY LayoutTypes, HereNow, BlockFields, HandoverPosition
  <1>2. WithinHandoverPeriod(Here.slot)
    <2>1. SUFFICES ASSUME ~WithinHandoverPeriod(Here.slot) PROVE FALSE
      OBVIOUS
    <2>2. WindowOf(n) <= e
      BY <2>1, WindowFacts
    <2> QED
      BY <1>1, <2>2
  <1>3. (e + 1) * S <= d + H
    BY <1>1, WindowBegins DEF WindowOf
  <1> HIDE DEF S, H, e, d
  <1>4. (e + 1) * S = e * S + S /\ e * S \in Nat
    BY <1>1
  <1>5. HandoverStart <= d
    BY <1>1, <1>3, <1>4
  <1> QED
    BY <1>2, <1>5 DEF d

\* A step that neither builds nor ends the slot.
LEMMA AnchorSame ==
    ASSUME BlocksOfAnchor, UNCHANGED <<now, built, chain, anchor>>, pc' = "boot" => pc = "boot"
    PROVE  BlocksOfAnchor'
  BY DEF BlocksOfAnchor, WindowOf, WindowEpoch, Here, At

\* In the next slot all blocks are of slots before.
LEMMA AnchorTick ==
    ASSUME RoomContext, Tick
    PROVE  BlocksOfAnchor'
  <1> DEFINE e == Here.epoch
  <1>1. now' = now + 1 /\ pc = "top" /\ UNCHANGED <<chain, anchor, pc>>
    BY SlotEnds
  <1>2. now \in Nat /\ e \in Nat
    BY RoomFacts, HereNow
  <1>3. (Here.epoch)' = e \/ (Here.epoch)' = e + 1
    BY <1>1, RoomFacts, PositionAfter
  <1>4. \A n \in DOMAIN chain :
           /\ chain[n].slot < now' /\ WindowOf(n)' = WindowOf(n)
           /\ WindowOf(n) = (Here.epoch)' + 1 => WindowOf(n) = e + 1
    <2>1. SUFFICES ASSUME NEW n \in DOMAIN chain
                   PROVE  /\ chain[n].slot < now' /\ WindowOf(n)' = WindowOf(n)
                          /\ WindowOf(n) = (Here.epoch)' + 1 => WindowOf(n) = e + 1
      OBVIOUS
    <2>2. chain[n].slot \in Nat /\ chain[n].slot <= now /\ WindowOf(n) \in Nat
          /\ WindowOf(n) <= e + 1
      BY RoomFacts, WindowFacts
    <2>3. WindowOf(n)' = WindowOf(n)
      BY <1>1 DEF WindowOf, WindowEpoch, At
    <2>4. chain[n].slot < now'
      BY <1>1, <1>2, <2>2
    <2> HIDE DEF e
    <2>5. WindowOf(n) # e + 2
      BY <1>2, <2>2
    <2> QED
      BY <1>2, <1>3, <2>3, <2>4, <2>5
  <1>5. \A n \in DOMAIN chain : chain[n].operator = Me =>
           /\ chain[n].anchor # anchor => chain[n].slot < anchor
           /\ WindowOf(n) = e + 1 => chain[n].anchor = anchor
    BY RoomFacts DEF BlocksOfAnchor
  <1> HIDE DEF e
  <1> QED
    BY <1>1, <1>4, <1>5 DEF BlocksOfAnchor

\* The anchor is refreshed at the beginning of a handover window, but not in it.
LEMMA AnchorBuild ==
    ASSUME RoomContext, Build
    PROVE  BlocksOfAnchor'
  <1> DEFINE e == Here.epoch
  <1>1. /\ UNCHANGED <<now, pc>> /\ ~built /\ built' = TRUE
        /\ anchor' = anchor \/ (anchor' = now /\ AnchorIsDue(Here.slot))
    BY DEF Build, loop
  <1>2. /\ \A k \in DOMAIN chain : chain'[k] = chain[k]
        /\ \A k \in DOMAIN chain' \ DOMAIN chain :
              chain'[k].slot = now /\ chain'[k].anchor = anchor'
    BY RoomFacts, BuildGrows
  <1>3. \A n \in DOMAIN chain : chain[n].slot < now
    BY <1>1, RoomFacts DEF BlocksOfAnchor
  <1>4. now \in Nat /\ Here.slot \in 0..(SlotsPerEpoch - 1) /\ e \in Nat
    BY RoomFacts, HereNow
  <1>5. ASSUME NEW n \in DOMAIN chain, chain[n].operator = Me, chain[n].anchor # anchor'
        PROVE  chain[n].slot < anchor'
    BY <1>1, <1>3, <1>5, RoomFacts DEF BlocksOfAnchor
  <1>6. ASSUME NEW n \in DOMAIN chain, chain[n].operator = Me, WindowOf(n) = e + 1
        PROVE  chain[n].anchor = anchor'
    <2>1. WithinHandoverPeriod(Here.slot) /\ HandoverStart <= chain[n].slot
      BY <1>6, RoomFacts, NextWindow
    <2>2. chain[n].anchor = anchor
      BY <1>6, RoomFacts DEF BlocksOfAnchor
    <2>3. SUFFICES ASSUME AnchorIsDue(Here.slot) PROVE FALSE
      BY <1>1, <2>2
    <2>4. Here.slot = SlotsPerEpoch - HandoverSlots
      <3>1. SlotsPerEpoch \in Nat /\ HandoverSlots \in Nat
        BY RoomFacts, LayoutTypes
      <3>2. ~(Here.slot > SlotsPerEpoch - HandoverSlots)
        BY <1>4, <2>3, RoomFacts, DueInHandover
      <3> QED
        BY <1>4, <2>1, <3>1, <3>2 DEF WithinHandoverPeriod
    <2>5. HandoverStart = now
      <3>1. SlotsPerEpoch \in Nat /\ HandoverSlots \in Nat
        BY RoomFacts, LayoutTypes
      <3> QED
        BY <1>4, <2>4, <3>1 DEF HandoverStart
    <2>6. chain[n].slot \in Nat /\ chain[n].slot < now
      BY <1>3, RoomFacts, BlockFields
    <2> QED
      BY <1>4, <2>1, <2>5, <2>6
  <1>7. (Here.epoch)' = e
    BY <1>1 DEF Here, At
  <1>8. \A n \in DOMAIN chain : WindowOf(n)' = WindowOf(n)
    BY <1>2 DEF WindowOf, WindowEpoch, At
  <1>9. pc = "boot" => \A n \in DOMAIN chain' : chain'[n].slot = now
    <2>1. ASSUME pc = "boot", NEW n \in DOMAIN chain PROVE FALSE
      <3>1. chain[n].slot = now /\ chain[n].slot < now
        BY <1>3, <2>1, RoomFacts DEF BlocksOfAnchor
      <3> QED
        BY <1>4, <3>1
    <2> QED
      BY <1>2, <2>1
  <1>10. ASSUME NEW n \in DOMAIN chain', chain'[n].operator = Me
         PROVE  /\ chain'[n].anchor # anchor' => chain'[n].slot < anchor'
                /\ WindowOf(n)' = (Here.epoch)' + 1 => chain'[n].anchor = anchor'
    <2>1. CASE n \in DOMAIN chain
      <3>1. chain'[n] = chain[n] /\ WindowOf(n)' = WindowOf(n)
        BY <1>2, <1>8, <2>1
      <3> HIDE DEF e
      <3> QED
        BY <1>5, <1>6, <1>7, <1>10, <2>1, <3>1
    <2>2. CASE n \notin DOMAIN chain
      BY <1>2, <1>10, <2>2
    <2> QED
      BY <2>1, <2>2
  <1> QED
    BY <1>1, <1>9, <1>10 DEF BlocksOfAnchor

-----------------------------------------------------------------------------
(* The end of an epoch.                                                    *)

\* Every bounded set of natural numbers has a greatest one.
LEMMA GreatestNumber ==
    ASSUME NEW bound \in Nat, NEW T \in SUBSET (0..bound), T # {}
    PROVE  Max(T) \in T /\ \A y \in T : y <= Max(T)
  <1> DEFINE U == {d \in 0..bound : bound - d \in T}
             k == Min(U)
  <1>1. U \in SUBSET Nat
    OBVIOUS
  <1>2. \A y \in T : y \in Nat /\ y <= bound /\ bound - y \in U
    <2>1. SUFFICES ASSUME NEW y \in T PROVE y \in Nat /\ y <= bound /\ bound - y \in U
      OBVIOUS
    <2>2. y \in Nat /\ y <= bound
      OBVIOUS
    <2>3. bound - y \in 0..bound /\ bound - (bound - y) = y
      BY <2>2
    <2> QED
      BY <2>2, <2>3
  <1>3. k \in U /\ \A d \in U : k <= d
    <2>1. U # {}
      BY <1>2
    <2> HIDE DEF U
    <2> QED
      BY <1>1, <2>1, LeastNumber
  <1>4. k \in Nat /\ bound - k \in T
    BY <1>3
  <1> HIDE DEF U, k
  <1>5. \A y \in T : y <= bound - k
    <2>1. SUFFICES ASSUME NEW y \in T PROVE y <= bound - k
      OBVIOUS
    <2>2. y \in Nat /\ k <= bound - y
      BY <1>2, <1>3
    <2> QED
      BY <1>4, <2>2
  <1>6. \E x \in T : \A y \in T : x >= y
    <2>1. \A y \in T : bound - k >= y
      BY <1>2, <1>4, <1>5
    <2> QED
      BY <1>4, <2>1
  <1>7. Max(T) \in T /\ \A y \in T : Max(T) >= y
    BY <1>6 DEF Max
  <1>8. \A y \in T : y \in Nat
    BY <1>2
  <1> QED
    BY <1>7, <1>8

\* A batch of the next blocks adds them to the blocks that L1 has.
LEMMA BatchOfNext ==
    ASSUME TypeInv, \A n \in 1..LastBlock : Proposed(n),
           NEW B, B \subseteq DOMAIN chain, B = (LastBlock + 1)..(LastBlock + Cardinality(B)),
           inbox' = WithBatch(B)
    PROVE  /\ LastBlock' = LastBlock + Cardinality(B) /\ Cardinality(B) \in Nat
           /\ \A n \in 1..LastBlock' : Proposed(n)'
  <1>1. /\ Len(WithBatch(B)) = Len(inbox) + 1
        /\ \A i \in DOMAIN inbox : WithBatch(B)[i] = inbox[i]
        /\ WithBatch(B)[Len(inbox) + 1].blocks = B
        /\ Cardinality(B) \in Nat
        /\ LastId(WithBatch(B)) = LastBlock + Cardinality(B)
        /\ WithBatch(B) \in Seq(BatchType)
    BY BatchAppended DEF LastBlock
  <1>2. /\ LastBlock \in Nat /\ Len(inbox) \in Nat /\ DOMAIN inbox = 1..Len(inbox)
    BY LastBlockType
  <1>3. LastBlock' = LastBlock + Cardinality(B)
    BY <1>1 DEF LastBlock
  <1>4. DOMAIN inbox' = 1..(Len(inbox) + 1)
    BY <1>1
  <1>5. ASSUME NEW n \in 1..LastBlock PROVE Proposed(n)'
    <2>1. PICK i \in DOMAIN inbox : n \in inbox[i].blocks
      BY DEF Proposed
    <2>2. i \in DOMAIN inbox' /\ inbox'[i] = inbox[i]
      BY <1>1, <1>2, <1>4
    <2> QED
      BY <2>1, <2>2 DEF Proposed
  <1>6. ASSUME NEW n \in B PROVE Proposed(n)'
    <2>1. Len(inbox) + 1 \in DOMAIN inbox' /\ n \in inbox'[Len(inbox) + 1].blocks
      BY <1>1, <1>2, <1>4
    <2> QED
      BY <2>1 DEF Proposed
  <1>7. \A n \in 1..(LastBlock + Cardinality(B)) : n \in 1..LastBlock \/ n \in B
    BY <1>1, <1>2
  <1> QED
    BY <1>1, <1>3, <1>5, <1>6, <1>7

\* A step within a slot that neither builds nor gets an L1 block.
LEMMA LeftSame ==
    ASSUME NothingLeft, UNCHANGED <<now, schedule, chain, included, inbox>>
    PROVE  NothingLeft'
  BY DEF NothingLeft, LastBlock, LastId, Proposed, WindowOf, WindowEpoch, InTurn, Here, At,
         LastSlotOfEpoch

\* An epoch of this preconfer ends with all blocks of its window and the ones
\* before in the inbox: its handover window is longer than a proposal takes.
LEMMA LeftTick ==
    ASSUME RoomContext, Tick
    PROVE  NothingLeft'
  <1> DEFINE S == SlotsPerEpoch
             H == HandoverSlots
             e == Here.epoch
             s == Here.slot
             start == StartedIn
             chance == NextChance
  <1>1. /\ now' = now + 1 /\ included /\ included' = FALSE
        /\ thread.at = "ended" \/ thread.at = "waiting"
        /\ UNCHANGED <<schedule, chain, inbox>>
    BY SlotEnds
  <1>2. /\ S \in Nat /\ H \in Nat /\ 3 <= H /\ H < S
        /\ now \in Nat /\ e \in Nat /\ s \in 0..(S - 1)
    BY LayoutTypes, HereNow, RoomFacts
  <1>3. LastBlock' = LastBlock /\ \A n : Proposed(n)' = Proposed(n)
    BY <1>1 DEF LastBlock, LastId, Proposed
  <1>4. \A n \in DOMAIN chain : WindowOf(n)' = WindowOf(n)
    BY <1>1 DEF WindowOf, WindowEpoch, At
  <1>5. \A n \in DOMAIN chain : n > LastBlock => WindowOf(n) >= e /\ WindowOf(n) \in Nat
    BY RoomFacts, WindowFacts DEF NothingLeft
  <1>6. CASE s # S - 1
    <2>1. (Here.epoch)' = e
      BY <1>1, <1>6, PositionAfter, RoomFacts
    <2> HIDE DEF e
    <2> QED
      BY <1>1, <1>3, <1>4, <1>5, <2>1, RoomFacts DEF NothingLeft
  <1>7. CASE s = S - 1
    <2>1. (Here.epoch)' = e + 1
      BY <1>1, <1>7, PositionAfter, RoomFacts
    <2>2. ASSUME NEW n \in DOMAIN chain, n > LastBlock, WindowOf(n) = e
          PROVE  FALSE
      <3>1. InTurn
        <4>1. SUFFICES ASSUME ~InTurn PROVE FALSE
          OBVIOUS
        <4>2. WindowOf(n) > e
          BY <1>1, <1>7, <2>2, <4>1, RoomFacts DEF NothingLeft, LastSlotOfEpoch
        <4> QED
          BY <1>2, <2>2, <4>2
      <3>2. HandoverStart = now - s + S - H /\ WithinHandoverPeriod(s)
        BY <1>2, <1>7 DEF HandoverStart, WithinHandoverPeriod
      <3>3. WithinHandover
        BY <3>1, <3>2, RoomFacts DEF Deadline
      <3>4. /\ start \in Int /\ start <= now /\ chance \in Int /\ now <= chance
        BY PaceTypes, RoomFacts
      <3>5. CASE n \in UNION InFlight
        <4>1. start <= HandoverStart + 1
          BY <2>2, <3>3, <3>5 DEF WithinHandover
        <4>2. pool # {}
          BY <1>1, <3>5 DEF InFlight
        <4>3. now <= start
          BY <1>1, <4>2, Pending, RoomFacts
        <4> HIDE DEF S, H, e, s, start, chance
        <4>4. HandoverStart + 1 = now + 2 - H
          BY <1>2, <1>7, <3>2
        <4> QED
          BY <1>2, <3>4, <4>1, <4>3, <4>4
      <3>6. CASE n \notin UNION InFlight
        <4>1. n \in Unsent
          BY <2>2, <3>6 DEF Unsent
        <4>2. chance <= HandoverStart + 1
          BY <3>3, <4>1 DEF WithinHandover
        <4> HIDE DEF S, H, e, s, start, chance
        <4>3. HandoverStart + 1 = now + 2 - H
          BY <1>2, <1>7, <3>2
        <4> QED
          BY <1>2, <3>4, <4>2, <4>3
      <3> QED
        BY <3>5, <3>6
    <2>3. \A n \in DOMAIN chain : n > LastBlock => WindowOf(n) >= e + 1
      <3>1. SUFFICES ASSUME NEW n \in DOMAIN chain, n > LastBlock PROVE WindowOf(n) >= e + 1
        OBVIOUS
      <3>2. WindowOf(n) >= e /\ WindowOf(n) \in Nat /\ WindowOf(n) # e
        BY <1>5, <2>2, <3>1
      <3> HIDE DEF e
      <3> QED
        BY <1>2, <3>2
    <2> HIDE DEF e
    <2> QED
      BY <1>1, <1>3, <1>4, <2>1, <2>3, RoomFacts DEF NothingLeft
  <1> QED
    BY <1>6, <1>7

\* What is built is of the window that has begun.
LEMMA LeftBuild ==
    ASSUME RoomContext, Build
    PROVE  NothingLeft'
  <1> DEFINE e == Here.epoch
  <1>1. UNCHANGED <<now, schedule, included, inbox>>
    BY DEF Build, l1
  <1>2. /\ \A k \in DOMAIN chain : chain'[k] = chain[k]
        /\ \A k \in DOMAIN chain' \ DOMAIN chain : chain'[k].slot = now
    BY RoomFacts, BuildGrows
  <1>3. LastBlock' = LastBlock /\ \A n : Proposed(n)' = Proposed(n)
    BY <1>1 DEF LastBlock, LastId, Proposed
  <1>4. /\ (Here.epoch)' = e /\ (InTurn' <=> InTurn)
        /\ (LastSlotOfEpoch' <=> LastSlotOfEpoch)
    BY <1>1 DEF Here, At, InTurn, LastSlotOfEpoch
  <1>5. /\ e \in Nat /\ WindowEpoch(Here) >= e
        /\ LastSlotOfEpoch => WindowEpoch(Here) > e
    <2>1. e \in Nat /\ SlotsPerEpoch \in Nat /\ HandoverSlots \in Nat /\ 3 <= HandoverSlots
      BY RoomFacts, HereNow, LayoutTypes
    <2>2. LastSlotOfEpoch => WithinHandoverPeriod(Here.slot)
      BY <2>1 DEF LastSlotOfEpoch, WithinHandoverPeriod
    <2> QED
      BY <2>1, <2>2 DEF WindowEpoch
  <1>6. \A n \in DOMAIN chain : WindowOf(n)' = WindowOf(n)
    BY <1>2 DEF WindowOf, WindowEpoch, At
  <1>7. \A n \in DOMAIN chain' \ DOMAIN chain : WindowOf(n)' = WindowEpoch(Here)
    BY <1>2 DEF WindowOf, WindowEpoch, Here, At
  <1>8. \A n \in DOMAIN chain : n > LastBlock =>
           /\ WindowOf(n) >= e
           /\ ~InTurn /\ LastSlotOfEpoch /\ included => WindowOf(n) > e
    BY RoomFacts DEF NothingLeft
  <1>9. \A n \in DOMAIN chain' : n > LastBlock =>
           /\ WindowOf(n)' >= e
           /\ ~InTurn /\ LastSlotOfEpoch /\ included => WindowOf(n)' > e
    <2> HIDE DEF e
    <2> QED
      BY <1>5, <1>6, <1>7, <1>8
  <1> HIDE DEF e
  <1> QED
    BY <1>1, <1>3, <1>4, <1>9, RoomFacts DEF NothingLeft

\* Another operator's epoch ends with all of its own blocks in the inbox.
LEMMA OthersTakeAll ==
    ASSUME TypeInv, ChainInv, NothingLeft, ~InTurn, LastSlotOfEpoch, ProposeOthers,
           NEW n \in DOMAIN chain, n > LastBlock, WindowOf(n) = Here.epoch
    PROVE  \E last \in OthersBatches : n <= last /\ inbox' = WithBatch((LastBlock + 1)..last)
  <1> DEFINE e == Here.epoch
  <1>1. /\ LastBlock \in Nat /\ Len(chain) \in Nat /\ DOMAIN chain = 1..Len(chain)
        /\ e \in Nat /\ n \in Nat
    BY LastBlockType, BlockFields, HereNow
  <1>2. \A m \in (LastBlock + 1)..n : chain[m].operator = schedule[e]
    <2>1. SUFFICES ASSUME NEW m \in (LastBlock + 1)..n PROVE chain[m].operator = schedule[e]
      OBVIOUS
    <2>2. m \in DOMAIN chain /\ m <= n /\ m > LastBlock
      BY <1>1
    <2>3. WindowOf(m) <= e /\ WindowOf(m) >= e /\ WindowOf(m) \in Nat
      BY <2>2, WindowOrder, WindowFacts DEF NothingLeft
    <2>4. chain[m].operator = schedule[WindowOf(m)]
      BY <2>2, WindowFacts
    <2>5. WindowOf(m) = e
      <3> HIDE DEF e
      <3> QED
        BY <1>1, <2>3
    <2> QED
      BY <2>4, <2>5
  <1>3. n \in OthersBatches
    <2>1. n \in (LastBlock + 1)..Len(chain)
      BY <1>1
    <2> QED
      BY <1>2, <2>1 DEF OthersBatches, LastBlock
  <1>4. OthersBatches \in SUBSET (0..Len(chain))
    BY <1>1 DEF OthersBatches, LastBlock
  <1>5. n <= Max(OthersBatches)
    BY <1>1, <1>3, <1>4, GreatestNumber
  <1> QED
    BY <1>3, <1>5 DEF ProposeOthers, LastBlock

\* An L1 block takes the next blocks, in the last slot of another operator's
\* epoch all of it.
LEMMA LeftL1 ==
    ASSUME RoomContext, TypeInv', L1Block
    PROVE  NothingLeft' /\ LastBlock <= LastBlock'
  <1> DEFINE e == Here.epoch
  <1>1. UNCHANGED <<now, schedule, chain>> /\ (~InTurn => ProposeOthers)
    BY DEF L1Block, l2
  <1>2. LastBlock \in Nat /\ LastBlock' \in Nat /\ e \in Nat
    BY RoomFacts, LastBlockType, PrimedTypes, HereNow
  <1>3. /\ (Here.epoch)' = e /\ (InTurn' <=> InTurn)
        /\ (LastSlotOfEpoch' <=> LastSlotOfEpoch)
        /\ \A n \in DOMAIN chain : WindowOf(n)' = WindowOf(n)
    BY <1>1 DEF Here, At, InTurn, LastSlotOfEpoch, WindowOf, WindowEpoch
  <1>4. /\ \A n \in 1..LastBlock : Proposed(n)
        /\ \A n \in DOMAIN chain : n > LastBlock => WindowOf(n) >= e
    BY RoomFacts DEF NothingLeft
  <1>5. \/ inbox' = inbox
        \/ \E B \in SUBSET DOMAIN chain :
              B = (LastBlock + 1)..(LastBlock + Cardinality(B)) /\ inbox' = WithBatch(B)
    <2>1. CASE inbox' = inbox
      BY <2>1
    <2>2. CASE InTurn /\ inbox' # inbox
      <3>1. pool # {}
        BY <2>2, TakesPending
      <3>2. PICK tx \in pool : InFlight = {tx.blocks} /\ inbox' = WithBatch(tx.blocks)
        BY <3>1, TakesPending
      <3>3. /\ tx.blocks = (LastBlock + 1)..(LastBlock + Cardinality(tx.blocks))
            /\ tx.blocks \subseteq DOMAIN chain
        BY <3>2, RoomFacts, FlightIsNext
      <3> QED
        BY <3>2, <3>3
    <2>3. CASE ~InTurn /\ inbox' # inbox
      <3>1. PICK last \in OthersBatches : inbox' = WithBatch((LastBlock + 1)..last)
        BY <1>1, <2>3 DEF ProposeOthers, LastBlock
      <3> DEFINE B == (LastBlock + 1)..last
      <3>2. B \subseteq DOMAIN chain /\ LastBlock + Cardinality(B) = last
        BY <2>3, <3>1, RoomFacts, OthersAreNext
      <3>3. B = (LastBlock + 1)..(LastBlock + Cardinality(B))
        BY <3>2
      <3>4. inbox' = WithBatch(B)
        BY <3>1
      <3> HIDE DEF B
      <3> QED
        BY <3>2, <3>3, <3>4
    <2> QED
      BY <2>1, <2>2, <2>3
  <1>6. LastBlock <= LastBlock' /\ \A n \in 1..LastBlock' : Proposed(n)'
    <2>1. CASE inbox' = inbox
      <3>1. LastBlock' = LastBlock /\ \A n : Proposed(n)' = Proposed(n)
        BY <2>1 DEF LastBlock, LastId, Proposed
      <3> QED
        BY <1>2, <1>4, <3>1
    <2>2. ASSUME NEW B \in SUBSET DOMAIN chain,
                 B = (LastBlock + 1)..(LastBlock + Cardinality(B)), inbox' = WithBatch(B)
          PROVE  LastBlock <= LastBlock' /\ \A n \in 1..LastBlock' : Proposed(n)'
      <3>1. /\ LastBlock' = LastBlock + Cardinality(B) /\ Cardinality(B) \in Nat
            /\ \A n \in 1..LastBlock' : Proposed(n)'
        BY <1>4, <2>2, RoomFacts, BatchOfNext
      <3> QED
        BY <1>2, <3>1
    <2> QED
      BY <1>5, <2>1, <2>2
  <1>7. ASSUME NEW n \in DOMAIN chain, n > LastBlock'
        PROVE  /\ WindowOf(n) >= e
               /\ ~InTurn /\ LastSlotOfEpoch => WindowOf(n) > e
    <2>1. n > LastBlock
      <3>1. n \in Nat
        BY RoomFacts, BlockFields
      <3> QED
        BY <1>2, <1>6, <1>7, <3>1
    <2>2. WindowOf(n) >= e /\ WindowOf(n) \in Nat
      BY <1>4, <2>1, RoomFacts, WindowFacts
    <2>3. ASSUME ~InTurn, LastSlotOfEpoch, WindowOf(n) = e PROVE FALSE
      <3>1. PICK last \in OthersBatches :
               n <= last /\ inbox' = WithBatch((LastBlock + 1)..last)
        BY <1>1, <2>1, <2>3, RoomFacts, OthersTakeAll
      <3>2. LastBlock + Cardinality((LastBlock + 1)..last) = last
        BY <2>3, RoomFacts, OthersAreNext
      <3>3. LastBlock' = last
        <4>1. (LastBlock + 1)..last \subseteq DOMAIN chain
          BY <2>3, RoomFacts, OthersAreNext
        <4>2. LastId(WithBatch((LastBlock + 1)..last))
                 = LastBlock + Cardinality((LastBlock + 1)..last)
          BY <4>1, RoomFacts, BatchAppended DEF LastBlock
        <4> QED
          BY <3>1, <3>2, <4>2 DEF LastBlock
      <3>4. n \in Nat
        BY RoomFacts, BlockFields
      <3> QED
        BY <1>2, <1>7, <3>1, <3>3, <3>4
    <2> HIDE DEF e
    <2> QED
      BY <1>2, <2>2, <2>3
  <1> HIDE DEF e
  <1> QED
    BY <1>1, <1>3, <1>6, <1>7 DEF NothingLeft

-----------------------------------------------------------------------------
(* Blocks that wait to be sent.                                            *)

\* A step that touches none of it.
LEMMA DeadlineSame ==
    ASSUME Deadline,
           UNCHANGED <<now, schedule, chain, anchor, built, iterated, thread, pool, inbox>>
    PROVE  Deadline'
  BY DEF Deadline, WithinHandover, BeforeHandover, Unsent, OldUnsent, InFlight, LastBlock, LastId,
         NextChance, StartedIn, HandoverStart, WindowOf, WindowEpoch, InTurn, Here, At

\* A step after which no block more waits and the thread's end is no later.
LEMMA DeadlineKept ==
    ASSUME TypeInv, Deadline, UNCHANGED <<now, schedule, chain, anchor, built>>,
           Unsent' \subseteq Unsent, UNION InFlight' \subseteq UNION InFlight,
           NextChance \in Int, NextChance' \in Int, NextChance' <= NextChance,
           thread'.at # "ended" => thread.at # "ended" /\ StartedIn' = StartedIn,
           thread'.at = "ended" => UNION InFlight' = {}
    PROVE  Deadline'
  <1> DEFINE e == Here.epoch
             chance == NextChance
  <1>1. /\ (Here.epoch)' = e /\ (Here.slot)' = Here.slot /\ (InTurn' <=> InTurn)
        /\ HandoverStart' = HandoverStart
        /\ \A n \in DOMAIN chain : WindowOf(n)' = WindowOf(n)
    BY DEF Here, At, InTurn, HandoverStart, WindowOf, WindowEpoch
  <1>2. /\ OldUnsent' \subseteq OldUnsent /\ Unsent \subseteq DOMAIN chain
        /\ OldUnsent \subseteq DOMAIN chain
    BY DEF OldUnsent, Unsent
  <1>3. now \in Nat /\ anchor \in Nat /\ HandoverStart \in Int
    <2>1. now \in Nat /\ anchor \in Nat /\ Here.slot \in 0..(SlotsPerEpoch - 1)
      BY HereNow, BlockFields
    <2> QED
      BY <2>1, SlotsAssumption DEF HandoverStart
  <1>4. PICK later \in Int : NextChance' = later
    OBVIOUS
  <1> HIDE DEF chance
  <1>5. chance \in Int /\ later <= chance
    BY <1>4 DEF chance
  <1>6. SUFFICES ASSUME InTurn
                 PROVE  IF WithinHandoverPeriod(Here.slot) THEN WithinHandover' ELSE BeforeHandover'
    BY <1>1 DEF Deadline
  <1>7. CASE WithinHandoverPeriod(Here.slot)
    <2>1. /\ \A m, n \in Unsent : chain[m].anchor = chain[n].anchor
          /\ Unsent # {} => chance <= HandoverStart + 1
          /\ \A n \in UNION InFlight : WindowOf(n) = e => StartedIn <= HandoverStart + 1
      BY <1>6, <1>7 DEF Deadline, WithinHandover, chance
    <2>2. Unsent' # {} => later <= HandoverStart + 1
      BY <1>3, <1>5, <2>1
    <2>3. ASSUME NEW n \in UNION InFlight', WindowOf(n)' = e
          PROVE  StartedIn' <= HandoverStart + 1
      <3>1. n \in UNION InFlight /\ StartedIn' = StartedIn
        BY <2>3
      <3>2. n \in UNION InFlight => WindowOf(n)' = WindowOf(n)
        BY DEF WindowOf, WindowEpoch, At
      <3> QED
        BY <2>1, <2>3, <3>1, <3>2
    <2> HIDE DEF e
    <2>4. WithinHandover'
      BY <1>1, <1>4, <2>1, <2>2, <2>3 DEF WithinHandover
    <2> QED
      BY <1>7, <2>4
  <1>8. CASE ~WithinHandoverPeriod(Here.slot)
    <2>1. /\ OldUnsent # {} => /\ AnchorIsDue(At(anchor).slot)
                               /\ chance <= anchor + 2
                               /\ ~built => anchor < now
          /\ \A m, n \in OldUnsent : chain[m].anchor = chain[n].anchor
          /\ thread.at # "ended" /\ StartedIn = now /\ ~built /\ AnchorIsDue(Here.slot) =>
                Unsent = {}
      BY <1>6, <1>8 DEF Deadline, BeforeHandover, chance
    <2>2. OldUnsent' # {} => later <= anchor + 2
      BY <1>2, <1>3, <1>5, <2>1
    <2>3. /\ OldUnsent' # {} => /\ AnchorIsDue(At(anchor).slot)
                                /\ ~built => anchor < now
          /\ \A m, n \in OldUnsent' : chain[m].anchor = chain[n].anchor
          /\ thread'.at # "ended" /\ StartedIn' = now /\ ~built /\ AnchorIsDue(Here.slot) =>
                Unsent' = {}
      BY <1>2, <2>1
    <2>4. BeforeHandover'
      BY <1>1, <1>4, <2>2, <2>3 DEF BeforeHandover, At
    <2> QED
      BY <1>8, <2>4
  <1> QED
    BY <1>7, <1>8

\* The steps of the thread.
LEMMA DeadlineThread ==
    ASSUME RoomContext, TypeInv',
           ReadParent \/ ReadNonce \/ EstimateGas \/ Submit \/ Receipt \/ TimesOut
    PROVE  Deadline'
  <1>1. UNCHANGED <<now, schedule, chain, anchor, built, iterated, inbox>>
    BY DEF ReadParent, ReadNonce, EstimateGas, Submit, Receipt, TimesOut, l2, loop, l1
  <1>2. /\ NextChance \in Int /\ now \in Nat /\ StartedIn \in Int
        /\ thread.at # "ended" => NextChance = StartedIn + 3
    BY RoomFacts, PaceTypes, HereNow
  <1>3. InFlight' = InFlight => Unsent' = Unsent
    BY <1>1 DEF Unsent, LastBlock, LastId, WindowOf, WindowEpoch, Here, At
  <1>4. CASE ReadParent \/ ReadNonce \/ EstimateGas \/ Submit
    <2>1. /\ InFlight' = InFlight /\ thread.at \in {"started", "pricing"}
          /\ thread'.at \in {"pricing", "waiting"} /\ StartedIn' = now
      <3>1. CASE ReadParent \/ ReadNonce \/ EstimateGas
        <4>1. thread.at \in {"started", "pricing"}
          BY <3>1 DEF ReadParent, ReadNonce, EstimateGas
        <4>2. InFlight' = InFlight /\ thread'.at = "pricing"
          BY <3>1, PaceProposing
        <4>3. StartedIn' = now
          BY <1>1, <4>2 DEF StartedIn
        <4> QED
          BY <4>1, <4>2, <4>3
      <3>2. CASE Submit
        BY <3>2, PaceSubmit
      <3> QED
        BY <1>4, <3>1, <3>2
    <2>2. StartedIn = now
      BY <2>1 DEF StartedIn
    <2>3. NextChance' = now + 3 /\ NextChance = now + 3
      BY <1>2, <2>1, <2>2 DEF NextChance
    <2> QED
      BY <1>1, <1>2, <1>3, <2>1, <2>2, <2>3, RoomFacts, DeadlineKept
  <1>5. CASE Receipt \/ TimesOut
    <2>1. pool = {} /\ pool' = {} /\ thread'.at = "ended" /\ thread.at = "waiting"
      BY <1>5, PaceWaitEnds DEF Receipt, TimesOut, l1
    <2>2. InFlight' = {} /\ InFlight = {}
      BY <2>1 DEF InFlight
    <2>3. NextChance' = (IF iterated THEN now + 1 ELSE now) /\ NextChance = StartedIn + 3
      BY <1>1, <1>2, <2>1 DEF NextChance
    <2>4. now <= StartedIn + 2
      BY <2>1, RoomFacts DEF ThreadPace
    <2>5. NextChance' <= NextChance /\ NextChance' \in Int
      BY <1>2, <2>3, <2>4
    <2> QED
      BY <1>1, <1>2, <1>3, <2>1, <2>2, <2>5, RoomFacts, DeadlineKept
  <1> QED
    BY <1>4, <1>5

\* An L1 block takes only blocks that are on their way.
LEMMA DeadlineL1 ==
    ASSUME RoomContext, TypeInv', L1Block
    PROVE  Deadline'
  <1>1. UNCHANGED <<now, schedule, chain, anchor, built, iterated>>
    BY DEF L1Block, l2, loop
  <1>2. /\ NextChance \in Int /\ StartedIn' = StartedIn
        /\ UNION InFlight' \subseteq UNION InFlight /\ pool' = {}
    BY RoomFacts, PaceTypes, PaceL1, TakesPending
  <1>3. thread'.at = thread.at
    BY TakesPending
  <1>4. NextChance' = NextChance
    BY <1>1, <1>2, <1>3 DEF NextChance
  <1>5. thread'.at = "ended" => UNION InFlight' = {}
    BY <1>2 DEF InFlight
  <1>6. /\ LastBlock \in Nat /\ LastBlock' \in Nat /\ LastBlock <= LastBlock'
        /\ \A n \in DOMAIN chain : n \in Nat
    BY RoomFacts, LastBlockType, PrimedTypes, LeftL1, BlockFields
  <1>7. Unsent' \subseteq Unsent
    <2>1. SUFFICES ASSUME NEW n \in Unsent' PROVE n \in Unsent
      OBVIOUS
    <2>2. /\ n \in DOMAIN chain /\ n > LastBlock' /\ WindowOf(n) = Here.epoch
          /\ n \notin UNION InFlight'
      BY <1>1, <2>1 DEF Unsent, WindowOf, WindowEpoch, Here, At
    <2>3. n > LastBlock
      BY <1>6, <2>2
    <2>4. n \notin UNION InFlight
      <3>1. CASE pool = {}
        <4>1. thread' = thread /\ pool' = pool
          BY <3>1, TakesPending
        <4>2. InFlight' = InFlight
          BY <4>1 DEF InFlight
        <4> QED
          BY <2>2, <4>2
      <3>2. CASE pool # {}
        <4>1. PICK tx \in pool : InFlight = {tx.blocks} /\ inbox' = WithBatch(tx.blocks)
          BY <3>2, TakesPending
        <4>2. SUFFICES ASSUME n \in tx.blocks PROVE FALSE
          BY <4>1
        <4>3. /\ tx.blocks = (LastBlock + 1)..(LastBlock + Cardinality(tx.blocks))
              /\ tx.blocks \subseteq DOMAIN chain /\ Cardinality(tx.blocks) \in Nat
          BY <4>1, RoomFacts, FlightIsNext
        <4>4. LastId(WithBatch(tx.blocks)) = LastBlock + Cardinality(tx.blocks)
          BY <4>3, RoomFacts, BatchAppended DEF LastBlock
        <4>5. LastBlock' = LastBlock + Cardinality(tx.blocks)
          BY <4>1, <4>4 DEF LastBlock
        <4>6. n <= LastBlock + Cardinality(tx.blocks)
          BY <1>6, <4>2, <4>3
        <4> QED
          BY <1>6, <2>2, <4>3, <4>5, <4>6
      <3> QED
        BY <3>1, <3>2
    <2> QED
      BY <2>2, <2>3, <2>4 DEF Unsent
  <1>8. NextChance' \in Int /\ NextChance' <= NextChance
    BY <1>2, <1>4
  <1> QED
    BY <1>1, <1>2, <1>3, <1>5, <1>7, <1>8, RoomFacts, DeadlineKept

\* What waits in an epoch of this preconfer is its own.
LEMMA OwnUnsent ==
    ASSUME TypeInv, ChainInv, InTurn, NEW n \in Unsent
    PROVE  n \in DOMAIN chain /\ chain[n].operator = Me /\ n > LastBlock
           /\ WindowOf(n) = Here.epoch
  BY WindowFacts DEF Unsent, InTurn

\* When the process starts, no block is of a slot before.
LEMMA DeadlineBoot ==
    ASSUME RoomContext, Boot
    PROVE  Deadline'
  <1>1. /\ UNCHANGED <<now, schedule, chain, anchor, built, thread, pool, inbox>> /\ pc = "boot"
    BY DEF Boot, l2, l1
  <1>2. thread.at = "ended" /\ pool = {}
    BY <1>1, RoomFacts DEF LoopPace, PoolInv
  <1>3. \A n \in DOMAIN chain : chain[n].slot = now
    BY <1>1, RoomFacts DEF BlocksOfAnchor
  <1>4. /\ Unsent' = Unsent /\ OldUnsent' = OldUnsent /\ (InTurn' <=> InTurn)
        /\ (Here.slot)' = Here.slot /\ InFlight' = {}
    BY <1>1, <1>2 DEF Unsent, OldUnsent, InFlight, LastBlock, LastId, WindowOf, WindowEpoch, InTurn,
                      Here, At
  <1>5. SUFFICES ASSUME InTurn
                 PROVE  IF WithinHandoverPeriod(Here.slot) THEN WithinHandover' ELSE BeforeHandover'
    BY <1>4 DEF Deadline
  <1>6. CASE WithinHandoverPeriod(Here.slot)
    <2>1. Unsent = {}
      <3>1. SUFFICES ASSUME NEW n \in Unsent PROVE FALSE
        OBVIOUS
      <3>2. WindowOf(n) = Here.epoch /\ WindowOf(n) = WindowEpoch(Here) /\ Here.epoch \in Nat
        BY <1>3, <1>5, RoomFacts, OwnUnsent, WindowFacts, HereNow
      <3> QED
        BY <1>6, <3>2 DEF WindowEpoch
    <2> QED
      BY <1>4, <1>6, <2>1 DEF WithinHandover
  <1>7. CASE ~WithinHandoverPeriod(Here.slot)
    <2>1. OldUnsent = {}
      <3>1. SUFFICES ASSUME NEW n \in OldUnsent PROVE FALSE
        OBVIOUS
      <3>2. n \in DOMAIN chain /\ chain[n].operator = Me /\ chain[n].anchor # anchor
        BY <1>5, <3>1, RoomFacts, OwnUnsent DEF OldUnsent
      <3>3. chain[n].slot < anchor /\ chain[n].slot = now
        BY <1>3, <3>2, RoomFacts DEF BlocksOfAnchor
      <3>4. anchor <= now /\ anchor \in Nat /\ now \in Nat
        BY RoomFacts, BlockFields, HereNow DEF AnchorInv
      <3> QED
        BY <3>3, <3>4
    <2> QED
      BY <1>1, <1>2, <1>4, <1>7, <2>1 DEF BeforeHandover
  <1> QED
    BY <1>6, <1>7

\* When the anchor is refreshed, all blocks with the one before the last are on
\* their way, and the thread ends in time to send the ones with the last.
LEMMA DeadlineBuild ==
    ASSUME RoomContext, Build
    PROVE  Deadline'
  <1> DEFINE e == Here.epoch
             chance == NextChance
  <1>1. /\ UNCHANGED <<now, schedule, thread, pool, inbox, iterated>> /\ ~built /\ built' = TRUE
        /\ anchor' = anchor \/ (anchor' = now /\ AnchorIsDue(Here.slot))
    BY DEF Build, loop, l1
  <1>2. /\ \A k \in DOMAIN chain : chain'[k] = chain[k]
        /\ \A k \in DOMAIN chain' \ DOMAIN chain :
              chain'[k].slot = now /\ chain'[k].anchor = anchor'
    BY RoomFacts, BuildGrows
  <1>3. /\ (Here.epoch)' = e /\ (Here.slot)' = Here.slot /\ (InTurn' <=> InTurn)
        /\ HandoverStart' = HandoverStart /\ LastBlock' = LastBlock
        /\ InFlight' = InFlight /\ NextChance' = chance /\ StartedIn' = StartedIn
    BY <1>1 DEF Here, At, InTurn, HandoverStart, LastBlock, LastId, InFlight, NextChance, StartedIn
  <1>4. /\ \A n \in DOMAIN chain : WindowOf(n)' = WindowOf(n)
        /\ \A n \in DOMAIN chain' \ DOMAIN chain : WindowOf(n)' = WindowEpoch(Here)
    BY <1>2 DEF WindowOf, WindowEpoch, Here, At
  <1>5. /\ now \in Nat /\ anchor \in Nat /\ anchor <= now /\ e \in Nat
        /\ chance \in Int /\ now <= chance /\ StartedIn \in Int /\ StartedIn <= now
        /\ AnchorIdLag \in Nat /\ AnchorIdLag >= 4
        /\ thread.at = "ended" => chance = IF iterated THEN now + 1 ELSE now
        /\ thread.at # "ended" => chance = StartedIn + 3
    BY RoomFacts, HereNow, BlockFields, PaceTypes, LayoutTypes DEF AnchorInv
  <1> HIDE DEF chance
  <1>6. \A n \in Unsent' : n \in DOMAIN chain => n \in Unsent
    <2>1. SUFFICES ASSUME NEW n \in Unsent', n \in DOMAIN chain PROVE n \in Unsent
      OBVIOUS
    <2>2. n > LastBlock' /\ WindowOf(n)' = (Here.epoch)' /\ n \notin UNION InFlight'
      BY <2>1 DEF Unsent
    <2> HIDE DEF e
    <2>3. n > LastBlock /\ WindowOf(n) = e /\ n \notin UNION InFlight
      BY <1>3, <1>4, <2>1, <2>2
    <2> QED
      BY <2>1, <2>3 DEF Unsent, e
  <1>7. \A n \in Unsent' : n \in DOMAIN chain'
    BY DEF Unsent
  <1>8. SUFFICES ASSUME InTurn
                 PROVE  IF WithinHandoverPeriod(Here.slot) THEN WithinHandover' ELSE BeforeHandover'
    BY <1>3 DEF Deadline
  <1>9. CASE WithinHandoverPeriod(Here.slot)
    <2>1. /\ \A m, n \in Unsent : chain[m].anchor = chain[n].anchor
          /\ Unsent # {} => chance <= HandoverStart + 1
          /\ \A n \in UNION InFlight : WindowOf(n) = e => StartedIn <= HandoverStart + 1
      BY <1>8, <1>9, RoomFacts DEF Deadline, WithinHandover, chance
    <2>2. \A n \in Unsent' : n \in DOMAIN chain
      <3>1. SUFFICES ASSUME NEW n \in Unsent', n \notin DOMAIN chain PROVE FALSE
        OBVIOUS
      <3>2. WindowOf(n)' = (Here.epoch)' /\ n \in DOMAIN chain'
        BY DEF Unsent
      <3>3. WindowOf(n)' = e + 1
        BY <1>4, <1>9, <3>1, <3>2 DEF WindowEpoch
      <3> HIDE DEF e
      <3> QED
        BY <1>3, <1>5, <3>2, <3>3
    <2>3. \A n \in UNION InFlight : n \in DOMAIN chain
      BY RoomFacts, FlightIsNext
    <2>4. /\ Unsent' \subseteq Unsent
          /\ \A n \in Unsent' : chain'[n] = chain[n]
      BY <1>2, <1>6, <2>2
    <2>5. \A m, n \in Unsent' : chain'[m].anchor = chain'[n].anchor
      BY <2>1, <2>4
    <2> HIDE DEF e
    <2>6. \A n \in UNION InFlight : WindowOf(n)' = e => StartedIn <= HandoverStart + 1
      BY <1>4, <2>1, <2>3
    <2>7. WithinHandover'
      BY <1>3, <2>1, <2>4, <2>5, <2>6 DEF WithinHandover
    <2> QED
      BY <1>9, <2>7
  <1>10. CASE ~WithinHandoverPeriod(Here.slot)
    <2>1. /\ OldUnsent # {} => /\ AnchorIsDue(At(anchor).slot)
                               /\ chance <= anchor + 2
                               /\ ~built => anchor < now
          /\ \A m, n \in OldUnsent : chain[m].anchor = chain[n].anchor
          /\ thread.at # "ended" /\ StartedIn = now /\ ~built /\ AnchorIsDue(Here.slot) =>
                Unsent = {}
      BY <1>8, <1>10, RoomFacts DEF Deadline, BeforeHandover, chance
    <2>2. \A n \in OldUnsent' : n \in Unsent /\ chain'[n] = chain[n] /\ chain[n].anchor # anchor'
      <3>1. SUFFICES ASSUME NEW n \in OldUnsent'
                     PROVE  n \in Unsent /\ chain'[n] = chain[n] /\ chain[n].anchor # anchor'
        OBVIOUS
      <3>2. n \in Unsent' /\ chain'[n].anchor # anchor'
        BY <3>1 DEF OldUnsent
      <3>3. n \in DOMAIN chain
        BY <1>2, <1>7, <3>2
      <3> QED
        BY <1>2, <1>6, <3>2, <3>3
    <2>3. CASE anchor' = anchor
      <3>1. \A n \in OldUnsent' : n \in OldUnsent /\ chain'[n] = chain[n]
        BY <2>2, <2>3 DEF OldUnsent
      <3>2. BeforeHandover'
        BY <1>1, <1>3, <2>1, <2>3, <3>1 DEF BeforeHandover, At
      <3> QED
        BY <1>10, <3>2
    <2>4. CASE anchor' # anchor
      <3>1. anchor' = now /\ AnchorIsDue(Here.slot)
        BY <1>1, <2>4
      <3>2. OldUnsent = {}
        <4>1. SUFFICES ASSUME OldUnsent # {} PROVE FALSE
          OBVIOUS
        <4>2. AnchorIsDue(At(anchor).slot) /\ chance <= anchor + 2 /\ anchor < now
          BY <1>1, <2>1, <4>1
        <4>3. AnchorIsDue(At(now).slot)
          BY <3>1 DEF Here
        <4>4. anchor + AnchorIdLag <= now
          BY <1>5, <4>2, <4>3, RoomFacts, DueApart
        <4> QED
          BY <1>5, <4>2, <4>4
      <3>3. \A n \in OldUnsent' : chain'[n].anchor = anchor
        BY <2>2, <3>2 DEF OldUnsent
      <3>4. OldUnsent' # {} => chance <= now + 2
        <4>1. SUFFICES ASSUME OldUnsent' # {} PROVE chance <= now + 2
          OBVIOUS
        <4>2. Unsent # {}
          BY <2>2, <4>1
        <4>3. thread.at # "ended" => StartedIn # now
          BY <1>1, <2>1, <3>1, <4>2
        <4> QED
          BY <1>5, <4>3
      <3>5. AnchorIsDue(At(now).slot)
        BY <3>1 DEF Here
      <3>6. BeforeHandover'
        BY <1>1, <1>3, <3>1, <3>3, <3>4, <3>5 DEF BeforeHandover, At
      <3> QED
        BY <1>10, <3>6
    <2> QED
      BY <2>3, <2>4
  <1> QED
    BY <1>9, <1>10

\* When the handover window begins, only blocks with the current anchor wait, and
\* a thread that is not through was started in a slot before the last.
LEMMA DeadlineTick ==
    ASSUME RoomContext, Tick
    PROVE  Deadline'
  <1> DEFINE S == SlotsPerEpoch
             H == HandoverSlots
             e == Here.epoch
             s == Here.slot
             start == StartedIn
             chance == NextChance
  <1>1. /\ now' = now + 1 /\ iterated /\ built' = FALSE /\ iterated' = FALSE
        /\ thread.at = "ended" \/ thread.at = "waiting"
        /\ UNCHANGED <<schedule, chain, anchor, thread, pool, inbox>>
    BY SlotEnds
  <1>2. /\ S \in Nat /\ H \in Nat /\ 3 <= H /\ H < S
        /\ now \in Nat /\ e \in Nat /\ s \in 0..(S - 1) /\ anchor \in Nat /\ anchor <= now
        /\ AnchorIdLag \in Nat /\ AnchorIdLag >= 4
    BY LayoutTypes, HereNow, BlockFields, RoomFacts DEF AnchorInv
  <1>3. /\ start \in Int /\ start <= now /\ chance \in Int /\ now < chance
        /\ thread.at = "ended" => chance = now + 1
        /\ thread.at # "ended" => chance = start + 3
    BY <1>1, PaceTypes, RoomFacts
  <1>4. /\ InFlight' = InFlight /\ LastBlock' = LastBlock
        /\ \A n \in DOMAIN chain : WindowOf(n)' = WindowOf(n)
    BY <1>1 DEF InFlight, LastBlock, LastId, WindowOf, WindowEpoch, At
  <1>5. thread.at # "ended" => StartedIn' = start
    BY <1>1 DEF StartedIn
  <1>6. NextChance' = chance
    BY <1>1, <1>3, <1>5 DEF NextChance
  <1>7. UNION InFlight # {} => thread.at # "ended"
    BY <1>1, RoomFacts DEF InFlight, PoolInv
  <1>8. thread.at # "ended" => StartedIn' # now'
    <2> HIDE DEF S, H, e, s, start, chance
    <2> QED
      BY <1>1, <1>2, <1>3, <1>5
  <1>9. WithinHandoverPeriod(s) <=> s >= S - H
    BY DEF WithinHandoverPeriod
  <1>10. CASE s = S - 1
    <2>1. (Here.epoch)' = e + 1 /\ (Here.slot)' = 0
      BY <1>1, <1>10, PositionAfter, RoomFacts
    <2>2. ~WithinHandoverPeriod((Here.slot)')
      BY <1>2, <2>1 DEF WithinHandoverPeriod
    <2>3. InTurn' => OldUnsent' = {}
      <3>1. SUFFICES ASSUME InTurn', NEW n \in OldUnsent' PROVE FALSE
        OBVIOUS
      <3>2. n \in DOMAIN chain /\ WindowOf(n)' = (Here.epoch)' /\ chain[n].anchor # anchor
        BY <1>1, <3>1 DEF OldUnsent, Unsent
      <3>3. WindowOf(n) = e + 1
        BY <1>4, <2>1, <3>2
      <3>4. schedule[e + 1] = Me
        BY <1>1, <2>1, <3>1 DEF InTurn
      <3>5. chain[n].operator = Me
        BY <3>2, <3>3, <3>4, RoomFacts, WindowFacts
      <3> QED
        BY <3>2, <3>3, <3>5, RoomFacts DEF BlocksOfAnchor
    <2>4. InTurn' => BeforeHandover'
      BY <1>1, <1>8, <2>3 DEF BeforeHandover
    <2> QED
      BY <2>2, <2>4 DEF Deadline
  <1>11. CASE s # S - 1
    <2>1. (Here.epoch)' = e /\ (Here.slot)' = s + 1
      BY <1>1, <1>11, PositionAfter, RoomFacts
    <2>2. (InTurn' <=> InTurn) /\ HandoverStart' = HandoverStart
      <3>1. InTurn' <=> InTurn
        BY <1>1, <2>1 DEF InTurn
      <3>2. HandoverStart' = now' - (s + 1) + S - H /\ HandoverStart = now - s + S - H
        BY <2>1 DEF HandoverStart
      <3> HIDE DEF S, H, e, s, start, chance
      <3> QED
        BY <1>1, <1>2, <3>1, <3>2
    <2>3. Unsent' = Unsent /\ OldUnsent' = OldUnsent
      <3>1. \A n \in DOMAIN chain : WindowOf(n)' = (Here.epoch)' <=> WindowOf(n) = Here.epoch
        BY <1>4, <2>1
      <3>2. Unsent' = Unsent
        BY <1>1, <1>4, <3>1 DEF Unsent
      <3> QED
        BY <1>1, <3>2 DEF OldUnsent
    <2>4. SUFFICES ASSUME InTurn
                   PROVE  IF WithinHandoverPeriod(s + 1) THEN WithinHandover' ELSE BeforeHandover'
      BY <2>1, <2>2 DEF Deadline
    <2>5. WithinHandoverPeriod(s + 1) <=> s + 1 >= S - H
      BY DEF WithinHandoverPeriod
    <2>6. CASE WithinHandoverPeriod(s)
      <3>1. /\ \A m, n \in Unsent : chain[m].anchor = chain[n].anchor
            /\ Unsent # {} => chance <= HandoverStart + 1
            /\ \A n \in UNION InFlight : WindowOf(n) = e => start <= HandoverStart + 1
        BY <2>4, <2>6, RoomFacts DEF Deadline, WithinHandover
      <3>2. \A n \in UNION InFlight : n \in DOMAIN chain
        BY RoomFacts, FlightIsNext
      <3> HIDE DEF S, H, e, s, start, chance
      <3>3. WithinHandoverPeriod(s + 1)
        BY <1>2, <1>9, <2>5, <2>6
      <3>4. \A n \in UNION InFlight : WindowOf(n)' = e => StartedIn' <= HandoverStart + 1
        BY <1>4, <1>5, <1>7, <3>1, <3>2
      <3>5. WithinHandover'
        BY <1>1, <1>4, <1>6, <2>1, <2>2, <2>3, <3>1, <3>4 DEF WithinHandover
      <3> QED
        BY <3>3, <3>5
    <2>7. CASE ~WithinHandoverPeriod(s)
      <3>1. /\ OldUnsent # {} => AnchorIsDue(At(anchor).slot) /\ chance <= anchor + 2
            /\ \A m, n \in OldUnsent : chain[m].anchor = chain[n].anchor
        BY <2>4, <2>7, RoomFacts DEF Deadline, BeforeHandover
      <3>2. CASE ~WithinHandoverPeriod(s + 1)
        <4>1. anchor < now'
          BY <1>1, <1>2
        <4>2. BeforeHandover'
          <5> HIDE DEF S, H, e, s, start, chance
          <5> QED
            BY <1>1, <1>6, <1>8, <2>3, <3>1, <4>1 DEF BeforeHandover, At
        <4> QED
          BY <3>2, <4>2
      <3>3. CASE WithinHandoverPeriod(s + 1)
        <4>1. s = S - H - 1
          <5> HIDE DEF S, H, e, s, start, chance
          <5> QED
            BY <1>2, <1>9, <2>5, <2>7, <3>3
        <4>2. HandoverStart = now + 1
          <5>1. HandoverStart = now - s + S - H
            BY DEF HandoverStart
          <5> HIDE DEF S, H, e, s, start, chance
          <5> QED
            BY <1>2, <4>1, <5>1
        <4>3. thread.at # "ended" => start < now
          BY <4>1, RoomFacts DEF ThreadPace, IsLastSlotBeforeHandoverWindow
        <4>4. OldUnsent = {}
          <5>1. SUFFICES ASSUME OldUnsent # {} PROVE FALSE
            OBVIOUS
          <5>2. AnchorIsDue(At(anchor).slot) /\ chance <= anchor + 2
            BY <3>1, <5>1
          <5>3. AnchorIsDue(At(HandoverStart).slot) /\ HandoverStart \in Nat
            BY RoomFacts, HandoverPosition, DueAtHandover
          <5> HIDE DEF S, H, e, s, start, chance
          <5>4. anchor < HandoverStart
            BY <1>2, <4>2
          <5>5. anchor + AnchorIdLag <= HandoverStart
            BY <1>2, <5>2, <5>3, <5>4, RoomFacts, DueApart
          <5> QED
            BY <1>2, <1>3, <4>2, <5>2, <5>5
        <4>5. \A n \in Unsent : chain[n].anchor = anchor
          BY <4>4 DEF OldUnsent
        <4> HIDE DEF S, H, e, s, start, chance
        <4>6. chance <= HandoverStart + 1
          BY <1>2, <1>3, <4>2, <4>3
        <4>7. start <= HandoverStart + 1
          BY <1>2, <1>3, <4>2
        <4>8. WithinHandover'
          BY <1>1, <1>4, <1>5, <1>6, <1>7, <2>2, <2>3, <4>5, <4>6, <4>7 DEF WithinHandover
        <4> QED
          BY <3>3, <4>8
      <3> QED
        BY <3>2, <3>3
    <2> QED
      BY <2>6, <2>7
  <1> QED
    BY <1>10, <1>11

\* When the thread has ended, the blocks to choose from are this preconfer's that
\* L1 does not have, as far as their slot is over for the iteration.
LEMMA ReadyIsOpen ==
    ASSUME RoomContext, InTurn, thread.at = "ended"
    PROVE  /\ pool = {} /\ InFlight = {}
           /\ Ready = {n \in DOMAIN chain : n > LastBlock /\ chain[n].operator = Me
                                            /\ chain[n].slot < SendSlot}
  <1>1. pool = {} /\ InFlight = {} /\ pc # "down"
    BY RoomFacts DEF PoolInv, InFlight, LoopPace
  <1>2. handled = Len(inbox)
    <2>1. handled \in Nat /\ Len(inbox) \in Nat /\ handled <= Len(inbox)
      BY RoomFacts, LastBlockType
    <2>2. ~(handled < Len(inbox))
      BY <1>1, RoomFacts DEF BehindInv
    <2> QED
      BY <2>1, <2>2
  <1>3. ASSUME NEW n \in Ready
        PROVE  n \in DOMAIN chain /\ n > LastBlock /\ chain[n].operator = Me
               /\ chain[n].slot < SendSlot
    <2>1. n \in cache /\ chain[n].operator = Me /\ chain[n].slot < SendSlot
      BY DEF Ready, Kept
    <2> QED
      BY <1>1, <1>2, <2>1, RoomFacts DEF CacheInv, OnlyOpen, TypeInv, TrackerOK
  <1>4. ASSUME NEW n \in DOMAIN chain, n > LastBlock, chain[n].operator = Me,
               chain[n].slot < SendSlot
        PROVE  n \in Ready
    <2>1. ~Expired(n, SendSlot)
      BY <1>4, RoomFacts, NoneLeft
    <2>2. n \in cache
      BY <1>1, <1>4, <2>1, RoomFacts DEF CacheInv, Cached
    <2> QED
      BY <1>4, <2>1, <2>2 DEF Ready, Kept
  <1> QED
    BY <1>1, <1>3, <1>4

\* They include all of this window's that wait and are of slots before.
LEMMA WaitingIsReady ==
    ASSUME RoomContext, InTurn, thread.at = "ended", NEW n \in Unsent
    PROVE  /\ chain[n].slot < now => n \in Ready
           /\ n \in OldUnsent => n \in Ready
           /\ WithinHandoverPeriod(Here.slot) => n \in Ready
  <1>1. /\ n \in DOMAIN chain /\ chain[n].operator = Me /\ n > LastBlock
        /\ WindowOf(n) = Here.epoch
    BY RoomFacts, OwnUnsent
  <1>2. /\ chain[n].slot \in Nat /\ chain[n].slot <= now
        /\ chain[n].slot = now => WindowOf(n) = WindowEpoch(Here)
        /\ now \in Nat /\ Here.epoch \in Nat
        /\ anchor \in Nat /\ anchor <= now
    BY <1>1, RoomFacts, WindowFacts, HereNow, BlockFields DEF AnchorInv
  <1>3. now <= SendSlot /\ SendSlot \in Nat
    BY <1>2, RoomFacts, LastBlockType
  <1>4. chain[n].slot < now => n \in Ready
    <2>1. chain[n].slot < now => chain[n].slot < SendSlot
      BY <1>2, <1>3
    <2> QED
      BY <1>1, <2>1, ReadyIsOpen
  <1>5. n \in OldUnsent => chain[n].slot < now
    <2>1. n \in OldUnsent => chain[n].slot < anchor
      BY <1>1, RoomFacts DEF OldUnsent, BlocksOfAnchor
    <2> QED
      BY <1>2, <2>1
  <1>6. WithinHandoverPeriod(Here.slot) => chain[n].slot < now
    <2>1. WithinHandoverPeriod(Here.slot) => WindowEpoch(Here) # Here.epoch
      BY <1>2 DEF WindowEpoch
    <2>2. WithinHandoverPeriod(Here.slot) => chain[n].slot # now
      BY <1>1, <1>2, <2>1
    <2> QED
      BY <1>2, <2>2
  <1> QED
    BY <1>4, <1>5, <1>6

\* If one of them waits, so does the first one; the batch is all with its anchor.
LEMMA FirstIsWaiting ==
    ASSUME RoomContext, InTurn, thread.at = "ended", NEW n \in Unsent, n \in Ready
    PROVE  /\ Min(Ready) \in Ready /\ Min(Ready) \in Unsent
           /\ chain[Min(Ready)].anchor <= chain[n].anchor
           /\ chain[Min(Ready)].anchor = chain[n].anchor => n \in SameAnchor(Ready)
  <1> DEFINE m == Min(Ready)
  <1>1. /\ InFlight = {}
        /\ \A k \in Ready : k \in DOMAIN chain /\ k \in Nat /\ k > LastBlock
                            /\ chain[k].operator = Me /\ chain[k].anchor \in Nat
    BY ReadyIsOpen, RoomFacts, BlockFields
  <1>2. m \in Ready /\ \A k \in Ready : m <= k
    <2>1. Ready \in SUBSET Nat
      BY <1>1
    <2> QED
      BY <2>1, LeastNumber
  <1> HIDE DEF m
  <1>3. \A j, k \in Ready : j <= k => chain[j].anchor <= chain[k].anchor
    BY <1>1, RoomFacts DEF AnchorInv
  <1>4. m \in Unsent
    <2>1. WindowOf(m) <= WindowOf(n) /\ WindowOf(n) = Here.epoch
      BY <1>1, <1>2, RoomFacts, WindowOrder DEF Unsent
    <2>2. WindowOf(m) >= Here.epoch /\ WindowOf(m) \in Nat /\ Here.epoch \in Nat
      BY <1>1, <1>2, RoomFacts, WindowFacts, HereNow DEF NothingLeft
    <2>3. WindowOf(m) = Here.epoch
      BY <2>1, <2>2
    <2> QED
      BY <1>1, <1>2, <2>3 DEF Unsent
  <1>5. ASSUME chain[m].anchor = chain[n].anchor, NEW k \in Ready, k <= n
        PROVE  chain[k].anchor = chain[m].anchor
    <2>1. chain[m].anchor <= chain[k].anchor /\ chain[k].anchor <= chain[n].anchor
      BY <1>2, <1>3, <1>5
    <2>2. chain[m].anchor \in Nat /\ chain[k].anchor \in Nat
      BY <1>1, <1>2
    <2> QED
      BY <1>5, <2>1, <2>2
  <1>6. chain[m].anchor = chain[n].anchor => n \in SameAnchor(Ready)
    BY <1>5 DEF SameAnchor, m
  <1> QED
    BY <1>2, <1>3, <1>4, <1>6 DEF m

\* No gap in time cuts the batch: the blocks to choose from follow each other.
LEMMA WholeBatch ==
    ASSUME RoomContext, InTurn, thread.at = "ended", Ready # {}
    PROVE  WithinTimeShift(SameAnchor(Ready)) = SameAnchor(Ready)
  <1> DEFINE B == SameAnchor(Ready)
  <1>1. /\ \A k \in Ready : k \in DOMAIN chain /\ k \in Nat /\ k > LastBlock
                            /\ chain[k].operator = Me /\ chain[k].slot < SendSlot
        /\ LastBlock \in Nat /\ Len(chain) \in Nat /\ DOMAIN chain = 1..Len(chain)
    BY ReadyIsOpen, RoomFacts, BlockFields, LastBlockType
  <1>2. B \subseteq Ready /\ \A k \in B, j \in Ready : j <= k => j \in B
    <2>1. SUFFICES ASSUME NEW k \in B, NEW j \in Ready, j <= k PROVE j \in B
      BY DEF SameAnchor
    <2>2. k \in Nat /\ j \in Nat
      BY <1>1 DEF SameAnchor
    <2>3. \A i \in Ready : i <= j => i <= k
      BY <1>1, <2>1, <2>2
    <2> QED
      BY <2>1, <2>3 DEF SameAnchor
  <1>3. B \in SUBSET Nat
    BY <1>1, <1>2
  <1> HIDE DEF B
  <1>4. ASSUME NEW m \in B, m # Min(B)
        PROVE  chain[m].slot - chain[Max({k \in B : k < m})].slot <= MaxTimeShift
    <2> DEFINE f == Min(B)
    <2>1. f \in B /\ \A k \in B : f <= k
      <3>1. B # {}
        OBVIOUS
      <3> QED
        BY <1>3, <3>1, LeastNumber
    <2>2. m \in Nat /\ f \in Nat /\ f < m /\ f > LastBlock
      <3>1. m # f
        BY <1>4
      <3> HIDE DEF f
      <3>2. m \in Nat /\ f \in Nat /\ f <= m /\ f > LastBlock
        BY <1>1, <1>2, <1>3, <2>1
      <3> QED
        BY <3>1, <3>2
    <2> HIDE DEF f
    <2>3. m \in DOMAIN chain /\ m - 1 \in DOMAIN chain /\ m - 1 > LastBlock /\ m \in Ready
      BY <1>1, <1>2, <2>2
    <2>4. chain[m - 1].operator = Me
      <3>1. /\ WindowOf(m - 1) <= WindowOf(m) /\ WindowOf(m - 1) \in Nat /\ WindowOf(m) \in Nat
            /\ WindowOf(m) <= Here.epoch + 1 /\ WindowOf(m - 1) >= Here.epoch /\ Here.epoch \in Nat
        <4>1. m - 1 <= m
          BY <2>2
        <4> QED
          BY <2>3, <4>1, RoomFacts, WindowOrder, WindowFacts, HereNow DEF NothingLeft
      <3>2. WindowOf(m - 1) = Here.epoch \/ WindowOf(m - 1) = WindowOf(m)
        BY <3>1
      <3>3. /\ chain[m - 1].operator = schedule[WindowOf(m - 1)]
            /\ chain[m].operator = schedule[WindowOf(m)]
        BY <2>3, RoomFacts, WindowFacts
      <3> QED
        BY <1>1, <2>3, <3>2, <3>3 DEF InTurn
    <2>5. chain[m - 1].slot <= chain[m].slot /\ chain[m - 1].slot < SendSlot
      <3>1. chain[m - 1].slot <= chain[m].slot
        BY <2>2, <2>3, RoomFacts DEF ChainInv
      <3>2. chain[m].slot < SendSlot /\ SendSlot \in Nat
        BY <1>1, <2>3, RoomFacts, LastBlockType, HereNow
      <3>3. chain[m].slot \in Nat /\ chain[m - 1].slot \in Nat
        BY <2>3, RoomFacts, BlockFields
      <3> QED
        BY <3>1, <3>2, <3>3
    <2>6. m - 1 \in B
      <3>1. m - 1 \in Ready
        BY <2>3, <2>4, <2>5, ReadyIsOpen
      <3> QED
        BY <1>2, <2>2, <3>1
    <2> DEFINE T == {k \in B : k < m}
    <2>7. T \in SUBSET (0..m) /\ m - 1 \in T
      <3>1. m - 1 < m
        BY <2>2
      <3>2. \A k \in B : k \in Nat
        BY <1>3
      <3>3. \A k \in T : k \in Nat /\ k < m
        BY <3>2
      <3>4. \A k \in T : k \in 0..m
        BY <2>2, <3>3
      <3> QED
        BY <2>6, <3>1, <3>4
    <2>8. Max(T) \in T /\ m - 1 <= Max(T)
      <3> HIDE DEF T
      <3>1. T # {}
        BY <2>7
      <3> QED
        BY <2>2, <2>7, <3>1, GreatestNumber
    <2>9. Max(T) \in Nat /\ Max(T) < m
      BY <1>3, <2>8
    <2> HIDE DEF T
    <2>10. Max(T) = m - 1
      BY <2>2, <2>8, <2>9
    <2>11. chain[m].slot - chain[m - 1].slot <= MaxTimeShift
      <3>1. m \in DOMAIN chain \ {1}
        BY <1>1, <2>2, <2>3
      <3> QED
        BY <3>1, RoomFacts DEF NoGap
    <2> QED
      BY <2>10, <2>11 DEF T
  <1>5. WithinTimeShift(B) = B
    BY <1>4 DEF WithinTimeShift
  <1> QED
    BY <1>5 DEF B

\* No block with an older anchor waits for an iteration in which the anchor is
\* due again, or that is the last one before it is.
LEMMA NoOldWaits ==
    ASSUME RoomContext, InTurn, ~WithinHandoverPeriod(Here.slot), NextChance <= now,
           NEW d \in Nat, AnchorIsDue(At(d).slot), d = now + 1 \/ (d = now /\ ~built)
    PROVE  OldUnsent = {}
  <1>1. SUFFICES ASSUME OldUnsent # {} PROVE FALSE
    OBVIOUS
  <1>2. /\ AnchorIsDue(At(anchor).slot) /\ NextChance <= anchor + 2
        /\ ~built => anchor < now
    BY <1>1, RoomFacts DEF Deadline, BeforeHandover
  <1>3. /\ now \in Nat /\ anchor \in Nat /\ AnchorIdLag \in Nat /\ AnchorIdLag >= 4
        /\ NextChance \in Int /\ now <= NextChance
    BY RoomFacts, HereNow, BlockFields, PaceTypes, LayoutTypes
  <1>4. now <= anchor + 2
    BY <1>2, <1>3
  <1>5. anchor < d
    <2>1. anchor <= now
      BY RoomFacts DEF AnchorInv
    <2>2. CASE d = now + 1
      BY <1>3, <2>1, <2>2
    <2>3. CASE d = now /\ ~built
      BY <1>2, <2>3
    <2> QED
      BY <2>2, <2>3
  <1>6. anchor + AnchorIdLag <= d
    BY <1>2, <1>3, <1>5, RoomFacts, DueApart
  <1> QED
    BY <1>3, <1>4, <1>6

\* What an iteration leaves alone.
LEMMA IterateKeeps ==
    ASSUME Iterate
    PROVE  /\ UNCHANGED <<now, schedule, chain, anchor, built, pool, inbox>>
           /\ ~iterated /\ iterated' = TRUE
           /\ (Here.epoch)' = Here.epoch /\ (Here.slot)' = Here.slot
           /\ (InTurn' <=> InTurn) /\ HandoverStart' = HandoverStart
           /\ LastBlock' = LastBlock
           /\ \A n \in DOMAIN chain : WindowOf(n)' = WindowOf(n)
           /\ Unsent' = {n \in DOMAIN chain : n > LastBlock /\ WindowOf(n) = Here.epoch
                                              /\ n \notin UNION InFlight'}
           /\ OldUnsent' = {n \in Unsent' : chain[n].anchor # anchor}
  <1>1. /\ UNCHANGED <<now, schedule, chain, anchor, built, pool, inbox>>
        /\ ~iterated /\ iterated' = TRUE
    BY DEF Iterate, l2, l1
  <1>2. /\ (Here.epoch)' = Here.epoch /\ (Here.slot)' = Here.slot
        /\ (InTurn' <=> InTurn) /\ HandoverStart' = HandoverStart
        /\ LastBlock' = LastBlock
        /\ \A n \in DOMAIN chain : WindowOf(n)' = WindowOf(n)
    BY <1>1 DEF Here, At, InTurn, HandoverStart, LastBlock, LastId, WindowOf, WindowEpoch
  <1>3. Unsent' = {n \in DOMAIN chain : n > LastBlock /\ WindowOf(n) = Here.epoch
                                        /\ n \notin UNION InFlight'}
    BY <1>1, <1>2 DEF Unsent
  <1>4. OldUnsent' = {n \in Unsent' : chain[n].anchor # anchor}
    BY <1>1 DEF OldUnsent
  <1> QED
    BY <1>1, <1>2, <1>3, <1>4

\* An iteration that finds the thread at work changes nothing.
LEMMA IterateWaits ==
    ASSUME RoomContext, Iterate, thread.at # "ended"
    PROVE  Deadline'
  <1>1. /\ UNCHANGED <<now, schedule, chain, anchor, built, pool, inbox>>
        /\ LastBlock' = LastBlock
    BY IterateKeeps
  <1>2. thread' = thread
    BY DEF Iterate, Send, Ended
  <1>3. InFlight' = InFlight /\ StartedIn' = StartedIn
    BY <1>1, <1>2 DEF InFlight, StartedIn
  <1>4. Unsent' = Unsent
    BY <1>3, IterateKeeps DEF Unsent
  <1>5. NextChance \in Int /\ NextChance = StartedIn + 3 /\ StartedIn \in Int
    BY RoomFacts, PaceTypes
  <1>6. NextChance' = NextChance
    BY <1>2, <1>3, <1>5 DEF NextChance
  <1>7. NextChance' \in Int /\ NextChance' <= NextChance
    BY <1>5, <1>6
  <1> QED
    BY <1>1, <1>2, <1>3, <1>4, <1>5, <1>7, RoomFacts, DeadlineKept

\* One that starts nothing leaves no block that must not wait.
LEMMA IterateNothing ==
    ASSUME RoomContext, TurnInv', Iterate, InTurn, thread.at = "ended", thread' = thread
    PROVE  Deadline'
  <1>1. /\ pool = {} /\ InFlight = {} /\ UNCHANGED pool /\ thread = Ended
        /\ NextChance = now /\ now \in Nat
    BY RoomFacts, ReadyIsOpen, IterateKeeps, PaceTypes, HereNow
  <1>2. InFlight' = {} /\ thread'.at = "ended"
    BY <1>1 DEF InFlight
  <1>3. Unsent' = Unsent /\ OldUnsent' = OldUnsent
    <2>1. Unsent' = Unsent
      BY <1>1, <1>2, IterateKeeps DEF Unsent
    <2> QED
      BY <2>1, IterateKeeps DEF OldUnsent
  <1>4. ASSUME ~IsLastSlotBeforeHandoverWindow(Here.slot)
        PROVE  ~WantsToSend(WithinHandoverPeriod(Here.slot))
    <2>1. MaySend
      BY <1>4, SendsInTurn
    <2>2. thread' = IF WantsToSend(WithinHandoverPeriod(Here.slot)) /\ thread = Ended
                    THEN [at |-> "started", blocks |-> WithinTimeShift(SameAnchor(Ready))]
                    ELSE thread
      BY <2>1 DEF Iterate, Send
    <2> QED
      BY <1>1, <1>2, <2>2 DEF Ended
  <1>5. /\ SlotsPerEpoch \in Nat /\ HandoverSlots \in Nat /\ Here.slot \in 0..(SlotsPerEpoch - 1)
    BY RoomFacts, LayoutTypes, HereNow
  <1>6. CASE WithinHandoverPeriod(Here.slot)
    <2>1. ~IsLastSlotBeforeHandoverWindow(Here.slot)
      BY <1>5, <1>6 DEF WithinHandoverPeriod, IsLastSlotBeforeHandoverWindow
    <2>2. Ready = {}
      BY <1>4, <1>6, <2>1 DEF WantsToSend
    <2>3. Unsent = {}
      BY <1>6, <2>2, WaitingIsReady
    <2>4. WithinHandover'
      BY <1>2, <1>3, <2>3 DEF WithinHandover
    <2> QED
      BY <1>6, <2>4, IterateKeeps DEF Deadline
  <1>7. CASE ~WithinHandoverPeriod(Here.slot)
    <2>1. OldUnsent = {}
      <3>1. CASE IsLastSlotBeforeHandoverWindow(Here.slot)
        <4>1. /\ HandoverStart \in Nat /\ HandoverStart = now + 1
              /\ AnchorIsDue(At(HandoverStart).slot)
          <5>1. HandoverStart \in Nat /\ AnchorIsDue(At(HandoverStart).slot)
            BY RoomFacts, HandoverPosition, DueAtHandover
          <5>2. HandoverStart = now + 1
            BY <1>1, <1>5, <3>1 DEF HandoverStart, IsLastSlotBeforeHandoverWindow
          <5> QED
            BY <5>1, <5>2
        <4>2. NextChance <= now
          BY <1>1
        <4> QED
          BY <1>7, <4>1, <4>2, NoOldWaits
      <3>2. CASE ~IsLastSlotBeforeHandoverWindow(Here.slot)
        <4>1. SUFFICES ASSUME NEW n \in OldUnsent PROVE FALSE
          OBVIOUS
        <4>2. n \in Unsent /\ n \in Ready /\ chain[n].anchor # anchor
          BY <4>1, WaitingIsReady DEF OldUnsent
        <4>3. SameAnchor(Ready) = Ready /\ chain[Min(Ready)].anchor = anchor
          BY <1>4, <3>2, <4>2 DEF WantsToSend
        <4>4. chain[n].anchor = chain[Min(Ready)].anchor
          <5>1. n \in SameAnchor(Ready)
            BY <4>2, <4>3
          <5>2. n \in Nat
            BY <4>2, RoomFacts, BlockFields DEF Unsent
          <5> QED
            BY <4>2, <5>1, <5>2 DEF SameAnchor
        <4> QED
          BY <4>2, <4>3, <4>4
      <3> QED
        BY <3>1, <3>2
    <2>2. BeforeHandover'
      BY <1>2, <1>3, <2>1 DEF BeforeHandover
    <2> QED
      BY <1>7, <2>2, IterateKeeps DEF Deadline
  <1> QED
    BY <1>6, <1>7

\* One that starts a batch takes all blocks that must not wait.
LEMMA IterateSends ==
    ASSUME RoomContext, Iterate, InTurn, thread.at = "ended", thread' # thread
    PROVE  Deadline'
  <1> DEFINE B == SameAnchor(Ready)
             least == Min(Ready)
  <1>1. /\ pool = {} /\ InFlight = {} /\ UNCHANGED <<pool, now>> /\ thread = Ended
        /\ NextChance = now /\ now \in Nat /\ anchor \in Nat /\ anchor <= now
    BY RoomFacts, ReadyIsOpen, IterateKeeps, PaceTypes, HereNow, BlockFields DEF AnchorInv
  <1>2. Ready # {} /\ thread' = [at |-> "started", blocks |-> WithinTimeShift(SameAnchor(Ready))]
    BY DEF Iterate, Send, WantsToSend
  <1>3. thread' = [at |-> "started", blocks |-> B]
    BY <1>2, WholeBatch
  <1>4. B \subseteq Ready /\ B \subseteq DOMAIN chain
    BY ReadyIsOpen DEF SameAnchor
  <1> HIDE DEF B
  <1>5. InFlight' = {B} /\ UNION InFlight' = B /\ StartedIn' = now /\ thread'.at = "started"
    BY <1>1, <1>3 DEF InFlight, StartedIn
  <1>6. \A n \in Unsent' : n \in Unsent /\ n \notin B
    BY <1>1, <1>5, IterateKeeps DEF Unsent
  <1>7. ASSUME NEW n \in Unsent', n \in Ready
        PROVE  chain[least].anchor # chain[n].anchor
    BY <1>6, <1>7, FirstIsWaiting DEF B
  <1>8. CASE WithinHandoverPeriod(Here.slot)
    <2>1. /\ \A m, n \in Unsent : chain[m].anchor = chain[n].anchor
          /\ Unsent # {} => NextChance <= HandoverStart + 1
      BY <1>8, RoomFacts DEF Deadline, WithinHandover
    <2>2. Unsent' = {}
      <3>1. SUFFICES ASSUME NEW n \in Unsent' PROVE FALSE
        OBVIOUS
      <3>2. n \in Unsent /\ n \in Ready
        BY <1>6, <1>8, WaitingIsReady
      <3>3. least \in Unsent
        BY <3>2, FirstIsWaiting
      <3> QED
        BY <1>7, <2>1, <3>2, <3>3
    <2>3. ASSUME NEW n \in B, WindowOf(n) = Here.epoch PROVE now <= HandoverStart + 1
      <3>1. n \in DOMAIN chain /\ n > LastBlock
        BY <1>4, ReadyIsOpen
      <3>2. n \in Unsent
        BY <1>1, <2>3, <3>1 DEF Unsent
      <3> QED
        BY <1>1, <2>1, <3>2
    <2>4. WithinHandover'
      BY <1>4, <1>5, <2>2, <2>3, IterateKeeps DEF WithinHandover
    <2> QED
      BY <1>8, <2>4, IterateKeeps DEF Deadline
  <1>9. CASE ~WithinHandoverPeriod(Here.slot)
    <2>1. \A m, n \in OldUnsent : chain[m].anchor = chain[n].anchor
      BY <1>9, RoomFacts DEF Deadline, BeforeHandover
    <2>2. OldUnsent' = {}
      <3>1. SUFFICES ASSUME NEW n \in OldUnsent' PROVE FALSE
        OBVIOUS
      <3>2. n \in Unsent' /\ chain[n].anchor # anchor
        BY <3>1, IterateKeeps
      <3>3. n \in Unsent /\ n \in OldUnsent
        BY <1>6, <3>2 DEF OldUnsent
      <3>4. n \in Ready
        BY <3>3, WaitingIsReady
      <3>5. least \in Unsent /\ chain[least].anchor <= chain[n].anchor
        BY <3>3, <3>4, FirstIsWaiting
      <3>6. /\ chain[n].anchor \in Nat /\ chain[n].anchor <= anchor
            /\ chain[least].anchor \in Nat
        <4>1. n \in DOMAIN chain /\ least \in DOMAIN chain
          BY <3>3, <3>5 DEF Unsent
        <4> HIDE DEF least
        <4> QED
          BY <4>1, RoomFacts, BlockFields DEF AnchorInv, LoopPace
      <3> HIDE DEF least
      <3>7. chain[least].anchor # anchor
        BY <1>1, <3>2, <3>5, <3>6
      <3>8. least \in OldUnsent
        BY <3>5, <3>7 DEF OldUnsent
      <3> QED
        BY <1>7, <2>1, <3>2, <3>3, <3>4, <3>8
    <2>3. ASSUME ~built, AnchorIsDue(Here.slot) PROVE Unsent' = {}
      <3>1. SUFFICES ASSUME NEW n \in Unsent' PROVE FALSE
        OBVIOUS
      <3>2. n \in Unsent /\ n \in Ready
        <4>1. n \in Unsent /\ chain[n].slot < now
          BY <1>6, <2>3, RoomFacts DEF BlocksOfAnchor, Unsent
        <4> QED
          BY <4>1, WaitingIsReady
      <3>3. OldUnsent = {}
        <4>1. AnchorIsDue(At(now).slot)
          BY <2>3 DEF Here
        <4>2. NextChance <= now
          BY <1>1
        <4> QED
          BY <1>1, <1>9, <2>3, <4>1, <4>2, NoOldWaits
      <3>4. least \in Unsent
        BY <3>2, FirstIsWaiting
      <3>5. chain[least].anchor = anchor /\ chain[n].anchor = anchor
        BY <3>2, <3>3, <3>4 DEF OldUnsent
      <3> QED
        BY <1>7, <3>1, <3>2, <3>5
    <2>4. BeforeHandover'
      BY <1>1, <1>5, <2>2, <2>3, IterateKeeps DEF BeforeHandover
    <2> QED
      BY <1>9, <2>4, IterateKeeps DEF Deadline
  <1> QED
    BY <1>8, <1>9

\* An iteration of another operator's epoch has nothing to keep.
LEMMA DeadlineIterate ==
    ASSUME RoomContext, TurnInv', Iterate
    PROVE  Deadline'
  <1>1. CASE ~InTurn
    BY <1>1, IterateKeeps DEF Deadline
  <1>2. CASE InTurn
    BY <1>2, IterateWaits, IterateNothing, IterateSends
  <1> QED
    BY <1>1, <1>2

-----------------------------------------------------------------------------
(* All of it.                                                              *)

\* Nothing is built, proposed or known at the start.
LEMMA RoomInit == Init => RoomInv
  <1> SUFFICES ASSUME Init PROVE RoomInv
    OBVIOUS
  <1>1. /\ pc = "boot" /\ thread.at = "ended" /\ pool = {} /\ chain = <<>> /\ inbox = <<>>
    BY DEF Init, Ended
  <1>2. InFlight = {} /\ DOMAIN chain = {} /\ LastBlock = 0
    BY <1>1 DEF InFlight, LastBlock, LastId
  <1>3. Unsent = {} /\ OldUnsent = {}
    BY <1>2 DEF Unsent, OldUnsent
  <1>4. KnowsTurn /\ LoopPace /\ PoolPace /\ ThreadPace
    BY <1>1, <1>2 DEF KnowsTurn, LoopPace, PoolPace, ThreadPace
  <1>5. BlocksOfAnchor /\ NothingLeft
    BY <1>2 DEF BlocksOfAnchor, NothingLeft
  <1>6. Deadline
    BY <1>1, <1>2, <1>3 DEF Deadline, WithinHandover, BeforeHandover
  <1> QED
    BY <1>4, <1>5, <1>6 DEF RoomInv

\* Every step keeps it: one step of the proof per action.
LEMMA RoomStep ==
    ASSUME RoomContext, TypeInv', TurnInv', [Next]_vars
    PROVE  RoomInv'
  <1>1. SUFFICES KnowsTurn' /\ PaceInv' /\ BlocksOfAnchor' /\ NothingLeft' /\ Deadline'
    BY DEF RoomInv, PaceInv
  <1>2. ~env.rpcFails /\ ~env.losesAnswers /\ env.crash = "never" /\ pc # "down"
    BY RoomFacts, CalmFields DEF LoopPace
  <1>3. CASE Tick
    BY <1>3, KnowsTick, PaceTick, AnchorTick, LeftTick, DeadlineTick
  <1>4. CASE Build
    <2>1. /\ UNCHANGED <<now, schedule, pc, iterated, operators, activeEpoch, thread, pool, nonce,
                         included, inbox>>
      BY <1>4 DEF Build, loop, l1
    <2> QED
      BY <1>4, <2>1, RoomFacts, KnowsSame, PaceSame, AnchorBuild, LeftBuild, DeadlineBuild
  <1>5. CASE HandleBatch \/ Over \/ UNCHANGED vars
    <2>1. /\ UNCHANGED <<now, schedule, pc, iterated, operators, activeEpoch, thread, pool, nonce,
                         included, inbox, chain, anchor, built>>
      BY <1>5 DEF HandleBatch, Over, vars, l2, loop, l1
    <2> QED
      BY <2>1, RoomFacts, KnowsSame, PaceSame, AnchorSame, LeftSame, DeadlineSame
  <1>6. CASE Crash \/ Start \/ CallFails \/ SendFails \/ ReceiptFails
    BY <1>2, <1>6 DEF Crash, Start, CallFails, SendFails, ReceiptFails
  <1>7. CASE Boot
    <2>1. UNCHANGED <<now, schedule, chain, anchor, built, included, inbox>> /\ pc' = "top"
      BY <1>7 DEF Boot, l2, l1
    <2> QED
      BY <1>7, <2>1, RoomFacts, KnowsBoot, PaceBoot, AnchorSame, LeftSame, DeadlineBoot
  <1>8. CASE Iterate
    <2>1. /\ UNCHANGED <<now, schedule, chain, anchor, built, included, inbox>>
          /\ pc' \in {"top", "next"}
      BY <1>8 DEF Iterate, l2, l1
    <2> QED
      BY <1>8, <2>1, RoomFacts, KnowsIterate, PaceIterate, AnchorSame, LeftSame, DeadlineIterate
  <1>9. CASE QueryNext
    <2>1. /\ UNCHANGED <<now, schedule, chain, anchor, built, iterated, thread, pool, included,
                         inbox>>
          /\ pc' = "top"
      BY <1>9 DEF QueryNext, l2, l1
    <2> QED
      BY <1>9, <2>1, RoomFacts, KnowsQuery, PaceQuery, AnchorSame, LeftSame, DeadlineSame
  <1>10. CASE ReadParent \/ ReadNonce \/ EstimateGas \/ Submit \/ Receipt \/ TimesOut
    <2>1. UNCHANGED <<now, schedule, pc, iterated, operators, activeEpoch, included, inbox, chain,
                      anchor, built>>
      BY <1>10 DEF ReadParent, ReadNonce, EstimateGas, Submit, Receipt, TimesOut, l2, loop, l1
    <2>2. PaceInv'
      BY <1>10, PaceProposing, PaceSubmit, PaceWaitEnds
    <2> QED
      BY <1>10, <2>1, <2>2, RoomFacts, KnowsSame, AnchorSame, LeftSame, DeadlineThread
  <1>11. CASE L1Block
    <2>1. UNCHANGED <<now, schedule, pc, iterated, operators, activeEpoch, chain, anchor, built>>
      BY <1>11 DEF L1Block, l2, loop
    <2> QED
      BY <1>11, <2>1, RoomFacts, KnowsSame, PaceL1, AnchorSame, LeftL1, DeadlineL1
  <1> QED
    BY <1>3, <1>4, <1>5, <1>6, <1>7, <1>8, <1>9, <1>10, <1>11 DEF Next

\* A chain that has no gap had none.
LEMMA NoGapBefore ==
    ASSUME TypeInv, TypeInv', [Next]_vars, NoGap'
    PROVE  NoGap
  <1>1. SUFFICES ASSUME NEW n \in DOMAIN chain \ {1}
                 PROVE  chain[n].slot - chain[n - 1].slot <= MaxTimeShift
    BY DEF NoGap
  <1>2. n \in DOMAIN chain /\ n - 1 \in DOMAIN chain
    BY BlockFields
  <1>3. n \in DOMAIN chain' \ {1} /\ chain'[n] = chain[n] /\ chain'[n - 1] = chain[n - 1]
    BY <1>2, NoStepBack
  <1>4. chain'[n].slot - chain'[n - 1].slot <= MaxTimeShift
    BY <1>3 DEF NoGap
  <1> QED
    BY <1>3, <1>4

\* What holds of every behaviour in a calm environment without a gap.
CalmInv == TrackedInv /\ (Calm /\ NoGap /\ ~alarmed => RoomInv)

\* In a calm environment everything is tracked.
LEMMA CalmIsTracked ==
    ASSUME Calm, ~alarmed
    PROVE  Tracked
  BY CalmFields DEF Tracked

\* It holds at the start.
LEMMA CalmInit == Init => CalmInv
  BY TypeInit, TurnInit, ChainInit, SeqInit, RoomInit DEF TrackedInv, CalmInv

\* Every step keeps it.
LEMMA CalmStep ==
    ASSUME RoomForBatches, CalmInv, [Next]_vars
    PROVE  CalmInv'
  <1>1. TrackedInv'
    <2>1. TimeToInclude
      BY DEF TimeToInclude, RoomForBatches
    <2> QED
      BY <2>1, TrackedStep DEF CalmInv
  <1>2. ASSUME Calm', NoGap', ~alarmed' PROVE RoomInv'
    <2>1. TypeInv /\ TypeInv' /\ TurnInv'
      BY <1>1 DEF CalmInv, TrackedInv
    <2>2. Calm /\ ~alarmed
      BY <1>2, <2>1, NoStepBack DEF Calm
    <2>3. NoGap
      BY <1>2, <2>1, NoGapBefore
    <2>4. Tracked
      BY <2>2, CalmIsTracked
    <2>5. RoomContext
      BY <2>2, <2>3, <2>4 DEF RoomContext, SeqContext, CalmInv, TrackedInv
    <2> QED
      BY <2>1, <2>5, RoomStep
  <1> QED
    BY <1>1, <1>2 DEF CalmInv

\* What L1 has of the windows before is all of them.
LEMMA NothingLeftThen ==
    ASSUME CalmInv
    PROVE  AllProposed
  <1> SUFFICES ASSUME Calm, NoGap, ~alarmed, NEW n \in DOMAIN chain,
                      WindowEpoch(At(chain[n].slot)) < Here.epoch
               PROVE  Proposed(n)
    BY DEF AllProposed
  <1>1. TypeInv /\ ChainInv /\ NothingLeft
    BY DEF CalmInv, TrackedInv, RoomInv
  <1>2. WindowOf(n) \in Nat /\ WindowOf(n) < Here.epoch /\ Here.epoch \in Nat
    BY <1>1, WindowFacts, HereNow DEF WindowOf
  <1>3. ~(n > LastBlock)
    BY <1>1, <1>2 DEF NothingLeft
  <1>4. n \in Nat /\ n >= 1 /\ LastBlock \in Nat
    BY <1>1, BlockFields, LastBlockType
  <1>5. n \in 1..LastBlock
    BY <1>3, <1>4
  <1> QED
    BY <1>1, <1>5 DEF NothingLeft

\* In a layout that leaves time for it, every block that this preconfer built is
\* in the inbox when the first epoch of another operator after it begins, if no
\* call fails or is late: whatever the elected operators are, how many blocks a
\* slot has and when batches are large enough, the iterations that find the thread
\* ended come in time (confirmation_loop.rs, lines 63-103, and
\* confirmation_strategy.rs, lines 71-138).
THEOREM AllProposedCorrect == RoomForBatches => (Spec => []AllProposed)
  <1> SUFFICES ASSUME RoomForBatches PROVE Spec => []AllProposed
    OBVIOUS
  <1>1. Init => CalmInv
    BY CalmInit
  <1>2. CalmInv /\ [Next]_vars => CalmInv'
    BY CalmStep
  <1>3. CalmInv => AllProposed
    BY NothingLeftThen
  <1> QED
    BY <1>1, <1>2, <1>3, PTL DEF Spec

\* Then the batches hold the blocks in their order without any condition on what
\* was left, because nothing is (taiko_l1_client.rs, lines 124-245).
THEOREM InSequenceInCalm ==
    RoomForBatches => (Spec => [](Calm /\ NoGap /\ ~alarmed => InSequence))
  <1> SUFFICES ASSUME RoomForBatches
               PROVE  Spec => [](Calm /\ NoGap /\ ~alarmed => InSequence)
    OBVIOUS
  <1>1. Init => CalmInv
    BY CalmInit
  <1>2. CalmInv /\ [Next]_vars => CalmInv'
    BY CalmStep
  <1>3. CalmInv => (Calm /\ NoGap /\ ~alarmed => InSequence)
    <2> SUFFICES ASSUME CalmInv, Calm, NoGap, ~alarmed PROVE InSequence
      OBVIOUS
    <2>1. TypeInv /\ NothingLeft /\ InboxInv
      BY CalmIsTracked DEF CalmInv, TrackedInv, RoomInv, SeqInv
    <2>2. ASSUME NEW n \in DOMAIN chain, n <= LastBlock PROVE Proposed(n)
      <3>1. n \in Nat /\ n >= 1 /\ LastBlock \in Nat
        BY <2>1, BlockFields, LastBlockType
      <3>2. n \in 1..LastBlock
        BY <2>2, <3>1
      <3> QED
        BY <2>1, <3>2 DEF NothingLeft
    <2> QED
      BY <2>1, <2>2 DEF InboxInv
  <1> QED
    BY <1>1, <1>2, <1>3, PTL DEF Spec
=============================================================================
