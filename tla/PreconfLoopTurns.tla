--------------------------- MODULE PreconfLoopTurns ---------------------------
(***************************************************************************)
(* The other half of the decision of PreconfLoop: where nothing is late    *)
(* and nothing fails, the loop builds in all of its windows, and not only  *)
(* in no other.  BuildsInTurnCorrect needs a list without a wrong entry;   *)
(* this needs one without a gap at the moments it is read.  The blocks are *)
(* then also built on a fresh anchor.  And what a slow startup does to the *)
(* list and the active epoch does not outlast the window of its epoch.     *)
(***************************************************************************)
EXTENDS PreconfLoopProofs

\* Nothing is late, nothing fails, and an epoch has slots on both sides of the
\* start of its handover window.
Clean == Timely /\ ~env.rpcFails /\ HandoverSlots \in 1..(SlotsPerEpoch - 1)

HandoverStart == SlotsPerEpoch - HandoverSlots

\* The loop waits for nobody and has not ended.
NeverHeld == ~waiting /\ pc \notin {"hold", "stopped"}

\* At startup the current operator is asked for first.
KnowsCurrent == pc = "bootNext" => slot.epoch \in DOMAIN operators

Started == pc \notin {"bootCurrent", "bootNext"}

\* The operator of the next epoch is known once the last slot before the
\* handover window has had an iteration.
KnowsNext ==
    /\ Started
    /\ slot.slot >= HandoverStart \/ (pc = "top" /\ slot.slot = HandoverStart - 1)
    => slot.epoch + 1 \in DOMAIN operators

\* In the handover window the next epoch is active, if it is this preconfer's.
ActiveInHandover ==
    Started /\ slot.slot >= HandoverStart /\ schedule[slot.epoch + 1] = Me
    => slot.epoch + 1 \in activeEpoch

\* Before it the current epoch is active, or both it and the next one are known
\* to be this preconfer's: a loop that starts between two of its epochs holds
\* the later one active.
CoversCurrent ==
    Started /\ slot.slot < HandoverStart /\ schedule[slot.epoch] = Me
    => \/ slot.epoch \in activeEpoch
       \/ /\ slot.epoch \in DOMAIN operators /\ slot.epoch + 1 \in DOMAIN operators
          /\ schedule[slot.epoch + 1] = Me

CleanInv ==
    Clean => NeverHeld /\ KnowsCurrent /\ KnowsNext /\ ActiveInHandover /\ CoversCurrent

-----------------------------------------------------------------------------
(* What the calls leave in the list.                                       *)

\* The epochs a list is about after each call.
LEMMA ListDomains ==
    ASSUME NEW known, NEW epoch, NEW operator
    PROVE  /\ epoch \in DOMAIN UpdateCurrentOperator(known, epoch, operator)
           /\ DOMAIN UpdateNextOperator(known, epoch, operator)
                = (DOMAIN known \cap {epoch, epoch + 1}) \cup {epoch + 1}
           /\ DOMAIN ChangeEpoch(known, epoch) = {e \in DOMAIN known : e >= epoch}
  BY DEF UpdateCurrentOperator, UpdateNextOperator, ChangeEpoch, WithOperator, RetainEpochs

\* A list about two epochs, both of this preconfer, is what
\* is_current_and_next asks for.
LEMMA BothKnown ==
    ASSUME NEW known, NEW a \in Nat, DOMAIN known = {a, a + 1},
           known[a] = Me, known[a + 1] = Me
    PROVE  IsCurrentAndNext(known, Me)
  <1>1. a # a + 1
    OBVIOUS
  <1>2. IsFiniteSet({a}) /\ Cardinality({a}) = 1
    BY FS_Singleton
  <1>3. {a, a + 1} = {a} \cup {a + 1} /\ a + 1 \notin {a}
    BY <1>1
  <1>4. Cardinality({a, a + 1}) = 2
    BY <1>2, <1>3, FS_AddElement
  <1> QED
    BY <1>4 DEF IsCurrentAndNext

-----------------------------------------------------------------------------
(* The steps.                                                              *)

\* Before startup nothing is claimed but that nobody is waited for.
LEMMA CleanInit == Init => CleanInv
  BY DEF Init, CleanInv, NeverHeld, KnowsCurrent, KnowsNext, ActiveInHandover,
         CoversCurrent, Started

\* The slots of an epoch, where the loop has read the clock in it.
LEMMA CleanSlots ==
    ASSUME TypeOK, Clean
    PROVE  /\ slot.epoch \in Nat /\ slot.slot \in Nat /\ slot.slot < SlotsPerEpoch
           /\ clock.epoch \in Nat /\ clock.slot \in Nat /\ clock.slot < SlotsPerEpoch
           /\ HandoverStart \in 1..(SlotsPerEpoch - 1) /\ SlotsPerEpoch \in Nat
           /\ HandoverSlots \in Nat
           /\ clock \in Ticks /\ slot \in Ticks
  BY TickEpochs, SlotsAssumption DEF TypeOK, Clean, HandoverStart

\* No monitor is spawned.
LEMMA CleanApproach ==
    ASSUME Clean, SlotsPerEpoch \in Nat, NEW active, NEW at, ApproachBuild(active, at)
    PROVE  pc' = "build" /\ waiting' = waiting
  BY DEF ApproachBuild, Clean, IsFirstPreconfirmationSlot, IsHandoverStartSlot, IsEpochStart

\* The next L2 slot is in the same slot, in the first L2 slot of the next one
\* or in that of the next epoch.
LEMMA FollowingSlot ==
    ASSUME NEW t \in Ticks
    PROVE  \/ Following(t).epoch = t.epoch /\ Following(t).slot = t.slot
           \/ /\ Following(t).epoch = t.epoch /\ Following(t).slot = t.slot + 1
              /\ Following(t).sub = 0
           \/ /\ Following(t).epoch = t.epoch + 1 /\ Following(t).slot = 0
              /\ t.slot = SlotsPerEpoch - 1
  <1>1. t.slot \in 0..(SlotsPerEpoch - 1) /\ SlotsPerEpoch \in Nat
    BY SlotsAssumption DEF Ticks
  <1>2. t = [epoch |-> t.epoch, slot |-> t.slot, sub |-> t.sub]
    BY DEF Ticks
  <1>3. ~(t.slot + 1 < SlotsPerEpoch) => t.slot = SlotsPerEpoch - 1
    BY <1>1
  <1> QED
    BY <1>2, <1>3 DEF Following

\* An iteration finds the next operator in the list when the window opens, and
\* the current one active or in the list before.
LEMMA CleanIteration ==
    ASSUME TypeOK, TimelyInv, Clean, CleanInv, StartIteration
    PROVE  /\ KnowsNext' /\ ActiveInHandover' /\ CoversCurrent'
           /\ schedule[WindowEpoch(clock)] = Me =>
                 CanPreconfirm(activeEpoch', clock) \/ IsCurrentAndNext(operators', Me)
  <1> DEFINE E == clock.epoch
  <1>1. /\ slot.epoch \in Nat /\ slot.slot \in Nat /\ slot.slot < SlotsPerEpoch
        /\ E \in Nat /\ clock.slot \in Nat /\ clock.slot < SlotsPerEpoch
        /\ HandoverStart \in 1..(SlotsPerEpoch - 1) /\ SlotsPerEpoch \in Nat
        /\ HandoverSlots \in Nat /\ slot \in Ticks
    BY CleanSlots
  <1>2. /\ OnTime /\ ListTrue /\ ActiveTrue /\ ListOfNow
        /\ KnowsNext /\ ActiveInHandover /\ CoversCurrent /\ Started /\ pc = "top"
    BY DEF TimelyInv, Clean, CleanInv, StartIteration, Started
  <1>3. /\ slot' = clock /\ clock' = clock /\ schedule' = schedule
        /\ operators' = IF IsEpochStart(clock) THEN ChangeEpoch(operators, E) ELSE operators
        /\ activeEpoch' = IF /\ IsHandoverStartSlot(clock.slot)
                             /\ clock.sub = 0
                             /\ IsActiveIn(operators', Me, E + 1)
                          THEN {E + 1} ELSE activeEpoch
    BY DEF StartIteration
  <1>4. \/ E = slot.epoch /\ clock.slot = slot.slot
        \/ E = slot.epoch /\ clock.slot = slot.slot + 1 /\ clock.sub = 0
        \/ E = slot.epoch + 1 /\ clock.slot = 0 /\ slot.slot = SlotsPerEpoch - 1
    BY <1>1, <1>2, FollowingSlot DEF OnTime
  <1>5. ListTrue' /\ ActiveTrue' /\ ListOfNow'
    BY <1>2, ActivatesTruly, TimelyIteration
  <1>6. DOMAIN ChangeEpoch(operators, E) = {e \in DOMAIN operators : e >= E}
    BY ListDomains
  <1>7. \A e \in DOMAIN operators : e \in {E, E + 1} => e \in DOMAIN operators'
    BY <1>1, <1>3, <1>6
  <1>8. pc' = "top" => clock.slot # HandoverStart - 1
    <2>1. pc' = "top" => pc' = AfterBuild(clock)
      BY DEF StartIteration, ApproachBuild
    <2> QED
      BY <2>1 DEF AfterBuild, IsLastSlotBeforeHandoverWindow, HandoverStart
  <1>9. ASSUME clock.slot >= HandoverStart
        PROVE  E + 1 \in DOMAIN operators'
    <2>1. E = slot.epoch /\ slot.slot >= HandoverStart - 1
      BY <1>1, <1>4, <1>9
    <2>2. E + 1 \in DOMAIN operators
      BY <1>1, <1>2, <2>1 DEF KnowsNext
    <2> QED
      BY <1>7, <2>2
  <1>10. ASSUME clock.slot >= HandoverStart, schedule[E + 1] = Me
         PROVE  E + 1 \in activeEpoch'
    <2>1. CASE slot.slot >= HandoverStart
      <3>1. E = slot.epoch
        BY <1>1, <1>4, <1>10
      <3>2. E + 1 \in activeEpoch
        BY <1>2, <1>10, <2>1, <3>1 DEF ActiveInHandover
      <3> QED
        BY <1>3, <3>2
    <2>2. CASE slot.slot < HandoverStart
      <3>1. clock.slot = HandoverStart /\ clock.sub = 0
        BY <1>1, <1>4, <1>10, <2>2
      <3>2. operators'[E + 1] = Me
        BY <1>3, <1>5, <1>9, <1>10 DEF ListTrue
      <3>3. IsActiveIn(operators', Me, E + 1)
        BY <1>9, <1>10, <3>2 DEF IsActiveIn
      <3> QED
        BY <1>3, <3>1, <3>3 DEF IsHandoverStartSlot, HandoverStart
    <2> QED
      BY <1>1, <2>1, <2>2
  <1>11. ASSUME clock.slot < HandoverStart, schedule[E] = Me
         PROVE  \/ E \in activeEpoch'
                \/ E \in DOMAIN operators' /\ E + 1 \in DOMAIN operators' /\ schedule[E + 1] = Me
    <2>1. activeEpoch' = activeEpoch
      BY <1>1, <1>3, <1>11 DEF IsHandoverStartSlot, HandoverStart
    <2>2. CASE E = slot.epoch
      <3>1. slot.slot < HandoverStart
        BY <1>1, <1>4, <1>11, <2>2
      <3> QED
        BY <1>2, <1>7, <1>11, <2>1, <2>2, <3>1 DEF CoversCurrent
    <2>3. CASE E # slot.epoch
      <3>1. E = slot.epoch + 1 /\ slot.slot >= HandoverStart
        BY <1>1, <1>4, <2>3
      <3> QED
        BY <1>2, <1>11, <2>1, <3>1 DEF ActiveInHandover
    <2> QED
      BY <2>2, <2>3
  <1>12. KnowsNext' /\ ActiveInHandover' /\ CoversCurrent'
    <2>1. HandoverStart' = HandoverStart
      BY DEF HandoverStart
    <2> QED
      BY <1>3, <1>8, <1>9, <1>10, <1>11, <2>1 DEF KnowsNext, ActiveInHandover, CoversCurrent
  <1>13. ASSUME schedule[WindowEpoch(clock)] = Me
         PROVE  CanPreconfirm(activeEpoch', clock) \/ IsCurrentAndNext(operators', Me)
    <2>1. CASE clock.slot >= HandoverStart
      <3>1. WithinHandoverPeriod(clock.slot) /\ schedule[E + 1] = Me
        BY <1>13, <2>1 DEF WindowEpoch, WithinHandoverPeriod, HandoverStart
      <3> QED
        BY <1>10, <2>1, <3>1 DEF CanPreconfirm
    <2>2. CASE clock.slot < HandoverStart
      <3>1. ~WithinHandoverPeriod(clock.slot)
        BY <1>1, <2>2 DEF WithinHandoverPeriod, HandoverStart
      <3>2. schedule[E] = Me
        BY <1>13, <3>1 DEF WindowEpoch
      <3>3. CASE E \in activeEpoch'
        BY <3>1, <3>3 DEF CanPreconfirm
      <3>4. CASE E \in DOMAIN operators' /\ E + 1 \in DOMAIN operators' /\ schedule[E + 1] = Me
        <4>1. DOMAIN operators' = {E, E + 1}
          BY <1>3, <1>5, <3>4 DEF ListOfNow
        <4>2. operators'[E] = Me /\ operators'[E + 1] = Me
          BY <1>3, <1>5, <3>2, <3>4 DEF ListTrue
        <4> QED
          BY <1>1, <4>1, <4>2, BothKnown
      <3> QED
        BY <1>11, <2>2, <3>2, <3>3, <3>4
    <2> QED
      BY <1>1, <2>1, <2>2
  <1> QED
    BY <1>12, <1>13

\* What only moves the loop on within an iteration.
LEMMA CleanMoves ==
    ASSUME TypeOK, Clean, CleanInv, Started, Started', NeverHeld',
           UNCHANGED <<schedule, slot, operators, activeEpoch>>,
           pc' = "top" => pc = "top" \/ slot.slot # HandoverStart - 1
    PROVE  CleanInv'
  <1>1. HandoverStart' = HandoverStart
    BY DEF HandoverStart
  <1>2. KnowsNext /\ ActiveInHandover /\ CoversCurrent
    BY DEF CleanInv
  <1>3. KnowsNext' /\ ActiveInHandover' /\ CoversCurrent'
    BY <1>1, <1>2 DEF KnowsNext, ActiveInHandover, CoversCurrent
  <1> QED
    BY <1>3 DEF CleanInv, KnowsCurrent, Started

\* Every step keeps the invariant: one step of the proof per action.
LEMMA CleanStep == TypeOK /\ TimelyInv /\ CleanInv /\ [Next]_vars => CleanInv'
  <1> SUFFICES ASSUME TypeOK, TimelyInv, CleanInv, [Next]_vars, Clean'
               PROVE  CleanInv'
    BY DEF CleanInv
  <1>1. env' = env /\ schedule' = schedule
    BY DEF Next, Tick, MonitorDone, BootCurrent, BootNext, SkipWhileWaiting,
           StartIteration, AnchorUpdated, AnchorFailed, HoldSkips, HoldEnds,
           BuildDone, QueryNext, StaysStopped, vars
  <1>2. Clean
    BY <1>1 DEF Clean, Timely
  <1>3. /\ NeverHeld /\ KnowsCurrent /\ KnowsNext /\ ActiveInHandover /\ CoversCurrent
        /\ OnTime /\ ListTrue /\ ActiveTrue /\ ListOfNow
    BY <1>2 DEF CleanInv, TimelyInv, Clean
  <1>4. /\ slot.epoch \in Nat /\ slot.slot \in Nat /\ slot.slot < SlotsPerEpoch
        /\ HandoverStart \in 1..(SlotsPerEpoch - 1) /\ SlotsPerEpoch \in Nat
    BY <1>2, CleanSlots
  <1>5. CASE Tick
    <2>1. UNCHANGED <<schedule, pc, slot, operators, activeEpoch, waiting>>
      BY <1>5 DEF Tick
    <2>2. CASE Started
      BY <1>2, <1>3, <2>1, <2>2, CleanMoves DEF NeverHeld, Started
    <2>3. CASE ~Started
      BY <1>3, <2>1, <2>3 DEF CleanInv, NeverHeld, KnowsCurrent, KnowsNext, ActiveInHandover,
                              CoversCurrent, Started
    <2> QED
      BY <2>2, <2>3
  <1>6. CASE BootCurrent
    <2>1. /\ pc' = "bootNext" /\ UNCHANGED <<slot, waiting>>
          /\ operators' = UpdateCurrentOperator(operators, slot.epoch, schedule[clock.epoch])
      BY <1>2, <1>6 DEF BootCurrent, Clean
    <2>2. slot.epoch \in DOMAIN operators'
      BY <2>1, ListDomains
    <2> QED
      BY <1>3, <2>1, <2>2 DEF CleanInv, NeverHeld, KnowsCurrent, KnowsNext, ActiveInHandover,
                              CoversCurrent, Started
  <1>7. CASE BootNext
    <2> DEFINE E == slot.epoch
    <2>1. /\ pc = "bootNext" /\ pc' = "top" /\ UNCHANGED <<slot, schedule, waiting>>
          /\ operators' = UpdateNextOperator(operators, E, schedule[clock.epoch + 1])
          /\ activeEpoch' = IF IsActiveIn(operators', Me, E + 1) THEN {E + 1}
                            ELSE IF IsActiveIn(operators', Me, E) THEN {E} ELSE activeEpoch
      BY <1>2, <1>7 DEF BootNext, Clean
    <2>2. E \in DOMAIN operators' /\ E + 1 \in DOMAIN operators'
      <3>1. DOMAIN UpdateNextOperator(operators, E, schedule[clock.epoch + 1])
              = (DOMAIN operators \cap {E, E + 1}) \cup {E + 1}
        BY ListDomains
      <3>2. E \in DOMAIN operators
        BY <1>3, <2>1 DEF KnowsCurrent
      <3> QED
        BY <2>1, <3>1, <3>2
    <2>3. \A e \in DOMAIN operators' : operators'[e] = schedule[e]
      BY <1>3, <2>1, AnswerTrue DEF OnTime
    <2>4. schedule[E + 1] = Me => activeEpoch' = {E + 1}
      BY <2>1, <2>2, <2>3 DEF IsActiveIn
    <2>5. schedule[E + 1] # Me /\ schedule[E] = Me => activeEpoch' = {E}
      BY <2>1, <2>2, <2>3 DEF IsActiveIn
    <2>6. KnowsNext' /\ ActiveInHandover' /\ CoversCurrent'
      BY <2>1, <2>2, <2>4, <2>5 DEF KnowsNext, ActiveInHandover, CoversCurrent, HandoverStart
    <2> QED
      BY <1>3, <2>1, <2>6 DEF CleanInv, NeverHeld, KnowsCurrent
  <1>8. CASE StartIteration
    <2>1. KnowsNext' /\ ActiveInHandover' /\ CoversCurrent'
      BY <1>2, <1>8, CleanIteration
    <2>2. pc' \in {"anchor", "build", "top", "next"} /\ waiting' = waiting
      BY <1>2, <1>4, <1>8, CleanApproach DEF StartIteration, AfterBuild
    <2> QED
      BY <1>3, <2>1, <2>2 DEF CleanInv, NeverHeld, KnowsCurrent
  <1>9. CASE AnchorUpdated
    <2>1. pc = "anchor" /\ pc' = "build" /\ UNCHANGED <<slot, operators, activeEpoch, waiting>>
      BY <1>2, <1>4, <1>9, CleanApproach DEF AnchorUpdated
    <2> QED
      BY <1>1, <1>2, <1>3, <2>1, CleanMoves DEF NeverHeld, Started
  <1>10. CASE BuildDone
    <2>1. /\ pc = "build" /\ pc' = AfterBuild(slot)
          /\ UNCHANGED <<slot, operators, activeEpoch, waiting>>
      BY <1>10 DEF BuildDone
    <2>2. /\ pc' \in {"top", "next"}
          /\ pc' = "top" => slot.slot # HandoverStart - 1
      BY <2>1 DEF AfterBuild, IsLastSlotBeforeHandoverWindow, HandoverStart
    <2> QED
      BY <1>1, <1>2, <1>3, <2>1, <2>2, CleanMoves DEF NeverHeld, Started
  <1>11. CASE QueryNext
    <2> DEFINE E == slot.epoch
    <2>1. /\ pc = "next" /\ pc' = "top" /\ UNCHANGED <<slot, schedule, activeEpoch, waiting>>
          /\ operators' = UpdateNextOperator(operators, E, schedule[clock.epoch + 1])
      BY <1>2, <1>11 DEF QueryNext, Clean
    <2>2. /\ E + 1 \in DOMAIN operators'
          /\ E \in DOMAIN operators => E \in DOMAIN operators'
      <3>1. DOMAIN UpdateNextOperator(operators, E, schedule[clock.epoch + 1])
              = (DOMAIN operators \cap {E, E + 1}) \cup {E + 1}
        BY ListDomains
      <3> QED
        BY <2>1, <3>1
    <2>3. KnowsNext' /\ ActiveInHandover' /\ CoversCurrent'
      BY <1>3, <2>1, <2>2 DEF KnowsNext, ActiveInHandover, CoversCurrent, HandoverStart, Started
    <2> QED
      BY <1>3, <2>1, <2>3 DEF CleanInv, NeverHeld, KnowsCurrent
  <1>12. CASE StaysStopped \/ UNCHANGED vars
    BY <1>3, <1>12 DEF StaysStopped, NeverHeld, vars, CleanInv, KnowsCurrent, KnowsNext,
                       ActiveInHandover, CoversCurrent, Started, HandoverStart
  <1>13. ~(MonitorDone \/ SkipWhileWaiting \/ AnchorFailed \/ HoldSkips \/ HoldEnds)
    BY <1>2, <1>3 DEF MonitorDone, SkipWhileWaiting, AnchorFailed, HoldSkips, HoldEnds,
                      NeverHeld, Clean
  <1> QED
    BY <1>5, <1>6, <1>7, <1>8, <1>9, <1>10, <1>11, <1>12, <1>13 DEF Next

\* If nothing fails and nothing is late an iteration approaches build_block
\* exactly in the windows of this preconfer, wherever in the epoch the process
\* started and whichever epochs in a row it is elected for
\* (PreconfLoop.DecidesByWindow).
THEOREM DecidesByWindowCorrect ==
    HandoverSlots \in 1..(SlotsPerEpoch - 1) => (Spec => DecidesByWindow)
  <1> SUFFICES ASSUME HandoverSlots \in 1..(SlotsPerEpoch - 1)
               PROVE  Spec => DecidesByWindow
    OBVIOUS
  <1> DEFINE Inv == TypeOK /\ TimelyInv /\ CleanInv
  <1>1. Init => Inv
    BY TypeInit, TimelyInit, CleanInit
  <1>2. Inv /\ [Next]_vars => Inv'
    BY TypeStep, TimelyStep, CleanStep
  <1>3. Inv /\ [Next]_vars =>
          [ Timely /\ ~env.rpcFails /\ StartIteration =>
              (pc' \in {"anchor", "hold", "build"}
                 <=> schedule[WindowEpoch(clock)] = Me) ]_vars
    <2> SUFFICES ASSUME Inv, Timely, ~env.rpcFails, StartIteration
                 PROVE  pc' \in {"anchor", "hold", "build"}
                          <=> schedule[WindowEpoch(clock)] = Me
      OBVIOUS
    <2>1. Clean /\ slot' = clock /\ schedule' = schedule
      BY DEF Clean, StartIteration
    <2>2. CommittedInTurn'
      BY <2>1, TimelyIteration DEF TimelyInv
    <2>3. schedule[WindowEpoch(clock)] = Me =>
             CanPreconfirm(activeEpoch', clock) \/ IsCurrentAndNext(operators', Me)
      BY <2>1, CleanIteration
    <2>4. CanPreconfirm(activeEpoch', clock) \/ IsCurrentAndNext(operators', Me) =>
             pc' \in {"anchor", "hold", "build"}
      BY DEF StartIteration, ApproachBuild
    <2>5. pc' \in {"anchor", "hold", "build"} => schedule[WindowEpoch(clock)] = Me
      BY <2>1, <2>2 DEF CommittedInTurn
    <2> QED
      BY <2>3, <2>4, <2>5
  <1> QED
    BY <1>1, <1>2, <1>3, PTL DEF Spec, DecidesByWindow

-----------------------------------------------------------------------------
(* The layout in which the preconfer does wait.                            *)

\* The first block of a window is approached after a monitor was spawned.
Monitored ==
    /\ pc \in {"hold", "build"}
    /\ IsFirstPreconfirmationSlot(activeEpoch, slot)
    /\ slot.sub = 0
    => slot.epoch + 1 \in monitored

\* Where the handover window is the epoch, its first slot is the epoch's.
LEMMA ApproachMonitored ==
    ASSUME HandoverSlots = SlotsPerEpoch,
           ApproachBuild(activeEpoch', slot')
    PROVE  Monitored'
  <1>1. IsHandoverStartSlot(slot'.slot) => slot'.slot = 0
    BY SlotsAssumption DEF IsHandoverStartSlot
  <1> QED
    BY <1>1 DEF ApproachBuild, Monitored, IsFirstPreconfirmationSlot, IsEpochStart

\* Every step keeps it.
LEMMA MonitoredStep ==
    HandoverSlots = SlotsPerEpoch => (Monitored /\ [Next]_vars => Monitored')
  <1> SUFFICES ASSUME HandoverSlots = SlotsPerEpoch, Monitored, [Next]_vars
               PROVE  Monitored'
    OBVIOUS
  <1> USE DEF Monitored
  <1>1. CASE Tick
    BY <1>1 DEF Tick
  <1>2. CASE MonitorDone
    BY <1>2 DEF MonitorDone
  <1>3. CASE BootCurrent
    BY <1>3 DEF BootCurrent
  <1>4. CASE BootNext
    BY <1>4 DEF BootNext
  <1>5. CASE SkipWhileWaiting
    BY <1>5 DEF SkipWhileWaiting
  <1>6. CASE StartIteration
    <2>1. CASE ApproachBuild(activeEpoch', clock)
      BY <1>6, <2>1, ApproachMonitored DEF StartIteration
    <2>2. CASE pc' = "anchor" \/ pc' = AfterBuild(clock)
      BY <2>2 DEF AfterBuild
    <2> QED
      BY <1>6, <2>1, <2>2 DEF StartIteration
  <1>7. CASE AnchorUpdated
    BY <1>7, ApproachMonitored DEF AnchorUpdated
  <1>8. CASE AnchorFailed
    BY <1>8 DEF AnchorFailed
  <1>9. CASE HoldSkips
    BY <1>9 DEF HoldSkips
  <1>10. CASE HoldEnds
    BY <1>10 DEF HoldEnds
  <1>11. CASE BuildDone
    BY <1>11 DEF BuildDone, AfterBuild
  <1>12. CASE QueryNext
    BY <1>12 DEF QueryNext
  <1>13. CASE UNCHANGED vars
    BY <1>13 DEF vars
  <1> QED
    BY <1>1, <1>2, <1>3, <1>4, <1>5, <1>6, <1>7, <1>8, <1>9, <1>10, <1>11, <1>12,
       <1>13 DEF Next, StaysStopped

\* Where the handover window is the whole epoch a preconfer never builds the
\* first block of its window without having asked whether the one before has
\* ended (preconfirmation_loop.rs, lines 107-136); in all other layouts it
\* never asks (NeverWaits).
THEOREM HandoverWaitsCorrect ==
    HandoverSlots = SlotsPerEpoch => (Spec => []HandoverWaits)
  <1> SUFFICES ASSUME HandoverSlots = SlotsPerEpoch
               PROVE  Spec => []HandoverWaits
    OBVIOUS
  <1>1. Init => Monitored
    BY DEF Init, Monitored
  <1>2. Monitored /\ [Next]_vars => Monitored'
    BY MonitoredStep
  <1>3. Monitored => HandoverWaits
    BY DEF Monitored, HandoverWaits, BuildsFirstBlock
  <1> QED
    BY <1>1, <1>2, <1>3, PTL DEF Spec

-----------------------------------------------------------------------------
(* The age of the anchor.                                                  *)

\* The anchor is refreshed in the iterations in which it is due, but only by a
\* loop that is about to build.  So it is fresh if the loop that builds now has
\* wanted to build in every iteration since the anchor was due, or since startup.

\* Ticks since the anchor was last due.
Phase(t) == ((t.slot + HandoverSlots) % AnchorIdLag) * SubslotsPerSlot + t.sub

\* The condition of line 94, for what the loop knows now.
Wants == CanPreconfirm(activeEpoch, slot) \/ IsCurrentAndNext(operators, Me)

FreshSinceDue == anchorAge <= Phase(slot) + behind

\* An epoch that is known to be this preconfer's is acted on: an answer of the
\* whitelist alone does not make the loop build, only the start of a window.
ActsOnCurrent ==
    Started /\ slot.slot < HandoverStart /\ IsActiveIn(operators, Me, slot.epoch)
    => slot.epoch \in activeEpoch \/ IsCurrentAndNext(operators, Me)

ActsOnNext ==
    Started /\ slot.slot >= HandoverStart /\ IsActiveIn(operators, Me, slot.epoch + 1)
    => slot.epoch + 1 \in activeEpoch

FreshInv ==
    Timely => /\ ~Started => anchorAge = 0
              /\ ActsOnCurrent /\ ActsOnNext /\ NextAsksBeforeHandover
              /\ pc \in {"hold", "build"} => FreshSinceDue
              /\ pc \in {"top", "next"} /\ Wants => FreshSinceDue

\* There is a handover window, and it begins in a slot in which the anchor is
\* due in every epoch.
DueAtHandover == HandoverSlots # 0 /\ SlotsPerEpoch % AnchorIdLag = 0

\* The quotient and the remainder are unique.
LEMMA RemainderUnique ==
    ASSUME NEW L \in Nat \ {0}, NEW q \in Int, NEW r \in 0..(L - 1),
           NEW p \in Int, NEW s \in 0..(L - 1), q * L + r = p * L + s
    PROVE  r = s
  <1> DEFINE d == q - p
  <1>1. d \in Int /\ d * L = s - r
    OBVIOUS
  <1> HIDE DEF d
  <1>2. \A n \in Nat : (n + 1) * L >= L
    <2> TAKE n \in Nat
    <2>1. (n + 1) * L = n * L + L /\ n * L \in Nat
      OBVIOUS
    <2> QED
      BY <2>1
  <1>3. ~(d >= 1)
    <2> SUFFICES ASSUME d >= 1 PROVE FALSE
      OBVIOUS
    <2>1. d - 1 \in Nat /\ d = (d - 1) + 1
      BY <1>1
    <2>2. d * L >= L
      BY <1>2, <2>1
    <2> QED
      BY <1>1, <2>2
  <1>4. ~(d <= -1)
    <2> SUFFICES ASSUME d <= -1 PROVE FALSE
      OBVIOUS
    <2> DEFINE n == (-d) - 1
    <2>1. n \in Nat /\ n + 1 = -d
      BY <1>1
    <2>2. (n + 1) * L >= L
      BY <1>2, <2>1
    <2>3. (-d) * L = -(d * L)
      BY <1>1
    <2> QED
      BY <1>1, <2>1, <2>2, <2>3
  <1>5. d = 0
    BY <1>1, <1>3, <1>4
  <1> QED
    BY <1>1, <1>5

\* Remainders of consecutive numbers.
LEMMA NextRemainder ==
    ASSUME NEW x \in Nat, NEW L \in Nat \ {0}
    PROVE  /\ x % L \in 0..(L - 1)
           /\ (x + 1) % L # 0 => (x + 1) % L = (x % L) + 1
  <1> DEFINE q == x \div L
             o == (x + 1) \div L
             r == x % L
             u == (x + 1) % L
  <1>1. /\ q \in Int /\ o \in Int /\ r \in 0..(L - 1) /\ u \in 0..(L - 1)
        /\ x = q * L + r /\ x + 1 = o * L + u
    OBVIOUS
  <1> HIDE DEF q, o, r, u
  <1>2. CASE r + 1 < L
    <2>1. r + 1 \in 0..(L - 1) /\ q * L + (r + 1) = o * L + u
      BY <1>1, <1>2
    <2>2. r + 1 = u
      BY <1>1, <2>1, RemainderUnique
    <2> QED
      BY <1>1, <2>2 DEF r, u
  <1>3. CASE r + 1 = L
    <2>1. 0 \in 0..(L - 1) /\ (q + 1) * L + 0 = o * L + u /\ q + 1 \in Int
      BY <1>1, <1>3
    <2>2. 0 = u
      BY <1>1, <2>1, RemainderUnique
    <2> QED
      BY <1>1, <2>2 DEF r, u
  <1> QED
    BY <1>1, <1>2, <1>3

\* Remainders are the same a whole number of periods later.
LEMMA SameRemainder ==
    ASSUME NEW x \in Nat, NEW L \in Nat \ {0}, NEW S \in Nat, S % L = 0
    PROVE  (S + x) % L = x % L
  <1> DEFINE q == x \div L
             p == S \div L
             o == (S + x) \div L
             r == x % L
             u == (S + x) % L
  <1>1. /\ q \in Int /\ p \in Int /\ o \in Int /\ r \in 0..(L - 1) /\ u \in 0..(L - 1)
        /\ x = q * L + r /\ S = p * L /\ S + x = o * L + u
    OBVIOUS
  <1> HIDE DEF q, p, o, r, u
  <1>2. (p + q) * L + r = o * L + u
    BY <1>1
  <1>3. p + q \in Int
    BY <1>1
  <1>4. r = u
    BY <1>1, <1>2, <1>3, RemainderUnique
  <1> QED
    BY <1>4 DEF r, u

\* The slots of the anchor, for any tick.
LEMMA PhaseSlot ==
    ASSUME NEW t \in Ticks
    PROVE  /\ t.slot \in Nat /\ t.sub \in Nat /\ t.sub < SubslotsPerSlot
           /\ t.slot + HandoverSlots \in Nat /\ AnchorIdLag \in Nat \ {0}
           /\ SubslotsPerSlot \in Nat \ {0}
           /\ (t.slot + HandoverSlots) % AnchorIdLag \in 0..(AnchorIdLag - 1)
  <1>1. /\ t.slot \in Nat /\ t.sub \in Nat /\ t.sub < SubslotsPerSlot
        /\ HandoverSlots \in Nat /\ AnchorIdLag \in Nat \ {0} /\ SubslotsPerSlot \in Nat \ {0}
    BY TickEpochs, SlotsAssumption, LoopAssumption
  <1>2. t.slot + HandoverSlots \in Nat
    BY <1>1
  <1> QED
    BY <1>1, <1>2, NextRemainder

\* The anchor is due again before its lifetime is over.
LEMMA PhaseBound ==
    ASSUME NEW t \in Ticks
    PROVE  Phase(t) \in Nat /\ Phase(t) < AnchorLifetime
  <1> DEFINE r == (t.slot + HandoverSlots) % AnchorIdLag
  <1>1. /\ r \in 0..(AnchorIdLag - 1) /\ t.sub \in Nat /\ t.sub < SubslotsPerSlot
        /\ AnchorIdLag \in Nat \ {0} /\ SubslotsPerSlot \in Nat \ {0}
    BY PhaseSlot
  <1>2. Phase(t) = r * SubslotsPerSlot + t.sub
    BY DEF Phase
  <1> HIDE DEF r
  <1>3. (AnchorIdLag - r) * SubslotsPerSlot >= SubslotsPerSlot
    <2> DEFINE n == AnchorIdLag - r - 1
    <2>1. n \in Nat /\ AnchorIdLag - r = n + 1
      BY <1>1
    <2> HIDE DEF n
    <2>2. (n + 1) * SubslotsPerSlot = n * SubslotsPerSlot + SubslotsPerSlot
          /\ n * SubslotsPerSlot \in Nat
      BY <1>1, <2>1
    <2> QED
      BY <1>1, <2>1, <2>2
  <1>4. (AnchorIdLag - r) * SubslotsPerSlot
          = AnchorIdLag * SubslotsPerSlot - r * SubslotsPerSlot
    BY <1>1
  <1>5. r * SubslotsPerSlot \in Nat /\ AnchorIdLag * SubslotsPerSlot \in Nat
    BY <1>1
  <1> QED
    BY <1>1, <1>2, <1>3, <1>4, <1>5 DEF AnchorLifetime

\* A tick that is not due comes one tick after the one before it, also at the
\* end of an epoch.
LEMMA PhaseFollows ==
    ASSUME DueAtHandover, NEW t \in Ticks, ~AnchorIsDue(Following(t))
    PROVE  Phase(Following(t)) = Phase(t) + 1
  <1> DEFINE f == Following(t)
             x == t.slot + HandoverSlots
             r == x % AnchorIdLag
             u == (x + 1) % AnchorIdLag
  <1>1. /\ x \in Nat /\ AnchorIdLag \in Nat \ {0} /\ SubslotsPerSlot \in Nat \ {0}
        /\ r \in Nat /\ t.sub \in Nat /\ t.sub < SubslotsPerSlot /\ t.slot \in Nat
        /\ t.slot < SlotsPerEpoch /\ HandoverSlots \in Nat /\ SlotsPerEpoch \in Nat
    BY PhaseSlot, SlotsAssumption, TickEpochs
  <1>2. t = [epoch |-> t.epoch, slot |-> t.slot, sub |-> t.sub]
    BY DEF Ticks
  <1>3. u # 0 => u = r + 1
    BY <1>1, NextRemainder
  <1>4. ASSUME f.sub = 0, t.sub + 1 = SubslotsPerSlot,
               (f.slot + HandoverSlots) % AnchorIdLag = u
        PROVE  Phase(f) = Phase(t) + 1
    <2>1. u = r + 1
      BY <1>3, <1>4 DEF AnchorIsDue
    <2>2. Phase(f) = (r + 1) * SubslotsPerSlot
      <3>1. Phase(f) = u * SubslotsPerSlot + 0
        BY <1>4 DEF Phase
      <3> QED
        BY <1>1, <2>1, <3>1
    <2>3. Phase(t) = r * SubslotsPerSlot + t.sub
      BY DEF Phase
    <2> HIDE DEF r, x, u, f
    <2>4. (r + 1) * SubslotsPerSlot = r * SubslotsPerSlot + SubslotsPerSlot
          /\ r * SubslotsPerSlot \in Nat
      BY <1>1
    <2> QED
      BY <1>1, <1>4, <2>2, <2>3, <2>4
  <1>5. CASE t.sub + 1 < SubslotsPerSlot
    <2>1. f.slot = t.slot /\ f.sub = t.sub + 1
      BY <1>2, <1>5 DEF Following
    <2>2. Phase(f) = r * SubslotsPerSlot + (t.sub + 1) /\ Phase(t) = r * SubslotsPerSlot + t.sub
      BY <2>1 DEF Phase
    <2>3. r * SubslotsPerSlot \in Nat
      BY <1>1
    <2> QED
      BY <1>1, <2>2, <2>3
  <1>6. CASE ~(t.sub + 1 < SubslotsPerSlot) /\ t.slot + 1 < SlotsPerEpoch
    <2>1. f.slot = t.slot + 1 /\ f.sub = 0 /\ t.sub + 1 = SubslotsPerSlot
      BY <1>1, <1>6 DEF Following
    <2>2. f.slot + HandoverSlots = x + 1
      BY <1>1, <2>1
    <2> QED
      BY <1>4, <2>1, <2>2
  <1>7. CASE ~(t.sub + 1 < SubslotsPerSlot) /\ ~(t.slot + 1 < SlotsPerEpoch)
    <2>1. f.slot = 0 /\ f.sub = 0 /\ t.sub + 1 = SubslotsPerSlot /\ t.slot + 1 = SlotsPerEpoch
      <3>1. f = [epoch |-> t.epoch + 1, slot |-> 0, sub |-> 0]
        BY <1>7 DEF Following
      <3>2. t.sub + 1 = SubslotsPerSlot
        BY <1>1, <1>7
      <3>3. t.slot + 1 = SlotsPerEpoch
        BY <1>1, <1>7
      <3> QED
        BY <3>1, <3>2, <3>3
    <2>2. x + 1 = SlotsPerEpoch + HandoverSlots /\ f.slot + HandoverSlots = HandoverSlots
      BY <1>1, <2>1
    <2>3. (SlotsPerEpoch + HandoverSlots) % AnchorIdLag = HandoverSlots % AnchorIdLag
      <3>1. SlotsPerEpoch % AnchorIdLag = 0 /\ HandoverSlots \in Nat /\ SlotsPerEpoch \in Nat
        BY <1>1 DEF DueAtHandover
      <3> QED
        BY <1>1, <3>1, SameRemainder, Zenon
    <2>4. (f.slot + HandoverSlots) % AnchorIdLag = u
      BY <2>2, <2>3
    <2> QED
      BY <1>4, <2>1, <2>4
  <1> QED
    BY <1>5, <1>6, <1>7

\* A window begins in a tick in which the anchor is due.
LEMMA DueAtStart ==
    ASSUME DueAtHandover, NEW t \in Ticks, IsHandoverStartSlot(t.slot), t.sub = 0
    PROVE  AnchorIsDue(t)
  <1>1. SlotsPerEpoch \in Nat /\ HandoverSlots \in Nat
    BY SlotsAssumption
  <1>2. t.slot + HandoverSlots = SlotsPerEpoch
    BY <1>1 DEF IsHandoverStartSlot
  <1> QED
    BY <1>2 DEF AnchorIsDue, DueAtHandover

\* The last iteration of a timely loop was this L2 slot's or the one's before.
LEMMA TimelySlots ==
    ASSUME TypeOK, OnTime, pc = "top"
    PROVE  /\ slot \in Ticks /\ clock \in Ticks
           /\ slot.epoch \in Nat /\ clock.epoch \in Nat
           /\ slot.slot \in Nat /\ slot.slot < SlotsPerEpoch
           /\ clock.slot \in Nat /\ clock.slot < SlotsPerEpoch
           /\ SlotsPerEpoch \in Nat /\ HandoverSlots \in 0..SlotsPerEpoch
           /\ \/ behind = 0 /\ clock = slot
              \/ behind = 1 /\ clock = Following(slot)
           /\ \/ clock.epoch = slot.epoch /\ clock.slot = slot.slot
              \/ clock.epoch = slot.epoch /\ clock.slot = slot.slot + 1 /\ clock.sub = 0
              \/ /\ clock.epoch = slot.epoch + 1 /\ clock.slot = 0 /\ clock.sub = 0
                 /\ slot.slot = SlotsPerEpoch - 1
  <1>1. slot \in Ticks /\ clock \in Ticks
    BY DEF TypeOK
  <1>2. \/ behind = 0 /\ clock = slot
        \/ behind = 1 /\ clock = Following(slot)
    BY DEF OnTime
  <1>3. Following(slot).epoch = slot.epoch + 1 => Following(slot).sub = 0
    BY <1>1, TickEpochs, FollowingEpoch DEF IsEpochStart
  <1> QED
    BY <1>1, <1>2, <1>3, TickEpochs, FollowingSlot, SlotsAssumption

\* A timely loop that wants to build, in an iteration in which the anchor is not
\* due, has wanted to build before it: nothing but the start of a window, where
\* it is due, and the end of startup makes it want to.
LEMMA WantedBefore ==
    ASSUME TypeOK, OnTime, ListOfNow, DueAtHandover, StartIteration,
           ~AnchorIsDue(clock), Wants'
    PROVE  Wants
  <1>1. /\ slot.epoch \in Nat /\ clock.epoch \in Nat
        /\ slot.slot \in Nat /\ clock.slot \in Nat /\ slot.slot < SlotsPerEpoch
        /\ SlotsPerEpoch \in Nat /\ HandoverSlots \in 1..SlotsPerEpoch
        /\ clock \in Ticks
        /\ \/ clock.epoch = slot.epoch /\ clock.slot = slot.slot
           \/ clock.epoch = slot.epoch /\ clock.slot = slot.slot + 1 /\ clock.sub = 0
           \/ clock.epoch = slot.epoch + 1 /\ clock.slot = 0 /\ slot.slot = SlotsPerEpoch - 1
    BY TimelySlots DEF StartIteration, DueAtHandover
  <1>2. ~(IsHandoverStartSlot(clock.slot) /\ clock.sub = 0)
    BY <1>1, DueAtStart
  <1>3. activeEpoch' = activeEpoch /\ slot' = clock
    BY <1>2 DEF StartIteration
  <1>4. CASE CanPreconfirm(activeEpoch, clock)
    <2>1. PICK e \in activeEpoch :
             \/ clock.epoch + 1 = e /\ WithinHandoverPeriod(clock.slot)
             \/ clock.epoch = e /\ ~WithinHandoverPeriod(clock.slot)
      BY <1>4 DEF CanPreconfirm
    <2>2. \/ slot.epoch + 1 = e /\ WithinHandoverPeriod(slot.slot)
          \/ slot.epoch = e /\ ~WithinHandoverPeriod(slot.slot)
      <3>1. CASE clock.epoch + 1 = e /\ WithinHandoverPeriod(clock.slot)
        <4>1. clock.slot > SlotsPerEpoch - HandoverSlots \/ clock.sub # 0
          BY <1>1, <1>2, <3>1 DEF WithinHandoverPeriod, IsHandoverStartSlot
        <4>2. clock.epoch = slot.epoch + 1 => clock.sub = 0
          BY <1>1, FollowingEpoch, TimelySlots DEF StartIteration
        <4>3. clock.epoch = slot.epoch
          BY <1>1, <4>1, <4>2
        <4>4. slot.slot >= SlotsPerEpoch - HandoverSlots
          BY <1>1, <3>1, <4>1, <4>3 DEF WithinHandoverPeriod
        <4> QED
          BY <3>1, <4>3, <4>4 DEF WithinHandoverPeriod
      <3>2. CASE clock.epoch = e /\ ~WithinHandoverPeriod(clock.slot)
        BY <1>1, <3>2 DEF WithinHandoverPeriod
      <3> QED
        BY <2>1, <3>1, <3>2
    <2> QED
      BY <2>2 DEF Wants, CanPreconfirm
  <1>5. CASE IsCurrentAndNext(operators', Me)
    <2>1. \A e \in DOMAIN operators' : e \in DOMAIN operators /\ operators'[e] = operators[e]
      <3>1. IsView(operators, Epochs, Operators)
        BY DEF TypeOK, IsView
      <3>2. \A e \in DOMAIN ChangeEpoch(operators, clock.epoch) :
               /\ e \in DOMAIN operators
               /\ ChangeEpoch(operators, clock.epoch)[e] = operators[e]
        BY <3>1, ChangeEpochView
      <3> QED
        BY <3>2 DEF StartIteration
    <2>2. DOMAIN operators' \subseteq {slot.epoch, slot.epoch + 1}
      BY <2>1 DEF ListOfNow
    <2>3. /\ slot.epoch \in DOMAIN operators' /\ slot.epoch + 1 \in DOMAIN operators'
          /\ operators'[slot.epoch] = Me /\ operators'[slot.epoch + 1] = Me
      BY <1>5, <2>2, CurrentAndNextKnowsBoth
    <2>4. /\ DOMAIN operators = {slot.epoch, slot.epoch + 1}
          /\ operators[slot.epoch] = Me /\ operators[slot.epoch + 1] = Me
      BY <2>1, <2>3 DEF ListOfNow
    <2>5. IsCurrentAndNext(operators, Me)
      BY <1>1, <2>4, BothKnown
    <2> QED
      BY <2>5 DEF Wants
  <1> QED
    BY <1>3, <1>4, <1>5 DEF Wants

\* An iteration keeps acting on the epochs it knows to be this preconfer's.
LEMMA ActsIteration ==
    ASSUME TypeOK, OnTime, ListOfNow, ActsOnCurrent, ActsOnNext,
           HandoverSlots # 0, StartIteration
    PROVE  ActsOnCurrent' /\ ActsOnNext'
  <1> DEFINE E == clock.epoch
  <1>1. /\ slot.epoch \in Nat /\ E \in Nat
        /\ slot.slot \in Nat /\ clock.slot \in Nat /\ slot.slot < SlotsPerEpoch
        /\ HandoverStart \in 0..(SlotsPerEpoch - 1) /\ SlotsPerEpoch \in Nat
        /\ \/ E = slot.epoch /\ clock.slot = slot.slot
           \/ E = slot.epoch /\ clock.slot = slot.slot + 1 /\ clock.sub = 0
           \/ /\ E = slot.epoch + 1 /\ clock.slot = 0 /\ clock.sub = 0
              /\ slot.slot = SlotsPerEpoch - 1
    BY TimelySlots DEF StartIteration, HandoverStart
  <1>2. /\ slot' = clock /\ Started
        /\ operators' = IF IsEpochStart(clock) THEN ChangeEpoch(operators, E) ELSE operators
        /\ activeEpoch' = IF /\ IsHandoverStartSlot(clock.slot)
                             /\ clock.sub = 0
                             /\ IsActiveIn(operators', Me, E + 1)
                          THEN {E + 1} ELSE activeEpoch
    BY DEF StartIteration, Started
  <1>3. HandoverStart' = HandoverStart
    BY DEF HandoverStart
  <1>4. \A e \in DOMAIN operators' : e \in DOMAIN operators /\ operators'[e] = operators[e]
    <2>1. IsView(operators, Epochs, Operators)
      BY DEF TypeOK, IsView
    <2>2. \A e \in DOMAIN ChangeEpoch(operators, E) :
             e \in DOMAIN operators /\ ChangeEpoch(operators, E)[e] = operators[e]
      BY <2>1, ChangeEpochView
    <2> QED
      BY <1>2, <2>2
  <1>5. ASSUME clock.slot < HandoverStart, IsActiveIn(operators', Me, E)
        PROVE  E \in activeEpoch' \/ IsCurrentAndNext(operators', Me)
    <2>1. activeEpoch' = activeEpoch
      BY <1>1, <1>2, <1>5 DEF IsHandoverStartSlot, HandoverStart
    <2>2. IsActiveIn(operators, Me, E)
      BY <1>4, <1>5 DEF IsActiveIn
    <2>3. CASE E = slot.epoch
      <3>1. slot.slot < HandoverStart
        BY <1>1, <1>5, <2>3
      <3>2. E \in activeEpoch \/ IsCurrentAndNext(operators, Me)
        BY <1>2, <2>2, <2>3, <3>1 DEF ActsOnCurrent
      <3>3. ASSUME IsEpochStart(clock) PROVE operators' = operators
        <4>1. \A e \in DOMAIN operators : e >= E
          BY <1>1, <2>3 DEF ListOfNow
        <4>2. ChangeEpoch(operators, E) = [e \in DOMAIN operators |-> operators[e]]
          BY <4>1 DEF ChangeEpoch, RetainEpochs
        <4> QED
          BY <1>2, <3>3, <4>2 DEF TypeOK
      <3> QED
        BY <1>2, <2>1, <3>2, <3>3
    <2>4. CASE E = slot.epoch + 1
      <3>1. slot.slot >= HandoverStart
        BY <1>1, <2>4
      <3>2. E \in activeEpoch
        BY <1>2, <2>2, <2>4, <3>1 DEF ActsOnNext
      <3> QED
        BY <2>1, <3>2
    <2> QED
      BY <1>1, <2>3, <2>4
  <1>6. ASSUME clock.slot >= HandoverStart, IsActiveIn(operators', Me, E + 1)
        PROVE  E + 1 \in activeEpoch'
    <2>1. CASE clock.slot = HandoverStart /\ clock.sub = 0
      BY <1>2, <1>6, <2>1 DEF IsHandoverStartSlot, HandoverStart
    <2>2. CASE ~(clock.slot = HandoverStart /\ clock.sub = 0)
      <3>1. E = slot.epoch /\ slot.slot >= HandoverStart
        BY <1>1, <1>6, <2>2
      <3>2. IsActiveIn(operators, Me, E + 1)
        BY <1>4, <1>6 DEF IsActiveIn
      <3>3. E + 1 \in activeEpoch
        BY <1>2, <3>1, <3>2 DEF ActsOnNext
      <3> QED
        BY <1>2, <3>3
    <2> QED
      BY <2>1, <2>2
  <1> QED
    BY <1>2, <1>3, <1>5, <1>6 DEF ActsOnCurrent, ActsOnNext

\* An iteration that goes on to build without a refresh has an anchor that was
\* refreshed since it was due.
LEMMA FreshIteration ==
    ASSUME TypeOK, Timely, TimelyInv, FreshInv, DueAtHandover, StartIteration
    PROVE  FreshInv'
  <1>1. /\ OnTime /\ ListOfNow /\ ActsOnCurrent /\ ActsOnNext /\ Started
        /\ Wants => FreshSinceDue
    BY DEF TimelyInv, FreshInv, StartIteration, Started
  <1>2. ActsOnCurrent' /\ ActsOnNext'
    BY <1>1, ActsIteration DEF DueAtHandover
  <1>3. slot' = clock /\ behind' = 0 /\ anchorAge' = anchorAge
    BY DEF StartIteration
  <1>4. ASSUME ~AnchorIsDue(clock), Wants'
        PROVE  FreshSinceDue'
    <2>1. FreshSinceDue
      BY <1>1, <1>4, WantedBefore
    <2>2. /\ slot \in Ticks /\ clock \in Ticks
          /\ \/ behind = 0 /\ clock = slot
             \/ behind = 1 /\ clock = Following(slot)
      BY <1>1, TimelySlots DEF StartIteration
    <2>3. Phase(clock) = Phase(slot) + behind /\ Phase(clock) \in Nat
      BY <1>4, <2>2, PhaseFollows, PhaseBound
    <2>4. FreshSinceDue' <=> anchorAge <= Phase(clock) + 0
      BY <1>3 DEF FreshSinceDue, Phase
    <2> QED
      BY <2>1, <2>3, <2>4 DEF FreshSinceDue
  <1>5. ~Wants' => pc' \in {"top", "next"}
    BY <1>3 DEF StartIteration, Wants, AfterBuild
  <1>6. Wants' => IF AnchorIsDue(clock) THEN pc' = "anchor" ELSE pc' \in {"hold", "build"}
    BY <1>3 DEF StartIteration, Wants, ApproachBuild
  <1>7. NextAsksBeforeHandover'
    BY <1>3 DEF StartIteration, ApproachBuild, AfterBuild, NextAsksBeforeHandover
  <1> QED
    BY <1>2, <1>4, <1>5, <1>6, <1>7 DEF FreshInv, Started

\* What only moves the loop on within an iteration.
LEMMA FreshMoves ==
    ASSUME TypeOK, FreshInv, Timely, Started, Started',
           UNCHANGED <<slot, operators, activeEpoch, behind, anchorAge>>,
           pc' \in {"hold", "build"} => pc = "hold",
           pc' \in {"top", "next"} => pc \in {"hold", "build"},
           pc' = "next" => IsLastSlotBeforeHandoverWindow(slot.slot)
    PROVE  FreshInv'
  <1>1. /\ Wants' <=> Wants
        /\ FreshSinceDue' <=> FreshSinceDue
        /\ ActsOnCurrent' /\ ActsOnNext'
    BY DEF Wants, FreshSinceDue, Phase, FreshInv, ActsOnCurrent, ActsOnNext, HandoverStart,
           Started
  <1> QED
    BY <1>1 DEF FreshInv, Started, NextAsksBeforeHandover

\* FreshInv holds initially.
LEMMA FreshInit == Init => FreshInv
  BY DEF Init, FreshInv, Started, ActsOnCurrent, ActsOnNext, NextAsksBeforeHandover

\* Every step keeps the invariant: one step of the proof per action.
LEMMA FreshStep ==
    DueAtHandover => (TypeOK /\ TimelyInv /\ FreshInv /\ [Next]_vars => FreshInv')
  <1> SUFFICES ASSUME DueAtHandover, TypeOK, TimelyInv, FreshInv, [Next]_vars, Timely'
               PROVE  FreshInv'
    BY DEF FreshInv
  <1>1. env' = env
    BY DEF Next, Tick, MonitorDone, BootCurrent, BootNext, SkipWhileWaiting,
           StartIteration, AnchorUpdated, AnchorFailed, HoldSkips, HoldEnds,
           BuildDone, QueryNext, StaysStopped, vars
  <1>2. Timely
    BY <1>1 DEF Timely
  <1>3. /\ OnTime /\ WaitsInFirstSlot /\ ListTrue /\ ListOfNow
        /\ ActsOnCurrent /\ ActsOnNext /\ NextAsksBeforeHandover
        /\ ~Started => anchorAge = 0
        /\ pc \in {"hold", "build"} => FreshSinceDue
        /\ pc \in {"top", "next"} /\ Wants => FreshSinceDue
    BY <1>2 DEF TimelyInv, FreshInv
  <1>4. /\ slot \in Ticks /\ clock \in Ticks /\ pc \in Locations
        /\ slot.epoch \in Nat /\ behind \in Nat /\ anchorAge \in Nat
        /\ Phase(slot) \in Nat /\ Phase(clock) \in Nat
    BY TickEpochs, PhaseBound, AnchorLifetimeType DEF TypeOK
  <1>5. CASE Tick
    <2>1. UNCHANGED <<pc, slot, operators, activeEpoch>>
      BY <1>5 DEF Tick
    <2>2. Started
      BY <1>2, <1>4, <1>5 DEF Tick, Allowance, Started, Timely
    <2>3. FreshSinceDue /\ pc # "stopped" => FreshSinceDue'
      <3>1. Phase(slot)' = Phase(slot)
        BY <2>1 DEF Phase
      <3>2. pc # "stopped" => behind' = behind + 1 /\ anchorAge' <= anchorAge + 1
        BY <1>4, <1>5 DEF Tick
      <3>3. anchorAge' \in Nat
        BY <1>4, <1>5 DEF Tick
      <3> QED
        BY <1>4, <3>1, <3>2, <3>3 DEF FreshSinceDue
    <2>4. (Wants' <=> Wants) /\ ActsOnCurrent' /\ ActsOnNext'
      BY <1>3, <2>1 DEF Wants, ActsOnCurrent, ActsOnNext, HandoverStart, Started
    <2> QED
      BY <1>3, <2>1, <2>2, <2>3, <2>4 DEF FreshInv, Started, NextAsksBeforeHandover
  <1>6. CASE BootCurrent
    BY <1>3, <1>6 DEF BootCurrent, FreshInv, Started, ActsOnCurrent, ActsOnNext,
                            NextAsksBeforeHandover
  <1>7. CASE BootNext
    <2> DEFINE E == slot.epoch
    <2>1. /\ pc = "bootNext" /\ pc' = "top" /\ UNCHANGED <<slot, schedule, anchorAge>>
          /\ behind' = 0 /\ anchorAge = 0
          /\ activeEpoch' = IF IsActiveIn(operators', Me, E + 1) THEN {E + 1}
                            ELSE IF IsActiveIn(operators', Me, E) THEN {E} ELSE activeEpoch
      BY <1>3, <1>7 DEF BootNext, Started
    <2>2. FreshSinceDue'
      BY <1>4, <2>1 DEF FreshSinceDue, Phase
    <2>3. ListOfNow'
      BY <1>3, <1>7, AnswerTrue DEF BootNext, OnTime, ListOfNow
    <2>4. ASSUME IsActiveIn(operators', Me, E)
          PROVE  E \in activeEpoch' \/ IsCurrentAndNext(operators', Me)
      <3>1. CASE IsActiveIn(operators', Me, E + 1)
        <4>1. DOMAIN operators' = {E, E + 1} /\ operators'[E] = Me /\ operators'[E + 1] = Me
          BY <2>1, <2>3, <2>4, <3>1 DEF IsActiveIn, ListOfNow
        <4> QED
          BY <1>4, <4>1, BothKnown
      <3>2. CASE ~IsActiveIn(operators', Me, E + 1)
        BY <2>1, <2>4, <3>2
      <3> QED
        BY <3>1, <3>2
    <2>5. IsActiveIn(operators', Me, E + 1) => E + 1 \in activeEpoch'
      BY <2>1
    <2>6. ActsOnCurrent' /\ ActsOnNext'
      BY <2>1, <2>4, <2>5 DEF ActsOnCurrent, ActsOnNext
    <2> QED
      BY <2>1, <2>2, <2>6 DEF FreshInv, Started, NextAsksBeforeHandover
  <1>8. CASE SkipWhileWaiting
    <2>1. /\ pc = "top" /\ pc' = "top" /\ waiting /\ slot' = clock /\ behind' = 0
          /\ UNCHANGED <<operators, activeEpoch, anchorAge>>
      BY <1>8 DEF SkipWhileWaiting
    <2>2. /\ clock.epoch = slot.epoch /\ clock.slot = 0
      BY <1>3, <2>1 DEF WaitsInFirstSlot
    <2>3. /\ \/ behind = 0 /\ clock = slot
             \/ behind = 1 /\ clock = Following(slot)
          /\ slot.slot = 0
      BY <1>3, <2>1, <2>2, TimelySlots
    <2>4. FreshSinceDue => FreshSinceDue'
      <3>1. Phase(clock) = Phase(slot) + behind
        <4>1. CASE behind = 0 /\ clock = slot
          BY <1>4, <4>1
        <4>2. CASE behind = 1 /\ clock = Following(slot)
          <5>1. clock.sub = slot.sub + 1
            <6>1. slot = [epoch |-> slot.epoch, slot |-> slot.slot, sub |-> slot.sub]
              BY <1>4 DEF Ticks
            <6> QED
              BY <1>4, <2>2, <2>3, <4>2, <6>1 DEF Following
          <5>2. ((0 + HandoverSlots) % AnchorIdLag) * SubslotsPerSlot \in Nat /\ slot.sub \in Nat
            <6> DEFINE r == (slot.slot + HandoverSlots) % AnchorIdLag
            <6>1. r \in Nat /\ SubslotsPerSlot \in Nat /\ slot.sub \in Nat
              BY <1>4, PhaseSlot
            <6> HIDE DEF r
            <6>2. r * SubslotsPerSlot \in Nat
              BY <6>1
            <6> QED
              BY <2>3, <6>1, <6>2 DEF r
          <5> QED
            BY <2>2, <2>3, <4>2, <5>1, <5>2 DEF Phase
        <4> QED
          BY <2>3, <4>1, <4>2
      <3>2. FreshSinceDue' <=> anchorAge <= Phase(clock) + 0
        BY <2>1 DEF FreshSinceDue, Phase
      <3> QED
        BY <1>4, <3>1, <3>2 DEF FreshSinceDue
    <2>5. Wants' => Wants
      BY <2>1, <2>2, <2>3 DEF Wants, CanPreconfirm
    <2>6. ActsOnCurrent' /\ ActsOnNext'
      BY <1>3, <2>1, <2>2, <2>3 DEF ActsOnCurrent, ActsOnNext, HandoverStart, Started
    <2> QED
      BY <1>3, <2>1, <2>4, <2>5, <2>6 DEF FreshInv, Started, NextAsksBeforeHandover
  <1>9. CASE StartIteration
    BY <1>2, <1>9, FreshIteration
  <1>10. CASE AnchorUpdated
    <2>1. /\ pc = "anchor" /\ pc' \in {"hold", "build"} /\ anchorAge' = 0
          /\ UNCHANGED <<slot, behind, operators, activeEpoch>>
      BY <1>10 DEF AnchorUpdated, ApproachBuild
    <2>2. FreshSinceDue'
      BY <1>4, <2>1 DEF FreshSinceDue, Phase
    <2>3. ActsOnCurrent' /\ ActsOnNext'
      BY <1>3, <2>1 DEF ActsOnCurrent, ActsOnNext, HandoverStart, Started
    <2> QED
      BY <2>1, <2>2, <2>3 DEF FreshInv, Started, NextAsksBeforeHandover
  <1>11. CASE MonitorDone \/ HoldSkips \/ HoldEnds
    <2>1. UNCHANGED <<slot, operators, activeEpoch, behind, anchorAge>>
      BY <1>11 DEF MonitorDone, HoldSkips, HoldEnds
    <2>2. CASE HoldSkips \/ HoldEnds
      BY <1>2, <2>1, <2>2, FreshMoves DEF HoldSkips, HoldEnds, Started
    <2>3. CASE MonitorDone
      <3>1. pc' = pc
        BY <2>3 DEF MonitorDone
      <3>2. (Wants' <=> Wants) /\ (FreshSinceDue' <=> FreshSinceDue)
            /\ ActsOnCurrent' /\ ActsOnNext'
        BY <1>3, <2>1, <3>1 DEF Wants, FreshSinceDue, Phase, ActsOnCurrent, ActsOnNext,
                                HandoverStart, Started
      <3> QED
        BY <1>3, <2>1, <3>1, <3>2 DEF FreshInv, Started, NextAsksBeforeHandover
    <2> QED
      BY <1>11, <2>2, <2>3
  <1>12. CASE AnchorFailed
    BY <1>2, <1>12, FreshMoves DEF AnchorFailed, Started
  <1>13. CASE BuildDone
    <2>1. pc' \in {"top", "next"}
      BY <1>13 DEF BuildDone, AfterBuild
    <2>2. pc' = "next" => IsLastSlotBeforeHandoverWindow(slot.slot)
      BY <1>13 DEF BuildDone, AfterBuild
    <2> QED
      BY <1>2, <1>13, <2>1, <2>2, FreshMoves DEF BuildDone, Started
  <1>14. CASE QueryNext
    <2> DEFINE E == slot.epoch
    <2>1. pc = "next" /\ pc' = "top" /\ UNCHANGED <<slot, behind, activeEpoch, anchorAge, schedule>>
      BY <1>14 DEF QueryNext
    <2>2. (FreshSinceDue' <=> FreshSinceDue) /\ HandoverStart' = HandoverStart
      BY <2>1 DEF FreshSinceDue, Phase, HandoverStart
    <2>3. CASE operators' = operators
      BY <1>3, <2>1, <2>2, <2>3 DEF FreshInv, Started, NextAsksBeforeHandover,
                                        ActsOnCurrent, ActsOnNext, Wants
    <2>4. CASE operators' = UpdateNextOperator(operators, E, schedule[clock.epoch + 1])
      <3>1. ListTrue' /\ ListOfNow'
        BY <1>3, <1>14, AnswerTrue DEF QueryNext, OnTime, ListTrue, ListOfNow
      <3>2. DOMAIN operators' = (DOMAIN operators \cap {E, E + 1}) \cup {E + 1}
        BY <2>4, ListDomains
      <3>3. \A e \in DOMAIN operators : e \in DOMAIN operators' /\ operators'[e] = operators[e]
        BY <1>3, <2>1, <3>1, <3>2 DEF ListTrue, ListOfNow
      <3>4. \A e \in DOMAIN operators' : e # E + 1 => e \in DOMAIN operators
        BY <3>2
      <3>5. IsCurrentAndNext(operators, Me) => IsCurrentAndNext(operators', Me)
        <4> SUFFICES ASSUME IsCurrentAndNext(operators, Me)
                     PROVE  IsCurrentAndNext(operators', Me)
          OBVIOUS
        <4>1. /\ E \in DOMAIN operators /\ E + 1 \in DOMAIN operators
              /\ operators[E] = Me /\ operators[E + 1] = Me
          BY <1>3, CurrentAndNextKnowsBoth DEF ListOfNow
        <4>2. DOMAIN operators' = {E, E + 1} /\ operators'[E] = Me /\ operators'[E + 1] = Me
          BY <3>2, <3>3, <4>1
        <4> QED
          BY <1>4, <4>2, BothKnown
      <3>6. IsActiveIn(operators', Me, E) => IsActiveIn(operators, Me, E)
        BY <1>4, <3>3, <3>4 DEF IsActiveIn
      <3>7. slot.slot = HandoverStart - 1 /\ ~WithinHandoverPeriod(slot.slot)
        BY <1>3, <1>4, <2>1, TickEpochs, SlotsAssumption
           DEF NextAsksBeforeHandover, IsLastSlotBeforeHandoverWindow, HandoverStart,
               WithinHandoverPeriod
      <3>8. slot.slot < HandoverStart /\ ~(slot.slot >= HandoverStart)
        BY <1>4, <3>7, TickEpochs, SlotsAssumption DEF HandoverStart
      <3>9. ActsOnCurrent'
        BY <1>3, <2>1, <2>2, <3>5, <3>6, <3>8 DEF ActsOnCurrent, Started
      <3>10. ActsOnNext'
        BY <2>1, <2>2, <3>8 DEF ActsOnNext
      <3>11. Wants' => Wants
        <4>1. CASE CanPreconfirm(activeEpoch', slot')
          BY <2>1, <4>1 DEF Wants
        <4>2. CASE IsCurrentAndNext(operators', Me)
          <5>1. IsActiveIn(operators', Me, E)
            BY <2>1, <3>1, <4>2, CurrentAndNextKnowsBoth DEF ListOfNow, IsActiveIn
          <5>2. E \in activeEpoch \/ IsCurrentAndNext(operators, Me)
            BY <1>3, <2>1, <3>6, <3>8, <5>1 DEF ActsOnCurrent, Started
          <5> QED
            BY <3>7, <5>2 DEF Wants, CanPreconfirm
        <4> SUFFICES ASSUME Wants' PROVE Wants
          OBVIOUS
        <4> QED
          BY <4>1, <4>2 DEF Wants
      <3> QED
        BY <1>3, <2>1, <2>2, <3>9, <3>10, <3>11 DEF FreshInv, Started, NextAsksBeforeHandover
    <2> QED
      BY <1>14, <2>3, <2>4 DEF QueryNext
  <1>15. CASE StaysStopped \/ UNCHANGED vars
    BY <1>3, <1>15 DEF StaysStopped, vars, FreshInv, Started, NextAsksBeforeHandover, ActsOnCurrent,
                       ActsOnNext, Wants, FreshSinceDue, Phase, HandoverStart
  <1> QED
    BY <1>5, <1>6, <1>7, <1>8, <1>9, <1>10, <1>11, <1>12, <1>13, <1>14, <1>15 DEF Next

\* A block never carries an anchor that was refreshed as long ago as the lag, if
\* no iteration is late, whatever calls fail and whenever the process and its
\* turns begin (preconfirmation_loop.rs, lines 96-105).  There has to be a
\* handover window, and the epoch must be a multiple of the lag, as in the sample
\* configuration: otherwise a turn may begin in a slot in which no anchor is due.
THEOREM AnchorFreshCorrect == DueAtHandover => (Spec => []AnchorFresh)
  <1> SUFFICES ASSUME DueAtHandover
               PROVE  Spec => []AnchorFresh
    OBVIOUS
  <1> DEFINE Inv == TypeOK /\ TimelyInv /\ FreshInv
  <1>1. Init => Inv
    BY TypeInit, TimelyInit, FreshInit
  <1>2. Inv /\ [Next]_vars => Inv'
    BY TypeStep, TimelyStep, FreshStep
  <1>3. Inv => AnchorFresh
    <2> SUFFICES ASSUME Inv, Timely, pc = "build"
                 PROVE  anchorAge < AnchorLifetime
      BY DEF AnchorFresh
    <2>1. anchorAge <= Phase(slot) + 0
      BY DEF FreshInv, TimelyInv, OnTime, FreshSinceDue
    <2>2. Phase(slot) \in Nat /\ Phase(slot) < AnchorLifetime
      BY PhaseBound DEF TypeOK
    <2>3. anchorAge \in Nat /\ AnchorLifetime \in Nat
      BY AnchorLifetimeType DEF TypeOK
    <2> QED
      BY <2>1, <2>2, <2>3
  <1> QED
    BY <1>1, <1>2, <1>3, PTL DEF Spec

-----------------------------------------------------------------------------
(* A slow startup.                                                         *)

\* The first iteration of an epoch is due: the loop still lives in the epoch
\* before.
EpochDue == pc = "top" /\ behind = 1 /\ IsEpochStart(clock)

LivesIn == IF EpochDue THEN clock.epoch - 1 ELSE clock.epoch

\* What is known of the epoch after E is right, and nothing is known of later
\* ones.  Two entries of this preconfer say so of the one after E, also if they
\* are filed under epochs before.
NextIsRight(known, active, E) ==
    /\ \A e \in DOMAIN known : e <= E + 1
    /\ E + 1 \in DOMAIN known => known[E + 1] = schedule[E + 1]
    /\ IsCurrentAndNext(known, Me) => schedule[E + 1] = Me
    /\ \A e \in active : e <= E + 1
    /\ E + 1 \in active => schedule[E + 1] = Me

\* The list is about E and the next epoch, and what is known of E is right.
CurrentIsRight(known, active, E) ==
    /\ DOMAIN known \subseteq {E, E + 1}
    /\ E \in DOMAIN known => known[E] = schedule[E]
    /\ E \in active => schedule[E] = Me

\* The work of an iteration is done within its L2 slot.
Punctual ==
    /\ pc \in {"anchor", "hold", "build", "next"} => behind = 0 /\ clock = slot
    /\ pc = "top" => behind \in {0, 1}
    /\ waiting => Started /\ behind <= waited

\* Up to its end startup has only asked for the current operator.
Starting ==
    ~Started => /\ slot.epoch <= clock.epoch
                /\ DOMAIN operators \subseteq {slot.epoch}
                /\ activeEpoch = {}

Approaches == pc \in {"anchor", "hold", "build"}

StartInv ==
    env.maxLag = 0 =>
        /\ Punctual /\ WaitsInFirstSlot /\ Starting
        /\ Started /\ pc # "stopped" => NextIsRight(operators, activeEpoch, LivesIn)
        /\ Approaches /\ WithinHandoverPeriod(slot.slot) => schedule[slot.epoch + 1] = Me

\* From the epoch after e on, the current epoch is right as well.
RightAfter(e) ==
    /\ Started
    /\ pc # "stopped" /\ LivesIn > e =>
          /\ CurrentIsRight(operators, activeEpoch, LivesIn)
          /\ Approaches => schedule[WindowEpoch(slot)] = Me

\* The clock moves on within an epoch or to the start of the next one.
LEMMA FollowingStart ==
    ASSUME NEW t \in Ticks
    PROVE  \/ Following(t).epoch = t.epoch /\ ~IsEpochStart(Following(t))
           \/ Following(t).epoch = t.epoch + 1 /\ IsEpochStart(Following(t))
  <1>1. /\ t = [epoch |-> t.epoch, slot |-> t.slot, sub |-> t.sub]
        /\ t.epoch \in Nat /\ t.slot \in Nat /\ t.sub \in Nat
    BY TickEpochs DEF Ticks
  <1>2. CASE t.sub + 1 < SubslotsPerSlot
    <2>1. Following(t).epoch = t.epoch /\ Following(t).sub = t.sub + 1
      BY <1>1, <1>2 DEF Following
    <2> QED
      BY <1>1, <2>1 DEF IsEpochStart
  <1>3. CASE ~(t.sub + 1 < SubslotsPerSlot) /\ t.slot + 1 < SlotsPerEpoch
    <2>1. Following(t).epoch = t.epoch /\ Following(t).slot = t.slot + 1
      BY <1>3 DEF Following
    <2> QED
      BY <1>1, <2>1 DEF IsEpochStart
  <1>4. CASE ~(t.sub + 1 < SubslotsPerSlot) /\ ~(t.slot + 1 < SlotsPerEpoch)
    <2>1. Following(t) = [epoch |-> t.epoch + 1, slot |-> 0, sub |-> 0]
      BY <1>4 DEF Following
    <2> QED
      BY <2>1 DEF IsEpochStart
  <1> QED
    BY <1>2, <1>3, <1>4

\* The list after change_epoch is a part of the one before.
LEMMA ChangedList ==
    ASSUME TypeOK, NEW epoch
    PROVE  LET new == ChangeEpoch(operators, epoch) IN
           \A e \in DOMAIN new :
              e \in DOMAIN operators /\ e >= epoch /\ new[e] = operators[e]
  <1>1. IsView(operators, Epochs, Operators)
    BY DEF TypeOK, IsView
  <1> QED
    BY <1>1, ChangeEpochView

\* What an iteration decides, on a list that may be wrong about the current
\* epoch.
LEMMA StartDecision ==
    ASSUME NEW known, NEW active, NEW at \in Ticks,
           NextIsRight(known, active, at.epoch),
           CanPreconfirm(active, at) \/ IsCurrentAndNext(known, Me)
    PROVE  /\ WithinHandoverPeriod(at.slot) => schedule[at.epoch + 1] = Me
           /\ CurrentIsRight(known, active, at.epoch) => schedule[WindowEpoch(at)] = Me
  <1>1. CASE CanPreconfirm(active, at)
    BY <1>1 DEF CanPreconfirm, NextIsRight, CurrentIsRight, WindowEpoch
  <1>2. CASE IsCurrentAndNext(known, Me)
    <2>1. schedule[at.epoch + 1] = Me
      BY <1>2 DEF NextIsRight
    <2>2. CurrentIsRight(known, active, at.epoch) => schedule[at.epoch] = Me
      BY <1>2, CurrentAndNextKnowsBoth DEF CurrentIsRight
    <2> QED
      BY <2>1, <2>2 DEF WindowEpoch
  <1> QED
    BY <1>1, <1>2

\* An iteration, also the first after a slow startup, keeps what is right, and
\* the first one of an epoch drops what may be wrong.
LEMMA StartIterationRight ==
    ASSUME TypeOK, StartIteration, behind \in {0, 1},
           NextIsRight(operators, activeEpoch, LivesIn)
    PROVE  /\ LivesIn' = clock.epoch
           /\ NextIsRight(operators', activeEpoch', clock.epoch)
           /\ \/ CurrentIsRight(operators, activeEpoch, LivesIn) /\ LivesIn = clock.epoch
              \/ LivesIn + 1 = clock.epoch
              => CurrentIsRight(operators', activeEpoch', clock.epoch)
           /\ LivesIn \in {clock.epoch - 1, clock.epoch}
  <1> DEFINE E == clock.epoch
  <1>1. E \in Nat /\ clock \in Ticks
    BY TickEpochs DEF TypeOK
  <1>2. /\ behind' = 0 /\ clock' = clock /\ schedule' = schedule /\ pc = "top"
        /\ operators' = IF IsEpochStart(clock) THEN ChangeEpoch(operators, E) ELSE operators
        /\ activeEpoch' = IF /\ IsHandoverStartSlot(clock.slot)
                             /\ clock.sub = 0
                             /\ IsActiveIn(operators', Me, E + 1)
                          THEN {E + 1} ELSE activeEpoch
    BY DEF StartIteration
  <1>3. LivesIn' = E /\ LivesIn \in {E - 1, E}
    BY <1>2 DEF LivesIn, EpochDue
  <1>4. /\ \A e \in DOMAIN operators' :
              e \in DOMAIN operators /\ operators'[e] = operators[e] /\ e \in Nat
        /\ IsEpochStart(clock) => \A e \in DOMAIN operators' : e >= E
    <2>1. DOMAIN operators \subseteq Nat
      BY LoopAssumption DEF TypeOK, Epochs
    <2> QED
      BY <1>2, <2>1, ChangedList
  <1>5. \A e \in activeEpoch : e \in Nat
    BY LoopAssumption DEF TypeOK, Epochs
  <1>6. CASE LivesIn + 1 = E
    <2>1. IsEpochStart(clock)
      BY <1>1, <1>6 DEF LivesIn, EpochDue
    <2>2. /\ \A e \in DOMAIN operators : e <= E
          /\ E \in DOMAIN operators => operators[E] = schedule[E]
          /\ \A e \in activeEpoch : e <= E
          /\ E \in activeEpoch => schedule[E] = Me
      BY <1>6 DEF NextIsRight
    <2>3. DOMAIN operators' \subseteq {E}
      BY <1>1, <1>4, <2>1, <2>2
    <2>4. ~IsCurrentAndNext(operators', Me)
      BY <1>1, <2>3, CurrentAndNextKnowsBoth
    <2>5. E + 1 \notin DOMAIN operators' /\ E + 1 \notin activeEpoch /\ E # E + 1
      BY <1>1, <2>2, <2>3
    <2>6. activeEpoch' = activeEpoch
      BY <1>2, <2>5 DEF IsActiveIn
    <2>7. NextIsRight(operators', activeEpoch', E)
      BY <1>1, <1>5, <2>2, <2>3, <2>4, <2>5, <2>6 DEF NextIsRight
    <2>8. CurrentIsRight(operators', activeEpoch', E)
      BY <1>4, <2>2, <2>3, <2>6 DEF CurrentIsRight
    <2> QED
      BY <1>3, <2>7, <2>8
  <1>7. CASE LivesIn = E
    <2>1. /\ \A e \in DOMAIN operators' : e <= E + 1
          /\ E + 1 \in DOMAIN operators' => operators'[E + 1] = schedule[E + 1]
      BY <1>4, <1>7 DEF NextIsRight
    <2>2. IsCurrentAndNext(operators', Me) => schedule[E + 1] = Me
      <3>1. CASE IsEpochStart(clock)
        <4>1. DOMAIN operators' \subseteq {E, E + 1}
          BY <1>1, <1>4, <2>1, <3>1
        <4> QED
          BY <2>1, <4>1, CurrentAndNextKnowsBoth
      <3>2. CASE ~IsEpochStart(clock)
        BY <1>2, <1>7, <3>2 DEF NextIsRight
      <3> QED
        BY <3>1, <3>2
    <2>3. /\ \A e \in activeEpoch' : e <= E + 1
          /\ E + 1 \in activeEpoch' => schedule[E + 1] = Me
      BY <1>1, <1>2, <1>7, <2>1 DEF NextIsRight, IsActiveIn
    <2>4. NextIsRight(operators', activeEpoch', E)
      BY <2>1, <2>2, <2>3 DEF NextIsRight
    <2>5. ASSUME CurrentIsRight(operators, activeEpoch, E)
          PROVE  CurrentIsRight(operators', activeEpoch', E)
      <3>1. /\ DOMAIN operators' \subseteq {E, E + 1}
            /\ E \in DOMAIN operators' => operators'[E] = schedule[E]
        BY <1>4, <2>5 DEF CurrentIsRight
      <3>2. E \in activeEpoch' => E \in activeEpoch
        BY <1>1, <1>2
      <3> QED
        BY <2>5, <3>1, <3>2 DEF CurrentIsRight
    <2>6. LivesIn + 1 # E
      BY <1>1, <1>7
    <2> QED
      BY <1>3, <1>7, <2>4, <2>5, <2>6
  <1> QED
    BY <1>1, <1>3, <1>6, <1>7

\* What only moves the loop on, in the epoch it lives in.
LEMMA StartMoves ==
    ASSUME UNCHANGED <<operators, activeEpoch, schedule>>, LivesIn' = LivesIn
    PROVE  /\ NextIsRight(operators, activeEpoch, LivesIn)'
                 <=> NextIsRight(operators, activeEpoch, LivesIn)
           /\ CurrentIsRight(operators, activeEpoch, LivesIn)'
                 <=> CurrentIsRight(operators, activeEpoch, LivesIn)
  BY DEF NextIsRight, CurrentIsRight

\* StartInv holds initially.
LEMMA StartInit == Init => StartInv
  <1> SUFFICES ASSUME Init PROVE StartInv
    OBVIOUS
  <1>1. slot.epoch \in Nat /\ slot.epoch = clock.epoch
    BY TickEpochs DEF Init
  <1> QED
    BY <1>1 DEF Init, StartInv, Punctual, WaitsInFirstSlot, Starting, Started, Approaches

\* The end of startup: the answer is right about the epoch in which it comes,
\* whichever epoch it is filed under.
LEMMA StartBootNext ==
    ASSUME TypeOK, Starting, BootNext
    PROVE  NextIsRight(operators', activeEpoch', clock.epoch)
  <1> DEFINE E == clock.epoch
             B == slot.epoch
  <1>1. E \in Nat /\ B \in Nat
    BY TickEpochs DEF TypeOK
  <1>2. /\ B <= E /\ DOMAIN operators \subseteq {B} /\ activeEpoch = {}
        /\ activeEpoch' = IF IsActiveIn(operators', Me, B + 1) THEN {B + 1}
                          ELSE IF IsActiveIn(operators', Me, B) THEN {B} ELSE activeEpoch
    BY DEF BootNext, Starting, Started
  <1>3. CASE operators' = operators
    <2>1. B + 1 \notin DOMAIN operators' /\ E + 1 \notin DOMAIN operators'
      BY <1>1, <1>2, <1>3
    <2>2. ~IsCurrentAndNext(operators', Me)
      <3>1. DOMAIN operators' \subseteq {B, B + 1}
        BY <1>2, <1>3
      <3> QED
        BY <2>1, <3>1, CurrentAndNextKnowsBoth
    <2>3. activeEpoch' \subseteq {B}
      BY <1>2, <2>1 DEF IsActiveIn
    <2>4. E + 1 \notin activeEpoch' /\ \A e \in activeEpoch' : e <= E + 1
      BY <1>1, <1>2, <2>3
    <2>5. \A e \in DOMAIN operators' : e <= E + 1
      BY <1>1, <1>2, <1>3
    <2> QED
      BY <2>1, <2>2, <2>4, <2>5 DEF NextIsRight
  <1>4. CASE operators' = UpdateNextOperator(operators, B, schedule[E + 1])
    <2>1. /\ DOMAIN operators' \subseteq {B, B + 1}
          /\ operators'[B + 1] = schedule[E + 1]
      <3>1. /\ IsView(operators, Epochs, Operators) /\ B + 1 \in Epochs
            /\ schedule[E + 1] \in Operators
        BY TickEpochs DEF TypeOK, IsView
      <3> QED
        BY <1>4, <3>1, UpdateNextView
    <2>2. IsCurrentAndNext(operators', Me) => schedule[E + 1] = Me
      BY <2>1, CurrentAndNextKnowsBoth
    <2>3. E + 1 \in {B, B + 1} => E + 1 = B + 1
      BY <1>1, <1>2
    <2>4. /\ \A e \in DOMAIN operators' : e <= E + 1
          /\ E + 1 \in DOMAIN operators' => operators'[E + 1] = schedule[E + 1]
      <3>1. \A e \in {B, B + 1} : e <= E + 1
        BY <1>1, <1>2
      <3> QED
        BY <2>1, <2>3, <3>1
    <2>5. /\ \A e \in activeEpoch' : e <= E + 1
          /\ E + 1 \in activeEpoch' => schedule[E + 1] = Me
      <3>1. activeEpoch' \subseteq {B, B + 1}
        BY <1>2
      <3>2. \A e \in {B, B + 1} : e <= E + 1
        BY <1>1, <1>2
      <3>3. B + 1 \in activeEpoch' => schedule[E + 1] = Me
        BY <1>1, <1>2, <2>1 DEF IsActiveIn
      <3> QED
        BY <2>3, <3>1, <3>2, <3>3
    <2> QED
      BY <2>2, <2>4, <2>5 DEF NextIsRight
  <1> QED
    BY <1>3, <1>4 DEF BootNext

\* The query for the next operator is right about the epoch of the iteration.
LEMMA StartQueryNext ==
    ASSUME TypeOK, clock = slot, QueryNext,
           NextIsRight(operators, activeEpoch, clock.epoch)
    PROVE  /\ NextIsRight(operators', activeEpoch', clock.epoch)
           /\ CurrentIsRight(operators, activeEpoch, clock.epoch)
              => CurrentIsRight(operators', activeEpoch', clock.epoch)
  <1> DEFINE E == clock.epoch
  <1>1. E \in Nat /\ activeEpoch' = activeEpoch
    BY TickEpochs DEF TypeOK, QueryNext
  <1>2. CASE operators' = operators
    BY <1>1, <1>2
  <1>3. CASE operators' = UpdateNextOperator(operators, E, schedule[E + 1])
    <2>1. /\ DOMAIN operators' \subseteq {E, E + 1}
          /\ operators'[E + 1] = schedule[E + 1]
          /\ \A e \in DOMAIN operators' \ {E + 1} :
                e \in DOMAIN operators /\ operators'[e] = operators[e]
      <3>1. /\ IsView(operators, Epochs, Operators) /\ E + 1 \in Epochs
            /\ schedule[E + 1] \in Operators
        BY TickEpochs DEF TypeOK, IsView
      <3> QED
        BY <1>3, <3>1, UpdateNextView
    <2>2. IsCurrentAndNext(operators', Me) => schedule[E + 1] = Me
      BY <2>1, CurrentAndNextKnowsBoth
    <2>3. \A e \in DOMAIN operators' : e <= E + 1
      BY <1>1, <2>1
    <2>4. E # E + 1
      BY <1>1
    <2>5. NextIsRight(operators', activeEpoch', E)
      BY <1>1, <2>1, <2>2, <2>3 DEF NextIsRight
    <2>6. CurrentIsRight(operators, activeEpoch, E) => CurrentIsRight(operators', activeEpoch', E)
      BY <1>1, <2>1, <2>4 DEF CurrentIsRight
    <2> QED
      BY <2>5, <2>6
  <1> QED
    BY <1>2, <1>3 DEF QueryNext

\* What only moves the loop on within an iteration.
LEMMA StartWithin ==
    ASSUME NEW e, StartInv, env.maxLag = 0, env' = env, Started, Started',
           UNCHANGED <<schedule, slot, operators, activeEpoch>>,
           Punctual', WaitsInFirstSlot', LivesIn' = LivesIn,
           pc' # "stopped" => pc # "stopped",
           Approaches' => Approaches
    PROVE  StartInv' /\ (RightAfter(e) => RightAfter(e)')
  <1>1. /\ pc' # "stopped" => NextIsRight(operators, activeEpoch, LivesIn)'
        /\ CurrentIsRight(operators, activeEpoch, LivesIn)
              => CurrentIsRight(operators, activeEpoch, LivesIn)'
    BY StartMoves DEF StartInv
  <1>2. Approaches' /\ WithinHandoverPeriod(slot.slot)' => schedule[slot.epoch + 1]' = Me
    BY DEF StartInv, WithinHandoverPeriod
  <1>3. StartInv'
    BY <1>1, <1>2 DEF StartInv, Starting
  <1>4. schedule[WindowEpoch(slot)] = Me => schedule[WindowEpoch(slot)]' = Me
    BY DEF WindowEpoch, WithinHandoverPeriod
  <1>5. RightAfter(e) => RightAfter(e)'
    BY <1>1, <1>4 DEF RightAfter
  <1> QED
    BY <1>3, <1>5

\* Every step keeps both invariants: one step of the proof per action.
LEMMA StartStep ==
    ASSUME NEW e \in Epochs, TypeOK, StartInv, env.maxLag = 0, [Next]_vars
    PROVE  StartInv' /\ (RightAfter(e) => RightAfter(e)') /\ env'.maxLag = 0
  <1>1. env' = env /\ schedule' = schedule
    BY DEF Next, Tick, MonitorDone, BootCurrent, BootNext, SkipWhileWaiting,
           StartIteration, AnchorUpdated, AnchorFailed, HoldSkips, HoldEnds,
           BuildDone, QueryNext, StaysStopped, vars
  <1>2. /\ Punctual /\ WaitsInFirstSlot /\ Starting
        /\ Started /\ pc # "stopped" => NextIsRight(operators, activeEpoch, LivesIn)
        /\ Approaches /\ WithinHandoverPeriod(slot.slot) => schedule[slot.epoch + 1] = Me
    BY DEF StartInv
  <1>3. /\ slot \in Ticks /\ clock \in Ticks /\ pc \in Locations
        /\ slot.epoch \in Nat /\ clock.epoch \in Nat /\ behind \in Nat
        /\ waited \in Nat /\ e \in Nat /\ HandoverBuffer \in Nat
    BY TickEpochs, LoopAssumption, HandoverBufferType DEF TypeOK, Epochs
  <1>4. Approaches /\ pc' # "stopped" => LivesIn = clock.epoch /\ slot.epoch = clock.epoch
    BY <1>2 DEF Approaches, Punctual, LivesIn, EpochDue
  <1>5. ASSUME ~Started, ~Started', Punctual', WaitsInFirstSlot', Starting'
        PROVE  StartInv' /\ (RightAfter(e) => RightAfter(e)')
    BY <1>5 DEF StartInv, RightAfter, Started, Approaches
  <1>6. CASE Tick
    <2>1. /\ UNCHANGED <<pc, slot, operators, activeEpoch, waiting>>
          /\ clock' = Following(clock)
          /\ behind' = IF pc = "stopped" THEN behind ELSE behind + 1
          /\ waited' = IF waiting THEN waited + 1 ELSE waited
          /\ waiting => waited < HandoverBuffer
      BY <1>6 DEF Tick
    <2>2. WaitsInFirstSlot'
      <3> SUFFICES ASSUME waiting
                   PROVE  /\ Following(clock).epoch = slot.epoch
                          /\ Following(clock).slot = 0
                          /\ Following(clock).sub = waited + 1
        BY <2>1 DEF WaitsInFirstSlot
      <3>1. /\ clock.epoch = slot.epoch /\ clock.slot = 0 /\ clock.sub = waited
            /\ waited < HandoverBuffer
        BY <1>2, <2>1 DEF WaitsInFirstSlot
      <3>2. clock.sub + 1 < SubslotsPerSlot
        BY <1>3, <3>1, LoopAssumption
      <3> QED
        BY <1>3, <3>1, <3>2 DEF Following, Ticks
    <2>3. CASE ~Started
      <3>1. clock'.epoch >= clock.epoch /\ clock'.epoch \in Nat
        BY <1>3, <2>1, FollowingStart
      <3>2. Starting'
        BY <1>2, <1>3, <2>1, <2>3, <3>1 DEF Starting, Started
      <3>3. Punctual'
        BY <1>2, <2>1, <2>3 DEF Punctual, Started
      <3>4. ~Started'
        BY <2>1, <2>3 DEF Started
      <3> QED
        BY <1>1, <1>5, <2>2, <2>3, <3>2, <3>3, <3>4
    <2>4. CASE pc = "stopped"
      <3>1. Punctual'
        BY <1>2, <1>3, <2>1, <2>4 DEF Punctual, Started
      <3> QED
        BY <1>1, <2>1, <2>2, <2>4, <3>1 DEF StartInv, RightAfter, Started, Approaches, Starting
    <2>5. CASE Started /\ pc # "stopped"
      <3>1. pc = "top" /\ behind = 0
        BY <1>2, <1>3, <1>6, <2>5 DEF Tick, Allowance, Started, Locations, Punctual
      <3>2. Punctual'
        BY <1>2, <1>3, <2>1, <3>1 DEF Punctual, Started
      <3>3. LivesIn' = LivesIn
        <4>1. LivesIn = clock.epoch
          BY <3>1 DEF LivesIn, EpochDue
        <4>2. IsEpochStart(clock)' <=> IsEpochStart(Following(clock))
          BY <2>1 DEF IsEpochStart
        <4>3. EpochDue' <=> IsEpochStart(Following(clock))
          BY <2>1, <3>1, <4>2 DEF EpochDue
        <4>4. LivesIn' = IF EpochDue' THEN clock'.epoch - 1 ELSE clock'.epoch
          BY DEF LivesIn
        <4> QED
          BY <1>3, <2>1, <4>1, <4>3, <4>4, FollowingStart
      <3> QED
        BY <1>1, <2>1, <2>2, <2>5, <3>2, <3>3, StartWithin DEF Started, Approaches
    <2> QED
      BY <2>3, <2>4, <2>5
  <1>7. CASE BootCurrent
    <2>1. /\ pc = "bootCurrent" /\ pc' = "bootNext" /\ UNCHANGED <<clock, slot, behind, activeEpoch, waiting, waited>>
          /\ \/ operators' = UpdateCurrentOperator(operators, slot.epoch, schedule[clock.epoch])
             \/ operators' = operators
      BY <1>7 DEF BootCurrent
    <2>2. DOMAIN operators' \subseteq {slot.epoch}
      <3>1. DOMAIN operators \subseteq {slot.epoch}
        BY <1>2, <2>1 DEF Starting, Started
      <3>2. CASE operators' = operators
        BY <3>1, <3>2
      <3>3. CASE operators' = UpdateCurrentOperator(operators, slot.epoch, schedule[clock.epoch])
        BY <3>1, <3>3 DEF UpdateCurrentOperator, WithOperator, RetainEpochs
      <3> QED
        BY <2>1, <3>2, <3>3
    <2>3. Starting' /\ WaitsInFirstSlot' /\ Punctual'
      BY <1>2, <2>1, <2>2 DEF Starting, WaitsInFirstSlot, Punctual, Started
    <2>4. ~Started /\ ~Started'
      BY <2>1 DEF Started
    <2> QED
      BY <1>1, <1>5, <2>3, <2>4
  <1>8. CASE BootNext
    <2>1. /\ pc = "bootNext" /\ pc' = "top" /\ behind' = 0
          /\ UNCHANGED <<clock, slot, waiting, waited>> /\ ~Started
      BY <1>8 DEF BootNext, Started
    <2>2. NextIsRight(operators', activeEpoch', clock.epoch)
      BY <1>2, <1>8, StartBootNext
    <2>3. LivesIn' = clock.epoch
      BY <2>1 DEF LivesIn, EpochDue
    <2>4. NextIsRight(operators, activeEpoch, LivesIn)'
      BY <1>1, <2>2, <2>3 DEF NextIsRight
    <2>5. Starting' /\ WaitsInFirstSlot' /\ Punctual'
      BY <1>2, <2>1 DEF Starting, WaitsInFirstSlot, Punctual, Started
    <2> QED
      BY <1>1, <2>1, <2>4, <2>5 DEF StartInv, RightAfter, Started, Approaches
  <1>9. CASE SkipWhileWaiting
    <2>1. /\ pc = "top" /\ pc' = "top" /\ waiting /\ waiting' /\ slot' = clock /\ behind' = 0
          /\ UNCHANGED <<operators, activeEpoch, clock, waited>>
      BY <1>9 DEF SkipWhileWaiting
    <2>2. clock.epoch = slot.epoch /\ clock.slot = 0 /\ clock.sub = waited /\ behind <= waited
      BY <1>2, <2>1 DEF WaitsInFirstSlot, Punctual
    <2>3. LivesIn' = LivesIn
      BY <1>3, <2>1, <2>2 DEF LivesIn, EpochDue, IsEpochStart
    <2>4. Starting' /\ WaitsInFirstSlot' /\ Punctual'
      BY <1>2, <1>3, <2>1, <2>2 DEF Starting, WaitsInFirstSlot, Punctual, Started
    <2>5. /\ NextIsRight(operators, activeEpoch, LivesIn)'
                <=> NextIsRight(operators, activeEpoch, LivesIn)
          /\ CurrentIsRight(operators, activeEpoch, LivesIn)'
                <=> CurrentIsRight(operators, activeEpoch, LivesIn)
      BY <1>1, <2>1, <2>3, StartMoves
    <2> QED
      BY <1>1, <1>2, <2>1, <2>3, <2>4, <2>5 DEF StartInv, RightAfter, Started, Approaches
  <1>10. CASE StartIteration
    <2> DEFINE E == clock.epoch
    <2>1. /\ pc = "top" /\ ~waiting /\ slot' = clock /\ clock' = clock /\ behind' = 0 /\ Started
          /\ behind \in {0, 1}
      BY <1>2, <1>10 DEF StartIteration, Started, Punctual
    <2>2. /\ LivesIn' = E /\ LivesIn \in {E - 1, E}
          /\ NextIsRight(operators', activeEpoch', E)
          /\ \/ CurrentIsRight(operators, activeEpoch, LivesIn) /\ LivesIn = E
             \/ LivesIn + 1 = E
             => CurrentIsRight(operators', activeEpoch', E)
      BY <1>2, <1>10, <2>1, StartIterationRight
    <2>3. NextIsRight(operators, activeEpoch, LivesIn)'
      BY <1>1, <2>2 DEF NextIsRight
    <2>4. CurrentIsRight(operators', activeEpoch', E) =>
             CurrentIsRight(operators, activeEpoch, LivesIn)'
      BY <1>1, <2>2 DEF CurrentIsRight
    <2>5. Approaches' => CanPreconfirm(activeEpoch', clock) \/ IsCurrentAndNext(operators', Me)
      BY <1>10 DEF StartIteration, Approaches, AfterBuild
    <2>6. /\ Approaches' /\ WithinHandoverPeriod(clock.slot) => schedule[E + 1] = Me
          /\ Approaches' /\ CurrentIsRight(operators', activeEpoch', E)
                => schedule[WindowEpoch(clock)] = Me
      BY <1>3, <2>2, <2>5, StartDecision
    <2>7. Started' /\ pc' # "stopped"
      BY <1>10 DEF StartIteration, ApproachBuild, AfterBuild, Started
    <2>8. WaitsInFirstSlot'
      BY <1>10, <2>1 DEF StartIteration, ApproachBuild, IsEpochStart, WaitsInFirstSlot
    <2>9. Punctual'
      BY <1>10, <2>1, <2>7, <1>3 DEF StartIteration, ApproachBuild, Punctual
    <2>10. StartInv'
      BY <1>1, <2>1, <2>3, <2>6, <2>7, <2>8, <2>9 DEF StartInv, Starting
    <2>11. ASSUME RightAfter(e) PROVE RightAfter(e)'
      <3> SUFFICES ASSUME E > e
                   PROVE  CurrentIsRight(operators', activeEpoch', E)
        BY <1>1, <2>1, <2>2, <2>4, <2>6, <2>7 DEF RightAfter
      <3>1. CASE LivesIn = E
        <4>1. CurrentIsRight(operators, activeEpoch, LivesIn)
          BY <2>1, <2>11, <3>1 DEF RightAfter
        <4> QED
          BY <2>2, <3>1, <4>1
      <3>2. CASE LivesIn = E - 1
        <4>1. LivesIn + 1 = E
          BY <1>3, <3>2
        <4> QED
          BY <2>2, <4>1
      <3> QED
        BY <2>2, <3>1, <3>2
    <2> QED
      BY <1>1, <2>10, <2>11
  <1>11. CASE AnchorUpdated
    <2>1. /\ pc = "anchor" /\ pc' \in {"hold", "build"} /\ clock = slot /\ behind = 0
          /\ UNCHANGED <<clock, slot, behind, operators, activeEpoch>>
      BY <1>2, <1>11 DEF AnchorUpdated, ApproachBuild, Punctual
    <2>2. WaitsInFirstSlot'
      BY <1>2, <1>11, <2>1 DEF AnchorUpdated, ApproachBuild, IsEpochStart, WaitsInFirstSlot
    <2>3. Punctual'
      BY <1>2, <1>3, <1>11, <2>1 DEF AnchorUpdated, ApproachBuild, Punctual, Started
    <2>4. LivesIn' = LivesIn
      BY <2>1 DEF LivesIn, EpochDue
    <2> QED
      BY <1>1, <2>1, <2>2, <2>3, <2>4, StartWithin DEF Started, Approaches
  <1>12. CASE MonitorDone \/ AnchorFailed \/ HoldSkips \/ HoldEnds \/ BuildDone
    <2>1. /\ Started /\ Started' /\ UNCHANGED <<clock, slot, behind, operators, activeEpoch>>
          /\ Approaches' => Approaches
          /\ pc' # "stopped" => pc # "stopped"
      BY <1>2, <1>12 DEF MonitorDone, AnchorFailed, HoldSkips, HoldEnds, BuildDone, AfterBuild,
                         Started, Approaches, Punctual
    <2>2. WaitsInFirstSlot'
      BY <1>2, <1>12 DEF MonitorDone, AnchorFailed, HoldSkips, HoldEnds, BuildDone,
                         WaitsInFirstSlot
    <2>3. Punctual'
      BY <1>2, <1>12 DEF MonitorDone, AnchorFailed, HoldSkips, HoldEnds, BuildDone, AfterBuild,
                         Punctual, Started
    <2>4. LivesIn' = LivesIn
      BY <1>2, <1>12 DEF MonitorDone, AnchorFailed, HoldSkips, HoldEnds, BuildDone, AfterBuild,
                         Punctual, LivesIn, EpochDue
    <2> QED
      BY <1>1, <2>1, <2>2, <2>3, <2>4, StartWithin
  <1>13. CASE QueryNext
    <2> DEFINE E == clock.epoch
    <2>1. /\ pc = "next" /\ pc' = "top" /\ clock = slot /\ behind = 0
          /\ UNCHANGED <<clock, slot, behind, waiting, waited>>
      BY <1>2, <1>13 DEF QueryNext, Punctual
    <2>2. LivesIn = E /\ LivesIn' = E /\ Started /\ Started'
      BY <2>1 DEF LivesIn, EpochDue, Started
    <2>3. /\ NextIsRight(operators', activeEpoch', E)
          /\ CurrentIsRight(operators, activeEpoch, E) => CurrentIsRight(operators', activeEpoch', E)
      BY <1>2, <1>13, <2>1, <2>2, StartQueryNext
    <2>4. NextIsRight(operators, activeEpoch, LivesIn)'
      BY <1>1, <2>2, <2>3 DEF NextIsRight
    <2>5. CurrentIsRight(operators', activeEpoch', E) =>
             CurrentIsRight(operators, activeEpoch, LivesIn)'
      BY <1>1, <2>2 DEF CurrentIsRight
    <2>6. Starting' /\ WaitsInFirstSlot' /\ Punctual'
      BY <1>2, <2>1, <2>2 DEF Starting, WaitsInFirstSlot, Punctual, Started
    <2> QED
      BY <1>1, <2>1, <2>2, <2>3, <2>4, <2>5, <2>6 DEF StartInv, RightAfter, Approaches
  <1>14. CASE StaysStopped \/ UNCHANGED vars
    <2>1. UNCHANGED vars
      BY <1>14 DEF StaysStopped
    <2>2. /\ LivesIn' = LivesIn
          /\ (Started' <=> Started) /\ (Approaches' <=> Approaches)
          /\ Punctual' /\ WaitsInFirstSlot' /\ Starting'
      <3>1. UNCHANGED <<clock, pc, slot, behind, operators, activeEpoch, waiting, waited>>
        BY <2>1 DEF vars
      <3>2. LivesIn' = LivesIn
        BY <3>1 DEF LivesIn, EpochDue, IsEpochStart
      <3>3. (Started' <=> Started) /\ (Approaches' <=> Approaches)
        BY <3>1 DEF Started, Approaches
      <3>4. Punctual' /\ WaitsInFirstSlot' /\ Starting'
        BY <1>2, <3>1, <3>3 DEF Punctual, WaitsInFirstSlot, Starting
      <3> QED
        BY <3>2, <3>3, <3>4
    <2>3. CASE Started
      <3>1. UNCHANGED <<schedule, slot, operators, activeEpoch, pc, env>> /\ Started'
        BY <2>1, <2>2, <2>3 DEF vars
      <3> QED
        BY <2>2, <2>3, <3>1, StartWithin
    <2>4. CASE ~Started
      <3>1. ~Started'
        BY <2>2, <2>4
      <3> QED
        BY <1>1, <1>5, <2>2, <2>4, <3>1
    <2> QED
      BY <1>1, <2>3, <2>4
  <1> QED
    BY <1>1, <1>6, <1>7, <1>8, <1>9, <1>10, <1>11, <1>12, <1>13, <1>14 DEF Next

\* However late startup was, and whatever calls fail, the loop builds in its own
\* windows only from the window after the one it begins in on: wrong answers
\* are either filed under epochs whose windows are over, or say of the next epoch
\* what is right (preconfirmation_loop.rs, lines 46-63, and util.rs).
THEOREM RecoversCorrect == Spec => RecoversFromSlowStart
  <1> SUFFICES ASSUME NEW e \in Epochs
               PROVE  Spec => [](Running /\ clock.epoch = e /\ env.maxLag = 0
                                   => [](WindowEpoch(slot) > e => BuildsInTurn))
    BY DEF RecoversFromSlowStart
  <1> DEFINE Inv == TypeOK /\ StartInv
             Late == env.maxLag = 0 /\ RightAfter(e)
             Begins == Running /\ clock.epoch = e /\ env.maxLag = 0
             Right == WindowEpoch(slot) > e => BuildsInTurn
  <1>1. Init => Inv
    BY TypeInit, StartInit
  <1>2. Inv /\ [Next]_vars => Inv'
    <2> SUFFICES ASSUME Inv, [Next]_vars PROVE Inv'
      OBVIOUS
    <2>1. env' = env
      BY DEF Next, Tick, MonitorDone, BootCurrent, BootNext, SkipWhileWaiting,
             StartIteration, AnchorUpdated, AnchorFailed, HoldSkips, HoldEnds,
             BuildDone, QueryNext, StaysStopped, vars
    <2>2. CASE env.maxLag = 0
      BY <2>2, TypeStep, StartStep
    <2>3. CASE env.maxLag # 0
      BY <2>1, <2>3, TypeStep DEF StartInv
    <2> QED
      BY <2>2, <2>3
  <1>3. Inv /\ Late /\ [Next]_vars => Late'
    BY StartStep
  <1>4. Inv /\ Begins => Late
    <2> SUFFICES ASSUME Inv, Begins PROVE RightAfter(e)
      OBVIOUS
    <2>1. Started /\ clock.epoch \in Nat
      BY TickEpochs DEF Running, Started, TypeOK
    <2>2. ~(LivesIn > e)
      BY <2>1 DEF LivesIn
    <2> QED
      BY <2>1, <2>2 DEF RightAfter
  <1>5. Inv /\ Late => Right
    <2> SUFFICES ASSUME Inv, Late, WindowEpoch(slot) > e, pc = "build"
                 PROVE  schedule[WindowEpoch(slot)] = Me
      BY DEF BuildsInTurn
    <2>1. /\ LivesIn = slot.epoch /\ Approaches /\ slot.epoch \in Nat /\ e \in Nat
      BY TickEpochs, LoopAssumption
         DEF StartInv, Punctual, LivesIn, EpochDue, Approaches, TypeOK, Epochs
    <2>2. CASE slot.epoch > e
      BY <2>1, <2>2 DEF RightAfter
    <2>3. CASE ~(slot.epoch > e)
      <3>1. WithinHandoverPeriod(slot.slot) /\ WindowEpoch(slot) = slot.epoch + 1
        BY <2>1, <2>3 DEF WindowEpoch
      <3> QED
        BY <2>1, <3>1 DEF StartInv
    <2> QED
      BY <2>2, <2>3
  <1> HIDE DEF Inv, Late, Begins, Right
  <1>6. Spec => [](Begins => []Right)
    BY <1>1, <1>2, <1>3, <1>4, <1>5, PTL DEF Spec
  <1> QED
    BY <1>6 DEF Begins, Right
=============================================================================
