-------------------------- MODULE PreconfLoopProofs --------------------------
(***************************************************************************)
(* Theorems about PreconfLoop, for every value of its constants: its types *)
(* and that it never builds a block in the window of another operator as   *)
(* long as the environment is timely or prompt.                            *)
(***************************************************************************)
EXTENDS PreconfLoop, FiniteSetTheorems, TLAPS

-----------------------------------------------------------------------------
(* Time.                                                                   *)

\* The clock stays within its bounds until the last tick.
LEMMA FollowingType ==
    ASSUME NEW t \in Ticks, t # LastTick
    PROVE  Following(t) \in Ticks
  <1>1. /\ t.epoch \in 0..LastEpoch
        /\ t.slot \in 0..(SlotsPerEpoch - 1)
        /\ t.sub \in 0..(SubslotsPerSlot - 1)
        /\ t = [epoch |-> t.epoch, slot |-> t.slot, sub |-> t.sub]
    BY DEF Ticks
  <1>2. SlotsPerEpoch \in Nat \ {0} /\ SubslotsPerSlot \in Nat \ {0}
        /\ LastEpoch \in Nat
    BY SlotsAssumption, LoopAssumption
  <1>3. CASE t.sub + 1 < SubslotsPerSlot
    BY <1>1, <1>2, <1>3 DEF Following, Ticks
  <1>4. CASE ~(t.sub + 1 < SubslotsPerSlot) /\ t.slot + 1 < SlotsPerEpoch
    <2>1. Following(t) = [epoch |-> t.epoch, slot |-> t.slot + 1, sub |-> 0]
      BY <1>4 DEF Following
    <2>2. /\ t.slot + 1 \in 0..(SlotsPerEpoch - 1)
          /\ 0 \in 0..(SubslotsPerSlot - 1)
      BY <1>1, <1>2, <1>4
    <2> QED
      BY <1>1, <2>1, <2>2 DEF Ticks
  <1>5. CASE ~(t.sub + 1 < SubslotsPerSlot) /\ ~(t.slot + 1 < SlotsPerEpoch)
    <2>1. t.sub = SubslotsPerSlot - 1 /\ t.slot = SlotsPerEpoch - 1
      BY <1>1, <1>2, <1>5
    <2>2. t.epoch + 1 \in 0..LastEpoch
      BY <1>1, <1>2, <2>1 DEF LastTick
    <2>3. Following(t) = [epoch |-> t.epoch + 1, slot |-> 0, sub |-> 0]
      BY <1>5 DEF Following
    <2>4. 0 \in 0..(SlotsPerEpoch - 1) /\ 0 \in 0..(SubslotsPerSlot - 1)
      BY <1>2
    <2> QED
      BY <2>2, <2>3, <2>4 DEF Ticks
  <1> QED
    BY <1>3, <1>4, <1>5

\* The bounds of the two counters.
LEMMA HandoverBufferType == HandoverBuffer \in Nat /\ 0 \in 0..HandoverBuffer
  BY LoopAssumption

\* The age of the anchor is counted up to a number.
LEMMA AnchorLifetimeType == AnchorLifetime \in Nat
  BY LoopAssumption, SMT DEF AnchorLifetime

-----------------------------------------------------------------------------
(* The list of operators.                                                  *)

\* A view of the whitelist: some of the epochs E, and an operator of T each.
IsView(known, E, T) ==
    /\ DOMAIN known \subseteq E
    /\ known \in [DOMAIN known -> T]

\* change_epoch keeps a part of the list as it is.
LEMMA ChangeEpochView ==
    ASSUME NEW E, NEW T, NEW known, IsView(known, E, T), NEW epoch
    PROVE  LET new == ChangeEpoch(known, epoch) IN
           /\ IsView(new, E, T)
           /\ \A e \in DOMAIN new :
                 e \in DOMAIN known /\ e >= epoch /\ new[e] = known[e]
  BY DEF ChangeEpoch, RetainEpochs, IsView

\* update_current_operator replaces what is not newer by the answer.
LEMMA UpdateCurrentView ==
    ASSUME NEW E, NEW T, NEW known, IsView(known, E, T),
           NEW epoch \in E, NEW operator \in T
    PROVE  LET new == UpdateCurrentOperator(known, epoch, operator) IN
           /\ IsView(new, E, T)
           /\ new[epoch] = operator
           /\ \A e \in DOMAIN new \ {epoch} :
                 e \in DOMAIN known /\ new[e] = known[e]
  <1> DEFINE kept == RetainEpochs(known, {e \in DOMAIN known : e > epoch})
  <1>1. /\ DOMAIN kept = {e \in DOMAIN known : e > epoch}
        /\ \A e \in DOMAIN kept : kept[e] = known[e] /\ known[e] \in T
        /\ DOMAIN kept \subseteq E
    BY DEF RetainEpochs, IsView
  <1> HIDE DEF kept
  <1> QED
    BY <1>1 DEF UpdateCurrentOperator, WithOperator, IsView, kept

\* update_next_operator leaves the current and the next epoch, the latter with
\* the answer.
LEMMA UpdateNextView ==
    ASSUME NEW E, NEW T, NEW known, IsView(known, E, T),
           NEW epoch, epoch + 1 \in E, NEW operator \in T
    PROVE  LET new == UpdateNextOperator(known, epoch, operator) IN
           /\ IsView(new, E, T)
           /\ DOMAIN new \subseteq {epoch, epoch + 1}
           /\ new[epoch + 1] = operator
           /\ \A e \in DOMAIN new \ {epoch + 1} :
                 e \in DOMAIN known /\ new[e] = known[e]
  <1> DEFINE kept == RetainEpochs(known, {epoch, epoch + 1})
  <1>1. /\ DOMAIN kept = DOMAIN known \cap {epoch, epoch + 1}
        /\ \A e \in DOMAIN kept : kept[e] = known[e] /\ known[e] \in T
        /\ DOMAIN kept \subseteq E
    BY DEF RetainEpochs, IsView
  <1> HIDE DEF kept
  <1> QED
    BY <1>1 DEF UpdateNextOperator, WithOperator, IsView, kept

\* Two entries about two given epochs are one entry about each of them: what
\* is_current_and_next concludes from the length of the list.
LEMMA CurrentAndNextKnowsBoth ==
    ASSUME NEW known, NEW a, NEW b, DOMAIN known \subseteq {a, b},
           IsCurrentAndNext(known, Me)
    PROVE  /\ a \in DOMAIN known /\ b \in DOMAIN known
           /\ known[a] = Me /\ known[b] = Me
  <1>1. IsFiniteSet({a, b})
    <2>1. IsFiniteSet({} \cup {a})
      BY FS_EmptySet, FS_AddElement
    <2>2. IsFiniteSet(({} \cup {a}) \cup {b})
      BY <2>1, FS_AddElement
    <2>3. {a, b} = ({} \cup {a}) \cup {b}
      OBVIOUS
    <2> QED
      BY <2>2, <2>3
  <1>2. Cardinality(DOMAIN known) = 2 /\ \A e \in DOMAIN known : known[e] = Me
    BY DEF IsCurrentAndNext
  <1>3. ~ \E x : DOMAIN known \subseteq {x}
    <2> SUFFICES ASSUME NEW x, DOMAIN known \subseteq {x} PROVE FALSE
      OBVIOUS
    <2>1. IsFiniteSet({x}) /\ Cardinality({x}) = 1
      BY FS_Singleton
    <2>2. Cardinality(DOMAIN known) <= 1
      BY <2>1, FS_Subset
    <2> QED
      BY <1>2, <2>2
  <1> QED
    BY <1>2, <1>3

-----------------------------------------------------------------------------
(* Type correctness.                                                       *)

\* The epochs the whitelist is asked about, at every tick, are known to it.
LEMMA TickEpochs ==
    ASSUME NEW t \in Ticks
    PROVE  /\ t.epoch \in Epochs /\ t.epoch + 1 \in Epochs
           /\ t.epoch \in Nat /\ t.slot \in Nat /\ t.sub \in Nat
           /\ t.slot < SlotsPerEpoch /\ t.sub < SubslotsPerSlot
  BY SlotsAssumption, LoopAssumption DEF Ticks, Epochs

\* Types are as declared, initially.
LEMMA TypeInit == Init => TypeOK
  <1> SUFFICES ASSUME Init PROVE TypeOK
    OBVIOUS
  <1>1. anchorAge \in 0..AnchorLifetime /\ waited \in 0..HandoverBuffer
    BY AnchorLifetimeType, LoopAssumption DEF Init
  <1>2. DOMAIN operators = {} /\ operators \in [DOMAIN operators -> Operators]
    BY DEF Init
  <1> QED
    BY <1>1, <1>2 DEF Init, TypeOK, Locations

\* Types are as declared, after every step.
LEMMA TypeStep == TypeOK /\ [Next]_vars => TypeOK'
  <1> SUFFICES ASSUME TypeOK, [Next]_vars PROVE TypeOK'
    OBVIOUS
  <1> USE DEF TypeOK, Locations
  <1>1. /\ IsView(operators, Epochs, Operators)
        /\ schedule[clock.epoch] \in Operators
        /\ schedule[clock.epoch + 1] \in Operators
        /\ slot.epoch \in Epochs /\ slot.epoch + 1 \in Epochs
        /\ clock.epoch \in Epochs /\ clock.epoch + 1 \in Epochs
    BY TickEpochs DEF IsView
  <1>2. ASSUME NEW active, NEW at \in Ticks, ApproachBuild(active, at)
        PROVE  /\ waiting' \in BOOLEAN
               /\ waited' \in 0..HandoverBuffer
               /\ monitored' \in SUBSET Epochs
               /\ pc' \in Locations
    <2>1. CASE IsFirstPreconfirmationSlot(active, at) /\ IsEpochStart(at)
      BY <1>2, <2>1, TickEpochs, HandoverBufferType DEF ApproachBuild
    <2>2. CASE ~(IsFirstPreconfirmationSlot(active, at) /\ IsEpochStart(at))
      BY <1>2, <2>2 DEF ApproachBuild
    <2> QED
      BY <2>1, <2>2
  <1>3. \A at : AfterBuild(at) \in Locations
    BY DEF AfterBuild
  <1>view. IsView(UpdateNextOperator(operators, slot.epoch,
                                   schedule[clock.epoch + 1]),
                Epochs, Operators)
    BY <1>1, UpdateNextView
  <1>4. CASE Tick
    <2>1. clock' \in Ticks
      BY <1>4, FollowingType DEF Tick
    <2>2. anchorAge' \in 0..AnchorLifetime
      BY <1>4, AnchorLifetimeType DEF Tick
    <2>3. waited' \in 0..HandoverBuffer
      BY <1>4, LoopAssumption DEF Tick
    <2>4. behind' \in Nat
      BY <1>4 DEF Tick
    <2> QED
      BY <1>4, <2>1, <2>2, <2>3, <2>4 DEF Tick
  <1>5. CASE MonitorDone
    BY <1>5, HandoverBufferType DEF MonitorDone
  <1>6. CASE BootCurrent
    <2>1. IsView(operators', Epochs, Operators)
      <3>1. IsView(UpdateCurrentOperator(operators, slot.epoch,
                                         schedule[clock.epoch]),
                   Epochs, Operators)
        BY <1>1, UpdateCurrentView
      <3> QED
        BY <1>1, <1>6, <3>1 DEF BootCurrent
    <2> QED
      BY <1>6, <2>1 DEF BootCurrent, IsView
  <1>7. CASE BootNext
    <2>1. IsView(operators', Epochs, Operators)
      BY <1>1, <1>7, <1>view DEF BootNext
    <2>2. activeEpoch' \in SUBSET Epochs
      BY <1>1, <1>7 DEF BootNext
    <2> QED
      BY <1>7, <2>1, <2>2 DEF BootNext, IsView
  <1>8. CASE SkipWhileWaiting
    BY <1>8 DEF SkipWhileWaiting
  <1>9. CASE StartIteration
    <2>1. IsView(operators', Epochs, Operators)
      <3>1. IsView(ChangeEpoch(operators, clock.epoch), Epochs, Operators)
        BY <1>1, ChangeEpochView
      <3> QED
        BY <1>1, <1>9, <3>1 DEF StartIteration
    <2>2. activeEpoch' \in SUBSET Epochs
      BY <1>1, <1>9 DEF StartIteration
    <2>3. /\ waiting' \in BOOLEAN
          /\ waited' \in 0..HandoverBuffer
          /\ monitored' \in SUBSET Epochs
          /\ pc' \in Locations
      BY <1>2, <1>3, <1>9 DEF StartIteration
    <2> QED
      BY <1>9, <2>1, <2>2, <2>3 DEF StartIteration, IsView
  <1>10. CASE AnchorUpdated
    BY <1>2, <1>10, AnchorLifetimeType DEF AnchorUpdated
  <1>11. CASE AnchorFailed
    BY <1>11 DEF AnchorFailed
  <1>12. CASE HoldSkips
    BY <1>12 DEF HoldSkips
  <1>13. CASE HoldEnds
    BY <1>13 DEF HoldEnds
  <1>14. CASE BuildDone
    BY <1>3, <1>14 DEF BuildDone
  <1>15. CASE QueryNext
    <2>1. IsView(operators', Epochs, Operators)
      BY <1>1, <1>15, <1>view DEF QueryNext
    <2> QED
      BY <1>15, <2>1 DEF QueryNext, IsView
  <1>16. CASE StaysStopped \/ UNCHANGED vars
    BY <1>16 DEF StaysStopped, vars
  <1> QED
    BY <1>4, <1>5, <1>6, <1>7, <1>8, <1>9, <1>10, <1>11, <1>12, <1>13, <1>14,
       <1>15, <1>16 DEF Next

\* The variables of the loop always have their types: in particular the list
\* never names an epoch the whitelist could not have been asked about.
THEOREM TypeCorrect == Spec => []TypeOK
  <1> QED
    BY TypeInit, TypeStep, PTL DEF Spec

-----------------------------------------------------------------------------
(* What an iteration decides, from a list that tells the truth.            *)

\* The parts of the list that survive change_epoch or an answer of the
\* whitelist are as true as they were.
LEMMA ChangeEpochTrue ==
    ASSUME TypeOK, ListTrue, NEW epoch
    PROVE  LET new == ChangeEpoch(operators, epoch) IN
           \A e \in DOMAIN new : 
              e \in DOMAIN operators /\ e >= epoch /\ new[e] = schedule[e]
  <1>1. IsView(operators, Epochs, Operators)
    BY DEF TypeOK, IsView
  <1>2. LET new == ChangeEpoch(operators, epoch) IN
        \A e \in DOMAIN new :
           e \in DOMAIN operators /\ e >= epoch /\ new[e] = operators[e]
    BY <1>1, ChangeEpochView
  <1> QED
    BY <1>2 DEF ListTrue

\* An epoch that became active in this iteration is one this preconfer was
\* elected for.
LEMMA ActivatesTruly ==
    ASSUME TypeOK, ListTrue, ActiveTrue, StartIteration
    PROVE  ListTrue' /\ ActiveTrue'
  <1>1. ListTrue'
    BY ChangeEpochTrue DEF StartIteration, ListTrue
  <1>2. ActiveTrue'
    BY <1>1 DEF StartIteration, ListTrue, ActiveTrue, IsActiveIn
  <1> QED
    BY <1>1, <1>2

\* can_preconfirm is right about the window.
LEMMA CanPreconfirmInTurn ==
    ASSUME NEW active, NEW at, CanPreconfirm(active, at),
           \A e \in active : schedule[e] = Me
    PROVE  schedule[WindowEpoch(at)] = Me
  BY DEF CanPreconfirm, WindowEpoch

\* is_current_and_next is right about the window if the list is about the
\* current and the next epoch.
LEMMA CurrentAndNextInTurn ==
    ASSUME NEW known, NEW at, IsCurrentAndNext(known, Me),
           DOMAIN known \subseteq {at.epoch, at.epoch + 1},
           \A e \in DOMAIN known : known[e] = schedule[e]
    PROVE  schedule[WindowEpoch(at)] = Me
  BY CurrentAndNextKnowsBoth DEF WindowEpoch

\* is_current_and_next is right about the current epoch if the list is about
\* the epoch before and the current one.
LEMMA BeforeAndCurrentInTurn ==
    ASSUME NEW known, NEW at, IsCurrentAndNext(known, Me),
           DOMAIN known \subseteq {at.epoch - 1, at.epoch},
           \A e \in DOMAIN known : known[e] = schedule[e]
    PROVE  schedule[at.epoch] = Me
  BY CurrentAndNextKnowsBoth

\* An answer that the whitelist gives in the epoch of the iteration is filed
\* under the right epoch.
LEMMA AnswerTrue ==
    ASSUME TypeOK, ListTrue, clock.epoch = slot.epoch
    PROVE  LET current == UpdateCurrentOperator(operators, slot.epoch,
                                                schedule[clock.epoch])
               next == UpdateNextOperator(operators, slot.epoch,
                                          schedule[clock.epoch + 1])
           IN  /\ \A e \in DOMAIN current : current[e] = schedule[e]
               /\ \A e \in DOMAIN next : next[e] = schedule[e]
               /\ DOMAIN current \subseteq DOMAIN operators \cup {slot.epoch}
               /\ DOMAIN next \subseteq {slot.epoch, slot.epoch + 1}
  <1>1. /\ IsView(operators, Epochs, Operators)
        /\ schedule[clock.epoch] \in Operators
        /\ schedule[clock.epoch + 1] \in Operators
        /\ slot.epoch \in Epochs /\ slot.epoch + 1 \in Epochs
    BY TickEpochs DEF IsView, TypeOK
  <1>2. LET new == UpdateCurrentOperator(operators, slot.epoch,
                                         schedule[clock.epoch]) IN
        /\ new[slot.epoch] = schedule[clock.epoch]
        /\ \A e \in DOMAIN new \ {slot.epoch} :
              e \in DOMAIN operators /\ new[e] = operators[e]
    BY <1>1, UpdateCurrentView
  <1>3. LET new == UpdateNextOperator(operators, slot.epoch,
                                      schedule[clock.epoch + 1]) IN
        /\ DOMAIN new \subseteq {slot.epoch, slot.epoch + 1}
        /\ new[slot.epoch + 1] = schedule[clock.epoch + 1]
        /\ \A e \in DOMAIN new \ {slot.epoch + 1} :
              e \in DOMAIN operators /\ new[e] = operators[e]
    BY <1>1, UpdateNextView
  <1> QED
    BY <1>2, <1>3 DEF ListTrue

-----------------------------------------------------------------------------
(* Timely environments.                                                    *)

\* The clock after a tick: the same epoch, or the first tick of the next one.
LEMMA FollowingEpoch ==
    ASSUME NEW t \in Ticks
    PROVE  \/ Following(t).epoch = t.epoch
           \/ Following(t).epoch = t.epoch + 1 /\ IsEpochStart(Following(t))
  BY DEF Following, IsEpochStart, Ticks

\* An iteration of a timely loop holds a list about now, and if it approaches
\* build_block it is in this preconfer's window.
LEMMA TimelyIteration ==
    ASSUME TypeOK, OnTime, ListTrue, ActiveTrue, ListOfNow, StartIteration
    PROVE  ListOfNow' /\ CommittedInTurn'
  <1>1. ListTrue' /\ ActiveTrue'
    BY ActivatesTruly
  <1>2. /\ slot' = clock /\ clock' = clock /\ schedule' = schedule
        /\ operators' = IF IsEpochStart(clock)
                        THEN ChangeEpoch(operators, clock.epoch)
                        ELSE operators
    BY DEF StartIteration
  <1>3. \A e \in DOMAIN operators' :
           /\ e \in DOMAIN operators /\ e \in Nat
           /\ IsEpochStart(clock) => e >= clock.epoch
    <2>1. DOMAIN operators \subseteq Nat
      BY LoopAssumption DEF TypeOK, Epochs
    <2> QED
      BY <1>2, <2>1, ChangeEpochTrue
  <1>4. clock.epoch \in Nat /\ slot.epoch \in Nat
    BY TickEpochs DEF TypeOK
  <1>5. ListOfNow'
    <2>1. CASE clock.epoch = slot.epoch
      BY <1>2, <1>3, <2>1 DEF ListOfNow
    <2>2. CASE clock.epoch # slot.epoch
      <3>1. clock.epoch = slot.epoch + 1 /\ IsEpochStart(clock)
        BY <2>2, FollowingEpoch DEF StartIteration, OnTime, TypeOK
      <3> QED
        BY <1>2, <1>3, <1>4, <3>1 DEF ListOfNow
    <2> QED
      BY <2>1, <2>2
  <1>6. ASSUME pc' \in {"anchor", "hold", "build"}
        PROVE  schedule[WindowEpoch(clock)] = Me
    <2>1. CanPreconfirm(activeEpoch', clock) \/ IsCurrentAndNext(operators',
    Me)
      BY <1>6 DEF StartIteration, AfterBuild
    <2>2. CASE CanPreconfirm(activeEpoch', clock)
      BY <1>1, <1>2, <2>2, CanPreconfirmInTurn DEF ActiveTrue
    <2>3. CASE IsCurrentAndNext(operators', Me)
      BY <1>1, <1>2, <1>5, <2>3, CurrentAndNextInTurn DEF ListTrue, ListOfNow
    <2> QED
      BY <2>1, <2>2, <2>3
  <1> QED
    BY <1>2, <1>5, <1>6 DEF CommittedInTurn

\* TimelyInv holds initially.
LEMMA TimelyInit == Init => TimelyInv
  BY DEF Init, TimelyInv, OnTime, WaitsInFirstSlot, ListTrue, ActiveTrue,
         ListOfNow, CommittedInTurn

\* TimelyInv holds after every step.
LEMMA TimelyStep == TypeOK /\ TimelyInv /\ [Next]_vars => TimelyInv'
  <1> SUFFICES ASSUME TypeOK, TimelyInv, [Next]_vars, Timely'
               PROVE  /\ OnTime' /\ WaitsInFirstSlot' /\ ListTrue'
                      /\ ActiveTrue' /\ ListOfNow' /\ CommittedInTurn'
    BY DEF TimelyInv
  <1>1. env' = env
    BY DEF Next, Tick, MonitorDone, BootCurrent, BootNext, SkipWhileWaiting,
           StartIteration, AnchorUpdated, AnchorFailed, HoldSkips, HoldEnds,
           BuildDone, QueryNext, StaysStopped, vars
  <1>2. /\ Timely /\ OnTime /\ WaitsInFirstSlot /\ ListTrue
        /\ ActiveTrue /\ ListOfNow /\ CommittedInTurn
    BY <1>1 DEF Timely, TimelyInv
  <1>3. clock \in Ticks /\ slot \in Ticks /\ pc \in Locations
    BY DEF TypeOK
  <1>4. CASE Tick
    <2>1. OnTime'
      BY <1>2, <1>3, <1>4 DEF Tick, Allowance, OnTime, Timely, Locations
    <2>2. WaitsInFirstSlot'
      <3> SUFFICES ASSUME waiting
                   PROVE  /\ Following(clock).epoch = slot.epoch
                          /\ Following(clock).slot = 0
                          /\ Following(clock).sub = waited + 1
        BY <1>4 DEF Tick, WaitsInFirstSlot
      <3>1. /\ clock.epoch = slot.epoch /\ clock.slot = 0 /\ clock.sub = waited
            /\ waited < HandoverBuffer /\ waited \in Nat
        BY <1>2, <1>4, HandoverBufferType DEF Tick, WaitsInFirstSlot, TypeOK
      <3>2. clock.sub + 1 < SubslotsPerSlot
        BY <3>1, LoopAssumption
      <3> QED
        BY <1>3, <3>1, <3>2 DEF Following, Ticks
    <2> QED
      BY <1>2, <1>4, <2>1, <2>2
         DEF Tick, ListTrue, ActiveTrue, ListOfNow, CommittedInTurn
  <1>5. CASE MonitorDone
    BY <1>2, <1>5 DEF MonitorDone, OnTime, WaitsInFirstSlot, ListTrue,
                      ActiveTrue, ListOfNow, CommittedInTurn
  <1>6. CASE BootCurrent
    <2>1. ListTrue' /\ ListOfNow'
      BY <1>2, <1>6, AnswerTrue DEF BootCurrent, OnTime, ListTrue, ListOfNow
    <2> QED
      BY <1>2, <1>6, <2>1 DEF BootCurrent, OnTime, WaitsInFirstSlot,
                              ActiveTrue, CommittedInTurn
  <1>7. CASE BootNext
    <2>1. ListTrue' /\ ListOfNow'
      BY <1>2, <1>7, AnswerTrue DEF BootNext, OnTime, ListTrue, ListOfNow
    <2>2. ActiveTrue'
      BY <1>2, <1>7, <2>1 DEF BootNext, ActiveTrue, ListTrue, IsActiveIn
    <2> QED
      BY <1>2, <1>7, <2>1, <2>2 DEF BootNext, OnTime, WaitsInFirstSlot,
                                    CommittedInTurn
  <1>8. CASE SkipWhileWaiting
    <2>1. ListOfNow'
      BY <1>2, <1>8 DEF SkipWhileWaiting, WaitsInFirstSlot, ListOfNow
    <2> QED
      BY <1>2, <1>8, <2>1 DEF SkipWhileWaiting, OnTime, WaitsInFirstSlot,
                              ListTrue, ActiveTrue, CommittedInTurn
  <1>9. CASE StartIteration
    <2>1. ListTrue' /\ ActiveTrue' /\ ListOfNow' /\ CommittedInTurn'
      BY <1>2, <1>9, ActivatesTruly, TimelyIteration
    <2>2. OnTime'
      BY <1>9 DEF StartIteration, OnTime
    <2>3. WaitsInFirstSlot'
      BY <1>2, <1>9 DEF StartIteration, ApproachBuild, IsEpochStart,
                        WaitsInFirstSlot
    <2> QED
      BY <2>1, <2>2, <2>3
  <1>10. CASE AnchorUpdated
    <2>1. pc' \in {"hold", "build"}
      BY <1>10 DEF AnchorUpdated, ApproachBuild
    <2>2. OnTime' /\ CommittedInTurn'
      BY <1>2, <1>10, <2>1 DEF AnchorUpdated, OnTime, CommittedInTurn
    <2>3. WaitsInFirstSlot'
      BY <1>2, <1>10 DEF AnchorUpdated, ApproachBuild, IsEpochStart, OnTime,
                         WaitsInFirstSlot
    <2> QED
      BY <1>2, <1>10, <2>2, <2>3 DEF AnchorUpdated, ListTrue, ActiveTrue,
                                     ListOfNow
  <1>11. CASE AnchorFailed \/ HoldSkips \/ HoldEnds \/ BuildDone
    BY <1>2, <1>11 DEF AnchorFailed, HoldSkips, HoldEnds, BuildDone,
                       AfterBuild,
                       OnTime, WaitsInFirstSlot, ListTrue, ActiveTrue,
                       ListOfNow, CommittedInTurn
  <1>12. CASE QueryNext
    <2>1. ListTrue' /\ ListOfNow'
      BY <1>2, <1>12, AnswerTrue DEF QueryNext, OnTime, ListTrue, ListOfNow
    <2> QED
      BY <1>2, <1>12, <2>1 DEF QueryNext, OnTime, WaitsInFirstSlot, ActiveTrue,
                               CommittedInTurn
  <1>13. CASE StaysStopped \/ UNCHANGED vars
    BY <1>2, <1>13 DEF StaysStopped, vars, OnTime, WaitsInFirstSlot, ListTrue,
                       ActiveTrue, ListOfNow, CommittedInTurn
  <1> QED
    BY <1>4, <1>5, <1>6, <1>7, <1>8, <1>9, <1>10, <1>11, <1>12, <1>13 DEF Next

-----------------------------------------------------------------------------
(* Prompt environments.                                                    *)

\* A tick keeps the clock within one L1 slot of the last iteration.
LEMMA TickWithinSlot ==
    ASSUME TypeOK, WithinSlot, behind <= SubslotsPerSlot,
           slot.sub + behind + 1 < 2 * SubslotsPerSlot, Tick, pc # "stopped"
    PROVE  WithinSlot'
  <1>1. /\ clock' = Following(clock) /\ behind' = behind + 1 /\ slot' = slot
    BY DEF Tick
  <1>2. /\ clock \in Ticks /\ behind \in Nat
        /\ slot.epoch \in Nat /\ slot.slot \in Nat /\ slot.sub \in Nat
        /\ slot.slot < SlotsPerEpoch /\ slot.sub < SubslotsPerSlot
        /\ SubslotsPerSlot \in Nat /\ SlotsPerEpoch \in Nat
        /\ clock.epoch \in Nat /\ clock.slot \in Nat /\ clock.sub \in Nat
        /\ clock.slot < SlotsPerEpoch /\ clock.sub < SubslotsPerSlot
    BY TickEpochs, SlotsAssumption, LoopAssumption DEF TypeOK
  <1>3. clock = [epoch |-> clock.epoch, slot |-> clock.slot, sub |-> clock.sub]
    BY <1>2 DEF Ticks
  <1>4. CASE clock.sub + 1 < SubslotsPerSlot
    <2>1. /\ clock'.epoch = clock.epoch /\ clock'.slot = clock.slot
          /\ clock'.sub = clock.sub + 1
      BY <1>1, <1>3, <1>4 DEF Following
    <2> QED
      BY <1>1, <1>2, <2>1 DEF WithinSlot
  <1>5. CASE ~(clock.sub + 1 < SubslotsPerSlot)
    <2>1. /\ clock.epoch = slot.epoch /\ clock.slot = slot.slot
          /\ SubslotsPerSlot = slot.sub + (behind + 1)
      BY <1>2, <1>5 DEF WithinSlot
    <2>2. /\ clock'.sub = 0
          /\ \/ clock'.epoch = clock.epoch /\ clock'.slot = clock.slot + 1
             \/ /\ clock'.epoch = clock.epoch + 1 /\ clock'.slot = 0
                /\ clock.slot + 1 = SlotsPerEpoch
      BY <1>1, <1>2, <1>5 DEF Following
    <2> QED
      BY <1>1, <1>2, <2>1, <2>2 DEF WithinSlot
  <1> QED
    BY <1>4, <1>5

\* A stale list is about the epoch before and, up to the handover window, right
\* about the window: what an iteration of a prompt loop decides.
LEMMA PromptIteration ==
    ASSUME TypeOK, Prompt, WithinSlot, behind <= SubslotsPerSlot, pc = "top",
           ListTrue, ActiveTrue, ListOfBeforeUntilHandover, StartIteration
    PROVE  ListOfBeforeUntilHandover' /\ CommittedInTurn'
  <1>1. ListTrue' /\ ActiveTrue'
    BY ActivatesTruly
  <1>2. /\ slot' = clock /\ clock' = clock /\ schedule' = schedule
        /\ operators' = IF IsEpochStart(clock)
                        THEN ChangeEpoch(operators, clock.epoch)
                        ELSE operators
    BY DEF StartIteration
  <1>3. \A e \in DOMAIN operators' : e \in DOMAIN operators /\ e \in Nat
    <2>1. DOMAIN operators \subseteq Nat
      BY LoopAssumption DEF TypeOK, Epochs
    <2> QED
      BY <1>2, <2>1, ChangeEpochTrue
  <1>4. /\ slot.epoch \in Nat /\ slot.slot \in Nat /\ slot.sub \in Nat
        /\ slot.slot < SlotsPerEpoch /\ slot.sub < SubslotsPerSlot
        /\ SubslotsPerSlot \in Nat /\ SlotsPerEpoch \in Nat
        /\ HandoverSlots \in 1..(SlotsPerEpoch - 1)
        /\ clock.epoch \in Nat /\ clock.slot \in Nat /\ clock.sub \in Nat
    BY TickEpochs, SlotsAssumption, LoopAssumption DEF TypeOK, Prompt
  <1>5. \/ DOMAIN operators' \subseteq {clock.epoch, clock.epoch + 1}
        \/ /\ DOMAIN operators' \subseteq {clock.epoch - 1, clock.epoch}
           /\ clock.slot < SlotsPerEpoch - HandoverSlots
    <2>1. CASE clock.epoch = slot.epoch /\ clock.slot = slot.slot
      BY <1>3, <1>4, <2>1 DEF ListOfBeforeUntilHandover, ListOfNow,
                              ListOfBefore
    <2>2. CASE clock.epoch = slot.epoch /\ clock.slot = slot.slot + 1
      BY <1>3, <1>4, <2>2 DEF ListOfBeforeUntilHandover, ListOfNow,
                              ListOfBefore
    <2>3. CASE /\ clock.epoch = slot.epoch + 1 /\ clock.slot = 0
               /\ slot.slot + 1 = SlotsPerEpoch
      <3>1. ListOfNow
        BY <1>4, <2>3 DEF ListOfBeforeUntilHandover
      <3> QED
        BY <1>3, <1>4, <2>3, <3>1 DEF ListOfNow
    <2> QED
      BY <2>1, <2>2, <2>3 DEF WithinSlot
  <1>6. ASSUME pc' \in {"anchor", "hold", "build"}
        PROVE  schedule[WindowEpoch(clock)] = Me
    <2>1. CanPreconfirm(activeEpoch', clock) \/ IsCurrentAndNext(operators',
    Me)
      BY <1>6 DEF StartIteration, AfterBuild
    <2>2. CASE CanPreconfirm(activeEpoch', clock)
      BY <1>1, <1>2, <2>2, CanPreconfirmInTurn DEF ActiveTrue
    <2>3. CASE /\ IsCurrentAndNext(operators', Me)
               /\ DOMAIN operators' \subseteq {clock.epoch, clock.epoch + 1}
      BY <1>1, <1>2, <2>3, CurrentAndNextInTurn DEF ListTrue
    <2>4. CASE /\ IsCurrentAndNext(operators', Me)
               /\ DOMAIN operators' \subseteq {clock.epoch - 1, clock.epoch}
               /\ clock.slot < SlotsPerEpoch - HandoverSlots
      <3>1. schedule[clock.epoch] = Me
        BY <1>1, <1>2, <2>4, BeforeAndCurrentInTurn DEF ListTrue
      <3>2. WindowEpoch(clock) = clock.epoch
        BY <1>4, <2>4 DEF WindowEpoch, WithinHandoverPeriod
      <3> QED
        BY <3>1, <3>2
    <2> QED
      BY <1>5, <2>1, <2>2, <2>3, <2>4
  <1>7. pc' = "top" => clock.slot # SlotsPerEpoch - HandoverSlots - 1
    BY DEF StartIteration, ApproachBuild, AfterBuild,
           IsLastSlotBeforeHandoverWindow
  <1>8. ListOfBeforeUntilHandover'
    BY <1>2, <1>4, <1>5, <1>7
       DEF ListOfBeforeUntilHandover, ListOfNow, ListOfBefore
  <1> QED
    BY <1>2, <1>6, <1>8 DEF CommittedInTurn

\* In a prompt loop a monitor is never spawned: the first slot of the window is
\* not the first slot of an epoch, and it is only there that the code asks for
\* one.
LEMMA PromptNeverHolds ==
    ASSUME Prompt, NEW active, NEW at, ApproachBuild(active, at)
    PROVE  waiting' = waiting /\ pc' = "build"
  <1>1. ~(IsFirstPreconfirmationSlot(active, at) /\ IsEpochStart(at))
    BY SlotsAssumption DEF Prompt, IsFirstPreconfirmationSlot,
                           IsHandoverStartSlot, IsEpochStart
  <1> QED
    BY <1>1 DEF ApproachBuild

\* PromptInv holds initially.
LEMMA PromptInit == Init => PromptInv
  <1> SUFFICES ASSUME Init, Prompt
               PROVE  /\ ~waiting /\ pc \notin {"hold", "stopped"}
                      /\ WithinSlot /\ NotFarBehind /\ ListTrue /\ ActiveTrue
                      /\ NextAsksBeforeHandover
                      /\ ListOfBeforeUntilHandover /\ CommittedInTurn
    BY DEF PromptInv
  <1>1. clock = slot /\ behind = 0 /\ slot.sub \in Nat
    BY TickEpochs DEF Init
  <1>2. WithinSlot
    BY <1>1 DEF WithinSlot
  <1> QED
    BY <1>2 DEF Init, NotFarBehind, NextAsksBeforeHandover, ListTrue,
                ActiveTrue, CommittedInTurn,
                ListOfBeforeUntilHandover, ListOfNow

\* PromptInv holds after every step.
LEMMA PromptStep == TypeOK /\ PromptInv /\ [Next]_vars => PromptInv'
  <1> SUFFICES ASSUME TypeOK, PromptInv, [Next]_vars, Prompt'
               PROVE  /\ ~waiting' /\ pc' \notin {"hold", "stopped"}
                      /\ WithinSlot' /\ NotFarBehind' /\ ListTrue'
                      /\ NextAsksBeforeHandover'
                      /\ ActiveTrue' /\ ListOfBeforeUntilHandover'
                      /\ CommittedInTurn'
    BY DEF PromptInv
  <1>1. env' = env
    BY DEF Next, Tick, MonitorDone, BootCurrent, BootNext, SkipWhileWaiting,
           StartIteration, AnchorUpdated, AnchorFailed, HoldSkips, HoldEnds,
           BuildDone, QueryNext, StaysStopped, vars
  <1>2. /\ Prompt /\ ~waiting /\ pc \notin {"hold", "stopped"}
        /\ WithinSlot /\ NotFarBehind /\ NextAsksBeforeHandover
        /\ ListTrue /\ ActiveTrue /\ ListOfBeforeUntilHandover
        /\ CommittedInTurn
    BY <1>1 DEF Prompt, PromptInv
  <1>3. /\ slot.epoch \in Nat /\ slot.slot \in Nat /\ slot.sub \in Nat
        /\ slot.slot < SlotsPerEpoch /\ slot.sub < SubslotsPerSlot
        /\ SubslotsPerSlot \in Nat \ {0} /\ SlotsPerEpoch \in Nat
        /\ HandoverSlots \in 1..(SlotsPerEpoch - 1)
        /\ clock.epoch \in Nat /\ clock.slot \in Nat /\ clock.sub \in Nat
        /\ clock.sub < SubslotsPerSlot
        /\ behind \in Nat /\ pc \in Locations
    BY <1>2, TickEpochs, SlotsAssumption, LoopAssumption DEF TypeOK, Prompt
  <1>4. CASE Tick
    <2>1. /\ behind' = behind + 1 /\ pc' = pc /\ slot' = slot
          /\ behind < Allowance
      BY <1>2, <1>4 DEF Tick
    <2>2. env.bootLag = 0 /\ env.maxLag \in Nat /\ env.maxLag < SubslotsPerSlot
      BY <1>2, LoopAssumption DEF Prompt, TypeOK, Environment
    <2>3. /\ pc \notin {"bootCurrent", "bootNext"}
          /\ pc = "top" => behind < SubslotsPerSlot
          /\ pc # "top" => behind + 1 < SubslotsPerSlot
      BY <1>2, <1>3, <2>1, <2>2 DEF Allowance, Locations
    <2>4. NotFarBehind'
      BY <1>3, <2>1, <2>3 DEF NotFarBehind
    <2>5. WithinSlot'
      BY <1>2, <1>3, <1>4, <2>3, TickWithinSlot
    <2> QED
      BY <1>2, <1>4, <2>4, <2>5
         DEF Tick, NextAsksBeforeHandover, ListTrue, ActiveTrue,
             ListOfBeforeUntilHandover, ListOfNow,
             ListOfBefore, CommittedInTurn
  <1>5. CASE MonitorDone
    BY <1>2, <1>5 DEF MonitorDone
  <1>6. CASE BootCurrent
    <2>1. clock.epoch = slot.epoch
      BY <1>2, <1>3, <1>6 DEF BootCurrent, WithinSlot, NotFarBehind
    <2>2. ListTrue'
      BY <1>2, <1>6, <2>1, AnswerTrue DEF BootCurrent, Prompt, ListTrue
    <2>3. ListOfBeforeUntilHandover'
      BY <1>2, <1>6, <2>1, AnswerTrue
         DEF BootCurrent, Prompt, ListOfBeforeUntilHandover, ListOfNow,
             ListOfBefore
    <2> QED
      BY <1>2, <1>6, <2>2, <2>3 DEF BootCurrent, WithinSlot, NotFarBehind,
                                    NextAsksBeforeHandover, ActiveTrue,
                                    CommittedInTurn
  <1>7. CASE BootNext
    <2>1. clock.epoch = slot.epoch
      BY <1>2, <1>3, <1>7 DEF BootNext, WithinSlot, NotFarBehind
    <2>2. ListTrue' /\ ListOfNow'
      BY <1>2, <1>7, <2>1, AnswerTrue DEF BootNext, Prompt, ListTrue, ListOfNow
    <2>3. ActiveTrue'
      BY <1>2, <1>7, <2>2 DEF BootNext, ActiveTrue, ListTrue, IsActiveIn
    <2>4. behind' = 0 /\ behind = 0 /\ clock' = clock /\ slot' = slot
      BY <1>2, <1>7 DEF BootNext, NotFarBehind
    <2>5. WithinSlot' /\ NotFarBehind'
      BY <1>2, <1>3, <1>7, <2>4 DEF BootNext, WithinSlot, NotFarBehind
    <2> QED
      BY <1>2, <1>7, <2>2, <2>3, <2>5
         DEF BootNext, NextAsksBeforeHandover, ListOfBeforeUntilHandover,
             CommittedInTurn
  <1>8. CASE SkipWhileWaiting
    BY <1>2, <1>8 DEF SkipWhileWaiting
  <1>9. CASE StartIteration
    <2>1. ListTrue' /\ ActiveTrue'
      BY <1>2, <1>9, ActivatesTruly
    <2>2. behind <= SubslotsPerSlot /\ pc = "top"
      BY <1>2, <1>9 DEF StartIteration, NotFarBehind
    <2>3. ListOfBeforeUntilHandover' /\ CommittedInTurn'
      BY <1>2, <1>9, <2>2, PromptIteration
    <2>4. slot' = clock /\ clock' = clock /\ behind' = 0
      BY <1>9 DEF StartIteration
    <2>5. WithinSlot' /\ NotFarBehind'
      BY <1>3, <2>4 DEF WithinSlot, NotFarBehind
    <2>6. ~waiting' /\ pc' \in {"anchor", "build", "next", "top"}
      BY <1>2, <1>9, PromptNeverHolds DEF StartIteration, AfterBuild
    <2>7. NextAsksBeforeHandover'
      BY <1>9, <2>4 DEF StartIteration, ApproachBuild, AfterBuild,
                        NextAsksBeforeHandover
    <2> QED
      BY <2>1, <2>3, <2>5, <2>6, <2>7
  <1>10. CASE AnchorUpdated
    <2>1. waiting' = waiting /\ pc' = "build"
      BY <1>2, <1>10, PromptNeverHolds DEF AnchorUpdated
    <2> QED
      BY <1>2, <1>10, <2>1
         DEF AnchorUpdated, WithinSlot, NotFarBehind,
             NextAsksBeforeHandover, ListTrue, ActiveTrue,
             ListOfBeforeUntilHandover, ListOfNow, ListOfBefore,
             CommittedInTurn
  <1>11. CASE AnchorFailed \/ HoldSkips \/ HoldEnds
    BY <1>2, <1>11 DEF AnchorFailed, HoldSkips, HoldEnds, Prompt
  <1>12. CASE BuildDone
    <2>1. pc' \in {"top", "next"}
      BY <1>12 DEF BuildDone, AfterBuild
    <2>2. pc' = "top" => slot.slot # SlotsPerEpoch - HandoverSlots - 1
      BY <1>12 DEF BuildDone, AfterBuild, IsLastSlotBeforeHandoverWindow
    <2>3. ListOfBeforeUntilHandover'
      BY <1>2, <1>3, <1>12, <2>2
         DEF BuildDone, ListOfBeforeUntilHandover, ListOfNow, ListOfBefore
    <2>4. NotFarBehind'
      BY <1>2, <1>3, <1>12, <2>1 DEF BuildDone, NotFarBehind
    <2> QED
      BY <1>2, <1>12, <2>1, <2>3, <2>4
         DEF BuildDone, AfterBuild, WithinSlot, NextAsksBeforeHandover,
             ListTrue, ActiveTrue, CommittedInTurn
  <1>13. CASE QueryNext
    <2>1. clock.epoch = slot.epoch
      <3>1. slot.slot = SlotsPerEpoch - HandoverSlots - 1
        BY <1>2, <1>13 DEF QueryNext, NextAsksBeforeHandover,
                           IsLastSlotBeforeHandoverWindow
      <3>2. slot.slot + 1 < SlotsPerEpoch
        BY <1>3, <3>1
      <3> QED
        BY <1>2, <1>3, <3>2 DEF WithinSlot
    <2>2. ListTrue' /\ ListOfNow'
      BY <1>2, <1>13, <2>1, AnswerTrue DEF QueryNext, Prompt, ListTrue,
                                           ListOfNow
    <2> QED
      BY <1>2, <1>3, <1>13, <2>2
         DEF QueryNext, WithinSlot, NotFarBehind, NextAsksBeforeHandover,
             ActiveTrue,
             ListOfBeforeUntilHandover, CommittedInTurn
  <1>14. CASE StaysStopped \/ UNCHANGED vars
    BY <1>2, <1>14
       DEF StaysStopped, vars, WithinSlot, NotFarBehind,
           NextAsksBeforeHandover, ListTrue, ActiveTrue,
           ListOfBeforeUntilHandover, ListOfNow, ListOfBefore, CommittedInTurn
  <1> QED
    BY <1>4, <1>5, <1>6, <1>7, <1>8, <1>9, <1>10, <1>11, <1>12, <1>13, <1>14
       DEF Next

-----------------------------------------------------------------------------
(* The theorems.                                                           *)

\* In a timely environment the list and the active epoch are about the current
\* and the next epoch whatever calls fail, and an iteration that approaches
\* build_block is in this preconfer's window.
THEOREM TimelyCorrect == Spec => []TimelyInv
  <1>1. Init => TypeOK /\ TimelyInv
    BY TypeInit, TimelyInit
  <1>2. TypeOK /\ TimelyInv /\ [Next]_vars => (TypeOK /\ TimelyInv)'
    BY TypeStep, TimelyStep
  <1> QED
    BY <1>1, <1>2, PTL DEF Spec

\* In a prompt environment the list may be one epoch behind, but no longer than
\* the slot before the handover window.
THEOREM PromptCorrect == Spec => []PromptInv
  <1>1. Init => TypeOK /\ PromptInv
    BY TypeInit, PromptInit
  <1>2. TypeOK /\ PromptInv /\ [Next]_vars => (TypeOK /\ PromptInv)'
    BY TypeStep, PromptStep
  <1> QED
    BY <1>1, <1>2, PTL DEF Spec

\* The loop never builds a block in the window of another operator if no
\* iteration is late (whatever calls fail), or if no call fails (and every slot
\* gets an iteration).
THEOREM BuildsInTurnCorrect == Spec => []BuildsInTurnIfTolerable
  <1>1. TimelyInv /\ PromptInv => BuildsInTurnIfTolerable
    BY DEF TimelyInv, PromptInv, BuildsInTurnIfTolerable, BuildsInTurn,
           CommittedInTurn
  <1> QED
    BY <1>1, TimelyCorrect, PromptCorrect, PTL

\* waiting_for_previous_preconfer is never set unless the handover window is the
\* whole epoch: the slot a monitor is spawned in would have to be the first of
\* the epoch and the first of the window.  (In particular the confirmation loop,
\* which reads the flag, never waits: Confirmation leaves it out.)
THEOREM NeverWaits == HandoverSlots < SlotsPerEpoch => (Spec => []~waiting)
  <1> SUFFICES ASSUME HandoverSlots < SlotsPerEpoch
               PROVE  Spec => []~waiting
    OBVIOUS
  <1>1. ASSUME NEW active, NEW at
        PROVE  ~(IsFirstPreconfirmationSlot(active, at) /\ IsEpochStart(at))
    BY SlotsAssumption DEF IsFirstPreconfirmationSlot, IsHandoverStartSlot,
                           IsEpochStart
  <1>2. Init => ~waiting
    BY DEF Init
  <1>3. ~waiting /\ [Next]_vars => ~waiting'
    <2> SUFFICES ASSUME ~waiting, [Next]_vars
                 PROVE  ~waiting'
      OBVIOUS
    <2>1. CASE StartIteration
      BY <2>1, <1>1 DEF StartIteration, ApproachBuild
    <2>2. CASE AnchorUpdated
      BY <2>2, <1>1 DEF AnchorUpdated, ApproachBuild
    <2>3. CASE Tick \/ MonitorDone \/ BootCurrent \/ BootNext
      BY <2>3 DEF Tick, MonitorDone, BootCurrent, BootNext
    <2>4. CASE SkipWhileWaiting \/ AnchorFailed \/ HoldSkips \/ HoldEnds
      BY <2>4 DEF SkipWhileWaiting, AnchorFailed, HoldSkips, HoldEnds
    <2>5. CASE BuildDone \/ QueryNext \/ StaysStopped \/ UNCHANGED vars
      BY <2>5 DEF BuildDone, QueryNext, StaysStopped, vars
    <2> QED
      BY <2>1, <2>2, <2>3, <2>4, <2>5 DEF Next
  <1> QED
    BY <1>2, <1>3, PTL DEF Spec
=============================================================================
