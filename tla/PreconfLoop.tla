----------------------------- MODULE PreconfLoop -----------------------------
(***************************************************************************)
(* The preconfirmation loop of one preconfer:                              *)
(* taiko-preconfer/src/preconfirmation_loop.rs, with the list of operators *)
(* of util.rs (WhitelistView) and the windows of slot_model.rs             *)
(* (SlotWindows).                                                          *)
(*                                                                         *)
(* One tick of `clock' is one L2 slot ("subslot").  The code between two   *)
(* awaits is one step; the clock may tick while the loop sleeps or awaits, *)
(* as far as the environment `env' lets it.  A tick is late when the loop  *)
(* should have finished its work before it: the limits on late ticks are   *)
(* what the code assumes of its RPC servers and its executor, and no more. *)
(***************************************************************************)
EXTENDS SlotWindows, WhitelistView

CONSTANTS
    Operators,        \* the addresses the whitelist may elect
    Me,               \* the address of this preconfer
    SubslotsPerSlot,  \* L2 slots of an L1 slot
    HandoverBuffer,   \* handover_start_buffer: L2 slots a monitor may run
    AnchorIdLag,      \* L1 slots between two refreshes of the anchor
    LastEpoch,        \* BOUND: the clock stops at the last tick of this epoch
    Environments      \* the environments a behaviour may run in

\* An environment bounds the ticks that pass while the loop starts up
\* (bootLag) and beyond the next L2 slot once it runs (maxLag), and says
\* whether the RPC calls may fail.
Environment == [bootLag : Nat, maxLag : Nat, rpcFails : BOOLEAN]

ASSUME LoopAssumption ==
    /\ Me \in Operators
    /\ SubslotsPerSlot \in Nat \ {0}
    /\ HandoverBuffer \in 0..(SubslotsPerSlot - 1)
    /\ AnchorIdLag \in Nat \ {0}
    /\ LastEpoch \in Nat
    /\ Environments \subseteq Environment

VARIABLES
    clock,        \* the current L2 slot
    schedule,     \* epoch -> the operator the whitelist contract elects for it
    env,          \* the environment of this behaviour
    pc,           \* where the loop is
    slot,         \* the L2 slot the last iteration read from the clock
    behind,       \* ticks since the loop read it
    operators,    \* WhitelistMonitor.operators
    activeEpoch,  \* SlotModel.active_epoch, a set of at most one epoch
    waiting,      \* waiting_for_previous_preconfer: a sequencing monitor runs
    waited,       \* ticks since that monitor was spawned
    anchorAge,    \* ticks since the anchor was refreshed (up to AnchorLifetime)
    monitored     \* history: the last window a sequencing monitor ran for

vars == <<clock, schedule, env, pc, slot, behind, operators, activeEpoch,
          waiting, waited, anchorAge, monitored>>

-----------------------------------------------------------------------------
(* Time.                                                                   *)

Ticks == [epoch : 0..LastEpoch,
          slot  : 0..(SlotsPerEpoch - 1),
          sub   : 0..(SubslotsPerSlot - 1)]

LastTick == [epoch |-> LastEpoch, slot |-> SlotsPerEpoch - 1,
             sub |-> SubslotsPerSlot - 1]

\* Mistake: an epoch is one slot longer.
FollowingInLongEpoch(t) ==
    IF t.sub + 1 < SubslotsPerSlot THEN [t EXCEPT !.sub = t.sub + 1]
    ELSE IF t.slot < SlotsPerEpoch
         THEN [epoch |-> t.epoch, slot |-> t.slot + 1, sub |-> 0]
         ELSE [epoch |-> t.epoch + 1, slot |-> 0, sub |-> 0]

\* The L2 slot after t, as the slot model divides the time.
Following(t) ==
    IF t.sub + 1 < SubslotsPerSlot THEN [t EXCEPT !.sub = t.sub + 1]
    ELSE IF t.slot + 1 < SlotsPerEpoch
         THEN [epoch |-> t.epoch, slot |-> t.slot + 1, sub |-> 0]
         ELSE [epoch |-> t.epoch + 1, slot |-> 0, sub |-> 0]

\* Epochs the whitelist is asked about up to the end of LastEpoch.
Epochs == 0..(LastEpoch + 1)

AnchorLifetime == AnchorIdLag * SubslotsPerSlot

\* The iteration is the first of an epoch: subslot == 0 in the code.
IsEpochStart(t) == t.slot = 0 /\ t.sub = 0

-----------------------------------------------------------------------------
(* The state.                                                              *)

Locations == {"bootCurrent", "bootNext", "top", "anchor", "hold", "build",
              "next", "stopped"}

TypeOK ==
    /\ clock \in Ticks
    /\ schedule \in [Epochs -> Operators]
    /\ env \in Environments
    /\ pc \in Locations
    /\ slot \in Ticks
    /\ behind \in Nat
    /\ DOMAIN operators \subseteq Epochs
    /\ operators \in [DOMAIN operators -> Operators]
    /\ activeEpoch \in SUBSET Epochs
    /\ waiting \in BOOLEAN
    /\ waited \in 0..HandoverBuffer
    /\ anchorAge \in 0..AnchorLifetime
    /\ monitored \in SUBSET Epochs

\* The process starts at any time; main has just refreshed the anchor.
Init ==
    /\ clock \in Ticks
    /\ schedule \in [Epochs -> Operators]
    /\ env \in Environments
    /\ pc = "bootCurrent"
    /\ slot = clock
    /\ behind = 0
    /\ operators = [e \in {} |-> Me]
    /\ activeEpoch = {}
    /\ waiting = FALSE
    /\ waited = 0
    /\ anchorAge = 0
    /\ monitored = {}
-----------------------------------------------------------------------------
(* Time passes and monitors end beside the loop.                           *)

\* The ticks the loop may fall behind at its present location: while it
\* sleeps the next L2 slot is due, while it works it should not come.
Allowance ==
    CASE pc \in {"bootCurrent", "bootNext"}  -> env.bootLag
      [] pc = "top"                          -> env.maxLag + 1
      [] pc \in {"anchor", "hold", "build", "next"} -> env.maxLag
      [] pc = "stopped"                      -> behind + 1

Tick ==
    /\ clock # LastTick
    /\ behind < Allowance
    /\ waiting => waited < HandoverBuffer
    /\ clock' = Following(clock)
    /\ behind' = IF pc = "stopped" THEN behind ELSE behind + 1
    /\ anchorAge' = IF anchorAge < AnchorLifetime THEN anchorAge + 1
                                                  ELSE anchorAge
    /\ waited' = IF waiting THEN waited + 1 ELSE waited
    /\ UNCHANGED <<schedule, env, pc, slot, operators, activeEpoch, waiting,
                   monitored>>

\* Mistake: the task ends and leaves the flag set.
MonitorKeepsFlag ==
    /\ waiting
    /\ waited' = 0
    /\ UNCHANGED <<clock, schedule, env, pc, slot, behind, operators,
                   activeEpoch, waiting, anchorAge, monitored>>

\* The spawned task: the sequencing monitor is ready, fails or times out (so
\* the clock waits for it after HandoverBuffer ticks); in each case the task
\* clears the flag and ends.
MonitorDone ==
    /\ waiting
    /\ waiting' = FALSE
    /\ waited' = 0
    /\ UNCHANGED <<clock, schedule, env, pc, slot, behind, operators,
                   activeEpoch, anchorAge, monitored>>

-----------------------------------------------------------------------------
(* Startup.  The contract answers for the epoch of the chain at the time   *)
(* it is asked; the loop files the answer under the epoch it read before.  *)

BootCurrent ==
    /\ pc = "bootCurrent"
    /\ pc' = "bootNext"
    /\ \/ operators' = UpdateCurrentOperator(operators, slot.epoch,
                                             schedule[clock.epoch])
       \/ env.rpcFails /\ UNCHANGED operators
    /\ UNCHANGED <<clock, schedule, env, slot, behind, activeEpoch, waiting,
                   waited, anchorAge, monitored>>

\* The second set_active_epoch overwrites the first.
BootNext ==
    /\ pc = "bootNext"
    /\ pc' = "top"
    /\ behind' = 0
    /\ \/ operators' = UpdateNextOperator(operators, slot.epoch,
                                          schedule[clock.epoch + 1])
       \/ env.rpcFails /\ UNCHANGED operators
    /\ activeEpoch' =
          IF IsActiveIn(operators', Me, slot.epoch + 1) THEN {slot.epoch + 1}
          ELSE IF IsActiveIn(operators', Me, slot.epoch) THEN {slot.epoch}
          ELSE activeEpoch
    /\ UNCHANGED <<clock, schedule, env, slot, waiting, waited, anchorAge,
                   monitored>>

-----------------------------------------------------------------------------
(* One iteration of the loop.                                              *)

\* Where an iteration goes once it no longer builds.
AfterBuild(at) ==
    IF IsLastSlotBeforeHandoverWindow(at.slot) THEN "next" ELSE "top"

\* Mistake: no monitor is spawned.
ApproachAtOnce(active, at) ==
    /\ UNCHANGED <<waiting, waited, monitored>>
    /\ pc' = "build"

\* The iteration goes on towards build_block: in the first slot of its window
\* it spawns a sequencing monitor and waits for it.  The code asks for the
\* first L2 slot of the EPOCH here, not of the slot.
ApproachBuild(active, at) ==
    IF IsFirstPreconfirmationSlot(active, at) /\ IsEpochStart(at)
    THEN /\ waiting' = TRUE
         /\ waited' = 0
         /\ monitored' = {at.epoch + 1}
         /\ pc' = "hold"
    ELSE /\ UNCHANGED <<waiting, waited, monitored>>
         /\ pc' = "build"

\* Mistake: the refreshes are not aligned with the handover window.
AnchorIsDueUnshifted(at) == at.slot % AnchorIdLag = 0 /\ at.sub = 0

AnchorIsDue(at) ==
    (at.slot + HandoverSlots) % AnchorIdLag = 0 /\ at.sub = 0

\* `continue' before any await.
SkipWhileWaiting ==
    /\ pc = "top"
    /\ waiting
    /\ slot' = clock
    /\ behind' = 0
    /\ UNCHANGED <<clock, schedule, env, pc, operators, activeEpoch, waiting,
                   waited, anchorAge, monitored>>

\* The sleep before it ends at the next L2 slot, or at once when it starts in
\* the first millisecond of one; a `continue' comes here without a sleep.
StartIteration ==
    /\ pc = "top"
    /\ ~waiting
    /\ slot' = clock
    /\ behind' = 0
    /\ operators' = IF IsEpochStart(clock)
                    THEN ChangeEpoch(operators, clock.epoch)
                    ELSE operators
    /\ activeEpoch' =
          IF /\ IsHandoverStartSlot(clock.slot)
             /\ clock.sub = 0
             /\ IsActiveIn(operators', Me, clock.epoch + 1)
          THEN {clock.epoch + 1}
          ELSE activeEpoch
    /\ IF CanPreconfirm(activeEpoch', clock) \/ IsCurrentAndNext(operators', Me)
       THEN IF AnchorIsDue(clock)
            THEN pc' = "anchor" /\ UNCHANGED <<waiting, waited, monitored>>
            ELSE ApproachBuild(activeEpoch', clock)
       ELSE pc' = AfterBuild(clock) /\ UNCHANGED <<waiting, waited, monitored>>
    /\ UNCHANGED <<clock, schedule, env, anchorAge>>

AnchorUpdated ==
    /\ pc = "anchor"
    /\ anchorAge' = 0
    /\ ApproachBuild(activeEpoch, slot)
    /\ UNCHANGED <<clock, schedule, env, slot, behind, operators, activeEpoch>>

\* The `?' ends the loop; join! keeps the process alive without it.
AnchorFailed ==
    /\ pc = "anchor"
    /\ env.rpcFails
    /\ pc' = "stopped"
    /\ UNCHANGED <<clock, schedule, env, slot, behind, operators, activeEpoch,
                   waiting, waited, anchorAge, monitored>>

\* The last look at the flag still found the monitor running, or there was no
\* look: the time for it was over.  `continue', without a sleep.
HoldSkips ==
    /\ pc = "hold"
    /\ pc' = "top"
    /\ UNCHANGED <<clock, schedule, env, slot, behind, operators, activeEpoch,
                   waiting, waited, anchorAge, monitored>>

HoldEnds ==
    /\ pc = "hold"
    /\ ~waiting
    /\ pc' = "build"
    /\ UNCHANGED <<clock, schedule, env, slot, behind, operators, activeEpoch,
                   waiting, waited, anchorAge, monitored>>

\* build_block returns, published or not, or its 1.5 s are over.
BuildDone ==
    /\ pc = "build"
    /\ pc' = AfterBuild(slot)
    /\ UNCHANGED <<clock, schedule, env, slot, behind, operators, activeEpoch,
                   waiting, waited, anchorAge, monitored>>

QueryNext ==
    /\ pc = "next"
    /\ pc' = "top"
    /\ \/ operators' = UpdateNextOperator(operators, slot.epoch,
                                          schedule[clock.epoch + 1])
       \/ env.rpcFails /\ UNCHANGED operators
    /\ UNCHANGED <<clock, schedule, env, slot, behind, activeEpoch, waiting,
                   waited, anchorAge, monitored>>

\* Nothing restarts the loop.
StaysStopped ==
    /\ pc = "stopped"
    /\ UNCHANGED vars

-----------------------------------------------------------------------------
LoopStep ==
    \/ BootCurrent \/ BootNext
    \/ SkipWhileWaiting \/ StartIteration
    \/ AnchorUpdated \/ AnchorFailed
    \/ HoldSkips \/ HoldEnds
    \/ BuildDone \/ QueryNext

Next ==
    \/ Tick
    \/ MonitorDone
    \/ BootCurrent \/ BootNext
    \/ SkipWhileWaiting \/ StartIteration
    \/ AnchorUpdated \/ AnchorFailed
    \/ HoldSkips \/ HoldEnds
    \/ BuildDone \/ QueryNext
    \/ StaysStopped

\* The executor polls the loop, every await of it ends, and the monitor has a
\* timeout.  The clock is strongly fair: a loop that runs several iterations
\* within one L2 slot does not stop it.
Fairness ==
    /\ SF_vars(Tick)
    /\ WF_vars(LoopStep)
    /\ WF_vars(MonitorDone)

Spec == Init /\ [][Next]_vars /\ Fairness

-----------------------------------------------------------------------------
(* Environments the properties are stated for.                             *)

\* The loop wakes up for every L2 slot and finishes its work within it.
Timely == env.bootLag = 0 /\ env.maxLag = 0

\* Not every L2 slot gets an iteration, but every L1 slot does, the whitelist
\* answers whenever it is asked, and an epoch has slots on both sides of the
\* start of its handover window.
Prompt ==
    /\ env.bootLag = 0
    /\ env.maxLag < SubslotsPerSlot
    /\ ~env.rpcFails
    /\ HandoverSlots \in 1..(SlotsPerEpoch - 1)

\* Startup is over and the loop has not been ended by an error.
Running == pc \notin {"bootCurrent", "bootNext", "stopped"}

-----------------------------------------------------------------------------
(* Properties.                                                             *)

\* A block is built only for an L2 slot whose window belongs to this
\* preconfer: can_preconfirm || is_current_and_next, decided from a list that
\* failing queries and missed iterations leave stale, never lets the loop
\* build in the window of another operator.
BuildsInTurn == pc = "build" => schedule[WindowEpoch(slot)] = Me

\* The same where the loop can keep it: when RPC calls may fail but no
\* L2 slot is missed, or L2 slots are missed but no call fails.
BuildsInTurnIfTolerable == Timely \/ Prompt => BuildsInTurn

\* If startup is so slow that an epoch ends between the reading of the slot and
\* the answers, these are filed under an epoch before and the preconfer may
\* take itself for elected when it is not.  That ends with the window of the
\* epoch the loop begins in: in later windows it builds only if they are its
\* own, however late startup was and whatever calls fail.
RecoversFromSlowStart ==
    \A e \in Epochs :
        [](Running /\ clock.epoch = e /\ env.maxLag = 0
             => [](WindowEpoch(slot) > e => BuildsInTurn))

\* The anchor a block carries was refreshed less than anchor_id_lag slots ago,
\* whenever the window or the process started, and across the end of the epoch
\* (shifted_slot.is_multiple_of(anchor_id_lag)).
AnchorFresh == Timely /\ pc = "build" => anchorAge < AnchorLifetime

\* An iteration approaches build_block exactly when the window is this
\* preconfer's, if nothing fails and nothing is late: neither a startup in the
\* middle of a window, nor a window that spans two epochs of this operator,
\* nor the end of one leaves a gap or an overlap.
DecidesByWindow ==
    [][ Timely /\ ~env.rpcFails /\ StartIteration =>
          (pc' \in {"anchor", "hold", "build"}
             <=> schedule[WindowEpoch(clock)] = Me) ]_vars

\* The loop is running when the handover window before epoch `w' opens, and
\* the whitelist elected this preconfer for `w'.
TurnBegins(w) ==
    /\ Running
    /\ clock.epoch + 1 = w
    /\ IsHandoverStartSlot(clock.slot)
    /\ clock.sub = 0
    /\ schedule[w] = Me

TakesTurn(w) == pc = "build" /\ WindowEpoch(slot) = w

\* A running, elected preconfer builds in its window, if nothing fails and
\* nothing is late.
TakesItsTurn ==
    \A w \in Epochs :
        (TurnBegins(w) /\ Timely /\ ~env.rpcFails) ~> TakesTurn(w)

BuildsFirstBlock ==
    /\ pc = "build"
    /\ IsFirstPreconfirmationSlot(activeEpoch, slot)
    /\ slot.sub = 0

\* The first block of a window is built only after a sequencing monitor has
\* been asked whether the previous preconfer has ended its sequencing.
HandoverWaits ==
    BuildsFirstBlock => slot.epoch + 1 \in monitored

\* Waiting for the previous preconfer costs no turn: the flag that makes this
\* loop (and the confirmation loop) spin is cleared, and an iteration of the
\* same window builds, although the wait skips the iteration that was to.
WaitCostsNoTurn ==
    \A w \in Epochs :
        (pc = "hold" /\ WindowEpoch(slot) = w /\ Timely /\ ~env.rpcFails)
            ~> TakesTurn(w)

-----------------------------------------------------------------------------
(* Why BuildsInTurnIfTolerable holds: two inductive invariants, one for     *)
(* each kind of environment (PreconfLoopProofs).                           *)

\* Every entry of the list is what the whitelist says.
ListTrue == \A e \in DOMAIN operators : operators[e] = schedule[e]

\* The loop holds an epoch active only if this preconfer was elected for it.
ActiveTrue == \A e \in activeEpoch : schedule[e] = Me

\* An iteration on its way to build_block is in this preconfer's window.
CommittedInTurn ==
    pc \in {"anchor", "hold", "build"} => schedule[WindowEpoch(slot)] = Me

\* The list is about the epoch of the last iteration and the one after it, or
\* about the one before it and itself.
ListOfNow    == DOMAIN operators \subseteq {slot.epoch, slot.epoch + 1}
ListOfBefore == DOMAIN operators \subseteq {slot.epoch - 1, slot.epoch}

\* Timely: the work of an iteration is done within its L2 slot, and the next
\* iteration is that of the next L2 slot.
OnTime ==
    /\ pc \in {"bootCurrent", "bootNext", "anchor", "hold", "build", "next"}
         => behind = 0 /\ clock = slot
    /\ pc = "top" => \/ behind = 0 /\ clock = slot
                     \/ behind = 1 /\ slot # LastTick /\ clock = Following(slot)

\* Timely: a monitor ends in the first slot of the epoch it was spawned in, so
\* that no iteration is skipped at the start of the next epoch.
WaitsInFirstSlot ==
    waiting => clock.epoch = slot.epoch /\ clock.slot = 0 /\ clock.sub = waited

\* In a timely environment each epoch's first iteration drops the epoch before
\* it, whether or not the list is complete.
TimelyInv ==
    Timely => /\ OnTime
              /\ WaitsInFirstSlot
              /\ ListTrue
              /\ ActiveTrue
              /\ ListOfNow
              /\ CommittedInTurn

\* Prompt: the clock is within one L1 slot of the last iteration.
WithinSlot ==
    \/ /\ clock.epoch = slot.epoch /\ clock.slot = slot.slot
       /\ clock.sub = slot.sub + behind
    \/ /\ clock.epoch = slot.epoch /\ clock.slot = slot.slot + 1
       /\ clock.sub + SubslotsPerSlot = slot.sub + behind
    \/ /\ clock.epoch = slot.epoch + 1 /\ clock.slot = 0
       /\ slot.slot + 1 = SlotsPerEpoch
       /\ clock.sub + SubslotsPerSlot = slot.sub + behind

\* Prompt: ticks since the last iteration.
NotFarBehind ==
    /\ pc \in {"bootCurrent", "bootNext"} => behind = 0
    /\ pc = "top" => behind <= SubslotsPerSlot
    /\ pc \in {"anchor", "build", "next"} => behind < SubslotsPerSlot

\* Prompt: the next operator is asked for before the handover window.
NextAsksBeforeHandover ==
    pc = "next" => IsLastSlotBeforeHandoverWindow(slot.slot)

\* Prompt: an iteration that missed the start of its epoch may still hold the
\* list of the epoch before, but not once the slot before the handover window
\* is over.
ListOfBeforeUntilHandover ==
    \/ ListOfNow
    \/ /\ ListOfBefore
       /\ slot.slot < SlotsPerEpoch - HandoverSlots
       /\ pc = "top" => slot.slot + 1 < SlotsPerEpoch - HandoverSlots

\* In a prompt environment some iteration of the last slot before the handover
\* window replaces a stale list before the window opens.
PromptInv ==
    Prompt => /\ ~waiting /\ pc \notin {"hold", "stopped"}
              /\ WithinSlot
              /\ NotFarBehind
              /\ NextAsksBeforeHandover
              /\ ListTrue
              /\ ActiveTrue
              /\ ListOfBeforeUntilHandover
              /\ CommittedInTurn
=============================================================================
