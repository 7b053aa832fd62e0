---------------------------- MODULE Confirmation ----------------------------
(***************************************************************************)
(* The confirmation of preconfirmed blocks on L1: the confirmation loop    *)
(* (confirmation_loop.rs), the choice of a batch (confirmation_strategy.rs)*)
(* and the thread that proposes it (taiko_l1_client.rs), over the cache of *)
(* unconfirmed blocks that the tracking of the L2 head fills and verifies  *)
(* (L2Head).                                                               *)
(*                                                                         *)
(* Time is counted in L1 slots.  In each slot the operator whose window it *)
(* is may build L2 blocks, the loop has one iteration, and L1 gets a block *)
(* that may include a proposal.  Who builds is taken from what PreconfLoop *)
(* shows of the preconfirmation loop; the flag waiting_for_previous_...    *)
(* that both loops share is never set if the handover window is shorter    *)
(* than the epoch (PreconfLoopProofs, NeverWaits), so it is left out.      *)
(*                                                                         *)
(* The L2 chain is not replaced here.  A block is cached when it is built, *)
(* as L2Head shows it is if nothing is late.  Every slot has an iteration, *)
(* but for one if the environment says so.                                 *)
(***************************************************************************)
EXTENDS SlotWindows, WhitelistView, Sequences, FiniteSetsExt

CONSTANTS
    Operators,         \* the addresses the whitelist may elect
    Me,                \* the address of this preconfer
    MaxBlocksPerBatch, \* max_blocks_per_batch
    AnchorIdLag,       \* L1 slots between two refreshes of the anchor
    MaxOffset,         \* L1 slots after which a block is expired
    MaxTimeShift,      \* L1 slots that the u8 time shift between blocks holds
    ProposeTimeout,    \* propose_timeout in L1 slots
    FirstSlots,        \* BOUND: the L1 slots the process may start in
    LastSlot,          \* BOUND: the last L1 slot
    MaxNumber,         \* BOUND: L2 blocks of a behaviour
    BlocksPerSlot,     \* BOUND: L2 blocks of an L1 slot
    MaxCrashes,        \* BOUND: how often the process ends
    Environments       \* the environments a behaviour may run in

\* rpcFails:     RPC calls may fail, up to the one that sends a proposal.
\* losesAnswers: the call that sends a proposal, and the one that waits for its
\*               receipt, may fail although L1 has got the proposal.
\* slowThread:   the proposing thread may work for more than an L1 slot.
\* slowTracker:  a batch may be handled after the slot that included it.
\* congested:    L1 may leave a pending proposal out of a block.
\* crash:        the process may end and be started again, while it has no
\*               proposal pending or at any time.
\* missed:       the slot whose iteration does not take place, because the query
\*               of the one before took too long or the executor was late; or -1.
Environment == [rpcFails : BOOLEAN, losesAnswers : BOOLEAN, slowThread : BOOLEAN,
                slowTracker : BOOLEAN, congested : BOOLEAN,
                crash : {"never", "idle", "any"}, missed : Int]

ASSUME ConfirmationAssumption ==
    /\ HandoverSlots < SlotsPerEpoch
    /\ Me \in Operators
    /\ MaxBlocksPerBatch \in Nat /\ AnchorIdLag \in Nat \ {0}
    /\ MaxOffset \in Nat /\ MaxTimeShift \in Nat /\ ProposeTimeout \in Nat
    /\ FirstSlots \subseteq (0..(SlotsPerEpoch - 1)) \cap (0..LastSlot)
    /\ LastSlot + HandoverSlots + 1 >= SlotsPerEpoch
    /\ LastSlot \in Nat /\ MaxNumber \in Nat /\ BlocksPerSlot \in Nat
    /\ MaxCrashes \in Nat
    /\ Environments \subseteq Environment

VARIABLES
    now,           \* the current L1 slot
    schedule,      \* epoch -> the operator the whitelist contract elects for it
    env,
    \* The L2 chain and the anchor of this preconfer's blocks.
    chain,         \* the blocks: the slot they are of, their anchor and builder
    anchor,        \* the slot in which the current anchor was refreshed
    built,         \* the blocks of the current slot are built
    \* The tracking of the L2 head.
    cache,         \* the numbers of the blocks in TxCache
    lastConfirmed, \* last_confirmed_block_id
    first,         \* first_confirmation
    handled,       \* the batches it has handled
    alarmed,       \* history: it has reported L1 and L2 out of sync
    \* The confirmation loop.
    pc,            \* where it is
    iterated,      \* it has had its iteration of the current slot
    operators,     \* its WhitelistMonitor
    activeEpoch,   \* its SlotModel.active_epoch, a set of at most one epoch
    crashes,       \* how often the process has ended
    \* The proposing thread.
    thread,
    \* L1.
    pool,          \* the pending transaction of this preconfer, if any
    nonce,         \* its transactions so far
    included,      \* in the current slot L1 has got its block
    inbox          \* the batches: their blocks and their last block id

l2 == <<chain, anchor, built>>
tracker == <<lastConfirmed, first, handled, alarmed>>
loop == <<pc, iterated, operators, activeEpoch, crashes>>
l1 == <<pool, nonce, included, inbox>>
vars == <<now, schedule, env, l2, cache, tracker, loop, thread, l1>>

-----------------------------------------------------------------------------
At(slot) == [epoch |-> slot \div SlotsPerEpoch, slot |-> slot % SlotsPerEpoch]
Here == At(now)

\* BOUND: the epochs that are asked for.
Epochs == 0..At(LastSlot + HandoverSlots + 1).epoch
Slots == 0..LastSlot
Numbers == 1..MaxNumber

\* The slot of the latest L1 block: the loop sees it in
\* shared_latest_l1_timestamp.
LatestL1 == IF included THEN now ELSE now - 1

LastSlotOfEpoch == Here.slot = SlotsPerEpoch - 1

LastId(batches) == IF batches = <<>> THEN 0 ELSE batches[Len(batches)].last

\* The thread has ended, or none was started.
Ended == [at |-> "ended"]

TypeOK ==
    /\ now \in Slots
    /\ schedule \in [Epochs -> Operators] /\ env \in Environments
    /\ chain \in Seq([slot : Slots, anchor : Slots, operator : Operators])
    /\ anchor \in Slots /\ built \in BOOLEAN
    /\ cache \subseteq DOMAIN chain
    /\ lastConfirmed \in Nat /\ first \in BOOLEAN
    /\ handled \in 0..Len(inbox) /\ alarmed \in BOOLEAN
    /\ pc \in {"down", "boot", "top", "next"} /\ iterated \in BOOLEAN
    /\ DOMAIN operators \subseteq Epochs
    /\ operators \in [DOMAIN operators -> Operators]
    /\ activeEpoch \in SUBSET Epochs
    /\ crashes \in 0..MaxCrashes
    /\ thread.at \in {"ended", "started", "pricing", "waiting"}
    /\ thread.at \in {"started", "pricing"} =>
          thread.blocks \in (SUBSET DOMAIN chain) \ {{}}
    /\ \A tx \in pool : tx.blocks \subseteq DOMAIN chain
    /\ nonce \in Nat /\ included \in BOOLEAN
    /\ \A i \in DOMAIN inbox : inbox[i].blocks \subseteq DOMAIN chain

\* The process starts in some slot of the first epoch with nothing to confirm.
Init ==
    /\ now \in FirstSlots
    /\ schedule \in [Epochs -> Operators]
    /\ env \in Environments
    /\ chain = <<>> /\ anchor = now /\ built = FALSE
    /\ cache = {} /\ lastConfirmed = 0 /\ first = TRUE /\ handled = 0
    /\ alarmed = FALSE
    /\ pc = "boot" /\ iterated = FALSE
    /\ operators = [e \in {} |-> Me] /\ activeEpoch = {} /\ crashes = 0
    /\ thread = Ended
    /\ pool = {} /\ nonce = 0 /\ included = FALSE /\ inbox = <<>>

-----------------------------------------------------------------------------
(* Time.  A slot is over when all that belongs to it has happened.         *)

\* with_required_confirmations(2): the block that includes it and one more.
HasReceipt == thread.since # -1 /\ LatestL1 > thread.since

SlotIsOver ==
    /\ built /\ included
    /\ pc = "down" \/ (pc = "top" /\ (iterated \/ now = env.missed))
    /\ pc = "down" \/ env.slowTracker \/ handled = Len(inbox)
    /\ ~env.slowThread => \/ thread.at = "ended"
                          \/ thread.at = "waiting" /\ ~HasReceipt

Tick ==
    /\ now < LastSlot
    /\ SlotIsOver
    /\ now' = now + 1
    /\ built' = FALSE /\ included' = FALSE /\ iterated' = FALSE
    /\ UNCHANGED <<schedule, env, chain, anchor, cache, tracker, pc, operators,
                   activeEpoch, crashes, thread, pool, nonce, inbox>>

\* The behaviour ends at its bound.
Over ==
    /\ now = LastSlot
    /\ SlotIsOver
    /\ UNCHANGED vars

-----------------------------------------------------------------------------
(* The blocks of the slot.                                                 *)

AnchorIsDue(slot) == (slot + HandoverSlots) % AnchorIdLag = 0

\* The preconfirmation loop refreshes the anchor only while it is its turn.
Build ==
    /\ ~built
    /\ built' = TRUE
    /\ LET operator == schedule[WindowEpoch(Here)] IN
       /\ anchor' = IF operator = Me /\ pc # "down" /\ AnchorIsDue(Here.slot)
                    THEN now ELSE anchor
       /\ \E n \in 0..BlocksPerSlot :
             /\ Len(chain) + n <= MaxNumber
             /\ operator = Me /\ pc = "down" => n = 0
             /\ chain' = chain \o [i \in 1..n |->
                                     [slot |-> now, operator |-> operator,
                                      anchor |-> anchor']]
    /\ cache' = IF pc = "down" THEN cache
                ELSE cache \cup {n \in DOMAIN chain' \ DOMAIN chain :
                                    n > lastConfirmed}
    /\ UNCHANGED <<now, schedule, env, tracker, loop, thread, l1>>

-----------------------------------------------------------------------------
(* A batch is handled (get_l2_head_stream, StreamData::Confirmed).         *)

Verified ==
    LET blocks == {n \in cache : n <= LastId(inbox)} IN
    blocks = {} \/ blocks = inbox[Len(inbox)].blocks

HandleBatch ==
    /\ pc # "down"
    /\ handled < Len(inbox)
    /\ handled' = handled + 1
    /\ LET id == inbox[handled + 1].last IN
       IF id <= lastConfirmed
       THEN UNCHANGED <<cache, lastConfirmed, first, alarmed>>
       ELSE /\ lastConfirmed' = id
            /\ first' = FALSE
            /\ IF first \/ Verified
               THEN /\ cache' = {n \in cache : n > id}
                    /\ UNCHANGED alarmed
               ELSE /\ cache' = {}
                    /\ alarmed' = TRUE
    /\ UNCHANGED <<now, schedule, env, l2, loop, thread, l1>>

-----------------------------------------------------------------------------
(* The process ends and is started again (main).  What it knew is lost.    *)

Crash ==
    /\ env.crash = "any" \/ (env.crash = "idle" /\ pool = {})
    /\ crashes < MaxCrashes
    /\ crashes' = crashes + 1
    /\ pc' = "down"
    /\ cache' = {} /\ thread' = Ended /\ anchor' = 0
    /\ lastConfirmed' = 0 /\ first' = TRUE /\ handled' = 0
    /\ operators' = [e \in {} |-> Me] /\ activeEpoch' = {} /\ iterated' = FALSE
    /\ UNCHANGED <<now, schedule, env, chain, built, alarmed, l1>>

\* The blocks of this preconfer that L1 does not have and would still take.
Recovered ==
    LET confirmed == LastId(inbox) IN
    {n \in DOMAIN chain :
        /\ n > confirmed
        /\ chain[n].operator = Me
        /\ confirmed > 0 => chain[n].anchor >= chain[confirmed].anchor}

\* No block of this preconfer is added while main reads; a batch that L1 gets
\* meanwhile is handled by the streams that are opened afterwards.
Start ==
    /\ pc = "down"
    /\ Here.epoch + 1 \in Epochs      \* BOUND
    /\ pc' = "boot"
    /\ anchor' = now
    /\ cache' = Recovered
    /\ lastConfirmed' = LastId(inbox)
    /\ handled' = Len(inbox)
    /\ UNCHANGED <<now, schedule, env, chain, built, first, alarmed, iterated,
                   operators, activeEpoch, crashes, thread, l1>>

-----------------------------------------------------------------------------
(* The choice of a batch (BlockConstrainedConfirmationStrategy::send).     *)

\* The slot whose start is l1_slot_timestamp.
SendSlot == LatestL1 + 1

\* ValidTimestamp::check fails: the block is too old for a batch.
Expired(n, slot) == chain[n].slot + MaxOffset < slot

\* What stays in the cache: blocks of this preconfer that are not expired.
Kept == {n \in cache : chain[n].operator = Me /\ ~Expired(n, SendSlot)}

Ready == {n \in Kept : chain[n].slot < SendSlot}

\* The first of `blocks' up to the first one with another anchor.
SameAnchor(blocks) ==
    {n \in blocks : \A m \in blocks :
        m <= n => chain[m].anchor = chain[Min(blocks)].anchor}

\* read_blocks: the first of `batch' up to the first gap in time that is too
\* long.
WithinTimeShift(batch) ==
    {n \in batch : \A m \in batch \ {Min(batch)} :
        m <= n => chain[m].slot - chain[Max({k \in batch : k < m})].slot
                      <= MaxTimeShift}

\* Mistake: nothing asks whether there are blocks.
WantsToSendNothing(force) ==
    \/ force
    \/ /\ Ready # {}
       /\ \/ Cardinality(SameAnchor(Ready)) >= MaxBlocksPerBatch
          \/ SameAnchor(Ready) # Ready

\* Mistake: a window may end with blocks that are too few for a batch.
WantsToSendLarge(force) ==
    Ready # {} /\ Cardinality(SameAnchor(Ready)) >= MaxBlocksPerBatch

\* A batch is sent if it is large enough or must not wait: because the window
\* ends, or because no block of its anchor will follow.
WantsToSend(force) ==
    /\ Ready # {}
    /\ \/ Cardinality(SameAnchor(Ready)) >= MaxBlocksPerBatch
       \/ force
       \/ SameAnchor(Ready) # Ready
       \/ chain[Min(Ready)].anchor # anchor

\* Mistake: a thread is started whatever the one before does.
SendAgain(force) ==
    /\ cache' = Kept
    /\ thread' = IF WantsToSend(force)
                 THEN [at |-> "started",
                       blocks |-> WithinTimeShift(SameAnchor(Ready))]
                 ELSE thread

\* TaikoL1Client::send starts a thread unless the one before has not ended.
Send(force) ==
    /\ cache' = Kept
    /\ thread' = IF WantsToSend(force) /\ thread = Ended
                 THEN [at |-> "started",
                       blocks |-> WithinTimeShift(SameAnchor(Ready))]
                 ELSE thread

-----------------------------------------------------------------------------
(* The confirmation loop.                                                  *)

\* Both queries end within the slot.
Boot ==
    /\ pc = "boot"
    /\ pc' = "top"
    /\ LET current == UpdateCurrentOperator(operators, Here.epoch,
                                            schedule[Here.epoch])
           answers(list) == {UpdateNextOperator(list, Here.epoch,
                                                schedule[Here.epoch + 1])}
       IN  operators' \in
              IF env.rpcFails
              THEN {operators, current} \cup answers(operators)
                       \cup answers(current)
              ELSE answers(current)
    /\ activeEpoch' =
          IF IsActiveIn(operators', Me, Here.epoch + 1) THEN {Here.epoch + 1}
          ELSE IF IsActiveIn(operators', Me, Here.epoch) THEN {Here.epoch}
          ELSE activeEpoch
    /\ iterated' = TRUE
    /\ UNCHANGED <<now, schedule, env, l2, cache, tracker, crashes, thread, l1>>

\* Mistake: an active epoch that is to come or over allows it, too.
MaySendAnytime ==
    /\ activeEpoch' # {} \/ IsCurrentAndNext(operators', Me)
    /\ ~IsLastSlotBeforeHandoverWindow(Here.slot)

\* No batch is sent in the last slot before the handover window.
MaySend ==
    /\ CanConfirm(activeEpoch', Here) \/ IsCurrentAndNext(operators', Me)
    /\ ~IsLastSlotBeforeHandoverWindow(Here.slot)

Iterate ==
    /\ pc = "top"
    /\ ~iterated /\ now # env.missed
    /\ iterated' = TRUE
    /\ operators' = IF Here.slot = 0 THEN ChangeEpoch(operators, Here.epoch)
                                     ELSE operators
    /\ activeEpoch' =
          IF /\ IsHandoverStartSlot(Here.slot)
             /\ IsActiveIn(operators', Me, Here.epoch + 1)
          THEN {Here.epoch + 1}
          ELSE activeEpoch
    /\ IF MaySend THEN Send(WithinHandoverPeriod(Here.slot))
                  ELSE UNCHANGED <<cache, thread>>
    /\ pc' = IF IsLastSlotBeforeHandoverWindow(Here.slot) THEN "next" ELSE "top"
    /\ UNCHANGED <<now, schedule, env, l2, tracker, crashes, l1>>

QueryNext ==
    /\ pc = "next"
    /\ pc' = "top"
    /\ \/ operators' = UpdateNextOperator(operators, Here.epoch,
                                          schedule[Here.epoch + 1])
       \/ env.rpcFails /\ UNCHANGED operators
    /\ UNCHANGED <<now, schedule, env, l2, cache, tracker, iterated,
                   activeEpoch, crashes, thread, l1>>

-----------------------------------------------------------------------------
(* The proposing thread.                                                   *)

\* The inbox takes a batch that names the latest batch as its parent, or none.
Accepts(parent) == parent \in {Len(inbox), -1}

\* The router takes batches of the operator of the epoch.
InTurn == schedule[Here.epoch] = Me

\* The parent is the latest batch, or the default if it cannot be read.
ReadParent ==
    /\ thread.at = "started"
    /\ \E parent \in {Len(inbox)} \cup (IF env.rpcFails THEN {-1} ELSE {}) :
          thread' = [at |-> "pricing", blocks |-> thread.blocks,
                     parent |-> parent, nonce |-> -1, estimated |-> FALSE]
    /\ UNCHANGED <<now, schedule, env, l2, cache, tracker, loop, l1>>

\* Nonce, gas and fees are asked for at once; the order of the answers is open.
ReadNonce ==
    /\ thread.at = "pricing"
    /\ thread.nonce = -1
    /\ thread' = [thread EXCEPT !.nonce = nonce]
    /\ UNCHANGED <<now, schedule, env, l2, cache, tracker, loop, l1>>

EstimateGas ==
    /\ thread.at = "pricing"
    /\ ~thread.estimated
    /\ thread' = IF Accepts(thread.parent) /\ InTurn
                 THEN [thread EXCEPT !.estimated = TRUE]
                 ELSE Ended
    /\ UNCHANGED <<now, schedule, env, l2, cache, tracker, loop, l1>>

\* The thread returns, or panics for want of a nonce, with nothing sent.
CallFails ==
    /\ env.rpcFails
    /\ thread.at = "pricing"
    /\ thread' = Ended
    /\ UNCHANGED <<now, schedule, env, l2, cache, tracker, loop, l1>>

\* L1 refuses a nonce that is used, and may refuse to replace a transaction.
Submit ==
    /\ thread.at = "pricing"
    /\ thread.nonce # -1 /\ thread.estimated
    /\ \/ /\ thread.nonce = nonce
          /\ pool' = {[blocks |-> thread.blocks, parent |-> thread.parent]}
          /\ thread' = [at |-> "waiting", nonce |-> nonce, since |-> -1,
                       until |-> now + ProposeTimeout]
       \/ /\ thread.nonce # nonce \/ pool # {}
          /\ thread' = Ended
          /\ UNCHANGED pool
    /\ UNCHANGED <<now, schedule, env, l2, cache, tracker, loop, nonce,
                   included, inbox>>

\* send_transaction fails, but L1 has got the transaction.
SendFails ==
    /\ env.losesAnswers
    /\ thread.at = "pricing" /\ thread.nonce = nonce /\ thread.estimated
    /\ pool' = {[blocks |-> thread.blocks, parent |-> thread.parent]}
    /\ thread' = Ended
    /\ UNCHANGED <<now, schedule, env, l2, cache, tracker, loop, nonce,
                   included, inbox>>

Receipt ==
    /\ thread.at = "waiting"
    /\ HasReceipt
    /\ thread' = Ended
    /\ UNCHANGED <<now, schedule, env, l2, cache, tracker, loop, l1>>

\* get_receipt fails.
ReceiptFails ==
    /\ env.losesAnswers
    /\ thread.at = "waiting"
    /\ thread' = Ended
    /\ UNCHANGED <<now, schedule, env, l2, cache, tracker, loop, l1>>

TimesOut ==
    /\ thread.at = "waiting"
    /\ now >= thread.until
    /\ thread' = Ended
    /\ UNCHANGED <<now, schedule, env, l2, cache, tracker, loop, l1>>

-----------------------------------------------------------------------------
(* L1.  One block a slot: it may include the pending transaction, and      *)
(* batches of the other operators in their epochs.                         *)

WithBatch(blocks) ==
    Append(inbox, [blocks |-> blocks,
                   last   |-> LastId(inbox) + Cardinality(blocks)])

\* A transaction that reverts uses its nonce, too.
Include ==
    \E tx \in pool :
        /\ pool' = {}
        /\ nonce' = nonce + 1
        /\ thread' = IF thread.at = "waiting" /\ thread.nonce = nonce
                     THEN [thread EXCEPT !.since = now] ELSE thread
        /\ InTurn => inbox' = IF Accepts(tx.parent) THEN WithBatch(tx.blocks)
                                                    ELSE inbox

LeaveOut ==
    /\ pool = {} \/ env.congested
    /\ UNCHANGED <<pool, nonce, thread>>
    /\ InTurn => UNCHANGED inbox

\* The last blocks of the batches that the operator of the epoch may propose.
OthersBatches ==
    {last \in (LastId(inbox) + 1)..Len(chain) :
        \A n \in (LastId(inbox) + 1)..last :
            chain[n].operator = schedule[Here.epoch]}

\* Another operator proposes its next blocks; in the last slot of its epoch all
\* that are left.
ProposeOthers ==
    \/ \E last \in OthersBatches :
          /\ LastSlotOfEpoch => last = Max(OthersBatches)
          /\ inbox' = WithBatch((LastId(inbox) + 1)..last)
    \/ /\ LastSlotOfEpoch => OthersBatches = {}
       /\ UNCHANGED inbox

L1Block ==
    /\ ~included
    /\ included' = TRUE
    /\ Include \/ LeaveOut
    /\ ~InTurn => ProposeOthers
    /\ UNCHANGED <<now, schedule, env, l2, cache, tracker, loop>>

-----------------------------------------------------------------------------
Next ==
    \/ Tick \/ Over \/ Build \/ HandleBatch
    \/ Crash \/ Start
    \/ Boot \/ Iterate \/ QueryNext
    \/ ReadParent \/ ReadNonce \/ EstimateGas \/ CallFails \/ Submit
    \/ SendFails \/ Receipt \/ ReceiptFails \/ TimesOut
    \/ L1Block

Spec == Init /\ [][Next]_vars

-----------------------------------------------------------------------------
(* Properties.                                                             *)

Calm == env = [rpcFails |-> FALSE, losesAnswers |-> FALSE, slowThread |-> FALSE,
               slowTracker |-> FALSE, congested |-> FALSE, crash |-> "never",
               missed |-> -1]

\* A batch is chosen only in an epoch this preconfer was elected for, even if
\* the iteration that changes the epoch, makes it active or asks for the next
\* operator is missed.
ProposesInTurn ==
    [][thread = Ended /\ thread'.at = "started" => InTurn]_vars

\* The blocks of every batch are the ones the inbox gives the next numbers to:
\* no block is proposed twice, left out or proposed before another.
InSequence ==
    \A i \in DOMAIN inbox :
        inbox[i].blocks = (LastId(SubSeq(inbox, 1, i - 1)) + 1)..inbox[i].last

Proposed(n) == \E i \in DOMAIN inbox : n \in inbox[i].blocks

\* It is too late for a block: this preconfer's has expired, another operator's
\* is of an epoch that is over.
TooLate(n) ==
    IF chain[n].operator = Me THEN Expired(n, now)
    ELSE WindowEpoch(At(chain[n].slot)) < Here.epoch

Tracked ==
    /\ ~env.losesAnswers /\ ~env.slowTracker /\ ~env.congested
    /\ env.crash # "any" /\ ~alarmed

\* The same as long as L1 takes proposals at once, the thread gets to know that
\* it did, batches are handled in their slot and no operator has left a block
\* until it is too late: neither a call that fails before a proposal is sent,
\* nor a slow thread with an old parent or nonce, nor the end of a window or
\* epoch, nor a missed iteration, nor a restart that has no proposal pending
\* puts a block into two batches or into none.  A thread that ends with its
\* proposal pending does, whether by an error of send_transaction or of
\* get_receipt or by its timeout: the next one takes the same blocks.
InSequenceIfTracked ==
    Tracked /\ (\A n \in DOMAIN chain : TooLate(n) => Proposed(n))
        => InSequence

\* No two blocks are too far apart for one batch.
NoGap ==
    \A n \in DOMAIN chain \ {1} :
        chain[n].slot - chain[n - 1].slot <= MaxTimeShift

\* When another operator's epoch begins, every block that this preconfer built
\* in the windows before it is in the inbox: the iterations of the handover
\* window, of which most find the thread occupied, send all that is left.
AllProposed ==
    Calm /\ NoGap /\ ~alarmed /\ ~InTurn =>
        \A n \in DOMAIN chain :
            chain[n].operator = Me /\ WindowEpoch(At(chain[n].slot)) < Here.epoch
                => Proposed(n)

\* The tracking of the L2 head reports L1 and L2 out of sync only if a batch
\* holds other blocks than those of the chain.  The choice of a batch removes
\* the blocks of others from the cache that the tracking verifies with.
AlarmIsTrue == alarmed => ~InSequence

\* A proposal is not started while this preconfer has one pending on L1.
OneProposal == [][thread = Ended /\ thread'.at = "started" => pool = {}]_vars
=============================================================================
