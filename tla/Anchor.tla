------------------------------- MODULE Anchor -------------------------------
(***************************************************************************)
(* The anchor of L2 blocks: ValidAnchor (taiko/anchor.rs) and everything   *)
(* that moves it: the start of the process (main.rs), the headers of L1    *)
(* (onchain_tracking_loop.rs), the verification of batches                 *)
(* (verification.rs), the refresh of the preconfirmation loop and the      *)
(* blocks built on it (block_builder.rs).                                  *)
(*                                                                         *)
(* All operators run this code; each has a ValidAnchor of its own and uses *)
(* it in its windows.  Time is counted in L1 slots, a slot has at most one *)
(* L1 block, and the operator of the window has one iteration in it (the   *)
(* first of the slot: the others do not move the anchor).                  *)
(*                                                                         *)
(* L1 is older than AnchorIdLag blocks, so that the u64 difference in      *)
(* compute_valid_anchor_id does not wrap, and it is not reorganised.       *)
(***************************************************************************)
EXTENDS SlotWindows, Sequences, FiniteSetsExt

CONSTANTS
    Operators,      \* the operators the whitelist may elect
    MaxOffset,      \* maxAnchorHeightOffset of the inbox
    AnchorIdLag,    \* ANCHOR_ID_LAG: L1 slots between two refreshes,
                    \* and desired_offset
    FirstHead,      \* the L1 head at the beginning
    LastSlot,       \* BOUND: the last L1 slot
    MaxNumber,      \* BOUND: L2 blocks of a behaviour
    Environments    \* the environments a behaviour may run in

\* missed:   an L1 slot may have no block.
\* late:     the header of the last L1 block may arrive in a later slot.
\* restarts: an operator may start its process again.
Environment == [missed : BOOLEAN, late : BOOLEAN, restarts : BOOLEAN]

ASSUME AnchorAssumption ==
    /\ AnchorIdLag \in Nat \ {0} /\ MaxOffset \in Nat
    /\ FirstHead \in Nat /\ FirstHead >= AnchorIdLag
    /\ LastSlot \in Nat /\ MaxNumber \in Nat
    /\ Environments \subseteq Environment

VARIABLES
    now,           \* the current L1 slot
    schedule,      \* epoch -> the operator elected for it
    env,
    head,          \* the number of the last L1 block
    mined,         \* the current slot has had its L1 block, or has missed it
    pending,       \* the headers an operator has not received
    blockNumber,   \* ValidAnchor.block_number of each operator
    lastAnchorId,  \* ValidAnchor.last_anchor_id
    currentAnchor, \* the id in ValidAnchor.current_anchor
    fetching,      \* the ids whose headers the refresh of the slot awaits
    iterated,      \* the operator of the window has had its iteration
    chain,         \* the L2 blocks: slot and anchor
    confirmed,     \* how many of them are in batches
    batchAnchor    \* the anchor of the latest batch

anchors == <<blockNumber, lastAnchorId, currentAnchor>>
l2 == <<chain, confirmed, batchAnchor>>
vars == <<now, schedule, env, head, mined, pending, anchors, fetching,
          iterated, l2>>

-----------------------------------------------------------------------------
At(slot) == [epoch |-> slot \div SlotsPerEpoch, slot |-> slot % SlotsPerEpoch]
Here == At(now)

Epochs == 0..At(LastSlot + HandoverSlots).epoch
Heads == FirstHead..(FirstHead + LastSlot + 1)
Ids == 0..(FirstHead + LastSlot + 1)

\* The operator that builds in the current slot.
Builder == schedule[WindowEpoch(Here)]

TypeOK ==
    /\ now \in 0..LastSlot
    /\ schedule \in [Epochs -> Operators] /\ env \in Environments
    /\ head \in Heads /\ mined \in BOOLEAN
    /\ pending \in [Operators -> SUBSET Heads]
    /\ blockNumber \in [Operators -> Heads]
    /\ lastAnchorId \in [Operators -> Ids]
    /\ currentAnchor \in [Operators -> Ids]
    /\ \A o \in Operators : blockNumber[o] <= head /\ currentAnchor[o] <= head
    /\ fetching \subseteq 0..head /\ iterated \in BOOLEAN
    /\ chain \in Seq([slot : 0..LastSlot, anchor : 0..head])
    /\ confirmed \in 0..Len(chain) /\ batchAnchor \in Ids

-----------------------------------------------------------------------------
(* ValidAnchor.                                                            *)

\* Mistake: the bound by the maximal offset forgets to subtract it.
ComputeValidAnchorIdAhead(number, last) ==
    Max({number - AnchorIdLag, Max({number, MaxOffset}), last})

ComputeValidAnchorId(number, last) ==
    Max({number - AnchorIdLag, Max({number, MaxOffset}) - MaxOffset, last})

\* Mistake: the last header received counts, not the highest.
UpdateBlockNumberToLast(o, number) ==
    blockNumber' = [blockNumber EXCEPT ![o] = number]

\* Headers come in any order: only a higher one counts.
UpdateBlockNumber(o, number) ==
    blockNumber' = [blockNumber EXCEPT ![o] = Max({@, number})]

-----------------------------------------------------------------------------
(* Time and L1.                                                            *)

Init ==
    /\ now = 0
    /\ schedule \in [Epochs -> Operators] /\ env \in Environments
    /\ head = FirstHead /\ mined = FALSE
    /\ pending = [o \in Operators |-> {}]
    /\ blockNumber = [o \in Operators |-> head]
    /\ lastAnchorId = [o \in Operators |-> 0]
    /\ currentAnchor = [o \in Operators |-> ComputeValidAnchorId(head, 0)]
    /\ fetching = {} /\ iterated = FALSE
    /\ chain = <<>> /\ confirmed = 0 /\ batchAnchor = 0

SlotIsOver ==
    /\ mined /\ iterated /\ fetching = {}
    /\ \A o \in Operators :
          pending[o] \subseteq (IF env.late THEN {head} ELSE {})

Tick ==
    /\ now < LastSlot
    /\ SlotIsOver
    /\ now' = now + 1
    /\ mined' = FALSE /\ iterated' = FALSE
    /\ UNCHANGED <<schedule, env, head, pending, anchors, fetching, l2>>

\* The behaviour ends at its bound.
Over ==
    /\ now = LastSlot
    /\ SlotIsOver
    /\ UNCHANGED vars

Mine ==
    /\ ~mined
    /\ mined' = TRUE
    /\ \/ /\ head' = head + 1
          /\ pending' = [o \in Operators |-> pending[o] \cup {head'}]
       \/ /\ env.missed
          /\ UNCHANGED <<head, pending>>
    /\ UNCHANGED <<now, schedule, env, anchors, fetching, iterated, l2>>

\* What the streams of headers, subscribed and polled, may yield next: any header
\* that is on its way, as they are merged in no order.  One that comes again
\* from the other stream changes nothing and is left out.
MergedHeaders(o) == pending[o]

\* process_header.
Receive(o) ==
    /\ \E number \in MergedHeaders(o) :
          /\ UpdateBlockNumber(o, number)
          /\ pending' = [pending EXCEPT ![o] = @ \ {number}]
    /\ UNCHANGED <<now, schedule, env, head, mined, lastAnchorId,
                   currentAnchor, fetching, iterated, l2>>

-----------------------------------------------------------------------------
(* The refresh and the block.                                              *)

\* Mistake: the refreshes are not aligned with the handover window.
AnchorIsDueUnshifted(slot) == slot % AnchorIdLag = 0

AnchorIsDue(slot) == (slot + HandoverSlots) % AnchorIdLag = 0

\* update_to_latest in the first slot of an epoch without a handover window.
RefreshedId(o) ==
    IF Here.slot + HandoverSlots = 0
    THEN blockNumber[o]
    ELSE ComputeValidAnchorId(blockNumber[o], lastAnchorId[o])

\* The id is chosen before the header is asked for, and stored after it came.
Refresh ==
    /\ ~iterated /\ fetching = {}
    /\ AnchorIsDue(Here.slot)
    /\ fetching' = {RefreshedId(Builder)}
    /\ UNCHANGED <<now, schedule, env, head, mined, pending, anchors, iterated,
                   l2>>

\* The L2 blocks of a slot have one anchor, so that one of them stands for all
\* (a restart between them is one before the next slot).  Without transactions
\* in the mempool there is none.
BuildOn(anchor) ==
    \/ UNCHANGED chain
    \/ /\ Len(chain) < MaxNumber
       /\ chain' = Append(chain, [slot |-> now, anchor |-> anchor])

Build ==
    /\ ~iterated
    /\ iterated' = TRUE
    /\ fetching' = {}
    /\ \/ /\ ~AnchorIsDue(Here.slot)
          /\ UNCHANGED currentAnchor
       \/ \E id \in fetching : currentAnchor' = [currentAnchor EXCEPT ![Builder] = id]
    /\ BuildOn(currentAnchor'[Builder])
    /\ UNCHANGED <<now, schedule, env, head, mined, pending, blockNumber,
                   lastAnchorId, confirmed, batchAnchor>>

-----------------------------------------------------------------------------
(* Batches.                                                                *)

\* The operator of the epoch has a batch accepted: the next blocks that it
\* built, of one anchor.
Propose ==
    /\ \E last \in (confirmed + 1)..Len(chain) :
          /\ \A n \in (confirmed + 1)..last :
                /\ schedule[WindowEpoch(At(chain[n].slot))] = schedule[Here.epoch]
                /\ chain[n].anchor = chain[last].anchor
          /\ confirmed' = last
          /\ batchAnchor' = chain[last].anchor
    /\ UNCHANGED <<now, schedule, env, head, mined, pending, anchors, fetching,
                   iterated, chain>>

\* verify_last_batch: some time after the batch, or never (the first one after
\* startup is not verified).
Verify(o) ==
    /\ lastAnchorId[o] # batchAnchor
    /\ lastAnchorId' = [lastAnchorId EXCEPT ![o] = batchAnchor]
    /\ UNCHANGED <<now, schedule, env, head, mined, pending, blockNumber,
                   currentAnchor, fetching, iterated, l2>>

\* The first reads of main.  The operator that restarts while it refreshes has
\* no block in this slot.
Restart(o) ==
    /\ env.restarts
    /\ blockNumber' = [blockNumber EXCEPT ![o] = head]
    /\ pending' = [pending EXCEPT ![o] = {}]
    /\ lastAnchorId' = [lastAnchorId EXCEPT ![o] = batchAnchor]
    /\ currentAnchor' = [currentAnchor EXCEPT
                            ![o] = ComputeValidAnchorId(head, batchAnchor)]
    /\ IF o = Builder /\ fetching # {}
       THEN fetching' = {} /\ iterated' = TRUE
       ELSE UNCHANGED <<fetching, iterated>>
    /\ UNCHANGED <<now, schedule, env, head, mined, l2>>

-----------------------------------------------------------------------------
Next ==
    \/ Tick \/ Over \/ Mine
    \/ Refresh \/ Build \/ Propose
    \/ \E o \in Operators : Receive(o) \/ Verify(o) \/ Restart(o)

Spec == Init /\ [][Next]_vars

-----------------------------------------------------------------------------
(* Properties.                                                             *)

\* The anchor of an L2 block is never before the one of its parent, whoever
\* built that.  The code does not look at the parent: an operator knows the
\* anchors of others only from batches that it verified, which may be those of
\* long ago.  It is the refresh at the beginning of each window (the length of
\* an epoch is a multiple of AnchorIdLag) that keeps the order.
AnchorsGrow ==
    \A n \in DOMAIN chain \ {1} : chain[n - 1].anchor <= chain[n].anchor

\* Until the epoch that it may be proposed in ends, a block has an anchor that
\* the inbox accepts: one that is not more than MaxOffset old.
AcceptableToTheEnd ==
    \A n \in DOMAIN chain :
        Here.epoch <= WindowEpoch(At(chain[n].slot))
            => chain[n].anchor + MaxOffset >= head
=============================================================================
