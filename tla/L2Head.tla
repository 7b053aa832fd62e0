-------------------------------- MODULE L2Head --------------------------------
(***************************************************************************)
(* The tracking of the L2 head and of the unconfirmed blocks:              *)
(* get_l2_head_stream (l2_head_info_stream.rs) with the streams that feed  *)
(* it (header_stream.rs, onchain_tracking_loop.rs), the TxCache            *)
(* (tx_cache.rs) and the verification of confirmed batches                 *)
(* (verification.rs).                                                      *)
(*                                                                         *)
(* Two streams carry blocks, one over a websocket (every new head, in      *)
(* order) and one that polls the latest block; two more carry the last     *)
(* block id of the latest batch of the inbox.  They are merged without any *)
(* order between them, and equal items in a row are dropped.  The stream   *)
(* handles one item at a time but awaits other calls while it does, and    *)
(* the chain goes on meanwhile, as it does while main (main.rs) reads what *)
(* there is before it opens the streams.                                   *)
(*                                                                         *)
(* The cache is shared with the confirmation strategy                      *)
(* (confirmation_strategy.rs), which removes from it the blocks that have  *)
(* expired and those of other preconfers, at any await of the stream.      *)
(*                                                                         *)
(* A block is its number and a fork: two blocks of one number have the     *)
(* same hash iff they have the same fork.  Every block holds an anchor     *)
(* transaction, so that the tests for empty blocks never fire.             *)
(***************************************************************************)
EXTENDS Integers, Sequences, FiniteSetsExt

CONSTANTS
    MaxNumber,     \* BOUND: the highest block number
    MaxFork,       \* BOUND: how often blocks are replaced in any environment
    MaxBatches,    \* BOUND: batches the inbox takes
    Environments   \* the environments a behaviour may run in

\* keepsUp: the poll has seen the head before it changes again (a block lasts
\*          2 s, a poll 50 ms), once the streams are opened.
\* settled: the stream has handled the blocks when a batch holds them (an L1
\*          slot lasts 12 s).
\* spaced:  a batch is proposed when the one before it is confirmed.
\* fails:   RPC calls may fail.
\* forks:   BOUND: how often blocks are replaced.
\* own:     the numbers of the blocks that this preconfer builds.
\* confirms: this preconfer confirms blocks while the stream runs.
Environment == [keepsUp : BOOLEAN, settled : BOOLEAN, spaced : BOOLEAN,
                fails : BOOLEAN, forks : 0..MaxFork,
                own : SUBSET (1..MaxNumber), confirms : BOOLEAN]

ASSUME HeadAssumption ==
    /\ MaxNumber \in Nat /\ MaxFork \in Nat /\ MaxBatches \in Nat
    /\ Environments \subseteq Environment

VARIABLES
    env,
    \* The L2 node and the inbox on L1.
    chain,          \* the forks of the blocks 1..Len(chain) of the L2 chain
    fork,           \* the forks used so far
    inbox,          \* the batches: their blocks, and whether they are foreign
    \* The streams.
    subscribed,     \* blocks the websocket has still to deliver
    polled,         \* the block a poll has read, if it is not delivered yet
    lastPolled,     \* the last block the poll has read
    lastSeen,       \* the last block the merged stream let through
    subscribedIds,  \* confirmed ids the websocket has still to deliver
    polledId,       \* the confirmed id a poll has read, if not delivered yet
    lastPolledId,   \* the highest confirmed id the poll has read
    pollsIds,       \* the polling of confirmed ids has not ended
    lastSeenId,     \* the last id the merged stream let through
    \* get_l2_head_stream and what it shares.
    pc,             \* where the stream is
    current,        \* the block or confirmed id it is handling
    latest,         \* the latest block it has asked for
    nextId,         \* the number of the next block it asks for
    cache,          \* TxCache: number -> fork
    lastConfirmed,  \* last_confirmed_block_id
    first,          \* first_confirmation
    header,         \* the shared last L2 header
    whole           \* history: startup has missed no block, and the strategy has
                    \* removed none

external == <<chain, fork, inbox>>
blockStreams == <<subscribed, polled, lastPolled, lastSeen>>
idStreams == <<subscribedIds, polledId, lastPolledId, pollsIds, lastSeenId>>
handling == <<pc, current, latest, nextId>>
shared == <<cache, lastConfirmed, first, header>>
fixed == <<env, whole>>
vars == <<fixed, external, blockStreams, idStreams, handling, shared>>

-----------------------------------------------------------------------------
Numbers == 0..MaxNumber
Forks == 0..MaxFork
Block == [number : Numbers, fork : Forks]
Genesis == [number |-> 0, fork |-> 0]

BlockAt(n) == IF n = 0 THEN Genesis ELSE [number |-> n, fork |-> chain[n]]
ChainHead == BlockAt(Len(chain))

LastBatch == inbox[Len(inbox)]
LastOf(batch) == Max(DOMAIN batch.blocks)
LastInInbox == IF inbox = <<>> THEN 0 ELSE LastOf(LastBatch)

TypeOK ==
    /\ env \in Environments
    /\ chain \in Seq(Forks) /\ Len(chain) <= MaxNumber /\ fork \in Forks
    /\ \A i \in DOMAIN inbox :
          /\ DOMAIN inbox[i].blocks \subseteq Numbers \ {0}
          /\ \A n \in DOMAIN inbox[i].blocks : inbox[i].blocks[n] \in Forks
          /\ inbox[i].foreign \in BOOLEAN
    /\ subscribed \in Seq(Block) /\ lastPolled \in Block /\ lastSeen \in Block
    /\ polled \in SUBSET Block /\ polledId \in SUBSET Numbers
    /\ subscribedIds \in Seq(Numbers)
    /\ lastPolledId \in Numbers /\ lastSeenId \in Numbers
    /\ pollsIds \in BOOLEAN
    /\ pc \in {"readHead", "readBatch", "readBlocks", "subscribeIds", "idle",
               "fetchLatest", "fetchId", "verify", "fetchConfirmed", "ended",
               "exited"}
    /\ current \in Numbers /\ latest \in Block /\ nextId \in Nat
    /\ DOMAIN cache \subseteq Numbers
    /\ \A n \in DOMAIN cache : cache[n] \in Forks
    /\ lastConfirmed \in Numbers /\ first \in BOOLEAN /\ header \in Block
    /\ whole \in BOOLEAN

Init ==
    /\ env \in Environments
    /\ chain = <<>> /\ fork = 0 /\ inbox = <<>>
    /\ subscribed = <<>> /\ polled = {}
    /\ lastPolled = Genesis /\ lastSeen = Genesis
    /\ subscribedIds = <<>> /\ polledId = {} /\ lastPolledId = 0
    /\ pollsIds = TRUE /\ lastSeenId = 0
    /\ pc = "readHead" /\ current = 0 /\ latest = Genesis /\ nextId = 0
    /\ cache = [n \in {} |-> 0]
    /\ lastConfirmed = 0 /\ first = TRUE /\ header = Genesis
    /\ whole = FALSE

-----------------------------------------------------------------------------
(* The L2 node.  Every new head goes to the subscription.                  *)

\* main has not subscribed to the blocks, to the batches yet.
Unsubscribed == pc \in {"readHead", "readBatch", "readBlocks"}
UnsubscribedIds == Unsubscribed \/ pc = "subscribeIds"

\* The environment may change the chain now.
PollCaughtUp ==
    env.keepsUp => Unsubscribed \/ (lastPolled = ChainHead /\ polled = {})

SetHead(newChain) ==
    /\ PollCaughtUp
    /\ chain' = newChain
    /\ subscribed' =
          IF Unsubscribed THEN subscribed
          ELSE Append(subscribed, [number |-> Len(newChain),
                                   fork |-> newChain[Len(newChain)]])
    /\ UNCHANGED <<fixed, polled, lastPolled, lastSeen, idStreams, handling,
                   shared>>

NewBlock ==
    /\ Len(chain) < MaxNumber
    /\ SetHead(Append(chain, fork))
    /\ UNCHANGED <<fork, inbox>>

\* Another block takes the place of block `n', which no batch holds.
Reorg ==
    /\ fork < env.forks
    /\ fork' = fork + 1
    /\ \E n \in (LastInInbox + 1)..Len(chain) :
          SetHead(Append(SubSeq(chain, 1, n - 1), fork + 1))
    /\ UNCHANGED inbox

\* The numbers of the blocks that are not the ones a batch holds.
Underived ==
    {n \in 1..LastInInbox :
        n > Len(chain) \/ \E i \in DOMAIN inbox :
                              /\ n \in DOMAIN inbox[i].blocks
                              /\ chain[n] # inbox[i].blocks[n]}

\* The node derives the chain from the inbox, block by block.
Derive ==
    /\ Underived # {}
    /\ LET n == Min(Underived)
           i == CHOOSE i \in DOMAIN inbox : n \in DOMAIN inbox[i].blocks
       IN  SetHead(Append(SubSeq(chain, 1, n - 1), inbox[i].blocks[n]))
    /\ UNCHANGED <<fork, inbox>>

-----------------------------------------------------------------------------
(* The inbox.                                                              *)

\* Every block is handled that was delivered, the head at the start included.
Idle ==
    \/ UnsubscribedIds
    \/ /\ pc = "idle" /\ subscribed = <<>> /\ polled = {}
       /\ lastSeen = Genesis => ChainHead = Genesis

Propose(blocks, foreign) ==
    /\ Len(inbox) < MaxBatches
    /\ Underived = {}
    /\ env.settled => Idle
    /\ env.spaced => UnsubscribedIds \/ lastConfirmed = LastInInbox
    /\ inbox' = Append(inbox, [blocks |-> blocks, foreign |-> foreign])
    /\ subscribedIds' = IF UnsubscribedIds THEN subscribedIds
                        ELSE Append(subscribedIds, Max(DOMAIN blocks))
    /\ UNCHANGED <<fixed, chain, blockStreams, polledId, lastPolledId, pollsIds,
                   lastSeenId, handling, shared>>

\* A batch of blocks of the chain.
ProposeChain ==
    /\ \E last \in (LastInInbox + 1)..Len(chain) :
          Propose([n \in (LastInInbox + 1)..last |-> chain[n]], FALSE)
    /\ UNCHANGED fork

\* A batch of other blocks: the chain will be replaced by it.
ProposeForeign ==
    /\ fork < env.forks
    /\ fork' = fork + 1
    /\ \E last \in (LastInInbox + 1)..Len(chain) :
          Propose([n \in (LastInInbox + 1)..last |-> fork + 1], TRUE)

-----------------------------------------------------------------------------
(* The polling streams.  They run when the merged stream asks for an item, *)
(* and read on only when their last item was taken.                        *)

PollBlock ==
    /\ pc = "idle"
    /\ polled = {}
    /\ ChainHead # lastPolled
    /\ polled' = {ChainHead}
    /\ lastPolled' = ChainHead
    /\ UNCHANGED <<fixed, external, subscribed, lastSeen, idStreams, handling,
                   shared>>

PollId ==
    /\ pc = "idle"
    /\ pollsIds
    /\ polledId = {}
    /\ LastInInbox > lastPolledId
    /\ polledId' = {LastInInbox}
    /\ lastPolledId' = LastInInbox
    /\ UNCHANGED <<fixed, external, blockStreams, subscribedIds, pollsIds,
                   lastSeenId, handling, shared>>

\* The `?' in the polling of ids ends the polling; that of blocks goes on.
PollIdFails ==
    /\ env.fails
    /\ pc = "idle"
    /\ pollsIds
    /\ polledId = {}
    /\ pollsIds' = FALSE
    /\ UNCHANGED <<fixed, external, blockStreams, subscribedIds, polledId,
                   lastPolledId, lastSeenId, handling, shared>>

-----------------------------------------------------------------------------
(* The cache.                                                              *)

AddBlock(blocks, block) ==
    [n \in DOMAIN blocks \cup {block.number} |->
        IF n = block.number THEN block.fork ELSE blocks[n]]

Retain(blocks, kept) == [n \in DOMAIN blocks \cap kept |-> blocks[n]]

-----------------------------------------------------------------------------
(* main, before the loops run.  Any other call that fails ends it too.     *)

ReadHead ==
    /\ pc = "readHead"
    /\ header' = ChainHead
    /\ latest' = ChainHead
    /\ pc' = "readBatch"
    /\ UNCHANGED <<fixed, external, blockStreams, idStreams, current, nextId,
                   cache, lastConfirmed, first>>

ReadBatch ==
    /\ pc = "readBatch"
    /\ lastConfirmed' = LastInInbox
    /\ nextId' = LastInInbox + 1
    /\ pc' = "readBlocks"
    /\ UNCHANGED <<fixed, external, blockStreams, idStreams, current, latest,
                   cache, first, header>>

\* Its own unconfirmed blocks, up to the head as it was.
ReadUnconfirmed ==
    /\ pc = "readBlocks"
    /\ nextId <= latest.number
    /\ nextId <= Len(chain)
    /\ cache' = IF nextId \in env.own THEN AddBlock(cache, BlockAt(nextId))
                                      ELSE cache
    /\ nextId' = nextId + 1
    /\ UNCHANGED <<fixed, external, blockStreams, idStreams, pc, current,
                   latest, lastConfirmed, first, header>>

\* The subscription to blocks.  The first poll will see the head.
SubscribeBlocks ==
    /\ pc = "readBlocks"
    /\ nextId > latest.number
    /\ pc' = "subscribeIds"
    /\ whole' = \A n \in (LastInInbox + 1)..(Len(chain) - 1) :
                   n \in DOMAIN cache /\ cache[n] = chain[n]
    /\ UNCHANGED <<env, external, blockStreams, idStreams, current, latest,
                   nextId, shared>>

SubscribeIds ==
    /\ pc = "subscribeIds"
    /\ pc' = "idle"
    /\ UNCHANGED <<fixed, external, blockStreams, idStreams, current, latest,
                   nextId, shared>>

\* The `?' ends main: a block may have gone from the chain.
StartFails ==
    /\ \/ env.fails /\ UnsubscribedIds
       \/ pc = "readBlocks" /\ Len(chain) < nextId /\ nextId <= latest.number
    /\ pc' = "exited"
    /\ UNCHANGED <<fixed, external, blockStreams, idStreams, current, latest,
                   nextId, shared>>

-----------------------------------------------------------------------------
(* The confirmation loop, which runs beside the stream and after its end.  *)

\* The strategy keeps its own blocks, and of these the ones that have not
\* expired; nothing asks the node for the others again.
Prune ==
    /\ env.confirms
    /\ ~UnsubscribedIds /\ pc # "exited"
    /\ \E expired \in SUBSET env.own :
          cache' = Retain(cache, env.own \ expired)
    /\ whole' = (whole /\ cache' = cache)
    /\ UNCHANGED <<env, external, blockStreams, idStreams, handling,
                   lastConfirmed, first, header>>

-----------------------------------------------------------------------------
(* A block arrives (StreamData::Unconfirmed).                              *)

\* Mistake: the last confirmed block is cached again.
HandleConfirmed(block) ==
    IF block.number < lastConfirmed
    THEN UNCHANGED <<handling, shared>>
    ELSE /\ cache' = AddBlock(cache, block)
         /\ header' = block
         /\ pc' = IF \E n \in DOMAIN cache' : n > block.number
                  THEN "fetchLatest" ELSE "idle"
         /\ current' = block.number
         /\ UNCHANGED <<latest, nextId, lastConfirmed, first>>

\* Mistake: the number after the block's is taken for its own.
HandleShifted(block) ==
    /\ cache' = AddBlock(cache, block)
    /\ header' = block
    /\ pc' = IF \E n \in DOMAIN cache' : n > block.number
             THEN "fetchLatest" ELSE "idle"
    /\ current' = block.number + 1
    /\ UNCHANGED <<latest, nextId, lastConfirmed, first>>

\* What the stream does with a block the merged stream let through.  If the
\* cache knows of later blocks it asks the node what became of them.
Handle(block) ==
    IF block.number < lastConfirmed
    THEN UNCHANGED <<handling, shared>>
    ELSE /\ cache' = IF block.number > lastConfirmed THEN AddBlock(cache, block)
                                                     ELSE cache
         /\ header' = block
         /\ pc' = IF \E n \in DOMAIN cache' : n > block.number
                  THEN "fetchLatest" ELSE "idle"
         /\ current' = block.number
         /\ UNCHANGED <<latest, nextId, lastConfirmed, first>>

\* The merged stream lets a block through unless it is the one before it again.
LetThrough(block) ==
    IF block = lastSeen
    THEN UNCHANGED <<lastSeen, handling, shared>>
    ELSE lastSeen' = block /\ Handle(block)

ReceiveSubscribed ==
    /\ pc = "idle"
    /\ subscribed # <<>>
    /\ LetThrough(subscribed[1])
    /\ subscribed' = Tail(subscribed)
    /\ UNCHANGED <<fixed, external, polled, lastPolled, idStreams>>

ReceivePolled ==
    /\ pc = "idle"
    /\ \E block \in polled : LetThrough(block)
    /\ polled' = {}
    /\ UNCHANGED <<fixed, external, subscribed, lastPolled, idStreams>>

\* Mistake: the blocks after `last' stay.
DropNothing(blocks, last) ==
    /\ cache' = blocks
    /\ pc' = "idle"

\* Blocks after `last' are dropped and the next item is awaited.
DropAfter(blocks, last) ==
    /\ cache' = Retain(blocks, 0..last)
    /\ pc' = "idle"

FetchLatest ==
    /\ pc = "fetchLatest"
    /\ IF Len(chain) > current
       THEN /\ pc' = "fetchId"
            /\ latest' = ChainHead
            /\ nextId' = current + 1
            /\ UNCHANGED cache
       ELSE /\ DropAfter(cache, current)
            /\ UNCHANGED <<latest, nextId>>
    /\ UNCHANGED <<fixed, external, blockStreams, idStreams, current,
                   lastConfirmed, first, header>>

\* The failed call is logged, and the blocks after the current one dropped.
FetchLatestFails ==
    /\ env.fails
    /\ pc = "fetchLatest"
    /\ DropAfter(cache, current)
    /\ UNCHANGED <<fixed, external, blockStreams, idStreams, current, latest,
                   nextId, lastConfirmed, first, header>>

\* A block between the current one and the latest; a block the chain has lost
\* meanwhile counts as a failed call.
FetchId ==
    /\ pc = "fetchId"
    /\ nextId < latest.number
    /\ \/ /\ nextId <= Len(chain)
          /\ cache' = AddBlock(cache, BlockAt(nextId))
          /\ header' = BlockAt(nextId)
       \/ /\ env.fails \/ nextId > Len(chain)
          /\ UNCHANGED <<cache, header>>
    /\ nextId' = nextId + 1
    /\ UNCHANGED <<fixed, external, blockStreams, idStreams, pc, current,
                   latest, lastConfirmed, first>>

AddLatest ==
    /\ pc = "fetchId"
    /\ nextId >= latest.number
    /\ DropAfter(AddBlock(cache, latest), latest.number)
    /\ header' = latest
    /\ UNCHANGED <<fixed, external, blockStreams, idStreams, current, latest,
                   nextId, lastConfirmed, first>>

-----------------------------------------------------------------------------
(* A confirmed id arrives (StreamData::Confirmed).                         *)

\* Mistake: an older confirmation is handled like a new one.
ConfirmAgain(id) ==
    IF id = lastSeenId
    THEN UNCHANGED <<lastSeenId, handling, shared>>
    ELSE /\ lastSeenId' = id
         /\ first' = FALSE
         /\ current' = id
         /\ IF first
            THEN /\ cache' = Retain(cache, (id + 1)..MaxNumber)
                 /\ lastConfirmed' = id
                 /\ UNCHANGED pc
            ELSE /\ pc' = "verify"
                 /\ UNCHANGED <<cache, lastConfirmed>>
         /\ UNCHANGED <<latest, nextId, header>>

\* The first confirmation is not verified.
Confirm(id) ==
    IF id = lastSeenId
    THEN UNCHANGED <<lastSeenId, handling, shared>>
    ELSE /\ lastSeenId' = id
         /\ IF id <= lastConfirmed
            THEN UNCHANGED <<handling, shared>>
            ELSE /\ first' = FALSE
                 /\ current' = id
                 /\ IF first
                    THEN /\ cache' = Retain(cache, (id + 1)..MaxNumber)
                         /\ lastConfirmed' = id
                         /\ UNCHANGED pc
                    ELSE /\ pc' = "verify"
                         /\ UNCHANGED <<cache, lastConfirmed>>
                 /\ UNCHANGED <<latest, nextId, header>>

ReceiveSubscribedId ==
    /\ pc = "idle"
    /\ subscribedIds # <<>>
    /\ Confirm(subscribedIds[1])
    /\ subscribedIds' = Tail(subscribedIds)
    /\ UNCHANGED <<fixed, external, blockStreams, polledId, lastPolledId,
                   pollsIds>>

ReceivePolledId ==
    /\ pc = "idle"
    /\ \E id \in polledId : Confirm(id)
    /\ polledId' = {}
    /\ UNCHANGED <<fixed, external, blockStreams, subscribedIds, lastPolledId,
                   pollsIds>>

\* Mistake: blocks after the batch are compared with it as well.
VerifiedWithAll == DOMAIN cache = {} \/ cache = LastBatch.blocks

\* verify_last_batch: the cached blocks up to the end of the LATEST batch have
\* the meta hash of that batch, or there are none.
Verified ==
    LET blocks == Retain(cache, 0..LastOf(LastBatch)) IN
    DOMAIN blocks = {} \/ blocks = LastBatch.blocks

VerifySucceeds ==
    /\ pc = "verify"
    /\ Verified
    /\ cache' = Retain(cache, (current + 1)..MaxNumber)
    /\ lastConfirmed' = current
    /\ pc' = "idle"
    /\ UNCHANGED <<fixed, external, blockStreams, idStreams, current, latest,
                   nextId, first, header>>

OutOfSync ==
    /\ pc = "verify"
    /\ ~Verified
    /\ cache' = [n \in {} |-> 0]
    /\ pc' = "fetchConfirmed"
    /\ UNCHANGED <<fixed, external, blockStreams, idStreams, current, latest,
                   nextId, lastConfirmed, first, header>>

FetchConfirmed ==
    /\ pc = "fetchConfirmed"
    /\ \/ current <= Len(chain) /\ header' = BlockAt(current)
       \/ (env.fails \/ current > Len(chain)) /\ UNCHANGED header
    /\ lastConfirmed' = current
    /\ pc' = "idle"
    /\ UNCHANGED <<fixed, external, blockStreams, idStreams, current, latest,
                   nextId, cache, first>>

\* The `?' ends the stream, and nothing starts it again.
VerifyFails ==
    /\ env.fails
    /\ pc = "verify"
    /\ pc' = "ended"
    /\ UNCHANGED <<fixed, external, blockStreams, idStreams, current, latest,
                   nextId, shared>>

\* The polls go on when there is nothing new; nothing restarts the stream.
NothingNew ==
    /\ pc \in {"ended", "exited"} \/ (pc = "idle" /\ ChainHead = lastPolled)
    /\ UNCHANGED vars

-----------------------------------------------------------------------------
Next ==
    \/ NewBlock \/ Reorg \/ Derive
    \/ ProposeChain \/ ProposeForeign
    \/ ReadHead \/ ReadBatch \/ ReadUnconfirmed
    \/ SubscribeBlocks \/ SubscribeIds \/ StartFails
    \/ Prune
    \/ PollBlock \/ PollId \/ PollIdFails
    \/ ReceiveSubscribed \/ ReceivePolled
    \/ FetchLatest \/ FetchLatestFails \/ FetchId \/ AddLatest
    \/ ReceiveSubscribedId \/ ReceivePolledId
    \/ VerifySucceeds \/ OutOfSync \/ FetchConfirmed \/ VerifyFails
    \/ NothingNew

\* The steps of main and the stream that do not fail.
StreamStep ==
    \/ ReadHead \/ ReadBatch \/ ReadUnconfirmed
    \/ SubscribeBlocks \/ SubscribeIds
    \/ PollBlock \/ PollId
    \/ ReceiveSubscribed \/ ReceivePolled
    \/ FetchLatest \/ FetchId \/ AddLatest
    \/ ReceiveSubscribedId \/ ReceivePolledId
    \/ VerifySucceeds \/ OutOfSync \/ FetchConfirmed

\* The executor polls the stream and its calls return; the node derives what
\* is in the inbox.
Fairness == WF_vars(StreamStep) /\ WF_vars(Derive)

Spec == Init /\ [][Next]_vars /\ Fairness

-----------------------------------------------------------------------------
(* Properties.                                                             *)

Calm == env.keepsUp /\ env.settled /\ env.spaced /\ ~env.fails

\* Between two items the cache holds no block that is confirmed: a block that
\* is confirmed while the stream asks the node for other blocks does not come
\* back into the cache, and would not be proposed again.
CacheUnconfirmed ==
    pc \in {"idle", "ended"} => \A n \in DOMAIN cache : n > lastConfirmed

\* last_confirmed_block_id never goes back, although the polled id may be
\* older than the subscribed one.
ConfirmedGrows == [][lastConfirmed' >= lastConfirmed]_vars

\* The stream reports L1 and L2 out of sync, and drops the unconfirmed blocks,
\* only if some batch held blocks that were not those of the L2 chain.
AlarmIsTrue ==
    [][OutOfSync => \E i \in DOMAIN inbox : inbox[i].foreign]_vars

\* The same in a calm environment, as long as no block came or was replaced
\* while main read the blocks and the confirmation strategy has removed no
\* block.  It does when a block has expired, and when a turn begins with blocks
\* of another preconfer unconfirmed: then the alarm may be false, as AlarmIsTrue
\* of Confirmation shows.
AlarmIsTrueIfCalm ==
    [][OutOfSync /\ Calm /\ whole =>
          \E i \in DOMAIN inbox : inbox[i].foreign]_vars

\* The cache and the shared header are those of the L2 chain: the unconfirmed
\* blocks and the head.
Mirrors ==
    /\ lastConfirmed = LastInInbox
    /\ DOMAIN cache = (lastConfirmed + 1)..Len(chain)
    /\ \A n \in DOMAIN cache : cache[n] = chain[n]
    /\ header = ChainHead

\* Once the chain and the inbox are at rest the cache and the header become
\* those of the chain, whatever order the streams delivered blocks and
\* confirmations in, replaced blocks and foreign batches included, if no block
\* came or was replaced while main read the blocks and the confirmation
\* strategy removes none: what it removes is not read again.
ComesToMirror ==
    Calm => <>[](whole => Mirrors)
=============================================================================
