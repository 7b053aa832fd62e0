------------------------------- MODULE Building -------------------------------
(***************************************************************************)
(* The handover from one preconfer to the next and the building of the     *)
(* blocks of a window: the sequencing monitor (sequencing_monitor.rs), the *)
(* block builder and the L2 client it calls (block_builder.rs,             *)
(* taiko_l2_client.rs), the part of the preconfirmation loop around them   *)
(* (preconfirmation_loop.rs), and the last L2 header that they share with  *)
(* the tracking loop behind a read-write lock (onchain_tracking_loop.rs).  *)
(*                                                                         *)
(* Time is counted in L2 slots of the window, 1 to Slots; slot 0 is before *)
(* it.  The three loops of main are joined in one task: while one of them  *)
(* spins, none of them moves; the monitor is spawned and runs beside it.   *)
(* In which slots the loop builds at all is the subject of                 *)
(* PreconfLoop, the way of a block from the node to the tracking loop that *)
(* of L2Head: here a block comes in the order in which the node took it.   *)
(***************************************************************************)
EXTENDS Integers, Sequences

CONSTANTS
    Slots,         \* BOUND: the L2 slots of the window
    Buffer,        \* handover_start_buffer in L2 slots
    OtherBlocks,   \* BOUND: the last blocks of the preconfer before
    Environments   \* the environments a behaviour may run in

\* monitored: the layout is one in which the monitor is spawned (see
\*            HandoverWaits in PreconfLoop).
\* startEnds: the newest block before the ones in view ended a window.
\* otherEnds: the preconfer before marks its last block as the end; if monitored,
\*            it runs other software than this (see EndOfSequencing).
\* late:      its last blocks may come after its window.
\* lagging:   the tracking loop may be slots behind the node.
\* slow:      build_block may be given up after its timeout.
\* fails:     RPC calls may fail.
Environment == [monitored : BOOLEAN, startEnds : BOOLEAN, otherEnds : BOOLEAN,
                late : BOOLEAN, lagging : BOOLEAN, slow : BOOLEAN, fails : BOOLEAN]

ASSUME BuildingAssumption ==
    /\ Slots \in Nat \ {0} /\ Buffer \in Nat /\ Buffer < Slots /\ OtherBlocks \in Nat
    /\ Environments \subseteq Environment

VARIABLES
    env,
    \* The L2 node, and the preconfer before this one.
    chain,      \* its blocks, from number 1
    lastEnd,    \* end_of_sequencing_block_hash of the status endpoint
    otherLeft,  \* the blocks the preconfer before has still to publish
    requests,   \* the blocks that were sent to the node and not answered
    \* The tracking loop.
    incoming,   \* headers the L2 head stream has still to deliver
    writer,     \* the header that waits for the write lock, if there is one
    header,     \* last_l2_header
    \* The spawned task with the sequencing monitor.
    monitor,    \* where it is: "off", "asking", "locking", "sleeping"
    status,     \* the last status it has read
    synced,     \* history: it has returned because the status agreed
    waiting,    \* waiting_for_previous_preconfer
    \* The confirmation loop.
    spins,      \* it has found the flag set and asks again and again
    \* The preconfirmation loop and the block builder.
    slot,       \* the L2 slot
    pc,         \* where the loop is
    parent,     \* the header build_block has read
    nonce       \* golden_touch_nonce

node == <<chain, lastEnd, otherLeft, requests>>
tracker == <<incoming, writer, header>>
task == <<monitor, status, synced, waiting, spins>>
loop == <<slot, pc, parent, nonce>>
vars == <<env, node, tracker, task, loop>>

-----------------------------------------------------------------------------
GoldenTouch == "golden touch"

\* The hash of a block is the block.
Block == [number : Nat \ {0}, by : {"before", "other", "self"},
          slot : 0..Slots, end : BOOLEAN]
Status == [highest : Nat, end : Block]
AnchorTx == [account : {GoldenTouch}, nonce : Nat]
Request == [data : [number : Nat, parent : Block, slot : 1..Slots, first : AnchorTx],
            end : BOOLEAN]
Building == {"header", "nonce", "mempool", "publish", "answer"}

TypeOK ==
    /\ env \in Environments
    /\ chain \in Seq(Block) /\ chain # <<>>
    /\ \A i \in DOMAIN chain : chain[i].number = i
    /\ otherLeft \in 0..OtherBlocks
    /\ requests \subseteq Request
    /\ incoming \in Seq(Block) /\ writer \in Seq(Block) /\ Len(writer) <= 1
    /\ header \in Block /\ parent \in Block /\ lastEnd \in Block /\ status \in Status
    /\ monitor \in {"off", "asking", "locking", "sleeping"}
    /\ waiting \in BOOLEAN /\ synced \in BOOLEAN /\ spins \in BOOLEAN
    /\ slot \in 0..Slots + 1 /\ nonce \in Nat
    /\ pc \in Building \cup {"top", "hold", "spin", "asleep", "done"}

\* A block of an epoch before, which no block in view equals.
LongAgo == [number |-> 1, by |-> "other", slot |-> 0, end |-> TRUE]

Init ==
    /\ env \in Environments
    /\ LET start == [number |-> 1, by |-> "before", slot |-> 0, end |-> env.startEnds]
       IN  /\ chain = <<start>>
           /\ header = start /\ parent = start
           /\ lastEnd = IF env.startEnds THEN start ELSE LongAgo
    /\ otherLeft = OtherBlocks
    /\ requests = {}
    /\ incoming = <<>> /\ writer = <<>>
    /\ monitor = "off" /\ synced = FALSE /\ waiting = FALSE /\ spins = FALSE
    /\ status = [highest |-> 0, end |-> LongAgo]
    /\ slot = 0 /\ pc = "top" /\ nonce = 0

NodeHead == chain[Len(chain)]
StatusNow == [highest |-> Len(chain), end |-> lastEnd]

\* The node takes a block on top of the n-th one.
Take(n, block) ==
    /\ chain' = Append(SubSeq(chain, 1, n), block)
    /\ incoming' = Append(incoming, block)
    /\ lastEnd' = IF block.end THEN block ELSE lastEnd

-----------------------------------------------------------------------------
(* The confirmation loop, as far as it holds up the other two: with the    *)
(* flag set it begins its iteration anew without an await in between.      *)

ConfirmationSpins ==
    /\ pc = "hold" /\ waiting /\ ~spins
    /\ spins' = TRUE
    /\ UNCHANGED <<env, node, tracker, monitor, status, synced, waiting, loop>>

\* The task of the three loops does not yield: `continue' without an await.
Stuck == waiting /\ (pc = "spin" \/ spins)

-----------------------------------------------------------------------------
(* The preconfer before.  A block of it that comes when another one has    *)
(* been built in its place is not taken.                                   *)

OtherBuilds ==
    /\ otherLeft > 0 /\ NodeHead.by # "self"
    /\ slot = 0 \/ env.late
    /\ Take(Len(chain), [number |-> Len(chain) + 1, by |-> "other", slot |-> 0,
                         end |-> env.otherEnds /\ otherLeft = 1])
    /\ otherLeft' = otherLeft - 1
    /\ UNCHANGED <<env, requests, writer, header, task, loop>>

-----------------------------------------------------------------------------
(* The tracking loop.  The lock is fair: who asks for it after a writer    *)
(* gets it after the writer.                                               *)

\* The guard of the monitor lives until the end of the iteration of ready(),
\* and that is after its sleep.
GuardHeld == monitor = "sleeping"

ReceiveHeader ==
    /\ ~Stuck
    /\ incoming # <<>> /\ writer = <<>>
    /\ writer' = <<Head(incoming)>>
    /\ incoming' = Tail(incoming)
    /\ UNCHANGED <<env, node, header, task, loop>>

StoreHeader ==
    /\ ~Stuck
    /\ writer # <<>> /\ ~GuardHeld
    /\ header' = writer[1]
    /\ writer' = <<>>
    /\ UNCHANGED <<env, node, incoming, task, loop>>

-----------------------------------------------------------------------------
(* The sequencing monitor.                                                 *)

\* Mistake: only the numbers are compared.
ReadyByNumber(s, h) == s.highest = h.number

\* is_end_of_sequencing_status_unsafe
Ready(s, h) == s.end = h /\ s.highest = h.number

\* The flag is cleared: the loops that ask for it go on.
Finish ==
    /\ monitor' = "off"
    /\ waiting' = FALSE
    /\ spins' = FALSE

AskStatus ==
    /\ monitor = "asking"
    /\ status' = StatusNow
    /\ monitor' = "locking"
    /\ UNCHANGED <<env, node, tracker, synced, waiting, spins, loop>>

\* ready() returns the error, and timeout() has returned in time: the task
\* reports that it is in sync and clears the flag.
StatusFails ==
    /\ env.fails /\ monitor = "asking"
    /\ Finish
    /\ UNCHANGED <<env, node, tracker, status, synced, loop>>

\* Mistake: a lock that prefers readers.
CompareUnfair ==
    /\ monitor = "locking"
    /\ IF Ready(status, header)
       THEN Finish /\ synced' = TRUE
       ELSE monitor' = "sleeping" /\ UNCHANGED <<waiting, spins, synced>>
    /\ UNCHANGED <<env, node, tracker, status, loop>>

Compare ==
    /\ monitor = "locking" /\ writer = <<>>
    /\ IF Ready(status, header)
       THEN Finish /\ synced' = TRUE
       ELSE monitor' = "sleeping" /\ UNCHANGED <<waiting, spins, synced>>
    /\ UNCHANGED <<env, node, tracker, status, loop>>

\* Mistake: the status is read once, before the loop.
WakeWithStatus ==
    /\ monitor = "sleeping"
    /\ monitor' = "locking"
    /\ UNCHANGED <<env, node, tracker, status, synced, waiting, spins, loop>>

Wake ==
    /\ monitor = "sleeping"
    /\ monitor' = "asking"
    /\ UNCHANGED <<env, node, tracker, status, synced, waiting, spins, loop>>

\* The timeout drops ready() and with it the guard.
MonitorTimeout ==
    /\ monitor # "off" /\ slot > Buffer
    /\ Finish
    /\ UNCHANGED <<env, node, tracker, status, synced, loop>>

-----------------------------------------------------------------------------
(* The preconfirmation loop.                                               *)

\* The headers of all blocks are stored unless the loops spin, and the monitor
\* has seen what there is to see: a poll lasts 50 ms, an L2 slot 2 s.
Settled ==
    /\ Stuck \/ pc = "spin" \/ (incoming = <<>> /\ writer = <<>>)
    /\ \/ monitor = "off"
       \/ monitor = "sleeping" /\ status = StatusNow /\ ~Ready(status, header)
       \/ monitor = "locking" /\ writer # <<>>

\* Time goes on while the loop sleeps or spins.  A build ends within its slot.
\* What is left of the pause when the task has been stuck until another slot,
\* ends as a pause of which the flag was last read set.
Tick ==
    /\ \/ pc = "asleep"
       \/ pc = "top" /\ slot = 0
       \/ pc = "hold" /\ Stuck
       \/ pc = "spin" /\ (Stuck \/ slot = 1)
    /\ slot = 0 => otherLeft = 0 \/ env.late
    /\ env.lagging \/ Settled
    /\ waiting => slot <= Buffer
    /\ slot' = slot + 1
    /\ pc' = IF slot = Slots THEN "done" ELSE IF pc \in {"hold", "spin"} THEN "spin" ELSE "top"
    /\ UNCHANGED <<env, node, tracker, task, parent, nonce>>

\* The first iteration of the window spawns the monitor and polls the flag.
\* After a `continue' in the first slot it does so again, with no pause left.
Spawn ==
    /\ pc \in {"top", "spin"} /\ slot = 1 /\ ~waiting /\ env.monitored
    /\ waiting' = TRUE
    /\ monitor' = "asking"
    /\ pc' = IF pc = "top" THEN "hold" ELSE "spin"
    /\ UNCHANGED <<env, node, tracker, status, synced, spins, slot, parent, nonce>>

\* status_sync_max_delay is over.  The flag was read a poll period ago, when it
\* may still have been set.
HoldEnds ==
    /\ pc = "hold" /\ ~Stuck
    /\ pc' \in IF waiting THEN {"spin"} ELSE {"spin", "header"}
    /\ UNCHANGED <<env, node, tracker, task, slot, parent, nonce>>

StartBuild ==
    /\ pc \in {"top", "spin"} /\ slot > 0 /\ ~waiting
    /\ slot = 1 => ~env.monitored
    /\ pc' = "header"
    /\ UNCHANGED <<env, node, tracker, task, slot, parent, nonce>>

-----------------------------------------------------------------------------
(* build_block.                                                            *)

ReadHeader ==
    /\ pc = "header" /\ writer = <<>>
    /\ parent' = header
    /\ pc' = "nonce"
    /\ UNCHANGED <<env, node, tracker, task, slot, nonce>>

\* Mistake: the nonce is derived from the parent.
ReadNonceOfParent ==
    /\ pc = "nonce"
    /\ nonce' = parent.number
    /\ pc' = "mempool"
    /\ UNCHANGED <<env, node, tracker, task, slot, parent>>

\* get_nonce and get_base_fee.  The golden touch account signs one
\* transaction in every block, so that its nonce is the number of blocks.
ReadNonce ==
    /\ pc = "nonce"
    /\ nonce' = Len(chain)
    /\ pc' = "mempool"
    /\ UNCHANGED <<env, node, tracker, task, slot, parent>>

\* The layout in which the monitor runs has a handover window as long as the
\* epoch.  There the slot before it is no slot of an epoch: a release build
\* wraps the difference and gives no block the mark, a debug build panics.
EndOfSequencing == slot = Slots /\ ~env.monitored

\* Mistake: a block without transactions is never published.
ReadMempoolNeverEmpty ==
    /\ pc = "mempool"
    /\ \E empty \in BOOLEAN : pc' = IF empty THEN "asleep" ELSE "publish"
    /\ UNCHANGED <<env, node, tracker, task, slot, parent, nonce>>

\* get_mempool_txs: without transactions there is no block, but for the last.
ReadMempool ==
    /\ pc = "mempool"
    /\ \E empty \in BOOLEAN :
         pc' = IF empty /\ ~EndOfSequencing THEN "asleep" ELSE "publish"
    /\ UNCHANGED <<env, node, tracker, task, slot, parent, nonce>>

\* get_signed_anchor_tx
SignedAnchorTx(n) == [account |-> GoldenTouch, nonce |-> n]

\* Mistake: the number of the parent.
ExecutableDataOnParent(onto, first) ==
    [number |-> onto.number, parent |-> onto, slot |-> slot, first |-> first]

\* create_executable_data: the number of the block follows from the parent.
ExecutableData(onto, first) ==
    [number |-> onto.number + 1, parent |-> onto, slot |-> slot, first |-> first]

\* publish_preconfirmed_transactions up to the await.
Publish ==
    /\ pc = "publish"
    /\ requests' = requests \cup
         {[data |-> ExecutableData(parent, SignedAnchorTx(nonce)), end |-> EndOfSequencing]}
    /\ pc' = "answer"
    /\ UNCHANGED <<env, chain, lastEnd, otherLeft, tracker, task, slot, parent, nonce>>

\* A `?' of build_block, or an answer that is an error or gets lost.
BuildFails ==
    /\ env.fails /\ pc \in Building \ {"header"}
    /\ pc' = "asleep"
    /\ UNCHANGED <<env, node, tracker, task, slot, parent, nonce>>

\* timeout(1500 ms, build_block): what was sent is not taken back.
BuildTimeout ==
    /\ env.slow /\ pc \in Building
    /\ pc' = "asleep"
    /\ UNCHANGED <<env, node, tracker, task, slot, parent, nonce>>

\* The node takes a block whose parent it has, if the anchor transaction has
\* the nonce the account has after the parent.  Blocks on top of the parent
\* are replaced.
Fits(block) ==
    /\ block.parent.number <= Len(chain)
    /\ chain[block.parent.number] = block.parent
    /\ block.first.nonce = block.parent.number

Answer(r) ==
    /\ requests' = requests \ {r}
    /\ IF Fits(r.data)
       THEN Take(r.data.parent.number,
                 [number |-> r.data.number, by |-> "self", slot |-> r.data.slot, end |-> r.end])
       ELSE UNCHANGED <<chain, lastEnd, incoming>>
    \* The header in the answer is not used.
    /\ pc' = IF pc = "answer" /\ r.data.slot = slot THEN "asleep" ELSE pc
    /\ UNCHANGED <<env, otherLeft, writer, header, task, slot, parent, nonce>>

-----------------------------------------------------------------------------
Finished == pc = "done" /\ UNCHANGED vars

TrackerStep == ReceiveHeader \/ StoreHeader
MonitorStep == AskStatus \/ StatusFails \/ Compare \/ Wake \/ MonitorTimeout
LoopStep ==
    \/ Spawn \/ HoldEnds \/ StartBuild
    \/ ReadHeader \/ ReadNonce \/ ReadMempool \/ Publish \/ BuildFails \/ BuildTimeout
    \/ \E r \in requests : Answer(r)

Next ==
    \/ OtherBuilds \/ TrackerStep \/ MonitorStep \/ ConfirmationSpins \/ LoopStep
    \/ Tick \/ Finished

\* The executor polls the loops of a task that is not stuck and, on another
\* worker, the spawned one; what they await comes, and the clock goes on.
Fairness ==
    /\ WF_vars(ReceiveHeader) /\ WF_vars(StoreHeader)
    /\ WF_vars(MonitorStep)
    /\ WF_vars(LoopStep)
    /\ SF_vars(Tick)

Spec == Init /\ [][Next]_vars /\ Fairness

-----------------------------------------------------------------------------
Own == {i \in DOMAIN chain : chain[i].by = "self"}

\* Where the monitor has found itself in sync and no older window had ended
\* with the same header, the first block of this window is built on the block
\* that ends the window before (ready(), lines 107-124 of the loop).
BuildsOnEndIfSynced ==
    synced /\ ~env.startEnds =>
        \A i \in Own : (i - 1) \notin Own => chain[i - 1].end

\* A block this preconfer has published is never replaced by a later one of
\* its own, although each is built on a header that may be stale, if no build
\* is given up or loses its answer (build_block, get_nonce).
KeepsItsBlocks ==
    \A i \in Own : i \in DOMAIN chain' /\ chain'[i] = chain[i]
KeepsItsBlocksIfPrompt == [][~env.slow /\ ~env.fails => KeepsItsBlocks]_vars

Calm == ~env.late /\ ~env.lagging /\ ~env.slow /\ ~env.fails

\* When nothing goes wrong a window ends with a block that says so, which is
\* what the preconfer after this one waits for (end_of_sequencing, lines
\* 138-140 of the loop; build_block).  It does not in the layout that has a
\* monitor to wait for it, see EndOfSequencing.
HandsOverIfCalm ==
    Calm /\ ~env.monitored /\ pc = "done" => NodeHead.by = "self" /\ NodeHead.end

\* The tracking loop never waits for the header's lock for good, although
\* ready() holds its read guard while it sleeps and although the task of the
\* tracking loop may be stuck until the monitor has timed out.
HeaderIsStored == writer # <<>> ~> writer = <<>>

\* If the window before ends with a block that says so while the monitor runs,
\* the monitor finds out, unless the loops begin to spin before its header is
\* stored: from then on the wait cannot succeed (ready(); lines 74-77 of the
\* loop, 69-72 of the confirmation loop).
SyncComes ==
    /\ monitor # "off" /\ slot <= Buffer
    /\ NodeHead.by = "other" /\ NodeHead.end
    /\ ~env.lagging /\ ~env.fails
    ~> synced \/ (Stuck /\ header # NodeHead)
=============================================================================
