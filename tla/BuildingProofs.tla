---------------------------- MODULE BuildingProofs ----------------------------
(***************************************************************************)
(* Theorems about Building, for every value of its constants: its types,   *)
(* that no block of this preconfer is replaced by a later one of its own,  *)
(* that its window begins on the end of the one before where the monitor   *)
(* has found itself in sync, and that a calm window ends with the mark     *)
(* where no monitor runs.                                                  *)
(***************************************************************************)
EXTENDS Building, SequenceTheorems, TLAPS

-----------------------------------------------------------------------------
(* Type correctness.                                                       *)

\* The number of a requested block follows from its parent, and the loop builds
\* in the slots of the window only.
BuildOK ==
    /\ \A r \in requests : r.data.number = r.data.parent.number + 1
    /\ pc \in Building \cup {"hold"} => slot \in 1..Slots
    /\ pc # "done" => slot \in 0..Slots

TypeInv == TypeOK /\ BuildOK

\* The first n blocks of a chain and one more are a chain.
LEMMA ExtendedChain ==
    ASSUME NEW c \in Seq(Block), \A i \in DOMAIN c : c[i].number = i,
           NEW n \in 0..Len(c), NEW block \in Block, block.number = n + 1
    PROVE  LET new == Append(SubSeq(c, 1, n), block) IN
           /\ new \in Seq(Block) /\ new # <<>>
           /\ Len(new) = n + 1
           /\ \A i \in 1..n : new[i] = c[i]
           /\ new[n + 1] = block
           /\ \A i \in DOMAIN new : new[i].number = i
  <1> DEFINE old == SubSeq(c, 1, n)
             new == Append(old, block)
  <1>1. /\ old \in Seq(Block) /\ Len(old) = n
        /\ \A i \in 1..n : old[i] = c[i]
    BY SubSeqProperties
  <1> HIDE DEF old
  <1>2. new \in Seq(Block) /\ Len(new) = n + 1 /\ new # <<>>
    BY <1>1, AppendProperties
  <1>3. (\A i \in 1..n : new[i] = c[i]) /\ new[n + 1] = block
    BY <1>1, AppendProperties
  <1>4. DOMAIN new = 1..(n + 1)
    BY <1>2
  <1>5. ASSUME NEW i \in DOMAIN new PROVE new[i].number = i
    <2>1. CASE i = n + 1
      BY <2>1, <1>3
    <2>2. CASE i \in 1..n
      BY <2>2, <1>3
    <2> QED
      BY <2>1, <2>2, <1>4
  <1> QED
    BY <1>2, <1>3, <1>5 DEF old

\* Types are as declared, initially.
LEMMA TypeInit == Init => TypeInv
  <1> SUFFICES ASSUME Init PROVE TypeInv
    OBVIOUS
  <1> DEFINE start == [number |-> 1, by |-> "before", slot |-> 0, end |-> env.startEnds]
  <1>1. Slots \in Nat \ {0} /\ OtherBlocks \in Nat /\ env \in Environment
    BY BuildingAssumption DEF Init
  <1>2. start \in Block /\ LongAgo \in Block
    BY <1>1 DEF Block, LongAgo, Environment
  <1>3. chain = <<start>> /\ header = start /\ parent = start
        /\ lastEnd \in {start, LongAgo} /\ status = [highest |-> 0, end |-> LongAgo]
    BY DEF Init
  <1>4. start.number = 1
    OBVIOUS
  <1> HIDE DEF start
  <1>5. chain \in Seq(Block) /\ chain # <<>> /\ \A i \in DOMAIN chain : chain[i].number = i
    BY <1>2, <1>3, <1>4
  <1>6. status \in Status
    BY <1>2, <1>3 DEF Status
  <1> QED
    <2>1. /\ header \in Block /\ parent \in Block /\ lastEnd \in Block
          /\ incoming \in Seq(Block) /\ writer \in Seq(Block) /\ Len(writer) <= 1
      BY <1>2, <1>3 DEF Init
    <2>2. otherLeft \in 0..OtherBlocks /\ slot \in 0..Slots + 1
      BY <1>1 DEF Init
    <2>3. /\ env \in Environments /\ requests \subseteq Request
          /\ monitor = "off" /\ waiting = FALSE /\ synced = FALSE /\ spins = FALSE
          /\ nonce \in Nat /\ pc = "top"
      BY DEF Init
    <2>4. TypeOK
      BY <1>5, <1>6, <2>1, <2>2, <2>3 DEF TypeOK
    <2>5. BuildOK
      BY <1>1, <2>3 DEF Init, BuildOK, Building
    <2> QED
      BY <2>4, <2>5 DEF TypeInv

\* Blocks numbered without gaps.
IsChain(blocks) == blocks \in Seq(Block) /\ \A i \in DOMAIN blocks : blocks[i].number = i

\* They stay so when one is put after the first n.
LEMMA ExtendedIsChain ==
    ASSUME NEW c, IsChain(c), NEW n \in 0..Len(c), NEW block \in Block, block.number = n + 1
    PROVE  IsChain(Append(SubSeq(c, 1, n), block)) /\ Append(SubSeq(c, 1, n), block) # <<>>
  BY ExtendedChain DEF IsChain

\* A block the node takes leaves its state and the deliveries well-typed.
LEMMA TakeType ==
    ASSUME TypeOK, NEW n \in 0..Len(chain), NEW block \in Block, block.number = n + 1,
           Take(n, block)
    PROVE  /\ chain' \in Seq(Block) /\ chain' # <<>>
           /\ \A i \in DOMAIN chain' : chain'[i].number = i
           /\ incoming' \in Seq(Block)
           /\ lastEnd' \in Block
  <1>1. chain' = Append(SubSeq(chain, 1, n), block)
    BY DEF Take
  <1>2. chain \in Seq(Block) /\ \A i \in DOMAIN chain : chain[i].number = i
    BY DEF TypeOK
  <1> QED
    <2>1. /\ chain' \in Seq(Block) /\ chain' # <<>>
          /\ \A i \in DOMAIN chain' : chain'[i].number = i
      <3>1. IsChain(chain)
        BY <1>2 DEF IsChain
      <3>2. IsChain(chain') /\ chain' # <<>>
        BY <1>1, <3>1, ExtendedIsChain
      <3> QED
        BY <3>2 DEF IsChain
    <2>2. incoming \in Seq(Block) /\ lastEnd \in Block
      BY DEF TypeOK
    <2>3. incoming' = Append(incoming, block) /\ lastEnd' \in {block, lastEnd}
      BY DEF Take
    <2>4. incoming' \in Seq(Block)
      BY <2>2, <2>3, AppendProperties
    <2> QED
      BY <2>1, <2>2, <2>3, <2>4

\* Types are as declared, after every step.
LEMMA TypeStep == TypeInv /\ [Next]_vars => TypeInv'
  <1> SUFFICES ASSUME TypeInv, [Next]_vars PROVE TypeInv'
    OBVIOUS
  <1> USE DEF TypeInv
  <1>0. Slots \in Nat \ {0} /\ OtherBlocks \in Nat
    BY BuildingAssumption
  <1>1. CASE OtherBuilds
    <2> DEFINE block == [number |-> Len(chain) + 1, by |-> "other", slot |-> 0,
                         end |-> env.otherEnds /\ otherLeft = 1]
    <2>1. block \in Block /\ block.number = Len(chain) + 1
      <3>1. Len(chain) + 1 \in Nat \ {0}
        BY DEF TypeOK
      <3>2. (env.otherEnds /\ otherLeft = 1) \in BOOLEAN /\ 0 \in 0..Slots
        BY <1>0
      <3> QED
        BY <3>1, <3>2 DEF Block
    <2>2. Take(Len(chain), block)
      BY <1>1 DEF OtherBuilds
    <2> HIDE DEF block
    <2>3. otherLeft' \in 0..OtherBlocks
      BY <1>0, <1>1 DEF OtherBuilds, TypeOK
    <2>4. Len(chain) \in 0..Len(chain)
      BY DEF TypeOK
    <2> QED
      BY <1>1, <2>1, <2>2, <2>3, <2>4, TakeType
         DEF OtherBuilds, TypeOK, BuildOK, task, loop
  <1>2. CASE TrackerStep
    <2>1. CASE ReceiveHeader
      <3>1. /\ Head(incoming) \in Block /\ Tail(incoming) \in Seq(Block)
        BY <2>1, HeadTailProperties DEF ReceiveHeader, TypeOK
      <3>2. writer' \in Seq(Block) /\ Len(writer') <= 1
        BY <2>1, <3>1 DEF ReceiveHeader
      <3> QED
        BY <2>1, <3>1, <3>2 DEF ReceiveHeader, TypeOK, BuildOK, node, task, loop
    <2>2. CASE StoreHeader
      <3>1. writer[1] \in Block
        BY <2>2 DEF StoreHeader, TypeOK
      <3> QED
        BY <2>2, <3>1 DEF StoreHeader, TypeOK, BuildOK, node, task, loop
    <2> QED
      BY <1>2, <2>1, <2>2 DEF TrackerStep
  <1>3. CASE MonitorStep
    <2>1. StatusNow \in Status
      BY DEF StatusNow, Status, TypeOK
    <2> QED
      BY <1>3, <2>1 DEF MonitorStep, AskStatus, StatusFails, Compare, Wake, MonitorTimeout,
                        Finish, TypeOK, BuildOK, node, tracker, loop
  <1>4. CASE Tick
    <2>1. pc' \in {"done", "spin", "top"} /\ (pc' # "done" => slot # Slots)
      BY <1>4 DEF Tick
    <2> QED
      BY <1>0, <1>4, <2>1 DEF Tick, TypeOK, BuildOK, Building, node, tracker, task
  <1>5. CASE Spawn \/ HoldEnds \/ StartBuild
    <2>1. CASE Spawn
      BY <1>0, <2>1 DEF Spawn, TypeOK, BuildOK, Building, node, tracker
    <2>2. CASE HoldEnds
      BY <1>0, <2>2 DEF HoldEnds, TypeOK, BuildOK, Building, node, tracker, task
    <2>3. CASE StartBuild
      BY <1>0, <2>3 DEF StartBuild, TypeOK, BuildOK, Building, node, tracker, task
    <2> QED
      BY <1>5, <2>1, <2>2, <2>3
  <1>6. CASE ReadHeader \/ ReadNonce \/ ReadMempool \/ BuildFails \/ BuildTimeout
    BY <1>6 DEF ReadHeader, ReadNonce, ReadMempool, BuildFails, BuildTimeout, TypeOK,
                BuildOK, Building, node, tracker, task
  <1>7. CASE Publish
    <2> DEFINE new == [data |-> ExecutableData(parent, SignedAnchorTx(nonce)),
                       end |-> EndOfSequencing]
    <2>1. slot \in 1..Slots /\ parent \in Block /\ nonce \in Nat
      BY <1>7 DEF Publish, TypeOK, BuildOK, Building
    <2>2. SignedAnchorTx(nonce) \in AnchorTx
      BY <2>1 DEF SignedAnchorTx, AnchorTx
    <2>3. parent.number + 1 \in Nat
      BY <2>1 DEF Block
    <2>4. new \in Request /\ new.data.number = new.data.parent.number + 1
      BY <2>1, <2>2, <2>3 DEF Request, ExecutableData, EndOfSequencing
    <2>5. requests' = requests \cup {new}
      BY <1>7 DEF Publish
    <2> HIDE DEF new
    <2> QED
      BY <1>7, <2>4, <2>5 DEF Publish, TypeOK, BuildOK, Building, tracker, task
  <1>8. ASSUME NEW r \in requests, Answer(r) PROVE TypeInv'
    <2> DEFINE block == [number |-> r.data.number, by |-> "self", slot |-> r.data.slot,
                         end |-> r.end]
    <2>1. /\ r \in Request
          /\ r.data.parent \in Block /\ r.data.slot \in 1..Slots /\ r.end \in BOOLEAN
          /\ r.data.number = r.data.parent.number + 1
          /\ r.data.parent.number \in Nat \ {0}
      BY DEF Request, TypeOK, BuildOK, Block
    <2>2. block \in Block /\ block.number = r.data.parent.number + 1
      BY <1>0, <2>1 DEF Block
    <2>3. IF Fits(r.data) THEN Take(r.data.parent.number, block)
                          ELSE UNCHANGED <<chain, lastEnd, incoming>>
      BY <1>8 DEF Answer
    <2> HIDE DEF block
    <2>4. /\ chain' \in Seq(Block) /\ chain' # <<>>
          /\ \A i \in DOMAIN chain' : chain'[i].number = i
          /\ incoming' \in Seq(Block)
          /\ lastEnd' \in Block
      <3>1. CASE Fits(r.data)
        <4>1. r.data.parent.number \in 0..Len(chain)
          BY <2>1, <3>1 DEF Fits, TypeOK
        <4> QED
          BY <2>2, <2>3, <3>1, <4>1, TakeType
      <3>2. CASE ~Fits(r.data)
        BY <2>3, <3>2 DEF TypeOK
      <3> QED
        BY <3>1, <3>2
    <2>5. requests' \subseteq requests /\ pc' \in {pc, "asleep"} /\ slot' = slot
      BY <1>8 DEF Answer
    <2> QED
      BY <1>8, <2>4, <2>5 DEF Answer, TypeOK, BuildOK, Building, task
  <1>9. CASE ConfirmationSpins \/ Finished \/ UNCHANGED vars
    BY <1>9 DEF ConfirmationSpins, Finished, TypeOK, BuildOK, vars, node, tracker, task, loop
  <1> QED
    BY <1>1, <1>2, <1>3, <1>4, <1>5, <1>6, <1>7, <1>8, <1>9 DEF Next, LoopStep

\* The blocks of the node are numbered one after the other, every header in
\* flight is a block of it, and the loop builds in the slots of its window.
THEOREM TypeCorrect == Spec => []TypeOK
  <1>1. Spec => []TypeInv
    BY TypeInit, TypeStep, PTL DEF Spec
  <1> QED
    BY <1>1, PTL DEF TypeInv

-----------------------------------------------------------------------------
(* No block of this preconfer replaces another one.                        *)

Prompt == ~env.slow /\ ~env.fails

\* No block of this preconfer is later than the nonce n was read.
NoOwnAfter(n) == \A i \in Own : i <= n

\* If no build is given up and no answer lost, at most one block is on its way
\* to the node, the one the loop waits for, and it has read the nonce after the
\* one before was answered.
OneInFlight ==
    Prompt => /\ requests # {} => pc = "answer"
              /\ \A r \in requests : r.data.slot = slot /\ NoOwnAfter(r.data.first.nonce)
              /\ \A r, s \in requests : r = s
              /\ pc \in {"mempool", "publish"} => NoOwnAfter(nonce)

\* Initially there is nothing on its way.
LEMMA FlightInit == Init => OneInFlight
  BY DEF Init, OneInFlight

\* The own blocks of a chain that only got another operator's block are those
\* it had.
LEMMA OthersBlock ==
    ASSUME TypeOK, OtherBuilds
    PROVE  Own' = Own /\ KeepsItsBlocks
  <1> DEFINE block == [number |-> Len(chain) + 1, by |-> "other", slot |-> 0,
                       end |-> env.otherEnds /\ otherLeft = 1]
  <1>1. /\ chain \in Seq(Block) /\ Len(chain) \in 0..Len(chain)
        /\ \A i \in DOMAIN chain : chain[i].number = i
    BY DEF TypeOK
  <1>2. block \in Block /\ block.number = Len(chain) + 1 /\ block.by = "other"
    BY <1>1, BuildingAssumption DEF Block
  <1>3. chain' = Append(SubSeq(chain, 1, Len(chain)), block)
    BY DEF OtherBuilds, Take
  <1> HIDE DEF block
  <1>4. /\ chain' \in Seq(Block) /\ Len(chain') = Len(chain) + 1
        /\ \A i \in 1..Len(chain) : chain'[i] = chain[i]
        /\ chain'[Len(chain) + 1] = block
    BY <1>1, <1>2, <1>3, ExtendedChain
  <1> QED
    BY <1>1, <1>2, <1>4 DEF Own, KeepsItsBlocks

\* A block that is not before any of this preconfer's replaces none of them.
LEMMA OwnBlock ==
    ASSUME TypeInv, NEW r \in requests, Answer(r), NoOwnAfter(r.data.first.nonce)
    PROVE  KeepsItsBlocks
  <1>1. CASE Fits(r.data)
    <2> DEFINE n == r.data.parent.number
               block == [number |-> r.data.number, by |-> "self", slot |-> r.data.slot,
                         end |-> r.end]
    <2>1. /\ r \in Request
          /\ r.data.parent \in Block /\ r.data.slot \in 1..Slots /\ r.end \in BOOLEAN
          /\ r.data.number = r.data.parent.number + 1
          /\ r.data.parent.number \in Nat \ {0}
      BY DEF Request, TypeInv, TypeOK, BuildOK, Block
    <2>2. block \in Block /\ block.number = n + 1
      BY <2>1, BuildingAssumption DEF Block
    <2>3. chain' = Append(SubSeq(chain, 1, n), block)
      BY <1>1 DEF Answer, Take
    <2>4. /\ chain \in Seq(Block) /\ n \in 0..Len(chain)
          /\ \A i \in DOMAIN chain : chain[i].number = i
      BY <1>1, <2>1 DEF Fits, TypeInv, TypeOK
    <2>5. \A i \in Own : i \in 1..n
      BY <1>1, <2>4 DEF Fits, NoOwnAfter, Own
    <2> HIDE DEF block, n
    <2>6. chain' \in Seq(Block) /\ Len(chain') = n + 1 /\ \A i \in 1..n : chain'[i] = chain[i]
      BY <2>2, <2>3, <2>4, ExtendedChain
    <2>7. \A i \in 1..n : i \in DOMAIN chain'
      BY <2>4, <2>6
    <2> QED
      BY <2>5, <2>6, <2>7 DEF KeepsItsBlocks
  <1>2. CASE ~Fits(r.data)
    BY <1>2 DEF Answer, KeepsItsBlocks, Own
  <1> QED
    BY <1>1, <1>2

\* There is at most one block on its way, after every step.
LEMMA FlightStep == TypeInv /\ OneInFlight /\ [Next]_vars => OneInFlight'
  <1> SUFFICES ASSUME TypeInv, OneInFlight, [Next]_vars, Prompt'
               PROVE  OneInFlight'
    BY DEF OneInFlight
  <1>0. env' = env /\ Prompt
    BY DEF Next, OtherBuilds, TrackerStep, ReceiveHeader, StoreHeader, MonitorStep,
           AskStatus, StatusFails, Compare, Wake, MonitorTimeout, LoopStep, Spawn,
           HoldEnds, StartBuild, ReadHeader, ReadNonce, ReadMempool, Publish, BuildFails,
           BuildTimeout, Answer, Tick, ConfirmationSpins, Finished, vars, Prompt
  <1>1. CASE OtherBuilds
    <2>1. Own' = Own
      BY <1>1, OthersBlock DEF TypeInv
    <2> QED
      BY <1>0, <1>1, <2>1 DEF OtherBuilds, OneInFlight, NoOwnAfter, loop
  <1>2. CASE TrackerStep \/ MonitorStep \/ ConfirmationSpins
    <2>1. UNCHANGED <<chain, requests, slot, pc, nonce>>
      BY <1>2 DEF TrackerStep, ReceiveHeader, StoreHeader, MonitorStep, AskStatus,
                  StatusFails, Compare, Wake, MonitorTimeout, ConfirmationSpins, node, loop
    <2> QED
      BY <1>0, <2>1 DEF OneInFlight, NoOwnAfter, Own
  <1>3. CASE Tick \/ Spawn \/ HoldEnds \/ StartBuild \/ ReadHeader
    <2>1. /\ UNCHANGED <<chain, requests>> /\ pc # "answer"
          /\ pc' \notin {"mempool", "publish"}
      BY <1>3 DEF Tick, Spawn, HoldEnds, StartBuild, ReadHeader, node
    <2> QED
      BY <1>0, <2>1 DEF OneInFlight
  <1>4. CASE ReadNonce
    <2>1. /\ UNCHANGED <<chain, requests>> /\ pc = "nonce" /\ pc' = "mempool"
          /\ nonce' = Len(chain)
      BY <1>4 DEF ReadNonce, node
    <2>2. NoOwnAfter(nonce)'
      BY <2>1 DEF NoOwnAfter, Own, TypeInv, TypeOK
    <2> QED
      BY <1>0, <2>1, <2>2 DEF OneInFlight
  <1>5. CASE ReadMempool
    <2>1. /\ UNCHANGED <<chain, requests, nonce>> /\ pc = "mempool"
          /\ pc' \in {"asleep", "publish"}
      BY <1>5 DEF ReadMempool, node
    <2> QED
      BY <1>0, <2>1 DEF OneInFlight, NoOwnAfter, Own
  <1>6. CASE Publish
    <2> DEFINE new == [data |-> ExecutableData(parent, SignedAnchorTx(nonce)),
                       end |-> EndOfSequencing]
    <2>1. /\ UNCHANGED <<chain, slot>> /\ pc = "publish" /\ pc' = "answer"
          /\ requests' = requests \cup {new}
      BY <1>6 DEF Publish
    <2>2. new.data.slot = slot /\ new.data.first.nonce = nonce
      BY DEF ExecutableData, SignedAnchorTx
    <2> HIDE DEF new
    <2>3. requests' = {new} /\ NoOwnAfter(nonce)
      BY <1>0, <2>1 DEF OneInFlight
    <2> QED
      BY <1>0, <2>1, <2>2, <2>3 DEF OneInFlight, NoOwnAfter, Own
  <1>7. CASE BuildFails \/ BuildTimeout
    BY <1>0, <1>7 DEF BuildFails, BuildTimeout, Prompt
  <1>8. ASSUME NEW r \in requests, Answer(r) PROVE OneInFlight'
    <2>1. requests = {r} /\ pc = "answer" /\ r.data.slot = slot
      BY <1>0 DEF OneInFlight
    <2>2. requests' = {} /\ pc' = "asleep"
      BY <1>8, <2>1 DEF Answer
    <2> QED
      BY <2>2 DEF OneInFlight
  <1>9. CASE Finished \/ UNCHANGED vars
    BY <1>0, <1>9 DEF Finished, vars, node, loop, OneInFlight, NoOwnAfter, Own
  <1> QED
    BY <1>1, <1>2, <1>3, <1>4, <1>5, <1>6, <1>7, <1>8, <1>9 DEF Next, LoopStep

\* No step replaces an own block as long as there is at most one on its way.
LEMMA KeepsStep ==
    TypeInv /\ OneInFlight /\ [Next]_vars
        => [~env.slow /\ ~env.fails => KeepsItsBlocks]_vars
  <1> SUFFICES ASSUME TypeInv, OneInFlight, Next, Prompt
               PROVE  KeepsItsBlocks
    BY DEF Prompt
  <1>1. CASE OtherBuilds
    BY <1>1, OthersBlock DEF TypeInv
  <1>2. ASSUME NEW r \in requests, Answer(r) PROVE KeepsItsBlocks
    BY <1>2, OwnBlock DEF OneInFlight
  <1>3. CASE UNCHANGED chain
    BY <1>3 DEF KeepsItsBlocks, Own
  <1>4. Next => OtherBuilds \/ (\E r \in requests : Answer(r)) \/ UNCHANGED chain
    BY DEF Next, TrackerStep, ReceiveHeader, StoreHeader, MonitorStep,
           AskStatus, StatusFails, Compare, Wake, MonitorTimeout, LoopStep, Spawn,
           HoldEnds, StartBuild, ReadHeader, ReadNonce, ReadMempool, Publish, BuildFails,
           BuildTimeout, Tick, ConfirmationSpins, Finished, vars, node
  <1> QED
    BY <1>1, <1>2, <1>3, <1>4

\* A block this preconfer has published stays on the chain, for windows of any
\* length and however late the tracking loop and the preconfer before are,
\* unless one of its builds is given up or fails (build_block, get_nonce).
THEOREM KeepsItsBlocksCorrect == Spec => KeepsItsBlocksIfPrompt
  <1>1. Spec => [](TypeInv /\ OneInFlight)
    BY TypeInit, TypeStep, FlightInit, FlightStep, PTL DEF Spec
  <1> QED
    BY <1>1, KeepsStep, PTL DEF Spec, KeepsItsBlocksIfPrompt

-----------------------------------------------------------------------------
(* The first block of a window follows the end of the one before.          *)

\* A block of the preconfer before that ends its window.
EndsWindow(block) == block.by = "other" /\ block.end /\ block.number > 1

\* The header the loops know and the ones that are on their way to them.
Known ==
    {header} \cup {writer[i] : i \in DOMAIN writer}
             \cup {incoming[i] : i \in DOMAIN incoming}

\* A monitor runs, or may still be spawned.
BeforeBuilding ==
    \/ monitor # "off"
    \/ env.monitored /\ slot <= 1 /\ pc \in {"top", "hold", "spin"}

\* The flag is set exactly while a monitor runs, and the loop does not build
\* meanwhile.
FlagTrue ==
    /\ waiting <=> monitor # "off"
    /\ monitor # "off" => env.monitored /\ slot > 0 /\ pc \in {"hold", "spin"}
    /\ pc = "hold" => slot = 1 /\ env.monitored
    /\ pc = "spin" => slot > 0 /\ env.monitored
    /\ slot = 0 => pc = "top"

\* What the status endpoint names as an end is one.
StatusEnds == lastEnd.end /\ status.end.end

\* Until the loop builds the chain is the other preconfer's, its last block is
\* the only one that may end its window, and it does if one on its way does.
NothingBuilt ==
    BeforeBuilding =>
        /\ requests = {} /\ Own = {}
        /\ \A block \in Known :
              block.by # "self" /\ (EndsWindow(block) => EndsWindow(NodeHead))
        /\ \A i \in DOMAIN chain :
              EndsWindow(chain[i]) => i = Len(chain) /\ otherLeft = 0

\* The end of the window before comes after all of its blocks.
EndComesLast ==
    /\ otherLeft > 0 => \A block \in Known : ~EndsWindow(block)
    /\ EndsWindow(header) => \A i \in DOMAIN writer : writer[i].by = "self"
    /\ \/ ~EndsWindow(header) /\ \A i \in DOMAIN writer : ~EndsWindow(writer[i])
       \/ \A i \in DOMAIN incoming : incoming[i].by = "self"
    /\ \A i, j \in DOMAIN incoming :
          i < j /\ EndsWindow(incoming[i]) => incoming[j].by = "self"
    /\ ~env.startEnds => \A block \in Known :
          block.end /\ block.by # "self" => EndsWindow(block)

EndOrOwn(block) == EndsWindow(block) \/ block.by = "self"

\* Once the monitor has found itself in sync there are own blocks only after
\* the end, and the loop knows of nothing earlier.
BuildsOnEnd ==
    synced /\ ~env.startEnds =>
        /\ otherLeft = 0
        /\ \A block \in Known : EndOrOwn(block)
        /\ pc \in {"nonce", "mempool", "publish"} => EndOrOwn(parent)
        /\ \A r \in requests : EndOrOwn(r.data.parent)
        /\ \E k \in DOMAIN chain :
              /\ EndsWindow(chain[k])
              /\ \A i \in DOMAIN chain : i < k => ~EndOrOwn(chain[i])
              /\ \A i \in DOMAIN chain : i > k => chain[i].by = "self"

SyncInv ==
    FlagTrue /\ StatusEnds /\ NothingBuilt /\ EndComesLast /\ BuildsOnEnd

\* Initially nothing is built and nothing in sync.
LEMMA SyncInit == Init => SyncInv
  <1> SUFFICES ASSUME Init PROVE SyncInv
    OBVIOUS
  <1> DEFINE start == [number |-> 1, by |-> "before", slot |-> 0, end |-> env.startEnds]
  <1>1. /\ chain = <<start>> /\ header = start /\ incoming = <<>> /\ writer = <<>>
        /\ lastEnd = IF env.startEnds THEN start ELSE LongAgo
    BY DEF Init
  <1>2. start.number = 1 /\ start.by = "before" /\ start.end = env.startEnds
    OBVIOUS
  <1> HIDE DEF start
  <1>3. Known = {start} /\ Own = {} /\ ~EndsWindow(start)
    BY <1>1, <1>2 DEF Known, Own, EndsWindow
  <1>4. FlagTrue /\ BuildsOnEnd
    BY DEF Init, FlagTrue, BuildsOnEnd
  <1>5. StatusEnds
    BY <1>1, <1>2 DEF Init, StatusEnds, LongAgo
  <1>6. NothingBuilt
    BY <1>1, <1>2, <1>3 DEF Init, NothingBuilt
  <1>7. EndComesLast
    BY <1>1, <1>2, <1>3 DEF Init, EndComesLast
  <1> QED
    BY <1>4, <1>5, <1>6, <1>7 DEF SyncInv

\* Steps that touch neither the node's chain nor the deliveries.
LEMMA SameDeliveries ==
    ASSUME EndComesLast, NothingBuilt, UNCHANGED <<env, chain, otherLeft, tracker>>,
           BeforeBuilding' => BeforeBuilding /\ requests' = requests
    PROVE  EndComesLast' /\ NothingBuilt' /\ Known' = Known
  <1>1. Known' = Known
    BY DEF Known, tracker
  <1>2. EndComesLast'
    BY <1>1 DEF EndComesLast, EndsWindow, tracker
  <1>3. NothingBuilt'
    BY <1>1 DEF NothingBuilt, EndsWindow, Own, NodeHead
  <1> QED
    BY <1>1, <1>2, <1>3

\* Steps that moreover read no header.
LEMMA SameParents ==
    ASSUME BuildsOnEnd, UNCHANGED <<env, chain, otherLeft, tracker, synced>>,
           requests' \subseteq requests, parent' = parent,
           pc' \in {"nonce", "mempool", "publish"} => pc \in {"nonce", "mempool", "publish"}
    PROVE  BuildsOnEnd'
  <1>1. Known' = Known
    BY DEF Known, tracker
  <1> QED
    BY <1>1 DEF BuildsOnEnd, EndOrOwn, EndsWindow

\* A block that the node takes is delivered after all others.
LEMMA TakeKnown ==
    ASSUME TypeOK, NEW n, NEW block \in Block, Take(n, block), UNCHANGED <<writer, header>>
    PROVE  /\ Known' = Known \cup {block}
           /\ Len(incoming') = Len(incoming) + 1
           /\ \A i \in DOMAIN incoming : i \in DOMAIN incoming' /\ incoming'[i] = incoming[i]
           /\ \A i \in DOMAIN incoming' :
                 i \in DOMAIN incoming \/ (i = Len(incoming) + 1 /\ incoming'[i] = block)
           /\ incoming'[Len(incoming) + 1] = block
           /\ Len(incoming) + 1 \in DOMAIN incoming'
  <1>1. incoming' = Append(incoming, block) /\ incoming \in Seq(Block)
    BY DEF Take, TypeOK
  <1>2. /\ incoming' \in Seq(Block) /\ Len(incoming') = Len(incoming) + 1
        /\ \A i \in 1..Len(incoming) : incoming'[i] = incoming[i]
        /\ incoming'[Len(incoming) + 1] = block
    BY <1>1, AppendProperties
  <1>3. DOMAIN incoming = 1..Len(incoming) /\ DOMAIN incoming' = 1..(Len(incoming) + 1)
        /\ Len(incoming) \in Nat
    BY <1>1, <1>2
  <1> QED
    BY <1>2, <1>3 DEF Known

\* A block of the preconfer before.
LEMMA SyncOther ==
    ASSUME TypeInv, SyncInv, OtherBuilds
    PROVE  SyncInv'
  <1> DEFINE block == [number |-> Len(chain) + 1, by |-> "other", slot |-> 0,
                       end |-> env.otherEnds /\ otherLeft = 1]
  <1>1. /\ chain \in Seq(Block) /\ Len(chain) \in Nat /\ Len(chain) \in 0..Len(chain)
        /\ chain # <<>> /\ \A i \in DOMAIN chain : chain[i].number = i
    BY DEF TypeInv, TypeOK
  <1>2. /\ block \in Block /\ block.number = Len(chain) + 1 /\ block.by = "other"
        /\ block.end => otherLeft = 1
    <2>1. block \in Block /\ block.number = Len(chain) + 1 /\ block.by = "other"
      BY <1>1, BuildingAssumption DEF Block
    <2>2. block.end = (env.otherEnds /\ otherLeft = 1)
      OBVIOUS
    <2> QED
      BY <2>1, <2>2
  <1>3. Take(Len(chain), block)
    BY DEF OtherBuilds
  <1> HIDE DEF block
  <1>4. /\ otherLeft > 0 /\ otherLeft' = otherLeft - 1
        /\ UNCHANGED <<env, requests, writer, header, task, loop>>
    BY DEF OtherBuilds
  <1>5. /\ chain' \in Seq(Block) /\ Len(chain') = Len(chain) + 1
        /\ \A i \in 1..Len(chain) : chain'[i] = chain[i]
        /\ chain'[Len(chain) + 1] = block
    BY <1>1, <1>2, <1>3, ExtendedChain DEF Take
  <1>6. NodeHead' = block /\ Own' = Own
    BY <1>1, <1>2, <1>5 DEF NodeHead, Own
  <1>7. /\ Known' = Known \cup {block}
        /\ Len(incoming') = Len(incoming) + 1
        /\ \A i \in DOMAIN incoming : i \in DOMAIN incoming' /\ incoming'[i] = incoming[i]
        /\ \A i \in DOMAIN incoming' :
              i \in DOMAIN incoming \/ (i = Len(incoming) + 1 /\ incoming'[i] = block)
    BY <1>2, <1>3, <1>4, TakeKnown DEF TypeInv
  <1>8. otherLeft \in Nat /\ \A b \in Known : ~EndsWindow(b)
    BY <1>4, BuildingAssumption DEF TypeInv, TypeOK, SyncInv, EndComesLast
  <1>9. /\ ~EndsWindow(header)
        /\ \A i \in DOMAIN writer : ~EndsWindow(writer[i])
        /\ \A i \in DOMAIN incoming : ~EndsWindow(incoming[i])
    BY <1>8 DEF Known
  <1>10. FlagTrue'
    BY <1>4 DEF SyncInv, FlagTrue, task, loop
  <1>11. StatusEnds'
    BY <1>3, <1>4 DEF SyncInv, StatusEnds, Take, task
  <1>12. NothingBuilt'
    <2>1. SUFFICES ASSUME BeforeBuilding' PROVE NothingBuilt'
      BY DEF NothingBuilt
    <2>2. BeforeBuilding
      BY <1>4, <2>1 DEF BeforeBuilding, task, loop
    <2>3. /\ requests = {} /\ Own = {} /\ \A b \in Known : b.by # "self"
      BY <2>2 DEF SyncInv, NothingBuilt
    <2>4. \A i \in DOMAIN chain : ~EndsWindow(chain[i])
      BY <1>4, <2>2 DEF SyncInv, NothingBuilt
    <2>5. requests' = {} /\ Own' = {}
      BY <1>4, <1>6, <2>3
    <2>6. \A b \in Known' : b.by # "self" /\ (EndsWindow(b) => EndsWindow(block))
      BY <1>2, <1>7, <1>8, <2>3
    <2>7. ASSUME NEW i \in DOMAIN chain', EndsWindow(chain'[i])
          PROVE  i = Len(chain') /\ otherLeft' = 0
      <3>1. i = Len(chain) + 1
        BY <1>1, <1>5, <2>4, <2>7
      <3> QED
        BY <1>2, <1>4, <1>5, <2>7, <3>1 DEF EndsWindow
    <2> QED
      BY <1>6, <2>5, <2>6, <2>7 DEF NothingBuilt, EndsWindow
  <1>13. EndComesLast'
    <2>1. otherLeft' > 0 => \A b \in Known' : ~EndsWindow(b)
      BY <1>2, <1>4, <1>7, <1>8 DEF EndsWindow
    <2>2. ~EndsWindow(header)' /\ \A i \in DOMAIN writer' : ~EndsWindow(writer'[i])
      BY <1>4, <1>9 DEF EndsWindow
    <2>3. ASSUME NEW i \in DOMAIN incoming', NEW j \in DOMAIN incoming', i < j,
                 EndsWindow(incoming'[i])
          PROVE  FALSE
      <3>1. i = Len(incoming) + 1
        BY <1>7, <1>9, <2>3
      <3>2. j \in 1..Len(incoming) + 1 /\ Len(incoming) \in Nat
        BY <1>3, <1>7 DEF TypeInv, TypeOK, Take
      <3> QED
        BY <2>3, <3>1, <3>2
    <2>4. ~env.startEnds' => \A b \in Known' : b.end /\ b.by # "self" => EndsWindow(b)
      <3>1. Len(chain) + 1 > 1
        BY <1>1
      <3> QED
        BY <1>2, <1>4, <1>7, <3>1 DEF SyncInv, EndComesLast, EndsWindow
    <2> QED
      BY <2>1, <2>2, <2>3, <2>4 DEF EndComesLast, EndsWindow
  <1>14. BuildsOnEnd'
    BY <1>4 DEF SyncInv, BuildsOnEnd, task
  <1> QED
    BY <1>10, <1>11, <1>12, <1>13, <1>14 DEF SyncInv

\* The tracking loop takes a header from the stream, in order, and stores it.
LEMMA SyncTracker ==
    ASSUME TypeInv, SyncInv, TrackerStep
    PROVE  SyncInv'
  <1>1. UNCHANGED <<env, node, task, loop>>
    BY DEF TrackerStep, ReceiveHeader, StoreHeader
  <1>2. FlagTrue' /\ StatusEnds'
    BY <1>1 DEF SyncInv, FlagTrue, StatusEnds, node, task, loop
  <1>3. Known' \subseteq Known /\ EndComesLast'
    <2>1. CASE ReceiveHeader
      <3>1. /\ incoming \in Seq(Block) /\ incoming # <<>> /\ writer = <<>>
            /\ writer' = <<Head(incoming)>> /\ incoming' = Tail(incoming)
            /\ header' = header
        BY <2>1 DEF ReceiveHeader, TypeInv, TypeOK
      <3>2. /\ Head(incoming) = incoming[1] /\ 1 \in DOMAIN incoming
            /\ Len(incoming') = Len(incoming) - 1 /\ Len(incoming) \in Nat
            /\ \A i \in DOMAIN incoming' :
                  /\ i \in Nat \ {0}
                  /\ i + 1 \in DOMAIN incoming /\ incoming'[i] = incoming[i + 1]
        BY <3>1, HeadTailProperties
      <3>3. DOMAIN writer' = {1} /\ writer'[1] = incoming[1] /\ DOMAIN writer = {}
        BY <3>1, <3>2
      <3>4. Known' \subseteq Known
        BY <3>1, <3>2, <3>3 DEF Known
      <3>5. EndsWindow(header)' => \A i \in DOMAIN writer' : writer'[i].by = "self"
        BY <3>1, <3>2, <3>3 DEF SyncInv, EndComesLast, EndsWindow
      <3>6. \/ ~EndsWindow(header)' /\ \A i \in DOMAIN writer' : ~EndsWindow(writer'[i])
            \/ \A i \in DOMAIN incoming' : incoming'[i].by = "self"
        <4>1. CASE EndsWindow(header)
          BY <3>2, <4>1 DEF SyncInv, EndComesLast
        <4>2. CASE EndsWindow(incoming[1])
          <5>1. \A i \in DOMAIN incoming' : 1 < i + 1
            BY <3>2
          <5> QED
            BY <3>2, <4>2, <5>1 DEF SyncInv, EndComesLast
        <4>3. CASE ~EndsWindow(header) /\ ~EndsWindow(incoming[1])
          BY <3>1, <3>3, <4>3 DEF EndsWindow
        <4> QED
          BY <4>1, <4>2, <4>3
      <3>7. ASSUME NEW i \in DOMAIN incoming', NEW j \in DOMAIN incoming',
                   i < j, EndsWindow(incoming'[i])
            PROVE  incoming'[j].by = "self"
        <4>1. i + 1 < j + 1
          BY <3>2, <3>7
        <4> QED
          BY <3>2, <3>7, <4>1 DEF SyncInv, EndComesLast
      <3>8. otherLeft' = otherLeft /\ env' = env
        BY <1>1 DEF node
      <3>9. /\ otherLeft' > 0 => \A b \in Known' : ~EndsWindow(b)
            /\ ~env'.startEnds => \A b \in Known' : b.end /\ b.by # "self" => EndsWindow(b)
        BY <3>4, <3>8 DEF SyncInv, EndComesLast
      <3> QED
        BY <3>4, <3>5, <3>6, <3>7, <3>9 DEF EndComesLast, EndsWindow
    <2>2. CASE StoreHeader
      <3>1. /\ header' = writer[1] /\ writer' = <<>> /\ incoming' = incoming
            /\ 1 \in DOMAIN writer
        BY <2>2 DEF StoreHeader, TypeInv, TypeOK
      <3>2. Known' \subseteq Known
        BY <3>1 DEF Known
      <3>3. otherLeft' = otherLeft /\ env' = env
        BY <1>1 DEF node
      <3> QED
        BY <3>1, <3>2, <3>3 DEF SyncInv, EndComesLast, EndsWindow
    <2> QED
      BY <2>1, <2>2 DEF TrackerStep
  <1>4. NothingBuilt' /\ BuildsOnEnd'
    BY <1>1, <1>3 DEF SyncInv, NothingBuilt, BuildsOnEnd, BeforeBuilding, Own, NodeHead,
                      EndOrOwn, EndsWindow, node, task, loop
  <1> QED
    BY <1>2, <1>3, <1>4 DEF SyncInv

\* The monitor compares: if it finds itself in sync with a header that ends a
\* window, it is the end of the window before this one.
LEMMA SyncCompare ==
    ASSUME TypeInv, SyncInv, Compare
    PROVE  SyncInv'
  <1>1. /\ monitor = "locking" /\ writer = <<>>
        /\ UNCHANGED <<env, node, tracker, status, loop>>
    BY DEF Compare
  <1>2. BeforeBuilding /\ requests = {} /\ Own = {} /\ FlagTrue
    BY <1>1 DEF SyncInv, BeforeBuilding, NothingBuilt
  <1>3. FlagTrue' /\ StatusEnds'
    BY <1>1 DEF SyncInv, FlagTrue, StatusEnds, Compare, Finish, node, loop
  <1>4. EndComesLast' /\ NothingBuilt' /\ Known' = Known
    BY <1>1, <1>2, SameDeliveries DEF SyncInv, node, loop
  <1>5. CASE synced' = synced
    <2>1. BuildsOnEnd'
      BY <1>1, <1>5, SameParents DEF SyncInv, node, loop
    <2> QED
      BY <1>3, <1>4, <2>1 DEF SyncInv
  <1>6. CASE Ready(status, header) /\ ~env.startEnds
    <2>1. header \in Known /\ header.end /\ header.by # "self" /\ header \in Block
      BY <1>2, <1>6 DEF SyncInv, StatusEnds, Ready, Known, NothingBuilt, TypeInv, TypeOK
    <2>2. EndsWindow(header)
      BY <1>6, <2>1 DEF SyncInv, EndComesLast
    <2>3. EndsWindow(NodeHead) /\ otherLeft = 0
      <3>1. EndsWindow(NodeHead)
        BY <1>2, <2>1, <2>2 DEF SyncInv, NothingBuilt
      <3>2. otherLeft \in Nat /\ ~(otherLeft > 0)
        BY <2>1, <2>2, BuildingAssumption DEF SyncInv, EndComesLast, TypeInv, TypeOK
      <3> QED
        BY <3>1, <3>2
    <2>4. /\ chain \in Seq(Block) /\ Len(chain) \in DOMAIN chain
          /\ \A i \in DOMAIN chain : i <= Len(chain) /\ i \in Nat
          /\ Len(chain) \in Nat
      BY DEF TypeInv, TypeOK
    <2>5. \A i \in DOMAIN chain : i < Len(chain) => ~EndOrOwn(chain[i])
      BY <1>2, <2>4 DEF SyncInv, NothingBuilt, EndOrOwn, Own
    <2>6. \A b \in Known : EndOrOwn(b)
      <3>1. \A i \in DOMAIN incoming : incoming[i].by = "self"
        BY <2>2 DEF SyncInv, EndComesLast
      <3> QED
        BY <1>1, <2>2, <3>1 DEF Known, EndOrOwn
    <2>7. pc \in {"hold", "spin"}
      BY <1>1, <1>2 DEF FlagTrue
    <2>8. EndsWindow(chain[Len(chain)]) /\ \A i \in DOMAIN chain : ~(i > Len(chain))
      BY <2>3, <2>4 DEF NodeHead
    <2> QED
      <3>1. /\ chain' = chain /\ otherLeft' = otherLeft /\ requests' = {} /\ pc' = pc
            /\ Known' = Known
        BY <1>1, <1>2, <1>4 DEF node, loop
      <3>2. BuildsOnEnd'
        BY <2>3, <2>4, <2>5, <2>6, <2>7, <2>8, <3>1 DEF BuildsOnEnd, EndOrOwn, EndsWindow
      <3> QED
        BY <1>3, <1>4, <3>2 DEF SyncInv
  <1>7. CASE env.startEnds
    <2>1. BuildsOnEnd'
      BY <1>1, <1>7 DEF BuildsOnEnd
    <2> QED
      BY <1>3, <1>4, <2>1 DEF SyncInv
  <1> QED
    BY <1>5, <1>6, <1>7 DEF Compare

\* A block of this preconfer.
LEMMA SyncAnswer ==
    ASSUME TypeInv, SyncInv, NEW r \in requests, Answer(r)
    PROVE  SyncInv'
  <1>1. /\ UNCHANGED <<env, otherLeft, writer, header, task, slot, parent, nonce>>
        /\ requests' \subseteq requests /\ pc' \in {pc, "asleep"}
        /\ pc' = "asleep" => pc \in {pc', "answer"}
    BY DEF Answer
  <1>2. ~BeforeBuilding
    BY DEF SyncInv, NothingBuilt
  <1>3. ~BeforeBuilding' /\ NothingBuilt'
    BY <1>1, <1>2 DEF BeforeBuilding, NothingBuilt, task
  <1>4. FlagTrue'
    BY <1>1, <1>2 DEF SyncInv, FlagTrue, BeforeBuilding, task
  <1>5. CASE ~Fits(r.data)
    <2>1. UNCHANGED <<chain, lastEnd, incoming>>
      BY <1>5 DEF Answer
    <2>2. UNCHANGED <<env, chain, otherLeft, tracker, synced, status>>
      BY <1>1, <2>1 DEF tracker, task
    <2>3. EndComesLast' /\ BuildsOnEnd'
      BY <1>1, <1>3, <2>2, SameDeliveries, SameParents DEF SyncInv
    <2>4. StatusEnds'
      BY <2>1, <2>2 DEF SyncInv, StatusEnds
    <2> QED
      BY <1>3, <1>4, <2>3, <2>4 DEF SyncInv
  <1>6. CASE Fits(r.data)
    <2> DEFINE n == r.data.parent.number
               block == [number |-> r.data.number, by |-> "self", slot |-> r.data.slot,
                         end |-> r.end]
    <2>1. /\ r \in Request
          /\ r.data.parent \in Block /\ r.data.slot \in 1..Slots /\ r.end \in BOOLEAN
          /\ r.data.number = r.data.parent.number + 1
          /\ r.data.parent.number \in Nat \ {0}
      BY DEF Request, TypeInv, TypeOK, BuildOK, Block
    <2>2. block \in Block /\ block.number = n + 1 /\ block.by = "self"
      BY <2>1, BuildingAssumption DEF Block
    <2>3. Take(n, block)
      BY <1>6 DEF Answer
    <2>4. /\ chain \in Seq(Block) /\ n \in 1..Len(chain) /\ chain[n] = r.data.parent
          /\ \A i \in DOMAIN chain : chain[i].number = i
      BY <1>6, <2>1 DEF Fits, TypeInv, TypeOK
    <2> HIDE DEF block, n
    <2>5. /\ Len(chain') = n + 1 /\ chain' \in Seq(Block)
          /\ \A i \in 1..n : chain'[i] = chain[i]
          /\ chain'[n + 1] = block
      BY <2>2, <2>3, <2>4, ExtendedChain DEF Take
    <2>6. /\ Known' = Known \cup {block}
          /\ \A i \in DOMAIN incoming : i \in DOMAIN incoming' /\ incoming'[i] = incoming[i]
          /\ \A i \in DOMAIN incoming' :
                i \in DOMAIN incoming \/ incoming'[i] = block
      BY <1>1, <2>2, <2>3, TakeKnown DEF TypeInv
    <2>7. StatusEnds'
      BY <1>1, <2>3 DEF SyncInv, StatusEnds, Take, task
    <2>8. EndComesLast'
      <3>1. ~EndsWindow(block)
        BY <2>2 DEF EndsWindow
      <3>2. ASSUME NEW i \in DOMAIN incoming', NEW j \in DOMAIN incoming',
                   i < j, EndsWindow(incoming'[i])
            PROVE  incoming'[j].by = "self"
        BY <2>2, <2>6, <3>1, <3>2 DEF SyncInv, EndComesLast
      <3>3. /\ otherLeft' > 0 => \A b \in Known' : ~EndsWindow(b)
            /\ ~env'.startEnds => \A b \in Known' : b.end /\ b.by # "self" => EndsWindow(b)
        BY <1>1, <2>2, <2>6, <3>1 DEF SyncInv, EndComesLast
      <3>4. /\ EndsWindow(header)' => \A i \in DOMAIN writer' : writer'[i].by = "self"
            /\ \/ ~EndsWindow(header)' /\ \A i \in DOMAIN writer' : ~EndsWindow(writer'[i])
               \/ \A i \in DOMAIN incoming' : incoming'[i].by = "self"
        BY <1>1, <2>2, <2>6 DEF SyncInv, EndComesLast, EndsWindow
      <3> QED
        BY <3>2, <3>3, <3>4 DEF EndComesLast, EndsWindow
    <2>9. BuildsOnEnd'
      <3>1. SUFFICES ASSUME synced, ~env.startEnds PROVE BuildsOnEnd'
        BY <1>1 DEF BuildsOnEnd, task
      <3>2. PICK k \in DOMAIN chain :
               /\ EndsWindow(chain[k])
               /\ \A i \in DOMAIN chain : i < k => ~EndOrOwn(chain[i])
               /\ \A i \in DOMAIN chain : i > k => chain[i].by = "self"
        BY <3>1 DEF SyncInv, BuildsOnEnd
      <3>3. n \in DOMAIN chain /\ ~(n < k) /\ n \in Nat /\ k \in Nat \ {0}
        BY <2>4, <3>1, <3>2 DEF SyncInv, BuildsOnEnd
      <3>4. DOMAIN chain' = 1..(n + 1) /\ k \in 1..n /\ 1..n \subseteq DOMAIN chain
        BY <2>4, <2>5, <3>3
      <3>5. /\ EndsWindow(chain'[k])
            /\ \A i \in DOMAIN chain' : i < k => ~EndOrOwn(chain'[i])
        BY <2>5, <3>2, <3>3, <3>4
      <3>6. ASSUME NEW i \in DOMAIN chain', i > k PROVE chain'[i].by = "self"
        <4>1. CASE i = n + 1
          BY <2>2, <2>5, <4>1
        <4>2. CASE i \in 1..n
          BY <2>5, <3>2, <3>4, <3>6, <4>2
        <4> QED
          BY <3>3, <3>4, <4>1, <4>2
      <3>7. \A b \in Known' : EndOrOwn(b)
        BY <2>2, <2>6, <3>1 DEF SyncInv, BuildsOnEnd, EndOrOwn
      <3>8. /\ otherLeft' = 0
            /\ pc' \in {"nonce", "mempool", "publish"} => EndOrOwn(parent')
            /\ \A q \in requests' : EndOrOwn(q.data.parent)
        BY <1>1, <3>1 DEF SyncInv, BuildsOnEnd
      <3>9. k \in DOMAIN chain'
        BY <3>3, <3>4
      <3> QED
        BY <3>5, <3>6, <3>7, <3>8, <3>9 DEF BuildsOnEnd, EndOrOwn, EndsWindow
    <2> QED
      BY <1>3, <1>4, <2>7, <2>8, <2>9 DEF SyncInv
  <1> QED
    BY <1>5, <1>6

\* Whatever else happens.
LEMMA SyncStep == TypeInv /\ SyncInv /\ [Next]_vars => SyncInv'
  <1> SUFFICES ASSUME TypeInv, SyncInv, [Next]_vars PROVE SyncInv'
    OBVIOUS
  <1>0. Slots \in Nat \ {0} /\ Buffer \in Nat /\ Buffer < Slots /\ slot \in Nat
    BY BuildingAssumption DEF TypeInv, TypeOK
  <1>1. CASE AskStatus \/ StatusFails \/ Wake \/ MonitorTimeout
    <2>1. UNCHANGED <<env, node, tracker, synced, loop>> /\ monitor # "off"
      BY <1>1 DEF AskStatus, StatusFails, Wake, MonitorTimeout
    <2>2. FlagTrue' /\ StatusEnds'
      BY <1>1, <2>1 DEF SyncInv, FlagTrue, StatusEnds, StatusNow, AskStatus, StatusFails,
                        Wake, MonitorTimeout, Finish, node, loop
    <2>3. EndComesLast' /\ NothingBuilt' /\ BuildsOnEnd'
      BY <2>1, SameDeliveries, SameParents DEF SyncInv, BeforeBuilding, node, loop
    <2> QED
      BY <2>2, <2>3 DEF SyncInv
  <1>2. CASE Tick
    <2>1. /\ UNCHANGED <<env, node, tracker, task, parent>> /\ slot' = slot + 1
          /\ pc \in {"asleep", "top", "hold", "spin"} /\ pc' \in {"done", "top", "spin"}
          /\ waiting => slot <= Buffer
          /\ pc' = "spin" => pc \in {"hold", "spin"}
          /\ slot = Slots <=> pc' = "done"
          /\ pc \in {"hold", "spin"} => pc' \in {"done", "spin"}
          /\ pc = "top" => slot = 0
      BY <1>2 DEF Tick
    <2>2. FlagTrue' /\ StatusEnds'
      BY <1>0, <2>1 DEF SyncInv, FlagTrue, StatusEnds, node, task
    <2>3. BeforeBuilding' => BeforeBuilding
      BY <1>0, <2>1 DEF SyncInv, FlagTrue, BeforeBuilding, task
    <2>4. EndComesLast' /\ NothingBuilt' /\ BuildsOnEnd'
      BY <2>1, <2>3, SameDeliveries, SameParents DEF SyncInv, node, task
    <2> QED
      BY <2>2, <2>4 DEF SyncInv
  <1>3. CASE Spawn \/ HoldEnds \/ StartBuild
    <2>1. /\ UNCHANGED <<env, node, tracker, synced, status, slot, parent>>
          /\ pc \in {"top", "hold", "spin"} /\ pc' \in {"hold", "spin", "header"}
      BY <1>3 DEF Spawn, HoldEnds, StartBuild, task
    <2>2. FlagTrue' /\ StatusEnds'
      BY <1>0, <1>3, <2>1 DEF SyncInv, FlagTrue, StatusEnds, Spawn, HoldEnds, StartBuild,
                              node, task
    <2>3. BeforeBuilding' => BeforeBuilding
      BY <1>0, <1>3, <2>1 DEF SyncInv, FlagTrue, BeforeBuilding, Spawn, HoldEnds,
                              StartBuild, task
    <2>4. EndComesLast' /\ NothingBuilt' /\ BuildsOnEnd'
      BY <2>1, <2>3, SameDeliveries, SameParents DEF SyncInv, node
    <2> QED
      BY <2>2, <2>4 DEF SyncInv
  <1>4. CASE ReadHeader \/ Publish
    <2>1. /\ UNCHANGED <<env, chain, lastEnd, otherLeft, tracker, task, slot>>
          /\ pc \in {"header", "publish"} /\ pc' \in {"nonce", "answer"}
      BY <1>4 DEF ReadHeader, Publish, node
    <2>2. FlagTrue' /\ StatusEnds'
      BY <2>1 DEF SyncInv, FlagTrue, StatusEnds, task
    <2>3. ~BeforeBuilding'
      BY <2>1 DEF SyncInv, FlagTrue, BeforeBuilding, task
    <2>4. EndComesLast' /\ NothingBuilt' /\ Known' = Known
      BY <2>1, <2>3, SameDeliveries DEF SyncInv
    <2>5. BuildsOnEnd'
      <3>1. SUFFICES ASSUME synced, ~env.startEnds PROVE BuildsOnEnd'
        BY <2>1 DEF BuildsOnEnd, task
      <3>2. BuildsOnEnd /\ \A b \in Known : EndOrOwn(b)
        BY <3>1 DEF SyncInv, BuildsOnEnd
      <3>3. pc' \in {"nonce", "mempool", "publish"} => EndOrOwn(parent')
        BY <1>4, <3>2 DEF ReadHeader, Publish, Known
      <3>4. \A r \in requests' : EndOrOwn(r.data.parent)
        BY <1>4, <3>1, <3>2 DEF ReadHeader, Publish, node, BuildsOnEnd, ExecutableData
      <3> QED
        BY <2>1, <2>4, <3>1, <3>2, <3>3, <3>4 DEF BuildsOnEnd, EndOrOwn, EndsWindow
    <2> QED
      BY <2>2, <2>4, <2>5 DEF SyncInv
  <1>5. CASE ReadNonce \/ ReadMempool \/ BuildFails \/ BuildTimeout
    <2>1. /\ UNCHANGED <<env, node, tracker, task, slot, parent>>
          /\ pc \in Building /\ pc' \in {"mempool", "publish", "asleep"}
          /\ pc' # "asleep" => pc \in {"nonce", "mempool"}
      BY <1>5 DEF ReadNonce, ReadMempool, BuildFails, BuildTimeout, Building
    <2>2. FlagTrue' /\ StatusEnds'
      BY <2>1 DEF SyncInv, FlagTrue, StatusEnds, Building, node, task
    <2>3. ~BeforeBuilding'
      BY <2>1 DEF SyncInv, FlagTrue, BeforeBuilding, Building, task
    <2>4. EndComesLast' /\ NothingBuilt' /\ BuildsOnEnd'
      BY <2>1, <2>3, SameDeliveries, SameParents DEF SyncInv, node, task
    <2> QED
      BY <2>2, <2>4 DEF SyncInv
  <1>6. CASE ConfirmationSpins \/ Finished \/ UNCHANGED vars
    <2>1. UNCHANGED <<env, node, tracker, monitor, status, synced, waiting, loop>>
      BY <1>6 DEF ConfirmationSpins, Finished, vars, task
    <2>2. FlagTrue' /\ StatusEnds'
      BY <2>1 DEF SyncInv, FlagTrue, StatusEnds, node, loop
    <2>3. EndComesLast' /\ NothingBuilt' /\ BuildsOnEnd'
      BY <2>1, SameDeliveries, SameParents DEF SyncInv, BeforeBuilding, node, loop
    <2> QED
      BY <2>2, <2>3 DEF SyncInv
  <1> QED
    BY <1>1, <1>2, <1>3, <1>4, <1>5, <1>6, SyncOther, SyncTracker, SyncCompare, SyncAnswer
       DEF Next, MonitorStep, LoopStep

\* Own blocks after the end only: the first one follows it.
LEMMA FirstFollowsEnd == TypeInv /\ SyncInv => BuildsOnEndIfSynced
  <1> SUFFICES ASSUME TypeInv, SyncInv, synced, ~env.startEnds,
                      NEW i \in Own, (i - 1) \notin Own
               PROVE  chain[i - 1].end
    BY DEF BuildsOnEndIfSynced
  <1>1. PICK k \in DOMAIN chain :
           /\ EndsWindow(chain[k])
           /\ \A j \in DOMAIN chain : j < k => ~EndOrOwn(chain[j])
           /\ \A j \in DOMAIN chain : j > k => chain[j].by = "self"
    BY DEF SyncInv, BuildsOnEnd
  <1>2. /\ DOMAIN chain = 1..Len(chain) /\ Len(chain) \in Nat
        /\ i \in DOMAIN chain /\ chain[i].by = "self"
    BY DEF TypeInv, TypeOK, Own
  <1>3. i > k
    BY <1>1, <1>2 DEF EndOrOwn, EndsWindow
  <1>4. i - 1 \in DOMAIN chain /\ i - 1 >= k /\ chain[i - 1].by # "self"
    BY <1>1, <1>2, <1>3 DEF Own
  <1>5. i - 1 = k
    BY <1>1, <1>2, <1>4
  <1> QED
    BY <1>1, <1>5 DEF EndsWindow

\* Where the monitor has found itself in sync, the first block of the window is
\* built on the end of the window before: for windows, buffers and preconfers
\* before of any length, late blocks, lagging headers, failing calls and builds
\* that are given up (ready(), build_block).
THEOREM BuildsOnEndCorrect == Spec => []BuildsOnEndIfSynced
  <1>1. Spec => [](TypeInv /\ SyncInv)
    BY TypeInit, TypeStep, SyncInit, SyncStep, PTL DEF Spec
  <1> QED
    BY <1>1, FirstFollowsEnd, PTL
-----------------------------------------------------------------------------
(* A calm window ends with the mark.                                       *)

\* The newest block that the tracking loop has stored or is to store.
Newest ==
    IF incoming # <<>> THEN incoming[Len(incoming)]
    ELSE IF writer # <<>> THEN writer[1]
    ELSE header

\* All that is delivered is stored, so that the header is the one of the node.
Delivered == incoming = <<>> /\ writer = <<>>

\* In a calm window every iteration begins with the newest header and ends with
\* the block built on it: the request that is on its way fits.
CalmInv ==
    Calm /\ ~env.monitored =>
        /\ slot > 0 => otherLeft = 0
        /\ slot = 0 => pc = "top"
        /\ slot > 0 /\ pc \notin {"asleep", "done"} => Delivered
        /\ pc \in {"nonce", "mempool", "publish"} => parent = NodeHead
        /\ pc \in {"mempool", "publish"} => nonce = Len(chain)
        /\ \A r \in requests :
              /\ r.data.parent = NodeHead /\ r.data.first.nonce = Len(chain)
              /\ r.end <=> slot = Slots
        /\ pc = "done" \/ (pc = "asleep" /\ slot = Slots) => NodeHead.by = "self" /\ NodeHead.end

\* Initially nothing is built.
LEMMA CalmInit == Init => CalmInv /\ Newest = NodeHead
  BY DEF Init, CalmInv, Newest, NodeHead

\* The tracking loop gets every block of the node, in the order it took them.
LEMMA NewestStep ==
    ASSUME TypeInv, Newest = NodeHead, [Next]_vars
    PROVE  Newest' = NodeHead'
  <1>1. /\ chain \in Seq(Block) /\ incoming \in Seq(Block) /\ writer \in Seq(Block)
        /\ \A i \in DOMAIN chain : chain[i].number = i
    BY DEF TypeInv, TypeOK
  <1>2. ASSUME NEW n \in 0..Len(chain), NEW block \in Block, block.number = n + 1,
               Take(n, block)
        PROVE  Newest' = NodeHead'
    <2>1. chain' = Append(SubSeq(chain, 1, n), block) /\ incoming' = Append(incoming, block)
      BY <1>2 DEF Take
    <2>2. Len(chain') = n + 1 /\ chain'[n + 1] = block
      BY <1>1, <1>2, <2>1, ExtendedChain
    <2>3. incoming' # <<>> /\ incoming'[Len(incoming')] = block
      BY <1>1, <1>2, <2>1, AppendProperties
    <2> QED
      BY <2>2, <2>3 DEF Newest, NodeHead
  <1>3. CASE OtherBuilds
    <2> DEFINE block == [number |-> Len(chain) + 1, by |-> "other", slot |-> 0,
                         end |-> env.otherEnds /\ otherLeft = 1]
    <2>1. block \in Block /\ block.number = Len(chain) + 1 /\ Len(chain) \in 0..Len(chain)
      BY <1>1, BuildingAssumption DEF Block
    <2>2. Take(Len(chain), block)
      BY <1>3 DEF OtherBuilds
    <2> HIDE DEF block
    <2> QED
      BY <1>2, <2>1, <2>2
  <1>4. CASE ReceiveHeader
    <2>1. /\ incoming # <<>> /\ writer = <<>> /\ writer' = <<Head(incoming)>>
          /\ incoming' = Tail(incoming) /\ UNCHANGED <<chain, header>>
      BY <1>4 DEF ReceiveHeader, node
    <2>2. CASE Len(incoming) = 1
      <3>1. incoming' = <<>> /\ writer' # <<>> /\ writer'[1] = incoming[Len(incoming)]
        BY <1>1, <2>1, <2>2
      <3> QED
        BY <2>1, <3>1 DEF Newest, NodeHead
    <2>3. CASE Len(incoming) # 1
      <3>1. incoming' # <<>> /\ incoming'[Len(incoming')] = incoming[Len(incoming)]
        BY <1>1, <2>1, <2>3
      <3> QED
        BY <2>1, <3>1 DEF Newest, NodeHead
    <2> QED
      BY <2>2, <2>3
  <1>5. CASE StoreHeader
    BY <1>1, <1>5 DEF StoreHeader, Newest, NodeHead, node
  <1>6. ASSUME NEW r \in requests, Answer(r) PROVE Newest' = NodeHead'
    <2>1. CASE Fits(r.data)
      <3> DEFINE block == [number |-> r.data.number, by |-> "self", slot |-> r.data.slot,
                           end |-> r.end]
                 n == r.data.parent.number
      <3>1. /\ r \in Request
            /\ r.data.parent \in Block /\ r.data.slot \in 1..Slots /\ r.end \in BOOLEAN
            /\ r.data.number = r.data.parent.number + 1
            /\ r.data.parent.number \in Nat \ {0}
        BY DEF Request, TypeInv, TypeOK, BuildOK, Block
      <3>2. block \in Block /\ block.number = n + 1
        BY <3>1, BuildingAssumption DEF Block
      <3>3. Take(n, block)
        BY <1>6, <2>1 DEF Answer
      <3>4. n \in 0..Len(chain)
        BY <1>1, <2>1, <3>1 DEF Fits
      <3> HIDE DEF block, n
      <3> QED
        BY <1>2, <3>2, <3>3, <3>4
    <2>2. CASE ~Fits(r.data)
      BY <1>6, <2>2 DEF Answer, Newest, NodeHead
    <2> QED
      BY <2>1, <2>2
  <1>7. CASE UNCHANGED <<chain, tracker>>
    BY <1>7 DEF Newest, NodeHead, tracker
  <1> QED
    BY <1>3, <1>4, <1>5, <1>6, <1>7
    DEF Next, TrackerStep, MonitorStep, AskStatus, StatusFails, Compare, Wake, MonitorTimeout,
        LoopStep, Spawn, HoldEnds, StartBuild, ReadHeader, ReadNonce, ReadMempool, Publish,
        BuildFails, BuildTimeout, Tick, ConfirmationSpins, Finished, vars, node, tracker

\* Every step keeps a calm window calm.
LEMMA CalmStep ==
    ASSUME TypeInv, OneInFlight, SyncInv, Newest = NodeHead, CalmInv, [Next]_vars
    PROVE  CalmInv'
  <1>1. env' = env
    BY DEF Next, OtherBuilds, TrackerStep, ReceiveHeader, StoreHeader, MonitorStep,
           AskStatus, StatusFails, Compare, Wake, MonitorTimeout, LoopStep, Spawn,
           HoldEnds, StartBuild, ReadHeader, ReadNonce, ReadMempool, Publish, BuildFails,
           BuildTimeout, Answer, Tick, ConfirmationSpins, Finished, vars
  <1>2. SUFFICES ASSUME Calm, ~env.monitored PROVE CalmInv'
    BY <1>1 DEF CalmInv, Calm
  <1>3. /\ Slots \in Nat \ {0} /\ Buffer \in Nat /\ Buffer < Slots
        /\ slot \in 0..(Slots + 1) /\ (pc # "done" => slot \in 0..Slots)
        /\ pc \in Building \cup {"top", "asleep", "done"} /\ ~waiting
        /\ (pc \in Building => slot \in 1..Slots)
        /\ chain \in Seq(Block) /\ Len(chain) \in DOMAIN chain
        /\ NodeHead \in Block /\ NodeHead.number = Len(chain)
    <2>1. ~waiting /\ pc # "hold" /\ pc # "spin"
      BY <1>2 DEF SyncInv, FlagTrue
    <2> QED
      BY <2>1, BuildingAssumption DEF TypeInv, TypeOK, BuildOK, NodeHead
  <1>4. /\ requests # {} => pc = "answer"
        /\ \A r \in requests : r.data.slot = slot
    BY <1>2 DEF OneInFlight, Prompt, Calm
  <1>5. CASE OtherBuilds
    <2>1. slot = 0 /\ UNCHANGED <<slot, pc, requests>>
      BY <1>2, <1>5 DEF OtherBuilds, Calm, loop
    <2>2. pc = "top" /\ requests = {}
      BY <1>2, <1>4, <2>1 DEF CalmInv
    <2> QED
      BY <1>3, <2>1, <2>2 DEF CalmInv
  <1>6. CASE TrackerStep
    <2>1. /\ UNCHANGED <<env, chain, otherLeft, requests, slot, pc, parent, nonce>>
          /\ ~Delivered
      BY <1>6 DEF TrackerStep, ReceiveHeader, StoreHeader, node, loop, Delivered
    <2> QED
      BY <1>1, <1>2, <2>1 DEF CalmInv, Calm, NodeHead
  <1>7. CASE MonitorStep \/ ConfirmationSpins \/ Finished \/ UNCHANGED vars
    <2>1. UNCHANGED <<env, chain, otherLeft, requests, slot, pc, parent, nonce, incoming, writer>>
      BY <1>7 DEF MonitorStep, AskStatus, StatusFails, Compare, Wake, MonitorTimeout,
                  ConfirmationSpins, Finished, vars, node, tracker, loop
    <2> QED
      BY <1>1, <1>2, <2>1 DEF CalmInv, Calm, NodeHead, Delivered
  <1>8. CASE Tick
    <2>1. /\ pc \in {"asleep", "top"} /\ slot' = slot + 1
          /\ UNCHANGED <<chain, otherLeft, requests, incoming, writer>>
          /\ Delivered /\ (slot = 0 => otherLeft = 0)
          /\ pc' = IF slot = Slots THEN "done" ELSE "top"
          /\ pc = "asleep" \/ slot = 0
      BY <1>2, <1>3, <1>8 DEF Tick, Stuck, Calm, Settled, Delivered, Building, node, tracker
    <2>2. requests = {}
      BY <1>4, <2>1
    <2>3. slot' > 0 /\ otherLeft' = 0 /\ Delivered'
      BY <1>2, <1>3, <2>1 DEF CalmInv, Delivered
    <2>4. pc' = "done" => pc = "asleep" /\ slot = Slots
      BY <1>3, <2>1
    <2>5. pc' = "done" => NodeHead'.by = "self" /\ NodeHead'.end
      BY <1>2, <2>1, <2>4 DEF CalmInv, NodeHead
    <2> QED
      BY <1>3, <2>1, <2>2, <2>3, <2>5 DEF CalmInv
  <1>9. CASE Spawn \/ HoldEnds \/ StartBuild
    <2>1. /\ UNCHANGED <<env, chain, otherLeft, requests, incoming, writer, slot>>
          /\ pc = "top" /\ pc' = "header" /\ slot > 0
      BY <1>2, <1>3, <1>9 DEF Spawn, HoldEnds, StartBuild, Building, node, tracker
    <2>2. slot > 0 /\ requests = {}
      BY <1>4, <2>1
    <2> QED
      BY <1>2, <1>3, <2>1, <2>2 DEF CalmInv, Delivered
  <1>10. CASE ReadHeader \/ ReadNonce
    <2>1. /\ UNCHANGED <<env, chain, otherLeft, requests, incoming, writer, slot>>
          /\ pc \in {"header", "nonce"} /\ pc' \in {"nonce", "mempool"}
          /\ pc' = "nonce" => parent' = header
          /\ pc' = "mempool" => UNCHANGED parent /\ nonce' = Len(chain) /\ pc = "nonce"
      BY <1>10 DEF ReadHeader, ReadNonce, node, tracker
    <2>2. slot > 0 /\ requests = {} /\ Delivered
      BY <1>2, <1>3, <1>4, <2>1 DEF Building, CalmInv
    <2>3. header = NodeHead
      BY <2>2 DEF Delivered, Newest
    <2>4. NodeHead' = NodeHead
      BY <2>1 DEF NodeHead
    <2> QED
      BY <1>2, <2>1, <2>2, <2>3, <2>4 DEF CalmInv, Delivered
  <1>11. CASE ReadMempool
    <2>1. /\ UNCHANGED <<env, chain, otherLeft, requests, incoming, writer, slot, parent, nonce>>
          /\ pc = "mempool" /\ pc' \in {"asleep", "publish"}
          /\ pc' = "asleep" => slot # Slots
      BY <1>2, <1>11 DEF ReadMempool, EndOfSequencing, node, tracker
    <2>2. slot > 0 /\ requests = {} /\ Delivered
      BY <1>2, <1>3, <1>4, <2>1 DEF Building, CalmInv
    <2>3. NodeHead' = NodeHead
      BY <2>1 DEF NodeHead
    <2> QED
      BY <1>2, <2>1, <2>2, <2>3 DEF CalmInv, Delivered
  <1>12. CASE Publish
    <2> DEFINE new == [data |-> ExecutableData(parent, SignedAnchorTx(nonce)),
                       end |-> EndOfSequencing]
    <2>1. /\ UNCHANGED <<env, chain, otherLeft, incoming, writer, slot>>
          /\ pc = "publish" /\ pc' = "answer" /\ requests' = requests \cup {new}
      BY <1>12 DEF Publish, tracker
    <2>2. slot > 0 /\ requests = {} /\ Delivered /\ parent = NodeHead /\ nonce = Len(chain)
      BY <1>2, <1>3, <1>4, <2>1 DEF Building, CalmInv
    <2>3. /\ new.data.parent = NodeHead /\ new.data.first.nonce = Len(chain)
          /\ new.end <=> slot = Slots
      BY <1>2, <2>2 DEF ExecutableData, SignedAnchorTx, EndOfSequencing
    <2>4. NodeHead' = NodeHead
      BY <2>1 DEF NodeHead
    <2> HIDE DEF new
    <2> QED
      BY <1>2, <2>1, <2>2, <2>3, <2>4 DEF CalmInv, Delivered
  <1>13. ~BuildFails /\ ~BuildTimeout
    BY <1>2 DEF BuildFails, BuildTimeout, Calm
  <1>14. ASSUME NEW r \in requests, Answer(r) PROVE CalmInv'
    <2> DEFINE block == [number |-> r.data.number, by |-> "self", slot |-> r.data.slot,
                         end |-> r.end]
    <2>1. /\ r.data.parent = NodeHead /\ r.data.first.nonce = Len(chain)
          /\ r.end <=> slot = Slots
          /\ pc = "answer" /\ r.data.slot = slot /\ slot > 0
      BY <1>2, <1>3, <1>4 DEF CalmInv, Building
    <2>2. requests' = {}
      <3>1. \A q, s \in requests : q = s
        BY <1>2 DEF OneInFlight, Prompt, Calm
      <3> QED
        BY <1>14, <3>1 DEF Answer
    <2>3. Fits(r.data)
      BY <1>3, <2>1 DEF Fits, NodeHead
    <2>4. Take(Len(chain), block) /\ pc' = "asleep" /\ UNCHANGED <<otherLeft, slot>>
      BY <1>3, <1>14, <2>1, <2>3 DEF Answer, loop
    <2>5. block \in Block /\ block.number = Len(chain) + 1
      <3>1. r \in Request /\ r.data.number = r.data.parent.number + 1
        BY DEF TypeInv, TypeOK, BuildOK
      <3>2. r.data.slot \in 1..Slots /\ r.end \in BOOLEAN /\ r.data.number \in Nat
        BY <3>1 DEF Request
      <3>3. r.data.number = Len(chain) + 1 /\ Len(chain) \in Nat
        BY <1>3, <2>1, <3>1
      <3> QED
        BY <1>3, <3>2, <3>3 DEF Block
    <2>6. block.by = "self" /\ (block.end <=> slot = Slots)
      BY <2>1
    <2> HIDE DEF block
    <2>7. NodeHead' = block
      <3>1. chain' = Append(SubSeq(chain, 1, Len(chain)), block)
        BY <2>4 DEF Take
      <3>2. Len(chain) \in 0..Len(chain) /\ \A i \in DOMAIN chain : chain[i].number = i
        BY <1>3 DEF TypeInv, TypeOK
      <3>3. Len(chain') = Len(chain) + 1 /\ chain'[Len(chain) + 1] = block
        BY <1>3, <2>5, <3>1, <3>2, ExtendedChain
      <3> QED
        BY <3>3 DEF NodeHead
    <2> QED
      BY <1>2, <2>1, <2>2, <2>4, <2>6, <2>7 DEF CalmInv
  <1> QED
    BY <1>5, <1>6, <1>7, <1>8, <1>9, <1>10, <1>11, <1>12, <1>13, <1>14 DEF Next, LoopStep

\* When nothing goes wrong a window ends with a block that says so, whatever its
\* length and whatever the preconfer before has left, in every layout but the
\* one of the monitor (end_of_sequencing, lines 138-140 of the loop;
\* build_block).
THEOREM HandsOverCorrect == Spec => []HandsOverIfCalm
  <1> DEFINE Inv == TypeInv /\ OneInFlight /\ SyncInv /\ Newest = NodeHead /\ CalmInv
  <1>1. Init => Inv
    BY TypeInit, FlightInit, SyncInit, CalmInit
  <1>2. Inv /\ [Next]_vars => Inv'
    BY TypeStep, FlightStep, SyncStep, NewestStep, CalmStep
  <1>3. Inv => HandsOverIfCalm
    BY DEF CalmInv, HandsOverIfCalm
  <1> QED
    BY <1>1, <1>2, <1>3, PTL DEF Spec
=============================================================================
