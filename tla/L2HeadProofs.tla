----------------------------- MODULE L2HeadProofs -----------------------------
(***************************************************************************)
(* Theorems about L2Head, for every value of its constants: its types;     *)
(* that the cache never holds a confirmed block while confirmations never  *)
(* go back, whatever the streams deliver in whatever order, whatever calls *)
(* fail and whatever becomes of the chain meanwhile; and that in a calm    *)
(* environment the stream reports no batch as foreign that is not, while   *)
(* the confirmation strategy removes no block from the cache they share.   *)
(***************************************************************************)
EXTENDS L2Head, SequenceTheorems, WellFoundedInduction, TLAPS

-----------------------------------------------------------------------------
(* Least and greatest numbers.                                             *)

\* Every set of natural numbers has a least one.
LEMMA LeastNumber ==
    ASSUME NEW T \in SUBSET Nat, T # {}
    PROVE  Min(T) \in T /\ \A y \in T : Min(T) <= y
  <1> DEFINE R == {p \in Nat \X Nat : p[1] < p[2]}
  <1>1. IsWellFoundedOn(R, Nat)
    BY NatLessThanWellFounded DEF OpToRel
  <1>2. PICK x \in T : \A y \in T : ~(<<y, x>> \in R)
    <2> HIDE DEF R
    <2> QED
      BY <1>1, WFMin
  <1>3. ASSUME NEW y \in T PROVE x <= y
    <2>1. <<y, x>> \in Nat \X Nat /\ <<y, x>>[1] = y /\ <<y, x>>[2] = x
      OBVIOUS
    <2>2. ~(y < x)
      BY <1>2, <2>1
    <2> QED
      BY <2>2
  <1> QED
    BY <1>3 DEF Min

\* The greatest number of an interval.
LEMMA IntervalMax ==
    ASSUME NEW a \in Int, NEW b \in Int, a <= b
    PROVE  Max(a..b) = b
  <1>1. b \in a..b /\ \A y \in a..b : b >= y
    OBVIOUS
  <1>2. \A x \in a..b : (\A y \in a..b : x >= y) => x = b
    <2> SUFFICES ASSUME NEW x \in a..b, \A y \in a..b : x >= y PROVE x = b
      OBVIOUS
    <2>1. x >= b /\ x <= b
      BY <1>1
    <2> QED
      BY <2>1
  <1> QED
    BY <1>1, <1>2 DEF Max

-----------------------------------------------------------------------------
(* The inbox.                                                              *)

\* The blocks of a batch have consecutive numbers.
Span == {s \in Numbers \X Numbers : 0 < s[1] /\ s[1] <= s[2]}
Blocks == UNION {[s[1]..s[2] -> Forks] : s \in Span}
Batch == [blocks : Blocks, foreign : BOOLEAN]

\* Every block up to the last one is in some batch.
InboxOK ==
    /\ inbox \in Seq(Batch)
    /\ \A n \in 1..LastInInbox : \E i \in DOMAIN inbox : n \in DOMAIN inbox[i].blocks

\* The blocks of a batch, as a function on an interval.
LEMMA BlocksSpan ==
    ASSUME NEW f \in Blocks
    PROVE  \E a \in Numbers, b \in Numbers :
              0 < a /\ a <= b /\ f \in [a..b -> Forks] /\ Max(DOMAIN f) = b
  <1>1. PICK s \in Span : f \in [s[1]..s[2] -> Forks]
    BY DEF Blocks
  <1>2. s[1] \in Numbers /\ s[2] \in Numbers /\ 0 < s[1] /\ s[1] <= s[2]
    BY DEF Span
  <1>3. Max(DOMAIN f) = s[2]
    BY <1>1, <1>2, IntervalMax, HeadAssumption DEF Numbers
  <1> QED
    BY <1>1, <1>2, <1>3

\* And the other way round.
LEMMA SpanBlocks ==
    ASSUME NEW a \in Numbers, NEW b \in Numbers, 0 < a, a <= b, NEW f \in [a..b -> Forks]
    PROVE  f \in Blocks /\ Max(DOMAIN f) = b /\ DOMAIN f = a..b
  <1>1. <<a, b>> \in Span /\ f \in [<<a, b>>[1]..<<a, b>>[2] -> Forks]
    BY DEF Span
  <1>2. f \in Blocks
    BY <1>1 DEF Blocks
  <1>3. Max(DOMAIN f) = b
    BY IntervalMax, HeadAssumption DEF Numbers
  <1> QED
    BY <1>2, <1>3

\* The number of the last block in the inbox.
LEMMA LastInInboxType ==
    ASSUME inbox \in Seq(Batch)
    PROVE  LastInInbox \in Numbers
  <1>1. CASE inbox = <<>>
    BY <1>1, HeadAssumption DEF LastInInbox, Numbers
  <1>2. CASE inbox # <<>>
    <2>1. LastBatch \in Batch
      BY <1>2 DEF LastBatch
    <2>2. LastBatch.blocks \in Blocks
      BY <2>1 DEF Batch
    <2> QED
      BY <1>2, <2>2, BlocksSpan DEF LastInInbox, LastOf
  <1> QED
    BY <1>1, <1>2

-----------------------------------------------------------------------------
(* Type correctness.                                                       *)

TypeInv == TypeOK /\ InboxOK

\* A cache of blocks.
IsCache(blocks) == DOMAIN blocks \subseteq Numbers /\ \A n \in DOMAIN blocks : blocks[n] \in Forks

\* Adding a block keeps a cache a cache.
LEMMA AddBlockCache ==
    ASSUME NEW blocks, IsCache(blocks), NEW block \in Block
    PROVE  /\ IsCache(AddBlock(blocks, block))
           /\ DOMAIN AddBlock(blocks, block) = DOMAIN blocks \cup {block.number}
  BY DEF IsCache, AddBlock, Block

\* So does dropping some.
LEMMA RetainCache ==
    ASSUME NEW blocks, IsCache(blocks), NEW kept
    PROVE  /\ IsCache(Retain(blocks, kept))
           /\ DOMAIN Retain(blocks, kept) = DOMAIN blocks \cap kept
  BY DEF IsCache, Retain

\* The blocks of a chain.
LEMMA BlockAtType ==
    ASSUME TypeOK, NEW n \in 0..Len(chain)
    PROVE  BlockAt(n) \in Block /\ BlockAt(n).number = n
  <1>1. chain \in Seq(Forks) /\ Len(chain) \in Nat /\ Len(chain) <= MaxNumber
    BY DEF TypeOK
  <1>2. CASE n = 0
    BY <1>1, <1>2, HeadAssumption DEF BlockAt, Genesis, Block, Numbers, Forks
  <1>3. CASE n # 0
    <2>1. n \in DOMAIN chain /\ n \in Numbers
      BY <1>1, <1>3, HeadAssumption DEF Numbers
    <2>2. chain[n] \in Forks
      BY <1>1, <2>1
    <2> QED
      BY <1>3, <2>1, <2>2 DEF BlockAt, Block
  <1> QED
    BY <1>2, <1>3

\* The head of the chain is a block.
LEMMA ChainHeadType ==
    ASSUME TypeOK
    PROVE  ChainHead \in Block /\ ChainHead.number = Len(chain)
  <1>1. Len(chain) \in 0..Len(chain)
    BY DEF TypeOK
  <1> QED
    BY <1>1, BlockAtType DEF ChainHead

\* Initially.
LEMMA TypeInit == Init => TypeInv
  <1> SUFFICES ASSUME Init PROVE TypeInv
    OBVIOUS
  <1>1. MaxNumber \in Nat /\ MaxFork \in Nat
    BY HeadAssumption
  <1>2. Genesis \in Block /\ 0 \in Numbers /\ 0 \in Forks
    BY <1>1 DEF Genesis, Block, Numbers, Forks
  <1>3. /\ chain \in Seq(Forks) /\ Len(chain) <= MaxNumber
        /\ inbox \in Seq(Batch) /\ DOMAIN inbox = {} /\ LastInInbox = 0
        /\ subscribed \in Seq(Block) /\ subscribedIds \in Seq(Numbers)
    BY <1>1 DEF Init, LastInInbox
  <1>4. DOMAIN cache = {}
    BY DEF Init
  <1>5. TypeOK
    BY <1>1, <1>2, <1>3, <1>4 DEF Init, TypeOK
  <1>6. InboxOK
    BY <1>3 DEF InboxOK
  <1> QED
    BY <1>5, <1>6 DEF TypeInv

\* The chain is replaced from some block on, or grows by one.
LEMMA SetHeadType ==
    ASSUME TypeInv, NEW n \in 1..MaxNumber, n - 1 <= Len(chain), NEW f \in Forks,
           SetHead(Append(SubSeq(chain, 1, n - 1), f)), fork' \in Forks, inbox' = inbox
    PROVE  TypeInv'
  <1> DEFINE old == SubSeq(chain, 1, n - 1)
             new == Append(old, f)
  <1>1. chain \in Seq(Forks) /\ Len(chain) \in Nat /\ MaxNumber \in Nat
    BY HeadAssumption DEF TypeInv, TypeOK
  <1>2. old \in Seq(Forks) /\ Len(old) = n - 1
    <2>1. \A i \in 1..(n - 1) : chain[i] \in Forks
      BY <1>1
    <2>2. 1 \in Int /\ n - 1 \in Int
      BY <1>1
    <2> QED
      BY <2>1, <2>2, SubSeqProperties
  <1> HIDE DEF old
  <1>3. new \in Seq(Forks) /\ Len(new) = n /\ new[n] = f
    BY <1>1, <1>2, AppendProperties
  <1> HIDE DEF new
  <1>4. [number |-> Len(new), fork |-> new[Len(new)]] \in Block
    BY <1>1, <1>3 DEF Block, Numbers
  <1>5. chain' = new /\ subscribed' \in Seq(Block)
    <2>1. chain' = new
      BY DEF SetHead, new, old
    <2>2. \/ subscribed' = subscribed
          \/ subscribed' = Append(subscribed, [number |-> Len(new), fork |-> new[Len(new)]])
      BY DEF SetHead, new, old
    <2>3. subscribed \in Seq(Block)
      BY DEF TypeInv, TypeOK
    <2>4. \A b \in Block : Append(subscribed, b) \in Seq(Block)
      BY <2>3, AppendProperties
    <2> QED
      BY <1>4, <2>1, <2>2, <2>3, <2>4
  <1>6. UNCHANGED <<fixed, inbox, polled, lastPolled, lastSeen, idStreams, handling, shared>>
    BY DEF SetHead
  <1>7. TypeOK'
    BY <1>1, <1>3, <1>5, <1>6 DEF TypeInv, TypeOK, fixed, idStreams, handling, shared
  <1>8. InboxOK'
    BY <1>6 DEF TypeInv, InboxOK, LastInInbox, LastBatch, LastOf
  <1> QED
    BY <1>7, <1>8 DEF TypeInv

\* A batch of the blocks after those of the inbox.
LEMMA ProposeType ==
    ASSUME TypeInv, NEW last \in (LastInInbox + 1)..Len(chain),
           NEW blocks \in [(LastInInbox + 1)..last -> Forks], NEW foreign \in BOOLEAN,
           Propose(blocks, foreign), fork' \in Forks
    PROVE  TypeInv'
  <1> DEFINE batch == [blocks |-> blocks, foreign |-> foreign]
  <1>1. /\ LastInInbox \in Numbers /\ inbox \in Seq(Batch) /\ MaxNumber \in Nat
        /\ Len(chain) \in Nat /\ Len(chain) <= MaxNumber
    BY LastInInboxType, HeadAssumption DEF TypeInv, TypeOK, InboxOK
  <1>2. LastInInbox + 1 \in Numbers /\ last \in Numbers /\ 0 < LastInInbox + 1
        /\ LastInInbox + 1 <= last
    BY <1>1 DEF Numbers
  <1>3. /\ blocks \in Blocks /\ Max(DOMAIN blocks) = last
        /\ DOMAIN blocks = (LastInInbox + 1)..last
    BY <1>2, SpanBlocks
  <1>4. batch \in Batch /\ batch.blocks = blocks /\ batch.foreign = foreign
    BY <1>3 DEF Batch
  <1>5. inbox' = Append(inbox, batch)
    BY DEF Propose
  <1> HIDE DEF batch
  <1>6. /\ inbox' \in Seq(Batch) /\ Len(inbox') = Len(inbox) + 1 /\ inbox' # <<>>
        /\ \A i \in 1..Len(inbox) : inbox'[i] = inbox[i]
        /\ inbox'[Len(inbox) + 1] = batch
    BY <1>1, <1>4, <1>5, AppendProperties
  <1>7. /\ DOMAIN inbox = 1..Len(inbox) /\ DOMAIN inbox' = 1..(Len(inbox) + 1)
        /\ Len(inbox) \in Nat
    BY <1>1, <1>6
  <1>8. LastInInbox' = last
    BY <1>3, <1>4, <1>6 DEF LastInInbox, LastBatch, LastOf
  <1>9. InboxOK'
    <2>1. ASSUME NEW n \in 1..last
          PROVE  \E i \in DOMAIN inbox' : n \in DOMAIN inbox'[i].blocks
      <3>1. CASE n \in 1..LastInInbox
        <4>1. PICK i \in DOMAIN inbox : n \in DOMAIN inbox[i].blocks
          BY <3>1 DEF TypeInv, InboxOK
        <4> QED
          BY <1>6, <1>7, <4>1
      <3>2. CASE n \in (LastInInbox + 1)..last
        <4>1. inbox'[Len(inbox) + 1].blocks = blocks /\ Len(inbox) + 1 \in DOMAIN inbox'
          BY <1>4, <1>6, <1>7
        <4> QED
          BY <1>3, <3>2, <4>1
      <3> QED
        BY <1>1, <1>2, <3>1, <3>2 DEF Numbers
    <2> QED
      BY <1>6, <1>8, <2>1 DEF InboxOK
  <1>10. \A i \in DOMAIN inbox' :
            /\ DOMAIN inbox'[i].blocks \subseteq Numbers \ {0}
            /\ \A n \in DOMAIN inbox'[i].blocks : inbox'[i].blocks[n] \in Forks
            /\ inbox'[i].foreign \in BOOLEAN
    <2> SUFFICES ASSUME NEW b \in Batch
                 PROVE  /\ DOMAIN b.blocks \subseteq Numbers \ {0}
                        /\ \A n \in DOMAIN b.blocks : b.blocks[n] \in Forks
                        /\ b.foreign \in BOOLEAN
      BY <1>6
    <2>1. b.blocks \in Blocks /\ b.foreign \in BOOLEAN
      BY DEF Batch
    <2>2. PICK a \in Numbers, z \in Numbers : 0 < a /\ a <= z /\ b.blocks \in [a..z -> Forks]
      BY <2>1, BlocksSpan
    <2>3. a..z \subseteq Numbers \ {0}
      BY <1>1, <2>2 DEF Numbers
    <2> QED
      BY <2>1, <2>2, <2>3
  <1>11. subscribedIds' \in Seq(Numbers)
    <2>1. \/ subscribedIds' = subscribedIds
          \/ subscribedIds' = Append(subscribedIds, last)
      BY <1>3 DEF Propose
    <2>2. subscribedIds \in Seq(Numbers)
      BY DEF TypeInv, TypeOK
    <2>3. \A n \in Numbers : Append(subscribedIds, n) \in Seq(Numbers)
      BY <2>2, AppendProperties
    <2> QED
      BY <1>2, <2>1, <2>2, <2>3
  <1>12. UNCHANGED <<fixed, chain, blockStreams, polledId, lastPolledId, pollsIds, lastSeenId,
                     handling, shared>>
    BY DEF Propose
  <1>13. TypeOK'
    BY <1>10, <1>11, <1>12 DEF TypeInv, TypeOK, fixed, blockStreams, handling, shared
  <1> QED
    BY <1>9, <1>13 DEF TypeInv

\* What the stream keeps is well-typed after a block.
LEMMA LetThroughType ==
    ASSUME TypeOK, NEW block \in Block, LetThrough(block)
    PROVE  /\ lastSeen' \in Block /\ header' \in Block
           /\ pc' \in {pc, "fetchLatest", "idle"} /\ current' \in Numbers
           /\ IsCache(cache)' /\ UNCHANGED <<latest, nextId, lastConfirmed, first>>
  <1>1. block.number \in Numbers /\ IsCache(cache) /\ IsCache(AddBlock(cache, block))
    BY AddBlockCache DEF TypeOK, IsCache, Block
  <1>2. CASE block = lastSeen \/ block.number < lastConfirmed
    BY <1>1, <1>2 DEF LetThrough, Handle, TypeOK, handling, shared, IsCache
  <1>3. CASE ~(block = lastSeen \/ block.number < lastConfirmed)
    <2>1. /\ cache' = IF block.number > lastConfirmed THEN AddBlock(cache, block) ELSE cache
          /\ header' = block /\ lastSeen' = block /\ current' = block.number
          /\ pc' \in {"fetchLatest", "idle"}
          /\ UNCHANGED <<latest, nextId, lastConfirmed, first>>
      BY <1>3 DEF LetThrough, Handle
    <2> QED
      BY <1>1, <2>1 DEF IsCache
  <1> QED
    BY <1>2, <1>3

\* And after a confirmed id.
LEMMA ConfirmType ==
    ASSUME TypeOK, NEW id \in Numbers, Confirm(id)
    PROVE  /\ lastSeenId' \in Numbers /\ current' \in Numbers /\ lastConfirmed' \in Numbers
           /\ pc' \in {pc, "verify"} /\ first' \in BOOLEAN
           /\ IsCache(cache)' /\ UNCHANGED <<latest, nextId, header>>
  <1>1. /\ IsCache(cache) /\ IsCache(Retain(cache, (id + 1)..MaxNumber))
        /\ first \in BOOLEAN
    BY RetainCache DEF TypeOK, IsCache
  <1>2. CASE id = lastSeenId \/ id <= lastConfirmed
    BY <1>1, <1>2 DEF Confirm, TypeOK, handling, shared, IsCache
  <1>3. CASE ~(id = lastSeenId \/ id <= lastConfirmed)
    <2>1. /\ lastSeenId' = id /\ current' = id /\ first' = FALSE
          /\ \/ /\ cache' = Retain(cache, (id + 1)..MaxNumber)
                /\ lastConfirmed' = id /\ pc' = pc
             \/ pc' = "verify" /\ UNCHANGED <<cache, lastConfirmed>>
          /\ UNCHANGED <<latest, nextId, header>>
      BY <1>3 DEF Confirm
    <2> QED
      BY <1>1, <2>1 DEF IsCache, TypeOK
  <1> QED
    BY <1>2, <1>3

\* main, before the loops run.
LEMMA StartType ==
    ASSUME TypeInv, ReadHead \/ ReadBatch \/ ReadUnconfirmed \/ SubscribeBlocks
                    \/ SubscribeIds \/ StartFails
    PROVE  TypeInv'
  <1>1. /\ LastInInbox \in Numbers /\ LastInInbox + 1 \in Nat /\ ChainHead \in Block
        /\ IsCache(cache) /\ nextId \in Nat /\ TypeOK
    BY LastInInboxType, ChainHeadType, HeadAssumption
       DEF TypeInv, InboxOK, TypeOK, IsCache, Numbers
  <1>2. UNCHANGED <<env, external, blockStreams, idStreams, current, first>>
    BY DEF ReadHead, ReadBatch, ReadUnconfirmed, SubscribeBlocks, SubscribeIds, StartFails,
           shared, fixed
  <1>3. InboxOK'
    BY <1>2 DEF TypeInv, InboxOK, LastInInbox, LastBatch, LastOf, external
  <1>4. ReadUnconfirmed => IsCache(cache)' /\ nextId' \in Nat
    <2> SUFFICES ASSUME ReadUnconfirmed PROVE IsCache(cache)' /\ nextId' \in Nat
      OBVIOUS
    <2>1. nextId \in 0..Len(chain)
      BY <1>1 DEF ReadUnconfirmed, TypeOK
    <2>2. IsCache(AddBlock(cache, BlockAt(nextId)))
      BY <1>1, <2>1, BlockAtType, AddBlockCache
    <2>3. cache' \in {cache, AddBlock(cache, BlockAt(nextId))} /\ nextId' = nextId + 1
      BY DEF ReadUnconfirmed
    <2> QED
      BY <1>1, <2>2, <2>3 DEF IsCache
  <1>5. SubscribeBlocks => whole' \in BOOLEAN
    BY DEF SubscribeBlocks
  <1>6. TypeOK'
    <2>1. CASE ReadHead
      BY <1>1, <1>2, <2>1 DEF ReadHead, TypeOK, external, blockStreams, idStreams, fixed
    <2>2. CASE ReadBatch
      BY <1>1, <1>2, <2>2 DEF ReadBatch, TypeOK, external, blockStreams, idStreams, fixed
    <2>3. CASE ReadUnconfirmed
      BY <1>1, <1>2, <1>4, <2>3 DEF ReadUnconfirmed, TypeOK, IsCache, external,
                                    blockStreams, idStreams, fixed
    <2>4. CASE SubscribeBlocks
      BY <1>1, <1>2, <1>5, <2>4 DEF SubscribeBlocks, TypeOK, external, blockStreams,
                                    idStreams, shared
    <2>5. CASE SubscribeIds \/ StartFails
      BY <1>1, <1>2, <2>5 DEF SubscribeIds, StartFails, TypeOK, external, blockStreams,
                              idStreams, shared, fixed
    <2> QED
      BY <2>1, <2>2, <2>3, <2>4, <2>5
  <1> QED
    BY <1>3, <1>6 DEF TypeInv

\* The streams and what the stream does with their items.
StreamAction ==
    \/ PollBlock \/ PollId \/ PollIdFails
    \/ ReceiveSubscribed \/ ReceivePolled
    \/ FetchLatest \/ FetchLatestFails \/ FetchId \/ AddLatest
    \/ ReceiveSubscribedId \/ ReceivePolledId
    \/ VerifySucceeds \/ OutOfSync \/ FetchConfirmed \/ VerifyFails

\* The types through what the stream does with an item.
LEMMA StreamType ==
    ASSUME TypeInv, StreamAction
    PROVE  TypeInv'
  <1>1. /\ LastInInbox \in Numbers /\ ChainHead \in Block /\ IsCache(cache) /\ nextId \in Nat
        /\ TypeOK /\ subscribed \in Seq(Block) /\ subscribedIds \in Seq(Numbers)
        /\ current \in Numbers /\ latest \in Block
    BY LastInInboxType, ChainHeadType DEF TypeInv, InboxOK, TypeOK, IsCache
  <1>2. UNCHANGED <<fixed, external>>
    BY DEF StreamAction, PollBlock, PollId, PollIdFails, ReceiveSubscribed, ReceivePolled,
           FetchLatest, FetchLatestFails, FetchId, AddLatest, ReceiveSubscribedId,
           ReceivePolledId, VerifySucceeds, OutOfSync, FetchConfirmed, VerifyFails
  <1>3. InboxOK'
    BY <1>2 DEF TypeInv, InboxOK, LastInInbox, LastBatch, LastOf, external
  <1> SUFFICES TypeOK'
    BY <1>3 DEF TypeInv
  <1>4. CASE PollBlock \/ PollId \/ PollIdFails
    BY <1>1, <1>2, <1>4 DEF PollBlock, PollId, PollIdFails, TypeOK, external, blockStreams,
                            idStreams, handling, shared, fixed
  <1>5. CASE ReceiveSubscribed
    <2>1. subscribed[1] \in Block /\ Tail(subscribed) \in Seq(Block)
      BY <1>1, <1>5, HeadTailProperties DEF ReceiveSubscribed
    <2>2. LetThrough(subscribed[1]) /\ subscribed' = Tail(subscribed)
          /\ UNCHANGED <<polled, lastPolled, idStreams>>
      BY <1>5 DEF ReceiveSubscribed
    <2>3. /\ lastSeen' \in Block /\ header' \in Block
          /\ pc' \in {pc, "fetchLatest", "idle"} /\ current' \in Numbers
          /\ IsCache(cache)' /\ UNCHANGED <<latest, nextId, lastConfirmed, first>>
      BY <1>1, <2>1, <2>2, LetThroughType
    <2> QED
      BY <1>1, <1>2, <2>1, <2>2, <2>3 DEF TypeOK, external, idStreams, fixed, IsCache
  <1>6. CASE ReceivePolled
    <2>1. PICK block \in polled : LetThrough(block)
      BY <1>6 DEF ReceivePolled
    <2>2. block \in Block
      BY <1>1, <2>1 DEF TypeOK
    <2>3. polled' = {} /\ UNCHANGED <<subscribed, lastPolled, idStreams>>
      BY <1>6 DEF ReceivePolled
    <2>4. /\ lastSeen' \in Block /\ header' \in Block
          /\ pc' \in {pc, "fetchLatest", "idle"} /\ current' \in Numbers
          /\ IsCache(cache)' /\ UNCHANGED <<latest, nextId, lastConfirmed, first>>
      BY <1>1, <2>1, <2>2, LetThroughType
    <2> QED
      BY <1>1, <1>2, <2>3, <2>4 DEF TypeOK, external, idStreams, fixed, IsCache
  <1>7. CASE FetchLatest \/ FetchLatestFails
    <2>1. IsCache(cache)'
      BY <1>1, <1>7, RetainCache DEF FetchLatest, FetchLatestFails, DropAfter, IsCache
    <2>2. current + 1 \in Nat
      BY <1>1, HeadAssumption DEF Numbers
    <2> QED
      BY <1>1, <1>2, <1>7, <2>1, <2>2 DEF FetchLatest, FetchLatestFails, DropAfter, TypeOK,
         IsCache, external, blockStreams, idStreams, fixed
  <1>8. CASE FetchId
    <2>1. nextId <= Len(chain) => BlockAt(nextId) \in Block
      BY <1>1, BlockAtType DEF TypeOK
    <2>2. IsCache(cache)' /\ header' \in Block
      BY <1>1, <1>8, <2>1, AddBlockCache DEF FetchId, IsCache, TypeOK
    <2> QED
      BY <1>1, <1>2, <1>8, <2>2 DEF FetchId, TypeOK, IsCache, external, blockStreams,
                                    idStreams, fixed
  <1>9. CASE AddLatest
    <2>1. IsCache(cache)'
      <3>1. IsCache(AddBlock(cache, latest))
        BY <1>1, AddBlockCache
      <3>2. cache' = Retain(AddBlock(cache, latest), 0..latest.number)
        BY <1>9 DEF AddLatest, DropAfter
      <3> QED
        BY <3>1, <3>2, RetainCache DEF IsCache
    <2> QED
      BY <1>1, <1>2, <1>9, <2>1 DEF AddLatest, DropAfter, TypeOK, IsCache, external,
                                    blockStreams, idStreams, fixed
  <1>10. CASE ReceiveSubscribedId
    <2>1. subscribedIds[1] \in Numbers /\ Tail(subscribedIds) \in Seq(Numbers)
      BY <1>1, <1>10, HeadTailProperties DEF ReceiveSubscribedId
    <2>2. Confirm(subscribedIds[1]) /\ subscribedIds' = Tail(subscribedIds)
          /\ UNCHANGED <<blockStreams, polledId, lastPolledId, pollsIds>>
      BY <1>10 DEF ReceiveSubscribedId
    <2>3. /\ lastSeenId' \in Numbers /\ current' \in Numbers /\ lastConfirmed' \in Numbers
          /\ pc' \in {pc, "verify"} /\ first' \in BOOLEAN
          /\ IsCache(cache)' /\ UNCHANGED <<latest, nextId, header>>
      BY <1>1, <2>1, <2>2, ConfirmType
    <2> QED
      BY <1>1, <1>2, <2>1, <2>2, <2>3 DEF TypeOK, external, blockStreams, fixed, IsCache
  <1>11. CASE ReceivePolledId
    <2>1. PICK id \in polledId : Confirm(id)
      BY <1>11 DEF ReceivePolledId
    <2>2. id \in Numbers
      BY <1>1, <2>1 DEF TypeOK
    <2>3. polledId' = {} /\ UNCHANGED <<blockStreams, subscribedIds, lastPolledId, pollsIds>>
      BY <1>11 DEF ReceivePolledId
    <2>4. /\ lastSeenId' \in Numbers /\ current' \in Numbers /\ lastConfirmed' \in Numbers
          /\ pc' \in {pc, "verify"} /\ first' \in BOOLEAN
          /\ IsCache(cache)' /\ UNCHANGED <<latest, nextId, header>>
      BY <1>1, <2>1, <2>2, ConfirmType
    <2> QED
      BY <1>1, <1>2, <2>3, <2>4 DEF TypeOK, external, blockStreams, fixed, IsCache
  <1>12. CASE VerifySucceeds \/ OutOfSync \/ VerifyFails
    <2>1. IsCache(cache)'
      BY <1>1, <1>12, RetainCache DEF VerifySucceeds, OutOfSync, VerifyFails, IsCache, shared
    <2> QED
      BY <1>1, <1>2, <1>12, <2>1 DEF VerifySucceeds, OutOfSync, VerifyFails, TypeOK,
         IsCache, external, blockStreams, idStreams, fixed, shared
  <1>13. CASE FetchConfirmed
    <2>1. current <= Len(chain) => BlockAt(current) \in Block
      BY <1>1, BlockAtType, HeadAssumption DEF TypeOK, Numbers
    <2> QED
      BY <1>1, <1>2, <1>13, <2>1 DEF FetchConfirmed, TypeOK, external, blockStreams,
                                     idStreams, fixed
  <1> QED
    BY <1>4, <1>5, <1>6, <1>7, <1>8, <1>9, <1>10, <1>11, <1>12, <1>13 DEF StreamAction

\* The chain: a new block, another one in the place of the last ones, and the
\* blocks of the inbox.
LEMMA ChainType ==
    ASSUME TypeInv, NewBlock \/ Reorg \/ Derive
    PROVE  TypeInv'
  <1>1. /\ chain \in Seq(Forks) /\ Len(chain) \in Nat /\ Len(chain) <= MaxNumber
        /\ fork \in Forks /\ MaxNumber \in Nat /\ MaxFork \in Nat /\ LastInInbox \in Numbers
        /\ env \in Environment /\ inbox \in Seq(Batch)
    BY HeadAssumption, LastInInboxType DEF TypeInv, TypeOK, InboxOK
  <1>2. CASE NewBlock
    <2>1. Len(chain) + 1 \in 1..MaxNumber /\ (Len(chain) + 1) - 1 = Len(chain)
      BY <1>1, <1>2 DEF NewBlock
    <2>2. SubSeq(chain, 1, Len(chain)) = chain
      BY <1>1, SubSeqProperties
    <2>3. SetHead(Append(SubSeq(chain, 1, (Len(chain) + 1) - 1), fork))
      BY <1>2, <2>1, <2>2 DEF NewBlock
    <2>4. fork' \in Forks /\ inbox' = inbox
      BY <1>1, <1>2 DEF NewBlock
    <2> QED
      BY <1>1, <2>1, <2>3, <2>4, SetHeadType
  <1>3. CASE Reorg
    <2>1. PICK n \in (LastInInbox + 1)..Len(chain) :
             SetHead(Append(SubSeq(chain, 1, n - 1), fork + 1))
      BY <1>3 DEF Reorg
    <2>2. n \in 1..MaxNumber /\ n - 1 <= Len(chain)
      BY <1>1, <2>1 DEF Numbers
    <2>3. fork + 1 \in Forks
      BY <1>1, <1>3 DEF Reorg, Environment, Forks
    <2>4. fork' \in Forks /\ inbox' = inbox
      BY <1>3, <2>3 DEF Reorg
    <2> QED
      BY <2>1, <2>2, <2>3, <2>4, SetHeadType
  <1>4. CASE Derive
    <2> DEFINE n == Min(Underived)
               i == CHOOSE i \in DOMAIN inbox : n \in DOMAIN inbox[i].blocks
    <2>1. Underived \in SUBSET Nat /\ Underived # {} /\ Underived \subseteq 1..LastInInbox
      <3>1. Underived \subseteq 1..LastInInbox
        BY DEF Underived
      <3>2. 1..LastInInbox \subseteq Nat
        BY <1>1 DEF Numbers
      <3>3. Underived # {}
        BY <1>4 DEF Derive
      <3> QED
        BY <3>1, <3>2, <3>3
    <2>2. n \in Underived /\ \A y \in Underived : n <= y
      BY <2>1, LeastNumber
    <2>3. SetHead(Append(SubSeq(chain, 1, n - 1), inbox[i].blocks[n]))
          /\ UNCHANGED <<fork, inbox>>
      BY <1>4 DEF Derive
    <2> HIDE DEF n
    <2>4. n \in 1..MaxNumber /\ n \in 1..LastInInbox
      BY <1>1, <2>1, <2>2 DEF Numbers
    <2>5. n - 1 <= Len(chain)
      <3> SUFFICES ASSUME n - 1 > Len(chain) PROVE FALSE
        BY <1>1, <2>4
      <3>1. n - 1 \in 1..LastInInbox /\ n - 1 > Len(chain)
        BY <1>1, <2>4 DEF Numbers
      <3>2. n - 1 \in Underived
        BY <3>1 DEF Underived
      <3>3. n <= n - 1
        BY <2>2, <3>2
      <3> QED
        BY <2>4, <3>3
    <2>6. i \in DOMAIN inbox /\ n \in DOMAIN inbox[i].blocks
      <3>1. \E j \in DOMAIN inbox : n \in DOMAIN inbox[j].blocks
        BY <2>4 DEF TypeInv, InboxOK
      <3> QED
        BY <3>1
    <2> HIDE DEF i
    <2>7. inbox[i].blocks[n] \in Forks
      BY <2>6 DEF TypeInv, TypeOK
    <2>8. fork' \in Forks /\ inbox' = inbox
      BY <1>1, <2>3
    <2> QED
      BY <2>3, <2>4, <2>5, <2>7, <2>8, SetHeadType
  <1> QED
    BY <1>2, <1>3, <1>4

\* The inbox.
LEMMA InboxType ==
    ASSUME TypeInv, ProposeChain \/ ProposeForeign
    PROVE  TypeInv'
  <1>1. /\ chain \in Seq(Forks) /\ Len(chain) \in Nat /\ fork \in Forks /\ MaxFork \in Nat
        /\ LastInInbox \in Numbers /\ LastInInbox \in Nat /\ env \in Environment
    BY HeadAssumption, LastInInboxType DEF TypeInv, TypeOK, InboxOK, Numbers
  <1>2. CASE ProposeChain
    <2>1. PICK last \in (LastInInbox + 1)..Len(chain) :
             Propose([n \in (LastInInbox + 1)..last |-> chain[n]], FALSE)
      BY <1>2 DEF ProposeChain
    <2>2. \A n \in (LastInInbox + 1)..last : chain[n] \in Forks
      BY <1>1
    <2>3. [n \in (LastInInbox + 1)..last |-> chain[n]] \in [(LastInInbox + 1)..last -> Forks]
      BY <2>2
    <2>4. fork' \in Forks
      BY <1>1, <1>2 DEF ProposeChain
    <2> QED
      BY <2>1, <2>3, <2>4, ProposeType
  <1>3. CASE ProposeForeign
    <2>1. PICK last \in (LastInInbox + 1)..Len(chain) :
             Propose([n \in (LastInInbox + 1)..last |-> fork + 1], TRUE)
      BY <1>3 DEF ProposeForeign
    <2>2. fork + 1 \in Forks /\ fork' = fork + 1
      BY <1>1, <1>3 DEF ProposeForeign, Environment, Forks
    <2>3. [n \in (LastInInbox + 1)..last |-> fork + 1] \in [(LastInInbox + 1)..last -> Forks]
      BY <2>2
    <2> QED
      BY <2>1, <2>2, <2>3, ProposeType
  <1> QED
    BY <1>2, <1>3

\* The types through a stuttering step.
LEMMA StutterType ==
    ASSUME TypeInv, UNCHANGED vars
    PROVE  TypeInv'
  <1>1. UNCHANGED <<env, whole, chain, fork, inbox, subscribed, polled, lastPolled, lastSeen>>
    BY DEF vars, fixed, external, blockStreams
  <1>2. UNCHANGED <<subscribedIds, polledId, lastPolledId, pollsIds, lastSeenId, pc, current,
                    latest, nextId, cache, lastConfirmed, first, header>>
    BY DEF vars, idStreams, handling, shared
  <1> QED
    BY <1>1, <1>2 DEF TypeInv, TypeOK, InboxOK, LastInInbox, LastBatch, LastOf

\* The confirmation strategy removes some blocks of the cache; the behaviour is
\* whole afterwards only if it has removed none.
LEMMA Pruned ==
    ASSUME TypeInv, Prune
    PROVE  /\ IsCache(cache)' /\ DOMAIN cache' \subseteq DOMAIN cache
           /\ whole' \in BOOLEAN /\ (whole' => whole /\ cache' = cache)
           /\ ~UnsubscribedIds
           /\ UNCHANGED <<env, external, blockStreams, idStreams, handling, lastConfirmed, first,
                         header>>
  <1>1. PICK expired \in SUBSET env.own : cache' = Retain(cache, env.own \ expired)
    BY DEF Prune
  <1>2. IsCache(cache)
    BY DEF TypeInv, TypeOK, IsCache
  <1>3. /\ IsCache(Retain(cache, env.own \ expired))
        /\ DOMAIN Retain(cache, env.own \ expired) = DOMAIN cache \cap (env.own \ expired)
    BY <1>2, RetainCache
  <1>4. IsCache(cache)' /\ DOMAIN cache' \subseteq DOMAIN cache
    BY <1>1, <1>3 DEF IsCache
  <1> QED
    BY <1>4 DEF Prune

\* Every step keeps the types: one step of the proof per action.
LEMMA TypeStep == TypeInv /\ [Next]_vars => TypeInv'
  <1> SUFFICES ASSUME TypeInv, [Next]_vars PROVE TypeInv'
    OBVIOUS
  <1>1. CASE NewBlock \/ Reorg \/ Derive
    BY <1>1, ChainType
  <1>2. CASE ProposeChain \/ ProposeForeign
    BY <1>2, InboxType
  <1>3. CASE ReadHead \/ ReadBatch \/ ReadUnconfirmed \/ SubscribeBlocks
             \/ SubscribeIds \/ StartFails
    BY <1>3, StartType
  <1>4. CASE StreamAction
    BY <1>4, StreamType
  <1>5. CASE NothingNew \/ UNCHANGED vars
    BY <1>5, StutterType DEF NothingNew
  <1>6. CASE Prune
    <2>1. IsCache(cache)' /\ whole' \in BOOLEAN
      BY <1>6, Pruned
    <2>2. InboxOK'
      BY <1>6, Pruned DEF TypeInv, InboxOK, LastInInbox, LastBatch, LastOf, external
    <2>3. TypeOK'
      BY <1>6, <2>1, Pruned DEF TypeInv, TypeOK, IsCache, external, blockStreams, idStreams, handling
    <2> QED
      BY <2>2, <2>3 DEF TypeInv
  <1> QED
    BY <1>1, <1>2, <1>3, <1>4, <1>5, <1>6 DEF Next, StreamAction

\* Every variable has its type: the numbers of cached blocks are those of
\* blocks, the stream is in one of its places (L2Head.TypeOK).
THEOREM TypeCorrect == Spec => []TypeOK
  <1>1. Init => TypeInv
    BY TypeInit
  <1>2. TypeInv /\ [Next]_vars => TypeInv'
    BY TypeStep
  <1>3. TypeInv => TypeOK
    BY DEF TypeInv
  <1> QED
    BY <1>1, <1>2, <1>3, PTL DEF Spec

-----------------------------------------------------------------------------
(* Confirmed and unconfirmed blocks.                                       *)

\* Wherever the stream is the cache holds no confirmed block.
NoneConfirmed == \A n \in DOMAIN cache : n > lastConfirmed

\* main reads the unconfirmed blocks after the confirmed ones.
StartsAfter ==
    /\ pc \in {"readHead", "readBatch"} => lastConfirmed = 0 /\ DOMAIN cache = {}
    /\ pc = "readBlocks" => nextId > lastConfirmed

\* While it waits for an answer the stream handles a block that is not before
\* the confirmed ones, and asks for later ones only.
AsksAfter ==
    /\ pc \in {"fetchLatest", "fetchId"} => current >= lastConfirmed
    /\ pc = "fetchId" => nextId > current /\ latest.number > current

\* What it confirms is new.
ConfirmsAfter ==
    /\ pc \in {"verify", "fetchConfirmed"} => current > lastConfirmed
    /\ pc = "fetchConfirmed" => DOMAIN cache = {}

ConfirmInv == NoneConfirmed /\ StartsAfter /\ AsksAfter /\ ConfirmsAfter

\* The numbers the steps compare.
LEMMA NumbersInt ==
    ASSUME TypeInv
    PROVE  /\ current \in Nat /\ latest.number \in Nat /\ nextId \in Nat /\ lastConfirmed \in Nat
           /\ LastInInbox \in Nat /\ Len(chain) \in Nat /\ DOMAIN cache \subseteq Nat
           /\ IsCache(cache) /\ latest \in Block /\ MaxNumber \in Nat
           /\ Numbers \subseteq Nat /\ \A block \in Block : block.number \in Nat
  BY HeadAssumption, LastInInboxType DEF TypeInv, TypeOK, InboxOK, IsCache, Numbers, Block

\* Initially nothing is cached and nothing confirmed.
LEMMA ConfirmInit == Init => ConfirmInv
  <1> SUFFICES ASSUME Init PROVE ConfirmInv
    OBVIOUS
  <1>1. DOMAIN cache = {} /\ pc = "readHead" /\ lastConfirmed = 0
    BY DEF Init
  <1> QED
    BY <1>1 DEF ConfirmInv, NoneConfirmed, StartsAfter, AsksAfter, ConfirmsAfter

\* The chain, the inbox and the polls are no concern of the stream.
LEMMA ConfirmElsewhere ==
    ASSUME ConfirmInv, UNCHANGED <<pc, current, latest, nextId, cache, lastConfirmed>>
    PROVE  ConfirmInv' /\ lastConfirmed' = lastConfirmed
  BY DEF ConfirmInv, NoneConfirmed, StartsAfter, AsksAfter, ConfirmsAfter

\* main reads what there is.
LEMMA ConfirmStart ==
    ASSUME TypeInv, ConfirmInv, ReadHead \/ ReadBatch \/ ReadUnconfirmed \/ SubscribeBlocks
                                \/ SubscribeIds \/ StartFails
    PROVE  ConfirmInv' /\ lastConfirmed' >= lastConfirmed
  <1>1. /\ lastConfirmed \in Nat /\ LastInInbox \in Nat /\ nextId \in Nat /\ DOMAIN cache \subseteq Nat
        /\ Len(chain) \in Nat /\ IsCache(cache)
    BY NumbersInt
  <1>2. CASE ReadHead
    BY <1>1, <1>2 DEF ReadHead, ConfirmInv, NoneConfirmed, StartsAfter, AsksAfter, ConfirmsAfter
  <1>3. CASE ReadBatch
    BY <1>1, <1>3 DEF ReadBatch, ConfirmInv, NoneConfirmed, StartsAfter, AsksAfter, ConfirmsAfter
  <1>4. CASE ReadUnconfirmed
    <2>1. nextId \in 0..Len(chain) /\ nextId > lastConfirmed
      BY <1>1, <1>4 DEF ReadUnconfirmed, ConfirmInv, StartsAfter
    <2>2. BlockAt(nextId) \in Block /\ BlockAt(nextId).number = nextId
      BY <2>1, BlockAtType DEF TypeInv
    <2>3. DOMAIN AddBlock(cache, BlockAt(nextId)) = DOMAIN cache \cup {nextId}
      BY <1>1, <2>2, AddBlockCache
    <2>4. /\ cache' \in {cache, AddBlock(cache, BlockAt(nextId))} /\ nextId' = nextId + 1
          /\ pc = "readBlocks" /\ UNCHANGED <<pc, lastConfirmed>>
      BY <1>4 DEF ReadUnconfirmed
    <2>5. \A n \in DOMAIN cache' : n > lastConfirmed
      BY <2>1, <2>3, <2>4 DEF ConfirmInv, NoneConfirmed
    <2> QED
      BY <1>1, <2>1, <2>4, <2>5 DEF ConfirmInv, NoneConfirmed, StartsAfter, AsksAfter, ConfirmsAfter
  <1>5. CASE SubscribeBlocks \/ SubscribeIds \/ StartFails
    <2>1. pc' \in {"subscribeIds", "idle", "exited"} /\ UNCHANGED <<cache, lastConfirmed>>
      BY <1>5 DEF SubscribeBlocks, SubscribeIds, StartFails, shared
    <2> QED
      BY <1>1, <2>1 DEF ConfirmInv, NoneConfirmed, StartsAfter, AsksAfter, ConfirmsAfter
  <1> QED
    BY <1>2, <1>3, <1>4, <1>5

\* A block arrives.
LEMMA ConfirmBlock ==
    ASSUME TypeInv, ConfirmInv, pc = "idle", NEW block \in Block, LetThrough(block)
    PROVE  ConfirmInv' /\ lastConfirmed' = lastConfirmed
  <1>1. /\ lastConfirmed \in Nat /\ block.number \in Nat /\ IsCache(cache)
    BY NumbersInt
  <1>2. CASE block = lastSeen \/ block.number < lastConfirmed
    <2>1. UNCHANGED <<pc, current, latest, nextId, cache, lastConfirmed>>
      BY <1>2 DEF LetThrough, Handle, handling, shared
    <2> QED
      BY <2>1, ConfirmElsewhere
  <1>3. CASE ~(block = lastSeen \/ block.number < lastConfirmed)
    <2>1. /\ cache' = IF block.number > lastConfirmed THEN AddBlock(cache, block) ELSE cache
          /\ pc' \in {"fetchLatest", "idle"} /\ current' = block.number
          /\ lastConfirmed' = lastConfirmed
      BY <1>3 DEF LetThrough, Handle
    <2>2. \A n \in DOMAIN cache' : n > lastConfirmed
      BY <1>1, <2>1, AddBlockCache DEF ConfirmInv, NoneConfirmed
    <2> QED
      BY <1>1, <1>3, <2>1, <2>2 DEF ConfirmInv, NoneConfirmed, StartsAfter, AsksAfter, ConfirmsAfter
  <1> QED
    BY <1>2, <1>3

\* The node is asked what became of the blocks after it.
LEMMA ConfirmFetch ==
    ASSUME TypeInv, ConfirmInv, FetchLatest \/ FetchLatestFails \/ FetchId \/ AddLatest
    PROVE  ConfirmInv' /\ lastConfirmed' = lastConfirmed
  <1>1. /\ current \in Nat /\ latest.number \in Nat /\ nextId \in Nat /\ lastConfirmed \in Nat
        /\ Len(chain) \in Nat /\ DOMAIN cache \subseteq Nat /\ IsCache(cache) /\ latest \in Block
    BY NumbersInt
  <1>2. \A n \in DOMAIN cache : n > lastConfirmed
    BY DEF ConfirmInv, NoneConfirmed
  <1>3. ASSUME cache' = Retain(cache, 0..current), pc' = "idle", lastConfirmed' = lastConfirmed
        PROVE  ConfirmInv'
    <2>1. DOMAIN cache' \subseteq DOMAIN cache
      BY <1>1, <1>3, RetainCache
    <2> QED
      BY <1>2, <1>3, <2>1 DEF ConfirmInv, NoneConfirmed, StartsAfter, AsksAfter, ConfirmsAfter
  <1>4. CASE FetchLatest
    <2>1. CASE Len(chain) > current
      <3>1. ChainHead.number = Len(chain)
        BY ChainHeadType DEF TypeInv
      <3>2. /\ pc = "fetchLatest" /\ pc' = "fetchId" /\ latest' = ChainHead
            /\ nextId' = current + 1 /\ UNCHANGED <<cache, current, lastConfirmed>>
        BY <1>4, <2>1 DEF FetchLatest
      <3> QED
        BY <1>1, <2>1, <3>1, <3>2
           DEF ConfirmInv, NoneConfirmed, StartsAfter, AsksAfter, ConfirmsAfter
    <2>2. CASE ~(Len(chain) > current)
      BY <1>3, <1>4, <2>2 DEF FetchLatest, DropAfter
    <2> QED
      BY <1>4, <2>1, <2>2 DEF FetchLatest
  <1>5. CASE FetchLatestFails
    BY <1>3, <1>5 DEF FetchLatestFails, DropAfter
  <1>6. CASE FetchId
    <2>1. nextId > current /\ current >= lastConfirmed /\ latest.number > current
      BY <1>6 DEF FetchId, ConfirmInv, AsksAfter
    <2>2. /\ \/ nextId <= Len(chain) /\ cache' = AddBlock(cache, BlockAt(nextId))
             \/ cache' = cache
          /\ nextId' = nextId + 1 /\ UNCHANGED <<pc, current, latest, lastConfirmed>>
          /\ pc = "fetchId"
      BY <1>6 DEF FetchId
    <2>3. ASSUME nextId <= Len(chain)
          PROVE  DOMAIN AddBlock(cache, BlockAt(nextId)) = DOMAIN cache \cup {nextId}
      <3>1. nextId \in 0..Len(chain)
        BY <1>1, <2>3
      <3>2. BlockAt(nextId) \in Block /\ BlockAt(nextId).number = nextId
        BY <3>1, BlockAtType DEF TypeInv
      <3> QED
        BY <1>1, <3>2, AddBlockCache
    <2>4. \A n \in DOMAIN cache' : n > lastConfirmed
      BY <1>1, <1>2, <2>1, <2>2, <2>3
    <2> QED
      BY <1>1, <2>1, <2>2, <2>4
         DEF ConfirmInv, NoneConfirmed, StartsAfter, AsksAfter, ConfirmsAfter
  <1>7. CASE AddLatest
    <2>1. latest.number > lastConfirmed
      BY <1>1, <1>7 DEF AddLatest, ConfirmInv, AsksAfter
    <2>2. /\ cache' = Retain(AddBlock(cache, latest), 0..latest.number) /\ pc' = "idle"
          /\ lastConfirmed' = lastConfirmed
      BY <1>7 DEF AddLatest, DropAfter
    <2>3. DOMAIN cache' \subseteq DOMAIN cache \cup {latest.number}
      <3>1. /\ IsCache(AddBlock(cache, latest))
            /\ DOMAIN AddBlock(cache, latest) = DOMAIN cache \cup {latest.number}
        BY <1>1, AddBlockCache
      <3> QED
        BY <2>2, <3>1, RetainCache
    <2>4. \A n \in DOMAIN cache' : n > lastConfirmed
      BY <1>2, <2>1, <2>3
    <2> QED
      BY <2>2, <2>4 DEF ConfirmInv, NoneConfirmed, StartsAfter, AsksAfter, ConfirmsAfter
  <1> QED
    BY <1>3, <1>4, <1>5, <1>6, <1>7 DEF FetchLatest, FetchLatestFails, FetchId, AddLatest

\* A confirmed id arrives.
LEMMA ConfirmId ==
    ASSUME TypeInv, ConfirmInv, pc = "idle", NEW id \in Numbers, Confirm(id)
    PROVE  ConfirmInv' /\ lastConfirmed' >= lastConfirmed
  <1>1. lastConfirmed \in Nat /\ id \in Nat /\ IsCache(cache) /\ MaxNumber \in Nat
    BY NumbersInt
  <1>2. CASE id = lastSeenId \/ id <= lastConfirmed
    <2>1. UNCHANGED <<pc, current, latest, nextId, cache, lastConfirmed>>
      BY <1>2 DEF Confirm, handling, shared
    <2> QED
      BY <1>1, <2>1, ConfirmElsewhere
  <1>3. CASE ~(id = lastSeenId \/ id <= lastConfirmed)
    <2>1. /\ current' = id /\ id > lastConfirmed
          /\ \/ /\ cache' = Retain(cache, (id + 1)..MaxNumber)
                /\ lastConfirmed' = id /\ pc' = pc
             \/ pc' = "verify" /\ UNCHANGED <<cache, lastConfirmed>>
      BY <1>1, <1>3 DEF Confirm
    <2>2. DOMAIN Retain(cache, (id + 1)..MaxNumber) = DOMAIN cache \cap (id + 1)..MaxNumber
      BY <1>1, RetainCache
    <2>3. \A n \in DOMAIN cache' : n > lastConfirmed'
      BY <1>1, <2>1, <2>2 DEF ConfirmInv, NoneConfirmed
    <2> QED
      BY <1>1, <2>1, <2>3 DEF ConfirmInv, NoneConfirmed, StartsAfter, AsksAfter, ConfirmsAfter
  <1> QED
    BY <1>2, <1>3

\* And is verified.
LEMMA ConfirmVerify ==
    ASSUME TypeInv, ConfirmInv, VerifySucceeds \/ OutOfSync \/ FetchConfirmed \/ VerifyFails
    PROVE  ConfirmInv' /\ lastConfirmed' >= lastConfirmed
  <1>1. current \in Nat /\ lastConfirmed \in Nat /\ IsCache(cache) /\ MaxNumber \in Nat
    BY NumbersInt
  <1>2. CASE VerifySucceeds
    <2>1. current > lastConfirmed
      BY <1>2 DEF VerifySucceeds, ConfirmInv, ConfirmsAfter
    <2>2. /\ cache' = Retain(cache, (current + 1)..MaxNumber) /\ lastConfirmed' = current
          /\ pc' = "idle"
      BY <1>2 DEF VerifySucceeds
    <2>3. DOMAIN cache' = DOMAIN cache \cap (current + 1)..MaxNumber
      BY <1>1, <2>2, RetainCache
    <2>4. \A n \in DOMAIN cache' : n > lastConfirmed'
      BY <1>1, <2>2, <2>3
    <2> QED
      BY <1>1, <2>1, <2>2, <2>4 DEF ConfirmInv, NoneConfirmed, StartsAfter, AsksAfter, ConfirmsAfter
  <1>3. CASE OutOfSync
    <2>1. DOMAIN cache' = {}
      BY <1>3 DEF OutOfSync
    <2>2. pc = "verify" /\ pc' = "fetchConfirmed" /\ UNCHANGED <<current, lastConfirmed>>
      BY <1>3 DEF OutOfSync
    <2> QED
      BY <1>1, <2>1, <2>2 DEF ConfirmInv, NoneConfirmed, StartsAfter, AsksAfter, ConfirmsAfter
  <1>4. CASE FetchConfirmed
    <2>1. /\ pc = "fetchConfirmed" /\ pc' = "idle" /\ lastConfirmed' = current
          /\ cache' = cache
      BY <1>4 DEF FetchConfirmed
    <2> QED
      BY <1>1, <2>1 DEF ConfirmInv, NoneConfirmed, StartsAfter, AsksAfter, ConfirmsAfter
  <1>5. CASE VerifyFails
    <2>1. pc' = "ended" /\ UNCHANGED <<cache, lastConfirmed>>
      BY <1>5 DEF VerifyFails, shared
    <2> QED
      BY <1>1, <2>1 DEF ConfirmInv, NoneConfirmed, StartsAfter, AsksAfter, ConfirmsAfter
  <1> QED
    BY <1>2, <1>3, <1>4, <1>5

\* Every step keeps the invariant: one step of the proof per action.
LEMMA ConfirmStep ==
    ASSUME TypeInv, ConfirmInv, [Next]_vars
    PROVE  ConfirmInv' /\ lastConfirmed' >= lastConfirmed
  <1>1. lastConfirmed \in Nat
    BY NumbersInt
  <1>2. CASE \/ NewBlock \/ Reorg \/ Derive \/ ProposeChain \/ ProposeForeign
             \/ PollBlock \/ PollId \/ PollIdFails \/ NothingNew \/ UNCHANGED vars
    <2>1. UNCHANGED <<pc, current, latest, nextId, cache, lastConfirmed>>
      BY <1>2 DEF NewBlock, Reorg, Derive, SetHead, ProposeChain, ProposeForeign, Propose,
         PollBlock, PollId, PollIdFails, NothingNew, vars, handling, shared
    <2> QED
      BY <1>1, <2>1, ConfirmElsewhere
  <1>3. CASE ReadHead \/ ReadBatch \/ ReadUnconfirmed \/ SubscribeBlocks
             \/ SubscribeIds \/ StartFails
    BY <1>3, ConfirmStart
  <1>4. CASE ReceiveSubscribed
    <2>1. subscribed[1] \in Block /\ pc = "idle" /\ LetThrough(subscribed[1])
      BY <1>4, HeadTailProperties DEF ReceiveSubscribed, TypeInv, TypeOK
    <2> QED
      BY <1>1, <2>1, ConfirmBlock
  <1>5. CASE ReceivePolled
    <2>1. PICK block \in polled : LetThrough(block)
      BY <1>5 DEF ReceivePolled
    <2>2. block \in Block /\ pc = "idle"
      BY <1>5, <2>1 DEF ReceivePolled, TypeInv, TypeOK
    <2> QED
      BY <1>1, <2>1, <2>2, ConfirmBlock
  <1>6. CASE FetchLatest \/ FetchLatestFails \/ FetchId \/ AddLatest
    BY <1>1, <1>6, ConfirmFetch
  <1>7. CASE ReceiveSubscribedId
    <2>1. subscribedIds[1] \in Numbers /\ pc = "idle" /\ Confirm(subscribedIds[1])
      BY <1>7, HeadTailProperties DEF ReceiveSubscribedId, TypeInv, TypeOK
    <2> QED
      BY <2>1, ConfirmId
  <1>8. CASE ReceivePolledId
    <2>1. PICK id \in polledId : Confirm(id)
      BY <1>8 DEF ReceivePolledId
    <2>2. id \in Numbers /\ pc = "idle"
      BY <1>8, <2>1 DEF ReceivePolledId, TypeInv, TypeOK
    <2> QED
      BY <2>1, <2>2, ConfirmId
  <1>9. CASE VerifySucceeds \/ OutOfSync \/ FetchConfirmed \/ VerifyFails
    BY <1>9, ConfirmVerify
  <1>10. CASE Prune
    <2>1. /\ UNCHANGED <<pc, current, latest, nextId, lastConfirmed>>
          /\ DOMAIN cache' \subseteq DOMAIN cache /\ pc \notin {"readHead", "readBatch"}
      BY <1>10, Pruned DEF handling, UnsubscribedIds, Unsubscribed
    <2> QED
      BY <1>1, <2>1 DEF ConfirmInv, NoneConfirmed, StartsAfter, AsksAfter, ConfirmsAfter
  <1> QED
    BY <1>2, <1>3, <1>4, <1>5, <1>6, <1>7, <1>8, <1>9, <1>10 DEF Next

\* Between two items the cache holds no confirmed block, so that none is
\* proposed twice: get_l2_head_stream asks the node for later blocks only than
\* the one it handles, and drops the confirmed ones before it goes on
\* (L2Head.CacheUnconfirmed).
THEOREM CacheUnconfirmedCorrect == Spec => []CacheUnconfirmed
  <1>1. Init => TypeInv /\ ConfirmInv
    BY TypeInit, ConfirmInit
  <1>2. (TypeInv /\ ConfirmInv) /\ [Next]_vars => (TypeInv /\ ConfirmInv)'
    BY TypeStep, ConfirmStep
  <1>3. TypeInv /\ ConfirmInv => CacheUnconfirmed
    BY DEF ConfirmInv, NoneConfirmed, CacheUnconfirmed
  <1> QED
    BY <1>1, <1>2, <1>3, PTL DEF Spec

\* last_confirmed_block_id never goes back, although the two streams of ids
\* are merged without an order (L2Head.ConfirmedGrows).
THEOREM ConfirmedGrowsCorrect == Spec => ConfirmedGrows
  <1>1. Init => TypeInv /\ ConfirmInv
    BY TypeInit, ConfirmInit
  <1>2. (TypeInv /\ ConfirmInv) /\ [Next]_vars => (TypeInv /\ ConfirmInv)'
    BY TypeStep, ConfirmStep
  <1>3. (TypeInv /\ ConfirmInv) /\ [Next]_vars => [lastConfirmed' >= lastConfirmed]_vars
    BY ConfirmStep
  <1> QED
    BY <1>1, <1>2, <1>3, PTL DEF Spec, ConfirmedGrows
-----------------------------------------------------------------------------
(* False alarms.                                                           *)

\* No batch holds other blocks than those of the chain.
NoForeign == \A i \in DOMAIN inbox : ~inbox[i].foreign

Undisturbed == Calm /\ whole /\ NoForeign

\* Until main has opened a stream there is nothing in it.
StartInv ==
    /\ UnsubscribedIds =>
          /\ subscribedIds = <<>> /\ polledId = {} /\ first
          /\ polled = {} /\ lastSeen = Genesis
    /\ Unsubscribed =>
          subscribed = <<>> /\ lastPolled = Genesis /\ ~whole /\ lastConfirmed <= LastInInbox

\* Without foreign batches the chain holds the blocks of the inbox.
DerivedInv ==
    NoForeign =>
        \A i \in DOMAIN inbox : \A n \in DOMAIN inbox[i].blocks :
            n <= LastInInbox /\ n <= Len(chain) /\ chain[n] = inbox[i].blocks[n]

\* The blocks after this one are to be in the cache: a batch that is the first
\* to be confirmed is not verified.
Low == IF first THEN LastInInbox ELSE lastConfirmed

\* Nothing that is to be delivered changes the block of this number.
Untouched(n) == \A j \in DOMAIN subscribed : subscribed[j].number > n

\* The subscription ends with the head, and the last item that changes a block
\* of the chain is that block.
Replays ==
    /\ Untouched(0)
    /\ subscribed # <<>> => subscribed[Len(subscribed)] = ChainHead
    /\ \A j \in DOMAIN subscribed : \A n \in 1..Len(chain) :
          subscribed[j].number <= n =>
              \E k \in DOMAIN subscribed :
                  /\ j <= k /\ subscribed[k] = BlockAt(n)
                  /\ \A l \in DOMAIN subscribed : k < l => subscribed[l].number > n

\* A poll that has not been delivered is of the head; until something is, the
\* chain is the one that main has seen.
PollsHead ==
    /\ \A block \in polled : block = ChainHead /\ block = lastPolled
    /\ lastSeen = Genesis => lastPolled = Genesis \/ polled # {}

\* The last block that was let through is still cached.
SeenCached ==
    lastSeen.number > Low =>
        lastSeen.number \in DOMAIN cache /\ cache[lastSeen.number] = lastSeen.fork

\* So is every block that nothing will change; but for the head, which main
\* does not wait for.
UntouchedCached ==
    \A n \in (Low + 1)..Len(chain) :
        Untouched(n) /\ ~(lastSeen = Genesis /\ n = Len(chain)) =>
            n \in DOMAIN cache /\ cache[n] = chain[n]

\* What the node has answered is of the chain as far as nothing will change it.
FetchesHead ==
    /\ pc \in {"fetchLatest", "fetchId"} => current = lastSeen.number
    /\ pc = "fetchId" => \A n \in 1..Len(chain) :
          Untouched(n) => n <= latest.number /\ (n = latest.number => latest = BlockAt(n))

\* At most the last batch is unconfirmed, and everything before it was cached
\* when it was proposed.
OneUnconfirmed ==
    /\ lastConfirmed <= LastInInbox
    /\ \A i \in DOMAIN subscribedIds :
          subscribedIds[i] <= lastConfirmed \/ subscribedIds[i] = LastInInbox
    /\ \A id \in polledId : id <= lastConfirmed \/ id = LastInInbox
    /\ pc = "verify" => current = LastInInbox /\ ~first /\ lastConfirmed < LastInInbox
    /\ pc # "fetchConfirmed"
    /\ ~first /\ lastConfirmed < LastInInbox =>
          /\ lastSeen # Genesis /\ Untouched(LastInInbox)
          /\ DOMAIN LastBatch.blocks = (lastConfirmed + 1)..LastInInbox

Mirroring ==
    /\ Replays /\ PollsHead /\ SeenCached /\ UntouchedCached
    /\ FetchesHead /\ OneUnconfirmed

MirrorInv == Undisturbed => Mirroring

\* Initially main has not begun.
LEMMA MirrorInit == Init => StartInv /\ DerivedInv /\ MirrorInv
  BY DEF Init, StartInv, DerivedInv, MirrorInv, Undisturbed, LastInInbox, Unsubscribed,
         UnsubscribedIds

\* A batch is added to the inbox.
LEMMA BatchAdded ==
    ASSUME TypeInv, NEW last \in (LastInInbox + 1)..Len(chain),
           NEW blocks \in [(LastInInbox + 1)..last -> Forks], NEW foreign \in BOOLEAN,
           Propose(blocks, foreign)
    PROVE  /\ LastInInbox' = last /\ Max(DOMAIN blocks) = last
           /\ LastBatch' = [blocks |-> blocks, foreign |-> foreign]
           /\ Len(inbox) + 1 \in DOMAIN inbox' /\ inbox'[Len(inbox) + 1] = LastBatch'
           /\ \A i \in DOMAIN inbox : i \in DOMAIN inbox' /\ inbox'[i] = inbox[i]
           /\ \A i \in DOMAIN inbox' : i \in DOMAIN inbox \/ i = Len(inbox) + 1
  <1> DEFINE batch == [blocks |-> blocks, foreign |-> foreign]
  <1>1. /\ LastInInbox \in Numbers /\ inbox \in Seq(Batch) /\ MaxNumber \in Nat
        /\ Len(chain) \in Nat /\ Len(chain) <= MaxNumber
    BY LastInInboxType, HeadAssumption DEF TypeInv, TypeOK, InboxOK
  <1>2. LastInInbox + 1 \in Numbers /\ last \in Numbers /\ 0 < LastInInbox + 1
        /\ LastInInbox + 1 <= last
    BY <1>1 DEF Numbers
  <1>3. blocks \in Blocks /\ Max(DOMAIN blocks) = last
    BY <1>2, SpanBlocks
  <1>4. batch \in Batch /\ batch.blocks = blocks
    BY <1>3 DEF Batch
  <1>5. inbox' = Append(inbox, batch)
    BY DEF Propose
  <1> HIDE DEF batch
  <1>6. /\ inbox' \in Seq(Batch) /\ Len(inbox') = Len(inbox) + 1 /\ inbox' # <<>>
        /\ \A i \in 1..Len(inbox) : inbox'[i] = inbox[i]
        /\ inbox'[Len(inbox) + 1] = batch
    BY <1>1, <1>4, <1>5, AppendProperties
  <1>7. LastBatch' = batch
    BY <1>6 DEF LastBatch
  <1>8. LastInInbox' = last
    BY <1>3, <1>4, <1>6, <1>7 DEF LastInInbox, LastOf
  <1>9. /\ DOMAIN inbox = 1..Len(inbox) /\ DOMAIN inbox' = 1..(Len(inbox) + 1)
        /\ Len(inbox) \in Nat
    BY <1>1, <1>6
  <1> QED
    BY <1>3, <1>6, <1>7, <1>8, <1>9 DEF batch

\* What a batch that holds blocks of the chain, and any batch, does to the inbox.
LEMMA BatchProposed ==
    ASSUME TypeInv, ProposeChain \/ ProposeForeign
    PROVE  /\ LastInInbox' > LastInInbox /\ LastInInbox' <= Len(chain) /\ LastInInbox' \in Nat
           /\ NoForeign' =>
                 /\ NoForeign
                 /\ LastBatch'.blocks = [n \in (LastInInbox + 1)..LastInInbox' |-> chain[n]]
                 /\ \A i \in DOMAIN inbox' : inbox'[i] = LastBatch'
                                             \/ (i \in DOMAIN inbox /\ inbox'[i] = inbox[i])
           /\ \/ subscribedIds' = subscribedIds
              \/ ~UnsubscribedIds /\ subscribedIds' = Append(subscribedIds, LastInInbox')
           /\ env.settled => Idle
           /\ env.spaced => UnsubscribedIds \/ lastConfirmed = LastInInbox
           /\ UNCHANGED <<env, whole, chain, subscribed, polled, lastPolled, lastSeen, polledId,
                          pc, current, latest, nextId, cache, lastConfirmed, first, header>>
  <1>1. /\ chain \in Seq(Forks) /\ Len(chain) \in Nat /\ fork \in Forks /\ MaxFork \in Nat
        /\ LastInInbox \in Nat /\ env \in Environment
    BY HeadAssumption, LastInInboxType DEF TypeInv, TypeOK, InboxOK, Numbers
  <1>2. CASE ProposeChain
    <2>1. PICK last \in (LastInInbox + 1)..Len(chain) :
             Propose([n \in (LastInInbox + 1)..last |-> chain[n]], FALSE)
      BY <1>2 DEF ProposeChain
    <2> DEFINE blocks == [n \in (LastInInbox + 1)..last |-> chain[n]]
    <2>2. \A n \in (LastInInbox + 1)..last : chain[n] \in Forks
      BY <1>1
    <2>3. blocks \in [(LastInInbox + 1)..last -> Forks] /\ Propose(blocks, FALSE)
      BY <2>1, <2>2
    <2>4. blocks = [n \in (LastInInbox + 1)..last |-> chain[n]]
      OBVIOUS
    <2> HIDE DEF blocks
    <2>5. /\ LastInInbox' = last /\ Max(DOMAIN blocks) = last
          /\ LastBatch' = [blocks |-> blocks, foreign |-> FALSE]
          /\ Len(inbox) + 1 \in DOMAIN inbox' /\ inbox'[Len(inbox) + 1] = LastBatch'
          /\ \A i \in DOMAIN inbox : i \in DOMAIN inbox' /\ inbox'[i] = inbox[i]
          /\ \A i \in DOMAIN inbox' : i \in DOMAIN inbox \/ i = Len(inbox) + 1
      BY <2>3, BatchAdded
    <2>6. NoForeign' => NoForeign
      BY <2>5 DEF NoForeign
    <2>7. /\ \/ subscribedIds' = subscribedIds
             \/ ~UnsubscribedIds /\ subscribedIds' = Append(subscribedIds, LastInInbox')
          /\ env.settled => Idle
          /\ env.spaced => UnsubscribedIds \/ lastConfirmed = LastInInbox
          /\ UNCHANGED <<env, whole, chain, subscribed, polled, lastPolled, lastSeen, polledId,
                         pc, current, latest, nextId, cache, lastConfirmed, first, header>>
      BY <2>3, <2>5 DEF Propose, fixed, blockStreams, handling, shared
    <2>8. last > LastInInbox /\ last <= Len(chain) /\ last \in Nat
      BY <1>1, <2>1
    <2>9. LastBatch'.blocks = [n \in (LastInInbox + 1)..LastInInbox' |-> chain[n]]
      BY <2>4, <2>5
    <2>10. \A i \in DOMAIN inbox' : inbox'[i] = LastBatch'
                                    \/ (i \in DOMAIN inbox /\ inbox'[i] = inbox[i])
      BY <2>5
    <2> QED
      BY <2>5, <2>6, <2>7, <2>8, <2>9, <2>10
  <1>3. CASE ProposeForeign
    <2>1. PICK last \in (LastInInbox + 1)..Len(chain) :
             Propose([n \in (LastInInbox + 1)..last |-> fork + 1], TRUE)
      BY <1>3 DEF ProposeForeign
    <2> DEFINE blocks == [n \in (LastInInbox + 1)..last |-> fork + 1]
    <2>2. fork + 1 \in Forks
      BY <1>1, <1>3 DEF ProposeForeign, Environment, Forks
    <2>3. blocks \in [(LastInInbox + 1)..last -> Forks] /\ Propose(blocks, TRUE)
      BY <2>1, <2>2
    <2> HIDE DEF blocks
    <2>4. /\ LastInInbox' = last /\ Max(DOMAIN blocks) = last
          /\ LastBatch' = [blocks |-> blocks, foreign |-> TRUE]
          /\ Len(inbox) + 1 \in DOMAIN inbox' /\ inbox'[Len(inbox) + 1] = LastBatch'
      BY <2>3, BatchAdded
    <2>5. ~NoForeign'
      BY <2>4 DEF NoForeign
    <2>6. /\ \/ subscribedIds' = subscribedIds
             \/ ~UnsubscribedIds /\ subscribedIds' = Append(subscribedIds, LastInInbox')
          /\ env.settled => Idle
          /\ env.spaced => UnsubscribedIds \/ lastConfirmed = LastInInbox
          /\ UNCHANGED <<env, whole, chain, subscribed, polled, lastPolled, lastSeen, polledId,
                         pc, current, latest, nextId, cache, lastConfirmed, first, header>>
      BY <2>3, <2>4 DEF Propose, fixed, blockStreams, handling, shared
    <2>7. last > LastInInbox /\ last <= Len(chain) /\ last \in Nat
      BY <1>1, <2>1
    <2> QED
      BY <2>4, <2>5, <2>6, <2>7
  <1> QED
    BY <1>2, <1>3

\* Nor is there then anything to derive.
LEMMA NothingToDerive ==
    ASSUME TypeInv, DerivedInv, NoForeign
    PROVE  LastInInbox <= Len(chain) /\ Underived = {}
  <1>1. /\ LastInInbox \in Nat /\ Len(chain) \in Nat /\ inbox \in Seq(Batch)
    BY NumbersInt DEF TypeInv, InboxOK
  <1>2. LastInInbox <= Len(chain)
    <2>1. CASE LastInInbox = 0
      BY <1>1, <2>1
    <2>2. CASE LastInInbox # 0
      <3>1. LastInInbox \in 1..LastInInbox
        BY <1>1, <2>2
      <3>2. PICK i \in DOMAIN inbox : LastInInbox \in DOMAIN inbox[i].blocks
        BY <3>1 DEF TypeInv, InboxOK
      <3> QED
        BY <3>2 DEF DerivedInv
    <2> QED
      BY <2>1, <2>2
  <1>3. ASSUME NEW n \in 1..LastInInbox
        PROVE  ~(n > Len(chain) \/ \E i \in DOMAIN inbox :
                    n \in DOMAIN inbox[i].blocks /\ chain[n] # inbox[i].blocks[n])
    BY <1>1, <1>2 DEF DerivedInv
  <1> QED
    BY <1>2, <1>3 DEF Underived

\* Another head of the chain, after the blocks of the inbox.
LEMMA HeadSet ==
    ASSUME TypeInv, DerivedInv, NoForeign, NewBlock \/ Reorg \/ Derive
    PROVE  /\ \E m \in (LastInInbox + 1)..(Len(chain) + 1) :
                 /\ chain' \in Seq(Forks) /\ Len(chain') = m
                 /\ \A n \in 1..(m - 1) : chain'[n] = chain[n]
                 /\ ChainHead' \in Block /\ ChainHead'.number = m
           /\ ~Unsubscribed => subscribed' = Append(subscribed, ChainHead')
           /\ Unsubscribed => subscribed' = subscribed
           /\ env.keepsUp /\ ~Unsubscribed => lastPolled = ChainHead /\ polled = {}
           /\ UNCHANGED <<env, whole, inbox, polled, lastPolled, lastSeen, subscribedIds,
                          polledId, pc, current, latest, nextId, cache, lastConfirmed, first,
                          header>>
  <1>1. /\ chain \in Seq(Forks) /\ Len(chain) \in Nat /\ Len(chain) <= MaxNumber
        /\ fork \in Forks /\ MaxNumber \in Nat /\ MaxFork \in Nat /\ LastInInbox \in Nat
        /\ env \in Environment /\ LastInInbox <= Len(chain)
    BY HeadAssumption, NumbersInt, NothingToDerive DEF TypeInv, TypeOK
  <1>2. \E m \in (LastInInbox + 1)..(Len(chain) + 1), f \in Forks :
            m <= MaxNumber /\ SetHead(Append(SubSeq(chain, 1, m - 1), f)) /\ inbox' = inbox
    <2>1. CASE NewBlock
      <3>1. Len(chain) + 1 <= MaxNumber /\ Len(chain) + 1 \in (LastInInbox + 1)..(Len(chain) + 1)
        BY <1>1, <2>1 DEF NewBlock
      <3>2. SubSeq(chain, 1, Len(chain)) = chain /\ (Len(chain) + 1) - 1 = Len(chain)
        BY <1>1, SubSeqProperties
      <3>3. SetHead(Append(SubSeq(chain, 1, (Len(chain) + 1) - 1), fork)) /\ inbox' = inbox
        BY <2>1, <3>2 DEF NewBlock
      <3> QED
        BY <1>1, <3>1, <3>3
    <2>2. CASE Reorg
      <3>1. PICK n \in (LastInInbox + 1)..Len(chain) :
               SetHead(Append(SubSeq(chain, 1, n - 1), fork + 1))
        BY <2>2 DEF Reorg
      <3>2. n \in (LastInInbox + 1)..(Len(chain) + 1) /\ n <= MaxNumber
        BY <1>1, <3>1
      <3>3. fork + 1 \in Forks /\ inbox' = inbox
        BY <1>1, <2>2 DEF Reorg, Environment, Forks
      <3> QED
        BY <3>1, <3>2, <3>3
    <2>3. ~Derive
      BY NothingToDerive DEF Derive
    <2> QED
      BY <2>1, <2>2, <2>3
  <1>3. PICK m \in (LastInInbox + 1)..(Len(chain) + 1), f \in Forks :
            m <= MaxNumber /\ SetHead(Append(SubSeq(chain, 1, m - 1), f)) /\ inbox' = inbox
    BY <1>2
  <1> DEFINE old == SubSeq(chain, 1, m - 1)
             new == Append(old, f)
  <1>4. m \in 1..MaxNumber /\ m - 1 <= Len(chain) /\ m \in Numbers
    BY <1>1, <1>3 DEF Numbers
  <1>5. old \in Seq(Forks) /\ Len(old) = m - 1 /\ \A n \in 1..(m - 1) : old[n] = chain[n]
    <2>1. \A i \in 1..(m - 1) : chain[i] \in Forks
      BY <1>1, <1>4
    <2>2. 1 \in Int /\ m - 1 \in Int
      BY <1>4
    <2> HIDE DEF old
    <2>3. /\ old \in Seq(Forks)
          /\ Len(old) = IF 1 <= m - 1 THEN m - 1 - 1 + 1 ELSE 0
          /\ \A n \in 1..(m - 1 - 1 + 1) : old[n] = chain[1 + n - 1]
      BY <2>1, <2>2, SubSeqProperties DEF old
    <2>4. m - 1 - 1 + 1 = m - 1 /\ \A n \in 1..(m - 1) : 1 + n - 1 = n
      BY <1>4
    <2> QED
      BY <1>4, <2>3, <2>4
  <1> HIDE DEF old
  <1>6. /\ new \in Seq(Forks) /\ Len(new) = m /\ new[m] = f
        /\ \A n \in 1..(m - 1) : new[n] = chain[n]
    BY <1>4, <1>5, AppendProperties
  <1> HIDE DEF new
  <1>7. chain' = new
    BY <1>3 DEF SetHead, new, old
  <1>8. ChainHead' = [number |-> m, fork |-> f]
    BY <1>4, <1>6, <1>7 DEF ChainHead, BlockAt
  <1>9. ChainHead' \in Block /\ ChainHead'.number = m
    BY <1>4, <1>8 DEF Block
  <1>10. /\ ~Unsubscribed => subscribed' = Append(subscribed, ChainHead')
         /\ Unsubscribed => subscribed' = subscribed
    <2>1. subscribed' = IF Unsubscribed THEN subscribed
                        ELSE Append(subscribed, [number |-> Len(new), fork |-> new[Len(new)]])
      BY <1>3 DEF SetHead, new, old
    <2> QED
      BY <1>6, <1>8, <2>1
  <1>11. /\ env.keepsUp /\ ~Unsubscribed => lastPolled = ChainHead /\ polled = {}
         /\ UNCHANGED <<env, whole, inbox, polled, lastPolled, lastSeen, subscribedIds,
                        polledId, pc, current, latest, nextId, cache, lastConfirmed, first,
                        header>>
    BY <1>3 DEF SetHead, PollCaughtUp, fixed, idStreams, handling, shared
  <1> QED
    BY <1>6, <1>7, <1>9, <1>10, <1>11

\* The stream, main and the strategy do not change the chain nor the inbox.
LEMMA OnlyRead ==
    ASSUME \/ ReadHead \/ ReadBatch \/ ReadUnconfirmed \/ SubscribeBlocks \/ SubscribeIds
           \/ StartFails \/ Prune \/ StreamAction \/ NothingNew \/ UNCHANGED vars
    PROVE  UNCHANGED <<env, chain, inbox>> /\ ((whole' => whole) \/ SubscribeBlocks)
  <1>1. CASE Prune
    BY <1>1 DEF Prune, external
  <1>2. CASE ~Prune
    <2>1. UNCHANGED <<env, chain, inbox>> /\ (whole' = whole \/ SubscribeBlocks)
      BY <1>2 DEF ReadHead, ReadBatch, ReadUnconfirmed, SubscribeBlocks, SubscribeIds, StartFails,
         StreamAction, PollBlock, PollId, PollIdFails, ReceiveSubscribed, ReceivePolled,
         FetchLatest, FetchLatestFails, FetchId, AddLatest, ReceiveSubscribedId,
         ReceivePolledId, VerifySucceeds, OutOfSync, FetchConfirmed, VerifyFails, NothingNew,
         vars, fixed, external
    <2> QED
      BY <2>1
  <1> QED
    BY <1>1, <1>2

\* The chain holds the blocks of the inbox after every step.
LEMMA DerivedStep ==
    ASSUME TypeInv, DerivedInv, [Next]_vars
    PROVE  DerivedInv'
  <1>1. LastInInbox \in Nat /\ Len(chain) \in Nat
    BY NumbersInt
  <1>2. CASE NewBlock \/ Reorg \/ Derive
    <2>1. inbox' = inbox
      BY <1>2 DEF NewBlock, Reorg, Derive, SetHead
    <2>2. SUFFICES ASSUME NoForeign PROVE DerivedInv'
      BY <2>1 DEF DerivedInv, NoForeign
    <2>3. PICK m \in (LastInInbox + 1)..(Len(chain) + 1) :
             Len(chain') = m /\ \A n \in 1..(m - 1) : chain'[n] = chain[n]
      BY <1>2, <2>2, HeadSet
    <2>4. LastInInbox' = LastInInbox
      BY <2>1 DEF LastInInbox, LastBatch, LastOf
    <2>5. ASSUME NEW i \in DOMAIN inbox, NEW n \in DOMAIN inbox[i].blocks
          PROVE  n <= LastInInbox /\ n <= Len(chain') /\ chain'[n] = inbox[i].blocks[n]
      <3>1. n <= LastInInbox /\ chain[n] = inbox[i].blocks[n]
        BY <2>2, <2>5 DEF DerivedInv
      <3>2. n \in Nat /\ 0 < n
        BY <2>5, HeadAssumption DEF TypeInv, TypeOK, Numbers
      <3>3. n \in 1..(m - 1)
        BY <1>1, <2>3, <3>1, <3>2
      <3> QED
        BY <1>1, <2>3, <3>1, <3>3
    <2> QED
      BY <2>1, <2>4, <2>5 DEF DerivedInv
  <1>3. CASE ProposeChain \/ ProposeForeign
    <2>1. SUFFICES ASSUME NoForeign' PROVE DerivedInv'
      BY DEF DerivedInv
    <2>2. /\ LastInInbox' > LastInInbox /\ LastInInbox' <= Len(chain) /\ LastInInbox' \in Nat
          /\ NoForeign /\ chain' = chain
          /\ LastBatch'.blocks = [n \in (LastInInbox + 1)..LastInInbox' |-> chain[n]]
          /\ \A i \in DOMAIN inbox' : inbox'[i] = LastBatch'
                                      \/ (i \in DOMAIN inbox /\ inbox'[i] = inbox[i])
      BY <1>3, <2>1, BatchProposed
    <2>3. ASSUME NEW i \in DOMAIN inbox', NEW n \in DOMAIN inbox'[i].blocks
          PROVE  n <= LastInInbox' /\ n <= Len(chain) /\ chain[n] = inbox'[i].blocks[n]
      <3>1. CASE inbox'[i] = LastBatch'
        <4>1. n \in (LastInInbox + 1)..LastInInbox'
          BY <2>2, <2>3, <3>1
        <4>2. inbox'[i].blocks[n] = chain[n]
          BY <2>2, <3>1, <4>1
        <4> QED
          BY <1>1, <2>2, <4>1, <4>2
      <3>2. CASE i \in DOMAIN inbox /\ inbox'[i] = inbox[i]
        <4>1. n <= LastInInbox /\ n <= Len(chain) /\ chain[n] = inbox[i].blocks[n]
          BY <2>2, <2>3, <3>2 DEF DerivedInv
        <4>2. n \in Nat
          BY <2>3, <3>2, HeadAssumption DEF TypeInv, TypeOK, Numbers
        <4> QED
          BY <1>1, <2>2, <3>2, <4>1, <4>2
      <3> QED
        BY <2>2, <3>1, <3>2
    <2> QED
      BY <2>2, <2>3 DEF DerivedInv
  <1>4. CASE \/ ReadHead \/ ReadBatch \/ ReadUnconfirmed \/ SubscribeBlocks \/ SubscribeIds
             \/ StartFails \/ Prune \/ StreamAction \/ NothingNew \/ UNCHANGED vars
    <2>1. UNCHANGED <<chain, inbox>>
      BY <1>4, OnlyRead
    <2> QED
      BY <2>1 DEF DerivedInv, NoForeign, LastInInbox, LastBatch, LastOf
  <1> QED
    BY <1>2, <1>3, <1>4 DEF Next, StreamAction

\* What is not opened stays empty.
LEMMA StartStep ==
    ASSUME TypeInv, StartInv, [Next]_vars
    PROVE  StartInv'
  <1>1. LastInInbox \in Nat /\ lastConfirmed \in Nat
    BY NumbersInt
  <1>2. CASE NewBlock \/ Reorg \/ Derive
    <2>1. /\ UNCHANGED <<inbox, subscribedIds, polledId, first, polled, lastSeen, lastPolled, whole,
                         lastConfirmed, pc>>
          /\ Unsubscribed => subscribed' = subscribed
      BY <1>2 DEF NewBlock, Reorg, Derive, SetHead, fixed, idStreams, handling, shared
    <2> QED
      BY <2>1 DEF StartInv, Unsubscribed, UnsubscribedIds, LastInInbox, LastBatch, LastOf
  <1>3. CASE ProposeChain \/ ProposeForeign
    <2>1. /\ LastInInbox' > LastInInbox /\ LastInInbox' \in Nat
          /\ \/ subscribedIds' = subscribedIds
             \/ ~UnsubscribedIds /\ subscribedIds' = Append(subscribedIds, LastInInbox')
          /\ UNCHANGED <<subscribed, polledId, first, polled, lastSeen, lastPolled, whole,
                         lastConfirmed, pc>>
      BY <1>3, BatchProposed
    <2> QED
      BY <1>1, <2>1 DEF StartInv, Unsubscribed, UnsubscribedIds
  <1>4. CASE ReadHead \/ ReadBatch \/ ReadUnconfirmed \/ SubscribeIds \/ StartFails
    <2>1. /\ UNCHANGED <<inbox, subscribed, subscribedIds, polledId, first, polled, lastSeen, lastPolled,
                         whole>>
          /\ pc' = "exited" \/ lastConfirmed' \in {lastConfirmed, LastInInbox}
          /\ Unsubscribed' => Unsubscribed /\ (pc' = "idle" => pc = "subscribeIds")
          /\ UnsubscribedIds' => UnsubscribedIds
      BY <1>4 DEF ReadHead, ReadBatch, ReadUnconfirmed, SubscribeIds, StartFails, external, fixed,
                  blockStreams, idStreams, shared, Unsubscribed, UnsubscribedIds
    <2>2. LastInInbox' = LastInInbox
      BY <2>1 DEF LastInInbox, LastBatch, LastOf
    <2> QED
      BY <1>1, <2>1, <2>2 DEF StartInv, Unsubscribed, UnsubscribedIds
  <1>5. CASE SubscribeBlocks
    <2>1. /\ UNCHANGED <<subscribedIds, polledId, first, polled, lastSeen>>
          /\ ~Unsubscribed' /\ UnsubscribedIds
      BY <1>5 DEF SubscribeBlocks, blockStreams, idStreams, shared, Unsubscribed, UnsubscribedIds
    <2> QED
      BY <2>1 DEF StartInv
  <1>6. CASE StreamAction
    <2>1. ~UnsubscribedIds' /\ ~Unsubscribed'
      BY <1>6 DEF StreamAction, PollBlock, PollId, PollIdFails, ReceiveSubscribed, ReceivePolled,
         LetThrough, Handle, FetchLatest, FetchLatestFails, FetchId, AddLatest, DropAfter,
         ReceiveSubscribedId, ReceivePolledId, Confirm, VerifySucceeds, OutOfSync,
         FetchConfirmed, VerifyFails, Unsubscribed, UnsubscribedIds, handling
    <2> QED
      BY <2>1 DEF StartInv
  <1>7. CASE NothingNew \/ UNCHANGED vars
    <2>1. UNCHANGED <<inbox, subscribed, subscribedIds, polledId, first, polled, lastSeen, lastPolled,
                      whole, lastConfirmed, pc>>
      BY <1>7 DEF NothingNew, vars, fixed, external, blockStreams, idStreams, handling, shared
    <2> QED
      BY <2>1 DEF StartInv, Unsubscribed, UnsubscribedIds, LastInInbox, LastBatch, LastOf
  <1>8. CASE Prune
    <2>1. ~UnsubscribedIds' /\ ~Unsubscribed'
      BY <1>8, Pruned DEF UnsubscribedIds, Unsubscribed, handling
    <2> QED
      BY <2>1 DEF StartInv
  <1> QED
    BY <1>2, <1>3, <1>4, <1>5, <1>6, <1>7, <1>8 DEF Next, StreamAction

\* The types of what is delivered and cached, and where the inbox ends.
LEMMA Delivered ==
    ASSUME TypeInv, DerivedInv, Undisturbed, Mirroring
    PROVE  /\ subscribed \in Seq(Block) /\ Len(subscribed) \in Nat
           /\ \A j \in DOMAIN subscribed : subscribed[j] \in Block /\ subscribed[j].number \in Nat
           /\ lastSeen \in Block /\ lastSeen.number \in Nat /\ Low \in Nat
           /\ lastConfirmed <= Low /\ Low <= LastInInbox /\ LastInInbox <= Len(chain)
           /\ ChainHead \in Block /\ ChainHead.number = Len(chain) /\ ChainHead = BlockAt(Len(chain))
  <1>1. /\ LastInInbox \in Nat /\ lastConfirmed \in Nat /\ LastInInbox <= Len(chain)
    BY NumbersInt, NothingToDerive DEF Undisturbed
  <1>2. subscribed \in Seq(Block) /\ lastSeen \in Block
    BY DEF TypeInv, TypeOK
  <1>3. \A block \in Block : block.number \in Nat
    BY NumbersInt
  <1>4. Low \in Nat /\ lastConfirmed <= Low /\ Low <= LastInInbox
    BY <1>1 DEF Low, Mirroring, OneUnconfirmed
  <1>5. ChainHead \in Block /\ ChainHead.number = Len(chain) /\ ChainHead = BlockAt(Len(chain))
    BY ChainHeadType DEF TypeInv, ChainHead
  <1> QED
    BY <1>1, <1>2, <1>3, <1>4, <1>5

\* The number and the fork of a block of the chain.
LEMMA BlockOfChain ==
    ASSUME NEW n \in Nat, n > 0
    PROVE  BlockAt(n) = [number |-> n, fork |-> chain[n]]
  BY DEF BlockAt

\* The subscription gets every head; the poll has seen the one before.
LEMMA MirrorHead ==
    ASSUME TypeInv, StartInv, DerivedInv, Undisturbed, Mirroring, NewBlock \/ Reorg \/ Derive
    PROVE  Mirroring'
  <1>1. ~Unsubscribed /\ env.keepsUp /\ NoForeign
    BY DEF StartInv, Undisturbed, Calm
  <1>2. PICK m \in (LastInInbox + 1)..(Len(chain) + 1) :
            /\ Len(chain') = m /\ \A n \in 1..(m - 1) : chain'[n] = chain[n]
            /\ ChainHead' \in Block /\ ChainHead'.number = m
    BY <1>1, HeadSet
  <1>3. /\ subscribed' = Append(subscribed, ChainHead')
        /\ lastPolled = ChainHead /\ polled = {}
        /\ UNCHANGED <<env, whole, inbox, polled, lastPolled, lastSeen, subscribedIds,
                       polledId, pc, current, latest, nextId, cache, lastConfirmed, first>>
    BY <1>1, HeadSet
  <1>4. /\ subscribed \in Seq(Block) /\ Len(subscribed) \in Nat /\ Low \in Nat
        /\ \A j \in DOMAIN subscribed : subscribed[j].number \in Nat
        /\ LastInInbox \in Nat /\ Len(chain) \in Nat /\ m \in Nat /\ m > LastInInbox
        /\ m <= Len(chain) + 1 /\ Low <= LastInInbox /\ ChainHead.number = Len(chain)
    BY <1>2, Delivered, NumbersInt
  <1>5. /\ Len(subscribed') = Len(subscribed) + 1 /\ DOMAIN subscribed = 1..Len(subscribed)
        /\ DOMAIN subscribed' = 1..(Len(subscribed) + 1)
        /\ \A i \in DOMAIN subscribed : subscribed'[i] = subscribed[i]
        /\ subscribed'[Len(subscribed) + 1] = ChainHead'
    BY <1>2, <1>3, <1>4, AppendProperties
  <1>6. LastInInbox' = LastInInbox /\ Low' = Low /\ LastBatch' = LastBatch
    BY <1>3 DEF Low, LastInInbox, LastBatch, LastOf
  <1>7. ASSUME NEW n \in 1..(m - 1)
        PROVE  BlockAt(n)' = BlockAt(n) /\ n <= Len(chain)
    BY <1>2, <1>4, <1>7 DEF BlockAt
  <1>8. ASSUME NEW n \in Nat, Untouched(n)'
        PROVE  Untouched(n) /\ n < m
    <2>1. Len(subscribed) + 1 \in DOMAIN subscribed'
      BY <1>4, <1>5
    <2>2. ChainHead'.number > n
      BY <1>5, <1>8, <2>1 DEF Untouched
    <2>3. \A j \in DOMAIN subscribed : j \in DOMAIN subscribed'
      BY <1>4, <1>5
    <2> QED
      BY <1>2, <1>4, <1>5, <1>8, <2>2, <2>3 DEF Untouched
  <1>9. Replays'
    <2>1. Untouched(0)' /\ subscribed'[Len(subscribed')] = ChainHead'
      BY <1>2, <1>4, <1>5 DEF Untouched, Mirroring, Replays
    <2>2. ASSUME NEW j \in DOMAIN subscribed', NEW n \in 1..m, subscribed'[j].number <= n
          PROVE  \E k \in DOMAIN subscribed' :
                    /\ j <= k /\ subscribed'[k] = BlockAt(n)'
                    /\ \A l \in DOMAIN subscribed' : k < l => subscribed'[l].number > n
      <3>1. CASE n = m
        <4>1. BlockAt(m)' = ChainHead'
          BY <1>2 DEF ChainHead
        <4>2. Len(subscribed) + 1 \in DOMAIN subscribed' /\ j <= Len(subscribed) + 1
              /\ \A l \in DOMAIN subscribed' : ~(Len(subscribed) + 1 < l)
          BY <1>4, <1>5
        <4> QED
          BY <1>5, <3>1, <4>1, <4>2
      <3>2. CASE n # m
        <4>1. n \in 1..(m - 1) /\ n \in 1..Len(chain)
          BY <1>4, <3>2
        <4>2. j # Len(subscribed) + 1
          BY <1>2, <1>4, <1>5, <2>2, <4>1
        <4>3. j \in DOMAIN subscribed /\ subscribed[j].number <= n
          BY <1>4, <1>5, <2>2, <4>2
        <4>4. PICK k \in DOMAIN subscribed :
                 /\ j <= k /\ subscribed[k] = BlockAt(n)
                 /\ \A l \in DOMAIN subscribed : k < l => subscribed[l].number > n
          BY <4>1, <4>3 DEF Mirroring, Replays
        <4>5. k \in DOMAIN subscribed' /\ subscribed'[k] = BlockAt(n)'
          BY <1>4, <1>5, <1>7, <4>1, <4>4
        <4>6. ASSUME NEW l \in DOMAIN subscribed', k < l
              PROVE  subscribed'[l].number > n
          <5>1. CASE l = Len(subscribed) + 1
            BY <1>2, <1>4, <1>5, <4>1, <5>1
          <5>2. CASE l # Len(subscribed) + 1
            <6>1. l \in DOMAIN subscribed
              BY <1>4, <1>5, <5>2
            <6> QED
              BY <1>5, <4>4, <4>6, <6>1
          <5> QED
            BY <5>1, <5>2
        <4> QED
          BY <4>4, <4>5, <4>6
      <3> QED
        BY <3>1, <3>2
    <2> QED
      BY <1>2, <2>1, <2>2 DEF Replays
  <1>10. PollsHead'
    BY <1>3 DEF Mirroring, PollsHead
  <1>11. SeenCached'
    BY <1>3, <1>6 DEF Mirroring, SeenCached
  <1>12. UntouchedCached'
    <2>1. ASSUME NEW n \in (Low + 1)..m, Untouched(n)'
          PROVE  n \in DOMAIN cache /\ cache[n] = chain'[n]
      <3>1. n \in Nat /\ n > 0
        BY <1>4
      <3>2. Untouched(n) /\ n < m
        BY <1>8, <2>1, <3>1
      <3>3. n \in (Low + 1)..Len(chain) /\ n \in 1..(m - 1)
        BY <1>4, <3>1, <3>2
      <3>4. ~(lastSeen = Genesis /\ n = Len(chain))
        <4>1. lastSeen = Genesis => ChainHead = Genesis
          BY <1>3 DEF Mirroring, PollsHead
        <4>2. ChainHead = Genesis => Len(chain) = 0
          BY <1>4 DEF Genesis
        <4> QED
          BY <3>1, <4>1, <4>2
      <3> QED
        BY <1>2, <3>2, <3>3, <3>4 DEF Mirroring, UntouchedCached
    <2> QED
      BY <1>2, <1>3, <1>6, <2>1 DEF UntouchedCached
  <1>13. FetchesHead'
    <2>1. ASSUME NEW n \in 1..m, Untouched(n)', pc = "fetchId"
          PROVE  n <= latest.number /\ (n = latest.number => latest = BlockAt(n)')
      <3>1. Untouched(n) /\ n \in 1..(m - 1)
        BY <1>4, <1>8, <2>1
      <3>2. n \in 1..Len(chain) /\ BlockAt(n)' = BlockAt(n)
        BY <1>4, <1>7, <3>1
      <3> QED
        BY <2>1, <3>1, <3>2 DEF Mirroring, FetchesHead
    <2> QED
      BY <1>2, <1>3, <2>1 DEF Mirroring, FetchesHead
  <1>14. OneUnconfirmed'
    <2>1. Untouched(LastInInbox) => (\A j \in DOMAIN subscribed' : subscribed'[j].number > LastInInbox)
      BY <1>2, <1>4, <1>5 DEF Untouched
    <2> QED
      BY <1>3, <1>6, <2>1 DEF Mirroring, OneUnconfirmed, Untouched
  <1> QED
    BY <1>9, <1>10, <1>11, <1>12, <1>13, <1>14 DEF Mirroring

\* A batch is proposed when all that precedes it is delivered and confirmed.
LEMMA MirrorBatch ==
    ASSUME TypeInv, StartInv, DerivedInv, Undisturbed, Mirroring, NoForeign',
           ProposeChain \/ ProposeForeign
    PROVE  Mirroring'
  <1>1. /\ LastInInbox' > LastInInbox /\ LastInInbox' <= Len(chain) /\ LastInInbox' \in Nat
        /\ LastBatch'.blocks = [n \in (LastInInbox + 1)..LastInInbox' |-> chain[n]]
        /\ \/ subscribedIds' = subscribedIds
           \/ ~UnsubscribedIds /\ subscribedIds' = Append(subscribedIds, LastInInbox')
        /\ UnsubscribedIds \/ (Idle /\ lastConfirmed = LastInInbox)
        /\ UNCHANGED <<env, whole, chain, subscribed, polled, lastPolled, lastSeen, polledId,
                       pc, current, latest, nextId, cache, lastConfirmed, first, header>>
    BY BatchProposed DEF Undisturbed, Calm
  <1>2. /\ LastInInbox \in Nat /\ lastConfirmed \in Nat /\ Low \in Nat /\ Low <= LastInInbox
        /\ Len(chain) \in Nat /\ lastSeen.number \in Nat /\ lastConfirmed <= Low
        /\ ChainHead.number = Len(chain)
    BY NumbersInt, Delivered
  <1>3. Replays' /\ PollsHead' /\ FetchesHead'
    BY <1>1 DEF Mirroring, Replays, PollsHead, FetchesHead, Untouched, ChainHead, BlockAt
  <1>4. Low' \in Nat /\ Low <= Low'
    BY <1>1, <1>2 DEF Low
  <1>5. SeenCached'
    <2>1. PICK low \in Nat : Low' = low
      BY <1>4
    <2>2. lastSeen.number > low => lastSeen.number > Low
      BY <1>2, <1>4, <2>1
    <2>3. UNCHANGED <<lastSeen, cache>>
      BY <1>1
    <2>4. lastSeen.number > low =>
             lastSeen.number \in DOMAIN cache /\ cache[lastSeen.number] = lastSeen.fork
      BY <2>2 DEF Mirroring, SeenCached
    <2>5. lastSeen'.number > Low' =>
             lastSeen'.number \in DOMAIN cache' /\ cache'[lastSeen'.number] = lastSeen'.fork
      BY <2>1, <2>3, <2>4
    <2> QED
      BY <2>5 DEF SeenCached
  <1>6. UntouchedCached'
    <2>1. PICK low \in Nat : Low' = low
      BY <1>4
    <2>2. ASSUME NEW n \in (low + 1)..Len(chain), Untouched(n)',
                 ~(lastSeen = Genesis /\ n = Len(chain))
          PROVE  n \in DOMAIN cache /\ cache[n] = chain[n]
      <3>1. n \in (Low + 1)..Len(chain)
        BY <1>2, <1>4, <2>1
      <3>2. Untouched(n)
        BY <1>1, <2>2 DEF Untouched
      <3> QED
        BY <2>2, <3>1, <3>2 DEF Mirroring, UntouchedCached
    <2> QED
      BY <1>1, <2>1, <2>2 DEF UntouchedCached
  <1>7. CASE UnsubscribedIds
    <2>1. /\ subscribedIds' = <<>> /\ polledId' = {} /\ first' /\ pc' \notin {"verify", "fetchConfirmed"}
      BY <1>1, <1>7 DEF StartInv, UnsubscribedIds, Unsubscribed
    <2>2. lastConfirmed' <= LastInInbox'
      BY <1>1, <1>2
    <2>3. OneUnconfirmed'
      BY <2>1, <2>2 DEF OneUnconfirmed
    <2> QED
      BY <1>3, <1>5, <1>6, <2>3 DEF Mirroring
  <1>8. CASE ~UnsubscribedIds
    <2>1. /\ pc = "idle" /\ subscribed = <<>> /\ lastConfirmed = LastInInbox
          /\ lastSeen = Genesis => ChainHead = Genesis
      BY <1>1, <1>8 DEF Idle
    <2>2. lastSeen # Genesis
      BY <1>1, <1>2, <2>1 DEF Genesis
    <2>3. subscribedIds \in Seq(Numbers) /\ subscribedIds \in Seq(Nat) /\ polledId \subseteq Nat
      BY NumbersInt DEF TypeInv, TypeOK
    <2>4. \A i \in DOMAIN subscribedIds : subscribedIds[i] <= lastConfirmed
      BY <2>1 DEF Mirroring, OneUnconfirmed
    <2>5. \A i \in DOMAIN subscribedIds' :
             subscribedIds'[i] <= lastConfirmed' \/ subscribedIds'[i] = LastInInbox'
      <3>1. CASE subscribedIds' = subscribedIds
        BY <1>1, <2>4, <3>1
      <3>2. CASE subscribedIds' = Append(subscribedIds, LastInInbox')
        <4>1. /\ Len(subscribedIds') = Len(subscribedIds) + 1 /\ Len(subscribedIds) \in Nat
              /\ DOMAIN subscribedIds = 1..Len(subscribedIds)
              /\ DOMAIN subscribedIds' = 1..(Len(subscribedIds) + 1)
              /\ \A i \in DOMAIN subscribedIds : subscribedIds'[i] = subscribedIds[i]
              /\ subscribedIds'[Len(subscribedIds) + 1] = LastInInbox'
          BY <1>1, <2>3, <3>2, AppendProperties
        <4>2. \A i \in DOMAIN subscribedIds' : i \in DOMAIN subscribedIds \/ i = Len(subscribedIds) + 1
          BY <4>1
        <4> QED
          BY <1>1, <2>4, <4>1, <4>2
      <3> QED
        BY <1>1, <3>1, <3>2
    <2>6. \A id \in polledId' : id <= lastConfirmed' \/ id = LastInInbox'
      BY <1>1, <2>1 DEF Mirroring, OneUnconfirmed
    <2>7. lastConfirmed' <= LastInInbox'
      BY <1>1, <1>2
    <2>8. DOMAIN LastBatch'.blocks = (lastConfirmed' + 1)..LastInInbox'
      BY <1>1, <2>1
    <2>9. Untouched(LastInInbox)' /\ lastSeen' # Genesis /\ pc' = "idle"
      BY <1>1, <2>1, <2>2 DEF Untouched
    <2>10. OneUnconfirmed'
      BY <2>5, <2>6, <2>7, <2>8, <2>9 DEF OneUnconfirmed
    <2> QED
      BY <1>3, <1>5, <1>6, <2>10 DEF Mirroring
  <1> QED
    BY <1>7, <1>8

\* main has read all blocks but the head and opens the first stream.
LEMMA MirrorSubscribe ==
    ASSUME TypeInv, StartInv, DerivedInv, Undisturbed', SubscribeBlocks
    PROVE  Mirroring'
  <1>1. /\ pc = "readBlocks" /\ pc' = "subscribeIds" /\ whole'
        /\ whole' = \A n \in (LastInInbox + 1)..(Len(chain) - 1) :
                       n \in DOMAIN cache /\ cache[n] = chain[n]
        /\ UNCHANGED <<env, chain, inbox, subscribed, polled, lastPolled, lastSeen, subscribedIds,
                       polledId, cache, lastConfirmed, first>>
    BY DEF SubscribeBlocks, Undisturbed, external, blockStreams, idStreams, shared
  <1>2. /\ subscribedIds' = <<>> /\ polledId' = {} /\ first'
        /\ polled' = {} /\ lastSeen' = Genesis /\ subscribed' = <<>> /\ lastPolled' = Genesis
        /\ lastConfirmed' <= LastInInbox'
    BY <1>1 DEF StartInv, Unsubscribed, UnsubscribedIds, LastInInbox, LastBatch, LastOf
  <1>3. /\ LastInInbox \in Nat /\ Len(chain) \in Nat /\ LastInInbox' = LastInInbox
        /\ Low' = LastInInbox
    BY <1>1, <1>2, NumbersInt DEF LastInInbox, LastBatch, LastOf, Low
  <1>4. Replays' /\ PollsHead' /\ FetchesHead' /\ OneUnconfirmed'
    BY <1>1, <1>2 DEF Replays, PollsHead, FetchesHead, OneUnconfirmed, Untouched
  <1>5. SeenCached'
    BY <1>2, <1>3 DEF SeenCached, Genesis
  <1>6. UntouchedCached'
    <2>1. ASSUME NEW n \in (LastInInbox + 1)..Len(chain), n # Len(chain)
          PROVE  n \in DOMAIN cache /\ cache[n] = chain[n]
      <3>1. n \in (LastInInbox + 1)..(Len(chain) - 1)
        BY <1>3, <2>1
      <3> QED
        BY <1>1, <3>1
    <2> QED
      BY <1>1, <1>2, <1>3, <2>1 DEF UntouchedCached
  <1> QED
    BY <1>4, <1>5, <1>6 DEF Mirroring

\* What the cache holds after a block was let through.
LEMMA LetThroughCached ==
    ASSUME TypeInv, DerivedInv, Undisturbed, Mirroring, pc = "idle",
           NEW block \in Block, LetThrough(block)
    PROVE  /\ lastSeen' = block
           /\ \A n \in DOMAIN cache : n # block.number => n \in DOMAIN cache' /\ cache'[n] = cache[n]
           /\ block.number > Low =>
                 block.number \in DOMAIN cache' /\ cache'[block.number] = block.fork
           /\ pc' \in {"idle", "fetchLatest"}
           /\ pc' = "fetchLatest" => current' = block.number
           /\ UNCHANGED <<lastConfirmed, first, latest, nextId>>
  <1>1. lastConfirmed \in Nat /\ Low \in Nat /\ lastConfirmed <= Low /\ block.number \in Nat
    BY NumbersInt, Delivered
  <1>2. CASE block = lastSeen
    <2>1. UNCHANGED <<lastSeen, pc, cache, lastConfirmed, first, latest, nextId>>
      BY <1>2 DEF LetThrough, handling, shared
    <2>2. block.number > Low => block.number \in DOMAIN cache /\ cache[block.number] = block.fork
      BY <1>2 DEF Mirroring, SeenCached
    <2>3. lastSeen' = block /\ pc' = "idle" /\ cache' = cache
      BY <1>2, <2>1
    <2> QED
      BY <2>1, <2>2, <2>3
  <1>3. CASE block # lastSeen /\ block.number < lastConfirmed
    <2>1. lastSeen' = block /\ UNCHANGED <<pc, cache, lastConfirmed, first, latest, nextId>>
      BY <1>3 DEF LetThrough, Handle, handling, shared
    <2> QED
      BY <1>1, <1>3, <2>1
  <1>4. CASE block # lastSeen /\ ~(block.number < lastConfirmed)
    <2>1. /\ cache' = IF block.number > lastConfirmed THEN AddBlock(cache, block) ELSE cache
          /\ lastSeen' = block /\ current' = block.number
          /\ pc' \in {"fetchLatest", "idle"}
          /\ UNCHANGED <<latest, nextId, lastConfirmed, first>>
      BY <1>4 DEF LetThrough, Handle
    <2>2. /\ \A n \in DOMAIN cache : n # block.number =>
                n \in DOMAIN AddBlock(cache, block) /\ AddBlock(cache, block)[n] = cache[n]
          /\ block.number \in DOMAIN AddBlock(cache, block)
          /\ AddBlock(cache, block)[block.number] = block.fork
      BY DEF AddBlock
    <2> QED
      BY <1>1, <2>1, <2>2
  <1> QED
    BY <1>2, <1>3, <1>4

\* The subscription delivers a block.
LEMMA MirrorSubscribed ==
    ASSUME TypeInv, StartInv, DerivedInv, Undisturbed, Mirroring, ReceiveSubscribed
    PROVE  Mirroring'
  <1> DEFINE block == subscribed[1]
  <1>1. /\ pc = "idle" /\ subscribed # <<>> /\ LetThrough(block) /\ subscribed' = Tail(subscribed)
        /\ UNCHANGED <<env, whole, chain, inbox, polled, lastPolled, subscribedIds, polledId>>
    BY DEF ReceiveSubscribed, fixed, external, idStreams
  <1>2. /\ subscribed \in Seq(Block) /\ Len(subscribed) \in Nat /\ lastConfirmed \in Nat
        /\ \A j \in DOMAIN subscribed : subscribed[j] \in Block /\ subscribed[j].number \in Nat
        /\ Low \in Nat /\ lastConfirmed <= Low /\ Low <= LastInInbox /\ LastInInbox \in Nat
        /\ Len(chain) \in Nat /\ LastInInbox <= Len(chain) /\ ChainHead.number = Len(chain)
    BY NumbersInt, Delivered
  <1>3. /\ DOMAIN subscribed = 1..Len(subscribed) /\ Len(subscribed) > 0
        /\ Len(subscribed') = Len(subscribed) - 1 /\ DOMAIN subscribed' = 1..(Len(subscribed) - 1)
        /\ \A j \in DOMAIN subscribed' :
              j + 1 \in DOMAIN subscribed /\ subscribed'[j] = subscribed[j + 1]
    BY <1>1, <1>2, HeadTailProperties
  <1>4. ASSUME NEW k \in DOMAIN subscribed, k # 1
        PROVE  k - 1 \in DOMAIN subscribed' /\ subscribed'[k - 1] = subscribed[k]
    <2>1. k - 1 \in DOMAIN subscribed' /\ (k - 1) + 1 = k
      BY <1>2, <1>3, <1>4
    <2> QED
      BY <1>3, <2>1
  <1>5. block \in Block /\ block.number \in Nat /\ 1 \in DOMAIN subscribed
    BY <1>2, <1>3
  <1> HIDE DEF block
  <1>6. block = subscribed[1]
    BY DEF block
  <1>7. /\ lastSeen' = block
        /\ \A n \in DOMAIN cache : n # block.number => n \in DOMAIN cache' /\ cache'[n] = cache[n]
        /\ block.number > Low => block.number \in DOMAIN cache' /\ cache'[block.number] = block.fork
        /\ pc' \in {"idle", "fetchLatest"}
        /\ pc' = "fetchLatest" => current' = block.number
        /\ UNCHANGED <<lastConfirmed, first, latest, nextId>>
    BY <1>1, <1>5, LetThroughCached
  <1>8. LastInInbox' = LastInInbox /\ Low' = Low /\ LastBatch' = LastBatch /\ ChainHead' = ChainHead
        /\ \A n \in Nat : BlockAt(n)' = BlockAt(n)
    BY <1>1, <1>7 DEF Low, LastInInbox, LastBatch, LastOf, ChainHead, BlockAt
  <1>9. block.number > 0 /\ block # Genesis
    BY <1>5, <1>6 DEF Mirroring, Replays, Untouched, Genesis
  <1>10. ASSUME NEW n \in Nat, Untouched(n) PROVE Untouched(n)'
    BY <1>3, <1>10 DEF Untouched
  <1>11. Replays'
    <2>1. Untouched(0)'
      BY <1>10 DEF Mirroring, Replays
    <2>2. subscribed' # <<>> => subscribed'[Len(subscribed')] = ChainHead'
      <3>1. SUFFICES ASSUME subscribed' # <<>> PROVE subscribed'[Len(subscribed')] = ChainHead
        BY <1>8
      <3>2. Len(subscribed) - 1 \in DOMAIN subscribed' /\ (Len(subscribed) - 1) + 1 = Len(subscribed)
        BY <1>2, <1>3, <3>1
      <3> QED
        BY <1>1, <1>3, <3>2 DEF Mirroring, Replays
    <2>3. ASSUME NEW j \in DOMAIN subscribed', NEW n \in 1..Len(chain), subscribed'[j].number <= n
          PROVE  \E k \in DOMAIN subscribed' :
                    /\ j <= k /\ subscribed'[k] = BlockAt(n)
                    /\ \A l \in DOMAIN subscribed' : k < l => subscribed'[l].number > n
      <3>1. j \in Nat /\ j > 0 /\ j + 1 \in DOMAIN subscribed /\ subscribed[j + 1].number <= n
        BY <1>2, <1>3, <2>3
      <3>2. PICK k \in DOMAIN subscribed :
               /\ j + 1 <= k /\ subscribed[k] = BlockAt(n)
               /\ \A l \in DOMAIN subscribed : k < l => subscribed[l].number > n
        BY <3>1 DEF Mirroring, Replays
      <3>3. k \in Nat /\ k # 1 /\ j <= k - 1
        BY <1>2, <1>3, <3>1, <3>2
      <3>4. k - 1 \in DOMAIN subscribed' /\ subscribed'[k - 1] = BlockAt(n)
        BY <1>4, <3>2, <3>3
      <3>5. ASSUME NEW l \in DOMAIN subscribed', k - 1 < l
            PROVE  subscribed'[l].number > n
        <4>1. l + 1 \in DOMAIN subscribed /\ k < l + 1 /\ subscribed'[l] = subscribed[l + 1]
          BY <1>2, <1>3, <3>3, <3>5
        <4> QED
          BY <3>2, <4>1
      <3> QED
        BY <3>3, <3>4, <3>5
    <2> QED
      BY <1>1, <1>8, <2>1, <2>2, <2>3 DEF Replays
  <1>12. PollsHead'
    BY <1>1, <1>7, <1>8, <1>9 DEF Mirroring, PollsHead
  <1>13. SeenCached'
    BY <1>7, <1>8 DEF SeenCached
  <1>14. UntouchedCached'
    <2>1. ASSUME NEW n \in (Low + 1)..Len(chain), Untouched(n)'
          PROVE  n \in DOMAIN cache' /\ cache'[n] = chain[n]
      <3>1. n \in Nat /\ n > 0 /\ n > Low /\ n <= Len(chain)
        BY <1>2
      <3>2. CASE block.number > n
        <4>1. Untouched(n)
          <5>1. \A k \in DOMAIN subscribed : k # 1 => subscribed[k].number > n
            BY <1>4, <2>1 DEF Untouched
          <5> QED
            BY <1>6, <3>2, <5>1 DEF Untouched
        <4>2. n # Len(chain)
          <5>1. Len(subscribed) \in DOMAIN subscribed /\ subscribed[Len(subscribed)] = ChainHead
            BY <1>1, <1>2, <1>3 DEF Mirroring, Replays
          <5>2. Len(chain) > n
            BY <1>2, <4>1, <5>1 DEF Untouched
          <5> QED
            BY <1>2, <3>1, <5>2
        <4>3. n \in DOMAIN cache /\ cache[n] = chain[n]
          BY <4>1, <4>2 DEF Mirroring, UntouchedCached
        <4>4. n # block.number
          BY <1>5, <3>1, <3>2
        <4> QED
          BY <1>7, <4>3, <4>4
      <3>3. CASE ~(block.number > n)
        <4>1. n \in 1..Len(chain) /\ subscribed[1].number <= n
          BY <1>2, <1>5, <1>6, <3>1, <3>3
        <4>2. PICK k \in DOMAIN subscribed : subscribed[k] = BlockAt(n)
          BY <1>5, <4>1 DEF Mirroring, Replays
        <4>3. BlockAt(n) = [number |-> n, fork |-> chain[n]]
          BY <3>1, BlockOfChain
        <4>4. k = 1
          <5>1. SUFFICES ASSUME k # 1 PROVE FALSE
            OBVIOUS
          <5>2. k - 1 \in DOMAIN subscribed' /\ subscribed'[k - 1].number = n
            BY <1>4, <4>2, <4>3, <5>1
          <5>3. subscribed'[k - 1].number > n
            BY <2>1, <5>2 DEF Untouched
          <5> QED
            BY <3>1, <5>2, <5>3
        <4>5. block.number = n /\ block.fork = chain[n]
          BY <1>6, <4>2, <4>3, <4>4
        <4> QED
          BY <1>7, <3>1, <4>5
      <3> QED
        BY <3>2, <3>3
    <2> QED
      BY <1>1, <1>8, <2>1 DEF UntouchedCached
  <1>15. FetchesHead'
    BY <1>7 DEF FetchesHead
  <1>16. OneUnconfirmed'
    BY <1>1, <1>2, <1>7, <1>8, <1>9, <1>10 DEF Mirroring, OneUnconfirmed
  <1> QED
    BY <1>11, <1>12, <1>13, <1>14, <1>15, <1>16 DEF Mirroring

\* The poll delivers the head.
LEMMA MirrorPolled ==
    ASSUME TypeInv, StartInv, DerivedInv, Undisturbed, Mirroring, ReceivePolled
    PROVE  Mirroring'
  <1>1. PICK block \in polled : LetThrough(block)
    BY DEF ReceivePolled
  <1>2. /\ pc = "idle" /\ polled' = {}
        /\ UNCHANGED <<env, whole, chain, inbox, subscribed, lastPolled, subscribedIds, polledId>>
    BY DEF ReceivePolled, fixed, external, idStreams
  <1>3. /\ lastConfirmed \in Nat /\ Low \in Nat /\ lastConfirmed <= Low /\ Low <= LastInInbox
        /\ LastInInbox \in Nat /\ Len(chain) \in Nat /\ LastInInbox <= Len(chain)
        /\ ChainHead \in Block /\ ChainHead.number = Len(chain) /\ ChainHead = BlockAt(Len(chain))
    BY NumbersInt, Delivered
  <1>4. block = ChainHead /\ block = lastPolled
    BY <1>1 DEF Mirroring, PollsHead
  <1>5. /\ lastSeen' = block
        /\ \A n \in DOMAIN cache : n # block.number => n \in DOMAIN cache' /\ cache'[n] = cache[n]
        /\ block.number > Low => block.number \in DOMAIN cache' /\ cache'[block.number] = block.fork
        /\ pc' \in {"idle", "fetchLatest"}
        /\ pc' = "fetchLatest" => current' = block.number
        /\ UNCHANGED <<lastConfirmed, first, latest, nextId>>
    BY <1>1, <1>2, <1>3, <1>4, LetThroughCached
  <1>6. LastInInbox' = LastInInbox /\ Low' = Low /\ LastBatch' = LastBatch /\ ChainHead' = ChainHead
        /\ \A n \in Nat : BlockAt(n)' = BlockAt(n) /\ Untouched(n)' = Untouched(n)
    BY <1>2, <1>5 DEF Low, LastInInbox, LastBatch, LastOf, ChainHead, BlockAt, Untouched
  <1>7. Replays'
    BY <1>2 DEF Mirroring, Replays, Untouched, ChainHead, BlockAt
  <1>8. PollsHead'
    BY <1>2, <1>4, <1>5 DEF PollsHead
  <1>9. SeenCached'
    BY <1>5, <1>6 DEF SeenCached
  <1>10. UntouchedCached'
    <2>1. ASSUME NEW n \in (Low + 1)..Len(chain), Untouched(n)
          PROVE  n \in DOMAIN cache' /\ cache'[n] = chain[n]
      <3>1. n \in Nat /\ n > 0 /\ n > Low /\ n <= Len(chain)
        BY <1>3
      <3>2. CASE n = Len(chain)
        <4>1. block = [number |-> n, fork |-> chain[n]]
          BY <1>3, <1>4, <3>1, <3>2, BlockOfChain
        <4> QED
          BY <1>5, <3>1, <4>1
      <3>3. CASE n # Len(chain)
        <4>1. n \in DOMAIN cache /\ cache[n] = chain[n]
          BY <2>1, <3>3 DEF Mirroring, UntouchedCached
        <4> QED
          BY <1>3, <1>4, <1>5, <3>3, <4>1
      <3> QED
        BY <3>2, <3>3
    <2> QED
      BY <1>2, <1>3, <1>6, <2>1 DEF UntouchedCached
  <1>11. FetchesHead'
    BY <1>5 DEF FetchesHead
  <1>12. OneUnconfirmed'
    <2>1. lastConfirmed < LastInInbox => block # Genesis
      BY <1>3, <1>4 DEF Genesis
    <2> QED
      BY <1>2, <1>3, <1>5, <1>6, <2>1 DEF Mirroring, OneUnconfirmed
  <1> QED
    BY <1>7, <1>8, <1>9, <1>10, <1>11, <1>12 DEF Mirroring

\* A step that changes neither the chain nor what is delivered keeps what is
\* cached of it, if the blocks that nothing will change stay in the cache.
LEMMA MirrorCached ==
    ASSUME TypeInv, DerivedInv, Undisturbed, Mirroring,
           UNCHANGED <<chain, inbox, subscribed, polled, lastPolled, lastSeen>>,
           Low' \in Nat, Low' >= Low,
           lastSeen.number > Low' /\ lastSeen.number \in DOMAIN cache =>
              /\ lastSeen.number \in DOMAIN cache'
              /\ cache'[lastSeen.number] = cache[lastSeen.number],
           \A n \in 1..Len(chain) :
              n > Low' /\ Untouched(n) /\ n \in DOMAIN cache /\ cache[n] = chain[n] =>
                  n \in DOMAIN cache' /\ cache'[n] = chain[n]
    PROVE  /\ Replays' /\ PollsHead' /\ SeenCached' /\ UntouchedCached'
           /\ LastInInbox' = LastInInbox /\ LastBatch' = LastBatch
  <1>1. Low \in Nat /\ lastSeen.number \in Nat /\ Len(chain) \in Nat
    BY NumbersInt, Delivered
  <1>2. PICK low \in Nat : Low' = low
    OBVIOUS
  <1>3. Replays' /\ PollsHead'
    BY DEF Mirroring, Replays, PollsHead, Untouched, ChainHead, BlockAt
  <1>4. SeenCached'
    <2>1. SUFFICES ASSUME lastSeen.number > low
                   PROVE  /\ lastSeen.number \in DOMAIN cache'
                          /\ cache'[lastSeen.number] = lastSeen.fork
      BY <1>2 DEF SeenCached
    <2>2. lastSeen.number > Low
      BY <1>1, <1>2, <2>1
    <2>3. lastSeen.number \in DOMAIN cache /\ cache[lastSeen.number] = lastSeen.fork
      BY <2>2 DEF Mirroring, SeenCached
    <2> QED
      BY <1>2, <2>1, <2>3
  <1>5. UntouchedCached'
    <2>1. ASSUME NEW n \in (low + 1)..Len(chain), Untouched(n),
                 ~(lastSeen = Genesis /\ n = Len(chain))
          PROVE  n \in DOMAIN cache' /\ cache'[n] = chain[n]
      <3>1. n \in (Low + 1)..Len(chain) /\ n \in 1..Len(chain) /\ n > low
        BY <1>1, <1>2
      <3>2. n \in DOMAIN cache /\ cache[n] = chain[n]
        BY <2>1, <3>1 DEF Mirroring, UntouchedCached
      <3> QED
        BY <1>2, <2>1, <3>1, <3>2
    <2>2. \A n \in Nat : Untouched(n)' = Untouched(n)
      BY DEF Untouched
    <2>3. \A n \in (low + 1)..Len(chain) : n \in Nat
      BY <1>1, <1>2
    <2> QED
      BY <1>2, <2>1, <2>2, <2>3 DEF UntouchedCached
  <1> QED
    BY <1>3, <1>4, <1>5 DEF LastInInbox, LastBatch, LastOf

\* The node is asked for later blocks and answers with those of the chain.
LEMMA MirrorFetch ==
    ASSUME TypeInv, ConfirmInv, StartInv, DerivedInv, Undisturbed, Mirroring,
           FetchLatest \/ FetchLatestFails \/ FetchId \/ AddLatest
    PROVE  Mirroring'
  <1>1. /\ current \in Nat /\ latest.number \in Nat /\ nextId \in Nat /\ Len(chain) \in Nat
        /\ DOMAIN cache \subseteq Nat /\ Low \in Nat /\ lastSeen.number \in Nat
        /\ latest \in Block /\ lastConfirmed \in Nat /\ LastInInbox \in Nat
    BY NumbersInt, Delivered
  <1>2. /\ pc \in {"fetchLatest", "fetchId"} /\ current = lastSeen.number
        /\ UNCHANGED <<env, whole, chain, inbox, subscribed, polled, lastPolled, lastSeen,
                       subscribedIds, polledId, current, lastConfirmed, first>>
    BY DEF FetchLatest, FetchLatestFails, FetchId, AddLatest, fixed, external, blockStreams,
           idStreams, DropAfter, Mirroring, FetchesHead
  <1>3. pc' \in {"fetchId", "idle"}
    BY DEF FetchLatest, FetchLatestFails, FetchId, AddLatest, DropAfter
  <1>4. Low' = Low /\ Low' \in Nat /\ Low' >= Low
    BY <1>1, <1>2 DEF Low, LastInInbox, LastBatch, LastOf
  <1>5. OneUnconfirmed'
    BY <1>2, <1>3 DEF Mirroring, OneUnconfirmed, Untouched, LastInInbox, LastBatch, LastOf
  <1>6. SUFFICES
          /\ lastSeen.number \in DOMAIN cache =>
                lastSeen.number \in DOMAIN cache' /\ cache'[lastSeen.number] = cache[lastSeen.number]
          /\ \A n \in 1..Len(chain) :
                Untouched(n) /\ n \in DOMAIN cache /\ cache[n] = chain[n] =>
                    n \in DOMAIN cache' /\ cache'[n] = chain[n]
          /\ FetchesHead'
    BY <1>2, <1>4, <1>5, MirrorCached DEF Mirroring
  <1>7. CASE FetchLatest /\ Len(chain) > current
    <2>1. pc' = "fetchId" /\ latest' = ChainHead /\ cache' = cache
      BY <1>7 DEF FetchLatest
    <2>2. ChainHead.number = Len(chain) /\ ChainHead = BlockAt(Len(chain))
      BY Delivered
    <2>3. \A n \in 1..Len(chain) : n <= latest'.number /\ (n = latest'.number => latest' = BlockAt(n))
      BY <1>1, <2>1, <2>2
    <2>4. \A n \in 1..Len(chain) : BlockAt(n)' = BlockAt(n)
      BY <1>2 DEF BlockAt
    <2>5. FetchesHead'
      BY <1>2, <2>1, <2>3, <2>4 DEF FetchesHead
    <2> QED
      BY <2>1, <2>5
  <1>8. CASE FetchLatest /\ ~(Len(chain) > current)
    <2>1. pc' = "idle" /\ cache' = Retain(cache, 0..current)
      BY <1>8 DEF FetchLatest, DropAfter
    <2>2. \A n \in DOMAIN cache : n <= current => n \in DOMAIN cache' /\ cache'[n] = cache[n]
      BY <1>1, <2>1 DEF Retain
    <2>3. \A n \in 1..Len(chain) : n <= current
      BY <1>1, <1>8
    <2>4. lastSeen.number <= current
      BY <1>1, <1>2
    <2>5. FetchesHead'
      BY <2>1 DEF FetchesHead
    <2> QED
      BY <2>2, <2>3, <2>4, <2>5
  <1>9. ~FetchLatestFails
    BY DEF FetchLatestFails, Undisturbed, Calm
  <1>10. CASE FetchId
    <2>1. /\ pc = "fetchId" /\ pc' = "fetchId" /\ UNCHANGED <<latest, current>>
          /\ cache' = cache \/ (nextId <= Len(chain) /\ cache' = AddBlock(cache, BlockAt(nextId)))
      BY <1>10 DEF FetchId
    <2>2. current < nextId
      BY <2>1 DEF ConfirmInv, AsksAfter
    <2>3. nextId > 0 /\ BlockAt(nextId) = [number |-> nextId, fork |-> chain[nextId]]
      BY <1>1, <2>2, BlockOfChain
    <2>4. /\ \A n \in DOMAIN cache : n # nextId => n \in DOMAIN cache' /\ cache'[n] = cache[n]
          /\ \A n \in DOMAIN cache : cache[n] = chain[n] => n \in DOMAIN cache' /\ cache'[n] = chain[n]
      BY <2>1, <2>3 DEF AddBlock
    <2>5. lastSeen.number # nextId
      BY <1>1, <1>2, <2>2
    <2>6. FetchesHead'
      BY <1>2, <2>1 DEF Mirroring, FetchesHead, Untouched, BlockAt
    <2> QED
      BY <2>4, <2>5, <2>6
  <1>11. CASE AddLatest
    <2>1. /\ pc = "fetchId" /\ pc' = "idle"
          /\ cache' = Retain(AddBlock(cache, latest), 0..latest.number)
      BY <1>11 DEF AddLatest, DropAfter
    <2>2. current < latest.number
      BY <2>1 DEF ConfirmInv, AsksAfter
    <2>3. /\ \A n \in DOMAIN cache : n < latest.number => n \in DOMAIN cache' /\ cache'[n] = cache[n]
          /\ latest.number \in DOMAIN cache' /\ cache'[latest.number] = latest.fork
      BY <1>1, <2>1 DEF Retain, AddBlock
    <2>4. ASSUME NEW n \in 1..Len(chain), Untouched(n), n \in DOMAIN cache, cache[n] = chain[n]
          PROVE  n \in DOMAIN cache' /\ cache'[n] = chain[n]
      <3>1. n <= latest.number /\ (n = latest.number => latest = BlockAt(n))
        BY <2>1, <2>4 DEF Mirroring, FetchesHead
      <3>2. CASE n = latest.number
        <4>1. latest = [number |-> n, fork |-> chain[n]]
          BY <1>1, <3>1, <3>2, BlockOfChain
        <4> QED
          BY <2>3, <3>2, <4>1
      <3>3. CASE n # latest.number
        BY <1>1, <2>3, <2>4, <3>1, <3>3
      <3> QED
        BY <3>2, <3>3
    <2>5. lastSeen.number < latest.number
      BY <1>1, <1>2, <2>2
    <2>6. FetchesHead'
      BY <2>1 DEF FetchesHead
    <2> QED
      BY <2>3, <2>4, <2>5, <2>6
  <1> QED
    BY <1>7, <1>8, <1>9, <1>10, <1>11

\* No block is later than the highest number.
LEMMA AtMostMaxNumber ==
    ASSUME TypeInv
    PROVE  MaxNumber \in Nat /\ Len(chain) <= MaxNumber /\ lastSeen.number <= MaxNumber
  <1>1. MaxNumber \in Nat
    BY HeadAssumption
  <1>2. Len(chain) <= MaxNumber /\ lastSeen \in Block
    BY DEF TypeInv, TypeOK
  <1>3. lastSeen.number \in 0..MaxNumber
    BY <1>2 DEF Block, Numbers
  <1> QED
    BY <1>1, <1>2, <1>3

\* A confirmed id is that of the last batch or one that was confirmed.
LEMMA MirrorId ==
    ASSUME TypeInv, StartInv, DerivedInv, Undisturbed, Mirroring, pc = "idle",
           NEW id \in Nat, id <= lastConfirmed \/ id = LastInInbox, Confirm(id),
           UNCHANGED <<env, whole, chain, inbox, subscribed, polled, lastPolled, lastSeen>>,
           \A i \in DOMAIN subscribedIds' : \E k \in DOMAIN subscribedIds :
               subscribedIds'[i] = subscribedIds[k],
           polledId' \subseteq polledId
    PROVE  Mirroring'
  <1>1. /\ lastConfirmed \in Nat /\ LastInInbox \in Nat /\ Low \in Nat /\ Len(chain) \in Nat
        /\ lastSeen.number \in Nat /\ MaxNumber \in Nat /\ Len(chain) <= MaxNumber
        /\ lastSeen.number <= MaxNumber /\ DOMAIN cache \subseteq Nat
        /\ LastInInbox <= Len(chain)
    BY NumbersInt, Delivered, AtMostMaxNumber
  <1>2. /\ \A i \in DOMAIN subscribedIds' :
              subscribedIds'[i] <= lastConfirmed \/ subscribedIds'[i] = LastInInbox
        /\ \A x \in polledId' : x <= lastConfirmed \/ x = LastInInbox
    BY DEF Mirroring, OneUnconfirmed
  <1>3. LastInInbox' = LastInInbox /\ LastBatch' = LastBatch
        /\ \A n \in Nat : Untouched(n)' = Untouched(n)
    BY DEF LastInInbox, LastBatch, LastOf, Untouched
  <1>4. CASE id = lastSeenId \/ id <= lastConfirmed
    <2>1. UNCHANGED <<pc, current, latest, nextId, cache, lastConfirmed, first>>
      BY <1>4 DEF Confirm, handling, shared
    <2>2. Low' = Low /\ Low' \in Nat /\ Low' >= Low
      BY <1>1, <1>3, <2>1 DEF Low
    <2>3. Replays' /\ PollsHead' /\ SeenCached' /\ UntouchedCached'
      BY <2>1, <2>2, MirrorCached
    <2>4. FetchesHead'
      BY <2>1 DEF FetchesHead
    <2>5. OneUnconfirmed'
      BY <1>1, <1>2, <1>3, <2>1 DEF Mirroring, OneUnconfirmed
    <2> QED
      BY <2>3, <2>4, <2>5 DEF Mirroring
  <1>5. CASE ~(id = lastSeenId \/ id <= lastConfirmed)
    <2>1. id = LastInInbox /\ id > lastConfirmed /\ current' = id /\ first' = FALSE
      BY <1>1, <1>5 DEF Confirm
    <2>2. CASE first
      <3>1. /\ cache' = Retain(cache, (id + 1)..MaxNumber) /\ lastConfirmed' = id /\ pc' = "idle"
        BY <1>5, <2>2 DEF Confirm
      <3>2. Low = id /\ Low' = id /\ Low' \in Nat /\ Low' >= Low
        BY <1>1, <2>1, <2>2, <3>1 DEF Low
      <3>3. \A n \in DOMAIN cache : n > id /\ n <= MaxNumber =>
               n \in DOMAIN cache' /\ cache'[n] = cache[n]
        BY <1>1, <3>1 DEF Retain
      <3>4. \A n \in 1..Len(chain) : n <= MaxNumber
        BY <1>1
      <3>5. Replays' /\ PollsHead' /\ SeenCached' /\ UntouchedCached'
        BY <1>1, <3>2, <3>3, <3>4, MirrorCached
      <3>6. FetchesHead'
        BY <3>1 DEF FetchesHead
      <3>7. /\ \A i \in DOMAIN subscribedIds' :
                  subscribedIds'[i] <= lastConfirmed' \/ subscribedIds'[i] = LastInInbox
            /\ \A x \in polledId' : x <= lastConfirmed' \/ x = LastInInbox
        <4>1. /\ \A i \in DOMAIN subscribedIds' : subscribedIds'[i] \in Nat
              /\ \A x \in polledId' : x \in Nat
          BY NumbersInt DEF TypeInv, TypeOK
        <4> QED
          BY <1>1, <1>2, <2>1, <3>1, <4>1
      <3>8. OneUnconfirmed'
        BY <1>1, <1>3, <2>1, <3>1, <3>7 DEF OneUnconfirmed
      <3> QED
        BY <3>5, <3>6, <3>8 DEF Mirroring
    <2>3. CASE ~first
      <3>1. pc' = "verify" /\ UNCHANGED <<cache, lastConfirmed>> /\ first' = first
        BY <1>5, <2>1, <2>3 DEF Confirm, TypeInv, TypeOK
      <3>2. Low' = Low /\ Low' \in Nat /\ Low' >= Low
        BY <1>1, <1>3, <3>1 DEF Low
      <3>3. Replays' /\ PollsHead' /\ SeenCached' /\ UntouchedCached'
        BY <3>1, <3>2, MirrorCached
      <3>4. FetchesHead'
        BY <3>1 DEF FetchesHead
      <3>5. OneUnconfirmed'
        BY <1>1, <1>2, <1>3, <2>1, <2>3, <3>1 DEF Mirroring, OneUnconfirmed
      <3> QED
        BY <3>3, <3>4, <3>5 DEF Mirroring
    <2> QED
      BY <2>2, <2>3
  <1> QED
    BY <1>4, <1>5

\* The cached blocks up to the end of the last batch are those of the batch.
LEMMA NoAlarm ==
    ASSUME TypeInv, ConfirmInv, DerivedInv, Undisturbed, Mirroring, pc = "verify"
    PROVE  Verified
  <1>1. /\ LastInInbox \in Nat /\ lastConfirmed \in Nat /\ Len(chain) \in Nat
        /\ LastInInbox <= Len(chain) /\ DOMAIN cache \subseteq Nat
        /\ \A j \in DOMAIN subscribed : subscribed[j].number \in Nat
    BY NumbersInt, Delivered
  <1>2. /\ ~first /\ lastConfirmed < LastInInbox /\ lastSeen # Genesis /\ Untouched(LastInInbox)
        /\ DOMAIN LastBatch.blocks = (lastConfirmed + 1)..LastInInbox
    BY DEF Mirroring, OneUnconfirmed
  <1>3. inbox # <<>>
    BY <1>1, <1>2 DEF LastInInbox
  <1>4. Len(inbox) \in DOMAIN inbox /\ LastBatch = inbox[Len(inbox)] /\ LastBatch \in Batch
    BY <1>3 DEF LastBatch, TypeInv, InboxOK
  <1>5. LastOf(LastBatch) = LastInInbox
    BY <1>3 DEF LastInInbox
  <1>6. LastBatch.blocks = [n \in DOMAIN LastBatch.blocks |-> LastBatch.blocks[n]]
    <2>1. LastBatch.blocks \in Blocks
      BY <1>4 DEF Batch
    <2>2. PICK a \in Numbers, z \in Numbers : LastBatch.blocks \in [a..z -> Forks]
      BY <2>1, BlocksSpan
    <2> QED
      BY <2>2
  <1>7. ASSUME NEW n \in (lastConfirmed + 1)..LastInInbox
        PROVE  n \in DOMAIN cache /\ cache[n] = LastBatch.blocks[n]
    <2>1. n \in (Low + 1)..Len(chain) /\ n <= LastInInbox /\ n \in Nat
      BY <1>1, <1>2 DEF Low
    <2>2. Untouched(n)
      BY <1>1, <1>2, <2>1 DEF Untouched
    <2>3. n \in DOMAIN cache /\ cache[n] = chain[n]
      BY <1>2, <2>1, <2>2 DEF Mirroring, UntouchedCached
    <2>4. chain[n] = LastBatch.blocks[n]
      BY <1>2, <1>4 DEF DerivedInv, Undisturbed
    <2> QED
      BY <2>3, <2>4
  <1>8. DOMAIN cache \cap 0..LastInInbox = (lastConfirmed + 1)..LastInInbox
    <2>1. \A n \in DOMAIN cache : n > lastConfirmed
      BY DEF ConfirmInv, NoneConfirmed
    <2> QED
      BY <1>1, <1>7, <2>1
  <1>9. Retain(cache, 0..LastInInbox) = [n \in (lastConfirmed + 1)..LastInInbox |-> cache[n]]
    BY <1>8 DEF Retain
  <1>10. LastBatch.blocks = [n \in (lastConfirmed + 1)..LastInInbox |-> LastBatch.blocks[n]]
    BY <1>2, <1>6
  <1>11. Retain(cache, 0..LastInInbox) = LastBatch.blocks
    BY <1>7, <1>9, <1>10
  <1> QED
    BY <1>5, <1>11 DEF Verified

\* A batch is verified.
LEMMA MirrorVerify ==
    ASSUME TypeInv, ConfirmInv, StartInv, DerivedInv, Undisturbed, Mirroring,
           VerifySucceeds \/ OutOfSync \/ FetchConfirmed \/ VerifyFails
    PROVE  Mirroring'
  <1>1. VerifySucceeds
    BY NoAlarm DEF OutOfSync, FetchConfirmed, VerifyFails, Undisturbed, Calm, Mirroring,
       OneUnconfirmed
  <1>2. /\ pc = "verify" /\ pc' = "idle" /\ lastConfirmed' = current
        /\ cache' = Retain(cache, (current + 1)..MaxNumber)
        /\ UNCHANGED <<env, whole, chain, inbox, subscribed, polled, lastPolled, lastSeen,
                       subscribedIds, polledId, first>>
    BY <1>1 DEF VerifySucceeds, fixed, external, blockStreams, idStreams
  <1>3. current = LastInInbox /\ ~first /\ lastConfirmed < LastInInbox
    BY <1>2 DEF Mirroring, OneUnconfirmed
  <1>4. /\ LastInInbox \in Nat /\ lastConfirmed \in Nat /\ Len(chain) \in Nat
        /\ lastSeen.number \in Nat /\ MaxNumber \in Nat /\ Len(chain) <= MaxNumber
        /\ lastSeen.number <= MaxNumber /\ DOMAIN cache \subseteq Nat
    BY NumbersInt, Delivered, AtMostMaxNumber
  <1>5. Low = lastConfirmed /\ Low' = LastInInbox
    BY <1>2, <1>3 DEF Low
  <1>6. \A n \in DOMAIN cache : n > LastInInbox /\ n <= MaxNumber =>
           n \in DOMAIN cache' /\ cache'[n] = cache[n]
    BY <1>2, <1>3, <1>4 DEF Retain
  <1>7. \A n \in 1..Len(chain) : n <= MaxNumber
    BY <1>4
  <1>8. Low' \in Nat /\ Low' >= Low
    BY <1>3, <1>4, <1>5
  <1>9. /\ Replays' /\ PollsHead' /\ SeenCached' /\ UntouchedCached'
        /\ LastInInbox' = LastInInbox
    BY <1>2, <1>4, <1>5, <1>6, <1>7, <1>8, MirrorCached
  <1>10. FetchesHead'
    BY <1>2 DEF FetchesHead
  <1>11. OneUnconfirmed'
    <2>1. /\ \A i \in DOMAIN subscribedIds : subscribedIds[i] \in Nat
          /\ \A id \in polledId : id \in Nat
      BY NumbersInt DEF TypeInv, TypeOK
    <2>2. /\ \A i \in DOMAIN subscribedIds : subscribedIds[i] <= LastInInbox
          /\ \A id \in polledId : id <= LastInInbox
      BY <1>3, <1>4, <2>1 DEF Mirroring, OneUnconfirmed
    <2>3. lastConfirmed' = LastInInbox'
      BY <1>2, <1>3, <1>9
    <2>4. ~(lastConfirmed' < LastInInbox') /\ lastConfirmed' <= LastInInbox'
      BY <1>4, <1>9, <2>3
    <2> QED
      BY <1>2, <1>9, <2>2, <2>3, <2>4 DEF OneUnconfirmed
  <1> QED
    BY <1>9, <1>10, <1>11 DEF Mirroring

\* The polls read the head and the last id of the inbox.
LEMMA MirrorRest ==
    ASSUME TypeInv, StartInv, DerivedInv, Undisturbed, Mirroring,
           \/ ReadHead \/ ReadBatch \/ ReadUnconfirmed \/ SubscribeIds \/ StartFails
           \/ PollBlock \/ PollId \/ PollIdFails \/ NothingNew \/ UNCHANGED vars
    PROVE  Mirroring'
  <1>1. ~(ReadHead \/ ReadBatch \/ ReadUnconfirmed \/ StartFails \/ PollIdFails)
    BY DEF ReadHead, ReadBatch, ReadUnconfirmed, StartFails, PollIdFails, StartInv, Unsubscribed,
       Undisturbed, Calm
  <1>2. CASE PollBlock
    <2>1. /\ pc = "idle" /\ polled' = {ChainHead} /\ lastPolled' = ChainHead
          /\ UNCHANGED <<chain, inbox, subscribed, lastSeen, subscribedIds, polledId, pc, current,
                         latest, cache, lastConfirmed, first>>
      BY <1>2 DEF PollBlock, external, idStreams, handling, shared
    <2>2. PollsHead'
      BY <2>1 DEF PollsHead, ChainHead, BlockAt
    <2>3. Replays' /\ SeenCached' /\ UntouchedCached' /\ FetchesHead' /\ OneUnconfirmed'
      BY <2>1 DEF Mirroring, Replays, SeenCached, UntouchedCached, FetchesHead, OneUnconfirmed,
         Low, Untouched, ChainHead, BlockAt, LastInInbox, LastBatch, LastOf
    <2> QED
      BY <2>2, <2>3 DEF Mirroring
  <1>3. CASE PollId
    <2>1. /\ polledId' = {LastInInbox}
          /\ UNCHANGED <<chain, inbox, subscribed, polled, lastPolled, lastSeen, subscribedIds, pc,
                         current, latest, cache, lastConfirmed, first>>
      BY <1>3 DEF PollId, external, blockStreams, handling, shared
    <2>2. Replays' /\ PollsHead' /\ SeenCached' /\ UntouchedCached' /\ FetchesHead'
      BY <2>1 DEF Mirroring, Replays, PollsHead, SeenCached, UntouchedCached, FetchesHead,
         Low, Untouched, ChainHead, BlockAt, LastInInbox, LastBatch, LastOf
    <2>3. OneUnconfirmed'
      BY <2>1 DEF Mirroring, OneUnconfirmed, Untouched, LastInInbox, LastBatch, LastOf
    <2> QED
      BY <2>2, <2>3 DEF Mirroring
  <1>4. CASE SubscribeIds \/ NothingNew \/ UNCHANGED vars
    <2>1. /\ pc' = "idle" \/ pc' = pc
          /\ UNCHANGED <<chain, inbox, subscribed, polled, lastPolled, lastSeen, subscribedIds,
                         polledId, current, latest, cache, lastConfirmed, first>>
      BY <1>4 DEF SubscribeIds, NothingNew, vars, external, blockStreams, idStreams, handling,
         shared
    <2>2. Replays' /\ PollsHead' /\ SeenCached' /\ UntouchedCached'
      BY <2>1 DEF Mirroring, Replays, PollsHead, SeenCached, UntouchedCached,
         Low, Untouched, ChainHead, BlockAt, LastInInbox, LastBatch, LastOf
    <2>3. FetchesHead'
      BY <2>1 DEF Mirroring, FetchesHead, Untouched, BlockAt
    <2>4. OneUnconfirmed'
      BY <2>1 DEF Mirroring, OneUnconfirmed, Untouched, LastInInbox, LastBatch, LastOf
    <2> QED
      BY <2>2, <2>3, <2>4 DEF Mirroring
  <1> QED
    BY <1>1, <1>2, <1>3, <1>4

\* A confirmed id is delivered, by the subscription or by the poll.
LEMMA MirrorConfirmed ==
    ASSUME TypeInv, StartInv, DerivedInv, Undisturbed, Mirroring,
           ReceiveSubscribedId \/ ReceivePolledId
    PROVE  Mirroring'
  <1>1. CASE ReceiveSubscribedId
    <2> DEFINE id == subscribedIds[1]
    <2>1. /\ pc = "idle" /\ subscribedIds # <<>> /\ Confirm(id)
          /\ subscribedIds' = Tail(subscribedIds) /\ polledId' = polledId
          /\ UNCHANGED <<env, whole, chain, inbox, subscribed, polled, lastPolled, lastSeen>>
      BY <1>1 DEF ReceiveSubscribedId, fixed, external, blockStreams
    <2>2. subscribedIds \in Seq(Numbers) /\ Numbers \subseteq Nat
      BY NumbersInt DEF TypeInv, TypeOK
    <2>3. /\ DOMAIN subscribedIds = 1..Len(subscribedIds) /\ Len(subscribedIds) \in Nat
          /\ Len(subscribedIds) > 0
      BY <2>1, <2>2
    <2>4. 1 \in DOMAIN subscribedIds /\ id \in Nat
      <3>1. 1 \in 1..Len(subscribedIds)
        BY <2>3
      <3>2. Head(subscribedIds) \in Numbers /\ Head(subscribedIds) = id
        BY <2>1, <2>2, HeadTailProperties
      <3> QED
        BY <2>2, <2>3, <3>1, <3>2
    <2>5. /\ DOMAIN subscribedIds' = 1..(Len(subscribedIds) - 1)
          /\ \A i \in 1..(Len(subscribedIds) - 1) : subscribedIds'[i] = subscribedIds[i + 1]
      BY <2>1, <2>2, HeadTailProperties
    <2>6. \A i \in DOMAIN subscribedIds' :
             i + 1 \in DOMAIN subscribedIds /\ subscribedIds'[i] = subscribedIds[i + 1]
      BY <2>3, <2>5
    <2>7. id <= lastConfirmed \/ id = LastInInbox
      BY <2>4 DEF Mirroring, OneUnconfirmed
    <2> HIDE DEF id
    <2> QED
      BY <2>1, <2>4, <2>6, <2>7, MirrorId
  <1>2. CASE ReceivePolledId
    <2>1. PICK id \in polledId : Confirm(id)
      BY <1>2 DEF ReceivePolledId
    <2>2. id \in Nat
      BY <2>1, NumbersInt DEF TypeInv, TypeOK
    <2>3. /\ pc = "idle" /\ subscribedIds' = subscribedIds /\ polledId' = {}
          /\ UNCHANGED <<env, whole, chain, inbox, subscribed, polled, lastPolled, lastSeen>>
      BY <1>2 DEF ReceivePolledId, fixed, external, blockStreams
    <2>4. id <= lastConfirmed \/ id = LastInInbox
      BY <2>1 DEF Mirroring, OneUnconfirmed
    <2> QED
      BY <2>1, <2>2, <2>3, <2>4, MirrorId
  <1> QED
    BY <1>1, <1>2

\* An undisturbed behaviour was undisturbed before, once main has subscribed.
LEMMA UndisturbedBefore ==
    ASSUME TypeInv, DerivedInv, [Next]_vars, Undisturbed', ~SubscribeBlocks
    PROVE  Undisturbed
  <1>1. CASE NewBlock \/ Reorg \/ Derive
    <2>1. UNCHANGED <<env, whole, inbox>>
      BY <1>1 DEF NewBlock, Reorg, Derive, SetHead, fixed
    <2> QED
      BY <2>1 DEF Undisturbed, Calm, NoForeign
  <1>2. CASE ProposeChain \/ ProposeForeign
    <2>1. UNCHANGED <<env, whole>> /\ (NoForeign' => NoForeign)
      BY <1>2, BatchProposed
    <2> QED
      BY <2>1 DEF Undisturbed, Calm
  <1>3. CASE \/ ReadHead \/ ReadBatch \/ ReadUnconfirmed \/ SubscribeIds
             \/ StartFails \/ Prune \/ StreamAction \/ NothingNew \/ UNCHANGED vars
    <2>1. UNCHANGED <<env, inbox>> /\ (whole' => whole)
      BY <1>3, OnlyRead
    <2> QED
      BY <2>1 DEF Undisturbed, Calm, NoForeign
  <1> QED
    BY <1>1, <1>2, <1>3 DEF Next, StreamAction

\* Every step keeps the invariant: one step of the proof per action.
LEMMA MirrorStep ==
    ASSUME TypeInv, ConfirmInv, StartInv, DerivedInv, MirrorInv, [Next]_vars
    PROVE  MirrorInv'
  <1>1. SUFFICES ASSUME Undisturbed' PROVE Mirroring'
    BY DEF MirrorInv
  <1>2. CASE SubscribeBlocks
    BY <1>1, <1>2, MirrorSubscribe
  <1>3. CASE ~SubscribeBlocks
    <2>1. Undisturbed /\ Mirroring /\ NoForeign'
      BY <1>1, <1>3, UndisturbedBefore DEF MirrorInv, Undisturbed
    <2>2. CASE NewBlock \/ Reorg \/ Derive
      BY <2>1, <2>2, MirrorHead
    <2>3. CASE ProposeChain \/ ProposeForeign
      BY <2>1, <2>3, MirrorBatch
    <2>4. CASE ReceiveSubscribed
      BY <2>1, <2>4, MirrorSubscribed
    <2>5. CASE ReceivePolled
      BY <2>1, <2>5, MirrorPolled
    <2>6. CASE FetchLatest \/ FetchLatestFails \/ FetchId \/ AddLatest
      BY <2>1, <2>6, MirrorFetch
    <2>7. CASE ReceiveSubscribedId \/ ReceivePolledId
      BY <2>1, <2>7, MirrorConfirmed
    <2>8. CASE VerifySucceeds \/ OutOfSync \/ FetchConfirmed \/ VerifyFails
      BY <2>1, <2>8, MirrorVerify
    <2>9. CASE \/ ReadHead \/ ReadBatch \/ ReadUnconfirmed \/ SubscribeIds \/ StartFails
               \/ PollBlock \/ PollId \/ PollIdFails \/ NothingNew \/ UNCHANGED vars
      BY <2>1, <2>9, MirrorRest
    <2>10. CASE Prune
      <3>1. whole' /\ whole' \in BOOLEAN
        BY <1>1, <2>10, Pruned DEF Undisturbed
      <3>2. whole' = whole /\ cache' = cache
        BY <3>1, <2>10, Pruned DEF TypeInv, TypeOK
      <3>3. UNCHANGED vars
        BY <3>2, <2>10, Pruned DEF vars, fixed, shared
      <3> QED
        BY <2>1, <3>3, MirrorRest
    <2> QED
      BY <1>3, <2>2, <2>3, <2>4, <2>5, <2>6, <2>7, <2>8, <2>9, <2>10 DEF Next
  <1> QED
    BY <1>2, <1>3

\* No false alarm: in a calm environment, as long as main has missed no block
\* and the confirmation strategy has removed none from the shared cache, the
\* stream reports L1 and L2 out of sync, and drops the unconfirmed blocks, only
\* if some batch held other blocks than the chain, in whatever order the blocks
\* and the confirmations arrive (L2Head.AlarmIsTrueIfCalm).
THEOREM AlarmIsTrueIfCalmCorrect == Spec => AlarmIsTrueIfCalm
  <1> DEFINE Inv == TypeInv /\ ConfirmInv /\ StartInv /\ DerivedInv /\ MirrorInv
             AlarmTrue == OutOfSync /\ Calm /\ whole => \E i \in DOMAIN inbox : inbox[i].foreign
  <1>1. Init => Inv
    BY TypeInit, ConfirmInit, MirrorInit
  <1>2. Inv /\ [Next]_vars => Inv'
    BY TypeStep, ConfirmStep, StartStep, DerivedStep, MirrorStep
  <1>3. Inv => AlarmTrue
    BY NoAlarm DEF MirrorInv, Undisturbed, NoForeign, OutOfSync
  <1>4. Inv /\ [Next]_vars => [AlarmTrue]_vars
    BY <1>3
  <1> HIDE DEF Inv, AlarmTrue
  <1>5. Spec => [][AlarmTrue]_vars
    BY <1>1, <1>2, <1>4, PTL DEF Spec
  <1> QED
    BY <1>5 DEF AlarmIsTrueIfCalm, AlarmTrue
=============================================================================
