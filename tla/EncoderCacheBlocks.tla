-------------------------- MODULE EncoderCacheBlocks --------------------------
(***************************************************************************)
(* The allocator of the on-device encoder cache                            *)
(* (vllm_neuron/vllm/worker/encoder_cache_blocks.py).  A multimodal item   *)
(* owns whole blocks; evicted blocks are held back from reuse for a        *)
(* minimum time after they were written, because a remote pool may still   *)
(* be reading them; each block carries a tag naming the item it belongs to.*)
(*                                                                         *)
(* Time is counted in ticks and only as the age of a block since its item  *)
(* was marked written, saturating at HoldTime.  The entries one            *)
(* reclaim_held() call releases join the free queue in any order.          *)
(***************************************************************************)
EXTENDS Integers, Sequences, FiniteSets, SequencesExt

CONSTANTS
  Item,        (* mm_hash values                                             *)
  NumBlocks,   (* num_blocks, the scratch block included                     *)
  Need,        (* [Item -> number of blocks its tokens take]                 *)
  HoldTime,    (* min_hold_time_ms, in ticks                                 *)
  NoItem       (* the tag 0, and "no allocation pending"                     *)

ASSUME CacheAssumption ==
  /\ NumBlocks \in Nat \ {0}
  /\ Need \in [Item -> Nat \ {0}]
  /\ HoldTime \in Nat
  /\ NoItem \notin Item

Scratch == NumBlocks - 1
Block == 0 .. Scratch - 1

VARIABLES
  slot,      (* _slot_map: block_ids of a cached item, <<>> when it has none *)
  unwritten, (* entries of _slot_map whose write_time is still 0.0           *)
  held,      (* _held_blocks: block_ids of an evicted item, <<>> when none   *)
  freeQ,     (* _free_queue                                                  *)
  age,       (* ticks since the block's item was marked written; HoldTime    *)
             (* when that is long ago or its entry is unwritten              *)
  tag,       (* mm_hash_tags                                                 *)
  pending,   (* the item allocate() is reserving blocks for                  *)
  waited,    (* ticks since that call began to wait                          *)
  asleep,    (* it is in the sleep of _wait_and_reclaim                      *)
  failed     (* allocate() raised: the cache is full                         *)

cacheVars == <<slot, unwritten, held, freeQ, age, tag, pending, waited,
               asleep, failed>>

Init ==
  /\ slot = [h \in Item |-> <<>>]
  /\ unwritten = {}
  /\ held = [h \in Item |-> <<>>]
  /\ freeQ = [i \in 1 .. Scratch |-> i - 1]
  /\ age = [b \in Block |-> HoldTime]
  /\ tag = [b \in Block |-> NoItem]
  /\ pending = NoItem /\ waited = 0 /\ asleep = FALSE
  /\ failed = FALSE
------------------------------------------------------------------------------
(* A held entry whose hold time is over. *)
Expired(blocks) == blocks # <<>> /\ \A b \in ToSet(blocks) : age[b] >= HoldTime

(* The blocks of the expired ones among the held entries keep. *)
Released(keep) ==
  UNION {ToSet(keep[h]) : h \in {x \in Item : Expired(keep[x])}}

(* reclaim_held(): expired entries go to the end of the free queue q, and    *)
(* the tags of their blocks are cleared.                                    *)
Reclaim(q, keep) ==
  /\ \E order \in SetToSeqs(Released(keep)) : freeQ' = q \o order
  /\ held' = [h \in Item |-> IF Expired(keep[h]) THEN <<>> ELSE keep[h]]
  /\ tag' = [b \in Block |-> IF b \in Released(keep) THEN NoItem ELSE tag[b]]

(* Mutant: the item's own blocks stay in the hold as well. *)
KeepHeld(h) == held

(* The held entries once allocate() has taken the item's own out. *)
HeldWithout(h) == [held EXCEPT ![h] = <<>>]

(* allocate() of an item that has no entry: the blocks the item itself left  *)
(* in the hold return to the queue, tags and all, and if that is too few the *)
(* expired entries follow.                                                  *)
AllocateBegin(h) ==
  /\ ~failed /\ pending = NoItem
  /\ slot[h] = <<>>
  /\ pending' = h
  /\ LET q == freeQ \o held[h] IN
     IF Need[h] > Len(q) THEN Reclaim(q, HeldWithout(h))
     ELSE freeQ' = q /\ held' = HeldWithout(h) /\ UNCHANGED tag
  /\ UNCHANGED <<slot, unwritten, age, waited, asleep, failed>>

(* Mutant: nothing but success ends the loop. *)
LoopUntilEnough == Len(freeQ) < Need[pending]

(* The loop of _wait_and_reclaim goes on. *)
KeepsWaiting ==
  /\ Len(freeQ) < Need[pending]
  /\ \E h \in Item : held[h] # <<>>
  /\ waited < HoldTime

(* One turn of it: a sleep, then reclaim_held(). *)
Sleep ==
  /\ pending # NoItem /\ ~asleep /\ KeepsWaiting
  /\ asleep' = TRUE
  /\ UNCHANGED <<slot, unwritten, held, freeQ, age, tag, pending, waited, failed>>

Wake ==
  /\ asleep
  /\ Reclaim(freeQ, held)
  /\ asleep' = FALSE
  /\ UNCHANGED <<slot, unwritten, age, pending, waited, failed>>

(* Mutant: the tag is left as it was. *)
UnstampedTag(got, h) == tag

(* The content tag is stamped before the encoder writes the embedding. *)
StampedTag(got, h) == [b \in Block |-> IF b \in ToSet(got) THEN h ELSE tag[b]]

(* Mutant: one block too few for the item. *)
TakenShort(n) == SubSeq(freeQ, 1, n - 1)

(* The n blocks at its head, and *)
Taken(n) == SubSeq(freeQ, 1, n)

(* the queue once they have been popped. *)
Popped(n) == SubSeq(freeQ, n + 1, Len(freeQ))

(* The end of allocate(): blocks from the head of the queue.  The call       *)
(* raises when they are still too few, and the engine dies with it.         *)
AllocateEnd ==
  /\ pending # NoItem /\ ~asleep /\ ~KeepsWaiting
  /\ LET got == Taken(Need[pending]) IN
     IF Need[pending] > Len(freeQ)
     THEN failed' = TRUE /\ UNCHANGED <<slot, unwritten, freeQ, age, tag>>
     ELSE /\ freeQ' = Popped(Need[pending])
          /\ slot' = [slot EXCEPT ![pending] = got]
          /\ unwritten' = unwritten \cup {pending}
          /\ age' = [b \in Block |-> IF b \in ToSet(got) THEN HoldTime ELSE age[b]]
          /\ tag' = StampedTag(got, pending)
          /\ UNCHANGED failed
  /\ pending' = NoItem /\ waited' = 0
  /\ UNCHANGED <<held, asleep>>

(* mark_written(): the embedding is in the buffer. *)
MarkWritten(h) ==
  /\ ~failed /\ pending = NoItem
  /\ h \in unwritten
  /\ unwritten' = unwritten \ {h}
  /\ age' = [b \in Block |-> IF b \in ToSet(slot[h]) THEN 0 ELSE age[b]]
  /\ UNCHANGED <<slot, held, freeQ, tag, pending, waited, asleep, failed>>

(* Mutant: an eviction that never holds. *)
NeverHeld(h) == FALSE

(* Written less than the minimum hold time ago. *)
HoldsBack(h) == \E b \in ToSet(slot[h]) : age[b] < HoldTime

(* free(): the entry leaves the map; its blocks are held or released. *)
Free(h) ==
  /\ ~failed /\ pending = NoItem
  /\ slot[h] # <<>>
  /\ slot' = [slot EXCEPT ![h] = <<>>]
  /\ unwritten' = unwritten \ {h}
  /\ IF HoldsBack(h)
     THEN held' = [held EXCEPT ![h] = slot[h]] /\ UNCHANGED <<freeQ, tag>>
     ELSE /\ freeQ' = freeQ \o slot[h]
          /\ tag' = [b \in Block |-> IF b \in ToSet(slot[h]) THEN NoItem ELSE tag[b]]
          /\ UNCHANGED held
  /\ UNCHANGED <<age, pending, waited, asleep, failed>>

(* clear() *)
Clear ==
  /\ ~failed /\ pending = NoItem
  /\ slot' = [h \in Item |-> <<>>]
  /\ held' = [h \in Item |-> <<>>]
  /\ unwritten' = {}
  /\ freeQ' = [i \in 1 .. Scratch |-> i - 1]
  /\ tag' = [b \in Block |-> NoItem]
  /\ age' = [b \in Block |-> HoldTime]
  /\ UNCHANGED <<pending, waited, asleep, failed>>

(* Time passes, whatever the engine thread is doing. *)
Older(t) == IF t < HoldTime THEN t + 1 ELSE t
Tick ==
  /\ ~failed
  /\ age' = [b \in Block |-> Older(age[b])]
  /\ waited' = IF pending # NoItem THEN Older(waited) ELSE waited
  /\ UNCHANGED <<slot, unwritten, held, freeQ, tag, pending, asleep, failed>>

Next ==
  \/ \E h \in Item : AllocateBegin(h) \/ MarkWritten(h) \/ Free(h)
  \/ Sleep \/ Wake \/ AllocateEnd
  \/ Clear
  \/ Tick

Spec == Init /\ [][Next]_cacheVars

(* The engine thread returns from allocate(), and time passes. *)
FairSpec == Spec /\ WF_cacheVars(Sleep \/ Wake \/ AllocateEnd) /\ WF_cacheVars(Tick)
------------------------------------------------------------------------------
(* Type correctness: every _slot_map and _held_blocks entry is a list of     *)
(* allocatable blocks of its item's size.                                   *)
TypeOK ==
  /\ slot \in [Item -> Seq(Block)] /\ held \in [Item -> Seq(Block)]
  /\ \A h \in Item : {Len(slot[h]), Len(held[h])} \subseteq {0, Need[h]}
  /\ unwritten \subseteq {h \in Item : slot[h] # <<>>}
  /\ freeQ \in Seq(Block)
  /\ age \in [Block -> 0 .. HoldTime]
  /\ tag \in [Block -> Item \cup {NoItem}]
  /\ pending \in Item \cup {NoItem} /\ waited \in 0 .. HoldTime
  /\ {asleep, failed} \subseteq BOOLEAN
  /\ asleep => pending # NoItem

(* Who a block belongs to: an entry, the hold, or the free queue. *)
Holders(h) == ToSet(slot[h]) \cup ToSet(held[h])

(* No block is leaked and none is given to two items: every allocatable      *)
(* block is in exactly one of the free queue, one item's slot and one item's *)
(* hold, once, through allocations that wait, re-allocation of held items,   *)
(* eviction and reclaim (allocate, free, reclaim_held).                     *)
BlocksPartitioned ==
  /\ IsInjective(freeQ)
  /\ \A h \in Item : IsInjective(slot[h]) /\ IsInjective(held[h])
  /\ \A h \in Item : ToSet(slot[h]) \cap ToSet(held[h]) = {}
  /\ \A h \in Item : Holders(h) \cap ToSet(freeQ) = {}
  /\ \A g, h \in Item : g # h => Holders(g) \cap Holders(h) = {}
  /\ Block = ToSet(freeQ) \cup UNION {Holders(h) : h \in Item}

(* A remote reader identifies a block by its tag alone: every block an item  *)
(* owns, or has left in the hold for its readers, is tagged with that item.  *)
TagNamesOwner == \A h \in Item : \A b \in Holders(h) : tag[b] = h

(* Nothing but the item's own re-allocation (or clear) returns a block to    *)
(* the free queue before its hold time is over (free, reclaim_held).        *)
HeldUntilExpiry ==
  [][\A b \in ToSet(freeQ') \ ToSet(freeQ) :
       \/ age[b] = HoldTime
       \/ \E h \in Item : pending' = h /\ b \in ToSet(held[h])
       \/ freeQ' = [i \in 1 .. Scratch |-> i - 1]]_cacheVars

(* The queues, the hold and the waiting implement the leases of BlockLeases: *)
(* to a reader, who sees nothing but the tags, a block outside the free queue *)
(* belongs to the item its tag names from allocate() until its hold time is  *)
(* over, and an allocation takes free blocks only or finds too few.         *)
OwnerSeen == [b \in Block |-> IF b \in ToSet(freeQ) THEN NoItem ELSE tag[b]]
Cached == {h \in Item : slot[h] # <<>>}
Leases == INSTANCE BlockLeases WITH
  owner <- OwnerSeen, cached <- Cached, asking <- pending
ImplementsLeases == Leases!LeaseSpec

(* allocate() has returned or raised: it blocks the inference thread only for *)
(* a while, whatever is held (_wait_and_reclaim).                            *)
NotAllocating == pending = NoItem
==============================================================================
