--------------------------- MODULE Transfers_proofs ---------------------------
(***************************************************************************)
(* Proofs about the encoder cache's allocator and the transfers between       *)
(* engines, for every set of items, cache size, hold time and number of      *)
(* locators under way.  The allocator comes first: its blocks are conserved, *)
(* its tags name their owners, and it implements the abstract leases.        *)
(*                                                                         *)
(* The pull of embeddings.  A locator that is not out of date proves         *)
(* something about every block it lists: while the block carries the item's  *)
(* tag, the item's part is in it (Truth).  A tag, once lost, comes back only *)
(* with a new allocation of the item, so that what a tag says when it is    *)
(* read it also says of every moment since the locator was issued, and so of *)
(* the moment at which the part was read (ReadSoFar).                        *)
(*                                                                         *)
(* The pull of a KV cache.  A rank hears each reader once and a reader is   *)
(* counted on once (PullInv); what the reads of a successful pull bring is  *)
(* arithmetic on the two topologies: the pages that are put into a block    *)
(* are its own (PagesMatch) and so are the heads (HeadsMatch).  The pull    *)
(* for sliding-window layers is arithmetic too, on runs of block places.    *)
(***************************************************************************)
EXTENDS EcTransfer, KvPull, SlidingWindowPull, ListLemmas, FiniteSetTheorems, SequenceTheorems, TLAPS

CacheTypes ==
  /\ slot \in [Item -> Seq(Block)]
  /\ held \in [Item -> Seq(Block)]
  /\ freeQ \in Seq(Block)
  /\ tag \in [Block -> Item \cup {NoItem}]
  /\ pending \in Item \cup {NoItem}

(* An item that allocate() is reserving blocks for has none yet, neither     *)
(* cached nor held, and no item has both.                                   *)
OneEntry ==
  /\ \A h \in Item : slot[h] = <<>> \/ held[h] = <<>>
  /\ pending # NoItem => slot[pending] = <<>> /\ held[pending] = <<>>

(* The inductive invariant.  Without OneEntry an eviction or an allocation   *)
(* could overwrite an entry and leak the blocks it lists; without the        *)
(* partition the tags of one item could be cleared with another's.          *)
CacheInv == CacheTypes /\ OneEntry /\ BlocksPartitioned /\ TagNamesOwner

(* reclaim_held() moves the expired entries from the hold to the queue. *)
LEMMA ReclaimParts ==
  ASSUME CacheAssumption, NEW q \in Seq(Block), IsInjective(q),
         NEW keep \in [Item -> Seq(Block)],
         \A h \in Item : ToSet(keep[h]) \cap ToSet(q) = {},
         Reclaim(q, keep)
  PROVE  /\ freeQ' \in Seq(Block) /\ IsInjective(freeQ')
         /\ ToSet(freeQ') = ToSet(q) \cup Released(keep)
         /\ held' = [h \in Item |-> IF Expired(keep[h]) THEN <<>> ELSE keep[h]]
         /\ tag' = [b \in Block |-> IF b \in Released(keep) THEN NoItem ELSE tag[b]]
<1>1. \A h \in Item : ToSet(keep[h]) \subseteq Block
  BY ListMembers
<1>2. Released(keep) \subseteq Block /\ Released(keep) \cap ToSet(q) = {}
  BY <1>1 DEF Released
<1>3. IsFiniteSet(Released(keep))
  <2>1. 0 \in Int /\ Scratch - 1 \in Int
    BY DEF CacheAssumption, Scratch
  <2>2. IsFiniteSet(Block)
    BY <2>1, FS_Interval DEF Block
  <2> QED BY <1>2, <2>2, FS_Subset
<1>4. PICK order \in SetToSeqs(Released(keep)) : freeQ' = q \o order
  BY DEF Reclaim
<1>5. order \in Seq(Released(keep)) /\ IsInjective(order) /\ ToSet(order) = Released(keep)
  BY <1>3, OrderList
<1>6. order \in Seq(Block)
  BY <1>2, <1>5, SeqMonotonic
<1>7. freeQ' \in Seq(Block) /\ IsInjective(freeQ') /\ ToSet(freeQ') = ToSet(q) \cup ToSet(order)
  BY <1>2, <1>4, <1>5, <1>6, AppendLists
<1> QED BY <1>5, <1>7 DEF Reclaim

(* The blocks are shared out between the slots S, the hold K and the queue Q. *)
SharedOut(S, K, Q) ==
  /\ \A h \in Item : S[h] \subseteq Block /\ K[h] \subseteq Block
  /\ Q \subseteq Block
  /\ \A h \in Item : \A b \in Block : ~(b \in S[h] /\ b \in K[h])
  /\ \A h \in Item : \A b \in Block : (b \in S[h] \/ b \in K[h]) => b \notin Q
  /\ \A g, h \in Item : \A b \in Block :
       (b \in S[g] \/ b \in K[g]) /\ (b \in S[h] \/ b \in K[h]) => g = h
  /\ \A b \in Block : b \in Q \/ \E h \in Item : b \in S[h] \/ b \in K[h]

(* Every block of an item is tagged with it. *)
Tagged(S, K, t) ==
  \A h \in Item : \A b \in Block : (b \in S[h] \/ b \in K[h]) => t[b] = h

SlotSets == [h \in Item |-> ToSet(slot[h])]
HeldSets == [h \in Item |-> ToSet(held[h])]

(* The partition and the tags, said of sets of blocks per item. *)
LEMMA PartitionIsSharedOut ==
  ASSUME CacheTypes
  PROVE  /\ BlocksPartitioned <=>
              /\ IsInjective(freeQ)
              /\ \A h \in Item : IsInjective(slot[h]) /\ IsInjective(held[h])
              /\ SharedOut(SlotSets, HeldSets, ToSet(freeQ))
         /\ TagNamesOwner <=> Tagged(SlotSets, HeldSets, tag)
<1>1. /\ \A h \in Item : ToSet(slot[h]) \subseteq Block /\ ToSet(held[h]) \subseteq Block
      /\ ToSet(freeQ) \subseteq Block
  BY ListMembers DEF CacheTypes
<1>2. \A h \in Item : SlotSets[h] = ToSet(slot[h]) /\ HeldSets[h] = ToSet(held[h])
  BY DEF SlotSets, HeldSets
<1>3. \A h \in Item : Holders(h) = SlotSets[h] \cup HeldSets[h]
  BY <1>2 DEF Holders
<1>4. \A h \in Item : Holders(h) \subseteq Block
  BY <1>1, <1>3, <1>2
<1> DEFINE Q == ToSet(freeQ)
<1>5. (\A h \in Item : ToSet(slot[h]) \cap ToSet(held[h]) = {}) <=>
      \A h \in Item : \A b \in Block : ~(b \in SlotSets[h] /\ b \in HeldSets[h])
  BY <1>1, <1>2
<1>6. (\A h \in Item : Holders(h) \cap Q = {}) <=>
      \A h \in Item : \A b \in Block : (b \in SlotSets[h] \/ b \in HeldSets[h]) => b \notin Q
  BY <1>3, <1>4
<1>7. (\A g, h \in Item : g # h => Holders(g) \cap Holders(h) = {}) <=>
      \A g, h \in Item : \A b \in Block :
        (b \in SlotSets[g] \/ b \in HeldSets[g]) /\ (b \in SlotSets[h] \/ b \in HeldSets[h]) => g = h
  <2>1. \A g, h \in Item : (Holders(g) \cap Holders(h) = {}) <=>
          \A b \in Block : ~((b \in SlotSets[g] \/ b \in HeldSets[g])
                            /\ (b \in SlotSets[h] \/ b \in HeldSets[h]))
    BY <1>3, <1>4
  <2> QED BY <2>1
<1>8. (Block = Q \cup UNION {Holders(h) : h \in Item}) <=>
      \A b \in Block : b \in Q \/ \E h \in Item : b \in SlotSets[h] \/ b \in HeldSets[h]
  <2>1. Q \cup UNION {Holders(h) : h \in Item} \subseteq Block
    BY <1>1, <1>4
  <2>2. \A b : b \in UNION {Holders(h) : h \in Item} <=>
          \E h \in Item : b \in SlotSets[h] \/ b \in HeldSets[h]
    BY <1>3
  <2> HIDE DEF Q
  <2> QED BY <2>1, <2>2
<1>9. SharedOut(SlotSets, HeldSets, Q) <=>
        /\ \A h \in Item : ToSet(slot[h]) \cap ToSet(held[h]) = {}
        /\ \A h \in Item : Holders(h) \cap Q = {}
        /\ \A g, h \in Item : g # h => Holders(g) \cap Holders(h) = {}
        /\ Block = Q \cup UNION {Holders(h) : h \in Item}
  <2>1. (\A h \in Item : SlotSets[h] \subseteq Block /\ HeldSets[h] \subseteq Block)
        /\ Q \subseteq Block
    BY <1>1, <1>2
  <2> HIDE DEF Q
  <2> QED BY <1>5, <1>6, <1>7, <1>8, <2>1 DEF SharedOut
<1>10. TagNamesOwner <=> Tagged(SlotSets, HeldSets, tag)
  BY <1>3, <1>4 DEF TagNamesOwner, Tagged
<1> HIDE DEF Q
<1> QED BY <1>9, <1>10 DEF BlocksPartitioned, Q

(* The same of the next state, for the ends of steps. *)
LEMMA PartitionIsSharedOutNext ==
  (CacheTypes =>
     /\ BlocksPartitioned <=>
          /\ IsInjective(freeQ)
          /\ \A h \in Item : IsInjective(slot[h]) /\ IsInjective(held[h])
          /\ SharedOut(SlotSets, HeldSets, ToSet(freeQ))
     /\ TagNamesOwner <=> Tagged(SlotSets, HeldSets, tag))'
<1>1. CacheTypes =>
        /\ BlocksPartitioned <=>
              /\ IsInjective(freeQ)
              /\ \A h \in Item : IsInjective(slot[h]) /\ IsInjective(held[h])
              /\ SharedOut(SlotSets, HeldSets, ToSet(freeQ))
        /\ TagNamesOwner <=> Tagged(SlotSets, HeldSets, tag)
  BY PartitionIsSharedOut
<1> QED BY <1>1, PTL

(* K with the entries E emptied, what they held, and S with the entry of p   *)
(* replaced.                                                                *)
Emptied(K, E) == [h \in Item |-> IF h \in E THEN {} ELSE K[h]]
Moved(K, E) == UNION {K[h] : h \in E}
Given(S, p, got) == [h \in Item |-> IF h = p THEN got ELSE S[h]]

(* Blocks that the entries E leave in the hold go to the queue. *)
LEMMA HoldToQueue ==
  ASSUME NEW S, NEW K, NEW Q, NEW E, SharedOut(S, K, Q), E \subseteq Item
  PROVE  /\ SharedOut(S, Emptied(K, E), Q \cup Moved(K, E))
         /\ Moved(K, E) \subseteq Block /\ Moved(K, E) \cap Q = {}
<1> DEFINE L == Emptied(K, E)
           X == Moved(K, E)
<1>a. \A b : b \in X <=> \E h \in E : b \in K[h]
  BY DEF Moved
<1>b. \A h \in Item : L[h] = IF h \in E THEN {} ELSE K[h]
  BY DEF Emptied
<1> HIDE DEF L, X
<1>1. X \subseteq Block /\ X \cap Q = {}
  BY <1>a DEF SharedOut
<1>2. \A h \in Item : S[h] \subseteq Block /\ L[h] \subseteq Block /\ L[h] \subseteq K[h]
  BY <1>b DEF SharedOut
<1>3. \A h \in Item : \A b \in Block : ~(b \in S[h] /\ b \in L[h])
  BY <1>2 DEF SharedOut
<1>4. \A h \in Item : \A b \in Block : (b \in S[h] \/ b \in L[h]) => b \notin Q \cup X
  <2> SUFFICES ASSUME NEW h \in Item, NEW b \in Block, b \in S[h] \/ b \in L[h], b \in X
               PROVE  FALSE
    BY <1>2 DEF SharedOut
  <2>1. PICK g \in E : b \in K[g]
    BY <1>a
  <2>2. g = h
    BY <1>2, <2>1 DEF SharedOut
  <2>3. L[h] = {}
    BY <1>b, <2>2
  <2> QED BY <2>1, <2>2, <2>3 DEF SharedOut
<1>5. \A g, h \in Item : \A b \in Block :
        (b \in S[g] \/ b \in L[g]) /\ (b \in S[h] \/ b \in L[h]) => g = h
  BY <1>2 DEF SharedOut
<1>6. \A b \in Block : b \in Q \cup X \/ \E h \in Item : b \in S[h] \/ b \in L[h]
  <2> SUFFICES ASSUME NEW b \in Block, b \notin Q, b \notin X
               PROVE  \E h \in Item : b \in S[h] \/ b \in L[h]
    OBVIOUS
  <2>1. PICK h \in Item : b \in S[h] \/ b \in K[h]
    BY DEF SharedOut
  <2>2. b \in K[h] => h \notin E
    BY <1>a
  <2> QED BY <1>b, <2>1, <2>2
<1>7. Q \cup X \subseteq Block
  BY <1>1 DEF SharedOut
<1> QED BY <1>1, <1>2, <1>3, <1>4, <1>5, <1>6, <1>7 DEF SharedOut, L, X

(* Blocks taken from the queue become the slot of p, which had none. *)
LEMMA QueueToSlot ==
  ASSUME NEW S, NEW K, NEW Q, SharedOut(S, K, Q),
         NEW p \in Item, S[p] = {}, NEW got, NEW R,
         got \cap R = {}, Q = got \cup R
  PROVE  SharedOut(Given(S, p, got), K, R)
<1> DEFINE T == Given(S, p, got)
<1>0. \A h \in Item : T[h] = IF h = p THEN got ELSE S[h]
  BY DEF Given
<1> HIDE DEF T
<1>1. got \subseteq Block /\ R \subseteq Block /\ got \subseteq Q
  BY DEF SharedOut
<1>2. \A h \in Item : T[h] \subseteq Block /\ K[h] \subseteq Block
  BY <1>0, <1>1 DEF SharedOut
<1>3. \A h \in Item : \A b \in Block : ~(b \in T[h] /\ b \in K[h])
  BY <1>0, <1>1 DEF SharedOut
<1>4. \A h \in Item : \A b \in Block : (b \in T[h] \/ b \in K[h]) => b \notin R
  BY <1>0, <1>1 DEF SharedOut
<1>5. \A g, h \in Item : \A b \in Block :
        (b \in T[g] \/ b \in K[g]) /\ (b \in T[h] \/ b \in K[h]) => g = h
  BY <1>0, <1>1 DEF SharedOut
<1>6. \A b \in Block : b \in R \/ \E h \in Item : b \in T[h] \/ b \in K[h]
  <2> SUFFICES ASSUME NEW b \in Block, b \notin R
               PROVE  \E h \in Item : b \in T[h] \/ b \in K[h]
    OBVIOUS
  <2>1. CASE b \in got
    BY <1>0, <2>1
  <2>2. CASE b \notin Q
    <3>1. PICK h \in Item : b \in S[h] \/ b \in K[h]
      BY <2>2 DEF SharedOut
    <3>2. b \in S[h] => h # p
      OBVIOUS
    <3> QED BY <1>0, <3>1, <3>2
  <2> QED BY <2>1, <2>2
<1> QED BY <1>1, <1>2, <1>3, <1>4, <1>5, <1>6 DEF SharedOut, T

(* The blocks in the slot of p go to its hold, which was empty. *)
LEMMA SlotToHold ==
  ASSUME NEW S, NEW K, NEW Q, SharedOut(S, K, Q), NEW p \in Item, K[p] = {}
  PROVE  SharedOut(Given(S, p, {}), Given(K, p, S[p]), Q)
<1> DEFINE T == Given(S, p, {})
           L == Given(K, p, S[p])
<1>0. /\ \A h \in Item : T[h] = IF h = p THEN {} ELSE S[h]
      /\ \A h \in Item : L[h] = IF h = p THEN S[p] ELSE K[h]
  BY DEF Given
<1> HIDE DEF T, L
<1>1. \A h \in Item : \A b \in Block :
        (b \in T[h] \/ b \in L[h]) <=> (b \in S[h] \/ b \in K[h])
  BY <1>0
<1>2. \A h \in Item : T[h] \subseteq Block /\ L[h] \subseteq Block
  BY <1>0 DEF SharedOut
<1>3. \A h \in Item : \A b \in Block : ~(b \in T[h] /\ b \in L[h])
  BY <1>0 DEF SharedOut
<1> QED BY <1>1, <1>2, <1>3 DEF SharedOut, T, L

(* Or to the queue. *)
LEMMA SlotToQueue ==
  ASSUME NEW S, NEW K, NEW Q, SharedOut(S, K, Q), NEW p \in Item
  PROVE  SharedOut(Given(S, p, {}), K, Q \cup S[p]) /\ S[p] \cap Q = {}
<1> DEFINE T == Given(S, p, {})
<1>0. \A h \in Item : T[h] = IF h = p THEN {} ELSE S[h]
  BY DEF Given
<1> HIDE DEF T
<1>1. S[p] \subseteq Block /\ S[p] \cap Q = {}
  BY DEF SharedOut
<1>2. \A h \in Item : T[h] \subseteq Block /\ K[h] \subseteq Block /\ T[h] \subseteq S[h]
  BY <1>0 DEF SharedOut
<1>3. \A h \in Item : \A b \in Block : ~(b \in T[h] /\ b \in K[h])
  BY <1>2 DEF SharedOut
<1>4. \A h \in Item : \A b \in Block : (b \in T[h] \/ b \in K[h]) => b \notin Q \cup S[p]
  <2> SUFFICES ASSUME NEW h \in Item, NEW b \in Block, b \in T[h] \/ b \in K[h], b \in S[p]
               PROVE  FALSE
    BY <1>2 DEF SharedOut
  <2>1. h = p
    BY <1>2 DEF SharedOut
  <2> QED BY <1>0, <2>1 DEF SharedOut
<1>5. \A g, h \in Item : \A b \in Block :
        (b \in T[g] \/ b \in K[g]) /\ (b \in T[h] \/ b \in K[h]) => g = h
  BY <1>2 DEF SharedOut
<1>6. \A b \in Block : b \in Q \cup S[p] \/ \E h \in Item : b \in T[h] \/ b \in K[h]
  <2> SUFFICES ASSUME NEW b \in Block, b \notin Q, b \notin S[p]
               PROVE  \E h \in Item : b \in T[h] \/ b \in K[h]
    OBVIOUS
  <2>1. PICK h \in Item : b \in S[h] \/ b \in K[h]
    BY DEF SharedOut
  <2>2. b \in S[h] => h # p
    OBVIOUS
  <2> QED BY <1>0, <2>1, <2>2
<1>7. Q \cup S[p] \subseteq Block
  BY <1>1 DEF SharedOut
<1> QED BY <1>1, <1>2, <1>3, <1>4, <1>5, <1>6, <1>7 DEF SharedOut, T

(* What a step has to establish of the state it leads to. *)
LEMMA NextPartition ==
  ASSUME CacheTypes', IsInjective(freeQ'),
         \A h \in Item : IsInjective(slot'[h]) /\ IsInjective(held'[h]),
         SharedOut([h \in Item |-> ToSet(slot'[h])], [h \in Item |-> ToSet(held'[h])],
                   ToSet(freeQ')),
         Tagged([h \in Item |-> ToSet(slot'[h])], [h \in Item |-> ToSet(held'[h])], tag')
  PROVE  BlocksPartitioned' /\ TagNamesOwner'
<1>1. /\ SlotSets' = [h \in Item |-> ToSet(slot'[h])]
      /\ HeldSets' = [h \in Item |-> ToSet(held'[h])]
      /\ ToSet(freeQ)' = ToSet(freeQ')
      /\ IsInjective(freeQ)' = IsInjective(freeQ')
      /\ \A h \in Item : (IsInjective(slot[h]) /\ IsInjective(held[h]))' =
                         (IsInjective(slot'[h]) /\ IsInjective(held'[h]))
  BY DEF SlotSets, HeldSets, ToSet, IsInjective
<1>2. SharedOut(SlotSets, HeldSets, ToSet(freeQ))' = SharedOut(SlotSets', HeldSets', ToSet(freeQ)')
      /\ Tagged(SlotSets, HeldSets, tag)' = Tagged(SlotSets', HeldSets', tag')
  BY DEF SharedOut, Tagged, Block, Scratch
<1> QED BY <1>1, <1>2, PartitionIsSharedOutNext

(* What the invariant says of the state a step starts from. *)
LEMMA NowPartition ==
  ASSUME CacheInv
  PROVE  /\ IsInjective(freeQ)
         /\ \A h \in Item : IsInjective(slot[h]) /\ IsInjective(held[h])
         /\ SharedOut(SlotSets, HeldSets, ToSet(freeQ))
         /\ Tagged(SlotSets, HeldSets, tag)
  BY PartitionIsSharedOut DEF CacheInv

(* reclaim_held(), run on the held entries keep and the queue q while the    *)
(* slots S stay as they are, shares out the blocks and keeps the tags right. *)
LEMMA ReclaimKeeps ==
  ASSUME CacheAssumption, NEW q \in Seq(Block), IsInjective(q),
         NEW keep \in [Item -> Seq(Block)], \A h \in Item : IsInjective(keep[h]),
         tag \in [Block -> Item \cup {NoItem}],
         NEW S, SharedOut(S, [h \in Item |-> ToSet(keep[h])], ToSet(q)),
         Tagged(S, [h \in Item |-> ToSet(keep[h])], tag),
         Reclaim(q, keep)
  PROVE  /\ freeQ' \in Seq(Block) /\ IsInjective(freeQ')
         /\ held' \in [Item -> Seq(Block)] /\ \A h \in Item : IsInjective(held'[h])
         /\ \A h \in Item : held'[h] = keep[h] \/ held'[h] = <<>>
         /\ tag' \in [Block -> Item \cup {NoItem}]
         /\ SharedOut(S, [h \in Item |-> ToSet(held'[h])], ToSet(freeQ'))
         /\ Tagged(S, [h \in Item |-> ToSet(held'[h])], tag')
<1> DEFINE K == [h \in Item |-> ToSet(keep[h])]
           L == [h \in Item |-> ToSet(held'[h])]
           E == {h \in Item : Expired(keep[h])}
           X == Released(keep)
<1>1. \A h \in Item : ToSet(keep[h]) \cap ToSet(q) = {}
  <2>1. \A h \in Item : K[h] = ToSet(keep[h])
    OBVIOUS
  <2> HIDE DEF K
  <2> QED BY <2>1 DEF SharedOut
<1>2. /\ freeQ' \in Seq(Block) /\ IsInjective(freeQ')
      /\ ToSet(freeQ') = ToSet(q) \cup X
      /\ held' = [h \in Item |-> IF Expired(keep[h]) THEN <<>> ELSE keep[h]]
      /\ tag' = [b \in Block |-> IF b \in X THEN NoItem ELSE tag[b]]
  BY <1>1, ReclaimParts
<1>3. \A h \in Item : held'[h] = IF h \in E THEN <<>> ELSE keep[h]
  BY <1>2
<1>4. L = Emptied(K, E) /\ \A h \in Item : L[h] = IF h \in E THEN {} ELSE K[h]
  BY <1>3, EmptyList DEF Emptied
<1>5. X = Moved(K, E)
  BY DEF Released, Moved
<1>6. held' \in [Item -> Seq(Block)] /\ tag' \in [Block -> Item \cup {NoItem}]
  BY <1>2, EmptySeq
<1>7. \A h \in Item : IsInjective(held'[h])
  BY <1>3, EmptyList
<1>8. E \subseteq Item
  OBVIOUS
<1> HIDE DEF K, L, E, X
<1>9. SharedOut(S, K, ToSet(q)) /\ Tagged(S, K, tag)
  BY DEF K
<1>10. SharedOut(S, L, ToSet(q) \cup X) /\ X \subseteq Block
  <2> DEFINE Q == ToSet(q)
  <2>1. SharedOut(S, K, Q)
    BY <1>9
  <2> HIDE DEF Q
  <2>2. SharedOut(S, L, Q \cup X) /\ X \subseteq Block
    BY <1>4, <1>5, <1>8, <2>1, HoldToQueue
  <2> QED BY <2>2 DEF Q
<1>11. Tagged(S, L, tag')
  <2> SUFFICES ASSUME NEW h \in Item, NEW b \in Block, b \in S[h] \/ b \in L[h]
               PROVE  tag'[b] = h
    BY DEF Tagged
  <2>1. b \in S[h] \/ b \in K[h]
    BY <1>4
  <2>2. b \notin X
    BY <1>10 DEF SharedOut
  <2> QED BY <1>2, <1>9, <2>1, <2>2 DEF Tagged
<1> QED BY <1>2, <1>3, <1>6, <1>7, <1>10, <1>11 DEF L

(* The queue of an empty cache holds every block once. *)
LEMMA FullQueue ==
  ASSUME CacheAssumption
  PROVE  LET f == [i \in 1 .. Scratch |-> i - 1]
         IN  f \in Seq(Block) /\ IsInjective(f) /\ ToSet(f) = Block
<1> DEFINE f == [i \in 1 .. Scratch |-> i - 1]
<1>1. Scratch \in Nat
  BY DEF CacheAssumption, Scratch
<1>2. \A i \in 1 .. Scratch : i - 1 \in Block
  BY <1>1 DEF Block
<1>3. f \in [1 .. Scratch -> Block]
  BY <1>2
<1>4. \A b \in Block : b + 1 \in 1 .. Scratch /\ b = f[b + 1]
  BY <1>1 DEF Block
<1>5. DOMAIN f = 1 .. Scratch /\ \A i \in 1 .. Scratch : f[i] = i - 1
  OBVIOUS
<1>6. f \in Seq(Block)
  BY <1>1, <1>3
<1> HIDE DEF f
<1>7. IsInjective(f)
  BY <1>1, <1>5 DEF IsInjective
<1>8. ToSet(f) = Block
  BY <1>2, <1>4, <1>5 DEF ToSet
<1> QED BY <1>6, <1>7, <1>8 DEF f

(* With no block owned or held, the queue holds them all and no tag is wrong. *)
LEMMA EmptyCache ==
  ASSUME NEW S, NEW K, NEW t, \A h \in Item : S[h] = {} /\ K[h] = {}
  PROVE  SharedOut(S, K, Block) /\ Tagged(S, K, t)
  BY DEF SharedOut, Tagged

(* __init__ establishes the invariant. *)
LEMMA InitCache == CacheAssumption /\ Init => CacheInv
<1> SUFFICES ASSUME CacheAssumption, Init PROVE CacheInv
  OBVIOUS
<1>1. freeQ \in Seq(Block) /\ IsInjective(freeQ) /\ ToSet(freeQ) = Block
  BY FullQueue DEF Init
<1>2. \A h \in Item : /\ slot[h] = <<>> /\ held[h] = <<>>
                      /\ ToSet(slot[h]) = {} /\ ToSet(held[h]) = {}
                      /\ IsInjective(slot[h]) /\ IsInjective(held[h])
  BY EmptyList DEF Init
<1>3. CacheTypes /\ OneEntry
  BY <1>1, <1>2, EmptySeq DEF Init, CacheTypes, OneEntry
<1>4. \A h \in Item : SlotSets[h] = {} /\ HeldSets[h] = {}
  BY <1>2 DEF SlotSets, HeldSets
<1>5. SharedOut(SlotSets, HeldSets, ToSet(freeQ)) /\ Tagged(SlotSets, HeldSets, tag)
  BY <1>1, <1>4, EmptyCache
<1> QED BY <1>1, <1>2, <1>3, <1>5, PartitionIsSharedOut DEF CacheInv

(* Appending the item's own held blocks, as allocate() does first. *)
LEMMA OwnHoldReturned ==
  ASSUME CacheInv, NEW h \in Item
  PROVE  LET q == freeQ \o held[h]
             keep == HeldWithout(h)
         IN  /\ q \in Seq(Block) /\ IsInjective(q)
             /\ keep \in [Item -> Seq(Block)] /\ \A g \in Item : IsInjective(keep[g])
             /\ SharedOut(SlotSets, [g \in Item |-> ToSet(keep[g])], ToSet(q))
             /\ Tagged(SlotSets, [g \in Item |-> ToSet(keep[g])], tag)
<1> DEFINE q == freeQ \o held[h]
           keep == HeldWithout(h)
           L == [g \in Item |-> ToSet(keep[g])]
           Q == ToSet(freeQ)
<1>1. /\ IsInjective(freeQ) /\ \A g \in Item : IsInjective(held[g])
      /\ SharedOut(SlotSets, HeldSets, Q) /\ Tagged(SlotSets, HeldSets, tag)
  BY NowPartition
<1>2. freeQ \in Seq(Block) /\ held \in [Item -> Seq(Block)]
  BY DEF CacheInv, CacheTypes
<1>3. HeldSets[h] = ToSet(held[h])
  BY DEF HeldSets
<1>4. ToSet(freeQ) \cap ToSet(held[h]) = {}
  BY <1>1, <1>3 DEF SharedOut
<1>5. q \in Seq(Block) /\ IsInjective(q) /\ ToSet(q) = Q \cup HeldSets[h]
  BY <1>1, <1>2, <1>3, <1>4, AppendLists
<1>6. keep \in [Item -> Seq(Block)] /\ \A g \in Item : keep[g] = IF g = h THEN <<>> ELSE held[g]
  BY <1>2, EmptySeq DEF HeldWithout
<1>7. \A g \in Item : IsInjective(keep[g])
  BY <1>1, <1>6, EmptyList
<1>8. L = Emptied(HeldSets, {h})
  BY <1>6, EmptyList DEF Emptied, HeldSets
<1>9. Moved(HeldSets, {h}) = HeldSets[h]
  BY DEF Moved
<1> HIDE DEF q, keep, L, Q
<1>10. SharedOut(SlotSets, Emptied(HeldSets, {h}), Q \cup Moved(HeldSets, {h}))
  BY <1>1, HoldToQueue
<1>11. Tagged(SlotSets, L, tag)
  <2>1. \A g \in Item : L[g] = IF g = h THEN {} ELSE HeldSets[g]
    BY <1>8 DEF Emptied
  <2> QED BY <1>1, <2>1 DEF Tagged
<1>12. SharedOut(SlotSets, L, ToSet(q))
  BY <1>5, <1>8, <1>9, <1>10
<1> QED BY <1>5, <1>6, <1>7, <1>11, <1>12 DEF q, keep, L

(* allocate() returns the item's own hold and expired holds to the queue. *)
LEMMA AllocateBeginKeeps ==
  ASSUME CacheAssumption, CacheInv, NEW h \in Item, AllocateBegin(h)
  PROVE  CacheInv'
<1> DEFINE q == freeQ \o held[h]
           keep == HeldWithout(h)
           Slots == [g \in Item |-> ToSet(slot'[g])]
           L == [g \in Item |-> ToSet(held'[g])]
<1>1. /\ pending = NoItem /\ slot[h] = <<>> /\ pending' = h /\ slot' = slot
      /\ \/ Reclaim(q, keep)
         \/ freeQ' = q /\ held' = keep /\ tag' = tag
  BY DEF AllocateBegin
<1>2. Slots = SlotSets /\ \A g \in Item : IsInjective(slot'[g])
  BY <1>1, NowPartition DEF SlotSets
<1>3. /\ slot \in [Item -> Seq(Block)] /\ tag \in [Block -> Item \cup {NoItem}]
      /\ held \in [Item -> Seq(Block)]
  BY DEF CacheInv, CacheTypes
<1>4. \A g \in Item : keep[g] = IF g = h THEN <<>> ELSE held[g]
  BY <1>3 DEF HeldWithout
<1>5. /\ q \in Seq(Block) /\ IsInjective(q)
      /\ keep \in [Item -> Seq(Block)] /\ \A g \in Item : IsInjective(keep[g])
      /\ SharedOut(SlotSets, [g \in Item |-> ToSet(keep[g])], ToSet(q))
      /\ Tagged(SlotSets, [g \in Item |-> ToSet(keep[g])], tag)
  BY OwnHoldReturned
<1> HIDE DEF q, keep
<1>6. /\ freeQ' \in Seq(Block) /\ IsInjective(freeQ')
      /\ held' \in [Item -> Seq(Block)] /\ \A g \in Item : IsInjective(held'[g])
      /\ \A g \in Item : held'[g] = keep[g] \/ held'[g] = <<>>
      /\ tag' \in [Block -> Item \cup {NoItem}]
      /\ SharedOut(SlotSets, L, ToSet(freeQ')) /\ Tagged(SlotSets, L, tag')
  <2>1. CASE Reclaim(q, keep)
    BY <1>3, <1>5, <2>1, ReclaimKeeps
  <2>2. CASE freeQ' = q /\ held' = keep /\ tag' = tag
    BY <1>3, <1>5, <2>2
  <2> QED BY <1>1, <2>1, <2>2
<1>7. CacheTypes'
  BY <1>1, <1>3, <1>6 DEF CacheTypes, Block, Scratch
<1>8. OneEntry'
  BY <1>1, <1>4, <1>6 DEF OneEntry, CacheInv
<1>9. BlocksPartitioned' /\ TagNamesOwner'
  <2>1. SharedOut(Slots, L, ToSet(freeQ')) /\ Tagged(Slots, L, tag')
    BY <1>2, <1>6
  <2> QED BY <1>2, <1>6, <1>7, <2>1, NextPartition
<1> QED BY <1>7, <1>8, <1>9 DEF CacheInv

(* A turn of _wait_and_reclaim() returns expired holds to the queue. *)
LEMMA WakeKeeps ==
  ASSUME CacheAssumption, CacheInv, Wake
  PROVE  CacheInv'
<1> DEFINE L == [g \in Item |-> ToSet(held'[g])]
<1>1. Reclaim(freeQ, held) /\ slot' = slot /\ pending' = pending
  BY DEF Wake
<1>2. /\ IsInjective(freeQ) /\ \A g \in Item : IsInjective(slot[g]) /\ IsInjective(held[g])
      /\ SharedOut(SlotSets, HeldSets, ToSet(freeQ)) /\ Tagged(SlotSets, HeldSets, tag)
  BY NowPartition
<1>3. /\ slot \in [Item -> Seq(Block)] /\ tag \in [Block -> Item \cup {NoItem}]
      /\ held \in [Item -> Seq(Block)] /\ freeQ \in Seq(Block)
      /\ pending \in Item \cup {NoItem}
  BY DEF CacheInv, CacheTypes
<1>4. HeldSets = [g \in Item |-> ToSet(held[g])]
  BY DEF HeldSets
<1>5. SlotSets = [g \in Item |-> ToSet(slot'[g])]
  BY <1>1 DEF SlotSets
<1>6. /\ freeQ' \in Seq(Block) /\ IsInjective(freeQ')
      /\ held' \in [Item -> Seq(Block)] /\ \A g \in Item : IsInjective(held'[g])
      /\ \A g \in Item : held'[g] = held[g] \/ held'[g] = <<>>
      /\ tag' \in [Block -> Item \cup {NoItem}]
      /\ SharedOut(SlotSets, L, ToSet(freeQ')) /\ Tagged(SlotSets, L, tag')
  BY <1>1, <1>2, <1>3, <1>4, ReclaimKeeps
<1>7. CacheTypes'
  BY <1>1, <1>3, <1>6 DEF CacheTypes, Block, Scratch
<1>8. OneEntry'
  BY <1>1, <1>3, <1>6 DEF OneEntry, CacheInv
<1>9. BlocksPartitioned' /\ TagNamesOwner'
  BY <1>1, <1>2, <1>5, <1>6, <1>7, NextPartition
<1> QED BY <1>7, <1>8, <1>9 DEF CacheInv

(* allocate() hands the head of the queue to the item and tags it, or fails. *)
LEMMA AllocateEndKeeps ==
  ASSUME CacheAssumption, CacheInv, AllocateEnd
  PROVE  CacheInv'
<1> DEFINE p == pending
           n == Need[p]
           got == SubSeq(freeQ, 1, n)
           rest == SubSeq(freeQ, n + 1, Len(freeQ))
           T == [g \in Item |-> ToSet(slot'[g])]
           L == [g \in Item |-> ToSet(held'[g])]
<1>1. /\ IsInjective(freeQ) /\ \A g \in Item : IsInjective(slot[g]) /\ IsInjective(held[g])
      /\ SharedOut(SlotSets, HeldSets, ToSet(freeQ)) /\ Tagged(SlotSets, HeldSets, tag)
  BY NowPartition
<1>2. /\ slot \in [Item -> Seq(Block)] /\ tag \in [Block -> Item \cup {NoItem}]
      /\ held \in [Item -> Seq(Block)] /\ freeQ \in Seq(Block)
  BY DEF CacheInv, CacheTypes
<1>3. p \in Item /\ n \in Nat /\ slot[p] = <<>> /\ held' = held /\ pending' = NoItem
  BY DEF AllocateEnd, CacheInv, CacheTypes, OneEntry, CacheAssumption
<1>4. HeldSets = L
  BY <1>3 DEF HeldSets
<1>5. CASE n > Len(freeQ)
  <2>1. slot' = slot /\ freeQ' = freeQ /\ tag' = tag
    BY <1>5 DEF AllocateEnd
  <2>2. CacheTypes' /\ OneEntry'
    BY <1>2, <1>3, <2>1 DEF CacheTypes, OneEntry, CacheInv, Block, Scratch
  <2>3. T = SlotSets
    BY <2>1 DEF SlotSets
  <2>4. SharedOut(T, L, ToSet(freeQ')) /\ Tagged(T, L, tag')
    BY <1>1, <1>4, <2>1, <2>3
  <2>5. BlocksPartitioned' /\ TagNamesOwner'
    BY <1>1, <1>3, <2>1, <2>2, <2>4, NextPartition
  <2> QED BY <2>2, <2>5 DEF CacheInv
<1>6. CASE ~(n > Len(freeQ))
  <2>1. /\ slot' = [slot EXCEPT ![p] = got] /\ freeQ' = rest
        /\ tag' = [b \in Block |-> IF b \in ToSet(got) THEN p ELSE tag[b]]
    BY <1>6 DEF AllocateEnd, Taken, Popped, StampedTag
  <2>2. n <= Len(freeQ)
    BY <1>2, <1>3, <1>6, LenProperties
  <2>3. /\ got \in Seq(Block) /\ rest \in Seq(Block)
        /\ IsInjective(got) /\ IsInjective(rest)
        /\ ToSet(got) \cap ToSet(rest) = {}
        /\ ToSet(freeQ) = ToSet(got) \cup ToSet(rest)
    BY <1>1, <1>2, <1>3, <2>2, SplitList
  <2> HIDE DEF got, rest, n
  <2>4. \A g \in Item : slot'[g] = IF g = p THEN got ELSE slot[g]
    BY <1>2, <2>1
  <2>5. CacheTypes'
    BY <1>2, <1>3, <2>1, <2>3 DEF CacheTypes, Block, Scratch
  <2>6. OneEntry'
    BY <1>3, <2>4 DEF OneEntry, CacheInv
  <2>7. T = Given(SlotSets, p, ToSet(got)) /\ SlotSets[p] = {}
    BY <1>3, <2>4, EmptyList DEF Given, SlotSets
  <2> DEFINE G == ToSet(got)
             R == ToSet(rest)
             Q == ToSet(freeQ)
  <2>8. G \cap R = {} /\ Q = G \cup R /\ SharedOut(SlotSets, HeldSets, Q)
    BY <1>1, <2>3
  <2>9. SharedOut(T, L, R)
    <3> HIDE DEF G, R, Q, T, L
    <3>1. SharedOut(Given(SlotSets, p, G), HeldSets, R)
      BY <1>3, <2>7, <2>8, QueueToSlot
    <3> QED BY <1>4, <2>7, <3>1 DEF G
  <2>10. Tagged(T, L, tag')
    <3>1. \A g \in Item : T[g] = IF g = p THEN G ELSE SlotSets[g]
      BY <2>7 DEF Given
    <3> SUFFICES ASSUME NEW g \in Item, NEW b \in Block, b \in T[g] \/ b \in L[g]
                 PROVE  tag'[b] = g
      BY DEF Tagged
    <3> HIDE DEF T, L
    <3>2. CASE b \in G
      <4>1. b \notin SlotSets[g] /\ b \notin HeldSets[g]
        BY <2>8, <3>2 DEF SharedOut
      <4>2. g = p
        BY <1>4, <3>1, <4>1
      <4> QED BY <2>1, <3>2, <4>2
    <3>3. CASE b \notin G
      BY <1>1, <1>4, <2>1, <3>1, <3>3 DEF Tagged
    <3> QED BY <3>2, <3>3
  <2>11. \A g \in Item : IsInjective(slot'[g]) /\ IsInjective(held'[g])
    BY <1>1, <1>3, <2>3, <2>4
  <2>12. BlocksPartitioned' /\ TagNamesOwner'
    BY <2>1, <2>3, <2>5, <2>9, <2>10, <2>11, NextPartition
  <2> QED BY <2>5, <2>6, <2>12 DEF CacheInv
<1> QED BY <1>5, <1>6

(* free() moves a slot to the hold, or to the queue when its hold time is over. *)
LEMMA FreeKeeps ==
  ASSUME CacheAssumption, CacheInv, NEW p \in Item, Free(p)
  PROVE  CacheInv'
<1> DEFINE T == [g \in Item |-> ToSet(slot'[g])]
           L == [g \in Item |-> ToSet(held'[g])]
           Q == ToSet(freeQ)
<1>1. /\ IsInjective(freeQ) /\ \A g \in Item : IsInjective(slot[g]) /\ IsInjective(held[g])
      /\ SharedOut(SlotSets, HeldSets, Q) /\ Tagged(SlotSets, HeldSets, tag)
  BY NowPartition
<1>2. /\ slot \in [Item -> Seq(Block)] /\ tag \in [Block -> Item \cup {NoItem}]
      /\ held \in [Item -> Seq(Block)] /\ freeQ \in Seq(Block)
  BY DEF CacheInv, CacheTypes
<1>3. /\ slot[p] # <<>> /\ held[p] = <<>> /\ pending = NoItem /\ pending' = NoItem
      /\ slot' = [slot EXCEPT ![p] = <<>>]
  BY DEF Free, CacheInv, OneEntry
<1>4. \A g \in Item : slot'[g] = IF g = p THEN <<>> ELSE slot[g]
  BY <1>2, <1>3
<1>5. T = Given(SlotSets, p, {})
  BY <1>4, EmptyList DEF Given, SlotSets
<1>6. SlotSets[p] = ToSet(slot[p]) /\ HeldSets[p] = {}
  BY <1>3, EmptyList DEF SlotSets, HeldSets
<1>7. \A g \in Item : IsInjective(slot'[g])
  BY <1>1, <1>4, EmptyList
<1>8. slot' \in [Item -> Seq(Block)]
  BY <1>2, <1>3, EmptySeq
<1>9. CASE HoldsBack(p)
  <2>1. held' = [held EXCEPT ![p] = slot[p]] /\ freeQ' = freeQ /\ tag' = tag
    BY <1>9 DEF Free
  <2>2. \A g \in Item : held'[g] = IF g = p THEN slot[p] ELSE held[g]
    BY <1>2, <2>1
  <2>3. CacheTypes' /\ OneEntry'
    BY <1>2, <1>3, <1>4, <1>8, <2>1, <2>2 DEF CacheTypes, OneEntry, CacheInv, Block, Scratch
  <2>4. L = Given(HeldSets, p, SlotSets[p])
    BY <1>6, <2>2 DEF Given, HeldSets
  <2>5. SharedOut(T, L, ToSet(freeQ'))
    <3> HIDE DEF T, L, Q
    <3>1. SharedOut(Given(SlotSets, p, {}), Given(HeldSets, p, SlotSets[p]), Q)
      BY <1>1, <1>6, SlotToHold
    <3> QED BY <1>5, <2>1, <2>4, <3>1 DEF Q
  <2>6. Tagged(T, L, tag')
    <3>1. \A g \in Item : \A b \in Block :
            (b \in T[g] \/ b \in L[g]) => (b \in SlotSets[g] \/ b \in HeldSets[g])
      <4> HIDE DEF T, L
      <4> QED BY <1>5, <2>4 DEF Given
    <3> HIDE DEF T, L
    <3> QED BY <1>1, <2>1, <3>1 DEF Tagged
  <2>7. \A g \in Item : IsInjective(slot'[g]) /\ IsInjective(held'[g])
    BY <1>1, <1>7, <2>2
  <2>8. BlocksPartitioned' /\ TagNamesOwner'
    BY <1>1, <2>1, <2>3, <2>5, <2>6, <2>7, NextPartition
  <2> QED BY <2>3, <2>8 DEF CacheInv
<1>10. CASE ~HoldsBack(p)
  <2>1. /\ held' = held /\ freeQ' = freeQ \o slot[p]
        /\ tag' = [b \in Block |-> IF b \in ToSet(slot[p]) THEN NoItem ELSE tag[b]]
    BY <1>10 DEF Free
  <2>2. HeldSets = L
    BY <2>1 DEF HeldSets
  <2>3. ToSet(freeQ) \cap ToSet(slot[p]) = {}
    BY <1>1, <1>6 DEF SharedOut
  <2>4. freeQ' \in Seq(Block) /\ IsInjective(freeQ') /\ ToSet(freeQ') = Q \cup SlotSets[p]
    BY <1>1, <1>2, <1>6, <2>1, <2>3, AppendLists
  <2>5. CacheTypes' /\ OneEntry'
    BY <1>2, <1>3, <1>4, <1>8, <2>1, <2>4 DEF CacheTypes, OneEntry, CacheInv, Block, Scratch
  <2>6. SharedOut(T, L, ToSet(freeQ'))
    <3> HIDE DEF T, L, Q
    <3>1. SharedOut(Given(SlotSets, p, {}), HeldSets, Q \cup SlotSets[p])
      BY <1>1, SlotToQueue
    <3> QED BY <1>5, <2>2, <2>4, <3>1
  <2>7. Tagged(T, L, tag')
    <3>1. \A g \in Item : T[g] = IF g = p THEN {} ELSE SlotSets[g]
      <4> HIDE DEF T
      <4> QED BY <1>5 DEF Given
    <3> HIDE DEF T, L, Q
    <3> SUFFICES ASSUME NEW g \in Item, NEW b \in Block, b \in T[g] \/ b \in L[g]
                 PROVE  tag'[b] = g
      BY DEF Tagged
    <3>2. b \in SlotSets[g] \/ b \in HeldSets[g]
      BY <2>2, <3>1
    <3>3. b \notin SlotSets[p]
      BY <1>1, <2>2, <3>1, <3>2 DEF SharedOut
    <3> QED BY <1>1, <1>6, <2>1, <3>2, <3>3 DEF Tagged
  <2>8. \A g \in Item : IsInjective(slot'[g]) /\ IsInjective(held'[g])
    BY <1>1, <1>7, <2>1
  <2>9. BlocksPartitioned' /\ TagNamesOwner'
    BY <2>4, <2>5, <2>6, <2>7, <2>8, NextPartition
  <2> QED BY <2>5, <2>9 DEF CacheInv
<1> QED BY <1>9, <1>10

(* clear() puts every block back into the queue. *)
LEMMA ClearKeeps ==
  ASSUME CacheAssumption, CacheInv, Clear
  PROVE  CacheInv'
<1> DEFINE T == [g \in Item |-> ToSet(slot'[g])]
           L == [g \in Item |-> ToSet(held'[g])]
<1>1. freeQ' \in Seq(Block) /\ IsInjective(freeQ') /\ ToSet(freeQ') = Block
  BY FullQueue DEF Clear
<1>2. \A h \in Item : /\ slot'[h] = <<>> /\ held'[h] = <<>>
                      /\ ToSet(slot'[h]) = {} /\ ToSet(held'[h]) = {}
                      /\ IsInjective(slot'[h]) /\ IsInjective(held'[h])
  BY EmptyList DEF Clear
<1>3. /\ slot' \in [Item -> Seq(Block)] /\ held' \in [Item -> Seq(Block)]
      /\ tag' \in [Block -> Item \cup {NoItem}]
  BY EmptySeq DEF Clear
<1>4. CacheTypes' /\ OneEntry'
  BY <1>1, <1>2, <1>3 DEF Clear, CacheTypes, OneEntry, CacheInv, Block, Scratch
<1>5. SharedOut(T, L, ToSet(freeQ')) /\ Tagged(T, L, tag')
  <2>1. \A h \in Item : T[h] = {} /\ L[h] = {}
    BY <1>2
  <2> HIDE DEF T, L
  <2> QED BY <1>1, <2>1, EmptyCache
<1>6. BlocksPartitioned' /\ TagNamesOwner'
  BY <1>1, <1>2, <1>4, <1>5, NextPartition
<1> QED BY <1>4, <1>6 DEF CacheInv

(* A step that leaves queue, slots, hold and tags alone. *)
LEMMA OthersKeep ==
  ASSUME CacheInv, UNCHANGED <<slot, held, freeQ, tag, pending>>
  PROVE  CacheInv'
<1>1. CacheTypes' /\ OneEntry'
  BY DEF CacheInv, CacheTypes, OneEntry, Block, Scratch
<1>2. /\ IsInjective(freeQ) /\ \A h \in Item : IsInjective(slot[h]) /\ IsInjective(held[h])
      /\ SharedOut(SlotSets, HeldSets, ToSet(freeQ)) /\ Tagged(SlotSets, HeldSets, tag)
  BY NowPartition
<1>3. BlocksPartitioned' /\ TagNamesOwner'
  BY <1>1, <1>2, NextPartition DEF SlotSets, HeldSets
<1> QED BY <1>1, <1>3 DEF CacheInv

(* Every step keeps the invariant. *)
LEMMA StepCache == CacheAssumption /\ CacheInv /\ [Next]_cacheVars => CacheInv'
<1> SUFFICES ASSUME CacheAssumption, CacheInv, [Next]_cacheVars PROVE CacheInv'
  OBVIOUS
<1>1. ASSUME NEW h \in Item, AllocateBegin(h) PROVE CacheInv'
  BY <1>1, AllocateBeginKeeps
<1>2. ASSUME NEW h \in Item, MarkWritten(h) PROVE CacheInv'
  BY <1>2, OthersKeep DEF MarkWritten
<1>3. ASSUME NEW h \in Item, Free(h) PROVE CacheInv'
  BY <1>3, FreeKeeps
<1>4. CASE Sleep
  BY <1>4, OthersKeep DEF Sleep
<1>5. CASE Wake
  BY <1>5, WakeKeeps
<1>6. CASE AllocateEnd
  BY <1>6, AllocateEndKeeps
<1>7. CASE Clear
  BY <1>7, ClearKeeps
<1>8. CASE Tick
  BY <1>8, OthersKeep DEF Tick
<1>9. CASE UNCHANGED cacheVars
  BY <1>9, OthersKeep DEF cacheVars
<1> QED BY <1>1, <1>2, <1>3, <1>4, <1>5, <1>6, <1>7, <1>8, <1>9 DEF Next

(* No block is leaked and none is given to two items, for any cache size,    *)
(* set of items and hold time (EncoderCacheBlocks: allocate, free,          *)
(* reclaim_held, clear).                                                    *)
THEOREM NoBlockLostOrShared == Spec => []BlocksPartitioned
<1>1. Init => CacheInv
  BY InitCache, CacheAssumption
<1>2. CacheInv /\ [Next]_cacheVars => CacheInv'
  BY StepCache, CacheAssumption
<1>3. CacheInv => BlocksPartitioned
  BY DEF CacheInv
<1> QED BY <1>1, <1>2, <1>3, PTL DEF Spec

(* A block that an item owns, or has left in the hold for its readers, is    *)
(* tagged with that item (the stamp of allocate, the clearing in free and   *)
(* reclaim_held).                                                           *)
THEOREM TagsNameOwners == Spec => []TagNamesOwner
<1>1. Init => CacheInv
  BY InitCache, CacheAssumption
<1>2. CacheInv /\ [Next]_cacheVars => CacheInv'
  BY StepCache, CacheAssumption
<1>3. CacheInv => TagNamesOwner
  BY DEF CacheInv
<1> QED BY <1>1, <1>2, <1>3, PTL DEF Spec

Ages == age \in [Block -> 0 .. HoldTime]

(* Ages stay in their range. *)
LEMMA AgesKept == CacheAssumption /\ Ages /\ [Next]_cacheVars => Ages'
<1> SUFFICES ASSUME CacheAssumption, Ages, [Next]_cacheVars PROVE Ages'
  OBVIOUS
<1>1. HoldTime \in Nat
  BY DEF CacheAssumption
<1>2. CASE UNCHANGED age
  BY <1>2 DEF Ages, Block, Scratch
<1>3. ASSUME NEW h \in Item, MarkWritten(h) PROVE Ages'
  BY <1>1, <1>3 DEF MarkWritten, Ages, Block, Scratch
<1>4. CASE AllocateEnd
  <2>1. \/ age' = age
        \/ \E s : age' = [b \in Block |-> IF b \in s THEN HoldTime ELSE age[b]]
    BY <1>4 DEF AllocateEnd
  <2>2. CASE age' = age
    BY <2>2 DEF Ages, Block, Scratch
  <2>3. ASSUME NEW s, age' = [b \in Block |-> IF b \in s THEN HoldTime ELSE age[b]] PROVE Ages'
    <3>1. \A b \in Block : (IF b \in s THEN HoldTime ELSE age[b]) \in 0 .. HoldTime
      BY <1>1 DEF Ages
    <3>2. age' \in [Block -> 0 .. HoldTime]
      BY <2>3, <3>1
    <3> QED BY <3>2 DEF Ages, Block, Scratch
  <2> QED BY <2>1, <2>2, <2>3
<1>5. CASE Clear
  BY <1>1, <1>5 DEF Clear, Ages, Block, Scratch
<1>6. CASE Tick
  <2>1. age' = [b \in Block |-> Older(age[b])]
    BY <1>6 DEF Tick
  <2>2. \A b \in Block : Older(age[b]) \in 0 .. HoldTime
    BY <1>1 DEF Ages, Older
  <2> QED BY <2>1, <2>2 DEF Ages, Block, Scratch
<1> QED BY <1>2, <1>3, <1>4, <1>5, <1>6
        DEF Next, AllocateBegin, Free, Sleep, Wake, cacheVars

(* Nothing but the re-allocation of the item itself, or clear, returns a     *)
(* block to the free queue before its hold time is over.                    *)
THEOREM HoldTimeKept == Spec => HeldUntilExpiry
<1> DEFINE Entered == \A b \in ToSet(freeQ') \ ToSet(freeQ) :
                        \/ age[b] = HoldTime
                        \/ \E h \in Item : pending' = h /\ b \in ToSet(held[h])
                        \/ freeQ' = [i \in 1 .. Scratch |-> i - 1]
           I == CacheInv /\ Ages
<1>1. Init => I
  BY InitCache, CacheAssumption DEF Init, Ages, CacheAssumption
<1>2. I /\ [Next]_cacheVars => I'
  BY StepCache, AgesKept, CacheAssumption
<1>3. I /\ [Next]_cacheVars => [Entered]_cacheVars
  <2> SUFFICES ASSUME CacheInv, Ages, Next PROVE Entered
    OBVIOUS
  <2>1. HoldTime \in Nat /\ CacheAssumption
    BY CacheAssumption DEF CacheAssumption
  <2>2. ASSUME NEW s \in Seq(Block), Expired(s), NEW b \in ToSet(s) PROVE age[b] = HoldTime
    <3>1. b \in Block /\ age[b] >= HoldTime
      BY <2>2, ListMembers DEF Expired
    <3> QED BY <2>1, <3>1 DEF Ages
  <2>3. ASSUME NEW h \in Item, AllocateBegin(h) PROVE Entered
    <3> DEFINE q == freeQ \o held[h]
               keep == HeldWithout(h)
    <3>1. /\ q \in Seq(Block) /\ IsInjective(q) /\ keep \in [Item -> Seq(Block)]
          /\ SharedOut(SlotSets, [g \in Item |-> ToSet(keep[g])], ToSet(q))
      BY OwnHoldReturned
    <3>2. ToSet(q) = ToSet(freeQ) \cup ToSet(held[h])
      <4>1. /\ IsInjective(freeQ) /\ IsInjective(held[h])
            /\ SharedOut(SlotSets, HeldSets, ToSet(freeQ))
        BY NowPartition
      <4>2. HeldSets[h] = ToSet(held[h])
        BY DEF HeldSets
      <4>3. ToSet(freeQ) \cap ToSet(held[h]) = {}
        BY <4>1, <4>2 DEF SharedOut
      <4>4. freeQ \in Seq(Block) /\ held[h] \in Seq(Block)
        BY DEF CacheInv, CacheTypes
      <4> QED BY <4>1, <4>3, <4>4, AppendLists
    <3>3. pending' = h
      BY <2>3 DEF AllocateBegin
    <3>4. \A g \in Item : ToSet(keep[g]) \cap ToSet(q) = {}
      <4> DEFINE K == [g \in Item |-> ToSet(keep[g])]
      <4>1. \A g \in Item : K[g] = ToSet(keep[g])
        OBVIOUS
      <4>2. SharedOut(SlotSets, K, ToSet(q))
        BY <3>1
      <4> HIDE DEF K, q, keep
      <4> QED BY <4>1, <4>2 DEF SharedOut
    <3> HIDE DEF q, keep
    <3>5. CASE freeQ' = q
      BY <3>2, <3>3, <3>5
    <3>6. CASE Reclaim(q, keep)
      <4>1. ToSet(freeQ') = ToSet(q) \cup Released(keep)
        BY <2>1, <3>1, <3>4, <3>6, ReclaimParts
      <4>2. \A b \in Released(keep) : age[b] = HoldTime
        BY <2>2, <3>1 DEF Released
      <4> QED BY <3>2, <3>3, <4>1, <4>2
    <3> QED BY <2>3, <3>5, <3>6 DEF AllocateBegin, q, keep
  <2>4. CASE Wake
    <3>1. /\ IsInjective(freeQ) /\ SharedOut(SlotSets, HeldSets, ToSet(freeQ))
          /\ freeQ \in Seq(Block) /\ held \in [Item -> Seq(Block)]
      BY NowPartition DEF CacheInv, CacheTypes
    <3>2. \A g \in Item : ToSet(held[g]) \cap ToSet(freeQ) = {}
      BY <3>1 DEF SharedOut, HeldSets
    <3>3. ToSet(freeQ') = ToSet(freeQ) \cup Released(held)
      BY <2>1, <2>4, <3>1, <3>2, ReclaimParts DEF Wake
    <3>4. \A b \in Released(held) : age[b] = HoldTime
      BY <2>2, <3>1 DEF Released
    <3> QED BY <3>3, <3>4
  <2>5. ASSUME NEW h \in Item, Free(h) PROVE Entered
    <3>1. CASE HoldsBack(h)
      BY <2>5, <3>1 DEF Free
    <3>2. CASE ~HoldsBack(h)
      <4>1. /\ IsInjective(freeQ) /\ IsInjective(slot[h])
            /\ SharedOut(SlotSets, HeldSets, ToSet(freeQ))
        BY NowPartition
      <4>2. freeQ \in Seq(Block) /\ slot[h] \in Seq(Block)
        BY DEF CacheInv, CacheTypes
      <4>3. ToSet(freeQ) \cap ToSet(slot[h]) = {}
        BY <4>1 DEF SharedOut, SlotSets
      <4>4. ToSet(freeQ') = ToSet(freeQ) \cup ToSet(slot[h])
        <5>1. freeQ' = freeQ \o slot[h]
          BY <2>5, <3>2 DEF Free
        <5> QED BY <4>1, <4>2, <4>3, <5>1, AppendLists
      <4>5. ASSUME NEW b \in ToSet(slot[h]) PROVE age[b] = HoldTime
        <5>1. b \in Block /\ ~(age[b] < HoldTime)
          BY <3>2, <4>2, ListMembers DEF HoldsBack
        <5> QED BY <2>1, <5>1 DEF Ages
      <4> QED BY <4>4, <4>5
    <3> QED BY <3>1, <3>2
  <2>6. CASE AllocateEnd
    <3>1. CASE Need[pending] > Len(freeQ)
      BY <2>6, <3>1 DEF AllocateEnd
    <3>2. CASE ~(Need[pending] > Len(freeQ))
      <4>1. /\ freeQ \in Seq(Block) /\ IsInjective(freeQ) /\ Need[pending] \in Nat
        BY <2>1, <2>6 DEF CacheInv, CacheTypes, BlocksPartitioned, AllocateEnd, CacheAssumption
      <4>2. Need[pending] <= Len(freeQ)
        BY <3>2, <4>1, LenProperties
      <4>3. ToSet(SubSeq(freeQ, Need[pending] + 1, Len(freeQ))) \subseteq ToSet(freeQ)
        BY <4>1, <4>2, SplitList
      <4> QED BY <2>6, <3>2, <4>3 DEF AllocateEnd, Popped
    <3> QED BY <3>1, <3>2
  <2>7. CASE Clear
    BY <2>7 DEF Clear
  <2>8. CASE UNCHANGED freeQ
    BY <2>8
  <2> QED BY <2>3, <2>4, <2>5, <2>6, <2>7, <2>8 DEF Next, MarkWritten, Sleep, Tick
<1> QED BY <1>1, <1>2, <1>3, PTL DEF Spec, HeldUntilExpiry

(* The rest of the type invariant: the size of the entries, and the state of *)
(* the call to allocate() in progress.                                      *)
Sizes ==
  /\ \A h \in Item : {Len(slot[h]), Len(held[h])} \subseteq {0, Need[h]}
  /\ unwritten \subseteq {h \in Item : slot[h] # <<>>}

Call ==
  /\ waited \in 0 .. HoldTime /\ {asleep, failed} \subseteq BOOLEAN
  /\ asleep => pending # NoItem

(* Every entry keeps its item's size. *)
LEMMA SizesKept == CacheAssumption /\ CacheInv /\ Sizes /\ [Next]_cacheVars => Sizes'
<1> SUFFICES ASSUME CacheAssumption, CacheInv, Sizes, [Next]_cacheVars PROVE Sizes'
  OBVIOUS
<1>1. /\ slot \in [Item -> Seq(Block)] /\ held \in [Item -> Seq(Block)]
      /\ freeQ \in Seq(Block) /\ Need \in [Item -> Nat \ {0}]
  BY DEF CacheInv, CacheTypes, CacheAssumption
<1>2. Len(<<>>) = 0
  OBVIOUS
<1>3. ASSUME slot' = slot, unwritten' \subseteq unwritten,
             \A g \in Item : held'[g] = held[g] \/ held'[g] = <<>>
      PROVE  Sizes'
  BY <1>1, <1>2, <1>3 DEF Sizes
<1>4. ASSUME NEW h \in Item, AllocateBegin(h) PROVE Sizes'
  <2>1. slot' = slot /\ unwritten' = unwritten
    BY <1>4 DEF AllocateBegin
  <2>2. \A g \in Item : HeldWithout(h)[g] = held[g] \/ HeldWithout(h)[g] = <<>>
    BY <1>1 DEF HeldWithout
  <2>3. \A g \in Item : held'[g] = HeldWithout(h)[g] \/ held'[g] = <<>>
    BY <1>4 DEF AllocateBegin, Reclaim
  <2>4. \A g \in Item : held'[g] = held[g] \/ held'[g] = <<>>
    BY <2>2, <2>3
  <2> QED BY <1>3, <2>1, <2>4
<1>5. ASSUME NEW h \in Item, MarkWritten(h) PROVE Sizes'
  BY <1>3, <1>5 DEF MarkWritten
<1>6. ASSUME NEW h \in Item, Free(h) PROVE Sizes'
  <2>1. /\ \A g \in Item : slot'[g] = IF g = h THEN <<>> ELSE slot[g]
        /\ unwritten' = unwritten \ {h}
        /\ \A g \in Item : held'[g] = held[g] \/ (g = h /\ held'[g] = slot[g])
    BY <1>1, <1>6 DEF Free
  <2> QED BY <1>2, <2>1 DEF Sizes
<1>7. CASE Wake
  <2>1. /\ slot' = slot /\ unwritten' = unwritten
        /\ \A g \in Item : held'[g] = held[g] \/ held'[g] = <<>>
    BY <1>7 DEF Wake, Reclaim
  <2> QED BY <1>3, <2>1
<1>8. CASE AllocateEnd
  <2>1. CASE Need[pending] > Len(freeQ)
    BY <1>3, <1>8, <2>1 DEF AllocateEnd
  <2>2. CASE ~(Need[pending] > Len(freeQ))
    <3> DEFINE got == SubSeq(freeQ, 1, Need[pending])
    <3>1. pending \in Item /\ Need[pending] \in Nat \ {0}
      BY <1>1, <1>8 DEF AllocateEnd, CacheInv, CacheTypes
    <3>2. Need[pending] <= Len(freeQ)
      BY <1>1, <2>2, <3>1, LenProperties
    <3>3. Len(got) = Need[pending]
      BY <1>1, <3>1, <3>2, SubSeqProperties
    <3>4. got # <<>>
      BY <1>2, <3>1, <3>3
    <3>5. /\ \A g \in Item : slot'[g] = IF g = pending THEN got ELSE slot[g]
          /\ unwritten' = unwritten \cup {pending} /\ held' = held
      BY <1>1, <1>8, <2>2 DEF AllocateEnd, Taken
    <3> HIDE DEF got
    <3> QED BY <3>1, <3>3, <3>4, <3>5 DEF Sizes
  <2> QED BY <2>1, <2>2
<1>9. CASE Clear
  BY <1>2, <1>9 DEF Clear, Sizes
<1>10. CASE UNCHANGED <<slot, unwritten, held>>
  BY <1>3, <1>10
<1> QED BY <1>4, <1>5, <1>6, <1>7, <1>8, <1>9, <1>10 DEF Next, Sleep, Tick, cacheVars

(* A call in progress has an item and sleeps only meanwhile. *)
LEMMA CallKept == CacheAssumption /\ CacheInv /\ Call /\ [Next]_cacheVars => Call'
<1> SUFFICES ASSUME CacheAssumption, CacheInv, Call, [Next]_cacheVars PROVE Call'
  OBVIOUS
<1>1. HoldTime \in Nat /\ NoItem \notin Item
  BY DEF CacheAssumption
<1>2. ASSUME NEW h \in Item, AllocateBegin(h) PROVE Call'
  BY <1>1, <1>2 DEF AllocateBegin, Call
<1>3. CASE Sleep
  BY <1>3 DEF Sleep, Call
<1>4. CASE Wake
  BY <1>4 DEF Wake, Call
<1>5. CASE AllocateEnd
  <2>1. waited' = 0 /\ asleep' = asleep /\ ~asleep
    BY <1>5 DEF AllocateEnd
  <2>2. failed' = TRUE \/ failed' = failed
    BY <1>5 DEF AllocateEnd
  <2>3. 0 \in 0 .. HoldTime
    BY <1>1
  <2>4. {asleep', failed'} \subseteq BOOLEAN
    BY <2>1, <2>2 DEF Call
  <2> QED BY <2>1, <2>3, <2>4 DEF Call
<1>6. CASE Tick
  <2>1. /\ waited' = IF pending # NoItem THEN Older(waited) ELSE waited
        /\ pending' = pending /\ asleep' = asleep /\ failed' = failed
    BY <1>6 DEF Tick
  <2>2. waited \in 0 .. HoldTime /\ Older(waited) \in 0 .. HoldTime
    BY <1>1 DEF Call, Older
  <2>3. {asleep', failed'} \subseteq BOOLEAN /\ (asleep' => pending' # NoItem)
    BY <2>1 DEF Call
  <2> QED BY <2>1, <2>2, <2>3 DEF Call
<1>7. CASE UNCHANGED <<pending, waited, asleep, failed>>
  BY <1>7 DEF Call
<1> QED BY <1>2, <1>3, <1>4, <1>5, <1>6, <1>7 DEF Next, MarkWritten, Free, Clear, cacheVars

(* Type correctness, for any cache size, set of items and hold time: what is *)
(* cached or held is a list of allocatable blocks of its item's size, and   *)
(* only cached items are unwritten (EncoderCacheBlocks).                    *)
THEOREM CacheTypeCorrect == Spec => []TypeOK
<1> DEFINE I == CacheInv /\ Ages /\ Sizes /\ Call
<1>1. Init => I
  <2> SUFFICES ASSUME Init PROVE I
    OBVIOUS
  <2>1. CacheInv
    BY InitCache, CacheAssumption
  <2>2. Ages
    BY CacheAssumption DEF Init, Ages, CacheAssumption
  <2>3. Len(<<>>) = 0
    OBVIOUS
  <2>4. Sizes
    BY <2>3 DEF Init, Sizes
  <2>5. waited \in 0 .. HoldTime
    BY CacheAssumption DEF Init, CacheAssumption
  <2>6. asleep = FALSE /\ failed = FALSE
    BY DEF Init
  <2>7. {asleep, failed} \subseteq BOOLEAN
    BY <2>6
  <2>8. Call
    BY <2>5, <2>6, <2>7 DEF Call
  <2> QED BY <2>1, <2>2, <2>4, <2>8
<1>2. I /\ [Next]_cacheVars => I'
  BY StepCache, AgesKept, SizesKept, CallKept, CacheAssumption
<1>3. I => TypeOK
  BY DEF CacheInv, CacheTypes, Ages, Sizes, Call, TypeOK
<1> QED BY <1>1, <1>2, <1>3, PTL DEF Spec
------------------------------------------------------------------------------
(* The allocator implements the leases of BlockLeases: every step of it is   *)
(* a step of the leases or leaves them as they are.                         *)

(* The inductive invariant: who holds which block, and the ages. *)
LeaseInv == CacheInv /\ Ages

(* What a reader sees of a block is what the allocator's lists say. *)
LEMMA OwnerIsHolder ==
  ASSUME CacheAssumption, CacheInv
  PROVE  /\ \A b \in Block : OwnerSeen[b] = NoItem <=> b \in ToSet(freeQ)
         /\ \A b \in Block, h \in Item : OwnerSeen[b] = h <=> b \in Holders(h)
         /\ \A h \in Item : Holders(h) \subseteq Block
         /\ ToSet(freeQ) \subseteq Block
<1>1. \A b \in Block : OwnerSeen[b] = IF b \in ToSet(freeQ) THEN NoItem ELSE tag[b]
  BY DEF OwnerSeen
<1>2. /\ \A h \in Item : Holders(h) \subseteq Block
      /\ ToSet(freeQ) \subseteq Block
  BY ListMembers DEF CacheInv, CacheTypes, Holders
<1>3. \A b \in Block : b \notin ToSet(freeQ) => \E h \in Item : b \in Holders(h)
  BY DEF CacheInv, BlocksPartitioned
<1>4. \A h \in Item : \A b \in Holders(h) : b \notin ToSet(freeQ) /\ tag[b] = h
  BY DEF CacheInv, BlocksPartitioned, TagNamesOwner
<1>5. NoItem \notin Item
  BY DEF CacheAssumption
<1>6. ASSUME NEW b \in Block PROVE OwnerSeen[b] = NoItem <=> b \in ToSet(freeQ)
  BY <1>1, <1>3, <1>4, <1>5
<1>7. ASSUME NEW b \in Block, NEW h \in Item PROVE OwnerSeen[b] = h <=> b \in Holders(h)
  BY <1>1, <1>3, <1>4, <1>5
<1> QED BY <1>2, <1>6, <1>7

(* An item that is not cached holds what it left in the hold, and a cached  *)
(* one nothing but its slot.                                                *)
LEMMA OneList ==
  ASSUME CacheInv, NEW h \in Item
  PROVE  /\ slot[h] = <<>> => Holders(h) = ToSet(held[h])
         /\ slot[h] # <<>> => Holders(h) = ToSet(slot[h])
  BY EmptyList DEF CacheInv, OneEntry, Holders

(* When the blocks of the items E, and no others, go to the queue, these     *)
(* items' leases end, whatever happens to the tags of free blocks.          *)
LEMMA Vacated ==
  ASSUME CacheAssumption, CacheInv, NEW E \in SUBSET Item,
         ToSet(freeQ') = ToSet(freeQ) \cup UNION {Holders(h) : h \in E},
         \A b \in Block : b \notin ToSet(freeQ') => tag'[b] = tag[b]
  PROVE  Leases!Vacate(E)
<1>1. \A b \in Block : b \in ToSet(freeQ') <=> OwnerSeen[b] = NoItem \/ OwnerSeen[b] \in E
  BY OwnerIsHolder
<1>2. \A b \in Block : b \notin ToSet(freeQ) => OwnerSeen[b] = tag[b]
  BY DEF OwnerSeen
<1>3. OwnerSeen' = [b \in Block |-> IF b \in ToSet(freeQ') THEN NoItem ELSE tag'[b]]
  BY DEF OwnerSeen, Block, Scratch, ToSet
<1>4. ASSUME NEW b \in Block
      PROVE  (IF b \in ToSet(freeQ') THEN NoItem ELSE tag'[b])
               = (IF OwnerSeen[b] \in E THEN NoItem ELSE OwnerSeen[b])
  BY <1>1, <1>2, OwnerIsHolder
<1>5. OwnerSeen' = [b \in Block |-> IF OwnerSeen[b] \in E THEN NoItem ELSE OwnerSeen[b]]
  BY <1>3, <1>4
<1> QED BY <1>5 DEF Leases!Vacate

(* The blocks of an item, and those of nobody. *)
LEMMA OwnedIsHeld ==
  ASSUME CacheAssumption, CacheInv
  PROVE  /\ \A h \in Item : Leases!OwnedBy(h) = Holders(h)
         /\ Leases!Unowned = ToSet(freeQ)
<1>1. ASSUME NEW h \in Item PROVE Leases!OwnedBy(h) = Holders(h)
  BY OwnerIsHolder DEF Leases!OwnedBy
<1>2. Leases!Unowned = ToSet(freeQ)
  BY OwnerIsHolder DEF Leases!OwnedBy, Leases!Unowned
<1> QED BY <1>1, <1>2

(* A lease is over when every block of the list has the hold time's age. *)
LEMMA ExpiredIsOver ==
  ASSUME CacheAssumption, LeaseInv, NEW h \in Item, slot[h] = <<>>, Expired(held[h])
  PROVE  h \in Leases!Lapsed
<1>1. Leases!OwnedBy(h) = ToSet(held[h])
  BY OwnedIsHeld, OneList DEF LeaseInv
<1>2. ToSet(held[h]) \subseteq Block
  BY ListMembers DEF LeaseInv, CacheInv, CacheTypes
<1>3. \A b \in ToSet(held[h]) : age[b] >= HoldTime /\ age[b] \in 0 .. HoldTime
  BY <1>2 DEF Expired, LeaseInv, Ages
<1>4. Leases!Over(h)
  BY <1>1, <1>3 DEF Leases!Over, CacheAssumption
<1>5. h \notin Cached
  BY DEF Cached
<1> QED BY <1>4, <1>5 DEF Leases!Lapsed

(* reclaim_held() ends leases that are over, next to those of the items E    *)
(* whose blocks are on their way to the queue already.                      *)
LEMMA ReclaimEndsLeases ==
  ASSUME CacheAssumption, LeaseInv, NEW E \in SUBSET Item,
         NEW q \in Seq(Block), IsInjective(q),
         ToSet(q) = ToSet(freeQ) \cup UNION {Holders(h) : h \in E},
         NEW keep \in [Item -> Seq(Block)],
         \A h \in Item : keep[h] = IF h \in E THEN <<>> ELSE held[h],
         Reclaim(q, keep)
  PROVE  \E X \in SUBSET Leases!Lapsed : Leases!Vacate(X \cup E)
<1> DEFINE X == {h \in Item : Expired(keep[h])}
<1>0. CacheInv
  BY DEF LeaseInv
<1>1. \A h \in X : /\ h \notin E /\ keep[h] = held[h] /\ held[h] # <<>>
                   /\ slot[h] = <<>> /\ Holders(h) = ToSet(held[h])
  <2>1. \A h \in X : h \notin E /\ keep[h] = held[h] /\ held[h] # <<>>
    BY DEF Expired
  <2>2. \A h \in X : slot[h] = <<>>
    BY <1>0, <2>1 DEF CacheInv, OneEntry
  <2> QED BY <1>0, <2>1, <2>2, OneList
<1>2. X \in SUBSET Leases!Lapsed
  BY <1>1, ExpiredIsOver
<1>3. Released(keep) = UNION {Holders(h) : h \in X}
  BY <1>1 DEF Released
<1>4. \A h \in Item : ToSet(keep[h]) \cap ToSet(q) = {}
  <2> SUFFICES ASSUME NEW h \in Item, NEW b \in ToSet(keep[h]), b \in ToSet(q) PROVE FALSE
    OBVIOUS
  <2>1. h \notin E /\ b \in Holders(h)
    BY EmptyList DEF Holders
  <2>2. b \notin ToSet(freeQ) /\ \A g \in E : b \notin Holders(g)
    BY <1>0, <2>1 DEF CacheInv, BlocksPartitioned
  <2> QED BY <2>2
<1>5. /\ ToSet(freeQ') = ToSet(q) \cup Released(keep)
      /\ tag' = [b \in Block |-> IF b \in Released(keep) THEN NoItem ELSE tag[b]]
  BY <1>4, ReclaimParts
<1> HIDE DEF X
<1>6. ToSet(freeQ') = ToSet(freeQ) \cup UNION {Holders(h) : h \in X \cup E}
  BY <1>3, <1>5
<1>7. \A b \in Block : b \notin ToSet(freeQ') => tag'[b] = tag[b]
  BY <1>5
<1>8. X \cup E \in SUBSET Item
  BY DEF X
<1>9. Leases!Vacate(X \cup E)
  BY <1>0, <1>6, <1>7, <1>8, Vacated
<1> QED BY <1>2, <1>9

(* allocate() begins: the item's own lease ends, and leases that are over. *)
LEMMA AllocateBeginAsks ==
  ASSUME CacheAssumption, LeaseInv, NEW h \in Item, AllocateBegin(h)
  PROVE  Leases!Ask(h)
<1> DEFINE q == freeQ \o held[h]
           keep == HeldWithout(h)
<1>0. CacheInv
  BY DEF LeaseInv
<1>1. /\ pending = NoItem /\ slot[h] = <<>> /\ pending' = h
      /\ slot' = slot /\ age' = age
      /\ Reclaim(q, keep) \/ (freeQ' = q /\ held' = keep /\ tag' = tag)
  BY DEF AllocateBegin
<1>2. Cached' = Cached /\ h \notin Cached
  BY <1>1 DEF Cached
<1>3. q \in Seq(Block) /\ IsInjective(q) /\ keep \in [Item -> Seq(Block)]
  BY <1>0, OwnHoldReturned
<1>4. ToSet(q) = ToSet(freeQ) \cup UNION {Holders(g) : g \in {h}}
  <2>1. Holders(h) = ToSet(held[h])
    BY <1>0, <1>1, OneList
  <2>2. /\ IsInjective(freeQ) /\ IsInjective(held[h])
        /\ ToSet(freeQ) \cap ToSet(held[h]) = {}
    BY <1>0 DEF CacheInv, BlocksPartitioned, Holders
  <2>3. freeQ \in Seq(Block) /\ held[h] \in Seq(Block)
    BY <1>0 DEF CacheInv, CacheTypes
  <2>4. ToSet(q) = ToSet(freeQ) \cup ToSet(held[h])
    BY <2>2, <2>3, AppendLists
  <2> QED BY <2>1, <2>4
<1>5. \A g \in Item : keep[g] = IF g \in {h} THEN <<>> ELSE held[g]
  BY <1>0 DEF CacheInv, CacheTypes, HeldWithout
<1> HIDE DEF q, keep
<1>6. \E X \in SUBSET Leases!Lapsed : Leases!Vacate(X \cup {h})
  <2>1. CASE Reclaim(q, keep)
    BY <1>3, <1>4, <1>5, <2>1, ReclaimEndsLeases
  <2>2. CASE freeQ' = q /\ tag' = tag
    <3>1. Leases!Vacate({h})
      BY <1>0, <1>4, <2>2, Vacated
    <3>2. {} \in SUBSET Leases!Lapsed /\ {} \cup {h} = {h}
      OBVIOUS
    <3> QED BY <3>1, <3>2
  <2> QED BY <1>1, <2>1, <2>2
<1> QED BY <1>1, <1>2, <1>6 DEF Leases!Ask

(* A turn of the waiting loop: leases that are over end. *)
LEMMA WakeLapses ==
  ASSUME CacheAssumption, LeaseInv, Wake
  PROVE  Leases!Lapse
<1>0. CacheInv
  BY DEF LeaseInv
<1>1. Reclaim(freeQ, held) /\ slot' = slot /\ age' = age /\ pending' = pending
  BY DEF Wake
<1>2. /\ freeQ \in Seq(Block) /\ IsInjective(freeQ) /\ held \in [Item -> Seq(Block)]
  BY <1>0 DEF CacheInv, CacheTypes, BlocksPartitioned
<1>3. PICK X \in SUBSET Leases!Lapsed : Leases!Vacate(X \cup {})
  <2>1. {} \in SUBSET Item /\ ToSet(freeQ) = ToSet(freeQ) \cup UNION {Holders(h) : h \in {}}
    OBVIOUS
  <2>2. \A h \in Item : held[h] = IF h \in {} THEN <<>> ELSE held[h]
    OBVIOUS
  <2> QED BY <1>1, <1>2, <2>1, <2>2, ReclaimEndsLeases
<1>4. X \cup {} = X /\ Cached' = Cached
  BY <1>1 DEF Cached
<1> QED BY <1>1, <1>3, <1>4 DEF Leases!Lapse

(* free(): the lease goes on, or ends when it is over. *)
LEMMA FreeEvicts ==
  ASSUME CacheAssumption, LeaseInv, NEW h \in Item, Free(h)
  PROVE  Leases!Evict(h)
<1>0. CacheInv /\ HoldTime \in Nat
  BY DEF LeaseInv, CacheAssumption
<1>1. /\ slot[h] # <<>> /\ slot' = [slot EXCEPT ![h] = <<>>]
      /\ age' = age /\ pending' = pending
  BY DEF Free
<1>2. h \in Cached /\ Cached' = Cached \ {h}
  BY <1>0, <1>1 DEF Cached, CacheInv, CacheTypes
<1>3. Leases!OwnedBy(h) = ToSet(slot[h]) /\ Holders(h) = ToSet(slot[h])
  BY <1>0, <1>1, OwnedIsHeld, OneList
<1>4. Leases!Over(h) <=> ~HoldsBack(h)
  <2>1. \A b \in ToSet(slot[h]) : age[b] \in 0 .. HoldTime
    BY ListMembers DEF LeaseInv, CacheInv, CacheTypes, Ages
  <2> QED BY <1>0, <1>3, <2>1 DEF Leases!Over, HoldsBack
<1>5. CASE HoldsBack(h)
  <2>1. freeQ' = freeQ /\ tag' = tag
    BY <1>5 DEF Free
  <2>2. OwnerSeen' = OwnerSeen
    BY <2>1 DEF OwnerSeen, ToSet, Block, Scratch
  <2> QED BY <1>1, <1>2, <1>4, <1>5, <2>2 DEF Leases!Evict
<1>6. CASE ~HoldsBack(h)
  <2>1. /\ freeQ' = freeQ \o slot[h]
        /\ tag' = [b \in Block |-> IF b \in ToSet(slot[h]) THEN NoItem ELSE tag[b]]
    BY <1>6 DEF Free
  <2>2. /\ IsInjective(freeQ) /\ IsInjective(slot[h])
        /\ ToSet(freeQ) \cap ToSet(slot[h]) = {}
    BY <1>0 DEF CacheInv, BlocksPartitioned, Holders
  <2>3. freeQ \in Seq(Block) /\ slot[h] \in Seq(Block)
    BY <1>0 DEF CacheInv, CacheTypes
  <2>4. ToSet(freeQ') = ToSet(freeQ) \cup ToSet(slot[h])
    BY <2>1, <2>2, <2>3, AppendLists
  <2>5. ToSet(freeQ') = ToSet(freeQ) \cup UNION {Holders(g) : g \in {h}}
    BY <1>3, <2>4
  <2>6. \A b \in Block : b \notin ToSet(freeQ') => tag'[b] = tag[b]
    BY <2>1, <2>4
  <2>7. Leases!Vacate({h})
    BY <1>0, <2>5, <2>6, Vacated
  <2> QED BY <1>1, <1>2, <1>4, <1>6, <2>7 DEF Leases!Evict
<1> QED BY <1>5, <1>6

(* The leases count as the allocator does. *)
LEMMA SameCount == ASSUME NEW S PROVE Leases!Cardinality(S) = Cardinality(S)
  BY DEF Cardinality, Leases!Cardinality

(* allocate() ends: with blocks that were nobody's, or with too few of them. *)
LEMMA AllocateEndDecides ==
  ASSUME CacheAssumption, LeaseInv, AllocateEnd
  PROVE  Leases!Grant \/ Leases!Refuse
<1> DEFINE p == pending
           n == Need[p]
           got == SubSeq(freeQ, 1, n)
           rest == SubSeq(freeQ, n + 1, Len(freeQ))
<1>0. CacheInv
  BY DEF LeaseInv
<1>1. /\ p \in Item /\ p # NoItem /\ n \in Nat \ {0} /\ slot[p] = <<>> /\ pending' = NoItem
      /\ slot \in [Item -> Seq(Block)] /\ tag \in [Block -> Item \cup {NoItem}]
      /\ freeQ \in Seq(Block) /\ IsInjective(freeQ)
  BY <1>0 DEF AllocateEnd, CacheInv, CacheTypes, OneEntry, BlocksPartitioned, CacheAssumption
<1>2. Cardinality(Leases!Unowned) = Len(freeQ) /\ Leases!Unowned = ToSet(freeQ)
  BY <1>0, <1>1, OwnedIsHeld, ListSize
<1>3. p \notin Cached
  BY <1>1 DEF Cached
<1>4. CASE n > Len(freeQ)
  <2>1. slot' = slot /\ freeQ' = freeQ /\ tag' = tag /\ age' = age
    BY <1>4 DEF AllocateEnd
  <2>2. OwnerSeen' = OwnerSeen /\ Cached' = Cached
    BY <2>1 DEF OwnerSeen, Cached, ToSet, Block, Scratch
  <2>3. Leases!Cardinality(Leases!Unowned) < n
    BY <1>1, <1>2, <1>4, SameCount, LenProperties
  <2> QED BY <1>1, <2>1, <2>2, <2>3 DEF Leases!Refuse
<1>5. CASE ~(n > Len(freeQ))
  <2>1. /\ slot' = [slot EXCEPT ![p] = got] /\ freeQ' = rest
        /\ tag' = [b \in Block |-> IF b \in ToSet(got) THEN p ELSE tag[b]]
        /\ age' = [b \in Block |-> IF b \in ToSet(got) THEN HoldTime ELSE age[b]]
    BY <1>5 DEF AllocateEnd, Taken, Popped, StampedTag
  <2>2. n <= Len(freeQ)
    BY <1>1, <1>5, LenProperties
  <2>3. /\ got \in Seq(Block) /\ IsInjective(got)
        /\ ToSet(got) \cap ToSet(rest) = {}
        /\ ToSet(freeQ) = ToSet(got) \cup ToSet(rest)
    BY <1>1, <2>2, SplitList
  <2>4. Len(got) = n
    BY <1>1, <2>2, SubSeqProperties
  <2> DEFINE S == ToSet(got)
  <2>5. Cardinality(S) = n /\ S \in SUBSET Leases!Unowned
    BY <1>2, <2>3, <2>4, ListSize
  <2>6. got # <<>>
    BY <1>1, <2>4
  <2> HIDE DEF got, rest, n
  <2>7. Cached' = Cached \cup {p}
    BY <1>1, <2>1, <2>6 DEF Cached
  <2>8. OwnerSeen' = [b \in Block |-> IF b \in ToSet(rest) THEN NoItem
                                      ELSE IF b \in S THEN p ELSE tag[b]]
    BY <2>1 DEF OwnerSeen, Block, Scratch, ToSet
  <2>9. ASSUME NEW b \in Block
        PROVE  (IF b \in ToSet(rest) THEN NoItem ELSE IF b \in S THEN p ELSE tag[b])
                 = (IF b \in S THEN p ELSE OwnerSeen[b])
    <3>1. OwnerSeen[b] = IF b \in ToSet(freeQ) THEN NoItem ELSE tag[b]
      BY DEF OwnerSeen
    <3> QED BY <2>3, <3>1
  <2>10. OwnerSeen' = [b \in Block |-> IF b \in S THEN p ELSE OwnerSeen[b]]
    BY <2>8, <2>9
  <2>11. /\ S \in SUBSET Leases!Unowned /\ Leases!Cardinality(S) = Need[pending]
         /\ OwnerSeen' = [b \in Block |-> IF b \in S THEN pending ELSE OwnerSeen[b]]
         /\ age' = [b \in Block |-> IF b \in S THEN HoldTime ELSE age[b]]
    BY <2>1, <2>5, <2>10, SameCount DEF n
  <2> HIDE DEF S
  <2> QED BY <1>1, <1>3, <2>7, <2>11 DEF Leases!Grant
<1> QED BY <1>4, <1>5

(* mark_written() starts the hold time of the item's blocks. *)
LEMMA MarkWrittenWrites ==
  ASSUME CacheAssumption, LeaseInv, Sizes, NEW h \in Item, MarkWritten(h)
  PROVE  Leases!Write(h)
<1>1. /\ h \in unwritten /\ UNCHANGED <<slot, freeQ, tag, pending>>
      /\ age' = [b \in Block |-> IF b \in ToSet(slot[h]) THEN 0 ELSE age[b]]
  BY DEF MarkWritten
<1>2. slot[h] # <<>>
  BY <1>1 DEF Sizes
<1>3. \A b \in Block : OwnerSeen[b] = h <=> b \in ToSet(slot[h])
  BY <1>2, OwnerIsHolder, OneList DEF LeaseInv
<1>4. age' = [b \in Block |-> IF OwnerSeen[b] = h THEN 0 ELSE age[b]]
  BY <1>1, <1>3
<1>5. OwnerSeen' = OwnerSeen /\ Cached' = Cached
  BY <1>1 DEF OwnerSeen, Cached, ToSet, Block, Scratch
<1>6. h \in Cached
  BY <1>2 DEF Cached
<1> QED BY <1>1, <1>4, <1>5, <1>6 DEF Leases!Write

(* clear() leaves every block to nobody. *)
LEMMA ClearResets ==
  ASSUME CacheAssumption, Clear
  PROVE  Leases!Reset
<1>1. /\ freeQ' = [i \in 1 .. Scratch |-> i - 1] /\ pending = NoItem /\ pending' = pending
      /\ slot' = [h \in Item |-> <<>>] /\ age' = [b \in Block |-> HoldTime]
  BY DEF Clear
<1>2. ToSet(freeQ') = Block
  BY <1>1, FullQueue
<1>3. OwnerSeen' = [b \in Block |-> IF b \in ToSet(freeQ') THEN NoItem ELSE tag'[b]]
  BY DEF OwnerSeen, ToSet, Block, Scratch
<1>4. OwnerSeen' = [b \in Block |-> NoItem]
  BY <1>2, <1>3
<1>5. Cached' = {}
  BY <1>1 DEF Cached
<1> QED BY <1>1, <1>4, <1>5 DEF Leases!Reset

(* A step that touches neither queue nor slots nor tags is none of theirs. *)
LEMMA SeenUnchanged ==
  ASSUME UNCHANGED <<slot, freeQ, tag>>
  PROVE  OwnerSeen' = OwnerSeen /\ Cached' = Cached
  BY DEF OwnerSeen, Cached, ToSet, Block, Scratch

(* Every step of the allocator is a step of the leases, or leaves them. *)
LEMMA StepImplements ==
  CacheAssumption /\ LeaseInv /\ Sizes /\ [Next]_cacheVars
    => [Leases!LeaseNext]_(Leases!leaseVars)
<1> SUFFICES ASSUME CacheAssumption, LeaseInv, Sizes, [Next]_cacheVars
             PROVE  [Leases!LeaseNext]_(Leases!leaseVars)
  OBVIOUS
<1>1. ASSUME NEW h \in Item, AllocateBegin(h) PROVE Leases!LeaseNext
  BY <1>1, AllocateBeginAsks DEF Leases!LeaseNext
<1>2. ASSUME NEW h \in Item, MarkWritten(h) PROVE Leases!LeaseNext
  BY <1>2, MarkWrittenWrites DEF Leases!LeaseNext
<1>3. ASSUME NEW h \in Item, Free(h) PROVE Leases!LeaseNext
  BY <1>3, FreeEvicts DEF Leases!LeaseNext
<1>4. CASE Sleep
  <2>1. UNCHANGED <<slot, freeQ, tag, age, pending>>
    BY <1>4 DEF Sleep
  <2> QED BY <2>1, SeenUnchanged DEF Leases!leaseVars
<1>5. CASE Wake
  BY <1>5, WakeLapses DEF Leases!LeaseNext
<1>6. CASE AllocateEnd
  BY <1>6, AllocateEndDecides DEF Leases!LeaseNext
<1>7. CASE Clear
  BY <1>7, ClearResets DEF Leases!LeaseNext
<1>8. CASE Tick
  <2>1. /\ UNCHANGED <<slot, freeQ, tag, pending>>
        /\ age' = [b \in Block |-> IF age[b] < HoldTime THEN age[b] + 1 ELSE age[b]]
    BY <1>8 DEF Tick, Older
  <2>2. Leases!TimePasses
    BY <2>1, SeenUnchanged DEF Leases!TimePasses
  <2> QED BY <2>2 DEF Leases!LeaseNext
<1>9. CASE UNCHANGED cacheVars
  <2>1. UNCHANGED <<slot, freeQ, tag, age, pending>>
    BY <1>9 DEF cacheVars
  <2> QED BY <2>1, SeenUnchanged DEF Leases!leaseVars
<1> QED BY <1>1, <1>2, <1>3, <1>4, <1>5, <1>6, <1>7, <1>8, <1>9 DEF Next

(* The empty cache is one where nothing is leased. *)
LEMMA InitImplements == CacheAssumption /\ Init => Leases!LeaseInit
<1> SUFFICES ASSUME CacheAssumption, Init PROVE Leases!LeaseInit
  OBVIOUS
<1>1. /\ freeQ = [i \in 1 .. Scratch |-> i - 1] /\ pending = NoItem
      /\ slot = [h \in Item |-> <<>>] /\ age = [b \in Block |-> HoldTime]
  BY DEF Init
<1>2. ToSet(freeQ) = Block
  BY <1>1, FullQueue
<1>3. OwnerSeen = [b \in Block |-> NoItem]
  BY <1>2 DEF OwnerSeen
<1>4. Cached = {}
  BY <1>1 DEF Cached
<1> QED BY <1>1, <1>3, <1>4 DEF Leases!LeaseInit

(* A reader who knows a block by its tag alone is promised the leases, for   *)
(* any cache size, set of items and hold time: the allocator's queue, hold, *)
(* sleeps and reclaims never end one early nor give a block to two items,   *)
(* and allocate() raises only when there are too few free blocks           *)
(* (EncoderCacheBlocks: allocate, mark_written, free, reclaim_held, clear). *)
THEOREM AllocatorImplementsLeases == Spec => ImplementsLeases
<1> DEFINE I == LeaseInv /\ Sizes
<1>1. Init => I
  <2> SUFFICES ASSUME Init PROVE I
    OBVIOUS
  <2>1. CacheInv
    BY InitCache, CacheAssumption
  <2>2. Ages
    BY CacheAssumption DEF Init, Ages, CacheAssumption
  <2>3. Len(<<>>) = 0
    OBVIOUS
  <2>4. Sizes
    BY <2>3 DEF Init, Sizes
  <2> QED BY <2>1, <2>2, <2>4 DEF LeaseInv
<1>2. I /\ [Next]_cacheVars => I'
  BY StepCache, AgesKept, SizesKept, CacheAssumption DEF LeaseInv
<1>3. Init => Leases!LeaseInit
  BY InitImplements, CacheAssumption
<1>4. I /\ [Next]_cacheVars => [Leases!LeaseNext]_(Leases!leaseVars)
  BY StepImplements, CacheAssumption
<1> QED BY <1>1, <1>2, <1>3, <1>4, PTL DEF Spec, ImplementsLeases, Leases!LeaseSpec

------------------------------------------------------------------------------

(* What is in a block, and what a locator that is not out of date proves: as *)
(* long as a block it lists carries the item's tag, the item's part is in it. *)
Encoded ==
  \A h \in Item \ unwritten : \A i \in DOMAIN slot[h] : content[slot[h][i]] = <<h, i>>
Truth ==
  \A l \in locators \cup load : ~l.reencoded =>
    /\ l.item \notin unwritten
    /\ \A i \in DOMAIN l.blocks :
         tag[l.blocks[i]] = l.item => content[l.blocks[i]] = <<l.item, i>>

LocatorTypes ==
  /\ locators \cup load \subseteq [item : Item, blocks : Seq(Block), reencoded : BOOLEAN]
  /\ OnePerItem(load)

(* The load in progress, block by block. *)
ReadSoFar(l, i) ==
  LET part == landed[l.item][i]
      its == gotTag[l.item][i]
  IN /\ {part, its} \subseteq {"unread", "right", "wrong"}
     /\ phase = "embedding" => its = "unread"
     /\ phase = "tags" /\ l.item \notin failing => part # "unread"
     /\ ~l.reencoded => /\ part = "wrong" => tag[l.blocks[i]] # l.item
                        /\ its = "right" => part # "wrong"
                        /\ its = "wrong" => l.blocks \notin {slot[l.item], held[l.item]}
Reading ==
  /\ phase \in {"idle", "embedding", "tags"} /\ (phase = "idle" => load = {})
  /\ DOMAIN landed = Loaded /\ DOMAIN gotTag = Loaded
  /\ \A l \in load :
       /\ DOMAIN landed[l.item] = DOMAIN l.blocks /\ DOMAIN gotTag[l.item] = DOMAIN l.blocks
       /\ \A i \in DOMAIN l.blocks : ReadSoFar(l, i)

TransferInv == CacheInv /\ Encoded /\ LocatorTypes /\ Truth /\ Reading

(* A step of the allocator as it is seen by the readers of item h, unless it *)
(* gives h new blocks.                                                      *)
NotReissued(h) ==
  /\ \A b \in Block : tag'[b] = h => tag[b] = h
  /\ h \in unwritten' => h \in unwritten
  /\ slot'[h] \in {slot[h], <<>>}
  /\ held'[h] \in {held[h], slot[h], <<>>}

VeSteps ==
  \/ \E p \in Item : AllocateBegin(p) \/ MarkWritten(p) \/ Free(p)
  \/ Sleep \/ Wake \/ AllocateEnd \/ Tick

(* Only a new allocation of an item makes a block its own; the item is then  *)
(* unwritten, and is so until it is marked written or loses the blocks.     *)
LEMMA AllocatorSpares ==
  ASSUME CacheAssumption, CacheInv, VeSteps, NEW h \in Item
  PROVE  /\ slot'[h] \in {slot[h], <<>>} => NotReissued(h)
         /\ slot'[h] \notin {slot[h], <<>>} => h \in unwritten'
         /\ h \in unwritten /\ h \notin unwritten' => slot'[h] = <<>> \/ MarkWritten(h)
<1> DEFINE Goal == /\ slot'[h] \in {slot[h], <<>>} => NotReissued(h)
                   /\ slot'[h] \notin {slot[h], <<>>} => h \in unwritten'
                   /\ h \in unwritten /\ h \notin unwritten' => slot'[h] = <<>> \/ MarkWritten(h)
<1>1. /\ slot \in [Item -> Seq(Block)] /\ held \in [Item -> Seq(Block)]
      /\ freeQ \in Seq(Block) /\ tag \in [Block -> Item \cup {NoItem}]
      /\ pending \in Item \cup {NoItem} /\ NoItem \notin Item
      /\ Need \in [Item -> Nat \ {0}]
  BY DEF CacheInv, CacheTypes, CacheAssumption
<1>2. ASSUME NEW q, NEW keep, keep[h] \in {held[h], <<>>}, Reclaim(q, keep),
             slot' = slot, unwritten' = unwritten
      PROVE  Goal
  <2>1. held'[h] \in {held[h], <<>>}
    BY <1>2 DEF Reclaim
  <2>2. \A b \in Block : tag'[b] = tag[b] \/ tag'[b] = NoItem
    BY <1>2 DEF Reclaim
  <2> QED BY <1>1, <1>2, <2>1, <2>2 DEF NotReissued
<1>3. ASSUME NEW p \in Item, AllocateBegin(p) PROVE Goal
  <2>1. slot' = slot /\ unwritten' = unwritten
    BY <1>3 DEF AllocateBegin
  <2>2. HeldWithout(p)[h] \in {held[h], <<>>}
    BY <1>1 DEF HeldWithout
  <2>3. \/ Reclaim(freeQ \o held[p], HeldWithout(p))
        \/ held' = HeldWithout(p) /\ tag' = tag
    BY <1>3 DEF AllocateBegin
  <2>4. CASE Reclaim(freeQ \o held[p], HeldWithout(p))
    BY <1>2, <2>1, <2>2, <2>4
  <2>5. CASE held' = HeldWithout(p) /\ tag' = tag
    BY <2>1, <2>2, <2>5 DEF NotReissued
  <2> QED BY <2>3, <2>4, <2>5
<1>4. CASE Wake
  BY <1>2, <1>4 DEF Wake
<1>5. CASE Sleep \/ Tick
  <2>1. UNCHANGED <<slot, unwritten, held, tag>>
    BY <1>5 DEF Sleep, Tick
  <2> QED BY <2>1 DEF NotReissued
<1>6. ASSUME NEW p \in Item, MarkWritten(p) PROVE Goal
  <2>1. UNCHANGED <<slot, held, tag>> /\ unwritten' = unwritten \ {p}
    BY <1>6 DEF MarkWritten
  <2> QED BY <1>6, <2>1 DEF NotReissued
<1>7. ASSUME NEW p \in Item, Free(p) PROVE Goal
  <2>1. /\ slot'[h] = (IF h = p THEN <<>> ELSE slot[h]) /\ unwritten' = unwritten \ {p}
        /\ held'[h] \in {held[h], slot[h]}
    BY <1>1, <1>7 DEF Free
  <2>2. \A b \in Block : tag'[b] = tag[b] \/ tag'[b] = NoItem
    BY <1>7 DEF Free
  <2> QED BY <1>1, <2>1, <2>2 DEF NotReissued
<1>8. CASE AllocateEnd
  <2>1. CASE Need[pending] > Len(freeQ)
    <3>1. UNCHANGED <<slot, unwritten, held, tag>>
      BY <1>8, <2>1 DEF AllocateEnd
    <3> QED BY <3>1 DEF NotReissued
  <2>2. CASE ~(Need[pending] > Len(freeQ))
    <3>1. PICK got : got = SubSeq(freeQ, 1, Need[pending])
      OBVIOUS
    <3>2. /\ pending \in Item /\ slot' = [slot EXCEPT ![pending] = got]
          /\ unwritten' = unwritten \cup {pending} /\ held' = held
          /\ tag' = [b \in Block |-> IF b \in ToSet(got) THEN pending ELSE tag[b]]
      BY <1>1, <1>8, <2>2, <3>1 DEF AllocateEnd, Taken, StampedTag
    <3>3. slot[pending] = <<>>
      BY <1>1, <3>2 DEF CacheInv, OneEntry
    <3>4. got # <<>>
      <4>1. Need[pending] \in Nat /\ Need[pending] >= 1 /\ Len(freeQ) \in Nat
        BY <1>1, <3>2, LenProperties
      <4>2. Len(got) = Need[pending]
        BY <1>1, <2>2, <3>1, <4>1, SubSeqProperties
      <4> QED BY <4>1, <4>2
    <3>5. CASE h = pending
      BY <1>1, <3>2, <3>3, <3>4, <3>5
    <3>6. CASE h # pending
      BY <1>1, <3>2, <3>6 DEF NotReissued
    <3> QED BY <3>5, <3>6
  <2> QED BY <2>1, <2>2
<1> QED BY <1>3, <1>4, <1>5, <1>6, <1>7, <1>8 DEF VeSteps

(* What the encoder has written stays what it is. *)
LEMMA EncodedKept ==
  ASSUME CacheAssumption, CacheInv, Encoded, VeSteps, content' = content,
         \A h \in Item : MarkWritten(h) =>
           \A i \in DOMAIN slot[h] : content[slot[h][i]] = <<h, i>>
  PROVE  Encoded'
<1> SUFFICES ASSUME NEW h \in Item, h \notin unwritten', NEW i \in DOMAIN slot'[h]
             PROVE  content'[slot'[h][i]] = <<h, i>>
  BY DEF Encoded
<1>1. slot'[h] # <<>> /\ slot'[h] = slot[h]
  <2>1. slot'[h] # <<>>
    OBVIOUS
  <2> QED BY <2>1, AllocatorSpares
<1>2. CASE h \notin unwritten
  BY <1>1, <1>2 DEF Encoded
<1>3. CASE h \in unwritten
  <2>1. MarkWritten(h)
    BY <1>1, <1>3, AllocatorSpares
  <2> QED BY <1>1, <2>1
<1> QED BY <1>2, <1>3

LocatorSet == [item : Item, blocks : Seq(Block), reencoded : BOOLEAN]

(* The locators new are those of old, as a step leaves them. *)
Carried(old, new) ==
  \A k \in new : \E l \in old :
    /\ l.item = k.item /\ l.blocks = k.blocks
    /\ ~k.reencoded => ~l.reencoded /\ NotReissued(l.item)

(* The history bit is set when the step reissues the item. *)
LEMMA ReencodedCarries ==
  ASSUME CacheAssumption, CacheInv, VeSteps, NEW ls \in SUBSET LocatorSet
  PROVE  /\ Reencoded(ls) \subseteq LocatorSet
         /\ Carried(ls, Reencoded(ls))
         /\ {l.item : l \in Reencoded(ls)} = {l.item : l \in ls}
         /\ OnePerItem(ls) => OnePerItem(Reencoded(ls))
<1>1. ASSUME NEW l \in ls
      PROVE  LET k == [l EXCEPT !.reencoded = l.reencoded \/ slot'[l.item] # slot[l.item]] IN
             /\ k \in LocatorSet /\ k.item = l.item /\ k.blocks = l.blocks
             /\ k.reencoded = (l.reencoded \/ slot'[l.item] # slot[l.item])
  BY DEF LocatorSet
<1>2. ASSUME NEW k \in Reencoded(ls)
      PROVE  \E l \in ls : /\ k \in LocatorSet /\ k.item = l.item /\ k.blocks = l.blocks
                           /\ k.reencoded = (l.reencoded \/ slot'[l.item] # slot[l.item])
                           /\ k = [l EXCEPT !.reencoded = l.reencoded \/ slot'[l.item] # slot[l.item]]
  <2>1. PICK l \in ls : k = [l EXCEPT !.reencoded = l.reencoded \/ slot'[l.item] # slot[l.item]]
    BY DEF Reencoded
  <2>2. /\ k \in LocatorSet /\ k.item = l.item /\ k.blocks = l.blocks
        /\ k.reencoded = (l.reencoded \/ slot'[l.item] # slot[l.item])
    BY <1>1, <2>1
  <2> QED BY <2>1, <2>2
<1>3. ASSUME NEW l \in ls PROVE \E k \in Reencoded(ls) : k.item = l.item
  BY <1>1 DEF Reencoded
<1>4. ASSUME NEW l \in ls, slot'[l.item] = slot[l.item] PROVE NotReissued(l.item)
  <2>1. l.item \in Item
    BY DEF LocatorSet
  <2> QED BY <1>4, <2>1, AllocatorSpares
<1>5. Carried(ls, Reencoded(ls))
  BY <1>2, <1>4 DEF Carried
<1>6. {l.item : l \in Reencoded(ls)} = {l.item : l \in ls}
  BY <1>2, <1>3
<1>7. ASSUME OnePerItem(ls) PROVE OnePerItem(Reencoded(ls))
  <2> SUFFICES ASSUME NEW j \in Reencoded(ls), NEW k \in Reencoded(ls), j.item = k.item PROVE j = k
    BY DEF OnePerItem
  <2>1. PICK l \in ls : /\ j.item = l.item
                        /\ j = [l EXCEPT !.reencoded = l.reencoded \/ slot'[l.item] # slot[l.item]]
    BY <1>2
  <2>2. PICK m \in ls : /\ k.item = m.item
                        /\ k = [m EXCEPT !.reencoded = m.reencoded \/ slot'[m.item] # slot[m.item]]
    BY <1>2
  <2>3. l = m
    BY <1>7, <2>1, <2>2 DEF OnePerItem
  <2> QED BY <2>1, <2>2, <2>3
<1> QED BY <1>2, <1>5, <1>6, <1>7

(* Locators that are carried over prove what they proved. *)
LEMMA TruthKept ==
  ASSUME LocatorTypes, Truth, content' = content,
         Carried(locators \cup load, locators' \cup load')
  PROVE  Truth'
<1> SUFFICES ASSUME NEW k \in locators' \cup load', ~k.reencoded
             PROVE  /\ k.item \notin unwritten'
                    /\ \A i \in DOMAIN k.blocks :
                         tag'[k.blocks[i]] = k.item => content'[k.blocks[i]] = <<k.item, i>>
  BY DEF Truth
<1>1. PICK l \in locators \cup load :
        l.item = k.item /\ l.blocks = k.blocks /\ ~l.reencoded /\ NotReissued(l.item)
  BY DEF Carried
<1>2. l.blocks \in Seq(Block)
  BY DEF LocatorTypes
<1>3. \A i \in DOMAIN l.blocks : l.blocks[i] \in Block
  BY <1>2
<1> QED BY <1>1, <1>3 DEF Truth, NotReissued

(* And a load that is carried over has read what it had. *)
LEMMA ReadingKept ==
  ASSUME LocatorTypes, Reading, Carried(load, load'),
         {l.item : l \in load'} = {l.item : l \in load},
         UNCHANGED <<phase, landed, gotTag, failing>>
  PROVE  Reading'
<1>1. Loaded' = Loaded
  BY DEF Loaded
<1>2. phase = "idle" => load' = {}
  <2> SUFFICES ASSUME phase = "idle", NEW k \in load' PROVE FALSE
    OBVIOUS
  <2> QED BY DEF Carried, Reading
<1>3. ASSUME NEW k \in load'
      PROVE  /\ DOMAIN landed'[k.item] = DOMAIN k.blocks /\ DOMAIN gotTag'[k.item] = DOMAIN k.blocks
             /\ \A i \in DOMAIN k.blocks : ReadSoFar(k, i)'
  <2>1. PICK l \in load : /\ l.item = k.item /\ l.blocks = k.blocks
                          /\ ~k.reencoded => ~l.reencoded /\ NotReissued(l.item)
    BY DEF Carried
  <2>2. /\ DOMAIN landed[l.item] = DOMAIN l.blocks /\ DOMAIN gotTag[l.item] = DOMAIN l.blocks
        /\ \A i \in DOMAIN l.blocks : ReadSoFar(l, i) /\ l.blocks[i] \in Block
    <3>1. l.blocks \in Seq(Block)
      BY DEF LocatorTypes
    <3>2. \A i \in DOMAIN l.blocks : l.blocks[i] \in Block
      BY <3>1
    <3> QED BY <3>2 DEF Reading
  <2>3. ASSUME NEW i \in DOMAIN k.blocks PROVE ReadSoFar(k, i)'
    <3>1. ReadSoFar(l, i) /\ l.blocks[i] \in Block
      BY <2>1, <2>2
    <3>2. PICK part, its : part = landed[l.item][i] /\ its = gotTag[l.item][i]
      OBVIOUS
    <3>3. /\ {part, its} \subseteq {"unread", "right", "wrong"}
          /\ phase = "embedding" => its = "unread"
          /\ phase = "tags" /\ l.item \notin failing => part # "unread"
      BY <3>1, <3>2 DEF ReadSoFar
    <3>4. ASSUME ~k.reencoded
          PROVE  /\ part = "wrong" => tag'[k.blocks[i]] # k.item
                 /\ its = "right" => part # "wrong"
                 /\ its = "wrong" => k.blocks \notin {slot'[k.item], held'[k.item]}
      <4>1. /\ part = "wrong" => tag[l.blocks[i]] # l.item
            /\ its = "right" => part # "wrong"
            /\ its = "wrong" => l.blocks \notin {slot[l.item], held[l.item]}
        BY <2>1, <3>1, <3>2, <3>4 DEF ReadSoFar
      <4>2. NotReissued(l.item)
        BY <2>1, <3>4
      <4>3. l.blocks # <<>>
        BY <2>1, <3>1
      <4> QED BY <2>1, <3>1, <4>1, <4>2, <4>3 DEF NotReissued
    <3>5. landed'[k.item][i] = part /\ gotTag'[k.item][i] = its
      BY <2>1, <3>2
    <3> QED BY <2>1, <3>3, <3>4, <3>5 DEF ReadSoFar
  <2> QED BY <2>1, <2>2, <2>3
<1> QED BY <1>1, <1>2, <1>3 DEF Reading

(* The allocator runs: a call of allocate(), *)
LEMMA VeAllocateKeeps ==
  ASSUME CacheAssumption, TransferInv, VeAllocate
  PROVE  Encoded' /\ LocatorTypes' /\ Truth' /\ Reading'
<1>1. CacheInv /\ Encoded /\ LocatorTypes /\ Truth /\ Reading /\ VeSteps
  BY DEF TransferInv, VeAllocate, VeSteps
<1>2. /\ locators' = Reencoded(locators) /\ load' = Reencoded(load)
      /\ UNCHANGED <<content, phase, landed, gotTag, failing>>
  BY DEF VeAllocate
<1>3. locators \in SUBSET LocatorSet /\ load \in SUBSET LocatorSet /\ OnePerItem(load)
  BY <1>1 DEF LocatorTypes, LocatorSet
<1>4. /\ locators' \subseteq LocatorSet /\ Carried(locators, locators')
      /\ load' \subseteq LocatorSet /\ Carried(load, load') /\ OnePerItem(load')
      /\ {l.item : l \in load'} = {l.item : l \in load}
  BY <1>1, <1>2, <1>3, ReencodedCarries
<1>5. LocatorTypes'
  BY <1>4 DEF LocatorTypes, LocatorSet, OnePerItem
<1>6. Carried(locators \cup load, locators' \cup load')
  BY <1>4 DEF Carried
<1>7. \A h \in Item : ~MarkWritten(h)
  BY DEF VeAllocate, MarkWritten, AllocateBegin, Sleep, Wake, AllocateEnd, Reclaim
<1> QED BY <1>1, <1>2, <1>4, <1>5, <1>6, <1>7, EncodedKept, TruthKept, ReadingKept

(* and an eviction, the end of an encode, or the time. *)
LEMMA VeOtherKeeps ==
  ASSUME CacheAssumption, TransferInv,
         VeTick \/ \E h \in Item : VeFree(h) \/ VeMarkWritten(h)
  PROVE  Encoded' /\ LocatorTypes' /\ Truth' /\ Reading'
<1>1. CacheInv /\ Encoded /\ LocatorTypes /\ Truth /\ Reading /\ VeSteps
  BY DEF TransferInv, VeTick, VeFree, VeMarkWritten, VeSteps
<1>2. UNCHANGED <<content, locators, load, phase, landed, gotTag, failing>>
  BY DEF VeTick, VeFree, VeMarkWritten, pullVars
<1>3. \A h \in Item : slot'[h] \in {slot[h], <<>>}
  <2>1. slot \in [Item -> Seq(Block)]
    BY <1>1 DEF CacheInv, CacheTypes
  <2> QED BY <2>1 DEF VeTick, Tick, VeFree, Free, VeMarkWritten, MarkWritten
<1>4. \A l \in locators \cup load : NotReissued(l.item)
  BY <1>1, <1>3, AllocatorSpares DEF LocatorTypes
<1>5. Carried(locators \cup load, locators' \cup load') /\ Carried(load, load')
  BY <1>2, <1>4 DEF Carried
<1>6. LocatorTypes'
  BY <1>1, <1>2 DEF LocatorTypes, OnePerItem
<1>7. \A h \in Item : MarkWritten(h) => \A i \in DOMAIN slot[h] : content[slot[h][i]] = <<h, i>>
  <2> SUFFICES ASSUME NEW h \in Item, MarkWritten(h)
               PROVE  \A i \in DOMAIN slot[h] : content[slot[h][i]] = <<h, i>>
    OBVIOUS
  <2>1. h \in unwritten /\ unwritten' = unwritten \ {h} /\ slot' = slot
    BY DEF MarkWritten
  <2>2. ~VeTick
    BY <2>1 DEF VeTick, Tick
  <2>3. \A p \in Item : ~VeFree(p)
    BY <2>1 DEF VeFree
  <2>4. PICK p \in Item : VeMarkWritten(p)
    BY <2>2, <2>3
  <2>5. p = h
    BY <2>1, <2>4 DEF VeMarkWritten, MarkWritten
  <2> QED BY <2>4, <2>5 DEF VeMarkWritten
<1> QED BY <1>1, <1>2, <1>5, <1>6, <1>7, EncodedKept, TruthKept, ReadingKept

(* A block is written for the item that owns it, and so for nobody else's    *)
(* locator.                                                                *)
LEMMA EncodeKeeps ==
  ASSUME CacheAssumption, TransferInv, NEW g \in Item, NEW j \in Nat, Encode(g, j)
  PROVE  Encoded' /\ LocatorTypes' /\ Truth' /\ Reading'
<1>1. CacheInv /\ Encoded /\ LocatorTypes /\ Truth /\ Reading
  BY DEF TransferInv
<1>2. /\ g \in unwritten /\ j \in DOMAIN slot[g]
      /\ content' = [content EXCEPT ![slot[g][j]] = <<g, j>>]
      /\ UNCHANGED cacheVars /\ UNCHANGED pullVars
  BY DEF Encode
<1>3. /\ UNCHANGED <<slot, unwritten, held, tag>>
      /\ UNCHANGED <<locators, load, phase, landed, gotTag, failing>>
  BY <1>2 DEF cacheVars, pullVars
<1>4. tag[slot[g][j]] = g
  <2>1. slot[g][j] \in Holders(g)
    BY <1>2 DEF Holders, ToSet
  <2> QED BY <1>1, <2>1 DEF CacheInv, TagNamesOwner
<1>5. ASSUME NEW b, tag[b] # g PROVE content'[b] = content[b]
  BY <1>2, <1>4, <1>5
<1>6. Encoded'
  <2> SUFFICES ASSUME NEW h \in Item, h \notin unwritten, NEW i \in DOMAIN slot[h]
               PROVE  content'[slot[h][i]] = <<h, i>>
    BY <1>3 DEF Encoded
  <2>1. slot[h][i] \in Holders(h)
    BY DEF Holders, ToSet
  <2>2. tag[slot[h][i]] = h /\ h # g
    BY <1>1, <1>2, <2>1 DEF CacheInv, TagNamesOwner
  <2> QED BY <1>1, <1>5, <2>2 DEF Encoded
<1>7. Truth'
  <2> SUFFICES ASSUME NEW l \in locators \cup load, ~l.reencoded
               PROVE  /\ l.item \notin unwritten
                      /\ \A i \in DOMAIN l.blocks :
                           tag[l.blocks[i]] = l.item => content'[l.blocks[i]] = <<l.item, i>>
    BY <1>3 DEF Truth
  <2>1. /\ l.item \notin unwritten
        /\ \A i \in DOMAIN l.blocks :
             tag[l.blocks[i]] = l.item => content[l.blocks[i]] = <<l.item, i>>
    BY <1>1 DEF Truth
  <2> QED BY <1>2, <1>5, <2>1
<1>8. LocatorTypes' /\ Reading'
  BY <1>1, <1>3 DEF LocatorTypes, OnePerItem, Reading, ReadSoFar, Loaded
<1> QED BY <1>6, <1>7, <1>8

(* A locator is handed out when all that is cached has been encoded. *)
LEMMA AttachKeeps ==
  ASSUME CacheAssumption, TransferInv, NEW h \in Item, AttachLocator(h)
  PROVE  Encoded' /\ LocatorTypes' /\ Truth' /\ Reading'
<1>1. CacheInv /\ Encoded /\ LocatorTypes /\ Truth /\ Reading
  BY DEF TransferInv
<1>2. /\ unwritten = {} /\ locators' = locators \cup {Locator(h)}
      /\ UNCHANGED <<slot, unwritten, held, tag>>
      /\ UNCHANGED <<content, load, phase, landed, gotTag, failing>>
  BY DEF AttachLocator, cacheVars
<1>3. PICK l : l = Locator(h)
  OBVIOUS
<1>4. /\ l \in [item : Item, blocks : Seq(Block), reencoded : BOOLEAN]
      /\ l.item = h /\ l.blocks = slot[h]
  <2>1. slot[h] \in Seq(Block)
    BY <1>1 DEF CacheInv, CacheTypes
  <2> QED BY <1>3, <2>1 DEF Locator
<1>5. LocatorTypes'
  BY <1>1, <1>2, <1>3, <1>4 DEF LocatorTypes, OnePerItem
<1>6. \A i \in DOMAIN l.blocks : content[l.blocks[i]] = <<l.item, i>>
  BY <1>1, <1>2, <1>4 DEF Encoded
<1>7. Truth'
  BY <1>1, <1>2, <1>3, <1>6 DEF Truth
<1>8. Encoded' /\ Reading'
  BY <1>1, <1>2 DEF Encoded, Reading, ReadSoFar, Loaded
<1> QED BY <1>5, <1>7, <1>8

(* The load list has one locator for an item, by which it can be named. *)
LEMMA OneLocator ==
  ASSUME NEW ls, OnePerItem(ls), NEW l \in ls
  PROVE  (CHOOSE k \in ls : k.item = l.item) = l
  BY DEF OnePerItem

(* A load starts with nothing read. *)
LEMMA StartLoadKeeps ==
  ASSUME CacheAssumption, TransferInv, StartLoad
  PROVE  Encoded' /\ LocatorTypes' /\ Truth' /\ Reading'
<1>1. CacheInv /\ Encoded /\ LocatorTypes /\ Truth /\ Reading
  BY DEF TransferInv
<1>2. PICK ls \in SUBSET locators \ {{}} :
        /\ OnePerItem(ls) /\ load' = ls /\ locators' = locators \ ls
        /\ landed' = [h \in {l.item : l \in ls} |-> NoneRead(CHOOSE l \in ls : l.item = h)]
        /\ gotTag' = landed'
  BY DEF StartLoad
<1>3. /\ phase' = "embedding" /\ failing' = {}
      /\ UNCHANGED <<slot, unwritten, held, tag>> /\ UNCHANGED content
  BY DEF StartLoad, cacheVars
<1>4. ls \subseteq locators /\ locators' \cup load' \subseteq locators \cup load
  BY <1>2
<1>5. LocatorTypes' /\ Truth' /\ Encoded'
  <2>1. LocatorTypes'
    BY <1>1, <1>2, <1>4 DEF LocatorTypes, OnePerItem
  <2>2. Truth'
    BY <1>1, <1>3, <1>4 DEF Truth
  <2> QED BY <1>1, <1>3, <2>1, <2>2 DEF Encoded
<1>6. DOMAIN landed' = Loaded' /\ DOMAIN gotTag' = Loaded'
  BY <1>2 DEF Loaded
<1>7. ASSUME NEW l \in ls
      PROVE  /\ DOMAIN landed'[l.item] = DOMAIN l.blocks /\ DOMAIN gotTag'[l.item] = DOMAIN l.blocks
             /\ \A i \in DOMAIN l.blocks : ReadSoFar(l, i)'
  <2>1. landed'[l.item] = NoneRead(l) /\ gotTag'[l.item] = NoneRead(l)
    <3>1. (CHOOSE k \in ls : k.item = l.item) = l
      BY <1>2, OneLocator
    <3> QED BY <1>2, <3>1
  <2>2. /\ DOMAIN landed'[l.item] = DOMAIN l.blocks /\ DOMAIN gotTag'[l.item] = DOMAIN l.blocks
        /\ \A i \in DOMAIN l.blocks : landed'[l.item][i] = "unread" /\ gotTag'[l.item][i] = "unread"
    BY <2>1 DEF NoneRead
  <2> QED BY <1>3, <2>2 DEF ReadSoFar
<1>8. Reading'
  BY <1>2, <1>3, <1>6, <1>7 DEF Reading
<1> QED BY <1>5, <1>8

(* What a part that has landed says: a wrong one was read from a block that  *)
(* no longer carried the item's tag, and never will again for this locator. *)
LEMMA ReadEmbeddingKeeps ==
  ASSUME CacheAssumption, TransferInv, NEW h \in Item, NEW n \in Nat, ReadEmbedding(h, n)
  PROVE  Reading'
<1>1. CacheInv /\ LocatorTypes /\ Truth /\ Reading
  BY DEF TransferInv
<1>2. /\ phase = "embedding" /\ h \in Loaded \ failing /\ n \in DOMAIN landed[h]
      /\ landed' = [landed EXCEPT ![h][n] = Got(content[LocatorOf(h).blocks[n]] = <<h, n>>)]
      /\ UNCHANGED <<slot, unwritten, held, tag>>
      /\ UNCHANGED <<content, load, phase, gotTag, failing>>
  BY DEF ReadEmbedding, cacheVars
<1>3. PICK m \in load : m.item = h
  BY <1>2 DEF Loaded
<1>4. LocatorOf(h) = m
  BY <1>1, <1>3, OneLocator DEF LocatorOf, LocatorTypes
<1>5. PICK got : got = Got(content[m.blocks[n]] = <<h, n>>)
  OBVIOUS
<1>6. DOMAIN landed = Loaded /\ DOMAIN gotTag = Loaded
  BY <1>1 DEF Reading
<1>7. /\ DOMAIN landed' = Loaded
      /\ \A p \in Loaded : DOMAIN landed'[p] = DOMAIN landed[p]
      /\ landed'[h][n] = got
      /\ \A p \in Loaded : \A i \in DOMAIN landed[p] :
           p # h \/ i # n => landed'[p][i] = landed[p][i]
  BY <1>2, <1>4, <1>5, <1>6
<1>8. ASSUME NEW l \in load
      PROVE  /\ DOMAIN landed'[l.item] = DOMAIN l.blocks /\ DOMAIN gotTag[l.item] = DOMAIN l.blocks
             /\ \A i \in DOMAIN l.blocks : ReadSoFar(l, i)'
  <2>1. /\ DOMAIN landed[l.item] = DOMAIN l.blocks /\ DOMAIN gotTag[l.item] = DOMAIN l.blocks
        /\ \A i \in DOMAIN l.blocks : ReadSoFar(l, i)
    BY <1>1 DEF Reading
  <2>2. l.item \in Loaded
    BY DEF Loaded
  <2>3. ASSUME NEW i \in DOMAIN l.blocks PROVE ReadSoFar(l, i)'
    <3>1. CASE l.item = h /\ i = n
      <4>1. l = m
        BY <1>1, <1>3, <3>1 DEF LocatorTypes, OnePerItem
      <4>2. landed'[l.item][i] = got /\ gotTag'[l.item][i] = "unread"
        BY <1>2, <1>7, <2>1, <3>1 DEF ReadSoFar
      <4>3. got \in {"right", "wrong"}
        BY <1>5 DEF Got
      <4>4. ~l.reencoded /\ got = "wrong" => tag[l.blocks[i]] # l.item
        BY <1>1, <1>5, <3>1, <4>1 DEF Got, Truth
      <4> QED BY <1>2, <4>2, <4>3, <4>4 DEF ReadSoFar
    <3>2. CASE ~(l.item = h /\ i = n)
      <4>1. landed'[l.item][i] = landed[l.item][i]
        BY <1>7, <2>1, <2>2, <3>2
      <4> QED BY <1>2, <2>1, <4>1 DEF ReadSoFar
    <3> QED BY <3>1, <3>2
  <2> QED BY <1>7, <2>1, <2>2, <2>3
<1>9. Loaded' = Loaded
  BY <1>2 DEF Loaded
<1> QED BY <1>1, <1>2, <1>6, <1>7, <1>8, <1>9 DEF Reading

(* A tag that is read as the item's says the same of the time before, when   *)
(* the part landed; another one, that the item has lost the block.          *)
LEMMA ReadTagKeeps ==
  ASSUME CacheAssumption, TransferInv, NEW h \in Item, NEW n \in Nat, ReadTag(h, n)
  PROVE  Reading'
<1>1. CacheInv /\ LocatorTypes /\ Truth /\ Reading
  BY DEF TransferInv
<1>2. /\ phase = "tags" /\ h \in Loaded \ failing /\ n \in DOMAIN gotTag[h]
      /\ gotTag' = [gotTag EXCEPT ![h][n] = Got(tag[LocatorOf(h).blocks[n]] = h)]
      /\ UNCHANGED <<slot, unwritten, held, tag>>
      /\ UNCHANGED <<content, load, phase, landed, failing>>
  BY DEF ReadTag, TagsIssued, cacheVars
<1>3. PICK m \in load : m.item = h
  BY <1>2 DEF Loaded
<1>4. LocatorOf(h) = m
  BY <1>1, <1>3, OneLocator DEF LocatorOf, LocatorTypes
<1>5. PICK got : got = Got(tag[m.blocks[n]] = h)
  OBVIOUS
<1>6. DOMAIN landed = Loaded /\ DOMAIN gotTag = Loaded
  BY <1>1 DEF Reading
<1>7. /\ DOMAIN gotTag' = Loaded
      /\ \A p \in Loaded : DOMAIN gotTag'[p] = DOMAIN gotTag[p]
      /\ gotTag'[h][n] = got
      /\ \A p \in Loaded : \A i \in DOMAIN gotTag[p] :
           p # h \/ i # n => gotTag'[p][i] = gotTag[p][i]
  BY <1>2, <1>4, <1>5, <1>6
<1>8. ASSUME NEW l \in load
      PROVE  /\ DOMAIN landed[l.item] = DOMAIN l.blocks /\ DOMAIN gotTag'[l.item] = DOMAIN l.blocks
             /\ \A i \in DOMAIN l.blocks : ReadSoFar(l, i)'
  <2>1. /\ DOMAIN landed[l.item] = DOMAIN l.blocks /\ DOMAIN gotTag[l.item] = DOMAIN l.blocks
        /\ \A i \in DOMAIN l.blocks : ReadSoFar(l, i)
    BY <1>1 DEF Reading
  <2>2. l.item \in Loaded
    BY DEF Loaded
  <2>3. ASSUME NEW i \in DOMAIN l.blocks PROVE ReadSoFar(l, i)'
    <3>1. CASE l.item = h /\ i = n
      <4>1. l = m
        BY <1>1, <1>3, <3>1 DEF LocatorTypes, OnePerItem
      <4>2. PICK part : part = landed[l.item][i]
        OBVIOUS
      <4>3. landed'[l.item][i] = part /\ gotTag'[l.item][i] = got
        BY <1>2, <1>7, <3>1, <4>2
      <4>4. /\ part \in {"unread", "right", "wrong"} /\ got \in {"right", "wrong"}
            /\ l.item \notin failing => part # "unread"
            /\ ~l.reencoded => (part = "wrong" => tag[l.blocks[i]] # l.item)
        BY <1>2, <1>5, <2>1, <4>2 DEF ReadSoFar, Got
      <4>5. /\ got = "right" => tag[l.blocks[i]] = l.item
            /\ got = "wrong" => tag[l.blocks[i]] # l.item
        BY <1>5, <3>1, <4>1 DEF Got
      <4>6. got = "wrong" => l.blocks \notin {slot[l.item], held[l.item]}
        <5> SUFFICES ASSUME tag[l.blocks[i]] # l.item, l.blocks \in {slot[l.item], held[l.item]}
                     PROVE  FALSE
          BY <4>5
        <5>1. l.blocks[i] \in Holders(l.item)
          BY DEF Holders, ToSet
        <5>2. l.item \in Item
          BY <3>1
        <5> QED BY <1>1, <5>1, <5>2 DEF CacheInv, TagNamesOwner
      <4> QED BY <1>2, <4>3, <4>4, <4>5, <4>6 DEF ReadSoFar
    <3>2. CASE ~(l.item = h /\ i = n)
      <4>1. gotTag'[l.item][i] = gotTag[l.item][i]
        BY <1>7, <2>1, <2>2, <3>2
      <4> QED BY <1>2, <2>1, <4>1 DEF ReadSoFar
    <3> QED BY <3>1, <3>2
  <2> QED BY <1>7, <2>1, <2>2, <2>3
<1>9. Loaded' = Loaded
  BY <1>2 DEF Loaded
<1> QED BY <1>1, <1>2, <1>6, <1>7, <1>8, <1>9 DEF Reading

(* The other steps of the PD. *)
LEMMA PdOtherKeeps ==
  ASSUME CacheAssumption, TransferInv,
         StartTags \/ FinishLoad \/ \E h \in Item : ReadFails(h)
  PROVE  Reading' /\ load' \subseteq load /\ OnePerItem(load')
<1>1. CacheInv /\ LocatorTypes /\ Truth /\ Reading
  BY DEF TransferInv
<1>2. CASE StartTags
  <2>1. /\ phase = "embedding" /\ Drained /\ phase' = "tags"
        /\ UNCHANGED <<slot, held, tag>> /\ UNCHANGED <<load, landed, gotTag, failing>>
    BY <1>2 DEF StartTags, cacheVars
  <2>2. ASSUME NEW l \in load, NEW i \in DOMAIN l.blocks PROVE ReadSoFar(l, i)'
    <3>1. ReadSoFar(l, i) /\ DOMAIN landed[l.item] = DOMAIN l.blocks /\ l.item \in Loaded
      BY <1>1 DEF Reading, Loaded
    <3>2. l.item \notin failing => landed[l.item][i] # "unread"
      BY <2>1, <3>1 DEF Drained, Outstanding
    <3> QED BY <2>1, <3>1, <3>2 DEF ReadSoFar
  <2>3. Loaded' = Loaded
    BY <2>1 DEF Loaded
  <2>4. Reading'
    BY <1>1, <2>1, <2>2, <2>3 DEF Reading
  <2> QED BY <1>1, <2>1, <2>4 DEF LocatorTypes
<1>3. CASE FinishLoad
  <2>1. phase' = "idle" /\ load' = {} /\ landed' = <<>> /\ gotTag' = <<>>
    BY <1>3 DEF FinishLoad
  <2>2. Loaded' = {} /\ DOMAIN landed' = {} /\ DOMAIN gotTag' = {}
    BY <2>1 DEF Loaded
  <2> QED BY <2>1, <2>2 DEF Reading, OnePerItem
<1>4. ASSUME NEW h \in Item, ReadFails(h) PROVE Reading' /\ load' = load
  <2>1. /\ failing' = failing \cup {h}
        /\ UNCHANGED <<slot, held, tag>> /\ UNCHANGED <<phase, load, landed, gotTag>>
    BY <1>4 DEF ReadFails, cacheVars
  <2>2. ASSUME NEW l \in load, NEW i \in DOMAIN l.blocks PROVE ReadSoFar(l, i)'
    <3>1. ReadSoFar(l, i)
      BY <1>1 DEF Reading
    <3> QED BY <2>1, <3>1 DEF ReadSoFar
  <2>3. Loaded' = Loaded
    BY <2>1 DEF Loaded
  <2>4. Reading'
    BY <1>1, <2>1, <2>2, <2>3 DEF Reading
  <2> QED BY <2>1, <2>4
<1> QED BY <1>1, <1>2, <1>3, <1>4 DEF LocatorTypes

(* Any step. *)
LEMMA StepTransfer == CacheAssumption /\ TransferInv /\ [TransferNext]_vars => TransferInv'
<1> SUFFICES ASSUME CacheAssumption, TransferInv, [TransferNext]_vars PROVE TransferInv'
  OBVIOUS
<1>1. CacheInv /\ Encoded /\ LocatorTypes /\ Truth /\ Reading
  BY DEF TransferInv
<1>2. CASE VeAllocate
  <2>1. [Next]_cacheVars
    BY <1>2 DEF VeAllocate, Next
  <2>2. CacheInv'
    BY <1>1, <2>1, StepCache
  <2> QED BY <1>2, <2>2, VeAllocateKeeps DEF TransferInv
<1>3. CASE VeTick \/ \E h \in Item : VeFree(h) \/ VeMarkWritten(h)
  <2>1. [Next]_cacheVars
    BY <1>3 DEF VeTick, VeFree, VeMarkWritten, Next
  <2>2. CacheInv'
    BY <1>1, <2>1, StepCache
  <2> QED BY <1>3, <2>2, VeOtherKeeps DEF TransferInv
<1>4. ASSUME UNCHANGED cacheVars PROVE CacheInv'
  BY <1>1, <1>4, StepCache
<1>5. ASSUME NEW h \in Item, AttachLocator(h) PROVE TransferInv'
  BY <1>4, <1>5, AttachKeeps DEF TransferInv, AttachLocator
<1>6. ASSUME NEW h \in Item, NEW i \in 1 .. Need[h], Encode(h, i) PROVE TransferInv'
  <2>1. i \in Nat
    OBVIOUS
  <2> QED BY <1>4, <1>6, <2>1, EncodeKeeps DEF TransferInv, Encode
<1>7. CASE PdNext
  <2>1. CASE StartLoad
    BY <1>4, <2>1, StartLoadKeeps DEF TransferInv, StartLoad
  <2>2. ASSUME UNCHANGED cacheVars, UNCHANGED content, UNCHANGED locators,
               load' \subseteq load, OnePerItem(load'), Reading'
        PROVE  TransferInv'
    <3>1. UNCHANGED <<slot, unwritten, tag>>
      BY <2>2 DEF cacheVars
    <3>2. Encoded' /\ LocatorTypes' /\ Truth'
      BY <1>1, <2>2, <3>1 DEF Encoded, LocatorTypes, OnePerItem, Truth
    <3> QED BY <1>4, <2>2, <3>2 DEF TransferInv
  <2>3. CASE StartTags \/ FinishLoad \/ \E h \in Item : ReadFails(h)
    <3>1. UNCHANGED cacheVars /\ UNCHANGED content /\ UNCHANGED locators
      BY <2>3 DEF StartTags, FinishLoad, ReadFails
    <3> QED BY <2>2, <2>3, <3>1, PdOtherKeeps
  <2>4. ASSUME NEW h \in Item, NEW i \in 1 .. Need[h], ReadEmbedding(h, i) \/ ReadTag(h, i)
        PROVE  TransferInv'
    <3>1. i \in Nat
      OBVIOUS
    <3>2. Reading'
      BY <2>4, <3>1, ReadEmbeddingKeeps, ReadTagKeeps
    <3>3. UNCHANGED cacheVars /\ UNCHANGED content /\ UNCHANGED locators /\ UNCHANGED load
      BY <2>4 DEF ReadEmbedding, ReadTag
    <3> QED BY <1>1, <2>2, <3>2, <3>3 DEF LocatorTypes
  <2> QED BY <1>7, <2>1, <2>3, <2>4 DEF PdNext
<1>8. CASE UNCHANGED vars
  <2>1. UNCHANGED cacheVars /\ UNCHANGED <<content, locators, load, phase, landed, gotTag, failing>>
    BY <1>8 DEF vars, pullVars
  <2>2. UNCHANGED <<slot, unwritten, held, tag>>
    BY <2>1 DEF cacheVars
  <2>3. Encoded' /\ LocatorTypes'
    BY <1>1, <2>1, <2>2 DEF Encoded, LocatorTypes, OnePerItem
  <2>4. Truth'
    BY <1>1, <2>1, <2>2 DEF Truth
  <2>5. Reading'
    BY <1>1, <2>1, <2>2 DEF Reading, ReadSoFar, Loaded
  <2> QED BY <1>4, <2>1, <2>3, <2>4, <2>5 DEF TransferInv
<1> QED BY <1>2, <1>3, <1>5, <1>6, <1>7, <1>8 DEF TransferNext

(* At first nothing is cached, and no locator is out. *)
LEMMA InitTransfer == CacheAssumption /\ TransferInit => TransferInv
<1> SUFFICES ASSUME CacheAssumption, TransferInit PROVE TransferInv
  OBVIOUS
<1>1. CacheInv
  BY InitCache DEF TransferInit
<1>2. slot = [h \in Item |-> <<>>]
  BY DEF TransferInit, Init
<1>3. /\ locators = {} /\ load = {} /\ phase = "idle" /\ landed = <<>> /\ gotTag = <<>>
  BY DEF TransferInit
<1>4. Encoded
  BY <1>2 DEF Encoded
<1>5. Loaded = {} /\ DOMAIN landed = {} /\ DOMAIN gotTag = {}
  BY <1>3 DEF Loaded
<1> QED BY <1>1, <1>3, <1>4, <1>5 DEF TransferInv, LocatorTypes, OnePerItem, Truth, Reading

(* ReceiptSound: what the PD accepts is the whole embedding, in order, unless *)
(* the item was encoded again (wait_for_load, _validate_pulled_tags).        *)
THEOREM AcceptedIsWhole == TransferSpec => []ReceiptSound
<1> USE CacheAssumption
<1>1. TransferInit => TransferInv
  BY InitTransfer
<1>2. TransferInv /\ [TransferNext]_vars => TransferInv'
  BY StepTransfer
<1>3. TransferInv => ReceiptSound
  <2> SUFFICES ASSUME TransferInv, NEW h \in Accepted, ~LocatorOf(h).reencoded PROVE Whole(h)
    BY DEF ReceiptSound
  <2>1. LocatorTypes /\ Reading
    BY DEF TransferInv
  <2>2. h \in Loaded \ failing /\ phase = "tags" /\ TagsMatch(h)
    BY DEF Accepted
  <2>3. PICK l \in load : l.item = h
    BY <2>2 DEF Loaded
  <2>4. LocatorOf(h) = l
    BY <2>1, <2>3, OneLocator DEF LocatorOf, LocatorTypes
  <2>5. DOMAIN landed[h] = DOMAIN l.blocks /\ DOMAIN gotTag[h] = DOMAIN l.blocks
    BY <2>1, <2>3 DEF Reading
  <2>6. ASSUME NEW i \in DOMAIN l.blocks PROVE landed[h][i] = "right"
    <3>1. ReadSoFar(l, i)
      BY <2>1 DEF Reading
    <3>2. gotTag[h][i] = "right"
      BY <2>2, <2>5 DEF TagsMatch
    <3> QED BY <2>2, <2>3, <2>4, <3>1, <3>2 DEF ReadSoFar
  <2> QED BY <2>5, <2>6 DEF Whole
<1> QED BY <1>1, <1>2, <1>3, PTL DEF TransferSpec

(* DiesOnlyOfReuse: the PD engine dies of a READ that failed or of an item    *)
(* that is no longer where its locator says, never of an eviction that the   *)
(* hold time still covers.                                                  *)
THEOREM EngineDiesOfReuse == TransferSpec => DiesOnlyOfReuse
<1> DEFINE Reused == \E l \in load : \/ l.item \in failing \/ l.reencoded
                                     \/ l.blocks \notin {slot[l.item], held[l.item]}
<1> USE CacheAssumption
<1>1. TransferInit => TransferInv
  BY InitTransfer
<1>2. TransferInv /\ [TransferNext]_vars => TransferInv'
  BY StepTransfer
<1>3. TransferInv /\ [TransferNext]_vars => [pdFailed' /\ ~pdFailed => Reused]_vars
  <2> SUFFICES ASSUME TransferInv, TransferNext, pdFailed', ~pdFailed PROVE Reused
    OBVIOUS
  <2>1. LocatorTypes /\ Reading
    BY DEF TransferInv
  <2>2. FinishLoad
    BY DEF TransferNext, PdNext, VeAllocate, VeTick, VeFree, VeMarkWritten, AttachLocator,
           Encode, StartLoad, StartTags, ReadFails, ReadEmbedding, ReadTag, pullVars
  <2>3. PICK h \in Loaded : h \in failing \/ ~TagsMatch(h)
    BY <2>2 DEF FinishLoad
  <2>4. PICK l \in load : l.item = h
    BY DEF Loaded
  <2>5. CASE h \in failing
    BY <2>4, <2>5
  <2>6. CASE h \notin failing
    <3>1. phase = "tags" /\ ~Outstanding(h)
      BY <2>2, <2>6 DEF FinishLoad, Drained
    <3>2. PICK i \in DOMAIN gotTag[h] : gotTag[h][i] # "right"
      BY <2>3, <2>6 DEF TagsMatch
    <3>3. i \in DOMAIN l.blocks /\ ReadSoFar(l, i)
      BY <2>1, <2>4, <3>2 DEF Reading
    <3>4. gotTag[h][i] = "wrong"
      BY <2>4, <3>1, <3>2, <3>3 DEF ReadSoFar, Outstanding
    <3> QED BY <2>4, <3>3, <3>4 DEF ReadSoFar
  <2> QED BY <2>5, <2>6
<1> QED BY <1>1, <1>2, <1>3, PTL DEF TransferSpec, DiesOnlyOfReuse
------------------------------------------------------------------------------
(* The pull of a prompt's KV cache (KvPull).  What a decode rank reads from  *)
(* a prefill rank is one fragment, named by the arithmetic of the two        *)
(* topologies (MovesOneFragment), so a prefill rank is notified at most once *)
(* by each decode rank it is told to wait for, and a count that reaches the  *)
(* fan-in has heard them all (HeardOnce).                                    *)

(* A product is monotone. *)
LEMMA Product ==
  ASSUME NEW a \in Int, NEW b \in Int, NEW M \in Nat, a < b
  PROVE  a * M + M <= b * M
<1>1. (b - a) * M >= M
  <2>1. b - a >= 1 /\ b - a \in Int
    OBVIOUS
  <2>2. \A k \in Int : k >= 1 => k * M >= M
    OBVIOUS
  <2> QED BY <2>1, <2>2
<1>2. (b - a) * M = b * M - a * M
  OBVIOUS
<1> QED BY <1>1, <1>2

(* A quotient and a remainder are the only ones. *)
LEMMA OneRemainder ==
  ASSUME NEW a \in Int, NEW b \in Int, NEW M \in Nat, NEW c \in 0 .. M - 1, NEW e \in 0 .. M - 1,
         a * M + c = b * M + e
  PROVE  a = b /\ c = e
<1>1. ~(a < b)
  <2> SUFFICES ASSUME a < b PROVE FALSE
    OBVIOUS
  <2>1. a * M + M <= b * M
    BY Product
  <2>2. a * M \in Int /\ b * M \in Int
    OBVIOUS
  <2> QED BY <2>1, <2>2
<1>2. ~(b < a)
  <2> SUFFICES ASSUME b < a PROVE FALSE
    OBVIOUS
  <2>1. b * M + M <= a * M
    BY Product
  <2>2. a * M \in Int /\ b * M \in Int
    OBVIOUS
  <2> QED BY <2>1, <2>2
<1>3. a = b
  BY <1>1, <1>2
<1> QED BY <1>3

(* The remainder of a multiple and a rest is the rest. *)
LEMMA Remainder ==
  ASSUME NEW q \in Nat, NEW M \in Nat \ {0}, NEW x \in 0 .. M - 1
  PROVE  (q * M + x) % M = x
<1>1. PICK y \in Nat : y = q * M + x
  OBVIOUS
<1>2. PICK b, e : b = y \div M /\ e = y % M
  OBVIOUS
<1>3. e \in 0 .. M - 1 /\ b \in Int
  BY <1>2
<1>4. y = b * M + e
  BY <1>2
<1>5. q * M + x = b * M + e
  BY <1>1, <1>4
<1>6. x = e
  BY <1>3, <1>5, OneRemainder
<1> QED BY <1>1, <1>2, <1>6

(* A quotient and its remainder. *)
LEMMA DivMod ==
  ASSUME NEW a \in Nat, NEW b \in Nat \ {0}
  PROVE  /\ a \div b \in Nat /\ a % b \in 0 .. b - 1
         /\ a = (a \div b) * b + (a % b)
  OBVIOUS

(* The quotient of a multiple and a rest is the multiplier. *)
LEMMA Quotient ==
  ASSUME NEW q \in Nat, NEW M \in Nat \ {0}, NEW x \in 0 .. M - 1
  PROVE  (q * M + x) \div M = q
<1>1. PICK y \in Nat : y = q * M + x
  OBVIOUS
<1>2. PICK b \in Nat, e \in 0 .. M - 1 : b = y \div M /\ e = y % M /\ y = b * M + e
  BY DivMod
<1>3. q * M + x = b * M + e
  BY <1>1, <1>2
<1>4. q = b
  BY <1>3, OneRemainder
<1> QED BY <1>1, <1>2, <1>4

(* Of two numbers of which one divides the other, the smaller divides.      *)
LEMMA SmallerDivides ==
  ASSUME NEW a \in Nat \ {0}, NEW b \in Nat \ {0}, Divides(a, b) \/ Divides(b, a), a >= b
  PROVE  a = (a \div b) * b /\ a \div b \in Nat \ {0}
<1>1. PICK q \in Nat, x \in 0 .. b - 1 : q = a \div b /\ x = a % b /\ a = q * b + x
  BY DivMod
<1>2. PICK p \in Nat, y \in 0 .. a - 1 : y = b % a /\ b = p * a + y
  BY DivMod
<1>3. x = 0
  <2>1. CASE x = 0
    BY <2>1
  <2>2. CASE y = 0
    <3>1. p = 1
      <4>1. p # 0
        BY <1>2, <2>2
      <4>2. ~(1 < p)
        <5> SUFFICES ASSUME 1 < p PROVE FALSE
          OBVIOUS
        <5>1. 1 * a + a <= p * a
          BY Product
        <5> QED BY <1>2, <2>2, <5>1
      <4> QED BY <4>1, <4>2
    <3>2. a = 1 * b + 0
      BY <1>2, <2>2, <3>1
    <3>3. q * b + x = 1 * b + 0 /\ 0 \in 0 .. b - 1
      BY <1>1, <3>2
    <3> QED BY <3>3, OneRemainder
  <2> QED BY <1>1, <1>2, <2>1, <2>2 DEF Divides
<1>4. q # 0
  BY <1>1, <1>3
<1> QED BY <1>1, <1>3, <1>4

(* What lies below a quotient that is rounded up. *)
LEMMA BelowCeiling ==
  ASSUME NEW n \in Nat, NEW M \in Nat \ {0}
  PROVE  CeilDiv(n, M) \in Nat /\ \A x \in Int : x < CeilDiv(n, M) <=> x * M < n
<1>1. PICK a \in Nat : a = n + M - 1
  OBVIOUS
<1>2. PICK c \in Nat, e \in 0 .. M - 1 : c = a \div M /\ a = c * M + e
  BY DivMod
<1>3. CeilDiv(n, M) = c
  BY <1>1, <1>2 DEF CeilDiv
<1>4. ASSUME NEW x \in Int, x < c PROVE x * M < n
  <2>1. x * M + M <= c * M
    BY <1>4, Product
  <2>2. x * M \in Int /\ c * M \in Int
    OBVIOUS
  <2> QED BY <1>1, <1>2, <2>1, <2>2
<1>5. ASSUME NEW x \in Int, ~(x < c) PROVE ~(x * M < n)
  <2>1. x * M \in Int /\ c * M \in Int
    OBVIOUS
  <2>2. c * M <= x * M
    <3>1. CASE x = c
      BY <2>1, <3>1
    <3>2. CASE c < x
      <4>1. c * M + M <= x * M
        BY <3>2, Product
      <4> QED BY <2>1, <4>1
    <3> QED BY <1>5, <3>1, <3>2
  <2> QED BY <1>1, <1>2, <2>1, <2>2
<1> QED BY <1>3, <1>4, <1>5

(* The length of a range is the number of its steps that stay below the limit. *)
LEMMA RangeSteps ==
  ASSUME NEW first \in Nat, NEW limit \in Nat, NEW step \in Nat \ {0}
  PROVE  /\ RangeLength(first, limit, step) \in Nat
         /\ \A t \in Nat : t < RangeLength(first, limit, step) <=> first + t * step < limit
<1>1. CASE first < limit
  <2>1. PICK n \in Nat : n = limit - first
    BY <1>1
  <2>2. PICK c \in Nat : c = CeilDiv(n, step) /\ \A x \in Int : x < c <=> x * step < n
    BY BelowCeiling
  <2>3. RangeLength(first, limit, step) = c
    BY <1>1, <2>1, <2>2 DEF RangeLength
  <2>4. \A t \in Nat : t * step \in Nat /\ (t < c <=> t * step < n)
    BY <2>2
  <2> QED BY <2>1, <2>3, <2>4
<1>2. CASE ~(first < limit)
  <2>1. \A t \in Nat : t * step \in Nat
    OBVIOUS
  <2> QED BY <1>2, <2>1 DEF RangeLength
<1> QED BY <1>1, <1>2
------------------------------------------------------------------------------

(* What the readers' arithmetic needs of the inputs. *)
Inputs ==
  /\ topo \in Topologies /\ pages \in Nat /\ cached \in Nat /\ empty \in BOOLEAN

(* The sizes of a valid topology, and of its groups of ranks, are positive. *)
LEMMA TopologySizes ==
  ASSUME Inputs
  PROVE  /\ topo.heads \in Nat \ {0} /\ topo.pTP \in Nat \ {0} /\ topo.pDCP \in Nat \ {0}
         /\ topo.dTP \in Nat \ {0} /\ topo.dDCP \in Nat \ {0} /\ topo.pageR \in Nat \ {0}
         /\ topo.pageR > 1 => topo.pDCP = topo.pageR * topo.dDCP
         /\ PReplicas \in Nat \ {0} /\ DReplicas \in Nat \ {0}
         /\ PHeads \in Nat \ {0} /\ DHeads \in Nat \ {0}
<1>1. ValidTopology(topo)
  BY KvPullAssumption DEF Inputs
<1>2. /\ topo.heads \in Nat \ {0} /\ topo.pTP \in Nat \ {0} /\ topo.pDCP \in Nat \ {0}
      /\ topo.dTP \in Nat \ {0} /\ topo.dDCP \in Nat \ {0} /\ topo.pageR \in Nat \ {0}
      /\ topo.pageR > 1 => topo.pDCP = topo.pageR * topo.dDCP
  BY <1>1 DEF ValidTopology
<1>3. \A n \in Int : AtLeastOne(n) \in Nat \ {0}
  BY DEF AtLeastOne
<1>4. \A a \in Nat \ {0}, b \in Nat \ {0} : a \div b \in Int
  OBVIOUS
<1>5. \A a \in Nat : \A b \in Nat \ {0} : a \div b \in Nat
  OBVIOUS
<1>6. topo.pTP \div topo.pDCP \in Nat \ {0} /\ topo.dTP \div topo.dDCP \in Nat \ {0}
  <2>1. ASSUME NEW a \in Nat \ {0}, NEW b \in Nat \ {0}, a % b = 0
        PROVE  a \div b \in Nat \ {0}
    <3>1. PICK q \in Nat : q = a \div b
      BY <1>5
    <3>2. a = q * b + (a % b)
      BY <3>1
    <3>3. q # 0
      BY <2>1, <3>2
    <3> QED BY <3>1, <3>3
  <2>2. topo.pTP % topo.pDCP = 0 /\ topo.dTP % topo.dDCP = 0
    BY <1>1 DEF ValidTopology, Divides
  <2> QED BY <1>2, <2>1, <2>2
<1>7. (topo.pTP \div topo.pDCP) \div topo.heads \in Nat /\ (topo.dTP \div topo.dDCP) \div topo.heads \in Nat
  BY <1>2, <1>5, <1>6
<1>8. PReplicas \in Nat \ {0} /\ DReplicas \in Nat \ {0}
  BY <1>3, <1>7 DEF PReplicas, DReplicas
<1>9. \A n \in Nat \ {0} : AtLeastOne(topo.heads \div n) \in Nat \ {0}
  BY <1>2, <1>3, <1>5
<1>10. PHeads \in Nat \ {0} /\ DHeads \in Nat \ {0}
  BY <1>6, <1>9 DEF PHeads, DHeads, HeadsOf
<1> QED BY <1>2, <1>8, <1>10

(* Of the two engines' DCP sizes, and of the heads in their blocks, the      *)
(* smaller divides the larger.                                              *)
LEMMA TopologyFits ==
  ASSUME Inputs
  PROVE  /\ topo.pDCP > topo.dDCP =>
              /\ topo.pDCP \div topo.dDCP \in Nat \ {0}
              /\ topo.pDCP = (topo.pDCP \div topo.dDCP) * topo.dDCP
         /\ ~(topo.pDCP > topo.dDCP) =>
              /\ topo.dDCP \div topo.pDCP \in Nat \ {0}
              /\ topo.dDCP = (topo.dDCP \div topo.pDCP) * topo.pDCP
         /\ PHeads >= DHeads =>
              PHeads \div DHeads \in Nat \ {0} /\ PHeads = (PHeads \div DHeads) * DHeads
         /\ ~(PHeads >= DHeads) =>
              DHeads \div PHeads \in Nat \ {0} /\ DHeads = (DHeads \div PHeads) * PHeads
<1>1. /\ Divides(topo.pDCP, topo.dDCP) \/ Divides(topo.dDCP, topo.pDCP)
      /\ Divides(PHeads, DHeads) \/ Divides(DHeads, PHeads)
  BY KvPullAssumption DEF Inputs, ValidTopology, PHeads, DHeads
<1>2. PICK p \in Nat \ {0}, d \in Nat \ {0} : p = topo.pDCP /\ d = topo.dDCP
  BY TopologySizes
<1>3. PICK h \in Nat \ {0}, g \in Nat \ {0} : h = PHeads /\ g = DHeads
  BY TopologySizes
<1>4. \A a \in Nat \ {0}, b \in Nat \ {0} :
        Divides(a, b) \/ Divides(b, a) =>
          /\ a >= b => a \div b \in Nat \ {0} /\ a = (a \div b) * b
          /\ b >= a => b \div a \in Nat \ {0} /\ b = (b \div a) * a
  <2> SUFFICES ASSUME NEW a \in Nat \ {0}, NEW b \in Nat \ {0}, Divides(a, b) \/ Divides(b, a)
               PROVE  /\ a >= b => a \div b \in Nat \ {0} /\ a = (a \div b) * b
                      /\ b >= a => b \div a \in Nat \ {0} /\ b = (b \div a) * a
    OBVIOUS
  <2>1. a >= b => a \div b \in Nat \ {0} /\ a = (a \div b) * b
    BY SmallerDivides
  <2>2. b >= a => b \div a \in Nat \ {0} /\ b = (b \div a) * a
    BY SmallerDivides
  <2> QED BY <2>1, <2>2
<1>5. Divides(p, d) \/ Divides(d, p)
  BY <1>1, <1>2
<1>6. Divides(h, g) \/ Divides(g, h)
  BY <1>1, <1>3
<1>7. /\ p > d => p \div d \in Nat \ {0} /\ p = (p \div d) * d
      /\ ~(p > d) => d \div p \in Nat \ {0} /\ d = (d \div p) * p
  <2>1. (p > d => p >= d) /\ (~(p > d) => d >= p)
    OBVIOUS
  <2> QED BY <1>4, <1>5, <2>1
<1>8. /\ h >= g => h \div g \in Nat \ {0} /\ h = (h \div g) * g
      /\ ~(h >= g) => g \div h \in Nat \ {0} /\ g = (g \div h) * h
  <2>1. ~(h >= g) => g >= h
    OBVIOUS
  <2> QED BY <1>4, <1>6, <2>1
<1> QED BY <1>2, <1>3, <1>7, <1>8

(* The number of a decode rank's remote blocks that a stride reaches: those *)
(* whose first page lies in the prompt.                                     *)
LEMMA StrideLength ==
  ASSUME Inputs, NEW d \in DRanks, ~(topo.pDCP > topo.dDCP)
  PROVE  LET step == topo.dDCP \div topo.pDCP
             offset == DcpRank(d) \div topo.pDCP
             strided == RangeLength(offset, NumRemote, step)
         IN /\ step \in Nat \ {0} /\ offset \in Nat /\ strided \in Nat
            /\ \A t \in Nat : t < strided <=> (offset + t * step) * topo.pDCP < pages
<1>1. PICK step \in Nat \ {0} : step = topo.dDCP \div topo.pDCP
  BY TopologyFits
<1>2. DcpRank(d) \in Nat /\ topo.pDCP \in Nat \ {0} /\ pages \in Nat
  BY TopologySizes DEF DcpRank, DRanks, Inputs
<1>3. PICK offset \in Nat : offset = DcpRank(d) \div topo.pDCP
  BY <1>2, DivMod
<1>4. NumRemote \in Nat /\ \A x \in Int : x < NumRemote <=> x * topo.pDCP < pages
  BY <1>2, BelowCeiling DEF NumRemote
<1>5. PICK strided \in Nat : /\ strided = RangeLength(offset, NumRemote, step)
                             /\ \A t \in Nat : t < strided <=> offset + t * step < NumRemote
  BY <1>4, RangeSteps
<1>6. \A t \in Nat : offset + t * step \in Int
  OBVIOUS
<1>7. \A t \in Nat : t < strided <=> (offset + t * step) * topo.pDCP < pages
  BY <1>4, <1>5, <1>6
<1> QED BY <1>1, <1>3, <1>5, <1>7
------------------------------------------------------------------------------
(* The prefill head ranks are numbers. *)
LEMMA HeadRanksTypes ==
  ASSUME Inputs, NEW d \in DRanks
  PROVE  /\ DcpRank(d) \in 0 .. topo.dDCP - 1
         /\ HeadRanksRead(d) \subseteq Int
<1> USE TopologySizes DEF DRanks
<1>1. DcpRank(d) \in 0 .. topo.dDCP - 1
  BY DEF DcpRank
<1>2. topo.dDCP * DReplicas \in Nat \ {0}
  OBVIOUS
<1>3. HeadRank(d) \in Int
  BY <1>2 DEF HeadRank
<1>4. \A a \in Nat \ {0}, b \in Nat \ {0} : a \div b \in Int /\ (a >= b => a \div b > 0)
  OBVIOUS
<1>5. CASE PHeads >= DHeads
  <2>1. PHeads \div DHeads \in Nat \ {0}
    BY <1>4, <1>5
  <2>2. HeadRank(d) \div (PHeads \div DHeads) \in Int
    BY <1>3, <2>1
  <2> QED BY <1>1, <1>5, <2>2 DEF HeadRanksRead
<1>6. CASE ~(PHeads >= DHeads)
  <2>1. PICK inv \in Int : inv = DHeads \div PHeads
    BY <1>4
  <2>2. \A j \in 0 .. inv - 1 : HeadRank(d) * inv + j \in Int
    BY <1>3
  <2> QED BY <1>1, <1>6, <2>1, <2>2 DEF HeadRanksRead
<1> QED BY <1>5, <1>6

(* A prefill rank has one DCP rank. *)
LEMMA RankKnowsDcp ==
  ASSUME Inputs, NEW k \in Int, NEW l \in Int,
         NEW c \in 0 .. topo.pDCP - 1, NEW e \in 0 .. topo.pDCP - 1,
         RankId(k, c) = RankId(l, e)
  PROVE  c = e
<1>1. PICK M : M = topo.pDCP * PReplicas
  OBVIOUS
<1>2. M \in Nat /\ M >= topo.pDCP
  <2>1. \A a \in Nat \ {0}, b \in Nat \ {0} : a * b \in Nat /\ a * b >= a
    OBVIOUS
  <2> QED BY <1>1, <2>1, TopologySizes
<1>3. c \in 0 .. M - 1 /\ e \in 0 .. M - 1
  BY <1>2, TopologySizes
<1>4. k * M + c = l * M + e
  BY <1>1 DEF RankId
<1> QED BY <1>2, <1>3, <1>4, OneRemainder

(* What a decode rank reads from prefill DCP rank c is one fragment of the  *)
(* ranks it is routed to.                                                   *)
FragmentOf(d, c) == IF topo.pageR > 1 THEN c - DcpRank(d) * topo.pageR ELSE 0

(* What a decode rank moves from a prefill context rank is the one fragment  *)
(* that the prefill rank is told of: the two sides' arithmetic agrees.       *)
LEMMA MovesOneFragment ==
  ASSUME Inputs, NEW d \in DRanks, NEW c \in 0 .. topo.pDCP - 1, NEW m \in Moves(d, c)
  PROVE  c \in FaninDcp(d) /\ m[2] = FragmentOf(d, c)
<1> USE TopologySizes
<1>1. CASE topo.pageR > 1
  <2>1. m \in FragmentMoves(d, c)
    BY <1>1 DEF Moves
  <2>2. PICK L \in 0 .. NumLocal - 1, r \in 0 .. topo.pageR - 1 :
          m[2] = r /\ PageOf(d, L, r) % topo.pDCP = c
    BY <2>1 DEF FragmentMoves
  <2>3. L \in Nat /\ DcpRank(d) \in 0 .. topo.dDCP - 1
    BY HeadRanksTypes
  <2>4. PICK q \in Nat : q = cached + L
    BY <2>3 DEF Inputs
  <2>5. PICK x : x = DcpRank(d) * topo.pageR + r
    OBVIOUS
  <2>6. x \in 0 .. topo.pDCP - 1
    <3>1. topo.pDCP = topo.dDCP * topo.pageR
      BY <1>1
    <3>2. DcpRank(d) * topo.pageR + topo.pageR <= topo.dDCP * topo.pageR
      BY <2>3, Product
    <3>3. DcpRank(d) * topo.pageR \in Nat
      BY <2>3
    <3> QED BY <2>2, <2>5, <3>1, <3>2, <3>3
  <2>7. PageOf(d, L, r) = q * topo.pDCP + x
    <3>1. \A a \in Nat, b \in Nat, e \in Nat, f \in Nat, g \in Nat :
            (a * b + e) * f + g = a * (f * b) + (e * f + g)
      OBVIOUS
    <3> QED BY <1>1, <2>3, <2>4, <2>5, <3>1 DEF PageOf
  <2>8. c = x
    BY <2>2, <2>4, <2>6, <2>7, Remainder
  <2>9. c \in FaninDcp(d)
    BY <1>1, <2>2, <2>5, <2>8 DEF FaninDcp
  <2>10. m[2] = FragmentOf(d, c)
    <3>1. DcpRank(d) * topo.pageR \in Int
      BY <2>3
    <3> QED BY <1>1, <2>2, <2>5, <2>8, <3>1 DEF FragmentOf
  <2> QED BY <2>9, <2>10
<1>2. CASE ~(topo.pageR > 1)
  <2>1. c \in WholeBlockDcp(d)
    BY <1>2 DEF Moves
  <2>2. m[2] = 0
    <3>1. m \in GatherMoves(d, c) \/ m \in StrideMoves(d)
      BY <1>2, <2>1 DEF Moves
    <3>2. \A x \in GatherMoves(d, c) : x[2] = 0
      BY DEF GatherMoves
    <3>3. \A x \in StrideMoves(d) : x[2] = 0
      <4> SUFFICES ASSUME NEW x \in StrideMoves(d) PROVE x[2] = 0
        OBVIOUS
      <4> DEFINE step == topo.dDCP \div topo.pDCP
                 offset == DcpRank(d) \div topo.pDCP
                 strided == RangeLength(offset, NumRemote, step)
                 n == IF NumLocal < strided THEN NumLocal ELSE strided
      <4>1. x \in {<<j, 0, offset + (strided - n + j) * step>> : j \in 0 .. n - 1}
        BY DEF StrideMoves
      <4> HIDE DEF step, offset, strided, n
      <4> QED BY <4>1
    <3> QED BY <3>1, <3>2, <3>3
  <2> QED BY <1>2, <2>1, <2>2 DEF FaninDcp, FragmentOf
<1> QED BY <1>1, <1>2

(* Every READ and every bare notification goes to a rank the fan-in counts, *)
(* and a decode rank sends no two to the same.                              *)
LEMMA ReadsAreRouted ==
  ASSUME Inputs, NEW d \in DRanks
  PROVE  /\ \A n \in Reads(d) \cup BareNotifs(d) : n[1] = d /\ n[2] \in FaninRanks(d)
         /\ \A n \in Reads(d), o \in Reads(d) : n[2] = o[2] => n = o
         /\ \A n \in BareNotifs(d), o \in BareNotifs(d) : n[2] = o[2] => n = o
<1>1. \A n \in Reads(d) : \E k \in HeadRanksRead(d), c \in 0 .. topo.pDCP - 1 :
        c \in FaninDcp(d) /\ n = <<d, RankId(k, c), FragmentOf(d, c)>>
  <2> SUFFICES ASSUME NEW n \in Reads(d)
               PROVE  \E k \in HeadRanksRead(d), c \in 0 .. topo.pDCP - 1 :
                        c \in FaninDcp(d) /\ n = <<d, RankId(k, c), FragmentOf(d, c)>>
    OBVIOUS
  <2>1. PICK k \in HeadRanksRead(d), c \in 0 .. topo.pDCP - 1 :
          n \in {<<d, RankId(k, c), m[2]>> : m \in Moves(d, c)}
    BY DEF Reads
  <2>2. PICK m \in Moves(d, c) : n = <<d, RankId(k, c), m[2]>>
    BY <2>1
  <2> QED BY <2>2, MovesOneFragment
<1>2. \A n \in Reads(d) : n[1] = d /\ n[2] \in FaninRanks(d)
  BY <1>1 DEF FaninRanks
<1>3. \A n \in BareNotifs(d) : n[1] = d /\ n[2] \in FaninRanks(d) /\ n = <<n[1], n[2], 0>>
  BY DEF BareNotifs, FaninRanks, FaninDcp
<1>4. ASSUME NEW n \in Reads(d), NEW o \in Reads(d), n[2] = o[2]
      PROVE  n = o
  <2>1. PICK k \in HeadRanksRead(d), c \in 0 .. topo.pDCP - 1 :
          n = <<d, RankId(k, c), FragmentOf(d, c)>>
    BY <1>1
  <2>2. PICK l \in HeadRanksRead(d), e \in 0 .. topo.pDCP - 1 :
          o = <<d, RankId(l, e), FragmentOf(d, e)>>
    BY <1>1
  <2>3. RankId(k, c) = RankId(l, e)
    BY <1>4, <2>1, <2>2
  <2>4. c = e
    BY <2>3, HeadRanksTypes, RankKnowsDcp
  <2> QED BY <2>1, <2>2, <2>3, <2>4
<1>5. ASSUME NEW n \in BareNotifs(d), NEW o \in BareNotifs(d), n[2] = o[2]
      PROVE  n = o
  BY <1>3, <1>5
<1> QED BY <1>2, <1>3, <1>4, <1>5
------------------------------------------------------------------------------

(* Ranks, reads and fan-ins depend on the inputs alone, which never change. *)
LEMMA InputsStay ==
  ASSUME UNCHANGED inputs
  PROVE  /\ DRanks' = DRanks /\ PRanks' = PRanks /\ Inputs' = Inputs
         /\ \A d : Reads(d)' = Reads(d) /\ BareNotifs(d)' = BareNotifs(d)
         /\ \A d : FaninRanks(d)' = FaninRanks(d)
         /\ \A p : Fanin(p)' = Fanin(p)
<1> USE DEF inputs
<1>1. /\ DRanks' = DRanks /\ PRanks' = PRanks /\ Inputs' = Inputs
      /\ PReplicas' = PReplicas /\ DReplicas' = DReplicas /\ PHeads' = PHeads /\ DHeads' = DHeads
      /\ NumLocal' = NumLocal /\ NumRemote' = NumRemote
  BY DEF DRanks, PRanks, Inputs, PReplicas, DReplicas, PHeads, DHeads, NumLocal, NumRemote
<1>2. \A d : DcpRank(d)' = DcpRank(d) /\ HeadRank(d)' = HeadRank(d)
  BY <1>1 DEF DcpRank, HeadRank
<1>3. \A d : HeadRanksRead(d)' = HeadRanksRead(d)
  BY <1>1, <1>2 DEF HeadRanksRead
<1>4. \A k, c : RankId(k, c)' = RankId(k, c)
  BY <1>1 DEF RankId
<1>5. \A d : WholeBlockDcp(d)' = WholeBlockDcp(d)
  BY <1>2 DEF WholeBlockDcp
<1>6. \A d : FaninDcp(d)' = FaninDcp(d)
  BY <1>2, <1>5 DEF FaninDcp
<1>7. \A d : FaninRanks(d)' = FaninRanks(d)
  BY <1>3, <1>4, <1>6 DEF FaninRanks
<1>8. \A d, c : Moves(d, c)' = Moves(d, c)
  <2>1. \A d, L, r : PageOf(d, L, r)' = PageOf(d, L, r)
    BY <1>2 DEF PageOf
  <2>2. \A d, c : FragmentMoves(d, c)' = FragmentMoves(d, c)
    BY <1>1, <2>1 DEF FragmentMoves
  <2>3. \A d, c : GatherMoves(d, c)' = GatherMoves(d, c)
    BY <1>1, <1>2 DEF GatherMoves
  <2>4. \A d : StrideMoves(d)' = StrideMoves(d)
    BY <1>1, <1>2 DEF StrideMoves
  <2> QED BY <1>5, <2>2, <2>3, <2>4 DEF Moves
<1>9. \A d : Reads(d)' = Reads(d)
  BY <1>3, <1>4, <1>8 DEF Reads
<1>10. \A d : BareNotifs(d)' = BareNotifs(d)
  <2>1. (empty /\ topo.pageR = 1)' <=> (empty /\ topo.pageR = 1)
    OBVIOUS
  <2>2. \A d : {<<d, RankId(k, c)', 0>> : k \in HeadRanksRead(d)', c \in WholeBlockDcp(d)'}
               = {<<d, RankId(k, c), 0>> : k \in HeadRanksRead(d), c \in WholeBlockDcp(d)}
    BY <1>3, <1>4, <1>5
  <2> QED BY <2>1, <2>2 DEF BareNotifs
<1>11. \A p : Fanin(p)' = Fanin(p)
  BY <1>1, <1>7 DEF Fanin
<1> QED BY <1>1, <1>7, <1>9, <1>10, <1>11
------------------------------------------------------------------------------

(* The notifications prefill rank p has been sent, and those it has heard. *)
Started == {d \in DRanks : pc[d] # "idle"}
Notified == arrived \cup UNION {BareNotifs(d) : d \in Started}
Heard(p) == {n \in Notified : n[2] = p} \ notifs

PullTypes ==
  /\ Inputs
  /\ pc \in [DRanks -> {"idle", "reading", "done"}]
  /\ DOMAIN posted = DRanks
  /\ \A d \in DRanks : /\ posted[d] = IF pc[d] = "idle" THEN {} ELSE Reads(d)
                       /\ pc[d] = "done" => Pending(d) = {}
  /\ \A n \in arrived : n[1] \in DRanks /\ n \in posted[n[1]]
  /\ notifs \subseteq Notified
  /\ count \in [PRanks -> Nat]
  /\ lease \in [PRanks -> {"held", "released", "expired"}]

(* As long as a rank holds the blocks it has counted what it heard, and that *)
(* is not its fan-in.                                                       *)
Counting ==
  \A p \in PRanks : lease[p] = "held" =>
    /\ count[p] = Cardinality(Heard(p))
    /\ count[p] = 0 \/ count[p] # Fanin(p)

PullInv == PullTypes /\ Counting /\ GivenUpInTime

(* The decode ranks that are routed to p. *)
Readers(p) == {d \in DRanks : p \in FaninRanks(d)}

(* A pull without local blocks posts no READ. *)
LEMMA NothingToRead ==
  ASSUME Inputs, empty, NEW d \in DRanks
  PROVE  Reads(d) = {}
<1> USE TopologySizes
<1>1. NumLocal = 0
  BY DEF NumLocal
<1>2. DcpRank(d) \in 0 .. topo.dDCP - 1
  BY HeadRanksTypes
<1>3. \A c : FragmentMoves(d, c) = {}
  <2>1. 0 .. NumLocal - 1 = {}
    BY <1>1
  <2> QED BY <2>1 DEF FragmentMoves
<1>4. ASSUME NEW c \in WholeBlockDcp(d), topo.pDCP > topo.dDCP
      PROVE  GatherMoves(d, c) = {}
  <2>1. PICK j \in Nat : c = DcpRank(d) + j * topo.dDCP
    <3>1. topo.pDCP \div topo.dDCP \in Int
      OBVIOUS
    <3> QED BY <1>4, <3>1 DEF WholeBlockDcp
  <2>2. PICK k \in Nat : k = (c - DcpRank(d)) \div topo.dDCP
    <3>1. j * topo.dDCP \in Nat /\ c - DcpRank(d) = j * topo.dDCP
      BY <1>2, <2>1
    <3> QED BY <3>1
  <2>3. PICK ratio \in Nat : ratio = topo.pDCP \div topo.dDCP
    <3>1. \A a \in Nat, b \in Nat \ {0} : a \div b \in Nat
      OBVIOUS
    <3> QED BY <3>1
  <2>4. \A i \in 0 .. NumRemote - 1 : ~(k + i * ratio < 0)
    <3>1. \A i \in Nat : i * ratio \in Nat
      BY <2>3
    <3> QED BY <2>2, <3>1
  <2>5. {i \in 0 .. NumRemote - 1 : k + i * ratio < NumLocal} = {}
    BY <1>1, <2>4
  <2> QED BY <2>2, <2>3, <2>5 DEF GatherMoves
<1>5. ASSUME ~(topo.pDCP > topo.dDCP) PROVE StrideMoves(d) = {}
  <2> DEFINE step == topo.dDCP \div topo.pDCP
             offset == DcpRank(d) \div topo.pDCP
             strided == RangeLength(offset, NumRemote, step)
             n == IF NumLocal < strided THEN NumLocal ELSE strided
  <2>1. strided \in Nat
    BY <1>5, StrideLength
  <2>2. StrideMoves(d) = {<<j, 0, offset + (strided - n + j) * step>> : j \in 0 .. n - 1}
    BY DEF StrideMoves
  <2> HIDE DEF step, offset, strided
  <2>3. n = 0
    BY <1>1, <2>1
  <2> HIDE DEF n
  <2> QED BY <2>2, <2>3
<1>6. \A c : Moves(d, c) = {}
  BY <1>3, <1>4, <1>5 DEF Moves
<1> QED BY <1>6 DEF Reads

(* No two notifications to a prefill rank are of one decode rank; so many as *)
(* the fan-in are of every reader.                                          *)
LEMMA HeardOnce ==
  ASSUME PullTypes, NEW p, NEW H \in SUBSET {n \in Notified : n[2] = p}
  PROVE  /\ \A n \in H : n[1] \in Readers(p)
         /\ \A n \in H, o \in H : n[1] = o[1] => n = o
         /\ IsFiniteSet(H) /\ IsFiniteSet(Readers(p))
         /\ Cardinality(H) \in Nat
         /\ Cardinality(H) = Fanin(p) <=>
              \A d \in Readers(p) : \E n \in H : n[1] = d
<1>1. \A n \in Notified : n[1] \in DRanks /\ n \in Reads(n[1]) \cup BareNotifs(n[1])
  <2>1. \A n \in arrived : n[1] \in DRanks /\ n \in Reads(n[1])
    BY DEF PullTypes
  <2>2. \A d \in Started : \A n \in BareNotifs(d) : n[1] = d /\ d \in DRanks
    BY ReadsAreRouted DEF PullTypes, Started
  <2> QED BY <2>1, <2>2 DEF Notified
<1>2. \A d \in DRanks : empty => Reads(d) = {}
  BY NothingToRead DEF PullTypes
<1>3. \A d \in DRanks : ~empty => BareNotifs(d) = {}
  BY DEF BareNotifs
<1>4. \A n \in H : n[1] \in DRanks /\ n[2] = p /\ n \in Reads(n[1]) \cup BareNotifs(n[1])
  BY <1>1
<1>5. \A n \in H : n[1] \in Readers(p)
  BY <1>4, ReadsAreRouted DEF PullTypes, Readers
<1>6. ASSUME NEW n \in H, NEW o \in H, n[1] = o[1]
      PROVE  n = o
  <2>1. PICK d \in DRanks : d = n[1] /\ d = o[1]
    BY <1>4, <1>6
  <2>2. n[2] = o[2] /\ n \in Reads(d) \cup BareNotifs(d) /\ o \in Reads(d) \cup BareNotifs(d)
    <3>1. n[2] = p /\ n \in Reads(n[1]) \cup BareNotifs(n[1])
      BY <1>4
    <3>2. o[2] = p /\ o \in Reads(o[1]) \cup BareNotifs(o[1])
      BY <1>4
    <3> QED BY <2>1, <3>1, <3>2, Zenon
  <2>3. \/ n \in Reads(d) /\ o \in Reads(d)
        \/ n \in BareNotifs(d) /\ o \in BareNotifs(d)
    BY <1>2, <1>3, <2>2
  <2> QED BY <2>2, <2>3, ReadsAreRouted DEF PullTypes
<1>7. IsFiniteSet(Readers(p))
  <2>1. topo.dTP \in Nat
    BY TopologySizes DEF PullTypes
  <2>2. IsFiniteSet(DRanks)
    BY <2>1, FS_Interval DEF DRanks
  <2> QED BY <2>2, FS_Subset DEF Readers
<1> DEFINE f == [n \in H |-> n[1]]
<1>8. f \in Injection(H, Readers(p))
  <2>1. f \in [H -> Readers(p)]
    BY <1>5
  <2>2. IsInjective(f)
    BY <1>6 DEF IsInjective
  <2> QED BY <2>1, <2>2 DEF Injection
<1>9. /\ IsFiniteSet(H)
      /\ Cardinality(H) = Cardinality(Readers(p)) <=> f \in Surjection(H, Readers(p))
  BY <1>7, <1>8, FS_Injection
<1>10. Fanin(p) = Cardinality(Readers(p))
  BY DEF Fanin, Readers
<1>11. f \in Surjection(H, Readers(p)) <=> \A d \in Readers(p) : \E n \in H : n[1] = d
  BY <1>5 DEF Surjection
<1>12. Cardinality(H) \in Nat
  BY <1>9, FS_CardinalityType
<1> QED BY <1>5, <1>6, <1>7, <1>9, <1>10, <1>11, <1>12
------------------------------------------------------------------------------

(* The invariant of the pull holds at first. *)
LEMMA PullBegins == KvInit => PullInv
<1> SUFFICES ASSUME KvInit PROVE PullInv
  OBVIOUS
<1>1. Inputs
  <2>1. topo \in Topologies /\ pages \in Nat /\ empty \in BOOLEAN
    BY DEF KvInit
  <2>2. ValidTopology(topo)
    BY <2>1, KvPullAssumption
  <2>3. topo.pageR * topo.dDCP \in Nat \ {0}
    <3>1. topo.pageR \in Nat \ {0} /\ topo.dDCP \in Nat \ {0}
      BY <2>2 DEF ValidTopology
    <3> QED BY <3>1
  <2>4. (pages - 1) \div (topo.pageR * topo.dDCP) \in Nat
    <3>1. \A a \in Nat, b \in Nat \ {0} : a \div b \in Nat
      OBVIOUS
    <3>2. pages - 1 \in Nat
      BY DEF KvInit
    <3> QED BY <2>3, <3>1, <3>2
  <2>5. cached \in Nat
    BY <2>4 DEF KvInit
  <2> QED BY <2>1, <2>5 DEF Inputs
<1>2. Started = {} /\ Notified = {}
  BY DEF KvInit, Started, Notified
<1>3. PullTypes
  BY <1>1, <1>2 DEF KvInit, PullTypes, Pending
<1>4. Counting
  BY <1>2, FS_EmptySet DEF KvInit, Counting, Heard
<1>5. GivenUpInTime
  BY DEF KvInit, GivenUpInTime
<1> QED BY <1>3, <1>4, <1>5 DEF PullInv
------------------------------------------------------------------------------
(* A step that leaves the inputs, the leases and the counts alone, and what  *)
(* each rank has heard.                                                     *)
LEMMA NothingHeard ==
  ASSUME PullInv, UNCHANGED <<inputs, count, lease>>,
         \A p : Heard(p)' = Heard(p),
         arrived \subseteq arrived', broken \subseteq broken'
  PROVE  Counting' /\ GivenUpInTime'
<1>1. /\ DRanks' = DRanks /\ PRanks' = PRanks
      /\ \A d : Reads(d)' = Reads(d) /\ BareNotifs(d)' = BareNotifs(d)
      /\ \A d : FaninRanks(d)' = FaninRanks(d)
      /\ \A p : Fanin(p)' = Fanin(p)
  BY InputsStay
<1>2. Counting'
  BY <1>1 DEF PullInv, Counting
<1>3. \A p : Silent(p)' <=> Silent(p)
  BY <1>1 DEF Silent
<1>4. GivenUpInTime'
  BY <1>1, <1>3 DEF PullInv, GivenUpInTime
<1> QED BY <1>2, <1>4

(* A decode rank that starts its pull keeps it. *)
LEMMA StartKeeps ==
  ASSUME PullInv, NEW d \in DRanks, StartPull(d)
  PROVE  PullInv'
<1>1. /\ pc[d] = "idle"
      /\ pc' = [pc EXCEPT ![d] = IF empty THEN "done" ELSE "reading"]
      /\ posted' = [posted EXCEPT ![d] = Reads(d)]
      /\ notifs' = notifs \cup BareNotifs(d)
      /\ UNCHANGED <<inputs, arrived, broken, count, lease>>
  BY DEF StartPull
<1>2. /\ DRanks' = DRanks /\ PRanks' = PRanks /\ Inputs' = Inputs
      /\ \A e : Reads(e)' = Reads(e) /\ BareNotifs(e)' = BareNotifs(e)
  BY <1>1, InputsStay
<1>3. Started' = Started \cup {d}
  BY <1>1, <1>2 DEF Started, PullInv, PullTypes
<1>4. Notified' = Notified \cup BareNotifs(d)
  BY <1>1, <1>2, <1>3 DEF Notified
<1>5. PullTypes'
  <2>1. Inputs' /\ pc' \in [DRanks' -> {"idle", "reading", "done"}] /\ DOMAIN posted' = DRanks'
    BY <1>1, <1>2 DEF PullInv, PullTypes
  <2>2. ASSUME NEW e \in DRanks
        PROVE  posted'[e] = IF pc'[e] = "idle" THEN {} ELSE Reads(e)'
    BY <1>1, <1>2 DEF PullInv, PullTypes
  <2>3. ASSUME NEW e \in DRanks, pc'[e] = "done"
        PROVE  Pending(e)' = {}
    <3>1. CASE e = d
      <4>1. empty
        BY <1>1, <2>3, <3>1 DEF PullInv, PullTypes
      <4> QED BY <1>1, <3>1, <4>1, NothingToRead DEF PullInv, PullTypes, Pending
    <3>2. CASE e # d
      BY <1>1, <2>3, <3>2 DEF PullInv, PullTypes, Pending
    <3> QED BY <3>1, <3>2
  <2>4. \A n \in arrived' : n[1] \in DRanks' /\ n \in posted'[n[1]]
    BY <1>1, <1>2 DEF PullInv, PullTypes
  <2>5. notifs' \subseteq Notified'
    BY <1>1, <1>4 DEF PullInv, PullTypes
  <2>6. count' \in [PRanks' -> Nat] /\ lease' \in [PRanks' -> {"held", "released", "expired"}]
    BY <1>1, <1>2 DEF PullInv, PullTypes
  <2> QED BY <1>2, <2>1, <2>2, <2>3, <2>4, <2>5, <2>6 DEF PullTypes
<1>6. BareNotifs(d) \cap Notified = {}
  <2> SUFFICES ASSUME NEW n \in BareNotifs(d), n \in Notified PROVE FALSE
    OBVIOUS
  <2>1. n[1] = d
    BY ReadsAreRouted DEF PullInv, PullTypes
  <2>2. n \notin arrived
    BY <1>1, <2>1 DEF PullInv, PullTypes
  <2>3. PICK e \in Started : n \in BareNotifs(e)
    BY <2>2 DEF Notified
  <2>4. n[1] = e /\ e # d
    BY <1>1, <2>3, ReadsAreRouted DEF PullInv, PullTypes, Started
  <2> QED BY <2>1, <2>4
<1>7. \A p : Heard(p)' = Heard(p)
  BY <1>1, <1>4, <1>6 DEF Heard
<1>8. Counting' /\ GivenUpInTime'
  BY <1>1, <1>7, NothingHeard
<1> QED BY <1>5, <1>8 DEF PullInv

(* A READ that lands keeps it. *)
LEMMA LandKeeps ==
  ASSUME PullInv, NEW d \in DRanks, PullReadLands(d)
  PROVE  PullInv'
<1>1. PICK read \in Pending(d) :
        /\ arrived' = arrived \cup {read}
        /\ notifs' = notifs \cup {read}
        /\ UNCHANGED <<inputs, pc, posted, broken, count, lease>>
  BY DEF PullReadLands
<1>2. /\ DRanks' = DRanks /\ PRanks' = PRanks /\ Inputs' = Inputs
      /\ \A e : Reads(e)' = Reads(e) /\ BareNotifs(e)' = BareNotifs(e)
  BY <1>1, InputsStay
<1>3. read \in posted[d] /\ read \in Reads(d) /\ read \notin arrived /\ read[1] = d /\ pc[d] # "idle"
  <2>1. read \in posted[d] /\ read \notin arrived
    BY DEF Pending
  <2>2. read \in Reads(d) /\ pc[d] # "idle"
    BY <2>1 DEF PullInv, PullTypes
  <2> QED BY <2>1, <2>2, ReadsAreRouted DEF PullInv, PullTypes
<1>4. \A e \in DRanks : BareNotifs(e) = {}
  BY <1>3, NothingToRead DEF BareNotifs, PullInv, PullTypes
<1>5. Started' = Started /\ Notified' = Notified \cup {read}
  BY <1>1, <1>2 DEF Started, Notified
<1>6. PullTypes'
  <2>1. Inputs' /\ pc' \in [DRanks' -> {"idle", "reading", "done"}] /\ DOMAIN posted' = DRanks'
    BY <1>1, <1>2 DEF PullInv, PullTypes
  <2>2. \A e \in DRanks : posted'[e] = IF pc'[e] = "idle" THEN {} ELSE Reads(e)'
    BY <1>1, <1>2 DEF PullInv, PullTypes
  <2>3. \A e \in DRanks : pc'[e] = "done" => Pending(e)' = {}
    BY <1>1 DEF PullInv, PullTypes, Pending
  <2>4. \A n \in arrived' : n[1] \in DRanks' /\ n \in posted'[n[1]]
    BY <1>1, <1>2, <1>3 DEF PullInv, PullTypes
  <2>5. notifs' \subseteq Notified'
    BY <1>1, <1>5 DEF PullInv, PullTypes
  <2>6. count' \in [PRanks' -> Nat] /\ lease' \in [PRanks' -> {"held", "released", "expired"}]
    BY <1>1, <1>2 DEF PullInv, PullTypes
  <2> QED BY <1>2, <2>1, <2>2, <2>3, <2>4, <2>5, <2>6 DEF PullTypes
<1>7. read \notin Notified
  BY <1>3, <1>4 DEF Notified, Started
<1>8. \A p : Heard(p)' = Heard(p)
  BY <1>1, <1>5, <1>7 DEF Heard
<1>9. Counting' /\ GivenUpInTime'
  BY <1>1, <1>8, NothingHeard
<1> QED BY <1>6, <1>9 DEF PullInv

(* A READ that fails and a pull that is reported disturb nothing that has   *)
(* been heard.                                                              *)
LEMMA FailOrFinishKeeps ==
  ASSUME PullInv, NEW d \in DRanks, PullReadFails(d) \/ FinishPull(d)
  PROVE  PullInv'
<1>1. /\ UNCHANGED <<inputs, posted, arrived, notifs, count, lease>>
      /\ broken \subseteq broken'
      /\ \/ pc' = pc
         \/ pc[d] = "reading" /\ pc' = [pc EXCEPT ![d] = "done"] /\ Pending(d) = {}
  BY DEF PullReadFails, FinishPull, Reported
<1>2. /\ DRanks' = DRanks /\ PRanks' = PRanks /\ Inputs' = Inputs
      /\ \A e : Reads(e)' = Reads(e) /\ BareNotifs(e)' = BareNotifs(e)
  BY <1>1, InputsStay
<1>3. /\ pc' \in [DRanks -> {"idle", "reading", "done"}]
      /\ \A e \in DRanks : /\ (pc'[e] = "idle") <=> (pc[e] = "idle")
                           /\ pc'[e] = "done" => Pending(e) = {}
  BY <1>1 DEF PullInv, PullTypes
<1>4. Started' = Started /\ Notified' = Notified
  BY <1>1, <1>2, <1>3 DEF Started, Notified
<1>5. PullTypes'
  <2>1. Inputs' /\ pc' \in [DRanks' -> {"idle", "reading", "done"}] /\ DOMAIN posted' = DRanks'
    BY <1>1, <1>2, <1>3 DEF PullInv, PullTypes
  <2>2. \A e \in DRanks : posted'[e] = IF pc'[e] = "idle" THEN {} ELSE Reads(e)'
    BY <1>1, <1>2, <1>3 DEF PullInv, PullTypes
  <2>3. \A e \in DRanks : pc'[e] = "done" => Pending(e)' = {}
    BY <1>1, <1>3 DEF Pending
  <2>4. \A n \in arrived' : n[1] \in DRanks' /\ n \in posted'[n[1]]
    BY <1>1, <1>2 DEF PullInv, PullTypes
  <2>5. notifs' \subseteq Notified'
    BY <1>1, <1>4 DEF PullInv, PullTypes
  <2>6. count' \in [PRanks' -> Nat] /\ lease' \in [PRanks' -> {"held", "released", "expired"}]
    BY <1>1, <1>2 DEF PullInv, PullTypes
  <2> QED BY <1>2, <2>1, <2>2, <2>3, <2>4, <2>5, <2>6 DEF PullTypes
<1>6. \A p : Heard(p)' = Heard(p)
  BY <1>1, <1>4 DEF Heard
<1>7. Counting' /\ GivenUpInTime'
  BY <1>1, <1>6, NothingHeard
<1> QED BY <1>5, <1>7 DEF PullInv
------------------------------------------------------------------------------

(* A rank that has heard as many as its fan-in has no reader left. *)
LEMMA AllHeard ==
  ASSUME PullTypes, NEW p \in PRanks, NEW H \in SUBSET {n \in Notified : n[2] = p},
         Cardinality(H) = Fanin(p), NEW d \in DRanks
  PROVE  {read \in Reads(d) : read[2] = p} \subseteq arrived
<1> SUFFICES ASSUME NEW read \in Reads(d), read[2] = p PROVE read \in arrived
  OBVIOUS
<1>1. d \in Readers(p)
  BY ReadsAreRouted DEF PullTypes, Readers
<1>2. PICK n \in H : n[1] = d
  BY <1>1, HeardOnce
<1>3. n[2] = p /\ n \in Notified
  OBVIOUS
<1>4. \A e \in Started : BareNotifs(e) = {}
  BY NothingToRead DEF PullTypes, BareNotifs, Started
<1>5. n \in arrived
  BY <1>3, <1>4 DEF Notified
<1>6. n \in Reads(d)
  BY <1>2, <1>5 DEF PullTypes
<1>7. n = read
  BY <1>3, <1>6, ReadsAreRouted DEF PullTypes
<1> QED BY <1>5, <1>7

(* A prefill rank that takes a notification keeps it. *)
LEMMA TakeKeeps ==
  ASSUME PullInv, NEW p \in PRanks, TakeNotif(p)
  PROVE  PullInv'
<1>1. PICK notif \in notifs :
        /\ notif[2] = p
        /\ notifs' = notifs \ {notif}
        /\ count' = [count EXCEPT ![p] = IF lease[p] = "held" THEN @ + 1 ELSE @]
        /\ lease' = [lease EXCEPT ![p] =
             IF @ = "held" /\ count[p] + 1 = Fanin(p) THEN "released" ELSE @]
        /\ UNCHANGED <<inputs, pc, posted, arrived, broken>>
  BY DEF TakeNotif
<1>2. /\ DRanks' = DRanks /\ PRanks' = PRanks /\ Inputs' = Inputs
      /\ \A e : Reads(e)' = Reads(e) /\ BareNotifs(e)' = BareNotifs(e)
      /\ \A e : FaninRanks(e)' = FaninRanks(e)
      /\ \A q : Fanin(q)' = Fanin(q)
  BY <1>1, InputsStay
<1>3. Started' = Started /\ Notified' = Notified
  BY <1>1, <1>2 DEF Started, Notified
<1>4. PullTypes'
  <2>1. Inputs' /\ pc' \in [DRanks' -> {"idle", "reading", "done"}] /\ DOMAIN posted' = DRanks'
    BY <1>1, <1>2 DEF PullInv, PullTypes
  <2>2. \A e \in DRanks : posted'[e] = IF pc'[e] = "idle" THEN {} ELSE Reads(e)'
    BY <1>1, <1>2 DEF PullInv, PullTypes
  <2>3. \A e \in DRanks : pc'[e] = "done" => Pending(e)' = {}
    BY <1>1 DEF PullInv, PullTypes, Pending
  <2>4. \A n \in arrived' : n[1] \in DRanks' /\ n \in posted'[n[1]]
    BY <1>1, <1>2 DEF PullInv, PullTypes
  <2>5. notifs' \subseteq Notified'
    BY <1>1, <1>3 DEF PullInv, PullTypes
  <2>6. count' \in [PRanks' -> Nat] /\ lease' \in [PRanks' -> {"held", "released", "expired"}]
    BY <1>1, <1>2 DEF PullInv, PullTypes
  <2> QED BY <1>2, <2>1, <2>2, <2>3, <2>4, <2>5, <2>6 DEF PullTypes
<1>5. notif \in Notified /\ notif \notin Heard(p)
  BY DEF PullInv, PullTypes, Heard
<1>6. Heard(p)' = Heard(p) \cup {notif} /\ \A q : q # p => Heard(q)' = Heard(q)
  BY <1>1, <1>3, <1>5 DEF Heard
<1>7. Cardinality(Heard(p) \cup {notif}) = Cardinality(Heard(p)) + 1
  <2>1. Heard(p) \in SUBSET {n \in Notified : n[2] = p}
    BY DEF Heard
  <2>2. IsFiniteSet(Heard(p))
    BY <2>1, HeardOnce DEF PullInv
  <2> QED BY <1>5, <2>2, FS_AddElement
<1>8. lease[p] = "held" => Cardinality(Heard(p)') = count[p] + 1
  BY <1>6, <1>7 DEF PullInv, Counting
<1>9. Counting'
  <2> SUFFICES ASSUME NEW q \in PRanks, lease'[q] = "held"
               PROVE  /\ count'[q] = Cardinality(Heard(q)')
                      /\ count'[q] = 0 \/ count'[q] # Fanin(q)
    BY <1>2 DEF Counting
  <2>1. CASE q = p
    BY <1>1, <1>8, <2>1 DEF PullInv, PullTypes
  <2>2. CASE q # p
    BY <1>1, <1>6, <2>2 DEF PullInv, PullTypes, Counting
  <2> QED BY <2>1, <2>2
<1>10. GivenUpInTime'
  <2>1. ASSUME NEW q \in PRanks, lease'[q] = "released", NEW d \in DRanks
        PROVE  {read \in Reads(d) : read[2] = q} \subseteq arrived
    <3>1. CASE lease[q] = "released"
      BY <3>1 DEF PullInv, GivenUpInTime
    <3>2. CASE lease[q] # "released"
      <4>1. q = p /\ lease[p] = "held" /\ count[p] + 1 = Fanin(p)
        BY <1>1, <2>1, <3>2 DEF PullInv, PullTypes
      <4>2. Heard(p) \cup {notif} \in SUBSET {n \in Notified : n[2] = p}
        BY <1>1, <1>5 DEF Heard
      <4>3. Cardinality(Heard(p) \cup {notif}) = Fanin(p)
        BY <1>6, <1>8, <4>1
      <4> QED BY <4>1, <4>2, <4>3, AllHeard DEF PullInv
    <3> QED BY <3>1, <3>2
  <2>2. ASSUME NEW q \in PRanks, lease'[q] = "expired"
        PROVE  broken # {} \/ Silent(q)
    <3>1. lease[q] = "expired"
      BY <1>1, <2>2 DEF PullInv, PullTypes
    <3> QED BY <3>1 DEF PullInv, GivenUpInTime
  <2>3. \A q : Silent(q)' <=> Silent(q)
    BY <1>2 DEF Silent
  <2> QED BY <1>1, <1>2, <2>1, <2>2, <2>3 DEF GivenUpInTime
<1> QED BY <1>4, <1>9, <1>10 DEF PullInv

(* A lease that expires keeps it. *)
LEMMA ExpiryKeeps ==
  ASSUME PullInv, NEW p \in PRanks, LeaseExpires(p)
  PROVE  PullInv'
<1>1. /\ lease[p] = "held"
      /\ notifs = {}
      /\ \A d \in DRanks : pc[d] = "done"
      /\ lease' = [lease EXCEPT ![p] = "expired"]
      /\ UNCHANGED <<inputs, pc, posted, arrived, broken, notifs, count>>
  BY DEF LeaseExpires
<1>2. /\ DRanks' = DRanks /\ PRanks' = PRanks /\ Inputs' = Inputs
      /\ \A e : Reads(e)' = Reads(e) /\ BareNotifs(e)' = BareNotifs(e)
      /\ \A e : FaninRanks(e)' = FaninRanks(e)
      /\ \A q : Fanin(q)' = Fanin(q)
  BY <1>1, InputsStay
<1>3. Started' = Started /\ Notified' = Notified
  BY <1>1, <1>2 DEF Started, Notified
<1>4. PullTypes'
  <2>1. Inputs' /\ pc' \in [DRanks' -> {"idle", "reading", "done"}] /\ DOMAIN posted' = DRanks'
    BY <1>1, <1>2 DEF PullInv, PullTypes
  <2>2. \A e \in DRanks : posted'[e] = IF pc'[e] = "idle" THEN {} ELSE Reads(e)'
    BY <1>1, <1>2 DEF PullInv, PullTypes
  <2>3. \A e \in DRanks : pc'[e] = "done" => Pending(e)' = {}
    BY <1>1 DEF PullInv, PullTypes, Pending
  <2>4. \A n \in arrived' : n[1] \in DRanks' /\ n \in posted'[n[1]]
    BY <1>1, <1>2 DEF PullInv, PullTypes
  <2>5. notifs' \subseteq Notified'
    BY <1>1
  <2>6. count' \in [PRanks' -> Nat] /\ lease' \in [PRanks' -> {"held", "released", "expired"}]
    BY <1>1, <1>2 DEF PullInv, PullTypes
  <2> QED BY <1>2, <2>1, <2>2, <2>3, <2>4, <2>5, <2>6 DEF PullTypes
<1>5. \A q : Heard(q)' = Heard(q)
  BY <1>1, <1>3 DEF Heard
<1>6. Counting'
  BY <1>1, <1>2, <1>5 DEF PullInv, PullTypes, Counting
<1>7. broken # {} \/ Silent(p)
  <2> SUFFICES ASSUME broken = {}, ~Silent(p) PROVE FALSE
    OBVIOUS
  <2>1. PICK d \in DRanks : p \in FaninRanks(d)
    BY DEF Silent
  <2>2. \A e \in Readers(p) : \E n \in Reads(e) \cup BareNotifs(e) : n[2] = p
    BY DEF Silent, Readers
  <2>3. ASSUME NEW e \in Readers(p)
        PROVE  \E n \in Heard(p) : n[1] = e
    <3>1. PICK n \in Reads(e) \cup BareNotifs(e) : n[2] = p
      BY <2>2
    <3>2. e \in DRanks /\ e \in Started /\ posted[e] = Reads(e) /\ Pending(e) = {}
      BY <1>1 DEF Readers, Started, PullInv, PullTypes
    <3>3. n \in Notified
      BY <3>2 DEF Notified, Pending
    <3>4. n \in Heard(p)
      BY <1>1, <3>1, <3>3 DEF Heard
    <3>5. n[1] = e
      BY <3>2, ReadsAreRouted DEF PullInv, PullTypes
    <3> QED BY <3>4, <3>5
  <2>4. Heard(p) \in SUBSET {n \in Notified : n[2] = p}
    BY DEF Heard
  <2>5. Cardinality(Heard(p)) = Fanin(p) /\ IsFiniteSet(Heard(p))
    BY <2>3, <2>4, HeardOnce DEF PullInv
  <2>6. Cardinality(Heard(p)) = 0
    BY <1>1, <2>5 DEF PullInv, Counting
  <2>7. Heard(p) = {}
    BY <2>5, <2>6, FS_EmptySet
  <2>8. d \in Readers(p)
    BY <2>1 DEF Readers
  <2> QED BY <2>3, <2>7, <2>8
<1>8. GivenUpInTime'
  <2>1. \A q : Silent(q)' <=> Silent(q)
    BY <1>2 DEF Silent
  <2>2. \A q \in PRanks : /\ lease'[q] = "released" => lease[q] = "released"
                          /\ lease'[q] = "expired" => lease[q] = "expired" \/ q = p
    BY <1>1 DEF PullInv, PullTypes
  <2> QED BY <1>1, <1>2, <1>7, <2>1, <2>2 DEF PullInv, GivenUpInTime
<1> QED BY <1>4, <1>6, <1>8 DEF PullInv

(* A step that changes nothing keeps it. *)
LEMMA PullStutters ==
  ASSUME PullInv, UNCHANGED kvVars
  PROVE  PullInv'
<1>1. /\ UNCHANGED <<inputs, pc, posted, arrived, broken, notifs, count, lease>>
      /\ DRanks' = DRanks /\ PRanks' = PRanks /\ Inputs' = Inputs
      /\ \A e : Reads(e)' = Reads(e) /\ BareNotifs(e)' = BareNotifs(e)
  BY InputsStay DEF kvVars, inputs
<1>2. Started' = Started /\ Notified' = Notified
  BY <1>1 DEF Started, Notified
<1>3. \A p : Heard(p)' = Heard(p)
  BY <1>1, <1>2 DEF Heard
<1>4. PullTypes'
  BY <1>1, <1>2 DEF PullInv, PullTypes, Pending
<1>5. Counting' /\ GivenUpInTime'
  BY <1>1, <1>3, NothingHeard
<1> QED BY <1>4, <1>5 DEF PullInv

(* Every step of the pull keeps it. *)
LEMMA PullStep == PullInv /\ [KvNext]_kvVars => PullInv'
<1> SUFFICES ASSUME PullInv, [KvNext]_kvVars PROVE PullInv'
  OBVIOUS
<1>1. CASE KvNext
  BY <1>1, StartKeeps, LandKeeps, FailOrFinishKeeps, TakeKeeps, ExpiryKeeps DEF KvNext
<1>2. CASE UNCHANGED kvVars
  BY <1>2, PullStutters
<1> QED BY <1>1, <1>2

(* A prefill rank gives a prompt's blocks up neither early nor late: what    *)
(* its readers' notifications release has been read to the end by every     *)
(* decode rank, and only a lost READ or a rank that is silent by the shape   *)
(* of the two topologies waits for the lease (the fan-in that               *)
(* _producer_fanin_map carries, against the READs that are posted).          *)
THEOREM BlocksGivenUpInTime == KvSpec => []GivenUpInTime
<1>1. KvInit => PullInv
  BY PullBegins
<1>2. PullInv /\ [KvNext]_kvVars => PullInv'
  BY PullStep
<1>3. PullInv => GivenUpInTime
  BY DEF PullInv
<1> QED BY <1>1, <1>2, <1>3, PTL DEF KvSpec
------------------------------------------------------------------------------
(* What a pull leaves in the local blocks (PulledRightButForTail).  The      *)
(* moves of a decode rank fill a local block with the page it stands for,   *)
(* and with no other (PagesMatch), and what is cut out of the prefill        *)
(* engine's block, or put next to another, are the heads of the decode rank *)
(* (HeadsMatch).                                                            *)

(* The page that move m from prefill DCP rank c brings. *)
Brings(m, c) == m[3] * topo.pDCP + c

(* What is to be shown of the moves of decode rank d into fragment r of its  *)
(* local block L.                                                           *)
PagesMatch(d, L, r) ==
  /\ \A c \in 0 .. topo.pDCP - 1 : \A m \in Moves(d, c) :
       m[1] = L /\ m[2] = r => Brings(m, c) = PageOf(d, L, r)
  /\ \E c \in 0 .. topo.pDCP - 1 : \E m \in Moves(d, c) : m[1] = L /\ m[2] = r

(* The local blocks are those of the whole prompt that are not cached. *)
LEMMA OwnBlocks ==
  ASSUME Inputs
  PROVE  /\ NumLocal \in Int
         /\ ~empty => \E n \in Nat : /\ NumLocal = n - cached
                                    /\ \A t \in Int : t < n <=> t * (topo.pageR * topo.dDCP) < pages
<1>1. PICK w \in Nat \ {0} : w = topo.pageR * topo.dDCP
  BY TopologySizes
<1>2. PICK n \in Nat : n = CeilDiv(pages, w) /\ \A t \in Int : t < n <=> t * w < pages
  BY BelowCeiling DEF Inputs
<1>3. NumLocal = IF empty THEN 0 ELSE n - cached
  BY <1>1, <1>2 DEF NumLocal
<1>4. n - cached \in Int
  BY DEF Inputs
<1> QED BY <1>1, <1>2, <1>3, <1>4

(* Where a local block's page lies when a block is one page. *)
LEMMA PageOfBlock ==
  ASSUME Inputs, NEW d \in DRanks, topo.pageR = 1, NEW L \in Int
  PROVE  PageOf(d, L, 0) = (cached + L) * topo.dDCP + DcpRank(d)
<1>1. PICK x \in Int : x = (cached + L) * topo.dDCP + DcpRank(d)
  BY TopologySizes, HeadRanksTypes DEF Inputs
<1>2. x * 1 + 0 = x
  OBVIOUS
<1> QED BY <1>1, <1>2 DEF PageOf

(* Fragments: each has a page, at one place of one prefill DCP rank's list. *)
LEMMA FragmentPages ==
  ASSUME Inputs, NEW d \in DRanks, topo.pageR > 1,
         NEW L \in 0 .. NumLocal - 1, NEW r \in 0 .. topo.pageR - 1, PageOf(d, L, r) < pages
  PROVE  PagesMatch(d, L, r)
<1>1. /\ topo.pDCP \in Nat \ {0} /\ topo.dDCP \in Nat \ {0} /\ topo.pageR \in Nat \ {0}
      /\ DcpRank(d) \in Nat /\ pages \in Nat /\ cached \in Nat
  BY TopologySizes, HeadRanksTypes DEF Inputs
<1>2. PICK g \in Nat : g = PageOf(d, L, r)
  <2>1. L \in Nat /\ r \in Nat
    BY <1>1
  <2>2. ((cached + L) * topo.dDCP + DcpRank(d)) * topo.pageR + r \in Nat
    BY <1>1, <2>1
  <2> QED BY <2>2 DEF PageOf
<1>3. PICK P \in Nat \ {0} : P = topo.pDCP
  BY <1>1
<1>4. PICK i \in Nat, c \in 0 .. P - 1 : i = g \div P /\ c = g % P /\ g = i * P + c
  BY DivMod
<1>5. i < NumRemote
  <2>1. i * P \in Nat /\ i * P < pages
    <3>1. PICK y \in Nat : y = i * P
      BY <1>4
    <3>2. g < pages /\ g = y + c
      BY <1>2, <1>4, <3>1
    <3> QED BY <1>1, <1>4, <3>1, <3>2
  <2> QED BY <1>1, <1>3, <2>1, BelowCeiling DEF NumRemote
<1>6. ASSUME NEW e \in 0 .. topo.pDCP - 1, NEW m \in Moves(d, e), m[1] = L, m[2] = r
      PROVE  Brings(m, e) = g
  <2>1. m \in FragmentMoves(d, e)
    BY <1>6 DEF Moves
  <2>2. PICK x \in (0 .. NumLocal - 1) \X (0 .. topo.pageR - 1) :
          /\ m = <<x[1], x[2], PageOf(d, x[1], x[2]) \div topo.pDCP>>
          /\ PageOf(d, x[1], x[2]) % topo.pDCP = e
    BY <2>1 DEF FragmentMoves
  <2>3. x[1] = L /\ x[2] = r /\ m[3] = PageOf(d, x[1], x[2]) \div topo.pDCP
    BY <1>6, <2>2
  <2>4. m[3] = i /\ e = c
    BY <1>2, <1>3, <1>4, <2>2, <2>3
  <2> QED BY <1>3, <1>4, <2>4 DEF Brings
<1>7. PICK m : m = <<L, r, i>>
  OBVIOUS
<1>8. m \in FragmentMoves(d, c)
  <2>1. PICK x \in (0 .. NumLocal - 1) \X (0 .. topo.pageR - 1) : x = <<L, r>>
    OBVIOUS
  <2>2. PageOf(d, x[1], x[2]) = g /\ x[1] = L /\ x[2] = r
    BY <1>2, <2>1
  <2> QED BY <1>2, <1>3, <1>4, <1>5, <1>7, <2>2 DEF FragmentMoves
<1>9. m \in Moves(d, c) /\ c \in 0 .. topo.pDCP - 1 /\ m[1] = L /\ m[2] = r
  BY <1>3, <1>7, <1>8 DEF Moves
<1> QED BY <1>2, <1>6, <1>9 DEF PagesMatch

(* A larger prefill DCP: every prefill DCP rank has the pages of every       *)
(* ratio-th local block.                                                    *)
LEMMA GatheredPages ==
  ASSUME Inputs, NEW d \in DRanks, topo.pageR = 1, topo.pDCP > topo.dDCP, cached = 0,
         NEW L \in 0 .. NumLocal - 1, PageOf(d, L, 0) < pages
  PROVE  PagesMatch(d, L, 0)
<1>1. PICK P \in Nat \ {0}, D \in Nat \ {0}, ratio \in Nat \ {0} :
        P = topo.pDCP /\ D = topo.dDCP /\ ratio = topo.pDCP \div topo.dDCP /\ P = ratio * D
  BY TopologySizes, TopologyFits
<1>2. PICK dr \in 0 .. D - 1 : dr = DcpRank(d)
  BY <1>1, HeadRanksTypes
<1>3. L \in Nat /\ PageOf(d, L, 0) = L * D + dr /\ pages \in Nat
  <2>1. L \in Nat /\ pages \in Nat /\ cached + L = L
    BY DEF Inputs
  <2> QED BY <1>1, <1>2, <2>1, PageOfBlock
<1>4. WholeBlockDcp(d) = {dr + k * D : k \in 0 .. ratio - 1}
  BY <1>1, <1>2 DEF WholeBlockDcp
<1>5. ASSUME NEW k \in 0 .. ratio - 1
      PROVE  /\ dr + k * D \in 0 .. P - 1
             /\ (dr + k * D - dr) \div D = k
             /\ \A i \in Nat : i * P + (dr + k * D) = (k + i * ratio) * D + dr
  <2>1. k \in Nat /\ k * D \in Nat
    OBVIOUS
  <2>2. k * D + D <= ratio * D
    BY Product
  <2>3. dr + k * D \in 0 .. P - 1
    BY <1>1, <2>1, <2>2
  <2>4. (k * D + 0) \div D = k
    BY <2>1, Quotient
  <2>5. dr + k * D - dr = k * D + 0
    BY <2>1
  <2>6. \A i \in Nat : i * (ratio * D) + (dr + k * D) = (k + i * ratio) * D + dr
    BY <2>1
  <2> QED BY <1>1, <2>3, <2>4, <2>5, <2>6
<1>6. ASSUME NEW k \in 0 .. ratio - 1
      PROVE  GatherMoves(d, dr + k * D) =
               {<<k + i * ratio, 0, i>> : i \in {i \in 0 .. NumRemote - 1 : k + i * ratio < NumLocal}}
  <2>1. (dr + k * D - dr) \div D = k
    BY <1>5
  <2> QED BY <1>1, <1>2, <2>1 DEF GatherMoves
<1>7. ASSUME NEW c \in 0 .. topo.pDCP - 1, NEW m \in Moves(d, c), m[1] = L
      PROVE  Brings(m, c) = L * D + dr
  <2>1. c \in WholeBlockDcp(d) /\ m \in GatherMoves(d, c)
    BY <1>7 DEF Moves
  <2>2. PICK k \in 0 .. ratio - 1 : c = dr + k * D
    BY <1>4, <2>1
  <2>3. PICK i \in 0 .. NumRemote - 1 : m = <<k + i * ratio, 0, i>>
    BY <1>6, <2>1, <2>2
  <2>4. i \in Nat /\ k + i * ratio = L /\ m[3] = i
    BY <1>7, <2>3
  <2>5. i * P + (dr + k * D) = (k + i * ratio) * D + dr
    BY <1>5, <2>4
  <2> QED BY <1>1, <2>2, <2>4, <2>5 DEF Brings
<1>8. PICK i \in Nat, k \in 0 .. ratio - 1 : L = i * ratio + k
  <2>1. L \div ratio \in Nat /\ L % ratio \in 0 .. ratio - 1 /\ L = (L \div ratio) * ratio + (L % ratio)
    BY <1>3, DivMod
  <2> QED BY <2>1
<1>9. PICK c \in 0 .. P - 1 : c = dr + k * D /\ i * P + c = L * D + dr
  <2>1. i * P + (dr + k * D) = (k + i * ratio) * D + dr /\ dr + k * D \in 0 .. P - 1
    BY <1>5
  <2>2. k + i * ratio = L
    BY <1>8
  <2> QED BY <2>1, <2>2
<1>10. i \in 0 .. NumRemote - 1
  <2>1. NumRemote \in Nat /\ \A x \in Int : x < NumRemote <=> x * P < pages
    BY <1>1, <1>3, BelowCeiling DEF NumRemote
  <2>2. PICK y \in Nat : y = i * P
    OBVIOUS
  <2>3. y + c < pages
    BY <1>3, <1>9, <2>2
  <2>4. y < pages
    BY <1>3, <2>3
  <2> QED BY <2>1, <2>2, <2>4
<1>11. PICK m : m = <<L, 0, i>>
  OBVIOUS
<1>12. m \in GatherMoves(d, c)
  <2>1. k + i * ratio = L /\ L < NumLocal
    <3>1. NumLocal \in Int
      BY OwnBlocks
    <3> QED BY <1>8, <3>1
  <2>2. i \in {j \in 0 .. NumRemote - 1 : k + j * ratio < NumLocal}
    BY <1>10, <2>1
  <2>3. m = <<k + i * ratio, 0, i>>
    BY <1>11, <2>1
  <2> QED BY <1>6, <1>9, <2>2, <2>3
<1>13. m \in Moves(d, c)
  BY <1>4, <1>9, <1>12 DEF Moves
<1> QED BY <1>1, <1>3, <1>7, <1>9, <1>11, <1>13 DEF PagesMatch

(* How many of its remote blocks a decode rank leaves out: as many as it has *)
(* cached, unless its last block lies past the prompt's end.                *)
LEMMA StrideSkipsCached ==
  ASSUME NEW D \in Nat \ {0}, NEW P \in Nat \ {0}, NEW step \in Nat \ {0}, D = step * P,
         NEW dr \in 0 .. D - 1, NEW offset \in Nat, NEW rest \in 0 .. P - 1, dr = offset * P + rest,
         NEW total \in Nat, NEW strided \in Nat, NEW blocksAll \in Nat, NEW had \in Nat,
         \A t \in Nat : t < strided <=> (offset + t * step) * P < total,
         \A t \in Int : t < blocksAll <=> t * D < total,
         NEW L \in 0 .. blocksAll - had - 1, (had + L) * D + dr < total,
         had > 0 => D = P \/ (blocksAll - 1) * D + dr < total,
         NEW n, n = IF blocksAll - had < strided THEN blocksAll - had ELSE strided
  PROVE  n \in Nat /\ L < n /\ strided - n = had
<1>1. \A t \in Nat : (offset + t * step) * P = offset * P + t * D
  BY DEF Divides
<1>2. \A t \in Nat : t < strided <=> offset * P + t * D < total
  BY <1>1
<1>3. offset * P \in Nat /\ \A t \in Nat : t * D \in Nat
  OBVIOUS
<1>4. \A t \in Nat : t < strided => t < blocksAll
  <2> SUFFICES ASSUME NEW t \in Nat, t < strided PROVE t * D < total
    OBVIOUS
  <2>1. PICK x \in Nat, y \in Nat : x = offset * P /\ y = t * D
    BY <1>3
  <2> QED BY <1>2, <2>1
<1>5. strided <= blocksAll
  BY <1>4
<1>6. \A t \in Nat : t * D + dr < total => t < strided
  <2> SUFFICES ASSUME NEW t \in Nat, t * D + dr < total PROVE offset * P + t * D < total
    BY <1>2
  <2>1. PICK x \in Nat, y \in Nat : x = offset * P /\ y = t * D
    BY <1>3
  <2> QED BY <2>1
<1>7. had + L \in Nat /\ had + L < strided
  BY <1>6
<1>8. CASE had = 0
  BY <1>5, <1>7, <1>8
<1>9. CASE had > 0
  <2>1. blocksAll - 1 \in Nat
    BY <1>9
  <2>2. CASE D = P
    <3>1. offset = 0
      <4>1. offset * P + rest = 0 * P + dr /\ dr \in 0 .. P - 1
        BY <2>2
      <4> QED BY <4>1, OneRemainder
    <3>2. (blocksAll - 1) * D < total
      BY <2>1
    <3>3. offset * P + (blocksAll - 1) * D < total
      BY <3>1, <3>2
    <3>4. blocksAll - 1 < strided
      BY <1>2, <2>1, <3>3
    <3> QED BY <1>5, <1>9, <3>4
  <2>3. CASE (blocksAll - 1) * D + dr < total
    <3>1. blocksAll - 1 < strided
      BY <1>6, <2>1, <2>3
    <3> QED BY <1>5, <1>9, <3>1
  <2> QED BY <1>9, <2>2, <2>3
<1> QED BY <1>8, <1>9

(* A decode DCP as large or larger: a rank's stride of the remote list, less *)
(* what it has cached, is its local list.                                   *)
LEMMA StridedPages ==
  ASSUME Inputs, NEW d \in DRanks, topo.pageR = 1, ~(topo.pDCP > topo.dDCP), ~empty, ~TailShort(d),
         NEW L \in 0 .. NumLocal - 1, PageOf(d, L, 0) < pages
  PROVE  PagesMatch(d, L, 0)
<1>1. PICK P \in Nat \ {0}, D \in Nat \ {0}, step \in Nat \ {0} :
        P = topo.pDCP /\ D = topo.dDCP /\ step = topo.dDCP \div topo.pDCP /\ D = step * P
  BY TopologySizes, TopologyFits
<1>2. PICK dr \in 0 .. D - 1 : dr = DcpRank(d)
  BY <1>1, HeadRanksTypes
<1>3. PICK offset \in Nat, rest \in 0 .. P - 1 :
        offset = DcpRank(d) \div topo.pDCP /\ rest = DcpRank(d) % topo.pDCP /\ dr = offset * P + rest
  <2>1. dr \div P \in Nat /\ dr % P \in 0 .. P - 1 /\ dr = (dr \div P) * P + (dr % P)
    <3>1. dr \in Nat
      OBVIOUS
    <3> QED BY <3>1, DivMod
  <2> QED BY <1>1, <1>2, <2>1
<1>4. PICK had \in Nat, total \in Nat : had = cached /\ total = pages
  BY DEF Inputs
<1>5. PICK strided \in Nat : /\ strided = RangeLength(offset, NumRemote, step)
                             /\ \A t \in Nat : t < strided <=> (offset + t * step) * P < total
  BY <1>1, <1>3, <1>4, StrideLength
<1>6. PICK all \in Nat : NumLocal = all - had /\ \A t \in Int : t < all <=> t * D < total
  <2>1. topo.pageR * topo.dDCP = D
    BY <1>1
  <2> QED BY <1>4, <2>1, OwnBlocks
<1>7. \A l \in Int : PageOf(d, l, 0) = (had + l) * D + dr
  BY <1>1, <1>2, <1>4, PageOfBlock
<1>8. L \in Int /\ L \in 0 .. all - had - 1 /\ (had + L) * D + dr < total
  BY <1>4, <1>6, <1>7
<1>9. had > 0 => D = P \/ (all - 1) * D + dr < total
  <2> SUFFICES ASSUME had > 0, D # P PROVE (all - 1) * D + dr < total
    OBVIOUS
  <2>1. topo.dDCP > topo.pDCP /\ cached > 0
    BY <1>1, <1>4
  <2>2. ~(PageOf(d, NumLocal - 1, 0) >= pages)
    BY <2>1 DEF TailShort
  <2>3. NumLocal - 1 \in Int /\ had + (NumLocal - 1) = all - 1
    BY <1>6
  <2>4. PageOf(d, NumLocal - 1, 0) = (all - 1) * D + dr
    BY <1>7, <2>3
  <2>5. (all - 1) * D + dr \in Int
    OBVIOUS
  <2> QED BY <1>4, <2>2, <2>4, <2>5
<1>10. PICK n \in Nat : /\ n = IF NumLocal < strided THEN NumLocal ELSE strided
                        /\ L < n /\ strided - n = had
  <2>1. PICK n : n = IF all - had < strided THEN all - had ELSE strided
    OBVIOUS
  <2>2. dr \in 0 .. D - 1 /\ dr = offset * P + rest /\ D = step * P
    BY <1>1, <1>3
  <2>3. \A t \in Nat : t < strided <=> (offset + t * step) * P < total
    BY <1>5
  <2>4. \A t \in Int : t < all <=> t * D < total
    BY <1>6
  <2>5. n \in Nat /\ L < n /\ strided - n = had
    BY <1>8, <1>9, <2>1, <2>2, <2>3, <2>4, StrideSkipsCached
  <2> QED BY <1>6, <2>1, <2>5
<1>11. StrideMoves(d) = {<<j, 0, offset + (had + j) * step>> : j \in 0 .. n - 1}
  <2>1. StrideMoves(d) = {<<j, 0, offset + (strided - n + j) * step>> : j \in 0 .. n - 1}
    BY <1>1, <1>3, <1>5, <1>10 DEF StrideMoves
  <2> QED BY <1>10, <2>1
<1>12. WholeBlockDcp(d) = {rest}
  BY <1>3 DEF WholeBlockDcp
<1>13. (offset + (had + L) * step) * P + rest = (had + L) * D + dr
  <2>1. \A x \in Int : (offset + x * step) * P + rest = x * (step * P) + (offset * P + rest)
    OBVIOUS
  <2>2. had + L \in Int
    BY <1>8
  <2> QED BY <1>1, <1>3, <2>1, <2>2
<1>14. ASSUME NEW c \in 0 .. topo.pDCP - 1, NEW m \in Moves(d, c), m[1] = L
       PROVE  Brings(m, c) = (had + L) * D + dr
  <2>1. c = rest /\ m \in StrideMoves(d)
    BY <1>12, <1>14 DEF Moves
  <2>2. PICK j \in 0 .. n - 1 : m = <<j, 0, offset + (had + j) * step>>
    BY <1>11, <2>1
  <2>3. m[3] = offset + (had + L) * step
    BY <1>14, <2>2
  <2> QED BY <1>1, <1>13, <2>1, <2>3 DEF Brings
<1>15. PICK m : m = <<L, 0, offset + (had + L) * step>>
  OBVIOUS
<1>16. m \in StrideMoves(d)
  <2>1. L \in 0 .. n - 1
    BY <1>8, <1>10
  <2> QED BY <1>11, <1>15, <2>1
<1>17. rest \in 0 .. topo.pDCP - 1 /\ m \in Moves(d, rest)
  BY <1>1, <1>12, <1>16 DEF Moves
<1> QED BY <1>7, <1>8, <1>14, <1>15, <1>17 DEF PagesMatch

(* The head slot of a local block is filled with the head it stands for.     *)
LEMMA HeadsMatch ==
  ASSUME Inputs, NEW d \in DRanks, NEW s \in 0 .. DHeads - 1
  PROVE  LET whole == PHeads >= DHeads
             k == IF whole THEN HeadRank(d) \div (PHeads \div DHeads)
                  ELSE HeadRank(d) * (DHeads \div PHeads) + s \div PHeads
             head == IF whole
                     THEN k * PHeads + (HeadRank(d) % (PHeads \div DHeads)) * DHeads + s
                     ELSE k * PHeads + (s % PHeads)
         IN k \in HeadRanksRead(d) /\ head = HeadRank(d) * DHeads + s
<1>1. PICK p \in Nat \ {0}, g \in Nat \ {0} : p = PHeads /\ g = DHeads
  BY TopologySizes
<1>2. PICK h \in Nat : h = HeadRank(d)
  <2>1. topo.dDCP * DReplicas \in Nat \ {0} /\ d \in Nat
    BY TopologySizes DEF DRanks
  <2> QED BY <2>1, DivMod DEF HeadRank
<1>3. s \in Nat /\ s < g
  BY <1>1
<1>4. CASE p >= g
  <2>1. PICK q \in Nat \ {0} : q = p \div g /\ p = q * g
    BY <1>1, <1>4, TopologyFits
  <2>2. PICK k \in Nat, x \in 0 .. q - 1 : k = h \div q /\ x = h % q /\ h = k * q + x
    BY DivMod
  <2>3. k * (q * g) + x * g + s = (k * q + x) * g + s
    BY <1>3
  <2>4. k * p + x * g + s = h * g + s
    BY <2>1, <2>2, <2>3
  <2>5. k \in HeadRanksRead(d)
    BY <1>1, <1>2, <1>4, <2>1, <2>2 DEF HeadRanksRead
  <2> QED BY <1>1, <1>2, <1>4, <2>1, <2>2, <2>4, <2>5
<1>5. CASE ~(p >= g)
  <2>1. PICK inv \in Nat \ {0} : inv = g \div p /\ g = inv * p
    BY <1>1, <1>5, TopologyFits
  <2>2. PICK j \in Nat, x \in 0 .. p - 1 : j = s \div p /\ x = s % p /\ s = j * p + x
    BY <1>3, DivMod
  <2>3. j < inv
    <3> SUFFICES ASSUME ~(j < inv) PROVE FALSE
      OBVIOUS
    <3>1. inv * p <= j * p
      <4>1. CASE inv = j
        BY <4>1
      <4>2. CASE inv < j
        <5>1. inv * p + p <= j * p
          BY <4>2, Product
        <5>2. inv * p \in Int /\ j * p \in Int
          OBVIOUS
        <5> QED BY <5>1, <5>2
      <4> QED BY <4>1, <4>2
    <3>2. inv * p \in Int /\ j * p \in Int
      OBVIOUS
    <3> QED BY <1>3, <2>1, <2>2, <3>1, <3>2
  <2>4. (h * inv + j) * p + x = h * (inv * p) + (j * p + x)
    OBVIOUS
  <2>5. (h * inv + j) * p + x = h * g + s
    BY <2>1, <2>2, <2>4
  <2>6. HeadRanksRead(d) = {h * inv + i : i \in 0 .. inv - 1}
    BY <1>1, <1>2, <1>5, <2>1 DEF HeadRanksRead
  <2>7. h * inv + j \in HeadRanksRead(d)
    BY <2>3, <2>6
  <2> QED BY <1>1, <1>2, <1>5, <2>1, <2>2, <2>5, <2>7
<1> QED BY <1>4, <1>5

(* Every local block that reaches into the prompt gets its page. *)
LEMMA PagesArrive ==
  ASSUME Inputs, NEW d \in DRanks, ~empty, ~KnownFrontAligned, ~TailShort(d),
         NEW L \in 0 .. NumLocal - 1, NEW r \in 0 .. topo.pageR - 1, PageOf(d, L, r) < pages
  PROVE  PagesMatch(d, L, r)
<1>1. topo.pageR \in Nat \ {0} /\ cached \in Nat
  BY TopologySizes DEF Inputs
<1>2. CASE topo.pageR > 1
  BY <1>2, FragmentPages
<1>3. CASE topo.pageR = 1 /\ topo.pDCP > topo.dDCP
  <2>1. r = 0 /\ cached = 0
    BY <1>1, <1>3 DEF KnownFrontAligned
  <2> QED BY <1>3, <2>1, GatheredPages
<1>4. CASE topo.pageR = 1 /\ ~(topo.pDCP > topo.dDCP)
  <2>1. r = 0
    BY <1>4
  <2> QED BY <1>4, <2>1, StridedPages
<1> QED BY <1>1, <1>2, <1>3, <1>4

(* What has arrived of a decode rank's READs that all succeeded. *)
LEMMA ArrivedIsRight ==
  ASSUME Inputs, NEW d \in DRanks, Reads(d) \subseteq arrived,
         NEW L, NEW r, PagesMatch(d, L, r), NEW s \in 0 .. DHeads - 1
  PROVE  Written(d, L, r, s) = {<<PageOf(d, L, r), HeadRank(d) * DHeads + s>>}
<1> DEFINE whole == PHeads >= DHeads
           k == IF whole THEN HeadRank(d) \div (PHeads \div DHeads)
                ELSE HeadRank(d) * (DHeads \div PHeads) + s \div PHeads
           head == IF whole
                   THEN k * PHeads + (HeadRank(d) % (PHeads \div DHeads)) * DHeads + s
                   ELSE k * PHeads + (s % PHeads)
           Filling(c) == {m \in Moves(d, c) : m[1] = L /\ m[2] = r
                                              /\ <<d, RankId(k, c), r>> \in arrived}
<1>1. k \in HeadRanksRead(d) /\ head = HeadRank(d) * DHeads + s
  BY HeadsMatch
<1>2. Written(d, L, r, s) =
        UNION {{<<m[3] * topo.pDCP + c, head>> : m \in Filling(c)} : c \in 0 .. topo.pDCP - 1}
  BY DEF Written
<1> HIDE DEF k, head
<1>3. PICK c \in 0 .. topo.pDCP - 1 : \E m \in Moves(d, c) : m[1] = L /\ m[2] = r
  BY DEF PagesMatch
<1>4. PICK m : m \in Moves(d, c) /\ m[1] = L /\ m[2] = r
  BY <1>3
<1>5. m \in Filling(c)
  <2>1. <<d, RankId(k, c), m[2]>> \in {<<d, RankId(k, c), x[2]>> : x \in Moves(d, c)}
    BY <1>4
  <2>2. <<d, RankId(k, c), m[2]>> \in Reads(d)
    <3>1. PICK j \in HeadRanksRead(d) : j = k
      BY <1>1
    <3>2. PICK S : S = {<<d, RankId(j, c), x[2]>> : x \in Moves(d, c)}
      OBVIOUS
    <3>3. S \in {{<<d, RankId(i, e), x[2]>> : x \in Moves(d, e)} :
                    i \in HeadRanksRead(d), e \in 0 .. topo.pDCP - 1}
      BY <3>2
    <3>4. S \subseteq Reads(d)
      BY <3>3 DEF Reads
    <3> QED BY <2>1, <3>1, <3>2, <3>4
  <2> QED BY <1>4, <2>2
<1>6. \A e \in 0 .. topo.pDCP - 1 : \A x \in Filling(e) : x[3] * topo.pDCP + e = PageOf(d, L, r)
  BY DEF PagesMatch, Brings
<1> HIDE DEF Filling
<1> QED BY <1>1, <1>2, <1>5, <1>6

(* PulledRightButForTail: a pull that reports success has put into every     *)
(* local block the tokens and the heads it stands for, whatever the two      *)
(* topologies, the prompt's length and the cached prefix, but for the cases *)
(* that are known to fail (_read_blocks_for_req, dcp_seq_ratio_fragments and *)
(* the descriptors of add_remote_agent).                                    *)
THEOREM SuccessIsRight == KvSpec => []PulledRightButForTail
<1>1. KvInit => PullInv
  BY PullBegins
<1>2. PullInv /\ [KvNext]_kvVars => PullInv'
  BY PullStep
<1>3. PullInv => PulledRightButForTail
  <2> SUFFICES ASSUME PullInv, NEW d \in DRanks, Succeeded(d), ~TailShort(d),
                      NEW L \in 0 .. NumLocal - 1, NEW r \in 0 .. topo.pageR - 1,
                      NEW s \in 0 .. DHeads - 1, PageOf(d, L, r) < pages
               PROVE  Written(d, L, r, s) = {<<PageOf(d, L, r), HeadRank(d) * DHeads + s>>}
    BY DEF PulledRightButForTail, HasPrompt
  <2>1. Inputs /\ posted[d] = Reads(d) /\ Pending(d) = {} /\ posted[d] \cap broken = {}
    BY DEF PullInv, PullTypes, Succeeded
  <2>2. Reads(d) \subseteq arrived
    BY <2>1 DEF Pending
  <2>3. PagesMatch(d, L, r)
    BY <2>1, PagesArrive DEF Succeeded
  <2> QED BY <2>1, <2>2, <2>3, ArrivedIsRight
<1> QED BY <1>1, <1>2, <1>3, PTL DEF KvSpec
------------------------------------------------------------------------------
(* The pull for sliding-window layers.  Every list of blocks is some number  *)
(* of null blocks and then a run of places up to the last one (Lists): the   *)
(* cut to the window and the strip of null blocks keep that shape, and two  *)
(* runs that end together, paired from their ends, pair every place with    *)
(* itself.                                                                  *)

(* z null blocks and then the places from a to b - 1. *)
Lists(l, z, a, b) ==
  /\ l \in Seq(Int) /\ Len(l) = z + (b - a)
  /\ \A i \in 1 .. z + (b - a) : l[i] = IF i <= z THEN Null ELSE a + (i - z) - 1

(* The places to which the cut to the window reaches, of a run up to b. *)
Reach(c, b) == b - (BlocksOf(c, c.window) + 1)

(* What comes after the first k elements of a list. *)
LEMMA AfterFirst ==
  ASSUME NEW l \in Seq(Int), NEW k \in 0 .. Len(l)
  PROVE  LET s == SubSeq(l, k + 1, Len(l))
         IN s \in Seq(Int) /\ Len(s) = Len(l) - k /\ \A i \in 1 .. Len(l) - k : s[i] = l[k + i]
<1> DEFINE s == SubSeq(l, k + 1, Len(l))
<1> SUFFICES s \in Seq(Int) /\ Len(s) = Len(l) - k /\ \A i \in 1 .. Len(l) - k : s[i] = l[k + i]
  OBVIOUS
<1>1. CASE k = Len(l)
  <2>1. s = <<>> /\ Len(l) - k = 0
    BY <1>1
  <2> QED BY <2>1
<1>2. CASE k < Len(l)
  <2>1. k + 1 \in 1 .. Len(l) /\ Len(l) \in 1 .. Len(l)
    BY <1>2
  <2>2. \A i \in k + 1 .. Len(l) : l[i] \in Int
    OBVIOUS
  <2>3. SubSeq(l, k + 1, Len(l)) \in Seq(Int)
    BY <2>2, SubSeqProperties
  <2>4. Len(SubSeq(l, k + 1, Len(l))) = Len(l) - k
    BY <2>1, SubSeqProperties
  <2>5. \A i \in 1 .. Len(l) - k : SubSeq(l, k + 1, Len(l))[i] = l[k + i]
    BY <2>1, SubSeqProperties
  <2> QED BY <2>3, <2>4, <2>5
<1>3. k = Len(l) \/ k < Len(l)
  OBVIOUS
<1> HIDE DEF s
<1> QED BY <1>1, <1>2, <1>3

(* StripLeadingNull leaves the places. *)
LEMMA PlacesAreLeft ==
  ASSUME NEW l, NEW z \in Nat, NEW a \in Nat, NEW b \in Nat, a <= b, Lists(l, z, a, b)
  PROVE  Lists(StripLeadingNull(l), 0, a, b)
<1>1. l \in Seq(Int) /\ Len(l) = z + (b - a) /\ DOMAIN l = 1 .. z + (b - a)
  BY DEF Lists
<1>2. {i \in DOMAIN l : \A j \in 1 .. i : l[j] = Null} = 1 .. z
  <2>1. ASSUME NEW i \in DOMAIN l, \A j \in 1 .. i : l[j] = Null PROVE i <= z
    <3>1. i \in 1 .. z + (b - a) /\ l[i] = Null
      BY <1>1, <2>1
    <3> QED BY <3>1 DEF Lists, Null
  <2>2. ASSUME NEW i \in 1 .. z, NEW j \in 1 .. i PROVE i \in DOMAIN l /\ l[j] = Null
    <3>1. i \in 1 .. z + (b - a) /\ j \in 1 .. z + (b - a) /\ j <= z
      OBVIOUS
    <3> QED BY <1>1, <3>1 DEF Lists
  <2>3. \A i \in DOMAIN l : i \in Nat /\ i >= 1
    BY <1>1
  <2> QED BY <2>1, <2>2, <2>3
<1>3. Cardinality(1 .. z) = z
  <2>1. 1 \in Int /\ z \in Int
    OBVIOUS
  <2>2. Cardinality(1 .. z) = IF 1 > z THEN 0 ELSE z - 1 + 1
    BY <2>1, FS_Interval
  <2> QED BY <2>2
<1>4. StripLeadingNull(l) = SubSeq(l, z + 1, Len(l))
  <2>1. 1 + z = z + 1
    OBVIOUS
  <2> QED BY <1>2, <1>3, <2>1 DEF StripLeadingNull
<1>5. z \in 0 .. Len(l)
  BY <1>1
<1>6. /\ StripLeadingNull(l) \in Seq(Int) /\ Len(StripLeadingNull(l)) = b - a
      /\ \A i \in 1 .. b - a : StripLeadingNull(l)[i] = l[z + i]
  <2>1. Len(l) - z = b - a
    BY <1>1
  <2> QED BY <1>1, <1>4, <1>5, <2>1, AfterFirst
<1>7. ASSUME NEW i \in 1 .. b - a PROVE l[z + i] = a + i - 1
  <2>1. z + i \in 1 .. z + (b - a) /\ ~(z + i <= z) /\ a + ((z + i) - z) - 1 = a + i - 1
    OBVIOUS
  <2> QED BY <2>1 DEF Lists
<1>8. 0 + (b - a) = b - a /\ \A i \in 1 .. b - a : ~(i <= 0) /\ a + (i - 0) - 1 = a + i - 1
  OBVIOUS
<1> QED BY <1>6, <1>7, <1>8 DEF Lists

(* CutToWindow drops null blocks and places out of reach. *)
LEMMA CutKeepsReach ==
  ASSUME NEW c, BlocksOf(c, c.window) \in Nat,
         NEW l, NEW z \in Nat, NEW a \in Nat, NEW b \in Nat, a <= b, Lists(l, z, a, b)
  PROVE  /\ Larger(a, Reach(c, b)) \in Nat /\ Larger(a, Reach(c, b)) <= b
         /\ \E y \in Nat : Lists(CutToWindow(c, l), y, Larger(a, Reach(c, b)), b)
<1>1. PICK most \in Nat \ {0} : most = BlocksOf(c, c.window) + 1 /\ Reach(c, b) = b - most
  BY DEF Reach
<1>2. PICK n \in Nat : n = z + (b - a) /\ l \in Seq(Int) /\ Len(l) = n
  BY DEF Lists
<1>3. PICK s \in 0 .. n : s + 1 = Larger(1, n - most + 1)
                         /\ s = IF n > most THEN n - most ELSE 0
  <2>1. PICK s \in Int : s = IF n > most THEN n - most ELSE 0
    OBVIOUS
  <2>2. s \in 0 .. n
    BY <2>1
  <2>3. s + 1 = IF 1 > n - most + 1 THEN 1 ELSE n - most + 1
    BY <2>1
  <2> QED BY <2>1, <2>2, <2>3 DEF Larger
<1>4. CutToWindow(c, l) = SubSeq(l, s + 1, Len(l))
  BY <1>1, <1>2, <1>3 DEF CutToWindow
<1>5. PICK first \in Nat : first = Larger(a, b - most) /\ first <= b
  BY <1>1 DEF Larger
<1>6. PICK y \in Nat : /\ y = IF s <= z THEN z - s ELSE 0
                       /\ n - s = y + (b - first)
                       /\ s <= z => first = a
                       /\ s > z => first = a + (s - z)
  <2>1. PICK y \in Int : y = IF s <= z THEN z - s ELSE 0
    OBVIOUS
  <2>2. y \in Nat
    BY <2>1
  <2>3. first = IF a > b - most THEN a ELSE b - most
    BY <1>5 DEF Larger
  <2>4. (s <= z => first = a) /\ (s > z => first = a + (s - z))
    BY <1>2, <1>3, <2>3
  <2>5. n - s = y + (b - first)
    BY <1>2, <2>1, <2>4
  <2> QED BY <2>1, <2>2, <2>4, <2>5
<1>7. /\ CutToWindow(c, l) \in Seq(Int) /\ Len(CutToWindow(c, l)) = y + (b - first)
      /\ \A i \in 1 .. y + (b - first) : CutToWindow(c, l)[i] = l[s + i]
  <2>1. s \in 0 .. Len(l) /\ Len(l) - s = y + (b - first)
    BY <1>2, <1>6
  <2> QED BY <1>2, <1>4, <2>1, AfterFirst
<1>8. ASSUME NEW i \in 1 .. y + (b - first)
      PROVE  l[s + i] = IF i <= y THEN Null ELSE first + (i - y) - 1
  <2>1. s + i \in 1 .. z + (b - a)
    BY <1>2, <1>6
  <2>2. l[s + i] = IF s + i <= z THEN Null ELSE a + ((s + i) - z) - 1
    BY <2>1 DEF Lists
  <2>3. s + i <= z <=> i <= y
    BY <1>6
  <2>4. ~(i <= y) => a + ((s + i) - z) - 1 = first + (i - y) - 1
    BY <1>6
  <2> QED BY <2>2, <2>3, <2>4
<1>9. Lists(CutToWindow(c, l), y, first, b)
  BY <1>7, <1>8 DEF Lists
<1> QED BY <1>1, <1>5, <1>9

(* ExchangeClipped: a run of places with no null block before it. *)
LEMMA ClippedPlaces ==
  ASSUME NEW c, BlocksOf(c, c.window) \in Nat,
         NEW l, NEW z \in Nat, NEW a \in Nat, NEW b \in Nat, a <= b, Lists(l, z, a, b),
         c.swa \/ z = 0
  PROVE  Lists(ExchangeClipped(c, l), 0, IF c.swa THEN Larger(a, Reach(c, b)) ELSE a, b)
<1>1. CASE c.swa
  <2>1. PICK first \in Nat : first = Larger(a, Reach(c, b)) /\ first <= b
    BY CutKeepsReach
  <2>2. PICK y \in Nat : Lists(CutToWindow(c, l), y, first, b)
    BY <2>1, CutKeepsReach
  <2>3. Lists(StripLeadingNull(CutToWindow(c, l)), 0, first, b)
    BY <2>1, <2>2, PlacesAreLeft
  <2> QED BY <1>1, <2>1, <2>3 DEF ExchangeClipped
<1>2. CASE ~c.swa
  BY <1>2 DEF ExchangeClipped
<1> QED BY <1>1, <1>2

(* A block table: the blocks given up, then the others. *)
LEMMA TableLists ==
  ASSUME NEW c, NEW n, BlocksOf(c, n) \in Nat, NEW z \in 0 .. BlocksOf(c, n)
  PROVE  Lists(BlockList(c, n, z), z, z, BlocksOf(c, n))
<1>1. PICK b \in Nat : b = BlocksOf(c, n) /\ z \in Nat /\ z <= b
  OBVIOUS
<1>2. PICK l : l = BlockList(c, n, z)
  OBVIOUS
<1>3. l = [i \in 1 .. b |-> IF i <= z THEN Null ELSE i - 1]
  BY <1>1, <1>2 DEF BlockList
<1>4. \A i \in 1 .. b : (IF i <= z THEN Null ELSE i - 1) \in Int
  BY DEF Null
<1>5. l \in Seq(Int) /\ Len(l) = b
  BY <1>1, <1>3, <1>4
<1>6. z + (b - z) = b /\ \A i \in 1 .. b : z + (i - z) - 1 = i - 1
  BY <1>1
<1>7. \A i \in 1 .. b : l[i] = IF i <= z THEN Null ELSE z + (i - z) - 1
  BY <1>3, <1>6
<1> QED BY <1>1, <1>2, <1>5, <1>6, <1>7 DEF Lists

(* ToFill: the null blocks if they are listed, and what the cache lacks. *)
LEMMA FillLists ==
  ASSUME NEW c, NEW b \in Nat, NEW z \in 0 .. b, NEW h \in 0 .. b,
         z = Passed(c, Admitted(c)), h = c.hit \div c.block,
         Lists(DecodeBlocks(c), z, z, b)
  PROVE  Lists(ToFill(c), IF c.padded THEN z ELSE 0, Larger(z, h), b)
<1>1. PICK l : l = DecodeBlocks(c)
  OBVIOUS
<1>2. l \in Seq(Int) /\ Len(l) = b
  BY <1>1 DEF Lists
<1>3. PICK m \in 0 .. b : m = Larger(z, h) /\ z <= m
  BY DEF Larger
<1>4. PICK k \in 0 .. b : k = IF c.padded THEN z ELSE 0
  OBVIOUS
<1>5. PICK nulls : /\ nulls = IF c.padded THEN SubSeq(l, 1, z) ELSE <<>>
                 /\ nulls \in Seq(Int) /\ Len(nulls) = k
                 /\ \A i \in 1 .. k : nulls[i] = l[i]
  <2>1. /\ SubSeq(l, 1, z) \in Seq(Int) /\ Len(SubSeq(l, 1, z)) = z
        /\ \A i \in 1 .. z : SubSeq(l, 1, z)[i] = l[i]
    BY <1>2
  <2>2. <<>> \in Seq(Int) /\ Len(<<>>) = 0 /\ \A i \in 1 .. 0 : <<>>[i] = l[i]
    OBVIOUS
  <2>3. CASE c.padded
    BY <1>4, <2>1, <2>3
  <2>4. CASE ~c.padded
    <3>1. k = 0 /\ (IF c.padded THEN SubSeq(l, 1, z) ELSE <<>>) = <<>>
      BY <1>4, <2>4
    <3> QED BY <2>2, <3>1
  <2> QED BY <2>3, <2>4
<1>6. PICK rest : /\ rest = SubSeq(l, m + 1, Len(l))
                /\ rest \in Seq(Int) /\ Len(rest) = b - m
                /\ \A i \in 1 .. b - m : rest[i] = l[m + i]
  <2>1. m \in 0 .. Len(l) /\ Len(l) - m = b - m
    BY <1>2
  <2>2. PICK rest : rest = SubSeq(l, m + 1, Len(l))
    OBVIOUS
  <2>3. rest \in Seq(Int) /\ Len(rest) = b - m /\ \A i \in 1 .. b - m : rest[i] = l[m + i]
    BY <1>2, <2>1, <2>2, AfterFirst
  <2> QED BY <2>2, <2>3
<1>7. ToFill(c) = nulls \o rest
  BY <1>1, <1>3, <1>5, <1>6 DEF ToFill
<1>8. nulls \o rest \in Seq(Int) /\ Len(nulls \o rest) = k + (b - m)
  BY <1>5, <1>6
<1>9. /\ Len(nulls) = k /\ nulls \in Seq(Int) /\ Len(rest) = b - m /\ rest \in Seq(Int)
      /\ (\A i \in 1 .. Len(nulls) + Len(rest) :
            (nulls \o rest)[i] = IF i <= Len(nulls) THEN nulls[i] ELSE rest[i - Len(nulls)])
  <2>1. Len(nulls) = k /\ nulls \in Seq(Int) /\ Len(rest) = b - m /\ rest \in Seq(Int)
    BY <1>5, <1>6
  <2>2. \A i \in 1 .. Len(nulls) + Len(rest) :
          (nulls \o rest)[i] = IF i <= Len(nulls) THEN nulls[i] ELSE rest[i - Len(nulls)]
    BY <2>1, ConcatProperties
  <2> QED BY <2>1, <2>2
<1>10. ASSUME NEW i \in 1 .. k + (b - m)
      PROVE  (nulls \o rest)[i] = IF i <= k THEN Null ELSE m + (i - k) - 1
  <2>1. CASE i <= k
    <3>1. (nulls \o rest)[i] = l[i]
      <4>1. (nulls \o rest)[i] = nulls[i]
        BY <1>9, <2>1
      <4>2. i \in 1 .. k
        BY <2>1
      <4> QED BY <1>5, <4>1, <4>2
    <3>2. i \in 1 .. z + (b - z) /\ i <= z
      BY <1>4, <2>1
    <3> QED BY <1>1, <2>1, <3>1, <3>2 DEF Lists
  <2>2. CASE i > k
    <3>1. (nulls \o rest)[i] = rest[i - k]
      <4>1. i \in 1 .. Len(nulls) + Len(rest) /\ ~(i <= Len(nulls))
        BY <1>9, <2>2
      <4> QED BY <1>9, <4>1
    <3>2. i - k \in 1 .. b - m
      BY <2>2
    <3>3. (nulls \o rest)[i] = l[m + (i - k)]
      BY <1>6, <3>1, <3>2
    <3>4. m + (i - k) \in 1 .. z + (b - z) /\ ~(m + (i - k) <= z)
      BY <1>3, <3>2
    <3>5. l[m + (i - k)] = z + ((m + (i - k)) - z) - 1
      BY <1>1, <3>4 DEF Lists
    <3>6. z + ((m + (i - k)) - z) - 1 = m + (i - k) - 1 /\ ~(i <= k)
      BY <2>2
    <3>7. (nulls \o rest)[i] = m + (i - k) - 1
      BY <3>3, <3>5, <3>6
    <3> QED BY <3>6, <3>7
  <2>3. i <= k \/ i > k
    OBVIOUS
  <2> QED BY <2>1, <2>2, <2>3
<1>11. Lists(nulls \o rest, k, m, b)
  BY <1>8, <1>10 DEF Lists
<1> QED BY <1>3, <1>4, <1>7, <1>11

(* What lies up to a quotient that is rounded down. *)
LEMMA UpToQuotient ==
  ASSUME NEW n \in Nat, NEW M \in Nat \ {0}
  PROVE  n \div M \in Nat /\ \A x \in Int : x <= n \div M <=> x * M <= n
<1>1. PICK q \in Nat, e \in 0 .. M - 1 : q = n \div M /\ n = q * M + e
  BY DivMod
<1>2. ASSUME NEW x \in Int PROVE x <= q <=> x * M <= n
  <2>1. x * M \in Int /\ q * M \in Int
    OBVIOUS
  <2>2. CASE x = q
    BY <1>1, <2>1, <2>2
  <2>3. CASE x < q
    <3>1. x * M + M <= q * M
      BY <2>3, Product
    <3> QED BY <1>1, <2>1, <2>3, <3>1
  <2>4. CASE q < x
    <3>1. q * M + M <= x * M
      BY <2>4, Product
    <3> QED BY <1>1, <2>1, <2>4, <3>1
  <2> QED BY <2>2, <2>3, <2>4
<1> QED BY <1>1, <1>2

(* The blocks of a number of tokens, and those that are passed. *)
LEMMA BlockCounts ==
  ASSUME NEW c, ValidPull(c), NEW n \in Nat
  PROVE  /\ BlocksOf(c, n) \in Nat
         /\ \A x \in Int : x < BlocksOf(c, n) <=> x * c.block < n
         /\ Passed(c, n) \in Nat
         /\ \A x \in Int : x <= Passed(c, n) <=> x * c.block <= Larger(0, n - c.window + 1)
<1>1. PICK B \in Nat \ {0}, w \in Nat \ {0} : B = c.block /\ w = c.window
  BY DEF ValidPull
<1>2. PICK m \in Nat : m = Larger(0, n - w + 1)
  <2>1. PICK d \in Int : d = n - w + 1
    OBVIOUS
  <2>2. Larger(0, d) = (IF 0 > d THEN 0 ELSE d) /\ (IF 0 > d THEN 0 ELSE d) \in Nat
    BY DEF Larger
  <2> QED BY <2>1, <2>2
<1>3. BlocksOf(c, n) = CeilDiv(n, B) /\ Passed(c, n) = m \div B
  BY <1>1, <1>2 DEF BlocksOf, CeilDiv, Passed
<1>4. CeilDiv(n, B) \in Nat /\ \A x \in Int : x < CeilDiv(n, B) <=> x * B < n
  BY BelowCeiling
<1>5. m \div B \in Nat /\ \A x \in Int : x <= m \div B <=> x * B <= m
  BY UpToQuotient
<1> QED BY <1>1, <1>2, <1>3, <1>4, <1>5

(* The tokens that the two engines count. *)
LEMMA TokensCounted ==
  ASSUME NEW c, ValidPull(c)
  PROVE  /\ Admitted(c) \in Nat /\ Admitted(c) = IF c.swa THEN c.tokens - 1 ELSE c.tokens
         /\ Matched(c) = 0 => c.swa /\ c.hit = c.tokens - 1
         /\ Matched(c) # 0 => PromptComputed(c) = Admitted(c) /\ c.chunk < Admitted(c)
<1>1. PICK t \in Nat \ {0}, hit \in Nat, last \in Nat :
        t = c.tokens /\ hit = c.hit /\ last = c.chunk /\ hit <= t - 1 /\ last <= t - 1
  BY DEF ValidPull
<1>2. c.swa => (t > 1 => last < t - 1)
  BY <1>1 DEF ValidPull
<1>3. c.swa \in BOOLEAN
  BY DEF ValidPull
<1>4. CASE c.swa
  <2>1. t - hit > 0 /\ hit + (t - hit) >= t
    BY <1>1
  <2>2. Matched(c) = t - hit - 1
    BY <1>1, <1>4, <2>1 DEF Matched
  <2>3. Admitted(c) = hit + (t - hit - 1)
    BY <1>1, <2>2 DEF Admitted
  <2>4. Admitted(c) = t - 1
    BY <2>3
  <2>5. t > 1 => PromptComputed(c) = t - 1
    BY <1>1, <1>4 DEF PromptComputed
  <2>6. Matched(c) = 0 => hit = t - 1
    BY <2>2
  <2>7. Matched(c) # 0 => t > 1
    BY <1>1, <2>2
  <2> QED BY <1>1, <1>2, <1>4, <2>4, <2>5, <2>6, <2>7
<1>5. CASE ~c.swa
  <2>1. Matched(c) = t - hit
    BY <1>1, <1>5 DEF Matched
  <2>2. Admitted(c) = hit + (t - hit)
    BY <1>1, <2>1 DEF Admitted
  <2>3. Admitted(c) = t /\ PromptComputed(c) = t /\ Matched(c) # 0
    BY <1>1, <1>5, <2>1, <2>2 DEF PromptComputed
  <2> QED BY <1>1, <1>5, <2>3
<1> QED BY <1>3, <1>4, <1>5

(* The decode engine holds every block that it reads first: none is passed, *)
(* none is out of reach, and the cache has them all if nothing is pulled.   *)
LEMMA FirstReadsHeld ==
  ASSUME NEW c, ValidPull(c), NEW b, b = BlocksOf(c, Admitted(c)),
         NEW z, z = Passed(c, Admitted(c)), NEW h, h = c.hit \div c.block
  PROVE  /\ b \in Nat /\ z \in 0 .. b /\ h \in 0 .. b /\ BlocksOf(c, c.window) \in Nat
         /\ \A place \in FirstReads(c) :
              /\ place \in z .. b - 1 /\ Reach(c, b) <= place
              /\ Matched(c) = 0 => place < h
<1>1. PICK t \in Nat \ {0}, B \in Nat \ {0}, w \in Nat \ {0}, hit \in Nat :
        t = c.tokens /\ B = c.block /\ w = c.window /\ hit = c.hit /\ hit <= t - 1 /\ hit % B = 0
  BY DEF ValidPull
<1>2. ~c.swa => w > t
  BY <1>1 DEF ValidPull
<1>3. PICK n \in Nat : /\ n = Admitted(c)
                      /\ (n = t - 1 \/ (n = t /\ w > t))
                      /\ (Matched(c) = 0 => hit = t - 1)
  <2>1. /\ Admitted(c) \in Nat /\ Admitted(c) = IF c.swa THEN c.tokens - 1 ELSE c.tokens
        /\ Matched(c) = 0 => c.hit = c.tokens - 1
    BY TokensCounted
  <2>2. c.swa => Admitted(c) = t - 1
    BY <1>1, <2>1
  <2>3. ~c.swa => Admitted(c) = t /\ w > t
    BY <1>1, <1>2, <2>1
  <2> QED BY <1>1, <2>1, <2>2, <2>3
<1>4. /\ b \in Nat /\ \A x \in Int : x < b <=> x * B < n
      /\ z \in Nat /\ \A x \in Int : x <= z <=> x * B <= Larger(0, n - w + 1)
  <2>1. /\ BlocksOf(c, n) \in Nat /\ \A x \in Int : x < BlocksOf(c, n) <=> x * c.block < n
        /\ Passed(c, n) \in Nat
        /\ \A x \in Int : x <= Passed(c, n) <=> x * c.block <= Larger(0, n - c.window + 1)
    BY BlockCounts
  <2> QED BY <1>1, <1>3, <2>1
<1>5. PICK W \in Nat : W = BlocksOf(c, w) /\ \A x \in Int : x < W <=> x * B < w
  BY <1>1, BlockCounts
<1>6. h \in Nat /\ h * B = hit /\ h * B <= n
  <2>1. hit \div B \in Nat /\ hit = (hit \div B) * B + (hit % B)
    BY DivMod
  <2>2. PICK k \in Nat : k = hit \div B /\ hit = k * B + (hit % B)
    BY <2>1
  <2>3. h = k /\ k * B = hit
    BY <1>1, <2>2
  <2>4. hit <= n
    BY <1>1, <1>3
  <2> QED BY <2>3, <2>4
<1>7. z * B <= Larger(0, n - w + 1) /\ w <= W * B /\ n <= b * B
  <2>1. z <= z /\ ~(W < W) /\ ~(b < b) /\ z * B \in Int /\ W * B \in Int /\ b * B \in Int
    BY <1>4
  <2> QED BY <1>4, <1>5, <2>1
<1>8. Larger(0, n - w + 1) <= n
  BY DEF Larger
<1>9. \A x \in Nat : x * B <= n => x <= b
  <2> SUFFICES ASSUME NEW x \in Nat, x * B <= n, b < x PROVE FALSE
    BY <1>4
  <2>1. b * B + B <= x * B
    <3>1. b \in Int /\ x \in Int /\ B \in Nat
      BY <1>4
    <3> QED BY <3>1, Product
  <2>2. b * B \in Int /\ x * B \in Int
    BY <1>4
  <2> QED BY <1>7, <2>1, <2>2
<1>10. z <= b /\ h <= b
  <2>1. z * B \in Int /\ h * B \in Int /\ Larger(0, n - w + 1) \in Int
    BY <1>4, <1>6 DEF Larger
  <2>2. z * B <= n
    BY <1>7, <1>8, <2>1
  <2> QED BY <1>4, <1>6, <1>9, <2>2
<1>11. ASSUME NEW place \in FirstReads(c)
       PROVE  /\ place \in z .. b - 1 /\ b - (W + 1) <= place
              /\ Matched(c) = 0 => place < h
  <2>1. PICK q \in Int : q \in Larger(0, t - w) .. t - 2 /\ place = q \div B
    BY <1>1, <1>11 DEF FirstReads
  <2>2. q \in Nat /\ t - w <= q /\ q <= t - 2 /\ q < n
    <3>1. PICK d \in Int : d = t - w
      OBVIOUS
    <3>2. q >= (IF 0 > d THEN 0 ELSE d) /\ q <= t - 2
      <4>1. Larger(0, d) = (IF 0 > d THEN 0 ELSE d) /\ Larger(0, d) \in Int
        BY DEF Larger
      <4> QED BY <2>1, <3>1, <4>1
    <3>3. q >= 0 /\ q >= d
      BY <3>2
    <3>4. n = t - 1 \/ n = t
      BY <1>3
    <3> QED BY <3>1, <3>2, <3>3, <3>4
  <2>3. place \in Nat /\ \A x \in Int : x <= place <=> x * B <= q
    BY <2>1, <2>2, UpToQuotient
  <2>4. place < b
    <3>1. place <= place /\ place * B \in Int
      BY <2>3
    <3>2. place * B <= q
      BY <2>3, <3>1
    <3>3. place * B < n
      BY <2>2, <3>1, <3>2
    <3> QED BY <1>4, <2>3, <3>3
  <2>5. z <= place
    <3>1. Larger(0, n - w + 1) <= q
      <4>1. PICK d \in Int : d = n - w + 1
        OBVIOUS
      <4>2. d <= 0 \/ d <= t - w
        BY <1>3, <4>1
      <4>3. d <= q /\ 0 <= q
        BY <2>2, <4>2
      <4> QED BY <4>1, <4>3 DEF Larger
    <3>2. z * B \in Int /\ Larger(0, n - w + 1) \in Int
      BY <1>4 DEF Larger
    <3>3. z * B <= q
      BY <1>7, <2>2, <3>1, <3>2
    <3> QED BY <1>4, <2>3, <3>3
  <2>6. b - (W + 1) <= place
    <3> SUFFICES ASSUME (place + 1) + W < b PROVE FALSE
      BY <1>4, <2>3
    <3>1. ((place + 1) + W) * B < n
      BY <1>4, <2>3
    <3>2. ((place + 1) + W) * B = (place + 1) * B + W * B
      BY <2>3
    <3>3. (place + 1) * B \in Int /\ W * B \in Int
      BY <2>3
    <3>4. ~(place + 1 <= place)
      BY <2>3
    <3>5. (place + 1) * B > q
      <4>1. place + 1 \in Int
        BY <2>3
      <4>2. ~((place + 1) * B <= q)
        BY <2>3, <3>4, <4>1
      <4> QED BY <2>2, <3>3, <4>2
    <3>6. (place + 1) * B + W * B < n
      BY <3>1, <3>2
    <3>7. n <= t
      BY <1>3
    <3> QED BY <1>7, <2>2, <3>3, <3>5, <3>6, <3>7
  <2>7. ASSUME Matched(c) = 0 PROVE place < h
    <3>1. ~(h * B <= q)
      <4>1. hit = t - 1
        BY <1>3, <2>7
      <4>2. q < hit
        BY <2>2, <4>1
      <4> QED BY <1>6, <4>2
    <3> QED BY <1>6, <2>3, <3>1
  <2> QED BY <1>4, <2>3, <2>4, <2>5, <2>6, <2>7
<1>12. Reach(c, b) = b - (W + 1)
  BY <1>1, <1>5 DEF Reach
<1> QED BY <1>1, <1>4, <1>5, <1>6, <1>10, <1>11, <1>12

(* A pull reads each place it fills from the same place. *)
LEMMA ReadsPairUp ==
  ASSUME NEW c, ValidPull(c), Matched(c) # 0, NEW b, b = BlocksOf(c, Admitted(c)),
         NEW z, z = Passed(c, Admitted(c)), NEW h, h = c.hit \div c.block
  PROVE  LET m == Larger(z, h)
             first == IF c.swa THEN Larger(m, Reach(c, b)) ELSE m
         IN first \in Nat /\ BlockReads(c) = {<<x, x>> : x \in first .. b - 1}
<1>1. b \in Nat /\ z \in 0 .. b /\ h \in 0 .. b /\ BlocksOf(c, c.window) \in Nat
  BY FirstReadsHeld
<1>2. PICK n \in Nat : n = Admitted(c) /\ PromptComputed(c) = n /\ c.chunk \in Nat /\ c.chunk < n
  BY TokensCounted DEF ValidPull
<1>3. PICK p \in 0 .. z : p = Passed(c, c.chunk)
  <2>1. PICK p \in Nat : /\ p = Passed(c, c.chunk)
                         /\ (\A x \in Int : x <= p <=> x * c.block <= Larger(0, c.chunk - c.window + 1))
    BY <1>2, BlockCounts
  <2>2. \A x \in Int : x <= z <=> x * c.block <= Larger(0, n - c.window + 1)
    BY <1>2, BlockCounts
  <2>3. PICK B \in Nat, w \in Nat, last \in Nat : B = c.block /\ w = c.window /\ last = c.chunk
    BY DEF ValidPull
  <2>4. Larger(0, last - w + 1) <= Larger(0, n - w + 1)
    BY <1>2, <2>3 DEF Larger
  <2>5. /\ p * B \in Int /\ p <= p
        /\ Larger(0, last - w + 1) \in Int /\ Larger(0, n - w + 1) \in Int
    BY DEF Larger
  <2>6. p * B <= Larger(0, last - w + 1)
    BY <2>1, <2>3, <2>5
  <2>7. p * B <= Larger(0, n - w + 1)
    BY <2>4, <2>5, <2>6
  <2>8. p <= z
    BY <2>2, <2>3, <2>7
  <2> QED BY <1>1, <2>1, <2>8
<1>4. c.swa \/ z = 0
  <2> SUFFICES ASSUME ~c.swa PROVE z = 0
    OBVIOUS
  <2>1. PICK w \in Nat : w = c.window /\ n < w
    BY <1>2, TokensCounted DEF ValidPull
  <2>2. Larger(0, n - w + 1) = 0
    BY <2>1 DEF Larger
  <2>3. z <= z /\ z \in Int
    BY <1>1
  <2>4. z * c.block <= 0
    BY <1>2, <2>1, <2>2, <2>3, BlockCounts
  <2>5. PICK B \in Nat \ {0} : B = c.block
    BY DEF ValidPull
  <2>6. ~(1 <= z)
    BY <1>2, <2>1, <2>2, <2>5, BlockCounts
  <2> QED BY <1>1, <2>6
<1>5. PICK m \in 0 .. b : m = Larger(z, h) /\ z <= m
  BY <1>1 DEF Larger
<1>6. PICK a \in 0 .. b : a = IF c.swa THEN Larger(p, Reach(c, b)) ELSE p
  BY <1>1, <1>3 DEF Larger, Reach
<1>7. PICK first \in a .. b : first = IF c.swa THEN Larger(m, Reach(c, b)) ELSE m
  BY <1>1, <1>3, <1>5, <1>6 DEF Larger, Reach
<1>8. Lists(RemoteBlocks(c), 0, a, b)
  <2>1. p \in 0 .. b /\ p \in Nat /\ p <= b
    BY <1>1
  <2>2. Lists(BlockList(c, n, p), p, p, b)
    BY <1>1, <1>2, <2>1, TableLists
  <2>3. c.swa \/ p = 0
    BY <1>1, <1>4
  <2>4. Lists(ExchangeClipped(c, BlockList(c, n, p)), 0, a, b)
    BY <1>1, <1>6, <2>1, <2>2, <2>3, ClippedPlaces
  <2> QED BY <1>2, <1>3, <2>4 DEF RemoteBlocks
<1>9. Lists(LocalBlocks(c), 0, first, b)
  <2>1. Lists(DecodeBlocks(c), z, z, b)
    BY <1>1, TableLists DEF DecodeBlocks
  <2>2. PICK k \in Nat : k = (IF c.padded THEN z ELSE 0) /\ (c.swa \/ k = 0)
    BY <1>1, <1>4
  <2>3. Lists(ToFill(c), k, m, b)
    BY <1>1, <1>5, <2>1, <2>2, FillLists
  <2>4. m \in Nat /\ m <= b
    BY <1>1
  <2>5. Lists(ExchangeClipped(c, ToFill(c)), 0, first, b)
    BY <1>1, <1>7, <2>2, <2>3, <2>4, ClippedPlaces
  <2> QED BY <2>5 DEF LocalBlocks
<1>10. PICK local \in Seq(Int), remote \in Seq(Int) :
         /\ local = LocalBlocks(c) /\ remote = RemoteBlocks(c)
         /\ Len(local) = b - first /\ Len(remote) = b - a
         /\ (\A i \in 1 .. b - first : local[i] = first + i - 1)
         /\ (\A i \in 1 .. b - a : remote[i] = a + i - 1)
  <2>1. \A l : \A s \in 0 .. b : Lists(l, 0, s, b) =>
          /\ l \in Seq(Int) /\ Len(l) = b - s
          /\ (\A i \in 1 .. b - s : l[i] = s + i - 1)
    <3> SUFFICES ASSUME NEW l, NEW s \in 0 .. b, Lists(l, 0, s, b)
                 PROVE  /\ l \in Seq(Int) /\ Len(l) = b - s
                        /\ (\A i \in 1 .. b - s : l[i] = s + i - 1)
      OBVIOUS
    <3>1. /\ 0 + (b - s) = b - s
          /\ (\A i \in 1 .. b - s : ~(i <= 0) /\ s + (i - 0) - 1 = s + i - 1)
      BY <1>1
    <3> QED BY <3>1 DEF Lists
  <2>2. a \in 0 .. b /\ first \in 0 .. b
    BY <1>1
  <2> QED BY <1>8, <1>9, <2>1, <2>2
<1>11. Smaller(b - first, b - a) = b - first
  BY <1>1 DEF Smaller
<1>12. BlockReads(c) = {<<local[j], remote[(b - a) - (b - first) + j]>> : j \in 1 .. b - first}
  BY <1>10, <1>11 DEF BlockReads
<1>13. \A j \in 1 .. b - first :
         local[j] = first + j - 1 /\ remote[(b - a) - (b - first) + j] = first + j - 1
  <2> SUFFICES ASSUME NEW j \in 1 .. b - first
               PROVE  local[j] = first + j - 1 /\ remote[(b - a) - (b - first) + j] = first + j - 1
    OBVIOUS
  <2>1. a \in Int /\ first \in Int /\ b \in Int /\ a <= first
    BY <1>1
  <2>2. PICK i \in Int : i = (b - a) - (b - first) + j
    BY <2>1
  <2>3. i = (first - a) + j
    BY <2>1, <2>2
  <2>4. i \in 1 .. b - a /\ a + i - 1 = first + j - 1
    BY <2>1, <2>3
  <2> QED BY <1>10, <2>2, <2>4
<1>14. BlockReads(c) = {<<first + j - 1, first + j - 1>> : j \in 1 .. b - first}
  BY <1>12, <1>13
<1>15. {<<first + j - 1, first + j - 1>> : j \in 1 .. b - first} = {<<x, x>> : x \in first .. b - 1}
  <2>1. b \in Int /\ first \in Int
    BY <1>1
  <2>2. ASSUME NEW j \in 1 .. b - first PROVE first + j - 1 \in first .. b - 1
    BY <2>1
  <2>3. ASSUME NEW x \in first .. b - 1
        PROVE  x - first + 1 \in 1 .. b - first /\ first + (x - first + 1) - 1 = x
    BY <2>1
  <2> QED BY <2>2, <2>3
<1>16. first \in Nat
  BY <1>1
<1>17. BlockReads(c) = {<<x, x>> : x \in first .. b - 1}
  BY <1>14, <1>15
<1> QED BY <1>5, <1>7, <1>16, <1>17

(* What the prefill engine lists when nothing is pulled. *)
LEMMA RemoteIsList ==
  ASSUME NEW c, ValidPull(c), Matched(c) = 0
  PROVE  Len(RemoteBlocks(c)) \in Nat
<1>1. c.swa
  BY TokensCounted
<1>2. PICK n \in Nat, last \in Nat, B \in Nat \ {0}, w \in Nat \ {0} :
        n = PromptComputed(c) /\ last = c.chunk /\ B = c.block /\ w = c.window /\ last < n
  BY DEF ValidPull, PromptComputed
<1>3. PICK p \in Nat : /\ p = Passed(c, last)
                       /\ (\A x \in Int : x <= p <=> x * B <= Larger(0, last - w + 1))
  BY <1>2, BlockCounts
<1>4. PICK b \in Nat : b = BlocksOf(c, n) /\ (\A x \in Int : x < b <=> x * B < n)
  BY <1>2, BlockCounts
<1>5. p < b
  <2>1. p <= p /\ p * B \in Int /\ Larger(0, last - w + 1) <= last /\ Larger(0, last - w + 1) \in Int
    BY DEF Larger
  <2>2. p * B <= Larger(0, last - w + 1)
    BY <1>3, <2>1
  <2>3. p * B < n
    BY <1>2, <2>1, <2>2
  <2> QED BY <1>4, <2>3
<1>6. BlocksOf(c, c.window) \in Nat
  BY <1>2, BlockCounts
<1>7. Lists(BlockList(c, n, p), p, p, b)
  BY <1>4, <1>5, TableLists
<1>8. PICK first \in Nat : Lists(ExchangeClipped(c, BlockList(c, n, p)), 0, first, b)
  <2>1. PICK first \in Nat : first = Larger(p, Reach(c, b)) /\ first <= b
    <3>1. p <= b
      BY <1>5
    <3>2. Larger(p, Reach(c, b)) \in Nat /\ Larger(p, Reach(c, b)) <= b
      BY <1>6, <1>7, <3>1, CutKeepsReach
    <3> QED BY <3>2
  <2>2. Lists(ExchangeClipped(c, BlockList(c, n, p)), 0,
              IF c.swa THEN Larger(p, Reach(c, b)) ELSE p, b)
    BY <1>1, <1>5, <1>6, <1>7, ClippedPlaces
  <2> QED BY <1>1, <2>1, <2>2
<1> QED BY <1>2, <1>3, <1>8 DEF RemoteBlocks, Lists

(* WindowPulled: a pull for sliding-window layers fills every block that the *)
(* first decode reads and the cache lacks from the same place of the prompt, *)
(* and writes nothing else, whatever the prompt, the block, the window, the  *)
(* cached prefix and the prefill's last step (get_num_new_matched_tokens,    *)
(* get_exchange_clipped_blocks, _read_blocks_for_req).                       *)
THEOREM WindowIsPulled == WindowSpec => []WindowPulled
<1>1. ASSUME NEW c, ValidPull(c) PROVE WindowComplete(c)
  <2>1. PICK b, z, h : b = BlocksOf(c, Admitted(c)) /\ z = Passed(c, Admitted(c))
                      /\ h = c.hit \div c.block
    OBVIOUS
  <2>2. /\ b \in Nat /\ z \in 0 .. b /\ h \in 0 .. b
        /\ (\A place \in FirstReads(c) : /\ place \in z .. b - 1 /\ Reach(c, b) <= place
                                        /\ (Matched(c) = 0 => place < h))
    BY <1>1, <2>1, FirstReadsHeld
  <2>3. ASSUME NEW place \in FirstReads(c) PROVE place \in ToSet(DecodeBlocks(c))
    <3>1. Lists(DecodeBlocks(c), z, z, b)
      BY <2>1, <2>2, TableLists DEF DecodeBlocks
    <3>2. DecodeBlocks(c) \in Seq(Int) /\ Len(DecodeBlocks(c)) = b
      BY <2>2, <3>1 DEF Lists
    <3>3. place \in z .. b - 1
      BY <2>2, <2>3
    <3>4. place + 1 \in 1 .. z + (b - z) /\ ~(place + 1 <= z)
          /\ z + ((place + 1) - z) - 1 = place
      BY <2>2, <3>3
    <3>5. DecodeBlocks(c)[place + 1] = place
      BY <3>1, <3>4 DEF Lists
    <3>6. place + 1 \in DOMAIN DecodeBlocks(c)
      BY <2>2, <3>2, <3>3
    <3> QED BY <3>5, <3>6 DEF ToSet
  <2>4. CASE Matched(c) = 0
    <3>1. Len(LocalBlocks(c)) = 0
      BY <2>4 DEF LocalBlocks
    <3>2. Len(RemoteBlocks(c)) \in Nat
      BY <1>1, <2>4, RemoteIsList
    <3>3. 1 .. Smaller(Len(LocalBlocks(c)), Len(RemoteBlocks(c))) = {}
      BY <3>1, <3>2 DEF Smaller
    <3>4. BlockReads(c) = {}
      BY <3>3 DEF BlockReads
    <3> QED BY <2>1, <2>2, <2>3, <2>4, <3>4 DEF WindowComplete
  <2>5. CASE Matched(c) # 0
    <3>1. PICK m, first : m = Larger(z, h) /\ first = IF c.swa THEN Larger(m, Reach(c, b)) ELSE m
      OBVIOUS
    <3>2. first \in Nat /\ BlockReads(c) = {<<x, x>> : x \in first .. b - 1}
      BY <1>1, <2>1, <2>5, <3>1, ReadsPairUp
    <3>3. ASSUME NEW read \in BlockReads(c) PROVE read[1] = read[2] /\ read[1] # Null
      BY <2>2, <3>2 DEF Null
    <3>4. ASSUME NEW place \in FirstReads(c), ~(place < h) PROVE <<place, place>> \in BlockReads(c)
      <4>1. place \in z .. b - 1 /\ Reach(c, b) <= place
        BY <2>2, <3>4
      <4>2. m <= place
        BY <2>2, <3>1, <3>4, <4>1 DEF Larger
      <4>3. first <= place
        BY <3>1, <4>1, <4>2 DEF Larger
      <4>4. place \in first .. b - 1
        BY <2>2, <3>2, <4>1, <4>3
      <4> QED BY <3>2, <4>4
    <3> QED BY <2>1, <2>3, <3>3, <3>4 DEF WindowComplete
  <2> QED BY <2>4, <2>5
<1>2. WindowInit => WindowPulled
  BY <1>1, PullsAssumption DEF WindowInit, WindowPulled
<1>3. WindowPulled /\ [UNCHANGED pull]_pull => WindowPulled'
  BY DEF WindowPulled, WindowComplete
<1> QED BY <1>2, <1>3, PTL DEF WindowSpec
==============================================================================
