------------------------------ MODULE EcTransfer ------------------------------
(***************************************************************************)
(* Encode / prefill-decode disaggregation: a vision engine (VE) encodes    *)
(* items into its encoder cache (EncoderCacheBlocks) and hands out         *)
(* locators, the block ids of an item; a prefill engine (PD) reads those   *)
(* blocks over NIXL, then their tags, and accepts an item whose tags all   *)
(* name it (vllm_neuron/vllm/ec_connector/neuron_nixl_ec_connector.py,     *)
(* worker/neuron_model_runner.py).  Nothing tells the VE that a read is in *)
(* progress: only its hold time and the tags stand between a reader and a  *)
(* block that is reused.                                                   *)
(*                                                                         *)
(* The i-th block of item h holds the part <<h, i>> of its embedding.  A   *)
(* READ moves the blocks one at a time, in any order, and is followed only *)
(* in whether a part, or a tag, is the right one.  The PD is followed      *)
(* through one load at a time; its own cache, into which the parts land,   *)
(* is not modelled.                                                        *)
(***************************************************************************)
EXTENDS EncoderCacheBlocks

CONSTANTS
  MaxLocators,   (* bound: locators travelling to the PD at a time           *)
  Nothing        (* what a block holds before it is first written            *)

ASSUME TransferAssumption ==
  /\ MaxLocators \in Nat \ {0}
  /\ Nothing \notin Item

VARIABLES
  content,   (* EncoderCacheBlocks.buffer of the VE: the part in each block  *)
  locators,  (* locators in the responses on their way to the PD             *)
  load,      (* locators whose embedding the PD is pulling, its load list    *)
  phase,     (* of wait_for_load: "idle", "embedding", "tags"                *)
  landed,    (* per item of the load: "unread", "right" or "wrong" part, by   *)
             (* position                                                     *)
  gotTag,    (* and "unread", "right" or "wrong" tag                         *)
  failing,   (* items whose READ failed                                      *)
  pdFailed   (* ECLoadFailure: the PD engine died                            *)

pullVars == <<locators, load, phase, landed, gotTag, failing, pdFailed>>
vars == <<cacheVars, content, pullVars>>

(* A locator: the item and its block ids.  reencoded is a history bit: the   *)
(* VE has allocated the item again since it issued the locator.             *)
Locator(h) == [item |-> h, blocks |-> slot[h], reencoded |-> FALSE]
NoneRead(l) == [i \in DOMAIN l.blocks |-> "unread"]
Got(isRight) == IF isRight THEN "right" ELSE "wrong"

TransferInit ==
  /\ Init
  /\ content = [blk \in Block |-> <<Nothing, 0>>]
  /\ locators = {} /\ load = {} /\ phase = "idle"
  /\ landed = <<>> /\ gotTag = <<>> /\ failing = {}
  /\ pdFailed = FALSE
------------------------------------------------------------------------------
(* The VE.                                                                  *)

Reencoded(ls) ==
  {[l EXCEPT !.reencoded = l.reencoded \/ slot'[l.item] # slot[l.item]] : l \in ls}

(* The VE's allocator runs as EncoderCacheBlocks has it; evictions come at   *)
(* the start of a step (_update_states), when no encode is in progress.     *)
VeAllocate ==
  /\ \/ \E h \in Item : AllocateBegin(h)
     \/ Sleep \/ Wake
     \/ AllocateEnd
  /\ locators' = Reencoded(locators)
  /\ load' = Reencoded(load)
  /\ UNCHANGED <<content, phase, landed, gotTag, failing, pdFailed>>

VeFree(h) ==
  /\ unwritten = {} /\ Free(h)
  /\ UNCHANGED <<content, pullVars>>

(* The encoder scatter-writes one block of an item it has reserved. *)
Encode(h, i) ==
  /\ ~failed /\ pending = NoItem
  /\ h \in unwritten /\ i \in DOMAIN slot[h]
  /\ content[slot[h][i]] # <<h, i>>
  /\ content' = [content EXCEPT ![slot[h][i]] = <<h, i>>]
  /\ UNCHANGED <<cacheVars, pullVars>>

(* embed_multimodal() has returned. *)
VeMarkWritten(h) ==
  /\ \A i \in DOMAIN slot[h] : content[slot[h][i]] = <<h, i>>
  /\ MarkWritten(h)
  /\ UNCHANGED <<content, pullVars>>

(* _attach_ec_locator(): a request's resident item is advertised once the    *)
(* step's encodes are done, and travels with its response.                  *)
AttachLocator(h) ==
  /\ ~failed /\ pending = NoItem /\ unwritten = {}
  /\ slot[h] # <<>>
  /\ Cardinality(locators) < MaxLocators
  /\ locators' = locators \cup {Locator(h)}
  /\ UNCHANGED <<cacheVars, content, load, phase, landed, gotTag, failing, pdFailed>>

VeTick == Tick /\ UNCHANGED <<content, pullVars>>
------------------------------------------------------------------------------
(* The PD.                                                                  *)

Loaded == {l.item : l \in load}
LocatorOf(h) == CHOOSE l \in load : l.item = h

(* The load list is keyed by the item (_need_load). *)
OnePerItem(ls) == \A k, l \in ls : k.item = l.item => k = l

(* start_load_caches(): the embedding READs of the step's load list. *)
StartLoad ==
  /\ ~pdFailed /\ phase = "idle"
  /\ \E ls \in SUBSET locators \ {{}} :
       /\ OnePerItem(ls)
       /\ load' = ls
       /\ locators' = locators \ ls
       /\ landed' = [h \in {l.item : l \in ls} |-> NoneRead(CHOOSE l \in ls : l.item = h)]
       /\ gotTag' = landed'
  /\ phase' = "embedding" /\ failing' = {}
  /\ UNCHANGED <<cacheVars, content, pdFailed>>

(* The READ of an item's embedding moves one block. *)
ReadEmbedding(h, i) ==
  /\ phase = "embedding"
  /\ h \in Loaded \ failing /\ i \in DOMAIN landed[h]
  /\ landed[h][i] = "unread"
  /\ landed' = [landed EXCEPT ![h][i] = Got(content[LocatorOf(h).blocks[i]] = <<h, i>>)]
  /\ UNCHANGED <<cacheVars, content, locators, load, phase, gotTag, failing, pdFailed>>

(* Mutant: the tag READ is issued along with the embedding READ. *)
TagsBeside == phase # "idle"

(* The tag READ is issued once the embeddings have landed. *)
TagsIssued == phase = "tags"

(* The READ of its tags moves one tag. *)
ReadTag(h, i) ==
  /\ TagsIssued
  /\ h \in Loaded \ failing /\ i \in DOMAIN gotTag[h]
  /\ gotTag[h][i] = "unread"
  /\ gotTag' = [gotTag EXCEPT ![h][i] = Got(tag[LocatorOf(h).blocks[i]] = h)]
  /\ UNCHANGED <<cacheVars, content, locators, load, phase, landed, failing, pdFailed>>

Outstanding(h) ==
  \/ phase = "embedding" /\ \E i \in DOMAIN landed[h] : landed[h][i] = "unread"
  \/ phase = "tags" /\ \E i \in DOMAIN gotTag[h] : gotTag[h][i] = "unread"

(* Mutant: a transfer that never ends is waited for. *)
NoBackstop(h) == FALSE

(* A transfer ends in an error state, or is abandoned at the deadline of     *)
(* _drain_recving.                                                          *)
ReadFails(h) ==
  /\ h \in Loaded \ failing /\ Outstanding(h)
  /\ failing' = failing \cup {h}
  /\ UNCHANGED <<cacheVars, content, locators, load, phase, landed, gotTag, pdFailed>>

(* No READ is in flight: _drain_recving returns. *)
Drained == \A h \in Loaded \ failing : ~Outstanding(h)

(* Phase 2: the tag READs of the items whose embedding landed. *)
StartTags ==
  /\ phase = "embedding" /\ Drained
  /\ phase' = "tags"
  /\ UNCHANGED <<cacheVars, content, locators, load, landed, gotTag, failing, pdFailed>>

(* _validate_pulled_tags() of one item. *)
TagsMatch(h) == \A i \in DOMAIN gotTag[h] : gotTag[h][i] = "right"

(* Phases 3 and 4, and the caller: any failed item raises ECLoadFailure,     *)
(* which kills the engine; else the prefill gathers what has landed.        *)
FinishLoad ==
  /\ phase = "tags" /\ Drained
  /\ pdFailed' = \E h \in Loaded : h \in failing \/ ~TagsMatch(h)
  /\ phase' = "idle" /\ load' = {} /\ failing' = {}
  /\ landed' = <<>> /\ gotTag' = <<>>
  /\ UNCHANGED <<cacheVars, content, locators>>
------------------------------------------------------------------------------
PdNext ==
  \/ StartLoad \/ StartTags \/ FinishLoad
  \/ \E h \in Item : ReadFails(h) \/ \E i \in 1 .. Need[h] : ReadEmbedding(h, i) \/ ReadTag(h, i)

TransferNext ==
  \/ VeAllocate \/ VeTick
  \/ \E h \in Item : VeFree(h) \/ VeMarkWritten(h) \/ AttachLocator(h)
  \/ \E h \in Item : \E i \in 1 .. Need[h] : Encode(h, i)
  \/ PdNext

TransferSpec == TransferInit /\ [][TransferNext]_vars

(* The PD polls, and a transfer that does not end is abandoned. *)
FairTransferSpec == TransferSpec /\ WF_vars(StartTags \/ FinishLoad \/ \E h \in Item : ReadFails(h))
------------------------------------------------------------------------------
(* Type correctness: a locator lists all the blocks of its item, and a load  *)
(* is in progress exactly while the PD waits for it.                        *)
TransferTypeOK ==
  /\ content \in [Block -> (Item \cup {Nothing}) \X (0 .. NumBlocks)]
  /\ \A l \in locators \cup load : l.blocks \in Seq(Block) /\ Len(l.blocks) = Need[l.item]
  /\ phase \in {"idle", "embedding", "tags"} /\ (phase = "idle") = (load = {})
  /\ failing \subseteq Loaded /\ pdFailed \in BOOLEAN

Whole(h) == \A i \in DOMAIN landed[h] : landed[h][i] = "right"

(* The items that wait_for_load is about to return as good. *)
Accepted ==
  {h \in Loaded \ failing : phase = "tags" /\ Drained /\ TagsMatch(h)}

(* What the tags are for: an item that the PD accepts is the whole embedding *)
(* of that item in order, however late its locator was used and whatever the *)
(* VE evicted and encoded meanwhile, as long as it did not encode that same  *)
(* item again (wait_for_load, EncoderCacheBlocks.allocate).                 *)
ReceiptSound == \A h \in Accepted : ~LocatorOf(h).reencoded => Whole(h)

(* The docstring of wait_for_load: a matching tag proves the embedding. *)
TagProvesEmbedding == \A h \in Accepted : Whole(h)

(* The PD engine does not die of an eviction that the hold time covers: when *)
(* validation kills it, a READ failed or an item was no longer, cached or    *)
(* held back, where its locator says (_validate_pulled_tags, free).         *)
DiesOnlyOfReuse ==
  [][pdFailed' /\ ~pdFailed =>
       \E l \in load : \/ l.item \in failing \/ l.reencoded
                       \/ l.blocks \notin {slot[l.item], held[l.item]}]_vars

(* A PD that has started to load finishes, with an answer or a failure.     *)
LoadEnds == phase # "idle" ~> phase = "idle"
==============================================================================
