--------------------------- MODULE SlidingWindowPull ---------------------------
(***************************************************************************)
(* The pull of a prompt for a model with sliding-window layers              *)
(* (NeuronNixlConnectorScheduler in vllm_neuron/vllm/kv_connector/          *)
(* neuron_nixl_connector.py): how many tokens the two engines count, which  *)
(* blocks each of them lists, and which is READ into which.                 *)
(*                                                                         *)
(* Lists of blocks are sequences of the blocks' places in the request, 0    *)
(* the first, or Null for the block that stands for those out of the window. *)
(* Block tables, the cut to the window and the engine's prefix cache are     *)
(* vLLM's (external).  Both engines have one decode-context rank.            *)
(*                                                                         *)
(* A pull c has: tokens, the prompt's length; block, the block size; window, *)
(* the reach of the layers at hand, the whole prompt for full attention;    *)
(* swa, whether the model has a sliding window in any of its layers; hit,    *)
(* tokens the decode engine finds in its own cache; chunk, where the last    *)
(* step of the prefill begins; padded, whether Null blocks are listed to be  *)
(* read into.                                                               *)
(***************************************************************************)
EXTENDS Integers, Sequences, FiniteSets, SequencesExt

CONSTANT Pulls

(* The prompt's last token is never found in a cache, of which a hit is of   *)
(* whole blocks; the last step of the prefill has a token.  Without          *)
(* sliding-window layers every window covers the prompt.                    *)
ValidPull(c) ==
  /\ c.tokens \in Nat \ {0} /\ c.block \in Nat \ {0} /\ c.window \in Nat \ {0}
  /\ c.swa \in BOOLEAN /\ c.padded \in BOOLEAN
  /\ c.hit \in 0 .. c.tokens - 1 /\ c.hit % c.block = 0
  /\ c.chunk \in 0 .. c.tokens - 1
  /\ IF c.swa THEN c.tokens > 1 => c.chunk < c.tokens - 1 ELSE c.window > c.tokens

ASSUME PullsAssumption == \A c \in Pulls : ValidPull(c)

VARIABLE pull   (* the pull that is computed *)

Null == -1
Larger(m, n) == IF m > n THEN m ELSE n
Smaller(m, n) == IF m < n THEN m ELSE n

BlocksOf(c, n) == (n + c.block - 1) \div c.block

(* Blocks that no token after the first n reads any more. *)
Passed(c, n) == Larger(0, n - c.window + 1) \div c.block

(* A request's blocks for n tokens, when passed were given up. *)
BlockList(c, n, passed) ==
  [i \in 1 .. BlocksOf(c, n) |-> IF i <= passed THEN Null ELSE i - 1]

(* The base's cut to the blocks a window may touch (blocks_per_sw). *)
CutToWindow(c, list) ==
  LET most == BlocksOf(c, c.window) + 1
  IN SubSeq(list, Larger(1, Len(list) - most + 1), Len(list))

(* Mutant: the base's cut as it is. *)
KeepLeadingNull(list) == list

(* _strip_leading_null_blocks *)
StripLeadingNull(list) ==
  SubSeq(list, 1 + Cardinality({i \in DOMAIN list : \A j \in 1 .. i : list[j] = Null}), Len(list))

(* get_exchange_clipped_blocks, also of a group with full attention. *)
ExchangeClipped(c, list) ==
  IF c.swa THEN StripLeadingNull(CutToWindow(c, list)) ELSE list
------------------------------------------------------------------------------
(* on_new_request of the prefill engine: the prompt it computes. *)
PromptComputed(c) == IF c.swa /\ c.tokens > 1 THEN c.tokens - 1 ELSE c.tokens

(* Mutant: the decode engine admits the whole prompt. *)
MatchAll(c) == c.tokens - c.hit

(* get_num_new_matched_tokens of the decode engine: the tokens it pulls. *)
Matched(c) ==
  LET count == c.tokens - c.hit
  IN IF c.swa /\ count > 0 /\ c.hit + count >= c.tokens THEN count - 1 ELSE count

Admitted(c) == c.hit + Matched(c)

(* What the decode engine holds once the request is admitted. *)
DecodeBlocks(c) == BlockList(c, Admitted(c), Passed(c, Admitted(c)))

(* What it wants filled: blocks its cache does not have, which come last;    *)
(* and those out of the window, which come first, if they are listed.       *)
ToFill(c) ==
  LET list == DecodeBlocks(c)
      passed == Passed(c, Admitted(c))
  IN (IF c.padded THEN SubSeq(list, 1, passed) ELSE <<>>)
       \o SubSeq(list, Larger(passed, c.hit \div c.block) + 1, Len(list))

RemoteBlocks(c) ==
  ExchangeClipped(c, BlockList(c, PromptComputed(c), Passed(c, c.chunk)))
LocalBlocks(c) == IF Matched(c) = 0 THEN <<>> ELSE ExchangeClipped(c, ToFill(c))

(* _read_blocks_for_req, for one decode-context rank on either side: the     *)
(* pairs of a local block and the one READ into it.                         *)
BlockReads(c) ==
  LET remote == RemoteBlocks(c)
      local == LocalBlocks(c)
      n == Smaller(Len(local), Len(remote))
  IN {<<local[j], remote[Len(remote) - n + j]>> : j \in 1 .. n}
------------------------------------------------------------------------------
(* The blocks the decode engine reads for its first token, which is the      *)
(* prompt's last one, computed again.                                       *)
FirstReads(c) == {p \div c.block : p \in Larger(0, c.tokens - c.window) .. c.tokens - 2}

(* Every block that the first decode reads is held, and was in the cache or  *)
(* is filled from the same block of the prompt; and nothing is READ into a   *)
(* block from any other, or into the null block all requests share.          *)
WindowComplete(c) ==
  /\ \A place \in FirstReads(c) :
       /\ place \in ToSet(DecodeBlocks(c))
       /\ place < c.hit \div c.block \/ <<place, place>> \in BlockReads(c)
  /\ \A read \in BlockReads(c) : read[1] = read[2] /\ read[1] # Null
------------------------------------------------------------------------------
(* A pull is computed at once: every initial state is one. *)
WindowInit == pull \in Pulls
WindowSpec == WindowInit /\ [][UNCHANGED pull]_pull

(* A pull for sliding-window layers fills what the decode engine reads first *)
(* and nothing that all requests share, whatever the prompt, the window, the *)
(* cached prefix and the prefill's last step.                                *)
WindowPulled == WindowComplete(pull)
==============================================================================
