------------------------------ MODULE MCTransfers ------------------------------
(* Small instances, for TLC, of the two transfers between engines: the pull  *)
(* of encoder embeddings (EcTransfer) and that of a request's KV cache       *)
(* (KvPull), and the arithmetic of a pull for sliding-window layers          *)
(* (SlidingWindowPull).  They share no state, so each behaviour exercises    *)
(* one of them and leaves the others in an initial state.                   *)
EXTENDS MCEcTransfer, MCKvPull, SlidingWindowPull

VARIABLE part   (* which of the three this behaviour is about *)

transferVars == <<vars, kvVars, part, pull>>

(* Every prompt up to MaxTokens: each last step of its prefill, each prefix  *)
(* of whole blocks in the decode engine's cache but not the whole prompt,    *)
(* and windows below and above it.  Without sliding-window layers the window *)
(* is the prompt.                                                            *)
MaxTokens == 11
PullRecords(tokens, block, swa) ==
  [tokens : {tokens}, block : {block}, swa : {swa},
   window : IF swa THEN 2 .. 12 ELSE {tokens + 1},
   hit : {h \in 0 .. tokens - 1 : h % block = 0},
   chunk : 0 .. tokens - 1,
   padded : BOOLEAN]
MCPulls ==
  {c \in UNION {PullRecords(t, s, swa) : t \in 1 .. MaxTokens, s \in 2 .. 4, swa \in BOOLEAN} :
     c.chunk < PromptComputed(c)}

TransfersInit ==
  /\ part \in {"embeddings", "kv", "window"}
  /\ WindowInit /\ (part # "window" => pull \in PullRecords(1, 2, FALSE) /\ ~pull.padded)
  /\ TransferInit
  /\ KvInit
  /\ part # "kv" => topo = Pair(1, 1, 1, 2, 2, 1) /\ pages = 1 /\ cached = 0 /\ empty

TransfersNext ==
  /\ \/ part = "embeddings" /\ TransferNext /\ UNCHANGED kvVars
     \/ part = "kv" /\ KvNext /\ UNCHANGED vars
  /\ UNCHANGED <<part, pull>>

(* The PD polls, and an engine of a pull that can go on does. *)
EcPolls == StartTags \/ FinishLoad \/ \E h \in Item : ReadFails(h)
PartGoesOn ==
  /\ \/ part = "embeddings" /\ EcPolls /\ UNCHANGED kvVars
     \/ part = "kv" /\ KvNext /\ UNCHANGED vars
  /\ UNCHANGED <<part, pull>>

TransfersSpec ==
  TransfersInit /\ [][TransfersNext]_transferVars /\ WF_transferVars(PartGoesOn)
------------------------------------------------------------------------------
(* Type correctness of the two parts with a state. *)
TransfersTypeOK == TransferTypeOK /\ KvTypeOK

(* No transfer blocks an engine for ever: a load of embeddings ends with an *)
(* answer or a failure, and a pull is reported by every decode rank and its *)
(* blocks are given up by every prefill rank.                               *)
TransfersEnd == LoadEnds /\ PullEnds
==============================================================================
