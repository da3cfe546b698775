--------------------------- MODULE RejectionSampling ---------------------------
(***************************************************************************)
(* Greedy rejection sampling, which verifies a batch of draft tokens        *)
(* against the target model's: the tensor version that runs inside the      *)
(* target's graph (vllm_neuron/nn/rejection_sampler.py), the loop on the    *)
(* host (vllm_neuron/vllm/sample/rejection_sampler.py), and what both are   *)
(* meant to compute.                                                        *)
(*                                                                         *)
(* drafts and targets have one row per request: row b of drafts the tokens  *)
(* proposed, row b of targets the target model's token after each of them,  *)
(* the bonus token last, so one more.  Both samplers get the rows end to    *)
(* end, and return rows of max_spec_len + 1 tokens, filled up with -1.      *)
(***************************************************************************)
EXTENDS Integers, Sequences, FiniteSets, FiniteSetsExt, SequencesExt

PlaceholderTokenId == -1

(* max_spec_len *)
MaxSpecLen(drafts) == Max({Len(drafts[b]) : b \in DOMAIN drafts})

(* A row of the result. *)
Filled(drafts, tokens) ==
  [p \in 1 .. MaxSpecLen(drafts) + 1 |->
     IF p <= Len(tokens) THEN tokens[p] ELSE PlaceholderTokenId]

(* cu_num_draft_tokens: the draft tokens of the first b requests. *)
CuNumDraftTokens(drafts, b) == Len(FlattenSeq(SubSeq(drafts, 1, b)))
------------------------------------------------------------------------------
(* On the device.  Position p of request b counts from 1.                   *)

(* Where they are in the flattened tensors, which are indexed up to the end. *)
Clamped(flat, i) == flat[IF i < Len(flat) THEN i ELSE Len(flat)]

DraftAt(drafts, b, p) ==
  IF p > Len(drafts[b]) THEN PlaceholderTokenId
  ELSE Clamped(FlattenSeq(drafts), CuNumDraftTokens(drafts, b - 1) + p)

(* Mutant: as if there were no bonus tokens between the requests. *)
TargetBehind(drafts, b) == CuNumDraftTokens(drafts, b - 1)

(* The target tokens before those of request b, a bonus token for each of    *)
(* the requests before it among them.                                       *)
TargetStart(drafts, b) == CuNumDraftTokens(drafts, b - 1) + (b - 1)

TargetAt(drafts, targets, b, p) ==
  IF p > Len(drafts[b]) THEN PlaceholderTokenId
  ELSE Clamped(FlattenSeq(targets), TargetStart(drafts, b) + p)

Matches(drafts, targets, b, p) ==
  p <= Len(drafts[b]) /\ DraftAt(drafts, b, p) = TargetAt(drafts, targets, b, p)

(* argmax over the mismatches, and a sentinel behind them. *)
FirstMismatch(drafts, targets, b) ==
  Min({p \in 1 .. MaxSpecLen(drafts) + 1 :
         p = MaxSpecLen(drafts) + 1 \/ ~Matches(drafts, targets, b, p)})

BonusToken(drafts, targets, b) ==
  FlattenSeq(targets)[CuNumDraftTokens(drafts, b) + b]

(* The columns beyond a shorter row's drafts do not match. *)
AllAccepted(drafts, targets, b) ==
  \A p \in 1 .. MaxSpecLen(drafts) : Matches(drafts, targets, b, p)

(* rejection_sampler() *)
DeviceSample(drafts, targets) ==
  [b \in DOMAIN drafts |->
     LET first == FirstMismatch(drafts, targets, b)
         n == Len(drafts[b])
     IN [p \in 1 .. MaxSpecLen(drafts) + 1 |->
           IF p = n + 1
           THEN IF AllAccepted(drafts, targets, b) THEN BonusToken(drafts, targets, b)
                ELSE PlaceholderTokenId
           ELSE IF p < first /\ p <= n THEN DraftAt(drafts, b, p)
           ELSE IF p = first /\ p <= n THEN TargetAt(drafts, targets, b, p)
           ELSE PlaceholderTokenId]]

(* _extract_last_accepted_token(), and the count it and the correction of    *)
(* the positions go by.                                                     *)
ValidCount(row) == Cardinality({p \in DOMAIN row : row[p] # PlaceholderTokenId})
LastAccepted(row) == row[IF ValidCount(row) = 0 THEN 1 ELSE ValidCount(row)]
------------------------------------------------------------------------------
(* On the host: _build_spec_decode_metadata(), which picks the rows of the   *)
(* logits, and _rejection_greedy_sample().                                  *)

(* cu_num_sampled_tokens *)
CuNumSampledTokens(drafts, b) == CuNumDraftTokens(drafts, b) + b

(* target_logits_indices: for every draft of every request, *)
TargetLogitsIndices(drafts) ==
  FlattenSeq([b \in DOMAIN drafts |->
    [p \in DOMAIN drafts[b] |-> CuNumSampledTokens(drafts, b - 1) + p]])

(* and bonus_logits_indices, for every request. *)
BonusLogitsIndex(drafts, b) == CuNumSampledTokens(drafts, b)

(* start_idx *)
StartIdx(drafts, b) == CuNumDraftTokens(drafts, b - 1)

(* The loop: a target token for every draft, up to the first that differs. *)
HostRow(drafts, targets, b) ==
  LET start == StartIdx(drafts, b)
      n == Len(drafts[b])
      target(p) == FlattenSeq(targets)[TargetLogitsIndices(drafts)[start + p]]
      agrees(p) == FlattenSeq(drafts)[start + p] = target(p)
      end == Max({p \in 0 .. n : \A i \in 1 .. p - 1 : agrees(i)})
      out == [p \in 1 .. end |-> target(p)]
  IN IF \A p \in 1 .. n : agrees(p)
     THEN Append(out, FlattenSeq(targets)[BonusLogitsIndex(drafts, b)]) ELSE out

HostSample(drafts, targets) ==
  [b \in DOMAIN drafts |-> Filled(drafts, HostRow(drafts, targets, b))]
------------------------------------------------------------------------------
(* What is meant: the drafts the target model would have produced itself,   *)
(* and one token of its own after them.                                     *)
Verified(draft, target) ==
  SubSeq(target, 1, Len(LongestCommonPrefix({draft, target})) + 1)

(* The host's sampler gives every request what the target model alone would *)
(* have produced, however many drafts each has (_rejection_greedy_sample).   *)
HostExact(drafts, targets) ==
  \A b \in DOMAIN drafts :
    HostSample(drafts, targets)[b] = Filled(drafts, Verified(drafts[b], targets[b]))

(* So does the device's, and the token it hands to the next step is the last *)
(* of them, for a row as wide as the widest, or one that is rejected before  *)
(* its end (rejection_sampler, _extract_last_accepted_token).                *)
DeviceExact(drafts, targets) ==
  \A b \in DOMAIN drafts :
    LET verified == Verified(drafts[b], targets[b])
        row == DeviceSample(drafts, targets)[b]
    IN Len(drafts[b]) = MaxSpecLen(drafts) \/ Len(verified) <= Len(drafts[b]) =>
         row = Filled(drafts, verified) /\ LastAccepted(row) = Last(verified)
==============================================================================
