------------------------------ MODULE AsyncDecode ------------------------------
(***************************************************************************)
(* Speculative decoding under asynchronous scheduling: the scheduler        *)
(* (NeuronAsyncScheduler, vllm_neuron/vllm/core/scheduler.py) plans a step  *)
(* while the one before it is on the device, and counts all its draft       *)
(* tokens as accepted; the worker (vllm_neuron/vllm/worker/                 *)
(* neuron_model_runner.py) keeps the device outputs of one step, feeds them *)
(* to the next, and takes the drafts that step rejected off the positions   *)
(* on the device (functional/spec_decode_correction.py).                    *)
(*                                                                         *)
(* A token is known by its index in its sequence, so an input is right when *)
(* the token fed at a position has that index and is the last one the model *)
(* has produced.  Prompts are prefilled in one step.  Not modelled:         *)
(* preemption, a decode pool fed by a KV connector, data parallelism, and   *)
(* what a step whose rows differ in width computes.                         *)
(***************************************************************************)
EXTENDS RejectionSampling

CONSTANTS
  Request,      (* requests                                                 *)
  Prompt,       (* [Request -> num_prompt_tokens]                           *)
  MaxTokens,    (* [Request -> max_tokens]                                  *)
  MaxModelLen,  (* max_model_len                                            *)
  NumSpec       (* num_spec_tokens                                          *)

ASSUME DecodeAssumption ==
  /\ Prompt \in [Request -> Nat \ {0}]
  /\ MaxTokens \in [Request -> Nat \ {0}]
  /\ MaxModelLen \in Nat
  /\ \A r \in Request : Prompt[r] < MaxModelLen
  /\ NumSpec \in Nat \ {0}
  /\ IsFiniteSet(Request)

VARIABLES
  phase,        (* of a request: "waiting", "running" or "finished"         *)
  computed,     (* num_computed_tokens                                      *)
  known,        (* num_tokens: prompt and delivered output                  *)
  reserved,     (* num_output_placeholders                                  *)
  drafting,     (* requests whose spec_token_ids are placeholders           *)
  specOff,      (* requests with _async_spec_disabled                       *)
  queue,        (* the batch queue of the engine, oldest step first         *)
  last,         (* async_execution_buffer: the outputs of the last step run *)
  cache,        (* _async_spec_transition_full_draft_cache: the token a     *)
                (* request's row begins with, 0 when it has no row          *)
  end,          (* index of the last token the model has produced           *)
  fed,          (* what the last step run fed each of its requests          *)
  apart         (* history: a step ran some of whose requests had come to   *)
                (* the end of speculation and some had not                  *)

schedVars == <<phase, computed, known, reserved, drafting, specOff>>
workerVars == <<last, cache, end, fed, apart>>
decodeVars == <<schedVars, queue, workerVars>>

(* max_concurrent_batches, which upstream sets to 2 for async scheduling.    *)
QueueDepth == 2

DecodeInit ==
  /\ phase = [r \in Request |-> "waiting"]
  /\ computed = [r \in Request |-> 0]
  /\ known = [r \in Request |-> Prompt[r]]
  /\ reserved = [r \in Request |-> 0]
  /\ drafting = {} /\ specOff = {}
  /\ queue = <<>>
  /\ last = [rows |-> <<>>, spec |-> FALSE, valid |-> <<>>, drafts |-> FALSE]
  /\ cache = [r \in Request |-> 0]
  /\ end = [r \in Request |-> Prompt[r] - 1]
  /\ fed = <<>>
  /\ apart = FALSE
------------------------------------------------------------------------------
(* The scheduler.                                                           *)

(* Mutant: as far as the step just planned would still fit. *)
LateMargin == MaxModelLen - 1 - NumSpec

(* safe_num_computed *)
Margin == MaxModelLen - 3 - 2 * NumSpec

(* Mutant: only the sampled token is counted. *)
CountSampled(draftTokens) == 1

(* What a step adds to num_output_placeholders. *)
CountPlaceholders(draftTokens) == 1 + draftTokens

(* The requests that shall not speculate any more, once disabled for good. *)
Off(reqs) == specOff \cup {r \in reqs : computed'[r] > Margin}

(* _update_after_schedule() of a step with draft[r] draft tokens and size[r] *)
(* tokens for the request r.                                                *)
Planned(reqs, size, draft) ==
  /\ computed' = [r \in Request |->
                    IF r \in reqs THEN computed[r] + size[r] ELSE computed[r]]
  /\ reserved' = [r \in Request |->
                    IF r \in reqs THEN reserved[r] + CountPlaceholders(draft[r])
                    ELSE reserved[r]]
  /\ specOff' = Off(reqs)
  /\ drafting' = (drafting \ reqs) \cup (reqs \ specOff')

(* A step as the worker gets it; valid are the tokens it will have produced. *)
Step(prefill, reqs, draft) ==
  [prefill |-> prefill, at |-> [r \in reqs |-> computed[r]], drafts |-> draft,
   live |-> {r \in Request : phase'[r] = "running"},
   done |-> FALSE, valid |-> [r \in reqs |-> 0]]

(* The prompt of one request; it has no step of its own once it is computed. *)
SchedulePrefill(r) ==
  /\ Len(queue) < QueueDepth
  /\ phase[r] = "waiting"
  /\ phase' = [phase EXCEPT ![r] = "running"]
  /\ Planned({r}, [q \in {r} |-> Prompt[q]], [q \in {r} |-> 0])
  /\ queue' = Append(queue, Step(TRUE, {r}, [q \in {r} |-> 0]))
  /\ UNCHANGED <<known, workerVars>>

(* num_tokens_with_spec + num_output_placeholders - num_computed_tokens,     *)
(* trimmed to max_model_len.                                                *)
NewTokens(r) ==
  LET wanted == known[r] + (IF r \in drafting THEN NumSpec ELSE 0)
                + reserved[r] - computed[r]
      room == MaxModelLen - 1 - computed[r]
  IN IF wanted < room THEN wanted ELSE room

(* The step in flight is sure to reach max_tokens. *)
WillFinish(r) ==
  reserved[r] > 0 /\ computed[r] + 2 - reserved[r] >= Prompt[r] + MaxTokens[r]

Decodable == {r \in Request : phase[r] = "running" /\ ~WillFinish(r) /\ NewTokens(r) > 0}

ScheduleDecode ==
  /\ Len(queue) < QueueDepth
  /\ Decodable # {}
  /\ LET size == [r \in Decodable |-> NewTokens(r)]
         draft == [r \in Decodable |-> size[r] - 1]
     IN /\ UNCHANGED phase
        /\ Planned(Decodable, size, draft)
        /\ queue' = Append(queue, Step(FALSE, Decodable, draft))
  /\ UNCHANGED <<known, workerVars>>

CanSchedule == Decodable # {} \/ \E r \in Request : phase[r] = "waiting"

(* The request has its last token: max_tokens, max_model_len, or (in eos) a  *)
(* stop token among the new ones.                                           *)
Stops(r, new, eos) ==
  \/ r \in eos
  \/ known[r] + new >= Prompt[r] + MaxTokens[r]
  \/ known[r] + new >= MaxModelLen

(* update_from_output() of the oldest step, which the engine waits for when  *)
(* it may not, or cannot, plan another.  Requests that have ended in the     *)
(* meantime are passed over.                                                *)
UpdateFromOutput ==
  /\ queue # <<>> /\ Head(queue).done
  /\ Len(queue) = QueueDepth \/ ~CanSchedule
  /\ LET s == Head(queue)
         alive == {r \in DOMAIN s.at : phase[r] = "running"}
         rejected(r) == 1 + s.drafts[r] - s.valid[r]
     IN \E eos \in SUBSET alive :
          LET ended == {r \in alive : Stops(r, s.valid[r], eos)}
              goOn == alive \ ended
          IN /\ phase' = [r \in Request |-> IF r \in ended THEN "finished" ELSE phase[r]]
             /\ known' = [r \in Request |-> IF r \in goOn THEN known[r] + s.valid[r]
                                            ELSE known[r]]
             /\ computed' = [r \in Request |-> IF r \in goOn THEN computed[r] - rejected(r)
                                               ELSE computed[r]]
             /\ reserved' = [r \in Request |->
                               IF r \in goOn THEN reserved[r] - rejected(r) - s.valid[r]
                               ELSE reserved[r]]
             /\ drafting' = drafting \ ended
             /\ UNCHANGED specOff
  /\ queue' = Tail(queue)
  /\ UNCHANGED workerVars
------------------------------------------------------------------------------
(* The worker.                                                              *)

Rows(l) == ToSet(l.rows)

(* _batch_composition_changed, from the request ids alone. *)
Changed(s) == last.rows # <<>> /\ Rows(last) # DOMAIN s.at

(* _drop_transition_spec_decode_if_cache_incomplete: a request with drafts   *)
(* has no cached row, and the step is run without speculation.              *)
Dropped(s) == Changed(s) /\ \E r \in DOMAIN s.at : s.drafts[r] > 0 /\ cache[r] = 0

DraftsRun(s) == IF Dropped(s) THEN [r \in DOMAIN s.at |-> 0] ELSE s.drafts
Speculates(s) == \E r \in DOMAIN s.at : DraftsRun(s)[r] > 0

(* Mutant: the row of the previous outputs that has the request's number in  *)
(* the batch of this step.                                                  *)
SameRow(r, order) ==
  LET i == CHOOSE j \in DOMAIN order : order[j] = r IN
  IF i \in DOMAIN last.rows THEN i ELSE 0

(* _remap_prev_sampled_by_req_id: the request's own row, 0 when it has none. *)
PrevRow(r, order) ==
  IF r \in Rows(last) THEN CHOOSE j \in DOMAIN last.rows : last.rows[j] = r ELSE 0

(* The drafts the previous step rejected, which the target model takes off   *)
(* the positions (correct_spec_decode_positions_and_slot_mapping); a request *)
(* that was not in a speculative step before this one is left alone.        *)
Correction(r, order) ==
  LET i == PrevRow(r, order) IN
  IF ~last.spec \/ i = 0 THEN 0 ELSE 1 + NumSpec - last.valid[i]

(* What the host arrays hold at the position the scheduler gave; nothing but *)
(* a placeholder (-1) beyond the last token.                                *)
OnHost(s, r) == IF s.at[r] <= end[r] THEN s.at[r] ELSE -1

(* The token fed first for a request of a decode step: from its cached row   *)
(* when the batch has changed, from the draft model's output when it has not *)
(* (the host arrays when that was skipped); without speculation from the     *)
(* sampler's output of the previous step, or from the host.                  *)
TokenFed(s, r) ==
  IF Speculates(s)
  THEN IF Changed(s) THEN cache[r]
       ELSE IF last.drafts THEN end[r] ELSE OnHost(s, r)
  ELSE IF r \in Rows(last) THEN end[r] ELSE OnHost(s, r)

(* Drafts that follow that token, and not the placeholders. *)
DraftsFed(s, r) == IF Changed(s) THEN cache[r] = end[r] ELSE last.drafts

Fed(s, order) ==
  [r \in DOMAIN s.at |->
     [position |-> s.at[r] - Correction(r, order), token |-> TokenFed(s, r),
      placeholders |-> DraftsRun(s)[r] > 0 /\ ~DraftsFed(s, r),
      right |-> end[r]]]

(* Positions so far that the draft model is not run after this step. *)
Past(s, r) == s.at[r] + (IF s.prefill THEN Prompt[r] ELSE 1 + DraftsRun(s)[r]) - 1
                >= MaxModelLen - NumSpec - 2 - (1 + NumSpec)

(* skip_propose *)
SkipsPropose(s) == (\E r \in DOMAIN s.at : Past(s, r)) \/ (~s.prefill /\ ~Speculates(s))

(* How many tokens the sampler may produce for a request: a target token for *)
(* every draft up to the first one rejected, and no placeholder is accepted. *)
MayProduce(s, r) == 1 .. (IF DraftsFed(s, r) THEN 1 + DraftsRun(s)[r] ELSE 1)

(* The widths of the rows of a step differ. *)
Mixed(s) == Speculates(s) /\ \E r \in DOMAIN s.at : DraftsRun(s)[r] = 0

Apart(s) ==
  \/ Mixed(s)
  \/ \E q, r \in DOMAIN s.at : Past(s, q) /\ ~Past(s, r)

(* The cached rows after the step: used up when the batch had changed, and   *)
(* replaced by what the draft model proposes.                               *)
RowsCached(s, end1) ==
  LET used == IF Changed(s) /\ Speculates(s) THEN DOMAIN s.at ELSE {} IN
  [r \in Request |->
     IF SkipsPropose(s) THEN (IF r \in used THEN 0 ELSE cache[r])
     ELSE IF r \in DOMAIN s.at THEN end1[r]
     ELSE IF r \in s.live THEN cache[r] ELSE 0]

(* execute_model() and sample_tokens() of the oldest step not yet run.  The  *)
(* rows of a batch that has changed may be in any order (condense).         *)
Execute ==
  \E i \in DOMAIN queue :
    LET s == queue[i]
        reqs == DOMAIN s.at
    IN /\ ~s.done /\ \A j \in 1 .. i - 1 : queue[j].done
       /\ \E order \in (IF Rows(last) = reqs THEN {last.rows} ELSE SetToSeqs(reqs)) :
          \E n \in [reqs -> 1 .. 1 + NumSpec] :
            /\ \A r \in reqs : n[r] \in MayProduce(s, r)
            /\ LET end1 == [r \in Request |->
                              IF r \in reqs THEN end[r] + n[r] ELSE end[r]]
               IN /\ end' = end1
                  /\ cache' = RowsCached(s, end1)
            /\ last' = [rows |-> order, spec |-> Speculates(s),
                        valid |-> [k \in DOMAIN order |-> n[order[k]]],
                        drafts |-> ~SkipsPropose(s)]
            /\ queue' = [queue EXCEPT ![i].done = TRUE, ![i].valid = n]
            /\ fed' = IF s.prefill THEN <<>> ELSE Fed(s, order)
       /\ apart' = (apart \/ Apart(s))
       /\ UNCHANGED schedVars

Schedule == ScheduleDecode \/ \E r \in Request : SchedulePrefill(r)
DecodeNext == Schedule \/ UpdateFromOutput \/ Execute
DecodeSpec == DecodeInit /\ [][DecodeNext]_decodeVars

(* The engine loop and the worker's busy loop. *)
FairDecodeSpec ==
  DecodeSpec /\ WF_decodeVars(Schedule \/ UpdateFromOutput) /\ WF_decodeVars(Execute)
------------------------------------------------------------------------------
(* Type correctness. *)
DecodeTypeOK ==
  /\ phase \in [Request -> {"waiting", "running", "finished"}]
  /\ {computed, known, reserved, cache, end} \subseteq [Request -> Nat]
  /\ drafting \subseteq Request /\ specOff \subseteq Request
  /\ Len(queue) <= QueueDepth
  /\ \A i \in DOMAIN queue :
       LET s == queue[i] IN
       /\ DOMAIN s.at \subseteq Request /\ DOMAIN s.at # {}
       /\ s.drafts \in [DOMAIN s.at -> 0 .. NumSpec]
  /\ ToSet(last.rows) \subseteq Request /\ IsInjective(last.rows)
  /\ apart \in BOOLEAN

(* No step is trimmed: a request has one token of a step or, with all its    *)
(* draft tokens, 1 + NumSpec, which are the only shapes the graphs were      *)
(* compiled for, and all of them below max_model_len                        *)
(* (NeuronAsyncScheduler._update_after_schedule).                            *)
FullShapes ==
  \A i \in DOMAIN queue : \A r \in DOMAIN queue[i].at :
    /\ queue[i].drafts[r] \in {0, NumSpec}
    /\ ~queue[i].prefill => queue[i].at[r] + 1 + queue[i].drafts[r] < MaxModelLen

(* The positions a decode step runs at and the token it begins with are      *)
(* those of the last token the model has produced, whatever was rejected in  *)
(* the step before, and whichever requests came, left or stopped speculating *)
(* between (correct_spec_decode_positions_and_slot_mapping,                  *)
(* _remap_prev_sampled_by_req_id, _maybe_swap_async_input_ids); and every    *)
(* draft it verifies was proposed after that token, none is a placeholder    *)
(* the scheduler reserved (skip_propose against _async_spec_disabled).       *)
InputsExact ==
  apart \/ \A r \in DOMAIN fed : /\ {fed[r].position, fed[r].token} = {fed[r].right}
                               /\ ~fed[r].placeholders

(* What the i-th step in flight holds of r: places for tokens, and tokens.   *)
Places(r, i) ==
  IF i \in DOMAIN queue /\ r \in DOMAIN queue[i].at THEN 1 + queue[i].drafts[r] ELSE 0
Produced(r, i) ==
  IF i \in DOMAIN queue /\ r \in DOMAIN queue[i].at THEN queue[i].valid[r] ELSE 0

(* The scheduler's books of a running request: its placeholders are those of *)
(* the steps in flight, which are QueueDepth at most, num_computed_tokens is *)
(* ahead of the delivered tokens by them, and the tokens delivered and in    *)
(* flight are the ones the model has produced, none lost and none twice      *)
(* (_update_after_schedule).                                                *)
BooksBalance ==
  \A r \in Request : phase[r] = "running" =>
    /\ reserved[r] = Places(r, 1) + Places(r, 2)
    /\ computed[r] = known[r] + reserved[r] - 1
    /\ known[r] + Produced(r, 1) + Produced(r, 2) = end[r] + 1

(* The rows the device's sampler gets and returns for a step that            *)
(* speculates, when the target model agrees with every draft.               *)
AllAgreed(s) ==
  LET reqs == SetToSeq(DOMAIN s.at)
      row(r) == [p \in 1 .. s.drafts[r] |-> 0]
      sampled == DeviceSample([b \in DOMAIN reqs |-> row(reqs[b])],
                              [b \in DOMAIN reqs |-> Append(row(reqs[b]), 0)])
  IN [r \in DOMAIN s.at |-> sampled[CHOOSE b \in DOMAIN reqs : reqs[b] = r]]

(* Every request of a step that speculates gets a token for each draft that  *)
(* was accepted and the bonus token: "can't vary draft count per request"    *)
(* (_update_after_schedule), "Add bonus token if all drafts accepted"        *)
(* (rejection_sampler).                                                     *)
BonusForEveryRow ==
  \A i \in DOMAIN queue : LET s == queue[i] IN
    (\E r \in DOMAIN s.at : s.drafts[r] > 0) =>
      \A r \in DOMAIN s.at : ValidCount(AllAgreed(s)[r]) = 1 + s.drafts[r]

(* Of the requests that were started all have come to their ends. *)
NoneRunning == \A r \in Request : phase[r] # "running"
==============================================================================
