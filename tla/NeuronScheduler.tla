--------------------------- MODULE NeuronScheduler ---------------------------
(***************************************************************************)
(* The scheduler of the Neuron platform plugin                             *)
(* (vllm_neuron/vllm/core/scheduler.py): a vLLM scheduler whose queues are *)
(* edited before, and restored after, every call of the base scheduler, so *)
(* that a batch is either one prefill or decodes only, no step admits more *)
(* than the KV cache can hold, and the producer of a disaggregated pair    *)
(* leaves its compute slot while its KV blocks are still being sent.       *)
(*                                                                         *)
(* Tokens are abstracted to steps: a prompt is PromptChunks[r] prefill     *)
(* chunks, the last one partial, and each output is one step; a step's KV  *)
(* is one unit of the pool.  The base scheduler, the engine loop, the      *)
(* grammar compiler and the KV transfer are outside the repository and     *)
(* modelled from what this code expects of them.                           *)
(***************************************************************************)
EXTENDS Integers, Sequences, FiniteSets, FiniteSetsExt, SequencesExt

CONSTANTS
  Request,           (* the requests                                         *)
  Role,              (* kv_role of the engine, "none" without KV transfer    *)
  MaxNumSeqs,        (* max_num_seqs                                         *)
  MaxModelLen,       (* max_model_len, in KV units                           *)
  KvPool,            (* KV units in the cache                                *)
  MaxInFlight,       (* batches scheduled and not yet processed: 1 = sync    *)
  PromptChunks,      (* [Request -> prefill chunks of the prompt]            *)
  MaxTokens,         (* [Request -> max_tokens]                              *)
  StructuredOutput,  (* requests that wait for a compiled grammar            *)
  RemotePrefill,     (* requests with do_remote_prefill (KV pulls)           *)
  RemoteDecode       (* requests with do_remote_decode (KV sends)            *)

ASSUME SchedulerAssumption ==
  /\ IsFiniteSet(Request)
  /\ Role \in {"none", "producer", "consumer", "both"}
  /\ MaxNumSeqs \in Nat \ {0}
  /\ MaxModelLen \in Nat \ {0}
  /\ KvPool \in Nat /\ KvPool >= MaxModelLen
  /\ MaxInFlight \in Nat \ {0}
  /\ PromptChunks \in [Request -> Nat \ {0}]
  /\ MaxTokens \in [Request -> Nat \ {0}]
  /\ \A r \in Request : PromptChunks[r] + MaxTokens[r] <= MaxModelLen
  /\ StructuredOutput \subseteq Request
  /\ RemotePrefill \subseteq Request
  /\ RemoteDecode \subseteq Request

VARIABLES
  life,       (* "new", "live", "finished" (blocks pinned by a transfer), "freed" *)
  waiting,    (* self.waiting: FIFO of requests without a blocked status     *)
  grammarQ,   (* skipped_waiting, the grammar waiters, in queue order        *)
  remoteKv,   (* skipped_waiting, the requests in WAITING_FOR_REMOTE_KVS     *)
  pullPending, (* requests whose do_remote_prefill is still set              *)
  running,    (* self.running                                                *)
  pendingKvSend, (* self._pending_kv_send, the send-lane                     *)
  computed,   (* request.num_computed_tokens                                 *)
  emitted,    (* output tokens of the request                                *)
  blocks,     (* KV units allocated to the request                           *)
  compiled,   (* requests whose grammar is ready                             *)
  xferDone,   (* transfers the worker has completed and not yet reported     *)
  received,   (* finished_recving_kv_req_ids of the base scheduler           *)
  inflight,   (* outputs scheduled, not processed: the requests each samples *)
  state,      (* self._state                                                 *)
  raised      (* schedule() raised RuntimeError: the engine is dead          *)

vars == <<life, waiting, grammarQ, remoteKv, pullPending, running, pendingKvSend,
          computed, emitted, blocks, compiled, xferDone, received, inflight,
          state, raised>>

(* Hardcoded: at most one prefill per batch. *)
MaxPrefillsPerBatch == 1

(* Requests the KV cache holds if each grows to max_model_len. *)
MaxKvConcurrent == KvPool \div MaxModelLen

Without(s, e) ==
  IF e \in ToSet(s) THEN RemoveAt(s, CHOOSE i \in DOMAIN s : s[i] = e) ELSE s

Init ==
  /\ life = [r \in Request |-> "new"]
  /\ waiting = <<>> /\ grammarQ = <<>>
  /\ remoteKv = {} /\ running = {} /\ pendingKvSend = {}
  /\ pullPending = RemotePrefill
  /\ computed = [r \in Request |-> 0]
  /\ emitted = [r \in Request |-> 0]
  /\ blocks = [r \in Request |-> 0]
  /\ compiled = {} /\ xferDone = {} /\ received = {}
  /\ inflight = <<>>
  /\ state = "IDLE"
  /\ raised = FALSE
------------------------------------------------------------------------------
(* Admission. *)

IsPrefill(r) == computed[r] < PromptChunks[r]
HasPrefillInRunning == \E r \in running : IsPrefill(r)
AtCapacity == Cardinality(running) >= MaxNumSeqs
KvInUse == Cardinality(running) + Cardinality(pendingKvSend)

(* Mutants: admission that forgets an ongoing prefill, or the KV cap.       *)
RoomIgnoringPrefill == ~AtCapacity /\ KvInUse < MaxKvConcurrent
RoomIgnoringKv == ~AtCapacity /\ ~HasPrefillInRunning

(* The capacity and the separation test that can_schedule() and step 3 share. *)
RoomForPrefill ==
  /\ ~AtCapacity
  /\ ~HasPrefillInRunning
  /\ KvInUse < MaxKvConcurrent

(* Mutant: draining with pop() and refilling from the wrong end. *)
HoldbackReversed == Reverse(waiting)

(* Step 1: the hold-back queue, drained from waiting in order. *)
Holdback == waiting

(* Step 2: the waiters handed back to the base scheduler's queue.  With     *)
(* MaxPrefillsPerBatch = 1 the restore loop stops after the head.           *)
Restored == IF Holdback # <<>> /\ RoomForPrefill THEN {Head(Holdback)} ELSE {}

ReadyGrammar == \E r \in ToSet(grammarQ) : r \in compiled
CanStartPrefill == (Restored # {} \/ ReadyGrammar) /\ RoomForPrefill

(* A pull schedules no local work: the base scheduler parks it with zero    *)
(* tokens.  Prompts are longer than the one token the connector holds back. *)
OnlyAsyncPulls == Restored # {} /\ Restored \subseteq pullPending

(* Mutant: the hold-back applied to pulls as well. *)
NeverKeepDecodes == FALSE

(* Step 3, branch taken instead of 3.2 on a pure consumer. *)
KeepDecodes == Role = "consumer" /\ grammarQ = <<>> /\ OnlyAsyncPulls

(* Mutant: only ongoing prefills hide the decodes, new ones do not. *)
HiddenForChunksOnly ==
  IF HasPrefillInRunning THEN {r \in running : ~IsPrefill(r)} ELSE {}

(* Step 3: the running requests hidden from the base scheduler. *)
Hidden ==
  IF HasPrefillInRunning THEN {r \in running : ~IsPrefill(r)}
  ELSE IF CanStartPrefill /\ ~KeepDecodes THEN running
  ELSE {}
Visible == running \ Hidden

(* Step 3.5: only the first grammar waiter may stay visible, and only when  *)
(* the batch would be all prefill.                                          *)
VisibleGrammar ==
  IF /\ grammarQ # <<>>
     /\ Visible = {}
     /\ Cardinality(Restored) < MaxPrefillsPerBatch
     /\ Cardinality(Visible) < MaxKvConcurrent
  THEN {Head(grammarQ)} ELSE {}

(* Mutant: the KV cap in place of max_num_seqs. *)
MaxRunningByKv == MaxKvConcurrent - Cardinality(Hidden)

(* Step 4: max_num_running_reqs for the duration of the base call. *)
MaxRunning ==
  LET room == MaxNumSeqs - Cardinality(Hidden) IN
  IF HasPrefillInRunning
  THEN IF grammarQ # <<>> THEN Cardinality(Visible) ELSE room
  ELSE IF CanStartPrefill
  THEN IF grammarQ # <<>> /\ room > MaxPrefillsPerBatch
       THEN MaxPrefillsPerBatch ELSE room
  ELSE IF ReadyGrammar /\ Cardinality(running) < MaxNumSeqs
  THEN Cardinality(running) ELSE MaxNumSeqs
------------------------------------------------------------------------------
(* The base scheduler's call (external), on the queues it is shown.         *)

(* Outputs in flight for r: its num_output_placeholders. *)
Placeholders(r) == Cardinality({i \in DOMAIN inflight : r \in inflight[i]})

(* Mutant: one step too many with a batch in flight. *)
HasWorkPastTheEnd(r) == computed[r] < PromptChunks[r] + emitted[r] + Placeholders(r)

(* A running request has a token to compute, and is not already certain to  *)
(* reach max_tokens with the batches in flight.                             *)
HasWork(r) ==
  /\ computed[r] < PromptChunks[r] + emitted[r] + Placeholders(r)
  /\ emitted[r] + Placeholders(r) < MaxTokens[r]

(* A parked pull resumes by recomputing the last token of its prompt. *)
StartAt(r) == IF r \in remoteKv THEN PromptChunks[r] - 1 ELSE computed[r]
Parks(r) == r \in pullPending /\ r \notin remoteKv
TakesWholeBudget(r) == StartAt(r) + 1 < PromptChunks[r]

UnitsAfter(r) == IF Parks(r) THEN PromptChunks[r]
                 ELSE IF StartAt(r) + 1 > blocks[r] THEN StartAt(r) + 1 ELSE blocks[r]
FreeUnits == KvPool - MapThenSumSet(LAMBDA r : blocks[r], Request)
Fits(admitted, evicted) ==
  MapThenSumSet(LAMBDA r : UnitsAfter(r) - blocks[r], admitted)
    <= FreeUnits + MapThenSumSet(LAMBDA r : blocks[r], evicted)

(* The running queue first: all that has work runs, or, when the pool is    *)
(* short, a smallest set of victims is preempted so that the rest can.      *)
Ran(preempted) == {r \in Visible : HasWork(r)} \ preempted
BaseRun(preempted) ==
  /\ Fits(Ran(preempted), preempted)
  /\ \A v \in preempted : ~Fits(Ran(preempted \ {v}), preempted \ {v})

(* Then the waiters that are ready, the skipped ones before the others,     *)
(* while a slot, the token budget and the pool last; none after a           *)
(* preemption.                                                              *)
BaseAdmit(ready, preempted, admitted) ==
  LET ran == Ran(preempted)
      started == {r \in admitted : ~Parks(r)}
      slots(S) == Cardinality(Visible) + Cardinality(S)
      exhausted(S) == \E r \in S : TakesWholeBudget(r)
  IN
  /\ preempted # {} \/ exhausted(ran) => admitted = {}
  /\ admitted \cap Restored # {} => ready \ Restored \subseteq admitted
  /\ slots(started) <= MaxRunning
  /\ started # admitted => slots(started) < MaxRunning
  /\ Cardinality({r \in started : TakesWholeBudget(r)}) <= 1
  /\ Fits(ran \cup admitted, {})  \/ admitted = {}
  /\ \/ admitted = ready
     \/ preempted # {}
     \/ exhausted(ran \cup started)
     \/ slots(started) >= MaxRunning
     \/ \E r \in ready \ admitted : ~Fits(ran \cup admitted \cup {r}, {})
------------------------------------------------------------------------------
(* schedule(). *)

(* Mutant of step 5: the restore that forgets the hidden decodes.           *)
VisibleRestored(preempted, started) == (Visible \ preempted) \cup started

(* Step 5: the running queue after the hidden decodes are restored. *)
RunningRestored(preempted, started) == (running \ preempted) \cup started

(* Mutant: every scheduled prompt token makes the batch a prefill. *)
CountedByTokensOnly(r) == StartAt(r) < PromptChunks[r]

(* Step 6: the phase a scheduled request is counted in.  The decode node of *)
(* a disaggregated pair counts its own last-token prefills as decodes.      *)
CountedPrefill(r) ==
  /\ StartAt(r) < PromptChunks[r]
  /\ ~(Role # "none" /\ r \in RemotePrefill \ RemoteDecode)

(* _is_dispatched_producer on the state after the base call. *)
Dispatched(r) ==
  Role = "producer" /\ r \in RemoteDecode /\ MaxTokens[r] = 1
    /\ computed'[r] >= PromptChunks[r]

(* _update_state: from the batch, or IDLE when both queues are empty. *)
NextState(batch, back) ==
  IF waiting' = <<>> /\ back = {} THEN "IDLE"
  ELSE IF batch = {} THEN state
  ELSE IF \E r \in batch : StartAt(r) < PromptChunks[r]
  THEN "ACTIVE_PREFILL" ELSE "ACTIVE_DECODE"

(* The batch samples for the requests it brings up to date. *)
Samples(r) == computed'[r] >= PromptChunks[r] + emitted[r] + Placeholders(r)

ScheduleWith(ready, preempted, admitted) ==
  LET ran == Ran(preempted)
      parked == {r \in admitted : Parks(r)}
      started == admitted \ parked
      batch == ran \cup started
      mixed == \E p, d \in batch : CountedPrefill(p) /\ ~CountedPrefill(d)
      back == RunningRestored(preempted, started)
  IN
  /\ BaseRun(preempted)
  /\ BaseAdmit(ready, preempted, admitted)
  /\ \E order \in SetToSeqs(preempted) :
        waiting' = order \o (IF admitted \cap Restored # {} THEN Tail(Holdback) ELSE Holdback)
  /\ grammarQ' = IF admitted \cap VisibleGrammar # {} THEN Tail(grammarQ) ELSE grammarQ
  /\ remoteKv' = (remoteKv \ started) \cup parked
  /\ pullPending' = pullPending \ parked
  /\ received' = received \ started
  /\ computed' = [r \in Request |->
        IF r \in batch THEN StartAt(r) + 1
        ELSE IF r \in parked THEN PromptChunks[r]
        ELSE IF r \in preempted THEN 0 ELSE computed[r]]
  /\ blocks' = [r \in Request |->
        IF r \in ran \cup admitted THEN UnitsAfter(r)
        ELSE IF r \in preempted THEN 0 ELSE blocks[r]]
  /\ raised' = mixed
  /\ pendingKvSend' = IF mixed THEN pendingKvSend
                      ELSE pendingKvSend \cup {r \in back : Dispatched(r)}
  /\ running' = IF mixed THEN back ELSE {r \in back : ~Dispatched(r)}
  /\ LET kept == [i \in DOMAIN inflight |-> inflight[i] \ preempted]
     IN inflight' = IF mixed THEN kept ELSE Append(kept, {r \in batch : Samples(r)})
  /\ state' = IF mixed THEN state ELSE NextState(batch, back)

(* get_num_unfinished_requests: the send-lane counts.  The engine steps     *)
(* only while it is positive.                                               *)
Unfinished == Len(waiting) + Len(grammarQ) + Cardinality(remoteKv) + KvInUse

(* A grammar may become ready while the base scheduler looks at it.         *)
Schedule ==
  /\ ~raised
  /\ Len(inflight) < MaxInFlight
  /\ Unfinished > 0
  /\ \E late \in SUBSET (VisibleGrammar \ compiled) :
       LET ready == Restored \cup (remoteKv \cap received)
                      \cup (VisibleGrammar \cap (compiled \cup late))
       IN /\ compiled' = compiled \cup late
          /\ \E preempted \in SUBSET Visible : \E admitted \in SUBSET ready :
               ScheduleWith(ready, preempted, admitted)
  /\ UNCHANGED <<life, emitted, xferDone>>
------------------------------------------------------------------------------
(* Mutant: only the sends reported now leave the lane; an abort leaks.      *)
LaneWithoutSent(sent) == pendingKvSend \ sent

(* The lane keeps the requests that still exist in self.requests. *)
LaneRetired(sent) == {r \in pendingKvSend : life'[r] # "freed"}

(* update_from_output(): the base scheduler appends the sampled tokens,     *)
(* frees what stopped and what the worker reports as transferred; then the  *)
(* send-lane keeps only the requests that still exist.                      *)
UpdateFromOutput ==
  LET sampled == {r \in Head(inflight) : life[r] = "live"}
      capped == {r \in sampled : emitted[r] + 1 = MaxTokens[r]}
  IN
  /\ ~raised
  /\ inflight # <<>>
  /\ \E stopped \in SUBSET sampled :
       LET pinned == IF Role \in {"producer", "both"} THEN capped \cap RemoteDecode ELSE {}
           sent == {r \in xferDone : life[r] = "finished"}
           freed == (stopped \ pinned) \cup sent
       IN
       /\ capped \subseteq stopped
       /\ life' = [r \in Request |-> IF r \in freed THEN "freed"
                                     ELSE IF r \in stopped THEN "finished" ELSE life[r]]
       /\ running' = running \ stopped
       /\ blocks' = [r \in Request |-> IF r \in freed THEN 0 ELSE blocks[r]]
       /\ pendingKvSend' = LaneRetired(sent)
  /\ emitted' = [r \in Request |-> IF r \in sampled THEN emitted[r] + 1 ELSE emitted[r]]
  /\ received' = received \cup (xferDone \cap remoteKv)
  /\ xferDone' = {}
  /\ inflight' = Tail(inflight)
  /\ UNCHANGED <<waiting, grammarQ, remoteKv, pullPending, computed, compiled,
                 state, raised>>

(* add_request(): a request whose grammar is not compiled is queued with the *)
(* skipped ones.                                                            *)
AddRequest(r) ==
  /\ ~raised
  /\ life[r] = "new"
  /\ life' = [life EXCEPT ![r] = "live"]
  /\ IF r \in StructuredOutput
     THEN grammarQ' = Append(grammarQ, r) /\ UNCHANGED waiting
     ELSE waiting' = Append(waiting, r) /\ UNCHANGED grammarQ
  /\ UNCHANGED <<remoteKv, pullPending, running, pendingKvSend, computed, emitted,
                 blocks, compiled, xferDone, received, inflight, state, raised>>

(* finish_requests() of the base scheduler (external): the client went away. *)
(* A pull in progress keeps its blocks until the transfer is over; a request *)
(* in the send-lane leaves it at the next update_from_output.               *)
Abort(r) ==
  LET pinned == r \in remoteKv \ received IN
  /\ ~raised
  /\ life[r] = "live"
  /\ life' = [life EXCEPT ![r] = IF pinned THEN "finished" ELSE "freed"]
  /\ waiting' = Without(waiting, r)
  /\ grammarQ' = Without(grammarQ, r)
  /\ remoteKv' = remoteKv \ {r}
  /\ running' = running \ {r}
  /\ received' = received \ {r}
  /\ blocks' = [blocks EXCEPT ![r] = IF pinned THEN @ ELSE 0]
  /\ UNCHANGED <<pullPending, pendingKvSend, computed, emitted, compiled, xferDone,
                 inflight, state, raised>>

(* The grammar compiler finishes the grammar of a waiter (external). *)
CompileGrammar(r) ==
  /\ r \in ToSet(grammarQ) \ compiled
  /\ compiled' = compiled \cup {r}
  /\ UNCHANGED <<life, waiting, grammarQ, remoteKv, pullPending, running,
                 pendingKvSend, computed, emitted, blocks, xferDone, received,
                 inflight, state, raised>>

(* The worker sees a pull or a send complete, or its lease expire (external). *)
TransferDone(r) ==
  /\ r \in (remoteKv \ received) \cup {q \in Request : life[q] = "finished"}
  /\ r \notin xferDone
  /\ xferDone' = xferDone \cup {r}
  /\ UNCHANGED <<life, waiting, grammarQ, remoteKv, pullPending, running,
                 pendingKvSend, computed, emitted, blocks, compiled, received,
                 inflight, state, raised>>

Next ==
  \/ Schedule
  \/ UpdateFromOutput
  \/ \E r \in Request : \/ AddRequest(r)
                        \/ Abort(r)
                        \/ CompileGrammar(r)
                        \/ TransferDone(r)

Spec == Init /\ [][Next]_vars

(* The engine loop keeps stepping; compilations and transfers end. *)
Fairness ==
  /\ WF_vars(Schedule)
  /\ WF_vars(UpdateFromOutput)
  /\ \A r \in Request : WF_vars(CompileGrammar(r)) /\ WF_vars(TransferDone(r))

FairSpec == Spec /\ Fairness
------------------------------------------------------------------------------
(* Types; and no request computes to max_model_len, whose last token is only *)
(* sampled, or holds KV beyond it.                                          *)
TypeOK ==
  /\ life \in [Request -> {"new", "live", "finished", "freed"}]
  /\ waiting \in Seq(Request) /\ grammarQ \in Seq(Request)
  /\ remoteKv \subseteq Request /\ pullPending \subseteq Request
  /\ running \subseteq Request /\ pendingKvSend \subseteq Request
  /\ computed \in [Request -> 0 .. MaxModelLen - 1]
  /\ emitted \in [Request -> Nat]
  /\ blocks \in [Request -> 0 .. MaxModelLen]
  /\ compiled \subseteq Request /\ xferDone \subseteq Request
  /\ received \subseteq Request
  /\ inflight \in Seq(SUBSET Request)
  /\ state \in {"IDLE", "ACTIVE_PREFILL", "ACTIVE_DECODE"}
  /\ raised \in BOOLEAN

(* Hiding and restoring the queues loses no request and duplicates none:    *)
(* every live request is in exactly one place after every step of step 5.   *)
Places(r) ==
  Cardinality({i \in DOMAIN waiting : waiting[i] = r})
    + Cardinality({i \in DOMAIN grammarQ : grammarQ[i] = r})
    + Cardinality({q \in {"remoteKv", "running", "lane"} :
         \/ q = "remoteKv" /\ r \in remoteKv
         \/ q = "running" /\ r \in running
         \/ q = "lane" /\ r \in pendingKvSend})
NoRequestLost == \A r \in Request : life[r] = "live" => Places(r) = 1

(* A batch never mixes prefills with decodes, so the safety check at the end *)
(* of _apply_padding_and_log_stats never raises.                            *)
BatchSeparated == ~raised

(* A step advances the prompt of at most one request                         *)
(* (max_prefills_per_batch): the compiled prefill takes a batch of one.     *)
OnePrefillPerBatch ==
  [][Cardinality({r \in Request \ remoteKv' :
        IsPrefill(r) /\ computed'[r] > computed[r]}) <= MaxPrefillsPerBatch]_vars

(* The hidden decodes restored in step 5 and the requests admitted meanwhile *)
(* together respect max_num_seqs.                                           *)
WithinCapacity == Cardinality(running) <= MaxNumSeqs

(* Admission counts every request that pins blocks, so a running request is *)
(* never preempted: it leaves the running queue only by ending or for the   *)
(* send-lane.                                                               *)
PreemptsNone == \A r \in running : life'[r] = "live" => r \in running' \cup pendingKvSend'
NoPreemption == [][PreemptsNone]_vars

(* First come, first served through the hold-back queue: no request starts  *)
(* while one queued before it still waits, and those left keep their order. *)
NoOvertaking ==
  [][\A i, j \in DOMAIN waiting : i < j =>
       /\ waiting[j] \in running' \cup remoteKv' \cup pendingKvSend'
            => waiting[i] \notin ToSet(waiting')
       /\ \A k, m \in DOMAIN waiting' :
            waiting'[k] = waiting[i] /\ waiting'[m] = waiting[j] => k < m]_vars

(* On a pure decode engine that only pulls, no step holds a runnable decode *)
(* back while no grammar is awaited: admitting a pull costs the running     *)
(* decodes nothing.                                                         *)
HoldsNoDecodeBack ==
  grammarQ = <<>> /\ Len(inflight') > Len(inflight) =>
    \A r \in running : HasWork(r) => computed'[r] > computed[r]

(* A request hidden behind prefills, parked for a transfer or waiting for a *)
(* grammar ends all the same: no livelock between prefills and decodes.  And *)
(* a producer parked in the send-lane leaves it: its transfer, its lease or *)
(* its abort retires it.                                                    *)
EveryRequestEnds ==
  \A r \in Request :
    life[r] = "live" ~> life[r] \in {"finished", "freed"} /\ r \notin pendingKvSend
==============================================================================
