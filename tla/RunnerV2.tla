------------------------------- MODULE RunnerV2 -------------------------------
(***************************************************************************)
(* The slot-stable model runner (vllm_neuron/vllm/worker/                   *)
(* neuron_model_runner_v2.py, neuron_request_state.py, neuron_input_build.py, *)
(* neuron_forward_adapter.py).  A request keeps one slot of every tensor-   *)
(* parallel rank from its admission until it ends or is preempted.  Ranks   *)
(* choose slots by themselves and learn at different times which graphs have *)
(* run; the token history, the counts and the next tokens of the slots are   *)
(* on the device, which runs the graphs in the order they were submitted.   *)
(*                                                                         *)
(* The scheduler (external here) plans a step while the one before runs, a  *)
(* prompt or chunk of one request or one token of several.  A token is      *)
(* <<request, index in its text>>; the model's answer to exactly a           *)
(* request's text is its next token, and to anything else a wrong one.      *)
(***************************************************************************)
EXTENDS Integers, Sequences, FiniteSets, SequencesExt

CONSTANTS
  ReqId,        (* requests                                                 *)
  PromptLen,    (* [ReqId -> length of its prompt]                          *)
  OutputLimit,  (* [ReqId -> max_tokens]                                    *)
  ModelLen,     (* max_model_len                                            *)
  MaxNumReqs,   (* max_num_reqs                                             *)
  TpRank,       (* tensor-parallel ranks                                    *)
  OutputRank,   (* the one whose outputs the engine reads                   *)
  BlockSize,    (* tokens of a KV block                                     *)
  Window,       (* sliding_window of the layers that have one               *)
  Pmax,         (* SWA_ATTENTION_PMAX                                       *)
  Engines       (* configurations: depth, max_concurrent_batches (1 without  *)
                (* asynchronous scheduling); blocks of the KV cache; chunk,  *)
                (* tokens of a prefill step; asked, the requests; start,     *)
                (* [ReqId -> tokens whose KV is found at its admission]; pull, *)
                (* if it comes from another engine                           *)

ASSUME RunnerV2Assumption ==
  /\ IsFiniteSet(ReqId)
  /\ PromptLen \in [ReqId -> Nat \ {0}] /\ OutputLimit \in [ReqId -> Nat \ {0}]
  /\ OutputRank \in TpRank
  /\ {ModelLen, MaxNumReqs, BlockSize, Window, Pmax} \subseteq Nat \ {0}
  /\ BlockSize <= Pmax /\ \A r \in ReqId : PromptLen[r] <= ModelLen
  /\ \A g \in Engines :
       /\ g.depth \in 1 .. 2 /\ g.chunk \in Nat \ {0} /\ g.blocks \in Nat
       /\ g.asked \subseteq ReqId /\ g.start \in [ReqId -> Nat]
       /\ \A r \in ReqId : g.start[r] < PromptLen[r]
       /\ g.pull => /\ \A r \in ReqId : g.start[r] = PromptLen[r] - 1 /\ g.start[r] > 0
                    /\ g.chunk >= ModelLen

VARIABLES
  engine,      (* the configuration                                         *)
  stage,       (* of a request: "new", "loaded", "running", "preempted",     *)
               (* "finished" (or never asked)                               *)
  counted,     (* the scheduler's num_computed_tokens                       *)
  goal,        (* length of its text when it was admitted                   *)
  texts,       (* prompt and delivered tokens                               *)
  blocks,      (* its KV blocks                                             *)
  ended,       (* finished_req_ids the worker has not been told             *)
  steps,       (* the batch queue, oldest step first                        *)
  slotOf,      (* per rank: req_id_to_index                                 *)
  freeSlots,   (* per rank: free_indices                                    *)
  quarantined, (* per rank: _quarantined_slots                              *)
  lingering,   (* per rank: slots of the graphs in _inflight_graphs that the *)
               (* rank has not been told to be complete, though delivered   *)
  blockRow,    (* _block_tables: by slot, the blocks within _num_blocks     *)
  prefillLen,  (* prefill_len, by slot                                      *)
  history,     (* token_ids up to total_len, by slot                        *)
  computedBy,  (* num_computed_tokens of the device, by slot                *)
  lastToken,   (* last_sampled_tokens, by slot                              *)
  carry,       (* _next_token_by_slot                                       *)
  kv           (* what the cells of the KV cache hold                       *)

plan == <<stage, counted, goal, texts, blocks, ended>>
hostState == <<slotOf, freeSlots, quarantined, lingering, blockRow, prefillLen>>
deviceState == <<history, computedBy, lastToken, carry, kv>>
v2Vars == <<engine, plan, steps, hostState, deviceState>>

Slots == 0 .. MaxNumReqs - 1
NoSlot == -1
Wrong == <<"wrong", 0>>
NullBlock == 0
Text(r, n) == [i \in 1 .. n |-> <<r, i>>]
Smaller(m, n) == IF m < n THEN m ELSE n
Blocks(n) == (n + BlockSize - 1) \div BlockSize
Ascending(S) ==
  [j \in 1 .. Cardinality(S) |-> CHOOSE x \in S : Cardinality({y \in S : y < x}) = j - 1]
Cell(block, p) == block * BlockSize + (p % BlockSize)

V2Init ==
  /\ engine \in Engines
  /\ stage = [r \in ReqId |-> IF r \notin engine.asked THEN "finished"
                             ELSE IF engine.start[r] > 0 THEN "new" ELSE "loaded"]
  /\ counted = [r \in ReqId |-> 0] /\ goal = [r \in ReqId |-> 0]
  /\ texts = [r \in ReqId |-> Text(r, PromptLen[r])]
  /\ blocks = [r \in ReqId |-> <<>>]
  /\ ended = {} /\ steps = <<>>
  /\ slotOf = [k \in TpRank |-> [r \in ReqId |-> NoSlot]]
  /\ freeSlots = [k \in TpRank |-> Slots]
  /\ quarantined = [k \in TpRank |-> {}] /\ lingering = [k \in TpRank |-> {}]
  /\ blockRow = [s \in Slots |-> <<>>] /\ prefillLen = [s \in Slots |-> 0]
  /\ history = [s \in Slots |-> <<>>] /\ computedBy = [s \in Slots |-> 0]
  /\ lastToken = [s \in Slots |-> Wrong] /\ carry = [s \in Slots |-> Wrong]
  /\ kv = [c \in 0 .. (engine.blocks + 1) * BlockSize - 1 |-> Wrong]
------------------------------------------------------------------------------
(* The engine's scheduler and block pool (external).                        *)

Seated == {r \in ReqId : stage[r] = "running"}
Prefilling == {r \in Seated : counted[r] < goal[r]}
(* Blocks that are free once the requests of evicted are preempted. *)
FreeBlocks(evicted) ==
  (1 .. engine.blocks) \ UNION {ToSet(blocks[r]) : r \in ReqId \ evicted}

(* Blocks r lacks for its tokens up to n. *)
Lacks(r, n) == IF Blocks(n) > Len(blocks[r]) THEN Blocks(n) - Len(blocks[r]) ELSE 0

(* The blocks the requests of S lack, up to upto[r] tokens of r: <<r, 1>> the *)
(* first r lacks, and so on.                                                *)
Wanted(S, upto) == UNION {{r} \X (1 .. Lacks(r, upto[r])) : r \in S}

(* Free blocks for the requests of reqs, in the order of the list. *)
Given(reqs, upto, evicted) ==
  LET pool == Ascending(FreeBlocks(evicted))
      place(r) == CHOOSE j \in DOMAIN reqs : reqs[j] = r
      earlier(w) == {v \in Wanted(ToSet(reqs), upto) :
                       place(v[1]) < place(w[1]) \/ (v[1] = w[1] /\ v[2] < w[2])}
  IN [r \in ToSet(reqs) |->
        [n \in 1 .. Lacks(r, upto[r]) |-> pool[1 + Cardinality(earlier(<<r, n>>))]]]

Fits(reqs, upto, evicted) ==
  Cardinality(Wanted(reqs, upto)) <= Cardinality(FreeBlocks(evicted))

(* A SchedulerOutput (prompt tells a prefill, whose rows are padded to more  *)
(* than one token; given, the blocks a request is given, all of them if it is *)
(* new to the runner), and what becomes of the step: the ranks that have      *)
(* submitted it, with the slots they found the requests in, and those that    *)
(* have seen it complete; the operands, by row; what it sampled.             *)
StepFor(new, old, size, prompt, given, evicted) ==
  LET reqs == new \o old IN
  [new |-> new, reqs |-> reqs, prompt |-> prompt,
   at |-> [r \in ToSet(reqs) |-> counted[r]], size |-> [r \in ToSet(reqs) |-> size[r]],
   given |-> [r \in ToSet(reqs) |-> IF r \in ToSet(new) THEN blocks[r] \o given[r] ELSE given[r]],
   texts |-> [r \in ToSet(new) |-> texts[r]], finished |-> ended, preempted |-> evicted,
   ranks |-> {}, chosen |-> [k \in TpRank |-> <<>>], fenced |-> {}, rows |-> <<>>,
   ran |-> reqs = <<>>, read |-> FALSE, out |-> <<>>]

Send(new, old, size, prompt, evicted) ==
  LET reqs == new \o old
      given == Given(reqs, [r \in ToSet(reqs) |-> counted[r] + size[r]], evicted)
  IN /\ steps' = Append(steps, StepFor(new, old, size, prompt, given, evicted))
     /\ stage' = [r \in ReqId |-> IF r \in ToSet(new) THEN "running"
                                  ELSE IF r \in evicted THEN "preempted" ELSE stage[r]]
     /\ counted' = [r \in ReqId |-> IF r \in ToSet(reqs) THEN counted[r] + size[r]
                                    ELSE IF r \in evicted THEN 0 ELSE counted[r]]
     /\ goal' = [r \in ReqId |-> IF r \in ToSet(new) THEN Len(texts[r]) ELSE goal[r]]
     /\ blocks' = [r \in ReqId |-> IF r \in ToSet(reqs) THEN blocks[r] \o given[r]
                                   ELSE IF r \in evicted THEN <<>> ELSE blocks[r]]
     /\ ended' = {}
     /\ UNCHANGED <<engine, texts, hostState, deviceState>>

(* KV of the first tokens of r is found in the prefix cache, or pulled.  That *)
(* a READ lands after the steps under way have written is not shown here.   *)
Load(r) ==
  /\ stage[r] = "new"
  /\ LET n == engine.start[r]
         given == Given(<<r>>, [q \in {r} |-> n], {})[r]
     IN /\ Fits({r}, [q \in {r} |-> n], {})
        /\ \A i \in DOMAIN steps : steps[i].ran
        /\ blocks' = [blocks EXCEPT ![r] = given]
        /\ counted' = [counted EXCEPT ![r] = n]
        /\ kv' = [c \in DOMAIN kv |->
                    IF \E p \in 0 .. n - 1 : c = Cell(given[p \div BlockSize + 1], p)
                    THEN <<r, 1 + CHOOSE p \in 0 .. n - 1 : c = Cell(given[p \div BlockSize + 1], p)>>
                    ELSE kv[c]]
  /\ stage' = [stage EXCEPT ![r] = "loaded"]
  /\ UNCHANGED <<engine, goal, texts, ended, steps, hostState, history, computedBy,
                 lastToken, carry>>

CanAdmit(r) == stage[r] \in {"loaded", "preempted"} /\ Cardinality(Seated) < MaxNumReqs

(* A pulled prompt lacks its last token only, and starts among the decodes. *)
Pulled(r) == engine.pull /\ stage[r] = "loaded"

ChunkOf(r) ==
  Smaller(engine.chunk, (IF stage[r] = "running" THEN goal[r] ELSE Len(texts[r])) - counted[r])

PromptReady(r) ==
  /\ IF Prefilling # {} THEN r \in Prefilling ELSE CanAdmit(r) /\ ~Pulled(r)
  /\ Fits({r}, [q \in {r} |-> counted[r] + ChunkOf(r)], {})

SchedulePrompt(r) ==
  /\ Len(steps) < engine.depth /\ PromptReady(r)
  /\ LET size == [q \in {r} |-> ChunkOf(r)]
     IN IF stage[r] = "running" THEN Send(<<>>, <<r>>, size, TRUE, {})
                                ELSE Send(<<r>>, <<>>, size, TRUE, {})

(* No step in flight is sure to be the last. *)
DecodeReady == {r \in Seated \ Prefilling :
                  counted[r] + 1 < PromptLen[r] + OutputLimit[r] /\ counted[r] + 1 < ModelLen}

OneMore(reqs) == [r \in reqs |-> counted[r] + 1]

ScheduleDecodes ==
  /\ Len(steps) < engine.depth
  /\ LET one == [r \in ReqId |-> 1] IN
     \/ /\ Fits(DecodeReady, OneMore(DecodeReady), {})
        /\ \E new \in SUBSET {r \in ReqId : CanAdmit(r) /\ Pulled(r)} :
             /\ DecodeReady \cup new # {}
             /\ Cardinality(Seated) + Cardinality(new) <= MaxNumReqs
             /\ Fits(DecodeReady \cup new, OneMore(DecodeReady \cup new), {})
             /\ Send(SetToSeq(new), SetToSeq(DecodeReady), one, FALSE, {})
     \/ \E victim \in Seated :
          LET rest == DecodeReady \ {victim} IN
          /\ ~Fits(DecodeReady, OneMore(DecodeReady), {})
          /\ Fits(rest, OneMore(rest), {victim})
          /\ Send(<<>>, SetToSeq(rest), one, FALSE, {victim})

(* Nothing but news of the requests that have ended. *)
ScheduleNothing ==
  /\ Len(steps) < engine.depth /\ ended # {}
  /\ DecodeReady = {} /\ \A r \in ReqId : ~PromptReady(r) /\ ~(CanAdmit(r) /\ Pulled(r))
  /\ Send(<<>>, <<>>, <<>>, FALSE, {})
------------------------------------------------------------------------------
(* execute_model, on one rank.                                              *)

SlotsOf(e, k) == {e.chosen[k][r] : r \in DOMAIN e.chosen[k]}

(* A step with a new request waits for the output of the step before, and so *)
(* of all before it, and forgets the graphs in flight.                       *)
Joins(e) == engine.depth > 1 /\ e.new # <<>>

(* Mutant of Open: a join does not clear the graphs in flight. *)
OpenUnlessTold(k, i) ==
  lingering[k] \cup
    UNION {SlotsOf(steps[j], k) : j \in {n \in 1 .. i - 1 : k \notin steps[n].fenced}}

(* Slots of graphs rank k does not know to be complete at its i-th step. *)
Open(k, i) ==
  IF Joins(steps[i]) THEN {}
  ELSE lingering[k] \cup
         UNION {SlotsOf(steps[j], k) : j \in {n \in 1 .. i - 1 : k \notin steps[n].fenced}}

(* The slots of the requests that have ended or were preempted: free, unless *)
(* a graph in flight may touch them.                                        *)
Leaving(k, e) == {r \in e.finished \cup e.preempted : slotOf[k][r] # NoSlot}
Vacated(k, e) == {slotOf[k][r] : r \in Leaving(k, e)}
Withheld(k, i) == (quarantined[k] \cup Vacated(k, steps[i])) \cap Open(k, i)
Available(k, i) == (freeSlots[k] \cup quarantined[k] \cup Vacated(k, steps[i])) \ Withheld(k, i)

(* Every new request in turn takes the lowest free slot. *)
Placed(k, i) ==
  LET order == Ascending(Available(k, i))
      new == steps[i].new
  IN [r \in ReqId |-> IF r \in ToSet(new) THEN order[CHOOSE j \in DOMAIN new : new[j] = r]
                      ELSE IF r \in Leaving(k, steps[i]) THEN NoSlot ELSE slotOf[k][r]]

(* The block rows after the removals, the admissions and the appends. *)
Emptied(e) == [s \in Slots |-> IF s \in Vacated(OutputRank, e) THEN <<>> ELSE blockRow[s]]
Extended(e, place, rows) ==
  [s \in Slots |->
     IF \E r \in ToSet(e.reqs) : place[r] = s
     THEN rows[s] \o e.given[CHOOSE r \in ToSet(e.reqs) : place[r] = s] ELSE rows[s]]

(* Width of the block rows of a sliding-window layer, and first block of one. *)
SwaWidth ==
  LET perTile == Pmax \div BlockSize
      least == Window \div BlockSize + 1
  IN Smaller(((least + perTile - 1) \div perTile) * perTile, Blocks(ModelLen))

(* Mutant of SwaStart: one block too far. *)
SwaStartLate(at) == IF at \div BlockSize < SwaWidth THEN 0 ELSE at \div BlockSize - SwaWidth + 2

SwaStart(at) == IF at \div BlockSize < SwaWidth THEN 0 ELSE at \div BlockSize - SwaWidth + 1

(* The operands of a row.  A prefill is given the full row of blocks. *)
RowFor(e, r, s, row, until) ==
  LET start == IF e.prompt THEN 0 ELSE SwaStart(e.at[r])
      width == IF e.prompt THEN Len(row) ELSE SwaWidth
  IN [slot |-> s, at |-> e.at[r], len |-> e.size[r], until |-> until, table |-> row,
      trimmed |-> SubSeq(row, start + 1, Smaller(start + width, Len(row))),
      offset |-> start * BlockSize,
      valid |-> e.prompt => e.at[r] + e.size[r] >= until]

(* What admission copies to the device: the tokens, how many are computed,   *)
(* and the last of those as the last token.                                 *)
Admit(e, place) ==
  LET entrant == [s \in {place[r] : r \in ToSet(e.new)} |->
                    CHOOSE r \in ToSet(e.new) : place[r] = s]
      seed(r) == IF e.at[r] > 0 THEN e.texts[r][e.at[r]] ELSE Wrong
  IN /\ prefillLen' = [s \in Slots |-> IF s \in DOMAIN entrant THEN Len(e.texts[entrant[s]])
                                       ELSE prefillLen[s]]
     /\ history' = [s \in Slots |-> IF s \in DOMAIN entrant THEN e.texts[entrant[s]]
                                    ELSE history[s]]
     /\ computedBy' = [s \in Slots |-> IF s \in DOMAIN entrant THEN e.at[entrant[s]]
                                       ELSE computedBy[s]]
     /\ lastToken' = [s \in Slots |-> IF s \in DOMAIN entrant THEN seed(entrant[s])
                                      ELSE lastToken[s]]

Submitted(e, k, place) ==
  [e EXCEPT !.ranks = @ \cup {k}, !.chosen[k] = [r \in ToSet(e.reqs) |-> place[r]],
            !.rows = IF k # OutputRank THEN @
                     ELSE [j \in DOMAIN e.reqs |->
                             LET s == place[e.reqs[j]]
                             IN RowFor(e, e.reqs[j], s, blockRow'[s], prefillLen'[s])]]

ExecuteModel(k) ==
  \E i \in DOMAIN steps :
    LET e == steps[i]
        place == Placed(k, i)
    IN /\ k \notin e.ranks /\ \A j \in 1 .. i - 1 : k \in steps[j].ranks
       /\ Joins(e) => \A j \in 1 .. i - 1 : steps[j].ran
       /\ Len(e.new) <= Cardinality(Available(k, i))
       /\ slotOf' = [slotOf EXCEPT ![k] = place]
       /\ freeSlots' = [freeSlots EXCEPT ![k] = Available(k, i) \ {place[r] : r \in ToSet(e.new)}]
       /\ quarantined' = [quarantined EXCEPT ![k] = Withheld(k, i)]
       /\ lingering' = [lingering EXCEPT ![k] = IF Joins(e) THEN {} ELSE @]
       /\ IF k = OutputRank
          THEN blockRow' = Extended(e, place, Emptied(e)) /\ Admit(e, place)
          ELSE UNCHANGED <<blockRow, prefillLen, history, computedBy, lastToken>>
       /\ steps' = [j \in DOMAIN steps |->
                      IF j = i THEN Submitted(e, k, place)
                      ELSE IF j < i /\ Joins(e) THEN [steps[j] EXCEPT !.fenced = @ \cup {k}]
                      ELSE steps[j]]
       /\ UNCHANGED <<engine, plan, carry, kv>>
------------------------------------------------------------------------------
(* The device.                                                              *)

TokenAt(s, p) == IF p < Len(history[s]) THEN history[s][p + 1] ELSE Wrong
HeldAt(cache, table, p) ==
  cache[Cell(IF p \div BlockSize < Len(table) THEN table[p \div BlockSize + 1] ELSE NullBlock, p)]

(* A pulled prompt's first decode takes its token from the history. *)
Bootstraps(row) == computedBy[row.slot] < row.until

Inputs(e, row) ==
  [i \in 1 .. row.len |-> IF e.prompt THEN TokenAt(row.slot, row.at + i - 1)
                          ELSE IF Bootstraps(row) THEN TokenAt(row.slot, computedBy[row.slot])
                          ELSE carry[row.slot]]

(* What the layers of full attention see, and those of a window: the tokens  *)
(* before, through the rows of blocks, and the inputs.                       *)
Seen(e, row) == [p \in 1 .. row.at |-> HeldAt(kv, row.table, p - 1)] \o Inputs(e, row)
InWindow(row) ==
  \A p \in (row.at - Window + 1) .. row.at - 1 :
    p >= 0 => /\ p >= row.offset
              /\ HeldAt(kv, row.trimmed, p - row.offset) = HeldAt(kv, row.table, p)

(* The model (external): the next token after the text of a request. *)
Exact(e, row) ==
  /\ e.prompt \/ InWindow(row)
  /\ \E r \in ReqId : Seen(e, row) = Text(r, row.at + row.len)
Sampled(e, row) == IF Exact(e, row) THEN <<Seen(e, row)[1][1], row.at + row.len + 1>> ELSE Wrong

(* _compute_next_device_state *)
Commits(row) ==
  /\ computedBy[row.slot] >= row.until \/ computedBy[row.slot] + row.len = row.until
  /\ Len(history[row.slot]) < ModelLen

(* The oldest graph that has not run, once every rank has submitted it: its  *)
(* collectives need them all.                                               *)
Run ==
  \E i \in DOMAIN steps :
    LET e == steps[i]
        of(s) == CHOOSE j \in DOMAIN e.rows : e.rows[j].slot = s
        active == {e.rows[j].slot : j \in DOMAIN e.rows}
        commits == {s \in active : Commits(e.rows[of(s)])}
        sample == [j \in DOMAIN e.rows |-> Sampled(e, e.rows[j])]
        writer(c) == {w \in UNION {{j} \X (1 .. e.rows[j].len) : j \in DOMAIN e.rows} :
                        LET row == e.rows[w[1]]
                            p == row.at + w[2] - 1
                            page == p \div BlockSize
                        IN page < Len(row.table) /\ c = Cell(row.table[page + 1], p)}
    IN /\ ~e.ran /\ e.ranks = TpRank /\ \A j \in 1 .. i - 1 : steps[j].ran
       /\ kv' = [c \in DOMAIN kv |->
                   IF writer(c) = {} THEN kv[c]
                   ELSE LET w == CHOOSE w \in writer(c) : TRUE
                            row == e.rows[w[1]]
                        IN IF Exact(e, row) THEN Inputs(e, row)[w[2]] ELSE Wrong]
       /\ history' = [s \in Slots |-> IF s \in commits THEN Append(history[s], sample[of(s)])
                                      ELSE history[s]]
       /\ computedBy' = [s \in Slots |-> IF s \in active THEN computedBy[s] + e.rows[of(s)].len
                                         ELSE computedBy[s]]
       /\ lastToken' = [s \in Slots |-> IF s \in commits THEN sample[of(s)] ELSE lastToken[s]]
       /\ carry' = lastToken'
       /\ steps' = [steps EXCEPT ![i].ran = TRUE, ![i].out = sample]
       /\ UNCHANGED <<engine, plan, hostState>>
------------------------------------------------------------------------------
(* The outputs.                                                             *)

(* A prefill that is not the last chunk has sampled nothing. *)
Trimmed(e) == [j \in DOMAIN e.out |-> IF e.rows[j].valid THEN <<e.out[j]>> ELSE <<>>]

(* get_output on the output rank, in the order of the steps; or sample_tokens *)
(* on every rank, where nothing is asynchronous.                            *)
Materialize ==
  \E i \in DOMAIN steps :
    /\ steps[i].ran /\ ~steps[i].read /\ steps[i].ranks = TpRank
    /\ \A j \in 1 .. i - 1 : steps[j].read
    /\ steps' = [steps EXCEPT ![i].read = TRUE, ![i].out = Trimmed(steps[i]),
                  ![i].rows = <<>>, ![i].at = <<>>, ![i].size = <<>>, ![i].given = <<>>, ![i].texts = <<>>,
                  ![i].fenced = @ \cup (IF engine.depth = 1 THEN TpRank ELSE {OutputRank})]
    /\ UNCHANGED <<engine, plan, hostState, deviceState>>

(* The scheduler takes the oldest step's tokens (external): a request that    *)
(* has ended takes no more.                                                 *)
Deliver ==
  /\ steps # <<>> /\ steps[1].read
  /\ LET e == steps[1]
         row(r) == CHOOSE j \in DOMAIN e.reqs : e.reqs[j] = r
         takes == {r \in ToSet(e.reqs) : stage[r] # "finished" /\ e.out[row(r)] # <<>>}
         full == {r \in takes : Len(texts[r]) + 1 \in {PromptLen[r] + OutputLimit[r], ModelLen}}
     IN \E eos \in SUBSET (takes \ full) :
          LET over == full \cup eos IN
          /\ texts' = [r \in ReqId |-> IF r \in takes THEN texts[r] \o e.out[row(r)]
                                       ELSE texts[r]]
          /\ stage' = [r \in ReqId |-> IF r \in over THEN "finished" ELSE stage[r]]
          /\ blocks' = [r \in ReqId |-> IF r \in over THEN <<>> ELSE blocks[r]]
          /\ ended' = ended \cup over
          /\ lingering' = [k \in TpRank |-> IF k \in e.fenced THEN lingering[k]
                                           ELSE lingering[k] \cup SlotsOf(e, k)]
  /\ steps' = Tail(steps)
  /\ UNCHANGED <<engine, counted, goal, slotOf, freeSlots, quarantined, blockRow, prefillLen,
                 deviceState>>

PlanSteps == \/ \E r \in ReqId : Load(r) \/ SchedulePrompt(r)
             \/ ScheduleDecodes
             \/ ScheduleNothing

V2Next == PlanSteps \/ (\E k \in TpRank : ExecuteModel(k)) \/ Run \/ Materialize \/ Deliver

V2Spec == V2Init /\ [][V2Next]_v2Vars
------------------------------------------------------------------------------
V2TypeOK ==
  /\ engine \in Engines
  /\ stage \in [ReqId -> {"new", "loaded", "running", "preempted", "finished"}]
  /\ counted \in [ReqId -> 0 .. ModelLen] /\ goal \in [ReqId -> 0 .. ModelLen]
  /\ \A r \in ReqId : Len(texts[r]) <= ModelLen /\ ToSet(blocks[r]) \subseteq 1 .. engine.blocks
  /\ ended \subseteq ReqId /\ Len(steps) <= engine.depth
  /\ slotOf \in [TpRank -> [ReqId -> Slots \cup {NoSlot}]]
  /\ {freeSlots, quarantined, lingering} \subseteq [TpRank -> SUBSET Slots]
  /\ \A s \in Slots : Len(blockRow[s]) <= Blocks(ModelLen) /\ Len(history[s]) <= ModelLen
  /\ prefillLen \in [Slots -> 0 .. ModelLen] /\ computedBy \in [Slots -> 0 .. ModelLen]

(* On every rank each slot is free, withheld or one request's; the ranks that *)
(* have submitted a step found its requests in the same slots, although each *)
(* learns by itself, and at another time, which graphs have run; no slot is  *)
(* free that a graph still to run will touch; and when the scheduler's next  *)
(* step reaches a rank, there is a slot for every new request of it: the     *)
(* assertion of add_request never fails, and the guard of ExecuteModel that  *)
(* stands for it holds nothing back.                                        *)
SlotsSafe ==
  /\ \A k \in TpRank :
       LET seats == {r \in ReqId : slotOf[k][r] # NoSlot}
           taken == {slotOf[k][r] : r \in seats}
       IN /\ Cardinality(taken) = Cardinality(seats)
          /\ freeSlots[k] \cup quarantined[k] \cup taken = Slots
          /\ freeSlots[k] \cap quarantined[k] = {}
          /\ (freeSlots[k] \cup quarantined[k]) \cap taken = {}
  /\ \A i \in DOMAIN steps : \A k, m \in steps[i].ranks :
       /\ steps[i].chosen[k] = steps[i].chosen[m]
       /\ ~steps[i].ran => freeSlots[k] \cap SlotsOf(steps[i], k) = {}
  /\ \A i \in DOMAIN steps : \A k \in TpRank \ steps[i].ranks :
       (\A j \in 1 .. i - 1 : k \in steps[j].ranks) =>
         Len(steps[i].new) <= Cardinality(Available(k, i))

(* What a request is given is its own text, token by token, through chunks,  *)
(* prefix hits, pulled prompts, preemptions, and slots and blocks that were  *)
(* another's while a graph was still in flight.                             *)
TokensExact == \A r \in ReqId : texts[r] = Text(r, Len(texts[r]))

(* All requests have been answered to their ends. *)
AllAnswered == \A r \in ReqId : stage[r] = "finished"
==============================================================================
