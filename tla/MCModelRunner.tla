----------------------------- MODULE MCModelRunner -----------------------------
(* Small instances, for TLC, of four parts of the model runners: the        *)
(* encoder cache's allocator, asynchronous speculative decoding, the         *)
(* rejection samplers, of which every initial state is an input, and the     *)
(* slot-stable runner.  They share no state, so each behaviour exercises one *)
(* of them and leaves the others in an initial state.                        *)
EXTENDS MCEncoderCacheBlocks, AsyncDecode, RunnerV2

CONSTANTS r1, r2, r3

VARIABLES
  part,     (* which of the four this behaviour is about *)
  drafts,   (* the samplers' input *)
  targets

runnerVars == <<cacheVars, decodeVars, v2Vars, part, drafts, targets>>

(* r1 comes to the end of the model's length, r2 to its max_tokens. *)
MCRequests == {r1, r2}
MCPrompt == [r \in Request |-> IF r = r1 THEN 3 ELSE 2]
MCMaxTokens == [r \in Request |-> IF r = r1 THEN 20 ELSE 6]

(* Two requests of up to two drafts, of two tokens or not known; three of    *)
(* one token.                                                               *)
MCBatches ==
  UNION {[1 .. k -> BoundedSeq({0, 1, PlaceholderTokenId}, 2)] : k \in 1 .. 2}
    \cup [1 .. 3 -> BoundedSeq({0}, 2)]
MCTargets(rows) ==
  {t \in [DOMAIN rows -> BoundedSeq({0, 1}, 3)] :
     \A k \in DOMAIN rows : Len(t[k]) = Len(rows[k]) + 1}

(* A colocated engine, where r1 finds a block in the prefix cache and comes  *)
(* with two others to two slots; a consumer whose three blocks are fewer than *)
(* two requests may need; and an engine that is not asynchronous.  The        *)
(* window of one block and a token is narrower than the longest text.         *)
MCReqId == {r1, r2, r3}
MCPromptLen == [r \in ReqId |-> IF r = r1 THEN 3 ELSE 2]
MCOutputLimit == [r \in ReqId |-> IF r = r1 THEN 3 ELSE 2]
MCEngines ==
  LET none == [r \in ReqId |-> 0] IN
  {[depth |-> 2, asked |-> ReqId, blocks |-> 9, chunk |-> 2, pull |-> FALSE,
    start |-> [none EXCEPT ![r1] = 2]],
   [depth |-> 2, asked |-> {r1, r2}, blocks |-> 3, chunk |-> ModelLen, pull |-> TRUE,
    start |-> [r \in ReqId |-> PromptLen[r] - 1]],
   [depth |-> 1, asked |-> ReqId, blocks |-> 9, chunk |-> 2, pull |-> FALSE, start |-> none]}

RunnerInit ==
  /\ part \in {"cache", "decode", "samplers", "v2"}
  /\ Init /\ DecodeInit
  /\ V2Init /\ (part # "v2" => engine.depth = 1)
  /\ IF part # "samplers" THEN drafts = <<<<0>>>> /\ targets = <<<<0, 0>>>>
     ELSE /\ drafts \in {rows \in MCBatches : \E k \in DOMAIN rows : rows[k] # <<>>}
          /\ targets \in MCTargets(drafts)

(* A step of the part at hand. *)
OnPart(onCache, onDecode, onV2) ==
  /\ \/ part = "cache" /\ onCache /\ UNCHANGED <<decodeVars, v2Vars>>
     \/ part = "decode" /\ onDecode /\ UNCHANGED <<cacheVars, v2Vars>>
     \/ part = "v2" /\ onV2 /\ UNCHANGED <<cacheVars, decodeVars>>
  /\ UNCHANGED <<part, drafts, targets>>

RunnerNext == OnPart(Next, DecodeNext, V2Next)

RunnerSpec ==
  /\ RunnerInit /\ [][RunnerNext]_runnerVars
  /\ WF_runnerVars(OnPart(Sleep \/ Wake \/ AllocateEnd, Schedule \/ UpdateFromOutput, V2Next))
  /\ WF_runnerVars(OnPart(Tick, Execute, FALSE))
------------------------------------------------------------------------------
(* Type correctness of the allocator, of decoding and of the second runner. *)
RunnerTypeOK == TypeOK /\ DecodeTypeOK /\ V2TypeOK

(* Both samplers give every request of every batch its own accepted drafts  *)
(* and, when the target agrees with all of them, its bonus token.           *)
SamplersExact ==
  part = "samplers" => HostExact(drafts, targets) /\ DeviceExact(drafts, targets)

(* The inference thread comes back from allocate(), every request that was  *)
(* started ends, and the second runner answers all of its.                   *)
RunnerGoesOn ==
  []<>(NotAllocating /\ NoneRunning /\ (part = "v2" => AllAnswered))
==============================================================================
