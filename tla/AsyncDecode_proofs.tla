--------------------------- MODULE AsyncDecode_proofs --------------------------
(***************************************************************************)
(* Proofs about asynchronous speculative decoding, for every set of         *)
(* requests, prompt and model length, and number of draft tokens.           *)
(***************************************************************************)
EXTENDS AsyncDecode, ListLemmas, SequenceTheorems, TLAPS

(* Functions over some of the requests, and the steps made of them. *)
Partial == UNION {[X -> Int] : X \in SUBSET Request}
Steps ==
  [prefill : BOOLEAN, at : Partial, drafts : Partial, live : SUBSET Request,
   done : BOOLEAN, valid : Partial]

SchedTypes ==
  /\ phase \in [Request -> {"waiting", "running", "finished"}]
  /\ computed \in [Request -> Int]
  /\ known \in [Request -> Int]
  /\ reserved \in [Request -> Int]
  /\ queue \in Seq(Steps)

(* num_computed_tokens is ahead of the delivered tokens by the placeholders; *)
(* a request that waits has neither.                                        *)
Ahead ==
  \A r \in Request :
    /\ phase[r] = "waiting" => computed[r] = 0 /\ known[r] = Prompt[r] /\ reserved[r] = 0
    /\ phase[r] = "running" => computed[r] = known[r] + reserved[r] - 1

(* Who gets placeholders has room for this step and the next. *)
DraftersHaveRoom == \A r \in drafting : computed[r] <= Margin

(* A step of full shape, which accepts no more than it was given. *)
FullStep(s) ==
  \A r \in DOMAIN s.at :
    /\ s.drafts[r] \in {0, NumSpec}
    /\ s.valid[r] \in Int /\ s.valid[r] <= 1 + s.drafts[r]
    /\ ~s.prefill => s.at[r] + 1 + s.drafts[r] < MaxModelLen

(* The inductive invariant: a step is not trimmed because the requests it    *)
(* drafts for were far enough from the end when they were promised drafts,  *)
(* and every outcome only takes them further away from it.                  *)
DecodeInv ==
  /\ SchedTypes /\ Ahead /\ drafting \subseteq Request /\ DraftersHaveRoom
  /\ \A i \in DOMAIN queue : FullStep(queue[i])

(* Nothing is planned at first. *)
LEMMA DecodeInitially == DecodeAssumption /\ DecodeInit => DecodeInv
<1> SUFFICES ASSUME DecodeAssumption, DecodeInit PROVE DecodeInv
  OBVIOUS
<1>1. queue = <<>> /\ queue \in Seq(Steps) /\ DOMAIN queue = {}
  BY DEF DecodeInit
<1>2. SchedTypes
  BY <1>1 DEF DecodeInit, DecodeAssumption, SchedTypes
<1>3. Ahead /\ drafting \subseteq Request /\ DraftersHaveRoom
  BY DEF DecodeInit, Ahead, DraftersHaveRoom
<1> QED BY <1>1, <1>2, <1>3 DEF DecodeInv

(* A plan for some requests of one token or, for those with placeholders, of *)
(* all their drafts, that starts where they are, keeps the books.           *)
LEMMA PlannedKeeps ==
  ASSUME DecodeAssumption, SchedTypes, drafting \subseteq Request, DraftersHaveRoom,
         NEW reqs \in SUBSET Request, NEW size \in [reqs -> Int], NEW draft \in [reqs -> Int],
         Planned(reqs, size, draft)
  PROVE  /\ computed' \in [Request -> Int] /\ reserved' \in [Request -> Int]
         /\ \A r \in Request \ reqs : computed'[r] = computed[r] /\ reserved'[r] = reserved[r]
         /\ \A r \in reqs : /\ computed'[r] = computed[r] + size[r]
                            /\ reserved'[r] = reserved[r] + 1 + draft[r]
         /\ drafting' \subseteq Request /\ DraftersHaveRoom'
<1>1. /\ \A r \in Request \ reqs : computed'[r] = computed[r] /\ reserved'[r] = reserved[r]
      /\ \A r \in reqs : /\ computed'[r] = computed[r] + size[r]
                         /\ reserved'[r] = reserved[r] + 1 + draft[r]
      /\ computed' \in [Request -> Int] /\ reserved' \in [Request -> Int]
  BY DEF Planned, CountPlaceholders, SchedTypes
<1>2. /\ drafting' = (drafting \ reqs) \cup (reqs \ specOff')
      /\ specOff' = specOff \cup {r \in reqs : computed'[r] > Margin}
  BY DEF Planned, Off
<1>3. Margin \in Int
  BY DEF Margin, DecodeAssumption
<1>4. ASSUME NEW r \in drafting' PROVE r \in Request /\ computed'[r] <= Margin
  <2>1. CASE r \in drafting \ reqs
    BY <1>1, <2>1 DEF DraftersHaveRoom
  <2>2. CASE r \in reqs \ specOff'
    <3>1. ~(computed'[r] > Margin) /\ computed'[r] \in Int
      BY <1>1, <1>2, <2>2
    <3> QED BY <1>3, <2>2, <3>1
  <2> QED BY <1>2, <2>1, <2>2
<1> QED BY <1>1, <1>4 DEF DraftersHaveRoom, Margin

(* A step that joins the batch queue. *)
LEMMA StepAppended ==
  ASSUME SchedTypes, \A i \in DOMAIN queue : FullStep(queue[i]),
         NEW s \in Steps, FullStep(s), queue' = Append(queue, s)
  PROVE  queue' \in Seq(Steps) /\ \A i \in DOMAIN queue' : FullStep(queue'[i])
<1>1. /\ queue' \in Seq(Steps) /\ Len(queue') = Len(queue) + 1 /\ Len(queue) \in Nat
      /\ \A i \in 1 .. Len(queue) : queue'[i] = queue[i]
      /\ queue'[Len(queue) + 1] = s
  BY AppendProperties DEF SchedTypes
<1>2. DOMAIN queue' = 1 .. Len(queue) + 1 /\ DOMAIN queue = 1 .. Len(queue)
  BY <1>1 DEF SchedTypes
<1>3. \A i \in DOMAIN queue' : i \in DOMAIN queue \/ i = Len(queue) + 1
  BY <1>1, <1>2
<1> QED BY <1>1, <1>2, <1>3

(* The prompt of a request is a step without drafts. *)
LEMMA PrefillKeeps ==
  ASSUME DecodeAssumption, DecodeInv, NEW r \in Request, SchedulePrefill(r)
  PROVE  DecodeInv'
<1> DEFINE size == [q \in {r} |-> Prompt[q]]
           draft == [q \in {r} |-> 0]
           s == Step(TRUE, {r}, draft)
<1>0. /\ SchedTypes /\ Ahead /\ drafting \subseteq Request /\ DraftersHaveRoom
      /\ \A i \in DOMAIN queue : FullStep(queue[i])
  BY DEF DecodeInv
<1>1. /\ phase[r] = "waiting" /\ phase' = [phase EXCEPT ![r] = "running"]
      /\ Planned({r}, size, draft) /\ queue' = Append(queue, s)
      /\ known' = known
  BY DEF SchedulePrefill
<1>2. {r} \in SUBSET Request /\ size \in [{r} -> Int] /\ draft \in [{r} -> Int]
  BY DEF DecodeAssumption
<1>3. size[r] = Prompt[r] /\ draft[r] = 0
  OBVIOUS
<1> HIDE DEF size
<1>4. /\ computed' \in [Request -> Int] /\ reserved' \in [Request -> Int]
      /\ \A q \in Request \ {r} : computed'[q] = computed[q] /\ reserved'[q] = reserved[q]
      /\ computed'[r] = computed[r] + Prompt[r] /\ reserved'[r] = reserved[r] + 1
      /\ drafting' \subseteq Request /\ DraftersHaveRoom'
  <2> HIDE DEF draft, s
  <2>1. /\ computed' \in [Request -> Int] /\ reserved' \in [Request -> Int]
        /\ \A q \in Request \ {r} : computed'[q] = computed[q] /\ reserved'[q] = reserved[q]
        /\ \A q \in {r} : /\ computed'[q] = computed[q] + size[q]
                          /\ reserved'[q] = reserved[q] + 1 + draft[q]
        /\ drafting' \subseteq Request /\ DraftersHaveRoom'
    BY <1>0, <1>1, <1>2, PlannedKeeps
  <2> QED BY <1>0, <1>3, <2>1 DEF SchedTypes
<1>5. s \in Steps /\ FullStep(s)
  <2>1. s = [prefill |-> TRUE, at |-> [q \in {r} |-> computed[q]], drafts |-> draft,
             live |-> {q \in Request : phase'[q] = "running"}, done |-> FALSE,
             valid |-> [q \in {r} |-> 0]]
    BY DEF Step
  <2> HIDE DEF s, draft
  <2>2. [q \in {r} |-> computed[q]] \in Partial /\ draft \in Partial
        /\ [q \in {r} |-> 0] \in Partial
    <3>1. [q \in {r} |-> computed[q]] \in [{r} -> Int] /\ [q \in {r} |-> 0] \in [{r} -> Int]
      BY <1>0 DEF SchedTypes
    <3> QED BY <1>2, <3>1 DEF Partial
  <2>3. s \in Steps
    BY <2>1, <2>2 DEF Steps
  <2>4. FullStep(s)
    BY <1>3, <2>1 DEF FullStep
  <2> QED BY <2>3, <2>4
<1> HIDE DEF s, draft
<1>6. queue' \in Seq(Steps) /\ \A i \in DOMAIN queue' : FullStep(queue'[i])
  BY <1>0, <1>1, <1>5, StepAppended
<1>7. SchedTypes'
  BY <1>0, <1>1, <1>4, <1>6 DEF SchedTypes
<1>8. Ahead'
  BY <1>0, <1>1, <1>4 DEF Ahead, SchedTypes, DecodeAssumption
<1> QED BY <1>4, <1>6, <1>7, <1>8 DEF DecodeInv

(* Nothing is trimmed off the tokens of a decode step. *)
LEMMA NoneTrimmed ==
  ASSUME DecodeAssumption, DecodeInv, NEW r \in Decodable
  PROVE  /\ NewTokens(r) \in Int /\ NewTokens(r) - 1 \in {0, NumSpec}
         /\ computed[r] + NewTokens(r) < MaxModelLen
         /\ NewTokens(r) = 1 + IF r \in drafting THEN NumSpec ELSE 0
<1>1. /\ r \in Request /\ phase[r] = "running" /\ NewTokens(r) > 0
  BY DEF Decodable
<1>2. /\ computed[r] \in Int /\ known[r] \in Int /\ reserved[r] \in Int
      /\ known[r] + reserved[r] - computed[r] = 1
      /\ NumSpec \in Nat \ {0} /\ MaxModelLen \in Nat
  BY <1>1 DEF DecodeInv, SchedTypes, Ahead, DecodeAssumption
<1> DEFINE wanted == known[r] + (IF r \in drafting THEN NumSpec ELSE 0)
                       + reserved[r] - computed[r]
           room == MaxModelLen - 1 - computed[r]
<1>3. NewTokens(r) = IF wanted < room THEN wanted ELSE room
  BY DEF NewTokens
<1>4. CASE r \in drafting
  <2>1. computed[r] <= MaxModelLen - 3 - 2 * NumSpec
    BY <1>4 DEF DecodeInv, DraftersHaveRoom, Margin
  <2>2. wanted = 1 + NumSpec
    BY <1>2, <1>4
  <2> QED BY <1>2, <1>3, <2>1, <2>2
<1>5. CASE r \notin drafting
  <2>1. wanted = 1
    BY <1>2, <1>5
  <2> QED BY <1>1, <1>2, <1>3, <2>1
<1> QED BY <1>4, <1>5

(* A decode step is of full shape. *)
LEMMA DecodeStepKeeps ==
  ASSUME DecodeAssumption, DecodeInv, ScheduleDecode
  PROVE  DecodeInv'
<1> DEFINE D == Decodable
           size == [r \in D |-> NewTokens(r)]
           draft == [r \in D |-> size[r] - 1]
           s == Step(FALSE, D, draft)
<1>0. /\ SchedTypes /\ Ahead /\ drafting \subseteq Request /\ DraftersHaveRoom
      /\ \A i \in DOMAIN queue : FullStep(queue[i])
  BY DEF DecodeInv
<1>1. /\ phase' = phase /\ known' = known
      /\ Planned(D, size, draft) /\ queue' = Append(queue, s)
  BY DEF ScheduleDecode
<1>2. \A r \in D : /\ NewTokens(r) \in Int /\ NewTokens(r) - 1 \in {0, NumSpec}
                   /\ computed[r] + NewTokens(r) < MaxModelLen
  BY NoneTrimmed
<1>3. D \in SUBSET Request
  BY DEF Decodable
<1>4. /\ size \in [D -> Int] /\ draft \in [D -> Int]
      /\ \A r \in D : size[r] = NewTokens(r) /\ draft[r] = NewTokens(r) - 1
  BY <1>2
<1>5. /\ computed' \in [Request -> Int] /\ reserved' \in [Request -> Int]
      /\ \A r \in Request \ D : computed'[r] = computed[r] /\ reserved'[r] = reserved[r]
      /\ \A r \in D : /\ computed'[r] = computed[r] + size[r]
                      /\ reserved'[r] = reserved[r] + 1 + draft[r]
      /\ drafting' \subseteq Request /\ DraftersHaveRoom'
  <2> HIDE DEF D, size, draft, s
  <2> QED BY <1>0, <1>1, <1>3, <1>4, PlannedKeeps
<1>6. s \in Steps /\ FullStep(s)
  <2>1. s = [prefill |-> FALSE, at |-> [r \in D |-> computed[r]], drafts |-> draft,
             live |-> {r \in Request : phase'[r] = "running"}, done |-> FALSE,
             valid |-> [r \in D |-> 0]]
    BY DEF Step
  <2> HIDE DEF D, size, draft, s
  <2>2. [r \in D |-> computed[r]] \in Partial /\ draft \in Partial
        /\ [r \in D |-> 0] \in Partial
    <3>1. [r \in D |-> computed[r]] \in [D -> Int] /\ [r \in D |-> 0] \in [D -> Int]
      BY <1>0, <1>3 DEF SchedTypes
    <3> QED BY <1>3, <1>4, <3>1 DEF Partial
  <2>3. s \in Steps
    BY <2>1, <2>2 DEF Steps
  <2>4. FullStep(s)
    <3> SUFFICES ASSUME NEW r \in D
                 PROVE  /\ draft[r] \in {0, NumSpec}
                        /\ 0 \in Int /\ 0 <= 1 + draft[r]
                        /\ computed[r] + 1 + draft[r] < MaxModelLen
      BY <2>1 DEF FullStep
    <3>1. /\ draft[r] \in {0, NumSpec} /\ draft[r] = NewTokens(r) - 1
          /\ NewTokens(r) \in Int /\ computed[r] + NewTokens(r) < MaxModelLen
      BY <1>2, <1>4
    <3>2. computed[r] \in Int /\ NumSpec \in Nat
      BY <1>0, <1>3 DEF SchedTypes, DecodeAssumption
    <3> QED BY <3>1, <3>2
  <2> QED BY <2>3, <2>4
<1> HIDE DEF D, size, draft, s
<1>7. queue' \in Seq(Steps) /\ \A i \in DOMAIN queue' : FullStep(queue'[i])
  BY <1>0, <1>1, <1>6, StepAppended
<1>8. SchedTypes'
  BY <1>0, <1>1, <1>5, <1>7 DEF SchedTypes
<1>9. Ahead'
  <2> SUFFICES ASSUME NEW r \in Request
               PROVE  /\ phase[r] = "waiting" => /\ computed'[r] = 0 /\ known[r] = Prompt[r]
                                                 /\ reserved'[r] = 0
                      /\ phase[r] = "running" => computed'[r] = known[r] + reserved'[r] - 1
    BY <1>1 DEF Ahead
  <2>1. CASE r \in D
    <3>1. phase[r] = "running"
      BY <2>1 DEF D, Decodable
    <3>2. computed[r] = known[r] + reserved[r] - 1
      BY <1>0, <1>3, <2>1, <3>1 DEF Ahead
    <3>3. computed[r] \in Int /\ known[r] \in Int /\ reserved[r] \in Int /\ NewTokens(r) \in Int
      BY <1>0, <1>2, <2>1 DEF SchedTypes
    <3> QED BY <1>4, <1>5, <2>1, <3>1, <3>2, <3>3
  <2>2. CASE r \notin D
    BY <1>0, <1>5, <2>2 DEF Ahead
  <2> QED BY <2>1, <2>2
<1> QED BY <1>5, <1>7, <1>8, <1>9 DEF DecodeInv

(* The outputs of a step take off what was rejected of it, and no more. *)
LEMMA UpdateKeeps ==
  ASSUME DecodeAssumption, DecodeInv, UpdateFromOutput
  PROVE  DecodeInv'
<1> DEFINE s == Head(queue)
           rejected(r) == 1 + s.drafts[r] - s.valid[r]
<1>0. /\ SchedTypes /\ Ahead /\ drafting \subseteq Request /\ DraftersHaveRoom
      /\ \A i \in DOMAIN queue : FullStep(queue[i])
      /\ NumSpec \in Nat
  BY DEF DecodeInv, DecodeAssumption
<1> DEFINE alive == {r \in DOMAIN s.at : phase[r] = "running"}
<1>a. PICK eos \in SUBSET alive :
        LET over == {r \in alive : Stops(r, s.valid[r], eos)}
            on == alive \ over
        IN  /\ phase' = [r \in Request |-> IF r \in over THEN "finished" ELSE phase[r]]
            /\ known' = [r \in Request |-> IF r \in on THEN known[r] + s.valid[r]
                                           ELSE known[r]]
            /\ computed' = [r \in Request |-> IF r \in on THEN computed[r] - rejected(r)
                                              ELSE computed[r]]
            /\ reserved' = [r \in Request |->
                              IF r \in on THEN reserved[r] - rejected(r) - s.valid[r]
                              ELSE reserved[r]]
            /\ drafting' = drafting \ over
  BY Zenon DEF UpdateFromOutput
<1> DEFINE ended == {r \in alive : Stops(r, s.valid[r], eos)}
           goOn == alive \ ended
<1>1. /\ goOn \cup ended \subseteq {r \in DOMAIN s.at : phase[r] = "running"}
      /\ phase' = [r \in Request |-> IF r \in ended THEN "finished" ELSE phase[r]]
      /\ known' = [r \in Request |-> IF r \in goOn THEN known[r] + s.valid[r] ELSE known[r]]
      /\ computed' = [r \in Request |-> IF r \in goOn THEN computed[r] - rejected(r)
                                        ELSE computed[r]]
      /\ reserved' = [r \in Request |-> IF r \in goOn
                                        THEN reserved[r] - rejected(r) - s.valid[r]
                                        ELSE reserved[r]]
      /\ drafting' = drafting \ ended
  BY <1>a, Zenon
<1> HIDE DEF alive, ended, goOn
<1>2. queue # <<>> /\ queue' = Tail(queue)
  BY DEF UpdateFromOutput
<1>3. /\ queue' \in Seq(Steps) /\ Len(queue') = Len(queue) - 1 /\ s = queue[1]
      /\ \A i \in 1 .. Len(queue) - 1 : queue'[i] = queue[i + 1]
      /\ Len(queue) \in Nat /\ Len(queue) >= 1 /\ DOMAIN queue = 1 .. Len(queue)
  BY <1>0, <1>2, HeadTailProperties, EmptySeq, LenProperties DEF SchedTypes
<1>4. \A i \in DOMAIN queue' : FullStep(queue'[i])
  <2> SUFFICES ASSUME NEW i \in 1 .. Len(queue) - 1 PROVE FullStep(queue'[i])
    BY <1>3, LenProperties
  <2>1. i + 1 \in DOMAIN queue
    BY <1>3
  <2> QED BY <1>0, <1>3, <2>1
<1>5. FullStep(s)
  BY <1>0, <1>3
<1> HIDE DEF s
<1>6. \A r \in goOn : /\ s.valid[r] \in Int /\ rejected(r) \in Int /\ rejected(r) >= 0
                      /\ phase[r] = "running"
  BY <1>0, <1>1, <1>5 DEF FullStep
<1> HIDE DEF rejected
<1>7. SchedTypes'
  <2>1. /\ phase' \in [Request -> {"waiting", "running", "finished"}]
        /\ known' \in [Request -> Int]
    BY <1>0, <1>1, <1>6 DEF SchedTypes
  <2>2. computed' \in [Request -> Int] /\ reserved' \in [Request -> Int]
    BY <1>0, <1>1, <1>6 DEF SchedTypes
  <2> QED BY <1>3, <2>1, <2>2 DEF SchedTypes
<1>8. Ahead'
  <2> SUFFICES ASSUME NEW r \in Request
               PROVE  /\ phase'[r] = "waiting" =>
                           computed'[r] = 0 /\ known'[r] = Prompt[r] /\ reserved'[r] = 0
                      /\ phase'[r] = "running" => computed'[r] = known'[r] + reserved'[r] - 1
    BY DEF Ahead
  <2>1. computed[r] \in Int /\ known[r] \in Int /\ reserved[r] \in Int
    BY <1>0 DEF SchedTypes
  <2>2. CASE r \in goOn
    <3>1. computed[r] = known[r] + reserved[r] - 1
      BY <1>0, <1>6, <2>2 DEF Ahead
    <3>2. /\ computed'[r] = computed[r] - rejected(r) /\ known'[r] = known[r] + s.valid[r]
          /\ reserved'[r] = reserved[r] - rejected(r) - s.valid[r] /\ phase'[r] # "waiting"
      BY <1>1, <1>6, <2>2
    <3> QED BY <1>6, <2>1, <2>2, <3>1, <3>2
  <2>3. CASE r \notin goOn
    <3>1. computed'[r] = computed[r] /\ known'[r] = known[r] /\ reserved'[r] = reserved[r]
          /\ phase'[r] \in {phase[r], "finished"}
      BY <1>1, <2>3
    <3> QED BY <1>0, <3>1 DEF Ahead
  <2> QED BY <2>2, <2>3
<1>9. drafting' \subseteq Request /\ DraftersHaveRoom'
  <2> SUFFICES ASSUME NEW r \in drafting PROVE computed'[r] <= Margin
    BY <1>0, <1>1 DEF DraftersHaveRoom, Margin
  <2>1. computed[r] \in Int /\ computed[r] <= Margin /\ Margin \in Int /\ r \in Request
    BY <1>0 DEF SchedTypes, DraftersHaveRoom, Margin, DecodeAssumption
  <2>2. computed'[r] = computed[r] \/ (r \in goOn /\ computed'[r] = computed[r] - rejected(r))
    BY <1>1, <2>1
  <2> QED BY <1>6, <2>1, <2>2
<1> QED BY <1>4, <1>7, <1>8, <1>9 DEF DecodeInv

(* The worker fills in the outputs of a step, at most one more than drafts. *)
LEMMA ExecuteKeeps ==
  ASSUME DecodeAssumption, DecodeInv, Execute
  PROVE  DecodeInv'
<1>0. /\ SchedTypes /\ Ahead /\ drafting \subseteq Request /\ DraftersHaveRoom
      /\ \A i \in DOMAIN queue : FullStep(queue[i])
      /\ NumSpec \in Nat
  BY DEF DecodeInv, DecodeAssumption
<1>1. UNCHANGED schedVars
  BY DEF Execute
<1>2. PICK i, n :
        /\ i \in DOMAIN queue /\ n \in [DOMAIN queue[i].at -> 1 .. 1 + NumSpec]
        /\ \A r \in DOMAIN queue[i].at : n[r] \in MayProduce(queue[i], r)
        /\ queue' = [queue EXCEPT ![i].done = TRUE, ![i].valid = n]
  BY DEF Execute
<1> DEFINE s == queue[i]
           t == [s EXCEPT !.done = TRUE, !.valid = n]
<1>3. s \in Steps /\ FullStep(s)
  BY <1>0, <1>2 DEF SchedTypes
<1>4. queue' = [queue EXCEPT ![i] = t]
  BY <1>0, <1>2 DEF SchedTypes
<1>5. /\ t.prefill = s.prefill /\ t.at = s.at /\ t.drafts = s.drafts /\ t.valid = n
      /\ t \in Steps
  <2>1. n \in Partial
    <3>1. DOMAIN s.at \in SUBSET Request
      BY <1>3 DEF Steps, Partial
    <3>2. n \in [DOMAIN s.at -> Int]
      BY <1>0, <1>2
    <3> QED BY <3>1, <3>2 DEF Partial
  <2> QED BY <1>3, <2>1 DEF Steps
<1>6. \A r \in DOMAIN s.at : n[r] \in Int /\ n[r] <= 1 + s.drafts[r]
  <2> SUFFICES ASSUME NEW r \in DOMAIN s.at PROVE n[r] \in Int /\ n[r] <= 1 + s.drafts[r]
    OBVIOUS
  <2>1. s.drafts[r] \in {0, NumSpec}
    BY <1>3 DEF FullStep
  <2>2. n[r] \in 1 .. (IF DraftsFed(s, r) THEN 1 + DraftsRun(s)[r] ELSE 1)
    BY <1>2 DEF MayProduce
  <2>3. DraftsRun(s)[r] \in {0, s.drafts[r]}
    BY DEF DraftsRun
  <2> HIDE DEF s
  <2> QED BY <1>0, <2>1, <2>2, <2>3
<1> HIDE DEF t
<1>7. FullStep(t)
  <2> HIDE DEF s
  <2> QED BY <1>3, <1>5, <1>6 DEF FullStep
<1>8. queue' \in Seq(Steps) /\ \A j \in DOMAIN queue' : FullStep(queue'[j])
  <2>1. queue' \in Seq(Steps) /\ DOMAIN queue' = DOMAIN queue
    <3>1. i \in 1 .. Len(queue) /\ queue \in Seq(Steps)
      BY <1>0, <1>2 DEF SchedTypes
    <3> QED BY <1>4, <1>5, <3>1, ExceptSeq
  <2>2. \A j \in DOMAIN queue : queue'[j] = IF j = i THEN t ELSE queue[j]
    BY <1>4
  <2> QED BY <1>0, <1>7, <2>1, <2>2
<1>9. SchedTypes' /\ Ahead' /\ drafting' \subseteq Request /\ DraftersHaveRoom'
  BY <1>0, <1>1, <1>8 DEF schedVars, SchedTypes, Ahead, DraftersHaveRoom, Margin
<1> QED BY <1>8, <1>9 DEF DecodeInv

(* Every step keeps the invariant. *)
LEMMA DecodeStep == DecodeAssumption /\ DecodeInv /\ [DecodeNext]_decodeVars => DecodeInv'
<1> SUFFICES ASSUME DecodeAssumption, DecodeInv, [DecodeNext]_decodeVars PROVE DecodeInv'
  OBVIOUS
<1>1. ASSUME NEW r \in Request, SchedulePrefill(r) PROVE DecodeInv'
  BY <1>1, PrefillKeeps
<1>2. CASE ScheduleDecode
  BY <1>2, DecodeStepKeeps
<1>3. CASE UpdateFromOutput
  BY <1>3, UpdateKeeps
<1>4. CASE Execute
  BY <1>4, ExecuteKeeps
<1>5. CASE UNCHANGED decodeVars
  BY <1>5 DEF decodeVars, schedVars, DecodeInv, SchedTypes, Ahead, DraftersHaveRoom, Margin
<1> QED BY <1>1, <1>2, <1>3, <1>4, <1>5 DEF DecodeNext, Schedule

(* Only the compiled shapes are ever planned, and below max_model_len, for   *)
(* any requests, prompts, model length and number of drafts                 *)
(* (NeuronAsyncScheduler._update_after_schedule).                           *)
THEOREM ShapesAreFull == DecodeSpec => []FullShapes
<1>1. DecodeInit => DecodeInv
  BY DecodeInitially, DecodeAssumption
<1>2. DecodeInv /\ [DecodeNext]_decodeVars => DecodeInv'
  BY DecodeStep, DecodeAssumption
<1>3. DecodeInv => FullShapes
  BY DEF DecodeInv, FullStep, FullShapes
<1> QED BY <1>1, <1>2, <1>3, PTL DEF DecodeSpec
------------------------------------------------------------------------------
(* What the books and the device's outputs say of each other.  A position    *)
(* is right if the tokens the books count in flight are those the worker    *)
(* will have produced, and a draft is real if the request it is planned for *)
(* was still far enough from max_model_len, one step before, for the draft  *)
(* model to be run: the invariant follows the promise of drafts from the    *)
(* plan that made it, past the run of the step in between, to the step that *)
(* redeems it.                                                              *)

InStep(r, i) == i \in DOMAIN queue /\ r \in DOMAIN queue[i].at

(* The tokens of a step for r. *)
SizeOf(s, r) == IF s.prefill THEN Prompt[r] ELSE 1 + s.drafts[r]

(* Steps run in the order they were planned in, and each that has run has    *)
(* produced a token for each of its requests.                               *)
Pipeline ==
  /\ end \in [Request -> Nat] /\ cache \in [Request -> Nat] /\ last.rows \in Seq(Request)
  /\ Len(queue) <= QueueDepth
  /\ 2 \in DOMAIN queue /\ queue[2].done => queue[1].done
  /\ \A i \in DOMAIN queue : LET s == queue[i] IN
       /\ DOMAIN s.at # {}
       /\ \A r \in DOMAIN s.at : /\ IF s.done THEN s.valid[r] >= 1 ELSE s.valid[r] = 0
                                 /\ s.prefill => s.drafts[r] = 0
                                 /\ phase[r] # "waiting"

(* A request that runs is on its way: it is in flight or can be planned for, *)
(* short of max_model_len, has drafts to come or was told to stop, and when *)
(* drafts of it are in flight there is room for one step more.              *)
Statuses ==
  /\ queue = <<>> => \A r \in Request : phase[r] # "running"
  /\ \A r \in Request :
       /\ phase[r] = "waiting" => end[r] = Prompt[r] - 1
       /\ phase[r] = "running" => known[r] < MaxModelLen /\ (r \in specOff \/ r \in drafting)
       /\ \A i \in DOMAIN queue : phase[r] = "running" /\ InStep(r, i) /\ ~InStep(r, i + 1)
                                  /\ queue[i].drafts[r] > 0 =>
            computed[r] <= Margin + 1 + NumSpec

(* Of two steps that have not run, the second begins where the scheduler has *)
(* counted every draft of the first as accepted.                            *)
Upcoming ==
  2 \in DOMAIN queue /\ ~queue[1].done /\ ~queue[2].prefill =>
    \A r \in DOMAIN queue[2].at :
      phase[r] = "running" /\ computed[r] = queue[2].at[r] + 1 + queue[2].drafts[r]

(* The steps up to the n-th have run. *)
RanTo(n) ==
  /\ n \in 0 .. Len(queue)
  /\ \A i \in 1 .. n : queue[i].done
  /\ n + 1 \in DOMAIN queue => ~queue[n + 1].done

(* After the n-th step, the next that r is in has drafts of it, or will.     *)
Promised(r, n) ==
  IF InStep(r, n + 1) THEN queue[n + 1].drafts[r] > 0
  ELSE IF InStep(r, n + 2) THEN queue[n + 2].drafts[r] > 0
  ELSE phase[r] = "running" /\ r \in drafting

(* A step before drafts of r are used keeps its row (it is alive), and if it *)
(* has r, is one after which the draft model is run.                        *)
Promises ==
  \A r \in Request : \A i \in DOMAIN queue : Promised(r, i) =>
    /\ r \in queue[i].live
    /\ r \in DOMAIN queue[i].at => /\ queue[i].prefill \/ queue[i].drafts[r] > 0
                                   /\ queue[i].at[r] + SizeOf(queue[i], r) <= Margin

(* The outputs the worker keeps are those of the last step it has run.       *)
Returned ==
  \A n \in DOMAIN queue : RanTo(n) =>
    /\ Rows(last) = DOMAIN queue[n].at
    /\ \A r \in DOMAIN queue[n].at : Correction(r, <<>>) = 1 + queue[n].drafts[r] - queue[n].valid[r]

(* The step that runs next is right once the rejected drafts are taken off.  *)
Aligned ==
  \A n \in 0 .. 1 : RanTo(n) /\ n + 1 \in DOMAIN queue /\ ~queue[n + 1].prefill =>
    /\ Rows(last) # {}
    /\ \A r \in DOMAIN queue[n + 1].at : queue[n + 1].at[r] - Correction(r, <<>>) = end[r]

(* The worker has a row that begins with the last token for every request    *)
(* whose drafts are to come.                                                *)
Proposed ==
  \A n \in 0 .. 2 : \A r \in Request : RanTo(n) /\ Promised(r, n) =>
    /\ cache[r] = end[r] /\ end[r] > 0
    /\ r \in Rows(last) => last.drafts

(* The inductive invariant.  The worker's half of it ends with a step whose  *)
(* requests have partly come to the end of speculation (apart).             *)
PipelineInv ==
  /\ DecodeInv /\ Pipeline /\ BooksBalance /\ Statuses /\ Upcoming /\ Promises
  /\ apart \/ (Returned /\ Aligned /\ Proposed)

------------------------------------------------------------------------------
(* What planning a step does, be it a prompt or the tokens of decodes. *)
Plans(s, reqs) ==
  /\ Len(queue) < QueueDepth /\ queue' = Append(queue, s)
  /\ s \in Steps /\ ~s.done /\ DOMAIN s.at = reqs /\ reqs # {} /\ reqs \subseteq Request
  /\ \A r \in reqs : /\ s.valid[r] = 0 /\ s.at[r] = computed[r] /\ phase'[r] = "running"
                     /\ computed'[r] = computed[r] + SizeOf(s, r)
                     /\ reserved'[r] = reserved[r] + 1 + s.drafts[r]
                     /\ IF s.prefill THEN phase[r] = "waiting" /\ s.drafts[r] = 0
                        ELSE phase[r] = "running" /\ s.drafts[r] = IF r \in drafting THEN NumSpec ELSE 0
  /\ \A r \in Request \ reqs :
       computed'[r] = computed[r] /\ reserved'[r] = reserved[r] /\ phase'[r] = phase[r]
  /\ \A r \in Request : phase'[r] = "running" => r \in s.live
  /\ specOff' = specOff \cup {r \in reqs : computed'[r] > Margin}
  /\ drafting' = (drafting \ reqs) \cup (reqs \ specOff')
  /\ known' = known /\ UNCHANGED workerVars

(* What a plan does to the books and to who may still speculate.             *)
LEMMA PlannedEffect ==
  ASSUME DecodeAssumption, DecodeInv,
         NEW reqs \in SUBSET Request, NEW size \in [reqs -> Int], NEW draft \in [reqs -> Int],
         Planned(reqs, size, draft)
  PROVE  /\ \A r \in Request \ reqs : computed'[r] = computed[r] /\ reserved'[r] = reserved[r]
         /\ \A r \in reqs : /\ computed'[r] = computed[r] + size[r]
                            /\ reserved'[r] = reserved[r] + 1 + draft[r]
         /\ specOff' = specOff \cup {r \in reqs : computed'[r] > Margin}
         /\ drafting' = (drafting \ reqs) \cup (reqs \ specOff')
<1>1. SchedTypes
  BY DEF DecodeInv
<1>2. /\ \A r \in Request \ reqs : computed'[r] = computed[r] /\ reserved'[r] = reserved[r]
      /\ \A r \in reqs : /\ computed'[r] = computed[r] + size[r]
                         /\ reserved'[r] = reserved[r] + 1 + draft[r]
  BY <1>1 DEF Planned, CountPlaceholders, SchedTypes
<1>3. /\ specOff' = specOff \cup {r \in reqs : computed'[r] > Margin}
      /\ drafting' = (drafting \ reqs) \cup (reqs \ specOff')
  BY DEF Planned, Off
<1> QED BY <1>2, <1>3

(* What is appended to the batch queue is a step.                            *)
LEMMA QueuePlanned ==
  ASSUME DecodeInv, DecodeInv', NEW s, queue' = Append(queue, s)
  PROVE  s \in Steps
<1>1. queue \in Seq(Steps) /\ queue' \in Seq(Steps)
  BY DEF DecodeInv, SchedTypes
<1>2. queue'[Len(queue) + 1] = s /\ Len(queue) + 1 \in DOMAIN queue'
  BY <1>1
<1> QED BY <1>1, <1>2

(* Planning a prompt is a plan for its request alone.                        *)
LEMMA PrefillPlans ==
  ASSUME DecodeAssumption, DecodeInv, NEW r \in Request, SchedulePrefill(r)
  PROVE  \E s : Plans(s, {r})
<1> DEFINE size == [q \in {r} |-> Prompt[q]]
           draft == [q \in {r} |-> 0]
           s == Step(TRUE, {r}, draft)
<1>1. /\ phase[r] = "waiting" /\ phase' = [phase EXCEPT ![r] = "running"]
      /\ Planned({r}, size, draft) /\ queue' = Append(queue, s)
      /\ Len(queue) < QueueDepth /\ UNCHANGED <<known, workerVars>>
  BY DEF SchedulePrefill
<1>2. {r} \in SUBSET Request /\ size \in [{r} -> Int] /\ draft \in [{r} -> Int]
  BY DEF DecodeAssumption
<1>3. size[r] = Prompt[r] /\ draft[r] = 0
  OBVIOUS
<1>4. s = [prefill |-> TRUE, at |-> [q \in {r} |-> computed[q]], drafts |-> draft,
           live |-> {q \in Request : phase'[q] = "running"}, done |-> FALSE,
           valid |-> [q \in {r} |-> 0]]
  BY DEF Step
<1>5. SchedTypes
  BY DEF DecodeInv
<1> HIDE DEF size, draft, s
<1>6. /\ \A q \in Request \ {r} : computed'[q] = computed[q] /\ reserved'[q] = reserved[q]
      /\ \A q \in {r} : computed'[q] = computed[q] + size[q] /\ reserved'[q] = reserved[q] + 1 + draft[q]
      /\ specOff' = specOff \cup {q \in {r} : computed'[q] > Margin}
      /\ drafting' = (drafting \ {r}) \cup ({r} \ specOff')
  BY <1>1, <1>2, PlannedEffect
<1>7. DecodeInv'
  BY PrefillKeeps
<1>8. s \in Steps
  BY <1>1, <1>7, QueuePlanned
<1>9. /\ ~s.done /\ DOMAIN s.at = {r} /\ s.prefill /\ s.live = {q \in Request : phase'[q] = "running"}
      /\ s.valid[r] = 0 /\ s.at[r] = computed[r] /\ s.drafts[r] = 0
  BY <1>3, <1>4
<1>10. /\ \A q \in Request \ {r} : phase'[q] = phase[q]
       /\ phase'[r] = "running"
  BY <1>1, <1>5 DEF SchedTypes
<1> QED BY <1>1, <1>3, <1>6, <1>8, <1>9, <1>10 DEF Plans, SizeOf

(* A decode step is a plan for everything decodable, with all drafts or      *)
(* none.                                                                     *)
LEMMA DecodePlans ==
  ASSUME DecodeAssumption, DecodeInv, ScheduleDecode
  PROVE  \E s : Plans(s, Decodable) /\ ~s.prefill
<1> DEFINE D == Decodable
           size == [r \in D |-> NewTokens(r)]
           draft == [r \in D |-> size[r] - 1]
           s == Step(FALSE, D, draft)
<1>1. /\ phase' = phase /\ known' = known /\ D # {}
      /\ Planned(D, size, draft) /\ queue' = Append(queue, s)
      /\ Len(queue) < QueueDepth /\ UNCHANGED workerVars
  BY DEF ScheduleDecode
<1>2. /\ D \in SUBSET Request /\ \A r \in D : phase[r] = "running"
  BY DEF Decodable
<1>3. \A r \in D : NewTokens(r) \in Int /\ NewTokens(r) = 1 + IF r \in drafting THEN NumSpec ELSE 0
  BY NoneTrimmed
<1>4. /\ size \in [D -> Int] /\ draft \in [D -> Int]
      /\ \A r \in D : size[r] = NewTokens(r) /\ draft[r] = NewTokens(r) - 1
  BY <1>3
<1>5. s = [prefill |-> FALSE, at |-> [r \in D |-> computed[r]], drafts |-> draft,
           live |-> {r \in Request : phase'[r] = "running"}, done |-> FALSE,
           valid |-> [r \in D |-> 0]]
  BY DEF Step
<1>6. SchedTypes /\ NumSpec \in Nat
  BY DEF DecodeInv, DecodeAssumption
<1> HIDE DEF D, size, draft, s
<1>7. /\ \A r \in Request \ D : computed'[r] = computed[r] /\ reserved'[r] = reserved[r]
      /\ \A r \in D : computed'[r] = computed[r] + size[r] /\ reserved'[r] = reserved[r] + 1 + draft[r]
      /\ specOff' = specOff \cup {r \in D : computed'[r] > Margin}
      /\ drafting' = (drafting \ D) \cup (D \ specOff')
  BY <1>1, <1>2, <1>4, PlannedEffect
<1>8. DecodeInv'
  BY DecodeStepKeeps
<1>9. s \in Steps
  BY <1>1, <1>8, QueuePlanned
<1>10. /\ ~s.done /\ DOMAIN s.at = D /\ ~s.prefill /\ s.live = {q \in Request : phase'[q] = "running"}
       /\ s.drafts = draft
       /\ \A r \in D : s.valid[r] = 0 /\ s.at[r] = computed[r]
  BY <1>5
<1>11. \A r \in D : /\ s.drafts[r] = IF r \in drafting THEN NumSpec ELSE 0
                    /\ size[r] = SizeOf(s, r)
  BY <1>3, <1>4, <1>6, <1>10 DEF SizeOf
<1>12. Plans(s, D)
  BY <1>1, <1>2, <1>7, <1>9, <1>10, <1>11 DEF Plans
<1> QED BY <1>10, <1>12 DEF D

(* The queue after a plan. *)
LEMMA QueueAfterPlan ==
  ASSUME DecodeInv, Pipeline, NEW s, NEW reqs, Plans(s, reqs)
  PROVE  /\ Len(queue) \in 0 .. 1 /\ Len(queue') = Len(queue) + 1
         /\ DOMAIN queue = 1 .. Len(queue) /\ DOMAIN queue' = 1 .. Len(queue) + 1
         /\ \A i \in 1 .. Len(queue) : queue'[i] = queue[i]
         /\ queue'[Len(queue) + 1] = s
         /\ \A i \in 1 .. Len(queue) : queue[i].done \in BOOLEAN
<1>1. queue \in Seq(Steps)
  BY DEF DecodeInv, SchedTypes
<1>2. Len(queue) < 2 /\ queue' = Append(queue, s)
  BY DEF Plans, QueueDepth
<1>3. \A i \in 1 .. Len(queue) : queue[i] \in Steps
  BY <1>1
<1>4. \A i \in 1 .. Len(queue) : queue[i].done \in BOOLEAN
  BY <1>3 DEF Steps
<1>5. s \in Steps /\ Len(queue) \in Nat /\ DOMAIN queue = 1 .. Len(queue)
  BY <1>1 DEF Plans
<1>6. queue' = Append(queue, s) /\ queue' \in Seq(Steps) /\ Len(queue') = Len(queue) + 1
      /\ queue'[Len(queue) + 1] = s
      /\ \A i \in 1 .. Len(queue) : queue'[i] = queue[i]
  BY <1>1, <1>2, <1>5, AppendProperties
<1>7. DOMAIN queue' = 1 .. Len(queue) + 1
  BY <1>6
<1> QED BY <1>2, <1>4, <1>5, <1>6, <1>7

(* Who is promised drafts after a plan was promised them before it.          *)
LEMMA PromisesPlanned ==
  ASSUME DecodeInv, Pipeline, NEW s, NEW reqs, Plans(s, reqs),
         NEW r \in Request, NEW n \in 0 .. Len(queue), Promised(r, n)'
  PROVE  Promised(r, n)
<1>1. /\ Len(queue) \in 0 .. 1
      /\ DOMAIN queue = 1 .. Len(queue) /\ DOMAIN queue' = 1 .. Len(queue) + 1
      /\ \A i \in 1 .. Len(queue) : queue'[i] = queue[i]
      /\ queue'[Len(queue) + 1] = s
  BY QueueAfterPlan
<1>2. /\ DOMAIN s.at = reqs
      /\ r \in reqs => IF s.prefill THEN s.drafts[r] = 0
                       ELSE phase[r] = "running" /\ s.drafts[r] = IF r \in drafting THEN NumSpec ELSE 0
      /\ r \notin reqs => phase'[r] = phase[r]
      /\ r \notin reqs /\ r \in drafting' => r \in drafting
  BY DEF Plans
<1>3. CASE Len(queue) = 0
  <2>1. n = 0 /\ DOMAIN queue = {} /\ DOMAIN queue' = {1} /\ queue'[1] = s
    BY <1>1, <1>3
  <2> QED BY <1>2, <2>1 DEF Promised, InStep
<1>4. CASE Len(queue) = 1 /\ n = 0
  <2>1. DOMAIN queue = {1} /\ DOMAIN queue' = {1, 2} /\ queue'[1] = queue[1] /\ queue'[2] = s
    BY <1>1, <1>4
  <2> QED BY <1>2, <1>4, <2>1 DEF Promised, InStep
<1>5. CASE Len(queue) = 1 /\ n = 1
  <2>1. DOMAIN queue = {1} /\ DOMAIN queue' = {1, 2} /\ queue'[1] = queue[1] /\ queue'[2] = s
    BY <1>1, <1>5
  <2> QED BY <1>2, <1>5, <2>1 DEF Promised, InStep
<1> QED BY <1>1, <1>3, <1>4, <1>5

(* A planned step has not run and has produced nothing.                      *)
LEMMA PipelinePlanned ==
  ASSUME DecodeAssumption, DecodeInv, Pipeline, NEW s, NEW reqs, Plans(s, reqs)
  PROVE  Pipeline'
<1>1. /\ Len(queue) \in 0 .. 1 /\ Len(queue') = Len(queue) + 1
      /\ DOMAIN queue = 1 .. Len(queue) /\ DOMAIN queue' = 1 .. Len(queue) + 1
      /\ \A i \in 1 .. Len(queue) : queue'[i] = queue[i]
      /\ queue'[Len(queue) + 1] = s
  BY QueueAfterPlan
<1>2. end' = end /\ cache' = cache /\ last' = last
  BY DEF Plans, workerVars
<1>3. Len(queue') <= QueueDepth
  BY <1>1 DEF QueueDepth
<1>4. 2 \in DOMAIN queue' => ~queue'[2].done
  BY <1>1 DEF Plans
<1>5. ASSUME NEW i \in DOMAIN queue'
      PROVE  /\ DOMAIN queue'[i].at # {}
             /\ \A r \in DOMAIN queue'[i].at :
                  /\ IF queue'[i].done THEN queue'[i].valid[r] >= 1 ELSE queue'[i].valid[r] = 0
                  /\ queue'[i].prefill => queue'[i].drafts[r] = 0
                  /\ phase'[r] # "waiting"
  <2>1. CASE i = Len(queue) + 1
    BY <1>1, <2>1 DEF Plans
  <2>2. CASE i # Len(queue) + 1
    <3>1. i \in DOMAIN queue /\ queue'[i] = queue[i]
      BY <1>1, <2>2
    <3>2. queue[i] \in Steps
      BY <3>1 DEF DecodeInv, SchedTypes
    <3>3. \A r \in DOMAIN queue[i].at : r \in Request
      BY <3>2 DEF Steps, Partial
    <3>4. \A r \in Request : phase[r] # "waiting" => phase'[r] # "waiting"
      BY DEF Plans
    <3> QED BY <3>1, <3>3, <3>4 DEF Pipeline
  <2> QED BY <2>1, <2>2
<1> QED BY <1>2, <1>3, <1>4, <1>5 DEF Pipeline

(* The books' entries are numbers. *)
LEMMA SharesTyped ==
  ASSUME DecodeAssumption, DecodeInv, NEW r \in Request, NEW i \in Nat
  PROVE  Places(r, i) \in Nat /\ Produced(r, i) \in Int
<1>1. CASE i \in DOMAIN queue /\ r \in DOMAIN queue[i].at
  <2>1. queue[i].drafts[r] \in {0, NumSpec} /\ queue[i].valid[r] \in Int /\ NumSpec \in Nat
    BY <1>1 DEF DecodeInv, FullStep, DecodeAssumption
  <2> QED BY <1>1, <2>1 DEF Places, Produced
<1>2. CASE ~(i \in DOMAIN queue /\ r \in DOMAIN queue[i].at)
  BY <1>2 DEF Places, Produced
<1> QED BY <1>1, <1>2

(* A plan adds its placeholders to the books, and no tokens.                 *)
LEMMA SharesPlanned ==
  ASSUME DecodeAssumption, DecodeInv, Pipeline, NEW s, NEW reqs, Plans(s, reqs), NEW r \in Request
  PROVE  /\ Places(r, 1)' + Places(r, 2)' = Places(r, 1) + Places(r, 2)
              + (IF r \in reqs THEN 1 + s.drafts[r] ELSE 0)
         /\ Produced(r, 1)' + Produced(r, 2)' = Produced(r, 1) + Produced(r, 2)
         /\ r \in reqs => s.drafts[r] \in {0, NumSpec}
<1>1. /\ Len(queue) \in 0 .. 1
      /\ DOMAIN queue = 1 .. Len(queue) /\ DOMAIN queue' = 1 .. Len(queue) + 1
      /\ \A i \in 1 .. Len(queue) : queue'[i] = queue[i]
      /\ queue'[Len(queue) + 1] = s
  BY QueueAfterPlan
<1>2. DOMAIN s.at = reqs /\ (r \in reqs => s.valid[r] = 0)
  BY DEF Plans
<1>3. r \in reqs => s.drafts[r] \in {0, NumSpec} /\ NumSpec \in Nat
  BY DEF Plans, DecodeAssumption
<1>4. Places(r, 1) \in Nat /\ Produced(r, 1) \in Int
  BY SharesTyped
<1>5. CASE Len(queue) = 0
  <2>1. DOMAIN queue = {} /\ DOMAIN queue' = {1} /\ queue'[1] = s
    BY <1>1, <1>5
  <2>2. /\ Places(r, 1) = 0 /\ Places(r, 2) = 0 /\ Produced(r, 1) = 0 /\ Produced(r, 2) = 0
        /\ Places(r, 2)' = 0 /\ Produced(r, 2)' = 0
    BY <2>1 DEF Places, Produced
  <2>3. /\ Places(r, 1)' = IF r \in reqs THEN 1 + s.drafts[r] ELSE 0
        /\ Produced(r, 1)' = 0
    BY <1>2, <2>1 DEF Places, Produced
  <2> QED BY <1>3, <2>2, <2>3
<1>6. CASE Len(queue) = 1
  <2>1. DOMAIN queue = {1} /\ DOMAIN queue' = {1, 2} /\ queue'[1] = queue[1] /\ queue'[2] = s
    BY <1>1, <1>6
  <2>2. /\ Places(r, 1)' = Places(r, 1) /\ Produced(r, 1)' = Produced(r, 1)
        /\ Places(r, 2) = 0 /\ Produced(r, 2) = 0
    BY <2>1 DEF Places, Produced
  <2>3. /\ Places(r, 2)' = IF r \in reqs THEN 1 + s.drafts[r] ELSE 0
        /\ Produced(r, 2)' = 0
    BY <1>2, <2>1 DEF Places, Produced
  <2> QED BY <1>3, <1>4, <2>2, <2>3
<1> QED BY <1>1, <1>3, <1>5, <1>6

(* A request that waits is in no step. *)
LEMMA WaitingShares ==
  ASSUME Pipeline, NEW r \in Request, phase[r] = "waiting", NEW i \in Nat
  PROVE  Places(r, i) = 0 /\ Produced(r, i) = 0
  BY DEF Pipeline, Places, Produced

(* The books balance after a plan.                                           *)
LEMMA BooksPlanned ==
  ASSUME DecodeAssumption, DecodeInv, Pipeline, BooksBalance, Statuses, NEW s, NEW reqs, Plans(s, reqs)
  PROVE  BooksBalance'
<1> SUFFICES ASSUME NEW r \in Request, phase'[r] = "running"
             PROVE  /\ reserved'[r] = Places(r, 1)' + Places(r, 2)'
                    /\ computed'[r] = known'[r] + reserved'[r] - 1
                    /\ known'[r] + Produced(r, 1)' + Produced(r, 2)' = end'[r] + 1
  BY DEF BooksBalance
<1>1. /\ Places(r, 1)' + Places(r, 2)' = Places(r, 1) + Places(r, 2)
           + (IF r \in reqs THEN 1 + s.drafts[r] ELSE 0)
      /\ Produced(r, 1)' + Produced(r, 2)' = Produced(r, 1) + Produced(r, 2)
      /\ r \in reqs => s.drafts[r] \in {0, NumSpec}
  BY SharesPlanned
<1>2. /\ Places(r, 1) \in Nat /\ Places(r, 2) \in Nat /\ Produced(r, 1) \in Int /\ Produced(r, 2) \in Int
      /\ Places(r, 1)' \in Nat /\ Places(r, 2)' \in Nat /\ Produced(r, 1)' \in Int /\ Produced(r, 2)' \in Int
  <2>1. Places(r, 1) \in Nat /\ Places(r, 2) \in Nat /\ Produced(r, 1) \in Int /\ Produced(r, 2) \in Int
    BY SharesTyped
  <2>2. /\ DOMAIN s.at = reqs /\ (r \in reqs => s.valid[r] = 0)
    BY DEF Plans
  <2>3. NumSpec \in Nat
    BY DEF DecodeAssumption
  <2>4. /\ Len(queue) \in 0 .. 1
        /\ DOMAIN queue = 1 .. Len(queue) /\ DOMAIN queue' = 1 .. Len(queue) + 1
        /\ \A i \in 1 .. Len(queue) : queue'[i] = queue[i]
        /\ queue'[Len(queue) + 1] = s
    BY QueueAfterPlan
  <2>5. ASSUME NEW i \in {1, 2} PROVE Places(r, i)' \in Nat /\ Produced(r, i)' \in Int
    <3>1. CASE i \in DOMAIN queue
      <4>1. Places(r, i)' = Places(r, i) /\ Produced(r, i)' = Produced(r, i)
        BY <2>4, <3>1 DEF Places, Produced
      <4> QED BY <2>1, <4>1
    <3>2. CASE i = Len(queue) + 1
      <4>1. i \in DOMAIN queue' /\ queue'[i] = s
        BY <2>4, <3>2
      <4>2. /\ Places(r, i)' = IF r \in reqs THEN 1 + s.drafts[r] ELSE 0
            /\ Produced(r, i)' = 0
        BY <2>2, <4>1 DEF Places, Produced
      <4> QED BY <1>1, <2>3, <4>2
    <3>3. CASE i \notin DOMAIN queue'
      BY <3>3 DEF Places, Produced
    <3>4. i \in DOMAIN queue \/ i = Len(queue) + 1 \/ i \notin DOMAIN queue'
      BY <2>4
    <3> QED BY <3>1, <3>2, <3>3, <3>4, Zenon
  <2> QED BY <2>1, <2>5
<1>3. /\ computed[r] \in Int /\ known[r] \in Int /\ reserved[r] \in Int /\ end[r] \in Nat
      /\ Prompt[r] \in Nat /\ NumSpec \in Nat
  BY DEF DecodeInv, SchedTypes, Pipeline, DecodeAssumption
<1>4. known'[r] = known[r] /\ end'[r] = end[r]
  BY DEF Plans, workerVars
<1>5. CASE r \notin reqs
  <2>1. computed'[r] = computed[r] /\ reserved'[r] = reserved[r] /\ phase[r] = "running"
    BY <1>5 DEF Plans
  <2>2. /\ reserved[r] = Places(r, 1) + Places(r, 2)
        /\ computed[r] = known[r] + reserved[r] - 1
        /\ known[r] + Produced(r, 1) + Produced(r, 2) = end[r] + 1
    BY <2>1 DEF BooksBalance
  <2> QED BY <1>1, <1>2, <1>3, <1>4, <1>5, <2>1, <2>2
<1>6. CASE r \in reqs /\ ~s.prefill
  <2>1. /\ computed'[r] = computed[r] + 1 + s.drafts[r] /\ reserved'[r] = reserved[r] + 1 + s.drafts[r]
        /\ phase[r] = "running"
    BY <1>1, <1>3, <1>6 DEF Plans, SizeOf
  <2>2. /\ reserved[r] = Places(r, 1) + Places(r, 2)
        /\ computed[r] = known[r] + reserved[r] - 1
        /\ known[r] + Produced(r, 1) + Produced(r, 2) = end[r] + 1
    BY <2>1 DEF BooksBalance
  <2> QED BY <1>1, <1>2, <1>3, <1>4, <1>6, <2>1, <2>2
<1>7. CASE r \in reqs /\ s.prefill
  <2>1. /\ computed'[r] = computed[r] + Prompt[r] /\ reserved'[r] = reserved[r] + 1 + 0 /\ s.drafts[r] = 0
        /\ phase[r] = "waiting"
    BY <1>7 DEF Plans, SizeOf
  <2>2. /\ Places(r, 1) = 0 /\ Places(r, 2) = 0 /\ Produced(r, 1) = 0 /\ Produced(r, 2) = 0
    BY <2>1, WaitingShares
  <2>3. computed[r] = 0 /\ known[r] = Prompt[r] /\ reserved[r] = 0 /\ end[r] = Prompt[r] - 1
    BY <2>1 DEF DecodeInv, Ahead, Statuses
  <2>4. /\ Places(r, 1)' + Places(r, 2)' = 1 /\ Produced(r, 1)' + Produced(r, 2)' = 0
    BY <1>1, <1>7, <2>1, <2>2
  <2>5. computed'[r] = Prompt[r] /\ reserved'[r] = 1 /\ known'[r] = Prompt[r]
    BY <1>3, <1>4, <2>1, <2>3
  <2> QED BY <1>2, <1>3, <1>4, <2>3, <2>4, <2>5
<1> QED BY <1>5, <1>6, <1>7

(* A request speculates or was told to stop, and one whose drafts are in     *)
(* flight stays short of the end.                                            *)
LEMMA StatusesPlanned ==
  ASSUME DecodeAssumption, DecodeInv, Pipeline, Statuses, NEW s, NEW reqs, Plans(s, reqs)
  PROVE  Statuses'
<1>1. /\ Len(queue) \in 0 .. 1 /\ Len(queue') = Len(queue) + 1
      /\ DOMAIN queue = 1 .. Len(queue) /\ DOMAIN queue' = 1 .. Len(queue) + 1
      /\ \A i \in 1 .. Len(queue) : queue'[i] = queue[i]
      /\ queue'[Len(queue) + 1] = s
  BY QueueAfterPlan
<1>2. queue' # <<>>
  BY <1>1
<1>3. /\ NumSpec \in Nat /\ Margin \in Int /\ known' = known /\ end' = end
      /\ computed \in [Request -> Int]
  BY DEF DecodeAssumption, Margin, Plans, workerVars, DecodeInv, SchedTypes
<1> SUFFICES ASSUME NEW r \in Request
             PROVE  /\ phase'[r] = "waiting" => end'[r] = Prompt[r] - 1
                    /\ phase'[r] = "running" => known'[r] < MaxModelLen /\ (r \in specOff' \/ r \in drafting')
                    /\ \A i \in DOMAIN queue' :
                         phase'[r] = "running" /\ InStep(r, i)' /\ ~InStep(r, i + 1)'
                         /\ queue'[i].drafts[r] > 0 =>
                           computed'[r] <= Margin' + 1 + NumSpec
  BY <1>2 DEF Statuses
<1>4. CASE r \notin reqs
  <2>1. computed'[r] = computed[r] /\ phase'[r] = phase[r] /\ DOMAIN s.at = reqs
    BY <1>4 DEF Plans
  <2>2. phase'[r] = "running" => known'[r] < MaxModelLen /\ (r \in specOff' \/ r \in drafting')
    BY <1>3, <1>4, <2>1 DEF Statuses, Plans
  <2>3. ASSUME NEW i \in DOMAIN queue', phase'[r] = "running", InStep(r, i)', ~InStep(r, i + 1)',
               queue'[i].drafts[r] > 0
        PROVE  computed'[r] <= Margin' + 1 + NumSpec
    <3>1. i \in DOMAIN queue /\ queue'[i] = queue[i]
      BY <1>1, <1>4, <2>1, <2>3 DEF InStep
    <3>2. InStep(r, i) /\ ~InStep(r, i + 1)
      BY <1>1, <2>1, <2>3, <3>1 DEF InStep
    <3> QED BY <2>1, <2>3, <3>1, <3>2 DEF Statuses, Margin
  <2>4. phase'[r] = "waiting" => end'[r] = Prompt[r] - 1
    BY <1>3, <2>1 DEF Statuses
  <2> QED BY <2>2, <2>3, <2>4
<1>5. CASE r \in reqs
  <2>1. phase'[r] = "running"
    BY <1>5 DEF Plans
  <2>2. known[r] < MaxModelLen
    <3>1. CASE phase[r] = "waiting"
      BY <3>1 DEF DecodeInv, Ahead, DecodeAssumption
    <3>2. CASE phase[r] = "running"
      BY <3>2 DEF Statuses
    <3> QED BY <1>5, <3>1, <3>2 DEF Plans
  <2>3. r \in specOff' \/ r \in drafting'
    BY <1>5 DEF Plans
  <2>4. ASSUME NEW i \in DOMAIN queue', ~InStep(r, i + 1)', queue'[i].drafts[r] > 0
        PROVE  computed'[r] <= Margin' + 1 + NumSpec
    <3>1. i = Len(queue) + 1 /\ queue'[i] = s
      <4>1. Len(queue) + 1 \in DOMAIN queue' /\ r \in DOMAIN queue'[Len(queue) + 1].at
        <5>1. DOMAIN s.at = reqs
          BY DEF Plans
        <5>2. Len(queue) + 1 \in DOMAIN queue'
          BY <1>1
        <5> QED BY <1>1, <1>5, <5>1, <5>2
      <4>2. CASE i # Len(queue) + 1
        <5>1. i + 1 = Len(queue) + 1
          BY <1>1, <4>2
        <5> QED BY <2>4, <4>1, <5>1 DEF InStep
      <4> QED BY <1>1, <4>2
    <3>2. ~s.prefill /\ r \in drafting /\ s.drafts[r] = NumSpec
      BY <1>5, <2>4, <3>1 DEF Plans
    <3>3. computed[r] <= Margin /\ computed'[r] = computed[r] + (1 + NumSpec)
      BY <1>5, <3>2 DEF Plans, SizeOf, DecodeInv, DraftersHaveRoom
    <3> QED BY <1>3, <3>3 DEF Margin
  <2> QED BY <1>3, <2>1, <2>2, <2>3, <2>4
<1> QED BY <1>4, <1>5

(* The step that was just planned begins where the books stand.              *)
LEMMA UpcomingPlanned ==
  ASSUME DecodeAssumption, DecodeInv, Pipeline, NEW s, NEW reqs, Plans(s, reqs)
  PROVE  Upcoming'
<1>1. /\ Len(queue) \in 0 .. 1
      /\ DOMAIN queue = 1 .. Len(queue) /\ DOMAIN queue' = 1 .. Len(queue) + 1
      /\ queue'[Len(queue) + 1] = s
  BY QueueAfterPlan
<1> SUFFICES ASSUME 2 \in DOMAIN queue', ~queue'[2].prefill, NEW r \in DOMAIN queue'[2].at
             PROVE  phase'[r] = "running" /\ computed'[r] = queue'[2].at[r] + 1 + queue'[2].drafts[r]
  BY DEF Upcoming
<1>2. queue'[2] = s
  BY <1>1
<1>3. r \in reqs /\ ~s.prefill
  BY <1>2 DEF Plans
<1>4. /\ phase'[r] = "running" /\ computed'[r] = computed[r] + (1 + s.drafts[r]) /\ s.at[r] = computed[r]
      /\ s.drafts[r] \in {0, NumSpec} /\ r \in Request
  BY <1>3 DEF Plans, SizeOf
<1>5. computed[r] \in Int /\ NumSpec \in Nat
  BY <1>4 DEF DecodeInv, SchedTypes, DecodeAssumption
<1> QED BY <1>2, <1>4, <1>5

(* Who is promised drafts had them planned, far enough from the end.         *)
LEMMA PromisesKeptPlanned ==
  ASSUME DecodeAssumption, DecodeInv, Pipeline, Statuses, Promises, NEW s, NEW reqs, Plans(s, reqs)
  PROVE  Promises'
<1>1. /\ Len(queue) \in 0 .. 1
      /\ DOMAIN queue = 1 .. Len(queue) /\ DOMAIN queue' = 1 .. Len(queue) + 1
      /\ \A i \in 1 .. Len(queue) : queue'[i] = queue[i]
      /\ queue'[Len(queue) + 1] = s
  BY QueueAfterPlan
<1> SUFFICES ASSUME NEW r \in Request, NEW i \in DOMAIN queue', Promised(r, i)'
             PROVE  /\ r \in queue'[i].live
                    /\ r \in DOMAIN queue'[i].at => /\ queue'[i].prefill \/ queue'[i].drafts[r] > 0
                                                    /\ queue'[i].at[r] + SizeOf(queue'[i], r) <= Margin'
  BY DEF Promises, SizeOf
<1>2. CASE i \in DOMAIN queue
  <2>1. Promised(r, i)
    <3>1. i \in 0 .. Len(queue)
      BY <1>1, <1>2
    <3> QED BY <3>1, PromisesPlanned
  <2>2. queue'[i] = queue[i]
    BY <1>1, <1>2
  <2> QED BY <1>2, <2>1, <2>2 DEF Promises, Margin
<1>3. CASE i = Len(queue) + 1
  <2>1. ~InStep(r, i + 1)' /\ ~InStep(r, i + 2)' /\ queue'[i] = s
    BY <1>1, <1>3 DEF InStep
  <2>2. phase'[r] = "running" /\ r \in drafting'
    BY <2>1 DEF Promised
  <2>3. r \in s.live
    BY <2>2 DEF Plans
  <2>4. ASSUME r \in reqs PROVE (s.prefill \/ s.drafts[r] > 0) /\ s.at[r] + SizeOf(s, r) <= Margin'
    <3>1. r \notin specOff' /\ ~(computed'[r] > Margin) /\ r \notin specOff
      BY <2>2, <2>4 DEF Plans
    <3>2. computed'[r] = s.at[r] + SizeOf(s, r)
      BY <2>4 DEF Plans
    <3>3. s.prefill \/ s.drafts[r] > 0
      <4>1. CASE ~s.prefill
        <5>1. phase[r] = "running" /\ s.drafts[r] = IF r \in drafting THEN NumSpec ELSE 0
          BY <2>4, <4>1 DEF Plans
        <5>2. r \in drafting
          BY <3>1, <5>1 DEF Statuses
        <5>3. NumSpec \in Nat \ {0}
          BY DEF DecodeAssumption
        <5> QED BY <5>1, <5>2, <5>3
      <4> QED BY <4>1
    <3>4. computed'[r] \in Int /\ Margin \in Int /\ Margin' = Margin
      <4>1. computed[r] \in Int /\ Prompt[r] \in Int /\ NumSpec \in Int /\ MaxModelLen \in Int
        BY DEF DecodeInv, SchedTypes, DecodeAssumption
      <4>2. s.drafts[r] \in {0, NumSpec} /\ s.at[r] = computed[r]
        BY <2>4 DEF Plans
      <4> QED BY <3>2, <4>1, <4>2 DEF SizeOf, Margin
    <3> QED BY <3>1, <3>2, <3>3, <3>4
  <2> QED BY <2>1, <2>3, <2>4 DEF Plans
<1> QED BY <1>1, <1>2, <1>3

(* A plan leaves what has run as it is. *)
LEMMA RunPlanned ==
  ASSUME DecodeInv, Pipeline, NEW s, NEW reqs, Plans(s, reqs), NEW n, RanTo(n)'
  PROVE  RanTo(n) /\ n <= Len(queue)
<1>1. /\ Len(queue) \in 0 .. 1 /\ Len(queue') = Len(queue) + 1
      /\ DOMAIN queue = 1 .. Len(queue) /\ DOMAIN queue' = 1 .. Len(queue) + 1
      /\ \A i \in 1 .. Len(queue) : queue'[i] = queue[i]
      /\ queue'[Len(queue) + 1] = s
  BY QueueAfterPlan
<1>2. n \in 0 .. Len(queue) + 1 /\ \A i \in 1 .. n : queue'[i].done
  BY <1>1 DEF RanTo
<1>3. n # Len(queue) + 1
  BY <1>1, <1>2 DEF Plans
<1>4. n \in 0 .. Len(queue)
  BY <1>1, <1>2, <1>3
<1>5. \A i \in 1 .. n : queue[i].done
  BY <1>1, <1>2, <1>4
<1>6. n + 1 \in DOMAIN queue => ~queue[n + 1].done
  BY <1>1, <1>4 DEF RanTo
<1> QED BY <1>1, <1>4, <1>5, <1>6 DEF RanTo

(* The worker's side of the invariant holds after a plan. *)
LEMMA InputsPlanned ==
  ASSUME DecodeAssumption, DecodeInv, Pipeline, BooksBalance, Statuses,
         Returned, Aligned, Proposed, NEW s, NEW reqs, Plans(s, reqs)
  PROVE  Returned' /\ Aligned' /\ Proposed'
<1>1. /\ Len(queue) \in 0 .. 1 /\ Len(queue') = Len(queue) + 1
      /\ DOMAIN queue = 1 .. Len(queue) /\ DOMAIN queue' = 1 .. Len(queue) + 1
      /\ \A i \in 1 .. Len(queue) : queue'[i] = queue[i]
      /\ queue'[Len(queue) + 1] = s
  BY QueueAfterPlan
<1>2. end' = end /\ cache' = cache /\ last' = last /\ Rows(last)' = Rows(last)
  BY DEF Plans, workerVars, Rows
<1>3. \A r : Correction(r, <<>>)' = Correction(r, <<>>)
  BY <1>2 DEF Correction, PrevRow, Rows
<1>4. Returned'
  <2> SUFFICES ASSUME NEW n \in DOMAIN queue', RanTo(n)'
               PROVE  /\ Rows(last) = DOMAIN queue'[n].at
                      /\ \A r \in DOMAIN queue'[n].at :
                           Correction(r, <<>>) = 1 + queue'[n].drafts[r] - queue'[n].valid[r]
    BY <1>2, <1>3 DEF Returned
  <2>1. RanTo(n) /\ n <= Len(queue)
    BY RunPlanned
  <2>2. n \in DOMAIN queue /\ queue'[n] = queue[n]
    BY <1>1, <2>1
  <2> QED BY <2>1, <2>2 DEF Returned
<1>5. Aligned'
  <2> SUFFICES ASSUME NEW n \in 0 .. 1, RanTo(n)', n + 1 \in DOMAIN queue', ~queue'[n + 1].prefill
               PROVE  /\ Rows(last) # {}
                      /\ \A r \in DOMAIN queue'[n + 1].at :
                           queue'[n + 1].at[r] - Correction(r, <<>>) = end[r]
    BY <1>2, <1>3 DEF Aligned
  <2>1. RanTo(n) /\ n <= Len(queue)
    BY RunPlanned
  <2>2. CASE n + 1 \in DOMAIN queue
    <3>1. queue'[n + 1] = queue[n + 1]
      BY <1>1, <2>2
    <3> QED BY <2>1, <2>2, <3>1 DEF Aligned
  <2>3. CASE n + 1 \notin DOMAIN queue
    <3>1. n = Len(queue) /\ queue'[n + 1] = s /\ ~s.prefill
      <4>1. n = Len(queue)
        <5>1. Len(queue) \in 0 .. 1 /\ n <= Len(queue) /\ n + 1 \notin 1 .. Len(queue)
          BY <1>1, <2>1, <2>3
        <5> QED BY <5>1
      <4> QED BY <1>1, <4>1
    <3>2. reqs # {} /\ reqs \subseteq Request /\ DOMAIN s.at = reqs
      BY DEF Plans
    <3>3. \A r \in reqs : phase[r] = "running" /\ s.at[r] = computed[r]
      BY <3>1 DEF Plans
    <3>4. n = 1 /\ queue # <<>>
      BY <1>1, <3>1, <3>2, <3>3 DEF Statuses
    <3>5. /\ Rows(last) = DOMAIN queue[1].at /\ DOMAIN queue[1].at # {}
          /\ \A r \in DOMAIN queue[1].at : Correction(r, <<>>) = 1 + queue[1].drafts[r] - queue[1].valid[r]
      BY <1>1, <2>1, <3>1, <3>4 DEF Returned, Pipeline
    <3>6. ASSUME NEW r \in reqs PROVE s.at[r] - Correction(r, <<>>) = end[r]
      <4>1. /\ reserved[r] = Places(r, 1) + Places(r, 2)
            /\ computed[r] = known[r] + reserved[r] - 1
            /\ known[r] + Produced(r, 1) + Produced(r, 2) = end[r] + 1
        BY <3>2, <3>3, <3>6 DEF BooksBalance
      <4>2. Places(r, 2) = 0 /\ Produced(r, 2) = 0
        BY <1>1, <3>1, <3>4 DEF Places, Produced
      <4>3. /\ Places(r, 1) \in Nat /\ Produced(r, 1) \in Int
            /\ known[r] \in Int /\ end[r] \in Int /\ computed[r] \in Int /\ reserved[r] \in Int
        <5>1. r \in Request
          BY <3>2, <3>6
        <5>2. Places(r, 1) \in Nat /\ Produced(r, 1) \in Int
          BY <5>1, SharesTyped
        <5> QED BY <5>1, <5>2 DEF DecodeInv, SchedTypes, Pipeline
      <4>4. s.at[r] = known[r] + Places(r, 1) - 1 /\ known[r] + Produced(r, 1) = end[r] + 1
        BY <3>3, <3>6, <4>1, <4>2, <4>3
      <4>5. CASE r \in DOMAIN queue[1].at
        <5>1. /\ Places(r, 1) = 1 + queue[1].drafts[r] /\ Produced(r, 1) = queue[1].valid[r]
          BY <1>1, <3>1, <3>4, <4>5 DEF Places, Produced
        <5>2. queue[1].drafts[r] \in {0, NumSpec} /\ NumSpec \in Int
          BY <1>1, <3>1, <3>4, <4>5 DEF DecodeInv, FullStep, DecodeAssumption
        <5>3. Correction(r, <<>>) = 1 + queue[1].drafts[r] - queue[1].valid[r]
          BY <3>5, <4>5
        <5>4. queue[1].drafts[r] \in Int /\ queue[1].valid[r] \in Int
          BY <4>3, <5>1, <5>2
        <5>5. s.at[r] = known[r] + queue[1].drafts[r] /\ known[r] + queue[1].valid[r] = end[r] + 1
          BY <4>3, <4>4, <5>1, <5>4
        <5>6. known[r] \in Int /\ end[r] \in Int
          BY <4>3
        <5> QED BY <5>3, <5>4, <5>5, <5>6, SMT
      <4>6. CASE r \notin DOMAIN queue[1].at
        <5>1. Places(r, 1) = 0 /\ Produced(r, 1) = 0
          BY <4>6 DEF Places, Produced
        <5>2. Correction(r, <<>>) = 0
          BY <3>5, <4>6 DEF Correction, PrevRow
        <5> QED BY <4>3, <4>4, <5>1, <5>2
      <4> QED BY <4>5, <4>6
    <3> QED BY <3>1, <3>2, <3>5, <3>6
  <2> QED BY <2>2, <2>3
<1>6. Proposed'
  <2> SUFFICES ASSUME NEW n \in 0 .. 2, NEW r \in Request, RanTo(n)', Promised(r, n)'
               PROVE  cache[r] = end[r] /\ end[r] > 0 /\ (r \in Rows(last) => last.drafts)
    BY <1>2 DEF Proposed
  <2>1. RanTo(n) /\ n <= Len(queue)
    BY RunPlanned
  <2>2. Promised(r, n)
    <3>1. n \in 0 .. Len(queue)
      BY <1>1, <2>1
    <3> QED BY <3>1, PromisesPlanned
  <2> QED BY <2>1, <2>2 DEF Proposed
<1> QED BY <1>4, <1>5, <1>6

------------------------------------------------------------------------------
(* What running the i-th step does, with its rows in some order and n tokens *)
(* for each request.                                                        *)
Runs(i, s, order, n) ==
  /\ i \in DOMAIN queue /\ s = queue[i] /\ ~s.done /\ \A j \in 1 .. i - 1 : queue[j].done
  /\ order \in Seq(Request) /\ ToSet(order) = DOMAIN s.at
  /\ n \in [DOMAIN s.at -> 1 .. 1 + NumSpec] /\ \A r \in DOMAIN s.at : n[r] \in MayProduce(s, r)
  /\ end' = [r \in Request |-> IF r \in DOMAIN s.at THEN end[r] + n[r] ELSE end[r]]
  /\ cache' = RowsCached(s, end')
  /\ last' = [rows |-> order, spec |-> Speculates(s),
              valid |-> [k \in DOMAIN order |-> n[order[k]]], drafts |-> ~SkipsPropose(s)]
  /\ queue' = [queue EXCEPT ![i].done = TRUE, ![i].valid = n]
  /\ fed' = (IF s.prefill THEN <<>> ELSE Fed(s, order))
  /\ apart' = (apart \/ Apart(s))
  /\ UNCHANGED schedVars

(* What execute_model() and sample_tokens() do to a step is a run of it.     *)
LEMMA ExecuteRuns ==
  ASSUME DecodeAssumption, DecodeInv, Pipeline, Execute
  PROVE  \E i, s, order, n : Runs(i, s, order, n)
<1>1. PICK i \in DOMAIN queue :
        /\ ~queue[i].done /\ \A j \in 1 .. i - 1 : queue[j].done
        /\ \E order \in (IF Rows(last) = DOMAIN queue[i].at
                            THEN {last.rows} ELSE SetToSeqs(DOMAIN queue[i].at)) :
           \E n \in [DOMAIN queue[i].at -> 1 .. 1 + NumSpec] :
             /\ \A r \in DOMAIN queue[i].at : n[r] \in MayProduce(queue[i], r)
             /\ LET end1 == [r \in Request |->
                               IF r \in DOMAIN queue[i].at THEN end[r] + n[r] ELSE end[r]]
                IN /\ end' = end1
                   /\ cache' = RowsCached(queue[i], end1)
             /\ last' = [rows |-> order, spec |-> Speculates(queue[i]),
                         valid |-> [k \in DOMAIN order |-> n[order[k]]],
                         drafts |-> ~SkipsPropose(queue[i])]
             /\ queue' = [queue EXCEPT ![i].done = TRUE, ![i].valid = n]
             /\ fed' = IF queue[i].prefill THEN <<>> ELSE Fed(queue[i], order)
        /\ apart' = (apart \/ Apart(queue[i]))
        /\ UNCHANGED schedVars
  BY DEF Execute
<1>2. PICK order \in (IF Rows(last) = DOMAIN queue[i].at
                         THEN {last.rows} ELSE SetToSeqs(DOMAIN queue[i].at)) :
           \E n \in [DOMAIN queue[i].at -> 1 .. 1 + NumSpec] :
             /\ \A r \in DOMAIN queue[i].at : n[r] \in MayProduce(queue[i], r)
             /\ LET end1 == [r \in Request |->
                               IF r \in DOMAIN queue[i].at THEN end[r] + n[r] ELSE end[r]]
                IN /\ end' = end1
                   /\ cache' = RowsCached(queue[i], end1)
             /\ last' = [rows |-> order, spec |-> Speculates(queue[i]),
                         valid |-> [k \in DOMAIN order |-> n[order[k]]],
                         drafts |-> ~SkipsPropose(queue[i])]
             /\ queue' = [queue EXCEPT ![i].done = TRUE, ![i].valid = n]
             /\ fed' = IF queue[i].prefill THEN <<>> ELSE Fed(queue[i], order)
  BY <1>1
<1>3. PICK n \in [DOMAIN queue[i].at -> 1 .. 1 + NumSpec] :
             /\ \A r \in DOMAIN queue[i].at : n[r] \in MayProduce(queue[i], r)
             /\ LET end1 == [r \in Request |->
                               IF r \in DOMAIN queue[i].at THEN end[r] + n[r] ELSE end[r]]
                IN /\ end' = end1
                   /\ cache' = RowsCached(queue[i], end1)
             /\ last' = [rows |-> order, spec |-> Speculates(queue[i]),
                         valid |-> [k \in DOMAIN order |-> n[order[k]]],
                         drafts |-> ~SkipsPropose(queue[i])]
             /\ queue' = [queue EXCEPT ![i].done = TRUE, ![i].valid = n]
             /\ fed' = IF queue[i].prefill THEN <<>> ELSE Fed(queue[i], order)
  BY <1>2
<1>4. DOMAIN queue[i].at \subseteq Request
  <2>1. queue[i] \in Steps
    BY DEF DecodeInv, SchedTypes
  <2> QED BY <2>1 DEF Steps, Partial
<1>5. order \in Seq(Request) /\ ToSet(order) = DOMAIN queue[i].at
  <2>1. CASE Rows(last) = DOMAIN queue[i].at
    <3>1. order = last.rows
      BY <1>2, <2>1
    <3> QED BY <2>1, <3>1 DEF Pipeline, Rows
  <2>2. CASE Rows(last) # DOMAIN queue[i].at
    <3>1. order \in SetToSeqs(DOMAIN queue[i].at)
      BY <1>2, <2>2
    <3>2. IsFiniteSet(DOMAIN queue[i].at)
      BY <1>4, FS_Subset DEF DecodeAssumption
    <3>3. order \in Seq(DOMAIN queue[i].at) /\ ToSet(order) = DOMAIN queue[i].at
      BY <3>1, <3>2, OrderList
    <3> QED BY <1>4, <3>3
  <2> QED BY <2>1, <2>2
<1> QED BY <1>1, <1>3, <1>5 DEF Runs

(* The queue after a step was run. *)
LEMMA QueueAfterRun ==
  ASSUME DecodeInv, Pipeline, NEW i, NEW s, NEW order, NEW n, Runs(i, s, order, n)
  PROVE  /\ Len(queue) \in 1 .. 2 /\ Len(queue') = Len(queue) /\ i \in 1 .. Len(queue)
         /\ DOMAIN queue = 1 .. Len(queue) /\ DOMAIN queue' = 1 .. Len(queue)
         /\ \A j \in 1 .. Len(queue) : j # i => queue'[j] = queue[j]
         /\ \A j \in 1 .. Len(queue) : /\ queue'[j].prefill = queue[j].prefill /\ queue'[j].at = queue[j].at
                                       /\ queue'[j].drafts = queue[j].drafts /\ queue'[j].live = queue[j].live
         /\ queue'[i].done /\ queue'[i].valid = n
         /\ s \in Steps /\ DOMAIN s.at \subseteq Request
<1>1. queue \in Seq(Steps) /\ Len(queue) <= 2 /\ i \in DOMAIN queue
  BY DEF DecodeInv, SchedTypes, Pipeline, QueueDepth, Runs
<1>2. queue' = [queue EXCEPT ![i].done = TRUE, ![i].valid = n]
  BY DEF Runs
<1>3. s \in Steps /\ s = queue[i]
  BY <1>1 DEF Runs
<1>4. DOMAIN s.at \subseteq Request
  BY <1>3 DEF Steps, Partial
<1>5. /\ DOMAIN queue = 1 .. Len(queue) /\ Len(queue) \in Nat
  BY <1>1
<1>6. /\ DOMAIN queue' = DOMAIN queue
      /\ \A j \in DOMAIN queue : j # i => queue'[j] = queue[j]
      /\ queue'[i] = [s EXCEPT !.done = TRUE, !.valid = n]
  BY <1>1, <1>2, <1>3
<1>7. /\ queue'[i].prefill = s.prefill /\ queue'[i].at = s.at /\ queue'[i].drafts = s.drafts
      /\ queue'[i].live = s.live /\ queue'[i].done = TRUE /\ queue'[i].valid = n
  BY <1>3, <1>6 DEF Steps
<1>8. Len(queue') = Len(queue)
  <2>1. queue' \in Seq({queue'[j] : j \in DOMAIN queue})
    <3>1. queue' = [j \in 1 .. Len(queue) |-> queue'[j]]
      BY <1>2, <1>5, <1>6
    <3> QED BY <1>5, <3>1
  <2> QED BY <1>5, <1>6, <2>1, LenProperties
<1>9. Len(queue) \in 1 .. 2 /\ i \in 1 .. Len(queue)
  BY <1>1, <1>5
<1>10. \A j \in 1 .. Len(queue) : /\ queue'[j].prefill = queue[j].prefill /\ queue'[j].at = queue[j].at
                                  /\ queue'[j].drafts = queue[j].drafts /\ queue'[j].live = queue[j].live
  <2> SUFFICES ASSUME NEW j \in 1 .. Len(queue)
               PROVE  /\ queue'[j].prefill = queue[j].prefill /\ queue'[j].at = queue[j].at
                      /\ queue'[j].drafts = queue[j].drafts /\ queue'[j].live = queue[j].live
    OBVIOUS
  <2>1. CASE j = i
    BY <1>3, <1>7, <2>1
  <2>2. CASE j # i
    BY <1>5, <1>6, <2>2
  <2> QED BY <2>1, <2>2
<1>11. \A j \in 1 .. Len(queue) : j # i => queue'[j] = queue[j]
  BY <1>5, <1>6
<1> QED BY <1>3, <1>4, <1>5, <1>6, <1>7, <1>8, <1>9, <1>10, <1>11

(* Running a step neither makes nor breaks a promise.                        *)
LEMMA PromisesRun ==
  ASSUME DecodeInv, Pipeline, NEW i, NEW s, NEW order, NEW n, Runs(i, s, order, n), NEW r, NEW m
  PROVE  Promised(r, m)' <=> Promised(r, m)
<1>1. /\ DOMAIN queue = DOMAIN queue'
      /\ \A j \in DOMAIN queue : queue'[j].at = queue[j].at /\ queue'[j].drafts = queue[j].drafts
  BY QueueAfterRun
<1>2. phase' = phase /\ drafting' = drafting
  BY DEF Runs, schedVars
<1> QED BY <1>1, <1>2 DEF Promised, InStep

(* The step that was run is the last that has run. *)
LEMMA RunBeforeAfter ==
  ASSUME DecodeInv, Pipeline, NEW i, NEW s, NEW order, NEW n, Runs(i, s, order, n)
  PROVE  RanTo(i - 1) /\ \A m : RanTo(m)' => m = i
<1>1. /\ Len(queue) \in 1 .. 2 /\ Len(queue') = Len(queue) /\ i \in 1 .. Len(queue)
      /\ DOMAIN queue = 1 .. Len(queue) /\ DOMAIN queue' = 1 .. Len(queue)
      /\ \A j \in 1 .. Len(queue) : j # i => queue'[j] = queue[j]
      /\ queue'[i].done
  BY QueueAfterRun
<1>2. ~queue[i].done /\ \A j \in 1 .. i - 1 : queue[j].done
  BY DEF Runs
<1>3. RanTo(i - 1)
  BY <1>1, <1>2 DEF RanTo
<1>4. ASSUME NEW m, RanTo(m)' PROVE m = i
  <2>1. /\ m \in 0 .. Len(queue) /\ \A j \in 1 .. m : queue'[j].done
        /\ m + 1 \in DOMAIN queue' => ~queue'[m + 1].done
    BY <1>1, <1>4 DEF RanTo
  <2>2. m >= i
    <3> SUFFICES ASSUME m < i PROVE FALSE
      BY <1>1, <2>1
    <3>1. m + 1 = i \/ m + 1 \in 1 .. i - 1
      BY <1>1, <2>1
    <3>2. CASE m + 1 = i
      BY <1>1, <2>1, <3>2
    <3>3. CASE m + 1 \in 1 .. i - 1
      BY <1>1, <1>2, <2>1, <3>3
    <3> QED BY <3>1, <3>2, <3>3
  <2>3. m <= i
    <3> SUFFICES ASSUME m > i PROVE FALSE
      BY <1>1, <2>1
    <3>1. i = 1 /\ m = 2 /\ 2 \in DOMAIN queue
      BY <1>1, <2>1
    <3>2. queue'[2].done /\ queue'[2] = queue[2]
      BY <1>1, <2>1, <3>1
    <3> QED BY <1>2, <3>1, <3>2 DEF Pipeline
  <2> QED BY <1>1, <2>1, <2>2, <2>3
<1> QED BY <1>3, <1>4

(* Before requests of a step part ways, it is run with the drafts it was     *)
(* planned with, and all of its rows have them or none.                      *)
LEMMA RunsAsPlanned ==
  ASSUME DecodeAssumption, DecodeInv, Pipeline, Proposed,
         NEW i, NEW s, NEW order, NEW n, Runs(i, s, order, n), ~Apart(s)
  PROVE  /\ DraftsRun(s) = s.drafts /\ ~Mixed(s)
         /\ Speculates(s) => \A r \in DOMAIN s.at : s.drafts[r] = NumSpec
         /\ ~Speculates(s) => \A r \in DOMAIN s.at : s.drafts[r] = 0
         /\ \A r \in DOMAIN s.at : s.drafts[r] \in {0, NumSpec}
<1>0. s = queue[i]
  BY DEF Runs
<1>1. /\ i \in 1 .. Len(queue) /\ Len(queue) \in 1 .. 2 /\ DOMAIN queue = 1 .. Len(queue)
      /\ DOMAIN s.at \subseteq Request /\ s = queue[i]
  BY <1>0, QueueAfterRun
<1>2. \A r \in DOMAIN s.at : s.drafts[r] \in {0, NumSpec}
  BY <1>1 DEF DecodeInv, FullStep
<1>3. RanTo(i - 1)
  BY RunBeforeAfter
<1>4. ~Dropped(s)
  <2> SUFFICES ASSUME NEW r \in DOMAIN s.at, s.drafts[r] > 0, cache[r] = 0 PROVE FALSE
    BY DEF Dropped
  <2>1. Promised(r, i - 1)
    BY <1>1 DEF Promised, InStep
  <2>2. i - 1 \in 0 .. 2 /\ r \in Request
    BY <1>1
  <2>3. cache[r] = end[r] /\ end[r] > 0
    BY <1>3, <2>1, <2>2 DEF Proposed
  <2> QED BY <2>2, <2>3 DEF Pipeline
<1>5. DraftsRun(s) = s.drafts
  BY <1>4 DEF DraftsRun
<1>6. ~Mixed(s)
  BY DEF Apart
<1>7. NumSpec \in Nat \ {0}
  BY DEF DecodeAssumption
<1>8. Speculates(s) => \A r \in DOMAIN s.at : s.drafts[r] = NumSpec
  BY <1>2, <1>5, <1>6 DEF Mixed
<1>9. ~Speculates(s) => \A r \in DOMAIN s.at : s.drafts[r] = 0
  BY <1>2, <1>5, <1>7 DEF Speculates
<1> QED BY <1>2, <1>5, <1>6, <1>8, <1>9

(* A step that has run has produced a token at least for each request.       *)
LEMMA PipelineRun ==
  ASSUME DecodeAssumption, DecodeInv, Pipeline, NEW i, NEW s, NEW order, NEW n, Runs(i, s, order, n)
  PROVE  Pipeline'
<1>1. /\ Len(queue) \in 1 .. 2 /\ Len(queue') = Len(queue) /\ i \in 1 .. Len(queue)
      /\ DOMAIN queue = 1 .. Len(queue) /\ DOMAIN queue' = 1 .. Len(queue)
      /\ \A j \in 1 .. Len(queue) : j # i => queue'[j] = queue[j]
      /\ \A j \in 1 .. Len(queue) : /\ queue'[j].prefill = queue[j].prefill /\ queue'[j].at = queue[j].at
                                    /\ queue'[j].drafts = queue[j].drafts
      /\ queue'[i].done /\ queue'[i].valid = n
      /\ DOMAIN s.at \subseteq Request
  BY QueueAfterRun
<1>2. /\ s = queue[i] /\ \A j \in 1 .. i - 1 : queue[j].done
      /\ n \in [DOMAIN s.at -> 1 .. 1 + NumSpec] /\ NumSpec \in Nat
      /\ phase' = phase /\ last'.rows = order /\ order \in Seq(Request)
  BY DEF Runs, schedVars, DecodeAssumption
<1>3. end' \in [Request -> Nat]
  <2>1. end' = [r \in Request |-> IF r \in DOMAIN s.at THEN end[r] + n[r] ELSE end[r]]
    BY DEF Runs
  <2>2. \A r \in DOMAIN s.at : n[r] \in Nat
    BY <1>2
  <2> QED BY <2>1, <2>2 DEF Pipeline
<1>4. cache' \in [Request -> Nat]
  <2>1. cache' = RowsCached(s, end')
    BY DEF Runs
  <2> QED BY <1>3, <2>1 DEF RowsCached, Pipeline
<1>5. 2 \in DOMAIN queue' /\ queue'[2].done => queue'[1].done
  <2>1. CASE i = 1
    BY <1>1, <2>1
  <2>2. CASE i = 2
    BY <1>1, <1>2, <2>2
  <2> QED BY <1>1, <2>1, <2>2
<1>6. ASSUME NEW j \in DOMAIN queue'
      PROVE  /\ DOMAIN queue'[j].at # {}
             /\ \A r \in DOMAIN queue'[j].at :
                  /\ IF queue'[j].done THEN queue'[j].valid[r] >= 1 ELSE queue'[j].valid[r] = 0
                  /\ queue'[j].prefill => queue'[j].drafts[r] = 0
                  /\ phase'[r] # "waiting"
  <2>1. CASE j = i
    <3>1. /\ queue'[j].done /\ queue'[j].valid = n /\ queue'[j].prefill = s.prefill
          /\ queue'[j].at = s.at /\ queue'[j].drafts = s.drafts /\ i \in DOMAIN queue
      BY <1>1, <1>2, <2>1
    <3>2. /\ DOMAIN s.at # {}
          /\ \A r \in DOMAIN s.at : (s.prefill => s.drafts[r] = 0) /\ phase[r] # "waiting"
      BY <1>2, <3>1 DEF Pipeline
    <3>3. \A r \in DOMAIN s.at : n[r] >= 1
      BY <1>2
    <3> QED BY <1>2, <3>1, <3>2, <3>3
  <2>2. CASE j # i
    <3>1. queue'[j] = queue[j] /\ j \in DOMAIN queue
      BY <1>1, <2>2
    <3> QED BY <1>2, <3>1 DEF Pipeline
  <2> QED BY <2>1, <2>2
<1>7. Len(queue') <= QueueDepth
  BY <1>1 DEF QueueDepth
<1> QED BY <1>2, <1>3, <1>4, <1>5, <1>6, <1>7 DEF Pipeline

(* A run adds its tokens to the books, and no placeholders.                  *)
LEMMA SharesRun ==
  ASSUME DecodeAssumption, DecodeInv, Pipeline, NEW i, NEW s, NEW order, NEW n, Runs(i, s, order, n),
         NEW r \in Request
  PROVE  /\ \A j \in Nat : Places(r, j)' = Places(r, j)
         /\ Produced(r, 1)' + Produced(r, 2)' = Produced(r, 1) + Produced(r, 2)
              + (IF r \in DOMAIN s.at THEN n[r] ELSE 0)
         /\ \A j \in Nat \ {i} : Produced(r, j)' = Produced(r, j)
         /\ r \in DOMAIN s.at => Produced(r, i)' = n[r] /\ Produced(r, i) = 0 /\ n[r] \in Nat
<1>1. /\ Len(queue) \in 1 .. 2 /\ Len(queue') = Len(queue) /\ i \in 1 .. Len(queue)
      /\ DOMAIN queue = 1 .. Len(queue) /\ DOMAIN queue' = 1 .. Len(queue)
      /\ \A j \in 1 .. Len(queue) : j # i => queue'[j] = queue[j]
      /\ \A j \in 1 .. Len(queue) : queue'[j].at = queue[j].at /\ queue'[j].drafts = queue[j].drafts
      /\ queue'[i].valid = n
  BY QueueAfterRun
<1>2. s = queue[i] /\ ~s.done /\ n \in [DOMAIN s.at -> 1 .. 1 + NumSpec] /\ NumSpec \in Nat
  BY DEF Runs, DecodeAssumption
<1>3. \A j \in Nat : Places(r, j)' = Places(r, j)
  BY <1>1 DEF Places
<1>4. \A j \in Nat \ {i} : Produced(r, j)' = Produced(r, j)
  BY <1>1 DEF Produced
<1>5. CASE r \in DOMAIN s.at
  <2>1. Produced(r, i)' = n[r] /\ n[r] \in Nat
    BY <1>1, <1>2, <1>5 DEF Produced
  <2>2. Produced(r, i) = 0
    BY <1>1, <1>2, <1>5 DEF Produced, Pipeline
  <2>3. Produced(r, 1) \in Int /\ Produced(r, 2) \in Int
    BY SharesTyped
  <2>4. i = 1 \/ i = 2
    BY <1>1
  <2>5. Produced(r, 1)' + Produced(r, 2)' = Produced(r, 1) + Produced(r, 2) + n[r]
    <3>1. CASE i = 1
      <4>1. Produced(r, 2)' = Produced(r, 2)
        BY <1>4, <3>1
      <4> QED BY <2>1, <2>2, <2>3, <3>1, <4>1
    <3>2. CASE i = 2
      <4>1. Produced(r, 1)' = Produced(r, 1)
        BY <1>4, <3>2
      <4> QED BY <2>1, <2>2, <2>3, <3>2, <4>1
    <3> QED BY <2>4, <3>1, <3>2
  <2> QED BY <1>3, <1>4, <1>5, <2>1, <2>2, <2>5
<1>6. CASE r \notin DOMAIN s.at
  <2>1. Produced(r, i)' = 0 /\ Produced(r, i) = 0
    BY <1>1, <1>2, <1>6 DEF Produced
  <2>2. Produced(r, 1) \in Int /\ Produced(r, 2) \in Int
    BY SharesTyped
  <2> QED BY <1>1, <1>3, <1>4, <1>6, <2>1, <2>2
<1> QED BY <1>5, <1>6

(* The books balance after a run.                                            *)
LEMMA BooksRun ==
  ASSUME DecodeAssumption, DecodeInv, Pipeline, BooksBalance,
         NEW i, NEW s, NEW order, NEW n, Runs(i, s, order, n)
  PROVE  BooksBalance'
<1> SUFFICES ASSUME NEW r \in Request, phase'[r] = "running"
             PROVE  /\ reserved'[r] = Places(r, 1)' + Places(r, 2)'
                    /\ computed'[r] = known'[r] + reserved'[r] - 1
                    /\ known'[r] + Produced(r, 1)' + Produced(r, 2)' = end'[r] + 1
  BY DEF BooksBalance
<1>1. UNCHANGED <<phase, reserved, computed, known>>
  BY DEF Runs, schedVars
<1>2. /\ reserved[r] = Places(r, 1) + Places(r, 2)
      /\ computed[r] = known[r] + reserved[r] - 1
      /\ known[r] + Produced(r, 1) + Produced(r, 2) = end[r] + 1
  BY <1>1 DEF BooksBalance
<1>3. /\ Places(r, 1)' = Places(r, 1) /\ Places(r, 2)' = Places(r, 2)
      /\ Produced(r, 1)' + Produced(r, 2)' = Produced(r, 1) + Produced(r, 2)
           + (IF r \in DOMAIN s.at THEN n[r] ELSE 0)
      /\ r \in DOMAIN s.at => n[r] \in Nat
  BY SharesRun
<1>4. end'[r] = end[r] + (IF r \in DOMAIN s.at THEN n[r] ELSE 0)
  <2>1. end[r] \in Nat
    BY DEF Pipeline
  <2>2. end'[r] = IF r \in DOMAIN s.at THEN end[r] + n[r] ELSE end[r]
    BY DEF Runs
  <2> QED BY <2>1, <2>2
<1>5. /\ known[r] \in Int /\ end[r] \in Int
      /\ Produced(r, 1) \in Int /\ Produced(r, 2) \in Int
  BY SharesTyped DEF DecodeInv, SchedTypes, Pipeline
<1>6. Produced(r, 1)' \in Int /\ Produced(r, 2)' \in Int
  <2> SUFFICES ASSUME NEW j \in {1, 2} PROVE Produced(r, j)' \in Int
    OBVIOUS
  <2>1. CASE j = i /\ r \in DOMAIN s.at
    <3>1. Produced(r, i)' = n[r] /\ n[r] \in Nat
      BY <2>1, SharesRun
    <3> QED BY <2>1, <3>1
  <2>2. CASE j = i /\ r \notin DOMAIN s.at
    <3>1. s = queue[i] /\ i \in DOMAIN queue' /\ queue'[i].at = queue[i].at
      BY QueueAfterRun DEF Runs
    <3>2. Produced(r, i)' = 0
      BY <2>2, <3>1 DEF Produced
    <3> QED BY <2>2, <3>2
  <2>3. CASE j # i
    <3>1. Produced(r, j)' = Produced(r, j)
      BY <2>3, SharesRun
    <3> QED BY <1>5, <3>1
  <2> QED BY <2>1, <2>2, <2>3
<1>7. known[r] + Produced(r, 1)' + Produced(r, 2)' = end'[r] + 1
  BY <1>2, <1>3, <1>4, <1>5, <1>6
<1> QED BY <1>1, <1>2, <1>3, <1>7

(* Running a step changes nothing of what its requests were promised.       *)
LEMMA StatusesRun ==
  ASSUME DecodeAssumption, DecodeInv, Pipeline, Statuses, Promises,
         NEW i, NEW s, NEW order, NEW n, Runs(i, s, order, n)
  PROVE  Statuses' /\ Upcoming' /\ Promises'
<1>1. /\ Len(queue) \in 1 .. 2 /\ Len(queue') = Len(queue) /\ i \in 1 .. Len(queue)
      /\ DOMAIN queue = 1 .. Len(queue) /\ DOMAIN queue' = 1 .. Len(queue)
      /\ \A j \in 1 .. Len(queue) : j # i => queue'[j] = queue[j]
      /\ \A j \in 1 .. Len(queue) : /\ queue'[j].prefill = queue[j].prefill /\ queue'[j].at = queue[j].at
                                    /\ queue'[j].drafts = queue[j].drafts /\ queue'[j].live = queue[j].live
      /\ queue'[i].done
  BY QueueAfterRun
<1>2. UNCHANGED <<phase, computed, known, specOff, drafting>>
  BY DEF Runs, schedVars
<1>3. s = queue[i] /\ \A j \in 1 .. i - 1 : queue[j].done
  BY DEF Runs
<1>4. queue # <<>> /\ queue' # <<>>
  BY <1>1
<1>5. Statuses'
  <2> SUFFICES ASSUME NEW r \in Request
               PROVE  /\ phase'[r] = "waiting" => end'[r] = Prompt[r] - 1
                      /\ phase'[r] = "running" => known'[r] < MaxModelLen /\ (r \in specOff' \/ r \in drafting')
                      /\ \A j \in DOMAIN queue' :
                           phase'[r] = "running" /\ InStep(r, j)' /\ ~InStep(r, j + 1)'
                           /\ queue'[j].drafts[r] > 0 =>
                             computed'[r] <= Margin' + 1 + NumSpec
    BY <1>4 DEF Statuses
  <2>1. phase[r] = "waiting" => end'[r] = end[r]
    <3>1. end'[r] = IF r \in DOMAIN s.at THEN end[r] + n[r] ELSE end[r]
      BY DEF Runs
    <3>2. phase[r] = "waiting" => r \notin DOMAIN s.at
      BY <1>1, <1>3 DEF Pipeline
    <3> QED BY <3>1, <3>2
  <2>2. \A j \in DOMAIN queue' : /\ InStep(r, j)' <=> InStep(r, j)
                                 /\ InStep(r, j + 1)' <=> InStep(r, j + 1)
                                 /\ queue'[j].drafts = queue[j].drafts
    BY <1>1 DEF InStep
  <2>3. /\ phase[r] = "waiting" => end[r] = Prompt[r] - 1
        /\ phase[r] = "running" => known[r] < MaxModelLen /\ (r \in specOff \/ r \in drafting)
        /\ \A j \in DOMAIN queue :
             phase[r] = "running" /\ InStep(r, j) /\ ~InStep(r, j + 1) /\ queue[j].drafts[r] > 0 =>
               computed[r] <= Margin + 1 + NumSpec
    BY DEF Statuses
  <2>4. phase'[r] = "waiting" => end'[r] = Prompt[r] - 1
    BY <1>2, <2>1, <2>3
  <2>5. phase'[r] = "running" => known'[r] < MaxModelLen /\ (r \in specOff' \/ r \in drafting')
    BY <1>2, <2>3
  <2>6. ASSUME NEW j \in DOMAIN queue', phase'[r] = "running", InStep(r, j)', ~InStep(r, j + 1)',
               queue'[j].drafts[r] > 0
        PROVE  computed'[r] <= Margin' + 1 + NumSpec
    <3>1. /\ j \in DOMAIN queue /\ phase[r] = "running" /\ InStep(r, j) /\ ~InStep(r, j + 1)
          /\ queue[j].drafts[r] > 0
      BY <1>1, <1>2, <2>2, <2>6
    <3>2. computed[r] <= Margin + 1 + NumSpec
      BY <2>3, <3>1
    <3> QED BY <1>2, <3>2 DEF Margin
  <2> QED BY <2>4, <2>5, <2>6
<1>6. Upcoming'
  <2> SUFFICES ASSUME 2 \in DOMAIN queue', ~queue'[1].done PROVE FALSE
    BY DEF Upcoming
  <2>1. i = 2
    BY <1>1
  <2>2. queue[1].done /\ queue'[1] = queue[1]
    BY <1>1, <1>3, <2>1
  <2> QED BY <2>2
<1>7. Promises'
  <2> SUFFICES ASSUME NEW r \in Request, NEW j \in DOMAIN queue', Promised(r, j)'
               PROVE  /\ r \in queue'[j].live
                      /\ r \in DOMAIN queue'[j].at =>
                           /\ queue'[j].prefill \/ queue'[j].drafts[r] > 0
                           /\ queue'[j].at[r] + SizeOf(queue'[j], r) <= Margin'
    BY DEF Promises, SizeOf
  <2>1. Promised(r, j)
    BY PromisesRun
  <2>2. j \in DOMAIN queue /\ SizeOf(queue'[j], r) = SizeOf(queue[j], r) /\ Margin' = Margin
    BY <1>1 DEF SizeOf, Margin
  <2> QED BY <1>1, <2>1, <2>2 DEF Promises
<1> QED BY <1>5, <1>6, <1>7

(* What the step that was run left for the next one to be corrected by.     *)
LEMMA ReturnedRun ==
  ASSUME DecodeAssumption, DecodeInv, Pipeline, Proposed,
         NEW i, NEW s, NEW order, NEW n, Runs(i, s, order, n), ~Apart(s)
  PROVE  /\ Rows(last)' = DOMAIN s.at
         /\ \A r \in DOMAIN s.at : /\ Correction(r, <<>>)' = 1 + s.drafts[r] - n[r]
                                   /\ n[r] \in Nat /\ n[r] >= 1
         /\ \A r : r \notin DOMAIN s.at => Correction(r, <<>>)' = 0
         /\ Returned'
<1>1. /\ last' = [rows |-> order, spec |-> Speculates(s),
                  valid |-> [k \in DOMAIN order |-> n[order[k]]], drafts |-> ~SkipsPropose(s)]
      /\ order \in Seq(Request) /\ ToSet(order) = DOMAIN s.at
      /\ n \in [DOMAIN s.at -> 1 .. 1 + NumSpec] /\ \A r \in DOMAIN s.at : n[r] \in MayProduce(s, r)
  BY DEF Runs
<1>2. last'.rows = order /\ last'.spec = Speculates(s) /\ last'.valid = [k \in DOMAIN order |-> n[order[k]]]
  BY <1>1
<1>3. Rows(last)' = DOMAIN s.at
  BY <1>1, <1>2 DEF Rows
<1>4. /\ DraftsRun(s) = s.drafts
      /\ Speculates(s) => \A r \in DOMAIN s.at : s.drafts[r] = NumSpec
      /\ ~Speculates(s) => \A r \in DOMAIN s.at : s.drafts[r] = 0
  BY RunsAsPlanned
<1>5. NumSpec \in Nat \ {0}
  BY DEF DecodeAssumption
<1>6. ASSUME NEW r \in DOMAIN s.at
      PROVE  /\ Correction(r, <<>>)' = 1 + s.drafts[r] - n[r]
             /\ n[r] \in Nat /\ n[r] >= 1
  <2>1. n[r] \in Nat /\ n[r] >= 1
    BY <1>1, <1>5
  <2>2. CASE ~Speculates(s)
    <3>1. Correction(r, <<>>)' = 0
      BY <1>2, <2>2 DEF Correction
    <3>2. s.drafts[r] = 0 /\ DraftsRun(s)[r] = 0
      BY <1>4, <2>2
    <3>3. n[r] \in 1 .. (IF DraftsFed(s, r) THEN 1 + DraftsRun(s)[r] ELSE 1)
      BY <1>1 DEF MayProduce
    <3> QED BY <2>1, <3>1, <3>2, <3>3
  <2>3. CASE Speculates(s)
    <3> DEFINE j == CHOOSE k \in DOMAIN order : order[k] = r
    <3>1. \E k \in DOMAIN order : order[k] = r
      BY <1>1 DEF ToSet
    <3>2. j \in DOMAIN order /\ order[j] = r
      BY <3>1
    <3>3. PrevRow(r, <<>>)' = j
      BY <1>2, <1>3 DEF PrevRow
    <3> HIDE DEF j
    <3>4. j # 0 /\ last'.valid[j] = n[r]
      BY <1>1, <1>2, <3>2
    <3>5. Correction(r, <<>>)' = 1 + NumSpec - n[r]
      BY <1>2, <2>3, <3>3, <3>4 DEF Correction
    <3>6. s.drafts[r] = NumSpec
      BY <1>4, <2>3
    <3> QED BY <2>1, <3>5, <3>6
  <2> QED BY <2>1, <2>2, <2>3
<1>7. \A r : r \notin DOMAIN s.at => Correction(r, <<>>)' = 0
  BY <1>3 DEF Correction, PrevRow
<1>8. Returned'
  <2> SUFFICES ASSUME NEW m \in DOMAIN queue', RanTo(m)'
               PROVE  /\ Rows(last)' = DOMAIN queue'[m].at
                      /\ \A r \in DOMAIN queue'[m].at :
                           Correction(r, <<>>)' = 1 + queue'[m].drafts[r] - queue'[m].valid[r]
    BY DEF Returned
  <2>1. m = i
    BY RunBeforeAfter
  <2>2. s = queue[i]
    BY DEF Runs
  <2>3. queue'[m].at = s.at /\ queue'[m].drafts = s.drafts /\ queue'[m].valid = n
    BY <2>1, <2>2, QueueAfterRun
  <2> QED BY <1>3, <1>6, <2>3
<1> QED BY <1>3, <1>6, <1>7, <1>8

(* The next step starts where this one, with what it rejected, has come to. *)
LEMMA AlignedRun ==
  ASSUME DecodeAssumption, DecodeInv, Pipeline, BooksBalance, Upcoming, Proposed,
         NEW i, NEW s, NEW order, NEW n, Runs(i, s, order, n), ~Apart(s)
  PROVE  Aligned'
<1> SUFFICES ASSUME NEW m \in 0 .. 1, RanTo(m)', m + 1 \in DOMAIN queue', ~queue'[m + 1].prefill
             PROVE  /\ Rows(last)' # {}
                    /\ \A r \in DOMAIN queue'[m + 1].at :
                         queue'[m + 1].at[r] - Correction(r, <<>>)' = end'[r]
  BY DEF Aligned
<1>1. m = i
  BY RunBeforeAfter
<1>2. /\ Len(queue) \in 1 .. 2 /\ i \in 1 .. Len(queue)
      /\ DOMAIN queue = 1 .. Len(queue) /\ DOMAIN queue' = 1 .. Len(queue)
      /\ \A j \in 1 .. Len(queue) : /\ queue'[j].prefill = queue[j].prefill /\ queue'[j].at = queue[j].at
  BY QueueAfterRun
<1>3. s = queue[i] /\ ~s.done
  BY DEF Runs
<1>4. i = 1 /\ m = 1 /\ 2 \in DOMAIN queue /\ 1 \in DOMAIN queue /\ s = queue[1]
  BY <1>1, <1>2, <1>3
<1>5. ~queue[2].prefill /\ queue'[2].at = queue[2].at /\ ~queue[1].done /\ ~queue[2].done
  BY <1>2, <1>3, <1>4 DEF Pipeline
<1>6. /\ Rows(last)' = DOMAIN s.at /\ DOMAIN s.at # {}
      /\ \A r \in DOMAIN s.at : /\ Correction(r, <<>>)' = 1 + s.drafts[r] - n[r]
                                /\ n[r] \in Nat
      /\ \A r : r \notin DOMAIN s.at => Correction(r, <<>>)' = 0
  BY <1>4, ReturnedRun DEF Pipeline
<1>7. ASSUME NEW r \in DOMAIN queue[2].at PROVE queue[2].at[r] - Correction(r, <<>>)' = end'[r]
  <2>1. phase[r] = "running" /\ computed[r] = queue[2].at[r] + 1 + queue[2].drafts[r]
    BY <1>4, <1>5 DEF Upcoming
  <2>2. r \in Request /\ queue[2].at[r] \in Int
    <3>1. queue[2] \in Steps
      BY <1>4 DEF DecodeInv, SchedTypes
    <3> QED BY <3>1 DEF Steps, Partial
  <2>3. /\ reserved[r] = Places(r, 1) + Places(r, 2)
        /\ computed[r] = known[r] + reserved[r] - 1
        /\ known[r] + Produced(r, 1) + Produced(r, 2) = end[r] + 1
    BY <2>1, <2>2 DEF BooksBalance
  <2>4. Produced(r, 1) = 0 /\ Produced(r, 2) = 0
    BY <1>4, <1>5 DEF Produced, Pipeline
  <2>5. Places(r, 2) = 1 + queue[2].drafts[r] /\ queue[2].drafts[r] \in {0, NumSpec} /\ NumSpec \in Nat
    BY <1>4 DEF Places, DecodeInv, FullStep, DecodeAssumption
  <2>6. /\ known[r] \in Int /\ end[r] \in Int /\ computed[r] \in Int /\ reserved[r] \in Int
        /\ Places(r, 1) \in Nat /\ queue[2].drafts[r] \in Int
    <3>1. Places(r, 1) \in Nat
      BY <2>2, SharesTyped
    <3>2. queue[2].drafts[r] \in Int
      BY <2>5
    <3> QED BY <2>2, <3>1, <3>2 DEF DecodeInv, SchedTypes, Pipeline
  <2>7. queue[2].at[r] = end[r] + Places(r, 1)
    BY <2>1, <2>2, <2>3, <2>4, <2>5, <2>6
  <2>8. end'[r] = IF r \in DOMAIN s.at THEN end[r] + n[r] ELSE end[r]
    BY <2>2 DEF Runs
  <2>9. CASE r \in DOMAIN s.at
    <3>1. Places(r, 1) = 1 + s.drafts[r] /\ s.drafts[r] \in {0, NumSpec}
      BY <1>4, <2>9 DEF Places, DecodeInv, FullStep
    <3>2. s.drafts[r] \in Int /\ n[r] \in Int
      BY <1>6, <2>5, <2>9, <3>1
    <3>3. queue[2].at[r] = end[r] + 1 + s.drafts[r]
      BY <2>6, <2>7, <3>1, <3>2
    <3>4. Correction(r, <<>>)' = 1 + s.drafts[r] - n[r]
      BY <1>6, <2>9
    <3>5. end'[r] = end[r] + n[r] /\ end[r] \in Int
      BY <2>6, <2>8, <2>9
    <3> QED BY <3>2, <3>3, <3>4, <3>5, SMT
  <2>10. CASE r \notin DOMAIN s.at
    <3>1. Places(r, 1) = 0
      BY <1>4, <2>10 DEF Places
    <3>2. Correction(r, <<>>)' = 0 /\ end'[r] = end[r]
      BY <1>6, <2>8, <2>10
    <3> QED BY <2>6, <2>7, <3>1, <3>2
  <2> QED BY <2>9, <2>10
<1> QED BY <1>4, <1>5, <1>6, <1>7

(* Every request that was promised drafts has a row to start them from.     *)
LEMMA ProposedRun ==
  ASSUME DecodeAssumption, DecodeInv, Pipeline, Promises, Proposed,
         NEW i, NEW s, NEW order, NEW n, Runs(i, s, order, n), ~Apart(s)
  PROVE  Proposed'
<1> SUFFICES ASSUME NEW m \in 0 .. 2, NEW r \in Request, RanTo(m)', Promised(r, m)'
             PROVE  /\ cache'[r] = end'[r] /\ end'[r] > 0
                    /\ r \in Rows(last)' => last'.drafts
  BY DEF Proposed
<1>1. m = i /\ RanTo(i - 1)
  BY RunBeforeAfter
<1>2. Promised(r, i)
  BY <1>1, PromisesRun
<1>3. /\ Len(queue) \in 1 .. 2 /\ i \in 1 .. Len(queue) /\ DOMAIN queue = 1 .. Len(queue)
      /\ DOMAIN s.at \subseteq Request /\ s \in Steps
  BY QueueAfterRun
<1>4. /\ s = queue[i] /\ cache' = RowsCached(s, end')
      /\ end' = [q \in Request |-> IF q \in DOMAIN s.at THEN end[q] + n[q] ELSE end[q]]
      /\ last'.drafts = ~SkipsPropose(s)
  BY DEF Runs
<1>5. /\ r \in s.live
      /\ r \in DOMAIN s.at => /\ s.prefill \/ s.drafts[r] > 0
                              /\ s.at[r] + SizeOf(s, r) <= Margin
  BY <1>2, <1>3, <1>4 DEF Promises
<1>6. DraftsRun(s) = s.drafts
  BY RunsAsPlanned
<1>7. /\ Rows(last)' = DOMAIN s.at
      /\ \A q \in DOMAIN s.at : n[q] \in Nat /\ n[q] >= 1
  BY ReturnedRun
<1>8. CASE r \in DOMAIN s.at
  <2>1. ~Past(s, r)
    <3>1. s.at[r] \in Int /\ Prompt[r] \in Int /\ MaxModelLen \in Int /\ NumSpec \in Int
      BY <1>3, <1>8 DEF Steps, Partial, DecodeAssumption
    <3>2. s.drafts[r] \in {0, NumSpec}
      BY <1>3, <1>4, <1>8 DEF DecodeInv, FullStep
    <3>3. SizeOf(s, r) = (IF s.prefill THEN Prompt[r] ELSE 1 + s.drafts[r]) /\ SizeOf(s, r) \in Int
      BY <3>1, <3>2 DEF SizeOf
    <3>4. Past(s, r) <=> s.at[r] + SizeOf(s, r) - 1 >= MaxModelLen - NumSpec - 2 - (1 + NumSpec)
      BY <1>6, <3>3 DEF Past
    <3>5. s.at[r] + SizeOf(s, r) <= MaxModelLen - 3 - 2 * NumSpec
      BY <1>5, <1>8 DEF Margin
    <3> QED BY <3>1, <3>3, <3>4, <3>5
  <2>2. \A q \in DOMAIN s.at : ~Past(s, q)
    BY <1>8, <2>1 DEF Apart
  <2>3. s.prefill \/ Speculates(s)
    BY <1>5, <1>6, <1>8 DEF Speculates
  <2>4. ~SkipsPropose(s)
    BY <2>2, <2>3 DEF SkipsPropose
  <2>5. cache'[r] = end'[r]
    BY <1>4, <1>8, <2>4 DEF RowsCached
  <2>6. end'[r] > 0
    BY <1>4, <1>7, <1>8 DEF Pipeline
  <2> QED BY <1>4, <2>4, <2>5, <2>6
<1>9. CASE r \notin DOMAIN s.at
  <2>1. ~InStep(r, i) /\ ~InStep(r, i + 2)
    <3>1. i + 2 \notin DOMAIN queue
      <4>1. Len(queue) \in 1 .. 2 /\ i \in 1 .. Len(queue) /\ DOMAIN queue = 1 .. Len(queue)
        BY <1>3
      <4> QED BY <4>1
    <3> QED BY <1>4, <1>9, <3>1 DEF InStep
  <2>2. (i - 1) + 1 = i /\ (i - 1) + 2 = i + 1 /\ i - 1 \in 0 .. 2
    BY <1>3
  <2>3. Promised(r, i - 1)
    BY <1>2, <2>1, <2>2 DEF Promised
  <2>4. cache[r] = end[r] /\ end[r] > 0
    BY <1>1, <2>2, <2>3 DEF Proposed
  <2>5. end'[r] = end[r]
    BY <1>4, <1>9
  <2>6. cache'[r] = cache[r]
    BY <1>4, <1>5, <1>9 DEF RowsCached
  <2> QED BY <1>7, <1>9, <2>4, <2>5, <2>6
<1> QED BY <1>8, <1>9

(* What the step is fed.                                                    *)
LEMMA ExactRun ==
  ASSUME DecodeAssumption, DecodeInv, Pipeline, Aligned, Proposed,
         NEW i, NEW s, NEW order, NEW n, Runs(i, s, order, n), ~Apart(s)
  PROVE  InputsExact'
<1> SUFFICES ASSUME NEW r \in DOMAIN fed'
             PROVE  {fed'[r].position, fed'[r].token} = {fed'[r].right} /\ ~fed'[r].placeholders
  BY DEF InputsExact
<1>1. fed' = IF s.prefill THEN <<>> ELSE Fed(s, order)
  BY DEF Runs
<1>2. ~s.prefill /\ fed' = Fed(s, order)
  BY <1>1
<1>3. r \in DOMAIN s.at
  BY <1>2 DEF Fed
<1>4. /\ fed'[r].position = s.at[r] - Correction(r, order) /\ fed'[r].token = TokenFed(s, r)
      /\ fed'[r].placeholders = (DraftsRun(s)[r] > 0 /\ ~DraftsFed(s, r)) /\ fed'[r].right = end[r]
  BY <1>2, <1>3 DEF Fed
<1>5. /\ Len(queue) \in 1 .. 2 /\ i \in 1 .. Len(queue) /\ DOMAIN queue = 1 .. Len(queue)
      /\ DOMAIN s.at \subseteq Request /\ s \in Steps
  BY QueueAfterRun
<1>6. s = queue[i] /\ RanTo(i - 1)
  BY RunBeforeAfter DEF Runs
<1>7. i - 1 \in 0 .. 1 /\ i - 1 \in 0 .. 2 /\ (i - 1) + 1 = i /\ i \in DOMAIN queue
  BY <1>5
<1>8. Rows(last) # {} /\ s.at[r] - Correction(r, <<>>) = end[r]
  BY <1>2, <1>3, <1>6, <1>7 DEF Aligned
<1>9. Correction(r, order) = Correction(r, <<>>)
  BY DEF Correction, PrevRow
<1>10. last.rows # <<>>
  BY <1>8, EmptyList DEF Rows
<1>11. /\ DraftsRun(s) = s.drafts
       /\ Speculates(s) => s.drafts[r] = NumSpec
       /\ ~Speculates(s) => s.drafts[r] = 0
       /\ NumSpec \in Nat \ {0}
  BY <1>3, RunsAsPlanned DEF DecodeAssumption
<1>12. CASE Speculates(s)
  <2>1. Promised(r, i - 1)
    BY <1>3, <1>6, <1>7, <1>11, <1>12 DEF Promised, InStep
  <2>2. cache[r] = end[r] /\ (r \in Rows(last) => last.drafts)
    BY <1>3, <1>5, <1>6, <1>7, <2>1 DEF Proposed
  <2>3. ~Changed(s) => r \in Rows(last)
    BY <1>3, <1>10 DEF Changed
  <2>4. TokenFed(s, r) = end[r] /\ DraftsFed(s, r)
    BY <1>12, <2>2, <2>3 DEF TokenFed, DraftsFed
  <2> QED BY <1>4, <1>8, <1>9, <2>4
<1>13. CASE ~Speculates(s)
  <2>1. ~(DraftsRun(s)[r] > 0)
    BY <1>11, <1>13
  <2>2. TokenFed(s, r) = end[r]
    <3>1. CASE r \in Rows(last)
      BY <1>13, <3>1 DEF TokenFed
    <3>2. CASE r \notin Rows(last)
      <4>1. Correction(r, <<>>) = 0
        BY <3>2 DEF Correction, PrevRow
      <4>2. s.at[r] \in Int /\ end[r] \in Int
        BY <1>3, <1>5 DEF Steps, Partial, Pipeline
      <4>3. s.at[r] = end[r]
        BY <1>8, <4>1, <4>2
      <4> QED BY <1>13, <3>2, <4>2, <4>3 DEF TokenFed, OnHost
    <3> QED BY <3>1, <3>2
  <2> QED BY <1>4, <1>8, <1>9, <2>1, <2>2
<1> QED BY <1>12, <1>13

------------------------------------------------------------------------------
(* What the outputs of the oldest step do to the requests that end with them *)
(* and to those that go on.                                                 *)
Updates(ended, goOn) ==
  LET s == queue[1]
      rejected(r) == 1 + s.drafts[r] - s.valid[r]
  IN /\ queue # <<>> /\ s.done /\ queue' = Tail(queue)
     /\ Len(queue) = QueueDepth \/ ~CanSchedule
     /\ goOn \cap ended = {} /\ goOn \cup ended = {r \in DOMAIN s.at : phase[r] = "running"}
     /\ \A r \in goOn : /\ known[r] + s.valid[r] < Prompt[r] + MaxTokens[r]
                        /\ known[r] + s.valid[r] < MaxModelLen
     /\ phase' = [r \in Request |-> IF r \in ended THEN "finished" ELSE phase[r]]
     /\ known' = [r \in Request |-> IF r \in goOn THEN known[r] + s.valid[r] ELSE known[r]]
     /\ computed' = [r \in Request |-> IF r \in goOn THEN computed[r] - rejected(r) ELSE computed[r]]
     /\ reserved' = [r \in Request |->
                       IF r \in goOn THEN reserved[r] - rejected(r) - s.valid[r] ELSE reserved[r]]
     /\ drafting' = drafting \ ended
     /\ specOff' = specOff
     /\ UNCHANGED workerVars

(* update_from_output() ends some requests of the oldest step and goes on    *)
(* with the others.                                                          *)
LEMMA UpdateUpdates ==
  ASSUME DecodeAssumption, DecodeInv, UpdateFromOutput
  PROVE  \E ended, goOn : Updates(ended, goOn)
<1> DEFINE s == Head(queue)
           rejected(r) == 1 + s.drafts[r] - s.valid[r]
           alive == {r \in DOMAIN s.at : phase[r] = "running"}
<1>1. PICK eos \in SUBSET alive :
        LET over == {r \in alive : Stops(r, s.valid[r], eos)}
            on == alive \ over
        IN  /\ phase' = [r \in Request |-> IF r \in over THEN "finished" ELSE phase[r]]
            /\ known' = [r \in Request |-> IF r \in on THEN known[r] + s.valid[r]
                                           ELSE known[r]]
            /\ computed' = [r \in Request |-> IF r \in on THEN computed[r] - rejected(r)
                                              ELSE computed[r]]
            /\ reserved' = [r \in Request |->
                              IF r \in on THEN reserved[r] - rejected(r) - s.valid[r]
                              ELSE reserved[r]]
            /\ drafting' = drafting \ over
  BY Zenon DEF UpdateFromOutput
<1> DEFINE ended == {r \in alive : Stops(r, s.valid[r], eos)}
           goOn == alive \ ended
<1>2. /\ phase' = [r \in Request |-> IF r \in ended THEN "finished" ELSE phase[r]]
      /\ known' = [r \in Request |-> IF r \in goOn THEN known[r] + s.valid[r] ELSE known[r]]
      /\ computed' = [r \in Request |-> IF r \in goOn THEN computed[r] - rejected(r)
                                        ELSE computed[r]]
      /\ reserved' = [r \in Request |-> IF r \in goOn
                                        THEN reserved[r] - rejected(r) - s.valid[r]
                                        ELSE reserved[r]]
      /\ drafting' = drafting \ ended
  BY <1>1, Zenon
<1>3. /\ queue # <<>> /\ s.done /\ queue' = Tail(queue)
      /\ Len(queue) = QueueDepth \/ ~CanSchedule
      /\ specOff' = specOff /\ UNCHANGED workerVars
  BY DEF UpdateFromOutput
<1>4. queue \in Seq(Steps)
  BY DEF DecodeInv, SchedTypes
<1>5. s = queue[1] /\ 1 \in DOMAIN queue
  BY <1>3, <1>4
<1>6. \A r \in DOMAIN s.at : r \in Request /\ s.valid[r] \in Int /\ known[r] \in Int
  <2>1. queue[1] \in Steps
    BY <1>4, <1>5
  <2>2. DOMAIN s.at \subseteq Request
    BY <1>5, <2>1 DEF Steps, Partial
  <2> QED BY <1>5, <2>2 DEF DecodeInv, SchedTypes, FullStep
<1>7. ASSUME NEW r \in goOn
      PROVE  known[r] + s.valid[r] < Prompt[r] + MaxTokens[r] /\ known[r] + s.valid[r] < MaxModelLen
  <2>1. ~Stops(r, s.valid[r], eos) /\ r \in DOMAIN s.at
    BY <1>7
  <2> HIDE DEF s, alive, ended, goOn
  <2>2. /\ known[r] + s.valid[r] \in Int /\ Prompt[r] + MaxTokens[r] \in Int /\ MaxModelLen \in Int
    BY <1>6, <2>1 DEF DecodeAssumption
  <2> QED BY <2>1, <2>2 DEF Stops
<1>8. goOn \cap ended = {} /\ goOn \cup ended = {r \in DOMAIN s.at : phase[r] = "running"}
  OBVIOUS
<1> HIDE DEF s, alive, ended, goOn
<1>9. Updates(ended, goOn)
  BY <1>2, <1>3, <1>5, <1>7, <1>8 DEF Updates
<1> QED BY <1>9

(* The queue without its oldest step.                                       *)
LEMMA QueueAfterUpdate ==
  ASSUME DecodeInv, Pipeline, NEW ended, NEW goOn, Updates(ended, goOn)
  PROVE  /\ Len(queue) \in 1 .. 2 /\ Len(queue') = Len(queue) - 1
         /\ DOMAIN queue = 1 .. Len(queue) /\ DOMAIN queue' = 1 .. Len(queue) - 1
         /\ \A i \in 1 .. Len(queue) - 1 : queue'[i] = queue[i + 1]
         /\ 1 \in DOMAIN queue /\ 2 \notin DOMAIN queue' /\ 3 \notin DOMAIN queue /\ 3 \notin DOMAIN queue'
<1>1. queue \in Seq(Steps) /\ Len(queue) <= 2 /\ queue # <<>> /\ queue' = Tail(queue)
  BY DEF DecodeInv, SchedTypes, Pipeline, QueueDepth, Updates
<1>2. Len(queue) \in 1 .. 2 /\ DOMAIN queue = 1 .. Len(queue)
  <2>1. Len(queue) \in Nat /\ Len(queue) # 0 /\ DOMAIN queue = 1 .. Len(queue)
    BY <1>1, EmptySeq, LenProperties
  <2> QED BY <1>1, <2>1
<1>3. /\ queue' \in Seq(Steps) /\ Len(queue') = Len(queue) - 1
      /\ \A i \in 1 .. Len(queue) - 1 : queue'[i] = queue[i + 1]
  BY <1>1, <1>2, HeadTailProperties
<1>4. DOMAIN queue' = 1 .. Len(queue) - 1
  BY <1>3
<1> QED BY <1>2, <1>3, <1>4

(* The second step in flight becomes the first.                              *)
LEMMA SharesUpdated ==
  ASSUME DecodeInv, Pipeline, NEW ended, NEW goOn, Updates(ended, goOn), NEW r
  PROVE  /\ Places(r, 1)' = Places(r, 2) /\ Places(r, 2)' = 0
         /\ Produced(r, 1)' = Produced(r, 2) /\ Produced(r, 2)' = 0
<1>1. /\ Len(queue) \in 1 .. 2 /\ Len(queue') = Len(queue) - 1
      /\ DOMAIN queue = 1 .. Len(queue) /\ DOMAIN queue' = 1 .. Len(queue) - 1
      /\ \A i \in 1 .. Len(queue) - 1 : queue'[i] = queue[i + 1]
      /\ 2 \notin DOMAIN queue'
  BY QueueAfterUpdate
<1>2. 1 \in DOMAIN queue' <=> 2 \in DOMAIN queue
  BY <1>1
<1>3. 1 \in DOMAIN queue' => queue'[1] = queue[2]
  BY <1>1
<1> QED BY <1>1, <1>2, <1>3 DEF Places, Produced

(* What is left in the queue is as it was.                                   *)
LEMMA PipelineUpdated ==
  ASSUME DecodeInv, Pipeline, NEW ended, NEW goOn, Updates(ended, goOn)
  PROVE  Pipeline'
<1>1. /\ Len(queue) \in 1 .. 2 /\ Len(queue') = Len(queue) - 1
      /\ DOMAIN queue = 1 .. Len(queue) /\ DOMAIN queue' = 1 .. Len(queue) - 1
      /\ \A i \in 1 .. Len(queue) - 1 : queue'[i] = queue[i + 1]
      /\ 2 \notin DOMAIN queue'
  BY QueueAfterUpdate
<1>2. end' = end /\ cache' = cache /\ last' = last
  BY DEF Updates, workerVars
<1>3. \A r \in Request : phase[r] # "waiting" => phase'[r] # "waiting"
  BY DEF Updates
<1>4. ASSUME NEW i \in DOMAIN queue'
      PROVE  /\ DOMAIN queue'[i].at # {}
             /\ \A r \in DOMAIN queue'[i].at :
                  /\ IF queue'[i].done THEN queue'[i].valid[r] >= 1 ELSE queue'[i].valid[r] = 0
                  /\ queue'[i].prefill => queue'[i].drafts[r] = 0
                  /\ phase'[r] # "waiting"
  <2>1. i + 1 \in DOMAIN queue /\ queue'[i] = queue[i + 1]
    BY <1>1
  <2>2. queue[i + 1] \in Steps
    BY <2>1 DEF DecodeInv, SchedTypes
  <2>3. DOMAIN queue[i + 1].at \subseteq Request
    BY <2>2 DEF Steps, Partial
  <2> QED BY <1>3, <2>1, <2>3 DEF Pipeline
<1>5. Len(queue') <= QueueDepth
  BY <1>1 DEF QueueDepth
<1> QED BY <1>1, <1>2, <1>4, <1>5 DEF Pipeline

(* The numbers of a request that goes on.                                   *)
LEMMA GoesOn ==
  ASSUME DecodeAssumption, DecodeInv, Pipeline, NEW ended, NEW goOn, Updates(ended, goOn), NEW r \in goOn
  PROVE  /\ r \in Request /\ phase[r] = "running" /\ r \in DOMAIN queue[1].at /\ r \notin ended
         /\ queue[1].valid[r] \in Nat /\ queue[1].valid[r] >= 1 /\ queue[1].drafts[r] \in {0, NumSpec}
         /\ queue[1].drafts[r] \in Nat /\ queue[1].valid[r] <= 1 + queue[1].drafts[r]
         /\ Places(r, 1) = 1 + queue[1].drafts[r] /\ Produced(r, 1) = queue[1].valid[r]
         /\ known'[r] = known[r] + queue[1].valid[r]
         /\ computed'[r] = computed[r] - (1 + queue[1].drafts[r] - queue[1].valid[r])
         /\ reserved'[r] = reserved[r] - (1 + queue[1].drafts[r] - queue[1].valid[r]) - queue[1].valid[r]
         /\ known[r] + queue[1].valid[r] < Prompt[r] + MaxTokens[r]
         /\ known[r] + queue[1].valid[r] < MaxModelLen
<1>1. 1 \in DOMAIN queue
  BY QueueAfterUpdate
<1>2. r \in DOMAIN queue[1].at /\ phase[r] = "running" /\ r \notin ended /\ queue[1].done
  BY DEF Updates
<1>3. r \in Request
  <2>1. queue[1] \in Steps
    BY <1>1 DEF DecodeInv, SchedTypes
  <2> QED BY <1>2, <2>1 DEF Steps, Partial
<1>4. /\ queue[1].drafts[r] \in {0, NumSpec} /\ queue[1].valid[r] \in Int
      /\ queue[1].valid[r] <= 1 + queue[1].drafts[r] /\ NumSpec \in Nat
  BY <1>1, <1>2 DEF DecodeInv, FullStep, DecodeAssumption
<1>5. queue[1].valid[r] >= 1
  BY <1>1, <1>2 DEF Pipeline
<1>6. queue[1].drafts[r] \in Nat /\ queue[1].valid[r] \in Nat
  BY <1>4, <1>5
<1>7. Places(r, 1) = 1 + queue[1].drafts[r] /\ Produced(r, 1) = queue[1].valid[r]
  BY <1>1, <1>2 DEF Places, Produced
<1>8. /\ known'[r] = known[r] + queue[1].valid[r]
      /\ computed'[r] = computed[r] - (1 + queue[1].drafts[r] - queue[1].valid[r])
      /\ reserved'[r] = reserved[r] - (1 + queue[1].drafts[r] - queue[1].valid[r]) - queue[1].valid[r]
      /\ known[r] + queue[1].valid[r] < Prompt[r] + MaxTokens[r]
      /\ known[r] + queue[1].valid[r] < MaxModelLen
  BY <1>3 DEF Updates
<1> QED BY <1>2, <1>3, <1>4, <1>5, <1>6, <1>7, <1>8

(* A running request that neither ends nor goes on is not in the step.      *)
LEMMA StaysOut ==
  ASSUME DecodeInv, Pipeline, NEW ended, NEW goOn, Updates(ended, goOn),
         NEW r \in Request, phase'[r] = "running", r \notin goOn
  PROVE  /\ phase[r] = "running" /\ r \notin DOMAIN queue[1].at /\ r \notin ended
         /\ Places(r, 1) = 0 /\ Produced(r, 1) = 0
         /\ known'[r] = known[r] /\ computed'[r] = computed[r] /\ reserved'[r] = reserved[r]
<1>1. r \notin ended /\ phase[r] = "running"
  BY DEF Updates
<1>2. r \notin DOMAIN queue[1].at
  BY <1>1 DEF Updates
<1>3. known'[r] = known[r] /\ computed'[r] = computed[r] /\ reserved'[r] = reserved[r]
  BY DEF Updates
<1> QED BY <1>1, <1>2, <1>3 DEF Places, Produced

(* The books balance after the outputs of a step were taken in.              *)
LEMMA BooksUpdated ==
  ASSUME DecodeAssumption, DecodeInv, Pipeline, BooksBalance, NEW ended, NEW goOn, Updates(ended, goOn)
  PROVE  BooksBalance'
<1> SUFFICES ASSUME NEW r \in Request, phase'[r] = "running"
             PROVE  /\ reserved'[r] = Places(r, 1)' + Places(r, 2)'
                    /\ computed'[r] = known'[r] + reserved'[r] - 1
                    /\ known'[r] + Produced(r, 1)' + Produced(r, 2)' = end'[r] + 1
  BY DEF BooksBalance
<1>1. /\ Places(r, 1)' = Places(r, 2) /\ Places(r, 2)' = 0
      /\ Produced(r, 1)' = Produced(r, 2) /\ Produced(r, 2)' = 0
  BY SharesUpdated
<1>2. end'[r] = end[r] /\ phase[r] = "running"
  BY DEF Updates, workerVars
<1>3. /\ reserved[r] = Places(r, 1) + Places(r, 2)
      /\ computed[r] = known[r] + reserved[r] - 1
      /\ known[r] + Produced(r, 1) + Produced(r, 2) = end[r] + 1
  BY <1>2 DEF BooksBalance
<1>4. /\ known[r] \in Int /\ computed[r] \in Int /\ reserved[r] \in Int /\ end[r] \in Int
  BY DEF DecodeInv, SchedTypes, Pipeline
<1>5. Places(r, 2) \in Nat /\ Produced(r, 2) \in Int
  BY SharesTyped
<1>6. CASE r \in goOn
  <2>1. /\ queue[1].valid[r] \in Nat /\ queue[1].drafts[r] \in Nat
        /\ Places(r, 1) = 1 + queue[1].drafts[r] /\ Produced(r, 1) = queue[1].valid[r]
        /\ known'[r] = known[r] + queue[1].valid[r]
        /\ computed'[r] = computed[r] - (1 + queue[1].drafts[r] - queue[1].valid[r])
        /\ reserved'[r] = reserved[r] - (1 + queue[1].drafts[r] - queue[1].valid[r]) - queue[1].valid[r]
    BY <1>6, GoesOn
  <2> QED BY <1>1, <1>2, <1>3, <1>4, <1>5, <2>1
<1>7. CASE r \notin goOn
  <2>1. /\ Places(r, 1) = 0 /\ Produced(r, 1) = 0
        /\ known'[r] = known[r] /\ computed'[r] = computed[r] /\ reserved'[r] = reserved[r]
    BY <1>7, StaysOut
  <2> QED BY <1>1, <1>2, <1>3, <1>4, <1>5, <2>1
<1> QED BY <1>6, <1>7

(* A running request that is left when the last step of the queue is taken   *)
(* in could have been scheduled before.                                     *)
LEMMA NoneLeftOut ==
  ASSUME DecodeAssumption, DecodeInv, Pipeline, BooksBalance, Statuses,
         NEW ended, NEW goOn, Updates(ended, goOn), Len(queue) = 1,
         NEW r \in Request, phase'[r] = "running"
  PROVE  FALSE
<1>1. phase[r] = "running"
  BY DEF Updates
<1>2. r \notin Decodable
  BY DEF Updates, CanSchedule, QueueDepth
<1>3. WillFinish(r) \/ ~(NewTokens(r) > 0)
  BY <1>1, <1>2 DEF Decodable
<1>4. /\ reserved[r] = Places(r, 1) + Places(r, 2)
      /\ computed[r] = known[r] + reserved[r] - 1
  BY <1>1 DEF BooksBalance
<1>5. 2 \notin DOMAIN queue /\ Places(r, 2) = 0 /\ 1 \in DOMAIN queue
  <2>1. DOMAIN queue = 1 .. 1
    BY QueueAfterUpdate
  <2> QED BY <2>1 DEF Places
<1>6. /\ known[r] \in Int /\ computed[r] \in Int /\ reserved[r] \in Int
      /\ Prompt[r] \in Int /\ MaxTokens[r] \in Int /\ MaxModelLen \in Int /\ NumSpec \in Nat \ {0}
  BY DEF DecodeInv, SchedTypes, DecodeAssumption
<1> DEFINE extra == IF r \in drafting THEN NumSpec ELSE 0
           room == MaxModelLen - 1 - computed[r]
<1>7. extra \in Nat /\ room \in Int
  BY <1>6
<1>8. NewTokens(r) = IF known[r] + extra + reserved[r] - computed[r] < room
                     THEN known[r] + extra + reserved[r] - computed[r] ELSE room
  BY DEF NewTokens
<1>9. room > 0 => NewTokens(r) > 0
  <2>1. Places(r, 1) \in Nat
    BY SharesTyped
  <2> HIDE DEF extra, room
  <2> QED BY <1>4, <1>5, <1>6, <1>7, <1>8, <2>1
<1>10. CASE r \in goOn
  <2>1. /\ queue[1].valid[r] \in Nat /\ queue[1].valid[r] >= 1 /\ queue[1].drafts[r] \in {0, NumSpec}
        /\ queue[1].drafts[r] \in Nat /\ r \in DOMAIN queue[1].at
        /\ Places(r, 1) = 1 + queue[1].drafts[r]
        /\ known[r] + queue[1].valid[r] < Prompt[r] + MaxTokens[r]
        /\ known[r] + queue[1].valid[r] < MaxModelLen
    BY <1>10, GoesOn
  <2>2. reserved[r] = 1 + queue[1].drafts[r] /\ computed[r] = known[r] + queue[1].drafts[r]
    BY <1>4, <1>5, <1>6, <2>1
  <2>3. ~WillFinish(r)
    BY <1>6, <2>1, <2>2 DEF WillFinish
  <2>4. room > 0
    <3>1. CASE queue[1].drafts[r] = 0
      BY <1>6, <2>1, <2>2, <3>1
    <3>2. CASE queue[1].drafts[r] = NumSpec
      <4>1. InStep(r, 1) /\ ~InStep(r, 1 + 1) /\ queue[1].drafts[r] > 0
        BY <1>5, <1>6, <2>1, <3>2 DEF InStep
      <4>2. computed[r] <= Margin + 1 + NumSpec
        BY <1>1, <1>5, <4>1 DEF Statuses
      <4> QED BY <1>6, <4>2 DEF Margin
    <3> QED BY <2>1, <3>1, <3>2
  <2> QED BY <1>3, <1>9, <2>3, <2>4
<1>11. CASE r \notin goOn
  <2>1. Places(r, 1) = 0
    BY <1>11, StaysOut
  <2>2. reserved[r] = 0 /\ computed[r] = known[r] - 1
    BY <1>4, <1>5, <1>6, <2>1
  <2>3. ~WillFinish(r)
    BY <2>2 DEF WillFinish
  <2>4. known[r] < MaxModelLen
    BY <1>1 DEF Statuses
  <2>5. room > 0
    BY <1>6, <2>2, <2>4
  <2> QED BY <1>3, <1>9, <2>3, <2>5
<1> QED BY <1>10, <1>11

(* The requests that go on are short of the end.                             *)
LEMMA StatusesUpdated ==
  ASSUME DecodeAssumption, DecodeInv, Pipeline, BooksBalance, Statuses,
         NEW ended, NEW goOn, Updates(ended, goOn)
  PROVE  Statuses'
<1>1. /\ Len(queue) \in 1 .. 2 /\ Len(queue') = Len(queue) - 1
      /\ DOMAIN queue = 1 .. Len(queue) /\ DOMAIN queue' = 1 .. Len(queue) - 1
      /\ \A i \in 1 .. Len(queue) - 1 : queue'[i] = queue[i + 1]
      /\ 3 \notin DOMAIN queue
  BY QueueAfterUpdate
<1>2. queue' = <<>> => \A r \in Request : phase'[r] # "running"
  <2>1. queue' = <<>> => Len(queue) = 1
    BY <1>1
  <2> QED BY <2>1, NoneLeftOut
<1>3. ASSUME NEW r \in Request, phase'[r] = "waiting" PROVE end'[r] = Prompt[r] - 1
  BY <1>3 DEF Updates, workerVars, Statuses
<1>4. ASSUME NEW r \in Request, phase'[r] = "running"
      PROVE  /\ phase[r] = "running" /\ known'[r] < MaxModelLen /\ (r \in specOff' \/ r \in drafting')
             /\ computed'[r] <= computed[r]
  <2>1. phase[r] = "running" /\ r \notin ended /\ specOff' = specOff /\ drafting' = drafting \ ended
    BY <1>4 DEF Updates
  <2>2. known[r] < MaxModelLen /\ (r \in specOff \/ r \in drafting)
    BY <2>1 DEF Statuses
  <2>3. computed[r] \in Int
    BY DEF DecodeInv, SchedTypes
  <2>4. CASE r \in goOn
    <3>1. /\ queue[1].valid[r] \in Nat /\ queue[1].drafts[r] \in Nat
          /\ queue[1].valid[r] <= 1 + queue[1].drafts[r]
          /\ known'[r] = known[r] + queue[1].valid[r] /\ known[r] + queue[1].valid[r] < MaxModelLen
          /\ computed'[r] = computed[r] - (1 + queue[1].drafts[r] - queue[1].valid[r])
      BY <2>4, GoesOn
    <3>2. computed'[r] <= computed[r]
      BY <2>3, <3>1
    <3> QED BY <2>1, <2>2, <3>1, <3>2
  <2>5. CASE r \notin goOn
    <3>1. known'[r] = known[r] /\ computed'[r] = computed[r]
      BY <1>4, <2>5, StaysOut
    <3> QED BY <2>1, <2>2, <2>3, <3>1
  <2> QED BY <2>4, <2>5
<1>5. ASSUME NEW r \in Request, NEW i \in DOMAIN queue', phase'[r] = "running", InStep(r, i)',
             queue'[i].drafts[r] > 0
      PROVE  computed'[r] <= Margin' + 1 + NumSpec
  <2>1. i = 1 /\ 2 \in DOMAIN queue /\ queue'[1] = queue[2]
    BY <1>1
  <2>2. InStep(r, 2) /\ ~InStep(r, 2 + 1) /\ queue[2].drafts[r] > 0
    BY <1>1, <1>5, <2>1 DEF InStep
  <2>3. phase[r] = "running" /\ computed'[r] <= computed[r]
    BY <1>4, <1>5
  <2>4. computed[r] <= Margin + 1 + NumSpec
    BY <2>1, <2>2, <2>3 DEF Statuses
  <2>5. computed[r] \in Int /\ computed'[r] \in Int /\ Margin \in Int /\ Margin' = Margin /\ NumSpec \in Int
    <3>1. computed[r] \in Int /\ Margin \in Int /\ Margin' = Margin /\ NumSpec \in Int
      BY DEF DecodeInv, SchedTypes, Margin, DecodeAssumption
    <3>2. CASE r \in goOn
      <4>1. /\ queue[1].valid[r] \in Nat /\ queue[1].drafts[r] \in Nat
            /\ computed'[r] = computed[r] - (1 + queue[1].drafts[r] - queue[1].valid[r])
        BY <3>2, GoesOn
      <4> QED BY <3>1, <4>1
    <3>3. CASE r \notin goOn
      BY <1>5, <3>1, <3>3, StaysOut
    <3> QED BY <3>1, <3>2, <3>3
  <2> QED BY <2>3, <2>4, <2>5
<1> QED BY <1>2, <1>3, <1>4, <1>5 DEF Statuses

(* A promise after the outputs of the oldest step was one before.           *)
LEMMA PromisesUpdated ==
  ASSUME DecodeInv, Pipeline, NEW ended, NEW goOn, Updates(ended, goOn),
         NEW r \in Request, NEW m \in 0 .. 1, Promised(r, m)'
  PROVE  Promised(r, m + 1)
<1>1. /\ Len(queue) \in 1 .. 2
      /\ DOMAIN queue = 1 .. Len(queue) /\ DOMAIN queue' = 1 .. Len(queue) - 1
      /\ \A i \in 1 .. Len(queue) - 1 : queue'[i] = queue[i + 1]
  BY QueueAfterUpdate
<1>2. phase'[r] = "running" /\ r \in drafting' => phase[r] = "running" /\ r \in drafting
  BY DEF Updates
<1>3. CASE m = 0
  <2>1. ~InStep(r, 0 + 2)' /\ ~InStep(r, 0 + 1 + 2)
    BY <1>1 DEF InStep
  <2>2. InStep(r, 0 + 1)' <=> InStep(r, 0 + 1 + 1)
    BY <1>1 DEF InStep
  <2>3. InStep(r, 0 + 1)' => queue'[0 + 1].drafts = queue[0 + 1 + 1].drafts
    BY <1>1 DEF InStep
  <2> QED BY <1>2, <1>3, <2>1, <2>2, <2>3 DEF Promised
<1>4. CASE m = 1
  <2>1. /\ ~InStep(r, 1 + 1)' /\ ~InStep(r, 1 + 2)'
        /\ ~InStep(r, 1 + 1 + 1) /\ ~InStep(r, 1 + 1 + 2)
    BY <1>1 DEF InStep
  <2> QED BY <1>2, <1>4, <2>1 DEF Promised
<1> QED BY <1>3, <1>4

(* Promises outlive the outputs of the step before.                          *)
LEMMA PromisesKeptUpdated ==
  ASSUME DecodeInv, Pipeline, Promises, NEW ended, NEW goOn, Updates(ended, goOn)
  PROVE  Upcoming' /\ Promises'
<1>1. /\ Len(queue) \in 1 .. 2
      /\ DOMAIN queue = 1 .. Len(queue) /\ DOMAIN queue' = 1 .. Len(queue) - 1
      /\ \A i \in 1 .. Len(queue) - 1 : queue'[i] = queue[i + 1]
      /\ 2 \notin DOMAIN queue'
  BY QueueAfterUpdate
<1>2. Upcoming'
  BY <1>1 DEF Upcoming
<1>3. Promises'
  <2> SUFFICES ASSUME NEW r \in Request, NEW i \in DOMAIN queue', Promised(r, i)'
               PROVE  /\ r \in queue'[i].live
                      /\ r \in DOMAIN queue'[i].at =>
                           /\ queue'[i].prefill \/ queue'[i].drafts[r] > 0
                           /\ queue'[i].at[r] + SizeOf(queue'[i], r) <= Margin'
    BY DEF Promises, SizeOf
  <2>1. i \in 0 .. 1 /\ i + 1 \in DOMAIN queue /\ queue'[i] = queue[i + 1]
    BY <1>1
  <2>2. Promised(r, i + 1)
    BY <2>1, PromisesUpdated
  <2> QED BY <2>1, <2>2 DEF Promises, Margin
<1> QED BY <1>2, <1>3

(* The steps that have run are those that had.                               *)
LEMMA RunUpdated ==
  ASSUME DecodeInv, Pipeline, NEW ended, NEW goOn, Updates(ended, goOn), NEW m, RanTo(m)'
  PROVE  m \in 0 .. 1 /\ RanTo(m + 1)
<1>1. /\ Len(queue) \in 1 .. 2 /\ Len(queue') = Len(queue) - 1
      /\ DOMAIN queue = 1 .. Len(queue) /\ DOMAIN queue' = 1 .. Len(queue) - 1
      /\ \A i \in 1 .. Len(queue) - 1 : queue'[i] = queue[i + 1]
  BY QueueAfterUpdate
<1>2. queue[1].done
  BY DEF Updates
<1>3. /\ m \in 0 .. Len(queue) - 1 /\ \A i \in 1 .. m : queue'[i].done
      /\ m + 1 \in DOMAIN queue' => ~queue'[m + 1].done
  BY <1>1 DEF RanTo
<1>4. m \in 0 .. 1 /\ m + 1 \in 0 .. Len(queue)
  <2> DEFINE k == Len(queue)
  <2>1. k \in 1 .. 2
    BY <1>1
  <2>2. m \in 0 .. k - 1
    BY <1>3
  <2> HIDE DEF k
  <2>3. m \in 0 .. 1 /\ m + 1 \in 0 .. k
    BY <2>1, <2>2
  <2> QED BY <2>3 DEF k
<1>5. ASSUME NEW i \in 1 .. m + 1 PROVE queue[i].done
  <2>1. CASE i = 1
    BY <1>2, <2>1
  <2>2. CASE i # 1
    <3>1. i - 1 \in 1 .. m /\ i - 1 \in 1 .. Len(queue) - 1 /\ (i - 1) + 1 = i
      BY <1>1, <1>3, <1>4, <1>5, <2>2
    <3> QED BY <1>1, <1>3, <3>1
  <2> QED BY <2>1, <2>2
<1>6. ASSUME m + 1 + 1 \in DOMAIN queue PROVE ~queue[m + 1 + 1].done
  <2>1. m + 1 \in DOMAIN queue' /\ m + 1 \in 1 .. Len(queue) - 1
    BY <1>1, <1>4, <1>6
  <2> QED BY <1>1, <1>3, <2>1
<1> QED BY <1>4, <1>5, <1>6 DEF RanTo

(* What the worker keeps is as good as before.                              *)
LEMMA InputsUpdated ==
  ASSUME DecodeInv, Pipeline, Returned, Aligned, Proposed, NEW ended, NEW goOn, Updates(ended, goOn)
  PROVE  Returned' /\ Aligned' /\ Proposed'
<1>1. /\ Len(queue) \in 1 .. 2
      /\ DOMAIN queue = 1 .. Len(queue) /\ DOMAIN queue' = 1 .. Len(queue) - 1
      /\ \A i \in 1 .. Len(queue) - 1 : queue'[i] = queue[i + 1]
  BY QueueAfterUpdate
<1>2. end' = end /\ cache' = cache /\ last' = last /\ Rows(last)' = Rows(last)
  BY DEF Updates, workerVars, Rows
<1>3. \A r : Correction(r, <<>>)' = Correction(r, <<>>)
  BY <1>2 DEF Correction, PrevRow, Rows
<1>4. Returned'
  <2> SUFFICES ASSUME NEW m \in DOMAIN queue', RanTo(m)'
               PROVE  /\ Rows(last) = DOMAIN queue'[m].at
                      /\ \A r \in DOMAIN queue'[m].at :
                           Correction(r, <<>>) = 1 + queue'[m].drafts[r] - queue'[m].valid[r]
    BY <1>2, <1>3 DEF Returned
  <2>1. RanTo(m + 1)
    BY RunUpdated
  <2>2. m + 1 \in DOMAIN queue /\ queue'[m] = queue[m + 1]
    BY <1>1
  <2> QED BY <2>1, <2>2 DEF Returned
<1>5. Aligned'
  <2> SUFFICES ASSUME NEW m \in 0 .. 1, RanTo(m)', m + 1 \in DOMAIN queue', ~queue'[m + 1].prefill
               PROVE  /\ Rows(last) # {}
                      /\ \A r \in DOMAIN queue'[m + 1].at :
                           queue'[m + 1].at[r] - Correction(r, <<>>) = end[r]
    BY <1>2, <1>3 DEF Aligned
  <2>1. RanTo(m + 1)
    BY RunUpdated
  <2>2. m + 1 \in 0 .. 1 /\ m + 1 + 1 \in DOMAIN queue /\ queue'[m + 1] = queue[m + 1 + 1]
    BY <1>1
  <2> QED BY <2>1, <2>2 DEF Aligned
<1>6. Proposed'
  <2> SUFFICES ASSUME NEW m \in 0 .. 2, NEW r \in Request, RanTo(m)', Promised(r, m)'
               PROVE  cache[r] = end[r] /\ end[r] > 0 /\ (r \in Rows(last) => last.drafts)
    BY <1>2 DEF Proposed
  <2>1. m \in 0 .. 1 /\ RanTo(m + 1)
    BY RunUpdated
  <2>2. m + 1 \in 0 .. 2 /\ Promised(r, m + 1)
    BY <2>1, PromisesUpdated
  <2> QED BY <2>1, <2>2 DEF Proposed
<1> QED BY <1>4, <1>5, <1>6

------------------------------------------------------------------------------
(* Nothing is in flight at first.                                            *)
LEMMA PipelineInitially == DecodeAssumption /\ DecodeInit => PipelineInv /\ InputsExact
<1> SUFFICES ASSUME DecodeAssumption, DecodeInit PROVE PipelineInv /\ InputsExact
  OBVIOUS
<1>1. DecodeInv
  BY DecodeInitially
<1>2. /\ queue = <<>> /\ DOMAIN queue = {} /\ Len(queue) = 0 /\ fed = <<>> /\ DOMAIN fed = {}
      /\ drafting = {} /\ phase = [r \in Request |-> "waiting"]
      /\ end = [r \in Request |-> Prompt[r] - 1] /\ cache = [r \in Request |-> 0] /\ last.rows = <<>>
  BY DEF DecodeInit
<1>3. Pipeline
  <2>1. \A r \in Request : Prompt[r] - 1 \in Nat
    BY DEF DecodeAssumption
  <2> QED BY <1>2, <2>1 DEF Pipeline, QueueDepth
<1>4. BooksBalance /\ Statuses /\ Upcoming /\ Promises
  BY <1>2 DEF BooksBalance, Statuses, Upcoming, Promises
<1>5. \A r \in Request : \A m : ~Promised(r, m)
  BY <1>2 DEF Promised, InStep
<1>6. Returned /\ Aligned /\ Proposed
  BY <1>2, <1>5 DEF Returned, Aligned, Proposed
<1>7. InputsExact
  BY <1>2 DEF InputsExact
<1> QED BY <1>1, <1>3, <1>4, <1>6, <1>7 DEF PipelineInv

(* A plan keeps the whole invariant.                                         *)
LEMMA PlanKeepsInputs ==
  ASSUME DecodeAssumption, PipelineInv, InputsExact, DecodeInv', NEW s, NEW reqs, Plans(s, reqs)
  PROVE  PipelineInv' /\ InputsExact'
<1>1. /\ DecodeInv /\ Pipeline /\ BooksBalance /\ Statuses /\ Upcoming /\ Promises
      /\ apart \/ (Returned /\ Aligned /\ Proposed)
  BY DEF PipelineInv
<1>2. Pipeline' /\ BooksBalance' /\ Statuses' /\ Upcoming' /\ Promises'
  BY <1>1, PipelinePlanned, BooksPlanned, StatusesPlanned, UpcomingPlanned, PromisesKeptPlanned
<1>3. apart' = apart /\ fed' = fed
  BY DEF Plans, workerVars
<1>4. apart' \/ (Returned' /\ Aligned' /\ Proposed')
  BY <1>1, <1>3, InputsPlanned
<1>5. InputsExact'
  BY <1>3 DEF InputsExact
<1> QED BY <1>2, <1>4, <1>5 DEF PipelineInv

(* Every step of the engine keeps the invariant, and the inputs exact.       *)
LEMMA PipelineStep ==
  DecodeAssumption /\ PipelineInv /\ InputsExact /\ [DecodeNext]_decodeVars => PipelineInv' /\ InputsExact'
<1> SUFFICES ASSUME DecodeAssumption, PipelineInv, InputsExact, [DecodeNext]_decodeVars
             PROVE  PipelineInv' /\ InputsExact'
  OBVIOUS
<1>1. /\ DecodeInv /\ Pipeline /\ BooksBalance /\ Statuses /\ Upcoming /\ Promises
      /\ apart \/ (Returned /\ Aligned /\ Proposed)
  BY DEF PipelineInv
<1>2. DecodeInv'
  BY <1>1, DecodeStep
<1>3. ASSUME NEW r \in Request, SchedulePrefill(r) PROVE PipelineInv' /\ InputsExact'
  <2>1. PICK s : Plans(s, {r})
    BY <1>1, <1>3, PrefillPlans
  <2> QED BY <1>2, <2>1, PlanKeepsInputs
<1>4. CASE ScheduleDecode
  <2>1. PICK s : Plans(s, Decodable)
    BY <1>1, <1>4, DecodePlans
  <2> QED BY <1>2, <2>1, PlanKeepsInputs
<1>5. CASE UpdateFromOutput
  <2>1. PICK ended, goOn : Updates(ended, goOn)
    BY <1>1, <1>5, UpdateUpdates
  <2>2. Pipeline' /\ BooksBalance' /\ Statuses' /\ Upcoming' /\ Promises'
    BY <1>1, <2>1, PipelineUpdated, BooksUpdated, StatusesUpdated, PromisesKeptUpdated
  <2>3. apart' = apart /\ fed' = fed
    BY <2>1 DEF Updates, workerVars
  <2>4. apart' \/ (Returned' /\ Aligned' /\ Proposed')
    BY <1>1, <2>1, <2>3, InputsUpdated
  <2>5. InputsExact'
    BY <2>3 DEF InputsExact
  <2> QED BY <1>2, <2>2, <2>4, <2>5 DEF PipelineInv
<1>6. CASE Execute
  <2>1. PICK i, s, order, n : Runs(i, s, order, n)
    BY <1>1, <1>6, ExecuteRuns
  <2>2. Pipeline' /\ BooksBalance' /\ Statuses' /\ Upcoming' /\ Promises'
    BY <1>1, <2>1, PipelineRun, BooksRun, StatusesRun
  <2>3. apart' = (apart \/ Apart(s))
    BY <2>1 DEF Runs
  <2>4. CASE apart \/ Apart(s)
    BY <1>2, <2>2, <2>3, <2>4 DEF PipelineInv, InputsExact
  <2>5. CASE ~apart /\ ~Apart(s)
    <3>1. Returned' /\ Aligned' /\ Proposed'
      BY <1>1, <2>1, <2>5, ReturnedRun, AlignedRun, ProposedRun
    <3>2. InputsExact'
      BY <1>1, <2>1, <2>5, ExactRun
    <3> QED BY <1>2, <2>2, <3>1, <3>2 DEF PipelineInv
  <2> QED BY <2>4, <2>5
<1>7. CASE UNCHANGED decodeVars
  <2>1. UNCHANGED <<phase, computed, known, reserved, drafting, specOff, queue, last, cache, end, fed, apart>>
    BY <1>7 DEF decodeVars, schedVars, workerVars
  <2>2. Pipeline' /\ Statuses' /\ Upcoming'
    BY <1>1, <2>1 DEF Pipeline, Statuses, Upcoming, InStep, Margin
  <2>3. BooksBalance' /\ InputsExact'
    BY <1>1, <2>1 DEF BooksBalance, Places, Produced, InputsExact
  <2>4. Promises'
    BY <1>1, <2>1 DEF Promises, Promised, InStep, SizeOf, Margin
  <2>5. apart' \/ (Returned' /\ Aligned' /\ Proposed')
    <3>1. CASE apart
      BY <2>1, <3>1
    <3>2. CASE ~apart
      <4>1. Returned' /\ Aligned'
        <5>1. \A r : Correction(r, <<>>)' = Correction(r, <<>>)
          BY <2>1 DEF Correction, PrevRow, Rows
        <5>2. \A m : RanTo(m)' <=> RanTo(m)
          BY <2>1 DEF RanTo
        <5>3. Rows(last)' = Rows(last)
          BY <2>1 DEF Rows
        <5>4. Returned /\ Aligned
          BY <1>1, <3>2
        <5>5. Returned'
          BY <2>1, <5>1, <5>2, <5>3, <5>4 DEF Returned
        <5>6. Aligned'
          BY <2>1, <5>1, <5>2, <5>3, <5>4 DEF Aligned
        <5> QED BY <5>5, <5>6
      <4>2. Proposed'
        BY <1>1, <2>1, <3>2 DEF Proposed, Promised, InStep, RanTo, Rows
      <4> QED BY <4>1, <4>2
    <3> QED BY <3>1, <3>2
  <2> QED BY <1>2, <2>2, <2>3, <2>4, <2>5 DEF PipelineInv
<1> QED BY <1>3, <1>4, <1>5, <1>6, <1>7 DEF DecodeNext, Schedule

(* However the steps of the engine and the worker interleave, the scheduler's *)
(* placeholders are those of the steps in flight, num_computed_tokens is ahead *)
(* of the delivered tokens by them, and no token the model has produced is lost *)
(* or counted twice (_update_after_schedule, update_from_output).           *)
THEOREM TokensAccounted == DecodeSpec => []BooksBalance
<1>1. DecodeInit => PipelineInv /\ InputsExact
  BY PipelineInitially, DecodeAssumption
<1>2. PipelineInv /\ InputsExact /\ [DecodeNext]_decodeVars => (PipelineInv /\ InputsExact)'
  BY PipelineStep, DecodeAssumption
<1>3. PipelineInv => BooksBalance
  BY DEF PipelineInv
<1> QED BY <1>1, <1>2, <1>3, PTL DEF DecodeSpec

(* As long as no step mixes requests that still speculate with requests that  *)
(* have stopped, every decode step runs at the position of the last token the *)
(* model has produced, begins with that token, and verifies only drafts that *)
(* were proposed after it: whatever was rejected before, and whichever      *)
(* requests came or left in between (neuron_model_runner, _update_states to *)
(* the correction on the device).                                           *)
THEOREM StepsFedRight == DecodeSpec => []InputsExact
<1>1. DecodeInit => PipelineInv /\ InputsExact
  BY PipelineInitially, DecodeAssumption
<1>2. PipelineInv /\ InputsExact /\ [DecodeNext]_decodeVars => (PipelineInv /\ InputsExact)'
  BY PipelineStep, DecodeAssumption
<1> QED BY <1>1, <1>2, PTL DEF DecodeSpec
==============================================================================
