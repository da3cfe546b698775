----------------------- MODULE NeuronScheduler_proofs -----------------------
(***************************************************************************)
(* Proofs about the scheduler, for every set of requests, role, batch      *)
(* size, pool and pipeline depth.                                          *)
(***************************************************************************)
EXTENDS NeuronScheduler, ListLemmas, FiniteSetTheorems, SequenceTheorems, TLAPS

(* The queues hold requests. *)
QueueTypes ==
  /\ waiting \in Seq(Request)
  /\ grammarQ \in Seq(Request)
  /\ remoteKv \subseteq Request
  /\ running \subseteq Request

(* The inductive invariant of WithinCapacity: what the base scheduler admits *)
(* is bounded by the slots step 4 leaves it only if the queues it is shown   *)
(* hold requests, of which there are finitely many.                          *)
CapacityInv == QueueTypes /\ WithinCapacity

(* Taking an entry out of a list leaves a list. *)
LEMMA WithoutType ==
  ASSUME NEW S, NEW s \in Seq(S), NEW e
  PROVE  Without(s, e) \in Seq(S)
<1>1. CASE e \notin ToSet(s)
  BY <1>1 DEF Without
<1>2. CASE e \in ToSet(s)
  <2> DEFINE i == CHOOSE k \in DOMAIN s : s[k] = e
  <2>1. i \in 1 .. Len(s)
    BY <1>2, LenProperties DEF ToSet
  <2> HIDE DEF i
  <2>2. Len(s) \in Nat /\ i \in Int /\ \A k \in 1 .. Len(s) : s[k] \in S
    BY <2>1, LenProperties
  <2>3. SubSeq(s, 1, i - 1) \in Seq(S) /\ SubSeq(s, i + 1, Len(s)) \in Seq(S)
    <3>1. \A k \in 1 .. i - 1 : s[k] \in S
      BY <2>1, <2>2
    <3>2. \A k \in i + 1 .. Len(s) : s[k] \in S
      BY <2>1, <2>2
    <3> QED BY <2>2, <3>1, <3>2, SubSeqProperties
  <2>4. RemoveAt(s, i) \in Seq(S)
    BY <2>3, ConcatProperties DEF RemoveAt
  <2> QED BY <1>2, <2>4 DEF Without, i
<1> QED BY <1>1, <1>2

(* A union is no larger than its parts together. *)
LEMMA UnionBound ==
  ASSUME NEW S, NEW T, IsFiniteSet(S), IsFiniteSet(T)
  PROVE  /\ IsFiniteSet(S \cup T)
         /\ Cardinality(S \cup T) <= Cardinality(S) + Cardinality(T)
<1>1. /\ IsFiniteSet(S \cup T)
      /\ Cardinality(S \cup T) = Cardinality(S) + Cardinality(T) - Cardinality(S \cap T)
  BY FS_Union
<1>2. Cardinality(S \cap T) \in Nat
  BY FS_Intersection, FS_CardinalityType
<1>3. Cardinality(S) \in Nat /\ Cardinality(T) \in Nat
  BY FS_CardinalityType
<1> QED BY <1>1, <1>2, <1>3

(* An order of some requests is a list of requests. *)
LEMMA OrderType ==
  ASSUME NEW S, NEW T \in SUBSET S, IsFiniteSet(T), NEW order \in SetToSeqs(T)
  PROVE  order \in Seq(S)
<1>1. Cardinality(T) \in Nat
  BY FS_CardinalityType
<1>2. order \in [1 .. Cardinality(T) -> T]
  BY DEF SetToSeqs
<1>3. order \in Seq(T)
  BY <1>1, <1>2
<1> QED BY <1>3, SeqMonotonic

(* Visible and Hidden partition the running queue. *)
LEMMA HiddenSplit ==
  ASSUME SchedulerAssumption, QueueTypes
  PROVE  /\ Hidden \subseteq running
         /\ IsFiniteSet(running) /\ IsFiniteSet(Hidden) /\ IsFiniteSet(Visible)
         /\ Cardinality(running) \in Nat
         /\ Cardinality(Hidden) \in Nat
         /\ Cardinality(Visible) \in Nat
         /\ Cardinality(running) = Cardinality(Visible) + Cardinality(Hidden)
<1>1. Hidden \subseteq running
  BY DEF Hidden
<1>2. IsFiniteSet(running)
  BY FS_Subset DEF SchedulerAssumption, QueueTypes
<1>3. IsFiniteSet(Hidden) /\ IsFiniteSet(Visible)
  BY <1>1, <1>2, FS_Subset DEF Visible
<1>4. running = Visible \cup Hidden /\ Visible \cap Hidden = {}
  BY <1>1 DEF Visible
<1>5. Cardinality(running) = Cardinality(Visible) + Cardinality(Hidden)
        - Cardinality(Visible \cap Hidden)
  BY <1>3, <1>4, FS_Union
<1>6. Cardinality(Visible \cap Hidden) = 0
  BY <1>4, FS_EmptySet
<1>7. /\ Cardinality(running) \in Nat
      /\ Cardinality(Hidden) \in Nat
      /\ Cardinality(Visible) \in Nat
  BY <1>2, <1>3, FS_CardinalityType
<1> QED BY <1>1, <1>2, <1>3, <1>5, <1>6, <1>7

(* Step 4: what the base scheduler may run, and what is hidden from it,      *)
(* together fit max_num_seqs, in each of the branches of step 3.             *)
LEMMA MaxRunningBound ==
  ASSUME SchedulerAssumption, QueueTypes, WithinCapacity
  PROVE  MaxRunning \in Int /\ MaxRunning + Cardinality(Hidden) <= MaxNumSeqs
<1>1. /\ Cardinality(running) \in Nat
      /\ Cardinality(Hidden) \in Nat
      /\ Cardinality(Visible) \in Nat
      /\ Cardinality(running) = Cardinality(Visible) + Cardinality(Hidden)
  BY HiddenSplit
<1>2. Cardinality(running) <= MaxNumSeqs /\ MaxNumSeqs \in Nat
  BY DEF WithinCapacity, SchedulerAssumption
<1>3. CASE HasPrefillInRunning
  BY <1>1, <1>2, <1>3 DEF MaxRunning
<1>4. CASE ~HasPrefillInRunning /\ CanStartPrefill
  BY <1>1, <1>2, <1>4 DEF MaxRunning, MaxPrefillsPerBatch
<1>5. CASE ~HasPrefillInRunning /\ ~CanStartPrefill
  <2>1. Hidden = {}
    BY <1>5 DEF Hidden
  <2>2. Cardinality(Hidden) = 0
    BY <2>1, FS_EmptySet
  <2> QED BY <1>1, <1>2, <1>5, <2>2 DEF MaxRunning
<1> QED BY <1>3, <1>4, <1>5

(* Only requests are handed to the base scheduler. *)
LEMMA ReadyTypes ==
  ASSUME QueueTypes
  PROVE  Restored \subseteq Request /\ VisibleGrammar \subseteq Request
<1>1. waiting # <<>> => Head(waiting) \in Request
  BY HeadTailProperties DEF QueueTypes
<1>2. grammarQ # <<>> => Head(grammarQ) \in Request
  BY HeadTailProperties DEF QueueTypes
<1> QED BY <1>1, <1>2 DEF Restored, Holdback, VisibleGrammar

(* A call of schedule() keeps the running queue within max_num_seqs.         *)
LEMMA ScheduleKeepsCapacity ==
  ASSUME SchedulerAssumption, CapacityInv, Schedule
  PROVE  CapacityInv'
<1> USE DEF CapacityInv
<1>1. PICK late \in SUBSET (VisibleGrammar \ compiled) :
        \E preempted \in SUBSET Visible :
          \E admitted \in SUBSET (Restored \cup (remoteKv \cap received)
                       \cup (VisibleGrammar \cap (compiled \cup late))) :
            ScheduleWith(Restored \cup (remoteKv \cap received)
                           \cup (VisibleGrammar \cap (compiled \cup late)),
                         preempted, admitted)
  BY DEF Schedule
<1> DEFINE ready == Restored \cup (remoteKv \cap received)
                      \cup (VisibleGrammar \cap (compiled \cup late))
<1>2. PICK preempted \in SUBSET Visible, admitted \in SUBSET ready :
        ScheduleWith(ready, preempted, admitted)
  BY <1>1
<1> DEFINE parked == {r \in admitted : Parks(r)}
           started == admitted \ parked
           back == RunningRestored(preempted, started)
<1>3. /\ BaseAdmit(ready, preempted, admitted)
      /\ \E order \in SetToSeqs(preempted) :
           waiting' = order \o (IF admitted \cap Restored # {} THEN Tail(Holdback) ELSE Holdback)
      /\ grammarQ' = IF admitted \cap VisibleGrammar # {} THEN Tail(grammarQ) ELSE grammarQ
      /\ remoteKv' = (remoteKv \ started) \cup parked
      /\ running' \subseteq back
  BY <1>2 DEF ScheduleWith
<1>4. admitted \subseteq Request /\ started \subseteq Request /\ parked \subseteq Request
  BY ReadyTypes DEF QueueTypes
<1>5. preempted \subseteq Request /\ IsFiniteSet(preempted)
  <2>1. preempted \subseteq Request
    BY DEF Visible, QueueTypes
  <2> QED BY <2>1, FS_Subset DEF SchedulerAssumption
<1>6. waiting' \in Seq(Request)
  <2>1. PICK order \in SetToSeqs(preempted) :
          waiting' = order \o (IF admitted \cap Restored # {} THEN Tail(Holdback) ELSE Holdback)
    BY <1>3
  <2>2. order \in Seq(Request)
    BY <1>5, OrderType
  <2>3. admitted \cap Restored # {} => waiting # <<>>
    BY DEF Restored, Holdback
  <2>4. (IF admitted \cap Restored # {} THEN Tail(Holdback) ELSE Holdback) \in Seq(Request)
    BY <2>3, HeadTailProperties DEF Holdback, QueueTypes
  <2> QED BY <2>1, <2>2, <2>4, ConcatProperties
<1>7. grammarQ' \in Seq(Request)
  <2>1. admitted \cap VisibleGrammar # {} => grammarQ # <<>>
    BY DEF VisibleGrammar
  <2> QED BY <1>3, <2>1, HeadTailProperties DEF QueueTypes
<1>8. remoteKv' \subseteq Request
  BY <1>3, <1>4 DEF QueueTypes
<1>9. back \subseteq running \cup started
  BY DEF RunningRestored
<1>10. running' \subseteq Request
  BY <1>3, <1>4, <1>9 DEF QueueTypes
<1>11. Cardinality(Visible) + Cardinality(started) <= MaxRunning
  BY <1>3 DEF BaseAdmit
<1>12. Cardinality(running') <= MaxNumSeqs
  <2>1. IsFiniteSet(running) /\ IsFiniteSet(started)
    BY <1>4, HiddenSplit, FS_Subset DEF SchedulerAssumption
  <2>2. /\ IsFiniteSet(running \cup started)
        /\ Cardinality(running \cup started) <= Cardinality(running) + Cardinality(started)
    <3> HIDE DEF started
    <3> QED BY <2>1, UnionBound
  <2>3. /\ Cardinality(running') <= Cardinality(running \cup started)
        /\ Cardinality(running') \in Nat
    <3>1. running' \subseteq running \cup started
      BY <1>3, <1>9
    <3> QED BY <2>2, <3>1, FS_Subset, FS_CardinalityType
  <2>4. Cardinality(started) \in Nat /\ Cardinality(running \cup started) \in Nat
    BY <2>1, <2>2, FS_CardinalityType
  <2>5. /\ MaxRunning \in Int
        /\ MaxRunning + Cardinality(Hidden) <= MaxNumSeqs
    BY MaxRunningBound
  <2> HIDE DEF started
  <2> QED BY <1>11, <2>2, <2>3, <2>4, <2>5, HiddenSplit DEF SchedulerAssumption
<1> QED BY <1>6, <1>7, <1>8, <1>10, <1>12 DEF QueueTypes, WithinCapacity

(* The running queue never exceeds max_num_seqs: schedule() restores the     *)
(* decodes it hid only after the base scheduler was given the slots that are *)
(* left, and no other operation adds to the queue.                           *)
THEOREM CapacityRespected == Spec => []WithinCapacity
<1>1. Init => CapacityInv
  <2>1. Init => Cardinality(running) = 0
    BY FS_EmptySet DEF Init
  <2> QED BY <2>1, SchedulerAssumption, EmptySeq
       DEF Init, CapacityInv, QueueTypes, WithinCapacity, SchedulerAssumption
<1>2. CapacityInv /\ [Next]_vars => CapacityInv'
  <2> SUFFICES ASSUME CapacityInv, [Next]_vars PROVE CapacityInv'
    OBVIOUS
  <2> USE SchedulerAssumption
  <2> IsFiniteSet(running)
    BY HiddenSplit DEF CapacityInv
  <2>1. CASE Schedule
    BY <2>1, ScheduleKeepsCapacity
  <2>2. CASE UpdateFromOutput
    <3>1. running' \subseteq running
      BY <2>2 DEF UpdateFromOutput
    <3>2. waiting' = waiting /\ grammarQ' = grammarQ /\ remoteKv' = remoteKv
      BY <2>2 DEF UpdateFromOutput
    <3>3. Cardinality(running') <= Cardinality(running)
      BY <3>1, FS_Subset
    <3>4. Cardinality(running') \in Nat /\ Cardinality(running) \in Nat
      BY <3>1, FS_Subset, FS_CardinalityType
    <3> QED BY <3>1, <3>2, <3>3, <3>4
         DEF CapacityInv, QueueTypes, WithinCapacity, SchedulerAssumption
  <2>3. ASSUME NEW r \in Request, AddRequest(r) PROVE CapacityInv'
    <3>1. Append(waiting, r) \in Seq(Request) /\ Append(grammarQ, r) \in Seq(Request)
      BY AppendProperties DEF CapacityInv, QueueTypes
    <3>2. running' = running /\ remoteKv' = remoteKv
      BY <2>3 DEF AddRequest
    <3> QED BY <2>3, <3>1, <3>2 DEF AddRequest, CapacityInv, QueueTypes, WithinCapacity
  <2>4. ASSUME NEW r \in Request, Abort(r) PROVE CapacityInv'
    <3>1. running' \subseteq running /\ remoteKv' \subseteq remoteKv
      BY <2>4 DEF Abort
    <3>2. waiting' \in Seq(Request) /\ grammarQ' \in Seq(Request)
      BY <2>4, WithoutType DEF Abort, CapacityInv, QueueTypes
    <3>3. Cardinality(running') <= Cardinality(running)
      BY <3>1, FS_Subset
    <3>4. Cardinality(running') \in Nat /\ Cardinality(running) \in Nat
      BY <3>1, FS_Subset, FS_CardinalityType
    <3> QED BY <3>1, <3>2, <3>3, <3>4
         DEF CapacityInv, QueueTypes, WithinCapacity, SchedulerAssumption
  <2>5. ASSUME NEW r \in Request, CompileGrammar(r) \/ TransferDone(r)
        PROVE  CapacityInv'
    BY <2>5 DEF CompileGrammar, TransferDone, CapacityInv, QueueTypes, WithinCapacity
  <2>6. CASE UNCHANGED vars
    BY <2>6 DEF vars, CapacityInv, QueueTypes, WithinCapacity
  <2> QED BY <2>1, <2>2, <2>3, <2>4, <2>5, <2>6 DEF Next
<1>3. CapacityInv => WithinCapacity
  BY DEF CapacityInv
<1> QED BY <1>1, <1>2, <1>3, PTL DEF Spec
-----------------------------------------------------------------------------
(* No two of the five places a request may be in share one.                  *)
Apart(W, G, R, N, L) ==
  /\ W \cap (G \cup R \cup N \cup L) = {}
  /\ G \cap (R \cup N \cup L) = {}
  /\ R \cap (N \cup L) = {}
  /\ N \cap L = {}

Queued ==
  ToSet(waiting) \cup ToSet(grammarQ) \cup remoteKv \cup running \cup pendingKvSend

(* The inductive invariant of NoRequestLost.  It speaks of every queued      *)
(* request, not only of live ones: an aborted sender stays in the send-lane *)
(* until the next update_from_output, and a request that is queued is not   *)
(* added a second time only because it is no longer new.                    *)
HomeInv ==
  /\ QueueTypes /\ pendingKvSend \subseteq Request
  /\ life \in [Request -> {"new", "live", "finished", "freed"}]
  /\ IsInjective(waiting) /\ IsInjective(grammarQ)
  /\ Apart(ToSet(waiting), ToSet(grammarQ), remoteKv, running, pendingKvSend)
  /\ \A r \in Request : /\ r \in Queued => life[r] # "new"
                        /\ life[r] = "live" => r \in Queued

(* Each live request is counted once. *)
LEMMA HomeIsOnePlace == HomeInv => NoRequestLost
<1> SUFFICES ASSUME HomeInv, NEW r \in Request, life[r] = "live"
             PROVE  Places(r) = 1
  BY DEF NoRequestLost
<1> DEFINE rest == {q \in {"remoteKv", "running", "lane"} :
                      \/ q = "remoteKv" /\ r \in remoteKv
                      \/ q = "running" /\ r \in running
                      \/ q = "lane" /\ r \in pendingKvSend}
           inWaiting == Cardinality({i \in DOMAIN waiting : waiting[i] = r})
           inGrammarQ == Cardinality({i \in DOMAIN grammarQ : grammarQ[i] = r})
<1>1. inWaiting = IF r \in ToSet(waiting) THEN 1 ELSE 0
  BY CountInList DEF HomeInv
<1>2. inGrammarQ = IF r \in ToSet(grammarQ) THEN 1 ELSE 0
  BY CountInList DEF HomeInv
<1>3. Places(r) = inWaiting + inGrammarQ + Cardinality(rest)
  BY DEF Places
<1>4. r \in Queued
  BY DEF HomeInv
<1>5. Apart(ToSet(waiting), ToSet(grammarQ), remoteKv, running, pendingKvSend)
  BY DEF HomeInv
<1>6. Cardinality(rest) = IF r \in remoteKv \cup running \cup pendingKvSend THEN 1 ELSE 0
  <2>1. CASE r \in remoteKv
    <3>1. r \notin running /\ r \notin pendingKvSend
      BY <1>5, <2>1 DEF Apart
    <3>2. rest = {"remoteKv"}
      BY <2>1, <3>1
    <3> QED BY <2>1, <3>2, FS_Singleton
  <2>2. CASE r \in running
    <3>1. r \notin remoteKv /\ r \notin pendingKvSend
      BY <1>5, <2>2 DEF Apart
    <3>2. rest = {"running"}
      BY <2>2, <3>1
    <3> QED BY <2>2, <3>2, FS_Singleton
  <2>3. CASE r \in pendingKvSend
    <3>1. r \notin remoteKv /\ r \notin running
      BY <1>5, <2>3 DEF Apart
    <3>2. rest = {"lane"}
      BY <2>3, <3>1
    <3> QED BY <2>3, <3>2, FS_Singleton
  <2>4. CASE r \notin remoteKv \cup running \cup pendingKvSend
    <3>1. rest = {}
      BY <2>4
    <3> QED BY <2>4, <3>1, FS_EmptySet
  <2> QED BY <2>1, <2>2, <2>3, <2>4
<1> HIDE DEF rest, inWaiting, inGrammarQ
<1> QED BY <1>1, <1>2, <1>3, <1>4, <1>5, <1>6 DEF Queued, Apart

(* What schedule() does to the five places, as sets: it preempts, admits and *)
(* parks, and moves some of what runs to the send-lane.                      *)
ScheduleMove(preempted, admitted, parked) ==
  /\ parked \subseteq admitted /\ parked \cap remoteKv = {}
  /\ admitted \subseteq ToSet(waiting) \cup ToSet(grammarQ) \cup remoteKv
  /\ waiting' \in Seq(Request) /\ IsInjective(waiting')
  /\ ToSet(waiting') = (ToSet(waiting) \ admitted) \cup preempted
  /\ grammarQ' \in Seq(Request) /\ IsInjective(grammarQ')
  /\ ToSet(grammarQ') = ToSet(grammarQ) \ admitted
  /\ remoteKv' = (remoteKv \ (admitted \ parked)) \cup parked
  /\ running' \cup pendingKvSend'
       = (running \ preempted) \cup (admitted \ parked) \cup pendingKvSend
  /\ running' \cap pendingKvSend' \subseteq pendingKvSend
  /\ running' \subseteq (running \ preempted) \cup (admitted \ parked)
  /\ life' = life

(* Every schedule() is such a move. *)
LEMMA ScheduleMoves ==
  ASSUME SchedulerAssumption, HomeInv, Schedule
  PROVE  \E ready : \E preempted \in SUBSET running, admitted \in SUBSET Request :
           /\ ScheduleWith(ready, preempted, admitted)
           /\ ScheduleMove(preempted, admitted, {r \in admitted : Parks(r)})
<1> DEFINE readyWith(late) == Restored \cup (remoteKv \cap received)
                                \cup (VisibleGrammar \cap (compiled \cup late))
<1>1. PICK late \in SUBSET (VisibleGrammar \ compiled) :
        \E preempted \in SUBSET Visible : \E admitted \in SUBSET readyWith(late) :
          ScheduleWith(readyWith(late), preempted, admitted)
  BY DEF Schedule
<1> DEFINE ready == readyWith(late)
<1>2. PICK preempted \in SUBSET Visible, admitted \in SUBSET ready :
        ScheduleWith(ready, preempted, admitted)
  BY <1>1
<1> DEFINE parked == {r \in admitted : Parks(r)}
           started == admitted \ parked
           back == RunningRestored(preempted, started)
           W == ToSet(waiting)
           G == ToSet(grammarQ)
<1>3. /\ \E order \in SetToSeqs(preempted) :
           waiting' = order \o (IF admitted \cap Restored # {} THEN Tail(waiting) ELSE waiting)
      /\ grammarQ' = IF admitted \cap VisibleGrammar # {} THEN Tail(grammarQ) ELSE grammarQ
      /\ remoteKv' = (remoteKv \ started) \cup parked
      /\ \/ pendingKvSend' = pendingKvSend /\ running' = back
         \/ /\ pendingKvSend' = pendingKvSend \cup {r \in back : Dispatched(r)}
            /\ running' = {r \in back : ~Dispatched(r)}
  BY <1>2 DEF ScheduleWith, Holdback
<1>4. life' = life
  BY DEF Schedule
<1>5. /\ waiting \in Seq(Request) /\ grammarQ \in Seq(Request)
      /\ remoteKv \subseteq Request /\ running \subseteq Request
      /\ IsInjective(waiting) /\ IsInjective(grammarQ)
      /\ Apart(W, G, remoteKv, running, pendingKvSend)
  BY DEF HomeInv, QueueTypes
<1>6. preempted \subseteq running /\ IsFiniteSet(preempted) /\ preempted \subseteq Request
  <2>1. preempted \subseteq running
    BY DEF Visible
  <2> QED BY <1>5, <2>1, FS_Subset DEF SchedulerAssumption
<1>7. /\ Restored \subseteq W
      /\ Restored # {} => waiting # <<>> /\ Restored = {Head(waiting)}
  BY <1>5, TailList DEF Restored, Holdback
<1>8. /\ VisibleGrammar \subseteq G
      /\ VisibleGrammar # {} => grammarQ # <<>> /\ VisibleGrammar = {Head(grammarQ)}
  BY <1>5, TailList DEF VisibleGrammar
<1>9. admitted \subseteq Restored \cup remoteKv \cup VisibleGrammar
  OBVIOUS
<1>10. admitted \cap W = admitted \cap Restored /\ admitted \cap G = admitted \cap VisibleGrammar
  BY <1>5, <1>7, <1>8, <1>9 DEF Apart
<1>11. parked \cap remoteKv = {}
  BY DEF Parks
<1>12. W \subseteq Request /\ G \subseteq Request
  BY <1>5, ListMembers
<1> HIDE DEF ready, W, G, parked
<1>13. /\ grammarQ' \in Seq(Request) /\ IsInjective(grammarQ')
       /\ ToSet(grammarQ') = G \ admitted
  <2>1. CASE admitted \cap VisibleGrammar # {}
    <3>1. grammarQ # <<>> /\ grammarQ' = Tail(grammarQ) /\ admitted \cap G = {Head(grammarQ)}
      BY <1>3, <1>8, <1>10, <2>1
    <3>2. ToSet(grammarQ') = G \ {Head(grammarQ)}
      BY <1>5, <3>1, TailList DEF G
    <3>3. G \ {Head(grammarQ)} = G \ admitted
      BY <3>1
    <3> QED BY <1>5, <3>1, <3>2, <3>3, TailList
  <2>2. CASE admitted \cap VisibleGrammar = {}
    <3>1. grammarQ' = grammarQ /\ admitted \cap G = {}
      BY <1>3, <1>10, <2>2
    <3> QED BY <1>5, <3>1 DEF G
  <2> QED BY <2>1, <2>2
<1>14. /\ waiting' \in Seq(Request) /\ IsInjective(waiting')
       /\ ToSet(waiting') = (W \ admitted) \cup preempted
  <2> DEFINE kept == IF admitted \cap Restored # {} THEN Tail(waiting) ELSE waiting
  <2>1. kept \in Seq(Request) /\ IsInjective(kept) /\ ToSet(kept) = W \ admitted
    <3>1. CASE admitted \cap Restored # {}
      <4>1. waiting # <<>> /\ kept = Tail(waiting) /\ admitted \cap W = {Head(waiting)}
        BY <1>7, <1>10, <3>1
      <4>2. ToSet(kept) = W \ {Head(waiting)}
        BY <1>5, <4>1, TailList DEF W
      <4>3. W \ {Head(waiting)} = W \ admitted
        BY <4>1
      <4> QED BY <1>5, <4>1, <4>2, <4>3, TailList
    <3>2. CASE admitted \cap Restored = {}
      <4>1. kept = waiting /\ admitted \cap W = {}
        BY <1>10, <3>2
      <4> QED BY <1>5, <4>1 DEF W
    <3> QED BY <3>1, <3>2
  <2>2. PICK order \in SetToSeqs(preempted) : waiting' = order \o kept
    BY <1>3
  <2> HIDE DEF kept
  <2>3. order \in Seq(Request) /\ IsInjective(order) /\ ToSet(order) = preempted
    BY <1>6, OrderList, OrderType
  <2>4. ToSet(order) \cap ToSet(kept) = {}
    BY <1>5, <1>6, <2>1, <2>3 DEF Apart
  <2> QED BY <2>1, <2>2, <2>3, <2>4, AppendLists
<1>15. admitted \subseteq Request /\ admitted \subseteq W \cup G \cup remoteKv
  BY <1>5, <1>7, <1>8, <1>9, <1>12
<1>16. back = (running \ preempted) \cup started
  BY DEF RunningRestored
<1>17. /\ running' \cup pendingKvSend' = back \cup pendingKvSend
       /\ running' \cap pendingKvSend' \subseteq pendingKvSend
       /\ running' \subseteq back
  <2> HIDE DEF back
  <2>1. CASE pendingKvSend' = pendingKvSend /\ running' = back
    BY <2>1
  <2>2. CASE /\ pendingKvSend' = pendingKvSend \cup {r \in back : Dispatched(r)}
             /\ running' = {r \in back : ~Dispatched(r)}
    BY <2>2
  <2> QED BY <1>3, <2>1, <2>2
<1>18. parked \subseteq admitted
  BY DEF parked
<1> HIDE DEF back
<1>19. ScheduleMove(preempted, admitted, parked)
  BY <1>3, <1>4, <1>11, <1>13, <1>14, <1>15, <1>16, <1>17, <1>18 DEF ScheduleMove, W, G
<1>20. ScheduleMove(preempted, admitted, {r \in admitted : Parks(r)})
  BY <1>19 DEF parked
<1> HIDE DEF started
<1> QED BY <1>2, <1>6, <1>15, <1>20

(* Such a move keeps every request in the one place it was in. *)
LEMMA MoveKeepsHome ==
  ASSUME HomeInv, NEW preempted \in SUBSET running,
         NEW admitted \in SUBSET Request, NEW parked \in SUBSET Request,
         ScheduleMove(preempted, admitted, parked)
  PROVE  HomeInv'
<1> DEFINE W == ToSet(waiting)
           G == ToSet(grammarQ)
           X == ToSet(waiting')
           H == ToSet(grammarQ')
<1>1. /\ remoteKv \subseteq Request /\ running \subseteq Request
      /\ pendingKvSend \subseteq Request
      /\ Apart(W, G, remoteKv, running, pendingKvSend)
      /\ \A r \in Request :
           /\ r \in W \cup G \cup remoteKv \cup running \cup pendingKvSend => life[r] # "new"
           /\ life[r] = "live" => r \in W \cup G \cup remoteKv \cup running \cup pendingKvSend
  BY DEF HomeInv, QueueTypes, Queued
<1>2. /\ parked \subseteq admitted /\ parked \cap remoteKv = {}
      /\ admitted \subseteq W \cup G \cup remoteKv
      /\ X = (W \ admitted) \cup preempted
      /\ H = G \ admitted
      /\ remoteKv' = (remoteKv \ (admitted \ parked)) \cup parked
      /\ running' \cup pendingKvSend'
           = (running \ preempted) \cup (admitted \ parked) \cup pendingKvSend
      /\ running' \cap pendingKvSend' \subseteq pendingKvSend
      /\ running' \subseteq (running \ preempted) \cup (admitted \ parked)
      /\ life' = life
  BY DEF ScheduleMove
<1> HIDE DEF W, G, X, H
<1>3. Apart(X, H, remoteKv', running', pendingKvSend')
  <2>1. X \cap (H \cup remoteKv' \cup running' \cup pendingKvSend') = {}
    BY <1>1, <1>2 DEF Apart
  <2>2. H \cap (remoteKv' \cup running' \cup pendingKvSend') = {}
    BY <1>1, <1>2 DEF Apart
  <2>3. remoteKv' \cap (running' \cup pendingKvSend') = {}
    BY <1>1, <1>2 DEF Apart
  <2>4. running' \cap pendingKvSend' = {}
    BY <1>1, <1>2 DEF Apart
  <2> QED BY <2>1, <2>2, <2>3, <2>4 DEF Apart
<1>4. X \cup H \cup remoteKv' \cup running' \cup pendingKvSend'
        = W \cup G \cup remoteKv \cup running \cup pendingKvSend
  BY <1>1, <1>2 DEF Apart
<1>5. \A r \in Request :
        /\ r \in X \cup H \cup remoteKv' \cup running' \cup pendingKvSend' => life'[r] # "new"
        /\ life'[r] = "live" => r \in X \cup H \cup remoteKv' \cup running' \cup pendingKvSend'
  BY <1>1, <1>2, <1>4
<1>6. remoteKv' \subseteq Request /\ running' \subseteq Request /\ pendingKvSend' \subseteq Request
  BY <1>1, <1>2
<1>7. /\ waiting' \in Seq(Request) /\ IsInjective(waiting')
      /\ grammarQ' \in Seq(Request) /\ IsInjective(grammarQ')
      /\ life' \in [Request -> {"new", "live", "finished", "freed"}]
  BY DEF ScheduleMove, HomeInv
<1> QED BY <1>3, <1>5, <1>6, <1>7 DEF HomeInv, QueueTypes, Queued, X, H

(* Taking an entry out of a list takes it out of its set. *)
LEMMA WithoutList ==
  ASSUME NEW S, NEW s \in Seq(S), IsInjective(s), NEW e
  PROVE  /\ Without(s, e) \in Seq(S) /\ IsInjective(Without(s, e))
         /\ ToSet(Without(s, e)) = ToSet(s) \ {e}
<1>1. CASE e \notin ToSet(s)
  BY <1>1 DEF Without
<1>2. CASE e \in ToSet(s)
  <2> DEFINE i == CHOOSE k \in DOMAIN s : s[k] = e
  <2>1. i \in DOMAIN s /\ s[i] = e
    BY <1>2 DEF ToSet
  <2>2. Without(s, e) = RemoveAt(s, i)
    BY <1>2 DEF Without
  <2> HIDE DEF i
  <2> QED BY <2>1, <2>2, RemoveAtList
<1> QED BY <1>1, <1>2

(* A new request is in no place, so it joins a queue once. *)
LEMMA AddKeepsHome ==
  ASSUME HomeInv, NEW r \in Request, AddRequest(r)
  PROVE  HomeInv'
<1> DEFINE W == ToSet(waiting)
           G == ToSet(grammarQ)
           X == ToSet(waiting')
           H == ToSet(grammarQ')
<1>1. /\ remoteKv \subseteq Request /\ running \subseteq Request
      /\ pendingKvSend \subseteq Request
      /\ waiting \in Seq(Request) /\ IsInjective(waiting)
      /\ grammarQ \in Seq(Request) /\ IsInjective(grammarQ)
      /\ life \in [Request -> {"new", "live", "finished", "freed"}]
      /\ Apart(W, G, remoteKv, running, pendingKvSend)
      /\ \A q \in Request :
           /\ q \in W \cup G \cup remoteKv \cup running \cup pendingKvSend => life[q] # "new"
           /\ life[q] = "live" => q \in W \cup G \cup remoteKv \cup running \cup pendingKvSend
  BY DEF HomeInv, QueueTypes, Queued
<1>2. /\ life[r] = "new" /\ life' = [life EXCEPT ![r] = "live"]
      /\ \/ grammarQ' = Append(grammarQ, r) /\ waiting' = waiting
         \/ waiting' = Append(waiting, r) /\ grammarQ' = grammarQ
      /\ remoteKv' = remoteKv /\ running' = running /\ pendingKvSend' = pendingKvSend
  BY DEF AddRequest
<1>3. r \notin W \cup G \cup remoteKv \cup running \cup pendingKvSend
  BY <1>1, <1>2
<1>4. /\ waiting' \in Seq(Request) /\ IsInjective(waiting')
      /\ grammarQ' \in Seq(Request) /\ IsInjective(grammarQ')
      /\ \/ X = W /\ H = G \cup {r}
         \/ X = W \cup {r} /\ H = G
  <2>1. CASE grammarQ' = Append(grammarQ, r) /\ waiting' = waiting
    <3>1. /\ grammarQ' \in Seq(Request) /\ IsInjective(grammarQ')
          /\ ToSet(grammarQ') = ToSet(grammarQ) \cup {r}
      BY <1>1, <1>3, <2>1, AppendEntry
    <3> QED BY <1>1, <2>1, <3>1
  <2>2. CASE waiting' = Append(waiting, r) /\ grammarQ' = grammarQ
    <3>1. /\ waiting' \in Seq(Request) /\ IsInjective(waiting')
          /\ ToSet(waiting') = ToSet(waiting) \cup {r}
      BY <1>1, <1>3, <2>2, AppendEntry
    <3> QED BY <1>1, <2>2, <3>1
  <2> QED BY <1>2, <2>1, <2>2
<1> HIDE DEF W, G, X, H
<1>5. Apart(X, H, remoteKv', running', pendingKvSend')
  BY <1>1, <1>2, <1>3, <1>4 DEF Apart
<1>6. \A q \in Request :
        /\ q \in X \cup H \cup remoteKv' \cup running' \cup pendingKvSend' => life'[q] # "new"
        /\ life'[q] = "live" => q \in X \cup H \cup remoteKv' \cup running' \cup pendingKvSend'
  BY <1>1, <1>2, <1>4
<1> QED BY <1>1, <1>2, <1>4, <1>5, <1>6 DEF HomeInv, QueueTypes, Queued, X, H

(* An abort takes the request out of every place but the send-lane. *)
LEMMA AbortKeepsHome ==
  ASSUME HomeInv, NEW r \in Request, Abort(r)
  PROVE  HomeInv'
<1> DEFINE W == ToSet(waiting)
           G == ToSet(grammarQ)
           X == ToSet(waiting')
           H == ToSet(grammarQ')
<1>1. /\ remoteKv \subseteq Request /\ running \subseteq Request
      /\ pendingKvSend \subseteq Request
      /\ waiting \in Seq(Request) /\ IsInjective(waiting)
      /\ grammarQ \in Seq(Request) /\ IsInjective(grammarQ)
      /\ life \in [Request -> {"new", "live", "finished", "freed"}]
      /\ Apart(W, G, remoteKv, running, pendingKvSend)
      /\ \A q \in Request :
           /\ q \in W \cup G \cup remoteKv \cup running \cup pendingKvSend => life[q] # "new"
           /\ life[q] = "live" => q \in W \cup G \cup remoteKv \cup running \cup pendingKvSend
  BY DEF HomeInv, QueueTypes, Queued
<1>2. /\ \E over \in {"finished", "freed"} : life' = [life EXCEPT ![r] = over]
      /\ waiting' = Without(waiting, r) /\ grammarQ' = Without(grammarQ, r)
      /\ remoteKv' = remoteKv \ {r} /\ running' = running \ {r}
      /\ pendingKvSend' = pendingKvSend
  BY DEF Abort
<1>3. /\ waiting' \in Seq(Request) /\ IsInjective(waiting') /\ X = W \ {r}
      /\ grammarQ' \in Seq(Request) /\ IsInjective(grammarQ') /\ H = G \ {r}
  BY <1>1, <1>2, WithoutList
<1> HIDE DEF W, G, X, H
<1>4. Apart(X, H, remoteKv', running', pendingKvSend')
  BY <1>1, <1>2, <1>3 DEF Apart
<1>5. \A q \in Request :
        /\ q \in X \cup H \cup remoteKv' \cup running' \cup pendingKvSend' => life'[q] # "new"
        /\ life'[q] = "live" => q \in X \cup H \cup remoteKv' \cup running' \cup pendingKvSend'
  BY <1>1, <1>2, <1>3
<1>6. life' \in [Request -> {"new", "live", "finished", "freed"}]
  BY <1>1, <1>2
<1> QED BY <1>1, <1>2, <1>3, <1>4, <1>5, <1>6 DEF HomeInv, QueueTypes, Queued, X, H

(* What stops leaves running and is live no more, what is freed leaves the   *)
(* send-lane.                                                               *)
LEMMA UpdateKeepsHome ==
  ASSUME HomeInv, UpdateFromOutput
  PROVE  HomeInv'
<1> DEFINE W == ToSet(waiting)
           G == ToSet(grammarQ)
<1>1. /\ remoteKv \subseteq Request /\ running \subseteq Request
      /\ pendingKvSend \subseteq Request
      /\ life \in [Request -> {"new", "live", "finished", "freed"}]
      /\ Apart(W, G, remoteKv, running, pendingKvSend)
      /\ \A q \in Request :
           /\ q \in W \cup G \cup remoteKv \cup running \cup pendingKvSend => life[q] # "new"
           /\ life[q] = "live" => q \in W \cup G \cup remoteKv \cup running \cup pendingKvSend
  BY DEF HomeInv, QueueTypes, Queued
<1> DEFINE sampled == {q \in Head(inflight) : life[q] = "live"}
           capped == {q \in sampled : emitted[q] + 1 = MaxTokens[q]}
           sender == IF Role \in {"producer", "both"} THEN capped \cap RemoteDecode ELSE {}
           sent == {q \in xferDone : life[q] = "finished"}
<1>2. PICK stopped \in SUBSET sampled :
        /\ life' = [q \in Request |-> IF q \in (stopped \ sender) \cup sent THEN "freed"
                                      ELSE IF q \in stopped THEN "finished" ELSE life[q]]
        /\ running' = running \ stopped
        /\ pendingKvSend' = LaneRetired(sent)
  BY DEF UpdateFromOutput
<1> HIDE DEF sampled, sender, sent
<1>3. PICK freed :
        /\ life' = [q \in Request |-> IF q \in freed THEN "freed"
                                      ELSE IF q \in stopped THEN "finished" ELSE life[q]]
        /\ running' = running \ stopped
        /\ pendingKvSend' = {q \in pendingKvSend : life'[q] # "freed"}
  BY <1>2 DEF LaneRetired
<1>4. waiting' = waiting /\ grammarQ' = grammarQ /\ remoteKv' = remoteKv
  BY DEF UpdateFromOutput
<1> HIDE DEF W, G
<1>5. Apart(W, G, remoteKv', running', pendingKvSend')
  BY <1>1, <1>3, <1>4 DEF Apart
<1>6. \A q \in Request : life'[q] = IF q \in freed THEN "freed"
                                   ELSE IF q \in stopped THEN "finished" ELSE life[q]
  BY <1>3
<1>7. life' \in [Request -> {"new", "live", "finished", "freed"}]
  BY <1>1, <1>3
<1>8. \A q \in Request :
        /\ q \in W \cup G \cup remoteKv' \cup running' \cup pendingKvSend' => life'[q] # "new"
        /\ life'[q] = "live" => q \in W \cup G \cup remoteKv' \cup running' \cup pendingKvSend'
  BY <1>1, <1>3, <1>4, <1>6
<1> QED BY <1>1, <1>3, <1>4, <1>5, <1>7, <1>8 DEF HomeInv, QueueTypes, Queued, W, G

(* Every step keeps each request in its one place. *)
LEMMA HomeKept == SchedulerAssumption /\ HomeInv /\ [Next]_vars => HomeInv'
<1> SUFFICES ASSUME SchedulerAssumption, HomeInv, [Next]_vars PROVE HomeInv'
  OBVIOUS
<1>1. CASE Schedule
  <2>1. PICK preempted \in SUBSET running, admitted \in SUBSET Request :
          ScheduleMove(preempted, admitted, {r \in admitted : Parks(r)})
    BY <1>1, ScheduleMoves
  <2> DEFINE parked == {r \in admitted : Parks(r)}
  <2>2. parked \in SUBSET Request
    OBVIOUS
  <2> HIDE DEF parked
  <2>3. ScheduleMove(preempted, admitted, parked)
    BY <2>1 DEF parked
  <2> QED BY <2>2, <2>3, MoveKeepsHome
<1>2. CASE UpdateFromOutput
  BY <1>2, UpdateKeepsHome
<1>3. ASSUME NEW r \in Request, AddRequest(r) PROVE HomeInv'
  BY <1>3, AddKeepsHome
<1>4. ASSUME NEW r \in Request, Abort(r) PROVE HomeInv'
  BY <1>4, AbortKeepsHome
<1>5. CASE UNCHANGED <<life, waiting, grammarQ, remoteKv, running, pendingKvSend>>
  BY <1>5 DEF HomeInv, QueueTypes, Queued, Apart
<1> QED BY <1>1, <1>2, <1>3, <1>4, <1>5 DEF Next, CompileGrammar, TransferDone, vars

(* A scheduler without requests has them all in their place. *)
LEMMA HomeInit == Init => HomeInv
<1> SUFFICES ASSUME Init PROVE HomeInv
  OBVIOUS
<1>1. ToSet(<<>>) = {} /\ IsInjective(<<>>) /\ <<>> \in Seq(Request)
  BY EmptyList, EmptySeq
<1> QED BY <1>1 DEF Init, HomeInv, QueueTypes, Queued, Apart

(* Hiding queues before the base scheduler's call and restoring them after   *)
(* it, admission, preemption, the send-lane and aborts lose no live request *)
(* and put none in two places, for any set of requests, role and pool       *)
(* (NeuronScheduler.schedule, update_from_output).                          *)
THEOREM RequestsKept == Spec => []NoRequestLost
<1> USE SchedulerAssumption
<1>1. HomeInv /\ [Next]_vars => HomeInv'
  BY HomeKept
<1> QED BY <1>1, HomeInit, HomeIsOnePlace, PTL DEF Spec
-----------------------------------------------------------------------------
(* Amounts: no request computes up to max_model_len, whose last token is     *)
(* only sampled, and none holds KV beyond it.  A request in waiting or among *)
(* the grammar waiters starts from the beginning, be it new or preempted.    *)
Amounts ==
  /\ computed \in [Request -> 0 .. MaxModelLen - 1]
  /\ emitted \in [Request -> Nat]
  /\ blocks \in [Request -> 0 .. MaxModelLen]
  /\ inflight \in Seq(SUBSET Request)
  /\ \A r \in Request :
       life[r] = "new" \/ r \in ToSet(waiting) \cup ToSet(grammarQ) => computed[r] = 0

Labels ==
  /\ pullPending \subseteq Request /\ compiled \subseteq Request
  /\ xferDone \subseteq Request /\ received \subseteq Request
  /\ state \in {"IDLE", "ACTIVE_PREFILL", "ACTIVE_DECODE"}
  /\ raised \in BOOLEAN

(* A request has as many outputs in flight as batches that sample it. *)
LEMMA PlaceholdersType ==
  ASSUME inflight \in Seq(SUBSET Request), NEW r
  PROVE  Placeholders(r) \in Nat
<1>1. Len(inflight) \in Nat /\ DOMAIN inflight = 1 .. Len(inflight)
  BY LenProperties
<1>2. IsFiniteSet(1 .. Len(inflight))
  BY <1>1, FS_Interval
<1>3. IsFiniteSet({i \in DOMAIN inflight : r \in inflight[i]})
  BY <1>1, <1>2, FS_Subset
<1> QED BY <1>3, FS_CardinalityType DEF Placeholders

(* What may run or start has room for one more step below max_model_len:     *)
(* a running request stops short of its max_tokens, a waiter is at its start *)
(* and a completed pull recomputes the last unit of its prompt.              *)
LEMMA RoomForStep ==
  ASSUME SchedulerAssumption, HomeInv, Amounts, NEW r \in Request,
         \/ r \in running /\ HasWork(r)
         \/ r \in ToSet(waiting) \cup ToSet(grammarQ) \cup remoteKv
  PROVE  StartAt(r) \in Nat /\ StartAt(r) + 1 \in 0 .. MaxModelLen - 1
<1>1. /\ PromptChunks[r] \in Nat \ {0} /\ MaxTokens[r] \in Nat \ {0}
      /\ MaxModelLen \in Nat /\ PromptChunks[r] + MaxTokens[r] <= MaxModelLen
  BY DEF SchedulerAssumption
<1>2. computed[r] \in Nat /\ emitted[r] \in Nat /\ Placeholders(r) \in Nat
  BY PlaceholdersType DEF Amounts
<1>3. CASE r \in remoteKv
  BY <1>1, <1>3 DEF StartAt
<1>4. CASE r \notin remoteKv /\ r \in ToSet(waiting) \cup ToSet(grammarQ)
  <2>1. computed[r] = 0
    BY <1>4 DEF Amounts
  <2> QED BY <1>1, <1>4, <2>1 DEF StartAt
<1>5. CASE r \notin remoteKv /\ r \in running /\ HasWork(r)
  <2>1. /\ computed[r] < PromptChunks[r] + emitted[r] + Placeholders(r)
        /\ emitted[r] + Placeholders(r) < MaxTokens[r]
    BY <1>5 DEF HasWork
  <2> QED BY <1>1, <1>2, <1>5, <2>1 DEF StartAt
<1> QED BY <1>3, <1>4, <1>5

(* The batch advances by one step, the rest stays or starts again. *)
LEMMA ScheduleKeepsAmounts ==
  ASSUME SchedulerAssumption, HomeInv, Amounts, Labels, Schedule
  PROVE  Amounts' /\ Labels'
<1>1. PICK ready : \E preempted \in SUBSET running, admitted \in SUBSET Request :
        /\ ScheduleWith(ready, preempted, admitted)
        /\ ScheduleMove(preempted, admitted, {r \in admitted : Parks(r)})
  BY ScheduleMoves
<1>2. PICK preempted \in SUBSET running, admitted \in SUBSET Request :
        /\ ScheduleWith(ready, preempted, admitted)
        /\ ScheduleMove(preempted, admitted, {r \in admitted : Parks(r)})
  BY <1>1
<1> DEFINE ran == Ran(preempted)
           parked == {r \in admitted : Parks(r)}
           started == admitted \ parked
           batch == ran \cup started
           back == RunningRestored(preempted, started)
           mixed == \E p, d \in batch : CountedPrefill(p) /\ ~CountedPrefill(d)
           kept == [i \in DOMAIN inflight |-> inflight[i] \ preempted]
<1>3. /\ pullPending' = pullPending \ parked /\ received' = received \ started
      /\ computed' = [r \in Request |->
            IF r \in batch THEN StartAt(r) + 1
            ELSE IF r \in parked THEN PromptChunks[r]
            ELSE IF r \in preempted THEN 0 ELSE computed[r]]
      /\ blocks' = [r \in Request |->
            IF r \in ran \cup admitted THEN UnitsAfter(r)
            ELSE IF r \in preempted THEN 0 ELSE blocks[r]]
      /\ raised' = mixed
      /\ inflight' = IF mixed THEN kept ELSE Append(kept, {r \in batch : Samples(r)})
      /\ state' = IF mixed THEN state ELSE NextState(batch, back)
  BY <1>2 DEF ScheduleWith
<1>4. /\ UNCHANGED <<life, emitted, xferDone>>
      /\ \E late \in SUBSET (VisibleGrammar \ compiled) : compiled' = compiled \cup late
  BY DEF Schedule
<1>5. /\ admitted \subseteq ToSet(waiting) \cup ToSet(grammarQ) \cup remoteKv
      /\ ToSet(waiting') = (ToSet(waiting) \ admitted) \cup preempted
      /\ ToSet(grammarQ') = ToSet(grammarQ) \ admitted
  BY <1>2 DEF ScheduleMove
<1>6. /\ remoteKv \subseteq Request /\ running \subseteq Request
      /\ Apart(ToSet(waiting), ToSet(grammarQ), remoteKv, running, pendingKvSend)
      /\ \A r \in Request : r \in Queued => life[r] # "new"
      /\ grammarQ \in Seq(Request)
  BY DEF HomeInv, QueueTypes
<1>7. ran \subseteq running \ preempted /\ \A r \in ran : HasWork(r)
  BY DEF Ran, Visible
<1>8. /\ MaxModelLen \in Nat \ {0}
      /\ \A r \in Request : PromptChunks[r] \in 0 .. MaxModelLen - 1
  BY DEF SchedulerAssumption
<1>9. \A r \in ran \cup admitted :
        r \in Request /\ StartAt(r) \in Nat /\ StartAt(r) + 1 \in 0 .. MaxModelLen - 1
  BY <1>5, <1>6, <1>7, RoomForStep
<1> HIDE DEF ran, mixed
<1>10. computed' \in [Request -> 0 .. MaxModelLen - 1]
  BY <1>3, <1>8, <1>9 DEF Amounts
<1>11. blocks' \in [Request -> 0 .. MaxModelLen]
  <2>1. ASSUME NEW r \in ran \cup admitted PROVE UnitsAfter(r) \in 0 .. MaxModelLen
    BY <1>8, <1>9 DEF UnitsAfter, Amounts
  <2>2. 0 \in 0 .. MaxModelLen /\ \A r \in Request : blocks[r] \in 0 .. MaxModelLen
    BY <1>8 DEF Amounts
  <2> QED BY <1>3, <2>1, <2>2
<1>12. inflight' \in Seq(SUBSET Request)
  <2>1. kept \in Seq(SUBSET Request)
    <3> DEFINE n == Len(inflight)
    <3>1. /\ n \in Nat /\ DOMAIN inflight = 1 .. n
          /\ \A i \in 1 .. n : inflight[i] \in SUBSET Request
      BY LenProperties DEF Amounts
    <3> HIDE DEF n
    <3>2. kept \in [1 .. n -> SUBSET Request]
      BY <3>1
    <3> HIDE DEF kept
    <3> QED BY <3>1, <3>2
  <2>2. {r \in batch : Samples(r)} \in SUBSET Request
    BY <1>9
  <2> HIDE DEF kept, batch
  <2>3. Append(kept, {r \in batch : Samples(r)}) \in Seq(SUBSET Request)
    BY <2>1, <2>2, AppendProperties
  <2> QED BY <1>3, <2>1, <2>3
<1>13. ASSUME NEW r \in Request,
              life'[r] = "new" \/ r \in ToSet(waiting') \cup ToSet(grammarQ')
       PROVE  computed'[r] = 0
  <2>1. CASE r \in preempted
    <3>1. r \notin admitted
      BY <1>5, <1>6, <2>1 DEF Apart
    <3> QED BY <1>3, <1>7, <2>1, <3>1
  <2>2. CASE r \notin preempted
    <3>1. life[r] = "new" \/ r \in (ToSet(waiting) \cup ToSet(grammarQ)) \ admitted
      BY <1>4, <1>5, <1>13, <2>2
    <3>2. r \notin running /\ r \notin admitted
      BY <1>5, <1>6, <3>1 DEF Queued, Apart
    <3>3. computed[r] = 0
      BY <3>1 DEF Amounts
    <3> QED BY <1>3, <1>7, <2>2, <3>2, <3>3
  <2> QED BY <2>1, <2>2
<1>14. Amounts'
  BY <1>4, <1>10, <1>11, <1>12, <1>13 DEF Amounts
<1>15. VisibleGrammar \subseteq Request
  BY <1>6, HeadTailProperties DEF VisibleGrammar
<1>16. raised' \in BOOLEAN
  BY <1>3 DEF mixed
<1>17. state' \in {"IDLE", "ACTIVE_PREFILL", "ACTIVE_DECODE"}
  BY <1>3 DEF NextState, Labels
<1>18. Labels'
  BY <1>3, <1>4, <1>15, <1>16, <1>17 DEF Labels
<1> QED BY <1>14, <1>18

(* So do the other steps. *)
LEMMA AmountsKept ==
  SchedulerAssumption /\ HomeInv /\ Amounts /\ Labels /\ [Next]_vars => Amounts' /\ Labels'
<1> SUFFICES ASSUME SchedulerAssumption, HomeInv, Amounts, Labels, [Next]_vars
             PROVE  Amounts' /\ Labels'
  OBVIOUS
<1>1. MaxModelLen \in Nat \ {0}
  BY DEF SchedulerAssumption
<1>2. CASE Schedule
  BY <1>2, ScheduleKeepsAmounts
<1>3. CASE UpdateFromOutput
  <2> DEFINE sampled == {r \in Head(inflight) : life[r] = "live"}
             sender == IF Role \in {"producer", "both"}
                       THEN {r \in sampled : emitted[r] + 1 = MaxTokens[r]} \cap RemoteDecode
                       ELSE {}
             sent == {r \in xferDone : life[r] = "finished"}
  <2>1. PICK stopped \in SUBSET sampled :
          /\ life' = [r \in Request |-> IF r \in (stopped \ sender) \cup sent THEN "freed"
                                        ELSE IF r \in stopped THEN "finished" ELSE life[r]]
          /\ blocks' = [r \in Request |-> IF r \in (stopped \ sender) \cup sent THEN 0
                                          ELSE blocks[r]]
    BY <1>3 DEF UpdateFromOutput
  <2>2. /\ emitted' = [r \in Request |-> IF r \in sampled THEN emitted[r] + 1 ELSE emitted[r]]
        /\ received' = received \cup (xferDone \cap remoteKv) /\ xferDone' = {}
        /\ inflight # <<>> /\ inflight' = Tail(inflight)
        /\ UNCHANGED <<waiting, grammarQ, computed, pullPending, compiled, state, raised>>
    BY <1>3 DEF UpdateFromOutput
  <2> HIDE DEF sampled, sender, sent
  <2>3. blocks' \in [Request -> 0 .. MaxModelLen] /\ emitted' \in [Request -> Nat]
    BY <1>1, <2>1, <2>2 DEF Amounts
  <2>4. inflight' \in Seq(SUBSET Request)
    BY <2>2, HeadTailProperties DEF Amounts
  <2>5. \A r \in Request : life'[r] = "new" => life[r] = "new"
    BY <2>1
  <2>6. Amounts'
    BY <2>2, <2>3, <2>4, <2>5 DEF Amounts
  <2> QED BY <2>2, <2>6 DEF Labels
<1>4. ASSUME NEW r \in Request, AddRequest(r) PROVE Amounts' /\ Labels'
  <2>1. /\ life[r] = "new" /\ life' = [life EXCEPT ![r] = "live"]
        /\ \/ waiting' = Append(waiting, r) /\ grammarQ' = grammarQ
           \/ waiting' = waiting /\ grammarQ' = Append(grammarQ, r)
        /\ UNCHANGED <<computed, emitted, blocks, inflight, pullPending, compiled,
                       xferDone, received, state, raised>>
    BY <1>4 DEF AddRequest
  <2>2. r \notin ToSet(waiting) /\ r \notin ToSet(grammarQ)
    BY <2>1 DEF HomeInv, Queued
  <2>3. ToSet(waiting') \cup ToSet(grammarQ') = ToSet(waiting) \cup ToSet(grammarQ) \cup {r}
    <3>1. \A s \in Seq(Request) : IsInjective(s) /\ r \notin ToSet(s)
                                    => ToSet(Append(s, r)) = ToSet(s) \cup {r}
      BY AppendEntry
    <3>2. /\ waiting \in Seq(Request) /\ grammarQ \in Seq(Request)
          /\ IsInjective(waiting) /\ IsInjective(grammarQ)
      BY DEF HomeInv, QueueTypes
    <3>3. CASE waiting' = Append(waiting, r) /\ grammarQ' = grammarQ
      BY <2>2, <3>1, <3>2, <3>3
    <3>4. CASE waiting' = waiting /\ grammarQ' = Append(grammarQ, r)
      BY <2>2, <3>1, <3>2, <3>4
    <3> QED BY <2>1, <3>3, <3>4
  <2>4. \A q \in Request : life'[q] = "new" => life[q] = "new"
    BY <2>1 DEF HomeInv
  <2>5. Amounts'
    BY <2>1, <2>3, <2>4 DEF Amounts
  <2> QED BY <2>1, <2>5 DEF Labels
<1>5. ASSUME NEW r \in Request, Abort(r) PROVE Amounts' /\ Labels'
  <2>1. /\ \E over \in {"finished", "freed"} : life' = [life EXCEPT ![r] = over]
        /\ waiting' = Without(waiting, r) /\ grammarQ' = Without(grammarQ, r)
        /\ \E units \in {0, blocks[r]} : blocks' = [blocks EXCEPT ![r] = units]
        /\ received' = received \ {r}
        /\ UNCHANGED <<computed, emitted, inflight, pullPending, compiled,
                       xferDone, state, raised>>
    BY <1>5 DEF Abort
  <2>2. ToSet(waiting') \subseteq ToSet(waiting) /\ ToSet(grammarQ') \subseteq ToSet(grammarQ)
    BY <2>1, WithoutList DEF HomeInv, QueueTypes
  <2>3. \A q \in Request : life'[q] = "new" => life[q] = "new"
    BY <2>1 DEF HomeInv
  <2>4. blocks' \in [Request -> 0 .. MaxModelLen]
    BY <1>1, <2>1 DEF Amounts
  <2>5. Amounts'
    BY <2>1, <2>2, <2>3, <2>4 DEF Amounts
  <2> QED BY <2>1, <2>5 DEF Labels
<1>6. ASSUME NEW r \in Request, CompileGrammar(r) PROVE Amounts' /\ Labels'
  BY <1>6 DEF CompileGrammar, Amounts, Labels
<1>7. ASSUME NEW r \in Request, TransferDone(r) PROVE Amounts' /\ Labels'
  BY <1>7 DEF TransferDone, Amounts, Labels
<1>8. CASE UNCHANGED vars
  BY <1>8 DEF vars, Amounts, Labels
<1> QED BY <1>2, <1>3, <1>4, <1>5, <1>6, <1>7, <1>8 DEF Next

(* Nothing is computed, emitted or allocated at first. *)
LEMMA AmountsInit == SchedulerAssumption /\ Init => Amounts /\ Labels
<1> SUFFICES ASSUME SchedulerAssumption, Init PROVE Amounts /\ Labels
  OBVIOUS
<1>1. <<>> \in Seq(SUBSET Request)
  BY EmptySeq
<1>2. MaxModelLen \in Nat \ {0} /\ RemotePrefill \subseteq Request
  BY DEF SchedulerAssumption
<1>3. 0 \in 0 .. MaxModelLen - 1 /\ 0 \in 0 .. MaxModelLen /\ 0 \in Nat
  BY <1>2
<1>4. Amounts
  BY <1>1, <1>3 DEF Init, Amounts
<1> QED BY <1>2, <1>4 DEF Init, Labels

(* The type invariant: whatever the pipeline depth and the order of outputs, *)
(* preemptions and pulls, no request computes to max_model_len or holds KV  *)
(* beyond it (NeuronAsyncScheduler._update_after_schedule).                 *)
THEOREM TypesCorrect == Spec => []TypeOK
<1> USE SchedulerAssumption
<1>1. HomeInv /\ Amounts /\ Labels /\ [Next]_vars => HomeInv' /\ Amounts' /\ Labels'
  BY HomeKept, AmountsKept
<1>2. HomeInv /\ Amounts /\ Labels => TypeOK
  BY DEF HomeInv, QueueTypes, Amounts, Labels, TypeOK
<1> QED BY <1>1, <1>2, HomeInit, AmountsInit, PTL DEF Spec
-----------------------------------------------------------------------------
(* An engine is uniform if none of its requests is pulled, or if it is one   *)
(* end of a disaggregated pair and all of them are.                         *)
Uniform ==
  \/ RemotePrefill = {}
  \/ Role # "none" /\ Request \subseteq RemotePrefill \ RemoteDecode

(* Without pulls nothing is ever parked for a transfer. *)
NoPulls == RemotePrefill = {} => pullPending = {} /\ remoteKv = {}

(* Without pulls the branch of step 3 decides what a batch is made of: an    *)
(* ongoing prefill alone, new ones while all decodes are hidden, a grammar   *)
(* waiter when nothing is visible, or decodes alone.                         *)
LEMMA BatchIsPure ==
  ASSUME SchedulerAssumption, HomeInv, Amounts, NoPulls, RemotePrefill = {},
         NEW preempted \in SUBSET running,
         NEW started \in SUBSET (Restored \cup VisibleGrammar),
         NEW p \in Ran(preempted) \cup started, NEW d \in Ran(preempted) \cup started
  PROVE  StartAt(p) < PromptChunks[p] <=> StartAt(d) < PromptChunks[d]
<1>1. remoteKv = {} /\ pullPending = {} /\ \A r \in Request : StartAt(r) = computed[r]
  BY DEF NoPulls, StartAt
<1>2. ~KeepDecodes
  BY <1>1 DEF KeepDecodes, OnlyAsyncPulls
<1>3. Ran(preempted) \subseteq Visible /\ Visible \subseteq running
  BY DEF Ran, Visible
<1>4. started \subseteq ToSet(waiting) \cup ToSet(grammarQ) /\ started \subseteq Request
  <2>1. waiting \in Seq(Request) /\ grammarQ \in Seq(Request)
        /\ IsInjective(waiting) /\ IsInjective(grammarQ)
    BY DEF HomeInv, QueueTypes
  <2>2. Restored \subseteq ToSet(waiting)
    BY <2>1, TailList DEF Restored, Holdback
  <2>3. VisibleGrammar \subseteq ToSet(grammarQ)
    BY <2>1, TailList DEF VisibleGrammar
  <2> QED BY <2>1, <2>2, <2>3, ListMembers
<1>5. \A r \in started : StartAt(r) < PromptChunks[r]
  <2>1. \A r \in started : computed[r] = 0 /\ PromptChunks[r] > 0
    BY <1>4 DEF Amounts, SchedulerAssumption
  <2> QED BY <1>1, <1>4, <2>1
<1>6. running \subseteq Request
  BY DEF HomeInv, QueueTypes
<1>7. \A r \in running : StartAt(r) < PromptChunks[r] <=> IsPrefill(r)
  BY <1>1, <1>6 DEF IsPrefill
<1>8. CASE HasPrefillInRunning
  <2>1. \A r \in Visible : IsPrefill(r)
    BY <1>8 DEF Visible, Hidden
  <2> QED BY <1>3, <1>5, <1>7, <2>1
<1>9. CASE ~HasPrefillInRunning /\ CanStartPrefill
  <2>1. Visible = {}
    BY <1>2, <1>9 DEF Visible, Hidden
  <2> QED BY <1>3, <1>5, <2>1
<1>10. CASE ~HasPrefillInRunning /\ ~CanStartPrefill
  <2>1. Restored = {}
    BY <1>10 DEF Restored, CanStartPrefill
  <2>2. \A r \in running : ~IsPrefill(r)
    BY <1>10 DEF HasPrefillInRunning
  <2>3. CASE Visible = {}
    BY <1>3, <1>5, <2>3
  <2>4. CASE Visible # {}
    <3>1. VisibleGrammar = {}
      BY <2>4 DEF VisibleGrammar
    <3>2. p \in running /\ d \in running
      BY <1>3, <2>1, <3>1
    <3> QED BY <1>7, <2>2, <3>2
  <2> QED BY <2>3, <2>4
<1> QED BY <1>8, <1>9, <1>10

(* The batch of a uniform engine is pure, so schedule() does not raise. *)
LEMMA ScheduleKeepsPure ==
  ASSUME SchedulerAssumption, HomeInv, Amounts, NoPulls, Uniform, Schedule
  PROVE  ~raised'
<1>1. PICK late \in SUBSET (VisibleGrammar \ compiled) :
        LET ready == Restored \cup (remoteKv \cap received)
                       \cup (VisibleGrammar \cap (compiled \cup late))
        IN \E preempted \in SUBSET Visible : \E admitted \in SUBSET ready :
             ScheduleWith(ready, preempted, admitted)
  BY DEF Schedule
<1> DEFINE ready == Restored \cup (remoteKv \cap received)
                      \cup (VisibleGrammar \cap (compiled \cup late))
<1>2. PICK preempted \in SUBSET Visible, admitted \in SUBSET ready :
        ScheduleWith(ready, preempted, admitted)
  BY <1>1
<1> DEFINE started == admitted \ {r \in admitted : Parks(r)}
           batch == Ran(preempted) \cup started
<1>3. raised' = \E p, d \in batch : CountedPrefill(p) /\ ~CountedPrefill(d)
  BY <1>2 DEF ScheduleWith
<1>4. CASE RemotePrefill = {}
  <2>1. remoteKv = {} /\ preempted \in SUBSET running
    BY <1>4 DEF NoPulls, Visible
  <2>2. started \in SUBSET (Restored \cup VisibleGrammar)
    BY <2>1
  <2> HIDE DEF started
  <2>3. ASSUME NEW p \in batch, NEW d \in batch, CountedPrefill(p), ~CountedPrefill(d)
        PROVE  FALSE
    <3>1. StartAt(p) < PromptChunks[p] <=> StartAt(d) < PromptChunks[d]
      BY <1>4, <2>1, <2>2, BatchIsPure
    <3> QED BY <1>4, <2>3, <3>1 DEF CountedPrefill
  <2> QED BY <1>3, <2>3
<1>5. CASE Role # "none" /\ Request \subseteq RemotePrefill \ RemoteDecode
  <2>1. waiting \in Seq(Request) /\ grammarQ \in Seq(Request)
        /\ remoteKv \subseteq Request /\ running \subseteq Request
    BY DEF HomeInv, QueueTypes
  <2>2. Restored \subseteq Request /\ VisibleGrammar \subseteq Request
    BY <2>1, HeadTailProperties DEF Restored, Holdback, VisibleGrammar
  <2>3. batch \subseteq Request
    BY <2>1, <2>2 DEF Ran, Visible
  <2> HIDE DEF batch
  <2> QED BY <1>3, <1>5, <2>3 DEF CountedPrefill
<1> QED BY <1>4, <1>5 DEF Uniform

(* A batch never mixes prefills and decodes, so the safety check of          *)
(* _apply_padding_and_log_stats never raises: for every role when no request *)
(* is pulled, and on an engine of a pair all of whose requests are pulled.   *)
(* With both kinds on one engine it does raise.                              *)
THEOREM BatchesPure == Spec => [](Uniform => BatchSeparated)
<1> DEFINE Inv == HomeInv /\ Amounts /\ Labels /\ NoPulls /\ (Uniform => BatchSeparated)
<1> USE SchedulerAssumption
<1>1. Init => Inv
  <2>1. Init => NoPulls /\ BatchSeparated
    BY DEF Init, NoPulls, BatchSeparated
  <2> QED BY <2>1, HomeInit, AmountsInit
<1>2. Inv /\ [Next]_vars => Inv'
  <2> SUFFICES ASSUME Inv, [Next]_vars PROVE Inv'
    OBVIOUS
  <2>1. HomeInv' /\ Amounts' /\ Labels'
    BY HomeKept, AmountsKept
  <2>2. CASE Schedule
    <3>1. NoPulls'
      <4>1. PICK ready : \E preempted \in SUBSET running, admitted \in SUBSET Request :
              ScheduleWith(ready, preempted, admitted)
        BY <2>2, ScheduleMoves
      <4>2. PICK preempted, admitted : ScheduleWith(ready, preempted, admitted)
        BY <4>1
      <4> DEFINE parked == {r \in admitted : Parks(r)}
      <4>3. /\ pullPending' = pullPending \ parked
            /\ remoteKv' = (remoteKv \ (admitted \ parked)) \cup parked
        BY <4>2 DEF ScheduleWith
      <4>4. parked \subseteq pullPending
        BY DEF Parks
      <4> QED BY <4>3, <4>4 DEF NoPulls
    <3>2. Uniform => BatchSeparated'
      BY <2>2, ScheduleKeepsPure DEF BatchSeparated
    <3> QED BY <2>1, <3>1, <3>2 DEF Uniform
  <2>3. CASE UNCHANGED <<pullPending, raised>> /\ remoteKv' \subseteq remoteKv
    BY <2>1, <2>3 DEF NoPulls, Uniform, BatchSeparated
  <2> QED BY <2>2, <2>3 DEF Next, UpdateFromOutput, AddRequest, Abort, CompileGrammar,
                            TransferDone, vars
<1>3. Inv => (Uniform => BatchSeparated)
  OBVIOUS
<1> QED BY <1>1, <1>2, <1>3, PTL DEF Spec
-----------------------------------------------------------------------------
(* The inductive invariant of OnePrefillPerBatch: at most one running request *)
(* is in its prompt, and a parked pull has all of its prompt.                *)
OnePrefill ==
  /\ \A p, q \in running : IsPrefill(p) /\ IsPrefill(q) => p = q
  /\ \A r \in remoteKv : computed[r] = PromptChunks[r]

(* What a schedule() runs or leaves running has one prefill: the one that    *)
(* runs already hides all waiters from the base scheduler, and without one it *)
(* is shown the first waiter or the first of those with a grammar.           *)
LEMMA OneIsShown ==
  ASSUME SchedulerAssumption, Amounts, OnePrefill, remoteKv \subseteq Request,
         NEW started \in SUBSET (Restored \cup remoteKv \cup VisibleGrammar)
  PROVE  \E x : \A r \in running \cup started : IsPrefill(r) => r = x
<1>1. \A r \in remoteKv : ~IsPrefill(r)
  <2>1. ASSUME NEW r \in remoteKv PROVE ~IsPrefill(r)
    <3>1. computed[r] = PromptChunks[r] /\ PromptChunks[r] \in Nat
      BY <2>1 DEF OnePrefill, SchedulerAssumption
    <3> QED BY <3>1 DEF IsPrefill
  <2> QED BY <2>1
<1>2. CASE HasPrefillInRunning
  <2>1. PICK x \in running : IsPrefill(x)
    BY <1>2 DEF HasPrefillInRunning
  <2>2. Restored = {}
    BY <1>2 DEF Restored, RoomForPrefill
  <2>3. x \in Visible
    BY <1>2, <2>1 DEF Visible, Hidden
  <2>4. VisibleGrammar = {}
    BY <2>3 DEF VisibleGrammar
  <2> QED BY <1>1, <2>1, <2>2, <2>4 DEF OnePrefill
<1>3. CASE ~HasPrefillInRunning /\ Restored # {}
  <2>1. Restored = {Head(Holdback)}
    BY <1>3 DEF Restored
  <2>2. Cardinality(Restored) = 1
    BY <2>1, FS_Singleton
  <2>3. VisibleGrammar = {}
    BY <2>2 DEF VisibleGrammar, MaxPrefillsPerBatch
  <2> QED BY <1>1, <1>3, <2>1, <2>3 DEF HasPrefillInRunning
<1>4. CASE ~HasPrefillInRunning /\ Restored = {}
  <2>1. VisibleGrammar \subseteq {Head(grammarQ)}
    BY DEF VisibleGrammar
  <2> QED BY <1>1, <1>4, <2>1 DEF HasPrefillInRunning
<1> QED BY <1>2, <1>3, <1>4

(* A step of the engine, in the terms of the prompts it advances. *)
OneAdvances ==
  Cardinality({r \in Request \ remoteKv' : IsPrefill(r) /\ computed'[r] > computed[r]})
    <= MaxPrefillsPerBatch

(* schedule() advances one prompt and leaves one running. *)
LEMMA ScheduleAdvancesOne ==
  ASSUME SchedulerAssumption, HomeInv, Amounts, OnePrefill, Schedule
  PROVE  OneAdvances /\ OnePrefill'
<1>1. PICK late \in SUBSET (VisibleGrammar \ compiled) :
        LET ready == Restored \cup (remoteKv \cap received)
                       \cup (VisibleGrammar \cap (compiled \cup late))
        IN \E preempted \in SUBSET Visible : \E admitted \in SUBSET ready :
             ScheduleWith(ready, preempted, admitted)
  BY DEF Schedule
<1> DEFINE ready == Restored \cup (remoteKv \cap received)
                      \cup (VisibleGrammar \cap (compiled \cup late))
<1>2. PICK preempted \in SUBSET Visible, admitted \in SUBSET ready :
        ScheduleWith(ready, preempted, admitted)
  BY <1>1
<1> DEFINE parked == {r \in admitted : Parks(r)}
           started == admitted \ parked
           ran == Ran(preempted)
           batch == ran \cup started
<1>3. /\ remoteKv' = (remoteKv \ started) \cup parked
      /\ computed' = [r \in Request |->
            IF r \in batch THEN StartAt(r) + 1
            ELSE IF r \in parked THEN PromptChunks[r]
            ELSE IF r \in preempted THEN 0 ELSE computed[r]]
      /\ running' \subseteq (running \ preempted) \cup started
  BY <1>2 DEF ScheduleWith, RunningRestored
<1>4. /\ waiting \in Seq(Request) /\ grammarQ \in Seq(Request)
      /\ IsInjective(waiting) /\ IsInjective(grammarQ)
      /\ remoteKv \subseteq Request /\ running \subseteq Request
      /\ Apart(ToSet(waiting), ToSet(grammarQ), remoteKv, running, pendingKvSend)
  BY DEF HomeInv, QueueTypes
<1>5. admitted \subseteq Request /\ admitted \cap running = {}
  <2>1. Restored \subseteq ToSet(waiting) /\ VisibleGrammar \subseteq ToSet(grammarQ)
    BY <1>4, TailList DEF Restored, Holdback, VisibleGrammar
  <2>2. admitted \subseteq ToSet(waiting) \cup ToSet(grammarQ) \cup remoteKv
    BY <2>1
  <2> QED BY <1>4, <2>2, ListMembers DEF Apart
<1>6. /\ started \in SUBSET (Restored \cup remoteKv \cup VisibleGrammar)
      /\ ran \subseteq running \ preempted /\ preempted \subseteq running
      /\ started \subseteq admitted /\ parked \subseteq admitted
      /\ started \cap parked = {} /\ parked \cap remoteKv = {}
  BY DEF Ran, Visible, Parks
<1>7. /\ computed \in [Request -> 0 .. MaxModelLen - 1]
      /\ PromptChunks \in [Request -> Nat \ {0}] /\ MaxModelLen \in Nat
  BY DEF Amounts, SchedulerAssumption
<1>8. \A r \in remoteKv : computed[r] = PromptChunks[r]
  BY DEF OnePrefill
<1> HIDE DEF parked, started, ran
<1>9. PICK x : \A r \in running \cup started : IsPrefill(r) => r = x
  BY <1>4, <1>6, OneIsShown
<1>10. \A r \in Request : StartAt(r) = IF r \in remoteKv THEN PromptChunks[r] - 1 ELSE computed[r]
  BY DEF StartAt
<1>11. OneAdvances
  <2> DEFINE advanced == {r \in Request \ remoteKv' : IsPrefill(r) /\ computed'[r] > computed[r]}
  <2>1. ASSUME NEW r \in advanced PROVE r = x
    <3>1. r \in batch
      BY <1>3, <1>7
    <3> QED BY <1>6, <1>9, <3>1
  <2>2. advanced \subseteq {x}
    BY <2>1
  <2>3. IsFiniteSet({x}) /\ Cardinality({x}) = 1
    BY FS_Singleton
  <2>4. Cardinality(advanced) <= 1
    BY <2>2, <2>3, FS_Subset
  <2> QED BY <2>4 DEF OneAdvances, MaxPrefillsPerBatch
<1>12. ASSUME NEW r \in running', IsPrefill(r)' PROVE r = x
  <2>1. r \in (running \ preempted) \cup started /\ r \in Request
    BY <1>3, <1>4, <1>5, <1>6
  <2>2. r \notin parked
    BY <1>5, <1>6, <2>1
  <2>3. computed'[r] = IF r \in batch THEN StartAt(r) + 1 ELSE computed[r]
    BY <1>3, <1>5, <1>6, <2>1, <2>2
  <2>4. r \notin remoteKv
    <3> SUFFICES ASSUME r \in remoteKv PROVE FALSE
      OBVIOUS
    <3>1. r \in started
      BY <1>4, <2>1 DEF Apart
    <3>2. computed'[r] = PromptChunks[r]
      BY <1>7, <1>10, <2>1, <2>3, <3>1
    <3> QED BY <1>7, <1>12, <2>1, <3>2 DEF IsPrefill
  <2>5. computed[r] < PromptChunks[r]
    BY <1>7, <1>10, <1>12, <2>1, <2>3, <2>4 DEF IsPrefill
  <2> QED BY <1>9, <2>1, <2>5 DEF IsPrefill
<1>13. ASSUME NEW r \in remoteKv' PROVE computed'[r] = PromptChunks[r]
  <2>1. r \in Request
    BY <1>3, <1>4, <1>5, <1>6
  <2>2. CASE r \in parked
    BY <1>3, <1>5, <1>6, <2>1, <2>2
  <2>3. CASE r \in remoteKv \ started
    <3>1. r \notin batch /\ r \notin parked /\ r \notin preempted
      BY <1>4, <1>6, <2>3 DEF Apart
    <3> QED BY <1>3, <1>8, <2>1, <2>3, <3>1
  <2> QED BY <1>3, <2>2, <2>3
<1> QED BY <1>11, <1>12, <1>13 DEF OnePrefill

(* max_prefills_per_batch = 1, for every role, pool and mix of requests, and *)
(* with chunked prompts, grammars and resumed pulls: the prefill graphs take *)
(* a batch of one (NeuronScheduler.schedule).                                *)
THEOREM OnePrefillAtATime == Spec => OnePrefillPerBatch
<1> DEFINE I == HomeInv /\ Amounts /\ Labels /\ OnePrefill
<1> USE SchedulerAssumption
<1>1. Init => I
  <2>1. Init => OnePrefill
    BY DEF Init, OnePrefill
  <2> QED BY <2>1, HomeInit, AmountsInit
<1>2. I /\ [Next]_vars => I' /\ [OneAdvances]_vars
  <2> SUFFICES ASSUME I, [Next]_vars PROVE I' /\ (OneAdvances \/ UNCHANGED vars)
    OBVIOUS
  <2>1. HomeInv' /\ Amounts' /\ Labels'
    BY HomeKept, AmountsKept
  <2>2. CASE Schedule
    BY <2>1, <2>2, ScheduleAdvancesOne
  <2>3. CASE /\ UNCHANGED computed
             /\ running' \subseteq running /\ remoteKv' \subseteq remoteKv
    <3>1. OnePrefill'
      BY <2>3 DEF OnePrefill, IsPrefill
    <3>2. {r \in Request \ remoteKv' : IsPrefill(r) /\ computed'[r] > computed[r]} = {}
      BY <2>3 DEF Amounts
    <3>3. OneAdvances
      BY <3>2, FS_EmptySet DEF OneAdvances, MaxPrefillsPerBatch
    <3> QED BY <2>1, <3>1, <3>3
  <2>4. CASE UNCHANGED vars
    BY <2>1, <2>4 DEF vars, OnePrefill, IsPrefill
  <2> QED BY <2>2, <2>3, <2>4 DEF Next, UpdateFromOutput, AddRequest, Abort,
                                  CompileGrammar, TransferDone
<1>3. [OneAdvances]_vars <=> [Cardinality({r \in Request \ remoteKv' :
        IsPrefill(r) /\ computed'[r] > computed[r]}) <= MaxPrefillsPerBatch]_vars
  BY DEF OneAdvances
<1> QED BY <1>1, <1>2, <1>3, PTL DEF Spec, OnePrefillPerBatch
-----------------------------------------------------------------------------
(* Taking a request out of a queue keeps the order of the others. *)
LEMMA WithoutOrder ==
  ASSUME NEW S, NEW s \in Seq(S), IsInjective(s), NEW e
  PROVE  KeepsOrder(s, Without(s, e))
<1>1. CASE e \notin ToSet(s)
  <2>1. Without(s, e) = s
    BY <1>1 DEF Without
  <2> QED BY <2>1, SameOrder
<1>2. CASE e \in ToSet(s)
  <2> DEFINE x == CHOOSE k \in DOMAIN s : s[k] = e
  <2>1. x \in DOMAIN s /\ Without(s, e) = RemoveAt(s, x)
    BY <1>2 DEF ToSet, Without
  <2> HIDE DEF x
  <2> QED BY <2>1, RemoveAtOrder
<1> QED BY <1>1, <1>2

(* A step of the engine, in the terms of the hold-back queue. *)
NoneOvertakes ==
  \A i, j \in DOMAIN waiting : i < j =>
     /\ waiting[j] \in running' \cup remoteKv' \cup pendingKvSend'
          => waiting[i] \notin ToSet(waiting')
     /\ \A k, m \in DOMAIN waiting' :
          waiting'[k] = waiting[i] /\ waiting'[m] = waiting[j] => k < m

(* schedule() starts the head of the queue or none of it. *)
LEMMA ScheduleOvertakesNone ==
  ASSUME SchedulerAssumption, HomeInv, Schedule
  PROVE  NoneOvertakes
<1>1. /\ waiting \in Seq(Request) /\ grammarQ \in Seq(Request)
      /\ remoteKv \subseteq Request /\ running \subseteq Request
      /\ IsInjective(waiting)
      /\ Apart(ToSet(waiting), ToSet(grammarQ), remoteKv, running, pendingKvSend)
  BY DEF HomeInv, QueueTypes
<1> DEFINE readyWith(late) == Restored \cup (remoteKv \cap received)
                                \cup (VisibleGrammar \cap (compiled \cup late))
<1>2. PICK late \in SUBSET (VisibleGrammar \ compiled) :
        \E preempted \in SUBSET Visible : \E admitted \in SUBSET readyWith(late) :
          ScheduleWith(readyWith(late), preempted, admitted)
  BY DEF Schedule
<1>3. PICK preempted \in SUBSET Visible, admitted \in SUBSET readyWith(late) :
        ScheduleWith(readyWith(late), preempted, admitted)
  BY <1>2
<1> DEFINE kept == IF admitted \cap Restored # {} THEN Tail(waiting) ELSE waiting
<1>4. /\ \E order \in SetToSeqs(preempted) : waiting' = order \o kept
      /\ running' \cup remoteKv' \cup pendingKvSend'
           \subseteq running \cup remoteKv \cup pendingKvSend \cup admitted
  BY <1>3 DEF ScheduleWith, Holdback, RunningRestored
<1>5. /\ Restored # {} => waiting # <<>> /\ Restored = {waiting[1]}
      /\ VisibleGrammar \subseteq ToSet(grammarQ)
  <2>1. Restored # {} => waiting # <<>> /\ Restored = {Head(waiting)}
    BY DEF Restored, Holdback
  <2>2. waiting # <<>> => Head(waiting) = waiting[1]
    OBVIOUS
  <2>3. VisibleGrammar \subseteq ToSet(grammarQ)
    <3>1. CASE grammarQ = <<>>
      BY <3>1 DEF VisibleGrammar
    <3>2. CASE grammarQ # <<>>
      <4>1. Head(grammarQ) \in ToSet(grammarQ)
        BY <3>2, TailList DEF HomeInv, QueueTypes
      <4> QED BY <4>1 DEF VisibleGrammar
    <3> QED BY <3>1, <3>2
  <2> QED BY <2>1, <2>2, <2>3
<1>6. KeepsOrder(waiting, waiting')
  <2>1. PICK order \in SetToSeqs(preempted) : waiting' = order \o kept
    BY <1>4
  <2>2. preempted \subseteq running /\ preempted \subseteq Request
    BY <1>1 DEF Visible
  <2>3. IsFiniteSet(preempted)
    BY <2>2, FS_Subset DEF SchedulerAssumption
  <2>4. order \in Seq(Request) /\ ToSet(order) = preempted
    BY <2>2, <2>3, OrderList, OrderType
  <2>5. ToSet(order) \cap ToSet(waiting) = {}
    BY <1>1, <2>2, <2>4 DEF Apart
  <2>6. kept = waiting \/ (waiting # <<>> /\ kept = Tail(waiting))
    BY <1>5
  <2> HIDE DEF kept
  <2> QED BY <1>1, <2>1, <2>4, <2>5, <2>6, PrependOrder
<1>7. ASSUME NEW i \in DOMAIN waiting, NEW j \in DOMAIN waiting, i < j
      PROVE  waiting[j] \notin running' \cup remoteKv' \cup pendingKvSend'
  <2>1. waiting[j] \in ToSet(waiting)
    BY DEF ToSet
  <2>2. waiting[j] \notin running \cup remoteKv \cup pendingKvSend \cup ToSet(grammarQ)
    BY <1>1, <2>1 DEF Apart
  <2>3. waiting[j] \notin Restored
    <3>1. DOMAIN waiting = 1 .. Len(waiting) /\ Len(waiting) \in Nat
      BY <1>1, LenProperties
    <3>2. j # 1 /\ 1 \in DOMAIN waiting
      BY <1>7, <3>1
    <3> QED BY <1>1, <1>5, <3>2 DEF IsInjective
  <2> QED BY <1>4, <1>5, <2>2, <2>3
<1> QED BY <1>6, <1>7 DEF NoneOvertakes, KeepsOrder

(* No other operation starts a waiter, or moves one before another. *)
LEMMA NoneOvertakesElse ==
  ASSUME HomeInv, running' \subseteq running, remoteKv' \subseteq remoteKv,
         pendingKvSend' \subseteq pendingKvSend, KeepsOrder(waiting, waiting')
  PROVE  NoneOvertakes
<1>1. Apart(ToSet(waiting), ToSet(grammarQ), remoteKv, running, pendingKvSend)
  BY DEF HomeInv
<1>2. \A j \in DOMAIN waiting : waiting[j] \in ToSet(waiting)
  BY DEF ToSet
<1> QED BY <1>1, <1>2 DEF NoneOvertakes, KeepsOrder, Apart

(* First come, first served through the hold-back queue, for every role and  *)
(* pool, with preemptions, aborts and pulls (NeuronScheduler.schedule).     *)
THEOREM FirstComeFirstServed == Spec => NoOvertaking
<1> USE SchedulerAssumption
<1>1. HomeInv /\ [Next]_vars => HomeInv' /\ [NoneOvertakes]_vars
  <2> SUFFICES ASSUME HomeInv, [Next]_vars PROVE HomeInv' /\ (NoneOvertakes \/ UNCHANGED vars)
    OBVIOUS
  <2>1. HomeInv'
    BY HomeKept
  <2>2. waiting \in Seq(Request) /\ IsInjective(waiting) /\ KeepsOrder(waiting, waiting)
    BY SameOrder DEF HomeInv, QueueTypes
  <2>3. ASSUME Schedule PROVE NoneOvertakes
    BY <2>3, ScheduleOvertakesNone
  <2>4. ASSUME UpdateFromOutput PROVE NoneOvertakes
    <3>1. /\ running' \subseteq running /\ remoteKv' = remoteKv
          /\ pendingKvSend' \subseteq pendingKvSend /\ waiting' = waiting
      BY <2>4 DEF UpdateFromOutput, LaneRetired
    <3>2. KeepsOrder(waiting, waiting')
      BY <2>2, <3>1
    <3> QED BY <3>1, <3>2, NoneOvertakesElse
  <2>5. ASSUME NEW r \in Request, AddRequest(r) PROVE NoneOvertakes
    <3>1. /\ running' = running /\ remoteKv' = remoteKv /\ pendingKvSend' = pendingKvSend
          /\ waiting' = waiting \/ waiting' = Append(waiting, r)
          /\ life[r] = "new"
      BY <2>5 DEF AddRequest
    <3>2. r \notin ToSet(waiting)
      BY <3>1 DEF HomeInv, Queued
    <3>3. KeepsOrder(waiting, Append(waiting, r))
      BY <2>2, <3>2, AppendOrder
    <3>4. KeepsOrder(waiting, waiting')
      BY <2>2, <3>1, <3>3
    <3> QED BY <3>1, <3>4, NoneOvertakesElse
  <2>6. ASSUME NEW r \in Request, Abort(r) PROVE NoneOvertakes
    <3>1. /\ running' \subseteq running /\ remoteKv' \subseteq remoteKv
          /\ pendingKvSend' = pendingKvSend /\ waiting' = Without(waiting, r)
      BY <2>6 DEF Abort
    <3>2. KeepsOrder(waiting, waiting')
      BY <2>2, <3>1, WithoutOrder
    <3> QED BY <3>1, <3>2, NoneOvertakesElse
  <2>7. ASSUME NEW r \in Request, CompileGrammar(r) \/ TransferDone(r)
        PROVE  NoneOvertakes
    <3>1. /\ running' = running /\ remoteKv' = remoteKv
          /\ pendingKvSend' = pendingKvSend /\ waiting' = waiting
      BY <2>7 DEF CompileGrammar, TransferDone
    <3>2. KeepsOrder(waiting, waiting')
      BY <2>2, <3>1
    <3> QED BY <3>1, <3>2, NoneOvertakesElse
  <2> QED BY <2>1, <2>3, <2>4, <2>5, <2>6, <2>7 DEF Next
<1>2. [NoneOvertakes]_vars <=>
        [\A i, j \in DOMAIN waiting : i < j =>
           /\ waiting[j] \in running' \cup remoteKv' \cup pendingKvSend'
                => waiting[i] \notin ToSet(waiting')
           /\ \A k, m \in DOMAIN waiting' :
                waiting'[k] = waiting[i] /\ waiting'[m] = waiting[j] => k < m]_vars
  BY DEF NoneOvertakes
<1> QED BY <1>1, <1>2, HomeInit, PTL DEF Spec, NoOvertaking
=============================================================================
