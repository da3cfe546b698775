----------------------------- MODULE RunnerV2_proofs ---------------------------
(***************************************************************************)
(* Proofs about the slots of the slot-stable runner, and about the tokens it *)
(* answers with, for every set of requests and of ranks, number of slots, and *)
(* set of engines.                                                         *)
(*                                                                         *)
(* Slots.  Every rank goes through the same tables of slots, one after each  *)
(* step of the queue, although no two need be at the same one: there is a    *)
(* chain of tables T[0], T[1], ... such that a rank that has submitted i     *)
(* steps of the queue has table T[i], whatever it has been told of the       *)
(* graphs.  The last table is the one the scheduler plans on: exactly the    *)
(* requests it takes to be running, and those that have ended but which the  *)
(* runners have not been told of, have a slot in it, which is why there is   *)
(* always one to give.                                                      *)
(*                                                                         *)
(* Tokens.  Four parties see a request at four times: the scheduler counts   *)
(* ahead, the output rank has submitted the first m steps of the queue, the  *)
(* device has run the first f, and the texts end before the first.  A ledger *)
(* gives what the scheduler counted and which blocks a request had after     *)
(* each step: the host's rows of blocks agree with it at m, the cache and    *)
(* the device's slots at f, and the steps between them carry one to the next. *)
(* Here are the ledger, the first one, and what planning does to it;         *)
(* RunnerV2Tokens_proofs has the other actions and the theorem.              *)
(***************************************************************************)
EXTENDS RunnerV2, ListLemmas

(* A step as update_states of a rank finds it. *)
StepFields ==
  {"new", "reqs", "finished", "preempted", "ranks", "chosen", "fenced", "ran", "read"}

(* Tables of slots: those of the requests that stay through a step, and what *)
(* the table becomes when the requests that have left are removed and each   *)
(* new one takes the lowest slot that nobody keeps.                         *)
Table == [ReqId -> Slots \cup {NoSlot}]
Apart(B) == \A r, q \in ReqId : B[r] = B[q] /\ B[r] # NoSlot => r = q
Gone(e) == e.finished \cup e.preempted
Staying(B, gone) == {B[r] : r \in ReqId \ gone}
Reseated(B, new, gone) ==
  LET order == Ascending(Slots \ Staying(B, gone)) IN
  [r \in ReqId |-> IF r \in ToSet(new) THEN order[CHOOSE j \in DOMAIN new : new[j] = r]
                   ELSE IF r \in gone THEN NoSlot ELSE B[r]]
After(B, e) == Reseated(B, e.new, Gone(e))
SeatsOf(B, reqs) == [r \in ToSet(reqs) |-> B[r]]

(* A step the scheduler may plan when the table is B. *)
Fitting(B, e) ==
  /\ e.new \in Seq(ReqId) /\ e.reqs \in Seq(ReqId) /\ Gone(e) \subseteq ReqId
  /\ ToSet(e.new) \subseteq ToSet(e.reqs)
  /\ \A r \in ToSet(e.new) : B[r] = NoSlot
  /\ \A r \in ToSet(e.reqs) \ ToSet(e.new) : B[r] # NoSlot
  /\ ToSet(e.reqs) \cap Gone(e) = {}
  /\ Len(e.new) <= Cardinality(Slots \ Staying(B, Gone(e)))

(* What the table will be after the steps in the queue, and the plan. *)
Planned(B) ==
  /\ stage \in [ReqId -> {"new", "loaded", "running", "preempted", "finished"}]
  /\ ended \subseteq ReqId /\ \A r \in ended : stage[r] = "finished"
  /\ \A r \in ReqId : stage[r] = "running" => B[r] # NoSlot
  /\ \A r \in ReqId : B[r] # NoSlot => stage[r] = "running" \/ r \in ended

(* T[i] is the table of every rank that has submitted the first i steps in   *)
(* the queue and no more.                                                   *)
Reached(k, i) ==
  /\ i >= 1 => k \in steps[i].ranks
  /\ i < Len(steps) => k \notin steps[i + 1].ranks
Chain(T) ==
  /\ T \in [0 .. Len(steps) -> Table]
  /\ \A i \in 0 .. Len(steps) : Apart(T[i])
  /\ \A i \in 1 .. Len(steps) : Fitting(T[i - 1], steps[i]) /\ T[i] = After(T[i - 1], steps[i])
  /\ Planned(T[Len(steps)])
  /\ \A k \in TpRank, i \in 0 .. Len(steps) : Reached(k, i) => slotOf[k] = T[i]
  /\ \A i \in 1 .. Len(steps) : \A k \in steps[i].ranks :
       steps[i].chosen[k] = SeatsOf(T[i], steps[i].reqs)

IsList(s) == Len(s) \in Nat /\ s = [i \in 1 .. Len(s) |-> s[i]]

(* The queue: ranks submit its steps in order; a step is read after it has   *)
(* run and every rank has submitted it, and nobody is told before.          *)
QueueTypes ==
  /\ engine \in Engines
  /\ IsList(steps) /\ Len(steps) <= engine.depth
  /\ \A i \in 1 .. Len(steps) :
       /\ StepFields \subseteq DOMAIN steps[i]
       /\ steps[i].ranks \subseteq TpRank /\ steps[i].fenced \subseteq TpRank
       /\ DOMAIN steps[i].chosen = TpRank
       /\ steps[i].ran \in BOOLEAN /\ steps[i].read \in BOOLEAN
Told ==
  /\ \A i, j \in 1 .. Len(steps) : i < j => steps[j].ranks \subseteq steps[i].ranks
  /\ \A i \in 1 .. Len(steps) :
       /\ steps[i].read => steps[i].ran /\ steps[i].ranks = TpRank
       /\ steps[i].fenced # {} => steps[i].ran
       /\ steps[i].read /\ engine.depth = 1 => steps[i].fenced = TpRank
  /\ engine.depth = 1 => \A k \in TpRank : lingering[k] = {}

(* The slots of every rank. *)
SlotSets ==
  /\ slotOf \in [TpRank -> Table]
  /\ {freeSlots, quarantined, lingering} \subseteq [TpRank -> SUBSET Slots]
Shares ==
  \A k \in TpRank :
    LET taken == {slotOf[k][r] : r \in ReqId} \ {NoSlot} IN
    /\ Apart(slotOf[k])
    /\ freeSlots[k] \cup quarantined[k] \cup taken = Slots
    /\ freeSlots[k] \cap quarantined[k] = {}
    /\ (freeSlots[k] \cup quarantined[k]) \cap taken = {}

(* A slot a rank does not know to be done with is not free there. *)
Withholds ==
  \A i \in 1 .. Len(steps) : \A k \in steps[i].ranks \ steps[i].fenced :
    freeSlots[k] \cap SlotsOf(steps[i], k) = {}

SlotInv ==
  /\ QueueTypes /\ Told /\ SlotSets /\ Shares /\ Withholds
  /\ \E T : Chain(T)

(* Ascending lists a finite set of integers: each of them once. *)
LEMMA AscendingLists ==
  ASSUME NEW S, IsFiniteSet(S), S \subseteq Int
  PROVE  /\ DOMAIN Ascending(S) = 1 .. Cardinality(S)
         /\ \A j \in 1 .. Cardinality(S) : Ascending(S)[j] \in S
         /\ \A i, j \in 1 .. Cardinality(S) : Ascending(S)[i] = Ascending(S)[j] => i = j
<1> DEFINE n == Cardinality(S)
           Below(x) == {y \in S : y < x}
           rank == [x \in S |-> Cardinality(Below(x))]
           R == 0 .. n - 1
<1>1. n \in Nat
  BY FS_CardinalityType
<1>2. \A x \in S : IsFiniteSet(Below(x)) /\ Cardinality(Below(x)) \in Nat
  <2> TAKE x \in S
  <2>1. Below(x) \subseteq S
    OBVIOUS
  <2>2. IsFiniteSet(Below(x))
    BY <2>1, FS_Subset
  <2> QED BY <2>2, FS_CardinalityType
<1>3. ASSUME NEW x \in S, NEW z \in S, x < z
      PROVE  Cardinality(Below(x)) < Cardinality(Below(z))
  <2>1. x \in Int /\ z \in Int /\ \A y \in S : y \in Int
    OBVIOUS
  <2>2. \A y \in S : y < x => y < z
    BY <1>3, <2>1
  <2>3. Below(x) \subseteq Below(z) /\ x \in Below(z) /\ x \notin Below(x)
    <3>1. x \in Below(z)
      BY <1>3
    <3>2. x \notin Below(x)
      BY <2>1
    <3>3. Below(x) \subseteq Below(z)
      BY <2>2
    <3> QED BY <3>1, <3>2, <3>3
  <2>4. Cardinality(Below(x)) <= Cardinality(Below(z)) /\ Cardinality(Below(x)) # Cardinality(Below(z))
    BY <1>2, <2>3, FS_Subset
  <2> QED BY <1>2, <2>4
<1>4. \A x \in S : Cardinality(Below(x)) < n
  <2> TAKE x \in S
  <2>1. Below(x) \subseteq S /\ x \notin Below(x)
    OBVIOUS
  <2>2. Cardinality(Below(x)) <= n /\ Cardinality(Below(x)) # n
    BY <2>1, FS_Subset
  <2> QED BY <1>1, <1>2, <2>2
<1>5. rank \in [S -> R]
  BY <1>1, <1>2, <1>4
<1>6. \A x, z \in S : rank[x] = rank[z] => x = z
  <2> SUFFICES ASSUME NEW x \in S, NEW z \in S, x # z PROVE rank[x] # rank[z]
    OBVIOUS
  <2>1. x < z \/ z < x
    OBVIOUS
  <2> QED BY <1>2, <1>3, <2>1
<1>7. IsFiniteSet(R) /\ Cardinality(R) = n
  BY <1>1, FS_Interval
<1> HIDE DEF n, rank, R
<1>8. rank \in Injection(S, R)
  BY <1>5, <1>6 DEF Injection, IsInjective
<1>9. rank \in Surjection(S, R)
  BY <1>7, <1>8, FS_Injection DEF n
<1>10. \A j \in 1 .. n : \E x \in S : rank[x] = j - 1
  BY <1>1, <1>9 DEF Surjection, R
<1>11. \A j \in 1 .. n : Ascending(S)[j] \in S /\ rank[Ascending(S)[j]] = j - 1
  <2> TAKE j \in 1 .. n
  <2>1. Ascending(S)[j] = CHOOSE x \in S : Cardinality(Below(x)) = j - 1
    BY DEF Ascending, n
  <2>2. \A x \in S : rank[x] = Cardinality(Below(x))
    BY DEF rank
  <2>3. PICK x \in S : Cardinality(Below(x)) = j - 1
    BY <1>10, <2>2
  <2>4. Ascending(S)[j] \in S /\ Cardinality(Below(Ascending(S)[j])) = j - 1
    BY <2>1, <2>3
  <2> QED BY <2>2, <2>4
<1>12. DOMAIN Ascending(S) = 1 .. n
  BY DEF Ascending, n
<1>13. ASSUME NEW i \in 1 .. n, NEW j \in 1 .. n, Ascending(S)[i] = Ascending(S)[j] PROVE i = j
  <2>1. i - 1 = j - 1
    BY <1>11, <1>13
  <2> QED BY <1>1, <2>1
<1> QED BY <1>11, <1>12, <1>13 DEF n

(* SetToSeq lists a finite set. *)
LEMMA SetAsList ==
  ASSUME NEW S, IsFiniteSet(S)
  PROVE  /\ SetToSeq(S) \in Seq(S) /\ Len(SetToSeq(S)) = Cardinality(S)
         /\ ToSet(SetToSeq(S)) \subseteq S
<1> DEFINE n == Cardinality(S)
<1>1. n \in Nat /\ ExistsBijection(1 .. n, S)
  BY FS_CardinalityType
<1>2. PICK f \in Bijection(1 .. n, S) : TRUE
  BY <1>1 DEF ExistsBijection
<1>3. f \in [1 .. n -> S] /\ IsInjective(f)
  BY <1>2 DEF Bijection, Injection, Surjection, IsInjective
<1>4. SetToSeq(S) \in [1 .. n -> S]
  BY <1>3 DEF SetToSeq
<1>5. SetToSeq(S) \in Seq(S) /\ Len(SetToSeq(S)) = n
  <2> HIDE DEF n
  <2> QED BY <1>1, <1>4, IsASeq, LenProperties
<1> QED BY <1>5, ListMembers

(* There are MaxNumReqs slots, numbers all of them. *)
LEMMA SlotsFinite ==
  ASSUME RunnerV2Assumption
  PROVE  /\ IsFiniteSet(Slots) /\ Cardinality(Slots) = MaxNumReqs /\ Slots \subseteq Int
         /\ NoSlot \notin Slots /\ MaxNumReqs \in Nat /\ MaxNumReqs > 0
         /\ \A S \in SUBSET Slots : IsFiniteSet(S) /\ S \subseteq Int /\ Cardinality(S) \in Nat
<1>1. MaxNumReqs \in Nat /\ MaxNumReqs > 0
  BY DEF RunnerV2Assumption
<1>2. IsFiniteSet(Slots) /\ Cardinality(Slots) = MaxNumReqs /\ Slots \subseteq Int
  <2>1. MaxNumReqs - 1 \in Int /\ ~(0 > MaxNumReqs - 1) /\ MaxNumReqs - 1 - 0 + 1 = MaxNumReqs
    BY <1>1
  <2>2. IsFiniteSet(0 .. MaxNumReqs - 1) /\ Cardinality(0 .. MaxNumReqs - 1) = MaxNumReqs
    BY <2>1, FS_Interval
  <2> QED BY <2>2 DEF Slots
<1>3. ASSUME NEW S \in SUBSET Slots PROVE IsFiniteSet(S) /\ S \subseteq Int /\ Cardinality(S) \in Nat
  BY <1>2, FS_Subset, FS_CardinalityType
<1> QED BY <1>1, <1>2, <1>3 DEF Slots, NoSlot

(* Every new request of a step gets a slot nobody keeps, another than every  *)
(* other's, and all requests of the step have one.                          *)
LEMMA AfterPlaces ==
  ASSUME RunnerV2Assumption, NEW B \in Table, Apart(B), NEW e, Fitting(B, e)
  PROVE  LET A == After(B, e) IN
         /\ A \in Table /\ Apart(A)
         /\ \A r \in ToSet(e.new) : A[r] \in Slots \ Staying(B, Gone(e))
         /\ \A r \in ReqId \ ToSet(e.new) : A[r] = IF r \in Gone(e) THEN NoSlot ELSE B[r]
         /\ \A r \in ToSet(e.reqs) : r \in ReqId /\ A[r] # NoSlot
         /\ ToSet(e.new) \subseteq ReqId
<1> DEFINE S == Slots \ Staying(B, Gone(e))
           order == Ascending(S)
           at(r) == CHOOSE j \in DOMAIN e.new : e.new[j] = r
           A == After(B, e)
<1>1. /\ e.new \in Seq(ReqId) /\ ToSet(e.new) \subseteq ReqId
      /\ e.reqs \in Seq(ReqId) /\ ToSet(e.reqs) \subseteq ReqId
      /\ DOMAIN e.new = 1 .. Len(e.new) /\ Len(e.new) \in Nat
      /\ ToSet(e.new) = {e.new[i] : i \in 1 .. Len(e.new)}
  BY ListMembers, LenProperties DEF Fitting
<1>2. S \subseteq Slots /\ IsFiniteSet(S) /\ S \subseteq Int /\ Cardinality(S) \in Nat
  BY SlotsFinite
<1>3. Len(e.new) <= Cardinality(S)
  BY DEF Fitting
<1> HIDE DEF S
<1>4. /\ \A j \in 1 .. Cardinality(S) : order[j] \in S
      /\ \A i, j \in 1 .. Cardinality(S) : order[i] = order[j] => i = j
  BY <1>2, AscendingLists
<1>5. \A r \in ToSet(e.new) : at(r) \in 1 .. Cardinality(S) /\ e.new[at(r)] = r
  <2> TAKE r \in ToSet(e.new)
  <2>1. PICK j \in 1 .. Len(e.new) : e.new[j] = r
    BY <1>1
  <2>2. at(r) \in 1 .. Len(e.new) /\ e.new[at(r)] = r
    BY <1>1, <2>1
  <2> HIDE DEF at
  <2> QED BY <1>1, <1>2, <1>3, <2>2
<1>6. A = [r \in ReqId |-> IF r \in ToSet(e.new) THEN order[at(r)]
                           ELSE IF r \in Gone(e) THEN NoSlot ELSE B[r]]
  BY DEF After, Reseated, S
<1> HIDE DEF A, at, order
<1>7. \A r \in ToSet(e.new) : A[r] \in S /\ A[r] = order[at(r)]
  BY <1>1, <1>4, <1>5, <1>6
<1>8. \A r \in ReqId \ ToSet(e.new) : A[r] = IF r \in Gone(e) THEN NoSlot ELSE B[r]
  BY <1>6
<1>9. A \in Table
  BY <1>2, <1>4, <1>5, <1>6 DEF Table
<1>10. \A r, q \in ToSet(e.new) : A[r] = A[q] => r = q
  BY <1>4, <1>5, <1>7
<1>11. \A r \in ReqId \ ToSet(e.new) : A[r] # NoSlot => A[r] = B[r] /\ A[r] \in Staying(B, Gone(e))
  BY <1>8 DEF Staying
<1>12. Apart(A)
  <2> SUFFICES ASSUME NEW r \in ReqId, NEW q \in ReqId, A[r] = A[q], A[r] # NoSlot PROVE r = q
    BY DEF Apart
  <2>1. CASE r \in ToSet(e.new) /\ q \in ToSet(e.new)
    BY <1>10, <2>1
  <2>2. CASE r \notin ToSet(e.new) /\ q \notin ToSet(e.new)
    BY <1>11, <2>2 DEF Apart
  <2>3. CASE r \in ToSet(e.new) /\ q \notin ToSet(e.new)
    BY <1>7, <1>11, <2>3 DEF S
  <2>4. CASE r \notin ToSet(e.new) /\ q \in ToSet(e.new)
    BY <1>7, <1>11, <2>4 DEF S
  <2> QED BY <2>1, <2>2, <2>3, <2>4
<1>13. \A r \in ToSet(e.reqs) : r \in ReqId /\ A[r] # NoSlot
  <2> TAKE r \in ToSet(e.reqs)
  <2>1. CASE r \in ToSet(e.new)
    BY <1>1, <1>2, <1>7, <2>1, SlotsFinite
  <2>2. CASE r \notin ToSet(e.new)
    BY <1>1, <1>8, <2>2 DEF Fitting
  <2> QED BY <2>1, <2>2
<1> QED BY <1>1, <1>7, <1>8, <1>9, <1>12, <1>13 DEF A, S

(* On every rank the slots of the requests that have left come back, and a   *)
(* step with new requests finds no graph in flight and none withheld.       *)
LEMMA AvailableSlots ==
  ASSUME RunnerV2Assumption, QueueTypes, Told, SlotSets, Shares,
         NEW k \in TpRank, NEW i \in 1 .. Len(steps), Gone(steps[i]) \subseteq ReqId
  PROVE  LET e == steps[i]
             back == freeSlots[k] \cup quarantined[k] \cup Vacated(k, e)
         IN  /\ Withheld(k, i) = (quarantined[k] \cup Vacated(k, e)) \cap Open(k, i)
             /\ Available(k, i) = back \ Withheld(k, i)
             /\ back = Slots \ Staying(slotOf[k], Gone(e))
             /\ e.new # <<>> => Withheld(k, i) = {} /\ Available(k, i) = Slots \ Staying(slotOf[k], Gone(e))
<1> DEFINE e == steps[i]
           B == slotOf[k]
           taken == {B[r] : r \in ReqId} \ {NoSlot}
           back == freeSlots[k] \cup quarantined[k] \cup Vacated(k, e)
<1>1. B \in Table /\ freeSlots[k] \subseteq Slots /\ quarantined[k] \subseteq Slots
  BY DEF SlotSets
<1>2. /\ Apart(B) /\ freeSlots[k] \cup quarantined[k] \cup taken = Slots
      /\ (freeSlots[k] \cup quarantined[k]) \cap taken = {}
  BY DEF Shares
<1>3. Vacated(k, e) = {B[r] : r \in Gone(e)} \ {NoSlot}
  BY DEF Vacated, Leaving, Gone
<1>4. Staying(B, Gone(e)) = {B[r] : r \in ReqId \ Gone(e)}
  BY DEF Staying
<1>5. back = Slots \ Staying(B, Gone(e))
  <2>1. Vacated(k, e) \subseteq taken
    BY <1>3
  <2>2. \A s \in taken : s \in Vacated(k, e) \/ s \in Staying(B, Gone(e))
    BY <1>3, <1>4
  <2>3. Vacated(k, e) \cap Staying(B, Gone(e)) = {}
    <3> SUFFICES ASSUME NEW r \in Gone(e), NEW q \in ReqId \ Gone(e), B[r] = B[q], B[r] # NoSlot
                 PROVE  FALSE
      BY <1>3, <1>4
    <3> QED BY <1>2 DEF Apart
  <2>4. \A s \in Staying(B, Gone(e)) : s \in taken \/ s = NoSlot
    BY <1>4
  <2>5. NoSlot \notin Slots
    BY SlotsFinite
  <2> HIDE DEF taken, B
  <2> QED BY <1>1, <1>2, <2>1, <2>2, <2>3, <2>4, <2>5
<1>6. ASSUME e.new # <<>> PROVE Open(k, i) = {}
  <2>1. CASE engine.depth > 1
    BY <1>6, <2>1 DEF Open, Joins
  <2>2. CASE ~(engine.depth > 1)
    <3>1. engine.depth = 1
      BY <2>2 DEF QueueTypes, RunnerV2Assumption
    <3>2. Len(steps) \in Nat /\ Len(steps) <= 1
      BY <3>1 DEF QueueTypes, IsList
    <3>3. i = 1 /\ 1 .. i - 1 = {}
      BY <3>2
    <3>4. lingering[k] = {}
      BY <3>1 DEF Told
    <3> QED BY <3>3, <3>4 DEF Open
  <2> QED BY <2>1, <2>2
<1>7. Withheld(k, i) = (quarantined[k] \cup Vacated(k, e)) \cap Open(k, i)
  BY DEF Withheld
<1>8. Available(k, i) = back \ Withheld(k, i)
  BY DEF Available
<1> HIDE DEF back, B
<1> QED BY <1>5, <1>6, <1>7, <1>8 DEF back, B

(* Lists of anything are sequences. *)
LEMMA ListAsSeq ==
  ASSUME NEW s, IsList(s)
  PROVE  /\ s \in Seq({s[i] : i \in 1 .. Len(s)}) /\ DOMAIN s = 1 .. Len(s)
         /\ \A e : s \in Seq({s[i] : i \in 1 .. Len(s)} \cup {e})
<1>1. PICK n \in Nat : n = Len(s)
  BY DEF IsList
<1>2. s = [i \in 1 .. n |-> s[i]]
  BY <1>1 DEF IsList
<1>3. DOMAIN s = 1 .. n
  BY <1>2
<1>4. \A e : s \in [1 .. n -> {s[i] : i \in 1 .. n} \cup {e}]
  BY <1>2, <1>3
<1>5. s \in [1 .. n -> {s[i] : i \in 1 .. n}]
  BY <1>2, <1>3
<1>6. \A S : s \in [1 .. n -> S] => s \in Seq(S)
  BY SeqDef
<1> QED BY <1>1, <1>3, <1>4, <1>5, <1>6

(* Appending. *)
LEMMA ListAppend ==
  ASSUME NEW s, IsList(s), NEW e
  PROVE  LET t == Append(s, e) IN
         /\ IsList(t) /\ Len(t) = Len(s) + 1 /\ DOMAIN t = 1 .. Len(s) + 1
         /\ \A i \in 1 .. Len(s) : t[i] = s[i]
         /\ t[Len(s) + 1] = e
<1> DEFINE S == {s[i] : i \in 1 .. Len(s)} \cup {e}
           t == Append(s, e)
<1>1. s \in Seq(S) /\ e \in S /\ Len(s) \in Nat
  BY ListAsSeq DEF IsList
<1> HIDE DEF S
<1>2. /\ t \in Seq(S) /\ Len(t) = Len(s) + 1
      /\ \A i \in 1 .. Len(s) : t[i] = s[i]
      /\ t[Len(s) + 1] = e
  BY <1>1, AppendProperties
<1>3. DOMAIN t = 1 .. Len(t) /\ Len(t) \in Nat /\ t = [i \in 1 .. Len(t) |-> t[i]]
  BY <1>2, LenProperties
<1> QED BY <1>2, <1>3 DEF IsList

(* Taking the first off. *)
LEMMA ListTail ==
  ASSUME NEW s, IsList(s), s # <<>>
  PROVE  LET t == Tail(s) IN
         /\ IsList(t) /\ Len(s) >= 1 /\ Len(t) = Len(s) - 1 /\ DOMAIN t = 1 .. Len(s) - 1
         /\ \A i \in 1 .. Len(s) - 1 : t[i] = s[i + 1]
<1> DEFINE S == {s[i] : i \in 1 .. Len(s)}
           t == Tail(s)
<1>1. s \in Seq(S) /\ Len(s) \in Nat
  BY ListAsSeq DEF IsList
<1> HIDE DEF S
<1>2. /\ t \in Seq(S) /\ Len(t) = Len(s) - 1
      /\ \A i \in 1 .. Len(t) : t[i] = s[i + 1]
  BY <1>1, HeadTailProperties
<1>3. DOMAIN t = 1 .. Len(t) /\ Len(t) \in Nat /\ t = [i \in 1 .. Len(t) |-> t[i]]
  BY <1>2, LenProperties
<1>4. Len(s) >= 1
  BY <1>1, <1>2, <1>3
<1> QED BY <1>2, <1>3, <1>4 DEF IsList

(* Two lists in a row hold what either holds. *)
LEMMA ConcatSets ==
  ASSUME NEW S, NEW s \in Seq(S), NEW t \in Seq(S)
  PROVE  s \o t \in Seq(S) /\ ToSet(s \o t) = ToSet(s) \cup ToSet(t) /\ Len(s \o t) = Len(s) + Len(t)
<1> DEFINE m == Len(s)
           n == Len(t)
           u == s \o t
<1>1. m \in Nat /\ n \in Nat
  BY LenProperties
<1>2. /\ u \in Seq(S) /\ Len(u) = m + n
      /\ \A i \in 1 .. m + n : u[i] = IF i <= m THEN s[i] ELSE t[i - m]
  BY ConcatProperties
<1>3. /\ ToSet(u) = {u[i] : i \in 1 .. m + n}
      /\ ToSet(s) = {s[i] : i \in 1 .. m} /\ ToSet(t) = {t[i] : i \in 1 .. n}
  BY <1>2, ListMembers
<1> HIDE DEF m, n, u
<1>4. \A i \in 1 .. m + n : (i \in 1 .. m /\ u[i] = s[i]) \/ (i - m \in 1 .. n /\ u[i] = t[i - m])
  BY <1>1, <1>2
<1>5. \A i \in 1 .. m : i \in 1 .. m + n /\ u[i] = s[i]
  BY <1>1, <1>2
<1>6. \A i \in 1 .. n : i + m \in 1 .. m + n /\ u[i + m] = t[i]
  <2> TAKE i \in 1 .. n
  <2>1. i + m \in 1 .. m + n /\ ~(i + m <= m) /\ (i + m) - m = i
    BY <1>1
  <2>2. u[i + m] = IF i + m <= m THEN s[i + m] ELSE t[(i + m) - m]
    BY <1>2, <2>1
  <2> QED BY <2>1, <2>2
<1>7. ToSet(u) \subseteq ToSet(s) \cup ToSet(t)
  BY <1>3, <1>4
<1>8. ToSet(s) \subseteq ToSet(u)
  BY <1>3, <1>5
<1>9. ToSet(t) \subseteq ToSet(u)
  BY <1>3, <1>6
<1> QED BY <1>2, <1>7, <1>8, <1>9 DEF m, n, u

(* At first every slot is free, and the chain is one empty table. *)
LEMMA SlotsInitially == RunnerV2Assumption /\ V2Init => SlotInv
<1> SUFFICES ASSUME RunnerV2Assumption, V2Init PROVE SlotInv
  OBVIOUS
<1> DEFINE B == [r \in ReqId |-> NoSlot]
           U == [i \in 0 .. 0 |-> B]
<1>1. steps = <<>> /\ Len(steps) = 0 /\ IsList(steps) /\ 1 .. Len(steps) = {}
  BY DEF V2Init, IsList
<1>2. engine \in Engines /\ engine.depth \in 1 .. 2
  BY DEF V2Init, RunnerV2Assumption
<1>3. QueueTypes
  BY <1>1, <1>2 DEF QueueTypes
<1>4. Told
  BY <1>1 DEF Told, V2Init
<1>5. B \in Table /\ Apart(B)
  BY DEF Table, Apart
<1>6. SlotSets
  BY <1>5 DEF SlotSets, V2Init
<1>7. Shares
  <2> SUFFICES ASSUME NEW k \in TpRank
               PROVE  LET taken == {slotOf[k][r] : r \in ReqId} \ {NoSlot} IN
                      /\ Apart(slotOf[k])
                      /\ freeSlots[k] \cup quarantined[k] \cup taken = Slots
                      /\ freeSlots[k] \cap quarantined[k] = {}
                      /\ (freeSlots[k] \cup quarantined[k]) \cap taken = {}
    BY DEF Shares
  <2>1. slotOf[k] = B /\ freeSlots[k] = Slots /\ quarantined[k] = {}
    BY DEF V2Init
  <2>2. {B[r] : r \in ReqId} \ {NoSlot} = {}
    OBVIOUS
  <2> QED BY <1>5, <2>1, <2>2
<1>8. Withholds
  BY <1>1 DEF Withholds
<1>9. Chain(U)
  <2>1. U \in [0 .. Len(steps) -> Table] /\ \A i \in 0 .. Len(steps) : U[i] = B
    BY <1>1, <1>5
  <2>2. Planned(U[Len(steps)])
    BY <1>1, <2>1 DEF Planned, V2Init
  <2>3. \A k \in TpRank : slotOf[k] = B
    BY DEF V2Init
  <2> HIDE DEF U, B
  <2> QED BY <1>1, <1>5, <2>1, <2>2, <2>3 DEF Chain
<1> HIDE DEF U
<1> QED BY <1>3, <1>4, <1>6, <1>7, <1>8, <1>9 DEF SlotInv

(* There are as many slots to spare as seats. *)
LEMMA SeatsAreSlots ==
  ASSUME RunnerV2Assumption, NEW F \in Table, Planned(F), NEW e, Gone(e) \subseteq ReqId,
         ended \subseteq Gone(e)
  PROVE  /\ Cardinality(Slots \ Staying(F, Gone(e))) \in Nat /\ Cardinality(Seated) \in Nat
         /\ Cardinality(Seated) + Cardinality(Slots \ Staying(F, Gone(e))) >= MaxNumReqs
<1> DEFINE kept == Slots \cap Staying(F, Gone(e))
<1>1. IsFiniteSet(Seated) /\ Cardinality(Seated) \in Nat
  <2>1. Seated \subseteq ReqId /\ IsFiniteSet(ReqId)
    BY DEF Seated, RunnerV2Assumption
  <2> QED BY <2>1, FS_Subset, FS_CardinalityType
<1>2. \A s \in kept : \E r \in Seated : F[r] = s
  <2> SUFFICES ASSUME NEW r \in ReqId \ Gone(e), F[r] \in Slots PROVE r \in Seated
    BY DEF Staying
  <2>1. F[r] # NoSlot
    BY SlotsFinite
  <2> QED BY <2>1 DEF Planned, Seated
<1>3. PICK h \in [Seated -> Slots \cup {NoSlot}] : \A r \in Seated : h[r] = F[r]
  <2>1. [r \in Seated |-> F[r]] \in [Seated -> Slots \cup {NoSlot}]
    BY DEF Table, Seated
  <2> QED BY <2>1
<1> DEFINE image == {h[r] : r \in Seated}
<1>4. h \in Surjection(Seated, image)
  BY DEF Surjection
<1>5. IsFiniteSet(image) /\ Cardinality(image) <= Cardinality(Seated) /\ Cardinality(image) \in Nat
  <2> HIDE DEF image
  <2> QED BY <1>1, <1>4, FS_Surjection, FS_CardinalityType
<1>6. kept \subseteq image
  BY <1>2, <1>3
<1> HIDE DEF image
<1>7. IsFiniteSet(kept) /\ Cardinality(kept) <= Cardinality(image) /\ Cardinality(kept) \in Nat
  BY <1>5, <1>6, FS_Subset, FS_CardinalityType
<1>8. /\ IsFiniteSet(Slots) /\ Cardinality(Slots) = MaxNumReqs /\ MaxNumReqs \in Nat
      /\ Cardinality(Slots \ Staying(F, Gone(e))) \in Nat
  BY SlotsFinite
<1>9. Cardinality(Slots \ Staying(F, Gone(e))) = Cardinality(Slots) - Cardinality(kept)
  BY <1>8, FS_Difference
<1> HIDE DEF kept
<1> QED BY <1>1, <1>5, <1>7, <1>8, <1>9

(* What a plan makes of the requests, and that a step fits a table, which it  *)
(* carries to one that agrees with the plan.                                *)
Restaged(new, evicted) ==
  /\ stage' = [r \in ReqId |-> IF r \in ToSet(new) THEN "running"
                               ELSE IF r \in evicted THEN "preempted" ELSE stage[r]]
  /\ ended' = {}
Follows(F, e) == Fitting(F, e) /\ (Apart(F) => \A A : A = After(F, e) => Planned(A)')

(* A step the scheduler sends fits the table that will be when it is reached. *)
LEMMA SendFits ==
  ASSUME RunnerV2Assumption, NEW F \in Table, Planned(F),
         NEW new \in Seq(ReqId), NEW old \in Seq(ReqId), NEW evicted \in SUBSET Seated,
         \A r \in ToSet(new) : stage[r] \in {"loaded", "preempted"},
         ToSet(old) \subseteq Seated \ evicted,
         new = <<>> \/ Cardinality(Seated) + Len(new) <= MaxNumReqs,
         NEW e, e.new = new, e.reqs = new \o old, e.finished = ended, e.preempted = evicted,
         Restaged(new, evicted)
  PROVE  Follows(F, e)
<1> USE DEF Restaged, Follows
<1>1. /\ e.reqs \in Seq(ReqId) /\ ToSet(e.reqs) = ToSet(new) \cup ToSet(old)
      /\ ToSet(new) \subseteq ReqId /\ ToSet(old) \subseteq ReqId
  BY ConcatSets, ListMembers
<1>2. Gone(e) = ended \cup evicted /\ Gone(e) \subseteq ReqId /\ ended \subseteq Gone(e)
  BY DEF Gone, Planned, Seated
<1>3. \A r \in ToSet(new) : r \notin ended /\ r \notin Seated /\ F[r] = NoSlot
  BY <1>1 DEF Planned, Seated
<1>4. \A r \in ToSet(old) : r \notin ended /\ r \notin evicted /\ F[r] # NoSlot
  BY <1>1 DEF Planned, Seated
<1>5. ToSet(e.reqs) \cap Gone(e) = {}
  BY <1>1, <1>2, <1>3, <1>4
<1>6. Len(e.new) <= Cardinality(Slots \ Staying(F, Gone(e)))
  <2>1. /\ Cardinality(Slots \ Staying(F, Gone(e))) \in Nat /\ Cardinality(Seated) \in Nat
        /\ Cardinality(Seated) + Cardinality(Slots \ Staying(F, Gone(e))) >= MaxNumReqs
    BY <1>2, SeatsAreSlots
  <2>2. MaxNumReqs \in Nat /\ Len(new) \in Nat /\ Len(<<>>) = 0
    BY SlotsFinite, LenProperties
  <2>3. CASE new = <<>>
    BY <2>1, <2>2, <2>3
  <2>4. CASE Cardinality(Seated) + Len(new) <= MaxNumReqs
    <3> DEFINE c == Cardinality(Seated)
               d == Cardinality(Slots \ Staying(F, Gone(e)))
               l == Len(new)
    <3>1. c \in Nat /\ d \in Nat /\ l \in Nat /\ c + d >= MaxNumReqs /\ c + l <= MaxNumReqs
      BY <2>1, <2>2, <2>4
    <3> HIDE DEF c, d, l
    <3>2. l <= d
      BY <2>2, <3>1
    <3> QED BY <3>2 DEF l, d
  <2> QED BY <2>3, <2>4
<1>7. Fitting(F, e)
  BY <1>1, <1>2, <1>3, <1>4, <1>5, <1>6 DEF Fitting
<1>8. ASSUME Apart(F), NEW A, A = After(F, e) PROVE Planned(A)'
  <2>1. /\ \A r \in ToSet(new) : A[r] \in Slots
        /\ \A r \in ReqId \ ToSet(new) : A[r] = IF r \in Gone(e) THEN NoSlot ELSE F[r]
    BY <1>7, <1>8, AfterPlaces
  <2>2. ASSUME NEW r \in ReqId, stage'[r] = "running" PROVE A[r] # NoSlot
    <3>1. CASE r \in ToSet(new)
      BY <2>1, <3>1, SlotsFinite
    <3>2. CASE r \notin ToSet(new)
      <4>1. stage[r] = "running" /\ r \notin evicted
        BY <2>2, <3>2
      <4>2. r \notin Gone(e) /\ F[r] # NoSlot
        BY <1>2, <4>1 DEF Planned
      <4> QED BY <2>1, <3>2, <4>2
    <3> QED BY <3>1, <3>2
  <2>3. ASSUME NEW r \in ReqId, A[r] # NoSlot PROVE stage'[r] = "running"
    <3>1. CASE r \in ToSet(new)
      BY <3>1
    <3>2. CASE r \notin ToSet(new)
      <4>1. r \notin Gone(e) /\ F[r] # NoSlot
        BY <2>1, <2>3, <3>2
      <4>2. stage[r] = "running" /\ r \notin evicted
        BY <1>2, <4>1 DEF Planned
      <4> QED BY <3>2, <4>2
    <3> QED BY <3>1, <3>2
  <2>4. stage' \in [ReqId -> {"new", "loaded", "running", "preempted", "finished"}]
    BY DEF Planned
  <2> QED BY <2>2, <2>3, <2>4 DEF Planned
<1> QED BY <1>7, <1>8

(* Sending a step keeps the invariant: no rank has seen it. *)
LEMMA SendKeeps ==
  ASSUME RunnerV2Assumption, SlotInv, Len(steps) < engine.depth,
         NEW new \in Seq(ReqId), NEW old \in Seq(ReqId), NEW evicted \in SUBSET Seated,
         \A r \in ToSet(new) : stage[r] \in {"loaded", "preempted"},
         ToSet(old) \subseteq Seated \ evicted,
         new = <<>> \/ Cardinality(Seated) + Len(new) <= MaxNumReqs,
         NEW size, NEW prompt, Send(new, old, size, prompt, evicted)
  PROVE  SlotInv'
<1>1. PICK e : /\ steps' = Append(steps, e) /\ StepFields \subseteq DOMAIN e
               /\ e.new = new /\ e.reqs = new \o old
               /\ e.finished = ended /\ e.preempted = evicted
               /\ e.ranks = {} /\ e.chosen = [k \in TpRank |-> <<>>] /\ e.fenced = {}
               /\ e.ran \in BOOLEAN /\ e.read = FALSE
  <2> DEFINE given == Given(new \o old, [r \in ToSet(new \o old) |-> counted[r] + size[r]], evicted)
             e == StepFor(new, old, size, prompt, given, evicted)
  <2>1. steps' = Append(steps, e)
    BY DEF Send
  <2> HIDE DEF given
  <2>2. /\ e.new = new /\ e.reqs = new \o old
        /\ e.finished = ended /\ e.preempted = evicted
        /\ e.ranks = {} /\ e.chosen = [k \in TpRank |-> <<>>] /\ e.fenced = {}
        /\ e.ran \in BOOLEAN /\ e.read = FALSE
    BY DEF StepFor
  <2>3. StepFields \subseteq DOMAIN e
    BY DEF StepFor, StepFields
  <2> HIDE DEF e
  <2> QED BY <2>1, <2>2, <2>3
<1>2. /\ stage' = [r \in ReqId |-> IF r \in ToSet(new) THEN "running"
                                   ELSE IF r \in evicted THEN "preempted" ELSE stage[r]]
      /\ ended' = {} /\ engine' = engine /\ slotOf' = slotOf /\ freeSlots' = freeSlots
      /\ quarantined' = quarantined /\ lingering' = lingering
  BY DEF Send, hostState
<1>3. QueueTypes /\ Told /\ SlotSets /\ Shares /\ Withholds
  BY DEF SlotInv
<1>4. PICK T : Chain(T)
  BY DEF SlotInv
<1>5. PICK n \in Nat : n = Len(steps)
  BY <1>3 DEF QueueTypes, IsList
<1>6. n \in Nat /\ n = Len(steps) /\ IsList(steps) /\ engine.depth \in 1 .. 2
  BY <1>3, <1>5 DEF QueueTypes, RunnerV2Assumption
<1>7. /\ IsList(steps') /\ Len(steps') = n + 1
      /\ \A i \in 1 .. n : steps'[i] = steps[i]
      /\ steps'[n + 1] = e
  BY <1>1, <1>6, ListAppend
<1>8. \A i \in 1 .. n + 1 : i \in 1 .. n \/ i = n + 1
  BY <1>6
<1>9. QueueTypes'
  <2>1. n + 1 <= engine.depth
    BY <1>6
  <2> QED BY <1>1, <1>2, <1>3, <1>7, <1>8, <2>1, <1>6 DEF QueueTypes
<1>10. Told'
  <2>1. ASSUME NEW i \in 1 .. n + 1, NEW j \in 1 .. n + 1, i < j
        PROVE  steps'[j].ranks \subseteq steps'[i].ranks
    <3>1. CASE j = n + 1
      BY <1>1, <1>7, <3>1
    <3>2. CASE j \in 1 .. n
      <4>1. i \in 1 .. n
        BY <1>6, <2>1, <3>2
      <4> QED BY <1>3, <1>7, <2>1, <3>2, <4>1, <1>6 DEF Told
    <3> QED BY <1>8, <3>1, <3>2
  <2>2. ASSUME NEW i \in 1 .. n + 1
        PROVE  /\ steps'[i].read => steps'[i].ran /\ steps'[i].ranks = TpRank
               /\ steps'[i].fenced # {} => steps'[i].ran
               /\ steps'[i].read /\ engine.depth = 1 => steps'[i].fenced = TpRank
    <3>1. CASE i = n + 1
      <4>1. steps'[i] = e
        BY <1>7, <3>1
      <4> QED BY <1>1, <4>1
    <3>2. CASE i \in 1 .. n
      <4>1. steps'[i] = steps[i] /\ i \in 1 .. Len(steps)
        BY <1>6, <1>7, <3>2
      <4> QED BY <1>3, <4>1 DEF Told
    <3> QED BY <1>8, <3>1, <3>2
  <2>3. engine.depth = 1 => \A k \in TpRank : lingering[k] = {}
    BY <1>3 DEF Told
  <2>4. engine' = engine /\ lingering' = lingering
    BY <1>2
  <2>5. /\ \A i, j \in 1 .. Len(steps') : i < j => steps'[j].ranks \subseteq steps'[i].ranks
        /\ \A i \in 1 .. Len(steps') :
             /\ steps'[i].read => steps'[i].ran /\ steps'[i].ranks = TpRank
             /\ steps'[i].fenced # {} => steps'[i].ran
             /\ steps'[i].read /\ engine.depth = 1 => steps'[i].fenced = TpRank
    BY <1>7, <2>1, <2>2
  <2> QED BY <2>3, <2>4, <2>5 DEF Told
<1>11. SlotSets' /\ Shares'
  BY <1>2, <1>3 DEF SlotSets, Shares
<1>12. Withholds'
  <2> SUFFICES ASSUME NEW i \in 1 .. n + 1, NEW k \in steps'[i].ranks \ steps'[i].fenced
               PROVE  freeSlots[k] \cap SlotsOf(steps'[i], k) = {}
    BY <1>2, <1>7, <1>6 DEF Withholds
  <2>1. i \in 1 .. n
    BY <1>1, <1>7, <1>8
  <2> QED BY <1>3, <1>7, <2>1, <1>6 DEF Withholds
<1>13. T \in [0 .. n -> Table] /\ T[n] \in Table /\ Apart(T[n]) /\ Planned(T[n])
  BY <1>4, <1>6 DEF Chain
<1>14. PICK A : A = After(T[n], e)
  OBVIOUS
<1>15. Fitting(T[n], e) /\ Planned(A)'
  <2>1. PICK F : F = T[n]
    OBVIOUS
  <2>2. F \in Table /\ Planned(F) /\ Apart(F) /\ A = After(F, e)
    BY <1>13, <1>14, <2>1
  <2>3. e.new = new /\ e.reqs = new \o old /\ e.finished = ended /\ e.preempted = evicted
    BY <1>1
  <2>4. Fitting(F, e) /\ Planned(A)'
    <3>1. Restaged(new, evicted)
      BY <1>2 DEF Restaged
    <3>2. Follows(F, e)
      BY <2>2, <2>3, <3>1, SendFits
    <3> QED BY <2>2, <3>2 DEF Follows
  <2>5. Fitting(T[n], e)
    BY Zenon, <2>1, <2>4
  <2> QED BY Zenon, <2>4, <2>5
<1>16. A \in Table /\ Apart(A)
  BY <1>13, <1>15, <1>14, AfterPlaces
<1>17. PICK U : U = [i \in 0 .. n + 1 |-> IF i = n + 1 THEN A ELSE T[i]]
  OBVIOUS
<1>18. /\ \A i \in 0 .. n : i \in 0 .. n + 1 /\ U[i] = T[i]
       /\ U[n + 1] = A /\ U \in [0 .. n + 1 -> Table]
       /\ \A i \in 0 .. n + 1 : i \in 0 .. n \/ i = n + 1
  <2>1. \A i \in 0 .. n + 1 : i \in 0 .. n \/ i = n + 1
    BY <1>6
  <2>2. \A i \in 0 .. n : i \in 0 .. n + 1 /\ i # n + 1
    BY <1>6
  <2>3. n + 1 \in 0 .. n + 1
    BY <1>6
  <2> QED BY <1>13, <1>16, <1>17, <2>1, <2>2, <2>3
<1>19. Chain(U)'
  <2>1. \A i \in 0 .. n + 1 : Apart(U[i])
    BY <1>4, <1>16, <1>18, <1>6 DEF Chain
  <2>2. ASSUME NEW i \in 1 .. n + 1
        PROVE  Fitting(U[i - 1], steps'[i]) /\ U[i] = After(U[i - 1], steps'[i])
    <3>1. CASE i = n + 1
      <4>1. U[i - 1] = T[n]
        BY <1>6, <1>18, <3>1
      <4> QED BY <1>7, <1>15, <1>18, <1>14, <3>1, <4>1
    <3>2. CASE i \in 1 .. n
      <4>1. i - 1 \in 0 .. n /\ i \in 0 .. n
        BY <1>6, <3>2
      <4> QED BY <1>4, <1>7, <1>18, <3>2, <4>1, <1>6 DEF Chain
    <3> QED BY <1>8, <3>1, <3>2
  <2>3. ASSUME NEW k \in TpRank, NEW i \in 0 .. n + 1, Reached(k, i)'
        PROVE  slotOf[k] = U[i]
    <3>1. CASE i = n + 1
      <4>1. k \in steps'[n + 1].ranks
        BY <1>6, <2>3, <3>1 DEF Reached
      <4> QED BY <1>1, <1>7, <4>1
    <3>2. CASE i \in 0 .. n
      <4>1. i >= 1 => i \in 1 .. n
        BY <1>6, <3>2
      <4>2. i < n => i + 1 \in 1 .. n /\ i < n + 1
        BY <1>6, <3>2
      <4>3. Reached(k, i)
        BY <1>7, <2>3, <4>1, <4>2, <1>6 DEF Reached
      <4> QED BY <1>4, <1>18, <3>2, <4>3, <1>6 DEF Chain
    <3> QED BY <1>18, <3>1, <3>2
  <2>4. ASSUME NEW i \in 1 .. n + 1, NEW k \in steps'[i].ranks
        PROVE  steps'[i].chosen[k] = SeatsOf(U[i], steps'[i].reqs)
    <3>1. i \in 1 .. n /\ i \in 0 .. n
      BY <1>1, <1>6, <1>7, <1>8
    <3>2. steps[i].chosen[k] = SeatsOf(T[i], steps[i].reqs)
      BY <1>4, <1>6, <1>7, <2>4, <3>1 DEF Chain
    <3>3. steps'[i] = steps[i] /\ U[i] = T[i]
      BY <1>7, <1>18, <3>1
    <3> QED BY <3>2, <3>3
  <2>5. Planned(U[n + 1])'
    BY <1>15, <1>18
  <2> QED BY <1>2, <1>7, <1>18, <2>1, <2>2, <2>3, <2>4, <2>5, <1>6 DEF Chain
<1> QED BY <1>9, <1>10, <1>11, <1>12, <1>19 DEF SlotInv

(* A list with other entries in the same places. *)
LEMMA ListMapped ==
  ASSUME NEW s, IsList(s), NEW t, t = [i \in 1 .. Len(s) |-> t[i]]
  PROVE  IsList(t) /\ Len(t) = Len(s) /\ DOMAIN t = 1 .. Len(s)
<1>1. PICK n \in Nat : n = Len(s)
  BY DEF IsList
<1> DEFINE S == {t[i] : i \in 1 .. n}
<1>2. DOMAIN t = 1 .. n /\ t \in [1 .. n -> S]
  BY <1>1
<1>3. t \in Seq(S)
  BY <1>2, SeqDef
<1> HIDE DEF S
<1>4. DOMAIN t = 1 .. Len(t) /\ Len(t) \in Nat
  BY <1>3, LenProperties
<1>5. Len(t) = n
  <2>1. CASE n = 0
    <3>1. 1 .. Len(t) = {}
      BY <1>2, <1>4, <2>1
    <3> QED BY <1>4, <2>1, <3>1
  <2>2. CASE n # 0
    <3>1. n \in 1 .. Len(t)
      BY <1>2, <1>4, <2>2
    <3>2. Len(t) \in 1 .. n
      BY <1>2, <1>4, <3>1
    <3> QED BY <1>4, <3>1, <3>2
  <2> QED BY <2>1, <2>2
<1> QED BY <1>1, <1>2, <1>5 DEF IsList

(* What a rank does, or the device, leaves the tables of the others alone. *)
LEMMA ChainKept ==
  ASSUME RunnerV2Assumption, QueueTypes, NEW T, Chain(T), Len(steps') = Len(steps),
         \A i \in 1 .. Len(steps) :
           /\ steps'[i].new = steps[i].new /\ steps'[i].reqs = steps[i].reqs
           /\ steps'[i].finished = steps[i].finished /\ steps'[i].preempted = steps[i].preempted
           /\ steps'[i].ranks = steps[i].ranks /\ steps'[i].chosen = steps[i].chosen,
         slotOf' = slotOf, ended' = ended,
         stage' \in [ReqId -> {"new", "loaded", "running", "preempted", "finished"}],
         \A r \in ReqId : stage'[r] = stage[r] \/ (stage[r] = "new" /\ stage'[r] = "loaded")
  PROVE  Chain(T)'
<1>1. PICK n \in Nat : n = Len(steps)
  BY DEF QueueTypes, IsList
<1>2. /\ T \in [0 .. n -> Table]
      /\ \A i \in 0 .. n : Apart(T[i])
  BY <1>1 DEF Chain
<1>3. ASSUME NEW i \in 1 .. n
      PROVE  Fitting(T[i - 1], steps'[i]) /\ T[i] = After(T[i - 1], steps'[i])
  <2>1. PICK e : e = steps[i]
    OBVIOUS
  <2>2. PICK f : f = steps'[i]
    OBVIOUS
  <2>3. /\ f.new = e.new /\ f.reqs = e.reqs
        /\ f.finished = e.finished /\ f.preempted = e.preempted
    BY <1>1, <2>1, <2>2
  <2>4. Fitting(T[i - 1], e) /\ T[i] = After(T[i - 1], e)
    BY <1>1, <2>1 DEF Chain
  <2>5. Gone(f) = Gone(e)
    BY <2>3 DEF Gone
  <2>6. After(T[i - 1], f) = After(T[i - 1], e)
    BY <2>3, <2>5 DEF After
  <2>7. Fitting(T[i - 1], f)
    BY <2>3, <2>4, <2>5 DEF Fitting
  <2> QED BY <2>2, <2>4, <2>6, <2>7
<1>4. ASSUME NEW k \in TpRank, NEW i \in 0 .. n, Reached(k, i)' PROVE slotOf'[k] = T[i]
  <2>1. (i >= 1 => i \in 1 .. n) /\ (i < n => i + 1 \in 1 .. n)
    OBVIOUS
  <2>2. Reached(k, i)
    BY <1>1, <1>4, <2>1 DEF Reached
  <2> QED BY <1>1, <2>2 DEF Chain
<1>5. \A i \in 1 .. n : \A k \in steps'[i].ranks :
        steps'[i].chosen[k] = SeatsOf(T[i], steps'[i].reqs)
  <2> TAKE i \in 1 .. n
  <2>1. PICK e : e = steps[i]
    OBVIOUS
  <2>2. PICK f : f = steps'[i]
    OBVIOUS
  <2>3. f.reqs = e.reqs /\ f.ranks = e.ranks /\ f.chosen = e.chosen
    BY <1>1, <2>1, <2>2
  <2>4. \A k \in e.ranks : e.chosen[k] = SeatsOf(T[i], e.reqs)
    BY <1>1, <2>1 DEF Chain
  <2>5. \A k \in f.ranks : f.chosen[k] = SeatsOf(T[i], f.reqs)
    BY <2>3, <2>4
  <2> QED BY <2>2, <2>5
<1>6. Planned(T[n])'
  <2>1. PICK B : B = T[n]
    OBVIOUS
  <2>2. Planned(B)
    BY <1>1, <2>1 DEF Chain
  <2>3. Planned(B)'
    BY <2>2 DEF Planned
  <2> QED BY <2>1, <2>3
<1> QED BY <1>1, <1>2, <1>3, <1>4, <1>5, <1>6 DEF Chain

(* Finding a prefix moves no slot. *)
LEMMA LoadKeeps ==
  ASSUME RunnerV2Assumption, SlotInv, NEW r \in ReqId, Load(r)
  PROVE  SlotInv'
<1>1. /\ stage[r] = "new" /\ stage' = [stage EXCEPT ![r] = "loaded"]
      /\ UNCHANGED <<engine, ended, steps, slotOf, freeSlots, quarantined, lingering>>
  BY DEF Load, hostState
<1>2. QueueTypes /\ Told /\ SlotSets /\ Shares /\ Withholds
  BY DEF SlotInv
<1>3. QueueTypes' /\ Told' /\ SlotSets' /\ Shares' /\ Withholds'
  BY SMTT(30), <1>1, <1>2 DEF QueueTypes, Told, SlotSets, Shares, Withholds, SlotsOf
<1>4. PICK T : Chain(T)
  BY DEF SlotInv
<1>5. stage \in [ReqId -> {"new", "loaded", "running", "preempted", "finished"}]
  BY <1>4 DEF Chain, Planned
<1>6. /\ stage' \in [ReqId -> {"new", "loaded", "running", "preempted", "finished"}]
      /\ \A q \in ReqId : stage'[q] = stage[q] \/ (stage[q] = "new" /\ stage'[q] = "loaded")
  BY <1>1, <1>5
<1>7. Chain(T)'
  BY <1>1, <1>2, <1>4, <1>6, ChainKept
<1> QED BY <1>3, <1>7 DEF SlotInv

(* All the scheduler does: who gets a seat finds a slot when it is due. *)
LEMMA PlanKeeps ==
  ASSUME RunnerV2Assumption, SlotInv, PlanSteps
  PROVE  SlotInv'
<1>1. PICK T : Chain(T)
  BY DEF SlotInv
<1>2. /\ stage \in [ReqId -> {"new", "loaded", "running", "preempted", "finished"}]
      /\ IsFiniteSet(ReqId) /\ <<>> \in Seq(ReqId) /\ ToSet(<<>>) = {}
      /\ {} \in SUBSET Seated
  BY <1>1, EmptyList DEF Chain, Planned, RunnerV2Assumption
<1>3. /\ DecodeReady \subseteq Seated /\ Prefilling \subseteq Seated /\ Seated \subseteq ReqId
      /\ \A S \in SUBSET ReqId : IsFiniteSet(S)
  BY <1>2, FS_Subset DEF DecodeReady, Seated, Prefilling
<1>4. \A q \in ReqId : CanAdmit(q) => stage[q] \in {"loaded", "preempted"}
                                      /\ Cardinality(Seated) + 1 <= MaxNumReqs
  <2>1. Cardinality(Seated) \in Nat /\ MaxNumReqs \in Nat
    BY <1>3, FS_CardinalityType, SlotsFinite
  <2> QED BY <2>1 DEF CanAdmit
<1>5. ASSUME NEW S \in SUBSET ReqId
      PROVE  SetToSeq(S) \in Seq(ReqId) /\ Len(SetToSeq(S)) = Cardinality(S) /\ ToSet(SetToSeq(S)) \subseteq S
  <2>1. SetToSeq(S) \in Seq(S) /\ Len(SetToSeq(S)) = Cardinality(S) /\ ToSet(SetToSeq(S)) \subseteq S
    BY <1>3, SetAsList
  <2> QED BY <2>1, SeqMonotonic
<1>6. ASSUME NEW r \in ReqId, SchedulePrompt(r) PROVE SlotInv'
  <2>1. /\ <<r>> \in Seq(ReqId) /\ Len(<<r>>) = 1 /\ ToSet(<<r>>) = {r}
    <3>1. <<r>> \in Seq(ReqId) /\ Len(<<r>>) = 1
      OBVIOUS
    <3>2. <<r>>[1] = r /\ DOMAIN <<r>> = {1}
      OBVIOUS
    <3>3. ToSet(<<r>>) = {r}
      BY <3>2 DEF ToSet
    <3> QED BY <3>1, <3>3
  <2>2. Len(steps) < engine.depth /\ PromptReady(r)
    BY <1>6 DEF SchedulePrompt
  <2>3. CASE stage[r] = "running"
    <3>1. Send(<<>>, <<r>>, [q \in {r} |-> ChunkOf(r)], TRUE, {})
      BY <1>6, <2>3 DEF SchedulePrompt
    <3>2. ToSet(<<r>>) \subseteq Seated \ {}
      BY <2>1, <2>3 DEF Seated
    <3> QED BY <1>2, <2>1, <2>2, <3>1, <3>2, SendKeeps
  <2>4. CASE stage[r] # "running"
    <3>1. Send(<<r>>, <<>>, [q \in {r} |-> ChunkOf(r)], TRUE, {})
      BY <1>6, <2>4 DEF SchedulePrompt
    <3>2. CanAdmit(r)
      BY <2>2, <2>4 DEF PromptReady, Prefilling, Seated
    <3>3. /\ \A q \in ToSet(<<r>>) : stage[q] \in {"loaded", "preempted"}
          /\ Cardinality(Seated) + Len(<<r>>) <= MaxNumReqs
      BY <1>4, <2>1, <3>2
    <3>4. ToSet(<<>>) \subseteq Seated \ {}
      BY <1>2
    <3> QED BY <1>2, <2>1, <2>2, <3>1, <3>3, <3>4, SendKeeps
  <2> QED BY <2>3, <2>4
<1>7. ASSUME ScheduleDecodes PROVE SlotInv'
  <2> DEFINE one == [r \in ReqId |-> 1]
  <2>1. Len(steps) < engine.depth
    BY <1>7 DEF ScheduleDecodes
  <2>2. ASSUME NEW new \in SUBSET {r \in ReqId : CanAdmit(r) /\ Pulled(r)},
               Cardinality(Seated) + Cardinality(new) <= MaxNumReqs,
               Send(SetToSeq(new), SetToSeq(DecodeReady), one, FALSE, {})
        PROVE  SlotInv'
    <3>1. /\ SetToSeq(new) \in Seq(ReqId) /\ Len(SetToSeq(new)) = Cardinality(new)
          /\ ToSet(SetToSeq(new)) \subseteq new
      BY <1>5
    <3>2. SetToSeq(DecodeReady) \in Seq(ReqId) /\ ToSet(SetToSeq(DecodeReady)) \subseteq Seated \ {}
      BY <1>3, <1>5
    <3>3. \A r \in ToSet(SetToSeq(new)) : stage[r] \in {"loaded", "preempted"}
      BY <1>4, <3>1
    <3> HIDE DEF one
    <3> QED BY <1>2, <2>1, <2>2, <3>1, <3>2, <3>3, SendKeeps
  <2>3. ASSUME NEW victim \in Seated,
               Send(<<>>, SetToSeq(DecodeReady \ {victim}), one, FALSE, {victim})
        PROVE  SlotInv'
    <3>1. /\ SetToSeq(DecodeReady \ {victim}) \in Seq(ReqId)
          /\ ToSet(SetToSeq(DecodeReady \ {victim})) \subseteq Seated \ {victim}
      BY <1>3, <1>5
    <3>2. {victim} \in SUBSET Seated
      OBVIOUS
    <3> HIDE DEF one
    <3> QED BY <1>2, <2>1, <2>3, <3>1, <3>2, SendKeeps
  <2> HIDE DEF one
  <2> QED BY <1>7, <2>2, <2>3 DEF ScheduleDecodes, one
<1>8. ASSUME ScheduleNothing PROVE SlotInv'
  <2>1. Len(steps) < engine.depth /\ Send(<<>>, <<>>, <<>>, FALSE, {})
    BY <1>8 DEF ScheduleNothing
  <2>2. ToSet(<<>>) \subseteq Seated \ {}
    BY <1>2
  <2> QED BY <1>2, <2>1, <2>2, SendKeeps
<1> QED BY <1>6, <1>7, <1>8, LoadKeeps DEF PlanSteps

(* Admitting, a rank comes to the table that is due. *)
LEMMA PlacedAsDue ==
  ASSUME RunnerV2Assumption, QueueTypes, Told, SlotSets, Shares,
         NEW k \in TpRank, NEW i \in 1 .. Len(steps), Fitting(slotOf[k], steps[i])
  PROVE  Placed(k, i) = After(slotOf[k], steps[i])
<1> DEFINE e == steps[i]
           B == slotOf[k]
<1>1. B \in Table /\ Gone(e) \subseteq ReqId /\ e.new \in Seq(ReqId)
  BY DEF SlotSets, Fitting
<1>2. \A r \in ReqId : r \in Leaving(k, e) <=> r \in Gone(e) /\ B[r] # NoSlot
  BY DEF Leaving, Gone
<1>3. \A r \in ReqId : (IF r \in Leaving(k, e) THEN NoSlot ELSE B[r])
                       = (IF r \in Gone(e) THEN NoSlot ELSE B[r])
  BY <1>2
<1>4. CASE e.new = <<>>
  <2>1. ToSet(e.new) = {}
    BY <1>4, EmptyList
  <2>2. Placed(k, i) = [r \in ReqId |-> IF r \in Leaving(k, e) THEN NoSlot ELSE B[r]]
    BY <2>1 DEF Placed
  <2>3. After(B, e) = [r \in ReqId |-> IF r \in Gone(e) THEN NoSlot ELSE B[r]]
    BY <2>1 DEF After, Reseated
  <2> HIDE DEF e, B
  <2>4. Placed(k, i) = After(B, e)
    BY <1>3, <2>2, <2>3
  <2> QED BY <2>4 DEF e, B
<1>5. CASE e.new # <<>>
  <2>1. Available(k, i) = Slots \ Staying(B, Gone(e))
    BY <1>1, <1>5, AvailableSlots
  <2> DEFINE order == Ascending(Slots \ Staying(B, Gone(e)))
             at(r) == order[CHOOSE j \in DOMAIN e.new : e.new[j] = r]
  <2>2. Placed(k, i) = [r \in ReqId |-> IF r \in ToSet(e.new) THEN at(r)
                                        ELSE IF r \in Leaving(k, e) THEN NoSlot ELSE B[r]]
    BY <2>1 DEF Placed
  <2>3. After(B, e) = [r \in ReqId |-> IF r \in ToSet(e.new) THEN at(r)
                                       ELSE IF r \in Gone(e) THEN NoSlot ELSE B[r]]
    BY DEF After, Reseated
  <2> HIDE DEF e, B, at
  <2>4. Placed(k, i) = After(B, e)
    BY <1>3, <2>2, <2>3
  <2> QED BY <2>4 DEF e, B
<1> QED BY <1>4, <1>5

(* A step as it is when rank k has submitted it. *)
LEMMA SubmittedStep ==
  ASSUME NEW k \in TpRank, NEW e, StepFields \subseteq DOMAIN e, DOMAIN e.chosen = TpRank, NEW place
  PROVE  \A f : f = Submitted(e, k, place) =>
                /\ StepFields \subseteq DOMAIN f
                /\ f.new = e.new /\ f.reqs = e.reqs
                /\ f.finished = e.finished /\ f.preempted = e.preempted
                /\ f.ran = e.ran /\ f.read = e.read
                /\ f.ranks = e.ranks \cup {k} /\ f.fenced = e.fenced
                /\ DOMAIN f.chosen = TpRank
                /\ f.chosen[k] = SeatsOf(place, e.reqs)
                /\ \A m \in TpRank : m # k => f.chosen[m] = e.chosen[m]
<1>1. PICK X : Submitted(e, k, place) =
                 [e EXCEPT !.ranks = @ \cup {k},
                           !.chosen[k] = [r \in ToSet(e.reqs) |-> place[r]], !.rows = X]
  BY DEF Submitted
<1>2. PICK C : C = [r \in ToSet(e.reqs) |-> place[r]]
  OBVIOUS
<1> TAKE f
<1>3. HAVE f = Submitted(e, k, place)
<1>4. f = [e EXCEPT !.ranks = @ \cup {k}, !.chosen[k] = C, !.rows = X]
  BY <1>1, <1>2, <1>3
<1>5. /\ StepFields \subseteq DOMAIN f
      /\ f.new = e.new /\ f.reqs = e.reqs
      /\ f.finished = e.finished /\ f.preempted = e.preempted
      /\ f.ran = e.ran /\ f.read = e.read
      /\ f.ranks = e.ranks \cup {k} /\ f.fenced = e.fenced
      /\ DOMAIN f.chosen = TpRank
      /\ f.chosen[k] = C
      /\ \A m \in TpRank : m # k => f.chosen[m] = e.chosen[m]
  BY <1>4 DEF StepFields
<1> QED BY <1>2, <1>5 DEF SeatsOf

(* update_states and execute_model of one rank: its table becomes the next of *)
(* the chain, and what it withholds are the slots of the graphs it has not  *)
(* been told about.                                                        *)
LEMMA ExecuteKeeps ==
  ASSUME RunnerV2Assumption, SlotInv, NEW k \in TpRank, ExecuteModel(k)
  PROVE  SlotInv'
<1>1. QueueTypes /\ Told /\ SlotSets /\ Shares /\ Withholds
  BY DEF SlotInv
<1>2. PICK T : Chain(T)
  BY DEF SlotInv
<1>3. PICK n \in Nat : n = Len(steps)
  BY <1>1 DEF QueueTypes, IsList
<1>4. DOMAIN steps = 1 .. n
  BY <1>1, <1>3, ListAsSeq DEF QueueTypes
<1>5. PICK i \in DOMAIN steps :
        /\ k \notin steps[i].ranks /\ \A j \in 1 .. i - 1 : k \in steps[j].ranks
        /\ Joins(steps[i]) => \A j \in 1 .. i - 1 : steps[j].ran
        /\ slotOf' = [slotOf EXCEPT ![k] = Placed(k, i)]
        /\ freeSlots' = [freeSlots EXCEPT ![k] =
                           Available(k, i) \ {Placed(k, i)[r] : r \in ToSet(steps[i].new)}]
        /\ quarantined' = [quarantined EXCEPT ![k] = Withheld(k, i)]
        /\ lingering' = [lingering EXCEPT ![k] = IF Joins(steps[i]) THEN {} ELSE @]
        /\ steps' = [j \in DOMAIN steps |->
                       IF j = i THEN Submitted(steps[i], k, Placed(k, i))
                       ELSE IF j < i /\ Joins(steps[i]) THEN [steps[j] EXCEPT !.fenced = @ \cup {k}]
                       ELSE steps[j]]
        /\ UNCHANGED <<engine, plan>>
  BY DEF ExecuteModel
<1>6. /\ i \in 1 .. n /\ i \in 1 .. Len(steps) /\ i - 1 \in 0 .. n /\ i \in 0 .. n
      /\ (i - 1 >= 1 => i - 1 \in 1 .. i - 1) /\ i - 1 + 1 = i
  BY <1>3, <1>4
<1>7. /\ engine' = engine /\ stage' = stage /\ ended' = ended
  BY <1>5 DEF plan
(* The step, the table before and after it, and the slots it gives. *)
<1>8. PICK e : e = steps[i]
  OBVIOUS
<1>9. PICK B : B = slotOf[k]
  OBVIOUS
<1>10. PICK F : F = T[i]
  OBVIOUS
<1>11. PICK joins \in BOOLEAN : joins <=> Joins(steps[i])
  BY DEF Joins
<1>12. PICK placed : placed = {F[r] : r \in ToSet(e.new)}
  OBVIOUS
<1>13. PICK S : S = Staying(B, Gone(e))
  OBVIOUS
<1>14. PICK A : A = Available(k, i)
  OBVIOUS
<1>15. PICK W : W = Withheld(k, i)
  OBVIOUS
<1>16. Reached(k, i - 1)
  <2>1. i - 1 >= 1 => k \in steps[i - 1].ranks
    BY <1>5, <1>6
  <2>2. k \notin steps[i - 1 + 1].ranks
    BY <1>5, <1>6
  <2> QED BY <2>1, <2>2 DEF Reached
<1>17. B = T[i - 1] /\ Fitting(B, e) /\ F = After(B, e) /\ F \in Table /\ Apart(F)
  BY <1>2, <1>3, <1>6, <1>8, <1>9, <1>10, <1>16 DEF Chain
<1>18. B \in Table /\ Apart(B) /\ Gone(e) \subseteq ReqId
  <2>1. B \in Table
    BY <1>1, <1>9 DEF SlotSets
  <2>2. Apart(B)
    BY <1>1, <1>9 DEF Shares
  <2>3. Gone(e) \subseteq ReqId
    BY <1>17 DEF Fitting
  <2> QED BY <2>1, <2>2, <2>3
<1>19. Placed(k, i) = F
  BY <1>1, <1>6, <1>8, <1>9, <1>17, PlacedAsDue
<1>20. /\ \A r \in ToSet(e.new) : F[r] \in Slots \ S
       /\ \A r \in ReqId \ ToSet(e.new) : F[r] = IF r \in Gone(e) THEN NoSlot ELSE B[r]
       /\ \A r \in ToSet(e.reqs) : r \in ReqId /\ F[r] # NoSlot
       /\ ToSet(e.new) \subseteq ReqId
  <2>1. LET G == After(B, e) IN
        /\ \A r \in ToSet(e.new) : G[r] \in Slots \ Staying(B, Gone(e))
        /\ \A r \in ReqId \ ToSet(e.new) : G[r] = IF r \in Gone(e) THEN NoSlot ELSE B[r]
        /\ \A r \in ToSet(e.reqs) : r \in ReqId /\ G[r] # NoSlot
        /\ ToSet(e.new) \subseteq ReqId
    BY <1>17, <1>18, AfterPlaces
  <2> QED BY <1>13, <1>17, <2>1
<1>21. /\ W = (quarantined[k] \cup Vacated(k, e)) \cap Open(k, i)
       /\ A = (freeSlots[k] \cup quarantined[k] \cup Vacated(k, e)) \ W
       /\ A \cup W = Slots \ S
       /\ (e.new # <<>> => A = Slots \ S)
  <2>1. LET back == freeSlots[k] \cup quarantined[k] \cup Vacated(k, steps[i]) IN
        /\ Withheld(k, i) = (quarantined[k] \cup Vacated(k, steps[i])) \cap Open(k, i)
        /\ Available(k, i) = back \ Withheld(k, i)
        /\ back = Slots \ Staying(slotOf[k], Gone(steps[i]))
        /\ steps[i].new # <<>> =>
             Withheld(k, i) = {} /\ Available(k, i) = Slots \ Staying(slotOf[k], Gone(steps[i]))
    BY <1>1, <1>6, <1>8, <1>18, AvailableSlots
  <2>2. W \subseteq freeSlots[k] \cup quarantined[k] \cup Vacated(k, e)
    BY <1>8, <1>15, <2>1
  <2> QED BY <1>8, <1>9, <1>13, <1>14, <1>15, <2>1, <2>2
<1>22. placed \subseteq A
  <2>1. CASE e.new = <<>>
    BY <1>12, <2>1, EmptyList
  <2>2. CASE e.new # <<>>
    BY <1>12, <1>20, <1>21, <2>2
  <2> QED BY <2>1, <2>2
<1>23. {F[r] : r \in ReqId} \ {NoSlot} = placed \cup (S \ {NoSlot})
  <2>1. ASSUME NEW r \in ReqId, F[r] # NoSlot PROVE F[r] \in placed \cup S
    <3>1. CASE r \in ToSet(e.new)
      BY <1>12, <3>1
    <3>2. CASE r \notin ToSet(e.new)
      <4>1. r \notin Gone(e) /\ F[r] = B[r]
        BY <1>20, <2>1, <3>2
      <4> QED BY <1>13, <4>1 DEF Staying
    <3> QED BY <3>1, <3>2
  <2>2. ASSUME NEW r \in ReqId \ Gone(e), B[r] # NoSlot PROVE B[r] = F[r]
    <3>1. r \notin ToSet(e.new)
      BY <1>17, <2>2 DEF Fitting
    <3> QED BY <1>20, <3>1
  <2>3. \A s \in S \ {NoSlot} : \E r \in ReqId : s = F[r]
    BY <1>13, <2>2 DEF Staying
  <2>4. \A s \in placed : s # NoSlot /\ \E r \in ReqId : s = F[r]
    BY <1>12, <1>20, SlotsFinite
  <2> QED BY <2>1, <2>3, <2>4
(* The ranks' slots. *)
<1>24. /\ slotOf' = [slotOf EXCEPT ![k] = F]
       /\ freeSlots' = [freeSlots EXCEPT ![k] = A \ placed]
       /\ quarantined' = [quarantined EXCEPT ![k] = W]
       /\ lingering' = [lingering EXCEPT ![k] = IF joins THEN {} ELSE @]
  BY ZenonT(60), <1>5, <1>8, <1>11, <1>12, <1>14, <1>15, <1>19
<1>25. /\ slotOf \in [TpRank -> Table] /\ freeSlots \in [TpRank -> SUBSET Slots]
       /\ quarantined \in [TpRank -> SUBSET Slots] /\ lingering \in [TpRank -> SUBSET Slots]
  BY <1>1 DEF SlotSets
<1>26. /\ slotOf'[k] = F /\ freeSlots'[k] = A \ placed /\ quarantined'[k] = W
       /\ \A m \in TpRank : m # k => /\ slotOf'[m] = slotOf[m] /\ freeSlots'[m] = freeSlots[m]
                                     /\ quarantined'[m] = quarantined[m]
  BY <1>24, <1>25
<1>27. SlotSets'
  <2>1. A \subseteq Slots /\ W \subseteq Slots
    BY <1>21
  <2>2. /\ slotOf' \in [TpRank -> Table] /\ freeSlots' \in [TpRank -> SUBSET Slots]
        /\ quarantined' \in [TpRank -> SUBSET Slots]
    BY <1>17, <1>24, <1>25, <2>1
  <2>3. lingering' \in [TpRank -> SUBSET Slots]
    BY <1>24, <1>25
  <2> QED BY <2>2, <2>3 DEF SlotSets
<1>28. Shares'
  <2> SUFFICES ASSUME NEW m \in TpRank
               PROVE  LET taken == {slotOf'[m][r] : r \in ReqId} \ {NoSlot} IN
                      /\ Apart(slotOf'[m])
                      /\ freeSlots'[m] \cup quarantined'[m] \cup taken = Slots
                      /\ freeSlots'[m] \cap quarantined'[m] = {}
                      /\ (freeSlots'[m] \cup quarantined'[m]) \cap taken = {}
    BY DEF Shares, Apart
  <2>1. CASE m # k
    <3>1. slotOf'[m] = slotOf[m] /\ freeSlots'[m] = freeSlots[m] /\ quarantined'[m] = quarantined[m]
      BY <1>26, <2>1
    <3> QED BY <1>1, <3>1 DEF Shares
  <2>2. CASE m = k
    <3>1. \A s \in S : s \in Slots \/ s = NoSlot
      BY <1>13, <1>18 DEF Staying, Table
    <3>2. A \cap W = {} /\ NoSlot \notin Slots
      BY <1>21, SlotsFinite
    <3>3. /\ (A \ placed) \cup W \cup (placed \cup (S \ {NoSlot})) = Slots
          /\ (A \ placed) \cap W = {}
          /\ ((A \ placed) \cup W) \cap (placed \cup (S \ {NoSlot})) = {}
      BY <1>21, <1>22, <3>1, <3>2
    <3> QED BY <1>17, <1>23, <1>26, <2>2, <3>3
  <2> QED BY <2>1, <2>2
(* The queue. *)
<1>29. /\ \A j \in 1 .. n :
            /\ StepFields \subseteq DOMAIN steps[j]
            /\ steps[j].ranks \subseteq TpRank /\ steps[j].fenced \subseteq TpRank
            /\ DOMAIN steps[j].chosen = TpRank
            /\ steps[j].ran \in BOOLEAN /\ steps[j].read \in BOOLEAN
  BY <1>1, <1>3 DEF QueueTypes
<1>30. PICK f : f = Submitted(e, k, F)
  OBVIOUS
<1>31. /\ StepFields \subseteq DOMAIN f
       /\ f.new = e.new /\ f.reqs = e.reqs
       /\ f.finished = e.finished /\ f.preempted = e.preempted
       /\ f.ran = e.ran /\ f.read = e.read
       /\ f.ranks = e.ranks \cup {k} /\ f.fenced = e.fenced
       /\ DOMAIN f.chosen = TpRank
       /\ f.chosen[k] = SeatsOf(F, e.reqs)
       /\ \A m \in TpRank : m # k => f.chosen[m] = e.chosen[m]
  <2>1. StepFields \subseteq DOMAIN e /\ DOMAIN e.chosen = TpRank
    BY <1>6, <1>8, <1>29
  <2> QED BY <1>30, <2>1, SubmittedStep
<1>32. /\ DOMAIN steps' = 1 .. n /\ steps' = [j \in 1 .. n |-> steps'[j]]
       /\ steps'[i] = f
       /\ \A j \in 1 .. n : j < i /\ joins => steps'[j] = [steps[j] EXCEPT !.fenced = @ \cup {k}]
       /\ \A j \in 1 .. n : j # i /\ ~(j < i /\ joins) => steps'[j] = steps[j]
  <2>1. DOMAIN steps' = 1 .. n /\ steps' = [j \in 1 .. n |-> steps'[j]]
    BY <1>4, <1>5
  <2>2. \A j \in 1 .. n :
          steps'[j] = IF j = i THEN Submitted(steps[i], k, Placed(k, i))
                      ELSE IF j < i /\ Joins(steps[i]) THEN [steps[j] EXCEPT !.fenced = @ \cup {k}]
                      ELSE steps[j]
    BY <1>4, <1>5
  <2>3. steps'[i] = Submitted(steps[i], k, Placed(k, i))
    BY <1>6, <2>2
  <2>4. \A j \in 1 .. n : j < i => j # i
    BY <1>6
  <2> QED BY <1>8, <1>11, <1>19, <1>30, <2>1, <2>2, <2>3, <2>4
<1>33. /\ IsList(steps') /\ Len(steps') = n /\ steps'[i] = f
       /\ \A j \in 1 .. n : j # i =>
              /\ StepFields \subseteq DOMAIN steps'[j]
              /\ steps'[j].new = steps[j].new /\ steps'[j].reqs = steps[j].reqs
              /\ steps'[j].finished = steps[j].finished
              /\ steps'[j].preempted = steps[j].preempted
              /\ steps'[j].ran = steps[j].ran /\ steps'[j].read = steps[j].read
              /\ steps'[j].ranks = steps[j].ranks /\ steps'[j].chosen = steps[j].chosen
       /\ \A j \in 1 .. n : j < i /\ joins => steps'[j].fenced = steps[j].fenced \cup {k}
       /\ \A j \in 1 .. n : j # i /\ ~(j < i /\ joins) => steps'[j].fenced = steps[j].fenced
  <2>1. IsList(steps') /\ Len(steps') = n
    BY <1>1, <1>3, <1>32, ListMapped DEF QueueTypes
  <2>2. ASSUME NEW j \in 1 .. n, j < i, joins
        PROVE  /\ StepFields \subseteq DOMAIN steps'[j]
               /\ steps'[j].new = steps[j].new /\ steps'[j].reqs = steps[j].reqs
               /\ steps'[j].finished = steps[j].finished
               /\ steps'[j].preempted = steps[j].preempted
               /\ steps'[j].ran = steps[j].ran /\ steps'[j].read = steps[j].read
               /\ steps'[j].ranks = steps[j].ranks /\ steps'[j].chosen = steps[j].chosen
               /\ steps'[j].fenced = steps[j].fenced \cup {k}
    <3>1. PICK g : g = steps[j]
      OBVIOUS
    <3>2. PICK h : h = steps'[j]
      OBVIOUS
    <3>3. StepFields \subseteq DOMAIN g
      BY <1>29, <3>1
    <3>4. h = [g EXCEPT !.fenced = @ \cup {k}]
      BY <1>32, <2>2, <3>1, <3>2
    <3>5. /\ StepFields \subseteq DOMAIN h
          /\ h.new = g.new /\ h.reqs = g.reqs
          /\ h.finished = g.finished /\ h.preempted = g.preempted
          /\ h.ran = g.ran /\ h.read = g.read
          /\ h.ranks = g.ranks /\ h.chosen = g.chosen
          /\ h.fenced = g.fenced \cup {k}
      BY <3>3, <3>4 DEF StepFields
    <3> QED BY <3>1, <3>2, <3>5
  <2>3. ASSUME NEW j \in 1 .. n, j # i, ~(j < i /\ joins) PROVE steps'[j] = steps[j]
    BY <1>32, <2>3, Zenon
  <2>4. ASSUME NEW j \in 1 .. n, j # i
        PROVE  /\ StepFields \subseteq DOMAIN steps'[j]
               /\ steps'[j].new = steps[j].new /\ steps'[j].reqs = steps[j].reqs
               /\ steps'[j].finished = steps[j].finished
               /\ steps'[j].preempted = steps[j].preempted
               /\ steps'[j].ran = steps[j].ran /\ steps'[j].read = steps[j].read
               /\ steps'[j].ranks = steps[j].ranks /\ steps'[j].chosen = steps[j].chosen
    <3>1. CASE j < i /\ joins
      BY <2>2, <3>1
    <3>2. CASE ~(j < i /\ joins)
      BY <1>29, <2>3, <2>4, <3>2
    <3> QED BY <3>1, <3>2
  <2>5. \A j \in 1 .. n : j < i /\ joins => steps'[j].fenced = steps[j].fenced \cup {k}
    BY <2>2
  <2>6. \A j \in 1 .. n : j # i /\ ~(j < i /\ joins) => steps'[j].fenced = steps[j].fenced
    BY <2>3
  <2>7. steps'[i] = f
    BY <1>32
  <2> QED BY <2>1, <2>4, <2>5, <2>6, <2>7
<1>34. ASSUME NEW j \in 1 .. n
       PROVE  /\ StepFields \subseteq DOMAIN steps'[j]
              /\ steps'[j].new = steps[j].new /\ steps'[j].reqs = steps[j].reqs
              /\ steps'[j].finished = steps[j].finished
              /\ steps'[j].preempted = steps[j].preempted
              /\ steps'[j].ran = steps[j].ran /\ steps'[j].read = steps[j].read
              /\ DOMAIN steps'[j].chosen = TpRank
  BY <1>8, <1>29, <1>31, <1>33
<1>35. /\ \A j \in 1 .. n : steps[j].ranks \subseteq steps'[j].ranks
       /\ \A j \in 1 .. n : steps'[j].ranks \subseteq steps[j].ranks \cup {k}
       /\ \A j \in 1 .. n : j # i => steps'[j].ranks = steps[j].ranks
       /\ k \in steps'[i].ranks
  BY <1>8, <1>31, <1>33
<1>36. /\ \A j \in 1 .. n : steps[j].fenced \subseteq steps'[j].fenced
       /\ \A j \in 1 .. n : steps'[j].fenced \subseteq steps[j].fenced \cup {k}
       /\ \A j \in 1 .. n : steps'[j].fenced = steps[j].fenced \/ (j < i /\ joins)
       /\ \A j \in 1 .. n : j < i /\ joins => k \in steps'[j].fenced
  BY <1>8, <1>31, <1>33
<1>37. \A j \in 1 .. n, m \in TpRank : j # i \/ m # k => steps'[j].chosen[m] = steps[j].chosen[m]
  BY <1>8, <1>31, <1>33
<1>38. joins => \A j \in 1 .. n : j < i => steps[j].ran
  <2>1. \A j \in 1 .. n : j < i => j \in 1 .. i - 1
    BY <1>6
  <2> QED BY <1>5, <1>11, <2>1
<1>39. k \notin steps[i].ranks /\ \A j \in 1 .. n : j < i => k \in steps[j].ranks
  <2>1. \A j \in 1 .. n : j < i => j \in 1 .. i - 1
    BY <1>6
  <2> QED BY <1>5, <2>1
<1>40. \A j, l \in 1 .. n : j < l => steps[l].ranks \subseteq steps[j].ranks
  BY <1>1, <1>3 DEF Told
<1>41. QueueTypes'
  <2>1. ASSUME NEW j \in 1 .. n
        PROVE  /\ StepFields \subseteq DOMAIN steps'[j]
               /\ steps'[j].ranks \subseteq TpRank /\ steps'[j].fenced \subseteq TpRank
               /\ DOMAIN steps'[j].chosen = TpRank
               /\ steps'[j].ran \in BOOLEAN /\ steps'[j].read \in BOOLEAN
    BY <1>29, <1>34, <1>35, <1>36
  <2> QED BY <1>1, <1>3, <1>7, <1>33, <2>1 DEF QueueTypes
<1>42. Told'
  <2>1. ASSUME NEW j \in 1 .. n, NEW l \in 1 .. n, j < l
        PROVE  steps'[l].ranks \subseteq steps'[j].ranks
    <3>1. CASE l = i
      BY <1>35, <1>39, <1>40, <2>1, <3>1
    <3>2. CASE l # i
      BY <1>35, <1>40, <2>1, <3>2
    <3> QED BY <3>1, <3>2
  <2>2. ASSUME NEW j \in 1 .. n
        PROVE  /\ steps'[j].read => steps'[j].ran /\ steps'[j].ranks = TpRank
               /\ steps'[j].fenced # {} => steps'[j].ran
               /\ steps'[j].read /\ engine.depth = 1 => steps'[j].fenced = TpRank
    <3>1. /\ steps[j].read => steps[j].ran /\ steps[j].ranks = TpRank
          /\ steps[j].fenced # {} => steps[j].ran
          /\ steps[j].read /\ engine.depth = 1 => steps[j].fenced = TpRank
      BY <1>1, <1>3 DEF Told
    <3>2. steps'[j].ran = steps[j].ran /\ steps'[j].read = steps[j].read
      BY <1>34
    <3>3. steps[j].ranks \subseteq steps'[j].ranks /\ steps'[j].ranks \subseteq steps[j].ranks \cup {k}
      BY <1>35
    <3>4. steps[j].fenced \subseteq steps'[j].fenced /\ steps'[j].fenced \subseteq steps[j].fenced \cup {k}
      BY <1>36
    <3>5. steps'[j].fenced = steps[j].fenced \/ steps[j].ran
      BY <1>36, <1>38
    <3>6. ASSUME steps'[j].read PROVE steps'[j].ran /\ steps'[j].ranks = TpRank
      <4>1. steps[j].ran /\ steps[j].ranks = TpRank
        BY <3>1, <3>2, <3>6
      <4> QED BY <3>2, <3>3, <4>1
    <3>7. ASSUME steps'[j].fenced # {} PROVE steps'[j].ran
      BY <3>1, <3>2, <3>5, <3>7
    <3>8. ASSUME steps'[j].read, engine.depth = 1 PROVE steps'[j].fenced = TpRank
      <4>1. steps[j].fenced = TpRank
        BY <3>1, <3>2, <3>8
      <4> QED BY <3>4, <4>1
    <3> QED BY <3>6, <3>7, <3>8
  <2>3. ASSUME engine.depth = 1, NEW m \in TpRank PROVE lingering'[m] = {}
    <3>1. lingering[m] = {} /\ lingering[k] = {}
      BY <1>1, <2>3 DEF Told
    <3> QED BY <1>24, <1>25, <3>1
  <2> QED BY <1>7, <1>33, <2>1, <2>2, <2>3 DEF Told
<1>43. Withholds'
  <2> SUFFICES ASSUME NEW j \in 1 .. n, NEW m \in steps'[j].ranks \ steps'[j].fenced
               PROVE  freeSlots'[m] \cap SlotsOf(steps'[j], m) = {}
    BY <1>33 DEF Withholds, SlotsOf
  <2>1. m \in TpRank
    BY <1>29, <1>35
  <2>2. CASE j = i /\ m = k
    <3>1. steps'[j].chosen[m] = SeatsOf(F, e.reqs)
      BY <1>31, <1>33, <2>2
    <3>2. SlotsOf(steps'[j], m) = {F[r] : r \in ToSet(e.reqs)}
      BY <3>1 DEF SlotsOf, SeatsOf
    <3>3. \A r \in ToSet(e.reqs) : F[r] \in placed \cup (S \ {NoSlot})
      BY <1>20, <1>23
    <3>4. (A \ placed) \cap (placed \cup (S \ {NoSlot})) = {}
      BY <1>21
    <3> QED BY <1>26, <2>2, <3>2, <3>3, <3>4
  <2>3. CASE ~(j = i /\ m = k)
    <3>1. SlotsOf(steps'[j], m) = SlotsOf(steps[j], m)
      <4>1. steps'[j].chosen[m] = steps[j].chosen[m]
        BY <1>37, <2>1, <2>3
      <4> QED BY <4>1 DEF SlotsOf
    <3>2. m \in steps[j].ranks \ steps[j].fenced
      BY <1>35, <1>36, <2>3
    <3>3. freeSlots[m] \cap SlotsOf(steps[j], m) = {}
      BY <1>1, <1>3, <3>2 DEF Withholds
    <3>4. CASE m # k
      BY <1>26, <2>1, <3>1, <3>3, <3>4
    <3>5. CASE m = k
      <4>1. j < i
        <5>1. ~(i < j)
          BY <1>6, <1>39, <1>40, <3>2, <3>5
        <5> QED BY <1>6, <2>3, <3>5, <5>1
      <4>2. ~joins
        BY <1>36, <3>5, <4>1
      <4>3. j \in 1 .. i - 1 /\ k \notin steps[j].fenced
        BY <1>6, <3>2, <3>5, <4>1
      <4>4. SlotsOf(steps[j], k) \subseteq Open(k, i)
        BY <1>11, <4>2, <4>3 DEF Open
      <4> QED BY <1>21, <1>26, <3>1, <3>3, <3>5, <4>4
    <3> QED BY <3>4, <3>5
  <2> QED BY <2>2, <2>3
<1>44. Chain(T)'
  <2>1. T \in [0 .. n -> Table] /\ \A j \in 0 .. n : Apart(T[j])
    BY <1>2, <1>3 DEF Chain
  <2>2. ASSUME NEW j \in 1 .. n
        PROVE  Fitting(T[j - 1], steps'[j]) /\ T[j] = After(T[j - 1], steps'[j])
    <3>1. PICK g : g = steps[j]
      OBVIOUS
    <3>2. PICK h : h = steps'[j]
      OBVIOUS
    <3>3. /\ h.new = g.new /\ h.reqs = g.reqs
          /\ h.finished = g.finished /\ h.preempted = g.preempted
      BY <1>34, <3>1, <3>2
    <3>4. Fitting(T[j - 1], g) /\ T[j] = After(T[j - 1], g)
      BY <1>2, <1>3, <3>1 DEF Chain
    <3>5. Gone(h) = Gone(g)
      BY <3>3 DEF Gone
    <3>6. After(T[j - 1], h) = After(T[j - 1], g)
      BY <3>3, <3>5 DEF After
    <3>7. Fitting(T[j - 1], h)
      BY <3>3, <3>4, <3>5 DEF Fitting
    <3> QED BY <3>2, <3>4, <3>6, <3>7
  <2>3. Planned(T[n])'
    <3>1. PICK D : D = T[n]
      OBVIOUS
    <3>2. Planned(D)
      BY <1>2, <1>3, <3>1 DEF Chain
    <3>3. Planned(D)'
      BY <1>7, <3>2 DEF Planned
    <3> QED BY <3>1, <3>3
  <2>4. ASSUME NEW m \in TpRank, NEW j \in 0 .. n, Reached(m, j)' PROVE slotOf'[m] = T[j]
    <3>1. (j >= 1 => j \in 1 .. n) /\ (j < n => j + 1 \in 1 .. n)
      OBVIOUS
    <3>2. (j >= 1 => m \in steps'[j].ranks) /\ (j < n => m \notin steps'[j + 1].ranks)
      BY <1>33, <2>4 DEF Reached
    <3>3. CASE m # k
      <4>1. (j >= 1 => m \in steps[j].ranks) /\ (j < n => m \notin steps[j + 1].ranks)
        BY <1>35, <3>1, <3>2, <3>3
      <4>2. Reached(m, j)
        BY <1>3, <4>1 DEF Reached
      <4> QED BY <1>2, <1>3, <1>26, <3>3, <4>2 DEF Chain
    <3>4. CASE m = k /\ j > i
      <4>1. j \in 1 .. n /\ j >= 1 /\ i < j /\ j # i
        BY <1>6, <3>4
      <4>2. k \in steps'[j].ranks
        BY <3>2, <3>4, <4>1
      <4>3. k \in steps[j].ranks
        BY <1>35, <4>1, <4>2
      <4>4. steps[j].ranks \subseteq steps[i].ranks
        BY <1>6, <1>40, <4>1
      <4> QED BY <1>39, <4>3, <4>4
    <3>5. CASE m = k /\ j < i
      <4>1. j + 1 \in 1 .. n /\ j < n /\ (j + 1 = i \/ j + 1 < i)
        BY <1>6, <3>5
      <4>2. k \in steps'[j + 1].ranks
        BY <1>35, <1>39, <4>1
      <4> QED BY <3>2, <3>5, <4>1, <4>2
    <3>6. CASE m = k /\ j = i
      BY <1>10, <1>26, <3>6
    <3> QED BY <1>6, <3>3, <3>4, <3>5, <3>6
  <2>5. ASSUME NEW j \in 1 .. n, NEW m \in steps'[j].ranks
        PROVE  steps'[j].chosen[m] = SeatsOf(T[j], steps'[j].reqs)
    <3>1. m \in TpRank /\ steps'[j].reqs = steps[j].reqs
      BY <1>29, <1>34, <1>35
    <3>2. PICK reqs : reqs = steps[j].reqs
      OBVIOUS
    <3>3. CASE j = i /\ m = k
      <4>1. steps'[j].chosen[m] = SeatsOf(F, e.reqs)
        BY <1>31, <1>33, <3>3
      <4>2. e.reqs = reqs /\ F = T[j]
        BY <1>8, <1>10, <3>2, <3>3
      <4>3. steps'[j].chosen[m] = SeatsOf(T[j], reqs)
        BY <4>1, <4>2
      <4> QED BY <3>1, <3>2, <4>3
    <3>4. CASE ~(j = i /\ m = k)
      <4>1. m \in steps[j].ranks /\ steps'[j].chosen[m] = steps[j].chosen[m]
        BY <1>35, <1>37, <3>1, <3>4
      <4>2. steps[j].chosen[m] = SeatsOf(T[j], steps[j].reqs)
        BY <1>2, <1>3, <4>1 DEF Chain
      <4> QED BY <3>1, <4>1, <4>2
    <3> QED BY <3>3, <3>4
  <2> QED BY <1>33, <2>1, <2>2, <2>3, <2>4, <2>5 DEF Chain
<1> QED BY <1>27, <1>28, <1>41, <1>42, <1>43, <1>44 DEF SlotInv

(* A step of the queue is run or read: it keeps what was planned. *)
LEMMA MarkKeeps ==
  ASSUME RunnerV2Assumption, SlotInv, NEW i \in 1 .. Len(steps), NEW f,
         steps' = [steps EXCEPT ![i] = f],
         StepFields \subseteq DOMAIN f,
         f.new = steps[i].new, f.reqs = steps[i].reqs,
         f.finished = steps[i].finished, f.preempted = steps[i].preempted,
         f.ranks = steps[i].ranks, f.chosen = steps[i].chosen,
         f.ran \in BOOLEAN, f.read \in BOOLEAN,
         steps[i].fenced \subseteq f.fenced, f.fenced \subseteq TpRank,
         f.read => f.ran /\ f.ranks = TpRank,
         f.fenced # {} => f.ran,
         f.read /\ engine.depth = 1 => f.fenced = TpRank,
         UNCHANGED <<engine, stage, ended, slotOf, freeSlots, quarantined, lingering>>
  PROVE  SlotInv'
<1>1. QueueTypes /\ Told /\ SlotSets /\ Shares /\ Withholds
  BY DEF SlotInv
<1>2. PICK T : Chain(T)
  BY DEF SlotInv
<1>3. PICK n \in Nat : n = Len(steps)
  BY <1>1 DEF QueueTypes, IsList
<1>4. DOMAIN steps = 1 .. n
  BY <1>1, <1>3, ListAsSeq DEF QueueTypes
<1>5. /\ steps' = [j \in 1 .. n |-> steps'[j]]
      /\ steps'[i] = f /\ \A j \in 1 .. n : j # i => steps'[j] = steps[j]
  BY <1>3, <1>4
<1>6. IsList(steps') /\ Len(steps') = n
  BY <1>1, <1>3, <1>5, ListMapped DEF QueueTypes
<1>7. ASSUME NEW j \in 1 .. n
      PROVE  /\ StepFields \subseteq DOMAIN steps'[j]
             /\ steps'[j].new = steps[j].new /\ steps'[j].reqs = steps[j].reqs
             /\ steps'[j].finished = steps[j].finished
             /\ steps'[j].preempted = steps[j].preempted
             /\ steps'[j].ranks = steps[j].ranks /\ steps'[j].chosen = steps[j].chosen
             /\ steps'[j].ran \in BOOLEAN /\ steps'[j].read \in BOOLEAN
             /\ steps[j].fenced \subseteq steps'[j].fenced /\ steps'[j].fenced \subseteq TpRank
             /\ steps'[j].read => steps'[j].ran /\ steps'[j].ranks = TpRank
             /\ steps'[j].fenced # {} => steps'[j].ran
             /\ steps'[j].read /\ engine.depth = 1 => steps'[j].fenced = TpRank
  <2>1. CASE j = i
    BY <1>5, <2>1
  <2>2. CASE j # i
    <3>1. steps'[j] = steps[j]
      BY <1>5, <2>2
    <3>2. /\ StepFields \subseteq DOMAIN steps[j]
          /\ steps[j].ran \in BOOLEAN /\ steps[j].read \in BOOLEAN
          /\ steps[j].fenced \subseteq TpRank
      BY <1>1, <1>3 DEF QueueTypes
    <3>3. /\ steps[j].read => steps[j].ran /\ steps[j].ranks = TpRank
          /\ steps[j].fenced # {} => steps[j].ran
          /\ steps[j].read /\ engine.depth = 1 => steps[j].fenced = TpRank
      BY <1>1, <1>3 DEF Told
    <3> QED BY <3>1, <3>2, <3>3
  <2> QED BY <2>1, <2>2
<1>8. QueueTypes'
  <2>1. \A j \in 1 .. n : steps[j].ranks \subseteq TpRank /\ DOMAIN steps[j].chosen = TpRank
    BY <1>1, <1>3 DEF QueueTypes
  <2>2. engine \in Engines /\ n <= engine.depth
    BY <1>1, <1>3 DEF QueueTypes
  <2>3. ASSUME NEW j \in 1 .. n
        PROVE  /\ StepFields \subseteq DOMAIN steps'[j]
               /\ steps'[j].ranks \subseteq TpRank /\ steps'[j].fenced \subseteq TpRank
               /\ DOMAIN steps'[j].chosen = TpRank
               /\ steps'[j].ran \in BOOLEAN /\ steps'[j].read \in BOOLEAN
    BY <1>7, <2>1
  <2> QED BY <1>6, <2>2, <2>3 DEF QueueTypes
<1>9. Told'
  <2>1. \A j, l \in 1 .. n : j < l => steps[l].ranks \subseteq steps[j].ranks
    BY <1>1, <1>3 DEF Told
  <2>2. \A j, l \in 1 .. n : j < l => steps'[l].ranks \subseteq steps'[j].ranks
    BY <1>7, <2>1
  <2>3. engine.depth = 1 => \A k \in TpRank : lingering[k] = {}
    BY <1>1 DEF Told
  <2>4. ASSUME NEW j \in 1 .. n
        PROVE  /\ steps'[j].read => steps'[j].ran /\ steps'[j].ranks = TpRank
               /\ steps'[j].fenced # {} => steps'[j].ran
               /\ steps'[j].read /\ engine.depth = 1 => steps'[j].fenced = TpRank
    BY <1>7
  <2> QED BY <1>6, <2>2, <2>3, <2>4 DEF Told
<1>10. SlotSets' /\ Shares'
  BY <1>1 DEF SlotSets, Shares
<1>11. Withholds'
  <2> SUFFICES ASSUME NEW j \in 1 .. n, NEW m \in steps'[j].ranks \ steps'[j].fenced
               PROVE  freeSlots'[m] \cap SlotsOf(steps'[j], m) = {}
    BY <1>6 DEF Withholds, SlotsOf
  <2>1. m \in steps[j].ranks \ steps[j].fenced /\ steps'[j].chosen = steps[j].chosen
    BY <1>7
  <2>2. freeSlots[m] \cap SlotsOf(steps[j], m) = {}
    BY <1>1, <1>3, <2>1 DEF Withholds
  <2> QED BY <2>1, <2>2 DEF SlotsOf
<1>12. Chain(T)'
  <2>1. stage' \in [ReqId -> {"new", "loaded", "running", "preempted", "finished"}]
    BY <1>2 DEF Chain, Planned
  <2>2. Len(steps') = Len(steps)
    BY <1>3, <1>6
  <2>3. \A j \in 1 .. Len(steps) :
           /\ steps'[j].new = steps[j].new /\ steps'[j].reqs = steps[j].reqs
           /\ steps'[j].finished = steps[j].finished /\ steps'[j].preempted = steps[j].preempted
           /\ steps'[j].ranks = steps[j].ranks /\ steps'[j].chosen = steps[j].chosen
    BY <1>3, <1>7
  <2> QED BY <1>1, <1>2, <2>1, <2>2, <2>3, ChainKept
<1> QED BY <1>8, <1>9, <1>10, <1>11, <1>12 DEF SlotInv

(* The device runs a graph. *)
LEMMA RunKeeps ==
  ASSUME RunnerV2Assumption, SlotInv, Run
  PROVE  SlotInv'
<1>1. QueueTypes /\ Told
  BY DEF SlotInv
<1>2. DOMAIN steps = 1 .. Len(steps)
  BY <1>1, ListAsSeq DEF QueueTypes
<1>a. PICK i \in DOMAIN steps : \E sample :
        /\ ~steps[i].ran /\ steps[i].ranks = TpRank
        /\ steps' = [steps EXCEPT ![i].ran = TRUE, ![i].out = sample]
        /\ UNCHANGED <<engine, plan, hostState>>
  BY DEF Run
<1>3. PICK sample :
        /\ ~steps[i].ran /\ steps[i].ranks = TpRank
        /\ steps' = [steps EXCEPT ![i].ran = TRUE, ![i].out = sample]
        /\ UNCHANGED <<engine, plan, hostState>>
  BY <1>a
<1>4. PICK e : e = steps[i]
  OBVIOUS
<1>5. PICK f : f = [e EXCEPT !.ran = TRUE, !.out = sample]
  OBVIOUS
<1>6. steps' = [steps EXCEPT ![i] = f]
  BY <1>3, <1>4, <1>5
<1>7. /\ StepFields \subseteq DOMAIN e /\ e.ranks = TpRank
      /\ e.ran \in BOOLEAN /\ e.read \in BOOLEAN /\ e.fenced \subseteq TpRank
      /\ (e.read => e.ran /\ e.ranks = TpRank)
      /\ (e.read /\ engine.depth = 1 => e.fenced = TpRank)
  BY <1>1, <1>2, <1>3, <1>4 DEF QueueTypes, Told
<1>8. /\ StepFields \subseteq DOMAIN f
      /\ f.new = e.new /\ f.reqs = e.reqs /\ f.finished = e.finished /\ f.preempted = e.preempted
      /\ f.ranks = e.ranks /\ f.chosen = e.chosen /\ f.fenced = e.fenced
      /\ f.ran = TRUE /\ f.read = e.read
  BY <1>5, <1>7 DEF StepFields
<1>9. UNCHANGED <<engine, stage, ended, slotOf, freeSlots, quarantined, lingering>>
  BY <1>3 DEF plan, hostState
<1> QED BY <1>2, <1>3, <1>4, <1>6, <1>7, <1>8, <1>9, MarkKeeps

(* A step's outputs are read, and its ranks told. *)
LEMMA MaterializeKeeps ==
  ASSUME RunnerV2Assumption, SlotInv, Materialize
  PROVE  SlotInv'
<1>1. QueueTypes /\ Told
  BY DEF SlotInv
<1>2. DOMAIN steps = 1 .. Len(steps)
  BY <1>1, ListAsSeq DEF QueueTypes
<1>3. PICK i \in DOMAIN steps :
        /\ steps[i].ran /\ ~steps[i].read /\ steps[i].ranks = TpRank
        /\ \A j \in 1 .. i - 1 : steps[j].read
        /\ steps' = [steps EXCEPT ![i].read = TRUE, ![i].out = Trimmed(steps[i]),
                       ![i].rows = <<>>, ![i].at = <<>>, ![i].size = <<>>, ![i].given = <<>>,
                       ![i].texts = <<>>,
                       ![i].fenced = @ \cup (IF engine.depth = 1 THEN TpRank ELSE {OutputRank})]
        /\ UNCHANGED <<engine, plan, hostState, deviceState>>
  BY Zenon DEF Materialize
<1>4. PICK e : e = steps[i]
  OBVIOUS
<1>5. PICK told : told = IF engine.depth = 1 THEN TpRank ELSE {OutputRank}
  OBVIOUS
<1>6. PICK f : f = [e EXCEPT !.read = TRUE, !.out = Trimmed(e), !.rows = <<>>, !.at = <<>>,
                      !.size = <<>>, !.given = <<>>, !.texts = <<>>, !.fenced = @ \cup told]
  OBVIOUS
<1>7. steps' = [steps EXCEPT ![i] = f]
  BY <1>3, <1>4, <1>5, <1>6
<1>8. /\ StepFields \subseteq DOMAIN e /\ e.ranks = TpRank
      /\ e.ran \in BOOLEAN /\ e.ran /\ e.read \in BOOLEAN /\ e.fenced \subseteq TpRank
  BY <1>1, <1>2, <1>3, <1>4 DEF QueueTypes
<1>9. /\ StepFields \subseteq DOMAIN f
      /\ f.new = e.new /\ f.reqs = e.reqs /\ f.finished = e.finished /\ f.preempted = e.preempted
      /\ f.ranks = e.ranks /\ f.chosen = e.chosen /\ f.fenced = e.fenced \cup told
      /\ f.ran = e.ran /\ f.read = TRUE
  BY <1>6, <1>8 DEF StepFields
<1>10. UNCHANGED <<engine, stage, ended, slotOf, freeSlots, quarantined, lingering>>
  BY <1>3 DEF plan, hostState
<1>11. told \subseteq TpRank /\ (engine.depth = 1 => told = TpRank)
  BY <1>5 DEF RunnerV2Assumption
<1>12. f.fenced \subseteq TpRank /\ e.fenced \subseteq f.fenced /\ (engine.depth = 1 => f.fenced = TpRank)
  BY <1>8, <1>9, <1>11
<1>13. f.ran /\ f.ran \in BOOLEAN /\ f.read \in BOOLEAN /\ f.ranks = TpRank
  BY <1>8, <1>9
<1>14. i \in 1 .. Len(steps)
  BY <1>2
<1> QED BY <1>4, <1>7, <1>9, <1>10, <1>12, <1>13, <1>14, MarkKeeps

(* The oldest step leaves the queue, and its table the chain; a rank that has *)
(* not been told keeps the step's slots in mind.                            *)
LEMMA DeliverKeeps ==
  ASSUME RunnerV2Assumption, SlotInv, Deliver
  PROVE  SlotInv'
<1>1. QueueTypes /\ Told /\ SlotSets /\ Shares /\ Withholds
  BY DEF SlotInv
<1>2. PICK T : Chain(T)
  BY DEF SlotInv
<1>3. PICK n \in Nat : n = Len(steps)
  BY <1>1 DEF QueueTypes, IsList
<1>4. PICK e : e = steps[1]
  OBVIOUS
<1>5. PICK over \in SUBSET ToSet(e.reqs) :
        /\ stage' = [r \in ReqId |-> IF r \in over THEN "finished" ELSE stage[r]]
        /\ ended' = ended \cup over
        /\ lingering' = [k \in TpRank |-> lingering'[k]]
        /\ \A k \in TpRank : lingering'[k] = IF k \in e.fenced THEN lingering[k]
                                              ELSE lingering[k] \cup SlotsOf(e, k)
  <2> DEFINE row(r) == CHOOSE j \in DOMAIN steps[1].reqs : steps[1].reqs[j] = r
             takes == {r \in ToSet(steps[1].reqs) :
                         stage[r] # "finished" /\ steps[1].out[row(r)] # <<>>}
             full == {r \in takes : Len(texts[r]) + 1 \in {PromptLen[r] + OutputLimit[r], ModelLen}}
  <2>1. PICK eos \in SUBSET (takes \ full) :
          /\ stage' = [r \in ReqId |-> IF r \in full \cup eos THEN "finished" ELSE stage[r]]
          /\ ended' = ended \cup (full \cup eos)
          /\ lingering' = [k \in TpRank |-> IF k \in steps[1].fenced THEN lingering[k]
                                            ELSE lingering[k] \cup SlotsOf(steps[1], k)]
    BY DEF Deliver
  <2>2. PICK over : over = full \cup eos
    OBVIOUS
  <2>3. full \subseteq takes /\ takes \subseteq ToSet(e.reqs)
    BY <1>4
  <2> HIDE DEF full, takes
  <2>4. over \in SUBSET ToSet(e.reqs)
    BY <2>2, <2>3
  <2>5. lingering' = [k \in TpRank |-> lingering'[k]]
    BY <2>1
  <2>6. \A k \in TpRank : lingering'[k] = IF k \in e.fenced THEN lingering[k]
                                          ELSE lingering[k] \cup SlotsOf(e, k)
    BY <1>4, <2>1
  <2>7. /\ stage' = [r \in ReqId |-> IF r \in over THEN "finished" ELSE stage[r]]
        /\ ended' = ended \cup over
    BY <2>1, <2>2
  <2> QED BY <2>4, <2>5, <2>6, <2>7
<1>6. /\ steps # <<>> /\ e.read /\ steps' = Tail(steps)
      /\ UNCHANGED <<engine, slotOf, freeSlots, quarantined>>
  BY <1>4 DEF Deliver
<1>7. /\ n >= 1 /\ IsList(steps') /\ Len(steps') = n - 1
      /\ \A i \in 1 .. n - 1 : steps'[i] = steps[i + 1]
  BY <1>1, <1>3, <1>6, ListTail DEF QueueTypes
<1>8. 1 \in 1 .. n /\ n - 1 \in Nat /\ \A i \in 1 .. n - 1 : i + 1 \in 1 .. n
  BY <1>7
<1>9. e.ranks = TpRank /\ (engine.depth = 1 => e.fenced = TpRank)
  BY <1>1, <1>3, <1>4, <1>6, <1>8 DEF Told
(* The slots of the step. *)
<1>10. PICK B : B = T[0]
  OBVIOUS
<1>11. PICK F : F = T[1]
  OBVIOUS
<1>12. /\ 0 \in 0 .. n /\ 1 \in 0 .. n
       /\ B \in Table /\ Apart(B) /\ Fitting(B, e) /\ F = After(B, e) /\ F \in Table
  <2>1. 0 \in 0 .. n /\ 1 \in 0 .. n /\ 1 - 1 = 0
    BY <1>7
  <2>2. B \in Table /\ Apart(B) /\ F \in Table
    BY <1>2, <1>3, <1>10, <1>11, <2>1 DEF Chain
  <2>3. Fitting(T[1 - 1], steps[1]) /\ T[1] = After(T[1 - 1], steps[1])
    BY <1>2, <1>3, <1>8 DEF Chain
  <2> QED BY <1>4, <1>10, <1>11, <2>1, <2>2, <2>3
<1>13. \A r \in ToSet(e.reqs) : r \in ReqId /\ F[r] # NoSlot
  <2>1. LET A == After(B, e) IN \A r \in ToSet(e.reqs) : r \in ReqId /\ A[r] # NoSlot
    BY <1>12, AfterPlaces
  <2> QED BY <1>12, <2>1
<1>14. over \subseteq ReqId
  BY <1>5, <1>13
<1>15. ASSUME NEW k \in TpRank PROVE SlotsOf(e, k) \subseteq Slots
  <2>1. e.chosen[k] = SeatsOf(F, e.reqs)
    BY <1>2, <1>3, <1>4, <1>8, <1>9, <1>11 DEF Chain
  <2>2. SlotsOf(e, k) = {F[r] : r \in ToSet(e.reqs)}
    BY <2>1 DEF SlotsOf, SeatsOf
  <2>3. \A r \in ReqId : F[r] \in Slots \cup {NoSlot}
    BY <1>12 DEF Table
  <2> QED BY <1>13, <2>2, <2>3
<1>16. QueueTypes'
  <2>1. engine \in Engines /\ n <= engine.depth
    BY <1>1, <1>3 DEF QueueTypes
  <2>2. engine' = engine /\ engine.depth \in Nat
    <3>1. \A g \in Engines : g.depth \in 1 .. 2
      BY DEF RunnerV2Assumption
    <3>2. engine.depth \in 1 .. 2
      BY <2>1, <3>1
    <3>3. engine.depth \in Nat
      BY <3>2
    <3> QED BY <1>6, <3>3
  <2>3. Len(steps') <= engine'.depth
    BY <1>6, <1>7, <2>1, <2>2
  <2>4. ASSUME NEW i \in 1 .. n - 1
        PROVE  /\ StepFields \subseteq DOMAIN steps'[i]
               /\ steps'[i].ranks \subseteq TpRank /\ steps'[i].fenced \subseteq TpRank
               /\ DOMAIN steps'[i].chosen = TpRank
               /\ steps'[i].ran \in BOOLEAN /\ steps'[i].read \in BOOLEAN
    <3>1. /\ StepFields \subseteq DOMAIN steps[i + 1]
          /\ steps[i + 1].ranks \subseteq TpRank /\ steps[i + 1].fenced \subseteq TpRank
          /\ DOMAIN steps[i + 1].chosen = TpRank
          /\ steps[i + 1].ran \in BOOLEAN /\ steps[i + 1].read \in BOOLEAN
      BY <1>1, <1>3, <1>8 DEF QueueTypes
    <3> QED BY <1>7, <3>1
  <2> QED BY <1>6, <1>7, <2>1, <2>3, <2>4 DEF QueueTypes
<1>17. Told'
  <2>1. ASSUME NEW i \in 1 .. n - 1, NEW j \in 1 .. n - 1, i < j
        PROVE  steps'[j].ranks \subseteq steps'[i].ranks
    <3>1. i + 1 < j + 1
      BY <2>1
    <3>2. steps[j + 1].ranks \subseteq steps[i + 1].ranks
      BY <1>1, <1>3, <1>8, <3>1 DEF Told
    <3> QED BY <1>7, <3>2
  <2>2. ASSUME NEW i \in 1 .. n - 1
        PROVE  /\ steps'[i].read => steps'[i].ran /\ steps'[i].ranks = TpRank
               /\ steps'[i].fenced # {} => steps'[i].ran
               /\ steps'[i].read /\ engine.depth = 1 => steps'[i].fenced = TpRank
    <3>1. /\ steps[i + 1].read => steps[i + 1].ran /\ steps[i + 1].ranks = TpRank
          /\ steps[i + 1].fenced # {} => steps[i + 1].ran
          /\ steps[i + 1].read /\ engine.depth = 1 => steps[i + 1].fenced = TpRank
      BY <1>1, <1>3, <1>8 DEF Told
    <3> QED BY <1>7, <3>1
  <2>3. ASSUME engine.depth = 1, NEW k \in TpRank PROVE lingering'[k] = {}
    BY <1>1, <1>5, <1>9, <2>3 DEF Told
  <2> QED BY <1>6, <1>7, <2>1, <2>2, <2>3 DEF Told
<1>18. SlotSets' /\ Shares'
  <2>1. lingering \in [TpRank -> SUBSET Slots]
    BY <1>1 DEF SlotSets
  <2>2. lingering' \in [TpRank -> SUBSET Slots]
    BY <1>5, <1>15, <2>1
  <2>3. SlotSets'
    BY <1>1, <1>6, <2>2 DEF SlotSets
  <2>4. Shares'
    BY <1>1, <1>6 DEF Shares
  <2> QED BY <2>3, <2>4
<1>19. Withholds'
  <2>0. Len(steps') = n - 1
    BY <1>7
  <2> SUFFICES ASSUME NEW i \in 1 .. n - 1, NEW m \in steps'[i].ranks \ steps'[i].fenced
               PROVE  freeSlots'[m] \cap SlotsOf(steps'[i], m) = {}
    BY <2>0 DEF Withholds
  <2>1. freeSlots[m] \cap SlotsOf(steps[i + 1], m) = {}
    <3>1. m \in steps[i + 1].ranks \ steps[i + 1].fenced
      BY <1>7
    <3> QED BY <1>1, <1>3, <1>8, <3>1 DEF Withholds
  <2> QED BY <1>6, <1>7, <2>1 DEF SlotsOf
<1>20. PICK U : U = [i \in 0 .. n - 1 |-> T[i + 1]]
  OBVIOUS
<1>21. Chain(U)'
  <2>1. U \in [0 .. n - 1 -> Table] /\ \A i \in 0 .. n - 1 : Apart(U[i])
    <3>1. T \in [0 .. n -> Table] /\ \A i \in 0 .. n : Apart(T[i])
      BY <1>2, <1>3 DEF Chain
    <3>2. \A i \in 0 .. n - 1 : i + 1 \in 0 .. n
      OBVIOUS
    <3> QED BY <1>20, <3>1, <3>2
  <2>2. ASSUME NEW i \in 1 .. n - 1
        PROVE  Fitting(U[i - 1], steps'[i]) /\ U[i] = After(U[i - 1], steps'[i])
    <3>1. /\ Fitting(T[i + 1 - 1], steps[i + 1])
          /\ T[i + 1] = After(T[i + 1 - 1], steps[i + 1])
      BY <1>2, <1>3, <1>8 DEF Chain
    <3>2. i + 1 - 1 = i /\ i - 1 + 1 = i /\ i - 1 \in 0 .. n - 1 /\ i \in 0 .. n - 1
      OBVIOUS
    <3>3. U[i - 1] = T[i] /\ U[i] = T[i + 1]
      BY <1>20, <3>2
    <3>4. PICK g : g = steps[i + 1] /\ g = steps'[i]
      BY <1>7
    <3>5. Fitting(T[i], g) /\ T[i + 1] = After(T[i], g)
      BY <3>1, <3>2, <3>4
    <3> QED BY <3>3, <3>4, <3>5
  <2>3. Planned(U[n - 1])'
    <3>1. PICK D : D = T[n]
      OBVIOUS
    <3>2. U[n - 1] = D
      BY <1>7, <1>20, <3>1
    <3>3. Planned(D)
      BY <1>2, <1>3, <3>1 DEF Chain
    <3>4. /\ stage \in [ReqId -> {"new", "loaded", "running", "preempted", "finished"}]
          /\ ended \subseteq ReqId /\ \A r \in ended : stage[r] = "finished"
          /\ \A r \in ReqId : stage[r] = "running" => D[r] # NoSlot
          /\ \A r \in ReqId : D[r] # NoSlot => stage[r] = "running" \/ r \in ended
      BY <3>3 DEF Planned
    <3>5. /\ stage' \in [ReqId -> {"new", "loaded", "running", "preempted", "finished"}]
          /\ ended' \subseteq ReqId
      BY <1>5, <1>14, <3>4
    <3>6. ASSUME NEW r \in ended' PROVE stage'[r] = "finished"
      BY <1>5, <1>14, <3>4
    <3>7. ASSUME NEW r \in ReqId, stage'[r] = "running" PROVE D[r] # NoSlot
      BY <1>5, <3>4, <3>7
    <3>8. ASSUME NEW r \in ReqId, D[r] # NoSlot PROVE stage'[r] = "running" \/ r \in ended'
      BY <1>5, <3>4, <3>8
    <3>9. Planned(D)'
      BY <3>5, <3>6, <3>7, <3>8 DEF Planned
    <3> QED BY <3>2, <3>9
  <2>4. ASSUME NEW k \in TpRank, NEW i \in 0 .. n - 1, Reached(k, i)' PROVE slotOf'[k] = U[i]
    <3>1. i + 1 \in 0 .. n /\ (i >= 1 => i \in 1 .. n - 1) /\ (i < n - 1 => i + 1 \in 1 .. n - 1)
      OBVIOUS
    <3>2. k \in steps[i + 1].ranks
      <4>1. CASE i = 0
        BY <1>4, <1>9, <4>1
      <4>2. CASE i >= 1
        BY <1>7, <2>4, <3>1, <4>2 DEF Reached
      <4> QED BY <4>1, <4>2
    <3>3. i + 1 < n => k \notin steps[i + 1 + 1].ranks
      BY <1>7, <2>4, <3>1 DEF Reached
    <3>4. Reached(k, i + 1)
      BY <1>3, <3>2, <3>3 DEF Reached
    <3>5. slotOf[k] = T[i + 1]
      BY <1>2, <1>3, <3>1, <3>4 DEF Chain
    <3> QED BY <1>6, <1>20, <3>5
  <2>5. ASSUME NEW i \in 1 .. n - 1, NEW k \in steps'[i].ranks
        PROVE  steps'[i].chosen[k] = SeatsOf(U[i], steps'[i].reqs)
    <3>1. PICK g : g = steps[i + 1] /\ g = steps'[i]
      BY <1>7
    <3>2. i + 1 \in 1 .. n /\ k \in g.ranks
      BY <1>8, <3>1
    <3>5. \A j \in 1 .. n : \A m \in steps[j].ranks :
            steps[j].chosen[m] = SeatsOf(T[j], steps[j].reqs)
      BY <1>2, <1>3 DEF Chain
    <3>6. steps[i + 1].chosen[k] = SeatsOf(T[i + 1], steps[i + 1].reqs)
      BY <3>1, <3>2, <3>5
    <3>4. g.chosen[k] = SeatsOf(T[i + 1], g.reqs)
      BY <3>1, <3>6
    <3>3. U[i] = T[i + 1]
      BY <1>20
    <3> QED BY <3>1, <3>3, <3>4
  <2> QED BY <1>7, <2>1, <2>2, <2>3, <2>4, <2>5 DEF Chain
<1> QED BY <1>16, <1>17, <1>18, <1>19, <1>21 DEF SlotInv

(* The scheduler's next step finds a slot for every new request of it.       *)
SlotForAll ==
  \A i \in DOMAIN steps : \A k \in TpRank \ steps[i].ranks :
    (\A j \in 1 .. i - 1 : k \in steps[j].ranks) =>
      Len(steps[i].new) <= Cardinality(Available(k, i))

(* Its table is the one the plan was made for. *)
LEMMA SlotInvAdmits == RunnerV2Assumption /\ SlotInv => SlotForAll
<1> SUFFICES ASSUME RunnerV2Assumption, SlotInv, NEW i \in DOMAIN steps,
                    NEW k \in TpRank \ steps[i].ranks, \A j \in 1 .. i - 1 : k \in steps[j].ranks
             PROVE  Len(steps[i].new) <= Cardinality(Available(k, i))
  BY DEF SlotForAll
<1>1. QueueTypes /\ Told /\ SlotSets /\ Shares
  BY DEF SlotInv
<1>2. PICK T : Chain(T)
  BY DEF SlotInv
<1>3. PICK n \in Nat : n = Len(steps)
  BY <1>1 DEF QueueTypes, IsList
<1>4. i \in 1 .. n
  BY <1>1, <1>3, ListAsSeq DEF QueueTypes
<1>5. PICK e : e = steps[i]
  OBVIOUS
<1>6. PICK B : B = slotOf[k]
  OBVIOUS
<1>7. Reached(k, i - 1)
  <2>1. (i - 1 >= 1 => i - 1 \in 1 .. i - 1) /\ i - 1 + 1 = i
    BY <1>4
  <2>2. i - 1 >= 1 => k \in steps[i - 1].ranks
    BY <2>1
  <2>3. k \notin steps[i - 1 + 1].ranks
    BY <2>1
  <2> QED BY <2>2, <2>3 DEF Reached
<1>8. Fitting(B, e)
  <2>1. i - 1 \in 0 .. n
    BY <1>4
  <2>2. slotOf[k] = T[i - 1]
    BY <1>2, <1>3, <1>7, <2>1 DEF Chain
  <2>3. Fitting(T[i - 1], steps[i])
    BY <1>2, <1>3, <1>4 DEF Chain
  <2> QED BY <1>5, <1>6, <2>2, <2>3
<1>9. /\ Gone(e) \subseteq ReqId /\ Len(e.new) <= Cardinality(Slots \ Staying(B, Gone(e)))
      /\ e.new \in Seq(ReqId)
  BY <1>8 DEF Fitting
<1>10. /\ Available(k, i) \subseteq Slots
       /\ e.new # <<>> => Available(k, i) = Slots \ Staying(B, Gone(e))
  <2>1. LET back == freeSlots[k] \cup quarantined[k] \cup Vacated(k, steps[i]) IN
        /\ Available(k, i) = back \ Withheld(k, i)
        /\ back = Slots \ Staying(slotOf[k], Gone(steps[i]))
        /\ steps[i].new # <<>> =>
             Withheld(k, i) = {} /\ Available(k, i) = Slots \ Staying(slotOf[k], Gone(steps[i]))
    BY <1>1, <1>3, <1>4, <1>5, <1>9, AvailableSlots
  <2> QED BY <1>5, <1>6, <2>1
<1>11. Cardinality(Available(k, i)) \in Nat
  BY <1>10, SlotsFinite
<1>12. CASE e.new = <<>>
  BY <1>5, <1>11, <1>12
<1>13. CASE e.new # <<>>
  BY <1>5, <1>9, <1>10, <1>13
<1> QED BY <1>12, <1>13

(* SlotInv says what SlotsSafe does. *)
LEMMA SlotInvSafe == RunnerV2Assumption /\ SlotInv => SlotsSafe
<1> SUFFICES ASSUME RunnerV2Assumption, SlotInv PROVE SlotsSafe
  OBVIOUS
<1>1. QueueTypes /\ Told /\ SlotSets /\ Shares /\ Withholds
  BY DEF SlotInv
<1>2. PICK T : Chain(T)
  BY DEF SlotInv
<1>3. DOMAIN steps = 1 .. Len(steps)
  BY <1>1, ListAsSeq DEF QueueTypes
<1>4. ASSUME NEW k \in TpRank
      PROVE  LET seats == {r \in ReqId : slotOf[k][r] # NoSlot}
                 taken == {slotOf[k][r] : r \in seats}
             IN /\ Cardinality(taken) = Cardinality(seats)
                /\ freeSlots[k] \cup quarantined[k] \cup taken = Slots
                /\ freeSlots[k] \cap quarantined[k] = {}
                /\ (freeSlots[k] \cup quarantined[k]) \cap taken = {}
  <2>1. PICK B : B = slotOf[k]
    OBVIOUS
  <2> DEFINE seats == {r \in ReqId : B[r] # NoSlot}
             taken == {B[r] : r \in seats}
             all == {B[r] : r \in ReqId} \ {NoSlot}
             place == [r \in seats |-> B[r]]
  <2>2. taken = all
    OBVIOUS
  <2>3. /\ Apart(B) /\ freeSlots[k] \cup quarantined[k] \cup all = Slots
        /\ freeSlots[k] \cap quarantined[k] = {}
        /\ (freeSlots[k] \cup quarantined[k]) \cap all = {}
    BY <1>1, <2>1 DEF Shares
  <2>4. Cardinality(taken) = Cardinality(seats)
    <3>1. IsFiniteSet(seats)
      BY FS_Subset DEF RunnerV2Assumption
    <3>2. \A r, q \in seats : place[r] = place[q] => r = q
      BY <2>3 DEF Apart
    <3>3. place \in [seats -> taken] /\ \A s \in taken : \E r \in seats : place[r] = s
      OBVIOUS
    <3> HIDE DEF seats, taken, place
    <3>4. place \in Bijection(seats, taken)
      BY <3>2, <3>3 DEF Bijection, Injection, Surjection, IsInjective
    <3>5. ExistsBijection(seats, taken)
      BY <3>4 DEF ExistsBijection
    <3> QED BY <3>1, <3>5, FS_Bijection
  <2>5. /\ Cardinality(taken) = Cardinality(seats)
        /\ freeSlots[k] \cup quarantined[k] \cup taken = Slots
        /\ freeSlots[k] \cap quarantined[k] = {}
        /\ (freeSlots[k] \cup quarantined[k]) \cap taken = {}
    BY <2>2, <2>3, <2>4
  <2> QED BY <2>1, <2>5
<1>5. ASSUME NEW i \in DOMAIN steps, NEW k \in steps[i].ranks, NEW m \in steps[i].ranks
      PROVE  /\ steps[i].chosen[k] = steps[i].chosen[m]
             /\ ~steps[i].ran => freeSlots[k] \cap SlotsOf(steps[i], k) = {}
  <2>1. /\ steps[i].chosen[k] = SeatsOf(T[i], steps[i].reqs)
        /\ steps[i].chosen[m] = SeatsOf(T[i], steps[i].reqs)
    BY <1>2, <1>3 DEF Chain
  <2>2. ASSUME ~steps[i].ran PROVE freeSlots[k] \cap SlotsOf(steps[i], k) = {}
    <3>1. steps[i].fenced = {}
      BY <1>1, <1>3, <2>2 DEF Told
    <3> QED BY <1>1, <1>3, <3>1 DEF Withholds
  <2> QED BY <2>1, <2>2
<1>6. SlotForAll
  BY SlotInvAdmits
<1> QED BY <1>4, <1>5, <1>6 DEF SlotsSafe, SlotForAll

(* The chain of tables is there in every state. *)
THEOREM SlotInvAlways == V2Spec => []SlotInv
<1> USE RunnerV2Assumption
<1>1. V2Init => SlotInv
  BY SlotsInitially
<1>2. SlotInv /\ [V2Next]_v2Vars => SlotInv'
  <2> SUFFICES ASSUME SlotInv, [V2Next]_v2Vars PROVE SlotInv'
    OBVIOUS
  <2>1. CASE PlanSteps
    BY <2>1, PlanKeeps
  <2>2. ASSUME NEW k \in TpRank, ExecuteModel(k) PROVE SlotInv'
    BY <2>2, ExecuteKeeps
  <2>3. CASE Run
    BY <2>3, RunKeeps
  <2>4. CASE Materialize
    BY <2>4, MaterializeKeeps
  <2>5. CASE Deliver
    BY <2>5, DeliverKeeps
  <2>6. CASE UNCHANGED v2Vars
    <3>1. UNCHANGED <<engine, stage, ended, steps, slotOf, freeSlots, quarantined, lingering>>
      BY <2>6 DEF v2Vars, plan, hostState
    <3>2. QueueTypes' /\ Told' /\ SlotSets' /\ Shares' /\ Withholds'
      BY <3>1 DEF SlotInv, QueueTypes, Told, SlotSets, Shares, Withholds, SlotsOf
    <3>3. PICK T : Chain(T)
      BY DEF SlotInv
    <3>4. stage \in [ReqId -> {"new", "loaded", "running", "preempted", "finished"}]
      BY <3>3 DEF Chain, Planned
    <3>5. Chain(T)'
      BY <3>1, <3>3, <3>4, ChainKept DEF SlotInv
    <3> QED BY <3>2, <3>5 DEF SlotInv
  <2> QED BY <2>1, <2>2, <2>3, <2>4, <2>5, <2>6 DEF V2Next
<1> QED BY <1>1, <1>2, PTL DEF V2Spec

(* SlotsSafe: on every rank a slot is free, withheld or one request's; ranks  *)
(* agree on the slots of a step without a word between them; no slot a graph *)
(* has still to touch is free; and a new request always finds one.          *)
THEOREM SlotsAreSafe == V2Spec => []SlotsSafe
<1> USE RunnerV2Assumption
<1>1. SlotInv => SlotsSafe
  BY SlotInvSafe
<1> QED BY <1>1, SlotInvAlways, PTL
------------------------------------------------------------------------------
(* A quotient and a remainder are the only ones. *)
LEMMA OneQuotient ==
  ASSUME NEW a \in Int, NEW b \in Int, NEW M \in Nat, NEW c \in 0 .. M - 1, NEW d \in 0 .. M - 1,
         a * M + c = b * M + d
  PROVE  a = b /\ c = d
<1>1. ASSUME NEW x \in Int, NEW y \in Int, x < y PROVE x * M + M <= y * M
  <2>1. y - x >= 1 /\ y - x \in Int
    BY <1>1
  <2>2. \A k \in Int : k >= 1 => k * M >= M
    OBVIOUS
  <2>3. (y - x) * M >= M
    BY <2>1, <2>2
  <2>4. (y - x) * M = y * M - x * M
    OBVIOUS
  <2> QED BY <2>3, <2>4
<1>2. a * M \in Int /\ b * M \in Int
  OBVIOUS
<1>3. ~(a < b)
  BY <1>1, <1>2
<1>4. ~(b < a)
  BY <1>1, <1>2
<1> QED BY <1>3, <1>4

(* The page of a position, and its place in the page. *)
LEMMA Pages ==
  ASSUME RunnerV2Assumption, NEW p \in Nat
  PROVE  /\ p \div BlockSize \in Nat /\ p % BlockSize \in 0 .. BlockSize - 1
         /\ p = (p \div BlockSize) * BlockSize + (p % BlockSize)
         /\ BlockSize \in Nat \ {0}
<1>1. BlockSize \in Nat \ {0}
  BY DEF RunnerV2Assumption
<1>2. PICK q, m : q = p \div BlockSize /\ m = p % BlockSize
  OBVIOUS
<1>3. q \in Int /\ m \in 0 .. BlockSize - 1 /\ p = q * BlockSize + m
  BY <1>1, <1>2
<1>4. ~(q < 0)
  <2> SUFFICES ASSUME q < 0 PROVE FALSE
    OBVIOUS
  <2>1. \A k \in Int : k >= 1 => k * BlockSize >= BlockSize
    BY <1>1
  <2>2. -q \in Int /\ -q >= 1
    BY <1>3
  <2>3. (-q) * BlockSize >= BlockSize
    BY <2>1, <2>2
  <2>4. (-q) * BlockSize = -(q * BlockSize) /\ q * BlockSize \in Int
    BY <1>1, <1>3
  <2> QED BY <1>1, <1>3, <2>3, <2>4
<1> QED BY <1>1, <1>2, <1>3, <1>4

(* Multiples keep their order. *)
LEMMA Multiples ==
  ASSUME NEW a \in Int, NEW b \in Int, NEW M \in Nat, a < b
  PROVE  a * M + M <= b * M /\ a * M \in Int /\ b * M \in Int
<1>1. b - a >= 1 /\ b - a \in Int
  OBVIOUS
<1>2. \A k \in Int : k >= 1 => k * M >= M
  OBVIOUS
<1>3. (b - a) * M >= M
  BY <1>1, <1>2
<1>4. (b - a) * M = b * M - a * M
  OBVIOUS
<1> QED BY <1>3, <1>4

(* A position below n blocks' worth is in one of them. *)
LEMMA PageBelow ==
  ASSUME RunnerV2Assumption, NEW p \in Nat, NEW n \in Nat, p < n * BlockSize
  PROVE  p \div BlockSize \in 0 .. n - 1
<1>1. PICK q \in Nat, m \in 0 .. BlockSize - 1 : q = p \div BlockSize /\ p = q * BlockSize + m /\ BlockSize \in Nat \ {0}
  BY Pages
<1>2. ~(n < q)
  <2> SUFFICES ASSUME n < q PROVE FALSE
    OBVIOUS
  <2>1. n * BlockSize + BlockSize <= q * BlockSize /\ n * BlockSize \in Int /\ q * BlockSize \in Int
    BY <1>1, Multiples
  <2> QED BY <1>1, <2>1
<1>3. q # n
  <2> SUFFICES ASSUME q = n PROVE FALSE
    OBVIOUS
  <2>1. n * BlockSize \in Int /\ q * BlockSize = n * BlockSize
    BY <1>1
  <2> QED BY <1>1, <2>1
<1> QED BY <1>1, <1>2, <1>3

(* Enough blocks for n tokens. *)
LEMMA BlocksCover ==
  ASSUME RunnerV2Assumption, NEW n \in Nat
  PROVE  Blocks(n) \in Nat /\ n <= Blocks(n) * BlockSize
<1>1. BlockSize \in Nat \ {0}
  BY DEF RunnerV2Assumption
<1>2. PICK p \in Nat : p = n + BlockSize - 1
  BY <1>1
<1>3. PICK q \in Nat, m \in 0 .. BlockSize - 1 : q = p \div BlockSize /\ p = q * BlockSize + m
  BY Pages
<1>4. q * BlockSize \in Int
  BY <1>1
<1>5. Blocks(n) = q
  BY <1>2, <1>3 DEF Blocks
<1> QED BY <1>1, <1>2, <1>3, <1>4, <1>5

(* No two positions of different blocks, nor of one, share a cell. *)
LEMMA CellsApart ==
  ASSUME RunnerV2Assumption, NEW b, NEW c, NEW p, NEW q, b \in Int, c \in Int,
         p \in Nat, q \in Nat, Cell(b, p) = Cell(c, q)
  PROVE  b = c /\ (p \div BlockSize = q \div BlockSize => p = q)
<1>1. /\ p % BlockSize \in 0 .. BlockSize - 1 /\ q % BlockSize \in 0 .. BlockSize - 1
      /\ BlockSize \in Nat \ {0}
      /\ p = (p \div BlockSize) * BlockSize + (p % BlockSize)
      /\ q = (q \div BlockSize) * BlockSize + (q % BlockSize)
  BY Pages
<1>2. PICK x \in 0 .. BlockSize - 1, y \in 0 .. BlockSize - 1 : x = p % BlockSize /\ y = q % BlockSize
  BY <1>1
<1>3. b * BlockSize + x = c * BlockSize + y
  BY <1>2 DEF Cell
<1>4. b = c /\ x = y
  BY <1>1, <1>3, OneQuotient
<1> QED BY <1>1, <1>2, <1>4

(* The cells of the blocks there are. *)
LEMMA CellInCache ==
  ASSUME RunnerV2Assumption, NEW K \in Nat, NEW b \in 0 .. K, NEW p \in Nat
  PROVE  Cell(b, p) \in 0 .. (K + 1) * BlockSize - 1
<1>1. PICK x \in 0 .. BlockSize - 1 : x = p % BlockSize /\ BlockSize \in Nat \ {0}
  BY Pages
<1>2. b * BlockSize + BlockSize <= (K + 1) * BlockSize /\ b * BlockSize \in Int /\ (K + 1) * BlockSize \in Int
  <2>1. b < K + 1 /\ b \in Int /\ K + 1 \in Int
    OBVIOUS
  <2> QED BY <1>1, <2>1, Multiples
<1>3. b * BlockSize >= 0
  BY <1>1
<1>4. Cell(b, p) = b * BlockSize + x
  BY <1>1 DEF Cell
<1> QED BY <1>1, <1>2, <1>3, <1>4

(* In a strict order of a finite set every element has its own rank.         *)
LEMMA Ranks ==
  ASSUME NEW W, IsFiniteSet(W), NEW L,
         \A v \in W : <<v, v>> \notin L,
         \A u, v, w \in W : <<u, v>> \in L /\ <<v, w>> \in L => <<u, w>> \in L,
         \A v, w \in W : v = w \/ <<v, w>> \in L \/ <<w, v>> \in L
  PROVE  LET rank(w) == Cardinality({v \in W : <<v, w>> \in L}) IN
         /\ Cardinality(W) \in Nat
         /\ \A w \in W : rank(w) \in Nat /\ rank(w) < Cardinality(W)
         /\ \A v, w \in W : rank(v) = rank(w) => v = w
<1> DEFINE below(w) == {v \in W : <<v, w>> \in L}
<1>1. ASSUME NEW w \in W
      PROVE  /\ IsFiniteSet(below(w)) /\ Cardinality(below(w)) \in Nat
             /\ Cardinality(below(w)) < Cardinality(W)
  <2>1. below(w) \subseteq W /\ w \notin below(w)
    OBVIOUS
  <2>2. IsFiniteSet(below(w)) /\ Cardinality(below(w)) <= Cardinality(W) /\ Cardinality(below(w)) # Cardinality(W)
    BY <2>1, FS_Subset
  <2> QED BY <2>2, FS_CardinalityType
<1>2. Cardinality(W) \in Nat
  BY FS_CardinalityType
<1>3. ASSUME NEW v \in W, NEW w \in W, <<v, w>> \in L
      PROVE  Cardinality(below(v)) < Cardinality(below(w))
  <2>1. below(v) \subseteq below(w) /\ v \in below(w) /\ v \notin below(v)
    BY <1>3
  <2>2. Cardinality(below(v)) <= Cardinality(below(w)) /\ Cardinality(below(v)) # Cardinality(below(w))
    BY <1>1, <2>1, FS_Subset
  <2>3. Cardinality(below(v)) \in Nat /\ Cardinality(below(w)) \in Nat
    BY <1>1
  <2> HIDE DEF below
  <2> QED BY <2>2, <2>3
<1> HIDE DEF below
<1>4. ASSUME NEW v \in W, NEW w \in W, Cardinality(below(v)) = Cardinality(below(w)) PROVE v = w
  <2>1. Cardinality(below(v)) \in Nat /\ Cardinality(below(w)) \in Nat
    BY <1>1
  <2>2. <<v, w>> \notin L
    BY <1>3, <1>4, <2>1
  <2>3. <<w, v>> \notin L
    BY <1>3, <1>4, <2>1
  <2> QED BY <2>2, <2>3
<1> QED BY <1>1, <1>2, <1>4 DEF below

(* A list over a set. *)
LEMMA ListOf ==
  ASSUME NEW S, NEW n \in Nat, NEW s, s = [i \in 1 .. n |-> s[i]], \A i \in 1 .. n : s[i] \in S
  PROVE  s \in Seq(S) /\ Len(s) = n /\ ToSet(s) \subseteq S
<1>1. s \in [1 .. n -> S]
  OBVIOUS
<1>2. s \in Seq(S)
  BY <1>1, SeqDef
<1>3. Len(s) = n
  <2>1. DOMAIN s = 1 .. n /\ DOMAIN s = 1 .. Len(s) /\ Len(s) \in Nat
    BY <1>1, <1>2, LenProperties
  <2>2. ~(n < Len(s)) /\ ~(Len(s) < n)
    <3>1. \A k \in Nat : k >= 1 => (k \in 1 .. n <=> k <= n) /\ (k \in 1 .. Len(s) <=> k <= Len(s))
      BY <2>1
    <3>2. n >= 1 => n <= Len(s)
      BY <2>1, <3>1
    <3>3. Len(s) >= 1 => Len(s) <= n
      BY <2>1, <3>1
    <3> QED BY <2>1, <3>2, <3>3
  <2> QED BY <2>1, <2>2
<1> QED BY <1>2, <1>3, ListMembers

(* With the blocks a request lacks, its blocks hold the tokens it needs. *)
LEMMA LacksNat ==
  ASSUME RunnerV2Assumption, NEW r \in ReqId, NEW n \in Nat, Len(blocks[r]) \in Nat
  PROVE  /\ Lacks(r, n) \in Nat /\ n <= (Len(blocks[r]) + Lacks(r, n)) * BlockSize
<1>1. PICK k \in Nat : k = Blocks(n) /\ n <= k * BlockSize
  BY BlocksCover
<1>2. PICK l \in Nat : l = Len(blocks[r])
  OBVIOUS
<1>3. BlockSize \in Nat
  BY DEF RunnerV2Assumption
<1>4. CASE k > l
  BY <1>1, <1>2, <1>4 DEF Lacks
<1>5. CASE ~(k > l)
  <2>1. Lacks(r, n) = 0
    BY <1>1, <1>2, <1>5 DEF Lacks
  <2>2. k = l \/ k < l
    BY <1>5
  <2>3. k * BlockSize <= l * BlockSize
    <3>1. CASE k = l
      BY <1>3, <3>1
    <3>2. CASE k < l
      <4>1. k * BlockSize + BlockSize <= l * BlockSize /\ k * BlockSize \in Int /\ l * BlockSize \in Int
        BY <1>3, <3>2, Multiples
      <4> QED BY <1>3, <4>1
    <3> QED BY <2>2, <3>1, <3>2
  <2>4. k * BlockSize \in Int /\ l * BlockSize \in Int
    BY <1>3
  <2>5. n <= l * BlockSize
    BY <1>1, <2>3, <2>4
  <2>6. Len(blocks[r]) + Lacks(r, n) = l
    BY <1>2, <2>1
  <2> QED BY <2>1, <2>5, <2>6
<1> QED BY <1>4, <1>5

(* What the pool gives: to each request as many free blocks as it lacks, and *)
(* no block twice.                                                          *)
Grants(given, reqs, upto, evicted) ==
  /\ DOMAIN given = ToSet(reqs)
  /\ \A r \in ToSet(reqs) :
       /\ given[r] \in Seq(FreeBlocks(evicted)) /\ Len(given[r]) = Lacks(r, upto[r])
       /\ IsInjective(given[r]) /\ ToSet(given[r]) \subseteq FreeBlocks(evicted)
  /\ \A r, q \in ToSet(reqs) : r # q => ToSet(given[r]) \cap ToSet(given[q]) = {}
(* Each request of a list lacks a number of blocks. *)
Counts(reqs, upto) == \A r \in ToSet(reqs) : Lacks(r, upto[r]) \in Nat

(* Given gives such blocks when Fits says there are enough. *)
LEMMA GivenBlocks ==
  ASSUME RunnerV2Assumption, engine \in Engines,
         NEW reqs, reqs \in Seq(ReqId), IsInjective(reqs), NEW upto, NEW evicted,
         Counts(reqs, upto), Fits(ToSet(reqs), upto, evicted),
         NEW given, given = Given(reqs, upto, evicted)
  PROVE  Grants(given, reqs, upto, evicted)
<1> DEFINE R == ToSet(reqs)
           W == Wanted(R, upto)
           F == FreeBlocks(evicted)
           pool == Ascending(F)
           place(r) == CHOOSE j \in DOMAIN reqs : reqs[j] = r
           earlier(w) == {v \in W : place(v[1]) < place(w[1]) \/ (v[1] = w[1] /\ v[2] < w[2])}
           L == {z \in W \X W : place(z[1][1]) < place(z[2][1]) \/ (z[1][1] = z[2][1] /\ z[1][2] < z[2][2])}
<1>0. \A r \in ToSet(reqs) : Lacks(r, upto[r]) \in Nat
  BY DEF Counts
<1>1. R \subseteq ReqId /\ IsFiniteSet(R) /\ DOMAIN reqs = 1 .. Len(reqs) /\ Len(reqs) \in Nat
      /\ R = {reqs[i] : i \in 1 .. Len(reqs)}
  <2>1. R \subseteq ReqId /\ R = {reqs[i] : i \in 1 .. Len(reqs)}
    BY ListMembers
  <2>2. IsFiniteSet(R)
    BY <2>1, FS_Subset DEF RunnerV2Assumption
  <2> QED BY <2>1, <2>2, LenProperties
<1>2. IsFiniteSet(F) /\ F \subseteq Int
  <2>1. engine.blocks \in Nat
    BY DEF RunnerV2Assumption
  <2>2. F \subseteq 1 .. engine.blocks
    BY DEF FreeBlocks
  <2>3. IsFiniteSet(1 .. engine.blocks)
    <3>1. 1 \in Int /\ engine.blocks \in Int
      BY <2>1
    <3> QED BY <3>1, FS_Interval
  <2> QED BY <2>1, <2>2, <2>3, FS_Subset
<1>3. \A w : w \in W <=> \E r \in R : \E n \in 1 .. Lacks(r, upto[r]) : w = <<r, n>>
  BY DEF Wanted
<1>4. IsFiniteSet(W)
  <2> DEFINE part(r) == {r} \X (1 .. Lacks(r, upto[r]))
             Parts == {part(r) : r \in R}
  <2>1. IsFiniteSet(Parts)
    <3>1. PICK h : h = [r \in R |-> part(r)]
      OBVIOUS
    <3>2. h \in Surjection(R, Parts)
      BY <3>1 DEF Surjection
    <3> HIDE DEF Parts
    <3> QED BY <1>1, <3>2, FS_Surjection
  <2>2. \A S \in Parts : IsFiniteSet(S)
    <3> SUFFICES ASSUME NEW r \in R PROVE IsFiniteSet(part(r))
      OBVIOUS
    <3>1. IsFiniteSet({r})
      BY FS_Singleton
    <3>2. PICK l \in Nat : l = Lacks(r, upto[r])
      BY <1>0 DEF R
    <3>3. 1 \in Int /\ l \in Int
      OBVIOUS
    <3>4. IsFiniteSet(1 .. l)
      BY <3>3, FS_Interval
    <3> QED BY <3>1, <3>2, <3>4, FS_Product
  <2>3. W = UNION Parts
    BY DEF Wanted
  <2> HIDE DEF Parts
  <2> QED BY <2>1, <2>2, <2>3, FS_UNION
<1>5. \A r \in R : place(r) \in 1 .. Len(reqs) /\ reqs[place(r)] = r
  BY <1>1
<1> HIDE DEF place, R, F
<1>6. \A w \in W : w[1] \in R /\ w[2] \in Int /\ w = <<w[1], w[2]>> /\ place(w[1]) \in Int
  BY <1>3, <1>5
<1> HIDE DEF W
<1>7. \A v, w \in W : <<v, w>> \in L <=> (place(v[1]) < place(w[1]) \/ (v[1] = w[1] /\ v[2] < w[2]))
  OBVIOUS
<1> HIDE DEF L
<1>8. \A v \in W : <<v, v>> \notin L
  <2> TAKE v \in W
  <2>1. PICK a \in Int, b \in Int : a = place(v[1]) /\ b = v[2]
    BY <1>6
  <2>2. ~(a < a) /\ ~(b < b)
    OBVIOUS
  <2> QED BY <1>7, <2>1, <2>2
<1>9. \A u, v, w \in W : <<u, v>> \in L /\ <<v, w>> \in L => <<u, w>> \in L
  <2> SUFFICES ASSUME NEW u \in W, NEW v \in W, NEW w \in W, <<u, v>> \in L, <<v, w>> \in L
               PROVE  <<u, w>> \in L
    OBVIOUS
  <2>1. PICK a \in Int, b \in Int : a = place(u[1]) /\ b = u[2]
    BY <1>6
  <2>2. PICK c \in Int, d \in Int : c = place(v[1]) /\ d = v[2]
    BY <1>6
  <2>3. PICK x \in Int, y \in Int : x = place(w[1]) /\ y = w[2]
    BY <1>6
  <2>4. a < c \/ (u[1] = v[1] /\ b < d)
    BY <1>7, <2>1, <2>2
  <2>5. c < x \/ (v[1] = w[1] /\ d < y)
    BY <1>7, <2>2, <2>3
  <2>6. (u[1] = v[1] => a = c) /\ (v[1] = w[1] => c = x)
    BY <2>1, <2>2, <2>3
  <2>7. a < x \/ (u[1] = w[1] /\ b < y)
    BY <2>4, <2>5, <2>6
  <2> QED BY <1>7, <2>1, <2>3, <2>7
<1>10. \A v, w \in W : v = w \/ <<v, w>> \in L \/ <<w, v>> \in L
  <2> SUFFICES ASSUME NEW v \in W, NEW w \in W, <<v, w>> \notin L, <<w, v>> \notin L PROVE v = w
    OBVIOUS
  <2>1. place(v[1]) = place(w[1])
    BY <1>6, <1>7
  <2>2. v[1] = w[1]
    BY <1>5, <1>6, <2>1
  <2>3. v[2] = w[2]
    BY <1>6, <1>7, <2>2
  <2> QED BY <1>6, <2>2, <2>3
<1>11. \A w \in W : earlier(w) = {v \in W : <<v, w>> \in L}
  BY <1>7
<1> HIDE DEF earlier
<1>12. /\ Cardinality(W) \in Nat
       /\ \A w \in W : Cardinality(earlier(w)) \in Nat /\ Cardinality(earlier(w)) < Cardinality(W)
       /\ \A v, w \in W : Cardinality(earlier(v)) = Cardinality(earlier(w)) => v = w
  <2> DEFINE rank(w) == Cardinality({v \in W : <<v, w>> \in L})
  <2>1. /\ Cardinality(W) \in Nat
        /\ \A w \in W : rank(w) \in Nat /\ rank(w) < Cardinality(W)
        /\ \A v, w \in W : rank(v) = rank(w) => v = w
    BY ZenonT(60), <1>4, <1>8, <1>9, <1>10, Ranks
  <2>2. \A w \in W : Cardinality(earlier(w)) = rank(w)
    BY <1>11
  <2> HIDE DEF rank
  <2> QED BY <2>1, <2>2
<1>13. Cardinality(W) <= Cardinality(F) /\ Cardinality(F) \in Nat
  BY <1>2, FS_CardinalityType DEF Fits, W, R, F
<1> DEFINE spot(w) == 1 + Cardinality(earlier(w))
<1>14. \A w \in W : spot(w) \in 1 .. Cardinality(F)
  BY <1>12, <1>13
<1>15. \A v, w \in W : spot(v) = spot(w) => v = w
  BY <1>12
<1>16. /\ \A j \in 1 .. Cardinality(F) : pool[j] \in F
       /\ \A i, j \in 1 .. Cardinality(F) : pool[i] = pool[j] => i = j
  BY <1>2, AscendingLists
<1> HIDE DEF spot
<1>17. given = [r \in R |-> [n \in 1 .. Lacks(r, upto[r]) |-> pool[spot(<<r, n>>)]]]
  BY DEF Given, spot, earlier, W, R, F, place
<1> HIDE DEF pool
<1>18. ASSUME NEW r \in R
       PROVE  /\ given[r] = [n \in 1 .. Lacks(r, upto[r]) |-> given[r][n]]
              /\ \A n \in 1 .. Lacks(r, upto[r]) : <<r, n>> \in W /\ given[r][n] = pool[spot(<<r, n>>)]
              /\ given[r] \in Seq(F) /\ Len(given[r]) = Lacks(r, upto[r]) /\ ToSet(given[r]) \subseteq F
              /\ ToSet(given[r]) = {given[r][n] : n \in 1 .. Lacks(r, upto[r])}
              /\ DOMAIN given[r] = 1 .. Lacks(r, upto[r])
  <2>1. Lacks(r, upto[r]) \in Nat
    BY <1>0 DEF R
  <2>2. /\ given[r] = [n \in 1 .. Lacks(r, upto[r]) |-> given[r][n]]
        /\ \A n \in 1 .. Lacks(r, upto[r]) : given[r][n] = pool[spot(<<r, n>>)]
    BY <1>17
  <2>3. \A n \in 1 .. Lacks(r, upto[r]) : <<r, n>> \in W
    BY <1>3
  <2>4. \A n \in 1 .. Lacks(r, upto[r]) : given[r][n] \in F
    BY <1>14, <1>16, <2>2, <2>3
  <2>5. given[r] \in Seq(F) /\ Len(given[r]) = Lacks(r, upto[r]) /\ ToSet(given[r]) \subseteq F
    BY <2>1, <2>2, <2>4, ListOf
  <2>6. DOMAIN given[r] = 1 .. Lacks(r, upto[r])
    BY <2>2
  <2>7. ToSet(given[r]) = {given[r][n] : n \in 1 .. Lacks(r, upto[r])}
    BY <2>6 DEF ToSet
  <2> QED BY <2>2, <2>3, <2>5, <2>6, <2>7
<1>19. ASSUME NEW r \in R, NEW q \in R, NEW i \in 1 .. Lacks(r, upto[r]), NEW j \in 1 .. Lacks(q, upto[q]),
              given[r][i] = given[q][j]
       PROVE  r = q /\ i = j
  <2>1. <<r, i>> \in W /\ <<q, j>> \in W
    BY <1>18
  <2>2. pool[spot(<<r, i>>)] = pool[spot(<<q, j>>)]
    BY <1>18, <1>19
  <2>3. spot(<<r, i>>) = spot(<<q, j>>)
    BY <1>14, <1>16, <2>1, <2>2
  <2>4. <<r, i>> = <<q, j>>
    BY <1>15, <2>1, <2>3
  <2> QED BY <2>4
<1>20. \A r \in R : IsInjective(given[r])
  <2> SUFFICES ASSUME NEW r \in R, NEW i \in DOMAIN given[r], NEW j \in DOMAIN given[r],
                      given[r][i] = given[r][j]
               PROVE  i = j
    BY DEF IsInjective
  <2>1. i \in 1 .. Lacks(r, upto[r]) /\ j \in 1 .. Lacks(r, upto[r])
    BY <1>18
  <2> QED BY <1>19, <2>1
<1>21. \A r, q \in R : r # q => ToSet(given[r]) \cap ToSet(given[q]) = {}
  <2> SUFFICES ASSUME NEW r \in R, NEW q \in R, NEW x \in ToSet(given[r]), x \in ToSet(given[q]) PROVE r = q
    OBVIOUS
  <2>1. PICK i \in 1 .. Lacks(r, upto[r]) : x = given[r][i]
    <3>1. ToSet(given[r]) = {given[r][n] : n \in 1 .. Lacks(r, upto[r])}
      BY <1>18
    <3> QED BY <3>1
  <2>2. PICK j \in 1 .. Lacks(q, upto[q]) : x = given[q][j]
    <3>1. ToSet(given[q]) = {given[q][n] : n \in 1 .. Lacks(q, upto[q])}
      BY <1>18
    <3> QED BY <3>1
  <2>3. given[r][i] = given[q][j]
    BY <2>1, <2>2
  <2> QED BY <1>19, <2>3
<1>22. DOMAIN given = R
  BY <1>17
<1> QED BY <1>18, <1>20, <1>21, <1>22 DEF R, F, Grants

(* The fields of a queued step. *)
StepParts ==
  {"new", "reqs", "prompt", "at", "size", "given", "texts", "finished", "preempted", "ranks",
   "chosen", "fenced", "rows", "ran", "read", "out"}
(* A request that has not finished. *)
Live(r) == stage[r] # "finished"

(* The ledger: N[i][r], what the scheduler counts of r, and B[i][r], the     *)
(* blocks of r, once the first i steps in the queue have been sent.          *)
Ghosts(N, B) ==
  /\ N \in [0 .. Len(steps) -> [ReqId -> Nat]]
  /\ B \in [0 .. Len(steps) -> [ReqId -> Seq(Nat)]]

(* The first f steps have run, and the output rank has submitted the first m. *)
Positions(f, m) ==
  /\ f \in 0 .. Len(steps) /\ m \in 0 .. Len(steps)
  /\ \A i \in 1 .. f : steps[i].ran
  /\ f < Len(steps) => ~steps[f + 1].ran
  /\ \A i \in 1 .. Len(steps) : OutputRank \in steps[i].ranks <=> i <= m

(* What the steps in the queue owe to their order: a step runs after those  *)
(* before it, has newcomers on the output rank only when those have run,    *)
(* and names only requests that may be in it.                               *)
Orders ==
  \A i \in 1 .. Len(steps) :
    LET e == steps[i] IN
    /\ StepParts \subseteq DOMAIN e /\ IsInjective(e.reqs) /\ e.prompt \in BOOLEAN
    /\ e.ran => e.reqs = <<>> \/ (OutputRank \in e.ranks /\ \A j \in 1 .. i - 1 : steps[j].ran)
    /\ OutputRank \in e.ranks => e.new = <<>> \/ \A j \in 1 .. i - 1 : steps[j].ran
    /\ \A r \in e.finished : ~Live(r)
    /\ \A r \in ToSet(e.reqs) : \/ stage[r] \in {"running", "finished"}
                                \/ \E j \in i + 1 .. Len(steps) : r \in steps[j].preempted
    /\ \A r \in ReqId : stage[r] \in {"new", "loaded"} => r \notin ToSet(e.reqs) /\ r \notin e.preempted

(* What a step does to the ledger: of a request it computes, g being the      *)
(* length of its text when it was admitted, and of the others.               *)
Computes(e, r, g, n0, n1, b0, b1) ==
  /\ e.at[r] = n0 /\ n1 = n0 + e.size[r] /\ e.size[r] \in Nat \ {0}
  /\ e.prompt => n0 < g /\ n1 <= g
  /\ ~e.prompt => e.size[r] = 1 /\ n0 < ModelLen /\ (n1 = g \/ (n0 >= g /\ n1 < ModelLen))
  /\ \E x \in Seq(Nat) : b1 = b0 \o x /\ e.given[r] = IF r \in ToSet(e.new) THEN b1 ELSE x
  /\ r \in ToSet(e.new) => e.texts[r] = Text(r, g) /\ n0 < g
(* A step sends a ledger on to the next: what it computes, whom it takes    *)
(* back to nothing, and all the others.                                     *)
Formed(e, g, n0, n1, b0, b1) ==
  /\ ~e.read => \A r \in ToSet(e.reqs) : Computes(e, r, g[r], n0[r], n1[r], b0[r], b1[r])
  /\ \A r \in ReqId \ ToSet(e.reqs) :
       /\ r \in e.preempted => n1[r] = 0 /\ b1[r] = <<>>
       /\ r \notin e.preempted => n1[r] = n0[r] /\ b1[r] = b0[r]
(* Every queued step does. *)
Shapes(N, B) ==
  \A i \in 1 .. Len(steps) : Formed(steps[i], goal, N[i - 1], N[i], B[i - 1], B[i])

(* The plan: whose each block is, and how it agrees with the last of the ledger. *)
Settled(r) ==
  /\ stage[r] \in {"new", "preempted"} => counted[r] = 0
  /\ stage[r] \in {"new", "preempted", "finished"} => blocks[r] = <<>>
  /\ stage[r] \in {"new", "loaded"} => Len(texts[r]) = PromptLen[r]
  /\ stage[r] = "loaded" => counted[r] = engine.start[r]
(* The last of the ledger is the plan; no two requests hold one block. *)
PlanAgrees(N, B) ==
  /\ counted \in [ReqId -> Nat] /\ goal \in [ReqId -> Nat]
  /\ blocks \in [ReqId -> Seq(1 .. engine.blocks)]
  /\ \A r \in ReqId : IsInjective(blocks[r]) /\ Settled(r)
  /\ \A r, q \in ReqId : r # q => ToSet(blocks[r]) \cap ToSet(blocks[q]) = {}
  /\ \A r \in ReqId : Live(r) => N[Len(steps)][r] = counted[r] /\ B[Len(steps)][r] = blocks[r]

(* A position in the blocks of a list, and its cell. *)
Within(p, b) == p \in Nat /\ p < Len(b) * BlockSize
(* The cell of a position in the blocks of a list. *)
CellIn(b, p) == Cell(b[p \div BlockSize + 1], p)

(* A list of blocks there are, each once, with cells for n tokens. *)
Holds(b, n, K) == b \in Seq(1 .. K) /\ IsInjective(b) /\ \A p \in 0 .. n - 1 : Within(p, b)
(* From the first step that has not run on, a live request has cells of its *)
(* own for all its tokens.                                                  *)
Room(N, B, f) ==
  /\ \A i \in f .. Len(steps), r \in ReqId :
       Live(r) \/ (i > f /\ r \in ToSet(steps[i].reqs)) => Holds(B[i][r], N[i][r], engine.blocks)
  /\ \A i \in f + 1 .. Len(steps), r \in ReqId, q \in ReqId :
       r \in ToSet(steps[i].reqs) /\ Live(q) /\ q # r => ToSet(B[i][r]) \cap ToSet(B[i][q]) = {}

(* The tokens a request has yet to get from the steps in the queue. *)
Yields(N, i, r) == i <= Len(steps) /\ r \in ToSet(steps[i].reqs) /\ N[i][r] >= goal[r]
(* The token, if any, that step i owes r. *)
Owed(N, i, r) == IF Yields(N, i, r) THEN 1 ELSE 0
(* A request's text is a prefix of its own, and the steps in the queue owe  *)
(* it the very next tokens.                                                 *)
Answers(N) ==
  /\ DOMAIN texts = ReqId
  /\ \A r \in ReqId : Len(texts[r]) \in Nat \ {0} /\ texts[r] = Text(r, Len(texts[r]))
  /\ \A r \in ReqId : Live(r) =>
       /\ Yields(N, 1, r) => N[1][r] = Len(texts[r])
       /\ Yields(N, 2, r) => N[2][r] = Len(texts[r]) + Owed(N, 1, r)
       /\ stage[r] = "running" =>
            /\ counted[r] < goal[r] =>
                 Len(texts[r]) = goal[r] /\ ~Yields(N, 1, r) /\ ~Yields(N, 2, r)
            /\ counted[r] >= goal[r] =>
                 counted[r] + 1 = Len(texts[r]) + Owed(N, 1, r) + Owed(N, 2, r)

(* What the steps that have run sampled. *)
Lives == {r \in ReqId : Live(r)}
(* A step that ran has sampled of every live request its next token, or     *)
(* while it is in its prompt nothing.                                       *)
Gives(e, g, n, live) ==
  /\ DOMAIN e.out = DOMAIN e.reqs
  /\ \A j \in DOMAIN e.reqs :
       LET r == e.reqs[j] IN
       r \in live =>
         /\ n[r] >= g[r] => e.out[j] = IF e.read THEN <<<<r, n[r] + 1>>>> ELSE <<r, n[r] + 1>>
         /\ e.read /\ n[r] < g[r] => e.out[j] = <<>>
(* Every queued step that ran did. *)
Results(N) ==
  \A i \in 1 .. Len(steps) : steps[i].ran => Gives(steps[i], goal, N[i], Lives)

(* The output rank's slots.  A request keeps its slot past the next step the  *)
(* rank submits, or at least is computed by it.                              *)
Seat(r) == slotOf[OutputRank][r]
(* r still has its slot on the output rank. *)
Stays(r, m) ==
  /\ r \in ReqId /\ Seat(r) # NoSlot
  /\ \/ \A j \in m + 1 .. Len(steps) : r \notin steps[j].preempted
     \/ m < Len(steps) /\ r \in ToSet(steps[m + 1].reqs)
(* The operands of a step are of the blocks it was planned with. *)
Operands(e, b, g) ==
  /\ DOMAIN e.rows = DOMAIN e.reqs
  /\ \A j \in DOMAIN e.reqs :
       LET r == e.reqs[j] IN e.rows[j] = RowFor(e, r, e.chosen[OutputRank][r], b[r], g[r])
(* The output rank's rows of blocks are those of the steps it has           *)
(* submitted.                                                               *)
HostRows(B, m) ==
  /\ DOMAIN blockRow = Slots /\ DOMAIN prefillLen = Slots
  /\ \A s \in Slots : (\A r \in ReqId : Seat(r) # s) => blockRow[s] = <<>>
  /\ \A r \in ReqId : Stays(r, m) => blockRow[Seat(r)] = B[m][r] /\ prefillLen[Seat(r)] = goal[r]
  /\ \A i \in 1 .. m : ~steps[i].read => Operands(steps[i], B[i], goal)

(* The cells of the KV cache, and the slots of the device, after f steps.    *)
CacheHolds(b, n, r) ==
  \A p \in 0 .. n - 1 : kv[CellIn(b, p)] = <<r, p + 1>>
(* The cells of every live request hold its tokens. *)
Cache(N, B, f) ==
  /\ DOMAIN kv = 0 .. (engine.blocks + 1) * BlockSize - 1
  /\ \A r \in ReqId : Live(r) => CacheHolds(B[f][r], N[f][r], r)
(* Slot s is ready for the next token of r, n of its tokens computed. *)
Ready(s, r, g, n) ==
  /\ computedBy[s] = n
  /\ n < g => history[s] = Text(r, g)
  /\ n >= g /\ n < ModelLen =>
       history[s] = Text(r, n + 1) /\ lastToken[s] = <<r, n + 1>> /\ carry[s] = <<r, n + 1>>
(* So is every slot a submitted step or a live request has still to use. *)
Device(N, f, m) ==
  /\ DOMAIN history = Slots /\ DOMAIN computedBy = Slots
  /\ DOMAIN lastToken = Slots /\ DOMAIN carry = Slots
  /\ \A i \in f + 1 .. m : \A r \in ToSet(steps[i].reqs) :
       Live(r) => Ready(steps[i].chosen[OutputRank][r], r, goal[r], N[f][r])
  /\ \A r \in ReqId : Live(r) /\ Stays(r, m) => Ready(Seat(r), r, goal[r], N[f][r])

(* All of the ledger. *)
Ledger(N, B, f, m) ==
  /\ Ghosts(N, B) /\ Positions(f, m) /\ Orders
  /\ Shapes(N, B) /\ PlanAgrees(N, B) /\ Room(N, B, f)
  /\ Answers(N) /\ Results(N)
  /\ HostRows(B, m) /\ Cache(N, B, f) /\ Device(N, f, m)

(* The inductive invariant: the chain of slot tables, and a ledger. *)
TokenInv == SlotInv /\ \E N, B, f, m : Ledger(N, B, f, m)

(* A list over a set is one over a wider set. *)
LEMMA WiderSeq ==
  ASSUME NEW S, NEW T, S \subseteq T, NEW s \in Seq(S)
  PROVE  s \in Seq(T) /\ Len(s) \in Nat
<1>1. PICK n \in Nat : s \in [1 .. n -> S]
  BY SeqDef
<1>2. s \in [1 .. n -> T]
  BY <1>1
<1>3. s \in Seq(T)
  BY <1>2, SeqDef
<1> QED BY <1>3, LenProperties

(* The cell of a position within the blocks of a list. *)
LEMMA CellOf ==
  ASSUME RunnerV2Assumption, NEW K, K \in Nat, NEW b, b \in Seq(1 .. K), NEW p, Within(p, b)
  PROVE  /\ p \div BlockSize \in 0 .. Len(b) - 1 /\ p \div BlockSize + 1 \in 1 .. Len(b)
         /\ Len(b) \in Nat /\ p \in Nat
         /\ b[p \div BlockSize + 1] \in ToSet(b) /\ b[p \div BlockSize + 1] \in 1 .. K
         /\ CellIn(b, p) \in 0 .. (K + 1) * BlockSize - 1
<1>1. PICK l \in Nat : l = Len(b)
  BY LenProperties
<1>2. p \in Nat /\ p < l * BlockSize
  BY <1>1 DEF Within
<1>3. PICK z \in 0 .. l - 1 : z = p \div BlockSize
  BY <1>2, PageBelow
<1>4. PICK h \in 1 .. l : h = p \div BlockSize + 1
  BY <1>3
<1>5. b[h] \in 1 .. K
  BY <1>1, <1>4
<1>6. b[h] \in ToSet(b)
  <2>1. ToSet(b) = {b[i] : i \in 1 .. Len(b)}
    BY ListMembers
  <2> QED BY <1>1, <1>4, <2>1
<1>7. PICK x \in 0 .. K : x = b[h]
  BY <1>5
<1>8. Cell(x, p) \in 0 .. (K + 1) * BlockSize - 1
  BY <1>2, CellInCache
<1>9. CellIn(b, p) = Cell(x, p)
  BY <1>4, <1>7 DEF CellIn
<1> QED BY <1>1, <1>2, <1>3, <1>4, <1>5, <1>6, <1>8, <1>9

(* Two positions share a cell only in a block of both lists; in one list of  *)
(* blocks, each once, never.                                                *)
LEMMA CellsOfLists ==
  ASSUME RunnerV2Assumption, NEW K, K \in Nat, NEW b, b \in Seq(1 .. K), NEW p, Within(p, b),
         NEW c, c \in Seq(1 .. K), NEW q, Within(q, c), CellIn(b, p) = CellIn(c, q)
  PROVE  /\ ToSet(b) \cap ToSet(c) # {}
         /\ b = c /\ IsInjective(b) => p = q
<1>1. PICK h, i : h = p \div BlockSize + 1 /\ i = q \div BlockSize + 1
  OBVIOUS
<1>2. h \in 1 .. Len(b) /\ b[h] \in ToSet(b) /\ b[h] \in 1 .. K /\ p \in Nat /\ Len(b) \in Nat
  BY <1>1, CellOf
<1>3. i \in 1 .. Len(c) /\ c[i] \in ToSet(c) /\ c[i] \in 1 .. K /\ q \in Nat
  BY <1>1, CellOf
<1>4. PICK x, y : x = b[h] /\ y = c[i]
  OBVIOUS
<1>5. Cell(x, p) = Cell(y, q)
  BY <1>1, <1>4 DEF CellIn
<1>6. x = y /\ (p \div BlockSize = q \div BlockSize => p = q)
  <2>1. x \in Int
    <3>1. b[h] \in 1 .. K
      BY <1>2
    <3> QED BY <1>4, <3>1
  <2>2. y \in Int
    <3>1. c[i] \in 1 .. K
      BY <1>3
    <3> QED BY <1>4, <3>1
  <2> QED BY <1>2, <1>3, <1>5, <2>1, <2>2, CellsApart
<1>7. ASSUME b = c, IsInjective(b) PROVE p = q
  <2>1. DOMAIN b = 1 .. Len(b)
    BY LenProperties
  <2>2. h = i
    <3>1. h \in DOMAIN b /\ i \in DOMAIN b /\ b[h] = b[i]
      BY <1>2, <1>3, <1>4, <1>6, <1>7, <2>1
    <3> QED BY <1>7, <3>1 DEF IsInjective
  <2>3. p \div BlockSize \in 0 .. Len(b) - 1 /\ q \div BlockSize \in 0 .. Len(c) - 1
    BY CellOf
  <2>4. p \div BlockSize + 1 = q \div BlockSize + 1
    BY <1>1, <2>2
  <2>5. p \div BlockSize = q \div BlockSize
    BY <2>3, <2>4
  <2> QED BY <1>6, <2>5
<1> QED BY <1>2, <1>3, <1>4, <1>6, <1>7

(* A text and the one of one more token. *)
LEMMA Texts ==
  ASSUME NEW r, NEW k \in Nat
  PROVE  /\ Len(Text(r, k)) = k /\ DOMAIN Text(r, k) = 1 .. k
         /\ \A i \in 1 .. k : Text(r, k)[i] = <<r, i>>
         /\ Text(r, k) \in Seq({r} \X Nat)
         /\ Append(Text(r, k), <<r, k + 1>>) = Text(r, k + 1)
         /\ Text(r, k) \o <<<<r, k + 1>>>> = Text(r, k + 1)
<1> DEFINE S == {r} \X Nat
           t == Text(r, k)
<1>1. /\ DOMAIN t = 1 .. k /\ t = [i \in 1 .. k |-> t[i]] /\ \A i \in 1 .. k : t[i] = <<r, i>> /\ t[i] \in S
  BY DEF Text
<1>2. t \in Seq(S) /\ Len(t) = k
  <2> HIDE DEF S, t
  <2> QED BY <1>1, ListOf
<1>3. PICK x : x = <<r, k + 1>>
  OBVIOUS
<1>4. x \in S
  BY <1>3
<1>5. Text(r, k + 1) = [i \in 1 .. k + 1 |-> <<r, i>>]
  BY DEF Text
<1> HIDE DEF t, S
<1>6. Append(t, x) = Text(r, k + 1)
  <2>1. /\ Append(t, x) \in Seq(S) /\ Len(Append(t, x)) = k + 1
        /\ \A i \in 1 .. k : Append(t, x)[i] = t[i]
        /\ Append(t, x)[k + 1] = x
    BY <1>2, <1>4, AppendProperties
  <2>2. Append(t, x) = [i \in 1 .. k + 1 |-> Append(t, x)[i]]
    BY <2>1, LenProperties
  <2>3. \A i \in 1 .. k + 1 : Append(t, x)[i] = <<r, i>>
    <3> TAKE i \in 1 .. k + 1
    <3>1. CASE i = k + 1
      BY <1>3, <2>1, <3>1
    <3>2. CASE i # k + 1
      <4>1. i \in 1 .. k
        BY <3>2
      <4> QED BY <1>1, <2>1, <4>1
    <3> QED BY <3>1, <3>2
  <2> HIDE DEF Text
  <2> QED BY <1>5, <2>2, <2>3
<1>7. t \o <<x>> = Append(t, x)
  <2>1. /\ <<x>> \in Seq(S) /\ Len(<<x>>) = 1 /\ <<x>>[1] = x
    BY <1>4
  <2>2. /\ t \o <<x>> \in Seq(S) /\ Len(t \o <<x>>) = k + 1
        /\ \A i \in 1 .. k + 1 : (t \o <<x>>)[i] = IF i <= k THEN t[i] ELSE <<x>>[i - k]
    BY <1>2, <2>1, ConcatProperties
  <2>3. /\ Append(t, x) \in Seq(S) /\ Len(Append(t, x)) = k + 1
        /\ \A i \in 1 .. k : Append(t, x)[i] = t[i]
        /\ Append(t, x)[k + 1] = x
    BY <1>2, <1>4, AppendProperties
  <2>4. \A i \in 1 .. k + 1 : (t \o <<x>>)[i] = Append(t, x)[i]
    <3> TAKE i \in 1 .. k + 1
    <3>1. CASE i = k + 1
      <4>1. ~(i <= k) /\ i - k = 1
        BY <3>1
      <4>2. (t \o <<x>>)[i] = IF i <= k THEN t[i] ELSE <<x>>[i - k]
        BY <2>2
      <4> QED BY <2>1, <2>3, <3>1, <4>1, <4>2
    <3>2. CASE i # k + 1
      <4>1. i \in 1 .. k /\ i <= k
        BY <3>2
      <4>2. (t \o <<x>>)[i] = IF i <= k THEN t[i] ELSE <<x>>[i - k]
        BY <2>2
      <4> QED BY <2>3, <4>1, <4>2
    <3> QED BY <3>1, <3>2
  <2>5. /\ t \o <<x>> = [i \in 1 .. k + 1 |-> (t \o <<x>>)[i]]
        /\ Append(t, x) = [i \in 1 .. k + 1 |-> Append(t, x)[i]]
    BY <2>2, <2>3, LenProperties
  <2> QED BY <2>4, <2>5
<1> QED BY <1>1, <1>2, <1>3, <1>6, <1>7 DEF S, t

(* A list and what follows it. *)
LEMMA ListAndMore ==
  ASSUME NEW S, NEW s \in Seq(S), NEW x \in Seq(S), NEW t, t = s \o x
  PROVE  /\ t \in Seq(S) /\ Len(t) = Len(s) + Len(x) /\ Len(s) \in Nat /\ Len(x) \in Nat
         /\ Len(s) <= Len(t) /\ ToSet(s) \subseteq ToSet(t)
         /\ \A i \in 1 .. Len(s) : t[i] = s[i]
<1>1. Len(s) \in Nat /\ Len(x) \in Nat
  BY LenProperties
<1>2. /\ t \in Seq(S) /\ Len(t) = Len(s) + Len(x)
      /\ \A i \in 1 .. Len(s) + Len(x) : t[i] = IF i <= Len(s) THEN s[i] ELSE x[i - Len(s)]
  BY ConcatProperties
<1>3. \A i \in 1 .. Len(s) : t[i] = s[i]
  <2> TAKE i \in 1 .. Len(s)
  <2>1. i \in 1 .. Len(s) + Len(x) /\ i <= Len(s)
    BY <1>1
  <2> QED BY <1>2, <2>1
<1>4. ToSet(s) \subseteq ToSet(t)
  BY ConcatSets
<1> QED BY <1>1, <1>2, <1>3, <1>4

(* SetToSeq lists each element of a finite set once. *)
LEMMA SetListedOnce ==
  ASSUME NEW S, IsFiniteSet(S)
  PROVE  IsInjective(SetToSeq(S)) /\ ToSet(SetToSeq(S)) = S
<1>1. Cardinality(S) \in Nat /\ ExistsBijection(1 .. Cardinality(S), S)
  BY FS_CardinalityType
<1>2. PICK f \in Bijection(1 .. Cardinality(S), S) : TRUE
  BY <1>1 DEF ExistsBijection
<1>3. f \in [1 .. Cardinality(S) -> S] /\ IsInjective(f)
  BY <1>2 DEF Bijection, Injection, Surjection, IsInjective
<1>4. PICK g : g = SetToSeq(S)
  OBVIOUS
<1>5. g \in [1 .. Cardinality(S) -> S] /\ IsInjective(g)
  BY <1>3, <1>4 DEF SetToSeq
<1>6. \A i, j \in 1 .. Cardinality(S) : i # j => g[i] # g[j]
  BY <1>5 DEF IsInjective
<1>7. g \in SetToSeqs(S)
  BY <1>5, <1>6 DEF SetToSeqs
<1> QED BY <1>4, <1>7, OrderList

(* The queue is empty, of one step or of two. *)
LEMMA QueueLength ==
  ASSUME RunnerV2Assumption, SlotInv
  PROVE  /\ Len(steps) \in 0 .. 2 /\ IsList(steps) /\ DOMAIN steps = 1 .. Len(steps)
         /\ Len(steps) <= engine.depth /\ engine.depth \in 1 .. 2 /\ engine \in Engines
         /\ engine.blocks \in Nat
<1>1. QueueTypes
  BY DEF SlotInv
<1>2. engine.depth \in 1 .. 2 /\ Len(steps) \in Nat /\ Len(steps) <= engine.depth /\ IsList(steps)
  BY <1>1 DEF QueueTypes, IsList, RunnerV2Assumption
<1>3. DOMAIN steps = 1 .. Len(steps)
  BY <1>2 DEF IsList
<1> QED BY <1>1, <1>2, <1>3 DEF QueueTypes, RunnerV2Assumption

(* The requests of a step. *)
LEMMA KnownStep ==
  ASSUME RunnerV2Assumption, SlotInv, NEW i \in 1 .. Len(steps), NEW e, e = steps[i]
  PROVE  /\ e.reqs \in Seq(ReqId) /\ e.new \in Seq(ReqId)
         /\ ToSet(e.reqs) \subseteq ReqId /\ ToSet(e.new) \subseteq ToSet(e.reqs)
         /\ e.finished \subseteq ReqId /\ e.preempted \subseteq ReqId
         /\ ToSet(e.reqs) \cap e.preempted = {} /\ ToSet(e.reqs) \cap e.finished = {}
         /\ DOMAIN e.reqs = 1 .. Len(e.reqs) /\ Len(e.reqs) \in Nat
         /\ \A j \in DOMAIN e.reqs : e.reqs[j] \in ToSet(e.reqs) /\ e.reqs[j] \in ReqId
<1>1. PICK T : Chain(T)
  BY DEF SlotInv
<1>2. PICK P : P = T[i - 1]
  OBVIOUS
<1>3. Fitting(P, e)
  BY <1>1, <1>2 DEF Chain
<1>4. /\ e.reqs \in Seq(ReqId) /\ e.new \in Seq(ReqId) /\ ToSet(e.new) \subseteq ToSet(e.reqs)
      /\ e.finished \subseteq ReqId /\ e.preempted \subseteq ReqId
      /\ ToSet(e.reqs) \cap e.preempted = {} /\ ToSet(e.reqs) \cap e.finished = {}
  BY <1>3 DEF Fitting, Gone
<1>5. PICK s \in Seq(ReqId) : s = e.reqs
  BY <1>4
<1>6. ToSet(s) \subseteq ReqId /\ DOMAIN s = 1 .. Len(s) /\ Len(s) \in Nat /\ \A j \in DOMAIN s : s[j] \in ToSet(s)
  BY ListMembers, LenProperties
<1> QED BY <1>4, <1>5, <1>6

(* The output rank's slots are those of the table it has come to. *)
LEMMA OutputTable ==
  ASSUME RunnerV2Assumption, SlotInv, NEW f, NEW m, Positions(f, m), NEW T, Chain(T)
  PROVE  /\ slotOf[OutputRank] = T[m]
         /\ \A i \in 1 .. m : /\ i \in 1 .. Len(steps) /\ OutputRank \in steps[i].ranks
                              /\ steps[i].chosen[OutputRank] = SeatsOf(T[i], steps[i].reqs)
<1>1. OutputRank \in TpRank /\ Len(steps) \in Nat /\ m \in 0 .. Len(steps)
  BY QueueLength DEF RunnerV2Assumption, Positions
<1>2. Reached(OutputRank, m)
  <2>1. m >= 1 => m \in 1 .. Len(steps) /\ m <= m
    BY <1>1
  <2>2. m < Len(steps) => m + 1 \in 1 .. Len(steps) /\ ~(m + 1 <= m)
    BY <1>1
  <2> QED BY <2>1, <2>2 DEF Reached, Positions
<1>3. \A i \in 1 .. m : i \in 1 .. Len(steps) /\ OutputRank \in steps[i].ranks
  <2> TAKE i \in 1 .. m
  <2>1. i \in 1 .. Len(steps) /\ i <= m
    BY <1>1
  <2> QED BY <2>1 DEF Positions
<1> QED BY <1>1, <1>2, <1>3 DEF Chain

(* A step's place in the chain of tables: a request has a slot after a step  *)
(* if the step computes it, and keeps it through steps that it does not leave. *)
TableSteps(P, Q, e) ==
  /\ Q \in Table /\ P \in Table /\ Apart(Q) /\ Apart(P) /\ Fitting(P, e)
  /\ \A r \in ToSet(e.reqs) : r \in ReqId /\ Q[r] # NoSlot /\ r \notin Gone(e)
  /\ \A r \in ToSet(e.new) : /\ r \in ToSet(e.reqs) /\ P[r] = NoSlot
                             /\ Q[r] \in Slots \ Staying(P, Gone(e))
  /\ \A r \in ReqId \ ToSet(e.new) : Q[r] = IF r \in Gone(e) THEN NoSlot ELSE P[r]

(* Two tables of a chain are a step apart. *)
LEMMA TableStep ==
  ASSUME RunnerV2Assumption, SlotInv, NEW T, Chain(T), NEW i \in 1 .. Len(steps),
         NEW e, e = steps[i]
  PROVE  TableSteps(T[i - 1], T[i], e)
<1>1. Len(steps) \in Nat /\ i - 1 \in 0 .. Len(steps) /\ i \in 0 .. Len(steps)
  BY QueueLength
<1>3. PICK P, Q : P = T[i - 1] /\ Q = T[i]
  OBVIOUS
<1>4. P \in Table /\ Q \in Table /\ Apart(P) /\ Apart(Q) /\ Fitting(P, e) /\ Q = After(P, e)
  BY <1>1, <1>3 DEF Chain
<1>5. /\ \A r \in ToSet(e.new) : Q[r] \in Slots \ Staying(P, Gone(e))
      /\ \A r \in ReqId \ ToSet(e.new) : Q[r] = IF r \in Gone(e) THEN NoSlot ELSE P[r]
      /\ \A r \in ToSet(e.reqs) : r \in ReqId /\ Q[r] # NoSlot
  BY <1>4, AfterPlaces
<1>6. /\ ToSet(e.reqs) \cap Gone(e) = {} /\ ToSet(e.new) \subseteq ToSet(e.reqs)
      /\ \A r \in ToSet(e.new) : P[r] = NoSlot
      /\ e.reqs \in Seq(ReqId) /\ e.new \in Seq(ReqId)
  BY <1>4 DEF Fitting
<1>7. TableSteps(P, Q, e)
  BY <1>4, <1>5, <1>6 DEF TableSteps
<1> QED BY <1>3, <1>7

(* Who is not running, and has not left by a step the output rank has still  *)
(* to submit, has no slot there.                                            *)
LEMMA NoSeat ==
  ASSUME RunnerV2Assumption, SlotInv, NEW f, NEW m, Positions(f, m), Orders,
         NEW r \in ReqId, stage[r] \notin {"running", "finished"},
         \A j \in m + 1 .. Len(steps) : r \notin steps[j].preempted
  PROVE  Seat(r) = NoSlot
<1>1. PICK T : Chain(T)
  BY DEF SlotInv
<1>2. PICK n \in 0 .. 2 : n = Len(steps)
  BY QueueLength
<1>3. T[n][r] = NoSlot
  BY <1>1, <1>2 DEF Chain, Planned
<1>5. m \in 0 .. n
  BY <1>2 DEF Positions
<1>4. ASSUME NEW i \in m + 1 .. n, T[i][r] = NoSlot PROVE T[i - 1][r] = NoSlot
  <2>1. i \in 1 .. n /\ i \in 1 .. Len(steps)
    <3>1. m \in Int /\ m >= 0 /\ n \in Int
      BY <1>5
    <3>2. i \in Int /\ i >= m + 1 /\ i <= n
      BY <3>1
    <3>3. i \in 1 .. n
      BY <3>1, <3>2
    <3> QED BY <1>2, <3>3
  <2>2. PICK e : e = steps[i]
    OBVIOUS
  <2>3. r \notin e.finished /\ r \notin e.preempted
    BY <1>2, <2>1, <2>2 DEF Orders, Live
  <2>4. /\ \A q \in ToSet(e.new) : T[i - 1][q] = NoSlot
        /\ \A q \in ReqId \ ToSet(e.new) : T[i][q] = IF q \in Gone(e) THEN NoSlot ELSE T[i - 1][q]
    <3>1. PICK k \in 1 .. Len(steps) : k = i
      BY <2>1
    <3>2. e = steps[k]
      BY <2>2, <3>1
    <3>3. /\ \A q \in ToSet(e.new) : T[k - 1][q] = NoSlot
          /\ \A q \in ReqId \ ToSet(e.new) : T[k][q] = IF q \in Gone(e) THEN NoSlot ELSE T[k - 1][q]
      <4>1. Fitting(T[k - 1], e)
        BY <1>1, <3>2, TableStep DEF TableSteps
      <4>2. \A q \in ToSet(e.new) : T[k - 1][q] = NoSlot
        BY <4>1 DEF Fitting
      <4>3. \A q \in ReqId \ ToSet(e.new) : T[k][q] = IF q \in Gone(e) THEN NoSlot ELSE T[k - 1][q]
        BY SMTT(30), <1>1, <3>2, TableStep DEF TableSteps
      <4> QED BY <4>2, <4>3
    <3> QED BY <3>1, <3>3
  <2> QED BY <1>4, <2>3, <2>4 DEF Gone
<1>6. T[m][r] = NoSlot
  <2>1. CASE m = n
    BY <1>3, <2>1
  <2>2. CASE m = n - 1
    <3>1. n \in m + 1 .. n /\ n - 1 = m
      BY <1>5, <2>2
    <3> QED BY <1>3, <1>4, <3>1
  <2>3. CASE m = n - 2
    <3>1. n \in m + 1 .. n /\ n - 1 \in m + 1 .. n /\ (n - 1) - 1 = m
      BY <1>5, <2>3
    <3>2. T[n - 1][r] = NoSlot
      BY <1>3, <1>4, <3>1
    <3> QED BY <1>4, <3>1, <3>2
  <2> QED BY <1>5, <2>1, <2>2, <2>3
<1> QED BY <1>1, <1>6, OutputTable DEF Seat

(* At first nothing is planned, computed or held. *)
LEMMA LedgerInitially == RunnerV2Assumption /\ V2Init => TokenInv
<1> SUFFICES ASSUME RunnerV2Assumption, V2Init PROVE TokenInv
  OBVIOUS
<1>1. SlotInv
  BY SlotsInitially
<1>2. steps = <<>> /\ Len(steps) = 0 /\ 1 .. Len(steps) = {} /\ 0 .. Len(steps) = {0}
  BY DEF V2Init
<1>3. PICK N, B : N = [i \in 0 .. 0 |-> counted] /\ B = [i \in 0 .. 0 |-> blocks]
  OBVIOUS
<1>4. /\ counted = [r \in ReqId |-> 0] /\ goal = [r \in ReqId |-> 0] /\ blocks = [r \in ReqId |-> <<>>]
      /\ texts = [r \in ReqId |-> Text(r, PromptLen[r])]
      /\ \A r \in ReqId : PromptLen[r] \in Nat \ {0}
      /\ engine \in Engines /\ engine.blocks \in Nat /\ engine.start \in [ReqId -> Nat]
  BY DEF V2Init, RunnerV2Assumption
<1>5. N[0] = counted /\ B[0] = blocks
  BY <1>3
<1>6. Ghosts(N, B)
  BY <1>2, <1>3, <1>4 DEF Ghosts
<1>7. Positions(0, 0)
  <2>1. 0 \in 0 .. Len(steps) /\ 1 .. 0 = {} /\ ~(0 < Len(steps))
    BY <1>2
  <2> QED BY <1>2, <2>1 DEF Positions
<1>8. Orders /\ Shapes(N, B) /\ Results(N)
  BY <1>2 DEF Orders, Shapes, Results
<1>9. \A r \in ReqId : stage[r] # "running" /\ stage[r] # "preempted" /\ Seat(r) = NoSlot
  BY DEF V2Init, Seat, RunnerV2Assumption
<1>10. \A r \in ReqId : Len(texts[r]) = PromptLen[r] /\ texts[r] = Text(r, Len(texts[r]))
  <2> TAKE r \in ReqId
  <2>1. Len(Text(r, PromptLen[r])) = PromptLen[r]
    BY <1>4, Texts
  <2> QED BY <1>4, <2>1
<1>11. PlanAgrees(N, B)
  <2>1. IsInjective(<<>>) /\ ToSet(<<>>) = {} /\ \A K : <<>> \in Seq(1 .. K)
    BY EmptyList
  <2>2. counted \in [ReqId -> Nat] /\ goal \in [ReqId -> Nat] /\ blocks \in [ReqId -> Seq(1 .. engine.blocks)]
    BY <1>4, <2>1
  <2>3. \A r \in ReqId : stage[r] = "loaded" => engine.start[r] = 0
    BY <1>4 DEF V2Init
  <2>4. \A r \in ReqId : IsInjective(blocks[r]) /\ Settled(r)
    BY <1>4, <1>10, <2>1, <2>3 DEF Settled
  <2>5. \A r, q \in ReqId : r # q => ToSet(blocks[r]) \cap ToSet(blocks[q]) = {}
    BY <1>4, <2>1
  <2>6. N[Len(steps)] = counted /\ B[Len(steps)] = blocks
    BY <1>2, <1>5
  <2> QED BY <2>2, <2>4, <2>5, <2>6 DEF PlanAgrees
<1>12. Room(N, B, 0)
  <2>1. 0 + 1 .. Len(steps) = {}
    BY <1>2
  <2>2. \A i \in 0 .. Len(steps) : i = 0
    BY <1>2
  <2>3. 0 .. 0 - 1 = {}
    OBVIOUS
  <2>4. \A r \in ReqId : Holds(B[0][r], N[0][r], engine.blocks)
    <3> TAKE r \in ReqId
    <3>1. B[0][r] = <<>> /\ N[0][r] = 0
      BY <1>4, <1>5
    <3> QED BY <2>3, <3>1, EmptyList DEF Holds
  <2> QED BY <2>1, <2>2, <2>4 DEF Room
<1>13. Answers(N)
  <2>1. ~(1 <= Len(steps)) /\ ~(2 <= Len(steps))
    BY <1>2
  <2> QED BY <1>4, <1>9, <1>10, <2>1 DEF Answers, Yields
<1>14. HostRows(B, 0)
  <2>1. 1 .. 0 = {}
    OBVIOUS
  <2> QED BY <1>9, <2>1 DEF HostRows, Stays, V2Init
<1>15. Cache(N, B, 0)
  <2>1. \A r \in ReqId : N[0][r] = 0
    BY <1>4, <1>5
  <2>2. 0 .. 0 - 1 = {}
    OBVIOUS
  <2>3. DOMAIN kv = 0 .. (engine.blocks + 1) * BlockSize - 1
    BY DEF V2Init
  <2> QED BY <2>1, <2>2, <2>3 DEF Cache, CacheHolds
<1>16. Device(N, 0, 0)
  <2>1. 0 + 1 .. 0 = {}
    OBVIOUS
  <2> QED BY <1>9, <2>1 DEF Device, Stays, V2Init
<1>17. Ledger(N, B, 0, 0)
  BY <1>6, <1>7, <1>8, <1>11, <1>12, <1>13, <1>14, <1>15, <1>16 DEF Ledger
<1> QED BY <1>1, <1>17 DEF TokenInv

(* The blocks found in the cache, or pulled into, are nobody's, and hold the *)
(* first tokens of the request; it is in no step yet, and has no slot.      *)
LEMMA LoadLedger ==
  ASSUME RunnerV2Assumption, SlotInv, NEW N, NEW B, NEW f, NEW m, Ledger(N, B, f, m),
         NEW r \in ReqId, Load(r)
  PROVE  \E N2, B2 : Ledger(N2, B2, f, m)'
<1>1. /\ Ghosts(N, B) /\ Positions(f, m) /\ Orders
      /\ Shapes(N, B) /\ PlanAgrees(N, B) /\ Room(N, B, f)
      /\ Answers(N) /\ Results(N)
      /\ HostRows(B, m) /\ Cache(N, B, f) /\ Device(N, f, m)
  BY DEF Ledger
<1>2. PICK n \in 0 .. 2 : n = Len(steps) /\ engine \in Engines /\ engine.blocks \in Nat /\ DOMAIN steps = 1 .. n
  BY QueueLength
<1>3. PICK start \in Nat : start = engine.start[r]
  BY <1>2 DEF RunnerV2Assumption
<1>4. PICK upto, given : upto = [q \in {r} |-> start] /\ given = Given(<<r>>, upto, {})[r]
  OBVIOUS
<1>5. /\ stage[r] = "new" /\ Fits({r}, upto, {}) /\ \A i \in 1 .. n : steps[i].ran
      /\ blocks' = [blocks EXCEPT ![r] = given] /\ counted' = [counted EXCEPT ![r] = start]
      /\ kv' = [c \in DOMAIN kv |->
                  IF \E p \in 0 .. start - 1 : c = CellIn(given, p)
                  THEN <<r, 1 + CHOOSE p \in 0 .. start - 1 : c = CellIn(given, p)>>
                  ELSE kv[c]]
      /\ stage' = [stage EXCEPT ![r] = "loaded"]
  BY <1>2, <1>3, <1>4 DEF Load, CellIn
<1>6. /\ UNCHANGED <<engine, goal, texts, ended, steps, slotOf, freeSlots, quarantined, lingering, blockRow,
                     prefillLen, history, computedBy, lastToken, carry>>
  BY DEF Load, hostState
<1>7. /\ counted \in [ReqId -> Nat] /\ blocks \in [ReqId -> Seq(1 .. engine.blocks)]
      /\ DOMAIN stage = ReqId
  <2>1. PICK T : Chain(T)
    BY DEF SlotInv
  <2> QED BY <1>1, <2>1 DEF PlanAgrees, Chain, Planned
<1>8. /\ \A q \in ReqId \ {r} : stage'[q] = stage[q] /\ counted'[q] = counted[q] /\ blocks'[q] = blocks[q]
      /\ stage'[r] = "loaded" /\ counted'[r] = start /\ blocks'[r] = given
      /\ \A q \in ReqId : Live(q)' <=> Live(q)
  BY <1>5, <1>7 DEF Live
<1>9. \A i \in 1 .. n : r \notin ToSet(steps[i].reqs) /\ r \notin steps[i].preempted
  BY <1>1, <1>2, <1>5 DEF Orders
<1>10. f = n
  <2>1. f \in 0 .. n /\ (f < n => ~steps[f + 1].ran)
    BY <1>1, <1>2 DEF Positions
  <2>2. f < n => f + 1 \in 1 .. n
    BY <2>1
  <2> QED BY <1>5, <2>1, <2>2
<1>11. m \in 0 .. n
  BY <1>1, <1>2 DEF Positions
<1>12. blocks[r] = <<>> /\ Len(texts[r]) = PromptLen[r]
  BY <1>1, <1>5 DEF PlanAgrees, Settled
<1>13. /\ given \in Seq(1 .. engine.blocks) /\ IsInjective(given)
       /\ ToSet(given) \cap UNION {ToSet(blocks[q]) : q \in ReqId} = {}
       /\ \A p \in 0 .. start - 1 : Within(p, given)
  <2>0. PICK list : list = <<r>>
    OBVIOUS
  <2>1. /\ list \in Seq(ReqId) /\ IsInjective(list) /\ ToSet(list) = {r}
    BY <2>0 DEF IsInjective, ToSet
  <2>2. Lacks(r, start) \in Nat /\ start <= (Len(blocks[r]) + Lacks(r, start)) * BlockSize /\ Len(blocks[r]) = 0
    <3>1. Len(blocks[r]) = 0
      BY <1>12
    <3>2. Len(blocks[r]) \in Nat
      BY <3>1
    <3>3. Lacks(r, start) \in Nat /\ start <= (Len(blocks[r]) + Lacks(r, start)) * BlockSize
      BY <3>2, LacksNat
    <3> QED BY <3>1, <3>3
  <2>3. upto[r] = start
    BY <1>4
  <2>4. PICK all : all = Given(list, upto, {})
    OBVIOUS
  <2>5. Counts(list, upto)
    BY <2>1, <2>2, <2>3 DEF Counts
  <2>6. Fits(ToSet(list), upto, {})
    BY <1>5, <2>1
  <2>7. \A q \in ToSet(list) :
          /\ all[q] \in Seq(FreeBlocks({})) /\ Len(all[q]) = Lacks(q, upto[q])
          /\ IsInjective(all[q]) /\ ToSet(all[q]) \subseteq FreeBlocks({})
    <3>1. Grants(all, list, upto, {})
      BY <1>2, <2>1, <2>4, <2>5, <2>6, GivenBlocks
    <3> QED BY <3>1 DEF Grants
  <2>8. /\ given \in Seq(FreeBlocks({})) /\ Len(given) = Lacks(r, start)
        /\ IsInjective(given) /\ ToSet(given) \subseteq FreeBlocks({})
    BY <1>4, <2>0, <2>1, <2>3, <2>4, <2>7
  <2>9. /\ FreeBlocks({}) \subseteq 1 .. engine.blocks
        /\ FreeBlocks({}) \cap UNION {ToSet(blocks[q]) : q \in ReqId} = {}
    BY DEF FreeBlocks
  <2>10. given \in Seq(1 .. engine.blocks)
    BY <2>8, <2>9, WiderSeq
  <2>11. ASSUME NEW p \in 0 .. start - 1 PROVE Within(p, given)
    <3>1. PICK l \in Nat : l = Len(given) /\ start <= l * BlockSize
      BY <2>2, <2>8
    <3>2. l * BlockSize \in Int
      BY DEF RunnerV2Assumption
    <3>3. p \in Nat /\ p < l * BlockSize
      BY <3>1, <3>2
    <3> QED BY <3>1, <3>3 DEF Within
  <2> QED BY <2>2, <2>8, <2>9, <2>10, <2>11
<1>14. Seat(r) = NoSlot
  <2>1. \A j \in m + 1 .. Len(steps) : r \notin steps[j].preempted
    <3> TAKE j \in m + 1 .. Len(steps)
    <3>1. j \in 1 .. n
      BY <1>2, <1>11
    <3> QED BY <1>9, <3>1
  <2> QED BY <1>1, <1>5, <2>1, NoSeat
<1>15. PICK N2, B2 : /\ N2 = [i \in 0 .. n |-> [N[i] EXCEPT ![r] = start]]
                     /\ B2 = [i \in 0 .. n |-> [B[i] EXCEPT ![r] = given]]
  OBVIOUS
<1>16. /\ N \in [0 .. n -> [ReqId -> Nat]] /\ B \in [0 .. n -> [ReqId -> Seq(Nat)]]
  BY <1>1, <1>2 DEF Ghosts
<1>17. /\ \A i \in 0 .. n : /\ N2[i][r] = start /\ B2[i][r] = given
                            /\ \A q \in ReqId \ {r} : N2[i][q] = N[i][q] /\ B2[i][q] = B[i][q]
       /\ N2 \in [0 .. n -> [ReqId -> Nat]] /\ B2 \in [0 .. n -> [ReqId -> Seq(Nat)]]
  <2>1. given \in Seq(Nat)
    <3>1. 1 .. engine.blocks \subseteq Nat
      BY <1>2
    <3> QED BY <1>13, <3>1, WiderSeq
  <2> QED BY <1>15, <1>16, <2>1
<1>18. Len(steps)' = n /\ steps' = steps
  BY <1>2, <1>6
<1>19. \A i \in 1 .. n : i - 1 \in 0 .. n /\ i \in 0 .. n
  BY <1>2
<1> HIDE DEF Ledger
<1>20. Ghosts(N2, B2)' /\ Positions(f, m)'
  <2>1. Positions(f, m)'
    BY <1>1, <1>6 DEF Positions
  <2> QED BY <1>17, <1>18, <2>1 DEF Ghosts
<1>21. Orders'
  <2> SUFFICES ASSUME NEW i \in 1 .. n
               PROVE  LET e == steps[i] IN
                      /\ StepParts \subseteq DOMAIN e /\ IsInjective(e.reqs) /\ e.prompt \in BOOLEAN
                      /\ e.ran => e.reqs = <<>> \/ (OutputRank \in e.ranks /\ \A j \in 1 .. i - 1 : steps[j].ran)
                      /\ OutputRank \in e.ranks => e.new = <<>> \/ \A j \in 1 .. i - 1 : steps[j].ran
                      /\ \A q \in e.finished : ~Live(q)'
                      /\ \A q \in ToSet(e.reqs) : \/ stage'[q] \in {"running", "finished"}
                                                  \/ \E j \in i + 1 .. n : q \in steps[j].preempted
                      /\ \A q \in ReqId : stage'[q] \in {"new", "loaded"} => q \notin ToSet(e.reqs) /\ q \notin e.preempted
    BY <1>2, <1>18 DEF Orders
  <2>1. PICK e : e = steps[i]
    OBVIOUS
  <2>2. /\ StepParts \subseteq DOMAIN e /\ IsInjective(e.reqs) /\ e.prompt \in BOOLEAN
        /\ e.ran => e.reqs = <<>> \/ (OutputRank \in e.ranks /\ \A j \in 1 .. i - 1 : steps[j].ran)
        /\ OutputRank \in e.ranks => e.new = <<>> \/ \A j \in 1 .. i - 1 : steps[j].ran
        /\ \A q \in e.finished : ~Live(q)
        /\ \A q \in ToSet(e.reqs) : \/ stage[q] \in {"running", "finished"}
                                    \/ \E j \in i + 1 .. n : q \in steps[j].preempted
        /\ \A q \in ReqId : stage[q] \in {"new", "loaded"} => q \notin ToSet(e.reqs) /\ q \notin e.preempted
    BY <1>1, <1>2, <2>1 DEF Orders
  <2>3. r \notin ToSet(e.reqs) /\ r \notin e.preempted /\ e.reqs \in Seq(ReqId) /\ ToSet(e.reqs) \subseteq ReqId
        /\ e.finished \subseteq ReqId
    BY <1>2, <1>9, <2>1, KnownStep
  <2>4. \A q \in e.finished : ~Live(q)'
    BY <1>8, <2>2, <2>3
  <2>5. \A q \in ToSet(e.reqs) : \/ stage'[q] \in {"running", "finished"}
                                 \/ \E j \in i + 1 .. n : q \in steps[j].preempted
    BY <1>8, <2>2, <2>3
  <2>6. \A q \in ReqId : stage'[q] \in {"new", "loaded"} => q \notin ToSet(e.reqs) /\ q \notin e.preempted
    BY <1>8, <2>2, <2>3
  <2> QED BY <2>1, <2>2, <2>4, <2>5, <2>6
<1>22. Shapes(N2, B2)'
  <2> SUFFICES ASSUME NEW i \in 1 .. n
               PROVE  Formed(steps[i], goal, N2[i - 1], N2[i], B2[i - 1], B2[i])
    BY <1>6, <1>18 DEF Shapes
  <2>1. PICK e : e = steps[i]
    OBVIOUS
  <2>2. Formed(e, goal, N[i - 1], N[i], B[i - 1], B[i]) /\ i - 1 \in 0 .. n /\ i \in 0 .. n
    BY <1>1, <1>2, <1>19, <2>1 DEF Shapes
  <2>3. r \notin ToSet(e.reqs) /\ r \notin e.preempted /\ ToSet(e.reqs) \subseteq ReqId
    BY <1>2, <1>9, <2>1, KnownStep
  <2>4. PICK n0, n1, b0, b1 : n0 = N[i - 1] /\ n1 = N[i] /\ b0 = B[i - 1] /\ b1 = B[i]
    OBVIOUS
  <2>5. PICK x0, x1, y0, y1 : x0 = N2[i - 1] /\ x1 = N2[i] /\ y0 = B2[i - 1] /\ y1 = B2[i]
    OBVIOUS
  <2>6. /\ \A q \in ReqId \ {r} : x0[q] = n0[q] /\ x1[q] = n1[q] /\ y0[q] = b0[q] /\ y1[q] = b1[q]
        /\ x0[r] = x1[r] /\ y0[r] = y1[r]
    BY <1>17, <2>2, <2>4, <2>5
  <2>7. Formed(e, goal, n0, n1, b0, b1)
    BY <2>2, <2>4
  <2>8. Formed(e, goal, x0, x1, y0, y1)
    <3>1. ASSUME ~e.read, NEW q \in ToSet(e.reqs) PROVE Computes(e, q, goal[q], x0[q], x1[q], y0[q], y1[q])
      <4>1. q \in ReqId \ {r}
        BY <2>3
      <4> QED BY <2>6, <2>7, <3>1, <4>1 DEF Formed
    <3>2. ASSUME NEW q \in ReqId \ ToSet(e.reqs)
          PROVE  /\ q \in e.preempted => x1[q] = 0 /\ y1[q] = <<>>
                 /\ q \notin e.preempted => x1[q] = x0[q] /\ y1[q] = y0[q]
      <4>1. CASE q = r
        BY <2>3, <2>6, <4>1
      <4>2. CASE q # r
        BY <2>6, <2>7, <4>2 DEF Formed
      <4> QED BY <4>1, <4>2
    <3> QED BY <3>1, <3>2 DEF Formed
  <2> QED BY <2>1, <2>5, <2>8
<1>23. PlanAgrees(N2, B2)'
  <2>1. counted' \in [ReqId -> Nat] /\ goal' \in [ReqId -> Nat] /\ blocks' \in [ReqId -> Seq(1 .. engine.blocks)]
    BY <1>1, <1>5, <1>6, <1>7, <1>13 DEF PlanAgrees
  <2>2. \A q \in ReqId : IsInjective(blocks'[q])
    BY <1>1, <1>8, <1>13 DEF PlanAgrees
  <2>3. \A q \in ReqId : Settled(q)'
    <3>1. Settled(r)'
      BY <1>3, <1>6, <1>8, <1>12 DEF Settled
    <3>2. \A q \in ReqId \ {r} : Settled(q)'
      BY <1>1, <1>6, <1>8 DEF PlanAgrees, Settled
    <3> QED BY <3>1, <3>2
  <2>4. \A q, s \in ReqId : q # s => ToSet(blocks'[q]) \cap ToSet(blocks'[s]) = {}
    <3> SUFFICES ASSUME NEW q \in ReqId, NEW s \in ReqId, q # s
                 PROVE  ToSet(blocks'[q]) \cap ToSet(blocks'[s]) = {}
      OBVIOUS
    <3>1. CASE q = r
      <4>1. blocks'[q] = given /\ blocks'[s] = blocks[s]
        BY <1>8, <3>1
      <4> QED BY <1>13, <4>1
    <3>2. CASE s = r
      <4>1. blocks'[s] = given /\ blocks'[q] = blocks[q]
        BY <1>8, <3>2
      <4> QED BY <1>13, <4>1
    <3>3. CASE q # r /\ s # r
      BY <1>1, <1>8, <3>3 DEF PlanAgrees
    <3> QED BY <3>1, <3>2, <3>3
  <2>5. \A q \in ReqId : Live(q)' => N2[n][q] = counted'[q] /\ B2[n][q] = blocks'[q]
    <3>1. n \in 0 .. n
      BY <1>2
    <3>2. \A q \in ReqId : Live(q) => N[n][q] = counted[q] /\ B[n][q] = blocks[q]
      BY <1>1, <1>2 DEF PlanAgrees
    <3>3. N2[n][r] = start /\ B2[n][r] = given
      BY <1>17, <3>1
    <3>4. \A q \in ReqId : q # r => N2[n][q] = N[n][q] /\ B2[n][q] = B[n][q]
      BY <1>17, <3>1
    <3> SUFFICES ASSUME NEW q \in ReqId, Live(q)' PROVE N2[n][q] = counted'[q] /\ B2[n][q] = blocks'[q]
      OBVIOUS
    <3>5. CASE q = r
      BY <1>8, <3>3, <3>5
    <3>6. CASE q # r
      BY <1>8, <3>2, <3>4, <3>6
    <3> QED BY <3>5, <3>6
  <2> QED BY <1>6, <1>18, <2>1, <2>2, <2>3, <2>4, <2>5 DEF PlanAgrees
<1>24. Room(N2, B2, f)'
  <2>1. f .. n = {n} /\ f + 1 .. n = {} /\ n \in 0 .. n
    BY <1>2, <1>10
  <2>2. \A q \in ReqId : Live(q) => Holds(B[n][q], N[n][q], engine.blocks)
    BY <1>1, <1>2, <1>10, <2>1 DEF Room
  <2>3. \A q \in ReqId : Live(q) => Holds(B2[n][q], N2[n][q], engine.blocks)
    <3>1. Holds(given, start, engine.blocks)
      BY <1>13 DEF Holds
    <3>2. N2[n][r] = start /\ B2[n][r] = given
      BY <1>17, <2>1
    <3>3. \A q \in ReqId : q # r => N2[n][q] = N[n][q] /\ B2[n][q] = B[n][q]
      BY <1>17, <2>1
    <3> SUFFICES ASSUME NEW q \in ReqId, Live(q) PROVE Holds(B2[n][q], N2[n][q], engine.blocks)
      OBVIOUS
    <3>4. CASE q = r
      BY <3>1, <3>2, <3>4
    <3>5. CASE q # r
      BY <2>2, <3>3, <3>5
    <3> QED BY <3>4, <3>5
  <2>4. \A i \in f .. n, q \in ReqId :
          Live(q)' \/ (i > f /\ q \in ToSet(steps[i].reqs)) => Holds(B2[i][q], N2[i][q], engine.blocks)
    BY <1>2, <1>8, <1>10, <2>1, <2>3
  <2> QED BY <1>6, <1>18, <2>1, <2>4 DEF Room
<1>25. \A i \in 1 .. 2 : \A q \in ReqId : /\ Yields(N2, i, q)' <=> Yields(N, i, q)
                                          /\ Owed(N2, i, q)' = Owed(N, i, q)
                                          /\ (Yields(N, i, q) => q # r /\ N2[i][q] = N[i][q])
  <2> SUFFICES ASSUME NEW i \in 1 .. 2, NEW q \in ReqId
               PROVE  /\ Yields(N2, i, q)' <=> Yields(N, i, q)
                      /\ (Yields(N, i, q) => q # r /\ N2[i][q] = N[i][q])
    BY DEF Owed
  <2>1. CASE ~(i <= n)
    BY <1>2, <1>18, <2>1 DEF Yields
  <2>2. CASE i <= n
    <3>1. i \in 1 .. n /\ i \in 0 .. n
      BY <1>2, <2>2
    <3>2. CASE q = r
      BY <1>9, <1>18, <3>1, <3>2 DEF Yields
    <3>3. CASE q # r
      BY <1>6, <1>17, <1>18, <3>1, <3>3 DEF Yields
    <3> QED BY <3>2, <3>3
  <2> QED BY <2>1, <2>2
<1>26. Answers(N2)'
  <2>1. DOMAIN texts' = ReqId /\ \A q \in ReqId : Len(texts'[q]) \in Nat \ {0} /\ texts'[q] = Text(q, Len(texts'[q]))
    BY <1>1, <1>6 DEF Answers
  <2>2. ASSUME NEW q \in ReqId, Live(q)
        PROVE  /\ Yields(N2, 1, q)' => N2[1][q] = Len(texts[q])
               /\ Yields(N2, 2, q)' => N2[2][q] = Len(texts[q]) + Owed(N2, 1, q)'
               /\ stage'[q] = "running" =>
                    /\ counted'[q] < goal[q] =>
                         Len(texts[q]) = goal[q] /\ ~Yields(N2, 1, q)' /\ ~Yields(N2, 2, q)'
                    /\ counted'[q] >= goal[q] =>
                         counted'[q] + 1 = Len(texts[q]) + Owed(N2, 1, q)' + Owed(N2, 2, q)'
    <3>1. /\ Yields(N, 1, q) => N[1][q] = Len(texts[q])
          /\ Yields(N, 2, q) => N[2][q] = Len(texts[q]) + Owed(N, 1, q)
          /\ stage[q] = "running" =>
               /\ counted[q] < goal[q] =>
                    Len(texts[q]) = goal[q] /\ ~Yields(N, 1, q) /\ ~Yields(N, 2, q)
               /\ counted[q] >= goal[q] =>
                    counted[q] + 1 = Len(texts[q]) + Owed(N, 1, q) + Owed(N, 2, q)
      BY <1>1, <2>2 DEF Answers
    <3>2. /\ Yields(N2, 1, q)' <=> Yields(N, 1, q) 
          /\ Yields(N2, 2, q)' <=> Yields(N, 2, q)
          /\ Owed(N2, 1, q)' = Owed(N, 1, q) /\ Owed(N2, 2, q)' = Owed(N, 2, q)
          /\ (Yields(N, 1, q) => N2[1][q] = N[1][q]) /\ (Yields(N, 2, q) => N2[2][q] = N[2][q])
      BY <1>25
    <3>3. stage'[q] = "running" => q # r /\ stage[q] = "running" /\ counted'[q] = counted[q]
      BY <1>8
    <3> QED BY <3>1, <3>2, <3>3
  <2> QED BY <1>6, <1>8, <2>1, <2>2 DEF Answers
<1>27. Results(N2)'
  <2>1. Lives' = Lives
    BY <1>8 DEF Lives
  <2> SUFFICES ASSUME NEW i \in 1 .. n, steps[i].ran PROVE Gives(steps[i], goal, N2[i], Lives)
    BY <1>6, <1>18, <2>1 DEF Results
  <2>2. PICK e, x, y : e = steps[i] /\ x = N[i] /\ y = N2[i]
    OBVIOUS
  <2>3. Gives(e, goal, x, Lives)
    BY <1>1, <1>2, <2>2 DEF Results
  <2>4. \A j \in DOMAIN e.reqs : e.reqs[j] \in ReqId \ {r}
    <3>1. /\ ToSet(e.reqs) \subseteq ReqId
          /\ \A j \in DOMAIN e.reqs : e.reqs[j] \in ToSet(e.reqs) /\ e.reqs[j] \in ReqId
      BY <1>2, <2>2, KnownStep
    <3>2. r \notin ToSet(e.reqs)
      BY <1>9, <2>2
    <3> QED BY <3>1, <3>2
  <2>5. \A q \in ReqId \ {r} : x[q] = y[q]
    BY <1>17, <1>19, <2>2
  <2>6. Gives(e, goal, y, Lives)
    BY <2>3, <2>4, <2>5 DEF Gives
  <2> QED BY <2>2, <2>6
<1>28. HostRows(B2, m)'
  <2>1. /\ DOMAIN blockRow = Slots /\ DOMAIN prefillLen = Slots
        /\ \A s \in Slots : (\A q \in ReqId : Seat(q) # s) => blockRow[s] = <<>>
        /\ \A q \in ReqId : Stays(q, m) => blockRow[Seat(q)] = B[m][q] /\ prefillLen[Seat(q)] = goal[q]
        /\ \A i \in 1 .. m : ~steps[i].read => Operands(steps[i], B[i], goal)
    BY <1>1 DEF HostRows
  <2>2. \A q \in ReqId : Seat(q)' = Seat(q) /\ (Stays(q, m)' <=> Stays(q, m))
    BY <1>6 DEF Seat, Stays
  <2>3. ~Stays(r, m)
    BY <1>14 DEF Stays
  <2>4. \A q \in ReqId : Stays(q, m) => blockRow[Seat(q)] = B2[m][q] /\ prefillLen[Seat(q)] = goal[q]
    BY <1>11, <1>17, <2>1, <2>3
  <2>5. ASSUME NEW i \in 1 .. m, ~steps[i].read PROVE Operands(steps[i], B2[i], goal)
    <3>1. PICK e, b, b2 : e = steps[i] /\ b = B[i] /\ b2 = B2[i]
      OBVIOUS
    <3>2. Operands(e, b, goal)
      BY <2>1, <2>5, <3>1
    <3>3. i \in 1 .. n /\ i \in 0 .. n
      BY <1>11
    <3>4. \A j \in DOMAIN e.reqs : e.reqs[j] \in ReqId \ {r}
      <4>1. /\ ToSet(e.reqs) \subseteq ReqId
            /\ \A j \in DOMAIN e.reqs : e.reqs[j] \in ToSet(e.reqs) /\ e.reqs[j] \in ReqId
        BY <1>2, <3>1, <3>3, KnownStep
      <4>2. r \notin ToSet(e.reqs)
        BY <1>9, <3>1, <3>3
      <4> QED BY <4>1, <4>2
    <3>5. \A q \in ReqId \ {r} : b2[q] = b[q]
      BY <1>17, <3>1, <3>3
    <3>6. Operands(e, b2, goal)
      BY <3>2, <3>4, <3>5 DEF Operands
    <3> QED BY <3>1, <3>6
  <2> QED BY <1>6, <2>1, <2>2, <2>4, <2>5 DEF HostRows, Seat
<1>29. Cache(N2, B2, f)'
  <2>1. DOMAIN kv = 0 .. (engine.blocks + 1) * BlockSize - 1
    BY <1>1 DEF Cache
  <2>2. DOMAIN kv' = 0 .. (engine'.blocks + 1) * BlockSize - 1
    BY <1>5, <1>6, <2>1
  <2>3. n \in 0 .. n
    BY <1>2
  <2>5. ASSUME NEW q \in ReqId, Live(q), NEW p \in 0 .. N2[n][q] - 1
        PROVE  kv'[CellIn(B2[n][q], p)] = <<q, p + 1>>
    <3>1. CASE q = r
      <4>1. B2[n][q] = given /\ p \in 0 .. start - 1 /\ p \in Nat
        BY <1>17, <2>3, <2>5, <3>1
      <4>2. PICK c : c = CellIn(given, p)
        OBVIOUS
      <4>3. c \in DOMAIN kv
        BY <1>2, <1>13, <2>1, <4>1, <4>2, CellOf
      <4>4. ASSUME NEW p2 \in 0 .. start - 1, c = CellIn(given, p2) PROVE p2 = p
        <5>1. PICK K : K = engine.blocks
          OBVIOUS
        <5>2. K \in Nat /\ given \in Seq(1 .. K) /\ Within(p, given) /\ Within(p2, given)
              /\ CellIn(given, p) = CellIn(given, p2)
          BY <1>2, <1>13, <4>1, <4>2, <4>4, <5>1
        <5>3. IsInjective(given)
          BY <1>13
        <5> QED BY <5>2, <5>3, CellsOfLists
      <4>5. (CHOOSE p2 \in 0 .. start - 1 : c = CellIn(given, p2)) = p
        BY <4>1, <4>2, <4>4
      <4>6. kv'[c] = <<r, 1 + (CHOOSE p2 \in 0 .. start - 1 : c = CellIn(given, p2))>>
        BY <1>5, <4>1, <4>2, <4>3
      <4>7. 1 + p = p + 1
        BY <4>1
      <4>8. kv'[c] = <<r, p + 1>>
        BY <4>5, <4>6, <4>7
      <4> QED BY <3>1, <4>1, <4>2, <4>8
    <3>2. CASE q # r
      <4>1. B2[n][q] = B[n][q] /\ N2[n][q] = N[n][q]
        BY <1>17, <2>3, <3>2
      <4>2. PICK b : b = B[n][q]
        OBVIOUS
      <4>3. b = blocks[q] /\ b \in Seq(1 .. engine.blocks)
        BY <1>1, <1>2, <1>7, <2>5, <4>2 DEF PlanAgrees
      <4>4. p \in 0 .. N[n][q] - 1
        BY <2>5, <4>1
      <4>5. Within(p, b)
        <5>1. n \in f .. Len(steps)
          BY <1>2, <1>10
        <5>2. Holds(B[n][q], N[n][q], engine.blocks)
          BY <1>1, <2>5, <5>1 DEF Room
        <5> QED BY <4>2, <4>4, <5>2 DEF Holds
      <4>6. CellIn(b, p) \in DOMAIN kv
        BY <1>2, <2>1, <4>3, <4>5, CellOf
      <4>7. ~ \E p2 \in 0 .. start - 1 : CellIn(b, p) = CellIn(given, p2)
        <5> SUFFICES ASSUME NEW p2 \in 0 .. start - 1, CellIn(b, p) = CellIn(given, p2)
                     PROVE  FALSE
          OBVIOUS
        <5>1. ToSet(b) \cap ToSet(given) # {}
          <6>1. PICK K : K = engine.blocks
            OBVIOUS
          <6>2. /\ K \in Nat /\ given \in Seq(1 .. K) /\ b \in Seq(1 .. K) /\ Within(p, b) /\ Within(p2, given)
                /\ CellIn(b, p) = CellIn(given, p2)
            BY <1>2, <1>13, <4>3, <4>5, <6>1
          <6> QED BY <6>2, CellsOfLists
        <5> QED BY <1>13, <4>3, <5>1
      <4>8. kv'[CellIn(b, p)] = kv[CellIn(b, p)]
        BY <1>5, <4>6, <4>7
      <4>9. kv[CellIn(b, p)] = <<q, p + 1>>
        BY <1>1, <1>10, <2>5, <4>2, <4>4 DEF Cache, CacheHolds
      <4> QED BY <4>1, <4>2, <4>8, <4>9
    <3> QED BY <3>1, <3>2
  <2> QED BY <1>8, <1>10, <2>2, <2>5 DEF Cache, CacheHolds
<1>30. Device(N2, f, m)'
  <2>1. /\ DOMAIN history = Slots /\ DOMAIN computedBy = Slots
        /\ DOMAIN lastToken = Slots /\ DOMAIN carry = Slots
        /\ \A q \in ReqId : Live(q) /\ Stays(q, m) => Ready(Seat(q), q, goal[q], N[f][q])
    BY <1>1 DEF Device
  <2>2. \A q \in ReqId : Seat(q)' = Seat(q) /\ (Stays(q, m)' <=> Stays(q, m))
    BY <1>6 DEF Seat, Stays
  <2>3. ~Stays(r, m)
    BY <1>14 DEF Stays
  <2>4. \A q \in ReqId : Live(q)' /\ Stays(q, m)' => Ready(Seat(q), q, goal[q], N2[f][q])
    <3>1. f \in 0 .. n
      BY <1>2, <1>10
    <3> QED BY ZenonT(60), <1>8, <1>17, <2>1, <2>2, <2>3, <3>1
  <2>5. f + 1 .. m = {}
    BY <1>2, <1>10, <1>11
  <2>7. \A q \in ReqId : Live(q)' /\ Stays(q, m)' => Ready(Seat(q), q, goal[q], N2[f][q])'
    BY <1>6, <2>2, <2>4 DEF Ready, Seat
  <2> QED BY <1>6, <2>1, <2>5, <2>7 DEF Device
<1>31. Ledger(N2, B2, f, m)'
  BY <1>20, <1>21, <1>22, <1>23, <1>24, <1>26, <1>27, <1>28, <1>29, <1>30 DEF Ledger
<1> QED BY <1>31

(* What the scheduler may send: of every request some tokens it has, and of a *)
(* prompt none past its end; one token of a request that decodes.           *)
Due(g, c, s, prompt) ==
  /\ s \in Nat \ {0}
  /\ prompt => c < g /\ c + s <= g
  /\ ~prompt => s = 1 /\ c < ModelLen /\ (c + 1 = g \/ (c >= g /\ c + 1 < ModelLen))
(* What a step may be planned of. *)
Sendable(new, old, size, prompt, evicted) ==
  /\ new \in Seq(ReqId) /\ old \in Seq(ReqId) /\ new \o old \in Seq(ReqId)
  /\ IsInjective(new \o old) /\ ToSet(new \o old) = ToSet(new) \cup ToSet(old)
  /\ ToSet(new) \cap ToSet(old) = {}
  /\ prompt \in BOOLEAN /\ evicted \subseteq Seated /\ ToSet(old) \subseteq Seated \ evicted
  /\ \A r \in ToSet(new) : /\ stage[r] \in {"loaded", "preempted"} /\ counted[r] < Len(texts[r])
                           /\ Due(Len(texts[r]), counted[r], size[r], prompt)
  /\ \A r \in ToSet(old) : Due(goal[r], counted[r], size[r], prompt)
  /\ Fits(ToSet(new \o old), [r \in ToSet(new \o old) |-> counted[r] + size[r]], evicted)

(* A list of one list and then another, of other members. *)
LEMMA ConcatInjective ==
  ASSUME NEW S, NEW s \in Seq(S), NEW t \in Seq(S), IsInjective(s), IsInjective(t),
         ToSet(s) \cap ToSet(t) = {}
  PROVE  IsInjective(s \o t)
<1>1. PICK m \in Nat, n \in Nat : m = Len(s) /\ n = Len(t)
  BY LenProperties
<1>2. PICK u : u = s \o t
  OBVIOUS
<1>3. /\ u \in Seq(S) /\ Len(u) = m + n
      /\ \A i \in 1 .. m + n : u[i] = IF i <= m THEN s[i] ELSE t[i - m]
  BY <1>1, <1>2, ConcatProperties
<1>4. DOMAIN u = 1 .. m + n /\ DOMAIN s = 1 .. m /\ DOMAIN t = 1 .. n
  BY <1>1, <1>3, LenProperties
<1>5. (\A i \in 1 .. m : s[i] \in ToSet(s)) /\ (\A i \in 1 .. n : t[i] \in ToSet(t))
  BY <1>4 DEF ToSet
<1>6. (\A i, j \in 1 .. m : s[i] = s[j] => i = j) /\ (\A i, j \in 1 .. n : t[i] = t[j] => i = j)
  BY <1>4 DEF IsInjective
<1>7. ASSUME NEW i \in 1 .. m + n, NEW j \in 1 .. m + n, u[i] = u[j] PROVE i = j
  <2>1. CASE i <= m /\ j <= m
    <3>1. i \in 1 .. m /\ j \in 1 .. m
      BY <2>1
    <3> QED BY <1>3, <1>6, <1>7, <2>1, <3>1
  <2>2. CASE i <= m /\ ~(j <= m)
    <3>1. i \in 1 .. m /\ j - m \in 1 .. n
      BY <2>2
    <3> QED BY <1>3, <1>5, <1>7, <2>2, <3>1
  <2>3. CASE ~(i <= m) /\ j <= m
    <3>1. j \in 1 .. m /\ i - m \in 1 .. n
      BY <2>3
    <3> QED BY <1>3, <1>5, <1>7, <2>3, <3>1
  <2>4. CASE ~(i <= m) /\ ~(j <= m)
    <3>1. i - m \in 1 .. n /\ j - m \in 1 .. n
      BY <2>4
    <3>2. t[i - m] = t[j - m]
      BY <1>3, <1>7, <2>4
    <3>3. i - m = j - m
      BY <1>6, <3>1, <3>2
    <3> QED BY <3>3
  <2> QED BY <2>1, <2>2, <2>3, <2>4
<1> QED BY <1>2, <1>4, <1>7 DEF IsInjective

(* What Send does, the step it sends and the blocks it gives. *)
Sending(new, old, size, prompt, evicted, reqs, n, given, e) ==
  /\ given = Given(reqs, [r \in ToSet(reqs) |-> counted[r] + size[r]], evicted)
  /\ e = StepFor(new, old, size, prompt, given, evicted)
  /\ n \in 0 .. 2 /\ Len(steps') = n + 1 /\ steps'[n + 1] = e /\ \A i \in 1 .. n : steps'[i] = steps[i]
  /\ \A r \in ReqId :
       /\ stage'[r] = IF r \in ToSet(new) THEN "running"
                      ELSE IF r \in evicted THEN "preempted" ELSE stage[r]
       /\ counted'[r] = IF r \in ToSet(reqs) THEN counted[r] + size[r]
                        ELSE IF r \in evicted THEN 0 ELSE counted[r]
       /\ goal'[r] = IF r \in ToSet(new) THEN Len(texts[r]) ELSE goal[r]
       /\ blocks'[r] = IF r \in ToSet(reqs) THEN blocks[r] \o given[r]
                       ELSE IF r \in evicted THEN <<>> ELSE blocks[r]
  /\ DOMAIN counted' = ReqId /\ DOMAIN goal' = ReqId /\ DOMAIN blocks' = ReqId
  /\ counted' = [r \in ReqId |-> counted'[r]] /\ goal' = [r \in ReqId |-> goal'[r]]
  /\ blocks' = [r \in ReqId |-> blocks'[r]]

(* Send is that. *)
LEMMA SendActs ==
  ASSUME RunnerV2Assumption, SlotInv, NEW new, NEW old, NEW size, NEW prompt, NEW evicted,
         Sendable(new, old, size, prompt, evicted), Send(new, old, size, prompt, evicted),
         NEW reqs, reqs = new \o old, NEW n, n = Len(steps)
  PROVE  \E given, e : Sending(new, old, size, prompt, evicted, reqs, n, given, e)
<1>1. PICK given : given = Given(reqs, [r \in ToSet(reqs) |-> counted[r] + size[r]], evicted)
  OBVIOUS
<1>2. PICK e : e = StepFor(new, old, size, prompt, given, evicted)
  OBVIOUS
<1>3. steps' = Append(steps, e)
  BY <1>1, <1>2 DEF Send
<1>4. /\ stage' = [r \in ReqId |-> IF r \in ToSet(new) THEN "running"
                                   ELSE IF r \in evicted THEN "preempted" ELSE stage[r]]
      /\ counted' = [r \in ReqId |-> IF r \in ToSet(reqs) THEN counted[r] + size[r]
                                     ELSE IF r \in evicted THEN 0 ELSE counted[r]]
      /\ goal' = [r \in ReqId |-> IF r \in ToSet(new) THEN Len(texts[r]) ELSE goal[r]]
      /\ blocks' = [r \in ReqId |-> IF r \in ToSet(reqs) THEN blocks[r] \o given[r]
                                    ELSE IF r \in evicted THEN <<>> ELSE blocks[r]]
  BY <1>1 DEF Send
<1>5. n \in 0 .. 2 /\ IsList(steps)
  BY QueueLength
<1>6. Len(steps') = n + 1 /\ steps'[n + 1] = e /\ \A i \in 1 .. n : steps'[i] = steps[i]
  BY <1>3, <1>5, ListAppend
<1>7. Sending(new, old, size, prompt, evicted, reqs, n, given, e)
  BY <1>1, <1>2, <1>4, <1>5, <1>6 DEF Sending
<1> QED BY <1>7

(* The parts of the step sent. *)
SentAs(e, new, size, prompt, given, evicted, reqs) ==
  /\ StepParts \subseteq DOMAIN e /\ e.new = new /\ e.reqs = reqs /\ e.prompt = prompt
  /\ e.at = [r \in ToSet(reqs) |-> counted[r]] /\ e.size = [r \in ToSet(reqs) |-> size[r]]
  /\ e.given = [r \in ToSet(reqs) |-> IF r \in ToSet(new) THEN blocks[r] \o given[r] ELSE given[r]]
  /\ e.texts = [r \in ToSet(new) |-> texts[r]] /\ e.finished = ended /\ e.preempted = evicted
  /\ e.ranks = {} /\ (e.ran <=> reqs = <<>>) /\ e.read = FALSE /\ e.out = <<>>

(* StepFor makes such a step. *)
LEMMA SentParts ==
  ASSUME NEW new, NEW old, NEW size, NEW prompt, NEW given, NEW evicted, NEW reqs, reqs = new \o old,
         NEW e, e = StepFor(new, old, size, prompt, given, evicted)
  PROVE  SentAs(e, new, size, prompt, given, evicted, reqs)
BY DEF StepFor, StepParts, SentAs

(* Whose request is new is in no step of the queue, and has no slot. *)
LEMMA NewcomersAbsent ==
  ASSUME RunnerV2Assumption, SlotInv, Orders, Len(steps) < engine.depth,
         NEW r \in ReqId, stage[r] \in {"loaded", "preempted"}, NEW i \in 1 .. Len(steps)
  PROVE  r \notin ToSet(steps[i].reqs)
<1>1. PICK n \in 0 .. 2 : n = Len(steps) /\ n < engine.depth /\ engine.depth \in 1 .. 2
  BY QueueLength
<1>2. i + 1 .. n = {}
  <2>1. n <= 1 /\ i \in 1 .. n
    BY <1>1
  <2> QED BY <2>1
<1>3. /\ \A q \in ToSet(steps[i].reqs) : \/ stage[q] \in {"running", "finished"}
                                         \/ \E j \in i + 1 .. n : q \in steps[j].preempted
  BY <1>1 DEF Orders
<1> QED BY <1>2, <1>3

(* A step sent goes into the ledger after those in the queue, and counts as  *)
(* run at once when it has nothing to compute.                              *)
LEMMA SendLedger ==
  ASSUME RunnerV2Assumption, SlotInv, NEW N, NEW B, NEW f, NEW m, Ledger(N, B, f, m),
         Len(steps) < engine.depth, NEW new, NEW old, NEW size, NEW prompt, NEW evicted,
         Sendable(new, old, size, prompt, evicted), Send(new, old, size, prompt, evicted)
  PROVE  \E N2, B2, f2 : Ledger(N2, B2, f2, m)'
<1>1. /\ Ghosts(N, B) /\ Positions(f, m) /\ Orders
      /\ Shapes(N, B) /\ PlanAgrees(N, B) /\ Room(N, B, f)
      /\ Answers(N) /\ Results(N)
      /\ HostRows(B, m) /\ Cache(N, B, f) /\ Device(N, f, m)
  BY DEF Ledger
<1>2. PICK n, reqs, K : n = Len(steps) /\ reqs = new \o old /\ K = engine.blocks
  OBVIOUS
<1>3. n \in 0 .. 1 /\ engine \in Engines /\ K \in Nat /\ engine.depth \in 1 .. 2
  BY <1>2, QueueLength
<1>40. PICK given, e : Sending(new, old, size, prompt, evicted, reqs, n, given, e)
  BY <1>2, SendActs
<1>4. /\ given = Given(reqs, [r \in ToSet(reqs) |-> counted[r] + size[r]], evicted)
      /\ e = StepFor(new, old, size, prompt, given, evicted)
      /\ n \in 0 .. 2 /\ Len(steps') = n + 1 /\ steps'[n + 1] = e /\ \A i \in 1 .. n : steps'[i] = steps[i]
      /\ \A r \in ReqId :
           /\ stage'[r] = IF r \in ToSet(new) THEN "running"
                          ELSE IF r \in evicted THEN "preempted" ELSE stage[r]
           /\ counted'[r] = IF r \in ToSet(reqs) THEN counted[r] + size[r]
                            ELSE IF r \in evicted THEN 0 ELSE counted[r]
           /\ goal'[r] = IF r \in ToSet(new) THEN Len(texts[r]) ELSE goal[r]
           /\ blocks'[r] = IF r \in ToSet(reqs) THEN blocks[r] \o given[r]
                           ELSE IF r \in evicted THEN <<>> ELSE blocks[r]
      /\ DOMAIN counted' = ReqId /\ DOMAIN goal' = ReqId /\ DOMAIN blocks' = ReqId
      /\ counted' = [r \in ReqId |-> counted'[r]] /\ goal' = [r \in ReqId |-> goal'[r]]
      /\ blocks' = [r \in ReqId |-> blocks'[r]]
  BY <1>40 DEF Sending
<1>5. /\ StepParts \subseteq DOMAIN e /\ e.new = new /\ e.reqs = reqs /\ e.prompt = prompt
      /\ e.at = [r \in ToSet(reqs) |-> counted[r]] /\ e.size = [r \in ToSet(reqs) |-> size[r]]
      /\ e.given = [r \in ToSet(reqs) |-> IF r \in ToSet(new) THEN blocks[r] \o given[r] ELSE given[r]]
      /\ e.texts = [r \in ToSet(new) |-> texts[r]] /\ e.finished = ended /\ e.preempted = evicted
      /\ e.ranks = {} /\ (e.ran <=> reqs = <<>>) /\ e.read = FALSE /\ e.out = <<>>
  <2>1. SentAs(e, new, size, prompt, given, evicted, reqs)
    BY <1>2, <1>4, SentParts
  <2> QED BY <2>1 DEF SentAs
<1>6. UNCHANGED <<engine, texts, slotOf, freeSlots, quarantined, lingering, blockRow, prefillLen,
                  history, computedBy, lastToken, carry, kv>>
  BY DEF Send, hostState, deviceState
<1>7. /\ new \in Seq(ReqId) /\ old \in Seq(ReqId) /\ reqs \in Seq(ReqId) /\ IsInjective(reqs)
      /\ ToSet(reqs) = ToSet(new) \cup ToSet(old) /\ ToSet(new) \cap ToSet(old) = {}
      /\ prompt \in BOOLEAN /\ evicted \subseteq Seated /\ ToSet(old) \subseteq Seated \ evicted
      /\ \A r \in ToSet(new) : /\ stage[r] \in {"loaded", "preempted"} /\ counted[r] < Len(texts[r])
                               /\ Due(Len(texts[r]), counted[r], size[r], prompt)
      /\ \A r \in ToSet(old) : Due(goal[r], counted[r], size[r], prompt)
      /\ Fits(ToSet(reqs), [r \in ToSet(reqs) |-> counted[r] + size[r]], evicted)
      /\ ToSet(reqs) \subseteq ReqId /\ ToSet(new) \subseteq ReqId /\ Seated \subseteq ReqId
  <2>1. ToSet(reqs) \subseteq ReqId
    BY <1>2, ListMembers DEF Sendable
  <2> QED BY <1>2, <2>1 DEF Sendable, Seated
<1>8. /\ counted \in [ReqId -> Nat] /\ goal \in [ReqId -> Nat] /\ blocks \in [ReqId -> Seq(1 .. K)]
      /\ \A r \in ReqId : IsInjective(blocks[r]) /\ Settled(r)
      /\ \A r, q \in ReqId : r # q => ToSet(blocks[r]) \cap ToSet(blocks[q]) = {}
      /\ \A r \in ReqId : Live(r) => N[n][r] = counted[r] /\ B[n][r] = blocks[r]
  BY <1>1, <1>2 DEF PlanAgrees
<1>9. /\ DOMAIN texts = ReqId /\ \A r \in ReqId : Len(texts[r]) \in Nat \ {0} /\ texts[r] = Text(r, Len(texts[r]))
  BY <1>1 DEF Answers
<1>10. /\ \A r \in ReqId : Live(r)' <=> Live(r)
       /\ \A r \in ToSet(new) \cup evicted \cup ToSet(old) : Live(r)
       /\ \A r \in evicted : r \notin ToSet(reqs)
  <2>1. \A r \in evicted : stage[r] = "running"
    BY <1>7 DEF Seated
  <2>2. \A r \in ToSet(old) : stage[r] = "running"
    BY <1>7 DEF Seated
  <2> QED BY <1>4, <1>7, <2>1, <2>2 DEF Live
<1>11. \A i \in 1 .. n : \A r \in ToSet(new) : r \notin ToSet(steps[i].reqs)
  BY <1>2, <1>7, <1>1, NewcomersAbsent
<1>12. \A i \in 1 .. n : \A r \in ToSet(steps[i].reqs) : r \in ReqId /\ goal'[r] = goal[r]
  <2> SUFFICES ASSUME NEW i \in 1 .. n, NEW r \in ToSet(steps[i].reqs) PROVE r \in ReqId /\ goal'[r] = goal[r]
    OBVIOUS
  <2>1. ToSet(steps[i].reqs) \subseteq ReqId
    BY <1>2, KnownStep
  <2> QED BY <1>4, <1>11, <2>1
<1>13. ASSUME NEW r \in ToSet(reqs)
       PROVE  /\ size[r] \in Nat \ {0} /\ counted'[r] = counted[r] + size[r] /\ counted'[r] \in Nat
              /\ Due(goal'[r], counted[r], size[r], prompt)
              /\ r \in ToSet(new) => counted[r] < goal'[r] /\ goal'[r] = Len(texts[r])
  <2>1. CASE r \in ToSet(new)
    <3>1. goal'[r] = Len(texts[r]) /\ Due(Len(texts[r]), counted[r], size[r], prompt) /\ counted[r] < Len(texts[r])
      BY <1>4, <1>7, <2>1
    <3>2. size[r] \in Nat \ {0}
      BY <3>1 DEF Due
    <3>3. PICK c \in Nat, k \in Nat : c = counted[r] /\ k = size[r]
      BY <1>7, <1>8, <3>2
    <3>4. r \in ReqId /\ counted'[r] = counted[r] + size[r]
      BY <1>4, <1>7
    <3>5. counted'[r] \in Nat
      BY <3>3, <3>4
    <3> QED BY <3>1, <3>2, <3>4, <3>5
  <2>2. CASE r \in ToSet(old)
    <3>1. goal'[r] = goal[r] /\ Due(goal[r], counted[r], size[r], prompt) /\ r \notin ToSet(new)
      BY <1>4, <1>7, <2>2
    <3>2. size[r] \in Nat \ {0}
      BY <3>1 DEF Due
    <3>3. PICK c \in Nat, k \in Nat : c = counted[r] /\ k = size[r]
      BY <1>7, <1>8, <3>2
    <3>4. r \in ReqId /\ counted'[r] = counted[r] + size[r]
      BY <1>4, <1>7
    <3>5. counted'[r] \in Nat
      BY <3>3, <3>4
    <3> QED BY <3>1, <3>2, <3>4, <3>5
  <2> QED BY <1>7, <2>1, <2>2
<1>14. Grants(given, reqs, [r \in ToSet(reqs) |-> counted[r] + size[r]], evicted)
  <2>1. PICK upto : upto = [r \in ToSet(reqs) |-> counted[r] + size[r]]
    OBVIOUS
  <2>2. Counts(reqs, upto)
    <3> SUFFICES ASSUME NEW r \in ToSet(reqs) PROVE Lacks(r, upto[r]) \in Nat
      BY DEF Counts
    <3>1. PICK k \in Nat : k = upto[r]
      BY <1>13, <2>1
    <3>2. r \in ReqId /\ Len(blocks[r]) \in Nat
      BY <1>7, <1>8, LenProperties
    <3>3. Lacks(r, k) \in Nat
      BY <3>2, LacksNat
    <3> QED BY <3>1, <3>3
  <2>3. Fits(ToSet(reqs), upto, evicted) /\ given = Given(reqs, upto, evicted)
    BY <1>4, <1>7, <2>1
  <2> QED BY <1>3, <1>7, <2>1, <2>2, <2>3, GivenBlocks
<1>15. ASSUME NEW r \in ToSet(reqs)
       PROVE  /\ given[r] \in Seq(1 .. K) /\ IsInjective(given[r]) /\ Len(given[r]) \in Nat
              /\ \A q \in ReqId \ evicted : ToSet(given[r]) \cap ToSet(blocks[q]) = {}
              /\ \A q \in ToSet(reqs) : q # r => ToSet(given[r]) \cap ToSet(given[q]) = {}
              /\ blocks'[r] = blocks[r] \o given[r] /\ blocks'[r] \in Seq(1 .. K)
              /\ Len(blocks'[r]) \in Nat /\ \A p \in 0 .. counted'[r] - 1 : Within(p, blocks'[r])
              /\ ToSet(blocks'[r]) = ToSet(blocks[r]) \cup ToSet(given[r]) /\ IsInjective(blocks'[r])
  <2>1. PICK upto : upto = [q \in ToSet(reqs) |-> counted[q] + size[q]]
    OBVIOUS
  <2>2. Grants(given, reqs, upto, evicted)
    BY <1>14, <2>1
  <2>3. /\ given[r] \in Seq(FreeBlocks(evicted)) /\ Len(given[r]) = Lacks(r, upto[r])
        /\ IsInjective(given[r]) /\ ToSet(given[r]) \subseteq FreeBlocks(evicted)
        /\ \A q \in ToSet(reqs) : q # r => ToSet(given[r]) \cap ToSet(given[q]) = {}
    BY <2>2 DEF Grants
  <2>4. FreeBlocks(evicted) \subseteq 1 .. K /\ \A q \in ReqId \ evicted : ToSet(blocks[q]) \cap FreeBlocks(evicted) = {}
    BY <1>2 DEF FreeBlocks
  <2>5. given[r] \in Seq(1 .. K) /\ Len(given[r]) \in Nat
    BY <2>3, <2>4, WiderSeq
  <2>6. r \in ReqId /\ r \notin evicted /\ blocks[r] \in Seq(1 .. K)
    BY <1>7, <1>8, <1>10
  <2>7. blocks'[r] = blocks[r] \o given[r]
    BY <1>4, <2>6
  <2>8. PICK b, x, c : b = blocks[r] /\ x = given[r] /\ c = blocks'[r]
    OBVIOUS
  <2>9. /\ b \in Seq(1 .. K) /\ x \in Seq(1 .. K) /\ c = b \o x
        /\ IsInjective(b) /\ IsInjective(x) /\ ToSet(b) \cap ToSet(x) = {}
    BY <1>8, <2>3, <2>4, <2>5, <2>6, <2>7, <2>8
  <2>10. c \in Seq(1 .. K) /\ ToSet(c) = ToSet(b) \cup ToSet(x) /\ Len(c) = Len(b) + Len(x) /\ IsInjective(c)
    BY <2>9, ConcatSets, ConcatInjective
  <2>11. ASSUME NEW p \in 0 .. counted'[r] - 1 PROVE Within(p, c)
    <3>1. PICK k \in Nat : k = counted'[r]
      BY <1>13
    <3>2. PICK l \in Nat : l = Lacks(r, k) /\ k <= (Len(b) + l) * BlockSize
      <4>1. Len(blocks[r]) \in Nat
        BY <2>6, LenProperties
      <4>2. Lacks(r, k) \in Nat /\ k <= (Len(blocks[r]) + Lacks(r, k)) * BlockSize
        BY <2>6, <4>1, LacksNat
      <4> QED BY <2>8, <4>2
    <3>3. upto[r] = k
      BY <1>13, <2>1, <3>1
    <3>4. Len(x) = l
      BY <2>3, <2>8, <3>2, <3>3
    <3>5. PICK z \in Nat : z = Len(c) /\ k <= z * BlockSize
      <4>1. Len(c) \in Nat
        BY <2>10, LenProperties
      <4> QED BY <2>10, <3>2, <3>4, <4>1
    <3>6. z * BlockSize \in Int
      BY DEF RunnerV2Assumption
    <3>7. p \in Nat /\ p < z * BlockSize
      BY <3>1, <3>5, <3>6
    <3> QED BY <3>5, <3>7 DEF Within
  <2>12. Len(c) \in Nat
    BY <2>10, LenProperties
  <2> QED BY <2>3, <2>4, <2>5, <2>7, <2>8, <2>10, <2>11, <2>12
<1>16. PICK N2, B2 :
         /\ N2 = [i \in 0 .. n + 1 |-> IF i = n + 1
                    THEN [r \in ReqId |-> IF r \in ToSet(reqs) \cup evicted THEN counted'[r] ELSE N[n][r]] ELSE N[i]]
         /\ B2 = [i \in 0 .. n + 1 |-> IF i = n + 1
                    THEN [r \in ReqId |-> IF r \in ToSet(reqs) \cup evicted THEN blocks'[r] ELSE B[n][r]] ELSE B[i]]
  OBVIOUS
<1>17. /\ N \in [0 .. n -> [ReqId -> Nat]] /\ B \in [0 .. n -> [ReqId -> Seq(Nat)]]
  BY <1>1, <1>2 DEF Ghosts
<1>18. /\ \A i \in 0 .. n : i \in 0 .. n + 1 /\ N2[i] = N[i] /\ B2[i] = B[i]
       /\ \A r \in ReqId : /\ r \in ToSet(reqs) \cup evicted => N2[n + 1][r] = counted'[r] /\ B2[n + 1][r] = blocks'[r]
                           /\ r \notin ToSet(reqs) \cup evicted => N2[n + 1][r] = N[n][r] /\ B2[n + 1][r] = B[n][r]
       /\ \A i \in 0 .. n + 1 : i \in 0 .. n \/ i = n + 1
       /\ \A i \in 1 .. n + 1 : i \in 1 .. n \/ i = n + 1
       /\ \A i \in 1 .. n : i - 1 \in 0 .. n /\ i \in 0 .. n
  <2>1. \A i \in 0 .. n : i \in 0 .. n + 1 /\ i # n + 1
    BY <1>3
  <2>2. n + 1 \in 0 .. n + 1 /\ \A i \in 0 .. n + 1 : i \in 0 .. n \/ i = n + 1
    BY <1>3
  <2>3. \A i \in 1 .. n + 1 : i \in 1 .. n \/ i = n + 1
    BY <1>3
  <2>4. \A i \in 1 .. n : i - 1 \in 0 .. n /\ i \in 0 .. n
    BY <1>3
  <2> QED BY <1>16, <2>1, <2>2, <2>3, <2>4
<1>19. Ghosts(N2, B2)'
  <2>1. ASSUME NEW r \in ReqId PROVE N2[n + 1][r] \in Nat /\ B2[n + 1][r] \in Seq(Nat)
    <3>1. CASE r \in ToSet(reqs)
      <4>1. counted'[r] \in Nat /\ blocks'[r] \in Seq(1 .. K)
        BY <1>13, <1>15, <3>1
      <4>2. blocks'[r] \in Seq(Nat)
        <5>1. 1 .. K \subseteq Nat
          BY <1>3
        <5> QED BY <4>1, <5>1, WiderSeq
      <4> QED BY <1>18, <3>1, <4>1, <4>2
    <3>2. CASE r \notin ToSet(reqs) /\ r \in evicted
      <4>1. counted'[r] = 0 /\ blocks'[r] = <<>>
        BY <1>4, <3>2
      <4>2. <<>> \in Seq(Nat)
        BY EmptyList
      <4>3. N2[n + 1][r] = 0 /\ B2[n + 1][r] = <<>>
        BY <1>18, <3>2, <4>1
      <4> QED BY <4>2, <4>3
    <3>3. CASE r \notin ToSet(reqs) \cup evicted
      <4>1. n \in 0 .. n
        BY <1>3
      <4> QED BY <1>17, <1>18, <3>3, <4>1
    <3> QED BY <3>1, <3>2, <3>3
  <2>2. N2[n + 1] \in [ReqId -> Nat] /\ B2[n + 1] \in [ReqId -> Seq(Nat)]
    <3>1. n + 1 \in 0 .. n + 1
      BY <1>3
    <3>2. N2[n + 1] = [r \in ReqId |-> N2[n + 1][r]] /\ B2[n + 1] = [r \in ReqId |-> B2[n + 1][r]]
      BY <1>16, <3>1
    <3> QED BY <2>1, <3>2
  <2>3. \A i \in 0 .. n + 1 : N2[i] \in [ReqId -> Nat] /\ B2[i] \in [ReqId -> Seq(Nat)]
    BY <1>17, <1>18, <2>2
  <2>4. N2 = [i \in 0 .. n + 1 |-> N2[i]] /\ B2 = [i \in 0 .. n + 1 |-> B2[i]]
    BY <1>16
  <2> QED BY <1>4, <2>3, <2>4 DEF Ghosts
<1>20. PICK f2 : f2 = IF f = n /\ reqs = <<>> THEN n + 1 ELSE f
  OBVIOUS
<1>21. /\ f \in 0 .. n /\ m \in 0 .. n /\ \A i \in 1 .. f : steps[i].ran
       /\ f < n => ~steps[f + 1].ran
       /\ \A i \in 1 .. n : OutputRank \in steps[i].ranks <=> i <= m
  BY <1>1, <1>2 DEF Positions
<1>22. (f2 = n + 1 /\ f = n /\ reqs = <<>>) \/ (f2 = f /\ ~(f = n /\ reqs = <<>>))
  BY <1>20
<1>23. Positions(f2, m)'
  <2>1. f2 \in 0 .. n + 1 /\ m \in 0 .. n + 1
    BY <1>3, <1>21, <1>22
  <2>2. ASSUME NEW i \in 1 .. f2 PROVE steps'[i].ran
    <3>1. CASE i \in 1 .. f
      <4>1. i \in 1 .. n
        BY <1>3, <1>21, <3>1
      <4> QED BY <1>4, <1>21, <3>1, <4>1
    <3>2. CASE i = n + 1 /\ f2 = n + 1
      BY <1>4, <1>5, <1>3, <1>21, <1>22, <3>2
    <3>3. i \in 1 .. f \/ (i = n + 1 /\ f2 = n + 1)
      BY <1>3, <1>21, <1>22
    <3> QED BY <3>1, <3>2, <3>3
  <2>3. f2 < n + 1 => ~steps'[f2 + 1].ran
    <3> SUFFICES ASSUME f2 < n + 1 PROVE ~steps'[f2 + 1].ran
      OBVIOUS
    <3>1. f2 = f /\ ~(f = n /\ reqs = <<>>)
      BY <1>3, <1>22
    <3>2. CASE f = n
      BY <1>4, <1>5, <3>1, <3>2
    <3>3. CASE f # n
      <4>1. f < n /\ f + 1 \in 1 .. n
        BY <1>3, <1>21, <3>3
      <4> QED BY <1>4, <1>21, <3>1, <4>1
    <3> QED BY <3>2, <3>3
  <2>4. ASSUME NEW i \in 1 .. n + 1 PROVE (OutputRank \in steps'[i].ranks) <=> i <= m
    <3>1. CASE i \in 1 .. n
      BY <1>4, <1>21, <3>1
    <3>2. CASE i = n + 1
      <4>1. ~(i <= m)
        BY <1>3, <1>21, <3>2
      <4> QED BY <1>4, <1>5, <3>2, <4>1
    <3> QED BY <1>18, <3>1, <3>2
  <2> QED BY <1>4, <2>1, <2>2, <2>3, <2>4 DEF Positions
<1>24. Orders'
  <2> SUFFICES ASSUME NEW i \in 1 .. n + 1
               PROVE  LET s == steps'[i] IN
                      /\ StepParts \subseteq DOMAIN s /\ IsInjective(s.reqs) /\ s.prompt \in BOOLEAN
                      /\ s.ran => s.reqs = <<>> \/ (OutputRank \in s.ranks /\ \A j \in 1 .. i - 1 : steps'[j].ran)
                      /\ OutputRank \in s.ranks => s.new = <<>> \/ \A j \in 1 .. i - 1 : steps'[j].ran
                      /\ \A q \in s.finished : ~Live(q)'
                      /\ \A q \in ToSet(s.reqs) : \/ stage'[q] \in {"running", "finished"}
                                                  \/ \E j \in i + 1 .. n + 1 : q \in steps'[j].preempted
                      /\ \A q \in ReqId : stage'[q] \in {"new", "loaded"} => q \notin ToSet(s.reqs) /\ q \notin s.preempted
    BY <1>4 DEF Orders
  <2>1. CASE i \in 1 .. n
    <3>0. PICK s : s = steps[i]
      OBVIOUS
    <3>1. steps'[i] = s
      BY <1>4, <2>1, <3>0
    <3>2. /\ StepParts \subseteq DOMAIN s /\ IsInjective(s.reqs) /\ s.prompt \in BOOLEAN
          /\ s.ran => s.reqs = <<>> \/ (OutputRank \in s.ranks /\ \A j \in 1 .. i - 1 : steps[j].ran)
          /\ OutputRank \in s.ranks => s.new = <<>> \/ \A j \in 1 .. i - 1 : steps[j].ran
          /\ \A q \in s.finished : ~Live(q)
          /\ \A q \in ToSet(s.reqs) : \/ stage[q] \in {"running", "finished"}
                                      \/ \E j \in i + 1 .. n : q \in steps[j].preempted
          /\ \A q \in ReqId : stage[q] \in {"new", "loaded"} => q \notin ToSet(s.reqs) /\ q \notin s.preempted
      BY <1>1, <1>2, <2>1, <3>0 DEF Orders
    <3>3. ToSet(s.reqs) \subseteq ReqId /\ s.finished \subseteq ReqId
      BY <1>2, <2>1, <3>0, KnownStep
    <3>4. \A j \in 1 .. i - 1 : j \in 1 .. n /\ steps'[j] = steps[j]
      BY <1>3, <1>4, <2>1
    <3>5. \A q \in s.finished : ~Live(q)'
      BY <1>10, <3>2, <3>3
    <3>6. ASSUME NEW q \in ToSet(s.reqs)
          PROVE  \/ stage'[q] \in {"running", "finished"}
                 \/ \E j \in i + 1 .. n + 1 : q \in steps'[j].preempted
      <4>1. q \in ReqId
        BY <3>3
      <4>2. CASE \E j \in i + 1 .. n : q \in steps[j].preempted
        <5>1. PICK j \in i + 1 .. n : q \in steps[j].preempted
          BY <4>2
        <5>2. j \in 1 .. n /\ j \in i + 1 .. n + 1
          BY <1>3, <2>1
        <5> QED BY <1>4, <5>1, <5>2
      <4>3. CASE stage[q] \in {"running", "finished"} /\ q \in evicted
        <5>1. n + 1 \in i + 1 .. n + 1
          BY <1>3, <2>1
        <5>2. q \in steps'[n + 1].preempted
          BY <1>4, <1>5, <4>3
        <5> QED BY <5>1, <5>2
      <4>4. CASE stage[q] \in {"running", "finished"} /\ q \notin evicted
        BY <1>4, <4>1, <4>4
      <4> QED BY <3>2, <4>2, <4>3, <4>4
    <3>7. \A q \in ReqId : stage'[q] \in {"new", "loaded"} => stage[q] \in {"new", "loaded"}
      BY <1>4
    <3>8. \A q \in ReqId : stage'[q] \in {"new", "loaded"} => q \notin ToSet(s.reqs) /\ q \notin s.preempted
      BY <3>2, <3>7
    <3>9. s.ran => s.reqs = <<>> \/ (OutputRank \in s.ranks /\ \A j \in 1 .. i - 1 : steps'[j].ran)
      BY <3>2, <3>4
    <3>10. OutputRank \in s.ranks => s.new = <<>> \/ \A j \in 1 .. i - 1 : steps'[j].ran
      BY <3>2, <3>4
    <3> QED BY <3>1, <3>2, <3>5, <3>6, <3>8, <3>9, <3>10
  <2>2. CASE i = n + 1
    <3>1. steps'[i] = e
      BY <1>4, <2>2
    <3>2. \A q \in ended : ~Live(q)' /\ q \in ReqId
      <4>1. PICK T : Chain(T)
        BY DEF SlotInv
      <4>2. ended \subseteq ReqId /\ \A q \in ended : stage[q] = "finished"
        BY <4>1 DEF Chain, Planned
      <4> QED BY <1>10, <4>2 DEF Live
    <3>3. \A q \in ToSet(reqs) : stage'[q] = "running"
      <4>1. \A q \in ToSet(old) : stage[q] = "running" /\ q \notin evicted /\ q \in ReqId
        BY <1>7 DEF Seated
      <4> QED BY <1>4, <1>7, <4>1
    <3>4. \A q \in ReqId : stage'[q] \in {"new", "loaded"} => q \notin ToSet(reqs) /\ q \notin evicted
      <4>1. \A q \in evicted : q \in ToSet(new) \/ stage'[q] = "preempted"
        BY <1>4, <1>7
      <4> QED BY <1>7, <1>10, <3>3, <4>1
    <3> QED BY <1>5, <1>7, <3>1, <3>2, <3>3, <3>4
  <2> QED BY <1>18, <2>1, <2>2
<1>25. Shapes(N2, B2)'
  <2> SUFFICES ASSUME NEW i \in 1 .. n + 1
               PROVE  Formed(steps'[i], goal', N2[i - 1], N2[i], B2[i - 1], B2[i])
    BY <1>4 DEF Shapes
  <2>1. CASE i \in 1 .. n
    <3>1. PICK s, n0, n1, b0, b1 : s = steps[i] /\ n0 = N[i - 1] /\ n1 = N[i] /\ b0 = B[i - 1] /\ b1 = B[i]
      OBVIOUS
    <3>2. Formed(s, goal, n0, n1, b0, b1)
      BY <1>1, <1>2, <2>1, <3>1 DEF Shapes
    <3>3. PICK g : g = goal'
      OBVIOUS
    <3>4. \A r \in ToSet(s.reqs) : g[r] = goal[r]
      BY <1>12, <2>1, <3>1, <3>3
    <3>5. Formed(s, g, n0, n1, b0, b1)
      BY <3>2, <3>4 DEF Formed
    <3>6. steps'[i] = s /\ N2[i - 1] = n0 /\ N2[i] = n1 /\ B2[i - 1] = b0 /\ B2[i] = b1
      BY <1>4, <1>18, <2>1, <3>1
    <3> QED BY <3>3, <3>5, <3>6
  <2>2. CASE i = n + 1
    <3>1. PICK g, n0, n1, b0, b1 : g = goal' /\ n0 = N[n] /\ n1 = N2[n + 1] /\ b0 = B[n] /\ b1 = B2[n + 1]
      OBVIOUS
    <3>2. steps'[i] = e /\ N2[i - 1] = n0 /\ N2[i] = n1 /\ B2[i - 1] = b0 /\ B2[i] = b1
      <4>1. i - 1 = n /\ n \in 0 .. n
        BY <1>3, <2>2
      <4> QED BY <1>4, <1>18, <2>2, <3>1, <4>1
    <3>3. ASSUME NEW r \in ToSet(reqs) PROVE Computes(e, r, g[r], n0[r], n1[r], b0[r], b1[r])
      <4>1. Live(r) /\ r \in ReqId
        BY <1>7, <1>10
      <4>2. n0[r] = counted[r] /\ b0[r] = blocks[r]
        BY <1>8, <3>1, <4>1
      <4>3. n1[r] = counted[r] + size[r] /\ b1[r] = blocks[r] \o given[r]
        BY <1>13, <1>15, <1>18, <3>1, <4>1
      <4>4. e.at[r] = counted[r] /\ e.size[r] = size[r] /\ e.prompt = prompt
            /\ e.given[r] = IF r \in ToSet(e.new) THEN blocks[r] \o given[r] ELSE given[r]
        BY <1>5
      <4>5. PICK c, k, x : c = counted[r] /\ k = size[r] /\ x = given[r]
        OBVIOUS
      <4>6. k \in Nat \ {0} /\ Due(g[r], c, k, prompt) /\ (r \in ToSet(new) => c < g[r] /\ g[r] = Len(texts[r]))
        BY <1>13, <3>1, <4>5
      <4>7. x \in Seq(Nat)
        <5>1. 1 .. K \subseteq Nat
          BY <1>3
        <5>2. x \in Seq(1 .. K)
          BY <1>15, <4>5
        <5> QED BY <5>1, <5>2, WiderSeq
      <4>8. r \in ToSet(new) => e.texts[r] = Text(r, g[r])
        BY <1>5, <1>7, <1>9, <4>6
      <4>9. /\ e.prompt => c < g[r] /\ c + k <= g[r]
            /\ ~e.prompt => k = 1 /\ c < ModelLen /\ (c + 1 = g[r] \/ (c >= g[r] /\ c + 1 < ModelLen))
        BY <4>4, <4>6 DEF Due
      <4>10. \E y \in Seq(Nat) : b1[r] = b0[r] \o y /\ e.given[r] = IF r \in ToSet(e.new) THEN b1[r] ELSE y
        BY <4>2, <4>3, <4>4, <4>5, <4>7
      <4>11. ~e.prompt => n1[r] = c + 1
        BY <4>3, <4>5, <4>9
      <4>12. n0[r] = c /\ n1[r] = c + k /\ e.at[r] = c /\ e.size[r] = k
        BY <4>2, <4>3, <4>4, <4>5
      <4> QED BY <1>5, <4>6, <4>8, <4>9, <4>10, <4>11, <4>12 DEF Computes
    <3>4. ASSUME NEW r \in ReqId \ ToSet(reqs)
          PROVE  /\ r \in evicted => n1[r] = 0 /\ b1[r] = <<>>
                 /\ r \notin evicted => n1[r] = n0[r] /\ b1[r] = b0[r]
      BY <1>4, <1>18, <3>1
    <3>5. Formed(e, g, n0, n1, b0, b1)
      BY <1>5, <3>3, <3>4 DEF Formed
    <3> QED BY <3>1, <3>2, <3>5
  <2> QED BY <1>18, <2>1, <2>2
<1>26. ASSUME NEW r \in ReqId, r \notin ToSet(reqs)
       PROVE  /\ r \in evicted => counted'[r] = 0 /\ blocks'[r] = <<>> /\ stage'[r] = "preempted"
              /\ r \notin evicted => /\ counted'[r] = counted[r] /\ blocks'[r] = blocks[r]
                                     /\ stage'[r] = stage[r] /\ goal'[r] = goal[r]
  BY <1>4, <1>7, <1>26
<1>27. ASSUME NEW r \in ReqId PROVE blocks'[r] \in Seq(1 .. K) /\ IsInjective(blocks'[r]) /\ counted'[r] \in Nat /\ goal'[r] \in Nat
  <2>1. <<>> \in Seq(1 .. K) /\ IsInjective(<<>>)
    BY EmptyList
  <2>2. goal'[r] \in Nat
    BY ZenonT(60), <1>4, <1>8, <1>9
  <2>3. CASE r \in ToSet(reqs)
    BY <1>13, <1>15, <2>2, <2>3
  <2>4. CASE r \notin ToSet(reqs)
    <3>1. 0 \in Nat /\ counted[r] \in Nat /\ blocks[r] \in Seq(1 .. K) /\ IsInjective(blocks[r])
      BY <1>8
    <3> QED BY <1>26, <2>1, <2>2, <2>4, <3>1
  <2> QED BY <2>3, <2>4
<1>28. ASSUME NEW r \in ReqId, NEW q \in ReqId, r # q PROVE ToSet(blocks'[r]) \cap ToSet(blocks'[q]) = {}
  <2>1. ToSet(<<>>) = {} /\ ToSet(blocks[r]) \cap ToSet(blocks[q]) = {}
    BY <1>8, <1>28, EmptyList
  <2>2. \A x \in ReqId : x \in ToSet(reqs) => x \notin evicted
    BY <1>10
  <2>3. CASE r \in ToSet(reqs) /\ q \in ToSet(reqs)
    <3>1. /\ ToSet(blocks'[r]) = ToSet(blocks[r]) \cup ToSet(given[r])
          /\ ToSet(blocks'[q]) = ToSet(blocks[q]) \cup ToSet(given[q])
      BY <1>15, <2>3
    <3>2. ToSet(given[r]) \cap ToSet(blocks[q]) = {} /\ ToSet(given[q]) \cap ToSet(blocks[r]) = {}
      BY <1>15, <2>2, <2>3
    <3>3. ToSet(given[r]) \cap ToSet(given[q]) = {}
      BY <1>15, <1>28, <2>3
    <3> QED BY <2>1, <3>1, <3>2, <3>3
  <2>4. CASE r \in ToSet(reqs) /\ q \notin ToSet(reqs)
    <3>1. ToSet(blocks'[r]) = ToSet(blocks[r]) \cup ToSet(given[r])
      BY <1>15, <2>4
    <3>2. CASE q \in evicted
      BY <1>26, <2>1, <2>4, <3>2
    <3>3. CASE q \notin evicted
      <4>1. ToSet(given[r]) \cap ToSet(blocks[q]) = {}
        BY <1>15, <2>4, <3>3
      <4>2. blocks'[q] = blocks[q]
        BY <1>26, <2>4, <3>3
      <4> QED BY <2>1, <3>1, <4>1, <4>2
    <3> QED BY <3>2, <3>3
  <2>5. CASE r \notin ToSet(reqs) /\ q \in ToSet(reqs)
    <3>1. ToSet(blocks'[q]) = ToSet(blocks[q]) \cup ToSet(given[q])
      BY <1>15, <2>5
    <3>2. CASE r \in evicted
      BY <1>26, <2>1, <2>5, <3>2
    <3>3. CASE r \notin evicted
      <4>1. ToSet(given[q]) \cap ToSet(blocks[r]) = {}
        BY <1>15, <2>5, <3>3
      <4>2. blocks'[r] = blocks[r]
        BY <1>26, <2>5, <3>3
      <4> QED BY <2>1, <3>1, <4>1, <4>2
    <3> QED BY <3>2, <3>3
  <2>6. CASE r \notin ToSet(reqs) /\ q \notin ToSet(reqs)
    BY <1>26, <2>1, <2>6
  <2> QED BY <2>3, <2>4, <2>5, <2>6
<1>29. ASSUME NEW r \in ReqId PROVE Settled(r)'
  <2>1. Settled(r)
    BY <1>8
  <2>2. CASE r \in ToSet(reqs)
    <3>1. stage'[r] = "running"
      BY <1>4, <1>7, <2>2 DEF Seated
    <3> QED BY <3>1 DEF Settled
  <2>3. CASE r \notin ToSet(reqs)
    <3>1. CASE r \in evicted
      <4>1. counted'[r] = 0 /\ blocks'[r] = <<>> /\ stage'[r] = "preempted"
        BY <1>26, <2>3, <3>1
      <4> QED BY <4>1 DEF Settled
    <3>2. CASE r \notin evicted
      <4>1. counted'[r] = counted[r] /\ blocks'[r] = blocks[r] /\ stage'[r] = stage[r]
        BY <1>26, <2>3, <3>2
      <4> QED BY <1>6, <2>1, <4>1 DEF Settled
    <3> QED BY <3>1, <3>2
  <2> QED BY <2>2, <2>3
<1>30. ASSUME NEW r \in ReqId, Live(r) PROVE N2[n + 1][r] = counted'[r] /\ B2[n + 1][r] = blocks'[r]
  <2>1. CASE r \in ToSet(reqs) \cup evicted
    BY <1>18, <2>1
  <2>2. CASE r \notin ToSet(reqs) \cup evicted
    <3>1. N2[n + 1][r] = N[n][r] /\ B2[n + 1][r] = B[n][r]
      BY <1>18, <2>2
    <3>2. N[n][r] = counted[r] /\ B[n][r] = blocks[r]
      BY <1>8, <1>30
    <3> QED BY <1>26, <2>2, <3>1, <3>2
  <2> QED BY <2>1, <2>2
<1>31. PlanAgrees(N2, B2)'
  <2>1. counted' \in [ReqId -> Nat]
    BY <1>4, <1>27
  <2>2. goal' \in [ReqId -> Nat]
    BY <1>4, <1>27
  <2>3. blocks' \in [ReqId -> Seq(1 .. K)]
    BY <1>4, <1>27
  <2>4. \A r \in ReqId : IsInjective(blocks'[r]) /\ Settled(r)'
    BY <1>27, <1>29
  <2>5. \A r, q \in ReqId : r # q => ToSet(blocks'[r]) \cap ToSet(blocks'[q]) = {}
    BY <1>28
  <2>6. \A r \in ReqId : Live(r)' => N2[n + 1][r] = counted'[r] /\ B2[n + 1][r] = blocks'[r]
    BY <1>10, <1>30
  <2>7. K = engine'.blocks /\ Len(steps') = n + 1
    BY <1>2, <1>4, <1>6
  <2> QED BY <2>1, <2>2, <2>3, <2>4, <2>5, <2>6, <2>7 DEF PlanAgrees
<1>32. ASSUME NEW r \in ReqId, Live(r) PROVE Holds(B2[n + 1][r], N2[n + 1][r], K)
  <2>1. CASE r \in ToSet(reqs)
    BY <1>15, <1>30, <1>32, <2>1 DEF Holds
  <2>2. CASE r \notin ToSet(reqs) /\ r \in evicted
    <3>1. B2[n + 1][r] = <<>> /\ N2[n + 1][r] = 0
      BY <1>26, <1>30, <1>32, <2>2
    <3>2. <<>> \in Seq(1 .. K) /\ IsInjective(<<>>) /\ 0 .. 0 - 1 = {}
      BY EmptyList
    <3> QED BY <3>1, <3>2 DEF Holds
  <2>3. CASE r \notin ToSet(reqs) \cup evicted
    <3>1. N2[n + 1][r] = N[n][r] /\ B2[n + 1][r] = B[n][r]
      BY <1>18, <2>3
    <3>2. n \in f .. Len(steps)
      BY <1>2, <1>3, <1>21
    <3>3. Holds(B[n][r], N[n][r], K)
      BY <1>1, <1>2, <1>32, <3>2 DEF Room
    <3> QED BY <3>1, <3>3
  <2> QED BY <2>1, <2>2, <2>3
<1>33. Room(N2, B2, f2)'
  <2>1. ASSUME NEW i \in f2 .. n + 1, NEW r \in ReqId, Live(r) \/ (i > f2 /\ r \in ToSet(steps'[i].reqs))
        PROVE  Holds(B2[i][r], N2[i][r], K)
    <3>1. CASE i = n + 1
      <4>1. Live(r)
        <5>1. steps'[i].reqs = reqs
          BY <1>4, <1>5, <3>1
        <5> QED BY <1>7, <1>10, <2>1, <5>1
      <4> QED BY <1>32, <3>1, <4>1
    <3>2. CASE i # n + 1
      <4>1. f2 = f /\ i \in f .. n /\ i \in 0 .. n /\ (i > f2 => i \in 1 .. n)
        BY <1>3, <1>21, <1>22, <3>2
      <4>2. Live(r) \/ (i > f /\ r \in ToSet(steps[i].reqs))
        BY <1>4, <2>1, <4>1
      <4>3. Holds(B[i][r], N[i][r], K)
        BY <1>1, <1>2, <4>1, <4>2 DEF Room
      <4> QED BY <1>18, <4>1, <4>3
    <3> QED BY <3>1, <3>2
  <2>2. ASSUME NEW i \in f2 + 1 .. n + 1, NEW r \in ReqId, NEW q \in ReqId,
               r \in ToSet(steps'[i].reqs), Live(q), q # r
        PROVE  ToSet(B2[i][r]) \cap ToSet(B2[i][q]) = {}
    <3>1. CASE i = n + 1
      <4>1. r \in ToSet(reqs)
        BY <1>4, <1>5, <2>2, <3>1
      <4>2. Live(r)
        BY <1>7, <1>10, <4>1
      <4> QED BY <1>28, <1>30, <2>2, <3>1, <4>2
    <3>2. CASE i # n + 1
      <4>1. f2 = f /\ i \in f + 1 .. n /\ i \in 0 .. n /\ i \in 1 .. n
        BY <1>3, <1>21, <1>22, <3>2
      <4>2. r \in ToSet(steps[i].reqs)
        BY <1>4, <2>2, <4>1
      <4>3. ToSet(B[i][r]) \cap ToSet(B[i][q]) = {}
        BY <1>1, <1>2, <2>2, <4>1, <4>2 DEF Room
      <4> QED BY <1>18, <4>1, <4>3
    <3> QED BY <3>1, <3>2
  <2>3. K = engine'.blocks /\ Len(steps') = n + 1
    BY <1>2, <1>4, <1>6
  <2> QED BY <1>10, <2>1, <2>2, <2>3 DEF Room
<1>34. ASSUME NEW i \in 1 .. n, NEW r \in ReqId
       PROVE  /\ Yields(N2, i, r)' <=> Yields(N, i, r)
              /\ Yields(N, i, r) => r \notin ToSet(new)
  <2>1. i <= n /\ i <= n + 1 /\ i \in 0 .. n
    BY <1>3
  <2>2. r \in ToSet(steps[i].reqs) => r \notin ToSet(new) /\ goal'[r] = goal[r]
    BY <1>11, <1>12
  <2>3. steps'[i] = steps[i] /\ N2[i] = N[i] /\ Len(steps') = n + 1 /\ Len(steps) = n
    BY <1>2, <1>4, <1>18, <2>1
  <2> QED BY <2>1, <2>2, <2>3 DEF Yields
<1>35. ASSUME NEW r \in ReqId
       PROVE  /\ ~Yields(N, n + 1, r)
              /\ Yields(N2, n + 1, r)' <=> r \in ToSet(reqs) /\ counted'[r] >= goal'[r]
  <2>1. ~(n + 1 <= n) /\ n + 1 <= n + 1
    BY <1>3
  <2>2. r \in ToSet(reqs) => N2[n + 1][r] = counted'[r]
    BY <1>18
  <2> QED BY <1>2, <1>4, <1>5, <2>1, <2>2 DEF Yields
<1>36. ASSUME NEW r \in ReqId
       PROVE  /\ n = 0 => ~Yields(N, 1, r) /\ ~Yields(N, 2, r) /\ ~Yields(N2, 2, r)'
              /\ n = 1 => ~Yields(N, 2, r)
              /\ r \in ToSet(new) => ~Yields(N, 1, r) /\ ~Yields(N, 2, r)
  <2>1. n = 0 => ~Yields(N, 1, r) /\ ~Yields(N, 2, r) /\ ~Yields(N2, 2, r)'
    <3> SUFFICES ASSUME n = 0 PROVE ~Yields(N, 1, r) /\ ~Yields(N, 2, r) /\ ~Yields(N2, 2, r)'
      OBVIOUS
    <3>1. ~(1 <= n) /\ ~(2 <= n) /\ ~(2 <= n + 1)
      OBVIOUS
    <3> QED BY <1>2, <1>4, <3>1 DEF Yields
  <2>2. n = 1 => ~Yields(N, 2, r)
    BY <1>2 DEF Yields
  <2>3. n = 1 => 1 \in 1 .. n
    BY <1>3
  <2>4. n = 0 \/ n = 1
    BY <1>3
  <2> QED BY <1>34, <2>1, <2>2, <2>3, <2>4
<1>37. ASSUME NEW r \in ReqId, Live(r)
       PROVE  /\ Yields(N, 1, r) => N[1][r] = Len(texts[r])
              /\ Yields(N, 2, r) => N[2][r] = Len(texts[r]) + Owed(N, 1, r)
              /\ stage[r] = "running" /\ counted[r] < goal[r] =>
                   Len(texts[r]) = goal[r] /\ ~Yields(N, 1, r) /\ ~Yields(N, 2, r)
              /\ stage[r] = "running" /\ counted[r] >= goal[r] =>
                   counted[r] + 1 = Len(texts[r]) + Owed(N, 1, r) + Owed(N, 2, r)
  BY <1>1, <1>37 DEF Answers
<1>38. ASSUME NEW r \in ToSet(reqs)
       PROVE  /\ counted'[r] < goal'[r] => Len(texts[r]) = goal'[r] /\ ~Yields(N, 1, r) /\ ~Yields(N, 2, r)
              /\ counted'[r] >= goal'[r] => counted'[r] = Len(texts[r]) + Owed(N, 1, r) + Owed(N, 2, r)
  <2>1. PICK c \in Nat, k \in Nat, g \in Nat, d \in Nat, l \in Nat :
          c = counted[r] /\ k = size[r] /\ g = goal'[r] /\ d = counted'[r] /\ l = Len(texts[r])
    BY <1>7, <1>8, <1>9, <1>13, <1>27
  <2>2. d = c + k /\ Due(g, c, k, prompt) /\ r \in ReqId
    BY <1>7, <1>13, <2>1
  <2>3. /\ prompt => c < g /\ d <= g
        /\ ~prompt => k = 1 /\ (c + 1 = g \/ c >= g)
    BY <2>1, <2>2 DEF Due
  <2>4. c < g => d <= g
    BY <2>2, <2>3
  <2>5. c >= g => d = c + 1
    BY <2>2, <2>3
  <2>6. PICK x, y : x = Owed(N, 1, r) /\ y = Owed(N, 2, r)
    OBVIOUS
  <2>7. ~Yields(N, 1, r) /\ ~Yields(N, 2, r) => x = 0 /\ y = 0
    BY <2>6 DEF Owed
  <2>8. CASE c < g
    <3>1. l = g /\ ~Yields(N, 1, r) /\ ~Yields(N, 2, r)
      <4>1. CASE r \in ToSet(new)
        BY <1>13, <1>36, <2>1, <2>2, <4>1
      <4>2. CASE r \notin ToSet(new)
        <5>1. stage[r] = "running" /\ Live(r) /\ goal'[r] = goal[r]
          BY <1>4, <1>7, <1>10, <2>2, <4>2 DEF Seated
        <5> QED BY <1>37, <2>1, <2>2, <2>8, <5>1
      <4> QED BY <4>1, <4>2
    <3>2. d >= g => d = l + x + y
      BY <2>4, <2>7, <2>8, <3>1
    <3> QED BY <2>1, <2>6, <3>1, <3>2
  <2>9. CASE c >= g
    <3>1. r \notin ToSet(new)
      BY <1>13, <2>1, <2>9
    <3>2. stage[r] = "running" /\ Live(r) /\ goal'[r] = goal[r]
      BY <1>4, <1>7, <1>10, <2>2, <3>1 DEF Seated
    <3>3. c + 1 = l + x + y
      BY <1>37, <2>1, <2>2, <2>6, <2>9, <3>2
    <3>4. d = l + x + y /\ ~(d < g)
      BY <2>5, <2>9, <3>3
    <3> QED BY <2>1, <2>6, <3>4
  <2> QED BY <2>1, <2>8, <2>9
<1>39. ASSUME NEW r \in ReqId, Live(r)
       PROVE  /\ Yields(N2, 1, r)' => N2[1][r] = Len(texts[r])
              /\ Yields(N2, 2, r)' => N2[2][r] = Len(texts[r]) + Owed(N2, 1, r)'
              /\ stage'[r] = "running" /\ counted'[r] < goal'[r] =>
                   Len(texts[r]) = goal'[r] /\ ~Yields(N2, 1, r)' /\ ~Yields(N2, 2, r)'
              /\ stage'[r] = "running" /\ counted'[r] >= goal'[r] =>
                   counted'[r] + 1 = Len(texts[r]) + Owed(N2, 1, r)' + Owed(N2, 2, r)'
  <2>1. PICK l \in Nat, g \in Nat, d \in Nat : l = Len(texts[r]) /\ g = goal'[r] /\ d = counted'[r]
    BY <1>9, <1>27
  <2>2. PICK x, y, u, v : x = Owed(N, 1, r) /\ y = Owed(N, 2, r) /\ u = Owed(N2, 1, r)' /\ v = Owed(N2, 2, r)'
    OBVIOUS
  <2>3. /\ x = (IF Yields(N, 1, r) THEN 1 ELSE 0) /\ y = (IF Yields(N, 2, r) THEN 1 ELSE 0)
        /\ u = (IF Yields(N2, 1, r)' THEN 1 ELSE 0) /\ v = (IF Yields(N2, 2, r)' THEN 1 ELSE 0)
    BY <2>2 DEF Owed
  <2>4. r \notin ToSet(reqs) =>
          /\ stage'[r] = "running" => stage[r] = "running" /\ counted'[r] = counted[r] /\ goal'[r] = goal[r]
    BY <1>26
  <2>5. r \in ToSet(reqs) => /\ d < g => l = g /\ ~Yields(N, 1, r) /\ ~Yields(N, 2, r)
                             /\ d >= g => d = l + x + y
    BY <1>38, <2>1, <2>2
  <2>6. /\ Yields(N, 1, r) => N[1][r] = l
        /\ stage[r] = "running" /\ counted[r] < goal[r] =>
             l = goal[r] /\ ~Yields(N, 1, r) /\ ~Yields(N, 2, r)
        /\ stage[r] = "running" /\ counted[r] >= goal[r] => counted[r] + 1 = l + x + y
    BY <1>37, <1>39, <2>1, <2>2
  <2>7. CASE n = 0
    <3>1. ~Yields(N, 1, r) /\ ~Yields(N, 2, r) /\ ~Yields(N2, 2, r)'
      BY <1>36, <2>7
    <3>2. Yields(N2, 1, r)' <=> r \in ToSet(reqs) /\ d >= g
      BY <1>35, <2>1, <2>7
    <3>3. Yields(N2, 1, r)' => N2[1][r] = d
      <4>1. r \in ToSet(reqs) => N2[n + 1][r] = counted'[r]
        BY <1>18
      <4> QED BY <2>1, <2>7, <3>2, <4>1
    <3>4. x = 0 /\ y = 0 /\ v = 0
      BY <2>3, <3>1
    <3>5. Yields(N2, 1, r)' => N2[1][r] = l
      BY <2>5, <3>2, <3>3, <3>4
    <3>6. stage'[r] = "running" /\ d < g => l = g /\ ~Yields(N2, 1, r)'
      BY <2>1, <2>4, <2>5, <2>6, <3>2
    <3>7. stage'[r] = "running" /\ d >= g => d + 1 = l + u + v
      <4> SUFFICES ASSUME stage'[r] = "running", d >= g PROVE d + 1 = l + u + v
        OBVIOUS
      <4>1. CASE r \in ToSet(reqs)
        BY <2>3, <2>5, <3>2, <3>4, <4>1
      <4>2. CASE r \notin ToSet(reqs)
        BY <2>1, <2>3, <2>4, <2>6, <3>2, <3>4, <4>2
      <4> QED BY <4>1, <4>2
    <3> QED BY <2>1, <2>2, <3>1, <3>5, <3>6, <3>7
  <2>8. CASE n = 1
    <3>1. ~Yields(N, 2, r)
      BY <1>36, <2>8
    <3>2. Yields(N2, 2, r)' <=> r \in ToSet(reqs) /\ d >= g
      BY <1>35, <2>1, <2>8
    <3>3. Yields(N2, 1, r)' <=> Yields(N, 1, r)
      BY <1>34, <2>8
    <3>4. N2[1] = N[1]
      BY <1>18, <2>8
    <3>5. y = 0 /\ u = x
      BY <2>3, <3>1, <3>3
    <3>6. Yields(N2, 2, r)' => N2[2][r] = d
      <4>1. r \in ToSet(reqs) => N2[n + 1][r] = counted'[r]
        BY <1>18
      <4> QED BY <2>1, <2>8, <3>2, <4>1
    <3>7. Yields(N2, 2, r)' => N2[2][r] = l + u
      BY <2>3, <2>5, <3>2, <3>5, <3>6
    <3>8. stage'[r] = "running" /\ d < g => l = g /\ ~Yields(N2, 1, r)' /\ ~Yields(N2, 2, r)'
      BY <2>1, <2>4, <2>5, <2>6, <3>2, <3>3
    <3>9. stage'[r] = "running" /\ d >= g => d + 1 = l + u + v
      <4> SUFFICES ASSUME stage'[r] = "running", d >= g PROVE d + 1 = l + u + v
        OBVIOUS
      <4>1. CASE r \in ToSet(reqs)
        BY <2>3, <2>5, <3>2, <3>5, <4>1
      <4>2. CASE r \notin ToSet(reqs)
        BY <2>1, <2>3, <2>4, <2>6, <3>2, <3>5, <4>2
      <4> QED BY <4>1, <4>2
    <3> QED BY <2>1, <2>2, <2>6, <3>3, <3>4, <3>7, <3>8, <3>9
  <2> QED BY <1>3, <2>7, <2>8
<1>41. Answers(N2)'
  BY <1>6, <1>9, <1>10, <1>39 DEF Answers
<1>42. Results(N2)'
  <2>1. Lives' = Lives
    BY <1>10 DEF Lives
  <2> SUFFICES ASSUME NEW i \in 1 .. n + 1, steps'[i].ran PROVE Gives(steps'[i], goal', N2[i], Lives)
    BY <1>4, <2>1 DEF Results
  <2>2. CASE i \in 1 .. n
    <3>1. PICK s, x, g : s = steps[i] /\ x = N[i] /\ g = goal'
      OBVIOUS
    <3>2. steps'[i] = s /\ N2[i] = x
      BY <1>4, <1>18, <2>2, <3>1
    <3>3. Gives(s, goal, x, Lives)
      BY <1>1, <1>2, <2>2, <3>1, <3>2 DEF Results
    <3>4. \A j \in DOMAIN s.reqs : s.reqs[j] \in ToSet(s.reqs)
      BY <1>2, <2>2, <3>1, KnownStep
    <3>5. \A r \in ToSet(s.reqs) : g[r] = goal[r]
      BY <1>12, <2>2, <3>1
    <3>6. Gives(s, g, x, Lives)
      BY <3>3, <3>4, <3>5 DEF Gives
    <3> QED BY <3>1, <3>2, <3>6
  <2>3. CASE i = n + 1
    <3>1. steps'[i] = e /\ reqs = <<>>
      BY <1>4, <1>5, <2>3
    <3>2. DOMAIN <<>> = {}
      OBVIOUS
    <3> QED BY <1>5, <3>1, <3>2 DEF Gives
  <2> QED BY <1>18, <2>2, <2>3
<1>43. ASSUME NEW r \in ReqId, Stays(r, m)'
       PROVE  /\ Stays(r, m) /\ r \notin ToSet(new) /\ Seat(r)' = Seat(r) /\ Seat(r) # NoSlot
              /\ r \in evicted => m < n /\ r \in ToSet(steps[m + 1].reqs)
  <2>1. Seat(r)' = Seat(r)
    BY <1>6 DEF Seat
  <2>2. /\ Seat(r) # NoSlot
        /\ \/ \A j \in m + 1 .. n + 1 : r \notin steps'[j].preempted
           \/ m < n + 1 /\ r \in ToSet(steps'[m + 1].reqs)
    BY <1>4, <1>43, <2>1 DEF Stays
  <2>3. \A j \in m + 1 .. n : j \in m + 1 .. n + 1 /\ j \in 1 .. n /\ steps'[j] = steps[j]
    BY <1>3, <1>4, <1>21
  <2>4. \/ \A j \in m + 1 .. n : r \notin steps[j].preempted
        \/ m < n /\ r \in ToSet(steps[m + 1].reqs)
    <3>1. CASE \A j \in m + 1 .. n + 1 : r \notin steps'[j].preempted
      BY <2>3, <3>1
    <3>2. CASE m < n + 1 /\ r \in ToSet(steps'[m + 1].reqs)
      <4>1. CASE m = n
        <5>1. m + 1 .. n = {}
          BY <1>3, <4>1
        <5> QED BY <5>1
      <4>2. CASE m # n
        <5>1. m < n /\ m + 1 \in 1 .. n
          BY <1>3, <1>21, <4>2
        <5> QED BY <1>4, <3>2, <5>1
      <4> QED BY <4>1, <4>2
    <3> QED BY <2>2, <3>1, <3>2
  <2>5. Stays(r, m)
    BY <1>2, <2>2, <2>4 DEF Stays
  <2>6. r \notin ToSet(new)
    <3> SUFFICES ASSUME r \in ToSet(new) PROVE FALSE
      OBVIOUS
    <3>1. stage[r] \in {"loaded", "preempted"}
      BY <1>7
    <3>2. ~(m < n /\ r \in ToSet(steps[m + 1].reqs))
      <4>1. m < n => m + 1 \in 1 .. n
        BY <1>3, <1>21
      <4> QED BY <1>11, <4>1
    <3>3. \A j \in m + 1 .. Len(steps) : r \notin steps[j].preempted
      BY <1>2, <2>4, <3>2
    <3> QED BY <1>1, <2>2, <3>1, <3>3, NoSeat
  <2>7. r \in evicted => m < n /\ r \in ToSet(steps[m + 1].reqs)
    <3> SUFFICES ASSUME r \in evicted PROVE m < n /\ r \in ToSet(steps[m + 1].reqs)
      OBVIOUS
    <3>1. n + 1 \in m + 1 .. n + 1
      BY <1>3, <1>21
    <3>2. r \in steps'[n + 1].preempted
      BY <1>4, <1>5
    <3>3. r \in ToSet(steps'[m + 1].reqs) /\ m < n + 1
      BY <2>2, <3>1, <3>2
    <3>4. m # n
      BY <1>4, <1>5, <1>10, <3>3
    <3>5. m < n /\ m + 1 \in 1 .. n
      BY <1>3, <1>21, <3>4
    <3> QED BY <1>4, <3>3, <3>5
  <2> QED BY <2>1, <2>2, <2>5, <2>6, <2>7
<1>44. HostRows(B2, m)'
  <2>1. /\ DOMAIN blockRow = Slots /\ DOMAIN prefillLen = Slots
        /\ \A s \in Slots : (\A r \in ReqId : Seat(r) # s) => blockRow[s] = <<>>
        /\ \A r \in ReqId : Stays(r, m) => blockRow[Seat(r)] = B[m][r] /\ prefillLen[Seat(r)] = goal[r]
        /\ \A i \in 1 .. m : ~steps[i].read => Operands(steps[i], B[i], goal)
    BY <1>1 DEF HostRows
  <2>2. \A r \in ReqId : Seat(r)' = Seat(r)
    BY <1>6 DEF Seat
  <2>3. B2[m] = B[m]
    BY <1>18, <1>21
  <2>4. \A r \in ReqId : Stays(r, m)' => blockRow[Seat(r)] = B2[m][r] /\ prefillLen[Seat(r)] = goal'[r]
    BY <1>4, <1>43, <2>1, <2>3
  <2>5. ASSUME NEW i \in 1 .. m, ~steps'[i].read PROVE Operands(steps'[i], B2[i], goal')
    <3>1. i \in 1 .. n
      BY <1>3, <1>21
    <3>2. PICK s, b, g : s = steps[i] /\ b = B[i] /\ g = goal'
      OBVIOUS
    <3>3. steps'[i] = s /\ B2[i] = b
      BY <1>4, <1>18, <3>1, <3>2
    <3>4. Operands(s, b, goal)
      BY <2>1, <2>5, <3>2, <3>3
    <3>5. \A j \in DOMAIN s.reqs : s.reqs[j] \in ToSet(s.reqs)
      BY <1>2, <3>1, <3>2, KnownStep
    <3>6. \A r \in ToSet(s.reqs) : g[r] = goal[r]
      BY <1>12, <3>1, <3>2
    <3>7. Operands(s, b, g)
      BY <3>4, <3>5, <3>6 DEF Operands
    <3> QED BY <3>2, <3>3, <3>7
  <2> QED BY <1>6, <2>1, <2>2, <2>4, <2>5 DEF HostRows, Seat
<1>45. Cache(N2, B2, f2)'
  <2>1. DOMAIN kv' = 0 .. (engine'.blocks + 1) * BlockSize - 1
    BY <1>1, <1>6 DEF Cache
  <2>2. ASSUME NEW r \in ReqId, Live(r) PROVE CacheHolds(B2[f2][r], N2[f2][r], r)
    <3>1. CASE f2 = f
      <4>1. B2[f2] = B[f] /\ N2[f2] = N[f]
        BY <1>18, <1>21, <3>1
      <4> QED BY <1>1, <2>2, <4>1 DEF Cache
    <3>2. CASE f2 = n + 1 /\ f = n /\ reqs = <<>>
      <4>1. ToSet(reqs) = {}
        BY <3>2, EmptyList
      <4>2. CASE r \in evicted
        <5>1. N2[f2][r] = 0 /\ 0 .. 0 - 1 = {}
          BY <1>26, <1>30, <2>2, <3>2, <4>1, <4>2
        <5> QED BY <5>1 DEF CacheHolds
      <4>3. CASE r \notin evicted
        <5>1. N2[f2][r] = N[f][r] /\ B2[f2][r] = B[f][r]
          BY <1>18, <3>2, <4>1, <4>3
        <5> QED BY <1>1, <2>2, <5>1 DEF Cache
      <4> QED BY <4>2, <4>3
    <3> QED BY <1>22, <3>1, <3>2
  <2> QED BY <1>6, <1>10, <2>1, <2>2 DEF Cache, CacheHolds
<1>46. Device(N2, f2, m)'
  <2>1. /\ DOMAIN history = Slots /\ DOMAIN computedBy = Slots
        /\ DOMAIN lastToken = Slots /\ DOMAIN carry = Slots
        /\ \A i \in f + 1 .. m : \A r \in ToSet(steps[i].reqs) :
             Live(r) => Ready(steps[i].chosen[OutputRank][r], r, goal[r], N[f][r])
        /\ \A r \in ReqId : Live(r) /\ Stays(r, m) => Ready(Seat(r), r, goal[r], N[f][r])
    BY <1>1 DEF Device
  <2>2. ASSUME NEW i \in f2 + 1 .. m, NEW r \in ToSet(steps'[i].reqs), Live(r)
        PROVE  Ready(steps'[i].chosen[OutputRank][r], r, goal'[r], N2[f2][r])
    <3>1. f2 = f /\ i \in f + 1 .. m /\ i \in 1 .. n
      BY <1>3, <1>21, <1>22
    <3>2. steps'[i] = steps[i] /\ N2[f2] = N[f] /\ goal'[r] = goal[r] /\ r \in ToSet(steps[i].reqs)
      BY <1>4, <1>12, <1>18, <1>21, <3>1
    <3> QED BY <2>1, <2>2, <3>1, <3>2
  <2>3. ASSUME NEW r \in ReqId, Live(r), Stays(r, m)' PROVE Ready(Seat(r), r, goal'[r], N2[f2][r])
    <3>1. Ready(Seat(r), r, goal[r], N[f][r]) /\ goal'[r] = goal[r]
      BY <1>4, <1>43, <2>1, <2>3
    <3>2. N2[f2][r] = N[f][r]
      <4>1. CASE f2 = f
        BY <1>18, <1>21, <4>1
      <4>2. CASE f2 = n + 1 /\ f = n /\ reqs = <<>>
        <5>1. ToSet(reqs) = {}
          BY <4>2, EmptyList
        <5>2. r \notin evicted
          <6> SUFFICES ASSUME r \in evicted PROVE FALSE
            OBVIOUS
          <6>1. m < n /\ r \in ToSet(steps[m + 1].reqs)
            BY <1>43, <2>3
          <6>2. m + 1 \in 1 .. n /\ m + 1 \in 1 .. f /\ ~(m + 1 <= m)
            BY <1>3, <1>21, <4>2, <6>1
          <6>3. steps[m + 1].ran /\ OutputRank \notin steps[m + 1].ranks
            BY <1>21, <6>2
          <6>4. steps[m + 1].reqs = <<>>
            BY <1>1, <1>2, <6>2, <6>3 DEF Orders
          <6> QED BY <6>1, <6>4, EmptyList
        <5> QED BY <1>18, <4>2, <5>1, <5>2
      <4> QED BY <1>22, <4>1, <4>2
    <3> QED BY <3>1, <3>2
  <2>4. \A i \in f2 + 1 .. m : \A r \in ToSet(steps'[i].reqs) :
          Live(r)' => Ready(steps[i].chosen[OutputRank][r], r, goal[r], N2[f2][r])'
    <3> SUFFICES ASSUME NEW i \in f2 + 1 .. m, NEW r \in ToSet(steps'[i].reqs), Live(r)'
                 PROVE  Ready(steps[i].chosen[OutputRank][r], r, goal[r], N2[f2][r])'
      OBVIOUS
    <3>1. i \in 1 .. n
      BY <1>3, <1>21, <1>22
    <3>2. r \in ReqId
      BY <1>4, <1>12, <3>1
    <3>3. Ready(steps'[i].chosen[OutputRank][r], r, goal'[r], N2[f2][r])
      BY <1>10, <2>2, <3>2
    <3> QED BY <1>6, <3>3 DEF Ready
  <2>5. \A r \in ReqId : Live(r)' /\ Stays(r, m)' => Ready(Seat(r), r, goal[r], N2[f2][r])'
    <3> SUFFICES ASSUME NEW r \in ReqId, Live(r)', Stays(r, m)'
                 PROVE  Ready(Seat(r), r, goal[r], N2[f2][r])'
      OBVIOUS
    <3>1. Ready(Seat(r), r, goal'[r], N2[f2][r]) /\ Seat(r)' = Seat(r)
      BY <1>10, <1>43, <2>3
    <3> QED BY <1>6, <3>1 DEF Ready
  <2> QED BY <1>6, <2>1, <2>4, <2>5 DEF Device
<1>47. Ledger(N2, B2, f2, m)'
  BY <1>19, <1>23, <1>24, <1>25, <1>31, <1>33, <1>41, <1>42, <1>44, <1>45, <1>46 DEF Ledger
<1> QED BY <1>47

(* A request that is admitted has computed less than its text. *)
LEMMA Admissible ==
  ASSUME RunnerV2Assumption, engine \in Engines, NEW N, NEW B, PlanAgrees(N, B), Answers(N),
         NEW r \in ReqId, stage[r] \in {"loaded", "preempted"}
  PROVE  /\ counted[r] \in Nat /\ Len(texts[r]) \in Nat /\ counted[r] < Len(texts[r])
         /\ Pulled(r) => Due(Len(texts[r]), counted[r], 1, FALSE)
<1>1. /\ counted[r] \in Nat /\ Len(texts[r]) \in Nat \ {0} /\ Settled(r)
  BY DEF PlanAgrees, Answers
<1>2. /\ PromptLen[r] \in Nat \ {0} /\ PromptLen[r] <= ModelLen /\ ModelLen \in Nat
      /\ engine.start[r] < PromptLen[r] /\ engine.start[r] \in Nat
      /\ engine.pull => engine.start[r] = PromptLen[r] - 1
  BY DEF RunnerV2Assumption
<1>3. CASE stage[r] = "loaded"
  <2>1. counted[r] = engine.start[r] /\ Len(texts[r]) = PromptLen[r]
    BY <1>1, <1>3 DEF Settled
  <2>2. Pulled(r) => counted[r] + 1 = Len(texts[r]) /\ counted[r] < ModelLen
    BY <1>2, <2>1 DEF Pulled
  <2>3. 1 \in Nat \ {0}
    OBVIOUS
  <2> QED BY <1>1, <1>2, <2>1, <2>2, <2>3 DEF Due
<1>4. CASE stage[r] = "preempted"
  <2>1. counted[r] = 0 /\ ~Pulled(r)
    BY <1>1, <1>4 DEF Settled, Pulled
  <2>2. \A l \in Nat \ {0} : l \in Nat /\ 0 < l
    OBVIOUS
  <2>3. 0 < Len(texts[r]) /\ Len(texts[r]) \in Nat
    BY <1>1, <2>2
  <2> QED BY <1>1, <2>1, <2>3
<1> QED BY <1>3, <1>4

(* A list of one. *)
LEMMA Alone ==
  ASSUME NEW r \in ReqId
  PROVE  /\ <<>> \in Seq(ReqId) /\ <<r>> \in Seq(ReqId) /\ IsInjective(<<r>>) /\ IsInjective(<<>>)
         /\ ToSet(<<r>>) = {r} /\ ToSet(<<>>) = {} /\ <<>> \o <<r>> = <<r>> /\ <<r>> \o <<>> = <<r>>
<1>1. <<>> \in Seq(ReqId) /\ IsInjective(<<>>) /\ ToSet(<<>>) = {}
  BY EmptyList
<1>2. <<r>> \in Seq(ReqId) /\ ToSet(<<r>>) = {r} /\ IsInjective(<<r>>)
  <2>1. DOMAIN <<r>> = {1} /\ <<r>>[1] = r
    OBVIOUS
  <2>2. <<r>> \in Seq(ReqId)
    OBVIOUS
  <2> QED BY <2>1, <2>2 DEF ToSet, IsInjective
<1> QED BY <1>1, <1>2, ConcatEmptySeq

(* A scheduled prompt chunk may be planned. *)
LEMMA PromptSendable ==
  ASSUME RunnerV2Assumption, SlotInv, NEW N, NEW B, PlanAgrees(N, B), Answers(N),
         NEW r \in ReqId, SchedulePrompt(r)
  PROVE  \E new, old, size, prompt, evicted :
           Sendable(new, old, size, prompt, evicted) /\ Send(new, old, size, prompt, evicted)
<1>1. engine \in Engines /\ engine.chunk \in Nat \ {0}
  BY QueueLength DEF RunnerV2Assumption
<1>2. PICK size : size = [q \in {r} |-> ChunkOf(r)]
  OBVIOUS
<1>3. /\ PromptReady(r)
      /\ IF stage[r] = "running" THEN Send(<<>>, <<r>>, size, TRUE, {})
                                 ELSE Send(<<r>>, <<>>, size, TRUE, {})
  BY <1>2 DEF SchedulePrompt
<1>4. counted[r] \in Nat /\ goal[r] \in Nat /\ size[r] = ChunkOf(r)
  BY <1>2 DEF PlanAgrees
<1>5. PICK g : g = IF stage[r] = "running" THEN goal[r] ELSE Len(texts[r])
  OBVIOUS
<1>6. /\ stage[r] = "running" => r \in Seated
      /\ stage[r] # "running" => stage[r] \in {"loaded", "preempted"}
      /\ g \in Nat /\ counted[r] < g
  <2>1. CASE stage[r] = "running"
    <3>1. r \in Seated
      BY <2>1 DEF Seated
    <3>2. counted[r] < goal[r]
      BY <1>3, <2>1 DEF PromptReady, CanAdmit, Prefilling
    <3> QED BY <1>4, <1>5, <2>1, <3>1, <3>2
  <2>2. CASE stage[r] # "running"
    <3>1. stage[r] \in {"loaded", "preempted"}
      BY <1>3, <2>2 DEF PromptReady, CanAdmit, Prefilling, Seated
    <3> QED BY <1>1, <1>5, <2>2, <3>1, Admissible
  <2> QED BY <2>1, <2>2
<1>7. Due(g, counted[r], size[r], TRUE)
  <2>1. PICK c \in Nat, h \in Nat \ {0} : c = counted[r] /\ h = engine.chunk /\ c < g
    BY <1>1, <1>4, <1>6
  <2>2. size[r] = Smaller(h, g - c)
    BY <1>4, <1>5, <2>1 DEF ChunkOf
  <2>3. size[r] \in Nat \ {0} /\ c + size[r] <= g
    BY <1>6, <2>1, <2>2 DEF Smaller
  <2> QED BY <2>1, <2>3 DEF Due
<1>8. Fits({r}, [q \in {r} |-> counted[q] + size[q]], {})
  <2>1. [q \in {r} |-> counted[q] + size[q]] = [q \in {r} |-> counted[r] + ChunkOf(r)]
    BY <1>4
  <2> QED BY <1>3, <2>1 DEF PromptReady
<1>9. /\ <<>> \in Seq(ReqId) /\ <<r>> \in Seq(ReqId) /\ IsInjective(<<r>>)
      /\ ToSet(<<r>>) = {r} /\ ToSet(<<>>) = {} /\ <<>> \o <<r>> = <<r>> /\ <<r>> \o <<>> = <<r>>
  BY Alone
<1>10. PICK one, none : one = <<r>> /\ none = <<>>
  OBVIOUS
<1>11. /\ none \in Seq(ReqId) /\ one \in Seq(ReqId) /\ IsInjective(one)
       /\ ToSet(one) = {r} /\ ToSet(none) = {} /\ none \o one = one /\ one \o none = one
  BY <1>9, <1>10
<1>12. CASE stage[r] = "running"
  <2>1. Sendable(none, one, size, TRUE, {})
    BY <1>5, <1>6, <1>7, <1>8, <1>11, <1>12 DEF Sendable
  <2> QED BY <1>3, <1>10, <1>12, <2>1
<1>13. CASE stage[r] # "running"
  <2>1. Sendable(one, none, size, TRUE, {})
    BY <1>5, <1>6, <1>7, <1>8, <1>11, <1>13 DEF Sendable
  <2> QED BY <1>3, <1>10, <1>13, <2>1
<1> QED BY <1>12, <1>13

(* Every request of a step of decodes computes one token. *)
LEMMA DecodesSendable ==
  ASSUME RunnerV2Assumption, SlotInv, NEW N, NEW B, PlanAgrees(N, B), Answers(N),
         ScheduleDecodes \/ ScheduleNothing
  PROVE  \E new, old, size, prompt, evicted :
           Sendable(new, old, size, prompt, evicted) /\ Send(new, old, size, prompt, evicted)
<1>1. engine \in Engines /\ IsFiniteSet(ReqId) /\ ModelLen \in Nat
  BY QueueLength DEF RunnerV2Assumption
<1>2. \A r \in ReqId : counted[r] \in Nat /\ goal[r] \in Nat
  BY DEF PlanAgrees
<1>3. ASSUME NEW r \in DecodeReady PROVE r \in Seated /\ Due(goal[r], counted[r], 1, FALSE)
  <2>1. r \in Seated /\ r \in ReqId /\ ~(counted[r] < goal[r]) /\ counted[r] + 1 < ModelLen
    BY DEF DecodeReady, Prefilling, Seated
  <2>2. counted[r] >= goal[r] /\ counted[r] < ModelLen /\ 1 \in Nat \ {0}
    BY <1>1, <1>2, <2>1
  <2> QED BY <2>1, <2>2 DEF Due
<1>4. ASSUME NEW A, NEW D, A \subseteq {r \in ReqId : CanAdmit(r) /\ Pulled(r)}, D \subseteq DecodeReady,
             NEW E, E \subseteq Seated \ D, Fits(A \cup D, OneMore(A \cup D), E),
             NEW one, one = [r \in ReqId |-> 1],
             NEW new, new = SetToSeq(A), NEW old, old = SetToSeq(D)
      PROVE  Sendable(new, old, one, FALSE, E)
  <2>1. A \subseteq ReqId /\ D \subseteq ReqId /\ D \subseteq Seated /\ A \cap D = {}
    BY <1>3, <1>4 DEF CanAdmit, Seated
  <2>2. /\ ToSet(new) = A /\ IsInjective(new) /\ new \in Seq(ReqId)
        /\ ToSet(old) = D /\ IsInjective(old) /\ old \in Seq(ReqId)
    <3>1. IsFiniteSet(A) /\ IsFiniteSet(D)
      BY <1>1, <2>1, FS_Subset
    <3>2. /\ ToSet(new) = A /\ IsInjective(new) /\ ToSet(old) = D /\ IsInjective(old)
      BY <1>4, <3>1, SetListedOnce
    <3>3. new \in Seq(A) /\ old \in Seq(D)
      BY <1>4, <3>1, SetAsList
    <3> QED BY <2>1, <3>2, <3>3, WiderSeq
  <2>3. PICK reqs : reqs = new \o old
    OBVIOUS
  <2>4. reqs \in Seq(ReqId) /\ ToSet(reqs) = ToSet(new) \cup ToSet(old) /\ IsInjective(reqs)
    BY <2>1, <2>2, <2>3, ConcatSets, ConcatInjective
  <2>5. \A r \in ToSet(new) : /\ stage[r] \in {"loaded", "preempted"} /\ counted[r] < Len(texts[r])
                              /\ Due(Len(texts[r]), counted[r], one[r], FALSE)
    <3> SUFFICES ASSUME NEW r \in A
                 PROVE  /\ stage[r] \in {"loaded", "preempted"} /\ counted[r] < Len(texts[r])
                        /\ Due(Len(texts[r]), counted[r], one[r], FALSE)
      BY <2>2
    <3>1. r \in ReqId /\ stage[r] \in {"loaded", "preempted"} /\ Pulled(r) /\ one[r] = 1
      BY <1>4 DEF CanAdmit
    <3> QED BY <1>1, <3>1, Admissible
  <2>6. \A r \in ToSet(old) : Due(goal[r], counted[r], one[r], FALSE)
    BY <1>3, <1>4, <2>1, <2>2
  <2>7. Fits(ToSet(reqs), [r \in ToSet(reqs) |-> counted[r] + one[r]], E)
    <3>1. ToSet(reqs) = A \cup D
      BY <2>2, <2>4
    <3>2. [r \in A \cup D |-> counted[r] + one[r]] = OneMore(A \cup D)
      BY <1>4, <2>1 DEF OneMore
    <3> QED BY <1>4, <3>1, <3>2
  <2>8. E \subseteq Seated /\ D \subseteq Seated \ E
    BY <1>4, <2>1
  <2> QED BY <2>1, <2>2, <2>3, <2>4, <2>5, <2>6, <2>7, <2>8 DEF Sendable
<1>5. PICK one, none : one = [r \in ReqId |-> 1] /\ none = <<>>
  OBVIOUS
<1>6. none \in Seq(ReqId) /\ ToSet(none) = {} /\ none \o none = none /\ IsInjective(none)
  BY <1>5, EmptyList, ConcatEmptySeq
<1>7. CASE ScheduleDecodes
  <2>1. CASE \E new \in SUBSET {r \in ReqId : CanAdmit(r) /\ Pulled(r)} :
               /\ Fits(DecodeReady \cup new, OneMore(DecodeReady \cup new), {})
               /\ Send(SetToSeq(new), SetToSeq(DecodeReady), one, FALSE, {})
    <3>1. PICK A \in SUBSET {r \in ReqId : CanAdmit(r) /\ Pulled(r)} :
               /\ Fits(DecodeReady \cup A, OneMore(DecodeReady \cup A), {})
               /\ Send(SetToSeq(A), SetToSeq(DecodeReady), one, FALSE, {})
      BY <2>1
    <3>2. PICK new, old, D : new = SetToSeq(A) /\ old = SetToSeq(D) /\ D = DecodeReady
      OBVIOUS
    <3>3. A \cup D = DecodeReady \cup A
      BY <3>2
    <3>4. Sendable(new, old, one, FALSE, {})
      BY <1>4, <1>5, <3>1, <3>2, <3>3
    <3> QED BY <3>1, <3>2, <3>4
  <2>2. CASE \E victim \in Seated :
          LET rest == DecodeReady \ {victim} IN
          /\ Fits(rest, OneMore(rest), {victim})
          /\ Send(<<>>, SetToSeq(rest), one, FALSE, {victim})
    <3>0. PICK victim \in Seated :
            /\ Fits(DecodeReady \ {victim}, OneMore(DecodeReady \ {victim}), {victim})
            /\ Send(<<>>, SetToSeq(DecodeReady \ {victim}), one, FALSE, {victim})
      BY <2>2
    <3>1. PICK D : /\ D = DecodeReady \ {victim}
                   /\ Fits(D, OneMore(D), {victim})
                   /\ Send(<<>>, SetToSeq(D), one, FALSE, {victim})
      BY <3>0
    <3>2. PICK old : old = SetToSeq(D)
      OBVIOUS
    <3>3. D \subseteq DecodeReady /\ {victim} \subseteq Seated \ D
      BY <3>1
    <3>4. D \subseteq ReqId /\ D \subseteq Seated
      BY <1>3, <3>3 DEF Seated
    <3>5. /\ ToSet(old) = D /\ IsInjective(old) /\ old \in Seq(ReqId)
      <4>1. IsFiniteSet(D)
        BY <1>1, <3>4, FS_Subset
      <4>2. ToSet(old) = D /\ IsInjective(old)
        BY <3>2, <4>1, SetListedOnce
      <4>3. old \in Seq(D)
        BY <3>2, <4>1, SetAsList
      <4> QED BY <3>4, <4>2, <4>3, WiderSeq
    <3>6. none \o old = old
      BY <1>5, <3>5, ConcatEmptySeq
    <3>7. [r \in D |-> counted[r] + one[r]] = OneMore(D)
      BY <1>5, <3>4 DEF OneMore
    <3>8. \A r \in D : Due(goal[r], counted[r], one[r], FALSE)
      BY <1>3, <1>5, <3>3, <3>4
    <3>9. Sendable(none, old, one, FALSE, {victim})
      BY <1>6, <3>1, <3>3, <3>4, <3>5, <3>6, <3>7, <3>8 DEF Sendable
    <3> QED BY <1>5, <3>1, <3>2, <3>9
  <2> QED BY <1>5, <1>7, <2>1, <2>2 DEF ScheduleDecodes
<1>8. CASE ScheduleNothing
  <2>1. Send(none, none, none, FALSE, {})
    BY <1>5, <1>8 DEF ScheduleNothing
  <2>2. Fits({}, [r \in {} |-> counted[r] + none[r]], {})
    <3>1. Wanted({}, [r \in {} |-> counted[r] + none[r]]) = {}
      BY DEF Wanted
    <3>2. IsFiniteSet(FreeBlocks({}))
      <4>1. engine.blocks \in Nat
        BY QueueLength
      <4>2. FreeBlocks({}) \subseteq 1 .. engine.blocks
        BY DEF FreeBlocks
      <4>3. 1 \in Int /\ engine.blocks \in Int
        BY <4>1
      <4> QED BY <4>2, <4>3, FS_Interval, FS_Subset
    <3>3. Cardinality(FreeBlocks({})) \in Nat /\ Cardinality({}) = 0
      BY <3>2, FS_CardinalityType, FS_EmptySet
    <3>4. Cardinality({}) <= Cardinality(FreeBlocks({}))
      BY <3>3
    <3> HIDE DEF FreeBlocks
    <3> QED BY <3>1, <3>4 DEF Fits
  <2>3. Sendable(none, none, none, FALSE, {})
    BY <1>6, <2>2 DEF Sendable
  <2> QED BY <2>1, <2>3
<1> QED BY <1>7, <1>8

(* The plan's steps keep the ledger. *)
LEMMA PlanLedger ==
  ASSUME RunnerV2Assumption, SlotInv, NEW N, NEW B, NEW f, NEW m, Ledger(N, B, f, m), PlanSteps
  PROVE  \E N2, B2, f2 : Ledger(N2, B2, f2, m)'
<1>1. PlanAgrees(N, B) /\ Answers(N)
  BY DEF Ledger
<1>2. ASSUME NEW r \in ReqId, Load(r) PROVE \E N2, B2, f2 : Ledger(N2, B2, f2, m)'
  <2>1. \E N2, B2 : Ledger(N2, B2, f, m)'
    BY <1>2, LoadLedger
  <2> QED BY <2>1
<1>3. ASSUME \E new, old, size, prompt, evicted :
               Sendable(new, old, size, prompt, evicted) /\ Send(new, old, size, prompt, evicted),
             Len(steps) < engine.depth
      PROVE  \E N2, B2, f2 : Ledger(N2, B2, f2, m)'
  BY <1>3, SendLedger
<1>4. ASSUME NEW r \in ReqId, SchedulePrompt(r) PROVE \E N2, B2, f2 : Ledger(N2, B2, f2, m)'
  <2>1. Len(steps) < engine.depth
    BY <1>4 DEF SchedulePrompt
  <2>2. \E new, old, size, prompt, evicted :
           Sendable(new, old, size, prompt, evicted) /\ Send(new, old, size, prompt, evicted)
    BY <1>1, <1>4, PromptSendable
  <2> QED BY <1>3, <2>1, <2>2
<1>5. ASSUME ScheduleDecodes \/ ScheduleNothing PROVE \E N2, B2, f2 : Ledger(N2, B2, f2, m)'
  <2>1. Len(steps) < engine.depth
    BY <1>5 DEF ScheduleDecodes, ScheduleNothing
  <2>2. \E new, old, size, prompt, evicted :
           Sendable(new, old, size, prompt, evicted) /\ Send(new, old, size, prompt, evicted)
    BY <1>1, <1>5, DecodesSendable
  <2> QED BY <1>3, <2>1, <2>2
<1> QED BY <1>2, <1>4, <1>5 DEF PlanSteps
==============================================================================
