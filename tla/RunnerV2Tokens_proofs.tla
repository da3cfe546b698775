------------------------- MODULE RunnerV2Tokens_proofs ------------------------
(***************************************************************************)
(* The tokens of the slot-stable runner, from the ledger of RunnerV2_proofs: *)
(* a rank submits a step, a graph runs, its outputs are read, and delivered. *)
(* Of the ledger these move the output rank's place (m), the device's (f),   *)
(* the form of a step, and the oldest step.  A run is the heart of it: its   *)
(* rows see exactly the texts of their requests, so it samples their next    *)
(* tokens, and it writes cells and slots of no other live request.           *)
(***************************************************************************)
EXTENDS RunnerV2_proofs

(* What a step in the queue never changes: what it is for; and, until it is  *)
(* read, what it was sent with.                                             *)
Carries(e, d) ==
  /\ StepParts \subseteq DOMAIN d
  /\ d.new = e.new /\ d.reqs = e.reqs /\ d.prompt = e.prompt
  /\ d.finished = e.finished /\ d.preempted = e.preempted
  /\ ~d.read => /\ ~e.read /\ d.at = e.at /\ d.size = e.size
                /\ d.given = e.given /\ d.texts = e.texts

(* When steps of a queue run, and when the output rank submits them. *)
Timely(s, n) ==
  \A i \in 1 .. n :
    /\ s[i].ran => s[i].reqs = <<>> \/ (OutputRank \in s[i].ranks /\ \A j \in 1 .. i - 1 : s[j].ran)
    /\ OutputRank \in s[i].ranks => s[i].new = <<>> \/ \A j \in 1 .. i - 1 : s[j].ran

(* A step that carries on is formed as before. *)
LEMMA FormedCarried ==
  ASSUME NEW e, NEW d, Carries(e, d), NEW g, NEW n0, NEW n1, NEW b0, NEW b1,
         Formed(e, g, n0, n1, b0, b1)
  PROVE  Formed(d, g, n0, n1, b0, b1)
<1>1. ASSUME ~d.read, NEW r \in ToSet(d.reqs)
      PROVE  Computes(d, r, g[r], n0[r], n1[r], b0[r], b1[r])
  <2>1. /\ d.new = e.new /\ d.prompt = e.prompt /\ d.at = e.at /\ d.size = e.size
        /\ d.given = e.given /\ d.texts = e.texts /\ ~e.read /\ d.reqs = e.reqs
    BY <1>1 DEF Carries
  <2>2. Computes(e, r, g[r], n0[r], n1[r], b0[r], b1[r])
    BY <2>1 DEF Formed
  <2> QED BY <2>1, <2>2 DEF Computes
<1>2. d.reqs = e.reqs /\ d.preempted = e.preempted
  BY DEF Carries
<1> QED BY <1>1, <1>2 DEF Formed

(* What the queue's steps and the plan leave alone. *)
LEMMA PlanFramed ==
  ASSUME RunnerV2Assumption, SlotInv, NEW N, NEW B, NEW f, NEW m, Ledger(N, B, f, m),
         UNCHANGED <<engine, plan>>, Len(steps') = Len(steps),
         \A i \in 1 .. Len(steps) : Carries(steps[i], steps'[i]), NEW h \in f .. Len(steps)
  PROVE  /\ Ghosts(N, B)' /\ Shapes(N, B)' /\ PlanAgrees(N, B)' /\ Room(N, B, h)' /\ Answers(N)'
         /\ Lives' = Lives
<1>1. /\ Ghosts(N, B) /\ Positions(f, m)
      /\ Shapes(N, B) /\ PlanAgrees(N, B) /\ Room(N, B, f) /\ Answers(N)
  BY DEF Ledger
<1>2. PICK n \in 0 .. 2 : n = Len(steps)
  BY QueueLength
<1>3. Len(steps') = n /\ h \in f .. n /\ f \in 0 .. n
  BY <1>1, <1>2 DEF Positions
<1>4. /\ engine' = engine /\ stage' = stage /\ counted' = counted /\ goal' = goal
      /\ texts' = texts /\ blocks' = blocks /\ ended' = ended
  BY DEF plan
<1>5. \A i \in 1 .. n : steps'[i].reqs = steps[i].reqs
  BY <1>2 DEF Carries
<1>6. Ghosts(N, B)'
  BY <1>1, <1>2, <1>3 DEF Ghosts
<1>7. Shapes(N, B)'
  <2> SUFFICES ASSUME NEW i \in 1 .. n PROVE Formed(steps'[i], goal', N[i - 1], N[i], B[i - 1], B[i])
    BY <1>3 DEF Shapes
  <2>1. Formed(steps[i], goal, N[i - 1], N[i], B[i - 1], B[i])
    BY <1>1, <1>2 DEF Shapes
  <2>2. Carries(steps[i], steps'[i])
    BY <1>2
  <2>3. Formed(steps'[i], goal, N[i - 1], N[i], B[i - 1], B[i])
    BY <2>1, <2>2, FormedCarried
  <2> QED BY <1>4, <2>3
<1>8. PlanAgrees(N, B)'
  <2>1. \A r \in ReqId : (Live(r)' <=> Live(r)) /\ (Settled(r)' <=> Settled(r))
    BY <1>4 DEF Live, Settled
  <2> QED BY <1>1, <1>2, <1>3, <1>4, <2>1 DEF PlanAgrees
<1>9. Room(N, B, h)'
  <2>1. /\ \A i \in f .. n, r \in ReqId :
             Live(r) \/ (i > f /\ r \in ToSet(steps[i].reqs)) => Holds(B[i][r], N[i][r], engine.blocks)
        /\ \A i \in f + 1 .. n, r \in ReqId, q \in ReqId :
             r \in ToSet(steps[i].reqs) /\ Live(q) /\ q # r => ToSet(B[i][r]) \cap ToSet(B[i][q]) = {}
    BY <1>1, <1>2 DEF Room
  <2>2. \A r \in ReqId : Live(r)' <=> Live(r)
    BY <1>4 DEF Live
  <2>3. \A i \in h .. n : i \in f .. n /\ (i > h => i > f /\ i \in 1 .. n /\ i \in f + 1 .. n)
    BY <1>3
  <2>4. \A i \in h + 1 .. n : i \in f + 1 .. n /\ i \in 1 .. n
    BY <1>3
  <2>5. ASSUME NEW i \in h .. n, NEW r \in ReqId, Live(r)' \/ (i > h /\ r \in ToSet(steps'[i].reqs))
        PROVE  Holds(B[i][r], N[i][r], engine'.blocks)
    BY <1>4, <1>5, <2>1, <2>2, <2>3, <2>5
  <2>6. ASSUME NEW i \in h + 1 .. n, NEW r \in ReqId, NEW q \in ReqId,
               r \in ToSet(steps'[i].reqs), Live(q)', q # r
        PROVE  ToSet(B[i][r]) \cap ToSet(B[i][q]) = {}
    BY <1>5, <2>1, <2>2, <2>4, <2>6
  <2> QED BY <1>3, <2>5, <2>6 DEF Room
<1>10. Answers(N)'
  <2>1. \A r \in ReqId : (Live(r)' <=> Live(r))
    BY <1>4 DEF Live
  <2>2. ASSUME NEW i \in {1, 2}, NEW r \in ReqId PROVE Yields(N, i, r)' <=> Yields(N, i, r)
    <3>1. i <= n => i \in 1 .. n
      BY <1>2
    <3> QED BY <1>2, <1>3, <1>4, <1>5, <3>1 DEF Yields
  <2>3. ASSUME NEW r \in ReqId
        PROVE  /\ (Yields(N, 1, r)' <=> Yields(N, 1, r)) /\ (Yields(N, 2, r)' <=> Yields(N, 2, r))
               /\ Owed(N, 1, r)' = Owed(N, 1, r) /\ Owed(N, 2, r)' = Owed(N, 2, r)
    BY <2>2 DEF Owed
  <2> HIDE DEF Live
  <2> QED BY <1>1, <1>4, <2>1, <2>3 DEF Answers
<1>11. Lives' = Lives
  BY <1>4 DEF Lives, Live
<1> QED BY <1>6, <1>7, <1>8, <1>9, <1>10, <1>11

(* The order of the queue outlives a step that keeps its plan. *)
LEMMA OrdersFramed ==
  ASSUME RunnerV2Assumption, SlotInv, Orders,
         stage' = stage, Len(steps') = Len(steps), NEW n, n = Len(steps),
         \A i \in 1 .. n : Carries(steps[i], steps'[i]), Timely(steps', n)
  PROVE  Orders'
<1>1. n \in 0 .. 2
  BY QueueLength
<1> SUFFICES ASSUME NEW i \in 1 .. n
             PROVE  LET s == steps'[i] IN
                    /\ StepParts \subseteq DOMAIN s /\ IsInjective(s.reqs) /\ s.prompt \in BOOLEAN
                    /\ s.ran => s.reqs = <<>> \/ (OutputRank \in s.ranks /\ \A j \in 1 .. i - 1 : steps'[j].ran)
                    /\ OutputRank \in s.ranks => s.new = <<>> \/ \A j \in 1 .. i - 1 : steps'[j].ran
                    /\ \A q \in s.finished : ~Live(q)'
                    /\ \A q \in ToSet(s.reqs) : \/ stage'[q] \in {"running", "finished"}
                                                \/ \E j \in i + 1 .. n : q \in steps'[j].preempted
                    /\ \A q \in ReqId : stage'[q] \in {"new", "loaded"} => q \notin ToSet(s.reqs) /\ q \notin s.preempted
  BY DEF Orders
<1>2. PICK s : s = steps'[i]
  OBVIOUS
<1>3. PICK e : e = steps[i]
  OBVIOUS
<1>4. /\ StepParts \subseteq DOMAIN s /\ s.new = e.new /\ s.reqs = e.reqs /\ s.prompt = e.prompt
      /\ s.finished = e.finished /\ s.preempted = e.preempted
  BY <1>2, <1>3 DEF Carries
<1>5. /\ IsInjective(e.reqs) /\ e.prompt \in BOOLEAN
      /\ \A q \in e.finished : ~Live(q)
      /\ \A q \in ToSet(e.reqs) : \/ stage[q] \in {"running", "finished"}
                                  \/ \E j \in i + 1 .. n : q \in steps[j].preempted
      /\ \A q \in ReqId : stage[q] \in {"new", "loaded"} => q \notin ToSet(e.reqs) /\ q \notin e.preempted
  BY <1>3 DEF Orders
<1>6. /\ s.ran => s.reqs = <<>> \/ (OutputRank \in s.ranks /\ \A j \in 1 .. i - 1 : steps'[j].ran)
      /\ OutputRank \in s.ranks => s.new = <<>> \/ \A j \in 1 .. i - 1 : steps'[j].ran
  BY <1>2 DEF Timely
<1>7. \A j \in i + 1 .. n : steps'[j].preempted = steps[j].preempted
  <2> TAKE j \in i + 1 .. n
  <2>1. j \in 1 .. n
    BY <1>1
  <2> QED BY <2>1 DEF Carries
<1>8. \A q \in e.finished : ~Live(q)'
  BY <1>5 DEF Live
<1> QED BY <1>2, <1>4, <1>5, <1>6, <1>7, <1>8

(* What a rank makes of a step it submits. *)
Handed(e, d, k, place, rows) ==
  /\ Carries(e, d) /\ d.ran = e.ran /\ d.read = e.read /\ d.out = e.out /\ d.ranks = e.ranks \cup {k}
  /\ d.chosen[k] = SeatsOf(place, e.reqs)
  /\ \A p \in TpRank : p # k => d.chosen[p] = e.chosen[p]
  /\ k # OutputRank => d.rows = e.rows
  /\ k = OutputRank => d.rows = rows

(* What a submitted step keeps. *)
LEMMA SubmittedParts ==
  ASSUME NEW k \in TpRank, NEW e, StepParts \subseteq DOMAIN e, DOMAIN e.chosen = TpRank, NEW place,
         NEW d, d = Submitted(e, k, place),
         NEW rows, rows = [j \in DOMAIN e.reqs |->
                             LET s == place[e.reqs[j]]
                             IN RowFor(e, e.reqs[j], s, blockRow'[s], prefillLen'[s])]
  PROVE  Handed(e, d, k, place, rows)
<1>1. PICK C : C = [r \in ToSet(e.reqs) |-> place[r]]
  OBVIOUS
<1>2. d = [e EXCEPT !.ranks = @ \cup {k}, !.chosen[k] = C,
                    !.rows = IF k # OutputRank THEN e.rows ELSE rows]
  BY <1>1 DEF Submitted
<1>3. PICK X : X = IF k # OutputRank THEN e.rows ELSE rows
  OBVIOUS
<1>4. d = [e EXCEPT !.ranks = @ \cup {k}, !.chosen[k] = C, !.rows = X]
  BY <1>2, <1>3
<1>5. /\ StepParts \subseteq DOMAIN d
      /\ d.new = e.new /\ d.reqs = e.reqs /\ d.prompt = e.prompt
      /\ d.finished = e.finished /\ d.preempted = e.preempted
      /\ d.at = e.at /\ d.size = e.size /\ d.given = e.given /\ d.texts = e.texts
      /\ d.ran = e.ran /\ d.read = e.read /\ d.out = e.out /\ d.ranks = e.ranks \cup {k}
      /\ d.chosen[k] = C /\ d.rows = X
      /\ \A p \in TpRank : p # k => d.chosen[p] = e.chosen[p]
  BY <1>4 DEF StepParts
<1>6. Carries(e, d)
  BY <1>5 DEF Carries
<1> QED BY <1>1, <1>3, <1>5, <1>6 DEF Handed, SeatsOf

(* What execute_model of a rank does to the queue and to its slots. *)
Executing(k, i, n, place, rows) ==
  /\ i \in 1 .. n /\ Len(steps') = n
  /\ k \notin steps[i].ranks /\ \A j \in 1 .. i - 1 : k \in steps[j].ranks
  /\ Joins(steps[i]) => \A j \in 1 .. i - 1 : steps[j].ran
  /\ slotOf' = [slotOf EXCEPT ![k] = place]
  /\ Handed(steps[i], steps'[i], k, place, rows)
  /\ \A j \in 1 .. n : j # i =>
       /\ Carries(steps[j], steps'[j]) /\ steps'[j].ran = steps[j].ran /\ steps'[j].read = steps[j].read
       /\ steps'[j].out = steps[j].out /\ steps'[j].ranks = steps[j].ranks
       /\ steps'[j].chosen = steps[j].chosen /\ steps'[j].rows = steps[j].rows
  /\ UNCHANGED <<engine, plan, carry, kv>>
  /\ k # OutputRank => UNCHANGED <<blockRow, prefillLen, history, computedBy, lastToken>>
  /\ k = OutputRank => blockRow' = Extended(steps[i], place, Emptied(steps[i])) /\ Admit(steps[i], place)

(* execute_model() on a rank acts so on one step of the queue. *)
LEMMA ExecuteActs ==
  ASSUME RunnerV2Assumption, SlotInv, Orders, NEW k \in TpRank, ExecuteModel(k), NEW n, n = Len(steps)
  PROVE  \E i, place, rows :
           /\ Executing(k, i, n, place, rows) /\ place = Placed(k, i)
           /\ rows = [j \in DOMAIN steps[i].reqs |->
                        LET s == place[steps[i].reqs[j]]
                        IN RowFor(steps[i], steps[i].reqs[j], s, blockRow'[s], prefillLen'[s])]
<1>1. n \in 0 .. 2 /\ IsList(steps) /\ DOMAIN steps = 1 .. n
  BY QueueLength
<1>2. PICK i \in DOMAIN steps :
        /\ k \notin steps[i].ranks /\ \A j \in 1 .. i - 1 : k \in steps[j].ranks
        /\ Joins(steps[i]) => \A j \in 1 .. i - 1 : steps[j].ran
        /\ slotOf' = [slotOf EXCEPT ![k] = Placed(k, i)]
        /\ IF k = OutputRank
           THEN blockRow' = Extended(steps[i], Placed(k, i), Emptied(steps[i])) /\ Admit(steps[i], Placed(k, i))
           ELSE UNCHANGED <<blockRow, prefillLen, history, computedBy, lastToken>>
        /\ steps' = [j \in DOMAIN steps |->
                       IF j = i THEN Submitted(steps[i], k, Placed(k, i))
                       ELSE IF j < i /\ Joins(steps[i]) THEN [steps[j] EXCEPT !.fenced = @ \cup {k}]
                       ELSE steps[j]]
        /\ UNCHANGED <<engine, plan, carry, kv>>
  BY Zenon DEF ExecuteModel
<1>3. PICK place : place = Placed(k, i)
  OBVIOUS
<1>4. PICK e : e = steps[i]
  OBVIOUS
<1>5. PICK rows : rows = [j \in DOMAIN e.reqs |->
                        LET s == place[e.reqs[j]]
                        IN RowFor(e, e.reqs[j], s, blockRow'[s], prefillLen'[s])]
  OBVIOUS
<1>6. Len(steps') = n
  <2>1. steps' = [j \in 1 .. Len(steps) |-> steps'[j]]
    BY <1>1, <1>2
  <2> QED BY <1>1, <2>1, ListMapped
<1>7. PICK d : d = steps'[i]
  OBVIOUS
<1>8. d = Submitted(e, k, place)
  BY <1>1, <1>2, <1>3, <1>4, <1>7
<1>9. \A j \in 1 .. n : StepParts \subseteq DOMAIN steps[j] /\ DOMAIN steps[j].chosen = TpRank
  BY DEF Orders, SlotInv, QueueTypes
<1>10. Handed(e, d, k, place, rows)
  <2>1. StepParts \subseteq DOMAIN e /\ DOMAIN e.chosen = TpRank
    BY <1>1, <1>4, <1>9
  <2> QED BY <1>5, <1>8, <2>1, SubmittedParts
<1>11. ASSUME NEW j \in 1 .. n, j # i
       PROVE  /\ Carries(steps[j], steps'[j]) /\ steps'[j].ran = steps[j].ran /\ steps'[j].read = steps[j].read
              /\ steps'[j].out = steps[j].out /\ steps'[j].ranks = steps[j].ranks
              /\ steps'[j].chosen = steps[j].chosen /\ steps'[j].rows = steps[j].rows
  <2>1. PICK s : s = steps[j]
    OBVIOUS
  <2>2. PICK t : t = steps'[j]
    OBVIOUS
  <2>3. t = s \/ t = [s EXCEPT !.fenced = @ \cup {k}]
    BY <1>1, <1>2, <1>11, <2>1, <2>2
  <2>4. StepParts \subseteq DOMAIN s
    BY <1>9, <2>1
  <2>5. /\ StepParts \subseteq DOMAIN t
        /\ t.new = s.new /\ t.reqs = s.reqs /\ t.prompt = s.prompt
        /\ t.finished = s.finished /\ t.preempted = s.preempted
        /\ t.at = s.at /\ t.size = s.size /\ t.given = s.given /\ t.texts = s.texts
        /\ t.ran = s.ran /\ t.read = s.read /\ t.out = s.out /\ t.ranks = s.ranks
        /\ t.chosen = s.chosen /\ t.rows = s.rows
    BY <2>3, <2>4 DEF StepParts
  <2>6. Carries(s, t)
    BY <2>5 DEF Carries
  <2> QED BY <2>1, <2>2, <2>5, <2>6
<1>12. Executing(k, i, n, place, rows)
  <2>1. i \in 1 .. n
    BY <1>1
  <2>2. Handed(steps[i], steps'[i], k, place, rows)
    BY <1>4, <1>7, <1>10
  <2>3. \A j \in 1 .. n : j # i =>
          /\ Carries(steps[j], steps'[j]) /\ steps'[j].ran = steps[j].ran /\ steps'[j].read = steps[j].read
          /\ steps'[j].out = steps[j].out /\ steps'[j].ranks = steps[j].ranks
          /\ steps'[j].chosen = steps[j].chosen /\ steps'[j].rows = steps[j].rows
    BY <1>11
  <2>4. /\ k # OutputRank => UNCHANGED <<blockRow, prefillLen, history, computedBy, lastToken>>
        /\ k = OutputRank => blockRow' = Extended(steps[i], place, Emptied(steps[i])) /\ Admit(steps[i], place)
    BY <1>2, <1>3
  <2>5. /\ k \notin steps[i].ranks /\ \A j \in 1 .. i - 1 : k \in steps[j].ranks
        /\ Joins(steps[i]) => \A j \in 1 .. i - 1 : steps[j].ran
        /\ slotOf' = [slotOf EXCEPT ![k] = place] /\ UNCHANGED <<engine, plan, carry, kv>>
    BY <1>2, <1>3
  <2> QED BY <1>6, <2>1, <2>2, <2>3, <2>4, <2>5 DEF Executing
<1> QED BY SMTT(30), <1>3, <1>4, <1>5, <1>12

(* A rank whose outputs the engine does not read changes nothing of these. *)
LEMMA ExecuteElsewhere ==
  ASSUME RunnerV2Assumption, SlotInv, NEW N, NEW B, NEW f, NEW m, Ledger(N, B, f, m),
         NEW k \in TpRank, ExecuteModel(k), k # OutputRank
  PROVE  Ledger(N, B, f, m)'
<1>1. /\ Ghosts(N, B) /\ Positions(f, m) /\ Orders
      /\ Shapes(N, B) /\ PlanAgrees(N, B) /\ Room(N, B, f)
      /\ Answers(N) /\ Results(N)
      /\ HostRows(B, m) /\ Cache(N, B, f) /\ Device(N, f, m)
  BY DEF Ledger
<1>2. PICK n \in 0 .. 2 : n = Len(steps)
  BY QueueLength
<1>3. PICK i, place, rows : Executing(k, i, n, place, rows)
  BY <1>1, <1>2, ExecuteActs
<1>4. OutputRank \in TpRank /\ slotOf \in [TpRank -> Table]
  BY DEF RunnerV2Assumption, SlotInv, SlotSets
<1>5. \A r \in ReqId : Seat(r)' = Seat(r)
  BY <1>3, <1>4 DEF Executing, Seat
<1>6. /\ Len(steps') = n /\ UNCHANGED <<engine, plan, carry, kv>>
      /\ UNCHANGED <<blockRow, prefillLen, history, computedBy, lastToken>>
  BY <1>3 DEF Executing
<1>7. ASSUME NEW j \in 1 .. n
      PROVE  /\ Carries(steps[j], steps'[j]) /\ steps'[j].ran = steps[j].ran /\ steps'[j].read = steps[j].read
             /\ steps'[j].out = steps[j].out /\ (OutputRank \in steps'[j].ranks <=> OutputRank \in steps[j].ranks)
             /\ steps'[j].chosen[OutputRank] = steps[j].chosen[OutputRank] /\ steps'[j].rows = steps[j].rows
             /\ steps'[j].reqs = steps[j].reqs /\ steps'[j].new = steps[j].new
             /\ steps'[j].preempted = steps[j].preempted
  <2>1. CASE j = i
    BY <1>3, <1>4, <2>1 DEF Executing, Handed, Carries
  <2>2. CASE j # i
    BY <1>3, <2>2 DEF Executing, Carries
  <2> QED BY <2>1, <2>2
<1>8. engine' = engine /\ stage' = stage /\ goal' = goal
  BY <1>6 DEF plan
<1>9. f \in 0 .. n /\ m \in 0 .. n /\ f \in f .. Len(steps)
  BY <1>1, <1>2 DEF Positions
<1>10. /\ Ghosts(N, B)' /\ Shapes(N, B)' /\ PlanAgrees(N, B)' /\ Room(N, B, f)' /\ Answers(N)'
       /\ Lives' = Lives
  BY <1>2, <1>6, <1>7, <1>9, PlanFramed
<1>11. Positions(f, m)'
  <2>1. \A j \in 1 .. f : j \in 1 .. n
    BY <1>9
  <2>2. f < n => f + 1 \in 1 .. n
    BY <1>9
  <2> QED BY <1>1, <1>2, <1>6, <1>7, <1>9, <2>1, <2>2 DEF Positions
<1>12. Timely(steps', n)
  <2> SUFFICES ASSUME NEW j \in 1 .. n
               PROVE  /\ steps'[j].ran => steps'[j].reqs = <<>> \/ (OutputRank \in steps'[j].ranks /\ \A h \in 1 .. j - 1 : steps'[h].ran)
                      /\ OutputRank \in steps'[j].ranks => steps'[j].new = <<>> \/ \A h \in 1 .. j - 1 : steps'[h].ran
    BY DEF Timely
  <2>1. /\ steps[j].ran => steps[j].reqs = <<>> \/ (OutputRank \in steps[j].ranks /\ \A h \in 1 .. j - 1 : steps[h].ran)
        /\ OutputRank \in steps[j].ranks => steps[j].new = <<>> \/ \A h \in 1 .. j - 1 : steps[h].ran
    BY <1>1, <1>2 DEF Orders
  <2>2. \A h \in 1 .. j - 1 : h \in 1 .. n
    BY <1>2
  <2> QED BY <1>7, <2>1, <2>2
<1>13. Orders'
  BY <1>1, <1>2, <1>6, <1>7, <1>8, <1>12, OrdersFramed
<1>14. Results(N)'
  <2> SUFFICES ASSUME NEW j \in 1 .. n, steps'[j].ran PROVE Gives(steps'[j], goal', N[j], Lives')
    BY <1>6 DEF Results
  <2>1. PICK e : e = steps[j]
    OBVIOUS
  <2>2. PICK d : d = steps'[j]
    OBVIOUS
  <2>3. Gives(e, goal, N[j], Lives)
    BY <1>1, <1>2, <1>7, <2>1 DEF Results
  <2>4. d.out = e.out /\ d.reqs = e.reqs /\ d.read = e.read
    BY <1>7, <2>1, <2>2
  <2>5. Gives(d, goal, N[j], Lives)
    BY <2>3, <2>4 DEF Gives
  <2> QED BY <1>8, <1>10, <2>2, <2>5
<1>15. ASSUME NEW r \in ReqId PROVE Stays(r, m)' <=> Stays(r, m)
  <2>1. \A j \in m + 1 .. n : j \in 1 .. n
    BY <1>9
  <2>2. m < n => m + 1 \in 1 .. n
    BY <1>9
  <2> QED BY <1>2, <1>5, <1>6, <1>7, <2>1, <2>2 DEF Stays
<1>16. HostRows(B, m)'
  <2>1. /\ DOMAIN blockRow = Slots /\ DOMAIN prefillLen = Slots
        /\ \A s \in Slots : (\A r \in ReqId : Seat(r) # s) => blockRow[s] = <<>>
        /\ \A r \in ReqId : Stays(r, m) => blockRow[Seat(r)] = B[m][r] /\ prefillLen[Seat(r)] = goal[r]
        /\ \A j \in 1 .. m : ~steps[j].read => Operands(steps[j], B[j], goal)
    BY <1>1 DEF HostRows
  <2>2. ASSUME NEW j \in 1 .. m, ~steps'[j].read PROVE Operands(steps'[j], B[j], goal')
    <3>1. j \in 1 .. n
      BY <1>9
    <3>2. PICK e : e = steps[j]
      OBVIOUS
    <3>3. PICK d : d = steps'[j]
      OBVIOUS
    <3>4. Operands(e, B[j], goal)
      BY <1>7, <2>1, <2>2, <3>1, <3>2
    <3>5. /\ d.reqs = e.reqs /\ d.rows = e.rows /\ d.chosen[OutputRank] = e.chosen[OutputRank]
          /\ d.prompt = e.prompt /\ d.at = e.at /\ d.size = e.size
      BY <1>7, <2>2, <3>1, <3>2, <3>3 DEF Carries
    <3>6. \A r, s, row, u : RowFor(d, r, s, row, u) = RowFor(e, r, s, row, u)
      BY <3>5 DEF RowFor
    <3>7. Operands(d, B[j], goal)
      BY <3>4, <3>5, <3>6 DEF Operands
    <3> QED BY <1>8, <3>3, <3>7
  <2>3. \A r \in ReqId : Stays(r, m)' => blockRow'[Seat(r)'] = B[m][r] /\ prefillLen'[Seat(r)'] = goal'[r]
    BY <1>5, <1>6, <1>8, <1>15, <2>1
  <2>4. \A s \in Slots : (\A r \in ReqId : Seat(r)' # s) => blockRow'[s] = <<>>
    BY <1>5, <1>6, <2>1
  <2> HIDE DEF Seat
  <2> QED BY <1>6, <2>1, <2>2, <2>3, <2>4 DEF HostRows
<1>17. Cache(N, B, f)'
  <2>1. \A r \in ReqId : Live(r)' <=> Live(r)
    BY <1>8 DEF Live
  <2> QED BY <1>1, <1>6, <1>8, <2>1 DEF Cache, CacheHolds
<1>18. Device(N, f, m)'
  <2>1. \A r \in ReqId : Live(r)' <=> Live(r)
    BY <1>8 DEF Live
  <2>2. ASSUME NEW s, NEW r \in ReqId, Ready(s, r, goal[r], N[f][r]) PROVE Ready(s, r, goal[r], N[f][r])'
    BY <1>6, <1>8, <2>2 DEF Ready
  <2>3. \A j \in f + 1 .. m : j \in 1 .. n /\ ToSet(steps[j].reqs) \subseteq ReqId
    <3> TAKE j \in f + 1 .. m
    <3>1. j \in 1 .. n
      BY <1>9
    <3> QED BY <1>2, <3>1, KnownStep
  <2>4. \A j \in f + 1 .. m : \A r \in ToSet(steps[j].reqs) :
             Live(r) => Ready(steps[j].chosen[OutputRank][r], r, goal[r], N[f][r])
    BY <1>1 DEF Device
  <2>5. ASSUME NEW j \in f + 1 .. m, NEW r \in ToSet(steps'[j].reqs), Live(r)'
        PROVE Ready(steps[j].chosen[OutputRank][r], r, goal[r], N[f][r])'
    <3>1. PICK s : s = steps[j].chosen[OutputRank][r]
      OBVIOUS
    <3>2. r \in ReqId /\ r \in ToSet(steps[j].reqs) /\ s = steps'[j].chosen[OutputRank][r]
      BY <1>7, <2>3, <3>1
    <3>3. Ready(s, r, goal[r], N[f][r])
      BY <2>1, <2>4, <2>5, <3>1, <3>2
    <3>4. Ready(s, r, goal[r], N[f][r])'
      BY <2>2, <3>2, <3>3
    <3> QED BY <3>2, <3>4
  <2>6. ASSUME NEW r \in ReqId, Live(r)', Stays(r, m)' PROVE Ready(Seat(r), r, goal[r], N[f][r])'
    <3>1. PICK s : s = Seat(r)
      OBVIOUS
    <3>2. Ready(s, r, goal[r], N[f][r]) /\ s = Seat(r)'
      BY <1>1, <1>5, <1>15, <2>1, <2>6, <3>1 DEF Device
    <3>3. Ready(s, r, goal[r], N[f][r])'
      BY <2>2, <3>2
    <3> QED BY <3>2, <3>3
  <2> QED BY <1>1, <1>6, <2>5, <2>6 DEF Device
<1> QED BY <1>10, <1>11, <1>13, <1>14, <1>16, <1>17, <1>18 DEF Ledger

(* A step with a new request is submitted when all before it, and not it,    *)
(* have run.                                                                *)
LEMMA NewcomersJoin ==
  ASSUME RunnerV2Assumption, SlotInv, NEW f, NEW m, Positions(f, m), Orders,
         NEW n, n = Len(steps), m + 1 \in 1 .. n, steps[m + 1].new # <<>>,
         Joins(steps[m + 1]) => \A j \in 1 .. m : steps[j].ran
  PROVE  f = m
<1>1. n \in 0 .. 2 /\ n <= engine.depth /\ engine.depth \in 1 .. 2
  BY QueueLength
<1>2. f \in 0 .. n /\ m \in 0 .. n
  BY DEF Positions
<1>3. \A j \in 1 .. m : steps[j].ran
  <2>1. CASE engine.depth = 1
    <3>1. 1 .. m = {}
      BY <1>1, <1>2, <2>1
    <3> QED BY <3>1
  <2>2. CASE engine.depth # 1
    <3>1. Joins(steps[m + 1])
      BY <1>1, <2>2 DEF Joins
    <3> QED BY <3>1
  <2> QED BY <2>1, <2>2
<1>4. ~(f < m)
  <2> SUFFICES ASSUME f < m PROVE FALSE
    OBVIOUS
  <2>1. f + 1 \in 1 .. m /\ f < n
    BY <1>2
  <2> QED BY <1>3, <2>1 DEF Positions
<1>5. ~(m < f)
  <2> SUFFICES ASSUME m < f PROVE FALSE
    OBVIOUS
  <2>1. m + 1 \in 1 .. f /\ m + 1 \in 1 .. n /\ ~(m + 1 <= m)
    BY <1>2
  <2>2. steps[m + 1].ran /\ OutputRank \notin steps[m + 1].ranks
    BY <2>1 DEF Positions
  <2>3. steps[m + 1].reqs = <<>>
    BY <2>1, <2>2 DEF Orders
  <2>4. PICK e : e = steps[m + 1]
    OBVIOUS
  <2>5. PICK s \in Seq(ReqId) : s = e.new /\ ToSet(s) \subseteq ToSet(e.reqs)
    BY <2>1, <2>4, KnownStep
  <2>6. s # <<>> /\ ToSet(e.reqs) = {}
    BY <2>3, <2>4, <2>5, EmptyList
  <2>7. ToSet(s) = {s[j] : j \in 1 .. Len(s)} /\ Len(s) \in Nat
    BY ListMembers, LenProperties
  <2>8. Len(s) # 0
    BY <2>6, EmptySeq
  <2>9. 1 \in 1 .. Len(s)
    BY <2>7, <2>8
  <2>10. s[1] \in ToSet(s)
    BY <2>7, <2>9
  <2> QED BY <2>5, <2>6, <2>10
<1> QED BY <1>2, <1>4, <1>5

(* The table before and after the step the output rank submits, and who has  *)
(* a place in it.                                                           *)
Placing(P, Q, e, m) ==
  /\ P \in Table /\ Q \in Table /\ Apart(P) /\ Apart(Q) /\ Fitting(P, e)
  /\ slotOf[OutputRank] = P /\ slotOf'[OutputRank] = Q
  /\ \A r \in ToSet(e.reqs) : r \in ReqId /\ Q[r] # NoSlot /\ r \notin Gone(e)
  /\ \A r \in ToSet(e.new) : /\ r \in ToSet(e.reqs) /\ P[r] = NoSlot
                             /\ Q[r] \in Slots \ Staying(P, Gone(e))
  /\ \A r \in ReqId \ ToSet(e.new) : Q[r] = IF r \in Gone(e) THEN NoSlot ELSE P[r]
(* r comes to its slot as a newcomer, or stays in it. *)
Comes(P, Q, e, m, r) ==
  /\ r \in ReqId /\ Q[r] \in Slots
  /\ r \in ToSet(e.new) \/ (r \notin Gone(e) /\ P[r] = Q[r] /\ Stays(r, m))

(* The output rank submits the first step it has not, and so places its     *)
(* requests.                                                                *)
LEMMA ExecutePlaces ==
  ASSUME RunnerV2Assumption, SlotInv, NEW f, NEW m, Positions(f, m),
         NEW i, NEW n, n = Len(steps), NEW Q, Q = Placed(OutputRank, i), NEW rows,
         Executing(OutputRank, i, n, Q, rows)
  PROVE  /\ i = m + 1 /\ m + 1 \in 1 .. n
         /\ \E P : Placing(P, Q, steps[m + 1], m)
<1>1. n \in 0 .. 2
  BY QueueLength
<1>2. OutputRank \in TpRank
  BY DEF RunnerV2Assumption
<1>3. /\ i \in 1 .. n /\ OutputRank \notin steps[i].ranks /\ \A j \in 1 .. i - 1 : OutputRank \in steps[j].ranks
      /\ slotOf' = [slotOf EXCEPT ![OutputRank] = Q]
  BY DEF Executing
<1>4. m \in 0 .. n /\ \A j \in 1 .. n : OutputRank \in steps[j].ranks <=> j <= m
  BY DEF Positions
<1>5. i = m + 1
  <2>1. ~(i <= m)
    BY <1>3, <1>4
  <2>2. i - 1 >= 1 => i - 1 <= m
    <3> SUFFICES ASSUME i - 1 >= 1 PROVE i - 1 <= m
      OBVIOUS
    <3>1. i - 1 \in 1 .. i - 1 /\ i - 1 \in 1 .. n
      BY <1>1, <1>3
    <3> QED BY <1>3, <1>4, <3>1
  <2> QED BY <1>3, <1>4, <2>1, <2>2
<1>6. PICK T : Chain(T)
  BY DEF SlotInv
<1>7. PICK e : e = steps[i]
  OBVIOUS
<1>8. PICK P : P = T[i - 1]
  OBVIOUS
<1>9. PICK F : F = T[i]
  OBVIOUS
<1>10. TableSteps(P, F, e)
  <2>1. TableSteps(T[i - 1], T[i], e)
    BY <1>3, <1>6, <1>7, TableStep
  <2> QED BY <1>8, <1>9, <2>1
<1>11. slotOf[OutputRank] = P
  <2>1. m = i - 1
    BY <1>4, <1>5
  <2> QED BY <1>6, <1>8, <2>1, OutputTable
<1>12. Q = F
  <2>1. Placed(OutputRank, i) = After(P, e)
    <3>1. QueueTypes /\ Told /\ SlotSets /\ Shares
      BY DEF SlotInv
    <3>2. Fitting(slotOf[OutputRank], steps[i])
      BY <1>7, <1>10, <1>11 DEF TableSteps
    <3> QED BY <1>2, <1>3, <1>7, <1>11, <3>1, <3>2, PlacedAsDue
  <2>2. F = After(P, e)
    BY <1>3, <1>6, <1>7, <1>8, <1>9 DEF Chain
  <2> QED BY <2>1, <2>2
<1>13. slotOf'[OutputRank] = Q
  BY <1>2, <1>3 DEF SlotInv, SlotSets
<1>14. Placing(P, Q, e, m)
  BY <1>10, <1>11, <1>12, <1>13 DEF Placing, TableSteps
<1> QED BY <1>3, <1>5, <1>7, <1>14

(* Who keeps its slot, and who is computed, has come to one. *)
LEMMA WhoComes ==
  ASSUME RunnerV2Assumption, SlotInv, NEW f, NEW m, Positions(f, m),
         NEW n, n = Len(steps), m + 1 \in 1 .. n, NEW e, e = steps[m + 1],
         NEW P, NEW Q, Placing(P, Q, e, m),
         Len(steps') = n, \A i \in 1 .. n : Carries(steps[i], steps'[i])
  PROVE  /\ \A r \in ToSet(e.reqs) : Comes(P, Q, e, m, r)
         /\ \A r \in ReqId : Stays(r, m + 1)' => Comes(P, Q, e, m, r)
<1>1. n \in 0 .. 2 /\ m \in 0 .. n /\ m < n
  BY SMTT(30), QueueLength DEF Positions
<1>2. /\ P \in Table /\ Q \in Table /\ Apart(P) /\ Apart(Q) /\ Fitting(P, e)
      /\ slotOf[OutputRank] = P /\ slotOf'[OutputRank] = Q
      /\ \A r \in ToSet(e.reqs) : r \in ReqId /\ Q[r] # NoSlot /\ r \notin Gone(e)
      /\ \A r \in ToSet(e.new) : /\ r \in ToSet(e.reqs) /\ P[r] = NoSlot
      /\ \A r \in ReqId \ ToSet(e.new) : Q[r] = IF r \in Gone(e) THEN NoSlot ELSE P[r]
  BY DEF Placing
<1>3. \A r \in ReqId : Seat(r) = P[r] /\ Seat(r)' = Q[r]
  BY <1>2 DEF Seat
<1>4. \A r \in ReqId : Q[r] # NoSlot => Q[r] \in Slots
  BY <1>2 DEF Table
<1>5. ASSUME NEW r \in ToSet(e.reqs) PROVE Comes(P, Q, e, m, r)
  <2>1. r \in ReqId /\ Q[r] \in Slots /\ r \notin Gone(e) /\ Q[r] # NoSlot
    BY <1>2, <1>4
  <2>2. CASE r \in ToSet(e.new)
    BY <2>1, <2>2 DEF Comes
  <2>3. CASE r \notin ToSet(e.new)
    <3>1. P[r] = Q[r] /\ Seat(r) # NoSlot
      BY <1>2, <1>3, <2>1, <2>3
    <3>2. m < Len(steps) /\ r \in ToSet(steps[m + 1].reqs)
      BY <1>1
    <3>3. Stays(r, m)
      BY <2>1, <3>1, <3>2 DEF Stays
    <3> QED BY <2>1, <3>1, <3>3 DEF Comes
  <2> QED BY <2>2, <2>3
<1>6. ASSUME NEW r \in ReqId, Stays(r, m + 1)' PROVE Comes(P, Q, e, m, r)
  <2>1. /\ Q[r] # NoSlot
        /\ \/ \A j \in m + 1 + 1 .. n : r \notin steps'[j].preempted
           \/ m + 1 < n /\ r \in ToSet(steps'[m + 1 + 1].reqs)
    BY <1>3, <1>6 DEF Stays
  <2>2. CASE r \in ToSet(e.new)
    BY <1>4, <2>1, <2>2 DEF Comes
  <2>3. CASE r \notin ToSet(e.new)
    <3>1. r \notin Gone(e) /\ P[r] = Q[r]
      BY <1>2, <2>1, <2>3
    <3>2. r \notin e.preempted
      BY <3>1 DEF Gone
    <3>3. \A j \in m + 1 + 1 .. n : r \notin steps[j].preempted
      <4>1. \A j \in m + 1 + 1 .. n : j \in 1 .. n /\ steps'[j].preempted = steps[j].preempted
        <5> TAKE j \in m + 1 + 1 .. n
        <5>1. j \in 1 .. n
          BY <1>1
        <5> QED BY <5>1 DEF Carries
      <4>2. CASE \A j \in m + 1 + 1 .. n : r \notin steps'[j].preempted
        BY <4>1, <4>2
      <4>3. CASE m + 1 < n /\ r \in ToSet(steps'[m + 1 + 1].reqs)
        <5>0. m + 1 < n
          BY <4>3
        <5>6. \A x \in 0 .. 2 : \A y \in 0 .. x : y + 1 < x => y + 1 + 1 = x /\ x \in 1 .. x
          OBVIOUS
        <5>1. m + 1 + 1 = n /\ n \in 1 .. n
          BY <1>1, <5>0, <5>6
        <5>2. steps'[n].reqs = steps[n].reqs
          BY <5>1 DEF Carries
        <5>3. r \notin steps[n].preempted
          BY <4>3, <5>1, <5>2, KnownStep
        <5>4. \A j \in m + 1 + 1 .. n : j = n
          BY <1>1, <5>1
        <5> QED BY <5>3, <5>4
      <4> QED BY <2>1, <4>2, <4>3
    <3>4. \A j \in m + 1 .. n : r \notin steps[j].preempted
      <4>1. \A j \in m + 1 .. n : j = m + 1 \/ j \in m + 1 + 1 .. n
        BY <1>1
      <4> QED BY <3>2, <3>3, <4>1
    <3>5. Stays(r, m)
      BY <1>3, <2>1, <3>1, <3>4 DEF Stays
    <3> QED BY <1>4, <2>1, <3>1, <3>5 DEF Comes
  <2> QED BY <2>2, <2>3
<1> QED BY <1>5, <1>6

(* What admission copies to the slots of the new requests, and to no other.  *)
LEMMA Admitted ==
  ASSUME NEW P, NEW Q, NEW e, NEW m, Placing(P, Q, e, m), Admit(e, Q)
  PROVE  /\ DOMAIN prefillLen' = Slots /\ DOMAIN history' = Slots
         /\ DOMAIN computedBy' = Slots /\ DOMAIN lastToken' = Slots
         /\ \A r \in ToSet(e.new) : /\ prefillLen'[Q[r]] = Len(e.texts[r])
                                    /\ history'[Q[r]] = e.texts[r] /\ computedBy'[Q[r]] = e.at[r]
         /\ \A s \in Slots : (\A r \in ToSet(e.new) : Q[r] # s) =>
              /\ prefillLen'[s] = prefillLen[s] /\ history'[s] = history[s]
              /\ computedBy'[s] = computedBy[s] /\ lastToken'[s] = lastToken[s]
<1>1. /\ Apart(Q) /\ \A r \in ToSet(e.new) : r \in ReqId /\ Q[r] \in Slots /\ Q[r] # NoSlot
  BY DEF Placing
<1>2. PICK entrant : entrant = [s \in {Q[r] : r \in ToSet(e.new)} |->
                                  CHOOSE r \in ToSet(e.new) : Q[r] = s]
  OBVIOUS
<1>3. \A r \in ToSet(e.new) : Q[r] \in DOMAIN entrant /\ entrant[Q[r]] = r
  <2> TAKE r \in ToSet(e.new)
  <2>1. PICK x : x = CHOOSE y \in ToSet(e.new) : Q[y] = Q[r]
    OBVIOUS
  <2>2. x \in ToSet(e.new) /\ Q[x] = Q[r]
    BY <2>1
  <2>3. x = r
    BY <1>1, <2>2 DEF Apart
  <2> QED BY <1>2, <2>1, <2>3
<1>4. \A s \in Slots : (\A r \in ToSet(e.new) : Q[r] # s) => s \notin DOMAIN entrant
  BY <1>2
<1>5. /\ prefillLen' = [s \in Slots |-> IF s \in DOMAIN entrant THEN Len(e.texts[entrant[s]])
                                        ELSE prefillLen[s]]
      /\ history' = [s \in Slots |-> IF s \in DOMAIN entrant THEN e.texts[entrant[s]]
                                     ELSE history[s]]
      /\ computedBy' = [s \in Slots |-> IF s \in DOMAIN entrant THEN e.at[entrant[s]]
                                        ELSE computedBy[s]]
      /\ DOMAIN lastToken' = Slots
      /\ \A s \in Slots : s \notin DOMAIN entrant => lastToken'[s] = lastToken[s]
  BY SMTT(60), <1>2 DEF Admit
<1>6. /\ DOMAIN prefillLen' = Slots /\ DOMAIN history' = Slots
      /\ DOMAIN computedBy' = Slots /\ DOMAIN lastToken' = Slots
  BY <1>5
<1>7. ASSUME NEW r \in ToSet(e.new)
      PROVE  /\ prefillLen'[Q[r]] = Len(e.texts[r])
             /\ history'[Q[r]] = e.texts[r] /\ computedBy'[Q[r]] = e.at[r]
  <2>1. PICK s \in Slots : s = Q[r]
    BY <1>1
  <2>2. s \in DOMAIN entrant /\ entrant[s] = r
    BY <1>3, <2>1
  <2> QED BY <1>5, <2>1, <2>2
<1>8. ASSUME NEW s \in Slots, \A r \in ToSet(e.new) : Q[r] # s
      PROVE  /\ prefillLen'[s] = prefillLen[s] /\ history'[s] = history[s]
             /\ computedBy'[s] = computedBy[s] /\ lastToken'[s] = lastToken[s]
  <2>1. s \notin DOMAIN entrant
    BY <1>4, <1>8
  <2> QED BY <1>5, <2>1
<1> QED BY <1>6, <1>7, <1>8

(* The rows that are emptied, and those that grow. *)
Grown(rows, old, P, Q, e) ==
  /\ DOMAIN rows = Slots
  /\ \A r \in ToSet(e.reqs) : rows[Q[r]] = old[Q[r]] \o e.given[r]
  /\ \A s \in Slots : (\A r \in ToSet(e.reqs) : Q[r] # s) => rows[s] = old[s]
  /\ \A s \in Slots : old[s] = IF \E r \in Gone(e) : P[r] = s THEN <<>> ELSE blockRow[s]

(* Emptied and then extended, the rows have grown so. *)
LEMMA RowsExtended ==
  ASSUME RunnerV2Assumption, NEW P, NEW Q, NEW e, NEW m, Placing(P, Q, e, m), NEW rows,
         rows = Extended(e, Q, Emptied(e))
  PROVE  Grown(rows, Emptied(e), P, Q, e)
<1>1. /\ Apart(Q) /\ Q \in Table /\ slotOf[OutputRank] = P
      /\ \A r \in ToSet(e.reqs) : r \in ReqId /\ Q[r] # NoSlot
  BY DEF Placing
<1>2. \A s \in Slots : s # NoSlot
  BY DEF Slots, NoSlot, RunnerV2Assumption
<1>3. \A r \in ToSet(e.reqs) : Q[r] \in Slots
  BY <1>1 DEF Table
<1>4. PICK old : old = Emptied(e)
  OBVIOUS
<1> DEFINE who(s) == CHOOSE r \in ToSet(e.reqs) : Q[r] = s
<1>5. rows = [s \in Slots |->
                IF \E r \in ToSet(e.reqs) : Q[r] = s THEN old[s] \o e.given[who(s)] ELSE old[s]]
  BY <1>4 DEF Extended
<1>10. \A r \in ToSet(e.reqs) : who(Q[r]) \in ToSet(e.reqs) /\ Q[who(Q[r])] = Q[r]
  OBVIOUS
<1> HIDE DEF who
<1>6. ASSUME NEW r \in ToSet(e.reqs) PROVE rows[Q[r]] = old[Q[r]] \o e.given[r]
  <2>1. PICK s \in Slots : s = Q[r]
    BY <1>3
  <2>2. who(s) = r
    <3>1. who(s) \in ToSet(e.reqs) /\ Q[who(s)] = s
      BY <1>10, <2>1
    <3> QED BY <1>1, <2>1, <3>1 DEF Apart
  <2>3. rows[s] = old[s] \o e.given[who(s)]
    BY <1>5, <2>1
  <2> QED BY <2>1, <2>2, <2>3
<1>7. ASSUME NEW s \in Slots
      PROVE  old[s] = IF \E r \in Gone(e) : P[r] = s THEN <<>> ELSE blockRow[s]
  <2>1. old[s] = IF s \in Vacated(OutputRank, e) THEN <<>> ELSE blockRow[s]
    BY <1>4 DEF Emptied
  <2>2. s \in Vacated(OutputRank, e) <=> \E r \in Gone(e) : P[r] = s
    BY <1>1, <1>2 DEF Vacated, Leaving, Gone
  <2> QED BY <2>1, <2>2
<1>8. DOMAIN rows = Slots /\ \A s \in Slots : (\A r \in ToSet(e.reqs) : Q[r] # s) => rows[s] = old[s]
  BY <1>5
<1>9. Grown(rows, old, P, Q, e)
  BY <1>6, <1>7, <1>8 DEF Grown
<1> QED BY <1>4, <1>9

(* The step the output rank submits next, as it was sent. *)
LEMMA NextFormed ==
  ASSUME NEW N, NEW B, NEW f, NEW m, Ledger(N, B, f, m), m + 1 \in 1 .. Len(steps),
         NEW e, e = steps[m + 1]
  PROVE  Formed(e, goal, N[m], N[m + 1], B[m], B[m + 1])
<1>1. Shapes(N, B) /\ m \in Int
  BY DEF Ledger, Positions
<1>2. PICK i \in 1 .. Len(steps) : i = m + 1
  OBVIOUS
<1>3. Formed(steps[i], goal, N[i - 1], N[i], B[i - 1], B[i])
  BY <1>1 DEF Shapes
<1>4. i - 1 = m
  BY <1>1, <1>2
<1> QED BY <1>2, <1>3, <1>4

(* The row of a slot is empty, or the blocks of its request. *)
Rowed(table, lens, P, Q, e, m, b) ==
  /\ DOMAIN table = Slots
  /\ \A s \in Slots : (\A r \in ReqId : Q[r] # s) => table[s] = <<>>
  /\ \A r \in ReqId : Comes(P, Q, e, m, r) => table[Q[r]] = b[r] /\ lens[Q[r]] = goal[r]

(* After the submission they are the rows of the step's plan. *)
LEMMA RowsComeTo ==
  ASSUME RunnerV2Assumption, SlotInv, NEW N, NEW B, NEW f, NEW m, Ledger(N, B, f, m),
         NEW n, n = Len(steps), m + 1 \in 1 .. n, NEW e, e = steps[m + 1], ~e.read,
         NEW P, NEW Q, Placing(P, Q, e, m), NEW table, table = Extended(e, Q, Emptied(e)),
         Admit(e, Q), NEW lens, lens = prefillLen'
  PROVE  Rowed(table, lens, P, Q, e, m, B[m + 1])
<1>1. /\ P \in Table /\ Q \in Table /\ Apart(P) /\ Apart(Q) /\ Fitting(P, e)
      /\ slotOf[OutputRank] = P
      /\ \A r \in ToSet(e.reqs) : r \in ReqId /\ Q[r] # NoSlot /\ r \notin Gone(e)
      /\ \A r \in ToSet(e.new) : /\ r \in ToSet(e.reqs) /\ P[r] = NoSlot
                                 /\ Q[r] \in Slots \ Staying(P, Gone(e))
      /\ \A r \in ReqId \ ToSet(e.new) : Q[r] = IF r \in Gone(e) THEN NoSlot ELSE P[r]
  BY DEF Placing
<1>0. PICK old : old = Emptied(e)
  OBVIOUS
<1>2. /\ DOMAIN table = Slots
      /\ \A r \in ToSet(e.reqs) : table[Q[r]] = old[Q[r]] \o e.given[r]
      /\ \A s \in Slots : (\A r \in ToSet(e.reqs) : Q[r] # s) => table[s] = old[s]
      /\ \A s \in Slots : old[s] = IF \E r \in Gone(e) : P[r] = s THEN <<>> ELSE blockRow[s]
  <2>1. Grown(table, old, P, Q, e)
    BY <1>0, RowsExtended
  <2> QED BY <2>1 DEF Grown
<1>3. \A s \in Slots : s # NoSlot
  BY DEF Slots, NoSlot, RunnerV2Assumption
<1>4. /\ \A s \in Slots : (\A r \in ReqId : P[r] # s) => blockRow[s] = <<>>
      /\ \A r \in ReqId : Stays(r, m) => blockRow[P[r]] = B[m][r] /\ prefillLen[P[r]] = goal[r]
  BY <1>1 DEF Ledger, HostRows, Seat
<1>5. Gone(e) \subseteq ReqId
  BY <1>1 DEF Fitting
<1>6. ASSUME NEW s \in Slots, \A r \in ReqId : Q[r] # s PROVE table[s] = <<>>
  <2>1. table[s] = old[s]
    BY <1>1, <1>2, <1>6
  <2>2. CASE \E r \in Gone(e) : P[r] = s
    BY <1>2, <2>1, <2>2
  <2>3. CASE \A r \in Gone(e) : P[r] # s
    <3>1. \A r \in ReqId : P[r] # s
      BY <1>1, <1>3, <1>6, <2>3
    <3> QED BY <1>2, <1>4, <2>1, <2>3, <3>1
  <2> QED BY <2>2, <2>3
<1>7. /\ \A r \in ToSet(e.reqs) : Computes(e, r, goal[r], N[m][r], N[m + 1][r], B[m][r], B[m + 1][r])
      /\ \A r \in ReqId \ ToSet(e.reqs) : r \notin e.preempted => B[m + 1][r] = B[m][r]
  <2>3. Formed(e, goal, N[m], N[m + 1], B[m], B[m + 1])
    BY NextFormed
  <2> QED BY <2>3 DEF Formed
<1>8. ASSUME NEW r \in ReqId, Comes(P, Q, e, m, r), r \in ToSet(e.new)
      PROVE  table[Q[r]] = B[m + 1][r] /\ prefillLen'[Q[r]] = goal[r]
  <2>1. PICK s \in Slots : s = Q[r]
    BY <1>8 DEF Comes
  <2>2. old[s] = <<>>
    <3>1. CASE \E q \in Gone(e) : P[q] = s
      BY <1>2, <3>1
    <3>2. CASE \A q \in Gone(e) : P[q] # s
      <4>1. \A q \in ReqId \ Gone(e) : P[q] # s
        BY <1>1, <1>8, <2>1 DEF Staying
      <4>2. \A q \in ReqId : P[q] # s
        BY <3>2, <4>1
      <4> QED BY <1>2, <1>4, <3>2, <4>2
    <3> QED BY <3>1, <3>2
  <2>3. r \in ToSet(e.reqs)
    BY <1>1, <1>8
  <2>4. /\ \E x \in Seq(Nat) : B[m + 1][r] = B[m][r] \o x /\ e.given[r] = B[m + 1][r]
        /\ e.texts[r] = Text(r, goal[r])
    BY <1>7, <1>8, <2>3 DEF Computes
  <2>5. B[m + 1] \in [ReqId -> Seq(Nat)] /\ goal[r] \in Nat
    <3>1. m + 1 \in 0 .. Len(steps)
      OBVIOUS
    <3> QED BY <3>1 DEF Ledger, Ghosts, PlanAgrees
  <2>6. <<>> \o e.given[r] = B[m + 1][r]
    <3>1. PICK b \in Seq(Nat) : b = B[m + 1][r]
      BY <2>5
    <3>2. e.given[r] = b
      BY <2>4, <3>1
    <3> QED BY <3>1, <3>2, ConcatEmptySeq
  <2>7. table[s] = B[m + 1][r]
    <3>1. table[Q[r]] = old[Q[r]] \o e.given[r]
      BY <1>2, <2>3
    <3> QED BY <2>1, <2>2, <2>6, <3>1
  <2>8. prefillLen'[s] = Len(e.texts[r])
    BY <1>8, <2>1, Admitted
  <2>9. Len(Text(r, goal[r])) = goal[r]
    BY <2>5, Texts
  <2> QED BY <2>1, <2>4, <2>7, <2>8, <2>9
<1>9. ASSUME NEW r \in ReqId, Comes(P, Q, e, m, r), r \notin ToSet(e.new)
      PROVE  table[Q[r]] = B[m + 1][r] /\ prefillLen'[Q[r]] = goal[r]
  <2>1. PICK s \in Slots : s = Q[r]
    BY <1>9 DEF Comes
  <2>2. r \notin Gone(e) /\ P[r] = s /\ Stays(r, m) /\ s # NoSlot
    BY <1>3, <1>9, <2>1 DEF Comes
  <2>3. blockRow[s] = B[m][r] /\ prefillLen[s] = goal[r]
    BY <1>4, <2>2
  <2>4. old[s] = B[m][r]
    <3>1. \A q \in Gone(e) : P[q] # s
      BY <1>1, <1>5, <2>2 DEF Apart
    <3> QED BY <1>2, <2>3, <3>1
  <2>5. \A q \in ReqId : Q[q] = s => q = r
    BY <1>1, <2>1, <2>2 DEF Apart
  <2>6. prefillLen'[s] = goal[r]
    <3>1. \A q \in ToSet(e.new) : Q[q] # s
      BY <1>1, <1>9, <2>5
    <3> QED BY <2>3, <3>1, Admitted
  <2>7. table[s] = B[m + 1][r]
    <3>1. CASE r \in ToSet(e.reqs)
      <4>1. \E x \in Seq(Nat) : B[m + 1][r] = B[m][r] \o x /\ e.given[r] = x
        BY <1>7, <1>9, <3>1 DEF Computes
      <4>2. table[Q[r]] = old[Q[r]] \o e.given[r]
        BY <1>2, <3>1
      <4> QED BY <2>1, <2>4, <4>1, <4>2
    <3>2. CASE r \notin ToSet(e.reqs)
      <4>1. \A q \in ToSet(e.reqs) : Q[q] # s
        BY <1>1, <2>5, <3>2
      <4>2. r \notin e.preempted
        BY <2>2 DEF Gone
      <4> QED BY <1>2, <1>7, <2>4, <3>2, <4>1, <4>2
    <3> QED BY <3>1, <3>2
  <2> QED BY <2>1, <2>6, <2>7
<1> QED BY <1>2, <1>6, <1>8, <1>9 DEF Rowed

(* The device has what the step will need of who comes to a slot. *)
LEMMA SlotsReadied ==
  ASSUME RunnerV2Assumption, SlotInv, NEW N, NEW B, NEW f, NEW m, Ledger(N, B, f, m),
         NEW n, n = Len(steps), m + 1 \in 1 .. n, NEW e, e = steps[m + 1], ~e.read,
         e.new # <<>> => f = m,
         NEW P, NEW Q, Placing(P, Q, e, m), Admit(e, Q), goal' = goal, carry' = carry,
         NEW r \in ReqId, Live(r), Comes(P, Q, e, m, r)
  PROVE  Ready(Q[r], r, goal[r], N[f][r])'
<1>1. PICK s \in Slots : s = Q[r]
  BY DEF Comes
<1>2. CASE r \in ToSet(e.new)
  <2>1. f = m
    BY <1>2, EmptyList
  <2>2. /\ e.at[r] = N[m][r] /\ N[m][r] < goal[r] /\ e.texts[r] = Text(r, goal[r])
    <3>3. Formed(e, goal, N[m], N[m + 1], B[m], B[m + 1])
      BY NextFormed
    <3>4. r \in ToSet(e.reqs)
      BY <1>2 DEF Placing
    <3>5. Computes(e, r, goal[r], N[m][r], N[m + 1][r], B[m][r], B[m + 1][r])
      BY <3>3, <3>4 DEF Formed
    <3> QED BY <1>2, <3>5 DEF Computes
  <2>3. history'[s] = Text(r, goal[r]) /\ computedBy'[s] = N[f][r]
    BY <1>1, <1>2, <2>1, <2>2, Admitted
  <2>4. PICK x, g : x = N[f][r] /\ g = goal[r] /\ x < g
    BY <2>1, <2>2
  <2>5. x \in Nat /\ g \in Nat
    <3>1. f \in 0 .. Len(steps)
      BY DEF Ledger, Positions
    <3> QED BY <2>4, <3>1 DEF Ledger, Ghosts, PlanAgrees
  <2>6. ~(x >= g)
    BY <2>4, <2>5
  <2>7. Ready(s, r, g, x)'
    BY <2>3, <2>4, <2>6 DEF Ready
  <2> QED BY <1>1, <2>4, <2>7
<1>3. CASE r \notin ToSet(e.new)
  <2>1. P[r] = s /\ Stays(r, m)
    BY <1>1, <1>3 DEF Comes
  <2>2. Seat(r) = s
    BY <2>1 DEF Seat, Placing
  <2>3. Ready(s, r, goal[r], N[f][r])
    BY <2>1, <2>2 DEF Ledger, Device
  <2>4. s # NoSlot
    BY DEF Slots, NoSlot, RunnerV2Assumption
  <2>5. \A q \in ToSet(e.new) : Q[q] # s
    BY <1>1, <1>3, <2>4 DEF Placing, Apart
  <2>6. history'[s] = history[s] /\ computedBy'[s] = computedBy[s] /\ lastToken'[s] = lastToken[s]
    BY <2>5, Admitted
  <2>7. Ready(s, r, goal[r], N[f][r])'
    BY <2>3, <2>6 DEF Ready
  <2> QED BY <1>1, <2>7
<1> QED BY <1>2, <1>3

(* The output rank submits its next step. *)
LEMMA ExecuteHere ==
  ASSUME RunnerV2Assumption, SlotInv, NEW N, NEW B, NEW f, NEW m, Ledger(N, B, f, m),
         ExecuteModel(OutputRank)
  PROVE  Ledger(N, B, f, m + 1)'
<1>1. /\ Ghosts(N, B) /\ Positions(f, m) /\ Orders
      /\ Shapes(N, B) /\ PlanAgrees(N, B) /\ Room(N, B, f)
      /\ Answers(N) /\ Results(N)
      /\ HostRows(B, m) /\ Cache(N, B, f) /\ Device(N, f, m)
  BY DEF Ledger
<1>2. PICK n \in 0 .. 2 : n = Len(steps)
  BY QueueLength
<1>a. OutputRank \in TpRank
  BY DEF RunnerV2Assumption
<1>b. PICK h, Q, rows :
        /\ Executing(OutputRank, h, n, Q, rows) /\ Q = Placed(OutputRank, h)
        /\ rows = [j \in DOMAIN steps[h].reqs |->
                     LET s == Q[steps[h].reqs[j]]
                     IN RowFor(steps[h], steps[h].reqs[j], s, blockRow'[s], prefillLen'[s])]
  BY SMTT(30), <1>1, <1>2, <1>a, ExecuteActs
<1>c. h = m + 1 /\ m + 1 \in 1 .. n /\ \E P : Placing(P, Q, steps[m + 1], m)
  BY <1>1, <1>2, <1>b, ExecutePlaces
<1>d. PICK e : e = steps[m + 1]
  OBVIOUS
<1>e. PICK P : Placing(P, Q, e, m)
  BY <1>c, <1>d
<1>3. Executing(OutputRank, m + 1, n, Q, rows)
  BY <1>b, <1>c
<1>4. /\ OutputRank \notin e.ranks
      /\ Joins(e) => \A j \in 1 .. m : steps[j].ran
      /\ Handed(e, steps'[m + 1], OutputRank, Q, rows)
      /\ rows = [j \in DOMAIN e.reqs |-> RowFor(e, e.reqs[j], Q[e.reqs[j]], blockRow'[Q[e.reqs[j]]], prefillLen'[Q[e.reqs[j]]])]
      /\ blockRow' = Extended(e, Q, Emptied(e)) /\ Admit(e, Q)
  <2>1. h - 1 = m /\ steps[h] = e
    BY <1>1, <1>c, <1>d DEF Positions
  <2>2. Joins(steps[h]) => \A j \in 1 .. h - 1 : steps[j].ran
    BY <1>b DEF Executing
  <2> QED BY <1>b, <1>c, <1>3, <1>d, <2>1, <2>2 DEF Executing
<1>5. \A r \in ReqId : Seat(r)' = Q[r]
  BY <1>e DEF Placing, Seat
<1>6. Len(steps') = n /\ UNCHANGED <<engine, plan, carry, kv>>
  BY <1>3 DEF Executing
<1>7. ASSUME NEW j \in 1 .. n
      PROVE  /\ Carries(steps[j], steps'[j]) /\ steps'[j].ran = steps[j].ran /\ steps'[j].read = steps[j].read
             /\ steps'[j].out = steps[j].out
             /\ OutputRank \in steps'[j].ranks <=> (OutputRank \in steps[j].ranks \/ j = m + 1)
             /\ j # m + 1 => /\ steps'[j].chosen[OutputRank] = steps[j].chosen[OutputRank]
                             /\ steps'[j].rows = steps[j].rows
             /\ steps'[j].reqs = steps[j].reqs /\ steps'[j].new = steps[j].new
             /\ steps'[j].preempted = steps[j].preempted
  <2>1. CASE j = m + 1
    BY <1>4, <1>d, <2>1 DEF Handed, Carries
  <2>2. CASE j # m + 1
    BY <1>3, <2>2 DEF Executing, Carries
  <2> QED BY <2>1, <2>2
<1>8. engine' = engine /\ stage' = stage /\ goal' = goal /\ carry' = carry /\ kv' = kv
  BY <1>6 DEF plan
<1>9. f \in 0 .. n /\ m \in 0 .. n /\ f \in f .. Len(steps) /\ m < n /\ m + 1 \in 0 .. n
  BY <1>1, <1>2, <1>c DEF Positions
<1>10. /\ Ghosts(N, B)' /\ Shapes(N, B)' /\ PlanAgrees(N, B)' /\ Room(N, B, f)' /\ Answers(N)'
       /\ Lives' = Lives
  BY <1>2, <1>6, <1>7, <1>9, PlanFramed
<1>11. Positions(f, m + 1)'
  <2>1. \A j \in 1 .. f : j \in 1 .. n
    BY <1>9
  <2>2. f < n => f + 1 \in 1 .. n
    BY <1>9
  <2>3. \A j \in 1 .. n : j <= m + 1 <=> j <= m \/ j = m + 1
    BY <1>9
  <2> QED BY <1>1, <1>2, <1>6, <1>7, <1>9, <2>1, <2>2, <2>3 DEF Positions
<1>12. e.new # <<>> => f = m
  BY <1>1, <1>2, <1>4, <1>c, <1>d, NewcomersJoin
<1>13. ~e.read
  <2>1. e.read => e.ranks = TpRank
    BY <1>2, <1>c, <1>d DEF SlotInv, Told
  <2> QED BY <1>4, <1>a, <2>1
<1>14. Orders'
  <2>1. ASSUME NEW j \in 1 .. n
        PROVE  /\ steps'[j].ran => steps'[j].reqs = <<>> \/ (OutputRank \in steps'[j].ranks /\ \A i \in 1 .. j - 1 : steps'[i].ran)
               /\ OutputRank \in steps'[j].ranks => steps'[j].new = <<>> \/ \A i \in 1 .. j - 1 : steps'[i].ran
    <3>1. /\ steps[j].ran => steps[j].reqs = <<>> \/ (OutputRank \in steps[j].ranks /\ \A i \in 1 .. j - 1 : steps[i].ran)
          /\ OutputRank \in steps[j].ranks => steps[j].new = <<>> \/ \A i \in 1 .. j - 1 : steps[i].ran
      BY <1>1, <1>2 DEF Orders
    <3>2. \A i \in 1 .. j - 1 : i \in 1 .. n
      BY <1>2
    <3>3. j = m + 1 => steps[j].new = <<>> \/ \A i \in 1 .. j - 1 : steps[i].ran
      <4> SUFFICES ASSUME j = m + 1, e.new # <<>> PROVE \A i \in 1 .. j - 1 : steps[i].ran
        BY <1>d
      <4>1. f = m /\ j - 1 = m
        BY <1>9, <1>12
      <4> QED BY <1>1, <4>1 DEF Positions
    <3> QED BY <1>7, <3>1, <3>2, <3>3
  <2>2. Timely(steps', n)
    BY <2>1 DEF Timely
  <2> QED BY <1>1, <1>2, <1>6, <1>7, <1>8, <2>2, OrdersFramed
<1>15. Results(N)'
  <2> SUFFICES ASSUME NEW j \in 1 .. n, steps'[j].ran PROVE Gives(steps'[j], goal', N[j], Lives')
    BY <1>6 DEF Results
  <2>1. PICK s : s = steps[j]
    OBVIOUS
  <2>2. PICK d : d = steps'[j]
    OBVIOUS
  <2>3. Gives(s, goal, N[j], Lives)
    BY <1>1, <1>2, <1>7, <2>1 DEF Results
  <2>4. d.out = s.out /\ d.reqs = s.reqs /\ d.read = s.read
    BY <1>7, <2>1, <2>2
  <2>5. Gives(d, goal, N[j], Lives)
    BY <2>3, <2>4 DEF Gives
  <2> QED BY <1>8, <1>10, <2>2, <2>5
<1>16. /\ \A r \in ToSet(e.reqs) : Comes(P, Q, e, m, r)
       /\ \A r \in ReqId : Stays(r, m + 1)' => Comes(P, Q, e, m, r)
  BY <1>1, <1>2, <1>6, <1>7, <1>c, <1>d, <1>e, WhoComes
<1>17. PICK table : table = blockRow'
  OBVIOUS
<1>18. /\ DOMAIN table = Slots
       /\ \A s \in Slots : (\A r \in ReqId : Q[r] # s) => table[s] = <<>>
       /\ \A r \in ReqId : Comes(P, Q, e, m, r) =>
            table[Q[r]] = B[m + 1][r] /\ prefillLen'[Q[r]] = goal[r]
  <2>1. table = Extended(e, Q, Emptied(e))
    BY <1>4, <1>17
  <2>2. PICK lens : lens = prefillLen'
    OBVIOUS
  <2>3. Rowed(table, lens, P, Q, e, m, B[m + 1])
    BY <1>2, <1>4, <1>13, <1>c, <1>d, <1>e, <2>1, <2>2, RowsComeTo
  <2> QED BY <2>2, <2>3 DEF Rowed
<1>19. HostRows(B, m + 1)'
  <2>1. DOMAIN prefillLen' = Slots
    BY <1>4, <1>e, Admitted
  <2>2. ASSUME NEW j \in 1 .. m + 1, ~steps'[j].read PROVE Operands(steps'[j], B[j], goal')
    <3>1. j \in 1 .. n /\ (j # m + 1 => j \in 1 .. m)
      BY <1>9
    <3>2. PICK s : s = steps[j]
      OBVIOUS
    <3>3. PICK d : d = steps'[j]
      OBVIOUS
    <3>4. /\ d.reqs = s.reqs /\ d.prompt = s.prompt /\ d.at = s.at /\ d.size = s.size /\ ~s.read
      BY <1>7, <2>2, <3>1, <3>2, <3>3 DEF Carries
    <3>5. \A r, x, row, u : RowFor(d, r, x, row, u) = RowFor(s, r, x, row, u)
      BY <3>4 DEF RowFor
    <3>6. CASE j # m + 1
      <4>1. Operands(s, B[j], goal)
        BY <1>1, <3>1, <3>2, <3>4, <3>6 DEF HostRows
      <4>2. d.rows = s.rows /\ d.chosen[OutputRank] = s.chosen[OutputRank]
        BY <1>7, <3>1, <3>2, <3>3, <3>6
      <4>3. Operands(d, B[j], goal)
        BY <3>4, <3>5, <4>1, <4>2 DEF Operands
      <4> QED BY <1>8, <3>3, <4>3
    <3>7. CASE j = m + 1
      <4>1. d.rows = rows /\ d.chosen[OutputRank] = SeatsOf(Q, e.reqs) /\ s = e
        BY <1>4, <1>d, <3>2, <3>3, <3>7 DEF Handed
      <4>2. ASSUME NEW i \in DOMAIN d.reqs
            PROVE  d.rows[i] = RowFor(d, d.reqs[i], d.chosen[OutputRank][d.reqs[i]], B[j][d.reqs[i]], goal[d.reqs[i]])
        <5>1. PICK r : r = d.reqs[i]
          OBVIOUS
        <5>2. r \in ToSet(e.reqs) /\ r \in ReqId
          BY <1>2, <1>c, <1>d, <3>4, <4>1, <5>1, KnownStep
        <5>3. blockRow'[Q[r]] = B[j][r] /\ prefillLen'[Q[r]] = goal[r]
          BY <1>16, <1>17, <1>18, <3>7, <5>2
        <5>4. d.chosen[OutputRank][r] = Q[r]
          BY <4>1, <5>2 DEF SeatsOf
        <5>5. d.rows[i] = RowFor(e, r, Q[r], blockRow'[Q[r]], prefillLen'[Q[r]])
          BY <1>4, <3>4, <4>1, <5>1
        <5>6. RowFor(e, r, Q[r], B[j][r], goal[r]) = RowFor(d, r, Q[r], B[j][r], goal[r])
          BY <3>5, <4>1
        <5> QED BY <5>1, <5>3, <5>4, <5>5, <5>6
      <4>3. DOMAIN d.rows = DOMAIN d.reqs
        BY <1>4, <3>4, <4>1
      <4>4. Operands(d, B[j], goal)
        BY <4>2, <4>3 DEF Operands
      <4> QED BY <1>8, <3>3, <4>4
    <3> QED BY <3>6, <3>7
  <2>3. \A r \in ReqId : Stays(r, m + 1)' =>
          blockRow'[Seat(r)'] = B[m + 1][r] /\ prefillLen'[Seat(r)'] = goal'[r]
    BY <1>5, <1>8, <1>16, <1>17, <1>18
  <2>4. \A s \in Slots : (\A r \in ReqId : Seat(r)' # s) => blockRow'[s] = <<>>
    BY <1>5, <1>17, <1>18
  <2>5. DOMAIN blockRow' = Slots
    BY <1>17, <1>18
  <2> HIDE DEF Seat
  <2> QED BY <2>1, <2>2, <2>3, <2>4, <2>5 DEF HostRows
<1>20. Cache(N, B, f)'
  <2>1. \A r \in ReqId : Live(r)' <=> Live(r)
    BY <1>8 DEF Live
  <2> QED BY <1>1, <1>8, <2>1 DEF Cache, CacheHolds
<1>21. Device(N, f, m + 1)'
  <2>1. \A r \in ReqId : Live(r)' <=> Live(r)
    BY <1>8 DEF Live
  <2>2. ASSUME NEW r \in ReqId, Live(r), Comes(P, Q, e, m, r) PROVE Ready(Q[r], r, goal[r], N[f][r])'
    BY <1>2, <1>4, <1>8, <1>12, <1>13, <1>c, <1>d, <1>e, <2>2, SlotsReadied
  <2>3. ASSUME NEW j \in f + 1 .. m + 1, NEW r \in ToSet(steps'[j].reqs), Live(r)'
        PROVE Ready(steps[j].chosen[OutputRank][r], r, goal[r], N[f][r])'
    <3>1. j \in 1 .. n /\ (j # m + 1 => j \in f + 1 .. m)
      BY <1>9
    <3>2. r \in ToSet(steps[j].reqs) /\ r \in ReqId /\ Live(r)
      <4>1. r \in ToSet(steps[j].reqs)
        BY <1>7, <3>1
      <4>2. ToSet(steps[j].reqs) \subseteq ReqId
        BY <1>2, <3>1, KnownStep
      <4> QED BY <2>1, <2>3, <4>1, <4>2
    <3>3. CASE j = m + 1
      <4>1. steps'[j].chosen[OutputRank] = SeatsOf(Q, e.reqs)
        BY <1>4, <1>d, <3>3 DEF Handed
      <4>2. steps'[j].chosen[OutputRank][r] = Q[r] /\ Comes(P, Q, e, m, r)
        BY <1>16, <1>d, <3>2, <3>3, <4>1 DEF SeatsOf
      <4>3. Ready(Q[r], r, goal[r], N[f][r])'
        BY <2>2, <3>2, <4>2
      <4> QED BY <4>2, <4>3
    <3>4. CASE j # m + 1
      <4>1. e.new = <<>>
        <5>1. f # m
          BY <1>9, <3>1, <3>4
        <5> QED BY <1>12, <5>1
      <4>2. \A q : q \notin ToSet(e.new)
        BY <4>1, EmptyList
      <4>3. PICK s : s = steps[j].chosen[OutputRank][r]
        OBVIOUS
      <4>4. Ready(s, r, goal[r], N[f][r])
        BY <1>1, <3>1, <3>2, <3>4, <4>3 DEF Device
      <4>5. s \in Slots
        <5>1. PICK T : Chain(T)
          BY DEF SlotInv
        <5>2. j \in 1 .. m
          BY <1>9, <3>1, <3>4
        <5>3. s = T[j][r]
          <6>1. \A h2 \in 1 .. m : steps[h2].chosen[OutputRank] = SeatsOf(T[h2], steps[h2].reqs)
            BY <1>1, <5>1, OutputTable
          <6>2. steps[j].chosen[OutputRank] = SeatsOf(T[j], steps[j].reqs)
            BY <5>2, <6>1
          <6> QED BY <3>2, <4>3, <6>2 DEF SeatsOf
        <5>4. PICK i \in 1 .. Len(steps) : i = j
          BY <1>2, <3>1
        <5>5. TableSteps(T[i - 1], T[i], steps[i])
          BY <5>1, TableStep
        <5>6. T[i] \in Table /\ T[i][r] # NoSlot
          BY <3>2, <5>4, <5>5 DEF TableSteps
        <5> QED BY <3>2, <5>3, <5>4, <5>6 DEF Table
      <4>6. history'[s] = history[s] /\ computedBy'[s] = computedBy[s] /\ lastToken'[s] = lastToken[s]
        BY <1>4, <1>e, <4>2, <4>5, Admitted
      <4>7. Ready(s, r, goal[r], N[f][r])'
        BY <1>8, <4>4, <4>6 DEF Ready
      <4>8. s = steps'[j].chosen[OutputRank][r]
        BY <1>7, <3>1, <3>4, <4>3
      <4> QED BY <4>7, <4>8
    <3> QED BY <3>3, <3>4
  <2>4. ASSUME NEW r \in ReqId, Live(r)', Stays(r, m + 1)' PROVE Ready(Seat(r), r, goal[r], N[f][r])'
    <3>1. Ready(Q[r], r, goal[r], N[f][r])'
      BY <1>16, <2>1, <2>2, <2>4
    <3>2. PICK s : s = Q[r]
      OBVIOUS
    <3>3. Seat(r)' = s
      BY <1>5, <3>2
    <3> QED BY <3>1, <3>2, <3>3
  <2>5. /\ DOMAIN history' = Slots /\ DOMAIN computedBy' = Slots
        /\ DOMAIN lastToken' = Slots /\ DOMAIN carry' = Slots
    BY <1>1, <1>4, <1>8, <1>e, Admitted DEF Device
  <2> QED BY <2>3, <2>4, <2>5 DEF Device
<1> QED BY <1>10, <1>11, <1>14, <1>15, <1>19, <1>20, <1>21 DEF Ledger

(* A rank submits a step: the ledger moves only with the output rank. *)
LEMMA ExecuteLedger ==
  ASSUME RunnerV2Assumption, SlotInv, NEW N, NEW B, NEW f, NEW m, Ledger(N, B, f, m),
         NEW k \in TpRank, ExecuteModel(k)
  PROVE  \E m2 : Ledger(N, B, f, m2)'
<1>1. CASE k = OutputRank
  <2>1. Ledger(N, B, f, m + 1)'
    BY <1>1, ExecuteHere
  <2> QED BY <2>1
<1>2. CASE k # OutputRank
  <2>1. Ledger(N, B, f, m)'
    BY <1>2, ExecuteElsewhere
  <2> QED BY <2>1
<1> QED BY <1>1, <1>2

(* What reading its outputs makes of a step. *)
Reading(e, d) ==
  /\ Carries(e, d) /\ d.ran = e.ran /\ d.read = TRUE /\ d.out = Trimmed(e)
  /\ d.ranks = e.ranks /\ d.chosen = e.chosen

(* Materialize leaves such a step. *)
LEMMA ReadParts ==
  ASSUME NEW e, StepParts \subseteq DOMAIN e, NEW told, NEW d,
         d = [e EXCEPT !.read = TRUE, !.out = Trimmed(e), !.rows = <<>>, !.at = <<>>,
                       !.size = <<>>, !.given = <<>>, !.texts = <<>>, !.fenced = @ \cup told]
  PROVE  Reading(e, d)
<1>1. PICK x : x = Trimmed(e)
  OBVIOUS
<1>2. d = [e EXCEPT !.read = TRUE, !.out = x, !.rows = <<>>, !.at = <<>>,
                    !.size = <<>>, !.given = <<>>, !.texts = <<>>, !.fenced = @ \cup told]
  BY <1>1
<1>3. /\ StepParts \subseteq DOMAIN d
      /\ d.new = e.new /\ d.reqs = e.reqs /\ d.prompt = e.prompt
      /\ d.finished = e.finished /\ d.preempted = e.preempted
      /\ d.ran = e.ran /\ d.read = TRUE /\ d.out = x /\ d.ranks = e.ranks /\ d.chosen = e.chosen
  BY ZenonT(60), <1>2 DEF StepParts
<1> QED BY <1>1, <1>3 DEF Reading, Carries

(* A step yields a token of a request exactly when it computes the last of    *)
(* what was known of its text, and no other output is kept.                 *)
LEMMA TrimmedGives ==
  ASSUME RunnerV2Assumption, NEW e, NEW d, Reading(e, d), ~e.read, ToSet(e.reqs) \subseteq ReqId,
         NEW g, g \in [ReqId -> Nat], NEW n0, n0 \in [ReqId -> Nat], NEW n1, n1 \in [ReqId -> Nat],
         NEW b0, NEW b1, Formed(e, g, n0, n1, b0, b1), e.reqs # <<>> => Operands(e, b1, g),
         e.prompt \in BOOLEAN, e.reqs \in Seq(ReqId), NEW live, Gives(e, g, n1, live)
  PROVE  Gives(d, g, n1, live)
<1>1. d.reqs = e.reqs /\ d.read = TRUE /\ d.out = Trimmed(e)
  BY DEF Reading, Carries
<1>2. DOMAIN e.out = DOMAIN e.reqs
  BY DEF Gives
<1>3. d.out = [j \in DOMAIN e.out |-> IF e.rows[j].valid THEN <<e.out[j]>> ELSE <<>>]
  BY <1>1 DEF Trimmed
<1>4. DOMAIN d.out = DOMAIN d.reqs
  BY <1>1, <1>2, <1>3
<1>5. ASSUME NEW j \in DOMAIN d.reqs, NEW r, r = d.reqs[j], r \in live
      PROVE  /\ n1[r] >= g[r] => d.out[j] = <<<<r, n1[r] + 1>>>>
             /\ n1[r] < g[r] => d.out[j] = <<>>
  <2>1. r \in ToSet(e.reqs) /\ r \in ReqId
    BY <1>1, <1>5, ListMembers DEF ToSet
  <2>2. e.reqs # <<>>
    BY <2>1, EmptyList
  <2>3. PICK x \in Nat, y \in Nat, z \in Nat : x = n0[r] /\ y = n1[r] /\ z = g[r]
    BY <2>1
  <2>4. Computes(e, r, z, x, y, b0[r], b1[r])
    BY <2>1, <2>3 DEF Formed
  <2>5. /\ e.at[r] = x /\ y = x + e.size[r] /\ e.size[r] \in Nat \ {0}
        /\ ~e.prompt => e.size[r] = 1 /\ (y = z \/ x >= z)
    BY <2>4 DEF Computes
  <2>6. e.rows[j] = RowFor(e, r, e.chosen[OutputRank][r], b1[r], g[r])
    BY <1>1, <1>5, <2>2 DEF Operands
  <2>7. e.rows[j].valid = (e.prompt => e.at[r] + e.size[r] >= g[r])
    BY <2>6 DEF RowFor
  <2>8. e.rows[j].valid <=> y >= z
    <3>1. CASE e.prompt
      BY <2>3, <2>5, <2>7, <3>1
    <3>2. CASE ~e.prompt
      <4>1. y >= z
        BY <2>5, <3>2
      <4> QED BY <2>7, <3>2, <4>1
    <3> QED BY <3>1, <3>2
  <2>9. y >= z => e.out[j] = <<r, y + 1>>
    BY <1>1, <1>5, <2>3 DEF Gives
  <2>10. d.out[j] = IF e.rows[j].valid THEN <<e.out[j]>> ELSE <<>>
    BY <1>1, <1>2, <1>3, <1>5
  <2>11. CASE y >= z
    <3>1. PICK o : o = e.out[j]
      OBVIOUS
    <3>2. o = <<r, y + 1>>
      BY <2>9, <2>11, <3>1
    <3>3. d.out[j] = <<o>>
      BY <2>8, <2>10, <2>11, <3>1
    <3>4. ~(y < z)
      BY <2>11
    <3> QED BY <2>3, <3>2, <3>3, <3>4
  <2>12. CASE ~(y >= z)
    <3>1. d.out[j] = <<>>
      BY <2>8, <2>10, <2>12
    <3> QED BY <2>3, <2>12, <3>1
  <2> QED BY <2>11, <2>12
<1> QED BY <1>1, <1>4, <1>5 DEF Gives

(* A step's outputs are read. *)
LEMMA MaterializeLedger ==
  ASSUME RunnerV2Assumption, SlotInv, NEW N, NEW B, NEW f, NEW m, Ledger(N, B, f, m), Materialize
  PROVE  Ledger(N, B, f, m)'
<1>1. /\ Ghosts(N, B) /\ Positions(f, m) /\ Orders
      /\ Shapes(N, B) /\ PlanAgrees(N, B) /\ Room(N, B, f)
      /\ Answers(N) /\ Results(N)
      /\ HostRows(B, m) /\ Cache(N, B, f) /\ Device(N, f, m)
  BY DEF Ledger
<1>2. PICK n \in 0 .. 2 : n = Len(steps)
  BY QueueLength
<1>3. DOMAIN steps = 1 .. n /\ IsList(steps)
  BY <1>2, QueueLength
<1>4. PICK i \in DOMAIN steps :
        /\ steps[i].ran /\ ~steps[i].read /\ steps[i].ranks = TpRank
        /\ \A j \in 1 .. i - 1 : steps[j].read
        /\ steps' = [steps EXCEPT ![i].read = TRUE, ![i].out = Trimmed(steps[i]),
                       ![i].rows = <<>>, ![i].at = <<>>, ![i].size = <<>>, ![i].given = <<>>,
                       ![i].texts = <<>>,
                       ![i].fenced = @ \cup (IF engine.depth = 1 THEN TpRank ELSE {OutputRank})]
        /\ UNCHANGED <<engine, plan, hostState, deviceState>>
  BY Zenon DEF Materialize
<1>5. PICK told : told = IF engine.depth = 1 THEN TpRank ELSE {OutputRank}
  OBVIOUS
<1>6. PICK e : e = steps[i]
  OBVIOUS
<1>7. PICK d : d = [e EXCEPT !.read = TRUE, !.out = Trimmed(e), !.rows = <<>>, !.at = <<>>,
                      !.size = <<>>, !.given = <<>>, !.texts = <<>>, !.fenced = @ \cup told]
  OBVIOUS
<1>8. steps' = [steps EXCEPT ![i] = d]
  BY <1>4, <1>5, <1>6, <1>7
<1>9. Len(steps') = n /\ steps'[i] = d /\ \A j \in 1 .. n : j # i => steps'[j] = steps[j]
  <2>1. steps' = [j \in 1 .. Len(steps) |-> steps'[j]]
    BY <1>2, <1>3, <1>8
  <2>2. Len(steps') = n
    BY <1>2, <1>3, <2>1, ListMapped
  <2> QED BY <1>3, <1>8, <2>2
<1>10. \A j \in 1 .. n : StepParts \subseteq DOMAIN steps[j]
  BY <1>1, <1>2 DEF Orders
<1>11. Reading(e, d) /\ i \in 1 .. n /\ e.ranks = TpRank /\ ~e.read /\ e.ran
  <2>1. StepParts \subseteq DOMAIN e
    BY <1>3, <1>6, <1>10
  <2> QED BY <1>3, <1>4, <1>6, <1>7, <2>1, ReadParts
<1>12. /\ UNCHANGED <<engine, plan>> /\ engine' = engine /\ stage' = stage /\ goal' = goal
       /\ slotOf' = slotOf /\ blockRow' = blockRow /\ prefillLen' = prefillLen
       /\ history' = history /\ computedBy' = computedBy /\ lastToken' = lastToken /\ carry' = carry /\ kv' = kv
  BY <1>4 DEF plan, hostState, deviceState
<1>13. ASSUME NEW j \in 1 .. n
       PROVE  /\ Carries(steps[j], steps'[j]) /\ steps'[j].ran = steps[j].ran
              /\ steps'[j].ranks = steps[j].ranks
              /\ steps'[j].chosen = steps[j].chosen
              /\ steps'[j].reqs = steps[j].reqs /\ steps'[j].new = steps[j].new
              /\ steps'[j].preempted = steps[j].preempted
  <2>1. CASE j = i
    BY <1>6, <1>9, <1>11, <2>1 DEF Reading, Carries
  <2>2. CASE j # i
    BY <1>9, <1>10, <2>2 DEF Carries
  <2> QED BY <2>1, <2>2
<1>14. f \in 0 .. n /\ m \in 0 .. n /\ f \in f .. Len(steps)
  BY <1>1, <1>2 DEF Positions
<1>15. /\ Ghosts(N, B)' /\ Shapes(N, B)' /\ PlanAgrees(N, B)' /\ Room(N, B, f)' /\ Answers(N)'
       /\ Lives' = Lives
  BY <1>2, <1>9, <1>12, <1>13, <1>14, PlanFramed
<1>16. Positions(f, m)'
  <2>1. \A j \in 1 .. f : j \in 1 .. n
    BY <1>14
  <2>2. f < n => f + 1 \in 1 .. n
    BY <1>14
  <2> QED BY <1>1, <1>2, <1>9, <1>13, <1>14, <2>1, <2>2 DEF Positions
<1>17. Orders'
  <2>1. ASSUME NEW j \in 1 .. n
        PROVE  /\ steps'[j].ran => steps'[j].reqs = <<>> \/ (OutputRank \in steps'[j].ranks /\ \A h \in 1 .. j - 1 : steps'[h].ran)
               /\ OutputRank \in steps'[j].ranks => steps'[j].new = <<>> \/ \A h \in 1 .. j - 1 : steps'[h].ran
    <3>1. /\ steps[j].ran => steps[j].reqs = <<>> \/ (OutputRank \in steps[j].ranks /\ \A h \in 1 .. j - 1 : steps[h].ran)
          /\ OutputRank \in steps[j].ranks => steps[j].new = <<>> \/ \A h \in 1 .. j - 1 : steps[h].ran
      BY <1>1, <1>2 DEF Orders
    <3>2. \A h \in 1 .. j - 1 : h \in 1 .. n
      BY <1>2
    <3> QED BY <1>13, <3>1, <3>2
  <2>2. Timely(steps', n)
    BY <2>1 DEF Timely
  <2> QED BY <1>1, <1>2, <1>9, <1>12, <1>13, <2>2, OrdersFramed
<1>18. Results(N)'
  <2> SUFFICES ASSUME NEW j \in 1 .. n, steps'[j].ran PROVE Gives(steps'[j], goal', N[j], Lives')
    BY <1>9 DEF Results
  <2>1. Gives(steps[j], goal, N[j], Lives)
    BY <1>1, <1>2, <1>13 DEF Results
  <2>2. CASE j # i
    BY <1>9, <1>12, <1>15, <2>1, <2>2
  <2>3. CASE j = i
    <3>1. Formed(e, goal, N[j - 1], N[j], B[j - 1], B[j])
      BY <1>1, <1>2, <1>6, <2>3 DEF Shapes
    <3>2. PICK x, y, u, v : x = N[j - 1] /\ y = N[j] /\ u = B[j - 1] /\ v = B[j]
      OBVIOUS
    <3>3. x \in [ReqId -> Nat] /\ y \in [ReqId -> Nat] /\ goal \in [ReqId -> Nat]
      <4>1. j - 1 \in 0 .. n /\ j \in 0 .. n
        BY <1>2
      <4> QED BY <1>1, <1>2, <3>2, <4>1 DEF Ghosts, PlanAgrees
    <3>4. Operands(e, v, goal)
      <4>1. j \in 1 .. m
        <5>1. OutputRank \in steps[j].ranks
          BY <1>6, <1>11, <2>3 DEF RunnerV2Assumption
        <5>2. j <= m
          BY <1>1, <1>2, <5>1 DEF Positions
        <5> QED BY <1>14, <5>2
      <4> QED BY <1>1, <1>6, <1>11, <2>3, <3>2, <4>1 DEF HostRows
    <3>5. e.prompt \in BOOLEAN
      BY <1>1, <1>2, <1>6, <2>3 DEF Orders
    <3>6. e.reqs \in Seq(ReqId) /\ ToSet(e.reqs) \subseteq ReqId
      BY <1>2, <1>6, <2>3, KnownStep
    <3>7. Gives(e, goal, y, Lives)
      BY <1>6, <2>1, <2>3, <3>2
    <3>8. Formed(e, goal, x, y, u, v)
      BY <3>1, <3>2
    <3>9. Gives(d, goal, y, Lives)
      BY <1>11, <3>3, <3>4, <3>5, <3>6, <3>7, <3>8, TrimmedGives
    <3> QED BY <1>9, <1>12, <1>15, <2>3, <3>2, <3>9
  <2> QED BY <2>2, <2>3
<1>19. \A r \in ReqId : Seat(r)' = Seat(r)
  BY <1>12 DEF Seat
<1>20. ASSUME NEW r \in ReqId PROVE Stays(r, m)' <=> Stays(r, m)
  <2>1. \A j \in m + 1 .. n : j \in 1 .. n
    BY <1>14
  <2>2. m < n => m + 1 \in 1 .. n
    BY <1>14
  <2> QED BY <1>2, <1>9, <1>13, <1>19, <2>1, <2>2 DEF Stays
<1>21. HostRows(B, m)'
  <2>1. /\ DOMAIN blockRow = Slots /\ DOMAIN prefillLen = Slots
        /\ \A s \in Slots : (\A r \in ReqId : Seat(r) # s) => blockRow[s] = <<>>
        /\ \A r \in ReqId : Stays(r, m) => blockRow[Seat(r)] = B[m][r] /\ prefillLen[Seat(r)] = goal[r]
        /\ \A j \in 1 .. m : ~steps[j].read => Operands(steps[j], B[j], goal)
    BY <1>1 DEF HostRows
  <2>2. ASSUME NEW j \in 1 .. m, ~steps'[j].read PROVE Operands(steps'[j], B[j], goal')
    <3>1. j \in 1 .. n
      BY <1>14
    <3>2. j # i
      BY <1>9, <1>11, <2>2 DEF Reading
    <3> QED BY <1>9, <1>12, <2>1, <2>2, <3>1, <3>2
  <2>3. \A r \in ReqId : Stays(r, m)' => blockRow'[Seat(r)'] = B[m][r] /\ prefillLen'[Seat(r)'] = goal'[r]
    BY <1>12, <1>19, <1>20, <2>1
  <2>4. \A s \in Slots : (\A r \in ReqId : Seat(r)' # s) => blockRow'[s] = <<>>
    BY <1>12, <1>19, <2>1
  <2> HIDE DEF Seat
  <2> QED BY <1>12, <2>1, <2>2, <2>3, <2>4 DEF HostRows
<1>22. Cache(N, B, f)'
  <2>1. \A r \in ReqId : Live(r)' <=> Live(r)
    BY <1>12 DEF Live
  <2> QED BY <1>1, <1>12, <2>1 DEF Cache, CacheHolds
<1>23. Device(N, f, m)'
  <2>1. \A r \in ReqId : Live(r)' <=> Live(r)
    BY <1>12 DEF Live
  <2>2. ASSUME NEW s, NEW r \in ReqId, Ready(s, r, goal[r], N[f][r]) PROVE Ready(s, r, goal[r], N[f][r])'
    BY <1>12, <2>2 DEF Ready
  <2>3. ASSUME NEW j \in f + 1 .. m, NEW r \in ToSet(steps'[j].reqs), Live(r)'
        PROVE Ready(steps[j].chosen[OutputRank][r], r, goal[r], N[f][r])'
    <3>1. j \in 1 .. n
      BY <1>14
    <3>2. PICK s : s = steps[j].chosen[OutputRank][r]
      OBVIOUS
    <3>3. r \in ToSet(steps[j].reqs) /\ s = steps'[j].chosen[OutputRank][r] /\ ToSet(steps[j].reqs) \subseteq ReqId
      BY <1>2, <1>13, <2>3, <3>1, <3>2, KnownStep
    <3>6. \A h \in f + 1 .. m : \A q \in ToSet(steps[h].reqs) :
            Live(q) => Ready(steps[h].chosen[OutputRank][q], q, goal[q], N[f][q])
      BY <1>1 DEF Device
    <3>7. Ready(steps[j].chosen[OutputRank][r], r, goal[r], N[f][r])
      BY <2>1, <2>3, <3>3, <3>6
    <3>4. Ready(s, r, goal[r], N[f][r])
      BY <3>2, <3>7
    <3>5. Ready(s, r, goal[r], N[f][r])'
      BY <2>2, <3>3, <3>4
    <3> QED BY <3>3, <3>5
  <2>4. ASSUME NEW r \in ReqId, Live(r)', Stays(r, m)' PROVE Ready(Seat(r), r, goal[r], N[f][r])'
    <3>1. PICK s : s = Seat(r)
      OBVIOUS
    <3>2. Ready(s, r, goal[r], N[f][r]) /\ s = Seat(r)'
      BY <1>1, <1>19, <1>20, <2>1, <2>4, <3>1 DEF Device
    <3>3. Ready(s, r, goal[r], N[f][r])'
      BY <2>2, <3>2
    <3> QED BY <3>2, <3>3
  <2> QED BY <1>1, <1>12, <2>3, <2>4 DEF Device
<1> QED BY <1>15, <1>16, <1>17, <1>18, <1>21, <1>22, <1>23 DEF Ledger

(* The blocks before the one of the next token, among the SwaWidth that a     *)
(* decode's row of a sliding-window layer keeps, cover its window; or the row *)
(* keeps all the blocks of a request.                                       *)
WindowCovered == SwaWidth >= Blocks(ModelLen) \/ (SwaWidth - 1) * BlockSize >= Window - 1

(* Of a multiple of a difference.                                           *)
LEMMA Distributes ==
  ASSUME NEW a \in Int, NEW b \in Int, NEW M \in Int
  PROVE  (a - b) * M = a * M - b * M /\ a * M \in Int /\ b * M \in Int
OBVIOUS

(* A row of a sliding-window layer has a whole number of blocks.            *)
LEMMA RowWidth ==
  ASSUME RunnerV2Assumption
  PROVE  SwaWidth \in Int
<1>1. /\ BlockSize \in Nat \ {0} /\ Pmax \in Nat /\ BlockSize <= Pmax /\ Window \in Nat \ {0}
      /\ ModelLen \in Nat
  BY DEF RunnerV2Assumption
<1>2. Blocks(ModelLen) \in Nat
  BY <1>1, BlocksCover
<1>3. PICK q \in 0 .. Pmax, y \in 0 .. BlockSize - 1 :
        q = Pmax \div BlockSize /\ Pmax = q * BlockSize + y
  BY <1>1
<1>4. q # 0
  BY <1>1, <1>3
<1>5. PICK h \in Int : h = Window \div BlockSize + 1
  BY <1>1
<1>6. (h + q - 1) \div q \in Int
  BY <1>3, <1>4, <1>5
<1>7. PICK t \in Int : t = ((h + q - 1) \div q) * q
  BY <1>3, <1>6
<1>8. SwaWidth = Smaller(t, Blocks(ModelLen))
  BY <1>3, <1>5, <1>7 DEF SwaWidth
<1> QED BY <1>2, <1>8 DEF Smaller

(* Where the row of a decode starts: not behind its window.                 *)
LEMMA RowStart ==
  ASSUME RunnerV2Assumption, WindowCovered, NEW x, x \in Nat, x < ModelLen,
         NEW p, p \in Nat, p < x, p >= x - Window + 1
  PROVE  /\ SwaStart(x) \in Nat /\ SwaStart(x) * BlockSize <= p
         /\ SwaStart(x) <= p \div BlockSize /\ p \div BlockSize < SwaStart(x) + SwaWidth
<1>1. PICK w \in Int : w = SwaWidth
  BY RowWidth
<1>2. PICK M \in Nat \ {0} : M = BlockSize
  BY DEF RunnerV2Assumption
<1>3. PICK q \in Nat, y \in 0 .. M - 1 : q = x \div BlockSize /\ x = q * M + y
  BY ZenonT(60), <1>2, Pages
<1>4. PICK a \in Nat, c \in 0 .. M - 1 : a = p \div BlockSize /\ p = a * M + c
  <2>1. PICK a, c : a = p \div BlockSize /\ c = p % BlockSize
    OBVIOUS
  <2>2. a \in Nat /\ c \in 0 .. M - 1 /\ p = a * M + c
    BY <1>2, <2>1, Pages
  <2> QED BY <2>1, <2>2
<1>5. Window \in Nat \ {0} /\ ModelLen \in Nat
  BY DEF RunnerV2Assumption
<1>6. a <= q
  <2> SUFFICES ASSUME q < a PROVE FALSE
    BY <1>3, <1>4
  <2>1. q * M + M <= a * M /\ q * M \in Int /\ a * M \in Int
    BY <1>2, Multiples
  <2> QED BY <1>3, <1>4, <2>1
<1>7. CASE q < w
  <2>1. SwaStart(x) = 0
    BY <1>1, <1>3, <1>7 DEF SwaStart
  <2>2. 0 * BlockSize = 0
    BY <1>2
  <2> QED BY <1>1, <1>4, <1>6, <1>7, <2>1, <2>2
<1>8. CASE ~(q < w)
  <2>1. SwaStart(x) = q - w + 1
    BY <1>1, <1>3, <1>8 DEF SwaStart
  <2>2. PICK h \in Nat : h = q - w + 1
    BY <1>8
  <2>3. (w - 1) * M >= Window - 1
    <3>1. CASE w >= Blocks(ModelLen)
      <4>1. PICK u \in Nat : u = Blocks(ModelLen) /\ ModelLen <= u * M
        BY <1>2, <1>5, BlocksCover
      <4>2. u * M \in Int
        OBVIOUS
      <4>3. x < u * BlockSize
        BY <1>2, <1>5, <4>1, <4>2
      <4>4. x \div BlockSize \in 0 .. u - 1
        BY <4>3, PageBelow
      <4> QED BY <1>3, <1>8, <3>1, <4>1, <4>4
    <3>2. CASE (w - 1) * M >= Window - 1
      BY <3>2
    <3> QED BY <1>1, <1>2, <3>1, <3>2 DEF WindowCovered
  <2>4. h * M = q * M - (w - 1) * M
    BY <2>2
  <2>5. q * M \in Int /\ (w - 1) * M \in Int /\ h * M \in Int
    OBVIOUS
  <2>6. h * M <= p
    BY <1>3, <1>5, <2>3, <2>4, <2>5
  <2>7. h <= a
    <3> SUFFICES ASSUME a < h PROVE FALSE
      BY <1>4, <2>2
    <3>1. a * M + M <= h * M /\ a * M \in Int
      BY <1>2, Multiples
    <3> QED BY <1>4, <2>5, <2>6, <3>1
  <2>8. a < h + w
    BY <1>6, <2>2
  <2> QED BY <1>1, <1>2, <1>4, <2>1, <2>2, <2>6, <2>7, <2>8
<1> QED BY <1>7, <1>8

(* The row of a window finds, at each position of the window, what the full   *)
(* row of blocks does.                                                     *)
LEMMA WindowRead ==
  ASSUME RunnerV2Assumption, WindowCovered, NEW e, ~e.prompt, NEW r, NEW s, NEW u,
         NEW K, K \in Nat, NEW b, b \in Seq(1 .. K), NEW x, x \in Nat, x = e.at[r], x < ModelLen,
         \A p \in 0 .. x - 1 : Within(p, b), NEW row, row = RowFor(e, r, s, b, u)
  PROVE  InWindow(row)
<1>1. PICK w, h : w = SwaWidth /\ h = SwaStart(x)
  OBVIOUS
<1>2. PICK l \in Nat : l = Len(b)
  BY LenProperties
<1>b. \A j \in 1 .. l : b[j] \in 1 .. K
  BY <1>2
<1>3. PICK z : z = Smaller(h + w, l)
  OBVIOUS
<1>4. /\ row.at = x /\ row.table = b /\ row.offset = h * BlockSize
      /\ row.trimmed = SubSeq(b, h + 1, z)
  BY <1>1, <1>2, <1>3 DEF RowFor
<1>5. Window \in Nat \ {0}
  BY DEF RunnerV2Assumption
<1>6. PICK t : t = SubSeq(b, h + 1, z)
  OBVIOUS
<1> SUFFICES ASSUME NEW p \in (x - Window + 1) .. x - 1, p >= 0
             PROVE  p >= row.offset /\ HeldAt(kv, row.trimmed, p - row.offset) = HeldAt(kv, row.table, p)
  BY <1>4 DEF InWindow
<1>7. p \in Nat /\ p < x /\ p >= x - Window + 1 /\ Within(p, b)
  BY SMTT(30), <1>5
<1>8. PICK M \in Nat \ {0} : M = BlockSize
  BY DEF RunnerV2Assumption
<1>9. PICK a \in Nat, c \in 0 .. M - 1 : a = p \div BlockSize /\ c = p % BlockSize /\ p = a * M + c
  <2>1. PICK a, c : a = p \div BlockSize /\ c = p % BlockSize
    OBVIOUS
  <2>2. a \in Nat /\ c \in 0 .. M - 1 /\ p = a * M + c
    BY <1>7, <1>8, <2>1, Pages
  <2> QED BY <2>1, <2>2
<1>w. w \in Int
  BY <1>1, RowWidth
<1>10. h \in Nat /\ h * M <= p
  BY <1>1, <1>7, <1>8, RowStart
<1>e. h <= a /\ a < h + w
  BY <1>1, <1>7, <1>9, RowStart
<1>f. PICK o \in Nat : o = h
  BY <1>10
<1>11. a \in 0 .. l - 1 /\ b[a + 1] \in 1 .. K
  BY <1>2, <1>7, <1>9, CellOf
<1>12. z \in Int /\ a + 1 <= z /\ z <= l /\ o <= a
  BY <1>3, <1>w, <1>e, <1>f, <1>11 DEF Smaller
<1>13. PICK g \in Nat : g = p - h * M
  <2>1. o * M \in Int /\ o * M <= p
    BY <1>10, <1>f
  <2>2. p - o * M \in Nat
    BY <1>7, <2>1
  <2> QED BY <1>f, <2>2
<1>14. g \div BlockSize = a - o /\ g % BlockSize = c
  <2>1. PICK v, y : v = g \div BlockSize /\ y = g % BlockSize
    OBVIOUS
  <2>2. v \in Nat /\ y \in 0 .. M - 1 /\ g = v * M + y
    BY <1>8, <2>1, Pages
  <2>3. PICK d \in Int : d = a - o
    OBVIOUS
  <2>4. (a - o) * M = a * M - o * M /\ a * M \in Int /\ o * M \in Int
    BY Distributes
  <2>5. v * M + y = d * M + c
    <3>1. PICK A \in Int, C \in Int : A = a * M /\ C = o * M
      BY <2>4
    <3>2. h * M = C
      BY <1>f, <3>1
    <3>3. d * M = A - C
      BY <2>3, <2>4, <3>1
    <3>4. p = A + c
      BY <1>9, <3>1
    <3>5. g = A + c - C
      BY <1>13, <3>2, <3>4
    <3>6. g = v * M + y
      BY <2>2
    <3>7. g = d * M + c
      BY <3>3, <3>5
    <3> QED BY <3>6, <3>7
  <2>7. PICK q \in Int, k \in 0 .. M - 1 : q = v /\ k = y
    BY <2>2
  <2>8. q * M + k = d * M + c
    BY <2>5, <2>7
  <2>9. q = d /\ k = c
    <3>1. PICK A \in Int, C \in Int : A = q * M /\ C = d * M
      OBVIOUS
    <3>2. A + k = C + c
      BY <2>8, <3>1
    <3>3. ~(q < d)
      <4> SUFFICES ASSUME q < d PROVE FALSE
        OBVIOUS
      <4>1. q * M + M <= d * M
        BY Multiples
      <4>2. A + M <= C
        BY <3>1, <4>1
      <4> QED BY <3>2, <4>2
    <3>4. ~(d < q)
      <4> SUFFICES ASSUME d < q PROVE FALSE
        OBVIOUS
      <4>1. d * M + M <= q * M
        BY Multiples
      <4>2. C + M <= A
        BY <3>1, <4>1
      <4> QED BY <3>2, <4>2
    <3>5. q = d
      BY <3>3, <3>4
    <3>6. A = C
      BY <3>1, <3>5
    <3> QED BY <3>2, <3>5, <3>6
  <2>6. v = d /\ y = c
    BY <2>7, <2>9
  <2> QED BY <2>1, <2>3, <2>6
<1>15. Len(t) = z - o /\ t[a - o + 1] = b[a + 1]
  <2>1. \A j \in o + 1 .. z : b[j] \in 1 .. K
    <3> TAKE j \in o + 1 .. z
    <3>1. j \in 1 .. l
      BY <1>12
    <3> QED BY <1>b, <3>1
  <2>2. o + 1 \in Int /\ o + 1 <= z /\ z \in Int
    BY <1>12
  <2>3. t = SubSeq(b, o + 1, z)
    BY <1>6, <1>f
  <2>4. /\ Len(t) = IF o + 1 <= z THEN z - (o + 1) + 1 ELSE 0
        /\ \A j \in 1 .. z - (o + 1) + 1 : t[j] = b[o + 1 + j - 1]
    BY <2>1, <2>2, <2>3, SubSeqProperties
  <2>5. PICK i \in 1 .. z - (o + 1) + 1 : i = a - o + 1
    BY <1>12
  <2>6. t[i] = b[o + 1 + i - 1]
    BY <2>4
  <2>7. o + 1 + i - 1 = a + 1
    BY SMTT(30), <1>12, <2>5
  <2>8. z - (o + 1) + 1 = z - o
    BY <1>12
  <2> QED BY <2>2, <2>4, <2>5, <2>6, <2>7, <2>8
<1>16. a - o < Len(t) /\ a < Len(b)
  BY <1>2, <1>11, <1>12, <1>15
<1>17. Cell(t[a - o + 1], g) = Cell(b[a + 1], p)
  BY <1>9, <1>14, <1>15 DEF Cell
<1>18. HeldAt(kv, t, g) = HeldAt(kv, b, p)
  BY <1>9, <1>14, <1>16, <1>17 DEF HeldAt
<1> QED BY <1>4, <1>6, <1>8, <1>10, <1>13, <1>18

(* A text and the tokens that follow.                                       *)
Following(r, n, k) == [i \in 1 .. k |-> <<r, n + i>>]

(* Together they are a longer text. *)
LEMMA TextContinued ==
  ASSUME NEW r, NEW n, n \in Nat, NEW k, k \in Nat
  PROVE  Text(r, n) \o Following(r, n, k) = Text(r, n + k)
<1> DEFINE t == Following(r, n, k)
<1>1. PICK S : S = {r} \X Nat
  OBVIOUS
<1>2. PICK a : a = Text(r, n)
  OBVIOUS
<1>3. a \in Seq(S) /\ Len(a) = n /\ \A i \in 1 .. n : a[i] = <<r, i>>
  BY <1>1, <1>2, Texts
<1>4. \A i \in 1 .. k : t[i] = <<r, n + i>> /\ t[i] \in S
  BY <1>1 DEF Following
<1>5. DOMAIN t = 1 .. k /\ t = [i \in 1 .. k |-> t[i]]
  BY DEF Following
<1> HIDE DEF t
<1>6. t \in Seq(S) /\ Len(t) = k
  BY <1>4, <1>5, ListOf
<1>7. PICK u : u = a \o t
  OBVIOUS
<1>8. /\ u \in Seq(S) /\ Len(u) = n + k
      /\ \A i \in 1 .. n + k : u[i] = IF i <= n THEN a[i] ELSE t[i - n]
  <2>1. /\ a \o t \in Seq(S) /\ Len(a \o t) = Len(a) + Len(t)
        /\ \A i \in 1 .. Len(a) + Len(t) : (a \o t)[i] = IF i <= Len(a) THEN a[i] ELSE t[i - Len(a)]
    BY <1>3, <1>6, ConcatProperties
  <2> QED BY <1>3, <1>6, <1>7, <2>1
<1>9. \A i \in 1 .. n + k : u[i] = <<r, i>>
  <2> TAKE i \in 1 .. n + k
  <2>1. CASE i <= n
    <3>1. i \in 1 .. n
      BY <2>1
    <3> QED BY <1>3, <1>8, <2>1, <3>1
  <2>2. CASE ~(i <= n)
    <3>1. PICK j \in 1 .. k : j = i - n
      BY <2>2
    <3>2. u[i] = t[j] /\ t[j] = <<r, n + j>>
      BY <1>4, <1>8, <2>2, <3>1
    <3>3. n + j = i
      BY <3>1
    <3> QED BY <3>2, <3>3
  <2> QED BY <2>1, <2>2
<1>10. u = [i \in 1 .. n + k |-> u[i]]
  BY <1>8, LenProperties
<1>11. u = Text(r, n + k)
  BY <1>9, <1>10 DEF Text
<1> QED BY <1>2, <1>7, <1>11 DEF t

(* A row of which the cache and the slot hold what the request has so far.   *)
RowExact(e, row, r, s, g, b1, n0, n1) ==
  /\ row.at = n0 /\ row.len = n1 - n0 /\ row.slot = s /\ row.until = g /\ row.table = b1
  /\ n0 \in Nat /\ n1 \in Nat /\ n0 < n1
  /\ Exact(e, row) /\ Sampled(e, row) = <<r, n1 + 1>>
  /\ Inputs(e, row) = Following(r, n0, n1 - n0)

(* The cells of the tokens before a step's are where they were.             *)
HeldStill(r, b0, b1, n0) ==
  /\ \A p \in 0 .. n0 - 1 : Within(p, b0) /\ Within(p, b1) /\ CellIn(b1, p) = CellIn(b0, p)
  /\ CacheHolds(b0, n0, r) => \A p \in 0 .. n0 - 1 : HeldAt(kv, b1, p) = <<r, p + 1>>

(* They are there when blocks are added behind. *)
LEMMA HeldBefore ==
  ASSUME RunnerV2Assumption, NEW r, NEW K, K \in Nat, NEW b0, NEW x, x \in Seq(Nat),
         NEW b1, b1 = b0 \o x, NEW n0, n0 \in Nat, Holds(b0, n0, K)
  PROVE  HeldStill(r, b0, b1, n0)
<1>1. b0 \in Seq(1 .. K) /\ \A p \in 0 .. n0 - 1 : Within(p, b0)
  BY DEF Holds
<1>2. b0 \in Seq(Nat)
  <2>1. 1 .. K \subseteq Nat
    OBVIOUS
  <2> QED BY <1>1, <2>1, WiderSeq
<1>3. PICK l \in Nat, h \in Nat : l = Len(b0) /\ h = Len(b1)
  <2>1. Len(b0) \in Nat /\ Len(x) \in Nat /\ Len(b1) = Len(b0) + Len(x)
    BY <1>2, ListAndMore
  <2> QED BY <2>1
<1>4. l <= h /\ \A i \in 1 .. l : b1[i] = b0[i]
  BY <1>2, <1>3, ListAndMore
<1>5. ASSUME NEW p \in 0 .. n0 - 1
      PROVE  /\ Within(p, b0) /\ Within(p, b1) /\ CellIn(b1, p) = CellIn(b0, p)
             /\ HeldAt(kv, b1, p) = kv[CellIn(b0, p)]
  <2>1. Within(p, b0) /\ p \in Nat
    BY <1>1
  <2>2. PICK i \in 1 .. l, a \in 0 .. l - 1 : i = p \div BlockSize + 1 /\ a = p \div BlockSize
    BY <1>1, <1>3, <2>1, CellOf
  <2>3. b1[i] = b0[i]
    BY <1>4
  <2>4. Within(p, b1)
    <3>1. PICK M \in Nat : M = BlockSize
      BY DEF RunnerV2Assumption
    <3>2. p < l * M
      BY <1>3, <2>1, <3>1 DEF Within
    <3>3. l * M <= h * M
      <4>1. CASE l = h
        BY <4>1
      <4>2. CASE l # h
        <5>1. l < h
          BY <1>4, <4>2
        <5>2. l * M + M <= h * M /\ l * M \in Int /\ h * M \in Int
          BY <5>1, Multiples
        <5> QED BY <5>2
      <4> QED BY <4>1, <4>2
    <3>4. l * M \in Int /\ h * M \in Int
      OBVIOUS
    <3>5. p < h * M
      <4>1. PICK A \in Int, C \in Int : A = l * M /\ C = h * M
        BY <3>4
      <4>2. p < A /\ A <= C
        BY <3>2, <3>3, <4>1
      <4>3. p < C
        BY <2>1, <4>2
      <4> QED BY <4>1, <4>3
    <3> QED BY <1>3, <2>1, <3>1, <3>5 DEF Within
  <2>5. CellIn(b1, p) = CellIn(b0, p)
    BY <2>2, <2>3 DEF CellIn
  <2>6. p \div BlockSize < Len(b1)
    BY <1>3, <1>4, <2>2
  <2>7. HeldAt(kv, b1, p) = kv[CellIn(b1, p)]
    BY <2>6 DEF HeldAt, CellIn
  <2> QED BY <2>1, <2>4, <2>5, <2>7
<1>6. ASSUME CacheHolds(b0, n0, r), NEW p \in 0 .. n0 - 1 PROVE HeldAt(kv, b1, p) = <<r, p + 1>>
  BY <1>5, <1>6 DEF CacheHolds
<1> QED BY <1>5, <1>6 DEF HeldStill

(* A row is exact, and its answer the next token, when the cache holds the    *)
(* tokens before and the slot the ones to come.                             *)
LEMMA RowRead ==
  ASSUME RunnerV2Assumption, WindowCovered, NEW e, NEW r \in ReqId, NEW s, NEW K, K \in Nat,
         e.prompt \in BOOLEAN,
         NEW g, g \in Nat, NEW n0, n0 \in Nat, NEW n1, n1 \in Nat, NEW b0, NEW b1,
         Computes(e, r, g, n0, n1, b0, b1), Holds(b0, n0, K), Holds(b1, n1, K),
         CacheHolds(b0, n0, r), Ready(s, r, g, n0), NEW row, row = RowFor(e, r, s, b1, g)
  PROVE  RowExact(e, row, r, s, g, b1, n0, n1)
<1>1. PICK x \in Seq(Nat) : b1 = b0 \o x
  BY DEF Computes
<1>2. /\ \A p \in 0 .. n0 - 1 : Within(p, b0) /\ Within(p, b1)
      /\ \A p \in 0 .. n0 - 1 : HeldAt(kv, b1, p) = <<r, p + 1>>
  <2>1. HeldStill(r, b0, b1, n0)
    BY <1>1, HeldBefore
  <2> QED BY <2>1 DEF HeldStill
<1>3. PICK k \in Nat \ {0} : k = e.size[r]
  BY DEF Computes
<1>4. /\ e.at[r] = n0 /\ n1 = n0 + k
      /\ e.prompt => n0 < g /\ n1 <= g
      /\ ~e.prompt => k = 1 /\ n0 < ModelLen /\ (n1 = g \/ n0 >= g)
  BY <1>3 DEF Computes
<1>5. row.at = n0 /\ row.len = k /\ row.slot = s /\ row.until = g /\ row.table = b1
  BY <1>3, <1>4 DEF RowFor
<1>6. /\ computedBy[s] = n0
      /\ n0 < g => history[s] = Text(r, g)
      /\ n0 >= g /\ n0 < ModelLen => carry[s] = <<r, n0 + 1>>
  BY DEF Ready
<1>7. n0 < g => \A p \in n0 .. g - 1 : TokenAt(s, p) = <<r, p + 1>>
  <2> SUFFICES ASSUME n0 < g, NEW p \in n0 .. g - 1 PROVE TokenAt(s, p) = <<r, p + 1>>
    OBVIOUS
  <2>1. Len(Text(r, g)) = g /\ \A i \in 1 .. g : Text(r, g)[i] = <<r, i>>
    BY Texts
  <2>2. PICK i \in 1 .. g : i = p + 1
    OBVIOUS
  <2>3. PICK t : t = history[s]
    OBVIOUS
  <2>4. Len(t) = g /\ t[i] = <<r, i>>
    BY <1>6, <2>1, <2>3
  <2>5. p < Len(t)
    BY <2>4
  <2> QED BY <2>2, <2>3, <2>4, <2>5 DEF TokenAt
<1>8. PICK in : in = Inputs(e, row)
  OBVIOUS
<1>9. in = [i \in 1 .. k |-> IF e.prompt THEN TokenAt(s, n0 + i - 1)
                             ELSE IF computedBy[s] < g THEN TokenAt(s, computedBy[s])
                             ELSE carry[s]]
  BY <1>5, <1>8 DEF Inputs, Bootstraps
<1>10. in = Following(r, n0, k)
  <2>1. ASSUME NEW i \in 1 .. k PROVE in[i] = <<r, n0 + i>>
    <3>1. CASE e.prompt
      <4>1. PICK p \in n0 .. g - 1 : p = n0 + i - 1
        BY <1>4, <3>1
      <4>2. TokenAt(s, p) = <<r, p + 1>>
        BY <1>4, <1>7, <3>1
      <4>3. in[i] = TokenAt(s, p) /\ p + 1 = n0 + i
        BY <1>9, <3>1, <4>1
      <4> QED BY <4>2, <4>3
    <3>2. CASE ~e.prompt /\ n0 < g
      <4>1. i = 1 /\ n0 + i = n0 + 1 /\ n0 \in n0 .. g - 1
        BY <1>4, <3>2
      <4>2. TokenAt(s, n0) = <<r, n0 + 1>>
        BY <1>7, <3>2, <4>1
      <4>3. in[i] = TokenAt(s, n0)
        BY <1>6, <1>9, <3>2
      <4> QED BY <4>1, <4>2, <4>3
    <3>3. CASE ~e.prompt /\ ~(n0 < g)
      <4>1. i = 1 /\ n0 + i = n0 + 1 /\ n0 >= g /\ n0 < ModelLen
        BY <1>4, <3>3
      <4>2. in[i] = carry[s]
        BY <1>6, <1>9, <3>3
      <4> QED BY <1>6, <4>1, <4>2
    <3> QED BY <3>1, <3>2, <3>3
  <2>2. in = [i \in 1 .. k |-> in[i]]
    BY <1>9
  <2> QED BY <2>1, <2>2 DEF Following
<1>11. Seen(e, row) = Text(r, n1)
  <2>1. [p \in 1 .. n0 |-> HeldAt(kv, b1, p - 1)] = Text(r, n0)
    <3>1. ASSUME NEW p \in 1 .. n0 PROVE HeldAt(kv, b1, p - 1) = <<r, p>>
      <4>1. PICK q \in 0 .. n0 - 1 : q = p - 1
        OBVIOUS
      <4>2. HeldAt(kv, b1, q) = <<r, q + 1>> /\ q + 1 = p
        BY <1>2, <4>1
      <4> QED BY <4>1, <4>2
    <3> QED BY <3>1 DEF Text
  <2>2. PICK a : a = Text(r, n0)
    OBVIOUS
  <2>3. a \o in = Text(r, n1)
    <3>1. k \in Nat /\ n0 + k = n1
      BY <1>4
    <3>2. Text(r, n0) \o in = Text(r, n0 + k)
      BY <1>10, TextContinued
    <3> QED BY <2>2, <3>1, <3>2
  <2>4. Seen(e, row) = a \o in
    BY <1>5, <1>8, <2>1, <2>2 DEF Seen
  <2> QED BY <2>3, <2>4
<1>12. ~e.prompt => InWindow(row)
  <2> SUFFICES ASSUME ~e.prompt PROVE InWindow(row)
    OBVIOUS
  <2>1. b1 \in Seq(1 .. K)
    BY DEF Holds
  <2> QED BY <1>2, <1>4, <2>1, WindowRead
<1>13. row.at + row.len = n1 /\ k = n1 - n0 /\ n0 < n1
  BY <1>4, <1>5
<1>14. Exact(e, row)
  BY <1>11, <1>12, <1>13 DEF Exact
<1>15. Sampled(e, row) = <<r, n1 + 1>>
  <2>1. PICK u : u = Text(r, n1)
    OBVIOUS
  <2>2. u[1] = <<r, 1>>
    <3>1. 1 \in 1 .. n1
      BY <1>13
    <3> QED BY <2>1, <3>1, Texts
  <2>3. Sampled(e, row) = <<u[1][1], n1 + 1>>
    BY <1>11, <1>13, <1>14, <2>1 DEF Sampled
  <2>4. u[1][1] = r
    BY <2>2
  <2> QED BY <2>3, <2>4
<1> QED BY <1>5, <1>8, <1>10, <1>13, <1>14, <1>15 DEF RowExact

(* The rows of a graph that write a cell, and what it does to the cells and   *)
(* to the slots.                                                           *)
Writes(e, c) ==
  {w \in UNION {{j} \X (1 .. e.rows[j].len) : j \in DOMAIN e.rows} :
     LET row == e.rows[w[1]]
         p == row.at + w[2] - 1
         page == p \div BlockSize
     IN page < Len(row.table) /\ c = Cell(row.table[page + 1], p)}
(* The row of a slot. *)
RowOf(e, s) == CHOOSE j \in DOMAIN e.rows : e.rows[j].slot = s
(* The slots a graph touches. *)
ActiveSlots(e) == {e.rows[j].slot : j \in DOMAIN e.rows}
(* The slots whose rows sample a token to keep. *)
Committing(e) == {s \in ActiveSlots(e) : Commits(e.rows[RowOf(e, s)])}
(* The tokens a graph samples. *)
Answered(e) == [j \in DOMAIN e.rows |-> Sampled(e, e.rows[j])]
(* A graph runs: the effect of Run with its parts named. *)
RunsStep(i, e, out) ==
  /\ ~e.ran /\ e.ranks = TpRank /\ \A j \in 1 .. i - 1 : steps[j].ran
  /\ kv' = [c \in DOMAIN kv |->
              IF Writes(e, c) = {} THEN kv[c]
              ELSE LET w == CHOOSE w \in Writes(e, c) : TRUE
                       row == e.rows[w[1]]
                   IN IF Exact(e, row) THEN Inputs(e, row)[w[2]] ELSE Wrong]
  /\ history' = [s \in Slots |-> IF s \in Committing(e) THEN Append(history[s], out[RowOf(e, s)])
                                 ELSE history[s]]
  /\ computedBy' = [s \in Slots |-> IF s \in ActiveSlots(e)
                                    THEN computedBy[s] + e.rows[RowOf(e, s)].len
                                    ELSE computedBy[s]]
  /\ lastToken' = [s \in Slots |-> IF s \in Committing(e) THEN out[RowOf(e, s)] ELSE lastToken[s]]
  /\ carry' = lastToken'
  /\ steps' = [steps EXCEPT ![i].ran = TRUE, ![i].out = out]
  /\ UNCHANGED <<engine, plan, hostState>>

(* Run is that of one queued step. *)
LEMMA RunActs ==
  ASSUME Run
  PROVE  \E i \in DOMAIN steps : RunsStep(i, steps[i], Answered(steps[i]))
BY Zenon DEF Run, RunsStep, Answered, Writes, RowOf, ActiveSlots, Committing

(* What a graph does to the slot of a row, and what it leaves alone.         *)
Turns(s, row, x) ==
  /\ computedBy'[s] = computedBy[s] + row.len
  /\ Commits(row) => history'[s] = Append(history[s], x) /\ lastToken'[s] = x /\ carry'[s] = x
  /\ ~Commits(row) => history'[s] = history[s] /\ lastToken'[s] = lastToken[s] /\ carry'[s] = lastToken[s]
(* The slot of no row. *)
Rests(s) ==
  /\ computedBy'[s] = computedBy[s] /\ history'[s] = history[s]
  /\ lastToken'[s] = lastToken[s] /\ carry'[s] = lastToken[s]

(* A slot of one row turns so. *)
LEMMA SlotTurns ==
  ASSUME NEW i, NEW e, NEW out, RunsStep(i, e, out), NEW j \in DOMAIN e.rows,
         NEW s, s \in Slots, s = e.rows[j].slot,
         \A h \in DOMAIN e.rows : e.rows[h].slot = s => h = j
  PROVE  Turns(s, e.rows[j], out[j])
<1>1. RowOf(e, s) = j
  BY DEF RowOf
<1>2. s \in ActiveSlots(e) /\ (s \in Committing(e) <=> Commits(e.rows[j]))
  BY <1>1 DEF ActiveSlots, Committing
<1> QED BY <1>1, <1>2 DEF RunsStep, Turns

(* A slot of no row rests. *)
LEMMA SlotRests ==
  ASSUME NEW i, NEW e, NEW out, RunsStep(i, e, out), NEW s, s \in Slots,
         \A h \in DOMAIN e.rows : e.rows[h].slot # s
  PROVE  Rests(s)
<1>1. s \notin ActiveSlots(e) /\ s \notin Committing(e)
  BY DEF ActiveSlots, Committing
<1> QED BY <1>1 DEF RunsStep, Rests

(* After its step a slot is ready for the next; and it stays so through the   *)
(* steps of others.                                                        *)
LEMMA ReadyNext ==
  ASSUME RunnerV2Assumption, NEW e, NEW r, NEW s, NEW g, g \in Nat, NEW b0, NEW b1, NEW n0, NEW n1,
         Computes(e, r, g, n0, n1, b0, b1), e.prompt \in BOOLEAN,
         NEW row, RowExact(e, row, r, s, g, b1, n0, n1), Ready(s, r, g, n0),
         Turns(s, row, <<r, n1 + 1>>)
  PROVE  Ready(s, r, g, n1)'
<1>1. /\ row.len = n1 - n0 /\ row.slot = s /\ row.until = g
      /\ n0 \in Nat /\ n1 \in Nat /\ n0 < n1
  BY DEF RowExact
<1>2. /\ computedBy[s] = n0
      /\ n0 < g => history[s] = Text(r, g)
      /\ n0 >= g /\ n0 < ModelLen => history[s] = Text(r, n0 + 1)
  BY DEF Ready
<1>3. PICK k \in Nat \ {0} : k = e.size[r]
  BY DEF Computes
<1>4. /\ n1 = n0 + k /\ (e.prompt => n0 < g /\ n1 <= g)
      /\ ~e.prompt => k = 1 /\ n0 < ModelLen /\ (n1 = g \/ n0 >= g)
  BY <1>3 DEF Computes
<1>5. (n0 < g /\ n1 <= g) \/ (n0 >= g /\ n1 = n0 + 1 /\ n0 < ModelLen)
  <2>1. CASE e.prompt
    BY <1>4, <2>1
  <2>2. CASE ~e.prompt
    BY <1>1, <1>4, <2>2
  <2> QED BY <2>1, <2>2
<1>6. ModelLen \in Nat
  BY DEF RunnerV2Assumption
<1>7. computedBy'[s] = n1
  BY <1>1, <1>2 DEF Turns
<1>8. Commits(row) <=> (n0 >= g \/ n1 = g) /\ Len(history[s]) < ModelLen
  <2>1. computedBy[s] + row.len = n1
    BY <1>1, <1>2
  <2> QED BY <1>1, <1>2, <2>1 DEF Commits
<1>9. ASSUME n1 < g PROVE history'[s] = Text(r, g)
  <2>1. ~(n0 >= g) /\ n1 # g
    BY <1>1, <1>9
  <2>2. n0 < g
    BY <1>1, <1>9
  <2> QED BY <1>2, <1>8, <2>1, <2>2 DEF Turns
<1>10. ASSUME n1 >= g, n1 < ModelLen
       PROVE  /\ history'[s] = Text(r, n1 + 1)
              /\ lastToken'[s] = <<r, n1 + 1>> /\ carry'[s] = <<r, n1 + 1>>
  <2>1. history[s] = Text(r, n1)
    <3>1. CASE n0 < g
      <4>1. n1 = g
        BY <1>1, <1>5, <1>10, <3>1
      <4> QED BY <1>2, <3>1, <4>1
    <3>2. CASE ~(n0 < g)
      <4>1. n0 >= g /\ n1 = n0 + 1 /\ n0 < ModelLen
        BY <1>1, <1>5, <3>2
      <4> QED BY <1>2, <4>1
    <3> QED BY <3>1, <3>2
  <2>2. Len(history[s]) = n1
    <3>1. Len(Text(r, n1)) = n1
      BY <1>1, Texts
    <3> QED BY <2>1, <3>1
  <2>3. n0 >= g \/ n1 = g
    BY <1>1, <1>5, <1>10
  <2>4. Commits(row)
    BY <1>8, <1>10, <2>2, <2>3
  <2>5. Append(Text(r, n1), <<r, n1 + 1>>) = Text(r, n1 + 1)
    BY <1>1, Texts
  <2> QED BY <2>1, <2>4, <2>5 DEF Turns
<1> QED BY <1>7, <1>9, <1>10 DEF Ready

(* A slot that rests stays ready. *)
LEMMA ReadyStill ==
  ASSUME NEW r, NEW s, NEW g, NEW n, Ready(s, r, g, n), Rests(s)
  PROVE  Ready(s, r, g, n)'
BY DEF Ready, Rests

(* The members of a list, and their places.                                 *)
Listed(t, S) ==
  /\ DOMAIN t = 1 .. Len(t) /\ \A j \in DOMAIN t : t[j] \in ToSet(t) /\ t[j] \in S
  /\ \A x \in ToSet(t) : \E j \in DOMAIN t : t[j] = x

(* Every list is one of its members. *)
LEMMA ListPlaces ==
  ASSUME NEW S, NEW t, t \in Seq(S)
  PROVE  Listed(t, S)
<1>1. DOMAIN t = 1 .. Len(t)
  BY LenProperties
<1>2. ToSet(t) = {t[j] : j \in 1 .. Len(t)}
  BY ListMembers
<1>3. \A j \in DOMAIN t : t[j] \in S
  OBVIOUS
<1> QED BY <1>1, <1>2, <1>3 DEF Listed

(* A cell is of one position of a list of blocks.                            *)
LEMMA OneCell ==
  ASSUME RunnerV2Assumption, NEW K, K \in Nat, NEW b, b \in Seq(1 .. K), IsInjective(b),
         NEW p, Within(p, b), NEW q, Within(q, b), CellIn(b, p) = CellIn(b, q)
  PROVE  p = q
<1>1. PICK c : c = b
  OBVIOUS
<1>2. c \in Seq(1 .. K) /\ Within(q, c) /\ CellIn(b, p) = CellIn(c, q) /\ b = c
  BY <1>1
<1>3. ToSet(b) \cap ToSet(c) # {} /\ (b = c /\ IsInjective(b) => p = q)
  BY <1>2, CellsOfLists
<1> QED BY <1>2, <1>3

(* A cell no row writes, and one a row does.                                *)
LEMMA CellKept ==
  ASSUME NEW i, NEW e, NEW out, RunsStep(i, e, out), NEW c, c \in DOMAIN kv,
         \A w : w \notin Writes(e, c)
  PROVE  kv'[c] = kv[c]
<1>1. Writes(e, c) = {}
  OBVIOUS
<1> QED BY <1>1 DEF RunsStep

(* A cell that is written holds what one of its writers gave it. *)
LEMMA CellWritten ==
  ASSUME NEW i, NEW e, NEW out, RunsStep(i, e, out), NEW c, c \in DOMAIN kv,
         NEW v, v \in Writes(e, c)
  PROVE  \E w \in Writes(e, c) :
           kv'[c] = IF Exact(e, e.rows[w[1]]) THEN Inputs(e, e.rows[w[1]])[w[2]] ELSE Wrong
<1>1. PICK w : w = CHOOSE h \in Writes(e, c) : TRUE
  OBVIOUS
<1>2. w \in Writes(e, c)
  BY <1>1
<1>3. kv'[c] = IF Exact(e, e.rows[w[1]]) THEN Inputs(e, e.rows[w[1]])[w[2]] ELSE Wrong
  BY <1>1, <1>2 DEF RunsStep
<1> QED BY <1>2, <1>3

(* The rows of a step compute their requests' tokens, each in blocks enough   *)
(* for them.                                                               *)
Computing(e, g, n0, n1, b1, K) ==
  /\ e.reqs \in Seq(ReqId) /\ IsInjective(e.reqs) /\ DOMAIN e.rows = DOMAIN e.reqs
  /\ n0 \in [ReqId -> Nat] /\ n1 \in [ReqId -> Nat] /\ K \in Nat
  /\ \A j \in DOMAIN e.reqs :
       LET q == e.reqs[j] IN
       /\ e.rows[j].at = n0[q] /\ e.rows[j].len = n1[q] - n0[q]
       /\ e.rows[j].table = b1[q] /\ Holds(b1[q], n1[q], K)

(* No row but the request's own writes a cell of its blocks, and its own one  *)
(* writes each of the step's positions once.                                *)
LEMMA WriterKnown ==
  ASSUME RunnerV2Assumption, NEW e, NEW g, NEW n0, NEW n1, NEW b1, NEW K,
         Computing(e, g, n0, n1, b1, K), NEW r, r \in ReqId, Holds(b1[r], n1[r], K),
         \A q \in ToSet(e.reqs) : q # r => ToSet(b1[q]) \cap ToSet(b1[r]) = {},
         NEW p, p \in 0 .. n1[r] - 1, NEW w, w \in Writes(e, CellIn(b1[r], p))
  PROVE  /\ w[1] \in DOMAIN e.reqs /\ e.reqs[w[1]] = r
         /\ w[2] \in 1 .. n1[r] - n0[r] /\ p = n0[r] + w[2] - 1
<1>0. PICK j \in DOMAIN e.rows : w \in {j} \X (1 .. e.rows[j].len)
  BY DEF Writes
<1>1. PICK k \in 1 .. e.rows[j].len : w = <<j, k>>
  BY <1>0
<1>2. w[1] = j /\ w[2] = k
  BY <1>1
<1>3. PICK q : q = e.reqs[j]
  OBVIOUS
<1>4. /\ j \in DOMAIN e.reqs /\ e.rows[j].at = n0[q] /\ e.rows[j].len = n1[q] - n0[q]
      /\ e.rows[j].table = b1[q] /\ Holds(b1[q], n1[q], K)
  BY <1>3 DEF Computing
<1>5. Listed(e.reqs, ReqId)
  BY ListPlaces DEF Computing
<1>6. q \in ReqId /\ q \in ToSet(e.reqs)
  BY <1>3, <1>4, <1>5 DEF Listed
<1>7. PICK x \in Nat, y \in Nat, z \in Nat : x = n0[q] /\ y = n1[q] /\ z = n1[r]
  BY <1>6 DEF Computing
<1>8. k \in 1 .. y - x
  BY <1>4, <1>7
<1>9. PICK o \in 0 .. y - 1 : o = x + k - 1
  BY <1>7, <1>8
<1>10. o \div BlockSize < Len(b1[q]) /\ CellIn(b1[r], p) = Cell(b1[q][o \div BlockSize + 1], o)
  BY <1>2, <1>4, <1>7, <1>9 DEF Writes
<1>11. CellIn(b1[q], o) = CellIn(b1[r], p)
  BY <1>10 DEF CellIn
<1>12. /\ b1[q] \in Seq(1 .. K) /\ IsInjective(b1[q]) /\ Within(o, b1[q])
       /\ b1[r] \in Seq(1 .. K) /\ Within(p, b1[r]) /\ K \in Nat
  BY <1>4, <1>7, <1>9 DEF Holds, Computing
<1>13. PICK b, c : b = b1[q] /\ c = b1[r]
  OBVIOUS
<1>14. ToSet(b) \cap ToSet(c) # {} /\ (b = c /\ IsInjective(b) => o = p)
  <2>1. /\ b \in Seq(1 .. K) /\ Within(o, b) /\ c \in Seq(1 .. K) /\ Within(p, c) /\ K \in Nat
        /\ CellIn(b, o) = CellIn(c, p)
    BY <1>11, <1>12, <1>13
  <2>2. ToSet(b) \cap ToSet(c) # {}
    BY <2>1, CellsOfLists
  <2>3. b = c /\ IsInjective(b) => o = p
    BY <2>1, OneCell
  <2> QED BY <2>2, <2>3
<1>15. q = r
  BY <1>6, <1>13, <1>14
<1>16. o = p
  BY <1>12, <1>13, <1>14, <1>15
<1> QED BY <1>2, <1>3, <1>4, <1>7, <1>8, <1>9, <1>15, <1>16

(* After its step the cache holds what the request had and its inputs.       *)
LEMMA CacheRuns ==
  ASSUME RunnerV2Assumption, NEW i, NEW e, NEW out, RunsStep(i, e, out), NEW K,
         DOMAIN kv = 0 .. (K + 1) * BlockSize - 1,
         NEW g, NEW n0, NEW n1, NEW b0, NEW b1, Computing(e, g, n0, n1, b1, K),
         Formed(e, g, n0, n1, b0, b1), ~e.read,
         NEW r, r \in ReqId, Holds(b0[r], n0[r], K), Holds(b1[r], n1[r], K),
         CacheHolds(b0[r], n0[r], r),
         \A q \in ToSet(e.reqs) : q # r => ToSet(b1[q]) \cap ToSet(b1[r]) = {},
         NEW s, \A j \in DOMAIN e.reqs : e.reqs[j] = r =>
                  RowExact(e, e.rows[j], r, s, g[r], b1[r], n0[r], n1[r])
  PROVE  CacheHolds(b1[r], n1[r], r)'
<1>1. PICK x \in Nat, y \in Nat : x = n0[r] /\ y = n1[r]
  BY DEF Computing
<1>2. PICK b, d : b = b1[r] /\ d = b0[r]
  OBVIOUS
<1>k. K \in Nat
  BY DEF Computing
<1>3. ASSUME NEW p \in 0 .. y - 1 PROVE kv'[CellIn(b, p)] = <<r, p + 1>>
  <2>1. PICK c : c = CellIn(b, p)
    OBVIOUS
  <2>2. b \in Seq(1 .. K) /\ Within(p, b)
    BY <1>1, <1>2 DEF Holds
  <2>3. c \in DOMAIN kv
    BY <1>k, <2>1, <2>2, CellOf
  <2>4. ASSUME NEW w, w \in Writes(e, c)
        PROVE  /\ w[1] \in DOMAIN e.reqs /\ e.reqs[w[1]] = r
               /\ w[2] \in 1 .. y - x /\ p = x + w[2] - 1
    <3>1. p \in 0 .. n1[r] - 1 /\ w \in Writes(e, CellIn(b1[r], p))
      BY <1>1, <1>2, <2>1, <2>4
    <3>2. /\ w[1] \in DOMAIN e.reqs /\ e.reqs[w[1]] = r
          /\ w[2] \in 1 .. n1[r] - n0[r] /\ p = n0[r] + w[2] - 1
      BY SMTT(30), <3>1, WriterKnown
    <3>3. n0[r] = x /\ n1[r] = y
      BY <1>1
    <3> QED BY <3>2, <3>3
  <2>5. CASE r \notin ToSet(e.reqs)
    <3>1. \A w : w \notin Writes(e, c)
      <4> SUFFICES ASSUME NEW w, w \in Writes(e, c) PROVE FALSE
        OBVIOUS
      <4>1. w[1] \in DOMAIN e.reqs /\ e.reqs[w[1]] = r
        BY <2>4
      <4>2. Listed(e.reqs, ReqId)
        BY ListPlaces DEF Computing
      <4> QED BY <2>5, <4>1, <4>2 DEF Listed
    <3>2. kv'[c] = kv[c]
      BY <2>3, <3>1, CellKept
    <3>3. r \notin e.preempted
      <4> SUFFICES ASSUME r \in e.preempted PROVE FALSE
        OBVIOUS
      <4>1. n1[r] = 0
        BY <2>5 DEF Formed
      <4> QED BY <1>1, <4>1
    <3>4. x = y /\ b = d
      BY <1>1, <1>2, <2>5, <3>3 DEF Formed
    <3>5. kv[CellIn(d, p)] = <<r, p + 1>>
      BY <1>1, <1>2, <3>4 DEF CacheHolds
    <3> QED BY <2>1, <3>2, <3>4, <3>5
  <2>6. ASSUME r \in ToSet(e.reqs), p < x PROVE kv'[CellIn(b, p)] = <<r, p + 1>>
    <3>1. \A w : w \notin Writes(e, c)
      <4> SUFFICES ASSUME NEW w, w \in Writes(e, c) PROVE FALSE
        OBVIOUS
      <4>1. w[2] \in 1 .. y - x /\ p = x + w[2] - 1
        BY <2>4
      <4> QED BY <2>6, <4>1
    <3>2. kv'[c] = kv[c]
      BY <2>3, <3>1, CellKept
    <3>3. Computes(e, r, g[r], n0[r], n1[r], b0[r], b1[r])
      BY <2>6 DEF Formed
    <3>4. PICK z \in Seq(Nat) : b = d \o z
      BY <1>2, <3>3 DEF Computes
    <3>5. Holds(d, x, K) /\ CacheHolds(d, x, r)
      BY <1>1, <1>2
    <3>6. HeldStill(r, d, b, x)
      BY <1>k, <3>4, <3>5, HeldBefore
    <3>7. p \in 0 .. x - 1
      BY <2>6
    <3>8. CellIn(b, p) = CellIn(d, p)
      BY <3>6, <3>7 DEF HeldStill
    <3>9. kv[CellIn(d, p)] = <<r, p + 1>>
      BY <3>5, <3>7 DEF CacheHolds
    <3> QED BY <2>1, <3>2, <3>8, <3>9
  <2>7. ASSUME r \in ToSet(e.reqs), ~(p < x) PROVE kv'[CellIn(b, p)] = <<r, p + 1>>
    <3>1. PICK j \in DOMAIN e.reqs : e.reqs[j] = r
      <4>1. Listed(e.reqs, ReqId)
        BY ListPlaces DEF Computing
      <4> QED BY <2>7, <4>1 DEF Listed
    <3>2. PICK row : row = e.rows[j]
      OBVIOUS
    <3>3. row.at = x /\ row.len = y - x /\ row.table = b /\ j \in DOMAIN e.rows
      BY <1>1, <1>2, <3>1, <3>2 DEF Computing
    <3>4. PICK k \in 1 .. y - x : k = p - x + 1
      BY <2>7
    <3>5. x + k - 1 = p
      BY <3>4
    <3>6. p \div BlockSize < Len(b)
      <4>1. p \div BlockSize \in 0 .. Len(b) - 1 /\ Len(b) \in Nat
        BY <1>k, <2>2, CellOf
      <4> QED BY <4>1
    <3>7. <<j, k>> \in Writes(e, c)
      <4>1. PICK v : v = <<j, k>>
        OBVIOUS
      <4>2. v[1] = j /\ v[2] = k
        BY <4>1
      <4>3. v \in {j} \X (1 .. e.rows[j].len)
        BY <3>2, <3>3, <4>1
      <4>4. v \in UNION {{h} \X (1 .. e.rows[h].len) : h \in DOMAIN e.rows}
        BY <3>3, <4>3
      <4>5. row.at + v[2] - 1 = p
        BY <3>3, <3>5, <4>2
      <4>6. c = Cell(row.table[p \div BlockSize + 1], p)
        BY <2>1, <3>3 DEF CellIn
      <4>7. /\ (e.rows[v[1]].at + v[2] - 1) \div BlockSize < Len(e.rows[v[1]].table)
            /\ c = Cell(e.rows[v[1]].table[(e.rows[v[1]].at + v[2] - 1) \div BlockSize + 1],
                        e.rows[v[1]].at + v[2] - 1)
        BY <3>2, <3>3, <3>6, <4>2, <4>5, <4>6
      <4>8. v \in Writes(e, c)
        BY <4>4, <4>7 DEF Writes
      <4> QED BY <4>1, <4>8
    <3>8. PICK w \in Writes(e, c) :
            kv'[c] = IF Exact(e, e.rows[w[1]]) THEN Inputs(e, e.rows[w[1]])[w[2]] ELSE Wrong
      BY <2>3, <3>7, CellWritten
    <3>9. /\ w[1] \in DOMAIN e.reqs /\ e.reqs[w[1]] = r
          /\ w[2] \in 1 .. y - x /\ p = x + w[2] - 1
      BY <2>4, <3>8
    <3>10. RowExact(e, e.rows[w[1]], r, s, g[r], b1[r], n0[r], n1[r])
      BY <3>9
    <3>11. Exact(e, e.rows[w[1]]) /\ Inputs(e, e.rows[w[1]]) = Following(r, x, y - x)
      BY <1>1, <3>10 DEF RowExact
    <3>12. Following(r, x, y - x)[w[2]] = <<r, x + w[2]>>
      BY <3>9 DEF Following
    <3>13. x + w[2] = p + 1
      BY SMTT(30), <3>9
    <3>14. kv'[c] = Inputs(e, e.rows[w[1]])[w[2]]
      BY <3>8, <3>11
    <3>15. kv'[c] = <<r, p + 1>>
      BY <3>11, <3>12, <3>13, <3>14
    <3> QED BY <2>1, <3>15
  <2> QED BY <2>5, <2>6, <2>7
<1>4. CacheHolds(b, y, r)'
  BY <1>3 DEF CacheHolds, CellIn, Cell
<1> QED BY <1>1, <1>2, <1>4

(* The step that runs: the first that has not, once the output rank, like all *)
(* others, has submitted it.                                               *)
Running(i, n, f, m, e, d, out) ==
  /\ i \in 1 .. n /\ i = f + 1 /\ f \in 0 .. n /\ m \in 0 .. n /\ i <= m
  /\ e = steps[i] /\ ~e.ran /\ ~e.read /\ out = Answered(e)
  /\ Len(steps) = n /\ Len(steps') = n /\ RunsStep(i, e, out)
  /\ steps'[i] = d /\ Carries(e, d)
  /\ d.ran /\ d.out = out /\ d.read = e.read /\ d.ranks = e.ranks /\ d.chosen = e.chosen
  /\ \A j \in 1 .. n : j # i => steps'[j] = steps[j]

(* A run is that of the first step that has not run. *)
LEMMA RunningParts ==
  ASSUME RunnerV2Assumption, SlotInv, NEW N, NEW B, NEW f, NEW m, Ledger(N, B, f, m), Run,
         NEW n, n \in 0 .. 2, n = Len(steps)
  PROVE  \E i \in 1 .. n : \E e, d, out : Running(i, n, f, m, e, d, out)
<1>1. Positions(f, m) /\ Orders
  BY DEF Ledger
<1>2. DOMAIN steps = 1 .. n /\ IsList(steps)
  BY QueueLength
<1>3. PICK i \in 1 .. n : RunsStep(i, steps[i], Answered(steps[i]))
  BY <1>2, RunActs
<1>4. PICK e : e = steps[i]
  OBVIOUS
<1>5. PICK out : out = Answered(e)
  OBVIOUS
<1>6. RunsStep(i, e, out)
  BY <1>3, <1>4, <1>5
<1>7. ~e.ran /\ e.ranks = TpRank /\ \A j \in 1 .. i - 1 : steps[j].ran
  BY <1>6 DEF RunsStep
<1>8. steps' = [steps EXCEPT ![i].ran = TRUE, ![i].out = out]
  BY <1>6 DEF RunsStep
<1>9. PICK d : d = [e EXCEPT !.ran = TRUE, !.out = out]
  OBVIOUS
<1>10. steps' = [steps EXCEPT ![i] = d]
  BY <1>4, <1>8, <1>9
<1>11. Len(steps') = n /\ steps'[i] = d /\ \A j \in 1 .. n : j # i => steps'[j] = steps[j]
  <2>1. steps' = [j \in 1 .. Len(steps) |-> steps'[j]]
    BY <1>2, <1>10
  <2>2. Len(steps') = n
    BY <1>2, <2>1, ListMapped
  <2> QED BY <1>2, <1>10, <2>2
<1>12. StepParts \subseteq DOMAIN e
  BY <1>1, <1>4 DEF Orders
<1>13. /\ StepParts \subseteq DOMAIN d
       /\ d.new = e.new /\ d.reqs = e.reqs /\ d.prompt = e.prompt
       /\ d.finished = e.finished /\ d.preempted = e.preempted
       /\ d.at = e.at /\ d.size = e.size /\ d.given = e.given /\ d.texts = e.texts
       /\ d.ran = TRUE /\ d.read = e.read /\ d.out = out /\ d.ranks = e.ranks /\ d.chosen = e.chosen
  BY <1>9, <1>12 DEF StepParts
<1>14. ~e.read
  <2>1. Told
    BY DEF SlotInv
  <2>2. steps[i].read => steps[i].ran
    BY <2>1 DEF Told
  <2> QED BY <1>4, <1>7, <2>2
<1>15. Carries(e, d)
  BY <1>13 DEF Carries
<1>16. f \in 0 .. n /\ m \in 0 .. n
  BY <1>1 DEF Positions
<1>17. i = f + 1
  <2>1. ~(i \in 1 .. f)
    BY <1>1, <1>4, <1>7 DEF Positions
  <2>2. i >= f + 1 /\ f < n
    BY <1>16, <2>1
  <2>3. ~(f + 1 \in 1 .. i - 1)
    BY <1>1, <1>7, <2>2 DEF Positions
  <2> QED BY <1>16, <2>2, <2>3
<1>18. i <= m
  <2>1. OutputRank \in steps[i].ranks
    BY <1>4, <1>7 DEF RunnerV2Assumption
  <2> QED BY <1>1, <2>1 DEF Positions
<1>19. Running(i, n, f, m, e, d, out)
  BY <1>4, <1>5, <1>6, <1>7, <1>11, <1>13, <1>14, <1>15, <1>16, <1>17, <1>18 DEF Running
<1> QED BY <1>19

(* The rows of the step: whose, in which slot, and how they are made.        *)
Rowing(i, e, g, n0, n1, b0, b1, Q, K) ==
  /\ e.reqs \in Seq(ReqId) /\ IsInjective(e.reqs) /\ Listed(e.reqs, ReqId) /\ e.prompt \in BOOLEAN
  /\ g \in [ReqId -> Nat] /\ n0 \in [ReqId -> Nat] /\ n1 \in [ReqId -> Nat] /\ K \in Nat
  /\ Formed(e, g, n0, n1, b0, b1) /\ Operands(e, b1, g)
  /\ Q \in Table /\ Apart(Q)
  /\ \A r \in ToSet(e.reqs) : Q[r] # NoSlot /\ e.chosen[OutputRank][r] = Q[r]
  /\ \A r \in ToSet(e.reqs) : Holds(b1[r], n1[r], K)
  /\ \A r \in ReqId : r \in e.preempted => Q[r] = NoSlot

(* The ledger says this of the step that runs. *)
LEMMA RowingParts ==
  ASSUME RunnerV2Assumption, SlotInv, NEW N, NEW B, NEW f, NEW m, Ledger(N, B, f, m),
         NEW i, NEW n, n \in 0 .. 2, NEW e, NEW d, NEW out, Running(i, n, f, m, e, d, out),
         NEW T, Chain(T), NEW K, K = engine.blocks
  PROVE  Rowing(i, e, goal, N[f], N[i], B[f], B[i], T[i], K)
<1>1. /\ Ghosts(N, B) /\ Positions(f, m) /\ Orders
      /\ Shapes(N, B) /\ PlanAgrees(N, B) /\ Room(N, B, f) /\ HostRows(B, m)
  BY DEF Ledger
<1>2. /\ i \in 1 .. n /\ i = f + 1 /\ f \in 0 .. n /\ m \in 0 .. n /\ i <= m
      /\ e = steps[i] /\ ~e.read /\ n = Len(steps)
  BY DEF Running
<1>3. i \in 1 .. Len(steps) /\ i - 1 = f /\ i \in 1 .. m /\ i \in f + 1 .. n /\ i \in f .. n /\ i \in 0 .. n
  BY <1>2
<1>4. e.reqs \in Seq(ReqId) /\ ToSet(e.reqs) \subseteq ReqId /\ ToSet(e.new) \subseteq ToSet(e.reqs)
      /\ ToSet(e.reqs) \cap e.preempted = {}
  BY <1>2, <1>3, KnownStep
<1>5. Listed(e.reqs, ReqId)
  BY <1>4, ListPlaces
<1>6. IsInjective(e.reqs) /\ e.prompt \in BOOLEAN
  BY <1>1, <1>2, <1>3 DEF Orders
<1>7. N[f] \in [ReqId -> Nat] /\ N[i] \in [ReqId -> Nat] /\ goal \in [ReqId -> Nat]
  BY <1>1, <1>2, <1>3 DEF Ghosts, PlanAgrees
<1>8. Formed(e, goal, N[f], N[i], B[f], B[i])
  BY <1>1, <1>2, <1>3 DEF Shapes
<1>9. Operands(e, B[i], goal)
  BY <1>1, <1>2, <1>3 DEF HostRows
<1>10. PICK P, Q : P = T[i - 1] /\ Q = T[i]
  OBVIOUS
<1>11. TableSteps(P, Q, e)
  BY <1>2, <1>3, <1>10, TableStep
<1>12. /\ Q \in Table /\ Apart(Q) /\ \A r \in ToSet(e.reqs) : Q[r] # NoSlot
       /\ \A r \in ReqId \ ToSet(e.new) : Q[r] = IF r \in Gone(e) THEN NoSlot ELSE P[r]
  BY <1>11 DEF TableSteps
<1>13. \A r \in ReqId : r \in e.preempted => Q[r] = NoSlot
  BY <1>4, <1>12 DEF Gone
<1>14. \A r \in ToSet(e.reqs) : e.chosen[OutputRank][r] = Q[r]
  <2>1. \A j \in 1 .. m : steps[j].chosen[OutputRank] = SeatsOf(T[j], steps[j].reqs)
    BY <1>1, OutputTable
  <2>2. e.chosen[OutputRank] = SeatsOf(Q, e.reqs)
    BY <1>2, <1>3, <1>10, <2>1
  <2> QED BY <2>2 DEF SeatsOf
<1>15. K \in Nat
  BY QueueLength
<1>16. \A r \in ToSet(e.reqs) : Holds(B[i][r], N[i][r], K)
  <2> TAKE r \in ToSet(e.reqs)
  <2>1. i > f /\ r \in ReqId /\ i \in f .. Len(steps)
    BY <1>2, <1>3, <1>4
  <2>2. r \in ToSet(steps[i].reqs)
    BY <1>2
  <2> QED BY <1>1, <2>1, <2>2 DEF Room
<1>17. Rowing(i, e, goal, N[f], N[i], B[f], B[i], Q, K)
  BY <1>4, <1>5, <1>6, <1>7, <1>8, <1>9, <1>12, <1>13, <1>14, <1>15, <1>16 DEF Rowing
<1> QED BY <1>10, <1>17

(* The row of a live request is exact.                                      *)
LEMMA LiveRow ==
  ASSUME RunnerV2Assumption, WindowCovered, NEW i, NEW e, ~e.read, NEW g, NEW n0, NEW n1, NEW b0, NEW b1,
         NEW Q, NEW K, Rowing(i, e, g, n0, n1, b0, b1, Q, K),
         NEW j, j \in DOMAIN e.reqs, NEW r, r = e.reqs[j],
         Holds(b0[r], n0[r], K), CacheHolds(b0[r], n0[r], r), Ready(Q[r], r, g[r], n0[r])
  PROVE  RowExact(e, e.rows[j], r, Q[r], g[r], b1[r], n0[r], n1[r])
<1>1. r \in ReqId /\ r \in ToSet(e.reqs)
  BY DEF Rowing, Listed
<1>2. PICK x \in Nat, y \in Nat, z \in Nat : x = n0[r] /\ y = n1[r] /\ z = g[r]
  BY <1>1 DEF Rowing
<1>3. PICK b, c, s : b = b0[r] /\ c = b1[r] /\ s = Q[r]
  OBVIOUS
<1>4. PICK row : row = e.rows[j]
  OBVIOUS
<1>5. row = RowFor(e, r, s, c, z)
  <2>1. e.rows[j] = RowFor(e, r, e.chosen[OutputRank][r], b1[r], g[r])
    BY DEF Rowing, Operands
  <2>2. e.chosen[OutputRank][r] = Q[r]
    BY <1>1 DEF Rowing
  <2> QED BY <1>2, <1>3, <1>4, <2>1, <2>2
<1>6. Computes(e, r, z, x, y, b, c)
  <2>1. Computes(e, r, g[r], n0[r], n1[r], b0[r], b1[r])
    BY <1>1 DEF Rowing, Formed
  <2> QED BY <1>2, <1>3, <2>1
<1>7. Holds(b, x, K) /\ Holds(c, y, K) /\ CacheHolds(b, x, r) /\ Ready(s, r, z, x)
      /\ K \in Nat /\ e.prompt \in BOOLEAN
  BY <1>1, <1>2, <1>3 DEF Rowing
<1>8. RowExact(e, row, r, s, z, c, x, y)
  BY <1>1, <1>5, <1>6, <1>7, RowRead
<1> QED BY <1>2, <1>3, <1>4, <1>8

(* After the step the slot of a live request is ready for the next.          *)
LEMMA SlotRuns ==
  ASSUME RunnerV2Assumption, WindowCovered, NEW i, NEW e, ~e.read, NEW g, NEW n0, NEW n1, NEW b0, NEW b1,
         NEW Q, NEW K, Rowing(i, e, g, n0, n1, b0, b1, Q, K), RunsStep(i, e, Answered(e)),
         NEW r, r \in ReqId, Q[r] # NoSlot,
         Holds(b0[r], n0[r], K), CacheHolds(b0[r], n0[r], r), Ready(Q[r], r, g[r], n0[r])
  PROVE  Ready(Q[r], r, g[r], n1[r])'
<1>1. PICK x \in Nat, y \in Nat, z \in Nat : x = n0[r] /\ y = n1[r] /\ z = g[r]
  BY DEF Rowing
<1>2. PICK s : s = Q[r]
  OBVIOUS
<1>3. s \in Slots
  BY <1>2 DEF Rowing, Table
<1>4. ASSUME NEW h \in DOMAIN e.rows
      PROVE  /\ h \in DOMAIN e.reqs /\ e.reqs[h] \in ReqId /\ e.reqs[h] \in ToSet(e.reqs)
             /\ e.rows[h].slot = Q[e.reqs[h]]
  <2>1. h \in DOMAIN e.reqs
    BY DEF Rowing, Operands
  <2>2. PICK q : q = e.reqs[h]
    OBVIOUS
  <2>3. q \in ReqId /\ q \in ToSet(e.reqs)
    BY <2>1, <2>2 DEF Rowing, Listed
  <2>4. e.rows[h] = RowFor(e, q, e.chosen[OutputRank][q], b1[q], g[q])
    BY <2>1, <2>2 DEF Rowing, Operands
  <2>5. e.chosen[OutputRank][q] = Q[q]
    BY <2>3 DEF Rowing
  <2>6. e.rows[h].slot = Q[q]
    BY <2>4, <2>5 DEF RowFor
  <2> QED BY <2>1, <2>2, <2>3, <2>6
<1>5. ASSUME NEW h \in DOMAIN e.rows, e.rows[h].slot = s PROVE e.reqs[h] = r
  <2>1. PICK q : q = e.reqs[h]
    OBVIOUS
  <2>2. q \in ReqId /\ Q[q] = Q[r]
    BY <1>2, <1>4, <1>5, <2>1
  <2>3. q = r
    BY <2>2 DEF Rowing, Apart
  <2> QED BY <2>1, <2>3
<1>6. ASSUME r \in ToSet(e.reqs) PROVE Ready(s, r, z, y)'
  <2>1. PICK j \in DOMAIN e.reqs : e.reqs[j] = r
    BY <1>6 DEF Rowing, Listed
  <2>2. RowExact(e, e.rows[j], r, Q[r], g[r], b1[r], n0[r], n1[r])
    BY <2>1, LiveRow
  <2>3. PICK row, b, c : row = e.rows[j] /\ b = b0[r] /\ c = b1[r]
    OBVIOUS
  <2>4. RowExact(e, row, r, s, z, c, x, y)
    BY <1>1, <1>2, <2>2, <2>3
  <2>5. j \in DOMAIN e.rows
    BY DEF Rowing, Operands
  <2>6. PICK out : out = Answered(e)
    OBVIOUS
  <2>7. out[j] = <<r, y + 1>>
    <3>1. out[j] = Sampled(e, row)
      BY <2>3, <2>5, <2>6 DEF Answered
    <3> QED BY <2>4, <3>1 DEF RowExact
  <2>8. \A h \in DOMAIN e.rows : e.rows[h].slot = s => h = j
    <3> SUFFICES ASSUME NEW h \in DOMAIN e.rows, e.rows[h].slot = s PROVE h = j
      OBVIOUS
    <3>1. e.reqs[h] = e.reqs[j] /\ h \in DOMAIN e.reqs
      BY <1>4, <1>5, <2>1
    <3> QED BY <3>1 DEF Rowing, IsInjective
  <2>9. s = e.rows[j].slot
    BY <1>2, <1>4, <2>1, <2>5
  <2>10. Turns(s, e.rows[j], out[j])
    <3>1. RunsStep(i, e, out)
      BY <2>6
    <3> QED BY <1>3, <2>5, <2>8, <2>9, <3>1, SlotTurns
  <2>11. Turns(s, row, <<r, y + 1>>)
    BY <2>3, <2>7, <2>10
  <2>12. Computes(e, r, z, x, y, b, c)
    <3>1. Computes(e, r, g[r], n0[r], n1[r], b0[r], b1[r])
      BY <1>6 DEF Rowing, Formed
    <3> QED BY <1>1, <2>3, <3>1
  <2>13. Ready(s, r, z, x) /\ e.prompt \in BOOLEAN
    BY <1>1, <1>2 DEF Rowing
  <2> QED BY <2>4, <2>11, <2>12, <2>13, ReadyNext
<1>7. ASSUME r \notin ToSet(e.reqs) PROVE Ready(s, r, z, y)'
  <2>1. \A h \in DOMAIN e.rows : e.rows[h].slot # s
    <3> SUFFICES ASSUME NEW h \in DOMAIN e.rows, e.rows[h].slot = s PROVE FALSE
      OBVIOUS
    <3>1. e.reqs[h] = r /\ e.reqs[h] \in ToSet(e.reqs)
      BY <1>4, <1>5
    <3> QED BY <1>7, <3>1
  <2>2. Rests(s)
    BY <1>3, <2>1, SlotRests
  <2>3. r \notin e.preempted
    BY DEF Rowing
  <2>4. y = x
    BY <1>1, <1>7, <2>3 DEF Rowing, Formed
  <2>5. Ready(s, r, z, y)
    BY <1>1, <1>2, <2>4
  <2> QED BY <2>2, <2>5, ReadyStill
<1> QED BY <1>1, <1>2, <1>6, <1>7

(* How far the queue has run once the step has: past it, and past the next if *)
(* that computes nothing.                                                  *)
RunTo(h, i, n) ==
  /\ h \in i .. n
  /\ h = i \/ (h = i + 1 /\ i + 1 \in 1 .. n /\ steps[i + 1].ran /\ steps[i + 1].reqs = <<>>)
  /\ h < n => ~steps[h + 1].ran

(* There is such a step. *)
LEMMA RunsTo ==
  ASSUME RunnerV2Assumption, SlotInv, Orders, NEW n, n \in 0 .. 2, n = Len(steps),
         NEW i, i \in 1 .. n, ~steps[i].ran
  PROVE  \E h \in i .. n : RunTo(h, i, n)
<1>1. CASE i = n
  <2>1. i \in i .. n /\ ~(i < n)
    BY <1>1
  <2>2. RunTo(i, i, n)
    BY <2>1 DEF RunTo
  <2> QED BY <2>1, <2>2
<1>2. CASE i # n /\ ~steps[i + 1].ran
  <2>1. i \in i .. n
    OBVIOUS
  <2>2. RunTo(i, i, n)
    BY <1>2, <2>1 DEF RunTo
  <2> QED BY <2>1, <2>2
<1>3. CASE i # n /\ steps[i + 1].ran
  <2>1. i = 1 /\ n = 2
    <3>1. i \in Int /\ n \in Int /\ 1 <= i /\ i <= n /\ n <= 2 /\ i # n
      BY <1>3
    <3> QED BY <3>1
  <2>2. PICK h \in 1 .. n : h = i + 1
    BY <2>1
  <2>3. steps[h].reqs = <<>>
    <3>1. steps[h].reqs = <<>> \/ \A j \in 1 .. h - 1 : steps[j].ran
      BY <1>3, <2>2 DEF Orders
    <3>2. i \in 1 .. h - 1
      BY <2>1, <2>2
    <3> QED BY <3>1, <3>2
  <2>4. h \in i .. n /\ ~(h < n)
    BY <2>1, <2>2
  <2>5. RunTo(h, i, n)
    BY <1>3, <2>2, <2>3, <2>4 DEF RunTo
  <2> QED BY <2>4, <2>5
<1> QED BY <1>1, <1>2, <1>3

(* A step without requests takes the counts and blocks of those it preempts,  *)
(* and no other's.                                                         *)
Past(N, B, h, i, n, r) ==
  \/ N[h][r] = N[i][r] /\ B[h][r] = B[i][r]
  \/ h = i + 1 /\ i + 1 \in 1 .. n /\ r \in steps[i + 1].preempted /\ N[h][r] = 0

(* To a request the empty step between them is a preemption or nothing. *)
LEMMA RunPast ==
  ASSUME RunnerV2Assumption, SlotInv, NEW N, NEW B, Shapes(N, B), NEW n, n \in 0 .. 2, n = Len(steps),
         NEW i, i \in 1 .. n, NEW h, RunTo(h, i, n), NEW r, r \in ReqId
  PROVE  Past(N, B, h, i, n, r)
<1> USE DEF Past
<1>1. h = i \/ (h = i + 1 /\ i + 1 \in 1 .. n /\ steps[i + 1].reqs = <<>>)
  BY DEF RunTo
<1>2. CASE h = i
  BY <1>2
<1>3. CASE h = i + 1 /\ i + 1 \in 1 .. n /\ steps[i + 1].reqs = <<>>
  <2>1. h - 1 = i /\ h \in 1 .. n
    BY <1>3
  <2>2. Formed(steps[h], goal, N[i], N[h], B[i], B[h])
    BY <2>1 DEF Shapes
  <2>3. steps[h].reqs = <<>>
    BY <1>3
  <2>4. r \notin ToSet(steps[h].reqs)
    BY <2>3, EmptyList
  <2> QED BY <1>3, <2>2, <2>4 DEF Formed
<1> QED BY <1>1, <1>2, <1>3

(* A slot the output rank has given by a later step it has submitted was the  *)
(* request's at the step that runs: a step with newcomers is not submitted    *)
(* while one before it has yet to run.                                      *)
Since(T, i, j, r) == T[i][r] = T[j][r] /\ (j = i + 1 => r \notin steps[i + 1].preempted)

(* So the chain of tables says. *)
LEMMA SeatedSince ==
  ASSUME RunnerV2Assumption, SlotInv, NEW f, NEW m, Positions(f, m), Orders, NEW T, Chain(T),
         NEW n, n \in 0 .. 2, n = Len(steps), NEW i, i \in 1 .. n, ~steps[i].ran,
         NEW j, j \in i .. m, NEW r, r \in ReqId, T[j][r] # NoSlot
  PROVE  Since(T, i, j, r)
<1> USE DEF Since
<1>1. m \in 0 .. n
  BY DEF Positions
<1>2. CASE j = i
  BY <1>2
<1>3. CASE j # i
  <2>1. j = i + 1 /\ j \in 1 .. n /\ j - 1 = i /\ j \in 1 .. m /\ i \in 1 .. j - 1
    <3>a. n \in Int /\ n <= 2
      <4>1. \A z \in 0 .. 2 : z \in Int /\ z <= 2
        OBVIOUS
      <4> QED BY <4>1
    <3>b. i \in Int /\ 1 <= i /\ i <= n
      BY <3>a
    <3>c. m \in Int /\ m <= n
      BY <1>1, <3>a
    <3>1. i \in Int /\ 1 <= i /\ i <= n /\ n \in Int /\ n <= 2 /\ m \in Int /\ m <= n
      BY <3>a, <3>b, <3>c
    <3>2. j \in Int /\ i <= j /\ j <= m /\ j # i
      BY <1>3, <3>1
    <3>3. j = i + 1 /\ 1 <= j /\ j <= n
      BY <3>1, <3>2
    <3> QED BY <3>1, <3>2, <3>3
  <2>2. PICK e : e = steps[j]
    OBVIOUS
  <2>3. OutputRank \in e.ranks
    BY <2>1, <2>2 DEF Positions
  <2>4. e.new = <<>> \/ \A l \in 1 .. j - 1 : steps[l].ran
    BY <2>1, <2>2, <2>3 DEF Orders
  <2>5. e.new = <<>>
    BY <2>1, <2>4
  <2>6. r \notin ToSet(e.new)
    BY <2>5, EmptyList
  <2>7. PICK P, Q : P = T[j - 1] /\ Q = T[j]
    OBVIOUS
  <2>8. TableSteps(P, Q, e)
    <3>1. j \in 1 .. Len(steps)
      BY <2>1
    <3> QED BY <2>2, <2>7, <3>1, TableStep
  <2>9. Q[r] = IF r \in Gone(e) THEN NoSlot ELSE P[r]
    BY <2>6, <2>8 DEF TableSteps
  <2>10. r \notin Gone(e) /\ Q[r] = P[r]
    BY <2>7, <2>9
  <2> QED BY <2>1, <2>2, <2>7, <2>10 DEF Gone
<1> QED BY <1>2, <1>3

(* The oldest graph that has not run does.                                  *)
LEMMA RunLedger ==
  ASSUME RunnerV2Assumption, WindowCovered, SlotInv, NEW N, NEW B, NEW f, NEW m,
         Ledger(N, B, f, m), Run
  PROVE  \E h : Ledger(N, B, h, m)'
<1>1. /\ Ghosts(N, B) /\ Positions(f, m) /\ Orders
      /\ Shapes(N, B) /\ PlanAgrees(N, B) /\ Room(N, B, f)
      /\ Answers(N) /\ Results(N)
      /\ HostRows(B, m) /\ Cache(N, B, f) /\ Device(N, f, m)
  BY DEF Ledger
<1>2. PICK n \in 0 .. 2 : n = Len(steps)
  BY QueueLength
<1>3. PICK i \in 1 .. n : \E e, d, out : Running(i, n, f, m, e, d, out)
  BY <1>2, RunningParts
<1>4. PICK e, d, out : Running(i, n, f, m, e, d, out)
  BY <1>3
<1>5. /\ i = f + 1 /\ f \in 0 .. n /\ m \in 0 .. n /\ i <= m
      /\ e = steps[i] /\ ~e.ran /\ ~e.read /\ out = Answered(e)
      /\ Len(steps') = n /\ RunsStep(i, e, out)
      /\ steps'[i] = d /\ Carries(e, d)
      /\ d.ran /\ d.out = out /\ d.read = e.read /\ d.ranks = e.ranks /\ d.chosen = e.chosen
      /\ \A j \in 1 .. n : j # i => steps'[j] = steps[j]
  BY <1>4 DEF Running
<1>6. PICK h \in i .. n : RunTo(h, i, n)
  BY <1>1, <1>2, <1>5, RunsTo
<1>7. /\ UNCHANGED <<engine, plan>> /\ engine' = engine /\ stage' = stage /\ goal' = goal
      /\ slotOf' = slotOf /\ blockRow' = blockRow /\ prefillLen' = prefillLen
      /\ carry' = lastToken' /\ e.ranks = TpRank /\ \A j \in 1 .. i - 1 : steps[j].ran
  BY <1>5 DEF RunsStep, plan, hostState
<1>8. \A j \in 1 .. n : StepParts \subseteq DOMAIN steps[j]
  BY <1>1, <1>2 DEF Orders
<1>9. ASSUME NEW j \in 1 .. n
      PROVE  /\ Carries(steps[j], steps'[j]) /\ (steps'[j].ran <=> steps[j].ran \/ j = i)
             /\ steps'[j].ranks = steps[j].ranks /\ steps'[j].chosen = steps[j].chosen
             /\ steps'[j].reqs = steps[j].reqs /\ steps'[j].new = steps[j].new
             /\ steps'[j].preempted = steps[j].preempted
  <2>1. CASE j = i
    BY <1>5, <2>1 DEF Carries
  <2>2. CASE j # i
    BY <1>5, <1>8, <2>2 DEF Carries
  <2> QED BY <2>1, <2>2
<1>10. h \in f .. Len(steps) /\ h \in 0 .. n /\ i \in f + 1 .. m /\ i \in i .. m
  <2>1. h \in Int /\ i <= h /\ h <= n
    BY <1>5
  <2> QED BY <1>2, <1>5, <2>1
<1>11. /\ Ghosts(N, B)' /\ Shapes(N, B)' /\ PlanAgrees(N, B)' /\ Room(N, B, h)' /\ Answers(N)'
       /\ Lives' = Lives
  BY <1>2, <1>5, <1>7, <1>9, <1>10, PlanFramed
<1>12. PICK K, g : K = engine.blocks /\ g = goal
  OBVIOUS
<1>13. K \in Nat
  BY <1>12, QueueLength
<1>14. PICK T : Chain(T)
  BY DEF SlotInv
<1>15. PICK Q : Q = T[i]
  OBVIOUS
<1>16. PICK n0, n1, b0, b1 : n0 = N[f] /\ n1 = N[i] /\ b0 = B[f] /\ b1 = B[i]
  OBVIOUS
<1>17. Rowing(i, e, g, n0, n1, b0, b1, Q, K)
  BY <1>2, <1>4, <1>12, <1>14, <1>15, <1>16, RowingParts
<1>18. slotOf[OutputRank] = T[m] /\ \A j \in 1 .. m : steps[j].chosen[OutputRank] = SeatsOf(T[j], steps[j].reqs)
  BY <1>1, <1>14, OutputTable
<1>19. ASSUME NEW r \in ReqId, Live(r)
       PROVE  Holds(b0[r], n0[r], K) /\ Holds(b1[r], n1[r], K) /\ CacheHolds(b0[r], n0[r], r)
  <2>1. f \in f .. Len(steps) /\ i \in f .. Len(steps)
    BY <1>2, <1>5
  <2>2. Holds(B[f][r], N[f][r], engine.blocks) /\ Holds(B[i][r], N[i][r], engine.blocks)
    BY <1>1, <1>19, <2>1 DEF Room
  <2>3. CacheHolds(B[f][r], N[f][r], r)
    BY <1>1, <1>19 DEF Cache
  <2> QED BY <1>12, <1>16, <2>2, <2>3
<1>20. ASSUME NEW r \in ReqId, Live(r), Q[r] # NoSlot, Ready(Q[r], r, g[r], n0[r])
       PROVE  Ready(Q[r], r, g[r], n1[r])'
  <2>1. Holds(b0[r], n0[r], K) /\ CacheHolds(b0[r], n0[r], r)
    BY <1>19, <1>20
  <2>2. RunsStep(i, e, Answered(e)) /\ ~e.read
    BY <1>5
  <2> QED BY <1>17, <1>20, <2>1, <2>2, SlotRuns
<1>21. ASSUME NEW j \in f + 1 .. m, NEW r \in ToSet(steps[j].reqs), Live(r)
       PROVE  /\ j \in 1 .. n /\ j \in 1 .. m /\ r \in ReqId /\ T[j][r] # NoSlot
              /\ steps[j].chosen[OutputRank][r] = T[j][r] /\ Ready(T[j][r], r, g[r], n0[r])
  <2>1. j \in 1 .. n /\ j \in 1 .. m
    BY <1>5
  <2>2. PICK q : q = steps[j]
    OBVIOUS
  <2>3. ToSet(q.reqs) \subseteq ReqId
    BY <1>2, <2>1, <2>2, KnownStep
  <2>4. PICK P, R : P = T[j - 1] /\ R = T[j]
    OBVIOUS
  <2>5. TableSteps(P, R, q)
    BY <1>2, <1>14, <2>1, <2>2, <2>4, TableStep
  <2>6. R[r] # NoSlot
    BY <1>21, <2>2, <2>5 DEF TableSteps
  <2>7. steps[j].chosen[OutputRank][r] = R[r]
    <3>1. steps[j].chosen[OutputRank] = SeatsOf(T[j], steps[j].reqs)
      BY <1>18, <2>1
    <3> QED BY <1>21, <2>4, <3>1 DEF SeatsOf
  <2>8. \A l \in f + 1 .. m : \A q2 \in ToSet(steps[l].reqs) :
          Live(q2) => Ready(steps[l].chosen[OutputRank][q2], q2, goal[q2], N[f][q2])
    BY <1>1 DEF Device
  <2>9. Ready(steps[j].chosen[OutputRank][r], r, goal[r], N[f][r])
    BY <1>21, <2>8
  <2>10. Ready(R[r], r, g[r], n0[r])
    BY <1>12, <1>16, <2>7, <2>9
  <2> QED BY <1>21, <2>1, <2>2, <2>3, <2>4, <2>6, <2>7, <2>10
<1>22. ASSUME NEW j \in DOMAIN e.reqs, NEW r, r = e.reqs[j], Live(r)
       PROVE  RowExact(e, e.rows[j], r, Q[r], g[r], b1[r], n0[r], n1[r])
  <2>1. r \in ToSet(e.reqs) /\ r \in ReqId
    BY <1>17, <1>22 DEF Rowing, Listed
  <2>2. Ready(T[i][r], r, g[r], n0[r])
    BY <1>5, <1>10, <1>21, <1>22, <2>1
  <2>3. Ready(Q[r], r, g[r], n0[r])
    BY <1>15, <2>2
  <2>4. Holds(b0[r], n0[r], K) /\ CacheHolds(b0[r], n0[r], r)
    BY <1>19, <1>22, <2>1
  <2> QED BY <1>5, <1>17, <1>22, <2>3, <2>4, LiveRow
<1>23. Positions(h, m)'
  <2>1. \A j \in 1 .. h : steps'[j].ran
    <3> TAKE j \in 1 .. h
    <3>1. j \in 1 .. n
      BY <1>10
    <3>2. CASE j = i
      BY <1>9, <3>1, <3>2
    <3>3. CASE j # i /\ j <= i
      <4>1. j \in 1 .. i - 1
        BY <3>3
      <4> QED BY <1>7, <1>9, <3>1, <4>1
    <3>4. CASE ~(j <= i)
      <4>1. h # i
        BY <3>4
      <4>2. h = i + 1 /\ steps[i + 1].ran
        BY <1>6, <4>1 DEF RunTo
      <4>3. j = i + 1
        BY <3>4, <4>2
      <4> QED BY <1>9, <3>1, <4>2, <4>3
    <3> QED BY <3>2, <3>3, <3>4
  <2>2. h < n => ~steps'[h + 1].ran
    <3> SUFFICES ASSUME h < n PROVE ~steps'[h + 1].ran
      OBVIOUS
    <3>1. PICK l \in 1 .. n : l = h + 1 /\ l # i
      BY <1>10
    <3>2. ~steps[l].ran
      BY <1>6, <3>1 DEF RunTo
    <3> QED BY <1>9, <3>1, <3>2
  <2>3. \A j \in 1 .. n : OutputRank \in steps'[j].ranks <=> j <= m
    BY <1>1, <1>2, <1>9 DEF Positions
  <2> QED BY <1>5, <1>10, <2>1, <2>2, <2>3 DEF Positions
<1>24. Orders'
  <2>1. ASSUME NEW j \in 1 .. n
        PROVE  /\ steps'[j].ran => steps'[j].reqs = <<>> \/ (OutputRank \in steps'[j].ranks /\ \A l \in 1 .. j - 1 : steps'[l].ran)
               /\ OutputRank \in steps'[j].ranks => steps'[j].new = <<>> \/ \A l \in 1 .. j - 1 : steps'[l].ran
    <3>1. /\ steps[j].ran => steps[j].reqs = <<>> \/ (OutputRank \in steps[j].ranks /\ \A l \in 1 .. j - 1 : steps[l].ran)
          /\ OutputRank \in steps[j].ranks => steps[j].new = <<>> \/ \A l \in 1 .. j - 1 : steps[l].ran
      BY <1>1, <1>2 DEF Orders
    <3>2. \A l \in 1 .. j - 1 : l \in 1 .. n /\ (steps[l].ran => steps'[l].ran)
      BY <1>2, <1>9
    <3>3. CASE j # i
      BY <1>9, <3>1, <3>2, <3>3
    <3>4. CASE j = i
      <4>1. OutputRank \in steps'[j].ranks
        BY <1>5, <1>7, <3>4 DEF RunnerV2Assumption
      <4>2. \A l \in 1 .. j - 1 : steps'[l].ran
        BY <1>7, <3>2, <3>4
      <4> QED BY <4>1, <4>2
    <3> QED BY <3>3, <3>4
  <2>2. Timely(steps', n)
    BY <2>1 DEF Timely
  <2> QED BY <1>1, <1>2, <1>5, <1>7, <1>9, <2>2, OrdersFramed
<1>25. Results(N)'
  <2> SUFFICES ASSUME NEW j \in 1 .. n, steps'[j].ran PROVE Gives(steps'[j], goal', N[j], Lives')
    BY <1>5 DEF Results
  <2>1. CASE j # i
    <3>1. Gives(steps[j], goal, N[j], Lives)
      BY <1>1, <1>2, <1>9, <2>1 DEF Results
    <3> QED BY <1>5, <1>7, <1>11, <2>1, <3>1
  <2>2. CASE j = i
    <3>1. DOMAIN out = DOMAIN e.reqs /\ DOMAIN e.rows = DOMAIN e.reqs
      BY <1>5, <1>17 DEF Answered, Rowing, Operands
    <3>2. ASSUME NEW l \in DOMAIN e.reqs, NEW r, r = e.reqs[l], r \in Lives
          PROVE  out[l] = <<r, n1[r] + 1>>
      <4>1. Live(r)
        BY <3>2 DEF Lives
      <4>2. Sampled(e, e.rows[l]) = <<r, n1[r] + 1>>
        BY <1>22, <3>2, <4>1 DEF RowExact
      <4>3. out[l] = Sampled(e, e.rows[l])
        BY <1>5, <3>1 DEF Answered
      <4> QED BY <4>2, <4>3
    <3>3. d.reqs = e.reqs /\ d.out = out /\ ~d.read
      BY <1>5 DEF Carries
    <3>4. Gives(d, g, n1, Lives)
      BY <3>1, <3>2, <3>3 DEF Gives
    <3> QED BY <1>5, <1>7, <1>11, <1>12, <1>16, <2>2, <3>4
  <2> QED BY <2>1, <2>2
<1>26. \A r \in ReqId : Seat(r)' = Seat(r)
  BY <1>7 DEF Seat
<1>27. ASSUME NEW r \in ReqId PROVE Stays(r, m)' <=> Stays(r, m)
  <2>1. \A j \in m + 1 .. n : j \in 1 .. n
    BY <1>5
  <2>2. m < n => m + 1 \in 1 .. n
    BY <1>5
  <2>3. Len(steps') = n
    BY <1>5
  <2> QED BY <1>2, <1>9, <1>26, <2>1, <2>2, <2>3 DEF Stays
<1>28. HostRows(B, m)'
  <2>1. /\ DOMAIN blockRow = Slots /\ DOMAIN prefillLen = Slots
        /\ \A s \in Slots : (\A r \in ReqId : Seat(r) # s) => blockRow[s] = <<>>
        /\ \A r \in ReqId : Stays(r, m) => blockRow[Seat(r)] = B[m][r] /\ prefillLen[Seat(r)] = goal[r]
        /\ \A j \in 1 .. m : ~steps[j].read => Operands(steps[j], B[j], goal)
    BY <1>1 DEF HostRows
  <2>2. ASSUME NEW j \in 1 .. m, ~steps'[j].read PROVE Operands(steps'[j], B[j], goal')
    <3>1. j \in 1 .. n
      BY <1>5
    <3>2. CASE j # i
      BY <1>5, <1>7, <2>1, <2>2, <3>1, <3>2
    <3>3. CASE j = i
      <4>1. d.rows = e.rows
        <5>1. steps' = [steps EXCEPT ![i].ran = TRUE, ![i].out = out] /\ DOMAIN steps = 1 .. n
          BY <1>2, <1>5, QueueLength DEF RunsStep
        <5>2. StepParts \subseteq DOMAIN steps[i] /\ "rows" \in StepParts
          BY <1>8 DEF StepParts
        <5>3. steps'[i] = [steps[i] EXCEPT !.ran = TRUE, !.out = out]
          BY <5>1
        <5> QED BY <1>5, <5>2, <5>3
      <4>2. Operands(e, b1, g)
        BY <1>17 DEF Rowing
      <4>3. d.reqs = e.reqs /\ d.prompt = e.prompt /\ d.at = e.at /\ d.size = e.size /\ d.chosen = e.chosen
        BY <1>5 DEF Carries
      <4>5. \A r, s, b, u : RowFor(d, r, s, b, u) = RowFor(e, r, s, b, u)
        BY <4>3 DEF RowFor
      <4>4. Operands(d, b1, g)
        BY <4>1, <4>2, <4>3, <4>5 DEF Operands
      <4> QED BY <1>5, <1>7, <1>12, <1>16, <3>3, <4>4
    <3> QED BY <3>2, <3>3
  <2>3. \A r \in ReqId : Stays(r, m)' => blockRow'[Seat(r)'] = B[m][r] /\ prefillLen'[Seat(r)'] = goal'[r]
    BY <1>7, <1>26, <1>27, <2>1
  <2>4. \A s \in Slots : (\A r \in ReqId : Seat(r)' # s) => blockRow'[s] = <<>>
    BY <1>7, <1>26, <2>1
  <2> HIDE DEF Seat
  <2> QED BY <1>7, <2>1, <2>2, <2>3, <2>4 DEF HostRows
<1>29. ASSUME NEW r \in ReqId
       PROVE  \/ N[h][r] = n1[r] /\ B[h][r] = b1[r]
              \/ h = i + 1 /\ i + 1 \in 1 .. n /\ r \in steps[i + 1].preempted /\ N[h][r] = 0
  <2>1. \/ N[h][r] = N[i][r] /\ B[h][r] = B[i][r]
        \/ h = i + 1 /\ i + 1 \in 1 .. n /\ r \in steps[i + 1].preempted /\ N[h][r] = 0
    <3>1. Past(N, B, h, i, n, r)
      BY <1>1, <1>2, <1>6, RunPast
    <3> QED BY <3>1 DEF Past
  <2> QED BY <1>16, <2>1
<1>30. Cache(N, B, h)'
  <2>1. DOMAIN kv = 0 .. (K + 1) * BlockSize - 1 /\ DOMAIN kv' = DOMAIN kv
    BY <1>1, <1>5, <1>12 DEF Cache, RunsStep
  <2>2. \A r \in ReqId : Live(r)' <=> Live(r)
    BY <1>7 DEF Live
  <2>3. Computing(e, g, n0, n1, b1, K)
    <3>1. ASSUME NEW j \in DOMAIN e.reqs, NEW q, q = e.reqs[j]
          PROVE  /\ e.rows[j].at = n0[q] /\ e.rows[j].len = n1[q] - n0[q]
                 /\ e.rows[j].table = b1[q] /\ Holds(b1[q], n1[q], K)
      <4>1. q \in ToSet(e.reqs) /\ q \in ReqId
        BY <1>17, <3>1 DEF Rowing, Listed
      <4>2. Computes(e, q, g[q], n0[q], n1[q], b0[q], b1[q])
        BY <1>5, <1>17, <4>1 DEF Rowing, Formed
      <4>3. PICK x \in Nat, y \in Nat : x = n0[q] /\ y = n1[q]
        BY <1>17, <4>1 DEF Rowing
      <4>4. PICK k \in Nat : k = e.size[q]
        BY <4>2 DEF Computes
      <4>5. e.at[q] = x /\ y = x + k
        BY <4>2, <4>3, <4>4 DEF Computes
      <4>6. e.rows[j] = RowFor(e, q, e.chosen[OutputRank][q], b1[q], g[q])
        BY <1>17, <3>1 DEF Rowing, Operands
      <4>7. e.rows[j].at = x /\ e.rows[j].len = k /\ e.rows[j].table = b1[q]
        BY <4>4, <4>5, <4>6 DEF RowFor
      <4>8. k = y - x
        BY <4>5
      <4>9. Holds(b1[q], n1[q], K)
        BY <1>17, <4>1 DEF Rowing
      <4> QED BY <4>3, <4>7, <4>8, <4>9
    <3> QED BY <1>17, <3>1 DEF Computing, Rowing, Operands
  <2>4. ASSUME NEW r \in ReqId, Live(r) PROVE CacheHolds(b1[r], n1[r], r)'
    <3>1. Holds(b0[r], n0[r], K) /\ Holds(b1[r], n1[r], K) /\ CacheHolds(b0[r], n0[r], r)
      BY <1>19, <2>4
    <3>2. \A q \in ToSet(e.reqs) : q # r => ToSet(b1[q]) \cap ToSet(b1[r]) = {}
      <4> TAKE q \in ToSet(e.reqs)
      <4>1. q \in ReqId /\ i \in f + 1 .. Len(steps) /\ q \in ToSet(steps[i].reqs)
        <5>1. q \in ReqId
          BY <1>2, <1>5, KnownStep
        <5>2. i \in f + 1 .. Len(steps)
          BY <1>2, <1>5
        <5> QED BY <1>5, <5>1, <5>2
      <4>2. q # r => ToSet(B[i][q]) \cap ToSet(B[i][r]) = {}
        BY <1>1, <2>4, <4>1 DEF Room
      <4> QED BY <1>16, <4>2
    <3>3. PICK s : s = Q[r]
      OBVIOUS
    <3>4. \A j \in DOMAIN e.reqs : e.reqs[j] = r => RowExact(e, e.rows[j], r, s, g[r], b1[r], n0[r], n1[r])
      BY <1>22, <2>4, <3>3
    <3>5. Formed(e, g, n0, n1, b0, b1) /\ ~e.read
      BY <1>5, <1>17 DEF Rowing
    <3> QED BY <1>5, <2>1, <2>3, <3>1, <3>2, <3>4, <3>5, CacheRuns
  <2>5. ASSUME NEW r \in ReqId, Live(r)' PROVE CacheHolds(B[h][r], N[h][r], r)'
    <3>1. CASE N[h][r] = n1[r] /\ B[h][r] = b1[r]
      BY <2>2, <2>4, <2>5, <3>1
    <3>2. CASE N[h][r] = 0
      BY <3>2 DEF CacheHolds
    <3> QED BY <1>29, <3>1, <3>2
  <2>6. DOMAIN kv' = 0 .. (engine'.blocks + 1) * BlockSize - 1
    BY <1>7, <1>12, <2>1
  <2> QED BY <2>5, <2>6 DEF Cache
<1>31. Device(N, h, m)'
  <2>1. \A r \in ReqId : Live(r)' <=> Live(r)
    BY <1>7 DEF Live
  <2>2. ASSUME NEW j \in i .. m, NEW r \in ReqId, Live(r), T[j][r] # NoSlot,
               Ready(T[j][r], r, g[r], n0[r])
        PROVE  Ready(T[j][r], r, g[r], n1[r])' /\ (j = i + 1 => r \notin steps[i + 1].preempted)
    <3>1. T[i][r] = T[j][r] /\ (j = i + 1 => r \notin steps[i + 1].preempted)
      <4>1. ~steps[i].ran
        BY <1>5
      <4>2. Since(T, i, j, r)
        BY <1>1, <1>2, <1>14, <2>2, <4>1, SeatedSince
      <4> QED BY <4>2 DEF Since
    <3>2. Q[r] # NoSlot /\ Ready(Q[r], r, g[r], n0[r])
      BY <1>15, <2>2, <3>1
    <3>3. Ready(Q[r], r, g[r], n1[r])'
      BY <1>20, <2>2, <3>2
    <3>4. T[j][r] = Q[r]
      BY <1>15, <3>1
    <3> QED BY <3>1, <3>3, <3>4
  <2>3. ASSUME NEW j \in h + 1 .. m, NEW r \in ToSet(steps'[j].reqs), Live(r)'
        PROVE  Ready(steps[j].chosen[OutputRank][r], r, goal[r], N[h][r])'
    <3>0. j \in f + 1 .. m /\ j \in i .. m /\ j \in 1 .. n /\ j # i
      <4>1. h \in Int /\ i <= h /\ f < i /\ f \in Int /\ i \in Int /\ m \in Int /\ m <= n /\ 0 <= f
        BY <1>5, <1>10
      <4>2. j \in Int /\ h + 1 <= j /\ j <= m
        BY <4>1
      <4> QED BY <4>1, <4>2
    <3>1. r \in ToSet(steps[j].reqs)
      BY <1>9, <3>0
    <3>2. /\ r \in ReqId /\ T[j][r] # NoSlot
          /\ steps[j].chosen[OutputRank][r] = T[j][r] /\ Ready(T[j][r], r, g[r], n0[r])
      <4>1. Live(r)
        BY <1>7, <2>3 DEF Live
      <4> QED BY <1>21, <3>0, <3>1, <4>1
    <3>3. h = i
      <4>0. \A z \in 0 .. 2 : z \in Int /\ z <= 2
        OBVIOUS
      <4>1. n \in Int /\ n <= 2 /\ 1 <= i /\ i \in Int
        <5>1. n \in Int /\ n <= 2
          BY <4>0
        <5> QED BY <5>1
      <4>2. h + 1 <= n
        BY <3>0, <1>10
      <4>3. h # i + 1
        BY <4>1, <4>2
      <4> QED BY <1>6, <4>3 DEF RunTo
    <3>4. N[h][r] = n1[r]
      BY <1>16, <3>3
    <3>5. Ready(T[j][r], r, g[r], n1[r])'
      BY <2>1, <2>2, <2>3, <3>0, <3>2
    <3>6. steps'[j].chosen[OutputRank][r] = T[j][r] /\ goal'[r] = g[r]
      BY <1>7, <1>9, <1>12, <3>0, <3>2
    <3> QED BY <3>4, <3>5, <3>6
  <2>4. ASSUME NEW r \in ReqId, Live(r)', Stays(r, m)' PROVE Ready(Seat(r), r, goal[r], N[h][r])'
    <3>1. Seat(r) = T[m][r] /\ Live(r) /\ Stays(r, m)
      BY <1>18, <1>27, <2>1, <2>4 DEF Seat
    <3>2. T[m][r] # NoSlot /\ m \in i .. m
      BY <1>5, <3>1 DEF Stays
    <3>3. Ready(T[m][r], r, g[r], n0[r])
      BY <1>1, <1>12, <1>16, <3>1 DEF Device
    <3>4. Ready(T[m][r], r, g[r], n1[r])' /\ (m = i + 1 => r \notin steps[i + 1].preempted)
      BY <2>2, <3>1, <3>2, <3>3
    <3>5. N[h][r] = n1[r]
      <4> SUFFICES ASSUME h = i + 1, i + 1 \in 1 .. n, r \in steps[i + 1].preempted PROVE FALSE
        BY <1>29
      <4>1. m # i + 1
        BY <3>4
      <4>2. m = i /\ n = i + 1
        BY <1>5, <4>1
      <4>3. steps[i + 1].reqs = <<>>
        BY <1>6 DEF RunTo
      <4>4. r \notin ToSet(steps[i + 1].reqs)
        BY <4>3, EmptyList
      <4>5. i + 1 \in m + 1 .. Len(steps)
        BY <1>2, <4>2
      <4> QED BY <3>1, <4>2, <4>4, <4>5 DEF Stays
    <3>6. Seat(r)' = T[m][r] /\ goal'[r] = g[r]
      BY <1>7, <1>12, <1>26, <3>1
    <3> QED BY <3>4, <3>5, <3>6
  <2>5. /\ DOMAIN history' = Slots /\ DOMAIN computedBy' = Slots
        /\ DOMAIN lastToken' = Slots /\ DOMAIN carry' = Slots
    BY <1>5 DEF RunsStep
  <2> QED BY <2>3, <2>4, <2>5 DEF Device
<1> QED BY <1>11, <1>23, <1>24, <1>25, <1>28, <1>30, <1>31 DEF Ledger

(* The oldest step is delivered to the requests that take its tokens, of whom *)
(* some are over.                                                          *)
PlaceOf(e, r) == CHOOSE j \in DOMAIN e.reqs : e.reqs[j] = r
(* The requests that take a token of the step. *)
Takers(e) == {r \in ToSet(e.reqs) : stage[r] # "finished" /\ e.out[PlaceOf(e, r)] # <<>>}
(* A delivery, with those that end by it. *)
Delivering(n, e, over) ==
  /\ n = Len(steps) /\ n \in 1 .. 2 /\ e = steps[1] /\ e.read
  /\ over \subseteq Takers(e) /\ Takers(e) \subseteq ReqId /\ Takers(e) \subseteq ToSet(e.reqs)
  /\ Len(steps') = n - 1 /\ \A i \in 1 .. n - 1 : steps'[i] = steps[i + 1]
  /\ texts' = [r \in ReqId |-> IF r \in Takers(e) THEN texts[r] \o e.out[PlaceOf(e, r)]
                               ELSE texts[r]]
  /\ stage' = [r \in ReqId |-> IF r \in over THEN "finished" ELSE stage[r]]
  /\ blocks' = [r \in ReqId |-> IF r \in over THEN <<>> ELSE blocks[r]]
  /\ UNCHANGED <<engine, counted, goal, slotOf, blockRow, prefillLen, deviceState>>

(* Deliver is one. *)
LEMMA DeliveringParts ==
  ASSUME RunnerV2Assumption, SlotInv, Deliver
  PROVE  \E over : Delivering(Len(steps), steps[1], over)
<1>1. PICK n \in 0 .. 2 : n = Len(steps)
  BY QueueLength
<1>2. PICK e : e = steps[1]
  OBVIOUS
<1>3. PICK over \in SUBSET Takers(e) :
        /\ texts' = [r \in ReqId |-> IF r \in Takers(e) THEN texts[r] \o e.out[PlaceOf(e, r)]
                                     ELSE texts[r]]
        /\ stage' = [r \in ReqId |-> IF r \in over THEN "finished" ELSE stage[r]]
        /\ blocks' = [r \in ReqId |-> IF r \in over THEN <<>> ELSE blocks[r]]
  <2> DEFINE row(r) == CHOOSE j \in DOMAIN steps[1].reqs : steps[1].reqs[j] = r
             takes == {r \in ToSet(steps[1].reqs) :
                         stage[r] # "finished" /\ steps[1].out[row(r)] # <<>>}
             full == {r \in takes : Len(texts[r]) + 1 \in {PromptLen[r] + OutputLimit[r], ModelLen}}
  <2>1. PICK eos \in SUBSET (takes \ full) :
          /\ texts' = [r \in ReqId |-> IF r \in takes THEN texts[r] \o steps[1].out[row(r)]
                                       ELSE texts[r]]
          /\ stage' = [r \in ReqId |-> IF r \in full \cup eos THEN "finished" ELSE stage[r]]
          /\ blocks' = [r \in ReqId |-> IF r \in full \cup eos THEN <<>> ELSE blocks[r]]
    BY DEF Deliver
  <2>2. PICK over : over = full \cup eos
    OBVIOUS
  <2>3. takes = Takers(e) /\ \A r : row(r) = PlaceOf(e, r)
    BY <1>2 DEF Takers, PlaceOf
  <2>4. full \subseteq takes
    OBVIOUS
  <2> HIDE DEF full, takes, row
  <2>5. over \in SUBSET Takers(e)
    BY <2>2, <2>3, <2>4
  <2>6. texts' = [r \in ReqId |-> IF r \in Takers(e) THEN texts[r] \o e.out[PlaceOf(e, r)]
                                  ELSE texts[r]]
    BY <1>2, <2>1, <2>3
  <2>7. /\ stage' = [r \in ReqId |-> IF r \in over THEN "finished" ELSE stage[r]]
        /\ blocks' = [r \in ReqId |-> IF r \in over THEN <<>> ELSE blocks[r]]
    BY <2>1, <2>2
  <2> QED BY <2>5, <2>6, <2>7
<1>4. /\ steps # <<>> /\ e.read /\ steps' = Tail(steps)
      /\ UNCHANGED <<engine, counted, goal, slotOf, blockRow, prefillLen, deviceState>>
  BY <1>2 DEF Deliver
<1>5. /\ n >= 1 /\ Len(steps') = n - 1 /\ \A i \in 1 .. n - 1 : steps'[i] = steps[i + 1]
  <2>1. IsList(steps)
    BY QueueLength
  <2> QED BY <1>1, <1>4, <2>1, ListTail
<1>6. n \in 1 .. 2
  BY <1>5
<1>7. Takers(e) \subseteq ReqId /\ Takers(e) \subseteq ToSet(e.reqs)
  <2>1. 1 \in 1 .. Len(steps)
    BY <1>1, <1>6
  <2>2. ToSet(e.reqs) \subseteq ReqId
    BY <1>2, <2>1, KnownStep
  <2> QED BY <2>2 DEF Takers
<1>8. Delivering(n, e, over)
  BY <1>1, <1>2, <1>3, <1>4, <1>5, <1>6, <1>7 DEF Delivering
<1> QED BY <1>1, <1>2, <1>8

(* A live request takes a token exactly when the step yields one, and it is    *)
(* its next.                                                               *)
LEMMA TextsDelivered ==
  ASSUME RunnerV2Assumption, SlotInv, NEW N, NEW B, NEW f, NEW m, Ledger(N, B, f, m),
         NEW n, NEW e, NEW over, Delivering(n, e, over), NEW r, r \in ReqId
  PROVE  /\ Len(texts'[r]) \in Nat \ {0} /\ texts'[r] = Text(r, Len(texts'[r]))
         /\ Live(r) => Len(texts'[r]) = Len(texts[r]) + Owed(N, 1, r)
<1>1. Ghosts(N, B) /\ Positions(f, m) /\ Orders /\ PlanAgrees(N, B) /\ Answers(N) /\ Results(N)
  BY DEF Ledger
<1>2. /\ n = Len(steps) /\ n \in 1 .. 2 /\ e = steps[1] /\ e.read
      /\ texts'[r] = IF r \in Takers(e) THEN texts[r] \o e.out[PlaceOf(e, r)] ELSE texts[r]
  BY DEF Delivering
<1>3. 1 \in 1 .. Len(steps) /\ 1 \in 0 .. Len(steps) /\ 1 <= Len(steps)
  BY <1>2
<1>4. PICK k \in Nat \ {0} : k = Len(texts[r]) /\ texts[r] = Text(r, k)
  BY <1>1 DEF Answers
<1>5. PICK y \in Nat, z \in Nat : y = N[1][r] /\ z = goal[r]
  BY <1>1, <1>3 DEF Ghosts, PlanAgrees
<1>6. Yields(N, 1, r) <=> r \in ToSet(e.reqs) /\ y >= z
  BY <1>2, <1>3, <1>5 DEF Yields
<1>7. Gives(e, goal, N[1], Lives)
  <2>1. e.ran
    <3>1. Told
      BY DEF SlotInv
    <3> QED BY <1>2, <1>3, <3>1 DEF Told
  <2> QED BY <1>1, <1>2, <1>3, <2>1 DEF Results
<1>8. ASSUME r \in ToSet(e.reqs), Live(r)
      PROVE  /\ y >= z => e.out[PlaceOf(e, r)] = <<<<r, y + 1>>>>
             /\ y < z => e.out[PlaceOf(e, r)] = <<>>
  <2>1. e.reqs \in Seq(ReqId)
    BY <1>2, <1>3, KnownStep
  <2>2. \E j \in DOMAIN e.reqs : e.reqs[j] = r
    BY <1>8, <2>1, ListPlaces DEF Listed
  <2>3. PICK j : j = PlaceOf(e, r)
    OBVIOUS
  <2>4. j \in DOMAIN e.reqs /\ e.reqs[j] = r
    BY <2>2, <2>3 DEF PlaceOf
  <2>5. r \in Lives
    BY <1>8 DEF Lives
  <2>6. /\ N[1][r] >= goal[r] => e.out[j] = <<<<r, N[1][r] + 1>>>>
        /\ N[1][r] < goal[r] => e.out[j] = <<>>
    BY <1>2, <1>7, <2>4, <2>5 DEF Gives
  <2> QED BY <1>5, <2>3, <2>6
<1>9. CASE r \in Takers(e)
  <2>1. r \in ToSet(e.reqs) /\ Live(r) /\ e.out[PlaceOf(e, r)] # <<>>
    BY <1>9 DEF Takers, Live
  <2>2. y >= z
    BY <1>8, <2>1
  <2>3. y = k
    BY <1>1, <1>4, <1>5, <1>6, <2>1, <2>2 DEF Answers
  <2>4. e.out[PlaceOf(e, r)] = <<<<r, k + 1>>>>
    BY <1>8, <2>1, <2>2, <2>3
  <2>5. texts'[r] = Text(r, k + 1)
    <3>1. Text(r, k) \o <<<<r, k + 1>>>> = Text(r, k + 1)
      BY Texts
    <3> QED BY <1>2, <1>4, <1>9, <2>4, <3>1
  <2>6. Len(Text(r, k + 1)) = k + 1
    <3>1. k + 1 \in Nat
      OBVIOUS
    <3> QED BY <3>1, Texts
  <2>7. Owed(N, 1, r) = 1
    BY <1>6, <2>1, <2>2 DEF Owed
  <2>8. Len(texts'[r]) = k + 1
    BY <2>5, <2>6
  <2>9. k + 1 \in Nat \ {0}
    OBVIOUS
  <2>10. texts'[r] = Text(r, Len(texts'[r])) /\ Len(texts'[r]) \in Nat \ {0}
    BY <2>5, <2>8, <2>9
  <2>11. Len(texts'[r]) = Len(texts[r]) + Owed(N, 1, r)
    BY <1>4, <2>7, <2>8
  <2> QED BY <2>10, <2>11
<1>10. CASE r \notin Takers(e)
  <2>1. texts'[r] = texts[r]
    BY <1>2, <1>10
  <2>2. ASSUME Live(r) PROVE Owed(N, 1, r) = 0
    <3>1. ~(r \in ToSet(e.reqs) /\ y >= z)
      <4> SUFFICES ASSUME r \in ToSet(e.reqs), y >= z PROVE FALSE
        OBVIOUS
      <4>1. PICK x : x = <<r, y + 1>>
        OBVIOUS
      <4>2. e.out[PlaceOf(e, r)] = <<x>>
        BY <1>8, <2>2, <4>1
      <4>3. <<x>> # <<>>
        OBVIOUS
      <4>4. stage[r] # "finished"
        BY <2>2 DEF Live
      <4> QED BY <1>10, <4>2, <4>3, <4>4 DEF Takers
    <3> QED BY <1>6, <3>1 DEF Owed
  <2>3. Live(r) => k = k + Owed(N, 1, r)
    BY <2>2
  <2> QED BY <1>4, <2>1, <2>3
<1> QED BY <1>9, <1>10

(* The oldest step leaves the queue.                                        *)
LEMMA DeliverLedger ==
  ASSUME RunnerV2Assumption, SlotInv, NEW N, NEW B, NEW f, NEW m, Ledger(N, B, f, m), Deliver
  PROVE  \E N2, B2, f2, m2 : Ledger(N2, B2, f2, m2)'
<1>1. /\ Ghosts(N, B) /\ Positions(f, m) /\ Orders
      /\ Shapes(N, B) /\ PlanAgrees(N, B) /\ Room(N, B, f)
      /\ Answers(N) /\ Results(N)
      /\ HostRows(B, m) /\ Cache(N, B, f) /\ Device(N, f, m)
  BY DEF Ledger
<1>2. PICK n, e : n = Len(steps) /\ e = steps[1]
  OBVIOUS
<1>3. PICK over : Delivering(n, e, over)
  BY <1>2, DeliveringParts
<1>4. /\ n \in 1 .. 2 /\ e.read
      /\ over \subseteq Takers(e) /\ Takers(e) \subseteq ReqId /\ Takers(e) \subseteq ToSet(e.reqs)
      /\ Len(steps') = n - 1 /\ \A i \in 1 .. n - 1 : steps'[i] = steps[i + 1]
      /\ texts' = [r \in ReqId |-> IF r \in Takers(e) THEN texts[r] \o e.out[PlaceOf(e, r)]
                                   ELSE texts[r]]
      /\ stage' = [r \in ReqId |-> IF r \in over THEN "finished" ELSE stage[r]]
      /\ blocks' = [r \in ReqId |-> IF r \in over THEN <<>> ELSE blocks[r]]
      /\ engine' = engine /\ counted' = counted /\ goal' = goal /\ slotOf' = slotOf
      /\ blockRow' = blockRow /\ prefillLen' = prefillLen
      /\ history' = history /\ computedBy' = computedBy /\ lastToken' = lastToken
      /\ carry' = carry /\ kv' = kv
  BY <1>3 DEF Delivering, deviceState
<1>5. PICK l \in 0 .. 1 : l = n - 1
  BY <1>4
<1>6. /\ n = l + 1 /\ n \in Int /\ l \in Int /\ Len(steps') = l
      /\ \A i \in 1 .. l : i + 1 \in 1 .. n /\ steps'[i] = steps[i + 1]
      /\ \A i \in 0 .. l : i + 1 \in 0 .. n
  BY <1>4, <1>5
<1>7. f \in 1 .. n /\ m \in 1 .. n
  <2>1. Told
    BY DEF SlotInv
  <2>2. 1 \in 1 .. n
    BY <1>4
  <2>3. e.ran /\ e.ranks = TpRank
    BY <1>2, <1>4, <2>1, <2>2 DEF Told
  <2>4. OutputRank \in e.ranks
    BY <2>3 DEF RunnerV2Assumption
  <2>5. 1 <= m
    BY <1>1, <1>2, <2>2, <2>4 DEF Positions
  <2>6. f # 0
    <3> SUFFICES ASSUME f = 0 PROVE FALSE
      OBVIOUS
    <3>1. f < Len(steps) /\ f + 1 = 1
      BY <1>2, <2>2
    <3>2. ~steps[1].ran
      BY <1>1, <3>1 DEF Positions
    <3> QED BY <1>2, <2>3, <3>2
  <2>7. f \in 0 .. n /\ m \in 0 .. n
    BY <1>1, <1>2 DEF Positions
  <2> QED BY <2>5, <2>6, <2>7
<1>8. PICK a \in 0 .. l, b \in 0 .. l : a = f - 1 /\ b = m - 1
  BY <1>6, <1>7
<1>9. a + 1 = f /\ b + 1 = m
  BY <1>7, <1>8
<1>10. PICK N2, B2 : N2 = [i \in 0 .. l |-> N[i + 1]] /\ B2 = [i \in 0 .. l |-> B[i + 1]]
  OBVIOUS
<1>11. \A i \in 0 .. l : N2[i] = N[i + 1] /\ B2[i] = B[i + 1]
  BY <1>10
<1>12. \A r \in ReqId : Live(r)' => Live(r) /\ r \notin over /\ stage'[r] = stage[r] /\ blocks'[r] = blocks[r]
  BY <1>4 DEF Live
<1>13. Ghosts(N2, B2)'
  <2>1. \A i \in 0 .. l : N[i + 1] \in [ReqId -> Nat] /\ B[i + 1] \in [ReqId -> Seq(Nat)]
    BY <1>1, <1>2, <1>6 DEF Ghosts
  <2> QED BY <1>6, <1>10, <2>1 DEF Ghosts
<1>14. Positions(a, b)'
  <2>1. \A i \in 1 .. a : i \in 1 .. l /\ i + 1 \in 1 .. f
    BY <1>7, <1>8
  <2>2. \A i \in 1 .. a : steps'[i].ran
    BY <1>1, <1>6, <2>1 DEF Positions
  <2>3. a < l => ~steps'[a + 1].ran
    <3> SUFFICES ASSUME a < l PROVE ~steps'[a + 1].ran
      OBVIOUS
    <3>1. PICK i \in 1 .. l : i = a + 1
      BY <1>8
    <3>2. i = f /\ f < n
      BY <1>6, <1>9, <3>1
    <3>3. ~steps[f + 1].ran
      BY <1>1, <1>2, <3>2 DEF Positions
    <3> QED BY <1>6, <3>1, <3>2, <3>3
  <2>4. ASSUME NEW i \in 1 .. l PROVE OutputRank \in steps'[i].ranks <=> i <= b
    <3>1. OutputRank \in steps[i + 1].ranks <=> i + 1 <= m
      BY <1>1, <1>2, <1>6 DEF Positions
    <3>2. i + 1 <= m <=> i <= b
      BY <1>7, <1>8
    <3> QED BY <1>6, <3>1, <3>2
  <2> QED BY <1>6, <2>2, <2>3, <2>4 DEF Positions
<1>15. Orders'
  <2> SUFFICES ASSUME NEW i \in 1 .. l
               PROVE  LET s == steps'[i] IN
                      /\ StepParts \subseteq DOMAIN s /\ IsInjective(s.reqs) /\ s.prompt \in BOOLEAN
                      /\ s.ran => s.reqs = <<>> \/ (OutputRank \in s.ranks /\ \A j \in 1 .. i - 1 : steps'[j].ran)
                      /\ OutputRank \in s.ranks => s.new = <<>> \/ \A j \in 1 .. i - 1 : steps'[j].ran
                      /\ \A q \in s.finished : ~Live(q)'
                      /\ \A q \in ToSet(s.reqs) : \/ stage'[q] \in {"running", "finished"}
                                                  \/ \E j \in i + 1 .. l : q \in steps'[j].preempted
                      /\ \A q \in ReqId : stage'[q] \in {"new", "loaded"} => q \notin ToSet(s.reqs) /\ q \notin s.preempted
    BY <1>6 DEF Orders
  <2>1. PICK s, k : s = steps'[i] /\ k = i + 1
    OBVIOUS
  <2>2. s = steps[k] /\ k \in 1 .. n /\ k - 1 = i
    BY <1>6, <2>1
  <2>3. /\ StepParts \subseteq DOMAIN s /\ IsInjective(s.reqs) /\ s.prompt \in BOOLEAN
        /\ s.ran => s.reqs = <<>> \/ (OutputRank \in s.ranks /\ \A j \in 1 .. k - 1 : steps[j].ran)
        /\ OutputRank \in s.ranks => s.new = <<>> \/ \A j \in 1 .. k - 1 : steps[j].ran
        /\ \A q \in s.finished : ~Live(q)
        /\ \A q \in ToSet(s.reqs) : \/ stage[q] \in {"running", "finished"}
                                    \/ \E j \in k + 1 .. n : q \in steps[j].preempted
        /\ \A q \in ReqId : stage[q] \in {"new", "loaded"} => q \notin ToSet(s.reqs) /\ q \notin s.preempted
    BY <1>1, <1>2, <2>2 DEF Orders
  <2>4. s.finished \subseteq ReqId /\ ToSet(s.reqs) \subseteq ReqId
    BY <1>2, <2>2, KnownStep
  <2>5. \A j \in 1 .. i - 1 : j \in 1 .. l /\ j + 1 \in 1 .. k - 1
    BY <2>2
  <2>6. (\A j \in 1 .. k - 1 : steps[j].ran) => \A j \in 1 .. i - 1 : steps'[j].ran
    BY <1>6, <2>5
  <2>7. \A q \in ReqId : stage'[q] = "finished" \/ stage'[q] = stage[q]
    BY <1>4
  <2>8. \A q \in s.finished : ~Live(q)'
    BY <1>12, <2>3, <2>4
  <2>9. ASSUME NEW q \in ToSet(s.reqs)
        PROVE  \/ stage'[q] \in {"running", "finished"}
               \/ \E j \in i + 1 .. l : q \in steps'[j].preempted
    <3>1. CASE stage[q] \in {"running", "finished"}
      BY <2>4, <2>7, <3>1
    <3>2. CASE \E j \in k + 1 .. n : q \in steps[j].preempted
      <4>1. PICK j \in k + 1 .. n : q \in steps[j].preempted
        BY <3>2
      <4>2. PICK o \in 1 .. l : o = j - 1
        BY <1>6, <2>2, <4>1
      <4>3. o \in i + 1 .. l /\ o + 1 = j
        BY <2>2, <4>2
      <4>4. q \in steps'[o].preempted
        BY <1>6, <4>1, <4>3
      <4> QED BY <4>3, <4>4
    <3> QED BY <2>3, <3>1, <3>2
  <2>10. \A q \in ReqId : stage'[q] \in {"new", "loaded"} => q \notin ToSet(s.reqs) /\ q \notin s.preempted
    BY <2>3, <2>7
  <2> HIDE DEF Live
  <2> QED BY <2>1, <2>3, <2>6, <2>8, <2>9, <2>10
<1>16. Shapes(N2, B2)'
  <2> SUFFICES ASSUME NEW i \in 1 .. l PROVE Formed(steps'[i], goal', N2[i - 1], N2[i], B2[i - 1], B2[i])
    BY <1>6 DEF Shapes
  <2>1. i - 1 \in 0 .. l /\ i \in 0 .. l /\ i + 1 \in 1 .. n /\ (i + 1) - 1 = i /\ (i - 1) + 1 = i
    BY <1>6
  <2>2. Formed(steps[i + 1], goal, N[(i + 1) - 1], N[i + 1], B[(i + 1) - 1], B[i + 1])
    BY <1>1, <1>2, <2>1 DEF Shapes
  <2>3. Formed(steps[i + 1], goal, N[i], N[i + 1], B[i], B[i + 1])
    BY <2>1, <2>2
  <2>4. N2[i - 1] = N[i] /\ N2[i] = N[i + 1] /\ B2[i - 1] = B[i] /\ B2[i] = B[i + 1]
    BY <1>11, <2>1
  <2> QED BY <1>4, <1>6, <2>3, <2>4
<1>17. PlanAgrees(N2, B2)'
  <2>1. /\ counted \in [ReqId -> Nat] /\ goal \in [ReqId -> Nat]
        /\ blocks \in [ReqId -> Seq(1 .. engine.blocks)]
        /\ \A r \in ReqId : IsInjective(blocks[r]) /\ Settled(r)
        /\ \A r, q \in ReqId : r # q => ToSet(blocks[r]) \cap ToSet(blocks[q]) = {}
        /\ \A r \in ReqId : Live(r) => N[n][r] = counted[r] /\ B[n][r] = blocks[r]
    BY <1>1, <1>2 DEF PlanAgrees
  <2>2. PICK K : K = engine.blocks
    OBVIOUS
  <2>3. <<>> \in Seq(1 .. K) /\ IsInjective(<<>>) /\ ToSet(<<>>) = {}
    BY EmptyList
  <2>4. blocks' \in [ReqId -> Seq(1 .. K)]
    BY <1>4, <2>1, <2>2, <2>3
  <2>5. \A r \in ReqId : blocks'[r] = <<>> \/ blocks'[r] = blocks[r]
    BY <1>4
  <2>6. \A r \in ReqId : IsInjective(blocks'[r])
    BY <2>1, <2>3, <2>5
  <2>7. \A r, q \in ReqId : r # q => ToSet(blocks'[r]) \cap ToSet(blocks'[q]) = {}
    <3> TAKE r, q \in ReqId
    <3>1. CASE blocks'[r] = <<>> \/ blocks'[q] = <<>>
      BY <2>3, <3>1
    <3>2. CASE ~(blocks'[r] = <<>> \/ blocks'[q] = <<>>)
      BY <2>1, <2>5, <3>2
    <3> QED BY <3>1, <3>2
  <2>8. ASSUME NEW r \in ReqId PROVE Settled(r)'
    <3>1. CASE r \in over
      <4>1. stage'[r] = "finished" /\ blocks'[r] = <<>>
        BY <1>4, <3>1
      <4> QED BY <4>1 DEF Settled
    <3>2. CASE r \notin over
      <4>1. stage'[r] = stage[r] /\ blocks'[r] = blocks[r]
        BY <1>4, <3>2
      <4>2. stage[r] \in {"new", "loaded"} => texts'[r] = texts[r]
        <5> SUFFICES ASSUME stage[r] \in {"new", "loaded"} PROVE r \notin Takers(e)
          BY <1>4
        <5>1. 1 \in 1 .. n
          BY <1>4
        <5>2. r \notin ToSet(steps[1].reqs)
          BY <1>1, <1>2, <5>1 DEF Orders
        <5> QED BY <1>2, <1>4, <5>2
      <4> QED BY ZenonT(60), <1>4, <2>1, <4>1, <4>2 DEF Settled
    <3> QED BY <3>1, <3>2
  <2>9. ASSUME NEW r \in ReqId, Live(r)' PROVE N2[l][r] = counted'[r] /\ B2[l][r] = blocks'[r]
    <3>1. N2[l] = N[n] /\ B2[l] = B[n]
      <4>1. l \in 0 .. l
        BY <1>5
      <4> QED BY <1>6, <1>11, <4>1
    <3> QED BY <1>4, <1>12, <2>1, <2>9, <3>1
  <2> HIDE DEF Settled
  <2> QED BY <1>4, <1>6, <2>1, <2>2, <2>4, <2>6, <2>7, <2>8, <2>9 DEF PlanAgrees
<1>18. Room(N2, B2, a)'
  <2>1. /\ \A i \in f .. n, r \in ReqId :
             Live(r) \/ (i > f /\ r \in ToSet(steps[i].reqs)) => Holds(B[i][r], N[i][r], engine.blocks)
        /\ \A i \in f + 1 .. n, r \in ReqId, q \in ReqId :
             r \in ToSet(steps[i].reqs) /\ Live(q) /\ q # r => ToSet(B[i][r]) \cap ToSet(B[i][q]) = {}
    BY <1>1, <1>2 DEF Room
  <2>2. \A i \in a .. l : /\ i \in 0 .. l /\ i + 1 \in f .. n /\ i + 1 \in Int
                          /\ (i > a => i + 1 > f /\ i \in 1 .. l)
    BY SMTT(30), <1>6, <1>8, <1>9
  <2>3. \A i \in a + 1 .. l : i \in 0 .. l /\ i \in 1 .. l /\ i + 1 \in f + 1 .. n
    BY SMTT(30), <1>6, <1>8, <1>9
  <2>4. ASSUME NEW i \in a .. l, NEW r \in ReqId, Live(r)' \/ (i > a /\ r \in ToSet(steps'[i].reqs))
        PROVE  Holds(B2[i][r], N2[i][r], engine'.blocks)
    <3>1. PICK k : k = i + 1
      OBVIOUS
    <3>2. k \in f .. n /\ N2[i] = N[k] /\ B2[i] = B[k] /\ (i > a => k > f /\ steps'[i] = steps[k])
      BY <1>6, <1>11, <2>2, <3>1
    <3>3. Holds(B[k][r], N[k][r], engine.blocks)
      BY <1>12, <2>1, <2>4, <3>2
    <3> QED BY <1>4, <3>2, <3>3
  <2>5. ASSUME NEW i \in a + 1 .. l, NEW r \in ReqId, NEW q \in ReqId,
               r \in ToSet(steps'[i].reqs), Live(q)', q # r
        PROVE  ToSet(B2[i][r]) \cap ToSet(B2[i][q]) = {}
    <3>1. PICK k : k = i + 1
      OBVIOUS
    <3>2. k \in f + 1 .. n /\ B2[i] = B[k] /\ steps'[i] = steps[k]
      BY <1>6, <1>11, <2>3, <3>1
    <3> QED BY <1>12, <2>1, <2>5, <3>2
  <2> QED BY <1>6, <2>4, <2>5 DEF Room
<1>19. \A r \in ReqId : Seat(r)' = Seat(r)
  BY <1>4 DEF Seat
<1>20. ASSUME NEW r \in ReqId PROVE Stays(r, b)' <=> Stays(r, m)
  <2>1. \A j \in b + 1 .. l : j \in 1 .. l /\ j + 1 \in m + 1 .. n
    BY SMTT(30), <1>6, <1>8, <1>9
  <2>2. \A j \in m + 1 .. n : j - 1 \in b + 1 .. l /\ j - 1 \in 1 .. l /\ (j - 1) + 1 = j
    BY <1>6, <1>7, <1>8
  <2>3. (\A j \in b + 1 .. l : r \notin steps'[j].preempted) <=> (\A j \in m + 1 .. n : r \notin steps[j].preempted)
    BY <1>6, <2>1, <2>2
  <2>4. (b < l /\ r \in ToSet(steps'[b + 1].reqs)) <=> (m < n /\ r \in ToSet(steps[m + 1].reqs))
    <3>1. b < l <=> m < n
      BY <1>6, <1>8, <1>9
    <3>2. b < l => b + 1 \in 1 .. l
      BY <1>6, <1>8
    <3>3. b < l => steps'[b + 1] = steps[m + 1]
      BY <1>6, <1>9, <3>2
    <3> QED BY <3>1, <3>3
  <2> QED BY <1>2, <1>6, <1>19, <2>3, <2>4 DEF Stays
<1>21. N2[a] = N[f] /\ B2[a] = B[f] /\ N2[b] = N[m] /\ B2[b] = B[m]
  BY <1>9, <1>11
<1>22. HostRows(B2, b)'
  <2>1. /\ DOMAIN blockRow = Slots /\ DOMAIN prefillLen = Slots
        /\ \A s \in Slots : (\A r \in ReqId : Seat(r) # s) => blockRow[s] = <<>>
        /\ \A r \in ReqId : Stays(r, m) => blockRow[Seat(r)] = B[m][r] /\ prefillLen[Seat(r)] = goal[r]
        /\ \A j \in 1 .. m : ~steps[j].read => Operands(steps[j], B[j], goal)
    BY <1>1 DEF HostRows
  <2>2. ASSUME NEW j \in 1 .. b, ~steps'[j].read PROVE Operands(steps'[j], B2[j], goal')
    <3>1. j \in 1 .. l /\ j \in 0 .. l /\ j + 1 \in 1 .. m
      BY <1>8, <1>9
    <3>2. steps'[j] = steps[j + 1] /\ B2[j] = B[j + 1]
      BY <1>6, <1>11, <3>1
    <3> QED BY <1>4, <2>1, <2>2, <3>1, <3>2
  <2>3. \A r \in ReqId : Stays(r, b)' => blockRow'[Seat(r)'] = B2[b][r] /\ prefillLen'[Seat(r)'] = goal'[r]
    BY <1>4, <1>19, <1>20, <1>21, <2>1
  <2>4. \A s \in Slots : (\A r \in ReqId : Seat(r)' # s) => blockRow'[s] = <<>>
    BY <1>4, <1>19, <2>1
  <2> HIDE DEF Seat
  <2> QED BY <1>4, <2>1, <2>2, <2>3, <2>4 DEF HostRows
<1>23. Cache(N2, B2, a)'
  <2>1. \A r \in ReqId : Live(r) => CacheHolds(B[f][r], N[f][r], r)
    BY <1>1 DEF Cache
  <2>2. ASSUME NEW r \in ReqId, Live(r)' PROVE CacheHolds(B2[a][r], N2[a][r], r)'
    <3>1. CacheHolds(B[f][r], N[f][r], r)
      BY <1>12, <2>1, <2>2
    <3>2. B2[a][r] = B[f][r] /\ N2[a][r] = N[f][r] /\ kv' = kv
      BY <1>4, <1>21
    <3> QED BY <3>1, <3>2 DEF CacheHolds
  <2>3. DOMAIN kv' = 0 .. (engine'.blocks + 1) * BlockSize - 1
    BY <1>1, <1>4 DEF Cache
  <2> QED BY <2>2, <2>3 DEF Cache
<1>24. Device(N2, a, b)'
  <2>1. /\ \A j \in f + 1 .. m : \A r \in ToSet(steps[j].reqs) :
             Live(r) => Ready(steps[j].chosen[OutputRank][r], r, goal[r], N[f][r])
        /\ \A r \in ReqId : Live(r) /\ Stays(r, m) => Ready(Seat(r), r, goal[r], N[f][r])
    BY <1>1 DEF Device
  <2>2. ASSUME NEW s, NEW r \in ReqId, Ready(s, r, goal[r], N[f][r]) PROVE Ready(s, r, goal[r], N2[a][r])'
    BY <1>4, <1>21, <2>2 DEF Ready
  <2>3. ASSUME NEW j \in a + 1 .. b, NEW r \in ToSet(steps'[j].reqs), Live(r)'
        PROVE  Ready(steps[j].chosen[OutputRank][r], r, goal[r], N2[a][r])'
    <3>1. j \in 1 .. l /\ j + 1 \in f + 1 .. m /\ j + 1 \in 1 .. n
      <4>1. a \in Int /\ 0 <= a /\ b \in Int /\ b <= l /\ l \in Int /\ n = l + 1
        BY <1>6, <1>8
      <4>2. j \in Int /\ a + 1 <= j /\ j <= b
        BY <2>3, <4>1
      <4>3. a + 1 = f /\ b + 1 = m
        BY <1>9
      <4>4. \A u, v, w, x, y \in Int :
              0 <= u /\ u + 1 <= w /\ w <= v /\ v <= x =>
                w \in 1 .. x /\ w + 1 \in (u + 1) + 1 .. v + 1 /\ w + 1 \in 1 .. x + 1
        OBVIOUS
      <4> QED BY <4>1, <4>2, <4>3, <4>4
    <3>2. PICK k : k = j + 1
      OBVIOUS
    <3>3. steps'[j] = steps[k] /\ k \in f + 1 .. m /\ k \in 1 .. n
      BY <1>6, <3>1, <3>2
    <3>4. r \in ReqId /\ r \in ToSet(steps[k].reqs)
      <4>1. ToSet(steps[k].reqs) \subseteq ReqId
        BY <1>2, <3>3, KnownStep
      <4> QED BY <2>3, <3>3, <4>1
    <3>5. PICK s : s = steps[k].chosen[OutputRank][r]
      OBVIOUS
    <3>6. Ready(steps[k].chosen[OutputRank][r], r, goal[r], N[f][r])
      BY <1>12, <2>1, <2>3, <3>3, <3>4
    <3>7. Ready(s, r, goal[r], N[f][r])
      BY <3>5, <3>6
    <3>8. Ready(s, r, goal[r], N2[a][r])'
      BY <2>2, <3>4, <3>7
    <3>9. s = steps'[j].chosen[OutputRank][r]
      BY <3>3, <3>5
    <3> QED BY <3>8, <3>9
  <2>4. ASSUME NEW r \in ReqId, Live(r)', Stays(r, b)' PROVE Ready(Seat(r), r, goal[r], N2[a][r])'
    <3>1. PICK s : s = Seat(r)
      OBVIOUS
    <3>2. Ready(s, r, goal[r], N[f][r]) /\ s = Seat(r)'
      BY <1>12, <1>19, <1>20, <2>1, <2>4, <3>1
    <3>3. Ready(s, r, goal[r], N2[a][r])'
      BY <2>2, <3>2
    <3> QED BY <3>2, <3>3
  <2> QED BY <1>1, <1>4, <2>3, <2>4 DEF Device
<1>25. Results(N2)'
  <2> SUFFICES ASSUME NEW j \in 1 .. l, steps'[j].ran PROVE Gives(steps'[j], goal', N2[j], Lives')
    BY <1>6 DEF Results
  <2>1. j \in 0 .. l /\ j + 1 \in 1 .. n /\ steps'[j] = steps[j + 1] /\ N2[j] = N[j + 1]
    BY <1>6, <1>11
  <2>2. Gives(steps[j + 1], goal, N[j + 1], Lives)
    BY <1>1, <1>2, <2>1 DEF Results
  <2>3. Lives' \subseteq Lives
    BY <1>12 DEF Lives
  <2>4. ASSUME NEW s, NEW g, NEW n1, NEW live, NEW fewer, Gives(s, g, n1, live), fewer \subseteq live
        PROVE  Gives(s, g, n1, fewer)
    BY <2>4 DEF Gives
  <2>5. PICK fewer : fewer = Lives'
    OBVIOUS
  <2>6. Gives(steps[j + 1], goal, N[j + 1], fewer)
    BY <2>2, <2>3, <2>4, <2>5
  <2> QED BY <1>4, <2>1, <2>5, <2>6
<1>26. Answers(N2)'
  <2>1. /\ DOMAIN texts = ReqId
        /\ \A r \in ReqId : Live(r) =>
             /\ Yields(N, 1, r) => N[1][r] = Len(texts[r])
             /\ Yields(N, 2, r) => N[2][r] = Len(texts[r]) + Owed(N, 1, r)
             /\ stage[r] = "running" =>
                  /\ counted[r] < goal[r] =>
                       Len(texts[r]) = goal[r] /\ ~Yields(N, 1, r) /\ ~Yields(N, 2, r)
                  /\ counted[r] >= goal[r] =>
                       counted[r] + 1 = Len(texts[r]) + Owed(N, 1, r) + Owed(N, 2, r)
    BY <1>1 DEF Answers
  <2>2. ASSUME NEW r \in ReqId
        PROVE  /\ Len(texts'[r]) \in Nat \ {0} /\ texts'[r] = Text(r, Len(texts'[r]))
               /\ Live(r) => Len(texts'[r]) = Len(texts[r]) + Owed(N, 1, r)
    BY <1>3, TextsDelivered
  <2>3. ASSUME NEW r \in ReqId PROVE (Yields(N2, 1, r)' <=> Yields(N, 2, r)) /\ ~Yields(N2, 2, r)'
    <3>1. ~(2 <= l)
      BY <1>5
    <3>2. 1 <= l <=> 2 <= n
      BY <1>6
    <3>3. 1 <= l => 1 \in 1 .. l /\ 1 \in 0 .. l /\ steps'[1] = steps[2] /\ N2[1] = N[2]
      <4> SUFFICES ASSUME 1 <= l PROVE 1 \in 1 .. l /\ 1 \in 0 .. l /\ steps'[1] = steps[2] /\ N2[1] = N[2]
        OBVIOUS
      <4>1. 1 \in 1 .. l /\ 1 \in 0 .. l /\ 1 + 1 = 2
        BY <1>6
      <4> QED BY <1>6, <1>11, <4>1
    <3> QED BY <1>2, <1>4, <1>6, <3>1, <3>2, <3>3 DEF Yields
  <2>4. ASSUME NEW r \in ReqId PROVE Owed(N2, 1, r)' = Owed(N, 2, r) /\ Owed(N2, 2, r)' = 0
    BY <2>3 DEF Owed
  <2>5. ASSUME NEW r \in ReqId, Live(r)'
        PROVE  /\ Yields(N2, 1, r)' => N2[1][r] = Len(texts'[r])
               /\ stage'[r] = "running" =>
                    /\ counted'[r] < goal'[r] =>
                         Len(texts'[r]) = goal'[r] /\ ~Yields(N2, 1, r)' /\ ~Yields(N2, 2, r)'
                    /\ counted'[r] >= goal'[r] =>
                         counted'[r] + 1 = Len(texts'[r]) + Owed(N2, 1, r)' + Owed(N2, 2, r)'
    <3>1. Live(r) /\ stage'[r] = stage[r]
      BY <1>12, <2>5
    <3>2. PICK k \in Nat, u \in 0 .. 1, v \in 0 .. 1 : k = Len(texts[r]) /\ u = Owed(N, 1, r) /\ v = Owed(N, 2, r)
      <4>1. Len(texts[r]) \in Nat
        BY <1>1 DEF Answers
      <4>2. Owed(N, 1, r) \in 0 .. 1 /\ Owed(N, 2, r) \in 0 .. 1
        BY DEF Owed
      <4> QED BY <4>1, <4>2
    <3>3. Len(texts'[r]) = k + u /\ Owed(N2, 1, r)' = v /\ Owed(N2, 2, r)' = 0
      BY <2>2, <2>4, <3>1, <3>2
    <3>4. Yields(N2, 1, r)' => N2[1][r] = Len(texts'[r])
      <4> SUFFICES ASSUME Yields(N2, 1, r)' PROVE N2[1][r] = Len(texts'[r])
        OBVIOUS
      <4>1. Yields(N, 2, r)
        BY <2>3
      <4>2. N[2][r] = k + u
        BY <2>1, <3>1, <3>2, <4>1
      <4>3. 1 <= l
        BY <1>6 DEF Yields
      <4>4. 1 \in 0 .. l /\ 1 + 1 = 2
        BY <1>6, <4>3
      <4>5. N2[1] = N[2]
        BY <1>11, <4>4
      <4> QED BY <3>3, <4>2, <4>5
    <3>5. ASSUME stage'[r] = "running", counted'[r] < goal'[r]
          PROVE  Len(texts'[r]) = goal'[r] /\ ~Yields(N2, 1, r)' /\ ~Yields(N2, 2, r)'
      <4>1. k = goal[r] /\ ~Yields(N, 1, r) /\ ~Yields(N, 2, r)
        BY <1>4, <2>1, <3>1, <3>2, <3>5
      <4>2. u = 0
        BY <3>2, <4>1 DEF Owed
      <4>3. k + u = k
        BY <4>2
      <4> QED BY <1>4, <2>3, <3>3, <4>1, <4>3
    <3>6. ASSUME stage'[r] = "running", counted'[r] >= goal'[r]
          PROVE  counted'[r] + 1 = Len(texts'[r]) + Owed(N2, 1, r)' + Owed(N2, 2, r)'
      <4>1. counted[r] + 1 = k + u + v
        BY <1>4, <2>1, <3>1, <3>2, <3>6
      <4>2. k + u + v + 0 = k + u + v
        OBVIOUS
      <4> QED BY <1>4, <3>3, <4>1, <4>2
    <3> HIDE DEF Yields, Owed
    <3> QED BY <3>4, <3>5, <3>6
  <2>6. DOMAIN texts' = ReqId
    BY <1>4
  <2> HIDE DEF Live
  <2> QED BY <2>2, <2>3, <2>5, <2>6 DEF Answers
<1>27. Ledger(N2, B2, a, b)'
  BY <1>13, <1>14, <1>15, <1>16, <1>17, <1>18, <1>22, <1>23, <1>24, <1>25, <1>26 DEF Ledger
<1> QED BY <1>27

(* Nothing of the ledger moves in a step that changes nothing.              *)
LEMMA LedgerStill ==
  ASSUME NEW N, NEW B, NEW f, NEW m, Ledger(N, B, f, m), UNCHANGED v2Vars
  PROVE  Ledger(N, B, f, m)'
<1>1. /\ Ghosts(N, B) /\ Positions(f, m) /\ Orders
      /\ Shapes(N, B) /\ PlanAgrees(N, B) /\ Room(N, B, f)
      /\ Answers(N) /\ Results(N)
      /\ HostRows(B, m) /\ Cache(N, B, f) /\ Device(N, f, m)
  BY DEF Ledger
<1>2. /\ engine' = engine /\ stage' = stage /\ counted' = counted /\ goal' = goal
      /\ texts' = texts /\ blocks' = blocks /\ steps' = steps
      /\ slotOf' = slotOf /\ blockRow' = blockRow /\ prefillLen' = prefillLen
      /\ history' = history /\ computedBy' = computedBy /\ lastToken' = lastToken
      /\ carry' = carry /\ kv' = kv
  BY DEF v2Vars, plan, hostState, deviceState
<1>3. Ghosts(N, B)' /\ Positions(f, m)'
  BY <1>1, <1>2 DEF Ghosts, Positions
<1>4. Orders'
  BY <1>1, <1>2 DEF Orders, Live
<1>5. Shapes(N, B)'
  BY <1>1, <1>2 DEF Shapes
<1>6. PlanAgrees(N, B)'
  BY <1>1, <1>2 DEF PlanAgrees, Settled, Live
<1>7. Room(N, B, f)'
  BY <1>1, <1>2 DEF Room, Live
<1>8. Answers(N)'
  BY <1>1, <1>2 DEF Answers, Yields, Owed, Live
<1>9. Results(N)'
  BY <1>1, <1>2 DEF Results, Lives, Live
<1>10. HostRows(B, m)'
  BY <1>1, <1>2 DEF HostRows, Stays, Seat
<1>11. Cache(N, B, f)'
  BY <1>1, <1>2 DEF Cache, CacheHolds, Live
<1>12. Device(N, f, m)'
  BY ZenonT(60), <1>1, <1>2 DEF Device, Ready, Stays, Seat, Live
<1> QED BY <1>3, <1>4, <1>5, <1>6, <1>7, <1>8, <1>9, <1>10, <1>11, <1>12 DEF Ledger

(* Every step leaves a ledger. *)
LEMMA LedgerKept ==
  ASSUME RunnerV2Assumption, WindowCovered, TokenInv, [V2Next]_v2Vars
  PROVE  \E N, B, f, m : Ledger(N, B, f, m)'
<1>1. SlotInv
  BY DEF TokenInv
<1>2. PICK N, B, f, m : Ledger(N, B, f, m)
  BY DEF TokenInv
<1> HIDE DEF Ledger
<1>3. ASSUME PlanSteps PROVE \E N2, B2, f2, m2 : Ledger(N2, B2, f2, m2)'
  <2>1. \E N2, B2, f2 : Ledger(N2, B2, f2, m)'
    BY <1>1, <1>2, <1>3, PlanLedger
  <2> QED BY <2>1
<1>4. ASSUME NEW k \in TpRank, ExecuteModel(k) PROVE \E N2, B2, f2, m2 : Ledger(N2, B2, f2, m2)'
  <2>1. \E m2 : Ledger(N, B, f, m2)'
    BY <1>1, <1>2, <1>4, ExecuteLedger
  <2> QED BY <2>1
<1>5. ASSUME Run PROVE \E N2, B2, f2, m2 : Ledger(N2, B2, f2, m2)'
  <2>1. \E h : Ledger(N, B, h, m)'
    BY <1>1, <1>2, <1>5, RunLedger
  <2> QED BY <2>1
<1>6. ASSUME Materialize PROVE \E N2, B2, f2, m2 : Ledger(N2, B2, f2, m2)'
  <2>1. Ledger(N, B, f, m)'
    BY <1>1, <1>2, <1>6, MaterializeLedger
  <2> QED BY <2>1
<1>7. ASSUME Deliver PROVE \E N2, B2, f2, m2 : Ledger(N2, B2, f2, m2)'
  BY <1>1, <1>2, <1>7, DeliverLedger
<1>8. ASSUME UNCHANGED v2Vars PROVE \E N2, B2, f2, m2 : Ledger(N2, B2, f2, m2)'
  <2>1. Ledger(N, B, f, m)'
    BY <1>2, <1>8, LedgerStill
  <2> QED BY <2>1
<1> QED BY <1>3, <1>4, <1>5, <1>6, <1>7, <1>8 DEF V2Next

(* A ledger's texts are the requests' own. *)
LEMMA LedgerAnswers == TokenInv => TokensExact
<1> SUFFICES ASSUME TokenInv PROVE TokensExact
  OBVIOUS
<1>1. PICK N, B, f, m : Ledger(N, B, f, m)
  BY DEF TokenInv
<1>2. Answers(N)
  BY <1>1 DEF Ledger
<1> QED BY <1>2 DEF Answers, TokensExact

(* TokensExact: whatever the scheduler plans and whenever each rank, the      *)
(* device and the reader of the outputs come to it, a request is given its   *)
(* own text, if the blocks kept for a sliding window cover it.              *)
THEOREM TokensAreExact == WindowCovered => (V2Spec => []TokensExact)
<1> SUFFICES ASSUME WindowCovered PROVE V2Spec => []TokensExact
  OBVIOUS
<1> USE RunnerV2Assumption
<1>1. V2Init => TokenInv
  BY LedgerInitially
<1>2. TokenInv /\ SlotInv' /\ [V2Next]_v2Vars => TokenInv'
  <2> SUFFICES ASSUME TokenInv, SlotInv', [V2Next]_v2Vars PROVE TokenInv'
    OBVIOUS
  <2>1. \E N, B, f, m : Ledger(N, B, f, m)'
    BY LedgerKept
  <2> QED BY <2>1 DEF TokenInv
<1>3. TokenInv => TokensExact
  BY LedgerAnswers
<1> QED BY <1>1, <1>2, <1>3, SlotInvAlways, PTL DEF V2Spec
==============================================================================
