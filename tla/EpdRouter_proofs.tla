-------------------------- MODULE EpdRouter_proofs ---------------------------
(***************************************************************************)
(* Proofs about the encoder-disaggregation router, its preprocessing pool    *)
(* and the shared memory between the pool and the encoders, for every set of *)
(* requests, workers, encoders and items, size of the ring and number of     *)
(* deaths.                                                                 *)
(*                                                                         *)
(* put_item and get_item count the writes and the reads of a slot, and the   *)
(* ring gives a slot up when they are equal.  No one step pairs the two: a   *)
(* descriptor is staged by a worker, handed on by the router and read by an  *)
(* encoder, and each may fail or leave.  What pairs them is an account kept  *)
(* of every live slot: its reads, and the places its descriptor is on its    *)
(* way at, are as many as its writes, unless the descriptor was given up     *)
(* somewhere, and then they are fewer (Owes).  So a slot with a descriptor   *)
(* on its way is not read up and stays, its reader finds in it the item that *)
(* was staged, and what encoders say they encoded is what was asked for.     *)
(***************************************************************************)
EXTENDS EpdRouter, ListLemmas

------------------------------------------------------------------------------
(* The inductive invariant. *)

(* The store of one segment. *)
CellType == [id : Int, hash : Hash \cup {WarmUp}, writes : Nat, reads : Nat]
RingType == [first : Nat, next : Nat, end : Address, cell : [Address -> CellType]]

(* The live slots hold the ids from first on, side by side up to end. *)
InOrder(r) ==
  /\ r.first <= r.next /\ r.next - r.first <= Slots
  /\ \A a \in Address : r.cell[a].id < r.next
  /\ \A a \in Live(r) : a \in {r.end - (r.next - r.cell[a].id), r.end - (r.next - r.cell[a].id) + Slots}
  /\ \A i \in r.first .. r.next - 1 : \E a \in Address : r.cell[a].id = i

Call == [st : {"none", "sent", "done", "lost"}, todo : Seq(Staged)]

EpdTypes ==
  /\ ring \in [Segment -> RingType]
  /\ deaths \in [Worker -> 0 .. MaxDeaths]
  /\ readers \in [Encoder -> SUBSET Segment]
  /\ st \in [Request -> {"new", "rendering", "gathering", "driving"} \cup Ended]
  /\ media \in [Request -> Seq(Hash)]
  /\ tasks \in Seq(Request)
  /\ work \in [Worker -> [req : SUBSET Request, staged : Seq(Staged)]]
  /\ post \in [Request -> [Encoder -> Call]]
  /\ ready \in [Request -> SUBSET Hash]
  /\ encoded \in [Request -> SUBSET (Hash \X (Hash \cup {WarmUp}))]

(* What a descriptor promises its reader. *)
Kept(rg, dt, it) ==
  it.wire # Inline =>
    LET s == it.wire.name
        c == rg[s].cell[it.wire.address]
    IN /\ s[2] <= dt[s[1]]
       /\ c.id = it.wire.id /\ c.id >= rg[s].first
       /\ c.hash = it.hash

(* Where a descriptor is on its way: places of workers' lists, requests with *)
(* a call that carries it.                                                  *)
StagedAt(wk, d) ==
  UNION {{w} \X {i \in DOMAIN wk[w].staged : wk[w].staged[i].wire = d} : w \in Worker}
CalledWith(po, d) ==
  {r \in Request : \E e \in Encoder : \E i \in DOMAIN po[r][e].todo : po[r][e].todo[i].wire = d}

(* A slot is owed a read for each place its descriptor is on its way, and no *)
(* more unless the descriptor was given up.                                 *)
Owes(c, A, B, whole) ==
  /\ IsFiniteSet(A) /\ IsFiniteSet(B)
  /\ c.reads + Cardinality(A) + Cardinality(B) <= c.writes
  /\ whole => c.reads + Cardinality(A) + Cardinality(B) = c.writes

Owed(rg, wk, po, wa, s, a) ==
  LET d == Handle(s, a, rg[s].cell[a].id)
  IN Owes(rg[s].cell[a], StagedAt(wk, d), CalledWith(po, d), d \notin wa)

Accounts == \A s \in Segment : \A a \in Live(ring[s]) : Owed(ring, work, post, waste, s, a)

(* What is staged and sent is kept for its readers; a call carries items of *)
(* its encoder, each hash once.                                             *)
Lists ==
  /\ \A w \in Worker :
       /\ work[w].req = {} => work[w].staged = <<>>
       /\ \A i \in DOMAIN work[w].staged : Kept(ring, deaths, work[w].staged[i])
  /\ \A r \in Request, e \in Encoder : LET todo == post[r][e].todo IN
       /\ post[r][e].st # "sent" => todo = <<>>
       /\ \A i \in DOMAIN todo :
            /\ Kept(ring, deaths, todo[i])
            /\ VeOf[todo[i].hash] = e
            /\ \A j \in DOMAIN todo : todo[i].hash = todo[j].hash => i = j

(* A worker stages the media of a request in order, and a request has calls *)
(* once it is rendered, one for each encoder of its media.                  *)
Flow ==
  /\ \A i \in DOMAIN tasks : st[tasks[i]] # "new"
  /\ \A w \in Worker : \A r \in Request : Rendering(w, r) =>
       /\ st[r] # "new"
       /\ Len(work[w].staged) <= Len(media[r])
       /\ \A i \in DOMAIN work[w].staged : work[w].staged[i].hash = media[r][i]
  /\ \A r \in Request :
       /\ st[r] \in {"new", "rendering"} => ready[r] = {} /\ \A e \in Encoder : post[r][e] = NoPost
       /\ st[r] = "gathering" => \A e \in Encoder : post[r][e].st = "none" => Asked(r, e) = {}

(* What was encoded are the staged pixels, what is ready was encoded, and   *)
(* what was asked for is encoded, still to be read, or given up.            *)
Answers ==
  \A r \in Request :
    /\ \A pair \in encoded[r] : pair[1] = pair[2]
    /\ ready[r] \subseteq Range(media[r])
    /\ \A h \in ready[r] : <<h, h>> \in encoded[r]
    /\ st[r] \in {"driving", "answered"} => Range(media[r]) \subseteq ready[r]
    /\ \A e \in Encoder :
         /\ post[r][e].st = "sent" => \A h \in Asked(r, e) :
              \/ <<h, h>> \in encoded[r]
              \/ \E i \in DOMAIN post[r][e].todo : post[r][e].todo[i].hash = h
         /\ post[r][e].st = "done" => Asked(r, e) \subseteq ready[r]

Rings == \A s \in Segment : InOrder(ring[s])

EpdInv == EpdTypes /\ Rings /\ Lists /\ Accounts /\ Flow /\ Answers

------------------------------------------------------------------------------
(* The store of a segment: giving up and writing slots. *)

(* The least of some numbers. *)
LEMMA LeastOf ==
  ASSUME NEW S \in SUBSET Nat, S # {}
  PROVE  Min(S) \in S /\ \A x \in S : Min(S) <= x
<1>1. \E x \in S : \A y \in S : x <= y
  BY LeastNatural
<1> QED BY <1>1 DEF Min

(* Slots are given up from the oldest on, and none that is still to be read. *)
LEMMA FreedOrder ==
  ASSUME NEW r \in RingType, InOrder(r)
  PROVE  /\ Freed(r) \in RingType /\ InOrder(Freed(r))
         /\ Freed(r).cell = r.cell /\ Freed(r).next = r.next
         /\ r.first <= Freed(r).first
         /\ \A a \in Live(r) : Unread(r.cell[a]) => r.cell[a].id >= Freed(r).first
<1>0. /\ Slots \in Nat \ {0} /\ 0 \in Address
      /\ \A a \in Address : a \in Nat /\ a < Slots
      /\ \A a \in Nat : a < Slots => a \in Address
      /\ r.first \in Nat /\ r.next \in Nat /\ r.end \in Address /\ r.cell \in [Address -> CellType]
      /\ \A a \in Address : r.cell[a] \in CellType /\ r.cell[a].id \in Int
  BY StagingAssumption DEF RingType, CellType, Address
<1> DEFINE ids == {r.cell[a].id : a \in {b \in Live(r) : Unread(r.cell[b])}}
           f == Min({r.next} \cup ids)
<1>1. ids \subseteq r.first .. r.next - 1
  BY <1>0 DEF Live, InOrder
<1>2. {r.next} \cup ids \in SUBSET Nat
  <2> HIDE DEF ids
  <2>1. \A x \in ids : x \in Nat
    BY <1>0, <1>1
  <2> QED BY <1>0, <2>1
<1>3. f \in {r.next} \cup ids /\ \A x \in {r.next} \cup ids : f <= x
  <2> HIDE DEF ids
  <2> QED BY <1>0, <1>2, LeastOf
<1> HIDE DEF f
<1>4. f \in Nat /\ r.first <= f /\ f <= r.next
  BY <1>0, <1>1, <1>3 DEF InOrder
<1>5. Freed(r) = [r EXCEPT !.first = f, !.end = IF f = r.next THEN 0 ELSE @]
  BY <1>0 DEF Freed, f
<1> DEFINE q == Freed(r)
<1>6. /\ q.first = f /\ q.next = r.next /\ q.cell = r.cell
      /\ q.end = IF f = r.next THEN 0 ELSE r.end
      /\ q \in RingType
  BY <1>0, <1>4, <1>5 DEF RingType
<1>7. \A a \in Live(r) : Unread(r.cell[a]) => r.cell[a].id >= f
  BY <1>0, <1>1, <1>3
<1>8. InOrder(q)
  <2> HIDE DEF q
  <2>1. q.first <= q.next /\ q.next - q.first <= Slots
    BY <1>0, <1>4, <1>6 DEF InOrder
  <2>2. \A a \in Address : q.cell[a].id < q.next
    BY <1>0, <1>6 DEF InOrder
  <2>3. Live(q) \subseteq Live(r) /\ (f = r.next => Live(q) = {})
    BY <1>0, <1>4, <1>6, <2>2 DEF Live
  <2>4. \A a \in Live(q) : a \in {q.end - (q.next - q.cell[a].id), q.end - (q.next - q.cell[a].id) + Slots}
    BY <1>0, <1>6, <2>3 DEF InOrder
  <2>5. \A i \in q.first .. q.next - 1 : \E a \in Address : q.cell[a].id = i
    BY <1>0, <1>4, <1>6 DEF InOrder
  <2> QED BY <1>0, <2>1, <2>2, <2>4, <2>5 DEF InOrder
<1> QED BY <1>0, <1>4, <1>6, <1>7, <1>8

(* A new item goes to a slot that is not live. *)
LEMMA WrittenOrder ==
  ASSUME NEW r \in RingType, InOrder(r), ~Full(r), NEW h \in Hash
  PROVE  /\ Written(r, h) \in RingType /\ InOrder(Written(r, h))
         /\ r.end \in Address /\ r.end \notin Live(r)
         /\ Written(r, h).first = r.first /\ Written(r, h).next = r.next + 1
         /\ Written(r, h).cell = [r.cell EXCEPT ![r.end] = [id |-> r.next, hash |-> h, writes |-> 1, reads |-> 0]]
         /\ Live(Written(r, h)) = Live(r) \cup {r.end}
<1>0. /\ Slots \in Nat \ {0} /\ 0 \in Address
      /\ \A a \in Address : a \in Nat /\ a < Slots
      /\ \A a \in Nat : a < Slots => a \in Address
      /\ r.first \in Nat /\ r.next \in Nat /\ r.end \in Address /\ r.cell \in [Address -> CellType]
      /\ \A a \in Address : r.cell[a] \in CellType /\ r.cell[a].id \in Int
  BY StagingAssumption DEF RingType, CellType, Address
<1>1. PICK c : c = [id |-> r.next, hash |-> h, writes |-> 1, reads |-> 0]
  OBVIOUS
<1>2. c \in CellType /\ c.id = r.next
  BY <1>0, <1>1 DEF CellType
<1>3. r.end \in Address /\ r.end \notin Live(r)
  BY <1>0 DEF Live, InOrder, Full
<1>4. PICK e : e = (r.end + 1) % Slots
  OBVIOUS
<1>5. e \in Address /\ e = IF r.end + 1 = Slots THEN 0 ELSE r.end + 1
  BY <1>0, <1>4
<1>6. PICK q : q = Written(r, h)
  OBVIOUS
<1>7. /\ q \in RingType /\ q.first = r.first /\ q.next = r.next + 1 /\ q.end = e
      /\ q.cell = [r.cell EXCEPT ![r.end] = c]
  <2>1. q = [r EXCEPT !.next = @ + 1, !.end = e, !.cell[r.end] = c]
    BY <1>1, <1>4, <1>6 DEF Written
  <2>2. r \in [first : Nat, next : Nat, end : Address, cell : [Address -> CellType]]
    BY DEF RingType
  <2>3. /\ q.first = r.first /\ q.next = r.next + 1 /\ q.end = e
        /\ q.cell = [r.cell EXCEPT ![r.end] = c]
    BY <2>1, <2>2
  <2>4. q.cell \in [Address -> CellType] /\ q.next \in Nat
    BY <1>0, <1>2, <2>3
  <2>5. q \in RingType
    BY <1>0, <1>5, <2>1, <2>2, <2>3, <2>4 DEF RingType
  <2> QED BY <2>3, <2>5
<1>8. q.cell[r.end] = c /\ \A a \in Address : a # r.end => q.cell[a] = r.cell[a]
  BY <1>0, <1>3, <1>7
<1>9. Live(q) = Live(r) \cup {r.end}
  BY <1>0, <1>2, <1>3, <1>7, <1>8 DEF Live, InOrder
<1>10. q.first <= q.next /\ q.next - q.first <= Slots
  BY <1>0, <1>7 DEF InOrder, Full
<1>11. \A a \in Address : q.cell[a].id < q.next
  BY <1>0, <1>2, <1>7, <1>8 DEF InOrder
<1>12. ASSUME NEW a \in Live(q)
       PROVE  a \in {q.end - (q.next - q.cell[a].id), q.end - (q.next - q.cell[a].id) + Slots}
  <2>1. CASE a = r.end
    BY <1>0, <1>2, <1>5, <1>7, <1>8, <2>1
  <2>2. CASE a # r.end
    <3>1. a \in Live(r) /\ q.cell[a] = r.cell[a] /\ a \in Address
      BY <1>0, <1>8, <1>9, <2>2 DEF Live
    <3>2. PICK i \in Int : i = r.cell[a].id
      BY <1>0, <3>1
    <3>3. i >= r.first /\ (a = r.end - (r.next - i) \/ a = r.end - (r.next - i) + Slots)
      BY <3>1, <3>2 DEF Live, InOrder
    <3>4. r.next - r.first < Slots
      BY <1>0 DEF InOrder, Full
    <3>5. a \in Nat /\ a < Slots /\ r.end \in Nat
      BY <1>0, <3>1
    <3>6. q.next - q.cell[a].id = r.next + 1 - i
      <4>1. q.cell[a].id = i /\ q.next = r.next + 1
        BY <1>7, <3>1, <3>2
      <4> QED BY <1>0, <4>1
    <3>7. a = e - (r.next + 1 - i) \/ a = e - (r.next + 1 - i) + Slots
      <4>1. e = r.end + 1 \/ (e = 0 /\ r.end + 1 = Slots)
        BY <1>5
      <4>2. r.first \in Nat /\ r.next \in Nat /\ Slots \in Nat /\ e \in Nat
        BY <1>0, <1>5
      <4> QED BY <3>2, <3>3, <3>4, <3>5, <4>1, <4>2
    <3> QED BY <1>7, <3>6, <3>7
  <2> QED BY <1>0, <2>1, <2>2
<1>13. ASSUME NEW i \in q.first .. q.next - 1
       PROVE  \E a \in Address : q.cell[a].id = i
  <2>1. CASE i = r.next
    BY <1>0, <1>2, <1>3, <1>8, <2>1
  <2>2. CASE i # r.next
    <3>0. i \in r.first .. r.next - 1
      BY <1>0, <1>7, <2>2
    <3>1. PICK a \in Address : r.cell[a].id = i
      BY <3>0 DEF InOrder
    <3>2. a \in Live(r)
      BY <1>0, <1>7, <3>1 DEF Live
    <3> QED BY <1>0, <1>3, <1>8, <3>1, <3>2
  <2> QED BY <1>0, <2>1, <2>2
<1>14. InOrder(q)
  BY <1>0, <1>10, <1>11, <1>12, <1>13 DEF InOrder
<1> QED BY <1>0, <1>1, <1>3, <1>6, <1>7, <1>9, <1>14

(* g gives the place of each entry. *)
PicksFrom(list, places, picked, g) ==
  /\ DOMAIN g = DOMAIN picked
  /\ \A k \in DOMAIN g : g[k] \in places /\ picked[k] = list[g[k]]
  /\ \A i \in places : \E k \in DOMAIN g : g[k] = i
  /\ \A k, m \in DOMAIN g : g[k] = g[m] => k = m

(* What is picked from a list are its entries at the places, each once. *)
LEMMA PickedList ==
  ASSUME NEW S, NEW list \in Seq(S), NEW places \in SUBSET DOMAIN list
  PROVE  /\ Picked(list, places) \in Seq(S)
         /\ \E g : PicksFrom(list, places, Picked(list, places), g)
<1> DEFINE n == Cardinality(places)
           UpTo(i) == {j \in places : j <= i}
           rank == [i \in places |-> Cardinality(UpTo(i))]
           g == [k \in 1 .. n |-> CHOOSE i \in places : Cardinality(UpTo(i)) = k]
<1>1. DOMAIN list = 1 .. Len(list) /\ Len(list) \in Nat /\ places \subseteq Nat
  BY LenProperties
<1>2. IsFiniteSet(places) /\ n \in Nat
  <2>1. IsFiniteSet(1 .. Len(list))
    BY <1>1, FS_Interval
  <2> QED BY <1>1, <2>1, FS_Subset, FS_CardinalityType
<1>3. ASSUME NEW i \in places
      PROVE  IsFiniteSet(UpTo(i)) /\ Cardinality(UpTo(i)) \in 1 .. n
  <2>1. IsFiniteSet(UpTo(i)) /\ Cardinality(UpTo(i)) <= n
    BY <1>2, FS_Subset
  <2>2. i \in UpTo(i)
    BY <1>1
  <2>3. Cardinality(UpTo(i)) # 0
    BY <2>1, <2>2, FS_EmptySet
  <2> QED BY <1>2, <2>1, <2>3, FS_CardinalityType
<1>4. ASSUME NEW i \in places, NEW j \in places, Cardinality(UpTo(i)) = Cardinality(UpTo(j))
      PROVE  ~(i < j)
  <2> SUFFICES ASSUME i < j PROVE FALSE
    OBVIOUS
  <2>1. i \in Nat /\ j \in Nat
    BY <1>1
  <2>2. UpTo(i) \subseteq UpTo(j)
    BY <1>1, <2>1
  <2>3. j \in UpTo(j) /\ j \notin UpTo(i)
    BY <2>1
  <2>4. UpTo(i) = UpTo(j)
    BY <1>3, <1>4, <2>2, FS_Subset
  <2> QED BY <2>3, <2>4
<1>5. ASSUME NEW i \in places, NEW j \in places, Cardinality(UpTo(i)) = Cardinality(UpTo(j))
      PROVE  i = j
  <2>1. ~(i < j) /\ ~(j < i)
    BY <1>4, <1>5
  <2>2. i \in Nat /\ j \in Nat
    BY <1>1
  <2> QED BY <2>1, <2>2
<1> HIDE DEF UpTo, n
<1>6. rank \in Injection(places, 1 .. n)
  <2>1. rank \in [places -> 1 .. n]
    BY <1>3
  <2>2. IsInjective(rank)
    BY <1>5 DEF IsInjective
  <2> QED BY <2>1, <2>2 DEF Injection
<1>7. IsFiniteSet(1 .. n) /\ Cardinality(1 .. n) = n
  <2>1. Cardinality(1 .. n) = IF 1 > n THEN 0 ELSE n - 1 + 1
    BY <1>2, FS_Interval
  <2> QED BY <1>2, <2>1, FS_Interval
<1>8. rank \in Surjection(places, 1 .. n)
  BY <1>6, <1>7, FS_Injection DEF n
<1>9. \A k \in 1 .. n : g[k] \in places /\ Cardinality(UpTo(g[k])) = k
  <2>1. \A k \in 1 .. n : \E i \in places : Cardinality(UpTo(i)) = k
    BY <1>8 DEF Surjection
  <2> QED BY <2>1
<1>10. Picked(list, places) = [k \in 1 .. n |-> list[g[k]]]
  BY DEF Picked, UpTo, n
<1> HIDE DEF g
<1>11. Picked(list, places) \in Seq(S)
  <2>1. \A k \in 1 .. n : list[g[k]] \in S
    BY <1>1, <1>9
  <2> QED BY <1>2, <1>10, <2>1, SeqDef
<1>12. DOMAIN g = 1 .. n
  BY DEF g
<1>13. \A i \in places : \E k \in 1 .. n : g[k] = i
  <2> SUFFICES ASSUME NEW i \in places PROVE \E k \in 1 .. n : g[k] = i
    OBVIOUS
  <2>1. PICK k \in 1 .. n : k = Cardinality(UpTo(i))
    BY <1>3
  <2>2. g[k] \in places /\ Cardinality(UpTo(g[k])) = Cardinality(UpTo(i))
    BY <1>9, <2>1
  <2> QED BY <1>5, <2>2
<1>14. \A k, m \in 1 .. n : g[k] = g[m] => k = m
  <2> SUFFICES ASSUME NEW k \in 1 .. n, NEW m \in 1 .. n, g[k] = g[m] PROVE k = m
    OBVIOUS
  <2>1. Cardinality(UpTo(g[k])) = k /\ Cardinality(UpTo(g[m])) = m
    BY <1>9
  <2> QED BY <2>1
<1>15. DOMAIN Picked(list, places) = 1 .. n
  BY <1>10
<1>16. \A k \in 1 .. n : g[k] \in places /\ Picked(list, places)[k] = list[g[k]]
  BY <1>9, <1>10
<1>17. PicksFrom(list, places, Picked(list, places), g)
  BY <1>12, <1>13, <1>14, <1>15, <1>16 DEF PicksFrom
<1> QED BY <1>11, <1>17

------------------------------------------------------------------------------
(* PutItem. *)

(* A handle of a slot of a segment is a descriptor and is not an item sent *)
(* inline.                                                                 *)
LEMMA HandleIsWire ==
  ASSUME NEW s \in Segment, NEW a \in Address, NEW id \in Nat
  PROVE  /\ Handle(s, a, id) \in Wire /\ Handle(s, a, id) # Inline
         /\ Handle(s, a, id).name = s /\ Handle(s, a, id).address = a /\ Handle(s, a, id).id = id
  BY RouterAssumption DEF Handle, Wire, Name

(* A descriptor is the handle of the slot it names. *)
LEMMA WireIsHandle ==
  ASSUME NEW d \in Wire
  PROVE  /\ d.name \in Segment /\ d.address \in Address /\ d.id \in Nat
         /\ d = Handle(d.name, d.address, d.id)
  BY DEF Handle, Wire, Name

(* The store after an item was put: nothing that is still to be read moved, *)
(* and the descriptor is of a live slot that holds the item and is owed one *)
(* more read.                                                               *)
Undisturbed(q, r) ==
  \A a \in Live(q) : Unread(q.cell[a]) => r.cell[a].id >= r.first

PutInline(q, put) ==
  put.wire = Inline /\ put.ring.cell = q.cell

PutAgain(s, q, h, put) ==
  \E a \in Live(q) :
    /\ q.cell[a].hash = h /\ put.wire = Handle(s, a, q.cell[a].id)
    /\ put.ring.first = q.first
    /\ put.ring.cell = [q.cell EXCEPT ![a].writes = @ + 1]

PutNew(s, q, h, put) ==
  \E a \in Address :
    /\ put.wire = Handle(s, a, q.next)
    /\ put.ring.cell = [q.cell EXCEPT ![a] = [id |-> q.next, hash |-> h, writes |-> 1, reads |-> 0]]
    /\ a \in Live(q) => ~Unread(q.cell[a])
    /\ put.ring.first <= q.next

(* put_item leaves the store in order, moves nothing that is still to be    *)
(* read, and stages the item inline, in a slot that holds it already, or in *)
(* a slot it may write.                                                     *)
LEMMA PutItemEffect ==
  ASSUME NEW s \in Segment, NEW h \in Hash, ring[s] \in RingType, InOrder(ring[s])
  PROVE  LET q == ring[s]
             put == PutItem(s, h)
         IN  /\ put.ring \in RingType /\ InOrder(put.ring)
             /\ put.wire \in Wire \cup {Inline}
             /\ q.first <= put.ring.first
             /\ Undisturbed(q, put.ring)
             /\ PutInline(q, put) \/ PutAgain(s, q, h, put) \/ PutNew(s, q, h, put)
<1>0. PICK q \in RingType : q = ring[s] /\ InOrder(q)
  OBVIOUS
<1> DEFINE cached == {a \in Live(q) : q.cell[a].hash = h}
           room == Room(q)
           put == PutItem(s, h)
<1>1. /\ q.first \in Nat /\ q.next \in Nat /\ q.end \in Address
      /\ q.cell \in [Address -> CellType]
      /\ \A a \in Address : q.cell[a].id \in Int
      /\ Address \subseteq Nat
  <2>1. /\ q.first \in Nat /\ q.next \in Nat /\ q.end \in Address
        /\ q.cell \in [Address -> CellType]
    BY DEF RingType
  <2>2. \A a \in Address : q.cell[a].id \in Int
    BY <2>1 DEF CellType
  <2>3. Address \subseteq Nat
    BY StagingAssumption DEF Address
  <2> QED BY <2>1, <2>2, <2>3
<1>2. /\ room \in RingType /\ InOrder(room) /\ room.cell = q.cell /\ room.next = q.next
      /\ q.first <= room.first
      /\ \A a \in Live(q) : Unread(q.cell[a]) => q.cell[a].id >= room.first
  <2>1. CASE Full(q)
    BY <1>0, <2>1, FreedOrder DEF Room
  <2>2. CASE ~Full(q)
    BY <1>0, <1>1, <2>2 DEF Room, Live
  <2> QED BY <2>1, <2>2
<1> HIDE DEF room
<1>3. CASE cached # {}
  <2>1. PICK a \in cached : a = Min(cached)
    <3>1. cached \in SUBSET Nat
      BY <1>1 DEF Live
    <3> HIDE DEF cached
    <3> QED BY <1>3, <3>1, LeastOf
  <2>2. a \in Live(q) /\ a \in Address /\ q.cell[a].hash = h /\ q.cell[a].id \in Nat
    BY <1>1 DEF Live
  <2>3. put = [ring |-> HandOut(q, a), wire |-> Handle(s, a, q.cell[a].id)]
    BY <1>0, <1>3, <2>1 DEF PutItem
  <2>4. PICK r : r = HandOut(q, a)
    OBVIOUS
  <2>5. r = [q EXCEPT !.cell = [q.cell EXCEPT ![a].writes = @ + 1]]
    BY <2>4 DEF HandOut
  <2>6. /\ r.first = q.first /\ r.next = q.next /\ r.end = q.end
        /\ r.cell = [q.cell EXCEPT ![a].writes = @ + 1]
        /\ r \in RingType
    <3>1. [q.cell EXCEPT ![a].writes = @ + 1] \in [Address -> CellType]
      BY <1>1, <2>2 DEF CellType
    <3> QED BY <1>1, <2>5, <3>1 DEF RingType
  <2>7. \A b \in Address : r.cell[b].id = q.cell[b].id
    BY <1>1, <2>2, <2>6 DEF CellType
  <2>8. Live(r) = Live(q)
    BY <2>6, <2>7 DEF Live
  <2>9. InOrder(r)
    BY <1>0, <1>1, <2>6, <2>7, <2>8 DEF InOrder, Live
  <2>10. Undisturbed(q, r)
    BY <2>6, <2>7 DEF Undisturbed, Live
  <2>11. Handle(s, a, q.cell[a].id) \in Wire
    BY <2>2, HandleIsWire
  <2>12. put.ring = r /\ put.wire = Handle(s, a, q.cell[a].id)
    BY <2>3, <2>4
  <2>13. PutAgain(s, q, h, put)
    <3> HIDE DEF put
    <3> QED BY <2>2, <2>6, <2>12 DEF PutAgain
  <2> HIDE DEF put
  <2> QED BY <1>0, <1>1, <2>6, <2>9, <2>10, <2>11, <2>12, <2>13 DEF put
<1>4. CASE cached = {} /\ (h \in Oversized \/ Full(room))
  <2>1. put.wire = Inline /\ (put.ring = q \/ put.ring = room)
    BY <1>0, <1>4 DEF PutItem, room
  <2>2. PutInline(q, put)
    BY <1>2, <2>1 DEF PutInline
  <2>3. Undisturbed(q, put.ring)
    BY <1>2, <2>1 DEF Undisturbed, Live
  <2> QED BY <1>0, <1>1, <1>2, <2>1, <2>2, <2>3
<1>5. CASE cached = {} /\ h \notin Oversized /\ ~Full(room)
  <2>1. PICK r : r = Written(room, h)
    OBVIOUS
  <2>2. PICK a \in Address : a = room.end /\ a \notin Live(room)
    BY <1>2, <1>5, WrittenOrder
  <2>3. put.ring = r /\ put.wire = Handle(s, a, q.next)
    BY <1>0, <1>2, <1>5, <2>1, <2>2 DEF PutItem, room
  <2>4. /\ r \in RingType /\ InOrder(r) /\ r.first = room.first
        /\ r.cell = [q.cell EXCEPT ![a] = [id |-> q.next, hash |-> h, writes |-> 1, reads |-> 0]]
    BY <1>2, <1>5, <2>1, <2>2, WrittenOrder
  <2>5. a \in Live(q) => ~Unread(q.cell[a])
    BY <1>2, <2>2 DEF Live
  <2>6. room.first <= q.next
    BY <1>2 DEF InOrder
  <2>7. Undisturbed(q, r)
    <3> SUFFICES ASSUME NEW b \in Live(q), Unread(q.cell[b]) PROVE r.cell[b].id >= r.first
      BY DEF Undisturbed
    <3>1. b # a /\ b \in Address
      BY <2>5 DEF Live
    <3> QED BY <1>1, <1>2, <2>4, <3>1
  <2>8. Handle(s, a, q.next) \in Wire
    BY <1>1, HandleIsWire
  <2>9. PutNew(s, q, h, put)
    BY <2>3, <2>4, <2>5, <2>6 DEF PutNew
  <2> QED BY <1>0, <1>2, <2>3, <2>4, <2>7, <2>8, <2>9
<1> QED BY <1>3, <1>4, <1>5

------------------------------------------------------------------------------
(* What a slot is owed. *)

(* A place where a descriptor is staged is a worker and an index of its *)
(* list.                                                                *)
LEMMA StagedPlaces ==
  ASSUME NEW wk, NEW d, NEW p
  PROVE  p \in StagedAt(wk, d) <=>
           \E w \in Worker : \E i \in DOMAIN wk[w].staged : wk[w].staged[i].wire = d /\ p = <<w, i>>
  BY DEF StagedAt

(* The same of one worker and one index. *)
LEMMA StagedPlace ==
  ASSUME NEW wk, NEW d, NEW w, NEW i
  PROVE  <<w, i>> \in StagedAt(wk, d) <=>
           w \in Worker /\ i \in DOMAIN wk[w].staged /\ wk[w].staged[i].wire = d
  BY StagedPlaces


(* Descriptors that are given up, or not, are still accounted for. *)
LEMMA OwesLess ==
  ASSUME NEW c, c.reads \in Nat, c.writes \in Nat, NEW A, NEW B, NEW whole, Owes(c, A, B, whole),
         NEW A2 \in SUBSET A, NEW B2 \in SUBSET B, NEW whole2,
         whole2 => whole /\ A2 = A /\ B2 = B
  PROVE  Owes(c, A2, B2, whole2)
<1>1. IsFiniteSet(A) /\ IsFiniteSet(B)
  BY DEF Owes
<1>2. IsFiniteSet(A2) /\ IsFiniteSet(B2) /\ Cardinality(A2) <= Cardinality(A) /\ Cardinality(B2) <= Cardinality(B)
  BY <1>1, FS_Subset
<1>3. /\ Cardinality(A) \in Nat /\ Cardinality(B) \in Nat
      /\ Cardinality(A2) \in Nat /\ Cardinality(B2) \in Nat
  BY <1>1, <1>2, FS_CardinalityType
<1>4. c.reads + Cardinality(A) + Cardinality(B) <= c.writes
  BY DEF Owes
<1>5. c.reads + Cardinality(A2) + Cardinality(B2) <= c.writes
  BY <1>2, <1>3, <1>4
<1>6. whole2 => c.reads + Cardinality(A2) + Cardinality(B2) = c.writes
  BY DEF Owes
<1> QED BY <1>2, <1>5, <1>6 DEF Owes

(* A place of a list is taken over by a call, or a read is done. *)
LEMMA OwesMoved ==
  ASSUME NEW c, c.reads \in Nat, c.writes \in Nat, NEW A, NEW B, NEW whole, Owes(c, A, B, whole),
         NEW p \in A, NEW x, x \notin B, NEW A2 \in SUBSET (A \ {p}), NEW whole2,
         whole2 => whole /\ A2 = A \ {p}
  PROVE  Owes(c, A2, B \cup {x}, whole2)
<1>1. IsFiniteSet(A) /\ IsFiniteSet(B)
  BY DEF Owes
<1>2. IsFiniteSet(A \ {p}) /\ Cardinality(A \ {p}) = Cardinality(A) - 1
  BY <1>1, FS_RemoveElement
<1>3. IsFiniteSet(B \cup {x}) /\ Cardinality(B \cup {x}) = Cardinality(B) + 1
  BY <1>1, FS_AddElement
<1>4. IsFiniteSet(A2) /\ Cardinality(A2) <= Cardinality(A \ {p})
  BY <1>2, FS_Subset
<1>5. Cardinality(A) \in Nat /\ Cardinality(B) \in Nat /\ Cardinality(A2) \in Nat
  BY <1>1, <1>4, FS_CardinalityType
<1>6. c.reads + Cardinality(A) + Cardinality(B) <= c.writes
  BY DEF Owes
<1>7. c.reads + Cardinality(A2) + Cardinality(B \cup {x}) <= c.writes
  BY <1>2, <1>3, <1>4, <1>5, <1>6
<1>8. whole2 => c.reads + Cardinality(A2) + Cardinality(B \cup {x}) = c.writes
  <2> SUFFICES ASSUME whole2 PROVE c.reads + Cardinality(A2) + Cardinality(B \cup {x}) = c.writes
    OBVIOUS
  <2>1. A2 = A \ {p} /\ c.reads + Cardinality(A) + Cardinality(B) = c.writes
    BY Zenon DEF Owes
  <2> QED BY <1>2, <1>3, <1>5, <2>1
<1> QED BY <1>3, <1>4, <1>7, <1>8 DEF Owes

(* A read is done, and its request has the descriptor no more. *)
LEMMA OwesRead ==
  ASSUME NEW c, c.reads \in Nat, c.writes \in Nat, NEW A, NEW B, NEW whole, Owes(c, A, B, whole),
         NEW x \in B, NEW c2, c2.reads = c.reads + 1, c2.writes = c.writes
  PROVE  Owes(c2, A, B \ {x}, whole)
<1>1. IsFiniteSet(A) /\ IsFiniteSet(B)
  BY DEF Owes
<1>2. IsFiniteSet(B \ {x}) /\ Cardinality(B \ {x}) = Cardinality(B) - 1
  BY <1>1, FS_RemoveElement
<1>3. Cardinality(A) \in Nat /\ Cardinality(B) \in Nat
  BY <1>1, FS_CardinalityType
<1>4. c.reads + Cardinality(A) + Cardinality(B) = c2.reads + Cardinality(A) + Cardinality(B \ {x})
  BY <1>2, <1>3
<1> QED BY <1>1, <1>2, <1>4 DEF Owes

(* An item is staged again in the slot that holds it. *)
LEMMA OwesPut ==
  ASSUME NEW c, c.reads \in Nat, c.writes \in Nat, NEW A, NEW B, NEW whole, Owes(c, A, B, whole),
         NEW p, p \notin A, NEW c2, c2.reads = c.reads, c2.writes = c.writes + 1
  PROVE  Owes(c2, A \cup {p}, B, whole)
<1>1. IsFiniteSet(A) /\ IsFiniteSet(B)
  BY DEF Owes
<1>2. IsFiniteSet(A \cup {p}) /\ Cardinality(A \cup {p}) = Cardinality(A) + 1
  BY <1>1, FS_AddElement
<1>3. Cardinality(A) \in Nat /\ Cardinality(B) \in Nat
  BY <1>1, FS_CardinalityType
<1>4. c2.reads + Cardinality(A \cup {p}) + Cardinality(B) = c.reads + Cardinality(A) + Cardinality(B) + 1
  BY <1>2, <1>3
<1>5. c.reads + Cardinality(A) + Cardinality(B) <= c.writes
  BY DEF Owes
<1>6. c2.reads + Cardinality(A \cup {p}) + Cardinality(B) <= c2.writes
  BY <1>3, <1>4, <1>5
<1>7. whole => c2.reads + Cardinality(A \cup {p}) + Cardinality(B) = c2.writes
  BY <1>3, <1>4 DEF Owes
<1> QED BY <1>1, <1>2, <1>6, <1>7 DEF Owes

(* An item is staged in a slot that was just written. *)
LEMMA OwesFirst ==
  ASSUME NEW p, NEW whole, NEW c, c.reads = 0, c.writes = 1
  PROVE  Owes(c, {p}, {}, whole)
<1>1. IsFiniteSet({p}) /\ Cardinality({p}) = 1 /\ IsFiniteSet({}) /\ Cardinality({}) = 0
  BY FS_EmptySet, FS_Singleton
<1>2. c.reads + Cardinality({p}) + Cardinality({}) = 1
  BY <1>1
<1> QED BY <1>1, <1>2 DEF Owes

(* What is on its way is in a slot of a live segment that is still to be read. *)
LEMMA StagedIsHeld ==
  ASSUME EpdTypes, Lists, Accounts,
         NEW w \in Worker, NEW i \in DOMAIN work[w].staged, work[w].staged[i].wire # Inline
  PROVE  LET d == work[w].staged[i].wire
             c == ring[d.name].cell[d.address]
         IN  /\ d \in Wire /\ d.name[2] <= deaths[d.name[1]]
             /\ d.address \in Live(ring[d.name]) /\ c.id = d.id
             /\ c.hash = work[w].staged[i].hash /\ Unread(c)
<1>1. PICK it \in Staged : it = work[w].staged[i]
  BY DEF EpdTypes
<1>2. PICK d \in Wire : d = it.wire
  BY <1>1 DEF Staged
<1>3. d.name \in Segment /\ d.address \in Address /\ d.id \in Nat /\ d = Handle(d.name, d.address, d.id)
  BY WireIsHandle
<1>4. Kept(ring, deaths, it)
  BY <1>1 DEF Lists
<1>5. PICK c \in CellType : c = ring[d.name].cell[d.address]
  BY <1>3 DEF EpdTypes, RingType
<1>6. /\ d.name[2] <= deaths[d.name[1]] /\ c.id = d.id /\ c.id >= ring[d.name].first
      /\ c.hash = it.hash
  BY <1>1, <1>2, <1>4, <1>5 DEF Kept
<1>7. d.address \in Live(ring[d.name])
  BY <1>3, <1>5, <1>6 DEF Live
<1>8. Owes(c, StagedAt(work, d), CalledWith(post, d), d \notin waste)
  BY <1>3, <1>5, <1>6, <1>7 DEF Accounts, Owed
<1>9. <<w, i>> \in StagedAt(work, d)
  BY <1>1, <1>2, StagedPlace
<1>10. Unread(c)
  <2>1. IsFiniteSet(StagedAt(work, d)) /\ IsFiniteSet(CalledWith(post, d))
    BY <1>8 DEF Owes
  <2>2. Cardinality(StagedAt(work, d)) \in Nat /\ Cardinality(StagedAt(work, d)) # 0
        /\ Cardinality(CalledWith(post, d)) \in Nat
    BY <1>9, <2>1, FS_CardinalityType, FS_EmptySet
  <2>3. c.reads \in Nat /\ c.writes \in Nat
    BY DEF CellType
  <2> QED BY <1>8, <2>2, <2>3 DEF Owes, Unread
<1> QED BY <1>1, <1>2, <1>5, <1>6, <1>7, <1>10

(* The same of a descriptor that a call carries. *)
LEMMA CalledIsHeld ==
  ASSUME EpdTypes, Lists, Accounts,
         NEW r \in Request, NEW e \in Encoder, NEW i \in DOMAIN post[r][e].todo,
         post[r][e].todo[i].wire # Inline
  PROVE  LET d == post[r][e].todo[i].wire
             c == ring[d.name].cell[d.address]
         IN  /\ d \in Wire /\ d.name[2] <= deaths[d.name[1]]
             /\ d.address \in Live(ring[d.name]) /\ c.id = d.id
             /\ c.hash = post[r][e].todo[i].hash /\ Unread(c)
<1>0. PICK todo \in Seq(Staged) : todo = post[r][e].todo /\ i \in DOMAIN todo
  BY DEF EpdTypes, Call
<1>1. PICK it \in Staged : it = todo[i]
  BY <1>0
<1>2. PICK d \in Wire : d = it.wire
  BY <1>0, <1>1 DEF Staged
<1>3. d.name \in Segment /\ d.address \in Address /\ d.id \in Nat /\ d = Handle(d.name, d.address, d.id)
  BY WireIsHandle
<1>4. Kept(ring, deaths, it)
  BY <1>0, <1>1 DEF Lists
<1>5. PICK c \in CellType : c = ring[d.name].cell[d.address]
  BY <1>3 DEF EpdTypes, RingType
<1>6. /\ d.name[2] <= deaths[d.name[1]] /\ c.id = d.id /\ c.id >= ring[d.name].first
      /\ c.hash = it.hash
  BY <1>0, <1>1, <1>2, <1>4, <1>5 DEF Kept
<1>7. d.address \in Live(ring[d.name])
  BY <1>3, <1>5, <1>6 DEF Live
<1>8. Owes(c, StagedAt(work, d), CalledWith(post, d), d \notin waste)
  BY <1>3, <1>5, <1>6, <1>7 DEF Accounts, Owed
<1>9. r \in CalledWith(post, d)
  BY <1>0, <1>1, <1>2 DEF CalledWith
<1>10. Unread(c)
  <2>1. IsFiniteSet(StagedAt(work, d)) /\ IsFiniteSet(CalledWith(post, d))
    BY <1>8 DEF Owes
  <2>2. Cardinality(CalledWith(post, d)) \in Nat /\ Cardinality(CalledWith(post, d)) # 0
        /\ Cardinality(StagedAt(work, d)) \in Nat
    BY <1>9, <2>1, FS_CardinalityType, FS_EmptySet
  <2>3. c.reads \in Nat /\ c.writes \in Nat
    BY DEF CellType
  <2> QED BY <1>8, <2>2, <2>3 DEF Owes, Unread
<1> QED BY <1>0, <1>1, <1>2, <1>5, <1>6, <1>7, <1>10

------------------------------------------------------------------------------
(* The parts of a step. *)

(* A batch is a list of staged items, and the calls of a list are calls. *)
LEMMA BatchTypes ==
  ASSUME NEW staged \in Seq(Staged)
  PROVE  /\ \A e \in Encoder : Batch(staged, e) \in Seq(Staged)
         /\ Calls(staged) \in [Encoder -> Call]
<1>1. \A e \in Encoder : Batch(staged, e) \in Seq(Staged)
  <2> TAKE e \in Encoder
  <2>1. {i \in Unique(staged) : VeOf[staged[i].hash] = e} \in SUBSET DOMAIN staged
    BY DEF Unique
  <2> QED BY <2>1, PickedList DEF Batch
<1>2. NoPost \in Call
  BY DEF NoPost, Call
<1>3. \A e \in Encoder : [st |-> "sent", todo |-> Batch(staged, e)] \in Call
  BY <1>1 DEF Call
<1> QED BY <1>1, <1>2, <1>3 DEF Calls

(* A segment of a worker that lives is one. *)
LEMMA CurrentIsSegment ==
  ASSUME EpdTypes, NEW w \in Worker
  PROVE  Current(w) \in Segment
  BY DEF EpdTypes, Current, Segment

(* Wherever an encoder looks a name up, it finds the segment of that name. *)
LEMMA StoreOfName ==
  ASSUME EpdTypes, NEW e \in Encoder, NEW s \in Segment, s[2] <= deaths[s[1]]
  PROVE  Store(e, s) = s
<1>1. CASE s \in readers[e]
  <2>1. {t \in readers[e] : Name(t) = s} = {s}
    BY <1>1 DEF Name
  <2> QED BY <2>1 DEF Store
<1>2. CASE s \notin readers[e]
  <2>1. {t \in readers[e] : Name(t) = s} = {}
    BY <1>2 DEF Name
  <2>2. {u \in Segment : Name(u) = s /\ u[2] <= deaths[u[1]]} = {s}
    BY DEF Name
  <2>3. {t[2] : t \in {u \in Segment : Name(u) = s /\ u[2] <= deaths[u[1]]}} = {s[2]}
    BY <2>2
  <2>4. s[2] \in Int
    BY StagingAssumption DEF Segment
  <2>5. Max({s[2]}) = s[2]
    BY <2>4 DEF Max
  <2>6. Store(e, s) = CHOOSE t \in Segment : Name(t) = s /\ t[2] = s[2]
    BY <2>1, <2>3, <2>5 DEF Store
  <2> QED BY <2>6 DEF Name
<1> QED BY <1>1, <1>2

(* A step that leaves the shared memory alone keeps its types. *)
LEMMA StagingStays ==
  ASSUME EpdTypes, UNCHANGED stagingVars
  PROVE  /\ ring' \in [Segment -> RingType]
         /\ deaths' \in [Worker -> 0 .. MaxDeaths]
         /\ readers' \in [Encoder -> SUBSET Segment]
  BY DEF EpdTypes, stagingVars

(* A call that is lost leaves the calls calls. *)
LEMMA LoseTypes ==
  ASSUME EpdTypes, NEW r \in Request, NEW e \in Encoder, Lose(r, e)
  PROVE  post' \in [Request -> [Encoder -> Call]]
<1>1. [st |-> "lost", todo |-> <<>>] \in Call
  BY DEF Call
<1>2. post \in [Request -> [Encoder -> Call]]
  BY DEF EpdTypes
<1>3. post' = [post EXCEPT ![r][e] = [st |-> "lost", todo |-> <<>>]]
  BY DEF Lose
<1> QED BY <1>1, <1>2, <1>3

(* What an encoder reads of a call is what was staged; the call goes on.    *)
LEMMA ReadsAsStaged ==
  ASSUME EpdTypes, Lists, Accounts, NEW r \in Request, NEW e \in Encoder, EncoderReads(r, e)
  PROVE  LET todo == post[r][e].todo
             it == Head(todo)
             d == it.wire
         IN  /\ todo # <<>> /\ 1 \in DOMAIN todo /\ it = todo[1] /\ it \in Staged
             /\ post' = [post EXCEPT ![r][e].todo = Tail(@)]
             /\ encoded' = [encoded EXCEPT ![r] = @ \cup {<<it.hash, it.hash>>}]
             /\ UNCHANGED <<waste, deaths, st, media, tasks, work, ready>>
             /\ it.wire = Inline => UNCHANGED stagingVars
             /\ it.wire # Inline =>
                  /\ d \in Wire
                  /\ readers' = [readers EXCEPT ![e] = @ \cup {d.name}]
                  /\ ring' = [ring EXCEPT ![d.name].cell[d.address].reads = @ + 1]
<1>1. PICK todo \in Seq(Staged) : todo = post[r][e].todo
  BY DEF EpdTypes, Call
<1>2. todo # <<>> /\ 1 \in DOMAIN todo /\ Head(todo) = todo[1] /\ todo[1] \in Staged
  BY <1>1 DEF EncoderReads
<1>3. PICK it \in Staged : it = Head(todo)
  BY <1>2
<1>4. CASE it.wire = Inline
  BY <1>1, <1>2, <1>3, <1>4 DEF EncoderReads, stagingVars
<1>5. CASE it.wire # Inline
  <2>1. PICK d \in Wire : d = it.wire
    BY <1>5 DEF Staged
  <2>2. /\ d.name[2] <= deaths[d.name[1]]
        /\ ring[d.name].cell[d.address].id = d.id
        /\ ring[d.name].cell[d.address].hash = it.hash
    BY <1>1, <1>2, <1>3, <1>5, <2>1, CalledIsHeld
  <2>3. Store(e, d.name) = d.name
    BY <2>1, <2>2, WireIsHandle, StoreOfName
  <2>4. Readable(e, d) /\ PixelsAt(e, d) = it.hash
    BY <2>2, <2>3 DEF Readable, PixelsAt
  <2>5. /\ Read(e, d)
        /\ IF Readable(e, d)
           THEN /\ post' = [post EXCEPT ![r][e].todo = Tail(@)]
                /\ UNCHANGED waste
                /\ encoded' = [encoded EXCEPT ![r] = @ \cup {<<it.hash, PixelsAt(e, d)>>}]
           ELSE Lose(r, e) /\ UNCHANGED encoded
        /\ UNCHANGED <<st, media, tasks, work, ready>>
    BY <1>1, <1>3, <1>5, <2>1 DEF EncoderReads
  <2>6. /\ readers' = [readers EXCEPT ![e] = @ \cup {d.name}]
        /\ ring' = [ring EXCEPT ![d.name].cell[d.address].reads = @ + 1]
        /\ UNCHANGED deaths
    BY <2>3, <2>4, <2>5 DEF Read
  <2> QED BY <1>1, <1>2, <1>3, <1>5, <2>1, <2>4, <2>5, <2>6
<1> QED BY <1>4, <1>5

------------------------------------------------------------------------------
(* Types. *)

(* A read is counted, and nothing else of the segment changes. *)
Counted(q, a) == [q EXCEPT !.cell[a].reads = @ + 1]

(* Counting a read keeps the store in order and its live slots live. *)
LEMMA ReadCounted ==
  ASSUME NEW q \in RingType, InOrder(q), NEW a \in Address
  PROVE  LET r == Counted(q, a)
         IN  /\ r \in RingType /\ InOrder(r) /\ r.first = q.first /\ r.next = q.next /\ r.end = q.end
             /\ \A b \in Address : r.cell[b].id = q.cell[b].id /\ r.cell[b].hash = q.cell[b].hash
             /\ \A b \in Address : r.cell[b].writes = q.cell[b].writes
             /\ r.cell[a].reads = q.cell[a].reads + 1
             /\ \A b \in Address : b # a => r.cell[b] = q.cell[b]
             /\ Live(r) = Live(q)
<1>0. PICK r : r = Counted(q, a)
  OBVIOUS
<1>1. /\ q.cell \in [Address -> CellType] /\ q.first \in Nat /\ q.next \in Nat /\ q.end \in Address
      /\ q \in [first : Nat, next : Nat, end : Address, cell : [Address -> CellType]]
  BY DEF RingType
<1>2. PICK c \in CellType : c = q.cell[a]
  BY <1>1
<1>3. PICK c2 : c2 = [c EXCEPT !.reads = @ + 1]
  OBVIOUS
<1>4. c2 \in CellType /\ c2.id = c.id /\ c2.hash = c.hash /\ c2.writes = c.writes /\ c2.reads = c.reads + 1
  BY <1>3 DEF CellType
<1>5. r = [q EXCEPT !.cell = [q.cell EXCEPT ![a] = c2]]
  BY <1>0, <1>1, <1>2, <1>3 DEF Counted
<1>6. /\ r.first = q.first /\ r.next = q.next /\ r.end = q.end
      /\ r.cell = [q.cell EXCEPT ![a] = c2] /\ r \in RingType
  <2>1. [q.cell EXCEPT ![a] = c2] \in [Address -> CellType]
    BY <1>1, <1>4
  <2> QED BY <1>1, <1>5, <2>1 DEF RingType
<1>7. r.cell[a] = c2 /\ \A b \in Address : b # a => r.cell[b] = q.cell[b]
  BY <1>1, <1>6
<1>8. \A b \in Address : /\ r.cell[b].id = q.cell[b].id /\ r.cell[b].hash = q.cell[b].hash
                         /\ r.cell[b].writes = q.cell[b].writes
  BY <1>2, <1>4, <1>7
<1>9. Live(r) = Live(q)
  BY <1>6, <1>8 DEF Live
<1>10. InOrder(r)
  BY <1>6, <1>8, <1>9 DEF InOrder, Live
<1> QED BY <1>0, <1>2, <1>4, <1>6, <1>7, <1>8, <1>9, <1>10

(* One field of what a worker does, or of a call, is set. *)
LEMMA ReqSet ==
  ASSUME EpdTypes, NEW w \in Worker, NEW q \in Request, NEW wk, wk = [work EXCEPT ![w].req = {q}]
  PROVE  /\ wk \in [Worker -> [req : SUBSET Request, staged : Seq(Staged)]]
         /\ wk[w].req = {q} /\ wk[w].staged = work[w].staged
         /\ \A v \in Worker : v # w => wk[v] = work[v]
<1>1. work \in [Worker -> [req : SUBSET Request, staged : Seq(Staged)]]
  BY DEF EpdTypes
<1>2. PICK x \in [req : SUBSET Request, staged : Seq(Staged)] : x = work[w]
  BY <1>1
<1>3. PICK y : y = [x EXCEPT !.req = {q}]
  OBVIOUS
<1>4. y \in [req : SUBSET Request, staged : Seq(Staged)] /\ y.req = {q} /\ y.staged = x.staged
  BY <1>3
<1>5. wk = [work EXCEPT ![w] = y]
  BY <1>2, <1>3
<1> QED BY <1>1, <1>2, <1>4, <1>5

(* A worker's list is replaced. *)
LEMMA StagedSet ==
  ASSUME EpdTypes, NEW w \in Worker, NEW staged \in Seq(Staged), NEW wk, wk = [work EXCEPT ![w].staged = staged]
  PROVE  /\ wk \in [Worker -> [req : SUBSET Request, staged : Seq(Staged)]]
         /\ wk[w].staged = staged /\ wk[w].req = work[w].req
         /\ \A v \in Worker : v # w => wk[v] = work[v]
<1>1. work \in [Worker -> [req : SUBSET Request, staged : Seq(Staged)]]
  BY DEF EpdTypes
<1>2. PICK x \in [req : SUBSET Request, staged : Seq(Staged)] : x = work[w]
  BY <1>1
<1>3. PICK y : y = [x EXCEPT !.staged = staged]
  OBVIOUS
<1>4. y \in [req : SUBSET Request, staged : Seq(Staged)] /\ y.staged = staged /\ y.req = x.req
  BY <1>3
<1>5. wk = [work EXCEPT ![w] = y]
  BY <1>2, <1>3
<1> QED BY <1>1, <1>2, <1>4, <1>5

(* A call of a request is replaced. *)
LEMMA CallSet ==
  ASSUME EpdTypes, NEW r \in Request, NEW e \in Encoder, NEW v \in Call, NEW po,
         po = [post EXCEPT ![r][e] = v]
  PROVE  /\ po \in [Request -> [Encoder -> Call]] /\ po[r][e] = v
         /\ \A q \in Request : \A k \in Encoder : q # r \/ k # e => po[q][k] = post[q][k]
<1>1. post \in [Request -> [Encoder -> Call]]
  BY DEF EpdTypes
<1> QED BY <1>1

(* What is left to read of a call is replaced. *)
LEMMA TodoSet ==
  ASSUME EpdTypes, NEW r \in Request, NEW e \in Encoder, NEW todo \in Seq(Staged), NEW po,
         po = [post EXCEPT ![r][e].todo = todo]
  PROVE  /\ po \in [Request -> [Encoder -> Call]]
         /\ po[r][e].st = post[r][e].st /\ po[r][e].todo = todo
         /\ \A q \in Request : \A k \in Encoder : q # r \/ k # e => po[q][k] = post[q][k]
<1>1. PICK x \in Call : x = post[r][e]
  BY DEF EpdTypes
<1>2. PICK y : y = [x EXCEPT !.todo = todo]
  OBVIOUS
<1>3. y \in Call /\ y.st = x.st /\ y.todo = todo
  BY <1>2 DEF Call
<1>4. po = [post EXCEPT ![r][e] = y]
  BY <1>1, <1>2
<1>5. post \in [Request -> [Encoder -> Call]]
  BY DEF EpdTypes
<1>6. po \in [Request -> [Encoder -> Call]] /\ po[r][e] = y
  BY <1>3, <1>4, <1>5
<1>7. \A q \in Request : \A k \in Encoder : q # r \/ k # e => po[q][k] = post[q][k]
  BY <1>4, <1>5
<1> QED BY <1>1, <1>3, <1>6, <1>7

(* A call is answered; what is left to read of it stays. *)
LEMMA DoneSet ==
  ASSUME EpdTypes, NEW r \in Request, NEW e \in Encoder, NEW po, po = [post EXCEPT ![r][e].st = "done"]
  PROVE  /\ po \in [Request -> [Encoder -> Call]]
         /\ po[r][e].st = "done" /\ po[r][e].todo = post[r][e].todo
         /\ \A q \in Request : \A k \in Encoder : q # r \/ k # e => po[q][k] = post[q][k]
<1>1. PICK x \in Call : x = post[r][e]
  BY DEF EpdTypes
<1>2. PICK y : y = [x EXCEPT !.st = "done"]
  OBVIOUS
<1>3. y \in Call /\ y.st = "done" /\ y.todo = x.todo
  BY <1>2 DEF Call
<1>4. po = [post EXCEPT ![r][e] = y]
  BY <1>1, <1>2
<1>5. post \in [Request -> [Encoder -> Call]]
  BY DEF EpdTypes
<1>6. po \in [Request -> [Encoder -> Call]] /\ po[r][e] = y
  BY <1>3, <1>4, <1>5
<1>7. \A q \in Request : \A k \in Encoder : q # r \/ k # e => po[q][k] = post[q][k]
  BY <1>4, <1>5
<1> QED BY <1>1, <1>3, <1>6, <1>7

(* Every step of the router, the pool and the encoders keeps the types. *)
LEMMA TypesKept ==
  ASSUME EpdTypes, Rings, Lists, Accounts, Flow, EpdNext
  PROVE  EpdTypes'
<1> DEFINE Stages == {"new", "rendering", "gathering", "driving"} \cup Ended
<1>1. /\ ring \in [Segment -> RingType]
      /\ deaths \in [Worker -> 0 .. MaxDeaths]
      /\ readers \in [Encoder -> SUBSET Segment]
      /\ st \in [Request -> Stages]
      /\ media \in [Request -> Seq(Hash)]
      /\ tasks \in Seq(Request)
      /\ work \in [Worker -> [req : SUBSET Request, staged : Seq(Staged)]]
      /\ post \in [Request -> [Encoder -> Call]]
      /\ ready \in [Request -> SUBSET Hash]
      /\ encoded \in [Request -> SUBSET (Hash \X (Hash \cup {WarmUp}))]
  BY DEF EpdTypes
<1>2. NoWork \in [req : SUBSET Request, staged : Seq(Staged)]
  BY DEF NoWork
<1>3. ASSUME NEW r \in Request, Submit(r) PROVE EpdTypes'
  <2>1. media' \in [Request -> Seq(Hash)]
    BY <1>1, <1>3, RouterAssumption DEF Submit
  <2>2. st' \in [Request -> Stages] /\ tasks' \in Seq(Request)
    BY <1>1, <1>3 DEF Submit
  <2> QED BY <1>1, <1>3, <2>1, <2>2, StagingStays DEF Submit, EpdTypes
<1>4. ASSUME NEW w \in Worker, TakeTask(w) PROVE EpdTypes'
  <2>1. Head(tasks) \in Request /\ tasks' \in Seq(Request)
    BY <1>1, <1>4 DEF TakeTask
  <2>2. work' \in [Worker -> [req : SUBSET Request, staged : Seq(Staged)]]
    <3>1. work' = [work EXCEPT ![w].req = {Head(tasks)}]
      BY <1>4 DEF TakeTask
    <3> QED BY <2>1, <3>1, ReqSet
  <2> QED BY <1>1, <1>4, <2>1, <2>2, StagingStays DEF TakeTask, EpdTypes
<1>5. ASSUME NEW w \in Worker, NEW r \in Request, StageItem(w, r) PROVE EpdTypes'
  <2>1. PICK list \in Seq(Hash), staged \in Seq(Staged) : list = media[r] /\ staged = work[w].staged
    BY <1>1
  <2>2. PICK h : h = list[Len(staged) + 1]
    OBVIOUS
  <2>3. h \in Hash
    <3>1. Len(staged) < Len(list)
      <4>1. Len(staged) <= Len(list) /\ Len(staged) # Len(list)
        BY <1>5, <2>1 DEF StageItem, StagedAll, Flow
      <4> QED BY <2>1, <4>1
    <3> QED BY <2>1, <2>2, <3>1
  <2>4. PICK s \in Segment : s = Current(w)
    BY CurrentIsSegment
  <2>5. ring[s] \in RingType /\ InOrder(ring[s])
    BY <1>1 DEF Rings
  <2>6. PICK put : put = PutItem(s, h)
    OBVIOUS
  <2>7. put.ring \in RingType /\ put.wire \in Wire \cup {Inline}
    BY <2>3, <2>5, <2>6, PutItemEffect
  <2>8. /\ ring' = [ring EXCEPT ![s] = put.ring]
        /\ work' = [work EXCEPT ![w].staged = Append(@, [hash |-> h, wire |-> put.wire])]
        /\ UNCHANGED <<deaths, readers, st, media, tasks, post, ready, encoded>>
    BY <1>5, <2>1, <2>2, <2>4, <2>6 DEF StageItem
  <2>9. [hash |-> h, wire |-> put.wire] \in Staged
    BY <2>3, <2>7 DEF Staged
  <2>10. work' \in [Worker -> [req : SUBSET Request, staged : Seq(Staged)]]
    <3>0. Append(staged, [hash |-> h, wire |-> put.wire]) \in Seq(Staged)
      BY <2>9
    <3>1. PICK more \in Seq(Staged) : more = Append(staged, [hash |-> h, wire |-> put.wire])
      BY <3>0
    <3>2. work' = [work EXCEPT ![w].staged = more]
      BY <2>1, <2>8, <3>1
    <3> QED BY <3>2, StagedSet
  <2>11. ring' \in [Segment -> RingType]
    BY <1>1, <2>7, <2>8
  <2> QED BY <1>1, <2>8, <2>10, <2>11 DEF EpdTypes
<1>6. ASSUME NEW w \in Worker, NEW r \in Request, Rendered(w, r) PROVE EpdTypes'
  <2>1. Calls(work[w].staged) \in [Encoder -> Call]
    BY <1>1, BatchTypes
  <2>2. st' \in [Request -> Stages] /\ post' \in [Request -> [Encoder -> Call]]
    <3>1. CASE WaitedFor(r)
      BY <1>1, <1>6, <2>1, <3>1 DEF Rendered
    <3>2. CASE ~WaitedFor(r)
      BY <1>1, <1>6, <3>2 DEF Rendered
    <3> QED BY <3>1, <3>2
  <2>3. work' \in [Worker -> [req : SUBSET Request, staged : Seq(Staged)]]
    BY <1>1, <1>2, <1>6 DEF Rendered
  <2> QED BY <1>1, <1>6, <2>2, <2>3, StagingStays DEF Rendered, EpdTypes
<1>7. ASSUME NEW w \in Worker, NEW r \in Request, RenderFails(w, r) PROVE EpdTypes'
  <2>1. st' \in [Request -> Stages]
    BY <1>1, <1>7 DEF RenderFails, Ended
  <2>2. work' \in [Worker -> [req : SUBSET Request, staged : Seq(Staged)]]
    BY <1>1, <1>2, <1>7 DEF RenderFails
  <2> QED BY <1>1, <1>7, <2>1, <2>2, StagingStays DEF RenderFails, EpdTypes
<1>8. ASSUME NEW w \in Worker, WorkerDies(w) PROVE EpdTypes'
  <2>1. deaths' \in [Worker -> 0 .. MaxDeaths]
    BY <1>1, <1>8, StagingAssumption DEF WorkerDies, Replace
  <2>2. work' \in [Worker -> [req : SUBSET Request, staged : Seq(Staged)]]
    BY <1>1, <1>2, <1>8 DEF WorkerDies
  <2> QED BY <1>1, <1>8, <2>1, <2>2 DEF WorkerDies, Replace, EpdTypes
<1>9. ASSUME NEW r \in Request, RenderTimeout(r) \/ GatherFails(r) \/ Gathered(r) \/ Answer(r) \/ ClientLeaves(r)
      PROVE  EpdTypes'
  <2>1. st' \in [Request -> Stages]
    BY <1>1, <1>9 DEF RenderTimeout, GatherFails, Gathered, Answer, ClientLeaves, Ended
  <2>2. UNCHANGED <<stagingVars, media, tasks, work, post, ready, waste, encoded>>
    BY <1>9 DEF RenderTimeout, GatherFails, Gathered, Answer, ClientLeaves
  <2> QED BY <1>1, <2>1, <2>2, StagingStays DEF EpdTypes
<1>10. ASSUME NEW r \in Request, NEW e \in Encoder, EncoderReads(r, e) PROVE EpdTypes'
  <2>1. PICK todo \in Seq(Staged) : todo = post[r][e].todo
    BY <1>1 DEF Call
  <2>2. PICK it \in Staged : it = Head(todo)
    BY <1>10, <2>1 DEF EncoderReads
  <2>3. /\ todo # <<>> /\ post' = [post EXCEPT ![r][e].todo = Tail(@)]
        /\ encoded' = [encoded EXCEPT ![r] = @ \cup {<<it.hash, it.hash>>}]
        /\ UNCHANGED <<deaths, st, media, tasks, work, ready>>
    BY <1>10, <2>1, <2>2, ReadsAsStaged
  <2>4. post' \in [Request -> [Encoder -> Call]]
    <3>0. Tail(todo) \in Seq(Staged)
      BY <2>3
    <3>1. PICK rest \in Seq(Staged) : rest = Tail(todo)
      BY <3>0
    <3>2. post' = [post EXCEPT ![r][e].todo = rest]
      BY <2>1, <2>3, <3>1
    <3> QED BY <3>2, TodoSet
  <2>5. encoded' \in [Request -> SUBSET (Hash \X (Hash \cup {WarmUp}))]
    <3>1. <<it.hash, it.hash>> \in Hash \X (Hash \cup {WarmUp})
      BY DEF Staged
    <3> QED BY <1>1, <2>3, <3>1
  <2>6. ring' \in [Segment -> RingType] /\ readers' \in [Encoder -> SUBSET Segment]
    <3>1. CASE it.wire = Inline
      BY <1>1, <1>10, <2>1, <2>2, <3>1, ReadsAsStaged DEF stagingVars
    <3>2. CASE it.wire # Inline
      <4>1. PICK d \in Wire : d = it.wire
        BY <3>2 DEF Staged
      <4>2. d.name \in Segment /\ d.address \in Address
        BY WireIsHandle
      <4>3. /\ readers' = [readers EXCEPT ![e] = @ \cup {d.name}]
            /\ ring' = [ring EXCEPT ![d.name].cell[d.address].reads = @ + 1]
        BY <1>10, <2>1, <2>2, <3>2, <4>1, ReadsAsStaged
      <4>4. PICK q \in RingType : q = ring[d.name] /\ InOrder(q)
        BY <1>1, <4>2 DEF Rings
      <4>5. PICK q2 : q2 = Counted(q, d.address)
        OBVIOUS
      <4>6. q2 \in RingType
        BY <4>2, <4>4, <4>5, ReadCounted
      <4>7. ring' = [ring EXCEPT ![d.name] = q2]
        BY <1>1, <4>2, <4>3, <4>4, <4>5 DEF Counted
      <4> QED BY <1>1, <4>2, <4>3, <4>6, <4>7
    <3> QED BY <3>1, <3>2
  <2> QED BY <1>1, <2>3, <2>4, <2>5, <2>6 DEF EpdTypes
<1>11. ASSUME NEW r \in Request, NEW e \in Encoder, EncoderReplies(r, e) PROVE EpdTypes'
  <2>1. post' \in [Request -> [Encoder -> Call]] /\ ready' \in [Request -> SUBSET Hash]
    <3>1. PICK missing :
            IF Complete(Asked(r, e), Asked(r, e) \ missing)
            THEN /\ post' = [post EXCEPT ![r][e].st = "done"]
                 /\ ready' = [ready EXCEPT ![r] = @ \cup (Asked(r, e) \ missing)]
                 /\ UNCHANGED waste
            ELSE Lose(r, e) /\ UNCHANGED ready
      BY <1>11 DEF EncoderReplies
    <3>2. CASE Complete(Asked(r, e), Asked(r, e) \ missing)
      <4>1. Asked(r, e) \subseteq Hash
        <5>1. media[r] \in Seq(Hash)
          BY <1>1
        <5> QED BY <5>1 DEF Asked, Range
      <4>2. /\ post' = [post EXCEPT ![r][e].st = "done"]
            /\ ready' = [ready EXCEPT ![r] = @ \cup (Asked(r, e) \ missing)]
        BY <3>1, <3>2
      <4>4. post' \in [Request -> [Encoder -> Call]]
        BY <4>2, DoneSet
      <4>5. ready' \in [Request -> SUBSET Hash]
        BY <1>1, <4>1, <4>2
      <4> QED BY <4>4, <4>5
    <3>3. CASE ~Complete(Asked(r, e), Asked(r, e) \ missing)
      BY <1>1, <3>1, <3>3, LoseTypes
    <3> QED BY <3>2, <3>3
  <2> QED BY <1>1, <1>11, <2>1, StagingStays DEF EncoderReplies, EpdTypes
<1>12. ASSUME NEW r \in Request, NEW e \in Encoder, CallFails(r, e) PROVE EpdTypes'
  <2>1. post' \in [Request -> [Encoder -> Call]]
    BY <1>12, LoseTypes DEF CallFails
  <2> QED BY <1>1, <1>12, <2>1, StagingStays DEF CallFails, EpdTypes
<1> HIDE DEF Stages
<1> QED BY <1>3, <1>4, <1>5, <1>6, <1>7, <1>8, <1>9, <1>10, <1>11, <1>12
        DEF EpdNext, RouterStep, PoolStep, Fault

------------------------------------------------------------------------------
(* Steps that drop lists and calls. *)

(* A promise to a reader is kept when the slot it is of keeps its id and *)
(* its item, is not given up, and its segment stays.                     *)
LEMMA KeptMoved ==
  ASSUME NEW rg, NEW dt, NEW it, Kept(rg, dt, it), NEW rg2, NEW dt2,
         it.wire # Inline =>
           LET s == it.wire.name
               c == rg[s].cell[it.wire.address]
               c2 == rg2[s].cell[it.wire.address]
           IN  c2.id = c.id /\ c2.hash = c.hash /\ c2.id >= rg2[s].first /\ s[2] <= dt2[s[1]]
  PROVE  Kept(rg2, dt2, it)
  BY DEF Kept

(* Lists and calls are dropped, and what they carried is given up. *)
Drops ==
  /\ ring' = ring
  /\ \A w \in Worker : deaths[w] <= deaths'[w]
  /\ \A w \in Worker :
       /\ work'[w].staged \in {work[w].staged, <<>>}
       /\ work'[w].req = {} => work'[w].staged = <<>>
       /\ work'[w].staged # work[w].staged => Wires(work[w].staged) \subseteq waste'
  /\ \A r \in Request, e \in Encoder :
       /\ post'[r][e].todo \in {post[r][e].todo, <<>>}
       /\ post'[r][e].st # "sent" => post'[r][e].todo = <<>>
       /\ post'[r][e].todo # post[r][e].todo => Wires(post[r][e].todo) \subseteq waste'
  /\ waste \subseteq waste'

(* Dropping lists and calls breaks no promise of those that remain. *)
LEMMA ListsDropped ==
  ASSUME EpdTypes, EpdTypes', Lists, Accounts, Drops
  PROVE  Lists'
<1>1. ASSUME NEW w \in Worker
      PROVE  /\ work'[w].req = {} => work'[w].staged = <<>>
             /\ \A i \in DOMAIN work'[w].staged : Kept(ring', deaths', work'[w].staged[i])
  <2>1. CASE work'[w].staged = <<>>
    BY <2>1
  <2>2. CASE work'[w].staged # <<>>
    <3>1. work'[w].staged = work[w].staged /\ work'[w].req # {}
      BY <2>2 DEF Drops
    <3>2. ASSUME NEW i \in DOMAIN work[w].staged
          PROVE  Kept(ring', deaths', work[w].staged[i])
      <4>1. PICK it : it = work[w].staged[i] /\ Kept(ring, deaths, it)
        BY DEF Lists
      <4>2. CASE it.wire = Inline
        BY <4>1, <4>2 DEF Kept
      <4>3. CASE it.wire # Inline
        <5>1. /\ it.wire \in Wire /\ it.wire.name[2] <= deaths[it.wire.name[1]]
              /\ it.wire.address \in Live(ring[it.wire.name])
          BY <4>1, <4>3, StagedIsHeld
        <5>2. it.wire.name \in Segment
          BY <5>1, WireIsHandle
        <5>3. PICK s \in Segment : s = it.wire.name
          BY <5>2
        <5>4. s[1] \in Worker /\ s[2] \in Int /\ deaths[s[1]] \in Int /\ deaths'[s[1]] \in Int
          BY StagingAssumption DEF Segment, EpdTypes
        <5>5. s[2] <= deaths'[s[1]]
          BY <5>1, <5>3, <5>4 DEF Drops
        <5>6. ring' = ring
          BY DEF Drops
        <5> QED BY <4>1, <5>3, <5>5, <5>6 DEF Kept
      <4> QED BY <4>1, <4>2, <4>3
    <3> QED BY <3>1, <3>2
  <2> QED BY <2>1, <2>2
<1>2. ASSUME NEW r \in Request, NEW e \in Encoder
      PROVE  /\ post'[r][e].st # "sent" => post'[r][e].todo = <<>>
             /\ \A i \in DOMAIN post'[r][e].todo :
                  /\ Kept(ring', deaths', post'[r][e].todo[i])
                  /\ VeOf[post'[r][e].todo[i].hash] = e
                  /\ \A j \in DOMAIN post'[r][e].todo : post'[r][e].todo[i].hash = post'[r][e].todo[j].hash => i = j
  <2>1. CASE post'[r][e].todo = <<>>
    BY <2>1
  <2>2. CASE post'[r][e].todo # <<>>
    <3>1. post'[r][e].todo = post[r][e].todo /\ post'[r][e].st = "sent"
      BY <2>2 DEF Drops
    <3>2. ASSUME NEW i \in DOMAIN post[r][e].todo
          PROVE  Kept(ring', deaths', post[r][e].todo[i])
      <4>1. PICK it : it = post[r][e].todo[i] /\ Kept(ring, deaths, it)
        BY DEF Lists
      <4>2. CASE it.wire = Inline
        BY <4>1, <4>2 DEF Kept
      <4>3. CASE it.wire # Inline
        <5>1. /\ it.wire \in Wire /\ it.wire.name[2] <= deaths[it.wire.name[1]]
              /\ it.wire.address \in Live(ring[it.wire.name])
          BY <4>1, <4>3, CalledIsHeld
        <5>2. it.wire.name \in Segment
          BY <5>1, WireIsHandle
        <5>3. PICK s \in Segment : s = it.wire.name
          BY <5>2
        <5>4. s[1] \in Worker /\ s[2] \in Int /\ deaths[s[1]] \in Int /\ deaths'[s[1]] \in Int
          BY StagingAssumption DEF Segment, EpdTypes
        <5>5. s[2] <= deaths'[s[1]]
          BY <5>1, <5>3, <5>4 DEF Drops
        <5>6. ring' = ring
          BY DEF Drops
        <5> QED BY <4>1, <5>3, <5>5, <5>6 DEF Kept
      <4> QED BY <4>1, <4>2, <4>3
    <3>3. \A i \in DOMAIN post[r][e].todo :
            /\ VeOf[post[r][e].todo[i].hash] = e
            /\ \A j \in DOMAIN post[r][e].todo : post[r][e].todo[i].hash = post[r][e].todo[j].hash => i = j
      BY DEF Lists
    <3> QED BY <3>1, <3>2, <3>3
  <2> QED BY <2>1, <2>2
<1> QED BY <1>1, <1>2 DEF Lists

(* Dropping lists and calls leaves the accounts in order: what they carried *)
(* was given up.                                                            *)
LEMMA AccountsDropped ==
  ASSUME EpdTypes, Accounts, Drops
  PROVE  Accounts'
<1> SUFFICES ASSUME NEW s \in Segment, NEW a \in Live(ring[s])
             PROVE  Owed(ring, work', post', waste', s, a)
  <2>1. ring' = ring
    BY DEF Drops
  <2> QED BY <2>1 DEF Accounts, Live
<1>1. PICK c \in CellType : c = ring[s].cell[a]
  BY DEF EpdTypes, RingType, Live
<1>2. PICK d : d = Handle(s, a, c.id)
  OBVIOUS
<1>3. Owes(c, StagedAt(work, d), CalledWith(post, d), d \notin waste)
  BY <1>1, <1>2 DEF Accounts, Owed
<1>4. StagedAt(work', d) \subseteq StagedAt(work, d)
  <2> SUFFICES ASSUME NEW p \in StagedAt(work', d) PROVE p \in StagedAt(work, d)
    OBVIOUS
  <2>0. PICK w \in Worker : \E i \in DOMAIN work'[w].staged : work'[w].staged[i].wire = d /\ p = <<w, i>>
    BY StagedPlaces
  <2>1. PICK i \in DOMAIN work'[w].staged : work'[w].staged[i].wire = d /\ p = <<w, i>>
    BY <2>0
  <2>2. work'[w].staged = work[w].staged
    BY <2>1 DEF Drops
  <2> QED BY <2>1, <2>2, StagedPlace
<1>5. CalledWith(post', d) \subseteq CalledWith(post, d)
  <2> SUFFICES ASSUME NEW r \in CalledWith(post', d) PROVE r \in CalledWith(post, d)
    OBVIOUS
  <2>0. PICK e \in Encoder : \E i \in DOMAIN post'[r][e].todo : r \in Request /\ post'[r][e].todo[i].wire = d
    BY DEF CalledWith
  <2>1. PICK i \in DOMAIN post'[r][e].todo : r \in Request /\ post'[r][e].todo[i].wire = d
    BY <2>0
  <2>2. post'[r][e].todo = post[r][e].todo
    BY <2>1 DEF Drops
  <2> QED BY <2>1, <2>2 DEF CalledWith
<1>6. d # Inline
  <2>1. a \in Address /\ c.id \in Int /\ c.id >= ring[s].first /\ ring[s].first \in Nat
    BY <1>1 DEF Live, CellType, EpdTypes, RingType
  <2>2. c.id \in Nat
    BY <2>1
  <2> QED BY <1>2, <2>1, <2>2, HandleIsWire
<1>7. ASSUME d \notin waste'
      PROVE  d \notin waste /\ StagedAt(work', d) = StagedAt(work, d) /\ CalledWith(post', d) = CalledWith(post, d)
  <2>1. StagedAt(work, d) \subseteq StagedAt(work', d)
    <3> SUFFICES ASSUME NEW p \in StagedAt(work, d) PROVE p \in StagedAt(work', d)
      OBVIOUS
    <3>0. PICK w \in Worker : \E i \in DOMAIN work[w].staged : work[w].staged[i].wire = d /\ p = <<w, i>>
      BY StagedPlaces
    <3>1. PICK i \in DOMAIN work[w].staged : work[w].staged[i].wire = d /\ p = <<w, i>>
      BY <3>0
    <3>2. d \in Wires(work[w].staged)
      BY <1>6, <3>1 DEF Wires
    <3>3. work'[w].staged = work[w].staged
      BY <1>7, <3>2 DEF Drops
    <3> QED BY <3>1, <3>3, StagedPlace
  <2>2. CalledWith(post, d) \subseteq CalledWith(post', d)
    <3> SUFFICES ASSUME NEW r \in CalledWith(post, d) PROVE r \in CalledWith(post', d)
      OBVIOUS
    <3>0. PICK e \in Encoder : \E i \in DOMAIN post[r][e].todo : r \in Request /\ post[r][e].todo[i].wire = d
      BY DEF CalledWith
    <3>1. PICK i \in DOMAIN post[r][e].todo : r \in Request /\ post[r][e].todo[i].wire = d
      BY <3>0
    <3>2. d \in Wires(post[r][e].todo)
      BY <1>6, <3>1 DEF Wires
    <3>3. post'[r][e].todo = post[r][e].todo
      BY <1>7, <3>1, <3>2 DEF Drops
    <3> QED BY <3>1, <3>3 DEF CalledWith
  <2>3. d \notin waste
    BY <1>7 DEF Drops
  <2> QED BY <1>4, <1>5, <2>1, <2>2, <2>3
<1>8. c.reads \in Nat /\ c.writes \in Nat
  BY DEF CellType
<1>9. Owes(c, StagedAt(work', d), CalledWith(post', d), d \notin waste')
  BY <1>3, <1>4, <1>5, <1>7, <1>8, OwesLess
<1> QED BY <1>1, <1>2, <1>9 DEF Owed

------------------------------------------------------------------------------
(* Handing a rendered request to its encoders. *)

(* Two first places of one mm_hash are one place. *)
LEMMA UniqueOnce ==
  ASSUME NEW staged \in Seq(Staged), NEW i \in Unique(staged), NEW j \in Unique(staged),
         staged[i].hash = staged[j].hash
  PROVE  i = j
<1>1. i \in 1 .. Len(staged) /\ j \in 1 .. Len(staged) /\ Len(staged) \in Nat
  BY DEF Unique
<1>2. ~(i < j) /\ ~(j < i)
  BY <1>1 DEF Unique
<1> QED BY <1>1, <1>2

(* A batch holds the first items of its encoder, each once. *)
LEMMA BatchItems ==
  ASSUME NEW staged \in Seq(Staged), NEW e \in Encoder
  PROVE  LET todo == Calls(staged)[e].todo
         IN  /\ \A k \in DOMAIN todo :
                  \E i \in Unique(staged) : todo[k] = staged[i] /\ VeOf[staged[i].hash] = e
             /\ \A i \in Unique(staged) :
                  VeOf[staged[i].hash] = e => \E k \in DOMAIN todo : todo[k] = staged[i]
             /\ \A k, m \in DOMAIN todo : todo[k].hash = todo[m].hash => k = m
             /\ Calls(staged)[e].st # "sent" => todo = <<>> /\ Calls(staged)[e] = NoPost
             /\ Calls(staged)[e].st \in {"none", "sent"}
<1> DEFINE places == {i \in Unique(staged) : VeOf[staged[i].hash] = e}
<1>1. places \in SUBSET DOMAIN staged /\ places \subseteq Unique(staged)
  BY DEF Unique
<1>2. PICK b : b = Batch(staged, e) /\ b = Picked(staged, places)
  BY DEF Batch
<1>3. PICK g : /\ DOMAIN g = DOMAIN b
               /\ \A k \in DOMAIN g : g[k] \in places /\ b[k] = staged[g[k]]
               /\ \A i \in places : \E k \in DOMAIN g : g[k] = i
               /\ \A k, m \in DOMAIN g : g[k] = g[m] => k = m
  <2> HIDE DEF places
  <2>1. \E g : PicksFrom(staged, places, Picked(staged, places), g)
    BY <1>1, PickedList
  <2> QED BY <1>2, <2>1 DEF PicksFrom
<1>4. \A k, m \in DOMAIN b : b[k].hash = b[m].hash => k = m
  <2> SUFFICES ASSUME NEW k \in DOMAIN b, NEW m \in DOMAIN b, b[k].hash = b[m].hash PROVE k = m
    OBVIOUS
  <2>0. k \in DOMAIN g /\ m \in DOMAIN g
    BY <1>3
  <2>1. g[k] \in Unique(staged) /\ g[m] \in Unique(staged) /\ staged[g[k]].hash = staged[g[m]].hash
    <3>1. g[k] \in places /\ g[m] \in places /\ b[k] = staged[g[k]] /\ b[m] = staged[g[m]]
      BY <1>3, <2>0
    <3> QED BY <3>1
  <2>2. g[k] = g[m]
    BY <2>1, UniqueOnce
  <2> QED BY <1>3, <2>2
<1>5. Calls(staged)[e] = IF b = <<>> THEN NoPost ELSE [st |-> "sent", todo |-> b]
  BY <1>2 DEF Calls
<1>6. /\ Calls(staged)[e].todo = b
      /\ Calls(staged)[e].st # "sent" => b = <<>> /\ Calls(staged)[e] = NoPost
      /\ Calls(staged)[e].st \in {"none", "sent"}
  BY <1>5 DEF NoPost
<1>7. \A k \in DOMAIN b : \E i \in Unique(staged) : b[k] = staged[i] /\ VeOf[staged[i].hash] = e
  BY <1>1, <1>3
<1>8. \A i \in Unique(staged) : VeOf[staged[i].hash] = e => \E k \in DOMAIN b : b[k] = staged[i]
  BY <1>3
<1> HIDE DEF places
<1> QED BY <1>4, <1>6, <1>7, <1>8

(* The calls of a rendered request carry what its worker staged, so they *)
(* keep its promises.                                                    *)
LEMMA RenderedLists ==
  ASSUME EpdTypes, EpdTypes', Lists, NEW w \in Worker, NEW r \in Request, Rendered(w, r), WaitedFor(r)
  PROVE  Lists'
<1>1. PICK staged \in Seq(Staged) : staged = work[w].staged
  BY DEF EpdTypes
<1>2. /\ post' = [post EXCEPT ![r] = Calls(staged)]
      /\ work' = [work EXCEPT ![w] = NoWork]
      /\ ring' = ring /\ deaths' = deaths
  BY <1>1 DEF Rendered, stagingVars
<1>3. ASSUME NEW v \in Worker
      PROVE  /\ work'[v].req = {} => work'[v].staged = <<>>
             /\ \A i \in DOMAIN work'[v].staged : Kept(ring', deaths', work'[v].staged[i])
  <2>1. CASE v = w
    <3>1. work'[v].staged = <<>>
      BY <1>2, <2>1 DEF NoWork, EpdTypes
    <3> QED BY <3>1
  <2>2. CASE v # w
    <3>1. work'[v] = work[v]
      BY <1>2, <2>2 DEF EpdTypes
    <3> QED BY <1>2, <3>1 DEF Lists
  <2> QED BY <2>1, <2>2
<1>4. ASSUME NEW q \in Request, NEW e \in Encoder
      PROVE  /\ post'[q][e].st # "sent" => post'[q][e].todo = <<>>
             /\ \A i \in DOMAIN post'[q][e].todo :
                  /\ Kept(ring', deaths', post'[q][e].todo[i])
                  /\ VeOf[post'[q][e].todo[i].hash] = e
                  /\ \A j \in DOMAIN post'[q][e].todo : post'[q][e].todo[i].hash = post'[q][e].todo[j].hash => i = j
  <2>1. CASE q = r
    <3>1. PICK call : call = Calls(staged)[e] /\ post'[q][e] = call
      BY <1>2, <2>1 DEF EpdTypes
    <3>2. /\ \A k \in DOMAIN call.todo :
               \E i \in Unique(staged) : call.todo[k] = staged[i] /\ VeOf[staged[i].hash] = e
          /\ \A k, m \in DOMAIN call.todo : call.todo[k].hash = call.todo[m].hash => k = m
          /\ call.st # "sent" => call.todo = <<>>
      BY <3>1, BatchItems
    <3>3. \A i \in Unique(staged) : Kept(ring, deaths, staged[i])
      BY <1>1 DEF Lists, Unique
    <3> QED BY <1>2, <3>1, <3>2, <3>3
  <2>2. CASE q # r
    <3>1. post'[q][e] = post[q][e]
      BY <1>2, <2>2 DEF EpdTypes
    <3> QED BY <1>2, <3>1 DEF Lists
  <2> QED BY <2>1, <2>2
<1> QED BY <1>3, <1>4 DEF Lists

(* Each descriptor the worker staged passes to one call or is given up: the *)
(* duplicates that encode_request drops are the ones that no call carries.  *)
LEMMA RenderedAccounts ==
  ASSUME EpdTypes, Lists, Accounts, Flow,
         NEW w \in Worker, NEW r \in Request, Rendered(w, r), WaitedFor(r)
  PROVE  Accounts'
<1>1. PICK staged \in Seq(Staged) : staged = work[w].staged
  BY DEF EpdTypes
<1>2. /\ post' = [post EXCEPT ![r] = Calls(staged)]
      /\ work' = [work EXCEPT ![w] = NoWork]
      /\ ring' = ring /\ waste' = waste \cup Repeats(staged)
  BY <1>1 DEF Rendered, stagingVars
<1> SUFFICES ASSUME NEW s \in Segment, NEW a \in Live(ring[s])
             PROVE  Owed(ring, work', post', waste', s, a)
  BY <1>2 DEF Accounts, Live
<1>3. PICK c \in CellType : c = ring[s].cell[a]
  BY DEF EpdTypes, RingType, Live
<1>4. PICK d : d = Handle(s, a, c.id)
  OBVIOUS
<1>5. d # Inline
  <2>1. a \in Address /\ c.id \in Int /\ c.id >= ring[s].first /\ ring[s].first \in Nat
    BY <1>3 DEF Live, CellType, EpdTypes, RingType
  <2>2. c.id \in Nat
    BY <2>1
  <2> QED BY <1>4, <2>1, <2>2, HandleIsWire
<1>6. PICK A, B : A = StagedAt(work, d) /\ B = CalledWith(post, d)
  OBVIOUS
<1>7. PICK A2, B2 : A2 = StagedAt(work', d) /\ B2 = CalledWith(post', d)
  OBVIOUS
<1>8. Owes(c, A, B, d \notin waste)
  BY <1>3, <1>4, <1>6 DEF Accounts, Owed
<1>9. \A e \in Encoder : post[r][e].todo = <<>>
  BY DEF WaitedFor, Flow, NoPost
<1>10. r \notin B
  BY <1>6, <1>9 DEF CalledWith
<1>11. B2 \ {r} = B
  <2>1. \A q \in Request : q # r => post'[q] = post[q]
    BY <1>2 DEF EpdTypes
  <2>2. \A q \in Request : q # r => (q \in B2 <=> q \in B)
    BY <1>6, <1>7, <2>1 DEF CalledWith
  <2>3. B \subseteq Request /\ B2 \subseteq Request
    BY <1>6, <1>7 DEF CalledWith
  <2> QED BY <1>10, <2>2, <2>3
<1>12. \A v \in Worker : v # w => work'[v] = work[v]
  BY <1>2 DEF EpdTypes
<1>13. work'[w].staged = <<>>
  BY <1>2 DEF EpdTypes, NoWork
<1>14. A2 \subseteq A /\ \A i : <<w, i>> \notin A2
  <2>1. \A i : <<w, i>> \notin A2
    BY <1>7, <1>13, StagedPlace
  <2>2. ASSUME NEW p \in A2 PROVE p \in A
    <3>1. PICK v \in Worker : \E i \in DOMAIN work'[v].staged : work'[v].staged[i].wire = d /\ p = <<v, i>>
      BY <1>7, <2>2, StagedPlaces
    <3>2. PICK i \in DOMAIN work'[v].staged : work'[v].staged[i].wire = d /\ p = <<v, i>>
      BY <3>1
    <3>3. v # w
      BY <1>13, <3>2
    <3> QED BY <1>6, <1>12, <3>2, <3>3, StagedPlace
  <2> QED BY <2>1, <2>2
<1>15. ASSUME NEW p \in A, p \notin A2
       PROVE  \E i \in DOMAIN staged : staged[i].wire = d /\ p = <<w, i>>
  <2>1. PICK v \in Worker : \E i \in DOMAIN work[v].staged : work[v].staged[i].wire = d /\ p = <<v, i>>
    BY <1>6, <1>15, StagedPlaces
  <2>2. PICK i \in DOMAIN work[v].staged : work[v].staged[i].wire = d /\ p = <<v, i>>
    BY <2>1
  <2>3. v = w
    BY <1>7, <1>12, <1>15, <2>2, StagedPlace
  <2> QED BY <1>1, <2>2, <2>3
<1>16. ASSUME d \notin waste', NEW i \in DOMAIN staged, staged[i].wire = d
       PROVE  i \in Unique(staged) /\ r \in B2
  <2>1. i \in Unique(staged)
    BY <1>2, <1>5, <1>16 DEF Repeats
  <2>2. PICK e \in Encoder : e = VeOf[staged[i].hash]
    <3>1. staged[i] \in Staged
      BY <1>1
    <3> QED BY <3>1, RouterAssumption DEF Staged
  <2>3. PICK call : call = Calls(staged)[e] /\ post'[r][e] = call
    BY <1>2 DEF EpdTypes
  <2>4. \E k \in DOMAIN call.todo : call.todo[k] = staged[i]
    BY <2>1, <2>2, <2>3, BatchItems
  <2>5. \E k \in DOMAIN post'[r][e].todo : post'[r][e].todo[k].wire = d
    BY <1>16, <2>3, <2>4
  <2> QED BY <1>7, <2>1, <2>5 DEF CalledWith
<1>17. ASSUME d \notin waste', NEW i \in DOMAIN staged, NEW j \in DOMAIN staged,
              staged[i].wire = d, staged[j].wire = d
       PROVE  i = j
  <2>1. i \in Unique(staged) /\ j \in Unique(staged)
    BY <1>16, <1>17
  <2>2. staged[i].hash = ring[d.name].cell[d.address].hash
    BY <1>1, <1>5, <1>17, StagedIsHeld
  <2>3. staged[j].hash = ring[d.name].cell[d.address].hash
    BY <1>1, <1>5, <1>17, StagedIsHeld
  <2> QED BY <2>1, <2>2, <2>3, UniqueOnce
<1>18. c.reads \in Nat /\ c.writes \in Nat
  BY DEF CellType
<1>19. d \notin waste' => d \notin waste
  BY <1>2
<1>20. CASE A2 = A
  <2>1. r \notin B2
    <3> SUFFICES ASSUME r \in B2 PROVE FALSE
      OBVIOUS
    <3>1. PICK e \in Encoder : \E k \in DOMAIN post'[r][e].todo : post'[r][e].todo[k].wire = d
      BY <1>7 DEF CalledWith
    <3>2. PICK call : call = Calls(staged)[e] /\ post'[r][e] = call
      BY <1>2 DEF EpdTypes
    <3>3. PICK k \in DOMAIN call.todo : call.todo[k].wire = d
      BY <3>1, <3>2
    <3>4. PICK i \in Unique(staged) : call.todo[k] = staged[i]
      BY <3>2, <3>3, BatchItems
    <3>5. i \in DOMAIN work[w].staged /\ work[w].staged[i].wire = d
      BY <1>1, <3>3, <3>4 DEF Unique
    <3>6. <<w, i>> \in A
      BY <1>6, <3>5, StagedPlace
    <3> QED BY <1>14, <1>20, <3>6
  <2>2. B2 = B
    BY <1>11, <2>1
  <2>3. Owes(c, A2, B2, d \notin waste')
    BY <1>8, <1>18, <1>19, <1>20, <2>2, OwesLess
  <2> QED BY <1>2, <1>3, <1>4, <1>7, <2>3 DEF Owed
<1>21. CASE A2 # A
  <2>1. PICK p \in A : p \notin A2
    BY <1>14, <1>21
  <2>2. PICK i \in DOMAIN staged : staged[i].wire = d /\ p = <<w, i>>
    BY <1>15, <2>1
  <2>3. CASE r \in B2
    <3>1. B2 = B \cup {r}
      BY <1>11, <2>3
    <3>2. A2 \subseteq A \ {p}
      BY <1>14, <2>1
    <3>3. d \notin waste' => A2 = A \ {p}
      <4> SUFFICES ASSUME d \notin waste', NEW p2 \in A, p2 # p, p2 \notin A2 PROVE FALSE
        BY <3>2
      <4>1. PICK j \in DOMAIN staged : staged[j].wire = d /\ p2 = <<w, j>>
        BY <1>15
      <4>2. i = j
        BY <1>17, <2>2, <4>1
      <4> QED BY <2>2, <4>1, <4>2
    <3>4. Owes(c, A2, B2, d \notin waste')
      BY <1>8, <1>10, <1>18, <1>19, <2>1, <3>1, <3>2, <3>3, OwesMoved
    <3> QED BY <1>2, <1>3, <1>4, <1>7, <3>4 DEF Owed
  <2>4. CASE r \notin B2
    <3>1. d \in waste'
      BY <1>16, <2>2, <2>4
    <3>2. B2 = B
      BY <1>11, <2>4
    <3>3. Owes(c, A2, B2, d \notin waste')
      BY <1>8, <1>14, <1>18, <3>1, <3>2, OwesLess
    <3> QED BY <1>2, <1>3, <1>4, <1>7, <3>3 DEF Owed
  <2> QED BY <2>3, <2>4
<1> QED BY <1>20, <1>21

------------------------------------------------------------------------------
(* Staging an item. *)

(* Putting an item leaves what is still to be read where it is. *)
LEMMA PutKeeps ==
  ASSUME NEW q \in RingType, NEW s \in Segment, NEW h \in Hash, NEW put, put.ring \in RingType,
         Undisturbed(q, put.ring),
         PutInline(q, put) \/ PutAgain(s, q, h, put) \/ PutNew(s, q, h, put),
         NEW a \in Live(q), Unread(q.cell[a])
  PROVE  /\ put.ring.cell[a].id = q.cell[a].id /\ put.ring.cell[a].hash = q.cell[a].hash
         /\ put.ring.cell[a].id >= put.ring.first
<1>1. put.ring.cell[a].id >= put.ring.first /\ a \in Address
  BY DEF Undisturbed, Live
<1>2. q.cell \in [Address -> CellType]
  BY DEF RingType
<1>3. CASE PutInline(q, put)
  BY <1>1, <1>3 DEF PutInline
<1>4. CASE PutAgain(s, q, h, put)
  <2>1. PICK b \in Live(q) : put.ring.cell = [q.cell EXCEPT ![b].writes = @ + 1]
    BY <1>4 DEF PutAgain
  <2> QED BY <1>1, <1>2, <2>1 DEF CellType
<1>5. CASE PutNew(s, q, h, put)
  <2>1. PICK b \in Address :
          /\ put.ring.cell = [q.cell EXCEPT ![b] = [id |-> q.next, hash |-> h, writes |-> 1, reads |-> 0]]
          /\ b \in Live(q) => ~Unread(q.cell[b])
    BY <1>5 DEF PutNew
  <2> QED BY <1>1, <1>2, <2>1
<1> QED BY <1>3, <1>4, <1>5

(* What staging an item does. *)
Stages(w, s, h, put, staged, it) ==
  /\ s = Current(w) /\ put = PutItem(s, h)
  /\ staged = work[w].staged /\ it = [hash |-> h, wire |-> put.wire]
  /\ put.ring \in RingType /\ InOrder(put.ring) /\ put.wire \in Wire \cup {Inline}
  /\ ring[s].first <= put.ring.first
  /\ Undisturbed(ring[s], put.ring)
  /\ PutInline(ring[s], put) \/ PutAgain(s, ring[s], h, put) \/ PutNew(s, ring[s], h, put)
  /\ ring' = [ring EXCEPT ![s] = put.ring]
  /\ work' = [work EXCEPT ![w].staged = Append(staged, it)]
  /\ UNCHANGED <<deaths, readers, st, media, tasks, post, ready, waste, encoded>>

(* A worker that stages an item does what Stages says, and the item is the *)
(* next of the request's media.                                            *)
LEMMA StageItemStages ==
  ASSUME EpdTypes, Rings, Flow, NEW w \in Worker, NEW r \in Request, StageItem(w, r)
  PROVE  \E put : \E s \in Segment, h \in Hash, staged \in Seq(Staged), it \in Staged :
           /\ Stages(w, s, h, put, staged, it)
           /\ Len(staged) < Len(media[r]) /\ h = media[r][Len(staged) + 1]
<1>1. PICK list \in Seq(Hash), staged \in Seq(Staged) : list = media[r] /\ staged = work[w].staged
  BY DEF EpdTypes
<1>2. Len(staged) < Len(list)
  <2>1. Len(staged) <= Len(list) /\ Len(staged) # Len(list)
    BY <1>1 DEF StageItem, StagedAll, Flow
  <2> QED BY <1>1, <2>1
<1>3. PICK h \in Hash : h = list[Len(staged) + 1]
  BY <1>1, <1>2
<1>4. PICK s \in Segment : s = Current(w)
  BY CurrentIsSegment
<1>5. ring[s] \in RingType /\ InOrder(ring[s])
  BY DEF Rings, EpdTypes
<1>6. PICK put : put = PutItem(s, h)
  OBVIOUS
<1>7. /\ put.ring \in RingType /\ InOrder(put.ring) /\ put.wire \in Wire \cup {Inline}
      /\ ring[s].first <= put.ring.first
      /\ Undisturbed(ring[s], put.ring)
      /\ PutInline(ring[s], put) \/ PutAgain(s, ring[s], h, put) \/ PutNew(s, ring[s], h, put)
  BY <1>5, <1>6, PutItemEffect
<1>8. PICK it \in Staged : it = [hash |-> h, wire |-> put.wire]
  BY <1>7 DEF Staged
<1>9. /\ ring' = [ring EXCEPT ![s] = put.ring]
      /\ work' = [work EXCEPT ![w].staged = Append(@, it)]
      /\ UNCHANGED <<deaths, readers, st, media, tasks, post, ready, waste, encoded>>
  BY <1>1, <1>3, <1>4, <1>6, <1>8 DEF StageItem
<1>10. work' = [work EXCEPT ![w].staged = Append(staged, it)]
  BY <1>1, <1>9
<1>11. Stages(w, s, h, put, staged, it)
  BY <1>1, <1>4, <1>6, <1>7, <1>8, <1>9, <1>10 DEF Stages
<1> QED BY <1>1, <1>2, <1>3, <1>11

(* Staging an item keeps the stores in order and every promise that was *)
(* made.                                                                *)
LEMMA StagesLists ==
  ASSUME EpdTypes, Rings, Lists, Accounts,
         NEW w \in Worker, NEW s \in Segment, NEW h \in Hash, NEW put,
         NEW staged \in Seq(Staged), NEW it \in Staged, work[w].req # {},
         Stages(w, s, h, put, staged, it)
  PROVE  Rings' /\ Lists'
<1>0. ring \in [Segment -> RingType] /\ work \in [Worker -> [req : SUBSET Request, staged : Seq(Staged)]]
  BY DEF EpdTypes
<1>1. /\ ring'[s] = put.ring /\ \A t \in Segment : t # s => ring'[t] = ring[t]
      /\ deaths' = deaths /\ post' = post
  BY <1>0 DEF Stages
<1>2. Rings'
  BY <1>1 DEF Rings, Stages
<1>3. ASSUME NEW t \in Segment, NEW a \in Live(ring[t]), Unread(ring[t].cell[a])
      PROVE  /\ ring'[t].cell[a].id = ring[t].cell[a].id /\ ring'[t].cell[a].hash = ring[t].cell[a].hash
             /\ ring'[t].cell[a].id >= ring'[t].first
  <2>1. CASE t = s
    <3>1. ring[s] \in RingType
      BY <1>0
    <3> QED BY <1>1, <1>3, <2>1, <3>1, PutKeeps DEF Stages
  <2>2. CASE t # s
    BY <1>1, <2>2 DEF Live
  <2> QED BY <2>1, <2>2
<1>4. ASSUME NEW v \in Worker, NEW i \in DOMAIN work[v].staged
      PROVE  Kept(ring', deaths', work[v].staged[i])
  <2>1. PICK x : x = work[v].staged[i] /\ Kept(ring, deaths, x)
    BY DEF Lists
  <2>2. CASE x.wire = Inline
    BY <2>1, <2>2 DEF Kept
  <2>3. CASE x.wire # Inline
    <3>1. PICK d \in Wire : d = x.wire
      BY <2>1, <2>3, StagedIsHeld
    <3>2. /\ d.name[2] <= deaths[d.name[1]] /\ d.address \in Live(ring[d.name])
          /\ Unread(ring[d.name].cell[d.address])
      BY <2>1, <2>3, <3>1, StagedIsHeld
    <3>3. d.name \in Segment
      BY WireIsHandle
    <3>4. Kept(ring', deaths', x)
      BY <1>1, <1>3, <2>1, <3>1, <3>2, <3>3, KeptMoved
    <3> QED BY <2>1, <3>4
  <2> QED BY <2>1, <2>2, <2>3
<1>5. ASSUME NEW q \in Request, NEW e \in Encoder, NEW i \in DOMAIN post[q][e].todo
      PROVE  Kept(ring', deaths', post[q][e].todo[i])
  <2>1. PICK x : x = post[q][e].todo[i] /\ Kept(ring, deaths, x)
    BY DEF Lists
  <2>2. CASE x.wire = Inline
    BY <2>1, <2>2 DEF Kept
  <2>3. CASE x.wire # Inline
    <3>1. PICK d \in Wire : d = x.wire
      BY <2>1, <2>3, CalledIsHeld
    <3>2. /\ d.name[2] <= deaths[d.name[1]] /\ d.address \in Live(ring[d.name])
          /\ Unread(ring[d.name].cell[d.address])
      BY <2>1, <2>3, <3>1, CalledIsHeld
    <3>3. d.name \in Segment
      BY WireIsHandle
    <3>4. Kept(ring', deaths', x)
      BY <1>1, <1>3, <2>1, <3>1, <3>2, <3>3, KeptMoved
    <3> QED BY <2>1, <3>4
  <2> QED BY <2>1, <2>2, <2>3
<1>6. Kept(ring', deaths', it)
  <2>0. /\ it.wire = put.wire /\ it.hash = h /\ s[2] <= deaths[s[1]]
        /\ ring[s].first \in Nat /\ ring[s].next \in Nat /\ ring[s].cell \in [Address -> CellType]
    <3>1. s[1] = w /\ s[2] = deaths[w] /\ deaths[w] \in Int
      BY StagingAssumption DEF Stages, Current, EpdTypes
    <3> QED BY <1>0, <3>1 DEF Stages, RingType
  <2>1. CASE PutInline(ring[s], put)
    BY <2>0, <2>1 DEF PutInline, Kept
  <2>2. CASE PutAgain(s, ring[s], h, put)
    <3>1. PICK a \in Live(ring[s]) :
            /\ ring[s].cell[a].hash = h /\ put.wire = Handle(s, a, ring[s].cell[a].id)
            /\ put.ring.first = ring[s].first
            /\ put.ring.cell = [ring[s].cell EXCEPT ![a].writes = @ + 1]
      BY <2>2 DEF PutAgain
    <3>2. a \in Address /\ ring[s].cell[a].id >= ring[s].first
      BY DEF Live
    <3>3. put.ring.cell[a].id = ring[s].cell[a].id /\ put.ring.cell[a].hash = h
      BY <2>0, <3>1, <3>2 DEF CellType
    <3>4. it.wire.name = s /\ it.wire.address = a /\ it.wire.id = ring[s].cell[a].id
      BY <2>0, <3>1 DEF Handle, Name
    <3> QED BY <1>1, <2>0, <3>1, <3>2, <3>3, <3>4 DEF Kept
  <2>3. CASE PutNew(s, ring[s], h, put)
    <3>1. PICK a \in Address :
            /\ put.wire = Handle(s, a, ring[s].next)
            /\ put.ring.cell = [ring[s].cell EXCEPT ![a] = [id |-> ring[s].next, hash |-> h, writes |-> 1, reads |-> 0]]
            /\ put.ring.first <= ring[s].next
      BY <2>3 DEF PutNew
    <3>2. put.ring.cell[a].id = ring[s].next /\ put.ring.cell[a].hash = h
      BY <2>0, <3>1
    <3>3. it.wire.name = s /\ it.wire.address = a /\ it.wire.id = ring[s].next
      BY <2>0, <3>1 DEF Handle, Name
    <3>4. put.ring.cell[a].id >= put.ring.first
      <4>1. put.ring.first \in Nat
        BY DEF Stages, RingType
      <4> QED BY <2>0, <3>1, <3>2, <4>1
    <3> QED BY <1>1, <2>0, <3>2, <3>3, <3>4 DEF Kept
  <2> QED BY <2>1, <2>2, <2>3 DEF Stages
<1>7. PICK more \in Seq(Staged) : more = Append(staged, it)
  <2>1. Append(staged, it) \in Seq(Staged)
    OBVIOUS
  <2> QED BY <2>1
<1>8. work'[w].staged = more /\ work'[w].req = work[w].req /\ \A v \in Worker : v # w => work'[v] = work[v]
  <2>1. work' = [work EXCEPT ![w].staged = more]
    BY <1>7 DEF Stages
  <2> QED BY <2>1, StagedSet
<1>9. ASSUME NEW v \in Worker
      PROVE  /\ work'[v].req = {} => work'[v].staged = <<>>
             /\ \A i \in DOMAIN work'[v].staged : Kept(ring', deaths', work'[v].staged[i])
  <2>1. CASE v = w
    <3>1. ASSUME NEW i \in DOMAIN more PROVE Kept(ring', deaths', more[i])
      <4>1. CASE i = Len(staged) + 1
        BY <1>6, <1>7, <4>1
      <4>2. CASE i # Len(staged) + 1
        <5>1. i \in DOMAIN staged /\ more[i] = staged[i]
          BY <1>7, <4>2
        <5>2. staged = work[w].staged
          BY DEF Stages
        <5> QED BY <1>4, <5>1, <5>2
      <4> QED BY <4>1, <4>2
    <3> QED BY <1>8, <2>1, <3>1
  <2>2. CASE v # w
    <3>1. work'[v] = work[v]
      BY <1>8, <2>2
    <3> QED BY <1>4, <3>1 DEF Lists
  <2> QED BY <2>1, <2>2
<1>10. ASSUME NEW q \in Request, NEW e \in Encoder
      PROVE  /\ post'[q][e].st # "sent" => post'[q][e].todo = <<>>
             /\ \A i \in DOMAIN post'[q][e].todo :
                  /\ Kept(ring', deaths', post'[q][e].todo[i])
                  /\ VeOf[post'[q][e].todo[i].hash] = e
                  /\ \A j \in DOMAIN post'[q][e].todo : post'[q][e].todo[i].hash = post'[q][e].todo[j].hash => i = j
  BY <1>1, <1>5 DEF Lists
<1> QED BY <1>2, <1>9, <1>10 DEF Lists

(* Handles of two slots, or of two items of one slot, differ. *)
LEMMA HandlesDiffer ==
  ASSUME NEW s \in Segment, NEW a \in Address, NEW i, NEW t \in Segment, NEW b \in Address, NEW j,
         Handle(s, a, i) = Handle(t, b, j)
  PROVE  s = t /\ a = b /\ i = j
<1>1. /\ Handle(s, a, i).name = s /\ Handle(s, a, i).address = a /\ Handle(s, a, i).id = i
      /\ Handle(t, b, j).name = t /\ Handle(t, b, j).address = b /\ Handle(t, b, j).id = j
  BY DEF Handle, Name
<1> QED BY <1>1

(* Staging an item raises the writes of its slot by one and puts its *)
(* descriptor in one place more; a slot that is written anew had no  *)
(* descriptor on its way.                                            *)
LEMMA StagesAccounts ==
  ASSUME EpdTypes, Rings, Lists, Accounts,
         NEW w \in Worker, NEW s \in Segment, NEW h \in Hash, NEW put,
         NEW staged \in Seq(Staged), NEW it \in Staged,
         Stages(w, s, h, put, staged, it)
  PROVE  Accounts'
<1>1. PICK q \in RingType : q = ring[s] /\ InOrder(q)
  BY DEF EpdTypes, Rings
<1>2. PICK q2 \in RingType : q2 = put.ring
  BY DEF Stages
<1>3. /\ ring'[s] = q2 /\ \A t \in Segment : t # s => ring'[t] = ring[t]
      /\ post' = post /\ waste' = waste /\ q.first <= q2.first
      /\ PutInline(q, put) \/ PutAgain(s, q, h, put) \/ PutNew(s, q, h, put)
      /\ staged = work[w].staged /\ it.wire = put.wire
  BY <1>1, <1>2 DEF Stages, EpdTypes
<1>4. /\ q.first \in Nat /\ q.next \in Nat /\ q.cell \in [Address -> CellType]
      /\ q2.first \in Nat /\ q2.cell \in [Address -> CellType]
  BY DEF RingType
<1>5. PICK n : n = Len(staged) + 1
  OBVIOUS
<1>6. PICK more \in Seq(Staged) : /\ more = Append(staged, it)
                                  /\ DOMAIN more = DOMAIN staged \cup {n} /\ n \notin DOMAIN staged
                                  /\ more[n] = it /\ \A i \in DOMAIN staged : more[i] = staged[i]
  <2>1. Append(staged, it) \in Seq(Staged)
    OBVIOUS
  <2>2. PICK more \in Seq(Staged) : more = Append(staged, it)
    BY <2>1
  <2>3. /\ DOMAIN more = DOMAIN staged \cup {n} /\ n \notin DOMAIN staged
        /\ more[n] = it /\ \A i \in DOMAIN staged : more[i] = staged[i]
    BY <1>5, <2>2
  <2> QED BY <2>2, <2>3
<1>7. work'[w].staged = more /\ \A v \in Worker : v # w => work'[v] = work[v]
  <2>1. work' = [work EXCEPT ![w].staged = more]
    BY <1>6 DEF Stages
  <2> QED BY <2>1, StagedSet
<1>8. ASSUME NEW d
      PROVE  /\ StagedAt(work', d) = StagedAt(work, d) \cup (IF it.wire = d THEN {<<w, n>>} ELSE {})
             /\ <<w, n>> \notin StagedAt(work, d)
  <2>1. <<w, n>> \notin StagedAt(work, d)
    BY <1>3, <1>6, StagedPlace
  <2>2. ASSUME NEW v \in Worker, NEW i
        PROVE  <<v, i>> \in StagedAt(work', d) <=>
                 <<v, i>> \in StagedAt(work, d) \/ (v = w /\ i = n /\ it.wire = d)
    <3>1. CASE v = w
      <4>1. <<w, i>> \in StagedAt(work', d) <=> i \in DOMAIN more /\ more[i].wire = d
        BY <1>7, StagedPlace
      <4>2. <<w, i>> \in StagedAt(work, d) <=> i \in DOMAIN staged /\ staged[i].wire = d
        BY <1>3, StagedPlace
      <4>3. i \in DOMAIN more /\ more[i].wire = d <=>
              (i \in DOMAIN staged /\ staged[i].wire = d) \/ (i = n /\ it.wire = d)
        BY <1>6
      <4> QED BY <3>1, <4>1, <4>2, <4>3
    <3>2. CASE v # w
      BY <1>7, <3>2, StagedPlace
    <3> QED BY <3>1, <3>2
  <2>3. \A p : p \in StagedAt(work', d) => \E v \in Worker : \E i : p = <<v, i>>
    BY StagedPlaces
  <2>4. \A p : p \in StagedAt(work, d) => \E v \in Worker : \E i : p = <<v, i>>
    BY StagedPlaces
  <2>5. StagedAt(work', d) \subseteq StagedAt(work, d) \cup (IF it.wire = d THEN {<<w, n>>} ELSE {})
    BY <2>2, <2>3
  <2>6. StagedAt(work, d) \cup (IF it.wire = d THEN {<<w, n>>} ELSE {}) \subseteq StagedAt(work', d)
    BY <2>2, <2>4
  <2> QED BY <2>1, <2>5, <2>6
<1> SUFFICES ASSUME NEW t \in Segment, NEW a \in Live(ring'[t])
             PROVE  Owed(ring', work', post', waste', t, a)
  BY DEF Accounts, Live
<1>9. a \in Address
  BY DEF Live
<1>10. PICK d : d = Handle(t, a, ring'[t].cell[a].id)
  OBVIOUS
<1>11. d # Inline
  <2>1. ring'[t] \in RingType
    BY <1>3 DEF EpdTypes
  <2>2. ring'[t].cell[a].id \in Int /\ ring'[t].first \in Nat /\ ring'[t].cell[a].id >= ring'[t].first
    BY <1>9, <2>1 DEF RingType, CellType, Live
  <2>3. ring'[t].cell[a].id \in Nat
    BY <2>2
  <2> QED BY <1>9, <1>10, <2>3, HandleIsWire
<1>12. ASSUME a \in Live(ring[t]), ring'[t].cell[a] = ring[t].cell[a], it.wire # d
       PROVE  Owed(ring', work', post', waste', t, a)
  <2>1. StagedAt(work', d) = StagedAt(work, d)
    BY <1>8, <1>12
  <2>2. Owes(ring[t].cell[a], StagedAt(work, d), CalledWith(post, d), d \notin waste)
    BY <1>10, <1>12 DEF Accounts, Owed
  <2> QED BY <1>3, <1>10, <1>12, <2>1, <2>2 DEF Owed
<1>13. CASE t # s
  <2>1. ring'[t] = ring[t]
    BY <1>3, <1>13
  <2>2. it.wire # d
    <3>1. CASE PutInline(q, put)
      BY <1>3, <1>11, <3>1 DEF PutInline
    <3>2. CASE PutAgain(s, q, h, put)
      <4>1. PICK b \in Live(q) : put.wire = Handle(s, b, q.cell[b].id)
        BY <3>2 DEF PutAgain
      <4>2. b \in Address
        BY DEF Live
      <4> QED BY <1>3, <1>9, <1>10, <1>13, <4>1, <4>2, HandlesDiffer
    <3>3. CASE PutNew(s, q, h, put)
      <4>1. PICK b \in Address : put.wire = Handle(s, b, q.next)
        BY <3>3 DEF PutNew
      <4> QED BY <1>3, <1>9, <1>10, <1>13, <4>1, HandlesDiffer
    <3> QED BY <1>3, <3>1, <3>2, <3>3
  <2> QED BY <1>12, <2>1, <2>2
<1>14. CASE t = s
  <2>0. a \in Live(q2) /\ ring'[t].cell = q2.cell /\ ring[t].cell = q.cell
    BY <1>1, <1>3, <1>14
  <2>1. CASE PutInline(q, put)
    <3>1. q2.cell = q.cell /\ it.wire = Inline
      BY <1>2, <1>3, <2>1 DEF PutInline
    <3>2. a \in Live(q)
      BY <1>3, <1>4, <1>9, <2>0, <3>1 DEF Live, CellType
    <3> QED BY <1>1, <1>11, <1>12, <1>14, <2>0, <3>1, <3>2
  <2>2. CASE PutAgain(s, q, h, put)
    <3>1. PICK b \in Live(q) :
            /\ put.wire = Handle(s, b, q.cell[b].id)
            /\ q2.first = q.first
            /\ q2.cell = [q.cell EXCEPT ![b].writes = @ + 1]
      BY <1>2, <2>2 DEF PutAgain
    <3>2. b \in Address
      BY DEF Live
    <3>3. CASE a # b
      <4>1. q2.cell[a] = q.cell[a]
        BY <1>4, <1>9, <3>1, <3>3
      <4>2. a \in Live(q)
        BY <1>9, <2>0, <3>1, <4>1 DEF Live
      <4>3. it.wire # d
        BY <1>3, <1>9, <1>10, <3>1, <3>2, <3>3, HandlesDiffer
      <4> QED BY <1>1, <1>12, <1>14, <2>0, <4>1, <4>2, <4>3
    <3>4. CASE a = b
      <4>1. PICK c \in CellType : c = q.cell[b]
        BY <1>4, <3>2
      <4>2. PICK c2 : c2 = [c EXCEPT !.writes = @ + 1]
        OBVIOUS
      <4>3. c2.id = c.id /\ c2.writes = c.writes + 1 /\ c2.reads = c.reads /\ q2.cell[a] = c2
        BY <1>4, <3>1, <3>2, <3>4, <4>1, <4>2 DEF CellType
      <4>4. d = Handle(s, b, c.id) /\ it.wire = d
        BY <1>3, <1>10, <1>14, <2>0, <3>1, <3>4, <4>1, <4>3
      <4>5. Owes(c, StagedAt(work, d), CalledWith(post, d), d \notin waste)
        BY <1>1, <4>1, <4>4 DEF Accounts, Owed
      <4>6. StagedAt(work', d) = StagedAt(work, d) \cup {<<w, n>>} /\ <<w, n>> \notin StagedAt(work, d)
        BY <1>8, <4>4
      <4>7. c.reads \in Nat /\ c.writes \in Nat
        BY DEF CellType
      <4>8. Owes(c2, StagedAt(work, d) \cup {<<w, n>>}, CalledWith(post, d), d \notin waste)
        BY <4>3, <4>5, <4>6, <4>7, OwesPut
      <4> QED BY <1>3, <1>10, <2>0, <4>3, <4>6, <4>8 DEF Owed
    <3> QED BY <3>3, <3>4
  <2>3. CASE PutNew(s, q, h, put)
    <3>1. PICK b \in Address :
            /\ put.wire = Handle(s, b, q.next)
            /\ q2.cell = [q.cell EXCEPT ![b] = [id |-> q.next, hash |-> h, writes |-> 1, reads |-> 0]]
      BY <1>2, <2>3 DEF PutNew
    <3>2. CASE a # b
      <4>1. q2.cell[a] = q.cell[a] /\ q.cell[a].id \in Int
        BY <1>4, <1>9, <3>1, <3>2 DEF CellType
      <4>2. a \in Live(q)
        BY <1>3, <1>4, <1>9, <2>0, <4>1 DEF Live
      <4>3. it.wire # d
        BY <1>3, <1>9, <1>10, <3>1, <3>2, HandlesDiffer
      <4> QED BY <1>1, <1>12, <1>14, <2>0, <4>1, <4>2, <4>3
    <3>3. CASE a = b
      <4>1. PICK c2 : c2 = [id |-> q.next, hash |-> h, writes |-> 1, reads |-> 0]
        OBVIOUS
      <4>2. q2.cell[a] = c2 /\ c2.id = q.next /\ c2.writes = 1 /\ c2.reads = 0
        BY <1>4, <3>1, <3>3, <4>1
      <4>3. d = Handle(s, b, q.next) /\ it.wire = d /\ d.name = s /\ d.address = b /\ d.id = q.next
        BY <1>3, <1>4, <1>10, <1>14, <2>0, <3>1, <3>3, <4>2, HandleIsWire
      <4>4. q.cell[b].id # q.next
        <5>1. q.cell[b].id < q.next
          BY <1>1 DEF InOrder
        <5> QED BY <1>4, <5>1 DEF CellType
      <4>5. StagedAt(work, d) = {}
        <5> SUFFICES ASSUME NEW p \in StagedAt(work, d) PROVE FALSE
          OBVIOUS
        <5>1. PICK v \in Worker : \E i \in DOMAIN work[v].staged : work[v].staged[i].wire = d
          BY StagedPlaces
        <5>2. PICK i \in DOMAIN work[v].staged : work[v].staged[i].wire = d
          BY <5>1
        <5>3. ring[d.name].cell[d.address].id = d.id
          BY <1>11, <5>2, StagedIsHeld
        <5> QED BY <1>1, <4>3, <4>4, <5>3
      <4>6. CalledWith(post, d) = {}
        <5> SUFFICES ASSUME NEW r \in CalledWith(post, d) PROVE FALSE
          OBVIOUS
        <5>1. PICK e \in Encoder : r \in Request /\ \E i \in DOMAIN post[r][e].todo : post[r][e].todo[i].wire = d
          BY DEF CalledWith
        <5>2. PICK i \in DOMAIN post[r][e].todo : post[r][e].todo[i].wire = d
          BY <5>1
        <5>3. ring[d.name].cell[d.address].id = d.id
          BY <1>11, <5>1, <5>2, CalledIsHeld
        <5> QED BY <1>1, <4>3, <4>4, <5>3
      <4>7. StagedAt(work', d) = {<<w, n>>}
        BY <1>8, <4>3, <4>5
      <4>8. Owes(c2, {<<w, n>>}, {}, d \notin waste)
        BY <4>2, OwesFirst
      <4> QED BY <1>3, <1>10, <2>0, <4>2, <4>6, <4>7, <4>8 DEF Owed
    <3> QED BY <3>2, <3>3
  <2> QED BY <1>3, <2>1, <2>2, <2>3
<1> QED BY <1>13, <1>14

------------------------------------------------------------------------------
(* Reading an item. *)

(* An encoder reads the first item of a call. *)
Reads(r, e, todo, it) ==
  /\ todo = post[r][e].todo /\ 1 \in DOMAIN todo /\ it = todo[1]
  /\ post' = [post EXCEPT ![r][e].todo = Tail(todo)]
  /\ encoded' = [encoded EXCEPT ![r] = @ \cup {<<it.hash, it.hash>>}]
  /\ UNCHANGED <<waste, deaths, st, media, tasks, work, ready>>
  /\ it.wire = Inline => ring' = ring
  /\ it.wire # Inline =>
       ring' = [ring EXCEPT ![it.wire.name].cell[it.wire.address].reads = @ + 1]

(* An encoder that reads does what Reads says: what it finds behind the *)
(* descriptor is the item that was staged.                              *)
LEMMA EncoderReadsReads ==
  ASSUME EpdTypes, Lists, Accounts, NEW r \in Request, NEW e \in Encoder, EncoderReads(r, e)
  PROVE  \E todo \in Seq(Staged), it \in Staged : Reads(r, e, todo, it)
<1>1. PICK todo \in Seq(Staged) : todo = post[r][e].todo
  BY DEF EpdTypes, Call
<1>2. PICK it : it = Head(todo)
  OBVIOUS
<1>3. /\ todo # <<>> /\ 1 \in DOMAIN todo /\ it = todo[1] /\ it \in Staged
      /\ post' = [post EXCEPT ![r][e].todo = Tail(@)]
      /\ encoded' = [encoded EXCEPT ![r] = @ \cup {<<it.hash, it.hash>>}]
      /\ UNCHANGED <<waste, deaths, st, media, tasks, work, ready>>
      /\ it.wire = Inline => UNCHANGED stagingVars
      /\ it.wire # Inline =>
           ring' = [ring EXCEPT ![it.wire.name].cell[it.wire.address].reads = @ + 1]
  BY <1>1, <1>2, ReadsAsStaged
<1>4. post' = [post EXCEPT ![r][e].todo = Tail(todo)]
  BY <1>1, <1>3
<1>5. Reads(r, e, todo, it)
  BY <1>1, <1>3, <1>4 DEF Reads, stagingVars
<1> QED BY <1>1, <1>3, <1>5

(* What a read changes: the call goes on, one count of one slot goes up. *)
LEMMA ReadsEffect ==
  ASSUME EpdTypes, Rings, Lists, Accounts, NEW r \in Request, NEW e \in Encoder,
         NEW todo \in Seq(Staged), NEW it \in Staged, Reads(r, e, todo, it)
  PROVE  /\ post'[r][e].st = post[r][e].st
         /\ DOMAIN post'[r][e].todo = {i \in Nat \ {0} : i + 1 \in DOMAIN todo}
         /\ \A i \in DOMAIN post'[r][e].todo : post'[r][e].todo[i] = todo[i + 1]
         /\ \A q \in Request : \A k \in Encoder : q # r \/ k # e => post'[q][k] = post[q][k]
         /\ \A s \in Segment : /\ InOrder(ring'[s]) /\ ring'[s].first = ring[s].first
                               /\ Live(ring'[s]) = Live(ring[s])
         /\ \A s \in Segment : \A a \in Address :
              LET c == ring[s].cell[a]
                  c2 == ring'[s].cell[a]
              IN  /\ c2.id = c.id /\ c2.hash = c.hash /\ c2.writes = c.writes
                  /\ a \in Live(ring[s]) /\ it.wire = Handle(s, a, c.id) => c2.reads = c.reads + 1
                  /\ it.wire # Handle(s, a, c.id) => c2 = c
<1>0. ring \in [Segment -> RingType]
  BY DEF EpdTypes
<1>01. 1 \in DOMAIN todo
  BY Zenon DEF Reads
<1>1. PICK rest \in Seq(Staged) : rest = Tail(todo)
  <2>1. todo # <<>>
    BY <1>01
  <2>2. Tail(todo) \in Seq(Staged)
    BY <2>1
  <2> QED BY <2>2
<1>2. /\ post'[r][e].st = post[r][e].st /\ post'[r][e].todo = rest
      /\ \A q \in Request : \A k \in Encoder : q # r \/ k # e => post'[q][k] = post[q][k]
  <2>1. post' = [post EXCEPT ![r][e].todo = rest]
    BY <1>1 DEF Reads
  <2> QED BY <2>1, TodoSet
<1>3. DOMAIN rest = {i \in Nat \ {0} : i + 1 \in DOMAIN todo} /\ \A i \in DOMAIN rest : rest[i] = todo[i + 1]
  <2>1. Len(todo) \in Nat /\ DOMAIN todo = 1 .. Len(todo) /\ Len(todo) # 0
    BY <1>01
  <2>2. Len(rest) = Len(todo) - 1 /\ DOMAIN rest = 1 .. Len(rest)
    BY <1>1, <2>1
  <2>3. \A i \in DOMAIN rest : rest[i] = todo[i + 1]
    BY <1>1, <2>1, <2>2
  <2>4. DOMAIN rest = {i \in Nat \ {0} : i + 1 \in DOMAIN todo}
    BY <2>1, <2>2
  <2> QED BY <2>3, <2>4
<1>4. CASE it.wire = Inline
  <2>1. ring' = ring
    BY <1>4 DEF Reads
  <2>2. ASSUME NEW s \in Segment, NEW a \in Live(ring[s])
        PROVE  it.wire # Handle(s, a, ring[s].cell[a].id)
    <3>1. /\ a \in Address /\ ring[s].cell[a].id \in Int
          /\ ring[s].cell[a].id >= ring[s].first /\ ring[s].first \in Nat
      BY <1>0 DEF Live, RingType, CellType
    <3>2. ring[s].cell[a].id \in Nat
      BY <3>1
    <3> QED BY <1>4, <3>1, <3>2, HandleIsWire
  <2> QED BY <1>2, <1>3, <2>1, <2>2 DEF Rings
<1>5. CASE it.wire # Inline
  <2>1. PICK d \in Wire : d = it.wire
    BY <1>5 DEF Staged
  <2>2. PICK t \in Segment, b \in Address : t = d.name /\ b = d.address /\ d = Handle(t, b, d.id)
    BY WireIsHandle
  <2>3. ring[t].cell[b].id = d.id
    <3>1. 1 \in DOMAIN post[r][e].todo /\ post[r][e].todo[1].wire = d /\ d # Inline
      BY <1>5, <2>1 DEF Reads
    <3> QED BY <2>2, <3>1, CalledIsHeld
  <2>4. PICK q \in RingType : q = ring[t] /\ InOrder(q)
    BY <1>0 DEF Rings
  <2>5. PICK q2 : q2 = Counted(q, b)
    OBVIOUS
  <2>6. /\ q2 \in RingType /\ InOrder(q2) /\ q2.first = q.first /\ q2.next = q.next /\ q2.end = q.end
        /\ \A a \in Address : q2.cell[a].id = q.cell[a].id /\ q2.cell[a].hash = q.cell[a].hash
        /\ \A a \in Address : q2.cell[a].writes = q.cell[a].writes
        /\ q2.cell[b].reads = q.cell[b].reads + 1
        /\ \A a \in Address : a # b => q2.cell[a] = q.cell[a]
        /\ Live(q2) = Live(q)
    BY <2>4, <2>5, ReadCounted
  <2>7. ring' = [ring EXCEPT ![t] = q2]
    <3>1. ring' = [ring EXCEPT ![t].cell[b].reads = @ + 1]
      BY <1>5, <2>1, <2>2 DEF Reads
    <3> QED BY <1>0, <2>4, <2>5, <3>1 DEF Counted
  <2>8. ring'[t] = q2 /\ \A s \in Segment : s # t => ring'[s] = ring[s]
    BY <1>0, <2>7
  <2>9. ASSUME NEW s \in Segment
        PROVE  InOrder(ring'[s]) /\ ring'[s].first = ring[s].first /\ Live(ring'[s]) = Live(ring[s])
    BY <2>4, <2>6, <2>8 DEF Rings
  <2>10. ASSUME NEW s \in Segment, NEW a \in Address
         PROVE  /\ ring'[s].cell[a].id = ring[s].cell[a].id /\ ring'[s].cell[a].hash = ring[s].cell[a].hash
                /\ ring'[s].cell[a].writes = ring[s].cell[a].writes
                /\ it.wire = Handle(s, a, ring[s].cell[a].id) => ring'[s].cell[a].reads = ring[s].cell[a].reads + 1
                /\ it.wire # Handle(s, a, ring[s].cell[a].id) => ring'[s].cell[a] = ring[s].cell[a]
    <3>1. CASE s = t /\ a = b
      <4>1. it.wire = Handle(s, a, ring[s].cell[a].id)
        BY <2>1, <2>2, <2>3, <3>1
      <4> QED BY <2>4, <2>6, <2>8, <3>1, <4>1
    <3>2. CASE ~(s = t /\ a = b)
      <4>1. it.wire # Handle(s, a, ring[s].cell[a].id)
        BY <2>1, <2>2, <3>2, HandlesDiffer
      <4>2. ring'[s].cell[a] = ring[s].cell[a]
        BY <2>4, <2>6, <2>8, <3>2
      <4> QED BY <4>1, <4>2
    <3> QED BY <3>1, <3>2
  <2> QED BY <1>2, <1>3, <2>9, <2>10
<1> QED BY <1>4, <1>5

(* A read keeps the stores in order and every promise that was made. *)
LEMMA ReadsLists ==
  ASSUME EpdTypes, Rings, Lists, Accounts, NEW r \in Request, NEW e \in Encoder,
         NEW todo \in Seq(Staged), NEW it \in Staged, Reads(r, e, todo, it)
  PROVE  Rings' /\ Lists'
<1>1. /\ DOMAIN post'[r][e].todo = {i \in Nat \ {0} : i + 1 \in DOMAIN todo}
      /\ \A i \in DOMAIN post'[r][e].todo : post'[r][e].todo[i] = todo[i + 1]
      /\ \A q \in Request : \A k \in Encoder : q # r \/ k # e => post'[q][k] = post[q][k]
      /\ post'[r][e].st = post[r][e].st
  BY ReadsEffect
<1>2. /\ \A s \in Segment : InOrder(ring'[s]) /\ ring'[s].first = ring[s].first
      /\ \A s \in Segment : \A a \in Address :
           ring'[s].cell[a].id = ring[s].cell[a].id /\ ring'[s].cell[a].hash = ring[s].cell[a].hash
  BY ReadsEffect
<1>3. /\ todo = post[r][e].todo /\ 1 \in DOMAIN todo /\ deaths' = deaths /\ work' = work
  BY DEF Reads
<1>4. ASSUME NEW x \in Staged, Kept(ring, deaths, x)
      PROVE  Kept(ring', deaths', x)
  <2>1. CASE x.wire = Inline
    BY <2>1 DEF Kept
  <2>2. CASE x.wire # Inline
    <3>1. x.wire.name \in Segment /\ x.wire.address \in Address
      BY <2>2, WireIsHandle DEF Staged
    <3> QED BY <1>2, <1>3, <1>4, <2>2, <3>1 DEF Kept
  <2> QED BY <2>1, <2>2
<1>5. ASSUME NEW v \in Worker
      PROVE  /\ work'[v].req = {} => work'[v].staged = <<>>
             /\ \A i \in DOMAIN work'[v].staged : Kept(ring', deaths', work'[v].staged[i])
  <2>1. PICK staged \in Seq(Staged) : staged = work[v].staged
    BY DEF EpdTypes
  <2>2. \A i \in DOMAIN staged : staged[i] \in Staged /\ Kept(ring, deaths, staged[i])
    BY <2>1 DEF Lists
  <2> QED BY <1>3, <1>4, <2>1, <2>2 DEF Lists
<1>6. ASSUME NEW q \in Request, NEW k \in Encoder
      PROVE  /\ post'[q][k].st # "sent" => post'[q][k].todo = <<>>
             /\ \A i \in DOMAIN post'[q][k].todo :
                  /\ Kept(ring', deaths', post'[q][k].todo[i])
                  /\ VeOf[post'[q][k].todo[i].hash] = k
                  /\ \A j \in DOMAIN post'[q][k].todo : post'[q][k].todo[i].hash = post'[q][k].todo[j].hash => i = j
  <2>1. PICK old \in Seq(Staged) : old = post[q][k].todo
    BY DEF EpdTypes, Call
  <2>2. /\ post[q][k].st # "sent" => old = <<>>
        /\ \A i \in DOMAIN old :
             /\ old[i] \in Staged /\ Kept(ring, deaths, old[i])
             /\ VeOf[old[i].hash] = k
             /\ \A j \in DOMAIN old : old[i].hash = old[j].hash => i = j
    BY <2>1 DEF Lists
  <2>3. CASE q = r /\ k = e
    <3>1. old = todo /\ old # <<>>
      BY <1>3, <2>1, <2>3
    <3>2. post'[q][k].st = "sent"
      BY <1>1, <2>1, <2>2, <2>3, <3>1
    <3>3. ASSUME NEW i \in DOMAIN post'[r][e].todo
          PROVE  /\ Kept(ring', deaths', post'[r][e].todo[i])
                 /\ VeOf[post'[r][e].todo[i].hash] = e
                 /\ \A j \in DOMAIN post'[r][e].todo : post'[r][e].todo[i].hash = post'[r][e].todo[j].hash => i = j
      <4>1. i \in Nat /\ i + 1 \in DOMAIN old /\ post'[r][e].todo[i] = old[i + 1]
        BY <1>1, <3>1
      <4>2. \A j \in DOMAIN post'[r][e].todo : j \in Nat /\ j + 1 \in DOMAIN old /\ post'[r][e].todo[j] = old[j + 1]
        BY <1>1, <3>1
      <4>3. \A j \in DOMAIN post'[r][e].todo : post'[r][e].todo[i].hash = post'[r][e].todo[j].hash => i + 1 = j + 1
        BY <2>2, <4>1, <4>2
      <4>4. \A j \in DOMAIN post'[r][e].todo : post'[r][e].todo[i].hash = post'[r][e].todo[j].hash => i = j
        BY <4>1, <4>2, <4>3
      <4> QED BY <1>4, <2>2, <2>3, <4>1, <4>4
    <3> QED BY <2>3, <3>2, <3>3
  <2>4. CASE q # r \/ k # e
    <3>1. post'[q][k] = post[q][k]
      BY <1>1, <2>4
    <3> QED BY <1>4, <2>1, <2>2, <3>1
  <2> QED BY <2>3, <2>4
<1>7. Rings'
  BY <1>2 DEF Rings
<1> QED BY <1>5, <1>6, <1>7 DEF Lists

(* A read raises the reads of its slot by one and takes its descriptor from *)
(* the call that carried it.                                                *)
LEMMA ReadsAccounts ==
  ASSUME EpdTypes, Rings, Lists, Accounts, NEW r \in Request, NEW e \in Encoder,
         NEW todo \in Seq(Staged), NEW it \in Staged, Reads(r, e, todo, it)
  PROVE  Accounts'
<1>1. /\ DOMAIN post'[r][e].todo = {i \in Nat \ {0} : i + 1 \in DOMAIN todo}
      /\ \A i \in DOMAIN post'[r][e].todo : post'[r][e].todo[i] = todo[i + 1]
      /\ \A q \in Request : \A k \in Encoder : q # r \/ k # e => post'[q][k] = post[q][k]
  BY ReadsEffect
<1>2. \A s \in Segment : Live(ring'[s]) = Live(ring[s])
  BY ReadsEffect
<1>3. /\ todo = post[r][e].todo /\ 1 \in DOMAIN todo /\ it = todo[1] /\ waste' = waste /\ work' = work
  BY DEF Reads
<1> SUFFICES ASSUME NEW s \in Segment, NEW a \in Live(ring[s])
             PROVE  Owed(ring', work', post', waste', s, a)
  BY <1>2 DEF Accounts
<1>4. a \in Address
  BY DEF Live
<1>5. PICK c \in CellType : c = ring[s].cell[a]
  BY <1>4 DEF EpdTypes, RingType
<1>6. PICK c2 : c2 = ring'[s].cell[a]
  OBVIOUS
<1>7. PICK d : d = Handle(s, a, c.id)
  OBVIOUS
<1>8. /\ c2.id = c.id /\ c2.writes = c.writes
      /\ it.wire = d => c2.reads = c.reads + 1
      /\ it.wire # d => c2 = c
  BY <1>4, <1>5, <1>6, <1>7, ReadsEffect
<1>9. PICK B, B2 : B = CalledWith(post, d) /\ B2 = CalledWith(post', d)
  OBVIOUS
<1>10. Owes(c, StagedAt(work, d), B, d \notin waste)
  BY <1>5, <1>7, <1>9 DEF Accounts, Owed
<1>11. d # Inline
  <2>1. c.id \in Int /\ c.id >= ring[s].first /\ ring[s].first \in Nat
    BY <1>5 DEF Live, CellType, EpdTypes, RingType
  <2>2. c.id \in Nat
    BY <2>1
  <2> QED BY <1>4, <1>7, <2>2, HandleIsWire
<1>12. B2 \subseteq B
  <2> SUFFICES ASSUME NEW q \in B2 PROVE q \in B
    OBVIOUS
  <2>1. PICK k \in Encoder : q \in Request /\ \E i \in DOMAIN post'[q][k].todo : post'[q][k].todo[i].wire = d
    BY <1>9 DEF CalledWith
  <2>2. PICK i \in DOMAIN post'[q][k].todo : post'[q][k].todo[i].wire = d
    BY <2>1
  <2>3. \E j \in DOMAIN post[q][k].todo : post[q][k].todo[j].wire = d
    <3>1. CASE q = r /\ k = e
      <4>1. i + 1 \in DOMAIN todo /\ todo[i + 1].wire = d
        BY <1>1, <2>2, <3>1
      <4> QED BY <1>3, <3>1, <4>1
    <3>2. CASE q # r \/ k # e
      <4>1. post'[q][k] = post[q][k]
        BY <1>1, <2>1, <3>2
      <4> QED BY <2>2, <4>1
    <3> QED BY <3>1, <3>2
  <2> QED BY <1>9, <2>1, <2>3 DEF CalledWith
<1>13. ASSUME NEW q \in B, q # r \/ it.wire # d
       PROVE  q \in B2
  <2>1. PICK k \in Encoder : q \in Request /\ \E i \in DOMAIN post[q][k].todo : post[q][k].todo[i].wire = d
    BY <1>9 DEF CalledWith
  <2>2. PICK i \in DOMAIN post[q][k].todo : post[q][k].todo[i].wire = d
    BY <2>1
  <2>3. \E j \in DOMAIN post'[q][k].todo : post'[q][k].todo[j].wire = d
    <3>1. CASE q = r /\ k = e
      <4>1. i \in DOMAIN todo /\ todo[i].wire = d /\ i # 1
        BY <1>3, <1>13, <2>2, <3>1
      <4>2. PICK j \in Nat \ {0} : i = j + 1
        <5>1. i \in Nat /\ i # 0 /\ i # 1
          BY <4>1
        <5>2. i - 1 \in Nat \ {0} /\ i = (i - 1) + 1
          BY <5>1
        <5> QED BY <5>2
      <4>3. j \in DOMAIN post'[r][e].todo /\ post'[r][e].todo[j] = todo[i]
        BY <1>1, <4>1, <4>2
      <4> QED BY <3>1, <4>1, <4>3
    <3>2. CASE q # r \/ k # e
      <4>1. post'[q][k] = post[q][k]
        BY <1>1, <2>1, <3>2
      <4> QED BY <2>2, <4>1
    <3> QED BY <3>1, <3>2
  <2> QED BY <1>9, <2>1, <2>3 DEF CalledWith
<1>14. c.reads \in Nat /\ c.writes \in Nat
  BY DEF CellType
<1>15. CASE it.wire # d
  <2>1. B2 = B
    BY <1>12, <1>13, <1>15
  <2> QED BY <1>3, <1>5, <1>6, <1>7, <1>8, <1>9, <1>10, <1>15, <2>1 DEF Owed
<1>16. CASE it.wire = d
  <2>1. r \in B
    BY <1>3, <1>9, <1>16 DEF CalledWith
  <2>2. r \notin B2
    <3> SUFFICES ASSUME r \in B2 PROVE FALSE
      OBVIOUS
    <3>1. PICK k \in Encoder : \E i \in DOMAIN post'[r][k].todo : post'[r][k].todo[i].wire = d
      BY <1>9 DEF CalledWith
    <3>2. PICK i \in DOMAIN post'[r][k].todo : post'[r][k].todo[i].wire = d
      BY <3>1
    <3>3. CASE k = e
      <4>1. i \in Nat /\ i # 0 /\ i + 1 \in DOMAIN todo /\ todo[i + 1].wire = d
        BY <1>1, <3>2, <3>3
      <4>2. todo[i + 1].hash = ring[d.name].cell[d.address].hash
        BY <1>3, <1>11, <4>1, CalledIsHeld
      <4>3. todo[1].hash = ring[d.name].cell[d.address].hash
        BY <1>3, <1>11, <1>16, CalledIsHeld
      <4>4. i + 1 = 1
        BY <1>3, <4>1, <4>2, <4>3 DEF Lists
      <4> QED BY <4>1, <4>4
    <3>4. CASE k # e
      <4>1. post'[r][k] = post[r][k]
        BY <1>1, <3>4
      <4>2. i \in DOMAIN post[r][k].todo /\ post[r][k].todo[i].wire = d
        BY <3>2, <4>1
      <4>3. post[r][k].todo[i].hash = ring[d.name].cell[d.address].hash
        BY <1>11, <4>2, CalledIsHeld
      <4>4. todo[1].hash = ring[d.name].cell[d.address].hash
        BY <1>3, <1>11, <1>16, CalledIsHeld
      <4>5. VeOf[post[r][k].todo[i].hash] = k /\ VeOf[todo[1].hash] = e
        BY <1>3, <4>2 DEF Lists
      <4> QED BY <3>4, <4>3, <4>4, <4>5
    <3> QED BY <3>3, <3>4
  <2>3. B2 = B \ {r}
    BY <1>12, <1>13, <2>2
  <2>4. Owes(c2, StagedAt(work, d), B2, d \notin waste)
    BY <1>8, <1>10, <1>14, <1>16, <2>1, <2>3, OwesRead
  <2> QED BY <1>3, <1>6, <1>7, <1>8, <1>9, <2>4 DEF Owed
<1> QED BY <1>15, <1>16

------------------------------------------------------------------------------
(* The course of a request. *)

(* Every item of a rendered request is in the call to its encoder. *)
LEMMA AllCalled ==
  ASSUME EpdTypes, Flow, NEW w \in Worker, NEW r \in Request, Rendering(w, r), StagedAll(w, r),
         NEW e \in Encoder, NEW h \in Asked(r, e)
  PROVE  \E k \in DOMAIN Calls(work[w].staged)[e].todo : Calls(work[w].staged)[e].todo[k].hash = h
<1>1. PICK list \in Seq(Hash), staged \in Seq(Staged) : list = media[r] /\ staged = work[w].staged
  BY DEF EpdTypes
<1>2. /\ Len(staged) = Len(list) /\ \A i \in DOMAIN staged : staged[i].hash = list[i]
      /\ Len(staged) \in Nat /\ DOMAIN staged = 1 .. Len(staged) /\ DOMAIN list = 1 .. Len(list)
  BY <1>1 DEF StagedAll, Flow
<1>3. PICK i \in DOMAIN staged : staged[i].hash = h
  BY <1>1, <1>2 DEF Asked, Range
<1> DEFINE places == {j \in DOMAIN staged : staged[j].hash = h}
<1>4. PICK f \in places : \A j \in places : f <= j
  <2>1. places \in SUBSET Nat /\ places # {}
    BY <1>2, <1>3
  <2> HIDE DEF places
  <2> QED BY <2>1, LeastNatural
<1>5. f \in Unique(staged)
  <2>1. \A j \in 1 .. f - 1 : j \in DOMAIN staged /\ ~(f <= j)
    BY <1>2
  <2> QED BY <1>4, <2>1 DEF Unique
<1>6. VeOf[staged[f].hash] = e
  BY DEF Asked
<1>7. \E k \in DOMAIN Calls(staged)[e].todo : Calls(staged)[e].todo[k] = staged[f]
  BY <1>5, <1>6, BatchItems
<1>8. PICK k \in DOMAIN Calls(staged)[e].todo : Calls(staged)[e].todo[k] = staged[f]
  BY <1>7
<1>9. Calls(staged)[e].todo[k].hash = h
  BY <1>8
<1> QED BY <1>1, <1>9

(* A call that is in flight belongs to a request that was rendered. *)
LEMMA SentWasRendered ==
  ASSUME Flow, NEW r \in Request, NEW e \in Encoder, post[r][e].st = "sent"
  PROVE  st[r] \notin {"new", "rendering"}
  BY DEF Flow, NoPost

(* Every step keeps the course of the requests. *)
LEMMA FlowKept ==
  ASSUME EpdTypes, EpdTypes', Rings, Lists, Accounts, Flow, EpdNext
  PROVE  Flow'
<1> DEFINE Queued == \A i \in DOMAIN tasks : st[tasks[i]] # "new"
           Works(w) == \A r \in Request : Rendering(w, r) =>
                         /\ st[r] # "new"
                         /\ Len(work[w].staged) <= Len(media[r])
                         /\ \A i \in DOMAIN work[w].staged : work[w].staged[i].hash = media[r][i]
           Goes(r) == /\ st[r] \in {"new", "rendering"} => ready[r] = {} /\ \A e \in Encoder : post[r][e] = NoPost
                      /\ st[r] = "gathering" => \A e \in Encoder : post[r][e].st = "none" => Asked(r, e) = {}
<1>0. Queued /\ (\A w \in Worker : Works(w)) /\ (\A r \in Request : Goes(r))
  BY DEF Flow
<1>1. /\ st \in [Request -> {"new", "rendering", "gathering", "driving"} \cup Ended]
      /\ media \in [Request -> Seq(Hash)] /\ tasks \in Seq(Request)
      /\ work \in [Worker -> [req : SUBSET Request, staged : Seq(Staged)]]
      /\ post \in [Request -> [Encoder -> Call]]
      /\ ready \in [Request -> SUBSET Hash]
  BY DEF EpdTypes
(* Only the stage of requests moves on. *)
<1>2. ASSUME UNCHANGED <<media, tasks>>,
             \A r \in Request : st[r] # "new" => st'[r] # "new"
      PROVE  Queued'
  BY <1>0, <1>1, <1>2
<1>3. ASSUME UNCHANGED media, \A r \in Request : st[r] # "new" => st'[r] # "new",
             NEW w \in Worker, work'[w] = work[w]
      PROVE  Works(w)'
  BY <1>0, <1>3 DEF Rendering
<1>4. ASSUME NEW w \in Worker, work'[w].req = {}
      PROVE  Works(w)'
  BY <1>4 DEF Rendering
<1>5. ASSUME UNCHANGED <<media, ready, post>>, NEW r \in Request,
             st'[r] = st[r] \/ st'[r] \in {"driving"} \cup Ended
      PROVE  Goes(r)'
  BY <1>0, <1>5 DEF Asked, Ended
<1>6. ASSUME UNCHANGED <<media, st>>, NEW r \in Request, NEW e \in Encoder,
             post[r][e].st = "sent", post'[r][e].st # "none",
             \A q \in Request : q # r => ready'[q] = ready[q],
             \A q \in Request : \A k \in Encoder : q # r \/ k # e => post'[q][k] = post[q][k]
      PROVE  \A q \in Request : Goes(q)'
  <2> TAKE q \in Request
  <2>1. CASE q = r
    <3>1. st'[r] \notin {"new", "rendering"}
      BY <1>6, SentWasRendered
    <3>2. ASSUME st'[r] = "gathering", NEW k \in Encoder, post'[r][k].st = "none"
          PROVE  Asked(r, k)' = {}
      <4>1. k # e /\ post'[r][k] = post[r][k] /\ st[r] = "gathering"
        BY <1>6, <3>2
      <4>2. Asked(r, k) = {}
        BY <1>0, <3>2, <4>1
      <4> QED BY <1>6, <4>2 DEF Asked
    <3> QED BY <2>1, <3>1, <3>2
  <2>2. CASE q # r
    <3>1. ready'[q] = ready[q] /\ st'[q] = st[q] /\ \A k \in Encoder : post'[q][k] = post[q][k]
      BY <1>6, <2>2
    <3>2. \A k \in Encoder : Asked(q, k)' = Asked(q, k)
      BY <1>6 DEF Asked
    <3> QED BY <1>0, <3>1, <3>2
  <2> QED BY <2>1, <2>2
<1>7. ASSUME NEW r \in Request, Submit(r) PROVE Flow'
  <2>1. /\ st[r] = "new" /\ st' = [st EXCEPT ![r] = "rendering"] /\ tasks' = Append(tasks, r)
        /\ UNCHANGED <<work, post, ready>>
        /\ \A q \in Request : q # r => media'[q] = media[q]
    BY <1>1, <1>7 DEF Submit
  <2>2. \A q \in Request : st[q] # "new" => st'[q] # "new" /\ q # r
    BY <1>1, <2>1
  <2>3. Queued'
    <3> SUFFICES ASSUME NEW i \in DOMAIN tasks' PROVE st'[tasks'[i]] # "new"
      OBVIOUS
    <3>1. CASE i \in DOMAIN tasks
      <4>1. tasks'[i] = tasks[i] /\ tasks[i] \in Request
        BY <1>1, <2>1, <3>1
      <4> QED BY <1>0, <2>2, <3>1, <4>1
    <3>2. CASE i \notin DOMAIN tasks
      <4>1. tasks'[i] = r
        BY <1>1, <2>1, <3>2
      <4> QED BY <1>1, <2>1, <4>1
    <3> QED BY <3>1, <3>2
  <2>4. ASSUME NEW w \in Worker PROVE Works(w)'
    <3> SUFFICES ASSUME NEW q \in Request, Rendering(w, q)'
                 PROVE  /\ st'[q] # "new" /\ Len(work'[w].staged) <= Len(media'[q])
                        /\ \A i \in DOMAIN work'[w].staged : work'[w].staged[i].hash = media'[q][i]
      OBVIOUS
    <3>1. Rendering(w, q)
      BY <2>1 DEF Rendering
    <3>2. st[q] # "new" /\ q # r /\ st'[q] # "new" /\ media'[q] = media[q]
      BY <1>0, <2>1, <2>2, <3>1
    <3> QED BY <1>0, <2>1, <3>1, <3>2
  <2>5. ASSUME NEW q \in Request PROVE Goes(q)'
    <3>1. CASE q = r
      <4>1. ready[r] = {} /\ \A e \in Encoder : post[r][e] = NoPost
        BY <1>0, <2>1
      <4>2. st'[r] = "rendering"
        BY <1>1, <2>1
      <4> QED BY <2>1, <3>1, <4>1, <4>2
    <3>2. CASE q # r
      <4>1. st'[q] = st[q] /\ media'[q] = media[q] /\ ready'[q] = ready[q] /\ post'[q] = post[q]
        BY <1>1, <2>1, <3>2
      <4>2. \A k \in Encoder : Asked(q, k)' = Asked(q, k)
        BY <4>1 DEF Asked
      <4> QED BY <1>0, <4>1, <4>2
    <3> QED BY <3>1, <3>2
  <2> QED BY <2>3, <2>4, <2>5 DEF Flow
<1>8. ASSUME NEW w \in Worker, TakeTask(w) PROVE Flow'
  <2>1. /\ work[w] = NoWork /\ tasks # <<>> /\ tasks' = Tail(tasks)
        /\ work' = [work EXCEPT ![w].req = {Head(tasks)}]
        /\ UNCHANGED <<st, media, post, ready>>
    BY <1>8 DEF TakeTask
  <2>2. PICK x \in Request : x = Head(tasks) /\ st[x] # "new"
    <3>1. 1 \in DOMAIN tasks /\ Head(tasks) = tasks[1] /\ tasks[1] \in Request
      BY <1>1, <2>1
    <3> QED BY <1>0, <3>1
  <2>3. /\ work'[w].req = {x} /\ work'[w].staged = work[w].staged
        /\ \A v \in Worker : v # w => work'[v] = work[v]
    <3>1. work' = [work EXCEPT ![w].req = {x}]
      BY <2>1, <2>2
    <3> QED BY <3>1, ReqSet
  <2>4. Queued'
    <3> SUFFICES ASSUME NEW i \in DOMAIN tasks' PROVE st'[tasks'[i]] # "new"
      OBVIOUS
    <3>1. i + 1 \in DOMAIN tasks /\ tasks'[i] = tasks[i + 1]
      BY <1>1, <2>1
    <3> QED BY <1>0, <2>1, <3>1
  <2>5. ASSUME NEW v \in Worker PROVE Works(v)'
    <3>1. CASE v = w
      <4>1. work'[v].staged = <<>>
        BY <2>1, <2>3, <3>1 DEF NoWork
      <4>2. \A q \in Request : Rendering(v, q)' => q = x
        BY <2>3, <3>1 DEF Rendering
      <4>3. Len(<<>>) <= Len(media[x]) /\ DOMAIN <<>> = {}
        BY <1>1
      <4> QED BY <2>1, <2>2, <4>1, <4>2, <4>3
    <3>2. CASE v # w
      BY <1>3, <2>1, <2>3, <3>2
    <3> QED BY <3>1, <3>2
  <2>6. \A q \in Request : Goes(q)'
    BY <1>5, <2>1
  <2> QED BY <2>4, <2>5, <2>6 DEF Flow
<1>9. ASSUME NEW w \in Worker, NEW r \in Request, StageItem(w, r) PROVE Flow'
  <2>1. PICK put : \E s \in Segment, h \in Hash, staged \in Seq(Staged), it \in Staged :
           /\ Stages(w, s, h, put, staged, it)
           /\ Len(staged) < Len(media[r]) /\ h = media[r][Len(staged) + 1]
    BY <1>9, StageItemStages
  <2>2. PICK s \in Segment, h \in Hash, staged \in Seq(Staged), it \in Staged :
           /\ Stages(w, s, h, put, staged, it)
           /\ Len(staged) < Len(media[r]) /\ h = media[r][Len(staged) + 1]
    BY <2>1
  <2>3. /\ staged = work[w].staged /\ it.hash = h
        /\ work' = [work EXCEPT ![w].staged = Append(staged, it)]
        /\ UNCHANGED <<st, media, tasks, post, ready>>
    BY <2>2 DEF Stages
  <2>4. PICK more \in Seq(Staged) : more = Append(staged, it)
    <3>1. Append(staged, it) \in Seq(Staged)
      OBVIOUS
    <3> QED BY <3>1
  <2>5. /\ work'[w].req = work[w].req /\ work'[w].staged = more
        /\ \A v \in Worker : v # w => work'[v] = work[v]
    <3>1. work' = [work EXCEPT ![w].staged = more]
      BY <2>3, <2>4
    <3> QED BY <3>1, StagedSet
  <2>6. ASSUME NEW v \in Worker PROVE Works(v)'
    <3>1. CASE v = w
      <4>1. work[w].req = {r}
        BY <1>9 DEF StageItem, Rendering
      <4>2. \A q \in Request : Rendering(w, q)' => q = r
        BY <2>5, <4>1 DEF Rendering
      <4>3. /\ st[r] # "new" /\ \A i \in DOMAIN staged : staged[i].hash = media[r][i]
        BY <1>0, <2>3, <4>1 DEF Rendering
      <4>4. Len(more) <= Len(media[r])
        BY <1>1, <2>2, <2>4
      <4>5. \A i \in DOMAIN more : more[i].hash = media[r][i]
        <5> TAKE i \in DOMAIN more
        <5>1. CASE i = Len(staged) + 1
          BY <2>2, <2>3, <2>4, <5>1
        <5>2. CASE i # Len(staged) + 1
          <6>1. i \in DOMAIN staged /\ more[i] = staged[i]
            BY <2>4, <5>2
          <6> QED BY <4>3, <6>1
        <5> QED BY <5>1, <5>2
      <4> QED BY <2>3, <2>5, <3>1, <4>2, <4>3, <4>4, <4>5
    <3>2. CASE v # w
      BY <1>3, <2>3, <2>5, <3>2
    <3> QED BY <3>1, <3>2
  <2>7. Queued'
    BY <1>2, <2>3
  <2>8. \A q \in Request : Goes(q)'
    BY <1>5, <2>3
  <2> QED BY <2>6, <2>7, <2>8 DEF Flow
<1>10. ASSUME NEW w \in Worker, NEW r \in Request, Rendered(w, r) PROVE Flow'
  <2>1. /\ Rendering(w, r) /\ StagedAll(w, r)
        /\ work' = [work EXCEPT ![w] = NoWork]
        /\ UNCHANGED <<media, tasks, ready>>
    BY <1>10 DEF Rendered
  <2>2. /\ work'[w].req = {} /\ \A v \in Worker : v # w => work'[v] = work[v]
    BY <1>1, <2>1 DEF NoWork
  <2>3. CASE WaitedFor(r)
    <3>1. PICK staged \in Seq(Staged) : staged = work[w].staged
      BY <1>1
    <3>2. /\ st[r] = "rendering"
          /\ st' = [st EXCEPT ![r] = IF staged = <<>> THEN "driving" ELSE "gathering"]
          /\ post' = [post EXCEPT ![r] = Calls(staged)]
      BY <1>10, <2>3, <3>1 DEF Rendered, WaitedFor
    <3>3. st'[r] \in {"driving", "gathering"} /\ \A q \in Request : q # r => st'[q] = st[q] /\ post'[q] = post[q]
      BY <1>1, <3>2
    <3>4. \A q \in Request : st[q] # "new" => st'[q] # "new"
      BY <3>3
    <3>5. ASSUME NEW q \in Request PROVE Goes(q)'
      <4>1. CASE q = r
        <5> SUFFICES ASSUME NEW e \in Encoder, post'[r][e].st = "none" PROVE Asked(r, e)' = {}
          BY <3>3, <4>1
        <5>1. post'[r][e] = Calls(staged)[e]
          BY <1>1, <3>2
        <5>2. Calls(staged)[e].todo = <<>>
          BY <5>1, BatchItems
        <5>3. Asked(r, e) = {}
          BY <2>1, <3>1, <5>2, AllCalled
        <5> QED BY <2>1, <5>3 DEF Asked
      <4>2. CASE q # r
        <5>1. st'[q] = st[q] /\ post'[q] = post[q] /\ ready'[q] = ready[q]
          BY <2>1, <3>3, <4>2
        <5>2. \A k \in Encoder : Asked(q, k)' = Asked(q, k)
          BY <2>1 DEF Asked
        <5> QED BY <1>0, <5>1, <5>2
      <4> QED BY <4>1, <4>2
    <3>6. Queued'
      BY <1>2, <2>1, <3>4
    <3>7. \A v \in Worker : Works(v)'
      BY <1>3, <1>4, <2>1, <2>2, <3>4
    <3> QED BY <3>5, <3>6, <3>7 DEF Flow
  <2>4. CASE ~WaitedFor(r)
    <3>1. UNCHANGED <<st, post>>
      BY <1>10, <2>4 DEF Rendered
    <3>2. Queued'
      BY <1>2, <2>1, <3>1
    <3>3. \A v \in Worker : Works(v)'
      BY <1>3, <1>4, <2>1, <2>2, <3>1
    <3>4. \A q \in Request : Goes(q)'
      BY <1>5, <2>1, <3>1
    <3> QED BY <3>2, <3>3, <3>4 DEF Flow
  <2> QED BY <2>3, <2>4
<1>11. ASSUME NEW w \in Worker, WorkerDies(w) \/ \E r \in Request : RenderFails(w, r) PROVE Flow'
  <2>1. /\ work' = [work EXCEPT ![w] = NoWork]
        /\ UNCHANGED <<media, tasks, post, ready>>
        /\ \A q \in Request : st'[q] = st[q] \/ st'[q] = "failed"
    BY <1>1, <1>11 DEF WorkerDies, RenderFails
  <2>2. /\ work'[w].req = {} /\ \A v \in Worker : v # w => work'[v] = work[v]
    BY <1>1, <2>1 DEF NoWork
  <2>3. Queued'
    BY <1>2, <2>1
  <2>4. \A v \in Worker : Works(v)'
    BY <1>3, <1>4, <2>1, <2>2
  <2>5. \A q \in Request : Goes(q)'
    BY <1>5, <2>1 DEF Ended
  <2> QED BY <2>3, <2>4, <2>5 DEF Flow
<1>12. ASSUME NEW r \in Request, RenderTimeout(r) \/ GatherFails(r) \/ Gathered(r) \/ Answer(r) \/ ClientLeaves(r)
       PROVE  Flow'
  <2>1. /\ UNCHANGED <<media, tasks, work, post, ready>>
        /\ \A q \in Request : st'[q] = st[q] \/ st'[q] \in {"driving"} \cup Ended
    BY <1>1, <1>12 DEF RenderTimeout, GatherFails, Gathered, Answer, ClientLeaves, Ended
  <2>2. \A q \in Request : st[q] # "new" => st'[q] # "new"
    BY <2>1 DEF Ended
  <2>3. Queued'
    BY <1>2, <2>1, <2>2
  <2>4. \A v \in Worker : Works(v)'
    BY <1>3, <2>1, <2>2
  <2>5. \A q \in Request : Goes(q)'
    BY <1>5, <2>1
  <2> QED BY <2>3, <2>4, <2>5 DEF Flow
(* A call in flight is read, answered or lost. *)
<1>13. ASSUME NEW r \in Request, NEW e \in Encoder,
              EncoderReads(r, e) \/ EncoderReplies(r, e) \/ CallFails(r, e)
       PROVE  Flow'
  <2>1. UNCHANGED <<st, media, tasks, work>>
    BY <1>13 DEF EncoderReads, EncoderReplies, CallFails
  <2>2. Queued'
    BY <1>2, <2>1
  <2>3. \A v \in Worker : Works(v)'
    BY <1>3, <2>1
  <2>4. /\ post[r][e].st = "sent" /\ post'[r][e].st # "none"
        /\ \A q \in Request : q # r => ready'[q] = ready[q]
        /\ \A q \in Request : \A k \in Encoder : q # r \/ k # e => post'[q][k] = post[q][k]
    <3>1. CASE EncoderReads(r, e)
      <4>1. PICK todo \in Seq(Staged), it \in Staged : Reads(r, e, todo, it)
        BY <3>1, EncoderReadsReads
      <4>2. ready' = ready /\ post[r][e].todo # <<>>
        <5>1. ready' = ready /\ 1 \in DOMAIN todo /\ todo = post[r][e].todo
          BY <4>1, Zenon DEF Reads
        <5> QED BY <5>1
      <4>3. post[r][e].st = "sent"
        BY <4>2 DEF Lists
      <4>4. /\ post'[r][e].st = post[r][e].st
            /\ \A q \in Request : \A k \in Encoder : q # r \/ k # e => post'[q][k] = post[q][k]
        BY <4>1, ReadsEffect
      <4> QED BY <4>2, <4>3, <4>4
    <3>2. ASSUME Lose(r, e)
          PROVE  /\ post'[r][e].st = "lost"
                 /\ \A q \in Request : \A k \in Encoder : q # r \/ k # e => post'[q][k] = post[q][k]
      <4>1. post' = [post EXCEPT ![r][e] = [st |-> "lost", todo |-> <<>>]]
        BY <3>2 DEF Lose
      <4>2. PICK v \in Call : v = [st |-> "lost", todo |-> <<>>]
        <5>1. [st |-> "lost", todo |-> <<>>] \in Call
          BY DEF Call
        <5> QED BY <5>1
      <4> QED BY <4>1, <4>2, CallSet
    <3>3. CASE EncoderReplies(r, e)
      <4>1. post[r][e].st = "sent"
        BY <3>3 DEF EncoderReplies
      <4>2. CASE Lose(r, e) /\ UNCHANGED ready
        BY <3>2, <4>1, <4>2
      <4>3. CASE \E located : /\ post' = [post EXCEPT ![r][e].st = "done"]
                              /\ ready' = [ready EXCEPT ![r] = @ \cup located]
        <5>1. /\ post'[r][e].st = "done"
              /\ \A q \in Request : \A k \in Encoder : q # r \/ k # e => post'[q][k] = post[q][k]
          BY <4>3, DoneSet
        <5>2. \A q \in Request : q # r => ready'[q] = ready[q]
          BY <1>1, <4>3
        <5> QED BY <4>1, <5>1, <5>2
      <4> QED BY <3>3, <4>2, <4>3 DEF EncoderReplies
    <3>4. CASE CallFails(r, e)
      BY <3>2, <3>4 DEF CallFails
    <3> QED BY <1>13, <3>1, <3>3, <3>4
  <2>5. \A q \in Request : Goes(q)'
    BY <1>6, <2>1, <2>4
  <2> QED BY <2>2, <2>3, <2>5 DEF Flow
<1> QED BY <1>7, <1>8, <1>9, <1>10, <1>11, <1>12, <1>13 DEF EpdNext, RouterStep, PoolStep, Fault

------------------------------------------------------------------------------
(* What a request is answered. *)

(* Every step keeps what requests were answered. *)
LEMMA AnswersKept ==
  ASSUME EpdTypes, EpdTypes', Rings, Lists, Accounts, Flow, Answers, EpdNext
  PROVE  Answers'
<1> DEFINE Paired(r) == /\ \A pair \in encoded[r] : pair[1] = pair[2]
                        /\ ready[r] \subseteq Range(media[r])
                        /\ \A h \in ready[r] : <<h, h>> \in encoded[r]
                        /\ st[r] \in {"driving", "answered"} => Range(media[r]) \subseteq ready[r]
           Asks(r, e) == /\ post[r][e].st = "sent" => \A h \in Asked(r, e) :
                              \/ <<h, h>> \in encoded[r]
                              \/ \E i \in DOMAIN post[r][e].todo : post[r][e].todo[i].hash = h
                         /\ post[r][e].st = "done" => Asked(r, e) \subseteq ready[r]
<1>0. \A r \in Request : Paired(r) /\ \A e \in Encoder : Asks(r, e)
  BY DEF Answers
<1> SUFFICES \A r \in Request : Paired(r)' /\ \A e \in Encoder : Asks(r, e)'
  BY DEF Answers
<1>1. /\ st \in [Request -> {"new", "rendering", "gathering", "driving"} \cup Ended]
      /\ media \in [Request -> Seq(Hash)] /\ tasks \in Seq(Request)
      /\ work \in [Worker -> [req : SUBSET Request, staged : Seq(Staged)]]
      /\ post \in [Request -> [Encoder -> Call]]
      /\ ready \in [Request -> SUBSET Hash]
      /\ encoded \in [Request -> SUBSET (Hash \X (Hash \cup {WarmUp}))]
  BY DEF EpdTypes
(* Nothing that the request was answered changes. *)
<1>2. ASSUME NEW r \in Request, media'[r] = media[r], ready'[r] = ready[r], encoded'[r] = encoded[r],
             st'[r] \in {"driving", "answered"} => st[r] \in {"driving", "answered"}
      PROVE  Paired(r)'
  BY <1>0, <1>2
<1>3. ASSUME NEW r \in Request, NEW e \in Encoder, media'[r] = media[r], post'[r][e] = post[r][e],
             ready[r] \subseteq ready'[r], encoded[r] \subseteq encoded'[r]
      PROVE  Asks(r, e)'
  <2>1. Asked(r, e)' = Asked(r, e)
    BY <1>3 DEF Asked
  <2> QED BY <1>0, <1>3, <2>1
<1>4. ASSUME NEW r \in Request, Submit(r)
      PROVE  \A q \in Request : Paired(q)' /\ \A e \in Encoder : Asks(q, e)'
  <2> TAKE q \in Request
  <2>1. /\ st[r] = "new" /\ st' = [st EXCEPT ![r] = "rendering"]
        /\ UNCHANGED <<post, ready, encoded>>
        /\ \A x \in Request : x # r => media'[x] = media[x]
    BY <1>1, <1>4 DEF Submit
  <2>2. CASE q = r
    <3>1. ready[r] = {} /\ \A e \in Encoder : post[r][e] = NoPost
      BY <2>1 DEF Flow
    <3>2. st'[r] = "rendering"
      BY <1>1, <2>1
    <3>3. Paired(r)'
      BY <1>0, <2>1, <3>1, <3>2
    <3>4. \A e \in Encoder : Asks(r, e)'
      BY <2>1, <3>1 DEF NoPost
    <3> QED BY <2>2, <3>3, <3>4
  <2>3. CASE q # r
    <3>1. st'[q] = st[q] /\ media'[q] = media[q]
      BY <1>1, <2>1, <2>3
    <3> QED BY <1>2, <1>3, <2>1, <3>1
  <2> QED BY <2>2, <2>3
<1>5. ASSUME UNCHANGED <<media, post, ready, encoded>>,
             \A q \in Request : st'[q] \in {"driving", "answered"} => st[q] \in {"driving", "answered"}
      PROVE  \A q \in Request : Paired(q)' /\ \A e \in Encoder : Asks(q, e)'
  BY <1>2, <1>3, <1>5
<1>6. ASSUME NEW w \in Worker, TakeTask(w) \/ \E r \in Request : StageItem(w, r)
      PROVE  \A q \in Request : Paired(q)' /\ \A e \in Encoder : Asks(q, e)'
  <2>1. UNCHANGED <<st, media, post, ready, encoded>>
    BY <1>6 DEF TakeTask, StageItem
  <2> QED BY <1>5, <2>1
<1>7. ASSUME NEW w \in Worker, NEW r \in Request, Rendered(w, r)
      PROVE  \A q \in Request : Paired(q)' /\ \A e \in Encoder : Asks(q, e)'
  <2>1. Rendering(w, r) /\ StagedAll(w, r) /\ UNCHANGED <<media, ready, encoded>>
    BY <1>7 DEF Rendered
  <2>2. CASE WaitedFor(r)
    <3>1. PICK staged \in Seq(Staged), list \in Seq(Hash) : staged = work[w].staged /\ list = media[r]
      BY <1>1
    <3>2. /\ st' = [st EXCEPT ![r] = IF staged = <<>> THEN "driving" ELSE "gathering"]
          /\ post' = [post EXCEPT ![r] = Calls(staged)]
      BY <1>7, <2>2, <3>1 DEF Rendered
    <3>3. \A q \in Request : q # r => st'[q] = st[q] /\ post'[q] = post[q]
      BY <1>1, <3>2
    <3>4. ASSUME st'[r] \in {"driving", "answered"} PROVE Range(media'[r]) \subseteq ready'[r]
      <4>1. staged = <<>>
        BY <1>1, <3>2, <3>4
      <4>2. Len(list) = 0
        BY <2>1, <3>1, <4>1 DEF StagedAll
      <4>3. DOMAIN list = {}
        BY <4>2
      <4> QED BY <2>1, <3>1, <4>3 DEF Range
    <3>5. Paired(r)'
      BY <1>0, <2>1, <3>4
    <3>6. ASSUME NEW e \in Encoder PROVE Asks(r, e)'
      <4>1. post'[r][e] = Calls(staged)[e] /\ Asked(r, e)' = Asked(r, e)
        BY <1>1, <2>1, <3>2 DEF Asked
      <4>2. post'[r][e].st # "done"
        BY <4>1, BatchItems
      <4>3. \A h \in Asked(r, e) : \E k \in DOMAIN post'[r][e].todo : post'[r][e].todo[k].hash = h
        BY <2>1, <3>1, <4>1, AllCalled
      <4> QED BY <4>1, <4>2, <4>3
    <3> TAKE q \in Request
    <3>7. CASE q = r
      BY <3>5, <3>6, <3>7
    <3>8. CASE q # r
      BY <1>2, <1>3, <2>1, <3>3, <3>8
    <3> QED BY <3>7, <3>8
  <2>3. CASE ~WaitedFor(r)
    <3>1. UNCHANGED <<st, post>>
      BY <1>7, <2>3 DEF Rendered
    <3> QED BY <1>5, <2>1, <3>1
  <2> QED BY <2>2, <2>3
<1>8. ASSUME NEW w \in Worker, WorkerDies(w) \/ \E r \in Request : RenderFails(w, r)
      PROVE  \A q \in Request : Paired(q)' /\ \A e \in Encoder : Asks(q, e)'
  <2>1. /\ UNCHANGED <<media, post, ready, encoded>>
        /\ \A q \in Request : st'[q] = st[q] \/ st'[q] = "failed"
    BY <1>1, <1>8 DEF WorkerDies, RenderFails
  <2> QED BY <1>5, <2>1
<1>9. ASSUME NEW r \in Request, RenderTimeout(r) \/ GatherFails(r) \/ Answer(r) \/ ClientLeaves(r)
      PROVE  \A q \in Request : Paired(q)' /\ \A e \in Encoder : Asks(q, e)'
  <2>1. /\ UNCHANGED <<media, post, ready, encoded>>
        /\ \A q \in Request : \/ st'[q] = st[q] \/ st'[q] = "failed"
                              \/ q = r /\ st[r] = "driving"
    BY <1>1, <1>9 DEF RenderTimeout, GatherFails, Answer, ClientLeaves
  <2> QED BY <1>5, <2>1
<1>10. ASSUME NEW r \in Request, Gathered(r)
       PROVE  \A q \in Request : Paired(q)' /\ \A e \in Encoder : Asks(q, e)'
  <2>1. /\ UNCHANGED <<media, post, ready, encoded>>
        /\ st[r] = "gathering" /\ st' = [st EXCEPT ![r] = "driving"]
        /\ \A e \in Encoder : post[r][e].st \in {"none", "done"}
    BY <1>1, <1>10 DEF Gathered, CallsIn, Call
  <2>2. Range(media[r]) \subseteq ready[r]
    <3> SUFFICES ASSUME NEW h \in Range(media[r]) PROVE h \in ready[r]
      OBVIOUS
    <3>1. PICK list \in Seq(Hash) : list = media[r]
      BY <1>1
    <3>2. h \in Hash
      BY <3>1 DEF Range
    <3>3. PICK e \in Encoder : e = VeOf[h]
      BY <3>2, RouterAssumption
    <3>4. h \in Asked(r, e)
      BY <3>3 DEF Asked
    <3>5. post[r][e].st # "none"
      BY <2>1, <3>4 DEF Flow
    <3> QED BY <1>0, <2>1, <3>4, <3>5
  <2>3. \A q \in Request : q # r => st'[q] = st[q]
    BY <1>1, <2>1
  <2> TAKE q \in Request
  <2>4. Paired(q)'
    BY <1>0, <1>2, <2>1, <2>2, <2>3
  <2>5. \A e \in Encoder : Asks(q, e)'
    BY <1>3, <2>1
  <2> QED BY <2>4, <2>5
<1>11. ASSUME NEW r \in Request, NEW e \in Encoder, EncoderReads(r, e)
       PROVE  \A q \in Request : Paired(q)' /\ \A k \in Encoder : Asks(q, k)'
  <2>1. PICK todo \in Seq(Staged), it \in Staged : Reads(r, e, todo, it)
    BY <1>11, EncoderReadsReads
  <2>2. /\ encoded' = [encoded EXCEPT ![r] = @ \cup {<<it.hash, it.hash>>}]
        /\ UNCHANGED <<st, media, ready>>
        /\ todo = post[r][e].todo /\ 1 \in DOMAIN todo /\ it = todo[1]
    BY <2>1, Zenon DEF Reads
  <2>3. /\ encoded'[r] = encoded[r] \cup {<<it.hash, it.hash>>}
        /\ \A q \in Request : q # r => encoded'[q] = encoded[q]
    BY <1>1, <2>2
  <2>4. /\ post'[r][e].st = post[r][e].st
        /\ DOMAIN post'[r][e].todo = {i \in Nat \ {0} : i + 1 \in DOMAIN todo}
        /\ \A i \in DOMAIN post'[r][e].todo : post'[r][e].todo[i] = todo[i + 1]
        /\ \A q \in Request : \A k \in Encoder : q # r \/ k # e => post'[q][k] = post[q][k]
    BY <2>1, ReadsEffect
  <2>5. post[r][e].st = "sent"
    <3>1. post[r][e].todo # <<>>
      BY <2>2
    <3> QED BY <3>1 DEF Lists
  <2>6. Asks(r, e)'
    <3> SUFFICES ASSUME NEW h \in Asked(r, e)
                 PROVE  \/ <<h, h>> \in encoded'[r]
                        \/ \E i \in DOMAIN post'[r][e].todo : post'[r][e].todo[i].hash = h
      BY <2>2, <2>4, <2>5 DEF Asked
    <3>1. CASE <<h, h>> \in encoded[r]
      BY <2>3, <3>1
    <3>2. CASE \E i \in DOMAIN todo : todo[i].hash = h
      <4>1. PICK i \in DOMAIN todo : todo[i].hash = h
        BY <3>2
      <4>2. CASE i = 1
        BY <2>2, <2>3, <4>1, <4>2
      <4>3. CASE i # 1
        <5>1. i - 1 \in Nat \ {0} /\ (i - 1) + 1 = i
          BY <4>3
        <5>2. PICK j \in Nat \ {0} : j = i - 1 /\ j + 1 = i
          BY <5>1
        <5>3. j \in DOMAIN post'[r][e].todo /\ post'[r][e].todo[j] = todo[i]
          BY <2>4, <5>2
        <5> QED BY <4>1, <5>3
      <4> QED BY <4>2, <4>3
    <3> QED BY <1>0, <2>2, <2>5, <3>1, <3>2
  <2> TAKE q \in Request
  <2>7. Paired(q)'
    <3>1. CASE q = r
      <4>1. \A pair \in encoded'[r] : pair[1] = pair[2]
        BY <1>0, <2>3
      <4> QED BY <1>0, <2>2, <2>3, <3>1, <4>1
    <3>2. CASE q # r
      BY <1>2, <2>2, <2>3, <3>2
    <3> QED BY <3>1, <3>2
  <2>8. ASSUME NEW k \in Encoder PROVE Asks(q, k)'
    <3>1. CASE q = r /\ k = e
      BY <2>6, <3>1
    <3>2. CASE q # r \/ k # e
      <4>1. encoded[q] \subseteq encoded'[q] /\ post'[q][k] = post[q][k]
        BY <2>3, <2>4, <3>2
      <4> QED BY <1>3, <2>2, <4>1
    <3> QED BY <3>1, <3>2
  <2> QED BY <2>7, <2>8
<1>12. ASSUME NEW r \in Request, NEW e \in Encoder, Lose(r, e), UNCHANGED <<st, media, ready, encoded>>
       PROVE  \A q \in Request : Paired(q)' /\ \A k \in Encoder : Asks(q, k)'
  <2>1. PICK v \in Call : v = [st |-> "lost", todo |-> <<>>]
    <3>1. [st |-> "lost", todo |-> <<>>] \in Call
      BY DEF Call
    <3> QED BY <3>1
  <2>2. post' = [post EXCEPT ![r][e] = v]
    BY <1>12, <2>1 DEF Lose
  <2>3. /\ post'[r][e].st = "lost"
        /\ \A q \in Request : \A k \in Encoder : q # r \/ k # e => post'[q][k] = post[q][k]
    BY <2>1, <2>2, CallSet
  <2> TAKE q \in Request
  <2>4. Paired(q)'
    BY <1>2, <1>12
  <2>5. ASSUME NEW k \in Encoder PROVE Asks(q, k)'
    <3>1. CASE q = r /\ k = e
      BY <2>3, <3>1
    <3>2. CASE q # r \/ k # e
      BY <1>3, <1>12, <2>3, <3>2
    <3> QED BY <3>1, <3>2
  <2> QED BY <2>4, <2>5
<1>13. ASSUME NEW r \in Request, NEW e \in Encoder, EncoderReplies(r, e)
       PROVE  \A q \in Request : Paired(q)' /\ \A k \in Encoder : Asks(q, k)'
  <2>1. post[r][e].st = "sent" /\ post[r][e].todo = <<>> /\ UNCHANGED <<st, media, encoded>>
    BY <1>13 DEF EncoderReplies
  <2>2. PICK missing :
          IF Complete(Asked(r, e), Asked(r, e) \ missing)
          THEN /\ post' = [post EXCEPT ![r][e].st = "done"]
               /\ ready' = [ready EXCEPT ![r] = @ \cup (Asked(r, e) \ missing)]
               /\ UNCHANGED waste
          ELSE Lose(r, e) /\ UNCHANGED ready
    BY <1>13 DEF EncoderReplies
  <2>3. CASE ~Complete(Asked(r, e), Asked(r, e) \ missing)
    BY <1>12, <2>1, <2>2, <2>3
  <2>4. CASE Complete(Asked(r, e), Asked(r, e) \ missing)
    <3>1. Asked(r, e) \ missing = Asked(r, e)
      BY <2>4 DEF Complete
    <3>2. post' = [post EXCEPT ![r][e].st = "done"] /\ ready' = [ready EXCEPT ![r] = @ \cup Asked(r, e)]
      BY <2>2, <2>4, <3>1
    <3>3. /\ post'[r][e].st = "done"
          /\ \A q \in Request : \A k \in Encoder : q # r \/ k # e => post'[q][k] = post[q][k]
      BY <3>2, DoneSet
    <3>4. /\ ready'[r] = ready[r] \cup Asked(r, e)
          /\ \A q \in Request : q # r => ready'[q] = ready[q]
      BY <1>1, <3>2
    <3>5. \A h \in Asked(r, e) : <<h, h>> \in encoded[r] /\ h \in Range(media[r])
      <4>1. Asks(r, e)
        BY <1>0
      <4>2. \A h \in Asked(r, e) : <<h, h>> \in encoded[r]
        <5>1. ~(\E i \in DOMAIN post[r][e].todo : TRUE)
          BY <2>1
        <5> QED BY <2>1, <4>1, <5>1
      <4> QED BY <4>2 DEF Asked
    <3> TAKE q \in Request
    <3>6. Paired(q)'
      <4>1. CASE q = r
        BY <1>0, <2>1, <3>4, <3>5, <4>1
      <4>2. CASE q # r
        BY <1>2, <2>1, <3>4, <4>2
      <4> QED BY <4>1, <4>2
    <3>7. ASSUME NEW k \in Encoder PROVE Asks(q, k)'
      <4>1. CASE q = r /\ k = e
        <5>1. Asked(r, e)' = Asked(r, e)
          BY <2>1 DEF Asked
        <5> QED BY <3>3, <3>4, <4>1, <5>1
      <4>2. CASE q # r \/ k # e
        <5>1. ready[q] \subseteq ready'[q] /\ post'[q][k] = post[q][k]
          BY <3>3, <3>4, <4>2
        <5> QED BY <1>3, <2>1, <5>1
      <4> QED BY <4>1, <4>2
    <3> QED BY <3>6, <3>7
  <2> QED BY <2>3, <2>4
<1>14. ASSUME NEW r \in Request, NEW e \in Encoder, CallFails(r, e)
       PROVE  \A q \in Request : Paired(q)' /\ \A k \in Encoder : Asks(q, k)'
  <2>1. Lose(r, e) /\ UNCHANGED <<st, media, ready, encoded>>
    BY <1>14 DEF CallFails
  <2> QED BY <1>12, <2>1
<1> HIDE DEF Paired, Asks
<1> QED BY <1>4, <1>6, <1>7, <1>8, <1>9, <1>10, <1>11, <1>13, <1>14
        DEF EpdNext, RouterStep, PoolStep, Fault

------------------------------------------------------------------------------
(* The invariant holds always. *)

(* The store after warm_up_allocator is in order; only its first slot is *)
(* live.                                                                 *)
LEMMA WarmRings ==
  ASSUME NEW n \in Nat
  PROVE  LET r == WarmRing(n)
         IN  /\ r \in RingType /\ InOrder(r)
             /\ \A a \in Live(r) : a = 0 /\ r.cell[a].id = 0 /\ r.cell[a].reads = 0 /\ r.next = 1
<1>0. Slots \in Nat \ {0} /\ 0 \in Address /\ \A a \in Address : a \in Nat /\ a < Slots
  BY StagingAssumption DEF Address
<1>1. NoCell \in CellType /\ NoCell.id = -1
  BY DEF NoCell, CellType
<1>2. PICK cells : cells = [a \in Address |-> NoCell]
  OBVIOUS
<1>3. cells \in [Address -> CellType] /\ \A a \in Address : cells[a].id = -1
  BY <1>1, <1>2
<1>4. EmptyRing = [first |-> 0, next |-> 0, end |-> 0, cell |-> cells]
  BY <1>2 DEF EmptyRing
<1>5. CASE n = 0
  <2>1. PICK r : r = WarmRing(n) /\ r = [first |-> 0, next |-> 0, end |-> 0, cell |-> cells]
    BY <1>4, <1>5 DEF WarmRing
  <2>2. r.first = 0 /\ r.next = 0 /\ r.end = 0 /\ r.cell = cells
    BY <2>1
  <2>3. r \in RingType
    BY <1>0, <1>3, <2>1 DEF RingType
  <2>4. Live(r) = {}
    BY <1>3, <2>2 DEF Live
  <2>5. InOrder(r)
    BY <1>0, <1>3, <2>2, <2>4 DEF InOrder
  <2> QED BY <2>1, <2>3, <2>4, <2>5
<1>6. CASE n # 0
  <2>1. PICK c : c = [id |-> 0, hash |-> WarmUp, writes |-> n, reads |-> 0]
    OBVIOUS
  <2>2. c \in CellType /\ c.id = 0 /\ c.reads = 0
    BY <2>1 DEF CellType
  <2>3. PICK e : e = 1 % Slots
    OBVIOUS
  <2>4. e \in Address /\ e = IF Slots = 1 THEN 0 ELSE 1
    BY <1>0, <2>3 DEF Address
  <2>5. PICK r : r = WarmRing(n)
    OBVIOUS
  <2>6. r = [first |-> 0, next |-> 1, end |-> e, cell |-> [cells EXCEPT ![0] = c]]
    BY <1>4, <1>6, <2>1, <2>3, <2>5 DEF WarmRing
  <2>7. r.first = 0 /\ r.next = 1 /\ r.end = e /\ r.cell = [cells EXCEPT ![0] = c]
    BY <2>6
  <2>8. [cells EXCEPT ![0] = c] \in [Address -> CellType]
    BY <1>0, <1>3, <2>2
  <2>9. r \in RingType
    BY <2>4, <2>6, <2>8 DEF RingType
  <2>10. r.cell[0] = c /\ \A a \in Address : a # 0 => r.cell[a].id = -1
    BY <1>0, <1>3, <2>7
  <2>11. Live(r) = {0}
    BY <1>0, <2>2, <2>7, <2>10 DEF Live
  <2>12. InOrder(r)
    <3>1. r.first <= r.next /\ r.next - r.first <= Slots
      BY <1>0, <2>7
    <3>2. \A a \in Address : r.cell[a].id < r.next
      BY <2>2, <2>7, <2>10
    <3>3. 0 \in {r.end - (r.next - r.cell[0].id), r.end - (r.next - r.cell[0].id) + Slots}
      BY <1>0, <2>2, <2>4, <2>7, <2>10
    <3>4. \A i \in r.first .. r.next - 1 : \E a \in Address : r.cell[a].id = i
      BY <1>0, <2>2, <2>7, <2>10
    <3> QED BY <2>11, <3>1, <3>2, <3>3, <3>4 DEF InOrder
  <2> QED BY <2>2, <2>5, <2>7, <2>9, <2>10, <2>11, <2>12
<1> QED BY <1>5, <1>6

(* The invariant holds at first. *)
LEMMA EpdStarts ==
  ASSUME EpdInit
  PROVE  EpdInv
<1>1. PICK runs \in [Worker -> 0 .. Cardinality(Worker)] :
        ring = [s \in Segment |-> IF s[2] = 0 THEN WarmRing(runs[s[1]]) ELSE EmptyRing]
  BY DEF EpdInit, StagingInit
<1>2. ASSUME NEW s \in Segment
      PROVE  \E n \in Nat : ring[s] = WarmRing(n)
  <2>1. s[1] \in Worker
    BY DEF Segment
  <2>2. runs[s[1]] \in Nat
    BY <2>1
  <2>3. EmptyRing = WarmRing(0)
    BY DEF WarmRing
  <2> QED BY <1>1, <2>2, <2>3
<1>3. \A s \in Segment :
        /\ ring[s] \in RingType /\ InOrder(ring[s])
        /\ \A a \in Live(ring[s]) :
             a = 0 /\ ring[s].cell[a].id = 0 /\ ring[s].cell[a].reads = 0 /\ ring[s].next = 1
  BY <1>2, WarmRings
<1>4. /\ deaths = [w \in Worker |-> 0] /\ readers = [e \in Encoder |-> {}]
      /\ st = [r \in Request |-> "new"] /\ media = [r \in Request |-> <<>>] /\ tasks = <<>>
      /\ work = [w \in Worker |-> NoWork]
      /\ post = [r \in Request |-> [e \in Encoder |-> NoPost]]
      /\ ready = [r \in Request |-> {}]
      /\ waste = {Handle(s, 0, 0) : s \in {t \in Segment : ring[t].next = 1}}
      /\ encoded = [r \in Request |-> {}]
  BY DEF EpdInit, StagingInit
<1>5. /\ \A w \in Worker : work[w].req = {} /\ work[w].staged = <<>>
      /\ \A r \in Request, e \in Encoder : post[r][e] = NoPost
      /\ NoPost.st = "none" /\ NoPost.todo = <<>>
  BY <1>4 DEF NoWork, NoPost
<1>6. EpdTypes
  <2>1. ring \in [Segment -> RingType]
    BY <1>1, <1>3
  <2>2. deaths \in [Worker -> 0 .. MaxDeaths] /\ readers \in [Encoder -> SUBSET Segment]
    BY <1>4, StagingAssumption
  <2>3. NoWork \in [req : SUBSET Request, staged : Seq(Staged)] /\ NoPost \in Call
    BY DEF NoWork, NoPost, Call
  <2>4. <<>> \in Seq(Hash) /\ <<>> \in Seq(Request)
    OBVIOUS
  <2> QED BY <1>4, <2>1, <2>2, <2>3, <2>4 DEF EpdTypes
<1>7. Rings
  BY <1>3 DEF Rings
<1>8. Lists
  BY <1>5 DEF Lists
<1>9. Accounts
  <2> SUFFICES ASSUME NEW s \in Segment, NEW a \in Live(ring[s])
               PROVE  Owed(ring, work, post, waste, s, a)
    BY DEF Accounts
  <2>1. PICK c \in CellType : c = ring[s].cell[a]
    BY <1>3 DEF RingType, Live
  <2>2. PICK d : d = Handle(s, a, c.id)
    OBVIOUS
  <2>3. a = 0 /\ c.id = 0 /\ c.reads = 0 /\ ring[s].next = 1
    BY <1>3, <2>1
  <2>4. d \in waste
    BY <1>4, <2>2, <2>3
  <2>5. StagedAt(work, d) = {}
    BY <1>5, StagedPlaces
  <2>6. CalledWith(post, d) = {}
    BY <1>5 DEF CalledWith
  <2>7. IsFiniteSet({}) /\ Cardinality({}) = 0
    BY FS_EmptySet
  <2>8. c.writes \in Nat
    BY DEF CellType
  <2>9. Owes(c, {}, {}, d \notin waste)
    BY <2>3, <2>4, <2>7, <2>8 DEF Owes
  <2> QED BY <2>1, <2>2, <2>5, <2>6, <2>9 DEF Owed
<1>10. Flow
  <2>1. \A w \in Worker : \A r \in Request : ~Rendering(w, r)
    BY <1>5 DEF Rendering
  <2>2. \A r \in Request : st[r] = "new" /\ ready[r] = {}
    BY <1>4
  <2>3. ~(\E i \in DOMAIN tasks : TRUE)
    BY <1>4
  <2> QED BY <1>5, <2>1, <2>2, <2>3 DEF Flow
<1>11. Answers
  BY <1>4, <1>5 DEF Answers
<1> QED BY <1>6, <1>7, <1>8, <1>9, <1>10, <1>11 DEF EpdInv

(* A step leaves the store as it is and drops lists, or is one of three. *)
LEMMA ListsKept ==
  ASSUME EpdTypes, EpdTypes', Rings, Lists, Accounts, Flow, EpdNext
  PROVE  Rings' /\ Lists' /\ Accounts'
<1>1. /\ deaths \in [Worker -> 0 .. MaxDeaths]
      /\ work \in [Worker -> [req : SUBSET Request, staged : Seq(Staged)]]
      /\ post \in [Request -> [Encoder -> Call]]
  BY DEF EpdTypes
<1>2. \A w \in Worker : deaths[w] \in Int
  BY <1>1
<1>3. ASSUME Drops PROVE Rings' /\ Lists' /\ Accounts'
  <2>1. ring' = ring
    BY <1>3 DEF Drops
  <2> QED BY <1>3, <2>1, ListsDropped, AccountsDropped DEF Rings
<1>4. ASSUME ring' = ring, deaths' = deaths, waste \subseteq waste', UNCHANGED post,
             \A w \in Worker :
               \/ work'[w] = work[w]
               \/ work[w].staged = <<>> /\ work'[w].staged = <<>>
               \/ work'[w].staged = <<>> /\ Wires(work[w].staged) \subseteq waste'
      PROVE  Drops
  <2>1. \A w \in Worker : deaths[w] <= deaths'[w]
    BY <1>2, <1>4
  <2>2. \A w \in Worker :
          /\ work'[w].staged \in {work[w].staged, <<>>}
          /\ work'[w].req = {} => work'[w].staged = <<>>
          /\ work'[w].staged # work[w].staged => Wires(work[w].staged) \subseteq waste'
    BY <1>4 DEF Lists
  <2>3. \A r \in Request, e \in Encoder : post[r][e].st # "sent" => post[r][e].todo = <<>>
    BY DEF Lists
  <2> QED BY <1>4, <2>1, <2>2, <2>3 DEF Drops
<1>5. ASSUME UNCHANGED <<stagingVars, work, post>>, waste \subseteq waste' PROVE Drops
  BY <1>4, <1>5 DEF stagingVars
<1>6. ASSUME NEW r \in Request, NEW e \in Encoder, Lose(r, e), UNCHANGED <<stagingVars, work>>
      PROVE  Drops
  <2>1. PICK v \in Call : v = [st |-> "lost", todo |-> <<>>]
    <3>1. [st |-> "lost", todo |-> <<>>] \in Call
      BY DEF Call
    <3> QED BY <3>1
  <2>2. post' = [post EXCEPT ![r][e] = v] /\ waste' = waste \cup Wires(post[r][e].todo)
    BY <1>6, <2>1 DEF Lose, WiresLeft
  <2>3. /\ post'[r][e].st = "lost" /\ post'[r][e].todo = <<>>
        /\ \A q \in Request : \A k \in Encoder : q # r \/ k # e => post'[q][k] = post[q][k]
    BY <2>1, <2>2, CallSet
  <2>4. ring' = ring /\ work' = work /\ \A w \in Worker : deaths[w] <= deaths'[w]
    BY <1>2, <1>6 DEF stagingVars
  <2>5. \A w \in Worker : work[w].req = {} => work[w].staged = <<>>
    BY DEF Lists
  <2>6. ASSUME NEW q \in Request, NEW k \in Encoder
        PROVE  /\ post'[q][k].todo \in {post[q][k].todo, <<>>}
               /\ post'[q][k].st # "sent" => post'[q][k].todo = <<>>
               /\ post'[q][k].todo # post[q][k].todo => Wires(post[q][k].todo) \subseteq waste'
    <3>1. CASE q = r /\ k = e
      BY <2>2, <2>3, <3>1
    <3>2. CASE q # r \/ k # e
      <4>1. post'[q][k] = post[q][k]
        BY <2>3, <3>2
      <4> QED BY <4>1 DEF Lists
    <3> QED BY <3>1, <3>2
  <2> QED BY <2>2, <2>4, <2>5, <2>6 DEF Drops
<1>7. ASSUME NEW r \in Request,
             Submit(r) \/ RenderTimeout(r) \/ GatherFails(r) \/ Gathered(r) \/ Answer(r) \/ ClientLeaves(r)
      PROVE  Drops
  <2>1. UNCHANGED <<stagingVars, work, post>> /\ waste' = waste
    BY <1>7 DEF Submit, RenderTimeout, GatherFails, Gathered, Answer, ClientLeaves
  <2> QED BY <1>5, <2>1
<1>8. ASSUME NEW w \in Worker, TakeTask(w) PROVE Drops
  <2>1. /\ work[w] = NoWork /\ UNCHANGED <<stagingVars, post, waste>>
        /\ work' = [work EXCEPT ![w].req = {Head(tasks)}]
    BY <1>8 DEF TakeTask
  <2>2. PICK q \in Request : q = Head(tasks)
    <3>1. tasks \in Seq(Request) /\ tasks # <<>>
      BY <1>8 DEF EpdTypes, TakeTask
    <3>2. Head(tasks) \in Request
      BY <3>1
    <3> QED BY <3>2
  <2>3. work'[w].staged = work[w].staged /\ \A v \in Worker : v # w => work'[v] = work[v]
    <3>1. work' = [work EXCEPT ![w].req = {q}]
      BY <2>1, <2>2
    <3> QED BY <3>1, ReqSet
  <2>4. work[w].staged = <<>>
    BY <2>1 DEF NoWork
  <2> QED BY <1>4, <2>1, <2>3, <2>4 DEF stagingVars
<1>9. ASSUME NEW w \in Worker, NEW r \in Request, RenderFails(w, r) PROVE Drops
  <2>1. /\ work[w].staged = <<>> /\ UNCHANGED <<stagingVars, post, waste>>
        /\ work' = [work EXCEPT ![w] = NoWork]
    BY <1>9 DEF RenderFails
  <2>2. work'[w].staged = <<>> /\ \A v \in Worker : v # w => work'[v] = work[v]
    BY <1>1, <2>1 DEF NoWork
  <2> QED BY <1>4, <2>1, <2>2 DEF stagingVars
<1>10. ASSUME NEW w \in Worker, WorkerDies(w) PROVE Drops
  <2>1. /\ ring' = ring /\ deaths' = [deaths EXCEPT ![w] = @ + 1] /\ post' = post
        /\ work' = [work EXCEPT ![w] = NoWork] /\ waste' = waste \cup Wires(work[w].staged)
    BY <1>10 DEF WorkerDies, Replace
  <2>2. work'[w].staged = <<>> /\ \A v \in Worker : v # w => work'[v] = work[v]
    BY <1>1, <2>1 DEF NoWork
  <2>3. \A v \in Worker : deaths[v] <= deaths'[v]
    BY <1>1, <1>2, <2>1
  <2>4. \A v \in Worker :
          /\ work'[v].staged \in {work[v].staged, <<>>}
          /\ work'[v].req = {} => work'[v].staged = <<>>
          /\ work'[v].staged # work[v].staged => Wires(work[v].staged) \subseteq waste'
    BY <2>1, <2>2 DEF Lists
  <2>5. \A r \in Request, e \in Encoder : post[r][e].st # "sent" => post[r][e].todo = <<>>
    BY DEF Lists
  <2> QED BY <2>1, <2>3, <2>4, <2>5 DEF Drops
<1>11. ASSUME NEW w \in Worker, NEW r \in Request, Rendered(w, r) PROVE Rings' /\ Lists' /\ Accounts'
  <2>1. CASE WaitedFor(r)
    <3>1. ring' = ring
      BY <1>11 DEF Rendered, stagingVars
    <3> QED BY <1>11, <2>1, <3>1, RenderedLists, RenderedAccounts DEF Rings
  <2>2. CASE ~WaitedFor(r)
    <3>1. /\ UNCHANGED <<stagingVars, post>> /\ waste' = waste \cup Wires(work[w].staged)
          /\ work' = [work EXCEPT ![w] = NoWork]
      BY <1>11, <2>2 DEF Rendered
    <3>2. work'[w].staged = <<>> /\ \A v \in Worker : v # w => work'[v] = work[v]
      BY <1>1, <3>1 DEF NoWork
    <3>3. Drops
      BY <1>4, <3>1, <3>2 DEF stagingVars
    <3> QED BY <1>3, <3>3
  <2> QED BY <2>1, <2>2
<1>12. ASSUME NEW w \in Worker, NEW r \in Request, StageItem(w, r) PROVE Rings' /\ Lists' /\ Accounts'
  <2>1. PICK put : \E s \in Segment, h \in Hash, staged \in Seq(Staged), it \in Staged :
           /\ Stages(w, s, h, put, staged, it)
           /\ Len(staged) < Len(media[r]) /\ h = media[r][Len(staged) + 1]
    BY <1>12, StageItemStages
  <2>2. PICK s \in Segment, h \in Hash, staged \in Seq(Staged), it \in Staged :
           Stages(w, s, h, put, staged, it)
    BY <2>1
  <2>3. work[w].req # {}
    BY <1>12 DEF StageItem, Rendering
  <2> QED BY <2>2, <2>3, StagesLists, StagesAccounts
<1>13. ASSUME NEW r \in Request, NEW e \in Encoder, EncoderReads(r, e) PROVE Rings' /\ Lists' /\ Accounts'
  <2>1. PICK todo \in Seq(Staged), it \in Staged : Reads(r, e, todo, it)
    BY <1>13, EncoderReadsReads
  <2> QED BY <2>1, ReadsLists, ReadsAccounts
<1>14. ASSUME NEW r \in Request, NEW e \in Encoder, EncoderReplies(r, e) PROVE Drops
  <2>1. UNCHANGED <<stagingVars, work>> /\ post[r][e].todo = <<>>
    BY <1>14 DEF EncoderReplies
  <2>2. CASE Lose(r, e)
    BY <1>6, <2>1, <2>2
  <2>3. CASE post' = [post EXCEPT ![r][e].st = "done"] /\ UNCHANGED waste
    <3>1. /\ post'[r][e].todo = <<>>
          /\ \A q \in Request : \A k \in Encoder : q # r \/ k # e => post'[q][k] = post[q][k]
      BY <2>1, <2>3, DoneSet
    <3>2. ring' = ring /\ work' = work /\ \A w \in Worker : deaths[w] <= deaths'[w]
      BY <1>2, <2>1 DEF stagingVars
    <3>3. \A w \in Worker : work[w].req = {} => work[w].staged = <<>>
      BY DEF Lists
    <3>4. ASSUME NEW q \in Request, NEW k \in Encoder
          PROVE  /\ post'[q][k].todo = post[q][k].todo
                 /\ post'[q][k].st # "sent" => post'[q][k].todo = <<>>
      <4>1. CASE q = r /\ k = e
        BY <2>1, <3>1, <4>1
      <4>2. CASE q # r \/ k # e
        <5>1. post'[q][k] = post[q][k]
          BY <3>1, <4>2
        <5> QED BY <5>1 DEF Lists
      <4> QED BY <4>1, <4>2
    <3> QED BY <2>3, <3>2, <3>3, <3>4 DEF Drops
  <2> QED BY <1>14, <2>2, <2>3 DEF EncoderReplies
<1>15. ASSUME NEW r \in Request, NEW e \in Encoder, CallFails(r, e) PROVE Drops
  BY <1>6, <1>15 DEF CallFails
<1> QED BY <1>3, <1>7, <1>8, <1>9, <1>10, <1>11, <1>12, <1>13, <1>14, <1>15
        DEF EpdNext, RouterStep, PoolStep, Fault

(* Every step of the system keeps the invariant. *)
LEMMA EpdSteps ==
  ASSUME EpdInv, [EpdNext]_epdVars
  PROVE  EpdInv'
<1>1. CASE EpdNext
  <2>1. EpdTypes'
    BY <1>1, TypesKept DEF EpdInv
  <2>2. Rings' /\ Lists' /\ Accounts'
    BY <1>1, <2>1, ListsKept DEF EpdInv
  <2>3. Flow'
    BY <1>1, <2>1, FlowKept DEF EpdInv
  <2>4. Answers'
    BY <1>1, <2>1, AnswersKept DEF EpdInv
  <2> QED BY <2>1, <2>2, <2>3, <2>4 DEF EpdInv
<1>2. CASE UNCHANGED epdVars
  <2>1. UNCHANGED <<ring, deaths, readers, st, media, tasks, work, post, ready, waste, encoded>>
    BY <1>2 DEF epdVars, stagingVars, routerVars
  <2>2. EpdTypes'
    BY <2>1 DEF EpdInv, EpdTypes
  <2>3. Rings' /\ Lists' /\ Accounts'
    BY <2>1 DEF EpdInv, Rings, Lists, Accounts
  <2>4. Flow' /\ Answers'
    BY <2>1 DEF EpdInv, Flow, Answers, Rendering, Asked
  <2> QED BY <2>2, <2>3, <2>4 DEF EpdInv
<1> QED BY <1>1, <1>2

(* At every moment the shared memory's read and write counts are the        *)
(* accounts of the descriptors that are on their way: a slot is owed a read *)
(* for each of them, and each reads what was staged (put_item, get_item and *)
(* drop_request through the pool, the router and the encoders, with deaths, *)
(* timeouts and lost calls).                                                *)
THEOREM StagingAccounts == EpdSpec => []EpdInv
<1>1. EpdInit => EpdInv
  BY EpdStarts
<1>2. EpdInv /\ [EpdNext]_epdVars => EpdInv'
  BY EpdSteps
<1> QED BY <1>1, <1>2, PTL DEF EpdSpec

------------------------------------------------------------------------------
(* What it says. *)

(* The ids of the live slots are the numbers from the first on, each once. *)
LEMMA LiveCounted ==
  ASSUME NEW r \in RingType, InOrder(r)
  PROVE  Cardinality(Live(r)) = r.next - r.first
<1>0. /\ Slots \in Nat \ {0} /\ \A a \in Address : a \in Nat /\ a < Slots
      /\ r.first \in Nat /\ r.next \in Nat /\ r.end \in Address /\ r.cell \in [Address -> CellType]
  BY StagingAssumption DEF RingType, Address
<1>1. \A a \in Address : r.cell[a].id \in Int
  BY <1>0 DEF CellType
<1> DEFINE ids == r.first .. r.next - 1
           id == [a \in Live(r) |-> r.cell[a].id]
<1>2. id \in [Live(r) -> ids]
  <2>1. \A a \in Live(r) : r.cell[a].id \in ids
    BY <1>0, <1>1 DEF Live, InOrder
  <2> QED BY <2>1
<1>3. ASSUME NEW a \in Live(r), NEW b \in Live(r), id[a] = id[b] PROVE a = b
  <2>1. PICK i \in Int : i = r.cell[a].id /\ i = r.cell[b].id
    BY <1>1, <1>3 DEF Live
  <2>2. /\ a = r.end - (r.next - i) \/ a = r.end - (r.next - i) + Slots
        /\ b = r.end - (r.next - i) \/ b = r.end - (r.next - i) + Slots
    BY <2>1 DEF InOrder
  <2>3. a \in Nat /\ a < Slots /\ b \in Nat /\ b < Slots /\ r.end \in Nat
    BY <1>0 DEF Live
  <2> QED BY <1>0, <2>1, <2>2, <2>3
<1>4. \A i \in ids : \E a \in Live(r) : id[a] = i
  <2> SUFFICES ASSUME NEW i \in ids PROVE \E a \in Live(r) : id[a] = i
    OBVIOUS
  <2>1. PICK a \in Address : r.cell[a].id = i
    BY DEF InOrder
  <2>2. a \in Live(r)
    BY <1>0, <2>1 DEF Live
  <2> QED BY <2>1, <2>2
<1>5. IsFiniteSet(ids) /\ Cardinality(ids) = r.next - r.first
  <2>1. r.first <= r.next
    BY DEF InOrder
  <2>2. PICK last \in Int : last = r.next - 1
    BY <1>0
  <2>3. /\ IsFiniteSet(r.first .. last)
        /\ Cardinality(r.first .. last) = IF r.first > last THEN 0 ELSE last - r.first + 1
    <3>1. r.first \in Int
      BY <1>0
    <3> HIDE DEF ids, id
    <3> QED BY <3>1, FS_Interval
  <2>4. ids = r.first .. last
    BY <2>2
  <2> QED BY <1>0, <2>1, <2>2, <2>3, <2>4
<1> HIDE DEF ids, id
<1>6. id \in Injection(Live(r), ids)
  BY <1>2, <1>3 DEF Injection, IsInjective
<1>7. id \in Surjection(Live(r), ids)
  BY <1>2, <1>4 DEF Surjection
<1>8. Cardinality(Live(r)) = Cardinality(ids)
  BY <1>5, <1>6, <1>7, FS_Injection
<1> QED BY <1>5, <1>8

(* The invariant contains the type invariant. *)
LEMMA TypesHold == EpdInv => StagingTypeOK
<1> SUFFICES ASSUME EpdInv PROVE StagingTypeOK
  OBVIOUS
<1>1. EpdTypes /\ Rings /\ Answers
  BY DEF EpdInv
<1>2. ASSUME NEW s \in Segment
      PROVE  /\ ring[s].first \in 0 .. ring[s].next
             /\ Cardinality(Live(ring[s])) = ring[s].next - ring[s].first
             /\ ring[s].end \in Address
             /\ \A a \in Address : ring[s].cell[a].hash \in Hash \cup {WarmUp}
  <2>1. ring[s] \in RingType /\ InOrder(ring[s])
    BY <1>1 DEF EpdTypes, Rings
  <2>2. Cardinality(Live(ring[s])) = ring[s].next - ring[s].first
    BY <2>1, LiveCounted
  <2>3. ring[s].first \in 0 .. ring[s].next /\ ring[s].end \in Address
    BY <2>1 DEF RingType, InOrder
  <2>4. \A a \in Address : ring[s].cell[a].hash \in Hash \cup {WarmUp}
    BY <2>1 DEF RingType, CellType
  <2> QED BY <2>2, <2>3, <2>4
<1>3. \A e \in Encoder : readers[e] \subseteq Segment
  BY <1>1 DEF EpdTypes
<1>4. st \in [Request -> {"new", "rendering", "gathering", "driving"} \cup Ended]
  BY <1>1 DEF EpdTypes
<1>5. \A w \in Worker : \A i \in DOMAIN work[w].staged : work[w].staged[i] \in Staged
  BY <1>1 DEF EpdTypes
<1>6. ASSUME NEW r \in Request, NEW e \in Encoder PROVE Range(post[r][e].todo) \subseteq Staged
  <2>1. post[r][e].todo \in Seq(Staged)
    BY <1>1 DEF EpdTypes, Call
  <2> QED BY <2>1 DEF Range
<1>7. \A r \in Request : ready[r] \subseteq Range(media[r])
  BY <1>1 DEF Answers
<1> QED BY <1>2, <1>3, <1>4, <1>5, <1>6, <1>7 DEF StagingTypeOK

(* A descriptor on its way is of a live slot that holds its item. *)
LEMMA StaysReadable == EpdInv => AwaitedStaysReadable
<1> SUFFICES ASSUME EpdInv, NEW d \in Awaited, NEW s \in Segment, Name(s) = d.name
             PROVE  ring[s].cell[d.address].id = d.id /\ d.id >= ring[s].first
  BY DEF AwaitedStaysReadable
<1>1. EpdTypes /\ Lists /\ Accounts
  BY DEF EpdInv
<1>2. d.name = s
  BY DEF Name
<1>3. CASE \E w \in Worker : d \in Wires(work[w].staged)
  <2>1. PICK w \in Worker : \E i \in DOMAIN work[w].staged : work[w].staged[i].wire = d /\ d # Inline
    BY <1>3 DEF Wires
  <2>2. PICK i \in DOMAIN work[w].staged : work[w].staged[i].wire = d /\ d # Inline
    BY <2>1
  <2>3. d.address \in Live(ring[s]) /\ ring[s].cell[d.address].id = d.id
    BY <1>1, <1>2, <2>2, StagedIsHeld
  <2> QED BY <2>3 DEF Live
<1>4. CASE \E r \in Request, e \in Encoder : d \in Wires(post[r][e].todo)
  <2>1. PICK r \in Request, e \in Encoder :
          \E i \in DOMAIN post[r][e].todo : post[r][e].todo[i].wire = d /\ d # Inline
    BY <1>4 DEF Wires
  <2>2. PICK i \in DOMAIN post[r][e].todo : post[r][e].todo[i].wire = d /\ d # Inline
    BY <2>1
  <2>3. d.address \in Live(ring[s]) /\ ring[s].cell[d.address].id = d.id
    BY <1>1, <1>2, <2>2, CalledIsHeld
  <2> QED BY <2>3 DEF Live
<1> QED BY <1>3, <1>4 DEF Awaited, WiresLeft

(* A slot that is not read up has a read to come or one that was given up. *)
LEMMA HeldWithReason == EpdInv => HeldForAReason
<1> SUFFICES ASSUME EpdInv, NEW s \in Segment, NEW a \in Live(ring[s]), Unread(ring[s].cell[a]),
                    Handle(s, a, ring[s].cell[a].id) \notin waste
             PROVE  Handle(s, a, ring[s].cell[a].id) \in Awaited
  BY DEF HeldForAReason
<1>1. EpdTypes /\ Accounts
  BY DEF EpdInv
<1>2. PICK c \in CellType : c = ring[s].cell[a]
  BY <1>1 DEF EpdTypes, RingType, Live
<1>3. PICK d : d = Handle(s, a, c.id)
  OBVIOUS
<1>4. Owes(c, StagedAt(work, d), CalledWith(post, d), TRUE)
  BY <1>1, <1>2, <1>3 DEF Accounts, Owed, Owes
<1>5. StagedAt(work, d) # {} \/ CalledWith(post, d) # {}
  <2> SUFFICES ASSUME StagedAt(work, d) = {}, CalledWith(post, d) = {} PROVE FALSE
    OBVIOUS
  <2>1. Cardinality({}) = 0
    BY FS_EmptySet
  <2>2. c.reads \in Nat /\ c.writes \in Nat /\ c.reads < c.writes
    BY <1>2 DEF CellType, Unread
  <2> QED BY <1>4, <2>1, <2>2 DEF Owes
<1>6. d # Inline
  <2>1. a \in Address /\ c.id \in Int /\ c.id >= ring[s].first /\ ring[s].first \in Nat
    BY <1>1, <1>2 DEF Live, CellType, EpdTypes, RingType
  <2>2. c.id \in Nat
    BY <2>1
  <2> QED BY <1>3, <2>1, <2>2, HandleIsWire
<1>7. CASE StagedAt(work, d) # {}
  <2>1. PICK w \in Worker : \E i \in DOMAIN work[w].staged : work[w].staged[i].wire = d
    BY <1>7, StagedPlaces
  <2>2. d \in Wires(work[w].staged)
    BY <1>6, <2>1 DEF Wires
  <2> QED BY <1>2, <1>3, <2>2 DEF Awaited
<1>8. CASE CalledWith(post, d) # {}
  <2>1. PICK r \in Request, e \in Encoder : \E i \in DOMAIN post[r][e].todo : post[r][e].todo[i].wire = d
    BY <1>8 DEF CalledWith
  <2>2. d \in WiresLeft(r, e)
    BY <1>6, <2>1 DEF Wires, WiresLeft
  <2> QED BY <1>2, <1>3, <2>2 DEF Awaited
<1> QED BY <1>5, <1>7, <1>8

(* What a request is driven with was encoded. *)
LEMMA DrivenSound == EpdInv => DrivenWithEncoded
  BY DEF EpdInv, Answers, DrivenWithEncoded

(* Nothing is begun for a request that has ended. *)
LEMMA EndedStays ==
  ASSUME EpdInv, [EpdNext]_epdVars, NEW r \in Request, st[r] \in Ended
  PROVE  /\ st'[r] = st[r]
         /\ \A e \in Encoder : post[r][e].st = "none" => post'[r][e].st = "none"
<1>1. EpdTypes /\ Rings /\ Lists /\ Accounts /\ Flow
  BY DEF EpdInv
<1>2. /\ st \in [Request -> {"new", "rendering", "gathering", "driving"} \cup Ended]
      /\ post \in [Request -> [Encoder -> Call]]
      /\ st[r] \notin {"new", "rendering", "gathering", "driving"}
  BY <1>1 DEF EpdTypes, Ended
(* Nothing of the request changes but a call in flight. *)
<1>3. ASSUME NEW q \in Request, NEW e \in Encoder, Lose(q, e), post[q][e].st = "sent"
      PROVE  \A k \in Encoder : post[r][k].st = "none" => post'[r][k].st = "none"
  <2>1. PICK v \in Call : v = [st |-> "lost", todo |-> <<>>]
    <3>1. [st |-> "lost", todo |-> <<>>] \in Call
      BY DEF Call
    <3> QED BY <3>1
  <2>2. post' = [post EXCEPT ![q][e] = v]
    BY <1>3, <2>1 DEF Lose
  <2>3. \A x \in Request : \A k \in Encoder : x # q \/ k # e => post'[x][k] = post[x][k]
    BY <1>1, <2>2, CallSet
  <2> QED BY <1>3, <2>3
<1>4. CASE UNCHANGED epdVars
  BY <1>4 DEF epdVars, routerVars
<1>5. ASSUME NEW q \in Request,
             Submit(q) \/ RenderTimeout(q) \/ GatherFails(q) \/ Gathered(q) \/ Answer(q) \/ ClientLeaves(q)
      PROVE  st'[r] = st[r] /\ post' = post
  <2>1. q # r /\ post' = post
    BY <1>2, <1>5 DEF Submit, RenderTimeout, MayTimeOut, WaitedFor, GatherFails, Gathered, Answer, ClientLeaves
  <2>2. \E x : st' = [st EXCEPT ![q] = x]
    BY <1>5 DEF Submit, RenderTimeout, GatherFails, Gathered, Answer, ClientLeaves
  <2> QED BY <1>2, <2>1, <2>2
<1>6. ASSUME NEW w \in Worker,
             TakeTask(w) \/ WorkerDies(w) \/ \E q \in Request : StageItem(w, q) \/ RenderFails(w, q)
      PROVE  st'[r] = st[r] /\ post' = post
  <2>1. CASE TakeTask(w) \/ WorkerDies(w)
    BY <2>1 DEF TakeTask, WorkerDies
  <2>2. ASSUME NEW q \in Request, StageItem(w, q) PROVE st'[r] = st[r] /\ post' = post
    BY <2>2 DEF StageItem
  <2>3. ASSUME NEW q \in Request, RenderFails(w, q) PROVE st'[r] = st[r] /\ post' = post
    BY <1>2, <2>3 DEF RenderFails, WaitedFor
  <2> QED BY <1>6, <2>1, <2>2, <2>3
<1>7. ASSUME NEW w \in Worker, NEW q \in Request, Rendered(w, q)
      PROVE  st'[r] = st[r] /\ post'[r] = post[r]
  <2>1. CASE WaitedFor(q)
    <3>1. /\ \E x : st' = [st EXCEPT ![q] = x]
          /\ \E x : post' = [post EXCEPT ![q] = x]
      BY <1>7, <2>1 DEF Rendered
    <3>2. q # r
      BY <1>2, <2>1 DEF WaitedFor
    <3> QED BY <1>2, <3>1, <3>2
  <2>2. CASE ~WaitedFor(q)
    BY <1>7, <2>2 DEF Rendered
  <2> QED BY <2>1, <2>2
<1>8. ASSUME NEW q \in Request, NEW e \in Encoder, EncoderReads(q, e)
      PROVE  st'[r] = st[r] /\ \A k \in Encoder : post[r][k].st = "none" => post'[r][k].st = "none"
  <2>1. PICK todo \in Seq(Staged), it \in Staged : Reads(q, e, todo, it)
    BY <1>1, <1>8, EncoderReadsReads
  <2>2. /\ post'[q][e].st = post[q][e].st
        /\ \A x \in Request : \A k \in Encoder : x # q \/ k # e => post'[x][k] = post[x][k]
    BY <1>1, <2>1, ReadsEffect
  <2>3. st' = st
    BY <1>8 DEF EncoderReads
  <2> QED BY <2>2, <2>3
<1>9. ASSUME NEW q \in Request, NEW e \in Encoder, EncoderReplies(q, e) \/ CallFails(q, e)
      PROVE  st'[r] = st[r] /\ \A k \in Encoder : post[r][k].st = "none" => post'[r][k].st = "none"
  <2>1. post[q][e].st = "sent" /\ st' = st
    BY <1>9 DEF EncoderReplies, CallFails
  <2>2. CASE Lose(q, e)
    BY <1>3, <2>1, <2>2
  <2>3. CASE post' = [post EXCEPT ![q][e].st = "done"]
    <3>1. \A x \in Request : \A k \in Encoder : x # q \/ k # e => post'[x][k] = post[x][k]
      BY <1>1, <2>3, DoneSet
    <3> QED BY <2>1, <3>1
  <2> QED BY <1>9, <2>2, <2>3 DEF EncoderReplies, CallFails
<1> QED BY <1>4, <1>5, <1>6, <1>7, <1>8, <1>9 DEF EpdNext, RouterStep, PoolStep, Fault

(* The stores, the readers' segments, the requests, the lists and the calls *)
(* have their types, and a store's live slots are as many as its ids        *)
(* (SingleWriterShmObjectStorage, EncodeRouter, the preprocessing pool).    *)
THEOREM StagingTyped == EpdSpec => []StagingTypeOK
  BY StagingAccounts, TypesHold, PTL

(* A descriptor that a worker's list or a call still carries can be read: *)
(* the writer's ring never gives its slot to another item, however the    *)
(* pool, the router and the encoders interleave                           *)
(* (SingleWriterShmRingBuffer.free_buf under the reference counts of      *)
(* put_item and get_item).                                                *)
THEOREM DescriptorsStayReadable == EpdSpec => []AwaitedStaysReadable
  BY StagingAccounts, StaysReadable, PTL

(* A slot that the ring must not reuse waits for a reader that is on its    *)
(* way, unless the read was given up: by a duplicate that encode_request    *)
(* drops, a worker's death, a failed or timed-out call (the slots that leak *)
(* in the code are exactly these).                                          *)
THEOREM SlotsHeldForReaders == EpdSpec => []HeldForAReason
  BY StagingAccounts, HeldWithReason, PTL

(* The decoder is driven only when each of the request's items is ready, *)
(* and each was encoded from its own pixels (encode_request, _gather and *)
(* the completions handler).                                             *)
THEOREM DrivenWithWhatWasEncoded == EpdSpec => []DrivenWithEncoded
  BY StagingAccounts, DrivenSound, PTL

(* A request that was answered, refused or left stays so, and no call to an *)
(* encoder is begun for it.                                                 *)
THEOREM EndedStartsNothing == EpdSpec => NoWorkForEnded
<1>1. EpdInv /\ [EpdNext]_epdVars
        => [\A r \in Request : st[r] \in Ended =>
              /\ st'[r] = st[r]
              /\ \A e \in Encoder : post[r][e].st = "none" => post'[r][e].st = "none"]_epdVars
  BY EndedStays
<1> QED BY <1>1, StagingAccounts, PTL DEF EpdSpec, NoWorkForEnded
==============================================================================
